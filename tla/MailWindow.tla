----------------------------- MODULE MailWindow -----------------------------
(***************************************************************************)
(* The message list of the main window (internal/ui): one account's        *)
(* folder, or the INBOXes of all accounts as one list.  Actors: the user;  *)
(* goroutines that load lists, delete and move messages and wait for       *)
(* timers; the callbacks for new mail; the user interface's thread, which  *)
(* runs the closures that these leave with fyne.Do in their order.         *)
(*                                                                         *)
(* The list is an array and a length: selected messages are pointers into  *)
(* the array, which stays when the list is sorted or shortened in place    *)
(* and is left behind when the list is replaced.                           *)
(***************************************************************************)
EXTENDS Selection, UnifiedMerge

CONSTANTS Accounts, None, Inbox,
          Messages,    \* records of account, folder and UID
          Old,         \* those that are in the mailboxes at first; the others arrive
          Date,        \* the order of arrival
          MaxCommands, \* bound on what the user does
          MaxFaults    \* bound on failed calls

ASSUME MessagesAssumption ==
  /\ IsFiniteSet(Messages) /\ Old \subseteq Messages /\ Date \in [Messages -> Nat]
  /\ \A m \in Messages : m.acct \in Accounts /\ m.uid \in Nat \ {0}
  /\ \A m1, m2 \in Messages :
       (\/ Date[m1] = Date[m2]
        \/ m1.acct = m2.acct /\ m1.folder = m2.folder /\ m1.uid = m2.uid) => m1 = m2
ASSUME WindowAssumption == None \notin Accounts /\ MaxCommands \in Nat /\ MaxFaults \in Nat

VARIABLES
  view,     \* the account and the folder shown, or the unified inbox; the client
  list,     \* mw.messages: an array, how much of it is shown, and how much is sorted;
            \* history: whether more than is shown was sorted
  picked,   \* mw.selectedMessage
  sm,       \* the selection manager
  row,      \* the row that the list widget has selected, or 0
  newest,   \* whether the newest message is at the top
  fetching, \* freshFetchInProgress
  suppress, \* unifiedInboxDeleteInProgress
  tasks,    \* the goroutines, in the order in which they were started
  ui,       \* the closures left for the thread of the user interface
  dialog,   \* the question put to the user
  mail,     \* the messages on the servers
  cache,    \* the lists cached for each mailbox
  left,     \* the commands, faults and arrivals that are left
  missed,   \* history: whether a load was dropped, has failed, or came after a later one
  shaken,   \* history: whether the array, or what is selected for the question, has
            \* changed while messages were being removed
  stuck     \* history: accounts whose removal ended without anybody to clear suppress

selection == <<picked, sm, row>>
running == <<tasks, ui, dialog>>
server == <<mail, cache>>
history == <<missed, shaken, stuck>>
vars == <<view, list, selection, newest, fetching, suppress, running, server, left, history>>

Boxes == {<<m.acct, m.folder>> : m \in Messages}
In(acct, folder) == {m \in mail : m.acct = acct /\ m.folder = folder}
NotCached == [found |-> FALSE, msgs |-> {}]
Cached(msgs) == [found |-> TRUE, msgs |-> msgs]

\* convertMessagesToIndexItems: an item says which account and folder its message
\* is from; id is the message itself.  Without an account there are no items.
Items(acct, folder, msgs) ==
  IF acct = None THEN {}
  ELSE {[acct |-> acct, folder |-> folder, uid |-> m.uid, id |-> m] : m \in msgs}

\* The message that an item names: that with its UID in the mailbox it is said to
\* be from.
Named(x) == {m \in Messages : m.acct = x.acct /\ m.folder = x.folder /\ m.uid = x.uid}

\* The items of the unified inbox.
Unified(msgs) == UNION {Items(m.acct, m.folder, {m}) : m \in msgs}

\* The place of an item in a list is the number of those before it.
Before(x, y, newestFirst) ==
  IF newestFirst THEN Date[x.id] > Date[y.id] ELSE Date[x.id] < Date[y.id]
Listed(items) ==
  [arr |-> [k \in 1..Cardinality(items) |->
              CHOOSE x \in items : Cardinality({y \in items : Before(y, x, newest)}) = k - 1],
   n |-> Cardinality(items), sorted |-> Cardinality(items), resorted |-> FALSE]

\* A list in its order; an item that is there twice stays so.
Place(s, i, newestFirst) ==
  Cardinality({j \in DOMAIN s : \/ Before(s[j], s[i], newestFirst)
                                \/ s[j].id = s[i].id /\ j < i})
Sorted(s, newestFirst) ==
  [k \in DOMAIN s |-> s[CHOOSE i \in DOMAIN s : Place(s, i, newestFirst) = k - 1]]
Shown == SubSeq(list.arr, 1, list.n)
Deref(p) == IF p.slot > 0 THEN list.arr[p.slot] ELSE p.item

With(fields, blank) ==
  [f \in DOMAIN blank |-> IF f \in DOMAIN fields THEN fields[f] ELSE blank[f]]
Task(kind, fields) ==
  With(fields, [kind |-> kind, acct |-> None, folder |-> Inbox, force |-> FALSE, at |-> "start",
                how |-> "none", ptrs |-> <<>>, want |-> {}, msgs |-> {}, index |-> 0])
Closure(kind, fields) ==
  With(fields, [kind |-> kind, folder |-> Inbox, msgs |-> {}, ptrs |-> <<>>, index |-> 0])

Quiet == tasks = <<>> /\ ui = <<>>

\* Messages are being removed, or the user is asked whether they shall be.  Items
\* that change their places meanwhile shake it; it settles when it is over.
Removing == dialog # <<>> \/ \E i \in DOMAIN tasks : tasks[i].kind \in {"op", "batch"}
Shake == shaken' = (shaken \/ Removing)
Settle == shaken' = (shaken /\ Removing')

Init ==
  /\ view \in {[unified |-> TRUE, acct |-> None, folder |-> None, client |-> None]}
        \cup {[unified |-> FALSE, acct |-> b[1], folder |-> b[2], client |-> b[1]] : b \in Boxes}
  /\ newest = TRUE
  /\ list = Listed(IF view.unified THEN Unified({m \in Old : m.folder = Inbox})
                   ELSE Unified({m \in Old : m.acct = view.acct /\ m.folder = view.folder}))
  /\ picked = NoPtr /\ sm = NoSelection /\ row = 0
  /\ fetching = FALSE /\ suppress = {}
  /\ tasks = <<>> /\ ui = <<>> /\ dialog = <<>>
  /\ mail = Old
  /\ cache \in {[b \in Boxes |-> Cached({m \in Old : <<m.acct, m.folder>> = b})],
                [b \in Boxes |-> NotCached]}   \* after a day, or once it was cleared
  /\ left = [commands |-> MaxCommands, faults |-> MaxFaults, mail |-> Messages \ Old]
  /\ missed = FALSE /\ shaken = FALSE /\ stuck = {}

-----------------------------------------------------------------------------
(* The list, the pointers into it, and the selection.                       *)

\* What becomes of a pointer, and of those in tasks, closures or dialogs, when the
\* list gets another array.
Behind(p) == IF p.slot > 0 THEN [slot |-> 0, item |-> list.arr[p.slot]] ELSE p
LeaveArray(rest) ==
  LET follow(holders) ==
        [i \in DOMAIN holders |->
           [holders[i] EXCEPT !.ptrs = [j \in DOMAIN @ |-> Behind(@[j])]]]
  IN  tasks' = follow(tasks) /\ ui' = follow(rest) /\ dialog' = follow(dialog)

\* Fault: the selected message is forgotten, the manager's indices are not.
clearMessageSelection_KeepsIndices == picked' = NoPtr /\ row' = 0 /\ UNCHANGED sm

clearMessageSelection == picked' = NoPtr /\ sm' = NoSelection /\ row' = 0

\* selectMessage: it replaces what was selected before.
selectMessage(i) ==
  /\ picked' = Slot(i)
  /\ IF SelectionCount(sm) > 0 THEN sm' = NoSelection /\ row' = 0
                               ELSE UNCHANGED <<sm, row>>

\* List.Select after the manager has become s: unless the row is selected
\* already, OnSelected calls selectMessage, which clears the manager again.
listSelect(s, i) ==
  IF row = i THEN sm' = s /\ UNCHANGED row
  ELSE IF SelectionCount(s) > 0 THEN sm' = NoSelection /\ row' = 0
  ELSE sm' = s /\ row' = i

Do(c) == ui' = Append(ui, c)
Run(t) == tasks' = Append(tasks, t)

\* selectFolderWithOptions on the thread of the user interface.
selectFolder(folder, force) ==
  IF view.unified \/ view.acct = None THEN UNCHANGED <<view, tasks>>
  ELSE /\ view' = [view EXCEPT !.folder = folder]
       /\ Run(Task("load", [folder |-> folder, force |-> force]))

-----------------------------------------------------------------------------
(* The user, who waits for nothing but the answer to a question.           *)

Command == dialog = <<>> /\ left.commands > 0 /\ left' = [left EXCEPT !.commands = @ - 1]

selectUnifiedInbox ==
  /\ Command
  /\ view' = [unified |-> TRUE, acct |-> None, folder |-> None, client |-> view.client]
  /\ picked' = NoPtr
  /\ Run(Task("uload", <<>>))
  /\ UNCHANGED <<list, sm, row, newest, fetching, suppress, ui, dialog, server, history>>

selectAccount(a) ==
  /\ Command
  /\ view' = [unified |-> FALSE, acct |-> a, folder |-> None, client |-> a]
  /\ list' = Listed({}) /\ LeaveArray(ui)
  /\ clearMessageSelection
  /\ UNCHANGED <<newest, fetching, suppress, server, history>>

SelectFolder(folder) ==
  /\ Command /\ <<view.acct, folder>> \in Boxes
  /\ selectFolder(folder, FALSE)
  /\ UNCHANGED <<list, selection, newest, fetching, suppress, ui, dialog, server, history>>

\* The folder subscription dialog has deleted the current folder: the list and
\* the selected message go, the manager keeps its own.
handleDeletedFolder ==
  /\ Command /\ view.folder \notin {None, Inbox}
  /\ list' = Listed({}) /\ LeaveArray(Append(ui, Closure("fallback", [folder |-> view.folder])))
  /\ picked' = NoPtr /\ sm' = [sm EXCEPT !.shown = Behind(@)]
  /\ UNCHANGED <<view, row, newest, fetching, suppress, server, history>>

Tapped(i, ctrl, shift) ==
  /\ Command
  /\ LET s == SelectMessageMultiple(sm, i, ctrl, shift)
     IN  picked' = (IF row = i THEN s.shown ELSE Slot(i)) /\ listSelect(s, i)
  /\ UNCHANGED <<view, list, newest, fetching, suppress, running, server, history>>

TappedSecondary(i, ctrl) ==
  /\ Command
  /\ LET s == IF i \in sm.marks THEN sm
              ELSE SelectMessageMultiple(sm, i, GetSelectedMessages(sm, list.n) # {} \/ ctrl, FALSE)
     IN  /\ picked' = IF row # i THEN Slot(i) ELSE IF i \in sm.marks THEN picked ELSE s.shown
         /\ listSelect(s, i)
  /\ UNCHANGED <<view, list, newest, fetching, suppress, running, server, history>>

selectAllMessages ==
  /\ Command
  /\ sm' = SelectAllMessages(sm, list.n) /\ picked' = sm'.shown
  /\ UNCHANGED <<view, list, row, newest, fetching, suppress, running, server, history>>

clearSelection ==
  /\ Command
  /\ sm' = NoSelection /\ picked' = NoPtr
  /\ UNCHANGED <<view, list, row, newest, fetching, suppress, running, server, history>>

\* SetSortBy and ToggleSortOrder sort what the controller was given last, which
\* is more than is shown when an item was taken out since.  The selection and all
\* pointers stay where they are.
ToggleSortOrder ==
  /\ Command
  /\ newest' = ~newest
  /\ list' = [list EXCEPT
                !.arr = Sorted(SubSeq(@, 1, list.sorted), ~newest) \o SubSeq(@, list.sorted + 1, Len(@)),
                !.resorted = @ \/ list.sorted # list.n]
  /\ row' = 0 /\ Shake
  /\ UNCHANGED <<view, picked, sm, fetching, suppress, running, server, missed, stuck>>

\* The question says how one message, or the selected ones, shall be removed;
\* want is history: the messages that the items picked for it name.
Ask(how, ptrs) ==
  dialog' = <<[how |-> how, ptrs |-> ptrs,
               want |-> UNION {Named(Deref(ptrs[i])) : i \in DOMAIN ptrs}]>>

Several == LET marked == GetSelectedMessages(sm, list.n)
           IN  [i \in 1..Cardinality(marked) |->
                  Slot(CHOOSE j \in marked : Cardinality({k \in marked : k <= j}) = i)]

\* moveToTrash asks when there are several, or there is no trash folder.
moveToTrash ==
  /\ Command
  /\ IF Len(Several) > 1 THEN Ask("batch", Several) /\ UNCHANGED tasks
     ELSE /\ ~Nil(picked)
          /\ \/ Ask("delete", <<picked>>) /\ UNCHANGED tasks
             \/ Run(Task("op", [ptrs |-> <<picked>>, want |-> Named(Deref(picked)), how |-> "trash"]))
                /\ UNCHANGED dialog
  /\ UNCHANGED <<view, list, selection, newest, fetching, suppress, ui, server, history>>

deleteMessage ==
  /\ Command
  /\ IF Len(Several) > 1 THEN Ask("batch", Several) ELSE ~Nil(picked) /\ Ask("delete", <<picked>>)
  /\ UNCHANGED <<view, list, selection, newest, fetching, suppress, tasks, ui, server, history>>

moveToFolder ==
  /\ Command
  /\ ~Nil(picked) /\ view.acct # None
  /\ Ask("move", <<picked>>)
  /\ UNCHANGED <<view, list, selection, newest, fetching, suppress, tasks, ui, server, history>>

\* The answer.  The operation on one message takes the message that is selected
\* now, the one on several takes those that were when the question was asked.
Confirm ==
  /\ dialog # <<>> /\ dialog' = <<>>
  /\ LET q == dialog[1] IN
     CASE q.how = "batch" -> Run(Task("batch", [ptrs |-> q.ptrs, want |-> q.want]))
       [] q.how # "batch" /\ Nil(picked) -> UNCHANGED tasks
       [] q.how # "batch" /\ ~Nil(picked)
            -> Run(Task("op", [ptrs |-> <<picked>>, want |-> q.want, how |-> q.how]))
  /\ Settle
  /\ UNCHANGED <<view, list, selection, newest, fetching, suppress, ui, server, left, missed, stuck>>

Cancel ==
  /\ dialog # <<>> /\ dialog' = <<>>
  /\ UNCHANGED <<view, list, selection, newest, fetching, suppress, tasks, ui, server, left, missed, stuck>>
  /\ Settle

-----------------------------------------------------------------------------
(* Goroutines.  end replaces a task by those that it starts.                 *)

Is(i, kind) == i \in DOMAIN tasks /\ tasks[i].kind = kind
end(i, more) == tasks' = RemoveAt(tasks, i) \o more
Fault == left.faults > 0 /\ left' = [left EXCEPT !.faults = @ - 1]

\* loadMessages of selectFolderWithOptions: one at a time, and the others are
\* dropped.
LoadStart(i) ==
  /\ Is(i, "load") /\ tasks[i].at = "start"
  /\ LET t == tasks[i]
         hit == IF <<view.acct, t.folder>> \in Boxes THEN cache[<<view.acct, t.folder>>]
                ELSE NotCached
     IN  IF fetching THEN end(i, <<>>) /\ missed' = TRUE /\ UNCHANGED <<fetching, ui>>
         ELSE /\ view.acct # None
              /\ fetching' = TRUE /\ missed' = (missed \/ t.folder # view.folder)
              /\ IF hit.found THEN Do(Closure("show", [folder |-> t.folder, msgs |-> hit.msgs]))
                              ELSE UNCHANGED ui
              /\ tasks' = [tasks EXCEPT ![i].at = IF hit.found /\ ~t.force THEN "done" ELSE "fetch"]
  /\ UNCHANGED <<view, list, selection, newest, suppress, dialog, server, left, shaken, stuck>>

\* Without a current account there is no name of one to read: the process ends.
LoadCrash(i) ==
  /\ Is(i, "load") /\ tasks[i].at = "start"
  /\ ~fetching /\ view.acct = None
  /\ tasks' = <<>> /\ ui' = <<>> /\ dialog' = <<>> /\ suppress' = {} /\ Settle
  /\ left' = [left EXCEPT !.commands = 0, !.mail = {}]
  /\ UNCHANGED <<view, list, selection, newest, fetching, server, missed, stuck>>

\* The answer is cached by the client that fetched it, which may be another
\* account's by now.
LoadFetch(i) ==
  /\ Is(i, "load") /\ tasks[i].at = "fetch"
  /\ tasks' = [tasks EXCEPT ![i].at = "done"]
  /\ LET folder == tasks[i].folder
         msgs == In(view.client, folder)
     IN  \/ /\ Do(Closure("fresh", [folder |-> folder, msgs |-> msgs]))
            /\ cache' = [b \in Boxes |-> IF b = <<view.client, folder>> THEN Cached(msgs) ELSE cache[b]]
            /\ UNCHANGED <<left, history>>
         \/ /\ Fault /\ Do(Closure("failed", <<>>)) /\ missed' = TRUE
            /\ UNCHANGED <<cache, shaken, stuck>>
  /\ UNCHANGED <<view, list, selection, newest, fetching, suppress, dialog, mail>>

\* Fault: after a failure the flag is not cleared.
LoadEnd_KeepsFlag(i) ==
  /\ Is(i, "load") /\ tasks[i].at = "done"
  /\ end(i, <<>>) /\ fetching' = (fetching /\ missed)
  /\ UNCHANGED <<view, list, selection, newest, suppress, ui, dialog, server, left, history>>

LoadEnd(i) ==
  /\ Is(i, "load") /\ tasks[i].at = "done"
  /\ end(i, <<>>) /\ fetching' = FALSE
  /\ UNCHANGED <<view, list, selection, newest, suppress, ui, dialog, server, left, history>>

Inboxes == {a \in Accounts : <<a, Inbox>> \in Boxes}

\* loadUnifiedInboxMessages: what is cached, then the answers of all accounts.
\* want are the accounts whose answer is due.
UnifiedStart(i) ==
  /\ Is(i, "uload") /\ tasks[i].at = "start"
  /\ LET hits == {a \in Inboxes : cache[<<a, Inbox>>].found}
     IN  Do(IF hits = {} THEN Closure("uempty", <<>>)
            ELSE Closure("ucached", [msgs |-> UNION {cache[<<a, Inbox>>].msgs : a \in hits}]))
  /\ tasks' = [tasks EXCEPT ![i].at = "fetch", ![i].want = Accounts]
  /\ UNCHANGED <<view, list, selection, newest, fetching, suppress, dialog, server, left, history>>

UnifiedFetch(i) ==
  /\ Is(i, "uload") /\ tasks[i].at = "fetch"
  /\ \E a \in tasks[i].want :
       \/ /\ view.unified
          /\ tasks' = [tasks EXCEPT ![i].want = @ \ {a}, ![i].msgs = @ \cup In(a, Inbox)]
          /\ cache' = [b \in Boxes |-> IF b = <<a, Inbox>> THEN Cached(In(a, Inbox)) ELSE cache[b]]
          /\ UNCHANGED left
       \/ /\ IF view.unified THEN Fault ELSE UNCHANGED left
          /\ tasks' = [tasks EXCEPT ![i].want = @ \ {a}]
          /\ UNCHANGED cache
  /\ UNCHANGED <<view, list, selection, newest, fetching, suppress, ui, dialog, mail, history>>

UnifiedEnd(i) ==
  /\ Is(i, "uload") /\ tasks[i].at = "fetch" /\ tasks[i].want = {}
  /\ Do(Closure("uall", [msgs |-> tasks[i].msgs]))
  /\ end(i, <<>>)
  /\ UNCHANGED <<view, list, selection, newest, fetching, suppress, dialog, server, left, history>>

\* Fault: the account is forgotten.
Asked_ByUID(p) == LET x == Deref(p) IN {m \in mail : m.folder = x.folder /\ m.uid = x.uid}

\* Delete and MoveTo of an item: its account's client is asked for its UID.
Asked(p) == mail \cap Named(Deref(p))

\* The outcome of the call: done; or failed, whether it was done or not.
call(p, ok) ==
  IF ok THEN mail' = mail \ Asked(p) /\ UNCHANGED left
  ELSE mail' \in {mail, mail \ Asked(p)} /\ Fault

\* moveToTrash, performDelete and performMoveToFolder off the thread of the user
\* interface.  In the unified inbox new mail of the account is kept out meanwhile;
\* acct is history: the account.
OpStart(i) ==
  /\ Is(i, "op") /\ tasks[i].at = "start"
  /\ LET acct == Deref(tasks[i].ptrs[1]).acct
     IN  IF view.unified /\ tasks[i].how # "move"
         THEN /\ suppress' = suppress \cup {acct}
              /\ tasks' = [tasks EXCEPT ![i].at = "call", ![i].acct = acct]
         ELSE /\ tasks' = [tasks EXCEPT ![i].at = "call"]
              /\ UNCHANGED suppress
  /\ UNCHANGED <<view, list, selection, newest, fetching, ui, dialog, server, left, history>>

\* Fault: new mail is let in again only when the call has succeeded.
lifting_IfDone(t, ok) ==
  IF ok /\ view.unified /\ t.how # "move"
  THEN <<Task("lift", [acct |-> Deref(t.ptrs[1]).acct])>> ELSE <<>>

lifting(t, ok) ==
  IF view.unified /\ t.how # "move"
  THEN <<Task("lift", [acct |-> Deref(t.ptrs[1]).acct])>> ELSE <<>>

OpCall(i) ==
  /\ Is(i, "op") /\ tasks[i].at = "call"
  /\ \E ok \in BOOLEAN :
       LET t == tasks[i]
           refresh == IF ok /\ ~(view.unified /\ t.how # "move")
                      THEN <<Task("refresh", [folder |-> view.folder])>> ELSE <<>>
       IN  /\ call(t.ptrs[1], ok)
           /\ end(i, lifting(t, ok) \o refresh)
           /\ stuck' = IF view.unified /\ Deref(t.ptrs[1]).acct = t.acct THEN stuck
                       ELSE stuck \cup ({t.acct} \ {None})
           /\ CASE ok /\ t.how = "move" -> Do(Closure("moved", <<>>))
                [] ok /\ t.how # "move" /\ view.unified ->
                     Do(Closure("removed",
                                [ptrs |-> t.ptrs, index |-> IF t.how = "trash" THEN 1 ELSE 0]))
                [] OTHER -> UNCHANGED ui
  /\ UNCHANGED <<view, list, selection, newest, fetching, suppress, dialog, cache, missed>>
  /\ Settle

\* runBatchMessageOp: one message after the other, whether or not one fails.
BatchCall(i) ==
  /\ Is(i, "batch")
  /\ LET t == tasks[i] IN
     IF t.ptrs = <<>> THEN /\ Do(Closure("deselect", <<>>)) /\ end(i, <<>>)
                           /\ UNCHANGED <<mail, left>>
     ELSE /\ \E ok \in BOOLEAN : call(t.ptrs[1], ok)
          /\ tasks' = [tasks EXCEPT ![i].ptrs = Tail(@)]
          /\ UNCHANGED ui
  /\ UNCHANGED <<view, list, selection, newest, fetching, suppress, dialog, cache, missed, stuck>>
  /\ Settle

\* The timers: 200 ms after an operation new mail is let in, 50 ms after a message
\* went to the trash the next one is selected, and a refresh waits for the
\* debouncer, and for the folder to be shown still.
Lift(i) ==
  /\ Is(i, "lift") /\ end(i, <<>>)
  /\ suppress' = suppress \ {tasks[i].acct} /\ stuck' = stuck \ {tasks[i].acct}
  /\ UNCHANGED <<view, list, selection, newest, fetching, ui, dialog, server, left, missed, shaken>>

SelectNext(i) ==
  /\ Is(i, "next") /\ end(i, <<>>)
  /\ Do(Closure("next", [index |-> tasks[i].index]))
  /\ UNCHANGED <<view, list, selection, newest, fetching, suppress, dialog, server, left, history>>

Refresh(i) ==
  /\ Is(i, "refresh") /\ end(i, <<>>)
  /\ IF view.acct # None /\ tasks[i].folder = view.folder /\ view.folder # None
     THEN Do(Closure("reselect", [folder |-> view.folder])) ELSE UNCHANGED ui
  /\ UNCHANGED <<view, list, selection, newest, fetching, suppress, dialog, server, left, history>>

NewMail(m) ==
  /\ m \in left.mail /\ left' = [left EXCEPT !.mail = @ \ {m}]
  /\ mail' = mail \cup {m}
  /\ Run(Task("announce", [acct |-> m.acct, folder |-> m.folder, msgs |-> {m}]))
  /\ UNCHANGED <<view, list, selection, newest, fetching, suppress, ui, dialog, cache, history>>

\* Fault: mail for any folder of the account is taken for that of the folder shown.
monitors_AnyFolder(t) == ~view.unified /\ t.acct = view.client /\ view.folder # None

monitors(t) == ~view.unified /\ t.acct = view.client /\ t.folder = view.folder

\* The callbacks: the unified inbox keeps out what comes during a removal, the
\* list of a folder takes what comes into that folder.  Nothing is announced
\* when the folder is not monitored.
Announce(i) ==
  /\ Is(i, "announce") /\ end(i, <<>>)
  /\ LET t == tasks[i] IN
     CASE view.unified /\ t.folder = Inbox /\ t.acct \notin suppress
            -> Do(Closure("inject", [msgs |-> t.msgs]))
       [] monitors(t)
            -> Do(Closure("arrived", [folder |-> t.folder, msgs |-> t.msgs])) \/ UNCHANGED ui
       [] OTHER -> UNCHANGED ui
  /\ UNCHANGED <<view, list, selection, newest, fetching, suppress, dialog, server, left, history>>

-----------------------------------------------------------------------------
(* The thread of the user interface runs the closures in their order.       *)

Next1(kind) == ui # <<>> /\ ui[1].kind = kind
rest == Tail(ui)

\* Another list is shown, if there is still a use for it.
Replace(items) ==
  /\ list' = Listed(items) /\ LeaveArray(rest)
  /\ clearMessageSelection

Stay == UNCHANGED <<list, selection, tasks, dialog>> /\ ui' = rest

\* The lists of a folder are converted with the account that is current now.
showFolder ==
  /\ Next1("show") \/ Next1("fresh")
  /\ Replace(Items(view.acct, ui[1].folder, ui[1].msgs))
  /\ UNCHANGED <<view, newest, fetching, suppress, server, left, history>>

showFailed ==
  /\ Next1("failed")
  /\ IF list.n = 0 THEN Replace({}) ELSE Stay
  /\ UNCHANGED <<view, newest, fetching, suppress, server, left, history>>

showUnified ==
  /\ Next1("ucached") \/ Next1("uall")
  /\ IF view.unified THEN Replace(Unified(ui[1].msgs)) ELSE Stay
  /\ UNCHANGED <<view, newest, fetching, suppress, server, left, history>>

showLoading ==
  /\ Next1("uempty")
  /\ Replace({})
  /\ UNCHANGED <<view, newest, fetching, suppress, server, left, history>>

\* The list with what is new: in the same array if there is room in it.
merge(items) ==
  \E merged \in {mergeIntoUnifiedInbox(Shown, SetToSeq(items))} :
    LET n == Len(merged)
        tail == SubSeq(list.arr, n + 1, Len(list.arr))
    IN  /\ clearMessageSelection
        /\ \/ /\ list' = [list EXCEPT !.arr = Sorted(merged, newest) \o tail, !.n = n, !.sorted = n]
              /\ Shake /\ UNCHANGED <<tasks, dialog>> /\ ui' = rest
           \/ /\ n > Len(list.arr)
              /\ list' = [list EXCEPT !.arr = Sorted(merged, newest), !.n = n, !.sorted = n]
              /\ LeaveArray(rest) /\ UNCHANGED shaken

inject ==
  /\ Next1("inject")
  /\ LET items == Unified(ui[1].msgs)
     IN  IF view.unified /\ mergeIntoUnifiedInbox(Shown, SetToSeq(items)) # Shown
         THEN merge(items) ELSE Stay /\ UNCHANGED shaken
  /\ UNCHANGED <<view, newest, fetching, suppress, server, left, missed, stuck>>

arrived ==
  /\ Next1("arrived")
  /\ merge(Items(view.acct, ui[1].folder, ui[1].msgs))
  /\ UNCHANGED <<view, newest, fetching, suppress, server, left, missed, stuck>>

\* Fault: the controller does not see the list get shorter, nor the array.
without_Cut(j) == [list EXCEPT !.arr = RemoveAt(@, j), !.n = @ - 1]

without(j) ==
  [list EXCEPT !.n = @ - 1,
               !.arr = [k \in DOMAIN @ |-> IF k \in j..(list.n - 1) THEN @[k + 1] ELSE @[k]]]

\* After a removal the message is taken out of the list in place; what follows it
\* moves up, and the last slot of the array keeps its message.
removed ==
  /\ Next1("removed")
  /\ LET x == Deref(ui[1].ptrs[1])
         at == {j \in 1..list.n : list.arr[j].acct = x.acct /\ list.arr[j].uid = x.uid}
     IN  IF at = {} THEN Stay /\ UNCHANGED shaken
         ELSE LET j == Min(at)
                  next == IF ui[1].index = 1 /\ list.n > 1
                          THEN <<Task("next", [index |-> Min({j, list.n - 1})])>> ELSE <<>>
              IN  /\ list' = without(j)
                  /\ clearMessageSelection /\ Shake
                  /\ tasks' = tasks \o next /\ ui' = rest /\ UNCHANGED dialog
  /\ UNCHANGED <<view, newest, fetching, suppress, server, left, missed, stuck>>

\* selectMessage, and then List.Select.
selectNext ==
  /\ Next1("next") /\ ui' = rest
  /\ IF ui[1].index <= list.n
     THEN /\ picked' = Slot(ui[1].index)
          /\ row' = ui[1].index
          /\ sm' = IF SelectionCount(sm) > 0 THEN NoSelection ELSE sm
          /\ shaken' = (shaken \/ dialog # <<>>)
     ELSE UNCHANGED <<selection, shaken>>
  /\ UNCHANGED <<view, list, newest, fetching, suppress, tasks, dialog, server, left, missed, stuck>>

\* The end of a batch, and of a move.
deselect ==
  /\ Next1("deselect") \/ Next1("moved")
  /\ ui' = rest
  /\ picked' = NoPtr
  /\ sm' = IF ui[1].kind = "deselect" THEN NoSelection ELSE sm
  /\ UNCHANGED <<view, list, row, newest, fetching, suppress, tasks, dialog, server, left, history>>

\* A refresh is due, or the folder shown was deleted.
reselect ==
  /\ Next1("reselect") \/ Next1("fallback")
  /\ ui' = rest
  /\ CASE ui[1].kind = "reselect" -> selectFolder(ui[1].folder, TRUE)
       [] ui[1].kind = "fallback" /\ view.folder = ui[1].folder -> selectFolder(Inbox, FALSE)
       [] ui[1].kind = "fallback" /\ view.folder # ui[1].folder -> UNCHANGED <<view, tasks>>
  /\ UNCHANGED <<list, selection, newest, fetching, suppress, dialog, server, left, history>>

-----------------------------------------------------------------------------
User == \/ selectUnifiedInbox \/ \E a \in Accounts : selectAccount(a)
        \/ \E b \in Boxes : SelectFolder(b[2])
        \/ handleDeletedFolder
        \/ \E i \in 1..list.n, ctrl, shift \in BOOLEAN : Tapped(i, ctrl, shift)
        \/ \E i \in 1..list.n, ctrl \in BOOLEAN : TappedSecondary(i, ctrl)
        \/ selectAllMessages \/ clearSelection \/ ToggleSortOrder
        \/ moveToTrash \/ deleteMessage \/ moveToFolder \/ Confirm \/ Cancel

Goroutine == \E i \in DOMAIN tasks :
  \/ LoadStart(i) \/ LoadCrash(i) \/ LoadFetch(i) \/ LoadEnd(i)
  \/ UnifiedStart(i) \/ UnifiedFetch(i) \/ UnifiedEnd(i)
  \/ OpStart(i) \/ OpCall(i) \/ BatchCall(i)
  \/ Lift(i) \/ SelectNext(i) \/ Refresh(i) \/ Announce(i)

Thread == \/ showFolder \/ showFailed \/ showUnified \/ showLoading
          \/ inject \/ arrived \/ removed \/ selectNext \/ deselect \/ reselect

Next == User \/ Goroutine \/ Thread \/ \E m \in Messages : NewMail(m)

Spec == Init /\ [][Next]_vars

-----------------------------------------------------------------------------
(* Properties.                                                              *)

\* validateMessageArrayConsistency: "Check for duplicate UIDs within the same account"
\* (main_window.go:1164); the array is consistent if none is there twice.
ArrayConsistent ==
  \A i, j \in 1..list.n : list.arr[i].acct = list.arr[j].acct /\ list.arr[i].uid = list.arr[j].uid
                            => i = j

WindowTypeOK ==
  /\ view \in [unified : BOOLEAN, acct : Accounts \cup {None}, client : Accounts \cup {None},
               folder : {b[2] : b \in Boxes} \cup {Inbox, None}]
  /\ list.n \in 0..Len(list.arr) /\ list.sorted \in 0..Len(list.arr)
  /\ \A i \in DOMAIN list.arr : list.arr[i].id \in Messages
  /\ sm.marks \cap sm.off = {} /\ row \in Nat /\ newest \in BOOLEAN /\ fetching \in BOOLEAN
  /\ suppress \subseteq Accounts /\ Len(dialog) <= 1
  /\ missed \in BOOLEAN /\ shaken \in BOOLEAN /\ stuck \subseteq Accounts
  /\ mail \subseteq Messages /\ \A b \in Boxes : cache[b].msgs \subseteq Messages

\* No message is removed from a server but one that an item picked for it named,
\* whatever is loaded, selected or announced between the command and the call,
\* unless meanwhile the array was sorted, merged into or shortened in place, or
\* the message selected was replaced before the question was answered.
RemovesOnlyPicked ==
  [][\A m \in mail \ mail' :
       shaken \/ \E i \in DOMAIN tasks : tasks[i].kind \in {"op", "batch"} /\ m \in tasks[i].want]_vars

\* "Capture the selected message to avoid race conditions in the goroutine"
\* (message_ops.go:464 and 613): only what was picked is removed, whatever happens
\* meanwhile.  What is captured is a pointer into an array that is sorted in place.
RemovesCaptured ==
  [][\A m \in mail \ mail' :
       \E i \in DOMAIN tasks : tasks[i].kind \in {"op", "batch"} /\ m \in tasks[i].want]_vars

\* While a list is shown the manager's indices are of that list, and the selected
\* message is an item of it ("otherwise the manager keeps indices into the old
\* slice", main_window.go:1505).
SelectionInList ==
  list.n > 0 => /\ sm.marks \subseteq 1..list.n
                /\ Nil(picked) \/ picked.slot \in 1..list.n

\* No message is listed twice, however lists, announcements and removals overlap,
\* with or without Message-IDs, as long as nobody sorts a list that an item was
\* taken out of.
NoDuplicates == list.resorted \/ ArrayConsistent

\* When nothing is at work the list is that of the folder selected, and its
\* items say where their messages are, unless a load was dropped, has failed, or
\* came after that of a folder selected later.
ListIsOfFolder ==
  Quiet /\ ~view.unified /\ view.folder # None /\ ~missed =>
    \A i \in 1..list.n : LET x == list.arr[i]
                         IN  /\ x.acct = view.acct /\ x.folder = view.folder
                             /\ x.id.acct = x.acct /\ x.id.folder = x.folder

\* While freshFetchInProgress is set the load that set it is at work and will clear it,
\* or no folder would ever be loaded again.
FetchIsOwned == fetching => \E i \in DOMAIN tasks : tasks[i].kind = "load" /\ tasks[i].at # "start"

\* While new mail of an account is kept out of the unified inbox, a removal from this
\* account is at work, or the timer runs that lets it in again, whether the removal
\* succeeded or failed, unless the unified inbox was left before it ended, or its
\* pointer leads to another account's item by then.
SuppressIsOwned ==
  \A a \in suppress \ stuck :
    \E i \in DOMAIN tasks : tasks[i].kind \in {"op", "lift"} /\ tasks[i].acct = a
=============================================================================
