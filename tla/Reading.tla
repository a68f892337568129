------------------------------ MODULE Reading ------------------------------
(* Reading a message (internal/ui/main_window.go): the body is fetched on a  *)
(* goroutine and shown by a closure on the UI thread, and five seconds after *)
(* a message was opened it is marked as read from a timer's goroutine.       *)
(*                                                                           *)
(* All of them, and the selection, point into the array behind the list. The *)
(* array is sorted, merged into and shortened in place, and left behind when *)
(* the list is replaced. What they read of their message (its account and    *)
(* folder first, its UID later) is what lies in its slot by then; and they   *)
(* find it in the list by that UID alone.                                    *)
EXTENDS Naturals, Sequences, FiniteSets

CONSTANTS Mail,       \* the messages: [account, folder, uid, date]
          NoMail,
          MaxReads,   \* bound: what the user does, and changes of the list
          MaxFetches  \* bound: bodies being fetched at a time

VARIABLES view,       \* the folder of the window and its account, or "unified"
          list,       \* mw.messages: an array, and how much of it is shown
          ptrs,       \* the pointers made by selections so far: into the array, or
                      \* to an item that it was left with; history: the message at
                      \* first, whether it was opened, whether items stay in place
          selected,   \* mw.selectedMessage: the number of its pointer, or 0
          viewer,
          fetches,    \* goroutines of fetchAndDisplayMessage
          timer,      \* readTimer: the pointer of its timer, or 0
          armed,      \* pointers of the timers that will fire
          marking,    \* fired timers
          seen,       \* server: messages with \Seen
          shownSeen,  \* messages of the list shown as read
          bodies,     \* items of the list with a body, and whose it is
          reads,
          loose       \* history: pointers whose timer had fired when the view
                      \* changed; that was not cancelled by a search; that lost its
                      \* handle to another timer's callback; or which were made in
                      \* a list that was not of the folder selected

readingVars == <<view, list, ptrs, selected, viewer, fetches, timer, armed, marking,
                 seen, shownSeen, bodies, reads, loose>>
timerVars == <<timer, armed, marking, seen, loose>>

Place(m) == [account |-> m.account, folder |-> m.folder]
Unified == [account |-> "all", folder |-> "INBOX"]
Views == {Unified} \cup {Place(m) : m \in Mail}
InView(m, v) == IF v = Unified THEN m.folder = "INBOX" ELSE Place(m) = v
At(box, uid) == {m \in Mail : Place(m) = box /\ m.uid = uid}

\* The list of a view, newest first.
Listings(v) ==
    LET items == {m \in Mail : InView(m, v)}
    IN {s \in [1..Cardinality(items) -> items] :
          /\ \A m \in items : \E i \in DOMAIN s : s[i] = m
          /\ \A i, j \in DOMAIN s : i < j => s[i].date >= s[j].date}

Target(s) == IF ptrs[s].slot > 0 THEN list.arr[ptrs[s].slot] ELSE ptrs[s].mail
Box(s) == IF ptrs[s].slot > 0 THEN Place(list.arr[ptrs[s].slot]) ELSE ptrs[s].box

\* The first item of the list with a UID.
Found(uid) ==
    {list.arr[i] : i \in {j \in 1..list.n : /\ list.arr[j].uid = uid
                                            /\ \A h \in 1..(j - 1) : list.arr[h].uid # uid}}

ReadingInit ==
    /\ view = Unified
    /\ \E s \in Listings(Unified) : list = [arr |-> s, n |-> Len(s)]
    /\ ptrs = << >> /\ selected = 0
    /\ viewer = [kind |-> "notice", mail |-> NoMail]
    /\ fetches = {} /\ timer = 0 /\ armed = {} /\ marking = {}
    /\ seen = {} /\ shownSeen = {} /\ bodies = {} /\ reads = 0
    /\ loose = {}

Shows(kind, m) == viewer' = [kind |-> kind, mail |-> m]
Notice == Shows("notice", NoMail)    \* empty, "Loading" or an error
Event == reads < MaxReads /\ reads' = reads + 1

-----------------------------------------------------------------------------
(* Selecting.                                                                *)

Points(p) == ptrs' = Append(ptrs, p) /\ selected' = Len(ptrs) + 1
Into(i, opened) ==
    [slot |-> i, mail |-> NoMail, box |-> Unified, was |-> list.arr[i], opened |-> opened,
     still |-> TRUE]

Fetching(s) == fetches' = fetches \cup {[sel |-> s, at |-> "start", box |-> Unified, got |-> NoMail]}

cancelReadTimer == armed \ {timer}

\* The timer is started for unread messages only; selecting cancels the last.
selectMessage(i) ==
    /\ Event /\ Cardinality(fetches) < MaxFetches
    /\ i \in 1..list.n /\ Points(Into(i, TRUE))
    /\ Notice /\ Fetching(selected')
    /\ LET m == list.arr[i]
           starts == IF m \in shownSeen THEN {} ELSE {selected'}
       IN  /\ armed' = cancelReadTimer \cup starts
           /\ timer' = IF starts = {} THEN 0 ELSE selected'
           /\ loose' = IF InView(m, view) THEN loose ELSE loose \cup {selected'}
    /\ UNCHANGED <<view, list, marking, seen, shownSeen, bodies>>

\* selectMessageMultiple, selectAllMessages: another message is the selected one,
\* and nothing is shown of it.
selectMessageMultiple(i) ==
    /\ Event
    /\ i \in 1..list.n /\ Points(Into(i, FALSE))
    /\ UNCHANGED <<view, list, viewer, fetches, timerVars, shownSeen, bodies>>

\* OnMessageSelected of the search: an item of its own, said to be in the current
\* folder. The timer goes on.
openFromSearch(m) ==
    /\ Event /\ Cardinality(fetches) < MaxFetches
    /\ view # Unified
    /\ Points([slot |-> 0, mail |-> m, box |-> [account |-> m.account, folder |-> view.folder],
               was |-> m, opened |-> TRUE, still |-> TRUE])
    /\ Notice /\ Fetching(selected')
    /\ loose' = loose \cup armed
    /\ UNCHANGED <<view, list, timer, armed, marking, seen, shownSeen, bodies>>

-----------------------------------------------------------------------------
(* Changes of the view and of the list.                                      *)

Behind(p) == IF p.slot > 0 THEN [p EXCEPT !.slot = 0, !.mail = list.arr[p.slot],
                                          !.box = Place(list.arr[p.slot])] ELSE p
Replaced(s) ==
    /\ list' = [arr |-> s, n |-> Len(s)]
    /\ ptrs' = [i \in DOMAIN ptrs |-> Behind(ptrs[i])]
    /\ bodies' = {} /\ shownSeen' = seen

\* selectFolder leaves the list to be replaced, and what is selected in it; the
\* unified inbox keeps the list; selectAccount empties it.
viewChanges(v) ==
    /\ view' = v
    /\ \/ /\ view # Unified /\ v.account = view.account
          /\ UNCHANGED <<list, ptrs, selected, viewer, shownSeen, bodies>>
       \/ /\ v = Unified
          /\ selected' = 0 /\ Notice /\ UNCHANGED <<list, ptrs, shownSeen, bodies>>
       \/ /\ v # Unified
          /\ selected' = 0 /\ Notice /\ Replaced(<< >>)
    /\ loose' = loose \cup {k.sel : k \in {j \in marking : j.at = "fired"}}

\* Fault: a change of folder forgets the timer.
changeView_KeepsTimer(v) ==
    /\ Event /\ viewChanges(v)
    /\ UNCHANGED <<fetches, timer, armed, marking, seen>>

\* Every change of view cancels the timer. One that has fired already is not
\* stopped by that.
changeView(v) ==
    /\ Event /\ viewChanges(v)
    /\ armed' = cancelReadTimer /\ timer' = 0
    /\ UNCHANGED <<fetches, marking, seen>>

\* A list comes in, perhaps one of a folder selected earlier: the selection goes,
\* the viewer stays.
clearMessageSelection(v) ==
    /\ Event
    /\ \E s \in Listings(v) : Replaced(s)
    /\ selected' = 0
    /\ UNCHANGED <<view, viewer, fetches, timerVars>>

\* Pointers into slots whose items move.
Moved(from) ==
    ptrs' = [i \in DOMAIN ptrs |-> IF ptrs[i].slot >= from THEN [ptrs[i] EXCEPT !.still = FALSE]
                                                           ELSE ptrs[i]]

\* SortMessages, which also sorts what was taken out, and keeps the selection. A
\* merge of new mail sorts, and clears it (the new items are left out here).
SortMessages(clears) ==
    /\ Event
    /\ LET D == DOMAIN list.arr
       IN  \E f \in [D -> D] :
             /\ \A j \in D : \E i \in D : f[i] = j
             /\ list' = [list EXCEPT !.arr = [i \in D |-> list.arr[f[i]]]]
    /\ Moved(1)
    /\ selected' = IF clears THEN 0 ELSE selected
    /\ UNCHANGED <<view, viewer, fetches, timerVars, shownSeen, bodies>>

\* A message was removed in the unified inbox: what follows moves up, and the last
\* slot keeps its item.
removed(i) ==
    /\ Event
    /\ view = Unified /\ i \in 1..list.n
    /\ list' = [arr |-> [j \in DOMAIN list.arr |-> IF j \in i..(list.n - 1) THEN list.arr[j + 1]
                                                                         ELSE list.arr[j]],
                n |-> list.n - 1]
    /\ Moved(i)
    /\ selected' = 0 /\ (Notice \/ UNCHANGED viewer)
    /\ UNCHANGED <<view, fetches, timerVars, shownSeen, bodies>>

-----------------------------------------------------------------------------
(* fetchAndDisplayMessage. "Loading" and errors are written whoever is       *)
(* selected; a body only when its UID still is.                              *)

Becomes(f, at, from, got) ==
    fetches' = (fetches \ {f}) \cup {[sel |-> f.sel, at |-> at, box |-> from, got |-> got]}
Reader == UNCHANGED <<view, list, ptrs, selected, timerVars, shownSeen, reads>>

\* The client, which is its account's, and the folder are read now.
FetchLoading(f) ==
    /\ f.at = "start" /\ Notice
    /\ \/ Becomes(f, "loading", Box(f.sel), NoMail)
       \/ fetches' = fetches \ {f}   \* no client, or not connected
    /\ UNCHANGED bodies /\ Reader

\* Up to three attempts, a Connect after the first that says "not connected"; the
\* UID is read for each of them.
FetchMessage(f) ==
    /\ f.at = "loading"
    /\ \/ \E m \in At(f.box, Target(f.sel).uid) : Becomes(f, "fetched", f.box, m)
       \/ Becomes(f, "failed", f.box, NoMail)
    /\ UNCHANGED <<viewer, bodies>> /\ Reader

\* Fault: the body is shown whatever is selected.
displayMessage_Always(f) ==
    /\ f.at = "fetched" /\ fetches' = fetches \ {f}
    /\ Shows("body", f.got) /\ UNCHANGED bodies /\ Reader

\* The body goes to the first item of the list with the UID that is there now.
displayMessage(f) ==
    /\ f.at = "fetched" /\ fetches' = fetches \ {f}
    /\ LET items == Found(Target(f.sel).uid)
       IN  bodies' = {b \in bodies : b.mail \notin items}
                     \cup {[mail |-> m, of |-> f.got, still |-> ptrs[f.sel].still] : m \in items}
    /\ IF selected # 0 /\ Target(selected).uid = f.got.uid
       THEN Shows("body", f.got) ELSE UNCHANGED viewer
    /\ Reader

FetchFailed(f) ==
    /\ f.at = "failed" /\ fetches' = fetches \ {f}
    /\ Notice /\ UNCHANGED bodies /\ Reader

-----------------------------------------------------------------------------
(* The read timer.                                                           *)

Marker == UNCHANGED <<view, list, ptrs, selected, viewer, fetches, bodies, reads>>
Goes(k, at, box) == marking' = (marking \ {k}) \cup {[sel |-> k.sel, at |-> at, box |-> box]}

Fire(s) ==
    /\ s \in armed /\ armed' = armed \ {s}
    /\ marking' = marking \cup {[sel |-> s, at |-> "fired", box |-> Unified]}
    /\ UNCHANGED <<timer, seen, shownSeen, loose>> /\ Marker

\* markMessageAsRead looks for the account and folder now: in the unified inbox
\* by UID and subject (which name one message), else the window's folder and client.
markMessageAsRead(k) ==
    /\ k.at = "fired"
    /\ IF view = Unified
       THEN /\ \E i \in 1..list.n : list.arr[i] = Target(k.sel)
            /\ Goes(k, "store", [account |-> Target(k.sel).account, folder |-> "INBOX"])
       ELSE Goes(k, "store", view)
    /\ UNCHANGED <<timer, armed, seen, shownSeen, loose>> /\ Marker

\* The callback ends by clearing readTimer, even one started for another
\* message; it does so at once when there is no account or client.
ClearTimer == timer' = 0 /\ loose' = loose \cup armed
MarkFailed(k) ==
    /\ k.at = "fired" /\ marking' = marking \ {k}
    /\ ClearTimer
    /\ UNCHANGED <<armed, seen, shownSeen>> /\ Marker

\* Up to three attempts with the UID that is there by then; when all fail the
\* message is read on the screen only.
MarkAsRead(k) ==
    /\ k.at = "store"
    /\ seen' \in {seen, seen \cup At(k.box, Target(k.sel).uid)}
    /\ \/ Goes(k, "show", k.box) /\ ClearTimer
       \/ UNCHANGED <<marking, timer, loose>>
    /\ UNCHANGED <<armed, shownSeen>> /\ Marker

\* The closure flags the first message of the list with that UID, and the
\* selected one. (It also starts a rewrite of the cached list, left out here.)
ShowRead(k) ==
    /\ k.at = "show" /\ marking' = marking \ {k}
    /\ shownSeen' = shownSeen \cup Found(Target(k.sel).uid)
                    \cup (IF selected # 0 /\ Target(selected).uid = Target(k.sel).uid
                          THEN {Target(selected)} ELSE {})
    /\ UNCHANGED <<timer, armed, seen, loose>> /\ Marker

-----------------------------------------------------------------------------
ReadingNext ==
    \/ \E i \in 1..list.n : selectMessage(i) \/ selectMessageMultiple(i) \/ removed(i)
    \/ \E m \in Mail : openFromSearch(m)
    \/ \E v \in Views : changeView(v) \/ clearMessageSelection(v)
    \/ \E clears \in BOOLEAN : SortMessages(clears)
    \/ \E f \in fetches : FetchLoading(f) \/ FetchMessage(f) \/ displayMessage(f) \/ FetchFailed(f)
    \/ \E k \in marking : markMessageAsRead(k) \/ MarkFailed(k) \/ MarkAsRead(k) \/ ShowRead(k)
    \/ \E s \in armed : Fire(s)

ReadingSpec == ReadingInit /\ [][ReadingNext]_readingVars

(* The body in the viewer has the UID of the message opened last, while that *)
(* is selected: an answer that comes after the user has gone on to another   *)
(* UID is not shown, whatever the order of the answers. Nor does an item get *)
(* a body of another UID, which a reply to it would quote. The exception is  *)
(* an array that was sorted or shortened in place since the message was      *)
(* opened (main_window.go 1216-1255, 1346-1412).                             *)
BodyIsOfSelected ==
    /\ viewer.kind = "body" /\ selected # 0 =>
         \/ ~ptrs[selected].opened \/ ~ptrs[selected].still
         \/ viewer.mail.uid = Target(selected).uid
    /\ \A b \in bodies : b.still => b.of.uid = b.mail.uid

(* A timer fires for the message opened last only, and the server is told    *)
(* that a message was read only by a timer that was started for it. The      *)
(* exceptions are those of loose, and a pointer into an array that was       *)
(* sorted or shortened in place since (main_window.go 2736-2899).            *)
MarksTimedMessage ==
    [][/\ \A m \in seen' \ seen :
            \E k \in marking : /\ k.at = "store" /\ k.box = Place(m)
                               /\ ptrs[k.sel].was = m \/ ~ptrs[k.sel].still \/ k.sel \in loose
       /\ \A s \in armed \ (armed' \cup loose) :
            [sel |-> s, at |-> "fired", box |-> Unified] \in marking' =>
              \A i \in s + 1..Len(ptrs) : ~ptrs[i].opened]_readingVars
=============================================================================
