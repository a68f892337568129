--------------------------- MODULE Subscriptions ---------------------------
(* The folder dialog (internal/ui/folder_subscription_dialog.go) and what    *)
(* the main window does when it reports a change (main_window.go,            *)
(* controllers/folder_controller.go).                                        *)
(*                                                                           *)
(* The dialog lists, subscribes, creates and deletes folders. A deletion is  *)
(* a chain of dialogs and goroutines: it looks whether there is mail, asks   *)
(* what to do with it, moves it message by message and deletes the folder.   *)
(* All of it reads through the worker's cache, which answers for a folder    *)
(* and for the folder lists as long as it has something (24 hours).          *)
EXTENDS Naturals, FiniteSets

CONSTANTS Name,        \* folder names
          Special,     \* those isSpecialFolder protects, Inbox_ among them
          Letter,      \* messages
          MaxChanges   \* bound: things asked for, and mail that comes

VARIABLES mailIn, onServer, subscribedOn,   \* the server
          keptMail, keptLists,              \* the worker's cache
          window, allFolders, subscribedFolders, selectedName, \* the dialog
          client,       \* "main", "own" (made for the dialog) or "stopped"
          deletion,     \* the deletion under way or last made, at its step
          refreshes,    \* the goroutines that refresh the dialog
          mainFolders, mainFolder, pendingRefresh,  \* the main window
          changes       \* changes so far, up to MaxChanges

serverState == <<mailIn, onServer, subscribedOn>>
keptState == <<keptMail, keptLists>>
dialogState == <<window, allFolders, subscribedFolders, selectedName>>
mainState == <<mainFolders, mainFolder, pendingRefresh>>
subsVars == <<serverState, keptState, dialogState, client, deletion, refreshes,
              mainState, changes>>

Inbox_ == "INBOX"
Nowhere == "none"
NotKept == {0}
NotListed == {"not listed"}
\* there, destroyed and gone are history: what was in the folder when the user
\* chose to move it, what this deletion and what all of them destroyed.
NoDeletion == [at |-> "idle", folder |-> Nowhere, target |-> Nowhere, listed |-> {},
               rest |-> {}, failed |-> FALSE, there |-> {}, destroyed |-> {},
               gone |-> {}]
NoRefresh == [at |-> "idle", all |-> {}, after |-> "nothing"]
Refreshing(at, after) == [at |-> at, all |-> {}, after |-> after]

\* The folders of the lists, as the server would give them now.
Listed(l) == IF l = "all" THEN onServer ELSE subscribedOn \cap onServer

SubsInit ==
    /\ \E f \in Name \ Special, L \in SUBSET Letter :
          mailIn = [n \in Name |-> IF n = f THEN L ELSE {}]
    /\ onServer = Name /\ subscribedOn \in {Name, Special}
    /\ keptMail = [f \in Name |-> NotKept]
    /\ keptLists = [l \in {"all", "subscribed"} |-> NotListed]
    /\ window = "open"
    /\ allFolders = {} /\ subscribedFolders = {} /\ selectedName = Nowhere
    /\ client \in {"main", "own"}
    /\ deletion = NoDeletion
    /\ refreshes = [i \in 1..2 |-> IF i = 1 THEN Refreshing("all", "nothing") ELSE NoRefresh]
    /\ mainFolders = Name /\ mainFolder = Inbox_ /\ pendingRefresh = "no"
    /\ changes = 0

Connected_ == client # "stopped"
Change == changes < MaxChanges /\ changes' = changes + 1

\* The dialogs of a deletion and its progress cover the window.
Uncovered == /\ window = "open"
             /\ deletion.at \in {"idle", "checking", "over"}
Press == Uncovered /\ Change

-----------------------------------------------------------------------------
(* Reading through the cache.                                                *)

\* FetchMessages answers from the cached list of the folder, of any length.
\* Without one it asks the server, keeps what came under the folder's name
\* and does not know a transfer that broke off. An empty folder is not kept.
FetchMessages(f, limit, got) ==
    /\ limit > 0 => Cardinality(got) <= limit
    /\ \/ /\ keptMail[f] # NotKept /\ got \subseteq keptMail[f]
          /\ limit = 0 => got = keptMail[f]
          /\ got = {} => keptMail[f] = {}
          /\ UNCHANGED keptMail
       \/ /\ keptMail[f] = NotKept /\ Connected_ /\ f \in onServer
          /\ got \subseteq mailIn[f]
          /\ keptMail' = IF mailIn[f] = {} THEN keptMail ELSE [keptMail EXCEPT ![f] = got]

\* ListAllFolders, ListSubscribedFolders and its "forced" refresh: the cached
\* list, the server's, or without either an empty one.
ListFolders(l, got) ==
    /\ Connected_
    /\ \/ keptLists[l] # NotListed /\ got = keptLists[l] /\ UNCHANGED keptLists
       \/ keptLists[l] = NotListed /\ got = Listed(l) /\ keptLists' = [keptLists EXCEPT ![l] = got]
       \/ keptLists[l] = NotListed /\ got = {} /\ UNCHANGED keptLists

-----------------------------------------------------------------------------
(* Refreshing the dialog.                                                    *)

\* Starts a goroutine; there are never more than the two the bound allows.
Start(r) == \E i \in 1..2 : /\ refreshes[i] = NoRefresh
                            /\ refreshes' = [refreshes EXCEPT ![i] = r]

\* The main window's folder refresh is debounced: the last call decides
\* whether the cache is dropped first.
refreshFoldersDebounced(invalidate) ==
    pendingRefresh' = IF invalidate THEN "fresh" ELSE "kept"

\* The dialog that has a client of its own stops it; nothing else is told.
onClose ==
    \/ client = "main" /\ refreshFoldersDebounced(TRUE) /\ UNCHANGED client
    \/ client # "main" /\ client' = "stopped" /\ UNCHANGED pendingRefresh

onFolderAdded ==
    /\ UNCHANGED client
    /\ IF client = "main" THEN refreshFoldersDebounced(FALSE) ELSE UNCHANGED pendingRefresh

After(r) ==
    \/ r.after = "nothing" /\ UNCHANGED <<client, pendingRefresh>>
    \/ r.after = "added" /\ onFolderAdded
    \/ r.after = "close" /\ onClose

refreshAll(i) ==
    /\ refreshes[i].at = "all"
    /\ \E got \in SUBSET Name :
          /\ ListFolders("all", got)
          /\ refreshes' = [refreshes EXCEPT ![i].at = "subscribed", ![i].all = got]
    /\ UNCHANGED <<serverState, keptMail, dialogState, client, deletion, mainState, changes>>

\* refreshFolders and refreshFoldersInternal: both lists, then the two fields.
refreshFolders(i) ==
    /\ refreshes[i].at = "subscribed"
    /\ \E got \in SUBSET Name :
          ListFolders("subscribed", got) /\ subscribedFolders' = got
    /\ allFolders' = refreshes[i].all
    /\ After(refreshes[i])
    /\ refreshes' = [refreshes EXCEPT ![i] = NoRefresh]
    /\ UNCHANGED <<serverState, keptMail, window, selectedName, deletion, mainFolders, mainFolder, changes>>

refreshSubscriptionStatus(i) ==
    /\ refreshes[i].at = "status"
    /\ \E got \in SUBSET Name :
          ListFolders("subscribed", got) /\ subscribedFolders' = got
    /\ refreshes' = [refreshes EXCEPT ![i] = NoRefresh]
    /\ UNCHANGED <<serverState, keptMail, window, allFolders, selectedName, client,
                   deletion, mainState, changes>>

\* The lists cannot be had, after the attempts a deletion makes.
RefreshFails(i) ==
    /\ refreshes[i] # NoRefresh /\ After(refreshes[i])
    /\ refreshes' = [refreshes EXCEPT ![i] = NoRefresh]
    /\ UNCHANGED <<serverState, keptState, dialogState, deletion, mainFolders, mainFolder, changes>>

-----------------------------------------------------------------------------
(* Choosing, subscribing and creating.                                       *)

OnSelected(f) ==
    /\ Press /\ f \in allFolders /\ f # selectedName
    /\ selectedName' = f
    /\ UNCHANGED <<serverState, keptState, window, allFolders, subscribedFolders, client,
                   deletion, refreshes, mainState>>

isFolderSubscribed(f) == f \in subscribedFolders

\* A button or the check box of a row; the cached lists are left as they are.
subscribeToFolder(f) ==
    /\ Press /\ f \in allFolders /\ ~isFolderSubscribed(f)
    /\ Connected_ /\ f \in onServer
    /\ subscribedOn' = subscribedOn \cup {f}
    /\ Start(Refreshing("status", "nothing"))
    /\ UNCHANGED <<mailIn, onServer, keptState, dialogState, client, deletion, mainState>>

unsubscribeFromFolder(f) ==
    /\ Press /\ f \in allFolders /\ isFolderSubscribed(f)
    /\ Connected_
    /\ subscribedOn' = subscribedOn \ {f}
    /\ Start(Refreshing("status", "nothing"))
    /\ UNCHANGED <<mailIn, onServer, keptState, dialogState, client, deletion, mainState>>

createFolder(f) ==
    /\ Press /\ Connected_ /\ f \notin onServer
    /\ onServer' = onServer \cup {f}
    /\ subscribedOn' \in {subscribedOn, subscribedOn \cup {f}}
    /\ Start(Refreshing("all", "added"))
    /\ UNCHANGED <<mailIn, keptState, dialogState, client, deletion, mainState>>

CloseWindow ==
    /\ window = "open" /\ window' = "closed" /\ Change /\ onClose
    /\ UNCHANGED <<serverState, keptState, allFolders, subscribedFolders, selectedName,
                   deletion, refreshes, mainFolders, mainFolder>>

-----------------------------------------------------------------------------
(* Deleting a folder.                                                        *)

At(step) == deletion.at = step
Goes(step) == deletion' = [deletion EXCEPT !.at = step]
Ends == deletion' = [deletion EXCEPT !.at = "over"]
Asking == {"simple", "warned", "choose", "asking"}

validateFolderDeletion(f) == f \notin Special /\ f \in allFolders

showDeleteFolderDialog ==
    /\ Press /\ deletion.at \in {"idle", "over"}
    /\ validateFolderDeletion(selectedName)
    /\ deletion' = [NoDeletion EXCEPT !.at = "checking", !.folder = selectedName,
                                    !.gone = deletion.gone]
    /\ UNCHANGED <<serverState, keptState, dialogState, client, refreshes, mainState>>

\* One message is asked for, to see whether there are any.
CheckMessages ==
    /\ At("checking")
    /\ \/ \E got \in SUBSET Letter :
             /\ FetchMessages(deletion.folder, 1, got)
             /\ Goes(IF got = {} THEN "simple" ELSE "choose")
       \/ Goes("warned") /\ UNCHANGED keptMail
    /\ UNCHANGED <<serverState, keptLists, dialogState, client, refreshes, mainState, changes>>

validateTargetFolder(target, source) == target # source /\ isFolderSubscribed(target)

\* "Move messages to another folder" and a target, checked again when chosen.
MoveTo(target) ==
    /\ At("choose") /\ window = "open"
    /\ validateTargetFolder(target, deletion.folder)
    /\ deletion' = [deletion EXCEPT !.at = "listing", !.target = target,
                                  !.there = mailIn[deletion.folder]]
    /\ UNCHANGED <<serverState, keptState, dialogState, client, refreshes, mainState, changes>>

\* Any other answer that deletes: "Delete all messages", the simple dialogs,
\* and the question after a move that failed (deleteFolderOnly).
ConfirmDelete ==
    /\ deletion.at \in Asking /\ window = "open"
    /\ deletion' = [deletion EXCEPT !.at = IF At("asking") THEN "only" ELSE "deleting",
                                  !.there = {}, !.listed = {}]
    /\ UNCHANGED <<serverState, keptState, dialogState, client, refreshes, mainState, changes>>

CancelDelete ==
    /\ deletion.at \in Asking /\ Ends
    /\ UNCHANGED <<serverState, keptState, dialogState, client, refreshes, mainState, changes>>

\* The start of moveAllMessages: limit 0, "fetch all".
ListToMove ==
    /\ At("listing")
    /\ \/ \E got \in SUBSET Letter :
             /\ FetchMessages(deletion.folder, 0, got)
             /\ deletion' = [deletion EXCEPT !.at = "moving", !.listed = got, !.rest = got]
       \/ Goes("asking") /\ UNCHANGED keptMail
    /\ UNCHANGED <<serverState, keptLists, dialogState, client, refreshes, mainState, changes>>

\* One MoveMessage. A UID that is not there any more is no error; an answer
\* can be lost after the server has moved the message.
MoveMessage(m) ==
    /\ At("moving") /\ m \in deletion.rest
    /\ LET f == deletion.folder
           t == deletion.target
           moved == [mailIn EXCEPT ![f] = @ \ {m}, ![t] = @ \cup (mailIn[f] \cap {m})]
       IN  \/ /\ Connected_ /\ f \in onServer /\ t \in onServer
              /\ mailIn' = moved
              /\ \E lost \in BOOLEAN :
                    deletion' = [deletion EXCEPT !.rest = @ \ {m}, !.failed = @ \/ lost]
           \/ /\ mailIn' = mailIn
              /\ deletion' = [deletion EXCEPT !.rest = @ \ {m}, !.failed = TRUE]
    /\ UNCHANGED <<onServer, subscribedOn, keptState, dialogState, client, refreshes, mainState, changes>>

MovesDone_PartlyIsEnough ==
    /\ At("moving") /\ deletion.rest = {}
    /\ Goes(IF deletion.failed /\ deletion.listed \subseteq mailIn[deletion.folder]
            THEN "asking" ELSE "deleting")
    /\ UNCHANGED <<serverState, keptState, dialogState, client, refreshes, mainState, changes>>

\* The end of moveAllMessages: one error is enough to ask again.
MovesDone ==
    /\ At("moving") /\ deletion.rest = {}
    /\ Goes(IF deletion.failed THEN "asking" ELSE "deleting")
    /\ UNCHANGED <<serverState, keptState, dialogState, client, refreshes, mainState, changes>>

\* The main window leaves the folder for INBOX or the first it knows.
handleDeletedFolder(f) ==
    IF mainFolder # f THEN UNCHANGED mainFolder
    ELSE mainFolder' \in IF Inbox_ \in mainFolders THEN {Inbox_} ELSE mainFolders \cup {Nowhere}

\* What the server does.
Deletes ==
    LET f == deletion.folder
    IN  /\ Connected_ /\ f \in onServer
        /\ onServer' = onServer \ {f}
        /\ mailIn' = [mailIn EXCEPT ![f] = {}]
        /\ deletion' = [deletion EXCEPT !.at = "over", !.destroyed = mailIn[f],
                                      !.gone = @ \cup mailIn[f]]

\* The callbacks run while the refresh of the dialog has only begun: a
\* client of the dialog's own is stopped under it.
DeleteFolder ==
    /\ At("deleting")
    /\ Deletes
    /\ Start(Refreshing("all", "nothing"))
    /\ IF client = "main" THEN handleDeletedFolder(deletion.folder) ELSE UNCHANGED mainFolder
    /\ onClose
    /\ UNCHANGED <<subscribedOn, keptState, dialogState, mainFolders, changes>>

\* Without onFolderDeleted: the main window stays in a folder that is gone.
deleteFolderOnly ==
    /\ At("only")
    /\ Deletes
    /\ Start(Refreshing("all", "close"))
    /\ UNCHANGED <<subscribedOn, keptState, dialogState, client, mainState, changes>>

DeleteFails ==
    /\ deletion.at \in {"deleting", "only"} /\ Ends
    /\ UNCHANGED <<serverState, keptState, dialogState, client, refreshes, mainState, changes>>

-----------------------------------------------------------------------------
(* The main window and the rest of the world.                                *)

MainRefresh ==
    /\ pendingRefresh # "no" /\ pendingRefresh' = "no"
    /\ LET lists == IF pendingRefresh = "fresh" THEN [l \in {"all", "subscribed"} |-> NotListed]
                                                ELSE keptLists
           got == IF lists["all"] # NotListed THEN lists["all"] ELSE onServer
       IN  \/ keptLists' = [lists EXCEPT !["all"] = got] /\ mainFolders' = got
           \/ keptLists' = lists /\ UNCHANGED mainFolders
    /\ UNCHANGED <<serverState, keptMail, dialogState, client, deletion, refreshes, mainFolder, changes>>

\* Opening a folder fetches and keeps its list.
selectFolder(f) ==
    /\ Change /\ f \in mainFolders /\ f # mainFolder
    /\ mainFolder' = f
    /\ keptMail' = IF f \in onServer /\ mailIn[f] # {} THEN [keptMail EXCEPT ![f] = mailIn[f]]
                                                        ELSE keptMail
    /\ UNCHANGED <<serverState, keptLists, dialogState, client, deletion, refreshes,
                   mainFolders, pendingRefresh>>

\* The list of a folder goes when it expires or is invalidated.
InvalidateMessageCache(f) ==
    /\ Change /\ keptMail[f] # NotKept
    /\ keptMail' = [keptMail EXCEPT ![f] = NotKept]
    /\ UNCHANGED <<serverState, keptLists, dialogState, client, deletion, refreshes, mainState>>

MailArrives(f, m) ==
    /\ Change /\ f \in onServer \ Special
    /\ m \notin deletion.gone /\ \A n \in Name : m \notin mailIn[n]
    /\ mailIn' = [mailIn EXCEPT ![f] = @ \cup {m}]
    /\ UNCHANGED <<onServer, subscribedOn, keptState, dialogState, client, deletion, refreshes, mainState>>

SubsNext ==
    \/ \E i \in 1..2 : \/ refreshAll(i) \/ refreshFolders(i)
                       \/ refreshSubscriptionStatus(i) \/ RefreshFails(i)
    \/ \E f \in Name : \/ OnSelected(f) \/ subscribeToFolder(f) \/ unsubscribeFromFolder(f)
                       \/ createFolder(f) \/ selectFolder(f) \/ InvalidateMessageCache(f)
                       \/ \E m \in Letter : MailArrives(f, m)
    \/ CloseWindow \/ MainRefresh
    \/ showDeleteFolderDialog \/ CheckMessages \/ ConfirmDelete \/ CancelDelete
    \/ \E f \in Name : MoveTo(f)
    \/ ListToMove \/ MovesDone
    \/ \E m \in Letter : MoveMessage(m)
    \/ DeleteFolder \/ deleteFolderOnly \/ DeleteFails

SubsSpec == SubsInit /\ [][SubsNext]_subsVars

-----------------------------------------------------------------------------
(* What the dialog promises.                                                 *)

\* A deletion that moves the mail first destroys none of the messages it has
\* listed, unless the user confirmed again after a failure: one move that
\* failed, or whose answer was lost, stops the deletion (deleteFolder,
\* moveAllMessages).
ListedMailSurvives ==
    deletion.listed \cap deletion.destroyed = {}

\* A deletion that moves the mail first destroys none of the messages that
\* were in the folder when the user chose to move them: "0 means fetch all"
\* (moveAllMessages). The list of one message that the check left in the
\* cache is what "all" then is.
ChosenMailSurvives ==
    deletion.there \cap deletion.destroyed = {}
=============================================================================
