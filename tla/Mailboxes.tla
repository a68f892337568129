----------------------------- MODULE Mailboxes -----------------------------
(* The folder a connection has selected (pkg/imap/flags.go, folders.go,      *)
(* fetch.go, search.go and the new-message check of idle.go).                *)
(*                                                                           *)
(* STORE, MOVE, EXPUNGE and UID FETCH name a UID only: the folder is the one *)
(* the session on the server has selected. The worker keeps a note of it,    *)
(* selectedFolder for the command connection and fetchSelectedFolder for the *)
(* fetch connection, and skips SELECT when the note already says so. The     *)
(* event loop runs one command at a time, the fetch loop one bulk fetch, and *)
(* the two share the command connection when no fetch connection can be had. *)
EXTENDS Naturals, FiniteSets

CONSTANTS Folder,       \* the names a mailbox can have
          MailCommands  \* bound: commands and bulk fetches begun

VARIABLES box,                 \* server: folder -> UID -> what is there
          exists, subscribed,  \* server: the folders, the subscribed ones
          commandClient, fetchClient,          \* "nil", "up" or "down"
          sel, fetchSel,       \* server: what each session has selected
          selectedFolder, fetchSelectedFolder, \* the worker's notes of it
          op,                  \* the command on the event loop
          job,                 \* the bulk fetch on the fetch loop
          lists,               \* cached folder lists, kept for 24 hours
          cachedFrom,          \* folder -> where its cached messages are from
          refreshing,          \* the background refresh and its client
          shared,              \* history: both loops have met on one connection
          begun                \* commands begun so far, up to MailCommands

mailVars == <<box, exists, subscribed, commandClient, fetchClient, sel, fetchSel,
              selectedFolder, fetchSelectedFolder, op, job, lists, cachedFrom,
              refreshing, shared, begun>>

serverVars == <<box, exists, subscribed>>
sessionVars == <<commandClient, sel, selectedFolder>>
fetchVars == <<fetchClient, fetchSel, fetchSelectedFolder, job, cachedFrom>>
folderVars == <<lists, refreshing>>

UIDs == 1..2
NoFolder == "none"
NoOp == [kind |-> "none", folder |-> NoFolder, uid |-> 0, rest |-> {}]
NoJob == [at |-> "idle", folder |-> NoFolder, on |-> "none", open |-> FALSE]
NotListed == {"not cached"}

\* A command that names one message, waiting for its turn after the SELECT.
Op(kind, f, u) == [kind |-> kind, folder |-> f, uid |-> u, rest |-> {}]

MailInit ==
    /\ box = [f \in Folder |-> [u \in UIDs |-> IF u = 1 THEN "unread" ELSE "none"]]
    /\ exists = Folder /\ subscribed \in {Folder, {}}
    /\ commandClient = "up" /\ fetchClient \in {"nil", "up"}
    /\ sel = NoFolder /\ fetchSel = NoFolder
    /\ selectedFolder = NoFolder /\ fetchSelectedFolder = NoFolder
    /\ op = NoOp /\ job = NoJob
    /\ lists = [l \in {"all", "subscribed"} |-> NotListed]
    /\ cachedFrom = [f \in Folder |-> NoFolder]
    /\ refreshing = "no" /\ shared = FALSE /\ begun = 0

Fallback(j) == j.on = "command"

\* The event loop takes its next command.
TakeCommand ==
    /\ op = NoOp /\ begun < MailCommands
    /\ begun' = begun + 1
    /\ shared' = (shared \/ Fallback(job))
    /\ commandClient # "nil"

\* A SELECT on the command connection; the server deselects when it refuses.
Selecting(f, next) ==
    \/ /\ commandClient = "up" /\ f \in exists
       /\ sel' = f /\ selectedFolder' = f /\ op' = next
    \/ sel' = NoFolder /\ op' = NoOp /\ UNCHANGED selectedFolder

ensureSelected(f, next) ==
    \/ selectedFolder = f /\ op' = next /\ UNCHANGED <<sel, selectedFolder>>
    \/ selectedFolder # f /\ Selecting(f, next)

-----------------------------------------------------------------------------
(* Commands about one message.                                               *)

MessageCommand(kind, f, u) ==
    /\ TakeCommand
    /\ ensureSelected(f, Op(kind, f, u))
    /\ UNCHANGED <<serverVars, commandClient, fetchVars, folderVars>>

\* What the server does to a UID of the folder its session has selected.
InSelected(u, from, to) ==
    IF sel # NoFolder /\ box[sel][u] \in from
    THEN box' = [box EXCEPT ![sel][u] = to]
    ELSE box' = box

Leaves == UNCHANGED <<exists, subscribed, sessionVars, fetchVars, folderVars, shared, begun>>

handleSetSeen ==
    /\ op.kind \in {"read", "unread"}
    /\ \/ commandClient = "up" /\ InSelected(op.uid, {"unread", "read"}, op.kind)
       \/ UNCHANGED box
    /\ op' = NoOp /\ Leaves

\* A body fetched without PEEK sets \Seen.
handleFetchMessage ==
    /\ op.kind = "fetch"
    /\ \/ commandClient = "up" /\ InSelected(op.uid, {"unread"}, "read")
       \/ UNCHANGED box
    /\ op' = NoOp /\ Leaves

handleDeleteMessage ==
    /\ op.kind = "delete"
    /\ \/ /\ commandClient = "up" /\ sel # NoFolder
          /\ InSelected(op.uid, {"unread", "read"}, "deleted")
          /\ op' = [op EXCEPT !.kind = "expunge"]
       \/ UNCHANGED box /\ op' = NoOp
    /\ Leaves

\* A failed expunge is only logged: the message stays behind, flagged.
Expunge ==
    /\ op.kind = "expunge"
    /\ \/ commandClient = "up" /\ InSelected(op.uid, {"deleted"}, "none")
       \/ UNCHANGED box
    /\ op' = NoOp /\ Leaves

handleMoveMessage(target) ==
    /\ op.kind = "move"
    /\ \/ /\ commandClient = "up" /\ sel # NoFolder /\ target \in exists \ {sel}
          /\ box[sel][op.uid] # "none" /\ box[target][2] = "none"
          /\ box' = [box EXCEPT ![sel][op.uid] = "none", ![target][2] = box[sel][op.uid]]
       \/ UNCHANGED box
    /\ op' = NoOp /\ Leaves

\* APPEND names its folder and needs none selected.
handleStoreSentMessage(f) ==
    /\ TakeCommand
    /\ commandClient = "up" /\ f \in exists /\ box[f][2] = "none"
    /\ box' = [box EXCEPT ![f][2] = "read"]
    /\ UNCHANGED <<exists, subscribed, sessionVars, fetchVars, folderVars, op>>

-----------------------------------------------------------------------------
(* Folders. None of these touches the lists in the cache, nor the note of    *)
(* what is selected.                                                         *)

FolderCommand == TakeCommand /\ UNCHANGED <<fetchVars, op>>

handleSelectFolder(f) ==
    /\ TakeCommand
    /\ Selecting(f, NoOp)
    /\ UNCHANGED <<serverVars, commandClient, fetchVars, folderVars>>

handleCreateFolder(f) ==
    /\ FolderCommand /\ commandClient = "up" /\ f \notin exists
    /\ exists' = exists \cup {f}
    /\ UNCHANGED <<box, subscribed, sessionVars, folderVars>>

handleDeleteFolder(f) ==
    /\ FolderCommand /\ commandClient = "up" /\ f \in exists
    /\ exists' = exists \ {f}
    /\ box' = [box EXCEPT ![f] = [u \in UIDs |-> "none"]]
    /\ sel' = (IF sel = f THEN NoFolder ELSE sel)
    /\ UNCHANGED <<subscribed, commandClient, selectedFolder, folderVars>>

handleSubscribeFolder(f) ==
    /\ FolderCommand /\ commandClient = "up"
    /\ subscribed' = subscribed \cup {f}
    /\ UNCHANGED <<box, exists, sessionVars, folderVars>>

handleUnsubscribeFolder(f) ==
    /\ FolderCommand /\ commandClient = "up"
    /\ subscribed' = subscribed \ {f}
    /\ UNCHANGED <<box, exists, sessionVars, folderVars>>

\* LIST, with or without the selection option SUBSCRIBED.
Listing(l) == IF l = "all" THEN exists ELSE exists \cap subscribed

\* Answered from the cache when it is there; an empty success without one
\* and without a connection.
handleListFolders(l) ==
    /\ FolderCommand /\ lists[l] = NotListed /\ commandClient = "up"
    /\ lists' = [lists EXCEPT ![l] = Listing(l)]
    /\ UNCHANGED <<serverVars, sessionVars, refreshing>>

\* The goroutine holds the client of the moment it was started.
handleRefreshFoldersInBackground ==
    /\ FolderCommand /\ refreshing = "no"
    /\ refreshing' = "open"
    /\ UNCHANGED <<serverVars, sessionVars, lists>>

RefreshEnd ==
    /\ refreshing # "no" /\ refreshing' = "no"
    /\ \/ /\ refreshing = "open" /\ commandClient = "up"
          /\ lists' = [lists EXCEPT !["subscribed"] = Listing("subscribed")]
       \/ UNCHANGED lists
    /\ UNCHANGED <<serverVars, sessionVars, fetchVars, op, shared, begun>>

-----------------------------------------------------------------------------
(* Search and the check for new mail run on the event loop too.              *)

\* The folders are the cached subscribed ones, or those the server lists now.
handleSearchMessages ==
    /\ TakeCommand
    /\ \/ /\ lists["subscribed"] \notin {NotListed, {}}
          /\ op' = [NoOp EXCEPT !.kind = "search", !.rest = lists["subscribed"]]
          /\ UNCHANGED lists
       \/ /\ lists["subscribed"] \in {NotListed, {}} /\ commandClient = "up"
          /\ lists' = [lists EXCEPT !["subscribed"] = Listing("subscribed")]
          /\ op' = [NoOp EXCEPT !.kind = "search", !.rest = Listing("subscribed")]
    /\ UNCHANGED <<serverVars, sessionVars, fetchVars, refreshing>>

\* One folder after the other; the first that fails ends the search.
searchMessagesInFolder ==
    /\ op.kind = "search"
    /\ \E f \in op.rest : ensureSelected(f, [op EXCEPT !.rest = @ \ {f}])
    /\ UNCHANGED <<serverVars, commandClient, fetchVars, folderVars, shared, begun>>

\* No folder is left, enough was found, or UID SEARCH failed.
SearchEnd ==
    /\ op.kind = "search" /\ op' = NoOp
    /\ UNCHANGED box /\ Leaves

\* Fault: the check selects its folder and does not note it.
checkForNewMessages_Unnoted(f) ==
    /\ TakeCommand
    /\ commandClient = "up" /\ f \in exists
    /\ sel' = f /\ op' = Op("check", f, 0)
    /\ UNCHANGED <<serverVars, commandClient, selectedFolder, fetchVars, folderVars>>

\* A fresh SELECT each time, noted; then the fetch, which reads the note again.
checkForNewMessages(f) ==
    /\ TakeCommand
    /\ Selecting(f, Op("check", f, 0))
    /\ UNCHANGED <<serverVars, commandClient, fetchVars, folderVars>>

fetchNewMessages ==
    /\ op.kind = "check"
    /\ \/ ensureSelected(op.folder, NoOp)                       \* something is new
       \/ op' = NoOp /\ UNCHANGED <<sel, selectedFolder>>        \* nothing is
    /\ UNCHANGED <<serverVars, commandClient, fetchVars, folderVars, shared, begun>>

-----------------------------------------------------------------------------
(* The fetch loop.                                                           *)

\* ensureFetchClient dials when there is none; the command client stands in
\* when that fails.
handleFetchMessages(f) ==
    /\ job = NoJob /\ begun < MailCommands /\ commandClient # "nil"
    /\ begun' = begun + 1
    /\ \/ /\ fetchClient # "nil"
          /\ job' = [at |-> "select", folder |-> f, on |-> "fetch", open |-> TRUE]
          /\ UNCHANGED <<fetchClient, fetchSel, fetchSelectedFolder>>
       \/ /\ fetchClient = "nil"
          /\ fetchClient' = "up" /\ fetchSel' = NoFolder /\ fetchSelectedFolder' = NoFolder
          /\ job' = [at |-> "select", folder |-> f, on |-> "fetch", open |-> TRUE]
       \/ /\ fetchClient = "nil"
          /\ job' = [at |-> "select", folder |-> f, on |-> "command", open |-> TRUE]
          /\ UNCHANGED <<fetchClient, fetchSel, fetchSelectedFolder>>
    /\ shared' = (shared \/ (op # NoOp /\ Fallback(job')))
    /\ UNCHANGED <<serverVars, sessionVars, folderVars, cachedFrom, op>>

\* Fault: the fetch loop trusts the note of the command connection.
Noted_Command(j) == selectedFolder

Noted(j) == IF Fallback(j) THEN selectedFolder ELSE fetchSelectedFolder

Usable(j) == j.open /\ "up" = IF Fallback(j) THEN commandClient ELSE fetchClient

\* The SELECT and its note are two steps: the note is the worker's, whichever
\* connection the worker has by then.
FetchSelect ==
    /\ job.at = "select"
    /\ \/ /\ Noted(job) = job.folder
          /\ job' = [job EXCEPT !.at = "transfer"] /\ UNCHANGED <<sel, fetchSel>>
       \/ /\ Noted(job) # job.folder /\ Usable(job) /\ job.folder \in exists
          /\ job' = [job EXCEPT !.at = "note"]
          /\ IF Fallback(job) THEN sel' = job.folder /\ UNCHANGED fetchSel
                              ELSE fetchSel' = job.folder /\ UNCHANGED sel
       \/ /\ Noted(job) # job.folder /\ job' = NoJob
          /\ sel' = (IF Fallback(job) /\ job.open THEN NoFolder ELSE sel)
          /\ fetchSel' = (IF job.on = "fetch" /\ job.open THEN NoFolder ELSE fetchSel)
    /\ UNCHANGED <<serverVars, commandClient, selectedFolder, fetchClient,
                   fetchSelectedFolder, cachedFrom, folderVars, op, shared, begun>>

FetchNote ==
    /\ job.at = "note"
    /\ job' = [job EXCEPT !.at = "transfer"]
    /\ IF Fallback(job) THEN selectedFolder' = job.folder /\ UNCHANGED fetchSelectedFolder
                        ELSE fetchSelectedFolder' = job.folder /\ UNCHANGED selectedFolder
    /\ UNCHANGED <<serverVars, commandClient, sel, fetchClient, fetchSel, cachedFrom,
                   folderVars, op, shared, begun>>

\* UID SEARCH, UID FETCH and the cache. A transfer that breaks off half way
\* is cached like a whole one.
FetchTransfer ==
    /\ job.at = "transfer" /\ job' = NoJob
    /\ LET from == IF Fallback(job) THEN sel ELSE fetchSel
       IN IF Usable(job) /\ from # NoFolder
          THEN cachedFrom' \in {cachedFrom, [cachedFrom EXCEPT ![job.folder] = from]}
          ELSE UNCHANGED cachedFrom
    /\ UNCHANGED <<serverVars, sessionVars, fetchClient, fetchSel, fetchSelectedFolder,
                   folderVars, op, shared, begun>>

\* The caller gave up: the fetch connection is closed and forgotten, the
\* command connection only drained.
FetchAbort ==
    /\ job.at = "transfer" /\ job' = NoJob
    /\ IF Fallback(job)
       THEN UNCHANGED <<fetchClient, fetchSelectedFolder, fetchSel>>
       ELSE fetchClient' = "nil" /\ fetchSelectedFolder' = NoFolder /\ fetchSel' = NoFolder
    /\ UNCHANGED <<serverVars, sessionVars, cachedFrom, folderVars, op, shared, begun>>

-----------------------------------------------------------------------------
(* Connections.                                                              *)

\* The connections are lost, or the check's watchdog closes them.
Drop ==
    /\ commandClient = "up" /\ commandClient' = "down"
    /\ fetchClient' \in {fetchClient, IF fetchClient = "up" THEN "down" ELSE fetchClient}
    /\ UNCHANGED <<serverVars, sel, fetchSel, selectedFolder, fetchSelectedFolder, op,
                   job, lists, cachedFrom, refreshing, shared, begun>>

\* Both connections are closed and every note of a selection is dropped. A
\* bulk fetch that is under way keeps the client it has, now a closed one.
Cleared(client, fetch) ==
    /\ commandClient' = client /\ fetchClient' = fetch
    /\ sel' = NoFolder /\ fetchSel' = NoFolder
    /\ selectedFolder' = NoFolder /\ fetchSelectedFolder' = NoFolder
    /\ job' = IF job = NoJob THEN NoJob ELSE [job EXCEPT !.open = FALSE]
    /\ shared' = (shared \/ Fallback(job))
    /\ refreshing' = IF refreshing = "no" THEN "no" ELSE "closed"
    /\ UNCHANGED <<serverVars, op, lists, cachedFrom, begun>>

handleDisconnect ==
    /\ op = NoOp /\ commandClient # "nil" /\ Cleared("nil", "nil")

handleReconnect ==
    /\ op = NoOp /\ \E fetch \in {"up", "nil"} : Cleared("up", fetch)

-----------------------------------------------------------------------------
MailNext ==
    \/ \E f \in Folder :
         \/ \E kind \in {"read", "unread", "delete", "move", "fetch"} : MessageCommand(kind, f, 1)
         \/ handleMoveMessage(f) \/ handleStoreSentMessage(f)
         \/ handleSelectFolder(f) \/ handleCreateFolder(f) \/ handleDeleteFolder(f)
         \/ handleSubscribeFolder(f) \/ handleUnsubscribeFolder(f)
         \/ checkForNewMessages(f) \/ handleFetchMessages(f)
    \/ \E l \in {"all", "subscribed"} : handleListFolders(l)
    \/ handleSetSeen \/ handleFetchMessage \/ handleDeleteMessage \/ Expunge
    \/ handleRefreshFoldersInBackground \/ RefreshEnd
    \/ handleSearchMessages \/ searchMessagesInFolder \/ SearchEnd \/ fetchNewMessages
    \/ FetchSelect \/ FetchNote \/ FetchTransfer \/ FetchAbort
    \/ Drop \/ handleDisconnect \/ handleReconnect

MailSpec == MailInit /\ [][MailNext]_mailVars

-----------------------------------------------------------------------------
(* A command changes a message that a folder already holds only if it names  *)
(* that folder and that UID: the note of the selected folder never sends a   *)
(* STORE, an EXPUNGE or a MOVE to another folder that has the same UID. It   *)
(* may once a bulk fetch has shared the command connection with a command    *)
(* (flags.go 15-33, fetch.go 30-57).                                         *)
ActsOnNamedFolder ==
    [][~shared => \A f \in Folder : \A u \in UIDs :
          box[f][u] # "none" /\ box'[f][u] # box[f][u]
             => (op.folder = f /\ op.uid = u) \/ f \notin exists']_mailVars

(* What is cached as the messages of a folder came from that folder, unless  *)
(* the two loops have met on one connection: the note of the fetch           *)
(* connection survives aborts and reconnections without going wrong          *)
(* (fetch.go 35-57, 155-190; connection.go 167-184).                         *)
CachedUnderItsFolder ==
    shared \/ \A f \in Folder : cachedFrom[f] \in {NoFolder, f}

=============================================================================
