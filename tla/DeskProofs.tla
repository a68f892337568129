----------------------------- MODULE DeskProofs -----------------------------
(***************************************************************************)
(* Proofs about four parts of the desk: the mailboxes behind a connection, *)
(* the account sessions, the reading of messages, and composing and        *)
(* sending.  For each part an inductive invariant, that each of its        *)
(* actions preserves it, and what follows from it; at the end the theorems *)
(* about DeskSpec.                                                         *)
(***************************************************************************)
EXTENDS Desk, Sequences, FiniteSetTheorems, TLAPS

(***************************************************************************)
(* The mailboxes.  The worker's note of what a session has selected is     *)
(* right, or the session has nothing selected: between a SELECT of the     *)
(* fetch loop and its note it is the bulk fetch that says what is          *)
(* selected.  For the command connection this holds until both loops have  *)
(* met on it.                                                              *)
(***************************************************************************)
MessageKinds == {"read", "unread", "delete", "expunge", "move", "fetch"}

MailShape ==
  /\ box \in [Folder -> [M!UIDs -> {"unread", "read", "deleted", "none"}]]
  /\ cachedFrom = [f \in Folder |-> cachedFrom[f]]
  /\ exists \subseteq Folder /\ sel \in Folder \cup {M!NoFolder}
  /\ op = [kind |-> op.kind, folder |-> op.folder, uid |-> op.uid, rest |-> op.rest]
  /\ job = [at |-> job.at, folder |-> job.folder, on |-> job.on, open |-> job.open]
  /\ job.on \in {"command", "fetch"} \/ job = M!NoJob
  /\ op.kind \in MessageKinds => op.uid = 1

\* What a note says once the SELECT that is under way has been noted.
Expected(note, on) == IF job.on = on /\ job.at = "note" THEN job.folder ELSE note
Right(selection, note, on) ==
  /\ selection \in {M!NoFolder, Expected(note, on)}
  /\ job.on = on /\ job.at = "transfer" => selection \in {M!NoFolder, job.folder}

FetchNoteRight == Right(fetchSel, fetchSelectedFolder, "fetch")
CommandNoteRight == Right(sel, selectedFolder, "command")
FallbackAlone == M!Fallback(job) => op = M!NoOp
OnNamedFolder == op.kind \in MessageKinds => sel \in {M!NoFolder, op.folder}
CommandsOK == CommandNoteRight /\ FallbackAlone /\ OnNamedFolder
CommandsRight == shared \/ CommandsOK

MailInv == MailShape /\ FetchNoteRight /\ CommandsRight /\ CachedUnderItsFolder

LEMMA MailInitially == M!MailInit => MailInv
  BY DEF M!MailInit, MailInv, MailShape, FetchNoteRight, CommandsRight, CommandsOK,
     CommandNoteRight, FallbackAlone, OnNamedFolder, CachedUnderItsFolder, M!CachedUnderItsFolder, Right, Expected, M!NoOp, M!NoJob,
     M!NoFolder, M!UIDs, MessageKinds, M!Fallback

\* A SELECT on the command connection, noted or found in the note.
LEMMA Selected ==
  ASSUME NEW STATE f, NEW STATE next, M!ensureSelected(f, next) \/ M!Selecting(f, next),
         sel \in {M!NoFolder, selectedFolder}
  PROVE  /\ sel' \in {M!NoFolder, selectedFolder'}
         /\ op' = M!NoOp \/ (op' = next /\ sel' \in {M!NoFolder, f})
  BY DEF M!ensureSelected, M!Selecting

LEMMA SelectAnswers ==
  ASSUME NEW STATE f, NEW STATE next, M!ensureSelected(f, next) \/ M!Selecting(f, next)
  PROVE  op' \in {M!NoOp, next} /\ sel' \in exists \cup {sel, M!NoFolder}
  BY DEF M!ensureSelected, M!Selecting


LEMMA MailShapeKept == MailShape /\ [M!MailNext]_M!mailVars => MailShape'
  <1> SUFFICES ASSUME MailShape, [M!MailNext]_M!mailVars PROVE MailShape'
    OBVIOUS
  <1> USE DEF MailShape, MessageKinds, M!NoOp, M!NoJob, M!Op
  <1>1. ASSUME NEW f \in Folder, NEW kind \in {"read", "unread", "delete", "move", "fetch"},
               M!MessageCommand(kind, f, 1)
        PROVE  MailShape'
    <2>1. op' \in {M!NoOp, M!Op(kind, f, 1)} /\ sel' \in exists \cup {sel, M!NoFolder}
      BY <1>1, SelectAnswers DEF M!MessageCommand
    <2>2. UNCHANGED <<box, exists, cachedFrom, job>>
      BY <1>1 DEF M!MessageCommand, M!serverVars, M!fetchVars
    <2> QED
      BY <2>1, <2>2
  <1>2. ASSUME M!handleSetSeen \/ M!handleFetchMessage \/ M!handleDeleteMessage \/ M!Expunge
        PROVE  MailShape'
    <2>1. UNCHANGED <<exists, sel, cachedFrom, job>> /\ op' \in {M!NoOp, [op EXCEPT !.kind = "expunge"]}
      BY <1>2 DEF M!handleSetSeen, M!handleFetchMessage, M!handleDeleteMessage, M!Expunge,
         M!Leaves, M!sessionVars, M!fetchVars
    <2>2. op' # M!NoOp => op.kind = "delete"
      BY <1>2 DEF M!handleSetSeen, M!handleFetchMessage, M!handleDeleteMessage, M!Expunge
    <2>3. \/ UNCHANGED box
          \/ \E to \in {"unread", "read", "deleted", "none"} : box' = [box EXCEPT ![sel][op.uid] = to]
      BY <1>2 DEF M!handleSetSeen, M!handleFetchMessage, M!handleDeleteMessage, M!Expunge, M!InSelected
    <2>4. box' \in [Folder -> [M!UIDs -> {"unread", "read", "deleted", "none"}]]
      BY <2>3
    <2> QED
      BY <2>1, <2>2, <2>4
  <1>3. ASSUME NEW f \in Folder, M!handleMoveMessage(f) PROVE MailShape'
    <2>1. UNCHANGED <<exists, sel, cachedFrom, job>> /\ op' = M!NoOp
      BY <1>3 DEF M!handleMoveMessage, M!Leaves, M!sessionVars, M!fetchVars
    <2>2. box' \in [Folder -> [M!UIDs -> {"unread", "read", "deleted", "none"}]]
      BY <1>3 DEF M!handleMoveMessage, M!UIDs
    <2> QED
      BY <2>1, <2>2
  <1>4. ASSUME NEW f \in Folder, \/ M!handleStoreSentMessage(f)
                                 \/ M!handleCreateFolder(f) \/ M!handleDeleteFolder(f)
        PROVE  MailShape'
    <2>1. UNCHANGED <<cachedFrom, op, job>> /\ exists' \subseteq Folder /\ sel' \in {sel, M!NoFolder}
      BY <1>4 DEF M!handleStoreSentMessage, M!handleCreateFolder, M!handleDeleteFolder, M!FolderCommand,
         M!fetchVars, M!sessionVars
    <2>2. \/ UNCHANGED box
          \/ box' = [box EXCEPT ![f][2] = "read"]
          \/ box' = [box EXCEPT ![f] = [u \in M!UIDs |-> "none"]]
      BY <1>4 DEF M!handleStoreSentMessage, M!handleCreateFolder, M!handleDeleteFolder
    <2>3. box' \in [Folder -> [M!UIDs -> {"unread", "read", "deleted", "none"}]]
      BY <2>2
    <2> QED
      BY <2>1, <2>3
  <1>5. ASSUME NEW f \in Folder, M!handleSelectFolder(f) \/ M!checkForNewMessages(f) PROVE MailShape'
    <2>1. op' \in {M!NoOp, M!Op("check", f, 0)} /\ sel' \in exists \cup {sel, M!NoFolder}
      BY <1>5, SelectAnswers DEF M!handleSelectFolder, M!checkForNewMessages
    <2>2. UNCHANGED <<box, exists, cachedFrom, job>>
      BY <1>5 DEF M!handleSelectFolder, M!checkForNewMessages, M!serverVars, M!fetchVars
    <2> QED
      BY <2>1, <2>2
  <1>6. ASSUME \/ \E f \in Folder : M!handleSubscribeFolder(f) \/ M!handleUnsubscribeFolder(f)
               \/ \E l \in {"all", "subscribed"} : M!handleListFolders(l)
               \/ M!handleRefreshFoldersInBackground \/ M!RefreshEnd \/ M!Drop
               \/ UNCHANGED M!mailVars
        PROVE  MailShape'
    <2>1. UNCHANGED <<box, exists, sel, cachedFrom, op, job>>
      BY <1>6 DEF M!handleSubscribeFolder, M!handleUnsubscribeFolder,
         M!handleListFolders, M!handleRefreshFoldersInBackground, M!RefreshEnd, M!Drop,
         M!FolderCommand, M!serverVars, M!sessionVars, M!fetchVars, M!mailVars
    <2> QED
      BY <2>1
  <1>7. ASSUME M!handleSearchMessages PROVE MailShape'
    BY <1>7 DEF M!handleSearchMessages, M!serverVars, M!sessionVars, M!fetchVars
  <1>8. ASSUME M!searchMessagesInFolder PROVE MailShape'
    <2>1. PICK f \in op.rest : /\ op' \in {M!NoOp, [op EXCEPT !.rest = @ \ {f}]}
                              /\ sel' \in exists \cup {sel, M!NoFolder}
      BY <1>8, SelectAnswers DEF M!searchMessagesInFolder
    <2>2. UNCHANGED <<box, exists, cachedFrom, job>> /\ op.kind = "search"
      BY <1>8 DEF M!searchMessagesInFolder, M!serverVars, M!fetchVars
    <2> QED
      BY <2>1, <2>2
  <1>9. ASSUME M!SearchEnd \/ M!fetchNewMessages PROVE MailShape'
    <2>1. op' = M!NoOp /\ sel' \in exists \cup {sel, M!NoFolder}
      BY <1>9, SelectAnswers DEF M!SearchEnd, M!fetchNewMessages, M!Leaves, M!sessionVars
    <2>2. UNCHANGED <<box, exists, cachedFrom, job>>
      BY <1>9 DEF M!SearchEnd, M!fetchNewMessages, M!Leaves, M!serverVars, M!fetchVars
    <2> QED
      BY <2>1, <2>2
  <1>10. ASSUME NEW f \in Folder, M!handleFetchMessages(f) PROVE MailShape'
    BY <1>10 DEF M!handleFetchMessages, M!serverVars, M!sessionVars
  <1>11. ASSUME M!FetchSelect \/ M!FetchNote \/ M!FetchAbort PROVE MailShape'
    BY <1>11 DEF M!FetchSelect, M!FetchNote, M!FetchAbort, M!serverVars, M!sessionVars
  <1>12. ASSUME M!FetchTransfer PROVE MailShape'
    BY <1>12 DEF M!FetchTransfer, M!serverVars, M!sessionVars
  <1>13. ASSUME M!handleDisconnect \/ M!handleReconnect PROVE MailShape'
    BY <1>13 DEF M!handleDisconnect, M!handleReconnect, M!Cleared, M!serverVars
  <1> QED
    BY <1>1, <1>2, <1>3, <1>4, <1>5, <1>6, <1>7, <1>8, <1>9, <1>10, <1>11, <1>12, <1>13 DEF M!MailNext

\* Of the fetch connection only a bulk fetch, and the loss of both
\* connections, change what is selected or noted.
LEMMA FetchNoteKept ==
  MailShape /\ FetchNoteRight /\ [M!MailNext]_M!mailVars => FetchNoteRight'
  <1> SUFFICES ASSUME MailShape, FetchNoteRight, [M!MailNext]_M!mailVars PROVE FetchNoteRight'
    OBVIOUS
  <1> USE DEF FetchNoteRight, Right, Expected, M!NoJob
  <1>1. ASSUME NEW f \in Folder, M!handleFetchMessages(f) PROVE FetchNoteRight'
    BY <1>1 DEF M!handleFetchMessages
  <1>2. ASSUME M!FetchSelect PROVE FetchNoteRight'
    <2>1. CASE M!Noted(job) = job.folder
      BY <1>2, <2>1 DEF M!FetchSelect, M!Noted, M!Fallback, MailShape
    <2>2. CASE job' = [job EXCEPT !.at = "note"] /\ ~M!Fallback(job) /\ fetchSel' = job.folder
      BY <1>2, <2>2 DEF M!FetchSelect, M!Fallback, MailShape
    <2>3. CASE job' = [job EXCEPT !.at = "note"] /\ M!Fallback(job) /\ UNCHANGED fetchSel
      BY <1>2, <2>3 DEF M!FetchSelect, M!Fallback, MailShape
    <2>4. CASE job' = M!NoJob /\ fetchSel' \in {fetchSel, M!NoFolder}
      BY <1>2, <2>4 DEF M!FetchSelect, MailShape
    <2> QED
      BY <1>2, <2>1, <2>2, <2>3, <2>4 DEF M!FetchSelect
  <1>3. ASSUME M!FetchNote PROVE FetchNoteRight'
    <2>1. CASE M!Fallback(job)
      BY <1>3, <2>1 DEF M!FetchNote, M!Fallback, MailShape
    <2>2. CASE ~M!Fallback(job)
      BY <1>3, <2>2 DEF M!FetchNote, M!Fallback, MailShape
    <2> QED
      BY <2>1, <2>2
  <1>4. ASSUME M!FetchTransfer \/ M!FetchAbort PROVE FetchNoteRight'
    BY <1>4 DEF M!FetchTransfer, M!FetchAbort, M!sessionVars
  <1>5. ASSUME M!handleDisconnect \/ M!handleReconnect PROVE FetchNoteRight'
    BY <1>5 DEF M!handleDisconnect, M!handleReconnect, M!Cleared
  <1>6. ASSUME UNCHANGED <<fetchSel, fetchSelectedFolder, job>> PROVE FetchNoteRight'
    BY <1>6
  <1> HIDE DEF FetchNoteRight
  <1> QED
    BY <1>1, <1>2, <1>3, <1>4, <1>5, <1>6
    DEF M!MailNext, M!mailVars, M!fetchVars, M!FolderCommand, M!Leaves, M!MessageCommand, M!handleMoveMessage,
        M!handleStoreSentMessage, M!handleSelectFolder, M!handleCreateFolder, M!handleDeleteFolder,
        M!handleSubscribeFolder, M!handleUnsubscribeFolder, M!checkForNewMessages, M!handleListFolders,
        M!handleSetSeen, M!handleFetchMessage, M!handleDeleteMessage, M!Expunge, M!Drop,
        M!handleRefreshFoldersInBackground, M!RefreshEnd, M!handleSearchMessages,
        M!searchMessagesInFolder, M!SearchEnd, M!fetchNewMessages

LEMMA SharedStays ==
  ASSUME [M!MailNext]_M!mailVars, shared
  PROVE  shared'
  <1>1. CASE M!TakeCommand
    BY <1>1 DEF M!TakeCommand
  <1>2. ASSUME NEW f \in Folder, M!handleFetchMessages(f) PROVE shared'
    BY <1>2 DEF M!handleFetchMessages
  <1>3. CASE M!handleDisconnect \/ M!handleReconnect
    BY <1>3 DEF M!handleDisconnect, M!handleReconnect, M!Cleared
  <1>4. CASE UNCHANGED shared
    BY <1>4
  <1> QED
    BY <1>1, <1>2, <1>3, <1>4
    DEF M!MailNext, M!mailVars, M!FolderCommand, M!Leaves, M!MessageCommand,
        M!handleMoveMessage, M!handleStoreSentMessage, M!handleSelectFolder, M!handleCreateFolder,
        M!handleDeleteFolder, M!handleSubscribeFolder, M!handleUnsubscribeFolder,
        M!checkForNewMessages, M!handleListFolders, M!handleSetSeen, M!handleFetchMessage,
        M!handleDeleteMessage, M!Expunge, M!Drop, M!handleRefreshFoldersInBackground, M!RefreshEnd,
        M!handleSearchMessages, M!searchMessagesInFolder, M!SearchEnd, M!fetchNewMessages,
        M!FetchSelect, M!FetchNote, M!FetchTransfer, M!FetchAbort

\* What is selected on the command connection follows its note, unless a bulk
\* fetch has borrowed that connection and a command meets it there.
LEMMA CommandsKept ==
  MailShape /\ CommandsRight /\ [M!MailNext]_M!mailVars => CommandsRight'
  <1> SUFFICES ASSUME MailShape, CommandsRight, [M!MailNext]_M!mailVars, ~shared, ~shared'
               PROVE  CommandsOK'
    BY SharedStays DEF CommandsRight
  <1>1. CommandNoteRight /\ FallbackAlone /\ OnNamedFolder
    BY DEF CommandsRight, CommandsOK
  \* A command that begins, or goes on, meets no bulk fetch on its connection.
  <1>2. ASSUME op # M!NoOp \/ M!TakeCommand PROVE ~M!Fallback(job)
    BY <1>1, <1>2 DEF M!TakeCommand, FallbackAlone
  <1>3. ~M!Fallback(job) => sel \in {M!NoFolder, selectedFolder}
    BY <1>1 DEF CommandNoteRight, Right, Expected, M!Fallback
  <1>4. ASSUME ~M!Fallback(job), UNCHANGED job, sel' \in {M!NoFolder, selectedFolder'}, OnNamedFolder'
        PROVE  CommandsOK'
    BY <1>4 DEF CommandsOK, CommandNoteRight, FallbackAlone, Right, Expected, M!Fallback
  \* The actions that select, those that go on with what is selected, and the rest.
  <1>5. ASSUME NEW STATE f, NEW STATE next, M!ensureSelected(f, next) \/ M!Selecting(f, next),
               next.folder = f \/ next.kind \notin MessageKinds,
               UNCHANGED job, op # M!NoOp \/ M!TakeCommand
        PROVE  CommandsOK'
    <2>1. /\ sel' \in {M!NoFolder, selectedFolder'}
          /\ op' = M!NoOp \/ (op' = next /\ sel' \in {M!NoFolder, f})
      BY <1>2, <1>3, <1>5, Selected
    <2>2. OnNamedFolder'
      BY <1>5, <2>1 DEF OnNamedFolder, M!NoOp, MessageKinds
    <2> QED
      BY <1>2, <1>4, <1>5, <2>1, <2>2
  <1>6. ASSUME NEW f \in Folder, NEW kind \in {"read", "unread", "delete", "move", "fetch"},
               M!MessageCommand(kind, f, 1)
        PROVE  CommandsOK'
    BY <1>5, <1>6 DEF M!MessageCommand, M!Op, M!fetchVars
  <1>7. ASSUME NEW f \in Folder, M!handleSelectFolder(f) PROVE CommandsOK'
    BY <1>5, <1>7 DEF M!handleSelectFolder, M!NoOp, MessageKinds, M!fetchVars
  <1>8. ASSUME NEW f \in Folder, M!checkForNewMessages(f) PROVE CommandsOK'
    BY <1>5, <1>8 DEF M!checkForNewMessages, M!Op, MessageKinds, M!fetchVars
  <1>9. ASSUME M!searchMessagesInFolder PROVE CommandsOK'
    <2>1. PICK f \in op.rest : M!ensureSelected(f, [op EXCEPT !.rest = @ \ {f}])
      BY <1>9 DEF M!searchMessagesInFolder
    <2>2. [op EXCEPT !.rest = @ \ {f}].kind = "search"
      BY <1>9 DEF M!searchMessagesInFolder, MailShape
    <2>3. op # M!NoOp /\ UNCHANGED job
      BY <1>9 DEF M!searchMessagesInFolder, M!NoOp, M!fetchVars
    <2> QED
      BY <1>5, <2>1, <2>2, <2>3 DEF MessageKinds
  <1>10. ASSUME M!fetchNewMessages PROVE CommandsOK'
    <2>1. op # M!NoOp /\ UNCHANGED job
      BY <1>10 DEF M!fetchNewMessages, M!NoOp, M!fetchVars
    <2>2. CASE M!ensureSelected(op.folder, M!NoOp)
      BY <1>5, <2>1, <2>2 DEF M!NoOp, MessageKinds
    <2>3. CASE op' = M!NoOp /\ UNCHANGED <<sel, selectedFolder>>
      BY <1>2, <1>3, <1>4, <2>1, <2>3 DEF OnNamedFolder, M!NoOp, MessageKinds
    <2> QED
      BY <1>10, <2>2, <2>3 DEF M!fetchNewMessages
  <1>11. ASSUME NEW f \in Folder, M!handleDeleteFolder(f) PROVE CommandsOK'
    BY <1>1, <1>2, <1>3, <1>4, <1>11
    DEF M!handleDeleteFolder, M!FolderCommand, M!fetchVars, OnNamedFolder
  <1>12. ASSUME \/ M!handleSetSeen \/ M!handleFetchMessage \/ M!handleDeleteMessage \/ M!Expunge
                \/ \E f \in Folder : M!handleMoveMessage(f)
                \/ M!SearchEnd
         PROVE  CommandsOK'
    <2>1. UNCHANGED <<sel, selectedFolder, job>> /\ op.kind \in MessageKinds \cup {"search"}
      BY <1>12 DEF M!handleSetSeen, M!handleFetchMessage, M!handleDeleteMessage, M!Expunge,
         M!handleMoveMessage, M!SearchEnd, M!Leaves, M!sessionVars, M!fetchVars, MessageKinds
    <2>2. \/ op' = M!NoOp
          \/ op' = [op EXCEPT !.kind = "expunge"] /\ op.kind = "delete"
      BY <1>12 DEF M!handleSetSeen, M!handleFetchMessage, M!handleDeleteMessage, M!Expunge,
         M!handleMoveMessage, M!SearchEnd
    <2>3. op # M!NoOp
      BY <2>1 DEF M!NoOp, MessageKinds
    <2>4. OnNamedFolder'
      BY <1>1, <2>1, <2>2 DEF OnNamedFolder, MailShape, M!NoOp, MessageKinds
    <2> QED
      BY <1>2, <1>3, <1>4, <2>1, <2>3, <2>4
  <1>13. ASSUME M!handleSearchMessages PROVE CommandsOK'
    <2>1. UNCHANGED <<sel, selectedFolder, job>> /\ op'.kind = "search"
      BY <1>13 DEF M!handleSearchMessages, M!sessionVars, M!fetchVars, M!NoOp
    <2> QED
      BY <1>2, <1>3, <1>4, <1>13, <2>1 DEF M!handleSearchMessages, OnNamedFolder, MessageKinds
  \* A bulk fetch that borrows the connection does so while no command is on it.
  <1>14. ASSUME NEW f \in Folder, M!handleFetchMessages(f) PROVE CommandsOK'
    <2>1. UNCHANGED <<sel, selectedFolder, op>> /\ job'.at = "select" /\ job = M!NoJob
      BY <1>14 DEF M!handleFetchMessages, M!sessionVars
    <2>2. FallbackAlone'
      BY <1>14, <2>1 DEF M!handleFetchMessages, FallbackAlone
    <2> QED
      BY <1>1, <1>3, <2>1, <2>2
      DEF CommandsOK, CommandNoteRight, OnNamedFolder, Right, Expected, M!Fallback, M!NoJob
  <1>15. ASSUME M!FetchSelect PROVE CommandsOK'
    <2>1. UNCHANGED <<selectedFolder, op>> /\ job'.on \in {job.on, "none"}
      BY <1>15 DEF M!FetchSelect, M!NoJob, MailShape
    <2>2. CASE ~M!Fallback(job)
      BY <1>1, <1>3, <1>15, <2>1, <2>2 DEF M!FetchSelect, M!Fallback, M!NoJob, MailShape,
         CommandsOK, CommandNoteRight, FallbackAlone, OnNamedFolder, Right, Expected
    <2>3. CASE M!Fallback(job)
      <3>1. op' = M!NoOp
        BY <1>1, <2>1, <2>3 DEF FallbackAlone
      <3>2. sel \in {M!NoFolder, selectedFolder}
        BY <1>1, <1>15 DEF M!FetchSelect, CommandNoteRight, Right, Expected
      <3>3. \/ M!Noted(job) = job.folder /\ job' = [job EXCEPT !.at = "transfer"] /\ UNCHANGED sel
            \/ job' = [job EXCEPT !.at = "note"] /\ sel' = job.folder
            \/ job' = M!NoJob /\ sel' \in {sel, M!NoFolder}
        BY <1>15, <2>3 DEF M!FetchSelect
      <3>4. CommandNoteRight'
        BY <2>1, <2>3, <3>2, <3>3 DEF CommandNoteRight, Right, Expected, M!Noted, M!Fallback, M!NoJob, MailShape
      <3> QED
        BY <3>1, <3>4 DEF CommandsOK, FallbackAlone, OnNamedFolder, M!NoOp, MessageKinds
    <2> QED
      BY <2>2, <2>3
  <1>16. ASSUME M!FetchNote PROVE CommandsOK'
    <2>1. UNCHANGED <<sel, op>> /\ job' = [job EXCEPT !.at = "transfer"]
      BY <1>16 DEF M!FetchNote
    <2>2. selectedFolder' = IF M!Fallback(job) THEN job.folder ELSE selectedFolder
      BY <1>16 DEF M!FetchNote
    <2> QED
      BY <1>1, <1>16, <2>1, <2>2 DEF M!FetchNote, M!Fallback, MailShape,
         CommandsOK, CommandNoteRight, FallbackAlone, OnNamedFolder, Right, Expected
  <1>17. ASSUME M!FetchTransfer \/ M!FetchAbort PROVE CommandsOK'
    BY <1>1, <1>17 DEF M!FetchTransfer, M!FetchAbort, M!Fallback, M!NoJob, M!sessionVars,
       CommandsOK, CommandNoteRight, FallbackAlone, OnNamedFolder, Right, Expected
  <1>18. ASSUME M!handleDisconnect \/ M!handleReconnect PROVE CommandsOK'
    <2>1. sel' = M!NoFolder /\ selectedFolder' = M!NoFolder /\ UNCHANGED op /\ op = M!NoOp
      BY <1>18 DEF M!handleDisconnect, M!handleReconnect, M!Cleared
    <2>2. ~M!Fallback(job) /\ job' \in {M!NoJob, [job EXCEPT !.open = FALSE]}
      BY <1>18 DEF M!handleDisconnect, M!handleReconnect, M!Cleared
    <2> QED
      BY <2>1, <2>2 DEF MailShape, M!Fallback, M!NoJob,
         CommandsOK, CommandNoteRight, FallbackAlone, OnNamedFolder, Right, Expected
  <1>19. ASSUME UNCHANGED <<sel, selectedFolder, op, job>> PROVE CommandsOK'
    BY <1>1, <1>19 DEF CommandsOK, CommandNoteRight, FallbackAlone, OnNamedFolder, Right, Expected, M!Fallback
  <1> QED
    BY <1>6, <1>7, <1>8, <1>9, <1>10, <1>11, <1>12, <1>13, <1>14, <1>15, <1>16, <1>17, <1>18, <1>19
    DEF M!MailNext, M!mailVars, M!sessionVars, M!fetchVars, M!FolderCommand, M!handleStoreSentMessage,
        M!handleCreateFolder, M!handleSubscribeFolder, M!handleUnsubscribeFolder, M!handleListFolders,
        M!handleRefreshFoldersInBackground, M!RefreshEnd, M!Drop

\* Only the end of a bulk fetch writes to the cache, from where it has selected.
LEMMA CachedKept == MailInv /\ [M!MailNext]_M!mailVars => CachedUnderItsFolder'
  <1> SUFFICES ASSUME MailInv, [M!MailNext]_M!mailVars, ~shared, ~shared',
                      NEW f \in Folder
               PROVE  cachedFrom'[f] \in {M!NoFolder, f}
    BY SharedStays DEF CachedUnderItsFolder, M!CachedUnderItsFolder
  <1>1. cachedFrom[f] \in {M!NoFolder, f}
    BY DEF MailInv, CachedUnderItsFolder, M!CachedUnderItsFolder
  <1>2. CASE M!FetchTransfer
    <2> DEFINE from == IF M!Fallback(job) THEN sel ELSE fetchSel
    <2>1. cachedFrom' = cachedFrom \/ (cachedFrom' = [cachedFrom EXCEPT ![job.folder] = from])
      BY <1>2 DEF M!FetchTransfer
    <2>2. job.at = "transfer" /\ job.on \in {"command", "fetch"}
      BY <1>2 DEF M!FetchTransfer, MailInv, MailShape, M!NoJob
    <2>3. from \in {M!NoFolder, job.folder}
      BY <2>2 DEF MailInv, FetchNoteRight, CommandsRight, CommandsOK, CommandNoteRight, Right,
         M!Fallback
    <2> HIDE DEF from
    <2> QED
      BY <1>1, <2>1, <2>3 DEF MailInv, MailShape
  <1>3. CASE UNCHANGED cachedFrom
    BY <1>1, <1>3
  <1> QED
    BY <1>2, <1>3 DEF M!MailNext, M!mailVars, M!fetchVars, M!FolderCommand, M!Leaves, M!MessageCommand,
       M!handleMoveMessage, M!handleStoreSentMessage, M!handleSelectFolder, M!handleCreateFolder,
       M!handleDeleteFolder, M!handleSubscribeFolder, M!handleUnsubscribeFolder,
       M!checkForNewMessages, M!handleListFolders, M!handleSetSeen, M!handleFetchMessage,
       M!handleDeleteMessage, M!Expunge, M!Drop, M!handleRefreshFoldersInBackground, M!RefreshEnd,
       M!handleSearchMessages, M!searchMessagesInFolder, M!SearchEnd, M!fetchNewMessages,
       M!handleFetchMessages, M!FetchSelect, M!FetchNote, M!FetchAbort,
       M!handleDisconnect, M!handleReconnect, M!Cleared

LEMMA MailKept == MailInv /\ [M!MailNext]_M!mailVars => MailInv'
  BY MailShapeKept, FetchNoteKept, CommandsKept, CachedKept DEF MailInv

\* A command that changes a message names its folder and its UID.
LEMMA ActsNamed ==
  ASSUME MailInv, M!MailNext, ~shared, NEW f \in Folder, NEW u \in M!UIDs,
         box[f][u] # "none", box'[f][u] # box[f][u]
  PROVE  (op.folder = f /\ op.uid = u) \/ f \notin exists'
  <1>1. MailShape /\ OnNamedFolder
    BY DEF MailInv, CommandsRight, CommandsOK
  <1>2. ASSUME M!handleSetSeen \/ M!handleFetchMessage \/ M!handleDeleteMessage \/ M!Expunge
        PROVE  op.folder = f /\ op.uid = u
    <2>1. \E to : sel # M!NoFolder /\ box' = [box EXCEPT ![sel][op.uid] = to]
      BY <1>2 DEF M!handleSetSeen, M!handleFetchMessage, M!handleDeleteMessage, M!Expunge, M!InSelected
    <2>2. sel = f /\ op.uid = u
      BY <1>1, <2>1 DEF MailShape
    <2>3. op.kind \in MessageKinds
      BY <1>2 DEF M!handleSetSeen, M!handleFetchMessage, M!handleDeleteMessage, M!Expunge, MessageKinds
    <2> QED
      BY <1>1, <2>1, <2>2, <2>3 DEF OnNamedFolder
  <1>3. ASSUME NEW target \in Folder, M!handleMoveMessage(target) PROVE op.folder = f /\ op.uid = u
    <2>1. /\ sel # M!NoFolder /\ box[target][2] = "none"
          /\ box' = [box EXCEPT ![sel][op.uid] = "none", ![target][2] = box[sel][op.uid]]
      BY <1>3 DEF M!handleMoveMessage
    <2>2. sel = f /\ op.uid = u
      BY <1>1, <2>1 DEF MailShape
    <2>3. op.kind \in MessageKinds
      BY <1>3 DEF M!handleMoveMessage, MessageKinds
    <2> QED
      BY <1>1, <2>1, <2>2, <2>3 DEF OnNamedFolder
  <1>4. ASSUME NEW g \in Folder, M!handleStoreSentMessage(g) PROVE FALSE
    BY <1>1, <1>4 DEF M!handleStoreSentMessage, MailShape
  <1>5. ASSUME NEW g \in Folder, M!handleDeleteFolder(g) PROVE f \notin exists'
    BY <1>1, <1>5 DEF M!handleDeleteFolder, MailShape
  <1>6. CASE UNCHANGED box
    BY <1>6
  <1> QED
    BY <1>2, <1>3, <1>4, <1>5, <1>6
    DEF M!MailNext, M!serverVars, M!FolderCommand, M!MessageCommand, M!handleSelectFolder, M!handleCreateFolder,
        M!handleSubscribeFolder, M!handleUnsubscribeFolder, M!checkForNewMessages, M!handleListFolders,
        M!Drop, M!handleRefreshFoldersInBackground, M!RefreshEnd, M!handleSearchMessages,
        M!searchMessagesInFolder, M!SearchEnd, M!fetchNewMessages, M!handleFetchMessages,
        M!FetchSelect, M!FetchNote, M!FetchTransfer, M!FetchAbort,
        M!handleDisconnect, M!handleReconnect, M!Cleared

(***************************************************************************)
(* Reading.  A pointer whose slot has kept its item points to the message  *)
(* that it was made for.  A timer that still has its handle is for the     *)
(* message that was opened last, in a list of the folder that is shown;    *)
(* one that has just fired is for a message of that folder, unless it has  *)
(* come loose.  What is then looked up by its UID in the folder is the     *)
(* message itself: an account's folder holds a UID once.                   *)
(***************************************************************************)
Boxes == {R!Unified} \cup [account : {m.account : m \in Mail}, folder : {m.folder : m \in Mail}]
Pointer == [slot : Nat, mail : Mail \cup {NoMail}, box : Boxes, was : Mail,
            opened : BOOLEAN, still : BOOLEAN]

ListShape == /\ list = [arr |-> list.arr, n |-> list.n]
             /\ list.n \in Nat /\ 1..list.n \subseteq DOMAIN list.arr
             /\ \A i \in DOMAIN list.arr : i \in Nat \ {0} /\ list.arr[i] \in Mail
             /\ view \in R!Views

\* What a pointer points to.
Points(s) == /\ ptrs[s].slot > 0 => ptrs[s].slot \in DOMAIN list.arr
             /\ ptrs[s].still => R!Target(s) = ptrs[s].was

PointersOK == /\ ptrs \in Seq(Pointer)
              /\ \A s \in 1..Len(ptrs) : Points(s)

FetchOK(f) == /\ f = [sel |-> f.sel, at |-> f.at, box |-> f.box, got |-> f.got]
              /\ f.sel \in 1..Len(ptrs)
              /\ f.at = "fetched" /\ ptrs[f.sel].still => f.got.uid = ptrs[f.sel].was.uid

ArmedOK(s) == /\ s \in 1..Len(ptrs)
              /\ \/ s \in loose
                 \/ /\ s = timer /\ R!InView(ptrs[s].was, view)
                    /\ \A i \in s + 1..Len(ptrs) : ~ptrs[i].opened

MarkOK(k) == /\ k = [sel |-> k.sel, at |-> k.at, box |-> k.box]
             /\ k.sel \in 1..Len(ptrs) /\ k.sel \notin armed
             /\ k.at = "fired" => k.sel \in loose \/ R!InView(ptrs[k.sel].was, view)
             /\ k.at = "store" /\ ptrs[k.sel].still =>
                  k.sel \in loose \/ k.box = R!Place(ptrs[k.sel].was)

ShownOK == selected # 0 => /\ selected \in 1..Len(ptrs)
                           /\ viewer.kind = "body" => \/ ~ptrs[selected].opened
                                                      \/ ~ptrs[selected].still
                                                      \/ viewer.mail.uid = ptrs[selected].was.uid
BodiesOK == \A b \in bodies : b.still => b.of.uid = b.mail.uid

ReadingInv == /\ ListShape /\ PointersOK
              /\ \A f \in fetches : FetchOK(f)
              /\ \A s \in armed : ArmedOK(s)
              /\ \A k \in marking : MarkOK(k)
              /\ ShownOK /\ BodiesOK

\* A list that comes in is an array of messages.
LEMMA ListingShape ==
  ASSUME NEW v, NEW s \in R!Listings(v)
  PROVE  Len(s) \in Nat /\ DOMAIN s = 1..Len(s) /\ \A i \in DOMAIN s : s[i] \in Mail
  <1> DEFINE items == {m \in Mail : R!InView(m, v)}
             size == Cardinality(items)
  <1>1. size \in Nat
    BY MailAssumption, FS_Subset, FS_CardinalityType
  <1>6. R!Cardinality(items) = size
    BY DEF R!Cardinality, Cardinality
  <1>2. s \in [1..size -> items]
    BY <1>6 DEF R!Listings
  <1>5. items \subseteq Mail
    OBVIOUS
  <1> HIDE DEF size, items
  <1>3. s \in Seq(items)
    BY <1>1, <1>2
  <1>4. Len(s) = size
    BY <1>1, <1>2, <1>3
  <1> QED
    BY <1>1, <1>2, <1>4, <1>5

LEMMA ReadingInitially == R!ReadingInit => ReadingInv
  <1> SUFFICES ASSUME R!ReadingInit PROVE ReadingInv
    OBVIOUS
  <1>1. ListShape
    BY ListingShape DEF R!ReadingInit, ListShape, R!Views
  <1>2. PointersOK
    BY DEF R!ReadingInit, PointersOK
  <1> QED
    BY <1>1, <1>2 DEF R!ReadingInit, ReadingInv, ShownOK, BodiesOK

-----------------------------------------------------------------------------
\* What a step does to the pointers: those that there are go on being for the
\* message they were made for, and one may come to them.
Opens(s) == ptrs'[s].opened = ptrs[s].opened
Carried == /\ Len(ptrs') \in Nat /\ Len(ptrs) <= Len(ptrs')
           /\ \A s \in 1..Len(ptrs) : /\ ptrs'[s].was = ptrs[s].was /\ Opens(s)
                                      /\ ptrs'[s].still => ptrs[s].still

LEMMA PointerAdded ==
  ASSUME ListShape, PointersOK, NEW STATE p, p \in Pointer, R!Points(p), UNCHANGED list,
         view' \in R!Views,
         p.slot > 0 => p.slot \in DOMAIN list.arr /\ list.arr[p.slot] = p.was,
         p.slot = 0 => p.mail = p.was
  PROVE  /\ ListShape' /\ PointersOK' /\ Carried
         /\ selected' = Len(ptrs) + 1 /\ Len(ptrs') = Len(ptrs) + 1
         /\ ptrs'[Len(ptrs) + 1] = p
  <1>1. /\ ptrs' \in Seq(Pointer) /\ Len(ptrs') = Len(ptrs) + 1
        /\ ptrs'[Len(ptrs) + 1] = p
        /\ \A s \in 1..Len(ptrs) : ptrs'[s] = ptrs[s]
        /\ Len(ptrs) \in Nat
    BY DEF R!Points, PointersOK
  <1>2. ASSUME NEW s \in 1..Len(ptrs') PROVE Points(s)'
    <2>1. CASE s \in 1..Len(ptrs)
      BY <1>1, <2>1 DEF PointersOK, Points, R!Target
    <2>2. CASE s = Len(ptrs) + 1
      BY <1>1, <2>2 DEF Points, R!Target, Pointer
    <2> QED
      BY <1>1, <2>1, <2>2
  <1> QED
    BY <1>1, <1>2 DEF ListShape, PointersOK, Carried, Opens, R!Points

LEMMA PointersKept ==
  ASSUME ListShape, PointersOK, UNCHANGED <<list, ptrs>>, view' \in R!Views
  PROVE  ListShape' /\ PointersOK' /\ Carried
  BY DEF ListShape, PointersOK, Points, R!Target, Carried, Opens

LEMMA PointersMoved ==
  ASSUME ListShape, PointersOK, NEW from \in Nat, R!Moved(from), UNCHANGED view,
         list' = [arr |-> list'.arr, n |-> list'.n],
         list'.n \in Nat, list'.n <= list.n, DOMAIN list'.arr = DOMAIN list.arr,
         \A i \in DOMAIN list.arr : list'.arr[i] \in Mail /\ (i < from => list'.arr[i] = list.arr[i])
  PROVE  ListShape' /\ PointersOK' /\ Carried
  <1>1. ListShape'
    BY DEF ListShape
  <1> DEFINE moved(p) == [p EXCEPT !.still = FALSE]
  <1>m. ASSUME NEW p \in Pointer
        PROVE  /\ moved(p) \in Pointer /\ ~moved(p).still /\ moved(p).slot = p.slot
               /\ moved(p).was = p.was /\ moved(p).opened = p.opened
    BY DEF Pointer
  <1>2. /\ Len(ptrs) \in Nat /\ DOMAIN ptrs = 1..Len(ptrs)
        /\ \A s \in 1..Len(ptrs) : ptrs[s] \in Pointer
    BY DEF PointersOK
  <1>4. ptrs' = [i \in 1..Len(ptrs) |-> IF ptrs[i].slot >= from THEN moved(ptrs[i]) ELSE ptrs[i]]
    BY <1>2 DEF R!Moved
  <1> HIDE DEF moved
  <1>5. /\ ptrs' \in Seq(Pointer) /\ Len(ptrs') = Len(ptrs)
        /\ \A s \in 1..Len(ptrs) : ptrs'[s] = IF ptrs[s].slot >= from THEN moved(ptrs[s]) ELSE ptrs[s]
    BY <1>2, <1>4, <1>m
  <1>3. ASSUME NEW s \in 1..Len(ptrs)
        PROVE  Points(s)' /\ ptrs'[s].was = ptrs[s].was /\ Opens(s) /\ (ptrs'[s].still => ptrs[s].still)
    <2>1. ptrs[s] \in Pointer /\ Points(s)
      BY <1>2 DEF PointersOK
    <2>2. CASE ptrs[s].slot >= from
      BY <1>5, <1>m, <2>1, <2>2 DEF Points, Opens
    <2>3. CASE ~(ptrs[s].slot >= from)
      <3>1. ptrs[s].slot \in Nat /\ ptrs[s].slot < from /\ ptrs'[s] = ptrs[s]
        BY <1>5, <2>1, <2>3 DEF Pointer
      <3> QED
        BY <2>1, <3>1 DEF Points, Opens, R!Target
    <2> QED
      BY <2>2, <2>3
  <1> QED
    BY <1>1, <1>2, <1>3, <1>5 DEF PointersOK, Carried

\* A pointer into a list that is replaced stays with the item it pointed to.
LEMMA PointersBehind ==
  ASSUME ListShape, PointersOK, NEW STATE s, R!Replaced(s), view' \in R!Views,
         Len(s) \in Nat, DOMAIN s = 1..Len(s), \A i \in DOMAIN s : s[i] \in Mail
  PROVE  ListShape' /\ PointersOK' /\ Carried
  <1>1. ListShape'
    BY DEF ListShape, R!Replaced
  <1>2. \A i \in 1..Len(ptrs) : ptrs[i] \in Pointer /\ Points(i)
    BY DEF PointersOK
  <1>6. ASSUME NEW i \in 1..Len(ptrs), ptrs[i].slot > 0
        PROVE  /\ list.arr[ptrs[i].slot] \in Mail /\ R!Place(list.arr[ptrs[i].slot]) \in Boxes
               /\ R!Target(i) = list.arr[ptrs[i].slot]
    BY <1>2, <1>6 DEF Points, ListShape, R!Place, Boxes, R!Target
  <1> DEFINE behind(p, m, b) == [p EXCEPT !.slot = 0, !.mail = m, !.box = b]
  <1>7. ASSUME NEW p \in Pointer, NEW m \in Mail, NEW b \in Boxes
        PROVE  /\ behind(p, m, b) \in Pointer
               /\ behind(p, m, b).slot = 0 /\ behind(p, m, b).mail = m
               /\ behind(p, m, b).was = p.was /\ behind(p, m, b).still = p.still
               /\ behind(p, m, b).opened = p.opened
    BY DEF Pointer
  <1>3. \A i \in 1..Len(ptrs) :
          /\ R!Behind(ptrs[i]) \in Pointer
          /\ R!Behind(ptrs[i]).slot = 0
          /\ R!Behind(ptrs[i]).mail = R!Target(i)
          /\ R!Behind(ptrs[i]).was = ptrs[i].was
          /\ R!Behind(ptrs[i]).still = ptrs[i].still
          /\ R!Behind(ptrs[i]).opened = ptrs[i].opened
    <2> SUFFICES ASSUME NEW i \in 1..Len(ptrs)
                 PROVE  /\ R!Behind(ptrs[i]) \in Pointer
                        /\ R!Behind(ptrs[i]).slot = 0
                        /\ R!Behind(ptrs[i]).mail = R!Target(i)
                        /\ R!Behind(ptrs[i]).was = ptrs[i].was
                        /\ R!Behind(ptrs[i]).still = ptrs[i].still
                        /\ R!Behind(ptrs[i]).opened = ptrs[i].opened
      OBVIOUS
    <2>1. CASE ptrs[i].slot > 0
      <3> DEFINE m == list.arr[ptrs[i].slot]
      <3>1. R!Behind(ptrs[i]) = behind(ptrs[i], m, R!Place(m))
        BY <2>1 DEF R!Behind
      <3>2. ptrs[i] \in Pointer /\ m \in Mail /\ R!Place(m) \in Boxes /\ R!Target(i) = m
        BY <1>2, <1>6, <2>1
      <3> HIDE DEF m, behind
      <3> QED
        BY <1>7, <3>1, <3>2
    <2>2. CASE ~(ptrs[i].slot > 0)
      BY <1>2, <2>2 DEF R!Behind, R!Target, Pointer
    <2> QED
      BY <2>1, <2>2
  <1>4. /\ ptrs' \in Seq(Pointer) /\ Len(ptrs') = Len(ptrs) /\ Len(ptrs) \in Nat
        /\ \A i \in 1..Len(ptrs) : ptrs'[i] = R!Behind(ptrs[i])
    BY <1>3 DEF R!Replaced, PointersOK
  <1>5. \A i \in 1..Len(ptrs) : Points(i)'
    BY <1>2, <1>3, <1>4 DEF Points, R!Target
  <1> QED
    BY <1>1, <1>3, <1>4, <1>5 DEF PointersOK, Carried, Opens

-----------------------------------------------------------------------------
\* What is known of fetches and of timers that were there before.
LEMMA FetchCarried ==
  ASSUME Carried, PointersOK, NEW f, FetchOK(f)
  PROVE  FetchOK(f)'
  BY DEF FetchOK, Carried, PointersOK

LEMMA MarkCarried ==
  ASSUME Carried, PointersOK, NEW k, MarkOK(k), k.sel \notin armed' \/ armed' \subseteq armed,
         loose \subseteq loose', UNCHANGED view \/ (k.at = "fired" => k.sel \in loose')
  PROVE  MarkOK(k)'
  BY DEF MarkOK, Carried, PointersOK

LEMMA ArmedCarried ==
  ASSUME Carried, PointersOK, NEW s, ArmedOK(s), loose \subseteq loose',
         \/ s \in loose'
         \/ /\ UNCHANGED <<view, timer>>
            /\ \A i \in Len(ptrs) + 1..Len(ptrs') : ~ptrs'[i].opened
  PROVE  ArmedOK(s)'
  <1>1. Len(ptrs) \in Nat /\ Len(ptrs') \in Nat /\ s \in 1..Len(ptrs')
    BY DEF ArmedOK, Carried, PointersOK
  <1>2. CASE s \in loose'
    BY <1>1, <1>2 DEF ArmedOK
  <1>3. CASE s \notin loose'
    <2>1. ASSUME NEW i \in s + 1..Len(ptrs') PROVE ~ptrs'[i].opened
      BY <1>1, <1>3 DEF ArmedOK, Carried, Opens
    <2> QED
      BY <1>1, <1>3, <2>1 DEF ArmedOK, Carried
  <1> QED
    BY <1>2, <1>3

-----------------------------------------------------------------------------
(* The actions.                                                              *)

LEMMA SelectKeeps ==
  ASSUME ReadingInv, NEW i \in 1..list.n, R!selectMessage(i)
  PROVE  ReadingInv'
  <1> DEFINE p == R!Into(i, TRUE)
             m == list.arr[i]
             new == Len(ptrs) + 1
  <1>0. i \in DOMAIN list.arr /\ m \in Mail /\ i \in Nat /\ i > 0
    BY DEF ReadingInv, ListShape
  <1>9. R!Points(p) /\ UNCHANGED <<list, view, marking, bodies>>
    BY DEF R!selectMessage
  <1>1. /\ i \in DOMAIN list.arr /\ m \in Mail /\ i \in Nat /\ i > 0
        /\ R!Points(p) /\ UNCHANGED <<list, view, marking, bodies>>
    BY <1>0, <1>9
  <1>2. p \in Pointer /\ p.slot = i /\ p.was = m
    BY <1>1 DEF R!Into, Pointer, Boxes
  <1> HIDE DEF p
  <1>3. /\ ListShape' /\ PointersOK' /\ Carried /\ selected' = new /\ Len(ptrs') = new
        /\ ptrs'[new] = p /\ Len(ptrs) \in Nat
    <2>1. view' \in R!Views
      BY <1>1 DEF ReadingInv, ListShape
    <2>2. /\ ListShape' /\ PointersOK' /\ Carried /\ selected' = new /\ Len(ptrs') = new
          /\ ptrs'[new] = p
      BY <1>1, <1>2, <2>1, PointerAdded DEF ReadingInv
    <2> QED
      BY <2>2 DEF ReadingInv, PointersOK
  <1>4. \A g \in fetches' : FetchOK(g)'
    <2>1. PICK f : /\ f = [sel |-> new, at |-> "start", box |-> R!Unified, got |-> NoMail]
                   /\ fetches' = fetches \cup {f}
      BY <1>3 DEF R!selectMessage, R!Fetching
    <2>2. FetchOK(f)'
      BY <1>3, <2>1 DEF FetchOK
    <2> QED
      BY <1>3, <2>1, <2>2, FetchCarried DEF ReadingInv
  <1>5. /\ armed' \subseteq (armed \ {timer}) \cup {new}
        /\ new \in armed' => timer' = new
        /\ loose \subseteq loose' /\ (R!InView(m, view) \/ new \in loose')
    BY <1>3 DEF R!selectMessage, R!cancelReadTimer, ReadingInv, ArmedOK
  <1>6. \A s \in armed' : ArmedOK(s)'
    <2>1. ASSUME NEW s \in armed, s # timer PROVE ArmedOK(s)'
      <3>1. s \in loose'
        BY <1>5, <2>1 DEF ReadingInv, ArmedOK
      <3> QED
        BY <1>3, <1>5, <3>1, ArmedCarried DEF ReadingInv
    <2>2. ASSUME NEW s, s = new, s \in armed' PROVE ArmedOK(s)'
      BY <1>1, <1>2, <1>3, <1>5, <2>2 DEF ArmedOK
    <2> QED
      BY <1>5, <2>1, <2>2
  <1>7. \A k \in marking' : MarkOK(k)'
    <2>1. ASSUME NEW k \in marking PROVE k.sel \notin armed'
      BY <1>3, <1>5 DEF ReadingInv, MarkOK
    <2> QED
      BY <1>1, <1>3, <1>5, <2>1, MarkCarried DEF ReadingInv
  <1>8. ShownOK' /\ BodiesOK'
    BY <1>1, <1>3 DEF ReadingInv, ShownOK, BodiesOK, R!selectMessage, R!Notice, R!Shows
  <1> QED
    BY <1>3, <1>4, <1>6, <1>7, <1>8 DEF ReadingInv

LEMMA SelectMoreKeeps ==
  ASSUME ReadingInv, NEW i \in 1..list.n, R!selectMessageMultiple(i)
  PROVE  ReadingInv'
  <1> DEFINE p == R!Into(i, FALSE)
             new == Len(ptrs) + 1
  <1>0. i \in DOMAIN list.arr /\ list.arr[i] \in Mail /\ i \in Nat /\ i > 0
    BY DEF ReadingInv, ListShape
  <1>9. /\ R!Points(p)
        /\ UNCHANGED <<list, view, viewer, fetches, timer, armed, marking, bodies, loose>>
    BY DEF R!selectMessageMultiple, R!timerVars
  <1>1. /\ i \in DOMAIN list.arr /\ list.arr[i] \in Mail /\ i \in Nat /\ i > 0
        /\ R!Points(p)
        /\ UNCHANGED <<list, view, viewer, fetches, timer, armed, marking, bodies, loose>>
    BY <1>0, <1>9
  <1>2. p \in Pointer /\ p.slot = i /\ p.was = list.arr[i] /\ ~p.opened
    BY <1>1 DEF R!Into, Pointer, Boxes
  <1> HIDE DEF p
  <1>3. /\ ListShape' /\ PointersOK' /\ Carried /\ selected' = new /\ Len(ptrs') = new
        /\ ptrs'[new] = p /\ Len(ptrs) \in Nat
    <2>1. view' \in R!Views
      BY <1>1 DEF ReadingInv, ListShape
    <2>2. /\ ListShape' /\ PointersOK' /\ Carried /\ selected' = new /\ Len(ptrs') = new
          /\ ptrs'[new] = p
      BY <1>1, <1>2, <2>1, PointerAdded DEF ReadingInv
    <2> QED
      BY <2>2 DEF ReadingInv, PointersOK
  <1>4. /\ \A f \in fetches' : FetchOK(f)'
        /\ \A k \in marking' : MarkOK(k)'
    BY <1>1, <1>3, FetchCarried, MarkCarried DEF ReadingInv
  <1>5. \A s \in armed' : ArmedOK(s)'
    <2>1. \A j \in Len(ptrs) + 1..Len(ptrs') : ~ptrs'[j].opened
      BY <1>2, <1>3
    <2> QED
      BY <1>1, <1>3, <2>1, ArmedCarried DEF ReadingInv
  <1>6. ShownOK' /\ BodiesOK'
    BY <1>1, <1>2, <1>3 DEF ReadingInv, ShownOK, BodiesOK
  <1> QED
    BY <1>3, <1>4, <1>5, <1>6 DEF ReadingInv

LEMMA SearchKeeps ==
  ASSUME ReadingInv, NEW m \in Mail, R!openFromSearch(m)
  PROVE  ReadingInv'
  <1> DEFINE p == [slot |-> 0, mail |-> m, box |-> [account |-> m.account, folder |-> view.folder],
                   was |-> m, opened |-> TRUE, still |-> TRUE]
             new == Len(ptrs) + 1
  <1>1. /\ R!Points(p) /\ UNCHANGED <<list, view, timer, armed, marking, bodies>>
        /\ loose' = loose \cup armed /\ view # R!Unified
    BY DEF R!openFromSearch
  <1>2. p \in Pointer /\ p.slot = 0 /\ p.mail = p.was
    <2>1. [account |-> m.account, folder |-> view.folder] \in Boxes
      <3>1. PICK n \in Mail : view = R!Place(n)
        BY <1>1 DEF ReadingInv, ListShape, R!Views
      <3>2. view.folder = n.folder
        BY <3>1 DEF R!Place
      <3> QED
        <4>1. [account |-> m.account, folder |-> n.folder] \in Boxes
          BY DEF Boxes
        <4> QED
          BY <3>2, <4>1
    <2> QED
      BY <2>1 DEF Pointer
  <1> HIDE DEF p
  <1>3. /\ ListShape' /\ PointersOK' /\ Carried /\ selected' = new /\ Len(ptrs') = new
        /\ Len(ptrs) \in Nat
    <2>1. view' \in R!Views
      BY <1>1 DEF ReadingInv, ListShape
    <2>2. ListShape' /\ PointersOK' /\ Carried /\ selected' = new /\ Len(ptrs') = new
      BY <1>1, <1>2, <2>1, PointerAdded DEF ReadingInv
    <2> QED
      BY <2>2 DEF ReadingInv, PointersOK
  <1>4. \A g \in fetches' : FetchOK(g)'
    <2>1. PICK f : /\ f = [sel |-> new, at |-> "start", box |-> R!Unified, got |-> NoMail]
                   /\ fetches' = fetches \cup {f}
      BY <1>3 DEF R!openFromSearch, R!Fetching
    <2>2. FetchOK(f)'
      BY <1>3, <2>1 DEF FetchOK
    <2> QED
      BY <1>3, <2>1, <2>2, FetchCarried DEF ReadingInv
  <1>5. /\ \A s \in armed' : ArmedOK(s)'
        /\ \A k \in marking' : MarkOK(k)'
    BY <1>1, <1>3, ArmedCarried, MarkCarried DEF ReadingInv
  <1>6. ShownOK' /\ BodiesOK'
    BY <1>1, <1>3 DEF ReadingInv, ShownOK, BodiesOK, R!openFromSearch, R!Notice, R!Shows
  <1> QED
    BY <1>3, <1>4, <1>5, <1>6 DEF ReadingInv

\* What changes in the list and in the view, with the selection kept or gone.
LEMMA ListKeeps ==
  ASSUME ReadingInv, ListShape', PointersOK', Carried,
         UNCHANGED <<fetches, marking>>, Len(ptrs') = Len(ptrs),
         selected' = 0 \/ UNCHANGED <<selected, viewer>>, UNCHANGED bodies \/ bodies' = {},
         loose \subseteq loose', armed' \subseteq armed,
         \/ UNCHANGED <<view, timer>>
         \/ /\ armed' = armed \ {timer}
            /\ \A k \in marking : k.at = "fired" => k.sel \in loose'
  PROVE  ReadingInv'
  <1>1. \A f \in fetches' : FetchOK(f)'
    BY FetchCarried DEF ReadingInv
  <1>2. \A k \in marking' : MarkOK(k)'
    BY MarkCarried DEF ReadingInv
  <1>3. ASSUME NEW s \in armed' PROVE ArmedOK(s)'
    <2>1. CASE UNCHANGED <<view, timer>>
      <3>1. \A i \in Len(ptrs) + 1..Len(ptrs') : ~ptrs'[i].opened
        BY DEF ReadingInv, PointersOK
      <3> QED
        BY <2>1, <3>1, ArmedCarried DEF ReadingInv
    <2>2. CASE armed' = armed \ {timer}
      <3>1. s \in loose'
        BY <2>2 DEF ReadingInv, ArmedOK
      <3> QED
        BY <3>1, ArmedCarried DEF ReadingInv
    <2> QED
      BY <2>1, <2>2
  <1>4. ShownOK'
    BY DEF ReadingInv, ShownOK, Carried, Opens, PointersOK
  <1>5. BodiesOK'
    BY DEF ReadingInv, BodiesOK
  <1> QED
    BY <1>1, <1>2, <1>3, <1>4, <1>5 DEF ReadingInv

LEMMA ViewKeeps ==
  ASSUME ReadingInv, NEW v \in R!Views, R!changeView(v)
  PROVE  ReadingInv'
  <1>1. /\ UNCHANGED <<fetches, marking>> /\ view' = v
        /\ armed' = armed \ {timer}
        /\ loose' = loose \cup {k.sel : k \in {j \in marking : j.at = "fired"}}
    BY DEF R!changeView, R!viewChanges, R!cancelReadTimer
  <1>2. \/ UNCHANGED <<list, ptrs, selected, viewer, bodies>>
        \/ selected' = 0 /\ UNCHANGED <<list, ptrs, bodies>>
        \/ selected' = 0 /\ R!Replaced(<< >>)
    BY DEF R!changeView, R!viewChanges
  <1>3. CASE UNCHANGED <<list, ptrs>>
    <2>1. ListShape' /\ PointersOK' /\ Carried
      BY <1>1, <1>3, PointersKept DEF ReadingInv
    <2>2. UNCHANGED bodies \/ bodies' = {}
      BY <1>2 DEF R!Replaced
    <2> QED
      BY <1>1, <1>2, <1>3, <2>1, <2>2, ListKeeps
  <1>4. CASE selected' = 0 /\ R!Replaced(<< >>)
    <2>1. ListShape' /\ PointersOK' /\ Carried
      BY <1>1, <1>4, PointersBehind DEF ReadingInv
    <2>2. Len(ptrs') = Len(ptrs) /\ bodies' = {}
      BY <1>4 DEF R!Replaced, ReadingInv, PointersOK
    <2> QED
      BY <1>1, <1>4, <2>1, <2>2, ListKeeps
  <1> QED
    BY <1>2, <1>3, <1>4

LEMMA ReplaceKeeps ==
  ASSUME ReadingInv, NEW v \in R!Views, R!clearMessageSelection(v)
  PROVE  ReadingInv'
  <1>1. PICK s \in R!Listings(v) : R!Replaced(s)
    BY DEF R!clearMessageSelection
  <1>2. /\ selected' = 0
        /\ UNCHANGED <<view, fetches, timer, armed, marking, loose>>
    BY DEF R!clearMessageSelection, R!timerVars
  <1>3. ListShape' /\ PointersOK' /\ Carried
    <2>1. view' \in R!Views
      BY <1>2 DEF ReadingInv, ListShape
    <2> QED
      BY <1>1, <2>1, ListingShape, PointersBehind DEF ReadingInv
  <1>4. Len(ptrs') = Len(ptrs) /\ bodies' = {}
    BY <1>1 DEF R!Replaced, ReadingInv, PointersOK
  <1> QED
    BY <1>2, <1>3, <1>4, ListKeeps

LEMMA SortKeeps ==
  ASSUME ReadingInv, NEW clears \in BOOLEAN, R!SortMessages(clears)
  PROVE  ReadingInv'
  <1>1. /\ R!Moved(1)
        /\ selected' = 0 \/ UNCHANGED <<selected, viewer>>
        /\ UNCHANGED <<view, viewer, fetches, timer, armed, marking, loose, bodies>>
    BY DEF R!SortMessages, R!timerVars
  <1> DEFINE D == DOMAIN list.arr
  <1>2. PICK f \in [D -> D] : list' = [list EXCEPT !.arr = [i \in D |-> list.arr[f[i]]]]
    BY DEF R!SortMessages
  <1> DEFINE arr == [i \in D |-> list.arr[f[i]]]
  <1>6. list = [arr |-> list.arr, n |-> list.n] /\ list.n \in Nat
    BY DEF ReadingInv, ListShape
  <1>7. list' = [arr |-> arr, n |-> list.n]
    BY <1>2, <1>6
  <1>8. DOMAIN arr = D /\ \A i \in D : arr[i] \in Mail
    BY DEF ReadingInv, ListShape
  <1> HIDE DEF arr
  <1>3. /\ list' = [arr |-> list'.arr, n |-> list'.n]
        /\ list'.n \in Nat /\ list'.n <= list.n /\ DOMAIN list'.arr = D
        /\ \A i \in D : list'.arr[i] \in Mail
    BY <1>6, <1>7, <1>8
  <1>9. \A i \in D : list'.arr[i] \in Mail /\ (i < 1 => list'.arr[i] = list.arr[i])
    BY <1>3 DEF ReadingInv, ListShape
  <1>4. ListShape' /\ PointersOK' /\ Carried
    BY <1>1, <1>3, <1>9, PointersMoved DEF ReadingInv
  <1>5. Len(ptrs') = Len(ptrs)
    BY <1>1 DEF R!Moved, ReadingInv, PointersOK
  <1> QED
    BY <1>1, <1>4, <1>5, ListKeeps

LEMMA RemovedKeeps ==
  ASSUME ReadingInv, NEW i \in 1..list.n, R!removed(i)
  PROVE  ReadingInv'
  <1>1. /\ R!Moved(i) /\ selected' = 0
        /\ UNCHANGED <<view, fetches, timer, armed, marking, loose, bodies>>
    BY DEF R!removed, R!timerVars
  <1> DEFINE D == DOMAIN list.arr
  <1>2. list' = [arr |-> [j \in D |-> IF j \in i..(list.n - 1) THEN list.arr[j + 1] ELSE list.arr[j]],
                 n |-> list.n - 1]
    BY DEF R!removed
  <1>3. /\ list' = [arr |-> list'.arr, n |-> list'.n]
        /\ list'.n \in Nat /\ list'.n <= list.n /\ DOMAIN list'.arr = D /\ i \in Nat
    BY <1>2 DEF ReadingInv, ListShape
  <1>4. \A j \in D : list'.arr[j] \in Mail /\ (j < i => list'.arr[j] = list.arr[j])
    BY <1>2 DEF ReadingInv, ListShape
  <1>5. ListShape' /\ PointersOK' /\ Carried
    BY <1>1, <1>3, <1>4, PointersMoved DEF ReadingInv
  <1>6. Len(ptrs') = Len(ptrs)
    BY <1>1 DEF R!Moved, ReadingInv, PointersOK
  <1> QED
    BY <1>1, <1>5, <1>6, ListKeeps

\* A fetch goes on or ends.
LEMMA FetchGoesOn ==
  ASSUME ReadingInv, R!Reader, NEW f \in fetches,
         \A g \in fetches' : g \in fetches \/ FetchOK(g)',
         ShownOK', BodiesOK'
  PROVE  ReadingInv'
  <1>1. /\ UNCHANGED <<view, list, ptrs, timer, armed, marking, loose>>
    BY DEF R!Reader, R!timerVars
  <1>2. ListShape' /\ PointersOK' /\ Carried
    <2>1. view' \in R!Views
      BY <1>1 DEF ReadingInv, ListShape
    <2> QED
      BY <1>1, <2>1, PointersKept DEF ReadingInv
  <1>3. \A g \in fetches' : FetchOK(g)'
    BY <1>2, FetchCarried DEF ReadingInv
  <1>4. /\ \A s \in armed' : ArmedOK(s)'
        /\ \A k \in marking' : MarkOK(k)'
    BY <1>1 DEF ReadingInv, ArmedOK, MarkOK
  <1> QED
    BY <1>2, <1>3, <1>4 DEF ReadingInv

LEMMA FetchKeeps ==
  ASSUME ReadingInv, NEW f \in fetches,
         R!FetchLoading(f) \/ R!FetchMessage(f) \/ R!displayMessage(f) \/ R!FetchFailed(f)
  PROVE  ReadingInv'
  <1>0. /\ FetchOK(f)
        /\ ptrs[f.sel].still => R!Target(f.sel) = ptrs[f.sel].was
    BY DEF ReadingInv, FetchOK, PointersOK, Points
  <1>r. R!Reader /\ UNCHANGED <<ptrs, selected>>
    BY DEF R!FetchLoading, R!FetchMessage, R!displayMessage, R!FetchFailed, R!Reader
  <1>1. ASSUME R!FetchLoading(f) PROVE ReadingInv'
    <2>1. ASSUME NEW g, g = [sel |-> f.sel, at |-> "loading", box |-> R!Box(f.sel), got |-> NoMail]
          PROVE  FetchOK(g)'
      BY <1>0, <1>r, <2>1 DEF FetchOK
    <2>2. ShownOK' /\ BodiesOK'
      BY <1>1, <1>r DEF R!FetchLoading, R!Notice, R!Shows, ReadingInv, ShownOK, BodiesOK
    <2>3. \A g \in fetches' : g \in fetches \/ FetchOK(g)'
      BY <1>1, <2>1 DEF R!FetchLoading, R!Becomes
    <2> QED
      BY <1>r, <2>2, <2>3, FetchGoesOn
  <1>2. ASSUME R!FetchMessage(f) PROVE ReadingInv'
    <2>1. ASSUME NEW m \in R!At(f.box, R!Target(f.sel).uid), NEW g,
                 g = [sel |-> f.sel, at |-> "fetched", box |-> f.box, got |-> m]
          PROVE  FetchOK(g)'
      <3>1. m.uid = R!Target(f.sel).uid
        BY DEF R!At
      <3> QED
        BY <1>0, <1>r, <2>1, <3>1 DEF FetchOK
    <2>2. ASSUME NEW g, g = [sel |-> f.sel, at |-> "failed", box |-> f.box, got |-> NoMail]
          PROVE  FetchOK(g)'
      BY <1>0, <1>r, <2>2 DEF FetchOK
    <2>3. ShownOK' /\ BodiesOK'
      BY <1>2, <1>r DEF R!FetchMessage, ReadingInv, ShownOK, BodiesOK
    <2>4. \A g \in fetches' : g \in fetches \/ FetchOK(g)'
      BY <1>2, <2>1, <2>2 DEF R!FetchMessage, R!Becomes
    <2> QED
      BY <1>r, <2>3, <2>4, FetchGoesOn
  <1>3. ASSUME R!displayMessage(f) PROVE ReadingInv'
    <2>1. ShownOK'
      <3>1. viewer' = viewer \/ (/\ selected # 0 /\ R!Target(selected).uid = f.got.uid
                                    /\ viewer'.mail = f.got)
        BY <1>3 DEF R!displayMessage, R!Shows
      <3>2. selected # 0 => Points(selected)
        BY DEF ReadingInv, ShownOK, PointersOK
      <3> QED
        BY <1>r, <3>1, <3>2 DEF ReadingInv, ShownOK, Points
    <2>2. BodiesOK'
      <3>1. ASSUME NEW b \in bodies', b.still PROVE b.of.uid = b.mail.uid
        <4>1. CASE b \in bodies
          BY <3>1, <4>1 DEF ReadingInv, BodiesOK
        <4>2. CASE b \notin bodies
          <5>1. PICK m \in R!Found(R!Target(f.sel).uid) :
                     b = [mail |-> m, of |-> f.got, still |-> ptrs[f.sel].still]
            BY <1>3, <4>2 DEF R!displayMessage
          <5>2. m.uid = R!Target(f.sel).uid
            BY DEF R!Found
          <5>3. f.at = "fetched"
            BY <1>3 DEF R!displayMessage
          <5> QED
            BY <1>0, <3>1, <5>1, <5>2, <5>3 DEF FetchOK
        <4> QED
          BY <4>1, <4>2
      <3> QED
        BY <3>1 DEF BodiesOK
    <2>3. fetches' \subseteq fetches
      BY <1>3 DEF R!displayMessage
    <2> QED
      BY <1>r, <2>1, <2>2, <2>3, FetchGoesOn
  <1>4. ASSUME R!FetchFailed(f) PROVE ReadingInv'
    <2>1. ShownOK' /\ BodiesOK' /\ fetches' \subseteq fetches
      BY <1>4, <1>r DEF R!FetchFailed, R!Notice, R!Shows, ReadingInv, ShownOK, BodiesOK
    <2> QED
      BY <1>r, <2>1, FetchGoesOn
  <1> QED
    BY <1>1, <1>2, <1>3, <1>4

\* A timer fires, goes on or ends.
LEMMA MarkGoesOn ==
  ASSUME ReadingInv, R!Marker, loose \subseteq loose', armed' \subseteq armed,
         \A k \in marking' : k \in marking \/ MarkOK(k)',
         UNCHANGED timer \/ loose' = loose \cup armed
  PROVE  ReadingInv'
  <1>1. UNCHANGED <<view, list, ptrs, selected, viewer, fetches, bodies>>
    BY DEF R!Marker
  <1>2. ListShape' /\ PointersOK' /\ Carried
    <2>1. view' \in R!Views
      BY <1>1 DEF ReadingInv, ListShape
    <2> QED
      BY <1>1, <2>1, PointersKept DEF ReadingInv
  <1>3. \A f \in fetches' : FetchOK(f)'
    BY <1>1, <1>2, FetchCarried DEF ReadingInv
  <1>4. \A k \in marking' : MarkOK(k)'
    BY <1>1, <1>2, MarkCarried DEF ReadingInv
  <1>5. ASSUME NEW s \in armed' PROVE ArmedOK(s)'
    BY <1>1 DEF ReadingInv, ArmedOK
  <1>6. ShownOK' /\ BodiesOK'
    BY <1>1 DEF ReadingInv, ShownOK, BodiesOK
  <1> QED
    BY <1>2, <1>3, <1>4, <1>5, <1>6 DEF ReadingInv

LEMMA FireKeeps ==
  ASSUME ReadingInv, NEW s \in armed, R!Fire(s)
  PROVE  ReadingInv'
  <1> DEFINE k == [sel |-> s, at |-> "fired", box |-> R!Unified]
  <1>1. /\ R!Marker /\ armed' = armed \ {s} /\ marking' = marking \cup {k}
        /\ UNCHANGED <<timer, loose>>
    BY DEF R!Fire
  <1>2. MarkOK(k)'
    BY <1>1 DEF ReadingInv, ArmedOK, MarkOK, R!Marker
  <1> HIDE DEF k
  <1> QED
    BY <1>1, <1>2, MarkGoesOn

LEMMA MarkKeeps ==
  ASSUME ReadingInv, NEW k \in marking,
         R!markMessageAsRead(k) \/ R!MarkFailed(k) \/ R!MarkAsRead(k) \/ R!ShowRead(k)
  PROVE  ReadingInv'
  <1>0. /\ MarkOK(k) /\ k.sel \in 1..Len(ptrs) /\ R!Marker
        /\ UNCHANGED <<view, ptrs, armed>>
    BY DEF ReadingInv, MarkOK, R!markMessageAsRead, R!MarkFailed, R!MarkAsRead, R!ShowRead, R!Marker
  <1>1. ASSUME R!markMessageAsRead(k) PROVE ReadingInv'
    <2> DEFINE where == IF view = R!Unified
                        THEN [account |-> R!Target(k.sel).account, folder |-> "INBOX"] ELSE view
               n == [sel |-> k.sel, at |-> "store", box |-> where]
    <2>1. marking' = (marking \ {k}) \cup {n} /\ UNCHANGED <<timer, loose>> /\ k.at = "fired"
      BY <1>1 DEF R!markMessageAsRead, R!Goes
    <2>2. ASSUME ptrs[k.sel].still, k.sel \notin loose PROVE where = R!Place(ptrs[k.sel].was)
      <3>1. R!Target(k.sel) = ptrs[k.sel].was /\ R!InView(ptrs[k.sel].was, view)
        BY <1>0, <2>1, <2>2 DEF ReadingInv, PointersOK, Points, MarkOK
      <3> QED
        BY <3>1 DEF R!InView, R!Place
    <2> HIDE DEF where
    <2>3. ASSUME NEW j, j = n PROVE MarkOK(j)'
      BY <1>0, <2>1, <2>2, <2>3 DEF MarkOK
    <2> HIDE DEF n
    <2> QED
      BY <1>0, <2>1, <2>3, MarkGoesOn
  <1>2. ASSUME R!MarkAsRead(k) PROVE ReadingInv'
    <2> DEFINE n == [sel |-> k.sel, at |-> "show", box |-> k.box]
    <2>1. /\ marking' \subseteq marking \cup {n} /\ loose \subseteq loose'
          /\ UNCHANGED timer \/ loose' = loose \cup armed
      BY <1>2 DEF R!MarkAsRead, R!Goes, R!ClearTimer
    <2>2. MarkOK(n)'
      BY <1>0 DEF MarkOK
    <2> HIDE DEF n
    <2> QED
      BY <1>0, <2>1, <2>2, MarkGoesOn
  <1>3. ASSUME R!MarkFailed(k) \/ R!ShowRead(k) PROVE ReadingInv'
    <2>1. /\ marking' \subseteq marking /\ loose \subseteq loose'
          /\ UNCHANGED timer \/ loose' = loose \cup armed
      BY <1>3 DEF R!MarkFailed, R!ShowRead, R!ClearTimer
    <2> QED
      BY <1>0, <2>1, MarkGoesOn
  <1> QED
    BY <1>1, <1>2, <1>3

LEMMA ReadingStill == ReadingInv /\ UNCHANGED R!readingVars => ReadingInv'
  BY DEF ReadingInv, ListShape, PointersOK, Points, FetchOK, ArmedOK, MarkOK, ShownOK, BodiesOK,
     R!readingVars, R!Target

LEMMA ReadingKept == ReadingInv /\ [R!ReadingNext]_R!readingVars => ReadingInv'
  BY SelectKeeps, SelectMoreKeeps, SearchKeeps, ViewKeeps, ReplaceKeeps, SortKeeps, RemovedKeeps,
     FetchKeeps, FireKeeps, MarkKeeps, ReadingStill
  DEF R!ReadingNext

-----------------------------------------------------------------------------
(* What follows.                                                             *)

LEMMA ReadingSound == ReadingInv => BodyIsOfSelected
  <1> SUFFICES ASSUME ReadingInv PROVE BodyIsOfSelected
    OBVIOUS
  <1>1. selected # 0 => Points(selected)
    BY DEF ReadingInv, ShownOK, PointersOK
  <1> QED
    BY <1>1 DEF ReadingInv, ShownOK, BodiesOK, Points, BodyIsOfSelected, R!BodyIsOfSelected

\* The message that the server is told about is that of the timer.
LEMMA MarksTimed ==
  ASSUME ReadingInv, R!ReadingNext, NEW m \in seen' \ seen
  PROVE  \E k \in marking : /\ k.at = "store" /\ k.box = R!Place(m)
                            /\ ptrs[k.sel].was = m \/ ~ptrs[k.sel].still \/ k.sel \in loose
  <1>1. ASSUME NEW k \in marking, R!MarkAsRead(k)
        PROVE  /\ k.at = "store" /\ k.box = R!Place(m)
               /\ ptrs[k.sel].was = m \/ ~ptrs[k.sel].still \/ k.sel \in loose
    <2>1. k.at = "store" /\ m \in R!At(k.box, R!Target(k.sel).uid)
      BY <1>1 DEF R!MarkAsRead
    <2>2. m \in Mail /\ R!Place(m) = k.box /\ m.uid = R!Target(k.sel).uid
      BY <2>1 DEF R!At
    <2>3. ASSUME ptrs[k.sel].still, k.sel \notin loose PROVE ptrs[k.sel].was = m
      <3> DEFINE w == ptrs[k.sel].was
      <3>1. k.sel \in 1..Len(ptrs) /\ R!Target(k.sel) = w /\ k.box = R!Place(w)
        BY <2>1, <2>3 DEF ReadingInv, MarkOK, PointersOK, Points
      <3>2. w \in Mail
        <4>1. ptrs[k.sel] \in Pointer
          BY <3>1 DEF ReadingInv, PointersOK
        <4> QED
          BY <4>1 DEF Pointer
      <3>3. m.uid = w.uid /\ R!Place(m) = R!Place(w)
        BY <2>2, <3>1
      <3> HIDE DEF w
      <3>4. m.account = w.account /\ m.folder = w.folder
        BY <3>3 DEF R!Place
      <3>5. m = w
        BY <2>2, <3>2, <3>3, <3>4, MailAssumption
      <3> QED
        BY <3>5 DEF w
    <2> QED
      BY <2>1, <2>2, <2>3
  <1>2. CASE UNCHANGED seen
    BY <1>2
  <1> QED
    BY <1>1, <1>2
    DEF R!ReadingNext, R!Reader, R!timerVars, R!FetchLoading, R!FetchMessage, R!displayMessage,
        R!FetchFailed, R!clearMessageSelection, R!selectMessage, R!selectMessageMultiple,
        R!openFromSearch, R!changeView, R!SortMessages, R!removed, R!Fire, R!markMessageAsRead,
        R!MarkFailed, R!ShowRead

\* Of the timers only one that fires becomes a mark, and it is for the message
\* that was opened last.
LEMMA FiresForLast ==
  ASSUME ReadingInv, R!ReadingNext, NEW s \in armed \ (armed' \cup loose),
         [sel |-> s, at |-> "fired", box |-> R!Unified] \in marking',
         NEW i \in s + 1..Len(ptrs)
  PROVE  ~ptrs[i].opened
  BY DEF ReadingInv, ArmedOK

(***************************************************************************)
(* The account sessions.  A worker that runs is managed, about to be       *)
(* stored, or one that a loader created while selectAccount was between    *)
(* its lookup and its store; and a client that is marked connected runs,   *)
(* or another than selectAccount has stopped it.                           *)
(***************************************************************************)
Created == 1..Len(clients)
UIStates == {"idle", "lookup", "close", "create", "store", "use", "connect"}

Clients == [account : Account, running : BOOLEAN, connected : BOOLEAN, monitoring : BOOLEAN]

ClientsShape ==
  /\ clients \in Seq(Clients)
  /\ managed \in [Account -> {0} \cup Created]
  /\ \A a \in Account : managed[a] # 0 => clients[managed[a]].account = a
UIShape ==
  /\ current \in Account \cup {NoAccount}
  /\ ui \in [at : UIStates, account : Account \cup {NoAccount}, new : {0} \cup Created]
  /\ IF ui.at = "idle" THEN ui = S!UIIdle ELSE ui.account \in Account /\ ui.account = current

\* Before its store selectAccount finds nothing managed but what a loader left.
Between == ui.at \in {"create", "store"} => managed[ui.account] \in {0} \cup overwritten
Reachable(c) == c \in S!Managed \/ c \in overwritten \/ (ui.at = "store" /\ c = ui.new)
RunningIsReachable == \A c \in Created : clients[c].running => Reachable(c)

Serves(c, a) == /\ c \in Created /\ clients[c].account = a
                /\ clients[c].running \/ c \in undercut
ConnectedRuns == \A c \in Created : clients[c].connected => clients[c].running \/ c \in undercut
NewServes == ui.at \in {"store", "connect", "use"} => Serves(ui.new, ui.account)
WindowServed == ui.at = "idle" /\ current # NoAccount => Serves(imapClient, current)

SessionsInv == /\ ClientsShape /\ UIShape /\ Between /\ RunningIsReachable
               /\ ConnectedRuns /\ NewServes /\ WindowServed

LEMMA SessionsInitially == S!SessionsInit => SessionsInv
  BY DEF S!SessionsInit, SessionsInv, ClientsShape, UIShape, Clients, Between, RunningIsReachable, ConnectedRuns, NewServes,
     WindowServed, Created, UIStates, S!UIIdle

LEMMA SessionsSound == SessionsInv => NoWorkerLeaked /\ SelectedClientLives
  BY DEF SessionsInv, ClientsShape, UIShape, RunningIsReachable, Reachable, WindowServed, Serves, Created, UIStates,
     NoWorkerLeaked, S!NoWorkerLeaked, SelectedClientLives, S!SelectedClientLives, S!Running, S!Created,
     S!UIIdle

LEMMA FunctionIsSeq ==
  ASSUME NEW T, NEW n \in Nat, NEW g \in [1..n -> T]
  PROVE  g \in Seq(T) /\ Len(g) = n /\ DOMAIN g = 1..n
  OBVIOUS

\* The clients that there were: some stopped, the others as they were.
Accounts(cs) == \A c \in Created : cs[c].account = clients[c].account
StoppedIn(cs, which, failing) ==
  \A c \in Created :
     /\ cs[c].running <=> clients[c].running /\ c \notin which
     /\ cs[c].connected <=> clients[c].connected /\ (c \notin which \/ c \in failing)
Remaining(cs, which, failing) ==
  cs \in Seq(Clients) /\ Len(cs) = Len(clients) /\ Accounts(cs) /\ StoppedIn(cs, which, failing)

LEMMA RemainingEach ==
  ASSUME clients \in Seq(Clients), NEW STATE which, NEW STATE failing,
         NEW STATE cs, cs = [c \in Created |-> cs[c]],
         \A c \in Created : cs[c] \in Clients, Accounts(cs), StoppedIn(cs, which, failing)
  PROVE  Remaining(cs, which, failing)
  <1>1. cs \in [1..Len(clients) -> Clients]
    BY DEF Created
  <1> QED
    BY <1>1, FunctionIsSeq DEF Remaining

LEMMA StoppedRemain ==
  ASSUME clients \in Seq(Clients), NEW STATE which, NEW STATE failing
  PROVE  Remaining(S!Stopped(which, failing), which, failing)
  <1> DEFINE cs == S!Stopped(which, failing)
  <1>1. cs = [c \in Created |-> cs[c]] /\ S!Created = Created
    BY DEF S!Stopped, S!Created, Created
  <1>2. ASSUME NEW c \in Created
        PROVE  /\ cs[c] \in Clients /\ cs[c].account = clients[c].account
               /\ cs[c].running <=> clients[c].running /\ c \notin which
               /\ cs[c].connected <=> clients[c].connected /\ (c \notin which \/ c \in failing)
    <2>1. c \in S!Created /\ clients[c] \in Clients
      BY <1>1 DEF Created
    <2> QED
      BY <2>1 DEF S!Stopped, Clients
  <1> HIDE DEF cs
  <1> QED
    BY <1>1, <1>2, RemainingEach DEF Accounts, StoppedIn, cs

LEMMA UnmonitoredRemain ==
  ASSUME clients \in Seq(Clients), NEW STATE which
  PROVE  Remaining(S!Unmonitored(which), {}, {})
  <1> DEFINE cs == S!Unmonitored(which)
  <1>1. cs = [c \in Created |-> cs[c]] /\ S!Created = Created
    BY DEF S!Unmonitored, S!Created, Created
  <1>2. ASSUME NEW c \in Created
        PROVE  /\ cs[c] \in Clients /\ cs[c].account = clients[c].account
               /\ cs[c].running <=> clients[c].running
               /\ cs[c].connected <=> clients[c].connected
    <2>1. c \in S!Created /\ clients[c] \in Clients
      BY <1>1 DEF Created
    <2> QED
      BY <2>1 DEF S!Unmonitored, Clients
  <1> HIDE DEF cs
  <1> QED
    BY <1>1, <1>2, RemainingEach DEF Accounts, StoppedIn, cs

LEMMA MonitoredRemain ==
  ASSUME clients \in Seq(Clients), S!StartMonitors \/ S!startFolderMonitoring
  PROVE  Remaining(clients', {}, {})
  <1>1. clients' = [c \in Created |-> clients'[c]]
    BY DEF S!StartMonitors, S!startFolderMonitoring, S!Created, Created
  <1>2. ASSUME NEW c \in Created
        PROVE  /\ clients'[c] \in Clients /\ clients'[c].account = clients[c].account
               /\ clients'[c].running <=> clients[c].running
               /\ clients'[c].connected <=> clients[c].connected
    <2>1. c \in S!Created /\ clients[c] \in Clients
      BY DEF S!Created, Created
    <2>2. clients'[c] \in {clients[c], [clients[c] EXCEPT !.monitoring = TRUE]}
      <3>1. CASE S!StartMonitors
        BY <2>1, <3>1 DEF S!StartMonitors
      <3>2. CASE S!startFolderMonitoring
        BY <1>1, <2>1, <3>2 DEF S!startFolderMonitoring
      <3> QED
        BY <3>1, <3>2
    <2> QED
      BY <2>1, <2>2 DEF Clients
  <1> QED
    BY <1>1, <1>2, RemainingEach DEF Accounts, StoppedIn

LEMMA Appended ==
  ASSUME clients \in Seq(Clients), NEW STATE which, NEW STATE failing,
         NEW STATE cs, Remaining(cs, which, failing), NEW a \in Account, NEW up \in BOOLEAN,
         clients' = Append(cs, S!Client(a, up))
  PROVE  /\ clients' \in Seq(Clients) /\ Len(clients') = Len(clients) + 1
         /\ Accounts(clients') /\ StoppedIn(clients', which, failing)
         /\ clients'[Len(clients) + 1] = S!Client(a, up)
  <1>1. S!Client(a, up) \in Clients
    BY DEF S!Client, Clients
  <1>2. cs \in Seq(Clients) /\ Len(cs) = Len(clients)
    BY DEF Remaining
  <1>3. /\ clients' \in Seq(Clients) /\ Len(clients') = Len(clients) + 1
        /\ \A c \in 1..Len(clients) : clients'[c] = cs[c]
        /\ clients'[Len(clients) + 1] = S!Client(a, up)
    BY <1>1, <1>2
  <1> QED
    BY <1>3 DEF Remaining, Accounts, StoppedIn, Created

\* What a step does to the clients that there were: those of which are stopped,
\* though those of failing stay marked connected; one more may have come.
Later(which, failing) ==
  /\ clients' \in Seq(Clients) /\ Len(clients') \in {Len(clients), Len(clients) + 1}
  /\ Accounts(clients') /\ StoppedIn(clients', which, failing)

LEMMA RemainingIsLater ==
  ASSUME NEW STATE which, NEW STATE failing, Remaining(clients', which, failing)
  PROVE  Later(which, failing) /\ Len(clients') = Len(clients)
  BY DEF Remaining, Later

LEMMA SameIsLater ==
  ASSUME clients \in Seq(Clients), UNCHANGED clients
  PROVE  Later({}, {}) /\ Len(clients') = Len(clients)
  BY DEF Later, Accounts, StoppedIn

LEMMA ConnectedLater ==
  ASSUME clients \in Seq(Clients), NEW c \in S!Created, S!ConnectDone(c)
  PROVE  /\ clients' \in Seq(Clients) /\ Len(clients') = Len(clients) /\ Accounts(clients')
         /\ \A d \in Created : /\ clients'[d].running <=> clients[d].running
                               /\ clients'[d].connected => clients[d].connected \/ clients[d].running
  <1>1. CASE UNCHANGED clients
    BY <1>1 DEF Accounts
  <1>2. CASE S!Running(c) /\ clients' = [clients EXCEPT ![c].connected = TRUE]
    <2>1. ASSUME NEW d \in Created
          PROVE  /\ clients'[d] \in Clients /\ clients'[d].account = clients[d].account
                 /\ clients'[d].running <=> clients[d].running
                 /\ clients'[d].connected => clients[d].connected \/ clients[d].running
      <3>1. d \in S!Created /\ clients[d] \in Clients
        BY DEF S!Created, Created
      <3>2. clients'[d] = IF d = c THEN [clients[d] EXCEPT !.connected = TRUE] ELSE clients[d]
        BY <1>2, <3>1 DEF S!Created
      <3>3. CASE d = c
        <4>1. clients'[d] = [clients[d] EXCEPT !.connected = TRUE] /\ clients[d].running
          BY <1>2, <3>2, <3>3 DEF S!Running
        <4> QED
          BY <3>1, <4>1 DEF Clients
      <3>4. CASE d # c
        BY <3>1, <3>2, <3>4
      <3> QED
        BY <3>3, <3>4
    <2>2. clients' \in [1..Len(clients) -> Clients]
      <3>1. clients' = [d \in Created |-> clients'[d]]
        <4>1. DOMAIN clients' = DOMAIN clients /\ DOMAIN clients = Created
          BY <1>2 DEF Created
        <4>2. clients' = [d \in DOMAIN clients' |-> clients'[d]]
          BY <1>2
        <4> QED
          BY <4>1, <4>2
      <3> QED
        BY <2>1, <3>1 DEF Created
    <2>3. clients' \in Seq(Clients) /\ Len(clients') = Len(clients)
      BY <2>2, FunctionIsSeq
    <2> QED
      BY <2>1, <2>3 DEF Accounts
  <1> QED
    BY <1>1, <1>2 DEF S!ConnectDone

\* A step that stops which, that only adds to the histories, and that creates
\* no client out of reach.
Step(which, failing) ==
  /\ Later(which, failing)
  /\ undercut \cup failing \subseteq undercut' /\ overwritten \subseteq overwritten'
  /\ \A c \in Created \ which : Reachable(c) => Reachable(c)'
  /\ \A c \in Created' : c = Len(clients) + 1 => clients'[c].running /\ Reachable(c)'

LEMMA CreatedGrows ==
  ASSUME clients \in Seq(Clients), NEW STATE which, NEW STATE failing, Later(which, failing)
  PROVE  /\ Created \subseteq Created' /\ Len(clients) \in Nat
         /\ \A c \in Created' : c \in Created \/ (c = Len(clients) + 1 /\ Len(clients') = Len(clients) + 1)
  <1>1. Len(clients) \in Nat /\ Len(clients') \in {Len(clients), Len(clients) + 1}
    BY DEF Later
  <1> QED
    BY <1>1 DEF Created

LEMMA StepReaches ==
  ASSUME SessionsInv, NEW STATE which, NEW STATE failing, Step(which, failing)
  PROVE  ConnectedRuns' /\ RunningIsReachable'
  <1>1. clients \in Seq(Clients) /\ Later(which, failing)
    BY DEF SessionsInv, ClientsShape, Step
  <1>2. ASSUME NEW c \in Created'
        PROVE  /\ clients'[c].connected => clients'[c].running \/ c \in undercut'
               /\ clients'[c].running => Reachable(c)'
    <2>1. CASE c \in Created
      BY <1>1, <2>1 DEF SessionsInv, ConnectedRuns, RunningIsReachable, Step, Later, StoppedIn
    <2>2. CASE c = Len(clients) + 1 /\ Len(clients') = Len(clients) + 1
      BY <2>2 DEF Step
    <2> QED
      BY <1>1, <2>1, <2>2, CreatedGrows
  <1> QED
    BY <1>2 DEF ConnectedRuns, RunningIsReachable

LEMMA StepServes ==
  ASSUME clients \in Seq(Clients), NEW STATE which, NEW STATE failing, Step(which, failing),
         NEW c, NEW a, Serves(c, a), c \notin which \/ c \in undercut'
  PROVE  Serves(c, a)'
  <1>1. Later(which, failing)
    BY DEF Step
  <1> QED
    BY <1>1, CreatedGrows DEF Step, Later, Serves, Accounts, StoppedIn

LEMMA StepManaged ==
  ASSUME ClientsShape, NEW STATE which, NEW STATE failing, Later(which, failing),
         DOMAIN managed' = Account, managed' = [a \in Account |-> managed'[a]],
         \A a \in Account : \/ managed'[a] \in {0, managed[a]}
                            \/ managed'[a] \in Created' /\ clients'[managed'[a]].account = a
  PROVE  ClientsShape'
  <1>1. Created \subseteq Created' /\ clients' \in Seq(Clients)
    BY CreatedGrows DEF ClientsShape, Later
  <1>2. ASSUME NEW a \in Account
        PROVE  /\ managed'[a] \in {0} \cup Created'
               /\ managed'[a] # 0 => clients'[managed'[a]].account = a
    BY <1>1 DEF ClientsShape, Later, Accounts
  <1>3. managed' \in [Account -> {0} \cup Created']
    BY <1>2
  <1> QED
    BY <1>1, <1>2, <1>3 DEF ClientsShape

\* Nothing is stopped, created or stored.
LEMMA Quiet ==
  ASSUME SessionsInv, Later({}, {}), Len(clients') = Len(clients),
         UNCHANGED <<managed, overwritten, undercut>>, ui.at = "store" => UNCHANGED ui
  PROVE  /\ ClientsShape' /\ ConnectedRuns' /\ RunningIsReachable'
         /\ \A c, a : Serves(c, a) => Serves(c, a)'
  <1>1. Step({}, {})
    BY DEF Step, Reachable, S!Managed, SessionsInv, ClientsShape, Created
  <1>2. ClientsShape'
    <2>1. Later({}, {}) /\ ClientsShape
      BY DEF SessionsInv
    <2>2. /\ DOMAIN managed' = Account /\ managed' = [a \in Account |-> managed'[a]]
          /\ \A a \in Account : managed'[a] = managed[a]
      BY DEF SessionsInv, ClientsShape
    <2> QED
      BY <2>1, <2>2, StepManaged
  <1>3. ASSUME NEW c, NEW a, Serves(c, a) PROVE Serves(c, a)'
    BY <1>1, <1>3, StepServes DEF SessionsInv, ClientsShape
  <1> QED
    BY <1>1, <1>2, <1>3, StepReaches

LEMMA ChoiceKeeps ==
  ASSUME SessionsInv,
         \/ \E a \in Account : S!selectAccount(a)
         \/ S!SelectAgain
         \/ \E force \in BOOLEAN : S!selectUnifiedInbox(force)
  PROVE  SessionsInv'
  <1>1. /\ clients' = S!Unmonitored(S!Managed \cup {imapClient})
        /\ UNCHANGED <<managed, imapClient, overwritten, undercut>> /\ ui = S!UIIdle
    BY DEF S!selectAccount, S!SelectAgain, S!selectUnifiedInbox, S!begun, S!Choose
  <1>2. Later({}, {}) /\ Len(clients') = Len(clients)
    <2>1. Remaining(S!Unmonitored(S!Managed \cup {imapClient}), {}, {})
      BY UnmonitoredRemain DEF SessionsInv, ClientsShape
    <2> QED
      BY <1>1, <2>1, RemainingIsLater DEF Remaining, Later
  <1>3. \/ /\ current' \in Account
           /\ ui' = [at |-> "lookup", account |-> current', new |-> 0]
        \/ current' = NoAccount /\ ui' = S!UIIdle
    BY DEF S!selectAccount, S!SelectAgain, S!selectUnifiedInbox, S!begun, S!Choose, SessionsInv, UIShape
  <1>4. UIShape' /\ Between' /\ NewServes' /\ WindowServed'
    BY <1>3 DEF UIShape, Between, NewServes, WindowServed, S!UIIdle, UIStates
  <1> QED
    BY <1>1, <1>2, <1>4, Quiet DEF SessionsInv, S!UIIdle

LEMMA LookupKeeps == ASSUME SessionsInv, S!Lookup PROVE SessionsInv'
  <1>1. Later({}, {}) /\ Len(clients') = Len(clients)
    BY SameIsLater DEF SessionsInv, ClientsShape, S!Lookup
  <1>2. /\ ui.at = "lookup" /\ UNCHANGED <<clients, managed, current, imapClient, overwritten, undercut>>
        /\ ui.account \in Account /\ managed[ui.account] \in {0} \cup Created
    BY DEF S!Lookup, S!windowVars, SessionsInv, UIShape, ClientsShape, S!UIIdle
  <1>3. UIShape' /\ Between' /\ NewServes' /\ WindowServed'
    <2>1. CASE managed[ui.account] = 0 /\ ui' = [ui EXCEPT !.at = "create"]
      BY <1>2, <2>1 DEF SessionsInv, UIShape, Between, NewServes, WindowServed, UIStates, Created
    <2>2. CASE /\ managed[ui.account] # 0 /\ clients[managed[ui.account]].connected
               /\ ui' = [ui EXCEPT !.at = "use", !.new = managed[ui.account]]
      BY <1>2, <2>2 DEF SessionsInv, ClientsShape, UIShape, Between, NewServes, WindowServed, UIStates,
                         ConnectedRuns, Serves, Created
    <2>3. CASE ui' = [ui EXCEPT !.at = "close"]
      BY <1>2, <2>3 DEF SessionsInv, UIShape, Between, NewServes, WindowServed, UIStates, Created
    <2> QED
      BY <2>1, <2>2, <2>3 DEF S!Lookup, S!IsConnected
  <1> QED
    BY <1>1, <1>2, <1>3, Quiet DEF SessionsInv

\* The steps that leave the window and the UI thread alone, and the monitors.
LEMMA AsideKeeps ==
  ASSUME SessionsInv,
         \/ UNCHANGED clients
         \/ S!StartMonitors
         \/ S!startFolderMonitoring,
         UNCHANGED <<managed, current, imapClient, ui, overwritten, undercut>>
  PROVE  SessionsInv'
  <1>1. Later({}, {}) /\ Len(clients') = Len(clients)
    BY SameIsLater, MonitoredRemain, RemainingIsLater DEF SessionsInv, ClientsShape
  <1>2. UIShape' /\ Between' /\ NewServes' /\ WindowServed'
    BY <1>1, Quiet DEF SessionsInv, UIShape, Between, NewServes, WindowServed, Created, S!UIIdle
  <1> QED
    BY <1>1, <1>2, Quiet DEF SessionsInv

LEMMA CloseKeeps == ASSUME SessionsInv, S!CloseClientForAccount PROVE SessionsInv'
  <1> DEFINE which == {managed[ui.account]}
  <1>1. /\ ui.at = "close" /\ ui.account \in Account /\ ui' = [ui EXCEPT !.at = "create"]
        /\ managed' = [managed EXCEPT ![ui.account] = 0]
        /\ UNCHANGED <<current, imapClient, overwritten, undercut>>
    BY DEF S!CloseClientForAccount, S!windowVars, SessionsInv, UIShape, S!UIIdle
  <1>2. Remaining(clients', which, {})
    BY StoppedRemain DEF S!CloseClientForAccount, SessionsInv, ClientsShape
  <1>3. Later(which, {}) /\ Len(clients') = Len(clients)
    BY <1>2, RemainingIsLater
  <1>4. Step(which, {})
    <2>1. ASSUME NEW c \in Created \ which, Reachable(c) PROVE Reachable(c)'
      BY <1>1, <2>1 DEF Reachable, S!Managed, SessionsInv, ClientsShape
    <2> QED
      BY <1>1, <1>3, <2>1 DEF Step, Created, SessionsInv, ClientsShape
  <1>5. ClientsShape'
    <2>1. /\ DOMAIN managed' = Account /\ managed' = [a \in Account |-> managed'[a]]
          /\ \A a \in Account : managed'[a] \in {0, managed[a]}
      BY <1>1 DEF SessionsInv, ClientsShape
    <2> QED
      BY <1>3, <2>1, StepManaged DEF SessionsInv
  <1>6. UIShape' /\ Between' /\ NewServes' /\ WindowServed'
    BY <1>1, <1>3 DEF SessionsInv, UIShape, Between, NewServes, WindowServed, UIStates, Created, ClientsShape
  <1> QED
    BY <1>4, <1>5, <1>6, StepReaches DEF SessionsInv

LEMMA CreateKeeps == ASSUME SessionsInv, S!CreateClient PROVE SessionsInv'
  <1>1. /\ ui.at = "create" /\ ui.account \in Account /\ ui.account = current
        /\ ui' = [ui EXCEPT !.at = "store", !.new = Len(clients) + 1]
        /\ clients' = Append(clients, S!Client(ui.account, FALSE))
        /\ UNCHANGED <<managed, current, imapClient, overwritten, undercut>>
    BY DEF S!CreateClient, S!windowVars, SessionsInv, UIShape, S!UIIdle
  <1>2. clients \in Seq(Clients) /\ ui \in [at : UIStates, account : Account \cup {NoAccount}, new : {0} \cup Created]
    BY DEF SessionsInv, ClientsShape, UIShape
  <1>3. Remaining(clients, {}, {})
    BY <1>2 DEF Remaining, Accounts, StoppedIn
  <1>4. /\ Later({}, {}) /\ Len(clients') = Len(clients) + 1
        /\ clients'[Len(clients) + 1] = S!Client(ui.account, FALSE)
    BY <1>1, <1>2, <1>3, Appended DEF Later
  <1>5. Len(clients) + 1 \in Created' /\ ui'.new = Len(clients) + 1 /\ ui'.at = "store" /\ ui'.account = ui.account
    BY <1>1, <1>2, <1>4, CreatedGrows DEF Created
  <1>6. Step({}, {})
    BY <1>1, <1>4, <1>5 DEF Step, Reachable, S!Managed, S!Client
  <1>7. ClientsShape'
    <2>1. /\ DOMAIN managed' = Account /\ managed' = [a \in Account |-> managed'[a]]
          /\ \A a \in Account : managed'[a] = managed[a]
      BY <1>1 DEF SessionsInv, ClientsShape
    <2> QED
      BY <1>4, <2>1, StepManaged DEF SessionsInv
  <1>8. UIShape'
    <2>1. Created \subseteq Created'
      BY <1>2, <1>4, CreatedGrows
    <2>2. ui' \in [at : UIStates, account : Account \cup {NoAccount}, new : {0} \cup Created']
      BY <1>1, <1>2, <1>5, <2>1 DEF UIStates
    <2> QED
      BY <1>1, <1>5, <2>2 DEF UIShape, SessionsInv
  <1>9. Between' /\ NewServes' /\ WindowServed'
    BY <1>1, <1>4, <1>5 DEF SessionsInv, Between, NewServes, WindowServed, Serves, S!Client
  <1> QED
    BY <1>6, <1>7, <1>8, <1>9, StepReaches DEF SessionsInv

LEMMA StoreKeeps == ASSUME SessionsInv, S!StoreIMAPClient PROVE SessionsInv'
  <1>1. /\ ui.at = "store" /\ ui.account \in Account /\ ui.account = current
        /\ ui' = [ui EXCEPT !.at = "connect"]
        /\ managed' = [managed EXCEPT ![ui.account] = ui.new]
        /\ UNCHANGED <<clients, current, imapClient, overwritten, undercut>>
    BY DEF S!StoreIMAPClient, S!windowVars, SessionsInv, UIShape, S!UIIdle
  <1>2. Later({}, {}) /\ Len(clients') = Len(clients)
    BY <1>1, SameIsLater DEF SessionsInv, ClientsShape
  <1>3. Serves(ui.new, ui.account)
    BY <1>1 DEF SessionsInv, NewServes
  <1>4. Step({}, {})
    <2>1. ASSUME NEW c \in Created, Reachable(c) PROVE Reachable(c)'
      BY <1>1, <2>1 DEF Reachable, S!Managed, SessionsInv, ClientsShape, Between, Created
    <2> QED
      BY <1>1, <1>2, <2>1 DEF Step, Created, SessionsInv, ClientsShape
  <1>5. ClientsShape'
    BY <1>1, <1>3 DEF SessionsInv, ClientsShape, Serves, Created
  <1>6. UIShape' /\ Between' /\ NewServes' /\ WindowServed'
    BY <1>1, <1>3 DEF SessionsInv, UIShape, Between, NewServes, WindowServed, UIStates, Created, Serves
  <1> QED
    BY <1>4, <1>5, <1>6, StepReaches DEF SessionsInv

LEMMA FinishKeeps == ASSUME SessionsInv, S!Finish PROVE SessionsInv'
  <1> DEFINE old == {imapClient} \ {0, ui.new}
  <1>1. /\ ui.at \in {"use", "connect"} /\ ui.account = current
        /\ ui' = S!UIIdle /\ imapClient' = ui.new
        /\ UNCHANGED <<managed, current, overwritten>>
    BY DEF S!Finish, SessionsInv, UIShape, S!UIIdle
  <1>2. PICK failing \in SUBSET old : clients' = S!Stopped(old, failing) /\ undercut' = undercut \cup failing
    BY DEF S!Finish
  <1>3. Remaining(clients', old, failing)
    BY <1>2, StoppedRemain DEF SessionsInv, ClientsShape
  <1>4. Later(old, failing) /\ Len(clients') = Len(clients)
    BY <1>3, RemainingIsLater
  <1>5. Step(old, failing)
    <2>1. ASSUME NEW c, Reachable(c) PROVE Reachable(c)'
      BY <1>1, <2>1 DEF Reachable, S!Managed
    <2>2. Len(clients) + 1 \notin Created'
      BY <1>4 DEF Created, SessionsInv, ClientsShape
    <2> QED
      BY <1>1, <1>2, <1>4, <2>1, <2>2 DEF Step
  <1>6. ClientsShape'
    <2>1. /\ DOMAIN managed' = Account /\ managed' = [a \in Account |-> managed'[a]]
          /\ \A a \in Account : managed'[a] = managed[a]
      BY <1>1 DEF SessionsInv, ClientsShape
    <2> QED
      BY <1>4, <2>1, StepManaged DEF SessionsInv
  <1>7. UIShape' /\ Between' /\ NewServes'
    BY <1>1, <1>4 DEF SessionsInv, UIShape, Between, NewServes, UIStates, Created, S!UIIdle
  <1>8. WindowServed'
    <2>1. Serves(ui.new, current)
      BY <1>1 DEF SessionsInv, NewServes
    <2>2. ASSUME NEW c, NEW a, c \notin old, Serves(c, a) PROVE Serves(c, a)'
      BY <1>5, <2>2, StepServes DEF SessionsInv, ClientsShape
    <2>3. \A c, a : imapClient' = c /\ current' = a /\ Serves(c, a)' => WindowServed'
      BY DEF WindowServed, Serves
    <2> QED
      BY <1>1, <2>1, <2>2, <2>3
  <1> QED
    BY <1>5, <1>6, <1>7, <1>8, StepReaches DEF SessionsInv

LEMMA ConnectKeeps == ASSUME SessionsInv, NEW c \in S!Created, S!ConnectDone(c) PROVE SessionsInv'
  <1>1. UNCHANGED <<managed, current, imapClient, ui, overwritten, undercut>>
    BY DEF S!ConnectDone, S!windowVars
  <1>2. /\ clients' \in Seq(Clients) /\ Len(clients') = Len(clients) /\ Accounts(clients')
        /\ \A d \in Created : /\ clients'[d].running <=> clients[d].running
                              /\ clients'[d].connected => clients[d].connected \/ clients[d].running
    BY ConnectedLater DEF SessionsInv, ClientsShape
  <1>3. Created' = Created
    BY <1>2 DEF Created
  <1>4. ClientsShape' /\ UIShape'
    BY <1>1, <1>2, <1>3 DEF SessionsInv, ClientsShape, UIShape, Accounts, S!UIIdle
  <1>5. Between' /\ RunningIsReachable' /\ ConnectedRuns'
    BY <1>1, <1>2, <1>3 DEF SessionsInv, Between, RunningIsReachable, Reachable, S!Managed, ConnectedRuns
  <1>6. NewServes' /\ WindowServed'
    BY <1>1, <1>2, <1>3 DEF SessionsInv, NewServes, WindowServed, Serves, Accounts
  <1> QED
    BY <1>4, <1>5, <1>6 DEF SessionsInv

LEMMA CloseAllKeeps == ASSUME SessionsInv, S!CloseAllClients PROVE SessionsInv'
  <1>1. /\ managed' = [a \in Account |-> 0] /\ undercut' = undercut \cup S!Managed
        /\ UNCHANGED <<current, imapClient, ui, overwritten>>
    BY DEF S!CloseAllClients, S!windowVars
  <1>2. Remaining(clients', S!Managed, {})
    BY StoppedRemain DEF S!CloseAllClients, SessionsInv, ClientsShape
  <1>3. Later(S!Managed, {}) /\ Len(clients') = Len(clients)
    BY <1>2, RemainingIsLater
  <1>4. Step(S!Managed, {})
    <2>1. ASSUME NEW c \in Created \ S!Managed, Reachable(c) PROVE Reachable(c)'
      BY <1>1, <2>1 DEF Reachable
    <2>2. Len(clients) + 1 \notin Created'
      BY <1>3 DEF Created, SessionsInv, ClientsShape
    <2> QED
      BY <1>1, <1>3, <2>1, <2>2 DEF Step
  <1>5. ClientsShape'
    BY <1>1, <1>3 DEF ClientsShape, Later
  <1>6. UIShape' /\ Between'
    BY <1>1, <1>3 DEF SessionsInv, UIShape, Between, Created, S!UIIdle
  <1>7. ASSUME NEW c, NEW a, Serves(c, a) PROVE Serves(c, a)'
    BY <1>1, <1>4, <1>7, StepServes DEF SessionsInv, ClientsShape
  <1>8. NewServes' /\ WindowServed'
    BY <1>1, <1>7 DEF SessionsInv, NewServes, WindowServed, Serves
  <1> QED
    BY <1>4, <1>5, <1>6, <1>8, StepReaches DEF SessionsInv

\* A loader finds the client disconnected, or none.
LEMMA LoaderKeeps ==
  ASSUME SessionsInv, NEW a \in Account,
         UNCHANGED <<current, imapClient, ui>>, undercut' = undercut \cup S!stale(a),
         \/ /\ Len(clients) < MaxClients
            /\ clients' = Append(S!Stopped(S!stale(a), {}), S!Client(a, TRUE))
            /\ managed' = [managed EXCEPT ![a] = Len(clients) + 1]
            /\ overwritten' = IF ui.account = a /\ ui.at \in {"close", "create", "store"}
                              THEN overwritten \cup {Len(clients) + 1} ELSE overwritten
         \/ /\ clients' = S!Stopped(S!stale(a), {})
            /\ managed' = [managed EXCEPT ![a] = 0]
            /\ UNCHANGED overwritten
  PROVE  SessionsInv'
  <1> DEFINE which == S!stale(a)
             came == Len(clients') = Len(clients) + 1
  <1>1. /\ clients \in Seq(Clients) /\ managed \in [Account -> {0} \cup Created]
        /\ which = {managed[a]} \ {0} /\ Len(clients) \in Nat
    BY DEF SessionsInv, ClientsShape, S!stale
  <1>2. Remaining(S!Stopped(which, {}), which, {})
    BY <1>1, StoppedRemain
  <1>3. /\ Later(which, {}) /\ overwritten \subseteq overwritten'
        /\ \/ /\ came /\ clients'[Len(clients) + 1] = S!Client(a, TRUE)
              /\ managed' = [managed EXCEPT ![a] = Len(clients) + 1]
              /\ ui.account = a /\ ui.at \in {"create", "store"} => Len(clients) + 1 \in overwritten'
           \/ Len(clients') = Len(clients) /\ managed' = [managed EXCEPT ![a] = 0]
    <2>1. CASE clients' = S!Stopped(which, {}) /\ managed' = [managed EXCEPT ![a] = 0] /\ UNCHANGED overwritten
      BY <1>2, <2>1, RemainingIsLater
    <2>2. CASE /\ clients' = Append(S!Stopped(which, {}), S!Client(a, TRUE))
               /\ managed' = [managed EXCEPT ![a] = Len(clients) + 1]
               /\ overwritten' = IF ui.account = a /\ ui.at \in {"close", "create", "store"}
                                 THEN overwritten \cup {Len(clients) + 1} ELSE overwritten
      <3> DEFINE cs == S!Stopped(which, {})
      <3>1. Remaining(cs, which, {}) /\ clients' = Append(cs, S!Client(a, TRUE)) /\ TRUE \in BOOLEAN
        BY <1>2, <2>2
      <3> HIDE DEF cs, which
      <3>2. /\ clients' \in Seq(Clients) /\ Len(clients') = Len(clients) + 1
            /\ Accounts(clients') /\ StoppedIn(clients', which, {})
            /\ clients'[Len(clients) + 1] = S!Client(a, TRUE)
        BY <1>1, <3>1, Appended
      <3> QED
        BY <2>2, <3>2 DEF Later
    <2> QED
      BY <2>1, <2>2
  <1> HIDE DEF which
  <1>4. /\ Created \subseteq Created' /\ (came => Len(clients) + 1 \in Created')
        /\ (Len(clients) + 1 \in Created' => came)
    BY <1>1, <1>3, CreatedGrows DEF Created, Later
  <1>5. Step(which, {})
    <2>1. ASSUME NEW c \in Created \ which, Reachable(c) PROVE Reachable(c)'
      BY <1>1, <1>3, <2>1 DEF Reachable, S!Managed
    <2>2. ASSUME NEW c \in Created', c = Len(clients) + 1 PROVE clients'[c].running /\ Reachable(c)'
      BY <1>1, <1>3, <1>4, <2>2 DEF Reachable, S!Managed, S!Client
    <2> QED
      BY <1>3, <2>1, <2>2 DEF Step, which
  <1>6. ClientsShape'
    <2>1. DOMAIN managed' = Account /\ managed' = [b \in Account |-> managed'[b]]
      BY <1>1, <1>3
    <2>2. ASSUME NEW b \in Account
          PROVE  \/ managed'[b] \in {0, managed[b]}
                 \/ managed'[b] \in Created' /\ clients'[managed'[b]].account = b
      BY <1>1, <1>3, <1>4 DEF S!Client
    <2> QED
      BY <1>3, <2>1, <2>2, StepManaged DEF SessionsInv
  <1>7. UIShape' /\ Between'
    BY <1>1, <1>3, <1>4 DEF SessionsInv, UIShape, Between, S!UIIdle
  <1>8. ASSUME NEW c, NEW b, Serves(c, b) PROVE Serves(c, b)'
    BY <1>1, <1>5, <1>8, StepServes DEF which
  <1>9. NewServes' /\ WindowServed'
    BY <1>8 DEF SessionsInv, NewServes, WindowServed, Serves
  <1> QED
    BY <1>5, <1>6, <1>7, <1>9, StepReaches DEF SessionsInv

LEMMA SessionsKept == SessionsInv /\ [S!SessionsNext]_S!sessionsVars => SessionsInv'
  <1> SUFFICES ASSUME SessionsInv, [S!SessionsNext]_S!sessionsVars PROVE SessionsInv'
    OBVIOUS
  <1>1. ASSUME NEW a \in Account, S!GetOrCreate(a) PROVE SessionsInv'
    BY <1>1, LoaderKeeps, AsideKeeps DEF S!GetOrCreate, S!windowVars
  <1>2. ASSUME NEW a \in Account, S!JobCheck(a) PROVE SessionsInv'
    BY <1>2, AsideKeeps DEF S!JobCheck, S!windowVars
  <1>3. ASSUME S!StarterCheck \/ S!StartMonitors \/ S!startFolderMonitoring \/ S!performCacheClear
        PROVE  SessionsInv'
    BY <1>3, AsideKeeps
    DEF S!StarterCheck, S!StartMonitors, S!startFolderMonitoring, S!performCacheClear, S!windowVars
  <1>4. ASSUME UNCHANGED S!sessionsVars PROVE SessionsInv'
    BY <1>4, AsideKeeps DEF S!sessionsVars
  <1> QED
    BY <1>1, <1>2, <1>3, <1>4, ChoiceKeeps, LookupKeeps, CloseKeeps, CreateKeeps, StoreKeeps,
       FinishKeeps, ConnectKeeps, CloseAllKeeps
    DEF S!SessionsNext

(***************************************************************************)
(* Composing and sending.  A goroutine knows its message by the press of   *)
(* Send that began it; it reaches DATA with every recipient accepted, and  *)
(* beyond it with the message delivered.                                   *)
(***************************************************************************)
SendShape(s) == s = [id |-> s.id, at |-> s.at, people |-> s.people, accepted |-> s.accepted,
                     array |-> s.array, files |-> s.files, body |-> s.body]
Delivered(s) == \E d \in delivered : d.id = s.id
SendsOK ==
  /\ presses \in Nat
  /\ \A d \in delivered : d.id \in 1..presses
  /\ \A s \in sends : /\ SendShape(s) /\ s.id \in 1..presses
                      /\ s.at = "data" => s.accepted = s.people
                      /\ s.at \in {"sent", "done"} => Delivered(s)
  /\ \A s, t \in sends : s.id = t.id => s = t
ComposeInv == SendsOK /\ CopyMeansDelivered

LEMMA ComposeInitially == C!ComposeInit => ComposeInv
  BY DEF C!ComposeInit, ComposeInv, SendsOK, CopyMeansDelivered, C!CopyMeansDelivered

\* A goroutine goes on, and no message is delivered.
LEMMA SendGoesOn ==
  ASSUME ComposeInv, NEW s \in sends, NEW t, SendShape(t), t.id = s.id, t.people = s.people,
         t.at = "data" => t.accepted = t.people,
         t.at \in {"sent", "done"} => s.at \in {"sent", "done"},
         sends' = (sends \ {s}) \cup {t}, UNCHANGED <<presses, delivered>>,
         \/ UNCHANGED stored
         \/ /\ s.at = "sent"
            /\ \E c : stored' = stored \cup {c} /\ c.id = s.id /\ c.people = s.people
  PROVE  ComposeInv'
  <1>1. SendsOK'
    BY DEF ComposeInv, SendsOK, SendShape, Delivered
  <1>2. CopyMeansDelivered'
    BY DEF ComposeInv, SendsOK, Delivered, CopyMeansDelivered, C!CopyMeansDelivered
  <1> QED
    BY <1>1, <1>2 DEF ComposeInv

LEMMA SendGoesOnWith ==
  ASSUME ComposeInv, NEW s \in sends, NEW at, C!To(s, at),
         at = "data" => s.accepted = s.people,
         at \in {"sent", "done"} => s.at \in {"sent", "done"},
         UNCHANGED <<presses, delivered>>,
         \/ UNCHANGED stored
         \/ /\ s.at = "sent"
            /\ \E c : stored' = stored \cup {c} /\ c.id = s.id /\ c.people = s.people
  PROVE  ComposeInv'
  <1> DEFINE t == [s EXCEPT !.at = at]
  <1>1. SendShape(t) /\ t.id = s.id /\ t.people = s.people /\ t.at = at /\ t.accepted = s.accepted
    BY DEF ComposeInv, SendsOK, SendShape
  <1>2. sends' = (sends \ {s}) \cup {t}
    BY DEF C!To
  <1> HIDE DEF t
  <1> QED
    BY <1>1, <1>2, SendGoesOn

LEMMA SendDelivers ==
  ASSUME ComposeInv, NEW s \in sends, NEW at \in {"sent", "failed"}, C!To(s, at), s.at = "data",
         delivered' = delivered \cup {[id |-> s.id, people |-> s.accepted, body |-> s.body]},
         UNCHANGED <<presses, stored>>
  PROVE  ComposeInv'
  <1> DEFINE t == [s EXCEPT !.at = at]
             e == [id |-> s.id, people |-> s.accepted, body |-> s.body]
  <1>1. SendShape(t) /\ t.id = s.id /\ t.people = s.people /\ t.at = at /\ s.accepted = s.people
    BY DEF ComposeInv, SendsOK, SendShape
  <1>2. sends' = (sends \ {s}) \cup {t} /\ delivered' = delivered \cup {e}
        /\ e.id = s.id /\ e.people = s.people
    BY <1>1 DEF C!To
  <1> HIDE DEF t, e
  <1>3. SendsOK'
    BY <1>1, <1>2 DEF ComposeInv, SendsOK, SendShape, Delivered
  <1>4. CopyMeansDelivered'
    BY <1>1, <1>2 DEF ComposeInv, SendsOK, CopyMeansDelivered, C!CopyMeansDelivered
  <1> QED
    BY <1>3, <1>4 DEF ComposeInv

LEMMA SendBegins == ASSUME ComposeInv, C!sendMessage PROVE ComposeInv'
  <1> DEFINE t == [id |-> presses', at |-> "build", people |-> C!Recipients, accepted |-> {},
                   array |-> form.array, files |-> form.files, body |-> NoFile]
  <1>1. /\ SendShape(t) /\ t.id = presses + 1 /\ t.at = "build" /\ presses' = presses + 1
        /\ sends' = sends \cup {t} /\ UNCHANGED <<delivered, stored>>
    BY DEF C!sendMessage, SendShape
  <1> HIDE DEF t
  <1>2. SendsOK'
    BY <1>1 DEF ComposeInv, SendsOK, SendShape, Delivered
  <1>3. CopyMeansDelivered'
    BY <1>1 DEF ComposeInv, SendsOK, CopyMeansDelivered, C!CopyMeansDelivered
  <1> QED
    BY <1>2, <1>3 DEF ComposeInv

LEMMA SendEnds ==
  ASSUME ComposeInv, NEW s \in sends, sends' = sends \ {s}, UNCHANGED <<presses, delivered, stored>>
  PROVE  ComposeInv'
  BY DEF ComposeInv, SendsOK, SendShape, Delivered, CopyMeansDelivered, C!CopyMeansDelivered

LEMMA ComposeKept == ComposeInv /\ [C!ComposeNext]_C!composeVars => ComposeInv'
  <1> SUFFICES ASSUME ComposeInv, [C!ComposeNext]_C!composeVars PROVE ComposeInv'
    OBVIOUS
  <1>1. ASSUME NEW s \in sends, C!SendMessage(s) PROVE ComposeInv'
    <2> DEFINE built == C!BuildMessage(s, 1)
               t == [s EXCEPT !.at = "dial", !.body = built]
    <2> HIDE DEF built
    <2>1. SendShape(t) /\ t.id = s.id /\ t.people = s.people /\ t.at = "dial"
      <3>1. s = [id |-> s.id, at |-> s.at, people |-> s.people, accepted |-> s.accepted,
                 array |-> s.array, files |-> s.files, body |-> s.body]
        BY DEF ComposeInv, SendsOK, SendShape
      <3> DEFINE dialled == [s EXCEPT !.at = "dial"]
      <3>2. t = [dialled EXCEPT !.body = built]
        BY Zenon
      <3>3. dialled = [id |-> s.id, at |-> "dial", people |-> s.people, accepted |-> s.accepted,
                       array |-> s.array, files |-> s.files, body |-> s.body]
        BY <3>1
      <3> HIDE DEF dialled
      <3>4. t = [id |-> s.id, at |-> "dial", people |-> s.people, accepted |-> s.accepted,
                 array |-> s.array, files |-> s.files, body |-> built]
        BY <3>2, <3>3
      <3> HIDE DEF t
      <3> QED
        BY <3>4 DEF SendShape
    <2>2. sends' = (sends \ {s}) \cup {t} /\ UNCHANGED <<presses, delivered, stored>>
      BY <1>1 DEF C!SendMessage, C!Sending, built
    <2> HIDE DEF t
    <2> QED
      BY <2>1, <2>2, SendGoesOn
  <1>2. ASSUME NEW s \in sends, C!Exchange(s) PROVE ComposeInv'
    <2>1. UNCHANGED <<presses, delivered, stored>>
          /\ \E at \in {"tls", "auth", "rcpt", "failed"} : C!To(s, at)
      BY <1>2 DEF C!Exchange, C!After, C!Sending
    <2> QED
      BY <2>1, SendGoesOnWith
  <1>3. ASSUME NEW s \in sends, C!Rcpt(s) PROVE ComposeInv'
    <2>1. UNCHANGED <<presses, delivered, stored>> /\ s.at = "rcpt"
      BY <1>3 DEF C!Rcpt, C!Sending
    <2>2. CASE \/ C!To(s, "failed")
               \/ s.accepted = s.people /\ C!To(s, "data")
      BY <2>1, <2>2, SendGoesOnWith
    <2>3. ASSUME NEW p, sends' = (sends \ {s}) \cup {[s EXCEPT !.accepted = @ \cup {p}]} PROVE ComposeInv'
      <3> DEFINE t == [s EXCEPT !.accepted = @ \cup {p}]
      <3>1. SendShape(t) /\ t.id = s.id /\ t.people = s.people /\ t.at = "rcpt"
        BY <2>1 DEF ComposeInv, SendsOK, SendShape
      <3>2. sends' = (sends \ {s}) \cup {t}
        BY <2>3
      <3> HIDE DEF t
      <3> QED
        BY <2>1, <3>1, <3>2, SendGoesOn
    <2> QED
      BY <1>3, <2>2, <2>3 DEF C!Rcpt
  <1>4. ASSUME NEW s \in sends, C!Data(s) PROVE ComposeInv'
    BY <1>4, SendGoesOnWith, SendDelivers DEF C!Data, C!Sending
  <1>5. ASSUME NEW s \in sends, C!storeSentCopy(s) PROVE ComposeInv'
    <2>1. s.at = "sent" /\ C!To(s, "done") /\ UNCHANGED <<presses, delivered>>
      BY <1>5 DEF C!storeSentCopy, C!Sending
    <2> DEFINE c == [id |-> s.id, account |-> form.account, people |-> s.people,
                     body |-> C!BuildMessage(s, 2)]
    <2>2. c.id = s.id /\ c.people = s.people
      OBVIOUS
    <2>3. UNCHANGED stored \/ stored' = stored \cup {c}
      BY <1>5 DEF C!storeSentCopy
    <2> HIDE DEF c
    <2> QED
      BY <2>1, <2>2, <2>3, SendGoesOnWith
  <1>6. ASSUME NEW s \in sends, C!SendFailed(s) \/ C!Sent(s) PROVE ComposeInv'
    BY <1>6, SendEnds DEF C!SendFailed, C!Sent
  <1>7. CASE UNCHANGED <<presses, sends, delivered, stored>>
    BY <1>7 DEF ComposeInv, SendsOK, SendShape, Delivered, CopyMeansDelivered, C!CopyMeansDelivered
  <1> QED
    BY <1>1, <1>2, <1>3, <1>4, <1>5, <1>6, <1>7, SendBegins
    DEF C!ComposeNext, C!composeVars, C!composeReplyOrForward, C!composeMessage,
        C!showAccountSelectionForCompose, C!switchAccount, C!Type, C!addAttachment,
        C!removeAttachment, C!SaveDraft, C!handleClose, C!Cancelled, C!AnswerClose,
        C!Opened, C!Edited, C!Closing

\* Only a goroutine that is done removes the draft.
LEMMA DraftKept ==
  ASSUME ComposeInv, C!ComposeNext, draftFile = "whole", draftFile' = "none"
  PROVE  delivered # {}
  <1>1. ASSUME NEW s \in sends, C!Sent(s) PROVE delivered # {}
    BY <1>1 DEF C!Sent, ComposeInv, SendsOK, Delivered
  <1>2. ASSUME \/ UNCHANGED draftFile
               \/ draftFile' \in {"whole", "broken", draftFile}
        PROVE  FALSE
    BY <1>2
  <1> QED
    BY <1>1, <1>2
    DEF C!ComposeNext, C!composeReplyOrForward, C!composeMessage,
        C!showAccountSelectionForCompose, C!switchAccount, C!Type, C!addAttachment,
        C!removeAttachment, C!SaveDraft, C!saveDraft, C!handleClose, C!Cancelled, C!AnswerClose,
        C!Opened, C!Edited, C!Closing, C!sendMessage, C!SendMessage, C!Exchange, C!Rcpt, C!Data,
        C!storeSentCopy, C!SendFailed, C!Sending

(***************************************************************************)
(* The desk: the part that runs keeps its invariant, the others do not     *)
(* move.                                                                   *)
(***************************************************************************)
DeskInv == MailInv /\ SessionsInv /\ ReadingInv /\ ComposeInv

LEMMA DeskInitially == DeskInit => DeskInv
  BY MailInitially, SessionsInitially, ReadingInitially, ComposeInitially DEF DeskInit, DeskInv

\* In every step each part makes one of its own, or rests.
LEMMA DeskSteps ==
  ASSUME [DeskNext]_vars
  PROVE  /\ [M!MailNext]_M!mailVars /\ [S!SessionsNext]_S!sessionsVars
         /\ [R!ReadingNext]_R!readingVars /\ [C!ComposeNext]_C!composeVars
  <1>1. (UNCHANGED mailboxPart => UNCHANGED M!mailVars)
    BY DEF mailboxPart, M!mailVars
  <1>2. (UNCHANGED sessionPart => UNCHANGED S!sessionsVars)
    BY DEF sessionPart, S!sessionsVars
  <1>3. (UNCHANGED readingPart => UNCHANGED R!readingVars)
    BY DEF readingPart, R!readingVars
  <1>4. (UNCHANGED composePart => UNCHANGED C!composeVars)
    BY DEF composePart, C!composeVars
  <1> QED
    BY <1>1, <1>2, <1>3, <1>4 DEF DeskNext, vars

LEMMA DeskKept == DeskInv /\ [DeskNext]_vars => DeskInv'
  BY DeskSteps, MailKept, SessionsKept, ReadingKept, ComposeKept DEF DeskInv

LEMMA DeskAlways == DeskSpec => []DeskInv
  BY DeskInitially, DeskKept, PTL DEF DeskSpec

(* The messages cached for a folder came from that folder, unless the two   *)
(* loops have met on one connection (fetch.go 35-57, 155-190).              *)
THEOREM CachedFromItsFolder == DeskSpec => []CachedUnderItsFolder
  <1>1. DeskInv => CachedUnderItsFolder
    BY DEF DeskInv, MailInv
  <1> QED
    BY <1>1, DeskAlways, PTL

(* A command changes a message only in the folder and at the UID it names   *)
(* (flags.go 15-33).                                                        *)
THEOREM CommandsActWhereTold == DeskSpec => ActsOnNamedFolder
  <1> DEFINE Named == ~shared => \A f \in Folder : \A u \in M!UIDs :
                        box[f][u] # "none" /\ box'[f][u] # box[f][u]
                          => (op.folder = f /\ op.uid = u) \/ f \notin exists'
  <1>1. DeskInv /\ [DeskNext]_vars => [Named]_M!mailVars
    <2> SUFFICES ASSUME DeskInv, [M!MailNext]_M!mailVars PROVE [Named]_M!mailVars
      BY DeskSteps
    <2> QED
      BY ActsNamed DEF DeskInv
  <1> QED
    BY <1>1, DeskAlways, PTL DEF DeskSpec, ActsOnNamedFolder, M!ActsOnNamedFolder

(* Every worker that runs is managed, about to be stored, or one that a     *)
(* loader created while selectAccount was under way for the same account    *)
(* (account_session.go 194-229).                                            *)
THEOREM WorkersAreOwned == DeskSpec => []NoWorkerLeaked
  <1>1. DeskInv => NoWorkerLeaked
    BY SessionsSound DEF DeskInv
  <1> QED
    BY <1>1, DeskAlways, PTL

(* The window of a selected account uses a client of that account, and its  *)
(* worker runs unless another than selectAccount stopped it                 *)
(* (account_session.go 43-89).                                              *)
THEOREM WindowIsServed == DeskSpec => []SelectedClientLives
  <1>1. DeskInv => SelectedClientLives
    BY SessionsSound DEF DeskInv
  <1> QED
    BY <1>1, DeskAlways, PTL

(* The body in the viewer has the UID of the message opened last, in        *)
(* whatever order the answers come, and an item of the list gets no body of *)
(* another UID; unless the array of the list was sorted or shortened in     *)
(* place since the message was opened (main_window.go 1216-1255,            *)
(* 1391-1412).                                                              *)
THEOREM BodiesAreOfTheSelected == DeskSpec => []BodyIsOfSelected
  <1>1. DeskInv => BodyIsOfSelected
    BY ReadingSound DEF DeskInv
  <1> QED
    BY <1>1, DeskAlways, PTL

(* A timer fires only for the message opened last, and the server is told   *)
(* that a message was read only by a timer that was started for it; unless  *)
(* the timer came loose, or the array of the list was sorted or shortened   *)
(* in place since (main_window.go 2736-2899).                               *)
THEOREM TimersMarkTheirMessage == DeskSpec => MarksTimedMessage
  <1> DEFINE Timed == /\ \A m \in seen' \ seen :
                           \E k \in marking :
                             /\ k.at = "store" /\ k.box = R!Place(m)
                             /\ ptrs[k.sel].was = m \/ ~ptrs[k.sel].still \/ k.sel \in loose
                      /\ \A s \in armed \ (armed' \cup loose) :
                           [sel |-> s, at |-> "fired", box |-> R!Unified] \in marking' =>
                             \A i \in s + 1..Len(ptrs) : ~ptrs[i].opened
  <1>1. DeskInv /\ [DeskNext]_vars => [Timed]_R!readingVars
    <2> SUFFICES ASSUME DeskInv, [R!ReadingNext]_R!readingVars PROVE [Timed]_R!readingVars
      BY DeskSteps
    <2> QED
      BY MarksTimed, FiresForLast DEF DeskInv
  <1> QED
    BY <1>1, DeskAlways, PTL DEF DeskSpec, MarksTimedMessage, R!MarksTimedMessage

(* A copy in a Sent folder is of a message that the server accepted for     *)
(* every recipient (client.go 216-248, compose_window.go 596-611).          *)
THEOREM CopiesAreOfDelivered == DeskSpec => []CopyMeansDelivered
  <1>1. DeskInv => CopyMeansDelivered
    BY DEF DeskInv, ComposeInv
  <1> QED
    BY <1>1, DeskAlways, PTL

(* A whole draft is removed from the disk only after a message was          *)
(* delivered (compose_window.go 612-638).                                   *)
THEOREM DraftsOutliveFailures == DeskSpec => DraftOutlivesFailure
  <1> DEFINE Kept == draftFile = "whole" /\ draftFile' = "none" => delivered # {}
  <1>1. DeskInv /\ [DeskNext]_vars => [Kept]_C!composeVars
    <2> SUFFICES ASSUME DeskInv, [C!ComposeNext]_C!composeVars PROVE [Kept]_C!composeVars
      BY DeskSteps
    <2> QED
      BY DraftKept DEF DeskInv
  <1> QED
    BY <1>1, DeskAlways, PTL DEF DeskSpec, DraftOutlivesFailure, C!DraftOutlivesFailure
=============================================================================
