------------------------- MODULE SubscriptionsProofs -------------------------
(***************************************************************************)
(* Proof about the folder dialog, for any folders and messages and however *)
(* often a folder is deleted: a deletion that moves the mail first         *)
(* destroys none of the messages it has listed.                            *)
(***************************************************************************)
EXTENDS Subscriptions, TLAPS

\* The messages that have been seen so far: on the server, or destroyed.
Seen(m) == m \in deletion.gone \/ \E f \in Name : m \in mailIn[f]

Steps == {"idle", "checking", "simple", "warned", "choose", "asking", "listing",
          "moving", "deleting", "only", "over"}

Refreshes == [1..2 -> [at : {"idle", "all", "subscribed", "status"},
                       all : SUBSET Name,
                       after : {"nothing", "added", "close"}]]

FoldersOK ==
    /\ mailIn \in [Name -> SUBSET Letter]
    /\ onServer \subseteq Name
    /\ keptMail \in [Name -> SUBSET (Letter \cup {0})]
    /\ deletion \in [at : Steps, folder : Name \cup {Nowhere}, target : Name \cup {Nowhere},
                     listed : SUBSET Letter, rest : SUBSET Letter, failed : BOOLEAN,
                     there : SUBSET Letter, destroyed : SUBSET Letter,
                     gone : SUBSET Letter]
    /\ allFolders \subseteq Name
    /\ refreshes \in Refreshes

\* A cached list may be old, but names no message that is still to come; so
\* a deletion that lists it is not surprised by one of its messages.
KeptIsSeen == \A f \in Name : keptMail[f] # NotKept => \A m \in keptMail[f] : Seen(m)
ListedIsSeen == \A m \in deletion.listed : Seen(m)

\* While no move has failed, what is still in the folder is still to be moved.
RestToMove ==
    deletion.at = "moving" /\ ~deletion.failed =>
        deletion.listed \cap mailIn[deletion.folder] \subseteq deletion.rest

\* Nothing that was listed is left when the folder is deleted.
NothingLeft ==
    deletion.at = "deleting" => deletion.listed \cap mailIn[deletion.folder] = {}

\* A second confirmation forgets the list.
NotListedAgain == deletion.at = "only" => deletion.listed = {}

Placed ==
    /\ deletion.at \in {"listing", "moving"} => deletion.target # deletion.folder
    /\ deletion.at \notin {"idle", "over"} => deletion.folder \in Name
    /\ deletion.at # "over" => deletion.destroyed = {}

IInv == /\ FoldersOK /\ KeptIsSeen /\ ListedIsSeen /\ RestToMove
        /\ NothingLeft /\ NotListedAgain /\ Placed /\ ListedMailSurvives

-----------------------------------------------------------------------------
LEMMA IInvInitially == SubsInit => IInv
  <1> SUFFICES ASSUME SubsInit PROVE IInv
    OBVIOUS
  <1>1. FoldersOK
    <2>1. deletion = NoDeletion /\ allFolders = {} /\ onServer = Name
      BY DEF SubsInit
    <2>2. refreshes \in Refreshes
      BY DEF SubsInit, Refreshing, NoRefresh, Refreshes
    <2>3. mailIn \in [Name -> SUBSET Letter] /\ keptMail \in [Name -> SUBSET (Letter \cup {0})]
      BY DEF SubsInit, NotKept
    <2> QED
      BY <2>1, <2>2, <2>3 DEF FoldersOK, NoDeletion, Steps
  <1>2. KeptIsSeen /\ ListedIsSeen
    BY DEF SubsInit, KeptIsSeen, ListedIsSeen, NoDeletion
  <1>3. RestToMove /\ NothingLeft /\ NotListedAgain /\ Placed /\ ListedMailSurvives
    BY DEF SubsInit, RestToMove, NothingLeft, NotListedAgain, Placed, ListedMailSurvives, NoDeletion
  <1> QED
    BY <1>1, <1>2, <1>3 DEF IInv

-----------------------------------------------------------------------------
(* Types.                                                                    *)

LEMMA StartType ==
  ASSUME refreshes \in Refreshes,
         NEW at \in {"all", "subscribed", "status"}, NEW after \in {"nothing", "added", "close"},
         Start(Refreshing(at, after))
  PROVE  refreshes' \in Refreshes
  BY DEF Start, Refreshing, Refreshes

LEMMA EndType ==
  ASSUME refreshes \in Refreshes, NEW i \in 1..2, refreshes' = [refreshes EXCEPT ![i] = NoRefresh]
  PROVE  refreshes' \in Refreshes
  BY DEF NoRefresh, Refreshes

LEMMA KeptType ==
  ASSUME keptMail \in [Name -> SUBSET (Letter \cup {0})], mailIn \in [Name -> SUBSET Letter],
         NEW f \in Name, NEW limit, NEW got \in SUBSET Letter, FetchMessages(f, limit, got)
  PROVE  keptMail' \in [Name -> SUBSET (Letter \cup {0})]
  BY DEF FetchMessages

LEMMA TypePreserved ==
  ASSUME FoldersOK, Placed, [SubsNext]_subsVars
  PROVE  FoldersOK'
  <1> USE DEF serverState, keptState, dialogState, mainState
  <1>0. refreshes \in Refreshes
    BY DEF FoldersOK, Refreshes
  <1>1. ASSUME NEW i \in 1..2, refreshAll(i) PROVE FoldersOK'
    <2>1. PICK got \in SUBSET Name :
             refreshes' = [refreshes EXCEPT ![i].at = "subscribed", ![i].all = got]
      BY <1>1 DEF refreshAll
    <2>2. refreshes' \in Refreshes
      BY <1>0, <2>1 DEF Refreshes
    <2> QED
      BY <1>1, <2>2 DEF refreshAll, FoldersOK, Refreshes
  <1>2. ASSUME NEW i \in 1..2, refreshFolders(i) PROVE FoldersOK'
    <2>1. refreshes' \in Refreshes
      BY <1>0, <1>2, EndType DEF refreshFolders
    <2>2. allFolders' \subseteq Name
      BY <1>0, <1>2 DEF refreshFolders, Refreshes
    <2> QED
      BY <1>2, <2>1, <2>2 DEF refreshFolders, FoldersOK, Refreshes
  <1>3. ASSUME NEW i \in 1..2, refreshSubscriptionStatus(i) \/ RefreshFails(i) PROVE FoldersOK'
    <2>1. refreshes' \in Refreshes
      BY <1>0, <1>3, EndType DEF refreshSubscriptionStatus, RefreshFails
    <2> QED
      BY <1>3, <2>1 DEF refreshSubscriptionStatus, RefreshFails, FoldersOK, Refreshes
  <1>4. ASSUME NEW f \in Name, \/ subscribeToFolder(f) \/ unsubscribeFromFolder(f)
                               \/ createFolder(f)
        PROVE  FoldersOK'
    <2>1. refreshes' \in Refreshes
      BY <1>0, <1>4, StartType DEF subscribeToFolder, unsubscribeFromFolder, createFolder
    <2> QED
      BY <1>4, <2>1 DEF subscribeToFolder, unsubscribeFromFolder, createFolder, FoldersOK, Refreshes
  <1>5. ASSUME NEW f \in Name, OnSelected(f) \/ selectFolder(f) \/ InvalidateMessageCache(f)
        PROVE  FoldersOK'
    BY <1>5 DEF OnSelected, selectFolder, InvalidateMessageCache, FoldersOK, NotKept
  <1>6. ASSUME NEW f \in Name, NEW m \in Letter, MailArrives(f, m) PROVE FoldersOK'
    BY <1>6 DEF MailArrives, FoldersOK
  <1>7. ASSUME CloseWindow \/ MainRefresh PROVE FoldersOK'
    BY <1>7 DEF CloseWindow, MainRefresh, FoldersOK
  <1>8. ASSUME showDeleteFolderDialog PROVE FoldersOK'
    BY <1>8 DEF showDeleteFolderDialog, validateFolderDeletion, NoDeletion, FoldersOK, Steps
  <1>9. ASSUME CheckMessages PROVE FoldersOK'
    <2>1. keptMail' \in [Name -> SUBSET (Letter \cup {0})]
      BY <1>9, KeptType DEF CheckMessages, FoldersOK, Placed, At
    <2>2. \E s \in Steps : Goes(s)
      BY <1>9 DEF CheckMessages, Steps
    <2> QED
      BY <1>9, <2>1, <2>2 DEF CheckMessages, FoldersOK, Goes
  <1>10. ASSUME ConfirmDelete \/ CancelDelete \/ MovesDone PROVE FoldersOK'
    BY <1>10 DEF ConfirmDelete, CancelDelete, MovesDone, Goes, Ends, FoldersOK, Steps
  <1>11. ASSUME NEW f \in Name, MoveTo(f) PROVE FoldersOK'
    BY <1>11 DEF MoveTo, At, FoldersOK, Steps, Placed
  <1>12. ASSUME ListToMove PROVE FoldersOK'
    <2>1. keptMail' \in [Name -> SUBSET (Letter \cup {0})]
      BY <1>12, KeptType DEF ListToMove, FoldersOK, Placed, At
    <2> QED
      BY <1>12, <2>1 DEF ListToMove, FoldersOK, Goes, Steps
  <1>13. ASSUME NEW m \in Letter, MoveMessage(m) PROVE FoldersOK'
    <2>1. mailIn' \in [Name -> SUBSET Letter]
      <3>1. \/ mailIn' = mailIn
            \/ mailIn' = [mailIn EXCEPT ![deletion.folder] = @ \ {m},
                                        ![deletion.target] = @ \cup (mailIn[deletion.folder] \cap {m})]
        BY <1>13 DEF MoveMessage
      <3>2. mailIn \in [Name -> SUBSET Letter]
        BY DEF FoldersOK
      <3> QED
        BY <3>1, <3>2
    <2> QED
      BY <1>13, <2>1 DEF MoveMessage, FoldersOK
  <1>14. ASSUME DeleteFolder \/ deleteFolderOnly PROVE FoldersOK'
    <2>1. refreshes' \in Refreshes
      BY <1>0, <1>14, StartType DEF DeleteFolder, deleteFolderOnly
    <2>2. Deletes /\ UNCHANGED <<keptMail, allFolders>>
      BY <1>14 DEF DeleteFolder, deleteFolderOnly
    <2> QED
      BY <2>1, <2>2 DEF Deletes, FoldersOK, Refreshes, Steps
  <1>15. ASSUME DeleteFails PROVE FoldersOK'
    BY <1>15 DEF DeleteFails, Ends, FoldersOK, Steps
  <1>16. ASSUME UNCHANGED subsVars PROVE FoldersOK'
    BY <1>16 DEF subsVars, FoldersOK
  <1> QED
    BY <1>1, <1>2, <1>3, <1>4, <1>5, <1>6, <1>7, <1>8, <1>9, <1>10, <1>11, <1>12, <1>13,
       <1>14, <1>15, <1>16 DEF SubsNext

-----------------------------------------------------------------------------
(* What has been seen.                                                       *)

\* One message moved between folders that are there.
Moves(m) ==
    \/ mailIn' = mailIn
    \/ /\ deletion.folder \in Name /\ deletion.target \in Name
       /\ mailIn' = [mailIn EXCEPT ![deletion.folder] = @ \ {m},
                                   ![deletion.target] = @ \cup (mailIn[deletion.folder] \cap {m})]

LEMMA MoveMoves ==
  ASSUME FoldersOK, NEW m \in Letter, MoveMessage(m)
  PROVE  Moves(m)
  BY DEF MoveMessage, Moves, FoldersOK

\* All other steps leave the messages and what was destroyed alone.
LEMMA Others ==
  ASSUME FoldersOK, [SubsNext]_subsVars,
         \A f \in Name, m \in Letter : ~MailArrives(f, m),
         \A m \in Letter : ~MoveMessage(m), ~DeleteFolder, ~deleteFolderOnly
  PROVE  mailIn' = mailIn /\ deletion'.gone = deletion.gone
  <1> USE DEF serverState, FoldersOK
  <1>1. ASSUME NEW i \in 1..2, \/ refreshAll(i) \/ refreshFolders(i)
                               \/ refreshSubscriptionStatus(i) \/ RefreshFails(i)
        PROVE  mailIn' = mailIn /\ deletion' = deletion
    BY <1>1 DEF refreshAll, refreshFolders, refreshSubscriptionStatus, RefreshFails
  <1>2. ASSUME NEW f \in Name, \/ OnSelected(f) \/ subscribeToFolder(f) \/ unsubscribeFromFolder(f)
                               \/ createFolder(f) \/ selectFolder(f) \/ InvalidateMessageCache(f)
        PROVE  mailIn' = mailIn /\ deletion' = deletion
    BY <1>2 DEF OnSelected, subscribeToFolder, unsubscribeFromFolder, createFolder,
         selectFolder, InvalidateMessageCache
  <1>3. CloseWindow \/ MainRefresh => mailIn' = mailIn /\ deletion' = deletion
    BY DEF CloseWindow, MainRefresh
  <1>4. ASSUME showDeleteFolderDialog PROVE mailIn' = mailIn /\ deletion'.gone = deletion.gone
    BY <1>4 DEF showDeleteFolderDialog, NoDeletion
  <1>5. ASSUME CheckMessages PROVE mailIn' = mailIn /\ deletion'.gone = deletion.gone
    BY <1>5 DEF CheckMessages, Goes
  <1>6. ASSUME ConfirmDelete \/ CancelDelete \/ ListToMove \/ MovesDone \/ DeleteFails
        PROVE  mailIn' = mailIn /\ deletion'.gone = deletion.gone
    BY <1>6 DEF ConfirmDelete, CancelDelete, ListToMove, MovesDone, DeleteFails, Goes, Ends
  <1>7. ASSUME NEW f \in Name, MoveTo(f) PROVE mailIn' = mailIn /\ deletion'.gone = deletion.gone
    BY <1>7 DEF MoveTo
  <1>8. UNCHANGED subsVars => mailIn' = mailIn /\ deletion' = deletion
    BY DEF subsVars
  <1> QED
    BY <1>1, <1>2, <1>3, <1>4, <1>5, <1>6, <1>7, <1>8 DEF SubsNext

LEMMA SeenStays ==
  ASSUME FoldersOK, [SubsNext]_subsVars, NEW m \in Letter, Seen(m)
  PROVE  Seen(m)'
  <1>1. ASSUME NEW f \in Name, NEW l \in Letter, MailArrives(f, l) PROVE Seen(m)'
    BY <1>1 DEF MailArrives, Seen, FoldersOK
  <1>2. ASSUME NEW l \in Letter, MoveMessage(l) PROVE Seen(m)'
    <2>1. deletion'.gone = deletion.gone
      BY <1>2 DEF MoveMessage, FoldersOK
    <2>2. Moves(l)
      BY <1>2, MoveMoves
    <2>3. ASSUME NEW f \in Name, m \in mailIn[f] PROVE \E n \in Name : m \in mailIn'[n]
      <3>1. CASE mailIn' = mailIn
        BY <2>3, <3>1
      <3>2. CASE deletion.target \in Name /\ f = deletion.folder /\ m = l /\ mailIn' # mailIn
        BY <2>2, <2>3, <3>2 DEF Moves, FoldersOK
      <3>3. CASE (f # deletion.folder \/ m # l) /\ mailIn' # mailIn
        <4>1. m \in mailIn'[f]
          BY <2>2, <2>3, <3>3 DEF Moves, FoldersOK
        <4> QED
          BY <4>1
      <3> QED
        BY <2>2, <3>1, <3>2, <3>3 DEF Moves
    <2> QED
      BY <2>1, <2>3 DEF Seen
  <1>3. ASSUME DeleteFolder \/ deleteFolderOnly PROVE Seen(m)'
    <2>1. Deletes
      BY <1>3 DEF DeleteFolder, deleteFolderOnly
    <2>2. deletion'.gone = deletion.gone \cup mailIn[deletion.folder]
      BY <2>1 DEF Deletes, FoldersOK
    <2>3. mailIn' = [mailIn EXCEPT ![deletion.folder] = {}]
      BY <2>1 DEF Deletes
    <2> QED
      BY <2>2, <2>3 DEF Seen, FoldersOK
  <1> QED
    BY <1>1, <1>2, <1>3, Others DEF Seen

-----------------------------------------------------------------------------
(* Lists.                                                                    *)

\* What a fetch returns and what it keeps has been seen.
LEMMA FetchSees ==
  ASSUME FoldersOK, KeptIsSeen, NEW f \in Name, NEW limit, NEW got \in SUBSET Letter,
         FetchMessages(f, limit, got)
  PROVE  /\ \A m \in got : Seen(m)
         /\ \A n \in Name : keptMail'[n] # NotKept => \A m \in keptMail'[n] : Seen(m)
  <1>1. \A m \in got : Seen(m)
    BY DEF FetchMessages, KeptIsSeen, Seen
  <1>2. keptMail' = keptMail \/ keptMail' = [keptMail EXCEPT ![f] = got]
    BY DEF FetchMessages
  <1> QED
    BY <1>1, <1>2 DEF KeptIsSeen, FoldersOK

\* Cached lists change only by a fetch, by opening a folder and by expiry.
LEMMA KeptStepSees ==
  ASSUME FoldersOK, Placed, KeptIsSeen, [SubsNext]_subsVars
  PROVE  \A n \in Name : keptMail'[n] # NotKept => \A m \in keptMail'[n] : Seen(m)
  <1> USE DEF keptState
  <1>0. UNCHANGED keptMail =>
          \A n \in Name : keptMail'[n] # NotKept => \A m \in keptMail'[n] : Seen(m)
    BY DEF KeptIsSeen
  <1>1. ASSUME CheckMessages \/ ListToMove
        PROVE  \A n \in Name : keptMail'[n] # NotKept => \A m \in keptMail'[n] : Seen(m)
    <2>1. deletion.folder \in Name
      BY <1>1 DEF CheckMessages, ListToMove, At, Placed
    <2>2. \/ UNCHANGED keptMail
          \/ \E got \in SUBSET Letter, limit \in {0, 1} :
                FetchMessages(deletion.folder, limit, got)
      BY <1>1 DEF CheckMessages, ListToMove
    <2> QED
      BY <1>0, <2>1, <2>2, FetchSees
  <1>2. ASSUME NEW f \in Name, selectFolder(f)
        PROVE  \A n \in Name : keptMail'[n] # NotKept => \A m \in keptMail'[n] : Seen(m)
    BY <1>2 DEF selectFolder, KeptIsSeen, Seen, FoldersOK
  <1>3. ASSUME NEW f \in Name, InvalidateMessageCache(f)
        PROVE  \A n \in Name : keptMail'[n] # NotKept => \A m \in keptMail'[n] : Seen(m)
    BY <1>3 DEF InvalidateMessageCache, KeptIsSeen, FoldersOK
  <1>4. ASSUME NEW i \in 1..2, \/ refreshAll(i) \/ refreshFolders(i)
                               \/ refreshSubscriptionStatus(i) \/ RefreshFails(i)
        PROVE  UNCHANGED keptMail
    BY <1>4 DEF refreshAll, refreshFolders, refreshSubscriptionStatus, RefreshFails
  <1>5. ASSUME NEW f \in Name, \/ OnSelected(f) \/ subscribeToFolder(f) \/ unsubscribeFromFolder(f)
                               \/ createFolder(f) \/ MoveTo(f) \/ \E m \in Letter : MailArrives(f, m)
        PROVE  UNCHANGED keptMail
    BY <1>5 DEF OnSelected, subscribeToFolder, unsubscribeFromFolder, createFolder, MoveTo, MailArrives
  <1>6. ASSUME \/ CloseWindow \/ MainRefresh \/ showDeleteFolderDialog \/ ConfirmDelete
              \/ CancelDelete \/ MovesDone \/ (\E m \in Letter : MoveMessage(m))
              \/ DeleteFolder \/ deleteFolderOnly \/ DeleteFails
        PROVE  UNCHANGED keptMail
    BY <1>6 DEF CloseWindow, MainRefresh, showDeleteFolderDialog, ConfirmDelete, CancelDelete,
         MovesDone, MoveMessage, DeleteFolder, deleteFolderOnly, DeleteFails
  <1>7. UNCHANGED subsVars => UNCHANGED keptMail
    BY DEF subsVars
  <1> QED
    BY <1>0, <1>1, <1>2, <1>3, <1>4, <1>5, <1>6, <1>7 DEF SubsNext

LEMMA KeptPreserved ==
  ASSUME FoldersOK, Placed, KeptIsSeen, [SubsNext]_subsVars
  PROVE  KeptIsSeen'
  <1>1. FoldersOK'
    BY TypePreserved
  <1>2. ASSUME NEW n \in Name, keptMail'[n] # NotKept, NEW m \in keptMail'[n] PROVE Seen(m)'
    <2>1. Seen(m)
      BY <1>2, KeptStepSees
    <2>2. m \in Letter
      BY <2>1 DEF Seen, FoldersOK
    <2> QED
      BY <2>1, <2>2, SeenStays
  <1> QED
    BY <1>2 DEF KeptIsSeen, NotKept

-----------------------------------------------------------------------------
(* The deletion.                                                             *)

Deletion == RestToMove /\ NothingLeft /\ NotListedAgain /\ Placed /\ ListedMailSurvives

LEMMA DeletionPreserved ==
  ASSUME FoldersOK, ListedIsSeen, Deletion, [SubsNext]_subsVars
  PROVE  Deletion'
  <1> USE DEF serverState
  <1>0. UNCHANGED <<mailIn, deletion>> => Deletion'
    BY DEF Deletion, RestToMove, NothingLeft, NotListedAgain, Placed, ListedMailSurvives
  <1>1. ASSUME NEW i \in 1..2, \/ refreshAll(i) \/ refreshFolders(i)
                               \/ refreshSubscriptionStatus(i) \/ RefreshFails(i)
        PROVE  UNCHANGED <<mailIn, deletion>>
    BY <1>1 DEF refreshAll, refreshFolders, refreshSubscriptionStatus, RefreshFails
  <1>2. ASSUME NEW f \in Name, \/ OnSelected(f) \/ subscribeToFolder(f) \/ unsubscribeFromFolder(f)
                               \/ createFolder(f) \/ selectFolder(f) \/ InvalidateMessageCache(f)
        PROVE  UNCHANGED <<mailIn, deletion>>
    BY <1>2 DEF OnSelected, subscribeToFolder, unsubscribeFromFolder, createFolder,
         selectFolder, InvalidateMessageCache
  <1>3. CloseWindow \/ MainRefresh \/ UNCHANGED subsVars => UNCHANGED <<mailIn, deletion>>
    BY DEF CloseWindow, MainRefresh, subsVars
  \* A message that comes has not been seen, so it has not been listed.
  <1>4. ASSUME NEW f \in Name, NEW m \in Letter, MailArrives(f, m) PROVE Deletion'
    <2>1. m \notin deletion.listed
      BY <1>4 DEF MailArrives, ListedIsSeen, Seen
    <2>2. deletion' = deletion /\ mailIn' = [mailIn EXCEPT ![f] = @ \cup {m}]
      BY <1>4 DEF MailArrives
    <2> QED
      BY <2>1, <2>2 DEF Deletion, RestToMove, NothingLeft, NotListedAgain, Placed,
         ListedMailSurvives, FoldersOK
  <1>5. ASSUME showDeleteFolderDialog PROVE Deletion'
    <2>1. selectedName \in Name
      BY <1>5 DEF showDeleteFolderDialog, validateFolderDeletion, FoldersOK
    <2>2. /\ deletion'.at = "checking" /\ deletion'.folder = selectedName
          /\ deletion'.listed = {} /\ deletion'.destroyed = {}
      BY <1>5 DEF showDeleteFolderDialog, NoDeletion
    <2> QED
      BY <2>1, <2>2 DEF Deletion, RestToMove, NothingLeft, NotListedAgain, Placed, ListedMailSurvives
  <1>6. ASSUME CheckMessages PROVE Deletion'
    <2>1. \E s \in {"simple", "choose", "warned"} : Goes(s)
      BY <1>6 DEF CheckMessages
    <2>2. deletion.at = "checking"
      BY <1>6 DEF CheckMessages, At
    <2> QED
      BY <2>1, <2>2 DEF Goes, Deletion, RestToMove, NothingLeft, NotListedAgain, Placed,
         ListedMailSurvives, FoldersOK
  <1>7. ASSUME NEW f \in Name, MoveTo(f) PROVE Deletion'
    BY <1>7 DEF MoveTo, At, validateTargetFolder, Deletion, RestToMove, NothingLeft, NotListedAgain, Placed,
       ListedMailSurvives, FoldersOK
  \* The user who confirms forgets the list.
  <1>8. ASSUME ConfirmDelete PROVE Deletion'
    <2>1. /\ deletion.at \in Asking /\ deletion'.at \in {"only", "deleting"}
          /\ deletion'.listed = {} /\ deletion'.folder = deletion.folder
          /\ deletion'.destroyed = deletion.destroyed
      BY <1>8 DEF ConfirmDelete, FoldersOK
    <2> QED
      BY <2>1 DEF Asking, Deletion, RestToMove, NothingLeft, NotListedAgain, Placed, ListedMailSurvives
  <1>9. ASSUME CancelDelete \/ DeleteFails PROVE Deletion'
    <2>1. /\ deletion'.at = "over" /\ deletion'.listed = deletion.listed
          /\ deletion'.destroyed = deletion.destroyed
      BY <1>9 DEF CancelDelete, DeleteFails, Ends, FoldersOK
    <2> QED
      BY <2>1 DEF Deletion, RestToMove, NothingLeft, NotListedAgain, Placed, ListedMailSurvives
  \* All that was listed is still to be moved.
  <1>10. ASSUME ListToMove PROVE Deletion'
    <2>1. deletion.at = "listing" /\ mailIn' = mailIn
      BY <1>10 DEF ListToMove, At
    <2>2. CASE Goes("asking")
      BY <2>1, <2>2 DEF Goes, Deletion, RestToMove, NothingLeft, NotListedAgain, Placed,
         ListedMailSurvives, FoldersOK
    <2>3. CASE \E got \in SUBSET Letter :
                 deletion' = [deletion EXCEPT !.at = "moving", !.listed = got, !.rest = got]
      BY <2>1, <2>3 DEF Deletion, RestToMove, NothingLeft, NotListedAgain, Placed,
         ListedMailSurvives, FoldersOK
    <2> QED
      BY <1>10, <2>2, <2>3 DEF ListToMove
  \* A message that was moved is no longer in the folder; one that was not
  \* makes the deletion ask again.
  <1>11. ASSUME NEW m \in Letter, MoveMessage(m) PROVE Deletion'
    <2>1. /\ deletion.at = "moving" /\ deletion'.at = "moving"
          /\ deletion'.listed = deletion.listed /\ deletion'.folder = deletion.folder
          /\ deletion'.target = deletion.target
          /\ deletion'.destroyed = deletion.destroyed /\ deletion'.rest = deletion.rest \ {m}
      BY <1>11 DEF MoveMessage, At, FoldersOK
    <2>2. CASE deletion'.failed
      BY <2>1, <2>2 DEF Deletion, RestToMove, NothingLeft, NotListedAgain, Placed, ListedMailSurvives
    <2>3. CASE ~deletion'.failed
      <3>1. ~deletion.failed
        BY <1>11, <2>3 DEF MoveMessage, FoldersOK
      <3>2. mailIn' = [mailIn EXCEPT ![deletion.folder] = @ \ {m},
                                    ![deletion.target] = @ \cup (mailIn[deletion.folder] \cap {m})]
        BY <1>11, <2>3 DEF MoveMessage, FoldersOK
      <3>3. mailIn'[deletion.folder] = mailIn[deletion.folder] \ {m}
        BY <2>1, <3>2 DEF Deletion, Placed, FoldersOK
      <3>4. deletion'.listed \cap mailIn'[deletion'.folder] \subseteq deletion'.rest
        BY <2>1, <3>1, <3>3 DEF Deletion, RestToMove
      <3> QED
        BY <2>1, <3>4, <1>11 DEF MoveMessage, Deletion, RestToMove, NothingLeft, NotListedAgain,
           Placed, ListedMailSurvives, FoldersOK
    <2> QED
      BY <2>2, <2>3
  <1>12. ASSUME MovesDone PROVE Deletion'
    <2>1. /\ deletion.at = "moving" /\ deletion.rest = {} /\ mailIn' = mailIn
          /\ Goes(IF deletion.failed THEN "asking" ELSE "deleting")
      BY <1>12 DEF MovesDone, At
    <2> QED
      BY <2>1 DEF Goes, Deletion, RestToMove, NothingLeft, NotListedAgain, Placed,
         ListedMailSurvives, FoldersOK
  <1>13. ASSUME DeleteFolder \/ deleteFolderOnly PROVE Deletion'
    <2>1. Deletes /\ deletion.at \in {"deleting", "only"}
      BY <1>13 DEF DeleteFolder, deleteFolderOnly, At
    <2>2. /\ deletion'.at = "over" /\ deletion'.listed = deletion.listed
          /\ deletion'.destroyed = mailIn[deletion.folder]
      BY <2>1 DEF Deletes, FoldersOK
    <2>3. deletion.listed \cap mailIn[deletion.folder] = {}
      BY <2>1 DEF Deletion, NothingLeft, NotListedAgain
    <2>4. ListedMailSurvives'
      BY <2>2, <2>3 DEF ListedMailSurvives
    <2> QED
      BY <2>2, <2>4 DEF Deletion, RestToMove, NothingLeft, NotListedAgain, Placed
  <1> QED
    BY <1>0, <1>1, <1>2, <1>3, <1>4, <1>5, <1>6, <1>7, <1>8, <1>9, <1>10, <1>11, <1>12, <1>13
       DEF SubsNext

\* The list of a deletion comes from one fetch.
LEMMA ListedPreserved ==
  ASSUME FoldersOK, Placed, KeptIsSeen, ListedIsSeen, [SubsNext]_subsVars
  PROVE  ListedIsSeen'
  <1>1. deletion'.listed \subseteq deletion.listed => ListedIsSeen'
    BY SeenStays DEF ListedIsSeen, FoldersOK
  <1>2. ASSUME ListToMove PROVE ListedIsSeen'
    <2>1. CASE Goes("asking")
      BY <1>1, <2>1 DEF Goes, FoldersOK
    <2>2. ASSUME NEW got \in SUBSET Letter, FetchMessages(deletion.folder, 0, got),
                 deletion' = [deletion EXCEPT !.at = "moving", !.listed = got, !.rest = got]
          PROVE  ListedIsSeen'
      <3>1. deletion.folder \in Name
        BY <1>2 DEF ListToMove, At, Placed
      <3>2. \A m \in got : Seen(m)
        BY <2>2, <3>1, FetchSees
      <3>3. deletion'.listed = got
        BY <2>2 DEF FoldersOK
      <3> QED
        BY <3>2, <3>3, SeenStays DEF ListedIsSeen
    <2> QED
      BY <1>2, <2>1, <2>2 DEF ListToMove
  <1>3. ASSUME ~ListToMove PROVE deletion'.listed \subseteq deletion.listed
    <2>1. ASSUME NEW i \in 1..2, \/ refreshAll(i) \/ refreshFolders(i)
                                 \/ refreshSubscriptionStatus(i) \/ RefreshFails(i)
          PROVE  UNCHANGED deletion
      BY <2>1 DEF refreshAll, refreshFolders, refreshSubscriptionStatus, RefreshFails
    <2>2. ASSUME NEW f \in Name, \/ OnSelected(f) \/ subscribeToFolder(f) \/ unsubscribeFromFolder(f)
                                 \/ createFolder(f) \/ selectFolder(f) \/ InvalidateMessageCache(f)
                                 \/ \E m \in Letter : MailArrives(f, m)
          PROVE  UNCHANGED deletion
      BY <2>2 DEF OnSelected, subscribeToFolder, unsubscribeFromFolder, createFolder,
           selectFolder, InvalidateMessageCache, MailArrives
    <2>3. CloseWindow \/ MainRefresh \/ UNCHANGED subsVars => UNCHANGED deletion
      BY DEF CloseWindow, MainRefresh, subsVars
    <2>4. ASSUME showDeleteFolderDialog \/ ConfirmDelete PROVE deletion'.listed = {}
      BY <2>4 DEF showDeleteFolderDialog, ConfirmDelete, NoDeletion, FoldersOK
    <2>5. ASSUME \/ CheckMessages \/ CancelDelete \/ MovesDone \/ DeleteFails
                \/ \E f \in Name : MoveTo(f)
          PROVE  deletion'.listed = deletion.listed
      BY <2>5 DEF CheckMessages, CancelDelete, MovesDone, DeleteFails, MoveTo, Goes, Ends, FoldersOK
    <2>6. ASSUME NEW m \in Letter, MoveMessage(m) PROVE deletion'.listed = deletion.listed
      BY <2>6 DEF MoveMessage, FoldersOK
    <2>7. ASSUME DeleteFolder \/ deleteFolderOnly PROVE deletion'.listed = deletion.listed
      BY <2>7 DEF DeleteFolder, deleteFolderOnly, Deletes, FoldersOK
    <2> QED
      BY <1>3, <2>1, <2>2, <2>3, <2>4, <2>5, <2>6, <2>7 DEF SubsNext
  <1> QED
    BY <1>1, <1>2, <1>3

LEMMA IInvPreserved == IInv /\ [SubsNext]_subsVars => IInv'
  <1> SUFFICES ASSUME IInv, [SubsNext]_subsVars PROVE IInv'
    OBVIOUS
  <1>1. FoldersOK'
    BY TypePreserved DEF IInv
  <1>2. KeptIsSeen' /\ ListedIsSeen'
    BY KeptPreserved, ListedPreserved DEF IInv
  <1>3. Deletion'
    BY DeletionPreserved DEF IInv, Deletion
  <1> QED
    BY <1>1, <1>2, <1>3 DEF IInv, Deletion

-----------------------------------------------------------------------------
\* However deletions, refreshes, new mail, broken transfers and lost answers
\* meet, and whatever the caches hold: a deletion that moves the mail first
\* destroys none of the messages it listed, unless the user confirmed again
\* (deleteFolder and moveAllMessages, folder_subscription_dialog.go:826-1010).
THEOREM SparesListedMail == SubsSpec => []ListedMailSurvives
<1>1. IInv => ListedMailSurvives
  BY DEF IInv
<1> QED
  BY <1>1, IInvInitially, IInvPreserved, PTL DEF SubsSpec
=============================================================================
