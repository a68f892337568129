-------------------------------- MODULE Desk --------------------------------
(* What happens at the desk of the user, in six parts: the mailboxes behind  *)
(* a connection, the account sessions, the reading of messages, composing    *)
(* and sending, the folder dialog and the address book.                      *)
(*                                                                           *)
(* The parts share no variable: each abstracts what it needs of the others   *)
(* into its own steps. A behaviour therefore runs one of them, with the      *)
(* others at rest; letting them move in turn would add no behaviour to any.  *)
(* The address book and the folder dialog are extended, so that their        *)
(* theorems are about what is checked here; the others are instances.        *)
EXTENDS AddressBook, Subscriptions

CONSTANTS Folder, MailCommands,                     \* Mailboxes
          Account, NoAccount, MaxClients, MaxChoices, \* Sessions
          Mail, NoMail, MaxReads, MaxFetches,         \* Reading
          Person, CommaName, Own, Original, File, NoFile, MaxSends, MaxEdits  \* Compose

\* A message is known by its account, its folder and its UID there.
ASSUME MailAssumption ==
  /\ IsFiniteSet(Mail)
  /\ \A m, n \in Mail : m.account = n.account /\ m.folder = n.folder /\ m.uid = n.uid => m = n

VARIABLES
  part,  \* the part that runs
  box, exists, subscribed, commandClient, fetchClient, sel, fetchSel, selectedFolder,
  fetchSelectedFolder, op, job, lists, cachedFrom, refreshing, shared, begun,
  clients, managed, current, unified, imapClient, ui, connects, jobs, starter,
  clearing, choices, overwritten, undercut,
  view, list, ptrs, selected, viewer, fetches, timer, armed, marking, seen, shownSeen,
  bodies, reads, loose,
  shown, form, arrays, draftFile, sends, delivered, stored, sentCached, presses, edits

M == INSTANCE Mailboxes
S == INSTANCE Sessions
R == INSTANCE Reading
C == INSTANCE Compose

mailboxPart == <<box, exists, subscribed, commandClient, fetchClient, sel, fetchSel,
                 selectedFolder, fetchSelectedFolder, op, job, lists, cachedFrom,
                 refreshing, shared, begun>>
sessionPart == <<clients, managed, current, unified, imapClient, ui, connects, jobs,
                 starter, clearing, choices, overwritten, undercut>>
readingPart == <<view, list, ptrs, selected, viewer, fetches, timer, armed, marking,
                 seen, shownSeen, bodies, reads, loose>>
composePart == <<shown, form, arrays, draftFile, sends, delivered, stored, sentCached,
                 presses, edits>>

vars == <<part, mailboxPart, sessionPart, readingPart, composePart, subsVars, bookVars>>

\* A part at rest is in one of its initial states.
DeskInit ==
    /\ part \in {"mailboxes", "sessions", "reading", "compose", "folders", "book"}
    /\ M!MailInit /\ (part # "mailboxes" => subscribed = Folder /\ fetchClient = "nil")
    /\ S!SessionsInit
    /\ R!ReadingInit
    /\ C!ComposeInit /\ (part # "compose" => shown = NoAccount)
    /\ SubsInit
    /\ part # "folders" => /\ client = "main" /\ subscribedOn = Name
                           /\ \A f \in Name : mailIn[f] = {}
    /\ BookInit
    /\ part # "book" => collects /\ \A k \in Key : saved[k] = NoLabel

DeskNext ==
    \/ /\ part = "mailboxes" /\ M!MailNext
       /\ UNCHANGED <<part, sessionPart, readingPart, composePart, subsVars, bookVars>>
    \/ /\ part = "sessions" /\ S!SessionsNext
       /\ UNCHANGED <<part, mailboxPart, readingPart, composePart, subsVars, bookVars>>
    \/ /\ part = "reading" /\ R!ReadingNext
       /\ UNCHANGED <<part, mailboxPart, sessionPart, composePart, subsVars, bookVars>>
    \/ /\ part = "compose" /\ C!ComposeNext
       /\ UNCHANGED <<part, mailboxPart, sessionPart, readingPart, subsVars, bookVars>>
    \/ /\ part = "folders" /\ SubsNext
       /\ UNCHANGED <<part, mailboxPart, sessionPart, readingPart, composePart, bookVars>>
    \/ /\ part = "book" /\ BookNext
       /\ UNCHANGED <<part, mailboxPart, sessionPart, readingPart, composePart, subsVars>>

DeskSpec == DeskInit /\ [][DeskNext]_vars

-----------------------------------------------------------------------------
(* The properties of the parts, each stated where it belongs. Those of the   *)
(* address book and the folder dialog (ContactsSaved, KeepsContacts and      *)
(* ListedMailSurvives) come with their modules.                              *)

\* A command changes the folder it named and no other (Mailboxes).
ActsOnNamedFolder == M!ActsOnNamedFolder
\* The messages cached for a folder come from that folder (Mailboxes).
CachedUnderItsFolder == M!CachedUnderItsFolder
\* No worker runs on that nothing will stop (Sessions).
NoWorkerLeaked == S!NoWorkerLeaked
\* The client the window uses runs (Sessions).
SelectedClientLives == S!SelectedClientLives
\* The body in the viewer has the UID of the message opened last, unless the list
\* was sorted or shortened in place since (Reading).
BodyIsOfSelected == R!BodyIsOfSelected
\* A timer marks the message it was started for, unless it came loose or the list
\* was sorted or shortened in place since (Reading).
MarksTimedMessage == R!MarksTimedMessage
\* A copy in the sent folder means that every recipient was served (Compose).
CopyMeansDelivered == C!CopyMeansDelivered
\* A draft on disk outlives a send that fails (Compose).
DraftOutlivesFailure == C!DraftOutlivesFailure
=============================================================================
