------------------------------- MODULE NewMail -------------------------------
(***************************************************************************)
(* New-mail detection for one folder (pkg/imap/idle.go): a check on the    *)
(* event loop compares the server's message count and highest UID with     *)
(* watermarks, fetches what is above them and announces it.  Actors: the   *)
(* server and other clients, which deliver and expunge; the event loop; a  *)
(* retry timer; goroutines that save the watermarks to the cache; the user *)
(* interface, which declares the initial sync complete; crashes, after     *)
(* which the saved watermarks are loaded.                                  *)
(*                                                                         *)
(* A check is two server calls, SELECT and FETCH, and what the worker does *)
(* after each.  The watchdog makes a call of a silent server fail.         *)
(* Messages may be announced by the server before it lets them be fetched. *)
(***************************************************************************)
EXTENDS Naturals, FiniteSets

CONSTANTS MaxUID,            \* bound on the messages delivered
          MaxNotifications,  \* MaxNewMessageNotifications, 10 in the code
          MaxRetries,        \* MaxNewMessageRetries, 5 in the code
          FloodLimit,        \* 100 in the code
          MaxQueued,         \* bound on the checks others ask for at a time
          MaxFaults,         \* bound on failed calls, refused checks and crashes
          Partial            \* whether a fetch may show some of the new messages only

ASSUME BoundsAssumption == /\ MaxUID \in Nat /\ MaxNotifications \in Nat \ {0}
                           /\ MaxRetries \in Nat /\ FloodLimit \in Nat
                           /\ MaxQueued \in Nat \ {0} /\ MaxFaults \in Nat
ASSUME PartialAssumption == Partial \in BOOLEAN

VARIABLES
  mailbox,      \* the UIDs in the folder
  uidNext,
  hidden,       \* those that cannot be fetched yet
  lastCount,    \* w.lastMessageCount
  lastUID,      \* w.lastHighestUID
  synced,       \* w.initialSyncDone
  retryCount,   \* w.newMsgRetryCount
  retryPending, \* w.newMsgRetryScheduled, and its timer
  queued,       \* checks in commandCh, or whose sender waits for room in it
  check,        \* the check that is running, and the UIDs it wants to fetch
  saver,        \* whether a goroutine that saves has been started
  snapshots,    \* the tracking states that saving goroutines are writing
  saved,        \* the tracking state in the cache
  announced,    \* how often this process has announced each message
  settled,      \* messages found, or declared old by a check
  faults

server == <<mailbox, uidNext, hidden>>
tracking == <<lastCount, lastUID, synced>>
retries == <<retryCount, retryPending>>
saving == <<saver, snapshots, saved>>
vars == <<server, tracking, retries, queued, check, saving, announced, settled, faults>>

UIDs == 1..MaxUID
TrackingState == [count : 0..MaxUID, uid : 0..MaxUID, synced : BOOLEAN]
NoCheck == [at |-> "none", from |-> 0, to |-> 0]

TypeOK ==
  /\ mailbox \subseteq UIDs /\ uidNext \in 1..(MaxUID + 1) /\ hidden \subseteq mailbox
  /\ lastCount \in 0..MaxUID /\ lastUID \in 0..MaxUID /\ synced \in BOOLEAN
  /\ retryCount \in 0..MaxRetries /\ retryPending \in BOOLEAN
  /\ queued \in 0..(MaxQueued + 2)
  /\ check \in [at : {"none", "fetching"}, from : 0..MaxUID, to : 0..MaxUID]
  /\ saver \in BOOLEAN
  /\ snapshots \subseteq TrackingState /\ saved \in TrackingState
  /\ announced \in [UIDs -> Nat] /\ settled \subseteq UIDs
  /\ faults \in 0..MaxFaults

\* Without a saved tracking state everything is zero, as initializeFolderTracking
\* has it.
Init ==
  /\ mailbox = {} /\ uidNext = 1 /\ hidden = {}
  /\ lastCount = 0 /\ lastUID = 0 /\ synced = FALSE
  /\ retryCount = 0 /\ retryPending = FALSE
  /\ queued = 0 /\ check = NoCheck
  /\ saver = FALSE /\ snapshots = {}
  /\ saved = [count |-> 0, uid |-> 0, synced |-> FALSE]
  /\ announced = [u \in UIDs |-> 0] /\ settled = {}
  /\ faults = 0

Fault == faults < MaxFaults /\ faults' = faults + 1

-----------------------------------------------------------------------------
(* The server and other clients.                                            *)

Upto(uid) == {u \in UIDs : u <= uid}

\* Unless Partial, the messages above the watermark can all be fetched, or none
\* of them can.
Deliver ==
  /\ uidNext <= MaxUID
  /\ mailbox' = mailbox \cup {uidNext} /\ uidNext' = uidNext + 1
  /\ \/ hidden' = hidden /\ (Partial \/ hidden = {})
     \/ hidden' = hidden \cup {uidNext} /\ (Partial \/ mailbox \ hidden \subseteq Upto(lastUID))
  /\ UNCHANGED <<tracking, retries, queued, check, saving, announced, settled, faults>>

Appear ==
  /\ hidden # {}
  /\ hidden' \in IF Partial THEN {hidden \ {u} : u \in hidden} ELSE {{}}
  /\ UNCHANGED <<mailbox, uidNext, tracking, retries, queued, check, saving, announced,
                 settled, faults>>

Expunge ==
  /\ \E u \in mailbox : mailbox' = mailbox \ {u} /\ hidden' = hidden \ {u}
  /\ UNCHANGED <<uidNext, tracking, retries, queued, check, saving, announced, settled, faults>>

-----------------------------------------------------------------------------
(* Requests for a check: a server push, the end of an IDLE, a reconnection. *)

RequestCheck ==
  /\ queued < MaxQueued /\ queued' = queued + 1
  /\ UNCHANGED <<server, tracking, retries, check, saving, announced, settled, faults>>

\* The timer of scheduleNewMessageRetry.
RetryFires ==
  /\ retryPending /\ retryPending' = FALSE
  /\ queued' = queued + 1
  /\ UNCHANGED <<server, tracking, retryCount, check, saving, announced, settled, faults>>

\* The command is refused without a connection, or its SELECT fails.
CheckFails ==
  /\ check = NoCheck /\ queued > 0 /\ Fault
  /\ queued' = queued - 1
  /\ UNCHANGED <<server, tracking, retries, check, saving, announced, settled>>

-----------------------------------------------------------------------------
(* checkForNewMessages.                                                     *)

Highest == uidNext - 1

\* What the second half of the check does, given the comparison of the first.
decide(isNew) ==
  /\ check = NoCheck /\ queued > 0 /\ queued' = queued - 1
  /\ lastCount' = Cardinality(mailbox)
  /\ saver' = TRUE
  /\ IF isNew
     THEN IF lastCount = 0 /\ lastUID = 0 /\ Cardinality(mailbox) > FloodLimit
          THEN \* a tracking state that was lost: nothing is announced
               /\ lastUID' = Highest
               /\ settled' = settled \cup Upto(Highest)
               /\ UNCHANGED <<check, retryCount>>
          ELSE /\ check' = [at |-> "fetching", from |-> lastUID, to |-> Highest]
               /\ UNCHANGED <<lastUID, settled, retryCount>>
     ELSE /\ lastUID' = Highest
          /\ settled' = IF synced THEN settled ELSE settled \cup Upto(Highest)
          /\ retryCount' = 0
          /\ UNCHANGED check
  /\ UNCHANGED <<server, synced, retryPending, snapshots, saved, announced, faults>>

Select == decide(synced /\ (Cardinality(mailbox) > lastCount \/ Highest > lastUID))

\* Fault: nothing limits the number of retries.
scheduleRetry_Unlimited ==
  IF retryPending THEN UNCHANGED retries
  ELSE retryCount' = retryCount + 1 /\ retryPending' = TRUE

\* Fault: a retry that is due already is counted again.
scheduleRetry_CountsTwice ==
  IF retryCount >= MaxRetries THEN UNCHANGED retries
  ELSE retryCount' = retryCount + 1 /\ UNCHANGED retryPending

\* scheduleNewMessageRetry.
scheduleRetry ==
  IF retryPending \/ retryCount >= MaxRetries THEN UNCHANGED retries
  ELSE retryCount' = retryCount + 1 /\ retryPending' = TRUE

\* The first messages of those found, in the order of their UIDs.
firstOf(found) ==
  {u \in found : Cardinality({v \in found : v < u}) < MaxNotifications}

finish(found) ==
  IF found # {}
  THEN /\ lastUID' = check.to
       /\ retryCount' = 0 /\ UNCHANGED retryPending
       /\ announced' = [u \in UIDs |-> IF u \in firstOf(found) THEN announced[u] + 1
                                                               ELSE announced[u]]
       /\ settled' = settled \cup found
       /\ saver' = TRUE
  ELSE /\ IF check.to > check.from THEN scheduleRetry ELSE UNCHANGED retries
       /\ UNCHANGED <<lastUID, announced, settled, saver>>

\* Fault: the UID watermark is advanced whether or not anything was fetched.
Fetch_AdvancesFirst ==
  /\ check.at = "fetching" /\ check' = NoCheck
  /\ LET found == {u \in mailbox \ hidden : check.from < u /\ u <= check.to}
     IN  /\ lastUID' = check.to
         /\ settled' = settled \cup found
         /\ announced' = [u \in UIDs |-> IF u \in firstOf(found) THEN announced[u] + 1
                                                                 ELSE announced[u]]
  /\ saver' = TRUE
  /\ UNCHANGED <<server, lastCount, synced, retries, queued, snapshots, saved, faults>>

\* Fault: the watermark is left where it was.
Fetch_KeepsWatermark ==
  /\ check.at = "fetching" /\ check' = NoCheck
  /\ LET found == {u \in mailbox \ hidden : check.from < u /\ u <= check.to}
     IN  /\ settled' = settled \cup found
         /\ announced' = [u \in UIDs |-> IF u \in firstOf(found) THEN announced[u] + 1
                                                                 ELSE announced[u]]
  /\ UNCHANGED <<server, tracking, retries, queued, saving, faults>>

\* fetchNewMessages, and what follows it.  A call that fails found nothing.
Fetch ==
  /\ check.at = "fetching" /\ check' = NoCheck
  /\ \/ /\ finish({u \in mailbox \ hidden : check.from < u /\ u <= check.to})
        /\ UNCHANGED faults
     \/ /\ finish({})
        /\ Fault
  /\ UNCHANGED <<server, lastCount, synced, queued, snapshots, saved>>

-----------------------------------------------------------------------------
(* Initial sync, saving, crash and restart.                                 *)

MarkInitialSyncComplete ==
  /\ ~synced
  /\ synced' = TRUE /\ saver' = TRUE
  /\ UNCHANGED <<server, lastCount, lastUID, retries, queued, check, snapshots, saved,
                 announced, settled, faults>>

\* saveTrackingStateToCache copies under the lock and writes after it; several
\* of these goroutines may be at work, and one may still be to come.
Snapshot ==
  /\ saver
  /\ saver' \in BOOLEAN
  /\ snapshots' = snapshots \cup {[count |-> lastCount, uid |-> lastUID, synced |-> synced]}
  /\ snapshots' # snapshots
  /\ UNCHANGED <<server, tracking, retries, queued, check, saved, announced, settled, faults>>

Write ==
  /\ \E s \in snapshots : saved' = s /\ snapshots' = snapshots \ {s}
  /\ UNCHANGED <<server, tracking, retries, queued, check, saver, announced, settled, faults>>

\* The process ends and starts again: loadTrackingStateFromCache.
Restart ==
  /\ Fault
  /\ lastCount' = saved.count /\ lastUID' = saved.uid /\ synced' = saved.synced
  /\ retryCount' = 0 /\ retryPending' = FALSE
  /\ queued' = 0 /\ check' = NoCheck
  /\ saver' = FALSE /\ snapshots' = {}
  /\ announced' = [u \in UIDs |-> 0]
  /\ hidden' = IF Partial THEN hidden ELSE {}
  /\ UNCHANGED <<mailbox, uidNext, saved, settled>>

-----------------------------------------------------------------------------
Server == Deliver \/ Appear \/ Expunge
Next == \/ Server \/ RequestCheck \/ RetryFires \/ CheckFails \/ Select \/ Fetch
        \/ MarkInitialSyncComplete \/ Snapshot \/ Write \/ Restart

Spec == Init /\ [][Next]_vars

(***************************************************************************)
(* Fairness: the event loop runs and timers fire.  Nobody else need ask    *)
(* for a check: an IDLE may last for 29 minutes.                           *)
(***************************************************************************)
LiveSpec == Spec /\ WF_vars(Select) /\ WF_vars(Fetch) /\ WF_vars(RetryFires)

-----------------------------------------------------------------------------
(* Properties.                                                              *)

\* No message is announced twice by one process, however checks, retries and
\* deliveries meet.
AnnouncedOnce == \A u \in UIDs : announced[u] <= 1

\* The watermark is advanced only past messages that were fetched ("now that we
\* have confirmed the messages exist", idle.go:437), or that were there before
\* the first sync; the same for every watermark on its way to the cache or in
\* it, so that no crash makes the program miss a message.
watermarks == {lastUID, saved.uid} \cup {s.uid : s \in snapshots}
NothingSkipped == \A u \in mailbox, mark \in watermarks : u <= mark => u \in settled

\* A message that was noticed but could not be fetched is found by short-delay
\* retries, "so detection does not stall until the next IDLE timeout"
\* (idle.go:470-471), unless they are used up or a check has failed.
RetriesUntilFound ==
  \A u \in UIDs : check.at = "fetching" /\ check.from < u /\ check.to = u
                 ~> lastUID >= u \/ retryCount = MaxRetries \/ faults > 0
=============================================================================
