---------------------------- MODULE NewMailProofs ----------------------------
(***************************************************************************)
(* Proofs about new-mail detection, for any bounds: the variables keep     *)
(* their types; no message is announced twice; and none is skipped, by the *)
(* running process or by one that loads what was saved, if the server lets *)
(* the new messages be fetched together.                                   *)
(***************************************************************************)
EXTENDS NewMail, FiniteSetTheorems, TLAPS

one(b) == IF b THEN 1 ELSE 0

\* The checks that wait, and those that will: each retry takes the place of the
\* check that asked for it.
QueueBounded ==
  queued + one(retryPending) + one(check.at = "fetching") <= MaxQueued + 2

Typed == TypeOK /\ QueueBounded

LEMMA Counted ==
  ASSUME TypeOK
  PROVE  Cardinality(mailbox) \in 0..MaxUID
  <1>1. IsFiniteSet(UIDs) /\ Cardinality(UIDs) = MaxUID
    BY FS_Interval, BoundsAssumption DEF UIDs
  <1>2. IsFiniteSet(mailbox) /\ Cardinality(mailbox) <= MaxUID
    BY <1>1, FS_Subset DEF TypeOK
  <1> QED
    BY <1>2, FS_CardinalityType, BoundsAssumption

LEMMA HighestType ==
  ASSUME TypeOK
  PROVE  Highest \in 0..MaxUID
  BY BoundsAssumption DEF TypeOK, Highest

\* What a retry does to its variables.
LEMMA RetryType ==
  ASSUME TypeOK, scheduleRetry \/ UNCHANGED retries \/ (retryCount' = 0 /\ UNCHANGED retryPending)
  PROVE  retryCount' \in 0..MaxRetries /\ retryPending' \in BOOLEAN
  <1>1. retryCount' \in 0..MaxRetries
    BY BoundsAssumption DEF TypeOK, scheduleRetry, retries
  <1>2. retryPending' \in BOOLEAN
    BY DEF TypeOK, scheduleRetry, retries
  <1> QED
    BY <1>1, <1>2

LEMMA TypePreserved == Typed /\ [Next]_vars => Typed'
<1> SUFFICES ASSUME Typed, [Next]_vars PROVE Typed'
  OBVIOUS
<1> USE DEF Typed
<1>1. CASE Server
  <2>1. /\ mailbox' \subseteq UIDs /\ hidden' \subseteq mailbox'
        /\ uidNext' \in 1..(MaxUID + 1)
    <3>1. CASE Deliver
      <4>1. uidNext \in UIDs /\ uidNext' \in 1..(MaxUID + 1)
        BY <3>1, BoundsAssumption DEF Deliver, TypeOK, UIDs
      <4>2. mailbox' = mailbox \cup {uidNext} /\ hidden' \in {hidden, hidden \cup {uidNext}}
        BY <3>1 DEF Deliver
      <4> QED
        BY <4>1, <4>2 DEF TypeOK
    <3>2. CASE Appear
      BY <3>2 DEF Appear, TypeOK
    <3>3. CASE Expunge
      BY <3>3 DEF Expunge, TypeOK
    <3> QED
      BY <1>1, <3>1, <3>2, <3>3 DEF Server
  <2>2. UNCHANGED <<tracking, retries, queued, check, saving, announced, settled, faults>>
    BY <1>1 DEF Server, Deliver, Appear, Expunge
  <2> QED
    BY <2>1, <2>2 DEF TypeOK, QueueBounded, tracking, retries, saving, one
<1>2. CASE RequestCheck
  <2>1. queued' \in 0..(MaxQueued + 2) /\ QueueBounded'
    BY <1>2, BoundsAssumption DEF RequestCheck, TypeOK, QueueBounded, one, retries
  <2> QED
    BY <1>2, <2>1 DEF RequestCheck, TypeOK, server, tracking, retries, saving
<1>3. CASE RetryFires
  <2>1. queued' \in 0..(MaxQueued + 2) /\ QueueBounded'
    BY <1>3, BoundsAssumption DEF RetryFires, TypeOK, QueueBounded, one
  <2> QED
    BY <1>3, <2>1 DEF RetryFires, TypeOK, server, tracking, saving
<1>4. CASE CheckFails
  <2>1. queued' \in 0..(MaxQueued + 2) /\ QueueBounded'
    BY <1>4, BoundsAssumption DEF CheckFails, TypeOK, QueueBounded, one, retries
  <2>2. faults' \in 0..MaxFaults
    BY <1>4, BoundsAssumption DEF CheckFails, Fault, TypeOK
  <2> QED
    BY <1>4, <2>1, <2>2 DEF CheckFails, TypeOK, server, tracking, retries, saving
<1>5. CASE Select
  <2>1. queued' \in 0..(MaxQueued + 2) /\ QueueBounded'
    BY <1>5, BoundsAssumption DEF Select, decide, TypeOK, QueueBounded, one, NoCheck
  <2>2. lastCount' \in 0..MaxUID /\ lastUID' \in 0..MaxUID
    BY <1>5, Counted, HighestType DEF Select, decide, TypeOK
  <2>3. check' \in [at : {"none", "fetching"}, from : 0..MaxUID, to : 0..MaxUID]
    BY <1>5, HighestType DEF Select, decide, TypeOK
  <2>4. settled' \subseteq UIDs /\ retryCount' \in 0..MaxRetries
    BY <1>5, BoundsAssumption DEF Select, decide, TypeOK, Upto
  <2> QED
    BY <1>5, <2>1, <2>2, <2>3, <2>4 DEF Select, decide, TypeOK, server
<1>6. CASE Fetch
  <2>1. PICK found \in SUBSET UIDs : finish(found)
    BY <1>6 DEF Fetch, TypeOK
  <2>2. check' = NoCheck /\ check.at = "fetching"
    BY <1>6 DEF Fetch
  <2>3. retryCount' \in 0..MaxRetries /\ retryPending' \in BOOLEAN
    BY <2>1, RetryType DEF finish
  <2>4. lastUID' \in 0..MaxUID /\ settled' \subseteq UIDs /\ saver' \in BOOLEAN
    BY <2>1 DEF finish, TypeOK
  <2>5. announced' \in [UIDs -> Nat]
    BY <2>1 DEF finish, TypeOK
  <2>6. faults' \in 0..MaxFaults
    BY <1>6, BoundsAssumption DEF Fetch, Fault, TypeOK
  <2>7. check' \in [at : {"none", "fetching"}, from : 0..MaxUID, to : 0..MaxUID]
    BY <2>2, BoundsAssumption DEF NoCheck
  <2>8. QueueBounded'
    <3>1. queued' = queued
      BY <1>6 DEF Fetch
    <3> QED
      BY <2>2, <2>3, <3>1, BoundsAssumption DEF TypeOK, QueueBounded, one, NoCheck
  <2> QED
    BY <1>6, <2>3, <2>4, <2>5, <2>6, <2>7, <2>8 DEF Fetch, TypeOK, server
<1>7. CASE MarkInitialSyncComplete
  BY <1>7 DEF MarkInitialSyncComplete, TypeOK, QueueBounded, server, retries, one
<1>8. CASE Snapshot
  BY <1>8 DEF Snapshot, TypeOK, QueueBounded, server, tracking, retries, TrackingState, one
<1>9. CASE Write
  BY <1>9 DEF Write, TypeOK, QueueBounded, server, tracking, retries, one
<1>10. CASE Restart
  <2>1. saved.count \in 0..MaxUID /\ saved.uid \in 0..MaxUID /\ saved.synced \in BOOLEAN
    BY DEF TypeOK, TrackingState
  <2>2. faults' \in 0..MaxFaults
    BY <1>10, BoundsAssumption DEF Restart, Fault, TypeOK
  <2>3. QueueBounded' /\ queued' \in 0..(MaxQueued + 2) /\ retryCount' \in 0..MaxRetries
    BY <1>10, BoundsAssumption DEF Restart, QueueBounded, one, NoCheck
  <2>4. check' \in [at : {"none", "fetching"}, from : 0..MaxUID, to : 0..MaxUID]
    BY <1>10, BoundsAssumption DEF Restart, NoCheck
  <2>5. hidden' \subseteq mailbox'
    BY <1>10 DEF Restart, TypeOK
  <2>6. announced' \in [UIDs -> Nat]
    BY <1>10 DEF Restart
  <2>7. lastCount' \in 0..MaxUID /\ lastUID' \in 0..MaxUID /\ synced' \in BOOLEAN
    BY <1>10, <2>1 DEF Restart
  <2>8. retryPending' \in BOOLEAN /\ saver' \in BOOLEAN /\ snapshots' = {}
    BY <1>10 DEF Restart
  <2> QED
    BY <1>10, <2>2, <2>3, <2>4, <2>5, <2>6, <2>7, <2>8 DEF Restart, TypeOK
<1>11. CASE UNCHANGED vars
  BY <1>11 DEF vars, TypeOK, QueueBounded, server, tracking, retries, saving, one
<1> QED
  BY <1>1, <1>2, <1>3, <1>4, <1>5, <1>6, <1>7, <1>8, <1>9, <1>10, <1>11 DEF Next

LEMMA TypeInitially == Init => Typed
<1> SUFFICES ASSUME Init PROVE Typed
  OBVIOUS
<1>1. /\ 0 \in 0..MaxUID /\ 1 \in 1..(MaxUID + 1) /\ 0 \in 0..MaxRetries
      /\ 0 \in 0..(MaxQueued + 2) /\ 0 \in 0..MaxFaults
  BY BoundsAssumption
<1>2. check \in [at : {"none", "fetching"}, from : 0..MaxUID, to : 0..MaxUID]
  BY <1>1 DEF Init, NoCheck
<1>3. saved \in TrackingState
  BY <1>1 DEF Init, TrackingState
<1>4. announced \in [UIDs -> Nat]
  BY DEF Init
<1>5. QueueBounded
  BY BoundsAssumption DEF Init, QueueBounded, NoCheck, one
<1> QED
  BY <1>1, <1>2, <1>3, <1>4, <1>5 DEF Init, Typed, TypeOK

\* Every variable keeps its type: watermarks stay within the UIDs the server
\* gave, and retries and checks stay bounded (idle.go:498-510).
THEOREM TypeCorrect == Spec => []TypeOK
<1>1. Typed => TypeOK
  BY DEF Typed
<1> QED
  BY <1>1, TypeInitially, TypePreserved, PTL DEF Spec

-----------------------------------------------------------------------------
\* What the running process and the saved states know never exceeds what the
\* server has.
Known == /\ \A mark \in watermarks : mark < uidNext
         /\ \A u \in mailbox : u < uidNext

\* A check fetches from the watermark that it read.
CheckCurrent == check.at = "fetching" => check.from = lastUID /\ check.to < uidNext

\* What has been announced is below the watermark.
AnnouncedBelow == \A u \in UIDs : announced[u] = 0 \/ (announced[u] = 1 /\ u <= lastUID)

\* The new messages can all be fetched or none can.
Together == hidden = {} \/ mailbox \ hidden \subseteq Upto(lastUID)

\* The inductive invariant of the announcements.
Announcing == Typed /\ Known /\ CheckCurrent /\ AnnouncedBelow

\* What a fetch finds: nothing, or everything in the mailbox between the watermarks
\* that can be fetched.
wanted == {u \in mailbox \ hidden : lastUID < u /\ u <= check.to}

LEMMA Found ==
  ASSUME Announcing, Fetch
  PROVE  /\ wanted \subseteq UIDs /\ (finish(wanted) \/ finish({}))
         /\ check.to \in Nat /\ check.to < uidNext /\ check' = NoCheck
  <1>1. check.from = lastUID /\ check.to < uidNext /\ check' = NoCheck
    BY DEF Announcing, CheckCurrent, Fetch
  <1>2. wanted = {u \in mailbox \ hidden : check.from < u /\ u <= check.to}
    BY <1>1 DEF wanted
  <1>3. finish(wanted) \/ finish({})
    BY <1>2 DEF Fetch
  <1>4. wanted \subseteq UIDs /\ check.to \in Nat
    BY BoundsAssumption DEF wanted, Announcing, Typed, TypeOK
  <1> QED
    BY <1>1, <1>3, <1>4

\* The watermark only rises, unless the process restarts.
LEMMA WatermarkRises ==
  ASSUME Announcing, [Next]_vars, ~Restart
  PROVE  lastUID' \in Nat /\ lastUID <= lastUID'
<1> USE DEF Announcing, Typed
<1>1. lastUID \in Nat
  BY BoundsAssumption DEF TypeOK
<1>2. CASE Select
  <2>1. lastUID <= Highest /\ Highest \in Nat
    BY <1>1, HighestType, BoundsAssumption DEF TypeOK, Known, watermarks, Highest
  <2>2. lastUID' \in {lastUID, Highest}
    BY <1>2 DEF Select, decide
  <2> QED
    BY <1>1, <2>1, <2>2
<1>3. CASE Fetch
  <2>1. lastUID' = lastUID \/ (lastUID' = check.to /\ wanted # {})
    BY <1>3, Found DEF finish
  <2>2. wanted # {} => lastUID <= check.to
    BY <1>1, <1>3, Found DEF wanted, UIDs
  <2> QED
    BY <1>1, <1>3, <2>1, <2>2, Found
<1>4. CASE UNCHANGED lastUID
  BY <1>1, <1>4
<1> QED
  BY <1>2, <1>3, <1>4 DEF Next, Server, Deliver, Appear, Expunge, RequestCheck, RetryFires,
     CheckFails, MarkInitialSyncComplete, Snapshot, Write, tracking, vars

LEMMA AnnouncingPreserved == Announcing /\ [Next]_vars => Announcing'
<1> SUFFICES ASSUME Announcing, [Next]_vars PROVE Announcing'
  OBVIOUS
<1>1. Typed' /\ Typed /\ TypeOK /\ TypeOK'
  BY TypePreserved DEF Announcing, Typed
<1>2. \A u \in UIDs : u \in Nat
  BY DEF UIDs
<1>3. lastUID \in Nat /\ lastUID' \in Nat /\ uidNext \in Nat /\ uidNext' \in Nat
  BY <1>1, BoundsAssumption DEF TypeOK
<1>4. Known'
  <2>1. uidNext <= uidNext'
    BY <1>3 DEF Next, vars, server, Server, Deliver, Appear, Expunge, RequestCheck, RetryFires,
       CheckFails, Select, decide, Fetch, MarkInitialSyncComplete, Snapshot, Write, Restart
  <2>2. \A u \in mailbox' : u < uidNext'
    <3>1. CASE Deliver
      BY <1>1, <1>2, <1>3, <3>1 DEF Deliver, Announcing, Known, TypeOK
    <3>2. CASE mailbox' \subseteq mailbox
      BY <1>1, <1>2, <1>3, <2>1, <3>2 DEF Announcing, Known, TypeOK
    <3> QED
      BY <3>1, <3>2 DEF Next, vars, server, Server, Appear, Expunge, RequestCheck, RetryFires,
         CheckFails, Select, decide, Fetch, MarkInitialSyncComplete, Snapshot, Write, Restart
  <2>3. \A mark \in watermarks : mark \in Nat /\ mark < uidNext'
    BY <1>1, <1>3, <2>1, BoundsAssumption DEF Announcing, Known, watermarks, TypeOK, TrackingState
  <2>4. lastUID' < uidNext'
    <3>1. lastUID \in watermarks /\ saved.uid \in watermarks
      BY DEF watermarks
    <3>2. CASE Select
      BY <1>3, <2>3, <3>1, <3>2 DEF Select, decide, server, Highest
    <3>3. CASE Fetch
      <4>1. lastUID' = lastUID \/ lastUID' = check.to
        BY <3>3, Found DEF finish
      <4>2. uidNext' = uidNext
        BY <3>3 DEF Fetch, server
      <4> QED
        BY <2>3, <3>1, <3>3, <4>1, <4>2, Found
    <3>4. CASE Restart
      BY <2>3, <3>1, <3>4 DEF Restart
    <3>5. CASE UNCHANGED lastUID
      BY <2>3, <3>1, <3>5
    <3> QED
      BY <3>2, <3>3, <3>4, <3>5 DEF Next, Server, Deliver, Appear, Expunge, RequestCheck,
         RetryFires, CheckFails, MarkInitialSyncComplete, Snapshot, Write, tracking, vars
  <2>5. watermarks' \subseteq watermarks \cup {lastUID'}
    <3>1. CASE Snapshot
      BY <3>1 DEF Snapshot, watermarks, tracking
    <3>2. CASE Write
      BY <3>2 DEF Write, watermarks, tracking
    <3>3. CASE Restart
      BY <3>3 DEF Restart, watermarks
    <3>4. CASE UNCHANGED <<snapshots, saved>>
      BY <3>4 DEF watermarks
    <3> QED
      BY <3>1, <3>2, <3>3, <3>4 DEF Next, Server, Deliver, Appear, Expunge, RequestCheck,
         RetryFires, CheckFails, Select, decide, Fetch, MarkInitialSyncComplete, saving, vars
  <2> QED
    BY <2>2, <2>3, <2>4, <2>5 DEF Known
<1>5. CheckCurrent'
  <2>1. CASE Select
    <3>1. check'.at = "fetching" => /\ lastUID' = lastUID
                                    /\ check' = [at |-> "fetching", from |-> lastUID, to |-> Highest]
      BY <2>1 DEF Select, decide, NoCheck
    <3> QED
      BY <1>3, <2>1, <3>1 DEF CheckCurrent, Highest, Select, decide, server
  <2>2. CASE Fetch \/ Restart
    BY <2>2 DEF Fetch, Restart, CheckCurrent, NoCheck
  <2>3. CASE UNCHANGED <<lastUID, check>> /\ uidNext' \in {uidNext, uidNext + 1}
    BY <1>1, <1>3, <2>3, BoundsAssumption DEF Announcing, CheckCurrent, TypeOK
  <2> QED
    BY <2>1, <2>2, <2>3 DEF Next, Server, Deliver, Appear, Expunge, RequestCheck, server,
       RetryFires, CheckFails, MarkInitialSyncComplete, Snapshot, Write, tracking, vars
<1>6. AnnouncedBelow'
  <2>1. CASE Fetch
    <3>1. CASE finish(wanted) /\ wanted # {}
      <4>1. lastUID' = check.to
        BY <3>1 DEF finish
      <4>2. \A u \in UIDs : announced'[u] = announced[u] \/ (u \in wanted /\ announced'[u] = announced[u] + 1)
        BY <3>1 DEF finish, firstOf
      <4>3. \A u \in wanted : announced[u] = 0 /\ u <= lastUID'
        BY <1>2, <1>3, <2>1, <4>1, Found DEF wanted, Announcing, AnnouncedBelow
      <4>4. lastUID <= lastUID'
        BY <1>2, <1>3, <2>1, <3>1, <4>1, Found DEF wanted
      <4> QED
        BY <1>2, <1>3, <4>2, <4>3, <4>4 DEF Announcing, AnnouncedBelow
    <3>2. CASE finish({}) \/ wanted = {}
      <4>1. announced' = announced /\ lastUID' = lastUID
        BY <2>1, <3>2, Found DEF finish
      <4> QED
        BY <4>1 DEF Announcing, AnnouncedBelow
    <3> QED
      BY <2>1, <3>1, <3>2, Found
  <2>2. CASE Restart
    BY <2>2 DEF Restart, AnnouncedBelow
  <2>3. CASE UNCHANGED announced /\ ~Restart
    BY <1>2, <1>3, <2>3, WatermarkRises DEF Announcing, AnnouncedBelow
  <2> QED
    BY <2>1, <2>2, <2>3 DEF Next, Server, Deliver, Appear, Expunge, RequestCheck, RetryFires,
       CheckFails, Select, decide, MarkInitialSyncComplete, Snapshot, Write, vars
<1> QED
  BY <1>1, <1>4, <1>5, <1>6 DEF Announcing

LEMMA AnnouncingInitially == Init => Announcing
  BY TypeInitially DEF Init, Announcing, Known, watermarks, CheckCurrent, NoCheck, AnnouncedBelow

\* No message is announced twice by one process (idle.go:435-474), however checks,
\* retries, deliveries and saves meet.
THEOREM AnnouncesOnce == Spec => []AnnouncedOnce
<1>1. Announcing => AnnouncedOnce
  BY DEF Announcing, AnnouncedBelow, AnnouncedOnce
<1> QED
  BY <1>1, AnnouncingInitially, AnnouncingPreserved, PTL DEF Spec

-----------------------------------------------------------------------------
\* The inductive invariant of the watermarks.
Skipping == Announcing /\ Together /\ NothingSkipped

\* The messages stay together: those that have appeared are below the watermark, or
\* nothing is hidden.
LEMMA TogetherPreserved ==
  ASSUME ~Partial, Skipping, [Next]_vars
  PROVE  Together'
<1>1. TypeOK /\ TypeOK' /\ Announcing
  BY TypePreserved DEF Skipping, Announcing, Typed
<1>2. /\ lastUID \in Nat /\ lastUID' \in Nat
      /\ \A u \in UIDs : u \in Nat
  BY <1>1, BoundsAssumption DEF TypeOK, UIDs
<1>3. CASE Deliver
  BY <1>1, <1>3 DEF Deliver, Together, Skipping, tracking, Upto, TypeOK
<1>4. CASE Appear
  BY <1>4 DEF Appear, Together
<1>5. CASE Restart
  BY <1>5 DEF Restart, Together
<1>6. CASE mailbox' \ hidden' \subseteq mailbox \ hidden /\ hidden' \subseteq hidden /\ ~Restart
  <2>1. lastUID <= lastUID'
    BY <1>1, <1>6, WatermarkRises
  <2> QED
    BY <1>1, <1>2, <1>6, <2>1 DEF Skipping, Together, Upto, TypeOK
<1>7. CASE Expunge
  BY <1>1, <1>7 DEF Expunge, Skipping, Together, tracking, Upto, TypeOK
<1> QED
  BY <1>3, <1>4, <1>5, <1>6, <1>7 DEF Next, vars, server, Server, RequestCheck, RetryFires,
     CheckFails, Select, decide, Fetch, MarkInitialSyncComplete, Snapshot, Write

LEMMA SkippingPreserved ==
  ASSUME ~Partial
  PROVE  Skipping /\ [Next]_vars => Skipping'
<1> SUFFICES ASSUME Skipping, [Next]_vars PROVE Skipping'
  OBVIOUS
<1>1. Announcing /\ Announcing' /\ Together' /\ TypeOK
  BY AnnouncingPreserved, TogetherPreserved DEF Skipping, Announcing, Typed
<1>2. /\ \A u \in UIDs : u \in Nat
      /\ \A mark \in watermarks : mark \in Nat
      /\ lastUID \in watermarks /\ mailbox \subseteq UIDs
  BY <1>1, BoundsAssumption DEF TypeOK, UIDs, watermarks, TrackingState
\* Marks other than the current one were marks before, and settled messages
\* stay settled.
<1>3. ASSUME mailbox' \subseteq mailbox, settled \subseteq settled',
             watermarks' \subseteq watermarks \cup {lastUID'},
             \A u \in mailbox : u <= lastUID' => u \in settled'
      PROVE  NothingSkipped'
  BY <1>3 DEF NothingSkipped, Skipping
<1>4. ASSUME Select PROVE NothingSkipped'
  <2>1. /\ mailbox' = mailbox /\ settled \subseteq settled'
        /\ watermarks' \subseteq watermarks \cup {lastUID'}
    BY <1>4 DEF Select, decide, server, watermarks
  <2>2. \/ lastUID' = lastUID
        \/ Upto(Highest) \subseteq settled' /\ lastUID' = Highest
        \/ lastUID' = Highest /\ ~(Highest > lastUID)
    BY <1>4 DEF Select, decide
  <2>3. Highest \in Nat
    BY <1>1, HighestType, BoundsAssumption
  <2>4. \A u \in mailbox : u <= lastUID' => u \in settled'
    BY <1>2, <2>1, <2>2, <2>3 DEF Skipping, NothingSkipped, Upto
  <2> QED
    BY <1>3, <2>1, <2>4
<1>5. ASSUME Fetch PROVE NothingSkipped'
  <2>1. /\ mailbox' = mailbox /\ settled \subseteq settled'
        /\ watermarks' \subseteq watermarks \cup {lastUID'}
    BY <1>1, <1>5, Found DEF Fetch, finish, server, watermarks
  <2>2. CASE finish(wanted) /\ wanted # {}
    <3>1. PICK u \in wanted : u \in mailbox \ hidden /\ lastUID < u
      BY <2>2 DEF wanted
    <3>2. hidden = {}
      BY <1>2, <3>1 DEF Skipping, Together, Upto
    <3>3. lastUID' = check.to /\ settled' = settled \cup wanted
      BY <2>2 DEF finish
    <3>4. \A w \in mailbox : w <= lastUID' => w \in settled'
      <4> SUFFICES ASSUME NEW w \in mailbox, w <= lastUID' PROVE w \in settled'
        OBVIOUS
      <4>1. CASE lastUID < w
        BY <3>2, <3>3, <4>1 DEF wanted
      <4>2. CASE w <= lastUID
        BY <1>2, <3>3, <4>2 DEF Skipping, NothingSkipped
      <4> QED
        BY <1>2, <4>1, <4>2
    <3> QED
      BY <1>3, <2>1, <3>4
  <2>3. CASE finish({}) \/ wanted = {}
    <3>1. lastUID' = lastUID
      BY <1>1, <1>5, <2>3, Found DEF finish
    <3> QED
      BY <1>2, <1>3, <2>1, <3>1 DEF Skipping, NothingSkipped
  <2> QED
    BY <1>1, <1>5, <2>2, <2>3, Found
<1>6. ASSUME Deliver PROVE NothingSkipped'
  <2>1. watermarks' = watermarks
    BY <1>6 DEF Deliver, watermarks, tracking, saving
  <2>2. \A mark \in watermarks : mark < uidNext
    BY <1>1 DEF Announcing, Known
  <2> QED
    BY <1>1, <1>2, <1>6, <2>1, <2>2, BoundsAssumption DEF Deliver, Skipping, NothingSkipped, TypeOK
<1>7. ASSUME Restart PROVE NothingSkipped'
  <2>1. mailbox' = mailbox /\ settled' = settled /\ watermarks' \subseteq watermarks
    BY <1>7 DEF Restart, watermarks
  <2> QED
    BY <2>1 DEF Skipping, NothingSkipped
<1>8. ASSUME Snapshot \/ Write PROVE NothingSkipped'
  <2>1. mailbox' = mailbox /\ settled' = settled
    BY <1>8 DEF Snapshot, Write, server
  <2>2. watermarks' \subseteq watermarks
    <3>1. CASE Snapshot
      BY <3>1 DEF Snapshot, watermarks, tracking
    <3>2. CASE Write
      BY <3>2 DEF Write, watermarks, tracking
    <3> QED
      BY <1>8, <3>1, <3>2
  <2> QED
    BY <2>1, <2>2 DEF Skipping, NothingSkipped
<1>9. ASSUME mailbox' \subseteq mailbox, settled' = settled, UNCHANGED <<lastUID, saved, snapshots>>
      PROVE  NothingSkipped'
  BY <1>9 DEF Skipping, NothingSkipped, watermarks
<1>10. NothingSkipped'
  BY <1>4, <1>5, <1>6, <1>7, <1>8, <1>9 DEF Next, vars, server, tracking, saving, Server, Appear,
     Expunge, RequestCheck, RetryFires, CheckFails, MarkInitialSyncComplete
<1> QED
  BY <1>1, <1>10 DEF Skipping

\* If new messages can be fetched together, no watermark, in the process, on its
\* way to the cache or in it, is ever ahead of a message that was neither found
\* nor there before the first sync (idle.go:435-483, 588-666).
THEOREM SkipsNothing == ~Partial /\ Spec => []NothingSkipped
<1>1. Init => Skipping
  BY AnnouncingInitially DEF Init, Skipping, Together, NothingSkipped
<1>2. ASSUME ~Partial PROVE Skipping /\ [Next]_vars => Skipping'
  BY <1>2, SkippingPreserved
<1>3. Skipping => NothingSkipped
  BY DEF Skipping
<1>4. CASE Partial
  BY <1>4
<1>5. CASE ~Partial
  BY <1>1, <1>2, <1>3, <1>5, PTL DEF Spec
<1> QED
  BY <1>4, <1>5
=============================================================================
