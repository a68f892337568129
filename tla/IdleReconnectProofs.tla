-------------------------- MODULE IdleReconnectProofs --------------------------
(***************************************************************************)
(* Proofs about IdleReconnect, for any number of goroutines, monitors and  *)
(* folders and any bounds: type correctness, OneAttempt, FlagIsOwned,      *)
(* ConnectedHasClients and NeverWedged.                                    *)
(***************************************************************************)
EXTENDS IdleReconnect, TLAPS

\* Each command of an attempt is in one place, the queue or the event loop, and
\* the attempt it belongs to waits for the reply to just this command.
CommandsOwned ==
  /\ \A i \in DOMAIN commandCh : commandCh[i].from # None =>
       \/ commandCh[i].type = "reconnect" /\ attempt[commandCh[i].from].at = "waiting"
       \/ commandCh[i].type = "startIDLE" /\ attempt[commandCh[i].from].at = "waitingIDLE"
  /\ loop.from # None =>
       \/ loop.at \in {"closing", "connecting"} /\ attempt[loop.from].at = "waiting"
       \/ loop.at = "selecting" /\ attempt[loop.from].at = "waitingIDLE"
  /\ \A i, j \in DOMAIN commandCh :
       commandCh[i].from # None /\ commandCh[i].from = commandCh[j].from => i = j
  /\ \A i \in DOMAIN commandCh : loop.from # None => commandCh[i].from # loop.from

\* Once connected again, the state is Reconnecting only when the event loop has
\* begun another reconnection.
ConnectedStage ==
  \A a \in Attempts : attempt[a].at \in {"queuingIDLE", "waitingIDLE"} =>
    state # "reconnecting" \/ loop.at = "closing"

IInv == /\ TypeOK /\ OneAttempt /\ FlagIsOwned /\ ConnectedHasClients
        /\ CommandsOwned /\ ConnectedStage /\ NeverWedged

-----------------------------------------------------------------------------
(* What queuing, taking and cancelling do to commandCh.                     *)

\* The commands the actors send are commands.
LEMMA CommandType ==
  ASSUME NEW type \in {"connect", "disconnect", "reconnect", "startIDLE", "stopIDLE", "health",
                       "cancelled"},
         NEW folder \in Folders \cup {None}, NEW from \in Attempts \cup {None}
  PROVE  /\ command(type, folder, from) \in Command
         /\ command(type, folder, from).type = type
         /\ command(type, folder, from).from = from
BY DEF command, Command

\* A queued command is the last one, the others keep their place.
LEMMA QueueFacts ==
  ASSUME commandCh \in Seq(Command), NEW cmd \in Command, Queue(cmd)
  PROVE  /\ commandCh' \in Seq(Command) /\ Len(commandCh') <= QueueCap
         /\ DOMAIN commandCh = 1 .. Len(commandCh) /\ Len(commandCh) \in Nat
         /\ DOMAIN commandCh' = 1 .. Len(commandCh) + 1
         /\ \A i \in 1 .. Len(commandCh) : commandCh'[i] = commandCh[i]
         /\ commandCh'[Len(commandCh) + 1] = cmd
BY BoundsAssumption DEF Queue

\* The event loop takes the first command, the others move up.
LEMMA TakeFacts ==
  ASSUME commandCh \in Seq(Command), Len(commandCh) <= QueueCap, NEW type, Take(type)
  PROVE  /\ commandCh' \in Seq(Command) /\ Len(commandCh') <= QueueCap
         /\ Head(commandCh) = commandCh[1] /\ commandCh[1] \in Command
         /\ commandCh[1].type = type
         /\ DOMAIN commandCh = 1 .. Len(commandCh) /\ Len(commandCh) \in Nat \ {0}
         /\ DOMAIN commandCh' = 1 .. Len(commandCh) - 1
         /\ \A i \in 1 .. Len(commandCh) - 1 : commandCh'[i] = commandCh[i + 1]
         /\ loop.at = "select"
BY BoundsAssumption DEF Take

\* Cancelling keeps every command in its place.
LEMMA CancelFacts ==
  ASSUME TypeOK, NEW a \in Attempts, Cancel(a)
  PROVE  /\ commandCh' \in Seq(Command) /\ Len(commandCh') <= QueueCap
         /\ DOMAIN commandCh' = DOMAIN commandCh
         /\ \A i \in DOMAIN commandCh :
              commandCh'[i] = IF commandCh[i].from = a THEN command("cancelled", None, None)
                              ELSE commandCh[i]
         /\ loop' \in LoopStates
         /\ loop'.at = loop.at
         /\ loop'.from = IF loop.from = a THEN None ELSE loop.from
<1>1. command("cancelled", None, None) \in Command
  BY CommandType
<1>2. /\ commandCh \in Seq(Command) /\ Len(commandCh) <= QueueCap
      /\ DOMAIN commandCh = 1 .. Len(commandCh) /\ Len(commandCh) \in Nat
      /\ \A i \in DOMAIN commandCh : commandCh[i] \in Command
  BY DEF TypeOK
<1>3. /\ DOMAIN commandCh' = DOMAIN commandCh
      /\ \A i \in DOMAIN commandCh :
           commandCh'[i] = IF commandCh[i].from = a THEN command("cancelled", None, None)
                           ELSE commandCh[i]
  BY DEF Cancel
<1>4. \A i \in DOMAIN commandCh : commandCh'[i] \in Command
  BY <1>1, <1>2, <1>3
<1>5. commandCh' \in Seq(Command) /\ Len(commandCh') = Len(commandCh)
  <2>1. commandCh' \in [1 .. Len(commandCh) -> Command]
    BY <1>2, <1>3, <1>4 DEF Cancel
  <2>2. QED BY <1>2, <2>1
<1>6. /\ loop' \in LoopStates
      /\ loop'.at = loop.at
      /\ loop'.from = IF loop.from = a THEN None ELSE loop.from
  BY DEF Cancel, TypeOK, LoopStates
<1>7. QED BY <1>2, <1>3, <1>5, <1>6

-----------------------------------------------------------------------------
(* Type correctness.                                                        *)

\* The states of goroutines, monitors and event loop that actions build.
LEMMA LocalStates ==
  /\ Free \in AttemptStates /\ Retry \in AttemptStates
  /\ NoMonitor \in MonitorStates /\ Select \in LoopStates
  /\ \A at \in {"free", "spawned", "timer"} \cup InProgress, folder \in Folders \cup {None} :
       [at |-> at, folder |-> folder] \in AttemptStates
  /\ \A folder \in Folders \cup {None}, at \in {"none", "idling", "restarting"}, live \in BOOLEAN :
       [at |-> at, folder |-> folder, live |-> live] \in MonitorStates
  /\ \A at \in {"select", "closing", "connecting", "selecting"}, from \in Attempts \cup {None},
        folder \in Folders \cup {None} :
       [at |-> at, from |-> from, folder |-> folder] \in LoopStates
BY DEF Free, Retry, NoMonitor, Select, AttemptStates, MonitorStates, LoopStates

\* Moving an attempt on keeps its type.
LEMMA MoveType ==
  ASSUME TypeOK, NEW a \in Attempts, NEW at \in {"free", "spawned", "timer"} \cup InProgress
  PROVE  [attempt EXCEPT ![a].at = at] \in [Attempts -> AttemptStates]
BY DEF TypeOK, AttemptStates

\* The worker starts in a state of the right type.
LEMMA InitTypeOK == Init => TypeOK
<1> SUFFICES ASSUME Init PROVE TypeOK
  OBVIOUS
<1> USE FoldersAssumption, BoundsAssumption DEF Init
<1>1. commandCh \in Seq(Command) /\ Len(commandCh) <= QueueCap
  <2>1. commandCh = <<>> /\ Len(<<>>) = 0 /\ <<>> \in Seq(Command)
    OBVIOUS
  <2>2. QED BY <2>1
<1>2. requests \in 0..MaxRequests /\ faults \in 0..MaxFaults
  OBVIOUS
<1>3. attempt \in [Attempts -> AttemptStates]
  BY LocalStates
<1>4. /\ monitor \in [Monitors -> MonitorStates]
      /\ loop \in LoopStates
  BY LocalStates
<1>5. QED BY <1>1, <1>2, <1>3, <1>4 DEF TypeOK, States, Clients

\* Spawning changes attempts within their type.
LEMMA SpawnType ==
  ASSUME TypeOK, Spawn
  PROVE  attempt' \in [Attempts -> AttemptStates]
<1>1. CASE UNCHANGED attempt
  BY <1>1 DEF TypeOK
<1>2. ASSUME NEW a \in Attempts, attempt' = [attempt EXCEPT ![a].at = "spawned"]
      PROVE  attempt' \in [Attempts -> AttemptStates]
  BY <1>2, MoveType
<1>3. QED BY <1>1, <1>2 DEF Spawn

\* So does the end of an attempt.
LEMMA EndType ==
  ASSUME NEW from \in Attempts \cup {None},
         NEW attempts \in [Attempts -> AttemptStates]
  PROVE  endOf(from, attempts) \in [Attempts -> AttemptStates]
BY LocalStates DEF endOf

\* So does cutting monitors off.
LEMMA CutType ==
  TypeOK => Cut(monitor) \in [Monitors -> MonitorStates]
<1> SUFFICES ASSUME TypeOK, NEW m \in Monitors
             PROVE  [at |-> monitor[m].at, folder |-> monitor[m].folder, live |-> FALSE]
                      \in MonitorStates
  BY DEF Cut
<1>1. monitor[m].at \in {"none", "idling", "restarting"} /\ monitor[m].folder \in Folders \cup {None}
  BY DEF TypeOK, MonitorStates
<1>2. QED BY <1>1, LocalStates

\* Every step keeps the types.
LEMMA StepTypeOK == TypeOK /\ [Next]_vars => TypeOK'
<1> SUFFICES ASSUME TypeOK, [Next]_vars PROVE TypeOK'
  OBVIOUS
<1> USE FoldersAssumption, BoundsAssumption
<1>1. CASE Request
  <2>1. PICK type \in {"connect", "disconnect", "reconnect", "stopIDLE", "startIDLE"},
             folder \in Folders \cup {None} : Queue(command(type, folder, None))
    BY <1>1 DEF Request
  <2>2. commandCh' \in Seq(Command) /\ Len(commandCh') <= QueueCap
    BY <2>1, CommandType, QueueFacts DEF TypeOK
  <2>3. QED BY <1>1, <2>2 DEF Request, TypeOK, connection, idle
<1>2. CASE HealthTick
  <2>1. commandCh' \in Seq(Command) /\ Len(commandCh') <= QueueCap
    BY <1>2, CommandType, QueueFacts DEF HealthTick, TypeOK
  <2>2. QED BY <1>2, <2>1 DEF HealthTick, TypeOK, connection, idle, budget
<1>3. CASE DropCommandConn
  BY <1>3 DEF DropCommandConn, Fault, TypeOK, idle, Clients
<1>4. CASE DropIdleConn
  BY <1>4, CutType DEF DropIdleConn, Fault, TypeOK, idle, Clients
<1>5. CASE refuseCancelled
  BY <1>5, TakeFacts DEF refuseCancelled, TypeOK, connection, idle, budget
<1>6. CASE handleConnect
  BY <1>6, TakeFacts, LocalStates DEF handleConnect, TypeOK, idle, budget, States
<1>7. CASE handleDisconnect
  BY <1>7, TakeFacts, CutType DEF handleDisconnect, TypeOK, connection, idle, budget, States, Clients
<1>8. CASE handleReconnect
  <2>1. Head(commandCh).from \in Attempts \cup {None}
    BY <1>8, TakeFacts DEF handleReconnect, TypeOK, Command
  <2>2. QED BY <1>8, <2>1, TakeFacts, CutType, LocalStates
            DEF handleReconnect, TypeOK, idle, budget, States, Clients
<1>9. CASE handleStartIDLE
  <2>1. /\ Head(commandCh).from \in Attempts \cup {None}
        /\ Head(commandCh).folder \in Folders \cup {None}
    BY <1>9, TakeFacts DEF handleStartIDLE, TypeOK, Command
  <2>2. commandCh' \in Seq(Command) /\ Len(commandCh') <= QueueCap
    BY <1>9, TakeFacts DEF handleStartIDLE, TypeOK
  <2>3. attempt' \in [Attempts -> AttemptStates] /\ reconnecting' \in BOOLEAN
    BY <1>9, <2>1, EndType DEF handleStartIDLE, TypeOK
  <2>4. /\ idleActive' \in BOOLEAN /\ idleFolder' \in Folders \cup {None}
        /\ loop' \in LoopStates
    <3>1. \/ UNCHANGED idle /\ UNCHANGED loop
          \/ /\ idleActive' = FALSE
             /\ idleFolder' = IF idleActive THEN None ELSE idleFolder
             /\ loop' = [at |-> "selecting", from |-> Head(commandCh).from,
                         folder |-> Head(commandCh).folder]
      BY <1>9 DEF handleStartIDLE
    <3>2. QED BY <2>1, <3>1, LocalStates DEF TypeOK, idle
  <2>5. QED BY <1>9, <2>2, <2>3, <2>4 DEF handleStartIDLE, TypeOK, connection, budget
<1>10. CASE handleStopIDLE
  BY <1>10, TakeFacts DEF handleStopIDLE, TypeOK, connection, idle, budget
<1>11. CASE handleHealthCheck
  BY <1>11, TakeFacts, SpawnType DEF handleHealthCheck, TypeOK, connection, idle, budget
<1>12. CASE ReconnectDials
  BY <1>12 DEF ReconnectDials, TypeOK, budget, States, LoopStates
<1>13. CASE ConnectSucceeds
  <2>1. ASSUME loop.from # None PROVE attempt' \in [Attempts -> AttemptStates]
    <3>1. loop.from \in Attempts /\ folderToMonitor(loop.from) \in Folders \cup {None}
      BY <2>1 DEF TypeOK, LoopStates, AttemptStates, folderToMonitor
    <3>2. [at |-> "queuingIDLE", folder |-> folderToMonitor(loop.from)] \in AttemptStates
      BY <3>1, LocalStates DEF InProgress
    <3>3. QED BY <1>13, <2>1, <3>1, <3>2 DEF ConnectSucceeds, TypeOK
  <2>2. QED BY <1>13, <2>1, LocalStates DEF ConnectSucceeds, TypeOK, idle, budget, States, Clients
<1>14. CASE ConnectFails
  <2>1. attempt' \in [Attempts -> AttemptStates]
    BY <1>14, LocalStates DEF ConnectFails, TypeOK
  <2>2. QED BY <1>14, <2>1, LocalStates DEF ConnectFails, Fault, TypeOK, idle, States
<1>15. CASE IDLEStarts
  <2>1. /\ loop.folder \in Folders \cup {None} /\ loop.from \in Attempts \cup {None}
        /\ FreeMonitors \subseteq Monitors
    BY DEF TypeOK, FreeMonitors, LoopStates
  <2>2. monitor' \in [Monitors -> MonitorStates]
    BY <1>15, <2>1, LocalStates DEF IDLEStarts, TypeOK
  <2>3. QED BY <1>15, <2>1, <2>2, EndType, LocalStates DEF IDLEStarts, TypeOK, connection, budget
<1>16. CASE IDLERefused
  <2>1. loop.from \in Attempts \cup {None}
    BY DEF TypeOK, LoopStates
  <2>2. attempt' \in [Attempts -> AttemptStates]
    <3>1. CASE attempt' = endOf(loop.from, attempt)
      BY <2>1, <3>1, EndType DEF TypeOK
    <3>2. ASSUME NEW a \in Attempts,
                 attempt' = endOf(loop.from, [attempt EXCEPT ![a].at = "spawned"])
          PROVE  attempt' \in [Attempts -> AttemptStates]
      <4>1. [attempt EXCEPT ![a].at = "spawned"] \in [Attempts -> AttemptStates]
        BY MoveType
      <4>2. QED BY <2>1, <3>2, <4>1, EndType
    <3>3. QED BY <1>16, <3>1, <3>2 DEF IDLERefused
  <2>3. faults' \in 0..MaxFaults /\ reconnecting' \in BOOLEAN /\ loop' \in LoopStates
    <3>1. faults' \in 0..MaxFaults
      BY <1>16 DEF IDLERefused, Fault, TypeOK
    <3>2. reconnecting' \in BOOLEAN /\ loop' \in LoopStates
      BY <1>16, LocalStates DEF IDLERefused, TypeOK
    <3>3. QED BY <3>1, <3>2
  <2>4. QED BY <1>16, <2>2, <2>3 DEF IDLERefused, TypeOK, connection, idle
<1>17. ASSUME NEW a \in Attempts, AttemptStep(a) PROVE TypeOK'
  <2>1. CASE Begin(a)
    <3>1. [at |-> "announcing", folder |-> IF idleActive THEN idleFolder ELSE None] \in AttemptStates
      BY LocalStates DEF TypeOK, InProgress
    <3>2. attempt' \in [Attempts -> AttemptStates] /\ reconnecting' \in BOOLEAN
      BY <2>1, <3>1, LocalStates DEF Begin, TypeOK
    <3>3. QED BY <2>1, <3>2 DEF Begin, TypeOK, connection, idle, budget
  <2>2. CASE Announce(a)
    BY <2>2, MoveType DEF Announce, TypeOK, idle, budget, InProgress, States
  <2>3. CASE QueueReconnect(a)
    <3>1. commandCh' \in Seq(Command) /\ Len(commandCh') <= QueueCap
      BY <2>3, CommandType, QueueFacts DEF QueueReconnect, TypeOK
    <3>2. QED BY <2>3, <3>1, MoveType DEF QueueReconnect, TypeOK, connection, idle, budget, InProgress
  <2>4. CASE TimeoutReconnect(a)
    <3>1. attempt' \in [Attempts -> AttemptStates]
      BY <2>4, LocalStates DEF TimeoutReconnect, TypeOK
    <3>2. commandCh' \in Seq(Command) /\ Len(commandCh') <= QueueCap /\ loop' \in LoopStates
      BY <2>4, CancelFacts DEF TimeoutReconnect
    <3>3. faults' \in 0..MaxFaults
      BY <2>4 DEF TimeoutReconnect, Fault, TypeOK
    <3>4. reconnecting' \in BOOLEAN
      BY <2>4 DEF TimeoutReconnect
    <3>5. QED BY <2>4, <3>1, <3>2, <3>3, <3>4 DEF TimeoutReconnect, TypeOK, connection, idle
  <2>5. CASE QueueStartIDLE(a)
    <3>1. attempt[a].folder \in Folders \cup {None}
      BY DEF TypeOK, AttemptStates
    <3>2. commandCh' \in Seq(Command) /\ Len(commandCh') <= QueueCap
      BY <2>5, <3>1, CommandType, QueueFacts DEF QueueStartIDLE, TypeOK
    <3>3. QED BY <2>5, <3>2, MoveType DEF QueueStartIDLE, TypeOK, connection, idle, budget, InProgress
  <2>6. CASE TimeoutStartIDLE(a)
    <3>1. attempt' \in [Attempts -> AttemptStates]
      BY <2>6, LocalStates DEF TimeoutStartIDLE, TypeOK
    <3>2. commandCh' \in Seq(Command) /\ Len(commandCh') <= QueueCap /\ loop' \in LoopStates
      BY <2>6, CancelFacts DEF TimeoutStartIDLE
    <3>3. faults' \in 0..MaxFaults
      BY <2>6 DEF TimeoutStartIDLE, Fault, TypeOK
    <3>4. reconnecting' \in BOOLEAN
      BY <2>6 DEF TimeoutStartIDLE
    <3>5. QED BY <2>6, <3>1, <3>2, <3>3, <3>4 DEF TimeoutStartIDLE, TypeOK, connection, idle
  <2>7. CASE TimerFires(a)
    BY <2>7, MoveType DEF TimerFires, TypeOK, connection, idle, budget
  <2>8. QED BY <1>17, <2>1, <2>2, <2>3, <2>4, <2>5, <2>6, <2>7 DEF AttemptStep
<1>18. ASSUME NEW m \in Monitors, MonitorStep(m) PROVE TypeOK'
  <2>1. monitor[m] \in MonitorStates /\ monitor[m].folder \in Folders \cup {None}
    BY DEF TypeOK, MonitorStates
  <2>2. /\ [monitor EXCEPT ![m] = NoMonitor] \in [Monitors -> MonitorStates]
        /\ [monitor EXCEPT ![m].at = "restarting"] \in [Monitors -> MonitorStates]
        /\ [monitor EXCEPT ![m] = [at |-> "idling", folder |-> monitor[m].folder, live |-> TRUE]]
             \in [Monitors -> MonitorStates]
    BY <2>1, LocalStates DEF TypeOK, MonitorStates
  <2>3. CASE MonitorEnds(m)
    <3>1. monitor' \in [Monitors -> MonitorStates] /\ attempt' \in [Attempts -> AttemptStates]
      BY <2>2, <2>3, SpawnType DEF MonitorEnds, TypeOK
    <3>2. QED BY <2>3, <3>1 DEF MonitorEnds, TypeOK, connection, idle, budget
  <2>4. CASE MonitorRestarts(m)
    <3>1. /\ monitor' \in [Monitors -> MonitorStates] /\ attempt' \in [Attempts -> AttemptStates]
          /\ idleActive' \in BOOLEAN /\ idleFolder' \in Folders \cup {None}
      BY <2>1, <2>2, <2>4, SpawnType DEF MonitorRestarts, TypeOK, idle
    <3>2. QED BY <2>4, <3>1 DEF MonitorRestarts, TypeOK, connection, budget
  <2>5. QED BY <1>18, <2>3, <2>4 DEF MonitorStep
<1>19. CASE UNCHANGED vars
  BY <1>19 DEF vars, TypeOK, connection, idle, budget
<1>20. QED
  BY <1>1, <1>2, <1>3, <1>4, <1>5, <1>6, <1>7, <1>8, <1>9, <1>10, <1>11, <1>12, <1>13, <1>14,
     <1>15, <1>16, <1>17, <1>18, <1>19 DEF Next, Process, Dial, StartIDLE

\* Type correctness of the worker's connection and IDLE state.
THEOREM TypeCorrect == Spec => []TypeOK
BY InitTypeOK, StepTypeOK, PTL DEF Spec

-----------------------------------------------------------------------------
(* The conjuncts of IInv that several actions disturb in the same way.      *)

\* A queued command is nobody's or an attempt's.
LEMMA QueuedType ==
  TypeOK => \A i \in DOMAIN commandCh : commandCh[i].from \in Attempts \cup {None}
<1> SUFFICES ASSUME TypeOK PROVE \A i \in DOMAIN commandCh : commandCh[i].from \in Attempts \cup {None}
  OBVIOUS
<1>1. DOMAIN commandCh = 1 .. Len(commandCh) /\ \A i \in 1 .. Len(commandCh) : commandCh[i] \in Command
  BY DEF TypeOK
<1>2. QED BY <1>1 DEF Command

Waits(a) == attempt[a].at \in {"waiting", "waitingIDLE"}

\* Queuing keeps commands owned if no waiting attempt moves and the command, if
\* it is an attempt's, is the one this attempt begins to wait for.
LEMMA OwnedQueue ==
  ASSUME TypeOK, CommandsOwned, NEW cmd \in Command, Queue(cmd), UNCHANGED loop,
         \A a \in Attempts : Waits(a) => attempt'[a].at = attempt[a].at,
         \/ cmd.from = None
         \/ /\ cmd.from \in Attempts /\ ~Waits(cmd.from)
            /\ \/ cmd.type = "reconnect" /\ attempt'[cmd.from].at = "waiting"
               \/ cmd.type = "startIDLE" /\ attempt'[cmd.from].at = "waitingIDLE"
  PROVE  CommandsOwned'
<1> DEFINE n == Len(commandCh)
<1>1. /\ DOMAIN commandCh = 1 .. n /\ n \in Nat /\ DOMAIN commandCh' = 1 .. n + 1
      /\ \A i \in 1 .. n : commandCh'[i] = commandCh[i]
      /\ commandCh'[n + 1] = cmd
      /\ \A i \in 1 .. n : commandCh[i] \in Command
  BY QueueFacts DEF TypeOK
<1>2. \A i \in 1 .. n : commandCh[i].from \in Attempts \cup {None}
  BY <1>1 DEF Command
<1>3. loop.from \in Attempts \cup {None}
  BY DEF TypeOK, LoopStates
<1>4. \A i \in 1 .. n : commandCh[i].from # None => Waits(commandCh[i].from)
  BY <1>1 DEF CommandsOwned, Waits
<1>5. loop.from # None => Waits(loop.from)
  BY DEF CommandsOwned, Waits
<1>6. \A i \in 1 .. n + 1 : i \in 1 .. n \/ i = n + 1
  BY <1>1
<1> HIDE DEF n
<1>7. ASSUME NEW i \in 1 .. n + 1, commandCh'[i].from # None
      PROVE  \/ commandCh'[i].type = "reconnect" /\ attempt'[commandCh'[i].from].at = "waiting"
             \/ commandCh'[i].type = "startIDLE" /\ attempt'[commandCh'[i].from].at = "waitingIDLE"
  <2>1. CASE i = n + 1
    BY <1>1, <1>7, <2>1
  <2>2. CASE i \in 1 .. n
    BY <1>1, <1>2, <1>4, <1>7, <2>2 DEF CommandsOwned
  <2>3. QED BY <1>6, <2>1, <2>2
<1>8. loop'.from # None =>
       \/ loop'.at \in {"closing", "connecting"} /\ attempt'[loop'.from].at = "waiting"
       \/ loop'.at = "selecting" /\ attempt'[loop'.from].at = "waitingIDLE"
  BY <1>3, <1>5 DEF CommandsOwned
<1>9. ASSUME NEW i \in 1 .. n + 1, NEW j \in 1 .. n + 1,
             commandCh'[i].from # None, commandCh'[i].from = commandCh'[j].from
      PROVE  i = j
  <2>1. CASE i \in 1 .. n /\ j \in 1 .. n
    BY <1>1, <1>9, <2>1 DEF CommandsOwned
  <2>2. CASE i = n + 1 /\ j \in 1 .. n
    BY <1>1, <1>4, <1>9, <2>2
  <2>3. CASE i \in 1 .. n /\ j = n + 1
    BY <1>1, <1>4, <1>9, <2>3
  <2>4. QED BY <1>6, <2>1, <2>2, <2>3
<1>10. ASSUME NEW i \in 1 .. n + 1, loop'.from # None PROVE commandCh'[i].from # loop'.from
  <2>1. CASE i \in 1 .. n
    BY <1>1, <1>10, <2>1 DEF CommandsOwned
  <2>2. CASE i = n + 1
    BY <1>1, <1>5, <1>10, <2>2
  <2>3. QED BY <1>6, <2>1, <2>2
<1>11. QED BY <1>1, <1>7, <1>8, <1>9, <1>10 DEF CommandsOwned

\* So does taking a command, if no other waiting attempt moves and the event loop
\* works for the owner of this command or for nobody.
LEMMA OwnedTake ==
  ASSUME TypeOK, CommandsOwned, NEW type, Take(type),
         \A a \in Attempts : Waits(a) /\ a # Head(commandCh).from => attempt'[a].at = attempt[a].at,
         \/ loop'.from = None
         \/ /\ loop'.from = Head(commandCh).from
            /\ \/ loop'.at = "closing" /\ attempt'[loop'.from].at = "waiting"
               \/ loop'.at = "selecting" /\ attempt'[loop'.from].at = "waitingIDLE"
  PROVE  CommandsOwned'
<1> DEFINE n == Len(commandCh)
<1>1. /\ DOMAIN commandCh = 1 .. n /\ n \in Nat \ {0} /\ DOMAIN commandCh' = 1 .. n - 1
      /\ \A i \in 1 .. n - 1 : commandCh'[i] = commandCh[i + 1]
      /\ Head(commandCh) = commandCh[1]
      /\ \A i \in 1 .. n : commandCh[i] \in Command
  BY TakeFacts DEF TypeOK
<1>2. \A i \in 1 .. n : commandCh[i].from \in Attempts \cup {None}
  BY <1>1 DEF Command
<1>3. \A i \in 1 .. n : commandCh[i].from # None => Waits(commandCh[i].from)
  BY <1>1 DEF CommandsOwned, Waits
<1>4. \A i \in 1 .. n - 1 : i + 1 \in 1 .. n /\ i + 1 # 1
  BY <1>1
<1>5. 1 \in 1 .. n
  BY <1>1
<1>6. \A i \in 1 .. n - 1 : commandCh'[i].from # None => commandCh'[i].from # Head(commandCh).from
  BY <1>1, <1>4, <1>5 DEF CommandsOwned
<1> HIDE DEF n
<1>7. ASSUME NEW i \in 1 .. n - 1, commandCh'[i].from # None
      PROVE  \/ commandCh'[i].type = "reconnect" /\ attempt'[commandCh'[i].from].at = "waiting"
             \/ commandCh'[i].type = "startIDLE" /\ attempt'[commandCh'[i].from].at = "waitingIDLE"
  <2>1. PICK k \in 1 .. n : commandCh'[i] = commandCh[k]
    BY <1>1, <1>4
  <2>2. attempt'[commandCh[k].from].at = attempt[commandCh[k].from].at
    BY <1>2, <1>3, <1>6, <1>7, <2>1
  <2>3. QED BY <1>1, <1>7, <2>1, <2>2 DEF CommandsOwned
<1>8. ASSUME NEW i \in 1 .. n - 1, NEW j \in 1 .. n - 1,
             commandCh'[i].from # None, commandCh'[i].from = commandCh'[j].from
      PROVE  i = j
  <2>1. i + 1 = j + 1
    BY <1>1, <1>4, <1>8 DEF CommandsOwned
  <2>2. QED BY <1>1, <2>1
<1>9. QED BY <1>1, <1>6, <1>7, <1>8 DEF CommandsOwned

\* So does any step that leaves commandCh alone, if no waiting attempt moves but
\* the one the event loop works for, and the loop leaves that one when it moves.
LEMMA OwnedKeep ==
  ASSUME TypeOK, CommandsOwned, UNCHANGED commandCh,
         \A a \in Attempts : Waits(a) /\ a # loop.from => attempt'[a].at = attempt[a].at,
         \/ loop'.from = None
         \/ /\ loop'.from = loop.from /\ attempt'[loop.from].at = attempt[loop.from].at
            /\ \/ loop'.at = loop.at
               \/ loop.at = "closing" /\ loop'.at = "connecting"
  PROVE  CommandsOwned'
<1>1. \A i \in DOMAIN commandCh : commandCh[i].from \in Attempts \cup {None}
  BY QueuedType
<1>2. \A i \in DOMAIN commandCh : commandCh[i].from # None => Waits(commandCh[i].from)
  BY DEF CommandsOwned, Waits
<1>3. \A i \in DOMAIN commandCh : commandCh[i].from # None =>
        attempt'[commandCh[i].from].at = attempt[commandCh[i].from].at
  <2>1. \A i \in DOMAIN commandCh : commandCh[i].from # None => commandCh[i].from # loop.from
    BY DEF CommandsOwned
  <2>2. QED BY <1>1, <1>2, <2>1
<1>4. QED BY <1>3 DEF CommandsOwned

\* So does cancelling the commands of an attempt that moves alone.
LEMMA OwnedCancel ==
  ASSUME TypeOK, CommandsOwned, NEW a \in Attempts, Cancel(a),
         \A b \in Attempts : b # a => attempt'[b] = attempt[b]
  PROVE  CommandsOwned'
<1>1. /\ DOMAIN commandCh' = DOMAIN commandCh
      /\ \A i \in DOMAIN commandCh :
           commandCh'[i] = IF commandCh[i].from = a THEN command("cancelled", None, None)
                           ELSE commandCh[i]
      /\ loop'.at = loop.at
      /\ loop'.from = IF loop.from = a THEN None ELSE loop.from
  BY CancelFacts
<1>2. command("cancelled", None, None).from = None
  BY CommandType
<1>3. \A i \in DOMAIN commandCh : commandCh[i].from \in Attempts \cup {None}
  BY QueuedType
<1>4. loop.from \in Attempts \cup {None}
  BY DEF TypeOK, LoopStates
<1>5. \A i \in DOMAIN commandCh' : commandCh'[i].from # None =>
        commandCh'[i] = commandCh[i] /\ commandCh[i].from # a
  BY <1>1, <1>2
<1>6. loop'.from # None => loop'.from = loop.from /\ loop.from # a
  BY <1>1
<1>7. QED BY <1>1, <1>3, <1>4, <1>5, <1>6 DEF CommandsOwned

\* The flag follows an attempt from its beginning to its end: a step that neither
\* begins nor ends one leaves the flag alone.
LEMMA FlagKeep ==
  ASSUME OneAttempt, FlagIsOwned, UNCHANGED reconnecting,
         \A a \in Attempts : attempt'[a].at \in InProgress <=> attempt[a].at \in InProgress
  PROVE  OneAttempt' /\ FlagIsOwned'
BY DEF OneAttempt, FlagIsOwned

\* And a step that ends an attempt clears it.
LEMMA FlagClear ==
  ASSUME OneAttempt, NEW a \in Attempts, attempt[a].at \in InProgress, reconnecting' = FALSE,
         attempt'[a].at \notin InProgress,
         \A b \in Attempts : b # a /\ attempt'[b].at \in InProgress => attempt[b].at \in InProgress
  PROVE  OneAttempt' /\ FlagIsOwned'
BY DEF OneAttempt, FlagIsOwned

-----------------------------------------------------------------------------
(* The invariant.                                                           *)

Tracking == OneAttempt /\ FlagIsOwned /\ CommandsOwned /\ ConnectedStage /\ NeverWedged

\* The invariant holds before anything has happened.
LEMMA InitIInv == Init => IInv
<1> SUFFICES ASSUME Init PROVE IInv
  OBVIOUS
<1>1. TypeOK
  BY InitTypeOK
<1>2. OneAttempt /\ FlagIsOwned /\ ConnectedStage /\ NeverWedged /\ ConnectedHasClients
  BY DEF Init, Free, OneAttempt, FlagIsOwned, ConnectedStage, NeverWedged, ConnectedHasClients,
         InProgress
<1>3. CommandsOwned
  BY DEF Init, Select, CommandsOwned
<1>4. QED BY <1>1, <1>2, <1>3 DEF IInv

\* No step reaches Connected without both clients.
LEMMA StepClients == TypeOK /\ ConnectedHasClients /\ [Next]_vars => ConnectedHasClients'
BY DEF ConnectedHasClients, Next, Request, HealthTick, DropCommandConn, DropIdleConn, Process,
       refuseCancelled, handleConnect, handleDisconnect, handleReconnect, handleStartIDLE,
       handleStopIDLE, handleHealthCheck, Dial, ReconnectDials, ConnectSucceeds, ConnectFails,
       StartIDLE, IDLEStarts, IDLERefused, AttemptStep, Begin, Announce, QueueReconnect,
       TimeoutReconnect, QueueStartIDLE, TimeoutStartIDLE, TimerFires, MonitorStep, MonitorEnds,
       MonitorRestarts, vars, connection

\* A step that neither moves an attempt nor works for one only has to keep
\* commands owned and the state explained.
LEMMA QuietStep ==
  ASSUME Tracking, UNCHANGED <<attempt, reconnecting>>, CommandsOwned',
         state' # "reconnecting" \/ loop'.at = "closing" \/ (state' = state /\ loop'.at = loop.at)
  PROVE  Tracking'
<1>1. OneAttempt' /\ FlagIsOwned'
  BY FlagKeep DEF Tracking
<1>2. ConnectedStage' /\ NeverWedged'
  BY DEF Tracking, ConnectedStage, NeverWedged
<1>3. QED BY <1>1, <1>2 DEF Tracking

\* Starting a reconnection goroutine disturbs none of them.
LEMMA SpawnStep ==
  ASSUME TypeOK, Tracking, Spawn, UNCHANGED <<state, reconnecting, loop>>,
         UNCHANGED commandCh \/ \E type : Take(type)
  PROVE  Tracking'
<1>1. \A a \in Attempts : \/ attempt'[a] = attempt[a]
                          \/ attempt[a].at = "free" /\ attempt'[a].at = "spawned"
  BY DEF Spawn, TypeOK, AttemptStates
<1>2. \A a \in Attempts : Waits(a) => attempt'[a].at = attempt[a].at
  BY <1>1 DEF Waits
<1>3. OneAttempt' /\ FlagIsOwned'
  BY <1>1, FlagKeep DEF Tracking, InProgress
<1>4. CommandsOwned'
  <2>1. ASSUME NEW type, Take(type) PROVE loop'.from = None
    BY <2>1, TakeFacts DEF TypeOK, Tracking, CommandsOwned
  <2>2. ASSUME NEW type, Take(type) PROVE CommandsOwned'
    BY <1>2, <2>1, <2>2, OwnedTake DEF Tracking
  <2>3. ASSUME UNCHANGED commandCh PROVE CommandsOwned'
    <3>1. loop.from # None => loop.from \in Attempts /\ Waits(loop.from)
      BY DEF TypeOK, LoopStates, Tracking, CommandsOwned, Waits
    <3>2. QED BY <1>2, <2>3, <3>1, OwnedKeep DEF Tracking
  <2>4. QED BY <2>2, <2>3
<1>5. ConnectedStage' /\ NeverWedged'
  BY <1>1 DEF Tracking, ConnectedStage, NeverWedged
<1>6. QED BY <1>3, <1>4, <1>5 DEF Tracking

\* What queuing a caller's command or a tick changes.
LEMMA RequestTracking ==
  ASSUME TypeOK, Tracking, Request \/ HealthTick
  PROVE  Tracking'
<1>1. PICK cmd \in Command : cmd.from = None /\ Queue(cmd)
  <2>1. None \in Folders \cup {None} /\ None \in Attempts \cup {None}
    OBVIOUS
  <2>2. QED BY <2>1, CommandType DEF Request, HealthTick
<1>2. UNCHANGED <<attempt, reconnecting, loop, state>>
  BY DEF Request, HealthTick, connection
<1>3. CommandsOwned'
  BY <1>1, <1>2, OwnedQueue DEF Tracking
<1>4. QED BY <1>2, <1>3, QuietStep

\* What a handler changes: taking a command, it works for nobody before.
LEMMA ProcessTracking ==
  ASSUME TypeOK, Tracking, Process
  PROVE  Tracking'
<1>1. \A type : Take(type) =>
        /\ loop.at = "select" /\ loop.from = None
        /\ Head(commandCh).from \in Attempts \cup {None}
        /\ Head(commandCh).type = type
        /\ Head(commandCh).from # None =>
             \/ type = "reconnect" /\ attempt[Head(commandCh).from].at = "waiting"
             \/ type = "startIDLE" /\ attempt[Head(commandCh).from].at = "waitingIDLE"
  <2> SUFFICES ASSUME NEW type, Take(type)
               PROVE  /\ loop.at = "select" /\ loop.from = None
                      /\ Head(commandCh).from \in Attempts \cup {None}
                      /\ Head(commandCh).type = type
                      /\ Head(commandCh).from # None =>
                           \/ type = "reconnect" /\ attempt[Head(commandCh).from].at = "waiting"
                           \/ type = "startIDLE" /\ attempt[Head(commandCh).from].at = "waitingIDLE"
    OBVIOUS
  <2>1. /\ Head(commandCh) = commandCh[1] /\ 1 \in DOMAIN commandCh /\ commandCh[1].type = type
        /\ loop.at = "select"
    BY TakeFacts DEF TypeOK
  <2>2. loop.from = None
    BY <2>1 DEF Tracking, CommandsOwned
  <2>3. QED BY <2>1, <2>2, QueuedType DEF Tracking, CommandsOwned
<1>2. CASE refuseCancelled
  <2>1. CommandsOwned'
    BY <1>1, <1>2, OwnedTake DEF refuseCancelled, Tracking
  <2>2. QED BY <1>2, <2>1, QuietStep DEF refuseCancelled, connection
<1>3. CASE handleConnect
  <2>1. loop'.from = None
    BY <1>1, <1>3 DEF handleConnect
  <2>2. CommandsOwned'
    BY <1>3, <2>1, OwnedTake DEF handleConnect, Tracking
  <2>3. state' # "reconnecting" \/ loop'.at = "closing" \/ (state' = state /\ loop'.at = loop.at)
    BY <1>3 DEF handleConnect
  <2>4. UNCHANGED <<attempt, reconnecting>>
    BY <1>3 DEF handleConnect
  <2>5. QED BY <2>2, <2>3, <2>4, QuietStep
<1>4. CASE handleDisconnect
  <2>1. CommandsOwned'
    BY <1>1, <1>4, OwnedTake DEF handleDisconnect, Tracking
  <2>2. QED BY <1>4, <2>1, QuietStep DEF handleDisconnect, connection
<1>5. CASE handleReconnect
  <2>1. Take("reconnect") /\ loop'.from = Head(commandCh).from /\ loop'.at = "closing"
    BY <1>5 DEF handleReconnect
  <2>2. UNCHANGED <<attempt, reconnecting>>
    BY <1>5 DEF handleReconnect
  <2>3. loop'.from = None \/ attempt'[loop'.from].at = "waiting"
    BY <1>1, <2>1, <2>2
  <2>4. CommandsOwned'
    BY <2>1, <2>2, <2>3, OwnedTake DEF Tracking
  <2>5. state' # "reconnecting" \/ loop'.at = "closing" \/ (state' = state /\ loop'.at = loop.at)
    BY <2>1
  <2>6. QED BY <2>2, <2>4, <2>5, QuietStep
<1>6. CASE handleStartIDLE
  <2> DEFINE from == Head(commandCh).from
  <2>1. Take("startIDLE") /\ UNCHANGED state
    BY <1>6 DEF handleStartIDLE, connection
  <2>2. /\ from \in Attempts \cup {None} /\ loop.at = "select" /\ loop.from = None
        /\ from # None => attempt[from].at = "waitingIDLE"
    BY <1>1, <2>1
  <2>3. CASE /\ attempt' = endOf(from, attempt) /\ reconnecting' = (reconnecting /\ from = None)
             /\ UNCHANGED loop
    <3>1. CASE from = None
      <4>1. UNCHANGED <<attempt, reconnecting>>
        BY <2>3, <3>1 DEF endOf, TypeOK
      <4>2. CommandsOwned'
        BY <2>1, <2>2, <2>3, <4>1, OwnedTake DEF Tracking
      <4>3. QED BY <2>1, <2>3, <4>1, <4>2, QuietStep
    <3>2. CASE from # None
      <4>1. /\ from \in Attempts /\ attempt[from].at = "waitingIDLE" /\ reconnecting' = FALSE
            /\ attempt'[from].at = "free"
            /\ \A b \in Attempts : b # from => attempt'[b] = attempt[b]
        BY <2>2, <2>3, <3>2 DEF endOf, Free, TypeOK
      <4>2. CommandsOwned'
        BY <2>1, <2>2, <2>3, <4>1, OwnedTake DEF Tracking
      <4>3. OneAttempt' /\ FlagIsOwned'
        BY <4>1, FlagClear DEF Tracking, InProgress
      <4>4. ConnectedStage' /\ NeverWedged'
        BY <2>1, <2>2, <2>3, <4>1 DEF Tracking, ConnectedStage, NeverWedged
      <4>5. QED BY <4>2, <4>3, <4>4 DEF Tracking
    <3>3. QED BY <3>1, <3>2
  <2>4. CASE /\ state = "connected" /\ loop'.at = "selecting" /\ loop'.from = from
             /\ UNCHANGED <<attempt, reconnecting>>
    <3>1. CommandsOwned'
      BY <2>1, <2>2, <2>4, OwnedTake DEF Tracking
    <3>2. state' # "reconnecting" \/ loop'.at = "closing" \/ (state' = state /\ loop'.at = loop.at)
      BY <2>1, <2>4
    <3>3. QED BY <2>4, <3>1, <3>2, QuietStep
  <2>5. QED BY <1>6, <2>3, <2>4 DEF handleStartIDLE
<1>7. CASE handleStopIDLE
  <2>1. CommandsOwned'
    BY <1>1, <1>7, OwnedTake DEF handleStopIDLE, Tracking
  <2>2. QED BY <1>7, <2>1, QuietStep DEF handleStopIDLE, connection
<1>8. CASE handleHealthCheck
  <2>1. CASE Spawn
    BY <1>8, <2>1, SpawnStep DEF handleHealthCheck, connection
  <2>2. CASE UNCHANGED attempt
    <3>1. CommandsOwned'
      BY <1>1, <1>8, <2>2, OwnedTake DEF handleHealthCheck, Tracking
    <3>2. QED BY <1>8, <2>2, <3>1, QuietStep DEF handleHealthCheck, connection
  <2>3. QED BY <1>8, <2>1, <2>2 DEF handleHealthCheck
<1>9. QED BY <1>2, <1>3, <1>4, <1>5, <1>6, <1>7, <1>8 DEF Process

\* What dialling changes: its end is the reply to the attempt it works for.
LEMMA DialTracking ==
  ASSUME TypeOK, Tracking, Dial
  PROVE  Tracking'
<1>1. /\ loop.from \in Attempts \cup {None}
      /\ loop.at = "connecting" /\ loop.from # None => attempt[loop.from].at = "waiting"
  BY DEF TypeOK, LoopStates, Tracking, CommandsOwned
<1>2. CASE ReconnectDials
  <2>1. loop.at = "closing" /\ loop'.at = "connecting" /\ loop'.from = loop.from /\ state' = "connecting"
    BY <1>2 DEF ReconnectDials, TypeOK, LoopStates
  <2>2. UNCHANGED <<attempt, reconnecting, commandCh>>
    BY <1>2 DEF ReconnectDials
  <2>3. CommandsOwned'
    BY <2>1, <2>2, OwnedKeep DEF Tracking
  <2>4. state' # "reconnecting"
    BY <2>1
  <2>5. QED BY <2>2, <2>3, <2>4, QuietStep
<1>3. CASE ConnectSucceeds
  <2>1. /\ loop.at = "connecting" /\ state' = "connected" /\ loop'.from = None
        /\ UNCHANGED <<reconnecting, commandCh>>
    BY <1>3 DEF ConnectSucceeds, Select
  <2>2. \A a \in Attempts : a # loop.from => attempt'[a] = attempt[a]
    BY <1>1, <1>3 DEF ConnectSucceeds, TypeOK
  <2>3. loop.from # None => attempt'[loop.from].at = "queuingIDLE"
    BY <1>1, <1>3 DEF ConnectSucceeds, TypeOK
  <2>4. CommandsOwned'
    BY <2>1, <2>2, OwnedKeep DEF Tracking
  <2>5. ASSUME NEW a \in Attempts
        PROVE  attempt'[a].at \in InProgress <=> attempt[a].at \in InProgress
    <3>1. CASE a # loop.from
      BY <2>2, <3>1
    <3>2. CASE a = loop.from
      <4>1. loop.from # None
        BY <3>2, FoldersAssumption
      <4>2. attempt'[a].at = "queuingIDLE" /\ attempt[a].at = "waiting"
        BY <1>1, <2>1, <2>3, <3>2, <4>1
      <4>3. QED BY <4>2 DEF InProgress
    <3>3. QED BY <3>1, <3>2
  <2>6. OneAttempt' /\ FlagIsOwned'
    BY <2>1, <2>5, FlagKeep DEF Tracking
  <2>7. ConnectedStage' /\ NeverWedged'
    BY <2>1 DEF ConnectedStage, NeverWedged
  <2>8. QED BY <2>4, <2>6, <2>7 DEF Tracking
<1>4. CASE ConnectFails
  <2>1. loop.at = "connecting" /\ state' = "failed" /\ loop'.from = None /\ UNCHANGED commandCh
    BY <1>4 DEF ConnectFails, Select
  <2>2. ConnectedStage' /\ NeverWedged'
    BY <2>1 DEF ConnectedStage, NeverWedged
  <2>3. CASE loop.from = None
    <3>1. UNCHANGED <<attempt, reconnecting>>
      BY <1>4, <2>3 DEF ConnectFails, TypeOK
    <3>2. CommandsOwned'
      BY <2>1, <3>1, OwnedKeep DEF Tracking
    <3>3. QED BY <2>2, <3>1, <3>2, FlagKeep DEF Tracking
  <2>4. CASE loop.from # None
    <3>1. /\ loop.from \in Attempts /\ reconnecting' = FALSE
          /\ attempt[loop.from].at = "waiting" /\ attempt'[loop.from].at = "timer"
          /\ \A b \in Attempts : b # loop.from => attempt'[b] = attempt[b]
      BY <1>1, <1>4, <2>1, <2>4 DEF ConnectFails, Retry, TypeOK
    <3>2. CommandsOwned'
      BY <2>1, <3>1, OwnedKeep DEF Tracking
    <3>3. OneAttempt' /\ FlagIsOwned'
      BY <3>1, FlagClear DEF Tracking, InProgress
    <3>4. QED BY <2>2, <3>2, <3>3 DEF Tracking
  <2>5. QED BY <2>3, <2>4
<1>5. QED BY <1>2, <1>3, <1>4 DEF Dial

\* What the rest of handleStartIDLE changes: its end is the reply that ends the
\* attempt behind it, after another one may have been spawned.
LEMMA StartIDLETracking ==
  ASSUME TypeOK, Tracking, StartIDLE
  PROVE  Tracking'
<1>1. /\ loop.at = "selecting" /\ loop'.at = "select" /\ loop'.from = None
      /\ UNCHANGED <<state, commandCh>> /\ reconnecting' = (reconnecting /\ loop.from = None)
  BY DEF StartIDLE, IDLEStarts, IDLERefused, Select, connection
<1>2. loop.from \in Attempts \cup {None} /\ (loop.from # None => attempt[loop.from].at = "waitingIDLE")
  BY <1>1 DEF TypeOK, LoopStates, Tracking, CommandsOwned
<1>3. PICK spawned \in [Attempts -> AttemptStates] :
        /\ attempt' = endOf(loop.from, spawned)
        /\ \A a \in Attempts : \/ spawned[a] = attempt[a]
                               \/ attempt[a].at = "free" /\ spawned[a].at = "spawned"
  <2>1. ASSUME attempt' = endOf(loop.from, attempt)
        PROVE  \E spawned \in [Attempts -> AttemptStates] :
                 /\ attempt' = endOf(loop.from, spawned)
                 /\ \A b \in Attempts : \/ spawned[b] = attempt[b]
                                        \/ attempt[b].at = "free" /\ spawned[b].at = "spawned"
    <3>1. attempt \in [Attempts -> AttemptStates]
      BY DEF TypeOK
    <3>2. \A b \in Attempts : \/ attempt[b] = attempt[b]
                              \/ attempt[b].at = "free" /\ attempt[b].at = "spawned"
      OBVIOUS
    <3>3. WITNESS attempt \in [Attempts -> AttemptStates]
    <3>4. QED BY <2>1, <3>2
  <2>2. ASSUME NEW a \in Attempts, attempt[a].at = "free",
               attempt' = endOf(loop.from, [attempt EXCEPT ![a].at = "spawned"])
        PROVE  \E spawned \in [Attempts -> AttemptStates] :
                 /\ attempt' = endOf(loop.from, spawned)
                 /\ \A b \in Attempts : \/ spawned[b] = attempt[b]
                                        \/ attempt[b].at = "free" /\ spawned[b].at = "spawned"
    <3> DEFINE spawned == [attempt EXCEPT ![a].at = "spawned"]
    <3>1. spawned \in [Attempts -> AttemptStates]
      BY MoveType
    <3>2. \A b \in Attempts : \/ spawned[b] = attempt[b]
                              \/ attempt[b].at = "free" /\ spawned[b].at = "spawned"
      <4>1. attempt \in [Attempts -> AttemptStates] /\ attempt[a] \in AttemptStates
        BY DEF TypeOK
      <4>2. spawned[a].at = "spawned" /\ \A b \in Attempts : b # a => spawned[b] = attempt[b]
        BY <4>1 DEF AttemptStates
      <4> HIDE DEF spawned
      <4>3. TAKE b \in Attempts
      <4>4. CASE b = a
        BY <2>2, <4>2, <4>4
      <4>5. CASE b # a
        BY <4>2, <4>5
      <4>6. QED BY <4>4, <4>5
    <3>3. attempt' = endOf(loop.from, spawned)
      BY <2>2
    <3> HIDE DEF spawned
    <3>4. QED BY <3>1, <3>2, <3>3
  <2>3. QED BY <2>1, <2>2 DEF StartIDLE, IDLEStarts, IDLERefused
<1>4. CASE loop.from = None
  <2>1. attempt' = spawned /\ UNCHANGED reconnecting
    BY <1>1, <1>3, <1>4 DEF endOf, TypeOK
  <2>2. CommandsOwned'
    BY <1>1, <1>3, <2>1, OwnedKeep DEF Tracking, Waits
  <2>3. \A a \in Attempts : attempt'[a].at \in InProgress <=> attempt[a].at \in InProgress
    BY <1>3, <2>1 DEF InProgress
  <2>4. OneAttempt' /\ FlagIsOwned'
    BY <2>1, <2>3, FlagKeep DEF Tracking
  <2>5. ConnectedStage' /\ NeverWedged'
    BY <1>1, <1>3, <2>1 DEF Tracking, ConnectedStage, NeverWedged
  <2>6. QED BY <2>2, <2>4, <2>5 DEF Tracking
<1>5. CASE loop.from # None
  <2>1. /\ loop.from \in Attempts /\ reconnecting' = FALSE
        /\ attempt[loop.from].at = "waitingIDLE" /\ attempt'[loop.from].at = "free"
        /\ \A b \in Attempts : b # loop.from => attempt'[b] = spawned[b]
    BY <1>1, <1>2, <1>3, <1>5 DEF endOf, Free
  <2>2. CommandsOwned'
    BY <1>1, <1>3, <2>1, OwnedKeep DEF Tracking, Waits
  <2>3. OneAttempt' /\ FlagIsOwned'
    BY <1>3, <2>1, FlagClear DEF Tracking, InProgress
  <2>4. ConnectedStage' /\ NeverWedged'
    BY <1>1, <1>3, <2>1 DEF Tracking, ConnectedStage, NeverWedged
  <2>5. QED BY <2>2, <2>3, <2>4 DEF Tracking
<1>6. QED BY <1>4, <1>5

\* What a reconnection goroutine changes on its way.
LEMMA AttemptTracking ==
  ASSUME TypeOK, Tracking, NEW a \in Attempts, AttemptStep(a)
  PROVE  Tracking'
<1>1. loop.from \in Attempts \cup {None} /\ (loop.from # None => Waits(loop.from))
  BY DEF TypeOK, LoopStates, Tracking, CommandsOwned, Waits
<1>2. CASE Begin(a)
  <2>1. /\ attempt[a].at = "spawned" /\ UNCHANGED <<state, loop, commandCh>>
        /\ \A b \in Attempts : b # a => attempt'[b] = attempt[b]
    BY <1>2 DEF Begin, TypeOK, connection
  <2>2. CommandsOwned'
    BY <1>1, <2>1, OwnedKeep DEF Tracking, Waits
  <2>3. CASE reconnecting
    <3>1. attempt'[a].at = "free" /\ UNCHANGED reconnecting
      BY <1>2, <2>3 DEF Begin, Free, TypeOK
    <3>2. OneAttempt' /\ FlagIsOwned'
      BY <2>1, <3>1, FlagKeep DEF Tracking, InProgress
    <3>3. PICK b \in Attempts : attempt[b].at \in InProgress
      BY <2>3 DEF Tracking, FlagIsOwned
    <3>4. ConnectedStage' /\ NeverWedged'
      BY <2>1, <3>1, <3>3 DEF Tracking, ConnectedStage, NeverWedged, InProgress
    <3>5. QED BY <2>2, <3>2, <3>4 DEF Tracking
  <2>4. CASE ~reconnecting
    <3>1. attempt'[a].at = "announcing" /\ reconnecting' = TRUE
      BY <1>2, <2>4 DEF Begin, TypeOK
    <3>2. \A b \in Attempts : attempt[b].at \notin InProgress
      BY <2>4 DEF Tracking, OneAttempt
    <3>3. OneAttempt' /\ FlagIsOwned'
      BY <2>1, <3>1, <3>2 DEF OneAttempt, FlagIsOwned, InProgress
    <3>4. ConnectedStage' /\ NeverWedged'
      BY <2>1, <3>1 DEF Tracking, ConnectedStage, NeverWedged
    <3>5. QED BY <2>2, <3>3, <3>4 DEF Tracking
  <2>5. QED BY <2>3, <2>4
<1>3. CASE Announce(a)
  <2>1. /\ attempt[a].at = "announcing" /\ attempt'[a].at = "delaying"
        /\ UNCHANGED <<reconnecting, loop, commandCh>>
        /\ \A b \in Attempts : b # a => attempt'[b] = attempt[b]
    BY <1>3 DEF Announce, TypeOK, AttemptStates
  <2>2. CommandsOwned'
    BY <1>1, <2>1, OwnedKeep DEF Tracking, Waits
  <2>3. OneAttempt' /\ FlagIsOwned'
    BY <2>1, FlagKeep DEF Tracking, InProgress
  <2>4. \A b \in Attempts : b # a => attempt'[b].at \notin InProgress
    BY <2>1 DEF Tracking, OneAttempt, InProgress
  <2>5. ConnectedStage' /\ NeverWedged'
    BY <2>1, <2>4 DEF ConnectedStage, NeverWedged, InProgress
  <2>6. QED BY <2>2, <2>3, <2>5 DEF Tracking
<1>4. CASE QueueReconnect(a)
  <2>1. /\ attempt[a].at = "delaying" /\ attempt'[a].at = "waiting"
        /\ UNCHANGED <<state, reconnecting, loop>>
        /\ \A b \in Attempts : b # a => attempt'[b] = attempt[b]
    BY <1>4 DEF QueueReconnect, TypeOK, AttemptStates, connection
  <2>2. PICK cmd \in Command : Queue(cmd) /\ cmd.type = "reconnect" /\ cmd.from = a
    BY <1>4, CommandType DEF QueueReconnect
  <2>3. CommandsOwned'
    BY <2>1, <2>2, OwnedQueue DEF Tracking, Waits
  <2>4. OneAttempt' /\ FlagIsOwned'
    BY <2>1, FlagKeep DEF Tracking, InProgress
  <2>5. ConnectedStage' /\ NeverWedged'
    BY <2>1 DEF Tracking, ConnectedStage, NeverWedged
  <2>6. QED BY <2>3, <2>4, <2>5 DEF Tracking
<1>5. CASE QueueStartIDLE(a)
  <2>1. /\ attempt[a].at = "queuingIDLE" /\ attempt'[a].at = "waitingIDLE"
        /\ UNCHANGED <<state, reconnecting, loop>>
        /\ \A b \in Attempts : b # a => attempt'[b] = attempt[b]
    BY <1>5 DEF QueueStartIDLE, TypeOK, AttemptStates, connection
  <2>2. PICK cmd \in Command : Queue(cmd) /\ cmd.type = "startIDLE" /\ cmd.from = a
    <3>1. attempt[a].folder \in Folders \cup {None}
      BY DEF TypeOK, AttemptStates
    <3>2. QED BY <1>5, <3>1, CommandType DEF QueueStartIDLE
  <2>3. CommandsOwned'
    BY <2>1, <2>2, OwnedQueue DEF Tracking, Waits
  <2>4. OneAttempt' /\ FlagIsOwned'
    BY <2>1, FlagKeep DEF Tracking, InProgress
  <2>5. ConnectedStage' /\ NeverWedged'
    BY <2>1 DEF Tracking, ConnectedStage, NeverWedged
  <2>6. QED BY <2>3, <2>4, <2>5 DEF Tracking
<1>6. CASE TimeoutReconnect(a) \/ TimeoutStartIDLE(a)
  <2>1. /\ attempt[a].at \in {"waiting", "queuingIDLE", "waitingIDLE"}
        /\ attempt'[a].at = IF attempt[a].at = "waiting" THEN "timer" ELSE "free"
        /\ reconnecting' = FALSE /\ UNCHANGED state /\ Cancel(a)
        /\ \A b \in Attempts : b # a => attempt'[b] = attempt[b]
    BY <1>6 DEF TimeoutReconnect, TimeoutStartIDLE, Free, Retry, TypeOK, connection
  <2>2. CommandsOwned'
    BY <2>1, OwnedCancel DEF Tracking
  <2>3. OneAttempt' /\ FlagIsOwned'
    BY <2>1, FlagClear DEF Tracking, InProgress
  <2>4. loop'.at = loop.at
    BY <2>1, CancelFacts
  <2>5. ConnectedStage' /\ NeverWedged'
    BY <2>1, <2>4 DEF Tracking, ConnectedStage, NeverWedged
  <2>6. QED BY <2>2, <2>3, <2>5 DEF Tracking
<1>7. CASE TimerFires(a)
  <2>1. /\ attempt[a].at = "timer" /\ attempt'[a].at = "spawned"
        /\ UNCHANGED <<state, reconnecting, loop, commandCh>>
        /\ \A b \in Attempts : b # a => attempt'[b] = attempt[b]
    BY <1>7 DEF TimerFires, TypeOK, AttemptStates, connection
  <2>2. CommandsOwned'
    BY <1>1, <2>1, OwnedKeep DEF Tracking, Waits
  <2>3. OneAttempt' /\ FlagIsOwned'
    BY <2>1, FlagKeep DEF Tracking, InProgress
  <2>4. ConnectedStage' /\ NeverWedged'
    BY <2>1 DEF Tracking, ConnectedStage, NeverWedged
  <2>5. QED BY <2>2, <2>3, <2>4 DEF Tracking
<1>8. QED BY <1>2, <1>3, <1>4, <1>5, <1>6, <1>7 DEF AttemptStep

\* A step of the network or of a monitor, or no step, leaves attempts, commands
\* and state alone, or spawns.
LEMMA OtherTracking ==
  ASSUME TypeOK, Tracking,
         \/ DropCommandConn \/ DropIdleConn \/ UNCHANGED vars
         \/ \E m \in Monitors : MonitorStep(m)
  PROVE  Tracking'
<1>1. /\ UNCHANGED <<state, reconnecting, loop, commandCh>>
      /\ UNCHANGED attempt \/ Spawn
  BY DEF DropCommandConn, DropIdleConn, vars, connection, MonitorStep, MonitorEnds, MonitorRestarts
<1>2. CASE Spawn
  BY <1>1, <1>2, SpawnStep
<1>3. CASE UNCHANGED attempt
  <2>1. CommandsOwned'
    BY <1>1, <1>3, OwnedKeep DEF Tracking
  <2>2. QED BY <1>1, <1>3, <2>1, QuietStep
<1>4. QED BY <1>1, <1>2, <1>3

\* Every step keeps the invariant.
LEMMA StepIInv == IInv /\ [Next]_vars => IInv'
<1> SUFFICES ASSUME IInv, [Next]_vars PROVE IInv'
  OBVIOUS
<1>1. TypeOK /\ Tracking /\ ConnectedHasClients
  BY DEF IInv, Tracking
<1>2. TypeOK'
  BY <1>1, StepTypeOK
<1>3. ConnectedHasClients'
  BY <1>1, StepClients
<1>4. Tracking'
  BY <1>1, RequestTracking, ProcessTracking, DialTracking, StartIDLETracking, AttemptTracking,
     OtherTracking DEF Next
<1>5. QED BY <1>2, <1>3, <1>4 DEF IInv, Tracking

\* The reconnection goroutines that errors, health checks and timers start never
\* overlap, the flag that sees to it is never left behind, and a worker that
\* refuses commands because it is reconnecting has somebody at work on that.
THEOREM ReconnectionIsSound ==
  Spec => [](OneAttempt /\ FlagIsOwned /\ ConnectedHasClients /\ NeverWedged)
<1>1. Spec => []IInv
  BY InitIInv, StepIInv, PTL DEF Spec
<1>2. IInv => OneAttempt /\ FlagIsOwned /\ ConnectedHasClients /\ NeverWedged
  BY DEF IInv
<1>3. QED BY <1>1, <1>2, PTL
=============================================================================
