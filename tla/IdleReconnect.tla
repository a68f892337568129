---------------------------- MODULE IdleReconnect ----------------------------
(***************************************************************************)
(* The worker's connection, its reconnection and its IDLE monitoring       *)
(* (worker.go, connection.go, health.go, idle.go in pkg/imap).  Actors:    *)
(* the event loop, which runs one command at a time; goroutines running    *)
(* attemptAutomaticReconnection, or waiting in a timer to run it; IDLE     *)
(* monitors; callers whose commands arrive through commandCh; a server     *)
(* that drops connections, refuses logins and answers late.                *)
(*                                                                         *)
(* A connection error of any command starts a reconnection; the health     *)
(* check stands for them all, being the one that also runs when there is   *)
(* no connection.  Delays are arbitrary, so the back-off does not appear.  *)
(* The worker is not stopped and IDLE is not paused here.                  *)
(***************************************************************************)
EXTENDS Naturals, Sequences

CONSTANTS Attempts,      \* goroutines and timers of automatic reconnection
          Monitors,      \* goroutines in idleMonitorLoop
          Folders, INBOX,
          None,          \* no folder, or no attempt
          QueueCap,      \* capacity of commandCh (100 in the code)
          MaxRequests,   \* bound on the commands of callers
          MaxFaults      \* bound on lost connections, failures and late answers

ASSUME FoldersAssumption == INBOX \in Folders /\ None \notin Folders /\ None \notin Attempts
ASSUME BoundsAssumption == QueueCap \in Nat /\ MaxRequests \in Nat /\ MaxFaults \in Nat

VARIABLES
  state,        \* w.state
  cmdConn,      \* w.commandClient: "nil", "up", or "down" (lost, not noticed yet)
  idleConn,     \* w.idleClient
  idleActive, idleFolder,
  reconnecting, \* w.reconnecting
  attempt,      \* where each reconnection goroutine or timer is; the folder it saved
  monitor,      \* each IDLE monitor, its folder, whether its connection is alive
  commandCh,
  loop,         \* what the event loop is at, and for which attempt or folder
  requests, faults

connection == <<state, cmdConn, idleConn>>
idle == <<idleActive, idleFolder>>
budget == <<requests, faults>>
vars == <<connection, idle, reconnecting, attempt, monitor, commandCh, loop, budget>>

States == {"disconnected", "connecting", "connected", "reconnecting", "failed"}
Clients == {"nil", "up", "down"}
Command == [type : {"connect", "disconnect", "reconnect", "startIDLE", "stopIDLE", "health",
                   "cancelled"},
            folder : Folders \cup {None}, from : Attempts \cup {None}]
InProgress == {"announcing", "delaying", "waiting", "queuingIDLE", "waitingIDLE"}
AttemptStates == [at : {"free", "spawned", "timer"} \cup InProgress, folder : Folders \cup {None}]
MonitorStates == [at : {"none", "idling", "restarting"}, folder : Folders \cup {None},
                  live : BOOLEAN]
LoopStates == [at : {"select", "closing", "connecting", "selecting"},
               from : Attempts \cup {None}, folder : Folders \cup {None}]

TypeOK ==
  /\ state \in States /\ cmdConn \in Clients /\ idleConn \in Clients
  /\ idleActive \in BOOLEAN /\ idleFolder \in Folders \cup {None}
  /\ reconnecting \in BOOLEAN
  /\ attempt \in [Attempts -> AttemptStates]
  /\ monitor \in [Monitors -> MonitorStates]
  /\ commandCh \in Seq(Command) /\ Len(commandCh) <= QueueCap
  /\ loop \in LoopStates
  /\ requests \in 0..MaxRequests /\ faults \in 0..MaxFaults

Free == [at |-> "free", folder |-> None]
Retry == [at |-> "timer", folder |-> None]
NoMonitor == [at |-> "none", folder |-> None, live |-> FALSE]
Select == [at |-> "select", from |-> None, folder |-> None]

Init ==
  /\ state = "disconnected" /\ cmdConn = "nil" /\ idleConn = "nil"
  /\ idleActive = FALSE /\ idleFolder = None
  /\ reconnecting = FALSE
  /\ attempt = [a \in Attempts |-> Free]
  /\ monitor = [m \in Monitors |-> NoMonitor]
  /\ commandCh = <<>> /\ loop = Select
  /\ requests = 0 /\ faults = 0

-----------------------------------------------------------------------------
(* Commands.                                                                *)

command(type, folder, from) == [type |-> type, folder |-> folder, from |-> from]
Queue(cmd) == Len(commandCh) < QueueCap /\ commandCh' = Append(commandCh, cmd)
Fault == faults < MaxFaults /\ faults' = faults + 1

\* go attemptAutomaticReconnection(): the goroutine starts later, or at once
\* and finds a reconnection in progress.
Spawn ==
  \/ \E a \in Attempts : /\ attempt[a].at = "free"
                         /\ attempt' = [attempt EXCEPT ![a].at = "spawned"]
  \/ reconnecting /\ UNCHANGED attempt

\* A caller queues a command through the wrapper.
Request ==
  /\ requests < MaxRequests /\ requests' = requests + 1
  /\ \/ \E type \in {"connect", "disconnect", "reconnect", "stopIDLE"} :
          Queue(command(type, None, None))
     \/ \E folder \in Folders : Queue(command("startIDLE", folder, None))
  /\ UNCHANGED <<connection, idle, reconnecting, attempt, monitor, loop, faults>>

\* Fault: the health check is queued although the queue is full.
HealthTick_NoDefault ==
  /\ loop.at = "select"
  /\ \A i \in DOMAIN commandCh : commandCh[i].type # "health"
  /\ commandCh' = Append(commandCh, command("health", None, None))
  /\ UNCHANGED <<connection, idle, reconnecting, attempt, monitor, loop, budget>>

\* Ticks are far apart: none comes while one is still queued.
HealthTick ==
  /\ loop.at = "select"
  /\ \A i \in DOMAIN commandCh : commandCh[i].type # "health"
  /\ Queue(command("health", None, None))
  /\ UNCHANGED <<connection, idle, reconnecting, attempt, monitor, loop, budget>>

\* A lost connection ends the IDLE commands that use it.
Cut(mons) ==
  [m \in Monitors |-> [at |-> mons[m].at, folder |-> mons[m].folder, live |-> FALSE]]

DropCommandConn ==
  /\ cmdConn = "up" /\ Fault
  /\ cmdConn' = "down"
  /\ UNCHANGED <<state, idleConn, idle, reconnecting, attempt, monitor, commandCh, loop, requests>>

DropIdleConn ==
  /\ idleConn = "up" /\ Fault
  /\ idleConn' = "down"
  /\ monitor' = Cut(monitor)
  /\ UNCHANGED <<state, cmdConn, idle, reconnecting, attempt, commandCh, loop, requests>>

-----------------------------------------------------------------------------
(* The event loop: processCommand and the handlers.                         *)

Take(type) ==
  /\ loop.at = "select" /\ commandCh # <<>> /\ Head(commandCh).type = type
  /\ commandCh' = Tail(commandCh)

\* "command cancelled"
refuseCancelled ==
  /\ Take("cancelled")
  /\ UNCHANGED <<connection, idle, reconnecting, attempt, monitor, loop, budget>>

handleConnect ==
  /\ Take("connect")
  /\ IF cmdConn # "nil" /\ idleConn # "nil"
     THEN UNCHANGED <<state, loop>>       \* "Already connected", whatever the state
     ELSE /\ state' = "connecting"
          /\ loop' = [at |-> "connecting", from |-> None, folder |-> None]
  /\ UNCHANGED <<cmdConn, idleConn, idle, reconnecting, attempt, monitor, budget>>

\* The commands of a connection go with it; stopIDLEInternal comes first.
handleDisconnect ==
  /\ Take("disconnect")
  /\ IF cmdConn = "nil" /\ idleConn = "nil"
     THEN UNCHANGED <<connection, idle, monitor>>
     ELSE /\ state' = "disconnected" /\ cmdConn' = "nil" /\ idleConn' = "nil"
          /\ monitor' = Cut(monitor)
          /\ idleActive' = FALSE
          /\ idleFolder' = IF idleActive THEN None ELSE idleFolder
  /\ UNCHANGED <<reconnecting, attempt, loop, budget>>

handleReconnect ==
  /\ Take("reconnect")
  /\ state' = "reconnecting" /\ cmdConn' = "nil" /\ idleConn' = "nil"
  /\ monitor' = Cut(monitor)
  /\ loop' = [at |-> "closing", from |-> Head(commandCh).from, folder |-> None]
  /\ UNCHANGED <<idle, reconnecting, attempt, budget>>

\* Fault: the state is left as it was while the clients are replaced.
ReconnectDials_KeepsState ==
  /\ loop.at = "closing"
  /\ idleActive' = FALSE
  /\ state' = "connected" /\ loop' = [loop EXCEPT !.at = "connecting"]
  /\ UNCHANGED <<cmdConn, idleConn, idleFolder, reconnecting, attempt, monitor, commandCh, budget>>

\* The rest of handleReconnect: IDLE is marked inactive, its folder is kept.
ReconnectDials ==
  /\ loop.at = "closing"
  /\ idleActive' = FALSE
  /\ state' = "connecting" /\ loop' = [loop EXCEPT !.at = "connecting"]
  /\ UNCHANGED <<cmdConn, idleConn, idleFolder, reconnecting, attempt, monitor, commandCh, budget>>

\* What a successful reconnection does next: IDLE for the folder it saved
\* when it began, for INBOX if there was none.
folderToMonitor(a) == IF attempt[a].folder = None THEN INBOX ELSE attempt[a].folder

ConnectSucceeds ==
  /\ loop.at = "connecting"
  /\ state' = "connected" /\ cmdConn' = "up" /\ idleConn' = "up"
  /\ loop' = Select
  /\ attempt' = IF loop.from = None THEN attempt
                ELSE [attempt EXCEPT ![loop.from] =
                       [at |-> "queuingIDLE", folder |-> folderToMonitor(loop.from)]]
  /\ UNCHANGED <<idle, reconnecting, monitor, commandCh, budget>>

\* A failed automatic reconnection schedules the next one and ends.
ConnectFails ==
  /\ loop.at = "connecting" /\ Fault
  /\ state' = "failed"
  /\ loop' = Select
  /\ attempt' = IF loop.from = None THEN attempt
                ELSE [attempt EXCEPT ![loop.from] = Retry]
  /\ reconnecting' = (reconnecting /\ loop.from = None)
  /\ UNCHANGED <<cmdConn, idleConn, idle, monitor, commandCh, requests>>

\* The reply to an attempt that waits for its StartIDLE ends it, whatever it says.
endOf(from, attempts) ==
  IF from = None THEN attempts ELSE [attempts EXCEPT ![from] = Free]

handleStartIDLE ==
  /\ Take("startIDLE")
  /\ LET cmd == Head(commandCh)
         refused == state # "connected" \/ cmdConn = "nil" \/ idleConn = "nil"
         alreadyActive == idleActive /\ idleFolder = cmd.folder
     IN  IF refused \/ alreadyActive
         THEN /\ attempt' = endOf(cmd.from, attempt)
              /\ reconnecting' = (reconnecting /\ cmd.from = None)
              /\ UNCHANGED <<idle, loop>>
         ELSE /\ idleActive' = FALSE          \* stopIDLEInternal, if it was active
              /\ idleFolder' = IF idleActive THEN None ELSE idleFolder
              /\ loop' = [at |-> "selecting", from |-> cmd.from, folder |-> cmd.folder]
              /\ UNCHANGED <<reconnecting, attempt>>
  /\ UNCHANGED <<connection, monitor, budget>>

\* startIDLEInternal once the folder is selected on the IDLE client.  Bound:
\* when all of Monitors are taken, the new one replaces any of them.
FreeMonitors ==
  LET none == {m \in Monitors : monitor[m].at = "none"}
  IN  IF none # {} THEN none ELSE Monitors

IDLEStarts ==
  /\ loop.at = "selecting" /\ idleConn = "up"
  /\ \E m \in FreeMonitors : monitor' = [monitor EXCEPT ![m] =
                              [at |-> "idling", folder |-> loop.folder, live |-> TRUE]]
  /\ idleActive' = TRUE /\ idleFolder' = loop.folder
  /\ loop' = Select
  /\ attempt' = endOf(loop.from, attempt)
  /\ reconnecting' = (reconnecting /\ loop.from = None)
  /\ UNCHANGED <<connection, commandCh, budget>>

\* The server says NO, or the connection is lost: the second starts a
\* reconnection before the reply that ends the attempt behind the command.
IDLERefused ==
  /\ loop.at = "selecting"
  /\ loop' = Select
  /\ \/ /\ idleConn = "up" /\ Fault
        /\ attempt' = endOf(loop.from, attempt)
        /\ reconnecting' = (reconnecting /\ loop.from = None)
     \/ /\ idleConn # "up" /\ UNCHANGED faults
        /\ \/ /\ reconnecting
              /\ attempt' = endOf(loop.from, attempt)
           \/ \E a \in Attempts :
                /\ attempt[a].at = "free"
                /\ attempt' = endOf(loop.from, [attempt EXCEPT ![a].at = "spawned"])
        /\ reconnecting' = (reconnecting /\ loop.from = None)
  /\ UNCHANGED <<connection, idle, monitor, commandCh, requests>>

handleStopIDLE ==
  /\ Take("stopIDLE")
  /\ IF state = "connected" /\ cmdConn # "nil" /\ idleActive
     THEN idleActive' = FALSE /\ idleFolder' = None
     ELSE UNCHANGED idle
  /\ UNCHANGED <<connection, reconnecting, attempt, monitor, loop, budget>>

\* Fault: only a missing client starts a reconnection, not a failed NOOP.
handleHealthCheck_IgnoresLost ==
  /\ Take("health")
  /\ IF cmdConn # "nil" THEN UNCHANGED attempt ELSE Spawn
  /\ UNCHANGED <<connection, idle, reconnecting, monitor, loop, budget>>

handleHealthCheck ==
  /\ Take("health")
  /\ IF cmdConn = "up" THEN UNCHANGED attempt ELSE Spawn
  /\ UNCHANGED <<connection, idle, reconnecting, monitor, loop, budget>>

-----------------------------------------------------------------------------
(* attemptAutomaticReconnection.                                            *)

\* Fault: the flag is read under the lock but set after it.
Begin_LateFlag(a) ==
  /\ attempt[a].at = "spawned"
  /\ IF reconnecting
     THEN attempt' = [attempt EXCEPT ![a] = Free]
     ELSE attempt' = [attempt EXCEPT ![a] = [at |-> "announcing",
                        folder |-> IF idleActive THEN idleFolder ELSE None]]
  /\ UNCHANGED <<connection, idle, reconnecting, monitor, commandCh, loop, budget>>

Begin(a) ==
  /\ attempt[a].at = "spawned"
  /\ IF reconnecting
     THEN attempt' = [attempt EXCEPT ![a] = Free] /\ UNCHANGED reconnecting
     ELSE /\ attempt' = [attempt EXCEPT ![a] = [at |-> "announcing",
                           folder |-> IF idleActive THEN idleFolder ELSE None]]
          /\ reconnecting' = TRUE
  /\ UNCHANGED <<connection, idle, monitor, commandCh, loop, budget>>

Announce(a) ==
  /\ attempt[a].at = "announcing"
  /\ state' = "reconnecting"
  /\ attempt' = [attempt EXCEPT ![a].at = "delaying"]
  /\ UNCHANGED <<cmdConn, idleConn, idle, reconnecting, monitor, commandCh, loop, budget>>

QueueReconnect(a) ==
  /\ attempt[a].at = "delaying"
  /\ Queue(command("reconnect", None, a))
  /\ attempt' = [attempt EXCEPT ![a].at = "waiting"]
  /\ UNCHANGED <<connection, idle, reconnecting, monitor, loop, budget>>

\* The context of a's command is done: a queued command will be refused, one
\* that is being handled goes on and nobody hears of it.
Cancel(a) ==
  /\ commandCh' = [i \in DOMAIN commandCh |->
                    IF commandCh[i].from = a THEN command("cancelled", None, None)
                    ELSE commandCh[i]]
  /\ loop' = [loop EXCEPT !.from = IF @ = a THEN None ELSE @]

\* Fault: the timeout path returns before the flag is cleared.
TimeoutReconnect_KeepsFlag(a) ==
  /\ attempt[a].at = "waiting" /\ Fault
  /\ attempt' = [attempt EXCEPT ![a] = Retry]
  /\ Cancel(a)
  /\ UNCHANGED <<connection, idle, reconnecting, monitor, requests>>

\* Fault: the timeout path does not schedule the next attempt.
TimeoutReconnect_NoRetry(a) ==
  /\ attempt[a].at = "waiting" /\ Fault
  /\ attempt' = [attempt EXCEPT ![a] = Free]
  /\ reconnecting' = FALSE
  /\ Cancel(a)
  /\ UNCHANGED <<connection, idle, monitor, requests>>

TimeoutReconnect(a) ==
  /\ attempt[a].at = "waiting" /\ Fault
  /\ attempt' = [attempt EXCEPT ![a] = Retry]
  /\ reconnecting' = FALSE
  /\ Cancel(a)
  /\ UNCHANGED <<connection, idle, monitor, requests>>

QueueStartIDLE(a) ==
  /\ attempt[a].at = "queuingIDLE"
  /\ Queue(command("startIDLE", attempt[a].folder, a))
  /\ attempt' = [attempt EXCEPT ![a].at = "waitingIDLE"]
  /\ UNCHANGED <<connection, idle, reconnecting, monitor, loop, budget>>

TimeoutStartIDLE(a) ==
  /\ \/ attempt[a].at = "waitingIDLE"
     \/ attempt[a].at = "queuingIDLE" /\ Len(commandCh) = QueueCap
  /\ Fault
  /\ attempt' = [attempt EXCEPT ![a] = Free]
  /\ reconnecting' = FALSE
  /\ Cancel(a)
  /\ UNCHANGED <<connection, idle, monitor, requests>>

TimerFires(a) ==
  /\ attempt[a].at = "timer"
  /\ attempt' = [attempt EXCEPT ![a].at = "spawned"]
  /\ UNCHANGED <<connection, idle, reconnecting, monitor, commandCh, loop, budget>>

-----------------------------------------------------------------------------
(* idleMonitorLoop.  IDLE ends on a server push, at its timeout, when it is *)
(* cancelled, or when its connection is lost; the test whether to restart   *)
(* and the restart itself are separate steps.                               *)

MonitorEnds(m) ==
  /\ monitor[m].at = "idling"
  /\ \/ /\ idleActive /\ idleFolder = monitor[m].folder
        /\ monitor' = [monitor EXCEPT ![m].at = "restarting"]
        /\ UNCHANGED attempt
     \/ /\ ~(idleActive /\ idleFolder = monitor[m].folder)
        /\ monitor' = [monitor EXCEPT ![m] = NoMonitor]
        /\ UNCHANGED attempt
     \/ /\ ~monitor[m].live          \* a connection error
        /\ monitor' = [monitor EXCEPT ![m] = NoMonitor]
        /\ Spawn
  /\ UNCHANGED <<connection, idle, reconnecting, commandCh, loop, budget>>

\* startIDLEInternal, without a new selection of the folder.
MonitorRestarts(m) ==
  /\ monitor[m].at = "restarting"
  /\ \/ /\ idleConn = "up"
        /\ idleActive' = TRUE /\ idleFolder' = monitor[m].folder
        /\ monitor' = [monitor EXCEPT ![m] =
                        [at |-> "idling", folder |-> monitor[m].folder, live |-> TRUE]]
        /\ UNCHANGED attempt
     \/ /\ idleConn = "nil"          \* not a connection error
        /\ idleActive' = FALSE /\ UNCHANGED idleFolder
        /\ monitor' = [monitor EXCEPT ![m] = NoMonitor]
        /\ UNCHANGED attempt
     \/ /\ idleConn = "down"
        /\ monitor' = [monitor EXCEPT ![m] = NoMonitor]
        /\ Spawn /\ UNCHANGED idle
  /\ UNCHANGED <<connection, reconnecting, commandCh, loop, budget>>

-----------------------------------------------------------------------------
Process == \/ refuseCancelled \/ handleConnect \/ handleDisconnect \/ handleReconnect \/ handleStartIDLE
           \/ handleStopIDLE \/ handleHealthCheck

Dial == ReconnectDials \/ ConnectSucceeds \/ ConnectFails
StartIDLE == IDLEStarts \/ IDLERefused
AttemptStep(a) == \/ Begin(a) \/ Announce(a) \/ QueueReconnect(a) \/ TimeoutReconnect(a)
                  \/ QueueStartIDLE(a) \/ TimeoutStartIDLE(a) \/ TimerFires(a)
MonitorStep(m) == MonitorEnds(m) \/ MonitorRestarts(m)

Next ==
  \/ Request \/ HealthTick \/ DropCommandConn \/ DropIdleConn
  \/ Process \/ Dial \/ StartIDLE
  \/ \E a \in Attempts : AttemptStep(a)
  \/ \E m \in Monitors : MonitorStep(m)

Spec == Init /\ [][Next]_vars

(***************************************************************************)
(* Fairness.  Goroutines that can run do run, timers fire, the health      *)
(* ticker ticks, dialling ends, and an IDLE ends at its timeout at the     *)
(* latest.  Faults are bounded: the network is eventually well-behaved.    *)
(***************************************************************************)
LiveSpec ==
  /\ Spec
  /\ WF_vars(HealthTick) /\ WF_vars(Process) /\ WF_vars(Dial) /\ WF_vars(StartIDLE)
  /\ \A a \in Attempts : /\ WF_vars(Begin(a)) /\ WF_vars(Announce(a)) /\ WF_vars(TimerFires(a))
                         /\ WF_vars(QueueReconnect(a)) /\ WF_vars(QueueStartIDLE(a))
  /\ \A m \in Monitors : WF_vars(MonitorStep(m))

-----------------------------------------------------------------------------
(* Properties.                                                              *)

\* One reconnection at a time: the reconnecting flag keeps the goroutines that
\* errors, health checks and timers start from overlapping (worker.go:633-647).
OneAttempt ==
  \A a \in Attempts : attempt[a].at \in InProgress =>
    /\ reconnecting
    /\ \A b \in Attempts : attempt[b].at \in InProgress => b = a

\* The flag is never left behind: whoever set it is still at work.  A flag
\* nobody owns would end automatic reconnection for good.
FlagIsOwned == reconnecting => \E a \in Attempts : attempt[a].at \in InProgress

\* A worker in state Connected has both clients, although attempts announce
\* themselves and callers disconnect at any time (processCommand trusts it).
ConnectedHasClients ==
  state = "connected" => cmdConn # "nil" /\ idleConn # "nil"

\* A worker in state Reconnecting refuses every command that needs the
\* connection; somebody is always on the way to change that state: the event
\* loop, a goroutine before the reply to its CmdReconnect, or a retry timer.
NeverWedged ==
  state = "reconnecting" =>
    \/ loop.at = "closing"
    \/ \E a \in Attempts :
         attempt[a].at \in {"spawned", "timer", "announcing", "delaying", "waiting"}

\* A lost command connection is noticed and replaced.
Recovers == cmdConn = "down" ~> state = "connected" /\ cmdConn = "up"

\* "Save IDLE state NOW before any other reconnection attempt can clear it"
\* (worker.go:646), so that reconnecting "can restart it" (idle.go:242-243): an
\* attempt that begins while some folder was monitored last, and nobody has
\* stopped that, will monitor this folder again.
RestartsMonitoredFolder ==
  [][\A a \in Attempts :
       attempt[a].at = "spawned" /\ attempt'[a].at = "announcing" /\ idleFolder # None
         => folderToMonitor(a)' = idleFolder]_vars
=============================================================================
