--------------------------- MODULE WorkerCommands ---------------------------
(***************************************************************************)
(* The command pipeline of the IMAP worker (pkg/imap/worker.go): callers   *)
(* block in SendCommand; the event loop takes commands from commandCh one  *)
(* at a time; bulk fetches are handed over to a second loop through        *)
(* fetchCh; every command carries a context with a deadline and a response *)
(* channel of capacity one; Stop and StopFast end both loops.              *)
(*                                                                         *)
(* Each caller sends one command, named by the caller.  Tick is the health *)
(* check the event loop queues for itself and nobody waits for.  Whether a *)
(* handler may run depends on the connection, which IdleReconnect models   *)
(* with the reconnections that a failed reply starts: here the check may   *)
(* go either way.                                                          *)
(***************************************************************************)
EXTENDS Naturals, Sequences

CONSTANTS Callers,      \* goroutines that call SendCommand
          Bulk,         \* the callers whose command is CmdFetchMessages
          Stoppers,     \* goroutines that call Stop or StopFast
          Tick,         \* the health check command
          QueueCap      \* capacity of commandCh and fetchCh (100 in the code)

ASSUME CallersAssumption == Bulk \subseteq Callers /\ Tick \notin Callers
ASSUME QueueCapAssumption == QueueCap \in Nat \ {0}

Commands == Callers \cup {Tick}

VARIABLES
  stopCh,       \* "nil" before Start, then "open", then "closed"
  ctxDone,      \* whether w.ctx has been cancelled
  commandCh,    \* commands queued for the event loop
  fetchCh,      \* bulk fetches queued for the fetch loop
  eventLoop,    \* what the event loop is at, with which command and reply
  fetchLoop,    \* the same for the fetch loop
  caller,       \* where each caller is in SendCommand
  outcome,      \* what SendCommand returned to it
  cancelled,    \* commands whose Context is Done
  respCh,       \* content of each command's ResponseCh
  handled,      \* how many times each command's handler was run
  stopper,      \* where each stopper is in Stop or StopFast
  panicked      \* a channel was closed twice: the process is gone

vars == <<stopCh, ctxDone, commandCh, fetchCh, eventLoop, fetchLoop, caller,
          outcome, cancelled, respCh, handled, stopper, panicked>>

Replies == {"refused", "result"}
Outcomes == {"none", "answered", "refused", "abandoned"}
Idle == [at |-> "select", cmd |-> Tick, reply |-> "refused"]
Exited == [at |-> "exited", cmd |-> Tick, reply |-> "refused"]

EventLoopStates == [at : {"select", "handling", "dispatching", "replying", "exited"},
                    cmd : Commands, reply : Replies]
FetchLoopStates == [at : {"select", "fetching", "replying", "draining",
                          "drainReplying", "exited"},
                    cmd : Commands, reply : Replies]

TypeOK ==
  /\ stopCh \in {"nil", "open", "closed"} /\ ctxDone \in BOOLEAN
  /\ commandCh \in Seq(Commands) /\ Len(commandCh) <= QueueCap
  /\ fetchCh \in Seq(Commands) /\ Len(fetchCh) <= QueueCap
  /\ eventLoop \in EventLoopStates
  /\ fetchLoop \in FetchLoopStates
  /\ caller \in [Callers -> {"idle", "queuing", "waiting", "done"}]
  /\ outcome \in [Callers -> Outcomes]
  /\ cancelled \subseteq Callers
  /\ respCh \in [Callers -> Replies \cup {"empty"}]
  /\ handled \in [Callers -> Nat]
  /\ stopper \in [Stoppers -> {"idle", "closing", "fastCancelling", "cancelling",
                               "fastClosing", "waiting", "returned"}]
  /\ panicked \in BOOLEAN

Init ==
  /\ stopCh = "nil" /\ ctxDone = FALSE
  /\ commandCh = <<>> /\ fetchCh = <<>>
  /\ eventLoop = Exited /\ fetchLoop = Exited
  /\ caller = [c \in Callers |-> "idle"]
  /\ outcome = [c \in Callers |-> "none"]
  /\ cancelled = {}
  /\ respCh = [c \in Callers |-> "empty"]
  /\ handled = [c \in Callers |-> 0]
  /\ stopper = [s \in Stoppers |-> "idle"]
  /\ panicked = FALSE

IsRunning == stopCh = "open"
Room(ch) == Len(ch) < QueueCap

-----------------------------------------------------------------------------
(* Start, and the two ways to stop.  Both test stopCh and close it in       *)
(* separate steps.  Stop waits for both loops; the wait of at most three    *)
(* seconds for background goroutines that follows always ends.              *)

lifecycle == <<stopCh, ctxDone, stopper, panicked>>
pipeline == <<commandCh, fetchCh, eventLoop, fetchLoop, respCh, handled>>
clients == <<caller, outcome, cancelled>>

Start ==
  /\ stopCh = "nil"
  /\ stopCh' = "open"
  /\ eventLoop' = Idle /\ fetchLoop' = Idle
  /\ UNCHANGED <<ctxDone, stopper, panicked, commandCh, fetchCh, respCh, handled, clients>>

BeginStop(s) ==
  /\ stopper[s] = "idle"
  /\ \E next \in {"closing", "fastCancelling"} :
       stopper' = [stopper EXCEPT ![s] = IF IsRunning THEN next ELSE "returned"]
  /\ UNCHANGED <<stopCh, ctxDone, panicked, pipeline, clients>>

\* close(w.stopCh): closing a closed channel panics and ends the process.
CloseStopCh(s) ==
  /\ stopper[s] \in {"closing", "fastClosing"}
  /\ stopCh' = "closed"
  /\ panicked' = (stopCh = "closed")
  /\ stopper' = [stopper EXCEPT ![s] = IF @ = "closing" THEN "cancelling" ELSE "returned"]
  /\ UNCHANGED <<ctxDone, pipeline, clients>>

CancelCtx(s) ==
  /\ stopper[s] \in {"cancelling", "fastCancelling"}
  /\ ctxDone' = TRUE
  /\ stopper' = [stopper EXCEPT ![s] = IF @ = "cancelling" THEN "waiting" ELSE "fastClosing"]
  /\ UNCHANGED <<stopCh, panicked, pipeline, clients>>

WaitForLoops(s) ==
  /\ stopper[s] = "waiting"
  /\ eventLoop.at = "exited" /\ fetchLoop.at = "exited"
  /\ stopper' = [stopper EXCEPT ![s] = "returned"]
  /\ UNCHANGED <<stopCh, ctxDone, panicked, pipeline, clients>>

-----------------------------------------------------------------------------
(* SendCommand, called through sendCommandWithTimeout: the context of the   *)
(* command has a deadline, and is cancelled when the call returns.          *)

\* Fault: the call returns without its deferred cancel().
Return_NoCancel(c, result) ==
  /\ caller' = [caller EXCEPT ![c] = "done"]
  /\ outcome' = [outcome EXCEPT ![c] = result]
  /\ UNCHANGED cancelled

Return(c, result) ==
  /\ caller' = [caller EXCEPT ![c] = "done"]
  /\ outcome' = [outcome EXCEPT ![c] = result]
  /\ cancelled' = cancelled \cup {c}

Call(c) ==
  /\ caller[c] = "idle"
  /\ IF IsRunning
     THEN /\ caller' = [caller EXCEPT ![c] = "queuing"]
          /\ UNCHANGED <<outcome, cancelled>>
     ELSE /\ stopCh # "nil"     \* the wrapper is used only after Start
          /\ Return(c, "refused")
  /\ UNCHANGED <<lifecycle, pipeline>>

Enqueue(c) ==
  /\ caller[c] = "queuing" /\ Room(commandCh)
  /\ commandCh' = Append(commandCh, c)
  /\ caller' = [caller EXCEPT ![c] = "waiting"]
  /\ UNCHANGED <<lifecycle, fetchCh, eventLoop, fetchLoop, respCh, handled,
                 outcome, cancelled>>

\* The select that queues the command also watches both contexts.
GiveUpQueuing(c) ==
  /\ caller[c] = "queuing" /\ (c \in cancelled \/ ctxDone)
  /\ Return(c, "refused")
  /\ UNCHANGED <<lifecycle, pipeline>>

TakeResponse(c) ==
  /\ caller[c] = "waiting" /\ respCh[c] # "empty"
  /\ respCh' = [respCh EXCEPT ![c] = "empty"]
  /\ Return(c, IF respCh[c] = "result" THEN "answered" ELSE "refused")
  /\ UNCHANGED <<lifecycle, commandCh, fetchCh, eventLoop, fetchLoop, handled>>

\* Fault: the wait for the response watches the worker's context only.
GiveUpWaiting_NoDeadline(c) ==
  /\ caller[c] = "waiting" /\ ctxDone
  /\ Return(c, "abandoned")
  /\ UNCHANGED <<lifecycle, pipeline>>

GiveUpWaiting(c) ==
  /\ caller[c] = "waiting" /\ (c \in cancelled \/ ctxDone)
  /\ Return(c, "abandoned")
  /\ UNCHANGED <<lifecycle, pipeline>>

Deadline(c) ==
  /\ caller[c] \in {"queuing", "waiting"} /\ c \notin cancelled
  /\ cancelled' = cancelled \cup {c}
  /\ UNCHANGED <<lifecycle, pipeline, caller, outcome>>

-----------------------------------------------------------------------------
(* The event loop.  Receiving a command and the checks that precede its     *)
(* handler are one step: nothing else reads what they read in between.      *)

replyWith(cmd, reply) == [at |-> "replying", cmd |-> cmd, reply |-> reply]
handle(c) == IF c = Tick THEN handled ELSE [handled EXCEPT ![c] = @ + 1]

Receive ==
  /\ eventLoop.at = "select" /\ commandCh # <<>>
  /\ commandCh' = Tail(commandCh)
  /\ LET cmd == Head(commandCh)
         begin(at) == eventLoop' = [at |-> at, cmd |-> cmd, reply |-> "result"]
     IN  \/ \* "command cancelled", or refused by the connection check
            /\ cmd # Tick
            /\ eventLoop' = replyWith(cmd, "refused")
            /\ UNCHANGED handled
         \/ /\ cmd \notin cancelled /\ cmd \in Bulk
            /\ begin("dispatching")
            /\ UNCHANGED handled
         \/ /\ cmd \notin cancelled /\ cmd \notin Bulk
            /\ begin("handling")
            /\ handled' = handle(cmd)
  /\ UNCHANGED <<lifecycle, fetchCh, fetchLoop, respCh, clients>>

HandlerReturns ==
  /\ eventLoop.at = "handling"
  /\ eventLoop' = replyWith(eventLoop.cmd, "result")
  /\ UNCHANGED <<lifecycle, commandCh, fetchCh, fetchLoop, respCh, handled, clients>>

\* Fault: the loop also replies to a command it has handed over.
Dispatch_RepliesToo ==
  /\ eventLoop.at = "dispatching" /\ Room(fetchCh)
  /\ fetchCh' = Append(fetchCh, eventLoop.cmd)
  /\ eventLoop' = replyWith(eventLoop.cmd, "result")
  /\ UNCHANGED <<lifecycle, commandCh, fetchLoop, respCh, handled, clients>>

\* Fault: fetchCh has no buffer, so the hand-over waits for the fetch loop.
Dispatch_Unbuffered ==
  /\ eventLoop.at = "dispatching" /\ fetchLoop.at = "select" /\ fetchCh = <<>>
  /\ fetchCh' = Append(fetchCh, eventLoop.cmd)
  /\ eventLoop' = Idle
  /\ UNCHANGED <<lifecycle, commandCh, fetchLoop, respCh, handled, clients>>

\* The select that hands a bulk fetch to the fetch loop; the loop replies
\* itself only when the command is not handed over.
Dispatch ==
  /\ eventLoop.at = "dispatching"
  /\ \/ /\ Room(fetchCh)
        /\ fetchCh' = Append(fetchCh, eventLoop.cmd)
        /\ eventLoop' = Idle
     \/ /\ eventLoop.cmd \in cancelled \/ ctxDone
        /\ eventLoop' = replyWith(eventLoop.cmd, "refused")
        /\ UNCHANGED fetchCh
  /\ UNCHANGED <<lifecycle, commandCh, fetchLoop, respCh, handled, clients>>

\* sendResponse: deliver into the buffered channel, or drop the response when
\* the command or the worker is cancelled; otherwise block.
Deliver(cmd, reply) ==
  \/ cmd = Tick /\ UNCHANGED respCh
  \/ /\ cmd # Tick /\ respCh[cmd] = "empty"
     /\ respCh' = [respCh EXCEPT ![cmd] = reply]
  \/ (cmd \in cancelled \/ ctxDone) /\ UNCHANGED respCh

EventReply ==
  /\ eventLoop.at = "replying"
  /\ Deliver(eventLoop.cmd, eventLoop.reply)
  /\ eventLoop' = Idle
  /\ UNCHANGED <<lifecycle, commandCh, fetchCh, fetchLoop, handled, clients>>

\* Fault: the health check is queued although the queue is full.
HealthTick_NoDefault ==
  /\ eventLoop.at = "select"
  /\ commandCh' = Append(commandCh, Tick)
  /\ UNCHANGED <<lifecycle, fetchCh, eventLoop, fetchLoop, respCh, handled, clients>>

HealthTick ==
  /\ eventLoop.at = "select"
  /\ commandCh' = IF Room(commandCh) THEN Append(commandCh, Tick) ELSE commandCh
  /\ UNCHANGED <<lifecycle, fetchCh, eventLoop, fetchLoop, respCh, handled, clients>>

EventExit ==
  /\ eventLoop.at = "select" /\ (stopCh = "closed" \/ ctxDone)
  /\ eventLoop' = Exited
  /\ UNCHANGED <<lifecycle, commandCh, fetchCh, fetchLoop, respCh, handled, clients>>

-----------------------------------------------------------------------------
(* The fetch loop, and the drain it ends with.                              *)

FetchReceive ==
  /\ fetchLoop.at = "select" /\ fetchCh # <<>>
  /\ fetchCh' = Tail(fetchCh)
  /\ fetchLoop' = [at |-> "fetching", cmd |-> Head(fetchCh), reply |-> "result"]
  /\ handled' = handle(Head(fetchCh))
  /\ UNCHANGED <<lifecycle, commandCh, eventLoop, respCh, clients>>

FetchReturns ==
  /\ fetchLoop.at = "fetching"
  /\ fetchLoop' = [fetchLoop EXCEPT !.at = "replying"]
  /\ UNCHANGED <<lifecycle, commandCh, fetchCh, eventLoop, respCh, handled, clients>>

\* The watcher closes the connection once the caller has given up.
FetchAborts == FetchReturns /\ fetchLoop.cmd \in cancelled

FetchReply ==
  /\ fetchLoop.at \in {"replying", "drainReplying"}
  /\ Deliver(fetchLoop.cmd, fetchLoop.reply)
  /\ fetchLoop' = [Idle EXCEPT !.at = IF fetchLoop.at = "replying" THEN "select" ELSE "draining"]
  /\ UNCHANGED <<lifecycle, commandCh, fetchCh, eventLoop, handled, clients>>

FetchStop ==
  /\ fetchLoop.at = "select" /\ (stopCh = "closed" \/ ctxDone)
  /\ fetchLoop' = [Idle EXCEPT !.at = "draining"]
  /\ UNCHANGED <<lifecycle, commandCh, fetchCh, eventLoop, respCh, handled, clients>>

\* Fault: the drain answers what it never fetched.
Drain_ReportsResult ==
  /\ fetchLoop.at = "draining"
  /\ IF fetchCh = <<>>
     THEN fetchLoop' = Exited /\ UNCHANGED fetchCh
     ELSE /\ fetchCh' = Tail(fetchCh)
          /\ fetchLoop' = [at |-> "drainReplying", cmd |-> Head(fetchCh), reply |-> "result"]
  /\ UNCHANGED <<lifecycle, commandCh, eventLoop, respCh, handled, clients>>

Drain ==
  /\ fetchLoop.at = "draining"
  /\ IF fetchCh = <<>>
     THEN fetchLoop' = Exited /\ UNCHANGED fetchCh
     ELSE /\ fetchCh' = Tail(fetchCh)
          /\ fetchLoop' = [at |-> "drainReplying", cmd |-> Head(fetchCh), reply |-> "refused"]
  /\ UNCHANGED <<lifecycle, commandCh, eventLoop, respCh, handled, clients>>

-----------------------------------------------------------------------------
CallerStep(c) == \/ Call(c) \/ Enqueue(c) \/ GiveUpQueuing(c) \/ TakeResponse(c)
                 \/ GiveUpWaiting(c) \/ Deadline(c)
StopperStep(s) == \/ BeginStop(s) \/ CloseStopCh(s) \/ CancelCtx(s)
                  \/ WaitForLoops(s)
EventLoopStep == Receive \/ HandlerReturns \/ Dispatch \/ EventReply \/ HealthTick \/ EventExit
FetchLoopStep == FetchReceive \/ FetchReturns \/ FetchReply \/ FetchStop \/ Drain

Next ==
  /\ ~panicked
  /\ \/ Start
     \/ \E c \in Callers : CallerStep(c)
     \/ \E s \in Stoppers : StopperStep(s)
     \/ EventLoopStep
     \/ FetchLoopStep

Spec == Init /\ [][Next]_vars

(***************************************************************************)
(* Fairness.  Goroutines that can run do run; timers fire; a quick         *)
(* handler's server call returns, at the latest when the library's read    *)
(* timeout closes the connection; a bulk transfer may stall for ever, but  *)
(* ends once its caller has given up.  Go's select picks uniformly among   *)
(* its ready cases, so a case that is ready again and again is taken: the  *)
(* exit of both loops is strongly fair.                                    *)
(***************************************************************************)
EventLoopFairness ==
  /\ WF_vars(Receive) /\ WF_vars(HandlerReturns) /\ WF_vars(Dispatch)
  /\ WF_vars(EventReply) /\ SF_vars(EventExit)
FetchLoopFairness ==
  /\ WF_vars(FetchReceive) /\ WF_vars(FetchAborts) /\ WF_vars(FetchReply)
  /\ SF_vars(FetchStop) /\ WF_vars(Drain)
CallerFairness ==
  \A c \in Callers : /\ WF_vars(Deadline(c)) /\ WF_vars(TakeResponse(c))
                     /\ WF_vars(GiveUpQueuing(c)) /\ WF_vars(GiveUpWaiting(c))
StopperFairness ==
  \A s \in Stoppers : WF_vars(CloseStopCh(s)) /\ WF_vars(CancelCtx(s)) /\ WF_vars(WaitForLoops(s))

LiveSpec == Spec /\ EventLoopFairness /\ FetchLoopFairness /\ CallerFairness /\ StopperFairness

\* A server that stalls every bulk transfer, and no deadline that rescues.
StalledFetchSpec == Spec /\ EventLoopFairness /\ WF_vars(FetchReceive)

-----------------------------------------------------------------------------
(* Properties.                                                              *)

In(ch, c) == \E i \in DOMAIN ch : ch[i] = c
Distinct(ch) == \A i, j \in DOMAIN ch : i # j /\ ch[i] # Tick => ch[i] # ch[j]

EventHas(c) == eventLoop.at \in {"handling", "dispatching", "replying"} /\ eventLoop.cmd = c
FetchHas(c) == fetchLoop.at \in {"fetching", "replying", "drainReplying"} /\ fetchLoop.cmd = c
InFlight(c) == In(commandCh, c) \/ In(fetchCh, c) \/ EventHas(c) \/ FetchHas(c)

\* The reply of a loop always finds its response channel empty: with one
\* slot per channel, no loop is ever held up by a caller that has gone away
\* (sendResponse, the buffered ResponseCh of sendCommandWithTimeout).
ReplyNeverBlocks ==
  /\ eventLoop.at = "replying" /\ eventLoop.cmd # Tick => respCh[eventLoop.cmd] = "empty"
  /\ fetchLoop.at \in {"replying", "drainReplying"} => respCh[fetchLoop.cmd] = "empty"

\* A command is in one place: a queue or the hands of a loop.
OnePlace ==
  /\ Distinct(commandCh) /\ Distinct(fetchCh)
  /\ \A c \in Callers :
       /\ In(commandCh, c) => ~In(fetchCh, c) /\ ~EventHas(c) /\ ~FetchHas(c)
       /\ In(fetchCh, c) => ~EventHas(c) /\ ~FetchHas(c)
       /\ EventHas(c) => ~FetchHas(c)

\* The event loop has a command whose handler it has not run.
EventHolds == \/ eventLoop.at = "dispatching"
              \/ eventLoop.at = "replying" /\ eventLoop.reply = "refused"

\* Its handler has run exactly when its place and its reply say so.
HandledOnce ==
  \A c \in Callers :
    /\ handled[c] \in {0, 1}
    /\ In(commandCh, c) \/ In(fetchCh, c) => handled[c] = 0
    /\ EventHas(c) => handled[c] = IF EventHolds THEN 0 ELSE 1
    /\ FetchHas(c) => /\ handled[c] = IF fetchLoop.at = "drainReplying" THEN 0 ELSE 1
                      /\ fetchLoop.reply = IF handled[c] = 0 THEN "refused" ELSE "result"
    /\ respCh[c] # "empty" => handled[c] = IF respCh[c] = "result" THEN 1 ELSE 0

\* And its caller knows no more than that.
CallerKnows ==
  \A c \in Callers :
    /\ InFlight(c) => caller[c] \in {"waiting", "done"} /\ respCh[c] = "empty"
    /\ respCh[c] # "empty" => caller[c] \in {"waiting", "done"}
    /\ caller[c] \in {"idle", "queuing"} => handled[c] = 0
    /\ caller[c] = "done" <=> outcome[c] # "none"
    /\ outcome[c] \in {"answered", "refused"} => ~InFlight(c)
    /\ outcome[c] = "refused" => handled[c] = 0

\* The inductive invariant behind ReplyNeverBlocks and the refinement: from
\* SendCommand to the response, a command is never in two places, its handler
\* runs at most once, and what its caller is told agrees with whether it ran.
CommandTracking ==
  /\ OnePlace /\ HandledOnce /\ CallerKnows
  /\ \A c \in Commands : In(fetchCh, c) => c \in Bulk
  /\ eventLoop.at = "dispatching" => eventLoop.cmd \in Bulk
  /\ fetchLoop.at \in {"fetching", "replying", "drainReplying"} => fetchLoop.cmd \in Bulk

\* What the abstract specification says of every call: handled at most once,
\* answered only if handled, refused only if never handled.
callState == [c \in Callers |-> CASE caller[c] = "idle" -> "idle"
                                 [] caller[c] \in {"queuing", "waiting"} -> "pending"
                                 [] OTHER -> outcome[c]]
RR == INSTANCE RequestReply WITH call <- callState
RefinesRequestReply == RR!Spec

\* SendCommand always returns, whatever the server or a Stop does.
EveryCallReturns == \A c \in Callers : caller[c] # "idle" ~> caller[c] = "done"

\* Stop returns although callers and both queues are in use.
StopReturns == \A s \in Stoppers : stopper[s] # "idle" ~> stopper[s] = "returned"

\* A bulk transfer that never ends does not keep a queued command from the
\* event loop (worker.go:428-430), as long as fetchCh has room for the rest.
StaysResponsive ==
  \A c \in Callers : In(commandCh, c) ~> ~In(commandCh, c) \/ stopCh = "closed"
=============================================================================
