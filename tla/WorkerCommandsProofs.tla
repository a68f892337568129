------------------------ MODULE WorkerCommandsProofs ------------------------
(***************************************************************************)
(* Proofs about WorkerCommands, for any set of callers and stoppers and    *)
(* any queue capacity: type correctness, the invariant CommandTracking,    *)
(* ReplyNeverBlocks, and that the pipeline implements RequestReply.        *)
(***************************************************************************)
EXTENDS WorkerCommands, TLAPS

-----------------------------------------------------------------------------
(* What sending to and receiving from a channel do to its content.          *)

\* A send adds exactly the command sent.
LEMMA InAppend ==
  ASSUME NEW S, NEW ch \in Seq(S), NEW x \in S, NEW c
  PROVE  In(Append(ch, x), c) <=> In(ch, c) \/ c = x
<1>1. /\ DOMAIN ch = 1 .. Len(ch) /\ Len(ch) \in Nat
      /\ DOMAIN Append(ch, x) = 1 .. Len(ch) + 1
      /\ \A i \in 1 .. Len(ch) : Append(ch, x)[i] = ch[i]
      /\ Append(ch, x)[Len(ch) + 1] = x
  OBVIOUS
<1>2. QED BY <1>1 DEF In

\* A receive removes only the head.
LEMMA InTail ==
  ASSUME NEW S, NEW ch \in Seq(S), ch # <<>>, NEW c
  PROVE  /\ In(Tail(ch), c) => In(ch, c)
         /\ In(ch, c) => c = Head(ch) \/ In(Tail(ch), c)
         /\ In(ch, Head(ch)) /\ Head(ch) \in S /\ Tail(ch) \in Seq(S)
<1>1. /\ DOMAIN ch = 1 .. Len(ch) /\ Len(ch) \in Nat /\ Len(ch) > 0
      /\ DOMAIN Tail(ch) = 1 .. Len(ch) - 1
      /\ \A i \in 1 .. Len(ch) - 1 : Tail(ch)[i] = ch[i + 1]
      /\ Head(ch) = ch[1] /\ ch[1] \in S /\ Tail(ch) \in Seq(S)
  OBVIOUS
<1>2. In(Tail(ch), c) => In(ch, c)
  BY <1>1 DEF In
<1>3. ASSUME In(ch, c) PROVE c = Head(ch) \/ In(Tail(ch), c)
  <2>1. PICK i \in 1 .. Len(ch) : ch[i] = c
    BY <1>1, <1>3 DEF In
  <2>2. CASE i = 1
    BY <1>1, <2>1, <2>2
  <2>3. CASE i # 1
    <3>1. i - 1 \in 1 .. Len(ch) - 1 /\ Tail(ch)[i - 1] = c
      BY <1>1, <2>1, <2>3
    <3>2. QED BY <1>1, <3>1 DEF In
  <2>4. QED BY <2>2, <2>3
<1>4. In(ch, Head(ch))
  BY <1>1 DEF In
<1>5. QED BY <1>1, <1>2, <1>3, <1>4

\* Sending a command that is not queued (or a Tick) keeps a queue distinct.
LEMMA DistinctAppend ==
  ASSUME NEW S, NEW ch \in Seq(S), NEW x \in S, Distinct(ch), x = Tick \/ ~In(ch, x)
  PROVE  Distinct(Append(ch, x))
<1>1. /\ DOMAIN ch = 1 .. Len(ch) /\ Len(ch) \in Nat
      /\ DOMAIN Append(ch, x) = 1 .. Len(ch) + 1
      /\ \A i \in 1 .. Len(ch) : Append(ch, x)[i] = ch[i]
      /\ Append(ch, x)[Len(ch) + 1] = x
  OBVIOUS
<1>2. QED BY <1>1 DEF Distinct, In

\* A receive keeps it distinct, and takes the only copy of a command.
LEMMA DistinctTail ==
  ASSUME NEW S, NEW ch \in Seq(S), ch # <<>>, Distinct(ch)
  PROVE  Distinct(Tail(ch)) /\ (Head(ch) # Tick => ~In(Tail(ch), Head(ch)))
<1>1. /\ DOMAIN ch = 1 .. Len(ch) /\ Len(ch) \in Nat /\ Len(ch) > 0
      /\ DOMAIN Tail(ch) = 1 .. Len(ch) - 1
      /\ \A i \in 1 .. Len(ch) - 1 : Tail(ch)[i] = ch[i + 1] /\ i + 1 \in 1 .. Len(ch)
      /\ Head(ch) = ch[1] /\ 1 \in DOMAIN ch
  OBVIOUS
<1>2. Distinct(Tail(ch))
  BY <1>1 DEF Distinct
<1>3. ASSUME Head(ch) # Tick, In(Tail(ch), Head(ch)) PROVE FALSE
  <2>1. PICK i \in 1 .. Len(ch) - 1 : ch[i + 1] = ch[1]
    BY <1>1, <1>3 DEF In
  <2>2. i + 1 # 1 /\ i + 1 \in DOMAIN ch
    BY <1>1, <2>1
  <2>3. QED BY <1>1, <1>3, <2>1, <2>2 DEF Distinct
<1>4. QED BY <1>2, <1>3

-----------------------------------------------------------------------------
(* Type correctness.                                                        *)

\* A channel operation keeps the channel a queue of S within its capacity.
LEMMA ChannelType ==
  ASSUME NEW S, NEW ch \in Seq(S), Len(ch) <= QueueCap
  PROVE  /\ \A x \in S : Room(ch) => Append(ch, x) \in Seq(S) /\ Len(Append(ch, x)) <= QueueCap
         /\ ch # <<>> => /\ Head(ch) \in S /\ Tail(ch) \in Seq(S)
                         /\ Len(Tail(ch)) <= QueueCap
BY QueueCapAssumption DEF Room

\* The worker starts, before Start, in a state of the right type.
LEMMA InitTypeOK == Init => TypeOK
<1> SUFFICES ASSUME Init PROVE TypeOK
  OBVIOUS
<1>1. Tick \in Commands /\ Exited \in EventLoopStates /\ Exited \in FetchLoopStates
  BY DEF Exited, EventLoopStates, FetchLoopStates, Commands, Replies
<1>2. <<>> \in Seq(Commands) /\ Len(<<>>) <= QueueCap
  BY QueueCapAssumption
<1>3. QED BY <1>1, <1>2 DEF Init, TypeOK, Replies, Outcomes

\* Every step keeps the types.
LEMMA StepTypeOK == TypeOK /\ [Next]_vars => TypeOK'
<1> SUFFICES ASSUME TypeOK, [Next]_vars PROVE TypeOK'
  OBVIOUS
<1> USE CallersAssumption, QueueCapAssumption DEF TypeOK, lifecycle, pipeline, clients,
        EventLoopStates, FetchLoopStates, Commands, Replies, Outcomes, Idle, Exited
<1>1. CASE Start
  BY <1>1 DEF Start
<1>2. ASSUME NEW s \in Stoppers, StopperStep(s) PROVE TypeOK'
  <2>1. CASE BeginStop(s)
    BY <2>1 DEF BeginStop
  <2>2. CASE CloseStopCh(s)
    BY <2>2 DEF CloseStopCh
  <2>3. CASE CancelCtx(s)
    BY <2>3 DEF CancelCtx
  <2>4. CASE WaitForLoops(s)
    BY <2>4 DEF WaitForLoops
  <2>5. QED BY <1>2, <2>1, <2>2, <2>3, <2>4 DEF StopperStep
<1>3. ASSUME NEW c \in Callers, CallerStep(c) PROVE TypeOK'
  <2>1. CASE Call(c)
    <3>1. CASE IsRunning
      BY <2>1, <3>1 DEF Call, IsRunning
    <3>2. CASE ~IsRunning
      <4>1. Return(c, "refused") /\ UNCHANGED <<lifecycle, pipeline>>
        BY <2>1, <3>2 DEF Call
      <4>2. QED BY <4>1 DEF Return
    <3>3. QED BY <3>1, <3>2
  <2>2. CASE Enqueue(c)
    BY <2>2, ChannelType DEF Enqueue
  <2>3. CASE GiveUpQueuing(c)
    BY <2>3 DEF GiveUpQueuing, Return
  <2>4. CASE TakeResponse(c)
    BY <2>4 DEF TakeResponse, Return
  <2>5. CASE GiveUpWaiting(c)
    BY <2>5 DEF GiveUpWaiting, Return
  <2>6. CASE Deadline(c)
    BY <2>6 DEF Deadline
  <2>7. QED BY <1>3, <2>1, <2>2, <2>3, <2>4, <2>5, <2>6 DEF CallerStep
<1>4. CASE EventLoopStep
  <2>1. CASE Receive
    <3>1. Head(commandCh) \in Commands /\ Tail(commandCh) \in Seq(Commands)
          /\ Len(Tail(commandCh)) <= QueueCap
      BY <2>1, ChannelType DEF Receive
    <3>2. handled' \in [Callers -> Nat]
      BY <2>1, <3>1 DEF Receive, handle
    <3>3. QED BY <2>1, <3>1, <3>2 DEF Receive, replyWith
  <2>2. CASE HandlerReturns
    BY <2>2 DEF HandlerReturns, replyWith
  <2>3. CASE Dispatch
    <3>1. eventLoop' \in EventLoopStates
      BY <2>3 DEF Dispatch, replyWith
    <3>2. fetchCh' \in Seq(Commands) /\ Len(fetchCh') <= QueueCap
      <4>1. CASE Room(fetchCh) /\ fetchCh' = Append(fetchCh, eventLoop.cmd)
        <5>1. eventLoop.cmd \in Commands
          OBVIOUS
        <5>2. QED BY <4>1, <5>1, ChannelType
      <4>2. CASE UNCHANGED fetchCh
        BY <4>2
      <4>3. QED BY <2>3, <4>1, <4>2 DEF Dispatch
    <3>3. QED BY <2>3, <3>1, <3>2 DEF Dispatch
  <2>4. CASE EventReply
    BY <2>4 DEF EventReply, Deliver
  <2>5. CASE HealthTick
    BY <2>5, ChannelType DEF HealthTick
  <2>6. CASE EventExit
    BY <2>6 DEF EventExit
  <2>7. QED BY <1>4, <2>1, <2>2, <2>3, <2>4, <2>5, <2>6 DEF EventLoopStep
<1>5. CASE FetchLoopStep
  <2>1. CASE FetchReceive
    <3>1. Head(fetchCh) \in Commands /\ Tail(fetchCh) \in Seq(Commands) /\ Len(Tail(fetchCh)) <= QueueCap
      BY <2>1, ChannelType DEF FetchReceive
    <3>2. QED BY <2>1, <3>1 DEF FetchReceive, handle
  <2>2. CASE FetchReturns
    BY <2>2 DEF FetchReturns
  <2>3. CASE FetchReply
    BY <2>3 DEF FetchReply, Deliver
  <2>4. CASE FetchStop
    BY <2>4 DEF FetchStop
  <2>5. CASE Drain
    <3>1. fetchCh # <<>> => /\ Head(fetchCh) \in Commands /\ Tail(fetchCh) \in Seq(Commands)
                            /\ Len(Tail(fetchCh)) <= QueueCap
      BY ChannelType
    <3>2. CASE fetchCh = <<>>
      <4>1. fetchLoop' \in FetchLoopStates
        BY <2>5, <3>2 DEF Drain
      <4>2. QED BY <2>5, <3>2, <4>1 DEF Drain
    <3>3. CASE fetchCh # <<>>
      <4>1. fetchLoop' \in FetchLoopStates
        BY <2>5, <3>1, <3>3 DEF Drain
      <4>2. QED BY <2>5, <3>1, <3>3, <4>1 DEF Drain
    <3>4. QED BY <3>2, <3>3
  <2>6. QED BY <1>5, <2>1, <2>2, <2>3, <2>4, <2>5 DEF FetchLoopStep
<1>6. CASE UNCHANGED vars
  BY <1>6 DEF vars
<1>7. QED BY <1>1, <1>2, <1>3, <1>4, <1>5, <1>6 DEF Next

\* Every variable keeps its type, and no channel outgrows its capacity.
THEOREM TypeCorrect == Spec => []TypeOK
BY InitTypeOK, StepTypeOK, PTL DEF Spec
\* InAppend for the queues of commands.
LEMMA InAppendCommand ==
  ASSUME NEW ch \in Seq(Commands), NEW x \in Commands
  PROVE  \A d : In(Append(ch, x), d) <=> In(ch, d) \/ d = x
<1>1. TAKE d
<1>2. QED BY InAppend, Zenon

-----------------------------------------------------------------------------
(* The invariant CommandTracking.                                           *)

\* Before Start no command is anywhere.
LEMMA InitTracking == Init => CommandTracking
<1> SUFFICES ASSUME Init PROVE CommandTracking
  OBVIOUS
<1>1. \A c : ~In(commandCh, c) /\ ~In(fetchCh, c)
  <2>1. DOMAIN <<>> = {}
    OBVIOUS
  <2>2. QED BY <2>1 DEF Init, In
<1>2. \A c : ~EventHas(c) /\ ~FetchHas(c)
  BY DEF Init, EventHas, FetchHas, Exited
<1>3. OnePlace
  BY <1>1, <1>2 DEF Init, OnePlace, Distinct
<1>4. HandledOnce /\ CallerKnows
  BY <1>1, <1>2 DEF Init, HandledOnce, CallerKnows, InFlight
<1>5. QED BY <1>1, <1>3, <1>4 DEF CommandTracking, Init, Exited

\* The steps of callers and stoppers do not move a command, except Enqueue.
LEMMA ClientTracking ==
  ASSUME TypeOK, CommandTracking, UNCHANGED <<commandCh, fetchCh, eventLoop, fetchLoop, handled>>,
         \A c \in Callers : /\ respCh'[c] \in {respCh[c], "empty"}
                            /\ caller'[c] = "done" <=> outcome'[c] # "none"
                            /\ InFlight(c) \/ respCh'[c] # "empty" => caller'[c] \in {"waiting", "done"}
                            /\ caller'[c] \in {"idle", "queuing"} => handled[c] = 0
                            /\ outcome'[c] \in {"answered", "refused"} => ~InFlight(c)
                            /\ outcome'[c] = "refused" => handled[c] = 0
  PROVE  CommandTracking'
<1>1. OnePlace'
  BY DEF CommandTracking, OnePlace, EventHas, FetchHas
<1>2. HandledOnce'
  BY DEF CommandTracking, HandledOnce, EventHas, FetchHas, EventHolds, TypeOK
<1>3. CallerKnows'
  BY DEF CommandTracking, CallerKnows, InFlight, EventHas, FetchHas
<1>4. QED BY <1>1, <1>2, <1>3 DEF CommandTracking

\* What a caller does in SendCommand keeps the tracking of commands.
LEMMA CallerStepTracking ==
  ASSUME TypeOK, CommandTracking, NEW c \in Callers, CallerStep(c)
  PROVE  CommandTracking'
<1> USE DEF TypeOK
<1>1. CASE Call(c)
  <2>1. CASE IsRunning
    BY <1>1, <2>1, ClientTracking DEF Call, lifecycle, pipeline, CommandTracking, CallerKnows
  <2>2. CASE ~IsRunning
    <3>1. Return(c, "refused") /\ UNCHANGED <<lifecycle, pipeline>> /\ caller[c] = "idle"
      BY <1>1, <2>2 DEF Call
    <3>2. QED BY <3>1, ClientTracking DEF Return, lifecycle, pipeline, CommandTracking, CallerKnows
  <2>3. QED BY <2>1, <2>2
<1>2. CASE Enqueue(c)
  <2>1. /\ caller[c] = "queuing" /\ ~InFlight(c) /\ respCh[c] = "empty" /\ handled[c] = 0
    BY <1>2 DEF Enqueue, CommandTracking, CallerKnows
  <2>2. \A d : In(commandCh', d) <=> In(commandCh, d) \/ d = c
    <3>1. commandCh \in Seq(Commands) /\ c \in Commands /\ commandCh' = Append(commandCh, c)
      BY <1>2 DEF Enqueue, Commands
    <3>2. QED BY <3>1, InAppendCommand
  <2>3. Distinct(commandCh')
    BY <1>2, <2>1, DistinctAppend DEF Enqueue, Commands, CommandTracking, OnePlace, InFlight
  <2>4. OnePlace'
    BY <1>2, <2>1, <2>2, <2>3 DEF Enqueue, CommandTracking, OnePlace, InFlight, EventHas, FetchHas
  <2>5. HandledOnce'
    BY <1>2, <2>1, <2>2 DEF Enqueue, CommandTracking, HandledOnce, EventHas, FetchHas, EventHolds
  <2>6. CallerKnows'
    BY <1>2, <2>1, <2>2 DEF Enqueue, CommandTracking, CallerKnows, InFlight, EventHas, FetchHas
  <2>7. QED BY <1>2, <2>4, <2>5, <2>6 DEF Enqueue, CommandTracking
<1>3. CASE GiveUpQueuing(c)
  BY <1>3, ClientTracking DEF GiveUpQueuing, Return, lifecycle, pipeline, CommandTracking, CallerKnows
<1>4. CASE TakeResponse(c)
  BY <1>4, ClientTracking DEF TakeResponse, Return, lifecycle, CommandTracking, CallerKnows,
     HandledOnce, Replies
<1>5. CASE GiveUpWaiting(c)
  BY <1>5, ClientTracking DEF GiveUpWaiting, Return, lifecycle, pipeline, CommandTracking, CallerKnows
<1>6. CASE Deadline(c)
  BY <1>6, ClientTracking DEF Deadline, lifecycle, pipeline, CommandTracking, CallerKnows
<1>7. QED BY <1>1, <1>2, <1>3, <1>4, <1>5, <1>6 DEF CallerStep

\* So does the event loop: it moves a command, or runs its handler, or replies.
LEMMA EventLoopTracking ==
  ASSUME TypeOK, CommandTracking, EventLoopStep
  PROVE  CommandTracking'
<1> USE DEF TypeOK, EventLoopStates, Commands
<1>1. CASE Receive
  <2>1. /\ commandCh' = Tail(commandCh) /\ eventLoop.at = "select" /\ commandCh # <<>>
        /\ commandCh \in Seq(Commands)
    BY <1>1 DEF Receive
  <2>0. PICK cmd \in Commands : cmd = Head(commandCh)
    BY <2>1, InTail
  <2>2. /\ \A d : In(commandCh', d) => In(commandCh, d)
        /\ In(commandCh, cmd) /\ cmd \in Commands
    BY <2>1, <2>0, InTail
  <2>3. Distinct(commandCh') /\ (cmd # Tick => ~In(commandCh', cmd))
    BY <2>1, <2>0, DistinctTail DEF CommandTracking, OnePlace
  <2>4. \A d : EventHas(d)' => d = cmd
    BY <1>1, <2>1, <2>0 DEF Receive, replyWith, EventHas
  <2>5. \A d : ~EventHas(d)
    BY <2>1 DEF EventHas
  <2>6. UNCHANGED <<fetchCh, fetchLoop, respCh, caller, outcome>>
    BY <1>1 DEF Receive, clients
  <2>7. \A d : FetchHas(d)' <=> FetchHas(d)
    BY <1>1 DEF Receive, FetchHas
  <2>8. cmd \in Callers => ~In(fetchCh, cmd) /\ ~FetchHas(cmd) /\ handled[cmd] = 0
    BY <2>2 DEF CommandTracking, OnePlace, HandledOnce
  <2>9. /\ \A d \in Callers : d # cmd => handled'[d] = handled[d]
        /\ EventHas(cmd)' /\ cmd \in Callers => handled'[cmd] = IF EventHolds' THEN 0 ELSE 1
    <3>1. CASE eventLoop' = replyWith(cmd, "refused") /\ UNCHANGED handled
      BY <3>1, <2>8 DEF replyWith, EventHolds
    <3>2. CASE eventLoop' = [at |-> "dispatching", cmd |-> cmd, reply |-> "result"] /\ UNCHANGED handled
      BY <3>2, <2>8 DEF EventHolds
    <3>3. CASE eventLoop' = [at |-> "handling", cmd |-> cmd, reply |-> "result"] /\ handled' = handle(cmd)
      <4>1. CASE cmd = Tick
        BY <3>3, <4>1, CallersAssumption DEF handle
      <4>2. CASE cmd # Tick
        <5>1. cmd \in Callers /\ handled[cmd] = 0 /\ handled' = [handled EXCEPT ![cmd] = @ + 1]
          BY <3>3, <4>2, <2>2, <2>8 DEF handle
        <5>2. handled'[cmd] = 1 /\ ~EventHolds'
          BY <3>3, <5>1 DEF EventHolds
        <5>3. QED BY <5>1, <5>2
      <4>3. QED BY <4>1, <4>2
    <3>4. QED BY <1>1, <2>0, <3>1, <3>2, <3>3 DEF Receive
  <2>10. OnePlace'
    <3>1. Distinct(commandCh)' /\ Distinct(fetchCh)'
      BY <2>3, <2>6 DEF CommandTracking, OnePlace
    <3>2. ASSUME NEW d \in Callers
          PROVE  /\ In(commandCh, d)' => ~In(fetchCh, d)' /\ ~EventHas(d)' /\ ~FetchHas(d)'
                 /\ In(fetchCh, d)' => ~EventHas(d)' /\ ~FetchHas(d)'
                 /\ EventHas(d)' => ~FetchHas(d)'
      <4>1. CASE d = cmd
        <5>1. cmd # Tick
          BY <4>1, CallersAssumption
        <5>2. QED BY <4>1, <5>1, <2>3, <2>6, <2>7, <2>8
      <4>2. CASE d # cmd
        BY <4>2, <2>2, <2>4, <2>6, <2>7 DEF CommandTracking, OnePlace
      <4>3. QED BY <4>1, <4>2
    <3>3. QED BY <3>1, <3>2 DEF OnePlace
  <2>11. HandledOnce'
    <3>1. SUFFICES ASSUME NEW d \in Callers
                   PROVE  /\ handled'[d] \in {0, 1}
                          /\ In(commandCh', d) \/ In(fetchCh', d) => handled'[d] = 0
                          /\ EventHas(d)' => handled'[d] = IF EventHolds' THEN 0 ELSE 1
                          /\ FetchHas(d)' =>
                               /\ handled'[d] = IF fetchLoop'.at = "drainReplying" THEN 0 ELSE 1
                               /\ fetchLoop'.reply = IF handled'[d] = 0 THEN "refused" ELSE "result"
                          /\ respCh'[d] # "empty" => handled'[d] = IF respCh'[d] = "result" THEN 1 ELSE 0
      BY DEF HandledOnce
    <3>2. CASE d = cmd
      <4>1. cmd # Tick
        BY <3>2, CallersAssumption
      <4>2. respCh[d] = "empty"
        BY <2>2, <3>2 DEF CommandTracking, CallerKnows, InFlight
      <4>3. EventHas(cmd)'
        <5>1. eventLoop'.cmd = cmd /\ eventLoop'.at \in {"replying", "dispatching", "handling"}
          BY <1>1, <2>0 DEF Receive, replyWith
        <5>2. QED BY <5>1 DEF EventHas
      <4>4. QED BY <3>2, <4>1, <4>2, <4>3, <2>3, <2>6, <2>7, <2>8, <2>9
    <3>3. CASE d # cmd
      BY <3>3, <2>2, <2>4, <2>6, <2>7, <2>9 DEF CommandTracking, HandledOnce
    <3>4. QED BY <3>2, <3>3
  <2>12. CallerKnows'
    <3>1. \A d : InFlight(d)' => InFlight(d)
      BY <2>2, <2>4, <2>6, <2>7 DEF InFlight
    <3>2. \A d \in Callers : InFlight(d) => caller[d] \in {"waiting", "done"} /\ outcome[d] # "refused"
      BY DEF CommandTracking, CallerKnows
    <3>3. \A d \in Callers : caller[d] \in {"idle", "queuing"} \/ outcome[d] = "refused" => handled'[d] = handled[d]
      BY <2>2, <2>9, <3>2 DEF InFlight
    <3>4. QED BY <2>6, <3>1, <3>3 DEF CommandTracking, CallerKnows
  <2>13. QED BY <1>1, <2>10, <2>11, <2>12 DEF Receive, CommandTracking, replyWith
<1>2. CASE HandlerReturns
  <2>1. \A d : EventHas(d)' <=> EventHas(d)
    BY <1>2 DEF HandlerReturns, replyWith, EventHas
  <2>2. EventHolds' <=> EventHolds
    BY <1>2 DEF HandlerReturns, replyWith, EventHolds
  <2>3. QED BY <1>2, <2>1, <2>2 DEF HandlerReturns, CommandTracking, OnePlace, HandledOnce,
               CallerKnows, InFlight, FetchHas, replyWith, clients
<1>3. CASE Dispatch
  <2> DEFINE cmd == eventLoop.cmd
  <2>1. EventHas(cmd) /\ cmd \in Bulk /\ cmd \in Callers /\ EventHolds
    BY <1>3, CallersAssumption DEF Dispatch, EventHas, EventHolds, CommandTracking
  <2>2. handled[cmd] = 0 /\ ~In(fetchCh, cmd) /\ ~In(commandCh, cmd) /\ ~FetchHas(cmd)
    BY <2>1 DEF CommandTracking, OnePlace, HandledOnce
  <2>3. CASE fetchCh' = Append(fetchCh, cmd) /\ eventLoop' = Idle
    <3>1. fetchCh \in Seq(Commands) /\ cmd \in Commands /\ cmd # Tick
      BY <2>1, CallersAssumption
    <3>2. \A d : In(fetchCh', d) <=> In(fetchCh, d) \/ d = cmd
      BY <2>3, <3>1, InAppendCommand
    <3>3. Distinct(fetchCh')
      BY <2>2, <2>3, <3>1, DistinctAppend DEF CommandTracking, OnePlace
    <3>4. \A d : ~EventHas(d)'
      BY <2>3 DEF EventHas, Idle
    <3>5. OnePlace'
      BY <1>3, <2>2, <3>2, <3>3, <3>4 DEF Dispatch, CommandTracking, OnePlace, FetchHas, clients
    <3>6. HandledOnce'
      BY <1>3, <2>2, <3>2, <3>4 DEF Dispatch, CommandTracking, HandledOnce, FetchHas, clients
    <3>7. CallerKnows'
      BY <1>3, <2>1, <3>2, <3>4 DEF Dispatch, CommandTracking, CallerKnows, InFlight, FetchHas, clients
    <3>8. QED BY <1>3, <2>1, <2>3, <3>2, <3>5, <3>6, <3>7 DEF Dispatch, CommandTracking, Idle
  <2>4. CASE eventLoop' = replyWith(cmd, "refused") /\ UNCHANGED fetchCh
    <3>1. \A d : EventHas(d)' <=> EventHas(d)
      BY <1>3, <2>4 DEF Dispatch, replyWith, EventHas
    <3>2. EventHolds'
      BY <2>4 DEF replyWith, EventHolds
    <3>3. QED BY <1>3, <2>1, <2>4, <3>1, <3>2 DEF Dispatch, CommandTracking, OnePlace, HandledOnce,
                 CallerKnows, InFlight, FetchHas, replyWith, clients
  <2>5. QED BY <1>3, <2>3, <2>4 DEF Dispatch
<1>4. CASE EventReply
  <2>1. \A d : ~EventHas(d)'
    BY <1>4 DEF EventReply, EventHas, Idle
  <2>2. \A d \in Callers : respCh'[d] = respCh[d] \/ (EventHas(d) /\ respCh'[d] = eventLoop.reply)
    BY <1>4 DEF EventReply, Deliver, EventHas
  <2>3. OnePlace'
    BY <1>4, <2>1 DEF EventReply, CommandTracking, OnePlace, FetchHas, clients
  <2>4. HandledOnce'
    BY <1>4, <2>1, <2>2 DEF EventReply, CommandTracking, HandledOnce, FetchHas, EventHolds, Replies, clients
  <2>5. CallerKnows'
    BY <1>4, <2>1, <2>2 DEF EventReply, CommandTracking, OnePlace, CallerKnows, InFlight, FetchHas, clients
  <2>6. QED BY <1>4, <2>3, <2>4, <2>5 DEF EventReply, CommandTracking, Idle
<1>5. CASE HealthTick
  <2>1. commandCh \in Seq(Commands) /\ Tick \in Commands
    OBVIOUS
  <2>2. \A d \in Callers : In(commandCh', d) <=> In(commandCh, d)
    <3>1. TAKE d \in Callers
    <3>2. d # Tick
      BY CallersAssumption
    <3>3. In(Append(commandCh, Tick), d) <=> In(commandCh, d)
      BY <2>1, <3>2, InAppendCommand
    <3>4. QED BY <1>5, <3>3 DEF HealthTick
  <2>3. Distinct(commandCh')
    BY <1>5, <2>1, DistinctAppend DEF HealthTick, CommandTracking, OnePlace
  <2>4. QED BY <1>5, <2>2, <2>3 DEF HealthTick, CommandTracking, OnePlace, HandledOnce, CallerKnows,
               InFlight, EventHas, FetchHas, EventHolds, clients
<1>6. CASE EventExit
  <2>1. \A d : ~EventHas(d) /\ ~EventHas(d)'
    BY <1>6 DEF EventExit, EventHas, Exited
  <2>2. QED BY <1>6, <2>1 DEF EventExit, Exited, CommandTracking, OnePlace, HandledOnce, CallerKnows,
               InFlight, FetchHas, clients
<1>7. QED BY <1>1, <1>2, <1>3, <1>4, <1>5, <1>6 DEF EventLoopStep

\* So does the fetch loop, also while it drains fetchCh.
LEMMA FetchLoopTracking ==
  ASSUME TypeOK, CommandTracking, FetchLoopStep
  PROVE  CommandTracking'
<1> USE DEF TypeOK, FetchLoopStates, Commands
<1>1. CASE FetchReceive
  <2> DEFINE cmd == Head(fetchCh)
  <2>1. /\ fetchCh' = Tail(fetchCh) /\ fetchLoop.at = "select" /\ fetchCh # <<>>
        /\ fetchCh \in Seq(Commands)
        /\ fetchLoop' = [at |-> "fetching", cmd |-> cmd, reply |-> "result"]
        /\ handled' = handle(cmd)
        /\ UNCHANGED <<commandCh, eventLoop, respCh, caller, outcome>>
    BY <1>1 DEF FetchReceive, clients
  <2>2. /\ \A d : In(fetchCh', d) => In(fetchCh, d)
        /\ In(fetchCh, cmd) /\ cmd \in Commands
    BY <2>1, InTail
  <2>3. cmd \in Bulk /\ cmd \in Callers /\ cmd # Tick
    BY <2>2, CallersAssumption DEF CommandTracking
  <2>4. Distinct(fetchCh') /\ ~In(fetchCh', cmd)
    BY <2>1, <2>3, DistinctTail DEF CommandTracking, OnePlace
  <2>5. /\ \A d : FetchHas(d)' <=> d = cmd
        /\ \A d : ~FetchHas(d)
        /\ \A d : EventHas(d)' <=> EventHas(d)
        /\ EventHolds' <=> EventHolds
    BY <2>1 DEF FetchHas, EventHas, EventHolds
  <2>6. /\ handled[cmd] = 0 /\ handled'[cmd] = 1
        /\ \A d \in Callers : d # cmd => handled'[d] = handled[d]
        /\ ~In(commandCh, cmd) /\ ~EventHas(cmd) /\ respCh[cmd] = "empty"
    BY <2>1, <2>2, <2>3 DEF handle, CommandTracking, OnePlace, HandledOnce, CallerKnows, InFlight
  <2>7. OnePlace'
    BY <2>1, <2>2, <2>4, <2>5, <2>6 DEF CommandTracking, OnePlace
  <2>8. HandledOnce'
    BY <2>1, <2>2, <2>4, <2>5, <2>6 DEF CommandTracking, HandledOnce
  <2>9. CallerKnows'
    <3>1. \A d : InFlight(d)' => InFlight(d)
      BY <2>1, <2>2, <2>5 DEF InFlight
    <3>2. InFlight(cmd)
      BY <2>2 DEF InFlight
    <3>3. \A d \in Callers : caller[d] \in {"idle", "queuing"} \/ outcome[d] = "refused" => d # cmd
      BY <3>2 DEF CommandTracking, CallerKnows
    <3>4. QED BY <2>1, <2>6, <3>1, <3>3 DEF CommandTracking, CallerKnows
  <2>10. QED BY <2>1, <2>2, <2>3, <2>7, <2>8, <2>9 DEF CommandTracking
<1>2. CASE FetchReturns
  <2>1. \A d : FetchHas(d)' <=> FetchHas(d)
    BY <1>2 DEF FetchReturns, FetchHas
  <2>2. QED BY <1>2, <2>1 DEF FetchReturns, CommandTracking, OnePlace, HandledOnce, CallerKnows,
               InFlight, EventHas, EventHolds, clients
<1>3. CASE FetchReply
  <2>1. \A d : ~FetchHas(d)'
    BY <1>3 DEF FetchReply, FetchHas, Idle
  <2>2. \A d \in Callers : respCh'[d] = respCh[d] \/ (FetchHas(d) /\ respCh'[d] = fetchLoop.reply)
    BY <1>3 DEF FetchReply, Deliver, FetchHas
  <2>3. OnePlace'
    BY <1>3, <2>1 DEF FetchReply, CommandTracking, OnePlace, EventHas, clients
  <2>4. HandledOnce'
    BY <1>3, <2>1, <2>2 DEF FetchReply, CommandTracking, HandledOnce, EventHas, EventHolds, Replies, clients
  <2>5. CallerKnows'
    BY <1>3, <2>1, <2>2 DEF FetchReply, CommandTracking, OnePlace, CallerKnows, InFlight, EventHas, clients
  <2>6. QED BY <1>3, <2>3, <2>4, <2>5 DEF FetchReply, CommandTracking, Idle
<1>4. CASE FetchStop
  <2>1. \A d : ~FetchHas(d) /\ ~FetchHas(d)'
    BY <1>4 DEF FetchStop, FetchHas, Idle
  <2>2. QED BY <1>4, <2>1 DEF FetchStop, Idle, CommandTracking, OnePlace, HandledOnce, CallerKnows,
               InFlight, EventHas, EventHolds, clients
<1>5. CASE Drain
  <2> DEFINE cmd == Head(fetchCh)
  <2>1. UNCHANGED <<commandCh, eventLoop, respCh, handled, caller, outcome>> /\ \A d : ~FetchHas(d)
    BY <1>5 DEF Drain, FetchHas, clients
  <2>2. CASE fetchCh = <<>>
    <3>1. fetchLoop' = Exited /\ fetchCh' = fetchCh /\ \A d : ~FetchHas(d)'
      BY <1>5, <2>2 DEF Drain, FetchHas, Exited
    <3>2. QED BY <2>1, <3>1 DEF Exited, CommandTracking, OnePlace, HandledOnce, CallerKnows,
                 InFlight, EventHas, EventHolds
  <2>3. CASE fetchCh # <<>>
    <3>1. fetchCh' = Tail(fetchCh) /\ fetchCh \in Seq(Commands)
          /\ fetchLoop' = [at |-> "drainReplying", cmd |-> cmd, reply |-> "refused"]
      BY <1>5, <2>3 DEF Drain
    <3>2. /\ \A d : In(fetchCh', d) => In(fetchCh, d)
          /\ In(fetchCh, cmd) /\ cmd \in Commands
      BY <2>3, <3>1, InTail
    <3>3. cmd \in Bulk /\ cmd \in Callers /\ cmd # Tick
      BY <3>2, CallersAssumption DEF CommandTracking
    <3>4. Distinct(fetchCh') /\ ~In(fetchCh', cmd)
      BY <2>3, <3>1, <3>3, DistinctTail DEF CommandTracking, OnePlace
    <3>5. /\ \A d : FetchHas(d)' <=> d = cmd
          /\ \A d : EventHas(d)' <=> EventHas(d)
          /\ EventHolds' <=> EventHolds
      BY <2>1, <3>1 DEF FetchHas, EventHas, EventHolds
    <3>6. handled[cmd] = 0 /\ ~In(commandCh, cmd) /\ ~EventHas(cmd) /\ respCh[cmd] = "empty"
      BY <3>2, <3>3 DEF CommandTracking, OnePlace, HandledOnce, CallerKnows, InFlight
    <3>7. OnePlace'
      BY <2>1, <3>2, <3>4, <3>5, <3>6 DEF CommandTracking, OnePlace
    <3>8. HandledOnce'
      BY <2>1, <3>1, <3>2, <3>4, <3>5, <3>6 DEF CommandTracking, HandledOnce
    <3>9. CallerKnows'
      <4>1. \A d : InFlight(d)' => InFlight(d)
        BY <2>1, <3>2, <3>5 DEF InFlight
      <4>2. QED BY <2>1, <4>1 DEF CommandTracking, CallerKnows
    <3>10. QED BY <2>1, <3>1, <3>2, <3>3, <3>7, <3>8, <3>9 DEF CommandTracking
  <2>4. QED BY <2>2, <2>3
<1>6. QED BY <1>1, <1>2, <1>3, <1>4, <1>5 DEF FetchLoopStep

\* Every step keeps the tracking of commands.
LEMMA StepTracking == TypeOK /\ CommandTracking /\ [Next]_vars => CommandTracking'
<1> SUFFICES ASSUME TypeOK, CommandTracking, [Next]_vars PROVE CommandTracking'
  OBVIOUS
<1>1. CASE Start
  <2>1. \A d : ~EventHas(d)' /\ ~FetchHas(d)'
    BY <1>1 DEF Start, Idle, EventHas, FetchHas
  <2>2. QED BY <1>1, <2>1 DEF Start, Idle, CommandTracking, OnePlace, HandledOnce, CallerKnows,
               InFlight, clients
<1>2. ASSUME NEW s \in Stoppers, StopperStep(s) PROVE CommandTracking'
  <2>1. UNCHANGED <<pipeline, clients>>
    BY <1>2 DEF StopperStep, BeginStop, CloseStopCh, CancelCtx, WaitForLoops
  <2>2. QED BY <2>1 DEF CommandTracking, OnePlace, HandledOnce, CallerKnows, InFlight, EventHas,
               FetchHas, EventHolds, pipeline, clients
<1>3. CASE UNCHANGED vars
  BY <1>3 DEF vars, CommandTracking, OnePlace, HandledOnce, CallerKnows, InFlight, EventHas,
     FetchHas, EventHolds
<1>4. QED BY <1>1, <1>2, <1>3, CallerStepTracking, EventLoopTracking, FetchLoopTracking DEF Next

\* From SendCommand to the response every command is in one place, handled at
\* most once, and its caller is told nothing that contradicts that.
THEOREM CommandsTracked == Spec => []CommandTracking
BY InitTracking, StepTracking, TypeCorrect, PTL DEF Spec

\* No loop is ever held up in sendResponse by a caller that has gone away.
THEOREM RepliesNeverBlock == Spec => []ReplyNeverBlocks
<1>1. TypeOK /\ CommandTracking => ReplyNeverBlocks
  BY CallersAssumption DEF TypeOK, EventLoopStates, FetchLoopStates, Commands, CommandTracking,
     CallerKnows, InFlight, EventHas, FetchHas, ReplyNeverBlocks
<1>2. QED BY <1>1, TypeCorrect, CommandsTracked, PTL

-----------------------------------------------------------------------------
(* The pipeline implements RequestReply.                                    *)

\* The worker starts where the abstract specification starts.
LEMMA InitRefines == Init => RR!Init
BY DEF Init, RR!Init, callState

\* A step that changes neither the callers nor the handlers that have run
\* is a stuttering step of the abstract specification.
LEMMA StutterRefines ==
  ASSUME UNCHANGED <<caller, outcome, handled>>
  PROVE  UNCHANGED RR!absVars
BY DEF RR!absVars, callState

\* A step of one caller changes the abstract state of its call alone.
LEMMA CallStateExcept ==
  ASSUME TypeOK, NEW c \in Callers, NEW at, NEW result,
         caller' = [caller EXCEPT ![c] = at], outcome' = [outcome EXCEPT ![c] = result]
  PROVE  callState' = [callState EXCEPT ![c] = CASE at = "idle" -> "idle"
                                                [] at \in {"queuing", "waiting"} -> "pending"
                                                [] OTHER -> result]
BY DEF callState, TypeOK

\* A call that returns has, for the abstract specification, the returned state.
LEMMA ReturnState ==
  ASSUME TypeOK, NEW c \in Callers, NEW result, Return(c, result)
  PROVE  callState' = [callState EXCEPT ![c] = result]
BY DEF Return, callState, TypeOK

\* A step of a caller issues, answers, refuses or abandons its call, or stutters.
LEMMA CallerStepRefines ==
  ASSUME TypeOK, CommandTracking, NEW c \in Callers, CallerStep(c)
  PROVE  [RR!Next]_(RR!absVars)
<1> USE DEF TypeOK
<1>0. outcome = [outcome EXCEPT ![c] = outcome[c]] /\ callState[c] =
        CASE caller[c] = "idle" -> "idle" [] caller[c] \in {"queuing", "waiting"} -> "pending"
          [] OTHER -> outcome[c]
  BY DEF callState
<1>1. CASE Call(c)
  <2>1. CASE IsRunning
    <3>1. caller' = [caller EXCEPT ![c] = "queuing"] /\ UNCHANGED <<outcome, handled>> /\ caller[c] = "idle"
      BY <1>1, <2>1 DEF Call, pipeline
    <3>2. callState' = [callState EXCEPT ![c] = "pending"] /\ callState[c] = "idle"
      BY <1>0, <3>1, CallStateExcept
    <3>3. QED BY <3>1, <3>2 DEF RR!Next, RR!Issue
  <2>2. CASE ~IsRunning
    <3>1. Return(c, "refused") /\ UNCHANGED handled /\ caller[c] = "idle"
      BY <1>1, <2>2 DEF Call, pipeline
    <3>2. callState' = [callState EXCEPT ![c] = "refused"] /\ callState[c] = "idle"
      BY <1>0, <3>1, ReturnState
    <3>3. handled[c] = 0
      BY <3>1 DEF CommandTracking, CallerKnows
    <3>4. QED BY <3>1, <3>2, <3>3 DEF RR!Next, RR!Refuse
  <2>3. QED BY <2>1, <2>2
<1>2. CASE Enqueue(c)
  <2>1. caller' = [caller EXCEPT ![c] = "waiting"] /\ UNCHANGED <<outcome, handled>> /\ caller[c] = "queuing"
    BY <1>2 DEF Enqueue
  <2>2. callState' = [callState EXCEPT ![c] = "pending"] /\ callState[c] = "pending"
    BY <1>0, <2>1, CallStateExcept
  <2>3. callState' = callState
    BY <2>2 DEF callState
  <2>4. QED BY <2>1, <2>3 DEF RR!absVars
<1>3. CASE GiveUpQueuing(c)
  <2>1. Return(c, "refused") /\ UNCHANGED handled /\ caller[c] = "queuing"
    BY <1>3 DEF GiveUpQueuing, pipeline
  <2>2. callState' = [callState EXCEPT ![c] = "refused"] /\ callState[c] = "pending"
    BY <1>0, <2>1, ReturnState
  <2>3. handled[c] = 0
    BY <2>1 DEF CommandTracking, CallerKnows
  <2>4. QED BY <2>1, <2>2, <2>3 DEF RR!Next, RR!Refuse
<1>4. CASE TakeResponse(c)
  <2>1. caller[c] = "waiting" /\ respCh[c] # "empty" /\ UNCHANGED handled
    BY <1>4 DEF TakeResponse
  <2>2. CASE respCh[c] = "result"
    <3>1. Return(c, "answered")
      BY <1>4, <2>2 DEF TakeResponse
    <3>2. callState' = [callState EXCEPT ![c] = "answered"] /\ callState[c] = "pending"
      BY <1>0, <2>1, <3>1, ReturnState
    <3>3. handled[c] = 1
      BY <2>1, <2>2 DEF CommandTracking, HandledOnce
    <3>4. QED BY <2>1, <3>2, <3>3 DEF RR!Next, RR!Answer
  <2>3. CASE respCh[c] # "result"
    <3>1. Return(c, "refused")
      BY <1>4, <2>3 DEF TakeResponse
    <3>2. callState' = [callState EXCEPT ![c] = "refused"] /\ callState[c] = "pending"
      BY <1>0, <2>1, <3>1, ReturnState
    <3>3. handled[c] = 0
      BY <2>1, <2>3 DEF CommandTracking, HandledOnce
    <3>4. QED BY <2>1, <3>2, <3>3 DEF RR!Next, RR!Refuse
  <2>4. QED BY <2>2, <2>3
<1>5. CASE GiveUpWaiting(c)
  <2>1. Return(c, "abandoned") /\ UNCHANGED handled /\ caller[c] = "waiting"
    BY <1>5 DEF GiveUpWaiting, pipeline
  <2>2. callState' = [callState EXCEPT ![c] = "abandoned"] /\ callState[c] = "pending"
    BY <1>0, <2>1, ReturnState
  <2>3. QED BY <2>1, <2>2 DEF RR!Next, RR!Abandon
<1>6. CASE Deadline(c)
  BY <1>6, StutterRefines DEF Deadline, pipeline
<1>7. QED BY <1>1, <1>2, <1>3, <1>4, <1>5, <1>6 DEF CallerStep

\* A handler is run for a command that is in a queue, so for the first time
\* and for a call that is pending or abandoned.
LEMMA HandleRefines ==
  ASSUME TypeOK, CommandTracking, NEW c \in Callers, In(commandCh, c) \/ In(fetchCh, c),
         handled' = handle(c), UNCHANGED <<caller, outcome>>
  PROVE  RR!Handle(c)
<1>1. handled[c] = 0 /\ c # Tick
  BY CallersAssumption DEF CommandTracking, HandledOnce
<1>2. caller[c] \in {"waiting", "done"} /\ outcome[c] \notin {"answered", "refused"}
  BY DEF CommandTracking, CallerKnows, InFlight
<1>3. callState[c] \in {"pending", "abandoned"}
  BY <1>2 DEF callState, TypeOK, Outcomes, CommandTracking, CallerKnows
<1>4. handled' = [handled EXCEPT ![c] = 1]
  BY <1>1 DEF handle, TypeOK
<1>5. callState' = callState
  BY DEF callState
<1>6. QED BY <1>1, <1>3, <1>4, <1>5 DEF RR!Handle

\* Every step is a step of the abstract specification, or stutters.
LEMMA StepRefines == TypeOK /\ CommandTracking /\ [Next]_vars => [RR!Next]_(RR!absVars)
<1> SUFFICES ASSUME TypeOK, CommandTracking, [Next]_vars PROVE [RR!Next]_(RR!absVars)
  OBVIOUS
<1>1. CASE Start
  BY <1>1, StutterRefines DEF Start, clients
<1>2. ASSUME NEW s \in Stoppers, StopperStep(s) PROVE UNCHANGED RR!absVars
  BY <1>2, StutterRefines DEF StopperStep, BeginStop, CloseStopCh, CancelCtx, WaitForLoops, pipeline, clients
<1>3. CASE EventLoopStep
  <2>1. CASE Receive
    <3>1. UNCHANGED <<caller, outcome>> /\ commandCh # <<>> /\ commandCh \in Seq(Commands)
      BY <2>1 DEF Receive, clients, TypeOK
    <3>2. PICK c \in Commands : c = Head(commandCh) /\ In(commandCh, c)
      BY <3>1, InTail
    <3>3. CASE UNCHANGED handled
      BY <3>1, <3>3, StutterRefines
    <3>4. CASE handled' = handle(c) /\ c # Tick
      <4>1. RR!Handle(c) /\ c \in Callers
        BY <3>1, <3>2, <3>4, HandleRefines DEF Commands
      <4>2. QED BY <4>1 DEF RR!Next
    <3>5. handled' = handled \/ handled' = handle(c)
      BY <2>1, <3>2 DEF Receive
    <3>6. QED BY <3>3, <3>4, <3>5 DEF handle
  <2>2. CASE HandlerReturns
    BY <2>2, StutterRefines DEF HandlerReturns, clients
  <2>3. CASE Dispatch
    BY <2>3, StutterRefines DEF Dispatch, clients
  <2>4. CASE EventReply
    BY <2>4, StutterRefines DEF EventReply, clients
  <2>5. CASE HealthTick
    BY <2>5, StutterRefines DEF HealthTick, clients
  <2>6. CASE EventExit
    BY <2>6, StutterRefines DEF EventExit, clients
  <2>7. QED BY <1>3, <2>1, <2>2, <2>3, <2>4, <2>5, <2>6 DEF EventLoopStep
<1>4. CASE FetchLoopStep
  <2>1. CASE FetchReceive
    <3>1. UNCHANGED <<caller, outcome>> /\ fetchCh # <<>> /\ fetchCh \in Seq(Commands)
      BY <2>1 DEF FetchReceive, clients, TypeOK
    <3>2. PICK c \in Commands : c = Head(fetchCh) /\ In(fetchCh, c)
      BY <3>1, InTail
    <3>3. c \in Callers /\ handled' = handle(c)
      BY <2>1, <3>2, CallersAssumption DEF FetchReceive, CommandTracking
    <3>4. RR!Handle(c)
      BY <3>1, <3>2, <3>3, HandleRefines
    <3>5. QED BY <3>3, <3>4 DEF RR!Next
  <2>2. CASE FetchReturns
    BY <2>2, StutterRefines DEF FetchReturns, clients
  <2>3. CASE FetchReply
    BY <2>3, StutterRefines DEF FetchReply, clients
  <2>4. CASE FetchStop
    BY <2>4, StutterRefines DEF FetchStop, clients
  <2>5. CASE Drain
    BY <2>5, StutterRefines DEF Drain, clients
  <2>6. QED BY <1>4, <2>1, <2>2, <2>3, <2>4, <2>5 DEF FetchLoopStep
<1>5. CASE UNCHANGED vars
  BY <1>5, StutterRefines DEF vars
<1>6. QED BY <1>1, <1>2, <1>3, <1>4, <1>5, CallerStepRefines DEF Next

\* Whatever the interleaving of callers, loops, deadlines and stoppers, every
\* call of SendCommand is handled at most once, answered only if it was
\* handled, and refused only if it never is.
THEOREM ImplementsRequestReply == Spec => RefinesRequestReply
BY InitRefines, StepRefines, TypeCorrect, CommandsTracked, PTL DEF Spec, RefinesRequestReply, RR!Spec
=============================================================================
