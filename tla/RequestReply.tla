---------------------------- MODULE RequestReply ----------------------------
(***************************************************************************)
(* What a caller of the IMAP worker may rely on, whatever queue, loop or   *)
(* timer stands between it and the server.  Every command is handled at    *)
(* most once.  A call that is answered was handled; a call that is refused *)
(* was not and never will be; a call that is abandoned (its deadline       *)
(* passed, or the worker shut down) tells the caller nothing: the command  *)
(* may have been handled, may still be, or may never be.                   *)
(***************************************************************************)
EXTENDS Naturals

CONSTANTS Callers       \* the goroutines that call SendCommand, once each

VARIABLES call,         \* how far the call of a caller has come
          handled       \* how many times its command was handled

absVars == <<call, handled>>

States == {"idle", "pending", "answered", "refused", "abandoned"}

Init == /\ call = [c \in Callers |-> "idle"]
        /\ handled = [c \in Callers |-> 0]

Issue(c) == /\ call[c] = "idle"
            /\ call' = [call EXCEPT ![c] = "pending"]
            /\ UNCHANGED handled

\* A command may be handled after its caller has abandoned the call.
Handle(c) == /\ call[c] \in {"pending", "abandoned"}
             /\ handled[c] = 0
             /\ handled' = [handled EXCEPT ![c] = 1]
             /\ UNCHANGED call

Answer(c) == /\ call[c] = "pending" /\ handled[c] = 1
             /\ call' = [call EXCEPT ![c] = "answered"]
             /\ UNCHANGED handled

\* A call may be refused before it is even queued (the worker is stopped).
Refuse(c) == /\ call[c] \in {"idle", "pending"} /\ handled[c] = 0
             /\ call' = [call EXCEPT ![c] = "refused"]
             /\ UNCHANGED handled

Abandon(c) == /\ call[c] = "pending"
              /\ call' = [call EXCEPT ![c] = "abandoned"]
              /\ UNCHANGED handled

Next == \E c \in Callers : \/ Issue(c) \/ Handle(c) \/ Answer(c)
                           \/ Refuse(c) \/ Abandon(c)

Spec == Init /\ [][Next]_absVars
=============================================================================
