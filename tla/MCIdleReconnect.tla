---------------------------- MODULE MCIdleReconnect ----------------------------
(* Instances of IdleReconnect for TLC.  Attempts and monitors are each        *)
(* interchangeable; only the runs of safety properties use the symmetry.       *)
EXTENDS IdleReconnect, TLC

MCSymmetry == Permutations(Attempts) \cup Permutations(Monitors)
================================================================================
