-------------------------------- MODULE Cache --------------------------------
(***************************************************************************)
(* The message cache (pkg/cache/cache.go): one file per key in a           *)
(* directory, with an expiry time; a limit on the size of the directory    *)
(* that is enforced by goroutines which are started now and then.  The     *)
(* files survive a crash, the counters do not.                             *)
(*                                                                         *)
(* Every call holds the cache's lock, so a call is one step; the           *)
(* background cleanup takes the lock between setting and clearing a flag   *)
(* of its own, and is three steps.  A crash may cut any call short.        *)
(***************************************************************************)
EXTENDS Integers, FiniteSets, FiniteSetsExt

CONSTANTS Keys, Values, None,
          RawSize,     \* the size of a value
          DiskSize,    \* the size of its file: compressed, in base64, with metadata
          Limit,       \* maxSizeMB
          CheckBytes,  \* cleanupCheckBytes, 32 MB in the code
          MaxCleaners  \* bound on the cleanup goroutines that have not begun

ASSUME SizesAssumption == /\ RawSize \in [Values -> Nat] /\ DiskSize \in [Values -> Nat]
                          /\ Limit \in Nat /\ CheckBytes \in Nat /\ MaxCleaners \in Nat
ASSUME NoneAssumption == None \notin Values /\ {"ok", "failed"} \cap (Values \cup {None}) = {}

VARIABLES
  file,      \* the file of each key: what was written to it, and its state
  older,     \* pairs of keys, the first of which was written before the second
  written,   \* c.writtenSinceCleanup
  cleaners,  \* goroutines of cleanupIfSizeExceeded that have not begun
  pending,   \* c.cleanupPending
  cleaner,   \* the goroutine that has set it
  answer     \* what the last call returned

disk == <<file, older>>
cleaning == <<cleaners, pending, cleaner>>
vars == <<disk, written, cleaning, answer>>

\* A torn file is one whose write was cut short: it is no valid JSON.
File == [value : Values, state : {"valid", "expired", "torn"}]
NoFile == [value |-> None, state |-> "absent"]

TypeOK ==
  /\ file \in [Keys -> File \cup {NoFile}]
  /\ older \subseteq Keys \X Keys
  /\ written \in 0..CheckBytes
  /\ cleaners \in 0..MaxCleaners
  /\ pending \in BOOLEAN /\ cleaner \in {"none", "cleaning", "done"}
  /\ answer \in Values \cup {None, "ok", "failed"}

Init ==
  /\ file = [k \in Keys |-> NoFile] /\ older = {}
  /\ written = 0
  /\ cleaners = 0 /\ pending = FALSE /\ cleaner = "none"
  /\ answer = None

In(state) == {k \in Keys : file[k].state = state}
Present == Keys \ In("absent")
\* The entries that Cleanup and the eviction can read.
Readable == In("valid") \cup In("expired")

-----------------------------------------------------------------------------
(* The files.                                                               *)

write(k, v, state) ==
  /\ file' = [file EXCEPT ![k] = [value |-> v, state |-> state]]
  /\ older' = {p \in older : k # p[1] /\ k # p[2]} \cup {<<j, k>> : j \in Present \ {k}}

remove(S) ==
  /\ file' = [k \in Keys |-> IF k \in S THEN NoFile ELSE file[k]]
  /\ older' = {p \in older : p[1] \notin S /\ p[2] \notin S}

\* Time passes.
Expire ==
  /\ \E k \in In("valid") : file' = [file EXCEPT ![k].state = "expired"]
  /\ UNCHANGED <<older, written, cleaning, answer>>

-----------------------------------------------------------------------------
(* Calls.                                                                   *)

\* Fault: the counter goes on after a cleanup was started.
count_NoReset(size) ==
  /\ written' = written + size
  /\ IF written + size > CheckBytes
     THEN cleaners < MaxCleaners /\ cleaners' = cleaners + 1
     ELSE UNCHANGED cleaners

count(size) ==
  IF written + size > CheckBytes
  THEN written' = 0 /\ cleaners < MaxCleaners /\ cleaners' = cleaners + 1
  ELSE written' = written + size /\ UNCHANGED cleaners

Set(k, v) ==
  /\ write(k, v, "valid")
  /\ count(DiskSize[v])
  /\ answer' = "ok"
  /\ UNCHANGED <<pending, cleaner>>

\* The directory cannot be made, the file not be opened, or not be written.
SetFails(k, v) ==
  /\ write(k, v, "torn") \/ UNCHANGED disk
  /\ answer' = "failed"
  /\ UNCHANGED <<written, cleaning>>

\* Fault: an expired entry is returned.
Get_IgnoresExpiry(k) ==
  /\ answer' = IF k \in Readable THEN file[k].value ELSE None
  /\ UNCHANGED <<disk, written, cleaning>>

\* A torn file is an error, and stays.
Get(k) ==
  /\ answer' = IF file[k].state = "valid" THEN file[k].value ELSE None
  /\ IF file[k].state = "expired" THEN remove({k}) ELSE UNCHANGED disk
  /\ UNCHANGED <<written, cleaning>>

Delete(k) ==
  /\ remove({k}) /\ answer' = "ok"
  /\ UNCHANGED <<written, cleaning>>

Clear ==
  /\ remove(Keys) /\ answer' = "ok"
  /\ UNCHANGED <<written, cleaning>>

\* Delete cannot remove its file, or Clear not all of them.
RemovalFails ==
  /\ \E S \in SUBSET Present : S # Present /\ remove(S)
  /\ answer' = "failed"
  /\ UNCHANGED <<written, cleaning>>

-----------------------------------------------------------------------------
(* Cleanup.                                                                 *)

size(S) == MapThenSumSet(LAMBDA k : DiskSize[file[k].value], S)
rawSize(S) == MapThenSumSet(LAMBDA k : RawSize[file[k].value], S)

target == (Limit * 80) \div 100

\* Fault: the newest entries go first.
evicted_NewestFirst(S, stuck) ==
  {k \in S \ stuck : rawSize({j \in S : <<k, j>> \notin older \/ j \in stuck}) > target}

\* Fault: one entry too few is evicted.
evicted_StopsEarly(S, stuck) ==
  {k \in S \ stuck : rawSize({j \in S \ {k} : <<j, k>> \notin older \/ j \in stuck}) > target}

\* performLRUEviction: the entries are removed from the oldest on, as long as
\* those that are left are too large.  Some may fail to be removed.
evicted(S, stuck) ==
  {k \in S \ stuck : rawSize({j \in S : <<j, k>> \notin older \/ j \in stuck}) > target}

\* cleanupIfSizeExceeded, which ends at once if another one is at work.
BeginCleanup ==
  /\ cleaners > 0 /\ cleaners' = cleaners - 1
  /\ IF pending THEN UNCHANGED <<pending, cleaner>>
                ELSE pending' = TRUE /\ cleaner' = "cleaning"
  /\ UNCHANGED <<disk, written, answer>>

\* The expired entries go; then, if the files are too large, the oldest ones.
\* A torn file is counted, but cannot be read, so it never goes.
Cleanup(stuck) ==
  /\ cleaner = "cleaning" /\ cleaner' = "done"
  /\ LET expired == In("expired") \ stuck
         tooLarge == Limit > 0 /\ size(Present \ expired) > Limit
     IN  remove(expired \cup IF tooLarge THEN evicted(Readable \ expired, stuck) ELSE {})
  /\ UNCHANGED <<written, cleaners, pending, answer>>

\* Fault: the flag is not cleared when the cleanup fails.
CleanupFails_KeepsFlag ==
  /\ cleaner = "cleaning" /\ cleaner' = "none"
  /\ \E S \in SUBSET In("expired") : remove(S)
  /\ UNCHANGED <<written, cleaners, pending, answer>>

\* The directory cannot be read.
CleanupFails ==
  /\ cleaner = "cleaning" /\ cleaner' = "done"
  /\ \E S \in SUBSET In("expired") : remove(S)
  /\ UNCHANGED <<written, cleaners, pending, answer>>

EndCleanup ==
  /\ cleaner = "done" /\ cleaner' = "none" /\ pending' = FALSE
  /\ UNCHANGED <<disk, written, cleaners, answer>>

-----------------------------------------------------------------------------
\* The process ends, perhaps in the middle of a call, and another one starts.
Restart ==
  /\ \/ UNCHANGED disk
     \/ \E k \in Keys, v \in Values : write(k, v, "torn")
     \/ \E S \in SUBSET Present : remove(S)
  /\ written' = 0
  /\ cleaners' = 0 /\ pending' = FALSE /\ cleaner' = "none"
  /\ UNCHANGED answer

Call == \/ \E k \in Keys : \/ \E v \in Values : Set(k, v) \/ SetFails(k, v)
                           \/ Get(k) \/ Delete(k)
        \/ Clear \/ RemovalFails

Run == (\E stuck \in SUBSET Readable : Cleanup(stuck)) \/ CleanupFails

Next == Call \/ BeginCleanup \/ Run \/ EndCleanup \/ Expire \/ Restart

Spec == Init /\ [][Next]_vars

\* The goroutines run.
LiveSpec == Spec /\ WF_vars(BeginCleanup) /\ WF_vars(Run) /\ WF_vars(EndCleanup)

-----------------------------------------------------------------------------
(* Properties.                                                              *)

\* A reader is never given anything but the value that was set last: not one
\* that has expired, been replaced or deleted, or been written in part.
contents == [k \in Keys |-> IF file[k].state = "valid" THEN file[k].value ELSE None]
PM == INSTANCE PartialMap WITH map <- contents
RefinesPartialMap == PM!Spec

\* What a cleanup evicts is older than anything it leaves, and it evicts
\* nothing while the directory is within the limit.
EvictsOldest ==
  [][Cleanup({}) => LET gone == {k \in In("valid") : file'[k] = NoFile}
                IN  /\ gone # {} => size(Present) > Limit
                    /\ \A k \in gone, j \in In("valid") \ gone : <<k, j>> \in older]_vars

\* performLRUEviction "removes the least recently used cache entries until size is
\* under limit": after a cleanup that could remove what it wanted, the files of
\* the entries are within the limit.
EvictionSuffices == [][Cleanup({}) /\ In("torn") = {} => size(Present)' <= Limit]_vars

\* A cleanup that was started takes place, or joins one that does, however
\* earlier ones ended; unless the process ends.
CleanupTakesPlace == cleaners > 0 ~> cleaner = "done" \/ (cleaners = 0 /\ ~pending)
=============================================================================
