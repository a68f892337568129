----------------------------- MODULE CacheProofs -----------------------------
(***************************************************************************)
(* Proofs about the cache, for any keys, values, sizes and limits: its     *)
(* variables keep their types; it implements a map that may lose entries   *)
(* and never returns a stale one; a cleanup evicts the oldest entries, and *)
(* enough of them unless files are much larger than their values.          *)
(***************************************************************************)
EXTENDS Cache, FiniteSetTheorems, TLAPS

\* What writing one file does to the files.
LEMMA WriteFile ==
  ASSUME TypeOK, NEW k \in Keys, NEW v \in Values,
         NEW state \in {"valid", "expired", "torn"}, write(k, v, state)
  PROVE  /\ file' \in [Keys -> File \cup {NoFile}]
         /\ older' \subseteq Keys \X Keys
         /\ file'[k] = [value |-> v, state |-> state]
         /\ \A j \in Keys \ {k} : file'[j] = file[j]
  BY DEF TypeOK, write, File, Present, In

\* What removing files does to them.
LEMMA RemoveFiles ==
  ASSUME TypeOK, NEW S, remove(S)
  PROVE  /\ file' \in [Keys -> File \cup {NoFile}]
         /\ older' \subseteq Keys \X Keys
         /\ \A j \in Keys : file'[j] = IF j \in S THEN NoFile ELSE file[j]
  BY DEF TypeOK, remove

\* The counter never passes the size at which it is reset.
LEMMA Counting ==
  ASSUME TypeOK, NEW v \in Values, count(DiskSize[v])
  PROVE  written' \in 0..CheckBytes /\ cleaners' \in 0..MaxCleaners
  <1>1. DiskSize[v] \in Nat
    BY SizesAssumption
  <1>2. CASE written + DiskSize[v] > CheckBytes
    BY <1>1, <1>2, SizesAssumption DEF TypeOK, count
  <1>3. CASE ~(written + DiskSize[v] > CheckBytes)
    BY <1>1, <1>3, SizesAssumption DEF TypeOK, count
  <1> QED
    BY <1>2, <1>3

\* Every step keeps the types.
LEMMA TypePreserved == TypeOK /\ [Next]_vars => TypeOK'
<1> SUFFICES ASSUME TypeOK, [Next]_vars PROVE TypeOK'
  OBVIOUS
<1>1. ASSUME NEW k \in Keys, NEW v \in Values, Set(k, v) PROVE TypeOK'
  <2>1. write(k, v, "valid") /\ count(DiskSize[v]) /\ answer' = "ok"
        /\ UNCHANGED <<pending, cleaner>>
    BY <1>1 DEF Set
  <2> QED
    BY <2>1, WriteFile, Counting DEF TypeOK
<1>2. ASSUME NEW k \in Keys, NEW v \in Values, SetFails(k, v) PROVE TypeOK'
  <2>1. CASE write(k, v, "torn")
    BY <1>2, <2>1, WriteFile DEF TypeOK, SetFails, cleaning
  <2>2. CASE UNCHANGED disk
    BY <1>2, <2>2 DEF TypeOK, SetFails, cleaning, disk
  <2> QED
    BY <1>2, <2>1, <2>2 DEF SetFails
<1>3. ASSUME NEW k \in Keys, Get(k) PROVE TypeOK'
  <2>1. answer' \in Values \cup {None}
    BY <1>3 DEF Get, TypeOK, File, NoFile
  <2>2. CASE remove({k})
    BY <1>3, <2>1, <2>2, RemoveFiles DEF TypeOK, Get, cleaning
  <2>3. CASE UNCHANGED disk
    BY <1>3, <2>1, <2>3 DEF TypeOK, Get, cleaning, disk
  <2> QED
    BY <1>3, <2>2, <2>3 DEF Get
<1>4. ASSUME NEW S, remove(S), answer' \in {"ok", "failed"}, UNCHANGED <<written, cleaning>>
      PROVE  TypeOK'
  BY <1>4, RemoveFiles DEF TypeOK, cleaning
<1>5. ASSUME BeginCleanup PROVE TypeOK'
  <2>1. cleaners' \in 0..MaxCleaners
    BY <1>5, SizesAssumption DEF TypeOK, BeginCleanup
  <2>2. pending' \in BOOLEAN /\ cleaner' \in {"none", "cleaning", "done"}
    BY <1>5 DEF TypeOK, BeginCleanup
  <2> QED
    BY <1>5, <2>1, <2>2 DEF TypeOK, BeginCleanup, disk
<1>6. ASSUME NEW S, remove(S), cleaner' = "done", UNCHANGED <<written, cleaners, pending, answer>>
      PROVE  TypeOK'
  BY <1>6, RemoveFiles DEF TypeOK
<1>7. ASSUME EndCleanup PROVE TypeOK'
  BY <1>7 DEF TypeOK, EndCleanup, disk
<1>8. ASSUME Expire PROVE TypeOK'
  BY <1>8 DEF TypeOK, Expire, In, File, NoFile, cleaning
<1>9. ASSUME Restart PROVE TypeOK'
  <2>1. /\ file' \in [Keys -> File \cup {NoFile}]
        /\ older' \subseteq Keys \X Keys
    <3>1. CASE UNCHANGED disk
      BY <3>1 DEF disk, TypeOK
    <3>2. ASSUME NEW k \in Keys, NEW v \in Values, write(k, v, "torn") PROVE <2>1!1 /\ <2>1!2
      BY <3>2, WriteFile
    <3>3. ASSUME NEW S, remove(S) PROVE <2>1!1 /\ <2>1!2
      BY <3>3, RemoveFiles
    <3> QED
      BY <1>9, <3>1, <3>2, <3>3 DEF Restart
  <2>2. written' \in 0..CheckBytes /\ cleaners' \in 0..MaxCleaners
    BY <1>9, SizesAssumption DEF Restart
  <2>3. pending' \in BOOLEAN /\ cleaner' \in {"none", "cleaning", "done"}
    BY <1>9 DEF Restart
  <2> QED
    BY <1>9, <2>1, <2>2, <2>3 DEF TypeOK, Restart
<1>10. CASE UNCHANGED vars
  BY <1>10 DEF TypeOK, vars, disk, cleaning
<1>11. ASSUME Call PROVE TypeOK'
  BY <1>1, <1>2, <1>3, <1>4, <1>11 DEF Call, Delete, Clear, RemovalFails
<1>12. ASSUME Run PROVE TypeOK'
  BY <1>6, <1>12 DEF Run, Cleanup, CleanupFails
<1> QED
  BY <1>5, <1>7, <1>8, <1>9, <1>10, <1>11, <1>12 DEF Next

LEMMA TypedInitially == Init => TypeOK
<1> SUFFICES ASSUME Init PROVE TypeOK
  OBVIOUS
<1>1. 0 \in 0..CheckBytes /\ 0 \in 0..MaxCleaners
  BY SizesAssumption
<1>2. file \in [Keys -> File \cup {NoFile}]
  BY DEF Init
<1> QED
  BY <1>1, <1>2 DEF Init, TypeOK

\* Every variable keeps its type; above all, writtenSinceCleanup stays within the
\* size at which a cleanup is started (cache.go:127-131).
THEOREM TypeCorrect == Spec => []TypeOK
  BY TypedInitially, TypePreserved, PTL DEF Spec

-----------------------------------------------------------------------------
\* Removing files removes their contents.
LEMMA RemovedContents ==
  ASSUME TypeOK, NEW S, remove(S)
  PROVE  contents' = PM!without(S)
  BY RemoveFiles DEF contents, PM!without, NoFile

LEMMA InitImplements == Init => PM!Init
  BY DEF Init, PM!Init, contents, NoFile

\* Every step of the cache is one of the map, or none.
LEMMA StepImplements ==
  TypeOK /\ [Next]_vars => [PM!Next]_<<contents, answer>>
<1> SUFFICES ASSUME TypeOK, [Next]_vars
             PROVE  [PM!Next]_<<contents, answer>>
  OBVIOUS
<1>1. ASSUME NEW k \in Keys, NEW v \in Values, Set(k, v) PROVE PM!Set(k, v)
  <2>1. write(k, v, "valid") /\ answer' = "ok"
    BY <1>1 DEF Set
  <2>2. /\ file'[k] = [value |-> v, state |-> "valid"]
        /\ \A j \in Keys \ {k} : file'[j] = file[j]
    BY <2>1, WriteFile
  <2>3. contents' = [contents EXCEPT ![k] = v]
    <3>1. contents'[k] = v
      BY <2>2 DEF contents
    <3>2. \A j \in Keys \ {k} : contents'[j] = contents[j]
      BY <2>2 DEF contents
    <3> QED
      BY <3>1, <3>2 DEF contents
  <2> QED
    BY <2>1, <2>3 DEF PM!Set
<1>2. ASSUME NEW k \in Keys, NEW v \in Values, SetFails(k, v) PROVE PM!Fails(k)
  <2>1. CASE write(k, v, "torn")
    <3>1. /\ file'[k] = [value |-> v, state |-> "torn"]
          /\ \A j \in Keys \ {k} : file'[j] = file[j]
      BY <2>1, WriteFile
    <3>2. contents' = PM!without({k})
      BY <3>1 DEF contents, PM!without
    <3> QED
      BY <1>2, <3>2 DEF SetFails, PM!Fails
  <2>2. CASE UNCHANGED disk
    <3>1. contents' = contents
      BY <2>2 DEF contents, disk
    <3> QED
      BY <1>2, <3>1 DEF SetFails, PM!Fails
  <2> QED
    BY <1>2, <2>1, <2>2 DEF SetFails
<1>3. ASSUME NEW k \in Keys, Get(k) PROVE PM!Get(k)
  <2>1. answer' = contents[k]
    BY <1>3 DEF Get, contents
  <2>2. contents' = contents
    <3>1. CASE file[k].state = "expired"
      <4>1. contents' = PM!without({k})
        BY <1>3, <3>1, RemovedContents DEF Get
      <4> QED
        BY <3>1, <4>1 DEF contents, PM!without
    <3>2. CASE file[k].state # "expired"
      BY <1>3, <3>2 DEF Get, contents, disk
    <3> QED
      BY <3>1, <3>2
  <2> QED
    BY <2>1, <2>2 DEF PM!Get
<1>4. ASSUME NEW k \in Keys, Delete(k) PROVE PM!Delete(k)
  BY <1>4, RemovedContents DEF Delete, PM!Delete
<1>5. ASSUME Clear PROVE PM!Clear
  BY <1>5, RemovedContents DEF Clear, PM!Clear
<1>6. ASSUME RemovalFails PROVE PM!ClearFails
  <2>1. PICK S \in SUBSET Present : remove(S)
    BY <1>6 DEF RemovalFails
  <2>2. S \in SUBSET Keys /\ contents' = PM!without(S)
    BY <2>1, RemovedContents DEF Present
  <2> QED
    BY <1>6, <2>2 DEF RemovalFails, PM!ClearFails
<1>7. ASSUME NEW S \in SUBSET Keys, remove(S), answer' = answer PROVE PM!Lose
  BY <1>7, RemovedContents DEF PM!Lose
<1>8. ASSUME UNCHANGED disk, UNCHANGED answer PROVE UNCHANGED <<contents, answer>>
  BY <1>8 DEF disk, contents
<1>9. ASSUME Expire PROVE PM!Lose
  <2>1. PICK k \in In("valid") : file' = [file EXCEPT ![k].state = "expired"]
    BY <1>9 DEF Expire
  <2>2. k \in Keys /\ contents' = PM!without({k})
    BY <2>1 DEF In, TypeOK, File, NoFile, contents, PM!without
  <2> QED
    BY <1>9, <2>2 DEF Expire, PM!Lose
<1>10. ASSUME Restart PROVE [PM!Next]_<<contents, answer>>
  <2>1. CASE UNCHANGED disk
    BY <1>8, <1>10, <2>1 DEF Restart
  <2>2. ASSUME NEW k \in Keys, NEW v \in Values, write(k, v, "torn") PROVE PM!Lose
    <3>1. /\ file'[k] = [value |-> v, state |-> "torn"]
          /\ \A j \in Keys \ {k} : file'[j] = file[j]
      BY <2>2, WriteFile
    <3>2. contents' = PM!without({k})
      BY <3>1 DEF contents, PM!without
    <3> QED
      BY <1>10, <3>2 DEF Restart, PM!Lose
  <2>3. ASSUME NEW S \in SUBSET Present, remove(S) PROVE PM!Lose
    BY <1>7, <1>10, <2>3 DEF Restart, Present
  <2> QED
    BY <1>10, <2>1, <2>2, <2>3 DEF Restart, PM!Next
<1>11. ASSUME Call PROVE PM!Next
  BY <1>1, <1>2, <1>3, <1>4, <1>5, <1>6, <1>11 DEF Call, PM!Next
<1>12. ASSUME NEW stuck \in SUBSET Readable, Cleanup(stuck) PROVE PM!Lose
  <2> DEFINE expired == In("expired") \ stuck
             gone == expired \cup IF Limit > 0 /\ size(Present \ expired) > Limit
                                  THEN evicted(Readable \ expired, stuck) ELSE {}
  <2>1. gone \in SUBSET Keys
    BY DEF In, Readable, evicted
  <2>2. remove(gone) /\ answer' = answer
    BY <1>12 DEF Cleanup
  <2> HIDE DEF gone
  <2> QED
    BY <1>7, <2>1, <2>2
<1>13. ASSUME CleanupFails PROVE PM!Lose
  <2>1. PICK S \in SUBSET In("expired") : remove(S)
    BY <1>13 DEF CleanupFails
  <2> QED
    BY <1>7, <1>13, <2>1 DEF CleanupFails, In
<1>14. ASSUME BeginCleanup \/ EndCleanup \/ UNCHANGED vars PROVE UNCHANGED <<contents, answer>>
  BY <1>8, <1>14 DEF BeginCleanup, EndCleanup, vars
<1> QED
  BY <1>9, <1>10, <1>11, <1>12, <1>13, <1>14 DEF Next, Run, PM!Next

\* The cache implements the map: whatever expires, is evicted, fails, or is cut short
\* by a crash, a reader is given the value that was set last or none.
THEOREM ImplementsPartialMap == Spec => RefinesPartialMap
<1>1. Spec => []TypeOK
  BY TypeCorrect
<1> QED
  BY <1>1, InitImplements, StepImplements, PTL DEF Spec, RefinesPartialMap, PM!Spec

(***************************************************************************)
(* Sums over finite sets.  MapThenSumSet takes the elements of a set in    *)
(* an order of its own; what follows says that its function exists, and    *)
(* what does not depend on that order.  Instead of an induction, a least   *)
(* set for which something is false leads to a contradiction.              *)
(***************************************************************************)
Pick(s) == CHOOSE x \in s : TRUE
Adds(g, w, S) == g = [s \in SUBSET S |-> IF s = {} THEN 0 ELSE w[Pick(s)] + g[s \ {Pick(s)}]]

LEMMA PickOne == \A s : s # {} => Pick(s) \in s
  BY DEF Pick

LEMMA AddsUp ==
  ASSUME NEW g, NEW w, NEW S, Adds(g, w, S), NEW s \in SUBSET S
  PROVE  /\ s = {} => g[s] = 0
         /\ s # {} => g[s] = w[Pick(s)] + g[s \ {Pick(s)}]
  <1>1. g = [t \in SUBSET S |-> IF t = {} THEN 0 ELSE w[Pick(t)] + g[t \ {Pick(t)}]]
    BY DEF Adds
  <1>2. g[s] = IF s = {} THEN 0 ELSE w[Pick(s)] + g[s \ {Pick(s)}]
    BY <1>1
  <1> QED
    BY <1>2

\* Of sets of subsets of a finite set, one has no other below it.
LEMMA LeastSet ==
  ASSUME NEW S, IsFiniteSet(S), NEW F, F \subseteq SUBSET S, F # {}
  PROVE  \E s \in F : \A t \in F : t \subseteq s => t = s
  <1> DEFINE R == StrictSubsetOrdering(S)
  <1>1. IsWellFoundedOn(R, FiniteSubsetsOf(S)) /\ FiniteSubsetsOf(S) = SUBSET S
    BY FS_StrictSubsetOrderingWellFounded, FS_FiniteSubsetsOfFinite
  <1>2. IsWellFoundedOn(R, SUBSET S)
    BY <1>1
  <1> HIDE DEF R
  <1>3. PICK s \in F : \A t \in F : ~(<<t, s>> \in R)
    BY <1>2, WFMin
  <1>4. \A t \in F : t \subseteq s => t = s
    BY <1>3 DEF R, StrictSubsetOrdering
  <1> QED
    BY <1>4

\* Two functions that add up the same weights agree.
LEMMA AddsAgree ==
  ASSUME NEW S, NEW T, T \subseteq S, IsFiniteSet(T), NEW v, NEW w, \A x \in T : v[x] = w[x],
         NEW g, Adds(g, v, S), NEW h, Adds(h, w, T), NEW s \in SUBSET T
  PROVE  g[s] = h[s]
  <1> DEFINE bad == {t \in SUBSET T : g[t] # h[t]}
  <1> SUFFICES ASSUME bad # {} PROVE FALSE
    OBVIOUS
  <1>1. PICK t \in bad : \A u \in bad : u \subseteq t => u = t
    <2>1. bad \subseteq SUBSET T
      OBVIOUS
    <2> HIDE DEF bad
    <2> QED
      BY <2>1, LeastSet
  <1>2. t \in SUBSET T /\ t \in SUBSET S /\ g[t] # h[t]
    OBVIOUS
  <1>3. CASE t = {}
    BY <1>2, <1>3, AddsUp
  <1>4. CASE t # {}
    <2>1. Pick(t) \in t /\ t \ {Pick(t)} \in SUBSET T /\ t \ {Pick(t)} # t
      BY <1>2, <1>4, PickOne
    <2>2. g[t \ {Pick(t)}] = h[t \ {Pick(t)}]
      BY <1>1, <2>1
    <2>3. g[t] = v[Pick(t)] + g[t \ {Pick(t)}]
      BY <1>2, <1>4, AddsUp
    <2>4. h[t] = w[Pick(t)] + h[t \ {Pick(t)}]
      BY <1>2, <1>4, AddsUp
    <2> QED
      BY <1>2, <2>1, <2>2, <2>3, <2>4
  <1> QED
    BY <1>3, <1>4

\* The function exists: for the least set without one, those of its parts make one.
LEMMA AddsExist ==
  ASSUME NEW S, IsFiniteSet(S), NEW w
  PROVE  \E g : Adds(g, w, S)
  <1> DEFINE bad == {t \in SUBSET S : \A g : ~Adds(g, w, t)}
  <1> SUFFICES ASSUME bad # {} PROVE FALSE
    OBVIOUS
  <1>1. PICK T \in bad : \A u \in bad : u \subseteq T => u = T
    <2>1. bad \subseteq SUBSET S
      OBVIOUS
    <2> HIDE DEF bad
    <2> QED
      BY <2>1, LeastSet
  <1>2. T \in SUBSET S
    OBVIOUS
  <1> DEFINE G(t) == CHOOSE g : Adds(g, w, t)
             h == [t \in SUBSET T |-> IF t = {} THEN 0 ELSE w[Pick(t)] + G(t \ {Pick(t)})[t \ {Pick(t)}]]
  <1>3. ASSUME NEW t \in SUBSET T, t # T PROVE Adds(G(t), w, t)
    <2>1. t \in SUBSET S /\ t \notin bad
      BY <1>1, <1>2, <1>3
    <2>2. \E g : Adds(g, w, t)
      BY <2>1
    <2> QED
      BY <2>2
  <1> HIDE DEF G, bad
  <1>4. ASSUME NEW u \in SUBSET T, u # T PROVE h[u] = G(u)[u]
    <2>1. Adds(G(u), w, u)
      BY <1>3, <1>4
    <2>2. CASE u = {}
      <3>1. G(u)[u] = 0
        BY <2>1, <2>2, AddsUp
      <3> QED
        BY <2>2, <3>1
    <2>3. CASE u # {}
      <3> DEFINE r == u \ {Pick(u)}
      <3>1. r \in SUBSET T /\ r # T /\ r \subseteq u
        BY <1>4, <2>3, PickOne
      <3>2. Adds(G(r), w, r)
        BY <1>3, <3>1
      <3>3. IsFiniteSet(r)
        BY <1>2, <3>1, FS_Subset
      <3> HIDE DEF r
      <3>4. G(u)[r] = G(r)[r]
        BY <2>1, <3>1, <3>2, <3>3, AddsAgree
      <3>5. G(u)[u] = w[Pick(u)] + G(u)[r]
        BY <2>1, <2>3, AddsUp DEF r
      <3>6. h[u] = w[Pick(u)] + G(r)[r]
        BY <2>3 DEF r
      <3> QED
        BY <3>4, <3>5, <3>6
    <2> QED
      BY <2>2, <2>3
  <1>5. \A t \in SUBSET T : t # {} => h[t \ {Pick(t)}] = G(t \ {Pick(t)})[t \ {Pick(t)}]
    <2> SUFFICES ASSUME NEW t \in SUBSET T, t # {} PROVE h[t \ {Pick(t)}] = G(t \ {Pick(t)})[t \ {Pick(t)}]
      OBVIOUS
    <2>1. t \ {Pick(t)} \in SUBSET T /\ t \ {Pick(t)} # T
      BY PickOne
    <2> HIDE DEF h
    <2> QED
      BY <1>4, <2>1
  <1>6. h = [t \in SUBSET T |-> IF t = {} THEN 0 ELSE w[Pick(t)] + h[t \ {Pick(t)}]]
    BY <1>5
  <1> HIDE DEF h
  <1>7. Adds(h, w, T)
    BY <1>6 DEF Adds
  <1> QED
    BY <1>7 DEF bad

LEMMA AddsNat ==
  ASSUME NEW S, IsFiniteSet(S), NEW w, \A x \in S : w[x] \in Nat, NEW g, Adds(g, w, S), NEW s \in SUBSET S
  PROVE  g[s] \in Nat
  <1> DEFINE bad == {t \in SUBSET S : g[t] \notin Nat}
  <1> SUFFICES ASSUME bad # {} PROVE FALSE
    OBVIOUS
  <1>1. PICK t \in bad : \A u \in bad : u \subseteq t => u = t
    <2>1. bad \subseteq SUBSET S
      OBVIOUS
    <2> HIDE DEF bad
    <2> QED
      BY <2>1, LeastSet
  <1>2. t \in SUBSET S /\ g[t] \notin Nat
    OBVIOUS
  <1>3. t # {}
    BY <1>2, AddsUp
  <1>4. Pick(t) \in t /\ t \ {Pick(t)} \in SUBSET S /\ t \ {Pick(t)} # t
    BY <1>2, <1>3, PickOne
  <1>5. g[t \ {Pick(t)}] \in Nat /\ w[Pick(t)] \in Nat
    BY <1>1, <1>2, <1>4
  <1>6. g[t] = w[Pick(t)] + g[t \ {Pick(t)}]
    BY <1>2, <1>3, AddsUp
  <1> QED
    BY <1>2, <1>5, <1>6

\* The order in which the elements are taken does not matter.
LEMMA AddsAny ==
  ASSUME NEW S, IsFiniteSet(S), NEW w, \A x \in S : w[x] \in Nat, NEW g, Adds(g, w, S),
         NEW s \in SUBSET S, NEW y \in s
  PROVE  g[s] = w[y] + g[s \ {y}]
  <1> DEFINE bad == {t \in SUBSET S : \E z \in t : g[t] # w[z] + g[t \ {z}]}
  <1> SUFFICES ASSUME bad # {} PROVE FALSE
    OBVIOUS
  <1>1. PICK t \in bad : \A u \in bad : u \subseteq t => u = t
    <2>1. bad \subseteq SUBSET S
      OBVIOUS
    <2> HIDE DEF bad
    <2> QED
      BY <2>1, LeastSet
  <1>2. t \in SUBSET S
    OBVIOUS
  <1>3. PICK z \in t : g[t] # w[z] + g[t \ {z}]
    OBVIOUS
  <1> DEFINE x == Pick(t)
             r == t \ {x}
             q == t \ {z}
             p == t \ {x, z}
  <1>4. x \in t /\ g[t] = w[x] + g[r]
    BY <1>2, <1>3, AddsUp, PickOne
  <1>5. x # z
    BY <1>3, <1>4
  <1>6. r \in SUBSET S /\ r # t /\ z \in r /\ q \in SUBSET S /\ q # t /\ x \in q /\ p \in SUBSET S
        /\ r \ {z} = p /\ q \ {x} = p /\ r \subseteq t /\ q \subseteq t
    BY <1>2, <1>4, <1>5
  <1>7. r \notin bad /\ q \notin bad
    BY <1>1, <1>6
  <1> HIDE DEF x, r, q, p
  <1>8. g[r] = w[z] + g[p]
    BY <1>6, <1>7
  <1>9. g[q] = w[x] + g[p]
    BY <1>6, <1>7
  <1>10. g[p] \in Nat /\ w[x] \in Nat /\ w[z] \in Nat
    BY <1>2, <1>4, <1>6, AddsNat
  <1>11. g[t] # w[z] + g[q]
    BY <1>3 DEF q
  <1> HIDE DEF bad
  <1> QED
    BY <1>4, <1>8, <1>9, <1>10, <1>11

\* A part of a set adds up to no more than the set.
LEMMA AddsMore ==
  ASSUME NEW S, IsFiniteSet(S), NEW w, \A x \in S : w[x] \in Nat, NEW g, Adds(g, w, S),
         NEW s \in SUBSET S
  PROVE  g[s] <= g[S]
  <1> DEFINE bad == {t \in SUBSET S : s \subseteq t /\ ~(g[s] <= g[t])}
  <1> SUFFICES ASSUME bad # {} PROVE FALSE
    BY DEF bad
  <1>1. PICK t \in bad : \A u \in bad : u \subseteq t => u = t
    <2>1. bad \subseteq SUBSET S
      OBVIOUS
    <2> HIDE DEF bad
    <2> QED
      BY <2>1, LeastSet
  <1>2. t \in SUBSET S /\ s \subseteq t /\ ~(g[s] <= g[t])
    OBVIOUS
  <1>3. g[s] \in Nat /\ g[t] \in Nat
    BY <1>2, AddsNat
  <1>4. PICK y \in t : y \notin s
    BY <1>2, <1>3
  <1> DEFINE r == t \ {y}
  <1>5. r \in SUBSET S /\ s \subseteq r /\ r # t /\ r \subseteq t
    BY <1>2, <1>4
  <1>6. g[s] <= g[r]
    BY <1>1, <1>5
  <1>7. g[t] = w[y] + g[r] /\ w[y] \in Nat
    BY <1>2, AddsAny
  <1>8. g[r] \in Nat
    BY <1>5, AddsNat
  <1> HIDE DEF bad, r
  <1> QED
    BY <1>2, <1>3, <1>6, <1>7, <1>8

\* What is at most a quarter more for each element is so for their sum.
LEMMA AddsQuarter ==
  ASSUME NEW S, IsFiniteSet(S), NEW v, NEW w, \A x \in S : v[x] \in Nat /\ w[x] \in Nat /\ 4 * v[x] <= 5 * w[x],
         NEW g, Adds(g, v, S), NEW h, Adds(h, w, S)
  PROVE  4 * g[S] <= 5 * h[S]
  <1> DEFINE most(t) == 4 * g[t] <= 5 * h[t]
             bad == {t \in SUBSET S : ~most(t)}
  <1>1. \A t \in SUBSET S : g[t] \in Nat /\ h[t] \in Nat
    BY AddsNat
  <1> HIDE DEF most
  <1> SUFFICES ASSUME bad # {} PROVE FALSE
    <2>1. most(S)
      OBVIOUS
    <2> QED
      BY <2>1 DEF most
  <1>2. PICK t \in bad : \A u \in bad : u \subseteq t => u = t
    <2>1. bad \subseteq SUBSET S
      OBVIOUS
    <2> HIDE DEF bad
    <2> QED
      BY <2>1, LeastSet
  <1>3. t \in SUBSET S /\ ~most(t)
    OBVIOUS
  <1>4. t # {}
    <2>1. t = {} => g[t] = 0 /\ h[t] = 0
      BY <1>3, AddsUp
    <2>2. t = {} => most(t)
      BY <2>1 DEF most
    <2> QED
      BY <1>3, <2>2
  <1> DEFINE x == Pick(t)
             r == t \ {x}
  <1>5. x \in t /\ x \in S /\ r \in SUBSET S /\ r # t /\ r \subseteq t
    BY <1>3, <1>4, PickOne
  <1>6. most(r)
    BY <1>2, <1>5
  <1>7. g[t] = v[x] + g[r] /\ h[t] = w[x] + h[r]
    BY <1>3, <1>4, AddsUp
  <1>8. v[x] \in Nat /\ w[x] \in Nat /\ 4 * v[x] <= 5 * w[x]
    BY <1>5
  <1>9. g[r] \in Nat /\ h[r] \in Nat
    BY <1>1, <1>5
  <1> HIDE DEF bad, x, r
  <1>10. most(t)
    BY <1>6, <1>7, <1>8, <1>9 DEF most
  <1> QED
    BY <1>3, <1>10

-----------------------------------------------------------------------------
\* What the files of some keys hold, or take up: size and rawSize.
Sized(D, f, S) == MapThenSumSet(LAMBDA k : D[f[k].value], S)
Weights(D, f, S) == [k \in S |-> D[f[k].value]]

\* The library's sum of the sizes is such an adding up.
LEMMA SizedAdds ==
  ASSUME NEW D, NEW f, NEW S, IsFiniteSet(S)
  PROVE  \E g : Adds(g, Weights(D, f, S), S) /\ Sized(D, f, S) = g[S]
  <1> DEFINE w == Weights(D, f, S)
             Sum(g) == [s \in SUBSET S |-> IF s = {} THEN 0
                                         ELSE LET x == CHOOSE x \in s : TRUE IN D[f[x].value] + g[s \ {x}]]
             eq(g) == g = Sum(g)
  <1>1. Sized(D, f, S) = (CHOOSE g : eq(g))[S]
    BY DEF Sized, MapThenSumSet, MapThenFoldSet
  <1>2. ASSUME NEW g PROVE eq(g) <=> Adds(g, w, S)
    <2>1. \A s \in SUBSET S : s # {} => (CHOOSE x \in s : TRUE) \in S
      OBVIOUS
    <2>2. Sum(g) = [s \in SUBSET S |-> IF s = {} THEN 0 ELSE w[Pick(s)] + g[s \ {Pick(s)}]]
      BY <2>1 DEF Pick, Weights
    <2> QED
      BY <2>2 DEF Adds
  <1> HIDE DEF w
  <1>3. PICK g : eq(g)
    BY <1>2, AddsExist
  <1> HIDE DEF eq
  <1>4. eq(CHOOSE h : eq(h))
    BY <1>3
  <1> QED
    BY <1>1, <1>2, <1>4 DEF w

Sizes(D, f, S) == \A k \in S : D[f[k].value] \in Nat

\* Fewer files take up no more; no file takes up nothing.
LEMMA SizedMore ==
  ASSUME NEW D, NEW f, NEW S, IsFiniteSet(S), Sizes(D, f, S), NEW T \in SUBSET S
  PROVE  /\ Sized(D, f, T) \in Nat /\ Sized(D, f, S) \in Nat
         /\ Sized(D, f, T) <= Sized(D, f, S)
         /\ T = {} => Sized(D, f, T) = 0
  <1> DEFINE v == Weights(D, f, S)
             w == Weights(D, f, T)
  <1>1. IsFiniteSet(T)
    BY FS_Subset
  <1>2. /\ \A k \in S : v[k] \in Nat
        /\ \A k \in T : w[k] = v[k]
    BY DEF Weights, Sizes
  <1> HIDE DEF v, w
  <1>3. PICK g : Adds(g, v, S) /\ Sized(D, f, S) = g[S]
    BY SizedAdds DEF v
  <1>4. PICK h : Adds(h, w, T) /\ Sized(D, f, T) = h[T]
    BY <1>1, SizedAdds DEF w
  <1>5. g[T] = h[T]
    <2>1. T \subseteq S /\ T \in SUBSET T /\ \A k \in T : v[k] = w[k]
      BY <1>2
    <2> QED
      BY <1>1, <1>3, <1>4, <2>1, AddsAgree
  <1>6. g[S] \in Nat /\ g[T] \in Nat /\ g[T] <= g[S]
    BY <1>2, <1>3, AddsNat, AddsMore
  <1>7. T = {} => h[T] = 0
    BY <1>4, AddsUp
  <1> QED
    BY <1>3, <1>4, <1>5, <1>6, <1>7

\* Only the values of the files count.
LEMMA SizedSame ==
  ASSUME NEW D, NEW f, NEW f1, NEW S, \A k \in S : f1[k].value = f[k].value, IsFiniteSet(S)
  PROVE  Sized(D, f1, S) = Sized(D, f, S)
  <1> DEFINE w == Weights(D, f, S)
  <1>1. Weights(D, f1, S) = w
    BY DEF Weights
  <1> HIDE DEF w
  <1>2. PICK g : Adds(g, w, S) /\ Sized(D, f, S) = g[S]
    BY SizedAdds DEF w
  <1>3. PICK h : Adds(h, w, S) /\ Sized(D, f1, S) = h[S]
    BY <1>1, SizedAdds
  <1>4. g[S] = h[S]
    BY <1>2, <1>3, AddsAgree
  <1> QED
    BY <1>2, <1>3, <1>4

\* A sum of files none of which is more than a quarter larger than its value.
LEMMA SizedQuarter ==
  ASSUME NEW D, NEW R, NEW f, NEW S, IsFiniteSet(S), Sizes(D, f, S), Sizes(R, f, S),
         \A k \in S : 4 * D[f[k].value] <= 5 * R[f[k].value]
  PROVE  4 * Sized(D, f, S) <= 5 * Sized(R, f, S)
  <1> DEFINE v == Weights(D, f, S)
             w == Weights(R, f, S)
  <1>1. \A k \in S : v[k] \in Nat /\ w[k] \in Nat /\ 4 * v[k] <= 5 * w[k]
    BY DEF Weights, Sizes
  <1> HIDE DEF v, w
  <1>2. PICK g : Adds(g, v, S) /\ Sized(D, f, S) = g[S]
    BY SizedAdds DEF v
  <1>3. PICK h : Adds(h, w, S) /\ Sized(R, f, S) = h[S]
    BY SizedAdds DEF w
  <1>4. 4 * g[S] <= 5 * h[S]
    BY <1>1, <1>2, <1>3, AddsQuarter
  <1> QED
    BY <1>2, <1>3, <1>4

(***************************************************************************)
(* The order in which the files were written.                              *)
(***************************************************************************)
Ordered(o, S) ==
  /\ \A p \in o : p[1] \in S /\ p[2] \in S /\ p[1] # p[2]
  /\ \A j, k \in S : j = k \/ <<j, k>> \in o \/ <<k, j>> \in o
  /\ \A j, k, l \in S : <<j, k>> \in o /\ <<k, l>> \in o => <<j, l>> \in o

\* The files that are present, finitely many, are in a strict total order.
OrderOK == TypeOK /\ Ordered(older, Present) /\ IsFiniteSet(Present)

LEMMA WriteOrders ==
  ASSUME OrderOK, NEW k \in Keys, NEW v \in Values,
         NEW state \in {"valid", "expired", "torn"}, write(k, v, state)
  PROVE  Ordered(older, Present)' /\ IsFiniteSet(Present)'
  <1> DEFINE S == Present
  <1>1. /\ file'[k] = [value |-> v, state |-> state]
        /\ \A j \in Keys \ {k} : file'[j] = file[j]
    BY WriteFile DEF OrderOK
  <1>2. Present' = S \cup {k}
    BY <1>1 DEF Present, In
  <1>3. IsFiniteSet(S \cup {k})
    BY FS_AddElement DEF OrderOK
  <1>4. Ordered(older, S) /\ older \subseteq Keys \X Keys
    BY DEF OrderOK, TypeOK
  <1>5. older' = {p \in older : k # p[1] /\ k # p[2]} \cup {<<j, k>> : j \in S \ {k}}
    BY DEF write
  <1> HIDE DEF S
  <1>6. \A i, j : <<i, j>> \in older' <=> i \in S \ {k} /\ (j = k \/ (j # k /\ <<i, j>> \in older))
    BY <1>4, <1>5 DEF Ordered
  <1>7. \A p \in older' : p = <<p[1], p[2]>>
    BY <1>4, <1>5
  <1>8. Ordered(older', S \cup {k})
    <2>1. \A p \in older' : p[1] \in S \cup {k} /\ p[2] \in S \cup {k} /\ p[1] # p[2]
      BY <1>4, <1>5 DEF Ordered
    <2>2. \A i, j \in S \cup {k} : i = j \/ <<i, j>> \in older' \/ <<j, i>> \in older'
      <3> SUFFICES ASSUME NEW i \in S \cup {k}, NEW j \in S \cup {k}, i # j
                   PROVE  <<i, j>> \in older' \/ <<j, i>> \in older'
        OBVIOUS
      <3>1. CASE j = k
        BY <1>6, <3>1
      <3>2. CASE i = k
        BY <1>6, <3>2
      <3>3. CASE i # k /\ j # k
        <4>1. <<i, j>> \in older \/ <<j, i>> \in older
          BY <1>4, <3>3 DEF Ordered
        <4> QED
          BY <1>6, <3>3, <4>1
      <3> QED
        BY <3>1, <3>2, <3>3
    <2>3. \A i, j, l \in S \cup {k} : <<i, j>> \in older' /\ <<j, l>> \in older' => <<i, l>> \in older'
      BY <1>4, <1>6 DEF Ordered
    <2> QED
      BY <2>1, <2>2, <2>3 DEF Ordered
  <1> QED
    BY <1>2, <1>3, <1>8

LEMMA RemoveOrders ==
  ASSUME OrderOK, NEW R, remove(R)
  PROVE  /\ Ordered(older, Present)' /\ IsFiniteSet(Present)' /\ Present' = Present \ R
  <1> DEFINE S == Present
  <1>1. \A j \in Keys : file'[j] = IF j \in R THEN NoFile ELSE file[j]
    BY RemoveFiles DEF OrderOK
  <1>2. Present' = S \ R
    BY <1>1 DEF Present, In, NoFile
  <1>3. IsFiniteSet(S \ R)
    BY FS_Subset DEF OrderOK
  <1>4. Ordered(older, S)
    BY DEF OrderOK
  <1>5. older' = {p \in older : p[1] \notin R /\ p[2] \notin R}
    BY DEF remove
  <1> HIDE DEF S
  <1>6. Ordered(older', S \ R)
    <2>1. \A p \in older' : p[1] \in S \ R /\ p[2] \in S \ R /\ p[1] # p[2]
      BY <1>4, <1>5 DEF Ordered
    <2>2. \A i, j \in S \ R : <<i, j>> \in older' <=> <<i, j>> \in older
      BY <1>5
    <2> QED
      BY <1>4, <2>1, <2>2 DEF Ordered
  <1> QED
    BY <1>2, <1>3, <1>6 DEF S

LEMMA SameOrder ==
  ASSUME OrderOK, UNCHANGED older, Present' = Present
  PROVE  Ordered(older, Present)' /\ IsFiniteSet(Present)'
  BY DEF OrderOK

LEMMA SameDisk ==
  ASSUME OrderOK, UNCHANGED disk
  PROVE  Ordered(older, Present)' /\ IsFiniteSet(Present)'
  BY SameOrder DEF disk, Present, In

LEMMA OrderPreserved == OrderOK /\ [Next]_vars => OrderOK'
  <1> DEFINE P == Ordered(older, Present)' /\ IsFiniteSet(Present)'
  <1> SUFFICES ASSUME OrderOK, [Next]_vars PROVE P
    BY TypePreserved DEF OrderOK
  <1>1. CASE UNCHANGED disk
    BY <1>1, SameDisk
  <1>2. ASSUME NEW R, remove(R) PROVE P
    BY <1>2, RemoveOrders
  <1>3. ASSUME NEW k \in Keys, NEW v \in Values, write(k, v, "valid") \/ write(k, v, "torn") PROVE P
    BY <1>3, WriteOrders
  <1>4. CASE Expire
    <2>1. PICK k \in In("valid") : file' = [file EXCEPT ![k].state = "expired"]
      BY <1>4 DEF Expire
    <2>2. k \in Keys /\ file[k].state = "valid" /\ file \in [Keys -> File \cup {NoFile}]
      BY DEF In, OrderOK, TypeOK
    <2>3. file'[k].state = "expired" /\ \A j \in Keys \ {k} : file'[j] = file[j]
      BY <2>1, <2>2 DEF File, NoFile
    <2>4. Present' = Present
      BY <2>2, <2>3 DEF Present, In
    <2> QED
      BY <1>4, <2>4, SameOrder DEF Expire
  <1> HIDE DEF P
  <1>5. CASE Call
    <2>1. ASSUME NEW k \in Keys, NEW v \in Values, Set(k, v) \/ SetFails(k, v) PROVE P
      BY <1>1, <1>3, <2>1 DEF Set, SetFails, P
    <2>2. ASSUME NEW k \in Keys, Get(k) \/ Delete(k) PROVE P
      BY <1>1, <1>2, <2>2 DEF Get, Delete, P
    <2>3. CASE Clear \/ RemovalFails
      <3>1. \E R : remove(R)
        BY <2>3 DEF Clear, RemovalFails
      <3> QED
        BY <1>2, <3>1
    <2> QED
      BY <1>5, <2>1, <2>2, <2>3 DEF Call
  <1>6. CASE Run
    <2>1. \E R : remove(R)
      <3>1. ASSUME NEW stuck, Cleanup(stuck) PROVE \E R : remove(R)
        <4> DEFINE gone == In("expired") \ stuck
                   more == IF Limit > 0 /\ size(Present \ gone) > Limit THEN evicted(Readable \ gone, stuck) ELSE {}
        <4>1. remove(gone \cup more)
          BY <3>1 DEF Cleanup
        <4> HIDE DEF gone, more
        <4> QED
          BY <4>1
      <3>2. ASSUME CleanupFails PROVE \E R : remove(R)
        BY <3>2 DEF CleanupFails
      <3> QED
        BY <1>6, <3>1, <3>2 DEF Run
    <2> QED
      BY <1>2, <2>1
  <1>7. CASE BeginCleanup \/ EndCleanup \/ UNCHANGED vars
    BY <1>1, <1>7 DEF BeginCleanup, EndCleanup, vars, P
  <1>8. CASE Restart
    BY <1>1, <1>2, <1>3, <1>8 DEF Restart, P
  <1> QED
    BY <1>4, <1>5, <1>6, <1>7, <1>8 DEF Next, P

LEMMA AlwaysOrdered == Spec => []OrderOK
  <1>1. Init => OrderOK
    <2> SUFFICES ASSUME Init PROVE OrderOK
      OBVIOUS
    <2>1. Present = {} /\ older = {}
      BY DEF Init, Present, In, NoFile
    <2>2. IsFiniteSet({})
      BY FS_EmptySet
    <2>3. TypeOK
      BY TypedInitially
    <2> QED
      BY <2>1, <2>2, <2>3 DEF OrderOK, Ordered
  <1> QED
    BY <1>1, OrderPreserved, PTL DEF Spec

-----------------------------------------------------------------------------
(* A cleanup that can remove what it wants to.                              *)

\* What is written on the disk has a size.
LEMMA FilesSized ==
  ASSUME TypeOK
  PROVE  Sizes(DiskSize, file, Present) /\ Sizes(RawSize, file, Present)
  <1>1. \A k \in Present : file[k].value \in Values
    BY DEF TypeOK, Present, In, File, NoFile
  <1> QED
    BY <1>1, SizesAssumption DEF Sizes

LEMMA SizeIsSized == \A S : size(S) = Sized(DiskSize, file, S) /\ rawSize(S) = Sized(RawSize, file, S)
  BY DEF size, rawSize, Sized

\* An entry that is evicted has no older one that is not.
LEMMA EvictedAreOldest ==
  ASSUME OrderOK, NEW S \in SUBSET Present, NEW k \in evicted(S, {}), NEW j \in S \ evicted(S, {})
  PROVE  <<k, j>> \in older
  <1> DEFINE from(i) == {l \in S : <<l, i>> \notin older}
  <1>1. k \in S /\ rawSize(from(k)) > target
    BY DEF evicted
  <1>2. ~(rawSize(from(j)) > target)
    BY DEF evicted
  <1>3. SUFFICES ASSUME <<k, j>> \notin older PROVE FALSE
    OBVIOUS
  <1>4. <<j, k>> \in older /\ j # k
    BY <1>1, <1>2, <1>3 DEF OrderOK, Ordered
  <1>5. from(k) \subseteq from(j)
    <2> SUFFICES ASSUME NEW l \in S, <<l, k>> \notin older, <<l, j>> \in older PROVE FALSE
      OBVIOUS
    <2> QED
      BY <1>1, <1>4 DEF OrderOK, Ordered
  <1>6. from(j) \subseteq Present
    OBVIOUS
  <1> HIDE DEF from
  <1>7. /\ rawSize(from(k)) \in Nat /\ rawSize(from(j)) \in Nat
        /\ rawSize(from(k)) <= rawSize(from(j))
    <2>1. IsFiniteSet(from(j)) /\ Sizes(RawSize, file, from(j))
      BY <1>6, FilesSized, FS_Subset DEF OrderOK, Sizes
    <2> QED
      BY <1>5, <2>1, SizedMore, SizeIsSized
  <1>8. target \in Int
    BY SizesAssumption DEF target
  <1> QED
    BY <1>1, <1>2, <1>7, <1>8

\* What a cleanup that can remove what it wants to does to the files.
LEMMA CleanupRemoves ==
  ASSUME OrderOK, Cleanup({})
  PROVE  LET live == In("valid") \cup In("torn")
             evict == IF Limit > 0 /\ size(live) > Limit THEN evicted(In("valid"), {}) ELSE {}
         IN  /\ evict \subseteq In("valid") /\ live \subseteq Present
             /\ Present' = live \ evict
             /\ \A k \in live \ evict : file'[k] = file[k]
             /\ \A k \in evict : file'[k] = NoFile
  <1> DEFINE live == In("valid") \cup In("torn")
             evict == IF Limit > 0 /\ size(live) > Limit THEN evicted(In("valid"), {}) ELSE {}
  <1>1. file \in [Keys -> File \cup {NoFile}]
    BY DEF OrderOK, TypeOK
  <1>2. /\ Present \ (In("expired") \ {}) = live
        /\ Readable \ (In("expired") \ {}) = In("valid")
        /\ live \subseteq Present /\ Present = live \cup In("expired") /\ live \cap In("expired") = {}
    BY <1>1 DEF Present, Readable, In, File, NoFile
  <1>3. remove((In("expired") \ {}) \cup evict)
    BY <1>2 DEF Cleanup
  <1>4. evict \subseteq In("valid")
    BY DEF evicted
  <1> DEFINE R == (In("expired") \ {}) \cup evict
  <1> HIDE DEF evict, live
  <1>5. Present' = Present \ R /\ \A j \in Keys : file'[j] = IF j \in R THEN NoFile ELSE file[j]
    BY <1>3, RemoveOrders, RemoveFiles DEF OrderOK
  <1>6. Present' = live \ evict
    BY <1>2, <1>5
  <1>7. In("valid") \subseteq Keys /\ Present \subseteq Keys
    BY DEF Present, In
  <1>8. \A k \in live \ evict : file'[k] = file[k]
    BY <1>2, <1>5, <1>7
  <1>9. \A k \in evict : file'[k] = NoFile
    BY <1>4, <1>5, <1>7
  <1> QED
    BY <1>2, <1>4, <1>6, <1>8, <1>9 DEF live, evict

LEMMA EvictsOldestStep ==
  ASSUME OrderOK, Cleanup({})
  PROVE  LET gone == {k \in In("valid") : file'[k] = NoFile}
         IN  /\ gone # {} => size(Present) > Limit
             /\ \A k \in gone, j \in In("valid") \ gone : <<k, j>> \in older
  <1> DEFINE live == In("valid") \cup In("torn")
             evict == IF Limit > 0 /\ size(live) > Limit THEN evicted(In("valid"), {}) ELSE {}
             gone == {k \in In("valid") : file'[k] = NoFile}
  <1>1. /\ evict \subseteq In("valid") /\ live \subseteq Present
        /\ \A k \in live \ evict : file'[k] = file[k]
        /\ \A k \in evict : file'[k] = NoFile
    BY CleanupRemoves
  <1>2. \A k \in In("valid") : file[k] # NoFile
    BY DEF In, NoFile
  <1>3. gone = evict
    BY <1>1, <1>2
  <1>4. evict # {} => size(live) > Limit /\ evict = evicted(In("valid"), {})
    OBVIOUS
  <1> HIDE DEF evict, live, gone
  <1>5. gone # {} => size(Present) > Limit
    <2>1. /\ size(live) \in Nat /\ size(Present) \in Nat /\ size(live) <= size(Present)
      BY <1>1, FilesSized, SizedMore, SizeIsSized DEF OrderOK
    <2> QED
      BY <1>3, <1>4, <2>1, SizesAssumption
  <1>6. In("valid") \in SUBSET Present
    BY DEF Present, In
  <1>7. \A k \in gone, j \in In("valid") \ gone : <<k, j>> \in older
    BY <1>3, <1>4, <1>6, EvictedAreOldest
  <1> QED
    BY <1>5, <1>7 DEF gone

\* What is left is within the target: the oldest entry that is left was not evicted.
LEMMA KeptFits ==
  ASSUME OrderOK, NEW S \in SUBSET Present
  PROVE  rawSize(S \ evicted(S, {})) <= target
  <1> DEFINE kept == S \ evicted(S, {})
             above(i) == {l \in kept : <<i, l>> \in older}
  <1>0. kept \subseteq S /\ kept \subseteq Present /\ IsFiniteSet(kept) /\ 0 <= target
    <2>1. 0 <= target
      BY SizesAssumption DEF target
    <2>2. kept \subseteq Present
      OBVIOUS
    <2> HIDE DEF kept
    <2>3. IsFiniteSet(kept)
      BY <2>2, FS_Subset DEF OrderOK
    <2> QED
      BY <2>1, <2>2, <2>3 DEF kept
  <1>1. CASE kept = {}
    <2>1. rawSize({}) = 0
      BY FilesSized, SizedMore, SizeIsSized DEF OrderOK
    <2> QED
      BY <1>0, <1>1, <2>1
  <1>2. CASE kept # {}
    <2>1. PICK m \in kept : \A i \in kept : <<i, m>> \notin older
      <3> HIDE DEF kept
      <3> DEFINE F == {{l \in kept : <<l, i>> \in older} : i \in kept}
      <3>1. F \subseteq SUBSET kept /\ F # {}
        BY <1>2
      <3> HIDE DEF F
      <3>2. PICK s \in F : \A t \in F : t \subseteq s => t = s
        BY <1>0, <3>1, LeastSet
      <3>3. PICK m \in kept : s = {l \in kept : <<l, m>> \in older}
        BY DEF F
      <3>4. ASSUME NEW i \in kept, <<i, m>> \in older PROVE FALSE
        <4> DEFINE t == {l \in kept : <<l, i>> \in older}
        <4>1. t \in F
          BY DEF F
        <4>2. t \subseteq s
          BY <1>0, <3>3, <3>4 DEF OrderOK, Ordered
        <4>3. i \in s /\ i \notin t
          <5>1. <<i, i>> \notin older
            BY DEF OrderOK, Ordered
          <5> QED
            BY <3>3, <3>4, <5>1
        <4> QED
          BY <3>2, <4>1, <4>2, <4>3
      <3> QED
        BY <3>4
    <2>2. rawSize({l \in S : <<l, m>> \notin older}) <= target
      <3> DEFINE T == {l \in S : <<l, m>> \notin older}
      <3>1. ~(rawSize(T) > target)
        BY DEF evicted
      <3>2. T \subseteq Present
        OBVIOUS
      <3> HIDE DEF T
      <3>3. rawSize(T) \in Nat
        BY <3>2, FilesSized, SizedMore, SizeIsSized DEF OrderOK
      <3>4. target \in Int
        BY SizesAssumption DEF target
      <3> QED
        BY <3>1, <3>3, <3>4 DEF T
    <2> DEFINE T == {l \in S : <<l, m>> \notin older}
    <2>3. kept \subseteq T /\ T \subseteq Present
      BY <2>1
    <2> HIDE DEF T, kept
    <2>4. rawSize(kept) \in Nat /\ rawSize(T) \in Nat /\ rawSize(kept) <= rawSize(T)
      <3>1. IsFiniteSet(T) /\ Sizes(RawSize, file, T)
        BY <2>3, FilesSized, FS_Subset DEF OrderOK, Sizes
      <3> QED
        BY <2>3, <3>1, SizedMore, SizeIsSized
    <2>5. target \in Int
      BY SizesAssumption DEF target
    <2> QED
      BY <2>2, <2>4, <2>5 DEF T, kept
  <1> QED
    BY <1>1, <1>2

\* No file is more than a quarter larger than its value.
SmallFiles == \A v \in Values : 4 * DiskSize[v] <= 5 * RawSize[v]

LEMMA EvictionSufficesStep ==
  ASSUME OrderOK, SmallFiles, Limit > 0, Cleanup({}), In("torn") = {}
  PROVE  size(Present)' <= Limit
  <1> DEFINE V == In("valid")
             evict == IF size(V) > Limit THEN evicted(V, {}) ELSE {}
             kept == V \ evict
  <1>1. /\ Present' = kept
        /\ \A k \in kept : file'[k] = file[k]
    BY CleanupRemoves
  <1>2. V \in SUBSET Present /\ kept \subseteq Present
    BY DEF Present, In
  <1>3. size(Present)' = Sized(DiskSize, file', Present')
    BY DEF size, Sized, MapThenSumSet, MapThenFoldSet
  <1>4. target \in Nat /\ 5 * target <= 4 * Limit /\ Limit \in Nat
    BY SizesAssumption DEF target
  <1>5. ~(size(V) > Limit) => kept = V
    OBVIOUS
  <1>6. size(V) > Limit => kept = V \ evicted(V, {})
    OBVIOUS
  <1> HIDE DEF kept, evict, V
  <1>7. IsFiniteSet(kept) /\ Sizes(DiskSize, file, kept) /\ Sizes(RawSize, file, kept)
    BY <1>2, FilesSized, FS_Subset DEF OrderOK, Sizes
  <1>8. size(Present)' = size(kept)
    BY <1>1, <1>3, <1>7, SizedSame, SizeIsSized
  <1>9. size(kept) \in Nat /\ rawSize(kept) \in Nat
    BY <1>7, SizedMore, SizeIsSized
  <1>10. CASE ~(size(V) > Limit)
    BY <1>4, <1>5, <1>8, <1>9, <1>10
  <1>11. CASE size(V) > Limit
    <2>1. rawSize(kept) <= target
      BY <1>2, <1>6, <1>11, KeptFits
    <2>2. \A k \in kept : 4 * DiskSize[file[k].value] <= 5 * RawSize[file[k].value]
      <3>1. \A k \in kept : file[k].value \in Values
        BY <1>2 DEF OrderOK, TypeOK, Present, In, File, NoFile
      <3> QED
        BY <3>1 DEF SmallFiles
    <2>3. 4 * size(kept) <= 5 * rawSize(kept)
      BY <1>7, <2>2, SizedQuarter, SizeIsSized
    <2> QED
      BY <1>4, <1>8, <1>9, <2>1, <2>3
  <1> QED
    BY <1>10, <1>11

\* performLRUEviction (cache.go): a cleanup that can remove what it wants to evicts
\* nothing while the files are within the limit, and what it evicts is older than
\* anything it leaves; whatever was written, expired, removed, or torn by a crash before.
THEOREM EvictsInOrder == Spec => EvictsOldest
  <1>1. OrderOK /\ [Next]_vars =>
          [Cleanup({}) => LET gone == {k \in In("valid") : file'[k] = NoFile}
                          IN  /\ gone # {} => size(Present) > Limit
                              /\ \A k \in gone, j \in In("valid") \ gone : <<k, j>> \in older]_vars
    BY EvictsOldestStep
  <1> QED
    BY <1>1, AlwaysOrdered, PTL DEF Spec, EvictsOldest

\* The target of an eviction is measured in values, the limit in files (cache.go).  After a
\* cleanup that can read and remove what it wants to, the files are within the limit if
\* no file is more than a quarter larger than its value, the target being four fifths of
\* the limit.  Base64 alone makes a file a third larger, so that depends on compression.
THEOREM EvictionsSuffice == Limit > 0 /\ SmallFiles => (Spec => EvictionSuffices)
  <1> SUFFICES ASSUME Limit > 0, SmallFiles PROVE Spec => EvictionSuffices
    OBVIOUS
  <1>1. OrderOK /\ [Next]_vars => [Cleanup({}) /\ In("torn") = {} => size(Present)' <= Limit]_vars
    BY EvictionSufficesStep
  <1> QED
    BY <1>1, AlwaysOrdered, PTL DEF Spec, EvictionSuffices
=============================================================================
