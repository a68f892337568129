-------------------------- MODULE MailWindowProofs --------------------------
(***************************************************************************)
(* Proofs about the message list of the main window.                       *)
(***************************************************************************)
EXTENDS MailWindow, FiniteSetTheorems, FunctionTheorems, TLAPS

(***************************************************************************)
(* Ranks.  In a finite set with a strict total order there is exactly one  *)
(* element for every number of elements before it.                         *)
(***************************************************************************)
Ahead(S, R, x) == {y \in S : <<y, x>> \in R}

LEMMA RanksDiffer ==
  ASSUME NEW S, IsFiniteSet(S), NEW R,
         \A x \in S : <<x, x>> \notin R,
         \A x, y, z \in S : <<x, y>> \in R /\ <<y, z>> \in R => <<x, z>> \in R,
         \A x, y \in S : x = y \/ <<x, y>> \in R \/ <<y, x>> \in R
  PROVE  /\ \A x \in S : Cardinality(Ahead(S, R, x)) \in 0..(Cardinality(S) - 1)
         /\ \A x, y \in S : Cardinality(Ahead(S, R, x)) = Cardinality(Ahead(S, R, y)) => x = y
  <1>1. ASSUME NEW x \in S PROVE Cardinality(Ahead(S, R, x)) \in 0..(Cardinality(S) - 1)
    <2>1. Ahead(S, R, x) \in SUBSET (S \ {x})
      BY DEF Ahead
    <2>2. IsFiniteSet(S \ {x}) /\ Cardinality(S \ {x}) = Cardinality(S) - 1
      BY FS_RemoveElement
    <2>3. /\ IsFiniteSet(Ahead(S, R, x)) /\ Cardinality(Ahead(S, R, x)) \in Nat
          /\ Cardinality(Ahead(S, R, x)) <= Cardinality(S) - 1 /\ Cardinality(S) \in Nat
      BY <2>1, <2>2, FS_Subset, FS_CardinalityType
    <2> QED
      BY <2>3
  <1>2. ASSUME NEW x \in S, NEW y \in S, <<x, y>> \in R
        PROVE  Cardinality(Ahead(S, R, x)) # Cardinality(Ahead(S, R, y))
    <2>1. Ahead(S, R, x) \subseteq Ahead(S, R, y) /\ x \in Ahead(S, R, y) /\ x \notin Ahead(S, R, x)
      BY <1>2 DEF Ahead
    <2>2. IsFiniteSet(Ahead(S, R, y))
      BY FS_Subset DEF Ahead
    <2> QED
      BY <2>1, <2>2, FS_Subset
  <1> QED
    BY <1>1, <1>2

LEMMA UpTo == ASSUME NEW n \in Nat PROVE IsFiniteSet(0..(n - 1)) /\ Cardinality(0..(n - 1)) = n
  <1>1. n - 1 \in Int /\ 0 \in Int
    OBVIOUS
  <1>2. Cardinality(0..(n - 1)) = IF 0 > n - 1 THEN 0 ELSE (n - 1) - 0 + 1
    BY <1>1, FS_Interval
  <1>3. IsFiniteSet(0..(n - 1))
    BY <1>1, FS_Interval
  <1> QED
    BY <1>2, <1>3

LEMMA Interval == ASSUME NEW n \in Nat PROVE IsFiniteSet(1..n) /\ Cardinality(1..n) = n
  <1>1. Cardinality(1..n) = IF 1 > n THEN 0 ELSE n - 1 + 1
    BY FS_Interval
  <1>2. IsFiniteSet(1..n)
    BY FS_Interval
  <1> QED
    BY <1>1, <1>2

LEMMA RankTaken ==
  ASSUME NEW S, IsFiniteSet(S), NEW R,
         \A x \in S : <<x, x>> \notin R,
         \A x, y, z \in S : <<x, y>> \in R /\ <<y, z>> \in R => <<x, z>> \in R,
         \A x, y \in S : x = y \/ <<x, y>> \in R \/ <<y, x>> \in R,
         NEW k \in 1..Cardinality(S)
  PROVE  \E x \in S : Cardinality(Ahead(S, R, x)) = k - 1
  <1> DEFINE T == 0..(Cardinality(S) - 1)
             rank == [x \in S |-> Cardinality(Ahead(S, R, x))]
  <1>1. rank \in [S -> T] /\ \A x, y \in S : rank[x] = rank[y] => x = y
    BY RanksDiffer
  <1>2. Cardinality(S) \in Nat
    BY FS_CardinalityType
  <1>3. IsFiniteSet(T) /\ Cardinality(T) = Cardinality(S)
    BY <1>2, UpTo
  <1>4. k - 1 \in T
    BY <1>2
  <1> HIDE DEF rank, T
  <1>5. rank \in Injection(S, T)
    BY <1>1, Fun_IsInj
  <1>6. rank \in Surjection(S, T)
    BY <1>3, <1>5, FS_Injection
  <1>7. \A t \in T : \E x \in S : rank[x] = t
    BY <1>6, Fun_SurjectionProperties
  <1> QED
    BY <1>4, <1>7 DEF rank

(***************************************************************************)
(* The list.                                                               *)
(***************************************************************************)
Folders == {m.folder : m \in Messages} \cup {Inbox, None}

\* An item has its message's UID; its account and folder may be other ones.
ItemSet == {x \in [acct : Accounts, folder : Folders, uid : Nat, id : Messages] :
              x.uid = x.id.uid}

LEMMA SeqOfFunction ==
  ASSUME NEW T, NEW n \in Nat, NEW f \in [1..n -> T]
  PROVE  f \in Seq(T) /\ Len(f) = n /\ DOMAIN f = 1..n
  OBVIOUS

\* The list of a set of items, which are of different messages.
LEMMA ListedIsList ==
  ASSUME NEW items \in SUBSET ItemSet, IsFiniteSet(items), \A x, y \in items : x.id = y.id => x = y
  PROVE  /\ Listed(items).arr \in Seq(items)
         /\ Len(Listed(items).arr) = Cardinality(items) /\ Cardinality(items) \in Nat
         /\ \A j, k \in 1..Cardinality(items) : Listed(items).arr[j] = Listed(items).arr[k] => j = k
  <1> DEFINE n == Cardinality(items)
             R == {p \in items \X items : Before(p[1], p[2], newest)}
             arr == [k \in 1..n |->
                      CHOOSE x \in items : Cardinality({y \in items : Before(y, x, newest)}) = k - 1]
  <1>1. n \in Nat
    BY FS_CardinalityType
  <1>2. \A x, y \in items : <<x, y>> \in R <=> Before(x, y, newest)
    OBVIOUS
  <1>3. \A x \in items : x.id \in Messages /\ Date[x.id] \in Nat
    BY MessagesAssumption DEF ItemSet
  <1>4. /\ \A x \in items : <<x, x>> \notin R
        /\ \A x, y, z \in items : <<x, y>> \in R /\ <<y, z>> \in R => <<x, z>> \in R
        /\ \A x, y \in items : x = y \/ <<x, y>> \in R \/ <<y, x>> \in R
    <2> HIDE DEF R
    <2>1. \A x, y \in items : Date[x.id] = Date[y.id] => x = y
      BY <1>3, MessagesAssumption
    <2> QED
      BY <1>2, <1>3, <2>1 DEF Before
  <1>5. \A x \in items : Ahead(items, R, x) = {y \in items : Before(y, x, newest)}
    BY <1>2 DEF Ahead
  <1>6. Listed(items).arr = arr
    BY DEF Listed
  <1> HIDE DEF R
  <1>7. \A k \in 1..n : \E x \in items : Cardinality(Ahead(items, R, x)) = k - 1
    BY <1>4, RankTaken
  <1>8. \A k \in 1..n : arr[k] \in items /\ Cardinality(Ahead(items, R, arr[k])) = k - 1
    BY <1>5, <1>7
  <1>9. arr \in [1..n -> items]
    BY <1>8
  <1> HIDE DEF arr
  <1>10. arr \in Seq(items) /\ Len(arr) = n
    BY <1>1, <1>9, SeqOfFunction
  <1>11. \A j, k \in 1..n : arr[j] = arr[k] => j = k
    BY <1>8
  <1> QED
    BY <1>1, <1>6, <1>10, <1>11

\* A list in its order has the same items at other places.
LEMMA SortedIsList ==
  ASSUME NEW s \in Seq(ItemSet), NEW newestFirst \in BOOLEAN
  PROVE  /\ Sorted(s, newestFirst) \in Seq(ItemSet)
         /\ Len(Sorted(s, newestFirst)) = Len(s)
         /\ \E g \in [1..Len(s) -> 1..Len(s)] :
               /\ \A j, k \in 1..Len(s) : g[j] = g[k] => j = k
               /\ \A k \in 1..Len(s) : Sorted(s, newestFirst)[k] = s[g[k]]
  <1> DEFINE n == Len(s)
             I == 1..n
             Earlier(j, i) == Before(s[j], s[i], newestFirst) \/ (s[j].id = s[i].id /\ j < i)
             R == {p \in I \X I : Earlier(p[1], p[2])}
             g == [k \in I |-> CHOOSE i \in DOMAIN s : Place(s, i, newestFirst) = k - 1]
  <1>1. n \in Nat /\ DOMAIN s = I /\ IsFiniteSet(I) /\ Cardinality(I) = n
    <2>1. n \in Nat /\ DOMAIN s = I
      OBVIOUS
    <2> QED
      BY <2>1, Interval
  <1>2. \A i, j \in I : <<i, j>> \in R <=> Earlier(i, j)
    OBVIOUS
  <1>3. \A i \in I : s[i].id \in Messages /\ Date[s[i].id] \in Nat
    <2>1. \A i \in I : s[i] \in ItemSet
      OBVIOUS
    <2> QED
      BY <2>1, MessagesAssumption DEF ItemSet
  <1>4. \A i, j \in I : Date[s[i].id] = Date[s[j].id] => s[i].id = s[j].id
    BY <1>3, MessagesAssumption
  <1>5. /\ \A x \in I : <<x, x>> \notin R
        /\ \A x, y, z \in I : <<x, y>> \in R /\ <<y, z>> \in R => <<x, z>> \in R
        /\ \A x, y \in I : x = y \/ <<x, y>> \in R \/ <<y, x>> \in R
    <2> DEFINE d == [i \in I |-> IF newestFirst THEN 0 - Date[s[i].id] ELSE Date[s[i].id]]
    <2>1. \A i \in I : d[i] \in Int
      BY <1>3
    <2>2. ASSUME NEW i \in I, NEW j \in I
          PROVE  /\ Before(s[i], s[j], newestFirst) <=> d[i] < d[j]
                 /\ s[i].id = s[j].id <=> d[i] = d[j]
      BY <1>3, <1>4 DEF Before
    <2> HIDE DEF d
    <2>3. ASSUME NEW i \in I, NEW j \in I
          PROVE  Earlier(i, j) <=> d[i] < d[j] \/ (d[i] = d[j] /\ i < j)
      BY <2>2
    <2> HIDE DEF R, Earlier
    <2>4. ASSUME NEW x \in I, NEW y \in I, NEW z \in I
          PROVE  /\ ~Earlier(x, x) /\ (Earlier(x, y) /\ Earlier(y, z) => Earlier(x, z))
                 /\ x = y \/ Earlier(x, y) \/ Earlier(y, x)
      <3>1. x \in Int /\ y \in Int /\ z \in Int /\ d[x] \in Int /\ d[y] \in Int /\ d[z] \in Int
        BY <2>1
      <3>2. /\ Earlier(x, x) <=> d[x] < d[x] \/ (d[x] = d[x] /\ x < x)
            /\ Earlier(x, y) <=> d[x] < d[y] \/ (d[x] = d[y] /\ x < y)
            /\ Earlier(y, x) <=> d[y] < d[x] \/ (d[y] = d[x] /\ y < x)
            /\ Earlier(y, z) <=> d[y] < d[z] \/ (d[y] = d[z] /\ y < z)
            /\ Earlier(x, z) <=> d[x] < d[z] \/ (d[x] = d[z] /\ x < z)
        BY <2>3
      <3> QED
        BY <3>1, <3>2
    <2> QED
      BY <1>2, <2>4
  <1>6. \A i \in I : Cardinality(Ahead(I, R, i)) = Place(s, i, newestFirst)
    <2>1. ASSUME NEW i \in I PROVE Ahead(I, R, i) = {j \in DOMAIN s : Earlier(j, i)}
      BY <1>1, <1>2 DEF Ahead
    <2> QED
      BY <2>1 DEF Place
  <1> HIDE DEF R
  <1>7. \A k \in I : \E i \in I : Cardinality(Ahead(I, R, i)) = k - 1
    BY <1>1, <1>5, RankTaken
  <1>8. \A k \in I : g[k] \in I /\ Cardinality(Ahead(I, R, g[k])) = k - 1
    BY <1>1, <1>6, <1>7
  <1>9. Sorted(s, newestFirst) = [k \in I |-> s[g[k]]]
    BY <1>1 DEF Sorted
  <1>10. g \in [I -> I]
    BY <1>8
  <1> HIDE DEF g
  <1>11. [k \in I |-> s[g[k]]] \in [1..n -> ItemSet]
    BY <1>1, <1>8
  <1>12. \A j, k \in I : g[j] = g[k] => j = k
    BY <1>1, <1>8
  <1> QED
    BY <1>1, <1>8, <1>9, <1>10, <1>11, <1>12, SeqOfFunction

\* The first and the last of some numbers.
LEMMA FirstOf ==
  ASSUME NEW S \in SUBSET Int, IsFiniteSet(S), S # {}
  PROVE  \E i \in S : \A j \in S : i <= j
  <1> DEFINE R == {p \in S \X S : p[1] < p[2]}
  <1>1. \A x, y \in S : <<x, y>> \in R <=> x < y
    OBVIOUS
  <1> HIDE DEF R
  <1>0. /\ \A x \in S : <<x, x>> \notin R
        /\ \A x, y, z \in S : <<x, y>> \in R /\ <<y, z>> \in R => <<x, z>> \in R
        /\ \A x, y \in S : x = y \/ <<x, y>> \in R \/ <<y, x>> \in R
    BY <1>1
  <1>2. Cardinality(S) \in Nat /\ Cardinality(S) # 0
    BY FS_CardinalityType, FS_EmptySet
  <1>3. 1 \in 1..Cardinality(S)
    BY <1>2
  <1>4. \E x \in S : Cardinality(Ahead(S, R, x)) = 1 - 1
    BY <1>0, <1>3, RankTaken
  <1>5. PICK x \in S : Cardinality(Ahead(S, R, x)) = 0
    BY <1>4
  <1>6. Ahead(S, R, x) = {}
    <2>1. IsFiniteSet(Ahead(S, R, x))
      BY FS_Subset DEF Ahead
    <2> QED
      BY <1>5, <2>1, FS_EmptySet
  <1>7. \A y \in S : <<y, x>> \notin R
    BY <1>6 DEF Ahead
  <1>8. ASSUME NEW y \in S PROVE x <= y
    <2>1. x \in Int /\ y \in Int /\ ~(y < x)
      BY <1>1, <1>7
    <2> QED
      BY <2>1
  <1> QED
    BY <1>8

LEMMA LastOf ==
  ASSUME NEW S \in SUBSET Int, IsFiniteSet(S), S # {}
  PROVE  \E i \in S : \A j \in S : j <= i
  <1> DEFINE R == {p \in S \X S : p[1] > p[2]}
  <1>1. \A x, y \in S : <<x, y>> \in R <=> x > y
    OBVIOUS
  <1> HIDE DEF R
  <1>0. /\ \A x \in S : <<x, x>> \notin R
        /\ \A x, y, z \in S : <<x, y>> \in R /\ <<y, z>> \in R => <<x, z>> \in R
        /\ \A x, y \in S : x = y \/ <<x, y>> \in R \/ <<y, x>> \in R
    BY <1>1
  <1>2. Cardinality(S) \in Nat /\ Cardinality(S) # 0
    BY FS_CardinalityType, FS_EmptySet
  <1>3. 1 \in 1..Cardinality(S)
    BY <1>2
  <1>4. \E x \in S : Cardinality(Ahead(S, R, x)) = 1 - 1
    BY <1>0, <1>3, RankTaken
  <1>5. PICK x \in S : Cardinality(Ahead(S, R, x)) = 0
    BY <1>4
  <1>6. Ahead(S, R, x) = {}
    <2>1. IsFiniteSet(Ahead(S, R, x))
      BY FS_Subset DEF Ahead
    <2> QED
      BY <1>5, <2>1, FS_EmptySet
  <1>7. \A y \in S : <<y, x>> \notin R
    BY <1>6 DEF Ahead
  <1>8. ASSUME NEW y \in S PROVE y <= x
    <2>1. x \in Int /\ y \in Int /\ ~(y > x)
      BY <1>1, <1>7
    <2> QED
      BY <2>1
  <1> QED
    BY <1>8

LEMMA MinOf ==
  ASSUME NEW S \in SUBSET Int, IsFiniteSet(S), S # {}
  PROVE  Min(S) \in S /\ \A j \in S : Min(S) <= j
  BY FirstOf DEF Min

Item(acct, folder, m) == [acct |-> acct, folder |-> folder, uid |-> m.uid, id |-> m]

LEMMA FiniteImage ==
  ASSUME NEW S, IsFiniteSet(S), NEW T, NEW f \in [S -> T], \A t \in T : \E x \in S : f[x] = t
  PROVE  IsFiniteSet(T)
  BY FS_Surjection, Fun_IsSurj

LEMMA ItemsAreItems ==
  ASSUME NEW acct \in Accounts \cup {None}, NEW folder \in Folders, NEW msgs \in SUBSET Messages
  PROVE  /\ Items(acct, folder, msgs) \in SUBSET ItemSet /\ IsFiniteSet(Items(acct, folder, msgs))
         /\ \A x, y \in Items(acct, folder, msgs) : x.id = y.id => x = y
  <1>1. CASE acct = None
    BY <1>1, FS_EmptySet DEF Items
  <1>2. CASE acct # None
    <2> DEFINE T == {[acct |-> acct, folder |-> folder, uid |-> m.uid, id |-> m] : m \in msgs}
               f == [m \in msgs |-> [acct |-> acct, folder |-> folder, uid |-> m.uid, id |-> m]]
    <2>1. Items(acct, folder, msgs) = T
      BY <1>2 DEF Items
    <2>2. IsFiniteSet(msgs)
      BY MessagesAssumption, FS_Subset
    <2>3. f \in [msgs -> T] /\ \A t \in T : \E m \in msgs : f[m] = t
      OBVIOUS
    <2>4. IsFiniteSet(T)
      <3> HIDE DEF f, T
      <3> QED
        BY <2>2, <2>3, FiniteImage
    <2>5. \A m \in msgs : m.uid \in Nat
      BY MessagesAssumption
    <2>6. T \subseteq ItemSet /\ \A x, y \in T : x.id = y.id => x = y
      BY <1>2, <2>5 DEF ItemSet
    <2> QED
      BY <2>1, <2>4, <2>6
  <1> QED
    BY <1>1, <1>2

LEMMA UnifiedAreItems ==
  ASSUME NEW msgs \in SUBSET Messages
  PROVE  /\ Unified(msgs) \in SUBSET ItemSet /\ IsFiniteSet(Unified(msgs))
         /\ \A x, y \in Unified(msgs) : x.id = y.id => x = y
         /\ Unified(msgs) = {Item(m.acct, m.folder, m) : m \in msgs}
  <1> DEFINE T == {Item(m.acct, m.folder, m) : m \in msgs}
             f == [m \in msgs |-> Item(m.acct, m.folder, m)]
  <1>1. \A m \in msgs : /\ m.acct \in Accounts /\ m.acct # None /\ m.uid \in Nat
                        /\ m \in Messages /\ m.folder \in Folders
    BY MessagesAssumption, WindowAssumption DEF Folders
  <1>2. \A m \in msgs : Items(m.acct, m.folder, {m}) = {Item(m.acct, m.folder, m)}
    BY <1>1 DEF Items, Item
  <1>3. Unified(msgs) = T
    <2>1. \A x : x \in Unified(msgs) <=> \E m \in msgs : x \in Items(m.acct, m.folder, {m})
      BY DEF Unified
    <2>2. ASSUME NEW m \in msgs, NEW x
          PROVE  x \in Items(m.acct, m.folder, {m}) <=> x = Item(m.acct, m.folder, m)
      BY <1>2
    <2>3. \A x : x \in Unified(msgs) <=> \E m \in msgs : x = Item(m.acct, m.folder, m)
      BY <2>1, <2>2
    <2> QED
      BY <2>3
  <1>4. IsFiniteSet(msgs)
    BY MessagesAssumption, FS_Subset
  <1>5. f \in [msgs -> T] /\ \A t \in T : \E m \in msgs : f[m] = t
    OBVIOUS
  <1>6. IsFiniteSet(T)
    <2> HIDE DEF f, T
    <2> QED
      BY <1>4, <1>5, FiniteImage
  <1>7. T \subseteq ItemSet /\ \A x, y \in T : x.id = y.id => x = y
    BY <1>1 DEF ItemSet, Item
  <1> QED
    BY <1>3, <1>6, <1>7

LEMMA SeqOfNone == SetToSeq({}) = <<>>
  <1>1. Cardinality({}) = 0
    BY FS_EmptySet
  <1> DEFINE F == [1..0 -> {}]
  <1>2. <<>> \in F /\ \A f \in F : f = <<>>
    OBVIOUS
  <1>3. IsInjective(<<>>)
    BY DEF IsInjective
  <1> HIDE DEF F
  <1>4. (CHOOSE f \in F : IsInjective(f)) = <<>>
    BY <1>2, <1>3
  <1> QED
    BY <1>1, <1>4 DEF SetToSeq, F

LEMMA SeqOfOne == ASSUME NEW x PROVE SetToSeq({x}) = <<x>>
  <1>1. Cardinality({x}) = 1
    BY FS_Singleton
  <1> DEFINE F == [1..1 -> {x}]
  <1>2. <<x>> \in F /\ \A f \in F : f = <<x>>
    OBVIOUS
  <1>3. IsInjective(<<x>>)
    BY DEF IsInjective
  <1> HIDE DEF F
  <1>4. (CHOOSE f \in F : IsInjective(f)) = <<x>>
    BY <1>2, <1>3
  <1> QED
    BY <1>1, <1>4 DEF SetToSeq, F

LEMMA MaxOfOne == Max({1}) = 1
  BY DEF Max

\* A fold over one message, or none.
LEMMA FoldNone == ASSUME NEW base PROVE FoldLeft(mergeOne, base, <<>>) = base
  <1> DEFINE step(it, t) == IF t = {} THEN base ELSE mergeOne(it[t \ {Max(t)}], <<>>[Max(t)])
             Folds(it) == it = [t \in SUBSET {} |-> step(it, t)]
             it0 == [t \in SUBSET {} |-> base]
  <1>1. Folds(it0)
    OBVIOUS
  <1>2. Folds(CHOOSE it : Folds(it))
    BY <1>1
  <1>3. \A it : Folds(it) => it[{}] = base
    OBVIOUS
  <1>4. FoldLeft(mergeOne, base, <<>>) = (CHOOSE it : Folds(it))[{}]
    BY DEF FoldLeft, MapThenFoldSet
  <1> HIDE DEF Folds
  <1> QED
    BY <1>2, <1>3, <1>4

LEMMA FoldOne == ASSUME NEW base, NEW x PROVE FoldLeft(mergeOne, base, <<x>>) = mergeOne(base, x)
  <1> DEFINE step(it, t) == IF t = {} THEN base ELSE mergeOne(it[t \ {Max(t)}], <<x>>[Max(t)])
             Folds(it) == it = [t \in SUBSET {1} |-> step(it, t)]
             it1 == [t \in SUBSET {1} |-> IF t = {} THEN base ELSE mergeOne(base, x)]
  <1>1. Folds(it1)
    <2>1. \A t \in SUBSET {1} : t = {} \/ t = {1}
      OBVIOUS
    <2>2. it1[{}] = base /\ {1} \ {Max({1})} = {} /\ <<x>>[Max({1})] = x
      BY MaxOfOne
    <2>3. \A t \in SUBSET {1} : it1[t] = step(it1, t)
      BY <2>1, <2>2
    <2> QED
      BY <2>3
  <1>2. Folds(CHOOSE it : Folds(it))
    BY <1>1
  <1>3. \A it : Folds(it) => it[{1}] = mergeOne(base, x)
    BY MaxOfOne
  <1>4. FoldLeft(mergeOne, base, <<x>>) = (CHOOSE it : Folds(it))[{1}]
    BY DEF FoldLeft, MapThenFoldSet
  <1> HIDE DEF Folds
  <1> QED
    BY <1>2, <1>3, <1>4

Distinct(s) == \A i, j \in DOMAIN s : SameSlot(s[i], s[j]) => i = j

LEMMA AppendItem ==
  ASSUME NEW s \in Seq(ItemSet), NEW x \in ItemSet, \A i \in DOMAIN s : ~SameSlot(s[i], x)
  PROVE  /\ Append(s, x) \in Seq(ItemSet) /\ Len(Append(s, x)) = Len(s) + 1
         /\ \A k \in DOMAIN Append(s, x) : Append(s, x)[k] = x \/ \E j \in DOMAIN s : Append(s, x)[k] = s[j]
         /\ Distinct(s) => Distinct(Append(s, x))
  <1> DEFINE m == Append(s, x)
  <1>1. m \in Seq(ItemSet) /\ Len(m) = Len(s) + 1 /\ DOMAIN m = 1..(Len(s) + 1) /\ Len(s) \in Nat
    OBVIOUS
  <1>2. \A k \in DOMAIN m : (k \in DOMAIN s /\ m[k] = s[k]) \/ (k = Len(s) + 1 /\ m[k] = x)
    OBVIOUS
  <1> HIDE DEF m
  <1>3. ASSUME Distinct(s) PROVE Distinct(m)
    BY <1>2, <1>3 DEF Distinct, SameSlot
  <1> QED
    BY <1>1, <1>2, <1>3 DEF m

LEMMA PutItem ==
  ASSUME NEW s \in Seq(ItemSet), NEW x \in ItemSet, NEW i \in DOMAIN s, SameSlot(s[i], x)
  PROVE  /\ [s EXCEPT ![i] = x] \in Seq(ItemSet) /\ Len([s EXCEPT ![i] = x]) = Len(s)
         /\ \A k \in DOMAIN [s EXCEPT ![i] = x] :
               [s EXCEPT ![i] = x][k] = x \/ \E j \in DOMAIN s : [s EXCEPT ![i] = x][k] = s[j]
         /\ Distinct(s) => Distinct([s EXCEPT ![i] = x])
  <1> DEFINE m == [s EXCEPT ![i] = x]
  <1>1. m \in Seq(ItemSet) /\ Len(m) = Len(s) /\ DOMAIN m = DOMAIN s
    OBVIOUS
  <1>2. \A k \in DOMAIN s : m[k] = IF k = i THEN x ELSE s[k]
    OBVIOUS
  <1> HIDE DEF m
  <1>3. ASSUME Distinct(s) PROVE Distinct(m)
    BY <1>1, <1>2, <1>3 DEF Distinct, SameSlot
  <1> QED
    BY <1>1, <1>2, <1>3 DEF m

LEMMA MergeOne ==
  ASSUME NEW s \in Seq(ItemSet), NEW x \in ItemSet
  PROVE  LET m == mergeIntoUnifiedInbox(s, <<x>>)
         IN  /\ m \in Seq(ItemSet) /\ Len(m) \in {Len(s), Len(s) + 1}
             /\ \A k \in DOMAIN m : m[k] = x \/ \E j \in DOMAIN s : m[k] = s[j]
             /\ Distinct(s) => Distinct(m)
  <1> DEFINE base == [list |-> s, ids |-> Known(s)]
             at == {i \in DOMAIN base.list : SameSlot(base.list[i], x)}
             last == CHOOSE i \in at : \A j \in at : j <= i
             m == mergeOne(base, x).list
  <1>1. mergeIntoUnifiedInbox(s, <<x>>) = m
    BY FoldOne DEF mergeIntoUnifiedInbox
  <1>2. base.list = s /\ at = {i \in DOMAIN s : SameSlot(s[i], x)}
    OBVIOUS
  <1>3. at # {} => last \in at
    <2> SUFFICES ASSUME at # {} PROVE \E i \in at : \A j \in at : j <= i
      OBVIOUS
    <2>1. at \in SUBSET (1..Len(s)) /\ Len(s) \in Nat
      BY <1>2
    <2>2. IsFiniteSet(at) /\ at \in SUBSET Int
      BY <2>1, Interval, FS_Subset
    <2> QED
      BY <2>2, LastOf
  <1>4. \/ m = s
        \/ at = {} /\ m = Append(s, x)
        \/ last \in at /\ m = [s EXCEPT ![last] = x]
    BY <1>2, <1>3 DEF mergeOne
  <1> HIDE DEF m, at, last
  <1>5. /\ m \in Seq(ItemSet) /\ Len(m) \in {Len(s), Len(s) + 1}
        /\ \A k \in DOMAIN m : m[k] = x \/ \E j \in DOMAIN s : m[k] = s[j]
        /\ Distinct(s) => Distinct(m)
    <2>1. CASE m = s
      BY <2>1
    <2>2. CASE at = {} /\ m = Append(s, x)
      <3>1. \A i \in DOMAIN s : ~SameSlot(s[i], x)
        BY <1>2, <2>2
      <3> QED
        BY <2>2, <3>1, AppendItem
    <2>3. CASE last \in at /\ m = [s EXCEPT ![last] = x]
      <3>1. last \in DOMAIN s /\ SameSlot(s[last], x)
        BY <1>2, <2>3
      <3> QED
        BY <2>3, <3>1, PutItem
    <2> QED
      BY <1>4, <2>1, <2>2, <2>3
  <1> QED
    BY <1>1, <1>5

(***************************************************************************)
(* What the variables hold.  A pointer that is not nil is to a slot of the *)
(* array of N items, or to an item that the list has left behind.  Goroutines *)
(* and closures of some kinds carry what their handlers take for granted.  *)
(***************************************************************************)
TaskKinds == {"load", "uload", "op", "batch", "lift", "next", "refresh", "announce"}
ClosureKinds == {"show", "fresh", "failed", "ucached", "uall", "uempty", "inject", "arrived", "removed",
                 "next", "deselect", "moved", "reselect", "fallback"}
Stages == {"start", "fetch", "done", "call"}
Ways == {"none", "trash", "delete", "move", "batch"}

AllInbox(msgs) == \A m \in msgs : m.folder = Inbox
OneBox(msgs, folder) == \A m, k \in msgs : m.folder = folder /\ m.acct = k.acct
OfFolder == {"show", "fresh", "arrived"}

Held(N) == [slot : 1..N, item : {<<>>}] \cup [slot : {0}, item : ItemSet]

Tasks(N) ==
  {t \in [kind : TaskKinds, acct : Accounts \cup {None}, folder : Folders, force : BOOLEAN,
          at : Stages, how : Ways, ptrs : Seq(Held(N)), want : SUBSET (Messages \cup Accounts),
          msgs : SUBSET Messages, index : Nat] :
     /\ t.kind = "op" => t.ptrs # <<>>
     /\ t.kind = "op" /\ t.acct # None => t.at # "start" /\ t.how # "move"
     /\ t.kind = "next" => t.index > 0
     /\ t.kind = "uload" => AllInbox(t.msgs)
     /\ t.kind = "announce" =>
          \E m \in Messages : t.msgs = {m} /\ t.acct = m.acct /\ t.folder = m.folder}

Closures(N) ==
  {c \in [kind : ClosureKinds, folder : Folders, msgs : SUBSET Messages, ptrs : Seq(Held(N)), index : Nat] :
     /\ c.kind = "removed" => c.ptrs # <<>>
     /\ c.kind = "next" => c.index > 0
     /\ c.kind \in {"inject", "arrived"} => \E m \in Messages : c.msgs = {m}
     /\ c.kind \in OfFolder => OneBox(c.msgs, c.folder)
     /\ c.kind \in {"ucached", "uall"} => AllInbox(c.msgs)}

Questions(N) == [how : Ways, ptrs : Seq(Held(N)), want : SUBSET Messages]

ListOK == /\ list \in [arr : Seq(ItemSet), n : Nat, sorted : Nat, resorted : BOOLEAN]
          /\ list.n <= Len(list.arr) /\ list.sorted <= Len(list.arr)
HoldersOK(N) == /\ tasks \in Seq(Tasks(N)) /\ ui \in Seq(Closures(N))
                /\ dialog \in Seq(Questions(N)) /\ Len(dialog) <= 1
Managers(N) ==
  {s \in [marks : SUBSET Nat, off : SUBSET Nat, last : Nat, shown : Held(N) \cup {NoPtr}] :
     s.marks \cap s.off = {}}
SelectionOK(N) == picked \in Held(N) \cup {NoPtr} /\ row \in Nat /\ sm \in Managers(N)
ServerOK == /\ mail \subseteq Messages
            /\ cache \in [Boxes -> [found : BOOLEAN, msgs : SUBSET Messages]]
            /\ \A b \in Boxes : \A m \in cache[b].msgs : <<m.acct, m.folder>> = b
ViewOK == /\ view \in [unified : BOOLEAN, acct : Accounts \cup {None}, folder : Folders,
                       client : Accounts \cup {None}]
          /\ view.acct # None => view.acct = view.client
          /\ newest \in BOOLEAN /\ fetching \in BOOLEAN
          /\ suppress \subseteq Accounts

TypeInv == /\ ListOK /\ ViewOK /\ ServerOK
           /\ HoldersOK(Len(list.arr)) /\ SelectionOK(Len(list.arr))

\* While a list is shown, whatever the manager and the window point to is in it.
Of(p, n) == Nil(p) \/ p.slot \in 1..n
ManagerIn(s, n) == s.marks \subseteq 1..n /\ s.off \subseteq 1..n /\ s.last \in 0..n /\ Of(s.shown, n)
SelectionIn(n) == n > 0 => ManagerIn(sm, n) /\ Of(picked, n)

(***************************************************************************)
(* New goroutines and closures are of these sets.                          *)
(***************************************************************************)
TaskFields == {"kind", "acct", "folder", "force", "at", "how", "ptrs", "want", "msgs", "index"}
ClosureFields == {"kind", "folder", "msgs", "ptrs", "index"}

TaskHas(t, kind, fields) ==
  /\ t = [f \in TaskFields |-> t[f]]
  /\ t.kind = kind
  /\ t.acct = IF "acct" \in DOMAIN fields THEN fields["acct"] ELSE None
  /\ t.folder = IF "folder" \in DOMAIN fields THEN fields["folder"] ELSE Inbox
  /\ t.force = IF "force" \in DOMAIN fields THEN fields["force"] ELSE FALSE
  /\ t.at = IF "at" \in DOMAIN fields THEN fields["at"] ELSE "start"
  /\ t.how = IF "how" \in DOMAIN fields THEN fields["how"] ELSE "none"
  /\ t.ptrs = IF "ptrs" \in DOMAIN fields THEN fields["ptrs"] ELSE <<>>
  /\ t.want = IF "want" \in DOMAIN fields THEN fields["want"] ELSE {}
  /\ t.msgs = IF "msgs" \in DOMAIN fields THEN fields["msgs"] ELSE {}
  /\ t.index = IF "index" \in DOMAIN fields THEN fields["index"] ELSE 0

ClosureHas(c, kind, fields) ==
  /\ c = [f \in ClosureFields |-> c[f]]
  /\ c.kind = kind
  /\ c.folder = IF "folder" \in DOMAIN fields THEN fields["folder"] ELSE Inbox
  /\ c.msgs = IF "msgs" \in DOMAIN fields THEN fields["msgs"] ELSE {}
  /\ c.ptrs = IF "ptrs" \in DOMAIN fields THEN fields["ptrs"] ELSE <<>>
  /\ c.index = IF "index" \in DOMAIN fields THEN fields["index"] ELSE 0

LEMMA ANewTask ==
  ASSUME NEW kind, NEW fields, "kind" \notin DOMAIN fields
  PROVE  TaskHas(Task(kind, fields), kind, fields)
  BY DEF Task, With, TaskFields, TaskHas

LEMMA ANewClosure ==
  ASSUME NEW kind, NEW fields, "kind" \notin DOMAIN fields
  PROVE  ClosureHas(Closure(kind, fields), kind, fields)
  BY DEF Closure, With, ClosureFields, ClosureHas

LEMMA TaskTyped ==
  ASSUME NEW N \in Nat, NEW kind \in TaskKinds, NEW fields, "kind" \notin DOMAIN fields,
         "acct" \in DOMAIN fields => fields["acct"] \in Accounts \cup {None},
         "folder" \in DOMAIN fields => fields["folder"] \in Folders,
         "force" \in DOMAIN fields => fields["force"] \in BOOLEAN,
         "at" \in DOMAIN fields => fields["at"] \in Stages,
         "how" \in DOMAIN fields => fields["how"] \in Ways,
         "ptrs" \in DOMAIN fields => fields["ptrs"] \in Seq(Held(N)),
         "want" \in DOMAIN fields => fields["want"] \in SUBSET (Messages \cup Accounts),
         "msgs" \in DOMAIN fields => fields["msgs"] \in SUBSET Messages,
         "index" \in DOMAIN fields => fields["index"] \in Nat,
         kind = "op" => "ptrs" \in DOMAIN fields /\ fields["ptrs"] # <<>> /\ "acct" \notin DOMAIN fields,
         kind = "next" => "index" \in DOMAIN fields /\ fields["index"] > 0,
         kind = "uload" => fields = <<>>,
         kind = "announce" => \E m \in Messages : fields = [acct |-> m.acct, folder |-> m.folder, msgs |-> {m}]
  PROVE  Task(kind, fields) \in Tasks(N)
  <1> DEFINE t == Task(kind, fields)
  <1>1. Inbox \in Folders /\ None \in Accounts \cup {None} /\ <<>> \in Seq(Held(N))
    BY DEF Folders
  <1>0. TaskHas(t, kind, fields)
    BY ANewTask
  <1> HIDE DEF t
  <1>2. t = [f \in TaskFields |-> t[f]] /\ t.kind = kind
    BY <1>0 DEF TaskHas
  <1>3. t.acct \in Accounts \cup {None}
    BY <1>0, <1>1 DEF TaskHas
  <1>4. t.folder \in Folders
    BY <1>0, <1>1 DEF TaskHas
  <1>5. t.force \in BOOLEAN
    BY <1>0 DEF TaskHas
  <1>6. t.at \in Stages
    BY <1>0 DEF TaskHas, Stages
  <1>7. t.how \in Ways
    BY <1>0 DEF TaskHas, Ways
  <1>8. t.want \in SUBSET (Messages \cup Accounts)
    BY <1>0 DEF TaskHas
  <1>9. t.ptrs \in Seq(Held(N))
    BY <1>0, <1>1 DEF TaskHas
  <1>10. kind = "op" => t.ptrs # <<>>
    BY <1>0 DEF TaskHas
  <1>11. t.msgs \in SUBSET Messages /\ (kind = "uload" => AllInbox(t.msgs))
    BY <1>0 DEF TaskHas, AllInbox
  <1>15. kind = "announce" => \E m \in Messages : t.msgs = {m} /\ t.acct = m.acct /\ t.folder = m.folder
    BY <1>0 DEF TaskHas
  <1>12. t.index \in Nat
    BY <1>0 DEF TaskHas
  <1>13. kind = "next" => t.index > 0
    BY <1>0 DEF TaskHas
  <1>16. kind = "op" => t.acct = None
    BY <1>0 DEF TaskHas
  <1>14. t \in Tasks(N)
    BY <1>2, <1>3, <1>4, <1>5, <1>6, <1>7, <1>8, <1>9, <1>10, <1>11, <1>12, <1>13, <1>15, <1>16 DEF Tasks, TaskFields
  <1> QED
    BY <1>14 DEF t

LEMMA ClosureTyped ==
  ASSUME NEW N \in Nat, NEW kind \in ClosureKinds, NEW fields, "kind" \notin DOMAIN fields,
         "folder" \in DOMAIN fields => fields["folder"] \in Folders,
         "msgs" \in DOMAIN fields => fields["msgs"] \in SUBSET Messages,
         "ptrs" \in DOMAIN fields => fields["ptrs"] \in Seq(Held(N)),
         "index" \in DOMAIN fields => fields["index"] \in Nat,
         kind = "removed" => "ptrs" \in DOMAIN fields /\ fields["ptrs"] # <<>>,
         kind = "next" => "index" \in DOMAIN fields /\ fields["index"] > 0,
         kind \in {"inject", "arrived"} =>
           "msgs" \in DOMAIN fields /\ \E m \in Messages : fields["msgs"] = {m},
         kind \in OfFolder => /\ "msgs" \in DOMAIN fields /\ "folder" \in DOMAIN fields
                              /\ OneBox(fields["msgs"], fields["folder"]),
         kind \in {"ucached", "uall"} => "msgs" \in DOMAIN fields /\ AllInbox(fields["msgs"])
  PROVE  Closure(kind, fields) \in Closures(N)
  <1> DEFINE c == Closure(kind, fields)
  <1>1. Inbox \in Folders /\ <<>> \in Seq(Held(N))
    BY DEF Folders
  <1>0. ClosureHas(c, kind, fields)
    BY ANewClosure
  <1> HIDE DEF c
  <1>2. c = [f \in ClosureFields |-> c[f]] /\ c.kind = kind
    BY <1>0 DEF ClosureHas
  <1>3. c.folder \in Folders /\ c.msgs \in SUBSET Messages
    BY <1>0, <1>1 DEF ClosureHas
  <1>4. kind \in {"inject", "arrived"} => \E m \in Messages : c.msgs = {m}
    BY <1>0 DEF ClosureHas
  <1>5. c.ptrs \in Seq(Held(N))
    BY <1>0, <1>1 DEF ClosureHas
  <1>7. kind = "removed" => c.ptrs # <<>>
    BY <1>0 DEF ClosureHas
  <1>6. c.index \in Nat /\ (kind = "next" => c.index > 0)
    BY <1>0 DEF ClosureHas
  <1>9. kind \in OfFolder => OneBox(c.msgs, c.folder)
    BY <1>0 DEF ClosureHas
  <1>10. kind \in {"ucached", "uall"} => AllInbox(c.msgs)
    BY <1>0 DEF ClosureHas
  <1>8. c \in Closures(N)
    BY <1>2, <1>3, <1>4, <1>5, <1>6, <1>7, <1>9, <1>10 DEF Closures, ClosureFields
  <1> QED
    BY <1>8 DEF c

LEMMA TaskOf ==
  ASSUME NEW N \in Nat, NEW kind \in TaskKinds, kind \notin {"uload", "op", "next", "announce"}, NEW acct \in Accounts \cup {None},
         NEW folder \in Folders, NEW force \in BOOLEAN, NEW ptrs \in Seq(Held(N)),
         NEW want \in SUBSET (Messages \cup Accounts), NEW msgs \in SUBSET Messages
  PROVE  /\ Task("uload", <<>>) \in Tasks(N) /\ Task(kind, [acct |-> acct]) \in Tasks(N)
         /\ Task(kind, [folder |-> folder]) \in Tasks(N)
         /\ Task(kind, [folder |-> folder, force |-> force]) \in Tasks(N)
         /\ Task(kind, [ptrs |-> ptrs, want |-> want]) \in Tasks(N)
  <1>1. Inbox \in Folders /\ None \in Accounts \cup {None} /\ <<>> \in Seq(Held(N))
    BY DEF Folders
  <1>2. Task("uload", <<>>) \in Tasks(N)
    BY <1>1, TaskTyped DEF TaskKinds
  <1>3. Task(kind, [acct |-> acct]) \in Tasks(N)
    BY <1>1, TaskTyped
  <1>4. Task(kind, [folder |-> folder]) \in Tasks(N)
    BY <1>1, TaskTyped
  <1>5. Task(kind, [folder |-> folder, force |-> force]) \in Tasks(N)
    BY <1>1, TaskTyped
  <1>6. Task(kind, [ptrs |-> ptrs, want |-> want]) \in Tasks(N)
    BY <1>1, TaskTyped
  <1> QED
    BY <1>2, <1>3, <1>4, <1>5, <1>6

LEMMA OpTask ==
  ASSUME NEW N \in Nat, NEW ptrs \in Seq(Held(N)), ptrs # <<>>,
         NEW want \in SUBSET (Messages \cup Accounts), NEW how \in Ways
  PROVE  Task("op", [ptrs |-> ptrs, want |-> want, how |-> how]) \in Tasks(N)
  <1> DEFINE fields == [ptrs |-> ptrs, want |-> want, how |-> how]
  <1>1. /\ DOMAIN fields = {"ptrs", "want", "how"}
        /\ fields["ptrs"] = ptrs /\ fields["want"] = want /\ fields["how"] = how
    OBVIOUS
  <1> HIDE DEF fields
  <1>2. Task("op", fields) \in Tasks(N)
    BY <1>1, TaskTyped DEF TaskKinds
  <1> QED
    BY <1>2 DEF fields

LEMMA AnnounceTask ==
  ASSUME NEW N \in Nat, NEW m \in Messages
  PROVE  Task("announce", [acct |-> m.acct, folder |-> m.folder, msgs |-> {m}]) \in Tasks(N)
  <1> DEFINE fields == [acct |-> m.acct, folder |-> m.folder, msgs |-> {m}]
  <1>1. m.acct \in Accounts /\ m.folder \in Folders
    BY MessagesAssumption DEF Folders
  <1>2. /\ DOMAIN fields = {"acct", "folder", "msgs"}
        /\ fields["acct"] = m.acct /\ fields["folder"] = m.folder /\ fields["msgs"] = {m}
    OBVIOUS
  <1>4. \E k \in Messages : fields = [acct |-> k.acct, folder |-> k.folder, msgs |-> {k}]
    OBVIOUS
  <1> HIDE DEF fields
  <1>3. Task("announce", fields) \in Tasks(N)
    BY <1>1, <1>2, <1>4, TaskTyped DEF TaskKinds
  <1> QED
    BY <1>3 DEF fields

LEMMA NextTask ==
  ASSUME NEW N \in Nat, NEW index \in Nat, index > 0
  PROVE  Task("next", [index |-> index]) \in Tasks(N)
  <1> DEFINE fields == [index |-> index]
  <1>1. DOMAIN fields = {"index"} /\ fields["index"] = index
    OBVIOUS
  <1> HIDE DEF fields
  <1>2. Task("next", fields) \in Tasks(N)
    BY <1>1, TaskTyped DEF TaskKinds
  <1> QED
    BY <1>2 DEF fields

LEMMA ClosureOf ==
  ASSUME NEW N \in Nat, NEW kind \in {"failed", "uempty", "deselect", "moved", "reselect", "fallback"},
         NEW folder \in Folders
  PROVE  Closure(kind, <<>>) \in Closures(N) /\ Closure(kind, [folder |-> folder]) \in Closures(N)
  <1>1. /\ kind \in ClosureKinds /\ kind \notin OfFolder
        /\ kind \notin {"removed", "next"} /\ kind \notin {"inject", "arrived"} /\ kind \notin {"ucached", "uall"}
    BY DEF ClosureKinds, OfFolder
  <1>2. Closure(kind, <<>>) \in Closures(N)
    BY <1>1, ClosureTyped
  <1>3. Closure(kind, [folder |-> folder]) \in Closures(N)
    BY <1>1, ClosureTyped
  <1> QED
    BY <1>2, <1>3

LEMMA FolderClosure ==
  ASSUME NEW N \in Nat, NEW kind \in {"show", "fresh"}, NEW folder \in Folders, NEW msgs \in SUBSET Messages,
         OneBox(msgs, folder)
  PROVE  Closure(kind, [folder |-> folder, msgs |-> msgs]) \in Closures(N)
  <1> DEFINE fields == [folder |-> folder, msgs |-> msgs]
  <1>1. DOMAIN fields = {"folder", "msgs"} /\ fields["folder"] = folder /\ fields["msgs"] = msgs
    OBVIOUS
  <1>2. /\ kind \in ClosureKinds /\ kind \notin {"removed", "next"} /\ kind \notin {"inject", "arrived"}
        /\ kind \notin {"ucached", "uall"}
    BY DEF ClosureKinds
  <1> HIDE DEF fields
  <1>3. Closure(kind, fields) \in Closures(N)
    BY <1>1, <1>2, ClosureTyped
  <1> QED
    BY <1>3 DEF fields

LEMMA InboxClosure ==
  ASSUME NEW N \in Nat, NEW kind \in {"ucached", "uall"}, NEW msgs \in SUBSET Messages, AllInbox(msgs)
  PROVE  Closure(kind, [msgs |-> msgs]) \in Closures(N)
  <1> DEFINE fields == [msgs |-> msgs]
  <1>1. DOMAIN fields = {"msgs"} /\ fields["msgs"] = msgs
    OBVIOUS
  <1>2. /\ kind \in ClosureKinds /\ kind \notin {"removed", "next"} /\ kind \notin {"inject", "arrived"}
        /\ kind \notin OfFolder
    BY DEF ClosureKinds, OfFolder
  <1> HIDE DEF fields
  <1>3. Closure(kind, fields) \in Closures(N)
    BY <1>1, <1>2, ClosureTyped
  <1> QED
    BY <1>3 DEF fields

LEMMA AnnouncedClosures ==
  ASSUME NEW N \in Nat, NEW m \in Messages
  PROVE  /\ Closure("inject", [msgs |-> {m}]) \in Closures(N)
         /\ Closure("arrived", [folder |-> m.folder, msgs |-> {m}]) \in Closures(N)
  <1> DEFINE f1 == [msgs |-> {m}]
             f2 == [folder |-> m.folder, msgs |-> {m}]
  <1>1. /\ DOMAIN f1 = {"msgs"} /\ f1["msgs"] = {m}
        /\ DOMAIN f2 = {"folder", "msgs"} /\ f2["folder"] = m.folder /\ f2["msgs"] = {m}
    OBVIOUS
  <1>2. m.folder \in Folders /\ OneBox({m}, m.folder) /\ {m} \in SUBSET Messages
    BY DEF Folders, OneBox
  <1>3. "inject" \in ClosureKinds /\ "arrived" \in ClosureKinds /\ "inject" \notin OfFolder
    BY DEF ClosureKinds, OfFolder
  <1> HIDE DEF f1, f2
  <1>4. Closure("inject", f1) \in Closures(N)
    BY <1>1, <1>2, <1>3, ClosureTyped
  <1>5. Closure("arrived", f2) \in Closures(N)
    BY <1>1, <1>2, <1>3, ClosureTyped
  <1> QED
    BY <1>4, <1>5 DEF f1, f2

LEMMA RemovedClosure ==
  ASSUME NEW N \in Nat, NEW ptrs \in Seq(Held(N)), ptrs # <<>>, NEW index \in Nat
  PROVE  Closure("removed", [ptrs |-> ptrs, index |-> index]) \in Closures(N)
  <1> DEFINE fields == [ptrs |-> ptrs, index |-> index]
  <1>1. DOMAIN fields = {"ptrs", "index"} /\ fields["ptrs"] = ptrs /\ fields["index"] = index
    OBVIOUS
  <1> HIDE DEF fields
  <1>2. Closure("removed", fields) \in Closures(N)
    BY <1>1, ClosureTyped DEF ClosureKinds, OfFolder
  <1> QED
    BY <1>2 DEF fields

LEMMA NextClosure ==
  ASSUME NEW N \in Nat, NEW index \in Nat, index > 0
  PROVE  Closure("next", [index |-> index]) \in Closures(N)
  <1> DEFINE fields == [index |-> index]
  <1>1. DOMAIN fields = {"index"} /\ fields["index"] = index
    OBVIOUS
  <1> HIDE DEF fields
  <1>2. Closure("next", fields) \in Closures(N)
    BY <1>1, ClosureTyped DEF ClosureKinds, OfFolder
  <1> QED
    BY <1>2 DEF fields

(***************************************************************************)
(* Those that there are stay in the sets: in an array that grows, and when *)
(* the list leaves its array.                                              *)
(***************************************************************************)
LEMMA SeqOfMore == ASSUME NEW S, NEW T, S \subseteq T PROVE Seq(S) \subseteq Seq(T)
  OBVIOUS

LEMMA HoldersOfMore ==
  ASSUME NEW N \in Nat, NEW M \in Nat, N <= M
  PROVE  /\ Held(N) \subseteq Held(M) /\ Seq(Tasks(N)) \subseteq Seq(Tasks(M))
         /\ Seq(Closures(N)) \subseteq Seq(Closures(M)) /\ Seq(Questions(N)) \subseteq Seq(Questions(M))
  <1>1. Held(N) \subseteq Held(M)
    BY DEF Held
  <1>2. Seq(Held(N)) \subseteq Seq(Held(M))
    BY <1>1, SeqOfMore
  <1>3. Tasks(N) \subseteq Tasks(M) /\ Closures(N) \subseteq Closures(M) /\ Questions(N) \subseteq Questions(M)
    BY <1>2 DEF Tasks, Closures, Questions
  <1> QED
    BY <1>1, <1>3, SeqOfMore

LEMMA Pointee ==
  ASSUME ListOK, NEW p \in Held(Len(list.arr))
  PROVE  /\ Deref(p) \in ItemSet /\ ~Nil(p)
         /\ \A M : Behind(p) \in Held(M)
         /\ Behind(p) = [slot |-> 0, item |-> Deref(p)]
  <1> DEFINE N == Len(list.arr)
  <1>1. N \in Nat /\ \A k \in 1..N : list.arr[k] \in ItemSet
    BY DEF ListOK
  <1> HIDE DEF N
  <1>2. \A x \in ItemSet : x # <<>>
    <2>1. \A x \in [acct : Accounts, folder : Folders, uid : Nat, id : Messages] : x # <<>>
      OBVIOUS
    <2> QED
      BY <2>1 DEF ItemSet
  <1> QED
    BY <1>1, <1>2 DEF Held, Deref, Behind, Nil, NoPtr, Slot, N

LEMMA BehindAll ==
  ASSUME ListOK, NEW ptrs \in Seq(Held(Len(list.arr))), NEW M
  PROVE  /\ [j \in DOMAIN ptrs |-> Behind(ptrs[j])] \in Seq(Held(M))
         /\ ptrs # <<>> => [j \in DOMAIN ptrs |-> Behind(ptrs[j])] # <<>>
  <1> DEFINE n == Len(ptrs)
             behind == [j \in DOMAIN ptrs |-> Behind(ptrs[j])]
  <1>1. n \in Nat /\ DOMAIN ptrs = 1..n /\ \A j \in 1..n : ptrs[j] \in Held(Len(list.arr))
    OBVIOUS
  <1>2. \A j \in 1..n : Behind(ptrs[j]) \in Held(M)
    BY <1>1, Pointee
  <1>3. behind \in [1..n -> Held(M)]
    BY <1>1, <1>2
  <1>4. ptrs # <<>> => n # 0
    OBVIOUS
  <1> HIDE DEF n, behind
  <1>5. behind \in Seq(Held(M)) /\ Len(behind) = n
    BY <1>1, <1>3, SeqOfFunction
  <1>6. n # 0 => behind # <<>>
    BY <1>5
  <1> QED
    BY <1>4, <1>5, <1>6 DEF behind

\* When the list leaves its array, what is held fits every other one.
LEMMA HoldersLeave ==
  ASSUME ListOK, HoldersOK(Len(list.arr)), NEW STATE r, r \in Seq(Closures(Len(list.arr))),
         LeaveArray(r), NEW M \in Nat
  PROVE  HoldersOK(M)'
  <1> DEFINE N == Len(list.arr)
             Left(x) == [j \in DOMAIN x.ptrs |-> Behind(x.ptrs[j])]
  <1>1. ASSUME NEW x, x.ptrs \in Seq(Held(N))
        PROVE  Left(x) \in Seq(Held(M)) /\ (x.ptrs # <<>> => Left(x) # <<>>)
    BY <1>1, BehindAll
  <1> HIDE DEF Left, N
  <1>2. \A t \in Tasks(N) : [t EXCEPT !.ptrs = Left(t)] \in Tasks(M)
    BY <1>1 DEF Tasks
  <1>3. \A c \in Closures(N) : [c EXCEPT !.ptrs = Left(c)] \in Closures(M)
    BY <1>1 DEF Closures
  <1>4. \A q \in Questions(N) : [q EXCEPT !.ptrs = Left(q)] \in Questions(M)
    BY <1>1 DEF Questions
  <1>5. /\ tasks' = [i \in DOMAIN tasks |-> [tasks[i] EXCEPT !.ptrs = Left(tasks[i])]]
        /\ ui' = [i \in DOMAIN r |-> [r[i] EXCEPT !.ptrs = Left(r[i])]]
        /\ dialog' = [i \in DOMAIN dialog |-> [dialog[i] EXCEPT !.ptrs = Left(dialog[i])]]
    BY DEF LeaveArray, Left
  <1>7. /\ tasks \in Seq(Tasks(N)) /\ r \in Seq(Closures(N)) /\ dialog \in Seq(Questions(N))
        /\ Len(dialog) <= 1
    BY DEF HoldersOK, N
  <1>8. tasks' \in Seq(Tasks(M))
    <2> DEFINE n == Len(tasks)
    <2>1. n \in Nat /\ DOMAIN tasks = 1..n /\ \A i \in 1..n : tasks[i] \in Tasks(N)
      BY <1>7
    <2>2. tasks' \in [1..n -> Tasks(M)]
      BY <1>2, <1>5, <2>1
    <2> HIDE DEF n
    <2> QED
      BY <2>1, <2>2, SeqOfFunction
  <1>9. ui' \in Seq(Closures(M))
    BY <1>3, <1>5, <1>7
  <1>10. dialog' \in Seq(Questions(M)) /\ Len(dialog') <= 1
    BY <1>4, <1>5, <1>7
  <1> QED
    BY <1>8, <1>9, <1>10 DEF HoldersOK

\* A goroutine that ends, and those that it starts.
LEMMA Ended ==
  ASSUME NEW S, NEW s \in Seq(S), NEW i \in DOMAIN s, NEW more \in Seq(S)
  PROVE  RemoveAt(s, i) \o more \in Seq(S)
  BY DEF RemoveAt

(***************************************************************************)
(* The selection manager keeps to the list.                                *)
(***************************************************************************)
LEMMA Pair ==
  ASSUME NEW i \in Nat, NEW j \in Nat
  PROVE  Min({i, j}) \in {i, j} /\ Max({i, j}) \in {i, j}
  BY DEF Min, Max

LEMMA Clicked ==
  ASSUME NEW N \in Nat, NEW n \in 1..N, NEW s \in Managers(N), ManagerIn(s, n),
         NEW i \in 1..n, NEW ctrl \in BOOLEAN, NEW shift \in BOOLEAN
  PROVE  LET r == SelectMessageMultiple(s, i, ctrl, shift)
         IN  r \in Managers(N) /\ ManagerIn(r, n)
  <1> DEFINE clicked == CASE shift /\ s.last > 0 -> Extended(s, i, ctrl)
                          [] ctrl /\ ~(shift /\ s.last > 0) -> Toggled(s, i)
                          [] OTHER -> Only(i)
  <1>1. \A j \in 1..n : Slot(j) \in Held(N) /\ Of(Slot(j), n)
    BY DEF Slot, Held, Of
  <1>2. ASSUME s.last > 0
        PROVE  Extended(s, i, ctrl) \in Managers(N) /\ ManagerIn(Extended(s, i, ctrl), n)
    <2> DEFINE range == Min({s.last, i})..Max({s.last, i})
    <2>1. s.last \in 1..n
      BY <1>2 DEF ManagerIn
    <2>2. range \subseteq 1..n
      <3>1. Min({s.last, i}) \in 1..n /\ Max({s.last, i}) \in 1..n
        BY <2>1, Pair
      <3> QED
        BY <3>1
    <2>3. Extended(s, i, ctrl) =
            [marks |-> (IF ctrl THEN s.marks ELSE {}) \cup range,
             off |-> IF ctrl THEN s.off \ range ELSE {}, last |-> s.last, shown |-> s.shown]
      BY DEF Extended
    <2> HIDE DEF range
    <2>4. ASSUME NEW marks \in SUBSET (1..n), NEW off \in SUBSET (1..n), marks \cap off = {}
          PROVE  LET r == [marks |-> marks, off |-> off, last |-> s.last, shown |-> s.shown]
                 IN  r \in Managers(N) /\ ManagerIn(r, n)
      <3>1. marks \in SUBSET Nat /\ off \in SUBSET Nat /\ n \in Nat
        OBVIOUS
      <3>2. s.last \in Nat /\ s.last \in 0..n /\ s.shown \in Held(N) \cup {NoPtr} /\ Of(s.shown, n)
        BY DEF Managers, ManagerIn
      <3> QED
        BY <2>4, <3>1, <3>2 DEF Managers, ManagerIn
    <2>5. s.marks \subseteq 1..n /\ s.off \subseteq 1..n /\ s.marks \cap s.off = {}
      BY DEF Managers, ManagerIn
    <2>6. CASE ctrl
      <3>1. Extended(s, i, ctrl) = [marks |-> s.marks \cup range, off |-> s.off \ range,
                                    last |-> s.last, shown |-> s.shown]
        BY <2>3, <2>6
      <3>2. s.marks \cup range \in SUBSET (1..n) /\ s.off \ range \in SUBSET (1..n)
            /\ (s.marks \cup range) \cap (s.off \ range) = {}
        BY <2>2, <2>5
      <3> QED
        BY <2>4, <3>1, <3>2
    <2>7. CASE ~ctrl
      <3>1. Extended(s, i, ctrl) = [marks |-> range, off |-> {}, last |-> s.last, shown |-> s.shown]
        BY <2>3, <2>7
      <3> QED
        BY <2>2, <2>4, <3>1
    <2> QED
      BY <2>6, <2>7
  <1>3. Toggled(s, i) \in Managers(N) /\ ManagerIn(Toggled(s, i), n)
    <2>1. CASE i \in s.marks
      BY <2>1 DEF Toggled, Managers, ManagerIn
    <2>2. CASE i \notin s.marks
      BY <2>2 DEF Toggled, Managers, ManagerIn
    <2> QED
      BY <2>1, <2>2
  <1>4. Only(i) \in Managers(N) /\ ManagerIn(Only(i), n)
    BY <1>1 DEF Only, Managers, ManagerIn
  <1>5. clicked \in Managers(N) /\ ManagerIn(clicked, n)
    BY <1>2, <1>3, <1>4
  <1> HIDE DEF clicked
  <1>6. Showing(clicked, i) \in Managers(N) /\ ManagerIn(Showing(clicked, i), n)
    <2>1. CASE i \in clicked.marks
      BY <1>1, <1>5, <2>1 DEF Showing, Managers, ManagerIn
    <2>2. CASE i \notin clicked.marks /\ clicked.marks # {}
      <3>1. IsFiniteSet(clicked.marks) /\ clicked.marks \in SUBSET Int
        BY <1>5, Interval, FS_Subset DEF ManagerIn
      <3>2. Min(clicked.marks) \in 1..n
        BY <1>5, <2>2, <3>1, MinOf DEF ManagerIn
      <3> QED
        BY <1>1, <1>5, <2>2, <3>2 DEF Showing, Managers, ManagerIn
    <2>3. CASE i \notin clicked.marks /\ clicked.marks = {}
      BY <1>5, <2>3 DEF Showing
    <2> QED
      BY <2>1, <2>2, <2>3
  <1> QED
    BY <1>6 DEF SelectMessageMultiple, clicked

(***************************************************************************)
(* A goroutine that gets on.                                               *)
(***************************************************************************)
LEMMA TaskAt ==
  ASSUME NEW N \in Nat, NEW t \in Tasks(N), NEW at \in Stages, at # "start"
  PROVE  [t EXCEPT !.at = at] \in Tasks(N) /\ [t EXCEPT !.at = at].kind = t.kind
  BY DEF Tasks

LEMMA TaskWanting ==
  ASSUME NEW N \in Nat, NEW t \in Tasks(N), NEW want \in SUBSET (Messages \cup Accounts)
  PROVE  [t EXCEPT !.want = want] \in Tasks(N) /\ [t EXCEPT !.want = want].kind = t.kind
  BY DEF Tasks

LEMMA TaskWithMessages ==
  ASSUME NEW N \in Nat, NEW t \in Tasks(N), NEW msgs \in SUBSET Messages, t.kind # "announce", AllInbox(msgs)
  PROVE  [t EXCEPT !.msgs = msgs] \in Tasks(N)
  BY DEF Tasks

LEMMA TaskWithPointers ==
  ASSUME NEW N \in Nat, NEW t \in Tasks(N), NEW ptrs \in Seq(Held(N)), t.kind # "op"
  PROVE  [t EXCEPT !.ptrs = ptrs] \in Tasks(N)
  BY DEF Tasks

LEMMA TaskOfAccount ==
  ASSUME NEW N \in Nat, NEW t \in Tasks(N), t.kind = "op", t.at # "start", t.how # "move", NEW acct \in Accounts
  PROVE  [t EXCEPT !.acct = acct] \in Tasks(N)
  BY DEF Tasks

LEMMA Staged ==
  ASSUME NEW N \in Nat, NEW s \in Seq(Tasks(N)), NEW i \in DOMAIN s, NEW at \in Stages, at # "start"
  PROVE  [s EXCEPT ![i].at = at] \in Seq(Tasks(N))
  <1> DEFINE t == [s[i] EXCEPT !.at = at]
  <1>1. s[i] \in Tasks(N)
    OBVIOUS
  <1>2. t \in Tasks(N)
    BY <1>1, TaskAt
  <1>3. [s EXCEPT ![i].at = at] = [s EXCEPT ![i] = t]
    BY Zenon
  <1> HIDE DEF t
  <1> QED
    BY <1>2, <1>3

LEMMA StagedOfAccount ==
  ASSUME NEW N \in Nat, NEW s \in Seq(Tasks(N)), NEW i \in DOMAIN s, s[i].kind = "op", s[i].how # "move",
         NEW at \in Stages, at # "start", NEW acct \in Accounts
  PROVE  [s EXCEPT ![i].at = at, ![i].acct = acct] \in Seq(Tasks(N))
  <1> DEFINE s1 == [s EXCEPT ![i].at = at]
             t == [s1[i] EXCEPT !.acct = acct]
  <1>1. s1 \in Seq(Tasks(N)) /\ DOMAIN s1 = DOMAIN s
    BY Staged
  <1>2. [s EXCEPT ![i].at = at, ![i].acct = acct] = [s1 EXCEPT ![i] = t]
    BY Zenon
  <1>3. s1[i].kind = "op" /\ s1[i].at # "start" /\ s1[i].how # "move"
    <2>1. s[i] \in Tasks(N)
      OBVIOUS
    <2> QED
      BY <2>1 DEF Tasks
  <1> HIDE DEF s1
  <1>4. s1[i] \in Tasks(N)
    BY <1>1
  <1>5. t \in Tasks(N)
    BY <1>3, <1>4, TaskOfAccount
  <1> HIDE DEF t
  <1> QED
    BY <1>1, <1>2, <1>5

LEMMA Asking ==
  ASSUME NEW N \in Nat, NEW s \in Seq(Tasks(N)), NEW i \in DOMAIN s, NEW at \in Stages, at # "start",
         NEW want \in SUBSET (Messages \cup Accounts)
  PROVE  [s EXCEPT ![i].at = at, ![i].want = want] \in Seq(Tasks(N))
  <1> DEFINE s1 == [s EXCEPT ![i].at = at]
             t == [s1[i] EXCEPT !.want = want]
  <1>1. s1 \in Seq(Tasks(N)) /\ DOMAIN s1 = DOMAIN s
    BY Staged
  <1>2. [s EXCEPT ![i].at = at, ![i].want = want] = [s1 EXCEPT ![i] = t]
    BY Zenon
  <1> HIDE DEF s1
  <1>3. s1[i] \in Tasks(N)
    BY <1>1
  <1>4. t \in Tasks(N)
    BY <1>3, TaskWanting
  <1> HIDE DEF t
  <1> QED
    BY <1>1, <1>2, <1>4

LEMMA Answered ==
  ASSUME NEW N \in Nat, NEW s \in Seq(Tasks(N)), NEW i \in DOMAIN s, NEW a, NEW msgs \in SUBSET Messages,
         s[i].kind = "uload", AllInbox(msgs)
  PROVE  /\ [s EXCEPT ![i].want = @ \ {a}] \in Seq(Tasks(N))
         /\ [s EXCEPT ![i].want = @ \ {a}, ![i].msgs = @ \cup msgs] \in Seq(Tasks(N))
  <1> DEFINE want == s[i].want \ {a}
             t == [s[i] EXCEPT !.want = want]
             s1 == [s EXCEPT ![i].want = @ \ {a}]
             more == s1[i].msgs \cup msgs
             u == [s1[i] EXCEPT !.msgs = more]
  <1>1. s[i] \in Tasks(N)
    OBVIOUS
  <1>2. want \in SUBSET (Messages \cup Accounts)
    BY <1>1 DEF Tasks
  <1>3. s1 = [s EXCEPT ![i] = t]
    BY Zenon
  <1>4. [s EXCEPT ![i].want = @ \ {a}, ![i].msgs = @ \cup msgs] = [s1 EXCEPT ![i] = u]
    BY Zenon
  <1> HIDE DEF want
  <1>5. t \in Tasks(N) /\ t.kind = s[i].kind
    BY <1>1, <1>2, TaskWanting
  <1> HIDE DEF t, s1
  <1>6. s1 \in Seq(Tasks(N)) /\ DOMAIN s1 = DOMAIN s /\ s1[i] = t
    BY <1>3, <1>5
  <1>7. more \in SUBSET Messages /\ AllInbox(more)
    BY <1>5, <1>6 DEF Tasks, AllInbox
  <1> HIDE DEF more
  <1>8. u \in Tasks(N)
    BY <1>5, <1>6, <1>7, TaskWithMessages
  <1> HIDE DEF u
  <1> QED
    BY <1>4, <1>6, <1>8 DEF s1

LEMMA OneLess ==
  ASSUME NEW N \in Nat, NEW s \in Seq(Tasks(N)), NEW i \in DOMAIN s, s[i].kind = "batch", s[i].ptrs # <<>>
  PROVE  [s EXCEPT ![i].ptrs = Tail(@)] \in Seq(Tasks(N))
  <1> DEFINE ptrs == Tail(s[i].ptrs)
             t == [s[i] EXCEPT !.ptrs = ptrs]
  <1>1. s[i] \in Tasks(N)
    OBVIOUS
  <1>2. ptrs \in Seq(Held(N))
    BY <1>1 DEF Tasks
  <1>3. [s EXCEPT ![i].ptrs = Tail(@)] = [s EXCEPT ![i] = t]
    BY Zenon
  <1> HIDE DEF ptrs
  <1>4. t \in Tasks(N)
    BY <1>1, <1>2, TaskWithPointers
  <1> HIDE DEF t
  <1> QED
    BY <1>3, <1>4

(***************************************************************************)
(* The invariant of types and of the selection.  First the steps after     *)
(* which the list is the same, and those that show another one.            *)
(***************************************************************************)
Inv == TypeInv /\ SelectionIn(list.n)

LEMMA SameList ==
  ASSUME Inv, UNCHANGED list, ViewOK', ServerOK', HoldersOK(Len(list.arr))',
         picked' \in {picked, NoPtr}, sm' \in {sm, NoSelection}, row' \in Nat
  PROVE  Inv'
  <1>1. ListOK' /\ Len(list.arr) \in Nat
    BY DEF Inv, TypeInv, ListOK
  <1>2. \A N : NoSelection \in Managers(N)
    BY DEF NoSelection, Managers
  <1>3. SelectionOK(Len(list.arr))'
    BY <1>2 DEF Inv, TypeInv, SelectionOK
  <1>4. list.n > 0 => ManagerIn(sm, list.n) /\ Of(picked, list.n)
    BY DEF Inv, SelectionIn
  <1>5. ASSUME list.n > 0 PROVE ManagerIn(sm', list.n) /\ Of(picked', list.n)
    <2>1. ManagerIn(NoSelection, list.n) /\ Of(NoPtr, list.n)
      BY <1>5, <1>1 DEF ManagerIn, NoSelection, Of, Nil, ListOK
    <2> QED
      BY <1>4, <1>5, <2>1
  <1>6. SelectionIn(list.n)'
    BY <1>5 DEF SelectionIn
  <1> QED
    BY <1>1, <1>3, <1>6 DEF Inv, TypeInv

LEMMA ListedOK ==
  ASSUME NEW items \in SUBSET ItemSet, IsFiniteSet(items), \A x, y \in items : x.id = y.id => x = y
  PROVE  /\ Listed(items) \in [arr : Seq(ItemSet), n : Nat, sorted : Nat, resorted : BOOLEAN]
         /\ Listed(items).n = Len(Listed(items).arr) /\ Listed(items).sorted = Len(Listed(items).arr)
  <1>1. /\ Listed(items).arr \in Seq(items) /\ Cardinality(items) \in Nat
        /\ Len(Listed(items).arr) = Cardinality(items)
    BY ListedIsList
  <1>2. Listed(items) = [arr |-> Listed(items).arr, n |-> Cardinality(items), sorted |-> Cardinality(items),
                        resorted |-> FALSE]
    BY DEF Listed
  <1>3. Listed(items).arr \in Seq(ItemSet)
    BY <1>1, SeqOfMore
  <1> DEFINE arr == Listed(items).arr
             l == Listed(items)
  <1>4. arr \in Seq(ItemSet) /\ Len(arr) = Cardinality(items) /\ Cardinality(items) \in Nat
        /\ l = [arr |-> arr, n |-> Cardinality(items), sorted |-> Cardinality(items), resorted |-> FALSE]
        /\ l.arr = arr
    BY <1>1, <1>2, <1>3
  <1> HIDE DEF l, arr
  <1>5. l \in [arr : Seq(ItemSet), n : Nat, sorted : Nat, resorted : BOOLEAN] /\ l.n = Len(l.arr)
        /\ l.sorted = Len(l.arr)
    BY <1>4
  <1> QED
    BY <1>5 DEF l

\* The list in another array.
LEMMA ListWith ==
  ASSUME ListOK, NEW arr, NEW n, NEW l, l = [list EXCEPT !.arr = arr, !.n = n, !.sorted = n]
  PROVE  /\ l = [arr |-> arr, n |-> n, sorted |-> n, resorted |-> list.resorted]
         /\ l.arr = arr
  <1>1. list \in [arr : Seq(ItemSet), n : Nat, sorted : Nat, resorted : BOOLEAN]
    BY DEF ListOK
  <1> QED
    BY <1>1

LEMMA TailOf ==
  ASSUME NEW S, NEW s \in Seq(S), NEW n \in Nat
  PROVE  /\ SubSeq(s, n + 1, Len(s)) \in Seq(S)
         /\ Len(SubSeq(s, n + 1, Len(s))) = IF n <= Len(s) THEN Len(s) - n ELSE 0
  OBVIOUS

LEMMA Forgotten ==
  ASSUME ListOK', picked' = NoPtr, sm' = NoSelection, row' = 0
  PROVE  SelectionOK(Len(list.arr))' /\ SelectionIn(list.n)'
  BY DEF SelectionOK, SelectionIn, Managers, NoSelection, ManagerIn, Of, Nil, ListOK

LEMMA AnotherList ==
  ASSUME Inv, NEW STATE items, items \in SUBSET ItemSet, IsFiniteSet(items),
         \A x, y \in items : x.id = y.id => x = y, list' = Listed(items),
         NEW STATE r, r \in Seq(Closures(Len(list.arr))), LeaveArray(r), ViewOK', ServerOK', clearMessageSelection
  PROVE  Inv'
  <1>1. ListOK'
    BY ListedOK DEF ListOK
  <1>2. Len(list'.arr) \in Nat
    BY <1>1 DEF ListOK
  <1>3. \A M \in Nat : HoldersOK(M)'
    BY HoldersLeave DEF Inv, TypeInv
  <1>4. HoldersOK(Len(list.arr))'
    BY <1>2, <1>3
  <1>5. SelectionOK(Len(list.arr))' /\ SelectionIn(list.n)'
    BY <1>1, Forgotten DEF clearMessageSelection
  <1> QED
    BY <1>1, <1>4, <1>5 DEF Inv, TypeInv

LEMMA SameShown ==
  ASSUME Inv, UNCHANGED <<view, list, newest, fetching, suppress, running, server>>,
         sm' \in Managers(Len(list.arr)), picked' \in Held(Len(list.arr)) \cup {NoPtr}, row' \in Nat,
         list.n > 0 => ManagerIn(sm', list.n) /\ Of(picked', list.n)
  PROVE  Inv'
  BY DEF Inv, TypeInv, ListOK, ViewOK, ServerOK, HoldersOK, SelectionOK, SelectionIn, running, server

LEMMA SlotHeld ==
  ASSUME ListOK, NEW i \in 1..list.n
  PROVE  /\ Slot(i) \in Held(Len(list.arr)) /\ Of(Slot(i), list.n)
         /\ Len(list.arr) \in Nat /\ list.n \in 1..Len(list.arr)
  BY DEF ListOK, Slot, Held, Of

LEMMA ManagerOK ==
  ASSUME Inv, NEW i \in 1..list.n
  PROVE  sm \in Managers(Len(list.arr)) /\ ManagerIn(sm, list.n) /\ Of(picked, list.n)
  BY DEF Inv, TypeInv, ListOK, SelectionOK, SelectionIn

LEMMA TappedKeeps ==
  ASSUME Inv, NEW i \in 1..list.n, NEW ctrl \in BOOLEAN, NEW shift \in BOOLEAN,
         Tapped(i, ctrl, shift) \/ TappedSecondary(i, ctrl)
  PROVE  Inv'
  <1> DEFINE N == Len(list.arr)
             s1 == SelectMessageMultiple(sm, i, ctrl, shift)
             s2 == SelectMessageMultiple(sm, i, GetSelectedMessages(sm, list.n) # {} \/ ctrl, FALSE)
  <1>1. ListOK /\ row \in Nat /\ picked \in Held(N) \cup {NoPtr} /\ i \in Nat
    BY DEF Inv, TypeInv, SelectionOK, ListOK
  <1>2. /\ Slot(i) \in Held(N) /\ Of(Slot(i), list.n)
        /\ N \in Nat /\ list.n \in 1..N
        /\ sm \in Managers(N) /\ ManagerIn(sm, list.n) /\ Of(picked, list.n)
    BY <1>1, SlotHeld, ManagerOK
  <1>3. s1 \in Managers(N) /\ ManagerIn(s1, list.n)
    BY <1>2, Clicked
  <1>4. s2 \in Managers(N) /\ ManagerIn(s2, list.n)
    BY <1>2, Clicked
  <1>5. NoSelection \in Managers(N) /\ ManagerIn(NoSelection, list.n)
    BY <1>2 DEF Managers, NoSelection, ManagerIn, Of, Nil
  <1>6. \A s : s \in Managers(N) /\ ManagerIn(s, list.n) => s.shown \in Held(N) \cup {NoPtr} /\ Of(s.shown, list.n)
    BY DEF Managers, ManagerIn
  <1> HIDE DEF s1, s2
  <1>7. ASSUME NEW s, listSelect(s, i) PROVE sm' \in {s, NoSelection} /\ row' \in {row, 0, i}
    BY <1>7 DEF listSelect
  <1>8. CASE Tapped(i, ctrl, shift)
    <2>1. picked' \in {s1.shown, Slot(i)} /\ listSelect(s1, i)
      BY <1>8 DEF Tapped, s1
    <2>2. UNCHANGED <<view, list, newest, fetching, suppress, running, server>>
      BY <1>8 DEF Tapped
    <2>3. sm' \in {s1, NoSelection} /\ row' \in Nat
      BY <1>1, <1>7, <2>1
    <2>4. sm' \in Managers(N) /\ ManagerIn(sm', list.n)
      BY <1>3, <1>5, <2>3
    <2>5. picked' \in Held(N) \cup {NoPtr} /\ Of(picked', list.n)
      BY <1>2, <1>3, <1>6, <2>1
    <2> QED
      BY <2>2, <2>3, <2>4, <2>5, SameShown
  <1>9. CASE TappedSecondary(i, ctrl)
    <2>1. PICK s \in {sm, s2} : picked' \in {Slot(i), picked, s.shown} /\ listSelect(s, i)
      BY <1>9 DEF TappedSecondary, s2
    <2>2. UNCHANGED <<view, list, newest, fetching, suppress, running, server>>
      BY <1>9 DEF TappedSecondary
    <2>3. sm' \in {s, NoSelection} /\ row' \in Nat
      BY <1>1, <1>7, <2>1
    <2>4. s \in Managers(N) /\ ManagerIn(s, list.n)
      BY <1>2, <1>4
    <2>5. sm' \in Managers(N) /\ ManagerIn(sm', list.n)
      BY <1>5, <2>3, <2>4
    <2>6. picked' \in Held(N) \cup {NoPtr} /\ Of(picked', list.n)
      BY <1>1, <1>2, <1>6, <2>1, <2>4
    <2> QED
      BY <2>2, <2>3, <2>5, <2>6, SameShown
  <1> QED
    BY <1>8, <1>9

LEMMA SelectionCommandsKeep ==
  ASSUME Inv, selectAllMessages \/ clearSelection
  PROVE  Inv'
  <1> DEFINE N == Len(list.arr)
  <1>1. /\ ListOK /\ sm \in Managers(N) /\ N \in Nat /\ list.n \in 0..N
        /\ row \in Nat /\ picked \in Held(N) \cup {NoPtr}
    BY DEF Inv, TypeInv, SelectionOK, ListOK
  <1>2. CASE clearSelection
    <2>1. NoSelection \in Managers(N) /\ ManagerIn(NoSelection, list.n) /\ Of(NoPtr, list.n)
      BY <1>1 DEF Managers, NoSelection, ManagerIn, Of, Nil
    <2>2. UNCHANGED <<view, list, row, newest, fetching, suppress, running, server>>
          /\ sm' = NoSelection /\ picked' = NoPtr
      BY <1>2 DEF clearSelection
    <2> QED
      BY <1>1, <2>1, <2>2, SameShown
  <1>3. CASE selectAllMessages
    <2>1. UNCHANGED <<view, list, row, newest, fetching, suppress, running, server>>
          /\ sm' = SelectAllMessages(sm, list.n) /\ picked' = sm'.shown
      BY <1>3 DEF selectAllMessages
    <2>2. CASE list.n = 0
      <3> DEFINE s1 == [sm EXCEPT !.marks = {}]
      <3>1. sm' = [s1 EXCEPT !.off = {}]
        BY <2>1, <2>2, Zenon DEF SelectAllMessages
      <3>2. s1 \in Managers(N)
        BY <1>1 DEF Managers
      <3> HIDE DEF s1
      <3>3. sm' \in Managers(N)
        BY <3>1, <3>2 DEF Managers
      <3>4. picked' \in Held(N) \cup {NoPtr}
        BY <2>1, <3>3 DEF Managers
      <3> QED
        BY <1>1, <2>1, <2>2, <3>3, <3>4, SameShown
    <2>3. CASE list.n > 0
      <3>1. sm' = [marks |-> 1..list.n, off |-> {}, last |-> 1, shown |-> Slot(1)] /\ picked' = Slot(1)
        BY <2>1, <2>3 DEF SelectAllMessages
      <3>2. 1 \in 1..list.n
        BY <1>1, <2>3
      <3>3. Slot(1) \in Held(N) /\ Of(Slot(1), list.n)
        BY <1>1, <3>2, SlotHeld
      <3>4. sm' \in Managers(N) /\ ManagerIn(sm', list.n)
        BY <1>1, <3>1, <3>2, <3>3 DEF Managers, ManagerIn
      <3> QED
        BY <1>1, <2>1, <3>1, <3>3, <3>4, SameShown
    <2> QED
      BY <1>1, <2>2, <2>3
  <1> QED
    BY <1>2, <1>3

\* What the command for several messages names.
LEMMA SeveralHeld ==
  ASSUME Inv
  PROVE  /\ Several \in Seq(Held(Len(list.arr)))
         /\ \A k \in DOMAIN Several : Several[k].slot \in 1..list.n
  <1> DEFINE marked == GetSelectedMessages(sm, list.n)
             R == {p \in marked \X marked : p[1] < p[2]}
             at == [k \in 1..Cardinality(marked) |->
                      CHOOSE j \in marked : Cardinality({l \in marked : l <= j}) = k]
  <1>1. list.n \in Nat /\ ListOK
    BY DEF Inv, TypeInv, ListOK
  <1>2. marked \subseteq 1..list.n
    BY DEF GetSelectedMessages
  <1>3. IsFiniteSet(marked) /\ Cardinality(marked) \in Nat
    BY <1>1, <1>2, Interval, FS_Subset, FS_CardinalityType
  <1>4. \A x, y \in marked : <<x, y>> \in R <=> x < y
    OBVIOUS
  <1> HIDE DEF R, marked
  <1>5. /\ \A x \in marked : <<x, x>> \notin R
        /\ \A x, y, z \in marked : <<x, y>> \in R /\ <<y, z>> \in R => <<x, z>> \in R
        /\ \A x, y \in marked : x = y \/ <<x, y>> \in R \/ <<y, x>> \in R
    BY <1>1, <1>2, <1>4
  <1>6. ASSUME NEW j \in marked
        PROVE  Cardinality({l \in marked : l <= j}) = Cardinality(Ahead(marked, R, j)) + 1
    <2>1. {l \in marked : l <= j} = Ahead(marked, R, j) \cup {j}
      <3>1. \A l \in marked : l <= j <=> <<l, j>> \in R \/ l = j
        BY <1>1, <1>2, <1>4
      <3> QED
        BY <3>1 DEF Ahead
    <2>2. IsFiniteSet(Ahead(marked, R, j)) /\ j \notin Ahead(marked, R, j)
      BY <1>3, <1>5, FS_Subset DEF Ahead
    <2> QED
      BY <2>1, <2>2, FS_AddElement
  <1>7. ASSUME NEW k \in 1..Cardinality(marked)
        PROVE  \E j \in marked : Cardinality({l \in marked : l <= j}) = k
    <2>1. PICK j \in marked : Cardinality(Ahead(marked, R, j)) = k - 1
      BY <1>3, <1>5, RankTaken
    <2>2. Cardinality({l \in marked : l <= j}) = k
      BY <1>6, <2>1
    <2> QED
      BY <2>2
  <1>8. \A k \in 1..Cardinality(marked) : at[k] \in 1..list.n
    BY <1>2, <1>7
  <1>9. Several = [k \in 1..Cardinality(marked) |-> Slot(at[k])]
    BY DEF Several, marked
  <1> HIDE DEF at
  <1>10. \A k \in 1..Cardinality(marked) : Slot(at[k]) \in Held(Len(list.arr))
    BY <1>1, <1>8, SlotHeld
  <1>11. Several \in [1..Cardinality(marked) -> Held(Len(list.arr))]
    BY <1>9, <1>10
  <1>12. Several \in Seq(Held(Len(list.arr)))
    BY <1>3, <1>11, SeqOfFunction
  <1>13. \A k \in DOMAIN Several : Several[k].slot \in 1..list.n
    BY <1>8, <1>9 DEF Slot
  <1> QED
    BY <1>12, <1>13

LEMMA Asked1 ==
  ASSUME ListOK, NEW ptrs \in Seq(Held(Len(list.arr))), NEW how \in Ways, Ask(how, ptrs)
  PROVE  dialog' \in Seq(Questions(Len(list.arr))) /\ Len(dialog') <= 1
  <1> DEFINE want == UNION {Named(Deref(ptrs[i])) : i \in DOMAIN ptrs}
  <1>3. want \subseteq Messages
    BY DEF Named
  <1>4. dialog' = <<[how |-> how, ptrs |-> ptrs, want |-> want]>>
    BY DEF Ask
  <1> HIDE DEF want
  <1>5. [how |-> how, ptrs |-> ptrs, want |-> want] \in Questions(Len(list.arr))
    BY <1>3 DEF Questions
  <1> QED
    BY <1>4, <1>5

LEMMA AskingKeeps ==
  ASSUME Inv, moveToTrash \/ deleteMessage \/ moveToFolder
  PROVE  Inv'
  <1> DEFINE N == Len(list.arr)
  <1>1. /\ ListOK /\ N \in Nat /\ picked \in Held(N) \cup {NoPtr} /\ row \in Nat
        /\ tasks \in Seq(Tasks(N)) /\ ui \in Seq(Closures(N)) /\ ViewOK /\ ServerOK
        /\ dialog \in Seq(Questions(N)) /\ Len(dialog) <= 1
    BY DEF Inv, TypeInv, SelectionOK, ListOK, HoldersOK
  <1>2. UNCHANGED <<view, list, selection, newest, fetching, suppress, ui, server>>
    BY DEF moveToTrash, deleteMessage, moveToFolder
  <1>3. Several \in Seq(Held(N))
    BY SeveralHeld
  <1>4. ~Nil(picked) => picked \in Held(N) /\ <<picked>> \in Seq(Held(N)) /\ <<picked>> # <<>>
    BY <1>1 DEF Nil
  <1>5. "batch" \in Ways /\ "delete" \in Ways /\ "move" \in Ways /\ "trash" \in Ways
    BY DEF Ways
  <1> HIDE DEF N
  <1>6. ASSUME UNCHANGED tasks, Ask("batch", Several) PROVE HoldersOK(N)'
    BY <1>1, <1>2, <1>3, <1>5, <1>6, Asked1 DEF HoldersOK, N
  <1>7. ASSUME UNCHANGED tasks, ~Nil(picked), NEW how \in {"delete", "move"}, Ask(how, <<picked>>) PROVE HoldersOK(N)'
    <2>1. how \in Ways
      BY <1>5
    <2> QED
      BY <1>1, <1>2, <1>4, <1>7, <2>1, Asked1 DEF HoldersOK, N
  <1>8. ASSUME UNCHANGED dialog, ~Nil(picked),
               Run(Task("op", [ptrs |-> <<picked>>, want |-> Named(Deref(picked)), how |-> "trash"]))
        PROVE  HoldersOK(N)'
    <2>2. Named(Deref(picked)) \in SUBSET (Messages \cup Accounts)
      BY DEF Named
    <2> DEFINE want == Named(Deref(picked))
               t == Task("op", [ptrs |-> <<picked>>, want |-> want, how |-> "trash"])
    <2> HIDE DEF want
    <2>3. t \in Tasks(N)
      BY <1>1, <1>4, <1>5, <1>8, <2>2, OpTask DEF want
    <2>4. tasks' = Append(tasks, t)
      BY <1>8 DEF Run, want
    <2> HIDE DEF t
    <2>5. tasks' \in Seq(Tasks(N))
      BY <1>1, <2>3, <2>4
    <2>6. ui' = ui /\ dialog' = dialog
      BY <1>2, <1>8
    <2> QED
      BY <1>1, <1>2, <2>5, <2>6 DEF HoldersOK, N
  <1>9. HoldersOK(N)'
    BY <1>6, <1>7, <1>8 DEF moveToTrash, deleteMessage, moveToFolder
  <1>10. HoldersOK(Len(list.arr))'
    BY <1>2, <1>9 DEF N
  <1>11. ViewOK' /\ ServerOK' /\ row' \in Nat /\ sm' = sm /\ picked' = picked
    BY <1>1, <1>2 DEF ViewOK, ServerOK, server, selection
  <1> QED
    BY <1>2, <1>10, <1>11, SameList

LEMMA AnswerKeeps ==
  ASSUME Inv, Confirm \/ Cancel
  PROVE  Inv'
  <1> DEFINE N == Len(list.arr)
  <1>1. /\ ListOK /\ N \in Nat /\ picked \in Held(N) \cup {NoPtr} /\ row \in Nat
        /\ tasks \in Seq(Tasks(N)) /\ ui \in Seq(Closures(N)) /\ ViewOK /\ ServerOK
        /\ dialog \in Seq(Questions(N)) /\ Len(dialog) <= 1
    BY DEF Inv, TypeInv, SelectionOK, ListOK, HoldersOK
  <1>2. UNCHANGED <<view, list, selection, newest, fetching, suppress, ui, server>>
        /\ dialog # <<>> /\ dialog' = <<>>
    BY DEF Confirm, Cancel
  <1>3. dialog[1] \in Questions(N)
    BY <1>1, <1>2
  <1>4. dialog[1].ptrs \in Seq(Held(N)) /\ dialog[1].how \in Ways
        /\ dialog[1].want \in SUBSET Messages
    BY <1>3 DEF Questions
  <1> HIDE DEF N
  <1>5. tasks' \in Seq(Tasks(N))
    <2> DEFINE q == dialog[1]
               t1 == Task("batch", [ptrs |-> q.ptrs, want |-> q.want])
               t2 == Task("op", [ptrs |-> <<picked>>, want |-> q.want, how |-> q.how])
    <2>1. \/ UNCHANGED tasks
          \/ tasks' = Append(tasks, t1)
          \/ ~Nil(picked) /\ tasks' = Append(tasks, t2)
      BY DEF Confirm, Cancel, Run
    <2>2. t1 \in Tasks(N)
      <3>1. "batch" \in TaskKinds /\ None \in Accounts \cup {None} /\ Inbox \in Folders /\ {} \in SUBSET Messages
            /\ q.want \in SUBSET (Messages \cup Accounts)
        BY <1>4 DEF TaskKinds, Folders
      <3> HIDE DEF q
      <3> QED
        BY <1>1, <1>4, <3>1, TaskOf DEF q
    <2>3. ~Nil(picked) => t2 \in Tasks(N)
      <3>1. ~Nil(picked) => <<picked>> \in Seq(Held(N)) /\ <<picked>> # <<>>
        BY <1>1 DEF Nil, N
      <3> QED
        BY <1>1, <1>4, <3>1, OpTask
    <2> HIDE DEF t1, t2
    <2>4. \A t \in Tasks(N) : Append(tasks, t) \in Seq(Tasks(N))
      BY <1>1
    <2> QED
      BY <1>1, <2>1, <2>2, <2>3, <2>4
  <1>6. HoldersOK(Len(list.arr))'
    BY <1>1, <1>2, <1>5 DEF HoldersOK, N
  <1>7. ViewOK' /\ ServerOK' /\ row' \in Nat /\ sm' = sm /\ picked' = picked
    BY <1>1, <1>2 DEF ViewOK, ServerOK, server, selection
  <1> QED
    BY <1>2, <1>6, <1>7, SameList

\* The list is emptied.
LEMMA NoItems ==
  {} \in SUBSET ItemSet /\ IsFiniteSet({}) /\ (\A x, y \in {} : x.id = y.id => x = y) /\ Listed({}).n = 0
  BY FS_EmptySet DEF Listed

LEMMA AccountKeeps ==
  ASSUME Inv, NEW a \in Accounts, selectAccount(a)
  PROVE  Inv'
  <1>1. ViewOK /\ ServerOK /\ ui \in Seq(Closures(Len(list.arr)))
    BY DEF Inv, TypeInv, HoldersOK
  <1>2. view' = [unified |-> FALSE, acct |-> a, folder |-> None, client |-> a]
        /\ UNCHANGED <<newest, fetching, suppress, server>>
    BY DEF selectAccount
  <1>3. ViewOK' /\ ServerOK'
    BY <1>1, <1>2 DEF ViewOK, ServerOK, Folders, server
  <1>4. list' = Listed({}) /\ LeaveArray(ui) /\ clearMessageSelection
    BY DEF selectAccount
  <1> QED
    BY <1>1, <1>3, <1>4, NoItems, AnotherList

\* A folder that is deleted takes the list with it, but not the selection.
LEMMA DeletedFolderKeeps ==
  ASSUME Inv, handleDeletedFolder
  PROVE  Inv'
  <1> DEFINE N == Len(list.arr)
             r == Append(ui, Closure("fallback", [folder |-> view.folder]))
  <1>1. /\ ViewOK /\ ServerOK /\ ui \in Seq(Closures(N)) /\ ListOK /\ N \in Nat
        /\ view.folder \in Folders /\ sm \in Managers(N) /\ row \in Nat
    BY DEF Inv, TypeInv, HoldersOK, ViewOK, ListOK, SelectionOK
  <1>2. /\ UNCHANGED <<view, row, newest, fetching, suppress, server>>
        /\ list' = Listed({}) /\ LeaveArray(r) /\ picked' = NoPtr /\ sm' = [sm EXCEPT !.shown = Behind(@)]
    BY DEF handleDeletedFolder
  <1>3. Closure("fallback", [folder |-> view.folder]) \in Closures(N)
    <2>1. "fallback" \in {"failed", "uempty", "deselect", "moved", "reselect", "fallback"}
      OBVIOUS
    <2> QED
      BY <1>1, <2>1, ClosureOf
  <1>4. r \in Seq(Closures(N))
    BY <1>1, <1>3
  <1> HIDE DEF r
  <1>5. ListOK' /\ list'.n = 0 /\ Len(list'.arr) \in Nat
    BY <1>2, NoItems, ListedOK DEF ListOK
  <1>6. \A M \in Nat : HoldersOK(M)'
    BY <1>1, <1>2, <1>4, HoldersLeave DEF Inv, TypeInv
  <1>7. HoldersOK(Len(list.arr))'
    BY <1>5, <1>6
  <1>8. Behind(sm.shown) \in Held(Len(list'.arr)) \cup {NoPtr}
    <2>1. CASE sm.shown = NoPtr
      BY <2>1 DEF Behind, NoPtr, Slot
    <2>2. CASE sm.shown \in Held(N)
      BY <1>1, <2>2, Pointee
    <2> QED
      BY <1>1, <2>1, <2>2 DEF Managers
  <1>9. sm' \in Managers(Len(list'.arr))
    BY <1>1, <1>2, <1>8 DEF Managers
  <1>10. ViewOK' /\ ServerOK' /\ SelectionOK(Len(list.arr))' /\ SelectionIn(list.n)'
    BY <1>1, <1>2, <1>5, <1>9 DEF ViewOK, ServerOK, server, SelectionOK, SelectionIn
  <1> QED
    BY <1>5, <1>7, <1>10 DEF Inv, TypeInv

\* The other order: the same places, with other items in them.
LEMMA ResortedOK ==
  ASSUME ListOK, NEW n \in 0..Len(list.arr), NEW by \in BOOLEAN
  PROVE  LET arr == Sorted(SubSeq(list.arr, 1, n), by) \o SubSeq(list.arr, n + 1, Len(list.arr))
         IN  arr \in Seq(ItemSet) /\ Len(arr) = Len(list.arr)
  <1>1. list.arr \in Seq(ItemSet) /\ Len(list.arr) \in Nat
    BY DEF ListOK
  <1>2. SubSeq(list.arr, 1, n) \in Seq(ItemSet) /\ Len(SubSeq(list.arr, 1, n)) = n
    BY <1>1
  <1>3. Sorted(SubSeq(list.arr, 1, n), by) \in Seq(ItemSet) /\ Len(Sorted(SubSeq(list.arr, 1, n), by)) = n
    BY <1>2, SortedIsList
  <1>4. /\ SubSeq(list.arr, n + 1, Len(list.arr)) \in Seq(ItemSet)
        /\ Len(SubSeq(list.arr, n + 1, Len(list.arr))) = Len(list.arr) - n
    BY <1>1
  <1>5. ASSUME NEW s \in Seq(ItemSet), NEW t \in Seq(ItemSet)
        PROVE  s \o t \in Seq(ItemSet) /\ Len(s \o t) = Len(s) + Len(t)
    OBVIOUS
  <1>6. n + (Len(list.arr) - n) = Len(list.arr)
    BY <1>1
  <1> DEFINE s == Sorted(SubSeq(list.arr, 1, n), by)
             t == SubSeq(list.arr, n + 1, Len(list.arr))
  <1> HIDE DEF s, t
  <1>7. s \o t \in Seq(ItemSet) /\ Len(s \o t) = Len(list.arr)
    BY <1>3, <1>4, <1>5, <1>6 DEF s, t
  <1> QED
    BY <1>7 DEF s, t

LEMMA ToggleKeeps ==
  ASSUME Inv, ToggleSortOrder
  PROVE  Inv'
  <1> DEFINE arr == Sorted(SubSeq(list.arr, 1, list.sorted), ~newest)
                      \o SubSeq(list.arr, list.sorted + 1, Len(list.arr))
  <1>1. /\ UNCHANGED <<view, picked, sm, fetching, suppress, running, server>>
        /\ newest' = ~newest /\ row' = 0
        /\ list' = [list EXCEPT !.arr = arr, !.resorted = @ \/ list.sorted # list.n]
    BY DEF ToggleSortOrder
  <1>2. ListOK /\ list.sorted \in 0..Len(list.arr) /\ newest \in BOOLEAN
    BY DEF Inv, TypeInv, ListOK, ViewOK
  <1>3. arr \in Seq(ItemSet) /\ Len(arr) = Len(list.arr)
    BY <1>2, ResortedOK
  <1> HIDE DEF arr
  <1>4. list' = [arr |-> arr, n |-> list.n, sorted |-> list.sorted,
                 resorted |-> list.resorted \/ list.sorted # list.n]
    BY <1>1, <1>2 DEF ListOK
  <1>5. ListOK' /\ list'.n = list.n /\ Len(list'.arr) = Len(list.arr)
    BY <1>2, <1>3, <1>4 DEF ListOK
  <1>6. ViewOK' /\ ServerOK'
    BY <1>1, <1>2 DEF Inv, TypeInv, ViewOK, ServerOK, server
  <1>7. HoldersOK(Len(list.arr))' /\ SelectionOK(Len(list.arr))' /\ SelectionIn(list.n)'
    BY <1>1, <1>5 DEF Inv, TypeInv, HoldersOK, SelectionOK, SelectionIn, running
  <1> QED
    BY <1>5, <1>6, <1>7 DEF Inv, TypeInv

\* What the steps of goroutines and most closures start from.
LEMMA Known0 ==
  ASSUME Inv
  PROVE  /\ ListOK /\ ViewOK /\ ServerOK /\ Len(list.arr) \in Nat
         /\ tasks \in Seq(Tasks(Len(list.arr))) /\ ui \in Seq(Closures(Len(list.arr)))
         /\ dialog \in Seq(Questions(Len(list.arr))) /\ Len(dialog) <= 1
         /\ picked \in Held(Len(list.arr)) \cup {NoPtr} /\ row \in Nat
         /\ view.acct \in Accounts \cup {None} /\ view.folder \in Folders /\ view.client \in Accounts \cup {None}
  BY DEF Inv, TypeInv, HoldersOK, ListOK, SelectionOK, ViewOK

\* A step that leaves the list, the selection and the dialog.
LEMMA StepKeeps ==
  ASSUME Inv, UNCHANGED <<list, selection, dialog>>, ViewOK', ServerOK',
         tasks' \in Seq(Tasks(Len(list.arr))), ui' \in Seq(Closures(Len(list.arr)))
  PROVE  Inv'
  <1>1. HoldersOK(Len(list.arr))'
    BY Known0 DEF HoldersOK
  <1>2. picked' = picked /\ sm' = sm /\ row' \in Nat
    BY Known0 DEF selection
  <1> QED
    BY <1>1, <1>2, SameList

LEMMA NewTask ==
  ASSUME Inv, NEW STATE t, t \in Tasks(Len(list.arr)), Run(t)
  PROVE  tasks' \in Seq(Tasks(Len(list.arr)))
  BY Known0 DEF Run

LEMMA NewClosure ==
  ASSUME Inv, NEW STATE c, c \in Closures(Len(list.arr)), Do(c)
  PROVE  ui' \in Seq(Closures(Len(list.arr)))
  BY Known0 DEF Do

LEMMA Ending ==
  ASSUME Inv, NEW i \in DOMAIN tasks, end(i, <<>>)
  PROVE  tasks' \in Seq(Tasks(Len(list.arr)))
  BY Known0, Ended DEF end

LEMMA LoadTasks ==
  ASSUME NEW N \in Nat, NEW folder \in Folders, NEW force \in BOOLEAN
  PROVE  /\ Task("load", [folder |-> folder, force |-> force]) \in Tasks(N)
         /\ Task("uload", <<>>) \in Tasks(N)
         /\ Task("refresh", [folder |-> folder]) \in Tasks(N)
  <1>1. /\ "load" \in TaskKinds /\ "uload" \in TaskKinds /\ "refresh" \in TaskKinds
        /\ None \in Accounts \cup {None} /\ {} \in SUBSET Messages /\ <<>> \in Seq(Held(N))
        /\ {} \in SUBSET (Messages \cup Accounts)
    BY DEF TaskKinds
  <1>2. Task("load", [folder |-> folder, force |-> force]) \in Tasks(N)
    BY <1>1, TaskOf
  <1>3. Task("uload", <<>>) \in Tasks(N)
    BY <1>1, TaskOf
  <1>4. Task("refresh", [folder |-> folder]) \in Tasks(N)
    BY <1>1, TaskOf
  <1> QED
    BY <1>2, <1>3, <1>4

LEMMA FolderSelected ==
  ASSUME Inv, NEW STATE folder, folder \in Folders, NEW STATE force, force \in BOOLEAN,
         selectFolder(folder, force), UNCHANGED <<newest, fetching, suppress>>
  PROVE  ViewOK' /\ tasks' \in Seq(Tasks(Len(list.arr)))
  <1>1. CASE UNCHANGED <<view, tasks>>
    BY <1>1, Known0 DEF ViewOK
  <1>2. CASE view' = [view EXCEPT !.folder = folder]
             /\ Run(Task("load", [folder |-> folder, force |-> force]))
    <2>1. Task("load", [folder |-> folder, force |-> force]) \in Tasks(Len(list.arr))
      BY Known0, LoadTasks
    <2>2. tasks' \in Seq(Tasks(Len(list.arr)))
      BY <1>2, <2>1, NewTask
    <2>3. ViewOK'
      BY <1>2, Known0 DEF ViewOK
    <2> QED
      BY <2>2, <2>3
  <1> QED
    BY <1>1, <1>2 DEF selectFolder

LEMMA SelectKeeps ==
  ASSUME Inv, \/ selectUnifiedInbox
              \/ \E b \in Boxes : SelectFolder(b[2])
              \/ \E m \in Messages : NewMail(m)
  PROVE  Inv'
  <1> DEFINE N == Len(list.arr)
  <1>1. CASE selectUnifiedInbox
    <2>1. /\ view' = [unified |-> TRUE, acct |-> None, folder |-> None, client |-> view.client]
          /\ UNCHANGED <<list, sm, row, newest, fetching, suppress, ui, dialog, server>>
          /\ picked' = NoPtr /\ Run(Task("uload", <<>>))
      BY <1>1 DEF selectUnifiedInbox
    <2>2. Task("uload", <<>>) \in Tasks(N)
      <3>1. Inbox \in Folders /\ FALSE \in BOOLEAN
        BY DEF Folders
      <3> QED
        BY <3>1, Known0, LoadTasks
    <2>3. tasks' \in Seq(Tasks(N))
      BY <2>1, <2>2, NewTask
    <2>4. HoldersOK(Len(list.arr))' /\ row' \in Nat
      BY <2>1, <2>3, Known0 DEF HoldersOK
    <2>5. ViewOK' /\ ServerOK'
      BY <2>1, Known0 DEF ViewOK, ServerOK, server, Folders
    <2> QED
      BY <2>1, <2>4, <2>5, SameList
  <1>2. ASSUME NEW b \in Boxes, SelectFolder(b[2]) PROVE Inv'
    <2>1. b[2] \in Folders /\ FALSE \in BOOLEAN
      BY DEF Boxes, Folders
    <2>2. /\ selectFolder(b[2], FALSE)
          /\ UNCHANGED <<list, selection, newest, fetching, suppress, ui, dialog, server>>
      BY <1>2 DEF SelectFolder
    <2>3. ViewOK' /\ tasks' \in Seq(Tasks(N))
      BY <2>1, <2>2, FolderSelected
    <2>4. ServerOK' /\ ui' \in Seq(Closures(N))
      BY <2>2, Known0 DEF ServerOK, server
    <2> QED
      BY <2>2, <2>3, <2>4, StepKeeps
  <1>3. ASSUME NEW m \in Messages, NewMail(m) PROVE Inv'
    <2>1. /\ Run(Task("announce", [acct |-> m.acct, folder |-> m.folder, msgs |-> {m}]))
          /\ mail' = mail \cup {m}
          /\ UNCHANGED <<view, list, selection, newest, fetching, suppress, ui, dialog, cache>>
      BY <1>3 DEF NewMail
    <2>2. Task("announce", [acct |-> m.acct, folder |-> m.folder, msgs |-> {m}]) \in Tasks(N)
      BY Known0, AnnounceTask
    <2>3. tasks' \in Seq(Tasks(N))
      BY <2>1, <2>2, NewTask
    <2>4. ServerOK' /\ ViewOK' /\ ui' \in Seq(Closures(N))
      BY <2>1, Known0 DEF ServerOK, ViewOK
    <2> QED
      BY <2>1, <2>3, <2>4, StepKeeps
  <1> QED
    BY <1>1, <1>2, <1>3

(***************************************************************************)
(* Loading lists.                                                          *)
(***************************************************************************)
LEMMA CachePut ==
  ASSUME ServerOK, NEW key, NEW msgs \in SUBSET Messages, \A m \in msgs : <<m.acct, m.folder>> = key
  PROVE  LET put == [b \in Boxes |-> IF b = key THEN Cached(msgs) ELSE cache[b]]
         IN  /\ put \in [Boxes -> [found : BOOLEAN, msgs : SUBSET Messages]]
             /\ \A b \in Boxes : \A m \in put[b].msgs : <<m.acct, m.folder>> = b
  <1>1. Cached(msgs) \in [found : BOOLEAN, msgs : SUBSET Messages] /\ Cached(msgs).msgs = msgs
    BY DEF Cached
  <1> QED
    BY <1>1 DEF ServerOK

LEMMA LoadKeeps ==
  ASSUME Inv, NEW i \in DOMAIN tasks, LoadStart(i) \/ LoadFetch(i) \/ LoadEnd(i)
  PROVE  Inv'
  <1> DEFINE N == Len(list.arr)
  <1>1. N \in Nat /\ tasks \in Seq(Tasks(N)) /\ tasks[i] \in Tasks(N) /\ tasks[i].folder \in Folders
    <2>1. N \in Nat /\ tasks \in Seq(Tasks(N))
      BY Known0
    <2>2. tasks[i] \in Tasks(N)
      BY <2>1
    <2> QED
      BY <2>1, <2>2 DEF Tasks
  <1>2. "start" \in Stages /\ "fetch" \in Stages /\ "done" \in Stages
    BY DEF Stages
  <1>3. CASE LoadStart(i)
    <2> DEFINE t == tasks[i]
               hit == IF <<view.acct, t.folder>> \in Boxes THEN cache[<<view.acct, t.folder>>] ELSE NotCached
               at == IF hit.found /\ ~t.force THEN "done" ELSE "fetch"
               c == Closure("show", [folder |-> t.folder, msgs |-> hit.msgs])
    <2>1. UNCHANGED <<view, list, selection, newest, suppress, dialog, server>>
      BY <1>3 DEF LoadStart
    <2>2. hit.msgs \in SUBSET Messages /\ OneBox(hit.msgs, t.folder)
      <3>1. CASE <<view.acct, t.folder>> \in Boxes
        <4>1. /\ hit.msgs \in SUBSET Messages
              /\ \A m \in hit.msgs : <<m.acct, m.folder>> = <<view.acct, t.folder>>
          BY <3>1, Known0 DEF ServerOK
        <4> QED
          BY <4>1 DEF OneBox
      <3>2. CASE <<view.acct, t.folder>> \notin Boxes
        BY <3>2 DEF NotCached, OneBox
      <3> QED
        BY <3>1, <3>2
    <2>3. c \in Closures(N)
      <3> HIDE DEF hit
      <3> QED
        BY <1>1, <2>2, FolderClosure
    <2>4. at \in Stages /\ at # "start"
      BY <1>2
    <2>5. \/ end(i, <<>>) /\ missed' = TRUE /\ UNCHANGED <<fetching, ui>>
          \/ /\ fetching' = TRUE /\ missed' = (missed \/ t.folder # view.folder)
             /\ Do(c) \/ UNCHANGED ui
             /\ tasks' = [tasks EXCEPT ![i].at = at]
      BY <1>3 DEF LoadStart
    <2> HIDE DEF c, at
    <2>6. [tasks EXCEPT ![i].at = at] \in Seq(Tasks(N))
      BY <1>1, <2>4, Staged
    <2>7. tasks' \in Seq(Tasks(N)) /\ ui' \in Seq(Closures(N))
      <3>1. CASE end(i, <<>>) /\ UNCHANGED ui
        BY <3>1, Known0, Ending
      <3>3. CASE Do(c) /\ tasks' = [tasks EXCEPT ![i].at = at]
        BY <2>3, <2>6, <3>3, NewClosure
      <3>4. CASE UNCHANGED ui /\ tasks' = [tasks EXCEPT ![i].at = at]
        BY <2>6, <3>4, Known0
      <3> QED
        BY <2>5, <3>1, <3>3, <3>4
    <2>9. ViewOK' /\ ServerOK'
      BY <2>1, <2>5, Known0 DEF ViewOK, ServerOK, server
    <2> QED
      BY <2>1, <2>7, <2>9, StepKeeps
  <1>4. CASE LoadFetch(i)
    <2> DEFINE folder == tasks[i].folder
               msgs == In(view.client, folder)
               c == Closure("fresh", [folder |-> folder, msgs |-> msgs])
    <2>1. /\ UNCHANGED <<view, list, selection, newest, fetching, suppress, dialog, mail>>
          /\ tasks' = [tasks EXCEPT ![i].at = "done"]
      BY <1>4 DEF LoadFetch
    <2>2. /\ msgs \in SUBSET Messages /\ OneBox(msgs, folder)
          /\ \A m \in msgs : <<m.acct, m.folder>> = <<view.client, folder>>
      BY Known0 DEF ServerOK, In, OneBox
    <2>3. c \in Closures(N) /\ Closure("failed", <<>>) \in Closures(N)
      <3> HIDE DEF msgs
      <3> QED
        BY <1>1, <2>2, FolderClosure, ClosureOf
    <2>4. \/ /\ Do(c)
             /\ cache' = [b \in Boxes |-> IF b = <<view.client, folder>> THEN Cached(msgs) ELSE cache[b]]
          \/ Do(Closure("failed", <<>>)) /\ UNCHANGED cache
      BY <1>4 DEF LoadFetch
    <2>5. tasks' \in Seq(Tasks(N))
      BY <1>1, <1>2, <2>1, Staged
    <2> HIDE DEF c, msgs
    <2>6. ui' \in Seq(Closures(N))
      BY <2>3, <2>4, NewClosure
    <2>7. ServerOK'
      <3> DEFINE key == <<view.client, folder>>
                 put == [b \in Boxes |-> IF b = key THEN Cached(msgs) ELSE cache[b]]
      <3>3. \A m \in msgs : <<m.acct, m.folder>> = key
        BY <2>2
      <3>4. cache' \in {cache, put}
        BY <2>4
      <3> HIDE DEF key
      <3>1. /\ put \in [Boxes -> [found : BOOLEAN, msgs : SUBSET Messages]]
            /\ \A b \in Boxes : \A m \in put[b].msgs : <<m.acct, m.folder>> = b
        BY <2>2, <3>3, Known0, CachePut
      <3> HIDE DEF put
      <3> QED
        BY <2>1, <3>1, <3>4, Known0 DEF ServerOK
    <2>8. ViewOK'
      BY <2>1, <2>4, Known0 DEF ViewOK
    <2> QED
      BY <2>1, <2>5, <2>6, <2>7, <2>8, StepKeeps
  <1>5. CASE LoadEnd(i)
    <2>1. /\ UNCHANGED <<view, list, selection, newest, suppress, ui, dialog, server>>
          /\ fetching' = FALSE /\ end(i, <<>>)
      BY <1>5 DEF LoadEnd
    <2>2. ViewOK' /\ ServerOK' /\ ui' \in Seq(Closures(N))
      BY <2>1, Known0 DEF ViewOK, ServerOK, server
    <2>3. tasks' \in Seq(Tasks(N))
      BY <2>1, Ending
    <2> QED
      BY <2>1, <2>2, <2>3, StepKeeps
  <1> QED
    BY <1>3, <1>4, <1>5

LEMMA CrashKeeps ==
  ASSUME Inv, NEW i \in DOMAIN tasks, LoadCrash(i)
  PROVE  Inv'
  <1>1. /\ UNCHANGED <<view, list, selection, newest, fetching, server>>
        /\ tasks' = <<>> /\ ui' = <<>> /\ dialog' = <<>> /\ suppress' = {}
    BY DEF LoadCrash
  <1>2. ViewOK' /\ ServerOK' /\ HoldersOK(Len(list.arr))'
    BY <1>1, Known0 DEF ViewOK, ServerOK, server, HoldersOK
  <1>3. picked' = picked /\ sm' = sm /\ row' \in Nat /\ UNCHANGED list
    BY <1>1, Known0 DEF selection
  <1> QED
    BY <1>2, <1>3, SameList

LEMMA UnifiedKeeps ==
  ASSUME Inv, NEW i \in DOMAIN tasks, UnifiedStart(i) \/ UnifiedFetch(i) \/ UnifiedEnd(i)
  PROVE  Inv'
  <1> DEFINE N == Len(list.arr)
  <1>1. /\ N \in Nat /\ tasks \in Seq(Tasks(N)) /\ tasks[i] \in Tasks(N)
        /\ tasks[i].msgs \in SUBSET Messages /\ Inbox \in Folders
        /\ tasks[i].kind = "uload" /\ AllInbox(tasks[i].msgs)
    <2>1. N \in Nat /\ tasks \in Seq(Tasks(N))
      BY Known0
    <2>2. tasks[i] \in Tasks(N)
      BY <2>1
    <2>3. tasks[i].kind = "uload"
      BY DEF UnifiedStart, UnifiedFetch, UnifiedEnd, Is
    <2> QED
      BY <2>1, <2>2, <2>3 DEF Tasks, Folders
  <1>2. CASE UnifiedStart(i)
    <2> DEFINE hits == {a \in Inboxes : cache[<<a, Inbox>>].found}
               msgs == UNION {cache[<<a, Inbox>>].msgs : a \in hits}
    <2>1. /\ UNCHANGED <<view, list, selection, newest, fetching, suppress, dialog, server, left>>
          /\ tasks' = [tasks EXCEPT ![i].at = "fetch", ![i].want = Accounts]
          /\ Do(Closure("uempty", <<>>)) \/ Do(Closure("ucached", [msgs |-> msgs]))
      BY <1>2 DEF UnifiedStart
    <2>2. msgs \in SUBSET Messages /\ AllInbox(msgs)
      <3>1. ASSUME NEW a \in hits
            PROVE  cache[<<a, Inbox>>].msgs \in SUBSET Messages /\ AllInbox(cache[<<a, Inbox>>].msgs)
        <4>1. <<a, Inbox>> \in Boxes
          BY DEF Inboxes
        <4>2. \A m \in cache[<<a, Inbox>>].msgs : <<m.acct, m.folder>> = <<a, Inbox>>
          BY <4>1, Known0 DEF ServerOK
        <4> QED
          BY <4>1, <4>2, Known0 DEF ServerOK, AllInbox
      <3> HIDE DEF hits
      <3> QED
        BY <3>1 DEF AllInbox
    <2> HIDE DEF msgs
    <2>3. Closure("uempty", <<>>) \in Closures(N) /\ Closure("ucached", [msgs |-> msgs]) \in Closures(N)
      BY <1>1, <2>2, ClosureOf, InboxClosure
    <2>4. ui' \in Seq(Closures(N))
      BY <2>1, <2>3, NewClosure
    <2>5. tasks' \in Seq(Tasks(N))
      <3>1. "fetch" \in Stages /\ Accounts \in SUBSET (Messages \cup Accounts)
        BY DEF Stages
      <3> QED
        BY <1>1, <2>1, <3>1, Asking
    <2>6. ViewOK' /\ ServerOK'
      BY <2>1, Known0 DEF ViewOK, ServerOK, server
    <2> QED
      BY <2>1, <2>4, <2>5, <2>6, StepKeeps
  <1>3. CASE UnifiedFetch(i)
    <2>1. PICK a \in tasks[i].want :
            \/ /\ tasks' = [tasks EXCEPT ![i].want = @ \ {a}, ![i].msgs = @ \cup In(a, Inbox)]
               /\ cache' = [b \in Boxes |-> IF b = <<a, Inbox>> THEN Cached(In(a, Inbox)) ELSE cache[b]]
            \/ /\ tasks' = [tasks EXCEPT ![i].want = @ \ {a}]
               /\ UNCHANGED cache
      BY <1>3 DEF UnifiedFetch
    <2>2. /\ UNCHANGED <<view, list, selection, newest, fetching, suppress, ui, dialog, mail>>
          /\ tasks[i].kind = "uload"
      BY <1>3 DEF UnifiedFetch, Is
    <2> DEFINE msgs == In(a, Inbox)
               key == <<a, Inbox>>
    <2>3. msgs \in SUBSET Messages /\ AllInbox(msgs) /\ \A m \in msgs : <<m.acct, m.folder>> = key
      BY Known0 DEF ServerOK, In, AllInbox
    <2>4. \/ /\ tasks' = [tasks EXCEPT ![i].want = @ \ {a}, ![i].msgs = @ \cup msgs]
             /\ cache' = [b \in Boxes |-> IF b = key THEN Cached(msgs) ELSE cache[b]]
          \/ tasks' = [tasks EXCEPT ![i].want = @ \ {a}] /\ UNCHANGED cache
      BY <2>1
    <2> HIDE DEF msgs, key
    <2>5. tasks' \in Seq(Tasks(N))
      <3>1. [tasks EXCEPT ![i].want = @ \ {a}] \in Seq(Tasks(N))
        <4>1. {} \in SUBSET Messages /\ AllInbox({})
          BY DEF AllInbox
        <4> QED
          BY <1>1, <2>2, <4>1, Answered
      <3>2. [tasks EXCEPT ![i].want = @ \ {a}, ![i].msgs = @ \cup msgs] \in Seq(Tasks(N))
        BY <1>1, <2>2, <2>3, Answered
      <3> QED
        BY <2>4, <3>1, <3>2, Zenon
    <2>6. ServerOK'
      <3> DEFINE put == [b \in Boxes |-> IF b = key THEN Cached(msgs) ELSE cache[b]]
      <3>2. cache' \in {cache, put}
        BY <2>4
      <3>1. /\ put \in [Boxes -> [found : BOOLEAN, msgs : SUBSET Messages]]
            /\ \A b \in Boxes : \A m \in put[b].msgs : <<m.acct, m.folder>> = b
        <4>1. ServerOK
          BY Known0
        <4> QED
          BY ONLY <2>3, <4>1, CachePut, Zenon
      <3> HIDE DEF put
      <3> QED
        BY <2>2, <3>1, <3>2, Known0 DEF ServerOK
    <2>7. ViewOK' /\ ui' \in Seq(Closures(N))
      BY <2>2, Known0 DEF ViewOK
    <2> QED
      BY <2>2, <2>5, <2>6, <2>7, StepKeeps
  <1>4. CASE UnifiedEnd(i)
    <2> DEFINE msgs == tasks[i].msgs
    <2>1. /\ UNCHANGED <<view, list, selection, newest, fetching, suppress, dialog, server, left>>
          /\ Do(Closure("uall", [msgs |-> msgs])) /\ end(i, <<>>)
      BY <1>4 DEF UnifiedEnd
    <2>2. Closure("uall", [msgs |-> msgs]) \in Closures(N)
      <3> HIDE DEF msgs
      <3> QED
        BY <1>1, InboxClosure DEF msgs
    <2>3. ui' \in Seq(Closures(N)) /\ tasks' \in Seq(Tasks(N))
      BY <2>1, <2>2, NewClosure, Ending
    <2>4. ViewOK' /\ ServerOK'
      BY <2>1, Known0 DEF ViewOK, ServerOK, server
    <2> QED
      BY <2>1, <2>3, <2>4, StepKeeps
  <1> QED
    BY <1>2, <1>3, <1>4

(***************************************************************************)
(* Removals, timers and the callbacks.                                     *)
(***************************************************************************)
LEMMA FirstPointer ==
  ASSUME ListOK, NEW ptrs \in Seq(Held(Len(list.arr))), ptrs # <<>>
  PROVE  ptrs[1] \in Held(Len(list.arr)) /\ Deref(ptrs[1]) \in ItemSet /\ Deref(ptrs[1]).acct \in Accounts
  <1>1. ptrs[1] \in Held(Len(list.arr))
    OBVIOUS
  <1>2. Deref(ptrs[1]) \in ItemSet
    BY <1>1, Pointee
  <1> QED
    BY <1>1, <1>2 DEF ItemSet

LEMMA CallOK ==
  ASSUME ServerOK, NEW p, NEW ok \in BOOLEAN, call(p, ok), UNCHANGED cache
  PROVE  ServerOK'
  BY DEF call, ServerOK

LEMMA OpKeeps ==
  ASSUME Inv, NEW i \in DOMAIN tasks, OpStart(i) \/ OpCall(i)
  PROVE  Inv'
  <1> DEFINE N == Len(list.arr)
             t == tasks[i]
             x == Deref(t.ptrs[1])
  <1>1. /\ N \in Nat /\ tasks \in Seq(Tasks(N)) /\ t \in Tasks(N) /\ ListOK
        /\ t.ptrs \in Seq(Held(N)) /\ t.ptrs # <<>>
    <2>1. N \in Nat /\ tasks \in Seq(Tasks(N)) /\ ListOK
      BY Known0
    <2>2. t \in Tasks(N) /\ t.kind = "op"
      BY <2>1 DEF OpStart, OpCall, Is
    <2> QED
      BY <2>1, <2>2 DEF Tasks
  <1>2. x.acct \in Accounts
    BY <1>1, FirstPointer
  <1> HIDE DEF N
  <1>3. CASE OpStart(i)
    <2>1. /\ UNCHANGED <<view, list, selection, newest, fetching, ui, dialog, server, left>>
          /\ suppress' \in {suppress, suppress \cup {x.acct}}
          /\ \/ tasks' = [tasks EXCEPT ![i].at = "call"]
             \/ t.how # "move" /\ tasks' = [tasks EXCEPT ![i].at = "call", ![i].acct = x.acct]
          /\ t.kind = "op"
      BY <1>3 DEF OpStart, Is
    <2> HIDE DEF x
    <2>2. tasks' \in Seq(Tasks(N))
      <3>1. "call" \in Stages /\ i \in DOMAIN tasks
        BY DEF Stages
      <3>2. [tasks EXCEPT ![i].at = "call"] \in Seq(Tasks(N))
        BY <1>1, <3>1, Staged
      <3>3. t.how # "move" => [tasks EXCEPT ![i].at = "call", ![i].acct = x.acct] \in Seq(Tasks(N))
        BY <1>1, <1>2, <2>1, <3>1, StagedOfAccount
      <3> QED
        BY <2>1, <3>2, <3>3
    <2> HIDE DEF x
    <2>3. ViewOK' /\ ServerOK' /\ ui' \in Seq(Closures(N))
      BY <1>2, <2>1, Known0 DEF ViewOK, ServerOK, server, N
    <2> QED
      BY <2>1, <2>2, <2>3, StepKeeps DEF N
  <1>4. CASE OpCall(i)
    <2> DEFINE lift == Task("lift", [acct |-> x.acct])
               fresh == Task("refresh", [folder |-> view.folder])
               c(n) == Closure("removed", [ptrs |-> t.ptrs, index |-> n])
               moved == Closure("moved", <<>>)
    <2>1. PICK ok \in BOOLEAN :
            /\ call(t.ptrs[1], ok)
            /\ \E more \in {<<>>, <<lift>>} : \E then \in {<<>>, <<fresh>>} : end(i, more \o then)
            /\ UNCHANGED ui \/ Do(moved) \/ \E n \in {0, 1} : Do(c(n))
      BY <1>4 DEF OpCall, lifting
    <2>2. UNCHANGED <<view, list, selection, newest, fetching, suppress, dialog, cache>>
      BY <1>4 DEF OpCall
    <2>3. lift \in Tasks(N)
      <3>1. "lift" \in TaskKinds /\ Inbox \in Folders /\ FALSE \in BOOLEAN /\ "none" \in Ways
            /\ {} \in SUBSET Messages /\ {} \in SUBSET (Messages \cup Accounts) /\ <<>> \in Seq(Held(N))
        BY DEF TaskKinds, Folders, Ways
      <3> HIDE DEF x
      <3> QED
        BY <1>1, <1>2, <3>1, TaskOf
    <2>4. fresh \in Tasks(N)
      <3>1. view.folder \in Folders /\ FALSE \in BOOLEAN
        BY Known0
      <3> QED
        BY <1>1, <3>1, LoadTasks
    <2>5. moved \in Closures(N)
      <3>1. Inbox \in Folders
        BY DEF Folders
      <3> QED
        BY <1>1, <3>1, ClosureOf
    <2>6. \A n \in {0, 1} : c(n) \in Closures(N)
      <3> HIDE DEF t
      <3> QED
        BY <1>1, RemovedClosure
    <2> HIDE DEF lift, fresh, c, moved
    <2>7. tasks' \in Seq(Tasks(N))
      <3>1. PICK more \in {<<>>, <<lift>>}, then \in {<<>>, <<fresh>>} : end(i, more \o then)
        BY <2>1
      <3> DEFINE S == Tasks(N)
      <3> HIDE DEF S
      <3>4. \A s \in S : <<s>> \in Seq(S)
        OBVIOUS
      <3>2. more \in Seq(S) /\ then \in Seq(S)
        <4>1. <<lift>> \in Seq(S) /\ <<fresh>> \in Seq(S) /\ <<>> \in Seq(S)
          BY <2>3, <2>4, <3>4 DEF S
        <4> QED
          BY <4>1
      <3>3. more \o then \in Seq(Tasks(N))
        BY <3>2 DEF S
      <3> QED
        BY <1>1, <3>1, <3>3, Ended DEF end
    <2>8. ui' \in Seq(Closures(N))
      BY <2>1, <2>2, <2>5, <2>6, NewClosure, Known0 DEF N
    <2>9. ViewOK' /\ ServerOK'
      <3>1. ServerOK'
        BY <2>1, <2>2, Known0, CallOK
      <3> QED
        BY <2>2, <3>1, Known0 DEF ViewOK
    <2> QED
      BY <2>2, <2>7, <2>8, <2>9, StepKeeps DEF N
  <1> QED
    BY <1>3, <1>4

LEMMA BatchKeeps ==
  ASSUME Inv, NEW i \in DOMAIN tasks, BatchCall(i)
  PROVE  Inv'
  <1> DEFINE N == Len(list.arr)
             t == tasks[i]
  <1>1. N \in Nat /\ tasks \in Seq(Tasks(N)) /\ t.kind = "batch"
    BY Known0 DEF BatchCall, Is
  <1>2. UNCHANGED <<view, list, selection, newest, fetching, suppress, dialog, cache>>
    BY DEF BatchCall
  <1>3. \/ Do(Closure("deselect", <<>>)) /\ end(i, <<>>) /\ UNCHANGED mail
        \/ /\ t.ptrs # <<>> /\ \E ok \in BOOLEAN : call(t.ptrs[1], ok)
           /\ tasks' = [tasks EXCEPT ![i].ptrs = Tail(@)] /\ UNCHANGED ui
    BY DEF BatchCall
  <1>4. Closure("deselect", <<>>) \in Closures(N)
    <2>1. Inbox \in Folders
      BY DEF Folders
    <2> QED
      BY <1>1, <2>1, ClosureOf
  <1>5. tasks' \in Seq(Tasks(N)) /\ ui' \in Seq(Closures(N))
    BY <1>1, <1>3, <1>4, OneLess, NewClosure, Ending, Known0
  <1>6. ServerOK'
    BY <1>2, <1>3, Known0, CallOK DEF ServerOK
  <1>7. ViewOK'
    BY <1>2, Known0 DEF ViewOK
  <1> QED
    BY <1>2, <1>5, <1>6, <1>7, StepKeeps

LEMMA TimersKeep ==
  ASSUME Inv, NEW i \in DOMAIN tasks, Lift(i) \/ SelectNext(i) \/ Refresh(i) \/ Announce(i)
  PROVE  Inv'
  <1> DEFINE N == Len(list.arr)
             t == tasks[i]
  <1>1. N \in Nat /\ tasks \in Seq(Tasks(N)) /\ t \in Tasks(N)
    <2>1. N \in Nat /\ tasks \in Seq(Tasks(N))
      BY Known0
    <2>2. t \in Tasks(N)
      BY <2>1
    <2> QED
      BY <2>1, <2>2
  <1>2. /\ UNCHANGED <<view, list, selection, newest, fetching, dialog, server>>
        /\ suppress' \subseteq suppress /\ end(i, <<>>)
    BY DEF Lift, SelectNext, Refresh, Announce
  <1>3. ui \in Seq(Closures(N))
    BY Known0
  <1> DEFINE next == Closure("next", [index |-> t.index])
             again == Closure("reselect", [folder |-> view.folder])
             inject1 == Closure("inject", [msgs |-> t.msgs])
             arrived1 == Closure("arrived", [folder |-> t.folder, msgs |-> t.msgs])
  <1>4. \/ UNCHANGED ui
        \/ t.kind = "next" /\ Do(next)
        \/ Do(again)
        \/ t.kind = "announce" /\ (Do(inject1) \/ Do(arrived1))
    BY DEF Lift, SelectNext, Refresh, Announce, Is
  <1>5. t.kind = "next" => next \in Closures(N)
    <2>1. t.index \in Nat /\ (t.kind = "next" => t.index > 0)
      BY <1>1 DEF Tasks
    <2> DEFINE index == t.index
    <2> HIDE DEF index
    <2>2. index > 0 /\ index \in Nat => Closure("next", [index |-> index]) \in Closures(N)
      BY <1>1, NextClosure
    <2> QED
      BY <2>1, <2>2 DEF index
  <1>6. again \in Closures(N)
    <2>1. view.folder \in Folders
      BY Known0
    <2> QED
      BY <1>1, <2>1, ClosureOf
  <1>7. t.kind = "announce" => inject1 \in Closures(N) /\ arrived1 \in Closures(N)
    <2>1. t.kind = "announce" => \E m \in Messages : t.msgs = {m} /\ t.folder = m.folder
      BY <1>1 DEF Tasks
    <2> HIDE DEF t
    <2> QED
      BY <1>1, <2>1, AnnouncedClosures
  <1> HIDE DEF next, again, inject1, arrived1
  <1>8. ui' \in Seq(Closures(N))
    BY <1>3, <1>4, <1>5, <1>6, <1>7, NewClosure
  <1>9. tasks' \in Seq(Tasks(N))
    BY <1>2, Ending
  <1>10. ViewOK' /\ ServerOK'
    BY <1>2, Known0 DEF ViewOK, ServerOK, server
  <1> QED
    BY <1>2, <1>8, <1>9, <1>10, StepKeeps

(***************************************************************************)
(* The closures that show another list.                                    *)
(***************************************************************************)
LEMMA FirstClosure ==
  ASSUME Inv, ui # <<>>
  PROVE  /\ ui[1] \in Closures(Len(list.arr)) /\ rest \in Seq(Closures(Len(list.arr)))
         /\ ui[1].folder \in Folders /\ ui[1].msgs \in SUBSET Messages
         /\ ui[1].ptrs \in Seq(Held(Len(list.arr))) /\ ui[1].index \in Nat
         /\ ui[1].kind = "removed" => ui[1].ptrs # <<>>
         /\ ui[1].kind = "next" => ui[1].index > 0
         /\ ui[1].kind \in {"inject", "arrived"} => \E m \in Messages : ui[1].msgs = {m}
         /\ ui[1].kind \in OfFolder => OneBox(ui[1].msgs, ui[1].folder)
  <1>1. ui \in Seq(Closures(Len(list.arr)))
    BY Known0
  <1>2. ui[1] \in Closures(Len(list.arr))
    BY <1>1
  <1>3. rest \in Seq(Closures(Len(list.arr)))
    BY <1>1 DEF rest
  <1> QED
    BY <1>2, <1>3 DEF Closures

LEMMA ReplaceKeeps ==
  ASSUME Inv, NEW STATE items, items \in SUBSET ItemSet, IsFiniteSet(items),
         \A x, y \in items : x.id = y.id => x = y, Replace(items), ui # <<>>,
         UNCHANGED <<view, newest, fetching, suppress, server>>
  PROVE  Inv'
  <1>1. list' = Listed(items) /\ LeaveArray(rest) /\ clearMessageSelection
    BY DEF Replace
  <1>2. rest \in Seq(Closures(Len(list.arr)))
    BY FirstClosure
  <1>3. ViewOK' /\ ServerOK'
    BY Known0 DEF ViewOK, ServerOK, server
  <1> QED
    BY <1>1, <1>2, <1>3, AnotherList

LEMMA StayKeeps ==
  ASSUME Inv, Stay, ui # <<>>, UNCHANGED <<view, newest, fetching, suppress, server>>
  PROVE  Inv'
  <1>1. ui' \in Seq(Closures(Len(list.arr))) /\ tasks' \in Seq(Tasks(Len(list.arr)))
    BY Known0, FirstClosure DEF Stay
  <1>2. ViewOK' /\ ServerOK'
    BY Known0 DEF ViewOK, ServerOK, server
  <1>3. UNCHANGED <<list, selection, dialog>>
    BY DEF Stay
  <1> QED
    BY <1>1, <1>2, <1>3, StepKeeps

LEMMA ShowKeeps ==
  ASSUME Inv, showFolder \/ showFailed \/ showUnified \/ showLoading
  PROVE  Inv'
  <1>1. ui # <<>> /\ UNCHANGED <<view, newest, fetching, suppress, server>>
    BY DEF showFolder, showFailed, showUnified, showLoading, Next1
  <1>2. CASE showFolder
    <2> DEFINE items == Items(view.acct, ui[1].folder, ui[1].msgs)
    <2>1. items \in SUBSET ItemSet /\ IsFiniteSet(items) /\ \A x, y \in items : x.id = y.id => x = y
      BY <1>1, Known0, FirstClosure, ItemsAreItems
    <2>2. Replace(items)
      BY <1>2 DEF showFolder
    <2> HIDE DEF items
    <2> QED
      BY <1>1, <2>1, <2>2, ReplaceKeeps
  <1>3. CASE Replace({})
    BY <1>1, <1>3, NoItems, ReplaceKeeps
  <1>4. CASE Stay
    BY <1>1, <1>4, StayKeeps
  <1>5. CASE Replace(Unified(ui[1].msgs))
    <2> DEFINE items == Unified(ui[1].msgs)
    <2>1. items \in SUBSET ItemSet /\ IsFiniteSet(items) /\ \A x, y \in items : x.id = y.id => x = y
      BY <1>1, FirstClosure, UnifiedAreItems
    <2>2. Replace(items)
      BY <1>5
    <2> HIDE DEF items
    <2> QED
      BY <1>1, <2>1, <2>2, ReplaceKeeps
  <1> QED
    BY <1>2, <1>3, <1>4, <1>5 DEF showFailed, showUnified, showLoading

(***************************************************************************)
(* New mail is merged into the list.                                       *)
(***************************************************************************)
AtMostOne(items) == items = {} \/ \E x \in ItemSet : items = {x}

LEMMA OneItem ==
  ASSUME NEW acct \in Accounts \cup {None}, NEW folder \in Folders, NEW m \in Messages
  PROVE  AtMostOne(Items(acct, folder, {m}))
  <1> DEFINE x == [acct |-> acct, folder |-> folder, uid |-> m.uid, id |-> m]
  <1>1. CASE acct = None
    BY <1>1 DEF Items, AtMostOne
  <1>2. CASE acct # None
    <2>1. Items(acct, folder, {m}) = {x}
      BY <1>2 DEF Items
    <2>2. x \in ItemSet
      BY <1>2, MessagesAssumption DEF ItemSet
    <2> HIDE DEF x
    <2> QED
      BY <2>1, <2>2 DEF AtMostOne
  <1> QED
    BY <1>1, <1>2

LEMMA OneUnified == ASSUME NEW m \in Messages PROVE AtMostOne(Unified({m}))
  <1>1. /\ m.uid \in Nat /\ m.acct \in Accounts /\ m.folder \in Folders
    BY MessagesAssumption DEF Folders
  <1>2. Unified({m}) = {Item(m.acct, m.folder, m)}
    <2>1. Unified({m}) = {Item(k.acct, k.folder, k) : k \in {m}}
      BY UnifiedAreItems
    <2> QED
      BY <2>1
  <1>3. Item(m.acct, m.folder, m) \in ItemSet
    BY <1>1 DEF Item, ItemSet
  <1> QED
    BY <1>2, <1>3 DEF AtMostOne

LEMMA ShownOK == ASSUME ListOK PROVE Shown \in Seq(ItemSet) /\ Len(Shown) = list.n /\ DOMAIN Shown = 1..list.n
                                     /\ \A k \in 1..list.n : Shown[k] = list.arr[k]
  BY DEF ListOK, Shown

LEMMA MergedOK ==
  ASSUME NEW s \in Seq(ItemSet), NEW items, AtMostOne(items)
  PROVE  LET m == mergeIntoUnifiedInbox(s, SetToSeq(items))
         IN  /\ m \in Seq(ItemSet) /\ Len(m) \in {Len(s), Len(s) + 1}
             /\ \A k \in DOMAIN m : m[k] \in items \/ \E j \in DOMAIN s : m[k] = s[j]
             /\ Distinct(s) => Distinct(m)
  <1>1. CASE items = {}
    <2>1. mergeIntoUnifiedInbox(s, SetToSeq(items)) = s
      BY <1>1, SeqOfNone, FoldNone DEF mergeIntoUnifiedInbox
    <2> QED
      BY <2>1
  <1>2. ASSUME NEW x \in ItemSet, items = {x} PROVE
         LET m == mergeIntoUnifiedInbox(s, SetToSeq(items))
         IN  /\ m \in Seq(ItemSet) /\ Len(m) \in {Len(s), Len(s) + 1}
             /\ \A k \in DOMAIN m : m[k] \in items \/ \E j \in DOMAIN s : m[k] = s[j]
             /\ Distinct(s) => Distinct(m)
    <2> DEFINE m == mergeIntoUnifiedInbox(s, <<x>>)
    <2>1. /\ m \in Seq(ItemSet) /\ Len(m) \in {Len(s), Len(s) + 1}
          /\ \A k \in DOMAIN m : m[k] = x \/ \E j \in DOMAIN s : m[k] = s[j]
          /\ Distinct(s) => Distinct(m)
      BY MergeOne
    <2>2. SetToSeq(items) = <<x>>
      BY <1>2, SeqOfOne
    <2> HIDE DEF m
    <2>3. mergeIntoUnifiedInbox(s, SetToSeq(items)) = m
      BY <2>2 DEF m
    <2> QED
      BY <1>2, <2>1, <2>3
  <1> QED
    BY <1>1, <1>2 DEF AtMostOne

LEMMA MergeKeeps ==
  ASSUME Inv, NEW STATE items, AtMostOne(items), merge(items), ui # <<>>,
         UNCHANGED <<view, newest, fetching, suppress, server>>
  PROVE  Inv'
  <1> DEFINE N == Len(list.arr)
             merged == mergeIntoUnifiedInbox(Shown, SetToSeq(items))
             n == Len(merged)
             tail == SubSeq(list.arr, n + 1, N)
             inOrder == Sorted(merged, newest)
  <1>1. /\ ListOK /\ N \in Nat /\ list.arr \in Seq(ItemSet) /\ newest \in BOOLEAN
        /\ tasks \in Seq(Tasks(N)) /\ dialog \in Seq(Questions(N)) /\ Len(dialog) <= 1
    BY Known0 DEF ListOK, ViewOK
  <1>2. merged \in Seq(ItemSet)
    BY <1>1, ShownOK, MergedOK
  <1>3. rest \in Seq(Closures(N))
    BY FirstClosure
  <1>4. \/ /\ list' = [list EXCEPT !.arr = inOrder \o tail, !.n = n, !.sorted = n]
           /\ UNCHANGED <<tasks, dialog>> /\ ui' = rest
        \/ /\ list' = [list EXCEPT !.arr = inOrder, !.n = n, !.sorted = n]
           /\ LeaveArray(rest)
    BY DEF merge
  <1>5. clearMessageSelection
    BY DEF merge
  <1>6. n \in Nat /\ inOrder \in Seq(ItemSet) /\ Len(inOrder) = n
    <2> HIDE DEF merged
    <2> QED
      BY <1>1, <1>2, SortedIsList
  <1>7. tail \in Seq(ItemSet) /\ Len(tail) = IF n <= N THEN N - n ELSE 0
    <2> HIDE DEF n
    <2> QED
      BY <1>1, <1>6, TailOf
  <1> HIDE DEF merged, n, tail, inOrder
  <1>13. \/ /\ list' = [arr |-> inOrder \o tail, n |-> n, sorted |-> n, resorted |-> list.resorted]
            /\ list'.arr = inOrder \o tail /\ UNCHANGED <<tasks, dialog>> /\ ui' = rest
         \/ /\ list' = [arr |-> inOrder, n |-> n, sorted |-> n, resorted |-> list.resorted]
            /\ LeaveArray(rest)
    <2> DEFINE grown == inOrder \o tail
    <2> HIDE DEF grown, N
    <2>1. CASE /\ list' = [list EXCEPT !.arr = grown, !.n = n, !.sorted = n]
               /\ UNCHANGED <<tasks, dialog>> /\ ui' = rest
      <3>1. list' = [arr |-> grown, n |-> n, sorted |-> n, resorted |-> list.resorted] /\ list'.arr = grown
        BY <1>1, <2>1, ListWith
      <3> QED
        BY <2>1, <3>1 DEF grown
    <2>2. CASE /\ list' = [list EXCEPT !.arr = inOrder, !.n = n, !.sorted = n] /\ LeaveArray(rest)
      <3>1. list' = [arr |-> inOrder, n |-> n, sorted |-> n, resorted |-> list.resorted]
        BY <1>1, <2>2, ListWith
      <3> QED
        BY <2>2, <3>1
    <2> QED
      BY <1>4, <2>1, <2>2 DEF grown
  <1> HIDE DEF N
  <1>8. inOrder \o tail \in Seq(ItemSet) /\ Len(inOrder \o tail) >= N /\ Len(inOrder \o tail) >= n
        /\ Len(inOrder \o tail) \in Nat
    BY <1>1, <1>6, <1>7
  <1>9. ListOK' /\ Len(list'.arr) \in Nat
    <2>1. ASSUME NEW arr \in Seq(ItemSet), n <= Len(arr), Len(arr) \in Nat,
                 list' = [arr |-> arr, n |-> n, sorted |-> n, resorted |-> list.resorted]
          PROVE  ListOK' /\ Len(list'.arr) \in Nat
      <3>1. /\ list'.arr = arr /\ list'.n = n /\ list'.sorted = n
            /\ list' \in [arr : Seq(ItemSet), n : Nat, sorted : Nat, resorted : BOOLEAN]
        BY <1>1, <1>6, <2>1 DEF ListOK
      <3> QED
        BY <1>6, <2>1, <3>1 DEF ListOK
    <2> DEFINE grown == inOrder \o tail
    <2>2. CASE list' = [arr |-> grown, n |-> n, sorted |-> n, resorted |-> list.resorted]
      <3>1. grown \in Seq(ItemSet) /\ n <= Len(grown) /\ Len(grown) \in Nat
        BY <1>6, <1>8
      <3> HIDE DEF grown
      <3> QED
        BY <2>1, <2>2, <3>1
    <2>3. CASE list' = [arr |-> inOrder, n |-> n, sorted |-> n, resorted |-> list.resorted]
      <3>1. n <= Len(inOrder) /\ Len(inOrder) \in Nat
        BY <1>6
      <3> QED
        BY <1>6, <2>1, <2>3, <3>1
    <2> QED
      BY <1>13, <2>2, <2>3
  <1>10. HoldersOK(Len(list.arr))'
    <2>1. CASE LeaveArray(rest)
      <3>1. \A M \in Nat : HoldersOK(M)'
        BY <1>3, <2>1, HoldersLeave DEF Inv, TypeInv, N
      <3> QED
        BY <1>9, <3>1
    <2>2. CASE list'.arr = inOrder \o tail /\ UNCHANGED <<tasks, dialog>> /\ ui' = rest
      <3> DEFINE M == Len(list'.arr)
      <3>1. N <= M /\ M \in Nat
        BY <1>8, <2>2
      <3> HIDE DEF M
      <3>2. /\ Seq(Tasks(N)) \subseteq Seq(Tasks(M))
            /\ Seq(Closures(N)) \subseteq Seq(Closures(M)) /\ Seq(Questions(N)) \subseteq Seq(Questions(M))
        BY <1>1, <3>1, HoldersOfMore
      <3>3. tasks' \in Seq(Tasks(M)) /\ ui' \in Seq(Closures(M)) /\ dialog' \in Seq(Questions(M))
        BY <1>1, <1>3, <2>2, <3>2
      <3> QED
        BY <1>1, <2>2, <3>3 DEF HoldersOK, M
    <2> QED
      BY <1>13, <2>1, <2>2
  <1>11. SelectionOK(Len(list.arr))' /\ SelectionIn(list.n)'
    BY <1>5, <1>9, Forgotten DEF clearMessageSelection
  <1>12. ViewOK' /\ ServerOK'
    BY Known0 DEF ViewOK, ServerOK, server
  <1> QED
    BY <1>9, <1>10, <1>11, <1>12 DEF Inv, TypeInv

LEMMA ArrivalKeeps ==
  ASSUME Inv, inject \/ arrived
  PROVE  Inv'
  <1>1. ui # <<>> /\ UNCHANGED <<view, newest, fetching, suppress, server>>
        /\ ui[1].kind \in {"inject", "arrived"}
    BY DEF inject, arrived, Next1
  <1>2. PICK m \in Messages : ui[1].msgs = {m}
    BY <1>1, FirstClosure
  <1>3. CASE arrived
    <2>2. ui[1].folder \in Folders /\ view.acct \in Accounts \cup {None}
      BY <1>1, FirstClosure, Known0
    <2>4. AtMostOne(Items(view.acct, ui[1].folder, ui[1].msgs))
      BY <1>2, <2>2, OneItem
    <2>5. merge(Items(view.acct, ui[1].folder, ui[1].msgs))
      BY <1>3 DEF arrived
    <2> QED
      BY <1>1, <2>4, <2>5, MergeKeeps
  <1>4. CASE inject
    <2>1. AtMostOne(Unified(ui[1].msgs))
      BY <1>2, OneUnified
    <2>2. merge(Unified(ui[1].msgs)) \/ Stay
      BY <1>4 DEF inject
    <2> QED
      BY <1>1, <2>1, <2>2, MergeKeeps, StayKeeps
  <1> QED
    BY <1>3, <1>4

(***************************************************************************)
(* A message is taken out of the list, and the next one is selected.       *)
(***************************************************************************)
LEMMA WithoutOK ==
  ASSUME ListOK, NEW j \in 1..list.n
  PROVE  /\ without(j) \in [arr : Seq(ItemSet), n : Nat, sorted : Nat, resorted : BOOLEAN]
         /\ without(j).n = list.n - 1 /\ without(j).sorted = list.sorted /\ without(j).resorted = list.resorted
         /\ Len(without(j).arr) = Len(list.arr)
         /\ \A k \in 1..Len(list.arr) : without(j).arr[k] =
              IF k \in j..(list.n - 1) THEN list.arr[k + 1] ELSE list.arr[k]
  <1> DEFINE N == Len(list.arr)
             arr == [k \in DOMAIN list.arr |-> IF k \in j..(list.n - 1) THEN list.arr[k + 1] ELSE list.arr[k]]
             shorter == [list EXCEPT !.n = @ - 1]
  <1>1. /\ N \in Nat /\ DOMAIN list.arr = 1..N /\ list.n \in 1..N /\ list.sorted \in Nat
        /\ \A k \in 1..N : list.arr[k] \in ItemSet
    BY DEF ListOK
  <1>2. shorter = [arr |-> list.arr, n |-> list.n - 1, sorted |-> list.sorted, resorted |-> list.resorted]
    BY DEF ListOK
  <1>3. without(j) = [shorter EXCEPT !.arr = arr]
    BY <1>2, Zenon DEF without
  <1>4. without(j) = [arr |-> arr, n |-> list.n - 1, sorted |-> list.sorted, resorted |-> list.resorted]
    <2> HIDE DEF arr, shorter
    <2> QED
      BY <1>2, <1>3
  <1>5. arr \in [1..N -> ItemSet]
    BY <1>1
  <1>6. \A k \in 1..N : arr[k] = IF k \in j..(list.n - 1) THEN list.arr[k + 1] ELSE list.arr[k]
    BY <1>1
  <1> HIDE DEF arr, N
  <1>7. arr \in Seq(ItemSet) /\ Len(arr) = N
    BY <1>1, <1>5, SeqOfFunction
  <1>8. list.resorted \in BOOLEAN
    BY DEF ListOK
  <1> QED
    BY <1>1, <1>4, <1>6, <1>7, <1>8 DEF N

LEMMA RemovedKeeps ==
  ASSUME Inv, removed
  PROVE  Inv'
  <1> DEFINE N == Len(list.arr)
             x == Deref(ui[1].ptrs[1])
             at == {j \in 1..list.n : list.arr[j].acct = x.acct /\ list.arr[j].uid = x.uid}
             j == Min(at)
             next == IF ui[1].index = 1 /\ list.n > 1
                     THEN <<Task("next", [index |-> Min({j, list.n - 1})])>> ELSE <<>>
  <1>1. ui # <<>> /\ UNCHANGED <<view, newest, fetching, suppress, server>>
    BY DEF removed, Next1
  <1>2. \/ Stay
        \/ /\ at # {} /\ list' = without(j) /\ clearMessageSelection
           /\ tasks' = tasks \o next /\ ui' = rest /\ UNCHANGED dialog
    BY DEF removed
  <1>3. ASSUME at # {}, list' = without(j), clearMessageSelection,
               tasks' = tasks \o next, ui' = rest, UNCHANGED dialog
        PROVE  Inv'
    <2>1. /\ ListOK /\ N \in Nat /\ list.n \in 0..N /\ tasks \in Seq(Tasks(N))
          /\ dialog \in Seq(Questions(N)) /\ Len(dialog) <= 1 /\ rest \in Seq(Closures(N))
      BY <1>1, Known0, FirstClosure DEF ListOK
    <2>2. at \in SUBSET Int /\ IsFiniteSet(at)
      BY <2>1, Interval, FS_Subset
    <2>3. j \in at
      <3> HIDE DEF at
      <3> QED
        BY <1>3, <2>2, MinOf
    <2>4. j \in 1..list.n
      BY <2>3
    <2> HIDE DEF at, j, N
    <2>5. ListOK' /\ Len(list'.arr) = N
      BY <1>3, <2>1, <2>4, WithoutOK DEF ListOK, N
    <2>6. next \in Seq(Tasks(N))
      <3>1. CASE list.n > 1
        <4>1. Min({j, list.n - 1}) \in Nat /\ Min({j, list.n - 1}) > 0
          <5>1. j \in Nat /\ j > 0 /\ list.n - 1 \in Nat /\ list.n - 1 > 0
            BY <2>1, <2>4, <3>1
          <5> QED
            BY <5>1, Pair
        <4>2. Task("next", [index |-> Min({j, list.n - 1})]) \in Tasks(N)
          BY <2>1, <4>1, NextTask
        <4> QED
          BY <4>2
      <3>2. CASE ~(list.n > 1)
        BY <3>2
      <3> QED
        BY <3>1, <3>2
    <2> HIDE DEF next
    <2>7. tasks' \in Seq(Tasks(N))
      BY <1>3, <2>1, <2>6
    <2>8. HoldersOK(Len(list.arr))'
      BY <1>3, <2>1, <2>5, <2>7 DEF HoldersOK
    <2>9. SelectionOK(Len(list.arr))' /\ SelectionIn(list.n)'
      BY <1>3, <2>5, Forgotten DEF clearMessageSelection
    <2>10. ViewOK' /\ ServerOK'
      BY <1>1, Known0 DEF ViewOK, ServerOK, server
    <2> QED
      BY <2>5, <2>8, <2>9, <2>10 DEF Inv, TypeInv
  <1>4. CASE Stay
    BY <1>1, <1>4, StayKeeps
  <1> QED
    BY <1>2, <1>3, <1>4

LEMMA NextKeeps ==
  ASSUME Inv, selectNext \/ deselect \/ reselect
  PROVE  Inv'
  <1> DEFINE N == Len(list.arr)
  <1>1. /\ ui # <<>> /\ UNCHANGED <<list, newest, fetching, suppress, dialog, server>>
        /\ ui' = rest
    BY DEF selectNext, deselect, reselect, Next1
  <1>2. ui' \in Seq(Closures(N)) /\ ServerOK'
    BY <1>1, FirstClosure, Known0 DEF ServerOK, server
  <1>3. CASE selectNext
    <2>1. UNCHANGED <<view, tasks>> /\ ui[1].kind = "next"
      BY <1>3 DEF selectNext, Next1
    <2>2. ViewOK' /\ HoldersOK(Len(list.arr))'
      BY <1>1, <1>2, <2>1, Known0 DEF ViewOK, HoldersOK
    <2>3. CASE UNCHANGED selection
      BY <1>1, <1>2, <2>2, <2>3, SameList, Known0 DEF selection
    <2>4. CASE /\ ui[1].index <= list.n
               /\ picked' = Slot(ui[1].index) /\ row' = ui[1].index /\ sm' \in {sm, NoSelection}
      <3> DEFINE i == ui[1].index
      <3>1. i \in 1..list.n
        BY <1>1, <2>1, <2>4, FirstClosure, Known0 DEF ListOK
      <3> HIDE DEF i
      <3>2. /\ Slot(i) \in Held(N) /\ Of(Slot(i), list.n) /\ N \in Nat /\ list.n \in 1..N
            /\ sm \in Managers(N) /\ ManagerIn(sm, list.n)
        BY <3>1, Known0, SlotHeld, ManagerOK
      <3>3. NoSelection \in Managers(N) /\ ManagerIn(NoSelection, list.n)
        BY <3>2 DEF Managers, NoSelection, ManagerIn, Of, Nil
      <3>4. /\ sm' \in Managers(N) /\ ManagerIn(sm', list.n)
            /\ picked' = Slot(i) /\ row' \in Nat /\ list' = list
        BY <1>1, <2>4, <3>1, <3>2, <3>3 DEF i
      <3>5. SelectionOK(Len(list.arr))' /\ SelectionIn(list.n)'
        BY <3>2, <3>4 DEF SelectionOK, SelectionIn
      <3> QED
        BY <1>2, <2>2, <3>4, <3>5, Known0 DEF Inv, TypeInv, ListOK
    <2> QED
      BY <1>3, <2>3, <2>4 DEF selectNext
  <1>4. CASE deselect
    <2>1. UNCHANGED <<view, row, tasks>> /\ picked' = NoPtr /\ sm' \in {sm, NoSelection}
      BY <1>4 DEF deselect
    <2>2. ViewOK' /\ HoldersOK(Len(list.arr))' /\ row' \in Nat
      BY <1>1, <1>2, <2>1, Known0 DEF ViewOK, HoldersOK
    <2> QED
      BY <1>1, <1>2, <2>1, <2>2, SameList
  <1>5. CASE reselect
    <2>1. UNCHANGED selection
      BY <1>5 DEF reselect
    <2>2. \/ selectFolder(ui[1].folder, TRUE)
          \/ selectFolder(Inbox, FALSE)
          \/ UNCHANGED <<view, tasks>>
      BY <1>5 DEF reselect, Next1
    <2>3. ui[1].folder \in Folders /\ Inbox \in Folders
      BY <1>1, FirstClosure DEF Folders
    <2>4. ViewOK' /\ tasks' \in Seq(Tasks(N))
      <3>1. CASE selectFolder(ui[1].folder, TRUE)
        BY <1>1, <2>3, <3>1, FolderSelected
      <3>2. CASE selectFolder(Inbox, FALSE)
        BY <1>1, <2>3, <3>2, FolderSelected
      <3>3. CASE UNCHANGED <<view, tasks>>
        BY <1>1, <3>3, Known0 DEF ViewOK
      <3> QED
        BY <2>2, <3>1, <3>2, <3>3
    <2> QED
      BY <1>1, <1>2, <2>1, <2>4, StepKeeps
  <1> QED
    BY <1>3, <1>4, <1>5

(***************************************************************************)
(* No message is listed twice.                                             *)
(***************************************************************************)
Apart(arr, n) == \A i, j \in 1..n : SameSlot(arr[i], arr[j]) => i = j
ListedOnce == list.resorted \/ Apart(list.arr, list.n)

LEMMA ListedApart ==
  ASSUME NEW items \in SUBSET ItemSet, IsFiniteSet(items),
         \A x, y \in items : x.id = y.id => x = y,
         \A x, y \in items : SameSlot(x, y) => x = y
  PROVE  Apart(Listed(items).arr, Listed(items).n)
  <1> DEFINE arr == Listed(items).arr
             n == Cardinality(items)
  <1>2. arr \in Seq(items) /\ Len(arr) = n /\ n \in Nat /\ \A j, k \in 1..n : arr[j] = arr[k] => j = k
    BY ListedIsList
  <1>3. Listed(items).n = n
    BY DEF Listed
  <1> HIDE DEF arr, n
  <1>4. \A k \in 1..n : arr[k] \in items
    BY <1>2
  <1>5. Apart(arr, n)
    BY <1>2, <1>4 DEF Apart
  <1> QED
    BY <1>3, <1>5 DEF arr

LEMMA SortedApart ==
  ASSUME NEW s \in Seq(ItemSet), Distinct(s), NEW by \in BOOLEAN, NEW t \in Seq(ItemSet)
  PROVE  Apart(Sorted(s, by), Len(s)) /\ Apart(Sorted(s, by) \o t, Len(s))
  <1> DEFINE n == Len(s)
             r == Sorted(s, by)
             I == 1..n
  <1>1. r \in Seq(ItemSet) /\ Len(r) = n /\ n \in Nat /\ DOMAIN s = I
    BY SortedIsList
  <1>2. PICK g \in [I -> I] : /\ \A j, k \in I : g[j] = g[k] => j = k
                              /\ \A k \in I : r[k] = s[g[k]]
    BY SortedIsList
  <1> HIDE DEF r
  <1>3. \A k \in I : (r \o t)[k] = r[k]
    BY <1>1
  <1> HIDE DEF n
  <1>4. Apart(r, n)
    BY <1>1, <1>2 DEF Apart, Distinct
  <1>5. Apart(r \o t, n)
    BY <1>3, <1>4 DEF Apart
  <1> QED
    BY <1>4, <1>5 DEF n, r

LEMMA ItemsApart ==
  ASSUME NEW acct \in Accounts \cup {None}, NEW folder \in Folders, NEW msgs \in SUBSET Messages,
         OneBox(msgs, folder)
  PROVE  Apart(Listed(Items(acct, folder, msgs)).arr, Listed(Items(acct, folder, msgs)).n)
  <1> DEFINE items == Items(acct, folder, msgs)
  <1>1. items \in SUBSET ItemSet /\ IsFiniteSet(items) /\ \A x, y \in items : x.id = y.id => x = y
    BY ItemsAreItems
  <1>2. \A x \in items : x.id \in msgs /\ x.uid = x.id.uid
    BY DEF Items
  <1>3. \A m, k \in msgs : m.uid = k.uid => m = k
    BY MessagesAssumption DEF OneBox
  <1> HIDE DEF items
  <1>4. \A x, y \in items : SameSlot(x, y) => x = y
    BY <1>1, <1>2, <1>3 DEF SameSlot
  <1>5. Apart(Listed(items).arr, Listed(items).n)
    BY <1>1, <1>4, ListedApart
  <1> QED
    BY <1>5 DEF items

LEMMA UnifiedApart ==
  ASSUME NEW msgs \in SUBSET Messages, NEW folder, \A m \in msgs : m.folder = folder
  PROVE  Apart(Listed(Unified(msgs)).arr, Listed(Unified(msgs)).n)
  <1> DEFINE items == Unified(msgs)
  <1>1. /\ items \in SUBSET ItemSet /\ IsFiniteSet(items) /\ \A x, y \in items : x.id = y.id => x = y
        /\ items = {Item(m.acct, m.folder, m) : m \in msgs}
    BY UnifiedAreItems
  <1>2. \A x \in items : x.id \in msgs /\ x.acct = x.id.acct /\ x.uid = x.id.uid
    BY <1>1 DEF Item
  <1>3. \A m, k \in msgs : m.acct = k.acct /\ m.uid = k.uid => m = k
    BY MessagesAssumption
  <1> HIDE DEF items
  <1>4. \A x, y \in items : SameSlot(x, y) => x = y
    BY <1>1, <1>2, <1>3 DEF SameSlot
  <1>5. Apart(Listed(items).arr, Listed(items).n)
    BY <1>1, <1>4, ListedApart
  <1> QED
    BY <1>5 DEF items

LEMMA NoneApart == Apart(Listed({}).arr, Listed({}).n)
  BY NoItems DEF Apart

LEMMA OnceInitially == Init => ListedOnce
  <1> SUFFICES ASSUME Init PROVE Apart(list.arr, list.n)
    BY DEF ListedOnce
  <1> DEFINE msgs == IF view.unified THEN {m \in Old : m.folder = Inbox}
                     ELSE {m \in Old : m.acct = view.acct /\ m.folder = view.folder}
             folder == IF view.unified THEN Inbox ELSE view.folder
  <1>1. msgs \in SUBSET Messages /\ \A m \in msgs : m.folder = folder
    BY MessagesAssumption
  <1>2. list = Listed(Unified(msgs))
    BY DEF Init
  <1> HIDE DEF msgs, folder
  <1> QED
    BY <1>1, <1>2, UnifiedApart

\* A list of which one message is taken out.
LEMMA WithoutApart ==
  ASSUME ListOK, Apart(list.arr, list.n), NEW j \in 1..list.n
  PROVE  Apart(without(j).arr, without(j).n)
  <1>1. /\ without(j).n = list.n - 1 /\ list.n \in Nat /\ j \in Nat /\ list.n <= Len(list.arr) /\ Len(list.arr) \in Nat
        /\ \A k \in 1..Len(list.arr) : without(j).arr[k] =
             IF k \in j..(list.n - 1) THEN list.arr[k + 1] ELSE list.arr[k]
    BY WithoutOK DEF ListOK
  <1> DEFINE from(k) == IF k \in j..(list.n - 1) THEN k + 1 ELSE k
             arr == without(j).arr
             n == list.n
  <1>2. \A k \in 1..(n - 1) : from(k) \in 1..n /\ arr[k] = list.arr[from(k)]
    BY <1>1
  <1>3. \A k, l \in 1..(n - 1) : from(k) = from(l) => k = l
    BY <1>1
  <1> HIDE DEF from, arr
  <1>4. Apart(arr, n - 1)
    BY <1>2, <1>3 DEF Apart
  <1> QED
    BY <1>1, <1>4 DEF arr

LEMMA MergedApart ==
  ASSUME Inv, ListedOnce, NEW STATE items, AtMostOne(items), merge(items)
  PROVE  ListedOnce'
  <1> DEFINE merged == mergeIntoUnifiedInbox(Shown, SetToSeq(items))
             n == Len(merged)
             tail == SubSeq(list.arr, n + 1, Len(list.arr))
  <1>1. /\ ListOK /\ list.arr \in Seq(ItemSet) /\ newest \in BOOLEAN
        /\ Shown \in Seq(ItemSet) /\ DOMAIN Shown = 1..list.n /\ \A k \in 1..list.n : Shown[k] = list.arr[k]
    BY Known0, ShownOK DEF ListOK, ViewOK
  <1>2. ~list.resorted => Distinct(Shown)
    BY <1>1 DEF Distinct, Apart, ListedOnce
  <1>3. merged \in Seq(ItemSet) /\ (~list.resorted => Distinct(merged))
    BY <1>1, <1>2, MergedOK
  <1>4. \/ list' = [list EXCEPT !.arr = Sorted(merged, newest) \o tail, !.n = n, !.sorted = n]
        \/ list' = [list EXCEPT !.arr = Sorted(merged, newest), !.n = n, !.sorted = n]
    BY DEF merge
  <1> HIDE DEF merged
  <1>5. n \in Nat /\ tail \in Seq(ItemSet)
    <2>1. n \in Nat
      BY <1>3
    <2> HIDE DEF n
    <2> QED
      BY <1>1, <2>1
  <1> HIDE DEF tail
  <1>6. ~list.resorted => Apart(Sorted(merged, newest), n) /\ Apart(Sorted(merged, newest) \o tail, n)
    BY <1>1, <1>3, <1>5, SortedApart
  <1> DEFINE a1 == Sorted(merged, newest)
             a2 == Sorted(merged, newest) \o tail
  <1> HIDE DEF a1, a2, n
  <1>7. \E a \in {a1, a2} : list' = [list EXCEPT !.arr = a, !.n = n, !.sorted = n]
    BY <1>4 DEF a1, a2, n
  <1>8. ~list.resorted => Apart(a1, n) /\ Apart(a2, n)
    BY <1>6 DEF a1, a2, n
  <1>9. list'.arr \in {a1, a2} /\ list'.n = n /\ list'.resorted = list.resorted
    BY <1>1, <1>7 DEF ListOK
  <1> QED
    BY <1>8, <1>9 DEF ListedOnce

\* The list that a closure shows.
LEMMA ShowOnce ==
  ASSUME Inv, ListedOnce,
         showFolder \/ showFailed \/ showUnified \/ showLoading \/ inject \/ arrived \/ removed
  PROVE  ListedOnce'
  <1>1. ui # <<>>
    BY DEF showFolder, showFailed, showUnified, showLoading, inject, arrived, removed, Next1
  <1>2. CASE Stay
    BY <1>2 DEF Stay, ListedOnce
  <1>3. CASE Replace({})
    BY <1>3, NoneApart DEF Replace, ListedOnce
  <1>4. CASE showFolder
    <2>1. ui[1].kind \in OfFolder
      BY <1>4 DEF showFolder, Next1, OfFolder
    <2>2. OneBox(ui[1].msgs, ui[1].folder)
      BY <1>1, <2>1, FirstClosure
    <2> DEFINE items == Items(view.acct, ui[1].folder, ui[1].msgs)
    <2>3. Apart(Listed(items).arr, Listed(items).n)
      BY <1>1, <2>2, Known0, FirstClosure, ItemsApart
    <2>4. list' = Listed(items)
      BY <1>4 DEF showFolder, Replace
    <2> HIDE DEF items
    <2> QED
      BY <2>3, <2>4 DEF ListedOnce
  <1>5. CASE (Next1("ucached") \/ Next1("uall")) /\ Replace(Unified(ui[1].msgs))
    <2>1. ui[1] \in Closures(Len(list.arr)) /\ ui[1].msgs \in SUBSET Messages
      BY <1>1, FirstClosure
    <2>2. ui[1].kind \in {"ucached", "uall"}
      BY <1>5 DEF Next1
    <2>3. AllInbox(ui[1].msgs)
      BY <2>1, <2>2 DEF Closures
    <2> DEFINE items == Unified(ui[1].msgs)
    <2>4. Apart(Listed(items).arr, Listed(items).n)
      BY <2>1, <2>3, UnifiedApart DEF AllInbox
    <2>5. list' = Listed(items)
      BY <1>5 DEF Replace
    <2> HIDE DEF items
    <2> QED
      BY <2>4, <2>5 DEF ListedOnce
  <1>6. CASE inject /\ merge(Unified(ui[1].msgs))
    <2>1. PICK m \in Messages : ui[1].msgs = {m}
      BY <1>1, <1>6, FirstClosure DEF inject, Next1
    <2>2. AtMostOne(Unified(ui[1].msgs))
      BY <2>1, OneUnified
    <2> QED
      BY <1>6, <2>2, MergedApart
  <1>7. CASE arrived
    <2>1. ui[1].kind \in {"inject", "arrived"}
      BY <1>7 DEF arrived, Next1
    <2>2. PICK m \in Messages : ui[1].msgs = {m}
      BY <1>1, <2>1, FirstClosure
    <2>4. AtMostOne(Items(view.acct, ui[1].folder, ui[1].msgs))
      BY <1>1, <2>2, OneItem, FirstClosure, Known0
    <2> QED
      BY <1>7, <2>4, MergedApart DEF arrived
  <1>8. CASE removed
    <2> DEFINE x == Deref(ui[1].ptrs[1])
               at == {j \in 1..list.n : list.arr[j].acct = x.acct /\ list.arr[j].uid = x.uid}
    <2>1. Stay \/ (at # {} /\ list' = without(Min(at)))
      BY <1>8 DEF removed
    <2>2. ListOK /\ list.n \in Nat
      BY Known0 DEF ListOK
    <2>3. at \in SUBSET Int /\ IsFiniteSet(at) /\ at \subseteq 1..list.n
      BY <2>2, Interval, FS_Subset
    <2> HIDE DEF at
    <2>4. at # {} => Min(at) \in 1..list.n
      BY <2>3, MinOf
    <2> QED
      <3>1. CASE at # {} /\ list' = without(Min(at))
        <4>1. list'.resorted = list.resorted
          BY <2>2, <2>4, <3>1, WithoutOK
        <4> QED
          BY <2>2, <2>4, <3>1, <4>1, WithoutApart DEF ListedOnce
      <3> QED
        BY <1>2, <2>1, <3>1
  <1> QED
    BY <1>2, <1>3, <1>4, <1>5, <1>6, <1>7, <1>8 DEF showFailed, showUnified, showLoading, inject

LEMMA OnceKept ==
  ASSUME Inv, ListedOnce, [Next]_vars
  PROVE  ListedOnce'
  <1>2. CASE UNCHANGED list
    BY <1>2 DEF ListedOnce
  <1>3. CASE list' = Listed({})
    BY <1>3, NoneApart DEF ListedOnce
  <1>4. CASE ToggleSortOrder
    <2> DEFINE s == SubSeq(list.arr, 1, list.n)
               t == SubSeq(list.arr, list.n + 1, Len(list.arr))
               arr == Sorted(s, ~newest) \o t
    <2>1. list' = [list EXCEPT !.arr = Sorted(SubSeq(list.arr, 1, list.sorted), ~newest)
                                         \o SubSeq(list.arr, list.sorted + 1, Len(list.arr)),
                               !.resorted = @ \/ list.sorted # list.n]
      BY <1>4 DEF ToggleSortOrder
    <2>2. ASSUME list.sorted = list.n PROVE list' = [list EXCEPT !.arr = arr, !.resorted = @ \/ FALSE]
      BY <2>1, <2>2
    <2>3. /\ ListOK /\ list.arr \in Seq(ItemSet) /\ list.n \in 0..Len(list.arr) /\ newest \in BOOLEAN
      BY Known0 DEF ListOK, ViewOK
    <2>4. /\ s \in Seq(ItemSet) /\ Len(s) = list.n /\ t \in Seq(ItemSet) /\ DOMAIN s = 1..list.n
          /\ \A k \in 1..list.n : s[k] = list.arr[k]
      BY <2>3
    <2> HIDE DEF s, t
    <2>5. ASSUME ~list.resorted PROVE Distinct(s)
      BY <2>4, <2>5 DEF Apart, Distinct, ListedOnce
    <2>6. ASSUME ~list.resorted PROVE Apart(arr, list.n)
      BY <2>3, <2>4, <2>5, <2>6, SortedApart
    <2> HIDE DEF arr
    <2>7. ASSUME ~list'.resorted PROVE ~list.resorted /\ list.sorted = list.n
      BY <2>1, <2>3, <2>7 DEF ListOK
    <2>8. ASSUME list.sorted = list.n PROVE list'.arr = arr /\ list'.n = list.n
      BY <2>2, <2>3, <2>8 DEF ListOK
    <2> QED
      BY <2>6, <2>7, <2>8 DEF ListedOnce
  <1>5. CASE User
    BY <1>2, <1>3, <1>4, <1>5
       DEF User, selectUnifiedInbox, selectAccount, SelectFolder, handleDeletedFolder, Tapped, TappedSecondary,
           selectAllMessages, clearSelection, moveToTrash, deleteMessage, moveToFolder, Confirm, Cancel
  <1>6. CASE Goroutine
    BY <1>2, <1>6
       DEF Goroutine, LoadStart, LoadCrash, LoadFetch, LoadEnd, UnifiedStart, UnifiedFetch, UnifiedEnd, OpStart, OpCall,
           BatchCall, Lift, SelectNext, Refresh, Announce
  <1>7. CASE Thread
    BY <1>2, <1>7, ShowOnce DEF Thread, selectNext, deselect, reselect
  <1>8. CASE UNCHANGED vars
    BY <1>2, <1>8 DEF vars
  <1> QED
    BY <1>2, <1>5, <1>6, <1>7, <1>8 DEF Next, NewMail

(***************************************************************************)
(* What is being removed.  As long as nothing is moved about in the array,  *)
(* the pointers that a removal holds, and the message selected while the    *)
(* user is asked, name nothing but what was picked.                         *)
(***************************************************************************)
At(arr, p) == IF p.slot > 0 THEN arr[p.slot] ELSE p.item
Removes(t) == t.kind \in {"op", "batch"}
Idle(ts) == \A i \in DOMAIN ts : ~Removes(ts[i])
Names(arr, ptrs, want) == \A k \in DOMAIN ptrs : Named(At(arr, ptrs[k])) \subseteq want

TasksPicked(arr, ts) == \A i \in DOMAIN ts : Removes(ts[i]) => Names(arr, ts[i].ptrs, ts[i].want)
QuestionsPicked(arr, ds, pk) ==
  \A d \in DOMAIN ds : /\ Names(arr, ds[d].ptrs, ds[d].want)
                       /\ ds[d].how = "batch" \/ Nil(pk) \/ Named(At(arr, pk)) \subseteq ds[d].want
PickedOK == shaken \/ (TasksPicked(list.arr, tasks) /\ QuestionsPicked(list.arr, dialog, picked))

\* The removals that there are come from those that there were.
Follow(ts1, ts) ==
  \A k \in DOMAIN ts1 :
    Removes(ts1[k]) => \E i \in DOMAIN ts : /\ Removes(ts[i]) /\ ts1[k].want = ts[i].want
                                            /\ \A p \in DOMAIN ts1[k].ptrs : \E q \in DOMAIN ts[i].ptrs :
                                                 ts1[k].ptrs[p] = ts[i].ptrs[q]

LEMMA TaskKind ==
  ASSUME NEW kind, NEW fields, "kind" \notin DOMAIN fields
  PROVE  Task(kind, fields).kind = kind
  BY ANewTask DEF TaskHas

LEMMA ClosureKind ==
  ASSUME NEW kind, NEW fields, "kind" \notin DOMAIN fields
  PROVE  Closure(kind, fields).kind = kind
         /\ ("msgs" \in DOMAIN fields => Closure(kind, fields).msgs = fields["msgs"])
  BY ANewClosure DEF ClosureHas

LEMMA TaskCarries ==
  ASSUME NEW kind, NEW fields, "kind" \notin DOMAIN fields, "ptrs" \in DOMAIN fields, "want" \in DOMAIN fields
  PROVE  /\ Task(kind, fields).kind = kind /\ Task(kind, fields).ptrs = fields["ptrs"]
         /\ Task(kind, fields).want = fields["want"]
  <1>1. TaskHas(Task(kind, fields), kind, fields)
    BY ANewTask
  <1> DEFINE t == Task(kind, fields)
  <1> HIDE DEF t
  <1>2. TaskHas(t, kind, fields)
    BY <1>1 DEF t
  <1>3. t.kind = kind /\ t.ptrs = fields["ptrs"] /\ t.want = fields["want"]
    BY <1>2 DEF TaskHas
  <1> QED
    BY <1>3 DEF t

\* The place in s of what is at k when the i-th is taken out.
Placed(k, i) == IF k < i THEN k ELSE k + 1

LEMMA Fewer ==
  ASSUME NEW S, NEW s \in Seq(S), NEW i \in DOMAIN s
  PROVE  /\ RemoveAt(s, i) \in Seq(S)
         /\ \A k \in DOMAIN RemoveAt(s, i) :
              Placed(k, i) \in DOMAIN s /\ RemoveAt(s, i)[k] = s[Placed(k, i)] /\ Placed(k, i) # i
         /\ \A k, l \in DOMAIN RemoveAt(s, i) : Placed(k, i) = Placed(l, i) => k = l
         /\ \A j \in DOMAIN s : j = i \/ \E k \in DOMAIN RemoveAt(s, i) : Placed(k, i) = j
  <1> DEFINE r == RemoveAt(s, i)
             n == Len(s)
             before == SubSeq(s, 1, i - 1)
             after == SubSeq(s, i + 1, n)
  <1>1. n \in Nat /\ DOMAIN s = 1..n /\ i \in 1..n /\ \A k \in 1..n : s[k] \in S
    OBVIOUS
  <1>2. /\ before \in Seq(S) /\ Len(before) = i - 1 /\ \A k \in 1..(i - 1) : before[k] = s[k]
        /\ after \in Seq(S) /\ Len(after) = n - i /\ \A k \in 1..(n - i) : after[k] = s[k + i]
    BY <1>1
  <1>3. r = before \o after
    BY DEF RemoveAt
  <1> HIDE DEF r, before, after, n
  <1>4. r \in Seq(S) /\ Len(r) = n - 1 /\ DOMAIN r = 1..(n - 1)
    <2>1. r \in Seq(S) /\ Len(r) = Len(before) + Len(after)
      BY <1>2, <1>3
    <2>2. Len(r) = n - 1
      BY <1>1, <1>2, <2>1
    <2> QED
      BY <2>1, <2>2
  <1>5. ASSUME NEW k \in 1..(n - 1)
        PROVE  Placed(k, i) \in 1..n /\ r[k] = s[Placed(k, i)] /\ Placed(k, i) # i
    <2>1. CASE k < i
      BY <1>1, <1>2, <1>3, <2>1 DEF Placed
    <2>2. CASE k >= i
      <3>1. r[k] = after[k - (i - 1)] /\ k - (i - 1) \in 1..(n - i)
        BY <1>1, <1>2, <1>3, <2>2
      <3>2. after[k - (i - 1)] = s[(k - (i - 1)) + i] /\ (k - (i - 1)) + i = k + 1
        BY <1>1, <1>2, <3>1
      <3> QED
        BY <1>1, <2>2, <3>1, <3>2 DEF Placed
    <2> QED
      BY <1>1, <2>1, <2>2
  <1>6. \A k, l \in 1..(n - 1) : Placed(k, i) = Placed(l, i) => k = l
    BY <1>1 DEF Placed
  <1>7. ASSUME NEW j \in 1..n, j # i PROVE \E k \in 1..(n - 1) : Placed(k, i) = j
    <2>1. CASE j < i
      <3>1. j \in 1..(n - 1) /\ Placed(j, i) = j
        BY <1>1, <2>1 DEF Placed
      <3> QED
        BY <3>1
    <2>2. CASE j > i
      <3>1. j - 1 \in 1..(n - 1) /\ Placed(j - 1, i) = j
        BY <1>1, <2>2 DEF Placed
      <3> QED
        BY <3>1
    <2> QED
      BY <1>1, <1>7, <2>1, <2>2
  <1> QED
    BY <1>1, <1>4, <1>5, <1>6, <1>7 DEF r

LEMMA FollowPicked ==
  ASSUME NEW arr, NEW ts, NEW ts1, TasksPicked(arr, ts), Follow(ts1, ts)
  PROVE  TasksPicked(arr, ts1)
  <1> SUFFICES ASSUME NEW k \in DOMAIN ts1, Removes(ts1[k]), NEW p \in DOMAIN ts1[k].ptrs
               PROVE  Named(At(arr, ts1[k].ptrs[p])) \subseteq ts1[k].want
    BY DEF TasksPicked, Names
  <1>1. PICK i \in DOMAIN ts : /\ Removes(ts[i]) /\ ts1[k].want = ts[i].want
                               /\ \E q \in DOMAIN ts[i].ptrs : ts1[k].ptrs[p] = ts[i].ptrs[q]
    BY DEF Follow
  <1> QED
    BY <1>1 DEF TasksPicked, Names

LEMMA FollowSame == ASSUME NEW ts PROVE Follow(ts, ts)
  BY DEF Follow

LEMMA FollowMore ==
  ASSUME NEW S, NEW ts \in Seq(S), NEW t, ~Removes(t)
  PROVE  Follow(Append(ts, t), ts)
  <1> DEFINE r == Append(ts, t)
  <1>1. \A k \in DOMAIN r : (k \in DOMAIN ts /\ r[k] = ts[k]) \/ r[k] = t
    OBVIOUS
  <1> HIDE DEF r
  <1>2. Follow(r, ts)
    BY <1>1 DEF Follow
  <1> QED
    BY <1>2 DEF r

LEMMA FollowFewer ==
  ASSUME NEW S, NEW ts \in Seq(S), NEW i \in DOMAIN ts, NEW more \in Seq(S), Idle(more)
  PROVE  Follow(RemoveAt(ts, i) \o more, ts)
  <1> DEFINE r == RemoveAt(ts, i)
             s == r \o more
  <1>1. r \in Seq(S) /\ \A k \in DOMAIN r : \E j \in DOMAIN ts : r[k] = ts[j]
    BY Fewer
  <1> HIDE DEF r
  <1>2. \A k \in DOMAIN s : (\E j \in DOMAIN r : s[k] = r[j]) \/ (\E j \in DOMAIN more : s[k] = more[j])
    BY <1>1
  <1> HIDE DEF s
  <1>3. \A k \in DOMAIN s : Removes(s[k]) => \E j \in DOMAIN ts : s[k] = ts[j]
    BY <1>1, <1>2 DEF Idle
  <1>4. Follow(s, ts)
    BY <1>3 DEF Follow
  <1> QED
    BY <1>4 DEF s, r

LEMMA FollowChanged ==
  ASSUME NEW S, NEW ts \in Seq(S), NEW i \in DOMAIN ts, NEW t,
         \/ ~Removes(t)
         \/ /\ t.kind = ts[i].kind /\ t.want = ts[i].want
            /\ \A p \in DOMAIN t.ptrs : \E q \in DOMAIN ts[i].ptrs : t.ptrs[p] = ts[i].ptrs[q]
  PROVE  Follow([ts EXCEPT ![i] = t], ts)
  <1> DEFINE r == [ts EXCEPT ![i] = t]
  <1>1. \A k \in DOMAIN r : (k = i /\ r[k] = t) \/ (k \in DOMAIN ts /\ r[k] = ts[k])
    OBVIOUS
  <1> HIDE DEF r
  <1>2. Follow(r, ts)
    BY <1>1 DEF Follow, Removes
  <1> QED
    BY <1>2 DEF r

\* The list leaves its array, and with it whatever pointed there.
LEMMA BehindSame ==
  ASSUME ListOK, NEW p \in Held(Len(list.arr))
  PROVE  \A arr : At(arr, Behind(p)) = Deref(p)
  <1>1. Behind(p) = [slot |-> 0, item |-> Deref(p)]
    BY Pointee
  <1> QED
    BY <1>1 DEF At

LEMMA DerefAt == ASSUME NEW p PROVE Deref(p) = At(list.arr, p)
  BY DEF Deref, At

(***************************************************************************)
(* The kinds of steps.  When nothing is removed there is nothing to show;   *)
(* what has been shaken stays so until then.                                *)
(***************************************************************************)
LEMMA AtRest == (dialog = <<>> /\ Idle(tasks)) <=> ~Removing
  BY DEF Removing, Idle, Removes

LEMMA SettledStep == ASSUME dialog' = <<>>, Idle(tasks') PROVE PickedOK'
  BY DEF PickedOK, TasksPicked, QuestionsPicked, Idle

LEMMA ShakenStep == ASSUME shaken, shaken' \/ ~Removing' PROVE PickedOK'
  <1>1. CASE shaken'
    BY <1>1 DEF PickedOK
  <1>2. CASE ~Removing'
    <2>1. dialog' = <<>> /\ Idle(tasks')
      BY <1>2 DEF Removing, Idle, Removes
    <2> QED
      BY <2>1, SettledStep
  <1> QED
    BY <1>1, <1>2

LEMMA ShakingStep ==
  ASSUME Shake, UNCHANGED dialog, Idle(tasks) => Idle(tasks')
  PROVE  PickedOK'
  <1>1. CASE Removing
    BY <1>1 DEF Shake, PickedOK
  <1>2. CASE ~Removing
    <2>1. dialog' = <<>> /\ Idle(tasks')
      BY <1>2, AtRest
    <2> QED
      BY <2>1, SettledStep
  <1> QED
    BY <1>1, <1>2

Firm == TasksPicked(list.arr, tasks) /\ QuestionsPicked(list.arr, dialog, picked)

LEMMA CalmStep ==
  ASSUME Firm, UNCHANGED <<list, dialog>>, picked' \in {picked, NoPtr} \/ dialog = <<>>, Follow(tasks', tasks)
  PROVE  PickedOK'
  <1>1. TasksPicked(list.arr, tasks')
    BY FollowPicked DEF Firm
  <1>2. QuestionsPicked(list.arr, dialog, picked')
    BY DEF Firm, QuestionsPicked, Nil
  <1>3. list'.arr = list.arr /\ dialog' = dialog
    OBVIOUS
  <1> QED
    BY <1>1, <1>2, <1>3 DEF PickedOK

LEMMA LeavingStep ==
  ASSUME Inv, Firm, NEW STATE r, LeaveArray(r), Nil(picked')
  PROVE  PickedOK'
  <1> DEFINE N == Len(list.arr)
             Left(x) == [j \in DOMAIN x.ptrs |-> Behind(x.ptrs[j])]
  <1>1. /\ ListOK /\ tasks \in Seq(Tasks(N)) /\ dialog \in Seq(Questions(N))
    BY Known0
  <1>2. ASSUME NEW arr, NEW ptrs \in Seq(Held(N)), NEW want, Names(list.arr, ptrs, want)
        PROVE  Names(arr, [j \in DOMAIN ptrs |-> Behind(ptrs[j])], want)
    <2> SUFFICES ASSUME NEW j \in DOMAIN ptrs PROVE Named(At(arr, Behind(ptrs[j]))) \subseteq want
      BY DEF Names
    <2>1. ptrs[j] \in Held(N)
      OBVIOUS
    <2>2. At(arr, Behind(ptrs[j])) = At(list.arr, ptrs[j])
      BY <1>1, <2>1, BehindSame, DerefAt
    <2> QED
      BY <1>2, <2>2 DEF Names
  <1>3. /\ tasks' = [i \in DOMAIN tasks |-> [tasks[i] EXCEPT !.ptrs = Left(tasks[i])]]
        /\ dialog' = [i \in DOMAIN dialog |-> [dialog[i] EXCEPT !.ptrs = Left(dialog[i])]]
    BY DEF LeaveArray
  <1>4. DOMAIN tasks' = DOMAIN tasks /\ \A i \in DOMAIN tasks :
          /\ tasks'[i].kind = tasks[i].kind /\ tasks'[i].want = tasks[i].want
          /\ tasks'[i].ptrs = Left(tasks[i]) /\ tasks[i].ptrs \in Seq(Held(N))
    <2> HIDE DEF Left
    <2>1. \A i \in DOMAIN tasks : tasks[i] \in Tasks(N)
      BY <1>1
    <2> QED
      BY <1>3, <2>1 DEF Tasks
  <1>5. DOMAIN dialog' = DOMAIN dialog /\ \A i \in DOMAIN dialog :
          /\ dialog'[i].want = dialog[i].want
          /\ dialog'[i].ptrs = Left(dialog[i]) /\ dialog[i].ptrs \in Seq(Held(N))
    <2> HIDE DEF Left
    <2>1. \A i \in DOMAIN dialog : dialog[i] \in Questions(N)
      BY <1>1
    <2> QED
      BY <1>3, <2>1 DEF Questions
  <1> HIDE DEF N
  <1>6. TasksPicked(list'.arr, tasks')
    <2> SUFFICES ASSUME NEW i \in DOMAIN tasks, Removes(tasks'[i])
                 PROVE  Names(list'.arr, tasks'[i].ptrs, tasks'[i].want)
      BY <1>4 DEF TasksPicked
    <2>1. Names(list.arr, tasks[i].ptrs, tasks[i].want)
      BY <1>4 DEF Firm, TasksPicked, Removes
    <2> QED
      BY <1>2, <1>4, <2>1
  <1>7. QuestionsPicked(list'.arr, dialog', picked')
    <2> SUFFICES ASSUME NEW d \in DOMAIN dialog PROVE Names(list'.arr, dialog'[d].ptrs, dialog'[d].want)
      BY <1>5 DEF QuestionsPicked
    <2>1. Names(list.arr, dialog[d].ptrs, dialog[d].want)
      BY DEF Firm, QuestionsPicked
    <2> QED
      BY <1>2, <1>5, <2>1
  <1> QED
    BY <1>6, <1>7 DEF PickedOK

(***************************************************************************)
(* The steps of the user, the goroutines and the thread of the user        *)
(* interface keep what a removal names.                                    *)
(***************************************************************************)
LEMMA PickedSelecting ==
  ASSUME Inv, Firm,
         \/ selectUnifiedInbox \/ \E a \in Accounts : selectAccount(a)
         \/ \E b \in Boxes : SelectFolder(b[2])
         \/ handleDeletedFolder \/ ToggleSortOrder
         \/ \E m \in Messages : NewMail(m)
  PROVE  PickedOK'
  <1>1. tasks \in Seq(Tasks(Len(list.arr)))
    BY Known0
  <1>2. ASSUME NEW kind, NEW STATE fields, Run(Task(kind, fields)), kind \notin {"op", "batch"},
               "kind" \notin DOMAIN fields
        PROVE  Follow(tasks', tasks)
    <2> DEFINE t == Task(kind, fields)
    <2>1. t.kind = kind /\ tasks' = Append(tasks, t)
      BY <1>2, TaskKind DEF Run
    <2> HIDE DEF t
    <2>2. ~Removes(t)
      BY <1>2, <2>1 DEF Removes
    <2> QED
      BY <1>1, <2>1, <2>2, FollowMore
  <1>3. CASE selectUnifiedInbox
    <2>1. UNCHANGED <<list, dialog>> /\ picked' = NoPtr /\ Run(Task("uload", <<>>))
      BY <1>3 DEF selectUnifiedInbox
    <2>2. "kind" \notin DOMAIN <<>>
      OBVIOUS
    <2>3. Follow(tasks', tasks)
      BY <1>2, <2>1, <2>2
    <2> QED
      BY <2>1, <2>3, CalmStep
  <1>4. ASSUME NEW a \in Accounts, selectAccount(a) PROVE PickedOK'
    <2>1. LeaveArray(ui) /\ Nil(picked')
      BY <1>4 DEF selectAccount, clearMessageSelection, Nil
    <2> QED
      BY <2>1, LeavingStep
  <1>5. CASE ToggleSortOrder
    <2>1. Shake /\ UNCHANGED <<dialog, tasks>>
      BY <1>5 DEF ToggleSortOrder, running
    <2> QED
      BY <2>1, ShakingStep
  <1>6. ASSUME NEW b \in Boxes, SelectFolder(b[2]) PROVE PickedOK'
    <2> DEFINE fields == [folder |-> b[2], force |-> FALSE]
    <2>1. UNCHANGED <<list, dialog, picked>> /\ (Run(Task("load", fields)) \/ UNCHANGED tasks)
      BY <1>6 DEF SelectFolder, selectFolder, selection
    <2>2. "kind" \notin DOMAIN fields
      OBVIOUS
    <2> HIDE DEF fields
    <2>3. Follow(tasks', tasks)
      BY <1>2, <2>1, <2>2, FollowSame
    <2> QED
      BY <2>1, <2>3, CalmStep
  <1>7. CASE handleDeletedFolder
    <2>1. LeaveArray(Append(ui, Closure("fallback", [folder |-> view.folder]))) /\ Nil(picked')
      BY <1>7 DEF handleDeletedFolder, Nil
    <2> QED
      BY <2>1, LeavingStep
  <1>8. ASSUME NEW m \in Messages, NewMail(m) PROVE PickedOK'
    <2> DEFINE fields == [acct |-> m.acct, folder |-> m.folder, msgs |-> {m}]
    <2>1. UNCHANGED <<list, dialog, picked>> /\ Run(Task("announce", fields))
      BY <1>8 DEF NewMail, selection
    <2>2. "kind" \notin DOMAIN fields
      OBVIOUS
    <2> HIDE DEF fields
    <2>3. Follow(tasks', tasks)
      BY <1>2, <2>1, <2>2
    <2> QED
      BY <2>1, <2>3, CalmStep
  <1> QED
    BY <1>3, <1>4, <1>5, <1>6, <1>7, <1>8

LEMMA PickedClicking ==
  ASSUME Inv, Firm,
         \/ \E i \in 1..list.n, ctrl, shift \in BOOLEAN : Tapped(i, ctrl, shift)
         \/ \E i \in 1..list.n, ctrl \in BOOLEAN : TappedSecondary(i, ctrl)
         \/ selectAllMessages \/ clearSelection
  PROVE  PickedOK'
  <1>1. UNCHANGED <<list, tasks, dialog>> /\ dialog = <<>>
    BY DEF Tapped, TappedSecondary, selectAllMessages, clearSelection, running, Command
  <1> QED
    BY <1>1, FollowSame, CalmStep

\* A removal starts with pointers that name what is wanted.
LEMMA RemovalStarts ==
  ASSUME Inv, Firm, NEW STATE t, Removes(t), Names(list.arr, t.ptrs, t.want), tasks' = Append(tasks, t),
         UNCHANGED list, dialog' = <<>>
  PROVE  PickedOK'
  <1>1. tasks \in Seq(Tasks(Len(list.arr)))
    BY Known0
  <1> DEFINE r == Append(tasks, t)
  <1>2. \A k \in DOMAIN r : (k \in DOMAIN tasks /\ r[k] = tasks[k]) \/ r[k] = t
    BY <1>1
  <1> HIDE DEF r
  <1>3. TasksPicked(list.arr, r)
    BY <1>2 DEF Firm, TasksPicked
  <1>4. QuestionsPicked(list'.arr, dialog', picked')
    BY DEF QuestionsPicked
  <1>5. TasksPicked(list'.arr, tasks')
    BY <1>3 DEF r
  <1> QED
    BY <1>4, <1>5 DEF PickedOK

\* The question names what the pointers are to.
LEMMA PickedAsking ==
  ASSUME Inv, Firm, moveToTrash \/ deleteMessage \/ moveToFolder
  PROVE  PickedOK'
  <1>1. dialog = <<>> /\ UNCHANGED <<list, picked>>
    BY DEF moveToTrash, deleteMessage, moveToFolder, Command, selection
  <1>2. ASSUME NEW how, NEW STATE ptrs, Ask(how, ptrs), UNCHANGED tasks, how = "batch" \/ ptrs = <<picked>>
        PROVE  PickedOK'
    <2> DEFINE want == UNION {Named(Deref(ptrs[i])) : i \in DOMAIN ptrs}
               q == [how |-> how, ptrs |-> ptrs, want |-> want]
    <2>1. dialog' = <<q>>
      BY <1>2 DEF Ask
    <2>2. \A i \in DOMAIN ptrs : Named(Deref(ptrs[i])) \subseteq want
      OBVIOUS
    <2> HIDE DEF want
    <2>3. Names(list.arr, ptrs, want)
      BY <2>2, DerefAt DEF Names
    <2>4. how = "batch" \/ Named(At(list.arr, picked)) \subseteq want
      <3>1. ASSUME ptrs = <<picked>> PROVE Named(Deref(picked)) \subseteq want
        <4>1. 1 \in DOMAIN ptrs /\ ptrs[1] = picked
          BY <3>1
        <4> QED
          BY <2>2, <4>1
      <3> QED
        BY <1>2, <3>1, DerefAt
    <2>5. DOMAIN dialog' = {1} /\ dialog'[1].how = how /\ dialog'[1].ptrs = ptrs /\ dialog'[1].want = want
      BY <2>1
    <2>6. QuestionsPicked(list.arr, dialog', picked)
      BY <2>3, <2>4, <2>5 DEF QuestionsPicked
    <2>7. TasksPicked(list.arr, tasks)
      BY DEF Firm
    <2> QED
      BY <1>1, <1>2, <2>6, <2>7 DEF PickedOK
  <1>3. CASE Run(Task("op", [ptrs |-> <<picked>>, want |-> Named(Deref(picked)), how |-> "trash"])) /\ UNCHANGED dialog
    <2> DEFINE want == Named(Deref(picked))
               fields == [ptrs |-> <<picked>>, want |-> want, how |-> "trash"]
               t == Task("op", fields)
    <2>1. tasks' = Append(tasks, t)
      BY <1>3 DEF Run
    <2>2. "kind" \notin DOMAIN fields /\ "ptrs" \in DOMAIN fields /\ "want" \in DOMAIN fields
          /\ fields["ptrs"] = <<picked>> /\ fields["want"] = want
      OBVIOUS
    <2> HIDE DEF fields, want
    <2>3. t.kind = "op" /\ t.ptrs = <<picked>> /\ t.want = want
      BY <2>2, TaskCarries
    <2> HIDE DEF t
    <2>4. Names(list.arr, t.ptrs, t.want) /\ Removes(t)
      BY <2>3, DerefAt DEF Names, Removes, want
    <2> QED
      BY <1>1, <1>3, <2>1, <2>4, RemovalStarts
  <1> QED
    BY <1>2, <1>3 DEF moveToTrash, deleteMessage, moveToFolder

LEMMA PickedAnswering ==
  ASSUME Inv, Firm, Confirm \/ Cancel
  PROVE  PickedOK'
  <1> DEFINE q == dialog[1]
             f1 == [ptrs |-> q.ptrs, want |-> q.want]
             t1 == Task("batch", f1)
             f2 == [ptrs |-> <<picked>>, want |-> q.want, how |-> q.how]
             t2 == Task("op", f2)
  <1>1. dialog # <<>> /\ dialog' = <<>> /\ UNCHANGED <<list, picked>> /\ 1 \in DOMAIN dialog
    <2>1. dialog # <<>> /\ dialog' = <<>> /\ UNCHANGED <<list, picked>>
      BY DEF Confirm, Cancel, selection
    <2>2. dialog \in Seq(Questions(Len(list.arr)))
      BY Known0
    <2> HIDE DEF q, t1, t2, f1, f2
    <2> QED
      BY <2>1, <2>2
  <1>2. /\ Names(list.arr, q.ptrs, q.want)
        /\ q.how = "batch" \/ Nil(picked) \/ Named(At(list.arr, picked)) \subseteq q.want
    BY <1>1 DEF Firm, QuestionsPicked
  <1>3. \/ UNCHANGED tasks
        \/ tasks' = Append(tasks, t1)
        \/ q.how # "batch" /\ ~Nil(picked) /\ tasks' = Append(tasks, t2)
    BY DEF Confirm, Cancel, Run
  <1> HIDE DEF q
  <1>4. "kind" \notin DOMAIN f1 /\ "ptrs" \in DOMAIN f1 /\ "want" \in DOMAIN f1
        /\ f1["ptrs"] = q.ptrs /\ f1["want"] = q.want
    OBVIOUS
  <1>5. "kind" \notin DOMAIN f2 /\ "ptrs" \in DOMAIN f2 /\ "want" \in DOMAIN f2
        /\ f2["ptrs"] = <<picked>> /\ f2["want"] = q.want
    OBVIOUS
  <1> HIDE DEF f1, f2
  <1>6. /\ t1.kind = "batch" /\ t1.ptrs = q.ptrs /\ t1.want = q.want
        /\ t2.kind = "op" /\ t2.ptrs = <<picked>> /\ t2.want = q.want
    BY <1>4, <1>5, TaskCarries
  <1> HIDE DEF t1, t2
  <1>7. Removes(t1) /\ Removes(t2)
    BY <1>6 DEF Removes
  <1>8. CASE UNCHANGED tasks
    <2>1. QuestionsPicked(list'.arr, dialog', picked')
      BY <1>1 DEF QuestionsPicked
    <2> QED
      BY <1>1, <1>8, <2>1 DEF Firm, PickedOK
  <1>9. CASE tasks' = Append(tasks, t1)
    BY <1>1, <1>2, <1>6, <1>7, <1>9, RemovalStarts
  <1>10. CASE q.how # "batch" /\ ~Nil(picked) /\ tasks' = Append(tasks, t2)
    <2>1. Names(list.arr, t2.ptrs, t2.want)
      BY <1>2, <1>6, <1>10 DEF Names
    <2> QED
      BY <1>1, <1>7, <1>10, <2>1, RemovalStarts
  <1> QED
    BY <1>3, <1>8, <1>9, <1>10

LEMMA PickedEnding ==
  ASSUME Inv, NEW i \in DOMAIN tasks, end(i, <<>>)
  PROVE  Follow(tasks', tasks)
  <1>1. tasks \in Seq(Tasks(Len(list.arr))) /\ <<>> \in Seq(Tasks(Len(list.arr))) /\ Idle(<<>>)
    BY Known0 DEF Idle
  <1>2. Follow(RemoveAt(tasks, i) \o <<>>, tasks)
    BY <1>1, FollowFewer
  <1> QED
    BY <1>2 DEF end

LEMMA PickedGoroutine ==
  ASSUME Inv, Firm, NEW i \in DOMAIN tasks,
         \/ LoadStart(i) \/ LoadCrash(i) \/ LoadFetch(i) \/ LoadEnd(i)
         \/ UnifiedStart(i) \/ UnifiedFetch(i) \/ UnifiedEnd(i)
         \/ OpStart(i) \/ OpCall(i) \/ BatchCall(i)
         \/ Lift(i) \/ SelectNext(i) \/ Refresh(i) \/ Announce(i)
  PROVE  PickedOK'
  <1> DEFINE t == tasks[i]
             N == Len(list.arr)
  <1>1. UNCHANGED <<list, picked>>
    BY DEF LoadStart, LoadCrash, LoadFetch, LoadEnd, UnifiedStart, UnifiedFetch, UnifiedEnd, OpStart, OpCall,
           BatchCall, Lift, SelectNext, Refresh, Announce, selection
  <1>2. tasks \in Seq(Tasks(N)) /\ t \in Tasks(N)
    <2>1. tasks \in Seq(Tasks(N))
      BY Known0
    <2> HIDE DEF N
    <2> QED
      BY <2>1
  <1>3. ASSUME UNCHANGED dialog, Follow(tasks', tasks) PROVE PickedOK'
    BY <1>1, <1>3, CalmStep
  <1>4. ASSUME UNCHANGED dialog, end(i, <<>>) PROVE PickedOK'
    BY <1>3, <1>4, PickedEnding
  <1>5. ASSUME NEW t1, t1.kind = t.kind, (t1.want = t.want /\ t1.ptrs = t.ptrs) \/ ~Removes(t)
        PROVE  Follow([tasks EXCEPT ![i] = t1], tasks)
    BY <1>2, <1>5, FollowChanged DEF Removes
  <1>6. ASSUME NEW at PROVE /\ Follow([tasks EXCEPT ![i].at = at], tasks)
                            /\ \A x : Follow([tasks EXCEPT ![i].at = at, ![i].acct = x], tasks)
                            /\ ~Removes(t) =>
                                 \A x : Follow([tasks EXCEPT ![i].at = at, ![i].want = x], tasks)
    <2> DEFINE t1 == [t EXCEPT !.at = at]
               s1 == [tasks EXCEPT ![i] = t1]
               t2(x) == [s1[i] EXCEPT !.acct = x]
               t3(x) == [s1[i] EXCEPT !.want = x]
    <2>1. [tasks EXCEPT ![i].at = at] = [tasks EXCEPT ![i] = t1]
      BY Zenon
    <2>2. \A x : [tasks EXCEPT ![i].at = at, ![i].acct = x] = [s1 EXCEPT ![i] = t2(x)]
      BY Zenon
    <2>3. \A x : [tasks EXCEPT ![i].at = at, ![i].want = x] = [s1 EXCEPT ![i] = t3(x)]
      BY Zenon
    <2>4. s1[i] = t1 /\ \A y : [s1 EXCEPT ![i] = y] = [tasks EXCEPT ![i] = y]
      BY <1>2
    <2>5. t1.kind = t.kind /\ t1.want = t.want /\ t1.ptrs = t.ptrs
      BY <1>2 DEF Tasks
    <2>6. \A x : t2(x).kind = t.kind /\ t2(x).want = t.want /\ t2(x).ptrs = t.ptrs /\ t3(x).kind = t.kind
      BY <1>2, <2>4 DEF Tasks
    <2> HIDE DEF t1, t2, t3, s1
    <2>7. Follow([tasks EXCEPT ![i] = t1], tasks)
      BY <1>5, <2>5
    <2>8. \A x : Follow([tasks EXCEPT ![i] = t2(x)], tasks)
      BY <1>5, <2>6
    <2>9. ~Removes(t) => \A x : Follow([tasks EXCEPT ![i] = t3(x)], tasks)
      BY <1>5, <2>6
    <2>10. \A x : [tasks EXCEPT ![i].at = at, ![i].acct = x] = [tasks EXCEPT ![i] = t2(x)]
      BY <2>2, <2>4
    <2>11. \A x : [tasks EXCEPT ![i].at = at, ![i].want = x] = [tasks EXCEPT ![i] = t3(x)]
      BY <2>3, <2>4
    <2> QED
      BY <2>1, <2>7, <2>8, <2>9, <2>10, <2>11
  <1>7. CASE LoadStart(i)
    <2>1. /\ UNCHANGED dialog
          /\ end(i, <<>>) \/ \E at : tasks' = [tasks EXCEPT ![i].at = at]
      BY <1>7 DEF LoadStart
    <2> QED
      BY <1>3, <1>4, <1>6, <2>1
  <1>8. CASE LoadCrash(i)
    <2>1. tasks' = <<>> /\ dialog' = <<>>
      BY <1>8 DEF LoadCrash
    <2> QED
      BY <2>1, SettledStep DEF Idle
  <1>9. CASE LoadFetch(i)
    BY <1>3, <1>6, <1>9 DEF LoadFetch
  <1>10. CASE LoadEnd(i) \/ Lift(i) \/ UnifiedEnd(i) \/ SelectNext(i) \/ Refresh(i) \/ Announce(i)
    BY <1>4, <1>10 DEF LoadEnd, Lift, UnifiedEnd, SelectNext, Refresh, Announce
  <1>11. CASE UnifiedStart(i)
    <2>1. ~Removes(t)
      BY <1>11 DEF UnifiedStart, Is, Removes
    <2>2. UNCHANGED dialog /\ tasks' = [tasks EXCEPT ![i].at = "fetch", ![i].want = Accounts]
      BY <1>11 DEF UnifiedStart
    <2> QED
      BY <1>3, <1>6, <2>1, <2>2
  <1>12. CASE UnifiedFetch(i)
    <2>1. ~Removes(t)
      BY <1>12 DEF UnifiedFetch, Is, Removes
    <2>2. PICK a \in t.want : \/ tasks' = [tasks EXCEPT ![i].want = @ \ {a}, ![i].msgs = @ \cup In(a, Inbox)]
                              \/ tasks' = [tasks EXCEPT ![i].want = @ \ {a}]
      BY <1>12 DEF UnifiedFetch
    <2> DEFINE t1 == [t EXCEPT !.want = @ \ {a}]
               s1 == [tasks EXCEPT ![i] = t1]
               t2 == [s1[i] EXCEPT !.msgs = @ \cup In(a, Inbox)]
    <2>3. [tasks EXCEPT ![i].want = @ \ {a}] = [tasks EXCEPT ![i] = t1]
      BY Zenon
    <2>4. [tasks EXCEPT ![i].want = @ \ {a}, ![i].msgs = @ \cup In(a, Inbox)] = [s1 EXCEPT ![i] = t2]
      BY Zenon
    <2>5. s1[i] = t1 /\ \A y : [s1 EXCEPT ![i] = y] = [tasks EXCEPT ![i] = y]
      BY <1>2
    <2>6. t1.kind = t.kind
      BY <1>2 DEF Tasks
    <2>7. t2.kind = t.kind
      BY <1>2, <2>5 DEF Tasks
    <2> HIDE DEF t1, t2, s1
    <2>8. tasks' = [tasks EXCEPT ![i] = t1] \/ tasks' = [tasks EXCEPT ![i] = t2]
      BY <2>2, <2>3, <2>4, <2>5
    <2>9. Follow([tasks EXCEPT ![i] = t1], tasks) /\ Follow([tasks EXCEPT ![i] = t2], tasks)
      BY <1>5, <2>1, <2>6, <2>7
    <2>10. UNCHANGED dialog
      BY <1>12 DEF UnifiedFetch
    <2> QED
      BY <1>3, <2>8, <2>9, <2>10
  <1>13. CASE OpStart(i)
    <2> DEFINE x == Deref(t.ptrs[1]).acct
    <2>1. UNCHANGED dialog /\ (\/ tasks' = [tasks EXCEPT ![i].at = "call"]
                               \/ tasks' = [tasks EXCEPT ![i].at = "call", ![i].acct = x])
      BY <1>13 DEF OpStart
    <2> HIDE DEF x
    <2>2. /\ Follow([tasks EXCEPT ![i].at = "call"], tasks)
          /\ Follow([tasks EXCEPT ![i].at = "call", ![i].acct = x], tasks)
      BY <1>6
    <2>3. Follow(tasks', tasks)
      BY <2>1, <2>2
    <2> QED
      BY <1>3, <2>1, <2>3
  <1>14. CASE OpCall(i)
    <2> DEFINE lift == Task("lift", [acct |-> Deref(t.ptrs[1]).acct])
               fresh == Task("refresh", [folder |-> view.folder])
    <2>1. PICK more \in {<<>>, <<lift>>}, then \in {<<>>, <<fresh>>} : tasks' = RemoveAt(tasks, i) \o (more \o then)
      BY <1>14 DEF OpCall, lifting, end
    <2>2. UNCHANGED dialog
      BY <1>14 DEF OpCall
    <2>3. lift.kind = "lift" /\ fresh.kind = "refresh"
      BY TaskKind
    <2> HIDE DEF lift, fresh
    <2> DEFINE S == {tasks[k] : k \in DOMAIN tasks} \cup {lift, fresh}
    <2>4. tasks \in Seq(S) /\ lift \in S /\ fresh \in S
      BY <1>2
    <2> HIDE DEF S
    <2>5. more \in Seq(S) /\ then \in Seq(S)
      <3>1. \A s \in S : <<s>> \in Seq(S)
        OBVIOUS
      <3>2. <<lift>> \in Seq(S) /\ <<fresh>> \in Seq(S)
        BY <2>4, <3>1
      <3>3. <<>> \in Seq(S)
        OBVIOUS
      <3> QED
        BY <3>2, <3>3
    <2>6. Idle(more) /\ Idle(then)
      BY <2>3 DEF Idle, Removes
    <2> DEFINE both == more \o then
    <2>7. /\ both \in Seq(S)
          /\ \A k \in DOMAIN both : (\E j \in DOMAIN more : both[k] = more[j]) \/ (\E j \in DOMAIN then : both[k] = then[j])
      BY <2>5
    <2> HIDE DEF both
    <2>8. Idle(both)
      BY <2>6, <2>7 DEF Idle
    <2>9. Follow(RemoveAt(tasks, i) \o both, tasks)
      BY <2>4, <2>7, <2>8, FollowFewer
    <2>10. Follow(tasks', tasks)
      BY <2>1, <2>9 DEF both
    <2> QED
      BY <1>3, <2>2, <2>10
  <1>15. CASE BatchCall(i)
    <2>1. UNCHANGED dialog /\ (\/ end(i, <<>>)
                               \/ t.ptrs # <<>> /\ tasks' = [tasks EXCEPT ![i].ptrs = Tail(@)])
      BY <1>15 DEF BatchCall
    <2>2. CASE t.ptrs # <<>> /\ tasks' = [tasks EXCEPT ![i].ptrs = Tail(@)]
      <3> DEFINE t1 == [t EXCEPT !.ptrs = Tail(t.ptrs)]
      <3>1. tasks' = [tasks EXCEPT ![i] = t1]
        BY <2>2, Zenon
      <3>2. t1.kind = t.kind /\ t1.want = t.want /\ t1.ptrs = Tail(t.ptrs) /\ t.ptrs \in Seq(Held(N))
        BY <1>2 DEF Tasks
      <3> HIDE DEF t1, N
      <3>3. \A p \in DOMAIN t1.ptrs : \E q \in DOMAIN t.ptrs : t1.ptrs[p] = t.ptrs[q]
        <4>1. \A p \in DOMAIN Tail(t.ptrs) : Tail(t.ptrs)[p] = t.ptrs[p + 1] /\ p + 1 \in DOMAIN t.ptrs
          BY <2>2, <3>2
        <4> QED
          BY <3>2, <4>1
      <3>4. Follow(tasks', tasks)
        BY <1>2, <3>1, <3>2, <3>3, FollowChanged
      <3> QED
        BY <1>3, <2>1, <3>4
    <2> QED
      BY <1>4, <2>1, <2>2
  <1> QED
    BY <1>7, <1>8, <1>9, <1>10, <1>11, <1>12, <1>13, <1>14, <1>15

LEMMA PickedThread ==
  ASSUME Inv, Firm, Thread
  PROVE  PickedOK'
  <1>1. tasks \in Seq(Tasks(Len(list.arr)))
    BY Known0
  <1>2. ASSUME LeaveArray(rest), picked' = NoPtr PROVE PickedOK'
    <2>1. Nil(picked')
      BY <1>2 DEF Nil
    <2> QED
      BY <1>2, <2>1, LeavingStep
  <1>3. CASE Stay
    BY <1>3, CalmStep, FollowSame DEF Stay, selection
  <1>4. CASE showFolder \/ showFailed \/ showUnified \/ showLoading
    BY <1>2, <1>3, <1>4 DEF showFolder, showFailed, showUnified, showLoading, Replace, clearMessageSelection
  <1>5. CASE inject \/ arrived
    <2>1. \/ Stay \/ (Shake /\ UNCHANGED <<tasks, dialog>>)
          \/ (LeaveArray(rest) /\ picked' = NoPtr)
      BY <1>5 DEF inject, arrived, merge, clearMessageSelection
    <2> QED
      BY <1>2, <1>3, <2>1, ShakingStep
  <1>6. CASE removed
    <2> DEFINE x == Deref(ui[1].ptrs[1])
               at == {j \in 1..list.n : list.arr[j].acct = x.acct /\ list.arr[j].uid = x.uid}
               t == Task("next", [index |-> Min({Min(at), list.n - 1})])
    <2>1. Stay \/ (tasks' \in {tasks \o <<>>, tasks \o <<t>>} /\ UNCHANGED dialog /\ Shake)
      BY <1>6 DEF removed
    <2>2. t.kind = "next"
      BY TaskKind
    <2> HIDE DEF t
    <2>3. ASSUME Idle(tasks) PROVE Idle(tasks \o <<>>) /\ Idle(tasks \o <<t>>)
      <3> DEFINE r == tasks \o <<t>>
      <3>1. tasks \o <<>> = tasks
        BY <1>1
      <3>2. \A k \in DOMAIN r : (k \in DOMAIN tasks /\ r[k] = tasks[k]) \/ r[k] = t
        BY <1>1
      <3> HIDE DEF r
      <3>3. Idle(r)
        BY <2>2, <2>3, <3>2 DEF Idle, Removes
      <3> QED
        BY <2>3, <3>1, <3>3 DEF r
    <2>4. CASE tasks' \in {tasks \o <<>>, tasks \o <<t>>} /\ UNCHANGED dialog /\ Shake
      BY <2>3, <2>4, ShakingStep
    <2> QED
      BY <1>3, <2>1, <2>4
  <1>7. CASE selectNext
    <2>1. UNCHANGED <<list, tasks, dialog>> /\ (UNCHANGED picked \/ shaken' = (shaken \/ dialog # <<>>))
      BY <1>7 DEF selectNext, selection
    <2>2. CASE dialog = <<>> \/ UNCHANGED picked
      BY <2>1, <2>2, CalmStep, FollowSame
    <2>3. CASE dialog # <<>> /\ shaken' = (shaken \/ dialog # <<>>)
      BY <2>3 DEF PickedOK
    <2> QED
      BY <2>1, <2>2, <2>3
  <1>8. CASE deselect
    BY <1>8, CalmStep, FollowSame DEF deselect
  <1>9. CASE reselect
    <2>1. UNCHANGED <<list, dialog, picked>>
      BY <1>9 DEF reselect, selection
    <2>2. ASSUME NEW folder, NEW force, Run(Task("load", [folder |-> folder, force |-> force]))
          PROVE  Follow(tasks', tasks)
      <3> DEFINE t == Task("load", [folder |-> folder, force |-> force])
      <3>1. t.kind = "load" /\ tasks' = Append(tasks, t)
        BY <2>2, TaskKind DEF Run
      <3> HIDE DEF t
      <3>2. ~Removes(t)
        BY <3>1 DEF Removes
      <3> QED
        BY <1>1, <3>1, <3>2, FollowMore
    <2>3. UNCHANGED tasks \/ \E folder, force : Run(Task("load", [folder |-> folder, force |-> force]))
      BY <1>9 DEF reselect, selectFolder, Next1
    <2> QED
      BY <2>1, <2>2, <2>3, CalmStep, FollowSame
  <1> QED
    BY <1>4, <1>5, <1>6, <1>7, <1>8, <1>9 DEF Thread

\* What is shaken stays so as long as something is being removed.
LEMMA StaysShaken ==
  ASSUME [Next]_vars, shaken
  PROVE  shaken' \/ ~Removing'
  <1>1. ASSUME UNCHANGED shaken \/ Settle \/ Shake PROVE shaken' \/ ~Removing'
    BY <1>1 DEF Settle, Shake
  <1>2. CASE User
    BY <1>1, <1>2 DEF User, selectUnifiedInbox, selectAccount, SelectFolder, handleDeletedFolder, Tapped,
       TappedSecondary, selectAllMessages, clearSelection, ToggleSortOrder, moveToTrash, deleteMessage,
       moveToFolder, Confirm, Cancel, history
  <1>3. ASSUME NEW i \in DOMAIN tasks,
         \/ LoadStart(i) \/ LoadCrash(i) \/ LoadFetch(i) \/ LoadEnd(i)
         \/ UnifiedStart(i) \/ UnifiedFetch(i) \/ UnifiedEnd(i)
         \/ OpStart(i) \/ OpCall(i) \/ BatchCall(i)
         \/ Lift(i) \/ SelectNext(i) \/ Refresh(i) \/ Announce(i)
        PROVE  shaken' \/ ~Removing'
    BY <1>1, <1>3 DEF LoadStart, LoadCrash, LoadFetch, LoadEnd, UnifiedStart, UnifiedFetch, UnifiedEnd, OpStart,
       OpCall, BatchCall, Lift, SelectNext, Refresh, Announce, history
  <1>4. CASE Goroutine
    BY <1>3, <1>4 DEF Goroutine
  <1>5. CASE showFolder \/ showFailed \/ showUnified \/ showLoading \/ deselect \/ reselect
    BY <1>5 DEF showFolder, showFailed, showUnified, showLoading, deselect, reselect, history
  <1>6. CASE inject \/ arrived \/ removed
    BY <1>1, <1>6 DEF inject, arrived, merge, removed
  <1>7. CASE selectNext
    BY <1>7 DEF selectNext
  <1>8. CASE \E m \in Messages : NewMail(m)
    BY <1>8 DEF NewMail, history
  <1>9. CASE UNCHANGED vars
    BY <1>9 DEF vars, history
  <1> QED
    BY <1>2, <1>4, <1>5, <1>6, <1>7, <1>8, <1>9 DEF Next, Thread

LEMMA PickedInitially == Init => PickedOK
  BY DEF Init, PickedOK, TasksPicked, QuestionsPicked

LEMMA PickedKept ==
  ASSUME Inv, PickedOK, [Next]_vars
  PROVE  PickedOK'
  <1>1. CASE shaken
    BY <1>1, StaysShaken, ShakenStep
  <1>2. CASE Firm
    <2>1. CASE User
      BY <1>2, <2>1, PickedSelecting, PickedClicking, PickedAsking, PickedAnswering DEF User
    <2>2. CASE Goroutine
      BY <1>2, <2>2, PickedGoroutine DEF Goroutine
    <2>3. CASE UNCHANGED vars
      BY <1>2, <2>3 DEF vars, selection, running, Firm, PickedOK
    <2> QED
      BY <1>2, <2>1, <2>2, <2>3, PickedThread, PickedSelecting DEF Next
  <1> QED
    BY <1>1, <1>2 DEF PickedOK, Firm

\* A call removes what its pointer names, and nothing else does.
LEMMA RemovedByCalls ==
  ASSUME Inv, [Next]_vars, NEW m \in mail \ mail'
  PROVE  \E i \in DOMAIN tasks : /\ Removes(tasks[i]) /\ 1 \in DOMAIN tasks[i].ptrs
                                 /\ m \in Asked(tasks[i].ptrs[1])
  <1>1. mail' # mail /\ ~(mail \subseteq mail')
    OBVIOUS
  <1>2. ASSUME NEW p, NEW ok, call(p, ok) PROVE m \in Asked(p)
    BY <1>2 DEF call
  <1>3. CASE UNCHANGED vars
    BY <1>1, <1>3 DEF vars, server
  <1>4. CASE \E a \in Messages : NewMail(a)
    BY <1>1, <1>4 DEF NewMail
  <1>5. CASE User
    BY <1>1, <1>5 DEF User, selectUnifiedInbox, selectAccount, SelectFolder, handleDeletedFolder, Tapped,
       TappedSecondary, selectAllMessages, clearSelection, ToggleSortOrder, moveToTrash, deleteMessage,
       moveToFolder, Confirm, Cancel, server
  <1>6. CASE Thread
    BY <1>1, <1>6 DEF Thread, showFolder, showFailed, showUnified, showLoading, inject, arrived, removed,
       selectNext, deselect, reselect, server
  <1>7. ASSUME NEW i \in DOMAIN tasks, OpCall(i) \/ BatchCall(i)
        PROVE  /\ Removes(tasks[i]) /\ 1 \in DOMAIN tasks[i].ptrs
               /\ m \in Asked(tasks[i].ptrs[1])
    <2>1. tasks[i].kind \in {"op", "batch"}
      BY <1>7 DEF OpCall, BatchCall, Is
    <2>2. m \in Asked(tasks[i].ptrs[1]) /\ (tasks[i].kind = "batch" => tasks[i].ptrs # <<>>)
      BY <1>1, <1>2, <1>7 DEF OpCall, BatchCall, Is
    <2>3. tasks[i] \in Tasks(Len(list.arr))
      BY Known0
    <2>4. tasks[i].ptrs \in Seq(Held(Len(list.arr))) /\ tasks[i].ptrs # <<>>
      BY <2>1, <2>2, <2>3 DEF Tasks
    <2>5. 1 \in DOMAIN tasks[i].ptrs
      BY <2>4
    <2> QED
      BY <2>1, <2>2, <2>5 DEF Removes
  <1>8. ASSUME NEW i \in DOMAIN tasks,
               \/ LoadStart(i) \/ LoadCrash(i) \/ LoadFetch(i) \/ LoadEnd(i)
               \/ UnifiedStart(i) \/ UnifiedFetch(i) \/ UnifiedEnd(i)
               \/ OpStart(i) \/ Lift(i) \/ SelectNext(i) \/ Refresh(i) \/ Announce(i)
        PROVE  FALSE
    BY <1>1, <1>8 DEF LoadStart, LoadCrash, LoadFetch, LoadEnd, UnifiedStart, UnifiedFetch, UnifiedEnd, OpStart, Lift,
       SelectNext, Refresh, Announce, server
  <1>9. CASE Goroutine
    BY <1>7, <1>8, <1>9 DEF Goroutine
  <1> QED
    BY <1>3, <1>4, <1>5, <1>6, <1>9 DEF Next

LEMMA RemovedWasPicked ==
  ASSUME Inv, PickedOK, [Next]_vars, NEW m \in mail \ mail'
  PROVE  shaken \/ \E i \in DOMAIN tasks : tasks[i].kind \in {"op", "batch"} /\ m \in tasks[i].want
  <1>1. PICK i \in DOMAIN tasks : /\ Removes(tasks[i]) /\ 1 \in DOMAIN tasks[i].ptrs
                                  /\ m \in Asked(tasks[i].ptrs[1])
    BY RemovedByCalls
  <1>2. m \in Named(At(list.arr, tasks[i].ptrs[1]))
    BY <1>1, DerefAt DEF Asked
  <1>3. shaken \/ Named(At(list.arr, tasks[i].ptrs[1])) \subseteq tasks[i].want
    BY <1>1 DEF PickedOK, TasksPicked, Names
  <1> QED
    BY <1>1, <1>2, <1>3 DEF Removes

(***************************************************************************)
(* Which folder the list is of.                                            *)
(***************************************************************************)
ItemOf(x, acct, folder) == /\ x.acct = acct /\ x.folder = folder
                           /\ x.id.acct = acct /\ x.id.folder = folder
InBox(arr, acct, folder) == \A k \in 1..Len(arr) : ItemOf(arr[k], acct, folder)

LEMMA ListedInBox ==
  ASSUME NEW items \in SUBSET ItemSet, IsFiniteSet(items), \A x, y \in items : x.id = y.id => x = y,
         NEW acct, NEW folder, \A x \in items : ItemOf(x, acct, folder)
  PROVE  InBox(Listed(items).arr, acct, folder)
  <1> DEFINE arr == Listed(items).arr
  <1>1. arr \in Seq(items)
    BY ListedIsList
  <1> HIDE DEF arr
  <1>2. \A k \in 1..Len(arr) : arr[k] \in items
    BY <1>1
  <1> QED
    BY <1>2 DEF InBox, arr

LEMMA NoneInBox == ASSUME NEW acct, NEW folder PROVE InBox(Listed({}).arr, acct, folder)
  BY NoItems, ListedInBox

LEMMA SortedInBox ==
  ASSUME NEW s \in Seq(ItemSet), NEW by \in BOOLEAN, NEW t \in Seq(ItemSet),
         NEW acct, NEW folder, InBox(s, acct, folder), InBox(t, acct, folder)
  PROVE  InBox(Sorted(s, by), acct, folder) /\ InBox(Sorted(s, by) \o t, acct, folder)
  <1> DEFINE n == Len(s)
             r == Sorted(s, by)
             I == 1..n
  <1>1. r \in Seq(ItemSet) /\ Len(r) = n /\ n \in Nat
    BY SortedIsList
  <1>2. PICK g \in [I -> I] : /\ \A j, k \in I : g[j] = g[k] => j = k
                              /\ \A k \in I : r[k] = s[g[k]]
    BY SortedIsList
  <1> HIDE DEF r
  <1>3. \A k \in 1..Len(r \o t) : \/ k \in I /\ (r \o t)[k] = r[k]
                                  \/ k - n \in 1..Len(t) /\ (r \o t)[k] = t[k - n]
    BY <1>1
  <1>4. \A k \in I : ItemOf(s[k], acct, folder)
    BY DEF InBox
  <1> HIDE DEF n
  <1>5. \A k \in I : ItemOf(r[k], acct, folder)
    <2>1. \A k \in I : g[k] \in I /\ r[k] = s[g[k]]
      BY <1>2
    <2> HIDE DEF I
    <2> QED
      BY <1>4, <2>1
  <1>6. \A k \in 1..Len(t) : ItemOf(t[k], acct, folder)
    BY DEF InBox
  <1> DEFINE l == r \o t
  <1>7. \A k \in 1..Len(l) : ItemOf(l[k], acct, folder)
    BY <1>3, <1>5, <1>6
  <1>8. InBox(l, acct, folder)
    <2> HIDE DEF l
    <2> QED
      BY <1>7 DEF InBox
  <1>9. InBox(r, acct, folder)
    BY <1>1, <1>5 DEF InBox
  <1> QED
    BY <1>8, <1>9 DEF r

LEMMA WithoutInBox ==
  ASSUME ListOK, NEW acct, NEW folder, InBox(list.arr, acct, folder), NEW j \in 1..list.n
  PROVE  InBox(without(j).arr, acct, folder)
  <1>1. /\ list.n \in Nat /\ j \in Nat /\ list.n <= Len(list.arr) /\ Len(list.arr) \in Nat
        /\ Len(without(j).arr) = Len(list.arr)
        /\ \A k \in 1..Len(list.arr) : without(j).arr[k] =
             IF k \in j..(list.n - 1) THEN list.arr[k + 1] ELSE list.arr[k]
    BY WithoutOK DEF ListOK
  <1> DEFINE from(k) == IF k \in j..(list.n - 1) THEN k + 1 ELSE k
             arr == without(j).arr
             n == Len(list.arr)
  <1>2. \A k \in 1..n : from(k) \in 1..n /\ arr[k] = list.arr[from(k)]
    BY <1>1
  <1>3. Len(arr) = n
    BY <1>1
  <1> HIDE DEF from, arr
  <1>4. InBox(arr, acct, folder)
    BY <1>2, <1>3 DEF InBox
  <1> QED
    BY <1>4 DEF arr

\* A part of the array.
LEMMA PartInBox ==
  ASSUME NEW arr \in Seq(ItemSet), NEW acct, NEW folder, InBox(arr, acct, folder), NEW n \in Nat
  PROVE  /\ n <= Len(arr) => InBox(SubSeq(arr, 1, n), acct, folder)
         /\ InBox(SubSeq(arr, n + 1, Len(arr)), acct, folder)
  <1>1. ASSUME n <= Len(arr) PROVE InBox(SubSeq(arr, 1, n), acct, folder)
    <2> DEFINE r == SubSeq(arr, 1, n)
    <2>1. \A k \in 1..Len(r) : k \in 1..Len(arr) /\ r[k] = arr[k]
      BY <1>1
    <2> HIDE DEF r
    <2>2. InBox(r, acct, folder)
      BY <2>1 DEF InBox
    <2> QED
      BY <2>2 DEF r
  <1>2. InBox(SubSeq(arr, n + 1, Len(arr)), acct, folder)
    <2> DEFINE r == SubSeq(arr, n + 1, Len(arr))
    <2>1. \A k \in 1..Len(r) : n + k \in 1..Len(arr) /\ r[k] = arr[n + k]
      OBVIOUS
    <2> HIDE DEF r
    <2>2. InBox(r, acct, folder)
      BY <2>1 DEF InBox
    <2> QED
      BY <2>2 DEF r
  <1> QED
    BY <1>1, <1>2

LEMMA MergedInBox ==
  ASSUME Inv, NEW STATE items, AtMostOne(items), merge(items), NEW STATE acct, NEW STATE folder,
         InBox(list.arr, acct, folder), \A x \in items : ItemOf(x, acct, folder)
  PROVE  InBox(list'.arr, acct, folder)
  <1> DEFINE merged == mergeIntoUnifiedInbox(Shown, SetToSeq(items))
             n == Len(merged)
             tail == SubSeq(list.arr, n + 1, Len(list.arr))
  <1>1. /\ ListOK /\ list.arr \in Seq(ItemSet) /\ newest \in BOOLEAN
        /\ Shown \in Seq(ItemSet) /\ list.n \in Nat /\ list.n <= Len(list.arr)
    BY Known0, ShownOK DEF ListOK, ViewOK
  <1>2. /\ merged \in Seq(ItemSet)
        /\ \A k \in DOMAIN merged : merged[k] \in items \/ \E j \in DOMAIN Shown : merged[k] = Shown[j]
    <2>1. LET m == mergeIntoUnifiedInbox(Shown, SetToSeq(items))
          IN  /\ m \in Seq(ItemSet) /\ Len(m) \in {Len(Shown), Len(Shown) + 1}
              /\ \A k \in DOMAIN m : m[k] \in items \/ \E j \in DOMAIN Shown : m[k] = Shown[j]
              /\ Distinct(Shown) => Distinct(m)
      BY <1>1, MergedOK
    <2> QED
      BY <2>1
  <1>3. list'.arr = Sorted(merged, newest) \o tail \/ list'.arr = Sorted(merged, newest)
    <2>1. \/ list' = [list EXCEPT !.arr = Sorted(merged, newest) \o tail, !.n = n, !.sorted = n]
          \/ list' = [list EXCEPT !.arr = Sorted(merged, newest), !.n = n, !.sorted = n]
      BY DEF merge
    <2> DEFINE a1 == Sorted(merged, newest) \o tail
               a2 == Sorted(merged, newest)
    <2>2. \/ list' = [list EXCEPT !.arr = a1, !.n = n, !.sorted = n]
          \/ list' = [list EXCEPT !.arr = a2, !.n = n, !.sorted = n]
      BY <2>1
    <2> HIDE DEF merged, n, tail, a1, a2
    <2>3. list'.arr = a1 \/ list'.arr = a2
      BY <1>1, <2>2, ListWith
    <2> QED
      BY <2>3 DEF a1, a2
  <1> HIDE DEF merged
  <1>4. n \in Nat /\ DOMAIN merged = 1..n
    BY <1>2
  <1>5. InBox(merged, acct, folder)
    <2>1. InBox(Shown, acct, folder)
      BY <1>1, PartInBox DEF Shown
    <2>2. \A j \in DOMAIN Shown : ItemOf(Shown[j], acct, folder)
      BY <1>1, <2>1 DEF InBox
    <2> QED
      BY <1>2, <1>4, <2>2 DEF InBox
  <1>6. tail \in Seq(ItemSet) /\ InBox(tail, acct, folder)
    <2> HIDE DEF n
    <2>1. tail \in Seq(ItemSet)
      BY <1>1, <1>4
    <2>2. InBox(tail, acct, folder)
      BY <1>1, <1>4, PartInBox
    <2> QED
      BY <2>1, <2>2
  <1> HIDE DEF tail
  <1> DEFINE a1 == Sorted(merged, newest)
             a2 == Sorted(merged, newest) \o tail
  <1>7. InBox(a1, acct, folder) /\ InBox(a2, acct, folder)
    BY <1>1, <1>2, <1>5, <1>6, SortedInBox
  <1>8. list'.arr = a1 \/ list'.arr = a2
    BY <1>3
  <1> HIDE DEF a1, a2, n
  <1> QED
    BY <1>7, <1>8

LEMMA ToggledInBox ==
  ASSUME Inv, ToggleSortOrder, NEW acct, NEW folder, InBox(list.arr, acct, folder)
  PROVE  InBox(list'.arr, acct, folder)
  <1> DEFINE s == SubSeq(list.arr, 1, list.sorted)
             t == SubSeq(list.arr, list.sorted + 1, Len(list.arr))
             arr == Sorted(s, ~newest) \o t
  <1>1. list' = [list EXCEPT !.arr = arr, !.resorted = @ \/ list.sorted # list.n]
    BY DEF ToggleSortOrder
  <1>2. /\ list.arr \in Seq(ItemSet) /\ list.sorted \in Nat /\ list.sorted <= Len(list.arr)
        /\ newest \in BOOLEAN /\ ListOK
    BY Known0 DEF ListOK, ViewOK
  <1>3. s \in Seq(ItemSet) /\ t \in Seq(ItemSet)
    BY <1>2
  <1>4. InBox(s, acct, folder) /\ InBox(t, acct, folder)
    BY <1>2, PartInBox
  <1> HIDE DEF s, t
  <1>5. InBox(arr, acct, folder)
    BY <1>2, <1>3, <1>4, SortedInBox
  <1> HIDE DEF arr
  <1>6. list'.arr = arr
    BY <1>1, <1>2 DEF ListOK
  <1> QED
    BY <1>5, <1>6

(***************************************************************************)
(* What the thread of the user interface will have shown when it has run   *)
(* its closures: EndsWith says that the last list shown is of the account  *)
(* and the folder, and nothing of others is merged into it.  good is what  *)
(* holds of the list if no closure shows another.                          *)
(***************************************************************************)
Shows == {"show", "fresh"}
From(c, acct, folder) == c.folder = folder /\ \A m \in c.msgs : m.acct = acct
EndsWith(us, acct, folder, good) ==
  \E k \in 0..Len(us) :
    /\ k = 0 => good
    /\ k > 0 => us[k].kind \in Shows /\ From(us[k], acct, folder)
    /\ \A l \in (k + 1)..Len(us) : us[l].kind \in OfFolder => From(us[l], acct, folder)

Same(c, d) == c.kind = d.kind /\ c.folder = d.folder /\ c.msgs = d.msgs

LEMMA EndsSame ==
  ASSUME NEW S, NEW T, NEW us \in Seq(S), NEW us1 \in Seq(T), Len(us1) = Len(us),
         \A k \in 1..Len(us) : Same(us1[k], us[k]),
         NEW acct, NEW folder, NEW good \in BOOLEAN, NEW good1 \in BOOLEAN, EndsWith(us, acct, folder, good), good => good1
  PROVE  EndsWith(us1, acct, folder, good1)
  <1> DEFINE n == Len(us)
  <1>1. n \in Nat
    OBVIOUS
  <1>2. PICK k \in 0..n :
          /\ k = 0 => good
          /\ k > 0 => us[k].kind \in Shows /\ From(us[k], acct, folder)
          /\ \A l \in (k + 1)..n : us[l].kind \in OfFolder => From(us[l], acct, folder)
    BY DEF EndsWith
  <1>3. Len(us1) = n
    OBVIOUS
  <1> HIDE DEF n
  <1>4. k > 0 => k \in 1..n
    BY <1>1
  <1>5. \A l \in (k + 1)..n : l \in 1..n
    BY <1>1
  <1>6. \A l \in 1..n : Same(us1[l], us[l])
    BY DEF n
  <1>7. /\ k = 0 => good1
        /\ k > 0 => us1[k].kind \in Shows /\ From(us1[k], acct, folder)
        /\ \A l \in (k + 1)..n : us1[l].kind \in OfFolder => From(us1[l], acct, folder)
    BY <1>2, <1>4, <1>5, <1>6 DEF Same, From
  <1> QED
    BY <1>3, <1>7 DEF EndsWith

LEMMA EndsMore ==
  ASSUME NEW S, NEW us \in Seq(S), NEW c, NEW acct, NEW folder, NEW good \in BOOLEAN,
         c.kind \in OfFolder => From(c, acct, folder),
         c.kind \in Shows \/ EndsWith(us, acct, folder, good)
  PROVE  EndsWith(Append(us, c), acct, folder, good)
  <1> DEFINE r == Append(us, c)
             n == Len(us)
  <1>1. /\ n \in Nat /\ Len(r) = n + 1 /\ r[n + 1] = c
        /\ \A k \in 1..n : r[k] = us[k]
    OBVIOUS
  <1> HIDE DEF r
  <1>2. CASE c.kind \in Shows
    <2>1. c.kind \in OfFolder
      BY <1>2 DEF Shows, OfFolder
    <2>2. n + 1 \in 0..Len(r) /\ n + 1 > 0 /\ \A l \in (n + 1 + 1)..Len(r) : FALSE
      BY <1>1
    <2>3. EndsWith(r, acct, folder, good)
      BY <1>1, <1>2, <2>1, <2>2 DEF EndsWith
    <2> QED
      BY <2>3 DEF r
  <1>3. CASE EndsWith(us, acct, folder, good)
    <2>1. PICK k \in 0..n :
            /\ k = 0 => good
            /\ k > 0 => us[k].kind \in Shows /\ From(us[k], acct, folder)
            /\ \A l \in (k + 1)..n : us[l].kind \in OfFolder => From(us[l], acct, folder)
      BY <1>3 DEF EndsWith
    <2>2. k \in 0..Len(r) /\ (k > 0 => r[k] = us[k])
      BY <1>1
    <2>3. \A l \in (k + 1)..Len(r) : (l \in (k + 1)..n /\ r[l] = us[l]) \/ r[l] = c
      BY <1>1
    <2>4. EndsWith(r, acct, folder, good)
      BY <2>1, <2>2, <2>3 DEF EndsWith
    <2> QED
      BY <2>4 DEF r
  <1> QED
    BY <1>2, <1>3

LEMMA EndsFewer ==
  ASSUME NEW S, NEW us \in Seq(S), us # <<>>, NEW acct, NEW folder, NEW good \in BOOLEAN, NEW good1 \in BOOLEAN,
         EndsWith(us, acct, folder, good),
         us[1].kind \in Shows /\ From(us[1], acct, folder) => good1,
         good /\ (us[1].kind \in OfFolder => From(us[1], acct, folder)) => good1
  PROVE  EndsWith(Tail(us), acct, folder, good1)
  <1> DEFINE r == Tail(us)
             n == Len(us)
  <1>1. /\ n \in Nat /\ n > 0 /\ Len(r) = n - 1 /\ \A k \in 1..(n - 1) : r[k] = us[k + 1]
    OBVIOUS
  <1>2. PICK k \in 0..n :
          /\ k = 0 => good
          /\ k > 0 => us[k].kind \in Shows /\ From(us[k], acct, folder)
          /\ \A l \in (k + 1)..n : us[l].kind \in OfFolder => From(us[l], acct, folder)
    BY DEF EndsWith
  <1> HIDE DEF r, n
  <1>3. CASE k <= 1
    <2>1. good1
      <3>1. k = 0 => 1 \in (k + 1)..n
        BY <1>1
      <3> QED
        BY <1>2, <1>3, <3>1
    <2>2. \A l \in 1..(n - 1) : r[l].kind \in OfFolder => From(r[l], acct, folder)
      <3>1. \A l \in 1..(n - 1) : l + 1 \in (k + 1)..n
        BY <1>1, <1>3
      <3> QED
        BY <1>1, <1>2, <3>1
    <2>3. /\ 0 \in 0..Len(r) /\ ~(0 > 0)
          /\ \A l \in (0 + 1)..Len(r) : r[l].kind \in OfFolder => From(r[l], acct, folder)
      BY <1>1, <2>2
    <2>4. EndsWith(r, acct, folder, good1)
      BY <2>1, <2>3 DEF EndsWith
    <2> QED
      BY <2>4 DEF r
  <1>4. CASE k > 1
    <2>1. /\ k - 1 \in 0..Len(r) /\ k - 1 > 0 /\ r[k - 1] = us[k]
      BY <1>1, <1>4
    <2>2. \A l \in ((k - 1) + 1)..(n - 1) : r[l].kind \in OfFolder => From(r[l], acct, folder)
      <3>1. \A l \in ((k - 1) + 1)..(n - 1) : l + 1 \in (k + 1)..n /\ l \in 1..(n - 1)
        BY <1>1, <1>4
      <3> QED
        BY <1>1, <1>2, <3>1
    <2>3. EndsWith(r, acct, folder, good1)
      BY <1>1, <1>2, <1>4, <2>1, <2>2 DEF EndsWith
    <2> QED
      BY <2>3 DEF r
  <1> QED
    BY <1>3, <1>4

(***************************************************************************)
(* The loads.  One at a time is under way, which freshFetchInProgress      *)
(* sees to.  The list will be that of the folder selected: because a load  *)
(* has still to start, or one that fetches is of that folder, or else      *)
(* because of what is shown, or waits to be.                               *)
(***************************************************************************)
Waiting(t) == t.kind = "load" /\ t.at = "start"
Loading(t) == t.kind = "load" /\ t.at # "start"
Fetching(t) == t.kind = "load" /\ t.at = "fetch"
OneLoading(ts) == \A i, j \in DOMAIN ts : Loading(ts[i]) /\ Loading(ts[j]) => i = j
OneLoad == /\ OneLoading(tasks)
           /\ \A i \in DOMAIN tasks : Loading(tasks[i]) => fetching
           /\ view.unified \/ view.acct # None

Follows(ts, us, acct, folder, good) ==
  \/ \E i \in DOMAIN ts : Waiting(ts[i])
  \/ /\ \A i \in DOMAIN ts : Fetching(ts[i]) => ts[i].folder = folder
     /\ (\E i \in DOMAIN ts : Fetching(ts[i])) \/ EndsWith(us, acct, folder, good)
Good == InBox(list.arr, view.acct, view.folder)
FollowsOK ==
  ~view.unified /\ view.folder # None /\ ~missed => Follows(tasks, ui, view.acct, view.folder, Good)

\* The loads of one sequence of tasks are those of the other, except for one that
\* has only to end.
SameLoad(t, u) == t.kind = "load" /\ u.kind = "load" /\ t.at = u.at /\ t.folder = u.folder
Alike(ts1, ts) ==
  /\ OneLoading(ts) => OneLoading(ts1)
  /\ \A k \in DOMAIN ts1 : ts1[k].kind = "load" => \E i \in DOMAIN ts : SameLoad(ts1[k], ts[i])
  /\ \A i \in DOMAIN ts : ts[i].kind = "load" =>
       ts[i].at = "done" \/ \E k \in DOMAIN ts1 : SameLoad(ts1[k], ts[i])

LEMMA AlikeSame == ASSUME NEW ts PROVE Alike(ts, ts)
  BY DEF Alike, SameLoad

LEMMA AlikeTwice ==
  ASSUME NEW ts, NEW ts1, NEW ts2, Alike(ts1, ts), Alike(ts2, ts1)
  PROVE  Alike(ts2, ts)
  <1>1. ASSUME NEW k \in DOMAIN ts2, ts2[k].kind = "load" PROVE \E i \in DOMAIN ts : SameLoad(ts2[k], ts[i])
    <2>1. PICK j \in DOMAIN ts1 : SameLoad(ts2[k], ts1[j])
      BY <1>1 DEF Alike
    <2>2. PICK i \in DOMAIN ts : SameLoad(ts1[j], ts[i])
      BY <2>1 DEF Alike, SameLoad
    <2> QED
      BY <2>1, <2>2 DEF SameLoad
  <1>2. ASSUME NEW i \in DOMAIN ts, ts[i].kind = "load"
        PROVE  ts[i].at = "done" \/ \E k \in DOMAIN ts2 : SameLoad(ts2[k], ts[i])
    <2>1. CASE ts[i].at # "done"
      <3>1. PICK j \in DOMAIN ts1 : SameLoad(ts1[j], ts[i])
        BY <1>2, <2>1 DEF Alike
      <3>2. PICK k \in DOMAIN ts2 : SameLoad(ts2[k], ts1[j])
        BY <2>1, <3>1 DEF Alike, SameLoad
      <3> QED
        BY <3>1, <3>2 DEF SameLoad
    <2> QED
      BY <2>1
  <1> QED
    BY <1>1, <1>2 DEF Alike

LEMMA AlikeAll ==
  ASSUME NEW S, NEW ts \in Seq(S), NEW more \in Seq(S), \A k \in DOMAIN more : more[k].kind # "load"
  PROVE  Alike(ts \o more, ts)
  <1> DEFINE r == ts \o more
             n == Len(ts)
  <1>1. /\ n \in Nat /\ DOMAIN ts = 1..n
        /\ \A k \in DOMAIN r : (k \in DOMAIN ts /\ r[k] = ts[k]) \/ (\E j \in DOMAIN more : r[k] = more[j])
        /\ \A i \in DOMAIN ts : i \in DOMAIN r /\ r[i] = ts[i]
    OBVIOUS
  <1> HIDE DEF r
  <1>2. \A k \in DOMAIN r : r[k].kind = "load" => k \in DOMAIN ts /\ r[k] = ts[k]
    BY <1>1
  <1>3. Alike(r, ts)
    BY <1>1, <1>2 DEF Alike, OneLoading, Loading, SameLoad
  <1> QED
    BY <1>3 DEF r

LEMMA AlikeMore ==
  ASSUME NEW S, NEW ts \in Seq(S), NEW t, t.kind # "load"
  PROVE  Alike(Append(ts, t), ts)
  <1> DEFINE r == Append(ts, t)
  <1>1. /\ \A k \in DOMAIN r : (k \in DOMAIN ts /\ r[k] = ts[k]) \/ r[k] = t
        /\ \A i \in DOMAIN ts : i \in DOMAIN r /\ r[i] = ts[i]
    OBVIOUS
  <1> HIDE DEF r
  <1>2. \A k \in DOMAIN r : r[k].kind = "load" => k \in DOMAIN ts /\ r[k] = ts[k]
    BY <1>1
  <1>3. Alike(r, ts)
    BY <1>1, <1>2 DEF Alike, OneLoading, Loading, SameLoad
  <1> QED
    BY <1>3 DEF r

LEMMA AlikeFewer ==
  ASSUME NEW S, NEW ts \in Seq(S), NEW i \in DOMAIN ts, ts[i].kind # "load" \/ ts[i].at = "done"
  PROVE  Alike(RemoveAt(ts, i), ts)
  <1> DEFINE r == RemoveAt(ts, i)
  <1>1. /\ \A k \in DOMAIN r : Placed(k, i) \in DOMAIN ts /\ r[k] = ts[Placed(k, i)] /\ Placed(k, i) # i
        /\ \A k, l \in DOMAIN r : Placed(k, i) = Placed(l, i) => k = l
        /\ \A j \in DOMAIN ts : j = i \/ \E k \in DOMAIN r : Placed(k, i) = j
    BY Fewer
  <1> HIDE DEF r
  <1>2. OneLoading(ts) => OneLoading(r)
    BY <1>1 DEF OneLoading
  <1>3. \A k \in DOMAIN r : r[k].kind = "load" => \E j \in DOMAIN ts : SameLoad(r[k], ts[j])
    BY <1>1 DEF SameLoad
  <1>4. ASSUME NEW j \in DOMAIN ts, ts[j].kind = "load"
        PROVE  ts[j].at = "done" \/ \E k \in DOMAIN r : SameLoad(r[k], ts[j])
    BY <1>1, <1>4 DEF SameLoad
  <1> QED
    BY <1>2, <1>3, <1>4 DEF Alike, r

LEMMA AlikeChanged ==
  ASSUME NEW S, NEW ts \in Seq(S), NEW i \in DOMAIN ts, ts[i].kind # "load", NEW t, t.kind # "load"
  PROVE  Alike([ts EXCEPT ![i] = t], ts)
  <1> DEFINE r == [ts EXCEPT ![i] = t]
  <1>1. DOMAIN r = DOMAIN ts /\ \A k \in DOMAIN ts : (k = i /\ r[k] = t) \/ (k # i /\ r[k] = ts[k])
    OBVIOUS
  <1> HIDE DEF r
  <1>2. \A k \in DOMAIN ts : r[k].kind = "load" \/ ts[k].kind = "load" => r[k] = ts[k]
    BY <1>1
  <1>3. Alike(r, ts)
    BY <1>1, <1>2 DEF Alike, OneLoading, Loading, SameLoad
  <1> QED
    BY <1>3 DEF r

LEMMA AlikeLeft ==
  ASSUME NEW ts, NEW ts1, DOMAIN ts1 = DOMAIN ts,
         \A k \in DOMAIN ts : ts1[k].kind = ts[k].kind /\ ts1[k].at = ts[k].at /\ ts1[k].folder = ts[k].folder
  PROVE  Alike(ts1, ts)
  BY DEF Alike, OneLoading, Loading, SameLoad

LEMMA AlikeFollows ==
  ASSUME NEW ts, NEW us, NEW acct, NEW folder, NEW good, Follows(ts, us, acct, folder, good),
         NEW ts1, NEW us1, NEW good1, Alike(ts1, ts), EndsWith(us, acct, folder, good) => EndsWith(us1, acct, folder, good1)
  PROVE  Follows(ts1, us1, acct, folder, good1)
  <1>1. CASE \E i \in DOMAIN ts : Waiting(ts[i])
    <2>1. PICK i \in DOMAIN ts : Waiting(ts[i])
      BY <1>1
    <2>2. PICK k \in DOMAIN ts1 : SameLoad(ts1[k], ts[i])
      BY <2>1 DEF Alike, Waiting
    <2>3. Waiting(ts1[k])
      BY <2>1, <2>2 DEF Waiting, SameLoad
    <2> QED
      BY <2>3 DEF Follows
  <1>2. CASE /\ \A i \in DOMAIN ts : Fetching(ts[i]) => ts[i].folder = folder
             /\ (\E i \in DOMAIN ts : Fetching(ts[i])) \/ EndsWith(us, acct, folder, good)
    <2>1. ASSUME NEW k \in DOMAIN ts1, Fetching(ts1[k]) PROVE ts1[k].folder = folder
      <3>1. PICK i \in DOMAIN ts : SameLoad(ts1[k], ts[i])
        BY <2>1 DEF Alike, Fetching
      <3> QED
        BY <1>2, <2>1, <3>1 DEF SameLoad, Fetching
    <2>2. ASSUME NEW i \in DOMAIN ts, Fetching(ts[i]) PROVE \E k \in DOMAIN ts1 : Fetching(ts1[k])
      <3>1. PICK k \in DOMAIN ts1 : SameLoad(ts1[k], ts[i])
        BY <2>2 DEF Alike, Fetching
      <3> QED
        BY <2>2, <3>1 DEF SameLoad, Fetching
    <2> QED
      BY <1>2, <2>1, <2>2 DEF Follows
  <1> QED
    BY <1>1, <1>2 DEF Follows

LEMMA AlikeLoads ==
  ASSUME OneLoad, Alike(tasks', tasks), UNCHANGED fetching, view'.unified \/ view'.acct # None
  PROVE  OneLoad'
  <1>1. ASSUME NEW k \in DOMAIN tasks', Loading(tasks'[k]) PROVE fetching
    <2>1. PICK i \in DOMAIN tasks : SameLoad(tasks'[k], tasks[i])
      BY <1>1 DEF Alike, Loading
    <2>2. Loading(tasks[i])
      BY <1>1, <2>1 DEF SameLoad, Loading
    <2> QED
      BY <2>2 DEF OneLoad
  <1> QED
    BY <1>1 DEF OneLoad, Alike

\* A step that leaves the loads, and changes the list only when that is in order.
Ends == EndsWith(ui, view.acct, view.folder, Good)
Calm == ~missed /\ ~view.unified /\ view.folder # None
LEMMA AlikeStep ==
  ASSUME OneLoad, FollowsOK, UNCHANGED <<view, fetching, missed>>, Alike(tasks', tasks),
         Calm /\ Ends => Ends'
  PROVE  OneLoad' /\ FollowsOK'
  <1>1. OneLoad'
    BY AlikeLoads DEF OneLoad
  <1>2. ASSUME Calm PROVE Follows(tasks', ui', view.acct, view.folder, Good')
    <2>1. Follows(tasks, ui, view.acct, view.folder, Good)
      BY <1>2 DEF FollowsOK, Calm
    <2>2. EndsWith(ui, view.acct, view.folder, Good) => EndsWith(ui', view.acct, view.folder, Good')
      BY <1>2 DEF Ends
    <2> QED
      BY <2>1, <2>2, AlikeFollows
  <1> QED
    BY <1>1, <1>2 DEF FollowsOK, Calm

LEMMA GoodIs == Good \in BOOLEAN /\ Good' \in BOOLEAN
  BY DEF Good, InBox

\* The closures that are left to run are the same.
LEMMA EndsStay ==
  ASSUME NEW S, NEW us \in Seq(S), NEW acct, NEW folder, NEW good \in BOOLEAN, NEW good1 \in BOOLEAN,
         EndsWith(us, acct, folder, good), good => good1
  PROVE  EndsWith(us, acct, folder, good1)
  BY EndsSame DEF Same

\* The list leaves its array: what is held is behind it, and otherwise the same.
LEMMA LoadsLeave ==
  ASSUME Inv, NEW STATE r, r \in Seq(Closures(Len(list.arr))), LeaveArray(r)
  PROVE  /\ Alike(tasks', tasks)
         /\ \A acct, folder : EndsWith(r, acct, folder, Good') => EndsWith(ui', acct, folder, Good')
  <1> DEFINE N == Len(list.arr)
             Left(x) == [j \in DOMAIN x.ptrs |-> Behind(x.ptrs[j])]
  <1>1. /\ tasks' = [i \in DOMAIN tasks |-> [tasks[i] EXCEPT !.ptrs = Left(tasks[i])]]
        /\ ui' = [i \in DOMAIN r |-> [r[i] EXCEPT !.ptrs = Left(r[i])]]
    BY DEF LeaveArray
  <1>2. tasks \in Seq(Tasks(N)) /\ ui' \in Seq(Closures(0))
    <2>1. HoldersOK(0)'
      BY Known0, HoldersLeave DEF Inv, TypeInv
    <2> QED
      BY <2>1, Known0 DEF HoldersOK
  <1> HIDE DEF Left, N
  <1>3. \A i \in DOMAIN tasks : tasks[i] \in Tasks(N)
    BY <1>2
  <1>4. /\ DOMAIN tasks' = DOMAIN tasks
        /\ \A i \in DOMAIN tasks : /\ tasks'[i].kind = tasks[i].kind /\ tasks'[i].at = tasks[i].at
                                   /\ tasks'[i].folder = tasks[i].folder
    BY <1>1, <1>3 DEF Tasks
  <1>5. Alike(tasks', tasks)
    BY <1>4, AlikeLeft
  <1>6. \A i \in DOMAIN r : r[i] \in Closures(N)
    BY DEF N
  <1>7. Len(ui') = Len(r) /\ \A i \in 1..Len(r) : Same(ui'[i], r[i])
    <2>1. DOMAIN ui' = DOMAIN r
      BY <1>1
    <2>2. DOMAIN r = 1..Len(r) /\ DOMAIN ui' = 1..Len(ui') /\ Len(r) \in Nat /\ Len(ui') \in Nat
      BY <1>2
    <2>3. \A i \in DOMAIN r : Same(ui'[i], r[i])
      BY <1>1, <1>6 DEF Closures, Same
    <2>4. Len(ui') = Len(r)
      BY <2>1, <2>2
    <2> QED
      BY <2>2, <2>3, <2>4
  <1>8. ASSUME NEW acct, NEW folder, EndsWith(r, acct, folder, Good')
        PROVE  EndsWith(ui', acct, folder, Good')
    BY <1>2, <1>7, <1>8, GoodIs, EndsSame
  <1> QED
    BY <1>5, <1>8

LEMMA LeaveStep ==
  ASSUME Inv, OneLoad, FollowsOK, UNCHANGED <<view, fetching, missed>>,
         NEW STATE r, r \in Seq(Closures(Len(list.arr))), LeaveArray(r),
         Calm /\ Ends => EndsWith(r, view.acct, view.folder, Good')
  PROVE  OneLoad' /\ FollowsOK'
  <1>1. /\ Alike(tasks', tasks)
        /\ \A acct, folder : EndsWith(r, acct, folder, Good') => EndsWith(ui', acct, folder, Good')
    BY LoadsLeave
  <1>2. Calm /\ Ends => Ends'
    BY <1>1 DEF Ends
  <1> QED
    BY <1>1, <1>2, AlikeStep

\* The list stays, or stays in order; so do the closures.
LEMMA EndsKept ==
  ASSUME Inv, UNCHANGED <<view, ui>>, Good => Good', Ends
  PROVE  Ends'
  <1>1. ui \in Seq(Closures(Len(list.arr)))
    BY Known0
  <1>2. EndsWith(ui, view.acct, view.folder, Good')
    BY <1>1, GoodIs, EndsStay DEF Ends
  <1> QED
    BY <1>2 DEF Ends

LEMMA SameGood == ASSUME UNCHANGED <<list, view>> PROVE Good' = Good
  BY DEF Good

\* A load is to start.
LEMMA LoadingMore ==
  ASSUME NEW S, NEW ts \in Seq(S), NEW t, ~Loading(t), OneLoading(ts)
  PROVE  /\ OneLoading(Append(ts, t))
         /\ \A k \in DOMAIN Append(ts, t) : Loading(Append(ts, t)[k]) => \E i \in DOMAIN ts : Loading(ts[i])
         /\ Waiting(t) => \E k \in DOMAIN Append(ts, t) : Waiting(Append(ts, t)[k])
  <1> DEFINE r == Append(ts, t)
  <1>1. /\ \A k \in DOMAIN r : (k \in DOMAIN ts /\ r[k] = ts[k]) \/ r[k] = t
        /\ \E k \in DOMAIN r : r[k] = t
    <2>1. Len(ts) + 1 \in DOMAIN r /\ r[Len(ts) + 1] = t
      OBVIOUS
    <2> QED
      BY <2>1
  <1> HIDE DEF r
  <1>2. OneLoading(r)
    BY <1>1 DEF OneLoading
  <1>3. \A k \in DOMAIN r : Loading(r[k]) => \E i \in DOMAIN ts : Loading(ts[i])
    BY <1>1
  <1>4. Waiting(t) => \E k \in DOMAIN r : Waiting(r[k])
    BY <1>1
  <1> QED
    BY <1>2, <1>3, <1>4 DEF r

LEMMA StartStep ==
  ASSUME Inv, OneLoad, NEW STATE t, ~Loading(t), Run(t), UNCHANGED fetching,
         view'.unified \/ view'.acct # None
  PROVE  OneLoad' /\ (Waiting(t) => FollowsOK')
  <1>1. tasks \in Seq(Tasks(Len(list.arr))) /\ OneLoading(tasks)
    BY Known0 DEF OneLoad
  <1>2. /\ OneLoading(tasks')
        /\ \A k \in DOMAIN tasks' : Loading(tasks'[k]) => \E i \in DOMAIN tasks : Loading(tasks[i])
        /\ Waiting(t) => \E k \in DOMAIN tasks' : Waiting(tasks'[k])
    BY <1>1, LoadingMore DEF Run
  <1>3. OneLoad'
    BY <1>2 DEF OneLoad
  <1>4. Waiting(t) => FollowsOK'
    BY <1>2 DEF FollowsOK, Follows
  <1> QED
    BY <1>3, <1>4

LEMMA LoadTask ==
  ASSUME NEW folder, NEW force
  PROVE  Waiting(Task("load", [folder |-> folder, force |-> force]))
  <1> DEFINE fields == [folder |-> folder, force |-> force]
             t == Task("load", fields)
  <1>1. "kind" \notin DOMAIN fields /\ "at" \notin DOMAIN fields
    OBVIOUS
  <1> HIDE DEF fields
  <1>2. TaskHas(t, "load", fields)
    BY <1>1, ANewTask
  <1> HIDE DEF t
  <1>3. t.kind = "load" /\ t.at = "start"
    BY <1>1, <1>2 DEF TaskHas
  <1> QED
    BY <1>3 DEF Waiting, t, fields

LEMMA FolderStep ==
  ASSUME Inv, OneLoad, FollowsOK, NEW STATE folder, NEW STATE force, selectFolder(folder, force),
         UNCHANGED <<list, fetching, missed>>, Calm /\ Ends /\ UNCHANGED view => Ends'
  PROVE  OneLoad' /\ FollowsOK'
  <1>1. CASE UNCHANGED <<view, tasks>>
    <2>1. Alike(tasks', tasks)
      BY <1>1, AlikeSame
    <2> QED
      BY <1>1, <2>1, AlikeStep
  <1>2. CASE view' = [view EXCEPT !.folder = folder] /\ view.acct # None
             /\ Run(Task("load", [folder |-> folder, force |-> force]))
    <2> DEFINE t == Task("load", [folder |-> folder, force |-> force])
    <2>1. Waiting(t) /\ Run(t)
      BY <1>2, LoadTask
    <2> HIDE DEF t
    <2>2. ~Loading(t)
      BY <2>1 DEF Waiting, Loading
    <2>3. view'.acct # None
      BY <1>2, Known0 DEF ViewOK
    <2> QED
      BY <2>1, <2>2, <2>3, StartStep
  <1> QED
    BY <1>1, <1>2 DEF selectFolder

(***************************************************************************)
(* The steps of the user.                                                  *)
(***************************************************************************)
LEMMA FollowsSelecting ==
  ASSUME Inv, OneLoad, FollowsOK,
         \/ selectUnifiedInbox \/ \E a \in Accounts : selectAccount(a)
         \/ \E b \in Boxes : SelectFolder(b[2])
         \/ handleDeletedFolder \/ ToggleSortOrder
  PROVE  OneLoad' /\ FollowsOK'
  <1>1. ui \in Seq(Closures(Len(list.arr))) /\ ViewOK
    BY Known0
  <1>2. CASE selectUnifiedInbox
    <2> DEFINE t == Task("uload", <<>>)
    <2>1. view'.unified /\ Run(t) /\ UNCHANGED fetching
      BY <1>2 DEF selectUnifiedInbox
    <2>2. t.kind = "uload"
      BY TaskKind
    <2> HIDE DEF t
    <2>3. OneLoad'
      BY <2>1, <2>2, StartStep DEF Loading
    <2> QED
      BY <2>1, <2>3 DEF FollowsOK
  <1>3. ASSUME NEW a \in Accounts, selectAccount(a) PROVE OneLoad' /\ FollowsOK'
    <2>1. view'.acct # None /\ view'.folder = None /\ LeaveArray(ui) /\ UNCHANGED fetching
      BY <1>3, WindowAssumption DEF selectAccount
    <2>2. Alike(tasks', tasks)
      BY <1>1, <2>1, LoadsLeave
    <2> QED
      BY <2>1, <2>2, AlikeLoads DEF FollowsOK
  <1>4. ASSUME NEW b \in Boxes, SelectFolder(b[2]) PROVE OneLoad' /\ FollowsOK'
    <2>1. selectFolder(b[2], FALSE) /\ UNCHANGED <<list, ui, fetching, missed>>
      BY <1>4 DEF SelectFolder, history
    <2>2. UNCHANGED view /\ Ends => Ends'
      BY <2>1, SameGood, EndsKept
    <2> QED
      BY <2>1, <2>2, FolderStep
  <1>5. CASE handleDeletedFolder
    <2> DEFINE c == Closure("fallback", [folder |-> view.folder])
               r == Append(ui, c)
    <2>1. LeaveArray(r) /\ UNCHANGED <<view, fetching, missed>> /\ list' = Listed({})
      BY <1>5 DEF handleDeletedFolder, history
    <2>2. c \in Closures(Len(list.arr)) /\ c.kind = "fallback"
      <3>1. "fallback" \in {"failed", "uempty", "deselect", "moved", "reselect", "fallback"}
        OBVIOUS
      <3> QED
        BY <3>1, Known0, ClosureOf, ClosureKind
    <2> HIDE DEF c
    <2>3. Good'
      BY <2>1, NoneInBox DEF Good
    <2>4. c.kind \notin OfFolder
      BY <2>2 DEF OfFolder
    <2>5. r \in Seq(Closures(Len(list.arr)))
      BY <1>1, <2>2
    <2>6. ASSUME Ends PROVE EndsWith(r, view.acct, view.folder, Good')
      <3>1. EndsWith(ui, view.acct, view.folder, Good')
        BY <1>1, <2>3, <2>6, GoodIs, EndsStay DEF Ends
      <3> QED
        BY <1>1, <2>4, <3>1, GoodIs, EndsMore
    <2> HIDE DEF r
    <2> QED
      BY <2>1, <2>5, <2>6, LeaveStep
  <1>6. CASE ToggleSortOrder
    <2>1. UNCHANGED <<view, fetching, missed, tasks, ui>>
      BY <1>6 DEF ToggleSortOrder, running
    <2>2. Good => Good'
      BY <1>6, <2>1, ToggledInBox DEF Good
    <2>3. Calm /\ Ends => Ends'
      BY <2>1, <2>2, EndsKept
    <2>4. Alike(tasks', tasks)
      BY <2>1, AlikeSame
    <2> QED
      BY <2>1, <2>3, <2>4, AlikeStep
  <1> QED
    BY <1>2, <1>3, <1>4, <1>5, <1>6

\* A goroutine is started, or nothing is done.
LEMMA FollowsRunning ==
  ASSUME Inv, OneLoad, FollowsOK, UNCHANGED <<view, list, ui, fetching, missed>>,
         UNCHANGED tasks \/ \E t : t.kind # "load" /\ Run(t)
  PROVE  OneLoad' /\ FollowsOK'
  <1>1. Ends => Ends'
    BY SameGood, EndsKept
  <1>2. tasks \in Seq(Tasks(Len(list.arr)))
    BY Known0
  <1>3. Alike(tasks', tasks)
    <2>1. CASE UNCHANGED tasks
      BY <2>1, AlikeSame
    <2>2. ASSUME NEW t, t.kind # "load", Run(t) PROVE Alike(tasks', tasks)
      BY <1>2, <2>2, AlikeMore DEF Run
    <2> QED
      BY <2>1, <2>2
  <1> QED
    BY <1>1, <1>3, AlikeStep

LEMMA FollowsCommanding ==
  ASSUME Inv, OneLoad, FollowsOK,
         \/ \E i \in 1..list.n, ctrl, shift \in BOOLEAN : Tapped(i, ctrl, shift)
         \/ \E i \in 1..list.n, ctrl \in BOOLEAN : TappedSecondary(i, ctrl)
         \/ selectAllMessages \/ clearSelection
         \/ moveToTrash \/ deleteMessage \/ moveToFolder \/ Confirm \/ Cancel
         \/ \E m \in Messages : NewMail(m)
  PROVE  OneLoad' /\ FollowsOK'
  <1>1. UNCHANGED <<view, list, ui, fetching, missed>>
    BY DEF Tapped, TappedSecondary, selectAllMessages, clearSelection, moveToTrash, deleteMessage, moveToFolder,
           Confirm, Cancel, NewMail, running, history
  <1>2. ASSUME NEW kind, NEW fields, kind # "load", "kind" \notin DOMAIN fields, Run(Task(kind, fields))
        PROVE  \E t : t.kind # "load" /\ Run(t)
    BY <1>2, TaskKind
  <1>3. ASSUME NEW ptrs, NEW want, NEW how, Run(Task("op", [ptrs |-> ptrs, want |-> want, how |-> how]))
        PROVE  \E t : t.kind # "load" /\ Run(t)
    <2>1. "kind" \notin DOMAIN [ptrs |-> ptrs, want |-> want, how |-> how]
      OBVIOUS
    <2> QED
      BY <1>2, <1>3, <2>1
  <1>4. CASE moveToTrash
    <2> DEFINE want == Named(Deref(picked))
    <2>1. UNCHANGED tasks \/ Run(Task("op", [ptrs |-> <<picked>>, want |-> want, how |-> "trash"]))
      BY <1>4 DEF moveToTrash
    <2> HIDE DEF want
    <2>2. UNCHANGED tasks \/ \E t : t.kind # "load" /\ Run(t)
      BY <1>3, <2>1
    <2> QED
      BY <1>1, <2>2, FollowsRunning
  <1>5. CASE Confirm
    <2> DEFINE q == dialog[1]
    <2>1. \/ UNCHANGED tasks
          \/ Run(Task("batch", [ptrs |-> q.ptrs, want |-> q.want]))
          \/ Run(Task("op", [ptrs |-> <<picked>>, want |-> q.want, how |-> q.how]))
      BY <1>5 DEF Confirm
    <2>2. "kind" \notin DOMAIN [ptrs |-> q.ptrs, want |-> q.want]
      OBVIOUS
    <2>3. UNCHANGED tasks \/ \E t : t.kind # "load" /\ Run(t)
      BY <1>2, <1>3, <2>1, <2>2
    <2> QED
      BY <1>1, <2>3, FollowsRunning
  <1>6. ASSUME NEW m \in Messages, NewMail(m) PROVE OneLoad' /\ FollowsOK'
    <2> DEFINE fields == [acct |-> m.acct, folder |-> m.folder, msgs |-> {m}]
    <2>1. Run(Task("announce", fields)) /\ "kind" \notin DOMAIN fields
      BY <1>6 DEF NewMail
    <2> HIDE DEF fields
    <2>2. \E t : t.kind # "load" /\ Run(t)
      BY <1>2, <2>1
    <2> QED
      BY <1>1, <2>2, FollowsRunning
  <1>7. CASE UNCHANGED tasks
    BY <1>1, <1>7, FollowsRunning
  <1> QED
    BY <1>4, <1>5, <1>6, <1>7 DEF Tapped, TappedSecondary, selectAllMessages, clearSelection, deleteMessage,
       moveToFolder, Cancel, running

(***************************************************************************)
(* The steps of the goroutines.                                            *)
(***************************************************************************)
LEMMA EndsLonger ==
  ASSUME Inv, UNCHANGED <<view, list>>, NEW STATE c, Do(c), c.kind \in OfFolder => From(c, view.acct, view.folder),
         c.kind \in Shows \/ Ends
  PROVE  Ends'
  <1>1. ui \in Seq(Closures(Len(list.arr))) /\ ui' = Append(ui, c)
    BY Known0 DEF Do
  <1>2. EndsWith(ui', view.acct, view.folder, Good)
    BY <1>1, GoodIs, EndsMore DEF Ends
  <1> QED
    BY <1>2, SameGood DEF Ends

LEMMA LoadingFewer ==
  ASSUME NEW S, NEW ts \in Seq(S), NEW i \in DOMAIN ts, OneLoading(ts)
  PROVE  /\ OneLoading(RemoveAt(ts, i))
         /\ \A k \in DOMAIN RemoveAt(ts, i) :
              Loading(RemoveAt(ts, i)[k]) => ~Loading(ts[i]) /\ \E j \in DOMAIN ts : Loading(ts[j])
  <1> DEFINE r == RemoveAt(ts, i)
  <1>1. /\ \A k \in DOMAIN r : Placed(k, i) \in DOMAIN ts /\ r[k] = ts[Placed(k, i)] /\ Placed(k, i) # i
        /\ \A k, l \in DOMAIN r : Placed(k, i) = Placed(l, i) => k = l
    BY Fewer
  <1> HIDE DEF r
  <1>2. OneLoading(r)
    BY <1>1 DEF OneLoading
  <1>3. \A k \in DOMAIN r : Loading(r[k]) => ~Loading(ts[i]) /\ \E j \in DOMAIN ts : Loading(ts[j])
    BY <1>1 DEF OneLoading
  <1> QED
    BY <1>2, <1>3 DEF r

LEMMA LoadSet ==
  ASSUME NEW N, NEW ts \in Seq(Tasks(N)), NEW i \in DOMAIN ts, ts[i].kind = "load", NEW at
  PROVE  LET r == [ts EXCEPT ![i].at = at]
         IN  /\ DOMAIN r = DOMAIN ts
             /\ \A k \in DOMAIN ts : k # i => r[k] = ts[k]
             /\ r[i].kind = "load" /\ r[i].at = at /\ r[i].folder = ts[i].folder
  <1> DEFINE t == [ts[i] EXCEPT !.at = at]
             r == [ts EXCEPT ![i] = t]
  <1>1. ts[i] \in Tasks(N)
    OBVIOUS
  <1>2. t.kind = "load" /\ t.at = at /\ t.folder = ts[i].folder
    BY <1>1 DEF Tasks
  <1>3. [ts EXCEPT ![i].at = at] = r
    BY Zenon
  <1> HIDE DEF t
  <1>4. DOMAIN r = DOMAIN ts /\ r[i] = t /\ \A k \in DOMAIN ts : k # i => r[k] = ts[k]
    OBVIOUS
  <1> HIDE DEF r
  <1>5. /\ DOMAIN r = DOMAIN ts
        /\ \A k \in DOMAIN ts : k # i => r[k] = ts[k]
        /\ r[i].kind = "load" /\ r[i].at = at /\ r[i].folder = ts[i].folder
    BY <1>2, <1>4
  <1> QED
    BY <1>3, <1>5, Zenon

\* A load starts when no other is under way.
LEMMA FollowsLoadStart ==
  ASSUME Inv, OneLoad, FollowsOK, NEW i \in DOMAIN tasks, LoadStart(i)
  PROVE  OneLoad' /\ FollowsOK'
  <1> DEFINE N == Len(list.arr)
             t == tasks[i]
             hit == IF <<view.acct, t.folder>> \in Boxes THEN cache[<<view.acct, t.folder>>] ELSE NotCached
             fields == [folder |-> t.folder, msgs |-> hit.msgs]
             c == Closure("show", fields)
             at == IF hit.found /\ ~t.force THEN "done" ELSE "fetch"
  <1>1. UNCHANGED <<view, list>> /\ t.kind = "load" /\ t.at = "start"
    BY DEF LoadStart, Is
  <1>2. \/ fetching /\ end(i, <<>>) /\ missed' /\ UNCHANGED fetching
        \/ /\ ~fetching /\ fetching' /\ missed' = (missed \/ t.folder # view.folder)
           /\ tasks' = [tasks EXCEPT ![i].at = at]
           /\ at = "done" => Do(c)
    BY DEF LoadStart
  <1>7. \A m \in hit.msgs : m.acct = view.acct
    <2>1. CASE <<view.acct, t.folder>> \in Boxes
      <3>1. \A m \in hit.msgs : <<m.acct, m.folder>> = <<view.acct, t.folder>>
        BY <2>1, Known0 DEF ServerOK
      <3> QED
        BY <3>1
    <2>2. CASE <<view.acct, t.folder>> \notin Boxes
      BY <2>2 DEF NotCached
    <2> QED
      BY <2>1, <2>2
  <1>3. tasks \in Seq(Tasks(N)) /\ OneLoading(tasks)
    BY Known0 DEF OneLoad
  <1>4. CASE fetching /\ end(i, <<>>) /\ missed' /\ UNCHANGED fetching
    <2>1. RemoveAt(tasks, i) \in Seq(Tasks(N)) /\ OneLoading(RemoveAt(tasks, i))
      BY <1>3, Fewer, LoadingFewer
    <2> HIDE DEF N
    <2>2. tasks' = RemoveAt(tasks, i)
      BY <1>4, <2>1 DEF end
    <2> QED
      BY <1>1, <1>4, <2>1, <2>2 DEF OneLoad, FollowsOK
  <1>6. CASE /\ ~fetching /\ fetching' /\ missed' = (missed \/ t.folder # view.folder)
             /\ tasks' = [tasks EXCEPT ![i].at = at]
             /\ at = "done" => Do(c)
    <2>1. at \in {"done", "fetch"}
      OBVIOUS
    <2>2. /\ "kind" \notin DOMAIN fields /\ "folder" \in DOMAIN fields /\ "msgs" \in DOMAIN fields
          /\ fields["folder"] = t.folder /\ fields["msgs"] = hit.msgs
      OBVIOUS
    <2> HIDE DEF at, hit, fields
    <2>3. c.kind = "show" /\ c.folder = t.folder /\ c.msgs = hit.msgs
      <3>1. ClosureHas(c, "show", fields)
        BY <2>2, ANewClosure
      <3> HIDE DEF c
      <3> QED
        BY <2>2, <3>1 DEF ClosureHas
    <2> HIDE DEF c
    <2> DEFINE r == [tasks EXCEPT ![i].at = at]
    <2>4. /\ DOMAIN r = DOMAIN tasks
          /\ \A k \in DOMAIN tasks : k # i => r[k] = tasks[k]
          /\ r[i].kind = "load" /\ r[i].at = at /\ r[i].folder = t.folder
      <3>1. LET s == [tasks EXCEPT ![i].at = at]
            IN  /\ DOMAIN s = DOMAIN tasks
                /\ \A k \in DOMAIN tasks : k # i => s[k] = tasks[k]
                /\ s[i].kind = "load" /\ s[i].at = at /\ s[i].folder = tasks[i].folder
        BY <1>1, <1>3, LoadSet
      <3> QED
        BY <3>1, Zenon
    <2>5. tasks' = r
      BY <1>6
    <2> HIDE DEF r
    <2>6. \A k \in DOMAIN tasks : ~Loading(tasks[k])
      BY <1>6 DEF OneLoad
    <2>7. \A k \in DOMAIN r : Loading(r[k]) => k = i
      BY <2>4, <2>6
    <2>8. OneLoad'
      BY <1>1, <1>6, <2>5, <2>7 DEF OneLoad, OneLoading
    <2>9. ASSUME Calm' PROVE Follows(tasks', ui', view.acct, view.folder, Good')
      <3>1. t.folder = view.folder
        BY <1>6, <2>9 DEF Calm
      <3>2. \A k \in DOMAIN r : Fetching(r[k]) => r[k].folder = view.folder
        BY <2>4, <2>7, <3>1 DEF Fetching, Loading
      <3>3. CASE at = "fetch"
        <4>1. Fetching(r[i]) /\ i \in DOMAIN r
          BY <2>4, <3>3 DEF Fetching
        <4> QED
          BY <2>5, <3>2, <4>1 DEF Follows
      <3>4. CASE at = "done"
        <4>1. Do(c) /\ c.kind \in Shows
          BY <1>6, <2>3, <3>4 DEF Shows
        <4>2. Ends'
          BY <1>1, <1>7, <2>3, <3>1, <4>1, EndsLonger DEF From
        <4>3. EndsWith(ui', view.acct, view.folder, Good')
          BY <1>1, <4>2 DEF Ends
        <4> QED
          BY <2>5, <3>2, <4>3 DEF Follows
      <3> QED
        BY <2>1, <3>3, <3>4
    <2>10. FollowsOK'
      BY <1>1, <2>9 DEF FollowsOK, Calm
    <2> QED
      BY <2>8, <2>10
  <1> QED
    BY <1>2, <1>4, <1>6

\* Nothing is left when the process ends, which only the unified inbox allows.
LEMMA FollowsCrash ==
  ASSUME Inv, OneLoad, FollowsOK, NEW i \in DOMAIN tasks, LoadCrash(i)
  PROVE  OneLoad' /\ FollowsOK'
  <1>1. view.acct = None /\ tasks' = <<>> /\ UNCHANGED <<view, fetching, missed>>
    BY DEF LoadCrash
  <1>2. view.unified
    BY <1>1 DEF OneLoad
  <1> QED
    BY <1>1, <1>2 DEF OneLoad, OneLoading, FollowsOK

\* The answer of the one load under way is shown last.
LEMMA FollowsLoadFetch ==
  ASSUME Inv, OneLoad, FollowsOK, NEW i \in DOMAIN tasks, LoadFetch(i)
  PROVE  OneLoad' /\ FollowsOK'
  <1> DEFINE N == Len(list.arr)
             t == tasks[i]
             fields == [folder |-> t.folder, msgs |-> In(view.client, t.folder)]
             c == Closure("fresh", fields)
             r == [tasks EXCEPT ![i].at = "done"]
  <1>1. /\ UNCHANGED <<view, list, fetching>> /\ t.kind = "load" /\ t.at = "fetch" /\ tasks' = r
        /\ (Do(c) /\ UNCHANGED missed) \/ missed'
    BY DEF LoadFetch, Is, history
  <1>2. tasks \in Seq(Tasks(N)) /\ OneLoading(tasks)
    BY Known0 DEF OneLoad
  <1>3. /\ "kind" \notin DOMAIN fields /\ "folder" \in DOMAIN fields /\ "msgs" \in DOMAIN fields
        /\ fields["folder"] = t.folder /\ fields["msgs"] = In(view.client, t.folder)
    OBVIOUS
  <1> HIDE DEF fields
  <1>4. c.kind = "fresh" /\ c.folder = t.folder /\ c.msgs = In(view.client, t.folder)
    <2>1. ClosureHas(c, "fresh", fields)
      BY <1>3, ANewClosure
    <2> HIDE DEF c
    <2> QED
      BY <1>3, <2>1 DEF ClosureHas
  <1> HIDE DEF c
  <1>5. /\ DOMAIN r = DOMAIN tasks
        /\ \A k \in DOMAIN tasks : k # i => r[k] = tasks[k]
        /\ r[i].kind = "load" /\ r[i].at = "done" /\ r[i].folder = t.folder
    <2>1. LET s == [tasks EXCEPT ![i].at = "done"]
          IN  /\ DOMAIN s = DOMAIN tasks
              /\ \A k \in DOMAIN tasks : k # i => s[k] = tasks[k]
              /\ s[i].kind = "load" /\ s[i].at = "done" /\ s[i].folder = tasks[i].folder
      BY <1>1, <1>2, LoadSet
    <2> QED
      BY <2>1, Zenon
  <1> HIDE DEF r
  <1>6. Loading(t) /\ Fetching(t)
    BY <1>1 DEF Loading, Fetching
  <1>7. \A k \in DOMAIN r : Loading(r[k]) => k = i /\ Loading(tasks[k])
    BY <1>2, <1>5, <1>6 DEF OneLoading
  <1>8. OneLoad'
    BY <1>1, <1>5, <1>7 DEF OneLoad, OneLoading
  <1>9. \A k \in DOMAIN r : ~Fetching(r[k])
    BY <1>5, <1>7 DEF Fetching, Loading
  <1>10. ASSUME Calm' PROVE Follows(tasks', ui', view.acct, view.folder, Good')
    <2>1. Do(c) /\ Calm
      BY <1>1, <1>10 DEF Calm
    <2>2. Follows(tasks, ui, view.acct, view.folder, Good)
      BY <2>1 DEF FollowsOK, Calm
    <2>3. CASE \E k \in DOMAIN tasks : Waiting(tasks[k])
      <3>1. PICK k \in DOMAIN tasks : Waiting(tasks[k])
        BY <2>3
      <3>2. k # i
        BY <1>1, <3>1 DEF Waiting
      <3>3. k \in DOMAIN r /\ Waiting(r[k])
        BY <1>5, <3>1, <3>2
      <3> QED
        BY <1>1, <3>3 DEF Follows
    <2>4. CASE \A k \in DOMAIN tasks : Fetching(tasks[k]) => tasks[k].folder = view.folder
      <3>1. From(c, view.acct, view.folder) /\ c.kind \in Shows
        <4>1. view.acct = view.client
          BY <2>1, Known0 DEF Calm, OneLoad, ViewOK
        <4> QED
          BY <1>4, <1>6, <2>4, <4>1 DEF Shows, From, In
      <3>2. Ends'
        BY <1>1, <2>1, <3>1, EndsLonger
      <3>3. EndsWith(ui', view.acct, view.folder, Good')
        BY <1>1, <3>2 DEF Ends
      <3> QED
        BY <1>1, <1>9, <3>3 DEF Follows
    <2> QED
      BY <2>2, <2>3, <2>4 DEF Follows
  <1>11. FollowsOK'
    BY <1>1, <1>10 DEF FollowsOK, Calm
  <1> QED
    BY <1>8, <1>11

LEMMA FollowsLoadEnd ==
  ASSUME Inv, OneLoad, FollowsOK, NEW i \in DOMAIN tasks, LoadEnd(i)
  PROVE  OneLoad' /\ FollowsOK'
  <1> DEFINE N == Len(list.arr)
  <1>1. /\ UNCHANGED <<view, list, ui, missed>> /\ end(i, <<>>)
        /\ tasks[i].kind = "load" /\ tasks[i].at = "done"
    BY DEF LoadEnd, Is, history
  <1>2. tasks \in Seq(Tasks(N)) /\ OneLoading(tasks)
    BY Known0 DEF OneLoad
  <1>3. /\ RemoveAt(tasks, i) \in Seq(Tasks(N)) /\ OneLoading(RemoveAt(tasks, i))
        /\ \A k \in DOMAIN RemoveAt(tasks, i) : Loading(RemoveAt(tasks, i)[k]) => ~Loading(tasks[i])
        /\ Alike(RemoveAt(tasks, i), tasks)
    BY <1>1, <1>2, Fewer, LoadingFewer, AlikeFewer
  <1> HIDE DEF N
  <1>4. tasks' = RemoveAt(tasks, i)
    BY <1>1, <1>3 DEF end
  <1>5. Loading(tasks[i])
    BY <1>1 DEF Loading
  <1>6. OneLoad'
    BY <1>1, <1>3, <1>4, <1>5 DEF OneLoad
  <1>7. ASSUME Calm' PROVE Follows(tasks', ui', view.acct, view.folder, Good')
    <2>1. Follows(tasks, ui, view.acct, view.folder, Good)
      BY <1>1, <1>7 DEF FollowsOK, Calm
    <2>2. Good' = Good /\ ui' = ui
      BY <1>1, SameGood
    <2> QED
      BY <1>3, <1>4, <2>1, <2>2, AlikeFollows
  <1>8. FollowsOK'
    BY <1>1, <1>7 DEF FollowsOK, Calm
  <1> QED
    BY <1>6, <1>8

\* The other goroutines leave the loads, and merge mail of the folder shown only.
LEMMA FollowsGoroutine ==
  ASSUME Inv, OneLoad, FollowsOK, NEW i \in DOMAIN tasks,
         \/ UnifiedStart(i) \/ UnifiedFetch(i) \/ UnifiedEnd(i)
         \/ OpStart(i) \/ OpCall(i) \/ BatchCall(i)
         \/ Lift(i) \/ SelectNext(i) \/ Refresh(i) \/ Announce(i)
  PROVE  OneLoad' /\ FollowsOK'
  <1> DEFINE t == tasks[i]
             N == Len(list.arr)
  <1>1. UNCHANGED <<view, list, fetching, missed>> /\ t.kind # "load"
    BY DEF UnifiedStart, UnifiedFetch, UnifiedEnd, OpStart, OpCall, BatchCall, Lift, SelectNext, Refresh, Announce, Is,
       history
  <1>2. tasks \in Seq(Tasks(N)) /\ ui \in Seq(Closures(N)) /\ t \in Tasks(N)
    <2>1. tasks \in Seq(Tasks(N)) /\ ui \in Seq(Closures(N))
      BY Known0
    <2> QED
      BY <2>1
  <1>3. ASSUME Alike(tasks', tasks), UNCHANGED ui \/ (Calm /\ Ends => Ends') PROVE OneLoad' /\ FollowsOK'
    <2>1. UNCHANGED ui => (Ends => Ends')
      BY <1>1, SameGood, EndsKept
    <2> QED
      BY <1>1, <1>3, <2>1, AlikeStep
  <1> DEFINE others == {"failed", "ucached", "uall", "uempty", "inject", "removed", "next", "deselect", "moved",
                        "reselect"}
  <1>4. ASSUME NEW kind \in others, NEW STATE fields, "kind" \notin DOMAIN fields, Do(Closure(kind, fields))
        PROVE  Ends => Ends'
    <2> DEFINE c == Closure(kind, fields)
    <2>1. c.kind = kind
      BY <1>4, ClosureKind
    <2>2. Do(c)
      BY <1>4
    <2> HIDE DEF c
    <2>3. c.kind \notin OfFolder
      BY <2>1 DEF OfFolder
    <2> QED
      BY <1>1, <2>2, <2>3, EndsLonger
  <1>5. ASSUME NEW STATE x, NEW STATE n,
               \/ Do(Closure("uempty", <<>>)) \/ Do(Closure("moved", <<>>)) \/ Do(Closure("deselect", <<>>))
               \/ Do(Closure("ucached", [msgs |-> x])) \/ Do(Closure("uall", [msgs |-> x]))
               \/ Do(Closure("inject", [msgs |-> x]))
               \/ Do(Closure("removed", [ptrs |-> x, index |-> n]))
               \/ Do(Closure("next", [index |-> x])) \/ Do(Closure("reselect", [folder |-> x]))
        PROVE  Ends => Ends'
    <2>1. /\ "kind" \notin DOMAIN <<>> /\ "kind" \notin DOMAIN [msgs |-> x]
          /\ "kind" \notin DOMAIN [ptrs |-> x, index |-> n]
          /\ "kind" \notin DOMAIN [index |-> x] /\ "kind" \notin DOMAIN [folder |-> x]
      OBVIOUS
    <2> QED
      BY <1>4, <1>5, <2>1
  <1>6. ASSUME NEW u, u.kind # "load", tasks' = [tasks EXCEPT ![i] = u] PROVE Alike(tasks', tasks)
    BY <1>1, <1>2, <1>6, AlikeChanged
  <1>7. ASSUME NEW more \in Seq(Tasks(N)), \A k \in DOMAIN more : more[k].kind # "load",
               tasks' = RemoveAt(tasks, i) \o more
        PROVE  Alike(tasks', tasks)
    <2>1. RemoveAt(tasks, i) \in Seq(Tasks(N)) /\ Alike(RemoveAt(tasks, i), tasks)
      BY <1>1, <1>2, Fewer, AlikeFewer
    <2> DEFINE r == RemoveAt(tasks, i)
    <2> HIDE DEF r, N
    <2>2. r \in Seq(Tasks(N)) /\ Alike(r, tasks) /\ tasks' = r \o more
      BY <1>7, <2>1 DEF r
    <2>3. Alike(r \o more, r)
      BY <1>7, <2>2, AlikeAll
    <2> QED
      BY <2>2, <2>3, AlikeTwice
  <1>8. ASSUME end(i, <<>>) PROVE Alike(tasks', tasks)
    <2>1. <<>> \in Seq(Tasks(N)) /\ \A k \in DOMAIN <<>> : <<>>[k].kind # "load"
      OBVIOUS
    <2>2. tasks' = RemoveAt(tasks, i) \o <<>>
      BY <1>8 DEF end
    <2> QED
      BY <1>7, <2>1, <2>2
  <1>9. CASE UnifiedStart(i)
    <2> DEFINE u == [t EXCEPT !.at = "fetch", !.want = Accounts]
               msgs == UNION {cache[<<a, Inbox>>].msgs : a \in {b \in Inboxes : cache[<<b, Inbox>>].found}}
    <2>1. tasks' = [tasks EXCEPT ![i] = u]
      <3>1. tasks' = [tasks EXCEPT ![i].at = "fetch", ![i].want = Accounts]
        BY <1>9 DEF UnifiedStart
      <3> QED
        BY <3>1, <1>2
    <2>2. u.kind # "load"
      BY <1>1, <1>2 DEF Tasks
    <2> HIDE DEF u
    <2>3. Do(Closure("uempty", <<>>)) \/ Do(Closure("ucached", [msgs |-> msgs]))
      BY <1>9 DEF UnifiedStart
    <2> HIDE DEF msgs
    <2>4. Ends => Ends'
      BY <1>5, <2>3
    <2> QED
      BY <1>3, <1>6, <2>1, <2>2, <2>4
  <1>10. CASE UnifiedFetch(i)
    <2>1. PICK a \in t.want : \/ tasks' = [tasks EXCEPT ![i].want = @ \ {a}, ![i].msgs = @ \cup In(a, Inbox)]
                              \/ tasks' = [tasks EXCEPT ![i].want = @ \ {a}]
      BY <1>10 DEF UnifiedFetch
    <2> DEFINE u1 == [t EXCEPT !.want = @ \ {a}, !.msgs = @ \cup In(a, Inbox)]
               u2 == [t EXCEPT !.want = @ \ {a}]
    <2>2. tasks' = [tasks EXCEPT ![i] = u1] \/ tasks' = [tasks EXCEPT ![i] = u2]
      BY <1>2, <2>1
    <2>3. u1.kind # "load" /\ u2.kind # "load"
      BY <1>1, <1>2 DEF Tasks
    <2> HIDE DEF u1, u2
    <2>4. UNCHANGED ui
      BY <1>10 DEF UnifiedFetch
    <2> QED
      BY <1>3, <1>6, <2>2, <2>3, <2>4
  <1>11. CASE UnifiedEnd(i)
    BY <1>3, <1>5, <1>8, <1>11 DEF UnifiedEnd
  <1>12. CASE OpStart(i)
    <2> DEFINE u == [t EXCEPT !.at = "call"]
    <2>1. tasks' = [tasks EXCEPT ![i].at = "call"] /\ UNCHANGED ui
      BY <1>12 DEF OpStart
    <2>2. tasks' = [tasks EXCEPT ![i] = u]
      BY <2>1, Zenon
    <2>3. u.kind # "load"
      BY <1>1, <1>2 DEF Tasks
    <2> HIDE DEF u
    <2> QED
      BY <1>3, <1>6, <2>1, <2>2, <2>3
  <1>13. CASE OpCall(i)
    <2>1. PICK ok \in BOOLEAN :
            LET refresh == IF ok /\ ~(view.unified /\ t.how # "move")
                           THEN <<Task("refresh", [folder |-> view.folder])>> ELSE <<>>
            IN  /\ end(i, lifting(t, ok) \o refresh)
                /\ CASE ok /\ t.how = "move" -> Do(Closure("moved", <<>>))
                     [] ok /\ t.how # "move" /\ view.unified ->
                          Do(Closure("removed",
                                     [ptrs |-> t.ptrs, index |-> IF t.how = "trash" THEN 1 ELSE 0]))
                     [] OTHER -> UNCHANGED ui
      BY <1>13 DEF OpCall
    <2> DEFINE refresh == IF ok /\ ~(view.unified /\ t.how # "move")
                          THEN <<Task("refresh", [folder |-> view.folder])>> ELSE <<>>
               more == lifting(t, ok) \o refresh
               index == IF t.how = "trash" THEN 1 ELSE 0
    <2>2. /\ end(i, more)
          /\ \/ UNCHANGED ui \/ Do(Closure("moved", <<>>))
             \/ Do(Closure("removed", [ptrs |-> t.ptrs, index |-> index]))
      BY <2>1
    <2> HIDE DEF index
    <2>3. UNCHANGED ui \/ (Ends => Ends')
      BY <1>5, <2>2
    <2>4. more \in Seq(Tasks(N)) /\ \A k \in DOMAIN more : more[k].kind # "load"
      <3> DEFINE a == Deref(t.ptrs[1]).acct
                 x == Task("lift", [acct |-> a])
                 y == Task("refresh", [folder |-> view.folder])
      <3>1. t.ptrs \in Seq(Held(N)) /\ t.ptrs # <<>>
        BY <1>2, <1>13 DEF Tasks, OpCall, Is
      <3>2. a \in Accounts
        BY <3>1, Known0, FirstPointer
      <3> HIDE DEF a
      <3>3. x \in Tasks(N) /\ y \in Tasks(N)
        <4>1. "lift" \in TaskKinds /\ {} \in SUBSET Messages /\ <<>> \in Seq(Held(N)) /\ Inbox \in Folders
              /\ {} \in SUBSET (Messages \cup Accounts)
          BY DEF TaskKinds, Folders
        <4>2. x \in Tasks(N)
          BY <3>2, <4>1, Known0, TaskOf
        <4>3. y \in Tasks(N)
          BY Known0, LoadTasks
        <4> QED
          BY <4>2, <4>3
      <3>4. x.kind = "lift" /\ y.kind = "refresh"
        BY TaskKind
      <3>5. lifting(t, ok) = <<x>> \/ lifting(t, ok) = <<>>
        BY DEF lifting, a
      <3>6. refresh = <<y>> \/ refresh = <<>>
        OBVIOUS
      <3> HIDE DEF x, y, refresh
      <3> DEFINE S == Tasks(N)
      <3> HIDE DEF S
      <3>7. lifting(t, ok) \in Seq(S) /\ refresh \in Seq(S)
        <4>1. x \in S /\ y \in S
          BY <3>3 DEF S
        <4>2. <<x>> \in Seq(S) /\ <<y>> \in Seq(S) /\ <<>> \in Seq(S)
          BY <4>1
        <4> QED
          BY <3>5, <3>6, <4>2
      <3>8. more \in Seq(S) /\ \A k \in DOMAIN more : more[k] = x \/ more[k] = y
        BY <3>5, <3>6, <3>7
      <3> QED
        BY <3>4, <3>8 DEF S
    <2>5. tasks' = RemoveAt(tasks, i) \o more
      BY <2>2 DEF end
    <2> HIDE DEF more
    <2>6. Alike(tasks', tasks)
      BY <1>7, <2>4, <2>5
    <2> QED
      BY <1>3, <2>3, <2>6
  <1>14. CASE BatchCall(i)
    <2>1. CASE t.ptrs = <<>>
      <3>1. Do(Closure("deselect", <<>>)) /\ end(i, <<>>)
        BY <1>14, <2>1 DEF BatchCall
      <3> QED
        BY <1>3, <1>5, <1>8, <3>1
    <2>2. CASE t.ptrs # <<>>
      <3> DEFINE u == [t EXCEPT !.ptrs = Tail(@)]
      <3>1. tasks' = [tasks EXCEPT ![i].ptrs = Tail(@)] /\ UNCHANGED ui
        BY <1>14, <2>2 DEF BatchCall
      <3>2. tasks' = [tasks EXCEPT ![i] = u]
        BY <3>1, Zenon
      <3>3. u.kind # "load"
        BY <1>1, <1>2 DEF Tasks
      <3> HIDE DEF u
      <3> QED
        BY <1>3, <1>6, <3>1, <3>2, <3>3
    <2> QED
      BY <2>1, <2>2
  <1>15. CASE Lift(i) \/ SelectNext(i) \/ Refresh(i)
    <2>1. end(i, <<>>)
      BY <1>15 DEF Lift, SelectNext, Refresh
    <2>2. UNCHANGED ui \/ (Ends => Ends')
      BY <1>5, <1>15 DEF Lift, SelectNext, Refresh
    <2> QED
      BY <1>3, <1>8, <2>1, <2>2
  <1>16. CASE Announce(i)
    <2> DEFINE fields == [folder |-> t.folder, msgs |-> t.msgs]
               c == Closure("arrived", fields)
    <2>1. /\ end(i, <<>>)
          /\ \/ UNCHANGED ui
             \/ Do(Closure("inject", [msgs |-> t.msgs]))
             \/ t.acct = view.client /\ t.folder = view.folder /\ Do(c)
      BY <1>16 DEF Announce, monitors
    <2>2. /\ "kind" \notin DOMAIN fields /\ "folder" \in DOMAIN fields /\ "msgs" \in DOMAIN fields
          /\ fields["folder"] = t.folder /\ fields["msgs"] = t.msgs
      OBVIOUS
    <2> HIDE DEF fields
    <2>3. c.kind = "arrived" /\ c.folder = t.folder /\ c.msgs = t.msgs
      <3>1. ClosureHas(c, "arrived", fields)
        BY <2>2, ANewClosure
      <3> HIDE DEF c
      <3> QED
        BY <2>2, <3>1 DEF ClosureHas
    <2> HIDE DEF c
    <2>4. \A m \in t.msgs : m.acct = t.acct
      <3>1. t.kind = "announce"
        BY <1>16 DEF Announce, Is
      <3>2. \E m \in Messages : t.msgs = {m} /\ t.acct = m.acct
        BY <1>2, <3>1 DEF Tasks
      <3> QED
        BY <3>2
    <2>5. Calm => view.acct = view.client
      BY Known0 DEF Calm, OneLoad, ViewOK
    <2>6. t.acct = view.client /\ t.folder = view.folder /\ Do(c) => (Calm /\ Ends => Ends')
      BY <1>1, <2>3, <2>4, <2>5, EndsLonger DEF From
    <2>7. UNCHANGED ui \/ (Calm /\ Ends => Ends')
      BY <1>5, <2>1, <2>6
    <2> QED
      BY <1>3, <1>8, <2>1, <2>7
  <1> QED
    BY <1>9, <1>10, <1>11, <1>12, <1>13, <1>14, <1>15, <1>16

(***************************************************************************)
(* The steps of the thread of the user interface.                          *)
(***************************************************************************)

\* The closure that is run shows a list of the folder, or leaves the list one of
\* the folder unless it shows, or merges into it, what is from elsewhere.
ShowsGood == ui[1].kind \in Shows /\ From(ui[1], view.acct, view.folder) => Good'
LeavesGood == Good /\ (ui[1].kind \in OfFolder => From(ui[1], view.acct, view.folder)) => Good'

LEMMA GoodThread ==
  ASSUME Inv, OneLoad, Calm, Thread, UNCHANGED view
  PROVE  ShowsGood /\ LeavesGood
  <1>1. ui # <<>>
    BY DEF Thread, showFolder, showFailed, showUnified, showLoading, inject, arrived, removed, selectNext,
           deselect, reselect, Next1
  <1>2. ~view.unified /\ view.acct # None
    BY DEF Calm, OneLoad
  <1>3. /\ view.acct \in Accounts /\ view.folder \in Folders /\ ListOK
        /\ ui[1].folder \in Folders /\ ui[1].msgs \in SUBSET Messages
    BY <1>1, <1>2, Known0, FirstClosure
  <1>4. ASSUME ui[1].kind \in OfFolder, From(ui[1], view.acct, view.folder)
        PROVE  /\ \A m \in ui[1].msgs : m.acct = view.acct /\ m.folder = ui[1].folder
               /\ \A x \in Items(view.acct, ui[1].folder, ui[1].msgs) : ItemOf(x, view.acct, view.folder)
    <2>1. \A m \in ui[1].msgs : m.acct = view.acct /\ m.folder = ui[1].folder
      BY <1>1, <1>4, FirstClosure DEF From, OneBox
    <2> QED
      BY <1>2, <1>4, <2>1 DEF Items, ItemOf, From
  <1>5. CASE UNCHANGED list /\ ui[1].kind \notin Shows
    BY <1>5, SameGood DEF ShowsGood, LeavesGood
  <1>6. CASE Replace({})
    <2>1. Good'
      BY <1>6, NoneInBox DEF Replace, Good
    <2> QED
      BY <2>1 DEF ShowsGood, LeavesGood
  <1>7. CASE showFolder
    <2>1. ui[1].kind \in Shows /\ ui[1].kind \in OfFolder
      BY <1>7 DEF showFolder, Next1, Shows, OfFolder
    <2> DEFINE items == Items(view.acct, ui[1].folder, ui[1].msgs)
    <2>2. list' = Listed(items)
      BY <1>7 DEF showFolder, Replace
    <2>3. ASSUME From(ui[1], view.acct, view.folder) PROVE Good'
      <3>1. /\ items \in SUBSET ItemSet /\ IsFiniteSet(items) /\ (\A x, y \in items : x.id = y.id => x = y)
            /\ \A x \in items : ItemOf(x, view.acct, view.folder)
        BY <1>2, <1>3, <1>4, <2>1, <2>3, ItemsAreItems
      <3> HIDE DEF items
      <3>2. InBox(Listed(items).arr, view.acct, view.folder)
        BY <3>1, ListedInBox
      <3> QED
        BY <2>2, <3>2 DEF Good
    <2> QED
      BY <2>1, <2>3 DEF ShowsGood, LeavesGood
  <1>8. CASE arrived
    <2>1. ui[1].kind \in OfFolder /\ ui[1].kind \notin Shows /\ ui[1].kind \in {"inject", "arrived"}
      BY <1>8 DEF arrived, Next1, OfFolder, Shows
    <2> DEFINE items == Items(view.acct, ui[1].folder, ui[1].msgs)
    <2>2. merge(items)
      BY <1>8 DEF arrived
    <2>3. PICK m \in Messages : ui[1].msgs = {m}
      BY <1>1, <2>1, FirstClosure
    <2>4. ASSUME Good, From(ui[1], view.acct, view.folder) PROVE Good'
      <3>1. m.acct = view.acct /\ m.folder = ui[1].folder
        BY <1>4, <2>1, <2>3, <2>4
      <3>2. AtMostOne(items)
        BY <1>3, <2>3, <3>1, OneItem
      <3>3. \A x \in items : ItemOf(x, view.acct, view.folder)
        BY <1>4, <2>1, <2>4
      <3> HIDE DEF items
      <3>4. InBox(list'.arr, view.acct, view.folder)
        BY <2>2, <2>4, <3>2, <3>3, MergedInBox DEF Good
      <3> QED
        BY <3>4 DEF Good
    <2> QED
      BY <2>1, <2>4 DEF ShowsGood, LeavesGood
  <1>9. CASE removed
    <2> DEFINE x == Deref(ui[1].ptrs[1])
               at == {j \in 1..list.n : list.arr[j].acct = x.acct /\ list.arr[j].uid = x.uid}
    <2>1. UNCHANGED list \/ (at # {} /\ list' = without(Min(at)))
      BY <1>9 DEF removed, Stay
    <2>2. at \in SUBSET Int /\ IsFiniteSet(at) /\ at \subseteq 1..list.n
      BY <1>3, Interval, FS_Subset DEF ListOK
    <2>3. ui[1].kind \notin Shows
      BY <1>9 DEF removed, Next1, Shows
    <2> HIDE DEF at
    <2>4. at # {} => Min(at) \in 1..list.n
      BY <2>2, MinOf
    <2>5. CASE at # {} /\ list' = without(Min(at))
      <3>1. Good => Good'
        BY <1>3, <2>4, <2>5, WithoutInBox DEF Good
      <3> QED
        BY <2>3, <3>1 DEF ShowsGood, LeavesGood
    <2> QED
      BY <1>5, <2>1, <2>3, <2>5
  <1>10. CASE showFailed \/ showUnified \/ showLoading \/ inject \/ selectNext \/ deselect \/ reselect
    <2>1. ui[1].kind \notin Shows
      BY <1>10 DEF showFailed, showUnified, showLoading, inject, selectNext, deselect, reselect, Next1, Shows
    <2>2. UNCHANGED list \/ Replace({})
      BY <1>2, <1>10 DEF showFailed, showUnified, showLoading, inject, selectNext, deselect, reselect, Stay
    <2> QED
      BY <1>5, <1>6, <2>1, <2>2
  <1> QED
    BY <1>7, <1>8, <1>9, <1>10 DEF Thread

LEMMA FollowsThread ==
  ASSUME Inv, OneLoad, FollowsOK, Thread
  PROVE  OneLoad' /\ FollowsOK'
  <1> DEFINE N == Len(list.arr)
  <1>1. ui # <<>> /\ UNCHANGED <<fetching, missed>>
    BY DEF Thread, showFolder, showFailed, showUnified, showLoading, inject, arrived, removed, selectNext,
           deselect, reselect, Next1, history
  <1>2. tasks \in Seq(Tasks(N)) /\ ui \in Seq(Closures(N)) /\ rest \in Seq(Closures(N))
    BY <1>1, Known0, FirstClosure
  <1>3. ASSUME Calm, Ends, UNCHANGED view PROVE EndsWith(rest, view.acct, view.folder, Good')
    <2>1. ShowsGood /\ LeavesGood
      BY <1>3, GoodThread
    <2>2. EndsWith(ui, view.acct, view.folder, Good)
      BY <1>3 DEF Ends
    <2> HIDE DEF N
    <2>3. EndsWith(Tail(ui), view.acct, view.folder, Good')
      BY <1>1, <1>2, <2>1, <2>2, GoodIs, EndsFewer DEF ShowsGood, LeavesGood
    <2> QED
      BY <2>3 DEF rest
  <1>4. ASSUME Calm, Ends, UNCHANGED view, ui' = rest PROVE Ends'
    BY <1>3, <1>4 DEF Ends
  <1>5. CASE UNCHANGED view /\ LeaveArray(rest)
    BY <1>1, <1>2, <1>3, <1>5, LeaveStep
  <1>6. CASE UNCHANGED view /\ ui' = rest /\ Alike(tasks', tasks)
    BY <1>1, <1>4, <1>6, AlikeStep
  <1>7. CASE UNCHANGED <<view, tasks>> /\ ui' = rest
    BY <1>6, <1>7, AlikeSame
  <1>8. CASE removed
    <2> DEFINE x == Deref(ui[1].ptrs[1])
               at == {j \in 1..list.n : list.arr[j].acct = x.acct /\ list.arr[j].uid = x.uid}
               t == Task("next", [index |-> Min({Min(at), list.n - 1})])
    <2>1. UNCHANGED view /\ ui' = rest /\ (UNCHANGED tasks \/ tasks' \in {tasks \o <<>>, tasks \o <<t>>})
      BY <1>8 DEF removed, Stay
    <2>2. t.kind = "next"
      BY TaskKind
    <2> HIDE DEF t
    <2> DEFINE S == {tasks[k] : k \in DOMAIN tasks} \cup {t}
    <2>3. tasks \in Seq(S) /\ t \in S
      BY <1>2
    <2> HIDE DEF S
    <2>4. /\ <<>> \in Seq(S) /\ <<t>> \in Seq(S)
          /\ (\A k \in DOMAIN <<>> : <<>>[k].kind # "load") /\ \A k \in DOMAIN <<t>> : <<t>>[k].kind # "load"
      BY <2>2, <2>3
    <2>5. Alike(tasks \o <<>>, tasks) /\ Alike(tasks \o <<t>>, tasks)
      BY <2>3, <2>4, AlikeAll
    <2> QED
      BY <1>6, <1>7, <2>1, <2>5
  <1>9. CASE reselect
    <2>1. ui' = rest /\ UNCHANGED list
      BY <1>9 DEF reselect
    <2>2. UNCHANGED <<view, tasks>> \/ \E folder, force : selectFolder(folder, force)
      BY <1>9 DEF reselect, Next1
    <2>3. ASSUME NEW folder, NEW force, selectFolder(folder, force) PROVE OneLoad' /\ FollowsOK'
      BY <1>1, <1>4, <2>1, <2>3, FolderStep
    <2> QED
      BY <1>7, <2>1, <2>2, <2>3
  <1>10. CASE inject \/ arrived
    <2>1. UNCHANGED view /\ (LeaveArray(rest) \/ (UNCHANGED tasks /\ ui' = rest))
      BY <1>10 DEF inject, arrived, merge, Stay
    <2> QED
      BY <1>5, <1>7, <2>1
  <1>11. CASE showFolder \/ showFailed \/ showUnified \/ showLoading \/ selectNext \/ deselect
    <2>1. UNCHANGED view /\ (LeaveArray(rest) \/ (UNCHANGED tasks /\ ui' = rest))
      BY <1>11 DEF showFolder, showFailed, showUnified, showLoading, Replace, Stay, selectNext, deselect
    <2> QED
      BY <1>5, <1>7, <2>1
  <1> QED
    BY <1>8, <1>9, <1>10, <1>11 DEF Thread

LEMMA FollowsKept ==
  ASSUME Inv, OneLoad, FollowsOK, [Next]_vars
  PROVE  OneLoad' /\ FollowsOK'
  <1>1. CASE UNCHANGED vars
    BY <1>1 DEF vars, running, history, OneLoad, FollowsOK, Good
  <1>2. CASE User
    BY <1>2, FollowsSelecting, FollowsCommanding DEF User
  <1>3. CASE Goroutine
    BY <1>3, FollowsLoadStart, FollowsCrash, FollowsLoadFetch, FollowsLoadEnd, FollowsGoroutine DEF Goroutine
  <1> QED
    BY <1>1, <1>2, <1>3, FollowsThread, FollowsCommanding DEF Next

LEMMA FollowsInitially == Init => OneLoad /\ FollowsOK
  <1> SUFFICES ASSUME Init PROVE OneLoad /\ FollowsOK
    OBVIOUS
  <1>1. tasks = <<>> /\ ui = <<>>
    BY DEF Init
  <1>2. view.unified \/ view.acct # None
    <2>1. \A b \in Boxes : b[1] \in Accounts
      BY MessagesAssumption DEF Boxes
    <2>2. view.unified \/ \E b \in Boxes : view.acct = b[1]
      BY DEF Init
    <2> QED
      BY <2>1, <2>2, WindowAssumption
  <1>3. OneLoad
    BY <1>1, <1>2 DEF OneLoad, OneLoading
  <1>4. ASSUME ~view.unified PROVE Good
    <2> DEFINE msgs == {m \in Old : m.acct = view.acct /\ m.folder = view.folder}
               items == Unified(msgs)
    <2>1. list = Listed(items)
      BY <1>4 DEF Init
    <2>2. msgs \in SUBSET Messages /\ \A m \in msgs : m.acct = view.acct /\ m.folder = view.folder
      BY MessagesAssumption
    <2> HIDE DEF msgs
    <2>3. /\ items \in SUBSET ItemSet /\ IsFiniteSet(items) /\ \A x, y \in items : x.id = y.id => x = y
          /\ items = {Item(m.acct, m.folder, m) : m \in msgs}
      BY <2>2, UnifiedAreItems
    <2>4. \A x \in items : ItemOf(x, view.acct, view.folder)
      BY <2>2, <2>3 DEF Item, ItemOf
    <2> HIDE DEF items
    <2>5. InBox(Listed(items).arr, view.acct, view.folder)
      BY <2>3, <2>4, ListedInBox
    <2> QED
      BY <2>1, <2>5 DEF Good
  <1>5. ASSUME Good PROVE EndsWith(ui, view.acct, view.folder, Good)
    <2>1. 0 \in 0..Len(ui) /\ ~(0 > 0) /\ \A l \in (0 + 1)..Len(ui) : FALSE
      BY <1>1
    <2> QED
      BY <1>5, <2>1 DEF EndsWith
  <1>6. FollowsOK
    BY <1>1, <1>4, <1>5 DEF FollowsOK, Follows
  <1> QED
    BY <1>3, <1>6

LEMMA FollowedIsListed ==
  ASSUME Inv, FollowsOK
  PROVE  ListIsOfFolder
  <1> SUFFICES ASSUME Quiet, ~view.unified, view.folder # None, ~missed, NEW i \in 1..list.n
               PROVE  LET x == list.arr[i]
                      IN  /\ x.acct = view.acct /\ x.folder = view.folder
                          /\ x.id.acct = x.acct /\ x.id.folder = x.folder
    BY DEF ListIsOfFolder
  <1>1. tasks = <<>> /\ ui = <<>>
    BY DEF Quiet
  <1>2. EndsWith(ui, view.acct, view.folder, Good)
    <2>1. Follows(tasks, ui, view.acct, view.folder, Good)
      BY DEF FollowsOK
    <2> QED
      BY <1>1, <2>1 DEF Follows
  <1>3. Good
    <2>1. Len(ui) = 0
      BY <1>1
    <2> QED
      BY <1>2, <2>1 DEF EndsWith
  <1>4. i \in 1..Len(list.arr)
    BY Known0 DEF ListOK
  <1> QED
    BY <1>3, <1>4 DEF Good, InBox, ItemOf

(***************************************************************************)
(* The flags.  Each is held by a goroutine that is to clear it: a load     *)
(* beyond its start holds freshFetchInProgress, a removal and the timer    *)
(* after it hold the mark of their account.  A step that touches neither   *)
(* flag has only to keep the holders.                                      *)
(***************************************************************************)
Holds(t, a) == \/ a = None /\ Loading(t)
               \/ a # None /\ t.kind \in {"op", "lift"} /\ t.acct = a
Hold(ts, a) == \E i \in DOMAIN ts : Holds(ts[i], a)
FlagsHeld == /\ fetching => Hold(tasks, None)
             /\ \A a \in suppress \ stuck : Hold(tasks, a)
Keeping(ts1, ts) == \A a : Hold(ts, a) => Hold(ts1, a)

LEMMA KeepingMore ==
  ASSUME NEW S, NEW ts \in Seq(S), NEW more \in Seq(S)
  PROVE  Keeping(ts \o more, ts)
  <1> DEFINE r == ts \o more
  <1>1. \A i \in DOMAIN ts : i \in DOMAIN r /\ r[i] = ts[i]
    OBVIOUS
  <1> HIDE DEF r
  <1>2. Keeping(r, ts)
    BY <1>1 DEF Keeping, Hold
  <1> QED
    BY <1>2 DEF r

LEMMA KeepingAppend ==
  ASSUME NEW S, NEW ts \in Seq(S), NEW t
  PROVE  Keeping(Append(ts, t), ts)
  <1> DEFINE r == Append(ts, t)
  <1>1. \A i \in DOMAIN ts : i \in DOMAIN r /\ r[i] = ts[i]
    OBVIOUS
  <1> HIDE DEF r
  <1>2. Keeping(r, ts)
    BY <1>1 DEF Keeping, Hold
  <1> QED
    BY <1>2 DEF r

\* A task that ends takes with it what it holds, unless one that it starts holds it.
LEMMA KeepingFewer ==
  ASSUME NEW S, NEW ts \in Seq(S), NEW i \in DOMAIN ts, NEW more \in Seq(S), NEW a, Hold(ts, a),
         Holds(ts[i], a) => Hold(more, a)
  PROVE  Hold(RemoveAt(ts, i) \o more, a)
  <1> DEFINE r == RemoveAt(ts, i)
             s == r \o more
  <1>1. /\ r \in Seq(S)
        /\ \A k \in DOMAIN r : r[k] = ts[Placed(k, i)]
        /\ \A j \in DOMAIN ts : j = i \/ \E k \in DOMAIN r : Placed(k, i) = j
    BY Fewer
  <1> HIDE DEF r
  <1>2. /\ \A k \in DOMAIN r : k \in DOMAIN s /\ s[k] = r[k]
        /\ \A k \in DOMAIN more : Len(r) + k \in DOMAIN s /\ s[Len(r) + k] = more[k]
    BY <1>1
  <1> HIDE DEF s
  <1>3. CASE Holds(ts[i], a)
    <2>1. PICK k \in DOMAIN more : Holds(more[k], a)
      BY <1>3 DEF Hold
    <2>2. Len(r) + k \in DOMAIN s /\ s[Len(r) + k] = more[k]
      BY <1>2
    <2>3. Hold(s, a)
      BY <2>1, <2>2 DEF Hold
    <2> QED
      BY <2>3 DEF s, r
  <1>4. CASE ~Holds(ts[i], a)
    <2>1. PICK j \in DOMAIN ts : Holds(ts[j], a)
      BY DEF Hold
    <2>2. PICK k \in DOMAIN r : Placed(k, i) = j
      BY <1>1, <1>4, <2>1
    <2>3. k \in DOMAIN s /\ s[k] = ts[j]
      BY <1>1, <1>2, <2>2
    <2>4. Hold(s, a)
      BY <2>1, <2>3 DEF Hold
    <2> QED
      BY <2>4 DEF s, r
  <1> QED
    BY <1>3, <1>4

LEMMA KeepingChanged ==
  ASSUME NEW S, NEW ts \in Seq(S), NEW i \in DOMAIN ts, NEW t,
         \A a : Holds(ts[i], a) => Holds(t, a)
  PROVE  Keeping([ts EXCEPT ![i] = t], ts)
  <1> DEFINE r == [ts EXCEPT ![i] = t]
  <1>1. DOMAIN r = DOMAIN ts /\ \A k \in DOMAIN ts : (k = i /\ r[k] = t) \/ (k # i /\ r[k] = ts[k])
    OBVIOUS
  <1> HIDE DEF r
  <1>2. Keeping(r, ts)
    BY <1>1 DEF Keeping, Hold
  <1> QED
    BY <1>2 DEF r

LEMMA KeepingLeft ==
  ASSUME NEW ts, NEW ts1, DOMAIN ts1 = DOMAIN ts,
         \A k \in DOMAIN ts : ts1[k].kind = ts[k].kind /\ ts1[k].at = ts[k].at /\ ts1[k].acct = ts[k].acct
  PROVE  Keeping(ts1, ts)
  BY DEF Keeping, Hold, Holds, Loading

LEMMA LeavingKeeps ==
  ASSUME Inv, NEW STATE r, LeaveArray(r)
  PROVE  Keeping(tasks', tasks)
  <1> DEFINE N == Len(list.arr)
             Left(x) == [j \in DOMAIN x.ptrs |-> Behind(x.ptrs[j])]
  <1>1. tasks' = [i \in DOMAIN tasks |-> [tasks[i] EXCEPT !.ptrs = Left(tasks[i])]]
    BY DEF LeaveArray
  <1>2. tasks \in Seq(Tasks(N))
    BY Known0
  <1> HIDE DEF Left, N
  <1>3. \A i \in DOMAIN tasks : tasks[i] \in Tasks(N)
    BY <1>2
  <1>4. /\ DOMAIN tasks' = DOMAIN tasks
        /\ \A i \in DOMAIN tasks : /\ tasks'[i].kind = tasks[i].kind /\ tasks'[i].at = tasks[i].at
                                   /\ tasks'[i].acct = tasks[i].acct
    BY <1>1, <1>3 DEF Tasks
  <1> QED
    BY <1>4, KeepingLeft

LEMMA HeldStep ==
  ASSUME FlagsHeld, UNCHANGED <<fetching, suppress, stuck>>, UNCHANGED tasks \/ Keeping(tasks', tasks)
  PROVE  FlagsHeld'
  BY DEF FlagsHeld, Keeping

LEMMA RunStep ==
  ASSUME Inv, FlagsHeld, UNCHANGED <<fetching, suppress, stuck>>, NEW t, Run(t)
  PROVE  FlagsHeld'
  <1>1. Keeping(tasks', tasks)
    BY Known0, KeepingAppend DEF Run
  <1> QED
    BY <1>1, HeldStep

LEMMA HeldByUser ==
  ASSUME Inv, FlagsHeld, User \/ \E m \in Messages : NewMail(m)
  PROVE  FlagsHeld'
  <1>1. UNCHANGED <<fetching, suppress, stuck>>
    BY DEF User, selectUnifiedInbox, selectAccount, SelectFolder, handleDeletedFolder, Tapped, TappedSecondary,
           selectAllMessages, clearSelection, ToggleSortOrder, moveToTrash, deleteMessage, moveToFolder, Confirm,
           Cancel, NewMail, history
  <1>2. \/ UNCHANGED tasks
        \/ \E t : Run(t)
        \/ LeaveArray(ui) \/ LeaveArray(Append(ui, Closure("fallback", [folder |-> view.folder])))
    BY DEF User, selectUnifiedInbox, selectAccount, SelectFolder, selectFolder, handleDeletedFolder, Tapped,
           TappedSecondary, selectAllMessages, clearSelection, ToggleSortOrder, moveToTrash, deleteMessage,
           moveToFolder, Confirm, Cancel, NewMail, running
  <1> QED
    BY <1>1, <1>2, RunStep, LeavingKeeps, HeldStep

LEMMA HeldByThread ==
  ASSUME Inv, FlagsHeld, Thread
  PROVE  FlagsHeld'
  <1>1. UNCHANGED <<fetching, suppress, stuck>>
    BY DEF Thread, showFolder, showFailed, showUnified, showLoading, inject, arrived, removed, selectNext,
           deselect, reselect, history
  <1>2. CASE removed
    <2> DEFINE x == Deref(ui[1].ptrs[1])
               at == {j \in 1..list.n : list.arr[j].acct = x.acct /\ list.arr[j].uid = x.uid}
               t == Task("next", [index |-> Min({Min(at), list.n - 1})])
    <2>1. UNCHANGED tasks \/ tasks' \in {tasks \o <<>>, tasks \o <<t>>}
      BY <1>2 DEF removed, Stay
    <2> HIDE DEF t
    <2> DEFINE S == {tasks[k] : k \in DOMAIN tasks} \cup {t}
    <2>2. tasks \in Seq(S) /\ t \in S
      BY Known0
    <2> HIDE DEF S
    <2>3. <<>> \in Seq(S) /\ <<t>> \in Seq(S)
      BY <2>2
    <2> QED
      BY <1>1, <2>1, <2>2, <2>3, KeepingMore, HeldStep
  <1>3. CASE ~removed
    <2> DEFINE Kept == UNCHANGED tasks \/ (\E t : Run(t)) \/ LeaveArray(rest)
    <2>1. SUFFICES Kept
      BY <1>1, RunStep, LeavingKeeps, HeldStep
    <2>2. CASE showFolder \/ showFailed \/ showUnified \/ showLoading
      BY <2>2 DEF showFolder, showFailed, showUnified, showLoading, Replace, Stay
    <2>3. ASSUME NEW items, merge(items)  PROVE Kept
      BY <2>3 DEF merge
    <2>4. CASE inject
      <3>1. Stay \/ \E items : merge(items)
        BY <2>4 DEF inject
      <3> QED
        BY <2>3, <3>1 DEF Stay
    <2>5. CASE arrived
      <3>1. \E items : merge(items)
        BY <2>5 DEF arrived
      <3> QED
        BY <2>3, <3>1
    <2>6. CASE selectNext \/ deselect
      BY <2>6 DEF selectNext, deselect
    <2>7. CASE reselect
      <3>1. UNCHANGED tasks \/ selectFolder(ui[1].folder, TRUE) \/ selectFolder(Inbox, FALSE)
        BY <2>7 DEF reselect, Next1
      <3> QED
        BY <3>1 DEF selectFolder
    <2> QED
      BY <1>3, <2>2, <2>4, <2>5, <2>6, <2>7 DEF Thread
  <1> QED
    BY <1>2, <1>3

\* A goroutine that ends: what it holds itself is cleared with it.
LEMMA HeldEnding ==
  ASSUME Inv, FlagsHeld, NEW i \in DOMAIN tasks, end(i, <<>>),
         \A a \in suppress' \ stuck' : a \in suppress \ stuck /\ ~Holds(tasks[i], a),
         fetching' => fetching /\ ~Holds(tasks[i], None)
  PROVE  FlagsHeld'
  <1>1. tasks \in Seq(Tasks(Len(list.arr))) /\ <<>> \in Seq(Tasks(Len(list.arr)))
    BY Known0
  <1>2. \A a : Hold(tasks, a) /\ ~Holds(tasks[i], a) => Hold(tasks', a)
    BY <1>1, KeepingFewer DEF end
  <1> QED
    BY <1>2 DEF FlagsHeld

LEMMA HeldByLoads ==
  ASSUME Inv, FlagsHeld, NEW i \in DOMAIN tasks, LoadStart(i) \/ LoadCrash(i) \/ LoadFetch(i) \/ LoadEnd(i)
  PROVE  FlagsHeld'
  <1> DEFINE N == Len(list.arr)
             t == tasks[i]
  <1>1. tasks \in Seq(Tasks(N)) /\ t.kind = "load" /\ None \notin Accounts
    BY Known0, WindowAssumption DEF LoadStart, LoadCrash, LoadFetch, LoadEnd, Is
  <1>2. \A a : Holds(t, a) <=> a = None /\ t.at # "start"
    BY <1>1 DEF Holds, Loading
  <1>3. ASSUME NEW at, at # "start", tasks' = [tasks EXCEPT ![i].at = at]
        PROVE  Keeping(tasks', tasks) /\ Hold(tasks', None)
    <2> DEFINE u == [t EXCEPT !.at = at]
    <2>1. tasks' = [tasks EXCEPT ![i] = u]
      BY <1>3, Zenon
    <2>2. u.kind = "load" /\ u.at = at
      <3>1. t \in Tasks(N)
        BY <1>1
      <3> QED
        BY <1>1, <3>1 DEF Tasks
    <2> HIDE DEF u
    <2>3. Holds(u, None)
      BY <1>3, <2>2 DEF Holds, Loading
    <2>4. Keeping(tasks', tasks)
      BY <1>1, <1>2, <2>1, <2>3, KeepingChanged
    <2>5. i \in DOMAIN tasks' /\ tasks'[i] = u
      BY <2>1
    <2> QED
      BY <2>3, <2>4, <2>5 DEF Hold
  <1>4. CASE LoadStart(i)
    <2>1. /\ UNCHANGED <<suppress, stuck>> /\ t.at = "start"
          /\ \/ end(i, <<>>) /\ UNCHANGED fetching
             \/ \E at \in {"done", "fetch"} : tasks' = [tasks EXCEPT ![i].at = at]
      BY <1>4 DEF LoadStart
    <2>2. CASE end(i, <<>>) /\ UNCHANGED fetching
      BY <1>2, <2>1, <2>2, HeldEnding
    <2>3. ASSUME NEW at \in {"done", "fetch"}, tasks' = [tasks EXCEPT ![i].at = at] PROVE FlagsHeld'
      <3>1. Keeping(tasks', tasks) /\ Hold(tasks', None)
        BY <1>3, <2>3
      <3> QED
        BY <2>1, <3>1 DEF FlagsHeld, Keeping
    <2> QED
      BY <2>1, <2>2, <2>3
  <1>5. CASE LoadCrash(i)
    BY <1>5 DEF LoadCrash, FlagsHeld
  <1>6. CASE LoadFetch(i)
    <2>1. UNCHANGED <<fetching, suppress, stuck>> /\ tasks' = [tasks EXCEPT ![i].at = "done"]
      BY <1>6 DEF LoadFetch, history
    <2> QED
      BY <1>3, <2>1, HeldStep
  <1>7. CASE LoadEnd(i)
    <2>1. UNCHANGED <<suppress, stuck>> /\ fetching' = FALSE /\ end(i, <<>>)
      BY <1>7 DEF LoadEnd, history
    <2>2. \A a \in suppress : ~Holds(t, a)
      BY <1>1, <1>2, Known0 DEF ServerOK, ViewOK
    <2> QED
      BY <2>1, <2>2, HeldEnding
  <1> QED
    BY <1>4, <1>5, <1>6, <1>7

LEMMA HeldByOps ==
  ASSUME Inv, FlagsHeld, NEW i \in DOMAIN tasks, OpStart(i) \/ OpCall(i) \/ Lift(i)
  PROVE  FlagsHeld'
  <1> DEFINE N == Len(list.arr)
             t == tasks[i]
             x == Deref(t.ptrs[1])
  <1>1. /\ tasks \in Seq(Tasks(N)) /\ t \in Tasks(N) /\ N \in Nat /\ ListOK /\ None \notin Accounts
        /\ suppress \subseteq Accounts
    <2>1. tasks \in Seq(Tasks(N)) /\ N \in Nat /\ ListOK
      BY Known0
    <2> HIDE DEF N
    <2> QED
      BY <2>1, Known0, WindowAssumption DEF ServerOK, ViewOK
  <1>2. t.kind \in {"op", "lift"} => \A a : Holds(t, a) <=> a # None /\ a = t.acct
    BY DEF Holds, Loading
  <1>3. CASE OpStart(i)
    <2>1. t.kind = "op" /\ t.at = "start" /\ t.acct = None
      BY <1>1, <1>3 DEF OpStart, Is, Tasks
    <2>2. /\ UNCHANGED <<fetching, stuck>>
          /\ \/ suppress' = suppress \cup {x.acct} /\ tasks' = [tasks EXCEPT ![i].at = "call", ![i].acct = x.acct]
             \/ tasks' = [tasks EXCEPT ![i].at = "call"] /\ UNCHANGED suppress
      BY <1>3 DEF OpStart, history
    <2>3. \A a : ~Holds(t, a)
      BY <1>2, <2>1
    <2>4. x.acct \in Accounts
      BY <1>1, <2>1, FirstPointer DEF Tasks
    <2> HIDE DEF x
    <2>5. \A u : Keeping([tasks EXCEPT ![i] = u], tasks)
      BY <1>1, <2>3, KeepingChanged
    <2>6. CASE tasks' = [tasks EXCEPT ![i].at = "call"] /\ UNCHANGED suppress
      <3>1. tasks' = [tasks EXCEPT ![i] = [t EXCEPT !.at = "call"]]
        BY <2>6, Zenon
      <3>2. Keeping(tasks', tasks)
        BY <2>5, <3>1
      <3> QED
        BY <2>2, <2>6, <3>2, HeldStep
    <2>7. CASE suppress' = suppress \cup {x.acct} /\ tasks' = [tasks EXCEPT ![i].at = "call", ![i].acct = x.acct]
      <3> DEFINE s1 == [tasks EXCEPT ![i].at = "call"]
                 u == [s1[i] EXCEPT !.acct = x.acct]
      <3>1. tasks' = [s1 EXCEPT ![i] = u]
        BY <2>7, Zenon
      <3>2. s1[i] = [t EXCEPT !.at = "call"] /\ \A y : [s1 EXCEPT ![i] = y] = [tasks EXCEPT ![i] = y]
        BY <1>1
      <3>3. u.kind = "op" /\ u.acct = x.acct
        BY <1>1, <2>1, <3>2 DEF Tasks
      <3> HIDE DEF u, s1
      <3>4. tasks' = [tasks EXCEPT ![i] = u]
        BY <3>1, <3>2
      <3>5. Keeping(tasks', tasks)
        BY <2>5, <3>4
      <3>6. i \in DOMAIN tasks' /\ tasks'[i] = u
        BY <3>4
      <3>7. Hold(tasks', x.acct)
        BY <1>1, <2>4, <3>3, <3>6 DEF Hold, Holds
      <3> QED
        BY <2>2, <2>7, <3>5, <3>7 DEF FlagsHeld, Keeping
    <2> QED
      BY <2>2, <2>6, <2>7
  <1>4. CASE OpCall(i)
    <2> DEFINE lift == Task("lift", [acct |-> x.acct])
               fresh == Task("refresh", [folder |-> view.folder])
    <2>1. t.kind = "op" /\ t.at = "call" /\ UNCHANGED <<fetching, suppress>>
      BY <1>4 DEF OpCall, Is
    <2>2. PICK more \in {<<>>, <<lift>>}, then \in {<<>>, <<fresh>>} :
            /\ tasks' = RemoveAt(tasks, i) \o (more \o then)
            /\ view.unified /\ t.how # "move" => more = <<lift>>
      BY <1>4 DEF OpCall, lifting, end
    <2>3. stuck' = IF view.unified /\ x.acct = t.acct THEN stuck ELSE stuck \cup ({t.acct} \ {None})
      BY <1>4 DEF OpCall
    <2>4. t.acct # None => t.how # "move"
      BY <1>1, <2>1 DEF Tasks
    <2>5. lift.kind = "lift" /\ lift.acct = x.acct
      <3> DEFINE fields == [acct |-> x.acct]
      <3>1. "kind" \notin DOMAIN fields /\ "acct" \in DOMAIN fields /\ fields["acct"] = x.acct
        OBVIOUS
      <3> HIDE DEF fields
      <3>2. TaskHas(Task("lift", fields), "lift", fields)
        BY <3>1, ANewTask
      <3>3. Task("lift", fields).kind = "lift" /\ Task("lift", fields).acct = x.acct
        BY <3>1, <3>2 DEF TaskHas
      <3> QED
        BY <3>3 DEF fields
    <2> HIDE DEF lift, fresh, x
    <2> DEFINE S == {tasks[k] : k \in DOMAIN tasks} \cup {lift, fresh}
    <2>6. tasks \in Seq(S) /\ lift \in S /\ fresh \in S
      BY <1>1
    <2> HIDE DEF S
    <2>7. more \in Seq(S) /\ then \in Seq(S)
      <3>1. \A s \in S : <<s>> \in Seq(S)
        OBVIOUS
      <3>2. <<lift>> \in Seq(S) /\ <<fresh>> \in Seq(S) /\ <<>> \in Seq(S)
        BY <2>6, <3>1
      <3> QED
        BY <3>2
    <2> DEFINE both == more \o then
    <2>8. both \in Seq(S) /\ (more = <<lift>> => 1 \in DOMAIN both /\ both[1] = lift)
      BY <2>7
    <2> HIDE DEF both
    <2>9. \A a : Hold(tasks, a) /\ (Holds(t, a) => Hold(both, a)) => Hold(tasks', a)
      <3>1. tasks' = RemoveAt(tasks, i) \o both
        BY <2>2 DEF both
      <3> QED
        BY <2>6, <2>8, <3>1, KeepingFewer
    <2>10. fetching' => Hold(tasks', None)
      BY <1>2, <2>1, <2>9 DEF FlagsHeld
    <2>11. ASSUME NEW a \in suppress' \ stuck' PROVE Hold(tasks', a)
      <3>1. a \in suppress \ stuck /\ a # None
        BY <1>1, <2>1, <2>3, <2>11
      <3>2. ASSUME Holds(t, a) PROVE Hold(both, a)
        <4>1. a = t.acct
          BY <1>2, <2>1, <3>2
        <4>2. view.unified /\ x.acct = t.acct
          BY <2>3, <2>11, <3>1, <4>1
        <4>3. 1 \in DOMAIN both /\ both[1] = lift
          BY <2>2, <2>4, <2>8, <3>1, <4>1, <4>2
        <4> QED
          BY <2>5, <3>1, <4>1, <4>2, <4>3 DEF Hold, Holds
      <3> QED
        BY <2>9, <3>1, <3>2 DEF FlagsHeld
    <2> QED
      BY <2>10, <2>11 DEF FlagsHeld
  <1>5. CASE Lift(i)
    <2>1. /\ t.kind = "lift" /\ end(i, <<>>) /\ UNCHANGED fetching
          /\ suppress' = suppress \ {t.acct} /\ stuck' = stuck \ {t.acct}
      BY <1>5 DEF Lift, Is
    <2> QED
      BY <1>2, <2>1, HeldEnding
  <1> QED
    BY <1>3, <1>4, <1>5

\* The other goroutines hold nothing.
LEMMA HeldByOthers ==
  ASSUME Inv, FlagsHeld, NEW i \in DOMAIN tasks,
         \/ UnifiedStart(i) \/ UnifiedFetch(i) \/ UnifiedEnd(i) \/ BatchCall(i)
         \/ SelectNext(i) \/ Refresh(i) \/ Announce(i)
  PROVE  FlagsHeld'
  <1> DEFINE N == Len(list.arr)
             t == tasks[i]
  <1>1. tasks \in Seq(Tasks(N)) /\ UNCHANGED <<fetching, suppress, stuck>>
    BY Known0 DEF UnifiedStart, UnifiedFetch, UnifiedEnd, BatchCall, SelectNext, Refresh, Announce, history
  <1>2. \A a : ~Holds(t, a)
    BY DEF UnifiedStart, UnifiedFetch, UnifiedEnd, BatchCall, SelectNext, Refresh, Announce, Is, Holds, Loading
  <1>3. \/ end(i, <<>>)
        \/ \E u : tasks' = [tasks EXCEPT ![i] = u]
    <2>1. CASE UnifiedStart(i)
      <3>1. tasks' = [tasks EXCEPT ![i].at = "fetch", ![i].want = Accounts]
        BY <2>1 DEF UnifiedStart
      <3>2. tasks' = [tasks EXCEPT ![i] = [t EXCEPT !.at = "fetch", !.want = Accounts]]
        BY <1>1, <3>1
      <3> QED
        BY <3>2
    <2>2. CASE UnifiedFetch(i)
      <3>1. PICK a \in t.want : \/ tasks' = [tasks EXCEPT ![i].want = @ \ {a}, ![i].msgs = @ \cup In(a, Inbox)]
                                \/ tasks' = [tasks EXCEPT ![i].want = @ \ {a}]
        BY <2>2 DEF UnifiedFetch
      <3>2. \/ tasks' = [tasks EXCEPT ![i] = [t EXCEPT !.want = @ \ {a}, !.msgs = @ \cup In(a, Inbox)]]
            \/ tasks' = [tasks EXCEPT ![i] = [t EXCEPT !.want = @ \ {a}]]
        BY <1>1, <3>1
      <3> QED
        BY <3>2
    <2>3. CASE BatchCall(i)
      <3>1. end(i, <<>>) \/ tasks' = [tasks EXCEPT ![i].ptrs = Tail(@)]
        BY <2>3 DEF BatchCall
      <3>2. end(i, <<>>) \/ tasks' = [tasks EXCEPT ![i] = [t EXCEPT !.ptrs = Tail(@)]]
        BY <3>1, Zenon
      <3> QED
        BY <3>2
    <2>4. CASE UnifiedEnd(i) \/ SelectNext(i) \/ Refresh(i) \/ Announce(i)
      BY <2>4 DEF UnifiedEnd, SelectNext, Refresh, Announce
    <2> QED
      BY <2>1, <2>2, <2>3, <2>4
  <1>4. CASE end(i, <<>>)
    BY <1>1, <1>2, <1>4, HeldEnding
  <1>5. ASSUME NEW u, tasks' = [tasks EXCEPT ![i] = u] PROVE FlagsHeld'
    <2>1. Keeping(tasks', tasks)
      BY <1>1, <1>2, <1>5, KeepingChanged
    <2> QED
      BY <1>1, <2>1, HeldStep
  <1> QED
    BY <1>3, <1>4, <1>5

LEMMA HeldKept ==
  ASSUME Inv, FlagsHeld, [Next]_vars
  PROVE  FlagsHeld'
  <1>1. CASE UNCHANGED vars
    BY <1>1, HeldStep DEF vars, running, history
  <1>2. CASE Goroutine
    BY <1>2, HeldByLoads, HeldByOps, HeldByOthers DEF Goroutine
  <1> QED
    BY <1>1, <1>2, HeldByUser, HeldByThread DEF Next

(***************************************************************************)
(* The invariant.                                                          *)
(***************************************************************************)
LEMMA Initially == Init => Inv
  <1> SUFFICES ASSUME Init PROVE Inv
    OBVIOUS
  <1> DEFINE msgs == IF view.unified THEN {m \in Old : m.folder = Inbox}
                     ELSE {m \in Old : m.acct = view.acct /\ m.folder = view.folder}
  <1>1. Old \in SUBSET Messages /\ msgs \in SUBSET Messages
    BY MessagesAssumption
  <1>2. list = Listed(Unified(msgs))
    BY DEF Init
  <1> HIDE DEF msgs
  <1>3. ListOK
    <2> DEFINE items == Unified(msgs)
    <2>1. items \in SUBSET ItemSet /\ IsFiniteSet(items) /\ \A x, y \in items : x.id = y.id => x = y
      BY <1>1, UnifiedAreItems
    <2>2. list = Listed(items)
      BY <1>2
    <2> HIDE DEF items
    <2> QED
      BY <2>1, <2>2, ListedOK DEF ListOK
  <1>4. ViewOK
    <2>1. \A b \in Boxes : b[1] \in Accounts /\ b[2] \in Folders
      BY MessagesAssumption DEF Boxes, Folders
    <2>2. \/ view = [unified |-> TRUE, acct |-> None, folder |-> None, client |-> None]
          \/ \E b \in Boxes : view = [unified |-> FALSE, acct |-> b[1], folder |-> b[2], client |-> b[1]]
      BY DEF Init
    <2>3. view \in [unified : BOOLEAN, acct : Accounts \cup {None}, folder : Folders, client : Accounts \cup {None}]
      <3>1. CASE view = [unified |-> TRUE, acct |-> None, folder |-> None, client |-> None]
        BY <3>1 DEF Folders
      <3>2. ASSUME NEW b \in Boxes, view = [unified |-> FALSE, acct |-> b[1], folder |-> b[2], client |-> b[1]]
            PROVE  view \in [unified : BOOLEAN, acct : Accounts \cup {None}, folder : Folders,
                             client : Accounts \cup {None}]
        <4>1. b[1] \in Accounts \cup {None} /\ b[2] \in Folders
          BY <2>1
        <4> QED
          BY <3>2, <4>1
      <3> QED
        BY <2>2, <3>1, <3>2
    <2>4. view.acct # None => view.acct = view.client
      BY <2>2
    <2> QED
      BY <2>3, <2>4 DEF Init, ViewOK
  <1>5. ServerOK
    <2>1. /\ mail = Old
          /\ cache \in {[b \in Boxes |-> Cached({m \in Old : <<m.acct, m.folder>> = b})],
                        [b \in Boxes |-> NotCached]}
      BY DEF Init
    <2>2. \A b \in Boxes : {m \in Old : <<m.acct, m.folder>> = b} \in SUBSET Messages
      BY <1>1
    <2>3. /\ NotCached \in [found : BOOLEAN, msgs : SUBSET Messages]
          /\ \A b \in Boxes : Cached({m \in Old : <<m.acct, m.folder>> = b})
                                \in [found : BOOLEAN, msgs : SUBSET Messages]
      BY <2>2 DEF Cached, NotCached
    <2>4. cache \in [Boxes -> [found : BOOLEAN, msgs : SUBSET Messages]]
      BY <2>1, <2>3
    <2>5. \A b \in Boxes : \A m \in cache[b].msgs : <<m.acct, m.folder>> = b
      BY <2>1 DEF Cached, NotCached
    <2> QED
      BY <1>1, <2>1, <2>4, <2>5 DEF ServerOK
  <1>6. Len(list.arr) \in Nat /\ picked = NoPtr /\ sm = NoSelection /\ row = 0
        /\ tasks = <<>> /\ ui = <<>> /\ dialog = <<>>
    BY <1>3 DEF Init, ListOK
  <1>7. HoldersOK(Len(list.arr)) /\ SelectionOK(Len(list.arr)) /\ SelectionIn(list.n)
    BY <1>3, <1>6 DEF HoldersOK, SelectionOK, SelectionIn, Managers, NoSelection, ManagerIn, Of, Nil, ListOK
  <1> QED
    BY <1>3, <1>4, <1>5, <1>7 DEF Inv, TypeInv

LEMMA UserKeeps ==
  ASSUME Inv, User
  PROVE  Inv'
  BY SelectKeeps, AccountKeeps, DeletedFolderKeeps, TappedKeeps, SelectionCommandsKeep, ToggleKeeps,
     AskingKeeps, AnswerKeeps DEF User

LEMMA StepsKeep ==
  ASSUME Inv, [Next]_vars
  PROVE  Inv'
  <1>1. CASE User
    BY <1>1, UserKeeps
  <1>2. CASE Goroutine
    BY <1>2, LoadKeeps, CrashKeeps, UnifiedKeeps, OpKeeps, BatchKeeps, TimersKeep DEF Goroutine
  <1>3. CASE Thread
    BY <1>3, ShowKeeps, ArrivalKeeps, RemovedKeeps, NextKeeps DEF Thread
  <1>4. CASE \E m \in Messages : NewMail(m)
    BY <1>4, SelectKeeps
  <1>5. CASE UNCHANGED vars
    BY <1>5 DEF vars, selection, running, server, Inv, TypeInv, ListOK, ViewOK, ServerOK, HoldersOK, SelectionOK,
       SelectionIn
  <1> QED
    BY <1>1, <1>2, <1>3, <1>4, <1>5 DEF Next

\* What is noted of the past.
HistoryOK == missed \in BOOLEAN /\ shaken \in BOOLEAN /\ stuck \subseteq Accounts

LEMMA HistoryKept ==
  ASSUME Inv, HistoryOK, [Next]_vars
  PROVE  HistoryOK'
  <1>1. CASE User
    BY <1>1 DEF User, selectUnifiedInbox, selectAccount, SelectFolder, handleDeletedFolder, Tapped,
       TappedSecondary, selectAllMessages, clearSelection, ToggleSortOrder, moveToTrash, deleteMessage,
       moveToFolder, Confirm, Cancel, Settle, Shake, history, HistoryOK
  <1>2. ASSUME NEW i \in DOMAIN tasks, OpCall(i) PROVE HistoryOK'
    <2>1. tasks[i] \in Tasks(Len(list.arr))
      BY Known0
    <2>2. tasks[i].acct \in Accounts \cup {None}
      BY <2>1 DEF Tasks
    <2>3. UNCHANGED missed /\ Settle /\ stuck' \in {stuck, stuck \cup ({tasks[i].acct} \ {None})}
      BY <1>2 DEF OpCall
    <2> QED
      BY <2>2, <2>3 DEF HistoryOK, Settle
  <1>3. ASSUME NEW i \in DOMAIN tasks,
         \/ LoadStart(i) \/ LoadCrash(i) \/ LoadFetch(i) \/ LoadEnd(i)
         \/ UnifiedStart(i) \/ UnifiedFetch(i) \/ UnifiedEnd(i)
         \/ OpStart(i) \/ BatchCall(i)
         \/ Lift(i) \/ SelectNext(i) \/ Refresh(i) \/ Announce(i)
        PROVE  HistoryOK'
    BY <1>3 DEF LoadStart, LoadCrash, LoadFetch, LoadEnd, UnifiedStart, UnifiedFetch, UnifiedEnd, OpStart,
       BatchCall, Lift, SelectNext, Refresh, Announce, Settle, history, HistoryOK
  <1>4. CASE Goroutine
    BY <1>2, <1>3, <1>4 DEF Goroutine
  <1>5. CASE Thread
    BY <1>5 DEF Thread, showFolder, showFailed, showUnified, showLoading, inject, arrived, merge, removed,
       selectNext, deselect, reselect, Shake, history, HistoryOK
  <1>6. CASE \E m \in Messages : NewMail(m)
    BY <1>6 DEF NewMail, history, HistoryOK
  <1>7. CASE UNCHANGED vars
    BY <1>7 DEF vars, history, HistoryOK
  <1> QED
    BY <1>1, <1>4, <1>5, <1>6, <1>7 DEF Next

Safety == Inv /\ HistoryOK /\ ListedOnce /\ PickedOK /\ OneLoad /\ FollowsOK /\ FlagsHeld

LEMMA Always == Spec => []Safety
  <1>1. Init => Safety
    <2>1. Init => HistoryOK /\ FlagsHeld
      BY DEF Init, HistoryOK, FlagsHeld
    <2> QED
      BY <2>1, Initially, OnceInitially, PickedInitially, FollowsInitially DEF Safety
  <1>2. Safety /\ [Next]_vars => Safety'
    BY StepsKeep, HistoryKept, OnceKept, PickedKept, FollowsKept, HeldKept DEF Safety
  <1> QED
    BY <1>1, <1>2, PTL DEF Spec

\* The variables hold what they are meant to, in every state: WindowTypeOK.
THEOREM WindowIsTyped == Spec => []WindowTypeOK
  <1>1. Inv /\ HistoryOK => WindowTypeOK
    <2> SUFFICES ASSUME Inv, HistoryOK PROVE WindowTypeOK
      OBVIOUS
    <2>1. view.folder \in {b[2] : b \in Boxes} \cup {Inbox, None}
      <3>1. ASSUME NEW m \in Messages PROVE m.folder \in {b[2] : b \in Boxes}
        <4>1. <<m.acct, m.folder>> \in Boxes /\ <<m.acct, m.folder>>[2] = m.folder
          BY DEF Boxes
        <4> QED
          BY <4>1
      <3> QED
        BY <3>1, Known0 DEF Folders
    <2>2. \A i \in DOMAIN list.arr : list.arr[i].id \in Messages
      <3>1. \A i \in DOMAIN list.arr : list.arr[i] \in ItemSet
        BY Known0 DEF ListOK
      <3> QED
        BY <3>1 DEF ItemSet
    <2>3. sm.marks \cap sm.off = {}
      BY DEF Inv, TypeInv, SelectionOK, Managers
    <2> QED
      BY <2>1, <2>2, <2>3, Known0 DEF WindowTypeOK, ListOK, ViewOK, ServerOK, HistoryOK
  <1> QED
    BY <1>1, Always, PTL DEF Safety

\* While a list is shown, the selection manager's indices and the selected message
\* are of that list, whatever loads, arrivals, removals and timers have replaced,
\* sorted or shortened it since: SelectionInList.
THEOREM SelectionFollowsList == Spec => []SelectionInList
  <1>1. Inv => SelectionInList
    BY DEF Inv, SelectionIn, ManagerIn, Of, SelectionInList
  <1> QED
    BY <1>1, Always, PTL DEF Safety

\* No message is listed twice (validateMessageArrayConsistency, main_window.go), however
\* lists, announcements and removals overlap, and whatever the user does but one thing:
\* to sort a list that an item was taken out of.
THEOREM NoMessageTwice == Spec => []NoDuplicates
  <1>1. Safety => NoDuplicates
    BY DEF Safety, ListedOnce, Apart, SameSlot, NoDuplicates, ArrayConsistent
  <1> QED
    BY <1>1, Always, PTL

\* When nothing is at work the list is that of the folder selected, and its items say
\* where their messages are (ListIsOfFolder), unless a load was dropped, has failed or
\* came after that of a later folder: a folder is selected by starting a load of it, and
\* until that load is shown it accounts for a list of another folder; no merge is left to
\* follow it but of the folder shown (handleMessageListUpdate, main_window.go).
THEOREM ListFollowsFolder == Spec => []ListIsOfFolder
  <1>1. Safety => ListIsOfFolder
    BY FollowedIsListed DEF Safety
  <1> QED
    BY <1>1, Always, PTL

\* freshFetchInProgress is set only while a load is at work that will clear it, whatever
\* is selected and whatever fails meanwhile: FetchIsOwned.
THEOREM FetchesAreOwned == Spec => []FetchIsOwned
  <1>1. Safety => FetchIsOwned
    BY DEF Safety, FlagsHeld, Hold, Holds, Loading, FetchIsOwned
  <1> QED
    BY <1>1, Always, PTL

\* New mail of an account is kept out of the unified inbox only while a removal from
\* that account is at work, or the timer that lets it in again, for any number of
\* removals at a time: SuppressIsOwned, with the exceptions that it names (message_ops.go
\* 495 and 639).
THEOREM SuppressionsAreOwned == Spec => []SuppressIsOwned
  <1>1. Safety => SuppressIsOwned
    <2> SUFFICES ASSUME Safety, NEW a \in suppress \ stuck
                 PROVE  \E i \in DOMAIN tasks : tasks[i].kind \in {"op", "lift"} /\ tasks[i].acct = a
      BY DEF SuppressIsOwned
    <2>1. a # None
      BY Known0, WindowAssumption DEF Safety, ServerOK, ViewOK
    <2> QED
      BY <2>1 DEF Safety, FlagsHeld, Hold, Holds
  <1> QED
    BY <1>1, Always, PTL

\* A message leaves a server only by a delete or a move of an item that names it and
\* was picked for that: loads, folders and accounts selected, mail that arrives and
\* timers between the command and the call do not make its pointers point elsewhere
\* (message_ops.go:613), unless items change their places in the array that they lead
\* into, or another message is selected before the question is answered.
THEOREM RemovalsArePicked == Spec => RemovesOnlyPicked
  <1>1. Safety /\ [Next]_vars =>
          [\A m \in mail \ mail' :
             shaken \/ \E i \in DOMAIN tasks : tasks[i].kind \in {"op", "batch"} /\ m \in tasks[i].want]_vars
    BY RemovedWasPicked DEF Safety
  <1> QED
    BY <1>1, Always, PTL DEF Spec, RemovesOnlyPicked
=============================================================================
