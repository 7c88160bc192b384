-------------------------- MODULE Deployment_proofs --------------------------
(***************************************************************************)
(* Proofs about the parts around the core, for any tasks, requests and     *)
(* page sizes and a log of any length: a client that pages through a list  *)
(* misses nothing and gets nothing twice, the reader of a pull-based queue *)
(* hands out the events in order, and the work queues lose no message.     *)
(***************************************************************************)
EXTENDS MCDeployment, Sequences, FiniteSetTheorems, WellFoundedInduction, TLAPS

-----------------------------------------------------------------------------
(***************************************************************************)
(* Sets of numbers and lists in an order.                                  *)
(***************************************************************************)
\* What sort.Search finds: the first place of a non-empty set of places.
LEMMA Smallest ==
    ASSUME NEW S, S \subseteq Nat, S # {}
    PROVE  \E k \in S : \A l \in S : k <= l
<1>1. PICK k \in S : \A l \in S : ~(<<l, k>> \in OpToRel(<, Nat))
  BY WFMin, NatLessThanWellFounded
<1>2. \A l \in S : ~(l < k)
  BY <1>1 DEF OpToRel
<1>3. k \in Nat /\ \A l \in S : l \in Nat
  OBVIOUS
<1>. QED  BY <1>2, <1>3

\* TaskList counts what the set theorems count.
LEMMA SameCount == \A S : List!Cardinality(S) = Cardinality(S)
BY DEF List!Cardinality, Cardinality

\* A map between finite sets of one size that keeps elements apart reaches
\* every element.
LEMMA OneToOneIsOnto ==
    ASSUME NEW S, NEW T, IsFiniteSet(S), IsFiniteSet(T), Cardinality(S) = Cardinality(T),
           NEW f \in [S -> T], \A x, y \in S : f[x] = f[y] => x = y
    PROVE  \A z \in T : \E x \in S : f[x] = z
<1>1. f \in Injection(S, T)
  BY DEF Injection, IsInjective
<1>2. f \in Surjection(S, T)
  BY <1>1, FS_Injection
<1>. QED  BY <1>2 DEF Surjection

\* The numbers 1 to the size of a finite set are as many as it has elements.
LEMMA AsManyPlaces ==
    ASSUME NEW S, IsFiniteSet(S)
    PROVE  /\ Cardinality(S) \in Nat
           /\ IsFiniteSet(1..Cardinality(S))
           /\ Cardinality(1..Cardinality(S)) = Cardinality(S)
<1>1. Cardinality(S) \in Nat
  BY FS_CardinalityType
<1>. QED  BY <1>1, FS_Interval

-----------------------------------------------------------------------------
(***************************************************************************)
(* The list of tasks in its order.                                         *)
(***************************************************************************)
\* The tasks in the store.
StoreOK == tasks \in [Ids -> List!Stored \cup {Nil}]
InStore == {i \in Ids : tasks[i] # Nil}

Ordered(s) == \A k, l \in DOMAIN s : k < l => List!Before(s[k], s[l])

\* The times of stored tasks are times.
LEMMA Times ==
    ASSUME StoreOK, NEW i \in InStore
    PROVE  i \in Int /\ tasks[i] \in List!Stored /\ tasks[i].lastUpdated \in 0..MaxTime
           /\ tasks[i].lastUpdated \in Int
BY ListAssumption DEF StoreOK, InStore, List!Stored

\* Any two tasks have an order, and it is a strict one.
LEMMA TotalOrder ==
    ASSUME StoreOK, NEW i \in InStore, NEW j \in InStore
    PROVE  /\ i = j \/ List!Before(i, j) \/ List!Before(j, i)
           /\ ~List!Before(i, i)
           /\ \A k \in InStore : List!Before(i, j) /\ List!Before(j, k) => List!Before(i, k)
<1>. /\ i \in Int /\ tasks[i].lastUpdated \in Int
     /\ j \in Int /\ tasks[j].lastUpdated \in Int
  BY Times
<1>1. ASSUME NEW k \in InStore, List!Before(i, j), List!Before(j, k)
      PROVE  List!Before(i, k)
  <2>1. k \in Int /\ tasks[k].lastUpdated \in Int
    BY Times
  <2>. QED  BY <1>1, <2>1 DEF List!Before
<1>. QED  BY <1>1 DEF List!Before

\* A task's rank is the number of tasks before it; it decides the order.
Rank(S) == [i \in S |-> Cardinality({j \in S : List!Before(j, i)}) + 1]

LEMMA RankDecides ==
    ASSUME StoreOK, NEW S, S \subseteq InStore, IsFiniteSet(S)
    PROVE  /\ Rank(S) \in [S -> 1..Cardinality(S)]
           /\ \A i, j \in S : List!Before(i, j) => Rank(S)[i] < Rank(S)[j]
<1>. DEFINE Ahead(i) == {j \in S : List!Before(j, i)}
<1>1. ASSUME NEW i \in S
      PROVE  IsFiniteSet(Ahead(i)) /\ Cardinality(Ahead(i)) \in Nat
             /\ Cardinality(Ahead(i)) < Cardinality(S)
  <2>1. Ahead(i) \in SUBSET S
    OBVIOUS
  <2>2. i \notin Ahead(i)
    BY TotalOrder
  <2>3. Cardinality(S) \in Nat
    BY FS_CardinalityType
  <2>4. /\ IsFiniteSet(Ahead(i)) /\ Cardinality(Ahead(i)) <= Cardinality(S)
        /\ Cardinality(S) = Cardinality(Ahead(i)) => S = Ahead(i)
    BY <2>1, FS_Subset
  <2>5. Cardinality(Ahead(i)) \in Nat
    BY <2>4, FS_CardinalityType
  <2>. HIDE DEF Ahead
  <2>. QED  BY <2>2, <2>3, <2>4, <2>5
<1>2. ASSUME NEW i \in S, NEW j \in S, List!Before(i, j)
      PROVE  Cardinality(Ahead(i)) < Cardinality(Ahead(j))
  <2>1. Ahead(i) \in SUBSET Ahead(j)
    <3>1. ASSUME NEW k \in S, List!Before(k, i)  PROVE List!Before(k, j)
      BY <1>2, <3>1, TotalOrder
    <3>. QED  BY <3>1
  <2>2. i \in Ahead(j) /\ i \notin Ahead(i)
    BY <1>2, TotalOrder
  <2>3. /\ Cardinality(Ahead(i)) <= Cardinality(Ahead(j))
        /\ Cardinality(Ahead(j)) = Cardinality(Ahead(i)) => Ahead(j) = Ahead(i)
    BY <1>1, <2>1, FS_Subset
  <2>4. Cardinality(Ahead(i)) \in Nat /\ Cardinality(Ahead(j)) \in Nat
    BY <1>1
  <2>. HIDE DEF Ahead
  <2>. QED  BY <2>2, <2>3, <2>4
<1>3. Rank(S) = [i \in S |-> Cardinality(Ahead(i)) + 1]
  BY DEF Rank
<1>4. Cardinality(S) \in Nat
  BY FS_CardinalityType
<1>. HIDE DEF Ahead
<1>. QED  BY <1>1, <1>2, <1>3, <1>4

\* The tasks can be put in their order.
LEMMA OrderExists ==
    ASSUME StoreOK, NEW S, S \subseteq InStore, IsFiniteSet(S)
    PROVE  \E s \in [1..Cardinality(S) -> S] : Ordered(s)
<1>. DEFINE n == Cardinality(S)
            R == Rank(S)
            s == [k \in 1..n |-> CHOOSE i \in S : R[i] = k]
<1>1. R \in [S -> 1..n] /\ \A i, j \in S : List!Before(i, j) => R[i] < R[j]
  BY RankDecides
<1>2. n \in Nat
  BY FS_CardinalityType
<1>3. ASSUME NEW i \in S, NEW j \in S, R[i] = R[j]  PROVE i = j
  <2>1. R[i] \in Int /\ R[j] \in Int
    BY <1>1, <1>2
  <2>2. ~(R[i] < R[j]) /\ ~(R[j] < R[i])
    BY <1>3, <2>1
  <2>3. ~List!Before(i, j) /\ ~List!Before(j, i)
    BY <1>1, <2>2
  <2>. QED  BY <2>3, TotalOrder
<1>4. \A k \in 1..n : \E i \in S : R[i] = k
  <2>. DEFINE P == 1..n
  <2>1. IsFiniteSet(P) /\ Cardinality(P) = Cardinality(S)
    BY AsManyPlaces
  <2>2. R \in [S -> P]
    BY <1>1
  <2>. HIDE DEF P, n, R
  <2>3. \A k \in P : \E i \in S : R[i] = k
    BY <1>3, <2>1, <2>2, OneToOneIsOnto
  <2>. QED  BY <2>3 DEF P
<1>5. \A k \in 1..n : s[k] \in S /\ R[s[k]] = k
  BY <1>4
<1>6. ASSUME NEW k \in 1..n, NEW l \in 1..n, k < l  PROVE List!Before(s[k], s[l])
  <2>1. s[k] \in S /\ s[l] \in S /\ R[s[k]] = k /\ R[s[l]] = l
    BY <1>5
  <2>2. ~(l < k) /\ k # l
    BY <1>2, <1>6
  <2>. HIDE DEF s, R
  <2>3. s[k] # s[l] /\ ~List!Before(s[l], s[k])
    BY <1>1, <2>1, <2>2
  <2>. QED  BY <2>1, <2>3, TotalOrder
<1>7. s \in [1..n -> S]
  BY <1>5
<1>8. DOMAIN s = 1..n
  OBVIOUS
<1>. HIDE DEF s, n
<1>. QED  BY <1>6, <1>7, <1>8 DEF Ordered, n

\* Sorted lists every task once.
LEMMA SortedLists ==
    ASSUME StoreOK, NEW S, S \subseteq InStore, IsFiniteSet(S)
    PROVE  LET s == List!Sorted(S)
           IN  /\ s \in [1..Cardinality(S) -> S] /\ Ordered(s)
               /\ \A i \in S : \E k \in DOMAIN s : s[k] = i
<1>. DEFINE n == Cardinality(S)
            s == List!Sorted(S)
<1>1. s \in [1..n -> S] /\ Ordered(s)
  <2>1. \E f \in [1..List!Cardinality(S) -> S] : Ordered(f)
    BY OrderExists, SameCount
  <2>2. s = CHOOSE f \in [1..List!Cardinality(S) -> S] : Ordered(f)
    BY DEF List!Sorted, Ordered
  <2>3. s \in [1..List!Cardinality(S) -> S] /\ Ordered(s)
    BY <2>1, <2>2
  <2>. QED  BY <2>3, SameCount
<1>2. IsFiniteSet(1..n) /\ Cardinality(1..n) = n /\ n \in Nat
  BY AsManyPlaces
<1>. HIDE DEF s
<1>3. ASSUME NEW k \in 1..n, NEW l \in 1..n, s[k] = s[l]  PROVE k = l
  <2>1. s[k] \in InStore /\ DOMAIN s = 1..n
    BY <1>1
  <2>2. ~List!Before(s[k], s[l]) /\ ~List!Before(s[l], s[k])
    BY <1>3, <2>1, TotalOrder
  <2>3. ~(k < l) /\ ~(l < k)
    BY <1>1, <2>1, <2>2 DEF Ordered
  <2>. QED  BY <1>2, <2>3
<1>. HIDE DEF n
<1>4. \A i \in S : \E k \in 1..n : s[k] = i
  BY <1>1, <1>2, <1>3, OneToOneIsOnto DEF n
<1>. QED  BY <1>1, <1>4 DEF s, n

-----------------------------------------------------------------------------
(***************************************************************************)
(* The tasks behind a token.                                               *)
(***************************************************************************)
Tokens == [time : 0..MaxTime, id : Ids]

\* What a page starts from: all tasks, or those behind the last page.
Due(i, t) == t = Nil \/ List!Past(i, t)

\* Who comes after a task that is due is due.
LEMMA PastIsClosed ==
    ASSUME StoreOK, NEW t \in Tokens, NEW i \in InStore, NEW j \in InStore,
           List!Past(i, t), List!Before(i, j)
    PROVE  List!Past(j, t)
<1>. /\ i \in Int /\ tasks[i].lastUpdated \in Int
     /\ j \in Int /\ tasks[j].lastUpdated \in Int
  BY Times
<1>. t.time \in Int /\ t.id \in Int
  <2>1. t.time \in 0..MaxTime /\ t.id \in Ids
    BY DEF Tokens
  <2>2. Ids \subseteq Int /\ MaxTime \in Nat
    BY ListAssumption
  <2>3. t.time \in Int
    BY <2>1, <2>2
  <2>4. t.id \in Int
    BY <2>1, <2>2
  <2>. QED  BY <2>3, <2>4
<1>. QED  BY DEF List!Past, List!Before

\* A list of every task of a set, in their order.
Lists(s, S) ==
    /\ s \in [1..Cardinality(S) -> S] /\ Ordered(s)
    /\ \A i \in S : \E k \in DOMAIN s : s[k] = i

\* A token that is understood: its id has no underscore.
Understood(t) == t = Nil \/ (t \in Tokens /\ t.id \notin Underscored)

\* What is due for a token, in order.
IsRest(r, S, t) ==
    /\ r \in Seq(S) /\ Ordered(r)
    /\ \A k \in DOMAIN r : Due(r[k], t)
    /\ \A i \in S : Due(i, t) => \E k \in DOMAIN r : r[k] = i

\* Rest finds the tasks that are due.
LEMMA RestIsDue ==
    ASSUME StoreOK, NEW S, S \subseteq InStore, IsFiniteSet(S), NEW s, Lists(s, S),
           NEW t, Understood(t)
    PROVE  IsRest(List!Rest(s, t), S, t)
<1>. DEFINE n == Cardinality(S)
<1>. n \in Nat
  BY FS_CardinalityType
<1>. s \in [1..n -> S] /\ Ordered(s) /\ (\A i \in S : \E k \in DOMAIN s : s[k] = i)
  BY DEF Lists
<1>. HIDE DEF n
<1>. USE DEF IsRest
<1>. DEFINE behind == {k \in DOMAIN s : List!Past(s[k], t)}
<1>0. DOMAIN s = 1..n /\ s \in Seq(S) /\ Len(s) = n
  OBVIOUS
<1>1. CASE t = Nil
  <2>1. List!Rest(s, t) = s
    BY <1>1 DEF List!Rest
  <2>. QED  BY <1>0, <1>1, <2>1 DEF Due
<1>2. ASSUME t # Nil  PROVE List!decodePageToken(t) = t /\ t \in Tokens
  BY <1>2 DEF List!decodePageToken, Understood
<1>3. CASE t # Nil /\ behind = {}
  <2>1. List!Rest(s, t) = <<>>
    BY <1>2, <1>3 DEF List!Rest
  <2>2. \A i \in S : ~Due(i, t)
    BY <1>3 DEF Due
  <2>. QED  BY <2>1, <2>2 DEF Ordered
<1>4. CASE t # Nil /\ behind # {}
  <2>. DEFINE k == CHOOSE k \in behind : \A l \in behind : k <= l
              r == SubSeq(s, k, n)
  <2>1. List!Rest(s, t) = r
    BY <1>0, <1>2, <1>4 DEF List!Rest
  <2>2. k \in behind /\ \A l \in behind : k <= l
    <3>1. behind \subseteq Nat
      BY <1>0
    <3>. HIDE DEF behind
    <3>. QED  BY <1>4, <3>1, Smallest
  <2>3. k \in 1..n /\ List!Past(s[k], t)
    BY <1>0, <2>2
  <2>. HIDE DEF k
  <2>4. /\ r \in Seq(S) /\ DOMAIN r = 1..(n - k + 1)
        /\ \A j \in 1..(n - k + 1) : k + j - 1 \in 1..n /\ r[j] = s[k + j - 1]
    BY <1>0, <2>3
  <2>. HIDE DEF r
  <2>5. Ordered(r)
    <3>1. SUFFICES ASSUME NEW i \in DOMAIN r, NEW j \in DOMAIN r, i < j
                   PROVE  List!Before(r[i], r[j])
      BY DEF Ordered
    <3>2. i \in Int /\ j \in Int /\ k + i - 1 < k + j - 1
      BY <2>3, <2>4, <3>1
    <3>. QED  BY <1>0, <2>4, <3>2 DEF Ordered
  <2>6. ASSUME NEW j \in DOMAIN r  PROVE List!Past(r[j], t)
    <3>1. r[j] = s[k + j - 1] /\ k + j - 1 \in 1..n /\ j \in 1..(n - k + 1)
      BY <2>4
    <3>2. s[k] \in InStore /\ s[k + j - 1] \in InStore
      BY <2>3, <3>1
    <3>3. CASE j = 1
      <4>1. k + j - 1 = k
        BY <2>3, <3>3
      <4>. QED  BY <2>3, <3>1, <4>1
    <3>4. CASE j # 1
      <4>1. k < k + j - 1
        BY <2>3, <3>1, <3>4
      <4>2. List!Before(s[k], s[k + j - 1])
        BY <1>0, <2>3, <3>1, <4>1 DEF Ordered
      <4>. QED  BY <1>2, <1>4, <2>3, <3>1, <3>2, <4>2, PastIsClosed
    <3>. QED  BY <3>3, <3>4
  <2>7. ASSUME NEW i \in S, Due(i, t)  PROVE \E j \in DOMAIN r : r[j] = i
    <3>1. PICK l \in 1..n : s[l] = i
      BY <1>0
    <3>2. l \in behind
      BY <1>0, <1>4, <2>7, <3>1 DEF Due
    <3>3. k <= l
      BY <2>2, <3>2
    <3>4. l - k + 1 \in 1..(n - k + 1) /\ k + (l - k + 1) - 1 = l
      BY <2>3, <3>1, <3>3
    <3>. QED  BY <2>4, <3>1, <3>4
  <2>. QED  BY <2>1, <2>4, <2>5, <2>6, <2>7 DEF Due
<1>. QED  BY <1>1, <1>3, <1>4

-----------------------------------------------------------------------------
(***************************************************************************)
(* The inductive invariant of the list.                                    *)
(***************************************************************************)
ListTypeOK ==
    /\ StoreOK /\ clock \in 0..MaxTime /\ listed \in Seq(Ids)
    /\ pc \in {"idle", "paging", "done", "refused", "badToken"}
    /\ token \in Tokens \cup {Nil}

\* No time is in the future.
TimesOK == \A i \in InStore : tasks[i].lastUpdated <= clock

IsListed(i) == \E k \in DOMAIN listed : listed[k] = i

\* No task is listed twice, and none of another user.
ListedOK ==
    /\ \A k, l \in DOMAIN listed : listed[k] = listed[l] => k = l
    /\ \A k \in DOMAIN listed : listed[k] \in InStore /\ OwnerOf[listed[k]] = request.user

\* What is listed stays before the token, since a task that is written moves to
\* the front: its time is now, and the token is not of the future.  What
\* matches, is not behind the token and was not written is listed.
TokenOK ==
    /\ pc \in {"idle", "paging"} /\ token = Nil => listed = <<>>
    /\ pc \in {"idle", "paging"} /\ token # Nil =>
          /\ token.time <= clock
          /\ \A k \in DOMAIN listed : ~List!Past(listed[k], token)
          /\ \A i \in List!filterTasks(request) \ touched : List!Past(i, token) \/ IsListed(i)
    /\ pc = "idle" => token = Nil

DoneOK == pc = "done" => \A i \in List!filterTasks(request) \ touched : IsListed(i)

ListInv == ListTypeOK /\ TimesOK /\ ListedOK /\ TokenOK /\ DoneOK

\* What matches is in the store.
LEMMA FilteredInStore ==
    /\ List!filterTasks(request) \subseteq InStore
    /\ IsFiniteSet(List!filterTasks(request))
    /\ \A i \in List!filterTasks(request) : OwnerOf[i] = request.user
<1>1. List!filterTasks(request) \in SUBSET Ids
  BY DEF List!filterTasks
<1>2. IsFiniteSet(Ids)
  BY ListAssumption
<1>3. IsFiniteSet(List!filterTasks(request))
  BY <1>1, <1>2, FS_Subset
<1>. QED  BY <1>3 DEF List!filterTasks, InStore

LEMMA ListStarts ==
    ASSUME List!Init  PROVE ListInv
<1>1. ListTypeOK
  BY ListAssumption DEF List!Init, ListTypeOK, StoreOK
<1>2. TimesOK
  BY DEF List!Init, TimesOK, InStore
<1>3. ListedOK /\ TokenOK /\ DoneOK
  BY DEF List!Init, ListedOK, TokenOK, DoneOK
<1>. QED  BY <1>1, <1>2, <1>3 DEF ListInv

\* A write gives one task the current time and leaves the others.
LEMMA PutKeeps ==
    ASSUME ListInv, NEW i \in Ids, NEW now \in List!Now, NEW s \in States, List!Put(i, now, s)
    PROVE  ListInv'
<1>. USE DEF ListInv
<1>1. PICK stamp \in {now, Nil} :
          tasks' = [tasks EXCEPT ![i] = [state |-> s, stamp |-> stamp, lastUpdated |-> now]]
  BY DEF List!Put
<1>. DEFINE new == [state |-> s, stamp |-> stamp, lastUpdated |-> now]
<1>2. now \in 0..MaxTime /\ clock <= now /\ clock \in Int /\ now \in Int /\ clock' = now
  BY DEF List!Now, List!Put, ListTypeOK
<1>3. new \in List!Stored /\ new.lastUpdated = now
  BY <1>2 DEF List!Stored
<1>4. UNCHANGED <<request, pc, token, listed>> /\ pc \in {"idle", "paging"}
  BY DEF List!Put
<1>5. /\ tasks'[i] = new
      /\ \A j \in Ids : j # i => tasks'[j] = tasks[j]
  BY <1>1 DEF ListTypeOK, StoreOK
<1>. HIDE DEF new
<1>6. StoreOK'
  BY <1>1, <1>3 DEF ListTypeOK, StoreOK, new
<1>7. ListTypeOK'
  BY <1>2, <1>4, <1>6 DEF ListTypeOK
<1>8. TimesOK'
  <2>1. ASSUME NEW j \in InStore'  PROVE tasks'[j].lastUpdated <= clock'
    <3>1. CASE j = i
      BY <1>2, <1>3, <1>5, <3>1
    <3>2. CASE j # i
      <4>1. j \in InStore /\ tasks'[j] = tasks[j]
        BY <1>5, <2>1, <3>2 DEF InStore
      <4>2. tasks[j].lastUpdated <= clock /\ tasks[j].lastUpdated \in Int
        BY <4>1, Times DEF TimesOK, ListTypeOK
      <4>. QED  BY <1>2, <4>1, <4>2
    <3>. QED  BY <3>1, <3>2
  <2>. QED  BY <2>1 DEF TimesOK
<1>9. new # Nil
  BY <1>3, ListAssumption
<1>10. \A j \in InStore : j \in InStore' /\ (j # i => tasks'[j] = tasks[j])
  BY <1>5, <1>9 DEF InStore
<1>11. ListedOK'
  BY <1>4, <1>10 DEF ListedOK
<1>12. pc # "idle" => touched' = touched \cup {i}
  BY DEF List!Put
<1>13. \A j \in Ids :
          j # i => /\ j \in List!filterTasks(request)' <=> j \in List!filterTasks(request)
                   /\ \A t : List!Past(j, t)' <=> List!Past(j, t)
  BY <1>4, <1>5 DEF List!filterTasks, List!Past
<1>14. TokenOK'
  <2>1. SUFFICES ASSUME token # Nil, pc = "paging"
        PROVE  /\ token.time <= clock'
               /\ \A k \in DOMAIN listed : ~List!Past(listed[k], token)'
               /\ \A j \in List!filterTasks(request)' \ touched' :
                     List!Past(j, token)' \/ IsListed(j)'
    BY <1>4 DEF TokenOK
  <2>2. /\ token.time <= clock
        /\ \A k \in DOMAIN listed : ~List!Past(listed[k], token)
        /\ \A j \in List!filterTasks(request) \ touched : List!Past(j, token) \/ IsListed(j)
    BY <1>4, <2>1 DEF TokenOK
  <2>3. token \in Tokens /\ token.time \in 0..MaxTime /\ token.time \in Int
    BY <1>2, <2>1 DEF ListTypeOK, Tokens
  <2>4. token.time <= now
    BY <1>2, <2>2, <2>3
  <2>5. ASSUME NEW k \in DOMAIN listed  PROVE ~List!Past(listed[k], token)'
    <3>1. listed[k] \in InStore /\ listed[k] \in Ids /\ listed[k] \in Int
      BY Times DEF ListedOK, ListTypeOK, InStore
    <3>2. CASE listed[k] # i
      BY <1>4, <1>13, <2>2, <3>1, <3>2
    <3>3. CASE listed[k] = i
      <4>1. tasks[i].lastUpdated <= clock /\ tasks[i].lastUpdated \in Int
        BY <3>1, <3>3, Times DEF TimesOK, ListTypeOK
      <4>2. ~(i < token.id) \/ tasks[i].lastUpdated # token.time
        BY <2>2, <3>3 DEF List!Past
      <4>3. ~(tasks[i].lastUpdated < token.time)
        BY <2>2, <3>3 DEF List!Past
      <4>4. now = token.time => tasks[i].lastUpdated = token.time
        BY <1>2, <2>3, <4>1, <4>3
      <4>5. ~(now < token.time) /\ ~(now = token.time /\ i < token.id)
        BY <1>2, <2>3, <2>4, <4>2, <4>4
      <4>6. tasks'[i].lastUpdated = now /\ token' = token /\ listed' = listed
        BY <1>3, <1>4, <1>5
      <4>. QED  BY <3>3, <4>5, <4>6 DEF List!Past
    <3>. QED  BY <3>2, <3>3
  <2>6. ASSUME NEW j \in List!filterTasks(request)' \ touched'
        PROVE  List!Past(j, token)' \/ IsListed(j)'
    <3>1. j # i /\ j \in Ids /\ j \notin touched
      BY <1>12, <2>1 DEF List!filterTasks
    <3>2. List!Past(j, token) \/ IsListed(j)
      BY <1>13, <2>2, <3>1
    <3>. QED  BY <1>4, <1>13, <3>1, <3>2 DEF IsListed
  <2>. QED  BY <1>2, <2>4, <2>5, <2>6
<1>15. DoneOK'
  BY <1>4 DEF DoneOK
<1>. QED  BY <1>7, <1>8, <1>11, <1>14, <1>15

\* A token names a task, and behind it are the tasks after that one.
LEMMA TokenMeans ==
    ASSUME StoreOK, NEW e \in InStore
    PROVE  /\ List!encodePageToken(e) \in Tokens /\ List!encodePageToken(e) # Nil
           /\ List!encodePageToken(e).time = tasks[e].lastUpdated
           /\ \A i \in InStore : List!Past(i, List!encodePageToken(e)) <=> List!Before(e, i)
<1>1. e \in Ids /\ e \in Int /\ tasks[e].lastUpdated \in 0..MaxTime /\ tasks[e].lastUpdated \in Int
  BY Times DEF InStore
<1>2. List!encodePageToken(e) \in Tokens
  BY <1>1 DEF List!encodePageToken, Tokens
<1>3. List!encodePageToken(e) # Nil
  BY <1>2, ListAssumption DEF Tokens
<1>4. ASSUME NEW i \in InStore
      PROVE  List!Past(i, List!encodePageToken(e)) <=> List!Before(e, i)
  <2>1. i \in Int /\ tasks[i].lastUpdated \in Int
    BY Times
  <2>. QED  BY <1>1, <2>1 DEF List!encodePageToken, List!Past, List!Before
<1>. QED  BY <1>2, <1>3, <1>4 DEF List!encodePageToken

\* The rest of the list, for the request and the token of the client.
Rest == List!Rest(List!Sorted(List!filterTasks(request)), token)

LEMMA RestFacts ==
    ASSUME StoreOK, Understood(token)
    PROVE  /\ Rest \in Seq(InStore) /\ Ordered(Rest) /\ Len(Rest) \in Nat
           /\ DOMAIN Rest = 1..Len(Rest)
           /\ \A k \in DOMAIN Rest : /\ Rest[k] \in List!filterTasks(request) /\ Rest[k] \in InStore
                                     /\ Due(Rest[k], token)
           /\ \A i \in List!filterTasks(request) :
                 Due(i, token) => \E k \in DOMAIN Rest : Rest[k] = i
<1>. DEFINE F == List!filterTasks(request)
            s == List!Sorted(F)
            r == Rest
<1>1. F \subseteq InStore /\ IsFiniteSet(F)
  BY FilteredInStore
<1>2. Lists(s, F)
  BY <1>1, SortedLists DEF Lists
<1>. HIDE DEF s, F
<1>3. IsRest(List!Rest(s, token), F, token)
  BY <1>1, <1>2, RestIsDue
<1>4. IsRest(r, F, token)
  BY <1>3 DEF Rest, s, F
<1>. HIDE DEF r
<1>5. /\ r \in Seq(F) /\ Ordered(r)
      /\ \A k \in DOMAIN r : Due(r[k], token)
      /\ \A i \in F : Due(i, token) => \E k \in DOMAIN r : r[k] = i
  BY <1>4 DEF IsRest
<1>6. Len(r) \in Nat /\ DOMAIN r = 1..Len(r) /\ \A k \in DOMAIN r : r[k] \in F
  BY <1>5
<1>7. r \in Seq(InStore)
  BY <1>1, <1>5
<1>. QED  BY <1>1, <1>5, <1>6, <1>7 DEF r, F

\* The tasks of a page are listed behind those of the earlier ones.
LEMMA ListedGrows ==
    ASSUME ListTypeOK, NEW page \in Seq(InStore), listed' = listed \o page
    PROVE  /\ listed' \in Seq(Ids)
           /\ \A k \in DOMAIN listed' :
                 \/ k \in DOMAIN listed /\ listed'[k] = listed[k]
                 \/ \E l \in DOMAIN page : k = Len(listed) + l /\ listed'[k] = page[l]
           /\ \A i : IsListed(i)' <=> IsListed(i) \/ \E l \in DOMAIN page : page[l] = i
<1>1. listed \in Seq(Ids) /\ page \in Seq(Ids)
  BY DEF ListTypeOK, InStore
<1>2. /\ DOMAIN listed = 1..Len(listed) /\ DOMAIN page = 1..Len(page)
      /\ Len(listed) \in Nat /\ Len(page) \in Nat
      /\ DOMAIN listed' = 1..(Len(listed) + Len(page))
  BY <1>1
<1>3. listed' \in Seq(Ids)
  BY <1>1
<1>4. ASSUME NEW k \in DOMAIN listed'
      PROVE  \/ k \in DOMAIN listed /\ listed'[k] = listed[k]
             \/ \E l \in DOMAIN page : k = Len(listed) + l /\ listed'[k] = page[l]
  <2>1. CASE k <= Len(listed)
    BY <1>1, <1>2, <2>1
  <2>2. CASE ~(k <= Len(listed))
    <3>1. k - Len(listed) \in DOMAIN page /\ k = Len(listed) + (k - Len(listed))
      BY <1>2, <2>2
    <3>2. listed'[k] = page[k - Len(listed)]
      BY <1>1, <1>2, <2>2
    <3>. QED  BY <3>1, <3>2
  <2>. QED  BY <2>1, <2>2
<1>5. ASSUME NEW k \in DOMAIN listed  PROVE k \in DOMAIN listed' /\ listed'[k] = listed[k]
  BY <1>1, <1>2
<1>6. ASSUME NEW l \in DOMAIN page
      PROVE  Len(listed) + l \in DOMAIN listed' /\ listed'[Len(listed) + l] = page[l]
  BY <1>1, <1>2
<1>7. ASSUME NEW i
      PROVE  IsListed(i)' <=> IsListed(i) \/ \E l \in DOMAIN page : page[l] = i
  <2>1. ASSUME IsListed(i)'  PROVE IsListed(i) \/ \E l \in DOMAIN page : page[l] = i
    <3>1. PICK k \in DOMAIN listed' : listed'[k] = i
      BY <2>1 DEF IsListed
    <3>. QED  BY <1>4, <3>1 DEF IsListed
  <2>2. ASSUME IsListed(i)  PROVE IsListed(i)'
    <3>1. PICK k \in DOMAIN listed : listed[k] = i
      BY <2>2 DEF IsListed
    <3>2. k \in DOMAIN listed' /\ listed'[k] = i
      BY <1>5, <3>1
    <3>. QED  BY <3>2 DEF IsListed
  <2>3. ASSUME NEW l \in DOMAIN page, page[l] = i  PROVE IsListed(i)'
    <3>1. Len(listed) + l \in DOMAIN listed' /\ listed'[Len(listed) + l] = i
      BY <1>6, <2>3
    <3>. QED  BY <3>1 DEF IsListed
  <2>. QED  BY <2>1, <2>2, <2>3
<1>. QED  BY <1>3, <1>4, <1>7

\* A call of List that returns a page.
LEMMA PageKeeps ==
    ASSUME ListInv, List!List, List!Accepted(request), pc = "paging", Understood(token)
    PROVE  ListInv'
<1>. USE DEF ListInv
<1>. DEFINE r == Rest
            p == List!PageSize(request)
            more == p < Len(r)
            page == IF more THEN SubSeq(r, 1, p) ELSE r
<1>1. /\ listed' = listed \o page
      /\ token' = IF more THEN List!encodePageToken(List!Last(page)) ELSE Nil
      /\ pc' = IF more THEN "paging" ELSE "done"
  <2>1. ~(token # Nil /\ List!decodePageToken(token) = Nil)
    BY ListAssumption DEF Understood, List!decodePageToken, Tokens
  <2>. QED  BY <2>1 DEF List!List, Rest
<1>2. UNCHANGED <<tasks, clock, request, touched>>
  BY DEF List!List
<1>3. p \in Int /\ 1 <= p
  BY DEF List!Accepted
<1>4. StoreOK
  BY DEF ListTypeOK
<1>5. /\ r \in Seq(InStore) /\ Ordered(r) /\ Len(r) \in Nat /\ DOMAIN r = 1..Len(r)
      /\ \A k \in DOMAIN r : /\ r[k] \in List!filterTasks(request) /\ r[k] \in InStore
                             /\ Due(r[k], token)
      /\ \A i \in List!filterTasks(request) : Due(i, token) => \E k \in DOMAIN r : r[k] = i
  BY <1>4, RestFacts
<1>5a. Len(r) \in Nat /\ DOMAIN r = 1..Len(r) /\ r \in Seq(InStore)
  BY <1>5
<1>. DEFINE m == IF more THEN p ELSE Len(r)
<1>6. m \in 0..Len(r) /\ (more => m = p /\ p < Len(r)) /\ (~more => m = Len(r))
  BY <1>3, <1>5a
<1>6a. m \in Int /\ p \in Int /\ (more => p \in 1..Len(r))
  BY <1>3, <1>5a, <1>6
<1>. HIDE DEF r, p
<1>7. /\ page \in Seq(InStore) /\ Len(page) = m /\ DOMAIN page = 1..m
      /\ \A k \in 1..m : k \in DOMAIN r /\ page[k] = r[k]
  <2>1. CASE more
    <3>1. page = SubSeq(r, 1, p) /\ m = p
      BY <2>1
    <3>2. p \in 1..Len(r) /\ r \in Seq(InStore)
      BY <1>5a, <1>6a, <2>1
    <3>3. /\ SubSeq(r, 1, p) \in Seq(InStore) /\ Len(SubSeq(r, 1, p)) = p
          /\ \A k \in 1..p : SubSeq(r, 1, p)[k] = r[k]
      BY <3>2
    <3>4. \A k \in 1..p : k \in 1..Len(r)
      BY <1>5a, <1>6a, <2>1
    <3>5. DOMAIN SubSeq(r, 1, p) = 1..p
      BY <3>3
    <3>. QED  BY <1>5a, <3>1, <3>3, <3>4, <3>5
  <2>2. CASE ~more
    <3>1. page = r /\ m = Len(r)
      BY <2>2
    <3>. QED  BY <1>5, <3>1
  <2>. QED  BY <2>1, <2>2
<1>. HIDE DEF m, page, more
<1>8. /\ listed' \in Seq(Ids)
      /\ \A k \in DOMAIN listed' :
            \/ k \in DOMAIN listed /\ listed'[k] = listed[k]
            \/ \E l \in DOMAIN page : k = Len(listed) + l /\ listed'[k] = page[l]
      /\ \A i : IsListed(i)' <=> IsListed(i) \/ \E l \in DOMAIN page : page[l] = i
  BY <1>1, <1>7, ListedGrows
<1>. DEFINE e == r[p]
            tok == List!encodePageToken(e)
<1>9. ASSUME more
      PROVE  /\ token' = tok /\ pc' = "paging" /\ e \in InStore /\ p \in DOMAIN r
             /\ p \in DOMAIN page /\ page[p] = e
  <2>1. p \in 1..m /\ Len(page) = p
    BY <1>3, <1>6, <1>7, <1>9
  <2>2. List!Last(page) = e /\ e \in InStore /\ p \in DOMAIN r
    BY <1>5, <1>7, <2>1 DEF List!Last
  <2>. QED  BY <1>1, <1>7, <1>9, <2>1, <2>2
<1>10. ASSUME more
       PROVE  /\ tok \in Tokens /\ tok # Nil /\ tok.time = tasks[e].lastUpdated
              /\ \A i \in InStore : List!Past(i, tok) <=> List!Before(e, i)
  BY <1>4, <1>9, <1>10, TokenMeans
<1>. HIDE DEF e, tok
<1>11. ListTypeOK'
  <2>1. pc' \in {"paging", "done"} /\ token' \in Tokens \cup {Nil}
    BY <1>1, <1>9, <1>10
  <2>. QED  BY <1>2, <1>8, <2>1 DEF ListTypeOK, StoreOK
<1>12. TimesOK'
  BY <1>2 DEF TimesOK, InStore
<1>13. ASSUME NEW k \in DOMAIN listed  PROVE token # Nil /\ ~List!Past(listed[k], token)
  BY <1>13 DEF TokenOK
<1>14. ASSUME NEW k \in DOMAIN listed, NEW l \in DOMAIN page  PROVE listed[k] # page[l]
  <2>1. Due(page[l], token)
    BY <1>5, <1>7
  <2>. QED  BY <1>13, <2>1 DEF Due
<1>15. ASSUME NEW k \in DOMAIN page, NEW l \in DOMAIN page, page[k] = page[l]  PROVE k = l
  <2>a. k \in 1..m /\ l \in 1..m
    BY <1>7
  <2>b. k \in DOMAIN r /\ l \in DOMAIN r /\ page[k] = r[k] /\ page[l] = r[l]
    BY <1>7, <2>a
  <2>c. k \in Int /\ l \in Int
    BY <1>6a, <2>a
  <2>1. /\ r[k] = r[l] /\ k \in DOMAIN r /\ l \in DOMAIN r
        /\ k \in Int /\ l \in Int /\ r[k] \in InStore
    BY <1>5, <1>15, <2>b, <2>c
  <2>2. ~List!Before(r[k], r[l]) /\ ~List!Before(r[l], r[k])
    BY <1>4, <2>1, TotalOrder
  <2>. QED  BY <1>5, <2>1, <2>2 DEF Ordered
<1>16. ListedOK'
  <2>1. ASSUME NEW k \in DOMAIN listed', NEW l \in DOMAIN listed', listed'[k] = listed'[l]
        PROVE  k = l
    <3>1. CASE k \in DOMAIN listed /\ listed'[k] = listed[k]
      <4>1. ASSUME NEW x \in DOMAIN page, listed'[l] = page[x]  PROVE FALSE
        BY <1>14, <2>1, <3>1, <4>1
      <4>2. l \in DOMAIN listed /\ listed'[l] = listed[l]
        BY <1>8, <4>1
      <4>. QED  BY <2>1, <3>1, <4>2 DEF ListedOK
    <3>2. ASSUME NEW x \in DOMAIN page, k = Len(listed) + x, listed'[k] = page[x]
          PROVE  k = l
      BY <1>8, <1>14, <1>15, <2>1, <3>2
    <3>. QED  BY <1>8, <3>1, <3>2
  <2>2. ASSUME NEW k \in DOMAIN listed'
        PROVE  listed'[k] \in InStore /\ OwnerOf[listed'[k]] = request.user
    <3>1. \A l \in DOMAIN page : page[l] \in InStore /\ OwnerOf[page[l]] = request.user
      BY <1>5, <1>7, FilteredInStore
    <3>. QED  BY <1>8, <3>1 DEF ListedOK
  <2>. QED  BY <1>2, <2>1, <2>2 DEF ListedOK, InStore
\* What matches and was not written is listed, on this page or on a later one.
<1>17. ASSUME NEW i \in List!filterTasks(request) \ touched
       PROVE  \/ IsListed(i)'
              \/ more /\ List!Past(i, tok)
  <2>1. IsListed(i) \/ Due(i, token)
    BY DEF TokenOK, Due
  <2>2. CASE IsListed(i)
    BY <1>8, <2>2
  <2>3. ASSUME Due(i, token)
        PROVE  IsListed(i)' \/ (more /\ List!Past(i, tok))
    <3>1. PICK k \in DOMAIN r : r[k] = i
      BY <1>5, <2>3
    <3>2. CASE k <= m
      <4>1. k \in 1..m
        <5>1. k \in 1..Len(r)
          BY <1>5a
        <5>. QED  BY <1>5a, <1>6a, <3>2, <5>1
      <4>. QED  BY <1>7, <1>8, <3>1, <4>1
    <3>3. CASE ~(k <= m)
      <4>1. more /\ p < k
        <5>1. k \in 1..Len(r) /\ Len(r) \in Nat
          BY <1>5
        <5>2. m # Len(r)
          BY <3>3, <5>1
        <5>3. more /\ m = p
          BY <1>6, <5>2
        <5>. QED  BY <1>3, <3>3, <5>1, <5>3
      <4>2. List!Before(r[p], r[k])
        BY <1>5, <1>9, <4>1 DEF Ordered
      <4>3. i \in InStore
        BY <1>5, <3>1
      <4>. QED  BY <1>10, <3>1, <4>1, <4>2, <4>3 DEF e
    <3>. QED  BY <3>2, <3>3
  <2>. QED  BY <2>1, <2>2, <2>3
<1>18. List!filterTasks(request)' = List!filterTasks(request)
  BY <1>2 DEF List!filterTasks
<1>19. DoneOK'
  BY <1>1, <1>2, <1>17, <1>18 DEF DoneOK
<1>20. TokenOK'
  <2>1. CASE ~more
    BY <1>1, <2>1 DEF TokenOK
  <2>2. CASE more
    <3>1. tok.time <= clock
      BY <1>9, <1>10, <2>2 DEF TimesOK
    <3>2. ASSUME NEW k \in DOMAIN listed'  PROVE ~List!Past(listed'[k], tok)
      <4>1. CASE k \in DOMAIN listed /\ listed'[k] = listed[k]
        <5>1. listed[k] \in InStore
          BY <4>1 DEF ListedOK
        <5>2. token \in Tokens /\ List!Past(e, token)
          BY <1>5, <1>9, <1>13, <2>2, <4>1 DEF Due, e, ListTypeOK
        <5>3. ~List!Before(e, listed[k])
          BY <1>4, <1>9, <1>13, <2>2, <4>1, <5>1, <5>2, PastIsClosed
        <5>. QED  BY <1>10, <2>2, <4>1, <5>1, <5>3
      <4>2. ASSUME NEW l \in DOMAIN page, listed'[k] = page[l]
            PROVE  ~List!Past(listed'[k], tok)
        <5>1. l \in 1..p /\ l \in DOMAIN r /\ page[l] = r[l] /\ r[l] \in InStore /\ l \in Int
          BY <1>5, <1>6, <1>7, <2>2
        <5>2. CASE l = p
          <6>1. ~List!Before(e, r[l])
            BY <1>4, <1>9, <2>2, <5>2, TotalOrder DEF e
          <6>. QED  BY <1>10, <2>2, <4>2, <5>1, <6>1
        <5>3. CASE l # p
          <6>1. List!Before(r[l], e)
            BY <1>3, <1>5, <1>9, <2>2, <5>1, <5>3 DEF Ordered, e
          <6>2. ~List!Before(e, r[l])
            BY <1>4, <1>9, <2>2, <5>1, <6>1, TotalOrder
          <6>. QED  BY <1>10, <2>2, <4>2, <5>1, <6>2
        <5>. QED  BY <5>2, <5>3
      <4>. QED  BY <1>8, <4>1, <4>2
    <3>3. \A i \in List!filterTasks(request) \ touched : List!Past(i, tok) \/ IsListed(i)'
      BY <1>17
    <3>4. token' = tok /\ tok # Nil /\ pc' = "paging"
      BY <1>9, <1>10, <2>2
    <3>5. \A i \in InStore : List!Past(i, token)' <=> List!Past(i, tok)
      BY <1>2, <3>4 DEF List!Past
    <3>6. \A k \in DOMAIN listed' : listed'[k] \in InStore
      BY <1>2, <1>16 DEF ListedOK, InStore
    <3>7. \A k \in DOMAIN listed' : ~List!Past(listed[k], token)'
      BY <3>2, <3>5, <3>6
    <3>8. \A i \in List!filterTasks(request)' \ touched' : List!Past(i, token)' \/ IsListed(i)'
      BY <1>2, <1>18, <3>3, <3>5, FilteredInStore
    <3>. QED  BY <1>2, <3>1, <3>4, <3>7, <3>8 DEF TokenOK
  <2>. QED  BY <2>1, <2>2
<1>. QED  BY <1>11, <1>12, <1>16, <1>19, <1>20

\* A call that is refused, and the client that begins.
LEMMA OthersKeep ==
    ASSUME ListInv, UNCHANGED <<tasks, clock, request, touched, token, listed>>,
           \/ pc' \in {"refused", "badToken"}
           \/ pc = "idle" /\ pc' = "paging"
           \/ pc' = pc
    PROVE  ListInv'
<1>1. ListTypeOK' /\ TimesOK' /\ ListedOK'
  BY DEF ListInv, ListTypeOK, StoreOK, TimesOK, InStore, ListedOK
<1>2. /\ List!filterTasks(request)' = List!filterTasks(request)
      /\ \A i, t : List!Past(i, t)' <=> List!Past(i, t)
      /\ \A i : IsListed(i)' <=> IsListed(i)
  BY DEF List!filterTasks, List!Past, IsListed
<1>3. TokenOK'
  BY <1>2 DEF ListInv, TokenOK
<1>4. DoneOK'
  BY <1>2 DEF ListInv, DoneOK
<1>. QED  BY <1>1, <1>3, <1>4 DEF ListInv

LEMMA ListStepKeeps ==
    ASSUME ListInv, List!Next \/ UNCHANGED listVars
    PROVE  ListInv'
<1>1. ASSUME NEW i \in Ids, List!Create(i) \/ List!Update(i)  PROVE ListInv'
  BY <1>1, PutKeeps DEF List!Create, List!Update
<1>2. CASE List!Begin
  BY <1>2, OthersKeep DEF List!Begin
<1>3. CASE List!List
  <2>1. pc = "paging"
    BY <1>3 DEF List!List
  <2>2. CASE ~List!Accepted(request)
    BY <1>3, <2>2, OthersKeep DEF List!List
  <2>3. CASE List!Accepted(request) /\ token # Nil /\ List!decodePageToken(token) = Nil
    BY <1>3, <2>3, OthersKeep DEF List!List
  <2>4. CASE List!Accepted(request) /\ ~(token # Nil /\ List!decodePageToken(token) = Nil)
    <3>1. Understood(token)
      BY <2>4 DEF Understood, List!decodePageToken, ListInv, ListTypeOK
    <3>. QED  BY <1>3, <2>1, <2>4, <3>1, PageKeeps
  <2>. QED  BY <2>2, <2>3, <2>4
<1>4. CASE UNCHANGED listVars
  BY <1>4, OthersKeep DEF listVars
<1>. QED  BY <1>1, <1>2, <1>3, <1>4 DEF List!Next

\* The invariant says what the property counts.
LEMMA ListInvImplies ==
    ASSUME ListInv  PROVE List!PagesComplete
<1>. DEFINE At(i) == {k \in DOMAIN listed : listed[k] = i}
<1>1. \A i : List!Times(i) = Cardinality(At(i))
  BY SameCount DEF List!Times
<1>2. ASSUME NEW i, IsListed(i)  PROVE List!Times(i) = 1
  <2>1. PICK k \in DOMAIN listed : listed[k] = i
    BY <1>2 DEF IsListed
  <2>2. At(i) = {k}
    BY <2>1 DEF ListInv, ListedOK
  <2>. QED  BY <1>1, <2>2, FS_Singleton
<1>3. ASSUME NEW i, ~IsListed(i)  PROVE List!Times(i) = 0
  <2>1. At(i) = {}
    BY <1>3 DEF IsListed
  <2>. QED  BY <1>1, <2>1, FS_EmptySet
<1>. HIDE DEF At
<1>4. tasks \in [Ids -> List!Stored \cup {Nil}] /\ clock \in 0..MaxTime /\ listed \in Seq(Ids)
  BY DEF ListInv, ListTypeOK, StoreOK
<1>5. \A i \in Ids : List!Times(i) <= 1
  <2>1. ASSUME NEW i \in Ids  PROVE List!Times(i) <= 1
    <3>1. CASE IsListed(i)
      BY <1>2, <3>1
    <3>2. CASE ~IsListed(i)
      BY <1>3, <3>2
    <3>. QED  BY <3>1, <3>2
  <2>. QED  BY <2>1
<1>6. pc = "done" => \A i \in List!filterTasks(request) \ touched : List!Times(i) = 1
  BY <1>2 DEF ListInv, DoneOK
<1>7. \A k \in DOMAIN listed : OwnerOf[listed[k]] = request.user
  BY DEF ListInv, ListedOK
<1>. QED  BY <1>4, <1>5, <1>6, <1>7 DEF List!PagesComplete

\* InMemory.List: a client that follows the tokens to the end has got every
\* matching task nobody wrote meanwhile, no task twice and none of another
\* user, for any tasks, filters and page size and any writes between two pages.
THEOREM ListsAreComplete == PartsSpec => []PagesComplete
<1>1. PartsInit => ListInv
  BY ListStarts DEF PartsInit
<1>2. ListInv /\ [PartsNext]_<<part, listVars, pullVars, vars>> => ListInv'
  BY ListStepKeeps DEF PartsNext
<1>3. ListInv => PagesComplete
  BY ListInvImplies DEF PagesComplete
<1>. QED  BY <1>1, <1>2, <1>3, PTL DEF PartsSpec

-----------------------------------------------------------------------------
(***************************************************************************)
(* The inductive invariant of the reader.                                  *)
(***************************************************************************)
\* The position up to which poll has handed out or passed over the events.
handled == cursor - Len(batch)

IsReceived(i) == \E k \in DOMAIN received : received[k] = i

\* What is to be dispatched lies between what was handled and the cursor.
BatchOK ==
    /\ Len(batch) <= cursor
    /\ \A k \in DOMAIN batch : batch[k] = handled + k
    /\ poller \in {"none", "pull", "wait"} => batch = <<>>

\* The subscriber has the events up to there.
ReceivedOK ==
    /\ \A k, l \in DOMAIN received : k < l => received[k] < received[l]
    /\ \A i \in DOMAIN log : IsReceived(i) <=> i <= handled /\ log[i] # "nil"

Ended == handled # 0 /\ log[handled] = "final"

\* A final event is the last one that is handed out, and poll goes on without.
FinalOK ==
    /\ \A i \in 1..(handled - 1) : log[i] # "final"
    /\ poller \in {"none", "pull", "dispatch", "wait"} => ~Ended

\* Poll ends because of a final event or of Close, and whoever reads has not
\* closed the reader.  There is no poll without a reader.
EndOK ==
    /\ poller \in {"stopping", "puller closed", "closed"} => canceled \/ Ended
    /\ canceled => reader \in {"closing", "closed"}
    /\ result = "closed" => poller = "closed" /\ Ended
    /\ reader \in {"none", "failed"} => poller = "none"

PullInv == Pull!TypeOK /\ BatchOK /\ ReceivedOK /\ FinalOK /\ EndOK

\* The numbers and sequences of the invariant.
LEMMA PullTypes ==
    ASSUME PullInv
    PROVE  /\ Len(log) \in Nat /\ DOMAIN log = 1..Len(log) /\ log \in Seq(Pull!Kinds)
           /\ cursor \in 0..Len(log) /\ cursor \in Int
           /\ batch \in Seq(1..Len(log)) /\ Len(batch) \in Nat /\ DOMAIN batch = 1..Len(batch)
           /\ handled \in Int /\ 0 <= handled /\ handled <= cursor /\ handled <= Len(log)
           /\ received \in Seq(1..Len(log)) /\ Len(received) \in Nat
           /\ DOMAIN received = 1..Len(received)
           /\ \A k \in DOMAIN received : received[k] \in DOMAIN log /\ received[k] \in Int
<1>1. log \in Seq(Pull!Kinds) /\ cursor \in 0..Len(log)
      /\ batch \in Seq(1..Len(log)) /\ received \in Seq(1..Len(log))
  BY DEF PullInv, Pull!TypeOK
<1>2. Len(log) \in Nat /\ DOMAIN log = 1..Len(log)
  BY <1>1
<1>3. Len(batch) \in Nat /\ DOMAIN batch = 1..Len(batch)
  BY <1>1
<1>4. Len(received) \in Nat /\ DOMAIN received = 1..Len(received)
  BY <1>1
<1>5. cursor \in Int /\ 0 <= cursor /\ cursor <= Len(log)
  BY <1>1, <1>2
<1>6. handled \in Int /\ 0 <= handled /\ handled <= cursor /\ handled <= Len(log)
  BY <1>3, <1>5 DEF handled, PullInv, BatchOK
<1>7. \A k \in DOMAIN received : received[k] \in DOMAIN log /\ received[k] \in Int
  BY <1>1, <1>2, <1>4
<1>. QED  BY <1>1, <1>2, <1>3, <1>4, <1>5, <1>6, <1>7

LEMMA PullStarts ==
    ASSUME Pull!Init  PROVE PullInv
<1>0. /\ log = <<>> /\ batch = <<>> /\ received = <<>> /\ cursor = 0
      /\ Len(log) = 0 /\ Len(batch) = 0 /\ 0 \in 0..0
  BY DEF Pull!Init
<1>1. Pull!TypeOK
  <2>1. log \in Seq(Pull!Kinds) /\ Len(log) <= MaxLog /\ cursor \in 0..Len(log)
    BY <1>0, LogAssumption
  <2>2. batch \in Seq(1..Len(log)) /\ received \in Seq(1..Len(log))
    BY <1>0
  <2>. QED  BY <2>1, <2>2 DEF Pull!Init, Pull!TypeOK, Pull!Results
<1>2. handled = 0
  <2>1. cursor = 0 /\ Len(batch) = 0
    BY <1>0
  <2>. QED  BY <2>1 DEF handled
<1>3. BatchOK /\ EndOK
  BY DEF Pull!Init, BatchOK, EndOK
<1>4. ReceivedOK
  BY DEF Pull!Init, ReceivedOK, IsReceived
<1>5. FinalOK
  BY <1>2 DEF FinalOK, Ended
<1>. QED  BY <1>1, <1>3, <1>4, <1>5 DEF PullInv

\* A step that neither moves the cursor nor hands an event out.
LEMMA QuietKeeps ==
    ASSUME PullInv, Pull!TypeOK', UNCHANGED <<log, cursor, batch, received>>, EndOK',
           poller' \in {"none", "pull", "wait"} => batch = <<>>,
           poller' \in {"none", "pull", "dispatch", "wait"} =>
               poller \in {"none", "pull", "dispatch", "wait"}
    PROVE  PullInv'
<1>1. handled' = handled /\ Ended' = Ended
  BY DEF handled, Ended
<1>2. BatchOK' /\ FinalOK'
  BY <1>1 DEF PullInv, BatchOK, FinalOK
<1>3. ReceivedOK'
  BY <1>1 DEF PullInv, ReceivedOK, IsReceived
<1>. QED  BY <1>2, <1>3 DEF PullInv

\* What cannot disturb the books of the reader but its own place.
LEMMA PlaceKeeps ==
    ASSUME PullInv, UNCHANGED <<log, cursor, batch, received>>,
           poller' \in {"none", "pull", "dispatch", "wait", "stopping", "puller closed", "closed"},
           reader' \in {"none", "failed", "idle", "reading", "inactive", "closing", "closed"},
           canceled' \in BOOLEAN, result' \in Pull!Results
    PROVE  Pull!TypeOK'
BY DEF PullInv, Pull!TypeOK

\* A step of poll to a place other than the one where it hands out.
LEMMA GotoKeeps ==
    ASSUME PullInv, NEW label, Pull!Goto(label), UNCHANGED <<cursor, batch>>,
           \/ label = "pull" /\ poller = "wait"
           \/ label = "wait" /\ poller = "pull"
           \/ label = "wait" /\ poller = "dispatch" /\ batch = <<>>
           \/ label = "stopping" /\ poller \in {"pull", "dispatch", "wait"} /\ canceled
           \/ label = "puller closed" /\ poller = "stopping"
           \/ label = "closed" /\ poller = "puller closed"
    PROVE  PullInv'
<1>1. /\ poller' = label /\ UNCHANGED <<log, canceled, reader, received, result>>
  BY DEF Pull!Goto
<1>2. Pull!TypeOK'
  BY <1>1, PlaceKeeps DEF PullInv, Pull!TypeOK
<1>3. Ended' = Ended
  BY <1>1 DEF Ended, handled
<1>4. EndOK'
  BY <1>1, <1>3 DEF PullInv, EndOK
<1>5. poller' \in {"none", "pull", "wait"} => batch = <<>>
  BY <1>1 DEF PullInv, BatchOK
<1>. QED  BY <1>1, <1>2, <1>4, <1>5, QuietKeeps

\* A step of the subscriber that does not take an event.
LEMMA ReaderKeeps ==
    ASSUME PullInv, UNCHANGED <<log, cursor, batch, received, poller>>,
           reader' \in {"idle", "reading", "inactive", "closing", "closed"},
           canceled' \in BOOLEAN, result' \in Pull!Results,
           canceled' => reader' \in {"closing", "closed"}, canceled => canceled',
           result' = "closed" => result = "closed" \/ (poller = "closed" /\ Ended)
    PROVE  PullInv'
<1>1. Pull!TypeOK'
  BY PlaceKeeps DEF PullInv, Pull!TypeOK
<1>2. Ended' = Ended
  BY DEF Ended, handled
<1>3. EndOK'
  BY <1>2 DEF PullInv, EndOK
<1>4. poller' \in {"none", "pull", "wait"} => batch = <<>>
  BY DEF PullInv, BatchOK
<1>. QED  BY <1>1, <1>3, <1>4, QuietKeeps

\* The subscriber's steps.
LEMMA SubscribeKeeps ==
    ASSUME PullInv, Pull!Subscribe
    PROVE  PullInv'
<1>1. result \in Pull!Results /\ canceled \in BOOLEAN /\ EndOK
  BY DEF PullInv, Pull!TypeOK
<1>2. ASSUME NEW r \in Pull!Results, Pull!Returns(r), reader \in {"reading", "inactive"},
             r = "closed" => poller = "closed" /\ Ended
      PROVE  PullInv'
  <2>1. /\ reader' = "idle" /\ result' = r
        /\ UNCHANGED <<log, poller, cursor, batch, canceled, received>>
    BY <1>2 DEF Pull!Returns, Pull!pollVars
  <2>2. ~canceled
    BY <1>1, <1>2 DEF EndOK
  <2>. QED  BY <1>1, <1>2, <2>1, <2>2, ReaderKeeps
<1>3. CASE Pull!Read
  <2>1. ~canceled /\ reader' = "reading"
        /\ UNCHANGED <<log, poller, cursor, batch, canceled, received, result>>
    BY <1>1, <1>3 DEF Pull!Read, Pull!pollVars, EndOK
  <2>. QED  BY <1>1, <2>1, ReaderKeeps
<1>4. CASE Pull!ReadClosed
  <2>1. poller = "closed" /\ Ended
    BY <1>1, <1>4 DEF Pull!ReadClosed, EndOK
  <2>. QED  BY <1>2, <1>4, <2>1 DEF Pull!ReadClosed, Pull!Results
<1>5. CASE Pull!ReadCanceled
  BY <1>2, <1>5 DEF Pull!ReadCanceled, Pull!Results
<1>6. CASE Pull!ReadTimeout
  <2>1. CASE Pull!Returns("timeout")
    BY <1>2, <1>6, <2>1 DEF Pull!ReadTimeout, Pull!Results
  <2>2. CASE reader' = "inactive"
             /\ UNCHANGED <<log, poller, cursor, batch, canceled, received, result>>
    <3>1. ~canceled
      BY <1>1, <1>6 DEF Pull!ReadTimeout, EndOK
    <3>. QED  BY <1>1, <2>2, <3>1, ReaderKeeps
  <2>. QED  BY <1>6, <2>1, <2>2 DEF Pull!ReadTimeout, Pull!pollVars
<1>7. CASE Pull!OnInactivity
  BY <1>2, <1>7 DEF Pull!OnInactivity, Pull!Results
<1>8. CASE Pull!Close
  BY <1>1, <1>8, ReaderKeeps DEF Pull!Close, Pull!pollVars
<1>9. CASE Pull!CloseReturns
  BY <1>1, <1>9, ReaderKeeps DEF Pull!CloseReturns, Pull!pollVars
<1>. QED  BY <1>3, <1>4, <1>5, <1>6, <1>7, <1>8, <1>9 DEF Pull!Subscribe

\* The task goes on: what was handled stays what it was.
LEMMA PublishKeeps ==
    ASSUME PullInv, Pull!Publish
    PROVE  PullInv'
<1>1. PICK k \in Pull!Kinds : log' = Append(log, k)
  BY DEF Pull!Publish
<1>2. UNCHANGED <<poller, cursor, batch, canceled, reader, received, result>> /\ Len(log) < MaxLog
  BY DEF Pull!Publish, Pull!pollVars
<1>3. /\ log \in Seq(Pull!Kinds) /\ Len(log) \in Nat /\ DOMAIN log = 1..Len(log)
      /\ handled \in Int /\ handled <= Len(log) /\ 0 <= handled
  BY PullTypes
<1>4. /\ log' \in Seq(Pull!Kinds) /\ Len(log') = Len(log) + 1 /\ DOMAIN log' = 1..(Len(log) + 1)
      /\ \A i \in 1..Len(log) : log'[i] = log[i]
  BY <1>1, <1>3
<1>5. Pull!TypeOK'
  <2>1. 1..Len(log) \subseteq 1..Len(log') /\ 0..Len(log) \subseteq 0..Len(log')
    BY <1>3, <1>4
  <2>2. batch' \in Seq(1..Len(log')) /\ received' \in Seq(1..Len(log')) /\ cursor' \in 0..Len(log')
    <3>. DEFINE L == 1..Len(log)
                M == 1..Len(log')
    <3>1. batch \in Seq(L) /\ received \in Seq(L) /\ L \subseteq M
      BY <2>1, PullTypes
    <3>. HIDE DEF L, M
    <3>2. batch \in Seq(M) /\ received \in Seq(M)
      BY <3>1
    <3>3. cursor \in 0..Len(log')
      BY <2>1, PullTypes
    <3>. QED  BY <1>2, <3>2, <3>3 DEF M
  <2>3. Len(log') <= MaxLog
    BY <1>2, <1>3, <1>4, LogAssumption
  <2>. QED  BY <1>2, <1>4, <2>2, <2>3 DEF PullInv, Pull!TypeOK
<1>6. handled' = handled
  BY <1>2 DEF handled
<1>7. BatchOK'
  BY <1>2, <1>6 DEF PullInv, BatchOK
<1>8. Ended' = Ended
  <2>1. handled # 0 => handled \in 1..Len(log)
    BY <1>3
  <2>. QED  BY <1>4, <1>6, <2>1 DEF Ended
<1>9. ReceivedOK'
  <2>1. \A i : IsReceived(i)' <=> IsReceived(i)
    BY <1>2 DEF IsReceived
  <2>2. ~IsReceived(Len(log) + 1) /\ ~(Len(log) + 1 <= handled)
    BY <1>3, PullTypes DEF IsReceived
  <2>3. ASSUME NEW i \in DOMAIN log'
        PROVE  IsReceived(i)' <=> i <= handled' /\ log'[i] # "nil"
    <3>1. CASE i \in DOMAIN log
      <4>1. IsReceived(i) <=> i <= handled /\ log[i] # "nil"
        BY <3>1 DEF PullInv, ReceivedOK
      <4>. QED  BY <1>3, <1>4, <1>6, <2>1, <3>1, <4>1
    <3>2. CASE i \notin DOMAIN log
      <4>1. i = Len(log) + 1
        BY <1>3, <1>4, <3>2
      <4>. QED  BY <1>6, <2>1, <2>2, <4>1
    <3>. QED  BY <3>1, <3>2
  <2>. QED  BY <1>2, <2>3 DEF PullInv, ReceivedOK
<1>10. FinalOK'
  <2>1. ASSUME NEW i \in 1..(handled - 1)  PROVE log'[i] # "final"
    <3>1. i \in 1..Len(log)
      BY <1>3
    <3>. QED  BY <1>4, <3>1 DEF PullInv, FinalOK
  <2>. QED  BY <1>2, <1>6, <1>8, <2>1 DEF PullInv, FinalOK
<1>11. EndOK'
  BY <1>2, <1>8 DEF PullInv, EndOK
<1>. QED  BY <1>5, <1>7, <1>9, <1>10, <1>11 DEF PullInv

\* A pull that succeeds: what it returned is to be handled, from where poll was.
LEMMA PullKeeps ==
    ASSUME PullInv, NEW n \in 0..MaxLog, Pull!PullOK(n)
    PROVE  PullInv'
<1>1. /\ poller = "pull" /\ poller' = "dispatch" /\ cursor + n <= Len(log) /\ cursor' = cursor + n
      /\ batch' = [k \in 1..n |-> cursor + k]
      /\ UNCHANGED <<log, canceled, reader, received, result>>
  BY DEF Pull!PullOK, Pull!Goto
<1>2. /\ Len(log) \in Nat /\ cursor \in 0..Len(log) /\ cursor \in Int /\ n \in Nat
  BY PullTypes, LogAssumption
<1>3. batch = <<>> /\ Len(batch) = 0
  BY <1>1 DEF PullInv, BatchOK
<1>4. /\ batch' \in Seq(1..Len(log)) /\ Len(batch') = n /\ DOMAIN batch' = 1..n
  BY <1>1, <1>2
<1>5. handled' = cursor /\ handled = cursor
  BY <1>1, <1>2, <1>3, <1>4 DEF handled
<1>6. Pull!TypeOK'
  <2>1. cursor' \in 0..Len(log')
    BY <1>1, <1>2
  <2>. QED  BY <1>1, <1>4, <2>1 DEF PullInv, Pull!TypeOK
<1>7. BatchOK'
  BY <1>1, <1>2, <1>4, <1>5 DEF BatchOK
<1>8. ReceivedOK'
  BY <1>1, <1>5 DEF PullInv, ReceivedOK, IsReceived
<1>9. Ended' = Ended
  BY <1>1, <1>5 DEF Ended
<1>10. FinalOK' /\ EndOK'
  BY <1>1, <1>5, <1>9 DEF PullInv, FinalOK, EndOK
<1>. QED  BY <1>6, <1>7, <1>8, <1>10 DEF PullInv

\* The next event of the batch.
LEMMA NextEvent ==
    ASSUME PullInv, batch # <<>>, batch' = Tail(batch), UNCHANGED <<log, cursor>>
    PROVE  /\ Head(batch) = handled + 1 /\ Head(batch) \in DOMAIN log /\ handled' = handled + 1
           /\ batch' \in Seq(1..Len(log))
           /\ Len(batch') <= cursor' /\ \A k \in DOMAIN batch' : batch'[k] = handled' + k
<1>1. /\ batch \in Seq(1..Len(log)) /\ Len(batch) \in Nat /\ DOMAIN batch = 1..Len(batch)
      /\ DOMAIN log = 1..Len(log) /\ handled \in Int /\ cursor \in Int
  BY PullTypes
<1>2. Len(batch) <= cursor /\ \A k \in DOMAIN batch : batch[k] = handled + k
  BY DEF PullInv, BatchOK
<1>3. Len(batch) # 0 /\ 1 \in DOMAIN batch /\ Head(batch) = batch[1]
  BY <1>1
<1>4. Head(batch) = handled + 1 /\ Head(batch) \in DOMAIN log
  BY <1>1, <1>2, <1>3
<1>5. /\ batch' \in Seq(1..Len(log)) /\ Len(batch') = Len(batch) - 1
      /\ DOMAIN batch' = 1..(Len(batch) - 1)
      /\ \A k \in 1..(Len(batch) - 1) : batch'[k] = batch[k + 1]
  BY <1>1, <1>3
<1>6. handled' = handled + 1
  BY <1>1, <1>5 DEF handled
<1>7. ASSUME NEW k \in DOMAIN batch'  PROVE batch'[k] = handled' + k
  <2>1. k \in Int /\ k + 1 \in DOMAIN batch /\ batch'[k] = batch[k + 1]
    BY <1>1, <1>5
  <2>. QED  BY <1>1, <1>2, <1>6, <2>1
<1>. QED  BY <1>1, <1>2, <1>4, <1>5, <1>6, <1>7

\* What is no event is passed over.
LEMMA SkipKeeps ==
    ASSUME PullInv, Pull!Skip
    PROVE  PullInv'
<1>1. /\ poller = "dispatch" /\ poller' = "dispatch" /\ batch # <<>> /\ log[Head(batch)] = "nil"
      /\ batch' = Tail(batch) /\ UNCHANGED <<log, cursor, canceled, reader, received, result>>
  BY DEF Pull!Skip, Pull!Goto
<1>2. /\ Head(batch) = handled + 1 /\ Head(batch) \in DOMAIN log /\ handled' = handled + 1
      /\ batch' \in Seq(1..Len(log))
      /\ Len(batch') <= cursor' /\ \A k \in DOMAIN batch' : batch'[k] = handled' + k
  BY <1>1, NextEvent
<1>3. handled \in Int /\ 0 <= handled /\ DOMAIN log = 1..Len(log) /\ Len(log) \in Nat
  BY PullTypes
<1>4. Pull!TypeOK'
  BY <1>1, <1>2 DEF PullInv, Pull!TypeOK
<1>5. BatchOK'
  BY <1>1, <1>2 DEF BatchOK
<1>6. ReceivedOK'
  <2>1. ASSUME NEW i \in DOMAIN log
        PROVE  i <= handled' /\ log[i] # "nil" <=> i <= handled /\ log[i] # "nil"
    <3>1. i \in Int
      BY <1>3
    <3>2. i <= handled' <=> i <= handled \/ i = handled + 1
      BY <1>2, <1>3, <3>1
    <3>. QED  BY <1>1, <1>2, <3>2
  <2>. QED  BY <1>1, <2>1 DEF PullInv, ReceivedOK, IsReceived
<1>7. ~Ended /\ ~Ended'
  BY <1>1, <1>2 DEF Ended, PullInv, FinalOK
<1>8. FinalOK'
  <2>1. ASSUME NEW i \in 1..(handled' - 1)  PROVE log[i] # "final"
    <3>1. i \in 1..(handled - 1) \/ (i = handled /\ handled # 0)
      BY <1>2, <1>3
    <3>. QED  BY <1>7, <3>1 DEF PullInv, FinalOK, Ended
  <2>. QED  BY <1>1, <1>7, <2>1 DEF FinalOK
<1>9. EndOK'
  BY <1>1, <1>7 DEF PullInv, EndOK
<1>. QED  BY <1>4, <1>5, <1>6, <1>8, <1>9 DEF PullInv

\* An event is handed to the subscriber; a final one ends poll.
LEMMA SendKeeps ==
    ASSUME PullInv, Pull!Send
    PROVE  PullInv'
<1>. DEFINE n == Len(received)
<1>1. /\ poller = "dispatch" /\ batch # <<>> /\ log[Head(batch)] # "nil" /\ reader = "reading"
      /\ poller' = IF log[Head(batch)] = "final" THEN "stopping" ELSE "dispatch"
      /\ batch' = Tail(batch) /\ received' = Append(received, Head(batch))
      /\ reader' = "idle" /\ result' = "event" /\ UNCHANGED <<log, cursor, canceled>>
  BY DEF Pull!Send
<1>2. /\ Head(batch) = handled + 1 /\ Head(batch) \in DOMAIN log /\ handled' = handled + 1
      /\ batch' \in Seq(1..Len(log))
      /\ Len(batch') <= cursor' /\ \A k \in DOMAIN batch' : batch'[k] = handled' + k
  BY <1>1, NextEvent
<1>3. /\ handled \in Int /\ 0 <= handled /\ DOMAIN log = 1..Len(log) /\ Len(log) \in Nat
      /\ received \in Seq(1..Len(log)) /\ n \in Nat /\ DOMAIN received = 1..n
      /\ \A k \in DOMAIN received : received[k] \in DOMAIN log /\ received[k] \in Int
  BY PullTypes
<1>4. /\ received' \in Seq(1..Len(log)) /\ DOMAIN received' = 1..(n + 1)
      /\ received'[n + 1] = handled + 1 /\ \A k \in 1..n : received'[k] = received[k]
  BY <1>1, <1>2, <1>3
<1>. HIDE DEF n
<1>5. Pull!TypeOK'
  BY <1>1, <1>2, <1>4 DEF PullInv, Pull!TypeOK, Pull!Results
<1>6. BatchOK'
  BY <1>1, <1>2 DEF BatchOK
<1>7. \A k \in DOMAIN received : received[k] <= handled
  BY <1>3 DEF PullInv, ReceivedOK, IsReceived
<1>8. \A i : IsReceived(i)' <=> IsReceived(i) \/ i = handled + 1
  <2>1. ASSUME NEW i, IsReceived(i)'  PROVE IsReceived(i) \/ i = handled + 1
    <3>1. PICK k \in 1..(n + 1) : received'[k] = i
      BY <1>4, <2>1 DEF IsReceived
    <3>2. k \in 1..n \/ k = n + 1
      BY <1>3
    <3>. QED  BY <1>3, <1>4, <3>1, <3>2 DEF IsReceived
  <2>2. ASSUME NEW i, IsReceived(i)  PROVE IsReceived(i)'
    <3>1. PICK k \in 1..n : received[k] = i
      BY <1>3, <2>2 DEF IsReceived
    <3>2. k \in DOMAIN received' /\ received'[k] = i
      BY <1>3, <1>4, <3>1
    <3>. QED  BY <3>2 DEF IsReceived
  <2>3. n + 1 \in DOMAIN received'
    BY <1>3, <1>4
  <2>. QED  BY <2>1, <2>2, <1>4, <2>3 DEF IsReceived
<1>9. ReceivedOK'
  <2>1. ASSUME NEW k \in DOMAIN received', NEW l \in DOMAIN received', k < l
        PROVE  received'[k] < received'[l]
    <3>1. k \in 1..n /\ (l \in 1..n \/ l = n + 1)
      BY <1>3, <1>4, <2>1
    <3>2. CASE l \in 1..n
      BY <1>3, <1>4, <2>1, <3>1, <3>2 DEF PullInv, ReceivedOK
    <3>3. CASE l = n + 1
      <4>1. received[k] <= handled /\ received[k] \in Int /\ received'[k] = received[k]
        BY <1>3, <1>4, <1>7, <3>1
      <4>. QED  BY <1>3, <1>4, <3>3, <4>1
    <3>. QED  BY <3>1, <3>2, <3>3
  <2>2. ASSUME NEW i \in DOMAIN log
        PROVE  IsReceived(i)' <=> i <= handled' /\ log[i] # "nil"
    <3>1. i \in Int
      BY <1>3
    <3>2. i <= handled' <=> i <= handled \/ i = handled + 1
      BY <1>2, <1>3, <3>1
    <3>3. IsReceived(i) <=> i <= handled /\ log[i] # "nil"
      BY DEF PullInv, ReceivedOK
    <3>. QED  BY <1>1, <1>2, <1>8, <3>2, <3>3
  <2>. QED  BY <1>1, <2>1, <2>2 DEF ReceivedOK
<1>10. ~Ended /\ (Ended' <=> log[Head(batch)] = "final")
  BY <1>1, <1>2, <1>3 DEF Ended, PullInv, FinalOK
<1>11. FinalOK'
  <2>1. ASSUME NEW i \in 1..(handled' - 1)  PROVE log[i] # "final"
    <3>1. i \in 1..(handled - 1) \/ (i = handled /\ handled # 0)
      BY <1>2, <1>3
    <3>. QED  BY <1>10, <3>1 DEF PullInv, FinalOK, Ended
  <2>. QED  BY <1>1, <1>10, <2>1 DEF FinalOK
<1>12. EndOK'
  BY <1>1, <1>10 DEF PullInv, EndOK
<1>. QED  BY <1>5, <1>6, <1>9, <1>11, <1>12 DEF PullInv

\* The provider gives a reader or fails.
LEMMA CreateKeeps ==
    ASSUME PullInv, Pull!CreateReader
    PROVE  PullInv'
<1>1. /\ reader = "none" /\ UNCHANGED <<log, cursor, batch, canceled, received, result>>
      /\ \/ reader' = "failed" /\ poller' = poller
         \/ reader' = "idle" /\ poller' = "pull"
  BY DEF Pull!CreateReader
<1>2. poller = "none" /\ ~canceled /\ batch = <<>> /\ ~Ended
  BY <1>1 DEF PullInv, EndOK, BatchOK, FinalOK
<1>3. Pull!TypeOK'
  BY <1>1, <1>2, PlaceKeeps DEF PullInv, Pull!TypeOK
<1>4. EndOK'
  <2>1. Ended' = Ended
    BY <1>1 DEF Ended, handled
  <2>. QED  BY <1>1, <1>2, <2>1 DEF PullInv, EndOK
<1>. QED  BY <1>1, <1>2, <1>3, <1>4, QuietKeeps

LEMMA PullStepKeeps ==
    ASSUME PullInv, Pull!Next \/ UNCHANGED pullVars
    PROVE  PullInv'
<1>1. CASE Pull!Publish
  BY <1>1, PublishKeeps
<1>2. CASE Pull!CreateReader
  BY <1>2, CreateKeeps
<1>3. CASE Pull!Subscribe
  BY <1>3, SubscribeKeeps
<1>4. ASSUME NEW n \in 0..MaxLog, Pull!PullOK(n)  PROVE PullInv'
  BY <1>4, PullKeeps
<1>5. CASE Pull!PullFails
  BY <1>5, GotoKeeps DEF Pull!PullFails
<1>6. CASE Pull!Skip
  BY <1>6, SkipKeeps
<1>7. CASE Pull!Dispatched
  BY <1>7, GotoKeeps DEF Pull!Dispatched
<1>8. CASE Pull!Send
  BY <1>8, SendKeeps
<1>9. CASE Pull!StopSending
  BY <1>9, GotoKeeps DEF Pull!StopSending
<1>10. CASE Pull!Tick
  BY <1>10, GotoKeeps DEF Pull!Tick
<1>11. CASE Pull!StopWaiting
  BY <1>11, GotoKeeps DEF Pull!StopWaiting
<1>12. CASE Pull!ClosePuller
  BY <1>12, GotoKeeps DEF Pull!ClosePuller
<1>13. CASE Pull!CloseChannels
  BY <1>13, GotoKeeps DEF Pull!CloseChannels
<1>14. CASE UNCHANGED pullVars
  <2>1. UNCHANGED <<log, poller, cursor, batch, canceled, reader, received, result>>
    BY <1>14 DEF pullVars
  <2>2. Pull!TypeOK' /\ BatchOK' /\ ReceivedOK'
    BY <2>1 DEF PullInv, Pull!TypeOK, BatchOK, ReceivedOK, IsReceived, handled
  <2>3. FinalOK' /\ EndOK'
    BY <2>1 DEF PullInv, FinalOK, EndOK, Ended, handled
  <2>. QED  BY <2>2, <2>3 DEF PullInv
<1>. QED  BY <1>1, <1>2, <1>3, <1>4, <1>5, <1>6, <1>7, <1>8, <1>9, <1>10, <1>11, <1>12, <1>13, <1>14
          DEF Pull!Next, Pull!Poll

\* What was handled are the events that are due, up to there.
LEMMA PullInvImplies ==
    ASSUME PullInv  PROVE Pull!InOrder
<1>1. /\ DOMAIN log = 1..Len(log) /\ Len(log) \in Nat /\ handled \in Int /\ 0 <= handled
      /\ handled <= Len(log) /\ received \in Seq(1..Len(log)) /\ Len(received) \in Nat
      /\ DOMAIN received = 1..Len(received)
      /\ \A k \in DOMAIN received : received[k] \in DOMAIN log /\ received[k] \in Int
  BY PullTypes
<1>2. /\ \A k, l \in DOMAIN received : k < l => received[k] < received[l]
      /\ \A i \in DOMAIN log : IsReceived(i) <=> i <= handled /\ log[i] # "nil"
  BY DEF PullInv, ReceivedOK
<1>3. \A i : i \in Pull!Range(received) <=> IsReceived(i)
  BY DEF Pull!Range, IsReceived
<1>4. ASSUME NEW i \in Pull!Range(received)  PROVE i \in Pull!Due
  <2>1. IsReceived(i) /\ i \in DOMAIN log /\ i \in Int
    BY <1>1, <1>3 DEF IsReceived
  <2>2. i <= handled /\ log[i] # "nil"
    BY <1>2, <2>1
  <2>3. ASSUME NEW j \in 1..(i - 1)  PROVE log[j] # "final"
    <3>1. j \in 1..(handled - 1)
      BY <1>1, <2>1, <2>2
    <3>. QED  BY <3>1 DEF PullInv, FinalOK
  <2>. QED  BY <2>1, <2>2, <2>3 DEF Pull!Due
<1>5. ASSUME NEW i \in Pull!Due, i \notin Pull!Range(received)  PROVE handled < i
  <2>1. i \in DOMAIN log /\ i \in Int /\ log[i] # "nil" /\ ~IsReceived(i)
    BY <1>1, <1>3, <1>5 DEF Pull!Due
  <2>. QED  BY <1>1, <1>2, <2>1
<1>6. ASSUME NEW k \in DOMAIN received  PROVE received[k] <= handled
  BY <1>1, <1>2 DEF IsReceived
<1>7. \A i \in Pull!Due \ Pull!Range(received), k \in DOMAIN received : received[k] < i
  <2>1. ASSUME NEW i \in Pull!Due, i \notin Pull!Range(received), NEW k \in DOMAIN received
        PROVE  received[k] < i
    <3>1. i \in Int
      BY <1>1 DEF Pull!Due
    <3>. QED  BY <1>1, <1>5, <1>6, <2>1, <3>1
  <2>. QED  BY <2>1
<1>8. ASSUME result = "closed"
      PROVE  /\ Pull!Range(received) = Pull!Due /\ received # <<>>
             /\ log[Pull!Last(received)] = "final"
  <2>1. handled # 0 /\ log[handled] = "final"
    BY <1>8 DEF PullInv, EndOK, Ended
  <2>2. handled \in DOMAIN log
    BY <1>1, <2>1
  <2>3. ASSUME NEW i \in Pull!Due  PROVE i \in Pull!Range(received)
    <3>1. i \in Int /\ \A j \in 1..(i - 1) : log[j] # "final"
      BY <1>1 DEF Pull!Due
    <3>2. handled \in 1..(i - 1) \/ i <= handled
      BY <1>1, <2>2, <3>1
    <3>3. ~(handled < i)
      BY <1>1, <2>1, <3>1, <3>2
    <3>. QED  BY <1>5, <3>3
  <2>4. IsReceived(handled)
    BY <1>1, <1>2, <2>1, <2>2
  <2>5. PICK k \in DOMAIN received : received[k] = handled
    BY <2>4 DEF IsReceived
  <2>6. k = Len(received)
    <3>1. k \in 1..Len(received) /\ Len(received) \in DOMAIN received
      BY <1>1
    <3>2. received[Len(received)] <= handled /\ received[Len(received)] \in Int
      BY <1>1, <1>6, <3>1
    <3>3. ~(k < Len(received))
      BY <1>1, <1>2, <2>5, <3>1, <3>2
    <3>. QED  BY <1>1, <3>1, <3>3
  <2>7. received # <<>> /\ log[Pull!Last(received)] = "final"
    BY <1>1, <2>1, <2>5, <2>6 DEF Pull!Last
  <2>. QED  BY <1>4, <2>3, <2>7
<1>. QED  BY <1>2, <1>4, <1>7, <1>8 DEF Pull!InOrder, PullInv

\* The pull-based queue: Read hands out the events of the log in order, each
\* once and none left out, and reports the end only behind the final event, for
\* a log of any length, pulls that fail or return any part of what is there,
\* and reads that time out or are given up.
THEOREM ReadsInOrder == PartsSpec => []InOrder
<1>1. PartsInit => PullInv
  BY PullStarts DEF PartsInit
<1>2. PullInv /\ [PartsNext]_<<part, listVars, pullVars, vars>> => PullInv'
  BY PullStepKeeps DEF PartsNext
<1>3. PullInv => InOrder
  BY PullInvImplies DEF InOrder
<1>. QED  BY <1>1, <1>2, <1>3, PTL DEF PartsSpec

-----------------------------------------------------------------------------
(***************************************************************************)
(* WorkQueues, for any set of pulling and pushing servers, any messages,   *)
(* any limits and any number of crashes and failed reads: every semaphore  *)
(* counts what runs, and no message is lost.  The inductive invariant.     *)
(***************************************************************************)
\* A goroutine that handles a message has one, and what the handler answered
\* is true of that message while the goroutine still has to act on it.
JobOK(j) ==
    /\ job[j].pc # "none" => job[j].msg \in Messages
    /\ job[j].pc \in {"after", "settle"} =>
          /\ job[j].err = "none" => job[j].msg \in ended
          /\ job[j].err = "malformed" => job[j].msg \in Malformed
JobsOK == \A j \in Jobs : JobOK(j)

\* The parts of WorkKept: the places of a server, and the messages that left.
PlacesOK(s) ==
    /\ permits[s] = Cardinality(JobsOf(s)) + (IF loop[s] = "read" THEN 1 ELSE 0)
    /\ MaxExecutions[s] # 0 => permits[s] <= MaxExecutions[s]
    /\ loop[s] = "stopped" => JobsOf(s) = {}
LeftOK == \A m \in Messages : broker[m] = "done" => m \in ended \cup Malformed

IndInv == TypeOK /\ JobsOK /\ LeftOK /\ \A s \in Servers : PlacesOK(s)

-----------------------------------------------------------------------------
(***************************************************************************)
(* The goroutines of a server.                                             *)
(***************************************************************************)
\* A goroutine is one of a server's finitely many.
LEMMA JobsFinite ==
    ASSUME NEW s \in Servers
    PROVE  IsFiniteSet(JobsOf(s)) /\ Cardinality(JobsOf(s)) \in Nat
<1>1. IsFiniteSet(1..Goroutines)
  <2>1. 1 \in Int /\ Goroutines \in Int
    BY LimitsAssumption
  <2>. QED  BY <2>1, FS_Interval
<1>2. IsFiniteSet({s} \X (1..Goroutines))
  <2>1. IsFiniteSet({s})
    BY FS_Singleton
  <2>. QED  BY <1>1, <2>1, FS_Product
<1>3. JobsOf(s) \subseteq {s} \X (1..Goroutines)
  BY DEF JobsOf, Jobs
<1>4. IsFiniteSet(JobsOf(s))
  BY <1>2, <1>3, FS_Subset
<1>. QED  BY <1>4, FS_CardinalityType

\* Who runs is decided by the program counters.
LEMMA SameJobs ==
    ASSUME NEW s \in Servers,
           \A j \in Jobs : j[1] = s => (job'[j].pc # "none" <=> job[j].pc # "none")
    PROVE  JobsOf(s)' = JobsOf(s)
BY DEF JobsOf

\* Start puts a message on a goroutine of the server that was free, and on no
\* other.
LEMMA Started ==
    ASSUME TypeOK, NEW s \in Servers, NEW m \in Messages, NEW label \in JobPCs \ {"none"},
           Start(s, m, label)
    PROVE  \E j \in Jobs :
              /\ j[1] = s /\ job[j].pc = "none"
              /\ job' = [job EXCEPT ![j] = [pc |-> label, msg |-> m, err |-> "none"]]
              /\ broker' = [broker EXCEPT ![m] = "out"] /\ holder' = [holder EXCEPT ![m] = j]
<1>. DEFINE free == {k \in 1..Goroutines : job[<<s, k>>].pc = "none"}
            k == CHOOSE i \in free : TRUE
            j == <<s, k>>
<1>1. free # {} /\ k \in free
  BY DEF Start
<1>2. j \in Jobs /\ j[1] = s /\ job[j].pc = "none"
  BY <1>1 DEF Jobs
<1>3. /\ job' = [job EXCEPT ![j] = [pc |-> label, msg |-> m, err |-> "none"]]
      /\ broker' = [broker EXCEPT ![m] = "out"] /\ holder' = [holder EXCEPT ![m] = j]
  BY DEF Start
<1>. QED  BY <1>2, <1>3

\* One more goroutine of the server runs, and of no other.
LEMMA OneMore ==
    ASSUME TypeOK, NEW j \in Jobs, job[j].pc = "none",
           NEW m \in Messages, NEW label \in JobPCs \ {"none"},
           job' = [job EXCEPT ![j] = [pc |-> label, msg |-> m, err |-> "none"]]
    PROVE  /\ Cardinality(JobsOf(j[1]))' = Cardinality(JobsOf(j[1])) + 1
           /\ \A s \in Servers : s # j[1] => JobsOf(s)' = JobsOf(s)
<1>1. j[1] \in Servers
  BY DEF Jobs
<1>2. job \in [Jobs -> [pc : JobPCs, msg : Messages \cup {Nil}, err : Errs]]
  BY DEF TypeOK
<1>3. job'[j].pc # "none" /\ \A i \in Jobs : i # j => job'[i] = job[i]
  BY <1>2
<1>4. JobsOf(j[1])' = JobsOf(j[1]) \cup {j} /\ j \notin JobsOf(j[1])
  BY <1>3 DEF JobsOf
<1>5. Cardinality(JobsOf(j[1]) \cup {j}) = Cardinality(JobsOf(j[1])) + 1
  BY <1>1, <1>4, JobsFinite, FS_AddElement
<1>6. ASSUME NEW s \in Servers, s # j[1]  PROVE JobsOf(s)' = JobsOf(s)
  BY <1>3, <1>6, SameJobs
<1>. QED  BY <1>4, <1>5, <1>6

\* A goroutine that ends is one less of its server, and of no other.
LEMMA OneLess ==
    ASSUME TypeOK, NEW j \in Jobs, job[j].pc # "none", job' = [job EXCEPT ![j] = NoJob]
    PROVE  /\ Cardinality(JobsOf(j[1]))' = Cardinality(JobsOf(j[1])) - 1
           /\ Cardinality(JobsOf(j[1])) \in Nat \ {0}
           /\ \A s \in Servers : s # j[1] => JobsOf(s)' = JobsOf(s)
<1>1. j[1] \in Servers
  BY DEF Jobs
<1>2. job \in [Jobs -> [pc : JobPCs, msg : Messages \cup {Nil}, err : Errs]]
  BY DEF TypeOK
<1>3. job'[j].pc = "none" /\ \A i \in Jobs : i # j => job'[i] = job[i]
  BY <1>2 DEF NoJob
<1>4. JobsOf(j[1])' = JobsOf(j[1]) \ {j} /\ j \in JobsOf(j[1])
  BY <1>3 DEF JobsOf
<1>5. Cardinality(JobsOf(j[1]) \ {j}) = Cardinality(JobsOf(j[1])) - 1
  BY <1>1, <1>4, JobsFinite, FS_RemoveElement
<1>6. ASSUME NEW s \in Servers, s # j[1]  PROVE JobsOf(s)' = JobsOf(s)
  BY <1>3, <1>6, SameJobs
<1>7. Cardinality(JobsOf(j[1])) \in Nat /\ Cardinality(JobsOf(j[1])) # 0
  BY <1>1, <1>4, JobsFinite, FS_EmptySet
<1>. QED  BY <1>4, <1>5, <1>6, <1>7

-----------------------------------------------------------------------------
(***************************************************************************)
(* Steps.                                                                  *)
(***************************************************************************)
\* The first state satisfies the invariant.
LEMMA InitIndInv == Init => IndInv
<1>. SUFFICES ASSUME Init  PROVE IndInv
  OBVIOUS
<1>1. TypeOK
  <2>1. loop \in [Servers -> {"acquire", "read", "sleep", "drain", "stopped", "serving", "down"}]
    BY DEF Init, FirstStep
  <2>2. job \in [Jobs -> [pc : JobPCs, msg : Messages \cup {Nil}, err : Errs]]
    BY DEF Init, NoJob, JobPCs, Errs
  <2>3. closed \in BOOLEAN
    BY DEF Init
  <2>4. /\ broker \in [Messages -> {"new", "queued", "out", "done"}]
        /\ holder \in [Messages -> Jobs \cup {Nil}] /\ permits \in [Servers -> Nat]
    BY DEF Init
  <2>5. ended \subseteq Messages /\ faults \in 0..MaxFaults
    BY LimitsAssumption DEF Init
  <2>. QED  BY <2>1, <2>2, <2>3, <2>4, <2>5 DEF TypeOK
<1>2. JobsOK /\ LeftOK
  BY DEF Init, JobsOK, JobOK, LeftOK, NoJob
<1>3. ASSUME NEW s \in Servers  PROVE PlacesOK(s)
  <2>1. JobsOf(s) = {}
    BY DEF Init, JobsOf, NoJob
  <2>2. permits[s] = 0 /\ loop[s] \in {"acquire", "serving"} /\ MaxExecutions[s] \in Nat
    BY LimitsAssumption DEF Init, FirstStep
  <2>. QED  BY <2>1, <2>2, FS_EmptySet DEF PlacesOK
<1>. QED  BY <1>1, <1>2, <1>3 DEF IndInv

\* A step of the broker.
LEMMA StepBroker ==
    ASSUME IndInv, CloseBroker \/ \E m \in Messages : Write(m) \/ Expire(m)
    PROVE  IndInv'
<1>1. TypeOK'
  BY DEF IndInv, TypeOK, CloseBroker, Write, Expire
<1>2. UNCHANGED <<loop, permits, job, ended>>
  BY DEF CloseBroker, Write, Expire
<1>3. JobsOK' /\ LeftOK'
  BY <1>2 DEF IndInv, TypeOK, JobsOK, JobOK, LeftOK, CloseBroker, Write, Expire
<1>4. ASSUME NEW s \in Servers  PROVE PlacesOK(s)'
  BY <1>2 DEF IndInv, PlacesOK, JobsOf
<1>. QED  BY <1>1, <1>3, <1>4 DEF IndInv

\* A server takes a message from the broker: the place of the polling loop
\* goes to the goroutine, or a push takes one.
LEMMA StepTake ==
    ASSUME IndInv, NEW s \in Servers, NEW m \in Messages, ReadMessage(s, m) \/ Push(s, m)
    PROVE  IndInv'
<1>0. TypeOK /\ JobsOK /\ LeftOK /\ permits[s] \in Nat /\ MaxExecutions[s] \in Nat
  BY LimitsAssumption DEF IndInv, TypeOK
<1>1. PICK label \in JobPCs \ {"none", "after", "settle"} : Start(s, m, label)
  BY DEF ReadMessage, Push, JobPCs
<1>2. PICK j \in Jobs :
         /\ j[1] = s /\ job[j].pc = "none"
         /\ job' = [job EXCEPT ![j] = [pc |-> label, msg |-> m, err |-> "none"]]
         /\ broker' = [broker EXCEPT ![m] = "out"] /\ holder' = [holder EXCEPT ![m] = j]
  BY <1>0, <1>1, Started
<1>3. /\ loop' \in [Servers -> {"acquire", "read", "sleep", "drain", "stopped", "serving", "down"}]
      /\ permits' \in [Servers -> Nat] /\ UNCHANGED <<closed, ended, faults>>
  BY <1>0 DEF TypeOK, ReadMessage, Push, LoopGoto
<1>4. TypeOK'
  BY <1>0, <1>2, <1>3 DEF TypeOK, Errs
<1>5. JobsOK' /\ LeftOK'
  BY <1>0, <1>2, <1>3 DEF TypeOK, JobsOK, JobOK, LeftOK
<1>6. /\ Cardinality(JobsOf(s))' = Cardinality(JobsOf(s)) + 1
      /\ \A r \in Servers : r # s => JobsOf(r)' = JobsOf(r)
  BY <1>0, <1>2, OneMore
<1>7. ASSUME NEW r \in Servers, r # s  PROVE PlacesOK(r)'
  <2>1. loop'[r] = loop[r] /\ permits'[r] = permits[r]
    BY <1>0, <1>7 DEF TypeOK, ReadMessage, Push, LoopGoto
  <2>. QED  BY <1>6, <1>7, <2>1 DEF IndInv, PlacesOK
<1>8. PlacesOK(s)'
  <2>1. PlacesOK(s) /\ Cardinality(JobsOf(s)) \in Nat
    BY JobsFinite DEF IndInv
  <2>2. CASE ReadMessage(s, m)
    <3>1. loop[s] = "read" /\ loop'[s] = "acquire" /\ permits'[s] = permits[s]
      BY <1>0, <2>2 DEF TypeOK, ReadMessage, LoopGoto
    <3>. QED  BY <1>6, <2>1, <3>1 DEF PlacesOK
  <2>3. CASE Push(s, m)
    <3>1. /\ loop[s] = "serving" /\ loop'[s] = "serving" /\ permits'[s] = permits[s] + 1
          /\ MaxExecutions[s] = 0 \/ permits[s] < MaxExecutions[s]
      BY <1>0, <2>3 DEF TypeOK, Push, HasPlace
    <3>. QED  BY <1>0, <1>6, <2>1, <3>1 DEF PlacesOK
  <2>. QED  BY <2>2, <2>3
<1>. QED  BY <1>4, <1>5, <1>7, <1>8 DEF IndInv

\* A step of the polling loop, and a restart.
LEMMA StepLoop ==
    ASSUME IndInv, NEW s \in Servers, LoopStep(s)
    PROVE  IndInv'
<1>0. TypeOK /\ JobsOK /\ LeftOK /\ permits[s] \in Nat /\ MaxExecutions[s] \in Nat
  BY LimitsAssumption DEF IndInv, TypeOK
<1>1. PlacesOK(s) /\ Cardinality(JobsOf(s)) \in Nat
  BY JobsFinite DEF IndInv
<1>2. UNCHANGED <<broker, holder, closed, job, ended>>
  BY DEF LoopStep, Acquire, ReadClosed, ReadFails, Wake, Drained, Restart, brokerVars
<1>3. /\ faults' \in 0..MaxFaults
      /\ loop' \in [Servers -> {"acquire", "read", "sleep", "drain", "stopped", "serving", "down"}]
      /\ \A r \in Servers : r # s => loop'[r] = loop[r] /\ permits'[r] = permits[r]
  BY <1>0, LimitsAssumption
     DEF TypeOK, LoopStep, Acquire, ReadClosed, ReadFails, Wake, Drained, Restart, LoopGoto, FirstStep
<1>4. loop[s] = "read" => permits[s] > 0
  BY <1>0, <1>1 DEF PlacesOK
<1>5. permits' \in [Servers -> Nat]
  BY <1>0, <1>4 DEF TypeOK, LoopStep, Acquire, ReadClosed, ReadFails, Wake, Drained, Restart
<1>6. TypeOK' /\ JobsOK' /\ LeftOK' /\ \A r \in Servers : JobsOf(r)' = JobsOf(r)
  BY <1>0, <1>2, <1>3, <1>5 DEF TypeOK, JobsOK, JobOK, LeftOK, JobsOf
<1>7. ASSUME NEW r \in Servers, r # s  PROVE PlacesOK(r)'
  BY <1>3, <1>6, <1>7 DEF IndInv, PlacesOK
<1>8. PlacesOK(s)'
  <2>1. CASE Acquire(s)
    BY <1>0, <1>1, <1>6, <2>1 DEF PlacesOK, TypeOK, Acquire, LoopGoto, HasPlace
  <2>2. CASE ReadClosed(s) \/ ReadFails(s)
    BY <1>0, <1>1, <1>6, <2>2 DEF PlacesOK, TypeOK, ReadClosed, ReadFails, LoopGoto
  <2>3. CASE Wake(s) \/ Drained(s) \/ Restart(s)
    BY <1>0, <1>1, <1>6, <2>3 DEF PlacesOK, TypeOK, Wake, Drained, Restart, LoopGoto, FirstStep
  <2>. QED  BY <2>1, <2>2, <2>3 DEF LoopStep
<1>. QED  BY <1>6, <1>7, <1>8 DEF IndInv

\* A step of a goroutine that handles a message.
LEMMA StepJob ==
    ASSUME IndInv, NEW j \in Jobs, JobStep(j)
    PROVE  IndInv'
<1>0. /\ TypeOK /\ JobsOK /\ LeftOK /\ JobOK(j) /\ j[1] \in Servers
      /\ job \in [Jobs -> [pc : JobPCs, msg : Messages \cup {Nil}, err : Errs]]
  BY DEF IndInv, TypeOK, JobsOK, Jobs
<1>1. CASE Before(j) \/ After(j)
  <2>1. PICK label \in {"handle", "settle", "return"} :
           /\ job' = [job EXCEPT ![j].pc = label] /\ (label = "settle" => job[j].pc = "after")
           /\ job[j].pc # "none"
    BY <1>1 DEF Before, After, JobGoto
  <2>2. /\ UNCHANGED <<broker, holder, closed, loop, permits, ended, faults>>
        /\ job'[j] = [pc |-> label, msg |-> job[j].msg, err |-> job[j].err]
        /\ \A i \in Jobs : i # j => job'[i] = job[i]
    BY <1>0, <1>1, <2>1 DEF Before, After, brokerVars
  <2>3. job' \in [Jobs -> [pc : JobPCs, msg : Messages \cup {Nil}, err : Errs]]
    BY <1>0, <2>1 DEF JobPCs
  <2>4. TypeOK' /\ JobsOK' /\ LeftOK'
    BY <1>0, <2>1, <2>2, <2>3 DEF TypeOK, JobsOK, JobOK, LeftOK
  <2>5. ASSUME NEW s \in Servers  PROVE PlacesOK(s)'
    <3>1. JobsOf(s)' = JobsOf(s)
      BY <2>1, <2>2, SameJobs
    <3>. QED  BY <2>2, <3>1 DEF IndInv, PlacesOK
  <2>. QED  BY <2>4, <2>5 DEF IndInv
<1>2. CASE HandleOK(j) \/ HandleFails(j)
  <2>1. PICK label \in {"after", "settle"}, err \in Errs :
           /\ job' = [job EXCEPT ![j].pc = label, ![j].err = err]
           /\ err = "none" => ended' = ended \cup {job[j].msg}
           /\ err = "malformed" => job[j].msg \in Malformed
           /\ ended' \in {ended, ended \cup {job[j].msg}}
    BY <1>2 DEF HandleOK, HandleFails, HandlerReturns, Errs
  <2>2. /\ UNCHANGED <<broker, holder, closed, loop, permits, faults>> /\ job[j].pc = "handle"
        /\ job'[j] = [pc |-> label, msg |-> job[j].msg, err |-> err]
        /\ \A i \in Jobs : i # j => job'[i] = job[i]
    BY <1>0, <1>2, <2>1 DEF HandleOK, HandleFails, brokerVars
  <2>3. job' \in [Jobs -> [pc : JobPCs, msg : Messages \cup {Nil}, err : Errs]]
    BY <1>0, <2>1 DEF JobPCs
  <2>4. ended \subseteq ended' /\ ended' \subseteq Messages
    BY <1>0, <2>1, <2>2 DEF TypeOK, JobOK
  <2>5. TypeOK' /\ LeftOK'
    BY <1>0, <2>2, <2>3, <2>4 DEF TypeOK, LeftOK
  <2>6. ASSUME NEW i \in Jobs  PROVE JobOK(i)'
    <3>1. CASE i = j
      BY <1>0, <2>1, <2>2, <3>1 DEF JobOK
    <3>2. CASE i # j
      BY <1>0, <2>2, <2>4, <3>2 DEF JobsOK, JobOK
    <3>. QED  BY <3>1, <3>2
  <2>7. ASSUME NEW s \in Servers  PROVE PlacesOK(s)'
    <3>1. \A i \in Jobs : job'[i].pc # "none" <=> job[i].pc # "none"
      BY <2>2
    <3>2. JobsOf(s)' = JobsOf(s)
      BY <3>1, SameJobs
    <3>. QED  BY <2>2, <3>2 DEF IndInv, PlacesOK
  <2>. QED  BY <2>5, <2>6, <2>7 DEF IndInv, JobsOK
<1>3. CASE SettleMessage(j)
  <2>1. /\ UNCHANGED <<holder, closed, loop, permits, ended, faults>> /\ job[j].pc = "settle"
        /\ job' = [job EXCEPT ![j].pc = "return"]
        /\ job'[j] = [pc |-> "return", msg |-> job[j].msg, err |-> job[j].err]
        /\ \A i \in Jobs : i # j => job'[i] = job[i]
    BY <1>0, <1>3 DEF SettleMessage, JobGoto
  <2>2. job' \in [Jobs -> [pc : JobPCs, msg : Messages \cup {Nil}, err : Errs]]
    BY <1>0, <2>1 DEF JobPCs
  <2>3. job[j].msg \in Messages /\ job[j].err \in Errs
    BY <1>0, <2>1 DEF JobOK
  <2>4. broker' \in [Messages -> {"new", "queued", "out", "done"}]
    BY <1>0, <1>3, <2>3 DEF SettleMessage, Settle, TypeOK
  <2>5. ASSUME NEW m \in Messages, broker'[m] = "done"  PROVE m \in ended \cup Malformed
    <3>1. CASE broker[m] = "done"
      BY <1>0, <3>1 DEF LeftOK
    <3>2. CASE broker[m] # "done"
      <4>1. m = job[j].msg /\ Verdict(job[j].err) = "complete"
        BY <1>0, <1>3, <2>3, <2>5, <3>2 DEF SettleMessage, Settle, TypeOK
      <4>2. job[j].err \in {"none", "malformed"}
        BY <2>3, <4>1 DEF Verdict, Errs
      <4>. QED  BY <1>0, <2>1, <4>1, <4>2 DEF JobOK
    <3>. QED  BY <3>1, <3>2
  <2>6. TypeOK' /\ JobsOK' /\ LeftOK'
    BY <1>0, <2>1, <2>2, <2>4, <2>5 DEF TypeOK, JobsOK, JobOK, LeftOK
  <2>7. ASSUME NEW s \in Servers  PROVE PlacesOK(s)'
    <3>1. JobsOf(s)' = JobsOf(s)
      BY <2>1, SameJobs
    <3>. QED  BY <2>1, <3>1 DEF IndInv, PlacesOK
  <2>. QED  BY <2>6, <2>7 DEF IndInv
<1>4. CASE Release(j)
  <2>1. /\ UNCHANGED <<broker, holder, closed, loop, ended, faults>> /\ job[j].pc = "return"
        /\ job' = [job EXCEPT ![j] = NoJob]
        /\ permits' = [permits EXCEPT ![j[1]] = @ - 1]
    BY <1>4 DEF Release, brokerVars
  <2>2. /\ Cardinality(JobsOf(j[1]))' = Cardinality(JobsOf(j[1])) - 1
        /\ Cardinality(JobsOf(j[1])) \in Nat \ {0}
        /\ \A s \in Servers : s # j[1] => JobsOf(s)' = JobsOf(s)
    BY <1>0, <2>1, OneLess
  <2>3. permits[j[1]] \in Nat /\ permits[j[1]] # 0 /\ MaxExecutions[j[1]] \in Nat /\ PlacesOK(j[1])
    BY <1>0, <2>2, LimitsAssumption DEF IndInv, TypeOK, PlacesOK
  <2>4. job' \in [Jobs -> [pc : JobPCs, msg : Messages \cup {Nil}, err : Errs]]
    BY <1>0, <2>1 DEF JobPCs, NoJob, Errs
  <2>5. permits' \in [Servers -> Nat]
    <3>1. permits \in [Servers -> Nat]
      BY <1>0 DEF IndInv, TypeOK
    <3>2. permits[j[1]] - 1 \in Nat
      BY <2>3
    <3>. QED  BY <2>1, <3>1, <3>2
  <2>6. TypeOK' /\ LeftOK'
    BY <1>0, <2>1, <2>4, <2>5 DEF TypeOK, LeftOK
  <2>7. JobsOK'
    BY <1>0, <2>1 DEF JobsOK, JobOK, NoJob
  <2>8. ASSUME NEW s \in Servers  PROVE PlacesOK(s)'
    <3>1. CASE s = j[1]
      <4>1. permits'[s] = permits[s] - 1
        BY <1>0, <2>1, <3>1 DEF TypeOK
      <4>2. JobsOf(s) # {}
        BY <1>0, <2>1, <3>1 DEF JobsOf
      <4>. QED  BY <2>1, <2>2, <2>3, <3>1, <4>1, <4>2 DEF PlacesOK
    <3>2. CASE s # j[1]
      <4>1. permits'[s] = permits[s]
        BY <1>0, <2>1, <3>2 DEF TypeOK
      <4>. QED  BY <2>1, <2>2, <3>2, <4>1 DEF IndInv, PlacesOK
    <3>. QED  BY <3>1, <3>2
  <2>. QED  BY <2>6, <2>7, <2>8 DEF IndInv
<1>. QED  BY <1>1, <1>2, <1>3, <1>4 DEF JobStep

\* A crash takes the goroutines of a server with it and gives their places back.
LEMMA StepCrash ==
    ASSUME IndInv, NEW s \in Servers, Crash(s)
    PROVE  IndInv'
<1>0. /\ TypeOK /\ JobsOK /\ LeftOK
      /\ job \in [Jobs -> [pc : JobPCs, msg : Messages \cup {Nil}, err : Errs]]
  BY DEF IndInv, TypeOK
<1>1. /\ UNCHANGED <<broker, holder, closed, ended>> /\ faults' \in 0..MaxFaults
      /\ loop' = [loop EXCEPT ![s] = "down"] /\ permits' = [permits EXCEPT ![s] = 0]
      /\ job' = [j \in Jobs |-> IF j[1] = s THEN NoJob ELSE job[j]]
  BY <1>0, LimitsAssumption DEF TypeOK, Crash, LoopGoto, brokerVars
<1>2. NoJob \in [pc : JobPCs, msg : Messages \cup {Nil}, err : Errs] /\ NoJob.pc = "none"
  BY DEF NoJob, JobPCs, Errs
<1>3. job' \in [Jobs -> [pc : JobPCs, msg : Messages \cup {Nil}, err : Errs]]
  BY <1>0, <1>1, <1>2
<1>4. TypeOK' /\ LeftOK'
  BY <1>0, <1>1, <1>3 DEF TypeOK, LeftOK
<1>5. JobsOK'
  BY <1>0, <1>1, <1>2 DEF JobsOK, JobOK
<1>6. ASSUME NEW r \in Servers  PROVE PlacesOK(r)'
  <2>1. CASE r = s
    <3>1. JobsOf(s)' = {}
      BY <1>1, <1>2 DEF JobsOf
    <3>2. permits'[s] = 0 /\ loop'[s] = "down" /\ MaxExecutions[s] \in Nat
      BY <1>0, <1>1, LimitsAssumption DEF TypeOK
    <3>. QED  BY <2>1, <3>1, <3>2, FS_EmptySet DEF PlacesOK
  <2>2. CASE r # s
    <3>1. JobsOf(r)' = JobsOf(r)
      BY <1>1, <2>2, SameJobs
    <3>2. permits'[r] = permits[r] /\ loop'[r] = loop[r]
      BY <1>0, <1>1, <2>2 DEF TypeOK
    <3>. QED  BY <3>1, <3>2 DEF IndInv, PlacesOK
  <2>. QED  BY <2>1, <2>2
<1>. QED  BY <1>4, <1>5, <1>6 DEF IndInv

-----------------------------------------------------------------------------
(***************************************************************************)
(* The theorem.                                                            *)
(***************************************************************************)
\* Through read errors, callbacks that take over, crashes, restarts, expiries
\* and late answers, a server's semaphore counts what runs and stays within its
\* limit, and a message leaves the broker only when its final result is stored
\* or it is malformed.
THEOREM WorkIsKept == Spec => []WorkKept
<1>1. IndInv /\ [Next]_vars => IndInv'
  <2>. SUFFICES ASSUME IndInv, [Next]_vars  PROVE IndInv'
    OBVIOUS
  <2>1. CASE UNCHANGED vars
    BY <2>1 DEF vars, IndInv, TypeOK, JobsOK, JobOK, LeftOK, PlacesOK, JobsOf
  <2>2. Pullers \subseteq Servers /\ Pushers \subseteq Servers
    BY DEF Servers
  <2>. QED  BY <2>1, <2>2, StepBroker, StepTake, StepLoop, StepJob, StepCrash DEF Next
<1>2. IndInv => WorkKept
  BY DEF IndInv, WorkKept, PlacesOK, LeftOK
<1>. QED  BY <1>1, <1>2, InitIndInv, PTL DEF Spec
=============================================================================
