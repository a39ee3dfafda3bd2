-------------------------- MODULE DedupCacheProofs --------------------------
(***************************************************************************)
(* Proofs about DedupCache, for every set of keys and callers and for      *)
(* every capacity and TTL.                                                 *)
(*                                                                         *)
(* The bound on the number of keys is not inductive by itself: the evict   *)
(* loop also ends when the queue is empty, so one has to know that a key   *)
(* on record always has its entry in the queue (Backed).                   *)
(***************************************************************************)
EXTENDS DedupCache, SequenceTheorems, FiniteSetTheorems, WellFoundedInduction, TLAPS

(* The inductive invariant.                                                *)
IInv ==
    /\ TypeOK
    /\ IsFiniteSet(DOMAIN expiry_by_key)
    /\ Backed
    /\ Bounded
    /\ PromiseKept

-----------------------------------------------------------------------------
(* The two loops *)

(* Every non-empty set of naturals has a least element.  It is obtained    *)
(* from the well-foundedness of strict inclusion between finite sets.      *)
LEMMA LeastNatural ==
    ASSUME NEW S \in SUBSET Nat, S # {}
    PROVE  \E n \in S : \A m \in S : n <= m
<1> DEFINE R == StrictSubsetOrdering(Nat)
           T == {0..n : n \in S}
<1>1. IsWellFoundedOn(R, FiniteSubsetsOf(Nat))
  BY FS_StrictSubsetOrderingWellFounded
<1>2. T \subseteq FiniteSubsetsOf(Nat) /\ T # {}
  <2> SUFFICES ASSUME NEW n \in S PROVE 0..n \in FiniteSubsetsOf(Nat)
    OBVIOUS
  <2>1. 0..n \in SUBSET Nat /\ IsFiniteSet(0..n)
    BY FS_Interval
  <2> QED
    BY <2>1 DEF FiniteSubsetsOf
<1>3. PICK x \in T : \A y \in T : ~(<<y, x>> \in R)
  <2> HIDE DEF R, T
  <2> QED
    BY <1>1, <1>2, WFMin
<1>4. PICK n \in S : x = 0..n
  OBVIOUS
<1>5. ASSUME NEW m \in S, m < n PROVE FALSE
  <2>1. <<0..m, 0..n>> \notin R
    BY <1>3, <1>4
  <2>2. 0..m \subseteq 0..n /\ 0..m # 0..n
    BY <1>5
  <2>3. <<0..m, 0..n>> \in R
    BY <2>2 DEF StrictSubsetOrdering
  <2> QED
    BY <2>1, <2>3
<1> QED
  BY <1>5

(* The purge loop stops within the queue and pops expired entries only.    *)
LEMMA PurgeCountOK ==
    ASSUME NEW q \in Seq(Entry), NEW now \in Nat
    PROVE  /\ PurgeCount(q, now) \in 0..Len(q)
           /\ \A i \in 1..PurgeCount(q, now) : q[i][2] <= now
<1> DEFINE Stops(n) == n < Len(q) => q[n + 1][2] > now
           S == {n \in 0..Len(q) : Stops(n)}
<1>1. Len(q) \in Nat /\ \A i \in 1..Len(q) : q[i] \in Entry
  OBVIOUS
<1>2. S \in SUBSET Nat /\ Len(q) \in S
  BY <1>1
<1>3. PICK n \in S : \A m \in S : n <= m
  <2> HIDE DEF S
  <2> QED
    BY <1>2, LeastNatural
<1>4. ASSUME NEW i \in 1..n PROVE q[i][2] <= now
  <2>1. i - 1 \in 0..Len(q) /\ i - 1 < n /\ i - 1 < Len(q) /\ (i - 1) + 1 = i
    BY <1>1, <1>4
  <2>2. i - 1 \notin S
    BY <1>3, <2>1
  <2>3. ~(q[i][2] > now)
    BY <2>1, <2>2
  <2>4. q[i][2] \in Nat
    BY <1>1, <2>1, <1>4 DEF Entry
  <2> QED
    BY <2>3, <2>4
<1> DEFINE P(c) == (\A i \in 1..c : q[i][2] <= now) /\ Stops(c)
<1>5. \E c \in 0..Len(q) : P(c)
  BY <1>3, <1>4
<1>6. PurgeCount(q, now) = CHOOSE c \in 0..Len(q) : P(c)
  BY DEF PurgeCount
<1>7. PurgeCount(q, now) \in 0..Len(q) /\ P(PurgeCount(q, now))
  <2> HIDE DEF P
  <2> QED
    BY <1>5, <1>6
<1> QED
  BY <1>7

(* The evict loop stops within the queue, with room or with an empty       *)
(* queue, and it pops nothing when there was room.                         *)
LEMMA EvictCountOK ==
    ASSUME NEW m, NEW q \in Seq(Entry)
    PROVE  /\ EvictCount(m, q) \in 0..Len(q)
           /\ EvictCount(m, q) = Len(q) \/ HasRoom(DequeuedMap(m, q, EvictCount(m, q)))
           /\ \A j \in 0..(EvictCount(m, q) - 1) : ~HasRoom(DequeuedMap(m, q, j))
<1> DEFINE Room(n) == HasRoom(DequeuedMap(m, q, n))
           S == {n \in 0..Len(q) : n = Len(q) \/ Room(n)}
           P(c) == /\ c = Len(q) \/ Room(c)
                   /\ \A j \in 0..(c - 1) : ~Room(j)
<1>1. Len(q) \in Nat
  OBVIOUS
<1> HIDE DEF Room
<1>2. S \in SUBSET Nat /\ Len(q) \in S
  BY <1>1
<1>3. PICK n \in S : \A c \in S : n <= c
  <2> HIDE DEF S
  <2> QED
    BY <1>2, LeastNatural
<1>4. P(n)
  BY <1>1, <1>3
<1>5. \E c \in 0..Len(q) : P(c)
  BY <1>3, <1>4
<1>6. EvictCount(m, q) = CHOOSE c \in 0..Len(q) : P(c)
  BY DEF EvictCount, Room
<1>7. EvictCount(m, q) \in 0..Len(q) /\ P(EvictCount(m, q))
  <2> HIDE DEF P
  <2> QED
    BY <1>5, <1>6
<1> QED
  BY <1>7 DEF Room

(* Popping n entries leaves a suffix of the queue.                         *)
LEMMA DequeuedQueueOK ==
    ASSUME NEW q \in Seq(Entry), NEW n \in 0..Len(q)
    PROVE  /\ DequeuedQueue(q, n) \in Seq(Entry)
           /\ Len(DequeuedQueue(q, n)) = Len(q) - n
           /\ \A i \in 1..(Len(q) - n) : DequeuedQueue(q, n)[i] = q[n + i]
<1>1. Len(q) \in Nat /\ n \in Nat /\ n <= Len(q)
  OBVIOUS
<1> QED
  BY <1>1 DEF DequeuedQueue

(* Popping n entries removes keys whose entry was popped, and only those.  *)
LEMMA DequeuedMapOK ==
    ASSUME NEW m, NEW q, NEW n
    PROVE  /\ DOMAIN DequeuedMap(m, q, n) \subseteq DOMAIN m
           /\ \A k \in DOMAIN DequeuedMap(m, q, n) : DequeuedMap(m, q, n)[k] = m[k]
           /\ \A k \in DOMAIN m \ DOMAIN DequeuedMap(m, q, n) :
                 \E i \in 1..n : q[i] = <<k, m[k]>>
           /\ \A k \in DOMAIN DequeuedMap(m, q, n) :
                 \A i \in 1..n : q[i] # <<k, m[k]>>
BY DEF DequeuedMap

(* Popping entries never leaves a key without its entry.                   *)
LEMMA DequeuedBacked ==
    ASSUME NEW m, NEW q \in Seq(Entry), NEW n \in 0..Len(q), IsBacked(m, q)
    PROVE  IsBacked(DequeuedMap(m, q, n), DequeuedQueue(q, n))
<1> DEFINE m2 == DequeuedMap(m, q, n)
           q2 == DequeuedQueue(q, n)
<1> SUFFICES ASSUME NEW k \in DOMAIN m2
             PROVE  \E i \in 1..Len(q2) : q2[i] = <<k, m2[k]>>
  BY DEF IsBacked
<1>1. k \in DOMAIN m /\ m2[k] = m[k] /\ \A i \in 1..n : q[i] # <<k, m[k]>>
  BY DequeuedMapOK
<1>2. PICK i \in 1..Len(q) : q[i] = <<k, m[k]>>
  BY <1>1 DEF IsBacked
<1>3. Len(q) \in Nat /\ n \in Nat /\ i > n
  BY <1>1, <1>2
<1>4. i - n \in 1..Len(q2) /\ q2[i - n] = q[i]
  <2>1. Len(q2) = Len(q) - n /\ \A j \in 1..(Len(q) - n) : q2[j] = q[n + j]
    BY DequeuedQueueOK
  <2>2. i - n \in 1..(Len(q) - n) /\ n + (i - n) = i
    BY <1>3
  <2> HIDE DEF q2
  <2> QED
    BY <2>1, <2>2
<1> QED
  BY <1>1, <1>2, <1>4

-----------------------------------------------------------------------------
(* The critical section *)

(* After the purge loop: the queue is a queue, backs the map, and only     *)
(* keys that had expired by `now` are gone.                                *)
LEMMA PurgeOK ==
    ASSUME IInv, NEW now \in Nat, now <= clock
    PROVE  /\ PurgedQueue(now) \in Seq(Entry)
           /\ IsBacked(PurgedMap(now), PurgedQueue(now))
           /\ DOMAIN PurgedMap(now) \subseteq DOMAIN expiry_by_key
           /\ \A k \in DOMAIN PurgedMap(now) : PurgedMap(now)[k] = expiry_by_key[k]
           /\ \A k \in DOMAIN expiry_by_key \ DOMAIN PurgedMap(now) :
                 expiry_by_key[k] <= clock
           /\ \A i \in 1..Len(PurgedQueue(now)) : PurgedQueue(now)[i][2] <= clock + TTL
<1> DEFINE m == expiry_by_key
           q == insertion_order
           p == PurgeCount(q, now)
<1>1. q \in Seq(Entry) /\ IsBacked(m, q) /\ clock \in Nat /\ Len(q) \in Nat
  BY DEF IInv, TypeOK, Backed
<1>2. p \in 0..Len(q) /\ \A i \in 1..p : q[i][2] <= now
  BY <1>1, PurgeCountOK
<1>3. PurgedQueue(now) \in Seq(Entry) /\ IsBacked(PurgedMap(now), PurgedQueue(now))
  BY <1>1, <1>2, DequeuedQueueOK, DequeuedBacked DEF PurgedMap, PurgedQueue
<1>4. /\ DOMAIN PurgedMap(now) \subseteq DOMAIN m
      /\ \A k \in DOMAIN PurgedMap(now) : PurgedMap(now)[k] = m[k]
  BY DequeuedMapOK DEF PurgedMap
<1>5. ASSUME NEW k \in DOMAIN m \ DOMAIN PurgedMap(now) PROVE m[k] <= clock
  <2>1. PICK i \in 1..p : q[i] = <<k, m[k]>>
    BY <1>5, DequeuedMapOK DEF PurgedMap
  <2>2. m[k] \in Nat /\ q[i][2] = m[k] /\ q[i][2] <= now
    BY <1>2, <2>1 DEF IInv, TypeOK
  <2> QED
    BY <2>2, <1>1
<1>6. ASSUME NEW i \in 1..Len(PurgedQueue(now))
      PROVE  PurgedQueue(now)[i][2] <= clock + TTL
  <2>1. /\ Len(PurgedQueue(now)) = Len(q) - p
        /\ \A j \in 1..(Len(q) - p) : PurgedQueue(now)[j] = q[p + j]
    BY <1>1, <1>2, DequeuedQueueOK DEF PurgedQueue
  <2>2. p + i \in 1..Len(q) /\ PurgedQueue(now)[i] = q[p + i]
    BY <1>1, <1>2, <1>6, <2>1
  <2> QED
    BY <2>2 DEF IInv, TypeOK
<1> QED
  BY <1>3, <1>4, <1>5, <1>6

(* After the evict loop there is room for one more key, and the loop took  *)
(* a key away only if there was none before.                               *)
LEMMA EvictOK ==
    ASSUME IInv, NEW now \in Nat, now <= clock
    PROVE  /\ EvictedQueue(now) \in Seq(Entry)
           /\ IsBacked(EvictedMap(now), EvictedQueue(now))
           /\ DOMAIN EvictedMap(now) \subseteq DOMAIN PurgedMap(now)
           /\ \A k \in DOMAIN EvictedMap(now) : EvictedMap(now)[k] = expiry_by_key[k]
           /\ IsFiniteSet(DOMAIN EvictedMap(now))
           /\ Cardinality(DOMAIN EvictedMap(now)) < Capacity
           /\ DOMAIN EvictedMap(now) # DOMAIN PurgedMap(now)
                 => Cardinality(DOMAIN expiry_by_key) = Capacity
           /\ \A i \in 1..Len(EvictedQueue(now)) : EvictedQueue(now)[i][2] <= clock + TTL
<1> DEFINE m == PurgedMap(now)
           q == PurgedQueue(now)
           e == EvictCount(m, q)
           m2 == EvictedMap(now)
           q2 == EvictedQueue(now)
<1>1. /\ q \in Seq(Entry) /\ Len(q) \in Nat
      /\ IsBacked(m, q)
      /\ DOMAIN m \subseteq DOMAIN expiry_by_key
      /\ \A k \in DOMAIN m : m[k] = expiry_by_key[k]
      /\ \A i \in 1..Len(q) : q[i][2] <= clock + TTL
  <2>1. q \in Seq(Entry) /\ \A i \in 1..Len(q) : q[i][2] <= clock + TTL
    BY PurgeOK
  <2> QED
    BY <2>1, PurgeOK
<1>2. /\ m2 = DequeuedMap(m, q, e)
      /\ q2 = DequeuedQueue(q, e)
  BY DEF EvictedMap, EvictedQueue
<1>3. /\ e \in 0..Len(q)
      /\ e = Len(q) \/ HasRoom(m2)
      /\ \A j \in 0..(e - 1) : ~HasRoom(DequeuedMap(m, q, j))
  BY <1>1, <1>2, EvictCountOK
<1> HIDE DEF m, q, e, m2, q2
<1>4. /\ q2 \in Seq(Entry) /\ Len(q2) = Len(q) - e
      /\ \A i \in 1..(Len(q) - e) : q2[i] = q[e + i]
      /\ IsBacked(m2, q2)
  BY <1>1, <1>2, <1>3, DequeuedQueueOK, DequeuedBacked
<1>5. /\ DOMAIN m2 \subseteq DOMAIN m
      /\ \A k \in DOMAIN m2 : m2[k] = m[k]
  BY <1>2, DequeuedMapOK
<1>6. /\ IsFiniteSet(DOMAIN m) /\ IsFiniteSet(DOMAIN m2)
      /\ Cardinality(DOMAIN m) <= Cardinality(DOMAIN expiry_by_key)
      /\ Cardinality(DOMAIN expiry_by_key) \in Nat
      /\ Cardinality(DOMAIN m) \in Nat
  BY <1>1, <1>5, FS_Subset, FS_CardinalityType DEF IInv
<1>7. Cardinality(DOMAIN m2) < Capacity
  <2>1. CASE e = Len(q)
    <3>1. Len(q2) = 0
      BY <1>1, <1>4, <2>1
    <3>2. 1..Len(q2) = {}
      BY <3>1
    <3>3. DOMAIN m2 = {}
      BY <1>4, <3>2, Zenon DEF IsBacked
    <3> QED
      BY <3>3, FS_EmptySet, CapacityAssumption
  <2>2. CASE HasRoom(m2)
    BY <2>2 DEF HasRoom
  <2> QED
    BY <1>3, <2>1, <2>2
<1>8. ASSUME DOMAIN m2 # DOMAIN m
      PROVE  Cardinality(DOMAIN expiry_by_key) = Capacity
  <2>1. PICK k \in DOMAIN m : k \notin DOMAIN m2
    BY <1>5, <1>8
  <2>2. \E i \in 1..e : q[i] = <<k, m[k]>>
    <3>1. k \in DOMAIN m \ DOMAIN DequeuedMap(m, q, e)
      BY <1>2, <2>1
    <3> QED
      BY <3>1 DEF DequeuedMap
  <2>3. 0 \in 0..(e - 1)
    BY <1>1, <1>3, <2>2
  <2>4. DOMAIN DequeuedMap(m, q, 0) = DOMAIN m
    BY DEF DequeuedMap
  <2>5. ~(Cardinality(DOMAIN m) < Capacity)
    BY <1>3, <2>3, <2>4 DEF HasRoom
  <2> QED
    BY <1>6, <2>5, CapacityAssumption DEF IInv, Bounded
<1>9. ASSUME NEW i \in 1..Len(q2) PROVE q2[i][2] <= clock + TTL
  <2>1. e + i \in 1..Len(q) /\ q2[i] = q[e + i]
    BY <1>1, <1>3, <1>4, <1>9
  <2> QED
    BY <1>1, <2>1
<1> QED
  BY <1>1, <1>4, <1>5, <1>6, <1>7, <1>8, <1>9 DEF m, m2, q2

-----------------------------------------------------------------------------
(* The inductive invariant *)

LEMMA InitInvariant == Init => IInv
<1> SUFFICES ASSUME Init PROVE IInv
  OBVIOUS
<1>1. DOMAIN expiry_by_key = {} /\ insertion_order = <<>> /\ calls = {}
  BY DEF Init
<1>2. TypeOK
  BY <1>1, TTLAssumption DEF Init, TypeOK, Entry
<1>3. IsFiniteSet(DOMAIN expiry_by_key) /\ Bounded
  BY <1>1, FS_EmptySet, CapacityAssumption DEF Bounded
<1>4. Backed /\ PromiseKept
  BY <1>1 DEF Init, Backed, IsBacked, PromiseKept
<1> QED
  BY <1>2, <1>3, <1>4 DEF IInv

(* A call read the clock in the past.                                      *)
LEMMA CallOK ==
    ASSUME IInv, NEW call \in calls
    PROVE  call.key \in Keys /\ call.now \in Nat /\ call.now <= clock
BY DEF IInv, TypeOK, Call

LEMMA TickInvariant == IInv /\ Tick => IInv'
<1> SUFFICES ASSUME IInv, Tick PROVE IInv'
  OBVIOUS
<1>1. clock' = clock + 1 /\ clock \in Nat /\ clock' \in Nat
  BY DEF IInv, TypeOK, Tick
<1>2. TypeOK'
  <2>1. \A call \in calls : call.now <= clock'
    BY <1>1 DEF IInv, TypeOK, Call
  <2>2. \A i \in 1..Len(insertion_order) : insertion_order[i][2] <= clock' + TTL
    <3> SUFFICES ASSUME NEW i \in 1..Len(insertion_order)
                 PROVE  insertion_order[i][2] <= clock' + TTL
      OBVIOUS
    <3>1. insertion_order[i] \in Entry /\ insertion_order[i][2] <= clock + TTL
      BY DEF IInv, TypeOK
    <3> QED
      BY <1>1, <3>1, TTLAssumption DEF Entry
  <2> QED
    BY <1>1, <2>1, <2>2 DEF IInv, TypeOK, Tick
<1>3. PromiseKept'
  BY <1>1 DEF IInv, TypeOK, Tick, PromiseKept
<1> QED
  BY <1>2, <1>3 DEF IInv, Tick, Backed, Bounded

LEMMA ReadNowInvariant ==
    ASSUME IInv, NEW c \in Callers, NEW k \in Keys, ReadNow(c, k)
    PROVE  IInv'
<1>1. TypeOK'
  BY DEF IInv, TypeOK, ReadNow, Call
<1> QED
  BY <1>1 DEF IInv, ReadNow, Backed, Bounded, PromiseKept

LEMMA TryAddRefusedInvariant ==
    ASSUME IInv, NEW call \in calls, TryAddRefused(call)
    PROVE  IInv'
<1> DEFINE now == call.now
<1>1. now \in Nat /\ now <= clock
  BY CallOK
<1>2. /\ expiry_by_key' = PurgedMap(now) /\ insertion_order' = PurgedQueue(now)
      /\ calls' \subseteq calls /\ clock' = clock /\ suppress_until' = suppress_until
  BY DEF TryAddRefused
<1>3. /\ insertion_order' \in Seq(Entry)
      /\ IsBacked(expiry_by_key', insertion_order')
      /\ DOMAIN expiry_by_key' \subseteq DOMAIN expiry_by_key
      /\ \A k \in DOMAIN expiry_by_key' : expiry_by_key'[k] = expiry_by_key[k]
      /\ \A k \in DOMAIN expiry_by_key \ DOMAIN expiry_by_key' : expiry_by_key[k] <= clock
      /\ \A i \in 1..Len(insertion_order') : insertion_order'[i][2] <= clock + TTL
  BY <1>1, <1>2, PurgeOK
<1>4. TypeOK'
  <2>1. expiry_by_key' = [k \in DOMAIN expiry_by_key' |-> expiry_by_key'[k]]
    BY <1>2 DEF PurgedMap, DequeuedMap
  <2>2. expiry_by_key' \in [DOMAIN expiry_by_key' -> Nat]
    BY <1>3, <2>1 DEF IInv, TypeOK
  <2> QED
    BY <1>2, <1>3, <2>2 DEF IInv, TypeOK
<1>5. IsFiniteSet(DOMAIN expiry_by_key') /\ Bounded'
  <2>1. IsFiniteSet(DOMAIN expiry_by_key) /\ Cardinality(DOMAIN expiry_by_key) <= Capacity
    BY DEF IInv, Bounded
  <2>2. /\ IsFiniteSet(DOMAIN expiry_by_key')
        /\ Cardinality(DOMAIN expiry_by_key') <= Cardinality(DOMAIN expiry_by_key)
        /\ Cardinality(DOMAIN expiry_by_key') \in Nat
        /\ Cardinality(DOMAIN expiry_by_key) \in Nat
    BY <1>3, <2>1, FS_Subset, FS_CardinalityType
  <2> QED
    BY <2>1, <2>2, CapacityAssumption DEF Bounded
<1>6. PromiseKept'
  BY <1>2, <1>3 DEF IInv, TypeOK, PromiseKept
<1> QED
  BY <1>3, <1>4, <1>5, <1>6 DEF IInv, Backed

LEMMA TryAddAcceptedInvariant ==
    ASSUME IInv, NEW call \in calls, TryAddAccepted(call)
    PROVE  IInv'
<1> DEFINE now == call.now
           k == call.key
           kept == EvictedMap(now)
           left == EvictedQueue(now)
           expires == now + TTL
<1>1. now \in Nat /\ now <= clock /\ k \in Keys /\ clock \in Nat
  BY CallOK DEF IInv, TypeOK
<1>2. /\ expiry_by_key' = [x \in DOMAIN kept \cup {k} |->
                               IF x = k THEN expires ELSE kept[x]]
      /\ insertion_order' = Append(left, <<k, expires>>)
      /\ suppress_until' =
            [x \in Keys |-> IF x = k THEN expires
                            ELSE IF x \in DOMAIN PurgedMap(now) \ DOMAIN kept
                            THEN 0 ELSE suppress_until[x]]
      /\ calls' \subseteq calls /\ clock' = clock
  BY DEF TryAddAccepted, Expires
<1>3. /\ left \in Seq(Entry)
      /\ IsBacked(kept, left)
      /\ DOMAIN kept \subseteq DOMAIN PurgedMap(now)
      /\ \A x \in DOMAIN kept : kept[x] = expiry_by_key[x]
      /\ IsFiniteSet(DOMAIN kept)
      /\ Cardinality(DOMAIN kept) < Capacity
      /\ \A i \in 1..Len(left) : left[i][2] <= clock + TTL
  BY <1>1, EvictOK
<1>4. /\ DOMAIN PurgedMap(now) \subseteq DOMAIN expiry_by_key
      /\ \A x \in DOMAIN expiry_by_key \ DOMAIN PurgedMap(now) :
            expiry_by_key[x] <= clock
  BY <1>1, PurgeOK
<1>5. expires \in Nat /\ expires <= clock + TTL
  BY <1>1, TTLAssumption
<1> HIDE DEF kept, left, expires, now, k
<1>6. TypeOK'
  <2>1. /\ DOMAIN expiry_by_key' \subseteq Keys
        /\ expiry_by_key' \in [DOMAIN expiry_by_key' -> Nat]
    BY <1>1, <1>2, <1>3, <1>4, <1>5 DEF IInv, TypeOK
  <2>2. insertion_order' \in Seq(Entry)
    BY <1>1, <1>2, <1>3, <1>5 DEF Entry
  <2>3. \A i \in 1..Len(insertion_order') : insertion_order'[i][2] <= clock' + TTL
    BY <1>2, <1>3, <1>5
  <2>4. suppress_until' \in [Keys -> Nat]
    BY <1>2, <1>5 DEF IInv, TypeOK
  <2> QED
    BY <1>2, <2>1, <2>2, <2>3, <2>4 DEF IInv, TypeOK
<1>7. IsFiniteSet(DOMAIN expiry_by_key') /\ Bounded'
  <2>1. DOMAIN expiry_by_key' = DOMAIN kept \cup {k}
    BY <1>2
  <2>2. /\ IsFiniteSet(DOMAIN kept \cup {k})
        /\ Cardinality(DOMAIN kept \cup {k}) =
              IF k \in DOMAIN kept THEN Cardinality(DOMAIN kept)
              ELSE Cardinality(DOMAIN kept) + 1
    BY <1>3, FS_AddElement
  <2>3. Cardinality(DOMAIN kept) \in Nat
    BY <1>3, FS_CardinalityType
  <2> QED
    BY <1>3, <2>1, <2>2, <2>3, CapacityAssumption DEF Bounded
<1>8. Backed'
  <2> SUFFICES ASSUME NEW x \in DOMAIN kept \cup {k}
               PROVE  \E i \in 1..Len(insertion_order') :
                         insertion_order'[i] = <<x, expiry_by_key'[x]>>
    BY <1>2 DEF Backed, IsBacked
  <2>1. /\ Len(insertion_order') = Len(left) + 1 /\ Len(left) \in Nat
        /\ insertion_order'[Len(left) + 1] = <<k, expires>>
        /\ \A i \in 1..Len(left) : insertion_order'[i] = left[i]
    BY <1>1, <1>2, <1>3, <1>5 DEF Entry
  <2>2. CASE x = k
    BY <1>2, <2>1, <2>2
  <2>3. CASE x # k
    <3>1. PICK i \in 1..Len(left) : left[i] = <<x, kept[x]>>
      BY <1>3, <2>3 DEF IsBacked
    <3> QED
      BY <1>2, <2>1, <2>3, <3>1
  <2> QED
    BY <2>2, <2>3
<1>9. PromiseKept'
  <2>1. ASSUME NEW x \in DOMAIN expiry_by_key'
        PROVE  expiry_by_key'[x] = suppress_until'[x]
    BY <1>1, <1>2, <1>3, <1>4, <2>1 DEF IInv, TypeOK, PromiseKept
  <2>2. ASSUME NEW x \in Keys, suppress_until'[x] > clock', x # k
        PROVE  x \in DOMAIN kept
    <3>1. suppress_until[x] > clock /\ x \notin DOMAIN PurgedMap(now) \ DOMAIN kept
      BY <1>1, <1>2, <2>2
    <3>2. x \in DOMAIN expiry_by_key /\ expiry_by_key[x] > clock
      BY <3>1 DEF IInv, PromiseKept
    <3>3. expiry_by_key[x] \in Nat
      BY <3>2 DEF IInv, TypeOK
    <3> QED
      BY <1>1, <1>4, <3>1, <3>2, <3>3
  <2> QED
    BY <1>2, <2>1, <2>2 DEF PromiseKept
<1> QED
  BY <1>6, <1>7, <1>8, <1>9 DEF IInv

LEMMA StepInvariant == IInv /\ [Next]_vars => IInv'
<1> SUFFICES ASSUME IInv, [Next]_vars PROVE IInv'
  OBVIOUS
<1>1. CASE Tick
  BY <1>1, TickInvariant
<1>2. CASE \E c \in Callers, k \in Keys : ReadNow(c, k)
  BY <1>2, ReadNowInvariant
<1>3. CASE \E call \in calls : TryAddRefused(call)
  BY <1>3, TryAddRefusedInvariant
<1>4. CASE \E call \in calls : TryAddAccepted(call)
  BY <1>4, TryAddAcceptedInvariant
<1>5. CASE UNCHANGED vars
  BY <1>5 DEF vars, IInv, TypeOK, Backed, Bounded, PromiseKept
<1> QED
  BY <1>1, <1>2, <1>3, <1>4, <1>5 DEF Next

(* The inductive invariant holds in every reachable state.                 *)
THEOREM Invariant == Spec => []IInv
<1>1. Init => IInv
  BY InitInvariant
<1>2. IInv /\ [Next]_vars => IInv'
  BY StepInvariant
<1> QED
  BY <1>1, <1>2, PTL DEF Spec

(* try_add keeps the cache well-formed, and no expiry is further away than *)
(* one TTL.                                                                *)
THEOREM TypeCorrect == Spec => []TypeOK
<1>1. IInv => TypeOK
  BY DEF IInv
<1> QED
  BY <1>1, Invariant, PTL

(* The cache never holds more than `capacity` keys, however many callers   *)
(* race for the lock.                                                      *)
THEOREM CapacityRespected == Spec => []Bounded
<1>1. IInv => Bounded
  BY DEF IInv
<1> QED
  BY <1>1, Invariant, PTL

(* A key is not accepted again within its TTL unless it was given up for   *)
(* room.                                                                   *)
THEOREM PromisesKept == Spec => []PromiseKept
<1>1. IInv => PromiseKept
  BY DEF IInv
<1> QED
  BY <1>1, Invariant, PTL

(* Every key in the map has its record in the insertion order, with the    *)
(* same expiry, so the purge and the eviction, which look at the order     *)
(* alone, lose sight of none (try_add: entry and push_back in one lock).   *)
THEOREM RecordsBackKeys == Spec => []Backed
<1>1. IInv => Backed
  BY DEF IInv
<1> QED
  BY <1>1, Invariant, PTL

-----------------------------------------------------------------------------
(* What a step may never do *)

(* A key that has not expired is forgotten only when the cache is full.    *)
THEOREM ForgettingNeedsFullCache == Spec => ForgetsOnlyWhenFull
<1> DEFINE Full == Cardinality(DOMAIN expiry_by_key) = Capacity
           Forgets == \E k \in DOMAIN expiry_by_key \ DOMAIN expiry_by_key' :
                         expiry_by_key[k] > clock
<1>1. ASSUME IInv, [Next]_vars PROVE [Forgets => Full]_vars
  <2>1. CASE Tick \/ (\E c \in Callers, k \in Keys : ReadNow(c, k)) \/ UNCHANGED vars
    BY <2>1 DEF Tick, ReadNow, vars
  <2>2. ASSUME NEW call \in calls, TryAddRefused(call) PROVE ~Forgets
    <3>1. call.now \in Nat /\ call.now <= clock
      BY <1>1, CallOK
    <3>2. expiry_by_key' = PurgedMap(call.now)
      BY <2>2 DEF TryAddRefused
    <3>3. \A k \in DOMAIN expiry_by_key \ DOMAIN expiry_by_key' : expiry_by_key[k] <= clock
      BY <1>1, <3>1, <3>2, PurgeOK
    <3> QED
      BY <1>1, <3>3 DEF IInv, TypeOK
  <2>3. ASSUME NEW call \in calls, TryAddAccepted(call), Forgets PROVE Full
    <3>1. call.now \in Nat /\ call.now <= clock
      BY <1>1, CallOK
    <3>2. PICK k \in DOMAIN expiry_by_key \ DOMAIN expiry_by_key' : expiry_by_key[k] > clock
      BY <2>3
    <3>3. k \notin DOMAIN EvictedMap(call.now)
      BY <2>3, <3>2 DEF TryAddAccepted
    <3>4. k \in DOMAIN PurgedMap(call.now)
      <4>1. k \notin DOMAIN PurgedMap(call.now) => expiry_by_key[k] <= clock
        BY <1>1, <3>1, <3>2, PurgeOK
      <4>2. expiry_by_key[k] \in Nat /\ clock \in Nat
        BY <1>1, <3>2 DEF IInv, TypeOK
      <4> QED
        BY <3>2, <4>1, <4>2
    <3>5. DOMAIN EvictedMap(call.now) # DOMAIN PurgedMap(call.now)
      BY <3>3, <3>4
    <3> QED
      BY <1>1, <3>1, <3>5, EvictOK
  <2> HIDE DEF Forgets, Full
  <2> QED
    BY <1>1, <2>1, <2>2, <2>3 DEF Next
<1> QED
  BY <1>1, Invariant, PTL DEF Spec, ForgetsOnlyWhenFull

-----------------------------------------------------------------------------
(* Refinement *)

(* DedupCache implements the duplicate filter the agent is built on: every *)
(* call accepts a key that is not live or refuses one that is, and never   *)
(* exceeds the capacity.                                                   *)
THEOREM Refinement == Spec => RefinesFilter
<1>1. Init => Filter!FilterInit
  BY DEF Init, Filter!FilterInit
<1>2. ASSUME IInv, IInv', [Next]_vars
      PROVE  [Filter!FilterNext]_(DOMAIN expiry_by_key)
  <2> DEFINE live == DOMAIN expiry_by_key
  <2>1. CASE Tick \/ (\E c \in Callers, k \in Keys : ReadNow(c, k)) \/ UNCHANGED vars
    BY <2>1 DEF Tick, ReadNow, vars
  <2>2. ASSUME NEW call \in calls, TryAddRefused(call) PROVE Filter!Refuse(call.key)
    <3>1. call.now \in Nat /\ call.now <= clock
      BY <1>2, CallOK
    <3>2. /\ live' = DOMAIN PurgedMap(call.now)
          /\ call.key \in DOMAIN PurgedMap(call.now)
      BY <2>2 DEF TryAddRefused, IsDuplicate
    <3>3. DOMAIN PurgedMap(call.now) \subseteq live
      BY <1>2, <3>1, PurgeOK
    <3>4. live \ live' \in SUBSET live /\ call.key \notin live \ live'
          /\ live' = live \ (live \ live') /\ call.key \in live
      BY <3>2, <3>3
    <3> QED
      BY <3>4 DEF Filter!Refuse
  <2>3. ASSUME NEW call \in calls, TryAddAccepted(call) PROVE Filter!Accept(call.key)
    <3> DEFINE k == call.key
               kept == DOMAIN EvictedMap(call.now)
               forgotten == live \ (kept \ {k})
    <3>1. call.now \in Nat /\ call.now <= clock
      BY <1>2, CallOK
    <3>2. live' = kept \cup {k}
      BY <2>3 DEF TryAddAccepted
    <3>3. kept \subseteq live
      <4>1. kept \subseteq DOMAIN PurgedMap(call.now)
        BY <1>2, <3>1, EvictOK
      <4>2. DOMAIN PurgedMap(call.now) \subseteq live
        BY <1>2, <3>1, PurgeOK
      <4> QED
        BY <4>1, <4>2
    <3>4. Cardinality(live') <= Capacity
      BY <1>2 DEF IInv, Bounded
    <3>5. /\ forgotten \in SUBSET live
          /\ k \notin live \ forgotten
          /\ live' = (live \ forgotten) \cup {k}
      BY <3>2, <3>3
    <3>6. \E F \in SUBSET live : /\ k \notin live \ F
                                  /\ live' = (live \ F) \cup {k}
                                  /\ Cardinality(live') <= Capacity
      <4> HIDE DEF forgotten, live, k
      <4> QED
        BY <3>4, <3>5
    <3>7. Filter!Cardinality(live') = Cardinality(live')
      BY DEF Filter!Cardinality, Cardinality
    <3> QED
      BY <3>6, <3>7 DEF Filter!Accept
  <2>4. \A call \in calls : call.key \in Keys
    BY <1>2, CallOK
  <2> QED
    BY <1>2, <2>1, <2>2, <2>3, <2>4 DEF Next, Filter!FilterNext
<1> QED
  BY <1>1, <1>2, Invariant, PTL DEF Spec, RefinesFilter, Filter!FilterSpec

-----------------------------------------------------------------------------
(* What a call may answer *)

(* try_add answers by the promises made, though it reads the clock before  *)
(* it takes the lock: it refuses only a key whose promise was not over at  *)
(* its own reading and ends within one TTL, and it accepts no key whose    *)
(* promise is not over at the moment it holds the lock, however late that  *)
(* is.                                                                     *)
AnswersByPromise ==
    [][\A call \in calls :
          /\ TryAddRefused(call) => /\ suppress_until[call.key] > call.now
                                    /\ suppress_until[call.key] <= clock + TTL
          /\ TryAddAccepted(call) => suppress_until[call.key] <= clock]_vars

(* No event is suppressed without an accepted one of the same key within   *)
(* one TTL before, and none accepted twice within one TTL unless its key   *)
(* was given up for room, for every order in which callers get the lock    *)
(* (try_add).                                                              *)
THEOREM AnswersFollowPromises == Spec => AnswersByPromise
<1> DEFINE Refused(call) == /\ suppress_until[call.key] > call.now
                            /\ suppress_until[call.key] <= clock + TTL
           Accepted(call) == suppress_until[call.key] <= clock
<1>1. ASSUME IInv, NEW call \in calls, TryAddRefused(call) PROVE Refused(call)
  <2>1. call.now \in Nat /\ call.now <= clock /\ call.key \in Keys
    BY <1>1, CallOK
  <2>2. /\ call.key \in DOMAIN PurgedMap(call.now)
        /\ PurgedMap(call.now)[call.key] > call.now
    BY <1>1 DEF TryAddRefused, IsDuplicate
  <2>3. /\ call.key \in DOMAIN expiry_by_key
        /\ PurgedMap(call.now)[call.key] = expiry_by_key[call.key]
    BY <1>1, <2>1, <2>2, PurgeOK
  <2>4. expiry_by_key[call.key] = suppress_until[call.key]
    BY <1>1, <2>3 DEF IInv, PromiseKept
  <2>5. PICK i \in 1..Len(insertion_order) :
           insertion_order[i] = <<call.key, expiry_by_key[call.key]>>
    BY <1>1, <2>3 DEF IInv, Backed, IsBacked
  <2>6. expiry_by_key[call.key] <= clock + TTL
    <3>1. insertion_order[i][2] <= clock + TTL
      BY <1>1, <2>5 DEF IInv, TypeOK
    <3>2. insertion_order[i][2] = expiry_by_key[call.key]
      BY <2>5
    <3> QED
      BY <3>1, <3>2
  <2> QED
    BY <2>2, <2>3, <2>4, <2>6
<1>2. ASSUME IInv, NEW call \in calls, TryAddAccepted(call) PROVE Accepted(call)
  <2>1. call.now \in Nat /\ call.now <= clock /\ call.key \in Keys
    BY <1>2, CallOK
  <2>2. clock \in Nat /\ suppress_until[call.key] \in Nat
    BY <1>2, <2>1 DEF IInv, TypeOK
  <2> SUFFICES ASSUME suppress_until[call.key] > clock PROVE FALSE
    BY <2>2
  <2>3. /\ call.key \in DOMAIN expiry_by_key
        /\ expiry_by_key[call.key] = suppress_until[call.key]
    BY <1>2, <2>1 DEF IInv, PromiseKept
  <2>4. ~(expiry_by_key[call.key] <= clock)
    BY <2>2, <2>3
  <2>5. call.key \in DOMAIN PurgedMap(call.now)
    BY <1>2, <2>1, <2>3, <2>4, PurgeOK
  <2>6. PurgedMap(call.now)[call.key] = suppress_until[call.key]
    BY <1>2, <2>1, <2>3, <2>5, PurgeOK
  <2>7. PurgedMap(call.now)[call.key] > call.now
    BY <2>1, <2>2, <2>6
  <2> QED
    BY <1>2, <2>5, <2>7 DEF TryAddAccepted, IsDuplicate
<1>3. ASSUME IInv
      PROVE  [\A call \in calls :
                /\ TryAddRefused(call) => /\ suppress_until[call.key] > call.now
                                          /\ suppress_until[call.key] <= clock + TTL
                /\ TryAddAccepted(call) => suppress_until[call.key] <= clock]_vars
  BY <1>1, <1>2, <1>3
<1> QED
  BY <1>3, Invariant, PTL DEF AnswersByPromise
=============================================================================
