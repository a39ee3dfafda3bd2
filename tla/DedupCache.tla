----------------------------- MODULE DedupCache -----------------------------
(***************************************************************************)
(* DedupCache of notify-agent-core: duplicate suppression bounded by entry *)
(* count and TTL.  `try_add` reads the clock BEFORE it takes the mutex, so *)
(* a call is two steps: ReadNow, then the critical section, which is       *)
(* atomic.  Callers (the pipeline's workers) may take the mutex in an      *)
(* order different from the order of their clock readings.                 *)
(*                                                                         *)
(* `dequeue_one` pops the head of insertion_order and removes the key from *)
(* expiry_by_key only if the popped expiry is the one on record.  The two  *)
(* loops that call it (purge, evict) pop a prefix of the queue; the model  *)
(* says how long that prefix is and what is left after it.                 *)
(***************************************************************************)
EXTENDS Naturals, FiniteSets, Sequences

CONSTANTS Keys,        \* deduplication keys
          Callers,     \* threads that call try_add
          Capacity,    \* DedupCache.capacity
          TTL,         \* DedupCache.ttl, in ticks
          MaxTime      \* bound: the clock stops here

\* DedupCache::new asserts capacity >= 1; ttl is a Duration, never negative.
ASSUME CapacityAssumption == Capacity \in Nat \ {0}
ASSUME TTLAssumption == TTL \in Nat
ASSUME MaxTimeAssumption == MaxTime \in Nat

VARIABLES
    clock,             \* tokio::time::Instant::now(), monotonic
    calls,             \* try_add calls between the clock read and the lock
    expiry_by_key,     \* HashMap<String, Instant>
    insertion_order,   \* VecDeque<(String, Instant)>
    suppress_until     \* history: until when each key was promised to be
                       \* suppressed (0: never, or given up for room)

vars == <<clock, calls, expiry_by_key, insertion_order, suppress_until>>

Call == [caller : Callers, key : Keys, now : Nat]
Entry == Keys \X Nat

Init ==
    /\ clock = 0
    /\ calls = {}
    /\ expiry_by_key = [k \in {} |-> 0]
    /\ insertion_order = <<>>
    /\ suppress_until = [k \in Keys |-> 0]

-----------------------------------------------------------------------------
(* The critical section, as functions of the map m and of the queue q.     *)

\* Mutated form of DequeuedMap: no exact-expiry guard, the key always goes.
DequeuedMapAnyExpiry(m, q, n) ==
    [k \in {k \in DOMAIN m : \A i \in 1..n : q[i][1] # k} |-> m[k]]

\* Mutated form of DequeuedMap: entries are popped, their keys stay on record.
DequeuedMapKept(m, q, n) == m

(* The map after n calls of dequeue_one: a key goes when one of the popped *)
(* entries carries the expiry on record for it.                            *)
DequeuedMap(m, q, n) ==
    [k \in {k \in DOMAIN m : \A i \in 1..n : q[i] # <<k, m[k]>>} |-> m[k]]

(* The queue after n calls of dequeue_one.                                 *)
DequeuedQueue(q, n) == SubSeq(q, n + 1, Len(q))

(* The length of the prefix the purge loop pops: it stops at the first     *)
(* entry that has not expired.                                             *)
PurgeCount(q, now) ==
    CHOOSE n \in 0..Len(q) :
        /\ \A i \in 1..n : q[i][2] <= now
        /\ n < Len(q) => q[n + 1][2] > now

\* Mutated forms of HasRoom: an off-by-one in either direction.
HasRoomLate(m) == Cardinality(DOMAIN m) <= Capacity
HasRoomEarly(m) == Cardinality(DOMAIN m) + 1 < Capacity \/ DOMAIN m = {}

(* The evict loop continues while this is false.                           *)
HasRoom(m) == Cardinality(DOMAIN m) < Capacity

(* The length of the prefix the evict loop pops: until there is room or    *)
(* the queue is empty.                                                     *)
EvictCount(m, q) ==
    CHOOSE n \in 0..Len(q) :
        /\ n = Len(q) \/ HasRoom(DequeuedMap(m, q, n))
        /\ \A j \in 0..(n - 1) : ~HasRoom(DequeuedMap(m, q, j))

\* Mutated form of Expires: the entry outlives its TTL.
ExpiresLate(now) == now + TTL + 1

Expires(now) == now + TTL

(* Map and queue after the purge loop of a call that read `now`.           *)
PurgedMap(now) ==
    DequeuedMap(expiry_by_key, insertion_order, PurgeCount(insertion_order, now))
PurgedQueue(now) ==
    DequeuedQueue(insertion_order, PurgeCount(insertion_order, now))

(* Map and queue after the evict loop, which follows the purge loop.       *)
EvictedMap(now) ==
    DequeuedMap(PurgedMap(now), PurgedQueue(now),
                EvictCount(PurgedMap(now), PurgedQueue(now)))
EvictedQueue(now) ==
    DequeuedQueue(PurgedQueue(now), EvictCount(PurgedMap(now), PurgedQueue(now)))

IsDuplicate(m, k, now) == k \in DOMAIN m /\ m[k] > now

-----------------------------------------------------------------------------
(* Actions *)

Tick ==
    /\ clock < MaxTime
    /\ clock' = clock + 1
    /\ UNCHANGED <<calls, expiry_by_key, insertion_order, suppress_until>>

(* try_add(k), first line: the caller reads the clock, without the lock.   *)
ReadNow(c, k) ==
    /\ \A call \in calls : call.caller # c
    /\ calls' = calls \cup {[caller |-> c, key |-> k, now |-> clock]}
    /\ UNCHANGED <<clock, expiry_by_key, insertion_order, suppress_until>>

(* The critical section that ends in `return false`: purge, then a hit.    *)
TryAddRefused(call) ==
    /\ IsDuplicate(PurgedMap(call.now), call.key, call.now)
    /\ expiry_by_key' = PurgedMap(call.now)
    /\ insertion_order' = PurgedQueue(call.now)
    /\ calls' = calls \ {call}
    /\ UNCHANGED <<clock, suppress_until>>

(* The critical section that ends in `true`: purge, miss, evict, insert.   *)
TryAddAccepted(call) ==
    LET k == call.key
        kept == EvictedMap(call.now)
        expires == Expires(call.now)
    IN  /\ ~IsDuplicate(PurgedMap(call.now), k, call.now)
        /\ expiry_by_key' = [x \in DOMAIN kept \cup {k} |->
                                IF x = k THEN expires ELSE kept[x]]
        /\ insertion_order' = Append(EvictedQueue(call.now), <<k, expires>>)
        /\ suppress_until' =
              [x \in Keys |-> IF x = k THEN expires
                              ELSE IF x \in DOMAIN PurgedMap(call.now) \ DOMAIN kept
                              THEN 0 ELSE suppress_until[x]]
        /\ calls' = calls \ {call}
        /\ UNCHANGED clock

Next ==
    \/ Tick
    \/ \E c \in Callers, k \in Keys : ReadNow(c, k)
    \/ \E call \in calls : TryAddRefused(call)
    \/ \E call \in calls : TryAddAccepted(call)

Spec == Init /\ [][Next]_vars

-----------------------------------------------------------------------------
(* Properties *)

(* Types; and no expiry on record, in the map or in the queue, is further  *)
(* away than one TTL from the present (`now + self.ttl`, now in the past). *)
TypeOK ==
    /\ clock \in Nat
    /\ calls \subseteq Call
    /\ \A call \in calls : call.now <= clock
    /\ DOMAIN expiry_by_key \subseteq Keys
    /\ expiry_by_key \in [DOMAIN expiry_by_key -> Nat]
    /\ insertion_order \in Seq(Entry)
    /\ suppress_until \in [Keys -> Nat]
    /\ \A i \in 1..Len(insertion_order) : insertion_order[i][2] <= clock + TTL

(* Every key on record has the queue entry that will remove it: without it *)
(* the key would never be purged, and the evict loop could empty the queue *)
(* and still find no room.                                                 *)
IsBacked(m, q) ==
    \A k \in DOMAIN m : \E i \in 1..Len(q) : q[i] = <<k, m[k]>>
Backed == IsBacked(expiry_by_key, insertion_order)

(* The cache never holds more than `capacity` keys, in whatever order the  *)
(* callers get the lock.                                                   *)
Bounded == Cardinality(DOMAIN expiry_by_key) <= Capacity

(* What the record says of a key is the last promise made for it, and a    *)
(* promise that is not over is on record: an accepted key is not accepted  *)
(* again before its TTL is over, unless it was given up for room.  The     *)
(* stale queue entry a re-added key leaves behind must not void the new    *)
(* one ("only remove on exact expiry match").                              *)
PromiseKept ==
    /\ \A k \in DOMAIN expiry_by_key : expiry_by_key[k] = suppress_until[k]
    /\ \A k \in Keys : suppress_until[k] > clock => k \in DOMAIN expiry_by_key

(* A key that has not expired is forgotten only when the cache is full.    *)
ForgetsOnlyWhenFull ==
    [][(\E k \in DOMAIN expiry_by_key \ DOMAIN expiry_by_key' :
            expiry_by_key[k] > clock)
          => Cardinality(DOMAIN expiry_by_key) = Capacity]_vars

(* The cache implements the duplicate filter: the live keys are the ones   *)
(* on record.                                                              *)
Filter == INSTANCE DuplicateFilter
          WITH DedupKeys <- Keys, DedupCapacity <- Capacity,
               live <- DOMAIN expiry_by_key
RefinesFilter == Filter!FilterSpec
=============================================================================
