--------------------------- MODULE DuplicateFilter ---------------------------
(***************************************************************************)
(* What the duplicate suppression of the agent promises to its callers.    *)
(* A bounded set of keys is live.  Adding a key succeeds exactly when the  *)
(* key is not live; while doing so the filter may forget keys (they        *)
(* expired, or room was needed), but never the key it refuses.             *)
(*                                                                         *)
(* DedupCache implements this specification, with a clock, a TTL and an    *)
(* eviction queue.  The agent (module AgentHost) is built on this one.     *)
(***************************************************************************)
EXTENDS Naturals, FiniteSets

CONSTANTS DedupKeys,      \* deduplication keys
          DedupCapacity   \* DedupCache.capacity

ASSUME DedupCapacityAssumption == DedupCapacity \in Nat \ {0}

VARIABLE live             \* the keys a new event is a duplicate of

FilterInit == live = {}

(* try_add(k) = true: k was unknown, or is forgotten before it is looked   *)
(* up; it is live afterwards.                                              *)
Accept(k) ==
    \E forgotten \in SUBSET live :
        /\ k \notin live \ forgotten
        /\ live' = (live \ forgotten) \cup {k}
        /\ Cardinality(live') <= DedupCapacity

(* try_add(k) = false: k is live and stays so; expired keys may go.        *)
Refuse(k) ==
    /\ k \in live
    /\ \E forgotten \in SUBSET live :
        /\ k \notin forgotten
        /\ live' = live \ forgotten

FilterNext == \E k \in DedupKeys : Accept(k) \/ Refuse(k)

FilterSpec == FilterInit /\ [][FilterNext]_live
=============================================================================
