----------------------------- MODULE Aggregator -----------------------------
(***************************************************************************)
(* Aggregator of notify-agent-core, with the render sink behind it.        *)
(*                                                                         *)
(* A critical notification is rendered at once; the others wait in a       *)
(* bucket per (aggregation key, priority) until the bucket's timer task    *)
(* flushes it into one toast.  Rendering a toast (show it, then            *)
(* acknowledge each of its source events) is a task of its own; shutdown   *)
(* flushes every bucket and waits, bounded by drain_timeout, for the       *)
(* render tasks.                                                           *)
(*                                                                         *)
(* `buckets` is guarded by a mutex and each critical section is one step.  *)
(* What happens outside of it is a step of its own: a timer that has woken *)
(* up waits for the lock (WakeTimer, TimerFlush), and after it took its    *)
(* bucket out it spawns the render task without holding the lock           *)
(* (SpawnRender).                                                          *)
(*                                                                         *)
(* Time is not modelled: a window may end at any moment after the bucket   *)
(* was opened, which includes every relation between the 2 s and the 10 s  *)
(* windows, the 5 s acknowledgement timeout and the scheduler's delays.    *)
(*                                                                         *)
(* A bucket's events are a set: flush sorts them by seq, which is unique,  *)
(* so the order in which they were pushed is never observed.               *)
(***************************************************************************)
EXTENDS Naturals, FiniteSets, Sequences

CONSTANTS Payloads,     \* contents of messages: records with the fields
                        \* aggregation_key, deduplication_key, priority,
                        \* replaceable, and valid (parse_event accepts it)
          MaxSeq,       \* bound: highest arrival stamp
          MaxBuckets    \* AggregatorConfig.max_buckets

ASSUME MaxSeqAssumption == MaxSeq \in Nat
ASSUME MaxBucketsAssumption == MaxBuckets \in Nat

(* A received event, later an InboundNotification: its arrival stamp and   *)
(* its content.                                                            *)
Event == [seq : 1..MaxSeq, body : Payloads]

(* Key = (String, Priority): what buckets are keyed by.                    *)
Key(n) == <<n.body.aggregation_key, n.body.priority>>

VARIABLES
    added,        \* history: events handed to add()
    buckets,      \* HashMap<Key, Bucket>: events, and the id of the timer
    timers,       \* timer tasks: id (seq of the bucket's first event), key,
                  \* and whether the sleep is over (past that, abort() is void)
    flushing,     \* batches a timer took out of `buckets` but has not yet
                  \* handed to a render task
    renders,      \* TaskTracker: the render tasks that have not ended
    shown,        \* history: toasts the renderer accepted, in order
    submitted,    \* events whose submitted_to_windows ack was published
    finished,     \* history: events whose render task has ended
    superseded,   \* history: events dropped in favour of another one
    dropped_bucket_overflow,  \* the events the counter of that name counts
    stage,        \* where Aggregator::shutdown is
    to_flush      \* the keys shutdown has still to flush

aggregatorVars == <<added, buckets, timers, flushing, renders, shown, submitted,
                    finished, superseded, dropped_bucket_overflow, stage, to_flush>>

sinkVars == <<shown, submitted, finished>>

AggregatorInit ==
    /\ added = {}
    /\ buckets = [k \in {} |-> 0]
    /\ timers = {}
    /\ flushing = {}
    /\ renders = {}
    /\ shown = <<>>
    /\ submitted = {}
    /\ finished = {}
    /\ superseded = {}
    /\ dropped_bucket_overflow = {}
    /\ stage = "open"
    /\ to_flush = {}

(* A render task for a batch of events: none of them acknowledged yet.     *)
RenderTask(batch) == [sources |-> batch, unacked |-> batch, shown |-> FALSE]

(* The events of a batch, by their arrival stamps.                         *)
Newest(batch) == CHOOSE n \in batch : \A m \in batch : m.seq <= n.seq
Oldest(batch) == CHOOSE n \in batch : \A m \in batch : n.seq <= m.seq

-----------------------------------------------------------------------------
(* add *)

(* A critical notification: its render task is spawned, no bucket.         *)
AddCritical(n) ==
    /\ n.body.priority = "Critical"
    /\ renders' = renders \cup {RenderTask({n})}
    /\ UNCHANGED <<buckets, timers, superseded, dropped_bucket_overflow>>

\* Mutated form of apply_to_bucket: the value that arrives last wins.
apply_to_bucket_LastArrival(events, n) ==
    IF n.body.replaceable THEN {n} ELSE events \cup {n}

\* Mutated form of apply_to_bucket: a replaceable event is only appended.
apply_to_bucket_NoClear(events, n) ==
    IF n.body.replaceable /\ n.seq < Newest(events).seq THEN events
    ELSE events \cup {n}

\* Mutated form of apply_to_bucket: the bucket is cleared, the new value lost.
apply_to_bucket_ClearOnly(events, n) ==
    IF ~n.body.replaceable THEN events \cup {n}
    ELSE IF n.seq >= Newest(events).seq THEN {}
    ELSE events

(* A replaceable event replaces the whole bucket unless the bucket has a   *)
(* newer one, in which case it is dropped; any other event joins.          *)
apply_to_bucket(events, n) ==
    IF ~n.body.replaceable THEN events \cup {n}
    ELSE IF n.seq >= Newest(events).seq THEN {n}
    ELSE events

AddToBucket(n) ==
    LET k == Key(n)
        before == buckets[k].events
        after == apply_to_bucket(before, n)
    IN  /\ n.body.priority # "Critical"
        /\ k \in DOMAIN buckets
        /\ buckets' = [buckets EXCEPT ![k].events = after]
        /\ superseded' = superseded \cup ((before \cup {n}) \ after)
        /\ UNCHANGED <<timers, renders, dropped_bucket_overflow>>

HasBucketRoom == Cardinality(DOMAIN buckets) < MaxBuckets

(* A new key at the bucket limit: the event is counted and dropped.        *)
AddOverflow(n) ==
    /\ n.body.priority # "Critical"
    /\ Key(n) \notin DOMAIN buckets
    /\ ~HasBucketRoom
    /\ dropped_bucket_overflow' = dropped_bucket_overflow \cup {n}
    /\ UNCHANGED <<buckets, timers, renders, superseded>>

\* Mutated form of AddNewBucket: no timer task is spawned.
AddNewBucketNoTimer(n) ==
    LET k == Key(n)
    IN  /\ n.body.priority # "Critical"
        /\ k \notin DOMAIN buckets
        /\ HasBucketRoom
        /\ buckets' = [x \in DOMAIN buckets \cup {k} |->
                          IF x = k THEN [events |-> {n}, timer |-> n.seq]
                          ELSE buckets[x]]
        /\ UNCHANGED <<timers, renders, superseded, dropped_bucket_overflow>>

(* A new key: a timer task is spawned and the bucket opened, under one     *)
(* lock.                                                                   *)
AddNewBucket(n) ==
    LET k == Key(n)
    IN  /\ n.body.priority # "Critical"
        /\ k \notin DOMAIN buckets
        /\ HasBucketRoom
        /\ timers' = timers \cup {[id |-> n.seq, key |-> k, woken |-> FALSE]}
        /\ buckets' = [x \in DOMAIN buckets \cup {k} |->
                          IF x = k THEN [events |-> {n}, timer |-> n.seq]
                          ELSE buckets[x]]
        /\ UNCHANGED <<renders, superseded, dropped_bucket_overflow>>

(* Aggregator::add(n).                                                     *)
Add(n) ==
    /\ added' = added \cup {n}
    /\ \/ AddCritical(n)
       \/ AddToBucket(n)
       \/ AddOverflow(n)
       \/ AddNewBucket(n)
    /\ UNCHANGED <<flushing, sinkVars, stage, to_flush>>

-----------------------------------------------------------------------------
(* flush, by a timer task or by shutdown *)

\* Mutated form of WithoutBucket: the bucket is read but not removed.
WithoutBucketKept(k) == buckets

(* buckets without key k.                                                  *)
WithoutBucket(k) == [x \in DOMAIN buckets \ {k} |-> buckets[x]]

\* Mutated form of Abort: the handle of the timer is dropped, not aborted.
AbortNothing(id) == timers

(* timer.abort(): a sleeping timer task is killed; one that is already     *)
(* past its sleep runs on.                                                 *)
Abort(id) == {t \in timers : t.id # id \/ t.woken}

(* The sleep(window) of a timer task is over.                              *)
WakeTimer(t) ==
    /\ ~t.woken
    /\ timers' = (timers \ {t}) \cup {[t EXCEPT !.woken = TRUE]}
    /\ UNCHANGED <<added, buckets, flushing, renders, sinkVars, superseded,
                   dropped_bucket_overflow, stage, to_flush>>

(* The timer task gets the lock and takes the bucket of its key, if there  *)
(* is one.  (Aborting itself has no effect: nothing it awaits follows.)    *)
TimerFlush(t) ==
    /\ t.woken
    /\ timers' = timers \ {t}
    /\ IF t.key \in DOMAIN buckets
       THEN /\ buckets' = WithoutBucket(t.key)
            /\ flushing' = flushing \cup {buckets[t.key].events}
       ELSE UNCHANGED <<buckets, flushing>>
    /\ UNCHANGED <<added, renders, sinkVars, superseded,
                   dropped_bucket_overflow, stage, to_flush>>

(* The lock is released; the timer task sorts the batch and spawns its     *)
(* render task.                                                            *)
SpawnRender(batch) ==
    /\ flushing' = flushing \ {batch}
    /\ renders' = renders \cup {RenderTask(batch)}
    /\ UNCHANGED <<added, buckets, timers, sinkVars, superseded,
                   dropped_bucket_overflow, stage, to_flush>>

-----------------------------------------------------------------------------
(* AckingRenderSink::render, in a render task *)

(* renderer.show(toast) succeeds.                                          *)
Show(r) ==
    /\ ~r.shown
    /\ shown' = Append(shown, r.sources)
    /\ renders' = (renders \ {r}) \cup {[r EXCEPT !.shown = TRUE]}
    /\ UNCHANGED <<added, buckets, timers, flushing, submitted, finished,
                   superseded, dropped_bucket_overflow, stage, to_flush>>

\* Mutated form of ShowFails: the toast is tried again.
ShowFailsRetried(r) ==
    /\ ~r.shown
    /\ finished' = finished \cup r.sources
    /\ UNCHANGED <<added, buckets, timers, flushing, renders, shown, submitted,
                   superseded, dropped_bucket_overflow, stage, to_flush>>

(* renderer.show(toast) fails: logged, the task ends without an ack.       *)
ShowFails(r) ==
    /\ ~r.shown
    /\ renders' = renders \ {r}
    /\ finished' = finished \cup r.sources
    /\ UNCHANGED <<added, buckets, timers, flushing, shown, submitted,
                   superseded, dropped_bucket_overflow, stage, to_flush>>

(* The acks are published one after the other, in the order of seq.        *)
(* publish_ack returns within ACK_PUBLISH_TIMEOUT; a failure or a timeout  *)
(* is logged and the loop goes on, so its outcome is not modelled.  The    *)
(* task ends with the last ack.                                            *)
AckSubmitted(r) ==
    LET n == Oldest(r.unacked)
        left == r.unacked \ {n}
    IN  /\ r.shown
        /\ submitted' = submitted \cup {n}
        /\ IF left = {}
           THEN /\ renders' = renders \ {r}
                /\ finished' = finished \cup r.sources
           ELSE /\ renders' = (renders \ {r}) \cup {[r EXCEPT !.unacked = left]}
                /\ UNCHANGED finished
        /\ UNCHANGED <<added, buckets, timers, flushing, shown, superseded,
                       dropped_bucket_overflow, stage, to_flush>>

-----------------------------------------------------------------------------
(* Aggregator::shutdown *)

(* The keys of the open buckets are copied, under the lock.                *)
BeginShutdown ==
    /\ stage = "open"
    /\ stage' = "flushing"
    /\ to_flush' = DOMAIN buckets
    /\ UNCHANGED <<added, buckets, timers, flushing, renders, sinkVars,
                   superseded, dropped_bucket_overflow>>

(* One turn of the loop over the copied keys: flush(k).                    *)
ShutdownFlush(k) ==
    /\ stage = "flushing"
    /\ to_flush' = to_flush \ {k}
    /\ IF k \in DOMAIN buckets
       THEN /\ buckets' = WithoutBucket(k)
            /\ timers' = Abort(buckets[k].timer)
            /\ renders' = renders \cup {RenderTask(buckets[k].events)}
       ELSE UNCHANGED <<buckets, timers, renders>>
    /\ UNCHANGED <<added, flushing, sinkVars, superseded,
                   dropped_bucket_overflow, stage>>

\* Mutated form of CloseRenders: the loop over the keys is left early.
CloseRendersEarly ==
    /\ stage = "flushing"
    /\ stage' = "draining"
    /\ UNCHANGED <<added, buckets, timers, flushing, renders, sinkVars,
                   superseded, dropped_bucket_overflow, to_flush>>

(* renders.close(), and the wait begins.                                   *)
CloseRenders ==
    /\ stage = "flushing"
    /\ to_flush = {}
    /\ stage' = "draining"
    /\ UNCHANGED <<added, buckets, timers, flushing, renders, sinkVars,
                   superseded, dropped_bucket_overflow, to_flush>>

(* renders.wait() returns: the tracker is closed and empty.                *)
Drained ==
    /\ stage = "draining"
    /\ renders = {}
    /\ stage' = "drained"
    /\ UNCHANGED <<added, buckets, timers, flushing, renders, sinkVars,
                   superseded, dropped_bucket_overflow, to_flush>>

\* Mutated form of DrainTimeout: the wait is not bounded.
DrainTimeoutNever == FALSE /\ UNCHANGED aggregatorVars

(* drain_timeout expires first; the render tasks are abandoned.            *)
DrainTimeout ==
    /\ stage = "draining"
    /\ renders # {}
    /\ stage' = "timed_out"
    /\ UNCHANGED <<added, buckets, timers, flushing, renders, sinkVars,
                   superseded, dropped_bucket_overflow, to_flush>>

-----------------------------------------------------------------------------
(* The pipeline hands over each parsed, unsuppressed event once, and calls *)
(* shutdown only after its workers have ended (AgentHost::shutdown).       *)
Submit(n) ==
    /\ stage = "open"
    /\ \A m \in added : m.seq # n.seq
    /\ Add(n)

(* What the aggregator's own tasks do.                                     *)
TaskStep ==
    \/ \E t \in timers : WakeTimer(t)
    \/ \E t \in timers : TimerFlush(t)
    \/ \E batch \in flushing : SpawnRender(batch)
    \/ \E r \in renders : Show(r)
    \/ \E r \in renders : ShowFails(r)
    \/ \E r \in renders : AckSubmitted(r)

(* What shutdown does once it was called.                                  *)
ShutdownStep ==
    \/ \E k \in to_flush : ShutdownFlush(k)
    \/ CloseRenders
    \/ Drained
    \/ DrainTimeout

AggregatorNext ==
    \/ \E n \in Event : Submit(n)
    \/ BeginShutdown
    \/ TaskStep
    \/ ShutdownStep

AggregatorSpec == AggregatorInit /\ [][AggregatorNext]_aggregatorVars

(* The tokio runtime runs every task that can run: a timer task wakes up   *)
(* and gets the lock; shutdown goes on, and its timeout fires.  Nothing is *)
(* assumed of render tasks: the renderer may never return.                 *)
AggregatorFairness ==
    /\ \A i \in 1..MaxSeq :
        WF_aggregatorVars(\E t \in timers : t.id = i /\ (WakeTimer(t) \/ TimerFlush(t)))
    /\ WF_aggregatorVars(ShutdownStep)

AggregatorFairSpec == AggregatorSpec /\ AggregatorFairness

-----------------------------------------------------------------------------
(* Properties *)

InBuckets == UNION {buckets[k].events : k \in DOMAIN buckets}
InFlushing == UNION flushing
InRenders == UNION {r.sources : r \in renders}

BucketKey == {Key(n) : n \in Event}

(* A bucket holds at least one event, and only events of its own key.      *)
BucketsOK ==
    /\ buckets \in [DOMAIN buckets -> [events : SUBSET Event, timer : 1..MaxSeq]]
    /\ \A k \in DOMAIN buckets :
        /\ buckets[k].events # {}
        /\ \A n \in buckets[k].events : Key(n) = k

TimersOK == timers \subseteq [id : 1..MaxSeq, key : BucketKey, woken : BOOLEAN]

(* A render task has an event to acknowledge, all of them at first.        *)
RendersOK ==
    /\ renders \subseteq [sources : SUBSET Event, unacked : SUBSET Event, shown : BOOLEAN]
    /\ \A r \in renders :
        /\ r.unacked # {} /\ r.unacked \subseteq r.sources
        /\ ~r.shown => r.unacked = r.sources

(* Types; every bucket, batch and toast has at least one event (from_batch *)
(* asserts it).                                                            *)
AggregatorTypeOK ==
    /\ added \subseteq Event
    /\ BucketsOK
    /\ TimersOK
    /\ flushing \subseteq (SUBSET Event) \ {{}}
    /\ RendersOK
    /\ shown \in Seq(SUBSET Event)
    /\ submitted \subseteq Event
    /\ stage \in {"open", "flushing", "draining", "drained", "timed_out"}
    /\ to_flush \subseteq BucketKey

(* The places an event can be in after it was handed to add().             *)
Places == <<InBuckets, InFlushing, InRenders, finished, superseded,
            dropped_bucket_overflow>>

(* No event is lost track of and none is in two places: what was handed to *)
(* add() is in one bucket, or in one batch being flushed, or in one render *)
(* task, or its render task has ended, or it was superseded, or it was     *)
(* counted as dropped.  Timer and shutdown compete for the same bucket;    *)
(* only one of them gets it.                                               *)
Conservation ==
    /\ added = UNION {Places[i] : i \in 1..6}
    /\ \A i, j \in 1..6 : i # j => Places[i] \cap Places[j] = {}
    /\ \A k, l \in DOMAIN buckets :
        k # l => buckets[k].events \cap buckets[l].events = {}
    /\ \A b, c \in flushing : b # c => b \cap c = {}
    /\ \A r, s \in renders : r # s => r.sources \cap s.sources = {}

(* Delivery is at most once: no event is part of two toasts; and an event  *)
(* is acknowledged as submitted only after a toast with it was accepted.   *)
AtMostOneToast ==
    /\ \A i, j \in 1..Len(shown) : i # j => shown[i] \cap shown[j] = {}
    /\ submitted \subseteq UNION {shown[i] : i \in 1..Len(shown)}

(* An event is dropped in favour of another only if the other is newer, of *)
(* the same key, and one of the two is replaceable.  So the newest event   *)
(* of a key is never the one that is dropped.                              *)
SupersededByNewer ==
    \A n \in superseded : \E m \in added :
        /\ Key(m) = Key(n) /\ m.seq > n.seq
        /\ m.body.replaceable \/ n.body.replaceable

(* A bucket, and so a toast, shows at most one value of a replaceable      *)
(* state.                                                                  *)
OneReplaceableValue ==
    \A batch \in {buckets[k].events : k \in DOMAIN buckets}
                  \cup flushing \cup {r.sources : r \in renders} :
        \A n, m \in batch : n.body.replaceable /\ m.body.replaceable => n = m

(* Every open bucket has its own timer running, or it would never be       *)
(* flushed; and no timer outlives its bucket to cut short the window of a  *)
(* later bucket of the same key, except one that had woken up when         *)
(* shutdown took its bucket.                                               *)
TimerOwnsBucket ==
    /\ \A k \in DOMAIN buckets :
        \E t \in timers : t.id = buckets[k].timer /\ t.key = k
    /\ \A t \in timers :
        \/ t.key \in DOMAIN buckets /\ buckets[t.key].timer = t.id
        \/ t.woken /\ stage # "open"

(* Once shutdown waits for the render tasks, no bucket is left behind.     *)
ShutdownEmptiesBuckets ==
    stage \in {"draining", "drained", "timed_out"} => DOMAIN buckets = {}

(* An event does not stay in a bucket for ever, whatever the renderer does.*)
Waiting(i) == \E n \in InBuckets : n.seq = i
BucketsGetFlushed == \A i \in 1..MaxSeq : Waiting(i) ~> ~Waiting(i)

(* Shutdown ends even if the renderer hangs.                               *)
ShutdownEnds == stage = "flushing" ~> stage \in {"drained", "timed_out"}

(* apply_to_bucket: "a stale lower-seq arrival is dropped even if it       *)
(* arrives later in wall time".  Of two values of a replaceable state, the *)
(* newer one is shown last.                                                *)
NewestStateShownLast ==
    \A i, j \in 1..Len(shown) : i < j =>
        \A n \in shown[i], m \in shown[j] :
            Key(n) = Key(m) /\ n.body.replaceable /\ m.body.replaceable
                => n.seq < m.seq
=============================================================================
