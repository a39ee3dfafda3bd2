-------------------------- MODULE AggregatorProofs --------------------------
(***************************************************************************)
(* Proofs about Aggregator, for every set of payloads, every number of     *)
(* events and every limit on the buckets.                                  *)
(***************************************************************************)
EXTENDS Aggregator, FiniteSetTheorems, WellFoundedInduction, TLAPS

-----------------------------------------------------------------------------
(* Helpers *)

(* Every non-empty set of naturals has a least element.  It is obtained    *)
(* from the well-foundedness of strict inclusion between finite sets.      *)
LEMMA LeastNatural ==
    ASSUME NEW S \in SUBSET Nat, S # {}
    PROVE  \E n \in S : \A m \in S : n <= m
<1> DEFINE R == StrictSubsetOrdering(Nat)
           T == {0..n : n \in S}
<1>1. IsWellFoundedOn(R, FiniteSubsetsOf(Nat))
  BY FS_StrictSubsetOrderingWellFounded
<1>2. T \subseteq FiniteSubsetsOf(Nat) /\ T # {}
  <2> SUFFICES ASSUME NEW n \in S PROVE 0..n \in FiniteSubsetsOf(Nat)
    OBVIOUS
  <2>1. 0..n \in SUBSET Nat /\ IsFiniteSet(0..n)
    BY FS_Interval
  <2> QED
    BY <2>1 DEF FiniteSubsetsOf
<1>3. PICK x \in T : \A y \in T : ~(<<y, x>> \in R)
  <2> HIDE DEF R, T
  <2> QED
    BY <1>1, <1>2, WFMin
<1>4. PICK n \in S : x = 0..n
  OBVIOUS
<1>5. ASSUME NEW m \in S, m < n PROVE FALSE
  <2>1. <<0..m, 0..n>> \notin R
    BY <1>3, <1>4
  <2>2. 0..m \subseteq 0..n /\ 0..m # 0..n
    BY <1>5
  <2>3. <<0..m, 0..n>> \in R
    BY <2>2 DEF StrictSubsetOrdering
  <2> QED
    BY <2>1, <2>3
<1> QED
  BY <1>5

(* The acks are published for the oldest event that has none: there is one *)
(* (pipeline.rs, AckingRenderSink::render).                                *)
LEMMA OldestInBatch ==
    ASSUME NEW batch \in SUBSET Event, batch # {}
    PROVE  Oldest(batch) \in batch
  <1> DEFINE S == {n.seq : n \in batch}
  <1>1. S \in SUBSET Nat /\ S # {}
    BY MaxSeqAssumption DEF Event
  <1>2. PICK s \in S : \A m \in S : s <= m
    <2> HIDE DEF S
    <2> QED
      BY <1>1, LeastNatural
  <1>3. PICK n \in batch : n.seq = s
    OBVIOUS
  <1>4. \A m \in batch : n.seq <= m.seq
    BY <1>2, <1>3
  <1> QED
    BY <1>4 DEF Oldest

(* A new render task has the shape of one.                                 *)
LEMMA RenderTaskOK ==
    ASSUME NEW batch \in SUBSET Event, batch # {}, RendersOK,
           renders' = renders \cup {RenderTask(batch)}
    PROVE  RendersOK'
  <1> DEFINE t == RenderTask(batch)
  <1>1. /\ t \in [sources : SUBSET Event, unacked : SUBSET Event, shown : BOOLEAN]
        /\ t.unacked # {} /\ t.unacked \subseteq t.sources
        /\ t.unacked = t.sources
    BY DEF RenderTask
  <1> HIDE DEF t
  <1>2. renders' = renders \cup {t}
    BY DEF t
  <1> QED
    BY <1>1, <1>2 DEF RendersOK

(* What a bucket has after apply_to_bucket was there before or is the new  *)
(* event, and it has something (aggregator.rs, apply_to_bucket).           *)
LEMMA ApplyOK ==
    ASSUME NEW events, NEW n, events # {}
    PROVE  /\ apply_to_bucket(events, n) \subseteq events \cup {n}
           /\ apply_to_bucket(events, n) # {}
  BY DEF apply_to_bucket

-----------------------------------------------------------------------------
(* Types *)

LEMMA TypeInit == AggregatorInit => AggregatorTypeOK
  BY DEF AggregatorInit, AggregatorTypeOK, BucketsOK, TimersOK, RendersOK

LEMMA TypeSubmit ==
    ASSUME AggregatorTypeOK, NEW n \in Event, Submit(n)
    PROVE  AggregatorTypeOK'
  <1>1. added' \subseteq Event /\ n.seq \in 1..MaxSeq /\ Key(n) \in BucketKey
    BY DEF AggregatorTypeOK, Event, BucketKey, Submit, Add
  <1>2. UNCHANGED <<flushing, shown, submitted, stage, to_flush>>
    BY DEF Submit, Add, sinkVars
  <1>3. BucketsOK' /\ TimersOK' /\ RendersOK'
    <2>1. CASE AddCritical(n)
      <3>1. RendersOK'
        BY <2>1, RenderTaskOK DEF AddCritical, AggregatorTypeOK
      <3> QED
        BY <2>1, <3>1 DEF AddCritical, AggregatorTypeOK, BucketsOK, TimersOK
    <2>2. CASE AddToBucket(n)
      <3> DEFINE after == apply_to_bucket(buckets[Key(n)].events, n)
      <3>1. buckets[Key(n)].events # {} /\ buckets[Key(n)].events \subseteq Event
        BY <2>2 DEF AddToBucket, AggregatorTypeOK, BucketsOK
      <3>2. after \subseteq buckets[Key(n)].events \cup {n} /\ after # {}
        BY <3>1, ApplyOK
      <3>3. buckets' = [buckets EXCEPT ![Key(n)].events = after]
        BY <2>2 DEF AddToBucket
      <3> HIDE DEF after
      <3>4. BucketsOK'
        BY <2>2, <3>1, <3>2, <3>3 DEF AddToBucket, AggregatorTypeOK, BucketsOK
      <3> QED
        BY <2>2, <3>4 DEF AddToBucket, AggregatorTypeOK, TimersOK, RendersOK
    <2>3. CASE AddOverflow(n)
      BY <2>3 DEF AddOverflow, AggregatorTypeOK, BucketsOK, TimersOK, RendersOK
    <2>4. CASE AddNewBucket(n)
      <3>1. BucketsOK'
        BY <1>1, <2>4 DEF AddNewBucket, AggregatorTypeOK, BucketsOK
      <3>2. TimersOK'
        <4> DEFINE t == [id |-> n.seq, key |-> Key(n), woken |-> FALSE]
        <4>1. t \in [id : 1..MaxSeq, key : BucketKey, woken : BOOLEAN]
          BY <1>1
        <4>2. timers' = timers \cup {t}
          BY <2>4 DEF AddNewBucket
        <4> HIDE DEF t
        <4> QED
          BY <4>1, <4>2 DEF AggregatorTypeOK, TimersOK
      <3> QED
        BY <2>4, <3>1, <3>2 DEF AddNewBucket, AggregatorTypeOK, RendersOK
    <2> QED
      BY <2>1, <2>2, <2>3, <2>4 DEF Submit, Add
  <1> QED
    BY <1>1, <1>2, <1>3 DEF AggregatorTypeOK

(* The steps of timer and render tasks.                                    *)
LEMMA TypeTask ==
    ASSUME AggregatorTypeOK, TaskStep
    PROVE  AggregatorTypeOK'
  <1>1. ASSUME NEW t \in timers, WakeTimer(t)
        PROVE  AggregatorTypeOK'
    <2> DEFINE u == [t EXCEPT !.woken = TRUE]
    <2>1. u \in [id : 1..MaxSeq, key : BucketKey, woken : BOOLEAN]
      BY DEF AggregatorTypeOK, TimersOK
    <2>2. timers' = (timers \ {t}) \cup {u}
      BY <1>1 DEF WakeTimer
    <2> HIDE DEF u
    <2>3. TimersOK'
      BY <2>1, <2>2 DEF AggregatorTypeOK, TimersOK
    <2> QED
      BY <1>1, <2>3 DEF WakeTimer, AggregatorTypeOK, BucketsOK, RendersOK, sinkVars
  <1>2. ASSUME NEW t \in timers, TimerFlush(t)
        PROVE  AggregatorTypeOK'
    <2>1. BucketsOK'
      BY <1>2 DEF TimerFlush, WithoutBucket, AggregatorTypeOK, BucketsOK
    <2>2. TimersOK'
      BY <1>2 DEF TimerFlush, AggregatorTypeOK, TimersOK
    <2>3. flushing' \subseteq (SUBSET Event) \ {{}}
      BY <1>2 DEF TimerFlush, AggregatorTypeOK, BucketsOK
    <2> QED
      BY <1>2, <2>1, <2>2, <2>3 DEF TimerFlush, AggregatorTypeOK, RendersOK, sinkVars
  <1>3. ASSUME NEW batch \in flushing, SpawnRender(batch)
        PROVE  AggregatorTypeOK'
    <2>1. batch \in SUBSET Event /\ batch # {}
      BY DEF AggregatorTypeOK
    <2>2. RendersOK'
      BY <1>3, <2>1, RenderTaskOK DEF SpawnRender, AggregatorTypeOK
    <2> QED
      BY <1>3, <2>2 DEF SpawnRender, AggregatorTypeOK, BucketsOK, TimersOK, sinkVars
  <1>4. ASSUME NEW r \in renders, Show(r)
        PROVE  AggregatorTypeOK'
    <2> DEFINE s == [r EXCEPT !.shown = TRUE]
    <2>1. /\ s \in [sources : SUBSET Event, unacked : SUBSET Event, shown : BOOLEAN]
          /\ s.unacked = r.unacked /\ s.sources = r.sources /\ s.shown
      BY DEF AggregatorTypeOK, RendersOK
    <2>2. renders' = (renders \ {r}) \cup {s}
      BY <1>4 DEF Show
    <2> HIDE DEF s
    <2>3. RendersOK'
      BY <2>1, <2>2 DEF AggregatorTypeOK, RendersOK
    <2>4. shown' \in Seq(SUBSET Event)
      BY <1>4 DEF Show, AggregatorTypeOK, RendersOK
    <2> QED
      BY <1>4, <2>3, <2>4 DEF Show, AggregatorTypeOK, BucketsOK, TimersOK
  <1>5. ASSUME NEW r \in renders, ShowFails(r)
        PROVE  AggregatorTypeOK'
    BY <1>5 DEF ShowFails, AggregatorTypeOK, BucketsOK, TimersOK, RendersOK
  <1>6. ASSUME NEW r \in renders, AckSubmitted(r)
        PROVE  AggregatorTypeOK'
    <2> DEFINE n == Oldest(r.unacked)
               s == [r EXCEPT !.unacked = r.unacked \ {n}]
    <2>1. n \in r.unacked /\ n \in Event
      BY OldestInBatch DEF AggregatorTypeOK, RendersOK
    <2>2. submitted' \subseteq Event
      BY <1>6, <2>1 DEF AckSubmitted, AggregatorTypeOK
    <2>3. \/ renders' = renders \ {r}
          \/ r.unacked \ {n} # {} /\ renders' = (renders \ {r}) \cup {s}
      BY <1>6 DEF AckSubmitted
    <2>4. /\ s \in [sources : SUBSET Event, unacked : SUBSET Event, shown : BOOLEAN]
          /\ s.unacked = r.unacked \ {n} /\ s.sources = r.sources /\ s.shown = r.shown
      BY DEF AggregatorTypeOK, RendersOK
    <2>5. r.shown
      BY <1>6 DEF AckSubmitted
    <2> HIDE DEF n, s
    <2>6. RendersOK'
      BY <2>1, <2>3, <2>4, <2>5 DEF AggregatorTypeOK, RendersOK
    <2> QED
      BY <1>6, <2>2, <2>6 DEF AckSubmitted, AggregatorTypeOK, BucketsOK, TimersOK
  <1> QED
    BY <1>1, <1>2, <1>3, <1>4, <1>5, <1>6 DEF TaskStep

(* The steps of shutdown.                                                  *)
LEMMA TypeShutdown ==
    ASSUME AggregatorTypeOK, BeginShutdown \/ ShutdownStep
    PROVE  AggregatorTypeOK'
  <1>1. CASE BeginShutdown
    <2>1. DOMAIN buckets \subseteq BucketKey
      BY DEF AggregatorTypeOK, BucketsOK, BucketKey
    <2> QED
      BY <1>1, <2>1 DEF BeginShutdown, AggregatorTypeOK, BucketsOK, TimersOK, RendersOK,
                        sinkVars
  <1>2. ASSUME NEW k \in to_flush, ShutdownFlush(k)
        PROVE  AggregatorTypeOK'
    <2>1. CASE k \notin DOMAIN buckets
      BY <1>2, <2>1 DEF ShutdownFlush, AggregatorTypeOK, BucketsOK, TimersOK, RendersOK,
                        sinkVars
    <2>2. CASE k \in DOMAIN buckets
      <3>1. BucketsOK'
        BY <1>2, <2>2 DEF ShutdownFlush, WithoutBucket, AggregatorTypeOK, BucketsOK
      <3>2. TimersOK'
        BY <1>2, <2>2 DEF ShutdownFlush, Abort, AggregatorTypeOK, TimersOK
      <3>3. buckets[k].events \in SUBSET Event /\ buckets[k].events # {}
        BY <2>2 DEF AggregatorTypeOK, BucketsOK
      <3>4. RendersOK'
        BY <1>2, <2>2, <3>3, RenderTaskOK DEF ShutdownFlush, AggregatorTypeOK
      <3> QED
        BY <1>2, <3>1, <3>2, <3>4 DEF ShutdownFlush, AggregatorTypeOK, sinkVars
    <2> QED
      BY <2>1, <2>2
  <1>3. CASE CloseRenders \/ Drained \/ DrainTimeout
    BY <1>3 DEF CloseRenders, Drained, DrainTimeout, AggregatorTypeOK, BucketsOK,
                TimersOK, RendersOK, sinkVars
  <1> QED
    BY <1>1, <1>2, <1>3 DEF ShutdownStep

LEMMA TypeNext == AggregatorTypeOK /\ [AggregatorNext]_aggregatorVars => AggregatorTypeOK'
  <1> SUFFICES ASSUME AggregatorTypeOK, [AggregatorNext]_aggregatorVars
               PROVE  AggregatorTypeOK'
    OBVIOUS
  <1>1. CASE UNCHANGED aggregatorVars
    BY <1>1 DEF aggregatorVars, AggregatorTypeOK, BucketsOK, TimersOK, RendersOK
  <1>2. CASE AggregatorNext
    BY <1>2, TypeSubmit, TypeTask, TypeShutdown DEF AggregatorNext
  <1> QED
    BY <1>1, <1>2

(* The types of the aggregator's state; above all, no batch is ever empty, *)
(* which ToastRequest::from_batch relies on, and a bucket holds events of  *)
(* its own key only (aggregator.rs, add and flush).                        *)
THEOREM AggregatorTypeCorrect == AggregatorSpec => []AggregatorTypeOK
  BY TypeInit, TypeNext, PTL DEF AggregatorSpec

-----------------------------------------------------------------------------
(* Conservation *)

(* Conservation in the form the steps preserve.  Different holders of a    *)
(* kind hold different events, ...                                         *)
HoldersApart ==
    /\ \A k, l \in DOMAIN buckets : k # l => buckets[k].events \cap buckets[l].events = {}
    /\ \A b, c \in flushing : b # c => b \cap c = {}
    /\ \A r, s \in renders : r # s => r.sources \cap s.sources = {}

Gone == finished \cup superseded \cup dropped_bucket_overflow

(* ... an event is in one place only, ...                                  *)
PlacesApart ==
    /\ InBuckets \cap (InFlushing \cup InRenders \cup Gone) = {}
    /\ InFlushing \cap (InRenders \cup Gone) = {}
    /\ InRenders \cap Gone = {}
    /\ finished \cap superseded = {}
    /\ (finished \cup superseded) \cap dropped_bucket_overflow = {}

(* ... and every event that was handed over is in one of them.             *)
Cover == added = InBuckets \cup InFlushing \cup InRenders \cup Gone

Accounted == HoldersApart /\ PlacesApart /\ Cover

LEMMA AccountedConserves == Accounted => Conservation
  <1> SUFFICES ASSUME Accounted PROVE Conservation
    OBVIOUS
  <1>1. /\ Places[1] = InBuckets /\ Places[2] = InFlushing /\ Places[3] = InRenders
        /\ Places[4] = finished /\ Places[5] = superseded
        /\ Places[6] = dropped_bucket_overflow
    BY DEF Places
  <1>2. \A i \in 1..6 : i = 1 \/ i = 2 \/ i = 3 \/ i = 4 \/ i = 5 \/ i = 6
    OBVIOUS
  <1>3. added = UNION {Places[i] : i \in 1..6}
    <2>1. UNION {Places[i] : i \in 1..6} \subseteq added
      BY <1>1, <1>2 DEF Accounted, Cover, Gone
    <2>2. added \subseteq UNION {Places[i] : i \in 1..6}
      BY <1>1 DEF Accounted, Cover, Gone
    <2> QED
      BY <2>1, <2>2
  <1>4. ASSUME NEW i \in 1..6, NEW j \in 1..6, i # j
        PROVE  Places[i] \cap Places[j] = {}
    BY <1>1, <1>2, <1>4 DEF Accounted, PlacesApart, Gone
  <1> QED
    BY <1>3, <1>4 DEF Conservation, Accounted, HoldersApart

LEMMA AccountedInit == AggregatorInit => Accounted
  BY DEF AggregatorInit, Accounted, HoldersApart, PlacesApart, Cover, Gone, InBuckets,
         InFlushing, InRenders

(* What a step does to the places, in terms of the holders.                *)
LEMMA BucketTaken ==
    ASSUME HoldersApart, NEW k \in DOMAIN buckets, buckets' = WithoutBucket(k)
    PROVE  /\ InBuckets' = InBuckets \ buckets[k].events
           /\ buckets[k].events \subseteq InBuckets
           /\ \A l, m \in DOMAIN buckets' :
                 l # m => buckets'[l].events \cap buckets'[m].events = {}
  BY DEF HoldersApart, WithoutBucket, InBuckets

LEMMA RenderSpawned ==
    ASSUME HoldersApart, NEW batch, renders' = renders \cup {RenderTask(batch)},
           batch \cap InRenders = {}
    PROVE  /\ InRenders' = InRenders \cup batch
           /\ \A r, s \in renders' : r # s => r.sources \cap s.sources = {}
  <1> DEFINE t == RenderTask(batch)
  <1>1. t.sources = batch /\ renders' = renders \cup {t}
    BY DEF RenderTask
  <1> HIDE DEF t
  <1> QED
    BY <1>1 DEF HoldersApart, InRenders

LEMMA RenderEnded ==
    ASSUME HoldersApart, NEW r \in renders, renders' = renders \ {r}
    PROVE  /\ InRenders' = InRenders \ r.sources
           /\ r.sources \subseteq InRenders
           /\ \A q, s \in renders' : q # s => q.sources \cap s.sources = {}
  BY DEF HoldersApart, InRenders

LEMMA RenderGoesOn ==
    ASSUME HoldersApart, NEW r \in renders, NEW t, t.sources = r.sources,
           renders' = (renders \ {r}) \cup {t}
    PROVE  /\ InRenders' = InRenders
           /\ \A q, s \in renders' : q # s => q.sources \cap s.sources = {}
  BY DEF HoldersApart, InRenders

LEMMA AccountedSubmit ==
    ASSUME AggregatorTypeOK, Accounted, NEW n \in Event, Submit(n)
    PROVE  Accounted'
  <1>1. n \notin added /\ added' = added \cup {n}
    BY DEF Submit, Add
  <1>2. /\ n \notin InBuckets /\ n \notin InFlushing /\ n \notin InRenders
        /\ n \notin finished /\ n \notin superseded /\ n \notin dropped_bucket_overflow
    BY <1>1 DEF Accounted, Cover, Gone
  <1>3. finished' = finished /\ flushing' = flushing /\ InFlushing' = InFlushing
    BY DEF Submit, Add, sinkVars, InFlushing
  <1>4. CASE AddCritical(n)
    <2>1. UNCHANGED <<buckets, superseded, dropped_bucket_overflow, InBuckets>>
      BY <1>4 DEF AddCritical, InBuckets
    <2>2. /\ InRenders' = InRenders \cup {n}
          /\ \A r, s \in renders' : r # s => r.sources \cap s.sources = {}
      <3> DEFINE batch == {n}
      <3>1. batch \cap InRenders = {} /\ renders' = renders \cup {RenderTask(batch)}
        BY <1>2, <1>4 DEF AddCritical
      <3> HIDE DEF batch
      <3>2. /\ InRenders' = InRenders \cup batch
            /\ \A r, s \in renders' : r # s => r.sources \cap s.sources = {}
        BY <3>1, RenderSpawned DEF Accounted
      <3> QED
        BY <3>2 DEF batch
    <2>3. HoldersApart'
      BY <1>3, <2>1, <2>2 DEF Accounted, HoldersApart
    <2> QED
      BY <1>1, <1>2, <1>3, <2>1, <2>2, <2>3 DEF Accounted, PlacesApart, Cover, Gone
  <1>5. CASE AddToBucket(n)
    <2> DEFINE k == Key(n)
               before == buckets[k].events
               after == apply_to_bucket(before, n)
    <2>1. k \in DOMAIN buckets /\ before # {} /\ before \subseteq InBuckets
      BY <1>5 DEF AddToBucket, AggregatorTypeOK, BucketsOK, InBuckets
    <2>2. after \subseteq before \cup {n}
      BY <2>1, ApplyOK
    <2>3. buckets' = [buckets EXCEPT ![k].events = after]
      BY <1>5 DEF AddToBucket
    <2>4. superseded' = superseded \cup ((before \cup {n}) \ after)
      BY <1>5 DEF AddToBucket
    <2>5. UNCHANGED <<renders, dropped_bucket_overflow, InRenders>>
      BY <1>5 DEF AddToBucket, InRenders
    <2>6. before = buckets[k].events
      OBVIOUS
    <2> HIDE DEF k, before, after
    <2>7. /\ DOMAIN buckets' = DOMAIN buckets
          /\ buckets'[k].events = after
          /\ \A l \in DOMAIN buckets \ {k} : buckets'[l] = buckets[l]
      BY <2>1, <2>3 DEF AggregatorTypeOK, BucketsOK
    <2>8. InBuckets' = (InBuckets \ before) \cup after
      BY <2>1, <2>6, <2>7 DEF InBuckets, Accounted, HoldersApart
    <2>9. \A l \in DOMAIN buckets : n \notin buckets[l].events
      BY <1>2 DEF InBuckets
    <2>10. \A l, m \in DOMAIN buckets' :
              l # m => buckets'[l].events \cap buckets'[m].events = {}
      BY <2>1, <2>2, <2>6, <2>7, <2>9 DEF Accounted, HoldersApart
    <2>11. HoldersApart'
      BY <1>3, <2>5, <2>10 DEF Accounted, HoldersApart
    <2> QED
      BY <1>1, <1>2, <1>3, <2>1, <2>2, <2>4, <2>5, <2>8, <2>11
         DEF Accounted, PlacesApart, Cover, Gone
  <1>6. CASE AddOverflow(n)
    <2>1. UNCHANGED <<buckets, renders, superseded, InBuckets, InRenders>>
      BY <1>6 DEF AddOverflow, InBuckets, InRenders
    <2>2. dropped_bucket_overflow' = dropped_bucket_overflow \cup {n}
      BY <1>6 DEF AddOverflow
    <2>3. HoldersApart'
      BY <1>3, <2>1 DEF Accounted, HoldersApart
    <2> QED
      BY <1>1, <1>2, <1>3, <2>1, <2>2, <2>3 DEF Accounted, PlacesApart, Cover, Gone
  <1>7. CASE AddNewBucket(n)
    <2>1. UNCHANGED <<renders, superseded, dropped_bucket_overflow, InRenders>>
      BY <1>7 DEF AddNewBucket, InRenders
    <2> DEFINE k == Key(n)
    <2>2. /\ k \notin DOMAIN buckets
          /\ DOMAIN buckets' = DOMAIN buckets \cup {k}
          /\ buckets'[k].events = {n}
          /\ \A l \in DOMAIN buckets : buckets'[l] = buckets[l]
      BY <1>7 DEF AddNewBucket
    <2> HIDE DEF k
    <2>3. InBuckets' = InBuckets \cup {n}
      BY <2>2 DEF InBuckets
    <2>4. \A l \in DOMAIN buckets : n \notin buckets[l].events
      BY <1>2 DEF InBuckets
    <2>5. HoldersApart'
      BY <1>3, <2>1, <2>2, <2>4 DEF Accounted, HoldersApart
    <2> QED
      BY <1>1, <1>2, <1>3, <2>1, <2>3, <2>5 DEF Accounted, PlacesApart, Cover, Gone
  <1> QED
    BY <1>4, <1>5, <1>6, <1>7 DEF Submit, Add

LEMMA AccountedTask ==
    ASSUME AggregatorTypeOK, Accounted, TaskStep
    PROVE  Accounted'
  <1>1. ASSUME NEW t \in timers, WakeTimer(t)
        PROVE  Accounted'
    BY <1>1 DEF WakeTimer, sinkVars, Accounted, HoldersApart, PlacesApart, Cover, Gone,
                InBuckets, InFlushing, InRenders
  <1>2. ASSUME NEW t \in timers, TimerFlush(t)
        PROVE  Accounted'
    <2>1. UNCHANGED <<added, renders, finished, superseded, dropped_bucket_overflow,
                      InRenders>>
      BY <1>2 DEF TimerFlush, sinkVars, InRenders
    <2>2. CASE t.key \notin DOMAIN buckets
      <3>1. UNCHANGED <<buckets, flushing, InBuckets, InFlushing>>
        BY <1>2, <2>2 DEF TimerFlush, InBuckets, InFlushing
      <3> QED
        BY <2>1, <3>1 DEF Accounted, HoldersApart, PlacesApart, Cover, Gone
    <2>3. CASE t.key \in DOMAIN buckets
      <3> DEFINE batch == buckets[t.key].events
      <3>1. buckets' = WithoutBucket(t.key) /\ flushing' = flushing \cup {batch}
        BY <1>2, <2>3 DEF TimerFlush
      <3>2. /\ InBuckets' = InBuckets \ batch
            /\ batch \subseteq InBuckets
            /\ \A l, m \in DOMAIN buckets' :
                  l # m => buckets'[l].events \cap buckets'[m].events = {}
        BY <2>3, <3>1, BucketTaken DEF Accounted
      <3> HIDE DEF batch
      <3>3. InFlushing' = InFlushing \cup batch
        BY <3>1 DEF InFlushing
      <3>4. \A c \in flushing : batch \cap c = {}
        BY <3>2 DEF Accounted, PlacesApart, InFlushing
      <3>5. HoldersApart'
        BY <2>1, <3>1, <3>2, <3>4 DEF Accounted, HoldersApart
      <3> QED
        BY <2>1, <3>2, <3>3, <3>5 DEF Accounted, PlacesApart, Cover, Gone
    <2> QED
      BY <2>2, <2>3
  <1>3. ASSUME NEW batch \in flushing, SpawnRender(batch)
        PROVE  Accounted'
    <2>1. UNCHANGED <<added, buckets, finished, superseded, dropped_bucket_overflow,
                      InBuckets>>
      BY <1>3 DEF SpawnRender, sinkVars, InBuckets
    <2>2. InFlushing' = InFlushing \ batch /\ batch \subseteq InFlushing
      BY <1>3 DEF SpawnRender, InFlushing, Accounted, HoldersApart
    <2>3. batch \cap InRenders = {}
      BY <2>2 DEF Accounted, PlacesApart
    <2>4. /\ InRenders' = InRenders \cup batch
          /\ \A r, s \in renders' : r # s => r.sources \cap s.sources = {}
      BY <1>3, <2>3, RenderSpawned DEF SpawnRender, Accounted
    <2>5. HoldersApart'
      BY <1>3, <2>1, <2>4 DEF SpawnRender, Accounted, HoldersApart
    <2> QED
      BY <2>1, <2>2, <2>4, <2>5 DEF Accounted, PlacesApart, Cover, Gone
  <1>4. ASSUME NEW r \in renders, Show(r)
        PROVE  Accounted'
    <2>1. [r EXCEPT !.shown = TRUE].sources = r.sources
      BY DEF AggregatorTypeOK, RendersOK
    <2>2. /\ InRenders' = InRenders
          /\ \A q, s \in renders' : q # s => q.sources \cap s.sources = {}
      BY <1>4, <2>1, RenderGoesOn DEF Show, Accounted
    <2> QED
      BY <1>4, <2>2 DEF Show, Accounted, HoldersApart, PlacesApart, Cover, Gone,
                        InBuckets, InFlushing
  <1>5. ASSUME NEW r \in renders, renders' = renders \ {r},
               finished' = finished \cup r.sources,
               UNCHANGED <<added, buckets, flushing, superseded, dropped_bucket_overflow>>
        PROVE  Accounted'
    <2>1. UNCHANGED <<InBuckets, InFlushing>>
      BY <1>5 DEF InBuckets, InFlushing
    <2>2. /\ InRenders' = InRenders \ r.sources
          /\ r.sources \subseteq InRenders
          /\ \A q, s \in renders' : q # s => q.sources \cap s.sources = {}
      BY <1>5, RenderEnded DEF Accounted
    <2>3. HoldersApart'
      BY <1>5, <2>2 DEF Accounted, HoldersApart
    <2> QED
      BY <1>5, <2>1, <2>2, <2>3 DEF Accounted, PlacesApart, Cover, Gone
  <1>6. ASSUME NEW r \in renders, ShowFails(r)
        PROVE  Accounted'
    BY <1>5, <1>6 DEF ShowFails
  <1>7. ASSUME NEW r \in renders, AckSubmitted(r)
        PROVE  Accounted'
    <2> DEFINE t == [r EXCEPT !.unacked = r.unacked \ {Oldest(r.unacked)}]
    <2>1. CASE renders' = renders \ {r} /\ finished' = finished \cup r.sources
      BY <1>5, <1>7, <2>1 DEF AckSubmitted
    <2>2. CASE renders' = (renders \ {r}) \cup {t} /\ UNCHANGED finished
      <3>1. t.sources = r.sources
        BY DEF AggregatorTypeOK, RendersOK
      <3> HIDE DEF t
      <3>2. /\ InRenders' = InRenders
            /\ \A q, s \in renders' : q # s => q.sources \cap s.sources = {}
        BY <2>2, <3>1, RenderGoesOn DEF Accounted
      <3> QED
        BY <1>7, <2>2, <3>2 DEF AckSubmitted, Accounted, HoldersApart, PlacesApart,
                                Cover, Gone, InBuckets, InFlushing
    <2> QED
      BY <1>7, <2>1, <2>2 DEF AckSubmitted
  <1> QED
    BY <1>1, <1>2, <1>3, <1>4, <1>6, <1>7 DEF TaskStep

LEMMA AccountedShutdown ==
    ASSUME Accounted, BeginShutdown \/ ShutdownStep
    PROVE  Accounted'
  <1>1. CASE BeginShutdown \/ CloseRenders \/ Drained \/ DrainTimeout
    BY <1>1 DEF BeginShutdown, CloseRenders, Drained, DrainTimeout, sinkVars, Accounted,
                HoldersApart, PlacesApart, Cover, Gone, InBuckets, InFlushing, InRenders
  <1>2. ASSUME NEW k \in to_flush, ShutdownFlush(k)
        PROVE  Accounted'
    <2>1. UNCHANGED <<added, flushing, finished, superseded, dropped_bucket_overflow,
                      InFlushing>>
      BY <1>2 DEF ShutdownFlush, sinkVars, InFlushing
    <2>2. CASE k \notin DOMAIN buckets
      <3>1. UNCHANGED <<buckets, renders, InBuckets, InRenders>>
        BY <1>2, <2>2 DEF ShutdownFlush, InBuckets, InRenders
      <3> QED
        BY <2>1, <3>1 DEF Accounted, HoldersApart, PlacesApart, Cover, Gone
    <2>3. CASE k \in DOMAIN buckets
      <3> DEFINE batch == buckets[k].events
      <3>1. buckets' = WithoutBucket(k) /\ renders' = renders \cup {RenderTask(batch)}
        BY <1>2, <2>3 DEF ShutdownFlush
      <3>2. /\ InBuckets' = InBuckets \ batch
            /\ batch \subseteq InBuckets
            /\ \A l, m \in DOMAIN buckets' :
                  l # m => buckets'[l].events \cap buckets'[m].events = {}
        BY <2>3, <3>1, BucketTaken DEF Accounted
      <3> HIDE DEF batch
      <3>3. batch \cap InRenders = {}
        BY <3>2 DEF Accounted, PlacesApart
      <3>4. /\ InRenders' = InRenders \cup batch
            /\ \A r, s \in renders' : r # s => r.sources \cap s.sources = {}
        BY <3>1, <3>3, RenderSpawned DEF Accounted
      <3>5. HoldersApart'
        BY <2>1, <3>2, <3>4 DEF Accounted, HoldersApart
      <3> QED
        BY <2>1, <3>2, <3>4, <3>5 DEF Accounted, PlacesApart, Cover, Gone
    <2> QED
      BY <2>2, <2>3
  <1> QED
    BY <1>1, <1>2 DEF ShutdownStep

LEMMA AccountedNext ==
    AggregatorTypeOK /\ Accounted /\ [AggregatorNext]_aggregatorVars => Accounted'
  <1> SUFFICES ASSUME AggregatorTypeOK, Accounted, [AggregatorNext]_aggregatorVars
               PROVE  Accounted'
    OBVIOUS
  <1>1. CASE UNCHANGED aggregatorVars
    BY <1>1 DEF aggregatorVars, Accounted, HoldersApart, PlacesApart, Cover, Gone,
                InBuckets, InFlushing, InRenders
  <1>2. CASE AggregatorNext
    BY <1>2, AccountedSubmit, AccountedTask, AccountedShutdown DEF AggregatorNext
  <1> QED
    BY <1>1, <1>2

LEMMA AlwaysAccounted == AggregatorSpec => []Accounted
  BY AggregatorTypeCorrect, AccountedInit, AccountedNext, PTL DEF AggregatorSpec

(* Conservation: whatever the order in which adds, timers, render tasks    *)
(* and shutdown run, each event that was handed to Aggregator::add is in   *)
(* exactly one place (aggregator.rs, add and flush).                       *)
THEOREM EventsConserved == AggregatorSpec => []Conservation
  BY AlwaysAccounted, AccountedConserves, PTL

-----------------------------------------------------------------------------
(* At most one toast *)

IsShown(n) == \E i \in 1..Len(shown) : n \in shown[i]

(* AtMostOneToast is not inductive: it needs to know where the events of a *)
(* toast are.  A shown event belongs to a render task that has shown it or *)
(* has ended, and so, by Accounted, to no batch that is still to be shown. *)
ShownElsewhere ==
    \A i \in 1..Len(shown) : \A n \in shown[i] :
        n \in finished \/ \E r \in renders : r.shown /\ n \in r.sources

TaskShown ==
    \A r \in renders : r.shown => \A n \in r.sources : IsShown(n)

ToastsApart ==
    \A i, j \in 1..Len(shown) : i # j => shown[i] \cap shown[j] = {}

AckedShown == \A n \in submitted : IsShown(n)

Toasts == ShownElsewhere /\ TaskShown /\ ToastsApart /\ AckedShown

LEMMA ToastsInit == AggregatorInit => Toasts
  BY DEF AggregatorInit, Toasts, ShownElsewhere, TaskShown, ToastsApart, AckedShown, IsShown

(* Steps that show nothing and acknowledge nothing: render tasks may be    *)
(* spawned.                                                                *)
LEMMA ToastsSpawn ==
    ASSUME Toasts, UNCHANGED <<shown, submitted, finished>>,
           renders \subseteq renders', \A r \in renders' \ renders : ~r.shown
    PROVE  Toasts'
  BY DEF Toasts, ShownElsewhere, TaskShown, ToastsApart, AckedShown, IsShown

LEMMA ToastsQuiet ==
    ASSUME Toasts,
           \/ \E n \in Event : Submit(n)
           \/ \E t \in timers : WakeTimer(t) \/ TimerFlush(t)
           \/ \E batch \in flushing : SpawnRender(batch)
           \/ BeginShutdown
           \/ ShutdownStep
    PROVE  Toasts'
  <1>1. UNCHANGED <<shown, submitted, finished>>
    BY DEF Submit, Add, BeginShutdown, ShutdownStep, ShutdownFlush, CloseRenders,
           Drained, DrainTimeout, WakeTimer, TimerFlush, SpawnRender, sinkVars
  <1>2. renders' = renders \/ \E batch : renders' = renders \cup {RenderTask(batch)}
    BY DEF Submit, Add, AddCritical, AddToBucket, AddOverflow, AddNewBucket,
           BeginShutdown, ShutdownStep, ShutdownFlush, CloseRenders, Drained,
           DrainTimeout, WakeTimer, TimerFlush, SpawnRender
  <1>3. renders \subseteq renders' /\ \A r \in renders' \ renders : ~r.shown
    BY <1>2 DEF RenderTask
  <1> QED
    BY <1>1, <1>3, ToastsSpawn

LEMMA ToastsShow ==
    ASSUME AggregatorTypeOK, Accounted, Toasts, NEW r \in renders, Show(r)
    PROVE  Toasts'
  <1> DEFINE t == [r EXCEPT !.shown = TRUE]
  <1>1. t.sources = r.sources /\ t.shown
    BY DEF AggregatorTypeOK, RendersOK
  <1>2. renders' = (renders \ {r}) \cup {t} /\ ~r.shown
    BY <1>1 DEF Show
  <1> HIDE DEF t
  <1>3. UNCHANGED <<submitted, finished>>
    BY DEF Show
  <1>4. /\ Len(shown') = Len(shown) + 1 /\ Len(shown) \in Nat
        /\ \A i \in 1..Len(shown) : shown'[i] = shown[i]
        /\ shown'[Len(shown) + 1] = r.sources
    BY DEF Show, AggregatorTypeOK, RendersOK
  \* No event of this toast was shown before.
  <1>5. ASSUME NEW i \in 1..Len(shown), NEW n \in shown[i]
        PROVE  n \notin r.sources
    <2>1. CASE n \in finished
      BY <2>1 DEF Accounted, PlacesApart, Gone, InRenders
    <2>2. CASE \E s \in renders : s.shown /\ n \in s.sources
      BY <1>2, <2>2 DEF Accounted, HoldersApart
    <2> QED
      BY <1>5, <2>1, <2>2 DEF Toasts, ShownElsewhere
  <1>6. \A i \in 1..Len(shown') : i \in 1..Len(shown) \/ i = Len(shown) + 1
    BY <1>4
  <1>7. ToastsApart'
    BY <1>4, <1>5, <1>6 DEF Toasts, ToastsApart
  <1>8. ShownElsewhere'
    <2> SUFFICES ASSUME NEW i \in 1..Len(shown'), NEW n \in shown'[i]
                 PROVE  n \in finished \/ \E s \in renders' : s.shown /\ n \in s.sources
      BY <1>3 DEF ShownElsewhere
    <2>1. CASE i = Len(shown) + 1
      BY <1>1, <1>2, <1>4, <2>1
    <2>2. CASE i \in 1..Len(shown)
      BY <1>2, <1>4, <2>2 DEF Toasts, ShownElsewhere
    <2> QED
      BY <1>6, <2>1, <2>2
  <1>9. ASSUME NEW n, IsShown(n)
        PROVE  IsShown(n)'
    BY <1>4, <1>9 DEF IsShown
  <1>10. TaskShown'
    <2> SUFFICES ASSUME NEW s \in renders', s.shown, NEW n \in s.sources
                 PROVE  IsShown(n)'
      BY DEF TaskShown
    <2>1. CASE s = t
      BY <1>1, <1>4, <2>1 DEF IsShown
    <2>2. CASE s \in renders
      BY <1>9, <2>2 DEF Toasts, TaskShown
    <2> QED
      BY <1>2, <2>1, <2>2
  <1>11. AckedShown'
    BY <1>3, <1>9 DEF Toasts, AckedShown
  <1> QED
    BY <1>7, <1>8, <1>10, <1>11 DEF Toasts

(* A render task ends, shown or failed.                                    *)
LEMMA ToastsEnd ==
    ASSUME Toasts, NEW r \in renders, renders' = renders \ {r},
           finished' = finished \cup r.sources, UNCHANGED shown,
           \A n \in submitted' : IsShown(n)
    PROVE  Toasts'
  BY DEF Toasts, ShownElsewhere, TaskShown, ToastsApart, AckedShown, IsShown

LEMMA ToastsAck ==
    ASSUME AggregatorTypeOK, Toasts, NEW r \in renders, AckSubmitted(r)
    PROVE  Toasts'
  <1> DEFINE n == Oldest(r.unacked)
             t == [r EXCEPT !.unacked = r.unacked \ {n}]
  <1>1. r.shown /\ submitted' = submitted \cup {n} /\ UNCHANGED shown
    BY DEF AckSubmitted
  <1>2. n \in r.sources
    BY OldestInBatch DEF AggregatorTypeOK, RendersOK
  <1>3. t.sources = r.sources /\ t.shown = r.shown
    BY DEF AggregatorTypeOK, RendersOK
  <1>4. \/ renders' = renders \ {r} /\ finished' = finished \cup r.sources
        \/ renders' = (renders \ {r}) \cup {t} /\ UNCHANGED finished
    BY DEF AckSubmitted
  <1> HIDE DEF n, t
  <1>5. \A m \in submitted' : IsShown(m)
    BY <1>1, <1>2 DEF Toasts, TaskShown, AckedShown
  <1>6. CASE renders' = renders \ {r} /\ finished' = finished \cup r.sources
    BY <1>1, <1>5, <1>6, ToastsEnd
  <1>7. CASE renders' = (renders \ {r}) \cup {t} /\ UNCHANGED finished
    <2>1. ShownElsewhere'
      BY <1>1, <1>3, <1>7 DEF Toasts, ShownElsewhere
    <2> QED
      BY <1>1, <1>3, <1>5, <1>7, <2>1 DEF Toasts, TaskShown, ToastsApart, AckedShown, IsShown
  <1> QED
    BY <1>4, <1>6, <1>7

LEMMA ToastsNext ==
    AggregatorTypeOK /\ Accounted /\ Toasts /\ [AggregatorNext]_aggregatorVars => Toasts'
  <1> SUFFICES ASSUME AggregatorTypeOK, Accounted, Toasts, [AggregatorNext]_aggregatorVars
               PROVE  Toasts'
    OBVIOUS
  <1>1. CASE UNCHANGED aggregatorVars
    BY <1>1 DEF aggregatorVars, Toasts, ShownElsewhere, TaskShown, ToastsApart, AckedShown,
                IsShown
  <1>2. ASSUME NEW r \in renders, ShowFails(r)
        PROVE  Toasts'
    BY <1>2, ToastsEnd DEF ShowFails, Toasts, AckedShown
  <1>3. CASE \/ \E n \in Event : Submit(n)
             \/ \E t \in timers : WakeTimer(t) \/ TimerFlush(t)
             \/ \E batch \in flushing : SpawnRender(batch)
             \/ BeginShutdown
             \/ ShutdownStep
    BY <1>3, ToastsQuiet
  <1>4. ASSUME NEW r \in renders, Show(r) \/ AckSubmitted(r)
        PROVE  Toasts'
    BY <1>4, ToastsShow, ToastsAck
  <1> QED
    BY <1>1, <1>2, <1>3, <1>4 DEF AggregatorNext, TaskStep

(* At most one toast: no event is part of two toasts, and none is          *)
(* acknowledged as submitted before a toast with it was accepted, for any  *)
(* number of events, buckets and render tasks (aggregator.rs, flush;       *)
(* pipeline.rs, AckingRenderSink::render).                                 *)
THEOREM DeliveredAtMostOnce == AggregatorSpec => []AtMostOneToast
  <1>1. Toasts => AtMostOneToast
    BY DEF Toasts, ToastsApart, AckedShown, IsShown, AtMostOneToast
  <1> QED
    BY <1>1, AlwaysAccounted, AggregatorTypeCorrect, ToastsInit, ToastsNext, PTL
       DEF AggregatorSpec

-----------------------------------------------------------------------------
(* Shutdown leaves no bucket behind *)

(* ShutdownEmptiesBuckets needs to know what the loop over the copied keys *)
(* has still to do: nothing is added once shutdown has begun, so a bucket  *)
(* that is open is one of the copied keys that are left.                   *)
BucketsToFlush == stage = "flushing" => DOMAIN buckets \subseteq to_flush

LEMMA ShutdownBucketsNext ==
    /\ AggregatorTypeOK /\ BucketsToFlush /\ ShutdownEmptiesBuckets
    /\ [AggregatorNext]_aggregatorVars
    => BucketsToFlush' /\ ShutdownEmptiesBuckets'
  <1> SUFFICES ASSUME AggregatorTypeOK, BucketsToFlush, ShutdownEmptiesBuckets,
                      [AggregatorNext]_aggregatorVars
               PROVE  BucketsToFlush' /\ ShutdownEmptiesBuckets'
    OBVIOUS
  <1> USE DEF BucketsToFlush, ShutdownEmptiesBuckets
  <1>1. CASE UNCHANGED aggregatorVars
    BY <1>1 DEF aggregatorVars
  <1>2. ASSUME NEW n \in Event, Submit(n)
        PROVE  BucketsToFlush' /\ ShutdownEmptiesBuckets'
    BY <1>2 DEF Submit, Add
  <1>3. CASE BeginShutdown
    BY <1>3 DEF BeginShutdown
  <1>4. CASE TaskStep
    <2>1. DOMAIN buckets' \subseteq DOMAIN buckets /\ UNCHANGED <<stage, to_flush>>
      BY <1>4 DEF TaskStep, WakeTimer, TimerFlush, SpawnRender, Show, ShowFails,
                  AckSubmitted, WithoutBucket
    <2> QED
      BY <2>1
  <1>5. ASSUME NEW k \in to_flush, ShutdownFlush(k)
        PROVE  BucketsToFlush' /\ ShutdownEmptiesBuckets'
    <2>1. /\ stage = "flushing" /\ stage' = stage
          /\ to_flush' = to_flush \ {k}
          /\ DOMAIN buckets' = DOMAIN buckets \ {k}
      BY <1>5 DEF ShutdownFlush, WithoutBucket
    <2> QED
      BY <2>1
  <1>6. CASE CloseRenders \/ Drained \/ DrainTimeout
    BY <1>6 DEF CloseRenders, Drained, DrainTimeout
  <1> QED
    BY <1>1, <1>2, <1>3, <1>4, <1>5, <1>6 DEF AggregatorNext, ShutdownStep

(* Shutdown flushes every bucket: the keys are copied under the lock and   *)
(* flushed one by one while timers still run, and when the loop is over    *)
(* none is left (aggregator.rs, shutdown).                                 *)
THEOREM ShutdownLeavesNoBucket == AggregatorSpec => []ShutdownEmptiesBuckets
  <1>1. AggregatorInit => BucketsToFlush /\ ShutdownEmptiesBuckets
    BY DEF AggregatorInit, BucketsToFlush, ShutdownEmptiesBuckets
  <1> QED
    BY <1>1, AggregatorTypeCorrect, ShutdownBucketsNext, PTL DEF AggregatorSpec

-----------------------------------------------------------------------------
(* Timers *)

(* TimerOwnsBucket in the form the steps preserve: a bucket's handle names *)
(* one timer task, since ids are the stamps of events handed over before,  *)
(* and a timer whose bucket is gone belongs to a key that has none.        *)
BucketHasTimer ==
    \A k \in DOMAIN buckets : \E t \in timers : t.id = buckets[k].timer /\ t.key = k

TimerHasBucket ==
    \A t \in timers :
        \/ t.key \in DOMAIN buckets /\ buckets[t.key].timer = t.id
        \/ t.key \notin DOMAIN buckets /\ t.woken /\ stage # "open"

TimerIdsUnique ==
    /\ \A t, u \in timers : t.id = u.id => t = u
    /\ \A t \in timers : \E n \in added : n.seq = t.id

TimersMatch == BucketHasTimer /\ TimerHasBucket /\ TimerIdsUnique

LEMMA TimersMatchInit == AggregatorInit => TimersMatch
  BY DEF AggregatorInit, TimersMatch, BucketHasTimer, TimerHasBucket, TimerIdsUnique

LEMMA TimersMatchSubmit ==
    ASSUME AggregatorTypeOK, TimersMatch, NEW n \in Event, Submit(n)
    PROVE  TimersMatch'
  <1>1. added' = added \cup {n} /\ stage = "open" /\ stage' = stage
    BY DEF Submit, Add
  <1>2. CASE AddCritical(n) \/ AddOverflow(n)
    BY <1>1, <1>2 DEF AddCritical, AddOverflow, TimersMatch, BucketHasTimer,
                      TimerHasBucket, TimerIdsUnique
  <1>3. CASE AddToBucket(n)
    <2>1. /\ timers' = timers /\ DOMAIN buckets' = DOMAIN buckets
          /\ \A k \in DOMAIN buckets : buckets'[k].timer = buckets[k].timer
      BY <1>3 DEF AddToBucket, AggregatorTypeOK, BucketsOK
    <2> QED
      BY <1>1, <2>1 DEF TimersMatch, BucketHasTimer, TimerHasBucket, TimerIdsUnique
  <1>4. CASE AddNewBucket(n)
    <2> DEFINE k == Key(n)
               u == [id |-> n.seq, key |-> k, woken |-> FALSE]
    <2>1. /\ timers' = timers \cup {u} /\ u.id = n.seq /\ u.key = k
          /\ k \notin DOMAIN buckets /\ DOMAIN buckets' = DOMAIN buckets \cup {k}
          /\ buckets'[k].timer = n.seq
          /\ \A l \in DOMAIN buckets : buckets'[l] = buckets[l]
      BY <1>4 DEF AddNewBucket
    <2> HIDE DEF k, u
    <2>2. \A t \in timers : t.id # n.seq
      BY DEF Submit, TimersMatch, TimerIdsUnique
    <2>3. TimerIdsUnique'
      BY <1>1, <2>1, <2>2 DEF TimersMatch, TimerIdsUnique
    \* A timer left over from an earlier bucket of this key could only be
    \* there after shutdown has begun.
    <2>4. \A t \in timers : t.key \in DOMAIN buckets /\ buckets[t.key].timer = t.id
      BY <1>1 DEF TimersMatch, TimerHasBucket
    <2>5. TimerHasBucket'
      BY <2>1, <2>4 DEF TimerHasBucket
    <2>6. BucketHasTimer'
      BY <2>1 DEF TimersMatch, BucketHasTimer
    <2> QED
      BY <2>3, <2>5, <2>6 DEF TimersMatch
  <1> QED
    BY <1>2, <1>3, <1>4 DEF Submit, Add

LEMMA TimersMatchTask ==
    ASSUME AggregatorTypeOK, TimersMatch, TaskStep
    PROVE  TimersMatch'
  <1> USE DEF TimersMatch, BucketHasTimer, TimerHasBucket, TimerIdsUnique
  <1>1. ASSUME NEW t \in timers, WakeTimer(t)
        PROVE  TimersMatch'
    <2> DEFINE u == [t EXCEPT !.woken = TRUE]
    <2>1. u.id = t.id /\ u.key = t.key /\ u.woken
      BY DEF AggregatorTypeOK, TimersOK
    <2>2. timers' = (timers \ {t}) \cup {u} /\ UNCHANGED <<added, buckets, stage>>
      BY <1>1 DEF WakeTimer
    <2> HIDE DEF u
    <2>3. BucketHasTimer'
      BY <2>1, <2>2
    <2>4. TimerHasBucket'
      BY <2>1, <2>2
    <2>5. TimerIdsUnique'
      BY <2>1, <2>2
    <2> QED
      BY <2>3, <2>4, <2>5
  <1>2. ASSUME NEW t \in timers, TimerFlush(t)
        PROVE  TimersMatch'
    <2>1. /\ timers' = timers \ {t} /\ UNCHANGED <<added, stage>>
          /\ DOMAIN buckets' = DOMAIN buckets \ {t.key}
          /\ \A k \in DOMAIN buckets' : buckets'[k] = buckets[k]
      <3>1. CASE t.key \in DOMAIN buckets
        BY <1>2, <3>1 DEF TimerFlush, WithoutBucket
      <3>2. CASE t.key \notin DOMAIN buckets
        BY <1>2, <3>2 DEF TimerFlush
      <3> QED
        BY <3>1, <3>2
    \* No other timer has this key, so none loses its bucket.
    <2>2. \A u \in timers' : u.key = t.key => u.key \notin DOMAIN buckets
      BY <2>1
    <2>3. TimerHasBucket'
      BY <2>1, <2>2
    <2>4. BucketHasTimer'
      BY <2>1
    <2>5. TimerIdsUnique'
      BY <2>1
    <2> QED
      BY <2>3, <2>4, <2>5
  <1>3. CASE UNCHANGED <<added, buckets, timers, stage>>
    BY <1>3
  <1> QED
    BY <1>1, <1>2, <1>3 DEF TaskStep, SpawnRender, Show, ShowFails, AckSubmitted

LEMMA TimersMatchShutdown ==
    ASSUME AggregatorTypeOK, TimersMatch, BeginShutdown \/ ShutdownStep
    PROVE  TimersMatch'
  <1> USE DEF TimersMatch, BucketHasTimer, TimerHasBucket, TimerIdsUnique
  <1>1. CASE BeginShutdown \/ CloseRenders \/ Drained \/ DrainTimeout
    BY <1>1 DEF BeginShutdown, CloseRenders, Drained, DrainTimeout
  <1>2. ASSUME NEW k \in to_flush, ShutdownFlush(k)
        PROVE  TimersMatch'
    <2>1. CASE k \notin DOMAIN buckets
      BY <1>2, <2>1 DEF ShutdownFlush
    <2>2. CASE k \in DOMAIN buckets
      <3>1. /\ timers' = {t \in timers : t.id # buckets[k].timer \/ t.woken}
            /\ stage = "flushing" /\ UNCHANGED <<added, stage>>
            /\ DOMAIN buckets' = DOMAIN buckets \ {k}
            /\ \A l \in DOMAIN buckets' : buckets'[l] = buckets[l]
        BY <1>2, <2>2 DEF ShutdownFlush, WithoutBucket, Abort
      \* abort() reaches the timer of this bucket only.
      <3>2. \A t \in timers : t.id = buckets[k].timer <=> t.key = k
        BY <2>2
      <3>3. TimerHasBucket'
        BY <3>1, <3>2
      <3>4. BucketHasTimer'
        BY <3>1, <3>2
      <3>5. TimerIdsUnique'
        BY <3>1
      <3> QED
        BY <3>3, <3>4, <3>5
    <2> QED
      BY <2>1, <2>2
  <1> QED
    BY <1>1, <1>2 DEF ShutdownStep

LEMMA TimersMatchNext ==
    AggregatorTypeOK /\ TimersMatch /\ [AggregatorNext]_aggregatorVars => TimersMatch'
  <1> SUFFICES ASSUME AggregatorTypeOK, TimersMatch, [AggregatorNext]_aggregatorVars
               PROVE  TimersMatch'
    OBVIOUS
  <1>1. CASE UNCHANGED aggregatorVars
    BY <1>1 DEF aggregatorVars, TimersMatch, BucketHasTimer, TimerHasBucket, TimerIdsUnique
  <1>2. CASE AggregatorNext
    BY <1>2, TimersMatchSubmit, TimersMatchTask, TimersMatchShutdown DEF AggregatorNext
  <1> QED
    BY <1>1, <1>2

(* Every open bucket has its own timer, and a timer task that outlives its *)
(* bucket never meets a later bucket of the same key: flush removes the    *)
(* bucket and aborts its timer under one lock, and the only timer abort()  *)
(* comes too late for had woken up when shutdown took its bucket           *)
(* (aggregator.rs, add and flush).                                         *)
THEOREM TimersBelongToBuckets == AggregatorSpec => []TimerOwnsBucket
  <1>1. TimersMatch => TimerOwnsBucket
    BY DEF TimersMatch, BucketHasTimer, TimerHasBucket, TimerOwnsBucket
  <1> QED
    BY <1>1, AggregatorTypeCorrect, TimersMatchInit, TimersMatchNext, PTL
       DEF AggregatorSpec

-----------------------------------------------------------------------------
(* Replaceable events *)

(* apply_to_bucket compares with the newest event of the bucket: there is  *)
(* one.                                                                    *)
LEMMA NewestInBatch ==
    ASSUME NEW batch \in SUBSET Event, batch # {}
    PROVE  Newest(batch) \in batch /\ \A m \in batch : m.seq <= Newest(batch).seq
  <1> DEFINE S == {MaxSeq - n.seq : n \in batch}
  <1>1. \A n \in batch : n.seq \in 1..MaxSeq
    BY DEF Event
  <1>2. S \in SUBSET Nat /\ S # {}
    BY <1>1, MaxSeqAssumption
  <1>3. PICK s \in S : \A m \in S : s <= m
    <2> HIDE DEF S
    <2> QED
      BY <1>2, LeastNatural
  <1>4. PICK n \in batch : MaxSeq - n.seq = s
    OBVIOUS
  <1>5. ASSUME NEW m \in batch
        PROVE  m.seq <= n.seq
    <2>1. MaxSeq - n.seq <= MaxSeq - m.seq
      BY <1>3, <1>4
    <2> QED
      BY <1>1, <2>1, MaxSeqAssumption
  <1> QED
    BY <1>5 DEF Newest

(* At most one event of a batch is replaceable.                            *)
OneValue(batch) ==
    \A n, m \in batch : n.body.replaceable /\ m.body.replaceable => n = m

(* OneReplaceableValue, holder by holder.                                  *)
HoldersHaveOneValue ==
    /\ \A k \in DOMAIN buckets : OneValue(buckets[k].events)
    /\ \A batch \in flushing : OneValue(batch)
    /\ \A r \in renders : OneValue(r.sources)

LEMMA OneValueApplied ==
    ASSUME NEW events, NEW n, OneValue(events)
    PROVE  OneValue(apply_to_bucket(events, n)) /\ OneValue({n})
  BY DEF OneValue, apply_to_bucket

LEMMA OneValueSpawned ==
    ASSUME NEW batch, OneValue(batch), HoldersHaveOneValue,
           renders' = renders \cup {RenderTask(batch)}
    PROVE  \A r \in renders' : OneValue(r.sources)
  <1> DEFINE t == RenderTask(batch)
  <1>1. t.sources = batch /\ renders' = renders \cup {t}
    BY DEF RenderTask
  <1> HIDE DEF t
  <1> QED
    BY <1>1 DEF HoldersHaveOneValue

LEMMA OneValueSubmit ==
    ASSUME AggregatorTypeOK, HoldersHaveOneValue, NEW n \in Event, Submit(n)
    PROVE  HoldersHaveOneValue'
  <1>1. flushing' = flushing
    BY DEF Submit, Add
  <1>2. CASE AddCritical(n)
    <2>1. OneValue({n})
      BY DEF OneValue
    <2>2. \A r \in renders' : OneValue(r.sources)
      BY <1>2, <2>1, OneValueSpawned DEF AddCritical
    <2> QED
      BY <1>1, <1>2, <2>2 DEF AddCritical, HoldersHaveOneValue
  <1>3. CASE AddToBucket(n)
    <2> DEFINE after == apply_to_bucket(buckets[Key(n)].events, n)
    <2>1. OneValue(after)
      BY <1>3, OneValueApplied DEF AddToBucket, HoldersHaveOneValue
    <2>2. buckets' = [buckets EXCEPT ![Key(n)].events = after] /\ renders' = renders
      BY <1>3 DEF AddToBucket
    <2> HIDE DEF after
    <2>3. \A k \in DOMAIN buckets' :
             buckets'[k].events = IF k = Key(n) THEN after ELSE buckets[k].events
      BY <2>2 DEF AggregatorTypeOK, BucketsOK
    <2>4. DOMAIN buckets' = DOMAIN buckets
      BY <2>2
    <2> QED
      BY <1>1, <2>1, <2>2, <2>3, <2>4 DEF HoldersHaveOneValue
  <1>4. CASE AddOverflow(n)
    BY <1>1, <1>4 DEF AddOverflow, HoldersHaveOneValue
  <1>5. CASE AddNewBucket(n)
    <2>1. /\ DOMAIN buckets' = DOMAIN buckets \cup {Key(n)}
          /\ buckets'[Key(n)].events = {n}
          /\ \A k \in DOMAIN buckets : buckets'[k] = buckets[k]
          /\ renders' = renders
      BY <1>5 DEF AddNewBucket
    <2>2. OneValue({n})
      BY DEF OneValue
    <2> QED
      BY <1>1, <2>1, <2>2 DEF HoldersHaveOneValue
  <1> QED
    BY <1>2, <1>3, <1>4, <1>5 DEF Submit, Add

LEMMA OneValueTask ==
    ASSUME AggregatorTypeOK, HoldersHaveOneValue, TaskStep
    PROVE  HoldersHaveOneValue'
  <1>1. ASSUME NEW t \in timers, WakeTimer(t)
        PROVE  HoldersHaveOneValue'
    BY <1>1 DEF WakeTimer, HoldersHaveOneValue
  <1>2. ASSUME NEW t \in timers, TimerFlush(t)
        PROVE  HoldersHaveOneValue'
    BY <1>2 DEF TimerFlush, WithoutBucket, HoldersHaveOneValue
  <1>3. ASSUME NEW batch \in flushing, SpawnRender(batch)
        PROVE  HoldersHaveOneValue'
    <2>1. \A r \in renders' : OneValue(r.sources)
      BY <1>3, OneValueSpawned DEF SpawnRender, HoldersHaveOneValue
    <2> QED
      BY <1>3, <2>1 DEF SpawnRender, HoldersHaveOneValue
  <1>4. ASSUME NEW r \in renders, Show(r) \/ ShowFails(r) \/ AckSubmitted(r)
        PROVE  HoldersHaveOneValue'
    <2>1. \A s \in renders' : s \in renders \/ s.sources = r.sources
      BY <1>4 DEF Show, ShowFails, AckSubmitted, AggregatorTypeOK, RendersOK
    <2> QED
      BY <1>4, <2>1 DEF Show, ShowFails, AckSubmitted, HoldersHaveOneValue
  <1> QED
    BY <1>1, <1>2, <1>3, <1>4 DEF TaskStep

LEMMA OneValueNext ==
    /\ AggregatorTypeOK /\ HoldersHaveOneValue /\ [AggregatorNext]_aggregatorVars
    => HoldersHaveOneValue'
  <1> SUFFICES ASSUME AggregatorTypeOK, HoldersHaveOneValue, [AggregatorNext]_aggregatorVars
               PROVE  HoldersHaveOneValue'
    OBVIOUS
  <1>1. CASE UNCHANGED <<buckets, flushing, renders>>
    BY <1>1 DEF HoldersHaveOneValue
  <1>2. ASSUME NEW k \in to_flush, ShutdownFlush(k), k \in DOMAIN buckets
        PROVE  HoldersHaveOneValue'
    <2>1. /\ buckets' = WithoutBucket(k) /\ flushing' = flushing
          /\ renders' = renders \cup {RenderTask(buckets[k].events)}
      BY <1>2 DEF ShutdownFlush
    <2>2. \A r \in renders' : OneValue(r.sources)
      BY <1>2, <2>1, OneValueSpawned DEF HoldersHaveOneValue
    <2> QED
      BY <2>1, <2>2 DEF WithoutBucket, HoldersHaveOneValue
  <1>3. ASSUME NEW k \in to_flush, ShutdownFlush(k), k \notin DOMAIN buckets
        PROVE  HoldersHaveOneValue'
    BY <1>1, <1>3 DEF ShutdownFlush
  <1>4. CASE BeginShutdown \/ CloseRenders \/ Drained \/ DrainTimeout
    BY <1>1, <1>4 DEF BeginShutdown, CloseRenders, Drained, DrainTimeout
  <1>5. CASE UNCHANGED aggregatorVars
    BY <1>1, <1>5 DEF aggregatorVars
  <1> QED
    BY <1>2, <1>3, <1>4, <1>5, OneValueSubmit, OneValueTask
       DEF AggregatorNext, ShutdownStep

(* No toast shows two values of a replaceable state: neither the bucket    *)
(* they arrived in nor the batch taken from it ever has two                *)
(* (aggregator.rs, apply_to_bucket and flush).                             *)
THEOREM ToastShowsOneValue == AggregatorSpec => []OneReplaceableValue
  <1>1. AggregatorInit => HoldersHaveOneValue
    BY DEF AggregatorInit, HoldersHaveOneValue
  <1>2. HoldersHaveOneValue => OneReplaceableValue
    <2> SUFFICES ASSUME HoldersHaveOneValue,
                        NEW batch \in {buckets[k].events : k \in DOMAIN buckets}
                                       \cup flushing \cup {r.sources : r \in renders}
                 PROVE  OneValue(batch)
      BY DEF OneReplaceableValue, OneValue
    <2> QED
      BY DEF HoldersHaveOneValue
  <1> QED
    BY <1>1, <1>2, AggregatorTypeCorrect, OneValueNext, PTL DEF AggregatorSpec

LEMMA SupersededNext ==
    /\ AggregatorTypeOK /\ Accounted /\ SupersededByNewer
    /\ [AggregatorNext]_aggregatorVars
    => SupersededByNewer'
  <1> SUFFICES ASSUME AggregatorTypeOK, Accounted, SupersededByNewer,
                      [AggregatorNext]_aggregatorVars
               PROVE  SupersededByNewer'
    OBVIOUS
  <1>1. CASE superseded' = superseded /\ added \subseteq added'
    BY <1>1 DEF SupersededByNewer
  <1>2. ASSUME NEW n \in Event, Submit(n), AddToBucket(n)
        PROVE  SupersededByNewer'
    <2> DEFINE before == buckets[Key(n)].events
               after == apply_to_bucket(before, n)
               top == Newest(before)
    <2>1. added' = added \cup {n} /\ \A m \in added : m.seq # n.seq
      BY <1>2 DEF Submit, Add
    <2>2. superseded' = superseded \cup ((before \cup {n}) \ after)
      BY <1>2 DEF AddToBucket
    <2>3. /\ before \in SUBSET Event /\ before # {} /\ before \subseteq added
          /\ \A m \in before : Key(m) = Key(n)
      BY <1>2 DEF AddToBucket, AggregatorTypeOK, BucketsOK, Accounted, Cover, InBuckets
    <2>4. top \in before /\ \A m \in before : m.seq <= top.seq
      BY <2>3, NewestInBatch
    <2>5. \A m \in before \cup {n} : m.seq \in Nat
      BY <2>3, MaxSeqAssumption DEF Event
    <2>6. ASSUME NEW d \in (before \cup {n}) \ after
          PROVE  \E m \in added' : /\ Key(m) = Key(d) /\ m.seq > d.seq
                                   /\ m.body.replaceable \/ d.body.replaceable
      <3>1. n.body.replaceable
        BY <2>6 DEF apply_to_bucket
      <3>2. CASE n.seq >= top.seq
        <4>1. d \in before
          BY <2>6, <3>1, <3>2 DEF apply_to_bucket
        <4> HIDE DEF before, after, top
        <4>2. n.seq > d.seq
          BY <2>1, <2>3, <2>4, <2>5, <3>2, <4>1
        <4> QED
          BY <2>1, <2>3, <3>1, <4>1, <4>2
      <3>3. CASE ~(n.seq >= top.seq)
        <4>1. d = n
          BY <2>6, <3>1, <3>3 DEF apply_to_bucket
        <4> HIDE DEF before, after, top
        <4>2. top.seq > d.seq
          BY <2>4, <2>5, <3>3, <4>1
        <4> QED
          BY <2>1, <2>3, <2>4, <3>1, <4>1, <4>2
      <3> QED
        BY <3>2, <3>3
    <2> HIDE DEF before, after, top
    <2> QED
      BY <2>1, <2>2, <2>6 DEF SupersededByNewer
  <1>3. ASSUME NEW n \in Event, Submit(n)
        PROVE  SupersededByNewer'
    <2>1. added' = added \cup {n}
      BY <1>3 DEF Submit, Add
    <2> QED
      BY <1>1, <1>2, <1>3, <2>1 DEF Submit, Add, AddCritical, AddOverflow, AddNewBucket
  <1>4. CASE TaskStep
    BY <1>1, <1>4 DEF TaskStep, WakeTimer, TimerFlush, SpawnRender, Show, ShowFails,
                      AckSubmitted
  <1>5. CASE BeginShutdown \/ ShutdownStep
    BY <1>1, <1>5 DEF BeginShutdown, ShutdownStep, ShutdownFlush, CloseRenders, Drained,
                      DrainTimeout
  <1>6. CASE UNCHANGED aggregatorVars
    BY <1>1, <1>6 DEF aggregatorVars
  <1> QED
    BY <1>3, <1>4, <1>5, <1>6 DEF AggregatorNext

(* The newest event of a key is never dropped in favour of another one: a  *)
(* superseded event gave way to one of its key that is newer by arrival    *)
(* stamp, whatever the order in which the workers handed the two over      *)
(* (aggregator.rs, apply_to_bucket).                                       *)
THEOREM OnlyOlderEventsSuperseded == AggregatorSpec => []SupersededByNewer
  <1>1. AggregatorInit => SupersededByNewer
    BY DEF AggregatorInit, SupersededByNewer
  <1> QED
    BY <1>1, AggregatorTypeCorrect, AlwaysAccounted, SupersededNext, PTL
       DEF AggregatorSpec

-----------------------------------------------------------------------------
(* Every toast is acknowledged *)

(* A render task that has shown its toast has acknowledged all but the     *)
(* events it still has to.                                                 *)
TaskAcks ==
    \A r \in renders : r.shown => \A n \in r.sources \ r.unacked : n \in submitted

(* No render task ends between two of its acks: an event that was part of  *)
(* a toast and whose task has ended was acknowledged.                      *)
AcksComplete == \A n \in finished : IsShown(n) => n \in submitted

LEMMA AcksShow ==
    ASSUME AggregatorTypeOK, Accounted, TaskAcks, AcksComplete, NEW r \in renders, Show(r)
    PROVE  TaskAcks' /\ AcksComplete'
  <1> DEFINE t == [r EXCEPT !.shown = TRUE]
  <1>1. t.sources = r.sources /\ t.unacked = r.unacked /\ r.unacked = r.sources
    BY DEF Show, AggregatorTypeOK, RendersOK
  <1>2. renders' = (renders \ {r}) \cup {t}
    BY DEF Show
  <1> HIDE DEF t
  <1>3. UNCHANGED <<submitted, finished>>
    BY DEF Show
  <1>4. /\ Len(shown') = Len(shown) + 1 /\ Len(shown) \in Nat
        /\ \A i \in 1..Len(shown) : shown'[i] = shown[i]
        /\ shown'[Len(shown) + 1] = r.sources
    BY DEF Show, AggregatorTypeOK, RendersOK
  <1>5. \A n : IsShown(n)' => IsShown(n) \/ n \in r.sources
    <2>1. \A i \in 1..Len(shown') : i \in 1..Len(shown) \/ i = Len(shown) + 1
      BY <1>4
    <2> QED BY <1>4, <2>1 DEF IsShown
  <1>6. \A n \in finished : n \notin r.sources
    BY DEF Accounted, PlacesApart, Gone, InRenders
  <1>7. TaskAcks'
    BY <1>1, <1>2, <1>3 DEF TaskAcks
  <1> QED BY <1>3, <1>5, <1>6, <1>7 DEF AcksComplete

(* A toast that failed has no event that is part of another one.           *)
LEMMA AcksShowFails ==
    ASSUME Accounted, Toasts, TaskAcks, AcksComplete, NEW r \in renders, ShowFails(r)
    PROVE  TaskAcks' /\ AcksComplete'
  <1>1. /\ ~r.shown /\ renders' = renders \ {r}
        /\ finished' = finished \cup r.sources /\ UNCHANGED <<shown, submitted>>
    BY DEF ShowFails
  <1>2. ASSUME NEW n \in r.sources, IsShown(n)
        PROVE  FALSE
    <2>1. n \notin finished
      BY DEF Accounted, PlacesApart, Gone, InRenders
    <2>2. PICK s \in renders : s.shown /\ n \in s.sources
      BY <1>2, <2>1 DEF Toasts, ShownElsewhere, IsShown
    <2> QED BY <1>1, <2>2 DEF Accounted, HoldersApart
  <1>3. \A n : IsShown(n)' <=> IsShown(n)
    BY <1>1 DEF IsShown
  <1> QED BY <1>1, <1>2, <1>3 DEF TaskAcks, AcksComplete

LEMMA AcksAck ==
    ASSUME AggregatorTypeOK, TaskAcks, AcksComplete, NEW r \in renders, AckSubmitted(r)
    PROVE  TaskAcks' /\ AcksComplete'
  <1> DEFINE n == Oldest(r.unacked)
             t == [r EXCEPT !.unacked = r.unacked \ {n}]
  <1>1. r.shown /\ submitted' = submitted \cup {n} /\ UNCHANGED shown
    BY DEF AckSubmitted
  <1>2. /\ t.sources = r.sources /\ t.shown = r.shown
        /\ t.unacked = r.unacked \ {n}
    BY DEF AggregatorTypeOK, RendersOK
  <1>3. \/ /\ r.unacked \ {n} = {}
           /\ renders' = renders \ {r} /\ finished' = finished \cup r.sources
        \/ renders' = (renders \ {r}) \cup {t} /\ UNCHANGED finished
    BY DEF AckSubmitted
  <1> HIDE DEF n, t
  <1>4. \A m : IsShown(m)' <=> IsShown(m)
    BY <1>1 DEF IsShown
  <1>5. CASE r.unacked \ {n} = {} /\ renders' = renders \ {r}
             /\ finished' = finished \cup r.sources
    <2>1. \A m \in r.sources : m \in submitted'
      BY <1>1, <1>5 DEF TaskAcks
    <2> QED BY <1>1, <1>4, <1>5, <2>1 DEF TaskAcks, AcksComplete
  <1>6. CASE renders' = (renders \ {r}) \cup {t} /\ UNCHANGED finished
    BY <1>1, <1>2, <1>4, <1>6 DEF TaskAcks, AcksComplete
  <1> QED BY <1>3, <1>5, <1>6

LEMMA AcksNext ==
    /\ AggregatorTypeOK /\ Accounted /\ Toasts /\ TaskAcks /\ AcksComplete
    /\ [AggregatorNext]_aggregatorVars
    => TaskAcks' /\ AcksComplete'
  <1> SUFFICES ASSUME AggregatorTypeOK, Accounted, Toasts, TaskAcks, AcksComplete,
                      [AggregatorNext]_aggregatorVars
               PROVE  TaskAcks' /\ AcksComplete'
    OBVIOUS
  <1>1. ASSUME UNCHANGED <<shown, submitted, finished>>,
               renders \subseteq renders', \A r \in renders' \ renders : ~r.shown
        PROVE  TaskAcks' /\ AcksComplete'
    BY <1>1 DEF TaskAcks, AcksComplete, IsShown
  <1>2. CASE UNCHANGED aggregatorVars
    BY <1>1, <1>2 DEF aggregatorVars
  <1>3. CASE \/ \E n \in Event : Submit(n)
             \/ \E t \in timers : WakeTimer(t) \/ TimerFlush(t)
             \/ \E batch \in flushing : SpawnRender(batch)
             \/ BeginShutdown
             \/ ShutdownStep
    <2>1. UNCHANGED <<shown, submitted, finished>>
      BY <1>3 DEF Submit, Add, BeginShutdown, ShutdownStep, ShutdownFlush, CloseRenders,
             Drained, DrainTimeout, WakeTimer, TimerFlush, SpawnRender, sinkVars
    <2>2. renders' = renders \/ \E batch : renders' = renders \cup {RenderTask(batch)}
      BY <1>3 DEF Submit, Add, AddCritical, AddToBucket, AddOverflow, AddNewBucket,
             BeginShutdown, ShutdownStep, ShutdownFlush, CloseRenders, Drained,
             DrainTimeout, WakeTimer, TimerFlush, SpawnRender
    <2>3. renders \subseteq renders' /\ \A r \in renders' \ renders : ~r.shown
      BY <2>2 DEF RenderTask
    <2> QED BY <1>1, <2>1, <2>3
  <1>4. ASSUME NEW r \in renders, Show(r) \/ ShowFails(r) \/ AckSubmitted(r)
        PROVE  TaskAcks' /\ AcksComplete'
    BY <1>4, AcksShow, AcksShowFails, AcksAck
  <1> QED
    BY <1>2, <1>3, <1>4 DEF AggregatorNext, TaskStep

(* Every event of an accepted toast is acknowledged before its render task *)
(* is over, however many events the toast has and whatever else runs; so a *)
(* shown event that is not acknowledged is one of a task that is still at  *)
(* it (pipeline.rs, AckingRenderSink::render).                             *)
THEOREM EndedTasksAcknowledged == AggregatorSpec => []AcksComplete
  <1>1. AggregatorInit => TaskAcks /\ AcksComplete
    BY DEF AggregatorInit, TaskAcks, AcksComplete
  <1> QED
    BY <1>1, AlwaysAccounted, AggregatorTypeCorrect, ToastsInit, ToastsNext, AcksNext, PTL
       DEF AggregatorSpec

-----------------------------------------------------------------------------
(* What a toast is made of *)

(* All of one aggregation key and priority, a critical one by itself.      *)
OfOneKey(batch) ==
    \A n, m \in batch : Key(n) = Key(m) /\ (n.body.priority = "Critical" => n = m)

(* No toast mixes keys or priorities, holds back a critical notification   *)
(* to join others, or shows two values of a replaceable state.             *)
UniformToasts ==
    \A i \in 1..Len(shown) :
        shown[i] # {} /\ OfOneKey(shown[i]) /\ OneValue(shown[i])

(* The same of what is on its way to a toast.                              *)
HoldersOfOneKey ==
    /\ \A k \in DOMAIN buckets : \A n \in buckets[k].events : n.body.priority # "Critical"
    /\ \A batch \in flushing : OfOneKey(batch)
    /\ \A r \in renders : OfOneKey(r.sources)

LEMMA BucketOfOneKey ==
    ASSUME AggregatorTypeOK, HoldersOfOneKey, NEW k \in DOMAIN buckets
    PROVE  OfOneKey(buckets[k].events)
  BY DEF AggregatorTypeOK, BucketsOK, HoldersOfOneKey, OfOneKey

LEMMA OneKeySpawned ==
    ASSUME NEW batch, OfOneKey(batch), HoldersOfOneKey,
           renders' = renders \cup {RenderTask(batch)}
    PROVE  \A r \in renders' : OfOneKey(r.sources)
  <1> DEFINE t == RenderTask(batch)
  <1>1. t.sources = batch /\ renders' = renders \cup {t}
    BY DEF RenderTask
  <1> HIDE DEF t
  <1> QED
    BY <1>1 DEF HoldersOfOneKey

LEMMA OneKeySubmit ==
    ASSUME AggregatorTypeOK, HoldersOfOneKey, NEW n \in Event, Submit(n)
    PROVE  HoldersOfOneKey'
  <1>1. flushing' = flushing
    BY DEF Submit, Add
  <1>2. CASE AddCritical(n)
    <2>1. OfOneKey({n})
      BY DEF OfOneKey
    <2>2. \A r \in renders' : OfOneKey(r.sources)
      BY <1>2, <2>1, OneKeySpawned DEF AddCritical
    <2> QED
      BY <1>1, <1>2, <2>2 DEF AddCritical, HoldersOfOneKey
  <1>3. CASE AddToBucket(n)
    <2> DEFINE after == apply_to_bucket(buckets[Key(n)].events, n)
    <2>1. after \subseteq buckets[Key(n)].events \cup {n}
      BY DEF apply_to_bucket
    <2>2. /\ buckets' = [buckets EXCEPT ![Key(n)].events = after] /\ renders' = renders
          /\ n.body.priority # "Critical" /\ Key(n) \in DOMAIN buckets
      BY <1>3 DEF AddToBucket
    <2> HIDE DEF after
    <2>3. \A k \in DOMAIN buckets' :
             buckets'[k].events = IF k = Key(n) THEN after ELSE buckets[k].events
      BY <2>2 DEF AggregatorTypeOK, BucketsOK
    <2>4. DOMAIN buckets' = DOMAIN buckets
      BY <2>2
    <2> QED
      BY <1>1, <2>1, <2>2, <2>3, <2>4 DEF HoldersOfOneKey
  <1>4. CASE AddOverflow(n)
    BY <1>1, <1>4 DEF AddOverflow, HoldersOfOneKey
  <1>5. CASE AddNewBucket(n)
    <2>1. /\ DOMAIN buckets' = DOMAIN buckets \cup {Key(n)}
          /\ buckets'[Key(n)].events = {n}
          /\ \A k \in DOMAIN buckets : buckets'[k] = buckets[k]
          /\ renders' = renders /\ n.body.priority # "Critical"
      BY <1>5 DEF AddNewBucket
    <2> QED
      BY <1>1, <2>1 DEF HoldersOfOneKey
  <1> QED
    BY <1>2, <1>3, <1>4, <1>5 DEF Submit, Add

LEMMA OneKeyTask ==
    ASSUME AggregatorTypeOK, HoldersOfOneKey, TaskStep
    PROVE  HoldersOfOneKey'
  <1>1. ASSUME NEW t \in timers, WakeTimer(t)
        PROVE  HoldersOfOneKey'
    BY <1>1 DEF WakeTimer, HoldersOfOneKey
  <1>2. ASSUME NEW t \in timers, TimerFlush(t)
        PROVE  HoldersOfOneKey'
    BY <1>2, BucketOfOneKey DEF TimerFlush, WithoutBucket, HoldersOfOneKey
  <1>3. ASSUME NEW batch \in flushing, SpawnRender(batch)
        PROVE  HoldersOfOneKey'
    <2>1. \A r \in renders' : OfOneKey(r.sources)
      BY <1>3, OneKeySpawned DEF SpawnRender, HoldersOfOneKey
    <2> QED
      BY <1>3, <2>1 DEF SpawnRender, HoldersOfOneKey
  <1>4. ASSUME NEW r \in renders, Show(r) \/ ShowFails(r) \/ AckSubmitted(r)
        PROVE  HoldersOfOneKey'
    <2>1. \A s \in renders' : s \in renders \/ s.sources = r.sources
      BY <1>4 DEF Show, ShowFails, AckSubmitted, AggregatorTypeOK, RendersOK
    <2> QED
      BY <1>4, <2>1 DEF Show, ShowFails, AckSubmitted, HoldersOfOneKey
  <1> QED
    BY <1>1, <1>2, <1>3, <1>4 DEF TaskStep

LEMMA OneKeyNext ==
    /\ AggregatorTypeOK /\ HoldersOfOneKey /\ [AggregatorNext]_aggregatorVars
    => HoldersOfOneKey'
  <1> SUFFICES ASSUME AggregatorTypeOK, HoldersOfOneKey, [AggregatorNext]_aggregatorVars
               PROVE  HoldersOfOneKey'
    OBVIOUS
  <1>1. CASE UNCHANGED <<buckets, flushing, renders>>
    BY <1>1 DEF HoldersOfOneKey
  <1>2. ASSUME NEW k \in to_flush, ShutdownFlush(k), k \in DOMAIN buckets
        PROVE  HoldersOfOneKey'
    <2>1. /\ buckets' = WithoutBucket(k) /\ flushing' = flushing
          /\ renders' = renders \cup {RenderTask(buckets[k].events)}
      BY <1>2 DEF ShutdownFlush
    <2>2. \A r \in renders' : OfOneKey(r.sources)
      BY <1>2, <2>1, BucketOfOneKey, OneKeySpawned
    <2> QED
      BY <2>1, <2>2 DEF WithoutBucket, HoldersOfOneKey
  <1>3. ASSUME NEW k \in to_flush, ShutdownFlush(k), k \notin DOMAIN buckets
        PROVE  HoldersOfOneKey'
    BY <1>1, <1>3 DEF ShutdownFlush
  <1>4. CASE BeginShutdown \/ CloseRenders \/ Drained \/ DrainTimeout
    BY <1>1, <1>4 DEF BeginShutdown, CloseRenders, Drained, DrainTimeout
  <1>5. CASE UNCHANGED aggregatorVars
    BY <1>1, <1>5 DEF aggregatorVars
  <1> QED
    BY <1>2, <1>3, <1>4, <1>5, OneKeySubmit, OneKeyTask
       DEF AggregatorNext, ShutdownStep

LEMMA UniformNext ==
    /\ AggregatorTypeOK /\ HoldersOfOneKey /\ HoldersHaveOneValue /\ UniformToasts
    /\ [AggregatorNext]_aggregatorVars
    => UniformToasts'
  <1> SUFFICES ASSUME AggregatorTypeOK, HoldersOfOneKey, HoldersHaveOneValue, UniformToasts,
                      [AggregatorNext]_aggregatorVars
               PROVE  UniformToasts'
    OBVIOUS
  <1>1. CASE UNCHANGED shown
    BY <1>1 DEF UniformToasts
  <1>2. ASSUME NEW r \in renders, Show(r)
        PROVE  UniformToasts'
    <2>1. /\ Len(shown') = Len(shown) + 1 /\ Len(shown) \in Nat
          /\ \A i \in 1..Len(shown) : shown'[i] = shown[i]
          /\ shown'[Len(shown) + 1] = r.sources
      BY <1>2 DEF Show, AggregatorTypeOK, RendersOK
    <2>2. \A i \in 1..Len(shown') : i \in 1..Len(shown) \/ i = Len(shown) + 1
      BY <2>1
    <2>3. r.sources # {} /\ OfOneKey(r.sources) /\ OneValue(r.sources)
      BY DEF AggregatorTypeOK, RendersOK, HoldersOfOneKey, HoldersHaveOneValue
    <2> QED BY <2>1, <2>2, <2>3 DEF UniformToasts
  <1>3. CASE \/ \E n \in Event : Submit(n)
             \/ BeginShutdown
             \/ ShutdownStep
             \/ \E t \in timers : WakeTimer(t) \/ TimerFlush(t)
             \/ \E batch \in flushing : SpawnRender(batch)
             \/ \E r \in renders : ShowFails(r) \/ AckSubmitted(r)
    BY <1>1, <1>3 DEF Submit, Add, BeginShutdown, ShutdownStep, ShutdownFlush,
           CloseRenders, Drained, DrainTimeout, WakeTimer, TimerFlush, SpawnRender,
           ShowFails, AckSubmitted, sinkVars
  <1>4. CASE UNCHANGED aggregatorVars
    BY <1>1, <1>4 DEF aggregatorVars
  <1> QED
    BY <1>2, <1>3, <1>4 DEF AggregatorNext, TaskStep

(* What a toast shows belongs together, on whatever path its events came   *)
(* to it (a bucket taken by its timer or by shutdown, or none): one key,   *)
(* one priority, one value of a replaceable state, and a critical          *)
(* notification never waits in a bucket (aggregator.rs, add and flush).    *)
THEOREM ToastsAreUniform == AggregatorSpec => []UniformToasts
  <1>1. AggregatorInit => HoldersOfOneKey /\ HoldersHaveOneValue /\ UniformToasts
    BY DEF AggregatorInit, HoldersOfOneKey, HoldersHaveOneValue, UniformToasts
  <1> QED
    BY <1>1, AggregatorTypeCorrect, OneKeyNext, OneValueNext, UniformNext, PTL
       DEF AggregatorSpec

-----------------------------------------------------------------------------
(* After a complete drain *)

(* Shutdown's wait was over with nothing under way.                        *)
DrainedClean == stage = "drained" /\ flushing = {} /\ renders = {}

(* From then on nothing gets under way again: there is no bucket for a     *)
(* timer that is still to run.                                             *)
LEMMA DrainedCleanStays ==
    /\ ShutdownEmptiesBuckets /\ DrainedClean /\ [AggregatorNext]_aggregatorVars
    => DrainedClean'
  <1> SUFFICES ASSUME ShutdownEmptiesBuckets, DrainedClean, [AggregatorNext]_aggregatorVars
               PROVE  DrainedClean'
    OBVIOUS
  <1>1. DOMAIN buckets = {}
    BY DEF ShutdownEmptiesBuckets, DrainedClean
  <1>2. CASE UNCHANGED aggregatorVars
    BY <1>2 DEF aggregatorVars, DrainedClean
  <1>3. CASE TaskStep
    <2>1. PICK t \in timers : WakeTimer(t) \/ TimerFlush(t)
      BY <1>3 DEF TaskStep, DrainedClean
    <2> QED BY <1>1, <2>1 DEF WakeTimer, TimerFlush, DrainedClean
  <1>4. CASE (\E n \in Event : Submit(n)) \/ BeginShutdown \/ ShutdownStep
    BY <1>4 DEF Submit, BeginShutdown, ShutdownStep, ShutdownFlush, CloseRenders, Drained,
                DrainTimeout, DrainedClean
  <1> QED BY <1>2, <1>3, <1>4 DEF AggregatorNext
=============================================================================
