--------------------------- MODULE AgentHostProofs --------------------------
(***************************************************************************)
(* Proofs about AgentHost: the subscribe loop, the pipeline with any       *)
(* number of workers and the aggregator in one process.                    *)
(*                                                                         *)
(* The invariant of the intake (Intake, below) is enough to show that the  *)
(* host uses the aggregator as AggregatorSpec demands.  What is proved of  *)
(* the aggregator alone then holds of the aggregator in the host, and the  *)
(* two together give the properties of the whole agent.                    *)
(***************************************************************************)
EXTENDS AgentHost, AggregatorProofs

-----------------------------------------------------------------------------
(* The invariant of the intake *)

(* Arrival stamps: each of 1..seq was given to one event.                  *)
Stamps ==
    /\ seq \in 0..MaxSeq
    /\ received \subseteq Event
    /\ {n.seq : n \in received} = 1..seq
    /\ \A n, m \in received : n.seq = m.seq => n = m
    /\ IsFiniteSet(received) /\ Cardinality(received) = seq

(* What has left the intake.                                               *)
Handled == dropped_queue_full \cup invalid \cup duplicates \cup added

(* A received event is in one place of the intake.                         *)
IntakeApart ==
    /\ received = InQueue \cup InWork \cup Handled
    /\ InQueue \cap (InWork \cup Handled) = {}
    /\ InWork \cap Handled = {}
    /\ dropped_queue_full \cap (invalid \cup duplicates \cup added) = {}
    /\ invalid \cap (duplicates \cup added) = {}
    /\ duplicates \cap added = {}

(* No event is queued twice or worked on twice.                            *)
NoCopies ==
    /\ \A i, j \in 1..Len(queue) : queue[i] = queue[j] => i = j
    /\ \A v, w \in Busy : job[v] = job[w] => v = w

(* Shutdown closes the intake in order: the subscribe loop can still send  *)
(* while it runs, a worker ends only when nobody can send and nothing is   *)
(* queued, and the aggregator's shutdown begins when all workers are gone. *)
ClosedInOrder ==
    /\ subscriber = "running" => "intake" \in senders
    /\ \A w \in Workers : pc[w] = "ended" => senders = {} /\ queue = <<>>
    /\ phase \in {"aggregator", "flush", "stopped"} => WorkersEnded
    /\ stage # "open" => WorkersEnded

HostTypeOK ==
    /\ PipelineTypeOK
    /\ subscriber \in {"running", "ended"}
    /\ phase \in {"running", "cancelled", "pipeline", "aggregator", "flush",
                  "stopped", "exited"}

Intake == HostTypeOK /\ Stamps /\ IntakeApart /\ NoCopies /\ ClosedInOrder

LEMMA NoEventIsNone == NoEvent \notin Event
  BY DEF NoEvent, Event

LEMMA IntakeInit == Init => Intake
  <1> SUFFICES ASSUME Init PROVE Intake
    OBVIOUS
  <1> USE DEF Init, PipelineInit, FilterInit, AggregatorInit
  <1>1. HostTypeOK
    BY DEF HostTypeOK, PipelineTypeOK
  <1>2. Stamps
    BY FS_EmptySet, MaxSeqAssumption DEF Stamps
  <1>3. InQueue = {} /\ Busy = {} /\ InWork = {}
    BY DEF InQueue, Busy, InWork
  <1>4. IntakeApart /\ NoCopies
    BY <1>3 DEF IntakeApart, NoCopies, Handled
  <1>5. ClosedInOrder
    BY DEF ClosedInOrder
  <1> QED
    BY <1>1, <1>2, <1>4, <1>5 DEF Intake

(* What a step does to the queue and to the jobs, in terms of the places.  *)
LEMMA QueueAppended ==
    ASSUME HostTypeOK, NEW evt \in Event, evt \notin InQueue,
           \A i, j \in 1..Len(queue) : queue[i] = queue[j] => i = j,
           queue' = Append(queue, evt)
    PROVE  /\ queue' \in Seq(Event)
           /\ InQueue' = InQueue \cup {evt}
           /\ \A i, j \in 1..Len(queue') : queue'[i] = queue'[j] => i = j
  <1>1. queue \in Seq(Event)
    BY DEF HostTypeOK, PipelineTypeOK
  <1>2. /\ queue' \in Seq(Event) /\ Len(queue') = Len(queue) + 1 /\ Len(queue) \in Nat
        /\ \A i \in 1..Len(queue) : queue'[i] = queue[i]
        /\ queue'[Len(queue) + 1] = evt
    BY <1>1
  <1>3. \A i \in 1..Len(queue') : i \in 1..Len(queue) \/ i = Len(queue) + 1
    BY <1>2
  <1>4. \A i \in 1..Len(queue) : queue[i] # evt /\ i \in 1..Len(queue')
    BY <1>2 DEF InQueue
  <1>5. InQueue' = InQueue \cup {evt}
    <2>1. Len(queue) + 1 \in 1..Len(queue')
      BY <1>2
    <2> QED
      BY <1>2, <1>3, <1>4, <2>1 DEF InQueue
  <1> QED
    BY <1>2, <1>3, <1>4, <1>5

LEMMA QueueTaken ==
    ASSUME HostTypeOK, queue # <<>>, queue' = Tail(queue),
           \A i, j \in 1..Len(queue) : queue[i] = queue[j] => i = j
    PROVE  /\ queue' \in Seq(Event)
           /\ Head(queue) \in InQueue /\ Head(queue) \in Event
           /\ InQueue' = InQueue \ {Head(queue)}
           /\ \A i, j \in 1..Len(queue') : queue'[i] = queue'[j] => i = j
  <1>1. queue \in Seq(Event) /\ queue # <<>>
    BY DEF HostTypeOK, PipelineTypeOK
  <1>2. /\ queue' \in Seq(Event) /\ Len(queue) \in Nat \ {0}
        /\ Len(queue') = Len(queue) - 1
        /\ \A i \in 1..Len(queue') : queue'[i] = queue[i + 1]
        /\ Head(queue) = queue[1] /\ queue[1] \in Event
    BY <1>1
  <1>3. \A i \in 1..Len(queue') : i + 1 \in 1..Len(queue) /\ i + 1 # 1
    BY <1>2
  <1>4. \A i \in 1..Len(queue) : i = 1 \/ (i - 1 \in 1..Len(queue') /\ (i - 1) + 1 = i)
    BY <1>2
  <1>5. 1 \in 1..Len(queue)
    BY <1>2
  <1>6. InQueue' \subseteq InQueue \ {Head(queue)}
    BY <1>2, <1>3, <1>5 DEF InQueue
  <1>7. InQueue \ {Head(queue)} \subseteq InQueue'
    BY <1>2, <1>4 DEF InQueue
  <1>8. ASSUME NEW i \in 1..Len(queue'), NEW j \in 1..Len(queue'), queue'[i] = queue'[j]
        PROVE  i = j
    <2>1. i + 1 = j + 1
      BY <1>2, <1>3, <1>8
    <2> QED
      BY <1>2, <2>1
  <1> QED
    BY <1>2, <1>5, <1>6, <1>7, <1>8 DEF InQueue

LEMMA JobBegun ==
    ASSUME HostTypeOK, NEW w \in Workers, pc[w] = "recv", NEW evt \in Event,
           job' = [job EXCEPT ![w] = evt],
           \A v \in Busy : job[v] # evt,
           \A u, v \in Busy : job[u] = job[v] => u = v
    PROVE  /\ Busy' = Busy \cup {w} /\ w \notin Busy
           /\ InWork' = InWork \cup {evt}
           /\ \A u, v \in Busy' : job'[u] = job'[v] => u = v
  <1>1. /\ w \notin Busy /\ job'[w] = evt /\ evt # NoEvent
        /\ \A v \in Workers : v # w => job'[v] = job[v]
    BY NoEventIsNone DEF HostTypeOK, PipelineTypeOK, Busy
  <1>2. Busy' = Busy \cup {w}
    BY <1>1 DEF Busy
  <1>3. \A v \in Busy : job'[v] = job[v]
    BY <1>1 DEF Busy
  <1> QED
    BY <1>1, <1>2, <1>3 DEF InWork

LEMMA JobEnded ==
    ASSUME HostTypeOK, NEW w \in Workers, pc[w] \in {"parse", "observe", "add"}, EndJob(w),
           \A u, v \in Busy : job[u] = job[v] => u = v
    PROVE  /\ w \in Busy /\ job[w] \in InWork /\ job[w] \in Event
           /\ InWork' = InWork \ {job[w]}
           /\ \A u, v \in Busy' : job'[u] = job'[v] => u = v
  <1>1. /\ w \in Busy /\ job[w] \in Event /\ job'[w] = NoEvent
        /\ \A v \in Workers : v # w => job'[v] = job[v]
    BY DEF HostTypeOK, PipelineTypeOK, Busy, EndJob
  <1>2. Busy' = Busy \ {w}
    BY <1>1 DEF Busy
  <1>3. \A v \in Busy' : job'[v] = job[v]
    BY <1>1, <1>2 DEF Busy
  <1> QED
    BY <1>1, <1>2, <1>3 DEF InWork

LEMMA IntakeReceive ==
    ASSUME Intake, NEW p \in Payloads, Receive(p)
    PROVE  Intake'
  <1> DEFINE evt == [seq |-> seq + 1, body |-> p]
  <1>1. /\ subscriber = "running" /\ seq < MaxSeq /\ seq' = seq + 1
        /\ received' = received \cup {evt} /\ TryEnqueue(evt)
        /\ UNCHANGED <<subscriber, phase>>
    BY DEF Receive
  <1>2. /\ UNCHANGED <<senders, pc, job, invalid, duplicates, observed, live>>
        /\ UNCHANGED <<added, stage>>
    BY <1>1 DEF TryEnqueue, aggregatorVars
  <1>3. evt \in Event /\ evt.seq = seq + 1
    BY <1>1, MaxSeqAssumption DEF Intake, Stamps, Event
  <1> HIDE DEF evt
  <1>4. \A n \in received : n.seq \in 1..seq
    BY DEF Intake, Stamps
  <1>5. evt \notin received /\ \A n \in received : n.seq # evt.seq
    BY <1>3, <1>4, MaxSeqAssumption DEF Intake, Stamps
  <1>6. Stamps'
    <2>1. IsFiniteSet(received') /\ Cardinality(received') = seq'
      BY <1>1, <1>5, FS_AddElement DEF Intake, Stamps
    <2>2. {n.seq : n \in received'} = {n.seq : n \in received} \cup {seq + 1}
      BY <1>1, <1>3
    <2>3. 1..seq' = 1..seq \cup {seq + 1}
      BY <1>1, MaxSeqAssumption DEF Intake, Stamps
    <2>4. \A n, m \in received' : n.seq = m.seq => n = m
      BY <1>1, <1>5 DEF Intake, Stamps
    <2>5. seq' \in 0..MaxSeq /\ received' \subseteq Event
      BY <1>1, <1>3, MaxSeqAssumption DEF Intake, Stamps
    <2> QED
      BY <2>1, <2>2, <2>3, <2>4, <2>5 DEF Intake, Stamps
  <1>7. UNCHANGED <<Busy, InWork>>
    BY <1>2 DEF Busy, InWork
  \* A worker that has ended found the intake closed.
  <1>8. \A w \in Workers : pc[w] # "ended"
    BY <1>1 DEF Intake, ClosedInOrder
  <1>9. ClosedInOrder'
    BY <1>1, <1>2, <1>8 DEF Intake, ClosedInOrder, WorkersEnded
  <1>10. CASE QueueHasRoom
    <2>1. queue' = Append(queue, evt) /\ dropped_queue_full' = dropped_queue_full
      BY <1>1, <1>10 DEF TryEnqueue
    <2>2. evt \notin InQueue
      BY <1>5 DEF Intake, IntakeApart
    <2>3. /\ queue' \in Seq(Event)
          /\ InQueue' = InQueue \cup {evt}
          /\ \A i, j \in 1..Len(queue') : queue'[i] = queue'[j] => i = j
      BY <1>3, <2>1, <2>2, QueueAppended DEF Intake, NoCopies
    <2>4. HostTypeOK'
      BY <1>1, <1>2, <2>1, <2>3 DEF Intake, HostTypeOK, PipelineTypeOK
    <2>5. IntakeApart'
      BY <1>1, <1>2, <1>5, <1>7, <2>1, <2>3 DEF Intake, IntakeApart, Handled
    <2>6. NoCopies'
      BY <1>2, <1>7, <2>3 DEF Intake, NoCopies
    <2> QED
      BY <1>6, <1>9, <2>4, <2>5, <2>6 DEF Intake
  <1>11. CASE ~QueueHasRoom
    <2>1. /\ dropped_queue_full' = dropped_queue_full \cup {evt}
          /\ UNCHANGED <<queue, InQueue>>
      BY <1>1, <1>11 DEF TryEnqueue, InQueue
    <2>2. HostTypeOK'
      BY <1>1, <1>2, <1>3, <2>1 DEF Intake, HostTypeOK, PipelineTypeOK
    <2>3. IntakeApart'
      BY <1>1, <1>2, <1>5, <1>7, <2>1 DEF Intake, IntakeApart, Handled
    <2>4. NoCopies'
      BY <1>2, <1>7, <2>1 DEF Intake, NoCopies
    <2> QED
      BY <1>6, <1>9, <2>2, <2>3, <2>4 DEF Intake
  <1> QED
    BY <1>10, <1>11

(* The steps of a worker; none of them changes what was received.          *)
LEMMA IntakeRecv ==
    ASSUME Intake, NEW w \in Workers, Recv(w), UNCHANGED hostVars
    PROVE  Intake'
  <1> DEFINE evt == Head(queue)
  <1>1. /\ pc[w] = "recv" /\ queue # <<>> /\ queue' = Tail(queue)
        /\ job' = [job EXCEPT ![w] = evt] /\ pc' = [pc EXCEPT ![w] = "parse"]
        /\ UNCHANGED <<senders, dropped_queue_full, invalid, duplicates, observed, live>>
        /\ UNCHANGED <<added, stage, seq, received, subscriber, phase>>
    BY DEF Recv, aggregatorVars, hostVars
  <1>2. /\ queue' \in Seq(Event)
        /\ evt \in InQueue /\ evt \in Event
        /\ InQueue' = InQueue \ {evt}
        /\ \A i, j \in 1..Len(queue') : queue'[i] = queue'[j] => i = j
    BY <1>1, QueueTaken DEF Intake, NoCopies
  <1> HIDE DEF evt
  <1>3. \A v \in Busy : job[v] # evt
    BY <1>2 DEF Intake, IntakeApart, InWork
  <1>4. /\ InWork' = InWork \cup {evt}
        /\ \A u, v \in Busy' : job'[u] = job'[v] => u = v
    BY <1>1, <1>2, <1>3, JobBegun DEF Intake, NoCopies
  <1>5. HostTypeOK'
    BY <1>1, <1>2, NoEventIsNone DEF Intake, HostTypeOK, PipelineTypeOK
  <1>6. IntakeApart'
    BY <1>1, <1>2, <1>4 DEF Intake, IntakeApart, Handled
  <1>7. ClosedInOrder'
    <2>1. pc \in [Workers -> {"recv", "parse", "observe", "add", "ended"}]
      BY DEF Intake, HostTypeOK, PipelineTypeOK
    <2>2. \A v \in Workers : pc[v] # "ended" /\ pc'[v] # "ended"
      BY <1>1, <2>1 DEF Intake, ClosedInOrder
    <2> QED
      BY <1>1, <2>2 DEF Intake, ClosedInOrder, WorkersEnded
  <1>8. Stamps' /\ NoCopies'
    BY <1>1, <1>2, <1>4 DEF Intake, Stamps, NoCopies
  <1> QED
    BY <1>5, <1>6, <1>7, <1>8 DEF Intake

(* A job that ends: the event goes to one of the sets of handled events.   *)
LEMMA IntakeJobEnds ==
    ASSUME Intake, NEW w \in Workers, pc[w] \in {"parse", "observe", "add"}, EndJob(w),
           UNCHANGED <<queue, senders, dropped_queue_full, observed, stage>>,
           UNCHANGED hostVars,
           \/ /\ invalid' = invalid \cup {job[w]} /\ UNCHANGED <<duplicates, added>>
           \/ /\ duplicates' = duplicates \cup {job[w]} /\ UNCHANGED <<invalid, added>>
           \/ /\ added' = added \cup {job[w]} /\ UNCHANGED <<invalid, duplicates>>,
           live' \subseteq live
    PROVE  Intake'
  <1>1. UNCHANGED <<seq, received, subscriber, phase, InQueue>>
    BY DEF hostVars, InQueue
  <1>2. /\ job[w] \in InWork /\ job[w] \in Event
        /\ InWork' = InWork \ {job[w]}
        /\ \A u, v \in Busy' : job'[u] = job'[v] => u = v
    BY JobEnded DEF Intake, NoCopies
  <1>3. HostTypeOK'
    BY <1>1, <1>2 DEF EndJob, Intake, HostTypeOK, PipelineTypeOK
  <1>4. IntakeApart'
    <2> DEFINE e == job[w]
    <2>1. e \in InWork /\ e \notin InQueue /\ e \notin Handled
      BY <1>2 DEF Intake, IntakeApart
    <2>2. Handled' = Handled \cup {e}
      BY DEF Handled
    <2> HIDE DEF e
    <2> QED
      BY <1>1, <1>2, <2>1, <2>2 DEF e, Intake, IntakeApart, Handled
  <1>5. ClosedInOrder'
    <2>1. pc \in [Workers -> {"recv", "parse", "observe", "add", "ended"}]
      BY DEF Intake, HostTypeOK, PipelineTypeOK
    <2>2. \A v \in Workers : pc'[v] = "ended" <=> pc[v] = "ended"
      BY <2>1 DEF EndJob
    <2> QED
      BY <1>1, <2>2 DEF Intake, ClosedInOrder, WorkersEnded
  <1>6. Stamps' /\ NoCopies'
    BY <1>1, <1>2 DEF Intake, Stamps, NoCopies
  <1> QED
    BY <1>3, <1>4, <1>5, <1>6 DEF Intake

LEMMA IntakeWorker ==
    ASSUME Intake, NEW w \in Workers, WorkerStep(w), UNCHANGED hostVars
    PROVE  Intake'
  <1>1. pc \in [Workers -> {"recv", "parse", "observe", "add", "ended"}]
    BY DEF Intake, HostTypeOK, PipelineTypeOK
  <1>2. CASE Recv(w)
    BY <1>2, IntakeRecv
  <1>3. CASE RejectInvalid(w)
    BY <1>3, IntakeJobEnds DEF RejectInvalid, aggregatorVars
  <1>4. CASE RejectDuplicate(w)
    BY <1>4, IntakeJobEnds DEF RejectDuplicate, Refuse, aggregatorVars
  <1>5. CASE HandOver(w)
    BY <1>5, IntakeJobEnds DEF HandOver, Add
  \* The other steps keep the events where they are.
  <1>6. ASSUME UNCHANGED <<queue, job, dropped_queue_full, invalid, duplicates, added>>
        PROVE  Stamps' /\ IntakeApart' /\ NoCopies'
    BY <1>6 DEF hostVars, Intake, Stamps, IntakeApart, NoCopies, Handled, InQueue, InWork,
                Busy
  <1>7. CASE PassFilter(w)
    <2>1. /\ pc[w] = "parse" /\ pc' = [pc EXCEPT ![w] = "observe"]
          /\ UNCHANGED <<queue, senders, job, dropped_queue_full, invalid, duplicates>>
          /\ UNCHANGED <<observed, added, stage, subscriber, phase>>
      BY <1>7 DEF PassFilter, aggregatorVars, hostVars
    <2>2. live' \subseteq DedupKeys
      <3>1. job[w] \in Event /\ job[w].body.valid
        BY <1>7, <2>1 DEF PassFilter, Intake, HostTypeOK, PipelineTypeOK
      <3>2. job[w].body.deduplication_key \in DedupKeys
        BY <3>1, PayloadsAssumption DEF Event
      <3> QED
        BY <1>7, <3>2 DEF PassFilter, Accept, Intake, HostTypeOK, PipelineTypeOK
    <2>3. HostTypeOK'
      BY <1>1, <2>1, <2>2 DEF Intake, HostTypeOK, PipelineTypeOK
    <2>4. ClosedInOrder'
      BY <1>1, <2>1 DEF Intake, ClosedInOrder, WorkersEnded
    <2> QED
      BY <1>6, <2>1, <2>3, <2>4 DEF Intake
  <1>8. CASE PublishObserved(w)
    <2>1. /\ pc[w] = "observe" /\ pc' = [pc EXCEPT ![w] = "add"]
          /\ observed' = observed \cup {job[w]}
          /\ UNCHANGED <<queue, senders, job, dropped_queue_full, invalid, duplicates>>
          /\ UNCHANGED <<live, added, stage, subscriber, phase>>
      BY <1>8 DEF PublishObserved, aggregatorVars, hostVars
    <2>2. job[w] \in Event
      BY <2>1 DEF Intake, HostTypeOK, PipelineTypeOK
    <2>3. HostTypeOK'
      BY <1>1, <2>1, <2>2 DEF Intake, HostTypeOK, PipelineTypeOK
    <2>4. ClosedInOrder'
      BY <1>1, <2>1 DEF Intake, ClosedInOrder, WorkersEnded
    <2> QED
      BY <1>6, <2>1, <2>3, <2>4 DEF Intake
  <1>9. CASE WorkerEnds(w)
    <2>1. /\ pc[w] = "recv" /\ pc' = [pc EXCEPT ![w] = "ended"]
          /\ senders = {} /\ queue = <<>>
          /\ UNCHANGED <<queue, senders, job, dropped_queue_full, invalid, duplicates>>
          /\ UNCHANGED <<observed, live, added, stage, subscriber, phase>>
      BY <1>9 DEF WorkerEnds, NoMoreEvents, aggregatorVars, hostVars
    <2>2. HostTypeOK'
      BY <1>1, <2>1 DEF Intake, HostTypeOK, PipelineTypeOK
    <2>3. ClosedInOrder'
      BY <1>1, <2>1 DEF Intake, ClosedInOrder, WorkersEnded
    <2> QED
      BY <1>6, <2>1, <2>2, <2>3 DEF Intake
  <1> QED
    BY <1>2, <1>3, <1>4, <1>5, <1>7, <1>8, <1>9 DEF WorkerStep

(* The end of the subscribe loop, the steps of shutdown and those of the   *)
(* aggregator leave every event of the intake where it is.                 *)
LEMMA HostKeepsEvents ==
    ASSUME \/ SubscriptionDies \/ BeginHostShutdown \/ HostStep \/ FlushReturns
           \/ AggregatorTask \/ AggregatorShutdown
    PROVE  UNCHANGED <<queue, pc, job, dropped_queue_full, invalid, duplicates, observed,
                       live, added, seq, received>>
  BY DEF SubscriptionDies, BeginHostShutdown, HostStep, FlushReturns, AggregatorTask,
         AggregatorShutdown, SubscriberEnds, ClosePipeline, PipelineDrained,
         AggregatorDone, BeginShutdown, TaskStep, ShutdownStep, WakeTimer, TimerFlush,
         SpawnRender, Show, ShowFails, AckSubmitted, ShutdownFlush, CloseRenders,
         Drained, DrainTimeout, hostVars, intakeVars, aggregatorVars

LEMMA IntakeHost ==
    ASSUME Intake,
           \/ SubscriptionDies \/ BeginHostShutdown \/ HostStep \/ FlushReturns
           \/ AggregatorTask \/ AggregatorShutdown
    PROVE  Intake'
  <1>1. UNCHANGED <<queue, pc, job, dropped_queue_full, invalid, duplicates, observed, live,
                    added, seq, received>>
    BY HostKeepsEvents
  <1>2. Stamps' /\ IntakeApart' /\ NoCopies'
    BY <1>1 DEF Intake, Stamps, IntakeApart, NoCopies, Handled, InQueue, InWork, Busy
  <1>3. HostTypeOK' /\ ClosedInOrder'
    <2> USE <1>1 DEF Intake, HostTypeOK, PipelineTypeOK, ClosedInOrder, WorkersEnded
    <2>1. CASE SubscriptionDies \/ BeginHostShutdown \/ FlushReturns
      BY <2>1 DEF SubscriptionDies, BeginHostShutdown, FlushReturns, intakeVars,
                  aggregatorVars
    <2>2. CASE HostStep
      BY <2>2 DEF HostStep, SubscriberEnds, ClosePipeline, PipelineDrained,
                  AggregatorDone, BeginShutdown, intakeVars, aggregatorVars
    <2>3. CASE AggregatorTask \/ AggregatorShutdown
      <3>1. stage' # "open" => stage # "open"
        BY <2>3 DEF AggregatorTask, AggregatorShutdown, TaskStep, ShutdownStep, WakeTimer,
                    TimerFlush, SpawnRender, Show, ShowFails, AckSubmitted, ShutdownFlush,
                    CloseRenders, Drained, DrainTimeout
      <3> QED
        BY <2>3, <3>1 DEF AggregatorTask, AggregatorShutdown, hostVars, intakeVars
    <2> QED
      BY <2>1, <2>2, <2>3
  <1> QED
    BY <1>2, <1>3 DEF Intake

LEMMA IntakeNext == Intake /\ [Next]_vars => Intake'
  <1> SUFFICES ASSUME Intake, [Next]_vars PROVE Intake'
    OBVIOUS
  <1>1. CASE UNCHANGED vars
    <2>1. /\ UNCHANGED <<queue, senders, pc, job, dropped_queue_full, invalid, duplicates>>
          /\ UNCHANGED <<observed, live, seq, received, subscriber, phase, added, stage>>
      BY <1>1 DEF vars, hostVars, intakeVars, aggregatorVars
    <2>2. HostTypeOK' /\ ClosedInOrder'
      BY <2>1 DEF Intake, HostTypeOK, PipelineTypeOK, ClosedInOrder, WorkersEnded
    <2>3. Stamps' /\ IntakeApart' /\ NoCopies'
      BY <2>1 DEF Intake, Stamps, IntakeApart, NoCopies, Handled, InQueue, InWork, Busy
    <2> QED
      BY <2>2, <2>3 DEF Intake
  <1>2. CASE Next
    BY <1>2, IntakeReceive, IntakeWorker, IntakeHost DEF Next, PipelineStep
  <1> QED
    BY <1>1, <1>2

LEMMA AlwaysIntake == Spec => []Intake
  BY IntakeInit, IntakeNext, PTL DEF Spec

-----------------------------------------------------------------------------
(* The host uses the aggregator as it must *)

LEMMA NextIsAggregatorStep ==
    Intake /\ [Next]_vars => [AggregatorNext]_aggregatorVars
  <1> SUFFICES ASSUME Intake, [Next]_vars
               PROVE  [AggregatorNext]_aggregatorVars
    OBVIOUS
  <1>1. CASE UNCHANGED vars
    BY <1>1 DEF vars
  <1>2. ASSUME NEW p \in Payloads, Receive(p)
        PROVE  UNCHANGED aggregatorVars
    BY <1>2 DEF Receive, TryEnqueue
  <1>3. CASE SubscriptionDies \/ BeginHostShutdown \/ FlushReturns
    BY <1>3 DEF SubscriptionDies, BeginHostShutdown, FlushReturns
  <1>4. CASE HostStep
    BY <1>4 DEF HostStep, SubscriberEnds, ClosePipeline, PipelineDrained,
                AggregatorDone, AggregatorNext
  <1>5. ASSUME NEW w \in Workers, PipelineStep(w)
        PROVE  [AggregatorNext]_aggregatorVars
    <2>1. CASE HandOver(w)
      <3>1. pc[w] = "add" /\ Add(job[w])
        BY <2>1 DEF HandOver
      <3>2. w \in Busy /\ job[w] \in Event
        BY <3>1 DEF Intake, HostTypeOK, PipelineTypeOK, Busy
      \* The worker is still there, so shutdown has not been called.
      <3>3. stage = "open"
        BY <3>1 DEF Intake, ClosedInOrder, WorkersEnded
      \* Its event is not the aggregator's yet, and stamps are unique.
      <3>4. \A m \in added : m.seq # job[w].seq
        <4>1. job[w] \in InWork /\ InWork \subseteq received /\ added \subseteq received
          BY <3>2 DEF Intake, IntakeApart, Handled, InWork
        <4>2. job[w] \notin added
          BY <4>1 DEF Intake, IntakeApart, Handled
        <4> QED
          BY <4>1, <4>2 DEF Intake, Stamps
      <3> QED
        BY <3>1, <3>2, <3>3, <3>4 DEF Submit, AggregatorNext
    <2>2. CASE Recv(w) \/ RejectInvalid(w) \/ RejectDuplicate(w) \/ PassFilter(w)
               \/ PublishObserved(w) \/ WorkerEnds(w)
      BY <2>2 DEF Recv, RejectInvalid, RejectDuplicate, PassFilter, PublishObserved,
                  WorkerEnds
    <2> QED
      BY <1>5, <2>1, <2>2 DEF PipelineStep, WorkerStep
  <1>6. CASE AggregatorTask \/ AggregatorShutdown
    BY <1>6 DEF AggregatorTask, AggregatorShutdown, AggregatorNext
  <1> QED
    BY <1>1, <1>2, <1>3, <1>4, <1>5, <1>6 DEF Next

(* The agent host implements the aggregator's specification: with any      *)
(* number of workers overtaking each other, an event is handed to          *)
(* Aggregator::add once, under a stamp no other event has, and never after *)
(* Aggregator::shutdown was called (host.rs, AgentHost::shutdown;          *)
(* pipeline.rs, process).                                                  *)
THEOREM HostImplementsAggregator == Spec => ImplementsAggregator
  <1>1. Init => AggregatorInit
    BY DEF Init, PipelineInit
  <1> QED
    BY <1>1, AlwaysIntake, NextIsAggregatorStep, PTL
       DEF Spec, AggregatorSpec, ImplementsAggregator

(* So what is proved of the aggregator holds in the host.                  *)
LEMMA AlwaysAggregator == Spec => [](AggregatorTypeOK /\ Accounted /\ Toasts)
  <1>1. AggregatorSpec => []Toasts
    BY AlwaysAccounted, AggregatorTypeCorrect, ToastsInit, ToastsNext, PTL
       DEF AggregatorSpec
  <1> QED
    BY <1>1, HostImplementsAggregator, AggregatorTypeCorrect, AlwaysAccounted, PTL
       DEF ImplementsAggregator

(* What is proved of the aggregator alone holds in the running agent.      *)
THEOREM AggregatorInHost ==
    Spec => [](/\ Conservation /\ AtMostOneToast
               /\ SupersededByNewer /\ OneReplaceableValue
               /\ TimerOwnsBucket /\ ShutdownEmptiesBuckets
               /\ AcksComplete /\ UniformToasts)
  BY HostImplementsAggregator, EventsConserved, DeliveredAtMostOnce,
     OnlyOlderEventsSuperseded, ToastShowsOneValue, TimersBelongToBuckets,
     ShutdownLeavesNoBucket, EndedTasksAcknowledged, ToastsAreUniform, PTL
     DEF ImplementsAggregator

-----------------------------------------------------------------------------
(* Types and conservation *)

(* The types of the agent's state; above all, arrival stamps are given in  *)
(* order, each to one event, and a worker has an event exactly while it    *)
(* processes one (host.rs, the subscribe loop; pipeline.rs).               *)
THEOREM HostTypeCorrect == Spec => []TypeOK
  <1>1. Intake /\ AggregatorTypeOK => TypeOK
    BY DEF Intake, HostTypeOK, Stamps, TypeOK
  <1> QED
    BY <1>1, AlwaysIntake, AlwaysAggregator, PTL

LEMMA QueueCardinality ==
    ASSUME queue \in Seq(Event),
           \A i, j \in 1..Len(queue) : queue[i] = queue[j] => i = j
    PROVE  Cardinality(InQueue) = Len(queue)
  <1> DEFINE D == 1..Len(queue)
             f == [i \in D |-> queue[i]]
  <1>1. Len(queue) \in Nat
    OBVIOUS
  <1>2. IsFiniteSet(D) /\ Cardinality(D) = Len(queue)
    <2>1. /\ IsFiniteSet(1..Len(queue))
          /\ Cardinality(1..Len(queue)) = IF 1 > Len(queue) THEN 0 ELSE Len(queue) - 1 + 1
      <3> DEFINE n == Len(queue)
      <3>1. 1 \in Int /\ n \in Int
        BY <1>1
      <3> HIDE DEF n
      <3>2. IsFiniteSet(1..n) /\ Cardinality(1..n) = IF 1 > n THEN 0 ELSE n - 1 + 1
        BY <3>1, FS_Interval
      <3> QED
        BY <3>2 DEF n
    <2> QED
      BY <1>1, <2>1
  <1>3. f \in Bijection(D, InQueue)
    BY DEF InQueue, Bijection, Injection, Surjection, IsInjective
  <1>4. ExistsBijection(D, InQueue)
    BY <1>3 DEF ExistsBijection
  <1> HIDE DEF D, f
  <1> QED
    BY <1>2, <1>4, FS_Bijection

(* Conservation in the intake: overload, bad payloads, duplicates and the  *)
(* concurrency of the workers never lose track of a received event, and    *)
(* none is queued or worked on twice (pipeline.rs, try_enqueue and         *)
(* process).                                                               *)
THEOREM IntakeConserved == Spec => []IntakeConservation
  <1>1. ASSUME Intake
        PROVE  IntakeConservation
    <2>1. /\ IntakePlaces[1] = InQueue /\ IntakePlaces[2] = InWork
          /\ IntakePlaces[3] = dropped_queue_full /\ IntakePlaces[4] = invalid
          /\ IntakePlaces[5] = duplicates /\ IntakePlaces[6] = added
      BY DEF IntakePlaces
    <2>2. \A i \in 1..6 : i = 1 \/ i = 2 \/ i = 3 \/ i = 4 \/ i = 5 \/ i = 6
      OBVIOUS
    <2>3. received = UNION {IntakePlaces[i] : i \in 1..6}
      <3>1. UNION {IntakePlaces[i] : i \in 1..6} \subseteq received
        BY <1>1, <2>1, <2>2 DEF Intake, IntakeApart, Handled
      <3>2. received \subseteq UNION {IntakePlaces[i] : i \in 1..6}
        BY <1>1, <2>1 DEF Intake, IntakeApart, Handled
      <3> QED
        BY <3>1, <3>2
    <2>4. ASSUME NEW i \in 1..6, NEW j \in 1..6, i # j
          PROVE  IntakePlaces[i] \cap IntakePlaces[j] = {}
      BY <1>1, <2>1, <2>2, <2>4 DEF Intake, IntakeApart, Handled
    <2>5. Cardinality(InQueue) = Len(queue)
      BY <1>1, QueueCardinality DEF Intake, HostTypeOK, PipelineTypeOK, NoCopies
    <2> QED
      BY <1>1, <2>3, <2>4, <2>5 DEF Intake, NoCopies, IntakeConservation
  <1> QED
    BY <1>1, AlwaysIntake, PTL

(* When every worker has ended, nothing is left in the intake.             *)
LEMMA EndedMeansDrained ==
    ASSUME Intake, WorkersEnded
    PROVE  received = dropped_queue_full \cup invalid \cup duplicates \cup added
  <1>1. queue = <<>>
    BY WorkersAssumption DEF Intake, ClosedInOrder, WorkersEnded
  <1>2. InQueue = {} /\ InWork = {}
    BY <1>1 DEF InQueue, InWork, Busy, Intake, HostTypeOK, PipelineTypeOK, WorkersEnded
  <1> QED
    BY <1>2 DEF Intake, IntakeApart, Handled

(* Graceful shutdown drains the intake: when the aggregator is shut down,  *)
(* every received event was counted as dropped, rejected or handed over,   *)
(* the ones the subscribe loop took after the cancellation included        *)
(* (host.rs, AgentHost::shutdown; pipeline.rs, Pipeline::shutdown).        *)
THEOREM ShutdownDrainsIntake == Spec => []IntakeDrained
  <1>1. Intake => IntakeDrained
    BY EndedMeansDrained DEF Intake, ClosedInOrder, IntakeDrained
  <1> QED
    BY <1>1, AlwaysIntake, PTL

-----------------------------------------------------------------------------
(* Acknowledgements *)

(* The observed ack of an event was tried before the event is handed over. *)
AddedObserved ==
    /\ added \subseteq observed
    /\ \A w \in Workers : pc[w] = "add" => job[w] \in observed

LEMMA AddedObservedNext ==
    Intake /\ AddedObserved /\ [Next]_vars => AddedObserved'
  <1> SUFFICES ASSUME Intake, AddedObserved, [Next]_vars
               PROVE  AddedObserved'
    OBVIOUS
  <1>1. CASE UNCHANGED <<added, observed, pc, job>>
    BY <1>1 DEF AddedObserved
  <1>2. CASE UNCHANGED vars
    BY <1>1, <1>2 DEF vars, intakeVars, aggregatorVars
  <1>3. ASSUME NEW p \in Payloads, Receive(p)
        PROVE  AddedObserved'
    BY <1>1, <1>3 DEF Receive, TryEnqueue, aggregatorVars
  <1>4. CASE \/ SubscriptionDies \/ BeginHostShutdown \/ HostStep \/ FlushReturns
             \/ AggregatorTask \/ AggregatorShutdown
    BY <1>1, <1>4, HostKeepsEvents
  <1>5. ASSUME NEW w \in Workers, WorkerStep(w)
        PROVE  AddedObserved'
    <2>1. /\ pc \in [Workers -> {"recv", "parse", "observe", "add", "ended"}]
          /\ job \in [Workers -> Event \cup {NoEvent}]
      BY DEF Intake, HostTypeOK, PipelineTypeOK
    <2>2. CASE Recv(w) \/ PassFilter(w) \/ PublishObserved(w) \/ WorkerEnds(w)
      BY <2>1, <2>2 DEF Recv, PassFilter, PublishObserved, WorkerEnds, aggregatorVars,
                        AddedObserved
    <2>3. CASE RejectInvalid(w) \/ RejectDuplicate(w)
      BY <2>1, <2>3 DEF RejectInvalid, RejectDuplicate, EndJob, aggregatorVars,
                        AddedObserved
    <2>4. CASE HandOver(w)
      BY <2>1, <2>4 DEF HandOver, Add, EndJob, AddedObserved
    <2> QED
      BY <1>5, <2>2, <2>3, <2>4 DEF WorkerStep
  <1> QED
    BY <1>2, <1>3, <1>4, <1>5 DEF Next, PipelineStep

LEMMA AlwaysAddedObserved == Spec => []AddedObserved
  <1>1. Init => AddedObserved
    BY DEF Init, PipelineInit, AggregatorInit, AddedObserved
  <1> QED
    BY <1>1, AlwaysIntake, AddedObservedNext, PTL DEF Spec

(* What was shown had been handed over.                                    *)
LEMMA ShownWasAdded ==
    ASSUME Accounted, Toasts, NEW n, IsShown(n)
    PROVE  n \in added
  <1>1. PICK i \in 1..Len(shown) : n \in shown[i]
    BY DEF IsShown
  <1>2. n \in finished \/ \E r \in renders : n \in r.sources
    BY <1>1 DEF Toasts, ShownElsewhere
  <1> QED
    BY <1>2 DEF Accounted, Cover, Gone, InRenders

(* An event is shown, and acknowledged as submitted, only after the        *)
(* publication of its observed ack has returned, although acks, timers and *)
(* render tasks run concurrently (pipeline.rs, process and                 *)
(* AckingRenderSink::render).                                              *)
THEOREM ObservedAckFirst == Spec => []ObservedBeforeShown
  <1>1. ASSUME Accounted, Toasts, AddedObserved
        PROVE  ObservedBeforeShown
    <2>1. ASSUME NEW n, IsShown(n)
          PROVE  n \in observed
      BY <1>1, <2>1, ShownWasAdded DEF AddedObserved
    <2>2. \A n \in submitted : IsShown(n)
      BY <1>1 DEF Toasts, AckedShown
    <2>3. submitted \subseteq observed
      BY <2>1, <2>2
    <2>4. UNION {shown[i] : i \in 1..Len(shown)} \subseteq observed
      BY <2>1 DEF IsShown
    <2> QED
      BY <2>3, <2>4 DEF ObservedBeforeShown
  <1> QED
    BY <1>1, AlwaysAggregator, AlwaysAddedObserved, PTL

-----------------------------------------------------------------------------
(* Duplicates *)

(* The events that passed the duplicate filter, up to the aggregator.      *)
Passed == added \cup {job[w] : w \in {v \in Workers : pc[v] \in {"observe", "add"}}}

(* DuplicateHasOriginal follows the keys: a key the filter knows is the    *)
(* key of an event that passed.                                            *)
LiveHasOriginal ==
    \A k \in live : \E n \in Passed : n.body.deduplication_key = k

(* Steps by which no event is lost on its way and no key becomes live.     *)
LEMMA OriginalsKept ==
    ASSUME LiveHasOriginal, DuplicateHasOriginal,
           Passed \subseteq Passed', live' \subseteq live, duplicates' = duplicates
    PROVE  LiveHasOriginal' /\ DuplicateHasOriginal'
  BY DEF LiveHasOriginal, DuplicateHasOriginal, Passed

LEMMA OriginalsWorker ==
    ASSUME Intake, LiveHasOriginal, DuplicateHasOriginal, NEW w \in Workers, WorkerStep(w)
    PROVE  LiveHasOriginal' /\ DuplicateHasOriginal'
  <1>1. /\ pc \in [Workers -> {"recv", "parse", "observe", "add", "ended"}]
        /\ job \in [Workers -> Event \cup {NoEvent}]
    BY DEF Intake, HostTypeOK, PipelineTypeOK
  <1>2. CASE Recv(w) \/ WorkerEnds(w) \/ PublishObserved(w)
    <2>1. Passed \subseteq Passed' /\ UNCHANGED <<live, duplicates>>
      BY <1>1, <1>2 DEF Recv, WorkerEnds, PublishObserved, Passed, aggregatorVars
    <2> QED
      BY <2>1, OriginalsKept
  <1>3. CASE RejectInvalid(w)
    <2>1. Passed \subseteq Passed' /\ UNCHANGED <<live, duplicates>>
      BY <1>1, <1>3 DEF RejectInvalid, EndJob, Passed, aggregatorVars
    <2> QED
      BY <2>1, OriginalsKept
  <1>4. CASE HandOver(w)
    <2>1. /\ added' = added \cup {job[w]} /\ UNCHANGED <<live, duplicates>>
          /\ pc' = [pc EXCEPT ![w] = "recv"] /\ job' = [job EXCEPT ![w] = NoEvent]
      BY <1>4 DEF HandOver, Add, EndJob
    <2>2. \A v \in Workers : v # w => pc'[v] = pc[v] /\ job'[v] = job[v]
      BY <1>1, <2>1
    <2>3. Passed \subseteq Passed'
      BY <2>1, <2>2 DEF Passed
    <2> QED
      BY <2>1, <2>3, OriginalsKept
  <1>5. CASE PassFilter(w)
    <2> DEFINE k == job[w].body.deduplication_key
    <2>1. /\ pc[w] = "parse" /\ pc' = [pc EXCEPT ![w] = "observe"]
          /\ UNCHANGED <<job, added, duplicates>>
          /\ live' \subseteq live \cup {k}
      BY <1>5 DEF PassFilter, Accept, aggregatorVars
    <2>2. Passed \subseteq Passed' /\ job[w] \in Passed'
      BY <1>1, <2>1 DEF Passed
    <2>3. LiveHasOriginal'
      BY <2>1, <2>2 DEF LiveHasOriginal
    <2>4. DuplicateHasOriginal'
      BY <2>1, <2>2 DEF DuplicateHasOriginal, Passed
    <2> QED
      BY <2>3, <2>4
  <1>6. CASE RejectDuplicate(w)
    <2> DEFINE d == job[w]
    <2>1. /\ pc[w] = "parse" /\ d.body.deduplication_key \in live
          /\ live' \subseteq live /\ duplicates' = duplicates \cup {d}
      BY <1>6 DEF RejectDuplicate, Refuse
    <2>2. Passed \subseteq Passed'
      BY <1>1, <1>6 DEF RejectDuplicate, EndJob, Passed, aggregatorVars
    <2>3. w \in Busy /\ d \in InWork
      BY <2>1 DEF Intake, HostTypeOK, PipelineTypeOK, Busy, InWork
    \* The event that made the key live is another one.
    <2>4. d \notin Passed
      <3>1. d \notin added
        BY <2>3 DEF Intake, IntakeApart, Handled
      <3>2. ASSUME NEW v \in Workers, pc[v] \in {"observe", "add"}
            PROVE  job[v] # d
        <4>1. v \in Busy /\ v # w
          BY <2>1, <3>2 DEF Intake, HostTypeOK, PipelineTypeOK, Busy
        <4> QED
          BY <2>3, <4>1 DEF Intake, NoCopies
      <3> QED
        BY <3>1, <3>2 DEF Passed
    <2>5. \E n \in Passed : n # d /\ n.body.deduplication_key = d.body.deduplication_key
      BY <2>1, <2>4 DEF LiveHasOriginal
    <2>6. LiveHasOriginal'
      BY <2>1, <2>2 DEF LiveHasOriginal
    <2> HIDE DEF d
    <2>7. DuplicateHasOriginal'
      BY <2>1, <2>2, <2>5 DEF DuplicateHasOriginal, Passed
    <2> QED
      BY <2>6, <2>7
  <1> QED
    BY <1>2, <1>3, <1>4, <1>5, <1>6 DEF WorkerStep

LEMMA OriginalsNext ==
    /\ Intake /\ LiveHasOriginal /\ DuplicateHasOriginal /\ [Next]_vars
    => LiveHasOriginal' /\ DuplicateHasOriginal'
  <1> SUFFICES ASSUME Intake, LiveHasOriginal, DuplicateHasOriginal, [Next]_vars
               PROVE  LiveHasOriginal' /\ DuplicateHasOriginal'
    OBVIOUS
  <1>1. CASE UNCHANGED <<added, live, duplicates, pc, job>>
    BY <1>1, OriginalsKept DEF Passed
  <1>2. CASE UNCHANGED vars
    BY <1>1, <1>2 DEF vars, intakeVars, aggregatorVars
  <1>3. ASSUME NEW p \in Payloads, Receive(p)
        PROVE  LiveHasOriginal' /\ DuplicateHasOriginal'
    BY <1>1, <1>3 DEF Receive, TryEnqueue, aggregatorVars
  <1>4. CASE \/ SubscriptionDies \/ BeginHostShutdown \/ HostStep \/ FlushReturns
             \/ AggregatorTask \/ AggregatorShutdown
    BY <1>1, <1>4, HostKeepsEvents
  <1> QED
    BY <1>2, <1>3, <1>4, OriginalsWorker DEF Next, PipelineStep

(* Suppression never costs a key its only notification: an event refused   *)
(* as a duplicate repeats the key of another event that passed the filter, *)
(* and a worker still has that one or the aggregator got it (pipeline.rs,  *)
(* process: the key is added only after parse_event accepted the event).   *)
THEOREM DuplicatesHaveOriginals == Spec => []DuplicateHasOriginal
  <1>1. Init => LiveHasOriginal /\ DuplicateHasOriginal
    BY DEF Init, PipelineInit, FilterInit, LiveHasOriginal, DuplicateHasOriginal
  <1> QED
    BY <1>1, AlwaysIntake, OriginalsNext, PTL DEF Spec

-----------------------------------------------------------------------------
(* At-most-once delivery *)

ShownEvents == UNION {shown[i] : i \in 1..Len(shown)}

DroppedEvents == dropped_queue_full \cup invalid \cup duplicates
                 \cup dropped_bucket_overflow \cup superseded \cup finished

HasStamp(S, s) == \E n \in S : n.seq = s

(* Status, as a function of what it depends on.                            *)
StatusFrom(last, Sh, Dr, s) ==
    IF s > last THEN "unsent"
    ELSE IF HasStamp(Sh, s) THEN "shown"
    ELSE IF HasStamp(Dr, s) THEN "dropped"
    ELSE "pending"

(* The variables of the abstract specification.                            *)
statusOf == [s \in 1..MaxSeq |-> Status(s)]
deliveryVars == <<statusOf, Alive>>

LEMMA StatusIs ==
    ASSUME seq \in Nat, seq' \in Nat, NEW s \in 1..MaxSeq
    PROVE  /\ Status(s) = StatusFrom(seq, ShownEvents, DroppedEvents, s)
           /\ Status(s)' = StatusFrom(seq', ShownEvents', DroppedEvents', s)
  BY MaxSeqAssumption DEF Status, StatusFrom, ShownEvents, DroppedEvents, HasStamp

LEMMA StatusOfIs ==
    ASSUME seq \in Nat, seq' \in Nat
    PROVE  /\ statusOf = [s \in 1..MaxSeq |-> StatusFrom(seq, ShownEvents, DroppedEvents, s)]
           /\ statusOf' =
                [s \in 1..MaxSeq |-> StatusFrom(seq', ShownEvents', DroppedEvents', s)]
  BY StatusIs DEF statusOf

(* More is dropped.  What had been shown before stays shown.               *)
LEMMA DropStep ==
    ASSUME seq \in Nat, UNCHANGED <<seq, ShownEvents, Alive>>, Alive,
           DroppedEvents \subseteq DroppedEvents'
    PROVE  [Delivery!DeliveryNext]_deliveryVars
  <1> DEFINE S == {s \in 1..MaxSeq : statusOf[s] = "pending" /\ HasStamp(DroppedEvents', s)}
  <1>1. ASSUME NEW s \in 1..MaxSeq
        PROVE  /\ statusOf[s] = StatusFrom(seq, ShownEvents, DroppedEvents, s)
               /\ statusOf'[s] = StatusFrom(seq, ShownEvents, DroppedEvents', s)
    BY StatusOfIs
  <1>2. ASSUME NEW s \in 1..MaxSeq
        PROVE  statusOf'[s] = IF s \in S THEN "dropped" ELSE statusOf[s]
    BY <1>1, MaxSeqAssumption DEF StatusFrom, HasStamp
  <1>3. statusOf' = [s \in 1..MaxSeq |-> IF s \in S THEN "dropped" ELSE statusOf[s]]
    <2> HIDE DEF S
    <2> QED
      BY <1>2, StatusOfIs
  <1>4. S \in SUBSET Delivery!Pending
    BY DEF Delivery!Pending, Delivery!Messages, statusOf
  <1> HIDE DEF S
  <1>5. CASE S = {}
    <2>1. statusOf' = statusOf
      BY <1>3, <1>5, StatusOfIs
    <2> QED
      BY <2>1 DEF deliveryVars
  <1>6. CASE S # {}
    <2>1. Delivery!Drop(S)
      BY <1>3, <1>6 DEF Delivery!Drop, Delivery!Become, Delivery!Messages, statusOf
    <2> QED
      BY <1>4, <2>1 DEF Delivery!DeliveryNext
  <1> QED
    BY <1>5, <1>6

(* A toast is shown for events that were neither shown nor dropped.        *)
LEMMA ShowStep ==
    ASSUME seq \in Nat, UNCHANGED <<seq, DroppedEvents, Alive>>, Alive,
           NEW batch, batch # {}, ShownEvents' = ShownEvents \cup batch,
           \A n \in batch : /\ n.seq \in 1..seq /\ n.seq \in 1..MaxSeq
                            /\ ~HasStamp(ShownEvents, n.seq)
                            /\ ~HasStamp(DroppedEvents, n.seq)
    PROVE  [Delivery!DeliveryNext]_deliveryVars
  <1> DEFINE S == {n.seq : n \in batch}
  <1>1. ASSUME NEW s \in 1..MaxSeq
        PROVE  /\ statusOf[s] = StatusFrom(seq, ShownEvents, DroppedEvents, s)
               /\ statusOf'[s] = StatusFrom(seq, ShownEvents', DroppedEvents, s)
    BY StatusOfIs
  <1>2. ASSUME NEW s \in S
        PROVE  s \in 1..MaxSeq /\ statusOf[s] = "pending" /\ statusOf'[s] = "shown"
    BY <1>1 DEF StatusFrom, HasStamp
  <1>3. ASSUME NEW s \in 1..MaxSeq, s \notin S
        PROVE  statusOf'[s] = statusOf[s]
    BY <1>1, <1>3 DEF StatusFrom, HasStamp
  <1>4. S # {}
    OBVIOUS
  <1> HIDE DEF S
  <1>5. statusOf' = [s \in 1..MaxSeq |-> IF s \in S THEN "shown" ELSE statusOf[s]]
    BY <1>2, <1>3, StatusOfIs
  <1>6. S \in SUBSET Delivery!Pending
    BY <1>2 DEF Delivery!Pending, Delivery!Messages, statusOf
  <1>7. Delivery!Deliver(S)
    BY <1>4, <1>5 DEF Delivery!Deliver, Delivery!Become, Delivery!Messages, statusOf
  <1> QED
    BY <1>6, <1>7 DEF Delivery!DeliveryNext

(* The next message arrives; it is pending, or dropped at once.            *)
LEMMA ArriveStep ==
    ASSUME seq \in Nat, seq < MaxSeq, seq' = seq + 1, UNCHANGED <<ShownEvents, Alive>>, Alive,
           \A n \in ShownEvents \cup DroppedEvents : n.seq \in 1..seq,
           NEW evt, evt.seq = seq + 1,
           DroppedEvents' = DroppedEvents \/ DroppedEvents' = DroppedEvents \cup {evt}
    PROVE  [Delivery!DeliveryNext]_deliveryVars
  <1> DEFINE new == seq + 1
  <1>1. ASSUME NEW s \in 1..MaxSeq
        PROVE  /\ statusOf[s] = StatusFrom(seq, ShownEvents, DroppedEvents, s)
               /\ statusOf'[s] = StatusFrom(seq + 1, ShownEvents, DroppedEvents', s)
    <2>1. seq' \in Nat
      OBVIOUS
    <2>2. /\ statusOf = [r \in 1..MaxSeq |-> StatusFrom(seq, ShownEvents, DroppedEvents, r)]
          /\ statusOf' =
               [r \in 1..MaxSeq |-> StatusFrom(seq', ShownEvents', DroppedEvents', r)]
      BY <2>1, StatusOfIs
    <2> QED
      BY <2>2
  <1>2. new \in 1..MaxSeq
    BY MaxSeqAssumption
  <1>3. statusOf[new] = "unsent"
    BY <1>1, <1>2 DEF StatusFrom
  <1>4. \A r \in 1..(new - 1) : r \in 1..MaxSeq /\ statusOf[r] # "unsent"
    <2> SUFFICES ASSUME NEW r \in 1..(new - 1)
                 PROVE  r \in 1..MaxSeq /\ statusOf[r] # "unsent"
      OBVIOUS
    <2>1. r \in 1..MaxSeq /\ ~(r > seq)
      BY MaxSeqAssumption
    <2> QED
      BY <1>1, <2>1 DEF StatusFrom
  <1>5. ASSUME NEW s \in 1..MaxSeq, s # new
        PROVE  statusOf'[s] = statusOf[s]
    <2>1. (s > seq + 1) <=> (s > seq)
      BY <1>5, MaxSeqAssumption
    <2>2. HasStamp(DroppedEvents', s) <=> HasStamp(DroppedEvents, s)
      BY <1>5 DEF HasStamp
    <2> QED
      BY <1>1, <2>1, <2>2 DEF StatusFrom
  <1>6. statusOf'[new] \in {"pending", "dropped"}
    <2>1. ~(new > seq + 1) /\ ~HasStamp(ShownEvents, new)
      BY MaxSeqAssumption DEF HasStamp
    <2> QED
      BY <1>1, <1>2, <2>1 DEF StatusFrom
  <1>7. PICK what \in {"pending", "dropped"} : statusOf'[new] = what
    BY <1>6
  <1> HIDE DEF new
  <1>8. statusOf' = [s \in 1..MaxSeq |-> IF s \in {new} THEN what ELSE statusOf[s]]
    <2>1. seq' \in Nat
      OBVIOUS
    <2>2. statusOf' =
               [r \in 1..MaxSeq |-> StatusFrom(seq', ShownEvents', DroppedEvents', r)]
      BY <2>1, StatusOfIs
    <2> QED
      BY <1>2, <1>5, <1>7, <2>2
  <1>9. Delivery!Arrive(new)
    BY <1>2, <1>3, <1>4, <1>7, <1>8
       DEF Delivery!Arrive, Delivery!Become, Delivery!Messages, statusOf
  <1> QED
    BY <1>2, <1>9 DEF Delivery!DeliveryNext, Delivery!Messages

(* The process ends.                                                       *)
LEMMA StopStep ==
    ASSUME seq \in Nat, UNCHANGED <<seq, ShownEvents, DroppedEvents>>, Alive, ~Alive'
    PROVE  [Delivery!DeliveryNext]_deliveryVars
  <1>1. statusOf' = statusOf
    BY StatusOfIs
  <1>2. Delivery!Stop
    BY <1>1 DEF Delivery!Stop, statusOf
  <1> QED
    BY <1>2 DEF Delivery!DeliveryNext

(* Steps that neither receive nor show: at most, more is dropped.          *)
LEMMA QuietStep ==
    ASSUME seq \in Nat, UNCHANGED <<seq, shown, phase>>, Alive,
           /\ dropped_queue_full \subseteq dropped_queue_full'
           /\ invalid \subseteq invalid' /\ duplicates \subseteq duplicates'
           /\ dropped_bucket_overflow \subseteq dropped_bucket_overflow'
           /\ superseded \subseteq superseded' /\ finished \subseteq finished'
    PROVE  [Delivery!DeliveryNext]_deliveryVars
  <1>1. UNCHANGED <<ShownEvents, Alive>>
    BY DEF ShownEvents, Alive
  <1>2. DroppedEvents \subseteq DroppedEvents'
    BY DEF DroppedEvents
  <1> QED
    BY <1>1, <1>2, DropStep

LEMMA OutcomesReceived ==
    ASSUME Intake, Accounted, Toasts
    PROVE  ShownEvents \subseteq received /\ DroppedEvents \subseteq received
  <1>1. added \subseteq received
    BY DEF Intake, IntakeApart, Handled
  <1>2. ShownEvents \subseteq added
    BY ShownWasAdded DEF ShownEvents, IsShown
  <1>3. DroppedEvents \subseteq received
    BY <1>1 DEF DroppedEvents, Accounted, Cover, Gone, Intake, IntakeApart, Handled
  <1> QED
    BY <1>1, <1>2, <1>3

LEMMA DeliveryWorker ==
    ASSUME seq \in Nat, NEW w \in Workers, PipelineStep(w)
    PROVE  [Delivery!DeliveryNext]_deliveryVars
  <1>1. Alive /\ UNCHANGED <<seq, phase>> /\ WorkerStep(w)
    BY DEF PipelineStep, hostVars
  <1>2. CASE Recv(w) \/ PassFilter(w) \/ PublishObserved(w) \/ WorkerEnds(w)
    BY <1>1, <1>2, QuietStep
       DEF Recv, PassFilter, PublishObserved, WorkerEnds, aggregatorVars
  <1>3. CASE RejectInvalid(w) \/ RejectDuplicate(w)
    BY <1>1, <1>3, QuietStep DEF RejectInvalid, RejectDuplicate, aggregatorVars
  <1>4. CASE HandOver(w)
    <2>1. UNCHANGED <<shown, finished, dropped_queue_full, invalid, duplicates>>
      BY <1>4 DEF HandOver, Add, sinkVars
    <2>2. /\ superseded \subseteq superseded'
          /\ dropped_bucket_overflow \subseteq dropped_bucket_overflow'
      BY <1>4 DEF HandOver, Add, AddCritical, AddToBucket, AddOverflow, AddNewBucket
    <2> QED
      BY <1>1, <2>1, <2>2, QuietStep
  <1> QED
    BY <1>1, <1>2, <1>3, <1>4 DEF WorkerStep

(* A render task shows events that the aggregator has, and that no other   *)
(* toast, and none of the places of dropped events, has.                   *)
LEMMA DeliveryShow ==
    ASSUME Intake, AggregatorTypeOK, Accounted, Toasts, Alive, UNCHANGED <<hostVars, intakeVars>>,
           NEW r \in renders, Show(r)
    PROVE  [Delivery!DeliveryNext]_deliveryVars
  <1> DEFINE batch == r.sources
  <1>1. /\ shown' = Append(shown, batch)
        /\ UNCHANGED <<dropped_bucket_overflow, superseded, finished>>
    BY DEF Show
  <1>2. /\ UNCHANGED <<seq, phase, dropped_queue_full, invalid, duplicates>>
        /\ seq \in Nat
    BY MaxSeqAssumption DEF hostVars, intakeVars, Intake, Stamps
  <1>3. UNCHANGED <<DroppedEvents, Alive>>
    BY <1>1, <1>2 DEF DroppedEvents, Alive
  <1>4. batch # {} /\ batch \subseteq Event /\ batch \subseteq InRenders
    BY DEF AggregatorTypeOK, RendersOK, InRenders
  <1>5. ShownEvents' = ShownEvents \cup batch
    <2>1. /\ Len(shown') = Len(shown) + 1 /\ Len(shown) \in Nat
          /\ \A i \in 1..Len(shown) : shown'[i] = shown[i]
          /\ shown'[Len(shown) + 1] = batch
      BY <1>1, <1>4 DEF AggregatorTypeOK
    <2>2. 1..Len(shown') = 1..Len(shown) \cup {Len(shown) + 1}
      BY <2>1
    <2> HIDE DEF batch
    <2> QED
      BY <2>1, <2>2 DEF ShownEvents
  <1>6. batch \subseteq added /\ added \subseteq received
    BY <1>4 DEF Accounted, Cover, Intake, IntakeApart, Handled
  <1>7. batch \cap DroppedEvents = {}
    BY <1>4, <1>6 DEF DroppedEvents, Accounted, PlacesApart, Gone, Intake, IntakeApart
  <1>8. batch \cap ShownEvents = {}
    <2> SUFFICES ASSUME NEW n \in batch, NEW i \in 1..Len(shown), n \in shown[i]
                 PROVE  FALSE
      BY DEF ShownEvents
    <2>1. n \notin finished
      BY <1>4 DEF Accounted, PlacesApart, Gone
    <2>2. PICK s \in renders : s.shown /\ n \in s.sources
      BY <2>1 DEF Toasts, ShownElsewhere
    <2>3. s # r
      BY <2>2 DEF Show
    <2> QED
      BY <2>2, <2>3 DEF Accounted, HoldersApart
  <1>9. ShownEvents \subseteq received /\ DroppedEvents \subseteq received
    BY OutcomesReceived
  \* Stamps are unique, so what holds of the events holds of their stamps.
  <1>10. \A n \in batch : /\ n.seq \in 1..seq /\ n.seq \in 1..MaxSeq
                          /\ ~HasStamp(ShownEvents, n.seq)
                          /\ ~HasStamp(DroppedEvents, n.seq)
    <2> HIDE DEF batch
    <2> SUFFICES ASSUME NEW n \in batch
                 PROVE  /\ n.seq \in 1..seq /\ n.seq \in 1..MaxSeq
                        /\ ~HasStamp(ShownEvents, n.seq)
                        /\ ~HasStamp(DroppedEvents, n.seq)
      OBVIOUS
    <2>1. n \in received /\ n \notin ShownEvents /\ n \notin DroppedEvents
      BY <1>6, <1>7, <1>8
    <2>2. n.seq \in 1..seq /\ n.seq \in 1..MaxSeq
      BY <2>1 DEF Intake, Stamps, Event
    <2>3. \A m \in received : m.seq = n.seq => m = n
      BY <2>1 DEF Intake, Stamps
    <2> QED
      BY <1>9, <2>1, <2>2, <2>3 DEF HasStamp
  <1> HIDE DEF batch
  <1> QED
    BY <1>2, <1>3, <1>4, <1>5, <1>10, ShowStep

LEMMA DeliveryAggregator ==
    ASSUME Intake, AggregatorTypeOK, Accounted, Toasts,
           AggregatorTask \/ AggregatorShutdown
    PROVE  [Delivery!DeliveryNext]_deliveryVars
  <1>1. /\ Alive /\ UNCHANGED <<hostVars, intakeVars>>
        /\ UNCHANGED <<seq, phase, dropped_queue_full, invalid, duplicates>>
    BY DEF AggregatorTask, AggregatorShutdown, hostVars, intakeVars
  <1>2. seq \in Nat
    BY MaxSeqAssumption DEF Intake, Stamps
  <1>3. ASSUME NEW r \in renders, Show(r)
        PROVE  [Delivery!DeliveryNext]_deliveryVars
    BY <1>1, <1>3, DeliveryShow
  <1>4. ASSUME NEW t \in timers, WakeTimer(t) \/ TimerFlush(t)
        PROVE  [Delivery!DeliveryNext]_deliveryVars
    BY <1>1, <1>2, <1>4, QuietStep DEF WakeTimer, TimerFlush, sinkVars
  <1>5. ASSUME NEW batch \in flushing, SpawnRender(batch)
        PROVE  [Delivery!DeliveryNext]_deliveryVars
    BY <1>1, <1>2, <1>5, QuietStep DEF SpawnRender, sinkVars
  <1>6. ASSUME NEW r \in renders, ShowFails(r) \/ AckSubmitted(r)
        PROVE  [Delivery!DeliveryNext]_deliveryVars
    <2>1. /\ finished \subseteq finished'
          /\ UNCHANGED <<shown, superseded, dropped_bucket_overflow>>
      BY <1>6 DEF ShowFails, AckSubmitted
    <2> QED
      BY <1>1, <1>2, <2>1, QuietStep
  <1>7. CASE AggregatorShutdown
    BY <1>1, <1>2, <1>7, QuietStep DEF AggregatorShutdown, ShutdownStep, ShutdownFlush,
                                       CloseRenders, Drained, DrainTimeout, sinkVars
  <1> QED
    BY <1>3, <1>4, <1>5, <1>6, <1>7 DEF AggregatorTask, TaskStep

LEMMA DeliveryReceive ==
    ASSUME Intake, Accounted, Toasts, Alive, NEW p \in Payloads, Receive(p)
    PROVE  [Delivery!DeliveryNext]_deliveryVars
  <1> DEFINE evt == [seq |-> seq + 1, body |-> p]
  <1>1. /\ seq < MaxSeq /\ seq' = seq + 1 /\ TryEnqueue(evt) /\ UNCHANGED phase
        /\ evt.seq = seq + 1
    BY DEF Receive
  <1> HIDE DEF evt
  <1>2. seq \in Nat
    BY MaxSeqAssumption DEF Intake, Stamps
  <1>3. UNCHANGED <<ShownEvents, Alive>>
    BY <1>1 DEF TryEnqueue, aggregatorVars, ShownEvents, Alive
  <1>4. DroppedEvents' = DroppedEvents \/ DroppedEvents' = DroppedEvents \cup {evt}
    BY <1>1 DEF TryEnqueue, aggregatorVars, DroppedEvents
  <1>5. ShownEvents \subseteq received /\ DroppedEvents \subseteq received
    BY OutcomesReceived
  <1>6. \A n \in ShownEvents \cup DroppedEvents : n.seq \in 1..seq
    BY <1>5 DEF Intake, Stamps
  <1> QED
    BY <1>1, <1>2, <1>3, <1>4, <1>6, ArriveStep

LEMMA NextIsDeliveryStep ==
    /\ Intake /\ AggregatorTypeOK /\ Accounted /\ Toasts /\ [Next]_vars
    => [Delivery!DeliveryNext]_deliveryVars
  <1> SUFFICES ASSUME Intake, AggregatorTypeOK, Accounted, Toasts, [Next]_vars
               PROVE  [Delivery!DeliveryNext]_deliveryVars
    OBVIOUS
  <1>1. seq \in Nat
    BY MaxSeqAssumption DEF Intake, Stamps
  \* Steps that leave alone what Status depends on.
  <1>2. ASSUME UNCHANGED <<seq, shown, dropped_queue_full, invalid, duplicates>>,
               UNCHANGED <<dropped_bucket_overflow, superseded, finished>>
        PROVE  UNCHANGED <<seq, ShownEvents, DroppedEvents, statusOf>>
    <2>1. UNCHANGED <<seq, ShownEvents, DroppedEvents>>
      BY <1>2 DEF ShownEvents, DroppedEvents
    <2> QED
      BY <1>1, <2>1, StatusOfIs
  <1>3. CASE UNCHANGED vars
    <2>1. UNCHANGED <<statusOf, Alive>>
      BY <1>2, <1>3 DEF vars, hostVars, intakeVars, aggregatorVars, Alive
    <2> QED
      BY <2>1 DEF deliveryVars
  <1>4. CASE (Alive /\ SubscriptionDies) \/ FlushReturns
    <2>1. UNCHANGED <<seq, ShownEvents, DroppedEvents>>
      BY <1>2, <1>4 DEF SubscriptionDies, FlushReturns, intakeVars, aggregatorVars
    <2>2. Alive /\ ~Alive'
      BY <1>4 DEF SubscriptionDies, FlushReturns, Alive
    <2> QED
      BY <1>1, <2>1, <2>2, StopStep
  <1>5. CASE BeginHostShutdown \/ HostStep
    <2>1. UNCHANGED statusOf
      BY <1>2, <1>5 DEF BeginHostShutdown, HostStep, SubscriberEnds, ClosePipeline,
                        PipelineDrained, AggregatorDone, BeginShutdown, intakeVars,
                        aggregatorVars, sinkVars
    <2>2. Alive /\ Alive'
      BY <1>5 DEF BeginHostShutdown, HostStep, SubscriberEnds, ClosePipeline,
                  PipelineDrained, AggregatorDone, Alive
    <2> QED
      BY <2>1, <2>2 DEF deliveryVars
  <1>6. CASE \E p \in Payloads : Alive /\ Receive(p)
    BY <1>6, DeliveryReceive
  <1>7. CASE \E w \in Workers : PipelineStep(w)
    BY <1>1, <1>7, DeliveryWorker
  <1>8. CASE AggregatorTask \/ AggregatorShutdown
    BY <1>8, DeliveryAggregator
  <1> QED
    BY <1>3, <1>4, <1>5, <1>6, <1>7, <1>8 DEF Next

(* The agent implements at-most-once delivery: messages arrive in order,   *)
(* and through queue, workers, buckets, timers, render tasks and shutdown  *)
(* each is shown or dropped, at most one of the two and at most once, and  *)
(* never after the process has ended (the whole of notify-agent-core, from *)
(* the subscribe loop to AckingRenderSink::render).                        *)
THEOREM HostImplementsDelivery == Spec => ImplementsDelivery
  <1>1. Init => Delivery!DeliveryInit
    <2> SUFFICES ASSUME Init PROVE Delivery!DeliveryInit
      OBVIOUS
    <2>1. seq = 0 /\ Alive
      BY DEF Init, Alive
    <2>2. \A s \in 1..MaxSeq : Status(s) = "unsent"
      BY <2>1, MaxSeqAssumption DEF Status
    <2> QED
      BY <2>1, <2>2 DEF Delivery!DeliveryInit, Delivery!Messages
  <1>2. /\ Intake /\ AggregatorTypeOK /\ Accounted /\ Toasts /\ [Next]_vars
        => [Delivery!DeliveryNext]_<<[s \in 1..MaxSeq |-> Status(s)], Alive>>
    BY NextIsDeliveryStep DEF deliveryVars, statusOf
  <1> QED
    BY <1>1, <1>2, AlwaysIntake, AlwaysAggregator, PTL
       DEF Spec, ImplementsDelivery, Delivery!DeliverySpec

-----------------------------------------------------------------------------
(* What a step of the agent may never do *)

(* What has become of a message is final: a shown one is never shown       *)
(* again or dropped, a dropped one (refused, superseded, failed, no room)  *)
(* never shown.                                                            *)
FateIsFinal ==
    [][\A s \in 1..MaxSeq :
          Status(s) \in {"shown", "dropped"} => Status(s)' = Status(s)]_vars

(* The fate of a message is final, whichever of the workers, timers,       *)
(* render tasks and shutdown touches it next: no step of the specification *)
(* of delivery, which the agent implements, takes a message back (the      *)
(* whole of notify-agent-core).                                            *)
THEOREM FatesAreFinal == Spec => FateIsFinal
  <1>1. ASSUME Intake, AggregatorTypeOK, Accounted, Toasts, [Next]_vars,
               NEW s \in 1..MaxSeq, Status(s) \in {"shown", "dropped"}
        PROVE  Status(s)' = Status(s)
    <2>1. [Delivery!DeliveryNext]_deliveryVars
      BY <1>1, NextIsDeliveryStep
    <2>2. statusOf[s] = Status(s) /\ statusOf'[s] = Status(s)'
      BY DEF statusOf
    <2>3. CASE UNCHANGED deliveryVars
      BY <2>2, <2>3 DEF deliveryVars
    <2>4. ASSUME NEW S, NEW what,
                 statusOf' = [r \in 1..MaxSeq |-> IF r \in S THEN what ELSE statusOf[r]],
                 s \notin S
          PROVE  Status(s)' = Status(s)
      BY <2>2, <2>4
    <2>5. ASSUME NEW r \in 1..MaxSeq, Delivery!Arrive(r)
          PROVE  Status(s)' = Status(s)
      <3>1. s \notin {r}
        BY <1>1, <2>5 DEF Delivery!Arrive
      <3>2. \E what : statusOf' = [q \in 1..MaxSeq |-> IF q \in {r} THEN what ELSE statusOf[q]]
        BY <2>5 DEF Delivery!Arrive, Delivery!Become, Delivery!Messages, statusOf
      <3> QED BY <2>4, <3>1, <3>2
    <2>6. ASSUME NEW S \in SUBSET Delivery!Pending, Delivery!Deliver(S) \/ Delivery!Drop(S)
          PROVE  Status(s)' = Status(s)
      <3>1. s \notin S
        BY <1>1, <2>6 DEF Delivery!Pending, Delivery!Messages
      <3>2. \E what : statusOf' = [q \in 1..MaxSeq |-> IF q \in S THEN what ELSE statusOf[q]]
        BY <2>6 DEF Delivery!Deliver, Delivery!Drop, Delivery!Become, Delivery!Messages,
                    statusOf
      <3> QED BY <2>4, <3>1, <3>2
    <2>7. CASE Delivery!Stop
      BY <2>2, <2>7 DEF Delivery!Stop, statusOf
    <2> QED
      BY <2>1, <2>3, <2>5, <2>6, <2>7 DEF Delivery!DeliveryNext, Delivery!Messages
  <1>2. /\ Intake /\ AggregatorTypeOK /\ Accounted /\ Toasts /\ [Next]_vars
        => [\A s \in 1..MaxSeq :
               Status(s) \in {"shown", "dropped"} => Status(s)' = Status(s)]_vars
    BY <1>1
  <1> QED
    BY <1>2, AlwaysIntake, AlwaysAggregator, PTL DEF Spec, FateIsFinal

LEMMA NextIsFilterStep == Intake /\ [Next]_vars => [FilterNext]_live
  <1> SUFFICES ASSUME Intake, [Next]_vars PROVE [FilterNext]_live
    OBVIOUS
  <1>1. CASE UNCHANGED vars
    BY <1>1 DEF vars, intakeVars
  <1>2. CASE \/ SubscriptionDies \/ BeginHostShutdown \/ HostStep \/ FlushReturns
             \/ AggregatorTask \/ AggregatorShutdown
    BY <1>2, HostKeepsEvents
  <1>3. ASSUME NEW p \in Payloads, Receive(p)
        PROVE  UNCHANGED live
    BY <1>3 DEF Receive, TryEnqueue
  <1>4. ASSUME NEW w \in Workers, WorkerStep(w)
        PROVE  [FilterNext]_live
    <2>1. CASE RejectDuplicate(w) \/ PassFilter(w)
      <3>1. pc[w] = "parse" /\ job[w].body.valid
        BY <2>1 DEF RejectDuplicate, PassFilter
      <3>2. job[w] \in Event
        BY <3>1 DEF Intake, HostTypeOK, PipelineTypeOK
      <3>3. job[w].body.deduplication_key \in DedupKeys
        BY <3>1, <3>2, PayloadsAssumption DEF Event
      <3> QED
        BY <2>1, <3>3 DEF RejectDuplicate, PassFilter, FilterNext
    <2>2. CASE Recv(w) \/ RejectInvalid(w) \/ PublishObserved(w) \/ HandOver(w)
               \/ WorkerEnds(w)
      BY <2>2 DEF Recv, RejectInvalid, PublishObserved, HandOver, WorkerEnds
    <2> QED BY <1>4, <2>1, <2>2 DEF WorkerStep
  <1> QED
    BY <1>1, <1>2, <1>3, <1>4 DEF Next, PipelineStep

(* The workers use the duplicate filter as its specification says: one     *)
(* call at a time, with a key of an event that parse_event accepted; only  *)
(* these calls change it.  DedupCache implements the same specification,   *)
(* so it can stand where the filter does (pipeline.rs, process).           *)
THEOREM HostImplementsFilter == Spec => FilterSpec
  <1>1. Init => FilterInit
    BY DEF Init, PipelineInit
  <1> QED
    BY <1>1, NextIsFilterStep, AlwaysIntake, PTL DEF Spec, FilterSpec

-----------------------------------------------------------------------------
(* Limits *)

(* What an agent under load keeps of messages it has not shown: the queue, *)
(* the keys of the duplicate filter and the open buckets stay within their *)
(* limits.                                                                 *)
ResourcesBounded ==
    /\ Len(queue) <= QueueCapacity
    /\ Cardinality(live) <= DedupCapacity
    /\ Cardinality(DOMAIN buckets) <= MaxBuckets

LimitsInv ==
    /\ ResourcesBounded
    /\ IsFiniteSet(live) /\ IsFiniteSet(DOMAIN buckets)

LEMMA QueueLimit ==
    ASSUME Intake, ResourcesBounded, Next
    PROVE  Len(queue') <= QueueCapacity
  <1>1. queue \in Seq(Event) /\ Len(queue) \in Nat
    BY DEF Intake, HostTypeOK, PipelineTypeOK
  <1>2. CASE queue' = queue
    BY <1>2 DEF ResourcesBounded
  <1>3. ASSUME NEW p \in Payloads, Receive(p)
        PROVE  Len(queue') <= QueueCapacity
    <2>1. CASE QueueHasRoom
      <3>1. \E evt : queue' = Append(queue, evt)
        BY <1>3, <2>1 DEF Receive, TryEnqueue
      <3>2. Len(queue') = Len(queue) + 1
        BY <1>1, <3>1
      <3> QED BY <1>1, <2>1, <3>2, QueueCapacityAssumption DEF QueueHasRoom
    <2>2. CASE ~QueueHasRoom
      BY <1>2, <1>3, <2>2 DEF Receive, TryEnqueue
    <2> QED BY <2>1, <2>2
  <1>4. ASSUME NEW w \in Workers, WorkerStep(w)
        PROVE  Len(queue') <= QueueCapacity
    <2>1. CASE Recv(w)
      <3>1. queue' = Tail(queue) /\ queue # <<>>
        BY <2>1 DEF Recv
      <3>2. Len(queue') = Len(queue) - 1
        BY <1>1, <3>1
      <3> QED BY <1>1, <3>2, QueueCapacityAssumption DEF ResourcesBounded
    <2>2. CASE RejectInvalid(w) \/ RejectDuplicate(w) \/ PassFilter(w)
               \/ PublishObserved(w) \/ HandOver(w) \/ WorkerEnds(w)
      BY <1>2, <2>2 DEF RejectInvalid, RejectDuplicate, PassFilter, PublishObserved,
                        HandOver, WorkerEnds
    <2> QED BY <1>4, <2>1, <2>2 DEF WorkerStep
  <1> QED
    BY <1>2, <1>3, <1>4, HostKeepsEvents DEF Next, PipelineStep

LEMMA FilterLimit ==
    ASSUME IsFiniteSet(live), Cardinality(live) <= DedupCapacity, [FilterNext]_live
    PROVE  IsFiniteSet(live') /\ Cardinality(live') <= DedupCapacity
  <1>1. CASE live' = live
    BY <1>1
  <1>2. ASSUME NEW k \in DedupKeys, Accept(k)
        PROVE  IsFiniteSet(live') /\ Cardinality(live') <= DedupCapacity
    <2>1. PICK forgotten \in SUBSET live :
             live' = (live \ forgotten) \cup {k} /\ Cardinality(live') <= DedupCapacity
      BY <1>2 DEF Accept
    <2>2. IsFiniteSet(live \ forgotten)
      BY FS_Subset
    <2> QED BY <2>1, <2>2, FS_AddElement
  <1>3. ASSUME NEW k \in DedupKeys, Refuse(k)
        PROVE  IsFiniteSet(live') /\ Cardinality(live') <= DedupCapacity
    <2>1. live' \subseteq live
      BY <1>3 DEF Refuse
    <2>2. /\ IsFiniteSet(live') /\ Cardinality(live') <= Cardinality(live)
          /\ Cardinality(live') \in Nat /\ Cardinality(live) \in Nat
      BY <2>1, FS_Subset, FS_CardinalityType
    <2> QED BY <2>2, DedupCapacityAssumption
  <1> QED BY <1>1, <1>2, <1>3 DEF FilterNext

LEMMA BucketLimit ==
    ASSUME IsFiniteSet(DOMAIN buckets), Cardinality(DOMAIN buckets) <= MaxBuckets,
           [AggregatorNext]_aggregatorVars
    PROVE  IsFiniteSet(DOMAIN buckets') /\ Cardinality(DOMAIN buckets') <= MaxBuckets
  <1>1. ASSUME DOMAIN buckets' \subseteq DOMAIN buckets
        PROVE  IsFiniteSet(DOMAIN buckets') /\ Cardinality(DOMAIN buckets') <= MaxBuckets
    <2>1. /\ IsFiniteSet(DOMAIN buckets')
          /\ Cardinality(DOMAIN buckets') <= Cardinality(DOMAIN buckets)
          /\ Cardinality(DOMAIN buckets') \in Nat /\ Cardinality(DOMAIN buckets) \in Nat
      BY <1>1, FS_Subset, FS_CardinalityType
    <2> QED BY <2>1, MaxBucketsAssumption
  <1>2. ASSUME NEW n \in Event, Submit(n)
        PROVE  IsFiniteSet(DOMAIN buckets') /\ Cardinality(DOMAIN buckets') <= MaxBuckets
    <2>1. CASE AddNewBucket(n)
      <3>1. /\ DOMAIN buckets' = DOMAIN buckets \cup {Key(n)}
            /\ Key(n) \notin DOMAIN buckets /\ HasBucketRoom
        BY <2>1 DEF AddNewBucket
      <3>2. /\ IsFiniteSet(DOMAIN buckets') /\ Cardinality(DOMAIN buckets) \in Nat
            /\ Cardinality(DOMAIN buckets') = Cardinality(DOMAIN buckets) + 1
        BY <3>1, FS_AddElement, FS_CardinalityType
      <3> QED BY <3>1, <3>2, MaxBucketsAssumption DEF HasBucketRoom
    <2>2. CASE AddCritical(n) \/ AddToBucket(n) \/ AddOverflow(n)
      <3>1. DOMAIN buckets' \subseteq DOMAIN buckets
        BY <2>2 DEF AddCritical, AddToBucket, AddOverflow
      <3> QED BY <1>1, <3>1
    <2> QED BY <1>2, <2>1, <2>2 DEF Submit, Add
  <1>3. CASE BeginShutdown \/ TaskStep \/ ShutdownStep \/ UNCHANGED aggregatorVars
    <2>1. DOMAIN buckets' \subseteq DOMAIN buckets
      BY <1>3 DEF BeginShutdown, TaskStep, ShutdownStep, WakeTimer, TimerFlush, SpawnRender,
                  Show, ShowFails, AckSubmitted, ShutdownFlush, CloseRenders, Drained,
                  DrainTimeout, WithoutBucket, aggregatorVars
    <2> QED BY <1>1, <2>1
  <1> QED BY <1>2, <1>3 DEF AggregatorNext

(* No flood of messages makes the queue, the duplicate filter or the       *)
(* buckets grow beyond what was configured, with any number of workers     *)
(* (pipeline.rs, try_enqueue; aggregator.rs, add; dedup.rs, try_add).  The *)
(* render tasks have no such limit.                                        *)
THEOREM ResourcesStayBounded == Spec => []ResourcesBounded
  <1>1. Init => LimitsInv
    <2> SUFFICES ASSUME Init PROVE LimitsInv
      OBVIOUS
    <2>1. queue = <<>> /\ live = {} /\ DOMAIN buckets = {}
      BY DEF Init, PipelineInit, AggregatorInit, FilterInit
    <2>2. IsFiniteSet({}) /\ Cardinality({}) = 0
      BY FS_EmptySet
    <2>3. /\ 0 <= QueueCapacity /\ 0 <= DedupCapacity /\ 0 <= MaxBuckets
          /\ Len(queue) = 0
      BY <2>1, QueueCapacityAssumption, DedupCapacityAssumption, MaxBucketsAssumption
    <2> QED BY <2>1, <2>2, <2>3 DEF LimitsInv, ResourcesBounded
  <1>2. Intake /\ LimitsInv /\ [Next]_vars => LimitsInv'
    <2> SUFFICES ASSUME Intake, LimitsInv, [Next]_vars PROVE LimitsInv'
      OBVIOUS
    <2>1. Len(queue') <= QueueCapacity
      <3>1. CASE Next
        BY <3>1, QueueLimit DEF LimitsInv
      <3>2. CASE UNCHANGED vars
        BY <3>2 DEF vars, intakeVars, LimitsInv, ResourcesBounded
      <3> QED BY <3>1, <3>2
    <2>2. IsFiniteSet(live') /\ Cardinality(live') <= DedupCapacity
      BY NextIsFilterStep, FilterLimit DEF LimitsInv, ResourcesBounded
    <2>3. IsFiniteSet(DOMAIN buckets') /\ Cardinality(DOMAIN buckets') <= MaxBuckets
      BY NextIsAggregatorStep, BucketLimit DEF LimitsInv, ResourcesBounded
    <2> QED BY <2>1, <2>2, <2>3 DEF LimitsInv, ResourcesBounded
  <1>3. LimitsInv => ResourcesBounded
    BY DEF LimitsInv
  <1> QED
    BY <1>1, <1>2, <1>3, AlwaysIntake, PTL DEF Spec

-----------------------------------------------------------------------------
(* A stop that loses nothing *)

(* Every message the agent ever received has its outcome, and every event  *)
(* of every toast its acknowledgement.                                     *)
AllSettled == received = DroppedEvents /\ ShownEvents \subseteq submitted

(* If no timer had a batch in hand when shutdown's wait for the render     *)
(* tasks was over, the stop loses nothing: from then to the end of the     *)
(* process every received message has been refused, superseded, counted    *)
(* as dropped or through its render task, and every event shown is         *)
(* acknowledged.  So a batch between TimerFlush and SpawnRender is the     *)
(* only way in which a drained stop loses a notification                   *)
(* (NothingLostOnGracefulStop; host.rs, AgentHost::shutdown;               *)
(* aggregator.rs, flush and shutdown).                                     *)
THEOREM CleanDrainLosesNothing == Spec => [](DrainedClean => []AllSettled)
  <1>1. ASSUME Intake, AggregatorTypeOK, Accounted, Toasts, AcksComplete,
               ShutdownEmptiesBuckets, DrainedClean
        PROVE  AllSettled
    <2>1. WorkersEnded
      BY <1>1 DEF Intake, ClosedInOrder, DrainedClean
    <2>2. received = dropped_queue_full \cup invalid \cup duplicates \cup added
      BY <1>1, <2>1, EndedMeansDrained
    <2>3. InBuckets = {} /\ InFlushing = {} /\ InRenders = {}
      BY <1>1 DEF ShutdownEmptiesBuckets, DrainedClean, InBuckets, InFlushing, InRenders
    <2>4. added = finished \cup superseded \cup dropped_bucket_overflow
      BY <1>1, <2>3 DEF Accounted, Cover, Gone
    <2>5. ASSUME NEW n \in ShownEvents PROVE n \in submitted
      <3>1. IsShown(n)
        BY DEF ShownEvents, IsShown
      <3>2. n \in finished
        BY <1>1, <3>1 DEF Toasts, ShownElsewhere, IsShown, DrainedClean
      <3> QED BY <1>1, <3>1, <3>2 DEF AcksComplete
    <2> QED BY <2>2, <2>4, <2>5 DEF AllSettled, DroppedEvents
  <1>2. Intake /\ ShutdownEmptiesBuckets /\ DrainedClean /\ [Next]_vars => DrainedClean'
    BY NextIsAggregatorStep, DrainedCleanStays
  <1>3. /\ Intake /\ AggregatorTypeOK /\ Accounted /\ Toasts /\ AcksComplete
        /\ ShutdownEmptiesBuckets /\ DrainedClean
        => AllSettled
    BY <1>1
  <1> QED
    BY <1>2, <1>3, AlwaysIntake, AlwaysAggregator, AggregatorInHost, PTL DEF Spec
=============================================================================
