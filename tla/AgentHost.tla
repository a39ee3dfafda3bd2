----------------------------- MODULE AgentHost ------------------------------
(***************************************************************************)
(* AgentHost of notify-agent-core: the subscribe loop, the pipeline and    *)
(* the aggregator in one process, from the end of AgentHost::start to the  *)
(* end of the process.                                                     *)
(*                                                                         *)
(* AgentHost::shutdown cancels the subscribe loop and waits for it, closes *)
(* the pipeline and waits for its workers, shuts the aggregator down, and  *)
(* flushes the NATS client.  Every task keeps running meanwhile.           *)
(***************************************************************************)
EXTENDS Pipeline

\* AgentHost::start uses PipelineConfig::default(), which has two workers.
\* (A pipeline without any, as in one of its tests, drains nothing.)
ASSUME WorkersAssumption == Workers # {}

VARIABLES
    seq,         \* arrival stamp of the last event, local to the subscribe loop
    received,    \* history: the events that were stamped
    subscriber,  \* the subscribe loop task
    phase        \* the process: running, where it is in shutdown, or gone

hostVars == <<seq, received, subscriber, phase>>
vars == <<hostVars, intakeVars, aggregatorVars>>

Init ==
    /\ PipelineInit
    /\ seq = 0
    /\ received = {}
    /\ subscriber = "running"
    /\ phase = "running"

Alive == phase \notin {"stopped", "exited"}

-----------------------------------------------------------------------------
(* The subscribe loop *)

\* Mutated form of Receive: only an enqueued event uses up its stamp.
ReceiveReused(p) ==
    LET evt == [seq |-> seq + 1, body |-> p]
    IN  /\ subscriber = "running"
        /\ seq < MaxSeq
        /\ seq' = IF QueueHasRoom THEN seq + 1 ELSE seq
        /\ received' = received \cup {evt}
        /\ TryEnqueue(evt)
        /\ UNCHANGED <<subscriber, phase>>

(* A message with a payload arrives; it is stamped and enqueued.  A        *)
(* message with an empty payload changes nothing.  select! is not biased:  *)
(* messages may still be taken after the cancellation.                     *)
Receive(p) ==
    LET evt == [seq |-> seq + 1, body |-> p]
    IN  /\ subscriber = "running"
        /\ seq < MaxSeq
        /\ seq' = seq + 1
        /\ received' = received \cup {evt}
        /\ TryEnqueue(evt)
        /\ UNCHANGED <<subscriber, phase>>

\* Mutated form of SubscriberEnds: the IntakeHandle is kept.
SubscriberEndsKeepingIntake ==
    /\ subscriber = "running"
    /\ phase = "cancelled"
    /\ subscriber' = "ended"
    /\ UNCHANGED <<seq, received, phase, intakeVars, aggregatorVars>>

(* The loop sees the cancellation and ends; its IntakeHandle is dropped.   *)
SubscriberEnds ==
    /\ subscriber = "running"
    /\ phase = "cancelled"
    /\ subscriber' = "ended"
    /\ senders' = senders \ {"intake"}
    /\ UNCHANGED <<seq, received, phase, queue, pc, job, dropped_queue_full,
                   invalid, duplicates, observed, live, aggregatorVars>>

(* The subscription ends by itself: process::exit(1).                      *)
SubscriptionDies ==
    /\ subscriber = "running"
    /\ phase' = "exited"
    /\ UNCHANGED <<seq, received, subscriber, intakeVars, aggregatorVars>>

-----------------------------------------------------------------------------
(* AgentHost::shutdown *)

(* It is called (Ctrl+C, or Close in the tray): cancel.cancel().           *)
BeginHostShutdown ==
    /\ phase = "running"
    /\ phase' = "cancelled"
    /\ UNCHANGED <<seq, received, subscriber, intakeVars, aggregatorVars>>

(* The subscribe loop has ended; pipeline.shutdown() drops its Sender.     *)
ClosePipeline ==
    /\ phase = "cancelled"
    /\ subscriber = "ended"
    /\ phase' = "pipeline"
    /\ senders' = senders \ {"pipeline"}
    /\ UNCHANGED <<seq, received, subscriber, queue, pc, job,
                   dropped_queue_full, invalid, duplicates, observed, live,
                   aggregatorVars>>

\* Mutated form of WorkersEnded: shutdown does not wait for the workers.
WorkersNotAwaited == TRUE

(* Every worker's JoinHandle is ready.                                     *)
WorkersEnded == \A w \in Workers : pc[w] = "ended"

(* pipeline.shutdown() returns; aggregator.shutdown() begins.              *)
PipelineDrained ==
    /\ phase = "pipeline"
    /\ WorkersEnded
    /\ phase' = "aggregator"
    /\ BeginShutdown
    /\ UNCHANGED <<seq, received, subscriber, intakeVars>>

(* aggregator.shutdown() returns; client.flush() begins.                   *)
AggregatorDone ==
    /\ phase = "aggregator"
    /\ stage \in {"drained", "timed_out"}
    /\ phase' = "flush"
    /\ UNCHANGED <<seq, received, subscriber, intakeVars, aggregatorVars>>

(* client.flush() returns, with success or an error; the process ends and  *)
(* with it every task.                                                     *)
FlushReturns ==
    /\ phase = "flush"
    /\ phase' = "stopped"
    /\ UNCHANGED <<seq, received, subscriber, intakeVars, aggregatorVars>>

-----------------------------------------------------------------------------
(* What shutdown does of itself once it was called.                        *)
HostStep ==
    /\ Alive
    /\ \/ SubscriberEnds
       \/ ClosePipeline
       \/ PipelineDrained
       \/ AggregatorDone

(* The steps of the pipeline and of the aggregator, while there is a       *)
(* process.                                                                *)
PipelineStep(w) == Alive /\ WorkerStep(w) /\ UNCHANGED hostVars
AggregatorTask == Alive /\ TaskStep /\ UNCHANGED <<hostVars, intakeVars>>
AggregatorShutdown == Alive /\ ShutdownStep /\ UNCHANGED <<hostVars, intakeVars>>

Next ==
    \/ \E p \in Payloads : Alive /\ Receive(p)
    \/ Alive /\ SubscriptionDies
    \/ BeginHostShutdown
    \/ HostStep
    \/ FlushReturns
    \/ \E w \in Workers : PipelineStep(w)
    \/ AggregatorTask
    \/ AggregatorShutdown

Spec == Init /\ [][Next]_vars

(* The runtime runs every task that can run.  Not assumed: that messages   *)
(* arrive, that shutdown is ever called, that the renderer returns, that   *)
(* the server answers the flush.                                           *)
Fairness ==
    /\ WF_vars(HostStep)
    /\ \A w \in Workers : WF_vars(PipelineStep(w))
    /\ WF_vars(AggregatorShutdown)

FairSpec == Spec /\ Fairness

-----------------------------------------------------------------------------
(* Properties *)

(* Types; arrival stamps are given in order, each to one event.            *)
TypeOK ==
    /\ PipelineTypeOK
    /\ AggregatorTypeOK
    /\ seq \in 0..MaxSeq
    /\ received \subseteq Event
    /\ {n.seq : n \in received} = 1..seq
    /\ Cardinality(received) = seq
    /\ subscriber \in {"running", "ended"}
    /\ phase \in {"running", "cancelled", "pipeline", "aggregator", "flush",
                  "stopped", "exited"}

(* Where a received event can be, up to the aggregator.                    *)
IntakePlaces == <<InQueue, InWork, dropped_queue_full, invalid, duplicates, added>>

(* Every received event is in exactly one place of the intake, or the      *)
(* aggregator has it: overload, a bad payload, a duplicate and the         *)
(* concurrency of the workers never lose track of one or process it twice. *)
IntakeConservation ==
    /\ received = UNION {IntakePlaces[i] : i \in 1..6}
    /\ \A i, j \in 1..6 : i # j => IntakePlaces[i] \cap IntakePlaces[j] = {}
    /\ Cardinality(InQueue) = Len(queue)
    /\ \A v, w \in Busy : job[v] = job[w] => v = w

(* An event is shown, and acknowledged as submitted, only after the        *)
(* publication of its observed ack has returned.                           *)
ObservedBeforeShown ==
    (UNION {shown[i] : i \in 1..Len(shown)}) \cup submitted \subseteq observed

(* When the aggregator is shut down nothing is left in the intake: each    *)
(* received event was counted as dropped, rejected, or handed over.        *)
IntakeDrained ==
    phase \in {"aggregator", "flush", "stopped"} =>
        received = dropped_queue_full \cup invalid \cup duplicates \cup added

(* The host uses the aggregator as its specification demands: an event is  *)
(* handed over once, and never after shutdown was called.                  *)
ImplementsAggregator == AggregatorSpec

(* What has become of the message with stamp s.                            *)
Status(s) ==
    LET is(S) == \E n \in S : n.seq = s
        wasShown == is(UNION {shown[i] : i \in 1..Len(shown)})
    IN  CASE s > seq -> "unsent"
          [] s <= seq /\ wasShown -> "shown"
          [] s <= seq /\ ~wasShown
             /\ is(dropped_queue_full \cup invalid \cup duplicates
                   \cup dropped_bucket_overflow \cup superseded \cup finished)
                -> "dropped"
          [] OTHER -> "pending"

(* The agent implements at-most-once delivery: through queue, workers,     *)
(* buckets, timers, render tasks and shutdown, a message is never shown    *)
(* again, never shown after it was dropped, and nothing is shown after the *)
(* process has ended.                                                      *)
Delivery == INSTANCE AtMostOnceDelivery
            WITH status <- [s \in 1..MaxSeq |-> Status(s)], up <- Alive
ImplementsDelivery == Delivery!DeliverySpec

(* No event stays in the intake for ever, even if the renderer hangs.      *)
InIntake(i) == \E n \in InQueue \cup InWork : n.seq = i
IntakeMoves ==
    \A i \in 1..MaxSeq : InIntake(i) ~> (~InIntake(i) \/ ~Alive)

(* Shutdown gets as far as the final flush, even if the renderer hangs.    *)
ShutdownReachesFlush ==
    phase = "cancelled" ~> phase \in {"flush", "stopped", "exited"}

(* Design, "Bounded graceful drain": "Pending toasts/acks are not silently *)
(* lost on normal shutdown".  A process that stopped without having given  *)
(* up on its render tasks has nothing pending.  A timer task that took its *)
(* bucket before shutdown copied the keys may spawn its render task after  *)
(* the tracker was found empty.                                            *)
NothingLostOnGracefulStop ==
    phase = "stopped" /\ stage = "drained" =>
        InBuckets \cup InFlushing \cup InRenders = {}
=============================================================================
