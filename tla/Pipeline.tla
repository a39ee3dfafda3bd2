------------------------------ MODULE Pipeline ------------------------------
(***************************************************************************)
(* Pipeline of notify-agent-core: a bounded intake queue and a pool of     *)
(* workers.  A worker takes an event from the queue, parses it, asks the   *)
(* duplicate filter, publishes the observed_by_agent ack and hands the     *)
(* event to the aggregator.  The queue's lock is held only to receive, so  *)
(* workers overtake each other at every later step.                        *)
(*                                                                         *)
(* The duplicate filter is the abstract one (DuplicateFilter), which       *)
(* DedupCache implements; a call of try_add is one step.                   *)
(***************************************************************************)
EXTENDS Aggregator, DuplicateFilter

CONSTANTS Workers,        \* PipelineConfig.workers tasks
          QueueCapacity   \* PipelineConfig.queue_capacity

\* mpsc::channel panics on a capacity of 0.
ASSUME QueueCapacityAssumption == QueueCapacity \in Nat \ {0}

\* What parse_event accepts has the key the duplicate filter is asked for.
ASSUME PayloadsAssumption ==
    \A p \in Payloads : p.valid => p.deduplication_key \in DedupKeys

VARIABLES
    queue,        \* the mpsc channel
    senders,      \* the Senders not yet dropped: the Pipeline's own and
                  \* the IntakeHandle of the subscribe loop
    pc,           \* where each worker is in its loop
    job,          \* the event each worker works on
    dropped_queue_full,  \* the events the counter of that name counts
    invalid,      \* history: events parse_event rejected
    duplicates,   \* history: events the duplicate filter refused
    observed      \* events whose observed_by_agent publication has returned

intakeVars == <<queue, senders, pc, job, dropped_queue_full, invalid,
                duplicates, observed, live>>

NoEvent == [seq |-> 0]

PipelineInit ==
    /\ AggregatorInit
    /\ FilterInit
    /\ queue = <<>>
    /\ senders = {"pipeline", "intake"}
    /\ pc = [w \in Workers |-> "recv"]
    /\ job = [w \in Workers |-> NoEvent]
    /\ dropped_queue_full = {}
    /\ invalid = {}
    /\ duplicates = {}
    /\ observed = {}

-----------------------------------------------------------------------------
QueueHasRoom == Len(queue) < QueueCapacity

(* try_enqueue(evt): try_send, or count and drop.                          *)
TryEnqueue(evt) ==
    /\ IF QueueHasRoom
       THEN /\ queue' = Append(queue, evt)
            /\ UNCHANGED dropped_queue_full
       ELSE /\ dropped_queue_full' = dropped_queue_full \cup {evt}
            /\ UNCHANGED queue
    /\ UNCHANGED <<senders, pc, job, invalid, duplicates, observed, live,
                   aggregatorVars>>

\* Mutated form of Recv: the event is not taken out of the queue.
RecvPeek(w) ==
    /\ pc[w] = "recv"
    /\ queue # <<>>
    /\ job' = [job EXCEPT ![w] = Head(queue)]
    /\ pc' = [pc EXCEPT ![w] = "parse"]
    /\ UNCHANGED <<queue, senders, dropped_queue_full, invalid, duplicates,
                   observed, live, aggregatorVars>>

(* Worker w, holding the receiver's lock, receives the oldest event.       *)
Recv(w) ==
    /\ pc[w] = "recv"
    /\ queue # <<>>
    /\ job' = [job EXCEPT ![w] = Head(queue)]
    /\ pc' = [pc EXCEPT ![w] = "parse"]
    /\ queue' = Tail(queue)
    /\ UNCHANGED <<senders, dropped_queue_full, invalid, duplicates, observed,
                   live, aggregatorVars>>

\* Mutated form of NoMoreEvents: a worker stops when the intake closes and
\* leaves behind what is queued.
IntakeClosed == senders = {}

(* recv() returns None: the channel is closed and drained.                 *)
NoMoreEvents == senders = {} /\ queue = <<>>

WorkerEnds(w) ==
    /\ pc[w] = "recv"
    /\ NoMoreEvents
    /\ pc' = [pc EXCEPT ![w] = "ended"]
    /\ UNCHANGED <<queue, senders, job, dropped_queue_full, invalid, duplicates,
                   observed, live, aggregatorVars>>

(* process() returns: the worker goes back to receiving.                   *)
EndJob(w) ==
    /\ pc' = [pc EXCEPT ![w] = "recv"]
    /\ job' = [job EXCEPT ![w] = NoEvent]

\* Mutated form of RejectInvalid: the key is remembered before the event is
\* validated.
RejectInvalidRemembered(w) ==
    /\ pc[w] = "parse"
    /\ ~job[w].body.valid
    /\ live' = live \cup {job[w].body.deduplication_key}
    /\ invalid' = invalid \cup {job[w]}
    /\ EndJob(w)
    /\ UNCHANGED <<queue, senders, dropped_queue_full, duplicates, observed,
                   aggregatorVars>>

(* parse_event fails: the event is dropped.                                *)
RejectInvalid(w) ==
    /\ pc[w] = "parse"
    /\ ~job[w].body.valid
    /\ invalid' = invalid \cup {job[w]}
    /\ EndJob(w)
    /\ UNCHANGED <<queue, senders, dropped_queue_full, duplicates, observed,
                   live, aggregatorVars>>

(* dedup.try_add(key) = false: the event is dropped.                       *)
RejectDuplicate(w) ==
    /\ pc[w] = "parse"
    /\ job[w].body.valid
    /\ Refuse(job[w].body.deduplication_key)
    /\ duplicates' = duplicates \cup {job[w]}
    /\ EndJob(w)
    /\ UNCHANGED <<queue, senders, dropped_queue_full, invalid, observed,
                   aggregatorVars>>

(* dedup.try_add(key) = true: the worker goes on to publish the ack.       *)
PassFilter(w) ==
    /\ pc[w] = "parse"
    /\ job[w].body.valid
    /\ Accept(job[w].body.deduplication_key)
    /\ pc' = [pc EXCEPT ![w] = "observe"]
    /\ UNCHANGED <<queue, senders, job, dropped_queue_full, invalid, duplicates,
                   observed, aggregatorVars>>

\* Mutated form of PublishObserved: no timeout, and the broker does not answer.
PublishObservedHangs(w) == FALSE /\ UNCHANGED <<intakeVars, aggregatorVars>>

(* publish_ack(observed) returns, within ACK_PUBLISH_TIMEOUT; an error or  *)
(* a timeout is logged and changes nothing.                                *)
PublishObserved(w) ==
    /\ pc[w] = "observe"
    /\ observed' = observed \cup {job[w]}
    /\ pc' = [pc EXCEPT ![w] = "add"]
    /\ UNCHANGED <<queue, senders, job, dropped_queue_full, invalid, duplicates,
                   live, aggregatorVars>>

\* Mutated form of HandOver: the event is handed over before its ack.
HandOverFirst(w) ==
    /\ pc[w] \in {"observe", "add"}
    /\ Add(job[w])
    /\ EndJob(w)
    /\ UNCHANGED <<queue, senders, dropped_queue_full, invalid, duplicates,
                   observed, live>>

(* aggregator.add(n), the end of process().                                *)
HandOver(w) ==
    /\ pc[w] = "add"
    /\ Add(job[w])
    /\ EndJob(w)
    /\ UNCHANGED <<queue, senders, dropped_queue_full, invalid, duplicates,
                   observed, live>>

WorkerStep(w) ==
    \/ Recv(w)
    \/ RejectInvalid(w)
    \/ RejectDuplicate(w)
    \/ PassFilter(w)
    \/ PublishObserved(w)
    \/ HandOver(w)
    \/ WorkerEnds(w)

-----------------------------------------------------------------------------
(* Properties *)

InQueue == {queue[i] : i \in 1..Len(queue)}
Busy == {w \in Workers : job[w] # NoEvent}
InWork == {job[w] : w \in Busy}

(* Types of the pipeline's state.                                          *)
PipelineTypeOK ==
    /\ queue \in Seq(Event)
    /\ senders \subseteq {"pipeline", "intake"}
    /\ pc \in [Workers -> {"recv", "parse", "observe", "add", "ended"}]
    /\ job \in [Workers -> Event \cup {NoEvent}]
    /\ \A w \in Workers : job[w] = NoEvent <=> pc[w] \in {"recv", "ended"}
    /\ dropped_queue_full \subseteq Event
    /\ invalid \subseteq Event
    /\ duplicates \subseteq Event
    /\ observed \subseteq Event
    /\ live \subseteq DedupKeys

(* An event refused as a duplicate repeats the key of another event that   *)
(* passed the filter, and that one is not lost on the way: a worker has it *)
(* or the aggregator got it.  Suppression never costs a key its only       *)
(* notification.                                                           *)
DuplicateHasOriginal ==
    \A d \in duplicates :
        \E n \in added \cup {job[w] : w \in {v \in Workers : pc[v] \in {"observe", "add"}}} :
            /\ n # d
            /\ n.body.deduplication_key = d.body.deduplication_key
=============================================================================
