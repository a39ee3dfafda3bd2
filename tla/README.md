# A TLA+ model of the desktop notification agent

The repository holds a desktop notification agent in three implementations of
one design: Rust (`rust/`, the primary one), Go (`golang/`) and C# (`src/`). The
agent subscribes to a per-user NATS subject, parses what it receives, suppresses
duplicates, batches what belongs together, shows toasts and publishes
acknowledgements. It promises delivery that is "online-only, at-most-once, and
best-effort" (`context/contracts-and-invariants.md`).

This directory specifies the Rust agent, checks the specification on small
instances with TLC and proves its safety properties for all instances with TLAPS.
`PROJECT.json` names, for every definition, the lines it stands for, and lists
the runs, the hazards, the findings and the theorems.

## 1. The system

### Components, their state and operations (Rust)

| Part | State | Operations | What makes it correct |
|---|---|---|---|
| `dedup.rs` | map key → expiry, insertion queue, one mutex | `try_add` | no key accepted twice within its TTL, unless it was given up for room; never more than `capacity` keys |
| `parser.rs` | none; a byte scan with depth, in-string and escape flags | `parse_event` | the scan refuses exactly what is nested too deeply; an accepted event has usable keys |
| `aggregator.rs` | buckets per (aggregation key, priority) under a mutex, one timer task per bucket, a tracker of render tasks | `add`, timer flush, `shutdown` | no event lost track of or shown twice; the newest value of a replaceable state wins; everything flushed; shutdown ends |
| `pipeline.rs` | bounded queue, worker tasks, drop counters, the render sink | `try_enqueue`, worker loop, `process`, `render`, `shutdown` | overload drops and counts; every event has one fate; observed ack before the toast |
| `host.rs` | subscribe loop, arrival stamps, cancellation token | `start`, subscribe loop, `shutdown` | intake stops first, workers drain, then the aggregator, then the NATS flush |
| `image_cache.rs` | a directory of files | `fetch` (lookup, download, write, rename, evict) | a lookup never finds part of an image; the directory stays near its cap |
| `tray.rs`, `main.rs` (Windows head) | tray state, channels between three threads, log guard; single-instance mutex; device-id file | start, Close, watcher, exit, `device_id` | Close always ends the process, with the log of an agent that was done in time complete; one instance per session; one id per installation |
| `identity.rs`, `nats_auth.rs` | refresh token shared by sign-in and the auth callback, one token task per connection attempt | device-code polling, token refresh, credential fetch | sign-in ends; a callback returns; a usable refresh token is not lost or overwritten by an older one |
| `settings.rs`, `windows_identity.rs`, `start_host`, `main.rs` (console head) | settings file, environment, account name | load, resolve, validate, derive the user id | external authentication has all it needs; one user id per account name, however it is spelled, usable in a subject |
| `toast.rs`, `toast_xml.rs`, `action_url.rs`, `ack.rs`, `grapheme.rs`, `model.rs` | none | formatting | |

The Go and C# agents have the same parts with other concurrency: the Go
aggregator renders on the timer's goroutine and its workers stop on cancellation
without draining; the C# worker renders critical events itself and nobody awaits
a batch a timer started.

### How the parts interact

    NATS ──subscribe loop──▶ queue (500) ──2 workers──▶ parse ─ dedup ─ observed ack
                                                           │
        submitted acks ◀── render task ◀── bucket timer ◀── add
                              │
                          image cache, renderer

The subscribe loop stamps each message with an arrival number. Workers share one
receiver. `process` awaits the publication of the observed ack (at most 5 s) and
then calls `add`. A timer task per bucket (2 s for important, 10 s for normal
events) flushes it into a render task; render tasks call the renderer, which calls the
image cache, and then publish the submitted acks. `AgentHost::shutdown` cancels the subscribe loop, closes the
queue and joins the workers, flushes the aggregator and waits at most 5 s for
render tasks, then flushes the NATS client. If the subscription ends by itself,
the subscribe loop calls `process::exit(1)`. In the Windows head all this runs on
one thread's runtime, and Close in the tray ends the process from a watcher
thread after at most 5 s.

Before that, a head resolves its configuration (environment, settings file,
default), signs the user in or derives a user id, and connects. With an external
auth service the NATS client calls back for credentials at every connection
attempt: a spawned task exchanges the refresh token for an access token, storing
a new refresh token if one comes along, and the access token buys a JWT.

### What is hard

Workers overtake each other between the stamp and `add`; timers, `add` and
shutdown compete for a bucket; a timer that woke up cannot be aborted any more;
the lock is released between taking a bucket and spawning its render task; the
clock of the duplicate filter is read before its lock; the renderer, the server
and sign-in may never answer; an attempt that was given up leaves its token task
behind, beside the task of the next one; a process may end between truncating and
writing the device-id file, which a second head reads; a timeout drops a future while its file operation
runs on; evictions work from listings others have outdated. The `hazards` of
`PROJECT.json` list these by line.

## 2. The modules

| Module | Models | State and actions |
|---|---|---|
| `DuplicateFilter` | what a duplicate filter promises | the set of live keys; `Accept`, `Refuse`; keys may be forgotten |
| `DedupCache` | `dedup.rs` | map, queue, clock, each caller's clock reading and history; `ReadNow` (outside the lock), `TryAddAccepted`/`TryAddRefused` (one critical section: purge, check, evict, insert), `Tick` |
| `Aggregator` | `aggregator.rs` and the sink of `pipeline.rs` | buckets, timer tasks, batches between lock and spawn, render tasks, shown toasts, acks, shutdown; one action per critical section and per step outside of it |
| `Pipeline` | `pipeline.rs`, extends `Aggregator` and `DuplicateFilter` | queue, senders, each worker's place and job |
| `AgentHost` | `host.rs`, extends `Pipeline` | subscribe loop, phase of shutdown or exit; the whole agent |
| `AtMostOnceDelivery` | the delivery promise | the fate of each message |
| `EventParser` | `parser.rs` | the byte scan, one step per byte; decoding by the verdict per field |
| `ImageCache` | `image_cache.rs` | the directory, and where each concurrent call is |
| `WindowsHead` | `run` and `run_agent` of `main.rs`, `tray.rs` | window thread (registration, log, tray, message loop), agent thread, watcher, log guard, whether the log is written |
| `DeviceId` | single-instance mutex and `device_id` of `main.rs`, and their C# counterparts | where each launched process is, mutex handles, the file, the id each process took |
| `HeadConfig` | `settings.rs`, `start_host` up to `AgentHost::start`, the console head's `main`, `validate_auth_service_config`, `user_id_from_username` | no state: what a launch resolves to |
| `NatsAuth` | the callback of `nats_auth.rs`, `AadTokenProvider` | refresh token, the token task of every attempt, the callback, the link |
| `StartHost` | extends both: a head from launch to a running agent, with `DeviceCodeIdentity` | phase, configuration, user id, time left for the sign-in, poll interval |
| `DedupCacheProofs`, `AggregatorProofs`, `AgentHostProofs`, `EventParserProofs`, `ImageCacheProofs`, `WindowsHeadProofs`, `DeviceIdProofs`, `StartHostProofs` | theorems | `AgentHostProofs` extends `AggregatorProofs` and carries its theorems over to the host |

`Pipeline` uses the abstract `DuplicateFilter` in place of the cache;
`DedupCache` is shown (run `dedup`, theorem `Refinement`) to implement it, so
what holds of the composed agent holds with the real cache. In the same way
`ImplementsAggregator` shows that the host uses the aggregator as the run
`aggregator` assumes.

### Abstractions

- *Time.* The aggregator and the host have no clock: a window, a timeout or a
  scheduler delay may end at any moment. This covers every relation between the
  2 s, 5 s and 10 s limits. `DedupCache` has a clock, since expiry is its subject.
- *Batches are sets.* `flush` sorts a batch by its unique arrival numbers, so the
  order within a bucket is never observed.
- *Payloads* are records of the fields control depends on; a message is valid or
  not, as the run `parser` refines.
- *Locks.* A critical section of a mutex is one step; every step outside is its own.
- *Acks.* A publication returns within its timeout; failure and success are both
  "returned", as the code only logs the difference.
- *Files.* Creating, filling, renaming and deleting a file are separate steps. A
  file's content is whole or not.
- *JSON* in `EventParser` is a sequence of bytes, each with the role JSON's lexical
  grammar gives it: structure, the quotes that open and close a string, an escape,
  the byte escaped, plain content. Every sequence of bytes has such roles, also one
  that is cut off or no JSON at all. The scan sees the bytes only; the roles say what
  it ought to find. What `serde_json` makes of an event is given per field (absent,
  blank, of a wrong type, or a text).
- *Sign-in time* is what is left until the deadline. A poll costs the interval
  and then the time its answer takes; between polls the code looks at the clock.
- *Optional values* are sets of at most one element. A configured text is what
  is between the outer white space and whether there is any.
- *User names* are sequences over six characters, one for each way the code treats
  one: letters of both cases, kept, replaced, white space, the domain separator.
  The first eight digits of SHA-256 are an arbitrary function of the name (`Digest`):
  names may collide, and the run has a `Digest` with collisions.
- *The log.* A line is handed to `tracing_appender`'s writer thread or, once the
  guard was dropped, to nobody; the model keeps whether all lines are written, some
  are in the buffer, or some came too late. Dropping the guard flushes. That the
  library gives up a flush after a time, and drops lines when its buffer is full,
  is left out.
- *Refresh tokens* are numbered as the server issues them. Whether issuing one
  retires the older ones is the server's policy, chosen once (`retires`): all of
  them at once, or none. Grace periods and reuse detection lie in between and are
  not represented. With a grace period two requests may both be granted, and the
  answer stored last need not be the newest. Whether the NATS client drops a
  callback is up to the library; `Abandon` lets it, at any time.
- *The image directory* starts with any files earlier processes left (`Leftovers`):
  images, temporary files whole or half written, also under names this process will
  use, and more files than the cap, each of those counted as one of a call that was cut
  short. Listing the directory is one step, though `read_dir` may see some changes
  made meanwhile and not others.
- *Sessions.* The mutexes are `Local\`, one per session, and the device-id file is
  the user's: `DeviceId` is about one session.
- *Processes*: every launch is a process of its own. An id a process generates is
  its own number, so two generated ids differ.
- External and modelled from their use: tokio's clock, the JSON text format, the
  token endpoint, the NATS client and server, the .NET file-sharing rules.

## 3. Runs

| Run | Instance | Shows |
|---|---|---|
| `dedup` | 2 callers, 3 keys, capacity 2, TTL 2 | types, the queue backs the map, capacity, the TTL promise, forgetting only when full; refinement of `DuplicateFilter` |
| `aggregator` | 3 events of 4 kinds, 1 bucket slot | conservation of events, at most one toast per event, newest value wins, one value per toast, timers and buckets match, nothing left at shutdown; buckets get flushed, shutdown ends |
| `host` | 3 messages of 3 kinds, 2 workers, queue of 1, 1 bucket slot | one place per event, a duplicate has an original, observed before shown, nothing in the intake when the aggregator stops; use of the aggregator as specified |
| `host_delivery` | 2 messages of 5 kinds, 2 workers | the agent implements at-most-once delivery; intake and shutdown make progress |
| `image_cache` | 3 calls, some of them cut short in earlier processes, 2 URLs and a bad one, cap 1 | whole images; the size of the directory |
| `parser` | all texts of up to 4 of 8 tokens, whole or cut off, depth 2, 16 bytes; all combinations of field values | the depth verdict is JSON's; accepted events have keys |
| `windows_head` | Close chosen up to 2 times, from start-up on | Close ends the process, also while start-up hangs or has failed; which lines of the log it may cost |
| `start_host` | some 660 launches of both heads; intervals 0 and 2, lifetimes 0, 4, 9, answers after 0 or 3; 3 connection attempts | external authentication is complete, user ids follow accounts, a usable refresh token is kept, the sign-in and the callbacks end |
| `device_id` | 4 launches of the Rust head | one instance; one id, whichever process ends or fails half way |
| `device_id_shared` | 2 launches of each head | counterexample: see Findings |
| `host_stale_state`, `host_lost_on_stop` | smallest instance with the case | counterexamples: see Findings |

*Why the bounds are enough for the cases at issue.* Two callers, workers or calls
are what a race needs; a third key, event or call is the one that overflows,
evicts or comes after. Capacity 2 with 3 keys makes eviction and re-insertion of
a key happen; one bucket slot with two keys makes overflow happen; a queue of 1
makes overload happen with two workers busy. Three events allow a bucket to be
opened again for a key whose earlier bucket is still on its way. Depth 2 with
texts of four tokens crosses the limit from both sides, with strings before,
between and after brackets. Three connection attempts let the task of an abandoned one
overlap the next and a third find what both left; four launches let two ids be
written after two that were cut short. The launches of `start_host` combine absent,
blank, padded, plain and not-https values of the fields that decide on
authentication, in the environment and in the file, and take all user names of up
to three characters and a few longer ones. In `image_cache` temporary files are left only
where a call was cut short, which is then not made again; the proofs allow every
leftover with every set of calls. `MaxInterval` (12) stands for the saturation of `saturating_add`.
`MaxSeq`, `MaxClicks` and the bound on the clock in
`MCDedupCache` only end the runs.

*Symmetry* is used where no property is temporal in the sense of liveness and
the elements are interchangeable: keys and callers in `dedup`, workers in `host`,
calls and URLs in `image_cache`.

*Deadlock* is not checked where the system may stop: all events handled, process
ended, calls returned.

*Fairness.* `AggregatorFairSpec`: each timer task and the shutdown sequence run
if they can; nothing is assumed of render tasks, because the renderer may hang.
`AgentHost!FairSpec`: the shutdown sequence and each worker run if they can. This is
what the tokio scheduler (multi-threaded in both heads) gives to a task that is
ready, and what `tokio::time` gives to a timeout. Not assumed: that messages
arrive, that anyone asks for shutdown, that the renderer returns, or that the server
answers the last flush. `WindowsHead!FairSpec`: only the watcher thread is fair;
the agent thread may hang anywhere. `StartHost!FairSpec`: the sign-in loop, the
callback and each token task run when they can, and the 10 s timeouts of the two
HTTP clients with one fire; no endpoint, server or user has to answer. The client
that polls for the sign-in has no timeout, so `SignInEnds` allows for one poll that
is never answered.

## 4. Findings

Each is a run TLC violates, on purpose.

- `host_stale_state`: the highest arrival number is remembered only within an
  open bucket. A worker delayed in the observed ack (5 s) can bring an older value
  after the newer one's window (2 s) is over, and the older one is shown last.
- `host_lost_on_stop`: `flush` takes the bucket under the lock and spawns the
  render task later; a shutdown in between sees neither and the toast is lost.
- `device_id_shared`: `std::fs::write` truncates before it writes. A Rust head
  that ends or fails in between leaves an empty file. The Rust head treats it as
  missing; the C# head takes the empty text for its id. With no file at all, both heads
  may generate an id each, since their mutexes differ.

More disagreements between a comment or a design document and the code are
harmless, by decision, or out of the runs' focus:

- `dedup.rs` says the queue is ordered by expiry. The clock is read before the
  lock, so it need not be; it is the comparison of expiries in `dequeue_one` that
  keeps the cache right (`PromiseKept` is checked and proved without that order).
- `tray.rs` calls Close the only path to `process::exit`. `host.rs` exits as well
  when the subscription dies, and the buffered log may be lost.
- The final `client.flush()` of `AgentHost::shutdown` has no timeout, while the
  design says "the process always exits". In the Windows head Close bounds it.
- `evict_beyond_cap` counts the temporary file of a running download as an entry
  and deletes by name from a listing that may be outdated, so an image can go
  although the directory is within its cap again.
- An image of a wrong JSON type fails `serde_json::from_slice` and with it the
  event; the image design drops only the image.
- `settings::load` falls back "rather than failing startup" without
  `LOCALAPPDATA`; `WindowsToastRenderer::new` then fails the start anyway.
- Any error of reading the device-id file counts as no file, so an id that could
  not be read is replaced (`misread` in `DeviceId`).
- A second instance has a handle of the mutex until it has ended, so a launch in
  that moment exits too, even if the first instance is gone by then.
- When `tray::create` fails after boxing its state, the log guard leaks, and when the message
  loop returns, icon and log are left as they are (`WindowsHead`).
- `windows_identity.rs` hashes the name "to stay injective". Two accounts of one name
  in different domains get one user id, as the domain is dropped before, and a
  digest of 32 bits cannot tell all names apart. `UserIdFollowsAccount` says what
  does hold.
- When Close times out, the watcher drops the log guard while the agent thread is
  running: what the thread logs until `process::exit` is lost. `main.rs` warns of this;
  `LogSurvivesClose` says that it is all that is lost.
- A device code whose `expires_in` no `Instant` can hold panics the sign-in where
  the deadline is computed (`IdentityFails`, `AgentPanics`).
- The console head trims neither `NOTIFY_USER_ID` nor `NOTIFY_DEVICE_ID`.

## 5. Proofs

All proofs are checked by TLAPS, for arbitrary constants that satisfy the named
assumptions:

- bounds and the TTL are natural numbers, the capacity of the duplicate cache is
  at least one; so is the limit of the poll interval;
- `PayloadsAssumption`: a valid payload has its deduplication key among
  `DedupKeys` (what `AcceptedEventHasKeys` shows of the parser's output);
- `WorkersAssumption`: there is a worker. `host.rs` takes
  `PipelineConfig::default()`, which has two; without one the queue would
  never be drained and `ShutdownDrainsIntake` would be false;
- `UsernamesAssumption`: a Windows user name is a sequence over the alphabet. Nothing
  is assumed of `Digest`;
- `LeftoversAssumption`: what is left in the image directory is finite, and at most one file
  beyond the cap per call that was cut short, of which there may be any number;
- `UrlsAssumption`: refused URLs are not accepted ones, and "no URL" is neither;
- `InputsAssumption`: the bytes of a payload carry the roles JSON's lexical grammar
  gives them, which excludes no sequence of bytes.

**`DedupCacheProofs`** (any capacity, TTL, keys, callers). `Bounded` is not
inductive: the eviction loop stops when the queue is empty, and only `Backed`
(every key on record has a queue entry with its very expiry) says that the map is
empty then too. `PromiseKept` relates the cache to a history of accepted keys. The
invariant is the conjunction of the types, `Backed`, the bound and what the
history says of keys on record. From it: `TypeCorrect`, `CapacityRespected`,
`PromisesKept`, `RecordsBackKeys`, `ForgettingNeedsFullCache` (an action property) and
`Refinement` (initial states map to initial states, every step to an `Accept`, a
`Refuse` or a stutter). `AnswersFollowPromises` is about the answers of single calls.
A call holds a clock reading that may be old when it gets the lock, and others
have purged with newer ones meanwhile: it refuses only a key whose promise was not
over at its own reading, and it accepts none whose promise is not over now, though
it compares with the old reading.

**`AggregatorProofs`** (any payloads, any number of events, any bucket limit).
`AggregatorTypeCorrect` includes that no bucket, batch or toast is empty, which
the render sink asserts. `EventsConserved` proves `Conservation` from `Accounted`:
two holders of the same kind (buckets, batches being flushed, render tasks) never hold
the same event, the six places are pairwise apart, and together they cover what was
added; each action moves events from one place to the next. `DeliveredAtMostOnce`
proves `AtMostOneToast`. That is not inductive: a step that shows a batch must know that no
event of it was shown before. `ShownElsewhere` says where the events of a toast
are (in a render task that has shown it, or in `finished`) and `Accounted` then
says that they are in no batch still to be shown; `TaskShown` and `AckedShown`
carry the order of toast and acknowledgement. Six more:

- `ShutdownLeavesNoBucket`: `BucketsToFlush` says that a bucket that is open while
  shutdown flushes is one it still has on its list, since `add` refuses by then.
- `TimersBelongToBuckets`: that a timer finds its own bucket needs the converse, that
  every bucket has its timer, and that ids are unique (`TimersMatch`).
- `ToastShowsOneValue`: the buckets' property passed on to every later holder.
- `OnlyOlderEventsSuperseded`: the event that supersedes is among the added ones and
  newer than all a bucket has, by `Accounted` and the arrival numbers.
- `EndedTasksAcknowledged` (`AcksComplete`): no event of a toast is passed over by the
  acks of its render task. `TaskAcks` says what a task under way has still to
  acknowledge; that no other task finishes its events is `Accounted` again.
- `ToastsAreUniform` (`UniformToasts`): a toast has one key and priority, a critical
  event is alone in it, and it has one replaceable value. A toast is shown long after its
  bucket is gone, so this is carried through every holder (`HoldersOfOneKey`).

**`AgentHostProofs`** (any number of workers, queue capacity, payloads and limits). The
invariant `Intake` has the types, that each arrival number given out belongs to one
received event (`Stamps`), that the places of the intake are pairwise apart
(`IntakeApart`) and hold no event twice (`NoCopies`), and in which order shutdown
closes the stages (`ClosedInOrder`). With it:

- `HostImplementsAggregator`: a worker hands `add` an event that was never added
  before, and none once shutdown of the aggregator has begun, so every step of the host is one of the aggregator's or
  leaves it alone; `AggregatorInHost` then carries all theorems above over to
  the running agent.
- `HostImplementsFilter`: the workers use the duplicate filter as `DuplicateFilter`
  says, the specification that `DedupCache` implements.
- `HostTypeCorrect`, `IntakeConserved`, `ObservedAckFirst`.
- `ShutdownDrainsIntake`: the workers end only on an empty closed queue, so when
  the last one has ended nothing is left; this is where a worker is needed.
- `DuplicatesHaveOriginals`: `LiveHasOriginal` says that a key the filter has
  was put there by an event that a worker or the aggregator still has.
- `HostImplementsDelivery`: the composed agent implements `AtMostOnceDelivery`, the
  fate of a message being read off the places it is in.
- `FatesAreFinal`, an action property: no step takes a message back that was shown or
  dropped. It is read off the refinement step.
- `ResourcesStayBounded`: queue, duplicate filter and buckets keep to their limits.
  Render tasks are not among them: the code spawns as many as there are batches.
- `CleanDrainLosesNothing`: if no timer has a batch in hand and no render task is
  left when shutdown's wait is over, every message ever received has its outcome and every
  event shown its acknowledgement, from then on. This is the other side of the finding
  `host_lost_on_stop`: a stop that was drained loses a notification in the gap between
  taking a bucket and spawning its render task, and in no other way.

**`EventParserProofs`** (any payloads and limits). `AcceptedEventHasKeys`;
`DepthVerdictIsJsons` proves `DepthVerdict`, which speaks of the end of the scan only
and is not inductive. `ScanInv` says where the scan is after each byte: its two flags
are those of JSON's grammar (`FlagsAgree`), `depth` is at least the number of open
brackets outside strings, and equal to it unless a bracket was closed that was not
open, where the code's counter stays at 0 (`DepthAgrees`), and no level beyond the limit has been
passed over (`PassedLevels`). The level is the number of opening less that of closing brackets
so far, so one step of the scan needs only what one byte adds to two
cardinalities (`LevelStep`), and the induction is the one over steps.

**`ImageCacheProofs`** (any number of calls, URLs, any cap, any leftovers).
`ImageCacheTypeCorrect`; that a listing's surplus is a number at all needs the
directory to be finite, which it is because finitely many calls have begun.
`LookupFindsWholeImages`: the rename needs to know that what it moves is whole;
`Filled` says so of every call about to rename, and survives the other calls'
steps because a temporary name belongs to one call. `CapRespected` proves
`CacheBounded`. It is not inductive: when an eviction ends, its call stops counting and
those it makes good for do too, so the directory must be small by then.
`EvictionsWork` says, for every eviction that has not failed, that without the
files it has still to delete the directory exceeds the cap by no more than the files of
calls that could still add one when it listed. Other calls keep this up: a created
file brings its call into the count, a rename that takes a file out of the reach of an eviction
does as well, and a deleted temporary file takes at most its own call out of it. When another
eviction ends, the two listings are ordered (`ListingsInOrder`): the later one
had seen all the earlier one had, so either the calls that stop counting never
counted, or the bound just reached serves.

**`WindowsHeadProofs`** (any number of clicks). `WindowsHeadTypeCorrect`;
`CloseKeepsLog` proves `LogSurvivesClose`. That needs more than the flush itself: that an agent
thread that was done in time has lost nothing rests on the order in which it reports
its error and tells the watcher, and on the guard being dropped by the watcher only, after
it was told or timed out (`LogKept`, `ClosedOnce`). The watcher does not join the
thread, so a report after `done_tx.send` would be lost; the mutant is that one.
`WatcherCanExit`: the watcher never waits for a guard another thread has.

**`DeviceIdProofs`** (any launches of either head). `SingleInstance` proves
`OneInstance` together with the types, which say who has a mutex handle: a
process beyond the mutex found no handle of its head. `OneHeadHasOneId` assumes
that all launches are of the Rust head and proves `DeviceIdStable`. The invariant
`FileBacksIds` says that every id in use is the one in the file, and that none is in
use while a process is about to write one; the finding shows that the
assumption cannot be dropped.

**`StartHostProofs`** (any number of attempts, any launches). `TokenSurvives` proves
`UsableTokenKept`. `OneNewest` is why two requests with one token do no harm: with a server
that retires tokens, the newest one is either stored or on its way to exactly one task,
and every other task has sent an older one, which the server refuses. It holds
because the token task is spawned and so outlives its attempt.
`StartHostTypeCorrect` includes the limits of the poll interval.
`ExternalAuthAlwaysComplete` and `UserIdGoesWithAccount` rest on `LaunchInv`: the
configuration in use is that of one launch, it is valid unless the start has
failed, only a device-code launch polls, and a Windows user id is that of the launch's user
name. They hold for every environment, settings file and user name, where the run has
a few hundred. `UserIdGoesWithAccount` proves `UserIdFollowsAccount` for names of any length and
any digest. The account a name stands for is defined by where its last separator
and its outer blanks are, without the code's functions, and the proof is that trimming,
stripping the domain and trimming again cut out exactly these characters
(`NormalizedIsAccount`, `AccountIsNormalized`, `AccountIsUnique`). Only the
digest keeps apart what replacing characters has made alike, so accounts whose digests
collide may share an id.
`CallbacksUseTheirOwnToken` and `NoStartWithoutToken` rest on `ConnectionInv`: nothing of
the connection exists before the options do, tasks are those of attempts that were made,
a request goes out with an issued token only, and a link that is or was up had a
completed exchange. A callback can therefore not take the answer of an abandoned
attempt's task for its own, and an agent with the auth service does not run
unauthenticated, whatever fails on the way.

`DedupCacheProofs` and `AggregatorProofs` both need that a nonempty set of naturals has a
least element, for the earliest queue entry and for the oldest event of a batch; it
is proved from the well-foundedness of inclusion, since the library's least-number
principle takes an operator as its parameter.

Only model-checked: liveness (`BucketsGetFlushed`, `ShutdownEnds`, `IntakeMoves`,
`ShutdownReachesFlush`, `CloseAlwaysExits`, `SignInEnds`, `CallbacksEnd`), as fairness
and ENABLED are out of the prover's reach. Every other property of a passing run is a
theorem.

## 6. Not modelled, and the plan

Not modelled because there is no state to get wrong: toast XML, URL syntax, text
truncation, ack JSON, logging, the Win32 calls, test publishers. NATS, MSAL,
reqwest and the file system are external.

The Go and C# agents are not modelled, except for the device-id file the C# head
shares. They repeat the design with other concurrency and would be specified
beside this one, against `AtMostOnceDelivery` and `DuplicateFilter`; the places
where they differ in ways that matter (render under the caller, cancellation
without a drain, acks nobody awaits) are in the `hazards` of `PROJECT.json`.
Real time across components is not modelled: that Close allows the agent exactly
as long as the aggregator's drain may take is a hazard without a property.

Order of the work:

1. done: duplicate filter; aggregator, pipeline, host and the delivery promise;
   image cache; parser; Windows process; the theorems on the
   duplicate filter, the image cache and the aggregator.
2. done: configuration, sign-in, NATS authentication and start of both Rust heads;
   Windows start-up, single instance and device id; the theorems on them.
3. done: the remaining invariants of the aggregator; the host, that it implements the
   aggregator and the delivery promise; the cap of the image cache; the Windows
   process; configuration and user ids; the parser's keys.
4. done: the parser's scan; what a call of the duplicate filter answers, what a step of
   the host may never do, its limits and what a clean stop guarantees; whole and
   uniform toasts; that a start is authenticated.
5. open: the Go and C# agents against the same abstract specifications.
