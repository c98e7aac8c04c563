# A TLA+ model of rosetta_recorder_cpp

`rosetta_recorder_cpp` is a ROS 2 lifecycle node that records *episodes* into
rosbag2 bags. A client starts an episode with the `record_episode` action or
with `~/start_recording`; the node writes the topics a contract names until the
episode times out, is stopped or cancelled, fails, or a lifecycle transition
takes it away; then it closes the bag, stamps its metadata and settles the
goal. This directory models that behaviour, checks it with TLC on small
instances and proves its safety with TLAPS for every instance.

Paths below are relative to the repository root. "The node" is
`src/episode_recorder_node.cpp`.

## Inventory

| Component | State | Operations | Modelled in |
|---|---|---|---|
| Writer queue and writer thread | `queue_`, `queue_bytes_`, `flush_requested_`, `flush_done_`, `writer_`, `writer_thread_running_`, the counters; the thread's local batch | `on_message`, `writer_thread_main`, `open_writer`, `close_writer`, the drain in `finish_recording`, `stop_writer_thread` | `WriterQueue` |
| Episode state machine | `is_recording_`, `start_pending_`, `stop_requested_`, `write_failed_`, `accepting_goals_`, `goal_handle_`, `current_goal_id_`, `last_bag_dir_` | action, service, timer and lifecycle callbacks, `start_recording`, `complete_start`, `cancel_pending_start`, `on_recording_tick`, `finish_recording`, `settle_goal` | `EpisodeRecorder` |
| What the action promises | the state of each goal | reject, accept, cancel, settle | `GoalProtocol` |
| What the queue promises | messages delivered and not yet written, the open bag | open, deliver, write, forget, close | `MessageLog` |
| Process (`src/main.cpp`) | none | one single-threaded executor, then destruction, also by an exception | atomicity of callbacks, `Destroy`, `Unwind` |
| Topic table | `topics_`, `topic_index_`, retained latched messages | `build_topic_list`, `create_subscription_for`, `discover_topics`, `prepare_resubscribes`, `destroy_discovered_subscriptions`, `on_message`, the flush of `open_writer` | `TopicTable` |
| Contract loader (`src/contract.cpp`) | none | `load_contract` | `Contract` |
| Bag names, `metadata.yaml` | files | `create_bag_dir`, `write_metadata`, `on_delete_last_bag_service` | `BagFiles` |
| Parameters | configuration members | `declare_parameters`, `on_configure` | constants and the outcomes of `on_configure` in `TopicTable` |
| Launch file, `tools/`, tests, CI | none | | not modelled |

How they interact. Two threads exist. The executor thread runs every callback
to completion, one after the other; the writer thread takes messages from the
queue in batches and writes them. They share the queue (under `queue_mutex_`),
the bag writer (under `writer_mutex_`), the topic table (under
`topics_mutex_`) and a few atomics. The executor waits for the writer thread in
two places: the drain at the end of an episode (`flush_cv_`, ten seconds at
most) and the join. The writer thread waits for the executor on `queue_cv_`.
The node is also a client of its own action server: `~/cancel_recording` asks
that server to cancel the goal, and the answer comes back as a later callback.

What is hard: the hand-off of a batch between two mutexes; the flush handshake
over two flags and two condition variables; a stop flag that is not under the
mutex of its condition variable; a thread that outlives the episode it was
started for; a tick that reads shared flags one by one; an answer that arrives
an episode late; a start that is deferred to a timer; a goal that four parties
may end; positions in a vector that callbacks, queued messages and a thread keep
while the vector shrinks; a file that is rewritten in place, in several
attempts. `PROJECT.json` lists each hazard at its line.

What makes each part correct: the queue loses nothing silently, writes each
message at most once and in order, counts honestly, and neither side waits
forever; every goal is settled once, with an outcome that fits its reason, a bag
that is its own, and a stop, once asked for, ends the episode; an index always
names the topic it was made for, and a bag opens with the latest retained sample
of each latched topic; a bag has a directory of its own, and what is missing from
its metadata was reported.

## Modules

### `WriterQueue`

Variables carry the names of the members they model. `xpc` says where the
executor is inside `finish_recording` or `stop_writer_thread` (`spin` between
callbacks), `task` which callback that is; `wpc` says where the writer thread is
in its loop, with `batch` and `flushing` its locals. A step is one critical
section or one access to an atomic. `queue_mutex_` is held from the predicate
test to the block and while a batch is taken, `writer_mutex_` while a batch is
written; `QueueMutexFree` and `WriterMutexFree` say so, and the executor's
steps are guarded by them. The take of a batch is one message per step: nothing
can interleave, and no recursion is needed.

| Code | Action |
|---|---|
| `start_recording`, `begin_episode`, `open_writer` | `StartRecording`, `OpenFails`, `RetainedWriteFails` |
| `on_message` while recording | `Enqueue`, `Drop` |
| `finish_recording` up to the wait, its two ends, `close_writer` | `EndEpisode`/`ShutdownRecording`, `DrainDone`, `DrainTimeout`, `CloseWriter` |
| `stop_writer_thread` and callers | `OnCleanup`, `OnShutdown`, `Destroy`, `StopWriterThread`, `Join`, `CleanupDone`, `ShutdownDone`, `DestroyDone` |
| the wait of `writer_thread_main` | `TestPredicate`, `Block`, `SpuriousWakeup`, `Exit` |
| its batch | `BeginTake`, `TakeMessage`, `EndTake`, `LockWriter`, `DiscardBatch`, `WriteMessage`, `WriteFails`, `SkipMessage`, `Acknowledge` |

Abstractions. A message is its size plus two history fields, its place in the
order of delivery and the episode it was delivered in. A bag is the sequence of
live messages in it and the number of latched ones. Why an episode ends is left
to `EpisodeRecorder`. The history variables `bag`, `retained`, `lost`,
`arrivals` and `episode` are read by no guard except as bounds, and by
`SkipMessage`, where a message of an earlier episode stands for a topic index
that `destroy_discovered_subscriptions` has removed. rosbag2's `open`,
`create_topic` and `write` may throw; its `close`, and the creation of the
thread, succeed.

### `MessageLog`

What the queue promises, without threads, batches or locks: a bounded log that
keeps the order of delivery, writes each message at most once and to the open bag
only, and otherwise gives messages up only from an end of what it holds.
`WriterQueue!KeepsMessageLog` states that `WriterQueue` implements it. The
refinement mapping makes the batch and the queue one sequence
(`pending <- batch \o queue`, capacity a queue and a batch), so taking a batch is
a stuttering step, and everything between the two mutexes is hidden. The log
does *not* promise that a message goes to the bag of its own episode: the code
does not either (finding 1).

### `EpisodeRecorder`

A callback is one step, except where the writer thread can get in between: the
tick reads `write_failed_` (`TickSeesFailure`, `TickSeesNoFailure`) before the
rest (`TickEnds`, `TickFeedback`), and `finish_recording` waits for the drain
(`FinishDone` is everything after it). The writer thread is reduced to
`WriteFails`. External code is modelled from its use: a goal's states in
`rclcpp_action`, including that a live goal whose handle is destroyed becomes
CANCELED (`Dropped`); the node's cancel calls and their answers as two queues of
messages; the lifecycle's primary states. A bag is the number of its episode, its
metadata the goal id stamped into it. `write_metadata` and `close()` may fail. An
exception nobody catches (subscribing again in `prepare_resubscribes`, closing a
bag whose start failed, `close()` in a tick) takes the executor to `thrown`, from
where `main` may destroy the node (`Unwind`). Destruction (`Teardown`) answers no
goal: `action_server_` is declared after `goal_handle_` and so destroyed before it,
and the join that comes first may never return (finding 2). The clock may pass the maximum
duration, stand still, or be set back (`ClockExpires`, `ClockSetBack`).
`producer`, `failed`, `asked` and `close_threw` are history.

### `GoalProtocol`

The abstract specification: goals are refused or taken, at most the new one is
alive, a goal being cancelled can only end CANCELED, outcomes are final.
`EpisodeRecorder!KeepsGoalProtocol` states that the recorder implements it, with
the identity on `goal_state` as refinement mapping.

### `Contract`

`load_contract` as operators over an abstract document: which documents load
(`Loads`) and which topics they give, in which order, with which QoS and
buffering strategy (`Topics`). The document is what the YAML library hands over:
nodes with a kind, words with a spelling. It has no state; `TopicTable` extends it.

The second part is the QoS conversions: `Requested` is `to_rclcpp`, which drops the
depth under keep_all and the publisher-only policies of a topic that is not
discovered; `Offered` is `to_offered_qos` and `OfferedYaml` is
`to_offered_qos_yaml`, the two forms in which a bag advertises a topic. A duration
is its whole seconds, and `Cast` is the narrowing to `int32_t` in `duration_from`.
The widths are constants, `MaxInt32` and `RmwInfinite`, and `WidthAssumption` says
what matters of them: rmw's infinite duration is larger than an `int32_t`, and its
low 32 bits are those of a non-negative number. Of the real values that is so, with
9223372036 mod 2^32 = 633437444 below 2^31 - 1. TLC uses 7 and 34, with
34 mod 16 = 2.

### `TopicTable`

`topics` and `topic_index` as in the code; an entry adds to `TopicState` the index
its callback captured (`sub`) and, as history, what its subscription has
delivered (`seen`, `live`) and for which start it was made anew (`made`); a retained
sample keeps the subscription it came through (`via`). The code reads an index in three places, and each is kept: `on_message`
uses the captured one, a queued message carries it, the writer thread looks the
name up when it writes (`LookUp`), possibly after the table has changed. Samples of
a topic are numbered. A subscription delivers them in ascending order and may miss any; a
new one to a latched topic may be given any of the old ones again, as publishers of
any depth may hold them, a new one to another topic none. Where a topic has several
publishers, the numbering takes them to be delivered in one order. `CopyQos` is the
conversion of what rmw reports of a publisher, policies of four or more values, to
the booleans and numbers of a `QosSpec`. The steps are `OnConfigure` with its two ways to fail
(`ConfigureFails` before it touches the table, `SubscribeFails` with subscriptions
left behind), `OnMessageIdle` and `OnMessageRecording`, the starts (`StartLive`,
`StartFails`, `StartDeferred`, `StartThrows`, `CompleteStart`,
`CompleteStartFails`, `CancelPendingStart`), `FinishRecording`, `CloseThrows`,
`OnCleanup` and `OnShutdown`. Goals and services are reduced to starts and ends, the
writer thread to `WriteQueued` and `LoseQueued`.

### `BagFiles`

The disk. A path is a reading of the clock, at the resolution of the name style,
and a suffix; `metadata.yaml` is absent, parses or is broken, and has rosbag2's
entries, the recorder's, both or neither. `CreateBagDir` looks a free name up,
`OpenBag` makes the directory later. `write_metadata` is one step per attempt that
fails, and two for one that gets as far as writing: `Truncate` (the document is
loaded, `std::ofstream` has emptied the file) and `WriteDone` or `CutShort`. A start
that fails after the directory was made closes the bag in its catch block, and a
`close()` that throws may have got some way: both may leave `metadata.yaml` there or
not. The faults are another recorder in the same directory, a clock that stands still or
goes back, a disk that fails at any point, and `Crash` with `Restart`.

### The proof modules and the MC modules

`WriterQueue_proofs`, `WriterQueue_refinement` and `WriterQueue_accounting` hold
the theorems about `WriterQueue`; `EpisodeRecorder_proofs`, `BagFiles_proofs`,
`Contract_proofs` and `TopicTable_proofs` those about the modules they are named
after; `NaturalLemmas` the two facts on numbers the others need; see *Proofs*. `MCWriterQueue`, `MCEpisodeRecorder`,
`MCTopicTable` (which also holds the contracts and the ROS graph of its run) and
`MCBagFiles` are the modules TLC is started on.

### Why there is no module that composes them all

The components meet in few places, and each module keeps the other side as
actions that may happen whenever the other side could make them happen: a failed
write in `EpisodeRecorder`, the end of an episode in `WriterQueue`, a lagging
writer thread in `TopicTable`, a start or an end in `BagFiles`. So every behaviour of
the whole is, up to the abstractions named above, one of each part, and what is
safe in the part is safe in the whole;
the product of the state spaces (over 10^6 states each) is out of TLC's reach.

Each module contains *seeded faults*: operators, marked as such in their
comments, that stand directly before the definition they distort. They are used
by no specification; each shows that a property notices a plausible bug.

## Runs

| Run | Result | What it shows |
|---|---|---|
| `writer_safety` | pass, 1.1M states | Conservation, order, counters, queue limits, no write to a closed bag, nothing left after a join; refinement of `MessageLog` |
| `writer_liveness` | pass, 147k states | Every message settles, `finish_recording` returns without its timeout, an acknowledged flush is complete |
| `tail_lost` | violation | The tail of an episode can be discarded in silence |
| `join_hang` | violation | `stop_writer_thread` can wait forever |
| `episode_safety` | pass, 1.3M states | Goals, outcomes, stamps and lifecycle; refinement of `GoalProtocol` |
| `episode_liveness` | pass, 174k states | A stop is never dropped; a cancelled or expired goal is answered, unless the process is ending or a transition failed to close the bag |
| `goal_hijacked` | violation | A refused `~/start_recording` takes the goal away from its episode |
| `clean_finish` | violation | A failed write can end as SUCCEEDED |
| `stale_stop` | violation | A late refusal stops the next episode |
| `topic_table` | pass, 1.0M states | Indices keep naming their topics, retained samples are bounded, the latest, and of the right subscription, discovered topics connect but for durations a cast cuts, and are torn down, the table follows the contract |
| `bag_files` | pass, 303k states | Fresh names, a missing stamp is reported, only the last finished bag is deleted, stamping ends |
| `stamp_retry` | violation | A stamp that is retried after a failed write drops rosbag2's own entries |

Bounds. `writer_safety` has two episodes (the least in which anything can be
carried over), three messages of two sizes against a queue of two messages or
three bytes (each limit is reached alone), batches of two (so a batch can be
shorter than the queue's history and a flush can find it full), one latched
message. `writer_liveness` uses a queue of three and batches of two, so that a
flush takes more than one turn. `episode_safety` has two goals and two episodes,
enough for a leftover of one goal to meet the next, and one cancel call in
flight; `episode_liveness` has one goal and two episodes, so the other is
started by a service. `topic_table` has two contracts that load (with and without
a deferred start, a section of every kind, a topic listed twice, a `/clock` of its
own) and nine that do not, each for another reason; two views of a graph with an
unlisted, an excluded, an included, a blacklisted and an untyped topic; publishers
with unknown policies, with keep_all and a depth, and with rmw's infinite durations; four
samples over a retained, a resubscribed and a discovered topic, one of them too
large; two episodes, so that what the first leaves meets the second; two messages
under way. `bag_files` has two episodes and a foreign directory on two
readings of the clock, so three directories may want one name; three attempts per
stamp, so one can fail, lose what it found, and be retried with and without
success; one restart. All runs check for deadlock; the end of the process is the stuttering
step `Gone`.

Fairness. `WriterQueue!Fairness` is weak fairness of the writer thread (the
operating system schedules it and the storage answers) and strong fairness of
the executor inside `finish_recording` and `stop_writer_thread`, because it
competes for mutexes that are released again and again. There is none on
`SpuriousWakeup`, and none on `DrainTimeout`, so what holds does not rest on
either. `EpisodeRecorder!Fairness` says the executor serves a timer or a call
that stays ready (strong, since a ready callback waits while another one runs), and
that the drain and the metadata retries are bounded. There is none on `Unwind`: the
join on the way out may hang, so a process that an exception is ending is an
exception in `GoalTerminates`, as is a transition in which `close()` threw. `BagFiles!FairSpec` says the loop of
`write_metadata` runs on, whatever each attempt meets; `StampTerminates` shows the
bound that `EpisodeRecorder` assumes. Nothing is assumed of
clients, of the clock or of lifecycle managers.

### Findings

The six violated claims and their causes, with the lines and the
quotations in `PROJECT.json`:

1. `finish_recording` waits for an empty *queue*, not for an empty writer
   thread. The last batch can be discarded (`tail_lost`). In other behaviours of
   the model, for which there is no run, it ends in the next bag. What remains
   true: the queue itself never crosses an episode (`QueueHoldsOneEpisode`),
   only the tail is lost that way (`LossIsTail`), and an acknowledged flush is
   complete (`AckMeansDrained`); waiting for `flush_done_` alone would do.
2. `stop_writer_thread` sets its flag outside `queue_mutex_`: a lost wakeup.
3. `on_start_service` drops the goal before it knows whether it may start.
4. `write_failed_` is not looked at again after the drain.
5. The answer to a cancel call is not tied to the goal it was about.
6. `write_metadata` truncates `metadata.yaml` before it writes it, and a retry
   builds on what is left. What remains true: nothing but a write that was cut
   short loses rosbag2's entries (`InfoLostOnlyWhenCutShort`), and a stamp that is
   missing was reported (`StampedOrReported`); writing a second file and renaming
   it would do.

Met while modelling, and not a run of its own: `bag_path` is empty for a start
that fails or is cancelled while deferred, where `README.md:160` has it populated
on every path; a goal in CANCELING ends CANCELED also when the reason is `error`
or `node_deactivated`, which the table at `README.md:150-156` does not say; and
`settle_goal`'s guard against a cancel that never reached CANCELING is never
needed (`OutcomeFitsReason`); topics discovered for a start that failed or was
cancelled stay in the table, subscribed, until the next episode ends
(`DiscoveredTornDown` has the exception); the per-topic summary of
`finish_recording` skips silent discovered topics, but these are gone from the
table by then; `tasks` that are no mappings fail inside the YAML library and not as
the `ContractValidationError` of `contract.hpp:140`; the failed start of a
resubscription is thrown out of the callback and ends the process.

Two comments on QoS hold with an exception that `DiscoveredConnects` states. The
comment at `src/contract.cpp:45` calls the pair of `kInfiniteSec` the infinite
duration "exactly"; the cast below it cuts a longer one. If rmw reports a publisher's unlimited deadline or
lease with more seconds than an `int32_t` holds, which is what the model takes it to
do, the subscription asks for less than the publisher offers and the two do not
connect. What rmw reports is not in this repository, so this is no finding. And
"Same values as to_offered_qos_yaml()" (`src/contract.cpp:86`) is so but for that
cast and for the depth under keep_all.

### Hazards no property excludes

Seven hazards of `PROJECT.json` have no property, for the code does nothing against
them, and each has a note: a batch held across episodes that meets a changed table
(node, line 657); a `close()` that throws out of `finish_recording` (1165) or, like
a resubscription, out of a start (929); a thread that cannot be created (867); a
latched sample that arrives while recording (581) or is too large (594) and so
misses the buffer; a section that is not a sequence (`src/contract.cpp:202`). The
properties near them (`WrittenUnderOwnName`, `NoGoalLeftBehind`, `GoalTerminates`,
`LatchedKeptOrRecorded`, `ContractTopicsInOrder`) have just these cases as
exceptions, so they say that nothing else goes wrong there.

## Proofs

TLAPS checks the theorems below for all values of the constants that satisfy the
assumptions their module names: in `WriterQueue` that sizes and limits are
naturals, that a batch takes at least one message and that the bounds are
naturals; in `EpisodeRecorder` that the bounds of the instance are naturals; in
`BagFiles` that so are they, and the readings of the clock positive, and that a
stamp is attempted at least once. `TopicTable` assumes that the documents are
what the YAML library can hand over (`Docs`: nodes of any kind, any words, any
depths, with topic names from `Names`), that the graph lists each name once, as
`std::map` does, with types and with publishers' profiles of any values rmw can
report (`Profiles`), that rmw's infinite duration is as described under `Contract`, that with
`use_sim_time` the clock's topic is among the names, and that the bounds are
naturals and samples are published on finitely many topics. Nothing is assumed about
what a document lists, about the order of steps or about fairness.

| Module | Theorem | Property |
|---|---|---|
| `WriterQueue_proofs` | `Invariance` | `IndInv` |
| | `TypeCorrect` | `TypeOK` |
| | `WriterLive` | `WriterIsLive` |
| | `WrittenInOrder` | `WrittenOnceInOrder` |
| | `CountIsRight` | `CountMatchesBag` |
| | `AcknowledgedIsDrained` | `AckMeansDrained` |
| | `QueueIsOneEpisode` | `QueueHoldsOneEpisode` |
| | `JoinedIsDrained` | `NothingLeftAfterJoin` |
| `WriterQueue_refinement` | `MemoryIsBounded` | `MemoryBounded` |
| | `ImplementsMessageLog` | `KeepsMessageLog` |
| `WriterQueue_accounting` | `QueueCountsRight` | `QueueAccounting` |
| | `MessagesAreConserved` | `Conserved` |
| | `DropsAreCounted` | `DropCountHonest` |
| | `DiscardsAreTails` | `LossIsTail` |
| `EpisodeRecorder_proofs` | `TypesHold` | `TypeOK` |
| | `HandleTracksGoal` | `HandleIsTheLiveGoal` |
| | `GoalsAreAnswered` | `NoGoalLeftBehind` |
| | `RecordsOnlyWhenActive` | `OnlyActiveRecords` |
| | `OutcomesFit` | `OutcomeFitsReason` |
| | `StampsAreOwn` | `StampNeverForeign` |
| | `ResultsNameOwnBags` | `ResultNamesOwnBag` |
| | `ImplementsGoalProtocol` | `KeepsGoalProtocol` |
| `BagFiles_proofs` | `TypesHold` | `TypeOK` |
| | `NamesAreOwn` | `NameIsOwn` |
| | `StampsAreThere` | `StampedOrReported` |
| | `InfoIsKept` | `InfoLostOnlyWhenCutShort` |
| | `DeletesOnlyTheLast` | `DeletesOnlyLastFinished` |
| `Contract_proofs` | `TopicsInSectionOrder` | what `load_contract` returns, and its order |
| | `BufferedTopicsAreLatched` | which topics it lets be buffered |
| `TopicTable_proofs` | `Invariance` | `IndInv` |
| | `TypesHold` | `TypeOK` |
| | `IndexIsInverse` | `IndexMatchesTable` |
| | `CallbacksFindTopics` | `CallbackFindsItsTopic` |
| | `BuffersStayBounded` | `BuffersBounded` |
| | `LatestIsKept` | `LatchedKeptOrRecorded` |
| | `ResubscribedAreFresh` | `ResubscribedIsFresh` |
| | `WrittenUnderOwn` | `WrittenUnderOwnName` |
| | `DiscoveredAreCutBack` | `DiscoveredTornDown` |
| | `DiscoveredAreConnected` | `DiscoveredConnects` |
| | `ContractOrderIsKept` | `ContractTopicsInOrder` |

### `WriterQueue`

None of the properties is inductive alone. `IndInv` adds to them:

* `ThreadInv` relates `wpc` to `writer_thread_running_` and to the batch. A batch
  is non-empty exactly from the take to the end of its write; without this an
  acknowledged flush could leave messages behind.
* `BagInv` says when `writer_` may be set: while recording, while an episode is
  being finished, and during the destruction of a recording node. Hence a bag
  that is open is the current episode's, which makes `CountMatchesBag` inductive
  although the batch may be of an earlier one.
* `QueueInv` says who may leave messages queued. It carries the argument that the
  queue is empty whenever the thread is gone: the thread leaves only when it
  finds it empty and nobody delivers while the executor joins.
* `RecordInv` bounds all ids by the number of deliveries and keeps the bags of
  later episodes empty, so that the next message is newer than every other.

The proof has one lemma per action and conjunct group that the action can
disturb, on top of lemmas about order under `Append`, `Head` and `Tail`, and one
step that combines them over the disjuncts of `Next`.

The refinement of `MessageLog` maps the batch and the queue to one sequence.
`MemoryBounded` supplies the log's capacity; each action of the two threads is then
shown to be one action of the log, or to leave `batch \o queue`, the bags and the
open bag alone. What the log asks of a discard, that it takes an end of what is
held, is where the order of the mapped sequence is used.

The accounting theorems rest on two further invariants. `DropInv` says that what
was dropped is of no later episode than the current one, so the counter that an
episode starts at zero counts its own. `LossInv` says that nothing of an episode is
pending any more, in the queue or in a batch, once a batch of it found no bag, so
nothing delivered later in it can still be written.
`QueueAccounting` compares `queue_bytes_` with a
sum over the queue. The library's induction theorems cannot be used with the
installed provers, so the sum's behaviour under `Append` and `Tail` is proved from
the least-number principle (`NaturalLemmas!LeastNumber`): the set of lengths at
which a partial sum differs has no least element.

### `EpisodeRecorder`

`IndInv` joins the type invariant and the properties with three relations.

* `ExecutorInv`: where the executor is, against the lifecycle and the episode. A
  transition has closed the door to goals (`accepting_goals_`) before it finishes
  an episode, and a finish whose reason is `cancelled` has its goal in CANCELING.
* `OwnerInv`: who owns the episode under way. `goal_handle_` and
  `current_goal_id_` may be forgotten while the episode goes on (finding 3), and
  then the bag is stamped with no goal; but they never name a goal that does not
  own the episode. This is what `StampNeverForeign` needs.
* `ResultInv`: a goal has a result exactly from the step that ends it, and the bag
  under way is in no result yet. It makes `ResultNamesOwnBag` inductive.

That `settle_goal` finds the goal it settles alive is `HandleIsTheLiveGoal`; it is
also the fact on which the refinement of `GoalProtocol` turns. Every step of the
recorder is one `Reject`, `Accept`, `Cancel` or `Settle` of the protocol or leaves
all goals alone; the start that drops a live goal is a `Settle` as CANCELED.

### `BagFiles`

* `DirsInv`: there is one directory per episode at most, and at most `MaxForeign`
  of other processes. Hence, by counting, one of the suffixes `create_bag_dir` tries
  is free (`SomeSuffixIsFree`), and the least of them exists
  (`FreeNameIsFree`, from `LeastNumber`). Between the look-up and `open` only another
  process can take the name, which is the exception in `NameIsOwn`.
* `EpisodeInv`: the outcome of the episode under way is still to come, its
  directory is its own once made, and an attempt that is writing has a number below
  `kMetadataRetryCount`, so the last one reports.
* `LastInv`: `last_bag_dir_` is empty or the directory of the last finished episode,
  which makes `DeletesOnlyLastFinished` an action property of the invariant.

### `Contract` and `TopicTable`

What the loops return comes first. `FlattenSeq`, `BuildTopicList` and `Keep` are
functions defined by recursion on a length; `NaturalLemmas!RecursionExists` shows
that such a function exists, and `LeastNumber`, applied to the set of lengths at
which a claim fails, takes the place of the induction.

* `Laid` describes sequences laid end to end: each element comes from one of them,
  in their order. From it `TopicsInSectionOrder`, and, with what `ItemOK` has
  checked, `BufferedTopicsAreLatched`.
* `TableOf` describes the table `build_topic_list` has made of the first *k*
  listed topics: `index` is the inverse of `topics`, an entry has the first listing of its
  name, every name is there, a later entry was listed later.
* `KeepDistinct` is what discovery needs (no name is found twice), `KeepFront` what
  cutting back needs (if the elements to keep are the first ones, they stay where
  they are).

Then the invariant. `Good` collects what it says of one entry, so that each way an
entry changes (made, subscribed, renewed, delivered to, published on) is one
lemma; the rest relates entries, and is proved step by step:

* `FollowsContract`: the contract's topics come first, as built, and exactly what is
  behind them is discovered. It is the reason that cutting the discovered topics
  out moves no other, so that captured indices stay right, and carries
  `ContractTopicsInOrder`, of the sections the loader reads, from the build to every
  later state.
* `SpecInv`: only a latched topic of the contract, with room for a sample, is
  buffered; a discovered one is as it was found. `LatchedKeptOrRecorded` needs it,
  and so does `DiscoveredConnects`, with `CopiedConnects` on what the conversions
  keep of a profile, which rests on `CastKeeps`: a duration survives the cast unless it
  is rmw's infinite one.
* `BufferInv`: a buffer has only what came through the entry's present subscription
  (`via = made`), whatever old samples that one was given. `MadeInv`: while a start
  is deferred or an episode recorded, that subscription is the one made for this
  start, if the topic is resubscribed. Hence `ResubscribedIsFresh` at the moment a bag
  is opened, also after starts that were cancelled or failed.
* `QueuedInv`: what is under way is of no later episode than the current one, of an
  earlier one while a start is deferred, and what is of the episode being recorded
  finds its own topic at its index; `WrittenUnderOwnName` follows when it is written.
* `HeadInv`: what a bag was opened with is of topics that stay in the table until it
  is closed.

### Only model-checked

All liveness: `Fairness` and `ENABLED` are outside the prover's reach. That holds
for every temporal property of `writer_liveness` and `episode_liveness` and for
`StampTerminates` in `bag_files`. Every invariant, action property and refinement
that a passing run checks for safety is also proved.

## Not modelled, and why

The text of things: YAML syntax, the digits of a directory name, UUIDs
(`format_goal_id`), log lines and error messages are formatting. Regular
expressions are sets of matching names, other parameters only pass through. The
launch file and the tools have no part in the recorder's behaviour. The failure of
`std::thread`'s constructor and a throwing `close()` are absent from `WriterQueue`
(the latter is in `EpisodeRecorder`, `TopicTable` and `BagFiles`). Several
publishers of one topic with different QoS, and types that differ between the
contract and the graph, are left to DDS.

## Plan

The models are complete as far as the inventory goes, and their safety is proved.
What could follow: facts about finding 1 that hold in spite of it, stated between
`WriterQueue` and `TopicTable` (which topic a leftover message is written under when
the table has changed), and the order of the retained samples at the head of a bag
as a theorem of its own.
