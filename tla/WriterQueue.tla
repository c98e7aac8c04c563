----------------------------- MODULE WriterQueue -----------------------------
(***************************************************************************)
(* The hand-off between the executor thread and the writer thread of       *)
(* EpisodeRecorderNode: the bounded message queue, the writer thread that  *)
(* drains it in batches into the open bag, the flush handshake that ends   *)
(* an episode, and the stop / join of the thread.                          *)
(*                                                                         *)
(* Two threads run.  The executor runs every callback to completion, one   *)
(* at a time; xpc says where inside finish_recording or stop_writer_thread *)
(* it is blocked.  The writer thread runs writer_thread_main; wpc says     *)
(* where in its loop it is.  A step is a critical section or an access to  *)
(* an atomic; the two mutexes are held exactly where wpc says so (see      *)
(* QueueMutexFree and WriterMutexFree).                                    *)
(*                                                                         *)
(* rosbag2 is external: opening a bag and writing a message may throw,     *)
(* closing a bag succeeds.                                                 *)
(***************************************************************************)
EXTENDS Integers, Sequences, FiniteSets

CONSTANTS
    Sizes,          \* serialized sizes a message may have
    MaxMessages,    \* kWriterQueueMaxMessages
    MaxBytes,       \* kWriterQueueMaxBytes
    BatchMax,       \* messages taken per lock acquisition (256 in the code)
    MaxArrivals,    \* bound: messages delivered while recording
    MaxEpisodes,    \* bound: bags opened
    MaxRetained     \* bound: latched messages written when a bag opens

ASSUME SizesAssumption == Sizes \subseteq Nat
ASSUME LimitsAssumption ==
    /\ MaxMessages \in Nat
    /\ MaxBytes \in Nat
    /\ BatchMax \in Nat \ {0}
ASSUME BoundsAssumption ==
    /\ MaxArrivals \in Nat
    /\ MaxEpisodes \in Nat
    /\ MaxRetained \in Nat

VARIABLES
  \* shared between the threads
    is_recording,      \* is_recording_
    writer,            \* writer_: NoBag, or the episode whose bag is open
    queue,             \* queue_
    queue_bytes,       \* queue_bytes_
    flush_requested,   \* flush_requested_
    flush_done,        \* flush_done_
    running,           \* writer_thread_running_
    messages_written,  \* messages_written_
    messages_dropped,  \* messages_dropped_
    write_failed,      \* write_failed_, set together with stop_requested_
  \* the executor thread
    xpc,               \* where the executor is
    task,              \* the callback it is running while xpc # "spin"
  \* the writer thread
    wpc,               \* where the writer thread is
    batch,             \* its local batch
    flushing,          \* its local flag of the same name
  \* the bags, and the history the properties speak of
    episode,           \* bags opened so far
    arrivals,          \* messages delivered while recording so far
    bag,               \* the live messages each bag holds, in file order
    retained,          \* the latched messages each bag got when it opened
    lost               \* the messages that reached no bag, by what became of them

executor == <<xpc, task>>
writerThread == <<wpc, batch, flushing>>
flush == <<flush_requested, flush_done>>
counters == <<messages_written, messages_dropped, write_failed>>
bags == <<bag, retained, episode>>
vars == <<is_recording, writer, queue, queue_bytes, flush, running, counters,
          executor, writerThread, bags, arrivals, lost>>

-----------------------------------------------------------------------------
NoBag == 0
Episodes == 1 .. MaxEpisodes

(* QueuedMessage.  The id is the message's place in the order of delivery  *)
(* and ep the episode it was delivered in; the code keeps neither, the     *)
(* properties do.  The payload is abstracted to its size.                  *)
Message == [id : 1 .. MaxArrivals, ep : Episodes, size : Sizes]

(* What can become of a message that reaches no bag: refused by a full     *)
(* queue, refused by the storage, cleared when the drain times out, taken  *)
(* by the writer thread but found no bag to write to, or found no topic.   *)
Fates == {"dropped", "failed", "abandoned", "discarded", "skipped"}

Elements(s) == {s[i] : i \in 1 .. Len(s)}

Lose(fate, ms) == lost' = [lost EXCEPT ![fate] = @ \cup ms]

(* queue_mutex_ is held by the writer thread from its predicate test until *)
(* it blocks, and while it moves messages into its batch; writer_mutex_ is *)
(* held while it writes a batch.                                           *)
QueueMutexFree == wpc \notin {"prewait", "take"}
WriterMutexFree == wpc # "write"

(* Seeded fault: the notification is forgotten.                            *)
NotifyNobody == wpc' = wpc

(* notify on queue_cv_: it reaches the writer thread only if it is already *)
(* blocked in the wait.                                                    *)
Notify == wpc' = IF wpc = "wait" THEN "top" ELSE wpc

-----------------------------------------------------------------------------
Init ==
    /\ is_recording = FALSE
    /\ writer = NoBag
    /\ queue = << >>
    /\ queue_bytes = 0
    /\ flush_requested = FALSE
    /\ flush_done = FALSE
    /\ running = FALSE
    /\ messages_written = 0
    /\ messages_dropped = 0
    /\ write_failed = FALSE
    /\ xpc = "spin"
    /\ task = "none"
    /\ wpc = "absent"
    /\ batch = << >>
    /\ flushing = FALSE
    /\ episode = 0
    /\ arrivals = 0
    /\ bag = [e \in Episodes |-> << >>]
    /\ retained = [e \in Episodes |-> 0]
    /\ lost = [f \in Fates |-> {}]

-----------------------------------------------------------------------------
(* The executor: starting an episode.                                      *)

(* Seeded fault: the counter keeps the previous episode's messages.        *)
ResetCountersNoWritten(k) ==
    /\ write_failed' = FALSE
    /\ messages_dropped' = 0
    /\ messages_written' = messages_written + k

(* Seeded fault: the drop counter keeps the previous episode's drops.      *)
ResetCountersNoDropped(k) ==
    /\ write_failed' = FALSE
    /\ messages_dropped' = messages_dropped
    /\ messages_written' = k

(* Seeded fault: the count starts one short.                               *)
ResetCountersOneShort(k) ==
    /\ write_failed' = FALSE
    /\ messages_dropped' = 0
    /\ messages_written' = k - 1

(* start_recording up to the opened bag: counters and write_failed_ reset, *)
(* then k latched messages written, and counted, into the new bag.  The    *)
(* reset and the opening are one step because writer_ is null in between,  *)
(* so the writer thread touches none of this.                              *)
ResetCounters(k) ==
    /\ write_failed' = FALSE
    /\ messages_dropped' = 0
    /\ messages_written' = k

OpenBag(k) ==
    /\ WriterMutexFree
    /\ writer' = episode + 1
    /\ retained' = [retained EXCEPT ![episode + 1] = k]

(* open_writer starts the drain thread once; the thread outlives the       *)
(* episode, so a later one finds it running and leaves the queue alone.    *)
StartWriterThread ==
    IF running
    THEN UNCHANGED <<running, wpc, queue, queue_bytes, flush>>
    ELSE /\ running' = TRUE
         /\ wpc' = "top"
         /\ queue' = << >>
         /\ queue_bytes' = 0
         /\ flush_requested' = FALSE
         /\ flush_done' = FALSE

CanStart == xpc = "spin" /\ ~is_recording /\ episode < MaxEpisodes

(* start_recording, open_writer and begin_episode when all of it works.    *)
StartRecording(k) ==
    /\ CanStart
    /\ episode' = episode + 1
    /\ ResetCounters(k)
    /\ OpenBag(k)
    /\ StartWriterThread
    /\ is_recording' = TRUE
    /\ UNCHANGED <<executor, batch, flushing, bag, arrivals, lost>>

(* open or create_topic throws: writer_ was never assigned.                *)
OpenFails ==
    /\ CanStart
    /\ episode' = episode + 1
    /\ ResetCounters(0)
    /\ UNCHANGED <<is_recording, writer, queue, queue_bytes, flush, running,
                   executor, writerThread, bag, retained, arrivals, lost>>

(* Writing a latched message throws after k of them: writer_ is assigned,  *)
(* and the catch block goes on to close_writer.                            *)
RetainedWriteFails(k) ==
    /\ CanStart
    /\ episode' = episode + 1
    /\ ResetCounters(k)
    /\ OpenBag(k)
    /\ xpc' = "close"
    /\ task' = "start"
    /\ UNCHANGED <<is_recording, queue, queue_bytes, flush, running,
                   writerThread, bag, arrivals, lost>>

-----------------------------------------------------------------------------
(* The executor: on_message while recording.                               *)

(* Seeded fault: the limit on bytes compares what is queued, not what      *)
(* would be.                                                               *)
QueueFullLate(size) ==
    \/ Len(queue) >= MaxMessages
    \/ queue_bytes > MaxBytes

QueueFull(size) ==
    \/ Len(queue) >= MaxMessages
    \/ queue_bytes + size > MaxBytes

Delivered(size) == [id |-> arrivals + 1, ep |-> episode, size |-> size]

Deliver ==
    /\ xpc = "spin"
    /\ is_recording
    /\ QueueMutexFree
    /\ arrivals < MaxArrivals
    /\ arrivals' = arrivals + 1

Enqueue(size) ==
    /\ Deliver
    /\ ~QueueFull(size)
    /\ queue' = Append(queue, Delivered(size))
    /\ queue_bytes' = queue_bytes + size
    /\ Notify
    /\ UNCHANGED <<is_recording, writer, flush, running, counters, executor,
                   batch, flushing, bags, lost>>

Drop(size) ==
    /\ Deliver
    /\ QueueFull(size)
    /\ messages_dropped' = messages_dropped + 1
    /\ Lose("dropped", {Delivered(size)})
    /\ UNCHANGED <<is_recording, writer, queue, queue_bytes, flush, running,
                   messages_written, write_failed, executor, writerThread, bags>>

OnMessage == \E size \in Sizes : Enqueue(size) \/ Drop(size)

-----------------------------------------------------------------------------
(* The executor: finish_recording.                                         *)

(* Seeded fault: the executor does not wait for the queue.                 *)
DrainPredicateTrue == TRUE

(* The predicate of the executor's wait_for on flush_cv_.                  *)
DrainPredicate == flush_done \/ queue = << >>

(* Entering finish_recording.  With an empty queue the predicate holds at  *)
(* once: flush_requested_ is set and cleared under one lock and nobody     *)
(* sees it.  Otherwise the executor blocks, giving up the mutex.           *)
FinishRecording(t) ==
    /\ xpc = "spin"
    /\ is_recording
    /\ QueueMutexFree
    /\ is_recording' = FALSE
    /\ flush_done' = FALSE
    /\ Notify
    /\ task' = t
    /\ IF queue = << >>
       THEN flush_requested' = FALSE /\ xpc' = "close"
       ELSE flush_requested' = TRUE /\ xpc' = "drain"
    /\ UNCHANGED <<writer, queue, queue_bytes, running, counters, batch,
                   flushing, bags, arrivals, lost>>

(* on_recording_tick ends the episode, or on_deactivate does.  Why it ends *)
(* is the subject of EpisodeRecorder.                                      *)
EndEpisode == FinishRecording("tick")

(* on_shutdown of a recording node.                                        *)
ShutdownRecording == FinishRecording("shutdown")

(* wait_for returns with the predicate true: notified, woken spuriously,   *)
(* or timed out at a moment when it happens to hold.                       *)
DrainDone ==
    /\ xpc = "drain"
    /\ QueueMutexFree
    /\ DrainPredicate
    /\ flush_requested' = FALSE
    /\ xpc' = "close"
    /\ UNCHANGED <<is_recording, writer, queue, queue_bytes, flush_done, running,
                   counters, task, writerThread, bags, arrivals, lost>>

(* Seeded fault: the drain gives up but leaves the queue as it is.         *)
ClearNothing == UNCHANGED <<queue, queue_bytes, lost>>

(* Ten seconds pass and the predicate is still false: what is queued is    *)
(* abandoned rather than carried into the next bag.                        *)
ClearAbandoned ==
    /\ queue' = << >>
    /\ queue_bytes' = 0
    /\ Lose("abandoned", Elements(queue))

DrainTimeout ==
    /\ xpc = "drain"
    /\ QueueMutexFree
    /\ ~DrainPredicate
    /\ ClearAbandoned
    /\ flush_requested' = FALSE
    /\ xpc' = "close"
    /\ UNCHANGED <<is_recording, writer, flush_done, running, counters, task,
                   writerThread, bags, arrivals>>

(* Seeded fault: the bag is closed without taking writer_mutex_.           *)
CloseWriterUnlocked ==
    /\ xpc = "close"
    /\ writer' = NoBag
    /\ IF task = "shutdown"
       THEN xpc' = "stop" /\ task' = task
       ELSE xpc' = "spin" /\ task' = "none"
    /\ UNCHANGED <<is_recording, queue, queue_bytes, flush, running, counters,
                   writerThread, bags, arrivals, lost>>

(* close_writer, and the return to whoever called it: after a tick or a    *)
(* failed start the executor spins on, on_shutdown stops the thread.       *)
CloseWriter ==
    /\ xpc = "close"
    /\ WriterMutexFree
    /\ writer' = NoBag
    /\ IF task = "shutdown"
       THEN xpc' = "stop" /\ task' = task
       ELSE xpc' = "spin" /\ task' = "none"
    /\ UNCHANGED <<is_recording, queue, queue_bytes, flush, running, counters,
                   writerThread, bags, arrivals, lost>>

-----------------------------------------------------------------------------
(* The executor: stop_writer_thread and its three callers.                 *)

Stopping(t) ==
    /\ xpc' = "stop"
    /\ task' = t
    /\ UNCHANGED <<writer, queue, queue_bytes, flush, running, counters,
                   writerThread, bags, arrivals, lost>>

(* on_cleanup runs in the inactive state, so after any episode has ended.  *)
OnCleanup ==
    /\ xpc = "spin" /\ ~is_recording
    /\ Stopping("cleanup")
    /\ UNCHANGED is_recording

(* on_shutdown of a node that is not recording.                            *)
OnShutdown ==
    /\ xpc = "spin" /\ ~is_recording
    /\ Stopping("shutdown")
    /\ UNCHANGED is_recording

(* The destructor, once executor.spin() has returned: an episode under way *)
(* is not finished, only its flag is cleared.                              *)
Destroy ==
    /\ xpc \in {"spin", "final"}
    /\ Stopping("destroy")
    /\ is_recording' = FALSE

(* The exchange on writer_thread_running_ and the notify.  Neither takes   *)
(* queue_mutex_, so both may fall between the writer thread's predicate    *)
(* test and its block.                                                     *)
StopWriterThread ==
    /\ xpc = "stop"
    /\ IF running
       THEN running' = FALSE /\ Notify /\ xpc' = "join"
       ELSE UNCHANGED <<running, wpc>> /\ xpc' = "stopped"
    /\ UNCHANGED <<is_recording, writer, queue, queue_bytes, flush, counters,
                   task, batch, flushing, bags, arrivals, lost>>

Join ==
    /\ xpc = "join"
    /\ wpc = "exited"
    /\ wpc' = "absent"
    /\ xpc' = "stopped"
    /\ UNCHANGED <<is_recording, writer, queue, queue_bytes, flush, running,
                   counters, task, batch, flushing, bags, arrivals, lost>>

(* on_cleanup resets the queue; the node can be configured again.          *)
CleanupDone ==
    /\ xpc = "stopped" /\ task = "cleanup"
    /\ queue' = << >>
    /\ queue_bytes' = 0
    /\ flush_requested' = FALSE
    /\ flush_done' = FALSE
    /\ xpc' = "spin"
    /\ task' = "none"
    /\ UNCHANGED <<is_recording, writer, running, counters, writerThread, bags,
                   arrivals, lost>>

(* A node that was shut down is finalized: only its destructor is left.    *)
ShutdownDone ==
    /\ xpc = "stopped" /\ task = "shutdown"
    /\ xpc' = "final"
    /\ task' = "none"
    /\ UNCHANGED <<is_recording, writer, queue, queue_bytes, flush, running,
                   counters, writerThread, bags, arrivals, lost>>

(* The rest of the destructor: the members go, writer_ among them.         *)
DestroyDone ==
    /\ xpc = "stopped" /\ task = "destroy"
    /\ xpc' = "gone"
    /\ writer' = NoBag
    /\ UNCHANGED <<is_recording, queue, queue_bytes, flush, running, counters,
                   task, writerThread, bags, arrivals, lost>>

-----------------------------------------------------------------------------
(* The writer thread: one turn of the loop of writer_thread_main.          *)

(* Seeded fault: the wait ignores the queue.                               *)
WaitPredicateFlushOnly == flush_requested \/ ~running

(* The predicate of its wait on queue_cv_.                                 *)
WaitPredicate == queue # << >> \/ flush_requested \/ ~running

(* Seeded fault: the thread leaves as soon as it is told to stop.          *)
ShouldExitAtOnce == ~running

ShouldExit == ~running /\ queue = << >>

(* The predicate is false: the thread is about to block, mutex in hand.    *)
TestPredicate ==
    /\ wpc = "top"
    /\ ~WaitPredicate
    /\ wpc' = "prewait"
    /\ UNCHANGED <<is_recording, writer, queue, queue_bytes, flush, running,
                   counters, executor, batch, flushing, bags, arrivals, lost>>

Block ==
    /\ wpc = "prewait"
    /\ wpc' = "wait"
    /\ UNCHANGED <<is_recording, writer, queue, queue_bytes, flush, running,
                   counters, executor, batch, flushing, bags, arrivals, lost>>

SpuriousWakeup ==
    /\ wpc = "wait"
    /\ wpc' = "top"
    /\ UNCHANGED <<is_recording, writer, queue, queue_bytes, flush, running,
                   counters, executor, batch, flushing, bags, arrivals, lost>>

Exit ==
    /\ wpc = "top"
    /\ ShouldExit
    /\ wpc' = "exited"
    /\ UNCHANGED <<is_recording, writer, queue, queue_bytes, flush, running,
                   counters, executor, batch, flushing, bags, arrivals, lost>>

BeginTake ==
    /\ wpc = "top"
    /\ WaitPredicate /\ ~ShouldExit
    /\ wpc' = "take"
    /\ UNCHANGED <<is_recording, writer, queue, queue_bytes, flush, running,
                   counters, executor, batch, flushing, bags, arrivals, lost>>

BatchComplete == queue = << >> \/ Len(batch) >= BatchMax

(* Seeded fault: the messages are taken from the back of the queue.        *)
TakeBack ==
    /\ queue_bytes' = queue_bytes - queue[Len(queue)].size
    /\ batch' = Append(batch, queue[Len(queue)])
    /\ queue' = SubSeq(queue, 1, Len(queue) - 1)

(* Seeded fault: pop_front is forgotten.                                   *)
TakeNoPop ==
    /\ queue_bytes' = queue_bytes - Head(queue).size
    /\ batch' = Append(batch, Head(queue))
    /\ UNCHANGED queue

TakeFront ==
    /\ queue_bytes' = queue_bytes - Head(queue).size
    /\ batch' = Append(batch, Head(queue))
    /\ queue' = Tail(queue)

TakeMessage ==
    /\ wpc = "take"
    /\ ~BatchComplete
    /\ TakeFront
    /\ UNCHANGED <<is_recording, writer, flush, running, counters, executor,
                   wpc, flushing, bags, arrivals, lost>>

(* Whether this turn will answer the flush request.                        *)
Flushes == flush_requested /\ queue = << >>

EndTake ==
    /\ wpc = "take"
    /\ BatchComplete
    /\ flushing' = Flushes
    /\ wpc' = CASE batch # << >> -> "batch"
                [] batch = << >> /\ Flushes -> "ack"
                [] OTHER -> "top"
    /\ UNCHANGED <<is_recording, writer, queue, queue_bytes, flush, running,
                   counters, executor, batch, bags, arrivals, lost>>

AfterBatch == IF flushing THEN "ack" ELSE "top"

(* writer_mutex_ is taken and there is a bag to write to.                  *)
LockWriter ==
    /\ wpc = "batch"
    /\ writer # NoBag
    /\ wpc' = "write"
    /\ UNCHANGED <<is_recording, writer, queue, queue_bytes, flush, running,
                   counters, executor, batch, flushing, bags, arrivals, lost>>

(* writer_mutex_ is taken but the bag is closed: the batch is cleared.     *)
DiscardBatch ==
    /\ wpc = "batch"
    /\ writer = NoBag
    /\ batch' = << >>
    /\ Lose("discarded", Elements(batch))
    /\ wpc' = AfterBatch
    /\ UNCHANGED <<is_recording, writer, queue, queue_bytes, flush, running,
                   counters, executor, flushing, bags, arrivals>>

(* The loop over the batch moves on; the last message gives up the mutex.  *)
NextMessage ==
    /\ batch' = Tail(batch)
    /\ wpc' = IF Tail(batch) = << >> THEN AfterBatch ELSE "write"

WriteMessage ==
    /\ wpc = "write"
    /\ bag' = [bag EXCEPT ![writer] = Append(@, Head(batch))]
    /\ messages_written' = messages_written + 1
    /\ NextMessage
    /\ UNCHANGED <<is_recording, writer, queue, queue_bytes, flush, running,
                   messages_dropped, write_failed, executor, flushing, retained,
                   episode, arrivals, lost>>

(* writer_->write throws: the failure is kept for the tick to see.         *)
WriteFails ==
    /\ wpc = "write"
    /\ write_failed' = TRUE
    /\ Lose("failed", {Head(batch)})
    /\ NextMessage
    /\ UNCHANGED <<is_recording, writer, queue, queue_bytes, flush, running,
                   messages_written, messages_dropped, executor, flushing, bags,
                   arrivals>>

(* The topic index is past the end of topics_: only a message taken in an  *)
(* earlier episode can have an index that finish_recording removed.        *)
SkipMessage ==
    /\ wpc = "write"
    /\ Head(batch).ep # writer
    /\ Lose("skipped", {Head(batch)})
    /\ NextMessage
    /\ UNCHANGED <<is_recording, writer, queue, queue_bytes, flush, running,
                   counters, executor, flushing, bags, arrivals>>

(* Seeded fault: the flush is acknowledged without a look at the queue.    *)
AckAlways ==
    /\ flush_requested' = FALSE
    /\ flush_done' = TRUE

(* The flush is acknowledged if nothing was queued in the meantime.        *)
AckIfEmpty ==
    IF queue = << >>
    THEN flush_requested' = FALSE /\ flush_done' = TRUE
    ELSE UNCHANGED flush

Acknowledge ==
    /\ wpc = "ack"
    /\ AckIfEmpty
    /\ flushing' = FALSE
    /\ wpc' = "top"
    /\ UNCHANGED <<is_recording, writer, queue, queue_bytes, running, counters,
                   executor, batch, bags, arrivals, lost>>

-----------------------------------------------------------------------------
Start ==
    \/ \E k \in 0 .. MaxRetained : StartRecording(k)
    \/ \E k \in 0 .. MaxRetained - 1 : RetainedWriteFails(k)
    \/ OpenFails

(* What the executor does when it is not free to choose: it is inside      *)
(* finish_recording or stop_writer_thread.                                 *)
ExecutorProgress ==
    \/ DrainDone \/ CloseWriter
    \/ StopWriterThread \/ Join
    \/ CleanupDone \/ ShutdownDone \/ DestroyDone

WriterStep ==
    \/ TestPredicate \/ Block \/ Exit
    \/ BeginTake \/ TakeMessage \/ EndTake
    \/ LockWriter \/ DiscardBatch
    \/ WriteMessage \/ WriteFails \/ SkipMessage
    \/ Acknowledge

(* The process has ended.                                                  *)
Gone == xpc = "gone" /\ UNCHANGED vars

Next ==
    \/ Start
    \/ OnMessage
    \/ EndEpisode \/ ShutdownRecording
    \/ OnCleanup \/ OnShutdown \/ Destroy
    \/ ExecutorProgress \/ DrainTimeout
    \/ WriterStep
    \/ SpuriousWakeup
    \/ Gone

Spec == Init /\ [][Next]_vars

(* Both threads are scheduled and the disk answers each write in the end.  *)
(* The executor's fairness is strong because it contends for the mutexes:  *)
(* a thread that finds a mutex free again and again gets it in the end.    *)
(* Spurious wakeups are possible but promised by nobody, and nothing rests *)
(* on the drain's timeout.                                                 *)
Fairness ==
    /\ WF_vars(WriterStep)
    /\ SF_vars(ExecutorProgress)

FairSpec == Spec /\ Fairness

-----------------------------------------------------------------------------
(* Properties.                                                             *)

WriterLocations ==
    {"absent", "top", "prewait", "wait", "take", "batch", "write", "ack", "exited"}
ExecutorLocations ==
    {"spin", "drain", "close", "stop", "join", "stopped", "final", "gone"}
Tasks == {"none", "start", "tick", "shutdown", "cleanup", "destroy"}

FlagsType ==
    /\ is_recording \in BOOLEAN
    /\ flush_requested \in BOOLEAN
    /\ flush_done \in BOOLEAN
    /\ running \in BOOLEAN
    /\ write_failed \in BOOLEAN
    /\ flushing \in BOOLEAN

NumbersType ==
    /\ writer \in 0 .. MaxEpisodes
    /\ episode \in 0 .. MaxEpisodes
    /\ arrivals \in 0 .. MaxArrivals
    /\ queue_bytes \in Int
    /\ messages_written \in Nat
    /\ messages_dropped \in Nat
    /\ retained \in [Episodes -> Nat]

LocationsType ==
    /\ xpc \in ExecutorLocations
    /\ task \in Tasks
    /\ wpc \in WriterLocations

MessagesType ==
    /\ queue \in Seq(Message)
    /\ batch \in Seq(Message)
    /\ bag \in [Episodes -> Seq(Message)]
    /\ lost \in [Fates -> SUBSET Message]

(* Every variable stays in its type; queue_bytes_ is unsigned in the code, *)
(* that it never wraps is part of QueueAccounting.                         *)
TypeOK == FlagsType /\ NumbersType /\ LocationsType /\ MessagesType

SumSizes(s) ==
    LET sum[i \in 0 .. Len(s)] == IF i = 0 THEN 0 ELSE sum[i - 1] + s[i].size
    IN  sum[Len(s)]

(* The byte count of the queue is the size of what is queued, so the       *)
(* unsigned counter never wraps, and both limits of on_message hold.       *)
QueueAccounting ==
    /\ queue_bytes = SumSizes(queue)
    /\ queue_bytes <= MaxBytes
    /\ Len(queue) <= MaxMessages

Ordered(s) == \A i, j \in 1 .. Len(s) : i < j => s[i].id < s[j].id
Before(s, t) ==
    \A i \in 1 .. Len(s), j \in 1 .. Len(t) : s[i].id < t[j].id

(* A message is written at most once over all bags, and every bag holds    *)
(* its messages in the order they were delivered, whatever batch they      *)
(* travelled in.                                                           *)
WrittenOnceInOrder ==
    /\ \A e \in Episodes :
        /\ Ordered(bag[e])
        /\ Before(bag[e], batch)
        /\ Before(bag[e], queue)
        /\ \A f \in Episodes : e < f => Before(bag[e], bag[f])
    /\ Ordered(batch)
    /\ Ordered(queue)
    /\ Before(batch, queue)

Ids(ms) == {m.id : m \in ms}
InBags == UNION {Elements(bag[e]) : e \in Episodes}
Lost == UNION {lost[f] : f \in Fates}

(* No message vanishes: each one delivered while recording is queued, in   *)
(* the batch, in a bag, or was lost in one of the ways Fates names, and no *)
(* message is in two of these places.                                      *)
Conserved ==
    LET places == <<Ids(Elements(queue)), Ids(Elements(batch)), Ids(InBags), Ids(Lost)>>
    IN  /\ UNION {places[i] : i \in 1 .. 4} = 1 .. arrivals
        /\ \A i, j \in 1 .. 4 : i # j => places[i] \cap places[j] = {}

(* messages_written_, which the result and the log report, is what the     *)
(* episode's bag really holds, latched messages included.                  *)
CountMatchesBag ==
    episode > 0 => messages_written = retained[episode] + Len(bag[episode])

(* messages_dropped_ counts the messages this episode lost to a full       *)
(* queue, no more and no fewer.                                            *)
DropCountHonest ==
    messages_dropped = Cardinality({m \in lost["dropped"] : m.ep = episode})

(* When the flush the executor waits for is acknowledged, nothing of the   *)
(* episode is queued or in the writer thread's hands.                      *)
AckMeansDrained ==
    xpc = "drain" /\ flush_done => queue = << >> /\ batch = << >>

(* The writer thread never writes through a writer_ that is null or closed *)
(* under it, and while an episode is live there is a bag and a thread to   *)
(* write to it.                                                            *)
WriterIsLive ==
    /\ wpc = "write" => writer # NoBag
    /\ is_recording => writer = episode /\ running /\ wpc \notin {"absent", "exited"}

(* What is queued belongs to the current episode: nothing is carried to    *)
(* the next one in the queue itself.                                       *)
QueueHoldsOneEpisode ==
    /\ \A i \in 1 .. Len(queue) : queue[i].ep = episode
    /\ xpc = "spin" /\ ~is_recording => queue = << >>

(* A batch that found no bag was the end of its episode: no later message  *)
(* of that episode is in any bag, so an episode never loses its middle     *)
(* this way.                                                               *)
LossIsTail ==
    \A m \in lost["discarded"], n \in InBags : n.ep = m.ep => n.id < m.id

(* When the thread has been joined nothing is left queued or half written, *)
(* also if the node is destroyed in the middle of an episode.              *)
NothingLeftAfterJoin ==
    xpc \in {"stopped", "final", "gone"} =>
        wpc = "absent" /\ queue = << >> /\ batch = << >>

(* The promise of the whole hand-off: seen from outside, the queue, the    *)
(* batches and the two threads are a bounded log that keeps the order, in  *)
(* which a message is pending from its delivery until the writer thread    *)
(* has dealt with it.                                                      *)
Log == INSTANCE MessageLog WITH
    Capacity <- MaxMessages + BatchMax,
    pending <- batch \o queue,
    open <- writer,
    started <- episode,
    arrived <- arrivals

KeepsMessageLog == Log!Spec

-----------------------------------------------------------------------------
(* The inductive invariant that WriterQueue_proofs proves.                 *)

(* Where the writer thread is, against whether it runs and what it holds.  *)
ThreadInv ==
    /\ running => wpc \notin {"absent", "exited"}
    /\ ~running /\ xpc # "join" => wpc = "absent"
    /\ xpc \in {"join", "stopped", "final", "gone"} => ~running
    /\ wpc \in {"batch", "write"} => batch # << >>
    /\ wpc \notin {"take", "batch", "write"} => batch = << >>

(* Which bag is open, against where the executor is.                       *)
BagInv ==
    /\ is_recording => xpc = "spin" /\ writer # NoBag /\ running
    /\ writer # NoBag =>
        \/ is_recording
        \/ xpc \in {"drain", "close"}
        \/ xpc \in {"stop", "join", "stopped"} /\ task = "destroy"
    /\ writer # NoBag => writer = episode
    /\ wpc = "write" => writer # NoBag

(* Who may have messages queued, and of which episode they are.            *)
QueueInv ==
    /\ queue # << >> =>
        \/ is_recording
        \/ xpc = "drain"
        \/ xpc \in {"stop", "join"} /\ task = "destroy"
    /\ queue # << >> => running \/ xpc = "join"
    /\ wpc = "exited" => queue = << >>
    /\ \A i \in 1 .. Len(queue) : queue[i].ep = episode
    /\ xpc = "drain" => running
    /\ AckMeansDrained

AtMost(s, n) == \A i \in 1 .. Len(s) : s[i].id <= n

(* Bags not opened yet are empty, and no id is ahead of the deliveries.    *)
RecordInv ==
    /\ \A e \in Episodes : e > episode => bag[e] = << >> /\ retained[e] = 0
    /\ AtMost(queue, arrivals)
    /\ AtMost(batch, arrivals)
    /\ \A e \in Episodes : AtMost(bag[e], arrivals)

IndInv ==
    TypeOK /\ ThreadInv /\ BagInv /\ QueueInv /\ RecordInv /\ WrittenOnceInOrder
    /\ CountMatchesBag

(* The drops are numbered and dated: they can be counted, and one more     *)
(* drop is a new one.                                                      *)
DropInv ==
    /\ DropCountHonest
    /\ IsFiniteSet(lost["dropped"])
    /\ \A m \in lost["dropped"] : m.ep <= episode /\ m.id <= arrivals

(* Nothing of an episode is pending any more once a batch of it found no   *)
(* bag, and nothing will be.                                               *)
LossInv ==
    /\ LossIsTail
    /\ queue # << >> => writer # NoBag
    /\ \A i \in 1 .. Len(batch) : batch[i].ep <= episode
    /\ \A m \in lost["discarded"] :
        /\ m.ep <= episode
        /\ m.ep = episode => writer = NoBag
        /\ \A i \in 1 .. Len(batch) : batch[i].ep # m.ep
        /\ \A i \in 1 .. Len(queue) : queue[i].ep # m.ep

(* What the two threads hold in memory is bounded.                         *)
MemoryBounded == Len(queue) <= MaxMessages /\ Len(batch) <= BatchMax

-----------------------------------------------------------------------------
(* Liveness, under FairSpec.                                               *)

Settled(i) == i \in Ids(InBags) \cup Ids(Lost)

(* Every message the recorder is handed ends in a bag or is known lost:    *)
(* no wakeup of the writer thread that a message depends on is missed.     *)
EveryMessageSettles ==
    \A i \in 1 .. MaxArrivals : arrivals >= i ~> Settled(i)

(* finish_recording returns, and does not need the drain's timeout for it: *)
(* the flush handshake alone gets there when the disk answers, and the     *)
(* close only waits for the batch being written.                           *)
FinishTerminates == xpc \in {"drain", "close"} ~> xpc \notin {"drain", "close"}

-----------------------------------------------------------------------------
(* Claims of the source that the code does not keep.                       *)

(* finish_recording drains everything the subscriptions handed it before   *)
(* closing the bag, so that the tail of the episode is not silently lost.  *)
TailNotLost == lost["discarded"] = {}

(* Stopping the thread joins it, it does not stay blocked on the condition *)
(* variable.                                                               *)
JoinTerminates == xpc = "join" ~> xpc # "join"

=============================================================================
