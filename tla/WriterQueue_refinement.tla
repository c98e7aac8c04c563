----------------------- MODULE WriterQueue_refinement -----------------------
(***************************************************************************)
(* WriterQueue implements MessageLog: what is pending in the abstract log  *)
(* is the writer thread's batch followed by the queue.  Moving a message   *)
(* from the one to the other is a stutter, every other step that touches   *)
(* either is a step of the log.                                            *)
(***************************************************************************)
EXTENDS WriterQueue_proofs

-----------------------------------------------------------------------------
(* The batch followed by the queue, as one sequence.                       *)

(* A push_back on the queue appends to the whole.                          *)
LEMMA AppendToWhole ==
  ASSUME NEW S, NEW b \in Seq(S), NEW q \in Seq(S), NEW m \in S
  PROVE  b \o Append(q, m) = Append(b \o q, m)
<1>1. /\ Append(q, m) \in Seq(S) /\ b \o q \in Seq(S)
      /\ b \o Append(q, m) \in Seq(S) /\ Append(b \o q, m) \in Seq(S)
  OBVIOUS
<1>2. Len(b \o Append(q, m)) = Len(Append(b \o q, m))
  OBVIOUS
<1>3. ASSUME NEW i \in 1 .. Len(b \o Append(q, m))
      PROVE  (b \o Append(q, m))[i] = Append(b \o q, m)[i]
  OBVIOUS
<1> QED
  BY <1>1, <1>2, <1>3, SeqEqual

(* Moving the front of the queue to the batch leaves the whole as it is.   *)
LEMMA MoveWithinWhole ==
  ASSUME NEW S, NEW b \in Seq(S), NEW q \in Seq(S), q # << >>
  PROVE  Append(b, Head(q)) \o Tail(q) = b \o q
<1>1. Head(q) \in S /\ Tail(q) \in Seq(S) /\ Append(b, Head(q)) \in Seq(S)
  OBVIOUS
<1>2. /\ Append(b, Head(q)) \o Tail(q) \in Seq(S)
      /\ b \o q \in Seq(S)
      /\ Len(Append(b, Head(q)) \o Tail(q)) = Len(b \o q)
  BY <1>1
<1>3. ASSUME NEW i \in 1 .. Len(Append(b, Head(q)) \o Tail(q))
      PROVE  (Append(b, Head(q)) \o Tail(q))[i] = (b \o q)[i]
  BY <1>1
<1> QED
  BY <1>2, <1>3, SeqEqual

(* The first message of the batch is the first of the whole.               *)
LEMMA TailOfWhole ==
  ASSUME NEW S, NEW b \in Seq(S), NEW q \in Seq(S), b # << >>
  PROVE  /\ b \o q # << >>
         /\ Head(b \o q) = Head(b)
         /\ Tail(b) \o q = Tail(b \o q)
<1>1. /\ b \o q \in Seq(S) /\ Len(b \o q) = Len(b) + Len(q) /\ Len(b) > 0 /\ Len(q) >= 0
      /\ Tail(b) \in Seq(S)
  OBVIOUS
<1>2. b \o q # << >> /\ Head(b \o q) = Head(b)
  BY <1>1
<1>3. /\ Tail(b) \o q \in Seq(S) /\ Tail(b \o q) \in Seq(S)
      /\ Len(Tail(b) \o q) = Len(Tail(b \o q))
  BY <1>1, <1>2
<1>4. ASSUME NEW i \in 1 .. Len(Tail(b) \o q)
      PROVE  (Tail(b) \o q)[i] = Tail(b \o q)[i]
  BY <1>1, <1>2
<1> QED
  BY <1>2, <1>3, <1>4, SeqEqual

(* The queue and the batch are the ends of the whole.                      *)
LEMMA EndsOfWhole ==
  ASSUME NEW S, NEW b \in Seq(S), NEW q \in Seq(S)
  PROVE  /\ q = SubSeq(b \o q, Len(b) + 1, Len(b \o q))
         /\ b = SubSeq(b \o q, 1, Len(b))
<1>1. /\ b \o q \in Seq(S)
      /\ Len(b) \in Nat /\ Len(q) \in Nat
      /\ Len(b \o q) = Len(b) + Len(q)
  OBVIOUS
<1>2. q = SubSeq(b \o q, Len(b) + 1, Len(b \o q))
  <2> DEFINE t == SubSeq(b \o q, Len(b) + 1, Len(b \o q))
  <2>1. \A i \in Len(b) + 1 .. Len(b \o q) : (b \o q)[i] \in S
    BY <1>1
  <2>2. t \in Seq(S) /\ Len(t) = Len(q)
    BY <1>1, <2>1, SubSeqProperties
  <2>3. ASSUME NEW i \in 1 .. Len(q) PROVE q[i] = t[i]
    BY <1>1, <2>1, SubSeqProperties
  <2> QED
    BY <2>2, <2>3, SeqEqual
<1>3. b = SubSeq(b \o q, 1, Len(b))
  <2> DEFINE t == SubSeq(b \o q, 1, Len(b))
  <2>1. \A i \in 1 .. Len(b) : (b \o q)[i] \in S
    BY <1>1
  <2>2. t \in Seq(S) /\ Len(t) = Len(b)
    BY <1>1, <2>1, SubSeqProperties
  <2>3. ASSUME NEW i \in 1 .. Len(b) PROVE b[i] = t[i]
    BY <1>1, <2>1, SubSeqProperties
  <2> QED
    BY <2>2, <2>3, SeqEqual
<1> QED
  BY <1>2, <1>3

-----------------------------------------------------------------------------
(* Bounded memory.                                                         *)

(* A batch only grows below its limit, and the queue below its own.        *)
LEMMA NextKeepsMemoryBounded ==
  ASSUME IndInv, MemoryBounded, [Next]_vars
  PROVE  MemoryBounded'
<1> USE LimitsAssumption DEF MemoryBounded
<1>t. /\ queue \in Seq(Message) /\ batch \in Seq(Message)
      /\ Len(queue) \in Nat /\ Len(batch) \in Nat
  BY DEF IndInv, TypeOK, MessagesType
<1>n. /\ Len(<< >>) = 0
      /\ batch # << >> => Len(Tail(batch)) = Len(batch) - 1
      /\ queue # << >> => Len(Tail(queue)) = Len(queue) - 1
  BY <1>t
<1>1. ASSUME NEW size \in Sizes, Enqueue(size) PROVE MemoryBounded'
  <2>1. Delivered(size) \in Message
    BY <1>1, DeliveredType DEF Enqueue, Deliver
  <2>2. Len(Append(queue, Delivered(size))) = Len(queue) + 1
    BY <1>t, <2>1
  <2>3. ~(Len(queue) >= MaxMessages)
    BY <1>1 DEF Enqueue, QueueFull
  <2> QED
    BY <1>1, <1>t, <2>2, <2>3 DEF Enqueue
<1>2. ASSUME TakeMessage PROVE MemoryBounded'
  <2>1. queue # << >> /\ ~(Len(batch) >= BatchMax)
    BY <1>2 DEF TakeMessage, BatchComplete
  <2>2. Len(Append(batch, Head(queue))) = Len(batch) + 1
    BY <1>t, <2>1
  <2> QED
    BY <1>2, <1>t, <1>n, <2>1, <2>2 DEF TakeMessage, TakeFront
<1>3. ASSUME WriteMessage \/ WriteFails \/ SkipMessage PROVE MemoryBounded'
  <2>1. batch # << >>
    BY <1>3 DEF IndInv, ThreadInv, WriteMessage, WriteFails, SkipMessage
  <2> QED
    BY <1>3, <1>t, <1>n, <2>1 DEF WriteMessage, WriteFails, SkipMessage, NextMessage
<1>4. ASSUME \/ queue' \in {queue, << >>} /\ UNCHANGED batch
             \/ batch' = << >> /\ UNCHANGED queue
      PROVE  MemoryBounded'
  BY <1>4, <1>t, <1>n
<1>5. CASE Start
  BY <1>5, <1>4 DEF Start, StartRecording, RetainedWriteFails, OpenFails, StartWriterThread,
     writerThread
<1>6. CASE OnMessage
  BY <1>6, <1>1, <1>4 DEF OnMessage, Drop, writerThread
<1>7. CASE \/ EndEpisode \/ ShutdownRecording \/ OnCleanup \/ OnShutdown \/ Destroy
           \/ ExecutorProgress \/ DrainTimeout
  BY <1>7, <1>4 DEF EndEpisode, ShutdownRecording, FinishRecording, OnCleanup, OnShutdown, Destroy,
     Stopping, ExecutorProgress, DrainDone, CloseWriter, StopWriterThread, Join, CleanupDone,
     ShutdownDone, DestroyDone, DrainTimeout, ClearAbandoned, writerThread
<1>8. CASE WriterStep \/ SpuriousWakeup
  BY <1>8, <1>2, <1>3, <1>4 DEF WriterStep, SpuriousWakeup, TestPredicate, Block, Exit, BeginTake,
     EndTake, LockWriter, DiscardBatch, Acknowledge
<1>9. CASE Gone \/ UNCHANGED vars
  BY <1>9, <1>4 DEF Gone, vars, writerThread
<1> QED
  BY <1>5, <1>6, <1>7, <1>8, <1>9 DEF Next

(* The recorder never holds more than the queue's limit and one batch.     *)
THEOREM MemoryIsBounded == Spec => []MemoryBounded
<1>1. Init => MemoryBounded
  BY LimitsAssumption DEF Init, MemoryBounded
<1>2. IndInv /\ MemoryBounded /\ [Next]_vars => MemoryBounded'
  BY NextKeepsMemoryBounded
<1> QED
  BY <1>1, <1>2, Invariance, PTL DEF Spec

-----------------------------------------------------------------------------
(* The refinement, action by action.                                       *)

(* A step that leaves the messages, the bag and the episode alone is       *)
(* invisible in the log.                                                   *)
LEMMA StillIsStutter ==
  ASSUME UNCHANGED <<queue, batch, writer, episode, arrivals, bag>>
  PROVE  UNCHANGED Log!vars
BY DEF Log!vars

(* Every way a start can go starts an episode of the log.                  *)
LEMMA StartOpens ==
  ASSUME IndInv, Start
  PROVE  Log!Open
<1> USE BoundsAssumption DEF IndInv, TypeOK, Start, StartRecording, OpenFails, RetainedWriteFails, CanStart, flush, counters, executor, writerThread, bags
<1>1. writer = NoBag /\ queue = << >>
  BY DEF BagInv, QueueInv, FlagsType
<1>2. episode + 1 \in Episodes /\ episode' = episode + 1
  BY DEF NumbersType, Episodes
<1>3. writer' \in {NoBag, episode + 1}
  BY <1>1 DEF OpenBag
<1>4. queue' = queue /\ batch' = batch /\ arrivals' = arrivals /\ bag' = bag
  BY <1>1 DEF StartWriterThread
<1> QED
  BY <1>1, <1>2, <1>3, <1>4 DEF Log!Open, Log!NoBag, NoBag

(* on_message delivers to the log, whether it queues or refuses.           *)
LEMMA OnMessageDelivers ==
  ASSUME IndInv, MemoryBounded, NEW size \in Sizes, Enqueue(size) \/ Drop(size)
  PROVE  Log!Deliver(size)
<1> USE LimitsAssumption
<1>1. is_recording /\ arrivals < MaxArrivals /\ arrivals' = arrivals + 1
  BY DEF Enqueue, Drop, Deliver
<1>2. writer # NoBag /\ writer = episode
  BY <1>1 DEF IndInv, BagInv
<1>3. UNCHANGED <<writer, episode, bag>>
  BY DEF Enqueue, Drop, bags
<1>t. /\ queue \in Seq(Message) /\ batch \in Seq(Message) /\ batch \o queue \in Seq(Message)
      /\ Len(queue) \in Nat /\ Len(batch) \in Nat
      /\ Len(batch \o queue) = Len(batch) + Len(queue)
  BY DEF IndInv, TypeOK, MessagesType
<1>4. CASE Drop(size)
  <2>1. UNCHANGED <<queue, batch>>
    BY <1>4 DEF Drop, writerThread
  <2> QED
    BY <1>1, <1>2, <1>3, <2>1 DEF Log!Deliver, Log!NoBag, NoBag
<1>5. CASE Enqueue(size)
  <2>1. Delivered(size) \in Message
    BY <1>1, DeliveredType
  <2>2. queue' = Append(queue, Delivered(size)) /\ UNCHANGED batch
    BY <1>5 DEF Enqueue
  <2>3. (batch \o queue)' = Append(batch \o queue, Delivered(size))
    BY <1>t, <2>1, <2>2, AppendToWhole
  <2>4. Delivered(size) = [id |-> arrivals + 1, ep |-> writer, size |-> size]
    BY <1>2 DEF Delivered
  <2>5. Len(batch \o queue) < MaxMessages + BatchMax
    BY <1>5, <1>t DEF Enqueue, QueueFull, MemoryBounded
  <2> QED
    BY <1>1, <1>2, <1>3, <2>3, <2>4, <2>5 DEF Log!Deliver, Log!NoBag, NoBag
<1> QED
  BY <1>4, <1>5

(* The log may give up its back, its front, or its oldest message.         *)
LEMMA EndsForgotten ==
  ASSUME batch \in Seq(Message), queue \in Seq(Message),
         UNCHANGED <<writer, episode, arrivals, bag>>,
         \/ batch' = batch /\ queue' = << >>
         \/ batch' = << >> /\ queue' = queue
         \/ batch # << >> /\ batch' = Tail(batch) /\ queue' = queue
  PROVE  Log!Forget
<1> DEFINE p == batch \o queue
<1>t. /\ p \in Seq(Message) /\ Len(batch) \in Nat /\ Len(queue) \in Nat
      /\ Len(p) = Len(batch) + Len(queue)
  OBVIOUS
<1>1. \E i \in 1 .. Len(p) + 1 : \E j \in i - 1 .. Len(p) : p' = SubSeq(p, i, j)
  <2>1. CASE batch' = batch /\ queue' = << >>
    <3>1. p' = SubSeq(p, 1, Len(batch))
      BY <2>1, EndsOfWhole
    <3>2. 1 \in 1 .. Len(p) + 1 /\ Len(batch) \in 1 - 1 .. Len(p)
      BY <1>t
    <3> QED
      BY <3>1, <3>2
  <2>2. CASE batch' = << >> /\ queue' = queue
    <3>1. p' = SubSeq(p, Len(batch) + 1, Len(p))
      BY <2>2, EndsOfWhole
    <3>2. Len(batch) + 1 \in 1 .. Len(p) + 1 /\ Len(p) \in (Len(batch) + 1) - 1 .. Len(p)
      BY <1>t
    <3> QED
      BY <3>1, <3>2
  <2>3. CASE batch # << >> /\ batch' = Tail(batch) /\ queue' = queue
    <3>1. p # << >> /\ p' = Tail(p)
      BY <2>3, TailOfWhole
    <3>2. p' = SubSeq(p, 2, Len(p))
      BY <1>t, <3>1, TailIsSubSeq
    <3>3. 2 \in 1 .. Len(p) + 1 /\ Len(p) \in 2 - 1 .. Len(p)
      BY <1>t, <2>3
    <3> QED
      BY <3>2, <3>3
  <2> QED
    BY <2>1, <2>2, <2>3
<1> QED
  BY <1>1 DEF Log!Forget

(* What the executor does once an episode ends: the drain's timeout gives  *)
(* up the queue, closing the bag closes it, and nothing else is seen.      *)
LEMMA ExecutorStepRefines ==
  ASSUME IndInv,
         \/ EndEpisode \/ ShutdownRecording \/ OnCleanup \/ OnShutdown \/ Destroy
         \/ ExecutorProgress \/ DrainTimeout
  PROVE  [Log!Next]_Log!vars
<1> USE DEF flush, counters, executor, writerThread, bags
<1>t. batch \in Seq(Message) /\ queue \in Seq(Message)
  BY DEF IndInv, TypeOK, MessagesType
<1>1. CASE EndEpisode \/ ShutdownRecording \/ OnCleanup \/ OnShutdown \/ Destroy
  BY <1>1, StillIsStutter DEF EndEpisode, ShutdownRecording, FinishRecording, OnCleanup,
     OnShutdown, Destroy, Stopping
<1>2. CASE DrainDone \/ StopWriterThread \/ Join \/ ShutdownDone
  BY <1>2, StillIsStutter DEF DrainDone, StopWriterThread, Join, ShutdownDone
<1>3. CASE CloseWriter \/ DestroyDone
  <2>1. writer' = NoBag /\ UNCHANGED <<queue, batch, episode, arrivals, bag>>
    BY <1>3 DEF CloseWriter, DestroyDone
  <2>2. CASE writer = NoBag
    BY <2>1, <2>2, StillIsStutter
  <2>3. CASE writer # NoBag
    <3>1. Log!Close
      BY <2>1, <2>3 DEF Log!Close, Log!NoBag, NoBag
    <3> QED
      BY <3>1 DEF Log!Next
  <2> QED
    BY <2>2, <2>3
<1>4. CASE CleanupDone
  <2>1. queue = << >>
    BY <1>4 DEF CleanupDone, IndInv, QueueInv, BagInv
  <2> QED
    BY <1>4, <2>1, StillIsStutter DEF CleanupDone
<1>5. CASE DrainTimeout
  <2>1. Log!Forget
    BY <1>5, <1>t, EndsForgotten DEF DrainTimeout, ClearAbandoned
  <2> QED
    BY <2>1 DEF Log!Next
<1> QED
  BY <1>1, <1>2, <1>3, <1>4, <1>5 DEF ExecutorProgress

(* What the writer thread does: taking a message is not seen, writing one  *)
(* writes the oldest, and what it gives up is at the front.                *)
LEMMA WriterStepRefines ==
  ASSUME IndInv, WriterStep \/ SpuriousWakeup
  PROVE  [Log!Next]_Log!vars
<1> USE DEF flush, counters, executor, writerThread, bags
<1>t. batch \in Seq(Message) /\ queue \in Seq(Message)
  BY DEF IndInv, TypeOK, MessagesType
<1>1. CASE \/ TestPredicate \/ Block \/ Exit \/ BeginTake \/ EndTake \/ LockWriter
           \/ Acknowledge \/ SpuriousWakeup
  BY <1>1, StillIsStutter DEF TestPredicate, Block, Exit, BeginTake, EndTake, LockWriter,
     Acknowledge, SpuriousWakeup
<1>2. CASE TakeMessage
  <2>1. queue # << >>
    BY <1>2 DEF TakeMessage, BatchComplete
  <2>2. (batch \o queue)' = batch \o queue
    BY <1>2, <1>t, <2>1, MoveWithinWhole DEF TakeMessage, TakeFront
  <2>3. UNCHANGED <<writer, episode, arrivals, bag>>
    BY <1>2 DEF TakeMessage
  <2> QED
    BY <2>2, <2>3 DEF Log!vars
<1>3. CASE DiscardBatch
  <2>1. Log!Forget
    BY <1>3, <1>t, EndsForgotten DEF DiscardBatch
  <2> QED
    BY <2>1 DEF Log!Next
<1>4. CASE WriteFails \/ SkipMessage
  <2>1. batch # << >>
    BY <1>4 DEF WriteFails, SkipMessage, IndInv, ThreadInv
  <2>2. Log!Forget
    BY <1>4, <1>t, <2>1, EndsForgotten DEF WriteFails, SkipMessage, NextMessage
  <2> QED
    BY <2>2 DEF Log!Next
<1>5. CASE WriteMessage
  <2>1. batch # << >> /\ writer # NoBag
    BY <1>5 DEF WriteMessage, IndInv, ThreadInv, BagInv
  <2>2. batch' = Tail(batch) /\ queue' = queue
    BY <1>5 DEF WriteMessage, NextMessage
  <2>3. /\ batch \o queue # << >>
        /\ Head(batch \o queue) = Head(batch)
        /\ (batch \o queue)' = Tail(batch \o queue)
    BY <1>t, <2>1, <2>2, TailOfWhole
  <2>4. /\ bag' = [bag EXCEPT ![writer] = Append(@, Head(batch))]
        /\ UNCHANGED <<writer, episode, arrivals>>
    BY <1>5 DEF WriteMessage
  <2>5. Log!Write
    BY <2>1, <2>3, <2>4 DEF Log!Write, Log!NoBag, NoBag
  <2> QED
    BY <2>5 DEF Log!Next
<1> QED
  BY <1>1, <1>2, <1>3, <1>4, <1>5 DEF WriterStep

-----------------------------------------------------------------------------
(* Seen from outside, queue, batches and threads are a bounded log that    *)
(* keeps the order: WriterQueue implements MessageLog.                     *)
THEOREM ImplementsMessageLog == Spec => KeepsMessageLog
<1>1. Init => Log!Init
  BY DEF Init, Log!Init, Log!NoBag, NoBag
<1>2. IndInv /\ MemoryBounded /\ [Next]_vars => [Log!Next]_Log!vars
  <2> SUFFICES ASSUME IndInv, MemoryBounded, [Next]_vars PROVE [Log!Next]_Log!vars
    OBVIOUS
  <2>1. CASE Start
    BY <2>1, StartOpens DEF Log!Next
  <2>2. CASE OnMessage
    BY <2>2, OnMessageDelivers DEF OnMessage, Log!Next
  <2>3. CASE \/ EndEpisode \/ ShutdownRecording \/ OnCleanup \/ OnShutdown \/ Destroy
             \/ ExecutorProgress \/ DrainTimeout
    BY <2>3, ExecutorStepRefines
  <2>4. CASE WriterStep \/ SpuriousWakeup
    BY <2>4, WriterStepRefines
  <2>5. CASE Gone \/ UNCHANGED vars
    BY <2>5, StillIsStutter DEF Gone, vars, writerThread, bags
  <2> QED
    BY <2>1, <2>2, <2>3, <2>4, <2>5 DEF Next
<1> QED
  BY <1>1, <1>2, Invariance, MemoryIsBounded, PTL DEF Spec, KeepsMessageLog, Log!Spec

=============================================================================
