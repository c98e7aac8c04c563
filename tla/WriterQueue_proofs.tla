------------------------- MODULE WriterQueue_proofs -------------------------
(***************************************************************************)
(* Proofs about WriterQueue, for every limit of the queue and of a batch   *)
(* and for every bound.  IndInv is inductive, and the properties the runs  *)
(* check follow from it.                                                   *)
(***************************************************************************)
EXTENDS WriterQueue, SequenceTheorems, TLAPS

-----------------------------------------------------------------------------
(* The sequences the messages travel through.                              *)

(* An id in a sequence of messages is a number.                            *)
LEMMA IdsAreNumbers ==
  ASSUME NEW s \in Seq(Message), NEW i \in 1 .. Len(s)
  PROVE  s[i] \in Message /\ s[i].id \in Int
<1>1. s[i] \in Message
  OBVIOUS
<1> QED
  BY <1>1 DEF Message

(* What pop_front leaves of a queue of messages.                           *)
LEMMA TailOfMessages ==
  ASSUME NEW s \in Seq(Message), s # << >>
  PROVE  /\ Head(s) = s[1] /\ 1 \in 1 .. Len(s) /\ Head(s) \in Message
         /\ Tail(s) \in Seq(Message)
         /\ Len(Tail(s)) = Len(s) - 1
         /\ \A i \in 1 .. Len(Tail(s)) : Tail(s)[i] = s[i + 1] /\ i + 1 \in 1 .. Len(s)
OBVIOUS

(* What push_back makes of a queue of messages.                            *)
LEMMA AppendToMessages ==
  ASSUME NEW s \in Seq(Message), NEW m \in Message
  PROVE  /\ Append(s, m) \in Seq(Message)
         /\ Len(Append(s, m)) = Len(s) + 1
         /\ Append(s, m)[Len(s) + 1] = m
         /\ \A i \in 1 .. Len(s) : Append(s, m)[i] = s[i]
OBVIOUS

(* A bound on the ids of a sequence can be raised.                         *)
LEMMA AtMostMonotone ==
  ASSUME NEW s \in Seq(Message), NEW m \in Int, NEW n \in Int, m <= n, AtMost(s, m)
  PROVE  AtMost(s, n)
BY IdsAreNumbers DEF AtMost

(* A bound on the ids survives a push_back that respects it.               *)
LEMMA AtMostAppend ==
  ASSUME NEW s \in Seq(Message), NEW m \in Message, NEW n \in Int, AtMost(s, n), m.id <= n
  PROVE  AtMost(Append(s, m), n)
BY AppendToMessages DEF AtMost

(* A bound on the ids survives a pop_front, and holds of the popped        *)
(* message.                                                                *)
LEMMA AtMostTail ==
  ASSUME NEW s \in Seq(Message), s # << >>, NEW n \in Int, AtMost(s, n)
  PROVE  AtMost(Tail(s), n) /\ Head(s).id <= n
BY TailOfMessages DEF AtMost

(* Delivery order survives pushing a message newer than all others.        *)
LEMMA OrderedAppend ==
  ASSUME NEW s \in Seq(Message), NEW m \in Message, Ordered(s),
         \A i \in 1 .. Len(s) : s[i].id < m.id
  PROVE  Ordered(Append(s, m))
BY AppendToMessages DEF Ordered

(* Delivery order survives a pop_front, and the popped message is the      *)
(* oldest.                                                                 *)
LEMMA OrderedTail ==
  ASSUME NEW s \in Seq(Message), s # << >>, Ordered(s)
  PROVE  /\ Ordered(Tail(s))
         /\ \A i \in 1 .. Len(Tail(s)) : Head(s).id < Tail(s)[i].id
BY TailOfMessages DEF Ordered

(* A sequence stays older than another when an older message is pushed to  *)
(* it.                                                                     *)
LEMMA BeforeAppendLeft ==
  ASSUME NEW s \in Seq(Message), NEW t \in Seq(Message), NEW m \in Message, Before(s, t),
         \A j \in 1 .. Len(t) : m.id < t[j].id
  PROVE  Before(Append(s, m), t)
BY AppendToMessages DEF Before

(* A sequence stays older than another when a newer message is pushed to   *)
(* that.                                                                   *)
LEMMA BeforeAppendRight ==
  ASSUME NEW s \in Seq(Message), NEW t \in Seq(Message), NEW m \in Message, Before(s, t),
         \A i \in 1 .. Len(s) : s[i].id < m.id
  PROVE  Before(s, Append(t, m))
BY AppendToMessages DEF Before

(* A sequence stays older than another when a message is popped from       *)
(* either.                                                                 *)
LEMMA BeforeTail ==
  ASSUME NEW s \in Seq(Message), NEW t \in Seq(Message), Before(s, t)
  PROVE  /\ s # << >> => Before(Tail(s), t) /\ \A j \in 1 .. Len(t) : Head(s).id < t[j].id
         /\ t # << >> => Before(s, Tail(t)) /\ \A i \in 1 .. Len(s) : s[i].id < Head(t).id
BY TailOfMessages DEF Before

(* An empty sequence is in order with everything.                          *)
LEMMA EmptyIsOrdered ==
  ASSUME NEW s \in Seq(Message)
  PROVE  Ordered(<< >>) /\ Before(s, << >>) /\ Before(<< >>, s)
BY DEF Ordered, Before

(* A message newer than a bound is newer than all that respect it.         *)
LEMMA AheadOfAll ==
  ASSUME NEW s \in Seq(Message), NEW n \in Int, AtMost(s, n), NEW m \in Message, n < m.id, m.id \in Int
  PROVE  \A i \in 1 .. Len(s) : s[i].id < m.id
BY IdsAreNumbers DEF AtMost

(* The messages of a queue or a batch, as a set, are messages.             *)
LEMMA ElementsType ==
  ASSUME NEW S, NEW s \in Seq(S)
  PROVE  Elements(s) \subseteq S
BY DEF Elements

(* Recording a loss keeps the type of lost.                                *)
LEMMA LoseType ==
  ASSUME MessagesType, NEW f \in Fates, NEW ms \in SUBSET Message, Lose(f, ms)
  PROVE  lost' \in [Fates -> SUBSET Message]
BY DEF MessagesType, Lose

(* What on_message hands over while recording is a message of an episode.  *)
LEMMA DeliveredType ==
  ASSUME IndInv, is_recording, arrivals < MaxArrivals, NEW size \in Sizes
  PROVE  /\ Delivered(size) \in Message
         /\ Delivered(size).id = arrivals + 1
         /\ Delivered(size).ep = episode
<1>1. arrivals + 1 \in 1 .. MaxArrivals
  BY BoundsAssumption DEF IndInv, TypeOK, NumbersType
<1>2. episode \in Episodes
  BY BoundsAssumption DEF IndInv, TypeOK, NumbersType, BagInv, NoBag, Episodes
<1> QED
  BY <1>1, <1>2 DEF Delivered, Message

(* A step that moves no message keeps what IndInv says of the messages.    *)
LEMMA MessagesStill ==
  ASSUME IndInv,
         UNCHANGED <<queue, batch, bag, lost, retained, episode, arrivals, messages_written>>
  PROVE  MessagesType' /\ RecordInv' /\ WrittenOnceInOrder' /\ CountMatchesBag'
BY DEF IndInv, TypeOK, MessagesType, RecordInv, WrittenOnceInOrder, CountMatchesBag

-----------------------------------------------------------------------------
(* The inductive invariant.                                                *)

(* It holds before the first callback.                                     *)
LEMMA InitIndInv == Init => IndInv
<1> SUFFICES ASSUME Init PROVE IndInv
  OBVIOUS
<1> USE DEF Init, NoBag
<1>1. FlagsType
  BY DEF FlagsType
<1>2. NumbersType
  BY BoundsAssumption DEF NumbersType
<1>3. LocationsType
  BY DEF LocationsType, ExecutorLocations, Tasks, WriterLocations
<1>4. MessagesType
  BY DEF MessagesType
<1>5. ThreadInv
  BY DEF ThreadInv
<1>6. BagInv
  BY DEF BagInv
<1>7. QueueInv
  BY DEF QueueInv, AckMeansDrained
<1>8. RecordInv
  BY DEF RecordInv, AtMost
<1>9. WrittenOnceInOrder
  BY EmptyIsOrdered DEF WrittenOnceInOrder, Ordered, Before
<1>10. CountMatchesBag
  BY DEF CountMatchesBag
<1> QED
  BY <1>1, <1>2, <1>3, <1>4, <1>5, <1>6, <1>7, <1>8, <1>9, <1>10 DEF IndInv, TypeOK

(* Starting an episode: start_recording with a bag that opens.             *)
LEMMA StartRecordingKeeps ==
  ASSUME IndInv, NEW k \in 0 .. MaxRetained, StartRecording(k)
  PROVE  IndInv'
<1> USE BoundsAssumption DEF IndInv, TypeOK, StartRecording, CanStart, ResetCounters, OpenBag, StartWriterThread,
      flush, counters, executor, writerThread, bags
<1>q. queue' = queue \/ queue' = << >>
  OBVIOUS
<1>1. FlagsType'
  BY DEF FlagsType
<1>2. NumbersType'
  BY DEF NumbersType, FlagsType, Episodes, NoBag
<1>3. LocationsType'
  BY DEF LocationsType, ExecutorLocations, Tasks, WriterLocations
<1>4. ThreadInv'
  BY DEF ThreadInv, MessagesType
<1>5. BagInv'
  BY DEF BagInv, ThreadInv, NumbersType, NoBag
<1>6. QueueInv'
  BY DEF QueueInv, ThreadInv, BagInv, MessagesType, AckMeansDrained
<1>7. MessagesType'
  <2>1. << >> \in Seq(Message)
    OBVIOUS
  <2> QED
    BY <2>1, <1>q DEF MessagesType
<1>8. RecordInv'
  BY <1>q DEF RecordInv, NumbersType, Episodes, AtMost
<1>9. WrittenOnceInOrder'
  BY <1>q, EmptyIsOrdered DEF WrittenOnceInOrder, MessagesType
<1>10. CountMatchesBag'
  <2>1. episode + 1 \in Episodes /\ episode + 1 > episode
    BY DEF NumbersType, Episodes
  <2>2. bag[episode + 1] = << >> /\ Len(bag[episode + 1]) = 0
    BY <2>1 DEF RecordInv
  <2>3. retained'[episode + 1] = k
    BY <2>1 DEF NumbersType, RecordInv
  <2> QED
    BY <2>2, <2>3 DEF CountMatchesBag
<1> QED
  BY <1>1, <1>2, <1>3, <1>4, <1>5, <1>6, <1>7, <1>8, <1>9, <1>10

(* Starting an episode: a latched message cannot be written.               *)
LEMMA RetainedWriteFailsKeeps ==
  ASSUME IndInv, NEW k \in 0 .. MaxRetained, RetainedWriteFails(k)
  PROVE  IndInv'
<1> USE BoundsAssumption DEF IndInv, TypeOK, RetainedWriteFails, CanStart, ResetCounters, OpenBag,
      flush, counters, executor, writerThread, bags
<1>1. FlagsType'
  BY DEF FlagsType
<1>2. NumbersType'
  BY DEF NumbersType, FlagsType, Episodes, NoBag
<1>3. LocationsType'
  BY DEF LocationsType, ExecutorLocations, Tasks, WriterLocations
<1>4. ThreadInv'
  BY DEF ThreadInv, MessagesType
<1>5. BagInv'
  BY DEF BagInv, ThreadInv, NumbersType, NoBag
<1>6. QueueInv'
  BY DEF QueueInv, ThreadInv, BagInv, MessagesType, AckMeansDrained
<1>7. MessagesType'
  BY DEF MessagesType
<1>8. RecordInv'
  BY DEF RecordInv, NumbersType, Episodes, AtMost
<1>9. WrittenOnceInOrder'
  BY DEF WrittenOnceInOrder
<1>10. CountMatchesBag'
  <2>1. episode + 1 \in Episodes /\ episode + 1 > episode
    BY DEF NumbersType, Episodes
  <2>2. bag[episode + 1] = << >> /\ Len(bag[episode + 1]) = 0
    BY <2>1 DEF RecordInv
  <2>3. retained'[episode + 1] = k
    BY <2>1 DEF NumbersType, RecordInv
  <2> QED
    BY <2>2, <2>3 DEF CountMatchesBag
<1> QED
  BY <1>1, <1>2, <1>3, <1>4, <1>5, <1>6, <1>7, <1>8, <1>9, <1>10

(* Starting an episode: the bag does not open.                             *)
LEMMA OpenFailsKeeps ==
  ASSUME IndInv, OpenFails
  PROVE  IndInv'
<1> USE BoundsAssumption DEF IndInv, TypeOK, OpenFails, CanStart, ResetCounters,
      flush, counters, executor, writerThread, bags
<1>1. FlagsType'
  BY DEF FlagsType
<1>2. NumbersType'
  BY DEF NumbersType, FlagsType, Episodes, NoBag
<1>3. LocationsType'
  BY DEF LocationsType, ExecutorLocations, Tasks, WriterLocations
<1>4. ThreadInv'
  BY DEF ThreadInv, MessagesType
<1>5. BagInv'
  BY DEF BagInv, ThreadInv, NumbersType, NoBag
<1>6. QueueInv'
  BY DEF QueueInv, ThreadInv, BagInv, MessagesType, AckMeansDrained
<1>7. MessagesType'
  BY DEF MessagesType
<1>8. RecordInv'
  BY DEF RecordInv, NumbersType, Episodes, AtMost
<1>9. WrittenOnceInOrder'
  BY DEF WrittenOnceInOrder
<1>10. CountMatchesBag'
  <2>1. episode + 1 \in Episodes /\ episode + 1 > episode
    BY DEF NumbersType, Episodes
  <2>2. bag[episode + 1] = << >> /\ Len(bag[episode + 1]) = 0
    BY <2>1 DEF RecordInv
  <2>3. retained'[episode + 1] = 0
    BY <2>1 DEF NumbersType, RecordInv
  <2> QED
    BY <2>2, <2>3 DEF CountMatchesBag
<1> QED
  BY <1>1, <1>2, <1>3, <1>4, <1>5, <1>6, <1>7, <1>8, <1>9, <1>10

(* on_message queues a message.                                            *)
LEMMA EnqueueKeeps ==
  ASSUME IndInv, NEW size \in Sizes, Enqueue(size)
  PROVE  IndInv'
<1> USE BoundsAssumption DEF IndInv, TypeOK, Enqueue, Deliver, QueueMutexFree, Notify,
      flush, counters, executor, writerThread, bags
<1>d. /\ Delivered(size) \in Message
      /\ Delivered(size).id = arrivals + 1
      /\ Delivered(size).ep = episode
  BY DeliveredType
<1>s. size \in Int /\ arrivals \in Int
  BY SizesAssumption DEF NumbersType
<1>f. /\ AtMost(queue, arrivals) /\ AtMost(batch, arrivals)
      /\ \A e \in Episodes : AtMost(bag[e], arrivals)
  BY DEF RecordInv
<1>1. FlagsType'
  BY DEF FlagsType
<1>2. NumbersType'
  BY <1>s DEF NumbersType
<1>3. LocationsType'
  BY DEF LocationsType, ExecutorLocations, Tasks, WriterLocations
<1>4. ThreadInv'
  BY DEF ThreadInv, MessagesType
<1>5. BagInv'
  BY DEF BagInv, ThreadInv, NumbersType, NoBag
<1>6. QueueInv'
  BY <1>d DEF QueueInv, ThreadInv, BagInv, MessagesType, AckMeansDrained
<1>7. MessagesType'
  BY <1>d DEF MessagesType
<1>8. RecordInv'
  <2>1. /\ AtMost(queue, arrivals + 1) /\ AtMost(batch, arrivals + 1)
        /\ \A e \in Episodes : AtMost(bag[e], arrivals + 1)
    BY <1>s, <1>f, AtMostMonotone DEF MessagesType
  <2>2. AtMost(queue', arrivals + 1)
    BY <1>d, <1>s, <2>1, AtMostAppend DEF MessagesType
  <2> QED
    BY <2>1, <2>2 DEF RecordInv
<1>9. WrittenOnceInOrder'
  <2>1. /\ \A i \in 1 .. Len(queue) : queue[i].id < Delivered(size).id
        /\ \A i \in 1 .. Len(batch) : batch[i].id < Delivered(size).id
        /\ \A e \in Episodes : \A i \in 1 .. Len(bag[e]) : bag[e][i].id < Delivered(size).id
    BY <1>d, <1>s, <1>f, AheadOfAll DEF MessagesType
  <2>2. Ordered(queue') /\ Before(batch, queue') /\ \A e \in Episodes : Before(bag[e], queue')
    BY <1>d, <2>1, OrderedAppend, BeforeAppendRight DEF WrittenOnceInOrder, MessagesType
  <2> QED
    BY <2>2 DEF WrittenOnceInOrder
<1>10. CountMatchesBag'
  BY DEF CountMatchesBag
<1> QED
  BY <1>1, <1>2, <1>3, <1>4, <1>5, <1>6, <1>7, <1>8, <1>9, <1>10

(* on_message refuses a message.                                           *)
LEMMA DropKeeps ==
  ASSUME IndInv, NEW size \in Sizes, Drop(size)
  PROVE  IndInv'
<1> USE BoundsAssumption DEF IndInv, TypeOK, Drop, Deliver, QueueMutexFree,
      flush, counters, executor, writerThread, bags
<1>s. arrivals \in Int
  BY DEF NumbersType
<1>1. FlagsType'
  BY DEF FlagsType
<1>2. NumbersType'
  BY DEF NumbersType, FlagsType, Episodes, NoBag
<1>3. LocationsType'
  BY DEF LocationsType, ExecutorLocations, Tasks, WriterLocations
<1>4. ThreadInv'
  BY DEF ThreadInv, MessagesType
<1>5. BagInv'
  BY DEF BagInv, ThreadInv, NumbersType, NoBag
<1>6. QueueInv'
  BY DEF QueueInv, ThreadInv, BagInv, MessagesType, AckMeansDrained
<1>7. MessagesType'
  BY DeliveredType, LoseType DEF MessagesType, Fates
<1>8. RecordInv'
  BY <1>s, AtMostMonotone DEF RecordInv, MessagesType
<1>9. WrittenOnceInOrder'
  BY DEF WrittenOnceInOrder
<1>10. CountMatchesBag'
  BY DEF CountMatchesBag
<1> QED
  BY <1>1, <1>2, <1>3, <1>4, <1>5, <1>6, <1>7, <1>8, <1>9, <1>10

(* finish_recording is entered.                                            *)
LEMMA FinishRecordingKeeps ==
  ASSUME IndInv, NEW t \in {"tick", "shutdown"}, FinishRecording(t)
  PROVE  IndInv'
<1> USE BoundsAssumption DEF IndInv, TypeOK, FinishRecording, QueueMutexFree, Notify,
      flush, counters, executor, writerThread, bags
<1>1. MessagesType' /\ RecordInv' /\ WrittenOnceInOrder' /\ CountMatchesBag'
  BY MessagesStill
<1>2. FlagsType'
  BY DEF FlagsType
<1>3. NumbersType'
  BY DEF NumbersType, FlagsType, Episodes, NoBag
<1>4. LocationsType'
  BY DEF LocationsType, ExecutorLocations, Tasks, WriterLocations
<1>5. ThreadInv'
  BY DEF ThreadInv, MessagesType
<1>6. BagInv'
  BY DEF BagInv, ThreadInv, NumbersType, NoBag
<1>7. QueueInv'
  BY DEF QueueInv, ThreadInv, BagInv, MessagesType, AckMeansDrained
<1> QED
  BY <1>1, <1>2, <1>3, <1>4, <1>5, <1>6, <1>7

(* The drain ends with its predicate true.                                 *)
LEMMA DrainDoneKeeps ==
  ASSUME IndInv, DrainDone
  PROVE  IndInv'
<1> USE BoundsAssumption DEF IndInv, TypeOK, DrainDone, QueueMutexFree, DrainPredicate,
      flush, counters, executor, writerThread, bags
<1>1. MessagesType' /\ RecordInv' /\ WrittenOnceInOrder' /\ CountMatchesBag'
  BY MessagesStill
<1>2. FlagsType'
  BY DEF FlagsType
<1>3. NumbersType'
  BY DEF NumbersType, FlagsType, Episodes, NoBag
<1>4. LocationsType'
  BY DEF LocationsType, ExecutorLocations, Tasks, WriterLocations
<1>5. ThreadInv'
  BY DEF ThreadInv, MessagesType
<1>6. BagInv'
  BY DEF BagInv, ThreadInv, NumbersType, NoBag
<1>7. QueueInv'
  BY DEF QueueInv, ThreadInv, BagInv, MessagesType, AckMeansDrained
<1> QED
  BY <1>1, <1>2, <1>3, <1>4, <1>5, <1>6, <1>7

(* The drain times out.                                                    *)
LEMMA DrainTimeoutKeeps ==
  ASSUME IndInv, DrainTimeout
  PROVE  IndInv'
<1> USE BoundsAssumption DEF IndInv, TypeOK, DrainTimeout, QueueMutexFree, DrainPredicate, ClearAbandoned,
      flush, counters, executor, writerThread, bags
<1>1. FlagsType'
  BY DEF FlagsType
<1>2. NumbersType'
  BY DEF NumbersType, FlagsType, Episodes, NoBag
<1>3. LocationsType'
  BY DEF LocationsType, ExecutorLocations, Tasks, WriterLocations
<1>4. ThreadInv'
  BY DEF ThreadInv, MessagesType
<1>5. BagInv'
  BY DEF BagInv, ThreadInv, NumbersType, NoBag
<1>6. QueueInv'
  BY DEF QueueInv, ThreadInv, BagInv, MessagesType, AckMeansDrained
<1>7. MessagesType'
  <2>1. Elements(queue) \subseteq Message
    BY ElementsType DEF MessagesType
  <2>2. lost' \in [Fates -> SUBSET Message]
    BY <2>1, LoseType DEF Fates
  <2> QED
    BY <2>2 DEF MessagesType
<1>8. RecordInv'
  BY DEF RecordInv, AtMost
<1>9. WrittenOnceInOrder'
  BY EmptyIsOrdered DEF WrittenOnceInOrder, MessagesType
<1>10. CountMatchesBag'
  BY DEF CountMatchesBag
<1> QED
  BY <1>1, <1>2, <1>3, <1>4, <1>5, <1>6, <1>7, <1>8, <1>9, <1>10

(* close_writer.                                                           *)
LEMMA CloseWriterKeeps ==
  ASSUME IndInv, CloseWriter
  PROVE  IndInv'
<1> USE BoundsAssumption DEF IndInv, TypeOK, CloseWriter, WriterMutexFree,
      flush, counters, executor, writerThread, bags
<1>1. MessagesType' /\ RecordInv' /\ WrittenOnceInOrder' /\ CountMatchesBag'
  BY MessagesStill
<1>2. FlagsType'
  BY DEF FlagsType
<1>3. NumbersType'
  BY DEF NumbersType, FlagsType, Episodes, NoBag
<1>4. LocationsType'
  BY DEF LocationsType, ExecutorLocations, Tasks, WriterLocations
<1>5. ThreadInv'
  BY DEF ThreadInv, MessagesType
<1>6. BagInv'
  BY DEF BagInv, ThreadInv, NumbersType, NoBag
<1>7. QueueInv'
  BY DEF QueueInv, ThreadInv, BagInv, MessagesType, AckMeansDrained
<1> QED
  BY <1>1, <1>2, <1>3, <1>4, <1>5, <1>6, <1>7

(* on_cleanup is entered.                                                  *)
LEMMA OnCleanupKeeps ==
  ASSUME IndInv, OnCleanup
  PROVE  IndInv'
<1> USE BoundsAssumption DEF IndInv, TypeOK, OnCleanup, Stopping,
      flush, counters, executor, writerThread, bags
<1>1. MessagesType' /\ RecordInv' /\ WrittenOnceInOrder' /\ CountMatchesBag'
  BY MessagesStill
<1>2. FlagsType'
  BY DEF FlagsType
<1>3. NumbersType'
  BY DEF NumbersType, FlagsType, Episodes, NoBag
<1>4. LocationsType'
  BY DEF LocationsType, ExecutorLocations, Tasks, WriterLocations
<1>5. ThreadInv'
  BY DEF ThreadInv, MessagesType
<1>6. BagInv'
  BY DEF BagInv, ThreadInv, NumbersType, NoBag
<1>7. QueueInv'
  BY DEF QueueInv, ThreadInv, BagInv, MessagesType, AckMeansDrained
<1> QED
  BY <1>1, <1>2, <1>3, <1>4, <1>5, <1>6, <1>7

(* on_shutdown is entered.                                                 *)
LEMMA OnShutdownKeeps ==
  ASSUME IndInv, OnShutdown
  PROVE  IndInv'
<1> USE BoundsAssumption DEF IndInv, TypeOK, OnShutdown, Stopping,
      flush, counters, executor, writerThread, bags
<1>1. MessagesType' /\ RecordInv' /\ WrittenOnceInOrder' /\ CountMatchesBag'
  BY MessagesStill
<1>2. FlagsType'
  BY DEF FlagsType
<1>3. NumbersType'
  BY DEF NumbersType, FlagsType, Episodes, NoBag
<1>4. LocationsType'
  BY DEF LocationsType, ExecutorLocations, Tasks, WriterLocations
<1>5. ThreadInv'
  BY DEF ThreadInv, MessagesType
<1>6. BagInv'
  BY DEF BagInv, ThreadInv, NumbersType, NoBag
<1>7. QueueInv'
  BY DEF QueueInv, ThreadInv, BagInv, MessagesType, AckMeansDrained
<1> QED
  BY <1>1, <1>2, <1>3, <1>4, <1>5, <1>6, <1>7

(* The destructor is entered.                                              *)
LEMMA DestroyKeeps ==
  ASSUME IndInv, Destroy
  PROVE  IndInv'
<1> USE BoundsAssumption DEF IndInv, TypeOK, Destroy, Stopping,
      flush, counters, executor, writerThread, bags
<1>1. MessagesType' /\ RecordInv' /\ WrittenOnceInOrder' /\ CountMatchesBag'
  BY MessagesStill
<1>2. FlagsType'
  BY DEF FlagsType
<1>3. NumbersType'
  BY DEF NumbersType, FlagsType, Episodes, NoBag
<1>4. LocationsType'
  BY DEF LocationsType, ExecutorLocations, Tasks, WriterLocations
<1>5. ThreadInv'
  BY DEF ThreadInv, MessagesType
<1>6. BagInv'
  BY DEF BagInv, ThreadInv, NumbersType, NoBag
<1>7. QueueInv'
  BY DEF QueueInv, ThreadInv, BagInv, MessagesType, AckMeansDrained
<1> QED
  BY <1>1, <1>2, <1>3, <1>4, <1>5, <1>6, <1>7

(* stop_writer_thread tells the thread to stop.                            *)
LEMMA StopWriterThreadKeeps ==
  ASSUME IndInv, StopWriterThread
  PROVE  IndInv'
<1> USE BoundsAssumption DEF IndInv, TypeOK, StopWriterThread, Notify,
      flush, counters, executor, writerThread, bags
<1>1. MessagesType' /\ RecordInv' /\ WrittenOnceInOrder' /\ CountMatchesBag'
  BY MessagesStill
<1>2. FlagsType'
  BY DEF FlagsType
<1>3. NumbersType'
  BY DEF NumbersType, FlagsType, Episodes, NoBag
<1>4. LocationsType'
  BY DEF LocationsType, ExecutorLocations, Tasks, WriterLocations
<1>5. ThreadInv'
  BY DEF ThreadInv, MessagesType
<1>6. BagInv'
  BY DEF BagInv, ThreadInv, NumbersType, NoBag
<1>7. QueueInv'
  BY DEF QueueInv, ThreadInv, BagInv, MessagesType, AckMeansDrained
<1> QED
  BY <1>1, <1>2, <1>3, <1>4, <1>5, <1>6, <1>7

(* stop_writer_thread joins the thread.                                    *)
LEMMA JoinKeeps ==
  ASSUME IndInv, Join
  PROVE  IndInv'
<1> USE BoundsAssumption DEF IndInv, TypeOK, Join,
      flush, counters, executor, writerThread, bags
<1>1. MessagesType' /\ RecordInv' /\ WrittenOnceInOrder' /\ CountMatchesBag'
  BY MessagesStill
<1>2. FlagsType'
  BY DEF FlagsType
<1>3. NumbersType'
  BY DEF NumbersType, FlagsType, Episodes, NoBag
<1>4. LocationsType'
  BY DEF LocationsType, ExecutorLocations, Tasks, WriterLocations
<1>5. ThreadInv'
  BY DEF ThreadInv, MessagesType
<1>6. BagInv'
  BY DEF BagInv, ThreadInv, NumbersType, NoBag
<1>7. QueueInv'
  BY DEF QueueInv, ThreadInv, BagInv, MessagesType, AckMeansDrained
<1> QED
  BY <1>1, <1>2, <1>3, <1>4, <1>5, <1>6, <1>7

(* on_cleanup resets the queue.                                            *)
LEMMA CleanupDoneKeeps ==
  ASSUME IndInv, CleanupDone
  PROVE  IndInv'
<1> USE BoundsAssumption DEF IndInv, TypeOK, CleanupDone,
      flush, counters, executor, writerThread, bags
<1>1. FlagsType'
  BY DEF FlagsType
<1>2. NumbersType'
  BY DEF NumbersType, FlagsType, Episodes, NoBag
<1>3. LocationsType'
  BY DEF LocationsType, ExecutorLocations, Tasks, WriterLocations
<1>4. ThreadInv'
  BY DEF ThreadInv, MessagesType
<1>5. BagInv'
  BY DEF BagInv, ThreadInv, NumbersType, NoBag
<1>6. QueueInv'
  BY DEF QueueInv, ThreadInv, BagInv, MessagesType, AckMeansDrained
<1>7. MessagesType'
  BY DEF MessagesType
<1>8. RecordInv'
  BY DEF RecordInv, AtMost
<1>9. WrittenOnceInOrder'
  BY EmptyIsOrdered DEF WrittenOnceInOrder, MessagesType
<1>10. CountMatchesBag'
  BY DEF CountMatchesBag
<1> QED
  BY <1>1, <1>2, <1>3, <1>4, <1>5, <1>6, <1>7, <1>8, <1>9, <1>10

(* on_shutdown returns.                                                    *)
LEMMA ShutdownDoneKeeps ==
  ASSUME IndInv, ShutdownDone
  PROVE  IndInv'
<1> USE BoundsAssumption DEF IndInv, TypeOK, ShutdownDone,
      flush, counters, executor, writerThread, bags
<1>1. MessagesType' /\ RecordInv' /\ WrittenOnceInOrder' /\ CountMatchesBag'
  BY MessagesStill
<1>2. FlagsType'
  BY DEF FlagsType
<1>3. NumbersType'
  BY DEF NumbersType, FlagsType, Episodes, NoBag
<1>4. LocationsType'
  BY DEF LocationsType, ExecutorLocations, Tasks, WriterLocations
<1>5. ThreadInv'
  BY DEF ThreadInv, MessagesType
<1>6. BagInv'
  BY DEF BagInv, ThreadInv, NumbersType, NoBag
<1>7. QueueInv'
  BY DEF QueueInv, ThreadInv, BagInv, MessagesType, AckMeansDrained
<1> QED
  BY <1>1, <1>2, <1>3, <1>4, <1>5, <1>6, <1>7

(* The destructor returns.                                                 *)
LEMMA DestroyDoneKeeps ==
  ASSUME IndInv, DestroyDone
  PROVE  IndInv'
<1> USE BoundsAssumption DEF IndInv, TypeOK, DestroyDone,
      flush, counters, executor, writerThread, bags
<1>1. MessagesType' /\ RecordInv' /\ WrittenOnceInOrder' /\ CountMatchesBag'
  BY MessagesStill
<1>2. FlagsType'
  BY DEF FlagsType
<1>3. NumbersType'
  BY DEF NumbersType, FlagsType, Episodes, NoBag
<1>4. LocationsType'
  BY DEF LocationsType, ExecutorLocations, Tasks, WriterLocations
<1>5. ThreadInv'
  BY DEF ThreadInv, MessagesType
<1>6. BagInv'
  BY DEF BagInv, ThreadInv, NumbersType, NoBag
<1>7. QueueInv'
  BY DEF QueueInv, ThreadInv, BagInv, MessagesType, AckMeansDrained
<1> QED
  BY <1>1, <1>2, <1>3, <1>4, <1>5, <1>6, <1>7

(* The writer thread finds nothing to do.                                  *)
LEMMA TestPredicateKeeps ==
  ASSUME IndInv, TestPredicate
  PROVE  IndInv'
<1> USE BoundsAssumption DEF IndInv, TypeOK, TestPredicate, WaitPredicate,
      flush, counters, executor, writerThread, bags
<1>1. MessagesType' /\ RecordInv' /\ WrittenOnceInOrder' /\ CountMatchesBag'
  BY MessagesStill
<1>2. FlagsType'
  BY DEF FlagsType
<1>3. NumbersType'
  BY DEF NumbersType, FlagsType, Episodes, NoBag
<1>4. LocationsType'
  BY DEF LocationsType, ExecutorLocations, Tasks, WriterLocations
<1>5. ThreadInv'
  BY DEF ThreadInv, MessagesType
<1>6. BagInv'
  BY DEF BagInv, ThreadInv, NumbersType, NoBag
<1>7. QueueInv'
  BY DEF QueueInv, ThreadInv, BagInv, MessagesType, AckMeansDrained
<1> QED
  BY <1>1, <1>2, <1>3, <1>4, <1>5, <1>6, <1>7

(* The writer thread blocks.                                               *)
LEMMA BlockKeeps ==
  ASSUME IndInv, Block
  PROVE  IndInv'
<1> USE BoundsAssumption DEF IndInv, TypeOK, Block,
      flush, counters, executor, writerThread, bags
<1>1. MessagesType' /\ RecordInv' /\ WrittenOnceInOrder' /\ CountMatchesBag'
  BY MessagesStill
<1>2. FlagsType'
  BY DEF FlagsType
<1>3. NumbersType'
  BY DEF NumbersType, FlagsType, Episodes, NoBag
<1>4. LocationsType'
  BY DEF LocationsType, ExecutorLocations, Tasks, WriterLocations
<1>5. ThreadInv'
  BY DEF ThreadInv, MessagesType
<1>6. BagInv'
  BY DEF BagInv, ThreadInv, NumbersType, NoBag
<1>7. QueueInv'
  BY DEF QueueInv, ThreadInv, BagInv, MessagesType, AckMeansDrained
<1> QED
  BY <1>1, <1>2, <1>3, <1>4, <1>5, <1>6, <1>7

(* The writer thread wakes for no reason.                                  *)
LEMMA SpuriousWakeupKeeps ==
  ASSUME IndInv, SpuriousWakeup
  PROVE  IndInv'
<1> USE BoundsAssumption DEF IndInv, TypeOK, SpuriousWakeup,
      flush, counters, executor, writerThread, bags
<1>1. MessagesType' /\ RecordInv' /\ WrittenOnceInOrder' /\ CountMatchesBag'
  BY MessagesStill
<1>2. FlagsType'
  BY DEF FlagsType
<1>3. NumbersType'
  BY DEF NumbersType, FlagsType, Episodes, NoBag
<1>4. LocationsType'
  BY DEF LocationsType, ExecutorLocations, Tasks, WriterLocations
<1>5. ThreadInv'
  BY DEF ThreadInv, MessagesType
<1>6. BagInv'
  BY DEF BagInv, ThreadInv, NumbersType, NoBag
<1>7. QueueInv'
  BY DEF QueueInv, ThreadInv, BagInv, MessagesType, AckMeansDrained
<1> QED
  BY <1>1, <1>2, <1>3, <1>4, <1>5, <1>6, <1>7

(* The writer thread returns.                                              *)
LEMMA ExitKeeps ==
  ASSUME IndInv, Exit
  PROVE  IndInv'
<1> USE BoundsAssumption DEF IndInv, TypeOK, Exit, ShouldExit,
      flush, counters, executor, writerThread, bags
<1>1. MessagesType' /\ RecordInv' /\ WrittenOnceInOrder' /\ CountMatchesBag'
  BY MessagesStill
<1>2. FlagsType'
  BY DEF FlagsType
<1>3. NumbersType'
  BY DEF NumbersType, FlagsType, Episodes, NoBag
<1>4. LocationsType'
  BY DEF LocationsType, ExecutorLocations, Tasks, WriterLocations
<1>5. ThreadInv'
  BY DEF ThreadInv, MessagesType
<1>6. BagInv'
  BY DEF BagInv, ThreadInv, NumbersType, NoBag
<1>7. QueueInv'
  BY DEF QueueInv, ThreadInv, BagInv, MessagesType, AckMeansDrained
<1> QED
  BY <1>1, <1>2, <1>3, <1>4, <1>5, <1>6, <1>7

(* The writer thread finds work.                                           *)
LEMMA BeginTakeKeeps ==
  ASSUME IndInv, BeginTake
  PROVE  IndInv'
<1> USE BoundsAssumption DEF IndInv, TypeOK, BeginTake, WaitPredicate, ShouldExit,
      flush, counters, executor, writerThread, bags
<1>1. MessagesType' /\ RecordInv' /\ WrittenOnceInOrder' /\ CountMatchesBag'
  BY MessagesStill
<1>2. FlagsType'
  BY DEF FlagsType
<1>3. NumbersType'
  BY DEF NumbersType, FlagsType, Episodes, NoBag
<1>4. LocationsType'
  BY DEF LocationsType, ExecutorLocations, Tasks, WriterLocations
<1>5. ThreadInv'
  BY DEF ThreadInv, MessagesType
<1>6. BagInv'
  BY DEF BagInv, ThreadInv, NumbersType, NoBag
<1>7. QueueInv'
  BY DEF QueueInv, ThreadInv, BagInv, MessagesType, AckMeansDrained
<1> QED
  BY <1>1, <1>2, <1>3, <1>4, <1>5, <1>6, <1>7

(* The writer thread moves a message into its batch.                       *)
LEMMA TakeMessageKeeps ==
  ASSUME IndInv, TakeMessage
  PROVE  IndInv'
<1> USE BoundsAssumption DEF IndInv, TypeOK, TakeMessage, BatchComplete, TakeFront,
      flush, counters, executor, writerThread, bags
<1>h. /\ queue # << >> /\ Head(queue) \in Message /\ Head(queue) = queue[1]
      /\ Tail(queue) \in Seq(Message)
  BY TailOfMessages DEF MessagesType
<1>1. FlagsType'
  BY DEF FlagsType
<1>2. NumbersType'
  BY <1>h, SizesAssumption DEF NumbersType, Message
<1>3. LocationsType'
  BY DEF LocationsType, ExecutorLocations, Tasks, WriterLocations
<1>4. ThreadInv'
  BY DEF ThreadInv, MessagesType
<1>5. BagInv'
  BY DEF BagInv, ThreadInv, NumbersType, NoBag
<1>6. QueueInv'
  BY DEF QueueInv, ThreadInv, BagInv, MessagesType, AckMeansDrained
<1>7. MessagesType'
  BY <1>h DEF MessagesType
<1>8. RecordInv'
  BY <1>h, AtMostTail, AtMostAppend DEF RecordInv, MessagesType, NumbersType
<1>9. WrittenOnceInOrder'
  <2>1. /\ Ordered(Tail(queue))
        /\ \A i \in 1 .. Len(Tail(queue)) : Head(queue).id < Tail(queue)[i].id
        /\ Before(batch, Tail(queue))
        /\ \A i \in 1 .. Len(batch) : batch[i].id < Head(queue).id
    BY <1>h, OrderedTail, BeforeTail DEF WrittenOnceInOrder, MessagesType
  <2>2. Ordered(batch') /\ Before(batch', queue')
    BY <1>h, <2>1, OrderedAppend, BeforeAppendLeft DEF WrittenOnceInOrder, MessagesType
  <2>3. ASSUME NEW e \in Episodes
        PROVE  Before(bag[e], batch') /\ Before(bag[e], queue')
    <3>1. bag[e] \in Seq(Message) /\ Before(bag[e], queue) /\ Before(bag[e], batch)
      BY DEF MessagesType, WrittenOnceInOrder
    <3> QED
      BY <1>h, <3>1, BeforeTail, BeforeAppendRight DEF MessagesType
  <2> QED
    BY <2>1, <2>2, <2>3 DEF WrittenOnceInOrder
<1>10. CountMatchesBag'
  BY DEF CountMatchesBag
<1> QED
  BY <1>1, <1>2, <1>3, <1>4, <1>5, <1>6, <1>7, <1>8, <1>9, <1>10

(* The writer thread has its batch.                                        *)
LEMMA EndTakeKeeps ==
  ASSUME IndInv, EndTake
  PROVE  IndInv'
<1> USE BoundsAssumption DEF IndInv, TypeOK, EndTake, BatchComplete, Flushes,
      flush, counters, executor, writerThread, bags
<1>1. MessagesType' /\ RecordInv' /\ WrittenOnceInOrder' /\ CountMatchesBag'
  BY MessagesStill
<1>2. FlagsType'
  BY DEF FlagsType
<1>3. NumbersType'
  BY DEF NumbersType, FlagsType, Episodes, NoBag
<1>4. LocationsType'
  BY DEF LocationsType, ExecutorLocations, Tasks, WriterLocations
<1>5. ThreadInv'
  BY DEF ThreadInv, MessagesType
<1>6. BagInv'
  BY DEF BagInv, ThreadInv, NumbersType, NoBag
<1>7. QueueInv'
  BY DEF QueueInv, ThreadInv, BagInv, MessagesType, AckMeansDrained
<1> QED
  BY <1>1, <1>2, <1>3, <1>4, <1>5, <1>6, <1>7

(* The writer thread finds a bag to write to.                              *)
LEMMA LockWriterKeeps ==
  ASSUME IndInv, LockWriter
  PROVE  IndInv'
<1> USE BoundsAssumption DEF IndInv, TypeOK, LockWriter,
      flush, counters, executor, writerThread, bags
<1>1. MessagesType' /\ RecordInv' /\ WrittenOnceInOrder' /\ CountMatchesBag'
  BY MessagesStill
<1>2. FlagsType'
  BY DEF FlagsType
<1>3. NumbersType'
  BY DEF NumbersType, FlagsType, Episodes, NoBag
<1>4. LocationsType'
  BY DEF LocationsType, ExecutorLocations, Tasks, WriterLocations
<1>5. ThreadInv'
  BY DEF ThreadInv, MessagesType
<1>6. BagInv'
  BY DEF BagInv, ThreadInv, NumbersType, NoBag
<1>7. QueueInv'
  BY DEF QueueInv, ThreadInv, BagInv, MessagesType, AckMeansDrained
<1> QED
  BY <1>1, <1>2, <1>3, <1>4, <1>5, <1>6, <1>7

(* The writer thread finds no bag to write to.                             *)
LEMMA DiscardBatchKeeps ==
  ASSUME IndInv, DiscardBatch
  PROVE  IndInv'
<1> USE BoundsAssumption DEF IndInv, TypeOK, DiscardBatch, AfterBatch,
      flush, counters, executor, writerThread, bags
<1>1. FlagsType'
  BY DEF FlagsType
<1>2. NumbersType'
  BY DEF NumbersType, FlagsType, Episodes, NoBag
<1>3. LocationsType'
  BY DEF LocationsType, ExecutorLocations, Tasks, WriterLocations
<1>4. ThreadInv'
  BY DEF ThreadInv, MessagesType
<1>5. BagInv'
  BY DEF BagInv, ThreadInv, NumbersType, NoBag
<1>6. QueueInv'
  BY DEF QueueInv, ThreadInv, BagInv, MessagesType, AckMeansDrained
<1>7. MessagesType'
  <2>1. Elements(batch) \subseteq Message
    BY ElementsType DEF MessagesType
  <2>2. lost' \in [Fates -> SUBSET Message]
    BY <2>1, LoseType DEF Fates
  <2> QED
    BY <2>2 DEF MessagesType
<1>8. RecordInv'
  BY DEF RecordInv, AtMost
<1>9. WrittenOnceInOrder'
  BY EmptyIsOrdered DEF WrittenOnceInOrder, MessagesType
<1>10. CountMatchesBag'
  BY DEF CountMatchesBag
<1> QED
  BY <1>1, <1>2, <1>3, <1>4, <1>5, <1>6, <1>7, <1>8, <1>9, <1>10

(* The writer thread writes a message.                                     *)
LEMMA WriteMessageKeeps ==
  ASSUME IndInv, WriteMessage
  PROVE  IndInv'
<1> USE BoundsAssumption DEF IndInv, TypeOK, WriteMessage, NextMessage, AfterBatch,
      flush, counters, executor, writerThread, bags
<1>h. batch # << >> /\ Head(batch) \in Message /\ Tail(batch) \in Seq(Message)
  BY TailOfMessages DEF MessagesType, ThreadInv
<1>w. writer \in Episodes /\ writer = episode
  BY DEF NumbersType, BagInv, NoBag, Episodes
<1>b. /\ bag[writer] \in Seq(Message)
      /\ bag' = [bag EXCEPT ![writer] = Append(bag[writer], Head(batch))]
      /\ bag'[writer] = Append(bag[writer], Head(batch))
      /\ \A e \in Episodes : e # writer => bag'[e] = bag[e]
  BY <1>w DEF MessagesType
<1>1. FlagsType'
  BY DEF FlagsType
<1>2. NumbersType'
  BY DEF NumbersType
<1>3. LocationsType'
  BY DEF LocationsType, ExecutorLocations, Tasks, WriterLocations
<1>4. ThreadInv'
  BY DEF ThreadInv, MessagesType
<1>5. BagInv'
  BY DEF BagInv, ThreadInv, NumbersType, NoBag
<1>6. QueueInv'
  BY DEF QueueInv, ThreadInv, BagInv, MessagesType, AckMeansDrained
<1>7. MessagesType'
  BY <1>h, <1>w DEF MessagesType
<1>8. RecordInv'
  <2>1. AtMost(Tail(batch), arrivals) /\ Head(batch).id <= arrivals
    BY <1>h, AtMostTail DEF RecordInv, MessagesType, NumbersType
  <2>2. AtMost(bag'[writer], arrivals)
    BY <1>h, <1>w, <1>b, <2>1, AtMostAppend DEF RecordInv, NumbersType
  <2>3. ASSUME NEW e \in Episodes, e > episode
        PROVE  bag'[e] = << >> /\ retained[e] = 0
    BY <1>w, <1>b, <2>3 DEF RecordInv, Episodes
  <2> QED
    BY <1>b, <2>1, <2>2, <2>3 DEF RecordInv
<1>9. WrittenOnceInOrder'
  <2>1. /\ Ordered(Tail(batch)) /\ Before(Tail(batch), queue)
        /\ \A j \in 1 .. Len(Tail(batch)) : Head(batch).id < Tail(batch)[j].id
        /\ \A j \in 1 .. Len(queue) : Head(batch).id < queue[j].id
    BY <1>h, OrderedTail, BeforeTail DEF WrittenOnceInOrder, MessagesType
  <2>2. ASSUME NEW e \in Episodes
        PROVE  /\ Before(bag[e], Tail(batch))
               /\ \A i \in 1 .. Len(bag[e]) : bag[e][i].id < Head(batch).id
    <3>1. bag[e] \in Seq(Message) /\ Before(bag[e], batch)
      BY DEF MessagesType, WrittenOnceInOrder
    <3> QED
      BY <1>h, <3>1, BeforeTail DEF MessagesType
  <2>3. /\ Ordered(bag'[writer])
        /\ Before(bag'[writer], Tail(batch))
        /\ Before(bag'[writer], queue)
    <3>1. /\ Ordered(bag[writer]) /\ Before(bag[writer], queue)
          /\ queue \in Seq(Message)
      BY <1>w DEF WrittenOnceInOrder, MessagesType
    <3>2. Before(bag[writer], Tail(batch))
      BY <1>w, <2>2
    <3>3. \A i \in 1 .. Len(bag[writer]) : bag[writer][i].id < Head(batch).id
      BY <1>w, <2>2
    <3>4. Ordered(Append(bag[writer], Head(batch)))
      BY <1>h, <1>b, <3>1, <3>3, OrderedAppend
    <3>5. Before(Append(bag[writer], Head(batch)), Tail(batch))
      BY <1>h, <1>b, <2>1, <3>2, BeforeAppendLeft
    <3>6. Before(Append(bag[writer], Head(batch)), queue)
      BY <1>h, <1>b, <2>1, <3>1, BeforeAppendLeft
    <3> QED
      BY <1>b, <3>4, <3>5, <3>6
  <2>4. ASSUME NEW e \in Episodes, NEW f \in Episodes, e < f
        PROVE  Before(bag'[e], bag'[f])
    <3>0. bag[e] \in Seq(Message) /\ Before(bag[e], bag[f])
      BY <2>4 DEF WrittenOnceInOrder, MessagesType
    <3>1. CASE f = writer
      <4>1. e # writer
        BY <2>4, <3>1 DEF Episodes
      <4> QED
        BY <1>h, <1>b, <2>2, <3>0, <3>1, <4>1, BeforeAppendRight
    <3>2. CASE e = writer
      <4>1. f # writer /\ f > episode
        BY <1>w, <2>4, <3>2 DEF Episodes
      <4>2. bag'[f] = << >>
        BY <1>b, <4>1 DEF RecordInv
      <4> QED
        BY <1>h, <1>b, <3>2, <4>2, AppendToMessages, EmptyIsOrdered
    <3>3. CASE f # writer /\ e # writer
      BY <1>b, <3>0, <3>3
    <3> QED
      BY <3>1, <3>2, <3>3
  <2>5. ASSUME NEW e \in Episodes
        PROVE  Ordered(bag'[e]) /\ Before(bag'[e], batch') /\ Before(bag'[e], queue')
    <3>1. CASE e = writer
      BY <2>3, <3>1
    <3>2. CASE e # writer
      BY <1>b, <2>2, <3>2 DEF WrittenOnceInOrder
    <3> QED
      BY <3>1, <3>2
  <2> QED
    BY <2>1, <2>4, <2>5 DEF WrittenOnceInOrder
<1>10. CountMatchesBag'
  <2>1. Len(bag'[writer]) = Len(bag[writer]) + 1
    BY <1>h, <1>b, AppendToMessages
  <2>2. retained[writer] \in Nat /\ Len(bag[writer]) \in Nat
    BY <1>w, <1>b DEF NumbersType
  <2> QED
    BY <1>w, <2>1, <2>2 DEF CountMatchesBag, NumbersType
<1> QED
  BY <1>1, <1>2, <1>3, <1>4, <1>5, <1>6, <1>7, <1>8, <1>9, <1>10

(* Writing a message throws.                                               *)
LEMMA WriteFailsKeeps ==
  ASSUME IndInv, WriteFails
  PROVE  IndInv'
<1> USE BoundsAssumption DEF IndInv, TypeOK, WriteFails, NextMessage, AfterBatch,
      flush, counters, executor, writerThread, bags
<1>h. batch # << >> /\ Head(batch) \in Message /\ Tail(batch) \in Seq(Message)
  BY TailOfMessages DEF MessagesType, ThreadInv
<1>1. FlagsType'
  BY DEF FlagsType
<1>2. NumbersType'
  BY DEF NumbersType, FlagsType, Episodes, NoBag
<1>3. LocationsType'
  BY DEF LocationsType, ExecutorLocations, Tasks, WriterLocations
<1>4. ThreadInv'
  BY DEF ThreadInv, MessagesType
<1>5. BagInv'
  BY DEF BagInv, ThreadInv, NumbersType, NoBag
<1>6. QueueInv'
  BY DEF QueueInv, ThreadInv, BagInv, MessagesType, AckMeansDrained
<1>7. MessagesType'
  <2>1. lost' \in [Fates -> SUBSET Message]
    BY <1>h, LoseType DEF Fates
  <2> QED
    BY <2>1, <1>h DEF MessagesType
<1>8. RecordInv'
  BY <1>h, AtMostTail DEF RecordInv, MessagesType, NumbersType
<1>9. WrittenOnceInOrder'
  BY <1>h, OrderedTail, BeforeTail DEF WrittenOnceInOrder, MessagesType
<1>10. CountMatchesBag'
  BY DEF CountMatchesBag
<1> QED
  BY <1>1, <1>2, <1>3, <1>4, <1>5, <1>6, <1>7, <1>8, <1>9, <1>10

(* The topic of a message is gone.                                         *)
LEMMA SkipMessageKeeps ==
  ASSUME IndInv, SkipMessage
  PROVE  IndInv'
<1> USE BoundsAssumption DEF IndInv, TypeOK, SkipMessage, NextMessage, AfterBatch,
      flush, counters, executor, writerThread, bags
<1>h. batch # << >> /\ Head(batch) \in Message /\ Tail(batch) \in Seq(Message)
  BY TailOfMessages DEF MessagesType, ThreadInv
<1>1. FlagsType'
  BY DEF FlagsType
<1>2. NumbersType'
  BY DEF NumbersType, FlagsType, Episodes, NoBag
<1>3. LocationsType'
  BY DEF LocationsType, ExecutorLocations, Tasks, WriterLocations
<1>4. ThreadInv'
  BY DEF ThreadInv, MessagesType
<1>5. BagInv'
  BY DEF BagInv, ThreadInv, NumbersType, NoBag
<1>6. QueueInv'
  BY DEF QueueInv, ThreadInv, BagInv, MessagesType, AckMeansDrained
<1>7. MessagesType'
  <2>1. lost' \in [Fates -> SUBSET Message]
    BY <1>h, LoseType DEF Fates
  <2> QED
    BY <2>1, <1>h DEF MessagesType
<1>8. RecordInv'
  BY <1>h, AtMostTail DEF RecordInv, MessagesType, NumbersType
<1>9. WrittenOnceInOrder'
  BY <1>h, OrderedTail, BeforeTail DEF WrittenOnceInOrder, MessagesType
<1>10. CountMatchesBag'
  BY DEF CountMatchesBag
<1> QED
  BY <1>1, <1>2, <1>3, <1>4, <1>5, <1>6, <1>7, <1>8, <1>9, <1>10

(* The writer thread acknowledges the flush.                               *)
LEMMA AcknowledgeKeeps ==
  ASSUME IndInv, Acknowledge
  PROVE  IndInv'
<1> USE BoundsAssumption DEF IndInv, TypeOK, Acknowledge, AckIfEmpty,
      flush, counters, executor, writerThread, bags
<1>1. MessagesType' /\ RecordInv' /\ WrittenOnceInOrder' /\ CountMatchesBag'
  BY MessagesStill
<1>2. FlagsType'
  BY DEF FlagsType
<1>3. NumbersType'
  BY DEF NumbersType, FlagsType, Episodes, NoBag
<1>4. LocationsType'
  BY DEF LocationsType, ExecutorLocations, Tasks, WriterLocations
<1>5. ThreadInv'
  BY DEF ThreadInv, MessagesType
<1>6. BagInv'
  BY DEF BagInv, ThreadInv, NumbersType, NoBag
<1>7. QueueInv'
  BY DEF QueueInv, ThreadInv, BagInv, MessagesType, AckMeansDrained
<1> QED
  BY <1>1, <1>2, <1>3, <1>4, <1>5, <1>6, <1>7

(* Every step keeps it.                                                    *)
LEMMA NextKeepsIndInv == IndInv /\ [Next]_vars => IndInv'
<1> SUFFICES ASSUME IndInv, [Next]_vars PROVE IndInv'
  OBVIOUS
<1>1. CASE Start
  <2>1. CASE \E k \in 0 .. MaxRetained : StartRecording(k)
    BY <2>1, StartRecordingKeeps
  <2>2. CASE \E k \in 0 .. MaxRetained - 1 : RetainedWriteFails(k)
    <3>1. PICK k \in 0 .. MaxRetained - 1 : RetainedWriteFails(k)
      BY <2>2
    <3>2. k \in 0 .. MaxRetained
      BY BoundsAssumption
    <3> QED
      BY <3>1, <3>2, RetainedWriteFailsKeeps
  <2>3. CASE OpenFails
    BY <2>3, OpenFailsKeeps
  <2> QED
    BY <1>1, <2>1, <2>2, <2>3 DEF Start
<1>2. CASE OnMessage
  BY <1>2, EnqueueKeeps, DropKeeps DEF OnMessage
<1>3. CASE EndEpisode \/ ShutdownRecording
  BY <1>3, FinishRecordingKeeps DEF EndEpisode, ShutdownRecording
<1>4. CASE OnCleanup \/ OnShutdown \/ Destroy
  BY <1>4, OnCleanupKeeps, OnShutdownKeeps, DestroyKeeps
<1>5. CASE ExecutorProgress \/ DrainTimeout
  BY <1>5, DrainDoneKeeps, DrainTimeoutKeeps, CloseWriterKeeps, StopWriterThreadKeeps,
     JoinKeeps, CleanupDoneKeeps, ShutdownDoneKeeps, DestroyDoneKeeps DEF ExecutorProgress
<1>6. CASE WriterStep \/ SpuriousWakeup
  BY <1>6, TestPredicateKeeps, BlockKeeps, ExitKeeps, BeginTakeKeeps, TakeMessageKeeps,
     EndTakeKeeps, LockWriterKeeps, DiscardBatchKeeps, WriteMessageKeeps, WriteFailsKeeps,
     SkipMessageKeeps, AcknowledgeKeeps, SpuriousWakeupKeeps DEF WriterStep
<1>7. CASE Gone \/ UNCHANGED vars
  <2>1. UNCHANGED vars
    BY <1>7 DEF Gone
  <2> QED
    BY <2>1, MessagesStill DEF IndInv, TypeOK, FlagsType, NumbersType, LocationsType, ThreadInv,
       BagInv, QueueInv, AckMeansDrained, vars, flush, counters, executor, writerThread, bags
<1> QED
  BY <1>1, <1>2, <1>3, <1>4, <1>5, <1>6, <1>7 DEF Next

-----------------------------------------------------------------------------
(* The theorems.                                                           *)

(* The inductive invariant of the hand-off always holds.                   *)
THEOREM Invariance == Spec => []IndInv
<1>1. Init => IndInv
  BY InitIndInv
<1>2. IndInv /\ [Next]_vars => IndInv'
  BY NextKeepsIndInv
<1> QED
  BY <1>1, <1>2, PTL DEF Spec

(* Every variable of the two threads keeps its type.                       *)
THEOREM TypeCorrect == Spec => []TypeOK
<1>1. IndInv => TypeOK
  BY DEF IndInv
<1> QED
  BY <1>1, Invariance, PTL

(* writer_thread_main never writes through a null writer_, and an episode  *)
(* under way has a bag and a running thread.                               *)
THEOREM WriterLive == Spec => []WriterIsLive
<1>1. IndInv => WriterIsLive
  BY DEF IndInv, BagInv, ThreadInv, WriterIsLive
<1> QED
  BY <1>1, Invariance, PTL

(* The bags hold the messages once, in the order on_message got them, for  *)
(* any number of messages, episodes and batches.                           *)
THEOREM WrittenInOrder == Spec => []WrittenOnceInOrder
<1>1. IndInv => WrittenOnceInOrder
  BY DEF IndInv
<1> QED
  BY <1>1, Invariance, PTL

(* messages_written_ is the size of the episode's bag.                     *)
THEOREM CountIsRight == Spec => []CountMatchesBag
<1>1. IndInv => CountMatchesBag
  BY DEF IndInv
<1> QED
  BY <1>1, Invariance, PTL

(* An acknowledged flush leaves nothing in the writer thread's hands.      *)
THEOREM AcknowledgedIsDrained == Spec => []AckMeansDrained
<1>1. IndInv => AckMeansDrained
  BY DEF IndInv, QueueInv
<1> QED
  BY <1>1, Invariance, PTL

(* The queue never carries a message from one episode to the next.         *)
THEOREM QueueIsOneEpisode == Spec => []QueueHoldsOneEpisode
<1>1. IndInv => QueueHoldsOneEpisode
  BY DEF IndInv, QueueInv, QueueHoldsOneEpisode
<1> QED
  BY <1>1, Invariance, PTL

(* A joined thread has left nothing behind, at cleanup, shutdown and in    *)
(* the destructor.                                                         *)
THEOREM JoinedIsDrained == Spec => []NothingLeftAfterJoin
<1>1. IndInv => NothingLeftAfterJoin
  BY DEF IndInv, ThreadInv, QueueInv, BagInv, NothingLeftAfterJoin
<1> QED
  BY <1>1, Invariance, PTL

=============================================================================
