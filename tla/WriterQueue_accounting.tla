----------------------- MODULE WriterQueue_accounting -----------------------
(***************************************************************************)
(* What the recorder's counters say of the queue, and what becomes of each *)
(* message: the byte count is exact, no message vanishes, the drop counter *)
(* is honest, and a discarded batch was the end of its episode.            *)
(***************************************************************************)
EXTENDS WriterQueue_proofs, NaturalLemmas, FiniteSetTheorems

-----------------------------------------------------------------------------
(* Sums of sizes.                                                          *)

(* f sums the sizes of the first i messages of s, for each i.              *)
Sums(f, s, n) == f = [i \in 0 .. n |-> IF i = 0 THEN 0 ELSE f[i - 1] + s[i].size]

(* The sums exist: the recursion is over the length of the sequence.       *)
LEMMA SumsExist ==
  ASSUME NEW s, NEW n \in Nat
  PROVE  \E f : Sums(f, s, n)
<1> DEFINE Bad == {k \in Nat : ~\E f : Sums(f, s, k)}
<1> SUFFICES ASSUME Bad # {} PROVE FALSE
  OBVIOUS
<1>1. PICK k \in Bad : \A m \in Bad : k <= m
  <2> Bad \in SUBSET Nat
    OBVIOUS
  <2> HIDE DEF Bad
  <2> QED
    BY LeastNumber
<1>2. k # 0
  <2>1. Sums([i \in 0 .. 0 |-> 0], s, 0)
    BY DEF Sums
  <2> QED
    BY <2>1
<1>3. k - 1 \in Nat /\ k - 1 \notin Bad
  BY <1>1, <1>2
<1>4. PICK f : Sums(f, s, k - 1)
  BY <1>3
<1> DEFINE g == [i \in 0 .. k |-> IF i = k THEN f[k - 1] + s[k].size ELSE f[i]]
<1>5. Sums(g, s, k)
  <2>1. ASSUME NEW i \in 0 .. k
        PROVE  g[i] = IF i = 0 THEN 0 ELSE g[i - 1] + s[i].size
    <3>1. CASE i = k
      <4>1. k - 1 \in 0 .. k /\ k - 1 # k /\ i # 0
        BY <1>2, <3>1
      <4> QED
        BY <3>1, <4>1
    <3>2. CASE i # k
      <4>1. i \in 0 .. k - 1 /\ f[i] = IF i = 0 THEN 0 ELSE f[i - 1] + s[i].size
        BY <3>2, <1>4, <1>3 DEF Sums
      <4>2. i # 0 => i - 1 \in 0 .. k /\ i - 1 # k
        BY <3>2
      <4> QED
        BY <3>2, <4>1, <4>2
    <3> QED
      BY <3>1, <3>2
  <2> QED
    BY <2>1 DEF Sums
<1> QED
  BY <1>5

(* SumSizes is one of them.                                                *)
LEMMA SumSizesDef ==
  ASSUME NEW s \in Seq(Message)
  PROVE  \E f : Sums(f, s, Len(s)) /\ SumSizes(s) = f[Len(s)]
<1> DEFINE sum == CHOOSE f : Sums(f, s, Len(s))
<1>1. Sums(sum, s, Len(s))
  BY SumsExist
<1>2. SumSizes(s) = sum[Len(s)]
  BY DEF SumSizes, Sums
<1> QED
  BY <1>1, <1>2

(* Each sum is the one before and one size more.                           *)
LEMMA SumsStep ==
  ASSUME NEW f, NEW s, NEW n \in Nat, Sums(f, s, n)
  PROVE  f[0] = 0 /\ \A i \in 1 .. n : f[i] = f[i - 1] + s[i].size
BY DEF Sums

(* Sizes add up to a number.                                               *)
LEMMA SumsAreNumbers ==
  ASSUME NEW s \in Seq(Message), NEW n \in 0 .. Len(s), NEW f, Sums(f, s, n)
  PROVE  \A i \in 0 .. n : f[i] \in Nat
<1> DEFINE Bad == {i \in 0 .. n : f[i] \notin Nat}
<1> SUFFICES ASSUME Bad # {} PROVE FALSE
  OBVIOUS
<1>1. PICK i \in Bad : \A j \in Bad : i <= j
  <2> Bad \in SUBSET Nat
    OBVIOUS
  <2> HIDE DEF Bad
  <2> QED
    BY LeastNumber
<1>2. i # 0 /\ i \in 1 .. n
  BY SumsStep
<1>3. i - 1 \in 0 .. n /\ f[i - 1] \in Nat
  BY <1>1, <1>2
<1>4. s[i].size \in Nat
  <2>1. s[i] \in Message
    BY <1>2
  <2> QED
    BY <2>1, SizesAssumption DEF Message
<1> QED
  BY <1>2, <1>3, <1>4, SumsStep

(* Sequences with a common beginning have the same sums there.             *)
LEMMA SumsAgree ==
  ASSUME NEW s, NEW t, NEW n \in Nat, NEW m \in Nat, n <= m, NEW f, NEW g,
         Sums(f, s, n), Sums(g, t, m), \A i \in 1 .. n : s[i] = t[i]
  PROVE  \A i \in 0 .. n : f[i] = g[i]
<1> DEFINE Bad == {i \in 0 .. n : f[i] # g[i]}
<1> SUFFICES ASSUME Bad # {} PROVE FALSE
  OBVIOUS
<1>1. PICK i \in Bad : \A j \in Bad : i <= j
  <2> Bad \in SUBSET Nat
    OBVIOUS
  <2> HIDE DEF Bad
  <2> QED
    BY LeastNumber
<1>2. i \in 1 .. n /\ i \in 1 .. m
  BY SumsStep
<1>3. i - 1 \in 0 .. n /\ f[i - 1] = g[i - 1]
  BY <1>1, <1>2
<1> QED
  BY <1>2, <1>3, SumsStep

(* Without its first message, every sum is less by that message's size.    *)
LEMMA SumsOfTail ==
  ASSUME NEW s \in Seq(Message), s # << >>, NEW f, NEW g,
         Sums(f, s, Len(s)), Sums(g, Tail(s), Len(s) - 1)
  PROVE  \A i \in 0 .. Len(s) - 1 : f[i + 1] = g[i] + s[1].size
<1>t. /\ Len(s) \in Nat /\ Len(s) - 1 \in Nat
      /\ \A i \in 1 .. Len(s) - 1 : Tail(s)[i] = s[i + 1] /\ s[i + 1] \in Message
      /\ s[1] \in Message
  OBVIOUS
<1>n. /\ \A i \in 0 .. Len(s) : f[i] \in Nat
      /\ \A i \in 0 .. Len(s) - 1 : g[i] \in Nat
  <2>1. \A i \in 0 .. Len(s) : f[i] \in Nat
    BY <1>t, SumsAreNumbers
  <2>2. Tail(s) \in Seq(Message) /\ Len(s) - 1 \in 0 .. Len(Tail(s))
    BY TailOfMessages, <1>t
  <2>3. \A i \in 0 .. Len(s) - 1 : g[i] \in Nat
    BY <2>2, SumsAreNumbers
  <2> QED
    BY <2>1, <2>3
<1>z. \A m \in Message : m.size \in Nat
  BY SizesAssumption DEF Message
<1> DEFINE Bad == {i \in 0 .. Len(s) - 1 : f[i + 1] # g[i] + s[1].size}
<1> SUFFICES ASSUME Bad # {} PROVE FALSE
  OBVIOUS
<1>1. PICK i \in Bad : \A j \in Bad : i <= j
  <2> Bad \in SUBSET Nat
    BY <1>t
  <2> HIDE DEF Bad
  <2> QED
    BY LeastNumber
<1>2. i # 0
  <2>1. f[0 + 1] = f[0] + s[1].size /\ f[0] = 0 /\ g[0] = 0
    BY <1>t, SumsStep
  <2> QED
    BY <2>1
<1>3. i \in 1 .. Len(s) - 1 /\ i + 1 \in 1 .. Len(s) /\ i - 1 \in 0 .. Len(s) - 1
  BY <1>t, <1>2
<1>4. f[(i - 1) + 1] = g[i - 1] + s[1].size
  BY <1>1, <1>3
<1>5. f[i + 1] = f[i] + s[i + 1].size /\ g[i] = g[i - 1] + s[i + 1].size
  <2>1. f[i + 1] = f[(i + 1) - 1] + s[i + 1].size
    BY <1>t, <1>3, SumsStep
  <2>2. g[i] = g[i - 1] + Tail(s)[i].size
    BY <1>t, <1>3, SumsStep
  <2> QED
    BY <1>t, <1>3, <2>1, <2>2
<1>6. s[i + 1].size \in Nat /\ s[1].size \in Nat /\ g[i - 1] \in Nat /\ g[i] \in Nat /\ f[i] \in Nat
  BY <1>t, <1>n, <1>z, <1>3
<1> QED
  BY <1>3, <1>4, <1>5, <1>6

(* The byte count on_message keeps: a push_back adds a size.               *)
LEMMA SumSizesAppend ==
  ASSUME NEW s \in Seq(Message), NEW m \in Message
  PROVE  SumSizes(Append(s, m)) = SumSizes(s) + m.size
<1> DEFINE t == Append(s, m)
           n == Len(s)
<1>t. /\ t \in Seq(Message) /\ Len(t) = n + 1 /\ t[n + 1] = m
      /\ \A i \in 1 .. n : s[i] = t[i]
  BY AppendToMessages
<1>n. /\ n \in Nat /\ n + 1 \in Nat /\ n <= n + 1
      /\ n + 1 \in 1 .. n + 1 /\ n \in 0 .. n /\ (n + 1) - 1 = n
  OBVIOUS
<1>1. PICK f : Sums(f, s, n) /\ SumSizes(s) = f[n]
  BY SumSizesDef
<1>2. PICK g : Sums(g, t, n + 1) /\ SumSizes(t) = g[n + 1]
  BY <1>t, SumSizesDef
<1> HIDE DEF t, n
<1>3. \A i \in 0 .. n : f[i] = g[i]
  BY <1>t, <1>n, <1>1, <1>2, SumsAgree
<1>4. \A i \in 1 .. n + 1 : g[i] = g[i - 1] + t[i].size
  BY <1>n, <1>2, SumsStep
<1>5. SumSizes(t) = SumSizes(s) + m.size
  BY <1>t, <1>n, <1>1, <1>2, <1>3, <1>4
<1> QED
  BY <1>5 DEF t

(* The byte count of the writer thread: a pop_front takes a size off, and  *)
(* there is as much to take.                                               *)
LEMMA SumSizesTail ==
  ASSUME NEW s \in Seq(Message), s # << >>
  PROVE  SumSizes(s) = SumSizes(Tail(s)) + Head(s).size
<1>t. /\ Tail(s) \in Seq(Message) /\ Len(Tail(s)) = Len(s) - 1 /\ Head(s) = s[1]
      /\ Len(s) \in Nat /\ Len(s) - 1 \in 0 .. Len(s) - 1
  BY TailOfMessages
<1>1. PICK f : Sums(f, s, Len(s)) /\ SumSizes(s) = f[Len(s)]
  BY SumSizesDef
<1>2. PICK g : Sums(g, Tail(s), Len(s) - 1) /\ SumSizes(Tail(s)) = g[Len(s) - 1]
  BY <1>t, SumSizesDef
<1>3. f[(Len(s) - 1) + 1] = g[Len(s) - 1] + s[1].size
  BY <1>t, <1>1, <1>2, SumsOfTail
<1> QED
  BY <1>t, <1>1, <1>2, <1>3

(* The byte count of any queue is a number, and zero of an empty one.      *)
LEMMA SumSizesType ==
  ASSUME NEW s \in Seq(Message)
  PROVE  SumSizes(s) \in Nat /\ (s = << >> => SumSizes(s) = 0)
<1>1. PICK f : Sums(f, s, Len(s)) /\ SumSizes(s) = f[Len(s)]
  BY SumSizesDef
<1>2. Len(s) \in Nat /\ (s = << >> => Len(s) = 0)
  OBVIOUS
<1> QED
  BY <1>1, <1>2, SumsAreNumbers, SumsStep

-----------------------------------------------------------------------------
(* What a step may do to the messages.                                     *)

(* The steps that neither deliver, move, write nor lose a message: they    *)
(* leave everything alone, close the bag, or reset an empty queue.         *)
Untouched == UNCHANGED <<batch, bag, lost, arrivals, episode, messages_dropped>>
Still == UNCHANGED <<queue, queue_bytes, writer>>
Closing == queue = << >> /\ writer' = NoBag /\ UNCHANGED <<queue, queue_bytes>>
Resetting == queue = << >> /\ queue' = << >> /\ queue_bytes' = 0 /\ UNCHANGED writer
Aside == Untouched /\ (Still \/ Closing \/ Resetting)

(* Starting an episode touches no message, for the queue it may clear is   *)
(* empty, and finds no bag open.                                           *)
Starting ==
  /\ writer = NoBag /\ queue = << >> /\ queue' = << >> /\ queue_bytes' \in {0, queue_bytes}
  /\ episode' = episode + 1 /\ messages_dropped' = 0
  /\ UNCHANGED <<batch, bag, lost, arrivals>>

(* on_message and the moves of the messages are all the other steps.       *)
Moving ==
  \/ \E size \in Sizes : Enqueue(size) \/ Drop(size)
  \/ DrainTimeout \/ TakeMessage \/ DiscardBatch
  \/ WriteMessage \/ WriteFails \/ SkipMessage

(* A step of the two threads is one of these.                              *)
LEMMA StepKinds ==
  ASSUME IndInv, [Next]_vars
  PROVE  Starting \/ Aside \/ Moving
<1> USE DEF flush, counters, executor, writerThread, bags, Aside, Untouched, Still, Closing,
            Resetting, Moving
<1>1. CASE Start
  <2>1. writer = NoBag /\ queue = << >>
    BY <1>1 DEF IndInv, TypeOK, FlagsType, BagInv, QueueInv, Start, StartRecording, OpenFails,
       RetainedWriteFails, CanStart
  <2> QED
    BY <1>1, <2>1 DEF Start, StartRecording, OpenFails, RetainedWriteFails, CanStart,
       ResetCounters, StartWriterThread, Starting
<1>2. CASE OnMessage
  BY <1>2 DEF OnMessage
<1>3. CASE EndEpisode \/ ShutdownRecording \/ OnCleanup \/ OnShutdown \/ Destroy
  BY <1>3 DEF EndEpisode, ShutdownRecording, FinishRecording, OnCleanup, OnShutdown, Destroy,
     Stopping
<1>4. CASE DrainDone \/ StopWriterThread \/ Join \/ ShutdownDone
  BY <1>4 DEF DrainDone, StopWriterThread, Join, ShutdownDone
<1>5. CASE CloseWriter \/ DestroyDone \/ CleanupDone
  <2>1. queue = << >>
    BY <1>5 DEF CloseWriter, DestroyDone, CleanupDone, IndInv, BagInv, QueueInv
  <2> QED
    BY <1>5, <2>1 DEF CloseWriter, DestroyDone, CleanupDone
<1>6. CASE \/ TestPredicate \/ Block \/ Exit \/ BeginTake \/ EndTake \/ LockWriter
           \/ Acknowledge \/ SpuriousWakeup
  BY <1>6 DEF TestPredicate, Block, Exit, BeginTake, EndTake, LockWriter, Acknowledge,
     SpuriousWakeup
<1>7. CASE Gone \/ UNCHANGED vars
  BY <1>7 DEF Gone, vars
<1> QED
  BY <1>1, <1>2, <1>3, <1>4, <1>5, <1>6, <1>7 DEF Next, ExecutorProgress, WriterStep

-----------------------------------------------------------------------------
(* The queue's counters.                                                   *)

(* The byte count and the limits of the queue survive every step.          *)
LEMMA NextKeepsQueueAccounting ==
  ASSUME IndInv, QueueAccounting, [Next]_vars
  PROVE  QueueAccounting'
<1> USE LimitsAssumption
<1>t. queue \in Seq(Message) /\ Len(queue) \in Nat /\ << >> \in Seq(Message) /\ Len(<< >>) = 0
  BY DEF IndInv, TypeOK, MessagesType
<1>e. SumSizes(<< >>) = 0 /\ SumSizes(queue) \in Nat
  BY <1>t, SumSizesType
<1>q. queue_bytes = SumSizes(queue) /\ queue_bytes <= MaxBytes /\ Len(queue) <= MaxMessages
  BY DEF QueueAccounting
<1>1. ASSUME UNCHANGED <<queue, queue_bytes>> PROVE QueueAccounting'
  BY <1>1, <1>q DEF QueueAccounting
<1>2. ASSUME queue' = << >>, queue_bytes' = 0 PROVE QueueAccounting'
  BY <1>2, <1>e, <1>t DEF QueueAccounting
<1>3. CASE Starting \/ Aside
  BY <1>3, <1>1, <1>2, <1>e, <1>q DEF Starting, Aside, Still, Closing, Resetting
<1>4. ASSUME NEW size \in Sizes, Enqueue(size) PROVE QueueAccounting'
  <2>1. /\ Delivered(size) \in Message /\ Delivered(size).size = size
        /\ size \in Nat
    BY <1>4, DeliveredType, SizesAssumption DEF Enqueue, Deliver, Delivered
  <2>2. /\ SumSizes(Append(queue, Delivered(size))) = SumSizes(queue) + size
        /\ Len(Append(queue, Delivered(size))) = Len(queue) + 1
    BY <1>t, <2>1, SumSizesAppend, AppendToMessages
  <2>3. ~(Len(queue) >= MaxMessages) /\ ~(queue_bytes + size > MaxBytes)
    BY <1>4 DEF Enqueue, QueueFull
  <2>4. queue' = Append(queue, Delivered(size)) /\ queue_bytes' = queue_bytes + size
    BY <1>4 DEF Enqueue
  <2> QED
    BY <1>t, <1>e, <1>q, <2>1, <2>2, <2>3, <2>4 DEF QueueAccounting
<1>5. CASE TakeMessage
  <2>1. queue # << >>
    BY <1>5 DEF TakeMessage, BatchComplete
  <2>2. /\ SumSizes(queue) = SumSizes(Tail(queue)) + Head(queue).size
        /\ Tail(queue) \in Seq(Message) /\ Head(queue) \in Message
        /\ Len(Tail(queue)) = Len(queue) - 1
    BY <1>t, <2>1, SumSizesTail, TailOfMessages
  <2>3. SumSizes(Tail(queue)) \in Nat /\ Head(queue).size \in Nat
    BY <2>2, SumSizesType, SizesAssumption DEF Message
  <2>4. queue' = Tail(queue) /\ queue_bytes' = queue_bytes - Head(queue).size
    BY <1>5 DEF TakeMessage, TakeFront
  <2> QED
    BY <1>t, <1>q, <2>2, <2>3, <2>4 DEF QueueAccounting
<1>6. CASE DrainTimeout
  BY <1>6, <1>2 DEF DrainTimeout, ClearAbandoned
<1>7. CASE \/ DiscardBatch \/ WriteMessage \/ WriteFails \/ SkipMessage
           \/ \E size \in Sizes : Drop(size)
  BY <1>7, <1>1 DEF DiscardBatch, WriteMessage, WriteFails, SkipMessage, Drop
<1> QED
  BY <1>3, <1>4, <1>5, <1>6, <1>7, StepKinds DEF Moving

(* queue_bytes_ is what is queued, to the byte, so the unsigned counter    *)
(* never wraps, and neither limit of the queue is ever passed.             *)
THEOREM QueueCountsRight == Spec => []QueueAccounting
<1>1. Init => QueueAccounting
  <2>1. << >> \in Seq(Message) /\ Len(<< >>) = 0
    OBVIOUS
  <2>2. SumSizes(<< >>) = 0
    BY <2>1, SumSizesType
  <2> QED
    BY <2>1, <2>2, LimitsAssumption DEF Init, QueueAccounting
<1>2. IndInv /\ QueueAccounting /\ [Next]_vars => QueueAccounting'
  BY NextKeepsQueueAccounting
<1> QED
  BY <1>1, <1>2, Invariance, PTL DEF Spec

-----------------------------------------------------------------------------
(* Where the messages are, as sets of ids.                                 *)

(* A push_back adds one message.                                           *)
LEMMA ElementsAppend ==
  ASSUME NEW s \in Seq(Message), NEW m \in Message
  PROVE  Elements(Append(s, m)) = Elements(s) \cup {m}
<1>1. ASSUME NEW x \in Elements(Append(s, m)) PROVE x \in Elements(s) \cup {m}
  <2>1. PICK i \in 1 .. Len(s) + 1 : x = Append(s, m)[i]
    BY AppendToMessages DEF Elements
  <2>2. CASE i = Len(s) + 1
    BY <2>1, <2>2, AppendToMessages
  <2>3. CASE i # Len(s) + 1
    <3>1. i \in 1 .. Len(s)
      BY <2>3
    <3> QED
      BY <2>1, <3>1, AppendToMessages DEF Elements
  <2> QED
    BY <2>2, <2>3
<1>2. ASSUME NEW x \in Elements(s) \cup {m} PROVE x \in Elements(Append(s, m))
  <2>1. CASE x = m
    <3>1. Len(s) + 1 \in 1 .. Len(Append(s, m)) /\ Append(s, m)[Len(s) + 1] = m
      BY AppendToMessages
    <3> QED
      BY <2>1, <3>1 DEF Elements
  <2>2. CASE x \in Elements(s)
    <3>1. PICK i \in 1 .. Len(s) : x = s[i]
      BY <2>2 DEF Elements
    <3>2. i \in 1 .. Len(Append(s, m)) /\ Append(s, m)[i] = s[i]
      BY AppendToMessages
    <3> QED
      BY <3>1, <3>2 DEF Elements
  <2> QED
    BY <2>1, <2>2
<1> QED
  BY <1>1, <1>2

(* A push_back adds one id.                                                *)
LEMMA IdsAppend ==
  ASSUME NEW s \in Seq(Message), NEW m \in Message
  PROVE  Ids(Elements(Append(s, m))) = Ids(Elements(s)) \cup {m.id}
BY ElementsAppend DEF Ids

(* A pop_front takes off one id, which is nowhere else in a sequence that  *)
(* is in order.                                                            *)
LEMMA IdsTail ==
  ASSUME NEW s \in Seq(Message), s # << >>, Ordered(s)
  PROVE  /\ Ids(Elements(s)) = Ids(Elements(Tail(s))) \cup {Head(s).id}
         /\ Head(s).id \notin Ids(Elements(Tail(s)))
<1>t. /\ Head(s) = s[1] /\ Len(Tail(s)) = Len(s) - 1 /\ 1 \in 1 .. Len(s)
      /\ Len(s) \in Nat
      /\ \A i \in 1 .. Len(s) - 1 : Tail(s)[i] = s[i + 1] /\ i + 1 \in 1 .. Len(s)
  BY TailOfMessages
<1>1. Elements(s) = Elements(Tail(s)) \cup {Head(s)}
  <2>1. ASSUME NEW i \in 1 .. Len(s) PROVE s[i] \in Elements(Tail(s)) \cup {Head(s)}
    <3>1. CASE i = 1
      BY <1>t, <3>1
    <3>2. CASE i # 1
      <4>1. i - 1 \in 1 .. Len(s) - 1 /\ (i - 1) + 1 = i
        BY <1>t, <3>2
      <4> QED
        BY <1>t, <4>1 DEF Elements
    <3> QED
      BY <3>1, <3>2
  <2>2. ASSUME NEW i \in 1 .. Len(s) - 1 PROVE Tail(s)[i] \in Elements(s)
    BY <1>t DEF Elements
  <2> QED
    BY <1>t, <2>1, <2>2 DEF Elements
<1>2. \A i \in 1 .. Len(s) - 1 : Tail(s)[i].id # Head(s).id
  <2>1. ASSUME NEW i \in 1 .. Len(s) - 1 PROVE Tail(s)[i].id # Head(s).id
    <3>1. i + 1 \in 1 .. Len(s) /\ 1 < i + 1
      BY <1>t
    <3>2. s[1].id < s[i + 1].id /\ s[1].id \in Int /\ s[i + 1].id \in Int
      BY <1>t, <3>1, IdsAreNumbers DEF Ordered
    <3> QED
      BY <1>t, <3>2
  <2> QED
    BY <2>1
<1>3. Ids(Elements(s)) = Ids(Elements(Tail(s))) \cup {Head(s).id}
  BY <1>1 DEF Ids
<1>4. Head(s).id \notin Ids(Elements(Tail(s)))
  BY <1>t, <1>2 DEF Ids, Elements
<1> QED
  BY <1>3, <1>4

(* An empty sequence holds no id.                                          *)
LEMMA IdsEmpty == Elements(<< >>) = {} /\ Ids(Elements(<< >>)) = {}
BY DEF Elements, Ids

(* Writing a message to a bag adds it to what the bags hold.               *)
LEMMA InBagsAppend ==
  ASSUME bag \in [Episodes -> Seq(Message)], NEW e \in Episodes, NEW m \in Message,
         bag' = [bag EXCEPT ![e] = Append(@, m)]
  PROVE  InBags' = InBags \cup {m}
<1>1. Elements(Append(bag[e], m)) = Elements(bag[e]) \cup {m}
  BY ElementsAppend
<1>2. \A f \in Episodes : Elements(bag'[f]) = IF f = e THEN Elements(bag[e]) \cup {m} ELSE Elements(bag[f])
  BY <1>1
<1>3. InBags' = UNION {Elements(bag'[f]) : f \in Episodes}
  BY DEF InBags
<1> QED
  BY <1>2, <1>3 DEF InBags

(* Recording a loss adds to what is lost.                                  *)
LEMMA LostGrows ==
  ASSUME lost \in [Fates -> SUBSET Message], NEW f \in Fates, NEW ms, Lose(f, ms)
  PROVE  Lost' = Lost \cup ms
<1>1. \A g \in Fates : lost'[g] = IF g = f THEN lost[g] \cup ms ELSE lost[g]
  BY DEF Lose
<1>2. Lost' = UNION {lost'[g] : g \in Fates}
  BY DEF Lost
<1> QED
  BY <1>1, <1>2 DEF Lost

(* The ids of a union.                                                     *)
LEMMA IdsUnion ==
  ASSUME NEW A, NEW B, NEW m
  PROVE  Ids(A \cup B) = Ids(A) \cup Ids(B) /\ Ids({m}) = {m.id}
BY DEF Ids

-----------------------------------------------------------------------------
(* No message vanishes.                                                    *)

(* Conserved, place by place.                                              *)
Placed(q, b, g, l, n) ==
  /\ q \cup b \cup g \cup l = 1 .. n
  /\ q \cap b = {} /\ q \cap g = {} /\ q \cap l = {}
  /\ b \cap g = {} /\ b \cap l = {} /\ g \cap l = {}

LEMMA ConservedIsPlaced ==
  Conserved <=> Placed(Ids(Elements(queue)), Ids(Elements(batch)), Ids(InBags), Ids(Lost), arrivals)
<1> DEFINE q == Ids(Elements(queue))
           b == Ids(Elements(batch))
           g == Ids(InBags)
           l == Ids(Lost)
           places == <<q, b, g, l>>
<1>1. Conserved <=> /\ UNION {places[i] : i \in 1 .. 4} = 1 .. arrivals
                    /\ \A i, j \in 1 .. 4 : i # j => places[i] \cap places[j] = {}
  BY DEF Conserved
<1> HIDE DEF q, b, g, l
<1>2. UNION {places[i] : i \in 1 .. 4} = q \cup b \cup g \cup l
  <2>1. 1 .. 4 = {1, 2, 3, 4}
    OBVIOUS
  <2>2. {places[i] : i \in {1, 2, 3, 4}} = {q, b, g, l}
    OBVIOUS
  <2> QED
    BY <2>1, <2>2
<1>3. (\A i, j \in 1 .. 4 : i # j => places[i] \cap places[j] = {})
      <=> /\ q \cap b = {} /\ q \cap g = {} /\ q \cap l = {}
          /\ b \cap g = {} /\ b \cap l = {} /\ g \cap l = {}
  <2>1. 1 .. 4 = {1, 2, 3, 4}
    OBVIOUS
  <2>2. places[1] = q /\ places[2] = b /\ places[3] = g /\ places[4] = l
    OBVIOUS
  <2> HIDE DEF places
  <2> QED
    BY <2>1, <2>2
<1>4. Conserved <=> Placed(q, b, g, l, arrivals)
  BY <1>1, <1>2, <1>3 DEF Placed
<1> QED
  BY <1>4 DEF q, b, g, l

(* Each step moves ids from one place to another, or adds the next one.    *)
LEMMA NextKeepsConserved ==
  ASSUME IndInv, Conserved, [Next]_vars
  PROVE  Conserved'
<1> DEFINE q == Ids(Elements(queue))
           b == Ids(Elements(batch))
           g == Ids(InBags)
           l == Ids(Lost)
<1>p. Placed(q, b, g, l, arrivals)
  BY ConservedIsPlaced
<1>g. (Conserved <=> Placed(q, b, g, l, arrivals))'
  BY ConservedIsPlaced, PTL
<1> SUFFICES Placed(q', b', g', l', arrivals')
  BY <1>g DEF Placed
<1>t. /\ queue \in Seq(Message) /\ batch \in Seq(Message)
      /\ bag \in [Episodes -> Seq(Message)] /\ lost \in [Fates -> SUBSET Message]
      /\ arrivals \in Nat
  BY DEF IndInv, TypeOK, MessagesType, NumbersType
<1>o. Ordered(queue) /\ Ordered(batch)
  BY DEF IndInv, WrittenOnceInOrder
<1>sq. queue' = queue => q' = q
  OBVIOUS
<1>sb. batch' = batch => b' = b
  OBVIOUS
<1>sg. bag' = bag => g' = g
  BY DEF InBags
<1>sl. lost' = lost => l' = l
  BY DEF Lost
<1>e. Ids(Elements(<< >>)) = {}
  BY IdsEmpty
<1>l. ASSUME NEW f \in Fates, NEW ms, Lose(f, ms) PROVE l' = l \cup Ids(ms)
  <2>1. Lost' = Lost \cup ms
    BY <1>t, <1>l, LostGrows
  <2>2. Ids(Lost \cup ms) = Ids(Lost) \cup Ids(ms)
    BY IdsUnion
  <2>3. l' = Ids(Lost')
    BY DEF Ids
  <2> QED
    BY <2>1, <2>2, <2>3
<1>i. \A m : Ids({m}) = {m.id}
  BY DEF Ids
<1>f. /\ "dropped" \in Fates /\ "failed" \in Fates /\ "abandoned" \in Fates
      /\ "discarded" \in Fates /\ "skipped" \in Fates
  BY DEF Fates
<1> HIDE DEF q, b, g, l
<1>1. CASE Starting \/ Aside
  <2>1. UNCHANGED <<queue, batch, bag, lost, arrivals>>
    BY <1>1 DEF Starting, Aside, Untouched, Still, Closing, Resetting
  <2> QED
    BY <2>1, <1>p, <1>sq, <1>sb, <1>sg, <1>sl
<1>2. ASSUME NEW size \in Sizes, Enqueue(size) PROVE Placed(q', b', g', l', arrivals')
  <2>1. Delivered(size) \in Message /\ Delivered(size).id = arrivals + 1 /\ arrivals' = arrivals + 1
    BY <1>2, DeliveredType DEF Enqueue, Deliver
  <2>2. /\ queue' = Append(queue, Delivered(size))
        /\ UNCHANGED <<batch, bag, lost>>
    BY <1>2 DEF Enqueue, bags
  <2>3. q' = q \cup {arrivals + 1}
    BY <1>t, <2>1, <2>2, IdsAppend DEF q
  <2>4. 1 .. arrivals + 1 = (1 .. arrivals) \cup {arrivals + 1} /\ arrivals + 1 \notin 1 .. arrivals
    BY <1>t
  <2> QED
    BY <2>1, <2>2, <2>3, <2>4, <1>p, <1>sb, <1>sg, <1>sl DEF Placed
<1>3. ASSUME NEW size \in Sizes, Drop(size) PROVE Placed(q', b', g', l', arrivals')
  <2>1. Delivered(size) \in Message /\ Delivered(size).id = arrivals + 1 /\ arrivals' = arrivals + 1
    BY <1>3, DeliveredType DEF Drop, Deliver
  <2>2. Lose("dropped", {Delivered(size)}) /\ UNCHANGED <<queue, batch, bag>>
    BY <1>3 DEF Drop, writerThread, bags
  <2>3. l' = l \cup {arrivals + 1}
    BY <1>l, <1>i, <1>f, <2>1, <2>2
  <2>4. 1 .. arrivals + 1 = (1 .. arrivals) \cup {arrivals + 1} /\ arrivals + 1 \notin 1 .. arrivals
    BY <1>t
  <2> QED
    BY <2>1, <2>2, <2>3, <2>4, <1>p, <1>sq, <1>sb, <1>sg DEF Placed
<1>4. CASE DrainTimeout
  <2>1. /\ Lose("abandoned", Elements(queue)) /\ queue' = << >>
        /\ UNCHANGED <<batch, bag, arrivals>>
    BY <1>4 DEF DrainTimeout, ClearAbandoned, writerThread, bags
  <2>2. q' = {} /\ l' = l \cup q
    BY <1>l, <1>e, <1>f, <2>1 DEF q
  <2> QED
    BY <2>1, <2>2, <1>p, <1>sb, <1>sg DEF Placed
<1>5. CASE TakeMessage
  <2>1. queue # << >>
    BY <1>5 DEF TakeMessage, BatchComplete
  <2>2. /\ batch' = Append(batch, Head(queue)) /\ queue' = Tail(queue)
        /\ UNCHANGED <<bag, lost, arrivals>>
    BY <1>5 DEF TakeMessage, TakeFront, bags
  <2>3. q = q' \cup {Head(queue).id} /\ Head(queue).id \notin q'
    BY <1>t, <1>o, <2>1, <2>2, IdsTail DEF q
  <2>4. b' = b \cup {Head(queue).id}
    BY <1>t, <2>1, <2>2, IdsAppend, TailOfMessages DEF b
  <2> QED
    BY <2>2, <2>3, <2>4, <1>p, <1>sg, <1>sl DEF Placed
<1>6. CASE DiscardBatch
  <2>1. /\ Lose("discarded", Elements(batch)) /\ batch' = << >>
        /\ UNCHANGED <<queue, bag, arrivals>>
    BY <1>6 DEF DiscardBatch, bags
  <2>2. b' = {} /\ l' = l \cup b
    BY <1>l, <1>e, <1>f, <2>1 DEF b
  <2> QED
    BY <2>1, <2>2, <1>p, <1>sq, <1>sg DEF Placed
<1>7. ASSUME WriteMessage \/ WriteFails \/ SkipMessage PROVE Placed(q', b', g', l', arrivals')
  <2>1. batch # << >>
    BY <1>7 DEF WriteMessage, WriteFails, SkipMessage, IndInv, ThreadInv
  <2>2. batch' = Tail(batch) /\ UNCHANGED <<queue, arrivals>>
    BY <1>7 DEF WriteMessage, WriteFails, SkipMessage, NextMessage
  <2>3. b = b' \cup {Head(batch).id} /\ Head(batch).id \notin b' /\ Head(batch) \in Message
    BY <1>t, <1>o, <2>1, <2>2, IdsTail, TailOfMessages DEF b
  <2>4. CASE WriteMessage
    <3>1. /\ bag' = [bag EXCEPT ![writer] = Append(@, Head(batch))]
          /\ UNCHANGED lost
      BY <2>4 DEF WriteMessage
    <3>2. writer \in Episodes
      BY <2>4 DEF WriteMessage, IndInv, BagInv, NoBag, TypeOK, NumbersType, Episodes
    <3>3. InBags' = InBags \cup {Head(batch)}
      BY <1>t, <2>3, <3>1, <3>2, InBagsAppend
    <3>4. g' = g \cup {Head(batch).id}
      BY <3>3 DEF g, Ids
    <3> QED
      BY <2>2, <2>3, <3>1, <3>4, <1>p, <1>sq, <1>sl DEF Placed
  <2>5. CASE WriteFails \/ SkipMessage
    <3>1. /\ Lose("failed", {Head(batch)}) \/ Lose("skipped", {Head(batch)})
          /\ UNCHANGED bag
      BY <2>5 DEF WriteFails, SkipMessage, bags
    <3>2. l' = l \cup {Head(batch).id}
      BY <1>l, <1>i, <1>f, <3>1
    <3> QED
      BY <2>2, <2>3, <3>1, <3>2, <1>p, <1>sq, <1>sg DEF Placed
  <2> QED
    BY <1>7, <2>4, <2>5
<1> QED
  BY <1>1, <1>2, <1>3, <1>4, <1>5, <1>6, <1>7, StepKinds DEF Moving

(* No message vanishes: for any traffic and any timing, a message that was *)
(* delivered is queued, in the batch, in a bag, or counted as lost, and in *)
(* one of these places only.                                               *)
THEOREM MessagesAreConserved == Spec => []Conserved
<1>1. Init => Conserved
  <2> SUFFICES ASSUME Init PROVE Conserved
    OBVIOUS
  <2>1. Ids(Elements(queue)) = {} /\ Ids(Elements(batch)) = {}
    BY IdsEmpty DEF Init
  <2>2. Ids(InBags) = {} /\ Ids(Lost) = {}
    BY IdsEmpty DEF Init, InBags, Lost, Ids
  <2>3. 1 .. arrivals = {}
    BY DEF Init
  <2> QED
    BY <2>1, <2>2, <2>3, ConservedIsPlaced DEF Placed
<1>2. IndInv /\ Conserved /\ [Next]_vars => Conserved'
  BY NextKeepsConserved
<1> QED
  BY <1>1, <1>2, Invariance, PTL DEF Spec

-----------------------------------------------------------------------------
(* The drop counter.                                                       *)

(* The drops of an episode.                                                *)
DropsOf(e) == {m \in lost["dropped"] : m.ep = e}

(* A drop adds one message to the drops of its episode, a start begins     *)
(* with none, and nothing else touches them.                               *)
LEMMA NextKeepsDropInv ==
  ASSUME IndInv, DropInv, [Next]_vars
  PROVE  DropInv'
<1>t. /\ lost \in [Fates -> SUBSET Message] /\ lost["dropped"] \subseteq Message
      /\ arrivals \in Nat /\ episode \in Nat /\ messages_dropped \in Nat
  BY DEF IndInv, TypeOK, MessagesType, NumbersType, Fates
<1>m. \A m \in lost["dropped"] : m.ep \in Int /\ m.id \in Int /\ m.ep <= episode /\ m.id <= arrivals
  BY <1>t DEF DropInv, Message, Episodes
<1>d. IsFiniteSet(lost["dropped"]) /\ messages_dropped = Cardinality(DropsOf(episode))
  BY DEF DropInv, DropCountHonest, DropsOf
<1>1. ASSUME UNCHANGED <<lost, episode, arrivals, messages_dropped>> PROVE DropInv'
  BY <1>1 DEF DropInv, DropCountHonest
<1>2. CASE Starting
  <2>1. {m \in lost["dropped"] : m.ep = episode + 1} = {}
    BY <1>t, <1>m
  <2>2. Cardinality({m \in lost["dropped"] : m.ep = episode + 1}) = 0
    BY <2>1, FS_EmptySet
  <2>3. \A m \in lost["dropped"] : m.ep <= episode + 1
    BY <1>t, <1>m
  <2> QED
    BY <1>2, <1>d, <1>m, <2>2, <2>3 DEF Starting, DropInv, DropCountHonest
<1>3. ASSUME NEW size \in Sizes, Drop(size) PROVE DropInv'
  <2> DEFINE d == Delivered(size)
  <2>1. d \in Message /\ d.id = arrivals + 1 /\ d.ep = episode /\ arrivals' = arrivals + 1
    BY <1>3, DeliveredType DEF Drop, Deliver
  <2>2. /\ lost'["dropped"] = lost["dropped"] \cup {d}
        /\ episode' = episode /\ messages_dropped' = messages_dropped + 1
    BY <1>3, <1>t DEF Drop, Lose, Fates, bags
  <2>3. d \notin lost["dropped"]
    BY <1>t, <1>m, <2>1
  <2> HIDE DEF d
  <2>4. {m \in lost'["dropped"] : m.ep = episode'} = DropsOf(episode) \cup {d}
    BY <2>1, <2>2 DEF DropsOf
  <2>5. IsFiniteSet(DropsOf(episode))
    BY <1>d, FS_Subset DEF DropsOf
  <2>6. d \notin DropsOf(episode)
    BY <2>3 DEF DropsOf
  <2>7. Cardinality(DropsOf(episode) \cup {d}) = Cardinality(DropsOf(episode)) + 1
    BY <2>5, <2>6, FS_AddElement
  <2>8. IsFiniteSet(lost'["dropped"])
    BY <1>d, <2>2, FS_AddElement
  <2>9. \A m \in lost'["dropped"] : m.ep <= episode' /\ m.id <= arrivals'
    BY <1>t, <1>m, <2>1, <2>2
  <2> QED
    BY <1>d, <2>2, <2>4, <2>7, <2>8, <2>9 DEF DropInv, DropCountHonest
<1>4. ASSUME lost'["dropped"] = lost["dropped"], arrivals' \in {arrivals, arrivals + 1},
             UNCHANGED <<episode, messages_dropped>>
      PROVE  DropInv'
  <2>1. \A m \in lost["dropped"] : m.id <= arrivals'
    BY <1>4, <1>t, <1>m
  <2> QED
    BY <1>4, <1>d, <1>m, <2>1 DEF DropInv, DropCountHonest, DropsOf
<1>5. ASSUME NEW size \in Sizes, Enqueue(size) PROVE DropInv'
  BY <1>5, <1>4 DEF Enqueue, Deliver, counters, bags
<1>6. CASE DrainTimeout \/ DiscardBatch \/ WriteFails \/ SkipMessage
  BY <1>6, <1>4, <1>t DEF DrainTimeout, ClearAbandoned, DiscardBatch, WriteFails, SkipMessage,
     Lose, Fates, counters, bags
<1>7. CASE TakeMessage \/ WriteMessage
  BY <1>7, <1>1 DEF TakeMessage, WriteMessage, counters, bags
<1>8. CASE Aside
  BY <1>8, <1>1 DEF Aside, Untouched
<1> QED
  BY <1>2, <1>3, <1>5, <1>6, <1>7, <1>8, StepKinds DEF Moving

(* messages_dropped_, which the result reports, is what the episode lost   *)
(* to a full queue, for any queue limits and any number of episodes.       *)
THEOREM DropsAreCounted == Spec => []DropCountHonest
<1>1. Init => DropInv
  <2> SUFFICES ASSUME Init PROVE DropInv
    OBVIOUS
  <2>1. lost["dropped"] = {} /\ messages_dropped = 0
    BY DEF Init, Fates
  <2>2. {m \in lost["dropped"] : m.ep = episode} = {}
    BY <2>1
  <2> QED
    BY <2>1, <2>2, FS_EmptySet DEF DropInv, DropCountHonest
<1>2. IndInv /\ DropInv /\ [Next]_vars => DropInv'
  BY NextKeepsDropInv
<1>3. DropInv => DropCountHonest
  BY DEF DropInv
<1> QED
  BY <1>1, <1>2, <1>3, Invariance, PTL DEF Spec

-----------------------------------------------------------------------------
(* What a closed bag costs.                                                *)

(* What is in a bag is older than what is in the batch.                    *)
LEMMA BagsBeforeBatch ==
  ASSUME IndInv, NEW n \in InBags, NEW i \in 1 .. Len(batch)
  PROVE  n.id < batch[i].id
<1>1. PICK e \in Episodes : n \in Elements(bag[e])
  BY DEF InBags
<1>2. PICK j \in 1 .. Len(bag[e]) : n = bag[e][j]
  BY <1>1 DEF Elements
<1> QED
  BY <1>2 DEF IndInv, WrittenOnceInOrder, Before

(* A batch is discarded only when the bag is closed, and then nothing else *)
(* of its episode is pending or will be delivered.                         *)
LEMMA NextKeepsLossInv ==
  ASSUME IndInv, LossInv, [Next]_vars
  PROVE  LossInv'
<1>t. /\ queue \in Seq(Message) /\ batch \in Seq(Message)
      /\ bag \in [Episodes -> Seq(Message)] /\ lost \in [Fates -> SUBSET Message]
      /\ episode \in Nat /\ lost["discarded"] \subseteq Message
      /\ Len(<< >>) = 0
  BY DEF IndInv, TypeOK, MessagesType, NumbersType, Fates
<1>m. \A m \in Message : m.ep \in Int /\ m.id \in Int
  BY DEF Message, Episodes
<1>l. /\ LossIsTail
      /\ queue # << >> => writer # NoBag
      /\ \A i \in 1 .. Len(batch) : batch[i].ep <= episode
      /\ \A m \in lost["discarded"] :
          /\ m.ep <= episode
          /\ m.ep = episode => writer = NoBag
          /\ \A i \in 1 .. Len(batch) : batch[i].ep # m.ep
          /\ \A i \in 1 .. Len(queue) : queue[i].ep # m.ep
  BY DEF LossInv
<1>q. \A i \in 1 .. Len(queue) : queue[i].ep = episode
  BY DEF IndInv, QueueInv
<1>1. CASE Starting
  <2>1. /\ writer = NoBag /\ queue = << >> /\ queue' = << >> /\ episode' = episode + 1
        /\ UNCHANGED <<batch, bag, lost>>
    BY <1>1 DEF Starting
  <2>2. InBags' = InBags
    BY <2>1 DEF InBags
  <2>3. LossIsTail'
    BY <1>l, <2>1, <2>2 DEF LossIsTail
  <2>4. \A i \in 1 .. Len(batch) : batch[i] \in Message /\ batch[i].ep <= episode + 1
    BY <1>l, <1>t, <1>m
  <2>5. \A m \in lost["discarded"] : m.ep <= episode + 1 /\ m.ep # episode + 1
    BY <1>l, <1>t, <1>m
  <2> QED
    BY <1>l, <2>1, <2>3, <2>4, <2>5 DEF LossInv
<1>2. CASE Aside
  <2>1. /\ UNCHANGED <<batch, bag, lost, episode>>
        /\ queue' = queue
        /\ writer' = writer \/ (queue = << >> /\ writer' = NoBag)
    BY <1>2 DEF Aside, Untouched, Still, Closing, Resetting
  <2>2. InBags' = InBags
    BY <2>1 DEF InBags
  <2> QED
    BY <1>l, <2>1, <2>2 DEF LossInv, LossIsTail
<1>3. ASSUME NEW size \in Sizes, Enqueue(size) PROVE LossInv'
  <2>1. is_recording /\ Delivered(size) \in Message /\ Delivered(size).ep = episode
    BY <1>3, DeliveredType DEF Enqueue, Deliver
  <2>2. writer # NoBag
    BY <2>1 DEF IndInv, BagInv
  <2>3. /\ queue' = Append(queue, Delivered(size))
        /\ UNCHANGED <<batch, bag, lost, episode, writer>>
    BY <1>3 DEF Enqueue, bags
  <2>4. InBags' = InBags
    BY <2>3 DEF InBags
  <2>5. \A i \in 1 .. Len(queue') : queue'[i].ep = episode
    BY <1>t, <1>q, <2>1, <2>3, AppendToMessages
  <2> QED
    BY <1>l, <2>2, <2>3, <2>4, <2>5 DEF LossInv, LossIsTail
<1>4. ASSUME NEW size \in Sizes, Drop(size) PROVE LossInv'
  <2>1. /\ UNCHANGED <<queue, batch, bag, episode, writer>>
        /\ lost'["discarded"] = lost["discarded"]
    BY <1>4, <1>t DEF Drop, Lose, Fates, writerThread, bags
  <2>2. InBags' = InBags
    BY <2>1 DEF InBags
  <2> QED
    BY <1>l, <2>1, <2>2 DEF LossInv, LossIsTail
<1>5. CASE DrainTimeout
  <2>1. /\ UNCHANGED <<batch, bag, episode, writer>> /\ queue' = << >>
        /\ lost'["discarded"] = lost["discarded"]
    BY <1>5, <1>t DEF DrainTimeout, ClearAbandoned, Lose, Fates, writerThread, bags
  <2>2. InBags' = InBags
    BY <2>1 DEF InBags
  <2> QED
    BY <1>l, <1>t, <2>1, <2>2 DEF LossInv, LossIsTail
<1>6. CASE TakeMessage
  <2>1. queue # << >>
    BY <1>6 DEF TakeMessage, BatchComplete
  <2>2. /\ batch' = Append(batch, Head(queue)) /\ queue' = Tail(queue)
        /\ UNCHANGED <<bag, lost, episode, writer>>
    BY <1>6 DEF TakeMessage, TakeFront, bags
  <2>3. Head(queue) \in Message /\ Head(queue) = queue[1] /\ 1 \in 1 .. Len(queue)
    BY <1>t, <2>1, TailOfMessages
  <2>4. InBags' = InBags
    BY <2>2 DEF InBags
  <2>5. /\ Len(batch') = Len(batch) + 1 /\ batch'[Len(batch) + 1] = queue[1]
        /\ \A i \in 1 .. Len(batch) : batch'[i] = batch[i]
    BY <1>t, <2>2, <2>3, AppendToMessages
  <2>6. \A i \in 1 .. Len(batch') : i \in 1 .. Len(batch) \/ i = Len(batch) + 1
    BY <1>t, <2>5
  <2>7. \A i \in 1 .. Len(batch') : \/ batch'[i] = queue[1]
                                   \/ \E j \in 1 .. Len(batch) : batch'[i] = batch[j]
    BY <2>5, <2>6
  <2>8. \A i \in 1 .. Len(queue') : queue'[i] = queue[i + 1] /\ i + 1 \in 1 .. Len(queue)
    BY <1>t, <2>1, <2>2, TailOfMessages
  <2>9. queue[1].ep <= episode
    BY <1>q, <1>t, <2>3
  <2> QED
    BY <1>l, <2>1, <2>2, <2>3, <2>4, <2>7, <2>8, <2>9 DEF LossInv, LossIsTail
<1>7. CASE DiscardBatch
  <2>1. /\ writer = NoBag /\ batch' = << >> /\ UNCHANGED <<queue, bag, episode, writer>>
        /\ lost'["discarded"] = lost["discarded"] \cup Elements(batch)
    BY <1>7, <1>t DEF DiscardBatch, Lose, Fates, bags
  <2>2. queue = << >>
    BY <1>l, <2>1
  <2>3. InBags' = InBags
    BY <2>1 DEF InBags
  <2>4. \A m \in Elements(batch) : m.ep <= episode /\ \A n \in InBags : n.id < m.id
    BY <1>l, BagsBeforeBatch DEF Elements
  <2> QED
    BY <1>l, <1>t, <2>1, <2>2, <2>3, <2>4 DEF LossInv, LossIsTail
<1>8. ASSUME WriteMessage \/ WriteFails \/ SkipMessage PROVE LossInv'
  <2>1. batch # << >>
    BY <1>8 DEF WriteMessage, WriteFails, SkipMessage, IndInv, ThreadInv
  <2>2. batch' = Tail(batch) /\ UNCHANGED <<queue, episode, writer>>
    BY <1>8 DEF WriteMessage, WriteFails, SkipMessage, NextMessage, bags
  <2>3. /\ \A i \in 1 .. Len(batch') : batch'[i] = batch[i + 1] /\ i + 1 \in 1 .. Len(batch)
        /\ Head(batch) = batch[1] /\ 1 \in 1 .. Len(batch) /\ Head(batch) \in Message
    BY <1>t, <2>1, <2>2, TailOfMessages
  <2>4. lost'["discarded"] = lost["discarded"]
    BY <1>8, <1>t DEF WriteMessage, WriteFails, SkipMessage, Lose, Fates
  <2>5. InBags' \subseteq InBags \cup {Head(batch)}
    <3>1. CASE WriteMessage
      <4>1. writer \in Episodes /\ bag' = [bag EXCEPT ![writer] = Append(@, Head(batch))]
        BY <3>1 DEF WriteMessage, IndInv, BagInv, NoBag, TypeOK, NumbersType, Episodes
      <4>2. InBags' = InBags \cup {Head(batch)}
        BY <1>t, <2>3, <4>1, InBagsAppend
      <4> QED
        BY <4>2
    <3>2. CASE WriteFails \/ SkipMessage
      <4>1. UNCHANGED bag
        BY <3>2 DEF WriteFails, SkipMessage, bags
      <4>2. InBags' = InBags
        BY <4>1 DEF InBags
      <4> QED
        BY <4>2
    <3> QED
      BY <1>8, <3>1, <3>2
  <2>6. LossIsTail'
    <3>1. ASSUME NEW m \in lost["discarded"], NEW n \in InBags', n.ep = m.ep
          PROVE  n.id < m.id
      <4>1. n # Head(batch)
        BY <1>l, <2>3, <3>1
      <4> QED
        BY <1>l, <2>5, <3>1, <4>1 DEF LossIsTail
    <3> QED
      BY <2>4, <3>1 DEF LossIsTail
  <2> QED
    BY <1>l, <2>2, <2>3, <2>4, <2>6 DEF LossInv
<1> QED
  BY <1>1, <1>2, <1>3, <1>4, <1>5, <1>6, <1>7, <1>8, StepKinds DEF Moving

(* A batch that found its bag closed was the end of its episode: nothing   *)
(* after it is in a bag.                                                   *)
THEOREM DiscardsAreTails == Spec => []LossIsTail
<1>1. Init => LossInv
  <2> SUFFICES ASSUME Init PROVE LossInv
    OBVIOUS
  <2>1. queue = << >> /\ batch = << >> /\ lost["discarded"] = {} /\ Len(<< >>) = 0
    BY DEF Init, Fates
  <2> QED
    BY <2>1 DEF LossInv, LossIsTail
<1>2. IndInv /\ LossInv /\ [Next]_vars => LossInv'
  BY NextKeepsLossInv
<1>3. LossInv => LossIsTail
  BY DEF LossInv
<1> QED
  BY <1>1, <1>2, <1>3, Invariance, PTL DEF Spec

=============================================================================
