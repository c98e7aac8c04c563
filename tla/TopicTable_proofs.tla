--------------------------- MODULE TopicTable_proofs ---------------------------
(***************************************************************************)
(* The safety of the topic table, for every contract, graph and number of  *)
(* topics, samples and episodes: the invariants of TopicTable, from what   *)
(* the loops that build, extend and cut back the table return.             *)
(***************************************************************************)
EXTENDS TopicTable, Contract_proofs, FiniteSetTheorems

-----------------------------------------------------------------------------
(* The table that build_topic_list makes.                                  *)

Tables == [topics : Seq(Entries), index : [Names -> Nat]]
EmptyTable == [topics |-> << >>, index |-> NoIndex]
AllSpecs(doc) == Topics(doc) \o IF UseSimTime THEN <<Clock>> ELSE << >>

(* t is the table of the first k of these specs: index is the inverse of   *)
(* topics; an entry has the first spec of its name; every name has one; a  *)
(* later entry was listed later.                                           *)
InverseOf(t) ==
    /\ \A i \in 1 .. Len(t.topics) : t.index[t.topics[i].spec.topic] = i
    /\ \A n \in Names : t.index[n] # 0 =>
        t.index[n] <= Len(t.topics) /\ t.topics[t.index[n]].spec.topic = n
FirstSpecs(t, specs, k) ==
    \A i \in 1 .. Len(t.topics) :
        \E p \in 1 .. k :
            /\ t.topics[i] = Entry(specs[p], FALSE)
            /\ \A q \in 1 .. k : specs[q].topic = specs[p].topic => p <= q
AllListed(t, specs, k) == \A p \in 1 .. k : t.index[specs[p].topic] # 0
InListedOrder(t, specs, k) ==
    \A i, j \in 1 .. Len(t.topics), q \in 1 .. k :
        i < j /\ specs[q].topic = t.topics[j].spec.topic =>
            \E p \in 1 .. k : p < q /\ t.topics[i].spec = specs[p]
TableOf(t, specs, k) ==
    /\ t \in Tables
    /\ InverseOf(t)
    /\ FirstSpecs(t, specs, k)
    /\ AllListed(t, specs, k)
    /\ InListedOrder(t, specs, k)

LEMMA EntryTyped ==
  ASSUME NEW spec \in Specs(Names), NEW b \in BOOLEAN
  PROVE  Entry(spec, b) \in Entries /\ Entry(spec, b).spec = spec
<1>1. << >> \in Seq(Retained)
  OBVIOUS
<1> QED
  BY <1>1 DEF Entry, Entries

LEMMA EmptyTyped == EmptyTable \in Tables
<1>1. << >> \in Seq(Entries)
  OBVIOUS
<1> QED
  BY <1>1 DEF EmptyTable, Tables, NoIndex

LEMMA AddTyped ==
  ASSUME NEW t \in Tables, NEW spec \in Specs(Names)
  PROVE  Add(t, spec) \in Tables
<1>1. t.topics \in Seq(Entries) /\ t.index \in [Names -> Nat] /\ spec.topic \in Names
  BY DEF Tables, Specs
<1>2. Append(t.topics, Entry(spec, FALSE)) \in Seq(Entries)
  <2> DEFINE e == Entry(spec, FALSE)
  <2>1. e \in Entries
    BY EntryTyped
  <2> HIDE DEF e
  <2>2. Append(t.topics, e) \in Seq(Entries)
    BY <1>1, <2>1, AppendProperties
  <2> QED
    BY <2>2 DEF e
<1>3. [t.index EXCEPT ![spec.topic] = Len(t.topics) + 1] \in [Names -> Nat]
  BY <1>1
<1> QED
  BY <1>2, <1>3 DEF Add, Tables

(* The next spec is added, or was listed before.                           *)
LEMMA TableOfStep ==
  ASSUME NEW specs \in Seq(Specs(Names)), NEW k \in 1 .. Len(specs), NEW t,
         TableOf(t, specs, k - 1)
  PROVE  TableOf(Add(t, specs[k]), specs, k)
<1> DEFINE spec == specs[k]
           n == Len(t.topics)
<1>1. t \in Tables /\ spec \in Specs(Names) /\ spec.topic \in Names
  <2>1. spec \in Specs(Names)
    OBVIOUS
  <2> QED
    BY <2>1 DEF TableOf, Specs
<1>2. t.topics \in Seq(Entries) /\ n \in Nat /\ t.index \in [Names -> Nat]
  BY <1>1 DEF Tables
<1>3. Add(t, spec) \in Tables
  BY <1>1, AddTyped
<1>4. \A p \in 1 .. k : p = k \/ p \in 1 .. k - 1
  OBVIOUS
<1>a. \A p \in 1 .. k : specs[p] \in Specs(Names) /\ specs[p].topic \in Names
  <2>1. \A p \in 1 .. k : specs[p] \in Specs(Names)
    OBVIOUS
  <2> QED
    BY <2>1 DEF Specs
<1>b. \A p \in 1 .. k - 1 : p \in 1 .. k /\ p < k
  OBVIOUS
<1>c. \A p \in 1 .. k : Entry(specs[p], FALSE).spec = specs[p]
  BY <1>a, EntryTyped
<1>5. CASE t.index[spec.topic] # 0
  <2>1. Add(t, spec) = t
    BY <1>5 DEF Add
  <2>2. ASSUME NEW i \in 1 .. n
        PROVE  \E p \in 1 .. k :
                  /\ t.topics[i] = Entry(specs[p], FALSE)
                  /\ \A q \in 1 .. k : specs[q].topic = specs[p].topic => p <= q
    <3>1. PICK p \in 1 .. k - 1 :
            /\ t.topics[i] = Entry(specs[p], FALSE)
            /\ \A q \in 1 .. k - 1 : specs[q].topic = specs[p].topic => p <= q
      BY DEF TableOf, FirstSpecs
    <3>2. p \in 1 .. k /\ \A q \in 1 .. k : specs[q].topic = specs[p].topic => p <= q
      BY <3>1, <1>4, <1>b
    <3> QED
      BY <3>1, <3>2
  <2>3. ASSUME NEW i \in 1 .. n, NEW j \in 1 .. n, NEW q \in 1 .. k,
               i < j, specs[q].topic = t.topics[j].spec.topic
        PROVE  \E p \in 1 .. k : p < q /\ t.topics[i].spec = specs[p]
    <3>1. CASE q # k
      <4>1. \E p \in 1 .. k - 1 : p < q /\ t.topics[i].spec = specs[p]
        BY <2>3, <3>1 DEF TableOf, InListedOrder
      <4> QED
        BY <4>1, <1>b
    <3>2. CASE q = k
      <4>1. PICK p \in 1 .. k - 1 : t.topics[i] = Entry(specs[p], FALSE)
        BY DEF TableOf, FirstSpecs
      <4>2. p \in 1 .. k /\ p < q /\ t.topics[i].spec = specs[p]
        BY <4>1, <3>2, <1>b, <1>c
      <4> QED
        BY <4>2
    <3> QED
      BY <3>1, <3>2
  <2>4. \A p \in 1 .. k : t.index[specs[p].topic] # 0
    BY <1>4, <1>5 DEF TableOf, AllListed
  <2>5. FirstSpecs(t, specs, k) /\ AllListed(t, specs, k) /\ InListedOrder(t, specs, k)
    <3>1. FirstSpecs(t, specs, k)
      BY <2>2, Zenon DEF FirstSpecs
    <3>2. AllListed(t, specs, k)
      BY <2>4, Zenon DEF AllListed
    <3>3. InListedOrder(t, specs, k)
      BY <2>3, Zenon DEF InListedOrder
    <3> QED
      BY <3>1, <3>2, <3>3
  <2> QED
    BY <2>1, <2>5 DEF TableOf
<1>6. CASE t.index[spec.topic] = 0
  <2> DEFINE u == Add(t, spec)
  <2>1. /\ u.topics = Append(t.topics, Entry(spec, FALSE))
        /\ u.index = [t.index EXCEPT ![spec.topic] = n + 1]
    BY <1>6 DEF Add
  <2>2. Entry(spec, FALSE) \in Entries /\ Entry(spec, FALSE).spec = spec
    BY <1>1, EntryTyped
  <2> HIDE DEF u
  <2>3. /\ Len(u.topics) = n + 1
        /\ \A i \in 1 .. n : u.topics[i] = t.topics[i]
        /\ u.topics[n + 1] = Entry(spec, FALSE)
    <3> DEFINE e == Entry(spec, FALSE)
    <3>0. e \in Entries
      BY <2>2
    <3> HIDE DEF e
    <3>1. Len(Append(t.topics, e)) = n + 1 /\ Append(t.topics, e)[n + 1] = e
          /\ \A i \in 1 .. n : Append(t.topics, e)[i] = t.topics[i]
      BY <1>2, <3>0, AppendProperties
    <3> QED
      BY <2>1, <3>1 DEF e
  <2>4. \A p \in 1 .. k - 1 : specs[p].topic # spec.topic
    BY <1>6 DEF TableOf, AllListed
  <2>5. ASSUME NEW i \in 1 .. n + 1
        PROVE  /\ u.index[u.topics[i].spec.topic] = i
               /\ \E p \in 1 .. k :
                    /\ u.topics[i] = Entry(specs[p], FALSE)
                    /\ \A q \in 1 .. k : specs[q].topic = specs[p].topic => p <= q
    <3>1. CASE i = n + 1
      <4>1. u.index[u.topics[i].spec.topic] = i
        <5>1. u.topics[i].spec.topic = spec.topic
          BY <3>1, <2>2, <2>3
        <5>2. u.index[spec.topic] = n + 1
          BY <2>1, <1>1, <1>2
        <5> QED
          BY <3>1, <5>1, <5>2
      <4>2. \A q \in 1 .. k : specs[q].topic = specs[k].topic => k <= q
        BY <2>4
      <4>3. k \in 1 .. k /\ u.topics[i] = Entry(specs[k], FALSE)
        BY <3>1, <2>3
      <4> QED
        BY <4>1, <4>2, <4>3
    <3>2. CASE i # n + 1
      <4>1. i \in 1 .. n /\ u.topics[i] = t.topics[i]
        BY <3>2, <2>3, <1>2
      <4>2. PICK p \in 1 .. k - 1 :
              /\ t.topics[i] = Entry(specs[p], FALSE)
              /\ \A q \in 1 .. k - 1 : specs[q].topic = specs[p].topic => p <= q
        BY <4>1 DEF TableOf, FirstSpecs
      <4>3. p \in 1 .. k /\ \A q \in 1 .. k : specs[q].topic = specs[p].topic => p <= q
        BY <4>2
      <4>4. t.topics[i].spec.topic \in Names /\ t.index[t.topics[i].spec.topic] = i
        <5>1. t.topics[i] \in Entries
          BY <4>1, <1>2
        <5> QED
          BY <4>1, <5>1 DEF TableOf, InverseOf, Entries, Specs
      <4>5. t.topics[i].spec.topic # spec.topic
        BY <4>1, <4>4, <1>6
      <4>6. u.index[u.topics[i].spec.topic] = i
        BY <4>1, <4>4, <4>5, <2>1, <1>2
      <4> QED
        BY <4>1, <4>2, <4>3, <4>6
    <3> QED
      BY <3>1, <3>2
  <2>6. ASSUME NEW m \in Names, u.index[m] # 0
        PROVE  u.index[m] <= n + 1 /\ u.topics[u.index[m]].spec.topic = m
    <3>1. CASE m = spec.topic
      <4>1. u.index[m] = n + 1
        BY <3>1, <2>1, <1>1, <1>2
      <4>2. u.topics[n + 1].spec.topic = m
        BY <3>1, <2>2, <2>3
      <4> QED
        BY <4>1, <4>2, <1>2
    <3>2. CASE m # spec.topic
      <4>1. u.index[m] = t.index[m] /\ t.index[m] \in Nat
        BY <3>2, <2>1, <1>2
      <4>2. t.index[m] <= n /\ t.topics[t.index[m]].spec.topic = m
        BY <2>6, <4>1 DEF TableOf, InverseOf
      <4> QED
        BY <4>1, <4>2, <2>3, <2>6, <1>2, SMTT(30)
    <3> QED
      BY <3>1, <3>2
  <2>7. ASSUME NEW p \in 1 .. k PROVE u.index[specs[p].topic] # 0
    <3>1. CASE p = k
      BY <3>1, <2>1, <1>1, <1>2
    <3>2. CASE p # k
      <4>1. p \in 1 .. k - 1 /\ specs[p].topic \in Names
        BY <3>2, <1>4, <1>a
      <4>2. t.index[specs[p].topic] # 0
        BY <4>1 DEF TableOf, AllListed
      <4> QED
        BY <4>1, <4>2, <2>1, <2>4, <1>2
    <3> QED
      BY <3>1, <3>2
  <2>8. ASSUME NEW i \in 1 .. n + 1, NEW j \in 1 .. n + 1, NEW q \in 1 .. k,
               i < j, specs[q].topic = u.topics[j].spec.topic
        PROVE  \E p \in 1 .. k : p < q /\ u.topics[i].spec = specs[p]
    <3>1. i \in 1 .. n /\ u.topics[i] = t.topics[i]
      BY <2>8, <2>3, <1>2
    <3>2. PICK p \in 1 .. k - 1 : t.topics[i] = Entry(specs[p], FALSE)
      BY <3>1 DEF TableOf, FirstSpecs
    <3>3. p \in 1 .. k /\ p < k /\ t.topics[i].spec = specs[p]
      BY <3>2, <1>b, <1>c
    <3>4. CASE q = k
      BY <3>1, <3>3, <3>4
    <3>5. CASE q # k
      <4>1. q \in 1 .. k - 1
        BY <3>5, <1>4
      <4>2. j # n + 1
        BY <4>1, <2>2, <2>3, <2>4, <2>8
      <4>3. j \in 1 .. n /\ u.topics[j] = t.topics[j]
        BY <4>2, <2>3, <1>2, SMTT(30)
      <4>4. \E r \in 1 .. k - 1 : r < q /\ t.topics[i].spec = specs[r]
        BY <3>1, <4>1, <4>3, <2>8 DEF TableOf, InListedOrder
      <4> QED
        BY <3>1, <4>4, <1>b
    <3> QED
      BY <3>4, <3>5
  <2>9. InverseOf(u)
    BY <2>3, <2>5, <2>6, ZenonT(30) DEF InverseOf
  <2>10. FirstSpecs(u, specs, k)
    BY <2>3, <2>5, Zenon DEF FirstSpecs
  <2>11. AllListed(u, specs, k)
    BY <2>7, Zenon DEF AllListed
  <2>12. InListedOrder(u, specs, k)
    BY <2>3, <2>8, Zenon DEF InListedOrder
  <2> QED
    BY <1>3, <2>9, <2>10, <2>11, <2>12 DEF TableOf, u
<1> QED
  BY <1>2, <1>5, <1>6

(* f is the recursion in BuildTopicList.                                   *)
Builds(f, specs) ==
    f = [k \in 0 .. Len(specs) |->
            IF k = 0 THEN [topics |-> << >>, index |-> NoIndex]
            ELSE Add(f[k - 1], specs[k])]

LEMMA BuildsExists ==
  ASSUME NEW specs \in Seq(Specs(Names))
  PROVE  \E f : Builds(f, specs)
<1> DEFINE next == [a \in Nat \X Tables |->
                      IF a[1] \in 1 .. Len(specs) THEN Add(a[2], specs[a[1]]) ELSE a[2]]
<1>1. next \in [Nat \X Tables -> Tables]
  <2> SUFFICES ASSUME NEW a \in Nat \X Tables
               PROVE  (IF a[1] \in 1 .. Len(specs) THEN Add(a[2], specs[a[1]]) ELSE a[2])
                        \in Tables
    OBVIOUS
  <2>1. a[1] \in 1 .. Len(specs) => specs[a[1]] \in Specs(Names)
    OBVIOUS
  <2>2. a[2] \in Tables
    OBVIOUS
  <2> QED
    BY <2>1, <2>2, AddTyped
<1>2. \A k \in 1 .. Len(specs) : \A t \in Tables : next[<<k, t>>] = Add(t, specs[k])
  <2> SUFFICES ASSUME NEW k \in 1 .. Len(specs), NEW t \in Tables
               PROVE  next[<<k, t>>] = Add(t, specs[k])
    OBVIOUS
  <2>1. <<k, t>> \in Nat \X Tables /\ <<k, t>>[1] = k /\ <<k, t>>[2] = t
    OBVIOUS
  <2> QED
    BY <2>1, Zenon
<1> HIDE DEF next
<1>3. EmptyTable \in Tables /\ Len(specs) \in Nat
  BY EmptyTyped
<1>4. PICK f : Recursion(f, EmptyTable, next, Len(specs), Tables)
  BY <1>1, <1>3, RecursionExists
<1>5. f \in [0 .. Len(specs) -> Tables] /\ f[0] = EmptyTable
      /\ \A k \in 1 .. Len(specs) : f[k] = next[<<k, f[k - 1]>>]
  BY <1>4 DEF Recursion
<1>6. ASSUME NEW k \in 0 .. Len(specs)
      PROVE  f[k] = IF k = 0 THEN EmptyTable ELSE Add(f[k - 1], specs[k])
  <2>1. CASE k = 0
    BY <2>1, <1>5
  <2>2. CASE k # 0
    <3>1. k \in 1 .. Len(specs) /\ k - 1 \in 0 .. Len(specs)
      BY <2>2
    <3>2. f[k - 1] \in Tables
      BY <3>1, <1>5
    <3> QED
      BY <2>2, <3>1, <3>2, <1>2, <1>5
  <2> QED
    BY <2>1, <2>2
<1>7. f = [k \in 0 .. Len(specs) |-> f[k]]
  BY <1>5
<1> QED
  BY <1>6, <1>7, Zenon DEF Builds, EmptyTable

LEMMA AllSpecsSound ==
  ASSUME NEW doc \in Docs(Names), Loads(doc)
  PROVE  /\ AllSpecs(doc) \in Seq(Specs(Names))
         /\ \A p \in 1 .. Len(AllSpecs(doc)) : Sound(AllSpecs(doc)[p], Names)
<1>1. Topics(doc) \in Seq(Specs(Names)) /\ \A p \in 1 .. Len(Topics(doc)) : Sound(Topics(doc)[p], Names)
  BY BufferedTopicsAreLatched
<1>2. CASE UseSimTime
  <2>1. DefaultQos \in QosSpecs
    BY DefaultParsed
  <2>a. [DefaultQos EXCEPT !.liveliness = Automatic] \in QosSpecs
    BY <2>1 DEF QosSpecs, Automatic
  <2>b. "rosgraph_msgs/msg/Clock" \in STRING /\ "/clock" \in Names /\ "no_buffer" \in Strategies
    BY <1>2, ClockAssumption DEF Strategies
  <2>2. Clock \in Specs(Names) /\ Clock.strategy = "no_buffer"
    BY <2>a, <2>b DEF Clock, Specs
  <2>3. AllSpecs(doc) = Topics(doc) \o <<Clock>>
    BY <1>2 DEF AllSpecs
  <2> HIDE DEF AllSpecs
  <2>4. <<Clock>> \in Seq(Specs(Names)) /\ Len(<<Clock>>) = 1 /\ <<Clock>>[1] = Clock
    BY <2>2
  <2>5. Sound(Clock, Names)
    BY <2>2 DEF Sound
  <2>6. AllSpecs(doc) \in Seq(Specs(Names)) /\ Len(AllSpecs(doc)) = Len(Topics(doc)) + 1
    BY <1>1, <2>3, <2>4, ConcatProperties
  <2>7. ASSUME NEW p \in 1 .. Len(AllSpecs(doc)) PROVE Sound(AllSpecs(doc)[p], Names)
    <3>1. AllSpecs(doc)[p] = IF p <= Len(Topics(doc)) THEN Topics(doc)[p]
                             ELSE <<Clock>>[p - Len(Topics(doc))]
      BY <1>1, <2>3, <2>4, <2>6, ConcatProperties
    <3>2. Len(Topics(doc)) \in Nat
      BY <1>1
    <3>3. CASE p <= Len(Topics(doc))
      BY <3>1, <3>3, <1>1
    <3>4. CASE p > Len(Topics(doc))
      <4>1. p - Len(Topics(doc)) = 1
        BY <3>2, <3>4, <2>6
      <4> QED
        BY <3>1, <3>2, <3>4, <4>1, <2>4, <2>5
    <3> QED
      BY <3>2, <3>3, <3>4
  <2> QED
    BY <2>6, <2>7
<1>3. CASE ~UseSimTime
  <2>1. AllSpecs(doc) = Topics(doc)
    BY <1>1, <1>3, ConcatEmptySeq DEF AllSpecs
  <2> QED
    BY <1>1, <2>1
<1> QED
  BY <1>2, <1>3

(* What on_configure builds from a contract that loads.                    *)
LEMMA BuiltIsTable ==
  ASSUME NEW d \in Valid
  PROVE  LET specs == AllSpecs(Documents[d]) IN
            /\ specs \in Seq(Specs(Names))
            /\ \A p \in 1 .. Len(specs) : Sound(specs[p], Names)
            /\ TableOf(Built[d], specs, Len(specs))
<1> DEFINE doc == Documents[d]
           specs == AllSpecs(doc)
           f == CHOOSE f : Builds(f, specs)
           Bad == {k \in 0 .. Len(specs) : ~TableOf(f[k], specs, k)}
<1>1. doc \in Docs(Names) /\ Loads(doc)
  BY DocumentsAssumption DEF Valid
<1>2. specs \in Seq(Specs(Names)) /\ \A p \in 1 .. Len(specs) : Sound(specs[p], Names)
  BY <1>1, AllSpecsSound
<1>3. Builds(f, specs)
  BY <1>2, BuildsExists
<1>4. Built[d] = f[Len(specs)]
  BY DEF Built, BuildTopicList, Builds, AllSpecs
<1> HIDE DEF f, specs
<1>5. /\ f[0] = EmptyTable
      /\ \A k \in 1 .. Len(specs) : f[k] = Add(f[k - 1], specs[k])
  BY <1>2, <1>3 DEF Builds, EmptyTable
<1>6. Bad = {}
  <2> SUFFICES ASSUME Bad # {} PROVE FALSE
    OBVIOUS
  <2>1. PICK k \in Bad : \A j \in Bad : k <= j
    <3> Bad \in SUBSET Nat
      OBVIOUS
    <3> HIDE DEF Bad
    <3> QED
      BY LeastNumber
  <2>2. k # 0
    <3>1. EmptyTable.topics = << >> /\ EmptyTable.index = NoIndex /\ EmptyTable \in Tables
      BY EmptyTyped DEF EmptyTable
    <3>a. Len(EmptyTable.topics) = 0 /\ \A n \in Names : EmptyTable.index[n] = 0
      BY <3>1 DEF NoIndex
    <3>b. InverseOf(EmptyTable)
      BY <3>a DEF InverseOf
    <3>c. FirstSpecs(EmptyTable, specs, 0) /\ AllListed(EmptyTable, specs, 0)
          /\ InListedOrder(EmptyTable, specs, 0)
      BY <3>a DEF FirstSpecs, AllListed, InListedOrder
    <3>2. TableOf(EmptyTable, specs, 0)
      BY <3>1, <3>b, <3>c DEF TableOf
    <3> QED
      BY <3>2, <1>5
  <2>3. k \in 1 .. Len(specs) /\ k - 1 \in 0 .. Len(specs) /\ ~(k <= k - 1)
    BY <2>1, <2>2
  <2>4. k - 1 \notin Bad
    <3> HIDE DEF Bad
    <3> QED
      BY <2>1, <2>3
  <2>5. TableOf(f[k - 1], specs, k - 1)
    BY <2>3, <2>4
  <2>6. TableOf(Add(f[k - 1], specs[k]), specs, k)
    BY <1>2, <2>3, <2>5, TableOfStep
  <2> QED
    BY <1>5, <2>3, <2>6
<1>7. TableOf(Built[d], specs, Len(specs))
  BY <1>2, <1>4, <1>6
<1> QED
  BY <1>2, <1>7 DEF specs

-----------------------------------------------------------------------------
(* The elements of a sequence that are kept.                               *)

(* f is the recursion in Keep.                                             *)
Keeps(f, s, S) ==
    f = [k \in 0 .. Len(s) |->
            IF k = 0 THEN << >>
            ELSE IF s[k] \in S THEN Append(f[k - 1], s[k]) ELSE f[k - 1]]

LEMMA KeepsExists ==
  ASSUME NEW T, NEW s \in Seq(T), NEW S
  PROVE  \E f : Keeps(f, s, S)
<1> DEFINE next == [a \in Nat \X Seq(T) |->
                      IF a[1] \in 1 .. Len(s) /\ s[a[1]] \in S
                      THEN Append(a[2], s[a[1]]) ELSE a[2]]
<1>1. next \in [Nat \X Seq(T) -> Seq(T)]
  <2> SUFFICES ASSUME NEW a \in Nat \X Seq(T)
               PROVE  (IF a[1] \in 1 .. Len(s) /\ s[a[1]] \in S
                       THEN Append(a[2], s[a[1]]) ELSE a[2]) \in Seq(T)
    OBVIOUS
  <2>1. a[1] \in 1 .. Len(s) => s[a[1]] \in T
    OBVIOUS
  <2>2. a[2] \in Seq(T)
    OBVIOUS
  <2> QED
    BY <2>1, <2>2, AppendProperties
<1>2. \A k \in 1 .. Len(s) : \A u \in Seq(T) :
        next[<<k, u>>] = IF s[k] \in S THEN Append(u, s[k]) ELSE u
  <2> SUFFICES ASSUME NEW k \in 1 .. Len(s), NEW u \in Seq(T)
               PROVE  next[<<k, u>>] = IF s[k] \in S THEN Append(u, s[k]) ELSE u
    OBVIOUS
  <2>1. <<k, u>> \in Nat \X Seq(T) /\ <<k, u>>[1] = k /\ <<k, u>>[2] = u
    OBVIOUS
  <2> QED
    BY <2>1, Zenon
<1> HIDE DEF next
<1>3. << >> \in Seq(T) /\ Len(s) \in Nat
  OBVIOUS
<1>4. PICK f : Recursion(f, << >>, next, Len(s), Seq(T))
  BY <1>1, <1>3, RecursionExists
<1>5. f \in [0 .. Len(s) -> Seq(T)] /\ f[0] = << >>
      /\ \A k \in 1 .. Len(s) : f[k] = next[<<k, f[k - 1]>>]
  BY <1>4 DEF Recursion
<1>6. ASSUME NEW k \in 0 .. Len(s)
      PROVE  f[k] = IF k = 0 THEN << >>
                    ELSE IF s[k] \in S THEN Append(f[k - 1], s[k]) ELSE f[k - 1]
  <2>1. CASE k = 0
    BY <2>1, <1>5
  <2>2. CASE k # 0
    <3>1. k \in 1 .. Len(s) /\ k - 1 \in 0 .. Len(s)
      BY <2>2
    <3>2. f[k - 1] \in Seq(T)
      BY <3>1, <1>5
    <3>3. f[k] = IF s[k] \in S THEN Append(f[k - 1], s[k]) ELSE f[k - 1]
      BY <3>1, <3>2, <1>2, <1>5
    <3> QED
      BY <2>2, <3>3, Zenon
  <2> QED
    BY <2>1, <2>2
<1>7. f = [k \in 0 .. Len(s) |-> f[k]]
  BY <1>5
<1> QED
  BY <1>6, <1>7, Zenon DEF Keeps

LEMMA KeepRuns ==
  ASSUME NEW T, NEW s \in Seq(T), NEW S
  PROVE  \E f : /\ Keep(s, S) = f[Len(s)]
                /\ f[0] = << >>
                /\ \A k \in 1 .. Len(s) :
                    f[k] = IF s[k] \in S THEN Append(f[k - 1], s[k]) ELSE f[k - 1]
<1> DEFINE f == CHOOSE f : Keeps(f, s, S)
<1>1. Keeps(f, s, S)
  BY KeepsExists
<1>2. Keep(s, S) = f[Len(s)]
  BY DEF Keep, Keeps
<1> HIDE DEF f
<1>3. f[0] = << >>
  BY <1>1 DEF Keeps
<1>4. ASSUME NEW k \in 1 .. Len(s)
      PROVE  f[k] = IF s[k] \in S THEN Append(f[k - 1], s[k]) ELSE f[k - 1]
  <2>1. k \in 0 .. Len(s) /\ k # 0
    OBVIOUS
  <2>2. f[k] = IF k = 0 THEN << >>
               ELSE IF s[k] \in S THEN Append(f[k - 1], s[k]) ELSE f[k - 1]
    BY <1>1, <2>1, Zenon DEF Keeps
  <2> QED
    BY <2>1, <2>2, Zenon
<1> QED
  BY <1>2, <1>3, <1>4

(* Of a sequence without repetitions, elements of S without repetitions    *)
(* are kept.                                                               *)
KeptOf(u, s, S, T, k) ==
    /\ u \in Seq(T)
    /\ \A i \in 1 .. Len(u) : u[i] \in S /\ \E j \in 1 .. k : u[i] = s[j]
    /\ \A i, j \in 1 .. Len(u) : u[i] = u[j] => i = j

LEMMA KeepDistinct ==
  ASSUME NEW T, NEW s \in Seq(T), NEW S,
         \A i, j \in 1 .. Len(s) : s[i] = s[j] => i = j
  PROVE  KeptOf(Keep(s, S), s, S, T, Len(s))
<1>1. PICK f : /\ Keep(s, S) = f[Len(s)]
               /\ f[0] = << >>
               /\ \A k \in 1 .. Len(s) :
                    f[k] = IF s[k] \in S THEN Append(f[k - 1], s[k]) ELSE f[k - 1]
  BY KeepRuns
<1> DEFINE Bad == {k \in 0 .. Len(s) : ~KeptOf(f[k], s, S, T, k)}
<1>2. Bad = {}
  <2> SUFFICES ASSUME Bad # {} PROVE FALSE
    OBVIOUS
  <2>1. PICK k \in Bad : \A j \in Bad : k <= j
    <3> Bad \in SUBSET Nat
      OBVIOUS
    <3> HIDE DEF Bad
    <3> QED
      BY LeastNumber
  <2>2. k # 0
    <3>1. KeptOf(<< >>, s, S, T, 0)
      BY DEF KeptOf
    <3> QED
      BY <3>1, <1>1
  <2>3. k \in 1 .. Len(s) /\ k - 1 \in 0 .. Len(s) /\ ~(k <= k - 1)
    BY <2>1, <2>2
  <2>4. k - 1 \notin Bad
    <3> HIDE DEF Bad
    <3> QED
      BY <2>1, <2>3
  <2> DEFINE u == f[k - 1]
  <2>5. KeptOf(u, s, S, T, k - 1)
    BY <2>3, <2>4
  <2>6. f[k] = IF s[k] \in S THEN Append(u, s[k]) ELSE u
    BY <1>1, <2>3
  <2> HIDE DEF u
  <2>7. u \in Seq(T) /\ s[k] \in T /\ Len(u) \in Nat
    BY <2>3, <2>5 DEF KeptOf
  <2>8. \A j \in 1 .. k - 1 : j \in 1 .. k /\ s[j] # s[k]
    BY <2>3
  <2>9. CASE s[k] \in S
    <3> DEFINE v == Append(u, s[k])
    <3>1. v \in Seq(T) /\ Len(v) = Len(u) + 1
          /\ (\A i \in 1 .. Len(u) : v[i] = u[i]) /\ v[Len(u) + 1] = s[k]
      BY <2>7, AppendProperties
    <3> HIDE DEF v
    <3>2. \A i \in 1 .. Len(v) : i \in 1 .. Len(u) \/ i = Len(u) + 1
      BY <2>7, <3>1
    <3>3. ASSUME NEW i \in 1 .. Len(v)
          PROVE  v[i] \in S /\ \E j \in 1 .. k : v[i] = s[j]
      <4>1. CASE i = Len(u) + 1
        BY <4>1, <3>1, <2>3, <2>9
      <4>2. CASE i \in 1 .. Len(u)
        <5>1. v[i] = u[i] /\ u[i] \in S /\ \E j \in 1 .. k - 1 : u[i] = s[j]
          BY <4>2, <3>1, <2>5 DEF KeptOf
        <5> QED
          BY <5>1, <2>8
      <4> QED
        BY <4>1, <4>2, <3>2
    <3>4. ASSUME NEW i \in 1 .. Len(u) PROVE v[i] # s[k]
      BY <3>1, <2>5, <2>8 DEF KeptOf
    <3>5. ASSUME NEW i \in 1 .. Len(v), NEW j \in 1 .. Len(v), v[i] = v[j]
          PROVE  i = j
      <4>1. CASE i \in 1 .. Len(u) /\ j \in 1 .. Len(u)
        BY <4>1, <3>1, <3>5, <2>5 DEF KeptOf
      <4> QED
        BY <4>1, <3>1, <3>2, <3>4, <3>5
    <3>6. KeptOf(v, s, S, T, k)
      BY <3>1, <3>3, <3>5, Zenon DEF KeptOf
    <3> QED
      BY <3>6, <2>6, <2>9 DEF v
  <2>10. CASE s[k] \notin S
    <3>1. KeptOf(u, s, S, T, k)
      BY <2>5, <2>8 DEF KeptOf
    <3> QED
      BY <3>1, <2>6, <2>10
  <2> QED
    BY <2>9, <2>10
<1> QED
  BY <1>1, <1>2

(* Of a sequence whose first m elements are those in S, these are kept.    *)
FrontOf(u, s, m, T) ==
    u \in Seq(T) /\ Len(u) = m /\ \A i \in 1 .. m : u[i] = s[i]

LEMMA KeepFront ==
  ASSUME NEW T, NEW s \in Seq(T), NEW S, NEW m \in 0 .. Len(s),
         \A k \in 1 .. Len(s) : s[k] \in S <=> k <= m
  PROVE  FrontOf(Keep(s, S), s, m, T)
<1>1. PICK f : /\ Keep(s, S) = f[Len(s)]
               /\ f[0] = << >>
               /\ \A k \in 1 .. Len(s) :
                    f[k] = IF s[k] \in S THEN Append(f[k - 1], s[k]) ELSE f[k - 1]
  BY KeepRuns
<1> DEFINE upto(k) == IF k <= m THEN k ELSE m
           Bad == {k \in 0 .. Len(s) : ~FrontOf(f[k], s, upto(k), T)}
<1>2. Bad = {}
  <2> SUFFICES ASSUME Bad # {} PROVE FALSE
    OBVIOUS
  <2>1. PICK k \in Bad : \A j \in Bad : k <= j
    <3> Bad \in SUBSET Nat
      OBVIOUS
    <3> HIDE DEF Bad
    <3> QED
      BY LeastNumber
  <2>2. k # 0
    <3>1. FrontOf(<< >>, s, 0, T)
      BY DEF FrontOf
    <3>2. upto(0) = 0
      OBVIOUS
    <3> QED
      BY <3>1, <3>2, <1>1
  <2>3. k \in 1 .. Len(s) /\ k - 1 \in 0 .. Len(s) /\ ~(k <= k - 1)
    BY <2>1, <2>2
  <2>4. k - 1 \notin Bad
    <3> HIDE DEF Bad
    <3> QED
      BY <2>1, <2>3
  <2> DEFINE u == f[k - 1]
  <2>5. FrontOf(u, s, upto(k - 1), T)
    BY <2>3, <2>4
  <2>6. f[k] = IF s[k] \in S THEN Append(u, s[k]) ELSE u
    BY <1>1, <2>3
  <2> HIDE DEF u
  <2>7. u \in Seq(T) /\ s[k] \in T /\ Len(u) = upto(k - 1)
    BY <2>3, <2>5 DEF FrontOf
  <2>8. CASE k <= m
    <3>1. upto(k - 1) = k - 1 /\ upto(k) = k
      BY <2>3, <2>8
    <3> DEFINE v == Append(u, s[k])
    <3>2. v \in Seq(T) /\ Len(v) = Len(u) + 1
          /\ (\A i \in 1 .. Len(u) : v[i] = u[i]) /\ v[Len(u) + 1] = s[k]
      BY <2>7, AppendProperties
    <3> HIDE DEF v
    <3>3. ASSUME NEW i \in 1 .. k PROVE v[i] = s[i]
      <4>1. i \in 1 .. k - 1 \/ i = k
        BY <2>3
      <4> QED
        BY <4>1, <3>1, <3>2, <2>3, <2>5, <2>7 DEF FrontOf
    <3>4. FrontOf(v, s, upto(k), T)
      BY <3>1, <3>2, <3>3, <2>3, <2>7 DEF FrontOf
    <3> QED
      BY <3>4, <2>3, <2>6, <2>8 DEF v
  <2>9. CASE k > m
    <3>1. upto(k - 1) = m /\ upto(k) = m
      BY <2>3, <2>9
    <3>2. s[k] \notin S
      BY <2>3, <2>9
    <3> QED
      BY <3>1, <3>2, <2>5, <2>6
  <2> QED
    BY <2>3, <2>8, <2>9
<1>3. upto(Len(s)) = m /\ Len(s) \in 0 .. Len(s)
  OBVIOUS
<1> QED
  BY <1>1, <1>2, <1>3

-----------------------------------------------------------------------------
(* Entries of the table, one by one.                                       *)

(* What the invariants say of one entry, when pub are the newest samples.  *)
GoodTimes(t, pub) ==
    /\ t.seen <= pub[t.spec.topic]
    /\ t.live <= t.seen
    /\ \A k \in 1 .. Len(t.buffer) : t.buffer[k].sample \in 1 .. t.seen
GoodSpec(t) ==
    /\ t.spec.strategy # "no_buffer" =>
        t.spec.qos.transient_local /\ t.spec.qos.depth > 0 /\ ~t.discovered
    /\ t.discovered => t.spec = DiscoveredSpec(t.spec.topic)
GoodBuffer(t) ==
    /\ t.buffer # << >> => t.spec.strategy # "no_buffer"
    /\ Len(t.buffer) <= t.spec.qos.depth
    /\ \A k \in 1 .. Len(t.buffer) : t.buffer[k].via = t.made
    /\ \A k \in 1 .. Len(t.buffer) - 1 : t.buffer[k].sample < t.buffer[k + 1].sample
GoodLatest(t) ==
    /\ t.spec.strategy # "no_buffer"
    /\ t.seen \notin {0, t.live}
    /\ <<t.spec.topic, t.seen>> \notin Oversize
    => t.buffer # << >> /\ Last(t.buffer).sample = t.seen
Good(t, pub) ==
    t \in Entries /\ GoodTimes(t, pub) /\ GoodSpec(t) /\ GoodBuffer(t) /\ GoodLatest(t)

GoodEntries == topics \in Seq(Entries) /\ \A i \in 1 .. Len(topics) : Good(topics[i], published)
IndexTyped == topic_index \in [Names -> 0 .. Len(topics)]

LEMMA GoodEntriesAre ==
  (GoodEntries /\ IndexTyped) <=>
    (TableTypes /\ SpecInv /\ BufferInv /\ BuffersBounded /\ LatchedKeptOrRecorded)
<1>1. ASSUME GoodEntries, IndexTyped
      PROVE  TableTypes /\ SpecInv /\ BufferInv /\ BuffersBounded /\ LatchedKeptOrRecorded
  <2>1. TableTypes
    BY <1>1, Zenon DEF GoodEntries, IndexTyped, Good, GoodTimes, TableTypes
  <2>2. SpecInv /\ BufferInv /\ LatchedKeptOrRecorded
    BY <1>1, Zenon DEF GoodEntries, Good, GoodSpec, GoodBuffer, GoodLatest, SpecInv, BufferInv,
                LatchedKeptOrRecorded
  <2>3. BuffersBounded
    BY <1>1, Zenon DEF GoodEntries, Good, GoodSpec, GoodBuffer, BuffersBounded
  <2> QED
    BY <2>1, <2>2, <2>3
<1>2. ASSUME TableTypes, SpecInv, BufferInv, BuffersBounded, LatchedKeptOrRecorded
      PROVE  GoodEntries /\ IndexTyped
  <2>1. topics \in Seq(Entries) /\ IndexTyped
    BY <1>2 DEF TableTypes, IndexTyped
  <2>2. ASSUME NEW i \in 1 .. Len(topics) PROVE Good(topics[i], published)
    <3>1. topics[i] \in Entries
      BY <2>1
    <3>2. GoodTimes(topics[i], published)
      BY <1>2, Zenon DEF TableTypes, GoodTimes
    <3>3. GoodSpec(topics[i])
      BY <1>2, Zenon DEF SpecInv, GoodSpec
    <3>4. GoodBuffer(topics[i])
      BY <1>2, Zenon DEF BufferInv, BuffersBounded, GoodBuffer
    <3>5. GoodLatest(topics[i])
      BY <1>2, Zenon DEF LatchedKeptOrRecorded, GoodLatest
    <3> QED
      BY <3>1, <3>2, <3>3, <3>4, <3>5 DEF Good
  <2> QED
    BY <2>1, <2>2 DEF GoodEntries
<1> QED
  BY <1>1, <1>2

(* The fields of an entry.                                                 *)
LEMMA EntryFields ==
  ASSUME NEW t \in Entries
  PROVE  /\ t.spec \in Specs(Names) /\ t.spec.topic \in Names
         /\ t.spec.qos \in QosSpecs /\ t.spec.qos.depth \in Nat
         /\ t.sub \in Nat /\ t.seen \in Nat /\ t.live \in Nat /\ t.made \in Nat
         /\ t.buffer \in Seq(Retained)
BY DEF Entries, Specs, QosSpecs

(* A new entry.                                                            *)
LEMMA EntryGood ==
  ASSUME NEW spec, Sound(spec, Names), NEW b \in BOOLEAN, NEW pub \in [Names -> Nat],
         b => spec = DiscoveredSpec(spec.topic) /\ spec.strategy = "no_buffer"
  PROVE  Good(Entry(spec, b), pub)
<1> DEFINE t == Entry(spec, b)
<1>1. t \in Entries /\ t.spec = spec
  BY EntryTyped DEF Sound
<1>2. t.sub = 0 /\ t.seen = 0 /\ t.live = 0 /\ t.made = 0 /\ t.buffer = << >>
      /\ t.discovered = b
  BY DEF Entry
<1> HIDE DEF t
<1>3. t.spec.topic \in Names /\ t.spec.qos.depth \in Nat
  BY <1>1, EntryFields
<1>4. GoodTimes(t, pub)
  BY <1>2, <1>3 DEF GoodTimes
<1>5. GoodSpec(t)
  BY <1>1, <1>2 DEF GoodSpec, Sound
<1>6. GoodBuffer(t)
  BY <1>2, <1>3 DEF GoodBuffer
<1>7. GoodLatest(t)
  BY <1>2 DEF GoodLatest
<1> QED
  BY <1>1, <1>4, <1>5, <1>6, <1>7 DEF Good, t

(* A subscription is made, or made anew, for an entry with nothing in its  *)
(* buffer: what it will give is still to come.                             *)
LEMMA SubscribedGood ==
  ASSUME NEW e \in Entries, GoodSpec(e), e.buffer = << >>, published \in [Names -> Nat],
         NEW i \in Nat
  PROVE  LET r == Subscribed(e, i) IN
            /\ Good(r, published)
            /\ r.sub = i /\ r.spec = e.spec /\ r.discovered = e.discovered
            /\ r.made = e.made
<1> DEFINE pub == published[e.spec.topic]
           seen == IF e.spec.qos.transient_local THEN 0 ELSE pub
           r == [e EXCEPT !.sub = i, !.live = 0, !.seen = seen]
<1>1. e.spec \in Specs(Names) /\ e.spec.topic \in Names /\ e.spec.qos.depth \in Nat
      /\ e.made \in Nat
  BY EntryFields
<1>2. pub \in Nat /\ seen \in Nat /\ seen <= pub
  BY <1>1
<1>3. Subscribed(e, i) = r
  BY DEF Subscribed
<1> HIDE DEF seen, pub
<1>4. /\ r.sub = i /\ r.spec = e.spec /\ r.discovered = e.discovered
      /\ r.live = 0 /\ r.seen = seen /\ r.made = e.made /\ r.buffer = << >>
  BY DEF Entries
<1>5. r \in Entries
  BY <1>2 DEF Entries
<1> HIDE DEF r
<1>6. GoodTimes(r, published)
  BY <1>2, <1>4 DEF GoodTimes, pub
<1>7. GoodSpec(r)
  BY <1>4 DEF GoodSpec
<1>8. GoodBuffer(r)
  BY <1>1, <1>4 DEF GoodBuffer
<1>9. GoodLatest(r)
  BY <1>4 DEF GoodLatest, GoodSpec, seen
<1> QED
  BY <1>3, <1>4, <1>5, <1>6, <1>7, <1>8, <1>9 DEF Good

LEMMA RenewGood ==
  ASSUME NEW e, Good(e, published), published \in [Names -> Nat], episode \in Nat,
         NEW i \in Nat
  PROVE  LET r == Renew(e, i) IN
            /\ Good(r, published)
            /\ r.sub = i /\ r.spec = e.spec /\ r.discovered = e.discovered
            /\ r.made = episode + 1
<1> DEFINE f == [e EXCEPT !.buffer = << >>, !.made = episode + 1]
<1>1. e \in Entries /\ GoodSpec(e)
  BY DEF Good
<1>2. << >> \in Seq(Retained) /\ episode + 1 \in Nat
  OBVIOUS
<1>3. f \in Entries
  BY <1>1, <1>2 DEF Entries
<1>4. f.buffer = << >> /\ f.made = episode + 1 /\ f.spec = e.spec
      /\ f.discovered = e.discovered
  BY <1>1 DEF Entries
<1>5. Renew(e, i) = Subscribed(f, i)
  BY DEF Renew
<1> HIDE DEF f
<1>6. GoodSpec(f)
  BY <1>1, <1>4 DEF GoodSpec
<1>7. /\ Good(Subscribed(f, i), published)
      /\ Subscribed(f, i).sub = i /\ Subscribed(f, i).spec = f.spec
      /\ Subscribed(f, i).discovered = f.discovered /\ Subscribed(f, i).made = f.made
  BY <1>3, <1>4, <1>6, SubscribedGood
<1> QED
  BY <1>4, <1>5, <1>7

(* A buffer is in the order of publication, up to sample m, and all of it  *)
(* came through one subscription.                                          *)
Rising(b, m, via) ==
    /\ \A k \in 1 .. Len(b) : b[k].sample \in 1 .. m /\ b[k].via = via
    /\ \A k \in 1 .. Len(b) - 1 : b[k].sample < b[k + 1].sample

(* A buffer takes a sample newer than all it holds.                        *)
LEMMA KeepNewestKeeps ==
  ASSUME NEW m \in Nat, NEW b \in Seq(Retained), NEW depth \in Nat, depth > 0,
         NEW item \in Retained, m < item.sample, Len(b) <= depth, Rising(b, m, item.via)
  PROVE  LET c == KeepNewest(b, depth, item) IN
            /\ c \in Seq(Retained) /\ c # << >> /\ Last(c) = item /\ Len(c) <= depth
            /\ Rising(c, item.sample, item.via)
<1> DEFINE n == Len(b)
           d == Append(b, item)
<1>1. n \in Nat /\ item.sample \in Nat /\ item.sample \in 1 .. item.sample
  BY DEF Retained
<1>2. d \in Seq(Retained) /\ Len(d) = n + 1 /\ d[n + 1] = item
      /\ \A k \in 1 .. n : d[k] = b[k]
  BY <1>1, AppendProperties
<1>3. \A k \in 1 .. n : b[k].sample \in 1 .. m /\ b[k].via = item.via
  BY DEF Rising
<1> HIDE DEF d
<1>4. ASSUME NEW k \in 1 .. n + 1
      PROVE  d[k].sample \in 1 .. item.sample /\ d[k].via = item.via
  <2>1. CASE k = n + 1
    BY <2>1, <1>1, <1>2
  <2>2. CASE k # n + 1
    <3>1. k \in 1 .. n
      BY <2>2, <1>1
    <3>2. b[k].sample \in 1 .. m /\ b[k].via = item.via /\ d[k] = b[k]
      BY <3>1, <1>2, <1>3
    <3> QED
      BY <3>2, <1>1
  <2> QED
    BY <2>1, <2>2
<1>5. ASSUME NEW k \in 1 .. n PROVE d[k].sample < d[k + 1].sample
  <2>1. CASE k = n
    <3>1. d[k + 1] = item /\ d[k] = b[k] /\ b[k].sample \in 1 .. m
      BY <2>1, <1>2, <1>3
    <3> QED
      BY <3>1, <1>1
  <2>2. CASE k # n
    <3>1. k \in 1 .. n - 1 /\ k + 1 \in 1 .. n
      BY <2>2, <1>1
    <3> QED
      BY <3>1, <1>2 DEF Rising
  <2> QED
    BY <2>1, <2>2
<1>6. CASE n < depth
  <2>1. KeepNewest(b, depth, item) = d
    BY <1>1, <1>2, <1>6 DEF KeepNewest, d
  <2>2. Rising(d, item.sample, item.via)
    BY <1>1, <1>2, <1>4, <1>5 DEF Rising
  <2> QED
    BY <1>1, <1>2, <1>6, <2>1, <2>2 DEF Last
<1>7. CASE n = depth
  <2> DEFINE c == SubSeq(d, 2, n + 1)
  <2>1. KeepNewest(b, depth, item) = c
    <3>1. (n + 1) - depth + 1 = 2
      BY <1>1, <1>7
    <3> QED
      BY <1>1, <1>2, <1>7, <3>1 DEF KeepNewest, d
  <2>2. c \in Seq(Retained) /\ Len(c) = n /\ \A k \in 1 .. n : c[k] = d[k + 1]
    <3>1. \A k \in 2 .. n + 1 : d[k] \in Retained
      BY <1>1, <1>2
    <3> QED
      BY <1>1, <1>2, <3>1, SubSeqProperties
  <2> HIDE DEF c
  <2>3. ASSUME NEW k \in 1 .. n - 1
        PROVE  k + 1 \in 1 .. n /\ c[k] = d[k + 1] /\ c[k + 1] = d[k + 2]
    <3>1. k \in 1 .. n /\ k + 1 \in 1 .. n /\ (k + 1) + 1 = k + 2
      BY <1>1
    <3> QED
      BY <3>1, <2>2
  <2>4. c # << >> /\ Last(c) = item
    BY <1>1, <1>2, <1>7, <2>2 DEF Last
  <2>5. ASSUME NEW k \in 1 .. n
        PROVE  c[k].sample \in 1 .. item.sample /\ c[k].via = item.via
    <3>1. k + 1 \in 1 .. n + 1
      BY <1>1
    <3> QED
      BY <3>1, <1>4, <2>2
  <2>6. ASSUME NEW k \in 1 .. n - 1 PROVE c[k].sample < c[k + 1].sample
    <3>1. k + 1 \in 1 .. n /\ (k + 1) + 1 = k + 2
      BY <1>1
    <3> QED
      BY <3>1, <1>5, <2>3
  <2>7. Rising(c, item.sample, item.via)
    BY <2>2, <2>5, <2>6 DEF Rising
  <2> QED
    BY <1>1, <1>7, <2>1, <2>2, <2>4, <2>7
<1> QED
  BY <1>1, <1>6, <1>7

(* A subscription delivers a sample to a node that is not recording.       *)
Delivered(e, buffer, sample) == [e EXCEPT !.buffer = buffer, !.seen = sample]
Arriving(e, sample) == sample \in Nat /\ e.seen < sample /\ sample <= published[e.spec.topic]
Item(e, sample) == [sample |-> sample, via |-> e.made]

LEMMA DeliveredFields ==
  ASSUME NEW e \in Entries, NEW b \in Seq(Retained), NEW sample \in Nat
  PROVE  LET r == Delivered(e, b, sample) IN
            /\ r \in Entries
            /\ r.spec = e.spec /\ r.sub = e.sub /\ r.discovered = e.discovered
            /\ r.made = e.made /\ r.live = e.live
            /\ r.buffer = b /\ r.seen = sample
BY DEF Delivered, Entries

LEMMA NotRetainedGood ==
  ASSUME NEW e, Good(e, published), NEW sample, Arriving(e, sample),
         ~Retains(e.spec) \/ <<e.spec.topic, sample>> \in Oversize
  PROVE  Good(Delivered(e, e.buffer, sample), published)
<1> DEFINE b == e.buffer
           r == Delivered(e, b, sample)
<1>1. e \in Entries /\ e.buffer \in Seq(Retained) /\ e.seen \in Nat /\ e.live \in Nat
      /\ sample \in Nat /\ e.seen < sample /\ sample <= published[e.spec.topic]
  BY EntryFields DEF Good, Arriving
<1>2. /\ r \in Entries
      /\ r.spec = e.spec /\ r.discovered = e.discovered /\ r.made = e.made /\ r.live = e.live
      /\ r.buffer = b /\ r.seen = sample
  <2>1. e \in Entries /\ b \in Seq(Retained) /\ sample \in Nat
    BY <1>1
  <2> HIDE DEF b
  <2> QED
    BY <2>1, DeliveredFields
<1> HIDE DEF r
<1>3. GoodTimes(r, published)
  <2>1. e.live <= e.seen /\ \A k \in 1 .. Len(e.buffer) : e.buffer[k].sample \in 1 .. e.seen
    BY DEF Good, GoodTimes
  <2>2. \A k \in 1 .. Len(e.buffer) : e.buffer[k].sample \in 1 .. sample
    BY <1>1, <2>1
  <2> QED
    BY <1>1, <1>2, <2>1, <2>2 DEF GoodTimes
<1>4. GoodSpec(r) /\ GoodBuffer(r)
  BY <1>2 DEF Good, GoodSpec, GoodBuffer
<1>5. GoodLatest(r)
  BY <1>2 DEF Good, GoodSpec, GoodLatest, Retains
<1> QED
  BY <1>2, <1>3, <1>4, <1>5 DEF Good, r

LEMMA RetainedGood ==
  ASSUME NEW e, Good(e, published), NEW sample, Arriving(e, sample), Retains(e.spec)
  PROVE  Good(Delivered(e, KeepNewest(e.buffer, e.spec.qos.depth, Item(e, sample)), sample),
              published)
<1> DEFINE b == KeepNewest(e.buffer, e.spec.qos.depth, Item(e, sample))
           r == Delivered(e, b, sample)
<1>1. e \in Entries /\ e.seen \in Nat /\ e.live \in Nat /\ e.made \in Nat
      /\ e.spec.qos.depth \in Nat /\ e.buffer \in Seq(Retained)
      /\ sample \in Nat /\ e.seen < sample /\ sample <= published[e.spec.topic]
  BY EntryFields DEF Good, Arriving
<1>2. e.spec.strategy # "no_buffer" /\ e.spec.qos.depth > 0
  BY DEF Retains, Good, GoodSpec
<1>3. Item(e, sample) \in Retained /\ Item(e, sample).sample = sample /\ Item(e, sample).via = e.made
  BY <1>1 DEF Item, Retained
<1>4. /\ b \in Seq(Retained) /\ b # << >> /\ Last(b).sample = sample
      /\ Len(b) <= e.spec.qos.depth /\ Rising(b, sample, e.made)
  <2>1. Len(e.buffer) <= e.spec.qos.depth /\ Rising(e.buffer, e.seen, e.made)
    BY DEF Good, GoodBuffer, GoodTimes, Rising
  <2>2. /\ b \in Seq(Retained) /\ b # << >> /\ Last(b) = Item(e, sample)
        /\ Len(b) <= e.spec.qos.depth
        /\ Rising(b, Item(e, sample).sample, Item(e, sample).via)
    BY <1>1, <1>2, <1>3, <2>1, KeepNewestKeeps
  <2> QED
    BY <1>3, <2>2
<1> HIDE DEF b
<1>5. /\ r \in Entries
      /\ r.spec = e.spec /\ r.discovered = e.discovered /\ r.made = e.made /\ r.live = e.live
      /\ r.buffer = b /\ r.seen = sample
  <2>1. e \in Entries /\ b \in Seq(Retained) /\ sample \in Nat
    BY <1>1, <1>4
  <2> QED
    BY <2>1, DeliveredFields
<1> HIDE DEF r
<1>6. GoodTimes(r, published)
  <2>1. e.live <= e.seen
    BY DEF Good, GoodTimes
  <2> QED
    BY <1>1, <1>4, <1>5, <2>1 DEF GoodTimes, Rising
<1>7. GoodSpec(r)
  BY <1>5 DEF Good, GoodSpec
<1>8. GoodBuffer(r)
  BY <1>2, <1>4, <1>5 DEF GoodBuffer, Rising
<1>9. GoodLatest(r)
  BY <1>4, <1>5 DEF GoodLatest
<1> QED
  BY <1>5, <1>6, <1>7, <1>8, <1>9 DEF Good, r, b

(* A subscription delivers a sample to a recording.                        *)
LEMMA RecordedGood ==
  ASSUME NEW e, Good(e, published), NEW sample, Arriving(e, sample)
  PROVE  LET r == [e EXCEPT !.seen = sample, !.live = sample]
         IN  /\ Good(r, published)
             /\ r.spec = e.spec /\ r.sub = e.sub /\ r.discovered = e.discovered
             /\ r.made = e.made
<1> DEFINE r == [e EXCEPT !.seen = sample, !.live = sample]
<1>1. e \in Entries /\ e.buffer \in Seq(Retained) /\ e.seen \in Nat /\ e.live \in Nat
      /\ sample \in Nat /\ e.seen < sample /\ sample <= published[e.spec.topic]
  BY EntryFields DEF Good, Arriving
<1>2. /\ r \in Entries
      /\ r.spec = e.spec /\ r.sub = e.sub /\ r.discovered = e.discovered /\ r.made = e.made
      /\ r.live = sample /\ r.buffer = e.buffer /\ r.seen = sample
  BY <1>1 DEF Entries
<1> HIDE DEF r
<1>3. GoodTimes(r, published)
  <2>1. \A k \in 1 .. Len(e.buffer) : e.buffer[k].sample \in 1 .. e.seen
    BY DEF Good, GoodTimes
  <2>2. \A k \in 1 .. Len(e.buffer) : e.buffer[k].sample \in 1 .. sample
    BY <1>1, <2>1
  <2> QED
    BY <1>1, <1>2, <2>2 DEF GoodTimes
<1>4. GoodSpec(r) /\ GoodBuffer(r)
  BY <1>2 DEF Good, GoodSpec, GoodBuffer
<1>5. GoodLatest(r)
  BY <1>2 DEF GoodLatest
<1> QED
  BY <1>2, <1>3, <1>4, <1>5 DEF Good, r

(* More is published.                                                      *)
LEMMA PublishedGood ==
  ASSUME NEW e, NEW pub \in [Names -> Nat], NEW more \in [Names -> Nat], Good(e, pub),
         \A n \in Names : pub[n] <= more[n]
  PROVE  Good(e, more)
<1>1. e.spec.topic \in Names /\ e.seen \in Nat
  BY EntryFields DEF Good
<1>2. GoodTimes(e, more)
  BY <1>1 DEF Good, GoodTimes
<1> QED
  BY <1>2 DEF Good

-----------------------------------------------------------------------------
(* The invariant, by what it is about.                                     *)

TableInv ==
    GoodEntries /\ IndexTyped /\ IndexMatchesTable /\ CallbackFindsItsTopic
    /\ FollowsContract /\ DiscoveredTornDown
QueueInv == queued \in Seq(Message) /\ Len(queued) <= MaxQueued /\ QueuedInv
BagInv == bag \in Bags /\ HeadInv /\ ResubscribedIsFresh /\ WrittenUnderOwnName

LEMMA IndInvParts == IndInv <=> NodeTypes /\ TableInv /\ MadeInv /\ QueueInv /\ BagInv
BY GoodEntriesAre DEF IndInv, TypeOK, TableInv, QueueInv, BagInv

LEMMA PublishedTyped ==
  ASSUME NodeTypes
  PROVE  published \in [Names -> Nat] /\ published \in [Names -> 0 .. MaxSamples]
BY BoundsAssumption DEF NodeTypes

-----------------------------------------------------------------------------
(* The steps, by what they do to the table.                                *)

(* The entries build_topic_list has made.                                  *)
LEMMA BuiltEntries ==
  ASSUME NEW d \in Valid
  PROVE  LET b == Built[d] IN
            /\ b.topics \in Seq(Entries) /\ b.index \in [Names -> Nat] /\ InverseOf(b)
            /\ \A j \in 1 .. Len(b.topics) :
                /\ \A pub \in [Names -> Nat] : Good(b.topics[j], pub)
                /\ b.topics[j].buffer = << >>
                /\ b.topics[j].sub = 0 /\ b.topics[j].discovered = FALSE
<1> DEFINE b == Built[d]
           specs == AllSpecs(Documents[d])
           n == Len(specs)
<1>1. /\ specs \in Seq(Specs(Names))
      /\ \A p \in 1 .. n : Sound(specs[p], Names)
      /\ TableOf(b, specs, n)
  BY BuiltIsTable
<1> HIDE DEF b, specs, n
<1>2. b.topics \in Seq(Entries) /\ b.index \in [Names -> Nat] /\ InverseOf(b)
  BY <1>1 DEF TableOf, Tables
<1>3. ASSUME NEW j \in 1 .. Len(b.topics)
      PROVE  /\ \A pub \in [Names -> Nat] : Good(b.topics[j], pub)
             /\ b.topics[j].buffer = << >>
             /\ b.topics[j].sub = 0 /\ b.topics[j].discovered = FALSE
  <2>1. PICK p \in 1 .. n : b.topics[j] = Entry(specs[p], FALSE)
    BY <1>1 DEF TableOf, FirstSpecs
  <2>2. Sound(specs[p], Names)
    BY <1>1
  <2>3. \A pub \in [Names -> Nat] : Good(Entry(specs[p], FALSE), pub)
    BY <2>2, EntryGood
  <2>4. /\ Entry(specs[p], FALSE).buffer = << >>
        /\ Entry(specs[p], FALSE).sub = 0 /\ Entry(specs[p], FALSE).discovered = FALSE
    BY DEF Entry
  <2> QED
    BY <2>1, <2>3, <2>4, Zenon
<1> QED
  BY <1>2, <1>3 DEF b

(* on_configure has subscribed to the topics before i.                     *)
LEMMA ConfiguredTable ==
  ASSUME NEW d \in Valid, NEW i \in Nat, published \in [Names -> Nat],
         topics' = [j \in 1 .. Len(Built[d].topics) |->
                      IF j < i THEN Subscribed(Built[d].topics[j], j) ELSE Built[d].topics[j]],
         topic_index' = Built[d].index, published' = published
  PROVE  /\ GoodEntries' /\ IndexTyped' /\ IndexMatchesTable'
         /\ Len(topics') = Len(Built[d].topics)
         /\ \A j \in 1 .. Len(topics') :
            /\ topics'[j].sub = IF j < i THEN j ELSE 0
            /\ topics'[j].spec = Built[d].topics[j].spec
            /\ topics'[j].discovered = FALSE
<1> DEFINE b == Built[d]
           n == Len(b.topics)
           row(j) == IF j < i THEN Subscribed(b.topics[j], j) ELSE b.topics[j]
<1>1. /\ b.topics \in Seq(Entries) /\ b.index \in [Names -> Nat] /\ InverseOf(b)
      /\ \A j \in 1 .. n :
            /\ Good(b.topics[j], published)
            /\ b.topics[j].buffer = << >>
            /\ b.topics[j].sub = 0 /\ b.topics[j].discovered = FALSE
  BY BuiltEntries
<1> HIDE DEF b
<1>2. ASSUME NEW j \in 1 .. n
      PROVE  /\ Good(row(j), published) /\ row(j).spec = b.topics[j].spec
             /\ row(j).discovered = FALSE /\ row(j).sub = IF j < i THEN j ELSE 0
  <2> DEFINE e == b.topics[j]
  <2>1. e \in Entries /\ Good(e, published) /\ GoodSpec(e) /\ e.buffer = << >>
        /\ e.sub = 0 /\ e.discovered = FALSE /\ j \in Nat
    BY <1>1 DEF Good
  <2> HIDE DEF e
  <2>2. /\ Good(Subscribed(e, j), published)
        /\ Subscribed(e, j).sub = j /\ Subscribed(e, j).spec = e.spec
        /\ Subscribed(e, j).discovered = e.discovered
    BY <2>1, SubscribedGood
  <2> QED
    BY <2>1, <2>2 DEF e
<1>3. n \in Nat /\ topics' = [j \in 1 .. n |-> row(j)]
  BY <1>1 DEF b
<1> HIDE DEF row
<1>4. \A j \in 1 .. n : row(j) \in Entries
  BY <1>2 DEF Good
<1>5. topics' \in Seq(Entries) /\ Len(topics') = n /\ \A j \in 1 .. n : topics'[j] = row(j)
  BY <1>3, <1>4
<1>6. GoodEntries'
  BY <1>2, <1>5 DEF GoodEntries
<1>7. \A j \in 1 .. n : topics'[j].spec = b.topics[j].spec
  BY <1>2, <1>5
<1>8. b.index = topic_index'
  BY DEF b
<1>9. \A m \in Names : b.index[m] \in Nat /\ (b.index[m] # 0 => b.index[m] \in 1 .. n)
  BY <1>1, <1>3 DEF InverseOf
<1>10. IndexTyped'
  <2>1. \A m \in Names : b.index[m] \in 0 .. n
    BY <1>3, <1>9
  <2> QED
    BY <1>1, <1>5, <1>8, <2>1 DEF IndexTyped
<1>11. IndexMatchesTable'
  <2>1. \A j \in 1 .. n : topic_index'[topics'[j].spec.topic] = j
    BY <1>1, <1>7, <1>8 DEF InverseOf
  <2>2. ASSUME NEW m \in Names, topic_index'[m] # 0
        PROVE  topic_index'[m] <= n /\ topics'[topic_index'[m]].spec.topic = m
    <3>1. b.index[m] \in 1 .. n /\ b.topics[b.index[m]].spec.topic = m
      BY <1>1, <1>8, <1>9, <2>2 DEF InverseOf
    <3>2. topics'[b.index[m]].spec = b.topics[b.index[m]].spec
      BY <3>1, <1>7
    <3>3. b.index[m] <= n /\ topics'[b.index[m]].spec.topic = m
      <4>1. b.index[m] <= n
        <5>1. n \in Nat
          BY <1>3
        <5> HIDE DEF n
        <5> QED
          BY <3>1, <5>1
      <4>2. topics'[b.index[m]].spec.topic = m
        BY <3>1, <3>2, Zenon
      <4> QED
        BY <4>1, <4>2
    <3>4. topic_index'[m] = b.index[m]
      BY <1>8
    <3> QED
      BY <3>3, <3>4
  <2> QED
    BY <1>5, <2>1, <2>2, ZenonT(30) DEF IndexMatchesTable
<1> QED
  BY <1>2, <1>5, <1>6, <1>10, <1>11, ZenonT(30) DEF b

LEMMA ConfigureKeepsTable ==
  ASSUME NodeTypes, NEW d, OnConfigure(d)
  PROVE  TableInv'
<1> DEFINE n == Len(Built[d].topics)
<1>1. d \in Valid /\ published \in [Names -> Nat] /\ published' = published
      /\ topic_index' = Built[d].index /\ contract' = d /\ phase' = "ready"
  BY PublishedTyped DEF OnConfigure
<1>2. n \in Nat
  BY <1>1, BuiltEntries
<1>3. topics' = [j \in 1 .. n |-> IF j < n + 1 THEN Subscribed(Built[d].topics[j], j)
                                                ELSE Built[d].topics[j]]
  <2>1. topics' = [j \in 1 .. n |-> Subscribed(Built[d].topics[j], j)]
    BY DEF OnConfigure
  <2>2. \A j \in 1 .. n : j < n + 1
    BY <1>2
  <2> QED
    BY <2>1, <2>2, Zenon
<1>4. n + 1 \in Nat
  BY <1>2
<1>5. /\ GoodEntries' /\ IndexTyped' /\ IndexMatchesTable' /\ Len(topics') = n
      /\ \A j \in 1 .. Len(topics') :
            /\ topics'[j].sub = IF j < n + 1 THEN j ELSE 0
            /\ topics'[j].spec = Built[d].topics[j].spec
            /\ topics'[j].discovered = FALSE
  BY <1>1, <1>3, <1>4, ConfiguredTable
<1>6. \A j \in 1 .. n : topics'[j].sub = j /\ topics'[j].spec = Built[d].topics[j].spec
                        /\ ~topics'[j].discovered
  BY <1>2, <1>5
<1> HIDE DEF n
<1>7. CallbackFindsItsTopic'
  BY <1>5, <1>6 DEF CallbackFindsItsTopic
<1>8. FollowsContract'
  <2>1. \A j \in 1 .. n : ~(j > n)
    BY <1>2
  <2>2. /\ contract' \in Valid /\ Built[contract'].topics = Built[d].topics
        /\ Len(Built[d].topics) = n /\ n <= n
    BY <1>1, <1>2 DEF n
  <2> QED
    BY <1>5, <1>6, <2>1, <2>2 DEF FollowsContract
<1>9. DiscoveredTornDown'
  BY <1>5, <1>6 DEF DiscoveredTornDown
<1> QED
  BY <1>5, <1>7, <1>8, <1>9 DEF TableInv

LEMMA SubscribeFailsKeepsTable ==
  ASSUME NodeTypes, NEW d \in Valid, NEW i \in Nat, SubscribeFails(d, i)
  PROVE  TableInv'
<1>1. published \in [Names -> Nat] /\ published' = published /\ topic_index' = Built[d].index
      /\ phase' = "unconfigured"
  BY PublishedTyped DEF SubscribeFails
<1>2. topics' = [j \in 1 .. Len(Built[d].topics) |->
                  IF j < i THEN Subscribed(Built[d].topics[j], j) ELSE Built[d].topics[j]]
  BY DEF SubscribeFails
<1>3. /\ GoodEntries' /\ IndexTyped' /\ IndexMatchesTable'
      /\ \A j \in 1 .. Len(topics') :
            /\ topics'[j].sub = IF j < i THEN j ELSE 0
            /\ topics'[j].discovered = FALSE
  BY <1>1, <1>2, ConfiguredTable
<1>4. CallbackFindsItsTopic'
  BY <1>1, <1>3 DEF CallbackFindsItsTopic
<1>5. FollowsContract' /\ DiscoveredTornDown'
  BY <1>1, <1>3 DEF FollowsContract, DiscoveredTornDown
<1> QED
  BY <1>3, <1>4, <1>5 DEF TableInv

(* on_cleanup and on_shutdown.                                             *)
LEMMA ClearKeepsTable ==
  ASSUME ClearTable, phase' \in {"unconfigured", "gone"}
  PROVE  TableInv'
<1>1. topics' = << >> /\ topic_index' = NoIndex /\ Len(topics') = 0
  BY DEF ClearTable
<1>2. GoodEntries'
  <2>1. << >> \in Seq(Entries)
    OBVIOUS
  <2> QED
    BY <1>1, <2>1 DEF GoodEntries
<1>3. IndexTyped' /\ IndexMatchesTable'
  BY <1>1 DEF IndexTyped, IndexMatchesTable, NoIndex
<1>4. CallbackFindsItsTopic' /\ FollowsContract' /\ DiscoveredTornDown'
  BY <1>1 DEF CallbackFindsItsTopic, FollowsContract, DiscoveredTornDown
<1> QED
  BY <1>2, <1>3, <1>4 DEF TableInv

(* A step that leaves every entry with its topic, and its subscription.    *)
Alike(t, u) ==
    /\ Len(u) = Len(t)
    /\ \A i \in 1 .. Len(t) :
        u[i].spec = t[i].spec /\ u[i].sub = t[i].sub /\ u[i].discovered = t[i].discovered
Configured == phase \in {"ready", "pending", "recording"}
Quiet == phase \in {"unconfigured", "ready"} /\ ~aborted

LEMMA AlikeKeepsTable ==
  ASSUME TableInv, GoodEntries', Alike(topics, topics'), topic_index' = topic_index,
         contract' = contract, Configured' => Configured, Quiet' => Quiet
  PROVE  TableInv'
<1> DEFINE n == Len(topics)
<1>1. /\ topics \in Seq(Entries) /\ n \in Nat /\ topic_index \in [Names -> 0 .. n]
      /\ Len(topics') = n
      /\ \A i \in 1 .. n : /\ topics'[i].spec = topics[i].spec
                           /\ topics'[i].sub = topics[i].sub
                           /\ topics'[i].discovered = topics[i].discovered
  BY DEF TableInv, GoodEntries, IndexTyped, Alike
<1>2. IndexTyped'
  BY <1>1 DEF IndexTyped
<1>3. IndexMatchesTable'
  <2>1. \A i \in 1 .. n : topic_index'[topics'[i].spec.topic] = i
    BY <1>1 DEF TableInv, IndexMatchesTable
  <2>2. ASSUME NEW m \in Names, topic_index'[m] # 0
        PROVE  topic_index'[m] <= n /\ topics'[topic_index'[m]].spec.topic = m
    <3>1. topic_index[m] \in 1 .. n /\ topics[topic_index[m]].spec.topic = m
      BY <1>1, <2>2 DEF TableInv, IndexMatchesTable
    <3>2. topics'[topic_index[m]].spec = topics[topic_index[m]].spec
      BY <3>1, <1>1
    <3> QED
      BY <3>1, <3>2, <1>1
  <2> QED
    BY <1>1, <2>1, <2>2, Zenon DEF IndexMatchesTable
<1>4. CallbackFindsItsTopic'
  BY <1>1 DEF TableInv, CallbackFindsItsTopic, Configured
<1>5. FollowsContract'
  <2> SUFFICES ASSUME Configured' PROVE FollowsContract'
    BY DEF Configured, FollowsContract
  <2> DEFINE built == Built[contract].topics
  <2>1. /\ contract \in Valid /\ Len(built) <= n
        /\ \A i \in 1 .. n : topics[i].discovered <=> i > Len(built)
        /\ \A i \in 1 .. Len(built) : topics[i].spec = built[i].spec
    BY DEF TableInv, FollowsContract, Configured
  <2>2. Len(built) \in Nat /\ \A i \in 1 .. Len(built) : i \in 1 .. n
    BY <1>1, <2>1, BuiltEntries
  <2>3. contract' \in Valid /\ Built[contract'].topics = built
    BY <2>1
  <2> HIDE DEF built
  <2>4. /\ \A i \in 1 .. n : topics'[i].discovered <=> i > Len(built)
        /\ \A i \in 1 .. Len(built) : topics'[i].spec = built[i].spec
    BY <1>1, <2>1, <2>2
  <2> QED
    BY <1>1, <2>1, <2>3, <2>4, Zenon DEF FollowsContract
<1>6. DiscoveredTornDown'
  BY <1>1 DEF TableInv, DiscoveredTornDown, Quiet
<1> QED
  BY <1>2, <1>3, <1>4, <1>5, <1>6 DEF TableInv

(* A step that leaves the table as it is.                                  *)
LEMMA SameTableKeepsTable ==
  ASSUME TableInv, topics' = topics, topic_index' = topic_index, published' = published,
         contract' = contract, Configured' => Configured, Quiet' => Quiet
  PROVE  TableInv'
<1>1. GoodEntries'
  BY DEF TableInv, GoodEntries
<1>2. Alike(topics, topics')
  BY DEF Alike
<1> QED
  BY <1>1, <1>2, AlikeKeepsTable

LEMMA PublishKeepsTable ==
  ASSUME NodeTypes, TableInv, NEW name \in Names, Publish(name)
  PROVE  TableInv'
<1>1. /\ published \in [Names -> Nat] /\ published' = [published EXCEPT ![name] = @ + 1]
      /\ topics' = topics /\ topic_index' = topic_index /\ contract' = contract
      /\ phase' = phase /\ aborted' = aborted
  BY PublishedTyped DEF Publish, table
<1>2. published' \in [Names -> Nat] /\ \A n \in Names : published[n] <= published'[n]
  BY <1>1
<1>3. GoodEntries'
  <2>1. ASSUME NEW i \in 1 .. Len(topics) PROVE Good(topics[i], published')
    BY <1>1, <1>2, PublishedGood DEF TableInv, GoodEntries
  <2> QED
    BY <1>1, <2>1 DEF TableInv, GoodEntries
<1>4. Alike(topics, topics')
  BY <1>1 DEF Alike
<1>5. (Configured' => Configured) /\ (Quiet' => Quiet)
  BY <1>1 DEF Configured, Quiet
<1> QED
  BY <1>1, <1>3, <1>4, <1>5, AlikeKeepsTable

(* The topics are at the same places, with the same subscriptions.         *)
SameTopics ==
    Len(topics') = Len(topics) /\ \A i \in 1 .. Len(topics) : topics'[i].spec = topics[i].spec
SameMade == SameTopics /\ \A i \in 1 .. Len(topics) : topics'[i].made = topics[i].made

(* One entry is replaced by one like it.                                   *)
LEMMA ReplaceKeepsTable ==
  ASSUME TableInv, NEW p \in 1 .. Len(topics), NEW r, Good(r, published),
         r.spec = topics[p].spec, r.sub = topics[p].sub, r.discovered = topics[p].discovered,
         r.made = topics[p].made, topics' = [topics EXCEPT ![p] = r],
         topic_index' = topic_index, published' = published,
         contract' = contract, phase' = phase, aborted' = aborted
  PROVE  TableInv' /\ SameMade
<1>1. topics \in Seq(Entries) /\ r \in Entries
  BY DEF TableInv, GoodEntries, Good
<1>2. topics' \in Seq(Entries) /\ Len(topics') = Len(topics)
      /\ \A i \in 1 .. Len(topics) : topics'[i] = IF i = p THEN r ELSE topics[i]
  BY <1>1
<1>3. GoodEntries'
  BY <1>2 DEF TableInv, GoodEntries
<1>4. Alike(topics, topics')
  BY <1>2 DEF Alike
<1>5. (Configured' => Configured) /\ (Quiet' => Quiet)
  BY DEF Configured, Quiet
<1>6. SameMade
  BY <1>2 DEF SameMade, SameTopics
<1> QED
  BY <1>3, <1>4, <1>5, <1>6, AlikeKeepsTable

(* A callback uses the index it captured, which is its entry's.            *)
LEMMA DeliverableAt ==
  ASSUME NodeTypes, TableInv, NEW p \in 1 .. Len(topics), NEW sample, Deliverable(p, sample)
  PROVE  /\ topics[p].sub = p /\ Good(topics[p], published)
         /\ topics[p] \in Entries /\ Arriving(topics[p], sample)
<1>1. topics[p].sub = p /\ Good(topics[p], published) /\ topics[p] \in Entries
  BY DEF TableInv, GoodEntries, Good, CallbackFindsItsTopic, Deliverable
<1>2. topics[p].seen \in Nat /\ topics[p].spec.topic \in Names /\ published \in [Names -> Nat]
  BY <1>1, EntryFields, PublishedTyped
<1>3. sample \in topics[p].seen + 1 .. published[topics[p].spec.topic]
  BY DEF Deliverable
<1> QED
  BY <1>1, <1>2, <1>3 DEF Arriving

LEMMA OnMessageIdleKeepsTable ==
  ASSUME NodeTypes, TableInv, NEW p \in 1 .. Len(topics), NEW sample, OnMessageIdle(p, sample)
  PROVE  TableInv' /\ SameMade
<1> DEFINE e == topics[p]
           item == Item(e, sample)
           kept == KeepNewest(e.buffer, e.spec.qos.depth, item)
           b == IF Retains(e.spec) /\ <<e.spec.topic, sample>> \notin Oversize
                THEN kept ELSE e.buffer
           r == Delivered(e, b, sample)
<1>1. /\ topics' = [Retain(topics, e.sub, item) EXCEPT ![p].seen = sample]
      /\ topic_index' = topic_index /\ published' = published /\ contract' = contract
      /\ phase' = phase /\ aborted' = aborted
  BY DEF OnMessageIdle, Item
<1>2. e.sub = p /\ Good(e, published) /\ Arriving(e, sample) /\ e \in Entries
  BY DeliverableAt DEF OnMessageIdle
<1>3. published \in [Names -> Nat] /\ topics \in Seq(Entries) /\ p <= Len(topics)
  BY PublishedTyped DEF TableInv, GoodEntries
<1>4. Good(r, published)
  <2>1. CASE Retains(e.spec) /\ <<e.spec.topic, sample>> \notin Oversize
    <3>1. r = Delivered(e, kept, sample)
      BY <2>1
    <3>2. Good(Delivered(e, kept, sample), published)
      BY <1>2, <1>3, <2>1, RetainedGood
    <3> QED
      BY <3>1, <3>2
  <2>2. CASE ~(Retains(e.spec) /\ <<e.spec.topic, sample>> \notin Oversize)
    <3>1. r = Delivered(e, e.buffer, sample)
      BY <2>2
    <3>2. Good(Delivered(e, e.buffer, sample), published)
      BY <1>2, <1>3, <2>2, NotRetainedGood
    <3> QED
      BY <3>1, <3>2
  <2> QED
    BY <2>1, <2>2
<1>a. item.sample = sample
  BY DEF Item
<1> HIDE DEF kept, item
<1>5. topics' = [topics EXCEPT ![p] = r]
  <2> DEFINE u == Retain(topics, e.sub, item)
  <2>1. u = IF Retains(e.spec) /\ <<e.spec.topic, sample>> \notin Oversize
            THEN [topics EXCEPT ![p].buffer = kept] ELSE topics
    BY <1>2, <1>3, <1>a DEF Retain, kept
  <2>2. CASE Retains(e.spec) /\ <<e.spec.topic, sample>> \notin Oversize
    <3>1. u = [topics EXCEPT ![p].buffer = kept] /\ b = kept
      BY <2>1, <2>2
    <3>2. [[topics EXCEPT ![p].buffer = kept] EXCEPT ![p].seen = sample]
            = [topics EXCEPT ![p] = [e EXCEPT !.buffer = kept, !.seen = sample]]
      BY <1>2, <1>3 DEF Entries
    <3> QED
      BY <1>1, <3>1, <3>2 DEF Delivered
  <2>3. CASE ~(Retains(e.spec) /\ <<e.spec.topic, sample>> \notin Oversize)
    <3>1. u = topics /\ b = e.buffer
      BY <2>1, <2>3
    <3>2. [topics EXCEPT ![p].seen = sample]
            = [topics EXCEPT ![p] = [e EXCEPT !.buffer = e.buffer, !.seen = sample]]
      BY <1>2, <1>3 DEF Entries
    <3> QED
      BY <1>1, <3>1, <3>2 DEF Delivered
  <2> QED
    BY <2>2, <2>3
<1>6. r.spec = e.spec /\ r.sub = e.sub /\ r.discovered = e.discovered /\ r.made = e.made
  BY <1>2 DEF Delivered, Entries
<1> HIDE DEF r, b
<1> QED
  BY <1>1, <1>4, <1>5, <1>6, ReplaceKeepsTable

LEMMA OnMessageRecordingKeepsTable ==
  ASSUME NodeTypes, TableInv, NEW p \in 1 .. Len(topics), NEW sample,
         OnMessageRecording(p, sample)
  PROVE  TableInv' /\ SameMade
<1> DEFINE e == topics[p]
           r == [e EXCEPT !.seen = sample, !.live = sample]
<1>1. /\ topics' = [topics EXCEPT ![p].seen = sample, ![p].live = sample]
      /\ topic_index' = topic_index /\ published' = published /\ contract' = contract
      /\ phase' = phase /\ aborted' = aborted
  BY DEF OnMessageRecording
<1>2. Good(e, published) /\ e \in Entries /\ Arriving(e, sample)
  BY DeliverableAt DEF OnMessageRecording
<1>3. published \in [Names -> Nat] /\ topics \in Seq(Entries)
  BY PublishedTyped DEF TableInv, GoodEntries
<1>4. Good(r, published) /\ r.spec = e.spec /\ r.sub = e.sub /\ r.discovered = e.discovered
      /\ r.made = e.made
  BY <1>2, <1>3, RecordedGood
<1>5. topics' = [topics EXCEPT ![p] = r]
  <2>1. [topics EXCEPT ![p].seen = sample, ![p].live = sample] = [topics EXCEPT ![p] = r]
    BY <1>2, <1>3 DEF Entries
  <2> QED
    BY <1>1, <2>1
<1> HIDE DEF r
<1> QED
  BY <1>1, <1>4, <1>5, ReplaceKeepsTable

(* The index that is made for a table without repetitions is its inverse.  *)
Unrepeated(t) ==
    \A i, j \in 1 .. Len(t) : t[i].spec.topic = t[j].spec.topic => i = j

LEMMA IndexOfInverts ==
  ASSUME NEW t \in Seq(Entries), Unrepeated(t)
  PROVE  /\ IndexOf(t) \in [Names -> 0 .. Len(t)]
         /\ \A i \in 1 .. Len(t) : t[i].spec.topic \in Names /\ IndexOf(t)[t[i].spec.topic] = i
         /\ \A m \in Names : IndexOf(t)[m] # 0 =>
                IndexOf(t)[m] \in 1 .. Len(t) /\ t[IndexOf(t)[m]].spec.topic = m
<1> DEFINE at(m) == {i \in 1 .. Len(t) : t[i].spec.topic = m}
           pos(m) == IF at(m) = {} THEN 0 ELSE CHOOSE i \in at(m) : \A j \in at(m) : j <= i
<1>1. IndexOf(t) = [m \in Names |-> pos(m)]
  BY DEF IndexOf
<1>2. ASSUME NEW m \in Names, NEW i \in at(m) PROVE pos(m) = i
  <2>1. \A j \in at(m) : j = i
    BY DEF Unrepeated
  <2>2. \A j \in at(m) : j <= i
    BY <2>1
  <2>3. (CHOOSE k \in at(m) : \A j \in at(m) : j <= k) \in at(m)
    BY <2>2
  <2> QED
    BY <2>1, <2>3
<1>3. ASSUME NEW i \in 1 .. Len(t) PROVE t[i].spec.topic \in Names /\ i \in at(t[i].spec.topic)
  <2>1. t[i] \in Entries
    OBVIOUS
  <2> QED
    BY <2>1, EntryFields
<1>4. ASSUME NEW m \in Names PROVE pos(m) = 0 \/ pos(m) \in at(m)
  BY <1>2
<1>5. \A m \in Names : IndexOf(t)[m] = pos(m)
  BY <1>1
<1> HIDE DEF pos
<1>6. \A m \in Names : pos(m) \in 0 .. Len(t)
  BY <1>4
<1>7. IndexOf(t) \in [Names -> 0 .. Len(t)]
  BY <1>1, <1>6
<1>8. ASSUME NEW i \in 1 .. Len(t)
      PROVE  t[i].spec.topic \in Names /\ IndexOf(t)[t[i].spec.topic] = i
  BY <1>2, <1>3, <1>5
<1>9. ASSUME NEW m \in Names, IndexOf(t)[m] # 0
      PROVE  IndexOf(t)[m] \in 1 .. Len(t) /\ t[IndexOf(t)[m]].spec.topic = m
  BY <1>4, <1>5, <1>9
<1> QED
  BY <1>7, <1>8, <1>9

LEMMA IndexOfMatches ==
  ASSUME topics' \in Seq(Entries), Unrepeated(topics'), topic_index' = IndexOf(topics')
  PROVE  IndexTyped' /\ IndexMatchesTable'
<1> DEFINE t == topics'
<1>1. /\ IndexOf(t) \in [Names -> 0 .. Len(t)]
      /\ \A i \in 1 .. Len(t) : t[i].spec.topic \in Names /\ IndexOf(t)[t[i].spec.topic] = i
      /\ \A m \in Names : IndexOf(t)[m] # 0 =>
            IndexOf(t)[m] \in 1 .. Len(t) /\ t[IndexOf(t)[m]].spec.topic = m
  BY IndexOfInverts
<1> QED
  BY <1>1 DEF IndexTyped, IndexMatchesTable

(* The profile that is copied from a topic's first publisher.              *)
LEMMA CopiedSpec ==
  ASSUME NEW n \in Names
  PROVE  /\ Publishers[n] = << >> => CopyQos(n) = DefaultQos
         /\ Publishers[n] # << >> =>
              LET p == Publishers[n][1]
                  q == CopyQos(n)
              IN  /\ p \in Profiles /\ q \in QosSpecs /\ q.match = TRUE
                  /\ q.depth = p.depth /\ q.liveliness = p.liveliness /\ q.time = p.time
                  /\ q.reliable <=> p.reliability = "reliable"
                  /\ q.keep_last <=> p.history # "keep_all"
                  /\ q.transient_local <=> p.durability = "transient_local"
<1>1. CASE Publishers[n] = << >>
  BY <1>1 DEF CopyQos
<1>2. CASE Publishers[n] # << >>
  <2> DEFINE p == Publishers[n][1]
             rel == p.reliability = "reliable"
             last == p.history # "keep_all"
             local == p.durability = "transient_local"
             q == [depth |-> p.depth, reliable |-> rel, keep_last |-> last,
                   transient_local |-> local, liveliness |-> p.liveliness,
                   time |-> p.time, match |-> TRUE]
  <2>1. p \in Profiles
    <3>1. Publishers[n] \in Seq(Profiles)
      BY GraphAssumption
    <3> QED
      BY <1>2, <3>1
  <2>2. CopyQos(n) = q
    BY <1>2 DEF CopyQos
  <2> HIDE DEF p
  <2>3. p.depth \in Nat /\ p.liveliness \in Nat /\ p.time \in [Durations -> Seconds]
    BY <2>1, WidthAssumption DEF Profiles
  <2>4. rel \in BOOLEAN /\ last \in BOOLEAN /\ local \in BOOLEAN
    BY Zenon
  <2>5. /\ rel <=> p.reliability = "reliable"
        /\ last <=> p.history # "keep_all"
        /\ local <=> p.durability = "transient_local"
    OBVIOUS
  <2> HIDE DEF rel, last, local
  <2>6. q \in QosSpecs
    BY <2>3, <2>4 DEF QosSpecs
  <2>7. /\ q.match = TRUE /\ q.depth = p.depth /\ q.liveliness = p.liveliness
        /\ q.time = p.time /\ q.reliable = rel /\ q.keep_last = last
        /\ q.transient_local = local
    OBVIOUS
  <2> HIDE DEF q
  <2>8. /\ q.reliable <=> p.reliability = "reliable"
        /\ q.keep_last <=> p.history # "keep_all"
        /\ q.transient_local <=> p.durability = "transient_local"
    BY <2>5, <2>7, Zenon
  <2> QED
    BY <1>2, <2>1, <2>2, <2>6, <2>7, <2>8, Zenon DEF p
<1> QED
  BY <1>1, <1>2

(* A topic that is discovered can be subscribed to.                        *)
LEMMA DiscoveredSound ==
  ASSUME NEW n \in Names, Wanted(n)
  PROVE  /\ Sound(DiscoveredSpec(n), Names) /\ DiscoveredSpec(n).topic = n
         /\ DiscoveredSpec(n).strategy = "no_buffer"
<1>2. CopyQos(n) \in QosSpecs
  BY DefaultParsed, CopiedSpec
<1>3. Types[n][1] \in STRING
  <2>1. Types[n] \in Seq(STRING) /\ Types[n] # << >>
    BY GraphAssumption DEF Wanted
  <2> QED
    BY <2>1
<1>4. "no_buffer" \in Strategies
  BY DEF Strategies
<1> QED
  BY <1>2, <1>3, <1>4 DEF DiscoveredSpec, Sound, Specs

(* What is discovered is appended, and is new to the table.                *)
Extended(t) ==
    /\ t \in Seq(Entries)
    /\ Len(topics) <= Len(t)
    /\ \A i \in 1 .. Len(topics) : t[i] = topics[i]
    /\ \A i \in 1 .. Len(t) : i > Len(topics) =>
        /\ Good(t[i], published) /\ t[i].sub = i /\ t[i].discovered
        /\ topic_index[t[i].spec.topic] = 0
    /\ \A i, j \in 1 .. Len(t) :
        i > Len(topics) /\ j > Len(topics) /\ t[i].spec.topic = t[j].spec.topic => i = j

LEMMA DiscoverExtends ==
  ASSUME NodeTypes, TableInv, NEW graph \in Graphs
  PROVE  Extended(Discover(graph))
<1> DEFINE W == {n \in graph : Wanted(n)}
           found == Keep(GraphOrder, W)
           n == Len(topics)
           new == [k \in 1 .. Len(found) |-> Subscribed(Entry(DiscoveredSpec(found[k]), TRUE), n + k)]
           t == topics \o new
<1>1. topics \in Seq(Entries) /\ n \in Nat /\ published \in [Names -> Nat]
  BY PublishedTyped DEF TableInv, GoodEntries
<1>2. KeptOf(found, GraphOrder, W, Names, Len(GraphOrder))
  BY GraphAssumption, KeepDistinct
<1> HIDE DEF found
<1>3. /\ found \in Seq(Names) /\ Len(found) \in Nat
      /\ \A k \in 1 .. Len(found) : found[k] \in Names /\ Wanted(found[k])
      /\ \A k, l \in 1 .. Len(found) : found[k] = found[l] => k = l
  BY <1>2 DEF KeptOf
<1> HIDE DEF W
<1>4. ASSUME NEW k \in 1 .. Len(found)
      PROVE  /\ Good(new[k], published) /\ new[k] \in Entries /\ new[k].sub = n + k
             /\ new[k].discovered = TRUE /\ new[k].spec.topic = found[k]
  <2> DEFINE spec == DiscoveredSpec(found[k])
             e == Entry(spec, TRUE)
  <2>1. Sound(spec, Names) /\ spec.topic = found[k] /\ spec.strategy = "no_buffer"
    BY <1>3, DiscoveredSound
  <2>2. spec = DiscoveredSpec(spec.topic) /\ spec \in Specs(Names)
    BY <2>1 DEF Sound
  <2> HIDE DEF spec
  <2>3. Good(e, published)
    BY <1>1, <2>1, <2>2, EntryGood
  <2>4. e.spec = spec /\ e.buffer = << >> /\ e.discovered = TRUE
    BY DEF Entry
  <2> HIDE DEF e
  <2>5. e \in Entries /\ GoodSpec(e)
    BY <2>3 DEF Good
  <2>6. n + k \in Nat
    BY <1>1
  <2>7. LET r == Subscribed(e, n + k) IN
          Good(r, published) /\ r.sub = n + k /\ r.spec = e.spec /\ r.discovered = e.discovered
    BY <1>1, <2>4, <2>5, <2>6, SubscribedGood
  <2>8. new[k] = Subscribed(e, n + k)
    BY DEF e, spec
  <2> QED
    BY <2>1, <2>4, <2>7, <2>8 DEF Good
<1>5. new \in Seq(Entries) /\ Len(new) = Len(found)
  <2>1. new = [k \in 1 .. Len(found) |-> new[k]]
    OBVIOUS
  <2>2. Len(found) \in Nat /\ \A k \in 1 .. Len(found) : new[k] \in Entries
    BY <1>3, <1>4
  <2> HIDE DEF new
  <2> QED
    BY <2>1, <2>2
<1>6. Discover(graph) = t
  BY DEF Discover, found, W
<1> HIDE DEF new
<1>7. t \in Seq(Entries) /\ Len(t) = n + Len(found)
      /\ \A i \in 1 .. n + Len(found) : t[i] = IF i <= n THEN topics[i] ELSE new[i - n]
  <2>1. t \in Seq(Entries) /\ Len(t) = Len(topics) + Len(new)
    BY <1>1, <1>5, ConcatProperties
  <2>2. \A i \in 1 .. Len(topics) + Len(new) :
          t[i] = IF i <= Len(topics) THEN topics[i] ELSE new[i - Len(topics)]
    BY <1>1, <1>5, ConcatProperties
  <2> QED
    BY <2>1, <2>2, <1>5
<1> HIDE DEF t
<1>8. \A i \in 1 .. n : t[i] = topics[i]
  BY <1>1, <1>3, <1>7
<1>9. ASSUME NEW i \in 1 .. Len(t), i > n
      PROVE  i - n \in 1 .. Len(found) /\ t[i] = new[i - n] /\ n + (i - n) = i
  BY <1>1, <1>3, <1>7, <1>9
<1>10. ASSUME NEW i \in 1 .. Len(t), i > n
       PROVE  /\ Good(t[i], published) /\ t[i].sub = i /\ t[i].discovered
              /\ topic_index[t[i].spec.topic] = 0 /\ t[i].spec.topic = found[i - n]
  <2>1. i - n \in 1 .. Len(found) /\ t[i] = new[i - n] /\ n + (i - n) = i
    BY <1>9, <1>10
  <2>2. topic_index[found[i - n]] = 0
    BY <2>1, <1>3 DEF Wanted
  <2> QED
    BY <2>1, <2>2, <1>4
<1>11. ASSUME NEW i \in 1 .. Len(t), NEW j \in 1 .. Len(t), i > n, j > n,
              t[i].spec.topic = t[j].spec.topic
       PROVE  i = j
  <2>1. found[i - n] = found[j - n] /\ i - n \in 1 .. Len(found) /\ j - n \in 1 .. Len(found)
    BY <1>9, <1>10, <1>11
  <2>2. i - n = j - n
    BY <2>1, <1>3
  <2> QED
    BY <2>2, <1>1
<1>12. n <= Len(t)
  BY <1>1, <1>3, <1>7
<1>13. Extended(t)
  BY <1>7, <1>8, <1>10, <1>11, <1>12 DEF Extended
<1> QED
  BY <1>6, <1>13

LEMMA NothingExtends ==
  ASSUME TableInv
  PROVE  Extended(topics)
<1>1. topics \in Seq(Entries) /\ Len(topics) \in Nat
  BY DEF TableInv, GoodEntries
<1> QED
  BY <1>1 DEF Extended

(* prepare_resubscribes: every entry has a good subscription of its own.   *)
Grown(u) ==
    /\ u \in Seq(Entries)
    /\ Len(topics) <= Len(u)
    /\ \A i \in 1 .. Len(u) : Good(u[i], published) /\ u[i].sub = i
    /\ \A i \in 1 .. Len(topics) :
        u[i].spec = topics[i].spec /\ u[i].discovered = topics[i].discovered
    /\ \A i \in 1 .. Len(u) : i > Len(topics) =>
        u[i].discovered /\ topic_index[u[i].spec.topic] = 0
    /\ \A i, j \in 1 .. Len(u) :
        i > Len(topics) /\ j > Len(topics) /\ u[i].spec.topic = u[j].spec.topic => i = j
    /\ \A i \in 1 .. Len(u) : Resubscribes(u[i]) => u[i].made = episode + 1

LEMMA PreparedGrows ==
  ASSUME NodeTypes, TableInv, phase = "ready", NEW graph \in Graphs
  PROVE  Grown(Prepared(graph))
<1> DEFINE t == IF RecordAll THEN Discover(graph) ELSE topics
           row(i) == IF Resubscribes(t[i]) THEN Renew(t[i], i) ELSE t[i]
           u == [i \in 1 .. Len(t) |-> row(i)]
           n == Len(topics)
<1>1. Extended(t)
  BY DiscoverExtends, NothingExtends
<1>2. Prepared(graph) = u
  BY DEF Prepared
<1> HIDE DEF t
<1>3. published \in [Names -> Nat] /\ t \in Seq(Entries) /\ n \in Nat /\ Len(t) \in Nat /\ n <= Len(t)
      /\ episode \in Nat
  BY <1>1, PublishedTyped DEF Extended, TableInv, GoodEntries, NodeTypes
<1>4. ASSUME NEW i \in 1 .. Len(t) PROVE Good(t[i], published) /\ t[i].sub = i
  <2>1. CASE i > n
    BY <1>1, <2>1 DEF Extended
  <2>2. CASE i <= n
    <3>1. i \in 1 .. n
      BY <1>3, <2>2
    <3>2. Good(topics[i], published) /\ topics[i].sub = i
      BY <3>1 DEF TableInv, GoodEntries, CallbackFindsItsTopic
    <3> QED
      BY <1>1, <3>1, <3>2 DEF Extended
  <2> QED
    BY <1>3, <2>1, <2>2
<1>5. ASSUME NEW i \in 1 .. Len(t)
      PROVE  /\ Good(row(i), published) /\ row(i) \in Entries /\ row(i).sub = i
             /\ row(i).spec = t[i].spec /\ row(i).discovered = t[i].discovered
             /\ Resubscribes(row(i)) => row(i).made = episode + 1
  <2>1. i \in Nat /\ Good(t[i], published) /\ t[i].sub = i
    BY <1>4
  <2>2. /\ Good(Renew(t[i], i), published) /\ Renew(t[i], i).sub = i
        /\ Renew(t[i], i).spec = t[i].spec /\ Renew(t[i], i).discovered = t[i].discovered
        /\ Renew(t[i], i).made = episode + 1
    BY <1>3, <2>1, RenewGood
  <2> QED
    BY <2>1, <2>2 DEF Good, Resubscribes
<1> HIDE DEF row
<1>6. u \in Seq(Entries) /\ Len(u) = Len(t) /\ \A i \in 1 .. Len(t) : u[i] = row(i)
  BY <1>3, <1>5
<1> HIDE DEF u
<1>7. \A i \in 1 .. Len(t) : /\ Good(u[i], published) /\ u[i].sub = i
                             /\ u[i].spec = t[i].spec /\ u[i].discovered = t[i].discovered
  BY <1>5, <1>6
<1>8. ASSUME NEW i \in 1 .. n
      PROVE  u[i].spec = topics[i].spec /\ u[i].discovered = topics[i].discovered
  <2>1. i \in 1 .. Len(t) /\ t[i] = topics[i]
    BY <1>1, <1>3 DEF Extended
  <2> QED
    BY <2>1, <1>7
<1>9. ASSUME NEW i \in 1 .. Len(t), i > n
      PROVE  u[i].discovered /\ topic_index[u[i].spec.topic] = 0
  <2>1. t[i].discovered /\ topic_index[t[i].spec.topic] = 0
    BY <1>1, <1>9 DEF Extended
  <2>2. u[i].spec = t[i].spec /\ u[i].discovered = t[i].discovered
    BY <1>7
  <2> QED
    BY <2>1, <2>2, Zenon
<1>10. ASSUME NEW i \in 1 .. Len(t), NEW j \in 1 .. Len(t), i > n, j > n,
              u[i].spec.topic = u[j].spec.topic
       PROVE  i = j
  <2>1. t[i].spec.topic = t[j].spec.topic
    BY <1>7, <1>10
  <2> QED
    BY <1>1, <1>10, <2>1 DEF Extended
<1>11. Grown(u)
  <2>1. \A i \in 1 .. Len(t) : Resubscribes(u[i]) => u[i].made = episode + 1
    BY <1>5, <1>6
  <2> QED
    BY <1>3, <1>6, <1>7, <1>8, <1>9, <1>10, <2>1 DEF Grown
<1> QED
  BY <1>2, <1>11

LEMMA GrownUnrepeated ==
  ASSUME TableInv, NEW u, Grown(u)
  PROVE  /\ Unrepeated(u)
         /\ \A m \in Names : topic_index[m] # 0 => IndexOf(u)[m] = topic_index[m]
<1> DEFINE n == Len(topics)
<1>1. u \in Seq(Entries) /\ n \in Nat /\ Len(u) \in Nat /\ n <= Len(u)
      /\ topic_index \in [Names -> 0 .. n]
  BY DEF Grown, TableInv, GoodEntries, IndexTyped
<1>2. ASSUME NEW i \in 1 .. n
      PROVE  topic_index[u[i].spec.topic] = i /\ i # 0
  BY DEF Grown, TableInv, IndexMatchesTable
<1>3. Unrepeated(u)
  <2> SUFFICES ASSUME NEW i \in 1 .. Len(u), NEW j \in 1 .. Len(u),
                      u[i].spec.topic = u[j].spec.topic
               PROVE  i = j
    BY DEF Unrepeated
  <2>1. CASE i > n /\ j > n
    BY <2>1 DEF Grown
  <2>2. CASE i <= n /\ j <= n
    <3>1. i \in 1 .. n /\ j \in 1 .. n
      BY <1>1, <2>2
    <3> QED
      BY <1>2, <3>1
  <2>3. CASE i <= n /\ j > n
    <3>1. i \in 1 .. n /\ topic_index[u[j].spec.topic] = 0
      BY <1>1, <2>3 DEF Grown
    <3> QED
      BY <1>2, <3>1
  <2>4. CASE i > n /\ j <= n
    <3>1. j \in 1 .. n /\ topic_index[u[i].spec.topic] = 0
      BY <1>1, <2>4 DEF Grown
    <3> QED
      BY <1>2, <3>1
  <2> QED
    BY <1>1, <2>1, <2>2, <2>3, <2>4
<1>4. ASSUME NEW m \in Names, topic_index[m] # 0 PROVE IndexOf(u)[m] = topic_index[m]
  <2> DEFINE i == topic_index[m]
  <2>1. i \in 1 .. n /\ topics[i].spec.topic = m
    BY <1>1, <1>4 DEF TableInv, IndexMatchesTable
  <2> HIDE DEF i
  <2>2. i \in 1 .. Len(u) /\ u[i].spec.topic = m
    BY <1>1, <2>1 DEF Grown
  <2>3. IndexOf(u)[u[i].spec.topic] = i
    BY <1>1, <1>3, <2>2, IndexOfInverts
  <2> QED
    BY <2>2, <2>3 DEF i
<1> QED
  BY <1>3, <1>4

(* start_recording has prepared the table: it is in phase pending or       *)
(* recording now, or the start has failed.                                 *)
LEMMA PrepareKeepsTable ==
  ASSUME NodeTypes, TableInv, NEW graph \in Graphs, Prepare(graph),
         published' = published, contract' = contract, ~Quiet'
  PROVE  TableInv' /\ MadeInv'
<1> DEFINE u == topics'
           n == Len(topics)
           index == [m \in Names |-> IF topic_index[m] # 0 THEN topic_index[m] ELSE IndexOf(u)[m]]
<1>1. Grown(u) /\ phase = "ready"
  BY PreparedGrows DEF Prepare
<1>2. Unrepeated(u) /\ \A m \in Names : topic_index[m] # 0 => IndexOf(u)[m] = topic_index[m]
  BY <1>1, GrownUnrepeated
<1>3. u \in Seq(Entries) /\ n \in Nat /\ Len(u) \in Nat /\ n <= Len(u)
  BY <1>1 DEF Grown, TableInv, GoodEntries
<1>4. topic_index' = IndexOf(u)
  <2>1. topic_index' = index
    BY DEF Prepare
  <2>2. \A m \in Names : index[m] = IndexOf(u)[m]
    BY <1>2
  <2>3. IndexOf(u) \in [Names -> 0 .. Len(u)]
    BY <1>2, <1>3, IndexOfInverts
  <2>4. IndexOf(u) = [m \in Names |-> IndexOf(u)[m]]
    BY <2>3
  <2>5. index = [m \in Names |-> index[m]]
    OBVIOUS
  <2> HIDE DEF index
  <2> QED
    BY <2>1, <2>2, <2>4, <2>5, Zenon
<1>5. IndexTyped' /\ IndexMatchesTable'
  BY <1>2, <1>3, <1>4, IndexOfMatches
<1>6. GoodEntries'
  BY <1>1 DEF Grown, GoodEntries
<1> DEFINE built == Built[contract].topics
<1>7. /\ contract \in Valid /\ Len(built) <= n
      /\ \A i \in 1 .. n : topics[i].discovered <=> i > Len(built)
      /\ \A i \in 1 .. Len(built) : topics[i].spec = built[i].spec
  BY <1>1 DEF TableInv, FollowsContract
<1>8. Len(built) \in Nat
  BY <1>7, BuiltEntries
<1>9. contract' \in Valid /\ Built[contract'].topics = built
  BY <1>7
<1> HIDE DEF built, u
<1>10. ASSUME NEW i \in 1 .. Len(u) PROVE u[i].discovered <=> i > Len(built)
  <2>1. CASE i > n
    <3>1. u[i].discovered /\ i > Len(built)
      BY <1>1, <1>3, <1>7, <1>8, <2>1 DEF Grown
    <3> QED
      BY <3>1, Zenon
  <2>2. CASE i <= n
    <3>1. i \in 1 .. n
      BY <1>3, <2>2
    <3>2. u[i].discovered = topics[i].discovered
      BY <1>1, <3>1 DEF Grown
    <3> QED
      BY <1>7, <3>1, <3>2, Zenon
  <2> QED
    BY <1>3, <2>1, <2>2
<1>11. ASSUME NEW i \in 1 .. Len(built) PROVE u[i].spec = built[i].spec
  <2>1. i \in 1 .. n
    BY <1>3, <1>7, <1>8
  <2> QED
    BY <1>1, <1>7, <2>1 DEF Grown
<1>12. FollowsContract'
  <2>1. Len(built) <= Len(u)
    BY <1>3, <1>7, <1>8
  <2> QED
    BY <1>9, <1>10, <1>11, <2>1, Zenon DEF FollowsContract, u
<1>13. CallbackFindsItsTopic'
  <2>1. \A i \in 1 .. Len(u) : u[i].sub = i
    BY <1>1 DEF Grown
  <2>2. ASSUME NEW i \in 1 .. Len(u), NEW j \in 1 .. Len(u), i < j, u[i].discovered
        PROVE  u[j].discovered
    <3>1. j > Len(built)
      BY <1>8, <1>10, <2>2
    <3> QED
      BY <1>10, <3>1
  <2> QED
    BY <2>1, <2>2 DEF CallbackFindsItsTopic, u
<1>14. DiscoveredTornDown'
  BY DEF DiscoveredTornDown, Quiet
<1>15. MadeInv'
  BY <1>1 DEF Grown, MadeInv, Prepare, u
<1> QED
  BY <1>5, <1>6, <1>12, <1>13, <1>14, <1>15 DEF TableInv

(* destroy_discovered_subscriptions: what is cut is the table's end.       *)
LEMMA CutBackKeepsTable ==
  ASSUME NodeTypes, TableInv, phase = "recording", CutBack,
         published' = published, contract' = contract
  PROVE  TableInv'
<1> DEFINE built == Built[contract].topics
           m == Len(built)
           n == Len(topics)
           u == topics'
<1>1. /\ contract \in Valid /\ m <= n
      /\ \A i \in 1 .. n : topics[i].discovered <=> i > m
      /\ \A i \in 1 .. m : topics[i].spec = built[i].spec
  BY DEF TableInv, FollowsContract
<1>2. m \in Nat /\ n \in Nat /\ topics \in Seq(Entries) /\ m \in 0 .. n
  <2>1. m \in Nat /\ n \in Nat /\ topics \in Seq(Entries)
    BY <1>1, BuiltEntries DEF TableInv, GoodEntries
  <2> QED
    BY <1>1, <2>1
<1>3. contract' \in Valid /\ Built[contract'].topics = built
  BY <1>1
<1> HIDE DEF built, m
<1>4. ASSUME NEW i \in 1 .. n PROVE topics[i] \in Listed <=> i <= m
  <2>1. topics[i] \in ToSet(topics)
    BY <1>2 DEF ToSet
  <2>2. topics[i] \in Listed <=> ~topics[i].discovered
    BY <2>1 DEF Listed
  <2>3. ~(i > m) <=> i <= m
    BY <1>2
  <2> QED
    BY <1>1, <2>2, <2>3, Zenon
<1>5. FrontOf(u, topics, m, Entries)
  <2>1. u = Keep(topics, Listed)
    BY DEF CutBack
  <2> QED
    BY <1>2, <1>4, <2>1, KeepFront
<1>6. u \in Seq(Entries) /\ Len(u) = m /\ \A i \in 1 .. m : u[i] = topics[i] /\ i \in 1 .. n
  BY <1>1, <1>2, <1>5 DEF FrontOf
<1>7. Unrepeated(u)
  BY <1>6 DEF Unrepeated, TableInv, IndexMatchesTable
<1>8. IndexTyped' /\ IndexMatchesTable'
  BY <1>6, <1>7, IndexOfMatches DEF CutBack
<1>9. GoodEntries'
  BY <1>6 DEF TableInv, GoodEntries
<1>10. \A i \in 1 .. m : ~u[i].discovered /\ u[i].sub = i /\ u[i].spec = built[i].spec /\ ~(i > m)
  BY <1>1, <1>2, <1>6 DEF TableInv, CallbackFindsItsTopic
<1> HIDE DEF u
<1>11. CallbackFindsItsTopic' /\ DiscoveredTornDown'
  BY <1>6, <1>10 DEF CallbackFindsItsTopic, DiscoveredTornDown, u
<1>12. FollowsContract'
  <2>1. m <= Len(u) /\ Len(built) = m
    BY <1>2, <1>6 DEF m
  <2> QED
    BY <1>3, <1>6, <1>10, <2>1 DEF FollowsContract, u
<1> QED
  BY <1>8, <1>9, <1>11, <1>12 DEF TableInv

-----------------------------------------------------------------------------
(* The steps, by what they do to the queue.                                *)

(* Nothing is in the queue that was not there before.                      *)
Dequeued ==
    /\ queued' \in Seq(Message)
    /\ Len(queued') <= Len(queued)
    /\ \A k \in 1 .. Len(queued') : \E j \in 1 .. Len(queued) : queued'[k] = queued[j]

LEMMA SameDequeued ==
  ASSUME QueueInv, queued' = queued
  PROVE  Dequeued
<1>1. queued \in Seq(Message) /\ Len(queued) \in Nat
  BY DEF QueueInv
<1> QED
  BY <1>1 DEF Dequeued

LEMMA TailDequeued ==
  ASSUME QueueInv, queued # << >>, queued' = Tail(queued)
  PROVE  Dequeued /\ Head(queued) = queued[1] /\ 1 \in 1 .. Len(queued)
<1>1. queued \in Seq(Message)
  BY DEF QueueInv
<1>2. queued' \in Seq(Message) /\ Len(queued') = Len(queued) - 1
      /\ \A k \in 1 .. Len(queued') : queued'[k] = queued[k + 1]
  BY <1>1, HeadTailProperties
<1>3. Len(queued) \in Nat /\ Len(queued) # 0 /\ Head(queued) = queued[1]
  BY <1>1
<1>4. ASSUME NEW k \in 1 .. Len(queued') PROVE \E j \in 1 .. Len(queued) : queued'[k] = queued[j]
  <2>1. k + 1 \in 1 .. Len(queued) /\ queued'[k] = queued[k + 1]
    BY <1>2, <1>3
  <2> QED
    BY <2>1
<1> QED
  BY <1>2, <1>3, <1>4 DEF Dequeued

LEMMA DrainedDequeued ==
  ASSUME QueueInv, Drained
  PROVE  Dequeued
<1>1. queued \in Seq(Message) /\ Len(queued) \in Nat
  BY DEF QueueInv
<1>2. PICK n \in 0 .. Len(queued) : queued' = SubSeq(queued, 1, n)
  BY DEF Drained
<1>3. n \in Int /\ 1 \in Int /\ \A k \in 1 .. n : k \in 1 .. Len(queued) /\ queued[k] \in Message
  BY <1>1
<1>4. queued' \in Seq(Message) /\ Len(queued') = (IF 1 <= n THEN n - 1 + 1 ELSE 0)
      /\ \A k \in 1 .. n - 1 + 1 : queued'[k] = queued[1 + k - 1]
  BY <1>2, <1>3, SubSeqProperties
<1>5. Len(queued') = n
  BY <1>4
<1>6. ASSUME NEW k \in 1 .. n PROVE k \in 1 .. Len(queued) /\ queued'[k] = queued[k]
  <2>1. k \in 1 .. n - 1 + 1 /\ 1 + k - 1 = k
    OBVIOUS
  <2> QED
    BY <2>1, <1>3, <1>4
<1> QED
  BY <1>1, <1>4, <1>5, <1>6 DEF Dequeued

(* The episode goes on.                                                    *)
LEMMA QueueGoesOn ==
  ASSUME TableInv, QueueInv, Dequeued, SameTopics, phase' = phase, episode' = episode
  PROVE  QueueInv'
<1>1. queued \in Seq(Message) /\ Len(queued) \in Nat /\ queued' \in Seq(Message)
      /\ Len(queued') \in Nat /\ Len(queued') <= Len(queued) /\ Len(queued) <= MaxQueued
      /\ MaxQueued \in Nat
  BY BoundsAssumption DEF QueueInv, Dequeued
<1>2. ASSUME NEW k \in 1 .. Len(queued')
      PROVE  LET m == queued'[k] IN
                /\ m.ep <= episode'
                /\ phase' = "pending" => m.ep < episode'
                /\ phase' = "recording" /\ m.ep = episode' =>
                    m.index <= Len(topics') /\ topics'[m.index].spec.topic = m.of
  <2> DEFINE m == queued'[k]
  <2>1. PICK j \in 1 .. Len(queued) : m = queued[j]
    BY DEF Dequeued
  <2>2. m \in Message
    BY <1>1
  <2>3. m.ep <= episode /\ (phase = "pending" => m.ep < episode)
    BY <2>1 DEF QueueInv, QueuedInv
  <2>4. ASSUME phase' = "recording", m.ep = episode'
        PROVE  m.index <= Len(topics') /\ topics'[m.index].spec.topic = m.of
    <3>1. Current(m)
      BY <2>4 DEF Current
    <3>2. m.index <= Len(topics) /\ topics[m.index].spec.topic = m.of
      BY <2>1, <3>1 DEF QueueInv, QueuedInv, LookUp
    <3>3. m.index \in 1 .. Len(topics)
      BY <2>2, <3>2 DEF Message, TableInv, GoodEntries
    <3>4. topics'[m.index].spec = topics[m.index].spec /\ m.index <= Len(topics')
      BY <3>2, <3>3 DEF SameTopics
    <3> QED
      BY <3>2, <3>4
  <2> QED
    BY <2>3, <2>4
<1>3. QueuedInv'
  BY <1>2 DEF QueueInv, QueuedInv, Current, LookUp
<1> QED
  BY <1>1, <1>3 DEF QueueInv

(* No episode is being recorded any more, or a new one is: what is under   *)
(* way is of an earlier one.                                               *)
LEMMA QueueLeftOver ==
  ASSUME QueueInv, Dequeued, episode \in Nat, episode' \in Nat, episode <= episode',
         phase' \in {"pending", "recording"} => episode < episode' \/ phase = "pending"
  PROVE  QueueInv'
<1>1. queued \in Seq(Message) /\ Len(queued) \in Nat /\ queued' \in Seq(Message)
      /\ Len(queued') \in Nat /\ Len(queued') <= Len(queued) /\ Len(queued) <= MaxQueued
      /\ MaxQueued \in Nat
  BY BoundsAssumption DEF QueueInv, Dequeued
<1>2. ASSUME NEW k \in 1 .. Len(queued')
      PROVE  LET m == queued'[k] IN
                /\ m.ep <= episode'
                /\ phase' = "pending" => m.ep < episode'
                /\ ~(phase' = "recording" /\ m.ep = episode')
  <2> DEFINE m == queued'[k]
  <2>1. PICK j \in 1 .. Len(queued) : m = queued[j]
    BY DEF Dequeued
  <2>2. m.ep \in Nat
    <3>1. m \in Message
      BY <1>1
    <3> QED
      BY <3>1, BoundsAssumption DEF Message, Episodes
  <2>3. m.ep <= episode /\ (phase = "pending" => m.ep < episode)
    BY <2>1 DEF QueueInv, QueuedInv
  <2>4. phase' \in {"pending", "recording"} => m.ep < episode'
    BY <2>2, <2>3
  <2> QED
    BY <2>2, <2>3, <2>4
<1>3. phase' \in {"pending", "recording"} => episode' > 0
  BY DEF QueueInv, QueuedInv
<1>4. QueuedInv'
  BY <1>2, <1>3 DEF QueuedInv, Current
<1> QED
  BY <1>1, <1>4 DEF QueueInv

LEMMA OnMessageQueues ==
  ASSUME NodeTypes, TableInv, QueueInv, NEW p \in 1 .. Len(topics), NEW sample,
         OnMessageRecording(p, sample), SameTopics
  PROVE  QueueInv'
<1> DEFINE e == topics[p]
           m == [of |-> e.spec.topic, index |-> e.sub, ep |-> episode]
<1>1. e.sub = p /\ Good(e, published) /\ e \in Entries
  BY DeliverableAt DEF OnMessageRecording
<1>2. /\ queued' = IF Len(queued) < MaxQueued THEN Append(queued, m) ELSE queued
      /\ phase = "recording" /\ phase' = phase /\ episode' = episode
  BY DEF OnMessageRecording
<1>3. topics \in Seq(Entries)
  BY DEF TableInv, GoodEntries
<1>7. CASE Len(queued) >= MaxQueued
  <2>1. queued' = queued
    BY <1>2, <1>7, BoundsAssumption DEF QueueInv
  <2>2. Dequeued
    BY <2>1, SameDequeued
  <2> QED
    BY <1>2, <2>2, QueueGoesOn
<1>8. CASE Len(queued) < MaxQueued
  <2>1. m \in Message
    <3>1. e.spec.topic \in Names /\ p \in Nat \ {0}
      BY <1>1, EntryFields
    <3>2. episode \in Episodes
      BY <1>2 DEF NodeTypes, QueueInv, QueuedInv, Episodes
    <3> QED
      BY <1>1, <3>1, <3>2 DEF Message
  <2>2. m.index = p /\ m.of = topics[p].spec.topic /\ m.ep = episode
    BY <1>1
  <2> HIDE DEF m
  <2>3. queued \in Seq(Message) /\ Len(queued) \in Nat
    BY DEF QueueInv
  <2>4. queued' = Append(queued, m)
    BY <1>2, <1>8
  <2>5. queued' \in Seq(Message) /\ Len(queued') = Len(queued) + 1
        /\ (\A k \in 1 .. Len(queued) : queued'[k] = queued[k])
        /\ queued'[Len(queued) + 1] = m
    BY <2>1, <2>3, <2>4, AppendProperties
  <2>6. topics'[p].spec = topics[p].spec /\ p <= Len(topics') /\ episode \in Nat
    BY <1>3 DEF SameTopics, NodeTypes
  <2>7. ASSUME NEW k \in 1 .. Len(queued')
        PROVE  LET q == queued'[k] IN
                  /\ q.ep <= episode
                  /\ q.ep = episode =>
                        q.index <= Len(topics') /\ topics'[q.index].spec.topic = q.of
    <3>1. CASE k = Len(queued) + 1
      BY <3>1, <2>2, <2>5, <2>6
    <3>2. CASE k # Len(queued) + 1
      <4> DEFINE q == queued'[k]
      <4>1. k \in 1 .. Len(queued) /\ q = queued[k] /\ q \in Message
        BY <3>2, <2>3, <2>5
      <4>2. q.ep <= episode
            /\ (q.ep = episode => q.index <= Len(topics) /\ topics[q.index].spec.topic = q.of)
        BY <4>1, <1>2 DEF QueueInv, QueuedInv, LookUp, Current
      <4>4. ASSUME q.ep = episode
            PROVE  q.index <= Len(topics') /\ topics'[q.index].spec.topic = q.of
        <5>1. q.index \in 1 .. Len(topics)
          BY <4>1, <4>2, <4>4, <1>3 DEF Message
        <5>2. topics'[q.index].spec = topics[q.index].spec /\ Len(topics') = Len(topics)
          BY <5>1 DEF SameTopics
        <5> QED
          BY <5>1, <5>2, <4>2, <4>4, <1>3
      <4> QED
        BY <4>2, <4>4
    <3> QED
      BY <3>1, <3>2
  <2>8. QueuedInv'
    BY <1>2, <2>7 DEF QueueInv, QueuedInv, Current, LookUp
  <2>9. Len(queued') <= MaxQueued
    BY <1>8, <2>3, <2>5, BoundsAssumption
  <2> QED
    BY <2>5, <2>8, <2>9 DEF QueueInv
<1> QED
  BY <1>7, <1>8, BoundsAssumption DEF QueueInv

-----------------------------------------------------------------------------
(* The steps, by what they do to the bag.                                  *)

LEMMA CloseWriterKeepsBag ==
  ASSUME CloseWriter
  PROVE  BagInv'
<1>1. bag' = BlankBag /\ BlankBag.head = << >> /\ BlankBag.live = {}
  BY DEF CloseWriter, BlankBag
<1>2. BlankBag \in Bags
  <2>1. << >> \in Seq(Names) /\ << >> \in Seq([of : Names, sample : Nat, via : Nat])
    OBVIOUS
  <2> QED
    BY <2>1 DEF BlankBag, Bags
<1> QED
  BY <1>1, <1>2 DEF BagInv, HeadInv, ResubscribedIsFresh, WrittenUnderOwnName

LEMMA BagLeftOver ==
  ASSUME BagInv, bag' = bag, phase' # "recording"
  PROVE  BagInv'
BY DEF BagInv, HeadInv, ResubscribedIsFresh, WrittenUnderOwnName

(* What was written at the start of an episode stays right.                *)
LEMMA HeadStays ==
  ASSUME TableInv, BagInv, bag'.head = bag.head, phase' = phase, topic_index' = topic_index,
         episode' = episode, SameTopics
  PROVE  HeadInv' /\ ResubscribedIsFresh'
<1>1. HeadInv'
  BY DEF BagInv, HeadInv
<1>2. ASSUME phase = "recording", NEW k \in 1 .. Len(bag.head)
      PROVE  LET h == bag.head[k]
                 t == topics'[topic_index[h.of]]
             IN  Resubscribes(t) => h.via = episode
  <2> DEFINE h == bag.head[k]
             i == topic_index[h.of]
  <2>1. h.of \in Names /\ i # 0
    <3>1. bag.head \in Seq([of : Names, sample : Nat, via : Nat])
      BY DEF BagInv, Bags
    <3>2. h \in [of : Names, sample : Nat, via : Nat]
      <4> DEFINE T == [of : Names, sample : Nat, via : Nat]
      <4>1. bag.head \in Seq(T)
        BY <3>1
      <4> HIDE DEF T
      <4>2. h \in T
        BY <4>1
      <4> QED
        BY <4>2 DEF T
    <3> QED
      BY <1>2, <3>2 DEF BagInv, HeadInv
  <2>2. i \in 1 .. Len(topics)
    BY <2>1 DEF TableInv, IndexTyped, GoodEntries
  <2>3. topics'[i].spec = topics[i].spec
    BY <2>2 DEF SameTopics
  <2>4. Resubscribes(topics[i]) => h.via = episode
    BY <1>2 DEF BagInv, ResubscribedIsFresh
  <2> QED
    BY <2>3, <2>4 DEF Resubscribes
<1>3. ResubscribedIsFresh'
  BY <1>2 DEF ResubscribedIsFresh
<1> QED
  BY <1>1, <1>3

LEMMA BagGoesOn ==
  ASSUME TableInv, BagInv, bag' = bag, phase' = phase, topic_index' = topic_index,
         episode' = episode, SameTopics
  PROVE  BagInv'
<1>1. HeadInv' /\ ResubscribedIsFresh'
  BY HeadStays
<1> QED
  BY <1>1 DEF BagInv, WrittenUnderOwnName

LEMMA WriteQueuedKeepsBag ==
  ASSUME TableInv, QueueInv, BagInv, WriteQueued
  PROVE  BagInv'
<1> DEFINE m == Head(queued)
           w == [as |-> LookUp(m), of |-> m.of, own |-> Current(m)]
<1>1. /\ queued # << >> /\ queued' = Tail(queued)
      /\ bag' = IF m.index <= Len(topics) /\ LookUp(m) \in ToSet(bag.registered)
                THEN [bag EXCEPT !.live = @ \cup {w}] ELSE bag
      /\ phase' = phase /\ topics' = topics /\ topic_index' = topic_index
      /\ episode' = episode
  BY DEF WriteQueued, table
<1>2. SameTopics
  BY <1>1 DEF SameTopics
<1>3. CASE ~(m.index <= Len(topics) /\ LookUp(m) \in ToSet(bag.registered))
  <2>1. bag' = bag
    BY <1>1, <1>3
  <2> QED
    BY <1>1, <1>2, <2>1, BagGoesOn
<1>4. CASE m.index <= Len(topics) /\ LookUp(m) \in ToSet(bag.registered)
  <2>1. m = queued[1] /\ 1 \in 1 .. Len(queued) /\ m \in Message
    <3>1. m = queued[1] /\ 1 \in 1 .. Len(queued)
      BY <1>1, TailDequeued
    <3> QED
      BY <3>1 DEF QueueInv
  <2>2. Current(m) => LookUp(m) = m.of
    BY <2>1 DEF QueueInv, QueuedInv
  <2>3. LookUp(m) \in Names
    <3>1. m.index \in 1 .. Len(topics)
      BY <1>4, <2>1 DEF Message, TableInv, GoodEntries
    <3>2. topics[m.index] \in Entries
      BY <3>1 DEF TableInv, GoodEntries
    <3> QED
      BY <3>2, EntryFields DEF LookUp
  <2>a. Current(m) \in BOOLEAN
    BY DEF Current
  <2>4. w \in [as : Names, of : Names, own : BOOLEAN] /\ (w.own => w.as = w.of)
    <3>1. m.of \in Names
      BY <2>1 DEF Message
    <3>2. w.as = LookUp(m) /\ w.of = m.of /\ w.own = Current(m)
      OBVIOUS
    <3>3. w.own => w.as = w.of
      BY <2>2, <3>2, Zenon
    <3> QED
      BY <2>3, <2>a, <3>1, <3>3
  <2> HIDE DEF w
  <2>5. bag \in Bags /\ bag' = [bag EXCEPT !.live = @ \cup {w}]
    BY <1>1, <1>4 DEF BagInv
  <2>6. bag' \in Bags /\ bag'.live = bag.live \cup {w} /\ bag'.head = bag.head
    BY <2>4, <2>5 DEF Bags
  <2>7. WrittenUnderOwnName'
    BY <2>4, <2>6 DEF BagInv, WrittenUnderOwnName
  <2>8. HeadInv' /\ ResubscribedIsFresh'
    BY <1>1, <1>2, <2>6, HeadStays
  <2> QED
    BY <2>6, <2>7, <2>8 DEF BagInv
<1> QED
  BY <1>3, <1>4

(* The head of a bag: only retained samples, each through the subscription *)
(* its topic has.                                                          *)
LEMMA FlushedFrom ==
  ASSUME NEW t \in Seq(Entries), NEW pub, \A i \in 1 .. Len(t) : Good(t[i], pub)
  PROVE  /\ Flush(t) \in Seq([of : Names, sample : Nat, via : Nat])
         /\ \A k \in 1 .. Len(Flush(t)) : \E i \in 1 .. Len(t) :
                Flush(t)[k].of = t[i].spec.topic /\ Flush(t)[k].via = t[i].made
<1> DEFINE T == [of : Names, sample : Nat, via : Nat]
           item(i, k) == [of |-> t[i].spec.topic, sample |-> t[i].buffer[k].sample,
                         via |-> t[i].buffer[k].via]
           row(i) == [k \in 1 .. Len(t[i].buffer) |-> item(i, k)]
           ss == [i \in 1 .. Len(t) |-> row(i)]
<1>1. ASSUME NEW i \in 1 .. Len(t)
      PROVE  t[i].spec.topic \in Names /\ t[i].buffer \in Seq(Retained)
             /\ \A k \in 1 .. Len(t[i].buffer) : t[i].buffer[k].via = t[i].made
  <2>1. Good(t[i], pub)
    OBVIOUS
  <2> QED
    BY <2>1, EntryFields DEF Good, GoodBuffer
<1>2. ASSUME NEW i \in 1 .. Len(t), NEW k \in 1 .. Len(t[i].buffer)
      PROVE  item(i, k) \in T /\ item(i, k).of = t[i].spec.topic /\ item(i, k).via = t[i].made
  <2>1. t[i].buffer[k] \in Retained
    BY <1>1
  <2> QED
    BY <1>1, <2>1 DEF Retained
<1>3. Flush(t) = FlattenSeq(ss)
  BY DEF Flush
<1> HIDE DEF item, T
<1>4. ASSUME NEW i \in 1 .. Len(t)
      PROVE  row(i) \in Seq(T) /\ Len(row(i)) = Len(t[i].buffer)
             /\ \A k \in 1 .. Len(t[i].buffer) : row(i)[k] = item(i, k)
  <2>1. Len(t[i].buffer) \in Nat
    BY <1>1
  <2> QED
    BY <1>2, <2>1
<1> HIDE DEF row
<1>5. ss \in Seq(Seq(T)) /\ Len(ss) = Len(t) /\ \A i \in 1 .. Len(t) : ss[i] = row(i)
  <2>1. Len(t) \in Nat /\ \A i \in 1 .. Len(t) : row(i) \in Seq(T)
    BY <1>4
  <2> QED
    BY <2>1
<1> HIDE DEF ss
<1> DEFINE u == Flush(t)
<1>6. PICK home : Laid(u, home, ss, Len(ss), T)
  BY <1>3, <1>5, FlattenLaid
<1> HIDE DEF u
<1>7. u \in Seq(T)
  BY <1>6 DEF Laid
<1>8. ASSUME NEW k \in 1 .. Len(u)
      PROVE  \E i \in 1 .. Len(t) : u[k].of = t[i].spec.topic /\ u[k].via = t[i].made
  <2> DEFINE i == home[k]
  <2>1. i \in 1 .. Len(t) /\ \E j \in 1 .. Len(ss[i]) : u[k] = ss[i][j]
    BY <1>5, <1>6 DEF Laid
  <2> HIDE DEF i
  <2>2. PICK j \in 1 .. Len(t[i].buffer) : u[k] = row(i)[j]
    BY <1>4, <1>5, <2>1
  <2>3. u[k] = item(i, j)
    BY <1>4, <2>1, <2>2
  <2>4. u[k].of = t[i].spec.topic /\ u[k].via = t[i].made
    BY <1>2, <2>1, <2>3
  <2> QED
    BY <2>1, <2>4
<1> QED
  BY <1>7, <1>8 DEF T, u

(* begin_episode opens a bag for the table that was prepared.              *)
LEMMA BeginEpisodeKeepsBag ==
  ASSUME TableInv', MadeInv', BeginEpisode(topics', episode')
  PROVE  BagInv'
<1> DEFINE t == topics'
           registered == [i \in 1 .. Len(t) |-> t[i].spec.topic]
<1>1. /\ t \in Seq(Entries) /\ \A i \in 1 .. Len(t) : Good(t[i], published')
      /\ \A i \in 1 .. Len(t) : topic_index'[t[i].spec.topic] = i
  BY DEF TableInv, GoodEntries, IndexMatchesTable
<1>2. /\ Flush(t) \in Seq([of : Names, sample : Nat, via : Nat])
      /\ \A k \in 1 .. Len(Flush(t)) : \E i \in 1 .. Len(t) :
            Flush(t)[k].of = t[i].spec.topic /\ Flush(t)[k].via = t[i].made
  BY <1>1, FlushedFrom
<1>3. bag' = [registered |-> registered, head |-> Flush(t), live |-> {}]
  BY DEF BeginEpisode
<1>4. registered \in Seq(Names)
  <2>1. Len(t) \in Nat /\ \A i \in 1 .. Len(t) : t[i].spec.topic \in Names
    BY <1>1, EntryFields DEF Good
  <2> QED
    BY <2>1
<1> HIDE DEF registered
<1>5. bag' \in Bags /\ bag'.head = Flush(t) /\ bag'.live = {}
  BY <1>2, <1>3, <1>4 DEF Bags
<1>6. ASSUME NEW k \in 1 .. Len(bag'.head)
      PROVE  LET h == bag'.head[k]
                 i == topic_index'[h.of]
             IN  i # 0 /\ (Resubscribes(topics'[i]) => h.via = episode')
  <2>1. PICK i \in 1 .. Len(t) : bag'.head[k].of = t[i].spec.topic /\ bag'.head[k].via = t[i].made
    BY <1>2, <1>5
  <2>2. Resubscribes(t[i]) => t[i].made = episode'
    BY <2>1 DEF MadeInv, BeginEpisode
  <2> QED
    BY <1>1, <2>1, <2>2
<1>7. HeadInv' /\ ResubscribedIsFresh'
  BY <1>6 DEF HeadInv, ResubscribedIsFresh
<1>8. WrittenUnderOwnName'
  BY <1>5 DEF WrittenUnderOwnName
<1> QED
  BY <1>5, <1>7, <1>8 DEF BagInv

-----------------------------------------------------------------------------
(* The types of the other variables.                                       *)

(* No topic has more samples than all of them together.                    *)
LEMMA PublishedFits ==
  ASSUME NodeTypes, NEW name \in Active, Cardinality(Samples) < MaxSamples
  PROVE  published[name] + 1 \in 0 .. MaxSamples
<1> DEFINE n == published[name]
           f == [k \in 1 .. n |-> <<name, k>>]
<1>1. name \in Names /\ n \in 0 .. MaxSamples /\ n \in Nat /\ MaxSamples \in Nat
  BY BoundsAssumption DEF NodeTypes
<1>2. IsFiniteSet(Samples)
  <2>1. IsFiniteSet(1 .. MaxSamples)
    BY <1>1, FS_Interval
  <2>2. IsFiniteSet(Active \X (1 .. MaxSamples))
    BY <2>1, FS_Product, BoundsAssumption
  <2> QED
    BY <2>2, FS_Subset DEF Samples
<1>3. f \in Injection(1 .. n, Samples)
  <2>1. ASSUME NEW k \in 1 .. n PROVE <<name, k>> \in Samples
    BY <1>1 DEF Samples
  <2> QED
    BY <2>1 DEF Injection, IsInjective
<1> HIDE DEF f, n
<1>4. Cardinality(1 .. n) <= Cardinality(Samples)
  BY <1>2, <1>3, FS_Injection
<1>5. Cardinality(1 .. n) = n
  BY <1>1, FS_Interval
<1>6. Cardinality(Samples) \in Nat
  BY <1>2, FS_CardinalityType
<1> QED
  BY <1>1, <1>4, <1>5, <1>6 DEF n

LEMMA NextKeepsTypes ==
  ASSUME NodeTypes, Next
  PROVE  NodeTypes'
<1> USE DEF NodeTypes, NoContract, NoBag, table
<1>1. ASSUME NEW d \in 1 .. Len(Documents), OnConfigure(d) \/ ConfigureFails(d) PROVE NodeTypes'
  <2>1. d \in 0 .. Len(Documents)
    BY DocumentsAssumption
  <2> QED
    BY <1>1, <2>1 DEF OnConfigure, ConfigureFails, vars
<1>2. ASSUME NEW d \in Valid, NEW i, SubscribeFails(d, i) PROVE NodeTypes'
  <2>1. d \in 0 .. Len(Documents)
    BY DocumentsAssumption DEF Valid
  <2> QED
    BY <1>2, <2>1 DEF SubscribeFails
<1>3. ASSUME OnCleanup PROVE NodeTypes'
  <2>1. 0 \in 0 .. Len(Documents)
    BY DocumentsAssumption
  <2> QED
    BY <1>3, <2>1 DEF OnCleanup
<1>4. ASSUME OnShutdown PROVE NodeTypes'
  BY <1>4 DEF OnShutdown
<1>5. ASSUME NEW name \in Active, Publish(name) PROVE NodeTypes'
  <2>1. published[name] + 1 \in 0 .. MaxSamples
    BY <1>5, PublishedFits DEF Publish
  <2> QED
    BY <1>5, <2>1 DEF Publish
<1>6. ASSUME NEW p, NEW sample, OnMessageIdle(p, sample) \/ OnMessageRecording(p, sample)
      PROVE  NodeTypes'
  BY <1>6 DEF OnMessageIdle, OnMessageRecording
<1>7. ASSUME WriteQueued \/ LoseQueued PROVE NodeTypes'
  BY <1>7 DEF WriteQueued, LoseQueued
<1>8. ASSUME NEW graph, StartLive(graph) \/ StartFails(graph) \/ StartDeferred(graph)
      PROVE  NodeTypes'
  <2>1. episode' \in 0 .. MaxEpisodes /\ 0 \in 0 .. MaxEpisodes
    BY <1>8, BoundsAssumption DEF StartLive, StartFails, StartDeferred, Prepare
  <2>2. CASE StartLive(graph)
    BY <2>1, <2>2 DEF StartLive, BeginEpisode
  <2>3. CASE StartFails(graph)
    BY <2>1, <2>3 DEF StartFails, CloseWriter
  <2>4. CASE StartDeferred(graph)
    BY <2>1, <2>4 DEF StartDeferred
  <2> QED
    BY <1>8, <2>2, <2>3, <2>4
<1> 0 \in 0 .. MaxEpisodes
  BY BoundsAssumption
<1>9. ASSUME StartThrows \/ CompleteStart \/ CompleteStartFails \/ CancelPendingStart
      PROVE  NodeTypes'
  <2>1. CASE StartThrows \/ CancelPendingStart
    BY <2>1 DEF StartThrows, CancelPendingStart
  <2>2. CASE CompleteStart
    BY <2>2 DEF CompleteStart, BeginEpisode
  <2>3. CASE CompleteStartFails
    BY <2>3 DEF CompleteStartFails, CloseWriter
  <2> QED
    BY <1>9, <2>1, <2>2, <2>3
<1>10. ASSUME FinishRecording \/ CloseThrows PROVE NodeTypes'
  <2>1. CASE FinishRecording
    BY <2>1 DEF FinishRecording, CloseWriter
  <2>2. CASE CloseThrows
    <3>1. writer' \in 0 .. MaxEpisodes
      BY <2>2 DEF CloseThrows, CloseWriter
    <3> QED
      BY <2>2, <3>1 DEF CloseThrows
  <2> QED
    BY <1>10, <2>1, <2>2
<1>11. ASSUME Gone PROVE NodeTypes'
  BY <1>11 DEF Gone, vars
<1> QED
  BY <1>1, <1>2, <1>3, <1>4, <1>5, <1>6, <1>7, <1>8, <1>9, <1>10, <1>11 DEF Next

-----------------------------------------------------------------------------
(* The invariant.                                                          *)

Steady == NodeTypes /\ TableInv /\ MadeInv /\ QueueInv /\ BagInv
Rest == TableInv' /\ QueueInv' /\ BagInv'

LEMMA InitSteady == Init => Steady
<1> SUFFICES ASSUME Init PROVE Steady
  OBVIOUS
<1>1. NodeTypes
  <2>1. 0 \in 0 .. MaxSamples /\ 0 \in 0 .. MaxEpisodes /\ 0 \in 0 .. Len(Documents)
    BY BoundsAssumption, DocumentsAssumption
  <2>2. [n \in Names |-> 0] \in [Names -> 0 .. MaxSamples]
    BY <2>1
  <2> QED
    BY <2>1, <2>2 DEF Init, NodeTypes, NoContract, NoBag
<1>2. TableInv
  <2>1. topics = << >> /\ topic_index = NoIndex /\ Len(topics) = 0 /\ phase = "unconfigured"
    BY DEF Init
  <2>2. GoodEntries
    <3>1. << >> \in Seq(Entries)
      OBVIOUS
    <3> QED
      BY <2>1, <3>1 DEF GoodEntries
  <2>3. IndexTyped /\ IndexMatchesTable
    BY <2>1 DEF IndexTyped, IndexMatchesTable, NoIndex
  <2>4. CallbackFindsItsTopic /\ FollowsContract /\ DiscoveredTornDown
    BY <2>1 DEF CallbackFindsItsTopic, FollowsContract, DiscoveredTornDown
  <2> QED
    BY <2>2, <2>3, <2>4 DEF TableInv
<1>3. QueueInv
  <2>1. queued = << >> /\ Len(queued) = 0 /\ phase = "unconfigured" /\ << >> \in Seq(Message)
    BY DEF Init
  <2> QED
    BY <2>1, BoundsAssumption DEF QueueInv, QueuedInv
<1>4. BagInv
  <2>1. bag = BlankBag /\ BlankBag.head = << >> /\ BlankBag.live = {}
    BY DEF Init, BlankBag
  <2>2. BlankBag \in Bags
    <3>1. << >> \in Seq(Names) /\ << >> \in Seq([of : Names, sample : Nat, via : Nat])
      OBVIOUS
    <3> QED
      BY <3>1 DEF BlankBag, Bags
  <2> QED
    BY <2>1, <2>2 DEF BagInv, HeadInv, ResubscribedIsFresh, WrittenUnderOwnName
<1>5. MadeInv
  BY DEF Init, MadeInv
<1> QED
  BY <1>1, <1>2, <1>3, <1>4, <1>5 DEF Steady

LEMMA StutterKeeps ==
  ASSUME Steady, UNCHANGED vars
  PROVE  Steady'
<1> USE DEF Steady
<1>1. /\ topics' = topics /\ topic_index' = topic_index /\ published' = published
      /\ contract' = contract /\ phase' = phase /\ aborted' = aborted /\ queued' = queued
      /\ episode' = episode /\ bag' = bag /\ writer' = writer
  BY DEF vars, table
<1>2. TableInv'
  BY <1>1, SameTableKeepsTable DEF Configured, Quiet
<1>3. SameTopics
  BY <1>1 DEF SameTopics
<1>4. QueueInv'
  BY <1>1, <1>3, SameDequeued, QueueGoesOn
<1>5. BagInv'
  BY <1>1, <1>3, BagGoesOn
<1>6. NodeTypes' /\ MadeInv'
  BY <1>1 DEF NodeTypes, MadeInv
<1> QED
  BY <1>2, <1>4, <1>5, <1>6

(* Steps that configure the node, and unconfigure it.                      *)
LEMMA LifecycleKeeps ==
  ASSUME Steady
  PROVE  /\ \A d : OnConfigure(d) => Rest
         /\ \A d \in Valid : \A i \in Nat : SubscribeFails(d, i) => Rest
         /\ OnCleanup \/ OnShutdown => Rest
<1> USE DEF Steady
<1>1. episode \in Nat /\ episode <= episode
  BY DEF NodeTypes
<1>2. ASSUME queued' = queued, episode' = episode, bag' = bag,
             phase' \notin {"pending", "recording"}
      PROVE  QueueInv' /\ BagInv'
  BY <1>1, <1>2, SameDequeued, QueueLeftOver, BagLeftOver
<1>3. ASSUME NEW d, OnConfigure(d) PROVE Rest
  <2>1. TableInv'
    BY <1>3, ConfigureKeepsTable
  <2> QED
    BY <1>2, <1>3, <2>1 DEF OnConfigure, Rest
<1>4. ASSUME NEW d \in Valid, NEW i \in Nat, SubscribeFails(d, i) PROVE Rest
  <2>1. TableInv'
    BY <1>4, SubscribeFailsKeepsTable
  <2> QED
    BY <1>2, <1>4, <2>1 DEF SubscribeFails, Rest
<1>5. ASSUME OnCleanup \/ OnShutdown PROVE Rest
  <2>1. TableInv'
    BY <1>5, ClearKeepsTable DEF OnCleanup, OnShutdown
  <2> QED
    BY <1>2, <1>5, <2>1 DEF OnCleanup, OnShutdown, Rest
<1> QED
  BY <1>3, <1>4, <1>5

(* Steps of the publishers, the callbacks and the writer thread.           *)
LEMMA MessagesKeep ==
  ASSUME Steady
  PROVE  /\ \A name \in Active : Publish(name) => Rest
         /\ \A p \in 1 .. Len(topics) : \A sample :
                OnMessageIdle(p, sample) \/ OnMessageRecording(p, sample) => Rest
         /\ WriteQueued \/ LoseQueued => Rest
<1> USE DEF Steady
<1>1. ASSUME topics' = topics
      PROVE  SameTopics
  BY <1>1 DEF SameTopics
<1>2. ASSUME NEW name \in Active, Publish(name) PROVE Rest
  <2>1. name \in Names
    BY BoundsAssumption
  <2>2. TableInv'
    BY <1>2, <2>1, PublishKeepsTable
  <2>3. topics' = topics /\ topic_index' = topic_index /\ phase' = phase /\ episode' = episode
        /\ queued' = queued /\ bag' = bag
    BY <1>2 DEF Publish, table
  <2> QED
    BY <1>1, <2>2, <2>3, SameDequeued, QueueGoesOn, BagGoesOn DEF Rest
<1>3. ASSUME NEW p \in 1 .. Len(topics), NEW sample, OnMessageIdle(p, sample) PROVE Rest
  <2>1. TableInv'
    BY <1>3, OnMessageIdleKeepsTable
  <2>2. phase # "recording" /\ phase' = phase /\ episode' = episode /\ queued' = queued
        /\ bag' = bag /\ episode \in Nat /\ episode <= episode
    BY <1>3 DEF OnMessageIdle, NodeTypes
  <2>3. QueueInv'
    BY <2>2, SameDequeued, QueueLeftOver
  <2>4. BagInv'
    BY <2>2, BagLeftOver
  <2> QED
    BY <2>1, <2>3, <2>4 DEF Rest
<1>4. ASSUME NEW p \in 1 .. Len(topics), NEW sample, OnMessageRecording(p, sample)
      PROVE  Rest
  <2>1. TableInv' /\ SameTopics
    BY <1>4, OnMessageRecordingKeepsTable DEF SameMade
  <2>2. QueueInv'
    BY <1>4, <2>1, OnMessageQueues
  <2>3. topic_index' = topic_index /\ phase' = phase /\ bag' = bag /\ episode' = episode
    BY <1>4 DEF OnMessageRecording
  <2>4. BagInv'
    BY <2>1, <2>3, BagGoesOn
  <2> QED
    BY <2>1, <2>2, <2>4 DEF Rest
<1>5. ASSUME WriteQueued \/ LoseQueued PROVE Rest
  <2>1. /\ topics' = topics /\ topic_index' = topic_index /\ phase' = phase
        /\ episode' = episode /\ published' = published /\ contract' = contract
        /\ aborted' = aborted /\ queued # << >> /\ queued' = Tail(queued)
    BY <1>5 DEF WriteQueued, LoseQueued, table
  <2>2. TableInv'
    BY <2>1, SameTableKeepsTable DEF Configured, Quiet
  <2>3. QueueInv'
    BY <1>1, <2>1, TailDequeued, QueueGoesOn
  <2>4. CASE WriteQueued
    BY <2>2, <2>3, <2>4, WriteQueuedKeepsBag DEF Rest
  <2>5. CASE LoseQueued
    <3>1. bag' = bag
      BY <2>5 DEF LoseQueued
    <3> QED
      BY <1>1, <2>1, <2>2, <2>3, <3>1, BagGoesOn DEF Rest
  <2> QED
    BY <1>5, <2>4, <2>5
<1> QED
  BY <1>2, <1>3, <1>4, <1>5

(* Steps that start and end an episode.                                    *)
LEMMA StartsKeep ==
  ASSUME Steady, NEW graph \in Graphs,
         StartLive(graph) \/ StartFails(graph) \/ StartDeferred(graph)
  PROVE  Rest
<1> USE DEF Steady
<1>1. /\ Prepare(graph) /\ published' = published /\ contract' = contract /\ queued' = queued
      /\ episode' = episode + 1 /\ ~Quiet'
  BY DEF StartLive, StartFails, StartDeferred, Prepare, BeginEpisode, Quiet
<1>2. TableInv' /\ MadeInv'
  BY <1>1, PrepareKeepsTable
<1>3. QueueInv'
  <2>1. episode \in Nat /\ episode' \in Nat /\ episode < episode' /\ episode <= episode'
    BY <1>1 DEF NodeTypes
  <2> QED
    BY <1>1, <2>1, SameDequeued, QueueLeftOver
<1>4. BagInv'
  <2>1. CASE StartLive(graph)
    BY <2>1, <1>2, BeginEpisodeKeepsBag DEF StartLive
  <2>2. CASE StartFails(graph)
    BY <2>2, CloseWriterKeepsBag DEF StartFails
  <2>3. CASE StartDeferred(graph)
    BY <2>3, BagLeftOver DEF StartDeferred
  <2> QED
    BY <2>1, <2>2, <2>3
<1> QED
  BY <1>2, <1>3, <1>4 DEF Rest

LEMMA EpisodesKeep ==
  ASSUME Steady,
         \/ StartThrows \/ CompleteStart \/ CompleteStartFails \/ CancelPendingStart
         \/ FinishRecording \/ CloseThrows
  PROVE  Rest
<1> USE DEF Steady
<1>1. /\ published' = published /\ contract' = contract /\ episode' = episode
      /\ episode \in Nat /\ episode <= episode
  BY DEF StartThrows, CompleteStart, CompleteStartFails, CancelPendingStart, FinishRecording,
         CloseThrows, NodeTypes
<1>2. CASE FinishRecording
  <2>1. phase = "recording" /\ phase' = "ready" /\ Drained /\ CloseWriter /\ CutBack
    BY <1>2 DEF FinishRecording
  <2>2. TableInv'
    BY <1>1, <2>1, CutBackKeepsTable
  <2>3. QueueInv'
    BY <1>1, <2>1, DrainedDequeued, QueueLeftOver
  <2> QED
    BY <2>1, <2>2, <2>3, CloseWriterKeepsBag DEF Rest
<1>3. CASE CloseThrows
  <2>1. /\ phase' \in {"unconfigured", "gone"} /\ Drained /\ aborted' = TRUE
        /\ topics' = topics /\ topic_index' = topic_index
        /\ CloseWriter \/ bag' = bag
    BY <1>3 DEF CloseThrows, table
  <2>2. TableInv'
    BY <1>1, <2>1, SameTableKeepsTable DEF Configured, Quiet
  <2>3. QueueInv'
    BY <1>1, <2>1, DrainedDequeued, QueueLeftOver
  <2>4. BagInv'
    BY <2>1, CloseWriterKeepsBag, BagLeftOver
  <2> QED
    BY <2>2, <2>3, <2>4 DEF Rest
<1>4. CASE StartThrows \/ CompleteStart \/ CompleteStartFails \/ CancelPendingStart
  <2>1. /\ topics' = topics /\ topic_index' = topic_index /\ queued' = queued
        /\ (Configured' => Configured) /\ ~Quiet'
        /\ phase' \in {"pending", "recording"} => phase = "pending"
    BY <1>4 DEF StartThrows, CompleteStart, CompleteStartFails, CancelPendingStart, table,
                BeginEpisode, Configured, Quiet
  <2>2. TableInv'
    BY <1>1, <2>1, SameTableKeepsTable
  <2>3. QueueInv'
    BY <1>1, <2>1, SameDequeued, QueueLeftOver
  <2>4. BagInv'
    <3>1. CASE StartThrows \/ CancelPendingStart
      <4>1. bag' = bag /\ phase' # "recording"
        BY <3>1 DEF StartThrows, CancelPendingStart
      <4> QED
        BY <4>1, BagLeftOver
    <3>2. CASE CompleteStartFails
      BY <3>2, CloseWriterKeepsBag DEF CompleteStartFails
    <3>3. CASE CompleteStart
      <4>1. BeginEpisode(topics', episode')
        BY <3>3, <1>1, <2>1 DEF CompleteStart
      <4>2. MadeInv'
        BY <3>3, <1>1, <2>1 DEF CompleteStart, MadeInv
      <4> QED
        BY <4>1, <4>2, <2>2, BeginEpisodeKeepsBag
    <3> QED
      BY <1>4, <3>1, <3>2, <3>3
  <2> QED
    BY <2>2, <2>3, <2>4 DEF Rest
<1> QED
  BY <1>2, <1>3, <1>4

(* Only a start under way has subscriptions made for it, all of them when  *)
(* it begins, and none is made later.                                      *)
LEMMA NextKeepsMade ==
  ASSUME Steady, Next
  PROVE  MadeInv'
<1> USE DEF Steady, table
<1>1. ASSUME phase' \notin {"pending", "recording"} PROVE MadeInv'
  BY <1>1 DEF MadeInv
<1>2. ASSUME SameMade, episode' = episode,
             phase' \in {"pending", "recording"} => phase \in {"pending", "recording"}
      PROVE  MadeInv'
  BY <1>2 DEF MadeInv, SameMade, SameTopics, Resubscribes
<1>3. ASSUME topics' = topics PROVE SameMade
  BY <1>3 DEF SameMade, SameTopics
<1>4. ASSUME NEW d, OnConfigure(d) \/ ConfigureFails(d) PROVE MadeInv'
  BY <1>1, <1>4 DEF OnConfigure, ConfigureFails, vars
<1>5. ASSUME NEW d, NEW i, SubscribeFails(d, i) PROVE MadeInv'
  BY <1>1, <1>5 DEF SubscribeFails
<1>6. ASSUME NEW name, Publish(name) PROVE MadeInv'
  BY <1>2, <1>3, <1>6 DEF Publish
<1>7. ASSUME NEW p \in 1 .. Len(topics), NEW sample,
             OnMessageIdle(p, sample) \/ OnMessageRecording(p, sample)
      PROVE  MadeInv'
  <2>1. SameMade
    BY <1>7, OnMessageIdleKeepsTable, OnMessageRecordingKeepsTable
  <2> QED
    BY <1>2, <1>7, <2>1 DEF OnMessageIdle, OnMessageRecording
<1>8. ASSUME NEW graph \in Graphs,
             StartLive(graph) \/ StartFails(graph) \/ StartDeferred(graph)
      PROVE  MadeInv'
  <2>1. Prepare(graph) /\ published' = published /\ contract' = contract /\ ~Quiet'
    BY <1>8 DEF StartLive, StartFails, StartDeferred, BeginEpisode, Quiet
  <2> QED
    BY <2>1, PrepareKeepsTable
<1>9. ASSUME WriteQueued \/ LoseQueued \/ CompleteStart PROVE MadeInv'
  BY <1>2, <1>3, <1>9 DEF WriteQueued, LoseQueued, CompleteStart, BeginEpisode
<1>10. ASSUME \/ OnCleanup \/ OnShutdown \/ StartThrows \/ CompleteStartFails
              \/ CancelPendingStart \/ FinishRecording \/ CloseThrows \/ Gone
       PROVE  MadeInv'
  BY <1>1, <1>10 DEF OnCleanup, OnShutdown, StartThrows, CompleteStartFails,
                     CancelPendingStart, FinishRecording, CloseThrows, Gone, vars
<1> QED
  BY <1>4, <1>5, <1>6, <1>7, <1>8, <1>9, <1>10 DEF Next

LEMMA NextSteady ==
  ASSUME Steady, [Next]_vars
  PROVE  Steady'
<1>1. ASSUME UNCHANGED vars PROVE Steady'
  BY <1>1, StutterKeeps
<1>2. ASSUME Next, Rest PROVE Steady'
  BY <1>2, NextKeepsTypes, NextKeepsMade DEF Steady, Rest
<1>3. ASSUME Next, NEW d \in 1 .. Len(Documents), OnConfigure(d) \/ ConfigureFails(d)
      PROVE  Steady'
  BY <1>1, <1>2, <1>3, LifecycleKeeps DEF ConfigureFails
<1>4. ASSUME Next, NEW d \in Valid, NEW i \in 1 .. Len(Built[d].topics) + 1, SubscribeFails(d, i)
      PROVE  Steady'
  <2>1. i \in Nat
    OBVIOUS
  <2> QED
    BY <1>2, <1>4, <2>1, LifecycleKeeps
<1>5. ASSUME Next, OnCleanup \/ OnShutdown PROVE Steady'
  BY <1>2, <1>5, LifecycleKeeps
<1>6. ASSUME Next, NEW name \in Active, Publish(name) PROVE Steady'
  BY <1>2, <1>6, MessagesKeep
<1>7. ASSUME Next, NEW p \in 1 .. Len(topics), NEW sample,
             OnMessageIdle(p, sample) \/ OnMessageRecording(p, sample)
      PROVE  Steady'
  BY <1>2, <1>7, MessagesKeep
<1>8. ASSUME Next, WriteQueued \/ LoseQueued PROVE Steady'
  BY <1>2, <1>8, MessagesKeep
<1>9. ASSUME Next, NEW graph \in Graphs,
             StartLive(graph) \/ StartFails(graph) \/ StartDeferred(graph)
      PROVE  Steady'
  BY <1>2, <1>9, StartsKeep
<1>10. ASSUME Next, \/ StartThrows \/ CompleteStart \/ CompleteStartFails \/ CancelPendingStart
                    \/ FinishRecording \/ CloseThrows
       PROVE  Steady'
  BY <1>2, <1>10, EpisodesKeep
<1>11. ASSUME Gone PROVE Steady'
  BY <1>1, <1>11 DEF Gone
<1> QED
  BY <1>1, <1>3, <1>4, <1>5, <1>6, <1>7, <1>8, <1>9, <1>10, <1>11 DEF Next

(* The inductive invariant of the topic table, which the theorems below    *)
(* rest on: it holds after every step of every handler.                    *)
THEOREM Invariance == Spec => []IndInv
<1>1. Init => IndInv
  BY InitSteady, IndInvParts DEF Steady
<1>2. IndInv /\ [Next]_vars => IndInv'
  <2> SUFFICES ASSUME IndInv, [Next]_vars PROVE IndInv'
    OBVIOUS
  <2>1. Steady
    BY IndInvParts DEF Steady
  <2>2. Steady'
    BY <2>1, NextSteady
  <2>3. IndInv' <=> (NodeTypes /\ TableInv /\ MadeInv /\ QueueInv /\ BagInv)'
    BY IndInvParts, PTL
  <2> QED
    BY <2>2, <2>3 DEF Steady
<1> QED
  BY <1>1, <1>2, PTL DEF Spec

(* No variable leaves its type in any handler: no sample is delivered or   *)
(* retained before it is published, and topic_index_ only ever names       *)
(* positions of topics_.                                                   *)
THEOREM TypesHold == Spec => []TypeOK
BY Invariance, PTL DEF IndInv

(* topic_index_ is the inverse of topics_ after build_topic_list, through  *)
(* discover_topics, destroy_discovered_subscriptions and failed starts.    *)
THEOREM IndexIsInverse == Spec => []IndexMatchesTable
BY Invariance, PTL DEF IndInv

(* The index a subscription callback captured stays the position of its    *)
(* topic, since discovered topics are appended and cut from the end.       *)
THEOREM CallbacksFindTopics == Spec => []CallbackFindsItsTopic
BY Invariance, PTL DEF IndInv

(* A retained buffer never outgrows its depth, stays in the order of       *)
(* publication, and belongs to a latched topic of the contract.            *)
THEOREM BuffersStayBounded == Spec => []BuffersBounded
BY Invariance, PTL DEF IndInv

(* The newest sample a buffered topic delivered outside a recording is the *)
(* newest of its buffer, unless it is too large to be retained.            *)
THEOREM LatestIsKept == Spec => []LatchedKeptOrRecorded
BY Invariance, PTL DEF IndInv

(* What a bag starts with of a topic that is resubscribed came through the *)
(* subscription prepare_resubscribes made for this very start, whatever    *)
(* starts before it made one and failed or were cancelled.                 *)
THEOREM ResubscribedAreFresh == Spec => []ResubscribedIsFresh
BY Invariance, PTL DEF IndInv

(* The writer thread writes a message of the episode being recorded under  *)
(* the name of its own topic.                                              *)
THEOREM WrittenUnderOwn == Spec => []WrittenUnderOwnName
BY Invariance, PTL DEF IndInv

(* A node that is not recording has no discovered topic, unless a start or *)
(* a close has failed since the table was last cut back.                   *)
THEOREM DiscoveredAreCutBack == Spec => []DiscoveredTornDown
BY Invariance, PTL DEF IndInv

(* The cast to int32_t keeps what fits, and cuts rmw's infinite short.     *)
LEMMA CastKeeps ==
  ASSUME NEW sec \in Seconds
  PROVE  /\ sec # RmwInfinite => Cast(sec) = sec
         /\ sec = RmwInfinite => Cast(sec) < sec
         /\ sec \in Nat /\ Cast(sec) \in Int
<1> DEFINE w == 2 * (MaxInt32 + 1)
<1>1. MaxInt32 \in Nat /\ RmwInfinite \in Nat /\ MaxInt32 < RmwInfinite
      /\ RmwInfinite % w <= MaxInt32 /\ w \in Nat \ {0} /\ MaxInt32 < w
  BY WidthAssumption
<1>2. sec \in Nat /\ (sec # RmwInfinite => sec <= MaxInt32)
  BY <1>1 DEF Seconds
<1>3. Cast(sec) = IF sec % w <= MaxInt32 THEN sec % w ELSE (sec % w) - w
  BY DEF Cast
<1>4. CASE sec # RmwInfinite
  <2>1. sec % w = sec
    BY <1>1, <1>2, <1>4
  <2> HIDE DEF w
  <2> QED
    BY <1>1, <1>2, <1>3, <1>4, <2>1
<1>5. CASE sec = RmwInfinite
  <2>1. sec % w \in Int
    BY <1>1, <1>2
  <2> HIDE DEF w
  <2> QED
    BY <1>1, <1>2, <1>3, <1>5, <2>1
<1> QED
  BY <1>4, <1>5

(* What a subscription asks of the publisher whose profile was copied: all *)
(* it offers, unless a time it offers does not survive the cast.           *)
LEMMA CopiedConnects ==
  ASSUME NEW n \in Names, Publishers[n] # << >>
  PROVE  LET p == Publishers[n][1]
             qos == CopyQos(n)
         IN  /\ Compatible(Requested(qos), p) <=>
                  \A d \in {"deadline", "liveliness_lease"} : p.time[d] # RmwInfinite
             /\ Offered(qos) = OfferedYaml(qos) <=>
                  /\ p.history = "keep_all" => p.depth = 0
                  /\ \A d \in Durations : p.time[d] # RmwInfinite
<1> DEFINE p == Publishers[n][1]
           q == CopyQos(n)
           times == [d \in Durations |-> Cast(q.time[d])]
           asked == Requested(q)
           text == OfferedYaml(q)
<1>1. /\ p \in Profiles /\ q \in QosSpecs /\ q.match = TRUE
      /\ q.depth = p.depth /\ q.liveliness = p.liveliness /\ q.time = p.time
      /\ q.reliable <=> p.reliability = "reliable"
      /\ q.keep_last <=> p.history # "keep_all"
      /\ q.transient_local <=> p.durability = "transient_local"
  BY CopiedSpec
<1> HIDE DEF p, q
<1>2. ASSUME NEW d \in Durations
      PROVE  /\ p.time[d] \in Nat /\ times[d] \in Int
             /\ p.time[d] # RmwInfinite => times[d] = p.time[d]
             /\ p.time[d] = RmwInfinite => times[d] < p.time[d]
  <2>1. p.time[d] \in Seconds
    BY <1>1 DEF Profiles
  <2>2. times[d] = Cast(p.time[d])
    BY <1>1
  <2> QED
    BY <2>1, <2>2, CastKeeps
<1>3. /\ asked.depth = (IF q.keep_last THEN q.depth ELSE 0)
      /\ asked.keep_last = q.keep_last /\ asked.reliable = q.reliable
      /\ asked.transient_local = q.transient_local /\ asked.liveliness = q.liveliness
      /\ asked.time = times
  BY <1>1 DEF Requested
<1>4. /\ text.depth = q.depth /\ text.keep_last = q.keep_last /\ text.reliable = q.reliable
      /\ text.transient_local = q.transient_local /\ text.liveliness = q.liveliness
      /\ text.time = q.time
  BY DEF OfferedYaml
<1>5. Offered(q) = asked
  <2>1. [q EXCEPT !.match = TRUE] = q
    BY <1>1 DEF QosSpecs
  <2> QED
    BY <2>1 DEF Offered
<1>6. Compatible(asked, p) <=>
        \A d \in {"deadline", "liveliness_lease"} : p.time[d] # RmwInfinite
  <2>1. asked.reliable => p.reliability = "reliable"
    BY <1>1, <1>3, Zenon
  <2>2. asked.transient_local => p.durability = "transient_local"
    BY <1>1, <1>3, Zenon
  <2>3. asked.liveliness <= p.liveliness
    BY <1>1, <1>3 DEF Profiles
  <2>4. ASSUME NEW d \in {"deadline", "liveliness_lease"}
        PROVE  p.time[d] <= asked.time[d] <=> p.time[d] # RmwInfinite
    <3>1. d \in Durations
      BY DEF Durations
    <3> HIDE DEF times
    <3> QED
      BY <1>2, <1>3, <3>1
  <2> HIDE DEF asked
  <2> QED
    BY <2>1, <2>2, <2>3, <2>4, Zenon DEF Compatible
<1>7. asked.depth = text.depth <=> (p.history = "keep_all" => p.depth = 0)
  <2> HIDE DEF asked, text
  <2>1. CASE p.history = "keep_all"
    <3>1. ~q.keep_last
      BY <1>1, <2>1, Zenon
    <3> QED
      BY <1>1, <1>3, <1>4, <2>1, <3>1
  <2>2. CASE p.history # "keep_all"
    <3>1. q.keep_last
      BY <1>1, <2>2, Zenon
    <3> QED
      BY <1>1, <1>3, <1>4, <2>2, <3>1
  <2> QED
    BY <2>1, <2>2
<1>8. asked.time = text.time <=> \A d \in Durations : p.time[d] # RmwInfinite
  <2>1. times = [d \in Durations |-> times[d]] /\ q.time = [d \in Durations |-> q.time[d]]
    BY <1>1 DEF QosSpecs
  <2>2. ASSUME NEW d \in Durations PROVE times[d] = q.time[d] <=> p.time[d] # RmwInfinite
    BY <1>1, <1>2
  <2> HIDE DEF times, asked, text
  <2>3. times = q.time <=> \A d \in Durations : times[d] = q.time[d]
    BY <2>1, Zenon
  <2> QED
    BY <1>3, <1>4, <2>2, <2>3, Zenon
<1>9. asked = text <=> asked.depth = text.depth /\ asked.time = text.time
  <2> DEFINE T == [depth : Nat, keep_last : BOOLEAN, reliable : BOOLEAN,
                   transient_local : BOOLEAN, liveliness : Nat, time : [Durations -> Int]]
  <2>1. times \in [Durations -> Int]
    BY <1>2
  <2>2. q.time \in [Durations -> Int]
    BY <1>1, WidthAssumption DEF QosSpecs, Seconds
  <2> HIDE DEF times
  <2>3. text \in T
    BY <1>1, <2>2 DEF OfferedYaml, QosSpecs
  <2>4. asked \in T
    <3>1. asked = [depth |-> IF q.keep_last THEN q.depth ELSE 0, keep_last |-> q.keep_last,
                   reliable |-> q.reliable, transient_local |-> q.transient_local,
                   liveliness |-> q.liveliness, time |-> times]
      BY <1>1 DEF Requested, times
    <3> QED
      BY <1>1, <2>1, <3>1 DEF QosSpecs
  <2> HIDE DEF asked, text
  <2>5. asked.depth = text.depth /\ asked.time = text.time => asked = text
    BY <1>3, <1>4, <2>3, <2>4, SMTT(30)
  <2> QED
    BY <2>5
<1> HIDE DEF asked, text
<1> QED
  BY <1>5, <1>6, <1>7, <1>8, <1>9, Zenon DEF p, q, asked, text

(* A subscription to a discovered topic connects to the first publisher    *)
(* discover_topics found exactly if neither its deadline nor its lease is  *)
(* rmw's infinite, and to_offered_qos and to_offered_qos_yaml advertise    *)
(* the same exactly if besides no depth is dropped under keep_all.         *)
THEOREM DiscoveredAreConnected == Spec => []DiscoveredConnects
<1>1. IndInv => DiscoveredConnects
  <2> SUFFICES ASSUME IndInv, NEW i \in 1 .. Len(topics), topics[i].discovered,
                      Publishers[topics[i].spec.topic] # << >>
               PROVE  LET p == Publishers[topics[i].spec.topic][1]
                          qos == topics[i].spec.qos
                      IN  /\ Compatible(Requested(qos), p) <=>
                              \A d \in {"deadline", "liveliness_lease"} : p.time[d] # RmwInfinite
                          /\ Offered(qos) = OfferedYaml(qos) <=>
                              /\ p.history = "keep_all" => p.depth = 0
                              /\ \A d \in Durations : p.time[d] # RmwInfinite
    BY Zenon DEF DiscoveredConnects
  <2> DEFINE name == topics[i].spec.topic
  <2>1. topics[i] \in Entries /\ topics[i].spec = DiscoveredSpec(name)
    BY DEF IndInv, TypeOK, TableTypes, SpecInv
  <2>2. name \in Names
    BY <2>1, EntryFields
  <2>3. topics[i].spec.qos = CopyQos(name)
    <3> HIDE DEF name
    <3> QED
      BY <2>1 DEF DiscoveredSpec
  <2> QED
    BY <2>2, <2>3, CopiedConnects
<1> QED
  BY <1>1, Invariance, PTL

-----------------------------------------------------------------------------
(* The order of the contract's topics.                                     *)

LEMMA RankIsPlace ==
  /\ Len(SectionOrder) = 8
  /\ \A k \in 1 .. Len(SectionOrder) :
        SectionOrder[k] \in DOMAIN Rank /\ Rank[SectionOrder[k]] = k
  /\ \A s \in DOMAIN Rank : Rank[s] \in 1 .. Len(SectionOrder) /\ SectionOrder[Rank[s]] = s
BY DEF Rank, SectionOrder

(* The ranks of a name are the places of the sections that list it.        *)
LEMMA RanksAreHomes ==
  ASSUME NEW doc, NEW home, ReadFrom(home, doc), NEW n \in Names, NEW r
  PROVE  r \in RanksIn(doc)[n] <=>
            \E p \in 1 .. Len(Topics(doc)) : home[p] = r /\ Topics(doc)[p].topic = n
<1>1. \A s, item : RecordTopic(s, item).topic = item.topic
  BY DEF RecordTopic
<1>2. r \in RanksIn(doc)[n] <=> \E s \in DOMAIN Rank : Lists(doc, s, n) /\ r = Rank[s]
  BY DEF RanksIn
<1>3. ASSUME NEW s \in DOMAIN Rank, Lists(doc, s, n), r = Rank[s]
      PROVE  \E p \in 1 .. Len(Topics(doc)) : home[p] = r /\ Topics(doc)[p].topic = n
  <2>1. PICK item \in ToSet(SectionItems(doc, s)) : item.topic = n
    BY <1>3 DEF Lists
  <2>2. r \in 1 .. Len(SectionOrder) /\ SectionOrder[r] = s
    BY <1>3, RankIsPlace
  <2>3. PICK p \in 1 .. Len(Topics(doc)) : home[p] = r /\ Topics(doc)[p] = RecordTopic(s, item)
    BY <2>2 DEF ReadFrom
  <2> QED
    BY <1>1, <2>1, <2>3
<1>4. ASSUME NEW p \in 1 .. Len(Topics(doc)), home[p] = r, Topics(doc)[p].topic = n
      PROVE  \E s \in DOMAIN Rank : Lists(doc, s, n) /\ r = Rank[s]
  <2> DEFINE s == SectionOrder[r]
  <2>1. r \in 1 .. Len(SectionOrder)
    BY <1>4 DEF ReadFrom
  <2>2. PICK item \in ToSet(SectionItems(doc, s)) : Topics(doc)[p] = RecordTopic(s, item)
    BY <1>4 DEF ReadFrom
  <2>3. item.topic = n
    BY <1>1, <1>4, <2>2
  <2>4. s \in DOMAIN Rank /\ Rank[s] = r
    BY <2>1, RankIsPlace
  <2> HIDE DEF s
  <2> QED
    BY <2>2, <2>3, <2>4 DEF Lists
<1> QED
  BY <1>2, <1>3, <1>4

(* The first topics of AllSpecs are the contract's.                        *)
LEMMA ContractFirst ==
  ASSUME NEW doc \in Docs(Names), Loads(doc)
  PROVE  /\ Len(Topics(doc)) \in Nat /\ Len(AllSpecs(doc)) \in Nat
         /\ Len(Topics(doc)) <= Len(AllSpecs(doc))
         /\ \A p \in 1 .. Len(Topics(doc)) : AllSpecs(doc)[p] = Topics(doc)[p]
<1> DEFINE u == Topics(doc)
           v == IF UseSimTime THEN <<Clock>> ELSE << >>
<1>1. u \in Seq(Specs(Names)) /\ AllSpecs(doc) \in Seq(Specs(Names)) /\ AllSpecs(doc) = u \o v
  BY BufferedTopicsAreLatched, AllSpecsSound DEF AllSpecs
<1>2. v \in Seq({Clock})
  <2>1. <<Clock>> \in Seq({Clock}) /\ << >> \in Seq({Clock})
    OBVIOUS
  <2> QED
    BY <2>1, Zenon
<1>3. Len(v) \in Nat /\ Len(u) \in Nat
  <2> HIDE DEF v
  <2> QED
    BY <1>1, <1>2
<1> HIDE DEF u, v
<1> DEFINE S == Specs(Names) \cup {Clock}
<1>4. u \in Seq(S) /\ v \in Seq(S)
  <2>1. u \in Seq(S)
    <3>1. \A i \in 1 .. Len(u) : u[i] \in S
      BY <1>1
    <3>2. u = [i \in 1 .. Len(u) |-> u[i]]
      BY <1>1
    <3> HIDE DEF S
    <3> QED
      BY <1>3, <3>1, <3>2
  <2>2. v \in Seq(S)
    <3>1. \A i \in 1 .. Len(v) : v[i] \in S
      BY <1>2
    <3>2. v = [i \in 1 .. Len(v) |-> v[i]]
      BY <1>2
    <3> HIDE DEF S
    <3> QED
      BY <1>3, <3>1, <3>2
  <2> QED
    BY <2>1, <2>2
<1> HIDE DEF S
<1>5. Len(u \o v) = Len(u) + Len(v)
  BY <1>4, ConcatProperties
<1>6. \A p \in 1 .. Len(u) + Len(v) : (u \o v)[p] = IF p <= Len(u) THEN u[p] ELSE v[p - Len(u)]
  BY <1>4, ConcatProperties
<1>7. Len(AllSpecs(doc)) = Len(u) + Len(v)
  BY <1>1, <1>5
<1>8. \A p \in 1 .. Len(u) : AllSpecs(doc)[p] = u[p]
  <2> SUFFICES ASSUME NEW p \in 1 .. Len(u) PROVE (u \o v)[p] = u[p]
    BY <1>1
  <2>1. p \in 1 .. Len(u) + Len(v) /\ p <= Len(u)
    BY <1>3
  <2> QED
    BY <1>6, <2>1
<1> QED
  BY <1>3, <1>7, <1>8 DEF u

(* Where a listed name is in the table of a configured node.               *)
LEMMA ListedIsInTable ==
  ASSUME IndInv, phase \in {"ready", "pending", "recording"}, NEW p,
         LET specs == AllSpecs(Documents[contract]) IN p \in 1 .. Len(specs)
  PROVE  LET name == AllSpecs(Documents[contract])[p].topic
             built == Built[contract].topics
         IN  \E i \in 1 .. Len(built) :
                /\ i \in 1 .. Len(topics) /\ topics[i].spec.topic = name
                /\ \A j \in 1 .. Len(topics) : topics[j].spec.topic = name => j = i
<1> DEFINE specs == AllSpecs(Documents[contract])
           b == Built[contract]
           name == specs[p].topic
           i == b.index[name]
<1>1. contract \in Valid /\ Len(b.topics) <= Len(topics)
      /\ \A k \in 1 .. Len(b.topics) : topics[k].spec = b.topics[k].spec
  BY DEF IndInv, FollowsContract
<1>2. specs \in Seq(Specs(Names)) /\ TableOf(b, specs, Len(specs))
  BY <1>1, BuiltIsTable
<1> HIDE DEF b, specs
<1>3. name \in Names
  <2>1. specs[p] \in Specs(Names)
    BY <1>2 DEF specs
  <2> QED
    BY <2>1 DEF Specs
<1>4. b.topics \in Seq(Entries) /\ b.index \in [Names -> Nat] /\ i # 0
  BY <1>2 DEF TableOf, Tables, AllListed, specs
<1>5. i \in 1 .. Len(b.topics) /\ b.topics[i].spec.topic = name
  BY <1>2, <1>3, <1>4 DEF TableOf, InverseOf
<1> HIDE DEF i, name
<1>6. i \in 1 .. Len(topics) /\ topics[i].spec.topic = name
  <2>1. Len(topics) \in Nat
    BY DEF IndInv, TypeOK, TableTypes
  <2> QED
    BY <1>1, <1>4, <1>5, <2>1
<1>7. \A j \in 1 .. Len(topics) : topics[j].spec.topic = name => j = i
  BY <1>6 DEF IndInv, IndexMatchesTable
<1> QED
  BY <1>5, <1>6, <1>7 DEF b, name, specs

(* Every topic of the contract is in the table of a configured node, at    *)
(* the place, and with the QoS and strategy, its first section gives it;   *)
(* discovery, failed starts and cutting back move none of them.            *)
THEOREM ContractOrderIsKept == Spec => []ContractTopicsInOrder
<1>1. IndInv => ContractTopicsInOrder
  <2> SUFFICES ASSUME IndInv, phase \in {"ready", "pending", "recording"}
               PROVE  ContractTopicsInOrder
    BY DEF ContractTopicsInOrder
  <2> DEFINE doc == Documents[contract]
             rank == Ranks[contract]
             names == [i \in 1 .. Len(topics) |-> topics[i].spec.topic]
             listed == Topics(doc)
             L == Len(listed)
             specs == AllSpecs(doc)
             built == Built[contract].topics
             m == Len(built)
  <2>1. /\ contract \in Valid /\ m <= Len(topics)
        /\ \A i \in 1 .. m : topics[i].spec = built[i].spec
    BY DEF IndInv, FollowsContract
  <2>2. doc \in Docs(Names) /\ Loads(doc)
    BY <2>1, DocumentsAssumption DEF Valid
  <2>3. PICK home : ReadFrom(home, doc)
    BY <2>2, TopicsInSectionOrder
  <2>4. rank = RanksIn(doc)
    BY <2>1 DEF Ranks
  <2>5. \A n \in Names : \A r :
          r \in rank[n] <=> \E p \in 1 .. L : home[p] = r /\ listed[p].topic = n
    BY <2>3, <2>4, RanksAreHomes
  <2>6. /\ L \in Nat /\ Len(specs) \in Nat /\ L <= Len(specs)
        /\ \A p \in 1 .. L : specs[p] = listed[p]
    BY <2>2, ContractFirst
  <2>7. /\ FirstSpecs(Built[contract], specs, Len(specs))
        /\ InListedOrder(Built[contract], specs, Len(specs))
        /\ specs \in Seq(Specs(Names)) /\ m \in Nat
    BY <2>1, BuiltIsTable, BuiltEntries DEF TableOf
  <2>a. topics \in Seq(Entries) /\ Len(topics) \in Nat
    BY DEF IndInv, TypeOK, TableTypes
  <2>b. \A i \in 1 .. Len(topics) : names[i] = topics[i].spec.topic /\ names[i] \in Names
    BY <2>a, EntryFields
  <2>c. \A p \in 1 .. L : p \in 1 .. Len(specs)
    BY <2>6
  <2>d. Len(names) = Len(topics) /\ ToSet(names) = {names[i] : i \in 1 .. Len(topics)}
    BY <2>a DEF ToSet
  <2>e. \A p \in 1 .. L : \E i \in 1 .. m :
          /\ i \in 1 .. Len(topics) /\ topics[i].spec.topic = specs[p].topic
          /\ \A j \in 1 .. Len(topics) : topics[j].spec.topic = specs[p].topic => j = i
    BY <2>c, ListedIsInTable
  <2>f. \A p, q \in 1 .. L : p <= q => home[p] <= home[q]
    BY <2>3 DEF ReadFrom
  <2> HIDE DEF doc, rank, names, listed, L, specs, built, m
  \* every listed name is in the table
  <2>8. ASSUME NEW n \in Names, rank[n] # {} PROVE n \in ToSet(names)
    <3>1. PICK r : r \in rank[n]
      BY <2>8
    <3>2. PICK p \in 1 .. L : listed[p].topic = n
      BY <2>5, <3>1
    <3>3. PICK i \in 1 .. Len(topics) : topics[i].spec.topic = n
      BY <2>6, <2>e, <3>2
    <3> QED
      BY <2>b, <2>d, <3>3
  \* a topic with a rank is one of the contract's
  <2>9. ASSUME NEW j \in 1 .. Len(topics), NEW r \in rank[names[j]]
        PROVE  j \in 1 .. m /\ \E q \in 1 .. L : home[q] = r /\ specs[q].topic = topics[j].spec.topic
    <3>1. PICK q \in 1 .. L : home[q] = r /\ listed[q].topic = names[j]
      BY <2>5, <2>9, <2>b
    <3>2. specs[q].topic = topics[j].spec.topic
      BY <2>6, <2>b, <3>1
    <3>3. j \in 1 .. m
      BY <2>e, <3>2
    <3> QED
      BY <3>1, <3>2, <3>3
  <2>10. ASSUME NEW i \in 1 .. Len(topics), NEW j \in 1 .. Len(topics), i < j,
                NEW r \in rank[names[j]]
         PROVE  \E q \in rank[names[i]] : q <= r
    <3>1. PICK q \in 1 .. L : home[q] = r /\ specs[q].topic = topics[j].spec.topic
      BY <2>9
    <3>2. j \in 1 .. m /\ i \in 1 .. m /\ i \in Nat /\ j \in Nat
      <4>1. j \in 1 .. m
        BY <2>9
      <4> QED
        BY <4>1, <2>7, <2>10
    <3>3. topics[i].spec = built[i].spec /\ topics[j].spec = built[j].spec
      BY <2>1, <3>2
    <3>4. PICK p \in 1 .. Len(specs) : p < q /\ built[i].spec = specs[p]
      <4>1. q \in 1 .. Len(specs) /\ specs[q].topic = built[j].spec.topic
        BY <2>c, <3>1, <3>3
      <4> QED
        BY <2>7, <2>10, <3>2, <4>1 DEF InListedOrder, built, m
    <3>5. p \in 1 .. L /\ p <= q
      BY <2>6, <3>1, <3>4
    <3>6. home[p] <= r
      BY <2>f, <3>1, <3>5
    <3>7. listed[p].topic = names[i]
      BY <2>6, <2>b, <3>3, <3>4, <3>5
    <3>8. home[p] \in rank[names[i]]
      BY <2>5, <2>b, <3>5, <3>7
    <3> QED
      BY <3>6, <3>8
  <2>11. ASSUME NEW i \in 1 .. Len(topics), rank[names[i]] # {}
         PROVE  \E s \in DOMAIN Rank :
                  /\ \A r \in rank[names[i]] : Rank[s] <= r
                  /\ \E item \in ToSet(SectionItems(doc, s)) :
                        topics[i].spec = RecordTopic(s, item)
    <3>1. PICK r0 : r0 \in rank[names[i]]
      BY <2>11
    <3>2. i \in 1 .. m
      BY <2>9, <3>1
    <3>3. PICK p \in 1 .. Len(specs) :
            /\ built[i] = Entry(specs[p], FALSE)
            /\ \A q \in 1 .. Len(specs) : specs[q].topic = specs[p].topic => p <= q
      BY <2>7, <3>2 DEF FirstSpecs, built, m
    <3>4. topics[i].spec = specs[p]
      <4>1. Entry(specs[p], FALSE).spec = specs[p]
        BY DEF Entry
      <4> QED
        BY <2>1, <3>2, <3>3, <4>1
    <3>5. ASSUME NEW r \in rank[names[i]]
          PROVE  p \in 1 .. L /\ home[p] <= r
      <4>1. PICK q \in 1 .. L : home[q] = r /\ specs[q].topic = topics[i].spec.topic
        BY <2>9, <3>5
      <4>2. p <= q
        BY <2>c, <3>3, <3>4, <4>1
      <4>3. p \in 1 .. L
        BY <2>6, <4>1, <4>2
      <4> QED
        BY <2>f, <4>1, <4>2, <4>3
    <3>6. p \in 1 .. L /\ specs[p] = listed[p]
      BY <2>6, <3>1, <3>5
    <3> DEFINE s == SectionOrder[home[p]]
    <3>7. \E item \in ToSet(SectionItems(doc, s)) : listed[p] = RecordTopic(s, item)
      BY <2>3, <3>6 DEF ReadFrom, listed, L
    <3>8. s \in DOMAIN Rank /\ Rank[s] = home[p]
      <4>1. home[p] \in 1 .. Len(SectionOrder)
        BY <2>3, <3>6 DEF ReadFrom, listed, L
      <4> QED
        BY <4>1, RankIsPlace
    <3> HIDE DEF s
    <3> QED
      BY <3>4, <3>5, <3>6, <3>7, <3>8
  <2>12. /\ \A n \in Names : rank[n] # {} => n \in ToSet(names)
         /\ \A i, j \in 1 .. Len(names) : i < j =>
              \A r \in rank[names[j]] : \E q \in rank[names[i]] : q <= r
         /\ \A i \in 1 .. Len(names) : rank[names[i]] # {} =>
              \E s \in DOMAIN Rank :
                /\ \A r \in rank[names[i]] : Rank[s] <= r
                /\ \E item \in ToSet(SectionItems(doc, s)) :
                      topics[i].spec = RecordTopic(s, item)
    BY <2>8, <2>10, <2>11, <2>d, Zenon
  <2> QED
    BY <2>12, Zenon DEF ContractTopicsInOrder, doc, rank, names
<1> QED
  BY <1>1, Invariance, PTL

=============================================================================
