---------------------------- MODULE Contract_proofs ----------------------------
(***************************************************************************)
(* What load_contract returns, for every document that loads: the types    *)
(* and the order of its topics, and which of them may be buffered.         *)
(***************************************************************************)
EXTENDS Contract, NaturalLemmas, SequenceTheorems, TLAPS

-----------------------------------------------------------------------------
(* Sequences laid end to end.                                              *)

(* u is the first n sequences of ss, one after the other, and home says    *)
(* which of them each element of u comes from.                             *)
Laid(u, home, ss, n, S) ==
    /\ u \in Seq(S)
    /\ home \in [1 .. Len(u) -> 1 .. n]
    /\ \A p, q \in 1 .. Len(u) : p <= q => home[p] <= home[q]
    /\ \A p \in 1 .. Len(u) : \E j \in 1 .. Len(ss[home[p]]) : u[p] = ss[home[p]][j]
    /\ \A k \in 1 .. n : \A j \in 1 .. Len(ss[k]) :
        \E p \in 1 .. Len(u) : home[p] = k /\ u[p] = ss[k][j]

(* One more sequence is appended.                                          *)
LEMMA LaidStep ==
  ASSUME NEW S, NEW ss \in Seq(Seq(S)), NEW n \in Nat, n + 1 \in 1 .. Len(ss),
         NEW u, NEW home, Laid(u, home, ss, n, S)
  PROVE  \E h : Laid(u \o ss[n + 1], h, ss, n + 1, S)
<1> DEFINE v == ss[n + 1]
           w == u \o v
           h == [p \in 1 .. Len(w) |-> IF p <= Len(u) THEN home[p] ELSE n + 1]
<1>1. u \in Seq(S) /\ v \in Seq(S) /\ Len(u) \in Nat /\ Len(v) \in Nat
  BY DEF Laid
<1>2. w \in Seq(S) /\ Len(w) = Len(u) + Len(v)
  BY <1>1, ConcatProperties
<1>a. \A p \in 1 .. Len(w) : w[p] = IF p <= Len(u) THEN u[p] ELSE v[p - Len(u)]
  BY <1>1, <1>2, ConcatProperties
<1> HIDE DEF w, v
<1>b. \A p \in 1 .. Len(u) : p \in 1 .. Len(w) /\ home[p] \in 1 .. n
  <2>1. home \in [1 .. Len(u) -> 1 .. n]
    BY DEF Laid
  <2>2. \A p \in 1 .. Len(u) : p \in 1 .. Len(w)
    BY <1>1, <1>2
  <2> QED
    BY <2>1, <2>2, Zenon
<1>3. \A p \in 1 .. Len(u) : w[p] = u[p] /\ h[p] = home[p] /\ home[p] \in 1 .. n
  <2> SUFFICES ASSUME NEW p \in 1 .. Len(u)
               PROVE  w[p] = u[p] /\ h[p] = home[p] /\ home[p] \in 1 .. n
    OBVIOUS
  <2>1. p \in 1 .. Len(w) /\ p <= Len(u)
    BY <1>b, <1>1
  <2> QED
    BY <2>1, <1>a, <1>b
<1>4. \A p \in 1 .. Len(w) : p > Len(u) => w[p] = v[p - Len(u)] /\ h[p] = n + 1
                                          /\ p - Len(u) \in 1 .. Len(v)
  BY <1>1, <1>2, <1>a
<1>5. h \in [1 .. Len(w) -> 1 .. n + 1]
  <2> SUFFICES ASSUME NEW p \in 1 .. Len(w)
               PROVE  (IF p <= Len(u) THEN home[p] ELSE n + 1) \in 1 .. n + 1
    OBVIOUS
  <2>1. CASE p <= Len(u)
    <3>1. p \in 1 .. Len(u)
      BY <2>1, <1>1
    <3>2. home[p] \in 1 .. n
      BY <3>1, <1>b
    <3> QED
      BY <2>1, <3>2
  <2> QED
    BY <2>1, <1>1
<1> HIDE DEF h
<1>6. \A p, q \in 1 .. Len(w) : p <= q => h[p] <= h[q]
  <2> SUFFICES ASSUME NEW p \in 1 .. Len(w), NEW q \in 1 .. Len(w), p <= q PROVE h[p] <= h[q]
    OBVIOUS
  <2>1. CASE q <= Len(u)
    <3>1. p \in 1 .. Len(u) /\ q \in 1 .. Len(u)
      BY <2>1, <1>1
    <3> QED
      BY <3>1, <1>3 DEF Laid
  <2>2. CASE q > Len(u)
    <3>1. h[q] = n + 1 /\ h[p] \in 1 .. n + 1
      BY <2>2, <1>4, <1>5
    <3> QED
      BY <3>1
  <2> QED
    BY <2>1, <2>2, <1>1
<1>7. \A p \in 1 .. Len(w) : \E j \in 1 .. Len(ss[h[p]]) : w[p] = ss[h[p]][j]
  <2> SUFFICES ASSUME NEW p \in 1 .. Len(w) PROVE \E j \in 1 .. Len(ss[h[p]]) : w[p] = ss[h[p]][j]
    OBVIOUS
  <2>1. CASE p <= Len(u)
    <3>1. p \in 1 .. Len(u) /\ w[p] = u[p] /\ h[p] = home[p]
      BY <2>1, <1>1, <1>3
    <3>2. \E j \in 1 .. Len(ss[home[p]]) : u[p] = ss[home[p]][j]
      BY <3>1 DEF Laid
    <3> QED
      BY <3>1, <3>2
  <2>2. CASE p > Len(u)
    BY <2>2, <1>4 DEF v
  <2> QED
    BY <2>1, <2>2, <1>1
<1>8. ASSUME NEW k \in 1 .. n + 1, NEW j \in 1 .. Len(ss[k])
      PROVE  \E p \in 1 .. Len(w) : h[p] = k /\ w[p] = ss[k][j]
  <2>1. CASE k # n + 1
    <3>1. PICK p \in 1 .. Len(u) : home[p] = k /\ u[p] = ss[k][j]
      BY <2>1 DEF Laid
    <3>2. p \in 1 .. Len(w) /\ h[p] = k /\ w[p] = ss[k][j]
      BY <3>1, <1>b, <1>3
    <3> QED
      BY <3>2
  <2>2. CASE k = n + 1
    <3>1. Len(u) + j \in 1 .. Len(w) /\ Len(u) + j > Len(u) /\ (Len(u) + j) - Len(u) = j
      BY <2>2, <1>1, <1>2 DEF v
    <3>2. h[Len(u) + j] = n + 1 /\ w[Len(u) + j] = v[j]
      BY <3>1, <1>4
    <3> QED
      BY <3>1, <3>2, <2>2 DEF v
  <2> QED
    BY <2>1, <2>2
<1>9. Laid(w, h, ss, n + 1, S)
  BY <1>2, <1>5, <1>6, <1>7, <1>8 DEF Laid
<1> QED
  BY <1>9 DEF w, v

(* f is the recursion in FlattenSeq.                                       *)
Flattens(f, ss) ==
    f = [i \in 1 .. Len(ss) |-> IF i = 1 THEN ss[i] ELSE f[i - 1] \o ss[i]]

LEMMA FlattensExists ==
  ASSUME NEW S, NEW ss \in Seq(Seq(S))
  PROVE  \E f : Flattens(f, ss)
<1> DEFINE next == [a \in Nat \X Seq(S) |->
                      IF a[1] \in 1 .. Len(ss) THEN a[2] \o ss[a[1]] ELSE a[2]]
<1>1. next \in [Nat \X Seq(S) -> Seq(S)]
  <2> SUFFICES ASSUME NEW a \in Nat \X Seq(S)
               PROVE  (IF a[1] \in 1 .. Len(ss) THEN a[2] \o ss[a[1]] ELSE a[2]) \in Seq(S)
    OBVIOUS
  <2>1. a[1] \in 1 .. Len(ss) => ss[a[1]] \in Seq(S)
    OBVIOUS
  <2>2. a[2] \in Seq(S)
    OBVIOUS
  <2> QED
    BY <2>1, <2>2, ConcatProperties
<1>2. \A k \in 1 .. Len(ss) : \A u \in Seq(S) : next[<<k, u>>] = u \o ss[k]
  <2> SUFFICES ASSUME NEW k \in 1 .. Len(ss), NEW u \in Seq(S)
               PROVE  next[<<k, u>>] = u \o ss[k]
    OBVIOUS
  <2>1. <<k, u>> \in Nat \X Seq(S) /\ <<k, u>>[1] = k /\ <<k, u>>[2] = u
    OBVIOUS
  <2> QED
    BY <2>1, Zenon
<1> HIDE DEF next
<1>3. << >> \in Seq(S) /\ Len(ss) \in Nat
  OBVIOUS
<1>4. PICK f : Recursion(f, << >>, next, Len(ss), Seq(S))
  BY <1>1, <1>3, RecursionExists
<1> DEFINE g == [i \in 1 .. Len(ss) |-> f[i]]
<1>5. ASSUME NEW i \in 1 .. Len(ss)
      PROVE  g[i] = IF i = 1 THEN ss[i] ELSE g[i - 1] \o ss[i]
  <2>1. i - 1 \in 0 .. Len(ss) /\ f[i - 1] \in Seq(S) /\ ss[i] \in Seq(S)
    <3>1. i - 1 \in 0 .. Len(ss) /\ ss[i] \in Seq(S)
      OBVIOUS
    <3>2. f \in [0 .. Len(ss) -> Seq(S)]
      BY <1>4 DEF Recursion
    <3> QED
      BY <3>1, <3>2
  <2>2. f[i] = f[i - 1] \o ss[i]
    BY <2>1, <1>2, <1>4 DEF Recursion
  <2>3. i = 1 => f[i - 1] = << >>
    BY <1>4 DEF Recursion
  <2>4. i = 1 => f[i] = ss[i]
    BY <2>1, <2>2, <2>3, ConcatEmptySeq
  <2>5. i # 1 => i - 1 \in 1 .. Len(ss)
    OBVIOUS
  <2> QED
    BY <2>2, <2>4, <2>5
<1>6. g = [i \in 1 .. Len(ss) |-> IF i = 1 THEN ss[i] ELSE g[i - 1] \o ss[i]]
  <2> HIDE DEF g
  <2>1. g = [i \in 1 .. Len(ss) |-> g[i]]
    BY DEF g
  <2> QED
    BY <2>1, <1>5, Zenon
<1> QED
  BY <1>6 DEF Flattens

(* FlattenSeq keeps the order of the sequences, and all of each.           *)
LEMMA FlattenLaid ==
  ASSUME NEW S, NEW ss \in Seq(Seq(S))
  PROVE  \E home : Laid(FlattenSeq(ss), home, ss, Len(ss), S)
<1>1. CASE Len(ss) = 0
  <2>1. ss = << >> /\ FlattenSeq(ss) = << >>
    BY <1>1 DEF FlattenSeq
  <2>2. Laid(<< >>, << >>, << >>, 0, S)
    BY DEF Laid
  <2> QED
    BY <1>1, <2>1, <2>2
<1>2. CASE Len(ss) # 0
  <2> DEFINE f == CHOOSE f : Flattens(f, ss)
             Bad == {i \in 1 .. Len(ss) : ~\E home : Laid(f[i], home, ss, i, S)}
  <2>1. Flattens(f, ss)
    BY FlattensExists
  <2>2. FlattenSeq(ss) = f[Len(ss)]
    BY <1>2 DEF FlattenSeq, Flattens
  <2> HIDE DEF f
  <2>3. Len(ss) \in 1 .. Len(ss)
    BY <1>2
  <2>4. Bad = {}
    <3> SUFFICES ASSUME Bad # {} PROVE FALSE
      OBVIOUS
    <3>1. PICK i \in Bad : \A j \in Bad : i <= j
      <4> Bad \in SUBSET Nat
        OBVIOUS
      <4> HIDE DEF Bad
      <4> QED
        BY LeastNumber
    <3>2. i # 1
      <4>1. f[1] = ss[1] /\ ss[1] \in Seq(S)
        BY <1>2, <2>1 DEF Flattens
      <4> DEFINE one == [q \in 1 .. Len(ss[1]) |-> 1]
      <4>2. one \in [1 .. Len(ss[1]) -> 1 .. 1] /\ \A p \in 1 .. Len(ss[1]) : one[p] = 1
        OBVIOUS
      <4> HIDE DEF one
      <4>a. \A p \in 1 .. Len(ss[1]) : \E j \in 1 .. Len(ss[one[p]]) : ss[1][p] = ss[one[p]][j]
        BY <4>2
      <4>b. \A k \in 1 .. 1 : \A j \in 1 .. Len(ss[k]) :
              \E p \in 1 .. Len(ss[1]) : one[p] = k /\ ss[1][p] = ss[k][j]
        <5> SUFFICES ASSUME NEW j \in 1 .. Len(ss[1])
                     PROVE  \E p \in 1 .. Len(ss[1]) : one[p] = 1 /\ ss[1][p] = ss[1][j]
          OBVIOUS
        <5> QED
          BY <4>2
      <4>3. Laid(ss[1], one, ss, 1, S)
        BY <4>1, <4>2, <4>a, <4>b DEF Laid
      <4> QED
        BY <4>1, <4>3
    <3>3. i \in 1 .. Len(ss) /\ i - 1 \in 1 .. Len(ss) /\ i - 1 \in Nat /\ (i - 1) + 1 = i
      BY <3>1, <3>2
    <3>4. PICK home : Laid(f[i - 1], home, ss, i - 1, S)
      <4>1. ~(i <= i - 1)
        BY <3>3
      <4>2. i - 1 \notin Bad
        <5> HIDE DEF Bad
        <5> QED
          BY <3>1, <4>1
      <4> QED
        BY <3>3, <4>2
    <3>5. f[i] = f[i - 1] \o ss[i]
      BY <3>2, <3>3, <2>1 DEF Flattens
    <3>6. \E h : Laid(f[i - 1] \o ss[i], h, ss, i, S)
      BY <3>3, <3>4, LaidStep
    <3> QED
      BY <3>5, <3>6
  <2> QED
    BY <2>2, <2>3, <2>4
<1> QED
  BY <1>1, <1>2

-----------------------------------------------------------------------------
(* The topics of a contract.                                               *)

(* The QoS of a topic that says nothing, whose times are infinite.         *)
LEMMA DefaultParsed == DefaultQos \in QosSpecs /\ DefaultQos.depth = 10
<1> DEFINE times == [d \in Durations |-> Infinite]
<1>1. times \in [Durations -> Seconds]
  BY WidthAssumption DEF Infinite, Seconds
<1> HIDE DEF times
<1> QED
  BY <1>1 DEF DefaultQos, QosSpecs, SystemDefault, times

(* Every profile a contract can ask for has room for a sample.             *)
LEMMA QosParsed ==
  ASSUME NEW q \in QosNodes
  PROVE  ParseQos(q) \in QosSpecs /\ ParseQos(q).depth > 0
<1>1. DefaultQos \in QosSpecs /\ DefaultQos.depth = 10
  BY DefaultParsed
<1>2. DepthOr10(q.depth) \in Nat /\ DepthOr10(q.depth) > 0
  BY DEF DepthOr10, QosNodes
<1>3. CASE q.kind # "map"
  BY <1>1, <1>3 DEF ParseQos, QosSpecs, Automatic
<1>4. CASE q.kind = "map"
  <2> DEFINE r == LowerTrim(q.reliability) # "best_effort"
             h == LowerTrim(q.history) # "keep_all"
             t == LowerTrim(q.durability) = "transient_local"
             d == DepthOr10(q.depth)
  <2>1. ParseQos(q) = [DefaultQos EXCEPT !.reliable = r, !.keep_last = h,
                                         !.transient_local = t, !.depth = d]
    BY <1>4 DEF ParseQos
  <2>2. r \in BOOLEAN /\ h \in BOOLEAN /\ t \in BOOLEAN
    BY Zenon
  <2> HIDE DEF r, h, t, d
  <2>3. ParseQos(q) \in QosSpecs /\ ParseQos(q).depth = d
    BY <1>1, <1>2, <2>1, <2>2 DEF QosSpecs, d
  <2> QED
    BY <2>3, <1>2 DEF d
<1> QED
  BY <1>3, <1>4

(* The three ways a topic gets its strategy.                               *)
LEMMA StrategyCases ==
  ASSUME NEW s, NEW item
  PROVE  /\ s # "adjunct" => Strategy(s, item) = "no_buffer"
         /\ s = "adjunct" /\ item.strategy # Unset =>
              Strategy(s, item) = LowerTrim(item.strategy)
         /\ s = "adjunct" /\ item.strategy = Unset =>
              Strategy(s, item) =
                IF ParseQos(item.qos).transient_local THEN "accumulate" ELSE "no_buffer"
BY Zenon DEF Strategy

(* What a specification of the contract is: well-typed, and buffered only  *)
(* if it is latched and its depth leaves room for a sample.                *)
Sound(spec, names) ==
    /\ spec \in Specs(names)
    /\ spec.strategy # "no_buffer" => spec.qos.transient_local /\ spec.qos.depth > 0

LEMMA RecordTopicSound ==
  ASSUME NEW names, NEW s, NEW item \in Items(names), ItemOK(s, item)
  PROVE  Sound(RecordTopic(s, item), names)
<1>1. item.topic \in names /\ item.type \in STRING /\ item.qos \in QosNodes
  BY DEF Items, ItemOK
<1>2. ParseQos(item.qos) \in QosSpecs /\ ParseQos(item.qos).depth > 0
  BY <1>1, QosParsed
<1>3. s = "adjunct" => StrategyOK(item)
  BY DEF ItemOK
<1>4. /\ Strategy(s, item) \in Strategies
      /\ Strategy(s, item) # "no_buffer" => ParseQos(item.qos).transient_local
  <2>1. CASE s # "adjunct"
    BY <2>1, StrategyCases DEF Strategies
  <2>2. CASE s = "adjunct" /\ item.strategy # Unset
    BY <2>2, <1>3, StrategyCases DEF StrategyOK
  <2>3. CASE s = "adjunct" /\ item.strategy = Unset
    BY <2>3, StrategyCases DEF Strategies
  <2> QED
    BY <2>1, <2>2, <2>3
<1> QED
  BY <1>1, <1>2, <1>4 DEF Sound, Specs, RecordTopic

(* The topics section by section, and those of section k.                  *)
BySection(doc) ==
    [k \in 1 .. Len(SectionOrder) |->
        LET s == SectionOrder[k]
        IN  [j \in 1 .. Len(SectionItems(doc, s)) |->
                RecordTopic(s, SectionItems(doc, s)[j])]]

(* The items of a document that loads are well-typed and were checked.     *)
LEMMA ItemsChecked ==
  ASSUME NEW names, NEW doc \in Docs(names), Loads(doc),
         NEW k \in 1 .. Len(SectionOrder)
  PROVE  LET s == SectionOrder[k] IN
            /\ SectionItems(doc, s) \in Seq(Items(names))
            /\ \A j \in 1 .. Len(SectionItems(doc, s)) : ItemOK(s, SectionItems(doc, s)[j])
<1> DEFINE s == SectionOrder[k]
<1>1. s \in ToSet(SectionOrder)
  BY DEF ToSet, SectionOrder
<1>2. doc.sections[s].items \in Seq(Items(names))
  BY <1>1 DEF Docs
<1>3. SectionItems(doc, s) \in Seq(Items(names))
  BY <1>2 DEF SectionItems, Read
<1>4. \A j \in 1 .. Len(SectionItems(doc, s)) :
        SectionItems(doc, s)[j] \in ToSet(SectionItems(doc, s))
  BY <1>3 DEF ToSet
<1> HIDE DEF s
<1>5. \A j \in 1 .. Len(SectionItems(doc, s)) : ItemOK(s, SectionItems(doc, s)[j])
  BY <1>1, <1>4 DEF Loads
<1> QED
  BY <1>3, <1>5 DEF s

LEMMA BySectionTyped ==
  ASSUME NEW names, NEW doc \in Docs(names), Loads(doc)
  PROVE  BySection(doc) \in Seq(Seq({x \in Specs(names) : Sound(x, names)}))
<1> DEFINE S == {x \in Specs(names) : Sound(x, names)}
           items(k) == SectionItems(doc, SectionOrder[k])
           row(k) == [j \in 1 .. Len(items(k)) |-> RecordTopic(SectionOrder[k], items(k)[j])]
<1>1. ASSUME NEW k \in 1 .. Len(SectionOrder) PROVE row(k) \in Seq(S)
  <2>1. items(k) \in Seq(Items(names)) /\ Len(items(k)) \in Nat
    BY ItemsChecked
  <2>2. ASSUME NEW j \in 1 .. Len(items(k)) PROVE RecordTopic(SectionOrder[k], items(k)[j]) \in S
    <3>1. items(k)[j] \in Items(names) /\ ItemOK(SectionOrder[k], items(k)[j])
      BY <2>1, ItemsChecked
    <3>2. Sound(RecordTopic(SectionOrder[k], items(k)[j]), names)
      BY <3>1, RecordTopicSound
    <3> QED
      BY <3>2 DEF Sound
  <2> HIDE DEF S, items
  <2> QED
    BY <2>1, <2>2
<1>2. Len(SectionOrder) \in Nat
  BY DEF SectionOrder
<1>3. BySection(doc) = [k \in 1 .. Len(SectionOrder) |-> row(k)]
  BY DEF BySection
<1> HIDE DEF row, S
<1>4. BySection(doc) \in Seq(Seq(S))
  BY <1>1, <1>2, <1>3
<1> QED
  BY <1>4 DEF S

(* home[p] is the place in SectionOrder of the section that topic p of the *)
(* contract was read from.                                                 *)
ReadFrom(home, doc) ==
    /\ home \in [1 .. Len(Topics(doc)) -> 1 .. Len(SectionOrder)]
    /\ \A p, q \in 1 .. Len(Topics(doc)) : p <= q => home[p] <= home[q]
    /\ \A p \in 1 .. Len(Topics(doc)) : LET s == SectionOrder[home[p]] IN
        \E item \in ToSet(SectionItems(doc, s)) : Topics(doc)[p] = RecordTopic(s, item)
    /\ \A k \in 1 .. Len(SectionOrder) : LET s == SectionOrder[k] IN
        \A item \in ToSet(SectionItems(doc, s)) :
            \E p \in 1 .. Len(Topics(doc)) :
                home[p] = k /\ Topics(doc)[p] = RecordTopic(s, item)

(* load_contract returns the topics of all sections, nothing else, and in  *)
(* the order of the sections, whatever the document lists: the topic ids   *)
(* of the bag follow from it.                                              *)
THEOREM TopicsInSectionOrder ==
  ASSUME NEW names, NEW doc \in Docs(names), Loads(doc)
  PROVE  \E home : ReadFrom(home, doc)
<1> DEFINE S == {x \in Specs(names) : Sound(x, names)}
           ss == BySection(doc)
           n == Len(SectionOrder)
<1>1. ss \in Seq(Seq(S))
  BY BySectionTyped
<1>2. Topics(doc) = FlattenSeq(ss)
  BY DEF Topics, BySection
<1>3. n \in Nat
  BY DEF SectionOrder
<1>4. Len(ss) = n
  BY <1>3 DEF BySection
<1>5. PICK home : Laid(Topics(doc), home, ss, n, S)
  <2> HIDE DEF ss, S, n
  <2> QED
    BY <1>1, <1>2, <1>4, FlattenLaid
<1>6. ASSUME NEW k \in 1 .. n
      PROVE  LET s == SectionOrder[k] IN
                /\ Len(ss[k]) = Len(SectionItems(doc, s))
                /\ \A j \in 1 .. Len(ss[k]) : ss[k][j] = RecordTopic(s, SectionItems(doc, s)[j])
                /\ ToSet(SectionItems(doc, s)) =
                      {SectionItems(doc, s)[j] : j \in 1 .. Len(ss[k])}
  <2> DEFINE items == SectionItems(doc, SectionOrder[k])
  <2>1. items \in Seq(Items(names)) /\ Len(items) \in Nat /\ DOMAIN items = 1 .. Len(items)
    BY ItemsChecked
  <2>2. ss[k] = [j \in 1 .. Len(items) |-> RecordTopic(SectionOrder[k], items[j])]
    BY DEF BySection
  <2> HIDE DEF items, ss
  <2>3. Len(ss[k]) = Len(items)
    BY <2>1, <2>2
  <2>4. \A j \in 1 .. Len(ss[k]) : ss[k][j] = RecordTopic(SectionOrder[k], items[j])
    BY <2>2, <2>3
  <2>5. ToSet(items) = {items[j] : j \in 1 .. Len(ss[k])}
    BY <2>1, <2>3 DEF ToSet
  <2> QED
    BY <2>3, <2>4, <2>5 DEF items
<1> HIDE DEF ss, S
<1>7. home \in [1 .. Len(Topics(doc)) -> 1 .. n]
  BY <1>5 DEF Laid
<1>8. \A p, q \in 1 .. Len(Topics(doc)) : p <= q => home[p] <= home[q]
  BY <1>5 DEF Laid
<1>9. ASSUME NEW p \in 1 .. Len(Topics(doc))
      PROVE  LET s == SectionOrder[home[p]] IN
                \E item \in ToSet(SectionItems(doc, s)) : Topics(doc)[p] = RecordTopic(s, item)
  <2>1. home[p] \in 1 .. n
    BY <1>7
  <2>2. PICK j \in 1 .. Len(ss[home[p]]) : Topics(doc)[p] = ss[home[p]][j]
    BY <1>5 DEF Laid
  <2> DEFINE s == SectionOrder[home[p]]
             item == SectionItems(doc, s)[j]
  <2>3. item \in ToSet(SectionItems(doc, s)) /\ ss[home[p]][j] = RecordTopic(s, item)
    BY <2>1, <1>6
  <2> HIDE DEF item
  <2> QED
    BY <2>2, <2>3
<1>10. ASSUME NEW k \in 1 .. n, NEW item \in ToSet(SectionItems(doc, SectionOrder[k]))
       PROVE  \E p \in 1 .. Len(Topics(doc)) :
                home[p] = k /\ Topics(doc)[p] = RecordTopic(SectionOrder[k], item)
  <2>1. PICK j \in 1 .. Len(ss[k]) : item = SectionItems(doc, SectionOrder[k])[j]
    BY <1>6
  <2>2. PICK p \in 1 .. Len(Topics(doc)) : home[p] = k /\ Topics(doc)[p] = ss[k][j]
    BY <1>5 DEF Laid
  <2> QED
    BY <2>1, <2>2, <1>6
<1>11. ReadFrom(home, doc)
  BY <1>7, <1>8, <1>9, <1>10, Zenon DEF ReadFrom
<1> QED
  BY <1>11

(* Only a latched topic is buffered, and there is room for a sample of it, *)
(* whatever depth or strategy the document asks for: without this a bag    *)
(* would open without the latched samples it is buffered for.              *)
THEOREM BufferedTopicsAreLatched ==
  ASSUME NEW names, NEW doc \in Docs(names), Loads(doc)
  PROVE  /\ Topics(doc) \in Seq(Specs(names))
         /\ \A p \in 1 .. Len(Topics(doc)) : Sound(Topics(doc)[p], names)
<1> DEFINE S == {x \in Specs(names) : Sound(x, names)}
<1>1. BySection(doc) \in Seq(Seq(S))
  BY BySectionTyped
<1>2. Topics(doc) = FlattenSeq(BySection(doc))
  BY DEF Topics, BySection
<1>3. Topics(doc) \in Seq(S)
  <2> HIDE DEF S
  <2> QED
    BY <1>1, <1>2, FlattenLaid DEF Laid
<1> QED
  BY <1>3

=============================================================================
