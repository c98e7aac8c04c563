------------------------------- MODULE Contract -------------------------------
(***************************************************************************)
(* load_contract: from a parsed YAML file to the list of topics to record, *)
(* and the QoS a subscription requests and a bag advertises.               *)
(*                                                                         *)
(* A document is what the YAML library hands over.  Its sections are nodes *)
(*   [kind, items]: kind "absent", "null", "scalar", "map" or "seq"; a map *)
(*   is a section with one item;                                           *)
(* its items are                                                           *)
(*   [kind, publish, topic, type, qos, strategy], the last four read from  *)
(*   the mapping under `publish:` in an action;                            *)
(* words are spelled <<word, style>>: style "odd" has capitals or blanks,  *)
(*   and a word that is not there has no style.                            *)
(* Every failure is an exception that on_configure turns into FAILURE, so  *)
(* a document loads or it does not.  fps is abstracted to its sign, and    *)
(* what the node never reads (max_duration_s, recording.storage) is left   *)
(* out.                                                                    *)
(***************************************************************************)
EXTENDS Integers, SequencesExt

CONSTANTS
    MaxInt32,       \* the largest int32_t, which kInfiniteSec is too
    RmwInfinite     \* the seconds of rmw's own infinite duration

ASSUME WidthAssumption ==
    /\ MaxInt32 \in Nat
    /\ RmwInfinite \in Nat /\ MaxInt32 < RmwInfinite
    /\ RmwInfinite % (2 * (MaxInt32 + 1)) <= MaxInt32

Missing == "missing"
Blank == "blank"
Unset == <<"unset", "none">>

Kinds == {"absent", "null", "scalar", "map", "seq"}
Words == (STRING \X {"plain", "odd"}) \cup {Unset}

(* lower_trim.                                                             *)
LowerTrim(spelled) == spelled[1]

-----------------------------------------------------------------------------
(* QoS.  A duration is its whole seconds.                                  *)

Infinite == MaxInt32
SystemDefault == 0
Automatic == 1

Durations == {"deadline", "lifespan", "liveliness_lease"}

(* What DDS can carry in an int32_t, and what rmw calls infinite.          *)
Seconds == 0 .. MaxInt32 \cup {RmwInfinite}

(* QosSpec.                                                                *)
DefaultQos ==
    [depth |-> 10, reliable |-> TRUE, keep_last |-> TRUE, transient_local |-> FALSE,
     liveliness |-> SystemDefault, time |-> [d \in Durations |-> Infinite], match |-> FALSE]

QosSpecs ==
    [depth : Nat, reliable : BOOLEAN, keep_last : BOOLEAN, transient_local : BOOLEAN,
     liveliness : Nat, time : [Durations -> Seconds], match : BOOLEAN]

(* What rmw reports of a publisher, external.  DDS does not announce every *)
(* policy, and its depth is an int32_t.                                    *)
Profiles ==
    [reliability : {"reliable", "best_effort", "system_default", "unknown"},
     durability : {"transient_local", "volatile", "system_default", "unknown"},
     history : {"keep_last", "keep_all", "system_default", "unknown"},
     depth : 0 .. MaxInt32, liveliness : Nat, time : [Durations -> Seconds]]

(* Seeded fault: a depth of zero or less is taken as it is.                *)
DepthAsIs(depth) == depth

DepthOr10(depth) == IF depth <= 0 THEN 10 ELSE depth

(* parse_qos, of [kind, reliability, history, durability, depth].  A qos   *)
(* that is absent, empty or not a mapping is Python's bare 10, which       *)
(* reports AUTOMATIC liveliness; a depth that is absent or no number is 10. *)
ParseQos(q) ==
    IF q.kind # "map" THEN [DefaultQos EXCEPT !.liveliness = Automatic]
    ELSE [DefaultQos EXCEPT
            !.reliable = LowerTrim(q.reliability) # "best_effort",
            !.keep_last = LowerTrim(q.history) # "keep_all",
            !.transient_local = LowerTrim(q.durability) = "transient_local",
            !.depth = DepthOr10(q.depth)]

(* duration_from: the cast to int32_t keeps the low bits.                  *)
Cast(sec) ==
    LET low == sec % (2 * (MaxInt32 + 1))
    IN  IF low <= MaxInt32 THEN low ELSE low - 2 * (MaxInt32 + 1)

(* to_rclcpp: KeepAll() has no depth, and a subscription requests the      *)
(* publisher-only policies just for a discovered topic; rclcpp's defaults  *)
(* ask nothing of them.                                                    *)
Requested(qos) ==
    [depth |-> IF qos.keep_last THEN qos.depth ELSE 0, keep_last |-> qos.keep_last,
     reliable |-> qos.reliable, transient_local |-> qos.transient_local,
     liveliness |-> IF qos.match THEN qos.liveliness ELSE SystemDefault,
     time |-> [d \in Durations |-> IF qos.match THEN Cast(qos.time[d]) ELSE RmwInfinite]]

(* to_offered_qos: what a bag advertises, as an object.                    *)
Offered(qos) == Requested([qos EXCEPT !.match = TRUE])

(* to_offered_qos_yaml: the same as text, which keeps the depth and the    *)
(* full width of the seconds.                                              *)
OfferedYaml(qos) ==
    [depth |-> qos.depth, keep_last |-> qos.keep_last, reliable |-> qos.reliable,
     transient_local |-> qos.transient_local, liveliness |-> qos.liveliness,
     time |-> qos.time]

-----------------------------------------------------------------------------
(* Topics.                                                                 *)

Strategies == {"no_buffer", "accumulate", "resubscribe_on_start"}

(* Seeded fault: any topic may be buffered.                                *)
StrategyKnown(item) == item.strategy = Unset \/ LowerTrim(item.strategy) \in Strategies

(* Seeded fault: a strategy nobody knows is let through.                   *)
StrategyLatched(item) ==
    \/ item.strategy = Unset
    \/ LowerTrim(item.strategy) = "no_buffer" \/ ParseQos(item.qos).transient_local

(* parse_adjunct: the strategy must be known, and only a latched topic can *)
(* be buffered.                                                            *)
StrategyOK(item) ==
    item.strategy = Unset \/
        /\ LowerTrim(item.strategy) \in Strategies
        /\ LowerTrim(item.strategy) # "no_buffer" => ParseQos(item.qos).transient_local

(* An adjunct topic that does not say is buffered if it is latched, any    *)
(* other topic never.                                                      *)
Strategy(section, item) ==
    CASE section # "adjunct" -> "no_buffer"
      [] section = "adjunct" /\ item.strategy # Unset -> LowerTrim(item.strategy)
      [] OTHER -> IF ParseQos(item.qos).transient_local THEN "accumulate" ELSE "no_buffer"

RecordTopic(section, item) ==
    [topic |-> item.topic, type |-> item.type, qos |-> ParseQos(item.qos),
     strategy |-> Strategy(section, item)]

Specs(names) == [topic : names, type : STRING, qos : QosSpecs, strategy : Strategies]

(* require_str, and the kind checks of the collect functions.  tasks lack  *)
(* the check that an item is a mapping, but fail in require_str, or inside *)
(* the YAML library, when it is not.                                       *)
ItemOK(section, item) ==
    /\ item.kind = "map"
    /\ section = "actions" => item.publish
    /\ item.topic \notin {Missing, Blank}
    /\ item.type \notin {Missing, Blank}
    /\ section = "adjunct" => StrategyOK(item)

(* The items the loader looks at: adjunct may be a single item, any other  *)
(* section that is not a sequence is passed over without a word.           *)
Read(section, node) ==
    IF node.kind = "seq" \/ (section = "adjunct" /\ node.kind \in {"map", "scalar"})
    THEN node.items ELSE << >>

(* Seeded fault: tasks are read before the extended sections.              *)
TasksEarly ==
    <<"observations", "actions", "tasks", "rewards", "signals", "info",
      "complementary_data", "adjunct">>

(* The order fixes the bag's topic ids.                                    *)
SectionOrder ==
    <<"observations", "actions", "rewards", "signals", "info",
      "complementary_data", "tasks", "adjunct">>

SectionItems(doc, s) == Read(s, doc.sections[s])

(* The documents whose topics have the given names.                        *)
QosNodes ==
    [kind : Kinds, reliability : Words, history : Words, durability : Words, depth : Int]
Items(names) ==
    [kind : Kinds, publish : BOOLEAN, topic : names \cup {Missing, Blank}, type : STRING,
     qos : QosNodes, strategy : Words]
Docs(names) ==
    [root : Kinds, robot_type : STRING, fps : Int,
     sections : [ToSet(SectionOrder) -> [kind : Kinds, items : Seq(Items(names))]]]

(* load_contract succeeds.                                                 *)
Loads(doc) ==
    /\ doc.root = "map"
    /\ doc.robot_type \notin {Missing, Blank}
    /\ doc.fps > 0
    /\ \A s \in ToSet(SectionOrder) :
        \A item \in ToSet(SectionItems(doc, s)) : ItemOK(s, item)

(* The topics it returns then.                                             *)
Topics(doc) ==
    FlattenSeq([k \in 1 .. Len(SectionOrder) |->
        LET s == SectionOrder[k]
        IN  [j \in 1 .. Len(SectionItems(doc, s)) |->
                RecordTopic(s, SectionItems(doc, s)[j])]])

=============================================================================
