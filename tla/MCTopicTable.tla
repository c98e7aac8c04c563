----------------------------- MODULE MCTopicTable -----------------------------
(* A small graph and a handful of contracts for TopicTable.                *)
EXTENDS TopicTable

Word(w) == <<w, "plain">>
Odd(w) == <<w, "odd">>

NoQos ==
    [kind |-> "absent", reliability |-> Unset, history |-> Unset,
     durability |-> Unset, depth |-> 10]
Latched(depth) ==
    [NoQos EXCEPT !.kind = "map", !.durability = Odd("transient_local"), !.depth = depth]
Sensor == [NoQos EXCEPT !.kind = "map", !.reliability = Word("best_effort"),
                        !.history = Word("keep_all")]

Item(topic) ==
    [kind |-> "map", publish |-> TRUE, topic |-> topic, type |-> "T", qos |-> NoQos,
     strategy |-> Unset]
LatchedItem(topic, depth, strategy) ==
    [Item(topic) EXCEPT !.qos = Latched(depth), !.strategy = strategy]

Absent == [kind |-> "absent", items |-> << >>]
List(items) == [kind |-> "seq", items |-> items]

EmptyDoc ==
    [root |-> "map", robot_type |-> "arm", fps |-> 30,
     sections |-> [s \in ToSet(SectionOrder) |-> Absent]]

\* no deferred start; /clock is in the contract already, a scalar section is ignored
Plain ==
    [EmptyDoc EXCEPT
        !.sections["observations"] = List(<<[Item("/clock") EXCEPT !.qos = Sensor]>>),
        !.sections["complementary_data"] = List(<<Item("/cmd")>>),
        !.sections["tasks"] = List(<<Item("/goal")>>),
        !.sections["info"] = [kind |-> "scalar", items |-> <<Item("/map")>>],
        !.sections["adjunct"] = [kind |-> "map", items |-> <<LatchedItem("/map", 1, Unset)>>]]

\* a deferred start; the later, latched listing of /cmd is dropped
Resubscribing ==
    [EmptyDoc EXCEPT
        !.sections["actions"] = List(<<Item("/cmd")>>),
        !.sections["rewards"] = List(<<Item("/map")>>),
        !.sections["tasks"] = List(<<Item("/cmd")>>),
        !.sections["adjunct"] = List(<<
            LatchedItem("/cmd", 1, Unset),
            LatchedItem("/tf", 0, Odd("resubscribe_on_start"))>>)]

\* documents that do not load, for one reason each
Adjunct(item) == [EmptyDoc EXCEPT !.sections["adjunct"] = List(<<item>>)]
Malformed ==
    <<[EmptyDoc EXCEPT !.root = "seq"],
      [EmptyDoc EXCEPT !.robot_type = Blank],
      [EmptyDoc EXCEPT !.fps = 0],
      [EmptyDoc EXCEPT !.sections["actions"] = List(<<[Item("/cmd") EXCEPT !.publish = FALSE]>>)],
      [EmptyDoc EXCEPT !.sections["tasks"] = List(<<[Item("/cmd") EXCEPT !.kind = "scalar"]>>)],
      Adjunct([Item("/tf") EXCEPT !.topic = Missing]),
      Adjunct([Item("/tf") EXCEPT !.type = Blank]),
      Adjunct(LatchedItem("/tf", 1, Word("often"))),
      Adjunct([Item("/tf") EXCEPT !.strategy = Word("resubscribe_on_start")])>>

MCDocuments == <<Plain, Resubscribing>> \o Malformed

MCNames == {"/clock", "/cmd", "/goal", "/map", "/tf", "/rosout", "/x", "/y", "/z"}
MCGraphOrder == <<"/cmd", "/rosout", "/x", "/y", "/z">>
MCGraphs == {{"/rosout", "/x", "/y", "/z"}, {"/cmd", "/y"}}
MCActive == {"/map", "/tf", "/x"}
MCTypes == [n \in MCNames |-> IF n = "/z" THEN << >> ELSE <<"T">>]
Sensing ==
    [reliability |-> "unknown", durability |-> "volatile", history |-> "unknown",
     depth |-> 0, liveliness |-> Automatic,
     time |-> [deadline |-> 3, lifespan |-> Infinite, liveliness_lease |-> Infinite]]
Unlimited ==
    [reliability |-> "reliable", durability |-> "transient_local", history |-> "keep_all",
     depth |-> 5, liveliness |-> Automatic, time |-> [d \in Durations |-> RmwInfinite]]
MCPublishers ==
    [n \in MCNames |->
        CASE n = "/x" -> <<Sensing, Unlimited>>
          [] n = "/y" -> <<Unlimited>>
          [] OTHER -> << >>]
MCOversize == {<<"/tf", 2>>}
MCExclude == {"/y"}
MCInclude == {"/y"}
=============================================================================
