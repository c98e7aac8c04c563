------------------------------ MODULE TopicTable ------------------------------
(***************************************************************************)
(* The recorder's table of topics: built from the contract, subscribed to, *)
(* extended by discovery, cut back when a bag closes, and read by index    *)
(* from three sides: the subscription callbacks, which captured the index  *)
(* when they were made, the message queue, which carries it, and the       *)
(* writer thread, which looks the name up when it writes.                  *)
(*                                                                         *)
(* Samples of a topic are numbered.  A subscription delivers them in that  *)
(* order, and may miss any; a new one to a latched topic may be given old  *)
(* samples again, as many as the publishers still hold.  The writer thread *)
(* is reduced to writing or discarding what is under way                   *)
(* (WriterQueue has the rest), goals and services to the fact that an      *)
(* episode starts and ends (EpisodeRecorder has the rest).  rosbag2 and    *)
(* rclcpp are external.                                                    *)
(***************************************************************************)
EXTENDS Contract, FiniteSets

CONSTANTS
    Documents,      \* a sequence: what contract_path may hold at a configuration
    Names,          \* topic names
    GraphOrder,     \* the names on the ROS graph, in the order of std::map
    Types,          \* the types the graph gives each name, empty if unknown
    Publishers,     \* the profiles of each name's publishers
    ExcludeTopics,  \* names matched by the user's exclude_topics
    IncludeTopics,  \* names matched by include_topics
    RecordAll,      \* record_all
    UseSimTime,     \* use_sim_time
    Oversize,       \* samples <<name, number>> larger than kMaxBufferBytes
    Graphs,         \* bound: the views of the graph a start may get
    Active,         \* bound: the names samples are published on
    MaxSamples,     \* bound: samples published, all topics together
    MaxEpisodes,    \* bound: starts
    MaxQueued       \* messages under way to the bag

ASSUME DocumentsAssumption == Documents \in Seq(Docs(Names))
ASSUME FlagsAssumption == RecordAll \in BOOLEAN /\ UseSimTime \in BOOLEAN
ASSUME ClockAssumption ==
    UseSimTime => "/clock" \in Names /\ "rosgraph_msgs/msg/Clock" \in STRING
ASSUME GraphAssumption ==
    /\ GraphOrder \in Seq(Names)
    /\ \A i, j \in 1 .. Len(GraphOrder) : GraphOrder[i] = GraphOrder[j] => i = j
    /\ Types \in [Names -> Seq(STRING)]
    /\ Publishers \in [Names -> Seq(Profiles)]
    /\ \A graph \in Graphs : graph \subseteq Names
ASSUME BoundsAssumption ==
    /\ MaxSamples \in Nat /\ MaxEpisodes \in Nat /\ MaxQueued \in Nat
    /\ Active \subseteq Names /\ IsFiniteSet(Active)

VARIABLES
    contract,      \* contract_, as far as it is used: the document the table
                   \* was built from, or NoContract
    phase,         \* "unconfigured", "ready", "pending", "recording" or "gone"
    topics,        \* topics_
    topic_index,   \* topic_index_: the position of each name, 0 if it has none
    writer,        \* writer_: NoBag, or the episode whose bag is open
    queued,        \* messages in the queue or in the writer thread's batch
    published,     \* the newest sample of each topic
    episode,       \* starts so far
    bag,           \* what the open bag holds
  \* history
    aborted        \* a start or a close failed since the table was last cut back

table == <<topics, topic_index>>
vars == <<contract, phase, table, writer, queued, published, episode, bag,
          aborted>>

-----------------------------------------------------------------------------
NoBag == 0
NoContract == 0
NoIndex == [n \in Names |-> 0]
Episodes == 1 .. MaxEpisodes
BlankBag == [registered |-> << >>, head |-> << >>, live |-> {}]

Init ==
    /\ contract = NoContract
    /\ phase = "unconfigured"
    /\ topics = << >>
    /\ topic_index = NoIndex
    /\ writer = NoBag
    /\ queued = << >>
    /\ published = [n \in Names |-> 0]
    /\ episode = 0
    /\ bag = BlankBag
    /\ aborted = FALSE

-----------------------------------------------------------------------------
(* The table.                                                              *)

(* TopicState.  sub is the index the callback captured, 0 without a        *)
(* subscription; seen and live are the last sample the subscription        *)
(* delivered and the last it delivered to a recording, made the start it   *)
(* was made anew for.                                                      *)
Entry(spec, discovered) ==
    [spec |-> spec, sub |-> 0, seen |-> 0, live |-> 0, made |-> 0,
     buffer |-> << >>, discovered |-> discovered]

(* create_subscription_for(i): only a latched topic gives old samples to a *)
(* new subscription.                                                       *)
Subscribed(entry, i) ==
    [entry EXCEPT !.sub = i, !.live = 0,
                  !.seen = IF entry.spec.qos.transient_local THEN 0
                           ELSE published[entry.spec.topic]]

(* build_topic_list: a topic that is listed twice keeps its first entry.   *)
Add(acc, spec) ==
    IF acc.index[spec.topic] # 0 THEN acc
    ELSE [topics |-> Append(acc.topics, Entry(spec, FALSE)),
          index |-> [acc.index EXCEPT ![spec.topic] = Len(acc.topics) + 1]]

Clock ==
    [topic |-> "/clock", type |-> "rosgraph_msgs/msg/Clock",
     qos |-> [DefaultQos EXCEPT !.liveliness = Automatic], strategy |-> "no_buffer"]

BuildTopicList(doc) ==
    LET specs == Topics(doc) \o IF UseSimTime THEN <<Clock>> ELSE << >>
        build[k \in 0 .. Len(specs)] ==
            IF k = 0 THEN [topics |-> << >>, index |-> NoIndex]
            ELSE Add(build[k - 1], specs[k])
    IN  build[Len(specs)]

(* The documents that load, and the table each gives.                      *)
Valid == {d \in 1 .. Len(Documents) : Loads(Documents[d])}
Built == [d \in Valid |-> BuildTopicList(Documents[d])]

(* The elements of a sequence that are in S, in their order.               *)
Keep(s, S) ==
    LET kept[k \in 0 .. Len(s)] ==
            IF k = 0 THEN << >>
            ELSE IF s[k] \in S THEN Append(kept[k - 1], s[k]) ELSE kept[k - 1]
    IN  kept[Len(s)]

DefaultBlacklist == {"/rosout", "/parameter_events"}

(* discover_topics: what is on the graph, has a type, is not recorded yet, *)
(* and is included or not excluded.                                        *)
Wanted(name) ==
    /\ topic_index[name] = 0
    /\ Types[name] # << >>
    /\ name \in IncludeTopics \/ name \notin DefaultBlacklist \cup ExcludeTopics

(* Seeded fault: the policies are read as a contract's are, where what is  *)
(* not best effort is reliable.                                            *)
CopyQosLikeContract(name) ==
    IF Publishers[name] = << >> THEN DefaultQos
    ELSE LET p == Publishers[name][1]
         IN  [depth |-> p.depth, reliable |-> p.reliability # "best_effort",
              keep_last |-> p.history # "keep_all",
              transient_local |-> p.durability = "transient_local",
              liveliness |-> p.liveliness, time |-> p.time, match |-> TRUE]

(* The profile of the first publisher, or the default without one.  The    *)
(* policies become Booleans; depth and times keep their values, which fit. *)
CopyQos(name) ==
    IF Publishers[name] = << >> THEN DefaultQos
    ELSE LET p == Publishers[name][1]
         IN  [depth |-> p.depth, reliable |-> p.reliability = "reliable",
              keep_last |-> p.history # "keep_all",
              transient_local |-> p.durability = "transient_local",
              liveliness |-> p.liveliness, time |-> p.time, match |-> TRUE]

DiscoveredSpec(name) ==
    [topic |-> name, type |-> Types[name][1], qos |-> CopyQos(name),
     strategy |-> "no_buffer"]

(* Seeded fault: discovered topics are put in front of the others.         *)
DiscoverInFront(graph) ==
    LET found == Keep(GraphOrder, {n \in graph : Wanted(n)})
    IN  [k \in 1 .. Len(found) |-> Subscribed(Entry(DiscoveredSpec(found[k]), TRUE), k)]
        \o topics

(* Seeded fault: the index is read after the entry was pushed.             *)
DiscoverOffByOne(graph) ==
    LET found == Keep(GraphOrder, {n \in graph : Wanted(n)})
    IN  topics \o [k \in 1 .. Len(found) |->
            Subscribed(Entry(DiscoveredSpec(found[k]), TRUE), Len(topics) + k + 1)]

Discover(graph) ==
    LET found == Keep(GraphOrder, {n \in graph : Wanted(n)})
    IN  topics \o [k \in 1 .. Len(found) |->
            Subscribed(Entry(DiscoveredSpec(found[k]), TRUE), Len(topics) + k)]

(* Seeded fault: the buffer keeps what it held.                            *)
RenewKeepsBuffer(entry, i) ==
    Subscribed([entry EXCEPT !.made = episode + 1], i)

(* The subscription is made anew for the start under way, and the buffer   *)
(* emptied.                                                                *)
Renew(entry, i) ==
    Subscribed([entry EXCEPT !.buffer = << >>, !.made = episode + 1], i)

Resubscribes(entry) == entry.spec.strategy = "resubscribe_on_start"

(* prepare_resubscribes, in a graph as it is seen at this moment.          *)
Prepared(graph) ==
    LET t == IF RecordAll THEN Discover(graph) ELSE topics
    IN  [i \in 1 .. Len(t) |-> IF Resubscribes(t[i]) THEN Renew(t[i], i) ELSE t[i]]

(* The position of each name; of two, the last.                            *)
IndexOf(t) ==
    [n \in Names |-> LET at == {i \in 1 .. Len(t) : t[i].spec.topic = n}
                     IN  IF at = {} THEN 0 ELSE CHOOSE i \in at : \A j \in at : j <= i]

Listed == {t \in ToSet(topics) : ~t.discovered}

(* Seeded fault: the index is not rebuilt.                                 *)
CutBackTopicsOnly ==
    /\ topics' = Keep(topics, Listed)
    /\ UNCHANGED topic_index

(* Seeded fault: discovered topics stay for the next episode.              *)
CutBackNothing == UNCHANGED table

(* destroy_discovered_subscriptions.                                       *)
CutBack ==
    /\ topics' = Keep(topics, Listed)
    /\ topic_index' = IndexOf(topics')

-----------------------------------------------------------------------------
(* Configuring and cleaning up.                                            *)

(* on_configure: the list is built, then subscribed to in order.           *)
OnConfigure(d) ==
    /\ phase = "unconfigured"
    /\ d \in Valid
    /\ topics' = [i \in 1 .. Len(Built[d].topics) |-> Subscribed(Built[d].topics[i], i)]
    /\ topic_index' = Built[d].index
    /\ contract' = d
    /\ phase' = "ready"
    /\ aborted' = FALSE
    /\ UNCHANGED <<writer, queued, published, episode, bag>>

(* on_configure fails before it touches the table: the contract does not   *)
(* load.  A parameter that is no good does the same.                       *)
ConfigureFails(d) ==
    /\ phase = "unconfigured"
    /\ d \notin Valid
    /\ UNCHANGED vars

(* Subscribing to topic i throws, or, past the last one, making the action *)
(* server: the subscriptions made before stay, and deliver, although the   *)
(* node is unconfigured.                                                   *)
SubscribeFails(d, i) ==
    /\ phase = "unconfigured"
    /\ topics' = [j \in 1 .. Len(Built[d].topics) |->
                    IF j < i THEN Subscribed(Built[d].topics[j], j) ELSE Built[d].topics[j]]
    /\ topic_index' = Built[d].index
    /\ contract' = d
    /\ aborted' = FALSE
    /\ UNCHANGED <<phase, writer, queued, published, episode, bag>>

ClearTable == topics' = << >> /\ topic_index' = NoIndex

(* on_cleanup, once the writer thread has dealt with what was under way    *)
(* and is joined.                                                          *)
OnCleanup ==
    /\ phase = "ready"
    /\ queued = << >>
    /\ ClearTable
    /\ contract' = NoContract
    /\ phase' = "unconfigured"
    /\ aborted' = FALSE
    /\ UNCHANGED <<writer, queued, published, episode, bag>>

(* on_shutdown, which drops a deferred start, and the end of the process.  *)
OnShutdown ==
    /\ phase \in {"unconfigured", "ready", "pending"}
    /\ queued = << >>
    /\ ClearTable
    /\ phase' = "gone"
    /\ UNCHANGED <<contract, writer, queued, published, episode, bag, aborted>>

-----------------------------------------------------------------------------
(* Messages.                                                               *)

Samples == {s \in Active \X (1 .. MaxSamples) : s[2] <= published[s[1]]}

Publish(name) ==
    /\ phase # "gone"
    /\ Cardinality(Samples) < MaxSamples
    /\ published' = [published EXCEPT ![name] = @ + 1]
    /\ UNCHANGED <<contract, phase, table, writer, queued, episode, bag,
                   aborted>>

Retains(spec) == spec.qos.transient_local /\ spec.strategy # "no_buffer"

(* Seeded fault: a full buffer refuses the new sample.                     *)
KeepOldest(buffer, depth, sample) ==
    IF Len(buffer) < depth THEN Append(buffer, sample) ELSE buffer

(* Seeded fault: nothing is popped.                                        *)
KeepAll(buffer, depth, sample) == Append(buffer, sample)

(* push_back, then pop_front down to the depth.                            *)
KeepNewest(buffer, depth, sample) ==
    LET b == Append(buffer, sample)
    IN  IF Len(b) > depth THEN SubSeq(b, Len(b) - depth + 1, Len(b)) ELSE b

(* on_message(index, ...) while not recording.                             *)
Retain(t, index, item) ==
    IF index <= Len(t) /\ Retains(t[index].spec)
       /\ <<t[index].spec.topic, item.sample>> \notin Oversize
    THEN [t EXCEPT ![index].buffer = KeepNewest(@, t[index].spec.qos.depth, item)]
    ELSE t

(* The subscription at position p has a sample, of those it has yet to     *)
(* deliver, and calls on_message with the index it captured.               *)
Deliverable(p, sample) ==
    /\ phase # "gone"
    /\ topics[p].sub # 0
    /\ sample \in topics[p].seen + 1 .. published[topics[p].spec.topic]

(* A retained sample is marked with the subscription it came through.      *)
OnMessageIdle(p, sample) ==
    /\ Deliverable(p, sample)
    /\ phase # "recording"
    /\ LET item == [sample |-> sample, via |-> topics[p].made]
       IN  topics' = [Retain(topics, topics[p].sub, item) EXCEPT ![p].seen = sample]
    /\ UNCHANGED <<contract, phase, topic_index, writer, queued, published, episode,
                   bag, aborted>>

(* While recording the message is queued with the index, or dropped.       *)
OnMessageRecording(p, sample) ==
    /\ Deliverable(p, sample)
    /\ phase = "recording"
    /\ topics' = [topics EXCEPT ![p].seen = sample, ![p].live = sample]
    /\ LET m == [of |-> topics[p].spec.topic, index |-> topics[p].sub, ep |-> episode]
       IN  queued' = IF Len(queued) < MaxQueued THEN Append(queued, m) ELSE queued
    /\ UNCHANGED <<contract, phase, topic_index, writer, published, episode, bag,
                   aborted>>

(* The name the writer thread finds at the message's index.                *)
LookUp(m) == topics[m.index].spec.topic

(* The episode the message was queued in is still being recorded.          *)
Current(m) == phase = "recording" /\ m.ep = episode

(* The writer thread writes to the open bag.  It skips an index past the   *)
(* end of the table, and rosbag2 refuses a name the bag does not have.     *)
WriteQueued ==
    /\ phase # "gone"
    /\ queued # << >>
    /\ writer # NoBag
    /\ queued' = Tail(queued)
    /\ LET m == Head(queued)
       IN  bag' = IF m.index <= Len(topics)
                  /\ LookUp(m) \in ToSet(bag.registered)
                  THEN [bag EXCEPT !.live =
                            @ \cup {[as |-> LookUp(m), of |-> m.of, own |-> Current(m)]}]
                  ELSE bag
    /\ UNCHANGED <<contract, phase, table, writer, published, episode, aborted>>

(* Writing fails, or the bag is closed: the message is lost.               *)
LoseQueued ==
    /\ phase # "gone"
    /\ queued # << >>
    /\ queued' = Tail(queued)
    /\ UNCHANGED <<contract, phase, table, writer, published, episode, bag,
                   aborted>>

-----------------------------------------------------------------------------
(* Episodes.                                                               *)

CloseWriter == writer' = NoBag /\ bag' = BlankBag

Prepare(graph) ==
    /\ phase = "ready"
    /\ episode < MaxEpisodes
    /\ episode' = episode + 1
    /\ topics' = Prepared(graph)
    /\ topic_index' = [n \in Names |-> IF topic_index[n] # 0 THEN topic_index[n]
                                       ELSE IndexOf(topics')[n]]

(* The retained samples, topic by topic.                                   *)
Flush(t) ==
    FlattenSeq([i \in 1 .. Len(t) |->
        [k \in 1 .. Len(t[i].buffer) |->
            [of |-> t[i].spec.topic, sample |-> t[i].buffer[k].sample,
             via |-> t[i].buffer[k].via]]])

(* open_writer and begin_episode: every topic is registered, the retained  *)
(* samples are written, and stay retained.                                 *)
BeginEpisode(t, e) ==
    /\ phase' = "recording"
    /\ writer' = e
    /\ bag' = [registered |-> [i \in 1 .. Len(t) |-> t[i].spec.topic],
               head |-> Flush(t), live |-> {}]

Deferred(t) == \E i \in 1 .. Len(t) : Resubscribes(t[i])

(* start_recording with nothing to resubscribe.                            *)
StartLive(graph) ==
    /\ Prepare(graph)
    /\ ~Deferred(topics')
    /\ BeginEpisode(topics', episode')
    /\ UNCHANGED <<contract, queued, published, aborted>>

(* Opening the bag, or writing a retained sample, throws; the catch block  *)
(* closes the bag and leaves the table as it is.                           *)
StartFails(graph) ==
    /\ Prepare(graph)
    /\ ~Deferred(topics')
    /\ CloseWriter
    /\ aborted' = TRUE
    /\ UNCHANGED <<contract, phase, queued, published>>

(* start_recording with subscriptions to wait for.                         *)
StartDeferred(graph) ==
    /\ Prepare(graph)
    /\ Deferred(topics')
    /\ phase' = "pending"
    /\ UNCHANGED <<contract, writer, queued, published, bag, aborted>>

(* Subscribing throws out of prepare_resubscribes, which no callback       *)
(* catches: the process ends.                                              *)
StartThrows ==
    /\ phase = "ready"
    /\ phase' = "gone"
    /\ UNCHANGED <<contract, table, writer, queued, published, episode, bag,
                   aborted>>

CompleteStart ==
    /\ phase = "pending"
    /\ BeginEpisode(topics, episode)
    /\ UNCHANGED <<contract, table, queued, published, episode, aborted>>

CompleteStartFails ==
    /\ phase = "pending"
    /\ phase' = "ready"
    /\ CloseWriter
    /\ aborted' = TRUE
    /\ UNCHANGED <<contract, table, queued, published, episode>>

(* A transition drops the deferred start.                                  *)
CancelPendingStart ==
    /\ phase = "pending"
    /\ phase' = "ready"
    /\ aborted' = TRUE
    /\ UNCHANGED <<contract, table, writer, queued, published, episode, bag>>

(* What the drain leaves: at most the batch in the writer thread's hands.  *)
Drained == \E k \in 0 .. Len(queued) : queued' = SubSeq(queued, 1, k)

(* finish_recording, as far as the table goes.                             *)
FinishRecording ==
    /\ phase = "recording"
    /\ Drained
    /\ CloseWriter
    /\ CutBack
    /\ phase' = "ready"
    /\ aborted' = FALSE
    /\ UNCHANGED <<contract, published, episode>>

(* Closing the bag throws: out of a transition on_error tries once more to *)
(* close it, and the node is unconfigured with its table as it was; out of *)
(* the tick the process ends.                                              *)
CloseThrows ==
    /\ phase = "recording"
    /\ Drained
    /\ phase' \in {"unconfigured", "gone"}
    /\ CloseWriter \/ UNCHANGED <<writer, bag>>
    /\ aborted' = TRUE
    /\ UNCHANGED <<contract, table, published, episode>>

Gone == phase = "gone" /\ UNCHANGED vars

-----------------------------------------------------------------------------
Next ==
    \/ \E d \in 1 .. Len(Documents) : OnConfigure(d) \/ ConfigureFails(d)
    \/ \E d \in Valid : \E i \in 1 .. Len(Built[d].topics) + 1 : SubscribeFails(d, i)
    \/ OnCleanup \/ OnShutdown
    \/ \E name \in Active : Publish(name)
    \/ \E p \in 1 .. Len(topics), sample \in 1 .. MaxSamples :
        OnMessageIdle(p, sample) \/ OnMessageRecording(p, sample)
    \/ WriteQueued \/ LoseQueued
    \/ \E graph \in Graphs :
        StartLive(graph) \/ StartFails(graph) \/ StartDeferred(graph)
    \/ StartThrows \/ CompleteStart \/ CompleteStartFails \/ CancelPendingStart
    \/ FinishRecording \/ CloseThrows
    \/ Gone

Spec == Init /\ [][Next]_vars

-----------------------------------------------------------------------------
(* Properties.                                                             *)

Message == [of : Names, index : Nat \ {0}, ep : Episodes]
Bags ==
    [registered : Seq(Names), head : Seq([of : Names, sample : Nat, via : Nat]),
     live : SUBSET [as : Names, of : Names, own : BOOLEAN]]

Retained == [sample : Nat, via : Nat]
Entries ==
    [spec : Specs(Names), sub : Nat, seen : Nat, live : Nat, made : Nat,
     buffer : Seq(Retained), discovered : BOOLEAN]

NodeTypes ==
    /\ contract \in 0 .. Len(Documents)
    /\ phase \in {"unconfigured", "ready", "pending", "recording", "gone"}
    /\ writer \in 0 .. MaxEpisodes
    /\ published \in [Names -> 0 .. MaxSamples]
    /\ episode \in 0 .. MaxEpisodes
    /\ aborted \in BOOLEAN

TableTypes ==
    /\ topics \in Seq(Entries)
    /\ topic_index \in [Names -> 0 .. Len(topics)]
    /\ \A i \in 1 .. Len(topics) : LET t == topics[i] IN
        /\ t.seen <= published[t.spec.topic]
        /\ t.live <= t.seen
        /\ \A k \in 1 .. Len(t.buffer) : t.buffer[k].sample \in 1 .. t.seen

(* Every variable stays in its type; no sample is delivered or retained    *)
(* before it is published, nor under an index that is not a position.      *)
TypeOK ==
    /\ NodeTypes
    /\ TableTypes
    /\ queued \in Seq(Message) /\ Len(queued) <= MaxQueued
    /\ bag \in Bags

(* topic_index_ is the inverse of topics_ through every discovery, cut and *)
(* failed start, so no topic is ever in the table twice.                   *)
IndexMatchesTable ==
    /\ \A i \in 1 .. Len(topics) : topic_index[topics[i].spec.topic] = i
    /\ \A n \in Names : topic_index[n] # 0 =>
        topic_index[n] <= Len(topics) /\ topics[topic_index[n]].spec.topic = n

(* The index a callback captured is where its topic still is: what is cut  *)
(* from the table is always its end.  A configured node listens to all of  *)
(* its topics.                                                             *)
CallbackFindsItsTopic ==
    /\ \A i \in 1 .. Len(topics) : topics[i].sub \in {0, i}
    /\ phase \in {"ready", "pending", "recording"} =>
        \A i \in 1 .. Len(topics) : topics[i].sub = i
    /\ \A i, j \in 1 .. Len(topics) :
        i < j /\ topics[i].discovered => topics[j].discovered

(* What a buffer retains is bounded by the topic's depth, is in the order  *)
(* of publication, and belongs to a latched topic.                         *)
BuffersBounded ==
    \A i \in 1 .. Len(topics) : LET t == topics[i] IN
        /\ Len(t.buffer) <= t.spec.qos.depth
        /\ \A k \in 1 .. Len(t.buffer) - 1 : t.buffer[k].sample < t.buffer[k + 1].sample
        /\ t.buffer # << >> => t.spec.qos.transient_local /\ ~t.discovered

(* The newest sample a buffered topic has delivered is the newest of its   *)
(* buffer, so the next bag starts with it, unless it is too large or went  *)
(* to an episode that was being recorded.  It takes a loader that lets     *)
(* only latched topics be buffered, with a depth of one at least.          *)
LatchedKeptOrRecorded ==
    \A i \in 1 .. Len(topics) : LET t == topics[i] IN
        /\ t.spec.strategy # "no_buffer"
        /\ t.seen \notin {0, t.live}
        /\ <<t.spec.topic, t.seen>> \notin Oversize
        => t.buffer # << >> /\ Last(t.buffer).sample = t.seen

(* At the head of a bag, a topic that is resubscribed on start has only    *)
(* what came through the subscription made for this very start: nothing a  *)
(* subscription before it retained, also if an earlier start had made one, *)
(* waited, and was cancelled or failed.                                    *)
ResubscribedIsFresh ==
    phase = "recording" =>
        \A k \in 1 .. Len(bag.head) : LET h == bag.head[k] IN
            Resubscribes(topics[topic_index[h.of]]) => h.via = episode

(* A message is written under the name of its own topic.  Only one that    *)
(* the writer thread held across the end of its episode can meet a table   *)
(* that has changed under its index.                                       *)
WrittenUnderOwnName ==
    \A m \in bag.live : m.own => m.as = m.of

(* Discovered topics are torn down when the bag closes: unless a start or  *)
(* a close failed, a node that is not recording subscribes to the contract *)
(* and nothing else.                                                       *)
DiscoveredTornDown ==
    phase \in {"unconfigured", "ready"} /\ ~aborted =>
        \A i \in 1 .. Len(topics) : ~topics[i].discovered

(* What the header says of the order: observations, actions, the extended  *)
(* sections, tasks, adjunct.                                               *)
Rank ==
    [observations |-> 1, actions |-> 2, rewards |-> 3, signals |-> 4, info |-> 5,
     complementary_data |-> 6, tasks |-> 7, adjunct |-> 8]

(* Listed, as the loader sees it.                                          *)
Lists(doc, s, name) == \E item \in ToSet(SectionItems(doc, s)) : item.topic = name

RanksIn(doc) ==
    [n \in Names |-> {Rank[s] : s \in {s \in DOMAIN Rank : Lists(doc, s, n)}}]

Ranks == [d \in Valid |-> RanksIn(Documents[d])]

(* Every topic the contract lists in a section that the loader reads (one  *)
(* that is not a sequence it passes over) is in the table, from            *)
(* configuration on and through all episodes, at the place and with the    *)
(* QoS and strategy its first section gives it; the bag's topic ids follow *)
(* from it.                                                                *)
ContractTopicsInOrder ==
    phase \in {"ready", "pending", "recording"} =>
        LET doc == Documents[contract]
            rank == Ranks[contract]
            names == [i \in 1 .. Len(topics) |-> topics[i].spec.topic]
        IN  /\ \A n \in Names : rank[n] # {} => n \in ToSet(names)
            /\ \A i, j \in 1 .. Len(names) : i < j =>
                \A r \in rank[names[j]] : \E q \in rank[names[i]] : q <= r
            /\ \A i \in 1 .. Len(names) : rank[names[i]] # {} =>
                \E s \in DOMAIN Rank :
                    /\ \A r \in rank[names[i]] : Rank[s] <= r
                    /\ \E item \in ToSet(SectionItems(doc, s)) :
                        topics[i].spec = RecordTopic(s, item)

(* What DDS asks of a publisher and a subscription to connect them; of a   *)
(* policy that is not known, the worst is assumed.                         *)
Compatible(requested, p) ==
    /\ requested.reliable => p.reliability = "reliable"
    /\ requested.transient_local => p.durability = "transient_local"
    /\ requested.liveliness <= p.liveliness
    /\ \A d \in {"deadline", "liveliness_lease"} : p.time[d] <= requested.time[d]

(* A discovered topic asks no more of its first publisher than that one    *)
(* offers, whatever is unknown of its profile, with one exception: rmw's   *)
(* own infinite does not survive the cast to 32 bits, so a deadline or a   *)
(* lease given that way is requested as less, and they do not connect.     *)
(* The two forms in which a bag advertises the profile agree but for that  *)
(* cast and for the depth under keep_all.                                  *)
DiscoveredConnects ==
    \A i \in 1 .. Len(topics) : LET t == topics[i] IN
        t.discovered /\ Publishers[t.spec.topic] # << >> =>
            LET p == Publishers[t.spec.topic][1]
                qos == t.spec.qos
            IN  /\ Compatible(Requested(qos), p) <=>
                    \A d \in {"deadline", "liveliness_lease"} : p.time[d] # RmwInfinite
                /\ Offered(qos) = OfferedYaml(qos) <=>
                    /\ p.history = "keep_all" => p.depth = 0
                    /\ \A d \in Durations : p.time[d] # RmwInfinite

-----------------------------------------------------------------------------
(* The inductive invariant that TopicTable_proofs proves.                  *)

(* The contract's topics come first, as they were built, and what was      *)
(* discovered after them.                                                  *)
FollowsContract ==
    phase \in {"ready", "pending", "recording"} =>
        /\ contract \in Valid
        /\ LET built == Built[contract].topics IN
            /\ Len(built) <= Len(topics)
            /\ \A i \in 1 .. Len(topics) : topics[i].discovered <=> i > Len(built)
            /\ \A i \in 1 .. Len(built) : topics[i].spec = built[i].spec

(* What a specification allows: only a latched topic of the contract, with *)
(* room for a sample, is buffered, and a discovered one is as it was found. *)
SpecInv ==
    \A i \in 1 .. Len(topics) : LET t == topics[i] IN
        /\ t.spec.strategy # "no_buffer" =>
            t.spec.qos.transient_local /\ t.spec.qos.depth > 0 /\ ~t.discovered
        /\ t.discovered => t.spec = DiscoveredSpec(t.spec.topic)

(* A buffer only has samples of a buffered topic, and only what came       *)
(* through its present subscription.                                       *)
BufferInv ==
    \A i \in 1 .. Len(topics) : LET t == topics[i] IN
        /\ t.buffer # << >> => t.spec.strategy # "no_buffer"
        /\ \A k \in 1 .. Len(t.buffer) : t.buffer[k].via = t.made

(* That is the subscription of the start under way if the topic is one     *)
(* that is resubscribed.                                                   *)
MadeInv ==
    phase \in {"pending", "recording"} =>
        \A i \in 1 .. Len(topics) : Resubscribes(topics[i]) => topics[i].made = episode

(* What is under way is of no later episode than the current one, and what *)
(* is of the one being recorded finds its topic at its index.              *)
QueuedInv ==
    /\ phase \in {"pending", "recording"} => episode > 0
    /\ \A k \in 1 .. Len(queued) : LET m == queued[k] IN
        /\ m.ep <= episode
        /\ phase = "pending" => m.ep < episode
        /\ Current(m) => m.index <= Len(topics) /\ LookUp(m) = m.of

(* What a bag was opened with is of topics that are in the table.          *)
HeadInv ==
    phase = "recording" =>
        \A k \in 1 .. Len(bag.head) : topic_index[bag.head[k].of] # 0

IndInv ==
    TypeOK /\ FollowsContract /\ SpecInv /\ BufferInv /\ MadeInv /\ QueuedInv /\ HeadInv
    /\ IndexMatchesTable /\ CallbackFindsItsTopic /\ BuffersBounded
    /\ LatchedKeptOrRecorded /\ ResubscribedIsFresh /\ WrittenUnderOwnName
    /\ DiscoveredTornDown

=============================================================================
