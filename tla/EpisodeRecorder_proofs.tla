----------------------- MODULE EpisodeRecorder_proofs -----------------------
(***************************************************************************)
(* Proofs about EpisodeRecorder, for any number of goals, episodes and     *)
(* cancel calls: IndInv is inductive, the safety properties the runs check *)
(* follow from it, and the recorder implements GoalProtocol.               *)
(***************************************************************************)
EXTENDS EpisodeRecorder, SequenceTheorems, TLAPS

-----------------------------------------------------------------------------
(* What the decisions of the code come to.                                 *)

(* settle_goal: which way a goal ends.                                     *)
LEMMA OutcomeCases ==
  ASSUME NEW r
  PROVE  /\ IsCanceling => Outcome(r) = "canceled"
         /\ ~IsCanceling /\ r \in AbortReasons => Outcome(r) = "aborted"
         /\ ~IsCanceling /\ r \notin AbortReasons => Outcome(r) = "succeeded"
BY Zenon DEF Outcome

(* on_recording_tick: why an episode ends.                                 *)
LEMMA TickReasonCases ==
  /\ TickReason \in {"none", "cancelled", "stopped", "timeout"}
  /\ TickReason = "cancelled" => IsCanceling
<1>1. CASE IsCanceling
  BY <1>1, Zenon DEF TickReason
<1>2. CASE ~IsCanceling /\ stop_requested
  BY <1>2, Zenon DEF TickReason
<1>3. CASE ~IsCanceling /\ ~stop_requested /\ expired
  BY <1>3, Zenon DEF TickReason
<1>4. CASE ~IsCanceling /\ ~stop_requested /\ ~expired
  BY <1>4, Zenon DEF TickReason
<1> QED
  BY <1>1, <1>2, <1>3, <1>4

(* Where a lifecycle transition that ended an episode leads.               *)
LEMMA LifecycleAfterCases ==
  ASSUME NEW t
  PROVE  /\ t = "deactivate" => LifecycleAfter(t) = "inactive"
         /\ t = "shutdown" => LifecycleAfter(t) = "finalized"
         /\ t \notin {"deactivate", "shutdown"} => LifecycleAfter(t) = lifecycle
<1>1. CASE t = "deactivate"
  BY <1>1 DEF LifecycleAfter
<1>2. CASE t = "shutdown"
  BY <1>2 DEF LifecycleAfter
<1>3. CASE t \notin {"deactivate", "shutdown"}
  BY <1>3 DEF LifecycleAfter
<1> QED
  BY <1>1, <1>2, <1>3

(* Settling a goal ends the one the handle names, and no other.            *)
LEMMA SettleEffect ==
  ASSUME GoalTypes, NEW r, NEW b, SettleGoal(r, b)
  PROVE  /\ goal_handle' = 0
         /\ \A h \in Goals : goal_state'[h] =
              IF h = goal_handle THEN Outcome(r) ELSE goal_state[h]
         /\ \A h \in Goals : result'[h] =
              IF h = goal_handle THEN [reason |-> r, bag |-> b] ELSE result[h]
<1> USE DEF SettleGoal, NoGoal
<1>1. CASE goal_handle = NoGoal
  BY <1>1 DEF Goals
<1>2. CASE goal_handle # NoGoal
  BY <1>2 DEF GoalTypes
<1> QED
  BY <1>1, <1>2

(* Dropping the handle cancels the goal it names, and no other.            *)
LEMMA DropEffect ==
  ASSUME GoalTypes
  PROVE  /\ Dropped(goal_state) \in [Goals -> {"new"} \cup Live \cup Terminal]
         /\ \A h \in Goals : Dropped(goal_state)[h] =
              IF h = goal_handle THEN "canceled" ELSE goal_state[h]
<1> USE DEF Dropped, NoGoal
<1>1. CASE goal_handle = NoGoal
  BY <1>1 DEF Goals, GoalTypes
<1>2. CASE goal_handle # NoGoal
  BY <1>2 DEF GoalTypes, Terminal
<1> QED
  BY <1>1, <1>2

(* A settled goal ends in a terminal state.                                *)
LEMMA OutcomeType == ASSUME NEW r PROVE Outcome(r) \in Terminal
BY OutcomeCases DEF Terminal

-----------------------------------------------------------------------------
(* Types.                                                                  *)

(* They hold when the node is constructed.                                 *)
LEMMA InitTypeOK == Init => TypeOK
<1> SUFFICES ASSUME Init PROVE TypeOK
  OBVIOUS
<1> USE BoundsAssumption DEF Init, NoGoal, NoBag
<1>1. NodeTypes
  BY DEF NodeTypes
<1>2. EpisodeTypes
  <2>1. episode \in 0 .. MaxEpisodes
    OBVIOUS
  <2>2. failed \in SUBSET Bags /\ asked \in SUBSET (0 .. MaxEpisodes)
    OBVIOUS
  <2>3. is_recording \in BOOLEAN /\ start_pending \in BOOLEAN /\ stop_requested \in BOOLEAN
        /\ write_failed \in BOOLEAN /\ expired \in BOOLEAN /\ close_threw \in BOOLEAN
    BY Zenon
  <2> QED
    BY <2>1, <2>2, <2>3, Zenon DEF EpisodeTypes
<1>3. GoalTypes
  <2>1. NoResult \in [reason : Reasons \cup {"none"}, bag : 0 .. MaxEpisodes]
    BY DEF NoResult
  <2> QED
    BY <2>1 DEF GoalTypes
<1>4. CallTypes
  BY DEF CallTypes
<1>5. BagTypes
  BY DEF BagTypes
<1> QED
  BY <1>1, <1>2, <1>3, <1>4, <1>5 DEF TypeOK

(* Settling a goal with a proper reason and bag keeps the goals' types.    *)
LEMMA SettleTypes ==
  ASSUME GoalTypes, NEW r \in Reasons, NEW b \in 0 .. MaxEpisodes, SettleGoal(r, b),
         current_goal_id' \in 0 .. MaxGoals
  PROVE  GoalTypes'
<1>1. [reason |-> r, bag |-> b] \in [reason : Reasons \cup {"none"}, bag : 0 .. MaxEpisodes]
  OBVIOUS
<1>2. Outcome(r) \in Terminal
  BY OutcomeType
<1>3. goal_handle' \in 0 .. MaxGoals
  BY BoundsAssumption DEF SettleGoal, NoGoal
<1>4. goal_state' \in [Goals -> {"new"} \cup Live \cup Terminal]
  BY <1>2 DEF SettleGoal, GoalTypes
<1>5. result' \in [Goals -> [reason : Reasons \cup {"none"}, bag : 0 .. MaxEpisodes]]
  BY <1>1 DEF SettleGoal, GoalTypes
<1> QED
  BY <1>3, <1>4, <1>5 DEF GoalTypes

(* The starts.                                                             *)
LEMMA StartTypes ==
  ASSUME TypeOK, NEW o \in StartOutcomes, NEW g \in 0 .. MaxGoals, StartRecording(o, g),
         Escapes(o), UNCHANGED <<node, calls, last_bag, stamped, history>>
  PROVE  NodeTypes' /\ EpisodeTypes' /\ CallTypes' /\ BagTypes'
<1> USE DEF TypeOK, StartRecording, Escapes, ResetFlags, node, calls, history
<1>1. episode + 1 \in Bags
  BY BoundsAssumption DEF EpisodeTypes, Bags
<1>2. NodeTypes'
  BY DEF NodeTypes
<1>3. EpisodeTypes'
  <2>1. episode' \in 0 .. MaxEpisodes
    BY BoundsAssumption DEF EpisodeTypes
  <2>2. is_recording' \in BOOLEAN /\ start_pending' \in BOOLEAN /\ stop_requested' \in BOOLEAN
        /\ write_failed' \in BOOLEAN /\ expired' \in BOOLEAN
    BY Zenon DEF EpisodeTypes
  <2>3. failed' \in SUBSET Bags /\ asked' \in SUBSET (0 .. MaxEpisodes) /\ close_threw' \in BOOLEAN
    BY Zenon DEF EpisodeTypes
  <2> QED
    BY <2>1, <2>2, <2>3, Zenon DEF EpisodeTypes
<1>4. CallTypes'
  BY DEF CallTypes
<1>5. BagTypes'
  BY <1>1 DEF BagTypes
<1> QED
  BY <1>2, <1>3, <1>4, <1>5

(* A goal that is taken: the goals, besides what every start changes.      *)
LEMMA AcceptGoalTypes ==
  ASSUME TypeOK, NEW g \in Goals, NEW o \in StartOutcomes, AcceptGoal(g, o)
  PROVE  TypeOK'
<1>1. NodeTypes' /\ EpisodeTypes' /\ CallTypes' /\ BagTypes'
  <2>1. g \in 0 .. MaxGoals
    BY DEF Goals
  <2> QED
    BY <2>1, StartTypes DEF AcceptGoal
<1>2. GoalTypes'
  <2>1. [reason |-> "error", bag |-> NoBag] \in [reason : Reasons \cup {"none"}, bag : 0 .. MaxEpisodes]
    BY BoundsAssumption DEF NoBag, Reasons
  <2>2. GoalTypes /\ Dropped(goal_state) \in [Goals -> {"new"} \cup Live \cup Terminal]
    BY DropEffect DEF TypeOK
  <2>3. goal_state' \in [Goals -> {"new"} \cup Live \cup Terminal]
    BY <2>2 DEF AcceptGoal, Live, Terminal
  <2>4. result' \in [Goals -> [reason : Reasons \cup {"none"}, bag : 0 .. MaxEpisodes]]
    BY <2>1, <2>2 DEF AcceptGoal, GoalTypes
  <2>5. goal_handle' \in 0 .. MaxGoals /\ current_goal_id' \in 0 .. MaxGoals
    BY <2>2, BoundsAssumption DEF AcceptGoal, GoalTypes, Goals, NoGoal
  <2> QED
    BY <2>3, <2>4, <2>5 DEF GoalTypes
<1> QED
  BY <1>1, <1>2 DEF TypeOK

(* Forgetting the goal keeps the goals' types.                             *)
LEMMA ForgetTypes == ASSUME TypeOK, ForgetGoal PROVE GoalTypes'
BY DropEffect, BoundsAssumption DEF TypeOK, GoalTypes, ForgetGoal, NoGoal

(* A start by service call.                                                *)
LEMMA OnStartServiceTypes ==
  ASSUME TypeOK, NEW o \in StartOutcomes, OnStartService(o)
  PROVE  TypeOK'
<1>1. NoGoal \in 0 .. MaxGoals
  BY BoundsAssumption DEF NoGoal
<1>2. NodeTypes' /\ EpisodeTypes' /\ CallTypes' /\ BagTypes'
  BY <1>1, StartTypes DEF OnStartService
<1> QED
  BY <1>2, ForgetTypes DEF TypeOK, OnStartService

(* Steps that leave a group of variables alone keep its types.             *)
LEMMA SameTypes ==
  ASSUME TypeOK
  PROVE  /\ UNCHANGED node /\ UNCHANGED executor => NodeTypes'
         /\ UNCHANGED recording /\ UNCHANGED flags /\ UNCHANGED history /\ episode' = episode
              => EpisodeTypes'
         /\ UNCHANGED goals /\ UNCHANGED current_goal_id => GoalTypes'
         /\ UNCHANGED calls => CallTypes'
         /\ UNCHANGED disk /\ UNCHANGED producer => BagTypes'
<1>1. ASSUME UNCHANGED node, UNCHANGED executor PROVE NodeTypes'
  BY <1>1 DEF TypeOK, NodeTypes, node, executor
<1>2. ASSUME UNCHANGED recording, UNCHANGED flags, UNCHANGED history, episode' = episode PROVE EpisodeTypes'
  BY <1>2, Zenon DEF TypeOK, EpisodeTypes, recording, flags, history
<1>3. ASSUME UNCHANGED goals, UNCHANGED current_goal_id PROVE GoalTypes'
  BY <1>3 DEF TypeOK, GoalTypes, goals
<1>4. ASSUME UNCHANGED calls PROVE CallTypes'
  BY <1>4 DEF TypeOK, CallTypes, calls
<1>5. ASSUME UNCHANGED disk, UNCHANGED producer PROVE BagTypes'
  BY <1>5 DEF TypeOK, BagTypes, disk
<1> QED
  BY <1>1, <1>2, <1>3, <1>4, <1>5

(* The deferred start.                                                     *)
LEMMA DeferredStartTypes == ASSUME IndInv, DeferredStart PROVE TypeOK'
<1>0. TypeOK /\ "error" \in Reasons /\ NoBag \in 0 .. MaxEpisodes /\ current_goal_id \in 0 .. MaxGoals
  BY BoundsAssumption DEF IndInv, TypeOK, GoalTypes, Reasons, NoBag
<1>1. CASE CompleteStart
  <2> USE <1>0, <1>1 DEF CompleteStart
  <2>1. EpisodeTypes'
    BY Zenon DEF TypeOK, EpisodeTypes, flags, history
  <2>2. episode \in Bags
    BY BoundsAssumption DEF TypeOK, EpisodeTypes, IndInv, OwnerInv, UnderWay, Busy, Bags
  <2>3. BagTypes'
    BY <2>2 DEF TypeOK, BagTypes
  <2>4. NodeTypes' /\ GoalTypes' /\ CallTypes'
    BY SameTypes
  <2> QED
    BY <2>1, <2>3, <2>4 DEF TypeOK
<1>2. CASE CompleteStartFails
  <2> USE <1>0, <1>2 DEF CompleteStartFails
  <2>1. EpisodeTypes'
    BY Zenon DEF TypeOK, EpisodeTypes, flags, history
  <2>2. GoalTypes'
    BY SettleTypes DEF TypeOK
  <2>3. NodeTypes' /\ CallTypes' /\ BagTypes'
    BY SameTypes
  <2> QED
    BY <2>1, <2>2, <2>3 DEF TypeOK
<1>3. CASE CompleteStartThrows
  <2> USE <1>0, <1>3 DEF CompleteStartThrows
  <2>1. EpisodeTypes'
    BY Zenon DEF TypeOK, EpisodeTypes, flags, history
  <2>2. NodeTypes'
    BY DEF TypeOK, NodeTypes, Escapes, node
  <2>3. GoalTypes' /\ CallTypes' /\ BagTypes'
    BY SameTypes
  <2> QED
    BY <2>1, <2>2, <2>3 DEF TypeOK
<1> QED
  BY <1>1, <1>2, <1>3 DEF DeferredStart

(* The tick, the clock and the failing write.                              *)
LEMMA RunningTypes ==
  ASSUME IndInv, Tick \/ ClockExpires \/ ClockSetBack \/ WriteFails PROVE TypeOK'
<1>0. TypeOK
  BY DEF IndInv
<1>1. CASE TickSeesFailure
  <2> USE <1>0, <1>1 DEF TickSeesFailure, FinishRecording
  <2>1. NodeTypes'
    BY DEF TypeOK, NodeTypes, node, Reasons
  <2>2. EpisodeTypes'
    BY Zenon DEF TypeOK, EpisodeTypes, flags, history
  <2>3. GoalTypes' /\ CallTypes' /\ BagTypes'
    BY SameTypes
  <2> QED
    BY <2>1, <2>2, <2>3 DEF TypeOK
<1>2. CASE TickSeesNoFailure \/ TickFeedback
  <2> USE <1>0, <1>2 DEF TickSeesNoFailure, TickFeedback
  <2>1. NodeTypes'
    BY DEF TypeOK, NodeTypes, node
  <2>2. EpisodeTypes' /\ GoalTypes' /\ CallTypes' /\ BagTypes'
    BY SameTypes
  <2> QED
    BY <2>1, <2>2 DEF TypeOK
<1>3. CASE TickEnds
  <2> USE <1>0, <1>3 DEF TickEnds, FinishRecording
  <2>1. NodeTypes'
    BY TickReasonCases DEF TypeOK, NodeTypes, node, Reasons
  <2>2. EpisodeTypes'
    BY Zenon DEF TypeOK, EpisodeTypes, flags, history
  <2>3. GoalTypes' /\ CallTypes' /\ BagTypes'
    BY SameTypes
  <2> QED
    BY <2>1, <2>2, <2>3 DEF TypeOK
<1>4. CASE ClockExpires \/ ClockSetBack
  <2> USE <1>0, <1>4 DEF ClockExpires, ClockSetBack
  <2>1. EpisodeTypes'
    BY Zenon DEF TypeOK, EpisodeTypes, flags, history
  <2>2. NodeTypes' /\ GoalTypes' /\ CallTypes' /\ BagTypes'
    BY SameTypes
  <2> QED
    BY <2>1, <2>2 DEF TypeOK
<1>5. CASE WriteFails
  <2> USE <1>0, <1>5 DEF WriteFails
  <2>1. episode \in Bags
    BY BoundsAssumption DEF TypeOK, EpisodeTypes, IndInv, OwnerInv, UnderWay, Busy, Bags
  <2>2. failed' \in SUBSET Bags
    BY <2>1 DEF TypeOK, EpisodeTypes
  <2>3. EpisodeTypes'
    BY <2>2, Zenon DEF TypeOK, EpisodeTypes, recording
  <2>4. NodeTypes' /\ GoalTypes' /\ CallTypes' /\ BagTypes'
    BY SameTypes
  <2> QED
    BY <2>3, <2>4 DEF TypeOK
<1> QED
  BY <1>1, <1>2, <1>3, <1>4, <1>5 DEF Tick, TickBegins, TickGoesOn

(* The end of finish_recording.                                            *)
LEMMA FinishTypes == ASSUME IndInv, Finish \/ CloseThrows PROVE TypeOK'
<1>0. TypeOK /\ xpc = "finish"
  BY DEF IndInv, Finish, FinishDone, CloseThrows
<1>1. ASSUME NEW ok \in BOOLEAN, FinishDone(ok) PROVE TypeOK'
  <2> USE <1>0, <1>1 DEF FinishDone
  <2>1. NodeTypes'
    <3>1. LifecycleAfter(task) \in {"unconfigured", "inactive", "active", "finalized"}
      BY LifecycleAfterCases DEF TypeOK, NodeTypes
    <3>2. action_server' \in BOOLEAN
      BY Zenon
    <3> QED
      BY <3>1, <3>2 DEF TypeOK, NodeTypes
  <2>2. EpisodeTypes'
    BY SameTypes
  <2>3. GoalTypes'
    <3>1. ReportedReason(ok) \in Reasons
      BY DEF ReportedReason, Reasons, IndInv, ExecutorInv
    <3>2. episode \in 0 .. MaxEpisodes /\ current_goal_id' \in 0 .. MaxGoals
      BY BoundsAssumption DEF TypeOK, EpisodeTypes, NoGoal
    <3> QED
      BY <3>1, <3>2, SettleTypes DEF TypeOK
  <2>4. CallTypes'
    BY DEF TypeOK, CallTypes
  <2>5. BagTypes'
    BY DEF TypeOK, BagTypes, Stamp, EpisodeTypes, GoalTypes
  <2> QED
    BY <2>1, <2>2, <2>3, <2>4, <2>5 DEF TypeOK
<1>2. CASE CloseThrows
  <2> USE <1>0, <1>2 DEF CloseThrows
  <2>1. NodeTypes'
    BY DEF TypeOK, NodeTypes
  <2>2. EpisodeTypes'
    BY Zenon DEF TypeOK, EpisodeTypes, recording, flags
  <2>3. GoalTypes' /\ CallTypes' /\ BagTypes'
    BY SameTypes
  <2> QED
    BY <2>1, <2>2, <2>3 DEF TypeOK
<1> QED
  BY <1>1, <1>2 DEF Finish

(* Cancelling, and refusing a goal.                                        *)
LEMMA CallsTypes ==
  ASSUME IndInv,
         \/ \E g \in Goals : RejectGoal(g) \/ ClientCancels(g)
         \/ OnCancelServiceAsks \/ OnCancelServiceStops \/ ServeCalls
  PROVE  TypeOK'
<1>0. TypeOK
  BY DEF IndInv
<1>1. ASSUME NEW g \in Goals, RejectGoal(g) PROVE TypeOK'
  <2> USE <1>0, <1>1 DEF RejectGoal
  <2>1. GoalTypes'
    BY DEF TypeOK, GoalTypes, Terminal
  <2>2. NodeTypes' /\ EpisodeTypes' /\ CallTypes' /\ BagTypes'
    BY SameTypes
  <2> QED
    BY <2>1, <2>2 DEF TypeOK
<1>2. ASSUME NEW g \in Goals, ClientCancels(g) PROVE TypeOK'
  <2> USE <1>0, <1>2 DEF ClientCancels, HandleCancel
  <2>1. GoalTypes'
    BY DEF TypeOK, GoalTypes, Live
  <2>2. EpisodeTypes'
    <3>1. asked' \in SUBSET (0 .. MaxEpisodes)
      BY DEF TypeOK, EpisodeTypes
    <3> QED
      BY <3>1, Zenon DEF TypeOK, EpisodeTypes, recording
  <2>3. NodeTypes' /\ CallTypes' /\ BagTypes'
    BY SameTypes
  <2> QED
    BY <2>1, <2>2, <2>3 DEF TypeOK
<1>3. CASE OnCancelServiceAsks
  <2> USE <1>0, <1>3 DEF OnCancelServiceAsks
  <2>1. CallTypes'
    <3>1. goal_handle \in Goals
      BY DEF TypeOK, GoalTypes, Goals, NoGoal
    <3> QED
      BY <3>1 DEF TypeOK, CallTypes
  <2>2. EpisodeTypes'
    <3>1. asked' \in SUBSET (0 .. MaxEpisodes)
      BY DEF TypeOK, EpisodeTypes
    <3> QED
      BY <3>1, Zenon DEF TypeOK, EpisodeTypes, recording, flags
  <2>3. NodeTypes' /\ GoalTypes' /\ BagTypes'
    BY SameTypes
  <2> QED
    BY <2>1, <2>2, <2>3 DEF TypeOK
<1>4. CASE OnCancelServiceStops
  <2> USE <1>0, <1>4 DEF OnCancelServiceStops
  <2>1. EpisodeTypes'
    <3>1. asked' \in SUBSET (0 .. MaxEpisodes)
      BY DEF TypeOK, EpisodeTypes
    <3> QED
      BY <3>1, Zenon DEF TypeOK, EpisodeTypes, recording
  <2>2. NodeTypes' /\ GoalTypes' /\ CallTypes' /\ BagTypes'
    BY SameTypes
  <2> QED
    BY <2>1, <2>2 DEF TypeOK
<1>5. CASE HandleCancelRequest
  <2> USE <1>0, <1>5 DEF HandleCancelRequest, HandleCancel
  <2>1. Head(requests) \in Goals
    BY DEF TypeOK, CallTypes
  <2>2. GoalTypes'
    BY <2>1 DEF TypeOK, GoalTypes, Live
  <2>3. CallTypes'
    <3>1. requests' \in Seq(Goals)
      BY DEF TypeOK, CallTypes
    <3>2. \A b \in BOOLEAN : Append(responses, b) \in Seq(BOOLEAN)
      BY AppendProperties, Zenon DEF TypeOK, CallTypes
    <3> QED
      BY <3>1, <3>2, Zenon DEF CallTypes
  <2>4. EpisodeTypes'
    BY Zenon DEF TypeOK, EpisodeTypes, recording, history
  <2>5. NodeTypes' /\ BagTypes'
    BY SameTypes
  <2> QED
    BY <2>2, <2>3, <2>4, <2>5 DEF TypeOK
<1>6. CASE HandleCancelResponse
  <2> USE <1>0, <1>6 DEF HandleCancelResponse, FallBack
  <2>1. CallTypes'
    BY HeadTailProperties, Zenon DEF TypeOK, CallTypes
  <2>2. EpisodeTypes'
    BY Zenon DEF TypeOK, EpisodeTypes, recording, history
  <2>3. NodeTypes' /\ GoalTypes' /\ BagTypes'
    BY SameTypes
  <2> QED
    BY <2>1, <2>2, <2>3 DEF TypeOK
<1> QED
  BY <1>1, <1>2, <1>3, <1>4, <1>5, <1>6 DEF ServeCalls

(* The lifecycle transitions.                                              *)
LEMMA CancelPendingTypes ==
  ASSUME TypeOK, CancelPendingStart("node_deactivated")
  PROVE  GoalTypes' /\ start_pending' \in BOOLEAN
<1>1. start_pending' \in BOOLEAN
  BY Zenon DEF CancelPendingStart, TypeOK, EpisodeTypes
<1>2. CASE start_pending
  <2>1. "node_deactivated" \in Reasons /\ NoBag \in 0 .. MaxEpisodes /\ NoGoal \in 0 .. MaxGoals
    BY BoundsAssumption DEF Reasons, NoBag, NoGoal
  <2> QED
    BY <1>1, <1>2, <2>1, SettleTypes DEF CancelPendingStart, TypeOK
<1>3. CASE ~start_pending
  BY <1>1, <1>3, SameTypes DEF CancelPendingStart
<1> QED
  BY <1>2, <1>3

(* The transitions that call it, and the two that do not.                  *)
LEMMA LifecycleTypes ==
  ASSUME IndInv, OnConfigure \/ OnActivate \/ OnDeactivate \/ OnCleanup \/ OnShutdown
  PROVE  TypeOK'
<1>0. TypeOK
  BY DEF IndInv
<1>1. CASE OnConfigure
  <2> USE <1>0, <1>1 DEF OnConfigure
  <2>1. NodeTypes'
    BY DEF TypeOK, NodeTypes, executor
  <2>2. CallTypes'
    BY DEF CallTypes
  <2>3. EpisodeTypes' /\ GoalTypes' /\ BagTypes'
    BY SameTypes
  <2> QED
    BY <2>1, <2>2, <2>3 DEF TypeOK
<1>2. CASE OnActivate
  <2> USE <1>0, <1>2 DEF OnActivate
  <2>1. NodeTypes'
    BY DEF TypeOK, NodeTypes, executor
  <2>2. EpisodeTypes' /\ GoalTypes' /\ CallTypes' /\ BagTypes'
    BY SameTypes
  <2> QED
    BY <2>1, <2>2 DEF TypeOK
<1>3. CASE OnDeactivate
  <2> USE <1>0, <1>3 DEF OnDeactivate
  <2>1. NodeTypes'
    BY DEF TypeOK, NodeTypes, executor, FinishRecording, Reasons
  <2>2. GoalTypes' /\ start_pending' \in BOOLEAN
    BY CancelPendingTypes
  <2>3. EpisodeTypes'
    BY <2>2, Zenon DEF TypeOK, EpisodeTypes, FinishRecording, flags, history
  <2>4. CallTypes' /\ BagTypes'
    BY SameTypes
  <2> QED
    BY <2>1, <2>2, <2>3, <2>4 DEF TypeOK
<1>4. CASE OnCleanup
  <2> USE <1>0, <1>4 DEF OnCleanup
  <2>1. NodeTypes'
    BY DEF TypeOK, NodeTypes, executor
  <2>2. GoalTypes' /\ start_pending' \in BOOLEAN
    BY CancelPendingTypes
  <2>3. EpisodeTypes'
    BY <2>2, Zenon DEF TypeOK, EpisodeTypes, flags, history
  <2>4. CallTypes'
    BY DEF CallTypes
  <2>5. BagTypes'
    BY SameTypes
  <2> QED
    BY <2>1, <2>2, <2>3, <2>4, <2>5 DEF TypeOK
<1>5. CASE OnShutdown
  <2> USE <1>0, <1>5 DEF OnShutdown
  <2>1. NodeTypes'
    BY DEF TypeOK, NodeTypes, executor, FinishRecording, Reasons
  <2>2. GoalTypes' /\ start_pending' \in BOOLEAN
    BY CancelPendingTypes
  <2>3. EpisodeTypes'
    BY <2>2, Zenon DEF TypeOK, EpisodeTypes, FinishRecording, flags, history
  <2>4. CallTypes'
    <3>1. requests' = requests \/ requests' = << >>
      BY Zenon
    <3>2. << >> \in Seq(Goals)
      OBVIOUS
    <3> QED
      BY <3>1, <3>2, Zenon DEF TypeOK, CallTypes
  <2>5. BagTypes'
    BY SameTypes
  <2> QED
    BY <2>1, <2>2, <2>3, <2>4, <2>5 DEF TypeOK
<1> QED
  BY <1>1, <1>2, <1>3, <1>4, <1>5

(* The remaining callbacks and the end of the node.                        *)
LEMMA OtherTypes ==
  ASSUME IndInv, OnStartServiceRefused \/ OnDeleteLastBag \/ Teardown \/ UNCHANGED vars
  PROVE  TypeOK'
<1>0. TypeOK
  BY DEF IndInv
<1>1. CASE OnStartServiceRefused
  <2>1. NodeTypes' /\ EpisodeTypes' /\ CallTypes' /\ BagTypes'
    BY <1>0, <1>1, SameTypes DEF OnStartServiceRefused
  <2> QED
    BY <1>0, <1>1, <2>1, ForgetTypes DEF OnStartServiceRefused, TypeOK
<1>2. CASE OnDeleteLastBag
  <2> USE <1>0, <1>2 DEF OnDeleteLastBag
  <2>1. BagTypes'
    BY BoundsAssumption DEF TypeOK, BagTypes, NoBag
  <2>2. NodeTypes' /\ EpisodeTypes' /\ GoalTypes' /\ CallTypes'
    BY SameTypes
  <2> QED
    BY <2>1, <2>2 DEF TypeOK
<1>3. CASE Teardown
  <2> USE <1>0, <1>3 DEF Teardown
  <2>1. NodeTypes'
    BY DEF TypeOK, NodeTypes, node
  <2>2. EpisodeTypes'
    BY Zenon DEF TypeOK, EpisodeTypes, history
  <2>3. GoalTypes' /\ CallTypes' /\ BagTypes'
    BY SameTypes
  <2> QED
    BY <2>1, <2>2, <2>3 DEF TypeOK
<1>4. CASE UNCHANGED vars
  BY <1>0, <1>4, SameTypes DEF vars, TypeOK
<1> QED
  BY <1>1, <1>2, <1>3, <1>4

(* So every step keeps the types.                                          *)
LEMMA NextKeepsTypeOK == ASSUME IndInv, [Next]_vars PROVE TypeOK'
<1>0. TypeOK
  BY DEF IndInv
<1> QED
  BY <1>0, AcceptGoalTypes, OnStartServiceTypes, DeferredStartTypes, RunningTypes, FinishTypes,
     CallsTypes, LifecycleTypes, OtherTypes DEF Next, Destroy, Unwind, Gone

-----------------------------------------------------------------------------
(* Everything but the types.                                               *)

(* What IndInv says of goals, bags and results.                            *)
GoalsInv ==
  OwnerInv /\ ResultInv /\ HandleIsTheLiveGoal /\ OutcomeFitsReason
  /\ StampNeverForeign /\ ResultNamesOwnBag

(* What it says of the executor, the lifecycle and the episode.            *)
ControlInv == ExecutorInv /\ NoGoalLeftBehind /\ OnlyActiveRecords

(* It holds when the node is constructed.                                  *)
LEMMA InitIndInv == Init => IndInv
<1> SUFFICES ASSUME Init PROVE IndInv
  OBVIOUS
<1> USE BoundsAssumption DEF Init, NoGoal, NoBag
<1>1. TypeOK
  BY InitTypeOK
<1>2. ExecutorInv /\ OwnerInv
  BY DEF ExecutorInv, OwnerInv, UnderWay, Busy
<1>3. ResultInv
  BY DEF ResultInv, UnderWay, Busy, NoResult
<1>4. HandleIsTheLiveGoal /\ NoGoalLeftBehind /\ OnlyActiveRecords
  BY DEF HandleIsTheLiveGoal, NoGoalLeftBehind, OnlyActiveRecords, Busy, Live, Goals
<1>5. OutcomeFitsReason /\ StampNeverForeign /\ ResultNamesOwnBag
  BY DEF OutcomeFitsReason, StampNeverForeign, ResultNamesOwnBag, NoResult, Unstamped, Goals
<1> QED
  BY <1>1, <1>2, <1>3, <1>4, <1>5 DEF IndInv

(* A step that touches no goal, owner or stamp, and begins no episode,     *)
(* keeps the goals' part.                                                  *)
LEMMA QuietKeeps ==
  ASSUME IndInv, UNCHANGED <<goals, current_goal_id, episode, producer, stamped>>, UnderWay' => UnderWay
  PROVE  GoalsInv'
<1> USE DEF IndInv, goals
<1>1. OwnerInv'
  BY DEF OwnerInv
<1>2. ResultInv'
  BY DEF ResultInv
<1>3. HandleIsTheLiveGoal' /\ OutcomeFitsReason' /\ StampNeverForeign' /\ ResultNamesOwnBag'
  BY DEF HandleIsTheLiveGoal, OutcomeFitsReason, StampNeverForeign, ResultNamesOwnBag
<1> QED
  BY <1>1, <1>2, <1>3 DEF GoalsInv

(* The goal the handle names is alive and has no result yet.               *)
LEMMA LiveGoal ==
  ASSUME IndInv
  PROVE  \A h \in Goals : h = goal_handle => goal_state[h] \in Live /\ result[h] = NoResult
BY DEF IndInv, HandleIsTheLiveGoal, ResultInv, Live, Terminal

(* handle_goal and handle_accepted take a goal.                            *)
LEMMA AcceptGoalKeeps ==
  ASSUME IndInv, NEW g \in Goals, NEW o \in StartOutcomes, AcceptGoal(g, o)
  PROVE  GoalsInv' /\ ControlInv'
<1> USE BoundsAssumption DEF IndInv, AcceptGoal, StartRecording, Escapes, ResetFlags, Refused,
      StartOutcomes, node, calls, history, NoGoal, NoBag
<1>g. g # 0 /\ episode + 1 \in Bags /\ goal_state[g] = "new"
  BY DEF Goals, Bags, TypeOK, EpisodeTypes
<1>s. \A h \in Goals : goal_state'[h] =
        IF h = g THEN (IF o = "failed" THEN "aborted" ELSE "executing")
        ELSE IF h = goal_handle THEN "canceled" ELSE goal_state[h]
  <2>1. /\ Dropped(goal_state) \in [Goals -> {"new"} \cup Live \cup Terminal]
        /\ \A h \in Goals : Dropped(goal_state)[h] =
              IF h = goal_handle THEN "canceled" ELSE goal_state[h]
    BY DropEffect DEF TypeOK
  <2> QED
    BY <2>1
<1>r. result' = IF o = "failed" THEN [result EXCEPT ![g] = [reason |-> "error", bag |-> 0]] ELSE result
  OBVIOUS
<1>2. ExecutorInv'
  BY DEF ExecutorInv
<1>3. OwnerInv'
  BY <1>g DEF OwnerInv, UnderWay, Busy, TypeOK, EpisodeTypes, BagTypes, Bags
<1>4. ResultInv'
  BY <1>g, <1>s, <1>r DEF ResultInv, UnderWay, Busy, TypeOK, EpisodeTypes, GoalTypes, Terminal
<1>5. HandleIsTheLiveGoal'
  BY <1>g, <1>s DEF HandleIsTheLiveGoal, Live, Goals
<1>6. NoGoalLeftBehind' /\ OnlyActiveRecords'
  BY DEF NoGoalLeftBehind, OnlyActiveRecords, ExecutorInv, Busy
<1>7. OutcomeFitsReason'
  BY <1>g, <1>s, <1>r DEF OutcomeFitsReason, ResultInv, HandleIsTheLiveGoal, TypeOK, GoalTypes,
     Terminal, Live, NoResult
<1>8. StampNeverForeign'
  BY <1>g DEF StampNeverForeign, OwnerInv, TypeOK, EpisodeTypes, BagTypes, Bags, Goals, Unstamped
<1>9. ResultNamesOwnBag'
  BY <1>g, <1>s, <1>r DEF ResultNamesOwnBag, ResultInv, TypeOK, EpisodeTypes, GoalTypes, BagTypes, Bags, Terminal
<1> QED
  BY <1>2, <1>3, <1>4, <1>5, <1>6, <1>7, <1>8, <1>9 DEF GoalsInv, ControlInv

(* ~/start_recording forgets the goal and its id.                          *)
LEMMA ForgetKeeps ==
  ASSUME IndInv, ForgetGoal
  PROVE  /\ HandleIsTheLiveGoal' /\ OutcomeFitsReason'
         /\ goal_handle' = 0 /\ current_goal_id' = 0 /\ result' = result
         /\ \A h \in Goals : goal_state'[h] \notin Terminal => result'[h] = NoResult
         /\ \A h \in Goals : result[h].bag # NoBag => goal_state'[h] = goal_state[h]
<1> USE DEF IndInv
<1>1. \A h \in Goals : goal_state'[h] = IF h = goal_handle THEN "canceled" ELSE goal_state[h]
  BY DropEffect DEF TypeOK, ForgetGoal
<1>2. goal_handle' = 0 /\ current_goal_id' = 0 /\ result' = result
  BY DEF ForgetGoal, NoGoal
<1>3. HandleIsTheLiveGoal'
  BY <1>1, <1>2 DEF HandleIsTheLiveGoal, Live, Goals
<1>4. OutcomeFitsReason'
  BY <1>1, <1>2, LiveGoal DEF OutcomeFitsReason, NoResult
<1>5. \A h \in Goals : goal_state'[h] \notin Terminal => result'[h] = NoResult
  BY <1>1, <1>2 DEF ResultInv, Terminal
<1>6. \A h \in Goals : result[h].bag # NoBag => goal_state'[h] = goal_state[h]
  BY <1>1, LiveGoal DEF NoResult
<1> QED
  BY <1>2, <1>3, <1>4, <1>5, <1>6

(* A service call that starts an episode, which then has no goal.          *)
LEMMA OnStartServiceKeeps ==
  ASSUME IndInv, NEW o \in StartOutcomes, OnStartService(o)
  PROVE  GoalsInv' /\ ControlInv'
<1> USE BoundsAssumption DEF IndInv, OnStartService, StartRecording, Escapes, ResetFlags, Refused,
      StartOutcomes, node, calls, history, NoGoal, NoBag
<1>f. /\ HandleIsTheLiveGoal' /\ OutcomeFitsReason'
      /\ goal_handle' = 0 /\ current_goal_id' = 0 /\ result' = result
      /\ \A h \in Goals : goal_state'[h] \notin Terminal => result'[h] = NoResult
      /\ \A h \in Goals : result[h].bag # NoBag => goal_state'[h] = goal_state[h]
  BY ForgetKeeps
<1>g. episode + 1 \in Bags
  BY DEF Bags, TypeOK, EpisodeTypes
<1>1. ExecutorInv'
  BY DEF ExecutorInv
<1>2. OwnerInv'
  BY <1>f, <1>g DEF OwnerInv, UnderWay, Busy, TypeOK, EpisodeTypes, BagTypes, Bags
<1>3. ResultInv'
  BY <1>f, <1>g DEF ResultInv, UnderWay, Busy, TypeOK, EpisodeTypes, GoalTypes
<1>4. NoGoalLeftBehind' /\ OnlyActiveRecords'
  BY <1>f DEF NoGoalLeftBehind, OnlyActiveRecords, ExecutorInv, Busy
<1>5. StampNeverForeign'
  BY <1>g DEF StampNeverForeign, OwnerInv, TypeOK, EpisodeTypes, BagTypes, Bags, Goals, Unstamped
<1>6. ResultNamesOwnBag'
  BY <1>f, <1>g DEF ResultNamesOwnBag, ResultInv, TypeOK, EpisodeTypes, GoalTypes, BagTypes, Bags
<1> QED
  BY <1>f, <1>1, <1>2, <1>3, <1>4, <1>5, <1>6 DEF GoalsInv, ControlInv

(* A service call that is refused, and has cost the episode its goal.      *)
LEMMA OnStartServiceRefusedKeeps ==
  ASSUME IndInv, OnStartServiceRefused
  PROVE  GoalsInv' /\ ControlInv'
<1> USE DEF IndInv, OnStartServiceRefused, node, recording, executor, disk, history, NoGoal
<1>f. /\ HandleIsTheLiveGoal' /\ OutcomeFitsReason'
      /\ goal_handle' = 0 /\ current_goal_id' = 0 /\ result' = result
      /\ \A h \in Goals : goal_state'[h] \notin Terminal => result'[h] = NoResult
      /\ \A h \in Goals : result[h].bag # NoBag => goal_state'[h] = goal_state[h]
  BY ForgetKeeps
<1>1. ExecutorInv' /\ NoGoalLeftBehind' /\ OnlyActiveRecords'
  BY <1>f DEF ExecutorInv, NoGoalLeftBehind, OnlyActiveRecords, Busy
<1>2. OwnerInv'
  BY <1>f DEF OwnerInv, UnderWay, Busy
<1>3. ResultInv'
  BY <1>f DEF ResultInv, UnderWay, Busy
<1>4. StampNeverForeign' /\ ResultNamesOwnBag'
  BY <1>f DEF StampNeverForeign, ResultNamesOwnBag
<1> QED
  BY <1>f, <1>1, <1>2, <1>3, <1>4 DEF GoalsInv, ControlInv

(* Settling the goal of the handle, once its episode names no bag of it:   *)
(* a deferred start that fails or is cancelled.                            *)
LEMMA SettleWithoutBagKeeps ==
  ASSUME IndInv, NEW r \in {"error", "node_deactivated"}, SettleGoal(r, NoBag),
         UNCHANGED <<episode, producer, stamped>>, ~UnderWay'
  PROVE  GoalsInv' /\ goal_handle' = NoGoal
<1> USE DEF IndInv, NoGoal, NoBag
<1>1. /\ goal_handle' = 0
      /\ \A h \in Goals : goal_state'[h] = IF h = goal_handle THEN Outcome(r) ELSE goal_state[h]
      /\ \A h \in Goals : result'[h] = IF h = goal_handle THEN [reason |-> r, bag |-> 0] ELSE result[h]
  BY SettleEffect DEF TypeOK
<1>2. Outcome(r) \in {"canceled", "aborted"}
  BY OutcomeCases DEF AbortReasons
<1>3. OwnerInv'
  BY DEF OwnerInv
<1>4. ResultInv'
  BY <1>1, <1>2, BoundsAssumption DEF ResultInv, Terminal, TypeOK, EpisodeTypes
<1>5. HandleIsTheLiveGoal'
  BY <1>1, <1>2 DEF HandleIsTheLiveGoal, Live, Goals
<1>6. OutcomeFitsReason'
  BY <1>1, <1>2 DEF OutcomeFitsReason
<1>7. StampNeverForeign' /\ ResultNamesOwnBag'
  BY <1>1 DEF StampNeverForeign, ResultNamesOwnBag
<1> QED
  BY <1>1, <1>3, <1>4, <1>5, <1>6, <1>7 DEF GoalsInv

(* complete_start.                                                         *)
LEMMA DeferredStartKeeps == ASSUME IndInv, DeferredStart PROVE GoalsInv' /\ ControlInv'
<1>1. CASE CompleteStart
  <2> USE <1>1 DEF CompleteStart, node, executor, history, goals
  <2>1. GoalsInv'
    BY QuietKeeps DEF UnderWay, Busy
  <2>2. ControlInv'
    BY DEF IndInv, ControlInv, ExecutorInv, NoGoalLeftBehind, OnlyActiveRecords, Busy
  <2> QED
    BY <2>1, <2>2
<1>2. CASE CompleteStartFails
  <2> USE <1>2 DEF CompleteStartFails, node, executor, history, disk
  <2>1. ~UnderWay'
    BY DEF UnderWay, Busy, IndInv, OnlyActiveRecords
  <2>2. GoalsInv' /\ goal_handle' = NoGoal
    BY <2>1, SettleWithoutBagKeeps
  <2>3. ControlInv'
    BY <2>2 DEF IndInv, ControlInv, ExecutorInv, NoGoalLeftBehind, OnlyActiveRecords, Busy
  <2> QED
    BY <2>2, <2>3
<1>3. CASE CompleteStartThrows
  <2> USE <1>3 DEF CompleteStartThrows, Escapes, node, history, disk, goals
  <2>1. GoalsInv'
    BY QuietKeeps DEF UnderWay, Busy
  <2>2. ControlInv'
    BY DEF IndInv, ControlInv, ExecutorInv, NoGoalLeftBehind, OnlyActiveRecords, Busy
  <2> QED
    BY <2>1, <2>2
<1> QED
  BY <1>1, <1>2, <1>3 DEF DeferredStart

(* The tick, the clock and the failing write.                              *)
LEMMA RunningKeeps ==
  ASSUME IndInv, Tick \/ ClockExpires \/ ClockSetBack \/ WriteFails
  PROVE  GoalsInv' /\ ControlInv'
<1> USE DEF node, recording, executor, history, goals, disk
<1>1. CASE TickSeesFailure
  <2> USE <1>1 DEF TickSeesFailure, FinishRecording
  <2>1. GoalsInv'
    BY QuietKeeps DEF UnderWay, Busy
  <2>2. ControlInv'
    BY DEF IndInv, ControlInv, ExecutorInv, NoGoalLeftBehind, OnlyActiveRecords, Busy, Reasons
  <2> QED
    BY <2>1, <2>2
<1>2. CASE TickSeesNoFailure \/ TickFeedback
  <2> USE <1>2 DEF TickSeesNoFailure, TickFeedback
  <2>1. GoalsInv'
    BY QuietKeeps DEF UnderWay, Busy
  <2>2. ControlInv'
    BY DEF IndInv, ControlInv, ExecutorInv, NoGoalLeftBehind, OnlyActiveRecords, Busy
  <2> QED
    BY <2>1, <2>2
<1>3. CASE TickEnds
  <2> USE <1>3 DEF TickEnds, FinishRecording
  <2>1. is_recording
    BY DEF IndInv, ExecutorInv
  <2>2. GoalsInv'
    BY <2>1, QuietKeeps DEF UnderWay, Busy
  <2>3. ControlInv'
    BY <2>1, TickReasonCases DEF IndInv, ControlInv, ExecutorInv, NoGoalLeftBehind, OnlyActiveRecords,
       Busy, Reasons, IsCanceling
  <2> QED
    BY <2>2, <2>3
<1>4. CASE ClockExpires \/ ClockSetBack
  <2> USE <1>4 DEF ClockExpires, ClockSetBack
  <2>1. GoalsInv'
    BY QuietKeeps DEF UnderWay, Busy
  <2>2. ControlInv'
    BY DEF IndInv, ControlInv, ExecutorInv, NoGoalLeftBehind, OnlyActiveRecords, Busy, IsCanceling
  <2> QED
    BY <2>1, <2>2
<1>5. CASE WriteFails
  <2> USE <1>5 DEF WriteFails
  <2>1. GoalsInv'
    BY QuietKeeps DEF UnderWay, Busy
  <2>2. ControlInv'
    BY DEF IndInv, ControlInv, ExecutorInv, NoGoalLeftBehind, OnlyActiveRecords, Busy, IsCanceling
  <2> QED
    BY <2>1, <2>2
<1> QED
  BY <1>1, <1>2, <1>3, <1>4, <1>5 DEF Tick, TickBegins, TickGoesOn

(* finish_recording after the drain: the bag is stamped with the goal that *)
(* still owns the episode, and only that goal is told of the bag.          *)
LEMMA FinishDoneKeeps ==
  ASSUME IndInv, NEW ok \in BOOLEAN, FinishDone(ok)
  PROVE  GoalsInv' /\ ControlInv'
<1> USE DEF IndInv, FinishDone, recording, history, NoGoal, NoBag
<1>t. episode \in Bags /\ episode \in Nat /\ UnderWay /\ reason \in Reasons /\ ~Busy /\ ~UnderWay'
  BY BoundsAssumption DEF ExecutorInv, OwnerInv, UnderWay, Busy, TypeOK, EpisodeTypes, Bags
<1>o. goal_handle # 0 => current_goal_id = goal_handle /\ producer[episode] = goal_handle
  BY <1>t DEF OwnerInv
<1>p. ReportedReason(ok) = IF ok THEN reason ELSE "error"
  BY DEF ReportedReason
<1>s. /\ goal_handle' = 0
      /\ \A h \in Goals : goal_state'[h] =
           IF h = goal_handle THEN Outcome(ReportedReason(ok)) ELSE goal_state[h]
      /\ \A h \in Goals : result'[h] =
           IF h = goal_handle THEN [reason |-> ReportedReason(ok), bag |-> episode] ELSE result[h]
  BY SettleEffect DEF TypeOK
<1>b. /\ stamped'[episode] = IF ok THEN current_goal_id ELSE StampFailed
      /\ \A b \in Bags : b # episode => stamped'[b] = stamped[b]
  BY <1>t DEF Stamp, TypeOK, BagTypes
<1>c. /\ Outcome(ReportedReason(ok)) \in Terminal
      /\ Outcome(ReportedReason(ok)) = "succeeded" => ok
  BY <1>p, OutcomeCases, OutcomeType DEF AbortReasons
<1>1. ControlInv'
  <2>1. ExecutorInv' /\ NoGoalLeftBehind' /\ OnlyActiveRecords'
    BY <1>t, <1>s, LifecycleAfterCases DEF ExecutorInv, NoGoalLeftBehind, OnlyActiveRecords, Busy,
       TypeOK, NodeTypes
  <2> QED
    BY <2>1 DEF ControlInv
<1>2. OwnerInv'
  BY <1>t, <1>b DEF OwnerInv, TypeOK, EpisodeTypes, Bags
<1>3. ResultInv'
  BY <1>t, <1>s, <1>c DEF ResultInv
<1>4. HandleIsTheLiveGoal'
  BY <1>s, <1>c DEF HandleIsTheLiveGoal, Live, Terminal, Goals
<1>5. OutcomeFitsReason'
  <2>1. LET r == ReportedReason(ok) IN
        /\ Outcome(r) = "succeeded" => r \in {"timeout", "stopped"}
        /\ Outcome(r) = "aborted" => r \in {"error", "node_deactivated"}
        /\ r = "cancelled" => Outcome(r) = "canceled"
    BY <1>p, <1>t, OutcomeCases DEF AbortReasons, Reasons, ExecutorInv
  <2> QED
    BY <1>s, <2>1 DEF OutcomeFitsReason
<1>6. StampNeverForeign'
  BY <1>t, <1>b DEF StampNeverForeign, OwnerInv, StampFailed, Goals
<1>7. ResultNamesOwnBag'
  <2> SUFFICES ASSUME NEW h \in Goals, result'[h].bag # 0
               PROVE  /\ producer[result'[h].bag] = h
                      /\ \/ stamped'[result'[h].bag] = h
                         \/ stamped'[result'[h].bag] = StampFailed /\ goal_state'[h] # "succeeded"
    BY DEF ResultNamesOwnBag
  <2>1. CASE h = goal_handle
    BY <2>1, <1>s, <1>b, <1>o, <1>c DEF Goals
  <2>2. CASE h # goal_handle
    <3>1. result'[h] = result[h] /\ goal_state'[h] = goal_state[h]
      BY <2>2, <1>s
    <3>2. result[h].bag \in Bags /\ result[h].bag # episode
      BY <1>t, <3>1 DEF ResultInv, TypeOK, GoalTypes, Bags
    <3> QED
      BY <3>1, <3>2, <1>b DEF ResultNamesOwnBag
  <2> QED
    BY <2>1, <2>2
<1> QED
  BY <1>1, <1>2, <1>3, <1>4, <1>5, <1>6, <1>7 DEF GoalsInv

(* finish_recording when closing the bag throws.                           *)
LEMMA CloseThrowsKeeps == ASSUME IndInv, CloseThrows PROVE GoalsInv' /\ ControlInv'
<1> USE DEF CloseThrows, recording, goals, disk
<1>1. GoalsInv'
  BY QuietKeeps DEF UnderWay, Busy
<1>2. ControlInv'
  BY DEF IndInv, ControlInv, ExecutorInv, NoGoalLeftBehind, OnlyActiveRecords, Busy
<1> QED
  BY <1>1, <1>2

(* A goal moves to another state that is not one of its ends, or a new one *)
(* is refused; it has no result before and none after.                     *)
LEMMA MoveKeeps ==
  ASSUME IndInv, NEW g \in Goals, NEW s,
         \/ goal_state[g] = "new" /\ s = "rejected"
         \/ goal_state[g] = "executing" /\ s = "canceling",
         goal_state' = [goal_state EXCEPT ![g] = s],
         UNCHANGED <<result, goal_handle, current_goal_id, episode, producer, stamped>>,
         UnderWay' => UnderWay
  PROVE  GoalsInv'
<1> USE DEF IndInv
<1>1. \A h \in Goals : goal_state'[h] = IF h = g THEN s ELSE goal_state[h]
  BY DEF TypeOK, GoalTypes
<1>2. result[g] = NoResult
  BY DEF ResultInv, Terminal
<1>3. OwnerInv'
  BY DEF OwnerInv
<1>4. ResultInv'
  BY <1>1, <1>2 DEF ResultInv
<1>5. HandleIsTheLiveGoal'
  BY <1>1 DEF HandleIsTheLiveGoal, Live
<1>6. OutcomeFitsReason'
  BY <1>1, <1>2 DEF OutcomeFitsReason, NoResult
<1>7. StampNeverForeign' /\ ResultNamesOwnBag'
  BY <1>1, <1>2 DEF StampNeverForeign, ResultNamesOwnBag, NoResult
<1> QED
  BY <1>3, <1>4, <1>5, <1>6, <1>7 DEF GoalsInv

(* Refusing a goal, and cancelling.                                        *)
LEMMA CallsKeep ==
  ASSUME IndInv,
         \/ \E g \in Goals : RejectGoal(g) \/ ClientCancels(g)
         \/ OnCancelServiceAsks \/ OnCancelServiceStops \/ ServeCalls
  PROVE  GoalsInv' /\ ControlInv'
<1> USE DEF node, recording, executor, history, goals, disk
<1>1. ASSUME NEW g \in Goals, RejectGoal(g) PROVE GoalsInv' /\ ControlInv'
  <2> USE <1>1 DEF RejectGoal
  <2>1. GoalsInv'
    BY MoveKeeps DEF UnderWay, Busy
  <2>2. ControlInv'
    BY DEF IndInv, ControlInv, ExecutorInv, NoGoalLeftBehind, OnlyActiveRecords, Busy
  <2> QED
    BY <2>1, <2>2
<1>2. ASSUME NEW g \in Goals, ClientCancels(g) PROVE GoalsInv' /\ ControlInv'
  <2> USE <1>2 DEF ClientCancels, HandleCancel
  <2>1. GoalsInv'
    BY MoveKeeps DEF UnderWay, Busy
  <2>2. ControlInv'
    BY DEF IndInv, ControlInv, ExecutorInv, NoGoalLeftBehind, OnlyActiveRecords, Busy
  <2> QED
    BY <2>1, <2>2
<1>3. CASE OnCancelServiceAsks \/ OnCancelServiceStops \/ HandleCancelResponse
  <2>1. /\ xpc = "spin" /\ UNCHANGED <<node, recording, executor, goals, close_threw>>
        /\ UNCHANGED <<current_goal_id, episode, producer, stamped>>
    BY <1>3 DEF OnCancelServiceAsks, OnCancelServiceStops, HandleCancelResponse, CancelAllowed
  <2>2. GoalsInv'
    BY <2>1, QuietKeeps DEF UnderWay, Busy
  <2>3. ControlInv'
    BY <2>1 DEF IndInv, ControlInv, ExecutorInv, NoGoalLeftBehind, OnlyActiveRecords, Busy
  <2> QED
    BY <2>2, <2>3
<1>4. CASE HandleCancelRequest
  <2>1. GoalsInv'
    <3>1. CASE goal_state[Head(requests)] = "executing"
      <4>1. Head(requests) \in Goals
        BY <1>4 DEF HandleCancelRequest, IndInv, TypeOK, CallTypes
      <4>2. goal_state' = [goal_state EXCEPT ![Head(requests)] = "canceling"]
        BY <1>4, <3>1 DEF HandleCancelRequest, HandleCancel
      <4>3. UNCHANGED <<result, goal_handle, current_goal_id, episode, producer, stamped>>
            /\ (UnderWay' => UnderWay)
        BY <1>4 DEF HandleCancelRequest, UnderWay, Busy
      <4> QED
        BY <3>1, <4>1, <4>2, <4>3, MoveKeeps
    <3>2. CASE goal_state[Head(requests)] # "executing"
      BY <1>4, <3>2, QuietKeeps DEF HandleCancelRequest, UnderWay, Busy
    <3> QED
      BY <3>1, <3>2
  <2>2. ControlInv'
    BY <1>4 DEF HandleCancelRequest, IndInv, ControlInv, ExecutorInv, NoGoalLeftBehind, OnlyActiveRecords, Busy
  <2> QED
    BY <2>1, <2>2
<1> QED
  BY <1>1, <1>2, <1>3, <1>4 DEF ServeCalls

(* cancel_pending_start, in a transition that leaves the rest of the       *)
(* episode to finish_recording.                                            *)
LEMMA CancelPendingKeeps ==
  ASSUME IndInv, CancelPendingStart("node_deactivated"), xpc = "spin",
         UNCHANGED <<episode, producer, stamped>>,
         \/ is_recording' = is_recording /\ xpc' = "spin"
         \/ is_recording /\ ~is_recording' /\ xpc' = "finish"
  PROVE  /\ GoalsInv' /\ ~start_pending'
         /\ start_pending => goal_handle' = NoGoal
         /\ ~start_pending => UNCHANGED goals
<1>1. CASE start_pending
  <2>1. ~UnderWay' /\ ~start_pending'
    BY <1>1 DEF CancelPendingStart, IndInv, OnlyActiveRecords, UnderWay, Busy
  <2>2. SettleGoal("node_deactivated", NoBag)
    BY <1>1 DEF CancelPendingStart
  <2> QED
    BY <1>1, <2>1, <2>2, SettleWithoutBagKeeps
<1>2. CASE ~start_pending
  <2>1. UNCHANGED <<start_pending, goals, current_goal_id>>
    BY <1>2 DEF CancelPendingStart
  <2> QED
    BY <1>2, <2>1, QuietKeeps DEF UnderWay, Busy
<1> QED
  BY <1>1, <1>2

(* The lifecycle transitions.                                              *)
LEMMA LifecycleKeeps ==
  ASSUME IndInv, OnConfigure \/ OnActivate \/ OnDeactivate \/ OnCleanup \/ OnShutdown
  PROVE  GoalsInv' /\ ControlInv'
<1> USE DEF recording, executor, history, disk
<1>1. CASE OnConfigure
  <2> USE <1>1 DEF OnConfigure, goals
  <2>1. GoalsInv'
    BY QuietKeeps DEF UnderWay, Busy
  <2>2. ControlInv'
    BY DEF IndInv, ControlInv, ExecutorInv, NoGoalLeftBehind, OnlyActiveRecords, Busy
  <2> QED
    BY <2>1, <2>2
<1>2. CASE OnActivate
  <2> USE <1>2 DEF OnActivate, goals
  <2>1. GoalsInv'
    BY QuietKeeps DEF UnderWay, Busy
  <2>2. ControlInv'
    BY DEF IndInv, ControlInv, ExecutorInv, NoGoalLeftBehind, OnlyActiveRecords, Busy
  <2> QED
    BY <2>1, <2>2
<1>3. CASE OnDeactivate
  <2> USE <1>3 DEF OnDeactivate, FinishRecording
  <2>1. /\ GoalsInv' /\ ~start_pending'
        /\ start_pending => goal_handle' = NoGoal
        /\ ~start_pending => UNCHANGED goals
    BY CancelPendingKeeps
  <2>2. ControlInv'
    BY <2>1 DEF IndInv, ControlInv, ExecutorInv, NoGoalLeftBehind, OnlyActiveRecords, Busy, goals, Reasons
  <2> QED
    BY <2>1, <2>2
<1>4. CASE OnCleanup
  <2> USE <1>4 DEF OnCleanup
  <2>1. /\ GoalsInv' /\ ~start_pending'
        /\ start_pending => goal_handle' = NoGoal
        /\ ~start_pending => UNCHANGED goals
    BY CancelPendingKeeps
  <2>2. ControlInv'
    BY <2>1 DEF IndInv, ControlInv, ExecutorInv, NoGoalLeftBehind, OnlyActiveRecords, Busy, goals
  <2> QED
    BY <2>1, <2>2
<1>5. CASE OnShutdown
  <2> USE <1>5 DEF OnShutdown, FinishRecording
  <2>1. /\ GoalsInv' /\ ~start_pending'
        /\ start_pending => goal_handle' = NoGoal
        /\ ~start_pending => UNCHANGED goals
    BY CancelPendingKeeps
  <2>2. ControlInv'
    BY <2>1 DEF IndInv, ControlInv, ExecutorInv, NoGoalLeftBehind, OnlyActiveRecords, Busy, goals, Reasons
  <2> QED
    BY <2>1, <2>2
<1> QED
  BY <1>1, <1>2, <1>3, <1>4, <1>5

(* The end of the node: a goal still alive stays as it was.                *)
LEMMA TeardownKeeps ==
  ASSUME IndInv, xpc = "spin" \/ xpc = "thrown", Teardown
  PROVE  GoalsInv' /\ ControlInv'
<1>1. GoalsInv'
  <2>1. UNCHANGED <<goals, current_goal_id, episode, producer, stamped>>
    BY DEF Teardown, disk
  <2>2. UnderWay' => UnderWay
    BY DEF Teardown, UnderWay, Busy
  <2> QED
    BY <2>1, <2>2, QuietKeeps
<1>2. ControlInv'
  BY DEF IndInv, Teardown, node, history, ControlInv, ExecutorInv, NoGoalLeftBehind,
     OnlyActiveRecords, Busy
<1> QED
  BY <1>1, <1>2

(* ~/delete_last_bag, and a stuttering step.                               *)
LEMMA StillKeeps ==
  ASSUME IndInv, OnDeleteLastBag \/ UNCHANGED vars
  PROVE  GoalsInv' /\ ControlInv'
<1>1. /\ UNCHANGED <<node, recording, executor, goals, current_goal_id, episode, producer>>
      /\ UNCHANGED <<stamped, close_threw>>
  BY DEF OnDeleteLastBag, vars, history, disk
<1>2. GoalsInv'
  BY <1>1, QuietKeeps DEF UnderWay, Busy, recording, executor
<1>3. ControlInv'
  BY <1>1 DEF IndInv, ControlInv, ExecutorInv, NoGoalLeftBehind, OnlyActiveRecords, Busy, IsCanceling,
     node, recording, executor, goals
<1> QED
  BY <1>2, <1>3

(* IndInv is inductive.                                                    *)
LEMMA NextKeepsIndInv == ASSUME IndInv, [Next]_vars PROVE IndInv'
<1>1. GoalsInv' /\ ControlInv'
  <2>1. ASSUME NEW g \in Goals, NEW o \in StartOutcomes, AcceptGoal(g, o) PROVE GoalsInv' /\ ControlInv'
    BY <2>1, AcceptGoalKeeps
  <2>2. ASSUME NEW o \in StartOutcomes, OnStartService(o) PROVE GoalsInv' /\ ControlInv'
    BY <2>2, OnStartServiceKeeps
  <2>3. ASSUME Finish PROVE GoalsInv' /\ ControlInv'
    BY <2>3, FinishDoneKeeps DEF Finish
  <2> QED
    BY <2>1, <2>2, <2>3, OnStartServiceRefusedKeeps, DeferredStartKeeps, RunningKeeps, CloseThrowsKeeps,
       CallsKeep, LifecycleKeeps, TeardownKeeps, StillKeeps DEF Next, Destroy, Unwind, Gone
<1> QED
  BY <1>1, NextKeepsTypeOK DEF IndInv, GoalsInv, ControlInv

(* So it holds in every reachable state.                                   *)
LEMMA IndInvAlways == Spec => []IndInv
BY InitIndInv, NextKeepsIndInv, PTL DEF Spec

-----------------------------------------------------------------------------
(* The safety properties, for any number of goals, episodes and calls.     *)

(* Every variable stays in its type.                                       *)
THEOREM TypesHold == Spec => []TypeOK
BY IndInvAlways, PTL DEF IndInv

(* The node holds a goal handle exactly while that goal is alive: the code *)
(* loses no live goal and settles none twice.                              *)
THEOREM HandleTracksGoal == Spec => []HandleIsTheLiveGoal
BY IndInvAlways, PTL DEF IndInv

(* A node at rest owes no client an answer, unless closing a bag threw in  *)
(* a lifecycle transition.                                                 *)
THEOREM GoalsAreAnswered == Spec => []NoGoalLeftBehind
BY IndInvAlways, PTL DEF IndInv

(* Only an active node records, one episode at a time; a deferred start    *)
(* never goes live behind a deactivation.                                  *)
THEOREM RecordsOnlyWhenActive == Spec => []OnlyActiveRecords
BY IndInvAlways, PTL DEF IndInv

(* settle_goal's state and the reason in the result always agree.          *)
THEOREM OutcomesFit == Spec => []OutcomeFitsReason
BY IndInvAlways, PTL DEF IndInv

(* write_metadata never stamps a bag with a goal that did not produce it.  *)
THEOREM StampsAreOwn == Spec => []StampNeverForeign
BY IndInvAlways, PTL DEF IndInv

(* A result names only a bag its own goal produced, stamped or reported.   *)
THEOREM ResultsNameOwnBags == Spec => []ResultNamesOwnBag
BY IndInvAlways, PTL DEF IndInv

-----------------------------------------------------------------------------
(* The recorder implements GoalProtocol.                                   *)

(* Settling the goal of the handle is the protocol's Settle.               *)
LEMMA SettleRefines ==
  ASSUME IndInv, NEW r, NEW b, SettleGoal(r, b)
  PROVE  [GP!Next]_goal_state
<1>1. CASE goal_handle = NoGoal
  BY <1>1 DEF SettleGoal
<1>2. CASE goal_handle # NoGoal
  <2>1. goal_handle \in Goals /\ goal_state[goal_handle] \in Live
    BY <1>2, LiveGoal DEF IndInv, TypeOK, GoalTypes, Goals, NoGoal
  <2>2. goal_state' = [goal_state EXCEPT ![goal_handle] = Outcome(r)]
    BY <1>2 DEF SettleGoal
  <2>3. \/ Outcome(r) = "canceled"
        \/ goal_state[goal_handle] = "executing" /\ Outcome(r) \in {"succeeded", "aborted"}
    BY <1>2, <2>1, OutcomeCases DEF IsCanceling, Live
  <2>4. GP!Settle(goal_handle)
    BY <2>1, <2>2, <2>3 DEF GP!Settle, GP!Become, GP!Live, Live
  <2> QED
    BY <2>1, <2>4 DEF GP!Next, GP!Goals, Goals
<1> QED
  BY <1>1, <1>2

(* So is dropping a handle that is still alive.                            *)
LEMMA DropRefines ==
  ASSUME IndInv, goal_state' = Dropped(goal_state)
  PROVE  [GP!Next]_goal_state
<1>1. CASE goal_handle = NoGoal
  BY <1>1 DEF Dropped
<1>2. CASE goal_handle # NoGoal
  <2>1. goal_handle \in Goals /\ goal_state[goal_handle] \in Live
    BY <1>2, LiveGoal DEF IndInv, TypeOK, GoalTypes, Goals, NoGoal
  <2>2. GP!Settle(goal_handle)
    BY <1>2, <2>1 DEF Dropped, GP!Settle, GP!Become, GP!Live, Live
  <2> QED
    BY <2>1, <2>2 DEF GP!Next, GP!Goals, Goals
<1> QED
  BY <1>1, <1>2

(* handle_accepted: the new goal is taken, and one left over is given up.  *)
LEMMA AcceptRefines ==
  ASSUME IndInv, NEW g \in Goals, NEW o \in StartOutcomes, AcceptGoal(g, o)
  PROVE  [GP!Next]_goal_state
<1> DEFINE s == IF o = "failed" THEN "aborted" ELSE "executing"
<1>1. /\ Dropped(goal_state) \in [Goals -> {"new"} \cup Live \cup Terminal]
      /\ \A h \in Goals : Dropped(goal_state)[h] =
            IF h = goal_handle THEN "canceled" ELSE goal_state[h]
  BY DropEffect DEF IndInv, TypeOK
<1>2. goal_state[g] = "new" /\ goal_state' = [Dropped(goal_state) EXCEPT ![g] = s]
  BY DEF AcceptGoal
<1>3. \A h \in Goals : h = goal_handle <=> goal_state[h] \in Live
  BY DEF IndInv, HandleIsTheLiveGoal
<1>4. goal_state' = [h \in Goals |-> IF h = g THEN s
                       ELSE IF goal_state[h] \in Live THEN "canceled" ELSE goal_state[h]]
  BY <1>1, <1>2, <1>3
<1>5. s \in {"executing", "aborted"}
  OBVIOUS
<1> HIDE DEF s
<1>6. GP!Accept(g)
  BY <1>2, <1>4, <1>5 DEF GP!Accept, GP!Goals, GP!Live, Goals, Live
<1> QED
  BY <1>6 DEF GP!Next, GP!Goals, Goals

(* A goal that is refused or cancelled moves as the protocol has it.       *)
LEMMA MoveRefines ==
  ASSUME IndInv, NEW g \in Goals,
         \/ goal_state[g] = "new" /\ goal_state' = [goal_state EXCEPT ![g] = "rejected"]
         \/ goal_state[g] = "executing" /\ goal_state' = [goal_state EXCEPT ![g] = "canceling"]
  PROVE  [GP!Next]_goal_state
BY DEF GP!Next, GP!Reject, GP!Cancel, GP!Become, GP!Goals, Goals

(* Every step of the recorder is a step of the protocol or none.           *)
LEMMA StepRefines == ASSUME IndInv, [Next]_vars PROVE [GP!Next]_goal_state
<1>1. ASSUME NEW g \in Goals, RejectGoal(g) \/ ClientCancels(g) PROVE [GP!Next]_goal_state
  BY <1>1, MoveRefines DEF RejectGoal, ClientCancels, HandleCancel
<1>2. ASSUME NEW g \in Goals, NEW o \in StartOutcomes, AcceptGoal(g, o) PROVE [GP!Next]_goal_state
  BY <1>2, AcceptRefines
<1>3. ASSUME \/ \E o \in StartOutcomes : OnStartService(o)
             \/ OnStartServiceRefused
      PROVE  [GP!Next]_goal_state
  BY <1>3, DropRefines DEF OnStartService, OnStartServiceRefused, ForgetGoal
<1>4. ASSUME CompleteStartFails PROVE [GP!Next]_goal_state
  BY <1>4, SettleRefines DEF CompleteStartFails
<1>5. ASSUME NEW ok \in BOOLEAN, FinishDone(ok) PROVE [GP!Next]_goal_state
  BY <1>5, SettleRefines DEF FinishDone
<1>6. ASSUME CancelPendingStart("node_deactivated") PROVE [GP!Next]_goal_state
  BY <1>6, SettleRefines DEF CancelPendingStart, goals
<1>7. ASSUME HandleCancelRequest PROVE [GP!Next]_goal_state
  <2>1. Head(requests) \in Goals
    BY <1>7 DEF HandleCancelRequest, IndInv, TypeOK, CallTypes
  <2> QED
    BY <1>7, <2>1, MoveRefines DEF HandleCancelRequest, HandleCancel
<1>8. ASSUME \/ CompleteStart \/ CompleteStartThrows \/ Tick
             \/ ClockExpires \/ ClockSetBack \/ WriteFails \/ CloseThrows
      PROVE  [GP!Next]_goal_state
  BY <1>8 DEF CompleteStart, CompleteStartThrows, Tick, TickBegins, TickGoesOn, TickSeesFailure,
     TickSeesNoFailure, TickEnds, TickFeedback, ClockExpires, ClockSetBack, WriteFails, CloseThrows, goals
<1>9. ASSUME \/ OnCancelServiceAsks \/ OnCancelServiceStops \/ HandleCancelResponse
             \/ OnConfigure \/ OnActivate \/ OnDeleteLastBag \/ Teardown \/ UNCHANGED vars
      PROVE  [GP!Next]_goal_state
  BY <1>9 DEF OnCancelServiceAsks, OnCancelServiceStops, HandleCancelResponse, OnConfigure, OnActivate,
     OnDeleteLastBag, Teardown, vars, goals
<1> QED
  BY <1>1, <1>2, <1>3, <1>4, <1>5, <1>6, <1>7, <1>8, <1>9
     DEF Next, DeferredStart, Finish, ServeCalls, OnDeactivate, OnCleanup, OnShutdown, Destroy, Unwind, Gone

(* However starts, ticks, cancels, transitions and throwing closes         *)
(* interleave, clients see the protocol of GoalProtocol.                   *)
THEOREM ImplementsGoalProtocol == Spec => KeepsGoalProtocol
<1>1. Init => GP!Init
  BY DEF Init, GP!Init, GP!Goals, Goals
<1> QED
  BY <1>1, IndInvAlways, StepRefines, PTL DEF Spec, KeepsGoalProtocol, GP!Spec

=============================================================================
