--------------------------- MODULE EpisodeRecorder ---------------------------
(***************************************************************************)
(* The episode state machine of EpisodeRecorderNode: how an episode is     *)
(* started by an action goal or by ~/start_recording, deferred, ended by   *)
(* the tick, a cancel, a lifecycle transition or a failed write, and how   *)
(* its goal is settled and its bag stamped.                                *)
(*                                                                         *)
(* All callbacks run on the single executor thread, one at a time, so a    *)
(* callback is one step, with two exceptions where the writer thread can   *)
(* get in between: the tick reads write_failed_ before it reads the rest,  *)
(* and finish_recording waits for the drain.  The writer thread is reduced *)
(* to what it does to this state, a failed write (WriterQueue has the      *)
(* rest).  rclcpp_action, rclcpp_lifecycle and rosbag2 are external.       *)
(***************************************************************************)
EXTENDS Integers, Sequences, FiniteSets

CONSTANTS
    MaxGoals,       \* bound: goals clients send
    MaxEpisodes,    \* bound: starts that get as far as naming a bag
    MaxCalls        \* bound: cancel calls of the node to itself in flight

ASSUME BoundsAssumption ==
    MaxGoals \in Nat /\ MaxEpisodes \in Nat /\ MaxCalls \in Nat

VARIABLES
  \* the node's lifecycle
    lifecycle,        \* the managed node's primary state
    services,         \* the services and the cancel client exist
    action_server,    \* action_server_ exists
    accepting_goals,  \* accepting_goals_
  \* the episode
    is_recording,     \* is_recording_
    start_pending,    \* start_pending_
    stop_requested,   \* stop_requested_
    write_failed,     \* write_failed_
    expired,          \* the clock has passed recording_start_ + max duration
    goal_handle,      \* goal_handle_: NoGoal or a goal
    current_goal_id,  \* current_goal_id_: NoGoal when empty
    last_bag,         \* last_bag_dir_: NoBag when empty
  \* the executor
    xpc,              \* "spin", inside a tick or finish_recording, thrown, gone
    reason,           \* finish_recording's termination_reason
    task,             \* the callback that called finish_recording
  \* the action server's goals, and the node's cancel calls to it
    goal_state,
    result,           \* the result each settled goal was given
    requests,         \* goals named by cancel requests under way
    responses,        \* their answers under way: accepted or not
  \* bags and history
    episode,          \* starts so far; current_bag_dir_ is the last one's bag
    producer,         \* the goal that started each episode, or NoGoal
    stamped,          \* the goal id in each bag's metadata
    on_disk,          \* bags that went live and have not been deleted
    failed,           \* episodes with a failed write
    asked,            \* episodes somebody asked to stop
    close_threw       \* closing a bag has failed in a transition

node == <<lifecycle, services, action_server, accepting_goals>>
recording == <<is_recording, start_pending, expired>>
flags == <<stop_requested, write_failed>>
executor == <<xpc, reason, task>>
goals == <<goal_state, result, goal_handle>>
calls == <<requests, responses>>
history == <<failed, asked, close_threw>>
disk == <<last_bag, stamped, on_disk>>
vars == <<node, recording, flags, executor, goals, current_goal_id, calls,
          episode, producer, disk, history>>

-----------------------------------------------------------------------------
NoGoal == 0
NoBag == 0
Goals == 1 .. MaxGoals
Bags == 1 .. MaxEpisodes
Live == {"executing", "canceling"}
Terminal == {"succeeded", "canceled", "aborted", "rejected"}

(* What a bag's metadata says of its goal before it is written, and when   *)
(* writing it failed.                                                      *)
Unstamped == -1
StampFailed == -2

(* Result::TERMINATION_*, and what a goal reads whose handle was dropped.  *)
Reasons == {"timeout", "stopped", "cancelled", "error", "node_deactivated"}
NoResult == [reason |-> "none", bag |-> NoBag]

IsCanceling == goal_handle # NoGoal /\ goal_state[goal_handle] = "canceling"
Busy == is_recording \/ start_pending

Init ==
    /\ lifecycle = "unconfigured"
    /\ services = FALSE
    /\ action_server = FALSE
    /\ accepting_goals = FALSE
    /\ is_recording = FALSE
    /\ start_pending = FALSE
    /\ stop_requested = FALSE
    /\ write_failed = FALSE
    /\ expired = FALSE
    /\ goal_handle = NoGoal
    /\ current_goal_id = NoGoal
    /\ last_bag = NoBag
    /\ xpc = "spin"
    /\ reason = "none"
    /\ task = "none"
    /\ goal_state = [g \in Goals |-> "new"]
    /\ result = [g \in Goals |-> NoResult]
    /\ requests = << >>
    /\ responses = << >>
    /\ episode = 0
    /\ producer = [b \in Bags |-> NoGoal]
    /\ stamped = [b \in Bags |-> Unstamped]
    /\ on_disk = {}
    /\ failed = {}
    /\ asked = {}
    /\ close_threw = FALSE

-----------------------------------------------------------------------------
(* Settling goals.                                                         *)

(* Seeded fault: a deactivation is missing from the reasons to abort.      *)
AbortReasonsShort == {"error", "cancelled"}

AbortReasons == {"error", "node_deactivated", "cancelled"}

(* Seeded fault: the reason is looked at before the goal's state.          *)
OutcomeReasonFirst(r) ==
    CASE r \in AbortReasons -> "aborted"
      [] IsCanceling -> "canceled"
      [] OTHER -> "succeeded"

(* Seeded fault: the reason is taken for the state.                        *)
OutcomeIsReason(r) == r

(* settle_goal: a goal in CANCELING may only become CANCELED; otherwise    *)
(* the reason decides.                                                     *)
Outcome(r) ==
    CASE IsCanceling -> "canceled"
      [] ~IsCanceling /\ r \in AbortReasons -> "aborted"
      [] OTHER -> "succeeded"

(* Seeded fault: the handle of a settled goal is kept.                     *)
SettleGoalKeepHandle(r, b) ==
    /\ UNCHANGED goal_handle
    /\ IF goal_handle = NoGoal
       THEN UNCHANGED <<goal_state, result>>
       ELSE /\ goal_state' = [goal_state EXCEPT ![goal_handle] = Outcome(r)]
            /\ result' = [result EXCEPT ![goal_handle] = [reason |-> r, bag |-> b]]

SettleGoal(r, b) ==
    /\ goal_handle' = NoGoal
    /\ IF goal_handle = NoGoal
       THEN UNCHANGED <<goal_state, result>>
       ELSE /\ goal_state' = [goal_state EXCEPT ![goal_handle] = Outcome(r)]
            /\ result' = [result EXCEPT ![goal_handle] = [reason |-> r, bag |-> b]]

(* rclcpp_action, external: a goal whose handle is destroyed while it is   *)
(* alive is moved to CANCELED, with an empty result.  Its client hears of  *)
(* it through the action server that took the goal, while that exists.     *)
Dropped(states) ==
    IF goal_handle = NoGoal THEN states
    ELSE [states EXCEPT ![goal_handle] = "canceled"]

-----------------------------------------------------------------------------
(* Starting an episode.                                                    *)

(* How a start goes: the bag opens, opening it throws, subscriptions were  *)
(* recreated and the bag is opened from a timer, or an exception escapes:  *)
(* subscribing again happens outside the try block, and so does closing    *)
(* the bag after a failure.                                                *)
StartOutcomes == {"live", "failed", "pending", "throws"}

(* An exception that no callback catches leaves spin().                    *)
Escapes(outcome) ==
    /\ xpc' = IF outcome = "throws" THEN "thrown" ELSE "spin"
    /\ UNCHANGED <<reason, task>>

ResetFlags == stop_requested' = FALSE /\ write_failed' = FALSE

(* start_recording, for goal g or for a service call (NoGoal), once it is  *)
(* not refused.                                                            *)
StartRecording(outcome, g) ==
    /\ episode < MaxEpisodes
    /\ episode' = episode + 1
    /\ producer' = [producer EXCEPT ![episode + 1] = g]
    /\ ResetFlags
    /\ expired' = FALSE
    /\ is_recording' = (outcome = "live")
    /\ start_pending' = (outcome = "pending")
    /\ on_disk' = IF outcome = "live" THEN on_disk \cup {episode + 1} ELSE on_disk

Refused == ~accepting_goals \/ Busy

(* handle_goal says REJECT.                                                *)
RejectGoal(g) ==
    /\ xpc = "spin" /\ action_server
    /\ goal_state[g] = "new"
    /\ Refused
    /\ goal_state' = [goal_state EXCEPT ![g] = "rejected"]
    /\ UNCHANGED <<node, recording, flags, executor, result, goal_handle,
                   current_goal_id, calls, episode, producer, disk, history>>

(* handle_goal says ACCEPT_AND_EXECUTE and handle_accepted runs: the goal  *)
(* handle is kept, a handle left over from before is dropped.              *)
AcceptGoal(g, outcome) ==
    /\ xpc = "spin" /\ action_server
    /\ goal_state[g] = "new"
    /\ ~Refused
    /\ StartRecording(outcome, g)
    /\ IF outcome = "failed"
       THEN /\ goal_handle' = NoGoal
            /\ goal_state' = [Dropped(goal_state) EXCEPT ![g] = "aborted"]
            /\ result' = [result EXCEPT ![g] = [reason |-> "error", bag |-> NoBag]]
            /\ UNCHANGED current_goal_id
       ELSE /\ goal_handle' = g
            /\ goal_state' = [Dropped(goal_state) EXCEPT ![g] = "executing"]
            /\ current_goal_id' = IF outcome = "throws" THEN current_goal_id ELSE g
            /\ UNCHANGED result
    /\ Escapes(outcome)
    /\ UNCHANGED <<node, calls, last_bag, stamped, history>>

(* Seeded fault: a service-started episode keeps the id of an earlier goal. *)
ForgetGoalKeepId ==
    /\ goal_handle' = NoGoal
    /\ goal_state' = Dropped(goal_state)
    /\ UNCHANGED <<current_goal_id, result>>

(* on_start_service forgets the goal and its id before it knows whether it *)
(* may start.                                                              *)
ForgetGoal ==
    /\ goal_handle' = NoGoal
    /\ goal_state' = Dropped(goal_state)
    /\ current_goal_id' = NoGoal
    /\ UNCHANGED result

OnStartService(outcome) ==
    /\ xpc = "spin" /\ services
    /\ ForgetGoal
    /\ ~Refused
    /\ StartRecording(outcome, NoGoal)
    /\ Escapes(outcome)
    /\ UNCHANGED <<node, calls, last_bag, stamped, history>>

OnStartServiceRefused ==
    /\ xpc = "spin" /\ services
    /\ ForgetGoal
    /\ Refused
    /\ UNCHANGED <<node, recording, flags, executor, calls, episode, producer,
                   disk, history>>

(* complete_start, from its timer: the bag opens.                          *)
CompleteStart ==
    /\ xpc = "spin" /\ start_pending
    /\ start_pending' = FALSE
    /\ is_recording' = TRUE
    /\ on_disk' = on_disk \cup {episode}
    /\ UNCHANGED <<node, flags, expired, executor, goals, current_goal_id, calls,
                   episode, producer, last_bag, stamped, history>>

(* complete_start when opening the bag throws: the goal gets the error.    *)
CompleteStartFails ==
    /\ xpc = "spin" /\ start_pending
    /\ start_pending' = FALSE
    /\ SettleGoal("error", NoBag)
    /\ UNCHANGED <<node, is_recording, flags, expired, executor, current_goal_id,
                   calls, episode, producer, disk, history>>

(* complete_start when closing that bag throws as well.                    *)
CompleteStartThrows ==
    /\ xpc = "spin" /\ start_pending
    /\ start_pending' = FALSE
    /\ Escapes("throws")
    /\ UNCHANGED <<node, is_recording, flags, expired, goals, current_goal_id,
                   calls, episode, producer, disk, history>>

-----------------------------------------------------------------------------
(* Ending an episode.                                                      *)

(* finish_recording up to the drain.                                       *)
FinishRecording(r, t) ==
    /\ is_recording' = FALSE
    /\ xpc' = "finish"
    /\ reason' = r
    /\ task' = t

(* on_recording_tick reads write_failed_ first.                            *)
TickSeesFailure ==
    /\ xpc = "spin" /\ is_recording
    /\ write_failed
    /\ FinishRecording("error", "tick")
    /\ UNCHANGED <<node, start_pending, expired, flags, goals, current_goal_id,
                   calls, episode, producer, disk, history>>

TickSeesNoFailure ==
    /\ xpc = "spin" /\ is_recording
    /\ ~write_failed
    /\ xpc' = "tick"
    /\ UNCHANGED <<node, recording, flags, reason, task, goals, current_goal_id,
                   calls, episode, producer, disk, history>>

(* Seeded fault: the maximum duration is not enforced.                     *)
TickReasonNoTimeout ==
    CASE IsCanceling -> "cancelled"
      [] stop_requested /\ ~IsCanceling -> "stopped"
      [] OTHER -> "none"

(* The rest of the tick: why the episode ends, if it does.  A goal in      *)
(* CANCELING reports a cancel with and without stop_requested_.            *)
TickReason ==
    CASE IsCanceling -> "cancelled"
      [] stop_requested /\ ~IsCanceling -> "stopped"
      [] ~stop_requested /\ ~IsCanceling /\ expired -> "timeout"
      [] OTHER -> "none"

TickEnds ==
    /\ xpc = "tick"
    /\ TickReason # "none"
    /\ FinishRecording(TickReason, "tick")
    /\ UNCHANGED <<node, start_pending, expired, flags, goals, current_goal_id,
                   calls, episode, producer, disk, history>>

(* Nothing to do: feedback is published.                                   *)
TickFeedback ==
    /\ xpc = "tick"
    /\ TickReason = "none"
    /\ xpc' = "spin"
    /\ UNCHANGED <<node, recording, flags, reason, task, goals, current_goal_id,
                   calls, episode, producer, disk, history>>

(* The maximum duration passes.                                            *)
ClockExpires ==
    /\ is_recording /\ ~expired
    /\ expired' = TRUE
    /\ UNCHANGED <<node, is_recording, start_pending, flags, executor, goals,
                   current_goal_id, calls, episode, producer, disk, history>>

(* Simulated time starts again from an earlier instant.                    *)
ClockSetBack ==
    /\ is_recording /\ expired
    /\ expired' = FALSE
    /\ UNCHANGED <<node, is_recording, start_pending, flags, executor, goals,
                   current_goal_id, calls, episode, producer, disk, history>>

(* The writer thread: a write throws while the bag is open.                *)
WriteFails ==
    /\ is_recording \/ xpc = "finish"
    /\ write_failed' = TRUE
    /\ stop_requested' = TRUE
    /\ failed' = failed \cup {episode}
    /\ UNCHANGED <<node, recording, executor, goals, current_goal_id, calls,
                   episode, producer, disk, asked, close_threw>>

(* Where the lifecycle is once the transition that ended the episode is    *)
(* through.                                                                *)
LifecycleAfter(t) ==
    CASE t = "deactivate" -> "inactive"
      [] t = "shutdown" -> "finalized"
      [] OTHER -> lifecycle

(* What write_metadata leaves in the bag.                                  *)
Stamp(ok) == IF ok THEN current_goal_id ELSE StampFailed

(* Seeded fault: a failed stamp is not reported.                           *)
ReportedReasonAsIs(ok) == reason

(* A failed stamp outranks the reason the episode ended.                   *)
ReportedReason(ok) == IF ok THEN reason ELSE "error"

(* The rest of finish_recording: the bag closed and stamped, the goal      *)
(* settled.                                                                *)
FinishDone(ok) ==
    /\ xpc = "finish"
    /\ stamped' = [stamped EXCEPT ![episode] = Stamp(ok)]
    /\ last_bag' = episode
    /\ SettleGoal(ReportedReason(ok), episode)
    /\ current_goal_id' = NoGoal
    /\ xpc' = "spin"
    /\ reason' = "none"
    /\ task' = "none"
    /\ lifecycle' = LifecycleAfter(task)
    /\ action_server' = (action_server /\ task # "shutdown")
    /\ requests' = IF task = "shutdown" THEN << >> ELSE requests
    /\ UNCHANGED <<services, accepting_goals, recording, flags, responses,
                   episode, producer, on_disk, history>>

(* writer_->close() throws out of finish_recording.  Out of a tick the     *)
(* exception leaves spin(); out of a transition rclcpp_lifecycle runs      *)
(* on_error, which leaves the node unconfigured.                           *)
CloseThrows ==
    /\ xpc = "finish"
    /\ close_threw' = (close_threw \/ task # "tick")
    /\ reason' = "none"
    /\ task' = "none"
    /\ IF task = "tick"
       THEN xpc' = "thrown" /\ UNCHANGED <<lifecycle, accepting_goals>>
       ELSE xpc' = "spin" /\ lifecycle' = "unconfigured" /\ accepting_goals' = FALSE
    /\ UNCHANGED <<services, action_server, recording, flags, goals,
                   current_goal_id, calls, episode, producer, disk, failed, asked>>

-----------------------------------------------------------------------------
(* Cancelling.                                                             *)

(* handle_cancel, called by the action server for a goal that can be       *)
(* cancelled; the goal is CANCELING once it returns.                       *)
HandleCancel(g) ==
    /\ stop_requested' = TRUE
    /\ goal_state' = [goal_state EXCEPT ![g] = "canceling"]

(* A client cancels its goal through the action.                           *)
ClientCancels(g) ==
    /\ xpc = "spin" /\ action_server
    /\ goal_state[g] = "executing"
    /\ HandleCancel(g)
    /\ asked' = asked \cup {episode}
    /\ UNCHANGED <<node, recording, write_failed, executor, result, goal_handle,
                   current_goal_id, calls, episode, producer, disk, failed,
                   close_threw>>

CancelAllowed == xpc = "spin" /\ services /\ Busy

(* on_cancel_service with a goal to cancel: the action server is asked.    *)
OnCancelServiceAsks ==
    /\ CancelAllowed
    /\ goal_handle # NoGoal /\ ~IsCanceling
    /\ Len(requests) + Len(responses) < MaxCalls
    /\ requests' = Append(requests, goal_handle)
    /\ asked' = asked \cup {episode}
    /\ UNCHANGED <<node, recording, flags, executor, goals, current_goal_id,
                   responses, episode, producer, disk, failed, close_threw>>

(* on_cancel_service with no goal, or while the action server's own cancel *)
(* service is not ready: the episode is stopped directly.                  *)
OnCancelServiceStops ==
    /\ CancelAllowed
    /\ ~IsCanceling
    /\ stop_requested' = TRUE
    /\ asked' = asked \cup {episode}
    /\ UNCHANGED <<node, recording, write_failed, executor, goals,
                   current_goal_id, calls, episode, producer, disk, failed,
                   close_threw>>

(* The action server takes the node's own cancel request.                  *)
HandleCancelRequest ==
    /\ xpc = "spin" /\ action_server
    /\ requests # << >>
    /\ requests' = Tail(requests)
    /\ IF goal_state[Head(requests)] = "executing"
       THEN HandleCancel(Head(requests)) /\ responses' = Append(responses, TRUE)
       ELSE /\ responses' = Append(responses, FALSE)
            /\ UNCHANGED <<stop_requested, goal_state>>
    /\ UNCHANGED <<node, recording, write_failed, executor, result, goal_handle,
                   current_goal_id, episode, producer, disk, history>>

(* Seeded fault: a refused cancel is only logged.                          *)
FallBackNever(accepted) == UNCHANGED stop_requested

(* The callback of async_send_request: a refused cancel falls back to a    *)
(* direct stop.                                                            *)
FallBack(accepted) == stop_requested' = (stop_requested \/ ~accepted)

HandleCancelResponse ==
    /\ xpc = "spin"
    /\ responses # << >>
    /\ responses' = Tail(responses)
    /\ FallBack(Head(responses))
    /\ UNCHANGED <<node, recording, write_failed, executor, goals,
                   current_goal_id, requests, episode, producer, disk, history>>

-----------------------------------------------------------------------------
(* Lifecycle transitions, and the rest.                                    *)

(* on_configure makes the services anew; calls of the old client are lost. *)
OnConfigure ==
    /\ xpc = "spin" /\ lifecycle = "unconfigured"
    /\ lifecycle' = "inactive"
    /\ services' = TRUE
    /\ action_server' = TRUE
    /\ requests' = << >>
    /\ responses' = << >>
    /\ UNCHANGED <<accepting_goals, recording, flags, executor, goals,
                   current_goal_id, episode, producer, disk, history>>

OnActivate ==
    /\ xpc = "spin" /\ lifecycle = "inactive"
    /\ lifecycle' = "active"
    /\ accepting_goals' = TRUE
    /\ UNCHANGED <<services, action_server, recording, flags, executor, goals,
                   current_goal_id, calls, episode, producer, disk, history>>

(* Seeded fault: a deactivated node leaves the deferred start to its timer. *)
CancelPendingStartNot(r) ==
    UNCHANGED <<start_pending, goals, current_goal_id>>

(* Seeded fault: the deferred start is dropped without telling its goal.   *)
CancelPendingStartMute(r) ==
    IF start_pending
    THEN start_pending' = FALSE /\ current_goal_id' = NoGoal /\ UNCHANGED goals
    ELSE UNCHANGED <<start_pending, goals, current_goal_id>>

(* cancel_pending_start.                                                   *)
CancelPendingStart(r) ==
    IF start_pending
    THEN /\ start_pending' = FALSE
         /\ SettleGoal(r, NoBag)
         /\ current_goal_id' = NoGoal
    ELSE UNCHANGED <<start_pending, goals, current_goal_id>>

OnDeactivate ==
    /\ xpc = "spin" /\ lifecycle = "active"
    /\ accepting_goals' = FALSE
    /\ CancelPendingStart("node_deactivated")
    /\ IF is_recording
       THEN FinishRecording("node_deactivated", "deactivate") /\ UNCHANGED lifecycle
       ELSE lifecycle' = "inactive" /\ UNCHANGED <<executor, is_recording>>
    /\ UNCHANGED <<services, action_server, flags, expired, calls, episode,
                   producer, disk, history>>

OnCleanup ==
    /\ xpc = "spin" /\ lifecycle = "inactive"
    /\ lifecycle' = "unconfigured"
    /\ accepting_goals' = FALSE
    /\ CancelPendingStart("node_deactivated")
    /\ services' = FALSE
    /\ action_server' = FALSE
    /\ requests' = << >>
    /\ responses' = << >>
    /\ UNCHANGED <<is_recording, flags, expired, executor, episode, producer,
                   disk, history>>

OnShutdown ==
    /\ xpc = "spin" /\ lifecycle \in {"unconfigured", "inactive", "active"}
    /\ accepting_goals' = FALSE
    /\ CancelPendingStart("node_deactivated")
    /\ IF is_recording
       THEN /\ FinishRecording("node_deactivated", "shutdown")
            /\ UNCHANGED <<lifecycle, action_server, requests>>
       ELSE /\ lifecycle' = "finalized"
            /\ action_server' = FALSE
            /\ requests' = << >>
            /\ UNCHANGED <<executor, is_recording>>
    /\ UNCHANGED <<services, flags, expired, responses, episode, producer, disk,
                   history>>

(* on_delete_last_bag_service, when it deletes.                            *)
OnDeleteLastBag ==
    /\ xpc = "spin" /\ services
    /\ ~is_recording
    /\ last_bag # NoBag
    /\ last_bag \in on_disk
    /\ on_disk' = on_disk \ {last_bag}
    /\ last_bag' = NoBag
    /\ UNCHANGED <<node, recording, flags, executor, goals, current_goal_id,
                   calls, episode, producer, stamped, history>>

(* The node is destroyed, with whatever is under way, or hangs in joining  *)
(* its writer thread.  action_server_ is destroyed before goal_handle_, so *)
(* a goal still alive is never answered: it stays as it was.               *)
Teardown ==
    /\ xpc' = "gone"
    /\ stop_requested' = TRUE
    /\ is_recording' = FALSE
    /\ UNCHANGED <<node, start_pending, expired, write_failed, reason, task,
                   goals, current_goal_id, calls, episode, producer, disk,
                   history>>

(* spin() returns, or main catches what was thrown out of it.              *)
Destroy == xpc = "spin" /\ Teardown
Unwind == xpc = "thrown" /\ Teardown

Gone == xpc = "gone" /\ UNCHANGED vars

-----------------------------------------------------------------------------
ServeCalls == HandleCancelRequest \/ HandleCancelResponse
TickBegins == TickSeesFailure \/ TickSeesNoFailure
TickGoesOn == TickEnds \/ TickFeedback
Tick == TickBegins \/ TickGoesOn
DeferredStart == CompleteStart \/ CompleteStartFails \/ CompleteStartThrows
Finish == \E ok \in BOOLEAN : FinishDone(ok)

Next ==
    \/ \E g \in Goals : RejectGoal(g) \/ ClientCancels(g)
    \/ \E g \in Goals, o \in StartOutcomes : AcceptGoal(g, o)
    \/ \E o \in StartOutcomes : OnStartService(o)
    \/ OnStartServiceRefused
    \/ DeferredStart
    \/ Tick \/ ClockExpires \/ ClockSetBack \/ WriteFails
    \/ Finish \/ CloseThrows
    \/ OnCancelServiceAsks \/ OnCancelServiceStops \/ ServeCalls
    \/ OnConfigure \/ OnActivate \/ OnDeactivate \/ OnCleanup \/ OnShutdown
    \/ OnDeleteLastBag \/ Destroy \/ Unwind
    \/ Gone

Spec == Init /\ [][Next]_vars

(* The executor serves every timer and every call that stays ready, and    *)
(* the drain in finish_recording is bounded.  Strong fairness, because a   *)
(* ready callback has to wait while another one runs.  Nothing is assumed  *)
(* of the clock, of clients, of the storage, or of a process that ends.    *)
Fairness ==
    /\ SF_vars(TickBegins)
    /\ WF_vars(TickGoesOn)
    /\ WF_vars(Finish)
    /\ SF_vars(DeferredStart)
    /\ SF_vars(HandleCancelRequest)
    /\ SF_vars(HandleCancelResponse)

FairSpec == Spec /\ Fairness

-----------------------------------------------------------------------------
(* Properties.                                                             *)

(* Every variable stays in its type.                                       *)
NodeTypes ==
    /\ lifecycle \in {"unconfigured", "inactive", "active", "finalized"}
    /\ services \in BOOLEAN
    /\ action_server \in BOOLEAN
    /\ accepting_goals \in BOOLEAN
    /\ xpc \in {"spin", "tick", "finish", "thrown", "gone"}
    /\ reason \in Reasons \cup {"none"}
    /\ task \in {"none", "tick", "deactivate", "shutdown"}
EpisodeTypes ==
    /\ is_recording \in BOOLEAN
    /\ start_pending \in BOOLEAN
    /\ stop_requested \in BOOLEAN
    /\ write_failed \in BOOLEAN
    /\ expired \in BOOLEAN
    /\ episode \in 0 .. MaxEpisodes
    /\ failed \in SUBSET Bags
    /\ asked \in SUBSET (0 .. MaxEpisodes)
    /\ close_threw \in BOOLEAN
GoalTypes ==
    /\ goal_handle \in 0 .. MaxGoals
    /\ current_goal_id \in 0 .. MaxGoals
    /\ goal_state \in [Goals -> {"new"} \cup Live \cup Terminal]
    /\ result \in [Goals -> [reason : Reasons \cup {"none"}, bag : 0 .. MaxEpisodes]]
CallTypes ==
    /\ requests \in Seq(Goals)
    /\ responses \in Seq(BOOLEAN)
BagTypes ==
    /\ last_bag \in 0 .. MaxEpisodes
    /\ producer \in [Bags -> 0 .. MaxGoals]
    /\ stamped \in [Bags -> {Unstamped, StampFailed} \cup 0 .. MaxGoals]
    /\ on_disk \in SUBSET Bags
TypeOK == NodeTypes /\ EpisodeTypes /\ GoalTypes /\ CallTypes /\ BagTypes

(* The goal handle is kept exactly as long as its goal is alive: no goal   *)
(* is alive that the node has lost, and none is settled twice.             *)
HandleIsTheLiveGoal ==
    \A g \in Goals : goal_state[g] \in Live <=> g = goal_handle

(* A node at rest, with nothing recording, deferred or being finished,     *)
(* owes no client an answer, unless the storage refused to close the bag   *)
(* in a transition, which leaves the goal alive in an unconfigured node.   *)
NoGoalLeftBehind ==
    xpc = "spin" /\ ~Busy /\ goal_handle # NoGoal => close_threw

(* Only an active node records or is about to, one episode at a time: a    *)
(* deferred start cannot go live behind a deactivation.                    *)
OnlyActiveRecords ==
    /\ Busy /\ xpc # "gone" => lifecycle = "active" /\ accepting_goals
    /\ ~(is_recording /\ start_pending)

(* What a settled goal is told fits the state it ended in: SUCCEEDED means *)
(* it ran to its duration or was stopped, a reported cancel is CANCELED    *)
(* (settle_goal's guard against a cancel that never reached CANCELING is   *)
(* never needed), ABORTED means an error or a lifecycle transition.        *)
OutcomeFitsReason ==
    \A g \in Goals : LET r == result[g].reason IN
        /\ goal_state[g] = "succeeded" => r \in {"timeout", "stopped"}
        /\ goal_state[g] = "aborted" => r \in {"error", "node_deactivated"}
        /\ r = "cancelled" => goal_state[g] = "canceled"

(* A bag is never stamped with a goal that did not produce it, whatever    *)
(* starts failed or were abandoned in between.                             *)
StampNeverForeign ==
    \A b \in Bags : stamped[b] \in Goals => stamped[b] = producer[b]

(* A result names a bag only if its goal produced it and it is stamped or  *)
(* the result says error, so no two clients are given the same bag.        *)
ResultNamesOwnBag ==
    \A g \in Goals : LET r == result[g] IN
        r.bag # NoBag =>
            /\ producer[r.bag] = g
            /\ stamped[r.bag] = g \/ (stamped[r.bag] = StampFailed /\ goal_state[g] # "succeeded")

GP == INSTANCE GoalProtocol

(* The recorder keeps the contract of its action: see GoalProtocol.        *)
KeepsGoalProtocol == GP!Spec

(* A stop that ~/cancel_recording or the action's cancel has taken ends    *)
(* the episode, whichever of the two paths it took and however a start     *)
(* service call or a refused cancel interferes, unless the process ends.   *)
StopNeverDropped ==
    \A b \in Bags :
        b \in asked /\ episode = b /\ Busy
            ~> ~(episode = b /\ Busy) \/ xpc = "gone"

(* The two ways a goal is left without an answer: the storage refused to   *)
(* close the bag in a transition, or the process is ending.                *)
Unanswerable == close_threw \/ xpc \in {"thrown", "gone"}

(* A goal that is being cancelled gets its answer, and no goal goes on     *)
(* executing while the clock says its time is up, whatever the clock does  *)
(* in between, as long as the process goes on and no transition failed to  *)
(* close the bag.                                                          *)
GoalTerminates ==
    \A g \in Goals :
        /\ goal_state[g] = "canceling" ~> goal_state[g] \in Terminal \/ Unanswerable
        /\ []<>(~(goal_state[g] = "executing" /\ expired) \/ Unanswerable)

-----------------------------------------------------------------------------
(* The inductive invariant that EpisodeRecorder_proofs proves.             *)

(* An episode is deferred, being recorded, or being finished.              *)
UnderWay == Busy \/ xpc = "finish"

(* Where the executor is, against the lifecycle and the episode.           *)
ExecutorInv ==
    /\ accepting_goals => lifecycle = "active"
    /\ xpc = "tick" => is_recording
    /\ xpc = "finish" => ~Busy /\ reason \in Reasons /\ task # "none"
    /\ xpc = "finish" /\ task # "tick" => ~accepting_goals
    /\ xpc = "finish" /\ reason = "cancelled" => IsCanceling

(* Whose the episode under way is: goal_handle_ and current_goal_id_ may   *)
(* be forgotten in between, but they never come to name another goal.      *)
OwnerInv ==
    /\ UnderWay => episode > 0
    /\ UnderWay /\ current_goal_id # NoGoal => producer[episode] = current_goal_id
    /\ UnderWay /\ goal_handle # NoGoal => current_goal_id = goal_handle
    /\ \A b \in Bags : b > episode => stamped[b] = Unstamped

(* A goal gets its result when it ends, and the bag of the episode under   *)
(* way is not in any result yet.                                           *)
ResultInv ==
    \A g \in Goals :
        /\ goal_state[g] \notin Terminal => result[g] = NoResult
        /\ result[g].bag <= episode
        /\ UnderWay => result[g].bag # episode

IndInv ==
    TypeOK /\ ExecutorInv /\ OwnerInv /\ ResultInv /\ HandleIsTheLiveGoal
    /\ NoGoalLeftBehind /\ OnlyActiveRecords /\ OutcomeFitsReason
    /\ StampNeverForeign /\ ResultNamesOwnBag

-----------------------------------------------------------------------------
(* Claims of the documentation that the code does not keep.                *)

(* rosetta.goal_id is the goal that produced the bag.                      *)
BagNamesItsGoal ==
    \A b \in Bags : stamped[b] = NoGoal => producer[b] = NoGoal

(* A bag failure is reported as an error, not as a clean finish.           *)
FailureIsReported ==
    \A g \in Goals : goal_state[g] = "succeeded" => result[g].bag \notin failed

(* The reason says exactly why: an episode that reports a stop, and had    *)
(* nothing else go wrong, was asked to stop.                               *)
StopWasAskedFor ==
    \A g \in Goals : LET r == result[g] IN
        r.reason = "stopped" /\ r.bag \notin failed => r.bag \in asked

=============================================================================
