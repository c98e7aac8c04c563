---------------------------- MODULE GoalProtocol ----------------------------
(***************************************************************************)
(* What the record_episode action promises a client about its goals, with  *)
(* no word about recording: a goal is refused or taken, only one goal is   *)
(* alive at a time, a cancelled goal can only end CANCELED, and an outcome *)
(* is final.  EpisodeRecorder implements this specification.               *)
(***************************************************************************)
EXTENDS Integers

CONSTANT MaxGoals

VARIABLE goal_state
Goals == 1 .. MaxGoals

Live == {"executing", "canceling"}
Terminal == {"succeeded", "canceled", "aborted", "rejected"}

Init == goal_state = [g \in Goals |-> "new"]

Become(g, s) == goal_state' = [goal_state EXCEPT ![g] = s]

Reject(g) == goal_state[g] = "new" /\ Become(g, "rejected")

(* A goal is taken.  A goal still alive is given up for it, and the new    *)
(* one may fail at once.                                                   *)
Accept(g) ==
    /\ goal_state[g] = "new"
    /\ \E s \in {"executing", "aborted"} :
        goal_state' = [h \in Goals |->
            IF h = g THEN s
            ELSE IF goal_state[h] \in Live THEN "canceled" ELSE goal_state[h]]

Cancel(g) == goal_state[g] = "executing" /\ Become(g, "canceling")

(* A goal ends: one being cancelled can only be CANCELED.                  *)
Settle(g) ==
    \/ goal_state[g] = "executing" /\ \E s \in {"succeeded", "aborted"} : Become(g, s)
    \/ goal_state[g] \in Live /\ Become(g, "canceled")

Next == \E g \in Goals : Reject(g) \/ Accept(g) \/ Cancel(g) \/ Settle(g)

Spec == Init /\ [][Next]_goal_state

=============================================================================
