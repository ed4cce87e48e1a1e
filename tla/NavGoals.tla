---------------------------- MODULE NavGoals ----------------------------
(***************************************************************************)
(* The two programs that send goals to Nav2's navigate_to_pose server:     *)
(* send_nav2_goal, which waits until the stack is up, sends one goal and   *)
(* reports its result by its exit code, and person_target_follower, which  *)
(* keeps sending the place behind a tracked person.  The server is         *)
(* external: it accepts or rejects a goal, a goal it accepts ends the one  *)
(* before it, and an accepted goal is reached or aborted.  Waits end with  *)
(* what they wait for or with their timeout, in whichever order.           *)
(***************************************************************************)
EXTENDS Integers

CONSTANTS
    Places,          \* where the robot and the person may be
    ForwardM,         \* forward_m of send_nav2_goal --use-current-pose
    MotionNeeded,    \* wait_for_pose_motion_m
    LifecycleNodes,  \* wait_for_lifecycle_node
    FollowDistance, MinUpdate,  \* follow_distance, min_goal_update_distance
    NoPlace          \* no place

ASSUME GoalAssumption ==
    /\ Places \subseteq Int /\ NoPlace \notin Int
    /\ {ForwardM, FollowDistance} \subseteq Int
    /\ MotionNeeded \in Nat /\ MinUpdate \in Nat

VARIABLES
    robotAt, transformUp, activeNodes, serverUp,   \* the stack
    personAt,      \* the person as the follower sees it, or NoPlace
    goals,         \* the goal each program sent last, at the server
    stage,         \* how far main() of send_nav2_goal is
    firstPose, latestPose, seenActive,
    accepted, status, resultEvent,
    lastGoal       \* last_goal_xy of the follower

stack == <<robotAt, transformUp, activeNodes, serverUp, personAt>>
client == <<stage, firstPose, latestPose, seenActive, accepted, status, resultEvent>>
goalVars == <<stack, goals, client, lastGoal>>

Senders == {"client", "follower"}
NoGoal == [state |-> "none", at |-> NoPlace]
Sent(place) == [state |-> "sent", at |-> place]
Exits == {"exit_0", "exit_1"}
Away(a, b) == IF a > b THEN a - b ELSE b - a

GoalsInit ==
    /\ robotAt \in Places /\ transformUp = FALSE /\ activeNodes = {}
    /\ serverUp = FALSE /\ personAt = NoPlace
    /\ goals = [sender \in Senders |-> NoGoal]
    /\ stage = "pose"
    /\ firstPose = NoPlace /\ latestPose = NoPlace /\ seenActive = {}
    /\ accepted = FALSE /\ status = "unknown" /\ resultEvent = FALSE
    /\ lastGoal = NoPlace

----------------------------------------------------------------------------
(* The stack comes up, and may go down again, while the programs wait.     *)
StackChanges ==
    /\ \/ \E up \in BOOLEAN : transformUp' = up /\ UNCHANGED <<activeNodes, serverUp>>
       \/ \E up \in SUBSET LifecycleNodes :
            activeNodes' = up /\ UNCHANGED <<transformUp, serverUp>>
       \/ \E up \in BOOLEAN : serverUp' = up /\ UNCHANGED <<transformUp, activeNodes>>
    /\ UNCHANGED <<robotAt, personAt, goals, client, lastGoal>>

PersonMoves ==
    /\ \E place \in Places \cup {NoPlace} : personAt' = place
    /\ UNCHANGED <<robotAt, transformUp, activeNodes, serverUp, goals, client, lastGoal>>

\* The server takes a goal up, ending the one before, or rejects it.
ServerDecides(sender) ==
    /\ goals[sender].state = "sent"
    /\ \/ goals' = [goals EXCEPT ![sender].state = "rejected"]
       \/ goals' = [other \in Senders |->
                      IF other = sender THEN [goals[sender] EXCEPT !.state = "active"]
                      ELSE IF goals[other].state = "active"
                      THEN [goals[other] EXCEPT !.state = "aborted"] ELSE goals[other]]
    /\ UNCHANGED <<stack, client, lastGoal>>

ServerEnds(sender) ==
    /\ goals[sender].state = "active"
    /\ \/ /\ goals' = [goals EXCEPT ![sender].state = "succeeded"]
          /\ robotAt' = goals[sender].at
       \/ /\ goals' = [goals EXCEPT ![sender].state = "aborted"]
          /\ \E place \in Places : robotAt' = place
    /\ UNCHANGED <<transformUp, activeNodes, serverUp, personAt, client, lastGoal>>

----------------------------------------------------------------------------
(* send_nav2_goal: the waits in the order of main().                       *)
Waiting == {"pose", "transform", "lifecycle", "server", "motion"}
NextStage == [pose |-> "transform", transform |-> "lifecycle", lifecycle |-> "server",
              server |-> "motion", motion |-> "send"]

PoseReceived ==
    /\ stage \notin Exits
    /\ latestPose' = robotAt
    /\ firstPose' = IF firstPose = NoPlace THEN robotAt ELSE firstPose
    /\ UNCHANGED <<stack, goals, stage, seenActive, accepted, status, resultEvent, lastGoal>>

\* A lifecycle node is only asked until it has been seen active once.
ObserveLifecycle(node) ==
    /\ stage = "lifecycle" /\ node \in activeNodes
    /\ seenActive' = seenActive \cup {node}
    /\ UNCHANGED <<stack, goals, stage, firstPose, latestPose, accepted, status,
                   resultEvent, lastGoal>>

Observed ==
    \/ stage = "pose" /\ latestPose # NoPlace
    \/ stage = "transform" /\ transformUp
    \/ stage = "lifecycle" /\ seenActive = LifecycleNodes
    \/ stage = "server" /\ serverUp
    \/ stage = "motion" /\ Away(latestPose, firstPose) >= MotionNeeded

WaitEnds ==
    /\ stage \in Waiting
    /\ \/ Observed /\ stage' = NextStage[stage]
       \/ stage' = "exit_1"
    /\ UNCHANGED <<stack, goals, firstPose, latestPose, seenActive, accepted, status,
                   resultEvent, lastGoal>>

ResolvedGoal == latestPose + ForwardM

SendGoal ==
    /\ stage = "send"
    /\ stage' = "result"
    /\ goals' = [goals EXCEPT !["client"] = Sent(ResolvedGoal)]
    /\ UNCHANGED <<stack, firstPose, latestPose, seenActive, accepted, status,
                   resultEvent, lastGoal>>

OnGoalResponse ==
    /\ stage = "result" /\ ~accepted /\ ~resultEvent
    /\ goals["client"].state \notin {"none", "sent"}
    /\ accepted' = (goals["client"].state # "rejected")
    /\ resultEvent' = (goals["client"].state = "rejected")
    /\ UNCHANGED <<stack, goals, stage, firstPose, latestPose, seenActive, status, lastGoal>>

OnResult ==
    /\ stage = "result" /\ accepted /\ ~resultEvent
    /\ goals["client"].state \in {"succeeded", "aborted"}
    /\ status' = goals["client"].state
    /\ resultEvent' = TRUE
    /\ UNCHANGED <<stack, goals, stage, firstPose, latestPose, seenActive, accepted, lastGoal>>

(* The last wait ends with the result or with the timeout; a goal that is  *)
(* still active then is left to the server.                                *)
ExitCodeOfAccepted == IF accepted /\ resultEvent THEN "exit_0" ELSE "exit_1"

ExitCode == IF accepted /\ resultEvent /\ status = "succeeded" THEN "exit_0" ELSE "exit_1"

Finish ==
    /\ stage = "result"
    /\ stage' = ExitCode
    /\ UNCHANGED <<stack, goals, firstPose, latestPose, seenActive, accepted, status,
                   resultEvent, lastGoal>>

----------------------------------------------------------------------------
(* person_target_follower: the timer sends the place behind the person     *)
(* when it moved far enough or the last goal is old; a person that is lost *)
(* leaves the last goal with the server.                                   *)
FollowGoal == personAt - FollowDistance

ShouldSend(resendDue) ==
    lastGoal # NoPlace /\ ~resendDue => Away(FollowGoal, lastGoal) >= MinUpdate

FollowerTimer(resendDue) ==
    /\ personAt # NoPlace /\ ShouldSend(resendDue) /\ serverUp
    /\ goals' = [goals EXCEPT !["follower"] = Sent(FollowGoal)]
    /\ lastGoal' = FollowGoal
    /\ UNCHANGED <<stack, client>>

GoalsNext ==
    \/ StackChanges
    \/ PersonMoves
    \/ \E sender \in Senders : ServerDecides(sender) \/ ServerEnds(sender)
    \/ PoseReceived
    \/ \E node \in LifecycleNodes : ObserveLifecycle(node)
    \/ WaitEnds
    \/ SendGoal
    \/ OnGoalResponse
    \/ OnResult
    \/ Finish
    \/ \E resendDue \in BOOLEAN : FollowerTimer(resendDue)

GoalsSpec == GoalsInit /\ [][GoalsNext]_goalVars
----------------------------------------------------------------------------
\* Type invariant of the goal clients.
GoalsTypeOK ==
    /\ activeNodes \subseteq LifecycleNodes /\ seenActive \subseteq LifecycleNodes
    /\ {transformUp, serverUp, accepted, resultEvent} \subseteq BOOLEAN
    /\ stage \in Waiting \cup Exits \cup {"send", "result"}
    /\ status \in {"unknown", "succeeded", "aborted"}
    /\ goals \in [Senders -> [state : {"none", "sent", "rejected", "active",
                                       "succeeded", "aborted"}, at : Int \cup {NoPlace}]]

(* send_nav2_goal exits with 0 only when the server reached the goal it    *)
(* sent itself, whatever the follower sent in between; and a goal is only  *)
(* sent from a pose that was received (main, _on_goal_response, _on_result). *)
ExitMeansReached ==
    /\ stage = "exit_0" => goals["client"].state = "succeeded"
    /\ stage \in {"send", "result"} =>
         latestPose # NoPlace /\ seenActive = LifecycleNodes
=============================================================================
