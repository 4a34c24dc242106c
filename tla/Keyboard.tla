------------------------------- MODULE Keyboard -------------------------------
(***************************************************************************)
(* KeyboardControllerNode and the controller that listens to it.  The key  *)
(* thread, started before the constructor has set the fields, executes a   *)
(* few statements for each key: the effect of the key, the limits, the     *)
(* pose.  The timer copies the fields to the publishers whenever it finds  *)
(* those unlocked; no lock protects the fields themselves.  Others publish *)
(* on the same topics.                                                     *)
(*                                                                         *)
(* Data abstracted: velocities are counted in steps; one angle stands for  *)
(* the three of rpy_ and the orientation is the angle it was computed      *)
(* from.  The goal and the orientation are assigned in two steps, and in   *)
(* between are Torn: a mixture of the old value and the new.               *)
(***************************************************************************)
EXTENDS Integers, Sequences, SequencesExt

CONSTANTS
  Goal,      \* goals with a key, "idle" among them
  KeyAxis,   \* components of the twist changed by a single key
  ArrowAxis, \* those changed by an arrow, a sequence of three codes
  Limit,     \* MAX_VEL_X, MAX_VEL_W and MAX_ORIENTATION, in steps
  Torn,      \* a half assigned value
  Garbage    \* what an uninitialised angle may hold, whole steps

ASSUME KeyboardAssumption ==
  /\ "idle" \in Goal /\ Torn \notin Goal \cup Int /\ {"empty", "none"} \cap Goal = {}
  /\ Limit \in Nat \ {0} /\ IsFiniteSet(KeyAxis \cup ArrowAxis)
  /\ Garbage \subseteq Int

VARIABLES
  building,  \* statements the constructor has left after starting the thread
  todo,      \* statements the key thread has left for the key it took
  up,        \* rclcpp::ok()
  goal,      \* fsm_goal_
  twist,     \* twist_
  angle,     \* rpy_
  pose,      \* pose_.pose.orientation
  timer,     \* the topic PubCmdVelCallBack comes to next
  robot,     \* what the controller received last on each topic
  wanted     \* the goal last asked for, "none" while it is undefined

fields == <<goal, twist, angle, pose>>
vars == <<building, todo, up, fields, timer, robot, wanted>>

Axis == KeyAxis \cup ArrowAxis
Topic == {"goal", "twist", "pose"}

(* The angles are uninitialised until the constructor sets them.           *)
Init ==
  /\ building = <<"angle", "goal">> /\ todo = <<>> /\ up = TRUE
  /\ goal = "empty" /\ twist = [a \in Axis |-> 0]
  /\ angle \in Garbage /\ pose = 0
  /\ timer = "twist"
  /\ robot = [goal |-> "idle", twist |-> [a \in Axis |-> 0], pose |-> 0]
  /\ wanted = "none"

(* The last statements of the constructor.  An assignment that meets one   *)
(* of the key thread leaves either value or neither.                       *)
Construct ==
  /\ building # <<>> /\ building' = Tail(building)
  /\ \/ Head(building) = "angle" /\ angle' = 0 /\ UNCHANGED <<goal, wanted>>
     \/ /\ Head(building) = "goal"
        /\ goal' \in {"idle"} \cup ({goal} \cap {Torn})
        /\ wanted' = IF todo = <<>> THEN "idle" ELSE "none"
        /\ UNCHANGED angle
  /\ UNCHANGED <<todo, up, twist, pose, timer, robot>>
-----------------------------------------------------------------------------
(* The key thread *)

Clamp_Top(value) == IF value > Limit THEN Limit ELSE value
Clamp(value) == IF value > Limit THEN Limit ELSE IF value < -Limit THEN -Limit ELSE value

(* After the effect of any key come the limits and the pose.               *)
Always_PoseFirst == <<<<"begin pose">>, <<"pose">>, <<"limit">>>>
Always == <<<<"limit">>, <<"begin pose">>, <<"pose">>>>

(* The statements of each key: a goal, a step of an axis or of the angle,  *)
(* a reset, Ctrl-C, the start of an arrow, and the keys that do nothing.   *)
Steps == {<<"step", a, d>> : a \in KeyAxis, d \in {-1, 1}}
Turns == {<<"turn", d>> : d \in {-1, 1}}
Stop == LET axes == SetToSeq(Axis) IN [i \in DOMAIN axes |-> <<"stop", axes[i]>>]

Effects ==
  {<<<<"begin goal">>, <<"goal", g>>>> : g \in Goal}
  \cup {<<s>> : s \in Steps \cup Turns \cup {<<"upright">>, <<"quit">>, <<"escape">>}}
  \cup {Stop, <<>>}

(* get_key and the choice of what the key does.                            *)
TakeKey ==
  /\ up /\ todo = <<>>
  /\ \E effect \in Effects :
       /\ todo' = effect \o Always
       /\ wanted' = IF effect # <<>> /\ Head(effect) = <<"begin goal">>
                    THEN IF building = <<>> THEN effect[2][2] ELSE "none"
                    ELSE wanted
  /\ UNCHANGED <<building, up, fields, timer, robot>>

Doing(statement) == todo # <<>> /\ Head(todo)[1] = statement
Argument == Head(todo)[2]
Advance == todo' = Tail(todo)
Twisted(a, value) == twist' = [twist EXCEPT ![a] = value]

AssignGoal ==
  /\ \/ Doing("begin goal") /\ goal' = Torn
     \/ /\ Doing("goal")
        /\ goal' \in {Argument} \cup (IF goal = Torn THEN {} ELSE {goal, Torn})
  /\ Advance
  /\ UNCHANGED <<building, up, twist, angle, pose, timer, robot, wanted>>

ChangeTwist ==
  /\ \/ Doing("step") /\ Twisted(Argument, twist[Argument] + Head(todo)[3])
     \/ Doing("stop") /\ Twisted(Argument, 0)
  /\ Advance
  /\ UNCHANGED <<building, up, goal, angle, pose, timer, robot, wanted>>

ChangeAngle ==
  /\ \/ Doing("turn") /\ angle' = angle + Argument
     \/ Doing("upright") /\ angle' = 0
  /\ Advance
  /\ UNCHANGED <<building, up, goal, twist, pose, timer, robot, wanted>>

ApplyLimits ==
  /\ Doing("limit")
  /\ twist' = [a \in Axis |-> Clamp(twist[a])] /\ angle' = Clamp(angle)
  /\ Advance
  /\ UNCHANGED <<building, up, goal, pose, timer, robot, wanted>>

AssignPose ==
  /\ \/ Doing("begin pose") /\ pose' = Torn
     \/ Doing("pose") /\ pose' = angle
  /\ Advance
  /\ UNCHANGED <<building, up, goal, twist, angle, timer, robot, wanted>>

(* The second and the third key of an arrow; any other key is swallowed.   *)
Escape ==
  /\ Doing("escape")
  /\ \/ Advance
     \/ \E a \in ArrowAxis, d \in {-1, 1} : todo' = <<<<"step", a, d>>>> \o Tail(todo)
  /\ UNCHANGED <<building, up, fields, timer, robot, wanted>>

Quit ==
  /\ Doing("quit") /\ up' = FALSE
  /\ Advance
  /\ UNCHANGED <<building, fields, timer, robot, wanted>>

Statement ==
  AssignGoal \/ ChangeTwist \/ ChangeAngle \/ ApplyLimits \/ AssignPose \/ Quit
-----------------------------------------------------------------------------
(* PubCmdVelCallBack, every 10 ms once the constructor has returned *)

Follower == [twist |-> "pose", pose |-> "goal", goal |-> "twist"]

Field == [goal |-> goal, twist |-> twist, pose |-> pose]
Ticks_AfterKey == building = <<>> /\ todo # <<>>
Ticks == building = <<>> /\ (up \/ timer # "twist")

Received(topic, value) == robot' = [robot EXCEPT ![topic] = value]

(* The publisher is free, and the message arrives.                         *)
Publish(topic) ==
  /\ Ticks /\ timer = topic /\ timer' = Follower[timer]
  /\ Received(topic, Field[topic])
  /\ UNCHANGED <<building, todo, up, fields, wanted>>

(* The publisher is still busy with the last message, or this one is lost. *)
Miss ==
  /\ Ticks /\ timer' = Follower[timer]
  /\ UNCHANGED <<building, todo, up, fields, robot, wanted>>

Tick == (\E topic \in Topic : Publish(topic)) \/ Miss

(* A message of another publisher of the same topics.                      *)
Other ==
  /\ \/ \E g \in Goal : Received("goal", g)
     \/ Received("twist", [a \in Axis |-> 0])
  /\ UNCHANGED <<building, todo, up, fields, timer, wanted>>
-----------------------------------------------------------------------------
Next ==
  \/ Construct \/ TakeKey \/ Escape \/ Statement \/ Tick \/ Other

(* Both threads are scheduled, and a publisher is not found busy for ever: *)
(* it sends a message in far less time than the timer's period.  Nothing   *)
(* makes the operator press a key, nor finish an arrow.                    *)
Spec ==
  /\ Init /\ [][Next]_vars
  /\ WF_vars(Construct) /\ WF_vars(Statement) /\ WF_vars(Tick)
  /\ \A topic \in Topic : SF_vars(Publish(topic))
-----------------------------------------------------------------------------
(* Properties *)

Within(bound) == -bound .. bound
AnyGoal == Goal \cup {"empty", Torn}

TypeOK ==
  /\ building \in {<<"angle", "goal">>, <<"goal">>, <<>>}
  /\ up \in BOOLEAN /\ goal \in AnyGoal /\ wanted \in Goal \cup {"none"}
  /\ twist \in [Axis -> Within(Limit + 1)] /\ angle \in Int
  /\ pose \in Int \cup {Torn}
  /\ timer \in DOMAIN Follower
  /\ robot \in [goal : AnyGoal, twist : [Axis -> Int], pose : Int \cup {Torn}]

(* The limits are applied after the change, in statements the timer may    *)
(* come between: the controller may receive a velocity beyond its limit,   *)
(* but by one step at most, however the keys follow each other, and no     *)
(* orientation beyond the limit at all.                                    *)
LimitsReceived ==
  /\ \A a \in Axis : robot.twist[a] \in Within(Limit + 1)
  /\ robot.pose \in Within(Limit) \cup {Torn}

(* Whatever the controller has received in between, torn, half reset, half *)
(* turned, lost, or from others, it is brought to what the keys ask for    *)
(* when no key follows: the goal of the last goal key, the velocity and    *)
(* the orientation.  A key typed ahead of the constructor is promised      *)
(* nothing: the constructor may undo it.                                   *)
Quiet == up /\ building = <<>> /\ todo = <<>>

KeysObeyed ==
  /\ \A g \in Goal : Quiet /\ wanted = g ~> robot.goal = g \/ ~ Quiet
  /\ Quiet ~> robot.twist = twist \/ ~ Quiet
  /\ Quiet ~> robot.pose = pose \/ ~ Quiet
=============================================================================
