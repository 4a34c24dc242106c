------------------------------ MODULE TeleopGoal ------------------------------
(***************************************************************************)
(* From the levers of the radio to the controller's goal: the goal timer   *)
(* fsm_goal_cb of teleop_command_node.cpp, its RealtimePublisher, the goal *)
(* topic and the subscription of the controller.  The receiver thread      *)
(* overwrites joy_msg_ while the timer, on the executor, reads it axis by  *)
(* axis without a lock; the publisher has a thread of its own.             *)
(*                                                                         *)
(* Data abstracted: a lever is its position.  Buttons 2 to 4, which        *)
(* fsm_goal_cb also reads, are never written and stay 0.                   *)
(***************************************************************************)
EXTENDS Integers, Sequences

CONSTANTS
  Positions,   \* positions of the levers: axes 4, 5 and 6
  Depth,       \* history depth of the goal topic: 10 in the code
  MaxJoins     \* bound: how often the controller subscribes anew

Lever == [arm : -1..1, gait : -1..1, jump : -1..1]
Axis == {"arm", "gait", "jump"}
Centre == [arm |-> 0, gait |-> 0, jump |-> 0]

ASSUME TeleopGoalAssumption ==
  /\ Positions \subseteq Lever
  /\ Depth \in Nat \ {0}
  /\ MaxJoins \in Nat

VARIABLES
  frame,     \* the levers in the last frame crsf_dataread_cb accepted
  joy,       \* axes 4, 5 and 6 of *joy_msg_
  tx,        \* where the timer is in fsm_goal_cb
  msg,       \* realtime_fsm_goal_publisher_->msg_.data
  busy,      \* the publisher's thread has the turn
  out,       \* the goal that thread is about to publish, or None
  sent,      \* joy_key_msg_.data
  topic,     \* the goals the topic retains, oldest first
  unread,    \* how many of them the controller has yet to take
  goal,      \* rc_data->fsm_name_
  joins      \* bounded counter of subscriptions

vars == <<frame, joy, tx, msg, busy, out, sent, topic, unread, goal, joins>>

Goals == {"", "transform_down", "transform_up", "rl_0", "jump"}
None == "none"

(* The last goal of a topic, or g before any was published.                *)
LastOr(s, g) == IF s = <<>> THEN g ELSE s[Len(s)]
-----------------------------------------------------------------------------
(* The receiver thread: *joy_msg_ = msg, which the timer sees axis by axis *)
(* in any order.  A frame is accepted after the one before it was copied.  *)

Accept(p) ==
  /\ joy = frame
  /\ frame' = p
  /\ UNCHANGED <<joy, tx, msg, busy, out, sent, topic, unread, goal, joins>>

Copy(a) ==
  /\ joy[a] # frame[a]
  /\ joy' = [joy EXCEPT ![a] = frame[a]]
  /\ UNCHANGED <<frame, tx, msg, busy, out, sent, topic, unread, goal, joins>>
-----------------------------------------------------------------------------
(* fsm_goal_cb, on the executor.  trylock fails while the publisher's      *)
(* thread has the turn or polls the lock; then the callback does nothing.  *)

(* One test of the callback: the message it leaves, and what comes next.   *)
Test(at, m, then) ==
  /\ tx = at
  /\ tx' = then /\ msg' = m
  /\ UNCHANGED <<frame, joy, busy, out, sent, topic, unread, goal, joins>>

Lock == ~ busy /\ Test("wait", msg, "down")

TestDown ==
  IF joy.arm = 1 THEN Test("down", "transform_down", "armed") ELSE Test("down", msg, "up")

TestUp ==
  Test("up", IF joy.arm = -1 THEN "transform_up" ELSE msg, "armed")

TestArmed ==
  Test("armed", msg, IF joy.arm = -1 THEN "middle" ELSE "send")

TestMiddle ==
  IF joy.gait = 0 THEN Test("middle", "rl_0", "jump") ELSE Test("middle", msg, "low")

TestLow ==
  IF joy.gait = -1 THEN Test("low", "rl_0", "jump") ELSE Test("low", msg, "send")

TestJump ==
  Test("jump", IF joy.jump = -1 THEN "jump" ELSE msg, "send")

(* Only a goal that differs from the last one is published.                *)
Send_Always ==
  /\ tx = "send" /\ tx' = "wait"
  /\ sent' = msg /\ busy' = TRUE
  /\ UNCHANGED <<frame, joy, msg, out, topic, unread, goal, joins>>

Send ==
  /\ tx = "send" /\ tx' = "wait"
  /\ sent' = msg /\ busy' = (sent # msg)
  /\ UNCHANGED <<frame, joy, msg, out, topic, unread, goal, joins>>

Decide == TestDown \/ TestUp \/ TestArmed \/ TestMiddle \/ TestLow \/ TestJump \/ Send
-----------------------------------------------------------------------------
(* The publisher's thread, the topic and the controller.                   *)

(* The thread copies the message, gives the turn back, then publishes.     *)
TakeMessage ==
  /\ busy /\ out = None
  /\ out' = msg /\ busy' = FALSE
  /\ UNCHANGED <<frame, joy, tx, msg, sent, topic, unread, goal, joins>>

(* Both ends keep the last Depth goals: a full one loses its oldest.       *)
KeepLast_All(s) == s

KeepLast(s) == IF Len(s) > Depth THEN Tail(s) ELSE s

Publish ==
  /\ out # None
  /\ topic' = KeepLast(Append(topic, out))
  /\ unread' = IF unread < Depth THEN unread + 1 ELSE unread
  /\ out' = None
  /\ UNCHANGED <<frame, joy, tx, msg, busy, sent, goal, joins>>

(* fsm_goal_cb of the controller takes the oldest unread goal.             *)
Deliver ==
  /\ unread > 0
  /\ goal' = topic[Len(topic) - unread + 1]
  /\ unread' = unread - 1
  /\ UNCHANGED <<frame, joy, tx, msg, busy, out, sent, topic, joins>>

(* The controller subscribes again, configured anew or in a new process.   *)
(* The topic is transient local: the goals it retains are sent once more.  *)
Subscribe_Volatile ==
  /\ joins < MaxJoins /\ joins' = joins + 1
  /\ goal' \in {goal, "idle"} /\ unread' = 0
  /\ UNCHANGED <<frame, joy, tx, msg, busy, out, sent, topic>>

Subscribe ==
  /\ joins < MaxJoins /\ joins' = joins + 1
  /\ goal' \in {goal, "idle"} /\ unread' = Len(topic)
  /\ UNCHANGED <<frame, joy, tx, msg, busy, out, sent, topic>>
-----------------------------------------------------------------------------
Init ==
  /\ frame = Centre /\ joy = Centre
  /\ tx = "wait" /\ msg = "" /\ busy = FALSE /\ out = None /\ sent = ""
  /\ topic = <<>> /\ unread = 0 /\ goal = "idle" /\ joins = 0

Next ==
  \/ \E p \in Positions : Accept(p)
  \/ \E a \in Axis : Copy(a)
  \/ Lock \/ Decide
  \/ TakeMessage \/ Publish \/ Deliver \/ Subscribe

(* The timer is periodic, so a lock that is free again and again is taken  *)
(* in the end; the threads run; the topic is reliable.  Frames may stop.   *)
Fairness ==
  /\ \A a \in Axis : WF_vars(Copy(a))
  /\ SF_vars(Lock) /\ WF_vars(Decide)
  /\ WF_vars(TakeMessage) /\ WF_vars(Publish) /\ WF_vars(Deliver)

Spec == Init /\ [][Next]_vars /\ Fairness
-----------------------------------------------------------------------------
(* Types of the state, and how much of the topic can be unread.            *)
TypeOK ==
  /\ frame \in Lever /\ joy \in Lever
  /\ tx \in {"wait", "down", "up", "armed", "middle", "low", "jump", "send"}
  /\ msg \in Goals /\ busy \in BOOLEAN /\ out \in Goals \cup {None} /\ sent \in Goals
  /\ topic \in Seq(Goals) /\ Len(topic) <= Depth /\ unread \in 0..Len(topic)
  /\ goal \in Goals \cup {"idle"} /\ joins \in 0..MaxJoins

(* A goal is published only when it changes and is never repeated, so the  *)
(* newest one must not be lost: it is with the publisher, or on its way    *)
(* out, or the last of the topic, and a controller that has taken what the *)
(* topic holds has it, however it joined and whatever the topic dropped.   *)
NewestGoalKept ==
  /\ sent = IF busy THEN msg ELSE IF out # None THEN out ELSE LastOr(topic, "")
  /\ unread = 0 => goal = LastOr(topic, goal)

(* The timer holds the publisher's lock from its trylock to its last line. *)
LockOK == tx # "wait" => ~ busy

(* The inductive invariant of the proofs.                                  *)
IInv == TypeOK /\ LockOK /\ NewestGoalKept

(* The goal a position of the levers asks for; the middle one keeps the    *)
(* goal there is.                                                          *)
GoalOf(p) ==
  IF p.arm = 1 THEN "transform_down"
  ELSE IF p.gait = 1 THEN "transform_up"
  ELSE IF p.jump = -1 THEN "jump" ELSE "rl_0"

(* Levers left where they are, or a radio that falls silent, or a program  *)
(* that takes over (use_sdk): the goal of the last accepted frame becomes  *)
(* the controller's and remains it, through mixed readings of two frames,  *)
(* busy locks, overflow and new subscriptions, and the timer then leaves   *)
(* the topic alone.                                                        *)
LeversObeyed ==
  \A p \in Positions :
    <>[](frame = p) => <>[](p.arm # 0 => goal = GoalOf(p)) /\ <>[](~ busy /\ out = None)
=============================================================================
