--------------------------- MODULE TeleopGoal_proofs ---------------------------
(***************************************************************************)
(* That no goal of the levers is lost between the timer and the controller, *)
(* for every set of positions and every depth of the topic.                 *)
(***************************************************************************)
EXTENDS TeleopGoal, TLAPS

(* A goal that a topic takes in is the topic's last, whatever it drops.    *)
LEMMA KeepLastKeeps ==
  ASSUME NEW s \in Seq(Goals), Len(s) <= Depth, NEW g \in Goals
  PROVE  LET t == KeepLast(Append(s, g))
         IN /\ t \in Seq(Goals) /\ t # <<>>
            /\ t[Len(t)] = g
            /\ Len(t) <= Depth
            /\ Len(t) = IF Len(s) < Depth THEN Len(s) + 1 ELSE Depth
<1> DEFINE a == Append(s, g)
<1>1. Depth \in Nat \ {0}  BY TeleopGoalAssumption
<1>2. /\ a \in Seq(Goals) /\ a # <<>>
      /\ Len(a) = Len(s) + 1 /\ a[Len(s) + 1] = g
  OBVIOUS
<1>3. CASE Len(s) < Depth
  <2>1. KeepLast(a) = a  BY <1>1, <1>2, <1>3 DEF KeepLast
  <2> QED  BY <2>1, <1>1, <1>2, <1>3
<1>4. CASE Len(s) = Depth
  <2>1. KeepLast(a) = Tail(a)  BY <1>1, <1>2, <1>4 DEF KeepLast
  <2>2. /\ Tail(a) \in Seq(Goals) /\ Len(Tail(a)) = Depth
        /\ Tail(a)[Depth] = a[Depth + 1]
    BY <1>1, <1>2, <1>4
  <2> QED  BY <2>1, <2>2, <1>1, <1>2, <1>4
<1> QED  BY <1>1, <1>3, <1>4

LEMMA InitOK == Init => IInv
<1> SUFFICES ASSUME Init PROVE IInv  OBVIOUS
<1>1. TypeOK
  <2>1. Centre \in Lever  BY DEF Centre, Lever
  <2>0. topic = <<>> /\ unread = 0 /\ joins = 0  BY DEF Init
  <2>2. topic \in Seq(Goals) /\ Len(topic) <= Depth /\ unread \in 0..Len(topic)
    BY <2>0, TeleopGoalAssumption
  <2>3. joins \in 0..MaxJoins  BY <2>0, TeleopGoalAssumption
  <2>4. msg \in Goals /\ sent \in Goals  BY DEF Init, Goals
  <2> QED  BY <2>1, <2>2, <2>3, <2>4 DEF Init, TypeOK
<1>2. LockOK /\ NewestGoalKept
  BY DEF Init, LockOK, NewestGoalKept, LastOr, None
<1> QED  BY <1>1, <1>2 DEF IInv

(* One test of the timer: it holds the lock, so nobody waits for msg.      *)
LEMMA TestOK ==
  ASSUME IInv, NEW at, NEW m \in Goals, NEW then, Test(at, m, then),
         at # "wait" \/ (~ busy /\ m = msg),
         then \in {"down", "up", "armed", "middle", "low", "jump", "send"}
  PROVE  IInv'
<1>1. ~ busy  BY DEF IInv, LockOK, Test
<1>2. TypeOK'  BY DEF IInv, TypeOK, Test
<1>3. LockOK'  BY <1>1 DEF LockOK, Test
<1>4. NewestGoalKept'  BY <1>1 DEF IInv, NewestGoalKept, Test
<1> QED  BY <1>2, <1>3, <1>4 DEF IInv

LEMMA DecideOK == IInv /\ (Lock \/ Decide) => IInv'
<1> SUFFICES ASSUME IInv, Lock \/ Decide PROVE IInv'  OBVIOUS
<1>0. msg \in Goals /\ {"transform_down", "transform_up", "rl_0", "jump"} \subseteq Goals
  BY DEF IInv, TypeOK, Goals
<1>1. CASE Lock  BY <1>0, <1>1, TestOK DEF Lock
<1>2. CASE TestDown
  <2>1. CASE joy.arm = 1  BY <1>0, <1>2, <2>1, TestOK DEF TestDown
  <2>2. CASE joy.arm # 1  BY <1>0, <1>2, <2>2, TestOK DEF TestDown
  <2> QED  BY <2>1, <2>2
<1>3. CASE TestUp  BY <1>0, <1>3, TestOK DEF TestUp
<1>4. CASE TestArmed  BY <1>0, <1>4, TestOK DEF TestArmed
<1>5. CASE TestMiddle
  <2>1. CASE joy.gait = 0  BY <1>0, <1>5, <2>1, TestOK DEF TestMiddle
  <2>2. CASE joy.gait # 0  BY <1>0, <1>5, <2>2, TestOK DEF TestMiddle
  <2> QED  BY <2>1, <2>2
<1>6. CASE TestLow
  <2>1. CASE joy.gait = -1  BY <1>0, <1>6, <2>1, TestOK DEF TestLow
  <2>2. CASE joy.gait # -1  BY <1>0, <1>6, <2>2, TestOK DEF TestLow
  <2> QED  BY <2>1, <2>2
<1>7. CASE TestJump  BY <1>0, <1>7, TestOK DEF TestJump
<1>8. CASE Send
  <2>1. TypeOK'  BY <1>8 DEF IInv, TypeOK, Send
  <2>2. LockOK'  BY <1>8 DEF LockOK, Send
  <2>3. NewestGoalKept'  BY <1>8 DEF IInv, LockOK, NewestGoalKept, Send
  <2> QED  BY <2>1, <2>2, <2>3 DEF IInv
<1> QED  BY <1>1, <1>2, <1>3, <1>4, <1>5, <1>6, <1>7, <1>8 DEF Decide

LEMMA PublishOK == IInv /\ Publish => IInv'
<1> SUFFICES ASSUME IInv, Publish PROVE IInv'  OBVIOUS
<1>1. /\ topic \in Seq(Goals) /\ Len(topic) <= Depth /\ unread \in 0..Len(topic)
      /\ out \in Goals /\ Depth \in Nat \ {0}
  BY TeleopGoalAssumption DEF IInv, TypeOK, Publish
<1>2. /\ topic' \in Seq(Goals) /\ topic' # <<>>
      /\ topic'[Len(topic')] = out
      /\ Len(topic') <= Depth
      /\ Len(topic') = IF Len(topic) < Depth THEN Len(topic) + 1 ELSE Depth
  BY <1>1, KeepLastKeeps DEF Publish
<1>3. unread' \in 1..Len(topic')  BY <1>1, <1>2 DEF Publish
<1>4. TypeOK'
  <2>1. /\ frame' \in Lever /\ joy' \in Lever
        /\ tx' \in {"wait", "down", "up", "armed", "middle", "low", "jump", "send"}
        /\ msg' \in Goals /\ busy' \in BOOLEAN /\ sent' \in Goals
        /\ goal' \in Goals \cup {"idle"} /\ joins' \in 0..MaxJoins
    BY DEF IInv, TypeOK, Publish
  <2>2. out' \in Goals \cup {None}  BY DEF Publish
  <2>3. unread' \in 0..Len(topic')  BY <1>1, <1>2, <1>3
  <2> QED  BY <1>2, <2>1, <2>2, <2>3 DEF TypeOK
<1>5. LockOK'  BY DEF IInv, LockOK, Publish
<1>6. NewestGoalKept'
  <2>1. LastOr(topic', "") = out  BY <1>2 DEF LastOr
  <2>2. sent' = IF busy' THEN msg' ELSE IF out' # None THEN out' ELSE LastOr(topic', "")
    BY <2>1 DEF IInv, NewestGoalKept, Publish
  <2>3. unread' # 0  BY <1>1, <1>2, <1>3
  <2> QED  BY <2>2, <2>3 DEF NewestGoalKept
<1> QED  BY <1>4, <1>5, <1>6 DEF IInv

LEMMA DeliverOK == IInv /\ Deliver => IInv'
<1> SUFFICES ASSUME IInv, Deliver PROVE IInv'  OBVIOUS
<1>1. /\ topic \in Seq(Goals) /\ unread \in 1..Len(topic) /\ Len(topic) \in Nat
      /\ topic' = topic /\ unread' = unread - 1 /\ goal' = topic[Len(topic) - unread + 1]
  BY DEF IInv, TypeOK, Deliver
<1>2. goal' \in Goals /\ unread' \in 0..Len(topic')  BY <1>1
<1>3. TypeOK'  BY <1>1, <1>2 DEF IInv, TypeOK, Deliver
<1>4. LockOK'  BY DEF IInv, LockOK, Deliver
<1>5. NewestGoalKept'
  <2>1. sent' = IF busy' THEN msg' ELSE IF out' # None THEN out' ELSE LastOr(topic', "")
    BY DEF IInv, NewestGoalKept, Deliver
  <2>2. unread' = 0 => goal' = topic'[Len(topic')]  BY <1>1
  <2>3. topic' # <<>>  BY <1>1
  <2> QED  BY <2>1, <2>2, <2>3 DEF NewestGoalKept, LastOr
<1> QED  BY <1>3, <1>4, <1>5 DEF IInv

LEMMA SubscribeOK == IInv /\ Subscribe => IInv'
<1> SUFFICES ASSUME IInv, Subscribe PROVE IInv'  OBVIOUS
<1>1. TypeOK'
  <2>1. joins' \in 0..MaxJoins
    BY TeleopGoalAssumption DEF IInv, TypeOK, Subscribe
  <2>2. unread' \in 0..Len(topic')  BY DEF IInv, TypeOK, Subscribe
  <2> QED  BY <2>1, <2>2 DEF IInv, TypeOK, Subscribe
<1>2. LockOK'  BY DEF IInv, LockOK, Subscribe
<1>3. NewestGoalKept'
  <2>1. sent' = IF busy' THEN msg' ELSE IF out' # None THEN out' ELSE LastOr(topic', "")
    BY DEF IInv, NewestGoalKept, Subscribe
  <2>2. topic \in Seq(Goals) /\ topic' = topic /\ unread' = Len(topic)
    BY DEF IInv, TypeOK, Subscribe
  <2>3. Len(topic) = 0 => topic = <<>>  BY <2>2
  <2> QED  BY <2>1, <2>2, <2>3 DEF NewestGoalKept, LastOr
<1> QED  BY <1>1, <1>2, <1>3 DEF IInv

LEMMA StepOK == IInv /\ [Next]_vars => IInv'
<1> SUFFICES ASSUME IInv, [Next]_vars PROVE IInv'  OBVIOUS
<1>1. CASE \E p \in Positions : Accept(p)
  <2>1. PICK p \in Positions : Accept(p)  BY <1>1
  <2>2. TypeOK'  BY <2>1, TeleopGoalAssumption DEF IInv, TypeOK, Accept
  <2> QED  BY <2>1, <2>2 DEF IInv, LockOK, NewestGoalKept, Accept
<1>2. CASE \E a \in Axis : Copy(a)
  <2>1. PICK a \in Axis : Copy(a)  BY <1>2
  <2>2. joy' \in Lever  BY <2>1 DEF IInv, TypeOK, Copy, Lever, Axis
  <2>3. TypeOK'  BY <2>1, <2>2 DEF IInv, TypeOK, Copy
  <2> QED  BY <2>1, <2>3 DEF IInv, LockOK, NewestGoalKept, Copy
<1>3. CASE Lock \/ Decide  BY <1>3, DecideOK
<1>4. CASE TakeMessage
  <2>1. TypeOK'  BY <1>4 DEF IInv, TypeOK, TakeMessage
  <2>2. msg # None  BY DEF IInv, TypeOK, Goals, None
  <2> QED  BY <1>4, <2>1, <2>2 DEF IInv, LockOK, NewestGoalKept, TakeMessage
<1>5. CASE Publish  BY <1>5, PublishOK
<1>6. CASE Deliver  BY <1>6, DeliverOK
<1>7. CASE Subscribe  BY <1>7, SubscribeOK
<1>8. CASE UNCHANGED vars
  BY <1>8 DEF vars, IInv, TypeOK, LockOK, NewestGoalKept
<1> QED  BY <1>1, <1>2, <1>3, <1>4, <1>5, <1>6, <1>7, <1>8 DEF Next

THEOREM InductiveInvariant == Spec => []IInv
<1> QED  BY InitOK, StepOK, PTL DEF Spec

(* The state has its types, and what is unread is part of the topic.       *)
THEOREM TypeCorrect == Spec => []TypeOK
<1>1. IInv => TypeOK  BY DEF IInv
<1> QED  BY InductiveInvariant, <1>1, PTL

(* The newest goal of the levers is never lost between fsm_goal_cb of the  *)
(* teleop node and fsm_goal_cb of the controller.                          *)
THEOREM NewestGoalAlwaysKept == Spec => []NewestGoalKept
<1>1. IInv => NewestGoalKept  BY DEF IInv
<1> QED  BY InductiveInvariant, <1>1, PTL
=============================================================================
