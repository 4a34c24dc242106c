------------------------------ MODULE ControlFSM ------------------------------
(***************************************************************************)
(* The motion state machine of rl_controller: FSM::run (fsm/FSM.cpp), its  *)
(* five kinds of state (Passive, JointPD, TransformUp, TransformDown, RL)  *)
(* and the goal that fsm_goal_cb stores from the topic while the control   *)
(* loop reads it without a lock.  One step of Normal, Throw or Change is   *)
(* one call of FSM::run, that is one tick of the control loop.             *)
(*                                                                         *)
(* Data abstracted: a joint vector is the place it has on the trajectory   *)
(* that commands it, in ticks; a goal string is what std::stoi and the     *)
(* bounds check of rl_policy_names make of it; the torque vector is        *)
(* whether a component exceeds torque_limit.                               *)
(***************************************************************************)
EXTENDS Integers

CONSTANTS
  Policy,       \* the names in rl_policy_names, keys of _stateMap
  RlGoal,       \* goal strings that begin with "rl_"
  OtherGoal,    \* goal strings that no state knows, such as "jump"
  PolicyNamed,  \* what parsing makes of each string of RlGoal
  FoldRamps,    \* values fold_ramp_iter can take on enter (timer * rate * distance)
  StandRamps,   \* values of standup_ramp_iter (stand_timer * update_rate)
  SettleIter,   \* ticks held at the end of a manoeuvre: 100 in the code
  MaxIter       \* bound: _state_iter counts up to here and stays

Fixed == {"idle", "transform_up", "joint_pd", "transform_down"}
Bad   == {"no_index", "not_a_number", "too_big"}
Goal  == Fixed \cup RlGoal \cup OtherGoal

(* A goal "rl_<k>" names a policy, or k is no index, or no number, or a    *)
(* number std::stoi cannot represent.  MaxIter lies beyond every           *)
(* comparison the code makes with the counter it bounds.                   *)
ASSUME FSMAssumption ==
  /\ Policy \cap (Fixed \cup Bad) = {}
  /\ RlGoal \cap (Fixed \cup OtherGoal) = {}
  /\ OtherGoal \cap Fixed = {}
  /\ PolicyNamed \in [RlGoal -> Policy \cup Bad]
  /\ FoldRamps \subseteq Nat /\ FoldRamps # {}
  /\ StandRamps \subseteq Nat /\ StandRamps # {}
  /\ SettleIter \in Nat /\ SettleIter >= 3
  /\ MaxIter \in Nat
  /\ \A f \in FoldRamps, s \in StandRamps : MaxIter > f + s + SettleIter + 1

NoGoal == "no_goal"
ASSUME NoGoalAssumption == NoGoal \notin Goal

VARIABLES
  goal,      \* rc_data->fsm_name_
  arriving,  \* the string fsm_goal_cb is copying over fsm_name_, or NoGoal
  mode,      \* _mode
  cur,       \* _currentState
  next,      \* _nextState
  up,        \* members of FSMState_TransformUp
  down,      \* members of FSMState_TransformDown
  started,   \* policies whose forward_thread exists (thread_first_ is false)
  stopped,   \* policies whose stop_update_ is set
  cmd,       \* low_cmd: the law that wrote it, its setpoint, torque beyond the limit?
  aborted    \* an exception has left FSM::run

vars == <<goal, arriving, mode, cur, next, up, down, started, stopped, cmd, aborted>>

State == Fixed \cup Policy
-----------------------------------------------------------------------------
(* Setpoints *)

NaN == -1    \* the quotient 0/0 of _SetJPosInterPts

(* _SetJPosInterPts: how far along a ramp of max ticks the setpoint is.    *)
InterPts(curr, max) ==
  IF curr = 0 /\ max = 0 THEN NaN
  ELSE IF curr <= max THEN curr ELSE max

Bump(n) == IF n < MaxIter THEN n + 1 ELSE n

Command(law, at) == [law |-> law, at |-> at, over |-> FALSE]
-----------------------------------------------------------------------------
(* FSMState_TransformUp *)

EnterUp_KeepIter(fold, stand, upside) ==
  [up EXCEPT !.flag = IF upside THEN "RollOver" ELSE "FoldLegs",
             !.start = 0, !.fold = fold, !.stand = stand]

EnterUp(fold, stand, upside) ==
  [flag |-> IF upside THEN "RollOver" ELSE "FoldLegs",
   iter |-> 0, start |-> 0, fold |-> fold, stand |-> stand]

(* The legs are folded: stand up, or stay on the back.                     *)
Folded(u) == u.flag = "FoldLegs" /\ u.iter - u.start >= u.fold

FlagAfter(u, upside) ==
  IF ~ Folded(u) THEN u.flag ELSE IF upside THEN "RollOver" ELSE "StandUp"

RunUp_KeepStart(u, upside) ==
  [flag |-> FlagAfter(u, upside), iter |-> Bump(u.iter), start |-> u.start,
   fold |-> u.fold, stand |-> u.stand]

RunUp(u, upside) ==
  [flag |-> FlagAfter(u, upside), iter |-> Bump(u.iter),
   start |-> IF Folded(u) THEN u.iter + 1 ELSE u.start,
   fold |-> u.fold, stand |-> u.stand]

(* What a tick commands.  No case handles RollOver: low_cmd stays zero.    *)
UpCommand(u) ==
  IF u.flag = "FoldLegs" THEN Command("fold", InterPts(u.iter - u.start, u.fold))
  ELSE IF u.flag = "StandUp" THEN Command("stand", InterPts(u.iter - u.start, u.stand))
  ELSE Command("zero", 0)

Settled_FoldOnly(u) == u.iter - u.fold >= SettleIter

Settled(u) == u.iter - u.fold - u.stand >= SettleIter
-----------------------------------------------------------------------------
(* FSMState_TransformDown *)

EnterDown(fold) == [iter |-> 0, fold |-> fold, finish |-> FALSE]

RunDown_Late(d) ==
  [iter |-> d.iter + 1, fold |-> d.fold,
   finish |-> d.finish \/ d.iter > d.fold + SettleIter]

RunDown_Early(d) ==
  [iter |-> d.iter + 1, fold |-> d.fold, finish |-> d.finish \/ d.iter + 1 >= d.fold]

RunDown(d) ==
  [iter |-> d.iter + 1, fold |-> d.fold,
   finish |-> d.finish \/ d.iter >= d.fold + SettleIter]

ExitDown(d) == [iter |-> d.iter, fold |-> d.fold, finish |-> FALSE]
-----------------------------------------------------------------------------
(* checkTransition of each state: the name of the state wanted next.       *)

RlTarget(g, stay) == IF PolicyNamed[g] \in Policy THEN PolicyNamed[g] ELSE stay

PassiveNext_Restart(g) ==
  IF g \in {"transform_up", "joint_pd", "transform_down"} THEN g ELSE "idle"

PassiveNext_Eager(g) ==
  IF g \in RlGoal THEN RlTarget(g, "idle")
  ELSE IF g \in {"transform_up", "joint_pd"} THEN g ELSE "idle"

PassiveNext(g) == IF g \in {"transform_up", "joint_pd"} THEN g ELSE "idle"

JointPDNext(g) ==
  IF g \in RlGoal THEN RlTarget(g, "joint_pd")
  ELSE IF g \in {"idle", "transform_down"} THEN g ELSE "joint_pd"

TransformUpNext(g, u) ==
  IF ~ Settled(u) THEN "transform_up"
  ELSE IF g \in RlGoal THEN RlTarget(g, "transform_up")
  ELSE IF g \in {"joint_pd", "transform_down"} THEN g ELSE "transform_up"

TransformDownNext(d) == IF d.finish THEN "idle" ELSE "transform_down"

RLNext_Deaf(p, g) == IF g \in RlGoal THEN RlTarget(g, p) ELSE p

RLNext(p, g) ==
  IF g \in RlGoal THEN RlTarget(g, p)
  ELSE IF g = "transform_down" THEN g ELSE p

CheckTransition(s, g, u, d) ==
  IF s = "idle" THEN PassiveNext(g)
  ELSE IF s = "joint_pd" THEN JointPDNext(g)
  ELSE IF s = "transform_up" THEN TransformUpNext(g, u)
  ELSE IF s = "transform_down" THEN TransformDownNext(d)
  ELSE RLNext(s, g)

(* TransformUp catches invalid_argument only: out_of_range leaves run.     *)
Throws(s, g, u) ==
  s = "transform_up" /\ Settled(u) /\ g \in RlGoal /\ PolicyNamed[g] = "too_big"

(* A name that is not in _stateMap leads to the passive state.             *)
GetNextState(n) == IF n \in State THEN n ELSE "idle"
-----------------------------------------------------------------------------
(* run() of the current state, and the torque loop after it.               *)

StateCommand(s, u, d) ==
  IF s = "idle" THEN Command("damp", 0)
  ELSE IF s = "joint_pd" THEN Command("hold", 0)
  ELSE IF s = "transform_up" THEN UpCommand(u)
  ELSE IF s = "transform_down" THEN Command("down", InterPts(d.iter, d.fold))
  ELSE Command("policy", 0)

(* The wheel torque of a policy, kp * command - kd * velocity, is not      *)
(* bounded; the torque loop calls std::clamp and drops its result.         *)
Torque(s) == IF s \in Policy THEN BOOLEAN ELSE {FALSE}
LimitTorque(c) == c

WriteCommand(s, u, d) ==
  \E over \in Torque(s) :
    cmd' = LimitTorque([law |-> StateCommand(s, u, d).law,
                        at |-> StateCommand(s, u, d).at, over |-> over])

RunStates(s, u, d, upside) ==
  /\ up'   = IF s = "transform_up" THEN RunUp(u, upside) ELSE u
  /\ down' = IF s = "transform_down" THEN RunDown(d) ELSE d
  /\ WriteCommand(s, u, d)
-----------------------------------------------------------------------------
(* The goal, written by the executor thread and read by the control loop.  *)
(* The copy is not atomic for the reader: it may see the old string, the   *)
(* new one or a mixture, which no state knows.  Every name the states know *)
(* fits the string's own buffer, so a mixture is never a dangling pointer. *)

BeginGoal(g) ==
  /\ arriving = NoGoal
  /\ arriving' = g
  /\ UNCHANGED <<goal, mode, cur, next, up, down, started, stopped, cmd, aborted>>

EndGoal ==
  /\ arriving # NoGoal
  /\ goal' = arriving
  /\ arriving' = NoGoal
  /\ UNCHANGED <<mode, cur, next, up, down, started, stopped, cmd, aborted>>

ReadGoal == IF arriving = NoGoal THEN {goal} ELSE {goal, arriving} \cup OtherGoal
-----------------------------------------------------------------------------
(* FSM::run *)

Init ==
  /\ goal = "idle" /\ arriving = NoGoal
  /\ mode = "NORMAL" /\ cur = "idle" /\ next = "idle"
  /\ up = [flag |-> "FoldLegs", iter |-> 0, start |-> 0, fold |-> 0, stand |-> 0]
  /\ down = [iter |-> 0, fold |-> 0, finish |-> FALSE]
  /\ started = {} /\ stopped = {}
  /\ cmd = Command("zero", 0)
  /\ aborted = FALSE

(* Mode NORMAL: run the state, then ask it for a transition.               *)
Normal(g, upside) ==
  /\ ~ aborted /\ mode = "NORMAL"
  /\ g \in ReadGoal
  /\ RunStates(cur, up, down, upside)
  /\ ~ Throws(cur, g, up')
  /\ LET name == CheckTransition(cur, g, up', down')
     IN IF name # cur
        THEN mode' = "CHANGE" /\ next' = GetNextState(name)
        ELSE UNCHANGED <<mode, next>>
  /\ UNCHANGED <<goal, arriving, cur, started, stopped, aborted>>

(* The same, when std::stoi throws out of checkTransition.                 *)
Throw(g, upside) ==
  /\ ~ aborted /\ mode = "NORMAL"
  /\ g \in ReadGoal
  /\ RunStates(cur, up, down, upside)
  /\ Throws(cur, g, up')
  /\ aborted' = TRUE
  /\ UNCHANGED <<goal, arriving, mode, cur, next, started, stopped>>

SwitchPolicies_NoStop(s) ==
  /\ started' = started \cup ({s} \cap Policy)
  /\ stopped' = stopped \ {s}

(* exit() of the old state and enter() of the new one, for the policies.   *)
SwitchPolicies(s) ==
  /\ started' = started \cup ({s} \cap Policy)
  /\ stopped' = (stopped \cup ({cur} \cap Policy)) \ {s}

(* Mode CHANGE: exit the state, enter the next one and run it.             *)
Change(upside, fold, stand) ==
  /\ ~ aborted /\ mode = "CHANGE"
  /\ cur' = next /\ mode' = "NORMAL"
  /\ SwitchPolicies(next)
  /\ LET left == IF cur = "transform_down" THEN ExitDown(down) ELSE down
         u == IF next = "transform_up" THEN EnterUp(fold, stand, upside) ELSE up
         d == IF next = "transform_down" THEN EnterDown(fold) ELSE left
     IN RunStates(next, u, d, upside)
  /\ UNCHANGED <<goal, arriving, next, aborted>>

Run ==
  \/ \E g \in Goal, upside \in BOOLEAN : Normal(g, upside)
  \/ \E g \in Goal, upside \in BOOLEAN : Throw(g, upside)
  \/ \E upside \in BOOLEAN, f \in FoldRamps, s \in StandRamps : Change(upside, f, s)

Next == Run \/ EndGoal \/ \E g \in Goal : BeginGoal(g)

(* The control loop is periodic and a callback that has begun ends.  No    *)
(* goal is ever owed to the robot.                                         *)
Spec == Init /\ [][Next]_vars /\ WF_vars(Run) /\ WF_vars(EndGoal)
-----------------------------------------------------------------------------
(* Properties *)

(* The abstract state: a manoeuvre is ready when its time has passed.      *)
ready ==
  IF cur = "transform_up" THEN Settled(up)
  ELSE cur = "transform_down" /\ down.finish
Modes == INSTANCE MotionModes WITH state <- cur

UpType == [flag : {"FoldLegs", "StandUp", "RollOver"}, iter : 0 .. MaxIter,
           start : 0 .. MaxIter, fold : FoldRamps \cup {0}, stand : StandRamps \cup {0}]
DownType == [iter : Nat, fold : FoldRamps \cup {0}, finish : BOOLEAN]
CmdType == [law : {"zero", "damp", "hold", "fold", "stand", "down", "policy"},
            at : Nat \cup {NaN}, over : BOOLEAN]

(* Every variable has its type; the counter of TransformDown also stays    *)
(* within the manoeuvre, since the state is left in the tick that ends it. *)
TypeOK ==
  /\ goal \in Goal /\ arriving \in Goal \cup {NoGoal}
  /\ mode \in {"NORMAL", "CHANGE"}
  /\ cur \in State /\ next \in State
  /\ up \in UpType
  /\ down \in DownType /\ down.iter <= down.fold + SettleIter + 1
  /\ started \subseteq Policy /\ stopped \subseteq Policy
  /\ cmd \in CmdType
  /\ aborted \in BOOLEAN

(* A robot that is the right way up leaves transform_up, for a held pose,  *)
(* a policy or lying down, only while the setpoint is the full standing    *)
(* posture: the test of checkTransition counts ticks over both ramps, and  *)
(* says nothing itself of the flag, the start of the ramp or the setpoint. *)
HandoverStood ==
  mode = "CHANGE" /\ cur = "transform_up" /\ up.flag # "RollOver"
    => up.flag = "StandUp" /\ cmd = Command("stand", up.stand)

(* transform_down hands over to idle, which lets the legs go, only after   *)
(* the folded posture has been the setpoint; whatever the goal was.        *)
LiesDownFolded ==
  mode = "CHANGE" /\ cur = "transform_down"
    => next = "idle" /\ cmd = Command("down", down.fold)

(* The place of a setpoint of transform_up on the path measured posture -  *)
(* folded - standing, in ticks from the measured posture.                  *)
Path(c, u) == IF c.law = "stand" THEN u.fold + c.at ELSE c.at

(* Within one stay in transform_up the setpoint moves by at most one tick's *)
(* share of a ramp per tick, also where folding hands over to standing.     *)
SetpointContinuous ==
  [][cur = "transform_up" /\ cur' = "transform_up" /\ mode = "NORMAL"
       /\ {cmd.law, cmd'.law} \subseteq {"fold", "stand"}
       /\ NaN \notin {cmd.at, cmd'.at}
     => Path(cmd', up') - Path(cmd, up) \in {0, 1}]_vars

(* A manoeuvre starts from the posture it measures: the first setpoint of  *)
(* transform_up and transform_down is the measured one, or no number when  *)
(* the ramp is empty.                                                      *)
StartsFromMeasured ==
  [][mode = "CHANGE" /\ mode' = "NORMAL" /\ cmd'.law \in {"fold", "stand", "down"}
     => cmd'.at \in {0, NaN}]_vars

(* The strengthening that makes the invariants above inductive.  UpOK ties *)
(* _motion_start_iter to the ramp it starts; DownOK says that finishing is *)
(* noticed at once; ChangeOK says that a decision taken in one tick and    *)
(* carried out in the next was one the state may take.                     *)
UpOK(u) ==
  /\ u.flag = "FoldLegs" => u.start = 0 /\ u.iter <= u.fold
  /\ u.flag = "StandUp" => u.start = u.fold + 1 /\ u.start <= u.iter

DownOK ==
  /\ cur = "transform_down" /\ ~ down.finish => down.iter <= down.fold + SettleIter
  /\ down.finish => cur = "transform_down" /\ mode = "CHANGE"

ChangeOK ==
  mode = "CHANGE" =>
    /\ next \in Modes!Follows(cur) \ {cur}
    /\ cur = "transform_up" => Settled(up)
    /\ cur = "transform_down" => down.finish

IInv ==
  TypeOK /\ UpOK(up) /\ DownOK /\ ChangeOK /\ HandoverStood /\ LiesDownFolded

(* The state machine implements the modes it promises, liveness included.  *)
ImplementsModes == Modes!Spec

(* Whatever the robot does, a goal "transform_down" that is kept brings it *)
(* to idle for good, unless a goal before it has thrown.                   *)
StopReachesIdle ==
  <>[](goal = "transform_down" /\ arriving = NoGoal) => <>[](cur = "idle" \/ aborted)

(* No kept goal makes the robot cycle through its motion states: the state *)
(* reached under a goal that no longer changes is held from then on.       *)
KeptGoalSettles ==
  \A g \in Goal :
    <>[](goal = g /\ arriving = NoGoal) => <>[][cur' = cur]_vars

(* "limit torque out put" (fsm/FSM.cpp:94): no command exceeds the limit.  *)
TorqueLimited == ~ cmd.over

(* "Invalid number format in" (FSMState_TransformUp.cpp:249): a goal with a *)
(* number that cannot be parsed is reported, and run goes on.               *)
BadNumberReported == ~ aborted
=============================================================================
