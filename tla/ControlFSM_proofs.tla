--------------------------- MODULE ControlFSM_proofs ---------------------------
(***************************************************************************)
(* Proofs about ControlFSM and PolicySwitch, for every set of policies and *)
(* goals, every ramp and every settle time of at least three ticks (the    *)
(* code's is 100).                                                         *)
(***************************************************************************)
EXTENDS PolicySwitch, TLAPS

(* Both ramps are naturals, and the counter can count past both of them.   *)
LEMMA Ramps ==
  /\ FoldRamps \cup {0} \subseteq Nat
  /\ StandRamps \cup {0} \subseteq Nat
  /\ SettleIter \in Nat /\ SettleIter >= 3 /\ MaxIter \in Nat
  /\ \A f \in FoldRamps \cup {0}, s \in StandRamps \cup {0} : MaxIter > f + s + SettleIter + 1
<1>1. /\ FoldRamps \cup {0} \subseteq Nat
      /\ StandRamps \cup {0} \subseteq Nat
      /\ SettleIter \in Nat /\ SettleIter >= 3 /\ MaxIter \in Nat
  BY FSMAssumption
<1>2. ASSUME NEW f \in FoldRamps \cup {0}, NEW s \in StandRamps \cup {0}
      PROVE  MaxIter > f + s + SettleIter + 1
  <2>1. PICK f1 \in FoldRamps : f <= f1
    <3>1. CASE f \in FoldRamps
      BY <1>1, <3>1
    <3>2. CASE f = 0
      <4>1. PICK f0 : f0 \in FoldRamps
        BY FSMAssumption
      <4>2. f0 \in Nat
        BY <1>1, <4>1
      <4> QED
        BY <3>2, <4>1, <4>2
    <3> QED
      BY <3>1, <3>2
  <2>2. PICK s1 \in StandRamps : s <= s1
    <3>1. CASE s \in StandRamps
      BY <1>1, <3>1
    <3>2. CASE s = 0
      <4>1. PICK s0 : s0 \in StandRamps
        BY FSMAssumption
      <4>2. s0 \in Nat
        BY <1>1, <4>1
      <4> QED
        BY <3>2, <4>1, <4>2
    <3> QED
      BY <3>1, <3>2
  <2>3. MaxIter > f1 + s1 + SettleIter + 1
    BY FSMAssumption
  <2> QED
    BY <1>1, <2>1, <2>2, <2>3
<1> QED
  BY <1>1, <1>2

(* A setpoint is a place on the ramp or no number.                         *)
LEMMA InterPtsType ==
  ASSUME NEW curr \in Nat, NEW max \in Nat
  PROVE  InterPts(curr, max) \in Nat \cup {NaN}
  BY DEF InterPts, NaN

(* Past the end of a ramp the setpoint is its end.                         *)
LEMMA InterPtsEnd ==
  ASSUME NEW curr \in Nat, NEW max \in Nat, curr >= max, curr > 0
  PROVE  InterPts(curr, max) = max
  BY DEF InterPts, NaN

(* enter() of TransformUp gives its members their types and their relation *)
(* to each other, and leaves it unsettled.                                 *)
LEMMA EnterUpOK ==
  ASSUME NEW f \in FoldRamps, NEW s \in StandRamps, NEW upside \in BOOLEAN
  PROVE  /\ EnterUp(f, s, upside) \in UpType
         /\ UpOK(EnterUp(f, s, upside))
         /\ ~ Settled(RunUp(EnterUp(f, s, upside), upside))
  BY Ramps DEF UpType, EnterUp, UpOK, RunUp, Settled, Bump

(* run() of TransformUp keeps both, and never undoes settling.             *)
LEMMA RunUpOK ==
  ASSUME NEW u \in UpType, UpOK(u), NEW upside \in BOOLEAN
  PROVE  /\ RunUp(u, upside) \in UpType
         /\ UpOK(RunUp(u, upside))
         /\ Settled(u) => Settled(RunUp(u, upside))
<1>1. /\ u.iter \in Nat /\ u.start \in Nat /\ u.fold \in Nat /\ u.stand \in Nat
      /\ u.iter <= MaxIter /\ u.fold + 1 <= MaxIter
  BY Ramps DEF UpType
<1>2. Folded(u) => u.iter = u.fold
  BY <1>1 DEF Folded, UpOK
<1>3. RunUp(u, upside) \in UpType
  BY <1>1, <1>2, Ramps DEF UpType, RunUp, FlagAfter, Bump
<1>4. UpOK(RunUp(u, upside))
  BY <1>1, <1>2, Ramps DEF UpType, UpOK, RunUp, FlagAfter, Bump, Folded
<1>5. Settled(u) => Settled(RunUp(u, upside))
  BY <1>1, Ramps DEF Settled, RunUp, Bump
<1> QED
  BY <1>3, <1>4, <1>5

(* The heart of the handover: when the clock of TransformUp says settled   *)
(* and the robot has not been found on its back, the command of that tick  *)
(* is the standing posture in full.                                        *)
LEMMA SettledMeansStood ==
  ASSUME NEW u \in UpType, UpOK(u), NEW upside \in BOOLEAN,
         Settled(RunUp(u, upside)), RunUp(u, upside).flag # "RollOver"
  PROVE  /\ RunUp(u, upside).flag = "StandUp"
         /\ UpCommand(u) = Command("stand", u.stand)
<1>1. /\ u.iter \in Nat /\ u.start \in Nat /\ u.fold \in Nat /\ u.stand \in Nat
      /\ u.iter <= MaxIter /\ MaxIter > u.fold + u.stand + SettleIter + 1
      /\ u.flag \in {"FoldLegs", "StandUp", "RollOver"}
  BY Ramps DEF UpType
<1>2. Bump(u.iter) - u.fold - u.stand >= SettleIter
  BY DEF Settled, RunUp
<1>3. Bump(u.iter) <= u.iter + 1 /\ Bump(u.iter) \in Nat
  BY <1>1, Ramps DEF Bump
<1>4. u.iter >= u.fold + u.stand + SettleIter - 1
  BY <1>1, <1>2, <1>3, Ramps
<1>5. u.flag # "FoldLegs"
  BY <1>1, <1>4, Ramps DEF UpOK
<1>6. u.flag = "StandUp" /\ RunUp(u, upside).flag = "StandUp"
  BY <1>1, <1>5 DEF RunUp, FlagAfter, Folded
<1>7. u.iter - u.start \in Nat /\ u.iter - u.start >= u.stand /\ u.iter - u.start > 0
  BY <1>1, <1>4, <1>6, Ramps DEF UpOK
<1> QED
  BY <1>1, <1>6, <1>7, InterPtsEnd DEF UpCommand

(* What TransformUp commands has the type of a command.                    *)
LEMMA UpCommandType ==
  ASSUME NEW u \in UpType, UpOK(u)
  PROVE  UpCommand(u) \in CmdType
<1>1. /\ u.iter \in Nat /\ u.start \in Nat /\ u.fold \in Nat /\ u.stand \in Nat
  BY Ramps DEF UpType
<1>2. CASE u.flag = "FoldLegs"
  <2>1. u.iter - u.start \in Nat
    BY <1>1, <1>2 DEF UpOK
  <2> QED
    BY <1>1, <1>2, <2>1, InterPtsType DEF UpCommand, Command, CmdType
<1>3. CASE u.flag = "StandUp"
  <2>1. u.iter - u.start \in Nat
    BY <1>1, <1>3 DEF UpOK
  <2> QED
    BY <1>1, <1>3, <2>1, InterPtsType DEF UpCommand, Command, CmdType
<1>4. CASE u.flag \notin {"FoldLegs", "StandUp"}
  BY <1>4 DEF UpCommand, Command, CmdType
<1> QED
  BY <1>2, <1>3, <1>4

(* run() of TransformDown: the manoeuvre ends with the folded posture as   *)
(* the setpoint, and its end is noticed in the tick it comes.              *)
LEMMA RunDownOK ==
  ASSUME NEW d \in DownType, ~ d.finish, d.iter <= d.fold + SettleIter
  PROVE  /\ RunDown(d) \in DownType
         /\ RunDown(d).iter <= RunDown(d).fold + SettleIter + 1
         /\ ~ RunDown(d).finish => RunDown(d).iter <= RunDown(d).fold + SettleIter
         /\ RunDown(d).finish => InterPts(d.iter, d.fold) = RunDown(d).fold
         /\ InterPts(d.iter, d.fold) \in Nat \cup {NaN}
<1>1. d.iter \in Nat /\ d.fold \in Nat /\ d.fold \in FoldRamps \cup {0}
  BY Ramps DEF DownType
<1>2. /\ RunDown(d).iter = d.iter + 1 /\ RunDown(d).fold = d.fold
      /\ RunDown(d).finish <=> d.iter >= d.fold + SettleIter
  BY <1>1 DEF RunDown
<1>3. RunDown(d) \in DownType
  <2>1. d.iter + 1 \in Nat
    BY <1>1
  <2>2. (d.finish \/ d.iter >= d.fold + SettleIter) \in BOOLEAN
    OBVIOUS
  <2> QED
    BY <1>1, <2>1, <2>2, Zenon DEF RunDown, DownType
<1>4. RunDown(d).finish => InterPts(d.iter, d.fold) = RunDown(d).fold
  BY <1>1, <1>2, Ramps, InterPtsEnd
<1> QED
  BY <1>1, <1>2, <1>3, <1>4, Ramps, InterPtsType

(* One run() of any state, with the members it starts from: u and d are    *)
(* the members as they stand, or as enter() has just set them.             *)
LEMMA RunStatesOK ==
  ASSUME NEW s \in State, NEW u \in UpType, UpOK(u), NEW d \in DownType,
         NEW upside \in BOOLEAN, RunStates(s, u, d, upside),
         s = "transform_down" => ~ d.finish /\ d.iter <= d.fold + SettleIter
  PROVE  /\ up' \in UpType /\ UpOK(up') /\ cmd' \in CmdType /\ down' \in DownType
         /\ s = "transform_up" /\ Settled(up') /\ up'.flag # "RollOver"
              => up'.flag = "StandUp" /\ cmd' = Command("stand", up'.stand)
         /\ s = "transform_down" =>
              /\ down'.iter <= down'.fold + SettleIter + 1
              /\ ~ down'.finish => down'.iter <= down'.fold + SettleIter
              /\ down'.finish => cmd' = Command("down", down'.fold)
         /\ s # "transform_down" => down' = d
         /\ s # "transform_up" => up' = u
<1>1. PICK over \in Torque(s) :
        cmd' = [law |-> StateCommand(s, u, d).law, at |-> StateCommand(s, u, d).at,
                over |-> over]
  BY DEF RunStates, WriteCommand, LimitTorque
<1>2. over \in BOOLEAN /\ (s \notin Policy => over = FALSE)
  BY DEF Torque
<1>3. CASE s = "transform_up"
  <2>1. up' = RunUp(u, upside) /\ down' = d /\ StateCommand(s, u, d) = UpCommand(u)
    BY <1>3 DEF RunStates, StateCommand
  <2>2. s \notin Policy
    BY <1>3, FSMAssumption DEF Fixed
  <2>3. UpCommand(u) \in CmdType
    BY UpCommandType
  <2>4. cmd' \in CmdType
    <3>1. /\ UpCommand(u).law \in {"zero", "damp", "hold", "fold", "stand", "down", "policy"}
          /\ UpCommand(u).at \in Nat \cup {NaN}
      BY <2>3 DEF CmdType
    <3> QED
      BY <1>1, <1>2, <2>1, <3>1 DEF CmdType
  <2>5. up'.stand = u.stand
    BY <2>1 DEF RunUp
  <2>6. Settled(up') /\ up'.flag # "RollOver"
          => up'.flag = "StandUp" /\ cmd' = Command("stand", up'.stand)
    <3>1. Settled(up') /\ up'.flag # "RollOver"
            => up'.flag = "StandUp" /\ UpCommand(u) = Command("stand", u.stand)
      BY <2>1, SettledMeansStood
    <3>2. UpCommand(u) = Command("stand", u.stand)
            => /\ StateCommand(s, u, d).law = "stand"
               /\ StateCommand(s, u, d).at = u.stand
      BY <2>1 DEF Command
    <3>3. UpCommand(u) = Command("stand", u.stand) => cmd' = Command("stand", u.stand)
      BY <1>1, <1>2, <2>2, <3>2 DEF Command
    <3> QED
      BY <2>5, <3>1, <3>3
  <2> QED
    BY <1>3, <2>1, <2>4, <2>6, RunUpOK
<1>4. CASE s = "transform_down"
  <2>1. /\ up' = u /\ down' = RunDown(d)
        /\ StateCommand(s, u, d) = Command("down", InterPts(d.iter, d.fold))
    BY <1>4 DEF RunStates, StateCommand
  <2>2. s \notin Policy
    BY <1>4, FSMAssumption DEF Fixed
  <2>3. cmd' = Command("down", InterPts(d.iter, d.fold))
    <3>1. /\ StateCommand(s, u, d).law = "down"
          /\ StateCommand(s, u, d).at = InterPts(d.iter, d.fold)
      BY <2>1 DEF Command
    <3> QED
      BY <1>1, <1>2, <2>2, <3>1 DEF Command
  <2>4. cmd' \in CmdType
    BY <1>4, <2>3, RunDownOK DEF CmdType, Command
  <2> QED
    BY <1>4, <2>1, <2>3, <2>4, RunDownOK
<1>5. CASE s \notin {"transform_up", "transform_down"}
  <2>1. up' = u /\ down' = d
    BY <1>5 DEF RunStates
  <2>2. /\ StateCommand(s, u, d).law \in {"damp", "hold", "policy"}
        /\ StateCommand(s, u, d).at = 0
    BY <1>5 DEF StateCommand, Command
  <2>3. cmd' \in CmdType
    BY <1>1, <1>2, <2>2 DEF CmdType
  <2> QED
    BY <1>5, <2>1, <2>3
<1> QED
  BY <1>3, <1>4, <1>5

(* enter() and exit() of TransformDown.                                    *)
LEMMA EnterDownOK ==
  ASSUME NEW f \in FoldRamps
  PROVE  /\ EnterDown(f) \in DownType /\ ~ EnterDown(f).finish
         /\ EnterDown(f).iter <= EnterDown(f).fold + SettleIter
         /\ ~ RunDown(EnterDown(f)).finish
<1>1. f \in Nat
  BY Ramps
<1>2. /\ EnterDown(f).iter = 0 /\ EnterDown(f).fold = f /\ ~ EnterDown(f).finish
      /\ EnterDown(f) \in DownType
  BY DEF EnterDown, DownType
<1>3. RunDown(EnterDown(f)).finish <=> 0 >= f + SettleIter
  BY <1>2 DEF RunDown
<1> QED
  BY <1>1, <1>2, <1>3, Ramps

LEMMA ExitDownOK ==
  ASSUME NEW d \in DownType
  PROVE  /\ ExitDown(d) \in DownType /\ ~ ExitDown(d).finish
         /\ ExitDown(d).iter = d.iter /\ ExitDown(d).fold = d.fold
  BY DEF ExitDown, DownType

(* Every transition a state asks for is one of the modes, to a state that  *)
(* exists: the fallback of getNextState is never needed.                   *)
LEMMA TransitionOK ==
  ASSUME NEW s \in State, NEW g \in Goal, NEW u, NEW d,
         CheckTransition(s, g, u, d) # s
  PROVE  /\ CheckTransition(s, g, u, d) \in Modes!Follows(s) \ {s}
         /\ GetNextState(CheckTransition(s, g, u, d)) = CheckTransition(s, g, u, d)
         /\ CheckTransition(s, g, u, d) \in State
         /\ s = "transform_up" => Settled(u)
         /\ s = "transform_down" =>
              d.finish /\ CheckTransition(s, g, u, d) = "idle"
<1> DEFINE n == CheckTransition(s, g, u, d)
<1>1. CASE s = "idle"
  BY <1>1 DEF CheckTransition, PassiveNext, GetNextState, Modes!Follows, State, Fixed
<1>2. CASE s = "joint_pd"
  BY <1>2 DEF CheckTransition, JointPDNext, RlTarget, GetNextState, Modes!Follows, State, Fixed
<1>3. CASE s = "transform_up"
  BY <1>3 DEF CheckTransition, TransformUpNext, RlTarget, GetNextState, Modes!Follows,
              State, Fixed
<1>4. CASE s = "transform_down"
  BY <1>4 DEF CheckTransition, TransformDownNext, GetNextState, Modes!Follows, State, Fixed
<1>5. CASE s \in Policy
  <2>1. s \notin Fixed
    BY <1>5, FSMAssumption
  <2> QED
    BY <1>5, <2>1 DEF CheckTransition, RLNext, RlTarget, GetNextState, Modes!Follows,
                      State, Fixed
<1> QED
  BY <1>1, <1>2, <1>3, <1>4, <1>5 DEF State, Fixed

LEMMA InitOK == Init => IInv
<1> SUFFICES ASSUME Init PROVE IInv
  OBVIOUS
<1>1. up \in UpType /\ UpOK(up)
  BY Ramps DEF Init, UpType, UpOK
<1>2. down \in DownType /\ down.iter <= down.fold + SettleIter + 1 /\ ~ down.finish
  BY Ramps DEF Init, DownType
<1>3. cmd \in CmdType
  BY DEF Init, CmdType, Command
<1>4. TypeOK
  BY <1>1, <1>2, <1>3 DEF Init, TypeOK, Goal, Fixed, State
<1> QED
  BY <1>1, <1>2, <1>4 DEF Init, IInv, DownOK, ChangeOK, HandoverStood, LiesDownFolded

(* A tick in mode NORMAL: run(), then the decision.                        *)
LEMMA NormalOK ==
  ASSUME IInv, NEW g \in Goal, NEW upside \in BOOLEAN, Normal(g, upside)
  PROVE  IInv'
<1> DEFINE name == CheckTransition(cur, g, up', down')
<1>1. /\ mode = "NORMAL" /\ RunStates(cur, up, down, upside)
      /\ IF name # cur THEN mode' = "CHANGE" /\ next' = GetNextState(name)
                       ELSE mode' = mode /\ next' = next
      /\ goal' = goal /\ arriving' = arriving /\ cur' = cur
      /\ started' = started /\ stopped' = stopped /\ aborted' = aborted
  BY DEF Normal
<1>2. /\ cur \in State /\ up \in UpType /\ UpOK(up) /\ down \in DownType
      /\ down.iter <= down.fold + SettleIter + 1
      /\ cur = "transform_down" => ~ down.finish /\ down.iter <= down.fold + SettleIter
      /\ ~ down.finish
  BY <1>1 DEF IInv, TypeOK, DownOK
<1>3. /\ up' \in UpType /\ UpOK(up') /\ cmd' \in CmdType /\ down' \in DownType
      /\ cur = "transform_up" /\ Settled(up') /\ up'.flag # "RollOver"
           => up'.flag = "StandUp" /\ cmd' = Command("stand", up'.stand)
      /\ cur = "transform_down" =>
           /\ down'.iter <= down'.fold + SettleIter + 1
           /\ ~ down'.finish => down'.iter <= down'.fold + SettleIter
           /\ down'.finish => cmd' = Command("down", down'.fold)
      /\ cur # "transform_down" => down' = down
  BY <1>1, <1>2, RunStatesOK
<1>4. name # cur =>
        /\ name \in Modes!Follows(cur) \ {cur}
        /\ GetNextState(name) = name /\ name \in State
        /\ cur = "transform_up" => Settled(up')
        /\ cur = "transform_down" => down'.finish /\ name = "idle"
  BY <1>2, TransitionOK
<1>5. cur = "transform_down" /\ down'.finish => name # cur
  BY DEF CheckTransition, TransformDownNext
<1> HIDE DEF name
<1>6. TypeOK'
  BY <1>1, <1>2, <1>3, <1>4 DEF IInv, TypeOK
<1>7. DownOK'
  BY <1>1, <1>2, <1>3, <1>5 DEF DownOK
<1>8. Modes!Follows(cur)' = Modes!Follows(cur)
  BY <1>1 DEF Modes!Follows
<1>9. ChangeOK'
  BY <1>1, <1>4, <1>8 DEF ChangeOK
<1>10. HandoverStood' /\ LiesDownFolded'
  BY <1>1, <1>3, <1>4 DEF HandoverStood, LiesDownFolded
<1> QED
  BY <1>3, <1>6, <1>7, <1>9, <1>10 DEF IInv, UpOK

(* A tick whose decision throws.                                           *)
LEMMA ThrowOK ==
  ASSUME IInv, NEW g \in Goal, NEW upside \in BOOLEAN, Throw(g, upside)
  PROVE  IInv'
<1>1. /\ mode = "NORMAL" /\ RunStates(cur, up, down, upside) /\ cur = "transform_up"
      /\ goal' = goal /\ arriving' = arriving /\ cur' = cur /\ mode' = mode /\ next' = next
      /\ started' = started /\ stopped' = stopped /\ aborted' = TRUE
  BY DEF Throw, Throws
<1>2. /\ cur \in State /\ up \in UpType /\ UpOK(up) /\ down \in DownType
      /\ ~ down.finish
  BY <1>1 DEF IInv, TypeOK, DownOK
<1>3. /\ up' \in UpType /\ UpOK(up') /\ cmd' \in CmdType /\ down' = down
  BY <1>1, <1>2, RunStatesOK
<1>4. TypeOK'
  BY <1>1, <1>3 DEF IInv, TypeOK
<1> QED
  BY <1>1, <1>2, <1>3, <1>4 DEF IInv, DownOK, ChangeOK, HandoverStood, LiesDownFolded, UpOK

(* A tick in mode CHANGE: exit(), enter() and the first run().             *)
LEMMA ChangeStepOK ==
  ASSUME IInv, NEW f \in FoldRamps, NEW s \in StandRamps, NEW upside \in BOOLEAN,
         Change(upside, f, s)
  PROVE  IInv' /\ ~ ready'
<1> DEFINE left == IF cur = "transform_down" THEN ExitDown(down) ELSE down
           u == IF next = "transform_up" THEN EnterUp(f, s, upside) ELSE up
           d == IF next = "transform_down" THEN EnterDown(f) ELSE left
<1>1. /\ mode = "CHANGE" /\ cur' = next /\ mode' = "NORMAL"
      /\ SwitchPolicies(next) /\ RunStates(next, u, d, upside)
      /\ goal' = goal /\ arriving' = arriving /\ next' = next /\ aborted' = aborted
  BY DEF Change
<1>2. /\ cur \in State /\ next \in State /\ up \in UpType /\ UpOK(up) /\ down \in DownType
      /\ down.iter <= down.fold + SettleIter + 1
      /\ cur # "transform_down" => ~ down.finish
  BY <1>1 DEF IInv, TypeOK, DownOK
<1>3. u \in UpType /\ UpOK(u)
  BY <1>2, EnterUpOK
<1>4. /\ left \in DownType /\ ~ left.finish /\ left.iter <= left.fold + SettleIter + 1
  <2>1. CASE cur = "transform_down"
    BY <1>2, <2>1, ExitDownOK
  <2>2. CASE cur # "transform_down"
    BY <1>2, <2>2
  <2> QED
    BY <2>1, <2>2
<1>5. /\ d \in DownType /\ ~ d.finish
      /\ next = "transform_down" => d.iter <= d.fold + SettleIter
      /\ next # "transform_down" => d = left
  BY <1>4, EnterDownOK
<1>6. /\ next = "transform_up" => up' = RunUp(EnterUp(f, s, upside), upside)
      /\ next = "transform_down" => down' = RunDown(EnterDown(f))
  BY <1>1 DEF RunStates
<1> HIDE DEF left, u, d
<1>7. /\ up' \in UpType /\ UpOK(up') /\ cmd' \in CmdType /\ down' \in DownType
      /\ next = "transform_down" => down'.iter <= down'.fold + SettleIter + 1
      /\ next = "transform_down" /\ ~ down'.finish => down'.iter <= down'.fold + SettleIter
      /\ next # "transform_down" => down' = d
  BY <1>1, <1>2, <1>3, <1>5, RunStatesOK
<1>8. ~ down'.finish
  BY <1>5, <1>6, <1>7, EnterDownOK
<1>9. down'.iter <= down'.fold + SettleIter + 1
  BY <1>4, <1>5, <1>7
<1>10. started' \subseteq Policy /\ stopped' \subseteq Policy
  BY <1>1 DEF IInv, TypeOK, SwitchPolicies
<1>11. TypeOK'
  BY <1>1, <1>2, <1>7, <1>9, <1>10 DEF IInv, TypeOK
<1>12. DownOK'
  BY <1>1, <1>7, <1>8 DEF DownOK
<1>13. next = "transform_up" => ~ Settled(up')
  BY <1>6, EnterUpOK
<1>14. ~ ready'
  BY <1>1, <1>8, <1>13 DEF ready
<1> QED
  BY <1>1, <1>7, <1>11, <1>12, <1>14 DEF IInv, UpOK, ChangeOK, HandoverStood, LiesDownFolded

(* Every step keeps the inductive invariant.                               *)
LEMMA StepOK == IInv /\ [Next]_vars => IInv'
<1> SUFFICES ASSUME IInv, [Next]_vars PROVE IInv'
  OBVIOUS
<1>1. ASSUME NEW g \in Goal, NEW upside \in BOOLEAN, Normal(g, upside)
      PROVE  IInv'
  BY <1>1, NormalOK
<1>2. ASSUME NEW g \in Goal, NEW upside \in BOOLEAN, Throw(g, upside)
      PROVE  IInv'
  BY <1>2, ThrowOK
<1>3. ASSUME NEW upside \in BOOLEAN, NEW f \in FoldRamps, NEW s \in StandRamps,
             Change(upside, f, s)
      PROVE  IInv'
  BY <1>3, ChangeStepOK
<1>4. ASSUME UNCHANGED <<mode, cur, next, up, down, started, stopped, cmd, aborted>>,
             goal' \in Goal, arriving' \in Goal \cup {NoGoal}
      PROVE  IInv'
  <2>1. TypeOK'
    BY <1>4 DEF IInv, TypeOK
  <2> QED
    BY <1>4, <2>1 DEF IInv, UpOK, DownOK, ChangeOK, HandoverStood, LiesDownFolded,
                      Modes!Follows
<1>5. CASE EndGoal
  BY <1>4, <1>5 DEF EndGoal, IInv, TypeOK
<1>6. ASSUME NEW g \in Goal, BeginGoal(g)
      PROVE  IInv'
  BY <1>4, <1>6 DEF BeginGoal, IInv, TypeOK
<1>7. CASE UNCHANGED vars
  BY <1>4, <1>7 DEF vars, IInv, TypeOK
<1> QED
  BY <1>1, <1>2, <1>3, <1>5, <1>6, <1>7 DEF Next, Run

LEMMA InductiveInvariant == Spec => []IInv
<1>1. Init => IInv
  BY InitOK
<1>2. IInv /\ [Next]_vars => IInv'
  BY StepOK
<1> QED
  BY <1>1, <1>2, PTL DEF Spec

(* Every variable keeps its type, and the counter of TransformDown stays   *)
(* within the manoeuvre (checkTransition is asked in the tick it ends).    *)
THEOREM TypeCorrect == Spec => []TypeOK
<1>1. IInv => TypeOK
  BY DEF IInv
<1> QED
  BY <1>1, InductiveInvariant, PTL

(* For every ramp length, a robot the right way up leaves transform_up     *)
(* only with the full standing posture as its setpoint.                    *)
THEOREM HandoverAlwaysStood == Spec => []HandoverStood
<1>1. IInv => HandoverStood
  BY DEF IInv
<1> QED
  BY <1>1, InductiveInvariant, PTL

(* For every ramp length, transform_down goes to idle, and only with the   *)
(* full folded posture as its setpoint.                                    *)
THEOREM AlwaysLiesDownFolded == Spec => []LiesDownFolded
<1>1. IInv => LiesDownFolded
  BY DEF IInv
<1> QED
  BY <1>1, InductiveInvariant, PTL

(* A tick leaves every policy but the current one stopped: exit() and      *)
(* enter() run in the same tick.                                           *)
LEMMA OthersStayStopped == TypeOK /\ OthersStopped /\ [Next]_vars => OthersStopped'
<1> SUFFICES ASSUME TypeOK, OthersStopped, [Next]_vars
             PROVE  OthersStopped'
  OBVIOUS
<1>1. ASSUME NEW upside \in BOOLEAN, NEW f \in FoldRamps, NEW s \in StandRamps,
             Change(upside, f, s)
      PROVE  OthersStopped'
  <2>1. cur' = next /\ SwitchPolicies(next)
    BY <1>1 DEF Change
  <2>2. started \subseteq Policy
    BY DEF TypeOK
  <2> QED
    BY <2>1, <2>2 DEF SwitchPolicies, OthersStopped
<1>2. ASSUME UNCHANGED <<cur, started, stopped>>
      PROVE  OthersStopped'
  BY <1>2 DEF OthersStopped
<1> QED
  BY <1>1, <1>2 DEF Next, Run, Normal, Throw, BeginGoal, EndGoal, vars

(* However many policies there are and whatever order the goals come in,   *)
(* only the current policy begins a round of inference: what computes      *)
(* beside it began before the robot left that policy.                      *)
THEOREM AlwaysOnlyCurrentBegins == SwitchSpec => OnlyCurrentBegins
<1>1. SwitchInit => IInv /\ OthersStopped
  BY InitOK DEF SwitchInit, Init, OthersStopped
<1>2. [SwitchNext]_switch => [Next]_vars
  BY DEF SwitchNext, Rounds, BeginRound, EndRound, switch
<1>3. IInv /\ OthersStopped /\ [SwitchNext]_switch => IInv' /\ OthersStopped'
  BY <1>2, StepOK, OthersStayStopped DEF IInv
<1>4. OthersStopped /\ [SwitchNext]_switch
        => [\A p \in Policy : p \in computing' \ computing => p = cur]_switch
  <2> SUFFICES ASSUME OthersStopped, SwitchNext, NEW p \in Policy,
                      p \in computing' \ computing
               PROVE  p = cur
    OBVIOUS
  <2>1. PICK q \in Policy : BeginRound(q) \/ EndRound(q)
    BY DEF SwitchNext, Rounds
  <2>2. BeginRound(q) /\ p = q
    BY <2>1 DEF BeginRound, EndRound
  <2> QED
    BY <2>2 DEF BeginRound, OthersStopped
<1> QED
  BY <1>1, <1>3, <1>4, PTL DEF SwitchSpec, OnlyCurrentBegins

(* The safety part of ImplementsModes, for every ramp, goal and policy:    *)
(* each tick of FSM::run is a step of MotionModes or changes nothing that  *)
(* MotionModes sees.                                                       *)
THEOREM ImplementsModesSafety == Spec => Modes!Init /\ [][Modes!Next]_(Modes!vars)
<1>1. Init => Modes!Init
  BY DEF Init, Modes!Init, ready
<1>2. IInv /\ [Next]_vars => [Modes!Next]_(Modes!vars)
  <2> SUFFICES ASSUME IInv, [Next]_vars PROVE [Modes!Next]_(Modes!vars)
    OBVIOUS
  <2>1. ASSUME NEW g \in Goal, NEW upside \in BOOLEAN, mode = "NORMAL",
               RunStates(cur, up, down, upside), cur' = cur
        PROVE  [Modes!Next]_(Modes!vars)
    <3>1. /\ cur \in State /\ up \in UpType /\ UpOK(up) /\ down \in DownType
          /\ cur = "transform_down" => ~ down.finish
      BY <2>1 DEF IInv, TypeOK, DownOK
    <3>2. ready => ready'
      <4>1. CASE cur = "transform_up"
        <5>1. up' = RunUp(up, upside)
          BY <2>1, <4>1 DEF RunStates
        <5>2. Settled(up) => Settled(RunUp(up, upside))
          BY <3>1, RunUpOK
        <5> QED
          BY <2>1, <4>1, <5>1, <5>2 DEF ready
      <4>2. CASE cur # "transform_up"
        BY <3>1, <4>2 DEF ready
      <4> QED
        BY <4>1, <4>2
    <3>3. (ready' => ready' = TRUE) /\ (~ ready /\ ~ ready' => ready' = ready)
      <4>1. ready' => ready' = TRUE
        BY DEF ready
      <4>2. ~ ready => ready = FALSE
        BY DEF ready
      <4>3. ~ ready' => ready' = FALSE
        BY DEF ready
      <4> QED
        BY <4>1, <4>2, <4>3
    <3>4. ready' => cur \in {"transform_up", "transform_down"}
      BY <2>1 DEF ready
    <3> QED
      BY <2>1, <3>2, <3>3, <3>4 DEF Modes!Next, Modes!Finish, Modes!Manoeuvre, Modes!vars
  <2>2. ASSUME NEW upside \in BOOLEAN, NEW f \in FoldRamps, NEW s \in StandRamps,
               Change(upside, f, s)
        PROVE  [Modes!Next]_(Modes!vars)
    <3>1. /\ cur' = next /\ next \in State /\ next \in Modes!Follows(cur) \ {cur}
          /\ cur = "transform_up" => Settled(up)
          /\ cur = "transform_down" => down.finish
      BY <2>2 DEF Change, IInv, TypeOK, ChangeOK
    <3>2. ~ ready'
      BY <2>2, ChangeStepOK
    <3>3. cur \in Modes!Manoeuvre => ready
      BY <3>1 DEF ready, Modes!Manoeuvre
    <3>4. ready' = FALSE
      BY <3>2 DEF ready
    <3>5. Modes!Move(next)
      BY <3>1, <3>3, <3>4 DEF Modes!Move
    <3> QED
      BY <3>1, <3>5 DEF Modes!Next, Modes!State, State, Fixed
  <2>3. ASSUME UNCHANGED <<cur, up, down>>
        PROVE  [Modes!Next]_(Modes!vars)
    BY <2>3 DEF Modes!vars, ready, Settled
  <2> QED
    BY <2>1, <2>2, <2>3 DEF Next, Run, Normal, Throw, BeginGoal, EndGoal, vars
<1> QED
  BY <1>1, <1>2, InductiveInvariant, PTL DEF Spec
-----------------------------------------------------------------------------
(* The path of the setpoint.  Continues says that the setpoint which       *)
(* transform_up commands next is at most one tick's share of a ramp        *)
(* further than that of the command c.                                     *)
Continues(c, u) ==
  {c.law, UpCommand(u).law} \subseteq {"fold", "stand"} /\ NaN \notin {c.at, UpCommand(u).at}
    => Path(UpCommand(u), u) - Path(c, u) \in {0, 1}

SetpointOK == cur = "transform_up" => Continues(cmd, up)

(* A run of TransformUp leaves its members so that its setpoint continues: *)
(* the start of the standing ramp is the tick after the folding ramp ends. *)
LEMMA RampStep ==
  ASSUME NEW u \in UpType, UpOK(u), NEW upside \in BOOLEAN
  PROVE  Continues(UpCommand(u), RunUp(u, upside))
<1> DEFINE v == RunUp(u, upside)
<1>1. /\ u.iter \in Nat /\ u.start \in Nat /\ u.fold \in Nat /\ u.stand \in Nat
      /\ u.iter <= MaxIter /\ MaxIter > u.fold + u.stand + SettleIter + 1
      /\ u.flag \in {"FoldLegs", "StandUp", "RollOver"} /\ SettleIter \in Nat
      /\ MaxIter \in Nat
  BY Ramps DEF UpType
<1>2. /\ v.fold = u.fold /\ v.stand = u.stand /\ v.iter = Bump(u.iter)
      /\ v.flag = FlagAfter(u, upside) /\ v.start = IF Folded(u) THEN u.iter + 1 ELSE u.start
  BY DEF RunUp
<1>3. /\ Bump(u.iter) = u.iter + 1 \/ (Bump(u.iter) = u.iter /\ u.iter = MaxIter)
      /\ u.iter <= u.fold => Bump(u.iter) = u.iter + 1
  BY <1>1 DEF Bump
<1> SUFFICES ASSUME {UpCommand(u).law, UpCommand(v).law} \subseteq {"fold", "stand"},
                    NaN \notin {UpCommand(u).at, UpCommand(v).at}
             PROVE  Path(UpCommand(v), v) - Path(UpCommand(u), v) \in {0, 1}
  BY DEF Continues
<1> HIDE DEF v
<1>4. CASE u.flag = "FoldLegs" /\ ~ Folded(u)
  <2>1. v.flag = "FoldLegs" /\ v.start = 0 /\ u.start = 0 /\ u.iter < u.fold /\ v.iter = u.iter + 1
    BY <1>1, <1>2, <1>4, <1>3 DEF FlagAfter, Folded, UpOK
  <2>2. UpCommand(u) = Command("fold", u.iter) /\ UpCommand(v) = Command("fold", u.iter + 1)
    BY <1>1, <1>2, <1>4, <2>1 DEF UpCommand, InterPts
  <2> QED
    BY <1>1, <2>2 DEF Path, Command
<1>5. CASE u.flag = "FoldLegs" /\ Folded(u)
  <2>1. /\ u.start = 0 /\ u.iter = u.fold /\ v.iter = u.iter + 1 /\ v.start = u.iter + 1
        /\ v.flag \in {"RollOver", "StandUp"}
    BY <1>1, <1>2, <1>5, <1>3 DEF FlagAfter, Folded, UpOK
  <2>2. UpCommand(u) = Command("fold", InterPts(u.fold, u.fold))
    BY <1>1, <1>5, <2>1 DEF UpCommand
  <2>3. UpCommand(u).at = u.fold /\ UpCommand(u).law = "fold"
    BY <1>1, <2>2 DEF Command, InterPts
  <2>4. v.flag = "StandUp"
    BY <2>1 DEF UpCommand, Command
  <2>5. UpCommand(v) = Command("stand", InterPts(0, v.stand))
    BY <1>1, <2>1, <2>4 DEF UpCommand
  <2>6. UpCommand(v).at = 0 /\ UpCommand(v).law = "stand"
    BY <1>1, <1>2, <2>5 DEF Command, InterPts
  <2> QED
    BY <1>1, <1>2, <2>3, <2>6 DEF Path
<1>6. CASE u.flag = "StandUp"
  <2>1. /\ v.flag = "StandUp" /\ v.start = u.start /\ u.start = u.fold + 1
        /\ u.iter - u.start \in Nat /\ v.iter - v.start \in Nat
        /\ v.iter = u.iter + 1 \/ (v.iter = u.iter /\ u.iter = MaxIter)
    BY <1>1, <1>2, <1>6, <1>3 DEF FlagAfter, Folded, UpOK
  <2>2. /\ UpCommand(u) = Command("stand", InterPts(u.iter - u.start, u.stand))
        /\ UpCommand(v) = Command("stand", InterPts(v.iter - v.start, u.stand))
    BY <1>2, <1>6, <2>1 DEF UpCommand
  <2>3. /\ UpCommand(u).law = "stand" /\ UpCommand(u).at = InterPts(u.iter - u.start, u.stand)
        /\ UpCommand(v).law = "stand" /\ UpCommand(v).at = InterPts(v.iter - v.start, u.stand)
    BY <2>2 DEF Command
  <2> DEFINE x == u.iter - u.start
             y == v.iter - v.start
  <2>4. x \in Nat /\ y \in Nat /\ (y = x + 1 \/ y = x)
    BY <1>1, <2>1
  <2> HIDE DEF x, y
  <2>5. UpCommand(u).at = InterPts(x, u.stand) /\ UpCommand(v).at = InterPts(y, u.stand)
    BY <2>3 DEF x, y
  <2>6. /\ InterPts(x, u.stand) = IF x <= u.stand THEN x ELSE u.stand
        /\ InterPts(y, u.stand) = IF y <= u.stand THEN y ELSE u.stand
    BY <2>5 DEF InterPts
  <2>7. /\ UpCommand(v).at - UpCommand(u).at \in {0, 1}
        /\ UpCommand(v).at \in Nat /\ UpCommand(u).at \in Nat
    BY <1>1, <2>4, <2>5, <2>6
  <2> QED
    BY <1>1, <1>2, <2>3, <2>7 DEF Path
<1>7. CASE u.flag = "RollOver"
  BY <1>7 DEF UpCommand, Command
<1> QED
  BY <1>1, <1>4, <1>5, <1>6, <1>7

(* What run() of TransformUp writes into low_cmd.                          *)
LEMMA UpWrites ==
  ASSUME NEW u, NEW d, NEW upside, RunStates("transform_up", u, d, upside)
  PROVE  /\ up' = RunUp(u, upside)
         /\ cmd'.law = UpCommand(u).law /\ cmd'.at = UpCommand(u).at
BY DEF RunStates, WriteCommand, LimitTorque, StateCommand

LEMMA ContinuesLike ==
  ASSUME NEW c, NEW e, c.law = e.law, c.at = e.at, NEW u, Continues(e, u)
  PROVE  Continues(c, u)
BY DEF Continues, Path

LEMMA SetpointStep == IInv /\ SetpointOK /\ [Next]_vars => SetpointOK'
<1> SUFFICES ASSUME IInv, SetpointOK, [Next]_vars, cur' = "transform_up"
             PROVE  Continues(cmd', up')
  BY DEF SetpointOK, Continues, UpCommand, Path
<1>1. ASSUME NEW u \in UpType, UpOK(u), NEW d, NEW upside \in BOOLEAN,
             RunStates("transform_up", u, d, upside)
      PROVE  Continues(cmd', up')
  BY <1>1, UpWrites, RampStep, ContinuesLike
<1>2. up \in UpType /\ UpOK(up)
  BY DEF IInv, TypeOK
<1>3. ASSUME NEW g \in Goal, NEW upside \in BOOLEAN, Normal(g, upside) \/ Throw(g, upside)
      PROVE  Continues(cmd', up')
  BY <1>1, <1>2, <1>3 DEF Normal, Throw
<1>4. ASSUME NEW upside \in BOOLEAN, NEW f \in FoldRamps, NEW s \in StandRamps,
             Change(upside, f, s)
      PROVE  Continues(cmd', up')
  <2>1. PICK d : RunStates("transform_up", EnterUp(f, s, upside), d, upside)
    BY <1>4 DEF Change
  <2> QED
    BY <1>1, <2>1, EnterUpOK
<1>5. ASSUME UNCHANGED <<cur, up, cmd>> PROVE Continues(cmd', up')
  BY <1>5 DEF SetpointOK
<1> QED
  BY <1>3, <1>4, <1>5 DEF Next, Run, BeginGoal, EndGoal, vars

(* FSMState_TransformUp, for ramps of any length: the setpoint of the legs *)
(* moves by at most one tick's share of a ramp per tick, also where the    *)
(* folding ramp hands over to the standing one and while iter stays at its *)
(* bound.                                                                  *)
THEOREM SetpointAlwaysContinuous == Spec => SetpointContinuous
<1>1. Init => SetpointOK
  BY DEF Init, SetpointOK
<1>2. IInv /\ SetpointOK /\ [Next]_vars
        => [cur = "transform_up" /\ cur' = "transform_up" /\ mode = "NORMAL"
              /\ {cmd.law, cmd'.law} \subseteq {"fold", "stand"}
              /\ NaN \notin {cmd.at, cmd'.at}
            => Path(cmd', up') - Path(cmd, up) \in {0, 1}]_vars
  <2> SUFFICES ASSUME IInv, SetpointOK, [Next]_vars, cur = "transform_up", mode = "NORMAL",
                      {cmd.law, cmd'.law} \subseteq {"fold", "stand"},
                      NaN \notin {cmd.at, cmd'.at}
               PROVE  Path(cmd', up') - Path(cmd, up) \in {0, 1}
    OBVIOUS
  <2>1. ASSUME NEW upside \in BOOLEAN, RunStates("transform_up", up, down, upside)
        PROVE  Path(cmd', up') - Path(cmd, up) \in {0, 1}
    <3>1. /\ up'.fold = up.fold
          /\ cmd'.law = UpCommand(up).law /\ cmd'.at = UpCommand(up).at
      BY <2>1, UpWrites DEF RunUp
    <3>2. Path(UpCommand(up), up) - Path(cmd, up) \in {0, 1}
      BY <3>1 DEF SetpointOK, Continues
    <3>3. Path(cmd', up') = Path(UpCommand(up), up)
      BY <3>1 DEF Path
    <3> QED
      BY <3>2, <3>3
  <2>2. ASSUME UNCHANGED <<up, cmd>>
        PROVE  Path(cmd', up') - Path(cmd, up) \in {0, 1}
    <3>1. cmd.at \in Nat \cup {NaN} /\ up.fold \in Nat
      BY Ramps DEF IInv, TypeOK, CmdType, UpType
    <3>2. Path(cmd, up) \in Int /\ Path(cmd', up') = Path(cmd, up)
      BY <2>2, <3>1 DEF Path, NaN
    <3> QED
      BY <3>2
  <2> QED
    BY <2>1, <2>2 DEF Next, Run, Normal, Throw, Change, BeginGoal, EndGoal, vars
<1> QED
  BY <1>1, <1>2, SetpointStep, InductiveInvariant, PTL DEF Spec, SetpointContinuous

(* enter() of both manoeuvres sets the counter to the start of its ramp:   *)
(* the first setpoint after a change of state is the measured posture.     *)
THEOREM AlwaysStartsFromMeasured == Spec => StartsFromMeasured
<1>1. [Next]_vars => [mode = "CHANGE" /\ mode' = "NORMAL"
                        /\ cmd'.law \in {"fold", "stand", "down"}
                      => cmd'.at \in {0, NaN}]_vars
  <2> SUFFICES ASSUME [Next]_vars, mode = "CHANGE", mode' = "NORMAL",
                      cmd'.law \in {"fold", "stand", "down"}
               PROVE  cmd'.at \in {0, NaN}
    OBVIOUS
  <2>1. PICK upside \in BOOLEAN, f \in FoldRamps, s \in StandRamps : Change(upside, f, s)
    BY DEF Next, Run, Normal, Throw, BeginGoal, EndGoal, vars
  <2>2. f \in Nat
    BY Ramps
  <2>3. CASE next = "transform_up"
    <3>1. PICK d : RunStates("transform_up", EnterUp(f, s, upside), d, upside)
      BY <2>1, <2>3 DEF Change
    <3>2. UpCommand(EnterUp(f, s, upside)).at \in {0, NaN}
      BY <2>2 DEF UpCommand, EnterUp, Command, InterPts
    <3> QED
      BY <3>1, <3>2, UpWrites
  <2>4. CASE next = "transform_down"
    <3>1. PICK u : RunStates("transform_down", u, EnterDown(f), upside)
      BY <2>1, <2>4 DEF Change
    <3>2. cmd'.at = InterPts(0, f)
      BY <3>1 DEF RunStates, WriteCommand, LimitTorque, StateCommand, EnterDown, Command
    <3> QED
      BY <2>2, <3>2 DEF InterPts
  <2>5. CASE next \notin {"transform_up", "transform_down"}
    <3>1. PICK u, d : RunStates(next, u, d, upside)
      BY <2>1 DEF Change
    <3>2. cmd'.law \in {"damp", "hold", "policy"}
      BY <2>5, <3>1 DEF RunStates, WriteCommand, LimitTorque, StateCommand, Command
    <3> QED
      BY <3>2
  <2> QED
    BY <2>3, <2>4, <2>5
<1> QED
  BY <1>1, PTL DEF Spec, StartsFromMeasured
=============================================================================
