----------------------------- MODULE PolicySwitch -----------------------------
(***************************************************************************)
(* The inference threads of all policies beside the state machine that     *)
(* lets them compute: FSMState_RL::update_forward for every key of         *)
(* _stateMap.  A thread tests stop_update_ once per round; what FSM::run   *)
(* does to the flag while the round is under way it does not notice.  What *)
(* a round computes is the matter of PolicyThread; here a policy is in its *)
(* loop body or not.                                                       *)
(***************************************************************************)
EXTENDS ControlFSM

VARIABLE computing    \* policies whose forward_thread is in the body of its loop

switch == <<vars, computing>>

SwitchInit == Init /\ computing = {}

(* The test of stop_update_ finds it clear: observe, infer, publish.       *)
BeginRound(p) ==
  /\ p \in (started \ stopped) \ computing
  /\ computing' = computing \cup {p}
  /\ UNCHANGED vars

(* The round is done; absoluteWait precedes the next test.                 *)
EndRound(p) ==
  /\ p \in computing
  /\ computing' = computing \ {p}
  /\ UNCHANGED vars

Rounds == \E p \in Policy : BeginRound(p) \/ EndRound(p)

SwitchNext == Rounds \/ (Next /\ UNCHANGED computing)

(* An inference returns.  The control loop's fairness plays no part.       *)
SwitchSpec ==
  SwitchInit /\ [][SwitchNext]_switch /\ \A p \in Policy : WF_switch(EndRound(p))
-----------------------------------------------------------------------------
(* Properties *)

(* Whatever order the goals come in, only the current policy begins a      *)
(* round: exit() stops the old one before enter() lets the new one run.    *)
(* The networks of several policies do run at once after a switch, but     *)
(* each left policy only to the end of the round it was in.                *)
OnlyCurrentBegins ==
  [][\A p \in Policy : p \in computing' \ computing => p = cur]_switch

(* A policy the robot has left for good leaves the processor: its thread   *)
(* is parked, although exit() neither waits for it nor ends it.            *)
LeftPoliciesRest ==
  \A p \in Policy : <>[](cur # p) => <>[](p \notin computing)

(* The strengthening: every policy but the current one has been stopped.   *)
OthersStopped == started \ stopped \subseteq {cur}
=============================================================================
