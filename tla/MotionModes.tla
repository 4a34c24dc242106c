----------------------------- MODULE MotionModes -----------------------------
(***************************************************************************)
(* What the motion state machine of rl_controller promises, without its    *)
(* counters, setpoints and two-tick transitions.  The robot is in one      *)
(* motion state.  Two of them are manoeuvres, standing up and lying down,  *)
(* that cannot be left before they are ready; a learned policy is reached  *)
(* only from a held posture or from another policy, and a walking robot    *)
(* goes limp (idle) only after having lain down.  ControlFSM implements    *)
(* this specification.                                                     *)
(***************************************************************************)
CONSTANT Policy    \* the learned policies

VARIABLES
  state,           \* the motion state that drives the joints
  ready            \* may the manoeuvre in progress be left?

vars == <<state, ready>>

State == {"idle", "transform_up", "joint_pd", "transform_down"} \cup Policy

(* The states that may follow each state.                                  *)
Follows(s) ==
  IF s = "idle" THEN {"transform_up", "joint_pd"}
  ELSE IF s = "joint_pd" THEN {"idle", "transform_down"} \cup Policy
  ELSE IF s = "transform_up" THEN {"joint_pd", "transform_down"} \cup Policy
  ELSE IF s = "transform_down" THEN {"idle"}
  ELSE {"transform_down"} \cup Policy

Manoeuvre == {"transform_up", "transform_down"}

Init ==
  /\ state = "idle"
  /\ ready = FALSE

(* A manoeuvre has run for its time.                                       *)
Finish ==
  /\ state \in Manoeuvre
  /\ ready' = TRUE
  /\ UNCHANGED state

(* The robot changes its motion state; a manoeuvre starts afresh.          *)
Move(s) ==
  /\ s \in Follows(state) \ {state}
  /\ state \in Manoeuvre => ready
  /\ state' = s
  /\ ready' = FALSE

LieDownEnds == state = "transform_down" /\ Move("idle")

Next == Finish \/ \E s \in State : Move(s)

(* Every manoeuvre ends, and lying down is left without being asked.       *)
Spec == Init /\ [][Next]_vars /\ WF_vars(Finish) /\ WF_vars(LieDownEnds)
=============================================================================
