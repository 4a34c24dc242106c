----------------------------- MODULE MCControlFSM -----------------------------
(***************************************************************************)
(* The goals of one run: two policies, and the strings a topic can carry   *)
(* for which parsing goes wrong in each of the three ways it can.          *)
(***************************************************************************)
EXTENDS ControlFSM

MCPolicy == {"rl_flat", "rl_squatdown"}
MCPolicyNamed ==
  [g \in RlGoal |->
     IF g = "rl_0" THEN "rl_flat"
     ELSE IF g = "rl_1" THEN "rl_squatdown"
     ELSE IF g = "rl_9" THEN "no_index"
     ELSE IF g = "rl_up" THEN "not_a_number"
     ELSE "too_big"]
=============================================================================
