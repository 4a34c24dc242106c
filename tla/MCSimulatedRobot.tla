--------------------------- MODULE MCSimulatedRobot ---------------------------
(***************************************************************************)
(* Two joints for the plugin, one that mimics the first of them, and one   *)
(* the simulation does not have.  Two other controllers share a joint of   *)
(* the plugin; one of them has the mimicking joint as well.  The           *)
(* parameters may leave out an interface type.                             *)
(***************************************************************************)
EXTENDS SimulatedRobot

MCJointNames == <<"thigh", "calf">>
MCJoint == {"thigh", "calf", "arm", "ghost"}
MCSimulated == {"thigh", "calf", "arm"}
MCMimics == [j \in {"arm"} |-> "thigh"]
MCNames ==
  [c \in Other |-> IF c = "poser" THEN {<<"thigh", "position">>, <<"arm", "mimic", "position">>}
                   ELSE {<<"thigh", "velocity">>}]
MCTypeChoices == {Kind, Kind \ {"kd"}}
=============================================================================
