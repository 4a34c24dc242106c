----------------------------- MODULE GazeboBridge -----------------------------
(***************************************************************************)
(* The simulated hardware: the interfaces GazeboBridge exports, the        *)
(* control method bits it keeps for each joint, and the forces write()     *)
(* computes from whatever is in the commands.                              *)
(*                                                                         *)
(* Data abstracted: a command is who wrote it last and the force on a      *)
(* joint the set of those whose commands it was computed from.  The        *)
(* positions and velocities read() copies, and the multiplier of a joint   *)
(* that mimics another, are left out.                                      *)
(***************************************************************************)
CONSTANTS
  Joint,      \* names of the joints of the description
  Simulated,  \* those the Gazebo model has too
  Mimics      \* the joint that each mimicking joint mimics

ASSUME BridgeAssumption ==
  /\ Simulated \subseteq Joint
  /\ DOMAIN Mimics \subseteq Joint
  /\ \A j \in DOMAIN Mimics : Mimics[j] \in Joint \ DOMAIN Mimics

VARIABLES
  methods,   \* joint_control_methods_, as sets of bits
  command,   \* joint_position_cmd_, ..., Kd_cmd_: who wrote it last
  force      \* writers of the commands the last SetForce was computed from

bridge == <<methods, command, force>>

Method == {"position", "velocity", "effort"}
Interface == Method \cup {"kp", "kd"}

(* registerJoints: a joint that is not in the model is skipped, one that   *)
(* mimics another exports its interfaces under a name of its own.          *)
ExportedName(j, k) == IF j \in DOMAIN Mimics THEN <<j, "mimic", k>> ELSE <<j, k>>
Exported == {ExportedName(j, k) : j \in Simulated, k \in Interface}

BridgeInit ==
  /\ methods = [j \in Joint |-> {}]
  /\ command = [j \in Joint |-> [k \in Interface |-> "initial"]]
  /\ force = [j \in Joint |-> {"initial"}]

(* perform_command_mode_switch.  Each of the masks that clear a bit is     *)
(* zero: stopping one method of a joint clears all of them.                *)
Cleared(j, stop) == IF \E m \in Method : <<j, m>> \in stop THEN Method ELSE {}
Started_All(j, start) == {m \in Interface : <<j, m>> \in start}
Started(j, start) == {m \in Method : <<j, m>> \in start}

MethodsAfter_StartFirst(j, start, stop) ==
  (methods[j] \cup Started(j, start)) \ Cleared(j, stop)
MethodsAfter(j, start, stop) ==
  (methods[j] \ Cleared(j, stop)) \cup Started(j, start)

ModeSwitch(start, stop) ==
  /\ methods' = [j \in Joint |-> MethodsAfter(j, start, stop)]
  /\ UNCHANGED <<command, force>>

(* write: a simulated joint follows the one it mimics in the methods both  *)
(* have set, then every simulated joint gets a force, whether or not       *)
(* anyone holds its interfaces.  Starting the interfaces of a mimic sets   *)
(* none of its bits: the switch looks for the joint's name, and they are   *)
(* exported under another.                                                 *)
Follows(j) ==
  IF j \in Simulated \cap DOMAIN Mimics THEN methods[j] \cap methods[Mimics[j]] ELSE {}

CommandOf(j) ==
  [k \in Interface |-> IF k \in Follows(j) THEN command[Mimics[j]][k] ELSE command[j][k]]

Write ==
  /\ command' = [j \in Joint |-> CommandOf(j)]
  /\ force' = [j \in Joint |-> IF j \in Simulated THEN {CommandOf(j)[k] : k \in Interface}
                               ELSE force[j]]
  /\ UNCHANGED methods

(* A command interface is a pointer into the bridge's arrays.              *)
SetCommands(names, value) ==
  /\ command' = [j \in Joint |-> [k \in Interface |->
                   IF ExportedName(j, k) \in names THEN value ELSE command[j][k]]]
  /\ UNCHANGED <<methods, force>>
=============================================================================
