---------------------------- MODULE HardwareBridge ----------------------------
(***************************************************************************)
(* HardwareBridge: what read() and write() make of one joint's angle.  The *)
(* motor counts an angle within half a turn of zero; the joints of the     *)
(* hips are shown beyond half a turn instead of below Fold, and a command  *)
(* beyond half a turn is put back, in place.                               *)
(*                                                                         *)
(* Data abstracted: angles are parts of a turn; velocities, torques and    *)
(* gains are left out, so in torque mode what is sent is the error that    *)
(* the gain is applied to.  There the command is folded and the position   *)
(* is not: a hip told to stay beyond half a turn is sent a turn of error.  *)
(***************************************************************************)
EXTENDS Integers

CONSTANTS
  Half,      \* half a turn, M_PI
  Fold,      \* the angle below which read() adds a turn, -2.5
  NumJoints, \* joints of the description
  Joints     \* the joints looked at

ASSUME AngleAssumption ==
  /\ Half \in Nat \ {0} /\ Fold \in 1 - Half .. Half
  /\ NumJoints \in Nat /\ Joints \subseteq 0 .. NumJoints - 1

VARIABLES
  pvt,       \* pvt_ctrl_: the motors get positions and gains, not torques
  joint,     \* index of the joint
  position,  \* position of the joint, as shown to the controllers
  command    \* positionCommand

bridge == <<pvt, joint, position, command>>

Turn == 2 * Half
Raw == 1 - Half .. Half

(* on_init *)
LegDof == IF NumJoints % 6 = 0 /\ NumJoints % 8 # 0 THEN 3 ELSE 4
IsHip == joint % LegDof = 1

BridgeInit ==
  /\ pvt \in BOOLEAN /\ joint \in Joints
  /\ position = 0 /\ command = 0

(* What read() shows of a motor at angle raw, and what it can show.        *)
Unfolded_Down(raw) == IF IsHip /\ raw < Fold THEN raw - Turn ELSE raw
Unfolded(raw) == IF IsHip /\ raw < Fold THEN raw + Turn ELSE raw

Shown == {Unfolded(raw) : raw \in Raw}

Read(raw) ==
  /\ position' = Unfolded(raw)
  /\ UNCHANGED <<pvt, joint, command>>

(* The controller's command, which nothing bounds.                         *)
Ask(angle) ==
  /\ command' = angle
  /\ UNCHANGED <<pvt, joint, position>>

(* write() takes a turn off a command beyond half a turn, and sends it or  *)
(* the torque computed from it.                                            *)
Folded(angle) == IF IsHip /\ angle > Half THEN angle - Turn ELSE angle

Sent_BeforeFolding == IF pvt THEN command ELSE command - position
Sent == IF pvt THEN Folded(command) ELSE Folded(command) - position

Write ==
  /\ command' = Folded(command)
  /\ UNCHANGED <<pvt, joint, position>>
=============================================================================
