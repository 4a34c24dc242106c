---------------------------- MODULE MCTeleopGoal ----------------------------
(***************************************************************************)
(* Lever positions of the runs: lie down, stand, two gaits that walk or    *)
(* jump.  The middle position, which asks for nothing, is where the levers *)
(* are before the first frame.                                             *)
(***************************************************************************)
EXTENDS TeleopGoal

Down   == [arm |-> 1, gait |-> 1, jump |-> 0]
Stand  == [arm |-> -1, gait |-> 1, jump |-> 0]
Walk   == [arm |-> -1, gait |-> 0, jump |-> 0]
Jump   == [arm |-> -1, gait |-> -1, jump |-> -1]

AllPositions == {Down, Stand, Walk, Jump}
=============================================================================
