----------------------------- MODULE MCRobotLink -----------------------------
(***************************************************************************)
(* A turn of four parts and a hip or the joint before it.  The motor is    *)
(* found below Fold and at half a turn.  The controllers ask for Fold,     *)
(* half a turn and the angle that read() shows of the motor below Fold.    *)
(***************************************************************************)
EXTENDS RobotLink

MCPayload == {-1, 2}
MCCommands == {0, 2, 3}
MCSockets == {<<"bound", "bound">>, <<"unbound", "unbound">>, <<"none", "none">>}
=============================================================================
