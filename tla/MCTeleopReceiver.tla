-------------------------- MODULE MCTeleopReceiver --------------------------
(***************************************************************************)
(* Two gaits are enough: the one that slides and the one that tilts.       *)
(***************************************************************************)
EXTENDS TeleopReceiver

TwoGaits == {0, -1}
=============================================================================
