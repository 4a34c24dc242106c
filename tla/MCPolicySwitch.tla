---------------------------- MODULE MCPolicySwitch ----------------------------
(***************************************************************************)
(* The policies and goals of MCControlFSM, with the policies' threads.     *)
(***************************************************************************)
EXTENDS MCControlFSM, PolicySwitch
=============================================================================
