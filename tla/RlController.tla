----------------------------- MODULE RlController -----------------------------
(***************************************************************************)
(* The controller plugin: the life cycle callbacks of RlController, the    *)
(* joint objects they fill and the interface handles update() goes         *)
(* through.  Which interfaces exist, who holds them and what they contain  *)
(* is the business of the modules this one is composed with; an operation  *)
(* here constrains the plugin's own variables only.                        *)
(*                                                                         *)
(* A handle is the number of the loan it was taken from, 0 while it is     *)
(* empty: the interfaces of a loan are objects of their own, destroyed     *)
(* when the loan is given back.  Four things have no defined outcome:      *)
(* going through an empty handle or one of a former loan, writing past the *)
(* end of the arrays on_init has sized, and reading a policy's parameters  *)
(* after rl_params has grown.  fault remembers the callback that stopped   *)
(* the process in this way.                                                *)
(***************************************************************************)
EXTENDS Integers, Sequences, Functions

CONSTANTS
  JointNames,   \* joint_names_
  TypeChoices,  \* what the parameters may list as interface types
  MaxCopies     \* bound: how often the controller is configured

ASSUME PluginAssumption ==
  /\ JointNames \in Seq(STRING)
  /\ \A i, j \in DOMAIN JointNames : JointNames[i] = JointNames[j] => i = j
  /\ MaxCopies \in Nat \ {0}

CommandKind == {"position", "velocity", "effort", "kp", "kd"}
StateKind == {"position state", "velocity state", "effort state"}
Kind == CommandKind \cup StateKind

(* The order in which on_activate looks for the handles of a joint.        *)
HandleOrder ==
  <<"position", "velocity", "effort", "kp", "kd",
    "position state", "velocity state", "effort state">>

VARIABLES
  life,      \* state of the life cycle node, or "crashed"
  types,     \* command_interface_types_ and state_interface_types_
  joints,    \* joints_: the name of each and the loan of each of its handles
  loan,      \* the loan whose interfaces the plugin has, 0 for none
  regrown,   \* rl_params has been appended to since the policies took their pointers
  fault      \* the callback that went wrong, or "none"

plugin == <<life, types, joints, loan, regrown, fault>>

N == Len(JointNames)
Life == {"unconfigured", "inactive", "active", "finalized", "crashed"}
Unbound == [k \in Kind |-> 0]

(* on_init; setup_controller sizes every array by joint_names_.            *)
PluginInit ==
  /\ life = "unconfigured" /\ joints = <<>> /\ loan = 0
  /\ types \in TypeChoices
  /\ regrown = FALSE /\ fault = "none"
-----------------------------------------------------------------------------
(* command_interface_configuration: a name for each joint object and each  *)
(* configured type, so twice the same after a second configuration.        *)
Requested_Unique ==
  [q \in ((DOMAIN joints) \cap 1 .. N) \X (types \cap CommandKind) |->
     <<joints[q[1]].name, q[2]>>]
Requested ==
  [q \in (DOMAIN joints) \X (types \cap CommandKind) |-> <<joints[q[1]].name, q[2]>>]

(* on_configure: a joint object for each name, behind those already there. *)
(* Without names it fails, and the node stays unconfigured.                *)
Configure ==
  /\ life = "unconfigured" /\ JointNames # <<>> /\ Len(joints) < MaxCopies * N
  /\ joints' = joints \o [i \in 1 .. N |-> [name |-> JointNames[i], handle |-> Unbound]]
  /\ life' = "inactive"
  /\ UNCHANGED <<types, loan, regrown, fault>>

(* The handles of a joint that are found before the first one missing.     *)
Found ==
  {HandleOrder[i] : i \in {n \in DOMAIN HandleOrder :
                             \A m \in 1 .. n : HandleOrder[m] \in types}}

Bind_Once(joint, l) ==
  [name |-> joint.name,
   handle |-> [k \in Kind |-> IF k \in Found /\ joint.handle[k] = 0 THEN l
                              ELSE joint.handle[k]]]
Bind(joint, l) ==
  [name |-> joint.name,
   handle |-> [k \in Kind |-> IF k \in Found THEN l ELSE joint.handle[k]]]

(* on_activate with the interfaces of loan l: every handle of every joint, *)
(* or failure at the first one missing, which is one of the first joint.   *)
ActivateWith(l) ==
  /\ life = "inactive"
  /\ loan' = l
  /\ \/ /\ Found = Kind
        /\ joints' = [i \in DOMAIN joints |-> Bind(joints[i], l)]
        /\ life' = "active"
     \/ /\ Found # Kind
        /\ joints' = [i \in DOMAIN joints |-> IF i = 1 THEN Bind(joints[i], l) ELSE joints[i]]
        /\ UNCHANGED life
  /\ UNCHANGED <<types, regrown, fault>>

(* on_deactivate: the interfaces are given back; the handles, the last     *)
(* command and the state machine stay as they are.                         *)
Deactivate ==
  /\ life = "active"
  /\ life' = "inactive" /\ loan' = 0
  /\ UNCHANGED <<types, joints, regrown, fault>>

Crash(callback) ==
  /\ life' = "crashed" /\ fault' = callback
  /\ UNCHANGED <<types, joints, loan>>

(* The handles of the joints all belong to the current loan; none of the   *)
(* command handles is empty.                                               *)
AllCurrent == \A i \in DOMAIN joints : \A k \in Kind : joints[i].handle[k] = loan
NoneEmpty == \A i \in DOMAIN joints : \A k \in CommandKind : joints[i].handle[k] # 0

(* update, which first re-reads the parameters when one has changed: the   *)
(* parameters of the policies are appended once more, which moves them.    *)
Reread(changed) == regrown' = (regrown \/ changed)

UpdateDefined == loan # 0 /\ AllCurrent /\ Len(joints) <= N

UpdateCommands(changed) ==
  /\ life = "active" /\ UpdateDefined
  /\ Reread(changed)
  /\ UNCHANGED <<life, types, joints, loan, fault>>

(* The motion state machine may be in a learned policy.                    *)
UpdateCrashes(changed) ==
  /\ life = "active"
  /\ Reread(changed)
  /\ ~ UpdateDefined \/ regrown'
  /\ Crash("update")

(* on_cleanup and on_shutdown write zero through every command handle.     *)
(* After a former loan this may reach the interfaces, be lost, or stop the *)
(* process; an empty handle stops it.                                      *)
ZeroesFrom == [on_cleanup |-> {"inactive"},
               on_shutdown |-> {"unconfigured", "inactive", "active"}]
LifeAfter == [on_cleanup |-> "unconfigured", on_shutdown |-> "finalized"]

Zero(callback) ==
  /\ life \in ZeroesFrom[callback] /\ NoneEmpty
  /\ life' = LifeAfter[callback]
  /\ UNCHANGED <<types, joints, loan, regrown, fault>>

ZeroCrashes(callback) ==
  /\ life \in ZeroesFrom[callback]
  /\ \E i \in DOMAIN joints : \E k \in CommandKind :
       loan = 0 \/ joints[i].handle[k] # loan
  /\ Crash(callback)
  /\ UNCHANGED regrown
=============================================================================
