---------------------------- MODULE SimulatedRobot ----------------------------
(***************************************************************************)
(* RlController and other controllers on the simulated hardware, under the *)
(* controller manager of ros2_control: a switch request first tells the    *)
(* hardware which interfaces stop and start, then deactivates, then claims *)
(* for the controller that starts each interface it has requested and      *)
(* activates it, unless one does not exist or is claimed already.  A claim *)
(* is exclusive.  When on_activate fails the claims are kept.              *)
(***************************************************************************)
EXTENDS RlController, GazeboBridge

CONSTANTS
  Other,      \* the other controllers
  Names,      \* the interfaces each of them requests
  MaxLoans    \* bound: how often interfaces are loaned to the plugin

ASSUME RobotAssumption ==
  /\ {"free", "plugin", "zero", "initial"} \cap Other = {}
  /\ Names \in [Other -> (SUBSET Exported) \ {{}}]
  /\ MaxLoans \in Nat

VARIABLES
  holder,   \* who has claimed each exported interface
  loans,    \* loans given to the plugin so far
  driven    \* since its activation the plugin has: not commanded yet, commanded,
            \* commanded and seen the forces computed

vars == <<plugin, bridge, holder, loans, driven>>

Init ==
  /\ PluginInit /\ BridgeInit
  /\ holder = [i \in Exported |-> "free"] /\ loans = 0
  /\ driven = "not yet"

HeldBy(c) == {i \in Exported : holder[i] = c}
Active(c) == HeldBy(c) # {}
RequestedNames == Range(Requested)

Freed(stopped) == [i \in Exported |-> IF holder[i] \in stopped THEN "free" ELSE holder[i]]
Claimable(names, stopped) == \A i \in names : i \in Exported /\ Freed(stopped)[i] = "free"
Claimed(c, names, stopped) == [i \in Exported |-> IF i \in names THEN c ELSE Freed(stopped)[i]]

(* A request that stops some controllers and starts at most one.           *)
SwitchModes(start, stopped) == ModeSwitch(start, UNION {HeldBy(c) : c \in stopped})

PluginMayStart(stopped) == Claimable(RequestedNames, stopped) /\ IsInjective(Requested)

StartPlugin(stopped) ==
  /\ life = "inactive"
  /\ SwitchModes(RequestedNames, stopped)
  /\ \/ /\ PluginMayStart(stopped)
        /\ loans < MaxLoans /\ loans' = loans + 1
        /\ holder' = Claimed("plugin", RequestedNames, stopped)
        /\ ActivateWith(loans + 1)
     \/ /\ ~ PluginMayStart(stopped)
        /\ holder' = Freed(stopped)
        /\ UNCHANGED <<plugin, loans>>
  /\ UNCHANGED driven

StartOther(c, stopped) ==
  /\ ~ Active(c)
  /\ SwitchModes(Names[c], stopped)
  /\ holder' = IF Claimable(Names[c], stopped) THEN Claimed(c, Names[c], stopped)
               ELSE Freed(stopped)

(* The plugin is stopped, or left alone.                                   *)
PluginStops(stopped) ==
  \/ "plugin" \in stopped /\ Deactivate /\ driven' = "not yet"
  \/ "plugin" \notin stopped /\ UNCHANGED <<plugin, driven>>

Switch(stopped) ==
  \/ StartPlugin(stopped) /\ "plugin" \notin stopped
  \/ /\ PluginStops(stopped) /\ UNCHANGED loans
     /\ \/ \E c \in Other \ stopped : StartOther(c, stopped)
        \/ /\ stopped # {}
           /\ SwitchModes({}, stopped)
           /\ holder' = Freed(stopped)
-----------------------------------------------------------------------------
(* update of the plugin writes all five commands of each of its joints.    *)
Driven_NotLast == {<<JointNames[i], k>> : i \in 1 .. N - 1, k \in Interface}
Driven == {<<JointNames[i], k>> : i \in 1 .. N, k \in Interface}

Update ==
  \E changed \in BOOLEAN :
    \/ /\ UpdateCommands(changed)
       /\ SetCommands(Driven, "plugin")
       /\ driven' = IF driven = "not yet" THEN "commanded" ELSE driven
       /\ UNCHANGED <<holder, loans>>
    \/ /\ UpdateCrashes(changed)
       /\ UNCHANGED <<bridge, holder, loans, driven>>

OtherUpdates(c) ==
  /\ Active(c)
  /\ SetCommands(HeldBy(c), c)
  /\ UNCHANGED <<plugin, holder, loans, driven>>

HardwareWrite ==
  /\ Write
  /\ driven' = IF driven = "commanded" THEN "in force" ELSE driven
  /\ UNCHANGED <<plugin, holder, loans>>

(* The zeros arrive when the interfaces are the plugin's, and may arrive   *)
(* when they no longer are.                                                *)
EndCallback(callback) ==
  \/ /\ Zero(callback)
     /\ \/ joints # <<>> /\ SetCommands(Driven, "zero")
        \/ (joints = <<>> \/ loan = 0) /\ UNCHANGED bridge
     /\ driven' = "not yet"
     /\ UNCHANGED <<holder, loans>>
  \/ /\ ZeroCrashes(callback)
     /\ UNCHANGED <<bridge, holder, loans, driven>>

Running ==
  \/ Configure /\ UNCHANGED <<bridge, holder, loans, driven>>
  \/ \E stopped \in SUBSET {c \in Other \cup {"plugin"} : Active(c)} : Switch(stopped)
  \/ Update \/ HardwareWrite
  \/ \E c \in Other : OtherUpdates(c)
  \/ \E callback \in DOMAIN LifeAfter : EndCallback(callback)

Next == life # "crashed" /\ Running
Spec == Init /\ [][Next]_vars
-----------------------------------------------------------------------------
(* Properties *)

Writer == {"initial", "plugin", "zero"} \cup Other

TypeOK ==
  /\ life \in Life /\ types \in TypeChoices /\ loan \in 0 .. MaxLoans
  /\ loans \in 0 .. MaxLoans /\ regrown \in BOOLEAN
  /\ fault \in {"none", "update"} \cup DOMAIN LifeAfter
  /\ joints \in Seq([name : Range(JointNames), handle : [Kind -> 0 .. MaxLoans]])
  /\ Len(joints) <= MaxCopies * N
  /\ methods \in [Joint -> SUBSET Method]
  /\ command \in [Joint -> [Interface -> Writer]]
  /\ force \in [Joint -> SUBSET Writer]
  /\ holder \in [Exported -> {"free", "plugin"} \cup Other]
  /\ driven \in {"not yet", "commanded", "in force"}

(* However the plugin is configured, activated, stopped, cleaned up and    *)
(* activated again, with and without success, update() never goes through  *)
(* an empty handle or one of a former loan and never writes past the       *)
(* arrays; only a parameter that changes at run time makes it undefined.   *)
UpdateSafe == fault = "update" => regrown

(* Once an activated plugin has commanded its joints, every force on them  *)
(* is computed from its own commands alone: no gain or set point of the    *)
(* controller before it is left over, and none is mixed in.                *)
DrivesAlone ==
  driven = "in force" => \A i \in 1 .. N : force[JointNames[i]] = {"plugin"}

(* While the plugin is active, all control method bits of its joints are   *)
(* set, also when it has replaced controllers in one switch request whose  *)
(* stop clears the bits of the whole joint.                                *)
ActiveMethodsSet ==
  life = "active" => \A i \in 1 .. N : methods[JointNames[i]] = Method

(* What the comment in perform_command_mode_switch says: stopping          *)
(* interfaces clears the bits that correspond to them.                     *)
StopClearsItsBits ==
  [][\A j \in Joint, m \in Method :
       m \in methods[j] \ methods'[j] => ExportedName(j, m) \in Exported
                                         /\ holder'[ExportedName(j, m)] # holder[ExportedName(j, m)]]_vars
=============================================================================
