------------------------ MODULE SimulatedRobot_proofs ------------------------
(***************************************************************************)
(* Proofs about SimulatedRobot, for any joints of the controller and of    *)
(* the simulation, any other controllers, any interface types in the       *)
(* parameters and any number of loans:                                     *)
(*   - update() only goes through handles of the current loan,             *)
(*   - the forces come from the active plugin's commands alone,            *)
(*   - the method bits of its joints are set.                              *)
(***************************************************************************)
EXTENDS SimulatedRobot, TLAPS

(* The joint objects: none, or the configured joints in their order,       *)
(* followed by the first of them again after a second configuration.       *)
JointsOK ==
  /\ joints \in Seq([name : STRING, handle : [Kind -> Nat]])
  /\ joints = <<>> \/ (Len(joints) >= N /\ N > 0)
  /\ \A i \in 1 .. N : joints # <<>> => joints[i].name = JointNames[i]
  /\ Len(joints) > N => joints[N + 1].name = JointNames[1]
  /\ life \in {"inactive", "active"} => joints # <<>>

BridgeOK ==
  /\ methods \in [Joint -> SUBSET Method]
  /\ DOMAIN command = Joint /\ \A j \in Joint : DOMAIN command[j] = Interface
  /\ DOMAIN force = Joint /\ DOMAIN holder = Exported
  /\ loans \in Nat

(* What the plugin has while it is active: one object for each joint with  *)
(* the handles of its loan, the claims on all commands, and the bits.      *)
ActiveOK ==
  life = "active" =>
    /\ UpdateDefined /\ Len(joints) = N
    /\ \A i \in 1 .. N : \A k \in Interface :
         <<JointNames[i], k>> \in Exported /\ holder[<<JointNames[i], k>>] = "plugin"
    /\ \A i \in 1 .. N : methods[JointNames[i]] = Method

DrivenOK ==
  /\ driven \in {"not yet", "commanded", "in force"}
  /\ driven # "not yet" =>
       /\ life \in {"active", "crashed"}
       /\ \A i \in 1 .. N : \A k \in Interface : command[JointNames[i]][k] = "plugin"
  /\ DrivesAlone

FaultOK == UpdateSafe /\ (fault = "update" => life = "crashed")

IInv == JointsOK /\ BridgeOK /\ ActiveOK /\ DrivenOK /\ FaultOK

-----------------------------------------------------------------------------
(* The configured names.                                                   *)
LEMMA ConfiguredNames ==
  /\ N \in Nat
  /\ \A i \in 1 .. N : JointNames[i] \in STRING
  /\ \A i, j \in 1 .. N : JointNames[i] = JointNames[j] => i = j
BY PluginAssumption DEF N

LEMMA SameKinds == Interface = CommandKind /\ Method \subseteq Interface
BY DEF Interface, CommandKind, Method

(* A pair among the exported names is that of a simulated joint that       *)
(* mimics none.                                                            *)
LEMMA ExportedPairs ==
  ASSUME NEW j, NEW k, <<j, k>> \in Exported
  PROVE  /\ j \in Simulated /\ j \in Joint /\ j \notin DOMAIN Mimics /\ k \in Interface
         /\ ExportedName(j, k) = <<j, k>>
<1>1. PICK a \in Simulated, b \in Interface : <<j, k>> = ExportedName(a, b)
  BY DEF Exported
<1>2. a \notin DOMAIN Mimics
  <2> SUFFICES ASSUME a \in DOMAIN Mimics PROVE FALSE
    OBVIOUS
  <2>1. <<j, k>> = <<a, "mimic", b>>
    BY <1>1 DEF ExportedName
  <2> QED
    BY <2>1
<1>3. j = a /\ k = b
  BY <1>1, <1>2 DEF ExportedName
<1> QED
  BY <1>1, <1>2, <1>3, BridgeAssumption DEF ExportedName

(* All handles are found only if all interface types are configured.       *)
LEMMA AllFound == Found = Kind => Kind \subseteq types
<1> SUFFICES ASSUME Found = Kind, NEW k \in Kind PROVE k \in types
  OBVIOUS
<1>1. PICK i \in DOMAIN HandleOrder :
        k = HandleOrder[i] /\ \A m \in 1 .. i : HandleOrder[m] \in types
  BY DEF Found
<1>2. DOMAIN HandleOrder = 1 .. 8
  BY DEF HandleOrder
<1>3. i \in 1 .. i
  BY <1>2
<1> QED
  BY <1>1, <1>3

(* Binding keeps the type of a joint object and its name.                  *)
LEMMA BindTypes ==
  ASSUME NEW joint \in [name : STRING, handle : [Kind -> Nat]], NEW l \in Nat
  PROVE  /\ Bind(joint, l) \in [name : STRING, handle : [Kind -> Nat]]
         /\ Bind(joint, l).name = joint.name
         /\ Found = Kind => \A k \in Kind : Bind(joint, l).handle[k] = l
BY DEF Bind

-----------------------------------------------------------------------------
(* Claims that can be made are of all commands of the configured joints.   *)
LEMMA RequestedAll ==
  ASSUME JointsOK, joints # <<>>, Kind \subseteq types,
         NEW i \in 1 .. N, NEW k \in Interface
  PROVE  <<JointNames[i], k>> \in RequestedNames
<1>1. <<i, k>> \in DOMAIN Requested /\ Requested[<<i, k>>] = <<JointNames[i], k>>
  <2>1. i \in DOMAIN joints /\ joints[i].name = JointNames[i]
    BY ConfiguredNames DEF JointsOK
  <2>2. k \in types \cap CommandKind
    BY SameKinds DEF Kind
  <2> QED
    BY <2>1, <2>2 DEF Requested
<1> QED
  BY <1>1 DEF RequestedNames, Range

(* A controller that is configured twice requests the same interface twice.*)
LEMMA RequestedTwice ==
  ASSUME JointsOK, joints # <<>>, Kind \subseteq types, IsInjective(Requested)
  PROVE  Len(joints) = N
<1> SUFFICES ASSUME Len(joints) # N PROVE FALSE
  OBVIOUS
<1>1. Len(joints) > N /\ N > 0 /\ N \in Nat /\ Len(joints) \in Nat
  BY ConfiguredNames DEF JointsOK
<1>2. /\ 1 \in DOMAIN joints /\ N + 1 \in DOMAIN joints
      /\ joints[1].name = joints[N + 1].name
  BY <1>1 DEF JointsOK
<1>3. "position" \in types \cap CommandKind
  BY DEF Kind, CommandKind
<1>4. /\ <<1, "position">> \in DOMAIN Requested /\ <<N + 1, "position">> \in DOMAIN Requested
      /\ Requested[<<1, "position">>] = Requested[<<N + 1, "position">>]
  BY <1>2, <1>3 DEF Requested
<1>5. <<1, "position">> = <<N + 1, "position">>
  BY <1>4 DEF IsInjective
<1> QED
  BY <1>1, <1>5

(* A switch that leaves the active plugin alone leaves it its claims.      *)
LEMMA ClaimsKept ==
  ASSUME BridgeOK, NEW n \in Exported, holder[n] = "plugin", NEW stopped, "plugin" \notin stopped
  PROVE  /\ Freed(stopped)[n] = "plugin"
         /\ \A c, names : Claimable(names, stopped) => Claimed(c, names, stopped)[n] = "plugin"
<1>1. Freed(stopped)[n] = "plugin"
  BY DEF Freed
<1> QED
  BY <1>1 DEF Claimable, Claimed

(* And its method bits: nobody else has a claim whose end clears them.     *)
LEMMA BitsKept ==
  ASSUME BridgeOK, NEW j, NEW start, NEW stopped, "plugin" \notin stopped,
         \A k \in Interface : <<j, k>> \in Exported /\ holder[<<j, k>>] = "plugin",
         methods[j] = Method, SwitchModes(start, stopped)
  PROVE  methods'[j] = Method
<1>1. j \in Joint
  BY ExportedPairs DEF Interface
<1>2. Cleared(j, UNION {HeldBy(c) : c \in stopped}) = {}
  BY SameKinds DEF Cleared, HeldBy
<1> QED
  BY <1>1, <1>2 DEF SwitchModes, ModeSwitch, MethodsAfter, Started

(* The types of the bridge's variables survive a switch.                   *)
LEMMA MethodTypes ==
  ASSUME BridgeOK, NEW start, NEW stop, ModeSwitch(start, stop)
  PROVE  methods' \in [Joint -> SUBSET Method]
BY DEF BridgeOK, ModeSwitch, MethodsAfter, Started, Method

LEMMA HolderTypes ==
  ASSUME NEW c, NEW names, NEW stopped
  PROVE  DOMAIN Freed(stopped) = Exported /\ DOMAIN Claimed(c, names, stopped) = Exported
BY DEF Freed, Claimed

LEMMA CommandTypes ==
  ASSUME BridgeOK
  PROVE  /\ \A names, value : SetCommands(names, value) =>
              DOMAIN command' = Joint /\ \A j \in Joint : DOMAIN command'[j] = Interface
         /\ Write =>
              /\ DOMAIN command' = Joint /\ DOMAIN force' = Joint
              /\ \A j \in Joint : DOMAIN command'[j] = Interface
BY DEF SetCommands, Write, CommandOf

-----------------------------------------------------------------------------
(* The initial state.                                                      *)
LEMMA InitOK == Init => IInv
<1> SUFFICES ASSUME Init PROVE IInv
  OBVIOUS
<1>1. JointsOK
  <2>1. joints = <<>> /\ Len(joints) = 0 /\ life = "unconfigured"
    BY DEF Init, PluginInit
  <2>2. joints \in Seq([name : STRING, handle : [Kind -> Nat]])
    BY <2>1
  <2>3. ~ (Len(joints) > N)
    BY <2>1, ConfiguredNames
  <2>4. joints = <<>> /\ life \notin {"inactive", "active"}
    BY <2>1
  <2> QED
    BY <2>2, <2>3, <2>4 DEF JointsOK
<1>2. BridgeOK
  BY DEF Init, BridgeInit, BridgeOK
<1>3. ActiveOK /\ DrivenOK /\ FaultOK
  BY DEF Init, PluginInit, ActiveOK, DrivenOK, DrivesAlone, FaultOK, UpdateSafe
<1> QED
  BY <1>1, <1>2, <1>3 DEF IInv

(* on_configure puts the joints behind those already there.                *)
LEMMA ConfigureOK ==
  ASSUME IInv, Configure, UNCHANGED <<bridge, holder, loans, driven>>
  PROVE  IInv'
<1> DEFINE new == [i \in 1 .. N |-> [name |-> JointNames[i], handle |-> Unbound]]
<1>1. /\ N \in Nat /\ N > 0 /\ new \in Seq([name : STRING, handle : [Kind -> Nat]])
      /\ Len(new) = N
  BY ConfiguredNames, PluginAssumption DEF Configure, Unbound, N
<1>2. /\ joints \in Seq([name : STRING, handle : [Kind -> Nat]]) /\ joints' = joints \o new
      /\ joints = <<>> \/ Len(joints) >= N
      /\ Len(joints) \in Nat
  BY DEF Configure, IInv, JointsOK
<1> HIDE DEF new
<1>3. /\ joints' \in Seq([name : STRING, handle : [Kind -> Nat]])
      /\ Len(joints') = Len(joints) + N /\ Len(joints') >= N /\ joints' # <<>>
  <2> DEFINE J == [name : STRING, handle : [Kind -> Nat]]
  <2>1. joints \in Seq(J) /\ new \in Seq(J)
    BY <1>1, <1>2
  <2> HIDE DEF J
  <2>2. joints \o new \in Seq(J) /\ Len(joints \o new) = Len(joints) + Len(new)
    BY <2>1
  <2>3. Len(joints) \in Nat /\ Len(joints') = Len(joints) + N
    BY <1>1, <1>2, <2>1, <2>2
  <2>4. joints' # <<>>
    BY <1>1, <2>3
  <2> QED
    BY <1>1, <1>2, <2>2, <2>3, <2>4 DEF J
<1>4. \A i \in 1 .. N : joints'[i].name = JointNames[i]
  <2> SUFFICES ASSUME NEW i \in 1 .. N PROVE joints'[i].name = JointNames[i]
    OBVIOUS
  <2>1. new[i].name = JointNames[i]
    BY DEF new
  <2>2. CASE joints = <<>>
    BY <1>1, <1>2, <2>1, <2>2
  <2>3. CASE joints # <<>>
    <3>1. joints'[i] = joints[i]
      BY <1>1, <1>2, <2>3
    <3> QED
      BY <3>1, <2>3 DEF IInv, JointsOK
  <2> QED
    BY <2>2, <2>3
<1>5. Len(joints') > N => joints'[N + 1].name = JointNames[1]
  <2> SUFFICES ASSUME Len(joints') > N PROVE joints'[N + 1].name = JointNames[1]
    OBVIOUS
  <2>1. Len(joints) >= N
    BY <1>1, <1>2, <1>3
  <2>2. CASE Len(joints) = N
    <3>1. (joints \o new)[Len(joints) + 1] = new[1]
      BY <1>1, <1>2
    <3> QED
      BY <1>1, <1>2, <2>2, <3>1 DEF new
  <2>3. CASE Len(joints) > N
    <3>1. joints'[N + 1] = joints[N + 1]
      BY <1>1, <1>2, <2>3
    <3> QED
      BY <3>1, <2>3 DEF IInv, JointsOK
  <2> QED
    BY <1>1, <1>2, <2>1, <2>2, <2>3
<1>6. JointsOK'
  BY <1>1, <1>3, <1>4, <1>5 DEF JointsOK, N
<1>7. life = "unconfigured" /\ life' = "inactive" /\ UNCHANGED <<types, loan, regrown, fault>>
  BY DEF Configure
<1>8. BridgeOK' /\ ActiveOK' /\ DrivenOK' /\ FaultOK'
  BY <1>7 DEF IInv, BridgeOK, ActiveOK, DrivenOK, DrivesAlone, FaultOK, UpdateSafe, bridge
<1> QED
  BY <1>6, <1>8 DEF IInv

(* on_activate binds the handles of a loan, all of them or those before    *)
(* the first one missing.                                                  *)
LEMMA ActivateTypes ==
  ASSUME JointsOK, NEW l \in Nat, ActivateWith(l)
  PROVE  /\ JointsOK' /\ Len(joints') = Len(joints)
         /\ life' = "active" =>
              Found = Kind /\ \A i \in DOMAIN joints' : \A k \in Kind : joints'[i].handle[k] = l
<1> DEFINE J == [name : STRING, handle : [Kind -> Nat]]
<1>1. /\ joints \in Seq(J) /\ life = "inactive" /\ joints # <<>>
      /\ \A i \in DOMAIN joints : joints[i] \in J
  <2>1. joints \in Seq(J) /\ life = "inactive" /\ joints # <<>>
    BY DEF JointsOK, ActivateWith
  <2> HIDE DEF J
  <2> QED
    BY <2>1
<1>2. \A i \in DOMAIN joints :
        /\ Bind(joints[i], l) \in J
        /\ Bind(joints[i], l).name = joints[i].name
        /\ Found = Kind => \A k \in Kind : Bind(joints[i], l).handle[k] = l
  BY <1>1, BindTypes
<1> HIDE DEF J
<1>3. /\ DOMAIN joints' = DOMAIN joints
      /\ \A i \in DOMAIN joints : joints'[i] \in J /\ joints'[i].name = joints[i].name
      /\ life' = "active" =>
              Found = Kind /\ \A i \in DOMAIN joints' : \A k \in Kind : joints'[i].handle[k] = l
      /\ joints' = [i \in DOMAIN joints |-> joints'[i]]
  <2>1. CASE Found = Kind
    <3>1. joints' = [i \in DOMAIN joints |-> Bind(joints[i], l)]
      BY <2>1 DEF ActivateWith
    <3>2. \A i \in DOMAIN joints : joints'[i] = Bind(joints[i], l)
      BY <3>1
    <3>3. DOMAIN joints' = DOMAIN joints /\ joints' = [i \in DOMAIN joints |-> joints'[i]]
      BY <3>1
    <3>4. ASSUME NEW i \in DOMAIN joints
          PROVE  /\ joints'[i] \in J /\ joints'[i].name = joints[i].name
                 /\ \A k \in Kind : joints'[i].handle[k] = l
      <4>1. joints'[i] = Bind(joints[i], l)
        BY <3>2
      <4> QED
        BY <1>2, <2>1, <4>1
    <3> QED
      BY <2>1, <3>3, <3>4
  <2>2. CASE Found # Kind
    <3>1. joints' = [i \in DOMAIN joints |-> IF i = 1 THEN Bind(joints[i], l) ELSE joints[i]]
      BY <2>2 DEF ActivateWith
    <3>2. life' = "inactive"
      BY <1>1, <2>2 DEF ActivateWith
    <3>3. DOMAIN joints' = DOMAIN joints /\ joints' = [i \in DOMAIN joints |-> joints'[i]]
      BY <3>1
    <3>4. \A i \in DOMAIN joints : joints'[i] \in {joints[i], Bind(joints[i], l)}
      BY <3>1
    <3>5. ASSUME NEW i \in DOMAIN joints
          PROVE  joints'[i] \in J /\ joints'[i].name = joints[i].name
      <4>1. joints'[i] = joints[i] \/ joints'[i] = Bind(joints[i], l)
        BY <3>4
      <4> QED
        BY <1>1, <1>2, <4>1
    <3>6. life' # "active"
      BY <3>2
    <3> QED
      BY <3>3, <3>5, <3>6
  <2> QED
    BY <2>1, <2>2
<1>4. joints' \in Seq(J) /\ Len(joints') = Len(joints) /\ joints' # <<>>
  <2>1. Len(joints) \in Nat /\ DOMAIN joints = 1 .. Len(joints) /\ Len(joints) # 0
    BY <1>1
  <2> QED
    BY <1>3, <2>1
<1>5. \A i \in 1 .. N : joints'[i].name = JointNames[i]
  BY <1>1, <1>3, ConfiguredNames DEF JointsOK
<1>6. Len(joints') > N => joints'[N + 1].name = JointNames[1]
  <2> SUFFICES ASSUME Len(joints) > N PROVE joints'[N + 1].name = JointNames[1]
    BY <1>4
  <2>1. N + 1 \in DOMAIN joints
    BY <1>1, ConfiguredNames
  <2> QED
    BY <1>3, <2>1 DEF JointsOK
<1> QED
  BY <1>1, <1>3, <1>4, <1>5, <1>6 DEF JointsOK, J, N

(* A switch that starts the plugin, or fails to.                           *)
LEMMA StartOK ==
  ASSUME IInv, NEW stopped, StartPlugin(stopped)
  PROVE  IInv'
<1>1. life = "inactive" /\ driven = "not yet" /\ fault # "update"
  BY DEF IInv, DrivenOK, FaultOK, StartPlugin
<1>2. SwitchModes(RequestedNames, stopped) /\ UNCHANGED <<command, force, driven>>
  BY DEF StartPlugin, SwitchModes, ModeSwitch
<1>3. CASE /\ PluginMayStart(stopped) /\ loans' = loans + 1
           /\ holder' = Claimed("plugin", RequestedNames, stopped)
           /\ ActivateWith(loans + 1)
  <2>1. loans + 1 \in Nat /\ loans + 1 # 0
    BY DEF IInv, BridgeOK
  <2>2. /\ JointsOK' /\ Len(joints') = Len(joints) /\ joints # <<>>
        /\ life' = "active" =>
             Found = Kind /\ \A i \in DOMAIN joints' : \A k \in Kind : joints'[i].handle[k] = loans + 1
    BY <1>1, <1>3, <2>1, ActivateTypes DEF IInv, JointsOK
  <2>3. BridgeOK'
    BY <1>2, <1>3, <2>1, MethodTypes, HolderTypes DEF IInv, BridgeOK, SwitchModes
  <2>4. ActiveOK'
    <3> SUFFICES ASSUME life' = "active" PROVE ActiveOK'
      BY DEF ActiveOK
    <3>1. Kind \subseteq types /\ loan' = loans + 1
      BY <1>3, <2>2, AllFound DEF ActivateWith
    <3>2. Len(joints') = N
      BY <1>3, <2>2, <3>1, RequestedTwice DEF PluginMayStart, IInv
    <3>3. UpdateDefined'
      BY <2>1, <2>2, <3>1, <3>2, ConfiguredNames DEF UpdateDefined, AllCurrent, N
    <3>4. ASSUME NEW i \in 1 .. N, NEW k \in Interface
          PROVE  /\ <<JointNames[i], k>> \in RequestedNames /\ <<JointNames[i], k>> \in Exported
                 /\ holder'[<<JointNames[i], k>>] = "plugin"
      <4>1. <<JointNames[i], k>> \in RequestedNames
        BY <2>2, <3>1, RequestedAll DEF IInv
      <4>2. <<JointNames[i], k>> \in Exported
        BY <1>3, <4>1 DEF PluginMayStart, Claimable
      <4> QED
        BY <1>3, <4>1, <4>2 DEF Claimed
    <3>5. ASSUME NEW i \in 1 .. N PROVE methods'[JointNames[i]] = Method
      <4>1. JointNames[i] \in Joint
        BY <3>4, ExportedPairs DEF Interface
      <4>2. Started(JointNames[i], RequestedNames) = Method
        BY <3>4, SameKinds DEF Started
      <4>3. methods'[JointNames[i]] \in SUBSET Method
        BY <2>3, <4>1 DEF BridgeOK
      <4>4. Method \subseteq methods'[JointNames[i]]
        BY <1>2, <4>1, <4>2 DEF SwitchModes, ModeSwitch, MethodsAfter
      <4> QED
        BY <4>3, <4>4
    <3> QED
      BY <3>2, <3>3, <3>4, <3>5 DEF ActiveOK, N
  <2>5. DrivenOK' /\ FaultOK'
    BY <1>1, <1>2, <1>3 DEF DrivenOK, DrivesAlone, FaultOK, UpdateSafe, ActivateWith
  <2> QED
    BY <2>2, <2>3, <2>4, <2>5 DEF IInv
<1>4. CASE UNCHANGED <<plugin, loans>> /\ holder' = Freed(stopped)
  <2>1. JointsOK' /\ ActiveOK' /\ DrivenOK' /\ FaultOK'
    BY <1>1, <1>2, <1>4
    DEF plugin, IInv, JointsOK, ActiveOK, DrivenOK, DrivesAlone, FaultOK, UpdateSafe
  <2>2. BridgeOK'
    BY <1>2, <1>4, MethodTypes, HolderTypes DEF IInv, BridgeOK, SwitchModes
  <2> QED
    BY <2>1, <2>2 DEF IInv
<1> QED
  BY <1>3, <1>4 DEF StartPlugin

(* A switch that stops the plugin or leaves it alone.                      *)
LEMMA OtherSwitchOK ==
  ASSUME IInv, NEW c, NEW names, NEW start, NEW stopped,
         life # "crashed", PluginStops(stopped), UNCHANGED loans, SwitchModes(start, stopped),
         \/ holder' = Freed(stopped)
         \/ Claimable(names, stopped) /\ holder' = Claimed(c, names, stopped)
  PROVE  IInv'
<1>1. UNCHANGED <<command, force>>
  BY DEF SwitchModes, ModeSwitch
<1>2. BridgeOK'
  BY <1>1, MethodTypes, HolderTypes DEF IInv, BridgeOK, SwitchModes
<1>3. CASE Deactivate /\ driven' = "not yet"
  BY <1>1, <1>2, <1>3
  DEF Deactivate, IInv, JointsOK, ActiveOK, DrivenOK, DrivesAlone, FaultOK, UpdateSafe
<1>4. CASE "plugin" \notin stopped /\ UNCHANGED <<plugin, driven>>
  <2>1. JointsOK' /\ DrivenOK' /\ FaultOK'
    BY <1>1, <1>4 DEF plugin, IInv, JointsOK, DrivenOK, DrivesAlone, FaultOK, UpdateSafe
  <2>2. ActiveOK'
    <3> SUFFICES ASSUME life = "active" PROVE ActiveOK'
      BY <1>4 DEF ActiveOK, plugin
    <3>1. UpdateDefined' /\ Len(joints') = N
      BY <1>4 DEF IInv, ActiveOK, plugin, UpdateDefined, AllCurrent
    <3>2. ASSUME NEW i \in 1 .. N, NEW k \in Interface
          PROVE  <<JointNames[i], k>> \in Exported /\ holder'[<<JointNames[i], k>>] = "plugin"
      <4>1. <<JointNames[i], k>> \in Exported /\ holder[<<JointNames[i], k>>] = "plugin"
        BY DEF IInv, ActiveOK
      <4> QED
        BY <1>4, <4>1, ClaimsKept DEF IInv
    <3>3. ASSUME NEW i \in 1 .. N PROVE methods'[JointNames[i]] = Method
      <4>1. /\ methods[JointNames[i]] = Method
            /\ \A k \in Interface : /\ <<JointNames[i], k>> \in Exported
                                    /\ holder[<<JointNames[i], k>>] = "plugin"
        BY DEF IInv, ActiveOK
      <4> QED
        BY <1>4, <4>1, BitsKept DEF IInv
    <3> QED
      BY <3>1, <3>2, <3>3 DEF ActiveOK, N
  <2> QED
    BY <1>2, <2>1, <2>2 DEF IInv
<1> QED
  BY <1>3, <1>4 DEF PluginStops

(* What a command becomes that somebody writes.                            *)
LEMMA CommandSet ==
  ASSUME IInv, life = "active", NEW names, NEW value, SetCommands(names, value),
         NEW i \in 1 .. N, NEW k \in Interface
  PROVE  command'[JointNames[i]][k] =
           IF <<JointNames[i], k>> \in names THEN value ELSE command[JointNames[i]][k]
<1>1. <<JointNames[i], k>> \in Exported
  BY DEF IInv, ActiveOK
<1> QED
  BY <1>1, ExportedPairs DEF SetCommands

(* update() writes all commands of the plugin's joints, or stops the       *)
(* process when the parameters have moved.                                 *)
LEMMA UpdateOK ==
  ASSUME IInv, life # "crashed", Update
  PROVE  IInv'
<1>1. life = "active" /\ UpdateDefined /\ fault # "update"
  BY DEF Update, UpdateCommands, UpdateCrashes, IInv, ActiveOK, FaultOK
<1>2. ASSUME NEW changed \in BOOLEAN, UpdateCommands(changed), SetCommands(Driven, "plugin"),
             driven' = IF driven = "not yet" THEN "commanded" ELSE driven,
             UNCHANGED <<holder, loans>>
      PROVE  IInv'
  <2>1. UNCHANGED <<life, types, joints, loan, fault, methods, force>>
    BY <1>2 DEF UpdateCommands, SetCommands
  <2>2. JointsOK' /\ BridgeOK' /\ ActiveOK' /\ FaultOK'
    BY <1>1, <1>2, <2>1, CommandTypes
    DEF IInv, JointsOK, BridgeOK, ActiveOK, UpdateDefined, AllCurrent, FaultOK, UpdateSafe
  <2>3. ASSUME NEW i \in 1 .. N, NEW k \in Interface
        PROVE  command'[JointNames[i]][k] = "plugin"
    <3>1. <<JointNames[i], k>> \in Driven
      BY DEF Driven
    <3> QED
      BY <1>1, <1>2, <3>1, CommandSet
  <2>4. driven' = "in force" => driven = "in force"
    BY <1>2
  <2>5. DrivenOK'
    BY <1>1, <1>2, <2>1, <2>3, <2>4 DEF IInv, DrivenOK, DrivesAlone, N
  <2> QED
    BY <2>2, <2>5 DEF IInv
<1>3. ASSUME NEW changed \in BOOLEAN, UpdateCrashes(changed),
             UNCHANGED <<bridge, holder, loans, driven>>
      PROVE  IInv'
  <2>1. regrown' /\ life' = "crashed" /\ UNCHANGED <<joints, loan>>
    BY <1>1, <1>3 DEF UpdateCrashes, Crash
  <2> QED
    BY <1>3, <2>1
    DEF IInv, JointsOK, BridgeOK, ActiveOK, DrivenOK, DrivesAlone, FaultOK, UpdateSafe, bridge
<1> QED
  BY <1>2, <1>3 DEF Update

(* Another controller writes the commands of the interfaces it holds.      *)
LEMMA OtherUpdatesOK ==
  ASSUME IInv, life # "crashed", NEW c \in Other, OtherUpdates(c)
  PROVE  IInv'
<1>1. UNCHANGED <<life, types, joints, loan, regrown, fault, methods, force, holder, loans, driven>>
  BY DEF OtherUpdates, SetCommands, plugin
<1>2. JointsOK' /\ BridgeOK' /\ ActiveOK' /\ FaultOK'
  BY <1>1, CommandTypes
  DEF OtherUpdates, IInv, JointsOK, BridgeOK, ActiveOK, UpdateDefined, AllCurrent, FaultOK, UpdateSafe
<1>3. ASSUME driven # "not yet", NEW i \in 1 .. N, NEW k \in Interface
      PROVE  command'[JointNames[i]][k] = "plugin"
  <2>1. life = "active" /\ command[JointNames[i]][k] = "plugin"
    BY <1>3 DEF IInv, DrivenOK
  <2>2. <<JointNames[i], k>> \notin HeldBy(c)
    BY <2>1, RobotAssumption DEF IInv, ActiveOK, HeldBy
  <2> QED
    BY <2>1, <2>2, CommandSet DEF OtherUpdates
<1>4. DrivenOK'
  BY <1>1, <1>3 DEF IInv, DrivenOK, DrivesAlone, N
<1> QED
  BY <1>2, <1>4 DEF IInv

(* A joint that mimics none keeps its commands and gets its force from     *)
(* them.                                                                   *)
LEMMA WriteKeeps ==
  ASSUME BridgeOK, Write, NEW j \in Simulated, j \notin DOMAIN Mimics,
         \A k \in Interface : command[j][k] = "plugin"
  PROVE  (\A k \in Interface : command'[j][k] = "plugin") /\ force'[j] = {"plugin"}
<1>1. j \in Joint
  BY BridgeAssumption
<1>2. CommandOf(j) = [k \in Interface |-> command[j][k]]
  BY DEF CommandOf, Follows
<1>3. "kp" \in Interface
  BY DEF Interface
<1> QED
  BY <1>1, <1>2, <1>3 DEF Write

LEMMA WriteOK ==
  ASSUME IInv, life # "crashed", HardwareWrite
  PROVE  IInv'
<1>1. UNCHANGED <<life, types, joints, loan, regrown, fault, methods, holder, loans>>
  BY DEF HardwareWrite, Write, plugin
<1>2. JointsOK' /\ BridgeOK' /\ ActiveOK' /\ FaultOK'
  BY <1>1, CommandTypes
  DEF HardwareWrite, IInv, JointsOK, BridgeOK, ActiveOK, UpdateDefined, AllCurrent, FaultOK, UpdateSafe
<1>3. ASSUME driven # "not yet", NEW i \in 1 .. N
      PROVE  /\ \A k \in Interface : command'[JointNames[i]][k] = "plugin"
             /\ force'[JointNames[i]] = {"plugin"}
  <2>1. /\ life = "active" /\ \A k \in Interface : command[JointNames[i]][k] = "plugin"
        /\ \A k \in Interface : <<JointNames[i], k>> \in Exported
    BY <1>3 DEF IInv, DrivenOK, ActiveOK
  <2>2. JointNames[i] \in Simulated /\ JointNames[i] \notin DOMAIN Mimics
    BY <2>1, ExportedPairs DEF Interface
  <2> QED
    BY <2>1, <2>2, WriteKeeps DEF IInv, HardwareWrite
<1>4. /\ driven' \in {"not yet", "commanded", "in force"}
      /\ driven' = "not yet" <=> driven = "not yet"
  BY DEF HardwareWrite, IInv, DrivenOK
<1>5. driven' # "not yet" => life' \in {"active", "crashed"}
  BY <1>1, <1>4 DEF IInv, DrivenOK
<1>6. DrivenOK'
  BY <1>3, <1>4, <1>5 DEF DrivenOK, DrivesAlone, N
<1> QED
  BY <1>2, <1>6 DEF IInv

(* on_cleanup and on_shutdown.                                             *)
LEMMA EndOK ==
  ASSUME IInv, life # "crashed", NEW callback \in DOMAIN LifeAfter, EndCallback(callback)
  PROVE  IInv'
<1>1. callback \in {"on_cleanup", "on_shutdown"} /\ fault # "update"
  BY DEF LifeAfter, IInv, FaultOK
<1>2. CASE /\ Zero(callback)
           /\ (SetCommands(Driven, "zero") \/ UNCHANGED bridge)
           /\ driven' = "not yet" /\ UNCHANGED <<holder, loans>>
  <2>1. life' \in {"unconfigured", "finalized"} /\ UNCHANGED <<types, joints, loan, regrown, fault>>
    <3>1. LifeAfter[callback] \in {"unconfigured", "finalized"}
      BY DEF LifeAfter
    <3> QED
      BY <1>2, <3>1 DEF Zero
  <2>2. BridgeOK'
    BY <1>2, CommandTypes DEF IInv, BridgeOK, SetCommands, bridge
  <2> QED
    BY <1>1, <1>2, <2>1, <2>2
    DEF IInv, JointsOK, ActiveOK, DrivenOK, DrivesAlone, FaultOK, UpdateSafe
<1>3. CASE ZeroCrashes(callback) /\ UNCHANGED <<bridge, holder, loans, driven>>
  BY <1>1, <1>3
  DEF ZeroCrashes, Crash, IInv, JointsOK, BridgeOK, ActiveOK, DrivenOK, DrivesAlone, FaultOK,
      UpdateSafe, bridge
<1> QED
  BY <1>2, <1>3 DEF EndCallback

(* Every action keeps the inductive invariant.                             *)
LEMMA StepOK == IInv /\ [Next]_vars => IInv'
<1> SUFFICES ASSUME IInv, [Next]_vars PROVE IInv'
  OBVIOUS
<1>1. CASE UNCHANGED vars
  BY <1>1
  DEF vars, plugin, bridge, IInv, JointsOK, BridgeOK, ActiveOK, UpdateDefined, AllCurrent,
      DrivenOK, DrivesAlone, FaultOK, UpdateSafe
<1>2. ASSUME life # "crashed", NEW stopped, Switch(stopped) PROVE IInv'
  <2>1. CASE StartPlugin(stopped)
    BY <2>1, StartOK
  <2>2. CASE /\ PluginStops(stopped) /\ UNCHANGED loans
             /\ \E c \in Other \ stopped : StartOther(c, stopped)
    BY <1>2, <2>2, OtherSwitchOK DEF StartOther
  <2>3. CASE /\ PluginStops(stopped) /\ UNCHANGED loans
             /\ SwitchModes({}, stopped) /\ holder' = Freed(stopped)
    BY <1>2, <2>3, OtherSwitchOK
  <2> QED
    BY <1>2, <2>1, <2>2, <2>3 DEF Switch
<1> QED
  BY <1>1, <1>2, ConfigureOK, UpdateOK, OtherUpdatesOK, WriteOK, EndOK DEF Next, Running

(* The inductive invariant holds throughout.                               *)
THEOREM InductiveInvariant == Spec => []IInv
BY InitOK, StepOK, PTL DEF Spec

(* RlController::update: no handle it goes through is empty or of a former *)
(* loan, and no array is written past its end, unless a parameter has      *)
(* changed at run time.                                                    *)
THEOREM UpdateAlwaysSafe == Spec => []UpdateSafe
<1>1. IInv => UpdateSafe
  BY DEF IInv, FaultOK
<1> QED
  BY <1>1, InductiveInvariant, PTL

(* GazeboBridge::write: once the plugin has commanded its joints, the      *)
(* forces on them come from its commands alone.                            *)
THEOREM AlwaysDrivesAlone == Spec => []DrivesAlone
<1>1. IInv => DrivesAlone
  BY DEF IInv, DrivenOK
<1> QED
  BY <1>1, InductiveInvariant, PTL

(* perform_command_mode_switch: whatever stops and starts, the method bits *)
(* of the active plugin's joints are set.                                  *)
THEOREM AlwaysActiveMethodsSet == Spec => []ActiveMethodsSet
<1>1. IInv => ActiveMethodsSet
  BY DEF IInv, ActiveOK, ActiveMethodsSet
<1> QED
  BY <1>1, InductiveInvariant, PTL

-----------------------------------------------------------------------------
(* Type correctness.  It is inductive once the number of joint objects is  *)
(* known to be a multiple of the number of names: a bound alone would let  *)
(* one more configuration pass it.                                         *)

JointObject == [name : Range(JointNames), handle : [Kind -> 0 .. MaxLoans]]

PluginTypes ==
  /\ life \in Life /\ types \in TypeChoices /\ loan \in 0 .. MaxLoans
  /\ loans \in 0 .. MaxLoans /\ regrown \in BOOLEAN
  /\ fault \in {"none", "update"} \cup DOMAIN LifeAfter
  /\ driven \in {"not yet", "commanded", "in force"}

ObjectTypes ==
  /\ joints \in Seq(JointObject)
  /\ \E copies \in 0 .. MaxCopies : Len(joints) = copies * N

BridgeTypes ==
  /\ methods \in [Joint -> SUBSET Method]
  /\ command \in [Joint -> [Interface -> Writer]]
  /\ force \in [Joint -> SUBSET Writer]

ClaimTypes == holder \in [Exported -> {"free", "plugin"} \cup Other]

TypeInv == PluginTypes /\ ObjectTypes /\ BridgeTypes /\ ClaimTypes

LEMMA Constants ==
  /\ N \in Nat /\ MaxCopies \in Nat /\ MaxLoans \in Nat
  /\ \A i \in 1 .. N : JointNames[i] \in Range(JointNames)
BY PluginAssumption, RobotAssumption DEF N, Range

LEMMA TypeInvImplies == TypeInv => TypeOK
<1> SUFFICES ASSUME TypeInv PROVE TypeOK
  OBVIOUS
<1>1. PICK copies \in 0 .. MaxCopies : Len(joints) = copies * N
  BY DEF TypeInv, ObjectTypes
<1>2. ASSUME NEW a \in Nat, NEW b \in Nat, NEW n \in Nat, a <= b PROVE a * n <= b * n
  <2>1. PICK d \in Nat : b = a + d
    <3>1. b - a \in Nat /\ b = a + (b - a)
      BY <1>2
    <3> QED
      BY <3>1
  <2>2. b * n = a * n + d * n /\ d * n \in Nat /\ a * n \in Nat
    BY <2>1
  <2> QED
    BY <2>2
<1>3. Len(joints) <= MaxCopies * N
  BY <1>1, <1>2, Constants
<1> QED
  BY <1>3 DEF TypeInv, PluginTypes, ObjectTypes, BridgeTypes, ClaimTypes, TypeOK, JointObject

LEMMA TypeInit == Init => TypeInv
<1> SUFFICES ASSUME Init PROVE TypeInv
  OBVIOUS
<1>1. PluginTypes
  <2>1. 0 \in 0 .. MaxLoans
    BY Constants
  <2> QED
    BY <2>1 DEF Init, PluginInit, PluginTypes, Life
<1>2. ObjectTypes
  <2>1. joints = <<>>
    BY DEF Init, PluginInit
  <2>2. joints \in Seq(JointObject) /\ Len(joints) = 0
    BY <2>1
  <2>3. 0 \in 0 .. MaxCopies /\ 0 = 0 * N
    BY Constants
  <2> QED
    BY <2>2, <2>3 DEF ObjectTypes
<1>3. BridgeTypes /\ ClaimTypes
  BY DEF Init, BridgeInit, BridgeTypes, ClaimTypes, Writer
<1> QED
  BY <1>1, <1>2, <1>3 DEF TypeInv

(* on_configure.                                                           *)
LEMMA ConfigureTypes ==
  ASSUME TypeInv, Configure
  PROVE  ObjectTypes'
<1> DEFINE new == [i \in 1 .. N |-> [name |-> JointNames[i], handle |-> Unbound]]
<1>1. new \in Seq(JointObject) /\ Len(new) = N
  <2>1. Unbound \in [Kind -> 0 .. MaxLoans]
    BY Constants DEF Unbound
  <2>2. \A i \in 1 .. N : [name |-> JointNames[i], handle |-> Unbound] \in JointObject
    BY <2>1, Constants DEF JointObject
  <2> QED
    BY <2>2, Constants
<1>2. joints' = joints \o new /\ joints \in Seq(JointObject) /\ Len(joints) < MaxCopies * N
  BY DEF Configure, TypeInv, ObjectTypes
<1> HIDE DEF new
<1>3. joints' \in Seq(JointObject) /\ Len(joints') = Len(joints) + N
  BY <1>1, <1>2
<1>4. PICK copies \in 0 .. MaxCopies : Len(joints) = copies * N
  BY DEF TypeInv, ObjectTypes
<1>5. copies # MaxCopies
  BY <1>2, <1>4, Constants
<1>6. copies + 1 \in 0 .. MaxCopies /\ (copies + 1) * N = copies * N + N
  BY <1>5, Constants
<1>7. Len(joints') = (copies + 1) * N
  BY <1>3, <1>4, <1>6
<1> QED
  BY <1>3, <1>6, <1>7 DEF ObjectTypes, N

(* on_activate.                                                            *)
LEMMA BindObject ==
  ASSUME NEW joint \in JointObject, NEW l \in 0 .. MaxLoans
  PROVE  Bind(joint, l) \in JointObject
BY DEF Bind, JointObject

LEMMA ActivateObjects ==
  ASSUME TypeInv, NEW l \in 0 .. MaxLoans, ActivateWith(l)
  PROVE  ObjectTypes'
<1>1. joints \in Seq(JointObject)
  BY DEF TypeInv, ObjectTypes
<1>2. \A i \in DOMAIN joints : joints[i] \in JointObject /\ Bind(joints[i], l) \in JointObject
  BY <1>1, BindObject
<1>3. /\ DOMAIN joints' = DOMAIN joints /\ joints' = [i \in DOMAIN joints |-> joints'[i]]
      /\ \A i \in DOMAIN joints : joints'[i] \in JointObject
  <2>1. CASE joints' = [i \in DOMAIN joints |-> Bind(joints[i], l)]
    BY <1>2, <2>1
  <2>2. CASE joints' = [i \in DOMAIN joints |-> IF i = 1 THEN Bind(joints[i], l) ELSE joints[i]]
    BY <1>2, <2>2
  <2> QED
    BY <2>1, <2>2 DEF ActivateWith
<1>4. joints' \in Seq(JointObject) /\ Len(joints') = Len(joints)
  <2>1. DOMAIN joints = 1 .. Len(joints) /\ Len(joints) \in Nat
    BY <1>1
  <2> QED
    BY <1>3, <2>1
<1> QED
  BY <1>4 DEF TypeInv, ObjectTypes, N

(* The bridge: a switch, commands somebody writes, write().                *)
LEMMA SwitchTypes ==
  ASSUME BridgeTypes, NEW start, NEW stop, ModeSwitch(start, stop)
  PROVE  BridgeTypes'
BY DEF BridgeTypes, ModeSwitch, MethodsAfter, Started, Method

LEMMA SetTypes ==
  ASSUME BridgeTypes, NEW names, NEW value \in Writer, SetCommands(names, value)
  PROVE  BridgeTypes'
BY DEF BridgeTypes, SetCommands

LEMMA WriteTypes ==
  ASSUME BridgeTypes, Write
  PROVE  BridgeTypes'
<1>1. \A j \in Joint : CommandOf(j) \in [Interface -> Writer]
  BY BridgeAssumption DEF BridgeTypes, CommandOf, Follows
<1> QED
  BY <1>1 DEF BridgeTypes, Write

(* The claims.                                                             *)
LEMMA FreedTypes ==
  ASSUME ClaimTypes, NEW stopped
  PROVE  /\ Freed(stopped) \in [Exported -> {"free", "plugin"} \cup Other]
         /\ \A c, names : c \in {"plugin"} \cup Other =>
              Claimed(c, names, stopped) \in [Exported -> {"free", "plugin"} \cup Other]
BY DEF ClaimTypes, Freed, Claimed

LEMMA SwitchKeepsTypes ==
  ASSUME TypeInv, NEW stopped, Switch(stopped)
  PROVE  TypeInv'
<1>1. CASE StartPlugin(stopped)
  <2>1. BridgeTypes'
    BY <1>1, SwitchTypes DEF TypeInv, StartPlugin, SwitchModes
  <2>2. ClaimTypes'
    BY <1>1, FreedTypes DEF TypeInv, ClaimTypes, StartPlugin
  <2>3. CASE loans < MaxLoans /\ loans' = loans + 1 /\ ActivateWith(loans + 1)
    <3>1. loans + 1 \in 0 .. MaxLoans
      <4>1. loans \in 0 .. MaxLoans /\ MaxLoans \in Nat /\ loans < MaxLoans
        BY <2>3, Constants DEF TypeInv, PluginTypes
      <4> QED
        BY <4>1
    <3>2. PluginTypes'
      BY <1>1, <2>3, <3>1 DEF TypeInv, PluginTypes, ActivateWith, StartPlugin, Life
    <3> QED
      BY <2>1, <2>2, <2>3, <3>1, <3>2, ActivateObjects DEF TypeInv
  <2>4. CASE UNCHANGED <<plugin, loans>>
    BY <1>1, <2>1, <2>2, <2>4 DEF TypeInv, PluginTypes, ObjectTypes, plugin, StartPlugin
  <2> QED
    BY <1>1, <2>3, <2>4 DEF StartPlugin
<1>2. CASE /\ PluginStops(stopped) /\ UNCHANGED loans
           /\ \/ \E c \in Other \ stopped : StartOther(c, stopped)
              \/ SwitchModes({}, stopped) /\ holder' = Freed(stopped)
  <2>1. 0 \in 0 .. MaxLoans
    BY Constants
  <2>2. PluginTypes' /\ ObjectTypes'
    BY <1>2, <2>1
    DEF TypeInv, PluginTypes, ObjectTypes, PluginStops, Deactivate, plugin, Life
  <2>3. BridgeTypes'
    BY <1>2, SwitchTypes DEF TypeInv, StartOther, SwitchModes
  <2>4. ClaimTypes'
    BY <1>2, FreedTypes DEF TypeInv, ClaimTypes, StartOther
  <2> QED
    BY <2>2, <2>3, <2>4 DEF TypeInv
<1> QED
  BY <1>1, <1>2 DEF Switch

LEMMA TypeStep == TypeInv /\ [Next]_vars => TypeInv'
<1> SUFFICES ASSUME TypeInv, [Next]_vars PROVE TypeInv'
  OBVIOUS
<1> USE DEF TypeInv
<1>1. CASE UNCHANGED vars
  BY <1>1 DEF vars, plugin, bridge, PluginTypes, ObjectTypes, BridgeTypes, ClaimTypes
<1>2. CASE Configure /\ UNCHANGED <<bridge, holder, loans, driven>>
  BY <1>2, ConfigureTypes DEF Configure, bridge, PluginTypes, BridgeTypes, ClaimTypes, Life
<1>3. CASE Update
  <2>1. PluginTypes' /\ ObjectTypes' /\ ClaimTypes'
    BY <1>3
    DEF Update, UpdateCommands, UpdateCrashes, Crash, Reread, PluginTypes, ObjectTypes,
        ClaimTypes, Life
  <2>2. BridgeTypes'
    BY <1>3, SetTypes DEF Update, BridgeTypes, bridge, Writer
  <2> QED
    BY <2>1, <2>2
<1>4. CASE HardwareWrite
  BY <1>4, WriteTypes DEF HardwareWrite, plugin, PluginTypes, ObjectTypes, ClaimTypes
<1>5. ASSUME NEW c \in Other, OtherUpdates(c) PROVE TypeInv'
  BY <1>5, SetTypes DEF OtherUpdates, plugin, PluginTypes, ObjectTypes, ClaimTypes, Writer
<1>6. ASSUME NEW callback \in DOMAIN LifeAfter, EndCallback(callback) PROVE TypeInv'
  <2>1. LifeAfter[callback] \in Life
    BY <1>6 DEF LifeAfter, Life
  <2>2. PluginTypes' /\ ObjectTypes' /\ ClaimTypes'
    BY <1>6, <2>1
    DEF EndCallback, Zero, ZeroCrashes, Crash, PluginTypes, ObjectTypes, ClaimTypes, Life
  <2>3. BridgeTypes'
    BY <1>6, SetTypes DEF EndCallback, BridgeTypes, bridge, Writer
  <2> QED
    BY <2>2, <2>3
<1> QED
  BY <1>1, <1>2, SwitchKeepsTypes, <1>3, <1>4, <1>5, <1>6 DEF Next, Running

(* Every variable keeps its type, for any constants; in particular the     *)
(* plugin never has more joint objects than its configurations give it.    *)
THEOREM TypeCorrect == Spec => []TypeOK
BY TypeInit, TypeStep, TypeInvImplies, PTL DEF Spec
=============================================================================
