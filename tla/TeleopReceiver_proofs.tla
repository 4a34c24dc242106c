------------------------ MODULE TeleopReceiver_proofs ------------------------
(***************************************************************************)
(* Proofs about TeleopReceiver, for every set of gaits, sticks and keys:   *)
(* type correctness, and that one press of the mode key toggles once.      *)
(***************************************************************************)
EXTENDS TeleopReceiver, TLAPS

(* While the key has been held since the last toggle, every frame shows    *)
(* it: the one being handled, the one handled last, the next one.          *)
HeldOK == ~ released => radio.key # 0 /\ key # 0 /\ lastKey # 0

IInv == TypeOK /\ HeldOK
-----------------------------------------------------------------------------
(* What the callbacks make of the sticks is a twist or a pose.             *)
LEMMA MovedType ==
  ASSUME NEW c \in Command, NEW j \in [gait : -1..1, stick : Sticks]
  PROVE  Moved(c, j) \in Moves
BY TeleopReceiverAssumption DEF Moved, Moves

LEMMA InitOK == Init => IInv
<1> SUFFICES ASSUME Init PROVE IInv
  OBVIOUS
<1>1. 0 \in Sticks /\ Still \in Moves
  BY TeleopReceiverAssumption DEF Still, Moves
<1>2. radio \in Frame /\ radio.key \in Keys
  BY DEF Init, Frame
<1>3. TypeOK
  BY <1>1, <1>2 DEF Init, TypeOK
<1> QED
  BY <1>3 DEF Init, IInv, HeldOK

(* Every step keeps the types.                                             *)
LEMMA TypeStep == TypeOK /\ [Next]_vars => TypeOK'
<1> SUFFICES ASSUME TypeOK, [Next]_vars PROVE TypeOK'
  OBVIOUS
<1>1. CASE Operate
  <2>1. radio' \in Frame /\ released' \in BOOLEAN
    BY <1>1 DEF Operate, Frame, TypeOK
  <2> QED
    BY <1>1, <2>1 DEF Operate, TypeOK
<1>2. radio.key \in Keys /\ radio.gait \in -1..1 /\ radio.stick \in Sticks
  BY TeleopReceiverAssumption DEF TypeOK, Frame
<1>3. CASE Accept
  <2>1. joy' = [gait |-> radio.gait, stick |-> radio.stick] /\ key' = radio.key /\ rx' = "twist"
    BY <1>3 DEF Accept
  <2>2. joy' \in [gait : -1..1, stick : Sticks]
    BY <1>2, <2>1
  <2>3. key' \in Keys /\ rx' \in {"idle", "key"} \cup Command
    BY <1>2, <2>1 DEF Command
  <2> QED
    BY <1>3, <2>2, <2>3 DEF Accept, TypeOK
<1>4. CASE Skip
  BY <1>2, <1>4 DEF Skip, TypeOK
<1>5. ASSUME NEW c \in Command, Send(c) PROVE TypeOK'
  <2>1. Moved(c, joy) \in Moves /\ Then(c) \in {"key"} \cup Command
    BY MovedType DEF TypeOK, Then, Command
  <2>2. live' \in [Command -> Moves \cup {Free}] /\ rx' \in {"idle", "key"} \cup Command
    BY <1>5, <2>1 DEF Send, TypeOK
  <2> QED
    BY <1>5, <2>2 DEF Send, TypeOK
<1>6. ASSUME NEW c \in Command, Drop(c) PROVE TypeOK'
  <2>1. Then(c) \in {"key"} \cup Command
    BY DEF Then, Command
  <2> QED
    BY <1>6, <2>1 DEF Drop, TypeOK
<1>7. CASE HandleKey
  BY <1>7 DEF HandleKey, TypeOK
<1>8. ASSUME NEW c \in Command, Arrive(c) PROVE TypeOK'
  <2>1. live[c] \in Moves
    BY <1>8 DEF Arrive, TypeOK
  <2>2. live' \in [Command -> Moves \cup {Free}] /\ held' \in [Command -> Moves]
    BY <1>8, <2>1 DEF Arrive, TypeOK
  <2> QED
    BY <1>8, <2>2 DEF Arrive, TypeOK
<1>9. ASSUME NEW c \in Command, Lose(c) PROVE TypeOK'
  <2>1. live' \in [Command -> Moves \cup {Free}]
    BY <1>9 DEF Lose, TypeOK
  <2> QED
    BY <1>9, <2>1 DEF Lose, TypeOK
<1>10. CASE UNCHANGED vars
  BY <1>10 DEF vars, TypeOK
<1> QED
  BY <1>1, <1>3, <1>4, <1>5, <1>6, <1>7, <1>8, <1>9, <1>10 DEF Next, Receive

(* Only HandleKey looks at the key, and only the operator releases it.     *)
LEMMA HeldStep == IInv /\ [Next]_vars => HeldOK'
<1> SUFFICES ASSUME IInv, [Next]_vars PROVE HeldOK'
  OBVIOUS
<1>1. HeldOK /\ TypeOK
  BY DEF IInv
<1>2. CASE Operate
  <2>1. PICK g \in Gaits, s \in Sticks, k \in Keys :
          radio' = [gait |-> g, stick |-> s, key |-> k] /\ released' = (released \/ k = 0)
    BY <1>2 DEF Operate
  <2>2. ASSUME ~ released' PROVE ~ released /\ k # 0
    BY <2>1, <2>2
  <2>3. radio'.key = k
    BY <2>1
  <2> QED
    BY <1>1, <1>2, <2>2, <2>3 DEF Operate, HeldOK
<1>3. CASE Accept \/ Skip
  BY <1>1, <1>3 DEF Accept, Skip, HeldOK
<1>4. CASE HandleKey
  <2>1. lastKey' = key /\ key' = key /\ radio' = radio
    BY <1>4 DEF HandleKey
  <2>2. CASE lastKey = 0 /\ key = UseSdk
    <3>1. released' = (radio.key = 0)
      BY <1>4, <2>2 DEF HandleKey
    <3>2. key # 0
      BY <2>2 DEF UseSdk
    <3> QED
      BY <2>1, <3>1, <3>2 DEF HeldOK
  <2>3. CASE ~ (lastKey = 0 /\ key = UseSdk)
    <3>1. released' = released
      BY <1>4, <2>3 DEF HandleKey
    <3> QED
      BY <1>1, <2>1, <3>1 DEF HeldOK
  <2> QED
    BY <2>2, <2>3
<1>5. CASE UNCHANGED <<radio, key, lastKey, released>>
  BY <1>1, <1>5 DEF HeldOK
<1> QED
  BY <1>2, <1>3, <1>4, <1>5 DEF Next, Receive, Send, Drop, Arrive, Lose, vars

THEOREM InductiveInvariant == Spec => []IInv
<1>1. IInv /\ [Next]_vars => IInv'
  BY TypeStep, HeldStep DEF IInv
<1> QED
  BY <1>1, InitOK, PTL DEF Spec

(* Every variable keeps its type: what crsf_dataread_cb sends is a twist   *)
(* or a pose made of the sticks, and nothing else is ever acted on.        *)
THEOREM TypeCorrect == Spec => []TypeOK
<1>1. IInv => TypeOK
  BY DEF IInv
<1> QED
  BY <1>1, InductiveInvariant, PTL

(* crsf_dataread_cb, for any keys and any uninitialised last_key: between  *)
(* two toggles the operator has released the mode key, although the test   *)
(* compares with the frame before only and frames may be skipped.          *)
THEOREM OnePressAlwaysOneToggle == Spec => OnePressOneToggle
<1>1. IInv /\ [Next]_vars => [useSdk' # useSdk => released]_vars
  <2> SUFFICES ASSUME IInv, [Next]_vars, useSdk' # useSdk PROVE released
    OBVIOUS
  <2>1. HandleKey
    BY DEF Next, Receive, Operate, Accept, Skip, Send, Drop, Arrive, Lose, vars
  <2>2. lastKey = 0
    BY <2>1 DEF HandleKey
  <2> QED
    BY <2>2 DEF IInv, HeldOK
<1> QED
  BY <1>1, InductiveInvariant, PTL DEF Spec, OnePressOneToggle
=============================================================================
