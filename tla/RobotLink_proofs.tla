--------------------------- MODULE RobotLink_proofs ---------------------------
(***************************************************************************)
(* Proofs about RobotLink, for every queue length, every way the sockets   *)
(* may turn out, every fold and every set of angles of the motor:          *)
(*   - type correctness,                                                   *)
(*   - the thread hands over at most one frame after the destructor of the *)
(*     device has cleared its flags,                                       *)
(*   - a motor that takes positions is sent the angle asked for.           *)
(* For the second the flags have to stay cleared, and a thread that has    *)
(* made its call may only be on its way out; for the third the command has *)
(* to be the angle asked for or what one folding makes of it.              *)
(***************************************************************************)
EXTENDS RobotLink, TLAPS

(* The frame handed to the callback is a data frame.                       *)
CalledWithData == thread = "call" => taken \in {"data"} \X Payload

(* The flags stay cleared, and the thread that sees it ends.               *)
LateOK ==
  /\ closing # "no" => ~ running
  /\ late = 0 \/ (late = 1 /\ closing # "no" /\ thread \in {"test", "call", "ended"})

(* An angle that read() can show, or a motor can have, is folded once.     *)
AskedOK == asked \in Raw \cup Shown => command \in {asked, Folded(asked)}

IInv == TypeOK /\ CalledWithData /\ LateOK /\ AskedOK

-----------------------------------------------------------------------------
(* What the two folds do to an angle.                                      *)

LEMMA UnfoldedRange ==
  ASSUME NEW raw \in Raw
  PROVE  Unfolded(raw) \in (IF IsHip THEN Fold .. Turn + Fold - 1 ELSE Raw)
BY AngleAssumption DEF Unfolded, Raw, Turn

(* write() turns an angle that read() can show back into the motor's, once *)
(* and for all, and read() shows that one as it would the angle itself.    *)
LEMMA FoldedOnce ==
  ASSUME NEW angle \in Raw \cup Shown
  PROVE  /\ Folded(angle) \in Raw
         /\ Folded(Folded(angle)) = Folded(angle)
         /\ Unfolded(Folded(angle)) = Unfolded(angle)
<1>1. CASE angle \in Raw
  BY <1>1, AngleAssumption DEF Folded, Raw
<1>2. CASE angle \in Shown
  <2>1. PICK raw \in Raw : angle = Unfolded(raw)
    BY <1>2 DEF Shown
  <2>2. CASE IsHip /\ raw < Fold
    <3>1. angle = raw + Turn /\ angle > Half /\ raw \in Int /\ angle \in Int
      BY <2>1, <2>2, AngleAssumption DEF Unfolded, Raw, Turn
    <3>2. Folded(angle) = raw /\ Folded(raw) = raw
      BY <2>2, <3>1, AngleAssumption DEF Folded, Raw, Turn
    <3>3. Unfolded(angle) = angle /\ Unfolded(raw) = angle
      BY <2>1, <3>1, AngleAssumption DEF Unfolded
    <3> QED
      BY <3>2, <3>3
  <2>3. CASE ~ (IsHip /\ raw < Fold)
    <3>1. angle = raw
      BY <2>1, <2>3 DEF Unfolded
    <3> QED
      BY <1>1, <3>1
  <2> QED
    BY <2>2, <2>3
<1> QED
  BY <1>1, <1>2

LEMMA AngleTypes ==
  /\ Raw \subseteq Int /\ 0 \in Raw /\ Turn \in Int
  /\ \A angle \in Int : Folded(angle) \in Int
BY AngleAssumption DEF Raw, Turn, Folded

LEMMA FrameTypes ==
  /\ Payload \subseteq Raw
  /\ \A p \in Payload : <<"data", p>> \in Frame
  /\ <<"remote">> \in Frame
  /\ \A f \in Frame : f # <<"remote">> => f \in {"data"} \X Payload
  /\ \A f \in {"data"} \X Payload : f \in Frame /\ f[2] \in Payload
BY LinkAssumption DEF Frame

(* What the folds make of an angle depends on the joint only, which stays. *)
LEMMA SameJoint ==
  ASSUME joint' = joint
  PROVE  /\ IsHip' <=> IsHip
         /\ Shown' = Shown /\ Folded(asked)' = (IF IsHip /\ asked' > Half
                                              THEN asked' - Turn ELSE asked')
BY DEF IsHip, Shown, Unfolded, Folded

-----------------------------------------------------------------------------
(* The initial state.                                                      *)
LEMMA InitOK == Init => IInv
<1> SUFFICES ASSUME Init PROVE IInv
  OBVIOUS
<1>1. receiver \in Socket /\ sender \in Socket
  BY CanAssumption DEF Init, CanInit, SocketsInit, Socket
<1>2. queue \in Seq(Frame) /\ Len(queue) <= QueueLen
  BY CanAssumption DEF Init, CanInit, SocketsInit
<1>3. pvt \in BOOLEAN /\ joint \in Joints /\ position = 0 /\ command = 0
  BY DEF Init, BridgeInit
<1>4. motor \in Payload /\ stored \in Raw /\ target = 0 /\ asked = 0 /\ late = 0
  BY AngleTypes DEF Init
<1>5. /\ ready \in BOOLEAN /\ running \in BOOLEAN /\ thread \in {"none", "test"}
      /\ taken = Nothing /\ silent = FALSE /\ closing = "no" /\ cycle = "read"
      /\ filtered = FALSE /\ interface = "up"
  BY DEF Init, CanInit, ThreadInit, SocketsInit
<1>6. TypeOK
  <2>1. position \in (IF IsHip THEN Fold .. Turn + Fold - 1 ELSE Raw) \cup {0}
    BY <1>3
  <2>2. command \in Int /\ target \in Int /\ asked \in Int /\ late \in Nat
    BY <1>3, <1>4
  <2>3. taken \in Frame \cup {Nothing}
    BY <1>5
  <2> QED
    BY <1>1, <1>2, <1>3, <1>4, <1>5, <2>1, <2>2, <2>3 DEF TypeOK
<1>7. CalledWithData /\ LateOK /\ AskedOK
  BY <1>3, <1>4, <1>5 DEF CalledWithData, LateOK, AskedOK
<1> QED
  BY <1>6, <1>7 DEF IInv

(* A frame the socket has room for.                                        *)
LEMMA Arrived ==
  ASSUME TypeOK, NEW frame \in Frame, Arrive(frame)
  PROVE  queue' \in Seq(Frame) /\ Len(queue') <= QueueLen
<1>1. queue \in Seq(Frame) /\ Len(queue) < QueueLen /\ queue' = Append(queue, frame)
  BY DEF TypeOK, Arrive
<1>2. Len(Append(queue, frame)) = Len(queue) + 1 /\ Append(queue, frame) \in Seq(Frame)
  BY <1>1
<1> QED
  BY <1>1, <1>2, CanAssumption

(* The command, when neither it nor what was asked for changes.            *)
AngleVars == <<pvt, joint, position, command, asked>>

LEMMA AskedStays == AskedOK /\ UNCHANGED AngleVars => AskedOK'
<1> SUFFICES ASSUME AskedOK, UNCHANGED AngleVars PROVE AskedOK'
  OBVIOUS
<1>1. UNCHANGED <<joint, command, asked>>
  BY DEF AngleVars
<1>2. Shown' = Shown /\ Folded(asked)' = Folded(asked)
  BY <1>1, SameJoint DEF Folded
<1> QED
  BY <1>1, <1>2 DEF AskedOK

(* A controller asks for an angle.                                         *)
LEMMA AskStep ==
  ASSUME NEW angle \in Int, command' = angle, asked' = angle
  PROVE  AskedOK'
BY DEF AskedOK

(* write() folds the command in place.                                     *)
LEMMA WriteStep ==
  ASSUME AskedOK, command' = Folded(command), UNCHANGED <<joint, asked>>
  PROVE  AskedOK'
<1> SUFFICES ASSUME asked \in Raw \cup Shown
             PROVE  command' = Folded(asked)
  <2>1. Shown' = Shown /\ Folded(asked)' = Folded(asked) /\ Raw' = Raw
    BY SameJoint DEF Folded, Raw
  <2> QED
    BY <2>1 DEF AskedOK
<1>1. command \in {asked, Folded(asked)}
  BY DEF AskedOK
<1> QED
  BY <1>1, FoldedOnce

(* Every action keeps the inductive invariant.                             *)
LEMMA StepOK == IInv /\ [Next]_vars => IInv'
<1> SUFFICES ASSUME IInv, [Next]_vars PROVE IInv'
  OBVIOUS
<1> DEFINE Angles == position \in (IF IsHip THEN Fold .. Turn + Fold - 1 ELSE Raw) \cup {0}
<1> USE DEF IInv, TypeOK, CalledWithData, LateOK
<1>0. UNCHANGED AngleVars => AskedOK' /\ Angles'
  BY AskedStays, SameJoint DEF AngleVars
<1>1. CASE UNCHANGED vars
  BY <1>0, <1>1 DEF vars, can, sockets, rx, bridge, history, AngleVars
<1>2. CASE Register
  BY <1>0, <1>2 DEF Register, SetFilter, rx, bridge, history, AngleVars
<1>3. CASE Move
  BY <1>0, <1>3 DEF Move, can, sockets, rx, bridge, history, AngleVars
<1>4. CASE Report
  BY <1>0, <1>4, FrameTypes, Arrived DEF Report, Arrive, rx, bridge, history, AngleVars
<1>5. CASE OtherFrame
  BY <1>0, <1>5, FrameTypes, Arrived DEF OtherFrame, Arrive, rx, bridge, history, AngleVars
<1>6. CASE Interface
  BY <1>0, <1>6 DEF Interface, InterfaceDown, InterfaceUp, rx, bridge, history, AngleVars
<1>7. CASE Signal
  BY <1>0, <1>7 DEF Signal, Interrupted, Fails, sockets, bridge, history, AngleVars
<1>8. CASE Thread
  <2>1. CASE Receive
    <3>1. /\ UNCHANGED <<bridge, motor, stored, cycle, target, asked>>
          /\ late' = IF closing # "no" /\ thread' = "call" THEN late + 1 ELSE late
      BY <2>1 DEF Receive
    <3>2. AskedOK' /\ Angles'
      BY <1>0, <3>1 DEF bridge, AngleVars
    <3>3. CASE Test
      BY <3>1, <3>2, <3>3 DEF Test, KeepsOn, sockets, bridge
    <3>4. CASE ReceiveData
      <4>1. taken' \in {"data"} \X Payload /\ taken' \in Frame
        BY <3>4, FrameTypes DEF ReceiveData
      <4>2. queue' \in Seq(Frame) /\ Len(queue') <= QueueLen
        BY <3>4, CanAssumption DEF ReceiveData
      <4>3. LateOK' /\ late' \in Nat
        BY <3>1, <3>4 DEF ReceiveData, Receiving
      <4>4. TypeOK'
        BY <3>1, <3>2, <3>4, <4>1, <4>2, <4>3 DEF ReceiveData, bridge
      <4>5. CalledWithData'
        BY <4>1
      <4> HIDE DEF IInv, TypeOK, CalledWithData, LateOK
      <4> QED
        BY <3>2, <4>3, <4>4, <4>5 DEF IInv
    <3>5. CASE ReceiveRemote
      <4>1. queue' \in Seq(Frame) /\ Len(queue') <= QueueLen
        BY <3>5, CanAssumption DEF ReceiveRemote
      <4> QED
        BY <3>1, <3>2, <3>5, <4>1 DEF ReceiveRemote, Receiving, bridge
    <3>6. CASE ReceiveTimeout
      BY <3>1, <3>2, <3>6 DEF ReceiveTimeout, sockets, bridge
    <3>7. CASE ReceiveError
      BY <3>1, <3>2, <3>7 DEF ReceiveError, Receiving, Fails, bridge
    <3> QED
      BY <2>1, <3>3, <3>4, <3>5, <3>6, <3>7 DEF Receive, Wait
  <2>2. CASE Callback
    <3>1. taken[2] \in Raw
      BY <2>2, FrameTypes DEF Callback, Return
    <3> QED
      BY <1>0, <2>2, <3>1 DEF Callback, Return, sockets, bridge, history, AngleVars
  <2> QED
    BY <1>8, <2>1, <2>2 DEF Thread
<1>9. CASE ReadState
  <2>1. UNCHANGED <<pvt, joint, command, asked>>
    BY <1>9 DEF ReadState, Read, history
  <2>2. AskedOK'
    <3>1. Shown' = Shown /\ Folded(asked)' = Folded(asked) /\ Raw' = Raw
      BY <2>1, SameJoint DEF Folded, Raw
    <3> QED
      BY <2>1, <3>1 DEF AskedOK
  <2>3. Angles'
    BY <1>9, <2>1, SameJoint, UnfoldedRange DEF ReadState, Read
  <2> QED
    BY <1>9, <2>2, <2>3 DEF ReadState, Read, can, sockets, rx, history
<1>10. CASE Update
  <2>1. CASE \E angle \in Commands : Ask(angle) /\ asked' = angle
    <3>1. PICK angle \in Commands : Ask(angle) /\ asked' = angle
      BY <2>1
    <3>2. angle \in Int
      BY LinkAssumption
    <3>3. AskedOK'
      BY <3>1, <3>2, AskStep DEF Ask
    <3>4. Angles'
      BY <3>1, SameJoint DEF Ask
    <3> QED
      BY <1>10, <3>1, <3>2, <3>3, <3>4 DEF Update, Ask, can, sockets, rx
  <2>2. CASE UNCHANGED <<bridge, asked>>
    BY <1>0, <1>10, <2>2 DEF Update, can, sockets, rx, bridge, AngleVars
  <2> QED
    BY <1>10, <2>1, <2>2 DEF Update
<1>11. CASE WriteCommand /\ (UNCHANGED target \/ target' = Sent)
  <2>1. UNCHANGED <<pvt, joint, position, asked>> /\ command' = Folded(command)
    BY <1>11 DEF WriteCommand, Write, history
  <2>2. AskedOK'
    BY <2>1, WriteStep
  <2>3. Angles'
    BY <2>1, SameJoint
  <2>4. command' \in Int
    BY <2>1, AngleTypes
  <2>5. position \in Int
    BY AngleAssumption, AngleTypes
  <2>6. Sent \in Int
    BY <2>1, <2>4, <2>5 DEF Sent
  <2> QED
    BY <1>11, <2>1, <2>2, <2>3, <2>4, <2>6 DEF WriteCommand, can, sockets, rx, history
<1>12. CASE Leave \/ Release
  BY <1>0, <1>12 DEF Leave, Release, can, sockets, rx, bridge, history, AngleVars
<1>13. CASE Destroy
  <2>1. UNCHANGED <<bridge, motor, stored, cycle, target, history>> /\ AskedOK' /\ Angles'
    BY <1>0, <1>13 DEF Destroy, bridge, history, AngleVars
  <2>2. CASE Stop
    <3>1. LateOK'
      BY <2>1, <2>2 DEF Stop, history
    <3>2. TypeOK'
      BY <2>1, <2>2 DEF Stop, sockets, bridge, history
    <3>3. CalledWithData'
      BY <2>2 DEF Stop
    <3> HIDE DEF IInv, TypeOK, CalledWithData, LateOK
    <3> QED
      BY <2>1, <3>1, <3>2, <3>3 DEF IInv
  <2>3. CASE DropReceiver
    BY <2>1, <2>3, CanAssumption DEF DropReceiver, Socket, rx, bridge, history
  <2>4. CASE DropSender
    BY <2>1, <2>4 DEF DropSender, Socket, rx, bridge, history
  <2> QED
    BY <1>13, <2>2, <2>3, <2>4 DEF Destroy
<1> QED
  BY <1>1, <1>2, <1>3, <1>4, <1>5, <1>6, <1>7, <1>8, <1>9, <1>10, <1>11, <1>12, <1>13
  DEF Next, SendSucceeds, SendFails

(* The inductive invariant holds throughout.                               *)
THEOREM InductiveInvariant == Spec => []IInv
BY InitOK, StepOK, PTL DEF Spec

(* Types: the angles of the motor stay in its range, the position of a hip *)
(* in the range that the fold gives it.                                    *)
THEOREM TypeCorrect == Spec => []TypeOK
<1>1. IInv => TypeOK
  BY DEF IInv
<1> QED
  BY <1>1, InductiveInvariant, PTL

(* ~CanRxDev: whatever the thread was doing when its flags were cleared,   *)
(* it hands at most one more frame to the driver.                          *)
THEOREM AlwaysAtMostOneLateCall == Spec => []AtMostOneLateCall
<1>1. IInv => AtMostOneLateCall
  BY DEF IInv, LateOK, AtMostOneLateCall
<1> QED
  BY <1>1, InductiveInvariant, PTL

(* read() and write() of the hardware bridge, for every fold, every order  *)
(* of angles asked for and found, and any number of writes of the same     *)
(* command: a motor that takes positions is sent the angle asked for.      *)
THEOREM AlwaysSameAngleSent == Spec => SameAngleSent
<1>1. ASSUME IInv, SendSucceeds, pvt, asked \in Raw \cup Shown
      PROVE  target' \in Raw /\ Unfolded(target') = Unfolded(asked)
  <2>1. command \in {asked, Folded(asked)}
    BY <1>1 DEF IInv, AskedOK
  <2>2. target' = Folded(command)
    BY <1>1 DEF SendSucceeds, Sent
  <2>3. Folded(command) = Folded(asked)
    BY <1>1, <2>1, FoldedOnce
  <2> QED
    BY <1>1, <2>2, <2>3, FoldedOnce
<1>2. IInv /\ [Next]_vars =>
        [SendSucceeds /\ pvt /\ asked \in Raw \cup Shown
           => target' \in Raw /\ Unfolded(target') = Unfolded(asked)]_vars
  BY <1>1
<1> QED
  BY <1>2, InductiveInvariant, PTL DEF Spec, SameAngleSent
=============================================================================
