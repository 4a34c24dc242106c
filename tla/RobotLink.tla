------------------------------ MODULE RobotLink ------------------------------
(***************************************************************************)
(* The control loop of the real robot: the hardware bridge, the CAN device *)
(* and, between them, the motor driver.  The driver is a binary library;   *)
(* it is modelled by its interface: a callback that stores the angle of a  *)
(* frame, getters that return the angle stored last, and a function that   *)
(* sends a command and returns whether it went out.  Its destructor first  *)
(* joins a thread that watches for time-outs, then destroys what frames    *)
(* are stored in, then the CAN device, in the order of the declarations.   *)
(***************************************************************************)
EXTENDS CanDevice, HardwareBridge

CONSTANT Commands   \* angles the controllers ask for

ASSUME LinkAssumption == Payload \subseteq Raw /\ Commands \subseteq Int

VARIABLES
  motor,     \* angle of the motor
  stored,    \* angle the driver stored last
  cycle,     \* the controller manager's next call: "read", "update", "write";
             \* "over" in the driver's destructor, "released" when its data is gone
  target,    \* what the motor received last
  (* what has happened, for the properties *)
  asked,     \* the angle a controller asked for last
  late       \* calls of the callback since the device's destructor began

history == <<asked, late>>
vars == <<can, bridge, motor, stored, cycle, target, history>>

Init ==
  /\ CanInit /\ BridgeInit
  /\ motor \in Payload /\ stored = 0 /\ cycle = "read"
  /\ target = 0 /\ asked = 0 /\ late = 0

(* The driver calls set_filter and installs the callback.                  *)
Register == SetFilter /\ UNCHANGED <<bridge, motor, stored, cycle, target, history>>

Move ==
  /\ motor' \in Payload
  /\ UNCHANGED <<can, bridge, stored, cycle, target, history>>

Report ==
  /\ Arrive(<<"data", motor>>)
  /\ UNCHANGED <<bridge, motor, stored, cycle, target, history>>

OtherFrame ==
  /\ Arrive(<<"remote">>)
  /\ UNCHANGED <<bridge, motor, stored, cycle, target, history>>

Interface ==
  /\ InterfaceDown \/ InterfaceUp
  /\ UNCHANGED <<bridge, motor, stored, cycle, target, history>>

Signal ==
  /\ Interrupted
  /\ UNCHANGED <<bridge, motor, stored, cycle, target, history>>

(* A frame that comes for data already destroyed is stored all the same;   *)
(* what else the write may hit is not modelled.                            *)
Callback ==
  /\ Return /\ stored' = taken[2]
  /\ UNCHANGED <<bridge, motor, cycle, target, history>>

Receive ==
  /\ Test \/ Wait
  /\ late' = IF closing # "no" /\ thread' = "call" THEN late + 1 ELSE late
  /\ UNCHANGED <<bridge, motor, stored, cycle, target, asked>>

Thread == Receive \/ Callback

(* read() only warns when the driver reports a timeout, and goes on.       *)
ReadState ==
  /\ cycle = "read" /\ cycle' = "update"
  /\ Read(stored)
  /\ UNCHANGED <<can, motor, stored, target, history>>

(* The controller may be inactive, and the command stays.                  *)
Update ==
  /\ cycle = "update" /\ cycle' = "write"
  /\ \/ \E angle \in Commands : Ask(angle) /\ asked' = angle
     \/ UNCHANGED <<bridge, asked>>
  /\ UNCHANGED <<can, motor, stored, target, late>>

(* A message that does not go out is only logged.                          *)
WriteCommand ==
  /\ cycle = "write" /\ cycle' = "read"
  /\ Write
  /\ UNCHANGED <<can, motor, stored, history>>

SendSucceeds == WriteCommand /\ MaySend /\ target' = Sent
SendFails_Error ==
  /\ cycle = "write" /\ cycle' = "error"
  /\ Write
  /\ UNCHANGED <<can, motor, stored, target, history>>
SendFails == WriteCommand /\ UNCHANGED target

(* The controller manager destroys the hardware after its last cycle: the  *)
(* driver waits for its thread, ...                                        *)
Leave ==
  /\ cycle = "read" /\ cycle' = "over"
  /\ UNCHANGED <<can, bridge, motor, stored, target, history>>

(* ... which need not ever end; when it has, its data is destroyed, ...    *)
Release ==
  /\ cycle = "over" /\ cycle' = "released"
  /\ UNCHANGED <<can, bridge, motor, stored, target, history>>

(* ... and the CAN device last.                                            *)
Destroy ==
  /\ cycle = "released"
  /\ Stop \/ DropReceiver \/ DropSender
  /\ UNCHANGED <<bridge, motor, stored, cycle, target, history>>

Next ==
  \/ Register \/ Move \/ Report \/ OtherFrame \/ Interface \/ Signal \/ Thread
  \/ ReadState \/ Update \/ SendSucceeds \/ SendFails
  \/ Leave \/ Release \/ Destroy

(* The receiving thread and the control loop are scheduled, the device's   *)
(* destructor goes on once it has begun.  No signal need come, and the     *)
(* driver's own thread need not end.  The motor reports its angle over and *)
(* over and finds room in the socket again and again, and the interface    *)
(* does not refuse every message while it is up.                           *)
Spec ==
  /\ Init /\ [][Next]_vars
  /\ WF_vars(Thread) /\ WF_vars(ReadState) /\ WF_vars(Update)
  /\ WF_vars(SendSucceeds \/ SendFails)
  /\ WF_vars(Destroy /\ closing # "no")
  /\ SF_vars(Report) /\ SF_vars(SendSucceeds)
-----------------------------------------------------------------------------
(* Properties *)

TypeOK ==
  /\ receiver \in Socket /\ sender \in Socket
  /\ filtered \in BOOLEAN /\ interface \in {"up", "failing", "down"}
  /\ queue \in Seq(Frame) /\ Len(queue) <= QueueLen
  /\ ready \in BOOLEAN /\ running \in BOOLEAN /\ silent \in BOOLEAN
  /\ thread \in {"none", "test", "wait", "read", "call", "ended"}
  /\ taken \in Frame \cup {Nothing}
  /\ closing \in {"no", "stopped", "received", "closed"}
  /\ pvt \in BOOLEAN /\ joint \in Joints
  /\ position \in (IF IsHip THEN Fold .. Turn + Fold - 1 ELSE Raw) \cup {0}
  /\ command \in Int
  /\ motor \in Payload /\ stored \in Raw
  /\ cycle \in {"read", "update", "write", "over", "released"}
  /\ target \in Int /\ asked \in Int /\ late \in Nat

(* A motor that takes positions is sent, within its range, the angle that  *)
(* a controller asked for last, in the motor's terms or in those read()    *)
(* shows it in: however often write() has folded the command in place      *)
(* since, and whatever read() showed meanwhile.  Of commands beyond those, *)
(* and of motors that take torques, nothing is promised.                   *)
SameAngleSent ==
  [][SendSucceeds /\ pvt /\ asked \in Raw \cup Shown
     => target' \in Raw /\ Unfolded(target') = Unfolded(asked)]_vars

(* Once the destructor has cleared the flags, the thread hands at most one *)
(* more frame to the callback: the one it was waiting for or reading.      *)
AtMostOneLateCall == late <= 1

(* The device's destructor returns, whatever the bus does, if waits have   *)
(* an end and no signal has sent the thread into a read that has none.     *)
StopEnds == closing = "stopped" /\ Timed ~> closing = "closed" \/ thread = "read"

(* Again and again the motor has the command of the moment, a command that *)
(* stays in particular, although writes may fail and write() reports none. *)
InService == cycle \notin {"over", "released"}
MaySendOn == MaySend /\ pvt /\ InService

CommandsGetThrough ==
  MaySendOn ~> target = Folded(command) \/ ~ MaySendOn

(* The thread survives errors, time-outs and frames of other types: an     *)
(* angle that stays comes to be the position the controllers see, and a    *)
(* bus that falls silent is reported as such, unless a signal has sent the *)
(* thread into a read without a time limit.                                *)
Connected == receiver = "bound" /\ filtered /\ interface = "up" /\ InService
Silence ==
  thread \notin {"none", "read"} /\ Timed /\ queue = <<>> /\ interface # "failing"
    /\ closing = "no"

ReceiverKeepsUp ==
  /\ \A raw \in Payload :
       Connected /\ motor = raw ~> position = Unfolded(raw) \/ motor # raw \/ ~ Connected
  /\ Silence ~> silent \/ ~ Silence
=============================================================================
