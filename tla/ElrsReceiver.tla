----------------------------- MODULE ElrsReceiver -----------------------------
(***************************************************************************)
(* The receiver of the ELRS radio, elrs_emwave_device.cpp: the thread that *)
(* a SIGIO wakes, the blocking read of at least VMIN bytes, the scan for   *)
(* whole frames, the copy and checksum of readPacket, and the sixteen      *)
(* channels that updateChannels unpacks and hands to the teleop node.      *)
(*                                                                         *)
(* The line carries frames of PacketSize bytes one after the other, of     *)
(* which a read may cut the first and the last; a cut frame is not kept    *)
(* for the next read.  The checksum is ideal: what is not an intact frame  *)
(* does not pass it.  The packets of the radio's own commands, which are   *)
(* only logged, are left out.                                              *)
(*                                                                         *)
(* A second thread sends the node's status back to the radio, which shows  *)
(* it to the operator, in three packets over and over: of the status only  *)
(* the part with the use_sdk bit changes, and it is in one of them.        *)
(***************************************************************************)
EXTENDS Integers, Sequences

CONSTANTS
  Frames,      \* channels a frame can carry: functions from Channel to Value
  Crc,         \* the checksum byte of each frame
  MaxRead,     \* bound: longest read; the buffer holds 512 bytes
  MaxSlips,    \* bound: how often bytes are lost on the line or a read is cut short
  Statuses     \* what the node may have to report

Channel == 0..15
Value == 0..2047
PacketSize == 26

ASSUME ElrsAssumption ==
  /\ Frames \subseteq [Channel -> Value]
  /\ Crc \in [Frames -> 0..255]
  /\ MaxRead \in Nat \ 0..29 /\ MaxSlips \in Nat /\ Statuses # {}

VARIABLES
  pc,        \* where threadFunction is
  rest,      \* bytes on the line that belong to a frame already cut
  left,      \* whole frames in the buffer still to be handled
  channels,  \* m_channels as handed to the callback
  shown,     \* history: the frame they were unpacked from
  slips,     \* bounded counter
  back,      \* m_transfer_back_data, uninitialised before the first frame
  id,        \* the packet threadFunction1 sends next
  told       \* the status the radio has received last

status == <<back, id, told>>
vars == <<pc, rest, left, channels, shown, slips, status>>
-----------------------------------------------------------------------------
(* The frame on the line: address, length and type, the channels packed in *)
(* 22 bytes, least significant bit first, and the checksum.                *)

Bit(n, b) == (n \div 2^b) % 2
PackedBit(f, b) == Bit(f[b \div 11], b % 11)
PackedByte(f, j) ==
  PackedBit(f, 8*j) + 2 * PackedBit(f, 8*j + 1) + 4 * PackedBit(f, 8*j + 2)
    + 8 * PackedBit(f, 8*j + 3) + 16 * PackedBit(f, 8*j + 4)
    + 32 * PackedBit(f, 8*j + 5) + 64 * PackedBit(f, 8*j + 6)
    + 128 * PackedBit(f, 8*j + 7)

Packet(f) ==
  [i \in 0..25 |->
     IF i = 0 THEN 200 ELSE IF i = 1 THEN 24 ELSE IF i = 2 THEN 22
     ELSE IF i = 25 THEN Crc[f] ELSE PackedByte(f, i - 3)]

(* m_inBuffer when readPacket has checked it: the computed checksum is     *)
(* stored at index 24.                                                     *)
InBuffer(f) == [Packet(f) EXCEPT ![24] = Crc[f]]

(* The first byte of each channel and how far updateChannels shifts it; a  *)
(* shift of more than 5 leaves bits of the channel to a third byte.        *)
FirstByte == <<3, 4, 5, 7, 8, 9, 11, 12, 14, 15, 16, 18, 19, 20, 22, 23>>
Shift == <<0, 3, 6, 1, 4, 7, 2, 5, 0, 3, 6, 1, 4, 7, 2, 5>>

Unpack_TwoBytes(d, c) ==
  LET i == FirstByte[c + 1]
      s == Shift[c + 1]
  IN  (d[i] \div 2^s + d[i + 1] * 2^(8 - s)) % 2048

Unpack(d, c) ==
  LET i == FirstByte[c + 1]
      s == Shift[c + 1]
      third == IF s > 5 THEN d[i + 2] * 2^(16 - s) ELSE 0
  IN  (d[i] \div 2^s + d[i + 1] * 2^(8 - s) + third) % 2048

(* updateChannels on each frame.                                           *)
ChannelsOf ==
  [f \in Frames |-> LET d == InBuffer(f) IN [c \in Channel |-> Unpack(d, c)]]
-----------------------------------------------------------------------------
(* SIGIO wakes the thread; on a timeout it waits again without reading.    *)
Wake ==
  /\ pc = "wait" /\ pc' = "read"
  /\ UNCHANGED <<rest, left, channels, shown, slips, status>>

(* VMIN: a read returns no fewer bytes than this.  init opens the line     *)
(* with O_NONBLOCK, but its later F_SETFL to FASYNC clears that again.     *)
MinRead_Frame == PacketSize
MinRead == 30

(* How many whole frames n bytes hold, and how much of the last is cut.    *)
Whole(n) == (n - rest) \div PacketSize
RestAfter_Kept(n) == rest - n + PacketSize
RestAfter(n) == (rest - n) % PacketSize

Read ==
  /\ pc = "read"
  /\ \E n \in MinRead..MaxRead :
       /\ left' = Whole(n)
       /\ rest' = RestAfter(n)
  /\ pc' = "scan"
  /\ UNCHANGED <<channels, shown, slips, status>>

(* A signal cuts the read short, or it fails: fewer bytes than a frame are *)
(* not scanned.                                                            *)
ReadShort ==
  /\ pc = "read" /\ slips < MaxSlips /\ slips' = slips + 1
  /\ \E n \in 0..MinRead - 1 :
       /\ left' = IF n >= PacketSize THEN Whole(n) ELSE 0
       /\ rest' = RestAfter(n)
  /\ pc' = "scan"
  /\ UNCHANGED <<channels, shown, status>>

(* The node's callback ends with it.                                       *)
SetTransferBackData == back' \in Statuses /\ UNCHANGED <<id, told>>

(* readPacket and updateChannels on a frame that arrived intact.           *)
Deliver ==
  /\ pc = "scan" /\ left > 0
  /\ left' = left - 1
  /\ \E f \in Frames :
       /\ channels' = ChannelsOf[f]
       /\ shown' = f
  /\ SetTransferBackData
  /\ UNCHANGED <<pc, rest, slips>>

(* A frame that noise has changed does not pass the checksum.              *)
Reject ==
  /\ pc = "scan" /\ left > 0
  /\ left' = left - 1
  /\ UNCHANGED <<pc, rest, channels, shown, slips, status>>

Done ==
  /\ pc = "scan" /\ left = 0
  /\ pc' = "wait"
  /\ UNCHANGED <<rest, left, channels, shown, slips, status>>

(* Bytes are lost, or the thread starts in the middle of a frame.          *)
Slip ==
  /\ slips < MaxSlips /\ slips' = slips + 1
  /\ rest' \in 0..PacketSize - 1
  /\ UNCHANGED <<pc, left, channels, shown, status>>
-----------------------------------------------------------------------------
(* threadFunction1: the packets in the order in which they are sent; the   *)
(* last four bytes of the status are in the third.  Nobody looks at what   *)
(* write returned.                                                         *)
StatusId == 3
IdAfter_Two(i) == IF i = 1 THEN 2 ELSE 1
IdAfter(i) == IF i = 3 THEN 1 ELSE i + 1

TransferBack ==
  /\ id' = IdAfter(id)
  /\ told' = IF id = StatusId THEN back ELSE told
  /\ UNCHANGED <<pc, rest, left, channels, shown, slips, back>>

TransferFails ==
  /\ id' = IdAfter(id)
  /\ UNCHANGED <<pc, rest, left, channels, shown, slips, back, told>>
-----------------------------------------------------------------------------
Zero == [c \in Channel |-> 0]

Init ==
  /\ pc = "wait" /\ rest \in 0..PacketSize - 1 /\ left = 0
  /\ channels = Zero /\ shown = Zero
  /\ slips = 0
  /\ back \in Statuses /\ id = StatusId /\ told \in Statuses

Next ==
  \/ Wake \/ Read \/ ReadShort \/ Deliver \/ Reject \/ Done \/ Slip
  \/ TransferBack \/ TransferFails

(* The radio sends a frame every 4 ms, not all of them disturbed; the      *)
(* threads are scheduled, and the line does not refuse every status.       *)
Fairness ==
  /\ WF_vars(Wake \/ Read \/ Done) /\ WF_vars(Deliver \/ Reject) /\ SF_vars(Deliver)
  /\ WF_vars(TransferBack \/ TransferFails) /\ SF_vars(TransferBack /\ id = StatusId)

Spec == Init /\ [][Next]_vars /\ Fairness
-----------------------------------------------------------------------------
(* Types of the state.                                                     *)
TypeOK ==
  /\ pc \in {"wait", "read", "scan"}
  /\ rest \in 0..PacketSize - 1
  /\ left \in 0..MaxRead
  /\ channels \in [Channel -> Value] /\ shown \in [Channel -> Value]
  /\ slips \in 0..MaxSlips
  /\ back \in Statuses /\ told \in Statuses /\ id \in 1..3

(* The bit layout of updateChannels is that of the packed frame: the first *)
(* fifteen channels, among them the nine that the teleop node reads, reach *)
(* its callback as the radio sent them.                                    *)
ChannelsAsSent == \A c \in 0..14 : channels[c] = shown[c]

(* A read that holds no whole frame leaves less of a cut frame behind than *)
(* the read before it: VMIN exceeds the frame by four bytes, so the reads  *)
(* drift into step with the frames, and at most six in a row are in vain.  *)
ReadsConverge ==
  [][Read /\ left' = 0 => rest' + 4 <= rest]_vars

(* While the radio sends, frames keep reaching the teleop node, however    *)
(* the reads cut the stream.                                               *)
FramesKeepComing == []<><<Deliver>>_vars

(* A status that stays is what the radio shows in the end, whatever the    *)
(* buffer held at first and however many packets failed: the operator sees *)
(* who has the robot.                                                      *)
StatusShown == \A s \in Statuses : <>[](back = s) => <>[](told = s)
=============================================================================
