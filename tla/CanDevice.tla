------------------------------ MODULE CanDevice ------------------------------
(***************************************************************************)
(* CanDev of can_utils.hpp, as the motor driver uses it: a sender, a       *)
(* receiver and the thread that waits for frames and hands each to the     *)
(* driver's callback, until the destructor stops and joins it.             *)
(*                                                                         *)
(* A socket may be bound, be left unbound because there is no such         *)
(* interface, which the constructors do not report, or not exist because   *)
(* its constructor threw; without a receiver there is no thread, and       *)
(* ready_ and isthreadrunning_ are uninitialised.  The interface may go    *)
(* down and come back; going down is reported once, as an error of the     *)
(* next wait.                                                              *)
(***************************************************************************)
EXTENDS Integers, Sequences

CONSTANTS
  Sockets,   \* how the receiver's and the sender's socket may turn out
  Timed,     \* nano_timeout > 0; otherwise a wait lasts until a frame comes
  Payload,   \* what the data frames for the driver carry
  QueueLen   \* bound: frames the receiving socket holds, more are dropped

Socket == {"bound", "unbound", "none"}

ASSUME CanAssumption ==
  /\ Sockets \subseteq Socket \X Socket
  /\ Timed \in BOOLEAN
  /\ QueueLen \in Nat \ {0}

VARIABLES
  receiver, sender,  \* state of the sockets
  filtered,  \* set_filter was called: before, nothing passes
  interface, \* "up", "failing" while the error is not reported, or "down"
  queue,     \* frames in the receiving socket
  ready,     \* ready_
  running,   \* isthreadrunning_
  thread,    \* where main_recv_func is: "test", "wait" (in select), "read" (in a
             \* read that blocks), "call", "ended"; "none"
  taken,     \* the frame the callback is called with
  silent,    \* is_timeout_ of the receiver
  closing    \* how far the destructor is

sockets == <<receiver, sender, filtered, interface, queue>>
rx == <<ready, running, thread, taken, silent>>
can == <<sockets, rx, closing>>

Frame == (({"data"} \X Payload) \cup {<<"remote">>})
Nothing == <<"nothing">>

(* CanDev creates the sender and the receiver, *)
SocketsInit ==
  /\ \E pair \in Sockets : receiver = pair[1] /\ sender = pair[2]
  /\ filtered = FALSE /\ interface = "up" /\ queue = <<>>

(* which starts the thread.                                                *)
ThreadInit ==
  /\ \/ receiver # "none" /\ ready = TRUE /\ running = TRUE /\ thread = "test"
     \/ receiver = "none" /\ ready \in BOOLEAN /\ running \in BOOLEAN /\ thread = "none"
  /\ taken = Nothing /\ silent = FALSE

CanInit == SocketsInit /\ ThreadInit /\ closing = "no"

(* set_filter *)
SetFilter ==
  /\ closing = "no" /\ ~ filtered /\ filtered' = (receiver # "none")
  /\ UNCHANGED <<receiver, sender, interface, queue, rx, closing>>

(* A frame on the bus, which the kernel drops when the socket is full.     *)
Arrive(frame) ==
  /\ receiver = "bound" /\ filtered /\ interface = "up"
  /\ Len(queue) < QueueLen /\ queue' = Append(queue, frame)
  /\ UNCHANGED <<receiver, sender, filtered, interface, rx, closing>>

InterfaceDown ==
  /\ interface = "up"
  /\ interface' = IF receiver = "bound" THEN "failing" ELSE "down"
  /\ UNCHANGED <<receiver, sender, filtered, queue, rx, closing>>

InterfaceUp ==
  /\ interface = "down" /\ interface' = "up"
  /\ UNCHANGED <<receiver, sender, filtered, queue, rx, closing>>
-----------------------------------------------------------------------------
(* main_recv_func *)

KeepsOn_Open == receiver # "none"
KeepsOn == running /\ ready

Test ==
  /\ thread = "test"
  /\ thread' = IF KeepsOn THEN "wait" ELSE "ended"
  /\ UNCHANGED <<sockets, ready, running, taken, silent, closing>>

(* wait_for_can_data.  A signal ends select with -1, which is taken for a  *)
(* frame: the read after it has no time limit.  There a second signal is   *)
(* an error like any other.                                                *)
Fails_Ends == thread' = "ended"
Fails == thread' = "test"

Interrupted ==
  /\ queue = <<>> /\ interface # "failing"
  /\ \/ thread = "wait" /\ thread' = "read"
     \/ thread = "read" /\ Fails
  /\ UNCHANGED <<sockets, ready, running, taken, silent, closing>>

Receiving == thread \in {"wait", "read"}

(* What ends the wait otherwise: a data frame, ...                         *)
ReceiveData ==
  /\ Receiving /\ interface # "failing"
  /\ queue # <<>> /\ Head(queue) # <<"remote">>
  /\ taken' = Head(queue) /\ queue' = Tail(queue)
  /\ silent' = FALSE /\ thread' = "call"
  /\ UNCHANGED <<receiver, sender, filtered, interface, ready, running, closing>>

(* ... a frame of another type, ...                                        *)
ReceiveRemote ==
  /\ Receiving /\ interface # "failing"
  /\ queue # <<>> /\ Head(queue) = <<"remote">> /\ queue' = Tail(queue)
  /\ thread' = "test"
  /\ UNCHANGED <<receiver, sender, filtered, interface, ready, running, taken, silent,
                 closing>>

(* ... none in time, ...                                                   *)
ReceiveTimeout ==
  /\ thread = "wait" /\ interface # "failing" /\ Timed /\ queue = <<>>
  /\ silent' = TRUE /\ thread' = "test"
  /\ UNCHANGED <<sockets, ready, running, taken, closing>>

(* ... or an error, which is only printed.                                 *)
ReceiveError ==
  /\ Receiving /\ interface = "failing"
  /\ interface' = "down" /\ Fails
  /\ UNCHANGED <<receiver, sender, filtered, queue, ready, running, taken, silent,
                 closing>>

Wait == ReceiveData \/ ReceiveRemote \/ ReceiveTimeout \/ ReceiveError

(* The callback returns; what it does with the frame is the driver's.      *)
Return ==
  /\ thread = "call" /\ thread' = "test" /\ taken' = Nothing
  /\ UNCHANGED <<sockets, ready, running, silent, closing>>
-----------------------------------------------------------------------------
(* send_can_message: whether a message may go out; the socket must take it *)
(* and the device be there.                                                *)
Accepts == sender = "bound" /\ interface = "up"
MaySend == Accepts /\ closing = "no"

(* ~CanDev: first ~CanRxDev, which stops the thread, ...                   *)
Stop ==
  /\ closing = "no" /\ closing' = "stopped"
  /\ ready' = FALSE /\ running' = FALSE
  /\ UNCHANGED <<sockets, thread, taken, silent>>

Joined == thread \in {"none", "ended"}

(* ... joins it and drops the receiver, then ~CanTxDev.                    *)
DropReceiver ==
  /\ closing = "stopped" /\ Joined /\ closing' = "received"
  /\ receiver' = "none" /\ queue' = <<>>
  /\ UNCHANGED <<sender, filtered, interface, rx>>

DropSender ==
  /\ closing = "received" /\ closing' = "closed"
  /\ sender' = "none"
  /\ UNCHANGED <<receiver, filtered, interface, queue, rx>>
=============================================================================
