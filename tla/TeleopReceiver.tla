---------------------------- MODULE TeleopReceiver ----------------------------
(***************************************************************************)
(* From the sticks and the mode key of the radio to the controller's twist *)
(* and pose: crsf_dataread_cb of teleop_command_node.cpp, which runs on    *)
(* the receiver thread with cmd_vel_cb and posestamped_cb, the threads of  *)
(* the real-time publishers, and the latest samples the controller acts    *)
(* on.  trylock may fail; the samples of these topics may be lost.         *)
(*                                                                         *)
(* Data abstracted: the sticks are one amount, the gait lever is axis 5,   *)
(* and of a twist or pose only what follows the sticks is kept.  A lost    *)
(* sample and its publication are one step.                                *)
(***************************************************************************)
EXTENDS Integers

CONSTANTS
  Gaits,      \* positions of the gait lever, axis 5
  Sticks,     \* how far the sticks are from the centre; 0 is in the dead zone
  Keys        \* values of the mode key, from channel 8; 0 is no key

UseSdk == 8

ASSUME TeleopReceiverAssumption ==
  /\ Gaits \subseteq -1..1 /\ Gaits # {}
  /\ Sticks \subseteq Nat /\ 0 \in Sticks /\ {0, UseSdk} \subseteq Keys

VARIABLES
  radio,      \* what the operator holds: [gait, stick, key]
  rx,         \* where the receiver thread is in crsf_dataread_cb
  key,        \* the mode key in the frame it handles
  joy,        \* axis 5 and the sticks of *joy_msg_
  live,       \* what the publishers of twist and pose hold, or Free
  held,       \* the twist and the pose the controller acts on
  useSdk,     \* params_.use_sdk
  sdkBit,     \* crsf_transfer_data_.use_sdk, uninitialised at first
  lastKey,    \* last_key, uninitialised at first
  released    \* history: the key was up at some time since the last toggle

vars == <<radio, rx, key, joy, live, held, useSdk, sdkBit, lastKey, released>>

Command == {"twist", "pose"}
Frame == [gait : Gaits, stick : Sticks, key : Keys]
Moves == [forward : Sticks, aside : Sticks, tilt : Sticks]
Still == [forward |-> 0, aside |-> 0, tilt |-> 0]
Free == [forward |-> -1, aside |-> -1, tilt |-> -1]   \* no message
-----------------------------------------------------------------------------
(* The operator moves a lever, the sticks or the key. *)
Operate ==
  /\ \E g \in Gaits, s \in Sticks, k \in Keys :
       /\ radio' = [gait |-> g, stick |-> s, key |-> k]
       /\ released' = (released \/ k = 0)
  /\ UNCHANGED <<rx, key, joy, live, held, useSdk, sdkBit, lastKey>>

(* A frame arrives: joy_msg_ is overwritten if the joy publisher can be    *)
(* locked (its thread may have the turn: Skip), and only when no program   *)
(* has taken over.                                                         *)
Accept_Sdk ==
  /\ rx = "idle"
  /\ key' = radio.key /\ joy' = [gait |-> radio.gait, stick |-> radio.stick]
  /\ rx' = "twist"
  /\ UNCHANGED <<radio, live, held, useSdk, sdkBit, lastKey, released>>

Accept ==
  /\ rx = "idle" /\ ~ useSdk
  /\ key' = radio.key /\ joy' = [gait |-> radio.gait, stick |-> radio.stick]
  /\ rx' = "twist"
  /\ UNCHANGED <<radio, live, held, useSdk, sdkBit, lastKey, released>>

Skip ==
  /\ rx = "idle"
  /\ key' = radio.key /\ rx' = "key"
  /\ UNCHANGED <<radio, joy, live, held, useSdk, sdkBit, lastKey, released>>

(* cmd_vel_cb and posestamped_cb: one gait slides, another tilts.          *)
Moved_Twice(c, j) ==
  [forward |-> IF c = "twist" THEN 2 * j.stick ELSE 0,
   aside |-> IF c = "twist" /\ j.gait = 0 THEN j.stick ELSE 0,
   tilt |-> IF c = "pose" /\ j.gait = -1 THEN j.stick ELSE 0]

Moved(c, j) ==
  [forward |-> IF c = "twist" THEN j.stick ELSE 0,
   aside |-> IF c = "twist" /\ j.gait = 0 THEN j.stick ELSE 0,
   tilt |-> IF c = "pose" /\ j.gait = -1 THEN j.stick ELSE 0]

Then(c) == IF c = "twist" THEN "pose" ELSE "key"

Send_Deflected(c) ==
  /\ rx = c /\ live[c] = Free /\ joy.stick # 0
  /\ live' = [live EXCEPT ![c] = Moved(c, joy)]
  /\ rx' = Then(c)
  /\ UNCHANGED <<radio, key, joy, held, useSdk, sdkBit, lastKey, released>>

Send(c) ==
  /\ rx = c /\ live[c] = Free
  /\ live' = [live EXCEPT ![c] = Moved(c, joy)]
  /\ rx' = Then(c)
  /\ UNCHANGED <<radio, key, joy, held, useSdk, sdkBit, lastKey, released>>

(* The publisher could not be locked.                                      *)
Drop(c) ==
  /\ rx = c /\ rx' = Then(c)
  /\ UNCHANGED <<radio, key, joy, live, held, useSdk, sdkBit, lastKey, released>>

(* The mode key toggles on the frame that first shows it.                  *)
HandleKey_Held ==
  /\ rx = "key" /\ rx' = "idle"
  /\ lastKey' = key
  /\ IF key = UseSdk
     THEN useSdk' = ~ sdkBit /\ sdkBit' = ~ sdkBit /\ released' = (radio.key = 0)
     ELSE UNCHANGED <<useSdk, sdkBit, released>>
  /\ UNCHANGED <<radio, key, joy, live, held>>

HandleKey ==
  /\ rx = "key" /\ rx' = "idle"
  /\ lastKey' = key
  /\ IF lastKey = 0 /\ key = UseSdk
     THEN useSdk' = ~ sdkBit /\ sdkBit' = ~ sdkBit /\ released' = (radio.key = 0)
     ELSE UNCHANGED <<useSdk, sdkBit, released>>
  /\ UNCHANGED <<radio, key, joy, live, held>>

Receive == Accept \/ Skip \/ (\E c \in Command : Send(c) \/ Drop(c)) \/ HandleKey
-----------------------------------------------------------------------------
(* The publishers' threads. *)
Arrive(c) ==
  /\ live[c] # Free
  /\ live' = [live EXCEPT ![c] = Free]
  /\ held' = [held EXCEPT ![c] = live[c]]
  /\ UNCHANGED <<radio, rx, key, joy, useSdk, sdkBit, lastKey, released>>

Lose(c) ==
  /\ live[c] # Free
  /\ live' = [live EXCEPT ![c] = Free]
  /\ UNCHANGED <<radio, rx, key, joy, held, useSdk, sdkBit, lastKey, released>>
-----------------------------------------------------------------------------
Init ==
  /\ radio \in Frame /\ key = radio.key
  /\ rx = "idle"
  /\ joy = [gait |-> 0, stick |-> 0]
  /\ live = [c \in Command |-> Free]
  /\ held = [c \in Command |-> Still]
  /\ useSdk \in BOOLEAN /\ sdkBit \in BOOLEAN /\ lastKey \in Keys
  /\ released = TRUE

Next ==
  \/ Operate \/ Receive
  \/ \E c \in Command : Arrive(c) \/ Lose(c)

(* The radio sends a frame every 4 ms: a lock that is free again and again *)
(* is taken in the end, and not every sample is lost.                      *)
Fairness ==
  /\ WF_vars(Receive) /\ SF_vars(Accept)
  /\ \A c \in Command :
       SF_vars(Send(c)) /\ SF_vars(Arrive(c)) /\ WF_vars(Arrive(c) \/ Lose(c))

Spec == Init /\ [][Next]_vars /\ Fairness
-----------------------------------------------------------------------------
(* Types of the state.                                                     *)
TypeOK ==
  /\ radio \in Frame /\ key \in Keys
  /\ rx \in {"idle", "key"} \cup Command
  /\ joy \in [gait : -1..1, stick : Sticks]
  /\ live \in [Command -> Moves \cup {Free}]
  /\ held \in [Command -> Moves]
  /\ {useSdk, sdkBit, released} \subseteq BOOLEAN
  /\ lastKey \in Keys

(* Sticks and gait that stay where they are become the twist and the pose  *)
(* the controller acts on, through busy locks and lost samples: a robot    *)
(* whose sticks are released is told to stand still, and one whose gait    *)
(* tilts does not go on sliding.                                           *)
SticksObeyed ==
  \A g \in Gaits, s \in Sticks :
    <>[](radio.gait = g /\ radio.stick = s /\ ~ useSdk) =>
      \A c \in Command : <>[](held[c] = Moved(c, [gait |-> g, stick |-> s]))

(* Once a program has taken over for good, crsf_dataread_cb publishes no   *)
(* twist and no pose into its topics, whatever the operator does.          *)
SdkUndisturbed == <>[]useSdk => <>[](\A c \in Command : live[c] = Free)

(* One press of the mode key toggles at most once, however many frames     *)
(* show it and however many of them are skipped: before crsf_dataread_cb   *)
(* toggles again, the operator has released the key.                       *)
OnePressOneToggle == [][useSdk' # useSdk => released]_vars
=============================================================================
