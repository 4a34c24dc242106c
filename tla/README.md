# A verification of d1sim's controller in TLA+

This directory holds TLA+ modules that model the control software of `d1sim` (the D1 wheel-legged
robots: reinforcement-learning controller, teleoperation, simulation and hardware bridges), TLC
configurations that check them on small instances, and TLAPS proofs for every size. Paths below are
relative to `src/src/ddt_ros2_control/`.

## 1. The system

```
 keyboard / ELRS radio        ROS topics                 ros2_control (one thread, 400 Hz)
 +------------------+   goal: String (latched)   +------------------------------------------+
 | teleop_command   | -------------------------> | RlController::update                     |
 | keyboard_contr.  |   twist, pose              |   FSM::run --- state: idle, transform_up |
 +------------------+                            |        joint_pd, transform_down, rl_*    |
                                                 |   low_cmd -> command interfaces          |
   forward_thread of each policy  <--------------|   (action_vec_, obs_, history)           |
                                                 +------------------------------------------+
                                                    | read / write             | read / write
                                             hardware_bridge (CAN)       gazebo_bridge
```

| Component | State it keeps | Operations | What is hard | What makes it correct |
|---|---|---|---|---|
| motion state machine (`controller/rl_controller/src/fsm`) | mode, current and next state, members of the two manoeuvres, low-level command, goal string | `FSM::run` once a tick; `run`, `checkTransition`, `enter`, `exit` of five kinds of state | the decision and its execution are a tick apart; the goal changes in between and is read unlocked; two clocks (exit test, setpoint) must agree | manoeuvres end before they are left, and in the right posture; a stop goal reaches idle; no cycling |
| learned policy and thread (`FSMState_RL*.cpp`) | observation, history, action, last action, `stop_update_`, `thread_first_` | `enter`, `run`, `exit`; loop body of `update_forward` | two threads, no lock, an inference in flight over `exit`/`enter` | a stay uses its own data, or flushes what is stale; at most one late action; only the current policy begins a round |
| controller plugin (`rl_controller_node.cpp`) | joints, loaned interfaces, parameters, subscriptions | lifecycle callbacks, `update`, topic callbacks, parameter refresh | legal sequences of callbacks; parameters re-read at run time under pointers | no handle used before or after it is loaned; state machine and parameters agree |
| teleop command (`interaction/teleop_command`) | last joystick message, last goal, three real-time publishers | receiver callbacks, goal timer | receiver thread against executor thread; publisher lock busy | the last switch position becomes the goal |
| ELRS receiver (`elrs_emwave_device.cpp`) | receive buffer and position, channels, transfer-back data | byte parser, channel update, signal handler | partial frames, checksum, two threads and a signal handler | frames keep arriving and as sent; the operator sees the node's status |
| keyboard controller | goal, twist, angles, pose | constructor, key thread, publishing timer | unprotected shared fields, the thread started before they are set | what the keys ask for reaches the controller, within the limits |
| hardware bridge | joint state and command arrays | `on_init`, `read`, `write` | timeouts that only warn, failed sends that are only logged; command changed in place | the commanded angle reaches the robot, whatever is folded on the way |
| CAN device layer (`tita_robot/protocol`) | sockets, receive thread, `ready_`, `isthreadrunning_`, `is_timeout_` | constructor, receive loop, send, destructor | destruction against a thread in `select` or in the callback; sockets that do not open; interface errors; signals | the thread survives errors, ends when it is to, and calls the driver at most once more |
| Gazebo bridge | control method bits, command and state arrays | interface registration, mode switch, read, write | start and stop of several interfaces in one switch; commands outlive their writer | forces come from the controller that holds the joint |
| obstacle cloud | last model states | subscription, timer | stale odometry with a fresh stamp | output reflects the last message |

Inference back ends, rotation algebra, launch files and descriptions have no protocol of their own
and are not modelled.

## 2. Modules

| Module | Models | Role |
|---|---|---|
| `MotionModes` | what the motion state machine promises | abstract specification |
| `ControlFSM` | `FSM::run`, every state's `run`/`enter`/`exit`/`checkTransition`, `fsm_goal_cb` | core |
| `MCControlFSM` | | goals and policies of the runs |
| `ControlFSM_proofs` | | TLAPS, also of `PolicySwitch` |
| `PolicyThread` | `FSMState_RL`, `FSMState_RLPPO`: control loop against `forward_thread` | core |
| `PolicyThread_proofs` | | TLAPS |
| `PolicySwitch` | the threads of all policies beside `FSM::run` | extends `ControlFSM` |
| `TeleopGoal` | goal timer, its publisher, the goal topic, the controller's subscription | command path |
| `TeleopReceiver` | `crsf_dataread_cb`, `cmd_vel_cb`, `posestamped_cb`, their publishers | command path |
| `ElrsReceiver` | `threadFunction`, `readPacket`, `updateChannels`; `threadFunction1`, `dataTransferBack` | command path |
| `Keyboard` | `KeyboardControllerNode` and the controller that listens | command path |
| `RlController` | the life cycle callbacks, `update` as far as handles and parameters go | part |
| `GazeboBridge` | `registerJoints`, `perform_command_mode_switch`, `write` | part |
| `SimulatedRobot` | the plugin, other controllers, the controller manager and the simulated hardware | composes the two above |
| `CanDevice` | `CanDev` with its receiving thread | part |
| `HardwareBridge` | `on_init`, `read`, `write` for one joint | part |
| `RobotLink` | control loop, bridge, driver, CAN device, motor | composes the two above |
| `MCTeleopGoal`, `MCTeleopReceiver`, `MCElrsReceiver`, `MCKeyboard`, `MCSimulatedRobot`, `MCRobotLink`, `MCPolicySwitch` | | constants of the runs |
| `TeleopGoal_proofs`, `TeleopReceiver_proofs`, `ElrsReceiver_proofs`, `Keyboard_proofs`, `SimulatedRobot_proofs`, `RobotLink_proofs` | | TLAPS |

### ControlFSM

One step of `Normal`, `Throw` or `Change` is one call of `FSM::run`. `Normal` runs the current state
and asks it for a transition; `Change`, one tick later, leaves the state, enters the next one and
runs it. `Throw` is a `Normal` tick whose `checkTransition` lets an exception out; nothing runs
after it (`aborted`), because ros2_control does not catch it. `BeginGoal` and `EndGoal` are
`fsm_goal_cb`: between them the copy of the string is under way and `ReadGoal` yields the old string,
the new one or one that no state knows.

Abstractions: a joint vector is the number of ticks along its ramp (`InterPts`, with `NaN` for 0/0);
a goal string is what the parser makes of it (`PolicyNamed`: a policy, an index out of range, not a
number, a number too large for `std::stoi`); torque is whether it passes the limit. The body's
orientation and the ramp lengths are chosen anew whenever the code reads or computes them.
`checkSafty` always returns true, so its branch is not modelled; `iter` and `count` are never read.

### PolicyThread

One step is one statement of either thread; filling the history is a step per sample, and joint
commands may read an action that is half written. An observation carries the number of the stay its
readings come from; an action carries the stays it was inferred from, so that stale data is visible.
`After` gives the order of the thread's statements for each policy type. `inflight` and `writes`
record what happened, for the properties only.

### PolicySwitch

`ControlFSM` with the thread of every policy: `BeginRound` is the test of `stop_update_` that finds it
clear, `EndRound` the end of the loop's body. What a round computes is `PolicyThread`'s matter; here it
matters only that the flag is tested once per round, so that the network of a policy that was left
computes on beside the next one's. `OnlyCurrentBegins` says that no policy but the current one begins a
round, `LeftPoliciesRest` that one left for good comes to rest. That two networks never run at once
would be false of the code.

### TeleopGoal

One step is one test of `fsm_goal_cb` (`TestDown` to `TestJump`, then `Send`), each of which reads
one axis of `joy_msg_`, while `Copy` overwrites the axes one at a time on the receiver thread. `Lock`
is the successful `trylock`; a failed one changes nothing. The publisher's own thread takes the
message (`TakeMessage`) and publishes it (`Publish`) into a topic that keeps the last `Depth` goals;
the controller takes them oldest first (`Deliver`), and after `Subscribe`, a configuration or a
restart of the controller, it is sent what the topic retains. A lever is its position after the
thresholds of `crsf_dataread_cb`; buttons 2 to 4 are never written by the node and stay 0, so their
three branches are left out. The publisher and the topic are not under `src/` and are modelled from
their use: `trylock` fails while the thread has its turn, the topic is reliable and transient local.

### TeleopReceiver

The receiver thread accepts or skips a frame, sends twist and pose when their publishers are free,
and looks at the mode key. `live` is what the publishers' threads have yet to publish, `held` what
the controller acts on; `Lose` drops a sample, which these topics allow. The sticks are one amount,
a twist its forward and sideways part, a pose its tilt. `last_key` and the bit `use_sdk` of the
transfer data are not initialised: they start with any value. `crsf_moderead_cb` only logs. The goal
timer, which reads the same message, is `TeleopGoal`'s.

### ElrsReceiver

The line is a stream of frames of 26 bytes; `rest` is how many bytes of a frame already cut come
first, so a read of `n` bytes (`Read`) yields `Whole(n)` frames and leaves `RestAfter(n)`. `Deliver`
is `readPacket` and `updateChannels` on an intact frame, `Reject` on a changed one; the checksum is
ideal. `InBuffer` and `Unpack` follow the buffer and the shifts of the code byte for byte, `Packet` is
the layout the radio packs. A read that fails, or that a signal cuts short, is `ReadShort`:
what it returned is scanned only if it has the length of a frame. The scan for the radio's own command packets, which are only logged, is
left out. `TransferBack` and `TransferFails` are one packet of `threadFunction1` that is written or
refused; of the twelve bytes only the last four, with `use_sdk`, change, and they are in the packet
with number `StatusId`. `back` is the buffer, with any value before the first frame; the copy of
`setTransferBackData` and its reading are each one step, because one bit is all that differs.

### Keyboard

The key thread takes a key (`TakeKey`) and then executes its statements one by one: the effect, the
limits, the pose. A goal is a string and a pose four numbers, so their assignments have a step in
between where the field is `Torn`. The constructor still has two statements to go when the thread
starts. `Publish` and `Miss` are the timer's visit to one publisher; the message of a busy publisher
is not sent. `Other` stands for the teleop node and programs, which publish on the same topics.
`wanted` is the goal of the last goal key, undefined when the constructor may overwrite it. Velocities are
counted in steps and the scale of a step is fixed; the code keeps the position of the pose constant. The
angles are uninitialised until the constructor sets them and start with any member of `Garbage`, within
the limits or far beyond; NaN is left out: it would pass the comparisons of `clamp`, and the pose of a key
typed ahead would stay NaN until the next key.

### RlController, GazeboBridge, SimulatedRobot

`SimulatedRobot` is the plugin under the controller manager. A switch request tells the hardware which
interfaces stop and start (`ModeSwitch`), deactivates, claims, and activates at most one controller. The plugin's
handles carry the number of the loan they were taken from; `update` is defined only through handles of
the present loan, within the arrays, and while `rl_params` has not grown. Where the code's behaviour is
undefined the process may stop (`life = "crashed"`, `fault` names the callback) or go on; what
it may then do to the commands is in `EndCallback`. A
command is who wrote it last, a force the set of those whose commands it was computed from. `Other`
controllers claim and write some of the same interfaces; one of the run's has a joint that mimics
another. The controller manager is not under `src/`; only its documented order is used: exclusive
claims, the hardware's switch before the claims, claims kept when `on_activate` fails. The only error a
callback returns is that of `on_configure` without joints: `on_error` then has no joint to write to and
leads back to unconfigured, so nothing changes. The motion state machine inside `update` is `ControlFSM`.

Two faults of the code are kept in the model: the masks that clear a method bit are
zero (`Cleared`, a finding), and a joint that mimics another exports its interfaces under a name that
`perform_command_mode_switch` never matches, so its bits are set, and it follows, only when someone asks
for the plain name, which does not exist (section 5). A mimic that the simulation does not have is skipped before it
is registered and never follows (`Follows`).

### CanDevice, HardwareBridge, RobotLink

`CanDevice` is `CanDev` with a callback: the two sockets as they may turn out, the thread's loop with
the four outcomes of a wait, a fifth (`Interrupted`: a signal ends `select` with -1, which the code takes
for a frame, so that the thread is then in a read without a time limit), and the destructor in three steps (`Stop`, `DropReceiver`, which joins,
`DropSender`). `HardwareBridge` is one joint: `Unfolded` in `read`, `Folded` in `write`, in place.
Angles are parts of a turn. `RobotLink` runs read, update, write over them. `write` folds the
command, not the position: in torque mode the error it sends is a turn off for a hip told to stay
beyond half a turn (`Sent`). The motor driver between
is a binary library known by its header: a callback that stores an angle, getters that return it and a
function that sends. Its destructor joins its own thread (`Leave`, `Release`), which need not ever end, then
destroys the data, then the devices (`Destroy`), the reverse of the order in which `canfd_api.hpp` declares
them; a frame that comes between is stored in data that is gone, and what else that write hits is not
modelled. The device is not blocking and its waits are timed, as the header's constants say.

## 3. Runs

Bounds: ramps of 0 to 3 ticks and a settle time of 3 stand for hundreds of ticks and 100. The code
compares counters only with ramp ends and their sum with the settle time, so longer ramps repeat the
same comparisons; zero-length ramps, the shortest and longer ones are all present, and the proofs
hold for all of them. `MaxIter` saturates `_state_iter` beyond every comparison. Two policies are
enough to switch between and to compute at once; a history of two samples has a head and a tail; three stays let data
outlive the stay after its own. `TeleopGoal` takes a lever position for each goal, from the middle one, a
topic of two goals, which overflows and has an oldest and a newest, and one new subscription; the
proofs hold for every depth and number. `TeleopReceiver` takes two gaits (sliding and tilting), a stick
that is centred or not and the key that toggles. `ElrsReceiver` takes reads of 30 to 60 bytes, every
way of cutting one or two frames; `Frames` holds frames that set each bit pattern apart; two statuses
are enough for one to be stale. `Keyboard` takes two goals (one of them the constructor's), one axis
that single keys and arrows both change, a limit of one step, so that one key passes it, and uninitialised
angles far below, within and far above it.
`SimulatedRobot` takes two joints for the plugin (it must drive more than one, and double them), a joint
that mimics and one that is not simulated, two other controllers that share a joint with the plugin and with each
other, two loans (handles of a former one exist) and two configurations. `RobotLink` takes a turn of
four parts and a socket that holds one frame and is full again and again; no bound limits how long the bus
works or fails. The motor is below `Fold` or at half a turn, the joint a hip or another, and the commands
are `Fold`, half a turn and the angle `read` shows instead of the one below `Fold`. `PolicyThread`
takes both orders of the thread's statements in one run.

| Run | Module, configuration | Shows |
|---|---|---|
| `fsm_safety` | `MCPolicySwitch`, `PolicySwitch.cfg` | `HandoverStood`, `LiesDownFolded`, `SetpointContinuous`, `StartsFromMeasured`; `OnlyCurrentBegins`: only the current policy begins a round; `LeftPoliciesRest`: one that was left comes to rest; over 1.7 million states |
| `fsm_modes` | `MCControlFSM`, `ControlFSM_modes.cfg` | `ImplementsModes` (refinement of `MotionModes` with its fairness), `StopReachesIdle`, `KeptGoalSettles` |
| `policy` | `PolicyThread`, `PolicyThread.cfg` | `CleanEpisode`, `AtMostOneLateAction`, `NeverInfersFromNothing`, `DrivesByFreshActions` for both policy types |
| `teleop_goal` | `MCTeleopGoal`, `TeleopGoal.cfg` | `NewestGoalKept`: the newest goal is never lost, whatever the topic drops; `LeversObeyed`: the levers' goal becomes the controller's |
| `teleop_sticks` | `MCTeleopReceiver`, `TeleopReceiver.cfg` | `SticksObeyed`, `SdkUndisturbed`, `OnePressOneToggle` |
| `elrs` | `MCElrsReceiver`, `ElrsReceiver.cfg` | `ReadsConverge`, `FramesKeepComing`: cut reads fall into step with the frames; `ChannelsAsSent`: the first fifteen channels are those sent; `StatusShown`: the radio ends up with the node's status |
| `keyboard` | `MCKeyboard`, `Keyboard.cfg` | `LimitsReceived`: a velocity beyond its limit may be received, by one step at most, an orientation never; `KeysObeyed`: goal, twist and pose asked for arrive, whatever was torn, lost or published by others |
| `simulated_robot` | `MCSimulatedRobot`, `SimulatedRobot.cfg` | `UpdateSafe`: only a parameter change makes `update` undefined; `DrivesAlone`: once the plugin has commanded, no other controller's command is in a force on its joints; `ActiveMethodsSet` |
| `robot_link` | `MCRobotLink`, `RobotLink.cfg` | `CommandsGetThrough`: failed sends are made up for; `ReceiverKeepsUp`, `StopEnds`: the thread survives, reports silence, and ends, unless a signal has sent it into the blocking read; `SameAngleSent`: a motor that takes positions is sent the angle asked for, in its own terms; `AtMostOneLateCall`: it calls the driver at most once after the device's destructor has begun |
| `fsm_torque` | `ControlFSM_torque.cfg` | violation: the torque limit is computed and dropped |
| `fsm_badnumber` | `ControlFSM_badnumber.cfg` | violation: an unrepresentable number is not reported but thrown |
| `gazebo_switch` | `MCSimulatedRobot`, `SimulatedRobot_switch.cfg` | violation: stopping one interface clears the bits of another controller's |

`ReadsConverge` depends on `VMIN` being 30: with the length of a frame, 26, a receiver out of step
would cut every frame for ever, which its mutant shows.

Fairness. `WF(Run)`: the controller manager calls `update` periodically. `WF(EndGoal)`: a callback
that has begun ends. In `PolicyThread`, `enter` runs to its end, the loop ticks while the policy is
current, and the thread is scheduled. No goal, entry or exit is ever assumed to come: liveness
properties start from "a goal is kept" or "the policy stays current". `StopReachesIdle` allows for
`aborted`, which `fsm_badnumber` shows to be reachable. In `TeleopGoal` the timer is periodic and
the lock free again and again, hence `SF(Lock)`; threads run and the goal topic is reliable. In
`TeleopReceiver` the radio sends a frame every 4 ms and not every `trylock` fails nor every sample is
lost, hence strong fairness of `Accept`, `Send` and `Arrive`. In `ElrsReceiver` the radio goes on sending,
not every frame is disturbed, and the line does not refuse the status packet every time. In `Keyboard`
both threads run and a publisher, free within far less than the timer's 10 ms, is not met busy for ever; no key
is assumed to be pressed, nor an arrow to be finished. In `PolicySwitch` an inference ends. In `RobotLink`
threads and the control loop are scheduled, the device's destructor goes on once it has begun (nothing makes the driver's thread end before
it), no signal need come, the motor reports over and over and finds room in the
socket again and again, and the interface does not refuse every message while it is up.
`SimulatedRobot` states no fairness: its properties are safety. `simulated_robot` does not check deadlock,
because the process may stop. No lever is assumed to move; frames may stop in `TeleopGoal`.

## 4. Proofs

The proof modules prove, for all values of the constants under the named assumptions
(`FSMAssumption`, `NoGoalAssumption`, `PolicyAssumption`, `TeleopGoalAssumption`,
`TeleopReceiverAssumption`, `ElrsAssumption`, `KeyboardAssumption`, `PluginAssumption`,
`BridgeAssumption`, `RobotAssumption`, `CanAssumption`, `AngleAssumption`, `LinkAssumption`). Every
invariant and every action property of a passing run is the statement of a theorem:

* `TypeCorrect`, `HandoverAlwaysStood`, `AlwaysLiesDownFolded` of `ControlFSM` from the inductive
  invariant `IInv`; `SetpointAlwaysContinuous` and `AlwaysStartsFromMeasured` with it; `ImplementsModesSafety`,
  the refinement without liveness; `AlwaysOnlyCurrentBegins` of `PolicySwitch`, for any number of policies,
  from `OthersStopped`: whoever is not current has been stopped.
* `TypeCorrect`, `AlwaysCleanEpisode`, `AlwaysAtMostOneLateAction`, `AlwaysInfersFromSamples` of
  `PolicyThread`.
* `TypeCorrect` and `NewestGoalAlwaysKept` of `TeleopGoal`, from `IInv`: `LockOK` is needed because
  the message may only change while the publisher's thread does not have its turn.
* `TypeCorrect` and `OnePressAlwaysOneToggle` of `TeleopReceiver`.
* `TypeCorrect`, `ChannelsAlwaysAsSent` and `ReadsAlwaysConverge` of `ElrsReceiver`, the last from the
  range of `rest` and lemma `VainReadShrinks`.
* `TypeCorrect` and `LimitsAlwaysReceived` of `Keyboard`. `KeyboardAssumption` makes the set of axes
  finite, as six fields of a message are: the statements of the key that stops them are a sequence.
* `TypeCorrect`, `AlwaysAtMostOneLateCall`, `AlwaysSameAngleSent` of `RobotLink`.
* `TypeCorrect`, `UpdateAlwaysSafe`, `AlwaysDrivesAlone`, `AlwaysActiveMethodsSet` of `SimulatedRobot`.

The handover property is not inductive: the exit test counts `_state_iter` over both ramps, while the
setpoint counts from `_motion_start_iter`. `UpOK` ties the two together (standing starts exactly one
tick after the fold ramp ends), and lemma `SettledMeansStood` then shows that with a settle time of
at least three ticks the setpoint has reached the end of the second ramp. `DownOK` says that the end
of lying down is noticed in the tick it comes, `ChangeOK` that a decision carried out one tick late
was one the state may take. Continuity needs a look one tick ahead: `SetpointOK` says that the setpoint
`transform_up` would command next (`UpCommand`) is at most one share of a ramp further than the last
one, and `RampStep` that a run of the state leaves its members so; the only delicate case is the tick
in which folding ends, where `UpOK` gives the start of the second ramp. In `PolicyThread`, `CleanOK` says that `enter` meets a thread parked at
its test and that what it then does is all of this stay; `LateOK` that after `exit` the thread cannot
come by another inference; `Statements` is the order of the loop body.

In `TeleopReceiver` the history variable `released` is tied to what every frame shows: while the key is held since
the last toggle, the next frame, the accepted one and `last_key` all have it (`HeldOK`), so that skipped
frames cannot make one press look like two.

In `ElrsReceiver` the theorem about the channels is arithmetic. A packed byte is a slice of one channel
or the end of one and the beginning of the next (`ByteIsSlice`, `SliceIs`, `BytesOfFrame`), written
with quotients and remainders by powers of two; a channel is two or three such pieces, shifted and
masked, which `Rejoined` puts together again (`UnpackIs`, `ChannelUnpacked`). This covers all 2048
values of every channel, where the run has a sample of frames.

In `Keyboard` a limit is exceeded between two statements of the key thread. `TodoOK` says that
whatever leaves the limits is followed directly by the statement that applies them (`Followed`), also
what an arrow key puts in front, and that the pose is assigned only behind it (`Limited`); `FieldsOK`
that only where this statement comes next may a velocity be beyond them, and that the angle is within them
where the pose comes next (`AngleOK`), whatever it held at first. The type alone is not inductive: a second
step would pass its bound.

In `RobotLink` the type and `AtMostOneLateCall` are inductive together: `LateOK` says that a thread that
has called the driver late finds the flags cleared at its next test. `SameAngleSent` needs `AskedOK`: the
command in the interface is the angle asked for or that angle folded, and lemma `FoldedOnce` says that,
for an angle the joint can be shown at, folding again changes nothing and `Unfolded` gives the same angle.

In `SimulatedRobot` `UpdateSafe` rests on an argument about names: after a second configuration each
interface is requested twice (`RequestedTwice`), so the claims fail and the plugin never becomes active with
doubled joints; after a failed activation the claims are kept, and `ActiveOK` says what a successful one
leaves. `DrivenOK` carries that nobody else writes the plugin's commands while it holds them.
`ActiveMethodsSet` needs that an exclusive claim keeps every later stop from touching the plugin's joints.
The type is inductive once the number of joint objects is known to be a multiple of the number of
names (`ObjectTypes`): a bound alone would let one more configuration pass it.

Liveness (`StopReachesIdle`, `KeptGoalSettles`, `LeftPoliciesRest`, `DrivesByFreshActions`, `LeversObeyed`, `SticksObeyed`,
`SdkUndisturbed`, `FramesKeepComing`, `StatusShown`, `KeysObeyed`, `StopEnds`, `CommandsGetThrough`,
`ReceiverKeepsUp`, the fairness of the refinement) is out of the prover's reach and model-checked only.

## 5. Findings

`fsm_torque`, `fsm_badnumber` and `gazebo_switch` each refute what a comment or message of the code says.
One more disagreement has no run, since it is read off a single definition (`ExportedName`): the comment at
`gazebo_bridge.cpp:557` says "set values of all mimic joints with respect to mimicked joint", but a mimic's
interfaces are exported as `<joint>_mimic/...` (line 206) while the mode switch looks for `<joint>/...`, so
that its bits are never set when they start and `write` skips it. Other behaviour that the models show and no document contradicts is in the list of hazards
of `PROJECT.json`:

* a robot on its back is not moved by any case of `transform_up`; an empty ramp gives a setpoint of 0/0;
* a parameter change at run time moves the parameters under the policies' pointers; `on_cleanup` and
  `on_shutdown` write through handles that were never set or given back;
* a policy's inference runs on to the end of its round beside the next policy's;
* in torque mode `write` of the hardware bridge folds the command of a hip but not the position it
  subtracts (lines 195 to 203): told to stay beyond half a turn, the joint gets the torque of a whole turn of
  error; a command more than a turn and a half out is folded by one turn in every cycle;
* a signal during `select` sends the receiving thread into a read without a time limit;
* the driver's data is declared after the CAN devices, so it is destroyed while their threads still run;
  before that its destructor joins `timer_thread_`, which nothing in the header stops.

## 6. Not modelled

* Inference back ends, rotation algebra: numeric data, no protocol.
* The obstacle cloud node: callback and timer share one executor thread, and nothing of the robot
  depends on its points.
* Sensors and `read` of the Gazebo bridge, IMU, velocities and gains of the hardware bridge: copies.
* `receive_can_message_block` and blocking devices: the driver creates its devices with a callback and not
  blocking. The driver itself is a binary; `canfd_api.hpp` only declares it.
* What a late call of the driver's callback does to memory that has been given back; uninitialised angles of
  the keyboard node that are NaN.
* The radio's own command packets: only logged. The end of the receiver's and the policies' threads:
  they live as long as the process.
* Launch files, descriptions, topic names: no state.

## 7. Plan

1. Proofs: the safety half of the liveness properties, what has been reached is kept (the goal of a
   lever that stays, the goal of the last key); that `MotionModes` has the promises stated of it.
2. Composition of `TeleopGoal` with `MotionModes`: a lever moved to "down" brings the robot to idle.
