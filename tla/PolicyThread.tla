----------------------------- MODULE PolicyThread -----------------------------
(***************************************************************************)
(* One learned policy (FSMState_RL and FSMState_RLPPO) and its two         *)
(* threads: the control loop, which enters, runs and exits the state, and  *)
(* forward_thread, created by the first enter() and never ended, which     *)
(* observes, infers and publishes actions while stop_update_ is false.     *)
(* Nothing is locked between them: a step is one statement, the loop that  *)
(* fills the history takes a step for each sample, and joint commands may  *)
(* be computed from an action that is half written.                        *)
(*                                                                         *)
(* Data abstracted: an observation is the number of the stay (episode) its *)
(* sensor readings were taken in; a history is the sequence of its samples *)
(* and an action the set of episodes of the samples it was inferred from.  *)
(* The constructor leaves 0 and None.                                      *)
(***************************************************************************)
EXTENDS Integers, Sequences

CONSTANTS
  HistoryLen,   \* history_len
  MaxEpisode    \* bound: how often the state is entered

ASSUME PolicyAssumption ==
  /\ HistoryLen \in Nat \ {0}
  /\ MaxEpisode \in Nat \ {0}

VARIABLES
  kind,      \* "np3o" (FSMState_RL) or "ppo" (FSMState_RLPPO), as configured
  rt,        \* where the control loop is: outside, in a statement of enter, inside
  filled,    \* samples of the history that enter() has written
  episode,   \* how often enter() has begun
  started,   \* forward_thread exists: ~ thread_first_
  stop,      \* stop_update_
  obs,       \* obs_vec_
  hist,      \* obs_history_vec_
  last,      \* obs_.last_actions
  action,    \* action_vec_
  driven,    \* the action in the joint commands of the last run()
  pc,        \* statement of update_forward the thread is at; "test" is the loop's
  seen,      \* what update_observations has read and not yet stored
  batch,     \* input_datas
  (* what has happened, for the properties *)
  inflight,  \* the thread was inside its loop body when enter() began
  writes     \* actions published since enter() began or exit(), counted to 2

stay == <<kind, episode>>
shared == <<started, stop, obs, hist, last, action>>
thread == <<pc, seen, batch>>
vars == <<rt, filled, stay, shared, driven, thread, inflight, writes>>

None == {}
Episode == 0 .. MaxEpisode

(* The statements of the loop body, each with the one after it, in the     *)
(* order of each policy type.  The observation is computed from the state  *)
(* before it is stored.                                                    *)
After ==
  IF kind = "ppo"
  THEN [observe |-> "store", store |-> "shift", shift |-> "append", append |-> "collect",
        collect |-> "infer", infer |-> "remember", remember |-> "test"]
  ELSE [observe |-> "store", store |-> "take", take |-> "collect", collect |-> "infer",
        infer |-> "remember", remember |-> "shift", shift |-> "append", append |-> "test"]

At(stmt) == pc = stmt
Advance == pc' = After[pc]

Init ==
  /\ kind \in {"np3o", "ppo"}
  /\ rt = "out" /\ filled = 0 /\ episode = 0
  /\ started = FALSE /\ stop = FALSE
  /\ obs = 0 /\ last = None /\ hist = [i \in 1 .. HistoryLen |-> 0]
  /\ action = None /\ driven = None
  /\ pc = "test" /\ seen = 0 /\ batch = None
  /\ inflight = FALSE /\ writes = 0
-----------------------------------------------------------------------------
(* The control loop *)

Goto(from, to) == rt = from /\ rt' = to

(* enter(): obs_.reset(), ...                                              *)
Reset ==
  /\ Goto("out", "reset") /\ episode < MaxEpisode
  /\ episode' = episode + 1 /\ filled' = 0
  /\ last' = None
  /\ inflight' = ~ At("test") /\ writes' = 0
  /\ UNCHANGED <<kind, started, stop, obs, hist, action, driven, thread>>

(* ... update_observations(), ...                                          *)
Observe ==
  /\ Goto("reset", "observed")
  /\ obs' = episode
  /\ UNCHANGED <<filled, stay, started, stop, hist, last, action, driven, thread,
                 inflight, writes>>

FillHistory_Skip(i) == UNCHANGED hist
FillHistory(i) == hist' = [hist EXCEPT ![i] = obs]

(* ... the history filled with that observation, sample by sample, ...     *)
Fill ==
  /\ rt = "observed"
  /\ FillHistory(filled + 1)
  /\ filled' = filled + 1
  /\ rt' = IF filled + 1 = HistoryLen THEN "filled" ELSE rt
  /\ UNCHANGED <<stay, started, stop, obs, last, action, driven, thread,
                 inflight, writes>>

(* ... the thread created if this is the first time, ...                   *)
Start ==
  /\ Goto("filled", "started")
  /\ started' = TRUE
  /\ UNCHANGED <<filled, stay, stop, obs, hist, last, action, driven, thread,
                 inflight, writes>>

AllowUpdates_No == UNCHANGED stop
AllowUpdates == stop' = FALSE

(* ... and stop_update_ cleared.                                           *)
Allow ==
  /\ Goto("started", "in")
  /\ AllowUpdates
  /\ UNCHANGED <<filled, stay, started, obs, hist, last, action, driven, thread,
                 inflight, writes>>

(* run(): the joint commands are computed from action_vec_, which the      *)
(* thread may be in the middle of writing.                                 *)
ReadAction == IF At("infer") THEN {action, batch, action \cup batch} ELSE {action}

Drive ==
  /\ rt = "in"
  /\ driven' \in ReadAction
  /\ UNCHANGED <<rt, filled, stay, shared, thread, inflight, writes>>

StopUpdates_No == UNCHANGED stop
StopUpdates == stop' = TRUE

Exit ==
  /\ Goto("in", "out")
  /\ StopUpdates
  /\ writes' = 0
  /\ UNCHANGED <<filled, stay, started, obs, hist, last, action, driven, thread, inflight>>

Enter == Observe \/ Fill \/ Start \/ Allow
-----------------------------------------------------------------------------
(* forward_thread *)

(* The test of the loop body; absoluteWait precedes the next test.         *)
Test ==
  /\ started /\ At("test")
  /\ pc' = IF stop THEN "test" ELSE "observe"
  /\ UNCHANGED <<rt, filled, stay, shared, driven, seen, batch, inflight, writes>>

(* update_observations reads the state of the robot and of obs_, ...       *)
ReadState ==
  /\ At("observe") /\ Advance
  /\ seen' = episode
  /\ UNCHANGED <<rt, filled, stay, shared, driven, batch, inflight, writes>>

(* ... and writes obs_vec_ when it has computed it.                        *)
StoreObservation ==
  /\ At("store") /\ Advance
  /\ obs' = seen
  /\ UNCHANGED <<rt, filled, stay, started, stop, hist, last, action, driven, seen, batch,
                 inflight, writes>>

(* The inputs of the network: the observation, for np3o alone, ...         *)
TakeObservation ==
  /\ At("take") /\ Advance
  /\ batch' = {obs}
  /\ UNCHANGED <<rt, filled, stay, shared, driven, seen, inflight, writes>>

Samples == {hist[i] : i \in DOMAIN hist}

(* ... and the history.                                                    *)
Collect ==
  /\ At("collect") /\ Advance
  /\ batch' = Samples \cup (IF kind = "ppo" THEN {} ELSE batch)
  /\ UNCHANGED <<rt, filled, stay, shared, driven, seen, inflight, writes>>

(* computeActions, and the action published.                               *)
Infer ==
  /\ At("infer") /\ Advance
  /\ action' = batch
  /\ writes' = IF writes < 2 THEN writes + 1 ELSE writes
  /\ UNCHANGED <<rt, filled, stay, started, stop, obs, hist, last, driven, seen, batch,
                 inflight>>

(* obs_.last_actions takes the action just published.                      *)
Remember ==
  /\ At("remember") /\ Advance
  /\ last' = action
  /\ UNCHANGED <<rt, filled, stay, started, stop, obs, hist, action, driven, seen, batch,
                 inflight, writes>>

(* The head of the history takes its tail, ...                             *)
Shift ==
  /\ At("shift") /\ Advance
  /\ hist' = [i \in 1 .. HistoryLen |-> IF i < HistoryLen THEN hist[i + 1] ELSE hist[i]]
  /\ UNCHANGED <<rt, filled, stay, started, stop, obs, last, action, driven, seen, batch,
                 inflight, writes>>

WithSample_Grow == Append(hist, obs)
WithSample == [hist EXCEPT ![HistoryLen] = obs]

(* ... and the last place the observation.                                 *)
AppendObservation ==
  /\ At("append") /\ Advance
  /\ hist' = WithSample
  /\ UNCHANGED <<rt, filled, stay, started, stop, obs, last, action, driven, seen, batch,
                 inflight, writes>>

Forward ==
  Test \/ ReadState \/ StoreObservation \/ TakeObservation \/ Collect \/ Infer
       \/ Remember \/ Shift \/ AppendObservation
-----------------------------------------------------------------------------
Next == Reset \/ Enter \/ Drive \/ Exit \/ Forward

(* enter() runs to its end, the loop ticks while the state is current, and *)
(* the thread is scheduled.  Nothing makes the robot enter or exit.        *)
Spec ==
  /\ Init /\ [][Next]_vars
  /\ WF_vars(Enter) /\ WF_vars(Drive) /\ WF_vars(Forward)
-----------------------------------------------------------------------------
(* Properties *)

TypeOK ==
  /\ kind \in {"np3o", "ppo"}
  /\ rt \in {"out", "reset", "observed", "filled", "started", "in"}
  /\ filled \in 0 .. HistoryLen /\ (rt = "observed" => filled < HistoryLen)
  /\ (rt = "reset" => filled = 0) /\ (rt = "filled" => filled = HistoryLen)
  /\ episode \in Episode /\ obs \in Episode /\ seen \in Episode
  /\ started \in BOOLEAN /\ stop \in BOOLEAN /\ inflight \in BOOLEAN
  /\ hist \in [1 .. HistoryLen -> Episode]
  /\ {last, action, driven, batch} \subseteq SUBSET Episode
  /\ pc \in {"test"} \cup DOMAIN After /\ writes \in 0 .. 2

(* When no inference was under way as the state was entered, everything    *)
(* the policy sees and publishes in this stay comes from this stay: the    *)
(* history, the inputs of each inference, the last action and the action.  *)
(* The order of the statements of enter(), with stop_update_ cleared last, *)
(* is all that ensures it.                                                 *)
CleanEpisode ==
  rt = "in" /\ ~ inflight =>
    /\ Samples = {episode} /\ obs = episode
    /\ last \in {None, {episode}}
    /\ writes > 0 => action = {episode}

(* After exit() the thread publishes at most the one action it was working *)
(* on: it never begins another round while another state has the joints.   *)
AtMostOneLateAction == rt = "out" => writes <= 1

(* The network never sees the zeros the constructor left in the history.   *)
NeverInfersFromNothing == 0 \notin batch /\ 0 \notin action

(* The strengthening that makes the three invariants above inductive.      *)
(* ThreadOK: the thread runs only once created, and is stopped whenever    *)
(* the state is left.  SampledOK: nothing the constructor left is read.    *)
(* LateOK: after exit() the thread can no longer reach another inference.  *)
(* CleanOK: enter() meets a thread that stays at its test, and everything  *)
(* from the first observation on is of this stay.                          *)
ThreadOK ==
  /\ ~ At("test") \/ rt \in {"started", "in"} => started
  /\ rt = "out" => stop \/ ~ started

SampledOK ==
  /\ started \/ rt # "out" => episode > 0
  /\ started \/ rt \in {"observed", "filled"} => obs > 0
  /\ started => \A i \in DOMAIN hist : hist[i] > 0
  /\ rt \in {"observed", "filled"} => \A i \in 1 .. filled : hist[i] > 0
  /\ pc \notin {"test", "observe"} => seen > 0
  /\ NeverInfersFromNothing

LateOK ==
  rt = "out" =>
    \/ writes = 0
    \/ /\ writes = 1
       /\ pc \in {"test", "remember"} \/ (kind = "np3o" /\ pc \in {"shift", "append"})

CleanOK ==
  ~ inflight =>
    /\ rt \in {"reset", "observed", "filled"} =>
         At("test") /\ (stop \/ ~ started) /\ writes = 0 /\ last = None
    /\ rt \in {"observed", "filled"} =>
         obs = episode /\ \A i \in 1 .. filled : hist[i] = episode
    /\ rt \in {"started", "in"} =>
         /\ obs = episode /\ \A i \in DOMAIN hist : hist[i] = episode
         /\ last \in {None, {episode}}
         /\ pc \notin {"test", "observe"} => seen = episode
         /\ At("infer") \/ (kind = "np3o" /\ At("collect")) => batch = {episode}
         /\ At("remember") \/ writes > 0 => action = {episode}

IInv == TypeOK /\ ThreadOK /\ SampledOK /\ LateOK /\ CleanOK

(* A policy that stays the current state comes to drive the joints by      *)
(* actions of this stay alone, however the stay began: the action of the   *)
(* stay before, which the first ticks still use, and the samples an        *)
(* inference in flight left behind, are flushed.                           *)
DrivesByFreshActions ==
  \A e \in 1 .. MaxEpisode :
    rt = "in" /\ episode = e ~> driven = {e} \/ rt = "out"
=============================================================================
