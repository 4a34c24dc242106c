-------------------------- MODULE PolicyThread_proofs --------------------------
(***************************************************************************)
(* Proofs about PolicyThread, for every length of the history and every    *)
(* number of stays, and for both orders of the thread's statements.        *)
(***************************************************************************)
EXTENDS PolicyThread, TLAPS

(* After each statement of the loop body comes the one the code has there. *)
LEMMA Statements ==
  ASSUME kind \in {"np3o", "ppo"}, pc \in {"test"} \cup DOMAIN After, pc # "test", Advance
  PROVE  /\ pc' \in {"test"} \cup DOMAIN After /\ pc' # "observe"
         /\ pc' = "store" <=> pc = "observe"
         /\ pc' = "remember" <=> pc = "infer"
         /\ pc' = "infer" <=> pc = "collect"
         /\ pc' = "test" <=> pc = IF kind = "ppo" THEN "remember" ELSE "append"
         /\ kind = "np3o" =>
              /\ pc' = "collect" <=> pc = "take"
              /\ pc = "remember" => pc' = "shift"
              /\ pc = "shift" => pc' = "append"
              /\ pc \in {"observe", "store", "take", "collect", "infer", "remember", "shift",
                         "append"}
<1>1. CASE kind = "ppo"
  BY <1>1 DEF After, Advance
<1>2. CASE kind = "np3o"
  BY <1>2 DEF After, Advance
<1> QED
  BY <1>1, <1>2

(* The type of the policy, and with it the order of statements, stays.     *)
LEMMA SameOrder == kind' = kind => After' = After
BY DEF After

(* The initial state.                                                      *)
LEMMA InitOK == Init => IInv
<1> SUFFICES ASSUME Init PROVE IInv
  OBVIOUS
<1>1. \A i \in DOMAIN hist : hist[i] = 0
  BY DEF Init
<1>2. TypeOK
  <2>1. /\ 0 \in Episode /\ hist \in [1 .. HistoryLen -> Episode]
    BY PolicyAssumption DEF Init, Episode
  <2>2. filled \in 0 .. HistoryLen
    BY PolicyAssumption DEF Init
  <2>3. {last, action, driven, batch} \subseteq SUBSET Episode
    BY DEF Init, None
  <2>4. pc \in {"test"} \cup DOMAIN After
    BY DEF Init
  <2>5. /\ rt = "out" /\ filled = 0 /\ episode = 0 /\ obs = 0 /\ seen = 0 /\ writes = 0
        /\ started = FALSE /\ stop = FALSE /\ inflight = FALSE
        /\ kind \in {"np3o", "ppo"}
    BY DEF Init
  <2> QED
    <3>1. started \in BOOLEAN /\ stop \in BOOLEAN /\ inflight \in BOOLEAN
      BY <2>5
    <3>2. writes \in 0 .. 2
      BY <2>5
    <3>3. episode \in Episode /\ obs \in Episode /\ seen \in Episode
      BY <2>1, <2>5
    <3>4. /\ rt \in {"out", "reset", "observed", "filled", "started", "in"}
          /\ rt \notin {"reset", "observed", "filled"}
      BY <2>5
    <3> QED
      BY <2>1, <2>2, <2>3, <2>4, <2>5, <3>1, <3>2, <3>3, <3>4, Zenon DEF TypeOK
<1>3. SampledOK
  BY DEF Init, SampledOK, NeverInfersFromNothing, None
<1> QED
  BY <1>2, <1>3 DEF Init, IInv, ThreadOK, LateOK, CleanOK, At

(* Every statement of either thread keeps the inductive invariant.         *)
LEMMA StepOK == IInv /\ [Next]_vars => IInv'
<1> SUFFICES ASSUME IInv, [Next]_vars PROVE IInv'
  OBVIOUS
<1> USE PolicyAssumption, SameOrder DEF IInv, Episode, None, At, Goto, stay, shared, thread
<1>1. CASE Reset
  <2>1. TypeOK'
    BY <1>1 DEF Reset, TypeOK
  <2>2. ThreadOK' /\ LateOK'
    BY <1>1 DEF Reset, TypeOK, ThreadOK, LateOK
  <2>3. SampledOK'
    BY <1>1 DEF Reset, TypeOK, ThreadOK, SampledOK, NeverInfersFromNothing
  <2>4. CleanOK'
    BY <1>1 DEF Reset, TypeOK, ThreadOK, CleanOK
  <2> QED
    BY <2>1, <2>2, <2>3, <2>4
<1>2. CASE Observe
  <2>1. TypeOK'
    BY <1>2 DEF Observe, TypeOK
  <2>2. ThreadOK' /\ LateOK'
    BY <1>2 DEF Observe, TypeOK, ThreadOK, LateOK
  <2>3. SampledOK'
    BY <1>2 DEF Observe, TypeOK, ThreadOK, SampledOK, NeverInfersFromNothing
  <2>4. CleanOK'
    BY <1>2 DEF Observe, TypeOK, ThreadOK, CleanOK
  <2> QED
    BY <2>1, <2>2, <2>3, <2>4
<1>3. CASE Fill
  <2>1. TypeOK'
    BY <1>3 DEF Fill, FillHistory, TypeOK
  <2>2. ThreadOK' /\ LateOK'
    BY <1>3 DEF Fill, TypeOK, ThreadOK, LateOK
  <2>3. SampledOK'
    BY <1>3 DEF Fill, FillHistory, TypeOK, ThreadOK, SampledOK, NeverInfersFromNothing
  <2>4. CleanOK'
    BY <1>3 DEF Fill, FillHistory, TypeOK, ThreadOK, CleanOK
  <2> QED
    BY <2>1, <2>2, <2>3, <2>4
<1>4. CASE Start
  <2>1. TypeOK'
    BY <1>4 DEF Start, TypeOK
  <2>2. ThreadOK' /\ LateOK'
    BY <1>4 DEF Start, TypeOK, ThreadOK, LateOK
  <2>3. SampledOK'
    BY <1>4 DEF Start, TypeOK, ThreadOK, SampledOK, NeverInfersFromNothing
  <2>4. CleanOK'
    BY <1>4 DEF Start, TypeOK, ThreadOK, CleanOK
  <2> QED
    BY <2>1, <2>2, <2>3, <2>4
<1>5. CASE Allow
  <2>1. TypeOK'
    BY <1>5 DEF Allow, AllowUpdates, TypeOK
  <2>2. ThreadOK' /\ LateOK'
    BY <1>5 DEF Allow, TypeOK, ThreadOK, LateOK
  <2>3. SampledOK'
    BY <1>5 DEF Allow, AllowUpdates, TypeOK, ThreadOK, SampledOK, NeverInfersFromNothing
  <2>4. CleanOK'
    BY <1>5 DEF Allow, AllowUpdates, TypeOK, ThreadOK, CleanOK
  <2> QED
    BY <2>1, <2>2, <2>3, <2>4
<1>6. CASE Drive
  <2>1. TypeOK'
    BY <1>6 DEF Drive, ReadAction, TypeOK
  <2>2. ThreadOK' /\ LateOK'
    BY <1>6 DEF Drive, TypeOK, ThreadOK, LateOK
  <2>3. SampledOK'
    BY <1>6 DEF Drive, ReadAction, TypeOK, ThreadOK, SampledOK, NeverInfersFromNothing
  <2>4. CleanOK'
    BY <1>6 DEF Drive, ReadAction, TypeOK, ThreadOK, CleanOK
  <2> QED
    BY <2>1, <2>2, <2>3, <2>4
<1>7. CASE Exit
  <2>1. TypeOK'
    BY <1>7 DEF Exit, StopUpdates, TypeOK
  <2>2. ThreadOK' /\ LateOK'
    BY <1>7 DEF Exit, StopUpdates, TypeOK, ThreadOK, LateOK
  <2>3. SampledOK'
    BY <1>7 DEF Exit, StopUpdates, TypeOK, ThreadOK, SampledOK, NeverInfersFromNothing
  <2>4. CleanOK'
    BY <1>7 DEF Exit, StopUpdates, TypeOK, ThreadOK, CleanOK
  <2> QED
    BY <2>1, <2>2, <2>3, <2>4
<1>8. CASE Test
  <2>1. TypeOK'
    BY <1>8 DEF Test, TypeOK, After
  <2>2. ThreadOK' /\ LateOK'
    BY <1>8 DEF Test, TypeOK, ThreadOK, LateOK
  <2>3. SampledOK'
    BY <1>8 DEF Test, TypeOK, ThreadOK, SampledOK, NeverInfersFromNothing
  <2>4. CleanOK'
    BY <1>8 DEF Test, TypeOK, ThreadOK, CleanOK
  <2> QED
    BY <2>1, <2>2, <2>3, <2>4
<1>9. CASE ReadState
  <2>1. TypeOK'
    BY <1>9, Statements DEF ReadState, TypeOK
  <2>2. ThreadOK' /\ LateOK'
    BY <1>9, Statements DEF ReadState, TypeOK, ThreadOK, LateOK
  <2>3. SampledOK'
    BY <1>9, Statements DEF ReadState, TypeOK, ThreadOK, SampledOK,
       NeverInfersFromNothing
  <2>4. CleanOK'
    BY <1>9, Statements DEF ReadState, TypeOK, ThreadOK, CleanOK
  <2> QED
    BY <2>1, <2>2, <2>3, <2>4
<1>10. CASE StoreObservation
  <2>1. TypeOK'
    BY <1>10, Statements DEF StoreObservation, TypeOK
  <2>2. ThreadOK' /\ LateOK'
    BY <1>10, Statements DEF StoreObservation, TypeOK, ThreadOK, LateOK
  <2>3. SampledOK'
    BY <1>10, Statements DEF StoreObservation, TypeOK, ThreadOK, SampledOK,
       NeverInfersFromNothing
  <2>4. CleanOK'
    BY <1>10, Statements DEF StoreObservation, TypeOK, ThreadOK, CleanOK
  <2> QED
    BY <2>1, <2>2, <2>3, <2>4
<1>11. CASE TakeObservation
  <2>1. TypeOK'
    BY <1>11, Statements DEF TakeObservation, TypeOK
  <2>2. ThreadOK' /\ LateOK'
    BY <1>11, Statements DEF TakeObservation, TypeOK, ThreadOK, LateOK
  <2>3. SampledOK'
    BY <1>11, Statements DEF TakeObservation, TypeOK, ThreadOK, SampledOK,
       NeverInfersFromNothing
  <2>4. CleanOK'
    BY <1>11, Statements DEF TakeObservation, TypeOK, ThreadOK, CleanOK
  <2> QED
    BY <2>1, <2>2, <2>3, <2>4
<1>12. CASE Collect
  <2>1. TypeOK'
    BY <1>12, Statements DEF Collect, Samples, TypeOK
  <2>2. ThreadOK' /\ LateOK'
    BY <1>12, Statements DEF Collect, TypeOK, ThreadOK, LateOK
  <2>3. SampledOK'
    BY <1>12, Statements DEF Collect, Samples, TypeOK, ThreadOK, SampledOK,
       NeverInfersFromNothing
  <2>4. CleanOK'
    BY <1>12, Statements DEF Collect, Samples, TypeOK, ThreadOK, CleanOK
  <2> QED
    BY <2>1, <2>2, <2>3, <2>4
<1>13. CASE Infer
  <2>1. TypeOK'
    BY <1>13, Statements DEF Infer, TypeOK
  <2>2. ThreadOK' /\ LateOK'
    BY <1>13, Statements DEF Infer, TypeOK, ThreadOK, LateOK
  <2>3. SampledOK'
    BY <1>13, Statements DEF Infer, TypeOK, ThreadOK, SampledOK, NeverInfersFromNothing
  <2>4. CleanOK'
    BY <1>13, Statements DEF Infer, TypeOK, ThreadOK, CleanOK
  <2> QED
    BY <2>1, <2>2, <2>3, <2>4
<1>14. CASE Remember
  <2>1. TypeOK'
    BY <1>14, Statements DEF Remember, TypeOK
  <2>2. ThreadOK' /\ LateOK'
    BY <1>14, Statements DEF Remember, TypeOK, ThreadOK, LateOK
  <2>3. SampledOK'
    BY <1>14, Statements DEF Remember, TypeOK, ThreadOK, SampledOK,
       NeverInfersFromNothing
  <2>4. CleanOK'
    BY <1>14, Statements DEF Remember, TypeOK, ThreadOK, CleanOK
  <2> QED
    BY <2>1, <2>2, <2>3, <2>4
<1>15. CASE Shift
  <2>1. TypeOK'
    BY <1>15, Statements DEF Shift, TypeOK
  <2>2. ThreadOK' /\ LateOK'
    BY <1>15, Statements DEF Shift, TypeOK, ThreadOK, LateOK
  <2>3. SampledOK'
    BY <1>15, Statements DEF Shift, TypeOK, ThreadOK, SampledOK, NeverInfersFromNothing
  <2>4. CleanOK'
    BY <1>15, Statements DEF Shift, TypeOK, ThreadOK, CleanOK
  <2> QED
    BY <2>1, <2>2, <2>3, <2>4
<1>16. CASE AppendObservation
  <2>1. TypeOK'
    BY <1>16, Statements DEF AppendObservation, WithSample, TypeOK
  <2>2. ThreadOK' /\ LateOK'
    BY <1>16, Statements DEF AppendObservation, TypeOK, ThreadOK, LateOK
  <2>3. SampledOK'
    BY <1>16, Statements DEF AppendObservation, WithSample, TypeOK, ThreadOK,
       SampledOK, NeverInfersFromNothing
  <2>4. CleanOK'
    BY <1>16, Statements DEF AppendObservation, WithSample, TypeOK, ThreadOK, CleanOK
  <2> QED
    BY <2>1, <2>2, <2>3, <2>4
<1>17. CASE UNCHANGED vars
  BY <1>17 DEF vars, TypeOK, ThreadOK, SampledOK, LateOK, CleanOK,
     NeverInfersFromNothing
<1> QED
  BY <1>1, <1>2, <1>3, <1>4, <1>5, <1>6, <1>7, <1>8, <1>9, <1>10, <1>11, <1>12, <1>13,
     <1>14, <1>15, <1>16, <1>17 DEF Next, Enter, Forward

LEMMA InductiveInvariant == Spec => []IInv
<1>1. Init => IInv
  BY InitOK
<1>2. IInv /\ [Next]_vars => IInv'
  BY StepOK
<1> QED
  BY <1>1, <1>2, PTL DEF Spec

(* Every variable keeps its type.                                          *)
THEOREM TypeCorrect == Spec => []TypeOK
<1>1. IInv => TypeOK
  BY DEF IInv
<1> QED
  BY <1>1, InductiveInvariant, PTL

(* A stay that began with the thread at rest uses nothing of an earlier    *)
(* stay, whatever the length of the history and the order of statements.   *)
THEOREM AlwaysCleanEpisode == Spec => []CleanEpisode
<1>1. IInv => CleanEpisode
  <2> SUFFICES ASSUME IInv, rt = "in", ~ inflight PROVE CleanEpisode
    BY DEF CleanEpisode
  <2>1. \A i \in DOMAIN hist : hist[i] = episode
    BY DEF IInv, CleanOK
  <2>2. hist[1] = episode /\ 1 \in DOMAIN hist
    BY <2>1, PolicyAssumption DEF IInv, TypeOK
  <2>3. Samples = {episode}
    BY <2>1, <2>2 DEF Samples
  <2> QED
    BY <2>3 DEF IInv, CleanOK, CleanEpisode
<1> QED
  BY <1>1, InductiveInvariant, PTL

(* exit() lets at most one more action be published before the next        *)
(* enter(), wherever in its loop the thread is.                            *)
THEOREM AlwaysAtMostOneLateAction == Spec => []AtMostOneLateAction
<1>1. IInv => AtMostOneLateAction
  BY DEF IInv, LateOK, AtMostOneLateAction
<1> QED
  BY <1>1, InductiveInvariant, PTL

(* No inference reads a sample that was never taken.                       *)
THEOREM AlwaysInfersFromSamples == Spec => []NeverInfersFromNothing
<1>1. IInv => NeverInfersFromNothing
  BY DEF IInv, SampledOK
<1> QED
  BY <1>1, InductiveInvariant, PTL
=============================================================================
