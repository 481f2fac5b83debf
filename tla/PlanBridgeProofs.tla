-------------------------- MODULE PlanBridgeProofs --------------------------
(***************************************************************************)
(* Proofs that a market-maker run, over any sequence of plans of any       *)
(* lengths, posts at most one order and claims what is true of it.         *)
(***************************************************************************)
EXTENDS PlanBridge, TLAPS, FiniteSetTheorems

USE DEF vars, hostVars, threadVars

\* Every variable of the run keeps its type, over any plans (composition.py, orchestration.py).
THEOREM BridgeTypeCorrect == Spec => []BridgeTypeOK
<1>1. Len(Plans) \in Nat /\ \A n \in 1..Len(Plans) : Len(Plans[n]) \in Nat
  BY PlanAssumption
<1>2. Init => BridgeTypeOK
  <2> SUFFICES ASSUME Init PROVE BridgeTypeOK
    OBVIOUS
  <2>1. k \in 1..(Len(Plans) + 1)
    BY <1>1 DEF Init
  <2>2. dropped \in BOOLEAN /\ closing \in BOOLEAN /\ stop \in BOOLEAN
    BY DEF Init
  <2>3. sink = {} /\ posted = {} /\ lateLegs \in Nat /\ i \in Nat
    BY DEF Init
  <2> QED BY <2>1, <2>2, <2>3 DEF Init, BridgeTypeOK
<1>3. BridgeTypeOK /\ [Next]_vars => BridgeTypeOK'
  <2> SUFFICES ASSUME BridgeTypeOK, [Next]_vars PROVE BridgeTypeOK'
    OBVIOUS
  <2> USE DEF BridgeTypeOK, Escapes, Results
  <2>1. CASE ThreadStart
    BY <2>1 DEF ThreadStart
  <2>2. CASE NextLeg
    BY <2>2 DEF NextLeg, ThreadEnds
  <2>3. CASE CheckStop
    BY <2>3 DEF CheckStop, ThreadEnds
  <2>4. CASE SubmitLeg
    <3>1. lateLegs' = lateLegs \/ lateLegs' = lateLegs + 1
      BY <2>4 DEF SubmitLeg
    <3>2. lateLegs' \in Nat
      BY <3>1
    <3>3. dropped' \in BOOLEAN
      BY <2>4 DEF SubmitLeg
    <3> QED BY <2>4, <3>2, <3>3 DEF SubmitLeg, ThreadEnds
  <2>5. CASE LegAnswered
    BY <2>5 DEF LegAnswered, ThreadEnds
  <2>6. CASE LegTimeout
    BY <2>6 DEF LegTimeout, ThreadEnds
  <2>7. CASE CoroStart
    BY <2>7 DEF CoroStart
  <2>8. CASE CoroPost
    <3>1. <<k, i>> \in Nat \X Nat
      BY <1>1
    <3> QED BY <2>8, <3>1 DEF CoroPost
  <2>9. CASE CoroEnd
    BY <2>9 DEF CoroEnd
  <2>10. CASE CoroCancelled
    BY <2>10 DEF CoroCancelled
  <2>11. CASE TaskEnds
    BY <2>11 DEF TaskEnds
  <2>12. CASE TaskCancelled
    BY <2>12 DEF TaskCancelled
  <2>13. CASE HostDecides
    BY <1>1, <2>13 DEF HostDecides, HostOver
  <2>14. CASE HostReturns
    <3>1. end \in Escapes => FreezeRecord(end) \in [reason : Escapes, live : BOOLEAN]
      BY DEF FreezeRecord
    <3>2. sink' \in SUBSET [reason : Escapes, live : BOOLEAN]
      BY <2>14, <3>1 DEF HostReturns
    <3>3. terminal' \in {"none", "completed", "stopped", "frozen", "cancelled"}
      BY <2>14 DEF HostReturns, HostOver
    <3> QED BY <1>1, <2>14, <3>2, <3>3 DEF HostReturns, HostOver
  <2>15. CASE HostCancelled
    BY <2>15 DEF HostCancelled
  <2>16. CASE HostDrained
    <3>1. end \in Escapes => FreezeRecord(end) \in [reason : Escapes, live : BOOLEAN]
      BY DEF FreezeRecord
    <3>2. sink' \in SUBSET [reason : Escapes, live : BOOLEAN]
      BY <2>16, <3>1 DEF HostDrained
    <3> QED BY <2>16, <3>2 DEF HostDrained, HostOver
  <2>17. CASE Kill \/ LoopCloses
    BY <2>17 DEF Kill, LoopCloses
  <2>18. CASE UNCHANGED vars
    BY <2>18
  <2> QED
    BY <2>1, <2>2, <2>3, <2>4, <2>5, <2>6, <2>7, <2>8, <2>9, <2>10, <2>11, <2>12, <2>13, <2>14,
       <2>15, <2>16, <2>17, <2>18
    DEF Next, ThreadStep, HostStep
<1> QED
  BY <1>2, <1>3, PTL DEF Spec

\* Every step keeps the invariant of the run.
LEMMA BridgeInductive ==
    ASSUME BridgeTypeOK, BridgeInv, [Next]_vars
    PROVE  BridgeInv'
<1> USE DEF BridgeTypeOK, BridgeInv, PostedByLegAtHand, FutureTellsPost, HostAndThread,
            ClaimsChecked, LateTracked, Alive, Escapes, Results
<1>1. CASE ThreadStart
  BY <1>1 DEF ThreadStart
<1>2. CASE NextLeg
  BY <1>2 DEF NextLeg, ThreadEnds
<1>3. CASE CheckStop
  BY <1>3 DEF CheckStop, ThreadEnds
<1>4. CASE SubmitLeg
  BY <1>4 DEF SubmitLeg, ThreadEnds
<1>5. CASE LegAnswered
  BY <1>5 DEF LegAnswered, ThreadEnds, FreezesFreshWrites
<1>6. CASE LegTimeout
  BY <1>6 DEF LegTimeout, ThreadEnds
<1>7. CASE CoroStart
  BY <1>7 DEF CoroStart
<1>8. CASE CoroPost
  <2>1. posted' = {<<k, i>>}
    BY <1>8 DEF CoroPost
  <2> QED BY <1>8, <2>1 DEF CoroPost
<1>9. CASE CoroEnd
  BY <1>9 DEF CoroEnd
<1>10. CASE CoroCancelled
  BY <1>10 DEF CoroCancelled
<1>11. CASE TaskEnds
  BY <1>11 DEF TaskEnds
<1>12. CASE TaskCancelled
  BY <1>12 DEF TaskCancelled
<1>13. CASE HostDecides
  BY <1>13 DEF HostDecides, HostOver
<1>14. CASE HostReturns
  <2>1. thread = "over" /\ sink = {} /\ terminal = "none"
    BY <1>14 DEF HostReturns
  <2>2. CASE end = "plan" \/ end = "frozen"
    BY <1>14, <2>1, <2>2 DEF HostReturns, HostOver
  <2>3. CASE end \in Escapes
    <3>1. sink' = {FreezeRecord(end)} /\ (FreezeRecord(end).live <=> end # "kill")
      BY <1>14, <2>1, <2>3 DEF HostReturns, FreezeRecord
    <3>2. host' = "over" /\ terminal' = IF FreezeRecord(end).live THEN "frozen" ELSE "stopped"
      BY <1>14, <2>3 DEF HostReturns, HostOver
    <3>3. UNCHANGED <<k, task, threadVars, coro, future, stop, posted, lateLegs>>
      BY <1>14, <2>3 DEF HostReturns
    <3>4. ClaimsChecked'
      BY <2>1, <3>1, <3>2, <3>3
    <3> QED BY <2>1, <3>2, <3>3, <3>4
  <2> QED BY <1>14, <2>2, <2>3 DEF HostReturns
<1>15. CASE HostCancelled
  BY <1>15 DEF HostCancelled
<1>16. CASE HostDrained
  <2>1. sink = {} /\ terminal = "none" /\ task # "none"
    BY <1>16 DEF HostDrained
  <2>2. host' = "over" /\ terminal' = "cancelled"
    BY <1>16 DEF HostDrained, HostOver
  <2>3. UNCHANGED <<k, task, threadVars, coro, future, stop, posted, lateLegs>>
    BY <1>16 DEF HostDrained
  <2>4. (\E r \in sink' : ~r.live) => thread = "over" /\ end = "kill"
    <3>1. CASE task = "done" /\ end \in Escapes
      <4>1. sink' = {FreezeRecord(end)} /\ (FreezeRecord(end).live <=> end # "kill")
        BY <1>16, <2>1, <3>1 DEF HostDrained, FreezeRecord
      <4> QED BY <3>1, <4>1
    <3>2. CASE ~(task = "done" /\ end \in Escapes)
      <4>1. sink' = {}
        BY <1>16, <2>1, <3>2 DEF HostDrained
      <4> QED BY <4>1
    <3> QED BY <3>1, <3>2
  <2>5. PostedByLegAtHand' /\ FutureTellsPost' /\ LateTracked'
    BY <2>3
  <2>6. HostAndThread'
    BY <2>1, <2>2, <2>3
  <2>7. ClaimsChecked'
    BY <2>2, <2>3, <2>4
  <2> QED BY <2>5, <2>6, <2>7
<1>17. CASE Kill \/ LoopCloses
  BY <1>17 DEF Kill, LoopCloses
<1>18. CASE UNCHANGED vars
  BY <1>18
<1> QED
  BY <1>1, <1>2, <1>3, <1>4, <1>5, <1>6, <1>7, <1>8, <1>9, <1>10, <1>11, <1>12, <1>13, <1>14,
     <1>15, <1>16, <1>17, <1>18
  DEF Next, ThreadStep, HostStep

\* The invariant of the run holds throughout.
LEMMA BridgeInvariant == Spec => [](BridgeTypeOK /\ BridgeInv)
<1>1. Init => BridgeInv
  BY DEF Init, BridgeInv, PostedByLegAtHand, FutureTellsPost, HostAndThread, ClaimsChecked,
         LateTracked, Alive
<1>2. BridgeTypeOK /\ BridgeInv /\ [Next]_vars => BridgeInv'
  BY BridgeInductive
<1> QED
  BY <1>1, <1>2, BridgeTypeCorrect, PTL DEF Spec

\* For any plans, whatever the kill, timeouts, cancellations and a shutdown of the loop do,
\* a run posts at most one order (execute_plan, execute_plan_bridged).
THEOREM RunSafe == Spec => []OnePostPerRun
<1>1. BridgeInv => OnePostPerRun
  <2> SUFFICES ASSUME BridgeInv PROVE Cardinality(posted) <= 1
    BY DEF OnePostPerRun
  <2>1. CASE posted = {}
    BY <2>1, FS_EmptySet
  <2>2. CASE posted # {}
    <3>1. posted = {<<k, i>>}
      BY <2>2 DEF BridgeInv, PostedByLegAtHand
    <3>2. Cardinality({<<k, i>>}) = 1
      BY FS_Singleton
    <3> QED BY <3>1, <3>2
  <2> QED BY <2>1, <2>2
<1> QED
  BY <1>1, BridgeInvariant, PTL

\* What a run reports as not sent was not, and cannot be any more (FreezeRecord, the
\* terminal reasons of run_market_maker).
THEOREM ClaimSafe == Spec => []UnsentIsUnsent
<1>1. BridgeInv => UnsentIsUnsent
  BY DEF BridgeInv, ClaimsChecked, PostedByLegAtHand, UnsentIsUnsent
<1> QED
  BY <1>1, BridgeInvariant, PTL

\* At most one leg of a run follows the kill: the one between its check and its submission
\* (the bridge's stop signal).
THEOREM KillSafe == Spec => []AtMostOneLegAfterKill
<1>1. BridgeInv => AtMostOneLegAfterKill
  BY DEF BridgeInv, LateTracked, AtMostOneLegAfterKill
<1> QED
  BY <1>1, BridgeInvariant, PTL

\* As long as the event loop is not shut down, no leg is cancelled under its worker.
LEMMA UncancelledInvariant == Spec => []NothingCancelled
<1>1. Init => NothingCancelled
  BY DEF Init, NothingCancelled, Escapes
<1>2. BridgeTypeOK /\ BridgeInv /\ NothingCancelled /\ [Next]_vars => NothingCancelled'
  <2> SUFFICES ASSUME BridgeTypeOK, BridgeInv, NothingCancelled, [Next]_vars
               PROVE  NothingCancelled'
    OBVIOUS
  <2> USE DEF BridgeTypeOK, NothingCancelled, BridgeInv, HostAndThread, Escapes, Results
  <2>1. CASE ThreadStep
    <3>1. CASE ThreadStart \/ NextLeg \/ CheckStop
      BY <2>1, <3>1 DEF ThreadStart, NextLeg, CheckStop, ThreadEnds
    <3>2. CASE SubmitLeg
      BY <2>1, <3>2 DEF SubmitLeg, ThreadEnds
    <3>3. CASE LegAnswered
      BY <2>1, <3>3 DEF LegAnswered, ThreadEnds
    <3>4. CASE LegTimeout
      BY <2>1, <3>4 DEF LegTimeout, ThreadEnds
    <3> QED BY <2>1, <3>1, <3>2, <3>3, <3>4 DEF ThreadStep
  <2>2. CASE CoroStart \/ CoroPost \/ CoroEnd \/ CoroCancelled
    BY <2>2 DEF CoroStart, CoroPost, CoroEnd, CoroCancelled
  <2>3. CASE TaskEnds \/ TaskCancelled
    BY <2>3 DEF TaskEnds, TaskCancelled
  <2>4. CASE HostDecides
    BY <2>4 DEF HostDecides, HostOver
  <2>5. CASE HostReturns
    BY <2>5 DEF HostReturns, HostOver
  <2>6. CASE HostCancelled
    BY <2>6 DEF HostCancelled
  <2>7. CASE HostDrained
    BY <2>7 DEF HostDrained, HostOver
  <2>8. CASE Kill \/ LoopCloses \/ UNCHANGED vars
    BY <2>8 DEF Kill, LoopCloses
  <2> QED BY <2>1, <2>2, <2>3, <2>4, <2>5, <2>6, <2>7, <2>8 DEF Next, HostStep
<1> QED
  BY <1>1, <1>2, BridgeInvariant, PTL DEF Spec

\* As long as the event loop is not shut down under it, a run ends only after its worker
\* thread, however often it is cancelled (the drain of execute_plan_bridged).
THEOREM DrainSafe == Spec => []ThreadNotAbandoned
<1>1. NothingCancelled => ThreadNotAbandoned
  BY DEF NothingCancelled, ThreadNotAbandoned
<1> QED
  BY <1>1, UncancelledInvariant, PTL

\* As long as the event loop is not shut down under it, a run is over only with every escape
\* of its worker on record, on the cancel path too (execute_plan_bridged).
THEOREM EscapeSafe == Spec => []EscapeOnRecord
<1>1. NothingCancelled => EscapeOnRecord
  BY DEF NothingCancelled, EscapeOnRecord
<1> QED
  BY <1>1, UncancelledInvariant, PTL

=============================================================================
