------------------------ MODULE EmergencyStopProofs ------------------------
(***************************************************************************)
(* The sweep of the stop in force leaves only racing orders, for any       *)
(* number of tasks, orders and stops.                                      *)
(***************************************************************************)
EXTENDS EmergencyStop, TLAPS

\* The initial state satisfies the invariant.
LEMMA StopInit == Init => StopInv
<1> SUFFICES ASSUME Init PROVE StopInv
  OBVIOUS
<1>1. StopTypeOK
  BY StopAssumption DEF Init, StopTypeOK, PCs, OrderStates
<1>2. StopsOrdered /\ NoneBehindTheSweep
  BY DEF Init, StopsOrdered, NoneBehindTheSweep
<1> QED
  BY <1>1, <1>2 DEF StopInv

\* The primitive, engaging or not, keeps the types of what it touches.
LEMMA EngageTypes ==
    ASSUME StopTypeOK, NEW t \in Tasks, NEW c \in Causes, CancelAllAndBlock(t, c)
    PROVE  /\ blocked' \in BOOLEAN /\ cause' \in Causes \cup {"none"}
           /\ ack' \in Nat /\ stop' \in Nat
           /\ pc' \in [Tasks -> PCs]
           /\ \A u \in Tasks : pc'[u] \in {"posting", "poll", "sleep"} => pc'[u] = pc[u]
           /\ own' \in [Tasks -> Nat]
<1>1. CASE blocked
  <2>1. /\ Return(t)
        /\ UNCHANGED <<stopVars, own>>
    BY <1>1 DEF CancelAllAndBlock
  <2> QED
    BY <2>1 DEF StopTypeOK, Return, At, stopVars, PCs
<1>2. CASE ~blocked
  <2>1. /\ blocked' = TRUE /\ cause' = c /\ stop' = stop + 1
        /\ own' = [own EXCEPT ![t] = stop + 1]
        /\ At(t, "wire")
        /\ UNCHANGED ack
    BY <1>2 DEF CancelAllAndBlock
  <2> QED
    BY <2>1 DEF StopTypeOK, At, PCs
<1> QED
  BY <1>1, <1>2

\* A task that returns or moves on keeps the types of the program points.
LEMMA ReturnTypes ==
    ASSUME StopTypeOK, NEW t \in Tasks, Return(t)
    PROVE  /\ pc' \in [Tasks -> PCs]
           /\ \A u \in Tasks : pc'[u] \in {"posting", "poll", "sleep"} => pc'[u] = pc[u]
BY DEF StopTypeOK, Return, At, PCs

\* Every step keeps the types.
LEMMA StopTypes == StopTypeOK /\ [Next]_vars => StopTypeOK'
<1> SUFFICES ASSUME StopTypeOK, [Next]_vars PROVE StopTypeOK'
  OBVIOUS
<1>b. {"breaker", "kill_switch", "manual", "shutdown", "loss_breach", "reconciliation_timeout"}
        \subseteq Causes
  BY DEF Causes
<1>1. ASSUME NEW t \in Tasks, Trigger(t) PROVE StopTypeOK'
  <2>1. PICK c \in Causes : CancelAllAndBlock(t, c)
    BY <1>1, <1>b DEF Trigger
  <2> QED
    BY <1>1, <2>1, EngageTypes DEF Trigger, history, StopTypeOK
<1>2. ASSUME NEW t \in Tasks, OnRealizedFill(t) PROVE StopTypeOK'
  <2>1. CASE CancelAllAndBlock(t, "loss_breach")
    BY <1>2, <1>b, <2>1, EngageTypes DEF OnRealizedFill, history, StopTypeOK
  <2>2. CASE Return(t) /\ UNCHANGED <<stopVars, own>>
    BY <1>2, <2>2, ReturnTypes DEF OnRealizedFill, history, stopVars, StopTypeOK
  <2> QED
    BY <1>2, <2>1, <2>2 DEF OnRealizedFill
<1>3. ASSUME NEW t \in Tasks, NEW o \in Orders, Submit(t, o) PROVE StopTypeOK'
  BY <1>3 DEF Submit, At, stopVars, history, StopTypeOK, PCs, OrderStates
<1>4. ASSUME NEW t \in Tasks, ReArmDenied(t) \/ ReArmClear(t) PROVE StopTypeOK'
  <2>1. CASE ReArmDenied(t)
    BY <2>1, ReturnTypes DEF ReArmDenied, stopVars, history, StopTypeOK
  <2>2. CASE ReArmClear(t)
    BY <2>2, ReturnTypes DEF ReArmClear, history, StopTypeOK
  <2> QED
    BY <1>4, <2>1, <2>2
<1>5. ASSUME NEW t \in Tasks, ReArmRead(t) PROVE StopTypeOK'
  BY <1>5 DEF ReArmRead, At, stopVars, history, StopTypeOK, PCs
<1>6. ASSUME NEW t \in Tasks, SweepAtVenue(t) PROVE StopTypeOK'
  BY <1>6 DEF SweepAtVenue, OrdersIn, At, stopVars, StopTypeOK, PCs, OrderStates
<1>7. ASSUME NEW t \in Tasks, SweepReturns(t) PROVE StopTypeOK'
  BY <1>7, ReturnTypes DEF SweepReturns, history, StopTypeOK
<1>8. ASSUME NEW t \in Tasks, SweepRaises(t) \/ SubmitAcked(t) PROVE StopTypeOK'
  <2>1. Return(t)
    BY <1>8 DEF SweepRaises, SubmitAcked
  <2> QED
    BY <1>8, <2>1, ReturnTypes DEF SweepRaises, SubmitAcked, stopVars, history, StopTypeOK
<1>9. ASSUME NEW t \in Tasks, SubmitUncertain(t) \/ Sleep(t) PROVE StopTypeOK'
  <2>1. CASE SubmitUncertain(t)
    BY <2>1 DEF SubmitUncertain, At, stopVars, history, StopTypeOK, PCs
  <2>2. CASE Sleep(t)
    BY <2>2 DEF Sleep, At, stopVars, history, StopTypeOK, PCs
  <2> QED
    BY <1>9, <2>1, <2>2
<1>10. ASSUME NEW t \in Tasks, Poll(t) PROVE StopTypeOK'
  <2>1. CASE CancelAllAndBlock(t, "reconciliation_timeout")
    BY <1>10, <1>b, <2>1, EngageTypes DEF Poll, history, StopTypeOK
  <2>2. CASE Return(t) /\ UNCHANGED <<stopVars, own>>
    BY <1>10, <2>2, ReturnTypes DEF Poll, history, stopVars, StopTypeOK
  <2>3. CASE At(t, "sleep") /\ UNCHANGED <<stopVars, own>>
    BY <1>10, <2>3 DEF Poll, At, history, stopVars, StopTypeOK, PCs
  <2> QED
    BY <1>10, <2>1, <2>2, <2>3 DEF Poll
<1>11. ASSUME NEW o \in Orders, VenueMove(o) PROVE StopTypeOK'
  BY <1>11 DEF VenueMove, stopVars, history, StopTypeOK, OrderStates
<1>12. CASE UNCHANGED vars
  BY <1>12 DEF vars, StopTypeOK
<1> QED
  BY <1>1, <1>2, <1>3, <1>4, <1>5, <1>6, <1>7, <1>8, <1>9, <1>10, <1>11, <1>12
  DEF Next, Begin, Continue

\* Every step keeps the numbering of stops and admits no order behind the sweep.
LEMMA StopStep == StopInv /\ [Next]_vars => StopsOrdered' /\ NoneBehindTheSweep'
<1> SUFFICES ASSUME StopInv, [Next]_vars PROVE StopsOrdered' /\ NoneBehindTheSweep'
  OBVIOUS
<1> USE DEF StopInv, StopTypeOK, StopsOrdered, NoneBehindTheSweep, OrdersIn
<1>1. ASSUME NEW t \in Tasks, NEW c, CancelAllAndBlock(t, c), UNCHANGED <<racing, sweptFor, venue>>
      PROVE  StopsOrdered' /\ NoneBehindTheSweep'
  BY <1>1 DEF CancelAllAndBlock, Return, At, stopVars
<1>2. ASSUME NEW t \in Tasks, Trigger(t) PROVE StopsOrdered' /\ NoneBehindTheSweep'
  BY <1>1, <1>2 DEF Trigger, history
<1>3. ASSUME NEW t \in Tasks, OnRealizedFill(t) PROVE StopsOrdered' /\ NoneBehindTheSweep'
  <2>1. CASE CancelAllAndBlock(t, "loss_breach")
    BY <1>1, <1>3, <2>1 DEF OnRealizedFill, history
  <2>2. CASE Return(t) /\ UNCHANGED <<stopVars, own>>
    BY <1>3, <2>2 DEF OnRealizedFill, Return, At, stopVars, history
  <2> QED
    BY <1>3, <2>1, <2>2 DEF OnRealizedFill
<1>4. ASSUME NEW t \in Tasks, NEW o \in Orders, Submit(t, o)
      PROVE  StopsOrdered' /\ NoneBehindTheSweep'
  BY <1>4 DEF Submit, At, stopVars, history
<1>5. ASSUME NEW t \in Tasks, ReArmDenied(t) \/ ReArmRead(t) \/ ReArmClear(t)
      PROVE  StopsOrdered' /\ NoneBehindTheSweep'
  <2>1. CASE ReArmDenied(t)
    BY <2>1 DEF ReArmDenied, Return, At, stopVars, history
  <2>2. CASE ReArmRead(t)
    BY <2>2 DEF ReArmRead, At, stopVars, history
  <2>3. CASE ReArmClear(t)
    BY <2>3 DEF ReArmClear, Return, At, history
  <2> QED
    BY <1>5, <2>1, <2>2, <2>3
<1>6. ASSUME NEW t \in Tasks, SweepAtVenue(t) PROVE StopsOrdered' /\ NoneBehindTheSweep'
  <2>1. StopsOrdered'
    BY <1>6 DEF SweepAtVenue, At, stopVars
  <2>2. NoneBehindTheSweep'
    BY <1>6 DEF SweepAtVenue, At, stopVars
  <2> QED
    BY <2>1, <2>2
<1>7. ASSUME NEW t \in Tasks, SweepReturns(t) \/ SweepRaises(t)
      PROVE  StopsOrdered' /\ NoneBehindTheSweep'
  BY <1>7 DEF SweepReturns, SweepRaises, Return, At, stopVars, history
<1>8. ASSUME NEW t \in Tasks, SubmitAcked(t) \/ SubmitUncertain(t) \/ Sleep(t)
      PROVE  StopsOrdered' /\ NoneBehindTheSweep'
  BY <1>8 DEF SubmitAcked, SubmitUncertain, Sleep, Return, At, stopVars, history
<1>9. ASSUME NEW t \in Tasks, Poll(t) PROVE StopsOrdered' /\ NoneBehindTheSweep'
  <2>1. CASE CancelAllAndBlock(t, "reconciliation_timeout")
    BY <1>1, <1>9, <2>1 DEF Poll, history
  <2>2. CASE ~CancelAllAndBlock(t, "reconciliation_timeout")
    BY <1>9, <2>2 DEF Poll, Return, At, stopVars, history
  <2> QED
    BY <2>1, <2>2
<1>10. ASSUME NEW o \in Orders, VenueMove(o) PROVE StopsOrdered' /\ NoneBehindTheSweep'
  BY <1>10 DEF VenueMove, stopVars, history
<1>11. CASE UNCHANGED vars
  BY <1>11 DEF vars
<1> QED
  BY <1>2, <1>3, <1>4, <1>5, <1>6, <1>7, <1>8, <1>9, <1>10, <1>11 DEF Next, Begin, Continue

\* The invariant of the stop holds throughout.
LEMMA StopInvariant == Spec => []StopInv
<1>1. StopInv /\ [Next]_vars => StopInv'
  BY StopTypes, StopStep DEF StopInv
<1> QED
  BY <1>1, StopInit, PTL DEF Spec

\* The stop's state stays well-typed, for any tasks and orders (emergency.py,
\* DustSafetySession; reconcile.py, resolve_ambiguous_submit).
THEOREM StopTypeCorrect == Spec => []StopTypeOK
<1>1. StopInv => StopTypeOK
  BY DEF StopInv
<1> QED
  BY <1>1, StopInvariant, PTL

\* Once the sweep of the stop in force is acknowledged only orders that were in flight when
\* it reached the venue can rest there (emergency.py, cancel_all_and_block).
THEOREM SweepSafe == Spec => []SweepLeavesOnlyRacers
<1>1. StopInv => SweepLeavesOnlyRacers
  BY DEF StopInv, StopTypeOK, StopsOrdered, NoneBehindTheSweep, SweepLeavesOnlyRacers, OrdersIn
<1> QED
  BY <1>1, StopInvariant, PTL

\* A fill that brings the loss to the cap leaves the session blocked in the same step
\* (emergency.py, on_realized_fill).
THEOREM LossBreachSafe == Spec => LossBreachBlocks
<1>1. StopTypeOK /\ [Next]_vars =>
        (LossCap > 0 /\ loss' # loss /\ loss' >= LossCap => blocked')
  <2> SUFFICES ASSUME StopTypeOK, [Next]_vars, LossCap > 0, loss' # loss, loss' >= LossCap
               PROVE  blocked'
    OBVIOUS
  <2>1. PICK t \in Tasks : OnRealizedFill(t)
    BY DEF Next, Begin, Continue, vars, Trigger, Submit, ReArmDenied, ReArmRead, ReArmClear,
           SweepAtVenue, SweepReturns, SweepRaises, SubmitAcked, SubmitUncertain, Poll, Sleep,
           VenueMove
  <2> QED
    BY <2>1, StopAssumption DEF OnRealizedFill, Breaches, CancelAllAndBlock, StopTypeOK, stopVars
<1> QED
  BY <1>1, StopTypeCorrect, PTL DEF Spec, LossBreachBlocks

=============================================================================
