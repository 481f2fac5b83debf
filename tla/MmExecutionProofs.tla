------------------------- MODULE MmExecutionProofs -------------------------
(***************************************************************************)
(* Proofs that every behaviour of MmExecution, for any number of calls,    *)
(* attempts and sessions and any caps, satisfies its safety properties.    *)
(***************************************************************************)
EXTENDS MmExecution, TLAPS, FiniteSetTheorems

USE DEF vars, stateVars, callVars, envVars

\* The loaded counts and losses are numbers.
LEMMA LoadedType ==
    ASSUME StateTypeOK, NEW s \in Sessions, NEW d \in Days
    PROVE  Loaded(s, d) \in Snapshots
<1>1. IsFiniteSet(RowsOf(s))
  BY FS_Subset, SessionAssumption DEF RowsOf
<1>2. Count(s) \in Nat
  BY <1>1, FS_CardinalityType DEF Count
<1>3. LossOf(netSession[s]) \in Nat /\ LossOf(netDay[s][d]) \in Nat
  BY DEF LossOf, StateTypeOK
<1> QED
  BY <1>2, <1>3 DEF Loaded, Snapshots

\* A call that ends leaves well-typed locals and result behind.
LEMMA FinishType ==
    ASSUME TypeOK, NEW c \in Callers, NEW r \in Results, Finish(c, r), UNCHANGED <<req, sent>>
    PROVE  LocalsTypeOK' /\ CallsTypeOK'
<1>1. snap' \in [Callers -> Snapshots]
  <2>1. NoSnapshot \in Snapshots
    BY CallAssumption DEF NoSnapshot, Snapshots
  <2> QED BY <2>1 DEF Finish, TypeOK, LocalsTypeOK
<1>2. LocalsTypeOK'
  BY <1>1 DEF Finish, TypeOK, LocalsTypeOK
<1>3. CallsTypeOK'
  BY DEF Finish, TypeOK, CallsTypeOK, PCs
<1> QED
  BY <1>2, <1>3

\* Posting an order keeps the types of the venue and the histories.
LEMMA PostType ==
    ASSUME VenueTypeOK, NEW c \in Callers, NEW a \in Attempts, NEW st \in OrderStates,
           Post(c, a, st), UNCHANGED envVars
    PROVE  VenueTypeOK'
<1>1. SessionOf[a] \in Sessions
  BY SessionAssumption
<1>2. late' \in [Sessions -> Nat]
  BY <1>1 DEF Post, VenueTypeOK
<1>3. venue' \in [Attempts -> OrderStates] /\ wires' \in [Attempts -> Nat]
  BY DEF Post, VenueTypeOK
<1> QED
  BY <1>2, <1>3 DEF VenueTypeOK

\* The type invariant holds in every reachable state.
THEOREM TypeCorrect == Spec => []TypeOK
<1>1. Init => TypeOK
  BY SessionAssumption, CallAssumption
  DEF Init, StateInit, TypeOK, StateTypeOK, LocalsTypeOK, CallsTypeOK, VenueTypeOK, PCs,
      Snapshots, NoSnapshot, Results, OrderStates, ReconciliationState
<1>2. TypeOK /\ [Next]_vars => TypeOK'
  <2> SUFFICES ASSUME TypeOK, [Next]_vars PROVE TypeOK'
    OBVIOUS
  <2> USE DEF TypeOK, Goto
  <2>1. ASSUME NEW c \in Callers, NEW a \in Attempts, Load(c, a) PROVE TypeOK'
    <3>1. Loaded(SessionOf[a], today) \in Snapshots
      BY LoadedType, SessionAssumption DEF VenueTypeOK
    <3>2. LocalsTypeOK'
      BY <2>1, <3>1 DEF Load, LocalsTypeOK
    <3>3. CallsTypeOK'
      BY <2>1 DEF Load, CallsTypeOK, PCs, Results
    <3> QED BY <2>1, <3>2, <3>3 DEF Load, StateTypeOK, VenueTypeOK
  <2>2. ASSUME NEW c \in Callers, Refuse(c) \/ Raise(c) PROVE TypeOK'
    <3>1. PICK r \in Results : Finish(c, r) /\ UNCHANGED <<req, sent>>
      BY <2>2 DEF Refuse, Raise, Results
    <3> QED BY <2>2, <3>1, FinishType DEF Refuse, Raise, StateTypeOK, VenueTypeOK
  <2>3. ASSUME NEW c \in Callers, Reserve(c) PROVE TypeOK'
    <3>1. StateTypeOK' /\ VenueTypeOK'
      BY <2>3 DEF Reserve, InsertRow, StateTypeOK, VenueTypeOK, ReconciliationState, CallsTypeOK
    <3>2. CASE ReservationOutcome(req[c], snap[c].day) = "RESERVED"
      BY <2>3, <3>1, <3>2 DEF Reserve, LocalsTypeOK, CallsTypeOK, PCs
    <3>3. CASE ReservationOutcome(req[c], snap[c].day) # "RESERVED"
      <4>1. Denial(ReservationOutcome(req[c], snap[c].day)) \in Results
        BY DEF Denial, Results
      <4> QED BY <2>3, <3>1, <3>3, <4>1, FinishType DEF Reserve
    <3> QED BY <3>2, <3>3
  <2>4. ASSUME NEW c \in Callers, ReserveRaises(c) PROVE TypeOK'
    <3>1. StateTypeOK' /\ VenueTypeOK'
      BY <2>4 DEF ReserveRaises, InsertRow, StateTypeOK, VenueTypeOK, ReconciliationState,
                  CallsTypeOK
    <3>2. Finish(c, "DENIED") /\ "DENIED" \in Results /\ UNCHANGED <<req, sent>>
      BY <2>4 DEF ReserveRaises, Results
    <3> QED BY <3>1, <3>2, FinishType
  <2>5. ASSUME NEW c \in Callers, Arm(c) PROVE TypeOK'
    <3>1. LocalsTypeOK'
      BY <2>5 DEF Arm, LocalsTypeOK
    <3>2. CallsTypeOK'
      BY <2>5 DEF Arm, CallsTypeOK, PCs
    <3> QED BY <2>5, <3>1, <3>2 DEF Arm, StateTypeOK, VenueTypeOK
  <2>6. ASSUME NEW c \in Callers, TriggerSweep(c) \/ StartupSweep(c) \/ CancelAllSweep(c)
        PROVE TypeOK'
    <3>1. VenueTypeOK'
      BY <2>6 DEF TriggerSweep, StartupSweep, CancelAllSweep, VenueTypeOK, Swept, OpenStates,
                  OrderStates
    <3>2. CallsTypeOK'
      BY <2>6 DEF TriggerSweep, StartupSweep, CancelAllSweep, CallsTypeOK, PCs
    <3> QED BY <2>6, <3>1, <3>2 DEF TriggerSweep, StartupSweep, CancelAllSweep, StateTypeOK,
                                    LocalsTypeOK
  <2>7. ASSUME NEW c \in Callers, StartupRead(c) PROVE TypeOK'
    <3>1. LocalsTypeOK'
      BY <2>7 DEF StartupRead, LocalsTypeOK
    <3>2. CallsTypeOK'
      BY <2>7 DEF StartupRead, CallsTypeOK, PCs
    <3> QED BY <2>7, <3>1, <3>2 DEF StartupRead, StateTypeOK, VenueTypeOK
  <2>8. ASSUME NEW c \in Callers, CancelAllIntent(c) \/ Abstain(c) \/ PassGates(c) \/ DryRun(c)
        PROVE TypeOK'
    <3>1. LocalsTypeOK'
      BY <2>8 DEF CancelAllIntent, Abstain, PassGates, DryRun, LocalsTypeOK
    <3>2. CallsTypeOK'
      BY <2>8 DEF CancelAllIntent, Abstain, PassGates, DryRun, CallsTypeOK, PCs
    <3> QED BY <2>8, <3>1, <3>2 DEF CancelAllIntent, Abstain, PassGates, DryRun, StateTypeOK,
                                    VenueTypeOK
  <2>18. ASSUME NEW c \in Callers, CancelOld(c) PROVE TypeOK'
    <3>1. VenueTypeOK'
      BY <2>18, CallAssumption DEF CancelOld, CallsTypeOK, VenueTypeOK, OpenStates, OrderStates
    <3>2. CallsTypeOK'
      BY <2>18 DEF CancelOld, CallsTypeOK, PCs
    <3> QED BY <2>18, <3>1, <3>2 DEF CancelOld, StateTypeOK, LocalsTypeOK
  <2>19. ASSUME NEW c \in Callers, JudgeOld(c) PROVE TypeOK'
    <3>1. LocalsTypeOK'
      BY <2>19 DEF JudgeOld, LocalsTypeOK
    <3>2. CallsTypeOK'
      BY <2>19 DEF JudgeOld, CallsTypeOK, PCs
    <3> QED BY <2>19, <3>1, <3>2 DEF JudgeOld, StateTypeOK, VenueTypeOK
  <2>9. ASSUME NEW c \in Callers, Submit(c) PROVE TypeOK'
    <3>0. PICK st \in OrderStates : Post(c, req[c], st)
      BY <2>9 DEF Submit, OrderStates
    <3>1. VenueTypeOK'
      BY <2>9, <3>0, PostType DEF Submit, CallsTypeOK
    <3>2. CallsTypeOK'
      BY <2>9 DEF Submit, Post, CallsTypeOK, PCs
    <3> QED BY <2>9, <3>1, <3>2 DEF Submit, StateTypeOK, LocalsTypeOK
  <2>10. ASSUME NEW c \in Callers, AckLost(c) PROVE TypeOK'
    <3>0. PICK st \in OrderStates : Post(c, req[c], st)
      BY <2>10 DEF AckLost, OrderStates
    <3>1. VenueTypeOK'
      BY <2>10, <3>0, PostType DEF AckLost, CallsTypeOK
    <3>2. CallsTypeOK'
      BY <2>10 DEF AckLost, Post, Finish, CallsTypeOK, PCs, Results
    <3>3. LocalsTypeOK'
      <4>1. NoSnapshot \in Snapshots
        BY CallAssumption DEF NoSnapshot, Snapshots
      <4> QED BY <2>10, <4>1 DEF AckLost, Finish, LocalsTypeOK
    <3> QED BY <2>10, <3>1, <3>2, <3>3 DEF AckLost, StateTypeOK
  <2>11. ASSUME NEW c \in Callers, Reconcile(c) PROVE TypeOK'
    <3>1. LocalsTypeOK'
      BY <2>11 DEF Reconcile, Assessment, LocalsTypeOK
    <3> QED BY <2>11, <3>1 DEF Reconcile, StateTypeOK, VenueTypeOK, CallsTypeOK, PCs
  <2>12. ASSUME NEW c \in Callers, Settle(c) PROVE TypeOK'
    <3>1. StateTypeOK' /\ VenueTypeOK'
      BY <2>12 DEF Settle, SettleRow, StateTypeOK, VenueTypeOK, ReconciliationState, LocalsTypeOK,
                   CallsTypeOK
    <3>2. Finish(c, Disposition(c)) /\ Disposition(c) \in Results /\ UNCHANGED <<req, sent>>
      BY <2>12 DEF Settle, Disposition, Results
    <3> QED BY <3>1, <3>2, FinishType
  <2>13. ASSUME NEW a \in Attempts, VenueMove(a) PROVE TypeOK'
    BY <2>13 DEF VenueMove, OpenStates, StateTypeOK, LocalsTypeOK, CallsTypeOK, VenueTypeOK,
                 OrderStates
  <2>14. ASSUME NEW a \in Attempts, HookSettle(a) PROVE TypeOK'
    BY <2>14 DEF HookSettle, SettleRow, StateTypeOK, LocalsTypeOK, CallsTypeOK, VenueTypeOK,
                 ReconciliationState
  <2>15. ASSUME NEW s \in Sessions, HookRecordFill(s) PROVE TypeOK'
    BY <2>15, CallAssumption DEF HookRecordFill, RecordFill, StateTypeOK, LocalsTypeOK,
                 CallsTypeOK, VenueTypeOK
  <2>16. CASE NextDay
    BY <2>16 DEF NextDay, StateTypeOK, LocalsTypeOK, CallsTypeOK, VenueTypeOK
  <2>17. CASE UNCHANGED vars
    BY <2>17 DEF StateTypeOK, LocalsTypeOK, CallsTypeOK, VenueTypeOK
  <2> QED
    BY <2>1, <2>2, <2>3, <2>4, <2>5, <2>6, <2>7, <2>8, <2>9, <2>10, <2>11, <2>12, <2>13,
       <2>14, <2>15, <2>16, <2>17, <2>18, <2>19 DEF Next, CallStep
<1> QED
  BY <1>1, <1>2, PTL DEF Spec

-----------------------------------------------------------------------------
(* Idempotency and freeze: who owns a row, and what has been posted. *)

PostingInv ==
    /\ CallsOwnRows
    /\ PostedOnlyAfter
    /\ AtMostOncePosted
    /\ PostedIsDurable
    /\ OneUnresolvedPerSession

\* The steps of a running call that neither touch rows nor post: it stays on its way to
\* the post or turns to the settlement that releases its row.
QuietStep(c) ==
    /\ pc[c] \in PreSend
    /\ \E to \in PreSend \cup {"settle"} :
          /\ pc' = [pc EXCEPT ![c] = to]
          /\ to = "settle" => recon' = [recon EXCEPT ![c] = "DEFINITIVELY_ABSENT"]
          /\ to # "settle" => recon' = recon
    /\ UNCHANGED <<rows, req, wires>>

\* The steps between the reservation and the post, or the turn to the settlement, are
\* quiet.
LEMMA QuietSteps ==
    ASSUME NEW c \in Callers,
           \/ Arm(c) \/ TriggerSweep(c) \/ StartupRead(c) \/ StartupSweep(c)
           \/ CancelAllIntent(c) \/ CancelAllSweep(c) \/ Abstain(c) \/ PassGates(c)
           \/ CancelOld(c) \/ JudgeOld(c) \/ DryRun(c)
    PROVE  QuietStep(c)
<1> USE DEF QuietStep, PreSend, Holding, PCs, Goto
<1>1. CASE Arm(c)
  BY <1>1 DEF Arm
<1>2. CASE TriggerSweep(c) \/ StartupSweep(c)
  BY <1>2 DEF TriggerSweep, StartupSweep
<1>3. CASE StartupRead(c)
  BY <1>3 DEF StartupRead
<1>4. CASE CancelAllIntent(c) \/ PassGates(c)
  BY <1>4 DEF CancelAllIntent, PassGates
<1>5. CASE CancelAllSweep(c) \/ Abstain(c) \/ DryRun(c)
  BY <1>5 DEF CancelAllSweep, Abstain, DryRun
<1>6. CASE CancelOld(c)
  BY <1>6 DEF CancelOld
<1>7. CASE JudgeOld(c)
  BY <1>7 DEF JudgeOld
<1> QED
  BY <1>1, <1>2, <1>3, <1>4, <1>5, <1>6, <1>7

\* Every step keeps who owns a row and what has been posted.
LEMMA PostingInductive ==
    ASSUME TypeOK, PostingInv, [Next]_vars
    PROVE  PostingInv'
<1> USE DEF TypeOK, StateTypeOK, CallsTypeOK, LocalsTypeOK, VenueTypeOK, PostingInv, CallsOwnRows,
            PostedOnlyAfter, AtMostOncePosted, PostedIsDurable, OneUnresolvedPerSession, PreSend,
            Holding, Unresolved
<1>1. ASSUME NEW c \in Callers, NEW a \in Attempts, Load(c, a) PROVE PostingInv'
  BY <1>1 DEF Load, Goto, PCs
<1>2. ASSUME NEW c \in Callers, Refuse(c) \/ Raise(c) PROVE PostingInv'
  <2>1. /\ pc' = [pc EXCEPT ![c] = "idle"]
        /\ recon' = [recon EXCEPT ![c] = "DEFINITIVELY_ABSENT"]
        /\ UNCHANGED <<rows, req, wires>>
    BY <1>2 DEF Refuse, Raise, Finish
  <2> QED BY <2>1 DEF PCs
<1>3. ASSUME NEW c \in Callers, QuietStep(c) PROVE PostingInv'
  BY <1>3 DEF QuietStep, PCs
<1>4. ASSUME NEW c \in Callers, pc[c] = "loaded", rows[req[c]] = "NONE",
             ~HasUnresolved(SessionOf[req[c]]), InsertRow(req[c]),
             \E to \in {"reserved", "idle"} : pc' = [pc EXCEPT ![c] = to],
             UNCHANGED <<req, wires>>, \A d \in Callers : d # c => recon'[d] = recon[d]
      PROVE PostingInv'
  <2>1. wires[req[c]] = 0
    BY <1>4
  <2>2. \A b \in Attempts : SessionOf[b] = SessionOf[req[c]] => rows[b] \notin {"PENDING", "AMBIGUOUS"}
    BY <1>4 DEF HasUnresolved, RowsOf
  <2>3. CallsOwnRows'
    BY <1>4 DEF InsertRow, PCs
  <2>4. PostedOnlyAfter'
    BY <1>4, <2>1 DEF InsertRow, PCs
  <2>5. OneUnresolvedPerSession'
    BY <1>4, <2>2 DEF InsertRow
  <2> QED BY <1>4, <2>3, <2>4, <2>5 DEF InsertRow
<1>5. ASSUME NEW c \in Callers, Reserve(c) PROVE PostingInv'
  <2>1. CASE ReservationOutcome(req[c], snap[c].day) = "RESERVED"
    <3>1. rows[req[c]] = "NONE" /\ ~HasUnresolved(SessionOf[req[c]])
      BY <2>1, <1>5 DEF Reserve, ReservationOutcome, ReconciliationState
    <3> QED BY <1>4, <1>5, <2>1, <3>1 DEF Reserve
  <2>2. CASE ReservationOutcome(req[c], snap[c].day) # "RESERVED"
    <3>1. /\ pc' = [pc EXCEPT ![c] = "idle"]
          /\ recon' = [recon EXCEPT ![c] = "DEFINITIVELY_ABSENT"]
          /\ UNCHANGED <<rows, req, wires>>
      BY <1>5, <2>2 DEF Reserve, Finish
    <3> QED BY <3>1 DEF PCs
  <2> QED BY <2>1, <2>2
<1>6. ASSUME NEW c \in Callers, ReserveRaises(c) PROVE PostingInv'
  <2>1. CASE UNCHANGED rows
    BY <1>6, <2>1 DEF ReserveRaises, Finish, PCs
  <2>2. CASE ReservationOutcome(req[c], snap[c].day) = "RESERVED" /\ InsertRow(req[c])
    <3>1. rows[req[c]] = "NONE" /\ ~HasUnresolved(SessionOf[req[c]])
      BY <2>2, <1>6 DEF ReserveRaises, ReservationOutcome, ReconciliationState
    <3> QED BY <1>4, <1>6, <2>2, <3>1 DEF ReserveRaises, Finish
  <2> QED BY <1>6, <2>1, <2>2 DEF ReserveRaises
<1>7. ASSUME NEW c \in Callers, Submit(c) \/ AckLost(c) PROVE PostingInv'
  <2>1. wires[req[c]] = 0 /\ rows[req[c]] = "PENDING" /\ req[c] \in Attempts /\ pc[c] = "submit"
    BY <1>7 DEF Submit, AckLost, Goto, PCs
  <2>2. /\ wires' = [wires EXCEPT ![req[c]] = 1]
        /\ \E to \in {"reconcile", "idle"} : pc' = [pc EXCEPT ![c] = to]
        /\ \A d \in Callers : d # c => recon'[d] = recon[d]
        /\ UNCHANGED <<rows, req>>
    BY <1>7, <2>1 DEF Submit, AckLost, Goto, Post, Finish
  <2>3. CallsOwnRows'
    BY <2>1, <2>2 DEF PCs
  <2>4. PostedOnlyAfter'
    BY <2>1, <2>2 DEF PCs
  <2> QED BY <2>1, <2>2, <2>3, <2>4
<1>8. ASSUME NEW c \in Callers, Reconcile(c) PROVE PostingInv'
  BY <1>8 DEF Reconcile, Assessment, Goto, PCs
<1>9. ASSUME NEW c \in Callers, Settle(c) PROVE PostingInv'
  BY <1>9 DEF Settle, SettleRow, Finish, PCs
<1>10. ASSUME NEW a \in Attempts, HookSettle(a) PROVE PostingInv'
  <2>1. /\ UNCHANGED <<pc, req, recon, wires>>
        /\ \A c \in Callers : pc[c] \in Holding => req[c] # a
    BY <1>10 DEF HookSettle, InFlight
  <2>2. \/ wires[a] = 0 /\ rows' = [rows EXCEPT ![a] = "NONE"]
        \/ rows' = [rows EXCEPT ![a] = "RESOLVED"]
    BY <1>10 DEF HookSettle, SettleRow
  <2>3. CallsOwnRows' /\ PostedOnlyAfter'
    BY <2>1, <2>2
  <2>4. PostedIsDurable' /\ AtMostOncePosted'
    BY <2>1, <2>2
  <2>5. OneUnresolvedPerSession'
    BY <2>2
  <2> QED BY <2>3, <2>4, <2>5 DEF PostingInv
<1>11. CASE UNCHANGED <<rows, pc, req, recon, wires>>
  BY <1>11
<1>12. ASSUME NEW a \in Attempts, VenueMove(a) PROVE PostingInv'
  BY <1>11, <1>12 DEF VenueMove
<1>13. ASSUME NEW s \in Sessions, HookRecordFill(s) PROVE PostingInv'
  BY <1>11, <1>13 DEF HookRecordFill
<1>14. CASE NextDay \/ UNCHANGED vars
  BY <1>11, <1>14 DEF NextDay
<1> QED
  BY <1>1, <1>2, <1>3, <1>5, <1>6, <1>7, <1>8, <1>9, <1>10, <1>12, <1>13, <1>14, QuietSteps
  DEF Next, CallStep

\* Types and posting, throughout.
LEMMA PostingInvariant == Spec => [](TypeOK /\ PostingInv)
<1>1. Init => PostingInv
  BY DEF Init, StateInit, PostingInv, CallsOwnRows, PostedOnlyAfter, AtMostOncePosted,
         PostedIsDurable, OneUnresolvedPerSession, PreSend, Holding, Unresolved
<1>2. TypeOK /\ PostingInv /\ [Next]_vars => PostingInv'
  BY PostingInductive
<1> QED
  BY <1>1, <1>2, TypeCorrect, PTL DEF Spec

\* However many calls run, are retried or crash, at most one order per attempt is ever
\* posted (facade.py, IDM-002).
THEOREM PostingSafe == Spec => []AtMostOncePosted
<1>1. PostingInv => AtMostOncePosted
  BY DEF PostingInv
<1> QED
  BY <1>1, PostingInvariant, PTL

\* A posted order keeps its durable row: no settle, failed settle, retry or crash makes the
\* session forget it (session_state.py, settle).
THEOREM DurableSafe == Spec => []PostedIsDurable
<1>1. PostingInv => PostedIsDurable
  BY DEF PostingInv
<1> QED
  BY <1>1, PostingInvariant, PTL

\* The freeze holds for any interleaving of reservations, crashes and settlements: a
\* session has at most one attempt that may be live (session_state.py, reserve_or_freeze).
THEOREM FreezeSafe == Spec => []OneUnresolvedPerSession
<1>1. PostingInv => OneUnresolvedPerSession
  BY DEF PostingInv
<1> QED
  BY <1>1, PostingInvariant, PTL

-----------------------------------------------------------------------------
(* Exposure: one order at risk per session. *)

ExposureInv ==
    /\ VenueMatchesWires
    /\ ClearToPost
    /\ OneExposedOrderPerSession

\* Two running calls of one session would own two unresolved rows: there is only one.
LEMMA OneRunPerSession ==
    ASSUME TypeOK, PostingInv, NEW c \in Callers, NEW d \in Callers,
           pc[c] \in Holding, pc[d] \in Holding, SessionOf[req[c]] = SessionOf[req[d]]
    PROVE  c = d
<1>1. req[c] \in Attempts /\ req[d] \in Attempts
  BY DEF TypeOK, CallsTypeOK, Holding, PCs
<1>2. rows[req[c]] = "PENDING" /\ rows[req[d]] = "PENDING"
  BY DEF PostingInv, CallsOwnRows
<1>3. req[c] = req[d]
  BY <1>1, <1>2 DEF PostingInv, OneUnresolvedPerSession, Unresolved
<1> QED
  BY <1>3 DEF PostingInv, CallsOwnRows

\* Steps that leave the venue alone and end a call or keep it off the posting path.
LEMMA ExposureKept ==
    ASSUME TypeOK, ExposureInv, NEW c \in Callers,
           NEW to \in PCs \ {"decide", "replace", "judge", "submit", "sweep"},
           pc' = [pc EXCEPT ![c] = to],
           \A d \in Callers \ {c} : /\ req'[d] = req[d]
                                    /\ armed'[d] = armed[d]
                                    /\ blocked'[d] = blocked[d],
           to \in Holding => venue[req'[c]] # "transit",
           \A a \in Attempts : venue[a] = "transit" => rows'[a] \in Unresolved,
           UNCHANGED <<venue, wires>>
    PROVE  ExposureInv'
<1> USE DEF TypeOK, CallsTypeOK, ExposureInv, VenueMatchesWires, ClearToPost,
            OneExposedOrderPerSession, Exposed, Live
<1>1. VenueMatchesWires'
  OBVIOUS
<1>2. ClearToPost'
  OBVIOUS
<1> QED
  BY <1>1, <1>2

\* Every step keeps a session at one order at risk, and a run on its way to the post at none.
LEMMA ExposureInductive ==
    ASSUME TypeOK, TypeOK', PostingInv, ExposureInv, [Next]_vars
    PROVE  ExposureInv'
<1> USE DEF TypeOK, CallsTypeOK, ExposureInv, Holding, PCs
<1>1. ASSUME NEW c \in Callers, NEW a \in Attempts, Load(c, a) PROVE ExposureInv'
  BY <1>1, ExposureKept DEF Load, Goto, VenueMatchesWires
<1>2. ASSUME NEW c \in Callers, Refuse(c) \/ Raise(c) PROVE ExposureInv'
  BY <1>2, ExposureKept DEF Refuse, Raise, Finish, LocalsTypeOK, VenueMatchesWires
<1>3. ASSUME NEW c \in Callers, Reserve(c) PROVE ExposureInv'
  <2>1. venue[req[c]] # "transit" \/ rows[req[c]] # "NONE"
    BY <1>3 DEF Reserve, VenueMatchesWires, Unresolved
  <2>2. CASE ReservationOutcome(req[c], snap[c].day) = "RESERVED"
    <3>1. rows[req[c]] = "NONE" /\ rows' = [rows EXCEPT ![req[c]] = "PENDING"]
      BY <1>3, <2>2 DEF Reserve, ReservationOutcome, ReconciliationState, InsertRow, StateTypeOK
    <3> QED BY <1>3, <2>1, <2>2, <3>1, ExposureKept DEF Reserve, VenueMatchesWires, Unresolved,
                                                  StateTypeOK
  <2>3. CASE ReservationOutcome(req[c], snap[c].day) # "RESERVED"
    BY <1>3, <2>3, ExposureKept DEF Reserve, Finish, LocalsTypeOK, VenueMatchesWires
  <2> QED BY <2>2, <2>3
<1>4. ASSUME NEW c \in Callers, ReserveRaises(c) PROVE ExposureInv'
  <2>1. \A a \in Attempts : rows[a] \in Unresolved => rows'[a] \in Unresolved
    BY <1>4 DEF ReserveRaises, InsertRow, StateTypeOK, Unresolved
  <2> QED BY <1>4, <2>1, ExposureKept DEF ReserveRaises, Finish, LocalsTypeOK, VenueMatchesWires
<1>5. ASSUME NEW c \in Callers, Arm(c) \/ CancelAllIntent(c) \/ Abstain(c) \/ DryRun(c) \/ Reconcile(c)
      PROVE ExposureInv'
  <2>1. PICK to \in PCs \ {"decide", "replace", "judge", "submit", "sweep"} : pc' = [pc EXCEPT ![c] = to]
    BY <1>5 DEF Arm, CancelAllIntent, Abstain, DryRun, Reconcile, Goto
  <2>2. \A d \in Callers \ {c} : /\ req'[d] = req[d]
                                 /\ armed'[d] = armed[d]
                                 /\ blocked'[d] = blocked[d]
    <3>1. CASE Arm(c)
      BY <3>1 DEF Arm, LocalsTypeOK
    <3>2. CASE CancelAllIntent(c)
      BY <3>2 DEF CancelAllIntent, LocalsTypeOK
    <3>3. CASE Abstain(c) \/ DryRun(c) \/ Reconcile(c)
      BY <3>3 DEF Abstain, DryRun, Reconcile
    <3> QED BY <1>5, <3>1, <3>2, <3>3
  <2>3. UNCHANGED <<venue, wires, rows, req>> /\ pc[c] \in Holding
    BY <1>5 DEF Arm, CancelAllIntent, Abstain, DryRun, Reconcile, Goto
  <2> QED BY <2>1, <2>2, <2>3, ExposureKept DEF VenueMatchesWires
<1>6. ASSUME NEW c \in Callers, TriggerSweep(c) \/ StartupSweep(c) \/ CancelAllSweep(c)
      PROVE ExposureInv'
  <2> DEFINE to == IF TriggerSweep(c) THEN "startup" ELSE IF StartupSweep(c) THEN "decide" ELSE "settle"
  <2>1. /\ pc' = [pc EXCEPT ![c] = to]
        /\ pc[c] \in Holding
        /\ pc[c] = "sweep" \/ to # "decide"
        /\ venue' = Swept
        /\ UNCHANGED <<rows, req, wires, armed, blocked>>
    BY <1>6 DEF TriggerSweep, StartupSweep, CancelAllSweep, Goto
  <2>2. to \in {"startup", "decide", "settle"}
    OBVIOUS
  <2> HIDE DEF to
  <2>3. \A a \in Attempts : venue'[a] \in {venue[a], "gone"} /\ (venue[a] = "none" => venue'[a] = "none")
    BY <2>1 DEF Swept, OpenStates, VenueTypeOK
  <2>4. VenueMatchesWires'
    BY <2>1, <2>2, <2>3 DEF VenueMatchesWires
  <2>5. \A a \in Attempts : Exposed(a)' => Exposed(a)
    BY <2>3 DEF Exposed, OpenStates
  <2>6. ClearToPost'
    BY <2>1, <2>2, <2>5 DEF ClearToPost, Live
  <2> QED BY <2>4, <2>5, <2>6 DEF OneExposedOrderPerSession
<1>7. ASSUME NEW c \in Callers, StartupRead(c) PROVE ExposureInv'
  <2>1. /\ pc[c] \in PreSend
        /\ \E to \in {"sweep", "decide"} : pc' = [pc EXCEPT ![c] = to]
        /\ blocked' = [blocked EXCEPT ![c] = TRUE] \/ (blocked' = blocked /\ pc'[c] = "decide")
        /\ UNCHANGED <<rows, req, wires, armed, venue>>
    BY <1>7 DEF StartupRead, PreSend
  <2>2. VenueMatchesWires' /\ OneExposedOrderPerSession'
    BY <2>1 DEF VenueMatchesWires, OneExposedOrderPerSession, Exposed, PreSend
  <2>3. CASE blocked' = [blocked EXCEPT ![c] = TRUE]
    <3>1. ClearToPost'
      BY <2>1, <2>3 DEF ClearToPost, Live, Exposed, LocalsTypeOK
    <3> QED BY <2>2, <3>1
  <2>4. CASE blocked' = blocked /\ pc'[c] = "decide"
    <3>1. ASSUME Live(c), armed[c], ~blocked[c], NEW b \in Attempts,
                 SessionOf[b] = SessionOf[req[c]], Exposed(b)
          PROVE  FALSE
      <4>1. OpenOrders = {}
        BY <1>7, <2>4, <3>1 DEF StartupRead, LocalsTypeOK
      <4>2. venue[b] = "transit"
        BY <3>1, <4>1 DEF OpenOrders, Exposed
      <4>3. rows[b] \in Unresolved /\ rows[req[c]] \in Unresolved
        BY <2>1, <4>2 DEF VenueMatchesWires, PostingInv, CallsOwnRows, Unresolved, PreSend
      <4>4. b = req[c]
        BY <2>1, <3>1, <4>3 DEF PostingInv, OneUnresolvedPerSession, PreSend
      <4> QED BY <2>1, <4>2, <4>4 DEF VenueMatchesWires, PreSend
    <3>2. ClearToPost'
      BY <2>1, <2>4, <3>1 DEF ClearToPost, Live, Exposed, PreSend
    <3> QED BY <2>2, <3>2
  <2> QED BY <2>1, <2>3, <2>4
<1>8. ASSUME NEW c \in Callers, PassGates(c) PROVE ExposureInv'
  <2>1. PICK to \in {"replace", "submit"} :
           /\ pc[c] = "decide" /\ pc' = [pc EXCEPT ![c] = to]
           /\ to = "replace" => Live(c)
    BY <1>8 DEF PassGates, Goto
  <2>2. /\ ~blocked[c] /\ (Live(c) => armed[c])
        /\ UNCHANGED <<rows, req, wires, armed, blocked, venue>>
    BY <1>8 DEF PassGates
  <2>3. VenueMatchesWires' /\ OneExposedOrderPerSession'
    BY <2>1, <2>2 DEF VenueMatchesWires, OneExposedOrderPerSession, Exposed
  <2>4. ClearToPost'
    BY <2>1, <2>2 DEF ClearToPost, Exposed, Live
  <2> QED BY <2>3, <2>4
<1>16. ASSUME NEW c \in Callers, CancelOld(c) PROVE ExposureInv'
  <2>1. /\ pc[c] = "replace" /\ pc' = [pc EXCEPT ![c] = "judge"]
        /\ UNCHANGED <<rows, req, wires, armed, blocked>>
    BY <1>16 DEF CancelOld, Goto
  <2>2. \A a \in Attempts : venue'[a] \in {venue[a], "gone"} /\ (venue[a] = "none" => venue'[a] = "none")
    BY <1>16 DEF CancelOld, OpenStates, VenueTypeOK
  <2>3. VenueMatchesWires'
    BY <2>1, <2>2 DEF VenueMatchesWires
  <2>4. \A a \in Attempts : Exposed(a)' => Exposed(a)
    BY <2>2 DEF Exposed, OpenStates
  <2>5. ClearToPost'
    BY <2>1, <2>4 DEF ClearToPost, Live
  <2> QED BY <2>3, <2>4, <2>5 DEF OneExposedOrderPerSession
<1>17. ASSUME NEW c \in Callers, JudgeOld(c) PROVE ExposureInv'
  <2>1. PICK to \in {"submit", "settle"} : pc[c] = "judge" /\ pc' = [pc EXCEPT ![c] = to]
    BY <1>17 DEF JudgeOld
  <2>2. UNCHANGED <<rows, req, wires, armed, blocked, venue>>
    BY <1>17 DEF JudgeOld
  <2>3. VenueMatchesWires' /\ OneExposedOrderPerSession'
    BY <2>1, <2>2 DEF VenueMatchesWires, OneExposedOrderPerSession, Exposed
  <2>4. ClearToPost'
    BY <2>1, <2>2 DEF ClearToPost, Exposed, Live
  <2> QED BY <2>3, <2>4
<1>9. ASSUME NEW c \in Callers, Submit(c) \/ AckLost(c) PROVE ExposureInv'
  <2>1. PICK st \in OrderStates, to \in {"reconcile", "idle"} :
           /\ venue' = [venue EXCEPT ![req[c]] = st]
           /\ pc[c] = "submit" /\ pc' = [pc EXCEPT ![c] = to]
           /\ to = "reconcile" => st # "transit"
    BY <1>9 DEF Submit, AckLost, Goto, Post, Finish, OrderStates
  <2>2. /\ Live(c)
        /\ wires' = [wires EXCEPT ![req[c]] = @ + 1]
        /\ \A d \in Callers \ {c} : armed'[d] = armed[d] /\ blocked'[d] = blocked[d]
        /\ UNCHANGED <<rows, req>>
    BY <1>9 DEF Submit, AckLost, Post, Finish, LocalsTypeOK
  <2>3. req[c] \in Attempts /\ rows[req[c]] = "PENDING"
    BY <2>1 DEF PostingInv, CallsOwnRows
  <2>4. \A b \in Attempts : SessionOf[b] = SessionOf[req[c]] => ~Exposed(b)
    BY <2>1, <2>2 DEF ClearToPost
  <2>5. \A d \in Callers : d # c /\ pc[d] \in Holding => SessionOf[req[d]] # SessionOf[req[c]]
    BY <2>1, OneRunPerSession
  <2>6. VenueMatchesWires'
    BY <2>1, <2>2, <2>3, <2>5 DEF VenueMatchesWires, Unresolved, VenueTypeOK
  <2>7. \A a \in Attempts : Exposed(a)' => a = req[c] \/ Exposed(a)
    BY <2>1 DEF Exposed, VenueTypeOK
  <2>8. OneExposedOrderPerSession'
    BY <2>4, <2>7 DEF OneExposedOrderPerSession
  <2>9. ClearToPost'
    BY <2>1, <2>2, <2>3, <2>5, <2>7 DEF ClearToPost, Live
  <2> QED BY <2>6, <2>8, <2>9
<1>10. ASSUME NEW c \in Callers, Settle(c) PROVE ExposureInv'
  <2>1. \A a \in Attempts : a # req[c] => rows'[a] = rows[a]
    BY <1>10 DEF Settle, SettleRow, StateTypeOK
  <2>2. venue[req[c]] # "transit"
    BY <1>10 DEF Settle, VenueMatchesWires
  <2>3. /\ pc' = [pc EXCEPT ![c] = "idle"]
        /\ \A d \in Callers \ {c} : /\ req'[d] = req[d]
                                    /\ armed'[d] = armed[d]
                                    /\ blocked'[d] = blocked[d]
        /\ UNCHANGED <<venue, wires>>
    BY <1>10 DEF Settle, Finish, LocalsTypeOK
  <2>4. \A a \in Attempts : venue[a] = "transit" => rows'[a] \in Unresolved
    BY <2>1, <2>2 DEF VenueMatchesWires
  <2> QED BY <2>3, <2>4, ExposureKept
<1>11. ASSUME NEW a \in Attempts, HookSettle(a) PROVE ExposureInv'
  <2>1. venue[a] # "transit"
    BY <1>11 DEF HookSettle, Assessment, VenueMatchesWires
  <2>2. /\ \A b \in Attempts : b # a => rows'[b] = rows[b]
        /\ UNCHANGED <<pc, req, armed, blocked, venue, wires>>
    BY <1>11 DEF HookSettle, SettleRow, StateTypeOK
  <2> QED BY <2>1, <2>2 DEF VenueMatchesWires, OneExposedOrderPerSession, Exposed, ClearToPost, Live
<1>12. ASSUME NEW a \in Attempts, VenueMove(a) PROVE ExposureInv'
  <2>1. /\ UNCHANGED <<rows, pc, req, armed, blocked, wires>>
        /\ \A b \in Attempts : (venue'[b] = venue[b]) \/
              (venue[b] \in OpenStates \cup {"transit"} /\ venue'[b] \in {"live", "partial", "filled", "gone"})
    BY <1>12 DEF VenueMove, VenueTypeOK, OpenStates
  <2>2. \A b \in Attempts : Exposed(b)' => Exposed(b)
    BY <2>1 DEF Exposed
  <2>3. VenueMatchesWires'
    BY <2>1 DEF VenueMatchesWires, OpenStates
  <2>4. ClearToPost'
    BY <2>1, <2>2 DEF ClearToPost, Live
  <2> QED BY <2>2, <2>3, <2>4 DEF OneExposedOrderPerSession
<1>13. CASE UNCHANGED <<rows, pc, req, armed, blocked, venue, wires>>
  BY <1>13 DEF VenueMatchesWires, OneExposedOrderPerSession, Exposed, ClearToPost, Live
<1>14. ASSUME NEW s \in Sessions, HookRecordFill(s) PROVE ExposureInv'
  BY <1>13, <1>14 DEF HookRecordFill
<1>15. CASE NextDay \/ UNCHANGED vars
  BY <1>13, <1>15 DEF NextDay
<1> QED
  BY <1>1, <1>2, <1>3, <1>4, <1>5, <1>6, <1>7, <1>8, <1>9, <1>10, <1>11, <1>12, <1>14, <1>15,
     <1>16, <1>17
  DEF Next, CallStep

\* Types, posting and exposure, throughout.
LEMMA ExposureInvariant == Spec => [](TypeOK /\ PostingInv /\ ExposureInv)
<1>1. Init => ExposureInv
  BY DEF Init, StateInit, ExposureInv, VenueMatchesWires, ClearToPost,
         OneExposedOrderPerSession, Exposed, OpenStates, Holding
<1>2. TypeOK /\ TypeOK' /\ PostingInv /\ ExposureInv /\ [Next]_vars => ExposureInv'
  BY ExposureInductive
<1> QED
  BY <1>1, <1>2, PostingInvariant, PTL DEF Spec

\* For any number of sessions and calls: never two orders of one session at risk, because
\* only one run of a session can be past its reservation and that run has seen the
\* session without open orders.
THEOREM ExposureSafe == Spec => []OneExposedOrderPerSession
<1>1. ExposureInv => OneExposedOrderPerSession
  BY DEF ExposureInv
<1> QED
  BY <1>1, ExposureInvariant, PTL

\* A run that reaches the cancel of a cancel_replace has found its session without an order
\* at risk, so the order it names never rests.
THEOREM ReplaceSafe == Spec => []NothingLeftToReplace
<1>1. TypeOK /\ ExposureInv => NothingLeftToReplace
  <2> SUFFICES ASSUME TypeOK, ExposureInv, NEW c \in Callers, pc[c] = "replace",
                      SessionOf[Replaces[req[c]]] = SessionOf[req[c]]
               PROVE  venue[Replaces[req[c]]] \notin OpenStates
    BY DEF NothingLeftToReplace
  <2>1. Replaces[req[c]] \in Attempts
    BY CallAssumption DEF TypeOK, CallsTypeOK
  <2>2. ~Exposed(Replaces[req[c]])
    BY <2>1 DEF ExposureInv, ClearToPost
  <2> QED BY <2>2 DEF Exposed
<1> QED
  BY <1>1, ExposureInvariant, PTL

-----------------------------------------------------------------------------
(* The order caps. *)

\* The rows of a session are finitely many.
LEMMA RowsFinite ==
    ASSUME NEW s PROVE IsFiniteSet(RowsOf(s)) /\ Count(s) \in Nat
<1>1. RowsOf(s) \subseteq Attempts
  BY DEF RowsOf
<1>2. IsFiniteSet(RowsOf(s))
  BY <1>1, FS_Subset, SessionAssumption
<1> QED
  BY <1>2, FS_CardinalityType DEF Count

\* A step that adds no row keeps the caps.
LEMMA CapsKept ==
    ASSUME RowsWithinCaps,
           \A a \in Attempts : rows'[a] # "NONE" => rows[a] # "NONE"
    PROVE  RowsWithinCaps'
<1> SUFFICES ASSUME NEW s \in Sessions, NEW cap \in {MaxOrdersPerSession, MaxOrdersPerDay},
                    cap > 0
             PROVE  Count(s)' <= cap
  BY DEF RowsWithinCaps
<1>1. RowsOf(s)' \subseteq RowsOf(s)
  BY DEF RowsOf
<1>2. IsFiniteSet(RowsOf(s)') /\ Cardinality(RowsOf(s)') <= Cardinality(RowsOf(s))
  BY <1>1, RowsFinite, FS_Subset
<1>3. Cardinality(RowsOf(s)') \in Nat /\ Cardinality(RowsOf(s)) \in Nat
  BY <1>2, RowsFinite, FS_CardinalityType
<1>4. Count(s) <= cap
  BY DEF RowsWithinCaps
<1> QED
  BY <1>2, <1>3, <1>4, SessionAssumption DEF Count

\* A successful reservation adds one row to a session below its caps.
LEMMA CapsInsert ==
    ASSUME RowsWithinCaps, StateTypeOK, NEW a \in Attempts, NEW day, InsertRow(a),
           ReservationOutcome(a, day) = "RESERVED"
    PROVE  RowsWithinCaps'
<1>1. /\ rows[a] = "NONE"
      /\ ~CapReached(Count(SessionOf[a]), MaxOrdersPerSession)
      /\ ~CapReached(Count(SessionOf[a]), MaxOrdersPerDay)
  BY DEF ReservationOutcome
<1> SUFFICES ASSUME NEW s \in Sessions, NEW cap \in {MaxOrdersPerSession, MaxOrdersPerDay},
                    cap > 0
             PROVE  Count(s)' <= cap
  BY DEF RowsWithinCaps
<1>2. cap \in Int /\ Count(s) \in Nat /\ Count(s) <= cap
  BY RowsFinite, SessionAssumption DEF RowsWithinCaps
<1>3. CASE s = SessionOf[a]
  <2>1. RowsOf(s)' = RowsOf(s) \cup {a} /\ a \notin RowsOf(s)
    BY <1>1, <1>3 DEF RowsOf, InsertRow, StateTypeOK
  <2>2. Cardinality(RowsOf(s)') = Cardinality(RowsOf(s)) + 1
    BY <2>1, RowsFinite, FS_AddElement
  <2>3. Count(s) < cap
    BY <1>1, <1>2, <1>3 DEF CapReached
  <2> QED BY <1>2, <2>2, <2>3 DEF Count
<1>4. CASE s # SessionOf[a]
  <2>1. RowsOf(s)' = RowsOf(s)
    BY <1>4 DEF RowsOf, InsertRow, StateTypeOK
  <2> QED BY <1>2, <2>1 DEF Count
<1> QED
  BY <1>3, <1>4

\* Every step keeps the rows of every session within the caps.
LEMMA CapsInductive ==
    ASSUME TypeOK, RowsWithinCaps, [Next]_vars
    PROVE  RowsWithinCaps'
<1> USE DEF TypeOK
<1>1. ASSUME NEW c \in Callers, Reserve(c) \/ ReserveRaises(c) PROVE RowsWithinCaps'
  <2>1. req[c] \in Attempts
    BY <1>1 DEF Reserve, ReserveRaises, CallsTypeOK
  <2>2. \/ UNCHANGED rows
        \/ ReservationOutcome(req[c], snap[c].day) = "RESERVED" /\ InsertRow(req[c])
    BY <1>1 DEF Reserve, ReserveRaises
  <2> QED BY <2>1, <2>2, CapsKept, CapsInsert
<1>2. ASSUME NEW c \in Callers, Settle(c) PROVE RowsWithinCaps'
  BY <1>2, CapsKept DEF Settle, SettleRow, StateTypeOK
<1>3. ASSUME NEW a \in Attempts, HookSettle(a) PROVE RowsWithinCaps'
  BY <1>3, CapsKept DEF HookSettle, SettleRow, StateTypeOK
<1>4. CASE UNCHANGED rows
  BY <1>4, CapsKept
<1> QED
  BY <1>1, <1>2, <1>3, <1>4
  DEF Next, CallStep, Load, Refuse, Raise, Arm, TriggerSweep, StartupRead, StartupSweep,
      CancelAllIntent, CancelAllSweep, Abstain, PassGates, CancelOld, JudgeOld, DryRun, Submit,
      AckLost, Reconcile, VenueMove, HookRecordFill, NextDay

\* The posted orders of a session are among its rows.
LEMMA PostedWithinCaps ==
    ASSUME TypeOK, PostingInv, RowsWithinCaps
    PROVE  OrderCapRespected
<1> SUFFICES ASSUME NEW s \in Sessions, NEW cap \in {MaxOrdersPerSession, MaxOrdersPerDay},
                    cap > 0
             PROVE  Cardinality(PostedIn(s)) <= cap
  BY DEF OrderCapRespected
<1>1. PostedIn(s) \subseteq RowsOf(s)
  BY DEF PostedIn, RowsOf, PostingInv, PostedIsDurable
<1>2. IsFiniteSet(PostedIn(s)) /\ Cardinality(PostedIn(s)) <= Cardinality(RowsOf(s))
  BY <1>1, RowsFinite, FS_Subset
<1>3. Cardinality(PostedIn(s)) \in Nat /\ Cardinality(RowsOf(s)) \in Nat
  BY <1>2, RowsFinite, FS_CardinalityType
<1>4. Cardinality(RowsOf(s)) <= cap
  BY DEF RowsWithinCaps, Count
<1> QED
  BY <1>2, <1>3, <1>4, SessionAssumption

\* A fresh store has no rows.
LEMMA CapsInit == Init => RowsWithinCaps
<1> SUFFICES ASSUME Init, NEW s \in Sessions,
                    NEW cap \in {MaxOrdersPerSession, MaxOrdersPerDay}, cap > 0
             PROVE  Count(s) <= cap
  BY DEF RowsWithinCaps
<1>1. RowsOf(s) = {}
  BY DEF Init, StateInit, RowsOf
<1> QED
  BY <1>1, FS_EmptySet, SessionAssumption DEF Count

\* The rows stay within the caps throughout.
LEMMA CapsInvariant == Spec => []RowsWithinCaps
<1>1. TypeOK /\ RowsWithinCaps /\ [Next]_vars => RowsWithinCaps'
  BY CapsInductive
<1> QED
  BY <1>1, CapsInit, TypeCorrect, PTL DEF Spec

\* Whatever the interleaving of loads, reservations and settlements, the orders ever
\* posted in a session stay within the session cap and the day cap.
THEOREM OrderCapSafe == Spec => []OrderCapRespected
<1>1. TypeOK /\ PostingInv /\ RowsWithinCaps => OrderCapRespected
  BY PostedWithinCaps
<1> QED
  BY <1>1, CapsInvariant, PostingInvariant, PTL

-----------------------------------------------------------------------------
(* The refinement. *)

\* A posted order is a Place of the abstract desk.
LEMMA PostIsPlace ==
    ASSUME TypeOK, PostingInv, ExposureInv, RowsWithinCaps, NEW c \in Callers,
           Submit(c) \/ AckLost(c), NEW a0 \in Attempts, a0 = req[c]
    PROVE  Desk!Place(a0)
<1> USE DEF TypeOK, CallsTypeOK, VenueTypeOK
<1>1. PICK st \in OrderStates :
        /\ pc[c] = "submit" /\ Live(c)
        /\ venue' = [venue EXCEPT ![req[c]] = st]
        /\ wires' = [wires EXCEPT ![req[c]] = @ + 1]
        /\ req' = req
  BY DEF Submit, AckLost, Goto, Post, OrderStates
<1>2. /\ req[c] \in Attempts
      /\ wires[req[c]] = 0
      /\ rows[req[c]] = "PENDING"
  BY <1>1 DEF PostingInv, CallsOwnRows, PostedOnlyAfter, PreSend, Holding, PCs
<1>3. \A b \in Attempts : SessionOf[b] = SessionOf[req[c]] => ~Exposed(b)
  BY <1>1 DEF ExposureInv, ClearToPost
<1>4. {a \in Attempts : wires[a] > 0}' = {a \in Attempts : wires[a] > 0} \cup {req[c]}
  BY <1>1, <1>2
<1>5. {a \in Attempts : Exposed(a)}' \in
        {{a \in Attempts : Exposed(a)}, {a \in Attempts : Exposed(a)} \cup {req[c]}}
  <2>1. \A a \in Attempts : a # req[c] => (Exposed(a)' <=> Exposed(a))
    BY <1>1 DEF Exposed
  <2>2. CASE st \in OpenStates \cup {"transit"}
    <3>1. \A a \in Attempts : Exposed(a)' <=> Exposed(a) \/ a = req[c]
      BY <1>1, <1>2, <2>1, <2>2 DEF Exposed
    <3> QED BY <1>2, <3>1
  <2>3. CASE st \notin OpenStates \cup {"transit"}
    <3>1. \A a \in Attempts : Exposed(a)' <=> Exposed(a)
      BY <1>1, <1>2, <1>3, <2>1, <2>3 DEF Exposed
    <3> QED BY <3>1
  <2> QED BY <2>2, <2>3
<1>6. ASSUME MaxOrdersPerSession > 0
      PROVE  Cardinality(Desk!SameSession(req[c]) \cap {a \in Attempts : wires[a] > 0})
                < MaxOrdersPerSession
  <2> DEFINE s == SessionOf[req[c]]
             P == Desk!SameSession(req[c]) \cap {a \in Attempts : wires[a] > 0}
  <2>1. P \subseteq RowsOf(s) \ {req[c]}
    BY <1>2 DEF Desk!SameSession, RowsOf, PostingInv, PostedIsDurable
  <2>2. req[c] \in RowsOf(s)
    BY <1>2 DEF RowsOf
  <2>3. IsFiniteSet(RowsOf(s)) /\ Cardinality(RowsOf(s)) \in Nat
    BY RowsFinite DEF Count
  <2>4. /\ IsFiniteSet(RowsOf(s) \ {req[c]})
        /\ Cardinality(RowsOf(s) \ {req[c]}) = Cardinality(RowsOf(s)) - 1
    BY <2>2, <2>3, FS_RemoveElement
  <2>5. IsFiniteSet(P) /\ Cardinality(P) <= Cardinality(RowsOf(s) \ {req[c]})
    BY <2>1, <2>4, FS_Subset
  <2>6. Cardinality(P) \in Nat
    BY <2>5, FS_CardinalityType
  <2>7. Cardinality(RowsOf(s)) <= MaxOrdersPerSession
    BY <1>2, <1>6, SessionAssumption DEF RowsWithinCaps, Count
  <2> QED BY <2>3, <2>4, <2>5, <2>6, <2>7, SessionAssumption
<1>7. Desk!SameSession(req[c]) \cap {a \in Attempts : Exposed(a)} = {}
  BY <1>3 DEF Desk!SameSession
<1>8. req[c] \notin {a \in Attempts : wires[a] > 0}
  BY <1>2
<1>9. ASSUME NEW S PROVE Desk!Cardinality(S) = Cardinality(S)
  BY DEF Desk!Cardinality, Cardinality
<1> QED
  BY <1>4, <1>5, <1>6, <1>7, <1>8, <1>9 DEF Desk!Place, Desk!SameSession

\* Every other step closes orders or changes nothing the desk shows.
LEMMA OthersClose ==
    ASSUME UNCHANGED wires, \A a \in Attempts : Exposed(a)' => Exposed(a)
    PROVE  Desk!Close
<1>1. {a \in Attempts : Exposed(a)}' \in SUBSET {a \in Attempts : Exposed(a)}
  OBVIOUS
<1>2. {a \in Attempts : wires[a] > 0}' = {a \in Attempts : wires[a] > 0}
  OBVIOUS
<1> QED
  BY <1>1, <1>2 DEF Desk!Close

\* Every step of the tool is a step of the desk or changes nothing the desk shows.
LEMMA StepRefines ==
    ASSUME TypeOK, PostingInv, ExposureInv, RowsWithinCaps, [Next]_vars
    PROVE  [Desk!DeskNext]_(Desk!deskVars)
<1> USE DEF Desk!DeskNext
<1>1. ASSUME NEW c \in Callers, Submit(c) \/ AckLost(c) PROVE Desk!DeskNext
  <2>1. req[c] \in Attempts
    BY <1>1 DEF Submit, AckLost, Goto, TypeOK, CallsTypeOK
  <2>2. PICK a \in Attempts : a = req[c]
    BY <2>1
  <2>3. Desk!Place(a)
    BY <1>1, <2>2, PostIsPlace
  <2> QED BY <2>3
<1>2. ASSUME NEW c \in Callers, TriggerSweep(c) \/ StartupSweep(c) \/ CancelAllSweep(c)
      PROVE Desk!DeskNext
  <2>1. \A a \in Attempts : Exposed(a)' => Exposed(a)
    BY <1>2 DEF TriggerSweep, StartupSweep, CancelAllSweep, Swept, Exposed, OpenStates
  <2> QED BY <1>2, <2>1, OthersClose DEF TriggerSweep, StartupSweep, CancelAllSweep
<1>3. ASSUME NEW a \in Attempts, VenueMove(a) PROVE Desk!DeskNext
  <2>1. \A b \in Attempts : Exposed(b)' => Exposed(b)
    BY <1>3 DEF VenueMove, Exposed, OpenStates, TypeOK, VenueTypeOK
  <2> QED BY <1>3, <2>1, OthersClose DEF VenueMove
<1>4. CASE UNCHANGED <<wires, venue>>
  BY <1>4, OthersClose DEF Exposed
<1>5. ASSUME NEW c \in Callers, CancelOld(c) PROVE Desk!DeskNext
  <2>1. \A a \in Attempts : Exposed(a)' => Exposed(a)
    BY <1>5 DEF CancelOld, Exposed, OpenStates, TypeOK, VenueTypeOK
  <2> QED BY <1>5, <2>1, OthersClose DEF CancelOld
<1> QED
  BY <1>1, <1>2, <1>3, <1>4, <1>5
  DEF Next, CallStep, Load, Refuse, Raise, Reserve, ReserveRaises, Arm, StartupRead,
      CancelAllIntent, Abstain, PassGates, JudgeOld, DryRun, Reconcile, Settle, HookSettle,
      HookRecordFill, NextDay

\* The execution tool implements the abstract order desk: each attempt placed once, one
\* order at risk per session, the session cap kept.
THEOREM ToolImplementsDesk == Spec => ImplementsDesk
<1>1. Init => Desk!DeskInit
  BY DEF Init, Exposed, OpenStates, Desk!DeskInit
<1>2. TypeOK /\ PostingInv /\ ExposureInv /\ RowsWithinCaps /\ [Next]_vars
        => [Desk!DeskNext]_(Desk!deskVars)
  BY StepRefines
<1> QED
  BY <1>1, <1>2, ExposureInvariant, CapsInvariant, PTL DEF Spec, ImplementsDesk, Desk!DeskSpec

-----------------------------------------------------------------------------
(* Evidence and reports: what releases a row, and what a call says it did. *)

\* A row resolves only over an order that was posted.
ResolvedIsPosted == \A a \in Attempts : rows[a] = "RESOLVED" => wires[a] = 1

EvidenceInv == ResolutionBacked /\ ResolvedIsPosted

\* SentTracked of one call, and HonestResult with what makes it inductive: a call reports
\* nothing before it ends, and what it reports is about an attempt.
SentTrackedBy(c) ==
    /\ pc[c] \in PreSend \cup {"loaded"} => ~sent[c]
    /\ pc[c] \in {"replace", "judge", "submit", "reconcile"} => Admitted(c)
    /\ pc[c] = "reconcile" => sent[c] /\ wires[req[c]] = 1
    /\ pc[c] = "settle" /\ sent[c] =>
          Admitted(c) /\ recon[c] # "DEFINITIVELY_ABSENT" /\ wires[req[c]] = 1

ReportedBy(c) ==
    /\ pc[c] # "idle" => result[c] = "NONE"
    /\ result[c] \in {"SUBMITTED", "REPLAYED"} =>
          req[c] \in Attempts /\ wires[req[c]] = 1 /\ rows[req[c]] # "NONE"
    /\ result[c] \in {"DENIED", "FROZEN", "ORDER_CAP", "LOSS_CAP", "NO_ORDER"} => ~sent[c]

ReportInv == \A c \in Callers : SentTrackedBy(c) /\ ReportedBy(c)

\* A call's locals are its own.
LEMMA OthersKeepLocals ==
    ASSUME TypeOK, NEW c \in Callers, NEW d \in Callers, c # d, CallStep(d)
    PROVE  /\ pc'[c] = pc[c] /\ req'[c] = req[c] /\ recon'[c] = recon[c] /\ sent'[c] = sent[c]
           /\ snap'[c] = snap[c] /\ kill'[c] = kill[c] /\ result'[c] = result[c]
<1> USE DEF TypeOK, CallsTypeOK, LocalsTypeOK, Goto, Finish
<1>1. CASE \E a \in Attempts : Load(d, a)
  BY <1>1 DEF Load
<1>2. CASE Refuse(d) \/ Raise(d) \/ Reserve(d) \/ ReserveRaises(d) \/ Settle(d)
  BY <1>2 DEF Refuse, Raise, Reserve, ReserveRaises, Settle
<1>3. CASE Arm(d) \/ TriggerSweep(d) \/ StartupRead(d) \/ StartupSweep(d) \/ CancelAllIntent(d)
  BY <1>3 DEF Arm, TriggerSweep, StartupRead, StartupSweep, CancelAllIntent
<1>4. CASE CancelAllSweep(d) \/ Abstain(d) \/ PassGates(d) \/ CancelOld(d) \/ JudgeOld(d) \/ DryRun(d)
  BY <1>4 DEF CancelAllSweep, Abstain, PassGates, CancelOld, JudgeOld, DryRun
<1>5. CASE Submit(d) \/ AckLost(d) \/ Reconcile(d)
  BY <1>5 DEF Submit, AckLost, Post, Reconcile
<1> QED
  BY <1>1, <1>2, <1>3, <1>4, <1>5 DEF CallStep

\* The environment touches no call's locals.
LEMMA EnvKeepsLocals ==
    ASSUME [Next]_vars, \A d \in Callers : ~CallStep(d)
    PROVE  UNCHANGED callVars
BY DEF Next, VenueMove, HookSettle, HookRecordFill, NextDay

\* An order the venue shows a fill or a terminal state of was posted, once.
LEMMA ShownIsPosted ==
    ASSUME TypeOK, PostingInv, ExposureInv, NEW a \in Attempts, venue[a] \in {"partial", "filled", "gone"}
    PROVE  wires[a] = 1
BY DEF TypeOK, VenueTypeOK, PostingInv, AtMostOncePosted, ExposureInv, VenueMatchesWires

\* An order posted once stays posted once, and its row stays.
LEMMA PostedStays ==
    ASSUME TypeOK, PostingInv, NEW a \in Attempts, wires[a] = 1, [Next]_vars
    PROVE  wires'[a] = 1 /\ rows'[a] # "NONE"
<1>1. \/ \E c \in Callers : Submit(c) \/ AckLost(c)
      \/ UNCHANGED wires
  BY DEF Next, CallStep, Load, Refuse, Raise, Reserve, ReserveRaises, Arm, TriggerSweep,
         StartupRead, StartupSweep, CancelAllIntent, CancelAllSweep, Abstain, PassGates,
         CancelOld, JudgeOld, DryRun, Reconcile, Settle, VenueMove, HookSettle,
         HookRecordFill, NextDay
<1>2. ASSUME NEW c \in Callers, Submit(c) \/ AckLost(c)
      PROVE  wires'[a] \in {wires[a], wires[a] + 1}
  BY <1>2 DEF Submit, AckLost, Post, TypeOK, VenueTypeOK
<1>3. PostingInv'
  BY PostingInductive
<1> QED
  BY <1>1, <1>2, <1>3 DEF PostingInv, AtMostOncePosted, PostedIsDurable

\* What the venue has shown of an order it goes on showing, unless the order is posted anew.
LEMMA ShownStays ==
    ASSUME TypeOK, PostingInv, NEW a \in Attempts, venue[a] \in {"partial", "filled", "gone"},
           wires[a] = 1, [Next]_vars
    PROVE  venue'[a] \in {"partial", "filled", "gone"} /\ wires'[a] = 1
<1> USE DEF TypeOK, CallsTypeOK, VenueTypeOK
<1>1. ASSUME NEW c \in Callers, Submit(c) \/ AckLost(c)
      PROVE  venue'[a] \in {"partial", "filled", "gone"} /\ wires'[a] = 1
  <2>1. pc[c] = "submit" /\ req[c] \in Attempts
    BY <1>1 DEF Submit, AckLost, Goto
  <2>2. wires[req[c]] = 0
    BY <2>1 DEF PostingInv, PostedOnlyAfter, PreSend, Holding, PCs
  <2> QED BY <1>1, <2>1, <2>2 DEF Submit, AckLost, Post
<1>2. ASSUME NEW c \in Callers, TriggerSweep(c) \/ StartupSweep(c) \/ CancelAllSweep(c)
      PROVE  venue'[a] \in {"partial", "filled", "gone"} /\ wires'[a] = 1
  BY <1>2 DEF TriggerSweep, StartupSweep, CancelAllSweep, Swept
<1>3. ASSUME NEW c \in Callers, CancelOld(c)
      PROVE  venue'[a] \in {"partial", "filled", "gone"} /\ wires'[a] = 1
  BY <1>3 DEF CancelOld
<1>4. ASSUME NEW b \in Attempts, VenueMove(b)
      PROVE  venue'[a] \in {"partial", "filled", "gone"} /\ wires'[a] = 1
  BY <1>4 DEF VenueMove
<1>5. CASE UNCHANGED <<wires, venue>>
  BY <1>5
<1> QED
  BY <1>1, <1>2, <1>3, <1>4, <1>5
  DEF Next, CallStep, Load, Refuse, Raise, Reserve, ReserveRaises, Arm, StartupRead,
      CancelAllIntent, Abstain, PassGates, JudgeOld, DryRun, Reconcile, Settle, HookSettle,
      HookRecordFill, NextDay

\* How rows may change: a fresh reservation, or a settlement on what is known.
LEMMA RowSteps ==
    ASSUME TypeOK, PostingInv, EvidenceInv, NEW a \in Attempts, [Next]_vars, rows'[a] # rows[a]
    PROVE  \/ rows[a] = "NONE" /\ rows'[a] = "PENDING"
           \/ rows'[a] = "NONE" /\ wires[a] = 0
           \/ rows'[a] = "RESOLVED" /\ venue[a] \in {"partial", "filled", "gone"}
           \/ rows[a] = "PENDING" /\ rows'[a] = "AMBIGUOUS"
<1> USE DEF TypeOK, StateTypeOK, CallsTypeOK
<1>1. ASSUME NEW c \in Callers, Reserve(c) \/ ReserveRaises(c)
      PROVE  rows[a] = "NONE" /\ rows'[a] = "PENDING"
  <2>1. req[c] \in Attempts
    BY <1>1 DEF Reserve, ReserveRaises
  <2>2. ReservationOutcome(req[c], snap[c].day) = "RESERVED" /\ InsertRow(req[c])
    BY <1>1 DEF Reserve, ReserveRaises
  <2> QED BY <2>1, <2>2 DEF InsertRow, ReservationOutcome
<1>2. ASSUME NEW c \in Callers, Settle(c)
      PROVE  \/ rows'[a] = "NONE" /\ wires[a] = 0
             \/ rows'[a] = "RESOLVED" /\ venue[a] \in {"partial", "filled", "gone"}
             \/ rows[a] = "PENDING" /\ rows'[a] = "AMBIGUOUS"
  <2>1. pc[c] = "settle" /\ req[c] = a /\ rows[a] = "PENDING"
    BY <1>2 DEF Settle, SettleRow, PostingInv, CallsOwnRows, Holding, PCs
  <2>2. rows'[a] = IF recon[c] = "DEFINITIVELY_ABSENT" THEN "NONE" ELSE recon[c]
    BY <1>2, <2>1 DEF Settle, SettleRow
  <2>3. recon[c] \in {"DEFINITIVELY_ABSENT", "RESOLVED", "AMBIGUOUS"}
    BY DEF LocalsTypeOK
  <2> QED BY <2>1, <2>2, <2>3 DEF PostingInv, PostedOnlyAfter, EvidenceInv, ResolutionBacked
<1>3. ASSUME NEW b \in Attempts, HookSettle(b)
      PROVE  \/ rows'[a] = "NONE" /\ wires[a] = 0
             \/ rows'[a] = "RESOLVED" /\ venue[a] \in {"partial", "filled", "gone"}
  BY <1>3 DEF HookSettle, SettleRow, Assessment
<1> QED
  BY <1>1, <1>2, <1>3
  DEF Next, CallStep, Load, Refuse, Raise, Arm, TriggerSweep, StartupRead, StartupSweep,
      CancelAllIntent, CancelAllSweep, Abstain, PassGates, CancelOld, JudgeOld, DryRun, Submit,
      AckLost, Reconcile, VenueMove, HookRecordFill, NextDay

\* Every step keeps resolutions backed by the venue.
LEMMA EvidenceInductive ==
    ASSUME TypeOK, TypeOK', PostingInv, ExposureInv, EvidenceInv, [Next]_vars
    PROVE  EvidenceInv'
<1>1. ResolvedIsPosted'
  <2> SUFFICES ASSUME NEW a \in Attempts, rows'[a] = "RESOLVED" PROVE wires'[a] = 1
    BY DEF ResolvedIsPosted
  <2>1. CASE rows'[a] = rows[a]
    <3>1. wires[a] = 1
      BY <2>1 DEF EvidenceInv, ResolvedIsPosted
    <3> QED BY <3>1, PostedStays
  <2>2. CASE rows'[a] # rows[a]
    <3>1. venue[a] \in {"partial", "filled", "gone"}
      BY <2>2, RowSteps
    <3> QED BY <3>1, ShownIsPosted, ShownStays
  <2> QED BY <2>1, <2>2
<1>2. ResolutionBacked'
  <2> SUFFICES ASSUME NEW c \in Callers, pc'[c] = "settle", recon'[c] = "RESOLVED"
               PROVE  venue'[req'[c]] \in {"partial", "filled", "gone"}
    BY DEF ResolutionBacked
  <2>1. CASE pc[c] = "settle"
    <3>1. recon[c] = recon'[c] /\ req'[c] = req[c] /\ req[c] \in Attempts
      <4>1. req[c] \in Attempts
        BY <2>1 DEF TypeOK, CallsTypeOK
      <4>2. ~CallStep(c)
        BY <2>1
        DEF CallStep, Load, Refuse, Raise, Reserve, ReserveRaises, Arm, TriggerSweep,
            StartupRead, StartupSweep, CancelAllIntent, CancelAllSweep, Abstain, PassGates,
            CancelOld, JudgeOld, DryRun, Submit, AckLost, Reconcile, Settle, Goto, Finish,
            TypeOK, CallsTypeOK
      <4> QED BY <4>1, <4>2, OthersKeepLocals, EnvKeepsLocals
    <3>2. venue[req[c]] \in {"partial", "filled", "gone"}
      BY <2>1, <3>1 DEF EvidenceInv, ResolutionBacked
    <3> QED BY <3>1, <3>2, ShownIsPosted, ShownStays
  <2>2. CASE pc[c] # "settle"
    <3>1. Reconcile(c)
      <4>1. CallStep(c)
        BY <2>2, OthersKeepLocals, EnvKeepsLocals
      <4>2. CASE CancelAllSweep(c) \/ Abstain(c) \/ DryRun(c) \/ JudgeOld(c)
        BY <4>2 DEF CancelAllSweep, Abstain, DryRun, JudgeOld, Goto, TypeOK, CallsTypeOK,
                    LocalsTypeOK
      <4> QED
        BY <4>1, <4>2
        DEF CallStep, Load, Refuse, Raise, Reserve, ReserveRaises, Arm, TriggerSweep,
            StartupRead, StartupSweep, CancelAllIntent, PassGates, CancelOld, Submit, AckLost,
            Settle, Goto, Finish, TypeOK, CallsTypeOK
    <3> QED BY <3>1 DEF Reconcile, Assessment, TypeOK, CallsTypeOK, LocalsTypeOK
  <2> QED BY <2>1, <2>2
<1> QED
  BY <1>1, <1>2 DEF EvidenceInv

\* Types, posting, exposure and evidence, throughout.
LEMMA EvidenceInvariant == Spec => [](TypeOK /\ PostingInv /\ EvidenceInv)
<1>1. Init => EvidenceInv
  BY DEF Init, StateInit, EvidenceInv, ResolutionBacked, ResolvedIsPosted
<1>2. TypeOK /\ TypeOK' /\ PostingInv /\ ExposureInv /\ EvidenceInv /\ [Next]_vars => EvidenceInv'
  BY EvidenceInductive
<1> QED
  BY <1>1, <1>2, ExposureInvariant, PTL DEF Spec

\* An attempt stops freezing its session only when nothing was posted for it or the venue
\* shows a fill or a terminal state, whatever is retried, lost or settled by the hook.
THEOREM EvidenceSafe == Spec => UnfrozenOnEvidence
<1>1. TypeOK /\ PostingInv /\ EvidenceInv /\ [Next]_vars =>
        [\A a \in Attempts :
           rows[a] \in Unresolved /\ rows'[a] \notin Unresolved =>
             wires[a] = 0 \/ venue[a] \in {"partial", "filled", "gone"}]_vars
  BY RowSteps DEF Unresolved
<1> QED
  BY <1>1, EvidenceInvariant, PTL DEF Spec, UnfrozenOnEvidence

\* A step of another call or of the environment leaves what a call knows and reports true.
LEMMA ReportKept ==
    ASSUME TypeOK, PostingInv, ReportInv, [Next]_vars, NEW c \in Callers, ~CallStep(c)
    PROVE  SentTrackedBy(c)' /\ ReportedBy(c)'
<1>1. /\ pc'[c] = pc[c] /\ req'[c] = req[c] /\ recon'[c] = recon[c] /\ sent'[c] = sent[c]
      /\ snap'[c] = snap[c] /\ kill'[c] = kill[c] /\ result'[c] = result[c]
  BY OthersKeepLocals, EnvKeepsLocals
<1>2. Admitted(c)' = Admitted(c)
  BY <1>1 DEF Admitted
<1>3. SentTrackedBy(c)'
  <2>1. pc[c] # "idle" => req[c] \in Attempts
    BY DEF TypeOK, CallsTypeOK
  <2> QED BY <1>1, <1>2, <2>1, PostedStays DEF ReportInv, SentTrackedBy
<1>4. ReportedBy(c)'
  <2>1. result[c] \in {"SUBMITTED", "REPLAYED"} => req[c] \in Attempts
    BY DEF ReportInv, ReportedBy
  <2> QED BY <1>1, <2>1, PostedStays DEF ReportInv, ReportedBy
<1> QED
  BY <1>3, <1>4

\* A call's own step keeps what it knows of its post.
LEMMA SentTrackedStep ==
    ASSUME TypeOK, TypeOK', PostingInv, ReportInv, NEW c \in Callers, CallStep(c)
    PROVE  SentTrackedBy(c)'
<1> USE DEF TypeOK, CallsTypeOK, LocalsTypeOK, ReportInv, SentTrackedBy, PreSend, Holding, PCs
<1>1. CASE \E a \in Attempts : Load(c, a)
  BY <1>1 DEF Load, Goto
<1>2. CASE Refuse(c) \/ Raise(c) \/ ReserveRaises(c) \/ Settle(c) \/ AckLost(c)
  <2>1. pc' = [pc EXCEPT ![c] = "idle"]
    BY <1>2 DEF Refuse, Raise, ReserveRaises, Settle, AckLost, Finish
  <2> QED BY <2>1
<1>3. CASE Reserve(c)
  BY <1>3 DEF Reserve, Finish
<1>4. CASE \/ Arm(c) \/ TriggerSweep(c) \/ StartupRead(c) \/ StartupSweep(c) \/ CancelAllIntent(c)
  <2>1. /\ pc[c] \in PreSend /\ UNCHANGED sent
        /\ pc'[c] \in {"triggers", "startup", "sweep", "decide", "cancelall"}
    BY <1>4 DEF Arm, TriggerSweep, StartupRead, StartupSweep, CancelAllIntent, Goto
  <2> QED BY <2>1
<1>5. CASE CancelAllSweep(c) \/ Abstain(c) \/ DryRun(c)
  <2>1. pc[c] \in PreSend /\ UNCHANGED sent /\ pc'[c] = "settle"
    BY <1>5 DEF CancelAllSweep, Abstain, DryRun, Goto
  <2> QED BY <2>1
<1>6. CASE PassGates(c) \/ CancelOld(c) \/ JudgeOld(c)
  <2>1. /\ pc[c] \in PreSend /\ UNCHANGED <<sent, kill, snap>>
        /\ pc'[c] \in {"replace", "judge", "submit", "settle"}
    BY <1>6 DEF PassGates, CancelOld, JudgeOld, Goto
  <2>2. Admitted(c)
    BY <1>6 DEF PassGates, CancelOld, JudgeOld, Goto
  <2>3. Admitted(c)'
    BY <2>1, <2>2 DEF Admitted
  <2> QED BY <2>1, <2>3
<1>7. CASE Submit(c)
  <2>1. /\ pc[c] = "submit" /\ pc'[c] = "reconcile" /\ sent'[c] /\ UNCHANGED <<kill, snap, req>>
        /\ wires' = [wires EXCEPT ![req[c]] = @ + 1]
    BY <1>7 DEF Submit, Post, Goto
  <2>2. wires[req[c]] = 0 /\ req[c] \in Attempts
    BY <2>1 DEF PostingInv, PostedOnlyAfter
  <2>3. Admitted(c)'
    BY <2>1 DEF Admitted
  <2> QED BY <2>1, <2>2, <2>3 DEF VenueTypeOK
<1>8. CASE Reconcile(c)
  <2>1. pc[c] = "reconcile" /\ pc'[c] = "settle" /\ UNCHANGED <<sent, kill, snap, req, wires>>
    BY <1>8 DEF Reconcile, Goto
  <2>2. recon'[c] # "DEFINITIVELY_ABSENT"
    BY <1>8 DEF Reconcile, Assessment
  <2>3. Admitted(c)'
    BY <2>1 DEF Admitted
  <2> QED BY <2>1, <2>2, <2>3
<1> QED
  BY <1>1, <1>2, <1>3, <1>4, <1>5, <1>6, <1>7, <1>8 DEF CallStep

\* What a call reports when it ends is what it did.
LEMMA ReportedStep ==
    ASSUME TypeOK, PostingInv, EvidenceInv, ReportInv, NEW c \in Callers, CallStep(c)
    PROVE  ReportedBy(c)'
<1> USE DEF TypeOK, CallsTypeOK, ReportInv
<1>0. pc[c] # "idle" => req[c] \in Attempts /\ result[c] = "NONE"
  BY DEF ReportedBy
<1>1. CASE \E a \in Attempts : Load(c, a)
  BY <1>1 DEF Load, Goto, ReportedBy
<1>2. CASE Refuse(c) \/ ReserveRaises(c)
  <2>1. pc[c] = "loaded" /\ result'[c] = "DENIED" /\ pc'[c] = "idle" /\ UNCHANGED sent
    BY <1>2 DEF Refuse, ReserveRaises, Finish
  <2> QED BY <2>1 DEF ReportedBy, SentTrackedBy
<1>3. CASE Raise(c) \/ AckLost(c)
  BY <1>3 DEF Raise, AckLost, Finish, ReportedBy
<1>4. CASE Reserve(c)
  <2>1. CASE ReservationOutcome(req[c], snap[c].day) = "RESERVED"
    BY <1>0, <1>4, <2>1 DEF Reserve, ReportedBy
  <2>2. CASE ReservationOutcome(req[c], snap[c].day) # "RESERVED"
    <3>1. /\ pc[c] = "loaded" /\ pc'[c] = "idle"
          /\ result'[c] = Denial(ReservationOutcome(req[c], snap[c].day))
          /\ UNCHANGED <<sent, req, wires, rows>>
      BY <1>4, <2>2 DEF Reserve, Finish
    <3>2. ~sent[c]
      BY <3>1 DEF SentTrackedBy
    <3>3. CASE ReservationOutcome(req[c], snap[c].day) = "COMMITTED"
      <4>1. rows[req[c]] = "RESOLVED"
        BY <3>3 DEF ReservationOutcome
      <4>2. req[c] \in Attempts /\ wires[req[c]] = 1
        BY <1>0, <3>1, <4>1 DEF EvidenceInv, ResolvedIsPosted
      <4> QED BY <3>1, <3>2, <4>1, <4>2 DEF ReportedBy
    <3>4. CASE ReservationOutcome(req[c], snap[c].day) # "COMMITTED"
      <4>1. result'[c] \in {"FROZEN", "ORDER_CAP", "LOSS_CAP"}
        BY <2>2, <3>1, <3>4 DEF ReservationOutcome, Denial
      <4> QED BY <3>1, <3>2, <4>1 DEF ReportedBy
    <3> QED BY <3>3, <3>4
  <2> QED BY <2>1, <2>2
<1>5. CASE Settle(c)
  <2>1. /\ pc[c] = "settle" /\ pc'[c] = "idle" /\ result'[c] = Disposition(c)
        /\ UNCHANGED <<sent, req, wires>>
    BY <1>5 DEF Settle, Finish
  <2>2. CASE sent[c]
    <3>1. /\ wires[req[c]] = 1 /\ result'[c] = "SUBMITTED"
          /\ recon[c] # "DEFINITIVELY_ABSENT" /\ req[c] \in Attempts
      BY <1>0, <2>1, <2>2 DEF SentTrackedBy, Disposition
    <3>2. rows'[req[c]] # "NONE"
      <4>1. rows[req[c]] # "NONE" /\ recon[c] # "NONE"
        BY <3>1 DEF PostingInv, PostedIsDurable, LocalsTypeOK
      <4> QED BY <1>5, <3>1, <4>1 DEF Settle, SettleRow, StateTypeOK
    <3> QED BY <2>1, <2>2, <3>1, <3>2 DEF ReportedBy
  <2>3. CASE ~sent[c]
    <3>1. result'[c] \in {"DENIED", "NO_ORDER"}
      BY <2>1, <2>3 DEF Disposition
    <3> QED BY <2>1, <2>3, <3>1 DEF ReportedBy
  <2> QED BY <2>2, <2>3
<1>6. CASE result'[c] = result[c] /\ pc[c] # "idle"
  BY <1>0, <1>6 DEF ReportedBy
<1>7. ASSUME Submit(c) \/ Reconcile(c) \/ (QuietStep(c) /\ UNCHANGED result) PROVE ReportedBy(c)'
  BY <1>6, <1>7 DEF Submit, Reconcile, QuietStep, Goto, PreSend, Holding
<1>8. ASSUME \/ Arm(c) \/ TriggerSweep(c) \/ StartupRead(c) \/ StartupSweep(c)
             \/ CancelAllIntent(c) \/ CancelAllSweep(c) \/ Abstain(c) \/ PassGates(c)
             \/ CancelOld(c) \/ JudgeOld(c) \/ DryRun(c)
      PROVE  QuietStep(c) /\ UNCHANGED result
  <2>1. QuietStep(c)
    BY <1>8, QuietSteps
  <2>2. UNCHANGED result
    BY <1>8 DEF Arm, TriggerSweep, StartupRead, StartupSweep, CancelAllIntent, CancelAllSweep,
                Abstain, PassGates, CancelOld, JudgeOld, DryRun
  <2> QED BY <2>1, <2>2
<1> QED
  BY <1>1, <1>2, <1>3, <1>4, <1>5, <1>7, <1>8 DEF CallStep

\* Every step keeps the reports true.
LEMMA ReportInductive ==
    ASSUME TypeOK, TypeOK', PostingInv, EvidenceInv, ReportInv, [Next]_vars
    PROVE  ReportInv'
<1> SUFFICES ASSUME NEW c \in Callers PROVE SentTrackedBy(c)' /\ ReportedBy(c)'
  BY DEF ReportInv
<1>1. CASE CallStep(c)
  BY <1>1, SentTrackedStep, ReportedStep
<1>2. CASE ~CallStep(c)
  BY <1>2, ReportKept
<1> QED
  BY <1>1, <1>2

\* What a call answers is what it did, whatever the other calls, the venue and the hook do:
\* SUBMITTED and the idempotent replay name an attempt with exactly one posted, durable
\* order, and a denial never hides an order of the same call.
THEOREM ReportSafe == Spec => []HonestResult
<1>1. Init => ReportInv
  BY DEF Init, PreSend, Holding, ReportInv, SentTrackedBy, ReportedBy
<1>2. TypeOK /\ TypeOK' /\ PostingInv /\ EvidenceInv /\ ReportInv /\ [Next]_vars => ReportInv'
  BY ReportInductive
<1>3. ReportInv => HonestResult
  BY DEF ReportInv, ReportedBy, HonestResult
<1> QED
  BY <1>1, <1>2, <1>3, EvidenceInvariant, PTL DEF Spec

-----------------------------------------------------------------------------
(* The loss cap: orders posted once the recorded loss has reached it. *)

LateInv == LateTracked /\ AtMostOneLateOrder

\* A reservation is granted only below the session's loss cap.
LEMMA ReservedBelowCap ==
    ASSUME NEW a \in Attempts, NEW d, ReservationOutcome(a, d) = "RESERVED"
    PROVE  ~SessionLossBreached(SessionOf[a])
BY DEF ReservationOutcome, SessionLossBreached

\* Every step keeps to one late order per session: the call that posts it was the only
\* one of its session past its reservation, and no other is let past it.
LEMMA LateInductive ==
    ASSUME TypeOK, TypeOK', PostingInv, LateInv, [Next]_vars
    PROVE  LateInv'
<1> USE DEF LateInv, LateTracked, AtMostOneLateOrder, TypeOK, CallsTypeOK
<1>0. late \in [Sessions -> Nat] /\ SessionOf \in [Attempts -> Sessions]
  BY SessionAssumption DEF VenueTypeOK
<1>1. CASE /\ UNCHANGED <<late, netSession, req>>
           /\ \A c \in Callers : pc'[c] \in PreSend => pc[c] \in PreSend
  BY <1>1 DEF SessionLossBreached, LossOf
<1>2. ASSUME NEW c \in Callers, NEW a \in Attempts, Load(c, a) PROVE LateInv'
  <2>1. /\ UNCHANGED <<late, netSession>> /\ pc' = [pc EXCEPT ![c] = "loaded"]
        /\ req' = [req EXCEPT ![c] = a]
    BY <1>2 DEF Load, Goto
  <2>2. \A d \in Callers : pc'[d] \in PreSend => pc[d] \in PreSend /\ req'[d] = req[d]
    BY <2>1 DEF PreSend, Holding
  <2> QED BY <2>1, <2>2 DEF SessionLossBreached, LossOf
<1>3. ASSUME NEW c \in Callers, Reserve(c) PROVE LateInv'
  <2>1. CASE ReservationOutcome(req[c], snap[c].day) = "RESERVED"
    <3>1. /\ UNCHANGED <<late, netSession, req>> /\ pc' = [pc EXCEPT ![c] = "reserved"]
          /\ req[c] \in Attempts
      BY <1>3, <2>1 DEF Reserve
    <3>2. ~SessionLossBreached(SessionOf[req[c]])
      BY <2>1, <3>1, ReservedBelowCap
    <3>3. late[SessionOf[req[c]]] = 0
      BY <1>0, <3>1, <3>2
    <3> QED BY <1>0, <3>1, <3>3 DEF SessionLossBreached, LossOf
  <2>2. CASE ReservationOutcome(req[c], snap[c].day) # "RESERVED"
    BY <1>1, <1>3, <2>2 DEF Reserve, Finish, PreSend, Holding
  <2> QED BY <2>1, <2>2
<1>4. ASSUME NEW c \in Callers, Submit(c) \/ AckLost(c) PROVE LateInv'
  <2> DEFINE s == SessionOf[req[c]]
  <2>1. /\ pc[c] = "submit" /\ req[c] \in Attempts /\ s \in Sessions
        /\ UNCHANGED <<netSession, req>>
    BY <1>0, <1>4 DEF Submit, AckLost, Goto
  <2>2. \A d \in Callers : pc'[d] \in PreSend => d # c /\ pc[d] \in PreSend
    BY <1>4 DEF Submit, AckLost, Goto, Finish, PreSend, Holding
  <2>3. late' = IF SessionLossBreached(s) THEN [late EXCEPT ![s] = @ + 1] ELSE late
    BY <1>4 DEF Submit, AckLost, Post
  <2>4. late[s] = 0
    BY <1>0, <2>1 DEF PreSend, Holding, PCs
  <2>5. \A d \in Callers : pc'[d] \in PreSend => SessionOf[req[d]] # s
    BY <2>1, <2>2, OneRunPerSession DEF PreSend, Holding, PCs
  <2>6. \A t \in Sessions : SessionLossBreached(t)' <=> SessionLossBreached(t)
    BY <2>1 DEF SessionLossBreached, LossOf
  <2>7. \A t \in Sessions : /\ t # s => late'[t] = late[t]
                            /\ late'[s] <= 1
                            /\ ~SessionLossBreached(s) => late'[s] = 0
    BY <1>0, <2>1, <2>3, <2>4
  <2> QED BY <2>1, <2>2, <2>4, <2>5, <2>6, <2>7
<1>5. ASSUME NEW s \in Sessions, HookRecordFill(s) PROVE LateInv'
  <2>1. UNCHANGED <<pc, req>>
    BY <1>5 DEF HookRecordFill
  <2>2. \A t \in Sessions : t # s => netSession'[t] = netSession[t] /\ late'[t] = late[t]
    BY <1>0, <1>5 DEF HookRecordFill, RecordFill, StateTypeOK
  <2>3. \/ SessionLossBreached(s)' /\ late'[s] = late[s]
        \/ late'[s] = 0
    BY <1>0, <1>5 DEF HookRecordFill, SessionLossBreached
  <2>4. \A t \in Sessions : t # s => (SessionLossBreached(t)' <=> SessionLossBreached(t))
    BY <2>2 DEF SessionLossBreached, LossOf
  <2> QED BY <1>0, <2>1, <2>2, <2>3, <2>4
<1>6. ASSUME NEW c \in Callers, QuietStep(c), UNCHANGED <<late, netSession>> PROVE LateInv'
  BY <1>1, <1>6 DEF QuietStep
<1>7. ASSUME NEW c \in Callers,
             Refuse(c) \/ ReserveRaises(c) \/ Reconcile(c) \/ Settle(c) \/ Raise(c)
      PROVE  LateInv'
  BY <1>1, <1>7 DEF Refuse, ReserveRaises, Reconcile, Settle, Raise, Goto, Finish, PreSend, Holding
<1>8. ASSUME NEW c \in Callers,
             \/ Arm(c) \/ TriggerSweep(c) \/ StartupRead(c) \/ StartupSweep(c)
             \/ CancelAllIntent(c) \/ CancelAllSweep(c) \/ Abstain(c) \/ PassGates(c)
             \/ CancelOld(c) \/ JudgeOld(c) \/ DryRun(c)
      PROVE  LateInv'
  <2>1. UNCHANGED <<late, netSession>>
    BY <1>8 DEF Arm, TriggerSweep, StartupRead, StartupSweep, CancelAllIntent, CancelAllSweep,
                Abstain, PassGates, CancelOld, JudgeOld, DryRun
  <2> QED BY <1>6, <1>8, <2>1, QuietSteps
<1>9. CASE \/ \E a \in Attempts : VenueMove(a) \/ HookSettle(a)
           \/ NextDay \/ UNCHANGED vars
  <2>1. UNCHANGED <<late, netSession, req, pc>>
    BY <1>9 DEF VenueMove, HookSettle, NextDay
  <2> QED BY <1>1, <2>1
<1> QED
  BY <1>2, <1>3, <1>4, <1>5, <1>7, <1>8, <1>9 DEF Next, CallStep

\* Once a session's recorded loss is at its cap at most one more order of it is posted,
\* however many calls had loaded the smaller loss.
THEOREM LateSafe == Spec => []AtMostOneLateOrder
<1>1. Init => LateInv
  BY DEF Init, PreSend, Holding, LateInv, LateTracked, AtMostOneLateOrder
<1>2. TypeOK /\ TypeOK' /\ PostingInv /\ LateInv /\ [Next]_vars => LateInv'
  BY LateInductive
<1>3. LateInv => AtMostOneLateOrder
  BY DEF LateInv
<1> QED
  BY <1>1, <1>2, <1>3, PostingInvariant, PTL DEF Spec

=============================================================================
