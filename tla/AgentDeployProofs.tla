------------------------- MODULE AgentDeployProofs --------------------------
(***************************************************************************)
(* Proofs that deploying an agent, for any number of duplicate requests,    *)
(* configurations, kills and crashes, makes one wallet, drives one          *)
(* market-maker run and drives nothing that was not vetted.                 *)
(***************************************************************************)
EXTENDS AgentDeploy, TLAPS, FiniteSetTheorems

USE DEF PENDING, WALLET_REQUESTED, WALLET_CREATE_UNCERTAIN, WALLET_CREATED, WALLET_BOUND,
        BINDING_PERSIST_FAILED, BINDING_PERSISTED, AttemptStatus

\* The settings and what launches found of them.
gateVars == <<provisioning, gate>>
USE DEF gateVars

ReqPcs == {"idle", "prior", "preflight", "claim", "duplicate", "target", "persist", "answered",
           "refused", "lost"}

\* What a task of the saga knows, or has made sure of, where it is.
SagaKnows(t) ==
    /\ saga[t].pc # "idle" => attempt # None
    /\ saga[t].pc = "admit" => saga[t].status <= attempt.status
    /\ saga[t].pc \in {"reconcile", "create", "retry"} => attempt.status >= WALLET_REQUESTED
    /\ saga[t].pc \in {"readcur", "cas"} =>
          /\ saga[t].after = "retry" => attempt.status >= WALLET_REQUESTED
          /\ saga[t].goal = BINDING_PERSISTED \/ saga[t].after = "done" => record # None
    /\ saga[t].pc = "done" => record # None
    /\ saga[t].pc = "create" => (idemAt # None => now - idemAt < Window)

\* The provider has seen the idempotency key only after the claim and the request, and has
\* made no wallet before.
KeyUse ==
    /\ attempt # None => attempt.created <= now
    /\ idemAt = None => wallets = 0
    /\ idemAt # None =>
          /\ attempt # None
          /\ attempt.created <= idemAt /\ idemAt <= now
          /\ attempt.status >= WALLET_REQUESTED

\* An attempt that says the binding is persisted has its record.
BindingRecorded == attempt # None => (attempt.status = BINDING_PERSISTED => record # None)

WalletInv == (\A t \in Tasks : SagaKnows(t)) /\ KeyUse /\ BindingRecorded /\ OneWallet

\* From its lease to the write that releases it.
HoldsLease(r) == launch[r] = "release" \/ FailsLease(r)

\* Which rows are there for a request and its launch, whose the lease is, and which gate the
\* launch went through.
LaunchKnows(r) ==
    /\ req[r].pc \in {"prior", "duplicate", "target", "persist"} => attempt # None
    /\ req[r].pc \notin {"answered", "lost"} => launch[r] = "none"
    /\ launch[r] # "none" => attempt # None /\ instance # None
    /\ launch[r] \in {"none", "start", "provision", "lease", "handle", "activate"} => phase[r] = None
    /\ launch[r] \in {"provision", "lease", "handle", "activate", "release", "releaseFailed"} => MM(r)
    /\ MM(r) /\ launch[r] = "driving" => phase[r] \in {"active", "cancelling"}
    /\ MM(r) /\ HoldsLease(r) => lease # None /\ lease.run_id = r
    /\ MM(r) /\ r \in driven => lease # None /\ lease.run_id = r
    /\ launch[r] \in {"none", "start"} => r \notin driven
    /\ launch[r] = "provision" => gate[r] = "enabled"
    /\ MM(r) /\ (launch[r] = "lease" \/ HoldsLease(r) \/ r \in driven) => HasWallet(r)
    /\ req[r].pc \in {"claim", "duplicate", "target", "persist"} \/ launch[r] # "none" \/ r \in driven
          => \E w \in World : PreflightOk(config[r], w)

LaunchInv ==
    /\ \A r \in Tasks : LaunchKnows(r)
    /\ KilledNeverCompletes

-----------------------------------------------------------------------------
(* The saga's own moves. *)

SagaPcs == {"idle", "read", "admit", "request", "reconcile", "create", "retry", "reread",
            "recover", "readmit", "record", "persist", "readcur", "cas", "done", "raised",
            "conflict"}

\* The other tasks stay where they are.
OthersStay(t) == \A u \in Tasks : u # t => saga'[u] = saga[u]

\* The idle task is one.
LEMMA IdleIsSaga == IdleSaga \in Saga /\ IdleSaga.pc = "idle"
BY ProvisioningAssumption DEF IdleSaga, Saga

\* A task that goes on stands at the point it went to.
LEMMA GotoMoves ==
    ASSUME saga \in [Tasks -> Saga], NEW t \in Tasks, NEW p \in SagaPcs, Goto(t, p)
    PROVE  saga' \in [Tasks -> Saga] /\ OthersStay(t) /\ saga'[t].pc = p
<1> DEFINE creates == IF p \in {"request", "reconcile", "create", "retry"}
                      THEN saga[t].creates ELSE 0
           new == [IdleSaga EXCEPT !.pc = p, !.reentry = saga[t].reentry, !.creates = creates]
<1>1. saga[t].creates \in 0..2 /\ saga[t].reentry \in 0..MaxReentries
  BY DEF Saga
<1>2. saga' = [saga EXCEPT ![t] = new]
  BY DEF Goto
<1>3. creates \in 0..2
  BY <1>1
<1> HIDE DEF creates
<1>4. new \in Saga /\ new.pc = p
  BY <1>1, <1>3, IdleIsSaga DEF Saga, SagaPcs
<1> HIDE DEF new
<1> QED
  BY <1>2, <1>4 DEF OthersStay

\* A task that starts to advance the attempt remembers where to, and where to go on.
LEMMA ToStatusMoves ==
    ASSUME saga \in [Tasks -> Saga], NEW t \in Tasks, NEW g \in AttemptStatus,
           NEW a \in {"idle", "retry", "raised", "readmit", "record", "done"}, ToStatus(t, g, a)
    PROVE  /\ saga' \in [Tasks -> Saga] /\ OthersStay(t)
           /\ saga'[t].pc = "readcur" /\ saga'[t].goal = g /\ saga'[t].after = a
<1> DEFINE new == [saga[t] EXCEPT !.pc = "readcur", !.goal = g, !.after = a]
<1>1. saga' = [saga EXCEPT ![t] = new]
  BY DEF ToStatus
<1>2. new \in Saga /\ new.pc = "readcur" /\ new.goal = g /\ new.after = a
  BY DEF Saga
<1> HIDE DEF new
<1> QED
  BY <1>1, <1>2 DEF OthersStay

\* A task that has read the attempt remembers its status.
LEMMA ReadMoves ==
    ASSUME saga \in [Tasks -> Saga], NEW t \in Tasks, NEW p \in {"admit", "cas"},
           NEW st \in AttemptStatus,
           saga' = [saga EXCEPT ![t].pc = p, ![t].status = st]
    PROVE  /\ saga' \in [Tasks -> Saga] /\ OthersStay(t)
           /\ saga'[t].pc = p /\ saga'[t].status = st
           /\ saga'[t].goal = saga[t].goal /\ saga'[t].after = saga[t].after
BY DEF Saga, OthersStay

\* A task at the top of the saga.
LEMMA BeginMoves ==
    ASSUME saga \in [Tasks -> Saga], NEW t \in Tasks, NEW n \in 0..MaxReentries,
           saga' = [saga EXCEPT ![t] = Begin(n)]
    PROVE  saga' \in [Tasks -> Saga] /\ OthersStay(t) /\ saga'[t].pc = "read"
<1> DEFINE new == [IdleSaga EXCEPT !.pc = "read", !.reentry = n, !.creates = 2]
<1>1. saga' = [saga EXCEPT ![t] = new]
  BY DEF Begin
<1>2. new \in Saga /\ new.pc = "read"
  <2>1. 2 \in 0..2 /\ n \in 0..MaxReentries
    OBVIOUS
  <2>2. \A x \in 0..2 : LET y == [IdleSaga EXCEPT !.pc = "read", !.reentry = n, !.creates = x]
                         IN  y \in Saga /\ y.pc = "read"
    BY <2>1, IdleIsSaga DEF Saga
  <2> QED BY <2>1, <2>2
<1> HIDE DEF new
<1> QED
  BY <1>1, <1>2 DEF OthersStay

-----------------------------------------------------------------------------
(* One wallet: what a step of the saga keeps. *)

ProvTypes ==
    /\ attempt = None \/ attempt \in DeploymentAttempt
    /\ record \in Tasks \cup {None}
    /\ wallets \in Nat
    /\ idemAt \in Nat \cup {None}
    /\ now \in 0..MaxTime
    /\ saga \in [Tasks -> Saga]

\* The record stays, and the attempt goes on only.
Forward ==
    /\ record # None => record' = record
    /\ attempt # None =>
          /\ attempt' # None
          /\ attempt'.status >= attempt.status
          /\ attempt'.created = attempt.created

\* What a task knows stays true while another one moves, or the clock does.
LEMMA OthersKnow ==
    ASSUME ProvTypes, ProvTypes', WalletInv, Forward, NEW u \in Tasks, saga'[u] = saga[u],
           \/ UNCHANGED <<idemAt, now>>
           \/ idemAt' = now /\ UNCHANGED now
           \/ saga[u].pc # "create"
    PROVE  SagaKnows(u)'
<1>1. attempt # None => attempt.status \in Nat /\ attempt'.status \in Nat
  BY DEF ProvTypes, DeploymentAttempt, Forward
<1>2. SagaKnows(u) /\ saga[u] \in Saga /\ saga[u].status \in Nat
  BY DEF WalletInv, ProvTypes, Saga
<1>3. saga[u].pc = "create" => (idemAt' # None => now' - idemAt' < Window)
  BY <1>2, ProvisioningAssumption DEF SagaKnows, ProvTypes
<1> QED
  BY <1>1, <1>2, <1>3 DEF SagaKnows, Forward

\* A task that goes on knows what its new point requires.
LEMMA GotoKnows ==
    ASSUME saga \in [Tasks -> Saga], NEW t \in Tasks,
           NEW p \in SagaPcs \ {"admit", "readcur", "cas"}, Goto(t, p), attempt' # None,
           p \in {"reconcile", "create", "retry"} => attempt'.status >= WALLET_REQUESTED,
           p = "done" => record' # None,
           p = "create" => (idemAt' # None => now' - idemAt' < Window)
    PROVE  saga' \in [Tasks -> Saga] /\ OthersStay(t) /\ SagaKnows(t)'
<1>1. saga' \in [Tasks -> Saga] /\ OthersStay(t) /\ saga'[t].pc = p
  BY GotoMoves
<1> QED
  BY <1>1 DEF SagaKnows, SagaPcs

\* So does one that starts to advance the attempt.
LEMMA ToStatusKnows ==
    ASSUME saga \in [Tasks -> Saga], NEW t \in Tasks, NEW g \in AttemptStatus,
           NEW a \in {"idle", "retry", "raised", "readmit", "record", "done"}, ToStatus(t, g, a),
           attempt' # None,
           a = "retry" => attempt'.status >= WALLET_REQUESTED,
           g = BINDING_PERSISTED \/ a = "done" => record' # None
    PROVE  saga' \in [Tasks -> Saga] /\ OthersStay(t) /\ SagaKnows(t)'
<1>1. /\ saga' \in [Tasks -> Saga] /\ OthersStay(t)
      /\ saga'[t].pc = "readcur" /\ saga'[t].goal = g /\ saga'[t].after = a
  BY ToStatusMoves
<1> QED
  BY <1>1 DEF SagaKnows

\* The compare-and-swap advances the attempt or changes nothing but the task.
LEMMA AdvanceMoves ==
    ASSUME ProvTypes, attempt # None, NEW t \in Tasks, NEW expected \in AttemptStatus,
           NEW new \in AttemptStatus, NEW next \in SagaPcs, AdvanceAttempt(t, expected, new, next)
    PROVE  /\ attempt' \in DeploymentAttempt /\ attempt'.created = attempt.created
           /\ \/ /\ attempt.status = expected /\ attempt'.status = new /\ new > expected
                 /\ Goto(t, next)
              \/ attempt' = attempt /\ Goto(t, "conflict")
BY DEF ProvTypes, DeploymentAttempt, AdvanceAttempt, CanAdvance

\* The steps that only read rows, or look the wallet up.
ReadingStep(t) ==
    \/ ReadCurrent(t) \/ ReadAttempt(t) \/ Admit(t) \/ Reconcile(t) \/ Retry(t)
    \/ Reread(t) \/ RecoverWallet(t) \/ Readmit(t) \/ ReadRecord(t)

LEMMA ReadingKeeps ==
    ASSUME ProvTypes, WalletInv, NEW t \in Tasks, ReadingStep(t)
    PROVE  /\ UNCHANGED <<attempt, record, wallets, idemAt, now>>
           /\ saga' \in [Tasks -> Saga] /\ OthersStay(t) /\ SagaKnows(t)'
<1>1. UNCHANGED <<attempt, record, wallets, idemAt, now>>
  BY DEF ReadingStep, ReadCurrent, ReadAttempt, Admit, Reconcile, Retry, Reread, RecoverWallet,
         Readmit, ReadRecord
<1>2. attempt # None /\ attempt \in DeploymentAttempt /\ attempt.status \in AttemptStatus
  BY DEF ReadingStep, ReadCurrent, ReadAttempt, Admit, Reconcile, Retry, Reread, RecoverWallet,
         Readmit, ReadRecord, WalletInv, SagaKnows, ProvTypes, DeploymentAttempt
<1>3. saga \in [Tasks -> Saga] /\ SagaKnows(t) /\ attempt' # None
  BY <1>1, <1>2 DEF ProvTypes, WalletInv
<1>4. WindowValid => (idemAt' # None => now' - idemAt' < Window)
  BY <1>1, <1>2, ProvisioningAssumption
  DEF WindowValid, WalletInv, KeyUse, ProvTypes, DeploymentAttempt
<1>5. CASE ReadCurrent(t)
  <2>1. CASE attempt.status < saga[t].goal
    <3>1. saga' = [saga EXCEPT ![t].pc = "cas", ![t].status = attempt.status]
      BY <1>5, <2>1 DEF ReadCurrent
    <3>2. /\ saga' \in [Tasks -> Saga] /\ OthersStay(t) /\ saga'[t].pc = "cas"
          /\ saga'[t].goal = saga[t].goal /\ saga'[t].after = saga[t].after
      BY <1>2, <1>3, <3>1, ReadMoves
    <3> QED BY <1>1, <1>3, <1>5, <3>2 DEF SagaKnows, ReadCurrent
  <2>2. CASE ~(attempt.status < saga[t].goal)
    <3>1. Goto(t, saga[t].after) /\ saga[t].pc = "readcur"
      BY <1>5, <2>2 DEF ReadCurrent
    <3>2. saga[t].after \in {"idle", "retry", "raised", "readmit", "record", "done"}
      BY <1>3 DEF Saga
    <3> QED BY <1>1, <1>3, <3>1, <3>2, GotoKnows DEF SagaKnows, SagaPcs
  <2> QED BY <2>1, <2>2
<1>6. CASE ReadAttempt(t)
  <2>1. CASE attempt.status < BINDING_PERSISTED
    <3>1. saga' = [saga EXCEPT ![t].pc = "admit", ![t].status = attempt.status]
      BY <1>6, <2>1 DEF ReadAttempt
    <3>2. /\ saga' \in [Tasks -> Saga] /\ OthersStay(t) /\ saga'[t].pc = "admit"
          /\ saga'[t].status = attempt.status
      BY <1>2, <1>3, <3>1, ReadMoves
    <3> QED BY <1>1, <1>2, <1>3, <3>2 DEF SagaKnows
  <2>2. CASE ~(attempt.status < BINDING_PERSISTED)
    <3>1. Goto(t, IF record # None THEN "done" ELSE "raised")
      BY <1>6, <2>2 DEF ReadAttempt
    <3> QED BY <1>1, <1>3, <3>1, GotoKnows DEF SagaPcs
  <2> QED BY <2>1, <2>2
<1>7. CASE Admit(t)
  <2>1. saga[t].pc = "admit" /\ saga[t].status \in AttemptStatus /\ saga[t].status <= attempt.status
    BY <1>3, <1>7 DEF Admit, SagaKnows, Saga
  <2>2. PICK p \in {"request", "recover", "reconcile", "raised"} :
           Goto(t, p) /\ (p = "reconcile" => saga[t].status >= WALLET_REQUESTED)
    BY <1>7, <2>1 DEF Admit, Admission
  <2> QED BY <1>1, <1>2, <1>3, <2>1, <2>2, GotoKnows DEF SagaPcs
<1>8. CASE Reconcile(t)
  <2>1. \/ ToStatus(t, WALLET_CREATED, "readmit")
        \/ WindowValid /\ Goto(t, "create")
        \/ ToStatus(t, WALLET_CREATE_UNCERTAIN, "raised")
        \/ Goto(t, "raised")
    BY <1>8 DEF Reconcile, TryReconcile, LookupRaises
  <2>2. attempt.status >= WALLET_REQUESTED
    BY <1>3, <1>8 DEF Reconcile, SagaKnows
  <2> QED BY <1>1, <1>2, <1>3, <1>4, <2>1, <2>2, GotoKnows, ToStatusKnows DEF SagaPcs
<1>9. CASE Retry(t)
  <2>1. \/ ToStatus(t, WALLET_CREATED, "readmit")
        \/ /\ WindowValid /\ saga[t].creates > 1
           /\ saga' = [saga EXCEPT ![t].pc = "create", ![t].creates = @ - 1]
        \/ ToStatus(t, WALLET_CREATE_UNCERTAIN, "raised")
        \/ Goto(t, "raised")
    BY <1>9 DEF Retry, TryReconcile, LookupRaises
  <2>2. attempt.status >= WALLET_REQUESTED
    BY <1>3, <1>9 DEF Retry, SagaKnows
  <2>3. ASSUME WindowValid, saga[t].creates > 1,
               saga' = [saga EXCEPT ![t].pc = "create", ![t].creates = @ - 1]
        PROVE  saga' \in [Tasks -> Saga] /\ OthersStay(t) /\ saga'[t].pc = "create"
    <3> DEFINE new == [saga[t] EXCEPT !.pc = "create", !.creates = @ - 1]
    <3>1. saga' = [saga EXCEPT ![t] = new]
      BY <2>3
    <3>2. saga[t].creates - 1 \in 0..2
      BY <1>3, <2>3 DEF Saga
    <3>3. new \in Saga /\ new.pc = "create"
      BY <1>3, <3>2 DEF Saga
    <3> HIDE DEF new
    <3> QED BY <1>3, <3>1, <3>3 DEF OthersStay
  <2>4. ASSUME WindowValid, saga'[t].pc = "create" PROVE SagaKnows(t)'
    BY <1>1, <1>3, <1>4, <2>2, <2>4 DEF SagaKnows
  <2> QED BY <1>1, <1>2, <1>3, <2>1, <2>3, <2>4, GotoKnows, ToStatusKnows DEF SagaPcs
<1>10. CASE Reread(t) \/ RecoverWallet(t)
  <2>1. \/ ToStatus(t, WALLET_CREATED, "readmit")
        \/ Goto(t, "readmit")
        \/ ToStatus(t, WALLET_CREATE_UNCERTAIN, "raised")
        \/ Goto(t, "raised")
    BY <1>10 DEF Reread, RecoverWallet, TryReconcile, LookupRaises
  <2> QED BY <1>1, <1>3, <2>1, GotoKnows, ToStatusKnows DEF SagaPcs
<1>11. CASE Readmit(t)
  <2>1. ToStatus(t, WALLET_BOUND, "record") \/ Goto(t, "raised")
    BY <1>11 DEF Readmit, Admission
  <2> QED BY <1>1, <1>3, <2>1, GotoKnows, ToStatusKnows DEF SagaPcs
<1>12. CASE ReadRecord(t)
  <2>1. \/ Goto(t, "persist")
        \/ record # None /\ ToStatus(t, BINDING_PERSISTED, "done")
        \/ Goto(t, "raised")
    BY <1>12 DEF ReadRecord, RecordMatches
  <2> QED BY <1>1, <1>3, <2>1, GotoKnows, ToStatusKnows DEF SagaPcs
<1> QED
  BY <1>1, <1>5, <1>6, <1>7, <1>8, <1>9, <1>10, <1>11, <1>12 DEF ReadingStep

\* Every step of the saga keeps the types, goes forward only, and makes no second wallet:
\* who is about to create has made sure that the provider still knows the key, or that it
\* has never seen it.
LEMMA ProvisionKeeps ==
    ASSUME ProvTypes, WalletInv, NEW t \in Tasks, ProvisionStep(t)
    PROVE  ProvTypes' /\ Forward /\ WalletInv'
<1>0. saga \in [Tasks -> Saga] /\ SagaKnows(t) /\ saga[t] \in Saga
  BY DEF ProvTypes, WalletInv
<1>1. attempt # None /\ attempt \in DeploymentAttempt /\ attempt.status \in AttemptStatus
      /\ attempt.created \in 0..MaxTime
  BY <1>0
  DEF ProvisionStep, ReadCurrent, Advance, ReadAttempt, Admit, RequestWallet, Reconcile,
      CreateWallet, Retry, Reread, RecoverWallet, Readmit, ReadRecord, PersistRecord, SagaKnows,
      ProvTypes, DeploymentAttempt
<1>2. ASSUME ProvTypes', Forward, OthersStay(t), SagaKnows(t)', KeyUse', BindingRecorded',
             OneWallet', UNCHANGED <<idemAt, now>> \/ (idemAt' = now /\ UNCHANGED now)
      PROVE  ProvTypes' /\ Forward /\ WalletInv'
  BY <1>2, OthersKnow DEF WalletInv, OthersStay
<1>3. CASE ReadingStep(t)
  <2>1. /\ UNCHANGED <<attempt, record, wallets, idemAt, now>>
        /\ saga' \in [Tasks -> Saga] /\ OthersStay(t) /\ SagaKnows(t)'
    BY <1>3, ReadingKeeps
  <2>2. ProvTypes' /\ Forward
    BY <1>1, <2>1 DEF ProvTypes, Forward
  <2>3. KeyUse' /\ BindingRecorded' /\ OneWallet'
    BY <2>1 DEF WalletInv, KeyUse, BindingRecorded, OneWallet
  <2> QED BY <1>2, <2>1, <2>2, <2>3
<1>4. CASE Advance(t)
  <2>1. /\ saga[t].pc = "cas" /\ UNCHANGED <<record, wallets, idemAt, now>>
        /\ AdvanceAttempt(t, saga[t].status, saga[t].goal, saga[t].after)
    BY <1>4 DEF Advance
  <2>2. /\ saga[t].status \in AttemptStatus /\ saga[t].goal \in AttemptStatus
        /\ saga[t].after \in {"idle", "retry", "raised", "readmit", "record", "done"}
    BY <1>0 DEF Saga
  <2>3. saga[t].after \in SagaPcs
    BY <2>2 DEF SagaPcs
  <2>4. /\ attempt' \in DeploymentAttempt /\ attempt'.created = attempt.created
        /\ \/ /\ attempt.status = saga[t].status /\ attempt'.status = saga[t].goal
              /\ saga[t].goal > saga[t].status /\ Goto(t, saga[t].after)
           \/ attempt' = attempt /\ Goto(t, "conflict")
    BY <1>1, <2>1, <2>2, <2>3, AdvanceMoves
  <2>5. Forward
    BY <1>1, <2>1, <2>2, <2>4, NoneAssumption DEF Forward
  <2>6. saga' \in [Tasks -> Saga] /\ OthersStay(t) /\ SagaKnows(t)'
    BY <1>0, <1>1, <2>1, <2>2, <2>4, <2>5, GotoKnows DEF SagaPcs, SagaKnows, Forward
  <2>7. ProvTypes'
    BY <2>1, <2>4, <2>6 DEF ProvTypes
  <2>8. KeyUse' /\ OneWallet'
    BY <1>1, <2>1, <2>4, <2>5 DEF WalletInv, KeyUse, OneWallet, Forward, ProvTypes,
                                  DeploymentAttempt
  <2>9. BindingRecorded'
    BY <1>0, <2>1, <2>4 DEF WalletInv, BindingRecorded, SagaKnows
  <2> QED BY <1>2, <2>1, <2>5, <2>6, <2>7, <2>8, <2>9
<1>5. CASE RequestWallet(t)
  <2>1. /\ saga[t].pc = "request" /\ UNCHANGED <<record, wallets, idemAt, now>>
        /\ AdvanceAttempt(t, PENDING, WALLET_REQUESTED, "create")
    BY <1>5 DEF RequestWallet
  <2>2. /\ attempt' \in DeploymentAttempt /\ attempt'.created = attempt.created
        /\ \/ /\ attempt.status = PENDING /\ attempt'.status = WALLET_REQUESTED
              /\ Goto(t, "create")
           \/ attempt' = attempt /\ Goto(t, "conflict")
    <3>1. PENDING \in AttemptStatus /\ WALLET_REQUESTED \in AttemptStatus /\ "create" \in SagaPcs
      BY DEF SagaPcs
    <3> QED BY <1>1, <2>1, <3>1, AdvanceMoves
  <2>3. attempt.status = PENDING => idemAt = None
    BY <1>1 DEF WalletInv, KeyUse
  <2>4. Forward
    BY <1>1, <2>1, <2>2, NoneAssumption DEF Forward
  <2>5. saga' \in [Tasks -> Saga] /\ OthersStay(t) /\ SagaKnows(t)'
    BY <1>0, <1>1, <2>1, <2>2, <2>3, <2>4, GotoKnows DEF SagaPcs, Forward
  <2>6. ProvTypes'
    BY <2>1, <2>2, <2>5 DEF ProvTypes
  <2>7. KeyUse' /\ OneWallet'
    BY <1>1, <2>1, <2>2, <2>4 DEF WalletInv, KeyUse, OneWallet, Forward, ProvTypes,
                                  DeploymentAttempt
  <2>8. BindingRecorded'
    BY <2>1, <2>2 DEF WalletInv, BindingRecorded
  <2> QED BY <1>2, <2>1, <2>4, <2>5, <2>6, <2>7, <2>8
<1>6. CASE CreateWallet(t)
  <2>1. /\ saga[t].pc = "create" /\ UNCHANGED <<attempt, record, now>>
        /\ Accept \/ UNCHANGED <<wallets, idemAt>>
        /\ \/ Goto(t, "reread") \/ Goto(t, "raised")
           \/ ToStatus(t, WALLET_CREATE_UNCERTAIN, "retry")
    BY <1>6 DEF CreateWallet
  <2>2. /\ idemAt # None => now - idemAt < Window
        /\ attempt.status >= WALLET_REQUESTED
    BY <1>0, <2>1 DEF SagaKnows
  <2>3. \/ UNCHANGED <<wallets, idemAt>>
        \/ idemAt = None /\ wallets' = wallets + 1 /\ idemAt' = now
    BY <2>1, <2>2 DEF Accept
  <2>4. Forward
    BY <1>1, <2>1 DEF Forward
  <2>5. saga' \in [Tasks -> Saga] /\ OthersStay(t) /\ SagaKnows(t)'
    BY <1>0, <1>1, <2>1, <2>2, GotoKnows, ToStatusKnows DEF SagaPcs
  <2>6. ProvTypes'
    BY <2>1, <2>3, <2>5, ProvisioningAssumption DEF ProvTypes
  <2>7. KeyUse' /\ OneWallet'
    BY <1>1, <2>1, <2>2, <2>3, NoneAssumption, ProvisioningAssumption
    DEF WalletInv, KeyUse, OneWallet, ProvTypes
  <2>8. BindingRecorded'
    BY <2>1 DEF WalletInv, BindingRecorded
  <2> QED BY <1>2, <2>1, <2>3, <2>4, <2>5, <2>6, <2>7, <2>8
<1>7. CASE PersistRecord(t)
  <2>1. /\ UNCHANGED <<attempt, wallets, idemAt, now>>
        /\ \/ record = None /\ record' = t /\ ToStatus(t, BINDING_PERSISTED, "done")
           \/ UNCHANGED record /\ ToStatus(t, BINDING_PERSIST_FAILED, "raised")
    BY <1>7 DEF PersistRecord, RecordAccepted
  <2>2. Forward
    BY <1>1, <2>1 DEF Forward
  <2>3. saga' \in [Tasks -> Saga] /\ OthersStay(t) /\ SagaKnows(t)'
    BY <1>0, <1>1, <2>1, ToStatusKnows, NoneAssumption
  <2>4. ProvTypes'
    BY <2>1, <2>3 DEF ProvTypes
  <2>5. KeyUse' /\ OneWallet' /\ BindingRecorded'
    BY <2>1, NoneAssumption DEF WalletInv, KeyUse, OneWallet, BindingRecorded
  <2> QED BY <1>2, <2>1, <2>2, <2>3, <2>4, <2>5
<1> QED
  BY <1>3, <1>4, <1>5, <1>6, <1>7 DEF ProvisionStep, ReadingStep

-----------------------------------------------------------------------------
(* Requests, launches, kills and crashes. *)

LaunchPcs == {"none", "start", "provision", "lease", "handle", "activate", "driving", "release",
              "releaseFailed", "seal", "fail", "over", "dead"}

RowTypes ==
    /\ instance = None \/ instance \in AgentInstance
    /\ lease = None \/ lease \in InstanceLease
    /\ phase \in [Tasks -> RunPhase \cup {None}]
    /\ adapter \in Tasks \cup {None}
    /\ launch \in [Tasks -> LaunchPcs]
    /\ config \in [Tasks -> Configs]
    /\ req \in [Tasks -> [pc : ReqPcs, seen : AttemptStatus]]
    /\ kill \in [pc : {"idle", "act"}, run_id : Tasks \cup {None}]
    /\ killed \in Tasks \cup {None}
    /\ driven \subseteq Tasks
    /\ provisioning \in Provisioning
    /\ gate \in [Tasks -> Provisioning \cup {None}]

\* The other requests and launches stay as they are, and no row goes away.
OthersWait(r) ==
    \A q \in Tasks \ {r} :
        /\ req'[q] = req[q] /\ launch'[q] = launch[q] /\ phase'[q] = phase[q]
        /\ q \in driven' <=> q \in driven

RowsStay ==
    /\ UNCHANGED config
    /\ instance # None => instance' # None
    /\ lease # None => lease' # None /\ lease'.run_id = lease.run_id

\* What holds of a request and its launch stays true while others move.
LEMMA OthersLaunch ==
    ASSUME RowTypes, Forward, RowsStay, NEW q \in Tasks, LaunchKnows(q), req'[q] = req[q],
           launch'[q] = launch[q], phase'[q] = phase[q], q \in driven' <=> q \in driven,
           gate'[q] = gate[q]
    PROVE  LaunchKnows(q)'
BY DEF LaunchKnows, Forward, RowsStay, MM, HoldsLease, FailsLease, HasWallet

\* A change of the instance's status keeps the row.
LEMMA StatusKeepsRow ==
    ASSUME instance \in AgentInstance, NEW s \in DeployStatus, SetStatus(s)
    PROVE  instance' \in AgentInstance /\ instance' # None
BY NoRowAssumption DEF SetStatus, AgentInstance

\* A transition of the lease keeps the row and whose it is.
LEMMA TransitionKeepsRow ==
    ASSUME lease \in InstanceLease, NEW s \in LeaseStatus, TransitionLease(s)
    PROVE  lease' \in InstanceLease /\ lease' # None /\ lease'.run_id = lease.run_id
BY NoRowAssumption DEF TransitionLease, LeaseTransition, InstanceLease

\* A request that goes on stands at the point it went to.
LEMMA ReqMoves ==
    ASSUME req \in [Tasks -> [pc : ReqPcs, seen : AttemptStatus]], NEW r \in Tasks,
           NEW p \in ReqPcs, NEW st \in AttemptStatus,
           req' = [req EXCEPT ![r] = [pc |-> p, seen |-> st]]
    PROVE  /\ req' \in [Tasks -> [pc : ReqPcs, seen : AttemptStatus]]
           /\ \A q \in Tasks : q # r => req'[q] = req[q]
           /\ req'[r].pc = p
<1> DEFINE new == [pc |-> p, seen |-> st]
<1>1. req' = [req EXCEPT ![r] = new]
  OBVIOUS
<1>2. new \in [pc : ReqPcs, seen : AttemptStatus] /\ new.pc = p
  OBVIOUS
<1> HIDE DEF new
<1> QED
  BY <1>1, <1>2

\* Entering the saga at its top, with the attempt claimed, keeps what it rests on.
LEMMA BeginKeeps ==
    ASSUME ProvTypes, WalletInv, attempt # None, NEW r \in Tasks, NEW n \in 0..MaxReentries,
           saga' = [saga EXCEPT ![r] = Begin(n)], UNCHANGED <<attempt, record, wallets, idemAt, now>>
    PROVE  ProvTypes' /\ Forward /\ WalletInv'
<1>1. saga' \in [Tasks -> Saga] /\ OthersStay(r) /\ saga'[r].pc = "read"
  BY BeginMoves DEF ProvTypes
<1>2. ProvTypes'
  BY <1>1 DEF ProvTypes
<1>3. Forward
  BY DEF Forward, ProvTypes, DeploymentAttempt
<1>4. SagaKnows(r)'
  BY <1>1 DEF SagaKnows
<1> QED
  BY <1>1, <1>2, <1>3, <1>4, OthersKnow DEF WalletInv, OthersStay, KeyUse, BindingRecorded, OneWallet

\* Steps that leave the wallet's rows and the saga alone.
LEMMA StillKeeps ==
    ASSUME ProvTypes, WalletInv, UNCHANGED provVars
    PROVE  ProvTypes' /\ Forward /\ WalletInv'
BY DEF provVars, ProvTypes, Forward, WalletInv, SagaKnows, KeyUse, BindingRecorded, OneWallet,
       DeploymentAttempt

\* Every step goes forward only and makes no second wallet.
LEMMA CustodyStep ==
    ASSUME ProvTypes, RowTypes, WalletInv, LaunchInv, [DeployNext]_vars
    PROVE  ProvTypes' /\ Forward /\ WalletInv'
<1>1. 0 \in 0..MaxReentries /\ 1 \in 0..MaxReentries
  BY ProvisioningAssumption
<1>2. ASSUME NEW r \in Tasks, LookupPrior(r) \/ Preflight(r) \/ ReadRecorded(r) \/ PersistInstance(r)
      PROVE  UNCHANGED provVars
  BY <1>2 DEF LookupPrior, Preflight, ReadRecorded, PersistInstance
<1>3. ASSUME NEW r \in Tasks, LookupPriorInstance(r) \/ ReadTarget(r)
      PROVE  ProvTypes' /\ Forward /\ WalletInv'
  <2>1. attempt # None
    BY <1>3 DEF LookupPriorInstance, ReadTarget, LaunchInv, LaunchKnows
  <2>2. /\ UNCHANGED <<attempt, record, wallets, idemAt, now>>
        /\ saga' = [saga EXCEPT ![r] = Begin(0)] \/ UNCHANGED saga
    BY <1>3 DEF LookupPriorInstance, ReadTarget, ReconcileExisting
  <2> QED BY <1>1, <2>1, <2>2, BeginKeeps, StillKeeps DEF provVars
<1>4. ASSUME NEW r \in Tasks, ClaimAttempt(r) PROVE ProvTypes' /\ Forward /\ WalletInv'
  <2>1. CASE attempt = None
    <3>1. /\ UNCHANGED <<record, wallets, idemAt, now, saga>>
          /\ attempt' = [status |-> PENDING, created |-> now,
                         config_fingerprint |-> config[r], external_id |-> FALSE]
      BY <1>4, <2>1 DEF ClaimAttempt, KeyFree
    <3>2. config[r] \in Configs /\ now \in 0..MaxTime
      BY DEF RowTypes, ProvTypes
    <3>3. /\ attempt' \in DeploymentAttempt /\ attempt' # None
          /\ attempt'.created = now /\ attempt'.status = PENDING
      <4>1. PICK x \in BOOLEAN :
               attempt' = [status |-> PENDING, created |-> now,
                           config_fingerprint |-> config[r], external_id |-> x]
        BY <3>1, Zenon
      <4> QED BY <3>2, <4>1, NoneAssumption DEF DeploymentAttempt
    <3>4. ProvTypes' /\ Forward
      BY <2>1, <3>1, <3>3 DEF ProvTypes, Forward
    <3>5. \A u \in Tasks : SagaKnows(u)'
      BY <2>1, <3>1 DEF WalletInv, SagaKnows
    <3>6. KeyUse' /\ BindingRecorded' /\ OneWallet'
      BY <2>1, <3>1, <3>2, <3>3 DEF WalletInv, KeyUse, BindingRecorded, OneWallet
    <3> QED BY <3>4, <3>5, <3>6 DEF WalletInv
  <2>2. CASE attempt # None
    BY <1>4, <2>2, StillKeeps DEF ClaimAttempt, KeyFree, provVars
  <2> QED BY <2>1, <2>2
<1>5. ASSUME NEW r \in Tasks, LaunchMm(r) \/ Reenter(r) PROVE ProvTypes' /\ Forward /\ WalletInv'
  <2>1. attempt # None /\ saga[r].reentry \in 0..MaxReentries
    BY <1>5 DEF LaunchMm, Reenter, LaunchInv, LaunchKnows, ProvTypes, Saga
  <2>2. /\ UNCHANGED <<attempt, record, wallets, idemAt, now>>
        /\ \/ \E n \in 0..MaxReentries : saga' = [saga EXCEPT ![r] = Begin(n)]
           \/ UNCHANGED saga
    BY <1>1, <1>5, <2>1, ProvisioningAssumption DEF LaunchMm, Reenter
  <2> QED BY <2>1, <2>2, BeginKeeps, StillKeeps DEF provVars
<1>6. ASSUME NEW r \in Tasks, PublishAdapter(r) PROVE ProvTypes' /\ Forward /\ WalletInv'
  <2>1. /\ saga[r].pc = "done" /\ Goto(r, "idle")
        /\ UNCHANGED <<attempt, record, wallets, idemAt, now>>
    BY <1>6 DEF PublishAdapter
  <2>2. attempt # None
    BY <2>1 DEF WalletInv, SagaKnows
  <2>3. saga' \in [Tasks -> Saga] /\ OthersStay(r) /\ SagaKnows(r)'
    BY <2>1, <2>2, GotoKnows DEF ProvTypes, SagaPcs
  <2>4. ProvTypes' /\ Forward
    BY <2>1, <2>2, <2>3 DEF ProvTypes, Forward, DeploymentAttempt
  <2>5. KeyUse' /\ BindingRecorded' /\ OneWallet'
    BY <2>1 DEF WalletInv, KeyUse, BindingRecorded, OneWallet
  <2> QED BY <2>1, <2>3, <2>4, <2>5, OthersKnow DEF WalletInv, OthersStay
<1>7. ASSUME NEW r \in Tasks,
             \/ LaunchDirectional(r) \/ ProvisionFails(r) \/ AcquireLease(r) \/ PersistHandle(r)
             \/ ActivateAndDrive(r) \/ RunReturns(r) \/ RunRaises(r) \/ ReleaseLease(r)
             \/ FinishLaunch(r)
      PROVE  UNCHANGED provVars
  BY <1>7 DEF LaunchDirectional, ProvisionFails, AcquireLease, PersistHandle, ActivateAndDrive,
              RunReturns, RunRaises, ReleaseLease, FinishLaunch
<1>8. ASSUME NEW r \in Tasks, SagaStep(r) PROVE ProvTypes' /\ Forward /\ WalletInv'
  BY <1>8, ProvisionKeeps DEF SagaStep
<1>9. CASE KillRead \/ KillAct
  BY <1>9, StillKeeps DEF KillRead, KillAct
<1>10. CASE Crash \/ Shutdown
  <2>1. UNCHANGED <<attempt, record, wallets, idemAt, now>> /\ saga' = [r \in Tasks |-> IdleSaga]
    BY <1>10 DEF Crash, Shutdown, ProcessEnds
  <2>2. ProvTypes' /\ Forward
    BY <2>1, IdleIsSaga DEF ProvTypes, Forward, DeploymentAttempt
  <2>3. \A u \in Tasks : SagaKnows(u)'
    BY <2>1, IdleIsSaga DEF SagaKnows
  <2> QED BY <2>1, <2>2, <2>3 DEF WalletInv, KeyUse, BindingRecorded, OneWallet
<1>11. CASE Clock
  <2>1. /\ now < MaxTime /\ now' = now + 1 /\ UNCHANGED <<attempt, record, wallets, idemAt, saga>>
        /\ \A u \in Tasks : saga[u].pc # "create"
    BY <1>11 DEF Clock, Tick
  <2>2. ProvTypes' /\ Forward
    BY <2>1, ProvisioningAssumption DEF ProvTypes, Forward, DeploymentAttempt
  <2>3. KeyUse'
    BY <2>1 DEF WalletInv, KeyUse, ProvTypes, DeploymentAttempt
  <2> QED BY <2>1, <2>2, <2>3, OthersKnow DEF WalletInv, BindingRecorded, OneWallet
<1>12. CASE UNCHANGED vars
  BY <1>12, StillKeeps DEF vars
<1> QED
  BY <1>2, <1>3, <1>4, <1>5, <1>6, <1>7, <1>8, <1>9, <1>10, <1>11, <1>12, StillKeeps
  DEF DeployNext, DeployStep, LaunchStep

\* A step of a request that launches nothing.
LEMMA RequestKeeps ==
    ASSUME RowTypes, LaunchInv, Forward, NEW r \in Tasks, NEW p \in ReqPcs, NEW st \in AttemptStatus,
           req' = [req EXCEPT ![r] = [pc |-> p, seen |-> st]],
           req[r].pc \notin {"answered", "lost"},
           UNCHANGED <<config, instance, launch, lease, memVars, kill, gateVars, driven>>,
           p \in {"prior", "duplicate", "target", "persist"} => attempt' # None,
           p \in {"claim", "duplicate", "target", "persist"} =>
              \E w \in World : PreflightOk(config[r], w)
    PROVE  RowTypes' /\ LaunchInv'
<1>1. /\ req' \in [Tasks -> [pc : ReqPcs, seen : AttemptStatus]]
      /\ \A q \in Tasks : q # r => req'[q] = req[q]
      /\ req'[r].pc = p
  BY ReqMoves DEF RowTypes
<1>2. RowTypes'
  BY <1>1 DEF RowTypes, memVars
<1>3. LaunchKnows(r)'
  BY <1>1 DEF LaunchInv, LaunchKnows, MM, HoldsLease, FailsLease, HasWallet, Forward, memVars
<1>4. \A q \in Tasks : q # r => LaunchKnows(q)'
  BY <1>1, OthersLaunch DEF LaunchInv, RowsStay, memVars
<1>5. KilledNeverCompletes'
  BY DEF LaunchInv, KilledNeverCompletes, memVars
<1> QED
  BY <1>2, <1>3, <1>4, <1>5 DEF LaunchInv

\* A request's own steps.
LEMMA DeployKeeps ==
    ASSUME ProvTypes, RowTypes, LaunchInv, Forward, NEW r \in Tasks, DeployStep(r)
    PROVE  RowTypes' /\ LaunchInv'
<1>0. /\ attempt # None => attempt.status \in AttemptStatus
      /\ PENDING \in AttemptStatus /\ LaunchKnows(r)
  BY DEF ProvTypes, DeploymentAttempt, LaunchInv
<1>1. CASE LookupPrior(r)
  <2>1. PICK p \in {"prior", "preflight"}, st \in AttemptStatus :
           /\ req' = [req EXCEPT ![r] = [pc |-> p, seen |-> st]]
           /\ p = "prior" => attempt # None
    BY <1>0, <1>1 DEF LookupPrior, SameDeploy
  <2>2. /\ req[r].pc = "idle" /\ UNCHANGED <<config, instance, launch, lease, memVars, kill, gateVars, driven>>
        /\ UNCHANGED attempt
    BY <1>1 DEF LookupPrior, provVars, envVars
  <2> QED BY <2>1, <2>2, RequestKeeps DEF ReqPcs
<1>2. CASE LookupPriorInstance(r)
  <2>1. PICK p \in {"answered", "preflight"} :
           req' = [req EXCEPT ![r] = [pc |-> p, seen |-> PENDING]]
    BY <1>2 DEF LookupPriorInstance, ReconcileExisting, ReqGoto
  <2>2. req[r].pc = "prior" /\ UNCHANGED <<config, instance, launch, lease, memVars, kill, gateVars, driven>>
    BY <1>2 DEF LookupPriorInstance, envVars
  <2> QED BY <1>0, <2>1, <2>2, RequestKeeps DEF ReqPcs
<1>3. CASE Preflight(r)
  <2>1. PICK p \in {"claim", "refused"} :
           /\ req' = [req EXCEPT ![r] = [pc |-> p, seen |-> PENDING]]
           /\ p = "claim" => \E w \in World : PreflightOk(config[r], w)
    BY <1>3 DEF Preflight, ReqGoto
  <2>2. req[r].pc = "preflight" /\ UNCHANGED <<config, instance, launch, lease, memVars, kill, gateVars, driven>>
    BY <1>3 DEF Preflight, envVars
  <2> QED BY <1>0, <2>1, <2>2, RequestKeeps DEF ReqPcs
<1>4. CASE ClaimAttempt(r)
  <2>1. PICK p \in {"persist", "duplicate"} :
           req' = [req EXCEPT ![r] = [pc |-> p, seen |-> PENDING]]
    BY <1>4 DEF ClaimAttempt, ReqGoto
  <2>2. req[r].pc = "claim" /\ UNCHANGED <<config, instance, launch, lease, memVars, kill, gateVars, driven>>
    BY <1>4 DEF ClaimAttempt, envVars
  <2>3. attempt' # None
    <3>1. CASE attempt = None
      <4>1. PICK x \in BOOLEAN :
               attempt' = [status |-> PENDING, created |-> now,
                           config_fingerprint |-> config[r], external_id |-> x]
        BY <1>4, <3>1, Zenon DEF ClaimAttempt, KeyFree
      <4> QED BY <4>1, NoneAssumption DEF DeploymentAttempt, RowTypes, ProvTypes
    <3>2. CASE attempt # None
      BY <1>4, <3>2 DEF ClaimAttempt, KeyFree
    <3> QED BY <3>1, <3>2
  <2>4. \E w \in World : PreflightOk(config[r], w)
    BY <1>0, <2>2 DEF LaunchKnows
  <2> QED BY <1>0, <2>1, <2>2, <2>3, <2>4, RequestKeeps DEF ReqPcs
<1>5. CASE ReadRecorded(r)
  <2>1. req[r].pc = "duplicate" /\ UNCHANGED <<config, instance, launch, lease, memVars, kill, gateVars, driven>>
        /\ UNCHANGED attempt
    BY <1>5 DEF ReadRecorded, provVars, envVars
  <2>2. attempt # None /\ \E w \in World : PreflightOk(config[r], w)
    BY <1>0, <2>1 DEF LaunchKnows
  <2>3. PICK p \in {"target", "refused"}, st \in AttemptStatus :
           req' = [req EXCEPT ![r] = [pc |-> p, seen |-> st]]
    BY <1>0, <1>5, <2>2 DEF ReadRecorded
  <2> QED BY <2>1, <2>2, <2>3, RequestKeeps DEF ReqPcs
<1>6. CASE ReadTarget(r)
  <2>1. req[r].pc = "target" /\ UNCHANGED <<config, instance, launch, lease, memVars, kill, gateVars, driven>>
        /\ UNCHANGED attempt
    BY <1>6 DEF ReadTarget, envVars
  <2>2. attempt # None /\ \E w \in World : PreflightOk(config[r], w)
    BY <1>0, <2>1 DEF LaunchKnows
  <2>3. PICK p \in {"answered", "persist", "refused"} :
           req' = [req EXCEPT ![r] = [pc |-> p, seen |-> PENDING]]
    BY <1>6 DEF ReadTarget, ReconcileExisting, ReqGoto
  <2> QED BY <1>0, <2>1, <2>2, <2>3, RequestKeeps DEF ReqPcs
<1>7. CASE PersistInstance(r)
  <2>1. /\ req[r].pc = "persist" /\ UNCHANGED <<config, lease, memVars, kill, gateVars, driven, attempt>>
        /\ req' = [req EXCEPT ![r] = [pc |-> "answered", seen |-> PENDING]]
        /\ launch' = [launch EXCEPT ![r] = "start"]
        /\ instance' = [run_id |-> r, status |-> "PENDING", runtime_handle |-> None]
    BY <1>7 DEF PersistInstance, UpsertInstance, ReqGoto, provVars, envVars
  <2>2. instance' \in AgentInstance /\ instance' # None
    BY <2>1, NoRowAssumption DEF AgentInstance, DeployStatus
  <2>3. /\ req' \in [Tasks -> [pc : ReqPcs, seen : AttemptStatus]]
        /\ \A q \in Tasks : q # r => req'[q] = req[q]
        /\ req'[r].pc = "answered"
    BY <1>0, <2>1, ReqMoves DEF RowTypes, ReqPcs
  <2>4. RowTypes'
    BY <2>1, <2>2, <2>3 DEF RowTypes, memVars, LaunchPcs
  <2>5. LaunchKnows(r)'
    BY <1>0, <2>1, <2>2, <2>3 
    DEF LaunchKnows, MM, HoldsLease, FailsLease, HasWallet, Forward, memVars, gateVars, RowTypes
  <2>6. \A q \in Tasks : q # r => LaunchKnows(q)'
    BY <2>1, <2>2, <2>3, OthersLaunch DEF LaunchInv, RowsStay, memVars, RowTypes
  <2>7. KilledNeverCompletes'
    BY <2>1 DEF LaunchInv, KilledNeverCompletes, memVars
  <2> QED BY <2>4, <2>5, <2>6, <2>7 DEF LaunchInv
<1> QED
  BY <1>1, <1>2, <1>3, <1>4, <1>5, <1>6, <1>7 DEF DeployStep

\* A launch's own steps: the run is driven under a lease that only its launch can hold, by
\* a market maker whose wallet is on record.
LEMMA LaunchKeeps ==
    ASSUME ProvTypes, RowTypes, WalletInv, LaunchInv, Forward, NEW r \in Tasks, LaunchStep(r)
    PROVE  RowTypes' /\ LaunchInv'
<1> DEFINE Ends == {"cancelling", "cancelled", "failed"}
<1>0. LaunchKnows(r) /\ launch \in [Tasks -> LaunchPcs] /\ phase \in [Tasks -> RunPhase \cup {None}]
  BY DEF LaunchInv, RowTypes
<1>1. ASSUME NEW to \in LaunchPcs, launch' = [launch EXCEPT ![r] = to], UNCHANGED <<req, config>>,
             RowTypes', RowsStay, LaunchKnows(r)',
             \A q \in Tasks \ {r} : /\ phase'[q] = phase[q] /\ (q \in driven' <=> q \in driven)
                                   /\ gate'[q] = gate[q],
             UNCHANGED killed, killed = r => phase'[r] \in Ends
      PROVE  RowTypes' /\ LaunchInv'
  <2>1. \A q \in Tasks : q # r => LaunchKnows(q)'
    BY <1>0, <1>1, OthersLaunch DEF LaunchInv
  <2>2. KilledNeverCompletes'
    BY <1>1 DEF LaunchInv, KilledNeverCompletes
  <2> QED BY <1>1, <2>1, <2>2 DEF LaunchInv
<1>2. killed = r => phase[r] \in Ends
  BY DEF LaunchInv, KilledNeverCompletes
<1>3. CASE LaunchDirectional(r)
  <2>1. /\ launch[r] = "start" /\ ~MM(r) /\ launch' = [launch EXCEPT ![r] = "driving"]
        /\ SetStatus("RUNNING") /\ driven' = driven \cup {r}
        /\ UNCHANGED <<req, config, lease, phase, adapter, killed, kill, gateVars>>
    BY <1>3 DEF LaunchDirectional, LaunchGoto, memVars, envVars
  <2>2. instance' \in AgentInstance /\ instance' # None
    BY <1>0, <2>1, StatusKeepsRow DEF LaunchKnows, RowTypes, DeployStatus
  <2>3. RowTypes'
    BY <2>1, <2>2 DEF RowTypes, LaunchPcs
  <2>4. RowsStay
    BY <2>1, <2>2 DEF RowsStay
  <2>5. LaunchKnows(r)'
    BY <1>0, <2>1, <2>2 DEF LaunchKnows, MM, Forward
  <2> QED BY <1>1, <1>2, <2>1, <2>3, <2>4, <2>5 DEF LaunchPcs
<1>4. CASE LaunchMm(r)
  <2>1. /\ launch[r] = "start" /\ MM(r) /\ launch' = [launch EXCEPT ![r] = GateOpens]
        /\ SetStatus("RUNNING")
        /\ gate' = [gate EXCEPT ![r] = provisioning]
        /\ adapter' \in {adapter, r}
        /\ UNCHANGED <<req, config, lease, phase, killed, kill, provisioning, driven>>
    BY <1>4 DEF LaunchMm, LaunchGoto, envVars
  <2>2. instance' \in AgentInstance /\ instance' # None
    BY <1>0, <2>1, StatusKeepsRow DEF LaunchKnows, RowTypes, DeployStatus
  <2>3. /\ GateOpens \in {"provision", "lease", "fail"}
        /\ GateOpens = "provision" => provisioning = "enabled"
        /\ GateOpens = "lease" => provisioning = "disabled"
    BY DEF GateOpens
  <2>4. gate' \in [Tasks -> Provisioning \cup {None}] /\ gate'[r] = provisioning
        /\ \A q \in Tasks \ {r} : gate'[q] = gate[q]
    BY <2>1 DEF RowTypes
  <2>5. launch' \in [Tasks -> LaunchPcs] /\ launch'[r] = GateOpens
    BY <1>0, <2>1, <2>3 DEF LaunchPcs
  <2>6. RowTypes'
    BY <2>1, <2>2, <2>4, <2>5 DEF RowTypes
  <2>7. RowsStay
    BY <2>1, <2>2 DEF RowsStay
  <2>8. LaunchKnows(r)'
    BY <1>0, <2>1, <2>2, <2>3, <2>4, <2>5
    DEF LaunchKnows, MM, Forward, HoldsLease, FailsLease, HasWallet
  <2> QED BY <1>1, <1>2, <2>1, <2>3, <2>4, <2>6, <2>7, <2>8 DEF LaunchPcs
<1>5. CASE Reenter(r) \/ ProvisionFails(r)
  <2>1. PICK to \in {"provision", "fail"} : launch' = [launch EXCEPT ![r] = to]
    BY <1>0, <1>5 DEF Reenter, ProvisionFails, LaunchGoto
  <2>2. /\ launch[r] = "provision"
        /\ UNCHANGED <<req, config, instance, lease, phase, adapter, killed, kill, gateVars, driven>>
    BY <1>5 DEF Reenter, ProvisionFails, memVars, envVars
  <2>3. RowTypes' /\ RowsStay
    BY <2>1, <2>2 DEF RowTypes, LaunchPcs, RowsStay
  <2>4. LaunchKnows(r)'
    BY <1>0, <2>1, <2>2 DEF LaunchKnows, MM, Forward, HoldsLease, FailsLease, HasWallet
  <2> QED BY <1>1, <1>2, <2>1, <2>2, <2>3, <2>4 DEF LaunchPcs
<1>6. CASE PublishAdapter(r)
  <2>1. /\ launch[r] = "provision" /\ launch' = [launch EXCEPT ![r] = "lease"]
        /\ saga[r].pc = "done" /\ adapter' = r
        /\ UNCHANGED <<req, config, instance, lease, phase, killed, kill, gateVars, driven, record>>
    BY <1>6 DEF PublishAdapter, LaunchGoto, envVars
  <2>2. record # None
    BY <2>1 DEF WalletInv, SagaKnows
  <2>3. RowTypes' /\ RowsStay
    BY <2>1 DEF RowTypes, LaunchPcs, RowsStay
  <2>4. LaunchKnows(r)'
    BY <1>0, <2>1, <2>2 DEF LaunchKnows, MM, Forward, HoldsLease, FailsLease, HasWallet
  <2> QED BY <1>1, <1>2, <2>1, <2>3, <2>4 DEF LaunchPcs
<1>7. CASE AcquireLease(r)
  <2>1. /\ launch[r] = "lease"
        /\ UNCHANGED <<req, config, instance, phase, killed, kill, gateVars, driven>>
        /\ \/ /\ lease = None /\ lease' = [run_id |-> r, status |-> "STARTING"]
              /\ launch' = [launch EXCEPT ![r] = "handle"] /\ UNCHANGED adapter
           \/ /\ launch' = [launch EXCEPT ![r] = "fail"] /\ adapter' = None /\ UNCHANGED lease
    BY <1>7 DEF AcquireLease, LeaseFree, Deregister, LaunchGoto, envVars
  <2>2. \/ lease = None /\ lease' \in InstanceLease /\ lease' # None /\ lease'.run_id = r
           /\ launch' = [launch EXCEPT ![r] = "handle"]
        \/ launch' = [launch EXCEPT ![r] = "fail"] /\ UNCHANGED lease
    BY <2>1, NoRowAssumption DEF InstanceLease, LeaseStatus
  <2>3. RowTypes' /\ RowsStay
    BY <2>1, <2>2 DEF RowTypes, LaunchPcs, RowsStay
  <2>4. LaunchKnows(r)'
    BY <1>0, <2>1, <2>2 DEF LaunchKnows, MM, Forward, HoldsLease, FailsLease, HasWallet
  <2> QED BY <1>1, <1>2, <2>1, <2>2, <2>3, <2>4 DEF LaunchPcs
<1>8. CASE PersistHandle(r)
  <2>1. /\ launch[r] = "handle"
        /\ UNCHANGED <<req, config, lease, phase, adapter, killed, kill, gateVars, driven>>
        /\ \/ /\ instance' = [run_id |-> r, status |-> "PENDING", runtime_handle |-> r]
              /\ launch' = [launch EXCEPT ![r] = "activate"]
           \/ launch' = [launch EXCEPT ![r] = "releaseFailed"] /\ UNCHANGED instance
    BY <1>8 DEF PersistHandle, UpsertInstance, LaunchGoto, memVars, envVars
  <2>2. instance' \in AgentInstance /\ instance' # None
    BY <1>0, <2>1, NoRowAssumption DEF AgentInstance, DeployStatus, LaunchKnows, RowTypes
  <2>3. RowTypes' /\ RowsStay
    BY <2>1, <2>2 DEF RowTypes, LaunchPcs, RowsStay
  <2>4. LaunchKnows(r)'
    BY <1>0, <2>1, <2>2 DEF LaunchKnows, MM, Forward, HoldsLease, FailsLease, HasWallet
  <2> QED BY <1>1, <1>2, <2>1, <2>3, <2>4 DEF LaunchPcs
<1>9. CASE ActivateAndDrive(r)
  <2>1. /\ launch[r] = "activate" /\ launch' = [launch EXCEPT ![r] = "driving"]
        /\ TransitionLease("ACTIVE") /\ phase' = [phase EXCEPT ![r] = "active"]
        /\ driven' = driven \cup {r}
        /\ UNCHANGED <<req, config, instance, adapter, killed, kill, gateVars>>
    BY <1>9 DEF ActivateAndDrive, StartDriving, LaunchGoto, envVars
  <2>2. lease \in InstanceLease /\ lease.run_id = r /\ lease # None /\ MM(r)
    BY <1>0, <2>1 DEF LaunchKnows, HoldsLease, FailsLease, HasWallet, RowTypes
  <2>3. lease' \in InstanceLease /\ lease' # None /\ lease'.run_id = r
    BY <2>1, <2>2, TransitionKeepsRow DEF LeaseStatus
  <2>4. RowTypes' /\ RowsStay
    BY <2>1, <2>2, <2>3 DEF RowTypes, LaunchPcs, RowsStay, RunPhase
  <2>5. phase'[r] = "active" /\ killed # r
    BY <1>0, <1>2, <2>1, NoRowAssumption DEF LaunchKnows, RunPhase
  <2>6. LaunchKnows(r)'
    BY <1>0, <2>1, <2>2, <2>3, <2>5 DEF LaunchKnows, MM, Forward, HoldsLease, FailsLease, HasWallet
  <2> QED BY <1>0, <1>1, <1>2, <2>1, <2>4, <2>5, <2>6 DEF LaunchPcs
<1>10. CASE RunReturns(r)
  <2>1. /\ launch[r] = "driving"
        /\ UNCHANGED <<req, config, instance, lease, adapter, killed, kill, gateVars, driven>>
        /\ \/ /\ MM(r) /\ launch' = [launch EXCEPT ![r] = "release"]
              /\ \E frozen \in BOOLEAN : phase' = [phase EXCEPT ![r] = EndedPhase(phase[r], frozen)]
           \/ ~MM(r) /\ launch' = [launch EXCEPT ![r] = "seal"] /\ UNCHANGED phase
    BY <1>10 DEF RunReturns, LaunchGoto, envVars
  <2>2. /\ phase' \in [Tasks -> RunPhase \cup {None}] /\ \A q \in Tasks \ {r} : phase'[q] = phase[q]
        /\ MM(r) /\ phase[r] = "cancelling" => phase'[r] = "cancelled"
    BY <1>0, <2>1 DEF EndedPhase, RunPhase
  <2>3. RowTypes' /\ RowsStay
    BY <2>1, <2>2 DEF RowTypes, LaunchPcs, RowsStay
  <2>4. killed = r => phase'[r] \in Ends
    BY <1>0, <1>2, <2>1, <2>2 DEF LaunchKnows
  <2>5. LaunchKnows(r)'
    BY <1>0, <2>1, <2>2 DEF LaunchKnows, MM, Forward, HoldsLease, FailsLease, HasWallet
  <2> QED BY <1>1, <2>1, <2>2, <2>3, <2>4, <2>5 DEF LaunchPcs
<1>11. CASE RunRaises(r)
  <2>1. /\ launch[r] = "driving"
        /\ UNCHANGED <<req, config, instance, lease, adapter, killed, kill, gateVars, driven>>
        /\ \/ /\ MM(r) /\ launch' = [launch EXCEPT ![r] = "releaseFailed"]
              /\ phase' = [phase EXCEPT ![r] = "failed"]
           \/ ~MM(r) /\ launch' = [launch EXCEPT ![r] = "fail"] /\ UNCHANGED phase
    BY <1>11 DEF RunRaises, LaunchGoto, envVars
  <2>2. /\ phase' \in [Tasks -> RunPhase \cup {None}] /\ \A q \in Tasks \ {r} : phase'[q] = phase[q]
        /\ phase'[r] = phase[r] \/ phase'[r] = "failed"
    BY <1>0, <2>1 DEF RunPhase
  <2>3. RowTypes' /\ RowsStay
    BY <2>1, <2>2 DEF RowTypes, LaunchPcs, RowsStay
  <2>4. LaunchKnows(r)'
    BY <1>0, <2>1, <2>2 DEF LaunchKnows, MM, Forward, HoldsLease, FailsLease, HasWallet
  <2> QED BY <1>1, <1>2, <2>1, <2>2, <2>3, <2>4 DEF LaunchPcs
<1>12. CASE ReleaseLease(r)
  <2>1. /\ launch[r] \in {"release", "releaseFailed"} /\ adapter' = None
        /\ \E s \in LeaseStatus : TransitionLease(s)
        /\ \E to \in {"seal", "fail"} : launch' = [launch EXCEPT ![r] = to]
        /\ UNCHANGED <<req, config, instance, phase, killed, kill, gateVars, driven>>
    BY <1>12 DEF ReleaseLease, LaunchGoto, Deregister, envVars, LeaseStatus
  <2>2. lease \in InstanceLease /\ lease.run_id = r /\ lease # None
    BY <1>0, <2>1 DEF LaunchKnows, HoldsLease, FailsLease, HasWallet, RowTypes
  <2>3. lease' \in InstanceLease /\ lease' # None /\ lease'.run_id = r
    BY <2>1, <2>2, TransitionKeepsRow
  <2>4. RowTypes' /\ RowsStay
    BY <2>1, <2>2, <2>3 DEF RowTypes, LaunchPcs, RowsStay
  <2>5. LaunchKnows(r)'
    BY <1>0, <2>1, <2>2, <2>3 DEF LaunchKnows, MM, Forward, HoldsLease, FailsLease, HasWallet
  <2> QED BY <1>1, <1>2, <2>1, <2>4, <2>5 DEF LaunchPcs
<1>13. CASE FinishLaunch(r)
  <2>1. /\ launch[r] \in {"seal", "fail"} /\ launch' = [launch EXCEPT ![r] = "over"]
        /\ \E s \in DeployStatus : SetStatus(s)
        /\ UNCHANGED <<req, config, lease, phase, adapter, killed, kill, gateVars, driven>>
    BY <1>13 DEF FinishLaunch, LaunchGoto, memVars, envVars, DeployStatus
  <2>2. instance' \in AgentInstance /\ instance' # None
    BY <1>0, <2>1, StatusKeepsRow DEF LaunchKnows, RowTypes
  <2>3. RowTypes' /\ RowsStay
    BY <2>1, <2>2 DEF RowTypes, LaunchPcs, RowsStay
  <2>4. LaunchKnows(r)'
    BY <1>0, <2>1, <2>2 DEF LaunchKnows, MM, Forward, HoldsLease, FailsLease, HasWallet
  <2> QED BY <1>1, <1>2, <2>1, <2>3, <2>4 DEF LaunchPcs
<1> QED
  BY <1>3, <1>4, <1>5, <1>6, <1>7, <1>8, <1>9, <1>10, <1>11, <1>12, <1>13 DEF LaunchStep

\* A step that leaves requests, launches and their rows alone.
LEMMA RowsUntouched ==
    ASSUME RowTypes, LaunchInv, Forward,
           UNCHANGED <<config, req, instance, launch, lease, memVars, kill, gateVars, driven>>
    PROVE  RowTypes' /\ LaunchInv'
<1>1. RowTypes'
  BY DEF RowTypes, memVars
<1>2. \A q \in Tasks : LaunchKnows(q)'
  BY OthersLaunch DEF LaunchInv, RowsStay, memVars
<1>3. KilledNeverCompletes'
  BY DEF LaunchInv, KilledNeverCompletes, memVars
<1> QED
  BY <1>1, <1>2, <1>3 DEF LaunchInv

\* The kill: it names a run of the published adapter, and engages an active one only.
LEMMA KillKeeps ==
    ASSUME RowTypes, LaunchInv, Forward, KillRead \/ KillAct
    PROVE  RowTypes' /\ LaunchInv'
<1>1. CASE KillRead
  <2>1. /\ instance # None /\ kill' = [pc |-> "act", run_id |-> instance.run_id]
        /\ UNCHANGED <<config, req, instance, launch, lease, memVars, gateVars, driven>>
    BY <1>1 DEF KillRead
  <2>2. instance.run_id \in Tasks
    BY <2>1 DEF RowTypes, AgentInstance
  <2>3. kill' \in [pc : {"idle", "act"}, run_id : Tasks \cup {None}]
    BY <2>1, <2>2
  <2>4. RowTypes'
    BY <2>1, <2>3 DEF RowTypes, memVars
  <2>5. \A q \in Tasks : LaunchKnows(q)'
    BY <2>1, OthersLaunch DEF LaunchInv, RowsStay, memVars
  <2>6. KilledNeverCompletes'
    BY <2>1 DEF LaunchInv, KilledNeverCompletes, memVars
  <2> QED BY <2>4, <2>5, <2>6 DEF LaunchInv
<1>2. CASE KillAct
  <2>1. /\ kill' = [pc |-> "idle", run_id |-> None]
        /\ UNCHANGED <<config, req, instance, launch, lease, adapter, gateVars, driven>>
    BY <1>2 DEF KillAct
  <2>2. kill' \in [pc : {"idle", "act"}, run_id : Tasks \cup {None}]
    BY <2>1
  <2>3. CASE UNCHANGED <<phase, killed>>
    <3>1. RowTypes'
      BY <2>1, <2>2, <2>3 DEF RowTypes
    <3>2. \A q \in Tasks : LaunchKnows(q)'
      BY <2>1, <2>3, OthersLaunch DEF LaunchInv, RowsStay
    <3>3. KilledNeverCompletes'
      BY <2>3 DEF LaunchInv, KilledNeverCompletes
    <3> QED BY <3>1, <3>2, <3>3 DEF LaunchInv
  <2>4. CASE /\ KillTarget # None /\ phase[KillTarget] = "active" /\ killed' = KillTarget
             /\ phase' = [phase EXCEPT ![KillTarget] = "cancelling"]
    <3>1. PICK r \in Tasks : /\ r = KillTarget /\ phase[r] = "active" /\ killed' = r
                            /\ phase' = [phase EXCEPT ![r] = "cancelling"]
      BY <2>4 DEF KillTarget, RowTypes
    <3>2. /\ phase' \in [Tasks -> RunPhase \cup {None}] /\ phase'[r] = "cancelling"
          /\ \A q \in Tasks : q # r => phase'[q] = phase[q]
      BY <3>1 DEF RowTypes, RunPhase
    <3>3. RowTypes'
      BY <2>1, <2>2, <3>1, <3>2 DEF RowTypes
    <3>4. \A q \in Tasks : q # r => LaunchKnows(q)'
      BY <2>1, <3>2, OthersLaunch DEF LaunchInv, RowsStay
    <3>5. LaunchKnows(r)'
      BY <2>1, <3>1, <3>2, NoRowAssumption
      DEF LaunchInv, LaunchKnows, MM, HoldsLease, FailsLease, HasWallet, Forward, RunPhase
    <3>6. KilledNeverCompletes'
      BY <3>1, <3>2 DEF KilledNeverCompletes
    <3> QED BY <3>3, <3>4, <3>5, <3>6 DEF LaunchInv
  <2> QED BY <1>2, <2>3, <2>4 DEF KillAct
<1> QED
  BY <1>1, <1>2

\* The end of the process: the rows stay, and no launch runs on.
LEMMA EndKeeps ==
    ASSUME RowTypes, LaunchInv, Forward, NEW graceful \in BOOLEAN, ProcessEnds(graceful)
    PROVE  RowTypes' /\ LaunchInv'
<1>1. /\ launch' = [r \in Tasks |-> IF launch[r] \in {"none", "over"} THEN launch[r] ELSE "dead"]
      /\ req' = [r \in Tasks |-> IF req[r].pc \in {"idle", "answered", "refused"} THEN req[r]
                                 ELSE [req[r] EXCEPT !.pc = "lost"]]
      /\ adapter' = None /\ phase' = [r \in Tasks |-> None] /\ killed' = None
      /\ kill' = [pc |-> "idle", run_id |-> None]
      /\ UNCHANGED <<config, instance, gate, driven>> /\ provisioning' \in Provisioning
  BY DEF ProcessEnds
<1>2. lease' = lease \/ (lease # None /\ lease' \in InstanceLease /\ lease' # None
                         /\ lease'.run_id = lease.run_id)
  <2>1. CASE \E r \in Tasks : MM(r) /\ FailsLease(r)
    <3>1. lease # None /\ lease \in InstanceLease
      BY <2>1 DEF LaunchInv, LaunchKnows, HoldsLease, RowTypes
    <3>2. TransitionLease("FAILED") \/ UNCHANGED lease
      BY DEF ProcessEnds
    <3> QED BY <3>1, <3>2, TransitionKeepsRow DEF LeaseStatus
  <2>2. CASE ~\E r \in Tasks : MM(r) /\ FailsLease(r)
    BY <2>2 DEF ProcessEnds
  <2> QED BY <2>1, <2>2
<1>3. \A r \in Tasks : /\ req'[r] \in [pc : ReqPcs, seen : AttemptStatus]
                       /\ req'[r] = req[r] \/ req'[r].pc = "lost"
  BY <1>1 DEF RowTypes, ReqPcs
<1>4. RowTypes'
  <2>1. req' \in [Tasks -> [pc : ReqPcs, seen : AttemptStatus]]
    BY <1>1, <1>3
  <2>2. kill' \in [pc : {"idle", "act"}, run_id : Tasks \cup {None}]
    BY <1>1
  <2> QED BY <1>1, <1>2, <2>1, <2>2 DEF RowTypes, LaunchPcs
<1>5. ASSUME NEW r \in Tasks PROVE LaunchKnows(r)'
  <2>1. /\ launch'[r] \in {"none", "over", "dead"} /\ phase'[r] = None
        /\ launch[r] = "none" <=> launch'[r] = "none"
    BY <1>1 DEF RowTypes, LaunchPcs
  <2>2. LaunchKnows(r)
    BY DEF LaunchInv
  <2> QED BY <1>1, <1>2, <1>3, <2>1, <2>2 DEF LaunchKnows, MM, HoldsLease, FailsLease, HasWallet, Forward
<1>6. KilledNeverCompletes'
  BY <1>1, NoneAssumption DEF KilledNeverCompletes
<1> QED
  BY <1>4, <1>5, <1>6 DEF LaunchInv

-----------------------------------------------------------------------------

DeployInv == ProvTypes /\ RowTypes /\ WalletInv /\ LaunchInv

\* The initial state satisfies the invariant.
LEMMA DeployStart == DeployInit => DeployInv
<1> SUFFICES ASSUME DeployInit PROVE DeployInv
  OBVIOUS
<1>1. ProvTypes
  BY IdleIsSaga, ProvisioningAssumption DEF DeployInit, ProvInit, ProvTypes
<1>2. RowTypes
  <2>1. req \in [Tasks -> [pc : ReqPcs, seen : AttemptStatus]]
    BY DEF DeployInit, ReqPcs
  <2>2. kill \in [pc : {"idle", "act"}, run_id : Tasks \cup {None}]
    BY DEF DeployInit
  <2> QED BY <2>1, <2>2 DEF DeployInit, RowTypes, LaunchPcs
<1>3. WalletInv
  BY IdleIsSaga DEF DeployInit, ProvInit, WalletInv, SagaKnows, KeyUse, BindingRecorded, OneWallet
<1>4. LaunchInv
  BY NoneAssumption
  DEF DeployInit, LaunchInv, LaunchKnows, HoldsLease, FailsLease, HasWallet, KilledNeverCompletes
<1> QED
  BY <1>1, <1>2, <1>3, <1>4 DEF DeployInv

\* Every step keeps it.
LEMMA DeployInductive ==
    ASSUME DeployInv, [DeployNext]_vars
    PROVE  DeployInv' /\ Forward
<1> USE DEF DeployInv
<1>1. ProvTypes' /\ Forward /\ WalletInv'
  BY CustodyStep
<1>2. CASE \E r \in Tasks : DeployStep(r)
  BY <1>1, <1>2, DeployKeeps
<1>3. CASE \E r \in Tasks : LaunchStep(r)
  BY <1>1, <1>3, LaunchKeeps
<1>4. CASE (\E r \in Tasks : SagaStep(r)) \/ Clock \/ UNCHANGED vars
  <2>1. UNCHANGED <<config, req, instance, launch, lease, memVars, kill, gateVars, driven>>
    BY <1>4 DEF SagaStep, Clock, vars, envVars
  <2> QED BY <1>1, <2>1, RowsUntouched
<1>5. CASE KillRead \/ KillAct
  BY <1>1, <1>5, KillKeeps
<1>6. CASE Crash \/ Shutdown
  BY <1>1, <1>6, EndKeeps DEF Crash, Shutdown
<1> QED
  BY <1>1, <1>2, <1>3, <1>4, <1>5, <1>6 DEF DeployNext

\* The invariant holds throughout.
LEMMA DeployInvariant == DeploySpec => []DeployInv
<1>1. DeployInv /\ [DeployNext]_vars => DeployInv'
  BY DeployInductive
<1> QED
  BY <1>1, DeployStart, PTL DEF DeploySpec

\* Every row and dictionary of a deployment keeps its declared shape (deploy.py, store.py,
\* privy_provisioning.py), for any requests, configurations, kills and crashes.
THEOREM DeployTypeCorrect == DeploySpec => []DeployTypeOK
<1>1. DeployInv => DeployTypeOK
  BY DEF DeployInv, ProvTypes, RowTypes, LaunchPcs, DeployTypeOK
<1> QED
  BY <1>1, DeployInvariant, PTL

\* However launches, recoveries, timeouts and restarts interleave, and however long the
\* provider remembers an idempotency key, no second wallet is made for a deployment
\* (privy_provisioning.py, provision_execution_wallet).
THEOREM WalletSafe == DeploySpec => []OneWallet
<1>1. DeployInv => OneWallet
  BY DEF DeployInv, WalletInv
<1> QED
  BY <1>1, DeployInvariant, PTL

\* A market maker is driven without a wallet record only if its launch found custody disabled:
\* with the gate on, neither a missing provider, nor a failed or lost saga, nor a restart under
\* other settings lets one through; an attempt that says the binding is persisted has its
\* record (deploy.py, _launch_mm; config.py, require_privy_provisioning;
\* privy_provisioning.py).
THEOREM RecordSafe == DeploySpec => []RunHasWallet
<1>1. DeployInv => RunHasWallet
  BY DEF DeployInv, WalletInv, BindingRecorded, LaunchInv, LaunchKnows, RunHasWallet, RowTypes
<1> QED
  BY <1>1, DeployInvariant, PTL

\* Duplicate deploys, retries and restarts never drive a second market-maker run: the lease
\* of an instance is taken once, for good (store.py, acquire_instance_lease).
THEOREM LeaseSafe == DeploySpec => []OneMarketMakerRun
<1>1. DeployInv => OneMarketMakerRun
  <2> SUFFICES ASSUME DeployInv PROVE Cardinality({r \in driven : MM(r)}) <= 1
    BY DEF OneMarketMakerRun
  <2> DEFINE makers == {r \in driven : MM(r)}
  <2>1. makers \subseteq {lease.run_id}
    BY DEF DeployInv, LaunchInv, LaunchKnows, RowTypes
  <2>2. IsFiniteSet({lease.run_id}) /\ Cardinality({lease.run_id}) = 1
    BY FS_Singleton
  <2>3. Cardinality(makers) <= Cardinality({lease.run_id})
    BY <2>1, <2>2, FS_Subset
  <2> QED BY <2>2, <2>3
<1> QED
  BY <1>1, DeployInvariant, PTL

\* Whichever request reached the launch, what is driven has passed the preflight's maker and
\* policy checks (preflight.py, run_deploy_preflight; deploy.py).
THEOREM VettingSafe == DeploySpec => []OnlyVettedRuns
<1>1. DeployInv => OnlyVettedRuns
  <2> SUFFICES ASSUME DeployInv, NEW r \in driven
               PROVE  /\ MM(r) => /\ config[r].source_mode = "replay"
                                  /\ config[r].execution_mode # "live_guarded"
                      /\ config[r].execution_mode = "live_guarded" =>
                            config[r].market_allowlist /\ config[r].venue_allowlist
    BY DEF OnlyVettedRuns
  <2>1. r \in Tasks /\ config[r] \in DeployConfig
    BY DeployAssumption DEF DeployInv, RowTypes
  <2>2. CheckMm(config[r]) /\ CheckPolicy(config[r])
    BY <2>1 DEF DeployInv, LaunchInv, LaunchKnows, PreflightOk
  <2>3. config[r].source_mode \in {"replay", "live"}
    BY <2>1 DEF DeployConfig
  <2> QED BY <2>2, <2>3 DEF CheckMm, CheckPolicy, MM
<1> QED
  BY <1>1, DeployInvariant, PTL

\* A kill that engaged is never answered by a completed run while the process lives
\* (mm_agent_adapter.py, acancel_run, _drive_run).
THEOREM KillAnswered == DeploySpec => []KilledNeverCompletes
<1>1. DeployInv => KilledNeverCompletes
  BY DEF DeployInv, LaunchInv
<1> QED
  BY <1>1, DeployInvariant, PTL

\* The custody record is written once and the attempt's status never goes back, in any step
\* of any task (store.py, advance_deployment_attempt, persist_provisioning_record).
THEOREM CustodySafe == DeploySpec => CustodyForward
<1>1. DeployInv /\ [DeployNext]_vars =>
        [ /\ record # None => record' = record
          /\ attempt # None => attempt' # None /\ attempt'.status >= attempt.status ]_vars
  BY DeployInductive DEF Forward
<1> QED
  BY <1>1, DeployInvariant, PTL DEF DeploySpec, CustodyForward

=============================================================================
