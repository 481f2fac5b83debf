------------------------- MODULE WalletProvisioning -------------------------
(***************************************************************************)
(* The saga that gives a deployed market maker its execution wallet         *)
(* (dust_execution/privy_provisioning.py) over the durable attempt and      *)
(* record rows (store.py), with the wallet provider as the environment.     *)
(*                                                                          *)
(* One deployment attempt.  Several tasks may drive the saga for it at      *)
(* once: the launch of the deploy and the recoveries that retries of the    *)
(* same request start.  A step of a task ends where the code awaits.        *)
(***************************************************************************)
EXTENDS Integers, FiniteSets

CONSTANTS
    Configs,      \* the configurations a client submits
    Tasks,        \* what may drive the saga: one task per deploy request
    Window,       \* IDEMPOTENCY_WINDOW_S, in clock units
    MaxTime,      \* bound on the clock
    MaxReentries, \* _PROVISION_CAS_MAX_REENTRIES, shrunk
    None          \* Python's None: no row, no value

ASSUME ProvisioningAssumption ==
    /\ IsFiniteSet(Tasks)
    /\ Window \in Nat \ {0}
    /\ MaxTime \in Nat
    /\ MaxReentries \in Nat \ {0}

(***************************************************************************)
(* AttemptStatus, by rank: a transition only goes up.  The saga uses the    *)
(* first seven.                                                             *)
(***************************************************************************)
PENDING                 == 0
WALLET_REQUESTED        == 1
WALLET_CREATE_UNCERTAIN == 2
WALLET_CREATED          == 3
WALLET_BOUND            == 4
BINDING_PERSIST_FAILED  == 5
BINDING_PERSISTED       == 6

AttemptStatus == PENDING .. BINDING_PERSISTED

VARIABLES
    attempt,   \* the attempt row: None, or a DeploymentAttempt
    record,    \* the provisioning record row: None, or the task that wrote it
    wallets,   \* how many wallets the provider made for the external id
    idemAt,    \* when the provider first saw the idempotency key, or None
    now,       \* the clock
    saga       \* saga[t]: where task t is in provision_execution_wallet

provVars == <<attempt, record, wallets, idemAt, now, saga>>

DeploymentAttempt ==
    [status : AttemptStatus, created : 0..MaxTime, config_fingerprint : Configs,
     external_id : BOOLEAN]

Saga == [pc : {"idle", "read", "admit", "request", "reconcile", "create",
               "retry", "reread", "recover", "readmit", "record",
               "persist", "readcur", "cas", "done", "raised", "conflict"},
         status  : AttemptStatus,    \* the status it read and will compare with
         goal    : AttemptStatus,    \* where it is advancing the attempt to
         after   : {"idle", "retry", "raised", "readmit", "record", "done"},
         creates : 0..2,             \* creates it may still ask for
         reentry : 0..MaxReentries]

\* None is no task, no time and no row.
ASSUME NoneAssumption == None \notin Tasks /\ None \notin Nat /\ None \notin DeploymentAttempt

IdleSaga == [pc |-> "idle", status |-> PENDING, goal |-> PENDING,
             after |-> "idle", creates |-> 0, reentry |-> 0]

ProvInit ==
    /\ attempt = None
    /\ record = None
    /\ wallets = 0
    /\ idemAt = None
    /\ now = 0
    /\ saga = [t \in Tasks |-> IdleSaga]

\* What a task carries over a step: its re-entries, and while it may still
\* create, how many creates it has left.
Goto(t, pc) ==
    saga' = [saga EXCEPT ![t] =
        [IdleSaga EXCEPT !.pc = pc, !.reentry = saga[t].reentry,
                         !.creates = IF pc \in {"request", "reconcile", "create", "retry"}
                                     THEN saga[t].creates ELSE 0]]

\* Enter at the top: the launch, a recovery, and each re-entry of the launch.
Begin(n) == [IdleSaga EXCEPT !.pc = "read", !.reentry = n, !.creates = 2]

(***************************************************************************)
(* advance_deployment_attempt: compare and swap under the row lock, forward *)
(* only, the external id written once.                                      *)
(***************************************************************************)
CanAdvance(expected, new) == attempt.status = expected /\ new > attempt.status

AdvanceAttempt(t, expected, new, next) ==
    \/ /\ CanAdvance(expected, new)
       /\ attempt' = [attempt EXCEPT !.status = new, !.external_id = TRUE]
       /\ Goto(t, next)
    \/ /\ ~CanAdvance(expected, new)
       /\ Goto(t, "conflict")
       /\ UNCHANGED attempt

\* Read the row, and advance it unless it is there already.
ToStatus(t, goal, after) ==
    saga' = [saga EXCEPT ![t].pc = "readcur", ![t].goal = goal, ![t].after = after]

ReadCurrent(t) ==
    /\ saga[t].pc = "readcur"
    /\ IF attempt.status < saga[t].goal
       THEN saga' = [saga EXCEPT ![t].pc = "cas", ![t].status = attempt.status]
       ELSE Goto(t, saga[t].after)
    /\ UNCHANGED <<attempt, record, wallets, idemAt, now>>

Advance(t) ==
    /\ saga[t].pc = "cas"
    /\ AdvanceAttempt(t, saga[t].status, saga[t].goal, saga[t].after)
    /\ UNCHANGED <<record, wallets, idemAt, now>>

(***************************************************************************)
(* provision_execution_wallet                                              *)
(***************************************************************************)
ReadAttempt(t) ==
    /\ saga[t].pc = "read"
    /\ IF attempt.status < BINDING_PERSISTED
       THEN saga' = [saga EXCEPT ![t].pc = "admit", ![t].status = attempt.status]
       ELSE Goto(t, IF record # None THEN "done" ELSE "raised")
    /\ UNCHANGED <<attempt, record, wallets, idemAt, now>>

\* admit_policy_and_quorum: the provider's policy and quorum are the pinned
\* ones, or the saga stops.
Admission(t, admitted) == admitted \/ Goto(t, "raised")

Admit(t) ==
    /\ saga[t].pc = "admit"
    /\ Admission(t, Goto(t, CASE saga[t].status < WALLET_REQUESTED -> "request"
                              [] saga[t].status >= WALLET_CREATED  -> "recover"
                              [] OTHER -> "reconcile"))
    /\ UNCHANGED <<attempt, record, wallets, idemAt, now>>

\* The external id is durable before the first provider mutation.
RequestWallet(t) ==
    /\ saga[t].pc = "request"
    /\ AdvanceAttempt(t, PENDING, WALLET_REQUESTED, "create")
    /\ UNCHANGED <<record, wallets, idemAt, now>>

\* Mutant: the window's last instant included.
WindowInclusive == now - attempt.created <= Window

\* _window_valid, by the attempt's own age.
WindowValid == now - attempt.created < Window

\* _try_reconcile: exactly one wallet is found, though the provider may lag
\* behind its own create; several wallets, an outage, or a wallet that
\* verify_provisioned_wallet does not accept raise.
LookupRaises(t) == Goto(t, "raised")

TryReconcile(t, found, missing) ==
    \/ wallets = 1 /\ found
    \/ wallets <= 1 /\ missing
    \/ LookupRaises(t)

\* A resumed task looks the wallet up, and creates only inside the window.
Reconcile(t) ==
    /\ saga[t].pc = "reconcile"
    /\ TryReconcile(t,
          ToStatus(t, WALLET_CREATED, "readmit"),
          IF WindowValid THEN Goto(t, "create")
          ELSE ToStatus(t, WALLET_CREATE_UNCERTAIN, "raised"))
    /\ UNCHANGED <<attempt, record, wallets, idemAt, now>>

\* The provider keeps the idempotency key for a window after its first use.
Accept ==
    IF idemAt # None /\ now - idemAt < Window
    THEN UNCHANGED <<wallets, idemAt>>
    ELSE wallets' = wallets + 1 /\ idemAt' = now

\* create_wallet answers, or times out before or after it was accepted, or is
\* refused.
CreateWallet(t) ==
    /\ saga[t].pc = "create"
    /\ \/ Accept /\ Goto(t, "reread")
       \/ Accept /\ ToStatus(t, WALLET_CREATE_UNCERTAIN, "retry")
       \/ ToStatus(t, WALLET_CREATE_UNCERTAIN, "retry") /\ UNCHANGED <<wallets, idemAt>>
       \/ Goto(t, "raised") /\ UNCHANGED <<wallets, idemAt>>
    /\ UNCHANGED <<attempt, record, now>>

\* After a timeout: look, and create once more while the window allows it.
Retry(t) ==
    /\ saga[t].pc = "retry"
    /\ TryReconcile(t,
          ToStatus(t, WALLET_CREATED, "readmit"),
          IF ~WindowValid THEN Goto(t, "raised")
          ELSE IF saga[t].creates > 1
               THEN saga' = [saga EXCEPT ![t].pc = "create", ![t].creates = @ - 1]
               ELSE ToStatus(t, WALLET_CREATE_UNCERTAIN, "raised"))
    /\ UNCHANGED <<attempt, record, wallets, idemAt, now>>

\* A create that answered must be visible on an exact re-read.
Reread(t) ==
    /\ saga[t].pc = "reread"
    /\ TryReconcile(t, ToStatus(t, WALLET_CREATED, "readmit"),
                       ToStatus(t, WALLET_CREATE_UNCERTAIN, "raised"))
    /\ UNCHANGED <<attempt, record, wallets, idemAt, now>>

\* A task that starts at WALLET_CREATED or beyond only looks the wallet up.
RecoverWallet(t) ==
    /\ saga[t].pc = "recover"
    /\ TryReconcile(t, Goto(t, "readmit"), ToStatus(t, WALLET_CREATE_UNCERTAIN, "raised"))
    /\ UNCHANGED <<attempt, record, wallets, idemAt, now>>

\* Admitted and verified again, with the wallet at hand, before the binding.
Readmit(t) ==
    /\ saga[t].pc = "readmit"
    /\ Admission(t, ToStatus(t, WALLET_BOUND, "record"))
    /\ UNCHANGED <<attempt, record, wallets, idemAt, now>>

\* A committed record is reused when it matches what was admitted.
RecordMatches(t, matched) == matched \/ Goto(t, "raised")

ReadRecord(t) ==
    /\ saga[t].pc = "record"
    /\ IF record = None THEN Goto(t, "persist")
       ELSE RecordMatches(t, ToStatus(t, BINDING_PERSISTED, "done"))
    /\ UNCHANGED <<attempt, record, wallets, idemAt, now>>

\* Mutant: the record is overwritten.
RecordReplaced == TRUE

\* persist_provisioning_record.  A record carries its own verification time, so
\* a second task's record is a different one, and is refused.
RecordAccepted == record = None

PersistRecord(t) ==
    /\ saga[t].pc = "persist"
    /\ \/ /\ RecordAccepted
          /\ record' = t
          /\ ToStatus(t, BINDING_PERSISTED, "done")
       \/ /\ ToStatus(t, BINDING_PERSIST_FAILED, "raised")
          /\ UNCHANGED record
    /\ UNCHANGED <<attempt, wallets, idemAt, now>>

ProvisionStep(t) ==
    \/ ReadCurrent(t) \/ Advance(t) \/ ReadAttempt(t) \/ Admit(t)
    \/ RequestWallet(t) \/ Reconcile(t) \/ CreateWallet(t) \/ Retry(t)
    \/ Reread(t) \/ RecoverWallet(t) \/ Readmit(t) \/ ReadRecord(t)
    \/ PersistRecord(t)

\* A create call is bounded by its transport timeout, hours below the window.
\* The clock is read only until the wallet is created.
Tick ==
    /\ now < MaxTime
    /\ attempt # None /\ attempt.status < WALLET_CREATED
    /\ \A t \in Tasks : saga[t].pc # "create"
    /\ now' = now + 1
    /\ UNCHANGED <<attempt, record, wallets, idemAt, saga>>

=============================================================================
