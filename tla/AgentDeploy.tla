---------------------------- MODULE AgentDeploy -----------------------------
(***************************************************************************)
(* POST /agents/deploy and the run it launches (api/deploy.py,              *)
(* runtime/agentos_service.py, runtime/mm_agent_adapter.py), over the       *)
(* attempt, instance, lease and record rows of the store.                   *)
(*                                                                          *)
(* One operator, one idempotency key.  The requests are a client's retries  *)
(* and duplicates of one deploy, each possibly with another configuration,  *)
(* whose fingerprint is the configuration itself.  All requests and         *)
(* launches are tasks of one event loop: a step ends where the code awaits. *)
(* A market maker's launch first provisions its wallet                      *)
(* (WalletProvisioning), if the settings its process was started with say   *)
(* so.                                                                      *)
(***************************************************************************)
EXTENDS WalletProvisioning, DeployPreflight

CONSTANTS
    MaxKills,     \* bound on owner kill requests
    MaxCrashes    \* bound on process deaths and shutdowns

ASSUME DeployAssumption ==
    Configs \subseteq DeployConfig /\ MaxKills \in Nat /\ MaxCrashes \in Nat

VARIABLES
    config,      \* config[r]: the configuration request r submits
    req,         \* req[r]: where request r is, and the attempt status it read
    instance,    \* the agent_instances row: None, or an AgentInstance
    launch,      \* launch[r]: where request r's background launch is
    lease,       \* the instance_leases row: None, or an InstanceLease
    adapter,     \* mm_run_adapters[instance_id]: None, or whose adapter it is
    phase,       \* phase[r]: what r's adapter says of its run, or None
    killed,      \* killed_instances: None, or the run that was killed
    kill,        \* the owner's kill request
    kills, crashes,
    provisioning, \* the custody settings this process was started with
    gate,        \* gate[r]: the settings r's market maker was launched under (history)
    driven       \* the launches whose run was driven (history)

memVars  == <<adapter, phase, killed>>
envVars  == <<kill, kills, crashes, provisioning>>
vars == <<provVars, config, req, instance, launch, lease, memVars, envVars, gate, driven>>

DeployStatus == {"PENDING", "RUNNING", "SEALED", "FAILED"}
AgentInstance == [run_id : Tasks, status : DeployStatus, runtime_handle : Tasks \cup {None}]

LeaseStatus == {"STARTING", "ACTIVE", "RELEASED", "FAILED"}
InstanceLease == [run_id : Tasks, status : LeaseStatus]

RunPhase == {"active", "cancelling", "completed", "failed", "cancelled"}

\* require_privy_provisioning is None when disabled; enabled without a provider only
\* outside production, and with an incomplete pinned configuration not at all: the
\* process does not start.
Provisioning == {"disabled", "unwired", "enabled"}

\* None is no row and no phase either.
ASSUME NoRowAssumption ==
    None \notin AgentInstance /\ None \notin InstanceLease /\ None \notin RunPhase

DeployInit ==
    /\ ProvInit
    /\ config \in [Tasks -> Configs]
    /\ req = [r \in Tasks |-> [pc |-> "idle", seen |-> PENDING]]
    /\ instance = None
    /\ launch = [r \in Tasks |-> "none"]
    /\ lease = None
    /\ adapter = None
    /\ phase = [r \in Tasks |-> None]
    /\ killed = None
    /\ kill = [pc |-> "idle", run_id |-> None]
    /\ kills = 0
    /\ crashes = 0
    /\ provisioning \in Provisioning
    /\ gate = [r \in Tasks |-> None]
    /\ driven = {}

MM(r) == config[r].strategy = MM_STRATEGY_FAMILY

(***************************************************************************)
(* deploy_agent                                                            *)
(***************************************************************************)
ReqGoto(r, pc) == req' = [req EXCEPT ![r] = [pc |-> pc, seen |-> PENDING]]

\* _reconcile_existing_deploy: answer with the instance that is there, and
\* recover an unfinished wallet in the background, if this process provisions.
ReconcileExisting(r) ==
    /\ ReqGoto(r, "answered")
    /\ saga' = IF MM(r) /\ req[r].seen < BINDING_PERSISTED /\ provisioning = "enabled"
               THEN [saga EXCEPT ![r] = Begin(0)] ELSE saga

\* get_deployment_attempt_by_key finds this very deploy.
SameDeploy(r) == attempt # None /\ attempt.config_fingerprint = config[r]

\* Before anything is resolved or checked.
LookupPrior(r) ==
    /\ req[r].pc = "idle"
    /\ req' = [req EXCEPT ![r] =
          IF SameDeploy(r)
          THEN [pc |-> "prior", seen |-> attempt.status]
          ELSE [pc |-> "preflight", seen |-> PENDING]]
    /\ UNCHANGED <<provVars, config, instance, launch, lease, memVars, envVars, gate, driven>>

LookupPriorInstance(r) ==
    /\ req[r].pc = "prior"
    /\ \/ instance # None /\ ReconcileExisting(r)
       \/ instance = None /\ ReqGoto(r, "preflight") /\ UNCHANGED saga
    /\ UNCHANGED <<attempt, record, wallets, idemAt, now, config, instance, launch, lease,
                   memVars, envVars, gate, driven>>

\* Resolve the replay source and run the preflight checks; a failure answers
\* 400 or 422 with nothing written.
Preflight(r) ==
    /\ req[r].pc = "preflight"
    /\ \E w \in World : ReqGoto(r, IF PreflightOk(config[r], w) THEN "claim" ELSE "refused")
    /\ UNCHANGED <<provVars, config, instance, launch, lease, memVars, envVars, gate, driven>>

\* persist_deployment_attempt: UNIQUE(operator_id, idempotency_key).
KeyFree == attempt = None

\* The claim of the idempotency key, before the instance.
ClaimAttempt(r) ==
    /\ req[r].pc = "claim"
    /\ \/ /\ KeyFree
          /\ attempt' = [status |-> PENDING, created |-> now,
                         config_fingerprint |-> config[r], external_id |-> FALSE]
          /\ ReqGoto(r, "persist")
       \/ /\ ~KeyFree
          /\ ReqGoto(r, "duplicate")
          /\ UNCHANGED attempt
    /\ UNCHANGED <<record, wallets, idemAt, now, saga, config, instance, launch, lease,
                   memVars, envVars, gate, driven>>

ReadRecorded(r) ==
    /\ req[r].pc = "duplicate"
    /\ req' = [req EXCEPT ![r] =
          IF SameDeploy(r)
          THEN [pc |-> "target", seen |-> attempt.status]
          ELSE [pc |-> "refused", seen |-> attempt.status]]
    /\ UNCHANGED <<provVars, config, instance, launch, lease, memVars, envVars, gate, driven>>

\* The recorded instance is answered; without one, only a pending claim is
\* driven again.
ReadTarget(r) ==
    /\ req[r].pc = "target"
    /\ \/ instance # None /\ ReconcileExisting(r)
       \/ /\ instance = None
          /\ ReqGoto(r, IF req[r].seen = PENDING THEN "persist" ELSE "refused")
          /\ UNCHANGED saga
    /\ UNCHANGED <<attempt, record, wallets, idemAt, now, config, instance, launch, lease,
                   memVars, envVars, gate, driven>>

\* persist_agent_instance: insert, or replace the row that is there.
UpsertInstance(row) == instance' = row

\* The instance, with a fresh run id, and the launch of its run.
PersistInstance(r) ==
    /\ req[r].pc = "persist"
    /\ UpsertInstance([run_id |-> r, status |-> "PENDING", runtime_handle |-> None])
    /\ ReqGoto(r, "answered")
    /\ launch' = [launch EXCEPT ![r] = "start"]
    /\ UNCHANGED <<provVars, config, lease, memVars, envVars, gate, driven>>

DeployStep(r) ==
    \/ LookupPrior(r) \/ LookupPriorInstance(r) \/ Preflight(r) \/ ClaimAttempt(r)
    \/ ReadRecorded(r) \/ ReadTarget(r) \/ PersistInstance(r)

(***************************************************************************)
(* _launch and _launch_mm                                                  *)
(***************************************************************************)
LaunchGoto(r, pc) == launch' = [launch EXCEPT ![r] = pc]

\* update_agent_instance_status: whatever the row says.
SetStatus(status) == instance' = [instance EXCEPT !.status = status]

LaunchDirectional(r) ==
    /\ launch[r] = "start" /\ ~MM(r)
    /\ SetStatus("RUNNING")
    /\ driven' = driven \cup {r}
    /\ LaunchGoto(r, "driving")
    /\ UNCHANGED <<provVars, config, req, lease, memVars, envVars, gate>>

\* Where a market maker's launch goes from the custody gate: disabled, it runs without
\* a wallet; enabled without a provider, it fails closed.
GateOpens ==
    CASE provisioning = "enabled" -> "provision"
      [] provisioning = "disabled" -> "lease"
      [] OTHER -> "fail"

\* Up to the first await after the gate: of the saga, or of the lease, for which the
\* adapter is published first.
LaunchMm(r) ==
    /\ launch[r] = "start" /\ MM(r)
    /\ SetStatus("RUNNING")
    /\ gate' = [gate EXCEPT ![r] = provisioning]
    /\ saga' = IF GateOpens = "provision" THEN [saga EXCEPT ![r] = Begin(1)] ELSE saga
    /\ adapter' = IF GateOpens = "lease" THEN r ELSE adapter
    /\ LaunchGoto(r, GateOpens)
    /\ UNCHANGED <<attempt, record, wallets, idemAt, now, config, req, lease, phase, killed,
                   envVars, driven>>

\* A lost compare-and-swap is re-entered a bounded number of times.
Reenter(r) ==
    /\ launch[r] = "provision"
    /\ saga[r].pc = "conflict"
    /\ \/ /\ saga[r].reentry < MaxReentries
          /\ saga' = [saga EXCEPT ![r] = Begin(saga[r].reentry + 1)]
          /\ UNCHANGED launch
       \/ /\ saga[r].reentry = MaxReentries
          /\ LaunchGoto(r, "fail")
          /\ UNCHANGED saga
    /\ UNCHANGED <<attempt, record, wallets, idemAt, now, config, req, instance, lease,
                   memVars, envVars, gate, driven>>

\* Mutants: a failed provisioning that does not stop the launch, and one that is
\* only noticed on the first entry.
ProvisionFailureIgnored(r) ==
    /\ launch[r] = "provision"
    /\ saga[r].pc = "raised"
    /\ LaunchGoto(r, "lease")
    /\ UNCHANGED <<provVars, config, req, instance, lease, memVars, envVars, gate, driven>>

ProvisionFailsOnFirstEntry(r) ==
    /\ launch[r] = "provision"
    /\ saga[r].pc = "raised" /\ saga[r].reentry = 1
    /\ LaunchGoto(r, "fail")
    /\ UNCHANGED <<provVars, config, req, instance, lease, memVars, envVars, gate, driven>>

ProvisionFails(r) ==
    /\ launch[r] = "provision"
    /\ saga[r].pc = "raised"
    /\ LaunchGoto(r, "fail")
    /\ UNCHANGED <<provVars, config, req, instance, lease, memVars, envVars, gate, driven>>

\* The live adapter is published so that a kill can reach it.
PublishAdapter(r) ==
    /\ launch[r] = "provision"
    /\ saga[r].pc = "done"
    /\ adapter' = r
    /\ LaunchGoto(r, "lease")
    /\ Goto(r, "idle")
    /\ UNCHANGED <<attempt, record, wallets, idemAt, now, config, req, instance, lease, phase,
                   killed, envVars, gate, driven>>

\* The finally of _launch_mm takes out whatever adapter is published.
Deregister == adapter' = None

\* Mutant: a finished lease may be taken again.
LeaseFreeOnceOver ==
    IF lease = None THEN TRUE ELSE lease.status \in {"RELEASED", "FAILED"}

\* acquire_instance_lease: UNIQUE(instance_id), for good.
LeaseFree == lease = None

AcquireLease(r) ==
    /\ launch[r] = "lease"
    /\ \/ /\ LeaseFree
          /\ lease' = [run_id |-> r, status |-> "STARTING"]
          /\ LaunchGoto(r, "handle")
          /\ UNCHANGED adapter
       \/ /\ ~LeaseFree
          /\ LaunchGoto(r, "fail")
          /\ Deregister
          /\ UNCHANGED lease
    /\ UNCHANGED <<provVars, config, req, instance, phase, killed, envVars, gate, driven>>

\* The launch's own copy of the instance, with its handle, written over the row.
PersistHandle(r) ==
    /\ launch[r] = "handle"
    /\ \/ /\ UpsertInstance([run_id |-> r, status |-> "PENDING", runtime_handle |-> r])
          /\ LaunchGoto(r, "activate")
       \/ LaunchGoto(r, "releaseFailed") /\ UNCHANGED instance
    /\ UNCHANGED <<provVars, config, req, lease, memVars, envVars, gate, driven>>

\* _lease_transition: forward only, and a terminal lease never changes.
LeaseRank(s) == CASE s = "STARTING" -> 0 [] s = "ACTIVE" -> 1 [] OTHER -> 2
LeaseTransition(cur, s) ==
    IF LeaseRank(s) > LeaseRank(cur.status) THEN [cur EXCEPT !.status = s] ELSE cur

TransitionLease(s) == lease' = LeaseTransition(lease, s)

\* start_run: the adapter registers the run as active and drives it.
StartDriving(r) ==
    /\ phase' = [phase EXCEPT ![r] = "active"]
    /\ driven' = driven \cup {r}

ActivateAndDrive(r) ==
    /\ launch[r] = "activate"
    /\ TransitionLease("ACTIVE")
    /\ StartDriving(r)
    /\ LaunchGoto(r, "driving")
    /\ UNCHANGED <<provVars, config, req, instance, adapter, killed, envVars, gate>>

\* Mutants: a frozen run under a phase of its own; a kill lost at the end.
EndedPhaseFrozen(p, frozen) ==
    IF p = "cancelling" THEN "cancelled" ELSE IF frozen THEN "frozen" ELSE "completed"
EndedPhaseForgetsKill(p, frozen) == IF frozen THEN "failed" ELSE "completed"

\* _drive_run: what the run's end makes of its phase.
EndedPhase(p, frozen) ==
    IF p = "cancelling" THEN "cancelled" ELSE IF frozen THEN "failed" ELSE "completed"

RunReturns(r) ==
    /\ launch[r] = "driving"
    /\ \/ /\ MM(r)
          /\ \E frozen \in BOOLEAN :
                phase' = [phase EXCEPT ![r] = EndedPhase(phase[r], frozen)]
          /\ LaunchGoto(r, "release")
       \/ /\ ~MM(r)
          /\ LaunchGoto(r, "seal")
          /\ UNCHANGED phase
    /\ UNCHANGED <<provVars, config, req, instance, lease, adapter, killed,
                   envVars, gate, driven>>

RunRaises(r) ==
    /\ launch[r] = "driving"
    /\ \/ /\ MM(r)
          /\ phase' = [phase EXCEPT ![r] = "failed"]
          /\ LaunchGoto(r, "releaseFailed")
       \/ /\ ~MM(r)
          /\ LaunchGoto(r, "fail")
          /\ UNCHANGED phase
    /\ UNCHANGED <<provVars, config, req, instance, lease, adapter, killed,
                   envVars, gate, driven>>

\* release_instance_lease, then the finally of _launch_mm.
ReleaseLease(r) ==
    /\ launch[r] \in {"release", "releaseFailed"}
    /\ TransitionLease(IF launch[r] = "release" THEN "RELEASED" ELSE "FAILED")
    /\ LaunchGoto(r, IF launch[r] = "release" THEN "seal" ELSE "fail")
    /\ Deregister
    /\ UNCHANGED <<provVars, config, req, instance, phase, killed, envVars, gate, driven>>

FinishLaunch(r) ==
    /\ launch[r] \in {"seal", "fail"}
    /\ SetStatus(IF launch[r] = "seal" THEN "SEALED" ELSE "FAILED")
    /\ LaunchGoto(r, "over")
    /\ UNCHANGED <<provVars, config, req, lease, memVars, envVars, gate, driven>>

LaunchStep(r) ==
    \/ LaunchDirectional(r) \/ LaunchMm(r) \/ Reenter(r) \/ ProvisionFails(r) \/ PublishAdapter(r)
    \/ AcquireLease(r) \/ PersistHandle(r) \/ ActivateAndDrive(r)
    \/ RunReturns(r) \/ RunRaises(r) \/ ReleaseLease(r) \/ FinishLaunch(r)

SagaStep(r) ==
    /\ ProvisionStep(r)
    /\ UNCHANGED <<config, req, instance, launch, lease, memVars, envVars, gate, driven>>

(***************************************************************************)
(* kill_instance: read the owned instance, then act on it.  Without a       *)
(* runtime handle the request is refused and nothing changes.               *)
(***************************************************************************)
KillRead ==
    /\ kill.pc = "idle"
    /\ kills < MaxKills
    /\ instance # None /\ instance.runtime_handle # None
    /\ kill' = [pc |-> "act", run_id |-> instance.run_id]
    /\ kills' = kills + 1
    /\ UNCHANGED <<provVars, config, req, instance, launch, lease, memVars, crashes, provisioning,
                   gate, driven>>

\* The run the kill reaches: of the published adapter, named by the row.
KillTarget ==
    IF adapter = kill.run_id /\ phase[kill.run_id] # None
    THEN kill.run_id ELSE None

\* acancel_run engages once; any other kill answers without an effect.
KillAct ==
    /\ kill.pc = "act"
    /\ kill' = [pc |-> "idle", run_id |-> None]
    /\ \/ /\ KillTarget # None
          /\ phase[KillTarget] = "active"
          /\ phase' = [phase EXCEPT ![KillTarget] = "cancelling"]
          /\ killed' = KillTarget
       \/ /\ KillTarget # None => phase[KillTarget] # "active"
          /\ UNCHANGED <<phase, killed>>
    /\ UNCHANGED <<provVars, config, req, instance, launch, lease, adapter, kills,
                   crashes, provisioning, gate, driven>>

(***************************************************************************)
(* The process dies, or is shut down: cancel_deploy_tasks cancels the       *)
(* launches, and one inside the guarded body of its lease still fails it;   *)
(* the write that releases it is outside.  The rows stay, the dictionaries  *)
(* and the tasks are gone, and the next process has settings of its own.    *)
(***************************************************************************)
FailsLease(r) == launch[r] \in {"handle", "activate", "driving", "releaseFailed"}

ProcessEnds(graceful) ==
    /\ crashes < MaxCrashes
    /\ crashes' = crashes + 1
    /\ req' = [r \in Tasks |->
                 IF req[r].pc \in {"idle", "answered", "refused"} THEN req[r]
                 ELSE [req[r] EXCEPT !.pc = "lost"]]
    /\ launch' = [r \in Tasks |-> IF launch[r] \in {"none", "over"} THEN launch[r] ELSE "dead"]
    /\ saga' = [r \in Tasks |-> IdleSaga]
    /\ IF graceful /\ \E r \in Tasks : MM(r) /\ FailsLease(r)
       THEN TransitionLease("FAILED") ELSE UNCHANGED lease
    /\ adapter' = None
    /\ phase' = [r \in Tasks |-> None]
    /\ killed' = None
    /\ kill' = [pc |-> "idle", run_id |-> None]
    /\ provisioning' \in Provisioning
    /\ UNCHANGED <<attempt, record, wallets, idemAt, now, config, instance, kills, gate, driven>>

Crash == ProcessEnds(FALSE)
Shutdown == ProcessEnds(TRUE)

Clock ==
    /\ Tick
    /\ UNCHANGED <<config, req, instance, launch, lease, memVars, envVars, gate, driven>>

DeployNext ==
    \/ \E r \in Tasks : DeployStep(r)
    \/ \E r \in Tasks : LaunchStep(r)
    \/ \E r \in Tasks : SagaStep(r)
    \/ KillRead \/ KillAct \/ Crash \/ Shutdown \/ Clock

\* The event loop runs every task that is ready; every awaited call returns.
DeploySpec ==
    /\ DeployInit /\ [][DeployNext]_vars
    /\ \A r \in Tasks : WF_vars(DeployStep(r)) /\ WF_vars(LaunchStep(r)) /\ WF_vars(SagaStep(r))

(***************************************************************************)
(* Properties                                                              *)
(***************************************************************************)
\* Every row and dictionary keeps its declared shape.
DeployTypeOK ==
    /\ attempt = None \/ attempt \in DeploymentAttempt
    /\ record \in Tasks \cup {None}
    /\ wallets \in Nat
    /\ saga \in [Tasks -> Saga]
    /\ instance = None \/ instance \in AgentInstance
    /\ lease = None \/ lease \in InstanceLease
    /\ phase \in [Tasks -> RunPhase \cup {None}]
    /\ adapter \in Tasks \cup {None}
    /\ launch \in [Tasks -> {"none", "start", "provision", "lease", "handle", "activate",
                             "driving", "release", "releaseFailed", "seal", "fail", "over",
                             "dead"}]
    /\ provisioning \in Provisioning
    /\ gate \in [Tasks -> Provisioning \cup {None}]

\* However launches, recoveries, timeouts and restarts interleave, the provider
\* is never brought to make a second wallet for a deployment.
OneWallet == wallets <= 1

\* A market maker is driven without a wallet record only if its launch found custody
\* disabled: under a gate that is on, a missing provider, a failed or lost saga or a
\* restart under other settings never lets one through.  An attempt that says the
\* binding is persisted has its record.
HasWallet(r) == gate[r] = "disabled" \/ (gate[r] = "enabled" /\ record # None)

RunHasWallet ==
    /\ \A r \in driven : MM(r) => HasWallet(r)
    /\ attempt # None => (attempt.status = BINDING_PERSISTED => record # None)

\* Duplicate deploys and restarts never drive a second market-maker run.
OneMarketMakerRun == Cardinality({r \in driven : MM(r)}) <= 1

\* A kill that engaged is never answered by a completed run while the process
\* lives.
KilledNeverCompletes ==
    \A r \in Tasks : killed = r => phase[r] \in {"cancelling", "cancelled", "failed"}

\* Whatever request reached the launch, no market maker runs on a live source or
\* with live orders, and no directional agent with live orders and nowhere to
\* place them.
OnlyVettedRuns ==
    \A r \in driven :
        /\ MM(r) => config[r].source_mode = "replay" /\ config[r].execution_mode # "live_guarded"
        /\ config[r].execution_mode = "live_guarded" =>
              config[r].market_allowlist /\ config[r].venue_allowlist

\* The record row is written once, and the attempt never goes back.
CustodyForward ==
    [][ /\ record # None => record' = record
        /\ attempt # None => attempt' # None /\ attempt'.status >= attempt.status ]_vars

\* A launch settles, unless its process ends first.
LaunchSettles ==
    \A r \in Tasks : launch[r] = "start" ~> launch[r] \in {"over", "dead"}

\* "same key => same instance, never a duplicate": one run per deploy.
OneRunPerDeploy == Cardinality(driven) <= 1

=============================================================================
