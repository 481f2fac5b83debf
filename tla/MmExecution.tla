---------------------------- MODULE MmExecution ----------------------------
(***************************************************************************)
(* The real-money execution tool: concurrent calls of propose_mm_execution *)
(* (veridex/dust_execution/facade.py) around the durable session state,    *)
(* each driving one run of run_dust_execution (runner.py) against a venue  *)
(* wallet that all sessions share.  A call is a coroutine: between two of  *)
(* its steps any other call, the venue, the fill recorder or a crash of    *)
(* the process may intervene, and what it has read is stale by then.       *)
(*                                                                         *)
(* A call:                                                                 *)
(*   idle -> loaded -> reserved -> [triggers] -> startup -> [sweep]        *)
(*   -> decide -> [cancelall | replace -> judge] -> submit -> reconcile    *)
(*   -> settle -> idle                                                     *)
(***************************************************************************)
EXTENDS SessionState

CONSTANTS
    Callers,        \* concurrent calls of the tool
    LiveAttempts,   \* attempts whose request has mode "live_guarded"
    IntentOf,       \* attempt -> intent kind of its request
    Replaces,       \* attempt -> the order a cancel_replace names
    FillPnls,       \* P&L values a reconciled fill may have
    MaxFills        \* bound on recorded fills

IntentKinds == {"take", "make_quote", "cancel_replace", "cancel_all", "no_quote"}

ASSUME CallAssumption ==
    /\ LiveAttempts \subseteq Attempts
    /\ IntentOf \in [Attempts -> IntentKinds]
    /\ Replaces \in [Attempts -> Attempts]
    /\ FillPnls \subseteq Int
    /\ MaxFills \in Nat
    /\ 0 \in Days

VARIABLES
    pc,      \* caller -> program point
    req,     \* caller -> attempt of its current or last request
    snap,    \* caller -> DurableSessionState as loaded
    armed,   \* caller -> Mode B armed for this run (live runs only)
    kill,    \* caller -> the envelope's kill switch in this run
    blocked, \* caller -> submit_blocked of this run's DustSafetySession
    recon,   \* caller -> reconciliation outcome to be settled
    sent,    \* caller -> this run has posted an order (history)
    result,  \* caller -> execution status of the last completed call
    venue,   \* attempt -> its order at the venue
    wires,   \* attempt -> number of orders ever posted for it (history)
    late,    \* session -> orders posted since its recorded loss reached the cap (history)
    today,   \* the UTC day of the clock
    fills    \* number of fills recorded (bound)

callVars == <<pc, req, snap, armed, kill, blocked, recon, sent, result>>
envVars == <<today, fills>>
vars == <<rows, netSession, netDay, pc, req, snap, armed, kill, blocked, recon, sent,
          result, venue, wires, late, today, fills>>

NoRequest == "no_request"

PCs == {"idle", "loaded", "reserved", "triggers", "startup", "sweep", "decide",
        "cancelall", "replace", "judge", "submit", "reconcile", "settle"}

\* Points at which a call owns the reservation row of its attempt.
Holding == PCs \ {"idle", "loaded"}

Results == {"NONE", "DENIED", "FROZEN", "ORDER_CAP", "LOSS_CAP", "REPLAYED",
            "SUBMITTED", "NO_ORDER", "RAISED"}

OrderStates == {"none", "transit", "live", "partial", "filled", "gone"}

\* Resting at the venue, so listed by get_orders and withdrawn by cancel_all_orders.
OpenStates == {"live", "partial"}

Snapshots == [count : Nat, lossSession : Nat, lossDay : Nat, day : Days]

NoSnapshot == [count |-> 0, lossSession |-> 0, lossDay |-> 0, day |-> 0]

\* The locals of the calls.
LocalsTypeOK ==
    /\ snap \in [Callers -> Snapshots]
    /\ armed \in [Callers -> BOOLEAN]
    /\ kill \in [Callers -> BOOLEAN]
    /\ blocked \in [Callers -> BOOLEAN]
    /\ recon \in [Callers -> {"DEFINITIVELY_ABSENT", "RESOLVED", "AMBIGUOUS"}]

\* Where the calls are and what they report.
CallsTypeOK ==
    /\ pc \in [Callers -> PCs]
    /\ req \in [Callers -> Attempts \cup {NoRequest}]
    /\ \A c \in Callers : pc[c] # "idle" => req[c] \in Attempts
    /\ sent \in [Callers -> BOOLEAN]
    /\ result \in [Callers -> Results]

\* The venue, the histories and the clock.
VenueTypeOK ==
    /\ venue \in [Attempts -> OrderStates]
    /\ wires \in [Attempts -> Nat]
    /\ late \in [Sessions -> Nat]
    /\ today \in Days
    /\ fills \in Nat

\* Every variable has its type, and a call that runs has a request.
TypeOK == StateTypeOK /\ LocalsTypeOK /\ CallsTypeOK /\ VenueTypeOK

Init ==
    /\ StateInit
    /\ pc = [c \in Callers |-> "idle"]
    /\ req = [c \in Callers |-> NoRequest]
    /\ snap = [c \in Callers |-> NoSnapshot]
    /\ armed = [c \in Callers |-> FALSE]
    /\ kill = [c \in Callers |-> FALSE]
    /\ blocked = [c \in Callers |-> FALSE]
    /\ recon = [c \in Callers |-> "DEFINITIVELY_ABSENT"]
    /\ sent = [c \in Callers |-> FALSE]
    /\ result = [c \in Callers |-> "NONE"]
    /\ venue = [a \in Attempts |-> "none"]
    /\ wires = [a \in Attempts |-> 0]
    /\ late = [s \in Sessions |-> 0]
    /\ today = 0
    /\ fills = 0

Goto(c, from, to) == pc[c] = from /\ pc' = [pc EXCEPT ![c] = to]

\* The call returns or raises; its locals are gone.
Finish(c, r) ==
    /\ pc' = [pc EXCEPT ![c] = "idle"]
    /\ result' = [result EXCEPT ![c] = r]
    /\ snap' = [snap EXCEPT ![c] = NoSnapshot]
    /\ armed' = [armed EXCEPT ![c] = FALSE]
    /\ kill' = [kill EXCEPT ![c] = FALSE]
    /\ blocked' = [blocked EXCEPT ![c] = FALSE]
    /\ recon' = [recon EXCEPT ![c] = "DEFINITIVELY_ABSENT"]

Live(c) == req[c] \in LiveAttempts

OpenOrders == {a \in Attempts : venue[a] \in OpenStates}

\* cancel_all_orders: every order resting in the wallet is withdrawn.
Swept == [a \in Attempts |-> IF venue[a] \in OpenStates THEN "gone" ELSE venue[a]]

-----------------------------------------------------------------------------
(* Up to the reservation. *)

\* The call starts: it reads the clock once and loads the durable state.
Load(c, a) ==
    /\ Goto(c, "idle", "loaded")
    /\ req' = [req EXCEPT ![c] = a]
    /\ snap' = [snap EXCEPT ![c] = Loaded(SessionOf[a], today)]
    /\ sent' = [sent EXCEPT ![c] = FALSE]
    /\ result' = [result EXCEPT ![c] = "NONE"]
    /\ UNCHANGED <<stateVars, armed, kill, blocked, recon, venue, wires, late, envVars>>

\* authorize_mode_b: real money needs both envelope loss caps.
AuthorizeModeB == EnvMaxSessionLoss > 0 /\ EnvMaxDailyLoss > 0

\* Refused before anything is reserved: no provider for a live call, a durable
\* state of another session, or an envelope without loss caps.
Refuse(c) ==
    /\ pc[c] = "loaded"
    /\ Finish(c, "DENIED")
    /\ UNCHANGED <<stateVars, req, sent, venue, wires, late, envVars>>

Denial(outcome) ==
    CASE outcome \in {"SCOPE_FROZEN", "PENDING_RECONCILE"} -> "FROZEN"
      [] outcome \in {"CAP_EXCEEDED_SESSION", "CAP_EXCEEDED_DAY"} -> "ORDER_CAP"
      [] outcome \in {"LOSS_CAP_EXCEEDED_SESSION", "LOSS_CAP_EXCEEDED_DAY"} -> "LOSS_CAP"
      [] OTHER -> "REPLAYED"

\* The atomic reserve-or-freeze, and the immediate answers to all but a reservation.
Reserve(c) ==
    LET outcome == ReservationOutcome(req[c], snap[c].day) IN
    /\ pc[c] = "loaded"
    /\ Live(c) => AuthorizeModeB
    /\ \/ /\ outcome = "RESERVED"
          /\ InsertRow(req[c])
          /\ pc' = [pc EXCEPT ![c] = "reserved"]
          /\ UNCHANGED <<result, snap, armed, kill, blocked, recon>>
       \/ /\ outcome # "RESERVED"
          /\ Finish(c, Denial(outcome))
          /\ UNCHANGED rows
    /\ UNCHANGED <<netSession, netDay, req, sent, venue, wires, late, envVars>>

\* The store raises. The call is denied, and whether the row was written is unknown.
ReserveRaises(c) ==
    /\ pc[c] = "loaded"
    /\ Live(c) => AuthorizeModeB
    /\ Finish(c, "DENIED")
    /\ \/ UNCHANGED rows
       \/ ReservationOutcome(req[c], snap[c].day) = "RESERVED" /\ InsertRow(req[c])
    /\ UNCHANGED <<netSession, netDay, req, sent, venue, wires, late, envVars>>

-----------------------------------------------------------------------------
(* The run: triggers, the startup sweep, the gates, the order. *)

\* Operator interlock and arming gate (live only), then the run starts with a fresh
\* safety session. An engaged kill switch is its first trigger, in either mode.
Arm(c) ==
    /\ pc[c] = "reserved"
    /\ \E isArmed \in (IF Live(c) THEN BOOLEAN ELSE {FALSE}), killed \in BOOLEAN :
          /\ armed' = [armed EXCEPT ![c] = isArmed]
          /\ kill' = [kill EXCEPT ![c] = killed]
          /\ blocked' = [blocked EXCEPT ![c] = killed]
          /\ pc' = [pc EXCEPT ![c] = IF killed THEN "triggers" ELSE "startup"]
    /\ UNCHANGED <<stateVars, req, snap, recon, sent, result, venue, wires, late, envVars>>

\* The kill switch's sweep, already blocked while the venue call is awaited.
TriggerSweep(c) ==
    /\ Goto(c, "triggers", "startup")
    /\ venue' = Swept
    /\ UNCHANGED <<stateVars, req, snap, armed, kill, blocked, recon, sent, result, wires, late,
                   envVars>>

\* Mutant: the startup read never blocks the run.
StartupReadIgnored(c) ==
    /\ Goto(c, "startup", "decide")
    /\ UNCHANGED <<stateVars, req, snap, armed, kill, blocked, recon, sent, result, venue, wires,
                   late, envVars>>

\* The startup read of the wallet's open orders. When the run could place an order, an
\* unreadable or non-empty wallet blocks it and is swept (once: a run that is blocked
\* already does not sweep again; an adapter that cannot sweep is only blocked).
StartupRead(c) ==
    LET enforce == Live(c) /\ armed[c] IN
    /\ pc[c] = "startup"
    /\ \E readOk \in BOOLEAN :
          \/ /\ enforce /\ (readOk => OpenOrders # {})
             /\ blocked' = [blocked EXCEPT ![c] = TRUE]
             /\ \/ ~blocked[c] /\ pc' = [pc EXCEPT ![c] = "sweep"]
                \/ (blocked[c] \/ ~readOk) /\ pc' = [pc EXCEPT ![c] = "decide"]
          \/ /\ ~enforce \/ (readOk /\ OpenOrders = {})
             /\ pc' = [pc EXCEPT ![c] = "decide"]
             /\ UNCHANGED blocked
    /\ UNCHANGED <<stateVars, req, snap, armed, kill, recon, sent, result, venue, wires, late,
                   envVars>>

\* The venue call of the startup sweep, the run blocked since the read.
StartupSweep(c) ==
    /\ Goto(c, "sweep", "decide")
    /\ venue' = Swept
    /\ UNCHANGED <<stateVars, req, snap, armed, kill, blocked, recon, sent, result, wires, late,
                   envVars>>

\* A live cancel_all intent blocks the run and sweeps, armed or not.
CancelAllIntent(c) ==
    /\ Goto(c, "decide", "cancelall")
    /\ Live(c) /\ IntentOf[req[c]] = "cancel_all" /\ ~blocked[c]
    /\ blocked' = [blocked EXCEPT ![c] = TRUE]
    /\ UNCHANGED <<stateVars, req, snap, armed, kill, recon, sent, result, venue, wires, late,
                   envVars>>

CancelAllSweep(c) ==
    /\ Goto(c, "cancelall", "settle")
    /\ venue' = Swept
    /\ recon' = [recon EXCEPT ![c] = "DEFINITIVELY_ABSENT"]
    /\ UNCHANGED <<stateVars, req, snap, armed, kill, blocked, sent, result, wires, late, envVars>>

\* The admission verdict ALLOWs: no kill switch, no manifest loss cap reached.
Admitted(c) ==
    /\ ~kill[c]
    /\ ~CapBreached(ManMaxSessionLoss, snap[c].lossSession)
    /\ ~CapBreached(ManMaxDailyLoss, snap[c].lossDay)

\* No order: an intent that places none, or any gate, an unusable quote among them.
Abstain(c) ==
    /\ Goto(c, "decide", "settle")
    /\ Live(c) /\ IntentOf[req[c]] = "cancel_all" => blocked[c]
    /\ recon' = [recon EXCEPT ![c] = "DEFINITIVELY_ABSENT"]
    /\ UNCHANGED <<stateVars, req, snap, armed, kill, blocked, sent, result, venue, wires, late,
                   envVars>>

\* Every gate before the order passes, on the values loaded at the start of the call.
PassGates(c) ==
    /\ Goto(c, "decide", IF Live(c) /\ IntentOf[req[c]] = "cancel_replace" THEN "replace"
                         ELSE "submit")
    /\ IntentOf[req[c]] \in {"take", "make_quote", "cancel_replace"}
    /\ Live(c) => armed[c]
    /\ ~blocked[c]
    /\ Admitted(c)
    /\ ~CapBreached(SessionLossCap, snap[c].lossSession)
    /\ ~CapBreached(DailyLossCap, snap[c].lossDay)
    /\ ~CapReached(snap[c].count, MaxOrdersPerSession)
    /\ ~CapReached(snap[c].count, MaxOrdersPerDay)
    /\ UNCHANGED <<stateVars, req, snap, armed, kill, blocked, recon, sent, result, venue,
                   wires, late, envVars>>

\* The named order is cancelled; an order that does not rest is not affected.
CancelOld(c) ==
    LET old == Replaces[req[c]] IN
    /\ Goto(c, "replace", "judge")
    /\ venue' = [venue EXCEPT ![old] = IF @ \in OpenStates THEN "gone" ELSE @]
    /\ UNCHANGED <<stateVars, req, snap, armed, kill, blocked, recon, sent, result, wires, late,
                   envVars>>

\* Withdrawn: a terminal status was read and no fill, as far as the history was read.
Withdrawn(st, statusRead, historyRead) ==
    statusRead /\ st \in {"filled", "gone"} /\ ~(historyRead /\ st = "filled")

\* The replacement follows only on an order judged withdrawn; otherwise the run abstains.
JudgeOld(c) ==
    /\ pc[c] = "judge"
    /\ \/ /\ \E statusRead, historyRead \in BOOLEAN :
                Withdrawn(venue[Replaces[req[c]]], statusRead, historyRead)
          /\ pc' = [pc EXCEPT ![c] = "submit"]
          /\ UNCHANGED recon
       \/ /\ pc' = [pc EXCEPT ![c] = "settle"]
          /\ recon' = [recon EXCEPT ![c] = "DEFINITIVELY_ABSENT"]
    /\ UNCHANGED <<stateVars, req, snap, armed, kill, blocked, sent, result, venue, wires, late,
                   envVars>>

\* A dry run signs locally and posts nothing.
DryRun(c) ==
    /\ Goto(c, "submit", "settle")
    /\ ~Live(c)
    /\ recon' = [recon EXCEPT ![c] = "DEFINITIVELY_ABSENT"]
    /\ UNCHANGED <<stateVars, req, snap, armed, kill, blocked, sent, result, venue, wires, late,
                   envVars>>

SessionLossBreached(s) == CapBreached(SessionLossCap, LossOf(netSession[s]))

\* The order is posted for attempt a and the venue has put it in state st.
Post(c, a, st) ==
    /\ venue' = [venue EXCEPT ![a] = st]
    /\ wires' = [wires EXCEPT ![a] = @ + 1]
    /\ sent' = [sent EXCEPT ![c] = TRUE]
    /\ late' = IF SessionLossBreached(SessionOf[a]) THEN [late EXCEPT ![SessionOf[a]] = @ + 1]
               ELSE late

\* The post is acknowledged, accepted or not.
Submit(c) ==
    /\ Goto(c, "submit", "reconcile")
    /\ Live(c)
    /\ \E st \in {"live", "partial", "filled", "gone"} : Post(c, req[c], st)
    /\ UNCHANGED <<stateVars, req, snap, armed, kill, blocked, recon, result, envVars>>

\* The post's acknowledgement is lost: the exception leaves the tool, and the order has
\* reached the venue or is still on its way.
AckLost(c) ==
    /\ pc[c] = "submit"
    /\ Live(c)
    /\ \E st \in {"transit", "live", "partial", "filled", "gone"} : Post(c, req[c], st)
    /\ Finish(c, "RAISED")
    /\ UNCHANGED <<stateVars, req, envVars>>

\* Mutant: a live order counts as resolved, as its acknowledgement would have it.
AssessmentTrustsLive(st, statusRead, historyRead) ==
    IF statusRead /\ st # "transit" THEN "RESOLVED" ELSE "AMBIGUOUS"

\* assess_uncertain_submit on what the two reads returned: a fill in the history or a
\* terminal status resolves; a failed read is no proof.
Assessment(st, statusRead, historyRead) ==
    IF (historyRead /\ st \in {"partial", "filled"}) \/ (statusRead /\ st \in {"filled", "gone"})
    THEN "RESOLVED" ELSE "AMBIGUOUS"

Reconcile(c) ==
    /\ Goto(c, "reconcile", "settle")
    /\ \E statusRead, historyRead \in BOOLEAN :
          recon' = [recon EXCEPT ![c] = Assessment(venue[req[c]], statusRead, historyRead)]
    /\ UNCHANGED <<stateVars, req, snap, armed, kill, blocked, sent, result, venue, wires, late,
                   envVars>>

\* Mutant: an armed run that passed admission is reported as submitted.
DispositionFromArming(c) ==
    IF ~Admitted(c) THEN "DENIED"
    ELSE IF armed[c] THEN "SUBMITTED"
    ELSE "NO_ORDER"

\* NO_ORDER stands for the codes NOT_ARMED and ABSTAINED.
Disposition(c) ==
    IF ~Admitted(c) THEN "DENIED"
    ELSE IF sent[c] THEN "SUBMITTED"
    ELSE "NO_ORDER"

\* The outcome is settled, or the store fails and the failure is suppressed.
Settle(c) ==
    /\ pc[c] = "settle"
    /\ SettleRow(req[c], recon[c]) \/ UNCHANGED rows
    /\ Finish(c, Disposition(c))
    /\ UNCHANGED <<netSession, netDay, req, sent, venue, wires, late, envVars>>

\* Any awaited call raises, or the process dies: durable state stays as it is.
Raise(c) ==
    /\ pc[c] # "idle"
    /\ Finish(c, "RAISED")
    /\ UNCHANGED <<stateVars, req, sent, venue, wires, late, envVars>>

CallStep(c) ==
    \/ \E a \in Attempts : Load(c, a)
    \/ Refuse(c) \/ Reserve(c) \/ ReserveRaises(c) \/ Arm(c) \/ TriggerSweep(c)
    \/ StartupRead(c) \/ StartupSweep(c) \/ CancelAllIntent(c) \/ CancelAllSweep(c)
    \/ Abstain(c) \/ PassGates(c) \/ CancelOld(c) \/ JudgeOld(c) \/ DryRun(c)
    \/ Submit(c) \/ AckLost(c) \/ Reconcile(c) \/ Settle(c) \/ Raise(c)

-----------------------------------------------------------------------------
(* The environment: the venue, the reconciliation hook and fill recorder that *)
(* the provider's contract leaves to production, and the clock.               *)

VenueMove(a) ==
    /\ \/ venue[a] = "transit" /\ venue' = [venue EXCEPT ![a] = "live"]
       \/ venue[a] = "live" /\ venue' = [venue EXCEPT ![a] = "partial"]
       \/ venue[a] \in OpenStates /\ venue' = [venue EXCEPT ![a] = "filled"]
       \/ venue[a] \in OpenStates \cup {"transit"} /\ venue' = [venue EXCEPT ![a] = "gone"]
    /\ UNCHANGED <<stateVars, callVars, wires, late, envVars>>

InFlight(a) == \E c \in Callers : pc[c] \in Holding /\ req[c] = a

\* Production reconciliation or an operator settles a row that no running call owns:
\* as resolved on venue evidence, as absent when nothing was ever posted.
HookSettle(a) ==
    /\ ~InFlight(a)
    /\ rows[a] \in Unresolved
    /\ \/ wires[a] = 0 /\ SettleRow(a, "DEFINITIVELY_ABSENT")
       \/ Assessment(venue[a], TRUE, TRUE) = "RESOLVED" /\ SettleRow(a, "RESOLVED")
    /\ UNCHANGED <<netSession, netDay, callVars, venue, wires, late, envVars>>

\* A fill of a session that has posted an order is recorded, late as it may be.
HookRecordFill(s) ==
    /\ fills < MaxFills
    /\ \E a \in Attempts : SessionOf[a] = s /\ wires[a] > 0
    /\ \E d \in Days, p \in FillPnls : d <= today /\ RecordFill(s, d, p)
    /\ fills' = fills + 1
    /\ late' = IF CapBreached(SessionLossCap, LossOf(netSession'[s])) THEN late
               ELSE [late EXCEPT ![s] = 0]
    /\ UNCHANGED <<rows, callVars, venue, wires, today>>

NextDay ==
    /\ today + 1 \in Days
    /\ today' = today + 1
    /\ UNCHANGED <<stateVars, callVars, venue, wires, late, fills>>

Next ==
    \/ \E c \in Callers : CallStep(c)
    \/ \E a \in Attempts : VenueMove(a) \/ HookSettle(a)
    \/ \E s \in Sessions : HookRecordFill(s)
    \/ NextDay

Spec == Init /\ [][Next]_vars

-----------------------------------------------------------------------------
(* Properties *)

\* However often an attempt is retried, concurrently, after a lost acknowledgement or
\* after a crash, at most one order is ever posted for it (IDM-002, facade.py).
AtMostOncePosted == \A a \in Attempts : wires[a] <= 1

\* An order that was posted keeps its durable row for ever: no settle, failed settle or
\* crash makes the session forget it (session_state.py, settle).
PostedIsDurable == \A a \in Attempts : wires[a] > 0 => rows[a] # "NONE"

\* The freeze: no two possibly-live attempts of one session, however the reservations
\* interleave (session_state.py, reserve_or_freeze).
OneUnresolvedPerSession ==
    \A a, b \in Attempts :
        /\ SessionOf[a] = SessionOf[b]
        /\ rows[a] \in Unresolved
        /\ rows[b] \in Unresolved
        => a = b

PostedIn(s) == {a \in Attempts : SessionOf[a] = s /\ wires[a] > 0}

\* The orders ever posted in a session respect both order caps although every call
\* compares its own, possibly stale, count (R8-MAJOR-1, session_state.py).
OrderCapRespected ==
    \A s \in Sessions, cap \in {MaxOrdersPerSession, MaxOrdersPerDay} :
        cap > 0 => Cardinality(PostedIn(s)) <= cap

Exposed(a) == venue[a] \in OpenStates \cup {"transit"}

\* Never two orders of one session at risk at the venue. The freeze alone does not give
\* this (a partly filled order unfreezes its session while its rest is open): the
\* startup sweep of the next run is needed as well (facade.py with runner.py).
OneExposedOrderPerSession ==
    \A a, b \in Attempts :
        SessionOf[a] = SessionOf[b] /\ Exposed(a) /\ Exposed(b) => a = b

\* What a call reports is what it did: SUBMITTED and the idempotent replay only for an
\* attempt with exactly one posted, durable order, and no refusal hides an order the
\* same call posted (facade.py, _execution_disposition, _idempotent_committed_result).
HonestResult ==
    \A c \in Callers :
        /\ result[c] \in {"SUBMITTED", "REPLAYED"} =>
              wires[req[c]] = 1 /\ rows[req[c]] # "NONE"
        /\ result[c] \in {"DENIED", "FROZEN", "ORDER_CAP", "LOSS_CAP", "NO_ORDER"} => ~sent[c]

\* A loss recorded after a call has reserved does not stop that call (its gates use the
\* loss it loaded), but it lets no other through: while a session's recorded loss is at
\* its cap, at most one more order is posted (session_state.py, loss-cap TOCTOU).
AtMostOneLateOrder == \A s \in Sessions : late[s] <= 1

\* A possibly-live attempt stops freezing its session only when nothing was posted for
\* it or the venue shows a fill or a terminal state; an acknowledgement is no evidence
\* (session_state.py, settle; reconcile.py, assess_uncertain_submit).
UnfrozenOnEvidence ==
    [][\A a \in Attempts :
          rows[a] \in Unresolved /\ rows'[a] \notin Unresolved =>
             wires[a] = 0 \/ venue[a] \in {"partial", "filled", "gone"}]_vars

\* A cancel_replace finds its order resting never: whatever rested when the run started
\* was swept by the startup read, or has frozen the session (runner.py, facade.py).
NothingLeftToReplace ==
    \A c \in Callers :
        /\ pc[c] = "replace"
        /\ SessionOf[Replaces[req[c]]] = SessionOf[req[c]]
        => venue[Replaces[req[c]]] \notin OpenStates

\* What the strategy's plan builder relies on: a live cancel_all that the tool answers
\* without an error or a denial leaves no order of its session resting (core.py; not
\* what the code does).
CancelAllWithdraws ==
    [][\A c \in Callers :
          /\ pc[c] # "idle" /\ pc'[c] = "idle"
          /\ Live(c) /\ IntentOf[req[c]] = "cancel_all"
          /\ result'[c] \notin {"RAISED", "DENIED"}
          => \A a \in OpenOrders : SessionOf[a] # SessionOf[req[c]]]_vars

Desk == INSTANCE OrderDesk WITH
            Cap <- MaxOrdersPerSession,
            posted <- {a \in Attempts : wires[a] > 0},
            exposed <- {a \in Attempts : Exposed(a)}

\* The concurrent, crashing, retrying tool implements the desk that places each order
\* once, one at risk per session, within the cap (facade.py with session_state.py).
ImplementsDesk == Desk!DeskSpec

-----------------------------------------------------------------------------
(* The inductive invariant behind the safety properties. *)

\* Points at which a call has not yet posted anything.
PreSend == Holding \ {"reconcile", "settle"}

\* A call past its reservation owns the PENDING row of its attempt, alone.
CallsOwnRows ==
    /\ \A c \in Callers : pc[c] \in Holding => rows[req[c]] = "PENDING"
    /\ \A c, d \in Callers :
          pc[c] \in Holding /\ pc[d] \in Holding /\ req[c] = req[d] => c = d

\* Nothing has been posted before the post, nor by a call that will release its row.
PostedOnlyAfter ==
    \A c \in Callers :
        /\ pc[c] \in PreSend => wires[req[c]] = 0
        /\ pc[c] = "settle" /\ recon[c] = "DEFINITIVELY_ABSENT" => wires[req[c]] = 0

\* The venue holds posted orders only, and an order in transit is not resolved and was
\* left behind by a call that is over.
VenueMatchesWires ==
    /\ \A a \in Attempts :
          /\ wires[a] = 0 => venue[a] = "none"
          /\ venue[a] = "transit" => rows[a] \in Unresolved
    /\ \A c \in Callers : pc[c] \in Holding => venue[req[c]] # "transit"

\* A resolution about to be settled is backed by what the venue shows, then and now.
ResolutionBacked ==
    \A c \in Callers :
        pc[c] = "settle" /\ recon[c] = "RESOLVED" =>
            venue[req[c]] \in {"partial", "filled", "gone"}

\* A run that may still post has seen its session without an order at risk, and none
\* has appeared since.
ClearToPost ==
    \A c \in Callers :
        /\ pc[c] = "sweep" => blocked[c]
        /\ pc[c] \in {"replace", "judge"} => Live(c)
        /\ pc[c] \in {"replace", "judge", "submit"} => ~blocked[c] /\ (Live(c) => armed[c])
        /\ pc[c] \in {"decide", "replace", "judge", "submit"} /\ Live(c) /\ armed[c] /\ ~blocked[c] =>
              \A b \in Attempts : SessionOf[b] = SessionOf[req[c]] => ~Exposed(b)

\* The rows of a session, posted or not, stay within the caps.
RowsWithinCaps ==
    \A s \in Sessions, cap \in {MaxOrdersPerSession, MaxOrdersPerDay} :
        cap > 0 => Count(s) <= cap

\* What a call knows of its own post, on which its result is based.
SentTracked ==
    \A c \in Callers :
        /\ pc[c] \in PreSend \cup {"loaded"} => ~sent[c]
        /\ pc[c] \in {"replace", "judge", "submit", "reconcile"} => Admitted(c)
        /\ pc[c] = "reconcile" => sent[c]
        /\ pc[c] = "settle" /\ sent[c] =>
              Admitted(c) /\ recon[c] # "DEFINITIVELY_ABSENT" /\ wires[req[c]] = 1
        /\ pc[c] = "reconcile" => wires[req[c]] = 1

\* After one late order no other call of the session is on its way to a post.
LateTracked ==
    \A s \in Sessions :
        /\ ~SessionLossBreached(s) => late[s] = 0
        /\ late[s] > 0 =>
              \A c \in Callers : pc[c] \in PreSend => SessionOf[req[c]] # s

IndInv ==
    /\ TypeOK /\ CallsOwnRows /\ PostedOnlyAfter /\ AtMostOncePosted
    /\ PostedIsDurable /\ OneUnresolvedPerSession /\ VenueMatchesWires
    /\ ResolutionBacked /\ ClearToPost /\ OneExposedOrderPerSession
    /\ RowsWithinCaps /\ SentTracked /\ HonestResult /\ LateTracked /\ AtMostOneLateOrder

=============================================================================
