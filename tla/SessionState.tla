---------------------------- MODULE SessionState ----------------------------
(***************************************************************************)
(* The durable session-state provider of the real-money lane               *)
(* (veridex/dust_execution/session_state.py): one reservation row per      *)
(* attempt, the recorded realized P&L of every session, and the operations *)
(* the execution facade performs on them.  Each operation runs under the   *)
(* provider's single lock (or one store transaction), so each is an        *)
(* operator on the current state that one step of a caller applies.        *)
(***************************************************************************)
EXTENDS Integers, FiniteSets

CONSTANTS
    Sessions,               \* session identities, the scope of freeze and caps
    Attempts,               \* attempt ids: the fingerprint of a whole request
    SessionOf,              \* the session whose identity the request carries
    Days,                   \* UTC days
    MaxOrdersPerSession,    \* envelope order caps; 0 (or less) is unbounded
    MaxOrdersPerDay,
    EnvMaxSessionLoss,      \* envelope loss caps; 0 is unset
    EnvMaxDailyLoss,
    ManMaxSessionLoss,      \* manifest loss caps; 0 is unset
    ManMaxDailyLoss

ASSUME SessionAssumption ==
    /\ IsFiniteSet(Attempts)
    /\ SessionOf \in [Attempts -> Sessions]
    /\ Days \subseteq Nat
    /\ MaxOrdersPerSession \in Int
    /\ MaxOrdersPerDay \in Int
    /\ EnvMaxSessionLoss \in Nat
    /\ EnvMaxDailyLoss \in Nat
    /\ ManMaxSessionLoss \in Nat
    /\ ManMaxDailyLoss \in Nat

VARIABLES
    rows,       \* attempt -> state of its reservation row, "NONE" when there is no row
    netSession, \* session -> net P&L of every recorded fill
    netDay      \* session -> day -> net P&L of the fills of that day

stateVars == <<rows, netSession, netDay>>

ReconciliationState == {"PENDING", "RESOLVED", "AMBIGUOUS"}

Unresolved == {"PENDING", "AMBIGUOUS"}

StateTypeOK ==
    /\ rows \in [Attempts -> ReconciliationState \cup {"NONE"}]
    /\ netSession \in [Sessions -> Int]
    /\ netDay \in [Sessions -> [Days -> Int]]

StateInit ==
    /\ rows = [a \in Attempts |-> "NONE"]
    /\ netSession = [s \in Sessions |-> 0]
    /\ netDay = [s \in Sessions |-> [d \in Days |-> 0]]

RowsOf(s) == {a \in Attempts : SessionOf[a] = s /\ rows[a] # "NONE"}

\* Mutant: resolved orders no longer count against the order caps.
CountOfUnresolved(s) == Cardinality({a \in RowsOf(s) : rows[a] \in Unresolved})

\* Every row counts against the order caps, whatever its state.
Count(s) == Cardinality(RowsOf(s))

\* Mutant: an ambiguous order does not freeze its session.
HasPending(s) == \E a \in RowsOf(s) : rows[a] = "PENDING"

HasUnresolved(s) == \E a \in RowsOf(s) : rows[a] \in Unresolved

\* The stricter of the two positive caps; 0 when neither is set.
EffectiveLossCap(envelopeCap, manifestCap) ==
    IF envelopeCap > 0 /\ manifestCap > 0
    THEN IF envelopeCap < manifestCap THEN envelopeCap ELSE manifestCap
    ELSE IF envelopeCap > 0 THEN envelopeCap
    ELSE IF manifestCap > 0 THEN manifestCap
    ELSE 0

CapBreached(cap, loss) == cap > 0 /\ loss >= cap

\* Mutant: the cap is compared one too late.
CapExceeded(count, cap) == cap > 0 /\ count > cap

CapReached(count, cap) == cap > 0 /\ count >= cap

LossOf(net) == IF net < 0 THEN -net ELSE 0

SessionLossCap == EffectiveLossCap(EnvMaxSessionLoss, ManMaxSessionLoss)

DailyLossCap == EffectiveLossCap(EnvMaxDailyLoss, ManMaxDailyLoss)

\* What the facade reads before it reserves: the counts and the realized losses
\* as of the call's clock.
Loaded(s, day) ==
    [count |-> Count(s), lossSession |-> LossOf(netSession[s]),
     lossDay |-> LossOf(netDay[s][day]), day |-> day]

\* Mutant: an attempt's own resolved row is forgotten on a retry.
ReservationWithoutReplay(a, day) ==
    LET s == SessionOf[a] IN
    IF HasUnresolved(s) THEN "SCOPE_FROZEN"
    ELSE IF CapReached(Count(s), MaxOrdersPerSession) THEN "CAP_EXCEEDED_SESSION"
    ELSE "RESERVED"

\* Mutant: the reservation leaves the loss caps to the values the call has loaded.
ReservationWithoutLoss(a, day) ==
    IF rows[a] = "RESOLVED" THEN "COMMITTED"
    ELSE IF rows[a] # "NONE" THEN "PENDING_RECONCILE"
    ELSE IF HasUnresolved(SessionOf[a]) THEN "SCOPE_FROZEN"
    ELSE "RESERVED"

\* reserve_or_freeze: an attempt with a row of its own is answered from the row; a
\* fresh one passes the freeze, the order caps and the loss caps, in this order.
ReservationOutcome(a, day) ==
    LET s == SessionOf[a] IN
    IF rows[a] = "RESOLVED" THEN "COMMITTED"
    ELSE IF rows[a] # "NONE" THEN "PENDING_RECONCILE"
    ELSE IF HasUnresolved(s) THEN "SCOPE_FROZEN"
    ELSE IF CapReached(Count(s), MaxOrdersPerSession) THEN "CAP_EXCEEDED_SESSION"
    ELSE IF CapReached(Count(s), MaxOrdersPerDay) THEN "CAP_EXCEEDED_DAY"
    ELSE IF CapBreached(SessionLossCap, LossOf(netSession[s])) THEN "LOSS_CAP_EXCEEDED_SESSION"
    ELSE IF CapBreached(DailyLossCap, LossOf(netDay[s][day])) THEN "LOSS_CAP_EXCEEDED_DAY"
    ELSE "RESERVED"

\* The row inserted by a successful reservation.
InsertRow(a) == rows' = [rows EXCEPT ![a] = "PENDING"]

\* Mutant: the row of an absent order is kept under that name.
SettleKeepsAbsent(a, reconState) ==
    rows' = IF rows[a] = "NONE" THEN rows ELSE [rows EXCEPT ![a] = reconState]

\* Mutant: an ambiguous order releases its row like an absent one.
SettleReleasesAmbiguous(a, reconState) ==
    rows' = IF rows[a] = "NONE" THEN rows
            ELSE [rows EXCEPT ![a] = IF reconState = "RESOLVED" THEN "RESOLVED" ELSE "NONE"]

\* settle: nothing without a row; a definitively absent order releases its row.
SettleRow(a, reconState) ==
    rows' = IF rows[a] = "NONE" THEN rows
            ELSE [rows EXCEPT ![a] = IF reconState = "DEFINITIVELY_ABSENT" THEN "NONE"
                                     ELSE reconState]

\* record_reconciled_fills, one fill at a time.
RecordFill(s, day, pnl) ==
    /\ netSession' = [netSession EXCEPT ![s] = @ + pnl]
    /\ netDay' = [netDay EXCEPT ![s][day] = @ + pnl]

=============================================================================
