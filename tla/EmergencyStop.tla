--------------------------- MODULE EmergencyStop ---------------------------
(***************************************************************************)
(* The emergency stop (veridex/dust_execution/emergency.py) of one         *)
(* DustSafetySession, and the loop that resolves an uncertain submit       *)
(* (reconcile.py, resolve_ambiguous_submit).  Several tasks of one event   *)
(* loop work on the session: they submit, fold fills into the realized     *)
(* loss, engage the stop for whatever cause, and re-arm it.  Every await   *)
(* is a point at which the others run.                                     *)
(***************************************************************************)
EXTENDS Integers, FiniteSets

CONSTANTS
    Tasks,          \* coroutines that share the session
    Operators,      \* those that may call re_arm
    Orders,         \* orders of the session
    LossCap,        \* the loss cap in force, in units of one losing fill; 0 is unset
    TimeoutTicks,   \* timeout_ms of the resolving loop, in poll intervals
    MaxStops,       \* bound on engagements by a trigger or a fill
    MaxLoss         \* bound on the realized loss

ASSUME StopAssumption ==
    /\ Operators \subseteq Tasks
    /\ LossCap \in Nat /\ TimeoutTicks \in Nat /\ MaxStops \in Nat /\ MaxLoss \in Nat

VARIABLES
    blocked,    \* submit_blocked
    cause,      \* block_cause, "none" when open
    ack,        \* last_cancel_all_ack: the stop whose sweep it reports, 0 when there is none
    stop,       \* engagements of the stop so far (history); the last one is the current
    racing,     \* orders in flight when the last sweep reached the venue (history)
    sweptFor,   \* the latest stop whose sweep has reached the venue (history)
    loss,       \* realized loss of the RiskAccumulator
    venue,      \* order -> its state
    pc,         \* task -> program point
    ord,        \* task -> the order it submits or resolves
    own,        \* task -> the stop it sweeps for, or that was in force at its re-arm's read
    waited      \* task -> poll intervals waited

stopVars == <<blocked, cause, ack, stop>>
history == <<racing, sweptFor>>
vars == <<blocked, cause, ack, stop, racing, sweptFor, loss, venue, pc, ord, own, waited>>

Causes == {"breaker", "kill_switch", "loss_breach", "manual", "shutdown",
           "reconciliation_timeout"}

NoOrder == "no_order"

PCs == {"idle", "wire", "resume", "posting", "poll", "sleep", "rearm"}

OrderStates == {"none", "flight", "open", "filled", "gone"}

StopTypeOK ==
    /\ blocked \in BOOLEAN
    /\ cause \in Causes \cup {"none"}
    /\ ack \in Nat /\ stop \in Nat /\ sweptFor \in Nat /\ loss \in Nat
    /\ racing \in SUBSET Orders
    /\ venue \in [Orders -> OrderStates]
    /\ pc \in [Tasks -> PCs]
    /\ ord \in [Tasks -> Orders \cup {NoOrder}]
    /\ \A t \in Tasks : pc[t] \in {"posting", "poll", "sleep"} => ord[t] \in Orders
    /\ own \in [Tasks -> Nat]
    /\ waited \in [Tasks -> Nat]

Init ==
    /\ blocked = FALSE /\ cause = "none" /\ ack = 0 /\ stop = 0
    /\ racing = {} /\ sweptFor = 0 /\ loss = 0
    /\ venue = [o \in Orders |-> "none"]
    /\ pc = [t \in Tasks |-> "idle"]
    /\ ord = [t \in Tasks |-> NoOrder]
    /\ own = [t \in Tasks |-> 0]
    /\ waited = [t \in Tasks |-> 0]

OrdersIn(st) == {o \in Orders : venue[o] = st}

At(t, point) == pc' = [pc EXCEPT ![t] = point]

Return(t) == At(t, "idle")

-----------------------------------------------------------------------------
(* cancel_all_and_block: the primitive, up to its await. *)

\* Blocked already: the recorded ack is replayed (or one is made up when no sweep has
\* recorded any) and nothing else happens. Otherwise block first and fire the wire.
CancelAllAndBlock(t, c) ==
    \/ /\ blocked
       /\ Return(t)
       /\ UNCHANGED <<stopVars, own>>
    \/ /\ ~blocked
       /\ blocked' = TRUE
       /\ cause' = c
       /\ stop' = stop + 1
       /\ own' = [own EXCEPT ![t] = stop + 1]
       /\ At(t, "wire")
       /\ UNCHANGED ack

MayEngage == blocked \/ stop < MaxStops

\* A trigger: the breaker opens, the kill switch is engaged, the run shuts down or
\* the operator (or the startup sweep) cancels.
Trigger(t) ==
    /\ pc[t] = "idle"
    /\ MayEngage
    /\ \E c \in {"breaker", "kill_switch", "manual", "shutdown"} : CancelAllAndBlock(t, c)
    /\ UNCHANGED <<history, loss, venue, ord, waited>>

\* Mutant: the loss must exceed the cap.
BreachesAbove(l) == LossCap > 0 /\ l > LossCap

Breaches(l) == LossCap > 0 /\ l >= LossCap

\* on_realized_fill: a losing fill is folded in and a breach engages the stop, with
\* no await in between.
OnRealizedFill(t) ==
    /\ pc[t] = "idle"
    /\ MayEngage /\ loss < MaxLoss
    /\ OrdersIn("filled") \cup OrdersIn("open") # {}
    /\ loss' = loss + 1
    /\ \/ Breaches(loss + 1) /\ CancelAllAndBlock(t, "loss_breach")
       \/ /\ ~Breaches(loss + 1)
          /\ Return(t)
          /\ UNCHANGED <<stopVars, own>>
    /\ UNCHANGED <<history, venue, ord, waited>>

\* The sweep reaches the venue: every order resting there is withdrawn.
SweepAtVenue(t) ==
    /\ pc[t] = "wire"
    /\ venue' = [o \in Orders |-> IF venue[o] = "open" THEN "gone" ELSE venue[o]]
    /\ racing' = OrdersIn("flight")
    /\ sweptFor' = IF own[t] > sweptFor THEN own[t] ELSE sweptFor
    /\ At(t, "resume")
    /\ UNCHANGED <<stopVars, loss, ord, own, waited>>

\* The answer of the sweep arrives: the ack is recorded and returned.
SweepReturns(t) ==
    /\ pc[t] = "resume"
    /\ ack' = own[t]
    /\ Return(t)
    /\ UNCHANGED <<blocked, cause, stop, history, loss, venue, ord, own, waited>>

\* The wire raises, before or after the venue has acted; the session stays blocked.
SweepRaises(t) ==
    /\ pc[t] \in {"wire", "resume"}
    /\ Return(t)
    /\ UNCHANGED <<stopVars, history, loss, venue, ord, own, waited>>

-----------------------------------------------------------------------------
(* Submitting, and resolving a submit whose acknowledgement was lost. *)

\* Mutant: the gate is not consulted.
SubmitUngated(t, o) ==
    /\ pc[t] = "idle"
    /\ venue[o] = "none"
    /\ venue' = [venue EXCEPT ![o] = "flight"]
    /\ ord' = [ord EXCEPT ![t] = o]
    /\ At(t, "posting")
    /\ UNCHANGED <<stopVars, history, loss, own, waited>>

\* Mutant: the task does not keep the id of its order.
SubmitForgetsId(t, o) ==
    /\ pc[t] = "idle"
    /\ ~blocked
    /\ venue[o] = "none"
    /\ venue' = [venue EXCEPT ![o] = "flight"]
    /\ At(t, "posting")
    /\ UNCHANGED <<stopVars, history, loss, ord, own, waited>>

\* check_can_submit holds and the order leaves for the venue.
Submit(t, o) ==
    /\ pc[t] = "idle"
    /\ ~blocked
    /\ venue[o] = "none"
    /\ venue' = [venue EXCEPT ![o] = "flight"]
    /\ ord' = [ord EXCEPT ![t] = o]
    /\ At(t, "posting")
    /\ UNCHANGED <<stopVars, history, loss, own, waited>>

\* The venue has answered.
SubmitAcked(t) ==
    /\ pc[t] = "posting"
    /\ venue[ord[t]] # "flight"
    /\ Return(t)
    /\ UNCHANGED <<stopVars, history, loss, venue, ord, own, waited>>

\* The acknowledgement is lost: the task polls the venue.
SubmitUncertain(t) ==
    /\ pc[t] = "posting"
    /\ At(t, "poll")
    /\ waited' = [waited EXCEPT ![t] = 0]
    /\ UNCHANGED <<stopVars, history, loss, venue, ord, own>>

\* A fill or a terminal status resolves; anything else, a failed read included, is
\* ambiguous.
ReadsAmbiguous(o) == venue[o] \notin {"filled", "gone"}

\* Mutant: the budget is measured from the last poll.
PollRestartsClock(t) ==
    /\ pc[t] = "poll"
    /\ At(t, "sleep")
    /\ waited' = [waited EXCEPT ![t] = 0]
    /\ UNCHANGED <<stopVars, history, loss, venue, ord, own>>

\* One poll: resolved, or ambiguous (which a failed read always is), and the budget
\* decides between another interval and the sweep. It never posts again.
Poll(t) ==
    /\ pc[t] = "poll"
    /\ \/ /\ ~ReadsAmbiguous(ord[t])
          /\ Return(t)
          /\ UNCHANGED <<stopVars, own>>
       \/ /\ waited[t] >= TimeoutTicks
          /\ CancelAllAndBlock(t, "reconciliation_timeout")
       \/ /\ waited[t] < TimeoutTicks
          /\ At(t, "sleep")
          /\ UNCHANGED <<stopVars, own>>
    /\ UNCHANGED <<history, loss, venue, ord, waited>>

Sleep(t) ==
    /\ pc[t] = "sleep"
    /\ At(t, "poll")
    /\ waited' = [waited EXCEPT ![t] = @ + 1]
    /\ UNCHANGED <<stopVars, history, loss, venue, ord, own>>

-----------------------------------------------------------------------------
(* re_arm *)

\* Without authorization or a reloaded risk state, or with orders resting.
ReArmDenied(t) ==
    /\ pc[t] = "idle"
    /\ t \in Operators
    /\ Return(t)
    /\ UNCHANGED <<stopVars, history, loss, venue, ord, own, waited>>

\* Authorized, the risk state reloaded, and the venue has counted no open order.
ReArmRead(t) ==
    /\ pc[t] = "idle"
    /\ t \in Operators
    /\ OrdersIn("open") = {}
    /\ own' = [own EXCEPT ![t] = IF blocked THEN stop ELSE 0]
    /\ At(t, "rearm")
    /\ UNCHANGED <<stopVars, history, loss, venue, ord, waited>>

\* The count arrives, and the stop is cleared.
ReArmClear(t) ==
    /\ pc[t] = "rearm"
    /\ blocked' = FALSE
    /\ cause' = "none"
    /\ ack' = 0
    /\ Return(t)
    /\ UNCHANGED <<stop, history, loss, venue, ord, own, waited>>

-----------------------------------------------------------------------------

\* The venue acts on an order in flight or resting.
VenueMove(o) ==
    /\ \/ venue[o] = "flight" /\ venue' = [venue EXCEPT ![o] = "open"]
       \/ venue[o] \in {"flight", "open"} /\ venue' = [venue EXCEPT ![o] = "filled"]
       \/ venue[o] \in {"flight", "open"} /\ venue' = [venue EXCEPT ![o] = "gone"]
    /\ UNCHANGED <<stopVars, history, loss, pc, ord, own, waited>>

\* A task that is inside an operation takes its next step.
Continue(t) ==
    \/ SweepAtVenue(t) \/ SweepReturns(t) \/ SweepRaises(t)
    \/ SubmitAcked(t) \/ SubmitUncertain(t) \/ Poll(t) \/ Sleep(t)
    \/ ReArmClear(t)

Begin(t) ==
    \/ Trigger(t) \/ OnRealizedFill(t) \/ ReArmDenied(t) \/ ReArmRead(t)
    \/ \E o \in Orders : Submit(t, o)

Next ==
    \/ \E t \in Tasks : Begin(t) \/ Continue(t)
    \/ \E o \in Orders : VenueMove(o)

Spec == Init /\ [][Next]_vars

\* The event loop resumes a task whose awaited call has answered or raised, and every
\* awaited call does one or the other.
FairSpec == Spec /\ \A t \in Tasks : WF_vars(Continue(t))

-----------------------------------------------------------------------------
(* Properties *)

\* Once the sweep of the stop in force is acknowledged, the only orders that can rest
\* at the venue are those that were already in flight when it got there: the block is
\* set before the wire is awaited, so none is admitted behind it (SAF-003, emergency.py).
SweepLeavesOnlyRacers ==
    blocked /\ ack = stop => OrdersIn("open") \subseteq racing

\* A fill that brings the loss to the cap leaves the session blocked in the same step,
\* whatever the other tasks are doing (SAF-002d, on_realized_fill).
LossBreachBlocks ==
    [][LossCap > 0 /\ loss' # loss /\ loss' >= LossCap => blocked']_vars

\* A submit whose acknowledgement was lost is not polled for ever: the loop ends in a
\* resolution, a sweep or an error (reconcile.py, resolve_ambiguous_submit).
UncertainSubmitEnds == \A t \in Tasks : pc[t] = "poll" ~> pc[t] = "idle"

\* What re_arm documents: it clears a stop only when the venue reports no order resting,
\* so never a later stop than the one in force when it counted (not what the code does).
ReArmCountedThisStop ==
    [][\A t \in Tasks :
          pc[t] = "rearm" /\ pc'[t] = "idle" /\ blocked /\ own[t] > 0 => own[t] = stop]_vars

-----------------------------------------------------------------------------
(* The inductive invariant behind SweepLeavesOnlyRacers. *)

\* Stops are numbered upwards; what was recorded or remembered is of a stop that was.
StopsOrdered ==
    /\ ack <= sweptFor /\ sweptFor <= stop
    /\ \A t \in Tasks : own[t] <= stop
    /\ \A t \in Tasks : pc[t] = "resume" => own[t] <= sweptFor
    /\ blocked => stop > 0

\* From the sweep of the stop in force on, no order that was not in flight then is in
\* flight or at rest.
NoneBehindTheSweep ==
    blocked /\ sweptFor = stop => OrdersIn("flight") \cup OrdersIn("open") \subseteq racing

StopInv == StopTypeOK /\ StopsOrdered /\ NoneBehindTheSweep

=============================================================================
