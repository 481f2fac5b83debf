----------------------------- MODULE PlanBridge -----------------------------
(***************************************************************************)
(* One market-maker run (veridex/mm_strategy/composition.py,               *)
(* run_market_maker) and the bridge that executes each of its plans        *)
(* (orchestration.py, execute_plan_bridged): a worker thread walks the     *)
(* legs of the plan (execution_adapter.py, execute_plan); for each it      *)
(* posts the execution tool's coroutine to the host's event loop and       *)
(* waits, for a bounded time, for its future.  The kill signal, the wait's *)
(* timeout, a cancellation of the host task and the end of the event loop  *)
(* race with all of that.                                                  *)
(***************************************************************************)
EXTENDS Integers, Sequences, FiniteSets

CONSTANT
    Plans       \* the intent plans of the run's decisions: sequences of leg kinds

ASSUME PlanAssumption == Plans \in Seq(Seq({"write", "abstain"}))

VARIABLES
    host,       \* run_market_maker: at its loop, awaiting the worker, draining it, over
    terminal,   \* terminal_reason of the run
    k,          \* the plan at hand
    task,       \* the asyncio task around the worker
    thread,     \* the worker thread
    i,          \* the leg at hand
    end,        \* how the worker's execute_plan ended
    coro,       \* the tool's coroutine for the leg at hand, on the host loop
    future,     \* the concurrent future the worker waits for
    dropped,    \* the coroutine is to be cancelled
    closing,    \* the event loop is shutting down: every task is cancelled
    stop,       \* the StopSignal
    sink,       \* freeze records emitted
    posted,     \* legs whose order was posted (history)
    lateLegs    \* legs submitted after the kill (history)

hostVars == <<host, terminal, k, sink>>
threadVars == <<thread, i, end>>
vars == <<host, terminal, k, task, thread, i, end, coro, future, dropped, closing, stop, sink,
          posted, lateLegs>>

\* execute_plan returned: all legs clean, or frozen at one. Or it raised.
Escapes == {"kill", "uncertain", "escape", "cancelled"}

\* What the tool reports of a leg, as execute_plan tells results apart.
Results == {"clean", "submitted", "unresolved", "withheld"}

BridgeTypeOK ==
    /\ host \in {"top", "await", "drain", "over"}
    /\ terminal \in {"none", "completed", "stopped", "frozen", "cancelled"}
    /\ k \in 1..(Len(Plans) + 1)
    /\ host \in {"await", "drain"} => k <= Len(Plans)
    /\ task \in {"none", "running", "done", "cancelled"}
    /\ thread \in {"none", "queued", "next", "check", "submit", "wait", "over"}
    /\ i \in Nat
    /\ end \in {"none", "plan", "frozen"} \cup Escapes
    /\ coro \in {"none", "queued", "running", "over"}
    /\ future \in {"none", "pending", "raised", "cancelled"} \cup Results
    /\ dropped \in BOOLEAN /\ closing \in BOOLEAN /\ stop \in BOOLEAN
    /\ sink \in SUBSET [reason : Escapes, live : BOOLEAN]
    /\ posted \in SUBSET (Nat \X Nat)
    /\ lateLegs \in Nat

Init ==
    /\ host = "top" /\ terminal = "none" /\ k = 1
    /\ task = "none" /\ thread = "none" /\ i = 1 /\ end = "none"
    /\ coro = "none" /\ future = "none" /\ dropped = FALSE /\ closing = FALSE
    /\ stop = FALSE /\ sink = {} /\ posted = {} /\ lateLegs = 0

Alive == coro \in {"queued", "running"}

-----------------------------------------------------------------------------
(* The worker thread. *)

ThreadEnds(how) == thread' = "over" /\ end' = how /\ UNCHANGED i

ThreadStart ==
    /\ thread = "queued"
    /\ thread' = "next"
    /\ UNCHANGED <<hostVars, task, i, end, coro, future, dropped, closing, stop, posted, lateLegs>>

\* The walk over the plan: an abstaining leg is skipped, the request of any other is
\* built. A plan of mixed phases or a foreign time in force raises at the start, a
\* request that does not bind before the bridge is called.
NextLeg ==
    /\ thread = "next"
    /\ \/ i > Len(Plans[k]) /\ ThreadEnds("plan")
       \/ i <= Len(Plans[k]) /\ Plans[k][i] = "abstain" /\ i' = i + 1 /\ UNCHANGED <<thread, end>>
       \/ i <= Len(Plans[k]) /\ Plans[k][i] = "write" /\ thread' = "check" /\ UNCHANGED <<i, end>>
       \/ /\ i = 1 \/ (i <= Len(Plans[k]) /\ Plans[k][i] = "write")
          /\ ThreadEnds("escape")
    /\ UNCHANGED <<hostVars, task, coro, future, dropped, closing, stop, posted, lateLegs>>

\* Mutant: the stop signal is looked at before the first leg only.
CheckFirstLeg ==
    /\ thread = "check"
    /\ \/ stop /\ i = 1 /\ ThreadEnds("kill")
       \/ (~stop \/ i > 1) /\ thread' = "submit" /\ UNCHANGED <<i, end>>
    /\ UNCHANGED <<hostVars, task, coro, future, dropped, closing, stop, posted, lateLegs>>

\* The stop signal is checked before the submission, which is a step of its own.
CheckStop ==
    /\ thread = "check"
    /\ \/ stop /\ ThreadEnds("kill")
       \/ ~stop /\ thread' = "submit" /\ UNCHANGED <<i, end>>
    /\ UNCHANGED <<hostVars, task, coro, future, dropped, closing, stop, posted, lateLegs>>

\* run_coroutine_threadsafe, which raises when the loop is closed.
SubmitLeg ==
    /\ thread = "submit"
    /\ \/ /\ coro' = "queued" /\ future' = "pending" /\ dropped' = FALSE
          /\ thread' = "wait"
          /\ lateLegs' = IF stop THEN lateLegs + 1 ELSE lateLegs
          /\ UNCHANGED <<i, end>>
       \/ /\ closing
          /\ ThreadEnds("escape")
          /\ UNCHANGED <<coro, future, dropped, lateLegs>>
    /\ UNCHANGED <<hostVars, task, closing, stop, posted>>

\* Mutant: only a withheld leg freezes the plan.
FreezesWithheld(r) == r = "withheld"

\* freezes_fresh_writes: possibly unresolved, or withheld.
FreezesFreshWrites(r) == r \in {"submitted", "unresolved", "withheld"}

\* The future has a result or an exception: a clean leg leads to the next one, any other
\* ends the plan.
LegAnswered ==
    /\ thread = "wait"
    /\ \/ /\ future \in Results
          /\ \/ FreezesFreshWrites(future) /\ ThreadEnds("frozen")
             \/ ~FreezesFreshWrites(future) /\ i' = i + 1 /\ thread' = "next" /\ UNCHANGED end
       \/ future = "raised" /\ ThreadEnds("escape")
       \/ future = "cancelled" /\ ThreadEnds("cancelled")
    /\ UNCHANGED <<hostVars, task, coro, future, dropped, closing, stop, posted, lateLegs>>

\* Mutant: the wait has no bound.
WaitUnbounded ==
    /\ thread = "wait" /\ future = "pending"
    /\ UNCHANGED vars

\* The wait times out: the future is cancelled, which the coroutine notices when the loop
\* gets to it.
LegTimeout ==
    /\ thread = "wait" /\ future = "pending"
    /\ future' = "cancelled"
    /\ dropped' = TRUE
    /\ ThreadEnds("uncertain")
    /\ UNCHANGED <<hostVars, task, coro, closing, stop, posted, lateLegs>>

ThreadStep == ThreadStart \/ NextLeg \/ CheckStop \/ SubmitLeg \/ LegAnswered \/ LegTimeout

-----------------------------------------------------------------------------
(* The event loop: the tool's coroutine and the worker's task. *)

CoroStart ==
    /\ coro = "queued"
    /\ coro' = "running"
    /\ UNCHANGED <<hostVars, task, threadVars, future, dropped, closing, stop, posted, lateLegs>>

\* The tool posts the leg's order.
CoroPost ==
    /\ coro = "running"
    /\ <<k, i>> \notin posted
    /\ posted' = posted \cup {<<k, i>>}
    /\ UNCHANGED <<hostVars, task, threadVars, coro, future, dropped, closing, stop, lateLegs>>

\* The tool returns or raises; what it returns says whether it has posted.
CoroEnd ==
    /\ coro = "running"
    /\ coro' = "over"
    /\ \E r \in Results \cup {"raised"} :
          /\ r # "raised" => (r = "submitted" <=> <<k, i>> \in posted)
          /\ future' = IF future = "pending" THEN r ELSE future
    /\ UNCHANGED <<hostVars, task, threadVars, dropped, closing, stop, posted, lateLegs>>

\* The coroutine is cancelled, by the timeout or with every other task of the loop.
CoroCancelled ==
    /\ dropped /\ Alive
    /\ coro' = "over"
    /\ future' = IF future = "pending" THEN "cancelled" ELSE future
    /\ UNCHANGED <<hostVars, task, threadVars, dropped, closing, stop, posted, lateLegs>>

\* The loop learns that the thread is over. The concurrent CancelledError of a cancelled
\* leg arrives as a cancellation of the task.
TaskEnds ==
    /\ task = "running" /\ thread = "over"
    /\ task' = IF end = "cancelled" THEN "cancelled" ELSE "done"
    /\ UNCHANGED <<hostVars, threadVars, coro, future, dropped, closing, stop, posted, lateLegs>>

\* The task is cancelled with all others; a thread that has started runs on.
TaskCancelled ==
    /\ closing
    /\ task = "running"
    /\ task' = "cancelled"
    /\ thread' = IF thread = "queued" THEN "none" ELSE thread
    /\ UNCHANGED <<hostVars, i, end, coro, future, dropped, closing, stop, posted, lateLegs>>

-----------------------------------------------------------------------------
(* The host. *)

\* Mutant: a timed-out leg is recorded as not sent.
RecordTrustsCancel(how) ==
    [reason |-> how, live |-> how \notin {"kill", "uncertain"}]

\* FreezeRecord.from_escape: only a leg aborted by the kill is known not to be live.
FreezeRecord(how) == [reason |-> how, live |-> how # "kill"]

HostOver(reason) == host' = "over" /\ terminal' = reason

\* Mutant: the end of the tape is not noticed.
DecidesPastEnd ==
    /\ host = "top"
    /\ host' = "await" /\ task' = "running"
    /\ thread' = "queued" /\ i' = 1 /\ end' = "none"
    /\ UNCHANGED <<terminal, k, sink, coro, future, dropped, closing, stop, posted, lateLegs>>

\* The top of the loop over the decisions: end of the tape, kill, or the next plan.
HostDecides ==
    /\ host = "top"
    /\ \/ /\ k > Len(Plans)
          /\ HostOver("completed")
          /\ UNCHANGED <<task, threadVars>>
       \/ /\ k <= Len(Plans) /\ stop
          /\ HostOver("stopped")
          /\ UNCHANGED <<task, threadVars>>
       \/ /\ k <= Len(Plans) /\ ~stop
          /\ host' = "await" /\ task' = "running"
          /\ thread' = "queued" /\ i' = 1 /\ end' = "none"
          /\ UNCHANGED terminal
    /\ UNCHANGED <<k, sink, coro, future, dropped, closing, stop, posted, lateLegs>>

\* The worker's task is done: on to the next decision, or the run ends frozen or stopped,
\* an escape on record.
HostReturns ==
    /\ host = "await" /\ task = "done" /\ ~closing
    /\ \/ /\ end = "plan"
          /\ host' = "top" /\ k' = k + 1
          /\ UNCHANGED <<terminal, sink>>
       \/ /\ end = "frozen"
          /\ HostOver("frozen")
          /\ UNCHANGED <<k, sink>>
       \/ /\ end \in Escapes
          /\ sink' = sink \cup {FreezeRecord(end)}
          /\ HostOver(IF FreezeRecord(end).live THEN "frozen" ELSE "stopped")
          /\ UNCHANGED k
    /\ UNCHANGED <<task, threadVars, coro, future, dropped, closing, stop, posted, lateLegs>>

\* The host is cancelled, or sees the worker's task cancelled: it kills and drains. (A
\* further cancellation is absorbed.)
HostCancelled ==
    /\ host = "await"
    /\ host' = "drain"
    /\ stop' = TRUE
    /\ UNCHANGED <<terminal, k, sink, task, threadVars, coro, future, dropped, closing, posted,
                   lateLegs>>

\* Mutant: the second cancellation ends the drain.
DrainGivesUp ==
    /\ host = "drain"
    /\ HostOver("cancelled")
    /\ UNCHANGED <<k, sink, task, threadVars, coro, future, dropped, closing, stop, posted, lateLegs>>

\* Mutant: the cancellation goes on without a record.
DrainSwallows ==
    /\ host = "drain" /\ task # "running"
    /\ HostOver("cancelled")
    /\ UNCHANGED <<k, sink, task, threadVars, coro, future, dropped, closing, stop, posted, lateLegs>>

\* The worker's task is over: an escape is recorded, and the cancellation goes on.
HostDrained ==
    /\ host = "drain" /\ task # "running"
    /\ HostOver("cancelled")
    /\ sink' = IF task = "done" /\ end \in Escapes THEN sink \cup {FreezeRecord(end)} ELSE sink
    /\ UNCHANGED <<k, task, threadVars, coro, future, dropped, closing, stop, posted, lateLegs>>

\* The kill, from the loop side.
Kill ==
    /\ ~stop /\ host # "over"
    /\ stop' = TRUE
    /\ UNCHANGED <<hostVars, task, threadVars, coro, future, dropped, closing, posted, lateLegs>>

\* The event loop begins to shut down: every task there is will be cancelled, this run
\* at its await among them.
LoopCloses ==
    /\ ~closing
    /\ host \in {"await", "drain"}
    /\ closing' = TRUE
    /\ dropped' = (dropped \/ Alive)
    /\ UNCHANGED <<hostVars, task, threadVars, coro, future, stop, posted, lateLegs>>

\* What the bridge itself does next, whenever it can.
HostStep ==
    \/ HostDecides \/ HostReturns \/ HostDrained
    \/ (task = "cancelled" \/ closing) /\ HostCancelled

Next ==
    \/ ThreadStep \/ HostStep \/ HostCancelled
    \/ CoroStart \/ CoroPost \/ CoroEnd \/ CoroCancelled
    \/ TaskEnds \/ TaskCancelled \/ Kill \/ LoopCloses

Spec == Init /\ [][Next]_vars

\* Threads and the loop's callbacks are scheduled; the tool's coroutine may hang.
FairSpec == Spec /\ WF_vars(ThreadStep) /\ WF_vars(TaskEnds) /\ WF_vars(HostStep)

-----------------------------------------------------------------------------
(* Properties *)

\* A run posts at most one order: what a leg may have left live ends the plan, what a
\* plan may have left live ends the run, and a coroutine that outlives its timeout is
\* of the leg that ended it (REQ-093, execute_plan; control #3, execute_plan_bridged).
OnePostPerRun == Cardinality(posted) <= 1

\* A run recorded as not live, or ended as completed or stopped, has posted nothing and
\* nothing of it can still post (orchestration.py, FreezeRecord; composition.py,
\* terminal_reason).
UnsentIsUnsent ==
    \/ \E r \in sink : ~r.live
    \/ terminal \in {"completed", "stopped"}
    => posted = {} /\ ~Alive

\* The signal may be set between its check and the submission, for one leg; it then stops
\* all others (control #4, bridge).
AtMostOneLegAfterKill == lateLegs <= 1

\* While the loop lives, the run does not end while its worker thread runs, however often
\* it is cancelled (control #4, the drain of execute_plan_bridged).
ThreadNotAbandoned == host = "over" /\ ~closing => thread \in {"none", "over"}

\* What the comment on the drain says, without the proviso: a live thread is never
\* abandoned (execute_plan_bridged; not what the code does).
LiveThreadNeverAbandoned == host = "over" => thread \in {"none", "over"}

\* While the loop lives, an escape of the worker is on record when the run is over, on the
\* cancel path too (control #5, execute_plan_bridged).
EscapeOnRecord == host = "over" /\ ~closing /\ end \in Escapes => sink # {}

\* The run ends, cancelled or not, even when the tool never answers (control #2: every
\* wait is bounded).
RunEnds == <>(host = "over")

-----------------------------------------------------------------------------
(* The inductive invariants behind the safety properties. *)

\* A leg that has posted, or still may, is the one at hand, and its worker waits for it
\* or has ended the plan.
PostedByLegAtHand ==
    /\ posted # {} =>
          /\ posted = {<<k, i>>}
          /\ \/ thread = "wait"
             \/ thread = "over" /\ end \in {"frozen", "uncertain", "escape", "cancelled"}
    /\ Alive => thread = "wait" \/ (thread = "over" /\ end = "uncertain")

\* What a waiting worker will find out about its leg.
FutureTellsPost ==
    thread = "wait" =>
        /\ Alive <=> future = "pending"
        /\ posted # {} => future \in {"pending", "submitted", "raised", "cancelled"}

\* Where host and thread can be at the same time.
HostAndThread ==
    /\ task = "done" => thread = "over"
    /\ task = "none" => thread = "none"
    /\ host = "top" =>
          /\ task \in {"none", "done"}
          /\ (thread = "none" /\ end = "none") \/ (thread = "over" /\ end = "plan")
    /\ host \in {"await", "drain"} => task # "none"
    /\ terminal # "none" \/ sink # {} => host = "over"

\* An ending that claims nothing was sent.
ClaimsChecked ==
    /\ (\E r \in sink : ~r.live) => thread = "over" /\ end = "kill"
    /\ terminal \in {"completed", "stopped"} =>
          \/ thread = "none" /\ task = "none"
          \/ thread = "over" /\ end \in {"plan", "kill"}

\* The one leg that may follow the kill.
LateTracked == lateLegs <= 1 /\ (lateLegs > 0 => stop /\ thread # "submit")

BridgeInv ==
    /\ PostedByLegAtHand /\ FutureTellsPost /\ HostAndThread /\ ClaimsChecked /\ LateTracked

\* Without a shutdown of the loop no leg is cancelled under its waiting worker, and the
\* task is over only when the thread is.
NothingCancelled ==
    ~closing =>
        /\ thread = "wait" => ~dropped /\ future # "cancelled"
        /\ end # "cancelled" /\ task # "cancelled"
        /\ host = "over" =>
              /\ thread \in {"none", "over"}
              /\ end \in Escapes => sink # {}

=============================================================================
