--------------------------- MODULE MCMmExecution ---------------------------
(***************************************************************************)
(* Instances of MmExecution.  Attempts are model values; the definitions   *)
(* below say which session, mode and intent each of them has.              *)
(***************************************************************************)
EXTENDS MmExecution, TLC

CONSTANTS a1, a2, a3, a4, s1, s2, c1, c2

OneSession == [a \in Attempts |-> s1]

\* Two sessions that share the wallet.
TwoSessions == [a \in Attempts |-> IF a \in {a1, a2} THEN s1 ELSE s2]

TakeAndRest == [a \in Attempts |-> IF a = a2 THEN "make_quote" ELSE "take"]

TakeAndCancel == [a \in Attempts |-> IF a = a2 THEN "cancel_all" ELSE "take"]

\* A quote and its replacement in one session; in the other a withdrawal of whatever
\* rests in the wallet, and a dry run.
ReplaceAndCancel ==
    [a \in Attempts |-> CASE a = a1 -> "make_quote" [] a = a2 -> "cancel_replace"
                          [] a = a3 -> "cancel_all" [] OTHER -> "take"]

NameFirst == [a \in Attempts |-> a1]

\* A loss that reaches the manifest cap of the instance.
Pnls == {-1}

Symmetry == Permutations(Callers)

=============================================================================
