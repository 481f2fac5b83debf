----------------------------- MODULE OrderDesk -----------------------------
(***************************************************************************)
(* What the real-money lane promises, with all of its machinery left out:  *)
(* a desk that places every order at most once, holds at most one order at *)
(* risk per session, and stays within the order cap of a session.          *)
(***************************************************************************)
EXTENDS Integers, FiniteSets

CONSTANTS Sessions, Attempts, SessionOf, Cap

VARIABLES
    posted,     \* attempts whose order has been sent to the venue
    exposed     \* attempts whose order is in transit or resting there

deskVars == <<posted, exposed>>

DeskInit == posted = {} /\ exposed = {}

SameSession(a) == {b \in Attempts : SessionOf[b] = SessionOf[a]}

\* An order is sent, and is at risk unless the venue closed it at once.
Place(a) ==
    /\ a \notin posted
    /\ SameSession(a) \cap exposed = {}
    /\ Cap > 0 => Cardinality(SameSession(a) \cap posted) < Cap
    /\ posted' = posted \cup {a}
    /\ exposed' \in {exposed, exposed \cup {a}}

\* Orders are filled, refused, cancelled or swept, several at a time.
Close ==
    /\ exposed' \in SUBSET exposed
    /\ UNCHANGED posted

DeskNext == Close \/ \E a \in Attempts : Place(a)

DeskSpec == DeskInit /\ [][DeskNext]_deskVars

=============================================================================
