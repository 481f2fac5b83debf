---------------------------- MODULE MCPlanBridge ----------------------------
(* Instances of PlanBridge. *)
EXTENDS PlanBridge

\* A plan of two writes, then one that starts with an abstaining leg.
TwoPlans == << <<"write", "write">>, <<"abstain", "write", "write">> >>

=============================================================================
