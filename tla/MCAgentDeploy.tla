--------------------------- MODULE MCAgentDeploy ----------------------------
(* Configurations of AgentDeploy for TLC: a sound maker and a sound           *)
(* directional agent, and one of each that must not run.                      *)
EXTENDS AgentDeploy

maker == [strategy |-> MM_STRATEGY_FAMILY, source_mode |-> "replay",
          execution_mode |-> "dry_run", market_allowlist |-> TRUE,
          venue_allowlist |-> TRUE, in_bounds |-> TRUE, lookback |-> 2,
          min_movements |-> 1, mm |-> "in_bounds"]

directional == [maker EXCEPT !.strategy = "momentum-sharp", !.source_mode = "live",
                             !.execution_mode = "live_guarded", !.mm = "absent"]

MCConfigs == {maker, directional,
              [maker EXCEPT !.execution_mode = "live_guarded"],
              [directional EXCEPT !.venue_allowlist = FALSE]}
=============================================================================
