-------------------------- MODULE DeployPreflight ---------------------------
(***************************************************************************)
(* run_deploy_preflight (deploy/preflight.py): what a submitted             *)
(* configuration and the state of the world must satisfy before a deploy    *)
(* writes anything.  A check is satisfied, failed, or not applicable; the   *)
(* numeric knobs are reduced to whether each lies within its bounds.        *)
(***************************************************************************)
EXTENDS Integers

MM_STRATEGY_FAMILY == "quoteguard-mm"

DeployConfig ==
    [strategy       : {"momentum-sharp", MM_STRATEGY_FAMILY},
     source_mode    : {"replay", "live"},
     execution_mode : {"paper", "dry_run", "live_guarded"},
     market_allowlist : BOOLEAN,     \* non-empty
     venue_allowlist  : BOOLEAN,     \* non-empty
     in_bounds      : BOOLEAN,       \* every knob of _NUMERIC_BOUNDS
     lookback       : 1..2,
     min_movements  : 1..2,
     mm             : {"absent", "in_bounds", "out_of_bounds"}]

\* What the checks look at besides the configuration.
World == [feed : {"absent", "stale", "fresh"}, market_resolved : BOOLEAN,
          source_resolved : BOOLEAN]

CheckConfig(c) ==
    /\ c.in_bounds
    /\ c.strategy = "momentum-sharp" => c.lookback >= c.min_movements

CheckFeed(c, w) ==
    IF c.source_mode = "replay" THEN w.source_resolved ELSE w.feed = "fresh"

CheckMarket(c, w) == c.execution_mode = "live_guarded" => w.market_resolved

CheckPolicy(c) ==
    c.execution_mode # "paper" => c.market_allowlist /\ c.venue_allowlist

\* Mutant: only the block itself is checked.
CheckMmBlock(c) == c.strategy = MM_STRATEGY_FAMILY => c.mm = "in_bounds"

CheckMm(c) ==
    c.strategy = MM_STRATEGY_FAMILY =>
        /\ c.mm = "in_bounds"
        /\ c.source_mode # "live"
        /\ c.execution_mode # "live_guarded"
        /\ c.market_allowlist

PreflightOk(c, w) ==
    /\ CheckConfig(c)
    /\ CheckFeed(c, w)
    /\ CheckMarket(c, w)
    /\ CheckMm(c)
    /\ CheckPolicy(c)

=============================================================================
