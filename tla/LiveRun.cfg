\* Three published records, half-second clock to one second: enough for a miss before the close,
\* a partial close, a horizon on either side of its bound and a sink that fails at any event.
SPECIFICATION Spec
CONSTANTS
  None = None
  Windows <- MCWindows
  OwnFixture = 1
  Allowlist <- MCAllowlist
  Records <- MCRecords
  Agents <- MCAgents
  Signatures = {"signature"}
  Replies <- MCReplies
  MaxRecords = 3
  MaxTime = 2
INVARIANTS
  ProofCardHolds
  TrueClvIsTheClose
CHECK_DEADLOCK FALSE
