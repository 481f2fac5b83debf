SPECIFICATION Spec
CONSTANTS
  None = None
  det = det
  llm = llm
  Starts = {s1, s2}
  Arenas = {a1}
  Approvals = {p1, p2}
  Agents = {det, llm}
  Eligible = {det, llm}
  Bet <- MCBet
  Quotes <- MCQuotes
  s1 = s1
  s2 = s2
  a1 = a1
  p1 = p1
  p2 = p2
  Spectator = Spectator
  Scenarios <- MCScenarios
  QueueMax = 2
  MaxConnects = 2
INVARIANTS
  CompTypeOK
  LogIsOneRun
  SealedRunIsLogged
  LaneWithinLimits
  EvidenceGapless
CHECK_DEADLOCK FALSE
