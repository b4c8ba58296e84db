SPECIFICATION FairSpec
CONSTANTS
  Runners = {r1}
  Threads = {t1, t2}
  Categories = {news, unclear}
  Unclear = unclear
  Established = {unclear}
  Workflows = {"tagging", "identification"}
  MaxResults = 1
  MaxMail = 2
  MaxFailures = 2
  MaxMoves = 1
INVARIANTS
  LedgerFitsMailbox
PROPERTIES
  MovedBackStays
  EveryMailIsLabelled
CHECK_DEADLOCK FALSE
