SPECIFICATION Spec
CONSTANTS
  Runners = {r1, r2}
  Threads = {t1}
  Categories = {news, other, unclear}
  Unclear = unclear
  Established = {news, unclear}
  Workflows = {"tagging"}
  MaxResults = 2
  MaxMail = 2
  MaxFailures = 0
  MaxMoves = 1
INVARIANTS
  OneCategory
  
CHECK_DEADLOCK FALSE
