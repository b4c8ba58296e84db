SPECIFICATION FairSpec
CONSTANTS
  Threads = {t1, t2, t3}
  Requests = {t1, t2}
  Dated = {t1}
  Places = {a, b}
  Cap = 1
  Empty = Empty
  Operator = Operator
  MaxDay = 1
  MaxAborts = 1
INVARIANTS
  LoggedOnce
  CapIsKept
  UnbrokenRepliesAreTrue
PROPERTIES
  CellsAreKept
  RequestsAreAnswered
CHECK_DEADLOCK FALSE
