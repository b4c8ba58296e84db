SPECIFICATION Spec
CONSTANTS
  Threads = {t1, t2}
  Kinds = {"trip"}
  Words = {}
  MaxMail = 2
  MaxFailures = 0
  MaxCrashes = 0
INVARIANTS
  BookedIsTrue
