SPECIFICATION Spec
CONSTANTS
  Threads = {t1, t2}
  Kinds = {"trip", "invoice"}
  Words = {"yes"}
  MaxMail = 4
  MaxFailures = 0
  MaxCrashes = 0
SYMMETRY Symmetry
INVARIANTS
  
  OneDraftPerRequest
PROPERTIES
  LaterReplyPrevails
