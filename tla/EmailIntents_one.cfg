SPECIFICATION FairSpec
CONSTANTS
  Threads = {t1}
  Kinds = {"trip", "ad_hoc", "invoice", "other"}
  Words = {"yes", "no", "note"}
  MaxMail = 2
  MaxFailures = 1
  MaxCrashes = 1
INVARIANTS
  NoMailApprovesItself
  SentOnce
PROPERTIES
  RepliesAreRouted
  IntentsClose
  ImplementsApprovedWork
