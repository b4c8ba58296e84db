SPECIFICATION FairSpec
CONSTANTS
  Pids = {p1, p2}
  MaxAlive = 2
  SlotsPerDay = 2
  Days = 1
  Scripts = {"gated", "marking", "polling", "batch"}
  MaxFailures = 1
  MaxCrashes = 2
  MaxSignals = 1
INVARIANTS
  NoLeftoverLock
  OncePerSlot
  NoSlotIsPassedOver
  JobHoldsLock
PROPERTIES
  NothingStaysDue
