SPECIFICATION FairSpec
CONSTANTS
  Threads = {t1}
  Runners = {r1}
  Tasks = {k1, k2}
  Plans = {p1, p2}
  NoTask = NoTask
  NoPlan = NoPlan
  PlanSteps = 2
  MaxEvents = 3
INVARIANTS
  OneOpenTaskPerThread
  ExecutesOnlyApprovedPlans
  GoldenIsExecuted
PROPERTIES
  ImplementsPlanApproval
  
  ApprovedPlanIsResumed
