------------------------ MODULE EmailTaskPlaneProofs ------------------------
(***************************************************************************)
(* Theorems about EmailTaskPlane, for every value of its constants: any    *)
(* number of threads, runners, task rows and plans, and any number of      *)
(* mails, exceptions and crashes.                                          *)
(*                                                                         *)
(* ExecutesOnlyApprovedPlans and GoldenIsExecuted are not inductive: they  *)
(* say nothing of the copy of a task row a run holds between its reads and *)
(* its writes.  The inductive invariant Inv adds what that copy satisfies  *)
(* at each place of the run: Carries (which names the copy holds, and that *)
(* a row's plan and approval request change together) and Progress (what   *)
(* is already true of the plan in hand).  Sole, for one run at a time,     *)
(* adds that the copy in hand is of the only open row of its thread.       *)
(*                                                                         *)
(* Lane is what the refinement of PlanApproval rests on, for one run at a  *)
(* time and until the first fault.  Waiting: an open row with a plan is    *)
(* the only one with that plan, which is pending, was shown and did not    *)
(* start, unless the run has that row in hand.  InHand: the copy in hand   *)
(* is the row itself, and exactly how much of its plan has run.            *)
(***************************************************************************)
EXTENDS EmailTaskPlane, FiniteSetTheorems, TLAPS

HasTask == {"reply", "state", "decide", "execute", "complete", "golden"}
HasPlan == {"decide", "execute", "complete", "golden"}
Decided == {"execute", "complete", "golden"}

\* A row's plan and its approval request are written together.
Paired(row) == row.plan = row.req

Carries ==
  /\ \A k \in Tasks : Paired(task[k])
  /\ \A r \in Runners :
       /\ Paired(held[r].row)
       /\ pc[r] \in HasTask => held[r].id \in Tasks
       /\ pc[r] \in HasPlan => held[r].row.plan \in Plans

\* The first n actions of p have run.
RanUpTo(p, n) == \A s \in Steps : s < n => executed[p][s] > 0

Progress ==
  \A r \in Runners :
    LET p == held[r].row.plan IN
    /\ pc[r] # "execute" => step[r] = 1
    /\ pc[r] \in Decided => approval[p] = "approved"
    /\ pc[r] = "execute" => RanUpTo(p, step[r])
    /\ pc[r] \in {"complete", "golden"} => RanUpTo(p, PlanSteps + 1)

TypeInv == TypeOK /\ Carries
Inv == TypeInv /\ Progress /\ ExecutesOnlyApprovedPlans /\ GoldenIsExecuted

-----------------------------------------------------------------------------
(* Values *)

LEMMA SomeThreadType == SomeThread \in Threads
  BY ThreadsAssumption DEF SomeThread

LEMMA BlankRowType == \A t \in Threads : BlankRow(t) \in Row /\ Paired(BlankRow(t))
  BY BoundsAssumption DEF BlankRow, Row, TaskStatuses, MailNumbers, Paired

LEMMA NothingType == Nothing \in Held /\ Paired(Nothing.row)
  BY SomeThreadType, BlankRowType DEF Nothing, Held

LEMMA NobodyAt == [thread |-> SomeThread, mail |-> 0] \in Candidate
  BY SomeThreadType, BoundsAssumption DEF Candidate, MailNumbers

LEMMA PlannedType ==
  ASSUME NEW row \in Row, NEW p \in Plans
  PROVE  Planned(row, p) \in Row /\ Planned(row, p).plan = p /\ Planned(row, p).req = p
  BY DEF Planned, Row, TaskStatuses, OPEN_TASK_STATUSES

LEMMA CompletedType ==
  ASSUME NEW row \in Row
  PROVE  /\ Completed(row) \in Row
         /\ Completed(row).plan = row.plan
         /\ Completed(row).req = row.req
  BY DEF Completed, Row, TaskStatuses

LEMMA UnplannedType ==
  ASSUME NEW row \in Row, NEW status \in {"awaiting_information", "completed", "failed"},
         NEW new, new = [row EXCEPT !.status = status, !.plan = NoPlan, !.req = NoPlan]
  PROVE  new \in Row /\ Paired(new)
  BY DEF Row, TaskStatuses, OPEN_TASK_STATUSES, Paired

LEMMA SeenType ==
  ASSUME NEW row \in Row, NEW n \in MailNumbers, NEW new, new = [row EXCEPT !.seen = n]
  PROVE  new \in Row /\ new.plan = row.plan /\ new.req = row.req
  BY DEF Row

LEMMA HeldRow ==
  ASSUME TypeOK, NEW r \in Runners, NEW row \in Row,
         held' = [held EXCEPT ![r].row = row]
  PROVE  /\ held' \in [Runners -> Held]
         /\ held'[r].row = row /\ held'[r].id = held[r].id
         /\ \A q \in Runners \ {r} : held'[q] = held[q]
  BY DEF TypeOK, Held

LEMMA HeldId ==
  ASSUME TypeOK, NEW r \in Runners, NEW k \in Tasks,
         held' = [held EXCEPT ![r].id = k]
  PROVE  /\ held' \in [Runners -> Held]
         /\ held'[r].row = held[r].row /\ held'[r].id = k
         /\ \A q \in Runners \ {r} : held'[q] = held[q]
  BY DEF TypeOK, Held

LEMMA CandidatesType == TypeOK => Candidates \subseteq Candidate
  BY BoundsAssumption DEF TypeOK, Candidates, Candidate, MailNumbers

-----------------------------------------------------------------------------
(* Type correctness *)

LEMMA InitType == Init => TypeInv
<1> SUFFICES ASSUME Init PROVE TypeInv
  OBVIOUS
<1>1. TypeOK
  BY SomeThreadType, BlankRowType, NothingType, NobodyAt, StepsAssumption,
     BoundsAssumption
  DEF Init, TypeOK, Texts, RunStatuses, Locations, Steps, MailNumbers, NotShown
<1>2. Carries
  BY SomeThreadType, BlankRowType, NothingType
  DEF Init, Carries, HasTask, HasPlan
<1> QED  BY <1>1, <1>2 DEF TypeInv

LEMMA UpsertType ==
  ASSUME TypeOK, NEW k \in Tasks, NEW row \in Row, Upsert(k, row)
  PROVE  /\ task' \in [Tasks -> Row]
         /\ newer' \subseteq Tasks \X Tasks
         /\ \A j \in Tasks : task'[j] = IF j = k THEN row ELSE task[j]
  BY DEF Upsert, TypeOK

LEMMA EndRunType ==
  ASSUME TypeInv, NEW r \in Runners, NEW status \in RunStatuses, EndRun(r, status)
  PROVE  /\ pc' \in [Runners -> Locations]
         /\ runStatus' \in [Runners -> RunStatuses]
         /\ todo' \in [Runners -> SUBSET Candidate]
         /\ at' \in [Runners -> Candidate]
         /\ held' \in [Runners -> Held]
         /\ step' \in [Runners -> 1..(PlanSteps + 1)]
         /\ task' = task => Carries'
<1> USE NothingType, NobodyAt, StepsAssumption DEF TypeInv, TypeOK, EndRun
<1>1. pc' \in [Runners -> Locations] /\ runStatus' \in [Runners -> RunStatuses]
  BY DEF Locations
<1>2. at' \in [Runners -> Candidate] /\ held' \in [Runners -> Held]
  OBVIOUS
<1>3. step' \in [Runners -> 1..(PlanSteps + 1)] /\ todo' \in [Runners -> SUBSET Candidate]
  OBVIOUS
<1>4. task' = task => Carries'
  BY DEF Carries, HasTask, HasPlan
<1> QED  BY <1>1, <1>2, <1>3, <1>4

LEMMA NextType == TypeInv /\ [Next]_vars => TypeInv'
<1> SUFFICES ASSUME TypeInv, [Next]_vars PROVE TypeInv'
  OBVIOUS
<1> USE DEF TypeInv, mailVars, storeVars, history, faults
<1>1. ASSUME NEW t \in Threads, NEW text \in Texts, OperatorMail(t, text)
      PROVE TypeInv'
  BY <1>1, BoundsAssumption DEF OperatorMail, TypeOK, Carries, runVars, MailNumbers
<1>2. ASSUME NEW t \in Threads, FallsOffListing(t) PROVE TypeInv'
  BY <1>2 DEF FallsOffListing, TypeOK, Carries, runVars
<1>3. ASSUME NEW r \in Runners, StartRun(r) PROVE TypeInv'
  BY <1>3, CandidatesType
  DEF StartRun, Goto, TypeOK, Carries, HasTask, HasPlan, Locations, RunStatuses
<1>4. ASSUME NEW r \in Runners, PickApproval(r) PROVE TypeInv'
  <2>1. PICK c \in todo[r], k \in Tasks :
          task[k].req # NoPlan /\ Take(r, c, [id |-> k, row |-> task[k]])
    BY <1>4 DEF PickApproval
  <2>2. TypeOK'
    BY <1>4, <2>1 DEF PickApproval, Take, Goto, TypeOK, Locations, Held
  <2>3. held'[r] = [id |-> k, row |-> task[k]] /\ task[k].plan \in Plans
    BY <2>1 DEF Take, TypeOK, Carries, Paired, Row
  <2>4. Carries'
    BY <1>4, <2>1, <2>3 DEF PickApproval, Take, Goto, TypeOK, Carries, HasTask, HasPlan
  <2> QED  BY <2>2, <2>4
<1>5. ASSUME NEW r \in Runners, ApprovalWithoutRequest(r) PROVE TypeInv'
  BY <1>5, EndRunType DEF ApprovalWithoutRequest, FailRun, RunStatuses, TypeOK
<1>6. ASSUME NEW r \in Runners, PickRequest(r) PROVE TypeInv'
  <2>1. PICK c \in todo[r], h \in Held : Take(r, c, h) /\ Paired(h.row)
    <3>1. PICK c \in todo[r] :
            \/ Take(r, c, [id |-> NoTask, row |-> BlankRow(c.thread)])
            \/ \E k \in Tasks : Take(r, c, [id |-> k, row |-> task[k]])
      BY <1>6 DEF PickRequest
    <3>2. c.thread \in Threads
      BY DEF TypeOK, Candidate
    <3>3. CASE Take(r, c, [id |-> NoTask, row |-> BlankRow(c.thread)])
      BY <3>2, <3>3, BlankRowType DEF Held
    <3>4. CASE \E k \in Tasks : Take(r, c, [id |-> k, row |-> task[k]])
      BY <3>4 DEF Held, TypeOK, Carries
    <3> QED  BY <3>1, <3>3, <3>4
  <2>2. TypeOK'
    BY <1>6, <2>1 DEF PickRequest, Take, Goto, TypeOK, Locations
  <2>3. Carries'
    BY <1>6, <2>1 DEF PickRequest, Take, Goto, TypeOK, Carries, HasTask, HasPlan
  <2> QED  BY <2>2, <2>3
<1>7. ASSUME NEW r \in Runners, PlanNeedsApproval(r) PROVE TypeInv'
  <2>1. PICK p \in Plans :
          /\ approval' = [approval EXCEPT ![p] = "pending"]
          /\ shownAt' = [shownAt EXCEPT ![p] = NotShown]
          /\ approvedBy' = [approvedBy EXCEPT ![p] = 0]
          /\ executed' = [executed EXCEPT ![p] = [s \in Steps |-> 0]]
          /\ golden' = golden \ {p}
          /\ held' = [held EXCEPT ![r].row = Planned(@, p)]
    BY <1>7 DEF PlanNeedsApproval
  <2>2. held[r].row \in Row
    BY DEF TypeOK, Held
  <2>3. /\ held' \in [Runners -> Held]
        /\ Paired(held'[r].row)
        /\ \A q \in Runners \ {r} : held'[q] = held[q]
    <3> DEFINE row == Planned(held[r].row, p)
    <3>1. held' = [held EXCEPT ![r].row = row]
      BY <2>1
    <3>2. row \in Row /\ Paired(row)
      BY <2>2, PlannedType DEF Paired
    <3> HIDE DEF row
    <3> QED  BY <3>1, <3>2, HeldRow
  <2>4. approvedBy' \in [Plans -> MailNumbers] /\ executed' \in [Plans -> [Steps -> 0..2]]
    BY <2>1, BoundsAssumption DEF TypeOK, MailNumbers
  <2>5. TypeOK'
    BY <1>7, <2>1, <2>3, <2>4 DEF PlanNeedsApproval, Goto, TypeOK, Locations
  <2>6. Carries'
    BY <1>7, <2>3
    DEF PlanNeedsApproval, Goto, TypeOK, Carries, HasTask, HasPlan
  <2> QED  BY <2>5, <2>6
<1>8. ASSUME NEW r \in Runners, PlanWithoutApproval(r) PROVE TypeInv'
  <2>1. PICK status \in {"awaiting_information", "completed", "failed"} :
          held' = [held EXCEPT ![r].row =
                     [@ EXCEPT !.status = status, !.plan = NoPlan, !.req = NoPlan]]
    BY <1>8 DEF PlanWithoutApproval
  <2> DEFINE row == [held[r].row EXCEPT !.status = status, !.plan = NoPlan, !.req = NoPlan]
  <2>2. row \in Row /\ Paired(row)
    <3>1. held[r].row \in Row
      BY DEF TypeOK, Held
    <3> QED  BY <3>1, UnplannedType
  <2>3. held' = [held EXCEPT ![r].row = row]
    BY <2>1
  <2> HIDE DEF row
  <2>4. /\ held' \in [Runners -> Held]
        /\ Paired(held'[r].row)
        /\ \A q \in Runners \ {r} : held'[q] = held[q]
    BY <2>2, <2>3, HeldRow
  <2>5. TypeOK'
    BY <1>8, <2>4 DEF PlanWithoutApproval, Goto, TypeOK, Locations
  <2>6. Carries'
    BY <1>8, <2>4
    DEF PlanWithoutApproval, Goto, TypeOK, Carries, HasTask, HasPlan
  <2> QED  BY <2>5, <2>6
<1>9. ASSUME NEW r \in Runners, UpsertTask(r) PROVE TypeInv'
  <2>1. PICK k \in Tasks : Upsert(k, held[r].row) /\ held' = [held EXCEPT ![r].id = k]
    BY <1>9 DEF UpsertTask
  <2>2. held[r].row \in Row /\ Paired(held[r].row)
    BY DEF TypeOK, Held, Carries
  <2>3. TypeOK'
    BY <1>9, <2>1, <2>2, UpsertType, HeldId DEF UpsertTask, Goto, TypeOK, Locations
  <2>4. Carries'
    BY <1>9, <2>1, <2>2, UpsertType, HeldId
    DEF UpsertTask, Goto, TypeOK, Carries, HasTask, HasPlan
  <2> QED  BY <2>3, <2>4
<1>10. ASSUME NEW r \in Runners, SendReply(r) PROVE TypeInv'
  BY <1>10, BoundsAssumption
  DEF SendReply, Goto, TypeOK, Carries, HasTask, HasPlan, Locations, Candidate, MailNumbers
<1>11. ASSUME NEW r \in Runners, RecordThreadState(r) PROVE TypeInv'
  <2> DEFINE row == [held[r].row EXCEPT !.seen = at[r].mail]
  <2>1. row \in Row /\ Paired(row)
    <3>1. held[r].row \in Row /\ at[r].mail \in MailNumbers /\ Paired(held[r].row)
      BY DEF TypeOK, Held, Candidate, Carries
    <3> QED  BY <3>1, SeenType DEF Paired
  <2>2. held[r].id \in Tasks /\ Upsert(held[r].id, row)
    BY <1>11 DEF RecordThreadState, Goto, Carries, HasTask
  <2> HIDE DEF row
  <2>3. TypeOK'
    BY <1>11, <2>1, <2>2, UpsertType, NothingType
    DEF RecordThreadState, Goto, TypeOK, Locations
  <2>4. /\ pc'[r] = "pick" /\ held'[r] = Nothing
        /\ \A q \in Runners \ {r} : pc'[q] = pc[q] /\ held'[q] = held[q]
        /\ \A k \in Tasks : Paired(task'[k])
    BY <1>11, <2>1, <2>2, UpsertType DEF RecordThreadState, Goto, TypeOK, Carries
  <2>5. Carries'
    BY <2>4, NothingType DEF Carries, HasTask, HasPlan
  <2> QED  BY <2>3, <2>5
<1>12. ASSUME NEW r \in Runners, Decide(r) PROVE TypeInv'
  BY <1>12 DEF Decide, Goto, TypeOK, Carries, HasTask, HasPlan, Locations, Candidate
<1>13. ASSUME NEW r \in Runners, ExecuteAction(r) PROVE TypeInv'
  <2> DEFINE p == held[r].row.plan
             n == IF executed[p][step[r]] = 2 THEN 2 ELSE executed[p][step[r]] + 1
  <2>1. executed' \in [Plans -> [Steps -> 0..2]]
    <3>1. p \in Plans /\ step[r] \in Steps
      BY <1>13, StepsAssumption
      DEF ExecuteAction, MoreActions, TypeOK, Carries, HasPlan, Steps
    <3>2. executed' = [executed EXCEPT ![p][step[r]] = n]
      BY <1>13 DEF ExecuteAction
    <3>3. executed[p][step[r]] \in 0..2
      BY <3>1 DEF TypeOK
    <3>4. n \in 0..2
      BY <3>3
    <3> QED  BY <3>1, <3>2, <3>4 DEF TypeOK
  <2>2. step' \in [Runners -> 1..(PlanSteps + 1)]
    BY <1>13, StepsAssumption DEF ExecuteAction, MoreActions, TypeOK
  <2> QED  BY <1>13, <2>1, <2>2 DEF ExecuteAction, TypeOK, Carries
<1>14. ASSUME NEW r \in Runners, SendDone(r) PROVE TypeInv'
  BY <1>14, StepsAssumption
  DEF SendDone, Goto, TypeOK, Carries, HasTask, HasPlan, Locations, Candidate
<1>15. ASSUME NEW r \in Runners, CompleteTask(r) PROVE TypeInv'
  <2> DEFINE row == Completed(held[r].row)
  <2>1. /\ held[r].row \in Row
        /\ held[r].row.plan \in Plans
        /\ Paired(held[r].row)
        /\ held[r].id \in Tasks
    BY <1>15 DEF CompleteTask, Goto, TypeOK, Held, Carries, HasTask, HasPlan
  <2>2. row \in Row /\ Paired(row) /\ row.plan \in Plans
    BY <2>1, CompletedType DEF Paired
  <2>3. Upsert(held[r].id, row) /\ held' = [held EXCEPT ![r].row = row]
    BY <1>15 DEF CompleteTask
  <2> HIDE DEF row
  <2>4. /\ held' \in [Runners -> Held]
        /\ held'[r].row = row /\ held'[r].id = held[r].id
        /\ \A q \in Runners \ {r} : held'[q] = held[q]
    BY <2>2, <2>3, HeldRow
  <2>5. TypeOK'
    BY <1>15, <2>1, <2>2, <2>3, <2>4, UpsertType DEF CompleteTask, Goto, TypeOK, Locations
  <2>6. \A k \in Tasks : Paired(task'[k])
    BY <2>1, <2>2, <2>3, UpsertType DEF Carries
  <2>7. Carries'
    BY <1>15, <2>1, <2>2, <2>4, <2>6
    DEF CompleteTask, Goto, TypeOK, Carries, HasTask, HasPlan
  <2> QED  BY <2>5, <2>7
<1>16. ASSUME NEW r \in Runners, AppendGolden(r) PROVE TypeInv'
  BY <1>16 DEF AppendGolden, Goto, TypeOK, Carries, HasTask, HasPlan, Locations
<1>17. ASSUME NEW r \in Runners, FinishRun(r) PROVE TypeInv'
  BY <1>17, EndRunType DEF FinishRun, RunStatuses, TypeOK
<1>f. FaultAllowed => raises + 1 \in 0..MaxEvents /\ crashes + 1 \in 0..MaxEvents
  BY SomeThreadType, BoundsAssumption DEF FaultAllowed, TypeOK
<1>18. ASSUME NEW r \in Runners, Raise(r) PROVE TypeInv'
  BY <1>f, <1>18, EndRunType DEF Raise, FailRun, RunStatuses, TypeOK
<1>19. ASSUME NEW r \in Runners, Crash(r) PROVE TypeInv'
  BY <1>f, <1>19, EndRunType DEF Crash, TypeOK
<1>20. CASE UNCHANGED vars
  BY <1>20 DEF vars, runVars, TypeOK, Carries
<1> QED
  BY <1>1, <1>2, <1>3, <1>4, <1>5, <1>6, <1>7, <1>8, <1>9, <1>10, <1>11, <1>12,
     <1>13, <1>14, <1>15, <1>16, <1>17, <1>18, <1>19, <1>20 DEF Next, RunStep

(***************************************************************************)
(* Every variable keeps its type, and no run reaches the writes of an      *)
(* approved plan without a task row and a plan in hand.                    *)
(***************************************************************************)
THEOREM TypeCorrect == Spec => []TypeOK
<1>1. TypeInv => TypeOK
  BY DEF TypeInv
<1> QED  BY InitType, NextType, <1>1, PTL DEF Spec

-----------------------------------------------------------------------------
(* Only approved plans are executed *)

LEMMA InitInv == Init => Inv
<1> SUFFICES ASSUME Init PROVE Inv
  OBVIOUS
<1>1. Progress /\ GoldenIsExecuted
  BY DEF Init, Progress, Decided, GoldenIsExecuted
<1>2. ExecutesOnlyApprovedPlans
  BY DEF Init, ExecutesOnlyApprovedPlans, Touched
<1> QED  BY InitType, <1>1, <1>2 DEF Inv

\* What the three parts that speak of approvals and executions depend on.
ApprovalVars == <<approval, executed, golden>>

\* A runner that starts, fails, finishes or gets a new row holds no decided plan.
LEMMA NotDecided ==
  ASSUME Inv, NEW r \in Runners, UNCHANGED ApprovalVars, pc'[r] \notin Decided,
         step'[r] = 1 \/ (pc[r] # "execute" /\ step'[r] = step[r]),
         \A q \in Runners \ {r} : pc'[q] = pc[q] /\ held'[q] = held[q] /\ step'[q] = step[q]
  PROVE  Progress' /\ ExecutesOnlyApprovedPlans' /\ GoldenIsExecuted'
<1> USE DEF Inv, ApprovalVars
<1>1. Progress'
  BY DEF Progress, RanUpTo, Decided
<1>2. ExecutesOnlyApprovedPlans'
  BY DEF ExecutesOnlyApprovedPlans, Touched
<1>3. GoldenIsExecuted'
  BY DEF GoldenIsExecuted
<1> QED  BY <1>1, <1>2, <1>3

LEMMA EndRunInv ==
  ASSUME Inv, NEW r \in Runners, NEW status, EndRun(r, status), UNCHANGED ApprovalVars
  PROVE  Progress' /\ ExecutesOnlyApprovedPlans' /\ GoldenIsExecuted'
<1>1. /\ pc'[r] = "idle" /\ step'[r] = 1
      /\ \A q \in Runners \ {r} :
           pc'[q] = pc[q] /\ held'[q] = held[q] /\ step'[q] = step[q]
  BY DEF EndRun, Inv, TypeInv, TypeOK
<1> QED  BY <1>1, NotDecided DEF Decided

LEMMA NextInv == Inv /\ [Next]_vars => Inv'
<1> SUFFICES ASSUME Inv, [Next]_vars
             PROVE  Progress' /\ ExecutesOnlyApprovedPlans' /\ GoldenIsExecuted'
  BY NextType DEF Inv
<1> DEFINE Goal == Progress' /\ ExecutesOnlyApprovedPlans' /\ GoldenIsExecuted'
<1>a. TypeOK /\ Carries
  BY DEF Inv, TypeInv
<1>b. UNCHANGED <<ApprovalVars, pc, held, step>> => Goal
  BY DEF ApprovalVars, Inv, Progress, RanUpTo, ExecutesOnlyApprovedPlans, Touched,
         GoldenIsExecuted
<1> USE DEF mailVars, storeVars, history, faults
<1>1. ASSUME NEW t \in Threads, NEW text \in Texts, OperatorMail(t, text) PROVE Goal
  BY <1>1, <1>b DEF OperatorMail, runVars, ApprovalVars
<1>2. ASSUME NEW t \in Threads, FallsOffListing(t) PROVE Goal
  BY <1>2, <1>b DEF FallsOffListing, runVars, ApprovalVars
<1>3. ASSUME NEW r \in Runners, StartRun(r) PROVE Goal
  BY <1>3, <1>a, NotDecided DEF StartRun, Goto, TypeOK, ApprovalVars, Decided
<1>4. ASSUME NEW r \in Runners, PickApproval(r) PROVE Goal
  BY <1>4, <1>a, NotDecided DEF PickApproval, Take, Goto, TypeOK, ApprovalVars, Decided
<1>5. ASSUME NEW r \in Runners, ApprovalWithoutRequest(r) PROVE Goal
  BY <1>5, EndRunInv DEF ApprovalWithoutRequest, FailRun, ApprovalVars
<1>6. ASSUME NEW r \in Runners, PickRequest(r) PROVE Goal
  BY <1>6, <1>a, NotDecided DEF PickRequest, Take, Goto, TypeOK, ApprovalVars, Decided
<1>7. ASSUME NEW r \in Runners, PlanNeedsApproval(r) PROVE Goal
  <2>1. PICK p \in Plans :
          /\ FreePlan(p)
          /\ approval' = [approval EXCEPT ![p] = "pending"]
          /\ executed' = [executed EXCEPT ![p] = [s \in Steps |-> 0]]
          /\ golden' = golden \ {p}
          /\ held' = [held EXCEPT ![r].row = Planned(@, p)]
    BY <1>7 DEF PlanNeedsApproval
  <2>2. \A q \in Runners : held[q].row.plan # p
    BY <2>1 DEF FreePlan
  <2>3. /\ pc[r] = "plan" /\ pc'[r] = "upsert" /\ step' = step
        /\ \A q \in Runners \ {r} : pc'[q] = pc[q] /\ held'[q] = held[q]
    BY <1>7, <1>a, <2>1 DEF PlanNeedsApproval, Goto, TypeOK
  <2>3a. step'[r] = 1
    BY <2>3 DEF Inv, Progress
  <2>4. \A o \in Plans \ {p} : approval'[o] = approval[o] /\ executed'[o] = executed[o]
    BY <1>a, <2>1 DEF TypeOK
  <2>5. \A s \in Steps : executed'[p][s] = 0
    BY <1>a, <2>1 DEF TypeOK
  <2>6. Progress'
    <3>1. SUFFICES ASSUME NEW q \in Runners, q # r
                   PROVE  LET o == held'[q].row.plan IN
                          /\ pc'[q] # "execute" => step'[q] = 1
                          /\ pc'[q] \in Decided => approval'[o] = "approved"
                          /\ pc'[q] = "execute" =>
                               \A s \in Steps : s < step'[q] => executed'[o][s] > 0
                          /\ pc'[q] \in {"complete", "golden"} =>
                               \A s \in Steps : s < PlanSteps + 1 => executed'[o][s] > 0
      BY <2>3, <2>3a DEF Progress, Decided, RanUpTo
    <3>2. held'[q] = held[q] /\ pc'[q] = pc[q] /\ step'[q] = step[q]
      BY <2>3, <3>1
    <3>3. pc[q] \in Decided => held[q].row.plan \in Plans \ {p}
      BY <1>a, <2>2 DEF Carries, HasPlan, Decided
    <3> QED  BY <2>4, <3>2, <3>3 DEF Inv, Progress, RanUpTo, Decided
  <2>7. ExecutesOnlyApprovedPlans'
    BY <2>4, <2>5 DEF Inv, ExecutesOnlyApprovedPlans, Touched
  <2>8. GoldenIsExecuted'
    BY <1>a, <2>1, <2>4 DEF Inv, GoldenIsExecuted, TypeOK
  <2> QED  BY <2>6, <2>7, <2>8
<1>8. ASSUME NEW r \in Runners, PlanWithoutApproval(r) PROVE Goal
  BY <1>8, <1>a, NotDecided DEF PlanWithoutApproval, Goto, TypeOK, ApprovalVars, Decided
<1>9. ASSUME NEW r \in Runners, UpsertTask(r) PROVE Goal
  BY <1>9, <1>a, NotDecided DEF UpsertTask, Goto, TypeOK, ApprovalVars, Decided
<1>10. ASSUME NEW r \in Runners, SendReply(r) PROVE Goal
  BY <1>10, <1>a, NotDecided DEF SendReply, Goto, TypeOK, ApprovalVars, Decided
<1>11. ASSUME NEW r \in Runners, RecordThreadState(r) PROVE Goal
  BY <1>11, <1>a, NotDecided DEF RecordThreadState, Goto, TypeOK, ApprovalVars, Decided
<1>12. ASSUME NEW r \in Runners, Decide(r) PROVE Goal
  <2> DEFINE p == held[r].row.plan
  <2>1. /\ p \in Plans
        /\ approval' = [approval EXCEPT ![p] = "approved"]
        /\ UNCHANGED <<executed, golden, held, step>>
    BY <1>12, <1>a DEF Decide, Goto, Carries, HasPlan, Paired
  <2>2. pc' = [pc EXCEPT ![r] = "execute"] /\ step[r] = 1
    BY <1>12 DEF Decide, Goto, Inv, Progress
  <2>3. \A o : approval[o] = "approved" /\ o \in Plans => approval'[o] = "approved"
    BY <1>a, <2>1 DEF TypeOK
  <2>4. approval'[p] = "approved"
    BY <1>a, <2>1 DEF TypeOK
  <2>5. Progress'
    BY <1>a, <2>1, <2>2, <2>3, <2>4
    DEF Inv, Progress, RanUpTo, Decided, TypeOK, Carries, HasPlan, Steps
  <2>6. ExecutesOnlyApprovedPlans' /\ GoldenIsExecuted'
    BY <1>a, <2>1, <2>3
    DEF Inv, ExecutesOnlyApprovedPlans, Touched, GoldenIsExecuted, TypeOK
  <2> QED  BY <2>5, <2>6
<1>13. ASSUME NEW r \in Runners, ExecuteAction(r) PROVE Goal
  <2> DEFINE p == held[r].row.plan
  <2>1. /\ pc[r] = "execute" /\ p \in Plans /\ step[r] \in Steps
        /\ approval[p] = "approved"
        /\ step' = [step EXCEPT ![r] = step[r] + 1]
        /\ UNCHANGED <<approval, golden, held, pc>>
    BY <1>13, <1>a, StepsAssumption
    DEF ExecuteAction, MoreActions, TypeOK, Steps, Carries, HasPlan, Inv, Progress, Decided
  <2> DEFINE n == IF executed[p][step[r]] = 2 THEN 2 ELSE executed[p][step[r]] + 1
  <2>a. executed' = [executed EXCEPT ![p][step[r]] = n]
    BY <1>13 DEF ExecuteAction
  <2>b. executed \in [Plans -> [Steps -> 0..2]]
    BY <1>a DEF TypeOK
  <2>c. n > 0
    <3>1. executed[p][step[r]] \in 0..2
      BY <2>1, <2>b
    <3> QED  BY <3>1
  <2> HIDE DEF n
  <2>2. executed'[p][step[r]] > 0
    BY <2>1, <2>a, <2>b, <2>c
  <2>3. \A o \in Plans, s \in Steps :
          (o # p \/ s # step[r]) => executed'[o][s] = executed[o][s]
    BY <2>1, <2>a, <2>b
  <2>4. \A o \in Plans, s \in Steps : executed[o][s] > 0 => executed'[o][s] > 0
    BY <2>2, <2>3
  <2>5. Progress'
    <3>1. SUFFICES ASSUME NEW q \in Runners
                   PROVE  LET o == held[q].row.plan IN
                          /\ pc[q] # "execute" => step'[q] = 1
                          /\ pc[q] \in Decided => approval[o] = "approved"
                          /\ pc[q] = "execute" =>
                               \A s \in Steps : s < step'[q] => executed'[o][s] > 0
                          /\ pc[q] \in {"complete", "golden"} =>
                               \A s \in Steps : s < PlanSteps + 1 => executed'[o][s] > 0
      BY <2>1 DEF Progress, RanUpTo
    <3>2. pc[q] \in Decided => held[q].row.plan \in Plans
      BY <1>a DEF Carries, HasPlan, Decided
    <3>3. CASE q # r
      <4>1. step'[q] = step[q]
        BY <1>a, <2>1, <3>3 DEF TypeOK
      <4> QED  BY <2>4, <3>2, <4>1 DEF Inv, Progress, RanUpTo, Decided
    <3>4. CASE q = r
      <4>1. step'[r] = step[r] + 1
        BY <1>a, <2>1 DEF TypeOK
      <4>2. \A s \in Steps : s < step[r] => executed[p][s] > 0
        BY <2>1 DEF Inv, Progress, RanUpTo
      <4>3. \A s \in Steps : s < step[r] + 1 => s < step[r] \/ s = step[r]
        BY <2>1 DEF Steps
      <4>4. \A s \in Steps : s < step'[r] => executed'[p][s] > 0
        BY <2>1, <2>2, <2>4, <4>1, <4>2, <4>3
      <4> QED  BY <2>1, <3>4, <4>4
    <3> QED  BY <3>3, <3>4
  <2>6. ExecutesOnlyApprovedPlans'
    <3>1. SUFFICES ASSUME NEW o \in Plans, NEW s \in Steps, executed'[o][s] > 0
                   PROVE  approval'[o] = "approved"
      BY DEF ExecutesOnlyApprovedPlans, Touched
    <3>2. CASE o = p
      BY <2>1, <3>2
    <3>3. CASE o # p
      BY <2>1, <2>3, <3>1, <3>3 DEF Inv, ExecutesOnlyApprovedPlans, Touched
    <3> QED  BY <3>2, <3>3
  <2>7. GoldenIsExecuted'
    BY <1>a, <2>1, <2>4 DEF Inv, GoldenIsExecuted, TypeOK
  <2> QED  BY <2>5, <2>6, <2>7
<1>14. ASSUME NEW r \in Runners, SendDone(r) PROVE Goal
  <2> DEFINE p == held[r].row.plan
  <2>1. /\ pc[r] = "execute" /\ pc' = [pc EXCEPT ![r] = "complete"]
        /\ step' = [step EXCEPT ![r] = 1]
        /\ ~MoreActions(r)
        /\ UNCHANGED <<approval, executed, golden, held>>
    BY <1>14 DEF SendDone, Goto
  <2>2. RanUpTo(p, PlanSteps + 1)
    BY <1>a, <2>1, StepsAssumption
    DEF MoreActions, TypeOK, Inv, Progress, RanUpTo, Steps
  <2>3. Progress'
    BY <1>a, <2>1, <2>2 DEF Inv, Progress, RanUpTo, Decided, TypeOK
  <2> QED  BY <2>1, <2>3 DEF Inv, ExecutesOnlyApprovedPlans, Touched, GoldenIsExecuted
<1>15. ASSUME NEW r \in Runners, CompleteTask(r) PROVE Goal
  <2> DEFINE row == Completed(held[r].row)
  <2>1. /\ pc[r] = "complete" /\ pc' = [pc EXCEPT ![r] = "golden"]
        /\ held' = [held EXCEPT ![r].row = row]
        /\ UNCHANGED <<approval, executed, golden, step>>
    BY <1>15 DEF CompleteTask, Goto
  <2>2. row \in Row /\ row.plan = held[r].row.plan
    BY <1>a, CompletedType DEF TypeOK, Held
  <2> HIDE DEF row
  <2>3. \A q \in Runners : held'[q].row.plan = held[q].row.plan
    BY <1>a, <2>1, <2>2, HeldRow
  <2>4. Progress'
    BY <1>a, <2>1, <2>3 DEF Inv, Progress, RanUpTo, Decided, TypeOK
  <2> QED  BY <2>1, <2>4 DEF Inv, ExecutesOnlyApprovedPlans, Touched, GoldenIsExecuted
<1>16. ASSUME NEW r \in Runners, AppendGolden(r) PROVE Goal
  <2> DEFINE p == held[r].row.plan
  <2>1. /\ pc[r] = "golden" /\ pc' = [pc EXCEPT ![r] = "state"]
        /\ golden' = golden \cup {p}
        /\ UNCHANGED <<approval, executed, held, step>>
    BY <1>16 DEF AppendGolden, Goto
  <2>2. approval[p] = "approved" /\ \A s \in Steps : executed[p][s] > 0
    BY <2>1, StepsAssumption DEF Inv, Progress, RanUpTo, Decided, Steps
  <2>3. Progress'
    BY <1>a, <2>1 DEF Inv, Progress, RanUpTo, Decided, TypeOK
  <2> QED  BY <2>1, <2>2, <2>3
           DEF Inv, ExecutesOnlyApprovedPlans, Touched, GoldenIsExecuted
<1>17. ASSUME NEW r \in Runners, FinishRun(r) PROVE Goal
  BY <1>17, EndRunInv DEF FinishRun, ApprovalVars
<1>18. ASSUME NEW r \in Runners, Raise(r) PROVE Goal
  BY <1>18, EndRunInv DEF Raise, FailRun, ApprovalVars
<1>19. ASSUME NEW r \in Runners, Crash(r) PROVE Goal
  BY <1>19, EndRunInv DEF Crash, ApprovalVars
<1>20. CASE UNCHANGED vars
  BY <1>20, <1>b DEF vars, runVars, ApprovalVars
<1> QED
  BY <1>1, <1>2, <1>3, <1>4, <1>5, <1>6, <1>7, <1>8, <1>9, <1>10, <1>11, <1>12,
     <1>13, <1>14, <1>15, <1>16, <1>17, <1>18, <1>19, <1>20 DEF Next, RunStep

LEMMA Invariance == Spec => []Inv
  BY InitInv, NextInv, PTL DEF Spec

(***************************************************************************)
(* No action of a plan runs before the approval request made for that plan *)
(* is decided "approved", with any number of overlapping runs, exceptions  *)
(* and crashes.                                                            *)
(***************************************************************************)
THEOREM OnlyApprovedPlansExecute == Spec => []ExecutesOnlyApprovedPlans
<1>1. Inv => ExecutesOnlyApprovedPlans
  BY DEF Inv
<1> QED  BY Invariance, <1>1, PTL

(***************************************************************************)
(* The golden dataset holds only plans that were approved and all of whose *)
(* actions ran, whatever the runs and the faults.                          *)
(***************************************************************************)
THEOREM GoldenPlansExecuted == Spec => []GoldenIsExecuted
<1>1. Inv => GoldenIsExecuted
  BY DEF Inv
<1> QED  BY Invariance, <1>1, PTL

-----------------------------------------------------------------------------
(* Runs that end leave a final status *)

LEMMA EndRunRecorded ==
  ASSUME TypeOK, FinishedRunsAreRecorded, UNCHANGED crashes,
         NEW r \in Runners, NEW status \in {"COMPLETED", "FAILED"}, EndRun(r, status)
  PROVE  FinishedRunsAreRecorded'
  BY DEF EndRun, FinishedRunsAreRecorded, TypeOK

(***************************************************************************)
(* As long as no process died, an idle runner's last run is not RUNNING in *)
(* the runs table: run_workflow records every end of a run, also those by  *)
(* an exception.                                                           *)
(***************************************************************************)
THEOREM EndedRunsAreRecorded == Spec => []FinishedRunsAreRecorded
<1>1. Init => FinishedRunsAreRecorded
  BY DEF Init, FinishedRunsAreRecorded
<1>2. FinishedRunsAreRecorded /\ TypeOK /\ TypeOK' /\ [Next]_vars
        => FinishedRunsAreRecorded'
  <2> SUFFICES ASSUME FinishedRunsAreRecorded, TypeOK, [Next]_vars
               PROVE  FinishedRunsAreRecorded'
    OBVIOUS
  <2> USE DEF history, faults
  <2>1. UNCHANGED <<pc, runStatus, crashes>> => FinishedRunsAreRecorded'
    BY DEF FinishedRunsAreRecorded
  <2>2. \A r \in Runners : UNCHANGED <<runStatus, crashes>> /\ pc'[r] # "idle"
          /\ (\A q \in Runners \ {r} : pc'[q] = pc[q]) => FinishedRunsAreRecorded'
    BY DEF FinishedRunsAreRecorded
  <2>3. ASSUME NEW r \in Runners, StartRun(r) PROVE FinishedRunsAreRecorded'
    BY <2>3 DEF StartRun, Goto, FinishedRunsAreRecorded, TypeOK
  <2>4. ASSUME NEW r \in Runners, Crash(r) PROVE FinishedRunsAreRecorded'
    BY <2>4, BoundsAssumption DEF Crash, FinishedRunsAreRecorded, TypeOK
  <2>5. ASSUME NEW r \in Runners, RunStep(r), ~StartRun(r) PROVE FinishedRunsAreRecorded'
    <3>1. CASE ApprovalWithoutRequest(r) \/ FinishRun(r)
      BY <3>1, EndRunRecorded DEF ApprovalWithoutRequest, FinishRun, FailRun
    <3>2. CASE ExecuteAction(r)
      BY <3>2, <2>1 DEF ExecuteAction
    <3>3. CASE PickApproval(r) \/ PickRequest(r)
      BY <3>3, <2>2 DEF PickApproval, PickRequest, Take, Goto, TypeOK
    <3>4. CASE PlanNeedsApproval(r) \/ PlanWithoutApproval(r) \/ UpsertTask(r)
      BY <3>4, <2>2 DEF PlanNeedsApproval, PlanWithoutApproval, UpsertTask, Goto, TypeOK
    <3>5. CASE SendReply(r) \/ RecordThreadState(r) \/ Decide(r)
      BY <3>5, <2>2 DEF SendReply, RecordThreadState, Decide, Goto, TypeOK
    <3>6. CASE SendDone(r) \/ CompleteTask(r) \/ AppendGolden(r)
      BY <3>6, <2>2 DEF SendDone, CompleteTask, AppendGolden, Goto, TypeOK
    <3> QED  BY <2>5, <3>1, <3>2, <3>3, <3>4, <3>5, <3>6 DEF RunStep
  <2>6. ASSUME NEW r \in Runners, Raise(r) PROVE FinishedRunsAreRecorded'
    BY <2>6, EndRunRecorded DEF Raise, FailRun
  <2>7. ASSUME NEW t \in Threads, NEW text \in Texts,
               OperatorMail(t, text) \/ FallsOffListing(t)
        PROVE  FinishedRunsAreRecorded'
    BY <2>7, <2>1 DEF OperatorMail, FallsOffListing, runVars
  <2>8. CASE UNCHANGED vars
    BY <2>8, <2>1 DEF vars, runVars
  <2> QED  BY <2>3, <2>4, <2>5, <2>6, <2>7, <2>8 DEF Next, Texts
<1> QED  BY TypeCorrect, <1>1, <1>2, PTL DEF Spec

-----------------------------------------------------------------------------
(* One open task per thread, for one run at a time *)

OneRunner == \A q, r \in Runners : q = r

Working == {"plan", "upsert"} \cup HasTask

\* The row a run has in hand is the only open one of its thread, or will be.
Sole ==
  /\ \A k, j \in Tasks : IsOpen(k) /\ IsOpen(j) /\ task[k].thread = task[j].thread => k = j
  /\ \A r \in Runners : pc[r] \in Working =>
       \A j \in Tasks : IsOpen(j) /\ task[j].thread = held[r].row.thread => j = held[r].id

LEMMA ThreadStays ==
  ASSUME NEW row \in Row, NEW p
  PROVE  Planned(row, p).thread = row.thread /\ Completed(row).thread = row.thread
  BY DEF Planned, Completed, Row

\* A row written for a thread whose other rows are closed.
LEMMA UpsertSole ==
  ASSUME OneRunner, TypeOK, Sole, NEW r \in Runners, pc[r] \in Working,
         NEW k \in Tasks, NEW row \in Row, Upsert(k, row),
         row.thread = held[r].row.thread, held[r].id = NoTask \/ k = held[r].id,
         pc'[r] \in Working => held'[r].row.thread = row.thread /\ held'[r].id = k
  PROVE  Sole'
<1>1. \A j \in Tasks : task'[j] = IF j = k THEN row ELSE task[j]
  BY UpsertType
<1>2. \A j \in Tasks \ {k} : IsOpen(j)' => IsOpen(j) /\ task[j].thread # row.thread
  <2> SUFFICES ASSUME NEW j \in Tasks \ {k}, IsOpen(j)'
               PROVE  IsOpen(j) /\ task[j].thread # row.thread
    OBVIOUS
  <2>1. IsOpen(j)
    BY <1>1 DEF IsOpen
  <2>2. task[j].thread = row.thread => j = held[r].id
    BY <2>1 DEF Sole
  <2> QED  BY <2>1, <2>2, NamesAssumption
<1>3. \A i, j \in Tasks : (IsOpen(i) /\ IsOpen(j) /\ task[i].thread = task[j].thread)' => i = j
  BY <1>1, <1>2 DEF Sole
<1>4. ASSUME NEW q \in Runners, (pc[q] \in Working)', NEW j \in Tasks,
             (IsOpen(j) /\ task[j].thread = held[q].row.thread)'
      PROVE  j = held'[q].id
  <2>1. q = r
    BY DEF OneRunner
  <2> QED  BY <1>1, <1>2, <1>4, <2>1
<1> QED  BY <1>3, <1>4 DEF Sole

\* A step that writes no row and keeps the thread and the row in hand.
LEMMA KeepsSole ==
  ASSUME OneRunner, Sole, UNCHANGED task, NEW r \in Runners,
         pc'[r] \in Working =>
           \/ pc[r] \in Working /\ held'[r].row.thread = held[r].row.thread
                                /\ held'[r].id = held[r].id
           \/ \A j \in Tasks : IsOpen(j) /\ task[j].thread = held'[r].row.thread => j = held'[r].id
  PROVE  Sole'
<1>1. \A j \in Tasks : IsOpen(j)' <=> IsOpen(j)
  BY DEF IsOpen
<1>2. \A q \in Runners : q = r
  BY DEF OneRunner
<1> QED  BY <1>1, <1>2 DEF Sole

LEMMA NextSole ==
  ASSUME OneRunner, TypeInv, TypeInv', Sole, [Next]_vars PROVE Sole'
<1>a. TypeOK /\ Carries /\ TypeOK'
  BY DEF TypeInv
<1>b. UNCHANGED <<task, pc, held>> => Sole'
  BY DEF Sole, IsOpen
<1>h. \A r \in Runners : held[r].row \in Row
  BY <1>a DEF TypeOK, Held
<1> USE DEF mailVars, storeVars, history, runVars, faults
<1>1. ASSUME NEW t \in Threads, NEW text \in Texts, OperatorMail(t, text) PROVE Sole'
  BY <1>1, <1>b DEF OperatorMail
<1>2. ASSUME NEW t \in Threads, FallsOffListing(t) PROVE Sole'
  BY <1>2, <1>b DEF FallsOffListing
<1>3. ASSUME NEW r \in Runners, StartRun(r) PROVE Sole'
  BY <1>3, <1>a, KeepsSole DEF StartRun, Goto, TypeOK, Working, HasTask
<1>4. ASSUME NEW r \in Runners, PickApproval(r) PROVE Sole'
  <2>1. PICK c \in todo[r], k \in Tasks :
          FindsOpenTask(c.thread, k) /\ Take(r, c, [id |-> k, row |-> task[k]])
    BY <1>4 DEF PickApproval
  <2>2. held'[r] = [id |-> k, row |-> task[k]] /\ UNCHANGED task
    BY <1>4, <1>a, <2>1 DEF PickApproval, Take, TypeOK
  <2>3. IsOpen(k)
    BY <2>1 DEF FindsOpenTask, OpenTasks
  <2>4. \A j \in Tasks : IsOpen(j) /\ task[j].thread = held'[r].row.thread => j = held'[r].id
    BY <2>2, <2>3 DEF Sole
  <2> QED  BY <2>2, <2>4, KeepsSole
<1>5. ASSUME NEW r \in Runners, NEW status, EndRun(r, status), UNCHANGED task PROVE Sole'
  BY <1>5, <1>a, KeepsSole DEF EndRun, TypeOK, Working, HasTask
<1>6. ASSUME NEW r \in Runners, PickRequest(r) PROVE Sole'
  <2>1. PICK c \in todo[r] :
          \/ /\ OpenTasks(c.thread) = {}
             /\ Take(r, c, [id |-> NoTask, row |-> BlankRow(c.thread)])
          \/ \E k \in Tasks :
               /\ FindsOpenTask(c.thread, k)
               /\ Take(r, c, [id |-> k, row |-> task[k]])
    BY <1>6 DEF PickRequest
  <2>2. UNCHANGED task
    BY <1>6 DEF PickRequest
  <2>3. CASE OpenTasks(c.thread) = {} /\ Take(r, c, [id |-> NoTask, row |-> BlankRow(c.thread)])
    <3>1. held'[r].row.thread = c.thread
      BY <1>a, <2>3 DEF Take, TypeOK, BlankRow
    <3>2. \A j \in Tasks : ~(IsOpen(j) /\ task[j].thread = held'[r].row.thread)
      BY <2>3, <3>1 DEF OpenTasks
    <3> QED  BY <2>2, <3>2, KeepsSole
  <2>4. ASSUME NEW k \in Tasks, FindsOpenTask(c.thread, k),
               Take(r, c, [id |-> k, row |-> task[k]])
        PROVE  Sole'
    <3>1. held'[r] = [id |-> k, row |-> task[k]]
      BY <1>a, <2>4 DEF Take, TypeOK
    <3>2. IsOpen(k)
      BY <2>4 DEF FindsOpenTask, OpenTasks
    <3>3. \A j \in Tasks : IsOpen(j) /\ task[j].thread = held'[r].row.thread => j = held'[r].id
      BY <3>1, <3>2 DEF Sole
    <3> QED  BY <2>2, <3>3, KeepsSole
  <2> QED  BY <2>1, <2>3, <2>4
<1>7. ASSUME NEW r \in Runners, PlanNeedsApproval(r) PROVE Sole'
  <2>1. PICK p \in Plans : held' = [held EXCEPT ![r].row = Planned(@, p)]
    BY <1>7 DEF PlanNeedsApproval
  <2>2. held'[r].row = Planned(held[r].row, p) /\ held'[r].id = held[r].id
    BY <1>a, <2>1 DEF TypeOK, Held
  <2>3. pc[r] \in Working /\ UNCHANGED task
    BY <1>7 DEF PlanNeedsApproval, Goto, Working
  <2> QED  BY <1>h, <2>2, <2>3, ThreadStays, KeepsSole
<1>8. ASSUME NEW r \in Runners, PlanWithoutApproval(r) PROVE Sole'
  <2>1. PICK status \in {"awaiting_information", "completed", "failed"} :
          held' = [held EXCEPT ![r].row =
                     [@ EXCEPT !.status = status, !.plan = NoPlan, !.req = NoPlan]]
    BY <1>8 DEF PlanWithoutApproval
  <2>2. held'[r].row.thread = held[r].row.thread /\ held'[r].id = held[r].id
    BY <1>a, <1>h, <2>1 DEF TypeOK, Held, Row
  <2>3. pc[r] \in Working /\ UNCHANGED task
    BY <1>8 DEF PlanWithoutApproval, Goto, Working
  <2> QED  BY <2>2, <2>3, KeepsSole
<1>9. ASSUME NEW r \in Runners, UpsertTask(r) PROVE Sole'
  <2>1. PICK k \in Tasks : TargetTask(r, k) /\ Upsert(k, held[r].row)
                           /\ held' = [held EXCEPT ![r].id = k]
    BY <1>9 DEF UpsertTask
  <2>2. held[r].id = NoTask \/ k = held[r].id
    BY <2>1 DEF TargetTask
  <2>3. held'[r].row = held[r].row /\ held'[r].id = k /\ pc[r] \in Working
    BY <1>9, <1>a, <2>1, HeldId DEF UpsertTask, Goto, Working
  <2> QED  BY <1>a, <1>h, <2>1, <2>2, <2>3, UpsertSole
<1>10. ASSUME NEW r \in Runners, UNCHANGED <<task, held>>, pc[r] \in Working PROVE Sole'
  BY <1>10, KeepsSole
<1>11. ASSUME NEW r \in Runners, RecordThreadState(r) PROVE Sole'
  <2>1. held[r].id \in Tasks /\ pc[r] \in Working
    BY <1>11, <1>a DEF RecordThreadState, Goto, Carries, HasTask, Working
  <2> DEFINE row == [held[r].row EXCEPT !.seen = at[r].mail]
  <2>2. row \in Row /\ row.thread = held[r].row.thread
    <3>1. at[r].mail \in MailNumbers
      BY <1>a DEF TypeOK, Candidate
    <3> QED  BY <1>h, <3>1 DEF Row
  <2>3. Upsert(held[r].id, row) /\ pc'[r] \notin Working
    BY <1>11, <1>a DEF RecordThreadState, Goto, TypeOK, Working, HasTask
  <2> QED  BY <1>a, <2>1, <2>2, <2>3, UpsertSole
<1>12. ASSUME NEW r \in Runners, CompleteTask(r) PROVE Sole'
  <2>1. held[r].id \in Tasks /\ pc[r] \in Working
    BY <1>12, <1>a DEF CompleteTask, Goto, Carries, HasTask, Working
  <2> DEFINE row == Completed(held[r].row)
  <2>2. row \in Row /\ row.thread = held[r].row.thread
    BY <1>h, ThreadStays, CompletedType
  <2>3. Upsert(held[r].id, row) /\ held' = [held EXCEPT ![r].row = row]
    BY <1>12 DEF CompleteTask
  <2>4. held'[r].row = row /\ held'[r].id = held[r].id
    BY <1>a, <2>2, <2>3, HeldRow
  <2> HIDE DEF row
  <2> QED  BY <1>a, <2>1, <2>2, <2>3, <2>4, UpsertSole
<1>13. CASE UNCHANGED vars
  BY <1>13, <1>b DEF vars
<1>14. ASSUME NEW r \in Runners, RunStep(r) PROVE Sole'
  <2>1. CASE ApprovalWithoutRequest(r) \/ FinishRun(r)
    BY <2>1, <1>5 DEF ApprovalWithoutRequest, FinishRun, FailRun
  <2>2. CASE SendReply(r) \/ Decide(r) \/ ExecuteAction(r) \/ SendDone(r) \/ AppendGolden(r)
    BY <2>2, <1>10
    DEF SendReply, Decide, ExecuteAction, SendDone, AppendGolden, Goto, Working, HasTask
  <2> QED  BY <1>14, <1>3, <1>4, <1>6, <1>7, <1>8, <1>9, <1>11, <1>12, <2>1, <2>2 DEF RunStep
<1>15. ASSUME NEW r \in Runners, Raise(r) \/ Crash(r) PROVE Sole'
  BY <1>15, <1>5 DEF Raise, Crash, FailRun
<1> QED  BY <1>1, <1>2, <1>13, <1>14, <1>15 DEF Next

(***************************************************************************)
(* With one run at a time a thread never has two open tasks, through any   *)
(* exceptions and crashes: a run reads the open task of the thread before  *)
(* it plans, and writes that row or a new one (runner.py:416, 760).        *)
(***************************************************************************)
THEOREM OneTaskStaysOpen == OneRunner => (Spec => []OneOpenTaskPerThread)
<1> SUFFICES ASSUME OneRunner PROVE Spec => []OneOpenTaskPerThread
  OBVIOUS
<1>1. Init => Sole
  BY SomeThreadType DEF Init, Sole, IsOpen, BlankRow, OPEN_TASK_STATUSES, Working, HasTask
<1>2. TypeInv /\ TypeInv' /\ Sole /\ [Next]_vars => Sole'
  BY NextSole
<1>3. Sole => OneOpenTaskPerThread
  <2> SUFFICES ASSUME Sole, NEW t \in Threads PROVE Cardinality(OpenTasks(t)) <= 1
    BY DEF OneOpenTaskPerThread
  <2>1. \A i, j \in OpenTasks(t) : i = j
    BY DEF Sole, OpenTasks
  <2>2. CASE OpenTasks(t) = {}
    BY <2>2, FS_EmptySet
  <2>3. ASSUME NEW k \in OpenTasks(t) PROVE Cardinality(OpenTasks(t)) = 1
    <3>1. OpenTasks(t) = {k}
      BY <2>1, <2>3
    <3> QED  BY <3>1, FS_Singleton
  <2> QED  BY <2>2, <2>3
<1> QED  BY InitType, NextType, <1>1, <1>2, <1>3, PTL DEF Spec
-----------------------------------------------------------------------------
(* The lane implements the life of a plan *)

Untouched(p) == approval[p] = "pending" /\ p \notin golden /\ \A s \in Steps : executed[p][s] = 0
Asked(p) == Untouched(p) /\ shownAt[p] = NotShown
Waits(p) == Untouched(p) /\ shownAt[p] # NotShown
\* The first n - 1 actions of p ran once, the others not at all.
RanOnce(p, n) == \A s \in Steps : executed[p][s] = IF s < n THEN 1 ELSE 0

HasOpenPlan(k) == IsOpen(k) /\ task[k].plan \in Plans
Busy == {"reply", "execute", "complete"}

\* An open task waits with a plan of its own, unless a run has it in hand.
Waiting ==
  /\ \A j, k \in Tasks : HasOpenPlan(j) /\ HasOpenPlan(k) /\ task[j].plan = task[k].plan => j = k
  /\ \A k \in Tasks :
       HasOpenPlan(k) /\ (\A r \in Runners : pc[r] \in Busy => held[r].id # k)
         => Waits(task[k].plan)

\* What has happened to the plan that a run has in hand.
InHand ==
  \A r \in Runners : LET p == held[r].row.plan IN
    /\ pc[r] \in HasTask => held[r].row = task[held[r].id]
    /\ pc[r] \in {"decide", "execute", "complete"} => IsOpen(held[r].id)
    /\ pc[r] \in {"upsert", "reply"} /\ p \in Plans => Asked(p)
    /\ pc[r] = "upsert" /\ p \in Plans => \A k \in Tasks : IsOpen(k) => task[k].plan # p
    /\ pc[r] = "execute" => p \notin golden /\ RanOnce(p, step[r])
    /\ pc[r] \in {"complete", "golden"} => p \notin golden /\ RanOnce(p, PlanSteps + 1)

Lane == Waiting /\ InHand

PlanVars == <<approval, executed, golden, shownAt>>

LEMMA LaneStep ==
  ASSUME OneRunner, Inv, Lane, Faultless', [Next]_vars PROVE Lane'
<1>a. TypeOK /\ Carries /\ Progress
  BY DEF Inv, TypeInv
<1>o. \A q, r \in Runners : q = r
  BY DEF OneRunner
<1>h. \A r \in Runners : held[r].row \in Row
  BY <1>a DEF TypeOK, Held
<1> USE DEF mailVars, storeVars, history, runVars, faults
<1>b. UNCHANGED <<PlanVars, task, pc, held, step>> => Lane'
  BY DEF Lane, Waiting, InHand, HasOpenPlan, IsOpen, Waits, Asked, Untouched, RanOnce, PlanVars
\* A step without a plan in hand, neither before nor after.
<1>c. ASSUME NEW r \in Runners, UNCHANGED <<PlanVars, task>>, pc[r] \notin Busy,
             pc'[r] \notin HasTask, pc'[r] = "upsert" => held'[r].row.plan \notin Plans
      PROVE  Lane'
  <2>1. \A k \in Tasks : (HasOpenPlan(k)' <=> HasOpenPlan(k)) /\ (IsOpen(k)' <=> IsOpen(k))
    BY <1>c DEF HasOpenPlan, IsOpen
  <2>2. \A p \in Plans : Waits(p)' <=> Waits(p)
    BY <1>c DEF Waits, Untouched, PlanVars
  <2>3. Waiting'
    BY <1>c, <1>o, <2>1, <2>2 DEF Lane, Waiting, HasOpenPlan
  <2>4. InHand'
    BY <1>c, <1>o DEF InHand, HasTask
  <2> QED  BY <2>3, <2>4 DEF Lane
<1>1. ASSUME NEW t \in Threads, NEW text \in Texts, OperatorMail(t, text) PROVE Lane'
  BY <1>1, <1>b DEF OperatorMail, PlanVars
<1>2. ASSUME NEW t \in Threads, FallsOffListing(t) PROVE Lane'
  BY <1>2, <1>b DEF FallsOffListing, PlanVars
<1>3. ASSUME NEW r \in Runners, StartRun(r) PROVE Lane'
  BY <1>3, <1>a, <1>c DEF StartRun, Goto, TypeOK, HasTask, Busy, PlanVars
<1>4. ASSUME NEW r \in Runners, PickApproval(r) PROVE Lane'
  <2>1. PICK c \in todo[r], k \in Tasks :
          FindsOpenTask(c.thread, k) /\ Take(r, c, [id |-> k, row |-> task[k]])
    BY <1>4 DEF PickApproval
  <2>2. /\ held'[r] = [id |-> k, row |-> task[k]] /\ UNCHANGED <<PlanVars, task>>
        /\ pc[r] = "pick" /\ pc'[r] = "decide"
    BY <1>4, <1>a, <2>1 DEF PickApproval, Take, Goto, TypeOK, PlanVars
  <2>3. IsOpen(k)
    BY <2>1 DEF FindsOpenTask, OpenTasks
  <2>4. \A j \in Tasks : (HasOpenPlan(j)' <=> HasOpenPlan(j)) /\ (IsOpen(j)' <=> IsOpen(j))
    BY <2>2 DEF HasOpenPlan, IsOpen
  <2>5. \A p \in Plans : Waits(p)' <=> Waits(p)
    BY <2>2 DEF Waits, Untouched, PlanVars
  <2>6. Waiting'
    BY <1>o, <2>2, <2>4, <2>5 DEF Lane, Waiting, HasOpenPlan, Busy
  <2>7. InHand'
    BY <1>o, <2>2, <2>3, <2>4 DEF InHand
  <2> QED  BY <2>6, <2>7 DEF Lane
<1>5. ASSUME NEW r \in Runners, ApprovalWithoutRequest(r) \/ FinishRun(r) PROVE Lane'
  BY <1>5, <1>a, <1>c
  DEF ApprovalWithoutRequest, FinishRun, FailRun, EndRun, TypeOK, HasTask, Busy, PlanVars
<1>6. ASSUME NEW r \in Runners, PickRequest(r) PROVE Lane'
  BY <1>6, <1>a, <1>c DEF PickRequest, Goto, TypeOK, HasTask, Busy, PlanVars
<1>7. ASSUME NEW r \in Runners, PlanNeedsApproval(r) PROVE Lane'
  <2>1. PICK p \in Plans :
          /\ FreePlan(p)
          /\ approval' = [approval EXCEPT ![p] = "pending"]
          /\ shownAt' = [shownAt EXCEPT ![p] = NotShown]
          /\ executed' = [executed EXCEPT ![p] = [s \in Steps |-> 0]]
          /\ golden' = golden \ {p}
          /\ held' = [held EXCEPT ![r].row = Planned(@, p)]
    BY <1>7 DEF PlanNeedsApproval
  <2>2. held'[r].row.plan = p /\ pc[r] = "plan" /\ pc'[r] = "upsert" /\ UNCHANGED task
    <3>1. held'[r].row = Planned(held[r].row, p)
      BY <1>a, <2>1 DEF TypeOK, Held
    <3> QED  BY <1>7, <1>a, <1>h, <3>1, PlannedType DEF PlanNeedsApproval, Goto, TypeOK
  <2>3. Asked(p)'
    BY <1>a, <2>1 DEF TypeOK, Asked, Untouched
  <2>4. \A o \in Plans \ {p} : Waits(o) => Waits(o)'
    BY <1>a, <2>1 DEF TypeOK, Waits, Untouched
  <2>5. \A k \in Tasks : IsOpen(k) => task[k].plan # p
    BY <2>1 DEF FreePlan
  <2>6. \A k \in Tasks : (HasOpenPlan(k)' <=> HasOpenPlan(k)) /\ (IsOpen(k)' <=> IsOpen(k))
    BY <2>2 DEF HasOpenPlan, IsOpen
  <2>7. Waiting'
    BY <1>o, <2>2, <2>4, <2>5, <2>6 DEF Lane, Waiting, HasOpenPlan, Busy
  <2>8. InHand'
    BY <1>o, <2>2, <2>3, <2>5, <2>6 DEF InHand, HasTask
  <2> QED  BY <2>7, <2>8 DEF Lane
<1>8. ASSUME NEW r \in Runners, PlanWithoutApproval(r) PROVE Lane'
  <2>1. PICK status \in {"awaiting_information", "completed", "failed"} :
          held' = [held EXCEPT ![r].row =
                     [@ EXCEPT !.status = status, !.plan = NoPlan, !.req = NoPlan]]
    BY <1>8 DEF PlanWithoutApproval
  <2>2. held'[r].row.plan = NoPlan
    BY <1>a, <1>h, <2>1 DEF TypeOK, Held, Row
  <2> QED  BY <1>8, <1>a, <1>c, <2>2, NamesAssumption
           DEF PlanWithoutApproval, Goto, TypeOK, HasTask, Busy, PlanVars
<1>9. ASSUME NEW r \in Runners, UpsertTask(r) PROVE Lane'
  <2>1. PICK k \in Tasks : Upsert(k, held[r].row) /\ held' = [held EXCEPT ![r].id = k]
    BY <1>9 DEF UpsertTask
  <2>2. /\ held'[r].row = held[r].row /\ held'[r].id = k
        /\ pc[r] = "upsert" /\ pc'[r] = "reply" /\ UNCHANGED PlanVars
    BY <1>9, <1>a, <2>1, HeldId DEF UpsertTask, Goto, TypeOK, PlanVars
  <2>3. \A j \in Tasks : task'[j] = IF j = k THEN held[r].row ELSE task[j]
    BY <1>a, <1>h, <2>1, UpsertType
  <2>4. \A j \in Tasks \ {k} :
          /\ HasOpenPlan(j)' => HasOpenPlan(j)
          /\ HasOpenPlan(j)' /\ held[r].row.plan \in Plans => task[j].plan # held[r].row.plan
    BY <2>2, <2>3 DEF Lane, InHand, HasOpenPlan, IsOpen
  <2>5. \A p \in Plans : (Waits(p)' <=> Waits(p)) /\ (Asked(p)' <=> Asked(p))
    BY <2>2 DEF Waits, Asked, Untouched, PlanVars
  <2>6. Waiting'
    <3>1. ASSUME NEW i \in Tasks, NEW j \in Tasks,
                 (HasOpenPlan(i) /\ HasOpenPlan(j) /\ task[i].plan = task[j].plan)'
          PROVE  i = j
      BY <2>3, <2>4, <3>1 DEF Lane, Waiting, HasOpenPlan
    <3>2. ASSUME NEW j \in Tasks, HasOpenPlan(j)', pc'[r] \in Busy => held'[r].id # j
          PROVE  Waits(task[j].plan)'
      <4>1. j # k
        BY <2>2, <3>2 DEF Busy
      <4>2. HasOpenPlan(j) /\ task'[j] = task[j]
        BY <2>3, <2>4, <3>2, <4>1
      <4>3. Waits(task[j].plan)
        BY <1>o, <2>2, <4>2 DEF Lane, Waiting, Busy
      <4> QED  BY <2>5, <4>2, <4>3 DEF HasOpenPlan
    <3> QED  BY <3>1, <3>2 DEF Waiting
  <2>7. InHand'
    BY <1>o, <2>2, <2>3, <2>5 DEF Lane, InHand
  <2> QED  BY <2>6, <2>7 DEF Lane
<1>10. ASSUME NEW r \in Runners, SendReply(r) PROVE Lane'
  <2> DEFINE p == held[r].row.plan
             k == held[r].id
  <2>1. /\ pc[r] = "reply" /\ pc'[r] = "state" /\ k \in Tasks /\ held[r].row = task[k]
        /\ UNCHANGED <<task, approval, executed, golden, held>>
        /\ shownAt' = IF p \in Plans THEN [shownAt EXCEPT ![p] = Len(mail[at[r].thread])]
                      ELSE shownAt
    BY <1>10, <1>a DEF SendReply, Goto, TypeOK, Carries, HasTask, Lane, InHand
  <2>2. Len(mail[at[r].thread]) # NotShown
    BY <1>a DEF TypeOK, Candidate, NotShown
  <2>3. p \in Plans => Asked(p) /\ Waits(p)'
    BY <1>a, <2>1, <2>2 DEF Lane, InHand, Asked, Waits, Untouched, TypeOK
  <2>4. \A o \in Plans : o # p => (Waits(o)' <=> Waits(o))
    BY <1>a, <2>1 DEF Waits, Untouched, TypeOK
  <2>5. \A j \in Tasks : (HasOpenPlan(j)' <=> HasOpenPlan(j)) /\ (IsOpen(j)' <=> IsOpen(j))
    BY <2>1 DEF HasOpenPlan, IsOpen
  <2>6. Waiting'
    <3>1. ASSUME NEW j \in Tasks, HasOpenPlan(j) PROVE Waits(task[j].plan)'
      <4>1. CASE task[j].plan = p
        BY <2>1, <2>3, <3>1, <4>1 DEF HasOpenPlan, Waits, Untouched
      <4>2. CASE task[j].plan # p
        <5>1. j # k
          BY <2>1, <4>2
        <5>2. Waits(task[j].plan)
          BY <1>o, <2>1, <3>1, <5>1 DEF Lane, Waiting
        <5> QED  BY <2>1, <2>4, <3>1, <4>2, <5>2 DEF HasOpenPlan, Waits, Untouched
      <4> QED  BY <4>1, <4>2
    <3> QED  BY <2>1, <2>5, <3>1 DEF Lane, Waiting
  <2>7. InHand'
    BY <1>o, <2>1 DEF InHand
  <2> QED  BY <2>6, <2>7 DEF Lane
<1>11. ASSUME NEW r \in Runners, RecordThreadState(r) PROVE Lane'
  <2> DEFINE row == [held[r].row EXCEPT !.seen = at[r].mail]
             k == held[r].id
  <2>1. /\ pc[r] = "state" /\ pc'[r] = "pick" /\ k \in Tasks /\ held[r].row = task[k]
        /\ Upsert(k, row) /\ UNCHANGED PlanVars
    BY <1>11, <1>a DEF RecordThreadState, Goto, TypeOK, Carries, HasTask, Lane, InHand, PlanVars
  <2>2. row \in Row /\ row.plan = task[k].plan /\ row.status = task[k].status
    <3>1. at[r].mail \in MailNumbers
      BY <1>a DEF TypeOK, Candidate
    <3> QED  BY <1>h, <2>1, <3>1 DEF Row
  <2> HIDE DEF row
  <2>3. \A j \in Tasks : task'[j] = IF j = k THEN row ELSE task[j]
    BY <1>a, <2>1, <2>2, UpsertType
  <2>4. \A j \in Tasks : /\ task'[j].plan = task[j].plan
                         /\ HasOpenPlan(j)' <=> HasOpenPlan(j)
    BY <2>2, <2>3 DEF HasOpenPlan, IsOpen
  <2>5. \A p \in Plans : Waits(p)' <=> Waits(p)
    BY <2>1 DEF Waits, Untouched, PlanVars
  <2>6. Waiting'
    BY <1>o, <2>1, <2>4, <2>5 DEF Lane, Waiting, Busy, HasOpenPlan
  <2>7. InHand'
    BY <1>o, <2>1 DEF InHand, HasTask
  <2> QED  BY <2>6, <2>7 DEF Lane
<1>12. ASSUME NEW r \in Runners, Decide(r) PROVE Lane'
  <2> DEFINE p == held[r].row.plan
             k == held[r].id
  <2>1. /\ pc[r] = "decide" /\ pc'[r] = "execute" /\ k \in Tasks /\ held[r].row = task[k]
        /\ p \in Plans /\ IsOpen(k) /\ step'[r] = 1
        /\ approval' = [approval EXCEPT ![p] = "approved"]
        /\ UNCHANGED <<task, executed, golden, shownAt, held>>
    BY <1>12, <1>a
    DEF Decide, Goto, TypeOK, Carries, Progress, HasTask, HasPlan, Paired, Lane, InHand
  <2>2. Waits(p)
    BY <1>o, <2>1 DEF Lane, Waiting, HasOpenPlan, Busy
  <2>3. \A o \in Plans \ {p} : Waits(o)' <=> Waits(o)
    BY <1>a, <2>1 DEF TypeOK, Waits, Untouched
  <2>4. \A j \in Tasks : (HasOpenPlan(j)' <=> HasOpenPlan(j)) /\ (IsOpen(j)' <=> IsOpen(j))
    BY <2>1 DEF HasOpenPlan, IsOpen
  <2>5. \A j \in Tasks \ {k} : HasOpenPlan(j) => task[j].plan # p /\ Waits(task[j].plan)
    BY <1>o, <2>1 DEF Lane, Waiting, HasOpenPlan, Busy
  <2>6. Waiting'
    <3>1. ASSUME NEW j \in Tasks, HasOpenPlan(j), j # k PROVE Waits(task[j].plan)'
      BY <2>1, <2>3, <2>5, <3>1 DEF HasOpenPlan
    <3> QED  BY <2>1, <2>4, <3>1 DEF Lane, Waiting, Busy
  <2>7. p \notin golden /\ RanOnce(p, 1)
    BY <2>2 DEF Waits, Untouched, RanOnce, Steps
  <2>8. InHand'
    BY <1>o, <2>1, <2>4, <2>7 DEF InHand, RanOnce
  <2> QED  BY <2>6, <2>8 DEF Lane
<1>13. ASSUME NEW r \in Runners, ExecuteAction(r) PROVE Lane'
  <2> DEFINE p == held[r].row.plan
             k == held[r].id
             n == step[r]
  <2>1. /\ pc[r] = "execute" /\ pc' = pc /\ k \in Tasks /\ held[r].row = task[k]
        /\ p \in Plans /\ IsOpen(k) /\ n \in Steps /\ step'[r] = n + 1
        /\ executed' = [executed EXCEPT ![p][n] = IF @ = 2 THEN 2 ELSE @ + 1]
        /\ UNCHANGED <<task, approval, golden, shownAt, held>>
    BY <1>13, <1>a, StepsAssumption
    DEF ExecuteAction, MoreActions, TypeOK, Carries, HasTask, HasPlan, Lane, InHand, Steps
  <2>2. p \notin golden /\ RanOnce(p, n)
    BY <2>1 DEF Lane, InHand
  <2>3. executed[p][n] = 0
    BY <2>1, <2>2 DEF RanOnce, Steps
  <2>4. /\ p \in Plans /\ n \in Steps /\ executed \in [Plans -> [Steps -> 0..2]]
        /\ executed' = [executed EXCEPT ![p] = [@ EXCEPT ![n] = 1]]
    <3>1. executed \in [Plans -> [Steps -> 0..2]]
      BY <1>a DEF TypeOK
    <3> QED  BY <2>1, <2>3, <3>1
  <2>5. \A s \in Steps : executed'[p][s] = IF s < n + 1 THEN 1 ELSE 0
    <3>1. \A s \in Steps : executed'[p][s] = IF s = n THEN 1 ELSE executed[p][s]
      BY <2>4
    <3>2. \A s \in Steps : executed[p][s] = IF s < n THEN 1 ELSE 0
      BY <2>2 DEF RanOnce
    <3> QED  BY <2>1, <3>1, <3>2, StepsAssumption DEF Steps
  <2>6. \A o \in Plans \ {p} : executed'[o] = executed[o]
    BY <2>4
  <2>7. UNCHANGED <<task, approval, golden, shownAt, held, pc>>
    BY <2>1
  <2>8. \A o \in Plans \ {p} : Waits(o)' <=> Waits(o)
    BY <2>6, <2>7 DEF Waits, Untouched
  <2>9. \A j \in Tasks : (HasOpenPlan(j)' <=> HasOpenPlan(j)) /\ (IsOpen(j)' <=> IsOpen(j))
    BY <2>7 DEF HasOpenPlan, IsOpen
  <2>10. \A j \in Tasks \ {k} : HasOpenPlan(j) => task[j].plan # p /\ Waits(task[j].plan)
    BY <1>o, <2>1 DEF Lane, Waiting, HasOpenPlan
  <2>11. Waiting'
    <3>1. ASSUME NEW j \in Tasks, HasOpenPlan(j), j # k PROVE Waits(task[j].plan)'
      BY <2>7, <2>8, <2>10, <3>1 DEF HasOpenPlan
    <3>2. pc[r] \in Busy
      BY <2>1 DEF Busy
    <3> QED  BY <2>7, <2>9, <3>1, <3>2 DEF Lane, Waiting
  <2>12. /\ pc[r] = "execute" /\ held[r].row = task[k] /\ IsOpen(k)' /\ step'[r] = n + 1
    BY <2>1, <2>9
  <2>13. InHand'
    BY <1>o, <2>2, <2>5, <2>7, <2>12 DEF InHand, RanOnce
  <2> QED  BY <2>11, <2>13 DEF Lane
<1>14. ASSUME NEW r \in Runners, SendDone(r) PROVE Lane'
  <2>1. /\ pc[r] = "execute" /\ pc'[r] = "complete" /\ step[r] = PlanSteps + 1
        /\ UNCHANGED <<PlanVars, task, held>>
    BY <1>14, <1>a, StepsAssumption DEF SendDone, MoreActions, Goto, TypeOK, PlanVars
  <2>2. \A j \in Tasks : (HasOpenPlan(j)' <=> HasOpenPlan(j)) /\ (IsOpen(j)' <=> IsOpen(j))
    BY <2>1 DEF HasOpenPlan, IsOpen
  <2>3. \A p \in Plans : Waits(p)' <=> Waits(p)
    BY <2>1 DEF Waits, Untouched, PlanVars
  <2>4. Waiting'
    BY <1>o, <2>1, <2>2, <2>3 DEF Lane, Waiting, Busy, HasOpenPlan
  <2>5. InHand'
    BY <1>o, <2>1 DEF Lane, InHand, RanOnce, HasTask, PlanVars, IsOpen
  <2> QED  BY <2>4, <2>5 DEF Lane
<1>15. ASSUME NEW r \in Runners, CompleteTask(r) PROVE Lane'
  <2> DEFINE row == Completed(held[r].row)
             k == held[r].id
  <2>1. /\ pc[r] = "complete" /\ pc'[r] = "golden" /\ k \in Tasks /\ UNCHANGED PlanVars
        /\ Upsert(k, row) /\ held' = [held EXCEPT ![r].row = row]
    BY <1>15, <1>a DEF CompleteTask, Goto, TypeOK, Carries, HasTask, PlanVars
  <2>2. row \in Row /\ row.plan = held[r].row.plan /\ row.status = "completed"
    BY <1>h, CompletedType DEF Completed, Row
  <2> HIDE DEF row
  <2>3. held'[r].row = row /\ held'[r].id = k
    BY <1>a, <2>1, <2>2, HeldRow
  <2>4. \A j \in Tasks : task'[j] = IF j = k THEN row ELSE task[j]
    BY <1>a, <2>1, <2>2, UpsertType
  <2>5. \A j \in Tasks : HasOpenPlan(j)' => j # k /\ HasOpenPlan(j)
    BY <2>1, <2>2, <2>4 DEF HasOpenPlan, IsOpen, OPEN_TASK_STATUSES
  <2>6. \A p \in Plans : Waits(p)' <=> Waits(p)
    BY <2>1 DEF Waits, Untouched, PlanVars
  <2>7. Waiting'
    <3>1. ASSUME NEW i \in Tasks, NEW j \in Tasks,
                 (HasOpenPlan(i) /\ HasOpenPlan(j) /\ task[i].plan = task[j].plan)'
          PROVE  i = j
      BY <2>4, <2>5, <3>1 DEF Lane, Waiting
    <3>2. ASSUME NEW j \in Tasks, HasOpenPlan(j)' PROVE Waits(task[j].plan)'
      <4>1. j # k /\ HasOpenPlan(j) /\ task'[j] = task[j]
        BY <2>4, <2>5, <3>2
      <4>2. Waits(task[j].plan)
        BY <1>o, <2>1, <4>1 DEF Lane, Waiting
      <4> QED  BY <2>1, <4>1, <4>2 DEF Waits, Untouched, PlanVars
    <3> QED  BY <3>1, <3>2 DEF Waiting
  <2>8. held[r].row.plan \notin golden /\ RanOnce(held[r].row.plan, PlanSteps + 1)
    BY <2>1 DEF Lane, InHand
  <2>9. InHand'
    BY <1>o, <2>1, <2>2, <2>3, <2>4, <2>8 DEF InHand, RanOnce, PlanVars
  <2> QED  BY <2>7, <2>9 DEF Lane
<1>16. ASSUME NEW r \in Runners, AppendGolden(r) PROVE Lane'
  <2> DEFINE p == held[r].row.plan
  <2>1. /\ pc[r] = "golden" /\ pc'[r] = "state" /\ golden' = golden \cup {p}
        /\ UNCHANGED <<task, approval, executed, shownAt, held>> /\ approval[p] = "approved"
    BY <1>16, <1>a DEF AppendGolden, Goto, TypeOK, Progress, Decided
  <2>2. \A j \in Tasks : (HasOpenPlan(j)' <=> HasOpenPlan(j)) /\ (IsOpen(j)' <=> IsOpen(j))
    BY <2>1 DEF HasOpenPlan, IsOpen
  <2>3. \A o \in Plans : Waits(o) => Waits(o)'
    BY <2>1 DEF Waits, Untouched
  <2>4. Waiting'
    BY <1>o, <2>1, <2>2, <2>3 DEF Lane, Waiting, Busy, HasOpenPlan
  <2>5. InHand'
    BY <1>o, <2>1 DEF Lane, InHand, HasTask
  <2> QED  BY <2>4, <2>5 DEF Lane
<1>17. ASSUME NEW r \in Runners PROVE ~Raise(r) /\ ~Crash(r)
  BY <1>a, BoundsAssumption DEF Raise, Crash, Faultless, TypeOK
<1>18. CASE UNCHANGED vars
  BY <1>18, <1>b DEF vars, PlanVars
<1> QED
  BY <1>1, <1>2, <1>3, <1>4, <1>5, <1>6, <1>7, <1>8, <1>9, <1>10, <1>11, <1>12,
     <1>13, <1>14, <1>15, <1>16, <1>17, <1>18 DEF Next, RunStep

LEMMA SamePhase ==
  ASSUME NEW p \in Plans, approval'[p] = approval[p], shownAt'[p] = shownAt[p],
         p \in golden' <=> p \in golden
  PROVE  Phase(p)' = Phase(p)
  BY DEF Phase

LEMMA MovesPhase ==
  ASSUME NEW p \in Plans, NEW from, NEW to, Phase(p) = from, Phase(p)' = to,
         UNCHANGED executed, \A o \in Plans \ {p} : Phase(o)' = Phase(o)
  PROVE  Abstract!Move(p, from, to)
  BY DEF Abstract!Move

Same == UNCHANGED <<[p \in Plans |-> Phase(p)], executed>>

\* What a step of the lane does to the plans is a step of the abstract life.
LEMMA LaneMaps ==
  ASSUME OneRunner, Inv, Lane, Faultless', [Next]_vars PROVE Abstract!Work \/ Same
<1>a. TypeOK /\ Carries /\ Progress
  BY DEF Inv, TypeInv
<1>h. \A r \in Runners : held[r].row \in Row
  BY <1>a DEF TypeOK, Held
<1>b. UNCHANGED PlanVars => Same
  BY SamePhase DEF Same, PlanVars
<1>1. ASSUME NEW r \in Runners, PlanNeedsApproval(r) PROVE Abstract!Work
  <2>1. PICK p \in Plans :
          /\ approval' = [approval EXCEPT ![p] = "pending"]
          /\ shownAt' = [shownAt EXCEPT ![p] = NotShown]
          /\ executed' = [executed EXCEPT ![p] = [s \in Steps |-> 0]]
          /\ golden' = golden \ {p}
    BY <1>1 DEF PlanNeedsApproval
  <2>2. Phase(p)' = "asked"
    BY <1>a, <2>1 DEF Phase, TypeOK
  <2>3. \A o \in Plans \ {p} : Phase(o)' = Phase(o)
    BY <1>a, <2>1, SamePhase DEF TypeOK
  <2>4. Abstract!Ask(p)
    BY <2>1, <2>2, <2>3 DEF Abstract!Ask, Steps, Abstract!Steps
  <2> QED  BY <2>4 DEF Abstract!Work
<1>2. ASSUME NEW r \in Runners, SendReply(r) PROVE Abstract!Work \/ Same
  <2>1. CASE held[r].row.plan \notin Plans
    BY <1>2, <1>b, <2>1 DEF SendReply, storeVars, PlanVars
  <2>2. ASSUME NEW p \in Plans, held[r].row.plan = p PROVE Abstract!Work
    <3>1. /\ shownAt' = [shownAt EXCEPT ![p] = Len(mail[at[r].thread])]
          /\ UNCHANGED <<approval, executed, golden>> /\ Asked(p)
      BY <1>2, <2>2 DEF SendReply, Goto, storeVars, Lane, InHand
    <3>2. Len(mail[at[r].thread]) # NotShown
      BY <1>a DEF TypeOK, Candidate, NotShown
    <3>3. Phase(p) = "asked" /\ Phase(p)' = "shown"
      BY <1>a, <3>1, <3>2 DEF Phase, Asked, Untouched, TypeOK
    <3>4. \A o \in Plans \ {p} : Phase(o)' = Phase(o)
      BY <1>a, <3>1, SamePhase DEF TypeOK
    <3>5. Abstract!Show(p)
      BY <3>1, <3>3, <3>4, MovesPhase DEF Abstract!Show
    <3> QED  BY <3>5 DEF Abstract!Work
  <2> QED  BY <2>1, <2>2
<1>3. ASSUME NEW r \in Runners, Decide(r) PROVE Abstract!Work
  <2> DEFINE p == held[r].row.plan
             k == held[r].id
  <2>1. /\ p \in Plans /\ k \in Tasks /\ held[r].row = task[k] /\ IsOpen(k)
        /\ pc[r] = "decide" /\ UNCHANGED <<executed, golden, shownAt>>
        /\ approval' = [approval EXCEPT ![p] = "approved"]
    BY <1>3, <1>a DEF Decide, Goto, Carries, HasTask, HasPlan, Paired, Lane, InHand
  <2>2. Waits(p)
    BY <2>1 DEF OneRunner, Lane, Waiting, HasOpenPlan, Busy
  <2> HIDE DEF p
  <2>3. PICK o \in Plans : o = p
    BY <2>1
  <2>4. Phase(o) = "shown" /\ Phase(o)' = "approved"
    BY <1>a, <2>1, <2>2, <2>3 DEF Phase, Waits, Untouched, TypeOK
  <2>5. \A q \in Plans \ {o} : Phase(q)' = Phase(q)
    BY <1>a, <2>1, <2>3, SamePhase DEF TypeOK
  <2>6. Abstract!Approve(o)
    BY <2>1, <2>4, <2>5, MovesPhase DEF Abstract!Approve
  <2> QED  BY <2>6 DEF Abstract!Work
<1>4. ASSUME NEW r \in Runners, ExecuteAction(r) PROVE Abstract!Work
  <2> DEFINE n == step[r]
  <2>1. PICK p \in Plans : p = held[r].row.plan
    BY <1>4, <1>a DEF ExecuteAction, Carries, HasPlan
  <2>2. /\ n \in Steps /\ UNCHANGED <<approval, golden, shownAt>>
        /\ executed' = [executed EXCEPT ![p][n] = IF @ = 2 THEN 2 ELSE @ + 1]
        /\ approval[p] = "approved" /\ p \notin golden /\ RanOnce(p, n)
    BY <1>4, <1>a, <2>1, StepsAssumption
    DEF ExecuteAction, MoreActions, storeVars, TypeOK, Steps, Progress, Decided, Lane, InHand
  <2>4. executed[p][n] = 0 /\ \A i \in 1..(n - 1) : executed[p][i] = 1
    BY <2>2, StepsAssumption DEF RanOnce, Steps
  <2>5. executed' = [executed EXCEPT ![p][n] = 1]
    BY <2>2, <2>4
  <2>6. Phase(p) = "approved"
    BY <1>a, <2>2 DEF Phase
  <2>7. UNCHANGED [o \in Plans |-> Phase(o)]
    BY <2>2, SamePhase
  <2>8. Abstract!RunAction(p, n)
    BY <2>4, <2>5, <2>6, <2>7 DEF Abstract!RunAction
  <2> QED  BY <2>2, <2>8 DEF Abstract!Work, Steps, Abstract!Steps
<1>5. ASSUME NEW r \in Runners, AppendGolden(r) PROVE Abstract!Work
  <2>1. PICK p \in Plans : p = held[r].row.plan
    BY <1>5, <1>a DEF AppendGolden, Goto, Carries, HasPlan
  <2>2. /\ golden' = golden \cup {p} /\ UNCHANGED <<approval, executed, shownAt>>
        /\ approval[p] = "approved" /\ p \notin golden /\ RanOnce(p, PlanSteps + 1)
    BY <1>5, <1>a, <2>1
    DEF AppendGolden, Goto, history, Progress, Decided, Lane, InHand
  <2>3. Phase(p) = "approved" /\ Phase(p)' = "closed"
    BY <2>2 DEF Phase
  <2>4. \A o \in Plans \ {p} : Phase(o)' = Phase(o)
    BY <2>2, SamePhase
  <2>5. \A s \in Abstract!Steps : executed[p][s] = 1
    BY <2>2, StepsAssumption DEF RanOnce, Steps, Abstract!Steps
  <2>6. Abstract!Close(p)
    BY <2>2, <2>3, <2>4, <2>5, MovesPhase DEF Abstract!Close
  <2> QED  BY <2>6 DEF Abstract!Work
<1>6. ASSUME NEW t \in Threads, NEW text \in Texts, OperatorMail(t, text) \/ FallsOffListing(t)
      PROVE  Same
  BY <1>6, <1>b DEF OperatorMail, FallsOffListing, storeVars, history, PlanVars
<1>7. ASSUME NEW r \in Runners,
             \/ StartRun(r) \/ PickApproval(r) \/ ApprovalWithoutRequest(r) \/ PickRequest(r)
             \/ PlanWithoutApproval(r) \/ UpsertTask(r) \/ RecordThreadState(r) \/ SendDone(r)
             \/ CompleteTask(r) \/ FinishRun(r)
      PROVE  Same
  <2>1. UNCHANGED PlanVars
    BY <1>7 DEF StartRun, PickApproval, ApprovalWithoutRequest, PickRequest,
      PlanWithoutApproval, UpsertTask, RecordThreadState, SendDone, CompleteTask, FinishRun,
      storeVars, history, PlanVars
  <2> QED  BY <1>b, <2>1
<1>8. ASSUME NEW r \in Runners PROVE ~Raise(r) /\ ~Crash(r)
  BY <1>a, BoundsAssumption DEF Raise, Crash, Faultless, TypeOK
<1>9. CASE UNCHANGED vars
  BY <1>9, <1>b DEF vars, storeVars, history, PlanVars
<1> QED
  BY <1>1, <1>2, <1>3, <1>4, <1>5, <1>6, <1>7, <1>8, <1>9 DEF Next, RunStep, Texts

\* A fault is never forgotten.
LEMMA FaultsStay == TypeOK /\ [Next]_vars /\ Faultless' => Faultless
<1> SUFFICES ASSUME TypeOK, [Next]_vars, Faultless' PROVE Faultless
  OBVIOUS
<1> USE DEF faults, Faultless
<1>1. ASSUME NEW r \in Runners, RunStep(r) PROVE UNCHANGED faults
  BY <1>1 DEF RunStep, StartRun, PickApproval, ApprovalWithoutRequest, PickRequest,
    PlanNeedsApproval, PlanWithoutApproval, UpsertTask, SendReply, RecordThreadState, Decide,
    ExecuteAction, SendDone, CompleteTask, AppendGolden, FinishRun
<1>2. ASSUME NEW r \in Runners PROVE ~Raise(r) /\ ~Crash(r)
  BY BoundsAssumption DEF Raise, Crash, TypeOK
<1>3. UNCHANGED faults
  BY <1>1, <1>2 DEF Next, OperatorMail, FallsOffListing, vars
<1> QED  BY <1>3

(***************************************************************************)
(* With one run at a time and until the first fault, whatever mail comes   *)
(* when, the lane implements the abstract life of a plan: it is asked and  *)
(* shown before it is approved, its actions run once each and in order,    *)
(* and only then is it closed (runner.py: _upsert_email_task, _send_reply, *)
(* _handle_email_approval).                                                *)
(***************************************************************************)
THEOREM LaneImplementsPlanApproval == OneRunner => (Spec => ImplementsPlanApproval)
<1> SUFFICES ASSUME OneRunner PROVE Spec => Abstract!Spec
  BY DEF ImplementsPlanApproval
<1>1. Init => Abstract!Init
  <2> SUFFICES ASSUME Init PROVE Abstract!Init
    OBVIOUS
  <2>1. \A p \in Plans : Phase(p) = "unused"
    BY DEF Init, Phase
  <2>2. (~Faultless) = FALSE
    BY DEF Init, Faultless
  <2>3. executed = [p \in Plans |-> [s \in Steps |-> 0]]
    BY DEF Init
  <2> QED  BY <2>1, <2>2, <2>3 DEF Abstract!Init, Steps, Abstract!Steps
<1>2. Init => (Faultless => Lane)
  BY SomeThreadType
  DEF Init, Lane, Waiting, InHand, HasOpenPlan, IsOpen, BlankRow, Busy, HasTask, OPEN_TASK_STATUSES
<1>3. Inv /\ (Faultless => Lane) /\ [Next]_vars => (Faultless => Lane)'
  BY LaneStep, FaultsStay DEF Inv, TypeInv
<1>4. Inv /\ (Faultless => Lane) /\ [Next]_vars => [Abstract!Next]_Abstract!vars
  <2> SUFFICES ASSUME Inv, Faultless => Lane, [Next]_vars PROVE [Abstract!Next]_Abstract!vars
    OBVIOUS
  <2>1. CASE ~Faultless'
    BY <2>1 DEF Abstract!Next
  <2>2. CASE Faultless'
    <3>1. Faultless
      BY <2>2, FaultsStay DEF Inv, TypeInv
    <3>2. Abstract!Work \/ Same
      BY <2>2, <3>1, LaneMaps
    <3>3. UNCHANGED (~Faultless)
      BY <2>2, <3>1
    <3> QED  BY <3>2, <3>3 DEF Same, Abstract!Next, Abstract!vars
  <2> QED  BY <2>1, <2>2
<1> QED  BY Invariance, <1>1, <1>2, <1>3, <1>4, PTL DEF Spec, Abstract!Spec

-----------------------------------------------------------------------------
(* What the refinement gives *)

\* No action of a plan ran twice, or before the one it comes after.
Ordered == \A p \in Plans : \A s \in Steps :
  /\ executed[p][s] \in {0, 1}
  /\ executed[p][s] = 1 => \A i \in 1..(s - 1) : executed[p][i] = 1

LEMMA OrderedStep ==
  ASSUME TypeOK, TypeOK', Ordered, Abstract!Work PROVE Ordered'
<1> USE DEF TypeOK, Steps, Abstract!Steps
<1>1. CASE UNCHANGED executed
  BY <1>1 DEF Ordered
<1>2. ASSUME NEW p \in Plans, Abstract!Ask(p) PROVE Ordered'
  <2>1. \A q \in Plans : \A s \in Steps : executed'[q][s] = IF q = p THEN 0 ELSE executed[q][s]
    BY <1>2 DEF Abstract!Ask
  <2> QED  BY <2>1, StepsAssumption DEF Ordered
<1>3. ASSUME NEW p \in Plans, NEW s \in Steps, Abstract!RunAction(p, s) PROVE Ordered'
  <2>1. \A q \in Plans : \A i \in Steps :
          executed'[q][i] = IF q = p /\ i = s THEN 1 ELSE executed[q][i]
    BY <1>3 DEF Abstract!RunAction
  <2>2. executed[p][s] = 0 /\ \A i \in 1..(s - 1) : executed[p][i] = 1
    BY <1>3 DEF Abstract!RunAction
  <2> QED  BY <2>1, <2>2, StepsAssumption DEF Ordered
<1> QED
  BY <1>1, <1>2, <1>3
  DEF Abstract!Work, Abstract!Show, Abstract!Approve, Abstract!Close, Abstract!Move

(***************************************************************************)
(* With one run at a time and until the first fault, no action of a plan   *)
(* runs twice or before an earlier one (runner.py:707), and a plan that is *)
(* in the golden dataset has run every action exactly once.                *)
(***************************************************************************)
RunsOnceInOrder ==
  Faultless => Ordered /\ \A p \in golden : \A s \in Steps : executed[p][s] = 1

THEOREM ActionsRunOnceInOrder == OneRunner => (Spec => []RunsOnceInOrder)
<1> SUFFICES ASSUME OneRunner PROVE Spec => []RunsOnceInOrder
  OBVIOUS
<1>1. Init => (Faultless => Ordered)
  BY DEF Init, Ordered
<1>2. ASSUME TypeOK, TypeOK', Faultless => Ordered, [Next]_vars,
             [Abstract!Next]_Abstract!vars
      PROVE  (Faultless => Ordered)'
  <2>1. Faultless' => Ordered
    BY <1>2, FaultsStay
  <2>2. Faultless' => Abstract!Work \/ UNCHANGED executed
    BY <1>2 DEF Abstract!Next, Abstract!vars
  <2>3. UNCHANGED executed /\ Ordered => Ordered'
    BY DEF Ordered
  <2> QED  BY <1>2, <2>1, <2>2, <2>3, OrderedStep
<1>3. TypeOK /\ GoldenIsExecuted /\ (Faultless => Ordered) => RunsOnceInOrder
  BY DEF TypeOK, GoldenIsExecuted, Ordered, RunsOnceInOrder
<1> QED
  BY TypeCorrect, GoldenPlansExecuted, LaneImplementsPlanApproval, <1>1, <1>2, <1>3, PTL
  DEF Spec, ImplementsPlanApproval, Abstract!Spec
=============================================================================
