--------------------------- MODULE EmailTaskPlane ---------------------------
(***************************************************************************)
(* The email-native task lane of the control plane: a run polls the        *)
(* operator's mail to SAI, plans an answer, asks for approval by email     *)
(* and, when the operator answers "approve", executes the approved plan.   *)
(*                                                                         *)
(*   app/control_plane/runner.py         run_workflow and the email lane   *)
(*   app/approvals/service.py            request_approval, decide          *)
(*   app/observability/run_store.py      the approvals and tasks tables    *)
(*   app/workers/sai_email_interaction.py                                  *)
(*                                                                         *)
(* Every durable effect of a run is an action of its own, because each is  *)
(* a separate SQLite transaction, Gmail send or workflow call: mail may    *)
(* arrive, another run may interleave, and an exception or a crash may     *)
(* strike between any two of them.                                         *)
(*                                                                         *)
(* Abstractions.  A mail is its text class (an approval word or anything   *)
(* else) and its number in the thread; SAI's replies are kept only as      *)
(* "the newest message of the thread is SAI's".  Logs, task events and     *)
(* task steps are write-only and left out.  Closed task rows and plans no  *)
(* row or run refers to are never read again, so their names are reused:   *)
(* that keeps the state finite without bounding the number of runs.        *)
(***************************************************************************)
EXTENDS Integers, Sequences, FiniteSets

CONSTANTS
  Threads,    \* Gmail threads addressed to SAI
  Runners,    \* processes or request handlers that can execute the workflow
  Tasks,      \* names of task rows
  Plans,      \* names of plans; an approval request is named by its plan
  NoTask,     \* "existing_task is None"
  NoPlan,     \* "no current_plan", "no approval_request_id"
  PlanSteps,  \* number of actions in a plan
  MaxEvents   \* bound: mails of a thread, exceptions and process deaths together

ASSUME ThreadsAssumption == Threads # {}
ASSUME NamesAssumption   == NoTask \notin Tasks /\ NoPlan \notin Plans
ASSUME StepsAssumption   == PlanSteps \in Nat \ {0}
ASSUME BoundsAssumption  == MaxEvents \in Nat

VARIABLES
  mail,       \* mail[t]: texts the operator sent in thread t, oldest first
  saiLast,    \* saiLast[t]: the newest message of thread t is SAI's reply
  listed,     \* listed[t]: the inbox query still returns thread t
  task,       \* the tasks table
  newer,      \* <<j, k>>: row j was updated after row k (updated_at)
  approval,   \* the approvals table
  shownAt,    \* history: operator mails in the thread when SAI first showed p
  approvedBy, \* history: number of the mail that approved the plan, or 0
  executed,   \* history: how often each action of a plan ran (2 = twice or more)
  golden,     \* plans in the golden dataset
  pc,         \* where each runner is
  runStatus,  \* the row of the runner's last run in the runs table
  todo,       \* candidates the run still has to handle
  at,         \* the candidate in hand
  held,       \* the task row in hand: its name and the value to be written
  step,       \* the next action of the plan in execution
  raises,     \* exceptions so far
  crashes     \* process deaths so far

storeVars == <<task, newer, approval, golden>>
mailVars  == <<mail, saiLast, listed>>
history   == <<shownAt, approvedBy, executed>>
runVars   == <<pc, runStatus, todo, at, held, step>>
faults    == <<raises, crashes>>
vars      == <<mailVars, storeVars, history, runVars, faults>>

-----------------------------------------------------------------------------
(* Values *)

Texts == {"approve", "other"}
OPEN_TASK_STATUSES == {"awaiting_information", "awaiting_approval", "in_progress"}
TaskStatuses == OPEN_TASK_STATUSES \cup {"none", "completed", "failed"}
RunStatuses == {"NONE", "RUNNING", "COMPLETED", "FAILED"}
Locations == {"idle", "pick", "plan", "upsert", "reply", "decide", "execute",
              "complete", "golden", "state"}
Steps == 1..PlanSteps
MailNumbers == 0..MaxEvents
NotShown == -1

Row == [thread: Threads, status: TaskStatuses, plan: Plans \cup {NoPlan},
        req: Plans \cup {NoPlan}, seen: MailNumbers]
Candidate == [thread: Threads, mail: MailNumbers]
Held == [id: Tasks \cup {NoTask}, row: Row]

TypeOK ==
  /\ mail \in [Threads -> Seq(Texts)]
  /\ \A t \in Threads : Len(mail[t]) <= MaxEvents
  /\ saiLast \in [Threads -> BOOLEAN]
  /\ listed \in [Threads -> BOOLEAN]
  /\ task \in [Tasks -> Row]
  /\ newer \subseteq Tasks \X Tasks
  /\ approval \in [Plans -> {"unused", "pending", "approved"}]
  /\ shownAt \in [Plans -> MailNumbers \cup {NotShown}]
  /\ approvedBy \in [Plans -> MailNumbers]
  /\ executed \in [Plans -> [Steps -> 0..2]]
  /\ golden \subseteq Plans
  /\ pc \in [Runners -> Locations]
  /\ runStatus \in [Runners -> RunStatuses]
  /\ todo \in [Runners -> SUBSET Candidate]
  /\ at \in [Runners -> Candidate]
  /\ held \in [Runners -> Held]
  /\ step \in [Runners -> 1..(PlanSteps + 1)]
  /\ raises \in 0..MaxEvents
  /\ crashes \in 0..MaxEvents

SomeThread == CHOOSE t \in Threads : TRUE
BlankRow(t) == [thread |-> t, status |-> "none", plan |-> NoPlan,
                req |-> NoPlan, seen |-> 0]
Nothing == [id |-> NoTask, row |-> BlankRow(SomeThread)]

IsOpen(k) == task[k].status \in OPEN_TASK_STATUSES
OpenTasks(t) == {k \in Tasks : IsOpen(k) /\ task[k].thread = t}

\* _find_open_task_for_thread: the open row of t with the latest updated_at.
FindsOpenTask(t, k) ==
  /\ k \in OpenTasks(t)
  /\ \A j \in OpenTasks(t) \ {k} : <<k, j>> \in newer

\* A row name that nothing reads any more, and a plan nothing refers to.
FreeTask(k) == ~IsOpen(k) /\ \A r \in Runners : held[r].id # k
FreePlan(p) ==
  /\ \A k \in Tasks : IsOpen(k) => task[k].plan # p /\ task[k].req # p
  /\ \A r \in Runners : held[r].row.plan # p /\ held[r].row.req # p

\* upsert_task: insert or overwrite the whole row and stamp updated_at.
Upsert(k, row) ==
  /\ task' = [task EXCEPT ![k] = row]
  /\ newer' = {pair \in newer : pair[1] # k /\ pair[2] # k}
                \cup {<<k, j>> : j \in Tasks \ {k}}

LooksLikeApproval(c) ==
  c.mail \in DOMAIN mail[c.thread] /\ mail[c.thread][c.mail] = "approve"

\* Mutant of IsCandidate: the pass over open threads is forgotten.
UnrefreshedCandidate(t) == mail[t] # <<>> /\ listed[t]

(***************************************************************************)
(* The candidates of a run: the newest listed message of each thread, or,  *)
(* in a thread with an open task, its newest message of all unless the     *)
(* task has processed it.  When that one is SAI's own reply the sender     *)
(* check skips it, so the thread contributes nothing.                      *)
(***************************************************************************)
IsCandidate(t) ==
  /\ mail[t] # <<>>
  /\ \/ OpenTasks(t) = {} /\ listed[t]
     \/ /\ OpenTasks(t) # {}
        /\ ~saiLast[t]
        /\ listed[t] \/ \E k \in OpenTasks(t) : task[k].seen # Len(mail[t])

Candidates == {[thread |-> t, mail |-> Len(mail[t])] :
                 t \in {u \in Threads : IsCandidate(u)}}

\* The row _upsert_email_task builds around a plan and its new request.
\* Mutant: a re-planned task keeps the approval request it already had.
PlannedUnderOldRequest(row, p) ==
  [row EXCEPT !.status = "awaiting_approval", !.plan = p,
              !.req = IF @ = NoPlan THEN p ELSE @]
Planned(row, p) ==
  [row EXCEPT !.status = "awaiting_approval", !.plan = p, !.req = p]

\* The row _handle_email_approval writes.  Mutant: its status is forgotten.
StillOpen(row) == row
Completed(row) == [row EXCEPT !.status = "completed"]

\* The loop over the plan's actions.  Mutant: one too few.
SkipsLastAction(r) == step[r] < PlanSteps
MoreActions(r) == step[r] <= PlanSteps

\* task_id: the existing task's, else a new one.  Mutant: always a new one.
AlwaysNewTask(r, k) == FreeTask(k)
TargetTask(r, k) == IF held[r].id = NoTask THEN FreeTask(k) ELSE k = held[r].id

Goto(r, here, there) == pc[r] = here /\ pc' = [pc EXCEPT ![r] = there]

EndRun(r, status) ==
  /\ pc' = [pc EXCEPT ![r] = "idle"]
  /\ runStatus' = [runStatus EXCEPT ![r] = status]
  /\ todo' = [todo EXCEPT ![r] = {}]
  /\ held' = [held EXCEPT ![r] = Nothing]
  /\ at' = [at EXCEPT ![r] = [thread |-> SomeThread, mail |-> 0]]
  /\ step' = [step EXCEPT ![r] = 1]

\* run_workflow's except clause.
FailRun(r) == EndRun(r, "FAILED")

-----------------------------------------------------------------------------
(* The environment: the operator's mail and Gmail's listing *)

OperatorMail(t, text) ==
  /\ Len(mail[t]) + raises + crashes < MaxEvents
  /\ mail' = [mail EXCEPT ![t] = Append(@, text)]
  /\ saiLast' = [saiLast EXCEPT ![t] = FALSE]
  /\ listed' = [listed EXCEPT ![t] = TRUE]
  /\ UNCHANGED <<storeVars, history, runVars, faults>>

\* Newer threads push t out of the first max_results of the query.
FallsOffListing(t) ==
  /\ listed[t]
  /\ listed' = [listed EXCEPT ![t] = FALSE]
  /\ UNCHANGED <<mail, saiLast, storeVars, history, runVars, faults>>

-----------------------------------------------------------------------------
(* A run *)

StartRun(r) ==
  /\ Goto(r, "idle", "pick")
  /\ runStatus' = [runStatus EXCEPT ![r] = "RUNNING"]
  /\ todo' = [todo EXCEPT ![r] = Candidates]
  /\ UNCHANGED <<mailVars, storeVars, history, at, held, step, faults>>

Take(r, c, h) ==
  /\ todo' = [todo EXCEPT ![r] = @ \ {c}]
  /\ at' = [at EXCEPT ![r] = c]
  /\ held' = [held EXCEPT ![r] = h]
  /\ UNCHANGED <<runStatus, step>>

\* An approval word in a thread with an open task: go to _handle_email_approval.
PickApproval(r) ==
  /\ Goto(r, "pick", "decide")
  /\ \E c \in todo[r] : \E k \in Tasks :
       /\ LooksLikeApproval(c)
       /\ FindsOpenTask(c.thread, k)
       /\ task[k].req # NoPlan
       /\ Take(r, c, [id |-> k, row |-> task[k]])
  /\ UNCHANGED <<mailVars, storeVars, history, faults>>

\* The open task has no approval request: ValueError, and the run fails.
ApprovalWithoutRequest(r) ==
  /\ pc[r] = "pick"
  /\ \E c \in todo[r] : \E k \in Tasks :
       /\ LooksLikeApproval(c)
       /\ FindsOpenTask(c.thread, k)
       /\ task[k].req = NoPlan
  /\ FailRun(r)
  /\ UNCHANGED <<mailVars, storeVars, history, faults>>

\* Anything else goes to the planner, with the open task, if any, in hand.
PickRequest(r) ==
  /\ Goto(r, "pick", "plan")
  /\ \E c \in todo[r] :
       \/ /\ OpenTasks(c.thread) = {}
          /\ Take(r, c, [id |-> NoTask, row |-> BlankRow(c.thread)])
       \/ /\ ~LooksLikeApproval(c)
          /\ \E k \in Tasks :
               /\ FindsOpenTask(c.thread, k)
               /\ Take(r, c, [id |-> k, row |-> task[k]])
  /\ UNCHANGED <<mailVars, storeVars, history, faults>>

\* The planner answers "ask_approval": a pending approval request is created.
PlanNeedsApproval(r) ==
  /\ Goto(r, "plan", "upsert")
  /\ \E p \in Plans :
       /\ FreePlan(p)
       /\ approval' = [approval EXCEPT ![p] = "pending"]
       /\ shownAt' = [shownAt EXCEPT ![p] = NotShown]
       /\ approvedBy' = [approvedBy EXCEPT ![p] = 0]
       /\ executed' = [executed EXCEPT ![p] = [s \in Steps |-> 0]]
       /\ golden' = golden \ {p}
       /\ held' = [held EXCEPT ![r].row = Planned(@, p)]
  /\ UNCHANGED <<mailVars, task, newer, runStatus, todo, at, step, faults>>

\* Any other response mode: no plan, and the old approval request is dropped.
PlanWithoutApproval(r) ==
  /\ Goto(r, "plan", "upsert")
  /\ \E status \in {"awaiting_information", "completed", "failed"} :
       held' = [held EXCEPT ![r].row =
                  [@ EXCEPT !.status = status, !.plan = NoPlan, !.req = NoPlan]]
  /\ UNCHANGED <<mailVars, storeVars, history, runStatus, todo, at, step, faults>>

UpsertTask(r) ==
  /\ Goto(r, "upsert", "reply")
  /\ \E k \in Tasks :
       /\ TargetTask(r, k)
       /\ Upsert(k, held[r].row)
       /\ held' = [held EXCEPT ![r].id = k]
  /\ UNCHANGED <<mailVars, approval, golden, history, runStatus, todo, at,
                 step, faults>>

\* The reply shows the plan and is now the newest message of the thread.
SendReply(r) ==
  LET t == at[r].thread
      p == held[r].row.plan
  IN
  /\ Goto(r, "reply", "state")
  /\ saiLast' = [saiLast EXCEPT ![t] = TRUE]
  /\ shownAt' = IF p \in Plans
                THEN [shownAt EXCEPT ![p] = Len(mail[t])]
                ELSE shownAt
  /\ UNCHANGED <<mail, listed, storeVars, approvedBy, executed, runStatus,
                 todo, at, held, step, faults>>

\* _record_task_thread_state writes the whole row again, from the copy in hand.
RecordThreadState(r) ==
  /\ Goto(r, "state", "pick")
  /\ Upsert(held[r].id, [held[r].row EXCEPT !.seen = at[r].mail])
  /\ held' = [held EXCEPT ![r] = Nothing]
  /\ UNCHANGED <<mailVars, approval, golden, history, runStatus, todo, at,
                 step, faults>>

-----------------------------------------------------------------------------
(* _handle_email_approval *)

\* decide(approved=True) does not look at the request's present status.
Decide(r) ==
  LET q == held[r].row.req IN
  /\ Goto(r, "decide", "execute")
  /\ approval' = [approval EXCEPT ![q] = "approved"]
  /\ approvedBy' = [approvedBy EXCEPT ![q] = at[r].mail]
  /\ UNCHANGED <<mailVars, task, newer, golden, shownAt, executed, runStatus,
                 todo, at, held, step, faults>>

\* One action of the plan: a nested workflow run or a Slack post.
ExecuteAction(r) ==
  LET p == held[r].row.plan
      s == step[r]
  IN
  /\ pc[r] = "execute"
  /\ MoreActions(r)
  /\ executed' = [executed EXCEPT ![p][s] = IF @ = 2 THEN 2 ELSE @ + 1]
  /\ step' = [step EXCEPT ![r] = s + 1]
  /\ UNCHANGED <<mailVars, storeVars, shownAt, approvedBy, pc, runStatus,
                 todo, at, held, faults>>

SendDone(r) ==
  /\ Goto(r, "execute", "complete")
  /\ ~MoreActions(r)
  /\ saiLast' = [saiLast EXCEPT ![at[r].thread] = TRUE]
  /\ step' = [step EXCEPT ![r] = 1]
  /\ UNCHANGED <<mail, listed, storeVars, history, runStatus, todo, at, held,
                 faults>>

CompleteTask(r) ==
  LET row == Completed(held[r].row) IN
  /\ Goto(r, "complete", "golden")
  /\ Upsert(held[r].id, row)
  /\ held' = [held EXCEPT ![r].row = row]
  /\ UNCHANGED <<mailVars, approval, golden, history, runStatus, todo, at,
                 step, faults>>

AppendGolden(r) ==
  /\ Goto(r, "golden", "state")
  /\ golden' = golden \cup {held[r].row.plan}
  /\ UNCHANGED <<mailVars, task, newer, approval, history, runStatus, todo,
                 at, held, step, faults>>

FinishRun(r) ==
  /\ pc[r] = "pick"
  /\ todo[r] = {}
  /\ EndRun(r, "COMPLETED")
  /\ UNCHANGED <<mailVars, storeVars, history, faults>>

-----------------------------------------------------------------------------
(* Faults *)

FaultAllowed == \A t \in Threads : Len(mail[t]) + raises + crashes < MaxEvents

\* Any call may raise: the handler records FAILED and the run is over.
Raise(r) ==
  /\ pc[r] # "idle"
  /\ FaultAllowed
  /\ raises' = raises + 1
  /\ FailRun(r)
  /\ UNCHANGED <<mailVars, storeVars, history, crashes>>

\* The process dies: its run row stays RUNNING, nothing recovers it.
Crash(r) ==
  /\ pc[r] # "idle"
  /\ FaultAllowed
  /\ crashes' = crashes + 1
  /\ EndRun(r, runStatus[r])
  /\ UNCHANGED <<mailVars, storeVars, history, raises>>

-----------------------------------------------------------------------------

Init ==
  /\ mail = [t \in Threads |-> <<>>]
  /\ saiLast = [t \in Threads |-> FALSE]
  /\ listed = [t \in Threads |-> FALSE]
  /\ task = [k \in Tasks |-> BlankRow(SomeThread)]
  /\ newer = {}
  /\ approval = [p \in Plans |-> "unused"]
  /\ shownAt = [p \in Plans |-> NotShown]
  /\ approvedBy = [p \in Plans |-> 0]
  /\ executed = [p \in Plans |-> [s \in Steps |-> 0]]
  /\ golden = {}
  /\ pc = [r \in Runners |-> "idle"]
  /\ runStatus = [r \in Runners |-> "NONE"]
  /\ todo = [r \in Runners |-> {}]
  /\ at = [r \in Runners |-> [thread |-> SomeThread, mail |-> 0]]
  /\ held = [r \in Runners |-> Nothing]
  /\ step = [r \in Runners |-> 1]
  /\ raises = 0
  /\ crashes = 0

RunStep(r) ==
  \/ StartRun(r)
  \/ PickApproval(r)
  \/ ApprovalWithoutRequest(r)
  \/ PickRequest(r)
  \/ PlanNeedsApproval(r)
  \/ PlanWithoutApproval(r)
  \/ UpsertTask(r)
  \/ SendReply(r)
  \/ RecordThreadState(r)
  \/ Decide(r)
  \/ ExecuteAction(r)
  \/ SendDone(r)
  \/ CompleteTask(r)
  \/ AppendGolden(r)
  \/ FinishRun(r)

Next ==
  \/ \E t \in Threads, text \in Texts : OperatorMail(t, text)
  \/ \E t \in Threads : FallsOffListing(t)
  \/ \E r \in Runners : RunStep(r) \/ Raise(r) \/ Crash(r)

Spec == Init /\ [][Next]_vars

\* The scheduler keeps starting runs and a started run keeps going.
Fairness == \A r \in Runners : WF_vars(RunStep(r))
FairSpec == Spec /\ Fairness

-----------------------------------------------------------------------------
(* Safety *)

Faultless == raises + crashes = 0

Touched(p) == \E s \in Steps : executed[p][s] > 0

(***************************************************************************)
(* No action of a plan ever runs unless the approval request made for that *)
(* very plan has been decided "approved" (decide comes before              *)
(* _execute_task_plan, and a task's plan and request change together),     *)
(* whatever crashes, retries and overlapping runs do.                      *)
(***************************************************************************)
ExecutesOnlyApprovedPlans == \A p \in Plans : Touched(p) => approval[p] = "approved"

(***************************************************************************)
(* A thread has at most one open task, so _find_open_task_for_thread is    *)
(* never ambiguous.  Holds for one run at a time, through any faults.      *)
(***************************************************************************)
OneOpenTaskPerThread == \A t \in Threads : Cardinality(OpenTasks(t)) <= 1

(***************************************************************************)
(* The golden dataset only records plans that were approved and executed   *)
(* to the end (docs/system_inventory.md: "only records interactions that   *)
(* actually reach approval/closure").                                      *)
(***************************************************************************)
GoldenIsExecuted ==
  \A p \in golden : approval[p] = "approved" /\ \A s \in Steps : executed[p][s] > 0

(***************************************************************************)
(* A run that raised or finished leaves a final status behind; only a      *)
(* process death leaves RUNNING in the runs table (run_workflow's          *)
(* except clause covers every step of the lane).                           *)
(***************************************************************************)
FinishedRunsAreRecorded ==
  \A r \in Runners : pc[r] = "idle" /\ crashes = 0 => runStatus[r] # "RUNNING"

-----------------------------------------------------------------------------
(* Liveness *)

NewestIsApproval(t) ==
  mail[t] # <<>> /\ ~saiLast[t] /\ mail[t][Len(mail[t])] = "approve"

AwaitsApproval(t) ==
  \E k \in OpenTasks(t) : task[k].status = "awaiting_approval"

\* An approval word in a thread whose open task has no approval request: the
\* run that meets it fails, and so does every run after it.
Blocked ==
  \E t \in Threads : NewestIsApproval(t) /\
    \E k \in OpenTasks(t) : task[k].req = NoPlan

(***************************************************************************)
(* An approval the operator sent in answer to SAI's question is acted on,  *)
(* unless a newer mail in the thread overtakes it or some thread blocks    *)
(* every run.                                                              *)
(***************************************************************************)
ApprovalIsHonoured ==
  \A t \in Threads :
    (NewestIsApproval(t) /\ AwaitsApproval(t))
      ~> (~AwaitsApproval(t) \/ ~NewestIsApproval(t) \/ Blocked)

(***************************************************************************)
(* A plan whose approval request is approved does not stay open for good.  *)
(* PRINCIPLES.md, principle 3: "Crashes, restarts, reboots leave approvals *)
(* intact and resumable."  Holds without faults: after one between the     *)
(* Done reply and the closing of the task, every run finds SAI's own reply *)
(* as the newest message of the thread and skips it.                       *)
(***************************************************************************)
ApprovedPlanIsResumed ==
  \A p \in Plans :
    (approval[p] = "approved") ~>
      (~Faultless \/ approval[p] = "pending" \/ \A k \in Tasks : IsOpen(k) => task[k].plan # p)

-----------------------------------------------------------------------------
(* Implementation of the abstract specification *)

Phase(p) ==
  CASE p \in golden              -> "closed"
    [] approval[p] = "unused"     -> "unused"
    [] p \notin golden /\ approval[p] = "approved" -> "approved"
    [] approval[p] = "pending" /\ shownAt[p] # NotShown -> "shown"
    [] OTHER                      -> "asked"

Abstract == INSTANCE PlanApproval WITH
  phase  <- [p \in Plans |-> Phase(p)],
  ran    <- executed,
  broken <- ~Faultless

(***************************************************************************)
(* One run at a time and until the first fault, the lane implements the    *)
(* abstract life of a plan: asked, shown, approved, executed once in       *)
(* order, closed.                                                          *)
(***************************************************************************)
ImplementsPlanApproval == Abstract!Spec
=============================================================================
