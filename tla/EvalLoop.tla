------------------------------- MODULE EvalLoop -------------------------------
(***************************************************************************)
(* The evaluation loop of one task: the cascade writes a record per input  *)
(* (app/runtime/ai_stack/runner.py), the orchestrator asks the operator    *)
(* about pending records within a daily budget (app/eval/orchestrator.py), *)
(* the reconciler looks for reality (app/eval/reconciler.py), the poller   *)
(* takes replies to asks (app/eval/reconcilers/ask_reply.py).              *)
(*                                                                         *)
(* Records and asks live in append-only logs; every program reads a fold   *)
(* of the log, decides, and appends changed copies.  The model keeps of a  *)
(* log its folds: the last line of each record, and which record wrote the *)
(* last line of each input.                                                *)
(*                                                                         *)
(* Abstractions.  One bucket; a record's priority is whether its tiers     *)
(* disagree and whether the bucket is still thin.  An ask's answer is the  *)
(* first human reply of its thread.  Time is a counter of days.            *)
(***************************************************************************)
EXTENDS Integers, FiniteSets, Sequences

CONSTANTS
  Inputs,        \* message ids
  Budget,        \* asks the orchestrator may post in a budget window
  BudgetWindow, AskWindow, RecordWindow,  \* in days
  Enough,        \* ground truth from which on only disagreement is worth an ask
  MaxRuns,       \* bound: how often an input is processed
  MaxAsks,       \* bound: asks
  MaxTime, LastRun, \* bounds: last day, last day inputs are processed
  MaxCrashes     \* bound: programs that die

ASSUME WindowAssumption ==
  {Budget, BudgetWindow, AskWindow, RecordWindow, Enough} \subseteq Nat
ASSUME BoundsAssumption == {MaxRuns, MaxAsks, MaxTime, LastRun, MaxCrashes} \subseteq Nat

VARIABLES
  rec,        \* the last line of each record in records.jsonl
  top,        \* which record of an input wrote its last line
  ask,        \* the last line of each ask in asks.jsonl
  replies,    \* the operator's replies in the ask's Slack thread
  mail,       \* whose label the message has in Gmail
  now,
  line,       \* cascade, orchestrator: a posted ask's record, to be appended
  review,     \* orchestrator: lines it has read and still to look at
  scan,       \* reconciler: the same, and the day it started
  polled,     \* poller: open asks it has read and still to look at, and the day
  answering,  \* poller: the answered ask to propagate
  crashes

logs     == <<rec, top, ask>>
operator == <<replies, mail>>
programs == <<line, review, scan, polled, answering>>
vars     == <<logs, operator, now, programs, crashes>>

Records  == Inputs \X (1..MaxRuns)
Asks     == 1..MaxAsks
NoAsk    == 0
Reconcilers == {"gmail", "asks"}
\* A "skip" is a valid reply like any other.
Answers  == {"reply", "invalid"}
Reality  == {"none", "own", "operator", "reply"}
Statuses == {"none", "PENDING", "OBSERVED", "ASKED", "ANSWERED", "SKIPPED"}
Rec      == [status : Statuses, ask : Asks \cup {NoAsk}, reality : Reality,
             born : 0..MaxTime, disagree : BOOLEAN]
NoRec    == [status |-> "none", ask |-> NoAsk, reality |-> "none", born |-> 0,
             disagree |-> FALSE]
Lines    == [at : Records, val : Rec]
NoLine   == [at |-> <<>>, val |-> NoRec]
NoReview == [lines |-> {}, left |-> 0, thin |-> FALSE]
NoScan   == [lines |-> {}, kind |-> "none", day |-> 0]
NoPoll   == [asks |-> {}, day |-> 0]
Ask      == [status : {"none", "open", "answered", "expired"}, posted : 0..MaxTime,
             about : Inputs \cup {"none"}, by : {"none", "cascade", "orchestrator"}]

\* The fields have the values the code gives them (record.py, ask.py).
TypeOK ==
  /\ rec \in [Records -> Rec]
  /\ top \in [Inputs -> 0..MaxRuns]
  /\ ask \in [Asks -> Ask]
  /\ replies \in [Asks -> Seq(Answers)]
  /\ mail \in [Inputs -> {"none", "own", "operator"}]
  /\ now \in 0..MaxTime /\ crashes \in 0..MaxCrashes
  /\ line \in [{"cascade", "orchestrator"} -> Lines \cup {NoLine}]
  /\ review \in [lines : SUBSET Lines, left : Int, thin : BOOLEAN]
  /\ scan \in [lines : SUBSET Lines, kind : Reconcilers \cup {"none"}, day : 0..MaxTime]
  /\ polled \in [asks : SUBSET Asks, day : 0..MaxTime]
  /\ answering \in Asks \cup {NoAsk}

-----------------------------------------------------------------------------
(* The logs *)

\* _latest_records_per_input.
Folded == {[at |-> <<i, top[i]>>, val |-> rec[<<i, top[i]>>]] :
             i \in {j \in Inputs : top[j] > 0}}

Write(r, v) ==
  /\ rec' = [rec EXCEPT ![r] = v]
  /\ top' = [top EXCEPT ![r[1]] = r[2]]

IsTruth(v) == v.reality # "none"
Skipped(v) == [v EXCEPT !.status = "SKIPPED"]
WithReality(v, what) ==
  [v EXCEPT !.reality = what,
            !.status = IF what = "reply" THEN "ANSWERED" ELSE "OBSERVED"]

LinkedTo(v, a) == [v EXCEPT !.ask = a, !.status = "ASKED"]

\* SlackAskUI.post_ask: the ask is posted and persisted as open.
NextAsk == 1 + Cardinality({a \in Asks : ask[a].status # "none"})
PostAsk(i, program) ==
  /\ NextAsk \in Asks
  /\ ask' = [ask EXCEPT ![NextAsk] = [status |-> "open", posted |-> now,
                                     about |-> i, by |-> program]]

SetAsk(a, status) == ask' = [ask EXCEPT ![a].status = status]

-----------------------------------------------------------------------------
(* Programs.  "The runtime should ensure single-writer-per-task"           *)
(* (storage.py:13-14): one starts when no other is active.                 *)

Active == (IF line["cascade"] # NoLine THEN {"cascade"} ELSE {})
     \cup (IF line["orchestrator"] # NoLine \/ review # NoReview THEN {"orchestrator"} ELSE {})
     \cup (IF scan # NoScan THEN {"reconciler"} ELSE {})
     \cup (IF polled # NoPoll \/ answering # NoAsk THEN {"poller"} ELSE {})

MayStart == Active = {}

(* TieredTaskRunner.run *)

NewRecord(i) == <<i, 1 + Cardinality({k \in 1..MaxRuns : rec[<<i, k>>] # NoRec})>>
Processes(i) == MayStart /\ now <= LastRun /\ NewRecord(i) \in Records

\* A tier resolves the input, or the active tier's output is used; the
\* caller labels the message.
Resolve(i) ==
  /\ Processes(i)
  /\ \E d \in BOOLEAN :
       Write(NewRecord(i), [NoRec EXCEPT !.status = "PENDING", !.born = now, !.disagree = d])
  /\ mail' = [mail EXCEPT ![i] = "own"]
  /\ UNCHANGED <<ask, replies, now, programs, crashes>>

\* Every tier abstains, the policy is ASK_HUMAN; HumanTier posts an ask.
Escalate(i) ==
  /\ Processes(i)
  /\ PostAsk(i, "cascade")
  /\ line' = [line EXCEPT !["cascade"] =
       [at |-> NewRecord(i),
        val |-> LinkedTo([NoRec EXCEPT !.born = now], NextAsk)]]
  /\ UNCHANGED <<rec, top, operator, now, review, scan, polled, answering, crashes>>

\* The record that carries the link is appended after the ask is posted.
Link(program) ==
  /\ line[program] # NoLine
  /\ Write(line[program].at, line[program].val)
  /\ line' = [line EXCEPT ![program] = NoLine]
  /\ UNCHANGED <<ask, operator, now, review, scan, polled, answering, crashes>>

(* AskOrchestrator.review_pending *)

Candidates == {l \in Folded : l.val.status = "PENDING" /\ l.val.ask = NoAsk /\ ~IsTruth(l.val)}

\* Mutant of RecentAsks: only asks that are still open count.
OpenAsks == {a \in Asks : ask[a].status = "open"}
RecentAsks == {a \in Asks : ask[a].status # "none" /\ ask[a].posted >= now - BudgetWindow}

Review ==
  /\ MayStart
  /\ Candidates # {}
  /\ review' = [lines |-> Candidates,
                left |-> Budget - Cardinality(RecentAsks),
                thin |-> Cardinality({l \in Folded : IsTruth(l.val)}) < Enough]
  /\ UNCHANGED <<logs, operator, now, line, scan, polled, answering, crashes>>

LookedAt(l, left) ==
  LET rest == review.lines \ {l} IN
  review' = IF rest = {} THEN NoReview ELSE [review EXCEPT !.lines = rest, !.left = left]

\* Candidates are taken in the order of their priority.
ComesNext(l) == l \in review.lines /\ (l.val.disagree \/ \A m \in review.lines : ~m.val.disagree)
WorthAsking(l) == review.thin \/ l.val.disagree

SkipCandidate(l) ==
  /\ ~WorthAsking(l)
  /\ Write(l.at, Skipped(l.val))
  /\ LookedAt(l, review.left)
  /\ UNCHANGED <<ask, line>>

LeaveCandidate(l) ==
  /\ WorthAsking(l) /\ review.left <= 0
  /\ LookedAt(l, review.left)
  /\ UNCHANGED <<logs, line>>

AskAboutCandidate(l) ==
  /\ WorthAsking(l) /\ review.left > 0
  /\ PostAsk(l.at[1], "orchestrator")
  /\ line' = [line EXCEPT !["orchestrator"] = [l EXCEPT !.val = LinkedTo(@, NextAsk)]]
  /\ LookedAt(l, review.left - 1)
  /\ UNCHANGED <<rec, top>>

ReviewNext ==
  /\ line["orchestrator"] = NoLine
  /\ \E l \in review.lines :
       ComesNext(l) /\ (SkipCandidate(l) \/ LeaveCandidate(l) \/ AskAboutCandidate(l))
  /\ UNCHANGED <<operator, now, scan, polled, answering, crashes>>

(* RealityReconciliationRunner.run_for_task *)

Unsettled == {l \in Folded : ~IsTruth(l.val)}

StartScan(kind) ==
  /\ MayStart
  /\ Unsettled # {}
  /\ scan' = [lines |-> Unsettled, kind |-> kind, day |-> now]
  /\ UNCHANGED <<logs, operator, now, line, review, polled, answering, crashes>>

\* Mutant of WindowIsOver: only a pending record can run out of its window.
PendingIsOver(l) == scan.day > l.val.born + RecordWindow /\ l.val.status = "PENDING"
WindowIsOver(l) == scan.day > l.val.born + RecordWindow

\* GmailLabelReconciler and AskReplyReconciler.reconcile_one.
Observed(l) ==
  IF scan.kind = "gmail" THEN mail[l.at[1]]
  ELSE IF l.val.ask # NoAsk /\ ask[l.val.ask].status = "answered" THEN replies[l.val.ask][1]
  ELSE "none"

ScanNext ==
  /\ \E l \in scan.lines :
       /\ \/ WindowIsOver(l) /\ Write(l.at, Skipped(l.val))
          \/ /\ ~WindowIsOver(l) /\ Observed(l) # "none"
             /\ Write(l.at, WithReality(l.val, Observed(l)))
          \/ ~WindowIsOver(l) /\ Observed(l) = "none" /\ UNCHANGED <<rec, top>>
       /\ scan' = IF scan.lines = {l} THEN NoScan ELSE [scan EXCEPT !.lines = @ \ {l}]
  /\ UNCHANGED <<ask, operator, now, line, review, polled, answering, crashes>>

(* AskReplyReconciler.poll_open_asks *)

Poll ==
  /\ MayStart
  /\ OpenAsks # {}
  /\ polled' = [asks |-> OpenAsks, day |-> now]
  /\ UNCHANGED <<logs, operator, now, line, review, scan, answering, crashes>>

AskIsOver(a) == polled.day > ask[a].posted + AskWindow
HasAnswer(a) == replies[a] # <<>> /\ replies[a][1] # "invalid"

ExpireAsk(a) == AskIsOver(a) /\ SetAsk(a, "expired") /\ UNCHANGED answering
LeaveAskOpen(a) == ~AskIsOver(a) /\ ~HasAnswer(a) /\ UNCHANGED <<ask, answering>>
TakeAnswer(a) == ~AskIsOver(a) /\ HasAnswer(a) /\ SetAsk(a, "answered") /\ answering' = a

PollNext ==
  /\ answering = NoAsk
  /\ \E a \in polled.asks :
       /\ ExpireAsk(a) \/ LeaveAskOpen(a) \/ TakeAnswer(a)
       /\ polled' = IF polled.asks = {a} THEN NoPoll ELSE [polled EXCEPT !.asks = @ \ {a}]
  /\ UNCHANGED <<rec, top, operator, now, line, review, scan, crashes>>

\* Mutant of AnswersTo: also records that have their ground truth.
AllLinkedTo(a) == {r \in Records : rec[r].ask = a}
\* Mutant of AnswersTo: only records that still wait for the answer.
WaitingFor(a) == {r \in Records : rec[r].ask = a /\ rec[r].status = "ASKED"}
AnswersTo(a) == {r \in Records : rec[r].ask = a /\ ~IsTruth(rec[r])}

\* At most one record is linked to an ask.
Propagate ==
  /\ answering # NoAsk
  /\ IF AnswersTo(answering) = {} THEN UNCHANGED <<rec, top>>
     ELSE \E r \in AnswersTo(answering) : Write(r, WithReality(rec[r], replies[answering][1]))
  /\ answering' = NoAsk
  /\ UNCHANGED <<ask, operator, now, line, review, scan, polled, crashes>>

-----------------------------------------------------------------------------
(* The operator, time and faults *)

\* A valid reply ends the thread; an invalid one gets a clarification.
Reply(a) ==
  /\ ask[a].status # "none"
  /\ replies[a] \in {<<>>, <<"invalid">>}
  /\ \E x \in Answers : replies' = [replies EXCEPT ![a] = Append(@, x)]
  /\ UNCHANGED <<logs, mail, now, programs, crashes>>

Relabel(i) ==
  /\ top[i] > 0 /\ mail[i] # "operator"
  /\ mail' = [mail EXCEPT ![i] = "operator"]
  /\ UNCHANGED <<logs, replies, now, programs, crashes>>

Tick ==
  /\ now < MaxTime
  /\ now' = now + 1
  /\ UNCHANGED <<logs, operator, programs, crashes>>

\* A program dies: whatever it had read is gone.
Crash(program) ==
  /\ crashes < MaxCrashes
  /\ crashes' = crashes + 1
  /\ program \in Active
  /\ line' = IF program \in DOMAIN line THEN [line EXCEPT ![program] = NoLine] ELSE line
  /\ review' = IF program = "orchestrator" THEN NoReview ELSE review
  /\ scan' = IF program = "reconciler" THEN NoScan ELSE scan
  /\ polled' = IF program = "poller" THEN NoPoll ELSE polled
  /\ answering' = IF program = "poller" THEN NoAsk ELSE answering
  /\ UNCHANGED <<logs, operator, now>>

-----------------------------------------------------------------------------

Init ==
  /\ rec = [r \in Records |-> NoRec] /\ top = [i \in Inputs |-> 0]
  /\ ask = [a \in Asks |-> [status |-> "none", posted |-> 0, about |-> "none", by |-> "none"]]
  /\ replies = [a \in Asks |-> <<>>] /\ mail = [i \in Inputs |-> "none"]
  /\ now = 0 /\ crashes = 0
  /\ line = [p \in {"cascade", "orchestrator"} |-> NoLine]
  /\ review = NoReview /\ scan = NoScan /\ polled = NoPoll /\ answering = NoAsk

Programs == {"cascade", "orchestrator", "reconciler", "poller"}

Next ==
  \/ \E i \in Inputs : Resolve(i) \/ Escalate(i) \/ Relabel(i)
  \/ \E p \in DOMAIN line : Link(p)
  \/ Review \/ ReviewNext
  \/ \E kind \in Reconcilers : StartScan(kind)
  \/ ScanNext
  \/ Poll \/ PollNext \/ Propagate
  \/ \E a \in Asks : Reply(a)
  \/ \E p \in Programs : Crash(p)
  \/ Tick

Spec == Init /\ [][Next]_vars

\* Programs that run go on; the schedule starts each again and again.
FairSpec ==
  /\ Spec
  /\ WF_vars(Tick)
  /\ \A p \in {"cascade", "orchestrator"} : WF_vars(Link(p))
  /\ WF_vars(ReviewNext) /\ WF_vars(ScanNext) /\ WF_vars(PollNext) /\ WF_vars(Propagate)
  /\ SF_vars(\E kind \in Reconcilers : StartScan(kind))
  /\ SF_vars(Poll)

-----------------------------------------------------------------------------
(* Properties *)

Current(i) == rec[<<i, top[i]>>]

(***************************************************************************)
(* Once an input's record has its ground truth no program replaces it or   *)
(* hides it behind a line without (reconciler.py:112-114,                  *)
(* ask_reply.py:268-270).  Holds for one program at a time and inputs that *)
(* are processed once.                                                     *)
(***************************************************************************)
GroundTruthIsKept ==
  [][\A i \in Inputs : top[i] > 0 /\ IsTruth(Current(i)) =>
       Current(i)'.reality = Current(i).reality]_vars

(***************************************************************************)
(* In no window does the orchestrator post more asks than the budget,      *)
(* whenever programs die and whatever the cascade asks ("hard ceiling",    *)
(* orchestrator.py:19).                                                    *)
(***************************************************************************)
BudgetKept ==
  Cardinality({a \in Asks : ask[a].by = "orchestrator" /\ ask[a].posted >= now - BudgetWindow})
    <= Budget

(***************************************************************************)
(* When the poller has ended, the record an answered ask is linked to      *)
(* holds that answer, unless Gmail was first: "EvalRecord(s) updated."     *)
(* (ask_reply.py:157).  Holds without crashes.                             *)
(***************************************************************************)
RepliesReachRecords ==
  crashes = 0 /\ "poller" \notin Active =>
    \A a \in Asks : ask[a].status = "answered" =>
      \E r \in Records : rec[r].ask = a /\ rec[r].reality \in {replies[a][1], "own", "operator"}

(***************************************************************************)
(* Every record is settled: it gets its ground truth, or is skipped when   *)
(* its window is over (reconciler.py:79-82), unless a later record of its  *)
(* input hides it.                                                         *)
(***************************************************************************)
Waits(r) == rec[r].status \in {"PENDING", "ASKED"} /\ top[r[1]] = r[2]

RecordsAreSettled == \A r \in Records : Waits(r) ~> ~Waits(r) \/ crashes > 0
=============================================================================
