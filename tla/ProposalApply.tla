---------------------------- MODULE ProposalApply ----------------------------
(***************************************************************************)
(* Applying an approved proposal of #sai-eval (app/eval/proposal_apply.py):*)
(* a new classifier rule or a new edge case is written into the private    *)
(* sources, the runtime tree is merged again, the regression gate runs on  *)
(* it, and the change is kept or rolled back.                              *)
(*                                                                         *)
(* Each file write, merge and regression run is an action: the Slack bot   *)
(* applies proposals in the background, so two applies may interleave.     *)
(*                                                                         *)
(* Abstractions.  A file is the set of entries it holds; a prompt lock is  *)
(* the content it hashes.  The gate rejects a runtime that holds a harmful *)
(* entry (a canary fails or the accuracy drops: both roll back alike).     *)
(* The rules and edge cases a repository starts with are the empty sets.   *)
(* Early rejections of missing, unparseable, unknown or incomplete         *)
(* proposals touch nothing and are stuttering steps.                       *)
(***************************************************************************)
EXTENDS Naturals, FiniteSets

CONSTANTS
  Appliers,       \* threads of the bot that run apply_proposal
  Rules,          \* rules that proposals of kind "rule_add" may add
  Edges,          \* edge cases that proposals of kind "eval_add" may add
  Harmful,        \* entries that the regression rejects
  CanariesExist,  \* the private repository has a non-empty canaries.jsonl
  MaxFailures,    \* bound: failing edits, lock refreshes, regenerations, merges
  MaxGateCrashes  \* bound: regression scripts that die without a result

ASSUME EntriesAssumption ==
  /\ Rules \cap Edges = {} /\ Rules \cup Edges # {}
  /\ Harmful \subseteq Rules \cup Edges
ASSUME BoundsAssumption  == {MaxFailures, MaxGateCrashes} \subseteq Nat
ASSUME FileAssumption    == CanariesExist \in BOOLEAN

VARIABLES
  rules,     \* private keyword-classify.md
  lock,      \* the content whose hash prompt-locks.yaml holds for it
  canaries,  \* private canaries.jsonl: the rules it has a canary for
  present,   \* canaries.jsonl exists and is not empty
  edges,     \* private edge_cases.jsonl
  runtime,   \* the merged tree ~/.sai-runtime
  pc,        \* where each apply is
  job,       \* the proposal in hand
  saved,     \* what the apply restores on a rollback
  applied,   \* history: entries reported "applied"
  failures, gateCrashes

sources == <<rules, lock, canaries, present, edges>>
local   == <<pc, job, saved>>
faults  == <<failures, gateCrashes>>
vars    == <<sources, runtime, local, applied, faults>>

Entries == Rules \cup Edges
Jobs == [item : Entries, dry : BOOLEAN]
Copies == [rules : SUBSET Rules, canaries : SUBSET Rules, present : BOOLEAN,
           edges : SUBSET Edges]
Runtimes == [rules : SUBSET Rules, lock : SUBSET Rules, canaries : SUBSET Rules,
             edges : SUBSET Edges]
NoCopy == [rules |-> {}, canaries |-> {}, present |-> FALSE, edges |-> {}]
Locations == {"idle", "edit", "lock", "canaries", "merge", "regress", "remerge"}

TypeOK ==
  /\ rules \subseteq Rules /\ lock \subseteq Rules /\ canaries \subseteq Rules
  /\ present \in BOOLEAN /\ edges \subseteq Edges
  /\ runtime \in Runtimes
  /\ pc \in [Appliers -> Locations]
  /\ job \in [Appliers -> Jobs]
  /\ saved \in [Appliers -> Copies]
  /\ applied \subseteq Entries
  /\ failures \in 0..MaxFailures /\ gateCrashes \in 0..MaxGateCrashes

-----------------------------------------------------------------------------

\* The dispatch on the proposal's kind.
IsRule(a) == job[a].item \in Rules

Goto(a, here, there) == pc[a] = here /\ pc' = [pc EXCEPT ![a] = there]

\* Mutant of Restored: the edge-case bytes are not put back.
KeepsEdges(a) ==
  /\ rules' = IF IsRule(a) THEN saved[a].rules ELSE rules
  /\ edges' = edges

\* Put the edited file back: the backup copy or the original bytes.
Restored(a) ==
  /\ rules' = IF IsRule(a) THEN saved[a].rules ELSE rules
  /\ edges' = IF IsRule(a) THEN edges ELSE saved[a].edges

\* "if canaries_backup": only a non-empty old file is put back.
\* Mutant: the regenerated canaries stay.
KeepsCanaries(a) == UNCHANGED <<canaries, present>>
RestoredCanaries(a) ==
  IF IsRule(a) /\ saved[a].present
  THEN canaries' = saved[a].canaries /\ present' = TRUE
  ELSE UNCHANGED <<canaries, present>>

\* sai-overlay merge: the runtime becomes a copy of the sources.
Merged == [rules |-> rules, lock |-> lock, canaries |-> canaries,
           edges |-> edges]

\* A merge that fails does so before or after it cleaned the tree.  Of a
\* cleaned tree the regression has no script to run, and it passes.
CleanedTree == [rules |-> {}, lock |-> {}, canaries |-> {}, edges |-> {}]
HalfMerged == {runtime, CleanedTree}

\* Mutant: only the canaries are judged.
CanariesPass == runtime.rules \cap Harmful = {}

\* The gate: canary failures or an accuracy drop.
GatePasses == (runtime.rules \cup runtime.edges) \cap Harmful = {}

CanFail == failures < MaxFailures /\ failures' = failures + 1 /\ UNCHANGED gateCrashes

-----------------------------------------------------------------------------

\* apply_proposal: the operator approved a proposal or asked for a preview.
\* rule_add backs the rules file up before the edit.
Start(a) ==
  /\ Goto(a, "idle", "edit")
  /\ \E j \in Jobs : job' = [job EXCEPT ![a] = j]
  /\ saved' = [saved EXCEPT ![a] = [NoCopy EXCEPT !.rules = rules]]
  /\ UNCHANGED <<sources, runtime, applied, faults>>

\* The entry is there already, or the rules file or the row is malformed.
RejectEdit(a) ==
  /\ Goto(a, "edit", "idle")
  /\ \/ job[a].item \in rules \cup edges /\ UNCHANGED faults
     \/ CanFail
  /\ UNCHANGED <<sources, runtime, job, saved, applied>>

AppendRule(a) ==
  /\ IsRule(a) /\ job[a].item \notin rules
  /\ Goto(a, "edit", "lock")
  /\ rules' = rules \cup {job[a].item}
  /\ UNCHANGED <<lock, canaries, present, edges, runtime, job, saved, applied, faults>>

AppendEdge(a) ==
  /\ ~IsRule(a) /\ job[a].item \notin edges
  /\ Goto(a, "edit", "merge")
  /\ saved' = [saved EXCEPT ![a].edges = edges]
  /\ edges' = edges \cup {job[a].item}
  /\ UNCHANGED <<rules, lock, canaries, present, runtime, job, applied, faults>>

RefreshLock(a) ==
  /\ Goto(a, "lock", "canaries")
  /\ lock' = rules
  /\ UNCHANGED <<rules, canaries, present, edges, runtime, job, saved, applied, faults>>

RegenerateCanaries(a) ==
  /\ Goto(a, "canaries", "merge")
  /\ saved' = [saved EXCEPT ![a].canaries = canaries, ![a].present = present]
  /\ canaries' = rules
  /\ present' = TRUE
  /\ UNCHANGED <<rules, lock, edges, runtime, job, applied, faults>>

\* The lock refresh or the regeneration fails: only the rules are put back.
FailBeforeMerge(a) ==
  /\ pc[a] \in {"lock", "canaries"}
  /\ pc' = [pc EXCEPT ![a] = "idle"]
  /\ CanFail
  /\ Restored(a)
  /\ UNCHANGED <<lock, canaries, present, runtime, job, saved, applied>>

Merge(a) ==
  /\ Goto(a, "merge", "regress")
  /\ runtime' = Merged
  /\ UNCHANGED <<sources, job, saved, applied, faults>>

FailMerge(a) ==
  /\ Goto(a, "merge", "idle")
  /\ CanFail
  /\ runtime' \in HalfMerged
  /\ Restored(a)
  /\ RestoredCanaries(a)
  /\ UNCHANGED <<lock, job, saved, applied>>

Accept(a) ==
  /\ ~job[a].dry
  /\ pc' = [pc EXCEPT ![a] = "idle"]
  /\ applied' = applied \cup {job[a].item}
  /\ UNCHANGED sources

RollBack(a) ==
  /\ pc' = [pc EXCEPT ![a] = "remerge"]
  /\ Restored(a)
  /\ RestoredCanaries(a)
  /\ UNCHANGED <<lock, applied>>

\* The regression runs on the runtime tree; a preview rolls back also when it
\* passes.
Regress(a) ==
  /\ pc[a] = "regress"
  /\ \/ GatePasses /\ Accept(a)
     \/ (job[a].dry \/ ~GatePasses) /\ RollBack(a)
  /\ UNCHANGED <<runtime, job, saved, faults>>

\* A script that dies prints no result: no failures, no drop, so it passes.
RegressWithoutResult(a) ==
  /\ pc[a] = "regress"
  /\ gateCrashes < MaxGateCrashes
  /\ gateCrashes' = gateCrashes + 1
  /\ Accept(a) \/ (job[a].dry /\ RollBack(a))
  /\ UNCHANGED <<runtime, job, saved, failures>>

\* The merge after a rollback; its result is not looked at.
Remerge(a) ==
  /\ Goto(a, "remerge", "idle")
  /\ \/ runtime' = Merged /\ UNCHANGED faults
     \/ CanFail /\ runtime' \in HalfMerged
  /\ UNCHANGED <<sources, job, saved, applied>>

-----------------------------------------------------------------------------

Init ==
  /\ rules = {} /\ lock = {} /\ edges = {}
  /\ canaries = {} /\ present = CanariesExist
  /\ runtime = CleanedTree
  /\ pc = [a \in Appliers |-> "idle"]
  /\ job = [a \in Appliers |-> CHOOSE j \in Jobs : TRUE]
  /\ saved = [a \in Appliers |-> NoCopy]
  /\ applied = {}
  /\ failures = 0 /\ gateCrashes = 0

Next == \E a \in Appliers :
  \/ Start(a) \/ RejectEdit(a) \/ AppendRule(a) \/ AppendEdge(a)
  \/ RefreshLock(a) \/ RegenerateCanaries(a) \/ FailBeforeMerge(a)
  \/ Merge(a) \/ FailMerge(a)
  \/ Regress(a) \/ RegressWithoutResult(a) \/ Remerge(a)

Spec == Init /\ [][Next]_vars

-----------------------------------------------------------------------------
(* Properties *)

Idle == \A a \in Appliers : pc[a] = "idle"

(***************************************************************************)
(* Whatever fails on the way, the sources without the apply in progress    *)
(* change only by one accepted change at a time: a rejected or previewed   *)
(* proposal leaves rules and edge cases as they were.  Holds for one apply *)
(* at a time.                                                              *)
(***************************************************************************)
UpTo(a) == IF pc[a] \in {"idle", "edit", "remerge"} THEN rules \cup edges
           ELSE IF IsRule(a) THEN saved[a].rules \cup edges
           ELSE rules \cup saved[a].edges

Committed == IF Idle THEN rules \cup edges
             ELSE UpTo(CHOOSE a \in Appliers : pc[a] # "idle")

Abstract == INSTANCE AtomicChange WITH
  Changes <- Entries, live <- Committed, open <- gateCrashes > 0

ImplementsAtomicChange == Abstract!Spec

(***************************************************************************)
(* What the operator was told is live stays in the sources: no later       *)
(* rollback takes an applied change with it.                               *)
(***************************************************************************)
AppliedChangesStay == applied \subseteq rules \cup edges

Copied == runtime.rules = rules /\ runtime.edges = edges /\ runtime.canaries = canaries

(***************************************************************************)
(* Between applies the runtime serves exactly the sources, also after a    *)
(* rollback.  Holds as long as no step fails: the result of the merge      *)
(* after a rollback is not looked at.                                      *)
(***************************************************************************)
RuntimeFollowsSources == Idle /\ failures = 0 => Copied

(***************************************************************************)
(* Between applies there is a canary for each added rule and for no other  *)
(* (PRINCIPLES.md 16a: regenerate dataset A with the rules).               *)
(***************************************************************************)
CanariesMatchRules == Idle => canaries = rules

(***************************************************************************)
(* Between applies no entry the regression rejects is live in the sources  *)
(* (PRINCIPLES.md:548 "Loop 1 is the universal gate.  Every code change    *)
(* goes through it."), whichever edits, merges and remerges fail.  Holds   *)
(* as long as no regression script dies: one that prints no result passes. *)
(***************************************************************************)
NoHarmfulChangeIsKept == gateCrashes = 0 /\ Idle => (rules \cup edges) \cap Harmful = {}
=============================================================================
