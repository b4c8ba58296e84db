------------------------- MODULE ProposalApplyProofs -------------------------
(***************************************************************************)
(* Theorems about ProposalApply, for any sets of rules, edge cases and     *)
(* harmful entries, any number of failing steps and of regression scripts  *)
(* that die, as long as one proposal is applied at a time.                 *)
(*                                                                         *)
(* None of the properties is inductive: what a rollback leaves depends on  *)
(* the copies the apply took.  The inductive invariant Inv speaks of Kept, *)
(* the entries that a rollback at this point would leave: they include     *)
(* every applied entry and, as long as no regression script died, no       *)
(* harmful one.  For the moment of acceptance it adds Judged: the runtime  *)
(* the regression sees is the one made from the edited sources.            *)
(*                                                                         *)
(* Two more invariants follow the copies: Regenerated for the canaries     *)
(* and, until the first failing step, Served for the runtime.              *)
(***************************************************************************)
EXTENDS ProposalApply, TLAPS

\* One proposal is applied at a time.
OneApplier == \A a, b \in Appliers : a = b

Edited == {"lock", "canaries", "merge", "regress"}

\* What a rollback would leave of the sources.
Kept(a) == IF pc[a] \notin Edited THEN rules \cup edges
           ELSE IF IsRule(a) THEN saved[a].rules \cup edges
           ELSE rules \cup saved[a].edges

\* The edit in progress, and what a rollback needs to know of it.
Editing ==
  \A a \in Appliers :
    /\ pc[a] \in {"lock", "canaries"} => IsRule(a)
    /\ pc[a] = "edit" => saved[a].rules = rules
    /\ pc[a] \in Edited =>
         /\ job[a].item \notin Kept(a)
         /\ rules \cup edges = Kept(a) \cup {job[a].item}

Judged ==
  \A a \in Appliers :
    pc[a] = "regress" => runtime.rules = rules /\ runtime.edges = edges

Safe ==
  \A a \in Appliers :
    /\ applied \subseteq Kept(a)
    /\ gateCrashes = 0 => Kept(a) \cap Harmful = {}

\* With no applier at all the sources stay empty.
NoneApplied == Appliers = {} => applied = {} /\ rules = {} /\ edges = {}

Inv == TypeOK /\ Editing /\ Judged /\ Safe /\ NoneApplied

-----------------------------------------------------------------------------

LEMMA InitType == Init => TypeOK
<1> SUFFICES ASSUME Init PROVE TypeOK
  OBVIOUS
<1>1. (CHOOSE j \in Jobs : TRUE) \in Jobs
  <2>1. PICK e \in Entries : TRUE
    BY EntriesAssumption DEF Entries
  <2>2. [item |-> e, dry |-> TRUE] \in Jobs
    BY <2>1 DEF Jobs
  <2> QED  BY <2>2
<1> QED  BY <1>1, FileAssumption, BoundsAssumption
         DEF Init, TypeOK, Runtimes, Copies, NoCopy, CleanedTree, Locations

LEMMA JobKind ==
  ASSUME TypeOK, NEW a \in Appliers
  PROVE  /\ IsRule(a) => job[a].item \in Rules
         /\ ~IsRule(a) => job[a].item \in Edges
  BY DEF TypeOK, IsRule, Jobs, Entries

LEMMA SavedType ==
  ASSUME TypeOK, NEW a \in Appliers
  PROVE  saved[a].rules \subseteq Rules /\ saved[a].edges \subseteq Edges
         /\ saved[a].canaries \subseteq Rules
  BY DEF TypeOK, Copies

LEMMA RestoredType ==
  ASSUME TypeOK, NEW a \in Appliers, Restored(a)
  PROVE  rules' \subseteq Rules /\ edges' \subseteq Edges
  BY SavedType DEF Restored, TypeOK

LEMMA RestoredCanariesType ==
  ASSUME TypeOK, NEW a \in Appliers, RestoredCanaries(a)
  PROVE  canaries' \subseteq Rules /\ present' \in BOOLEAN
  BY SavedType DEF RestoredCanaries, TypeOK

LEMMA CanFailType == TypeOK /\ CanFail => /\ failures' \in 0..MaxFailures
                                          /\ gateCrashes' \in 0..MaxGateCrashes
                                          /\ gateCrashes' = gateCrashes
  BY BoundsAssumption DEF TypeOK, CanFail

LEMMA RuntimeType == TypeOK => Merged \in Runtimes /\ HalfMerged \subseteq Runtimes
  BY DEF TypeOK, Merged, HalfMerged, CleanedTree, Runtimes

LEMMA NextType == TypeOK /\ [Next]_vars => TypeOK'
<1> SUFFICES ASSUME TypeOK, [Next]_vars PROVE TypeOK'
  OBVIOUS
<1>1. CASE UNCHANGED vars
  BY <1>1 DEF TypeOK, vars, sources, local, faults
<1>2. ASSUME NEW a \in Appliers, Start(a) PROVE TypeOK'
  <2>1. [NoCopy EXCEPT !.rules = rules] \in Copies
    BY DEF NoCopy, Copies, TypeOK
  <2> QED  BY <1>2, <2>1 DEF Start, Goto, TypeOK, Locations, sources, faults
<1>3. ASSUME NEW a \in Appliers, RejectEdit(a) PROVE TypeOK'
  BY <1>3, CanFailType DEF RejectEdit, Goto, TypeOK, Locations, sources, faults
<1>4. ASSUME NEW a \in Appliers, AppendRule(a) PROVE TypeOK'
  BY <1>4, JobKind DEF AppendRule, Goto, TypeOK, Locations, faults
<1>5. ASSUME NEW a \in Appliers, AppendEdge(a) PROVE TypeOK'
  <2>1. saved' \in [Appliers -> Copies]
    BY <1>5 DEF AppendEdge, TypeOK, Copies
  <2> QED  BY <1>5, <2>1, JobKind DEF AppendEdge, Goto, TypeOK, Locations, faults
<1>6. ASSUME NEW a \in Appliers, RefreshLock(a) PROVE TypeOK'
  BY <1>6 DEF RefreshLock, Goto, TypeOK, Locations, faults
<1>7. ASSUME NEW a \in Appliers, RegenerateCanaries(a) PROVE TypeOK'
  <2>1. saved' \in [Appliers -> Copies]
    BY <1>7 DEF RegenerateCanaries, TypeOK, Copies
  <2> QED  BY <1>7, <2>1 DEF RegenerateCanaries, Goto, TypeOK, Locations, faults
<1>8. ASSUME NEW a \in Appliers, FailBeforeMerge(a) PROVE TypeOK'
  BY <1>8, CanFailType, RestoredType DEF FailBeforeMerge, TypeOK, Locations
<1>9. ASSUME NEW a \in Appliers, Merge(a) PROVE TypeOK'
  BY <1>9, RuntimeType DEF Merge, Goto, TypeOK, Locations, sources, faults
<1>10. ASSUME NEW a \in Appliers, FailMerge(a) PROVE TypeOK'
  BY <1>10, CanFailType, RestoredType, RestoredCanariesType, RuntimeType
  DEF FailMerge, Goto, TypeOK, Locations
<1>11. ASSUME NEW a \in Appliers, Accept(a) \/ RollBack(a)
       PROVE  /\ pc' \in [Appliers -> Locations]
              /\ rules' \subseteq Rules /\ edges' \subseteq Edges
              /\ lock' \subseteq Rules
              /\ canaries' \subseteq Rules /\ present' \in BOOLEAN
              /\ applied' \subseteq Entries
  <2>1. CASE Accept(a)
    BY <2>1 DEF Accept, TypeOK, Locations, Jobs, sources
  <2>2. CASE RollBack(a)
    BY <2>2, RestoredType, RestoredCanariesType DEF RollBack, TypeOK, Locations
  <2> QED  BY <1>11, <2>1, <2>2
<1>12. ASSUME NEW a \in Appliers, Regress(a) PROVE TypeOK'
  BY <1>12, <1>11 DEF Regress, TypeOK, faults
<1>13. ASSUME NEW a \in Appliers, RegressWithoutResult(a) PROVE TypeOK'
  BY <1>13, <1>11, BoundsAssumption DEF RegressWithoutResult, TypeOK
<1>14. ASSUME NEW a \in Appliers, Remerge(a) PROVE TypeOK'
  BY <1>14, CanFailType, RuntimeType DEF Remerge, Goto, TypeOK, Locations, sources, faults
<1> QED
  BY <1>1, <1>2, <1>3, <1>4, <1>5, <1>6, <1>7, <1>8, <1>9, <1>10, <1>12, <1>13, <1>14
  DEF Next

(***************************************************************************)
(* Every variable keeps its type, for any number of overlapping applies.   *)
(***************************************************************************)
THEOREM TypeCorrect == Spec => []TypeOK
<1>1. Init => TypeOK
  BY InitType
<1>2. TypeOK /\ [Next]_vars => TypeOK'
  BY NextType
<1> QED  BY <1>1, <1>2, PTL DEF Spec

-----------------------------------------------------------------------------
(* One apply at a time *)

LEMMA InitInv == Init => Inv
<1> SUFFICES ASSUME Init PROVE Inv
  OBVIOUS
<1> QED  BY InitType DEF Init, Inv, Editing, Judged, Safe, NoneApplied, Kept, Edited

\* What is put back is what was kept.
LEMMA RestoredKept ==
  ASSUME NEW a \in Appliers, pc[a] \in Edited, Restored(a)
  PROVE  rules' \cup edges' = Kept(a)
  BY DEF Restored, Kept

LEMMA NextInv == OneApplier /\ Inv /\ [Next]_vars => Inv'
<1> SUFFICES ASSUME OneApplier, Inv, [Next]_vars PROVE Inv'
  OBVIOUS
<1>t. TypeOK /\ TypeOK'
  BY NextType DEF Inv
<1>1. CASE UNCHANGED vars
  BY <1>1, <1>t DEF Inv, Editing, Judged, Safe, NoneApplied, Kept, IsRule, Edited,
                    vars, sources, local, faults
<1>2. ASSUME NEW a \in Appliers,
             /\ pc'[a] \in {"lock", "canaries"} => IsRule(a)'
             /\ pc'[a] = "edit" => saved'[a].rules = rules'
             /\ pc'[a] \in Edited =>
                  /\ job'[a].item \notin Kept(a)'
                  /\ rules' \cup edges' = Kept(a)' \cup {job'[a].item}
             /\ pc'[a] = "regress" => runtime'.rules = rules' /\ runtime'.edges = edges'
             /\ applied' \subseteq Kept(a)'
             /\ gateCrashes' = 0 => Kept(a)' \cap Harmful = {}
      PROVE  Inv'
  <2>1. \A b \in Appliers : b = a
    BY DEF OneApplier
  <2> QED  BY <1>2, <1>t, <2>1 DEF Inv, Editing, Judged, Safe, NoneApplied
<1>3. ASSUME NEW a \in Appliers
      PROVE  /\ pc[a] \in {"lock", "canaries"} => IsRule(a)
             /\ pc[a] = "edit" => saved[a].rules = rules
             /\ pc[a] \in Edited =>
                  /\ job[a].item \notin Kept(a)
                  /\ rules \cup edges = Kept(a) \cup {job[a].item}
             /\ pc[a] = "regress" => runtime.rules = rules /\ runtime.edges = edges
             /\ applied \subseteq Kept(a)
             /\ gateCrashes = 0 => Kept(a) \cap Harmful = {}
  BY DEF Inv, Editing, Judged, Safe
<1> DEFINE Calm(a) == pc'[a] \notin Edited \cup {"edit"}
\* A step to a place outside the edit: only what the sources hold counts.
<1>4. ASSUME NEW a \in Appliers, Calm(a), applied' \subseteq rules' \cup edges',
             gateCrashes' = 0 => (rules' \cup edges') \cap Harmful = {}
      PROVE  Inv'
  BY <1>2, <1>4 DEF Kept, Edited
<1>5. ASSUME NEW a \in Appliers, Start(a) PROVE Inv'
  <2>1. pc'[a] = "edit" /\ Kept(a)' = rules \cup edges /\ Kept(a) = rules \cup edges
    BY <1>5, <1>t DEF Start, Goto, Kept, Edited, TypeOK, sources
  <2>2. saved'[a].rules = rules'
    BY <1>5, <1>t DEF Start, TypeOK, Copies, NoCopy, sources
  <2> QED  BY <1>2, <1>3, <1>5, <2>1, <2>2 DEF Start, sources, faults, Edited
<1>6. ASSUME NEW a \in Appliers, RejectEdit(a) PROVE Inv'
  BY <1>3, <1>4, <1>6, <1>t DEF RejectEdit, Goto, CanFail, Kept, Edited, TypeOK, sources, faults
<1>7. ASSUME NEW a \in Appliers, AppendRule(a) PROVE Inv'
  <2>1. pc[a] = "edit" /\ pc'[a] = "lock" /\ IsRule(a) /\ IsRule(a)'
    BY <1>7, <1>t DEF AppendRule, Goto, TypeOK, IsRule
  <2>2. Kept(a)' = rules \cup edges /\ Kept(a) = rules \cup edges
    BY <1>3, <1>7, <2>1 DEF AppendRule, Kept, Edited, IsRule
  <2>3. job[a].item \notin rules \cup edges
    BY <1>7, <1>t, <2>1, JobKind, EntriesAssumption DEF AppendRule, TypeOK
  <2> QED  BY <1>2, <1>3, <1>7, <2>1, <2>2, <2>3 DEF AppendRule, faults, Edited
<1>8. ASSUME NEW a \in Appliers, AppendEdge(a) PROVE Inv'
  <2>1. pc[a] = "edit" /\ pc'[a] = "merge" /\ ~IsRule(a) /\ ~IsRule(a)'
    BY <1>8, <1>t DEF AppendEdge, Goto, TypeOK, IsRule
  <2>2. saved'[a].edges = edges
    BY <1>8, <1>t DEF AppendEdge, TypeOK, Copies
  <2>3. Kept(a)' = rules \cup edges /\ Kept(a) = rules \cup edges
    BY <1>8, <2>1, <2>2 DEF AppendEdge, Kept, Edited, IsRule
  <2>4. job[a].item \notin rules \cup edges
    BY <1>8, <1>t, <2>1, JobKind, EntriesAssumption DEF AppendEdge, TypeOK
  <2> QED  BY <1>2, <1>3, <1>8, <2>1, <2>3, <2>4 DEF AppendEdge, faults, Edited
\* The steps of an edit that change neither the sources nor their copies.
<1>9. ASSUME NEW a \in Appliers, pc[a] \in Edited, pc'[a] \in Edited,
             UNCHANGED <<rules, edges, job, applied, faults>>,
             saved'[a].rules = saved[a].rules, saved'[a].edges = saved[a].edges,
             pc'[a] = "canaries" => pc[a] = "lock", pc'[a] # "lock",
             pc'[a] = "regress" => runtime'.rules = rules /\ runtime'.edges = edges
      PROVE  Inv'
  <2>1. Kept(a)' = Kept(a) /\ IsRule(a)' = IsRule(a)
    BY <1>9 DEF Kept, IsRule
  <2> QED  BY <1>2, <1>3, <1>9, <2>1 DEF faults, Edited
<1>10. ASSUME NEW a \in Appliers, RefreshLock(a) PROVE Inv'
  BY <1>9, <1>10, <1>t DEF RefreshLock, Goto, TypeOK, Edited
<1>11. ASSUME NEW a \in Appliers, RegenerateCanaries(a) PROVE Inv'
  <2>1. saved'[a].rules = saved[a].rules /\ saved'[a].edges = saved[a].edges
    BY <1>11, <1>t DEF RegenerateCanaries, TypeOK, Copies
  <2> QED  BY <1>9, <1>11, <1>t, <2>1 DEF RegenerateCanaries, Goto, TypeOK, Edited
<1>12. ASSUME NEW a \in Appliers, FailBeforeMerge(a) PROVE Inv'
  BY <1>3, <1>4, <1>12, <1>t, RestoredKept DEF FailBeforeMerge, CanFail, TypeOK, Edited
<1>13. ASSUME NEW a \in Appliers, Merge(a) PROVE Inv'
  BY <1>9, <1>13, <1>t DEF Merge, Merged, Goto, TypeOK, Edited, sources
<1>14. ASSUME NEW a \in Appliers, FailMerge(a) PROVE Inv'
  BY <1>3, <1>4, <1>14, <1>t, RestoredKept DEF FailMerge, Goto, CanFail, TypeOK, Edited
<1>15. ASSUME NEW a \in Appliers, RollBack(a), pc[a] = "regress",
              gateCrashes' = 0 => gateCrashes = 0
       PROVE  Inv'
  BY <1>3, <1>4, <1>15, <1>t, RestoredKept DEF RollBack, TypeOK, Edited
<1>16. ASSUME NEW a \in Appliers, Accept(a), pc[a] = "regress",
              gateCrashes' = 0 => (rules \cup edges) \cap Harmful = {}
       PROVE  Inv'
  BY <1>3, <1>4, <1>16, <1>t DEF Accept, TypeOK, Edited, sources
<1>17. ASSUME NEW a \in Appliers, Regress(a) PROVE Inv'
  <2>1. CASE GatePasses /\ Accept(a)
    BY <1>3, <1>16, <1>17, <2>1 DEF Regress, GatePasses, faults
  <2>2. CASE RollBack(a)
    BY <1>15, <1>17, <2>2 DEF Regress, faults
  <2> QED  BY <1>17, <2>1, <2>2 DEF Regress
<1>18. ASSUME NEW a \in Appliers, RegressWithoutResult(a) PROVE Inv'
  <2>1. gateCrashes' # 0
    BY <1>18, <1>t DEF RegressWithoutResult, TypeOK
  <2> QED  BY <1>15, <1>16, <1>18, <2>1 DEF RegressWithoutResult
<1>19. ASSUME NEW a \in Appliers, Remerge(a) PROVE Inv'
  BY <1>3, <1>4, <1>19, <1>t
  DEF Remerge, Goto, CanFail, Kept, Edited, TypeOK, sources, faults
<1> QED
  BY <1>1, <1>5, <1>6, <1>7, <1>8, <1>10, <1>11, <1>12, <1>13, <1>14, <1>17, <1>18, <1>19
  DEF Next

LEMMA Invariance == OneApplier => (Spec => []Inv)
<1> SUFFICES ASSUME OneApplier PROVE Spec => []Inv
  OBVIOUS
<1>1. Init => Inv
  BY InitInv
<1>2. Inv /\ [Next]_vars => Inv'
  BY NextInv
<1> QED  BY <1>1, <1>2, PTL DEF Spec

(***************************************************************************)
(* One proposal at a time: what the operator was told is live stays in the *)
(* sources, whichever steps of later applies fail.                         *)
(***************************************************************************)
THEOREM AppliedChangesAreKept == OneApplier => (Spec => []AppliedChangesStay)
<1> SUFFICES ASSUME OneApplier PROVE Spec => []AppliedChangesStay
  OBVIOUS
<1>1. Inv => AppliedChangesStay
  <2> SUFFICES ASSUME Inv PROVE applied \subseteq rules \cup edges
    BY DEF AppliedChangesStay
  <2>1. CASE Appliers = {}
    BY <2>1 DEF Inv, NoneApplied
  <2>2. ASSUME NEW a \in Appliers PROVE applied \subseteq rules \cup edges
    BY DEF Inv, Editing, Safe, Kept
  <2> QED  BY <2>1, <2>2
<1>2. Spec => []Inv
  BY Invariance
<1> QED  BY <1>1, <1>2, PTL

(***************************************************************************)
(* One proposal at a time: as long as no regression script dies without a  *)
(* result, no entry the regression rejects is live between applies,        *)
(* whichever edits, merges and remerges fail.                              *)
(***************************************************************************)
THEOREM GateKeepsHarmOut == OneApplier => (Spec => []NoHarmfulChangeIsKept)
<1> SUFFICES ASSUME OneApplier PROVE Spec => []NoHarmfulChangeIsKept
  OBVIOUS
<1>1. Inv => NoHarmfulChangeIsKept
  <2> SUFFICES ASSUME Inv, gateCrashes = 0, Idle
               PROVE  (rules \cup edges) \cap Harmful = {}
    BY DEF NoHarmfulChangeIsKept
  <2>1. CASE Appliers = {}
    BY <2>1 DEF Inv, NoneApplied
  <2>2. ASSUME NEW a \in Appliers PROVE (rules \cup edges) \cap Harmful = {}
    BY DEF Inv, Safe, Kept, Idle, Edited
  <2> QED  BY <2>1, <2>2
<1>2. Spec => []Inv
  BY Invariance
<1> QED  BY <1>1, <1>2, PTL

-----------------------------------------------------------------------------
(* The refinement of AtomicChange *)

\* The abstract state is what a rollback of the apply in progress would leave.
Mapped == \A a \in Appliers : Committed = Kept(a)

LEMMA CommittedIsKept ==
  ASSUME OneApplier, Inv
  PROVE  Mapped
<1> SUFFICES ASSUME NEW a \in Appliers PROVE Committed = Kept(a)
  BY DEF Mapped
<1>1. \A b \in Appliers : b = a
  BY DEF OneApplier
<1>2. CASE pc[a] = "idle"
  BY <1>1, <1>2 DEF Committed, Idle, Kept, Edited
<1>3. CASE pc[a] # "idle"
  <2>1. (CHOOSE b \in Appliers : pc[b] # "idle") = a
    BY <1>1, <1>3
  <2>2. ~Idle
    BY <1>3 DEF Idle
  <2>3. UpTo(a) = Kept(a)
    BY <1>3 DEF UpTo, Kept, Inv, TypeOK, Locations, Edited
  <2> QED  BY <2>1, <2>2, <2>3 DEF Committed
<1> QED  BY <1>2, <1>3

\* What a step does to the abstract state.
Leaves(a) == Kept(a)' = Kept(a) /\ gateCrashes' \in {gateCrashes, gateCrashes + 1}
Accepts(a) ==
  /\ job[a].item \in Entries
  /\ job[a].item \notin Kept(a)
  /\ Kept(a)' = Kept(a) \cup {job[a].item}
  /\ \/ gateCrashes' = gateCrashes /\ job[a].item \notin Harmful
     \/ gateCrashes' = gateCrashes + 1

LEMMA StepIsAbstract ==
  ASSUME Inv, [Next]_vars, NEW a \in Appliers, \A b \in Appliers : b = a
  PROVE  Leaves(a) \/ Accepts(a)
<1>t. TypeOK /\ TypeOK'
  BY NextType DEF Inv
<1>n. gateCrashes \in Nat
  BY <1>t, BoundsAssumption DEF TypeOK
<1>i. pc[a] \in Edited => job[a].item \notin Kept(a) /\ rules \cup edges = Kept(a) \cup {job[a].item}
  BY DEF Inv, Editing
<1>1. CASE UNCHANGED vars
  BY <1>1 DEF Leaves, Kept, IsRule, vars, sources, local, faults
\* Inside the edit the copies stay; before it they are made.
<1>2. CASE Start(a)
  BY <1>2, <1>t DEF Start, Goto, Leaves, Kept, Edited, TypeOK, sources, faults
<1>3. CASE RejectEdit(a)
  BY <1>3, <1>t DEF RejectEdit, Goto, CanFail, Leaves, Kept, Edited, TypeOK, sources, faults
<1>4. CASE AppendRule(a)
  <2>1. saved[a].rules = rules
    BY <1>4 DEF AppendRule, Goto, Inv, Editing
  <2> QED  BY <1>4, <1>t, <2>1 DEF AppendRule, Goto, Leaves, Kept, IsRule, Edited, TypeOK, faults
<1>5. CASE AppendEdge(a)
  <2>1. saved'[a].edges = edges
    BY <1>5, <1>t DEF AppendEdge, TypeOK, Copies
  <2> QED  BY <1>5, <1>t, <2>1 DEF AppendEdge, Goto, Leaves, Kept, IsRule, Edited, TypeOK, faults
<1>6. CASE RefreshLock(a)
  BY <1>6, <1>t DEF RefreshLock, Goto, Leaves, Kept, IsRule, Edited, TypeOK, faults
<1>7. CASE RegenerateCanaries(a)
  <2>1. saved'[a].rules = saved[a].rules /\ saved'[a].edges = saved[a].edges
    BY <1>7, <1>t DEF RegenerateCanaries, TypeOK, Copies
  <2> QED  BY <1>7, <1>t, <2>1
           DEF RegenerateCanaries, Goto, Leaves, Kept, IsRule, Edited, TypeOK, faults
<1>8. CASE FailBeforeMerge(a)
  BY <1>8, <1>t, RestoredKept DEF FailBeforeMerge, CanFail, Leaves, Kept, Edited, TypeOK
<1>9. CASE Merge(a)
  BY <1>9, <1>t DEF Merge, Goto, Leaves, Kept, IsRule, Edited, TypeOK, sources, faults
<1>10. CASE FailMerge(a)
  BY <1>10, <1>t, RestoredKept DEF FailMerge, Goto, CanFail, Leaves, Kept, Edited, TypeOK
<1>11. CASE Remerge(a)
  BY <1>11, <1>t DEF Remerge, Goto, CanFail, Leaves, Kept, Edited, TypeOK, sources, faults
<1>12. ASSUME pc[a] = "regress", RollBack(a) PROVE Kept(a)' = Kept(a)
  BY <1>12, <1>t, RestoredKept DEF RollBack, Kept, Edited, TypeOK
<1>13. ASSUME pc[a] = "regress", Accept(a)
       PROVE  /\ job[a].item \in Entries
              /\ job[a].item \notin Kept(a)
              /\ Kept(a)' = Kept(a) \cup {job[a].item}
  <2>1. Kept(a)' = rules \cup edges
    BY <1>13, <1>t DEF Accept, Kept, Edited, TypeOK, sources
  <2> QED  BY <1>13, <1>i, <1>t, <2>1 DEF Edited, TypeOK, Jobs
<1>14. CASE Regress(a)
  <2>1. gateCrashes' = gateCrashes
    BY <1>14 DEF Regress, faults
  <2>2. CASE GatePasses /\ Accept(a)
    <3>1. job[a].item \notin Harmful
      BY <1>14, <1>i, <2>2 DEF Regress, GatePasses, Inv, Judged, Edited
    <3> QED  BY <1>13, <1>14, <2>1, <2>2, <3>1 DEF Regress, Accepts
  <2>3. CASE RollBack(a)
    BY <1>12, <1>14, <2>1, <2>3 DEF Regress, Leaves
  <2> QED  BY <1>14, <2>2, <2>3 DEF Regress
<1>15. CASE RegressWithoutResult(a)
  BY <1>12, <1>13, <1>15 DEF RegressWithoutResult, Leaves, Accepts
<1> QED
  BY <1>1, <1>2, <1>3, <1>4, <1>5, <1>6, <1>7, <1>8, <1>9, <1>10, <1>11, <1>14, <1>15
  DEF Next

LEMMA NextAbstract ==
  OneApplier /\ Inv /\ Mapped /\ Mapped' /\ [Next]_vars
    => [Abstract!Next]_<<Committed, gateCrashes > 0>>
<1> SUFFICES ASSUME OneApplier, Inv, Mapped, Mapped', [Next]_vars
             PROVE  [Abstract!Next]_<<Committed, gateCrashes > 0>>
  OBVIOUS
<1>1. CASE Appliers = {}
  <2>1. Idle /\ Idle'
    BY <1>1 DEF Idle
  <2>2. UNCHANGED vars
    BY <1>1 DEF Next
  <2>3. UNCHANGED Committed
    BY <2>1, <2>2 DEF Committed, vars, sources
  <2>4. UNCHANGED (gateCrashes > 0)
    BY <2>2 DEF vars, faults
  <2> QED  BY <2>3, <2>4
<1>2. ASSUME NEW a \in Appliers
      PROVE  [Abstract!Next]_<<Committed, gateCrashes > 0>>
  <2>1. \A b \in Appliers : b = a
    BY DEF OneApplier
  <2>2. Committed = Kept(a) /\ Committed' = Kept(a)'
    BY DEF Mapped
  <2>3. gateCrashes \in Nat
    BY BoundsAssumption DEF Inv, TypeOK
  <2>4. CASE Leaves(a)
    <3>1. Committed' = Committed
      BY <2>2, <2>4 DEF Leaves
    <3>2. (gateCrashes > 0)' \in {gateCrashes > 0, TRUE}
      <4>1. gateCrashes' = gateCrashes \/ gateCrashes' > 0
        BY <2>3, <2>4 DEF Leaves
      <4> QED  BY <4>1
    <3> QED  BY <3>1, <3>2 DEF Abstract!Next, Abstract!FailOpen
  <2>5. CASE Accepts(a)
    <3>1. Abstract!FailOpen
      <4>1. gateCrashes' = gateCrashes \/ gateCrashes' > 0
        BY <2>3, <2>5 DEF Accepts
      <4> QED  BY <4>1 DEF Abstract!FailOpen
    <3>2. job[a].item \in Harmful => gateCrashes' > 0
      BY <2>3, <2>5 DEF Accepts
    <3>3. Abstract!Apply(job[a].item)
      BY <2>2, <2>5, <3>1, <3>2 DEF Accepts, Abstract!Apply
    <3> QED  BY <2>5, <3>3 DEF Accepts, Abstract!Next
  <2> QED  BY <2>1, <2>4, <2>5, StepIsAbstract
<1> QED  BY <1>1, <1>2

(***************************************************************************)
(* One proposal at a time: whatever step fails, applying proposals is an   *)
(* implementation of AtomicChange: the sources change by one change that   *)
(* the gate accepted at a time, and a rejected proposal leaves no trace.   *)
(***************************************************************************)
THEOREM AppliesAtomically == OneApplier => (Spec => ImplementsAtomicChange)
<1> SUFFICES ASSUME OneApplier PROVE Spec => Abstract!Spec
  BY DEF ImplementsAtomicChange
<1>1. Init => Abstract!Init
  <2> SUFFICES ASSUME Init PROVE Abstract!Init
    OBVIOUS
  <2>1. Idle /\ rules \cup edges = {}
    BY DEF Init, Idle
  <2>2. (gateCrashes > 0) = FALSE
    BY DEF Init
  <2> QED  BY <2>1, <2>2 DEF Abstract!Init, Committed
<1>2. Spec => []Inv
  BY Invariance
<1>3. Inv => Mapped
  BY CommittedIsKept
<1>4. Inv /\ Mapped /\ Mapped' /\ [Next]_vars => [Abstract!Next]_<<Committed, gateCrashes > 0>>
  BY NextAbstract
<1> QED  BY <1>1, <1>2, <1>3, <1>4, PTL DEF Spec, Abstract!Spec

-----------------------------------------------------------------------------
(* The canaries and the runtime *)

\* The canaries are those of the rules, or of the rules a rollback puts back.
Regenerated ==
  /\ present = TRUE
  /\ Appliers = {} => canaries = rules
  /\ \A a \in Appliers :
       /\ pc[a] \in {"lock", "canaries"} => canaries = saved[a].rules
       /\ pc[a] \notin {"lock", "canaries"} => canaries = rules
       /\ pc[a] \in {"merge", "regress"} /\ IsRule(a) =>
            saved[a].present = TRUE /\ saved[a].canaries = saved[a].rules

\* Until a step fails the runtime is a copy of the sources, except while they
\* are edited or put back.
Served ==
  failures = 0 =>
    /\ Appliers = {} => Copied
    /\ \A a \in Appliers : pc[a] \in {"idle", "edit", "regress"} => Copied

LEMMA NextRegenerated == OneApplier /\ Inv /\ Regenerated /\ [Next]_vars => Regenerated'
<1> SUFFICES ASSUME OneApplier, Inv, Regenerated, [Next]_vars PROVE Regenerated'
  OBVIOUS
<1>t. TypeOK /\ TypeOK'
  BY NextType DEF Inv
<1>1. CASE UNCHANGED vars
  BY <1>1 DEF Regenerated, IsRule, vars, sources, local
<1>2. ASSUME NEW a \in Appliers, present' = TRUE,
             pc'[a] \in {"lock", "canaries"} => canaries' = saved'[a].rules,
             pc'[a] \notin {"lock", "canaries"} => canaries' = rules',
             pc'[a] \in {"merge", "regress"} /\ IsRule(a)' =>
               saved'[a].present = TRUE /\ saved'[a].canaries = saved'[a].rules
      PROVE  Regenerated'
  <2>1. \A b \in Appliers : b = a
    BY DEF OneApplier
  <2> QED  BY <1>2, <2>1 DEF Regenerated
<1>3. ASSUME NEW a \in Appliers
      PROVE  /\ pc[a] \in {"lock", "canaries"} => IsRule(a) /\ canaries = saved[a].rules
             /\ pc[a] \notin {"lock", "canaries"} => canaries = rules
             /\ pc[a] \in {"merge", "regress"} /\ IsRule(a) =>
                  saved[a].present = TRUE /\ saved[a].canaries = saved[a].rules
             /\ pc[a] = "edit" => saved[a].rules = rules
             /\ present = TRUE
  BY DEF Regenerated, Inv, Editing
\* Steps that leave rules and canaries alone.
<1>4. ASSUME NEW a \in Appliers, UNCHANGED <<rules, canaries, present>>,
             pc[a] \notin {"lock", "canaries"}, pc'[a] \notin {"lock", "canaries"},
             pc'[a] = "merge" => ~IsRule(a)',
             pc'[a] = "regress" => pc[a] = "merge" /\ UNCHANGED <<saved, job>>
      PROVE  Regenerated'
  BY <1>2, <1>3, <1>4 DEF IsRule
<1>5. ASSUME NEW a \in Appliers, Start(a) \/ RejectEdit(a) \/ Merge(a) \/ Remerge(a)
      PROVE  Regenerated'
  BY <1>4, <1>5, <1>t DEF Start, RejectEdit, Merge, Remerge, Goto, TypeOK, sources
<1>6. ASSUME NEW a \in Appliers, AppendRule(a) PROVE Regenerated'
  BY <1>2, <1>3, <1>6, <1>t DEF AppendRule, Goto, TypeOK
<1>7. ASSUME NEW a \in Appliers, AppendEdge(a) PROVE Regenerated'
  BY <1>4, <1>7, <1>t DEF AppendEdge, Goto, TypeOK, IsRule
<1>8. ASSUME NEW a \in Appliers, RefreshLock(a) PROVE Regenerated'
  BY <1>2, <1>3, <1>8, <1>t DEF RefreshLock, Goto, TypeOK
<1>9. ASSUME NEW a \in Appliers, RegenerateCanaries(a) PROVE Regenerated'
  <2>1. /\ saved'[a].rules = saved[a].rules /\ saved'[a].canaries = canaries
        /\ saved'[a].present = present
    BY <1>9, <1>t DEF RegenerateCanaries, TypeOK, Copies
  <2> QED  BY <1>2, <1>3, <1>9, <1>t, <2>1 DEF RegenerateCanaries, Goto, TypeOK
<1>10. ASSUME NEW a \in Appliers, FailBeforeMerge(a) PROVE Regenerated'
  BY <1>2, <1>3, <1>10, <1>t DEF FailBeforeMerge, Restored, TypeOK
<1>11. ASSUME NEW a \in Appliers, Restored(a), RestoredCanaries(a), pc[a] \in {"merge", "regress"},
              pc'[a] \in {"idle", "remerge"}
       PROVE  Regenerated'
  BY <1>2, <1>3, <1>11 DEF Restored, RestoredCanaries
<1>12. ASSUME NEW a \in Appliers, FailMerge(a) PROVE Regenerated'
  BY <1>11, <1>12, <1>t DEF FailMerge, Goto, TypeOK
<1>13. ASSUME NEW a \in Appliers, Regress(a) \/ RegressWithoutResult(a) PROVE Regenerated'
  <2>1. CASE Accept(a)
    BY <1>4, <1>13, <1>t, <2>1 DEF Regress, RegressWithoutResult, Accept, TypeOK, sources
  <2>2. CASE RollBack(a)
    BY <1>11, <1>13, <1>t, <2>2 DEF Regress, RegressWithoutResult, RollBack, TypeOK
  <2> QED  BY <1>13, <2>1, <2>2 DEF Regress, RegressWithoutResult
<1> QED
  BY <1>1, <1>5, <1>6, <1>7, <1>8, <1>9, <1>10, <1>12, <1>13 DEF Next

(***************************************************************************)
(* One proposal at a time, in a repository that has canaries: between      *)
(* applies there is a canary for each added rule and for no other,         *)
(* whichever steps fail and whichever regression scripts die.              *)
(***************************************************************************)
THEOREM CanariesFollowRules ==
  OneApplier /\ CanariesExist = TRUE => (Spec => []CanariesMatchRules)
<1> SUFFICES ASSUME OneApplier, CanariesExist = TRUE PROVE Spec => []CanariesMatchRules
  OBVIOUS
<1>1. Init => Regenerated
  BY DEF Init, Regenerated
<1>2. Inv /\ Regenerated /\ [Next]_vars => Regenerated'
  BY NextRegenerated
<1>3. Regenerated => CanariesMatchRules
  <2> SUFFICES ASSUME Regenerated, Idle PROVE canaries = rules
    BY DEF CanariesMatchRules
  <2>1. CASE Appliers = {}
    BY <2>1 DEF Regenerated
  <2>2. ASSUME NEW a \in Appliers PROVE canaries = rules
    BY DEF Regenerated, Idle
  <2> QED  BY <2>1, <2>2
<1>4. Spec => []Inv
  BY Invariance
<1> QED  BY <1>1, <1>2, <1>3, <1>4, PTL DEF Spec

LEMMA NextServed == OneApplier /\ Inv /\ Served /\ [Next]_vars => Served'
<1> SUFFICES ASSUME OneApplier, Inv, Served, [Next]_vars, failures' = 0 PROVE Served'
  BY DEF Served
<1>t. TypeOK /\ TypeOK'
  BY NextType DEF Inv
<1>f. ~CanFail /\ failures \in Nat
  BY <1>t, BoundsAssumption DEF CanFail, TypeOK
<1>1. CASE UNCHANGED vars
  BY <1>1 DEF Served, Copied, vars, sources, local, faults
<1>2. ASSUME NEW a \in Appliers, pc'[a] \in {"idle", "edit", "regress"} => Copied' PROVE Served'
  <2>1. \A b \in Appliers : b = a
    BY DEF OneApplier
  <2> QED  BY <1>2, <2>1 DEF Served
<1>3. ASSUME NEW a \in Appliers, UNCHANGED <<sources, runtime, failures>>,
             pc[a] \in {"idle", "edit", "regress"}
      PROVE  Served'
  BY <1>2, <1>3 DEF Served, Copied, sources
<1>4. ASSUME NEW a \in Appliers, Start(a) \/ RejectEdit(a) PROVE Served'
  BY <1>3, <1>4, <1>f DEF Start, RejectEdit, Goto, faults
<1>5. ASSUME NEW a \in Appliers,
             AppendRule(a) \/ AppendEdge(a) \/ RefreshLock(a) \/ RegenerateCanaries(a)
      PROVE  Served'
  BY <1>2, <1>5, <1>t DEF AppendRule, AppendEdge, RefreshLock, RegenerateCanaries, Goto, TypeOK
<1>6. ASSUME NEW a \in Appliers, Merge(a) \/ Remerge(a) PROVE Served'
  BY <1>2, <1>6, <1>f DEF Merge, Remerge, Merged, Goto, Copied, sources
<1>7. ASSUME NEW a \in Appliers, FailBeforeMerge(a) \/ FailMerge(a) PROVE Served'
  BY <1>7, <1>f DEF FailBeforeMerge, FailMerge
<1>8. ASSUME NEW a \in Appliers, Regress(a) \/ RegressWithoutResult(a) PROVE Served'
  <2>1. CASE Accept(a)
    BY <1>3, <1>8, <2>1 DEF Regress, RegressWithoutResult, Accept, faults
  <2>2. CASE RollBack(a)
    BY <1>2, <2>2, <1>t DEF RollBack, TypeOK
  <2> QED  BY <1>8, <2>1, <2>2 DEF Regress, RegressWithoutResult
<1> QED
  BY <1>1, <1>4, <1>5, <1>6, <1>7, <1>8 DEF Next

(***************************************************************************)
(* One proposal at a time: until a step fails the runtime serves exactly   *)
(* the sources between applies, after rollbacks and previews as well.      *)
(***************************************************************************)
THEOREM RuntimeIsServed == OneApplier => (Spec => []RuntimeFollowsSources)
<1> SUFFICES ASSUME OneApplier PROVE Spec => []RuntimeFollowsSources
  OBVIOUS
<1>1. Init => Served
  BY DEF Init, Served, Copied, CleanedTree
<1>2. Inv /\ Served /\ [Next]_vars => Served'
  BY NextServed
<1>3. Served => RuntimeFollowsSources
  <2> SUFFICES ASSUME Served, Idle, failures = 0 PROVE Copied
    BY DEF RuntimeFollowsSources
  <2>1. CASE Appliers = {}
    BY <2>1 DEF Served
  <2>2. ASSUME NEW a \in Appliers PROVE Copied
    BY DEF Served, Idle
  <2> QED  BY <2>1, <2>2
<1>4. Spec => []Inv
  BY Invariance
<1> QED  BY <1>1, <1>2, <1>3, <1>4, PTL DEF Spec
=============================================================================
