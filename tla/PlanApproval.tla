---------------------------- MODULE PlanApproval ----------------------------
(***************************************************************************)
(* What the email lane promises about a plan, whatever the mails, tasks    *)
(* and runs it takes: SAI asks, shows the plan, the operator approves it,  *)
(* its actions run once each and in order, and then it is closed.  A plan  *)
(* name that was asked before may be asked again, for a new plan.  Nothing *)
(* is promised once a run was broken off.                                  *)
(*                                                                         *)
(* PRINCIPLES.md, principles 2 and 3: policy and approval come before side *)
(* effects, and an approval is a durable record.                           *)
(***************************************************************************)
EXTENDS Naturals

CONSTANTS Plans, PlanSteps

VARIABLES
  phase,  \* phase[p]: "unused", "asked", "shown", "approved" or "closed"
  ran,    \* ran[p][s]: how often action s of the plan ran
  broken  \* a run was broken off

vars == <<phase, ran, broken>>

Steps == 1..PlanSteps

Init ==
  /\ phase = [p \in Plans |-> "unused"]
  /\ ran = [p \in Plans |-> [s \in Steps |-> 0]]
  /\ broken = FALSE

Ask(p) ==
  /\ phase' = [phase EXCEPT ![p] = "asked"]
  /\ ran' = [ran EXCEPT ![p] = [s \in Steps |-> 0]]

Move(p, from, to) ==
  /\ phase[p] = from
  /\ phase' = [phase EXCEPT ![p] = to]
  /\ UNCHANGED ran

Show(p)    == Move(p, "asked", "shown")
Approve(p) == Move(p, "shown", "approved")

RunAction(p, s) ==
  /\ phase[p] = "approved"
  /\ ran[p][s] = 0
  /\ \A i \in 1..(s - 1) : ran[p][i] = 1
  /\ ran' = [ran EXCEPT ![p][s] = 1]
  /\ UNCHANGED phase

Close(p) ==
  /\ \A s \in Steps : ran[p][s] = 1
  /\ Move(p, "approved", "closed")

Work == \E p \in Plans :
  Ask(p) \/ Show(p) \/ Approve(p) \/ Close(p) \/ \E s \in Steps : RunAction(p, s)

Next == broken' \/ (Work /\ UNCHANGED broken)

Spec == Init /\ [][Next]_vars
=============================================================================
