---------------------------- MODULE ApprovedWork ----------------------------
(***************************************************************************)
(* What the email daemon promises about the work a thread asks for: SAI    *)
(* asks, the operator approves, the work is marked begun before any of it  *)
(* is done, it is done once, on one mail's approval, and a request that is *)
(* over is never taken up again.  Work that was begun is proposed anew     *)
(* only if none of it was done.                                            *)
(*                                                                         *)
(* email_runner.py:1133 saves EXECUTING before the first step of a plan;   *)
(* PRINCIPLES.md, principles 2 and 3, want approval before side effects    *)
(* and a durable record of it.                                             *)
(***************************************************************************)
CONSTANTS
  Threads,
  Approvals  \* the mails that may approve

VARIABLES
  phase,  \* phase[t]: "none", "asked", "begun" or "over"
  work    \* work[t]: the mails on whose approval the work of t was done

vars == <<phase, work>>

Init ==
  /\ phase = [t \in Threads |-> "none"]
  /\ work = [t \in Threads |-> {}]

Move(t, from, to) ==
  /\ phase[t] = from
  /\ phase' = [phase EXCEPT ![t] = to]
  /\ UNCHANGED work

Ask(t)      == Move(t, "none", "asked")
Begin(t)    == Move(t, "asked", "begun")
AskAgain(t) == work[t] = {} /\ Move(t, "begun", "asked")

Work(t, m) ==
  /\ phase[t] = "begun" /\ work[t] = {}
  /\ work' = [work EXCEPT ![t] = {m}]
  /\ UNCHANGED phase

\* One request is answered, or several expire at once.
Close(S) ==
  /\ \A t \in S : phase[t] \in {"asked", "begun"}
  /\ phase' = [t \in Threads |-> IF t \in S THEN "over" ELSE phase[t]]
  /\ UNCHANGED work

Next ==
  \/ \E t \in Threads : Ask(t) \/ Begin(t) \/ AskAgain(t) \/ \E m \in Approvals : Work(t, m)
  \/ \E S \in SUBSET Threads : Close(S)

Spec == Init /\ [][Next]_vars
=============================================================================
