---------------------------- MODULE AtomicChange ----------------------------
(***************************************************************************)
(* What applying proposals promises about the sources: the set of live     *)
(* changes only ever grows, by one change that the regression gate has     *)
(* accepted at a time; a rejected or previewed proposal leaves no trace.   *)
(* A gate that has not failed open accepts no harmful change.              *)
(***************************************************************************)
EXTENDS Naturals

CONSTANTS Changes, Harmful

VARIABLES
  live,  \* the changes in force
  open   \* the gate has failed open

Init == live = {} /\ open = FALSE

FailOpen == open' \in {open, TRUE}

Apply(x) ==
  /\ x \notin live
  /\ x \in Harmful => open'
  /\ live' = live \cup {x}
  /\ FailOpen

Next == (\E x \in Changes : Apply(x)) \/ (FailOpen /\ UNCHANGED live)

Spec == Init /\ [][Next]_<<live, open>>
=============================================================================
