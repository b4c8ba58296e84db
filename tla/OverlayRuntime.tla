--------------------------- MODULE OverlayRuntime ---------------------------
(***************************************************************************)
(* What sai-overlay merge promises about the runtime: what is published is *)
(* the overlay of the two source trees as they were during one merge, the  *)
(* private file before the public one; while it changes nothing is         *)
(* published.  Sources edited during a merge may be published in part.     *)
(***************************************************************************)
EXTENDS Naturals

CONSTANTS Files, Missing, Nothing

VARIABLES
  source,     \* the contents of the public and of the private tree
  published,  \* the contents a verifier accepts, or Nothing
  torn        \* the sources were edited after the withdrawal, and published so

vars == <<source, published, torn>>

Overlay(s) == [f \in Files |-> IF s["private"][f] # Missing THEN s["private"][f]
                               ELSE s["public"][f]]

Init == published = Overlay(source) /\ torn = FALSE

Edit     == torn' \in {torn, TRUE} /\ UNCHANGED published
Withdraw == published' = Nothing /\ torn' = FALSE /\ UNCHANGED source
Publish  ==
  /\ published = Nothing
  /\ published' # Nothing
  /\ torn \/ published' = Overlay(source)
  /\ UNCHANGED <<source, torn>>

Spec == Init /\ [][Edit \/ Withdraw \/ Publish]_vars
=============================================================================
