--------------------------- MODULE VerifiedRuntime ---------------------------
(***************************************************************************)
(* The runtime tree: sai-overlay merge copies the public and the private   *)
(* source tree into it and lists the hash of every file in a manifest;     *)
(* processes read the manifest when they start and verify every workflow,  *)
(* policy and prompt before they parse it.                                 *)
(*                                                                         *)
(*   app/runtime/overlay.py          merge, _selective_clean               *)
(*   app/runtime/verify.py           Verifier, build_verifier_for_runtime  *)
(*   app/runtime/manifest.py         Manifest.load                         *)
(*   app/control_plane/loaders.py    the stores that verify and parse      *)
(*   app/control_plane/runner.py     _build_verifier, run_workflow         *)
(*                                                                         *)
(* A merge is not atomic: processes start and load while it removes and    *)
(* copies files, sources are edited under it, it dies on its way.          *)
(*                                                                         *)
(* Abstractions.  A content is a number, and its hash is the content.      *)
(* Merges are run with --clean, in copy mode, one at a time; verification  *)
(* is strict, the default.  Files are removed and copied in any order, for *)
(* their names are left out; the manifest's name sorts before theirs, and  *)
(* _selective_clean removes it first.                                      *)
(***************************************************************************)
EXTENDS Naturals, FiniteSets

CONSTANTS
  Files,       \* workflows, policies and prompts
  Overridden,  \* those the private tree has at first
  Workers,     \* processes that load them
  NoFile, Nothing,
  MaxEdits, MaxMerges, MaxFaults  \* bounds: edits, merges, merges broken off

ASSUME NamesAssumption  == Overridden \subseteq Files /\ NoFile \notin Files
ASSUME NothingAssumption == Nothing \notin [Files -> Nat]
ASSUME BoundsAssumption == {MaxEdits, MaxMerges, MaxFaults} \subseteq Nat

VARIABLES
  source,    \* the public and the private tree
  tree,      \* the runtime tree
  mark,      \* the manifest file: none, corrupt (written in part) or written
  manifest,  \* its last complete contents
  merger,    \* where the merge is
  todo,      \* files of the source it still has to visit
  placed,    \* the file it has copied and not hashed
  entries,   \* the hashes it has collected
  pc,        \* where each process is
  verifier,  \* the manifest it read at its start, or Nothing
  unread,    \* files it still has to load
  verified,  \* the file it has verified and not read
  loaded,    \* what it has parsed
  disturbed, \* history: a file changed between verification and parsing
  torn,      \* history: sources were edited during the merge
  touched,   \* history: files edited in the runtime tree since the merge began
  edits, merges, faults

disk    == <<source, tree, mark, manifest>>
merging == <<merger, todo, placed, entries>>
process == <<pc, verifier, unread, verified, loaded>>
history == <<torn, touched>>
bounds  == <<edits, merges, faults>>
vars    == <<disk, merging, process, disturbed, history, bounds>>

Sides    == {"public", "private"}
Missing  == 0
Contents == 0..(MaxEdits + 2)
Tree     == [Files -> Contents]
Empty    == [f \in Files |-> Missing]

TypeOK ==
  /\ source \in [Sides -> Tree] /\ tree \in Tree
  /\ mark \in {"none", "corrupt", "written"} /\ manifest \in Tree
  /\ merger \in {"off", "clean", "public", "private", "write"}
  /\ todo \subseteq Files /\ placed \in Files \cup {NoFile} /\ entries \in Tree
  /\ pc \in [Workers -> {"off", "ready", "load", "read", "act"}]
  /\ verifier \in [Workers -> Tree \cup {Nothing}]
  /\ unread \in [Workers -> SUBSET Files]
  /\ verified \in [Workers -> Files \cup {NoFile}]
  /\ loaded \in [Workers -> Tree]
  /\ disturbed \in [Workers -> BOOLEAN]
  /\ torn \in BOOLEAN /\ touched \subseteq Files
  /\ edits \in 0..MaxEdits /\ merges \in 0..MaxMerges /\ faults \in 0..MaxFaults
  \* A merge works without the manifest, and hashes what it has copied.
  /\ merger \in {"clean", "public", "private"} => mark = "none"
  /\ placed # NoFile => merger \in Sides /\ placed \in todo

-----------------------------------------------------------------------------
(* The merge *)

\* f changes under the processes that have verified it.
Disturb(f) == disturbed' = [w \in Workers |-> disturbed[w] \/ verified[w] = f]

\* _validate_paths, _selective_clean: the manifest goes first.
StartMerge ==
  /\ merger = "off" /\ merges < MaxMerges
  /\ merges' = merges + 1
  /\ merger' = "clean"
  /\ mark' = "none"
  /\ entries' = Empty
  /\ torn' = FALSE /\ touched' = {}
  /\ UNCHANGED <<source, tree, manifest, todo, placed, process, disturbed, edits, faults>>

Clean(f) ==
  /\ merger = "clean" /\ tree[f] # Missing
  /\ tree' = [tree EXCEPT ![f] = Missing]
  /\ Disturb(f)
  /\ UNCHANGED <<source, mark, manifest, merging, process, history, bounds>>

\* The walk of a tree begins when that before it is done.
Walk(side) ==
  /\ \/ side = "public" /\ merger = "clean" /\ tree = Empty
     \/ side = "private" /\ merger = "public" /\ todo = {}
  /\ merger' = side
  /\ todo' = {f \in Files : source[side][f] # Missing}
  /\ UNCHANGED <<disk, placed, entries, process, disturbed, history, bounds>>

\* Mutant of Wins: a file that is there is not replaced.
FirstWins(side, f) == IF tree[f] # Missing THEN tree[f] ELSE source[side][f]
Wins(side, f) == source[side][f]

\* _place: the copy, over the public file if there is one.
Place(side, f) ==
  /\ merger = side /\ placed = NoFile /\ f \in todo
  /\ tree' = [tree EXCEPT ![f] = Wins(side, f)]
  /\ placed' = f
  /\ Disturb(f)
  /\ UNCHANGED <<source, mark, manifest, merger, todo, entries, process, history, bounds>>

\* Mutant of Entered: the entry of the public file stays.
FirstEntered(side, f) == IF entries[f] # Missing THEN entries[f] ELSE source[side][f]
\* _hash_file reads the source once more.
Entered(side, f) == source[side][f]

Hash(side) ==
  /\ merger = side /\ placed # NoFile
  /\ entries' = [entries EXCEPT ![placed] = Entered(side, placed)]
  /\ todo' = todo \ {placed}
  /\ placed' = NoFile
  /\ UNCHANGED <<disk, merger, process, disturbed, history, bounds>>

\* _write_manifest: write_text truncates the file and then fills it.
OpenManifest ==
  /\ merger = "private" /\ todo = {}
  /\ merger' = "write"
  /\ mark' = "corrupt"
  /\ UNCHANGED <<source, tree, manifest, todo, placed, entries, process, disturbed,
                 history, bounds>>

WriteManifest ==
  /\ merger = "write"
  /\ merger' = "off"
  /\ mark' = "written"
  /\ manifest' = entries
  /\ entries' = Empty
  /\ UNCHANGED <<source, tree, todo, placed, process, disturbed, history, bounds>>

\* An exception (a type conflict is looked for after the cleaning) or a kill.
BreakOff ==
  /\ merger # "off" /\ faults < MaxFaults
  /\ faults' = faults + 1
  /\ merger' = "off"
  /\ todo' = {} /\ placed' = NoFile /\ entries' = Empty
  /\ UNCHANGED <<disk, process, disturbed, history, edits, merges>>

-----------------------------------------------------------------------------
(* A process *)

\* Mutant of Boot's manifest: one a process read before is used again.
Cached(w) == IF verifier[w] # Nothing THEN verifier[w]
             ELSE IF mark = "none" THEN Nothing ELSE manifest
\* build_verifier_for_runtime: without a manifest nothing is verified.
BuildVerifier(w) == IF mark = "none" THEN Nothing ELSE manifest

Load(w) ==
  /\ pc' = [pc EXCEPT ![w] = "load"]
  /\ unread' = [unread EXCEPT ![w] = Files]
  /\ UNCHANGED <<disk, merging, verified, loaded, disturbed, history, bounds>>

\* A ControlPlane is made and runs a workflow.  A corrupt manifest raises.
Boot(w) ==
  /\ pc[w] = "off" /\ mark # "corrupt"
  /\ verifier' = [verifier EXCEPT ![w] = BuildVerifier(w)]
  /\ Load(w)

\* A server, with the manifest it has, runs a workflow again.
RunAgain(w) ==
  /\ pc[w] = "ready"
  /\ Load(w)
  /\ UNCHANGED verifier

\* Mutant of Accepted: the hash is compared with the manifest on the disk.
AcceptedNow(w, f) ==
  tree[f] # Missing /\ tree[f] = IF verifier[w] = Nothing THEN tree[f] ELSE manifest[f]
\* Verifier.verify; without a verifier a file need only be there.
Accepted(w, f) ==
  tree[f] # Missing /\ tree[f] = IF verifier[w] = Nothing THEN tree[f] ELSE verifier[w][f]

Verify(w, f) ==
  /\ pc[w] = "load" /\ f \in unread[w]
  /\ Accepted(w, f)
  /\ pc' = [pc EXCEPT ![w] = "read"]
  /\ verified' = [verified EXCEPT ![w] = f]
  /\ UNCHANGED <<disk, merging, verifier, unread, loaded, disturbed, history, bounds>>

\* The run is over, and with it the process unless it is a server's.
End(w) ==
  /\ \E next \in {"off", "ready"} : pc' = [pc EXCEPT ![w] = next]
  /\ unread' = [unread EXCEPT ![w] = {}]
  /\ verified' = [verified EXCEPT ![w] = NoFile]
  /\ loaded' = [loaded EXCEPT ![w] = Empty]
  /\ disturbed' = [disturbed EXCEPT ![w] = FALSE]
  /\ UNCHANGED <<disk, merging, verifier, history, bounds>>

\* The file is missing, not registered, or has another hash.
Refuse(w, f) ==
  /\ pc[w] = "load" /\ f \in unread[w]
  /\ ~Accepted(w, f)
  /\ End(w)

Read(w) ==
  LET f == verified[w] IN
  /\ pc[w] = "read" /\ tree[f] # Missing
  /\ loaded' = [loaded EXCEPT ![w][f] = tree[f]]
  /\ unread' = [unread EXCEPT ![w] = @ \ {f}]
  /\ verified' = [verified EXCEPT ![w] = NoFile]
  /\ pc' = [pc EXCEPT ![w] = IF unread[w] = {f} THEN "act" ELSE "load"]
  /\ UNCHANGED <<disk, merging, verifier, disturbed, history, bounds>>

ReadNothing(w) ==
  /\ pc[w] = "read" /\ tree[verified[w]] = Missing
  /\ End(w)

Act(w) ==
  /\ pc[w] = "act"
  /\ End(w)

-----------------------------------------------------------------------------
(* The operator *)

EditSource(side, f) ==
  /\ edits < MaxEdits
  /\ edits' = edits + 1
  /\ source' = [source EXCEPT ![side][f] = edits + 3]
  /\ torn' = (torn \/ merger # "off")
  /\ UNCHANGED <<tree, mark, manifest, merging, process, disturbed, touched, merges, faults>>

EditRuntime(f) ==
  /\ edits < MaxEdits /\ tree[f] # Missing
  /\ edits' = edits + 1
  /\ tree' = [tree EXCEPT ![f] = edits + 3]
  /\ touched' = touched \cup {f}
  /\ Disturb(f)
  /\ UNCHANGED <<source, mark, manifest, merging, process, torn, merges, faults>>

-----------------------------------------------------------------------------

Overlay(s) == [f \in Files |-> IF s["private"][f] # Missing THEN s["private"][f]
                               ELSE s["public"][f]]

\* A merge was done, and no process runs.
Init ==
  /\ source = [side \in Sides |-> [f \in Files |->
                 IF side = "public" THEN 1 ELSE IF f \in Overridden THEN 2 ELSE Missing]]
  /\ tree = Overlay(source) /\ mark = "written" /\ manifest = tree
  /\ merger = "off" /\ todo = {} /\ placed = NoFile /\ entries = Empty
  /\ pc = [w \in Workers |-> "off"] /\ verifier = [w \in Workers |-> Nothing]
  /\ unread = [w \in Workers |-> {}] /\ verified = [w \in Workers |-> NoFile]
  /\ loaded = [w \in Workers |-> Empty] /\ disturbed = [w \in Workers |-> FALSE]
  /\ torn = FALSE /\ touched = {}
  /\ edits = 0 /\ merges = 0 /\ faults = 0

Merge ==
  \/ \E f \in Files : Clean(f)
  \/ \E side \in Sides : Walk(side) \/ Hash(side) \/ \E f \in Files : Place(side, f)
  \/ OpenManifest \/ WriteManifest

Run(w) ==
  \/ Boot(w) \/ Read(w) \/ ReadNothing(w) \/ Act(w)
  \/ \E f \in Files : Verify(w, f) \/ Refuse(w, f)

Next ==
  \/ StartMerge \/ Merge \/ BreakOff
  \/ \E w \in Workers : Run(w) \/ RunAgain(w)
  \/ \E f \in Files : EditRuntime(f) \/ \E side \in Sides : EditSource(side, f)

Spec == Init /\ [][Next]_vars

\* A merge and a run go on, and a process that ended is started again.
FairSpec == Spec /\ WF_vars(Merge) /\ \A w \in Workers : WF_vars(Run(w))

-----------------------------------------------------------------------------
(* Properties *)

(***************************************************************************)
(* A manifest on the disk lists the tree as it is: removed before and      *)
(* written after the files, it never stands beside a half-merged tree,     *)
(* however a merge was broken off.  A source edited between its copy and   *)
(* its hash (overlay.py:353-356), and a file edited in the tree, are the   *)
(* exceptions, which verification refuses.                                 *)
(***************************************************************************)
ManifestFitsTree ==
  mark = "written" => torn \/ \A f \in Files \ touched : tree[f] = manifest[f]

(***************************************************************************)
(* A verifying process acts on files of one merge, the one whose manifest  *)
(* it read when it started, whatever is merged or edited while it loads    *)
(* them (verify.py:190 "the manifest is cached").  A file that changes     *)
(* between its verification and its reading (loaders.py:31-34) is the      *)
(* exception: both open the file.                                          *)
(***************************************************************************)
ActsOnOneMerge ==
  \A w \in Workers :
    pc[w] = "act" /\ verifier[w] # Nothing /\ ~disturbed[w] => loaded[w] = verifier[w]

(***************************************************************************)
(* Refusals do not last: while the manifest fits the tree, a process that  *)
(* ends now and then acts, though merges changed the files under it.  (One *)
(* that never ends keeps its manifest and refuses for good: verify.py:205  *)
(* "Construct once at process startup".)                                   *)
(***************************************************************************)
Intact == mark = "written" /\ tree = manifest
RefusalsEnd ==
  \A w \in Workers : []<>(pc[w] = "off") => []<>(Intact => pc[w] = "act" /\ loaded[w] = manifest)

Abstract == INSTANCE OverlayRuntime WITH
  published <- IF mark = "written" THEN manifest ELSE Nothing

(***************************************************************************)
(* The merge, file by file, publishes the overlay of the sources as they   *)
(* were (overlay.py:8 "File-level override only").                         *)
(***************************************************************************)
ImplementsOverlay == Abstract!Spec
=============================================================================
