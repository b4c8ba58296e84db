------------------------ MODULE VerifiedRuntimeProofs ------------------------
(***************************************************************************)
(* Proofs about VerifiedRuntime, for any files, processes, edits, merges   *)
(* and merges broken off.                                                  *)
(*                                                                         *)
(* Progress says how far the tree and the collected hashes are at every    *)
(* point of a merge; Loading what a process that verifies has loaded.      *)
(* Together with the types they are inductive, and give the four theorems. *)
(***************************************************************************)
EXTENDS VerifiedRuntime, TLAPS

\* The tree and the entries while no source was edited.
Progress ==
  /\ merger = "clean" => entries = Empty
  /\ merger = "write" => mark = "corrupt"
  /\ ~torn => \A f \in Files :
       /\ merger = "public" =>
            /\ entries[f] = IF f \in todo THEN Missing ELSE source["public"][f]
            /\ f \notin touched =>
                 tree[f] = IF f \in todo /\ f # placed THEN Missing ELSE source["public"][f]
       /\ merger = "private" =>
            /\ f \in todo => source["private"][f] # Missing
            /\ entries[f] = IF f \in todo THEN source["public"][f] ELSE Overlay(source)[f]
            /\ f \notin touched =>
                 tree[f] = IF f \in todo /\ f # placed THEN source["public"][f]
                           ELSE Overlay(source)[f]
       /\ merger = "write" =>
            /\ entries[f] = Overlay(source)[f]
            /\ f \notin touched => tree[f] = Overlay(source)[f]

\* What w has loaded, and the file it is about to read, are those of its manifest.
LoadingOf(w) ==
  /\ pc[w] = "read" => verified[w] \in unread[w]
  /\ pc[w] = "act" => unread[w] = {}
  /\ pc[w] \in {"load", "read", "act"} /\ verifier[w] # Nothing /\ ~disturbed[w] =>
       /\ \A f \in Files \ unread[w] : loaded[w][f] = verifier[w][f]
       /\ pc[w] = "read" => tree[verified[w]] = verifier[w][verified[w]]

Loading == \A w \in Workers : LoadingOf(w)

-----------------------------------------------------------------------------
(* Types *)

LEMMA OverlayIsTree == source \in [Sides -> Tree] => Overlay(source) \in Tree
BY DEF Overlay, Tree, Sides

LEMMA TypeInit == Init => TypeOK
<1> SUFFICES ASSUME Init PROVE TypeOK
    OBVIOUS
<1>1. MaxEdits \in Nat /\ MaxMerges \in Nat /\ MaxFaults \in Nat
    BY BoundsAssumption
<1>2. {0, 1, 2} \subseteq Contents
    BY <1>1 DEF Contents
<1>3. source \in [Sides -> Tree] /\ Empty \in Tree
  <2>1. \A side \in Sides : source[side] \in Tree
      BY <1>2 DEF Init, Tree, Missing
  <2>2. source \in [Sides -> Tree]
      BY <2>1 DEF Init
  <2> QED
      BY <2>2, <1>2 DEF Empty, Tree, Missing
<1>4. tree \in Tree /\ manifest \in Tree
    BY <1>3, OverlayIsTree DEF Init
<1>5. entries \in Tree /\ loaded \in [Workers -> Tree]
    BY <1>3 DEF Init
<1> QED
  <2>1. /\ mark \in {"none", "corrupt", "written"}
        /\ merger \in {"off", "clean", "public", "private", "write"}
        /\ todo \subseteq Files /\ placed \in Files \cup {NoFile}
        /\ torn \in BOOLEAN /\ touched \subseteq Files
      BY DEF Init
  <2>2. /\ pc \in [Workers -> {"off", "ready", "load", "read", "act"}]
        /\ verifier \in [Workers -> Tree \cup {Nothing}]
        /\ unread \in [Workers -> SUBSET Files]
        /\ verified \in [Workers -> Files \cup {NoFile}]
        /\ disturbed \in [Workers -> BOOLEAN]
      BY DEF Init
  <2>3. /\ edits \in 0..MaxEdits /\ merges \in 0..MaxMerges /\ faults \in 0..MaxFaults
      BY <1>1 DEF Init
  <2>4. merger = "off" /\ placed = NoFile
      BY DEF Init
  <2> QED
      BY <1>3, <1>4, <1>5, <2>1, <2>2, <2>3, <2>4 DEF TypeOK

LEMMA TypeStep == TypeOK /\ [Next]_vars => TypeOK'
<1> SUFFICES ASSUME TypeOK, [Next]_vars PROVE TypeOK'
    OBVIOUS
<1> USE BoundsAssumption, NamesAssumption DEF TypeOK, Sides
<1>0. CASE UNCHANGED vars
    BY <1>0 DEF vars, disk, merging, process, history, bounds
<1>e. Empty \in Tree
    BY DEF Empty, Tree, Contents, Missing
<1>1. CASE StartMerge
  <2>1. merges' \in 0..MaxMerges
      BY <1>1 DEF StartMerge
  <2> QED
      BY <1>1, <1>e, <2>1 DEF StartMerge, process
<1>2. ASSUME NEW f \in Files, Clean(f) PROVE TypeOK'
    BY <1>2 DEF Clean, Disturb, merging, process, history, bounds, Tree, Contents, Missing
<1>3. ASSUME NEW side \in Sides, Walk(side) PROVE TypeOK'
  <2>1. merger' \in Sides /\ todo' \subseteq Files /\ placed' = placed
      BY <1>3 DEF Walk
  <2>2. placed = NoFile
      BY <1>3 DEF Walk
  <2>3. merger' \in {"off", "clean", "public", "private", "write"}
      BY <2>1
  <2> QED
      BY <1>3, <2>1, <2>2, <2>3 DEF Walk, disk, process, history, bounds
<1>4. ASSUME NEW side \in Sides, NEW f \in Files, Place(side, f) PROVE TypeOK'
    BY <1>4 DEF Place, Disturb, Wins, process, history, bounds, Tree
<1>5. ASSUME NEW side \in Sides, Hash(side) PROVE TypeOK'
    BY <1>5 DEF Hash, Entered, disk, process, history, bounds, Tree
<1>6. CASE OpenManifest
    BY <1>6 DEF OpenManifest, process, history, bounds
<1>7. CASE WriteManifest
    BY <1>7, <1>e DEF WriteManifest, process, history, bounds
<1>8. CASE BreakOff
    BY <1>8, <1>e DEF BreakOff, disk, process, history
<1>9. ASSUME NEW w \in Workers, Run(w) \/ RunAgain(w) PROVE TypeOK'
  <2>1. CASE Boot(w)
      BY <2>1 DEF Boot, BuildVerifier, Load, disk, merging, history, bounds
  <2>2. CASE RunAgain(w)
      BY <2>2 DEF RunAgain, Load, disk, merging, history, bounds
  <2>3. ASSUME NEW f \in Files, Verify(w, f) PROVE TypeOK'
      BY <2>3 DEF Verify, disk, merging, history, bounds
  <2>4. ASSUME End(w) PROVE TypeOK'
      BY <2>4, <1>e DEF End, disk, merging, history, bounds
  <2>5. CASE Read(w)
    <3>1. verified[w] \in Files \cup {NoFile} /\ tree \in Tree
        OBVIOUS
    <3> QED
        BY <2>5 DEF Read, disk, merging, history, bounds, Tree
  <2> QED
      BY <1>9, <2>1, <2>2, <2>3, <2>4, <2>5 DEF Run, ReadNothing, Act, Refuse
<1>10. ASSUME NEW f \in Files, EditRuntime(f) PROVE TypeOK'
    BY <1>10 DEF EditRuntime, Disturb, merging, process, Tree, Contents
<1>11. ASSUME NEW f \in Files, NEW side \in Sides, EditSource(side, f) PROVE TypeOK'
    BY <1>11 DEF EditSource, merging, process, Tree, Contents
<1> QED
    BY <1>0, <1>1, <1>2, <1>3, <1>4, <1>5, <1>6, <1>7, <1>8, <1>9, <1>10, <1>11 DEF Next, Merge

(***************************************************************************)
(* Every variable keeps its type; a merge under way has withdrawn the      *)
(* manifest (overlay.py:317), and hashes the file it has just copied.      *)
(***************************************************************************)
THEOREM TypeCorrect == Spec => []TypeOK
<1> QED
    BY TypeInit, TypeStep, PTL DEF Spec

-----------------------------------------------------------------------------
(* The merge *)

LEMMA ProgressInit == Init => Progress
BY DEF Init, Progress

\* Nothing the merge has done is disturbed.
LEMMA ProgressFrame ==
  ASSUME Progress, UNCHANGED <<source, tree, mark, merger, todo, placed, entries, torn, touched>>
  PROVE  Progress'
BY DEF Progress, Overlay

LEMMA ProgressStep == TypeOK /\ Progress /\ [Next]_vars => Progress'
<1> SUFFICES ASSUME TypeOK, Progress, [Next]_vars PROVE Progress'
    OBVIOUS
<1>0. CASE UNCHANGED vars
    BY <1>0, ProgressFrame DEF vars, disk, merging, history
<1>1. CASE StartMerge
    BY <1>1 DEF StartMerge, Progress
<1>2. ASSUME NEW f \in Files, Clean(f) PROVE Progress'
    BY <1>2 DEF Clean, Progress, merging, history
<1>3. ASSUME NEW side \in Sides, Walk(side) PROVE Progress'
  <2>1. CASE side = "public"
    <3>1. entries = Empty /\ tree = Empty /\ merger' = "public"
        BY <1>3, <2>1 DEF Walk, Progress
    <3>2. \A f \in Files : f \in todo' <=> source["public"][f] # Missing
        BY <1>3, <2>1 DEF Walk
    <3>3. placed = NoFile /\ NoFile \notin Files
        BY <1>3, <2>1, NamesAssumption DEF Walk, TypeOK, Sides
    <3>4. \A f \in Files : entries[f] = Missing /\ tree[f] = Missing
        BY <3>1 DEF Empty
    <3>5. UNCHANGED <<source, tree, placed, entries, torn, touched>>
        BY <1>3 DEF Walk, disk, history
    <3> QED
        BY <3>1, <3>2, <3>3, <3>4, <3>5 DEF Progress
  <2>2. CASE side = "private"
    <3>1. merger = "public" /\ todo = {} /\ merger' = "private"
        BY <1>3, <2>2 DEF Walk
    <3>2. \A f \in Files : f \in todo' <=> source["private"][f] # Missing
        BY <1>3, <2>2 DEF Walk
    <3>3. \A f \in Files : Overlay(source)[f] = IF source["private"][f] # Missing
                                                THEN source["private"][f] ELSE source["public"][f]
        BY DEF Overlay
    <3>4. placed = NoFile /\ NoFile \notin Files
        BY <3>1, NamesAssumption DEF TypeOK
    <3> QED
        BY <1>3, <3>1, <3>2, <3>3, <3>4 DEF Walk, Progress, disk, history
  <2> QED
      BY <2>1, <2>2 DEF Sides
<1>4. ASSUME NEW side \in Sides, NEW f \in Files, Place(side, f) PROVE Progress'
  <2>1. /\ merger = side /\ placed = NoFile /\ f \in todo /\ placed' = f
        /\ UNCHANGED <<source, mark, merger, todo, entries, torn, touched>>
      BY <1>4 DEF Place, history
  <2>2. \A g \in Files : tree'[g] = IF g = f THEN source[side][f] ELSE tree[g]
      BY <1>4 DEF Place, Wins, TypeOK, Tree
  <2>3. NoFile \notin Files
      BY NamesAssumption
  <2>4. source["private"][f] # Missing => Overlay(source)[f] = source["private"][f]
      BY DEF Overlay
  <2>5. CASE side = "public"
      BY <2>1, <2>2, <2>3, <2>5 DEF Progress
  <2>6. CASE side = "private"
      BY <2>1, <2>2, <2>3, <2>4, <2>6 DEF Progress, Overlay
  <2> QED
      BY <2>5, <2>6 DEF Sides
<1>5. ASSUME NEW side \in Sides, Hash(side) PROVE Progress'
  <2>1. /\ merger = side /\ placed \in Files /\ placed \in todo
        /\ todo' = todo \ {placed} /\ placed' = NoFile
        /\ UNCHANGED <<source, tree, mark, merger, torn, touched>>
      BY <1>5 DEF Hash, TypeOK, disk, history
  <2>2. \A g \in Files : entries'[g] = IF g = placed THEN source[side][g] ELSE entries[g]
      BY <1>5 DEF Hash, Entered, TypeOK, Tree
  <2>3. NoFile \notin Files
      BY NamesAssumption
  <2>4. \A g \in Files : source["private"][g] # Missing
                            => Overlay(source)[g] = source["private"][g]
      BY DEF Overlay
  <2>5. CASE side = "public"
      BY <2>1, <2>2, <2>3, <2>5 DEF Progress
  <2>6. CASE side = "private"
      BY <2>1, <2>2, <2>3, <2>4, <2>6 DEF Progress, Overlay
  <2> QED
      BY <2>5, <2>6 DEF Sides
<1>6. CASE OpenManifest
    BY <1>6 DEF OpenManifest, Progress, Overlay, history
<1>7. CASE WriteManifest
    BY <1>7 DEF WriteManifest, Progress
<1>8. CASE BreakOff
    BY <1>8 DEF BreakOff, Progress
<1>9. ASSUME NEW w \in Workers, Run(w) \/ RunAgain(w) PROVE Progress'
  <2>1. UNCHANGED <<disk, merging, history>>
      BY <1>9 DEF Run, RunAgain, Boot, Load, Verify, Refuse, Read, ReadNothing, Act, End
  <2> QED
      BY <2>1, ProgressFrame DEF disk, merging, history
<1>10. ASSUME NEW f \in Files, EditRuntime(f) PROVE Progress'
  <2>1. /\ touched' = touched \cup {f}
        /\ UNCHANGED <<source, mark, merger, todo, placed, entries, torn>>
      BY <1>10 DEF EditRuntime, merging
  <2>2. \A g \in Files : g # f => tree'[g] = tree[g]
      BY <1>10 DEF EditRuntime, TypeOK, Tree
  <2> QED
      BY <2>1, <2>2 DEF Progress, Overlay
<1>11. ASSUME NEW f \in Files, NEW side \in Sides, EditSource(side, f) PROVE Progress'
    BY <1>11 DEF EditSource, Progress, merging
<1> QED
    BY <1>0, <1>1, <1>2, <1>3, <1>4, <1>5, <1>6, <1>7, <1>8, <1>9, <1>10, <1>11 DEF Next, Merge

-----------------------------------------------------------------------------
(* A manifest that is there fits the tree *)

LEMMA FitsInit == Init => ManifestFitsTree
BY DEF Init, ManifestFitsTree

LEMMA FitsStep ==
  TypeOK /\ Progress /\ ManifestFitsTree /\ [Next]_vars => ManifestFitsTree'
<1> SUFFICES ASSUME TypeOK, Progress, ManifestFitsTree, [Next]_vars PROVE ManifestFitsTree'
    OBVIOUS
<1>0. CASE UNCHANGED vars
    BY <1>0 DEF vars, disk, history, ManifestFitsTree
<1>1. CASE StartMerge
    BY <1>1 DEF StartMerge, ManifestFitsTree
<1>2. CASE Merge
  <2>1. CASE WriteManifest
      BY <1>2, <2>1 DEF WriteManifest, Progress, ManifestFitsTree, TypeOK, history
  <2>2. CASE ~WriteManifest
    <3>1. mark' # "written"
        BY <1>2, <2>2 DEF Merge, Clean, Walk, Place, Hash, OpenManifest, TypeOK, Progress, disk, Sides
    <3> QED
        BY <3>1 DEF ManifestFitsTree
  <2> QED
      BY <2>1, <2>2
<1>3. CASE BreakOff
    BY <1>3 DEF BreakOff, disk, history, ManifestFitsTree
<1>4. ASSUME NEW w \in Workers, Run(w) \/ RunAgain(w) PROVE ManifestFitsTree'
  <2>1. UNCHANGED <<disk, history>>
      BY <1>4 DEF Run, RunAgain, Boot, Load, Verify, Refuse, Read, ReadNothing, Act, End
  <2> QED
      BY <2>1 DEF disk, history, ManifestFitsTree
<1>5. ASSUME NEW f \in Files, EditRuntime(f) PROVE ManifestFitsTree'
  <2>1. touched' = touched \cup {f} /\ UNCHANGED <<mark, manifest, torn>>
      BY <1>5 DEF EditRuntime
  <2>2. \A g \in Files : g # f => tree'[g] = tree[g]
      BY <1>5 DEF EditRuntime, TypeOK, Tree
  <2> QED
      BY <2>1, <2>2 DEF ManifestFitsTree
<1>6. ASSUME NEW f \in Files, NEW side \in Sides, EditSource(side, f) PROVE ManifestFitsTree'
    BY <1>6 DEF EditSource, ManifestFitsTree, TypeOK
<1> QED
    BY <1>0, <1>1, <1>2, <1>3, <1>4, <1>5, <1>6 DEF Next

(***************************************************************************)
(* However merges are broken off and started again, a manifest on the disk *)
(* lists the tree as it is (overlay.py:317, 342-379, 396), but for sources *)
(* edited during the merge and files edited in the tree.                   *)
(***************************************************************************)
THEOREM ManifestIsTrue == Spec => []ManifestFitsTree
<1>1. Init => TypeOK /\ Progress /\ ManifestFitsTree
    BY TypeInit, ProgressInit, FitsInit
<1>2. TypeOK /\ Progress /\ ManifestFitsTree /\ [Next]_vars
        => (TypeOK /\ Progress /\ ManifestFitsTree)'
    BY TypeStep, ProgressStep, FitsStep
<1> QED
    BY <1>1, <1>2, PTL DEF Spec

-----------------------------------------------------------------------------
(* The processes *)

LEMMA LoadingInit == Init => Loading
BY DEF Init, Loading, LoadingOf

\* Only the file a process is about to read can disturb it.
LEMMA LoadingUnderChange ==
  ASSUME TypeOK, Loading, NEW f \in Files,
         \A g \in Files \ {f} : tree'[g] = tree[g],
         Disturb(f), UNCHANGED process
  PROVE  Loading'
<1> SUFFICES ASSUME NEW w \in Workers PROVE LoadingOf(w)'
    BY DEF Loading
<1>1. LoadingOf(w)
    BY DEF Loading
<1>2. disturbed'[w] = (disturbed[w] \/ verified[w] = f)
    BY DEF Disturb
<1>3. UNCHANGED <<pc, verifier, unread, verified, loaded>>
    BY DEF process
<1>4. unread[w] \subseteq Files
    BY DEF TypeOK
<1> QED
    BY <1>1, <1>2, <1>3, <1>4 DEF LoadingOf

LEMMA LoadingFrame ==
  ASSUME Loading, UNCHANGED <<tree, process, disturbed>>
  PROVE  Loading'
BY DEF Loading, LoadingOf, process

\* A step of w leaves the other processes alone.
LEMMA LoadingStepOf ==
  ASSUME TypeOK, Loading, NEW w \in Workers, Run(w) \/ RunAgain(w)
  PROVE  Loading'
<1>1. UNCHANGED disk
    BY DEF Run, RunAgain, Boot, Load, Verify, Refuse, Read, ReadNothing, Act, End
<1>2. \A v \in Workers \ {w} :
        /\ pc'[v] = pc[v] /\ verifier'[v] = verifier[v] /\ unread'[v] = unread[v]
        /\ verified'[v] = verified[v] /\ loaded'[v] = loaded[v]
        /\ disturbed'[v] = disturbed[v]
  <2>1. CASE Boot(w) \/ RunAgain(w)
      BY <2>1 DEF Boot, RunAgain, Load, TypeOK
  <2>2. CASE \E f \in Files : Verify(w, f)
      BY <2>2 DEF Verify, TypeOK
  <2>3. CASE Read(w)
      BY <2>3 DEF Read, TypeOK
  <2>4. CASE End(w)
      BY <2>4 DEF End, TypeOK
  <2> QED
      BY <2>1, <2>2, <2>3, <2>4 DEF Run, ReadNothing, Act, Refuse
<1>3. \A v \in Workers \ {w} : LoadingOf(v)'
    BY <1>1, <1>2 DEF Loading, LoadingOf, disk
<1>4. LoadingOf(w)
    BY DEF Loading
<1>5. LoadingOf(w)'
  <2>1. CASE Boot(w) \/ RunAgain(w)
    <3>1. pc'[w] = "load" /\ unread'[w] = Files
        BY <2>1 DEF Boot, RunAgain, Load, TypeOK
    <3> QED
        BY <3>1 DEF LoadingOf
  <2>2. ASSUME NEW f \in Files, Verify(w, f) PROVE LoadingOf(w)'
    <3>1. /\ pc[w] = "load" /\ f \in unread[w]
          /\ pc'[w] = "read" /\ verified'[w] = f
          /\ UNCHANGED <<tree, verifier, unread, loaded, disturbed>>
        BY <2>2 DEF Verify, TypeOK, disk
    <3>2. verifier[w] # Nothing => tree[f] = verifier[w][f]
        BY <2>2 DEF Verify, Accepted
    <3> QED
        BY <1>4, <3>1, <3>2 DEF LoadingOf
  <2>3. CASE Read(w)
    <3> DEFINE f == verified[w]
    <3>1. /\ pc[w] = "read" /\ f \in unread[w]
          /\ loaded'[w] = [loaded[w] EXCEPT ![f] = tree[f]]
          /\ unread'[w] = unread[w] \ {f}
          /\ pc'[w] = IF unread[w] = {f} THEN "act" ELSE "load"
          /\ UNCHANGED <<tree, verifier, disturbed>>
        BY <1>4, <2>3 DEF Read, LoadingOf, TypeOK, disk
    <3>2. \A g \in Files : loaded'[w][g] = IF g = f THEN tree[f] ELSE loaded[w][g]
        BY <3>1 DEF TypeOK, Tree
    <3>3. unread[w] \subseteq Files
        BY DEF TypeOK
    <3> QED
        BY <1>4, <3>1, <3>2, <3>3 DEF LoadingOf
  <2>4. CASE End(w)
    <3>1. pc'[w] \in {"off", "ready"}
        BY <2>4 DEF End, TypeOK
    <3> QED
        BY <3>1 DEF LoadingOf
  <2> QED
      BY <2>1, <2>2, <2>3, <2>4 DEF Run, ReadNothing, Act, Refuse
<1> QED
    BY <1>3, <1>5 DEF Loading

LEMMA LoadingStep == TypeOK /\ Loading /\ [Next]_vars => Loading'
<1> SUFFICES ASSUME TypeOK, Loading, [Next]_vars PROVE Loading'
    OBVIOUS
<1>1. ASSUME UNCHANGED <<tree, process, disturbed>> PROVE Loading'
    BY <1>1, LoadingFrame
<1>2. ASSUME NEW f \in Files, Clean(f) PROVE Loading'
  <2>1. \A g \in Files \ {f} : tree'[g] = tree[g]
      BY <1>2 DEF Clean, TypeOK, Tree
  <2> QED
      BY <1>2, <2>1, LoadingUnderChange DEF Clean
<1>3. ASSUME NEW side \in Sides, NEW f \in Files, Place(side, f) PROVE Loading'
  <2>1. \A g \in Files \ {f} : tree'[g] = tree[g]
      BY <1>3 DEF Place, TypeOK, Tree
  <2> QED
      BY <1>3, <2>1, LoadingUnderChange DEF Place
<1>4. ASSUME NEW f \in Files, EditRuntime(f) PROVE Loading'
  <2>1. \A g \in Files \ {f} : tree'[g] = tree[g]
      BY <1>4 DEF EditRuntime, TypeOK, Tree
  <2> QED
      BY <1>4, <2>1, LoadingUnderChange DEF EditRuntime
<1>5. CASE StartMerge \/ OpenManifest \/ WriteManifest \/ BreakOff
           \/ \E side \in Sides : Walk(side) \/ Hash(side)
    BY <1>1, <1>5 DEF StartMerge, OpenManifest, WriteManifest, BreakOff, Walk, Hash, disk
<1>6. CASE \E f \in Files, side \in Sides : EditSource(side, f)
    BY <1>1, <1>6 DEF EditSource
<1>7. CASE \E w \in Workers : Run(w) \/ RunAgain(w)
    BY <1>7, LoadingStepOf
<1>8. CASE UNCHANGED vars
    BY <1>1, <1>8 DEF vars, disk
<1> QED
    BY <1>2, <1>3, <1>4, <1>5, <1>6, <1>7, <1>8 DEF Next, Merge

LEMMA LoadingGivesOneMerge == TypeOK /\ Loading => ActsOnOneMerge
<1> SUFFICES ASSUME TypeOK, Loading, NEW w \in Workers,
                    pc[w] = "act", verifier[w] # Nothing, ~disturbed[w]
             PROVE  loaded[w] = verifier[w]
    BY DEF ActsOnOneMerge
<1>1. \A f \in Files : loaded[w][f] = verifier[w][f]
    BY DEF Loading, LoadingOf
<1>2. loaded[w] \in Tree /\ verifier[w] \in Tree
    BY DEF TypeOK
<1> QED
    BY <1>1, <1>2 DEF Tree

(***************************************************************************)
(* A process that verifies acts on the files of the merge whose manifest   *)
(* it read when it started, whatever is merged or edited while it loads    *)
(* them (verify.py:190, loaders.py:31-34), but for a file that changes     *)
(* between its verification and its reading.                               *)
(***************************************************************************)
THEOREM ActsOnItsMerge == Spec => []ActsOnOneMerge
<1>1. Init => TypeOK /\ Loading
    BY TypeInit, LoadingInit
<1>2. TypeOK /\ Loading /\ [Next]_vars => (TypeOK /\ Loading)'
    BY TypeStep, LoadingStep
<1> QED
    BY <1>1, <1>2, LoadingGivesOneMerge, PTL DEF Spec

-----------------------------------------------------------------------------
(* The refinement *)

Published == IF mark = "written" THEN manifest ELSE Nothing

LEMMA TreeIsNotNothing == ASSUME NEW t \in Tree PROVE t # Nothing
BY NothingAssumption, BoundsAssumption DEF Tree, Contents

LEMMA OverlayInit == Init => Abstract!Init
BY DEF Init, Abstract!Init, Overlay, Abstract!Overlay

LEMMA OverlayStep ==
  TypeOK /\ Progress /\ [Next]_vars
    => [Abstract!Edit \/ Abstract!Withdraw \/ Abstract!Publish]_(Abstract!vars)
<1> SUFFICES ASSUME TypeOK, Progress, [Next]_vars
             PROVE  Abstract!Edit \/ Abstract!Withdraw \/ Abstract!Publish
                      \/ UNCHANGED Abstract!vars
    OBVIOUS
<1>1. ASSUME UNCHANGED <<source, torn>>, Published' = Published
      PROVE  UNCHANGED Abstract!vars
    BY <1>1 DEF Abstract!vars, Published
<1>2. CASE StartMerge
    BY <1>2 DEF StartMerge, Abstract!Withdraw
<1>3. CASE WriteManifest
  <2>1. mark = "corrupt" /\ mark' = "written" /\ manifest' = entries /\ merger = "write"
        /\ UNCHANGED <<source, torn>>
      BY <1>3 DEF WriteManifest, Progress, history
  <2>2. entries # Nothing
      BY TreeIsNotNothing DEF TypeOK
  <2>3. ~torn => entries = Overlay(source)
      BY <2>1, OverlayIsTree DEF TypeOK, Progress, Tree
  <2>4. Overlay(source) = Abstract!Overlay(source)
      BY DEF Overlay, Abstract!Overlay
  <2> QED
      BY <2>1, <2>2, <2>3, <2>4 DEF Abstract!Publish
<1>4. CASE OpenManifest
    BY <1>1, <1>4 DEF OpenManifest, Published, TypeOK, history
<1>5. CASE BreakOff
    BY <1>1, <1>5 DEF BreakOff, Published, disk, history
<1>6. CASE \/ \E f \in Files : Clean(f)
           \/ \E side \in Sides : Walk(side) \/ Hash(side) \/ \E f \in Files : Place(side, f)
    BY <1>1, <1>6 DEF Clean, Walk, Hash, Place, Published, disk, history
<1>7. ASSUME NEW w \in Workers, Run(w) \/ RunAgain(w) PROVE UNCHANGED Abstract!vars
  <2>1. UNCHANGED <<disk, history>>
      BY <1>7 DEF Run, RunAgain, Boot, Load, Verify, Refuse, Read, ReadNothing, Act, End
  <2> QED
      BY <1>1, <2>1 DEF Published, disk, history
<1>8. CASE \E f \in Files : EditRuntime(f)
    BY <1>1, <1>8 DEF EditRuntime, Published
<1>9. ASSUME NEW f \in Files, NEW side \in Sides, EditSource(side, f) PROVE Abstract!Edit
  <2>1. torn \in BOOLEAN /\ torn' = (torn \/ merger # "off") /\ UNCHANGED <<mark, manifest>>
      BY <1>9 DEF EditSource, TypeOK
  <2> QED
      BY <2>1 DEF Abstract!Edit
<1>10. CASE UNCHANGED vars
    BY <1>1, <1>10 DEF vars, disk, history, Published
<1> QED
    BY <1>2, <1>3, <1>4, <1>5, <1>6, <1>7, <1>8, <1>9, <1>10 DEF Next, Merge

(***************************************************************************)
(* The merge, one file at a time and broken off anywhere, publishes the    *)
(* overlay of the two sources, the private file before the public one      *)
(* (overlay.py:320-409), or nothing.                                       *)
(***************************************************************************)
THEOREM MergePublishesOverlay == Spec => ImplementsOverlay
<1>1. Init => TypeOK /\ Progress
    BY TypeInit, ProgressInit
<1>2. TypeOK /\ Progress /\ [Next]_vars => (TypeOK /\ Progress)'
    BY TypeStep, ProgressStep
<1> QED
    BY <1>1, <1>2, OverlayInit, OverlayStep, PTL DEF Spec, ImplementsOverlay, Abstract!Spec

=============================================================================
