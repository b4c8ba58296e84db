---------------------------- MODULE EvalLoopProofs ----------------------------
(***************************************************************************)
(* Proofs about EvalLoop, for any number of inputs, runs, asks and crashes *)
(* and any windows and budget.                                             *)
(*                                                                         *)
(* What every theorem but the first rests on is that one program is active *)
(* at a time (Alone): the lines it has read are then still the last lines  *)
(* of their records when it writes changed copies of them (Fresh).         *)
(***************************************************************************)
EXTENDS EvalLoop, FiniteSetTheorems, TLAPS

\* The answer that is propagated is there, and it is valid.
Answered ==
  /\ \A a \in Asks : ask[a].status = "answered" => replies[a] # <<>> /\ replies[a][1] = "reply"
  /\ answering # NoAsk => ask[answering].status = "answered"

\* "The runtime should ensure single-writer-per-task".
Alone == \A p, q \in Active : p = q

-----------------------------------------------------------------------------
(* Types *)

LEMMA Parameters ==
  /\ Budget \in Nat /\ BudgetWindow \in Nat /\ AskWindow \in Nat /\ RecordWindow \in Nat
  /\ MaxRuns \in Nat /\ MaxAsks \in Nat /\ MaxTime \in Nat /\ MaxCrashes \in Nat
  BY WindowAssumption, BoundsAssumption

LEMMA LineTypes ==
  /\ NoRec \in Rec
  /\ \A v \in Rec : Skipped(v) \in Rec
  /\ \A v \in Rec, a \in Asks : LinkedTo(v, a) \in Rec
  /\ \A v \in Rec, x \in Reality : WithReality(v, x) \in Rec
  /\ NoLine \notin Lines
<1>1. NoRec \in Rec
  BY Parameters DEF NoRec, Rec, Reality, Statuses, NoAsk
<1>2. \A v \in Rec : Skipped(v) \in Rec
  BY DEF Rec, Skipped, Statuses
<1>3. \A v \in Rec, a \in Asks : LinkedTo(v, a) \in Rec
  BY DEF Rec, LinkedTo, Statuses
<1>4. \A v \in Rec, x \in Reality : WithReality(v, x) \in Rec
  BY DEF Rec, WithReality, Statuses
<1>5. NoLine \notin Lines
  <2>1. NoLine.at = <<>>
    BY DEF NoLine
  <2>2. \A l \in Lines : l.at \in Inputs \X (1..MaxRuns)
    BY DEF Lines, Records
  <2>3. <<>> \notin Inputs \X (1..MaxRuns)
    OBVIOUS
  <2>. QED
    BY <2>1, <2>2, <2>3
<1>. QED
  BY <1>1, <1>2, <1>3, <1>4, <1>5

LEMMA FoldedTypes ==
  ASSUME TypeOK
  PROVE  Folded \subseteq Lines
<1>1. ASSUME NEW i \in Inputs, top[i] > 0
      PROVE  [at |-> <<i, top[i]>>, val |-> rec[<<i, top[i]>>]] \in Lines
  <2>1. top[i] \in 1..MaxRuns
    BY <1>1, Parameters DEF TypeOK
  <2>2. <<i, top[i]>> \in Records
    BY <2>1 DEF Records
  <2>. QED
    BY <2>2 DEF TypeOK, Lines
<1>. QED
  BY <1>1 DEF Folded

LEMMA WriteTypes ==
  ASSUME TypeOK, NEW r \in Records, NEW v \in Rec, Write(r, v)
  PROVE  rec' \in [Records -> Rec] /\ top' \in [Inputs -> 0..MaxRuns]
  BY Parameters DEF TypeOK, Write, Records

LEMMA PostTypes ==
  ASSUME TypeOK, NEW i \in Inputs, NEW p \in {"cascade", "orchestrator"}, PostAsk(i, p)
  PROVE  /\ ask' \in [Asks -> Ask]
         /\ NextAsk \in Asks
         /\ \A a \in Asks : a # NextAsk => ask'[a] = ask[a]
         /\ ask'[NextAsk].status = "open"
         /\ ask'[NextAsk].by = p
  <1>1. NextAsk \in Asks
    BY DEF PostAsk
  <1>2. [status |-> "open", posted |-> now, about |-> i, by |-> p] \in Ask
    BY DEF Ask, TypeOK
  <1>. QED
    BY <1>1, <1>2 DEF PostAsk, TypeOK

LEMMA WhoIsActive ==
  /\ Active \subseteq Programs
  /\ "cascade" \in Active <=> line["cascade"] # NoLine
  /\ "orchestrator" \in Active <=> line["orchestrator"] # NoLine \/ review # NoReview
  /\ "reconciler" \in Active <=> scan # NoScan
  /\ "poller" \in Active <=> polled # NoPoll \/ answering # NoAsk
  BY DEF Active, Programs

LEMMA NextAlone ==
  ASSUME TypeOK, Alone, [Next]_vars
  PROVE  Alone'
<1>. USE DEF logs, operator, programs
<1>1. ASSUME Active' \subseteq Active PROVE Alone'
  BY <1>1 DEF Alone
<1>2. ASSUME MayStart, NEW p, Active' \subseteq {p} PROVE Alone'
  BY <1>2 DEF Alone
<1>3. ASSUME NEW i \in Inputs, Resolve(i) \/ Relabel(i) PROVE Alone'
  BY <1>3, <1>1 DEF Resolve, Relabel, Active
<1>4. ASSUME NEW i \in Inputs, Escalate(i) PROVE Alone'
  <2>1. Active' \subseteq {"cascade"}
    BY <1>4 DEF Escalate, Processes, MayStart, Active, TypeOK
  <2>. QED
    BY <1>4, <2>1, <1>2 DEF Escalate, Processes
<1>5. ASSUME NEW p \in DOMAIN line, Link(p) PROVE Alone'
  <2>1. Active' \subseteq Active
    BY <1>5 DEF Link, Active, TypeOK
  <2>. QED
    BY <2>1, <1>1
<1>6. ASSUME Review PROVE Alone'
  <2>1. Active' \subseteq {"orchestrator"}
    BY <1>6 DEF Review, MayStart, Active
  <2>. QED
    BY <1>6, <2>1, <1>2 DEF Review
<1>7. ASSUME ReviewNext PROVE Alone'
  <2>1. review # NoReview
    BY <1>7 DEF ReviewNext, NoReview
  <2>2. line'["cascade"] = line["cascade"]
    BY <1>7 DEF ReviewNext, SkipCandidate, LeaveCandidate, AskAboutCandidate, TypeOK
  <2>3. scan' = scan /\ polled' = polled /\ answering' = answering
    BY <1>7 DEF ReviewNext
  <2>4. Active' \subseteq Active
    BY <2>1, <2>2, <2>3 DEF Active
  <2>. QED
    BY <2>4, <1>1
<1>8. ASSUME NEW kind \in Reconcilers, StartScan(kind) PROVE Alone'
  <2>1. Active' \subseteq {"reconciler"}
    BY <1>8 DEF StartScan, MayStart, Active
  <2>. QED
    BY <1>8, <2>1, <1>2 DEF StartScan
<1>9. ASSUME ScanNext PROVE Alone'
  <2>1. Active' \subseteq Active
    BY <1>9 DEF ScanNext, Active, NoScan
  <2>. QED
    BY <2>1, <1>1
<1>10. ASSUME Poll PROVE Alone'
  <2>1. Active' \subseteq {"poller"}
    BY <1>10 DEF Poll, MayStart, Active
  <2>. QED
    BY <1>10, <2>1, <1>2 DEF Poll
<1>11. ASSUME PollNext PROVE Alone'
  <2>1. polled # NoPoll
    BY <1>11 DEF PollNext, NoPoll
  <2>2. Active' \subseteq Active
    BY <1>11, <2>1 DEF PollNext, Active
  <2>. QED
    BY <2>2, <1>1
<1>12. ASSUME Propagate PROVE Alone'
  <2>1. Active' \subseteq Active
    BY <1>12 DEF Propagate, Active
  <2>. QED
    BY <2>1, <1>1
<1>13. ASSUME \/ \E a \in Asks : Reply(a)
              \/ Tick
              \/ UNCHANGED vars
       PROVE  Alone'
  <2>1. Active' = Active
    BY <1>13 DEF Reply, Tick, vars, Active
  <2>. QED
    BY <2>1, <1>1
<1>14. ASSUME NEW p \in Programs, Crash(p) PROVE Alone'
  <2>1. Active' \subseteq Active
    BY <1>14 DEF Crash, Active, TypeOK
  <2>. QED
    BY <2>1, <1>1
<1>. QED
  BY <1>3, <1>4, <1>5, <1>6, <1>7, <1>8, <1>9, <1>10, <1>11, <1>12, <1>13, <1>14 DEF Next

LEMMA NextTypes ==
  ASSUME TypeOK, Alone, Answered, [Next]_vars
  PROVE  TypeOK' /\ Answered'
<1>. USE Parameters
<1>. USE DEF logs, operator, programs
<1>1. ASSUME NEW i \in Inputs, Resolve(i) PROVE TypeOK' /\ Answered'
  <2>1. NewRecord(i) \in Records /\ now \in 0..MaxTime
    BY <1>1 DEF Resolve, Processes, TypeOK
  <2>2. PICK d \in BOOLEAN :
          Write(NewRecord(i), [NoRec EXCEPT !.status = "PENDING", !.born = now, !.disagree = d])
    BY <1>1 DEF Resolve
  <2>3. [NoRec EXCEPT !.status = "PENDING", !.born = now, !.disagree = d] \in Rec
    BY <2>1 DEF NoRec, Rec, Statuses, Reality
  <2>4. rec' \in [Records -> Rec] /\ top' \in [Inputs -> 0..MaxRuns]
    BY <2>1, <2>2, <2>3, WriteTypes
  <2>. QED
    BY <1>1, <2>4 DEF Resolve, TypeOK, Answered
<1>2. ASSUME NEW i \in Inputs, Escalate(i) PROVE TypeOK' /\ Answered'
  <2>1. NewRecord(i) \in Records /\ now \in 0..MaxTime
    BY <1>2 DEF Escalate, Processes, TypeOK
  <2>2. ask' \in [Asks -> Ask] /\ NextAsk \in Asks /\ ask'[NextAsk].status = "open"
        /\ \A a \in Asks : a # NextAsk => ask'[a] = ask[a]
    BY <1>2, PostTypes DEF Escalate
  <2>3. [NoRec EXCEPT !.born = now] \in Rec
    BY <2>1, LineTypes DEF Rec
  <2>4. [at |-> NewRecord(i), val |-> LinkedTo([NoRec EXCEPT !.born = now], NextAsk)] \in Lines
    BY <2>1, <2>2, <2>3, LineTypes DEF Lines
  <2>5. line' \in [{"cascade", "orchestrator"} -> Lines \cup {NoLine}]
    BY <1>2, <2>4 DEF Escalate, TypeOK
  <2>6. answering = NoAsk
    BY <1>2 DEF Escalate, Processes, MayStart, Active
  <2>7. UNCHANGED <<rec, top, replies, mail, now, crashes, review, scan, polled, answering>>
    BY <1>2 DEF Escalate, operator
  <2>8. TypeOK'
    BY <2>2, <2>5, <2>7 DEF TypeOK
  <2>9. Answered'
    BY <2>2, <2>6, <2>7 DEF Answered
  <2>. QED
    BY <2>8, <2>9
<1>3. ASSUME NEW p \in DOMAIN line, Link(p) PROVE TypeOK' /\ Answered'
  <2>1. p \in {"cascade", "orchestrator"} /\ line[p] \in Lines
    BY <1>3 DEF Link, TypeOK
  <2>2. rec' \in [Records -> Rec] /\ top' \in [Inputs -> 0..MaxRuns]
    BY <1>3, <2>1, WriteTypes DEF Link, Lines
  <2>3. line' \in [{"cascade", "orchestrator"} -> Lines \cup {NoLine}]
    BY <1>3, <2>1 DEF Link, TypeOK
  <2>. QED
    BY <1>3, <2>2, <2>3 DEF Link, TypeOK, Answered
<1>4. ASSUME Review PROVE TypeOK' /\ Answered'
  <2>1. Candidates \subseteq Lines
    BY FoldedTypes DEF Candidates
  <2>2. Cardinality(RecentAsks) \in Nat
    <3>1. RecentAsks \subseteq 1..MaxAsks
      BY DEF RecentAsks, Asks
    <3>2. IsFiniteSet(1..MaxAsks)
      BY FS_Interval
    <3>. QED
      BY <3>1, <3>2, FS_Subset, FS_CardinalityType
  <2>3. review' \in [lines : SUBSET Lines, left : Int, thin : BOOLEAN]
    BY <1>4, <2>1, <2>2 DEF Review
  <2>. QED
    BY <1>4, <2>3 DEF Review, TypeOK, Answered
<1>5. ASSUME ReviewNext PROVE TypeOK' /\ Answered'
  <2>1. PICK l \in review.lines :
          ComesNext(l) /\ (SkipCandidate(l) \/ LeaveCandidate(l) \/ AskAboutCandidate(l))
    BY <1>5 DEF ReviewNext
  <2>2. l \in Lines /\ l.at \in Records /\ l.val \in Rec
    BY DEF TypeOK, Lines
  <2>3. ASSUME NEW n \in Int, LookedAt(l, n)
        PROVE  review' \in [lines : SUBSET Lines, left : Int, thin : BOOLEAN]
    <3>1. review \in [lines : SUBSET Lines, left : Int, thin : BOOLEAN]
      BY DEF TypeOK
    <3>2. NoReview \in [lines : SUBSET Lines, left : Int, thin : BOOLEAN]
      BY DEF NoReview
    <3>3. [review EXCEPT !.lines = review.lines \ {l}, !.left = n]
            \in [lines : SUBSET Lines, left : Int, thin : BOOLEAN]
      BY <3>1
    <3>. QED
      BY <2>3, <3>2, <3>3 DEF LookedAt
  <2>4. review.left \in Int
    BY DEF TypeOK
  <2>5. CASE SkipCandidate(l)
    <3>1. rec' \in [Records -> Rec] /\ top' \in [Inputs -> 0..MaxRuns]
      BY <2>5, <2>2, LineTypes, WriteTypes DEF SkipCandidate
    <3>2. review' \in [lines : SUBSET Lines, left : Int, thin : BOOLEAN]
      BY <2>5, <2>3, <2>4 DEF SkipCandidate
    <3>. QED
      BY <1>5, <2>5, <3>1, <3>2 DEF ReviewNext, SkipCandidate, TypeOK, Answered
  <2>6. CASE LeaveCandidate(l)
    <3>1. review' \in [lines : SUBSET Lines, left : Int, thin : BOOLEAN]
      BY <2>6, <2>3, <2>4 DEF LeaveCandidate
    <3>. QED
      BY <1>5, <2>6, <3>1 DEF ReviewNext, LeaveCandidate, TypeOK, Answered
  <2>7. CASE AskAboutCandidate(l)
    <3>1. review' \in [lines : SUBSET Lines, left : Int, thin : BOOLEAN]
      BY <2>7, <2>3, <2>4 DEF AskAboutCandidate
    <3>2. l.at[1] \in Inputs
      BY <2>2 DEF Records
    <3>3. ask' \in [Asks -> Ask] /\ NextAsk \in Asks /\ ask'[NextAsk].status = "open"
          /\ \A a \in Asks : a # NextAsk => ask'[a] = ask[a]
      BY <2>7, <3>2, PostTypes DEF AskAboutCandidate
    <3>4. [l EXCEPT !.val = LinkedTo(@, NextAsk)] \in Lines
      BY <2>2, <3>3, LineTypes DEF Lines
    <3>5. line' \in [{"cascade", "orchestrator"} -> Lines \cup {NoLine}]
      BY <2>7, <3>4 DEF AskAboutCandidate, TypeOK
    <3>6. answering = NoAsk /\ answering' = NoAsk
      <4>1. review # NoReview
        BY <2>1 DEF NoReview
      <4>. QED
        BY <1>5, <4>1, WhoIsActive DEF Alone, ReviewNext
    <3>7. UNCHANGED <<rec, top, replies, mail, now, crashes, scan, polled>>
      BY <1>5, <2>7 DEF ReviewNext, AskAboutCandidate, operator
    <3>8. TypeOK'
      BY <3>1, <3>3, <3>5, <3>6, <3>7 DEF TypeOK
    <3>9. Answered'
      BY <3>3, <3>6, <3>7 DEF Answered
    <3>. QED
      BY <3>8, <3>9
  <2>. QED
    BY <2>1, <2>5, <2>6, <2>7
<1>6. ASSUME NEW kind \in Reconcilers, StartScan(kind) PROVE TypeOK' /\ Answered'
  <2>1. scan' \in [lines : SUBSET Lines, kind : Reconcilers \cup {"none"}, day : 0..MaxTime]
    BY <1>6, FoldedTypes DEF StartScan, Unsettled, TypeOK
  <2>. QED
    BY <1>6, <2>1 DEF StartScan, TypeOK, Answered
<1>7. ASSUME ScanNext PROVE TypeOK' /\ Answered'
  <2>1. PICK l \in scan.lines :
          /\ \/ WindowIsOver(l) /\ Write(l.at, Skipped(l.val))
             \/ /\ ~WindowIsOver(l) /\ Observed(l) # "none"
                /\ Write(l.at, WithReality(l.val, Observed(l)))
             \/ ~WindowIsOver(l) /\ Observed(l) = "none" /\ UNCHANGED <<rec, top>>
          /\ scan' = IF scan.lines = {l} THEN NoScan ELSE [scan EXCEPT !.lines = @ \ {l}]
    BY <1>7 DEF ScanNext
  <2>2. l.at \in Records /\ l.val \in Rec /\ l.at[1] \in Inputs
    BY DEF TypeOK, Lines, Records
  <2>3. Observed(l) \in Reality
    BY <2>2 DEF Observed, TypeOK, Answered, Reality, Rec
  <2>4. rec' \in [Records -> Rec] /\ top' \in [Inputs -> 0..MaxRuns]
    <3>1. CASE Write(l.at, Skipped(l.val))
      BY <3>1, <2>2, LineTypes, WriteTypes
    <3>2. CASE Write(l.at, WithReality(l.val, Observed(l)))
      BY <3>2, <2>2, <2>3, LineTypes, WriteTypes
    <3>. QED
      BY <2>1, <3>1, <3>2 DEF TypeOK
  <2>5. scan' \in [lines : SUBSET Lines, kind : Reconcilers \cup {"none"}, day : 0..MaxTime]
    <3>1. scan \in [lines : SUBSET Lines, kind : Reconcilers \cup {"none"}, day : 0..MaxTime]
      BY DEF TypeOK
    <3>2. NoScan \in [lines : SUBSET Lines, kind : Reconcilers \cup {"none"}, day : 0..MaxTime]
      BY Parameters DEF NoScan
    <3>3. [scan EXCEPT !.lines = @ \ {l}]
            \in [lines : SUBSET Lines, kind : Reconcilers \cup {"none"}, day : 0..MaxTime]
      BY <3>1
    <3>. QED
      BY <2>1, <3>2, <3>3
  <2>. QED
    BY <1>7, <2>4, <2>5 DEF ScanNext, TypeOK, Answered
<1>8. ASSUME Poll PROVE TypeOK' /\ Answered'
  BY <1>8 DEF Poll, OpenAsks, TypeOK, Answered
<1>9. ASSUME PollNext PROVE TypeOK' /\ Answered'
  <2>1. PICK a \in polled.asks :
          /\ ExpireAsk(a) \/ LeaveAskOpen(a) \/ TakeAnswer(a)
          /\ polled' = IF polled.asks = {a} THEN NoPoll ELSE [polled EXCEPT !.asks = @ \ {a}]
    BY <1>9 DEF PollNext
  <2>2. a \in Asks /\ ask[a] \in Ask
    BY DEF TypeOK
  <2>3. polled' \in [asks : SUBSET Asks, day : 0..MaxTime]
    BY <2>1 DEF TypeOK, NoPoll
  <2>4. ASSUME NEW s \in {"expired", "answered"}, SetAsk(a, s)
        PROVE  ask' \in [Asks -> Ask] /\ ask'[a].status = s
               /\ \A b \in Asks : b # a => ask'[b] = ask[b]
    <3>1. [ask[a] EXCEPT !.status = s] \in Ask /\ [ask[a] EXCEPT !.status = s].status = s
      BY <2>2 DEF Ask
    <3>2. ask \in [Asks -> Ask] /\ ask' = [ask EXCEPT ![a] = [ask[a] EXCEPT !.status = s]]
      BY <2>4 DEF SetAsk, TypeOK
    <3>. QED
      BY <2>2, <3>1, <3>2
  <2>5. /\ UNCHANGED <<rec, top, replies, mail, now, crashes, line, review, scan>>
        /\ answering = NoAsk
    BY <1>9 DEF PollNext, operator
  <2>6. CASE ExpireAsk(a)
    <3>1. /\ ask' \in [Asks -> Ask] /\ ask'[a].status = "expired" /\ answering' = answering
          /\ \A b \in Asks : b # a => ask'[b] = ask[b]
      BY <2>4, <2>6 DEF ExpireAsk
    <3>2. TypeOK'
      BY <2>3, <2>5, <3>1 DEF TypeOK
    <3>3. Answered'
      BY <2>5, <3>1 DEF Answered
    <3>. QED
      BY <3>2, <3>3
  <2>7. CASE LeaveAskOpen(a)
    BY <1>9, <2>3, <2>7 DEF PollNext, LeaveAskOpen, TypeOK, Answered
  <2>8. CASE TakeAnswer(a)
    <3>1. replies[a] # <<>> /\ replies[a][1] = "reply"
      <4>1. replies[a] \in Seq(Answers) /\ replies[a] # <<>> /\ replies[a][1] # "invalid"
        BY <2>2, <2>8 DEF TypeOK, TakeAnswer, HasAnswer
      <4>2. replies[a][1] \in Answers
        BY <4>1
      <4>. QED
        BY <4>1, <4>2 DEF Answers
    <3>2. /\ ask' \in [Asks -> Ask] /\ ask'[a].status = "answered" /\ answering' = a
          /\ \A b \in Asks : b # a => ask'[b] = ask[b]
      BY <2>4, <2>8 DEF TakeAnswer
    <3>3. TypeOK'
      BY <2>2, <2>3, <2>5, <3>2 DEF TypeOK
    <3>4. Answered'
      BY <2>2, <2>5, <3>1, <3>2 DEF Answered
    <3>. QED
      BY <3>3, <3>4
  <2>. QED
    BY <2>1, <2>6, <2>7, <2>8
<1>10. ASSUME Propagate PROVE TypeOK' /\ Answered'
  <2>1. rec' \in [Records -> Rec] /\ top' \in [Inputs -> 0..MaxRuns]
    <3>1. CASE AnswersTo(answering) = {}
      BY <1>10, <3>1 DEF Propagate, TypeOK
    <3>2. CASE AnswersTo(answering) # {}
      <4>1. PICK r \in AnswersTo(answering) :
              Write(r, WithReality(rec[r], replies[answering][1]))
        BY <1>10, <3>2 DEF Propagate
      <4>2. r \in Records /\ rec[r] \in Rec
        BY DEF AnswersTo, TypeOK
      <4>3. answering \in Asks /\ replies[answering][1] = "reply"
        BY <1>10 DEF Propagate, TypeOK, Answered
      <4>. QED
        BY <4>1, <4>2, <4>3, LineTypes, WriteTypes DEF Reality
    <3>. QED
      BY <3>1, <3>2
  <2>. QED
    BY <1>10, <2>1 DEF Propagate, TypeOK, Answered
<1>11. ASSUME NEW a \in Asks, Reply(a) PROVE TypeOK' /\ Answered'
  <2>1. PICK x \in Answers : replies' = [replies EXCEPT ![a] = Append(@, x)]
    BY <1>11 DEF Reply
  <2>2. replies' \in [Asks -> Seq(Answers)]
    BY <2>1 DEF TypeOK
  <2>3. ask[a].status # "answered"
    BY <1>11 DEF Reply, Answered
  <2>. QED
    BY <1>11, <2>1, <2>2, <2>3 DEF Reply, TypeOK, Answered
<1>12. ASSUME NEW i \in Inputs, Relabel(i) PROVE TypeOK' /\ Answered'
  BY <1>12 DEF Relabel, TypeOK, Answered
<1>13. ASSUME Tick PROVE TypeOK' /\ Answered'
  BY <1>13 DEF Tick, TypeOK, Answered
<1>14. ASSUME NEW p \in Programs, Crash(p) PROVE TypeOK' /\ Answered'
  <2>1. line' \in [{"cascade", "orchestrator"} -> Lines \cup {NoLine}]
    BY <1>14 DEF Crash, TypeOK
  <2>2. review' \in [lines : SUBSET Lines, left : Int, thin : BOOLEAN]
    BY <1>14 DEF Crash, TypeOK, NoReview
  <2>3. scan' \in [lines : SUBSET Lines, kind : Reconcilers \cup {"none"}, day : 0..MaxTime]
    BY <1>14 DEF Crash, TypeOK, NoScan
  <2>4. polled' \in [asks : SUBSET Asks, day : 0..MaxTime]
    BY <1>14 DEF Crash, TypeOK, NoPoll
  <2>5. crashes' \in 0..MaxCrashes
    BY <1>14 DEF Crash, TypeOK
  <2>. QED
    BY <1>14, <2>1, <2>2, <2>3, <2>4, <2>5 DEF Crash, TypeOK, Answered
<1>15. ASSUME UNCHANGED vars PROVE TypeOK' /\ Answered'
  BY <1>15 DEF vars, TypeOK, Answered
<1>. QED
  BY <1>1, <1>2, <1>3, <1>4, <1>5, <1>6, <1>7, <1>8, <1>9, <1>10, <1>11, <1>12, <1>13,
     <1>14, <1>15 DEF Next

LEMMA InitTypes ==
  ASSUME Init
  PROVE  TypeOK /\ Answered /\ Alone
<1>1. NoRec \in Rec
  BY LineTypes
<1>2. [status |-> "none", posted |-> 0, about |-> "none", by |-> "none"] \in Ask
  BY Parameters DEF Ask
<1>3. <<>> \in Seq(Answers)
  OBVIOUS
<1>4. TypeOK
  BY <1>1, <1>2, <1>3, Parameters DEF Init, TypeOK, NoReview, NoScan, NoPoll
<1>. QED
  BY <1>4 DEF Init, Answered, Alone, Active, NoAsk

(***************************************************************************)
(* Every line, ask and program of the evaluation loop keeps its type,      *)
(* whichever programs die.                                                 *)
(***************************************************************************)
THEOREM TypeCorrect == Spec => []TypeOK
<1>1. Init => TypeOK /\ Answered /\ Alone
  BY InitTypes
<1>2. TypeOK /\ Answered /\ Alone /\ [Next]_vars => (TypeOK /\ Answered /\ Alone)'
  BY NextTypes, NextAlone
<1>. QED
  BY <1>1, <1>2, PTL DEF Spec

-----------------------------------------------------------------------------
(* The budget *)

\* The asks of the orchestrator that the window holds, and those still to come
\* in the review that is going on, which counted the asks of the window first.
InWindow == {a \in Asks : ask[a].by = "orchestrator" /\ ask[a].posted >= now - BudgetWindow}

WithinBudget ==
  /\ \A a \in Asks : ask[a].by = "orchestrator" => ask[a].status # "none"
  /\ Cardinality(InWindow) <= Budget
  /\ review # NoReview => Cardinality(InWindow) + review.left <= Budget

LEMMA AsksAreFinite ==
  ASSUME NEW S \in SUBSET Asks
  PROVE  IsFiniteSet(S) /\ Cardinality(S) \in Nat
<1>1. IsFiniteSet(1..MaxAsks)
  BY Parameters, FS_Interval
<1>. QED
  BY <1>1, FS_Subset, FS_CardinalityType DEF Asks

LEMMA WindowShrinks ==
  ASSUME TypeOK, WithinBudget, InWindow' \subseteq InWindow,
         \A a \in Asks : ask'[a].by = "orchestrator" => ask'[a].status # "none",
         review' # NoReview => review # NoReview /\ review'.left = review.left
  PROVE  WithinBudget'
<1>1. IsFiniteSet(InWindow) /\ Cardinality(InWindow) \in Nat
  BY AsksAreFinite DEF InWindow
<1>2. Cardinality(InWindow') <= Cardinality(InWindow) /\ Cardinality(InWindow') \in Nat
  BY <1>1, FS_Subset, FS_CardinalityType
<1>3. review.left \in Int /\ Budget \in Nat
  BY Parameters DEF TypeOK
<1>4. Cardinality(InWindow)' = Cardinality(InWindow')
  OBVIOUS
<1>. QED
  BY <1>1, <1>2, <1>3, <1>4 DEF WithinBudget

LEMMA NextBudget ==
  ASSUME TypeOK, TypeOK', WithinBudget, [Next]_vars
  PROVE  WithinBudget'
<1>. USE Parameters
<1>. USE DEF logs, operator, programs
<1>1. ASSUME UNCHANGED <<ask, now>>,
             review' # NoReview => review # NoReview /\ review'.left = review.left
      PROVE  WithinBudget'
  BY <1>1, WindowShrinks DEF WithinBudget, InWindow
<1>2. ASSUME NEW i \in Inputs, Resolve(i) \/ Relabel(i) PROVE WithinBudget'
  BY <1>1, <1>2 DEF Resolve, Relabel
<1>3. ASSUME NEW i \in Inputs, Escalate(i) PROVE WithinBudget'
  <2>1. /\ NextAsk \in Asks
        /\ \A a \in Asks : a # NextAsk => ask'[a] = ask[a]
        /\ ask'[NextAsk].by = "cascade"
    BY <1>3, PostTypes DEF Escalate
  <2>2. InWindow' \subseteq InWindow
    BY <1>3, <2>1 DEF InWindow, Escalate
  <2>. QED
    BY <1>3, <2>1, <2>2, WindowShrinks DEF Escalate, WithinBudget
<1>4. ASSUME NEW p \in DOMAIN line, Link(p) PROVE WithinBudget'
  BY <1>1, <1>4 DEF Link
<1>5. ASSUME Review PROVE WithinBudget'
  <2>1. InWindow' = InWindow /\ InWindow \subseteq RecentAsks
    BY <1>5 DEF Review, InWindow, RecentAsks, WithinBudget
  <2>2. IsFiniteSet(RecentAsks) /\ Cardinality(RecentAsks) \in Nat
    BY AsksAreFinite DEF RecentAsks
  <2>3. Cardinality(InWindow) <= Cardinality(RecentAsks) /\ Cardinality(InWindow) \in Nat
    BY <2>1, <2>2, FS_Subset, FS_CardinalityType
  <2>4. review'.left = Budget - Cardinality(RecentAsks)
    BY <1>5 DEF Review
  <2>5. Cardinality(InWindow)' = Cardinality(InWindow)
    BY <2>1
  <2>6. Cardinality(InWindow) + review'.left <= Budget
    BY <2>2, <2>3, <2>4
  <2>. QED
    BY <1>5, <2>5, <2>6 DEF WithinBudget, Review
<1>6. ASSUME ReviewNext PROVE WithinBudget'
  <2>1. PICK l \in review.lines :
          ComesNext(l) /\ (SkipCandidate(l) \/ LeaveCandidate(l) \/ AskAboutCandidate(l))
    BY <1>6 DEF ReviewNext
  <2>2. review # NoReview /\ now' = now
    BY <1>6, <2>1 DEF NoReview, ReviewNext
  <2>3. ASSUME NEW n \in Int, LookedAt(l, n), review' # NoReview PROVE review'.left = n
    BY <2>3 DEF LookedAt, TypeOK
  <2>4. review.left \in Int
    BY DEF TypeOK
  <2>5. CASE SkipCandidate(l) \/ LeaveCandidate(l)
    BY <2>2, <2>3, <2>4, <2>5, <1>1 DEF SkipCandidate, LeaveCandidate
  <2>6. CASE AskAboutCandidate(l)
    <3>1. l.at[1] \in Inputs
      BY DEF TypeOK, Lines, Records
    <3>2. /\ NextAsk \in Asks
          /\ \A a \in Asks : a # NextAsk => ask'[a] = ask[a]
          /\ ask'[NextAsk].status = "open"
      BY <2>6, <3>1, PostTypes DEF AskAboutCandidate
    <3>3. InWindow' \subseteq InWindow \cup {NextAsk}
      BY <2>2, <3>2 DEF InWindow
    <3>4. IsFiniteSet(InWindow) /\ Cardinality(InWindow) \in Nat
      BY AsksAreFinite DEF InWindow
    <3>5. IsFiniteSet(InWindow \cup {NextAsk})
          /\ Cardinality(InWindow \cup {NextAsk}) <= Cardinality(InWindow) + 1
      BY <3>4, FS_AddElement
    <3>6. Cardinality(InWindow') <= Cardinality(InWindow \cup {NextAsk})
          /\ Cardinality(InWindow') \in Nat
      BY <3>3, <3>5, FS_Subset, FS_CardinalityType
    <3>7. Cardinality(InWindow \cup {NextAsk}) \in Nat
      BY <3>5, FS_CardinalityType
    <3>8. review.left > 0 /\ Cardinality(InWindow) + review.left <= Budget
      BY <2>2, <2>6 DEF AskAboutCandidate, WithinBudget
    <3>9. review' # NoReview => review'.left = review.left - 1
      BY <2>3, <2>4, <2>6 DEF AskAboutCandidate
    <3>10. Cardinality(InWindow)' <= Cardinality(InWindow) + 1 /\ Cardinality(InWindow)' \in Nat
      BY <3>4, <3>5, <3>6, <3>7
    <3>11. Cardinality(InWindow)' <= Budget
      BY <2>4, <3>4, <3>8, <3>10
    <3>12. review' # NoReview => Cardinality(InWindow)' + review'.left <= Budget
      BY <2>4, <3>4, <3>8, <3>9, <3>10
    <3>13. \A a \in Asks : ask'[a].by = "orchestrator" => ask'[a].status # "none"
      BY <3>2 DEF WithinBudget
    <3>. QED
      BY <3>11, <3>12, <3>13 DEF WithinBudget
  <2>. QED
    BY <2>1, <2>5, <2>6
<1>7. ASSUME NEW kind \in Reconcilers, StartScan(kind) PROVE WithinBudget'
  BY <1>1, <1>7 DEF StartScan
<1>8. ASSUME ScanNext \/ Poll \/ Propagate PROVE WithinBudget'
  BY <1>1, <1>8 DEF ScanNext, Poll, Propagate
<1>9. ASSUME PollNext PROVE WithinBudget'
  <2>1. PICK a \in polled.asks : ExpireAsk(a) \/ LeaveAskOpen(a) \/ TakeAnswer(a)
    BY <1>9 DEF PollNext
  <2>2. a \in Asks /\ ask \in [Asks -> Ask]
    BY DEF TypeOK
  <2>3. \A b \in Asks : ask'[b].by = ask[b].by /\ ask'[b].posted = ask[b].posted
                       /\ (ask[b].status # "none" => ask'[b].status # "none")
    BY <2>1, <2>2 DEF ExpireAsk, LeaveAskOpen, TakeAnswer, SetAsk, Ask
  <2>4. InWindow' \subseteq InWindow
    BY <1>9, <2>3 DEF InWindow, PollNext
  <2>. QED
    BY <1>9, <2>3, <2>4, WindowShrinks DEF PollNext, WithinBudget
<1>10. ASSUME NEW a \in Asks, Reply(a) PROVE WithinBudget'
  BY <1>1, <1>10 DEF Reply
<1>11. ASSUME Tick PROVE WithinBudget'
  <2>1. now' = now + 1 /\ now \in Int /\ UNCHANGED <<ask, review>>
    BY <1>11 DEF Tick, TypeOK
  <2>2. \A a \in Asks : ask[a].posted \in Int
    BY DEF TypeOK, Ask
  <2>3. InWindow' \subseteq InWindow
    BY <2>1, <2>2 DEF InWindow
  <2>. QED
    BY <2>1, <2>3, WindowShrinks DEF WithinBudget
<1>12. ASSUME NEW p \in Programs, Crash(p) PROVE WithinBudget'
  BY <1>1, <1>12 DEF Crash
<1>13. ASSUME UNCHANGED vars PROVE WithinBudget'
  BY <1>1, <1>13 DEF vars
<1>. QED
  BY <1>2, <1>3, <1>4, <1>5, <1>6, <1>7, <1>8, <1>9, <1>10, <1>11, <1>12, <1>13 DEF Next

(***************************************************************************)
(* In no window does the orchestrator post more asks than the budget,      *)
(* whatever the cascade asks and whichever programs die: review_pending    *)
(* counts the asks of the window before it posts the first of its own.     *)
(***************************************************************************)
THEOREM BudgetIsKept == Spec => []BudgetKept
<1>1. Init => TypeOK /\ Answered /\ Alone /\ WithinBudget
  <2>1. ASSUME Init PROVE WithinBudget
    <3>1. InWindow = {}
      BY <2>1 DEF Init, InWindow
    <3>2. Cardinality(InWindow) = 0
      BY <3>1, FS_EmptySet
    <3>. QED
      BY <2>1, <3>2, Parameters DEF Init, WithinBudget
  <2>. QED
    BY <2>1, InitTypes
<1>2. TypeOK /\ Answered /\ Alone /\ WithinBudget /\ [Next]_vars
        => (TypeOK /\ Answered /\ Alone /\ WithinBudget)'
  BY NextTypes, NextAlone, NextBudget
<1>3. WithinBudget => BudgetKept
  BY DEF WithinBudget, BudgetKept, InWindow
<1>. QED
  BY <1>1, <1>2, <1>3, PTL DEF Spec

-----------------------------------------------------------------------------
(* Records: what is written replaces no ground truth *)

Used(i) == {k \in 1..MaxRuns : rec[<<i, k>>] # NoRec}
Posted == {a \in Asks : ask[a].status # "none"}

\* Records and asks are numbered without gaps.
Counted ==
  /\ \A i \in Inputs : \A k \in Used(i) : 1..k \subseteq Used(i)
  /\ \A i \in Inputs : top[i] > 0 => top[i] \in Used(i)
  /\ \A a \in Posted : 1..a \subseteq Posted

\* What a program holds is still the last line of its record, and a record
\* without ground truth.
Fresh ==
  /\ \A l \in review.lines : rec[l.at] = l.val /\ l.val.ask = NoAsk /\ ~IsTruth(l.val)
                            /\ l.val # NoRec
  /\ \A l \in scan.lines : rec[l.at] = l.val /\ ~IsTruth(l.val) /\ l.val # NoRec
  /\ LET l == line["orchestrator"] IN l # NoLine =>
       /\ rec[l.at].ask = NoAsk /\ ~IsTruth(rec[l.at]) /\ rec[l.at] # NoRec
       /\ \A m \in review.lines : m.at # l.at
  /\ LET l == line["cascade"] IN l # NoLine => l.at = NewRecord(l.at[1])
  /\ \A p \in {"cascade", "orchestrator"} :
       line[p] # NoLine => ~IsTruth(line[p].val) /\ line[p].val.ask # NoAsk
  /\ polled.asks \subseteq Posted

LEMMA Numbering ==
  ASSUME NEW N \in Nat, NEW U \in SUBSET (1..N), \A k \in U : 1..k \subseteq U
  PROVE  Cardinality(U) \in 0..N /\ U = 1..Cardinality(U)
<1>1. IsFiniteSet(1..N) /\ Cardinality(1..N) = N
  BY FS_Interval
<1>2. IsFiniteSet(U) /\ Cardinality(U) \in Nat /\ Cardinality(U) <= N
  <2>1. IsFiniteSet(U) /\ Cardinality(U) <= Cardinality(1..N)
    BY <1>1, FS_Subset
  <2>2. Cardinality(U) \in Nat
    BY <2>1, FS_CardinalityType
  <2>. QED
    BY <1>1, <2>1, <2>2
<1>3. ASSUME NEW k \in U PROVE k <= Cardinality(U)
  <2>1. k \in 1..N /\ 1..k \subseteq U
    OBVIOUS
  <2>2. Cardinality(1..k) = k
    BY <2>1, FS_Interval
  <2>. QED
    BY <1>2, <2>1, <2>2, FS_Subset
<1>4. ASSUME NEW j \in 1..Cardinality(U), j \notin U PROVE FALSE
  <2>1. \A k \in U : k < j
    <3>. SUFFICES ASSUME NEW k \in U, ~(k < j) PROVE FALSE
      OBVIOUS
    <3>1. j \in 1..k
      OBVIOUS
    <3>. QED
      BY <1>4, <3>1
  <2>2. U \subseteq 1..(j - 1)
    BY <2>1, <1>2
  <2>3. IsFiniteSet(1..(j - 1)) /\ Cardinality(1..(j - 1)) = j - 1
    BY FS_Interval
  <2>4. Cardinality(U) <= j - 1
    BY <2>2, <2>3, FS_Subset
  <2>. QED
    BY <1>2, <2>4
<1>5. U \subseteq 1..Cardinality(U)
  BY <1>2, <1>3
<1>6. 1..Cardinality(U) \subseteq U
  BY <1>4
<1>7. Cardinality(U) \in 0..N
  BY <1>2
<1>8. U = 1..Cardinality(U)
  BY <1>5, <1>6, Zenon
<1>. QED
  BY <1>7, <1>8

\* No record is lost, and none loses its ask or its ground truth.
Careful ==
  /\ \A r \in Records :
       /\ rec[r] # NoRec => rec'[r] # NoRec
       /\ rec[r].ask # NoAsk => rec'[r].ask = rec[r].ask
       /\ IsTruth(rec[r]) => rec'[r].reality = rec[r].reality
  /\ \A i \in Inputs : top[i] > 0 => top'[i] > 0
  /\ Posted \subseteq Posted'

LEMMA NewIsUnused ==
  ASSUME TypeOK, Counted, NEW i \in Inputs, NewRecord(i) \in Records
  PROVE  /\ rec[NewRecord(i)] = NoRec /\ NewRecord(i)[1] = i
         /\ \A j \in 1..MaxRuns : j < NewRecord(i)[2] => j \in Used(i)
<1>1. Used(i) \in SUBSET (1..MaxRuns) /\ \A k \in Used(i) : 1..k \subseteq Used(i)
  BY DEF Used, Counted
<1>2. Cardinality(Used(i)) \in 0..MaxRuns /\ Used(i) = 1..Cardinality(Used(i))
  BY <1>1, Numbering, Parameters
<1>3. NewRecord(i) = <<i, 1 + Cardinality(Used(i))>>
  BY DEF NewRecord, Used
<1>4. 1 + Cardinality(Used(i)) \in 1..MaxRuns
  BY <1>3 DEF Records
<1>5. 1 + Cardinality(Used(i)) \notin Used(i)
  BY <1>2
<1>6. rec[NewRecord(i)] = NoRec
  BY <1>3, <1>4, <1>5 DEF Used
<1>7. \A j \in 1..MaxRuns : j < 1 + Cardinality(Used(i)) => j \in 1..Cardinality(Used(i))
  BY <1>2, Parameters
<1>. QED
  BY <1>2, <1>3, <1>6, <1>7

LEMMA PostKeepsCount ==
  ASSUME TypeOK, Counted, NEW i \in Inputs, NEW p \in {"cascade", "orchestrator"}, PostAsk(i, p)
  PROVE  /\ NextAsk \notin Posted
         /\ Posted' = Posted \cup {NextAsk}
         /\ \A a \in Posted' : 1..a \subseteq Posted'
<1>1. Posted \in SUBSET (1..MaxAsks) /\ \A a \in Posted : 1..a \subseteq Posted
  BY DEF Posted, Asks, Counted
<1>2. Cardinality(Posted) \in 0..MaxAsks /\ Posted = 1..Cardinality(Posted)
  BY <1>1, Numbering, Parameters
<1>3. NextAsk = 1 + Cardinality(Posted)
  BY DEF NextAsk, Posted
<1>4. Posted' = Posted \cup {NextAsk}
  BY PostTypes DEF Posted
<1>5. Posted' = 1..(1 + Cardinality(Posted))
  BY <1>2, <1>3, <1>4
<1>. QED
  BY <1>2, <1>3, <1>4, <1>5

LEMMA WriteKeeps ==
  ASSUME TypeOK, Counted, NEW r \in Records, NEW v \in Rec, v # NoRec, Write(r, v),
         rec[r] # NoRec \/ r = NewRecord(r[1]),
         rec[r].ask # NoAsk => v.ask = rec[r].ask,
         ~IsTruth(rec[r]),
         Posted' = Posted
  PROVE  Careful /\ Counted'
<1>1. /\ rec' = [rec EXCEPT ![r] = v] /\ top' = [top EXCEPT ![r[1]] = r[2]]
      /\ r[1] \in Inputs /\ r[2] \in 1..MaxRuns /\ r = <<r[1], r[2]>>
  BY DEF Write, Records
<1>2. \A s \in Records : rec'[s] = IF s = r THEN v ELSE rec[s]
  BY <1>1 DEF TypeOK
<1>3. \A i \in Inputs : top'[i] = IF i = r[1] THEN r[2] ELSE top[i]
  BY <1>1 DEF TypeOK
<1>4. Careful
  BY <1>1, <1>2, <1>3 DEF Careful, IsTruth
<1>5. ASSUME NEW i \in Inputs PROVE Used(i)' = IF i = r[1] THEN Used(i) \cup {r[2]} ELSE Used(i)
  <2>1. \A k \in 1..MaxRuns : <<i, k>> \in Records /\ (<<i, k>> = r <=> i = r[1] /\ k = r[2])
    BY <1>1 DEF Records
  <2>. QED
    BY <1>1, <1>2, <2>1 DEF Used
<1>6. \A j \in 1..r[2] : j \in Used(r[1]) \/ j = r[2]
  <2>1. CASE rec[r] # NoRec
    <3>1. r[2] \in Used(r[1])
      BY <1>1, <2>1 DEF Used
    <3>. QED
      BY <1>1, <3>1 DEF Counted
  <2>2. CASE r = NewRecord(r[1])
    BY <1>1, <2>2, NewIsUnused, Parameters
  <2>. QED
    BY <2>1, <2>2
<1>7. ASSUME NEW i \in Inputs, NEW k \in Used(i)' PROVE 1..k \subseteq Used(i)'
  BY <1>1, <1>5, <1>6 DEF Counted
<1>8. \A i \in Inputs : top'[i] > 0 => top'[i] \in Used(i)'
  BY <1>3, <1>5 DEF Counted
<1>9. \A a \in Posted' : 1..a \subseteq Posted'
  BY DEF Counted
<1>. QED
  BY <1>4, <1>7, <1>8, <1>9 DEF Counted

LEMMA LineValues ==
  /\ \A v \in Rec : Skipped(v) # NoRec /\ Skipped(v).ask = v.ask
  /\ \A v \in Rec, a \in Asks : LinkedTo(v, a) # NoRec /\ LinkedTo(v, a).ask = a
                              /\ LinkedTo(v, a).reality = v.reality
  /\ \A v \in Rec, x \in Reality : WithReality(v, x) # NoRec /\ WithReality(v, x).ask = v.ask
                                 /\ WithReality(v, x).reality = x
  /\ NoRec.ask = NoAsk /\ NoRec.reality = "none" /\ NoRec.status = "none"
<1>1. \A v \in Rec : Skipped(v).status = "SKIPPED" /\ Skipped(v).ask = v.ask
  BY DEF Rec, Skipped
<1>2. \A v \in Rec, a \in Asks : LinkedTo(v, a).status = "ASKED" /\ LinkedTo(v, a).ask = a
                             /\ LinkedTo(v, a).reality = v.reality
  BY DEF Rec, LinkedTo
<1>3. \A v \in Rec, x \in Reality :
        /\ WithReality(v, x).status \in {"ANSWERED", "OBSERVED"}
        /\ WithReality(v, x).ask = v.ask /\ WithReality(v, x).reality = x
  BY DEF Rec, WithReality
<1>4. NoRec.ask = NoAsk /\ NoRec.reality = "none" /\ NoRec.status = "none"
  BY DEF NoRec
<1>. QED
  BY <1>1, <1>2, <1>3, <1>4

LEMMA NextCareful ==
  ASSUME TypeOK, Answered, Alone, Counted, Fresh, [Next]_vars
  PROVE  Careful /\ Counted'
<1>. USE DEF logs, operator, programs
<1>1. ASSUME UNCHANGED <<rec, top>>, Posted' = Posted PROVE Careful /\ Counted'
  BY <1>1 DEF Careful, Counted, Used
<1>2. ASSUME NEW i \in Inputs, Resolve(i) PROVE Careful /\ Counted'
  <2>1. NewRecord(i) \in Records /\ now \in 0..MaxTime /\ Posted' = Posted
    BY <1>2 DEF Resolve, Processes, TypeOK, Posted
  <2>2. PICK d \in BOOLEAN :
          Write(NewRecord(i), [NoRec EXCEPT !.status = "PENDING", !.born = now, !.disagree = d])
    BY <1>2 DEF Resolve
  <2>. DEFINE v == [NoRec EXCEPT !.status = "PENDING", !.born = now, !.disagree = d]
  <2>3. v \in Rec /\ v # NoRec
    BY <2>1 DEF NoRec, Rec, Statuses, Reality
  <2>4. rec[NewRecord(i)] = NoRec /\ NewRecord(i)[1] = i
    BY <2>1, NewIsUnused
  <2>5. NoRec.ask = NoAsk /\ ~IsTruth(NoRec)
    BY LineValues DEF IsTruth
  <2>. HIDE DEF v
  <2>. QED
    BY <2>1, <2>2, <2>3, <2>4, <2>5, WriteKeeps DEF v
<1>3. ASSUME NEW i \in Inputs, Escalate(i) PROVE Careful /\ Counted'
  BY <1>3, PostKeepsCount DEF Escalate, Careful, Counted, Used
<1>4. ASSUME NEW p \in DOMAIN line, Link(p) PROVE Careful /\ Counted'
  <2>1. p \in {"cascade", "orchestrator"} /\ line[p] # NoLine /\ line[p] \in Lines
    BY <1>4 DEF Link, TypeOK
  <2>. DEFINE l == line[p]
  <2>2. l.at \in Records /\ l.val \in Rec /\ l.at[1] \in Inputs
    BY <2>1 DEF Lines, Records
  <2>3. l.val # NoRec
    BY <2>1, LineValues DEF Fresh
  <2>4. /\ rec[l.at] # NoRec \/ l.at = NewRecord(l.at[1])
        /\ rec[l.at].ask = NoAsk /\ ~IsTruth(rec[l.at])
    <3>1. CASE p = "cascade"
      <4>1. l.at = NewRecord(l.at[1])
        BY <2>1, <3>1 DEF Fresh
      <4>2. rec[l.at] = NoRec
        BY <2>2, <4>1, NewIsUnused
      <4>. QED
        BY <4>1, <4>2, LineValues DEF IsTruth
    <3>2. CASE p = "orchestrator"
      BY <2>1, <3>2 DEF Fresh
    <3>. QED
      BY <2>1, <3>1, <3>2
  <2>5. Write(l.at, l.val) /\ Posted' = Posted
    BY <1>4 DEF Link, Posted
  <2>. HIDE DEF l
  <2>. QED
    BY <2>2, <2>3, <2>4, <2>5, WriteKeeps
<1>5. ASSUME Review PROVE Careful /\ Counted'
  BY <1>1, <1>5 DEF Review, Posted
<1>6. ASSUME ReviewNext PROVE Careful /\ Counted'
  <2>1. PICK l \in review.lines :
          ComesNext(l) /\ (SkipCandidate(l) \/ LeaveCandidate(l) \/ AskAboutCandidate(l))
    BY <1>6 DEF ReviewNext
  <2>2. l.at \in Records /\ l.val \in Rec /\ l.at[1] \in Inputs
    BY DEF TypeOK, Lines, Records
  <2>3. CASE SkipCandidate(l)
    <3>1. Write(l.at, Skipped(l.val)) /\ Posted' = Posted
      BY <2>3 DEF SkipCandidate, Posted
    <3>2. Skipped(l.val) \in Rec /\ Skipped(l.val) # NoRec /\ Skipped(l.val).ask = l.val.ask
      BY <2>2, LineTypes, LineValues
    <3>3. rec[l.at] = l.val /\ rec[l.at] # NoRec /\ ~IsTruth(rec[l.at])
      BY DEF Fresh
    <3>. QED
      BY <2>2, <3>1, <3>2, <3>3, WriteKeeps
  <2>4. CASE LeaveCandidate(l)
    BY <1>1, <2>4 DEF LeaveCandidate, Posted
  <2>5. CASE AskAboutCandidate(l)
    BY <2>2, <2>5, PostKeepsCount DEF AskAboutCandidate, Careful, Counted, Used
  <2>. QED
    BY <2>1, <2>3, <2>4, <2>5
<1>7. ASSUME NEW kind \in Reconcilers, StartScan(kind) PROVE Careful /\ Counted'
  BY <1>1, <1>7 DEF StartScan, Posted
<1>8. ASSUME ScanNext PROVE Careful /\ Counted'
  <2>1. PICK l \in scan.lines :
          \/ WindowIsOver(l) /\ Write(l.at, Skipped(l.val))
          \/ /\ ~WindowIsOver(l) /\ Observed(l) # "none"
             /\ Write(l.at, WithReality(l.val, Observed(l)))
          \/ ~WindowIsOver(l) /\ Observed(l) = "none" /\ UNCHANGED <<rec, top>>
    BY <1>8 DEF ScanNext
  <2>2. l.at \in Records /\ l.val \in Rec /\ l.at[1] \in Inputs
    BY DEF TypeOK, Lines, Records
  <2>3. rec[l.at] = l.val /\ rec[l.at] # NoRec /\ ~IsTruth(rec[l.at])
    BY DEF Fresh
  <2>4. Observed(l) \in Reality
    BY <2>2 DEF Observed, TypeOK, Answered, Reality, Rec
  <2>5. Posted' = Posted
    BY <1>8 DEF ScanNext, Posted
  <2>6. ASSUME NEW v \in Rec, v # NoRec, v.ask = l.val.ask, Write(l.at, v)
        PROVE  Careful /\ Counted'
    BY <2>2, <2>3, <2>5, <2>6, WriteKeeps
  <2>. QED
    BY <1>1, <2>1, <2>2, <2>4, <2>5, <2>6, LineTypes, LineValues
<1>9. ASSUME Poll PROVE Careful /\ Counted'
  BY <1>1, <1>9 DEF Poll, Posted
<1>10. ASSUME PollNext PROVE Careful /\ Counted'
  <2>1. PICK a \in polled.asks : ExpireAsk(a) \/ LeaveAskOpen(a) \/ TakeAnswer(a)
    BY <1>10 DEF PollNext
  <2>2. a \in Asks /\ ask \in [Asks -> Ask]
    BY DEF TypeOK
  <2>3. a \in Posted
    BY DEF Fresh
  <2>4. ASSUME NEW s \in {"expired", "answered"}, SetAsk(a, s) PROVE Posted' = Posted
    BY <2>2, <2>3, <2>4 DEF SetAsk, Posted, Ask
  <2>5. Posted' = Posted
    BY <2>1, <2>4 DEF ExpireAsk, LeaveAskOpen, TakeAnswer, Posted
  <2>. QED
    BY <1>1, <1>10, <2>5 DEF PollNext
<1>11. ASSUME Propagate PROVE Careful /\ Counted'
  <2>1. Posted' = Posted
    BY <1>11 DEF Propagate, Posted
  <2>2. CASE AnswersTo(answering) = {}
    BY <1>1, <1>11, <2>1, <2>2 DEF Propagate
  <2>3. CASE AnswersTo(answering) # {}
    <3>1. PICK r \in AnswersTo(answering) :
            Write(r, WithReality(rec[r], replies[answering][1]))
      BY <1>11, <2>3 DEF Propagate
    <3>2. r \in Records /\ rec[r] \in Rec /\ ~IsTruth(rec[r])
      BY DEF AnswersTo, TypeOK
    <3>3. answering \in Asks /\ replies[answering][1] = "reply" /\ rec[r].ask = answering
      BY <1>11 DEF Propagate, TypeOK, Answered, AnswersTo
    <3>4. rec[r] # NoRec
      BY <3>3, LineValues DEF Asks, NoAsk
    <3>5. "reply" \in Reality
      BY DEF Reality
    <3>. QED
      BY <2>1, <3>1, <3>2, <3>3, <3>4, <3>5, LineTypes, LineValues, WriteKeeps
  <2>. QED
    BY <2>2, <2>3
<1>12. ASSUME NEW a \in Asks, Reply(a) PROVE Careful /\ Counted'
  BY <1>1, <1>12 DEF Reply, Posted
<1>13. ASSUME NEW i \in Inputs, Relabel(i) PROVE Careful /\ Counted'
  BY <1>1, <1>13 DEF Relabel, Posted
<1>14. ASSUME Tick \/ UNCHANGED vars PROVE Careful /\ Counted'
  BY <1>1, <1>14 DEF Tick, vars, Posted
<1>15. ASSUME NEW p \in Programs, Crash(p) PROVE Careful /\ Counted'
  BY <1>1, <1>15 DEF Crash, Posted
<1>. QED
  BY <1>2, <1>3, <1>4, <1>5, <1>6, <1>7, <1>8, <1>9, <1>10, <1>11, <1>12, <1>13,
     <1>14, <1>15 DEF Next

LEMMA NextFresh ==
  ASSUME TypeOK, TypeOK', Answered, Alone, Counted, Fresh, Careful, [Next]_vars
  PROVE  Fresh'
<1>. USE DEF logs, operator, programs
<1>1. NoReview.lines = {} /\ NoScan.lines = {} /\ NoPoll.asks = {}
  BY DEF NoReview, NoScan, NoPoll
<1>2. Posted \subseteq Posted'
  BY DEF Careful
<1>3. ASSUME UNCHANGED <<rec, line>>, review'.lines \subseteq review.lines,
             scan'.lines \subseteq scan.lines, polled'.asks \subseteq Posted'
      PROVE  Fresh'
  BY <1>3 DEF Fresh, NewRecord
<1>4. polled.asks \subseteq Posted'
  BY <1>2 DEF Fresh
<1>5. ASSUME NEW l \in Folded PROVE rec[l.at] = l.val /\ l.val # NoRec
  <2>1. PICK i \in Inputs : top[i] > 0 /\ l = [at |-> <<i, top[i]>>, val |-> rec[<<i, top[i]>>]]
    BY <1>5 DEF Folded
  <2>2. rec[<<i, top[i]>>] # NoRec
    BY <2>1 DEF Counted, Used
  <2>. QED
    BY <2>1, <2>2
<1>6. ASSUME NEW i \in Inputs, Resolve(i) PROVE Fresh'
  <2>1. line' = line /\ review' = review /\ scan' = scan /\ polled' = polled
    BY <1>6 DEF Resolve
  <2>2. line["cascade"] = NoLine /\ line["orchestrator"] = NoLine /\ review = NoReview
        /\ scan = NoScan
    BY <1>6, WhoIsActive DEF Resolve, Processes, MayStart
  <2>. QED
    BY <1>1, <1>4, <2>1, <2>2 DEF Fresh
<1>7. ASSUME NEW i \in Inputs, Escalate(i) PROVE Fresh'
  <2>1. rec' = rec /\ review' = review /\ scan' = scan /\ polled' = polled
    BY <1>7 DEF Escalate
  <2>2. line["cascade"] = NoLine /\ line["orchestrator"] = NoLine /\ review = NoReview
        /\ scan = NoScan
    BY <1>7, WhoIsActive DEF Escalate, Processes, MayStart
  <2>. DEFINE v == LinkedTo([NoRec EXCEPT !.born = now], NextAsk)
  <2>3. line'["orchestrator"] = NoLine
        /\ line'["cascade"] = [at |-> NewRecord(i), val |-> v]
    BY <1>7, <2>2 DEF Escalate, TypeOK
  <2>4. NewRecord(i) \in Records /\ NextAsk \in Asks /\ now \in 0..MaxTime
    BY <1>7 DEF Escalate, Processes, PostAsk, TypeOK
  <2>5. [NoRec EXCEPT !.born = now] \in Rec /\ [NoRec EXCEPT !.born = now].reality = "none"
    BY <2>4, LineTypes, LineValues DEF Rec
  <2>6. ~IsTruth(v) /\ v.ask # NoAsk
    <3>1. v.reality = "none" /\ v.ask = NextAsk
      BY <2>4, <2>5, LineValues
    <3>. QED
      BY <2>4, <3>1 DEF IsTruth, Asks, NoAsk
  <2>7. NewRecord(i)[1] = i /\ NewRecord(i)' = NewRecord(i)
    BY <2>1 DEF NewRecord
  <2>. HIDE DEF v
  <2>. QED
    BY <1>1, <1>4, <2>1, <2>2, <2>3, <2>6, <2>7 DEF Fresh
<1>8. ASSUME NEW p \in DOMAIN line, Link(p) PROVE Fresh'
  <2>1. p \in {"cascade", "orchestrator"} /\ line[p] # NoLine /\ line[p] \in Lines
    BY <1>8 DEF Link, TypeOK
  <2>2. review' = review /\ scan' = scan /\ polled' = polled
    BY <1>8 DEF Link
  <2>3. line'["cascade"] = NoLine /\ line'["orchestrator"] = NoLine /\ scan = NoScan
        /\ (p = "cascade" => review = NoReview)
    BY <1>8, <2>1, WhoIsActive DEF Alone, Link, TypeOK
  <2>4. \A m \in review.lines : m.at # line[p].at
    BY <2>1, <2>3, <1>1 DEF Fresh
  <2>5. \A m \in review.lines : rec'[m.at] = rec[m.at]
    BY <1>8, <2>4 DEF Link, Write, TypeOK, Lines
  <2>. QED
    BY <1>1, <1>4, <2>2, <2>3, <2>5 DEF Fresh
<1>9. ASSUME Review PROVE Fresh'
  <2>1. rec' = rec /\ line' = line /\ scan' = scan /\ polled' = polled
        /\ review'.lines = Candidates
    BY <1>9 DEF Review
  <2>2. line["cascade"] = NoLine /\ line["orchestrator"] = NoLine /\ scan = NoScan
    BY <1>9, WhoIsActive DEF Review, MayStart
  <2>3. \A l \in Candidates : rec[l.at] = l.val /\ l.val.ask = NoAsk /\ ~IsTruth(l.val)
                           /\ l.val # NoRec
    BY <1>5 DEF Candidates
  <2>. QED
    BY <1>1, <1>4, <2>1, <2>2, <2>3 DEF Fresh
<1>10. ASSUME ReviewNext PROVE Fresh'
  <2>1. PICK l \in review.lines :
          ComesNext(l) /\ (SkipCandidate(l) \/ LeaveCandidate(l) \/ AskAboutCandidate(l))
    BY <1>10 DEF ReviewNext
  <2>2. l \in Lines /\ l.at \in Records /\ l.val \in Rec /\ l.at[1] \in Inputs
    BY DEF TypeOK, Lines, Records
  <2>3. /\ scan' = scan /\ polled' = polled /\ line["orchestrator"] = NoLine
        /\ line'["cascade"] = line["cascade"]
    BY <1>10, <2>1 DEF ReviewNext, SkipCandidate, LeaveCandidate, AskAboutCandidate, TypeOK
  <2>4. line["cascade"] = NoLine /\ scan = NoScan
    BY <2>1, <1>1, WhoIsActive DEF Alone
  <2>5. ASSUME NEW n, LookedAt(l, n) PROVE review'.lines \subseteq review.lines \ {l}
    BY <2>5, <1>1 DEF LookedAt, TypeOK
  <2>6. review'.lines \subseteq review.lines \ {l}
    BY <2>1, <2>5 DEF SkipCandidate, LeaveCandidate, AskAboutCandidate
  <2>7. \A m \in review'.lines : m.at # l.at
    <3>1. ASSUME NEW m \in review.lines, m.at = l.at PROVE m = l
      <4>1. rec[m.at] = m.val /\ rec[l.at] = l.val
        BY DEF Fresh
      <4>2. m \in Lines
        BY DEF TypeOK
      <4>. QED
        BY <2>2, <3>1, <4>1, <4>2 DEF Lines
    <3>. QED
      BY <2>6, <3>1
  <2>8. CASE SkipCandidate(l)
    <3>1. line' = line /\ \A m \in review'.lines : rec'[m.at] = rec[m.at]
      BY <2>2, <2>7, <2>8 DEF SkipCandidate, Write, TypeOK, Lines
    <3>. QED
      BY <1>1, <1>4, <2>3, <2>4, <2>6, <3>1 DEF Fresh
  <2>9. CASE LeaveCandidate(l)
    BY <1>3, <1>4, <2>3, <2>6, <2>9 DEF LeaveCandidate
  <2>10. CASE AskAboutCandidate(l)
    <3>. DEFINE v == LinkedTo(l.val, NextAsk)
    <3>1. rec' = rec /\ NextAsk \in Asks
      BY <2>10 DEF AskAboutCandidate, PostAsk
    <3>2. line'["orchestrator"].at = l.at /\ line'["orchestrator"].val = v
      BY <2>2, <2>10 DEF AskAboutCandidate, TypeOK, Lines
    <3>3. rec[l.at] = l.val /\ l.val.ask = NoAsk /\ ~IsTruth(l.val) /\ l.val # NoRec
      BY DEF Fresh
    <3>4. ~IsTruth(v) /\ v.ask # NoAsk
      BY <2>2, <3>1, <3>3, LineValues DEF IsTruth, Asks, NoAsk
    <3>. HIDE DEF v
    <3>. QED
      BY <1>1, <1>4, <2>3, <2>4, <2>6, <2>7, <3>1, <3>2, <3>3, <3>4 DEF Fresh
  <2>. QED
    BY <2>1, <2>8, <2>9, <2>10
<1>11. ASSUME NEW kind \in Reconcilers, StartScan(kind) PROVE Fresh'
  <2>1. rec' = rec /\ line' = line /\ review' = review /\ polled' = polled
        /\ scan'.lines = Unsettled
    BY <1>11 DEF StartScan
  <2>2. line["cascade"] = NoLine /\ line["orchestrator"] = NoLine /\ review = NoReview
    BY <1>11, WhoIsActive DEF StartScan, MayStart
  <2>3. \A l \in Unsettled : rec[l.at] = l.val /\ ~IsTruth(l.val) /\ l.val # NoRec
    BY <1>5 DEF Unsettled
  <2>. QED
    BY <1>1, <1>4, <2>1, <2>2, <2>3 DEF Fresh
<1>12. ASSUME ScanNext PROVE Fresh'
  <2>1. PICK l \in scan.lines :
          /\ \/ WindowIsOver(l) /\ Write(l.at, Skipped(l.val))
             \/ /\ ~WindowIsOver(l) /\ Observed(l) # "none"
                /\ Write(l.at, WithReality(l.val, Observed(l)))
             \/ ~WindowIsOver(l) /\ Observed(l) = "none" /\ UNCHANGED <<rec, top>>
          /\ scan' = IF scan.lines = {l} THEN NoScan ELSE [scan EXCEPT !.lines = @ \ {l}]
    BY <1>12 DEF ScanNext
  <2>2. l \in Lines /\ l.at \in Records
    BY DEF TypeOK, Lines
  <2>3. line' = line /\ review' = review /\ polled' = polled
    BY <1>12 DEF ScanNext
  <2>4. line["cascade"] = NoLine /\ line["orchestrator"] = NoLine /\ review = NoReview
    BY <2>1, <1>1, WhoIsActive DEF Alone
  <2>5. scan'.lines \subseteq scan.lines \ {l}
    BY <2>1, <1>1 DEF TypeOK
  <2>6. \A m \in scan'.lines : m.at # l.at
    <3>1. ASSUME NEW m \in scan.lines, m.at = l.at PROVE m = l
      <4>1. rec[m.at] = m.val /\ rec[l.at] = l.val
        BY DEF Fresh
      <4>2. m \in Lines
        BY DEF TypeOK
      <4>. QED
        BY <2>2, <3>1, <4>1, <4>2 DEF Lines
    <3>. QED
      BY <2>5, <3>1
  <2>7. \A m \in scan'.lines : rec'[m.at] = rec[m.at]
    <3>1. \A m \in scan'.lines : m.at \in Records
      BY <2>5 DEF TypeOK, Lines
    <3>2. rec' = rec \/ \E v : rec' = [rec EXCEPT ![l.at] = v]
      BY <2>1 DEF Write
    <3>. QED
      BY <2>2, <2>6, <3>1, <3>2 DEF TypeOK
  <2>. QED
    BY <1>1, <1>4, <2>3, <2>4, <2>5, <2>7 DEF Fresh
<1>13. ASSUME Poll PROVE Fresh'
  <2>1. OpenAsks \subseteq Posted'
    BY <1>2 DEF OpenAsks, Posted
  <2>. QED
    BY <1>3, <1>13, <2>1 DEF Poll
<1>14. ASSUME PollNext PROVE Fresh'
  <2>1. polled'.asks \subseteq polled.asks
    BY <1>1, <1>14 DEF PollNext, TypeOK
  <2>. QED
    BY <1>3, <1>4, <1>14, <2>1 DEF PollNext
<1>15. ASSUME Propagate PROVE Fresh'
  <2>1. line' = line /\ review' = review /\ scan' = scan /\ polled' = polled
    BY <1>15 DEF Propagate
  <2>2. line["cascade"] = NoLine /\ line["orchestrator"] = NoLine /\ review = NoReview
        /\ scan = NoScan
    BY <1>15, WhoIsActive DEF Propagate, Alone
  <2>. QED
    BY <1>1, <1>4, <2>1, <2>2 DEF Fresh
<1>16. ASSUME NEW a \in Asks, Reply(a) PROVE Fresh'
  BY <1>3, <1>4, <1>16 DEF Reply
<1>17. ASSUME NEW i \in Inputs, Relabel(i) PROVE Fresh'
  BY <1>3, <1>4, <1>17 DEF Relabel
<1>18. ASSUME Tick \/ UNCHANGED vars PROVE Fresh'
  BY <1>3, <1>4, <1>18 DEF Tick, vars
<1>19. ASSUME NEW p \in Programs, Crash(p) PROVE Fresh'
  <2>1. rec' = rec /\ review'.lines \subseteq review.lines /\ scan'.lines \subseteq scan.lines
        /\ polled'.asks \subseteq polled.asks
    BY <1>1, <1>19 DEF Crash
  <2>2. \A q \in {"cascade", "orchestrator"} : line'[q] = line[q] \/ line'[q] = NoLine
    BY <1>19 DEF Crash, TypeOK
  <2>. QED
    BY <1>4, <2>1, <2>2 DEF Fresh, NewRecord
<1>. QED
  BY <1>6, <1>7, <1>8, <1>9, <1>10, <1>11, <1>12, <1>13, <1>14, <1>15, <1>16, <1>17,
     <1>18, <1>19 DEF Next

Steady == TypeOK /\ Answered /\ Alone /\ Counted /\ Fresh

LEMMA InitSteady == Init => Steady
<1>. SUFFICES ASSUME Init PROVE Steady
  OBVIOUS
<1>1. TypeOK /\ Answered /\ Alone
  BY InitTypes
<1>2. Counted
  BY DEF Init, Counted, Used, Posted, Records
<1>3. Fresh
  BY DEF Init, Fresh, NoReview, NoScan, NoPoll
<1>. QED
  BY <1>1, <1>2, <1>3 DEF Steady

LEMMA NextSteady == Steady /\ [Next]_vars => Steady' /\ Careful
<1>. SUFFICES ASSUME Steady, [Next]_vars PROVE Steady' /\ Careful
  OBVIOUS
<1>1. TypeOK' /\ Answered' /\ Alone'
  BY NextTypes, NextAlone DEF Steady
<1>2. Careful /\ Counted'
  BY NextCareful DEF Steady
<1>. QED
  BY <1>1, <1>2, NextFresh DEF Steady

(***************************************************************************)
(* Where an input is processed once, its ground truth stays whatever       *)
(* programs run, and wherever they die: every program that writes a record *)
(* holds its last line, and leaves it alone once it has ground truth.      *)
(***************************************************************************)
THEOREM GroundTruthStays == MaxRuns <= 1 => (Spec => GroundTruthIsKept)
<1>. SUFFICES ASSUME MaxRuns <= 1 PROVE Spec => GroundTruthIsKept
  OBVIOUS
<1>1. ASSUME Steady, Steady', Careful, NEW i \in Inputs, top[i] > 0, IsTruth(Current(i))
      PROVE  Current(i)'.reality = Current(i).reality
  <2>1. top[i] = 1 /\ top'[i] = 1 /\ <<i, 1>> \in Records
    BY <1>1, Parameters DEF Steady, TypeOK, Careful, Records
  <2>. QED
    BY <1>1, <2>1 DEF Careful, Current
<1>2. Steady /\ Steady' /\ Careful /\ [Next]_vars =>
        [\A i \in Inputs : top[i] > 0 /\ IsTruth(Current(i)) =>
           Current(i)'.reality = Current(i).reality]_vars
  BY <1>1
<1>3. Steady /\ [Next]_vars =>
        [\A i \in Inputs : top[i] > 0 /\ IsTruth(Current(i)) =>
           Current(i)'.reality = Current(i).reality]_vars
  BY <1>2, NextSteady
<1>. QED
  BY <1>3, InitSteady, NextSteady, PTL DEF Spec, GroundTruthIsKept

-----------------------------------------------------------------------------
(* Replies *)

Holds(a) == \E p \in {"cascade", "orchestrator"} : line[p] # NoLine /\ line[p].val.ask = a

\* Every ask is linked to a record, or its record is still to be appended; an
\* answer that was taken is in one, or being propagated.
Linked == \A a \in Posted : (\E r \in Records : rec[r].ask = a) \/ Holds(a)
Reached ==
  \A a \in Asks : ask[a].status = "answered" /\ answering # a =>
    \E r \in Records : rec[r].ask = a /\ IsTruth(rec[r])

LEMMA NextLinked ==
  ASSUME Steady, Steady', Careful, Linked, [Next]_vars, crashes' = 0
  PROVE  Linked'
<1>. USE DEF logs, operator, programs
<1>0. TypeOK /\ TypeOK'
  BY DEF Steady
<1>1. ASSUME NEW a \in Asks, NEW r \in Records, rec[r].ask = a PROVE rec'[r].ask = a
  BY <1>1 DEF Careful, Asks, NoAsk
<1>2. ASSUME Posted' = Posted, UNCHANGED line PROVE Linked'
  <2>. SUFFICES ASSUME NEW a \in Posted PROVE (\E r \in Records : rec'[r].ask = a) \/ Holds(a)'
    BY <1>2 DEF Linked
  <2>1. a \in Asks /\ (Holds(a) => Holds(a)')
    BY <1>2 DEF Posted, Holds
  <2>. QED
    BY <1>1, <2>1 DEF Linked
<1>3. ASSUME NEW p \in {"cascade", "orchestrator"}, line[p] = NoLine,
             NEW i \in Inputs, PostAsk(i, p), line'[p] # NoLine, line'[p].val.ask = NextAsk,
             \A q \in {"cascade", "orchestrator"} : q # p => line'[q] = line[q]
      PROVE  Linked'
  <2>1. Posted' = Posted \cup {NextAsk} /\ NextAsk \in Asks
    BY <1>0, <1>3, PostKeepsCount, PostTypes DEF Steady
  <2>2. ASSUME NEW a \in Asks, a = NextAsk PROVE Holds(a)'
    BY <1>3, <2>2 DEF Holds
  <2>3. ASSUME NEW a \in Posted PROVE (\E r \in Records : rec'[r].ask = a) \/ Holds(a)'
    <3>1. a \in Asks
      BY DEF Posted
    <3>2. Holds(a) => Holds(a)'
      BY <1>3 DEF Holds
    <3>. QED
      BY <1>1, <3>1, <3>2 DEF Linked
  <2>4. ASSUME NEW a \in Posted' PROVE (\E r \in Records : rec'[r].ask = a) \/ Holds(a)'
    <3>1. CASE a = NextAsk
      BY <2>1, <2>2, <3>1
    <3>2. CASE a # NextAsk
      BY <2>1, <2>3, <2>4, <3>2
    <3>. QED
      BY <3>1, <3>2
  <2>. QED
    BY <2>4 DEF Linked
<1>4. ASSUME NEW i \in Inputs, Resolve(i) \/ Relabel(i) PROVE Linked'
  BY <1>2, <1>4 DEF Resolve, Relabel, Posted
<1>5. ASSUME NEW i \in Inputs, Escalate(i) PROVE Linked'
  <2>1. line["cascade"] = NoLine /\ NextAsk \in Asks /\ now \in 0..MaxTime
    BY <1>0, <1>5, WhoIsActive DEF Escalate, Processes, MayStart, PostAsk, TypeOK
  <2>. DEFINE v == LinkedTo([NoRec EXCEPT !.born = now], NextAsk)
  <2>2. line' = [line EXCEPT !["cascade"] = [at |-> NewRecord(i), val |-> v]]
    BY <1>5 DEF Escalate
  <2>3. v.ask = NextAsk
    <3>1. [NoRec EXCEPT !.born = now] \in Rec
      BY <2>1, LineTypes DEF Rec
    <3>. QED
      BY <2>1, <3>1, LineValues
  <2>4. NoLine.val.ask = NoAsk
    BY LineValues DEF NoLine
  <2>. HIDE DEF v
  <2>5. line'["cascade"].val = v /\ line'["orchestrator"] = line["orchestrator"]
    BY <1>0, <2>2 DEF TypeOK
  <2>6. line'["cascade"] # NoLine /\ line'["cascade"].val.ask = NextAsk
    BY <2>1, <2>3, <2>4, <2>5 DEF Asks, NoAsk
  <2>. QED
    BY <1>3, <1>5, <2>1, <2>5, <2>6 DEF Escalate
<1>6. ASSUME NEW p \in DOMAIN line, Link(p) PROVE Linked'
  <2>1. p \in {"cascade", "orchestrator"} /\ line[p] # NoLine /\ line[p].at \in Records
        /\ line[p].val \in Rec
    BY <1>0, <1>6 DEF Link, TypeOK, Lines
  <2>2. Posted' = Posted
    BY <1>6 DEF Link, Posted
  <2>3. rec'[line[p].at] = line[p].val
    BY <1>0, <1>6, <2>1 DEF Link, Write, TypeOK
  <2>4. \A q \in {"cascade", "orchestrator"} : q # p => line'[q] = line[q]
    BY <1>0, <1>6 DEF Link, TypeOK
  <2>5. ASSUME NEW a \in Posted, Holds(a)
        PROVE  (\E r \in Records : rec'[r].ask = a) \/ Holds(a)'
    BY <2>1, <2>3, <2>4, <2>5 DEF Holds
  <2>6. ASSUME NEW a \in Posted, NEW r \in Records, rec[r].ask = a PROVE rec'[r].ask = a
    BY <1>1, <2>6 DEF Posted
  <2>. QED
    BY <2>2, <2>5, <2>6 DEF Linked
<1>7. ASSUME ReviewNext PROVE Linked'
  <2>1. PICK l \in review.lines :
          ComesNext(l) /\ (SkipCandidate(l) \/ LeaveCandidate(l) \/ AskAboutCandidate(l))
    BY <1>7 DEF ReviewNext
  <2>2. l \in Lines /\ l.val \in Rec /\ l.at[1] \in Inputs
    BY <1>0 DEF TypeOK, Lines, Records
  <2>3. CASE SkipCandidate(l) \/ LeaveCandidate(l)
    BY <1>2, <2>3 DEF SkipCandidate, LeaveCandidate, Posted
  <2>4. CASE AskAboutCandidate(l)
    <3>1. NextAsk \in Asks /\ PostAsk(l.at[1], "orchestrator") /\ line["orchestrator"] = NoLine
      BY <1>7, <2>4 DEF AskAboutCandidate, PostAsk, ReviewNext
    <3>. DEFINE v == LinkedTo(l.val, NextAsk)
    <3>2. line'["orchestrator"].val = v /\ line'["cascade"] = line["cascade"]
      BY <1>0, <2>2, <2>4 DEF AskAboutCandidate, TypeOK, Lines
    <3>3. v.ask = NextAsk
      BY <2>2, <3>1, LineValues
    <3>. HIDE DEF v
    <3>4. NoLine.val.ask = NoAsk
      BY LineValues DEF NoLine
    <3>5. line'["orchestrator"] # NoLine /\ line'["orchestrator"].val.ask = NextAsk
      BY <3>1, <3>2, <3>3, <3>4 DEF Asks, NoAsk
    <3>. QED
      BY <1>3, <2>2, <3>1, <3>2, <3>5
  <2>. QED
    BY <2>1, <2>3, <2>4
<1>8. ASSUME Review \/ ScanNext \/ Poll \/ Propagate PROVE Linked'
  BY <1>2, <1>8 DEF Review, ScanNext, Poll, Propagate, Posted
<1>9. ASSUME NEW kind \in Reconcilers, StartScan(kind) PROVE Linked'
  BY <1>2, <1>9 DEF StartScan, Posted
<1>10. ASSUME PollNext PROVE Linked'
  <2>1. PICK a \in polled.asks : ExpireAsk(a) \/ LeaveAskOpen(a) \/ TakeAnswer(a)
    BY <1>10 DEF PollNext
  <2>2. a \in Posted /\ a \in Asks /\ ask \in [Asks -> Ask]
    BY <1>0 DEF Steady, Fresh, TypeOK
  <2>3. ASSUME NEW s \in {"expired", "answered"}, SetAsk(a, s) PROVE Posted' = Posted
    BY <2>2, <2>3 DEF SetAsk, Posted, Ask
  <2>4. Posted' = Posted
    BY <2>1, <2>3 DEF ExpireAsk, LeaveAskOpen, TakeAnswer, Posted
  <2>. QED
    BY <1>2, <1>10, <2>4 DEF PollNext
<1>11. ASSUME NEW a \in Asks, Reply(a) PROVE Linked'
  BY <1>2, <1>11 DEF Reply, Posted
<1>12. ASSUME Tick \/ UNCHANGED vars PROVE Linked'
  BY <1>2, <1>12 DEF Tick, vars, Posted
<1>13. ASSUME NEW p \in Programs, Crash(p) PROVE Linked'
  BY <1>0, <1>13 DEF Crash, TypeOK
<1>. QED
  BY <1>4, <1>5, <1>6, <1>7, <1>8, <1>9, <1>10, <1>11, <1>12, <1>13 DEF Next

LEMMA NextReached ==
  ASSUME Steady, Steady', Careful, Linked, Reached, [Next]_vars, crashes' = 0
  PROVE  Reached'
<1>. USE DEF logs, operator, programs
<1>0. TypeOK /\ TypeOK'
  BY DEF Steady
<1>1. ASSUME NEW a \in Asks, NEW r \in Records, rec[r].ask = a, IsTruth(rec[r])
      PROVE  rec'[r].ask = a /\ IsTruth(rec'[r])
  BY <1>1 DEF Careful, Asks, NoAsk, IsTruth
<1>2. ASSUME \A a \in Asks : ask'[a].status = "answered" /\ answering' # a =>
                             ask[a].status = "answered" /\ answering # a
      PROVE  Reached'
  <2>. SUFFICES ASSUME NEW a \in Asks, ask'[a].status = "answered", answering' # a
                PROVE  \E r \in Records : rec'[r].ask = a /\ IsTruth(rec'[r])
    BY DEF Reached, IsTruth
  <2>1. PICK r \in Records : rec[r].ask = a /\ IsTruth(rec[r])
    BY <1>2 DEF Reached
  <2>. QED
    BY <1>1, <2>1
<1>3. ASSUME NEW i \in Inputs, Resolve(i) \/ Relabel(i) PROVE Reached'
  BY <1>2, <1>3 DEF Resolve, Relabel
<1>4. ASSUME NEW i \in Inputs, Escalate(i) PROVE Reached'
  BY <1>0, <1>2, <1>4, PostTypes DEF Escalate
<1>5. ASSUME NEW p \in DOMAIN line, Link(p) PROVE Reached'
  BY <1>2, <1>5 DEF Link
<1>6. ASSUME ReviewNext PROVE Reached'
  <2>1. PICK l \in review.lines : SkipCandidate(l) \/ LeaveCandidate(l) \/ AskAboutCandidate(l)
    BY <1>6 DEF ReviewNext
  <2>2. l.at[1] \in Inputs /\ answering' = answering
    BY <1>0, <1>6 DEF TypeOK, Lines, Records, ReviewNext
  <2>3. CASE SkipCandidate(l) \/ LeaveCandidate(l)
    BY <1>2, <2>2, <2>3 DEF SkipCandidate, LeaveCandidate
  <2>4. CASE AskAboutCandidate(l)
    BY <1>0, <1>2, <2>2, <2>4, PostTypes DEF AskAboutCandidate
  <2>. QED
    BY <2>1, <2>3, <2>4
<1>7. ASSUME Review \/ ScanNext \/ Poll PROVE Reached'
  BY <1>2, <1>7 DEF Review, ScanNext, Poll
<1>8. ASSUME NEW kind \in Reconcilers, StartScan(kind) PROVE Reached'
  BY <1>2, <1>8 DEF StartScan
<1>9. ASSUME PollNext PROVE Reached'
  <2>1. PICK a \in polled.asks : ExpireAsk(a) \/ LeaveAskOpen(a) \/ TakeAnswer(a)
    BY <1>9 DEF PollNext
  <2>2. a \in Asks /\ ask \in [Asks -> Ask] /\ answering = NoAsk
    BY <1>0, <1>9 DEF TypeOK, PollNext
  <2>3. ASSUME NEW s \in {"expired", "answered"}, SetAsk(a, s)
        PROVE  ask'[a].status = s /\ \A b \in Asks : b # a => ask'[b] = ask[b]
    BY <2>2, <2>3 DEF SetAsk, Ask
  <2>4. CASE ExpireAsk(a)
    BY <1>2, <2>2, <2>3, <2>4 DEF ExpireAsk, Asks, NoAsk
  <2>5. CASE LeaveAskOpen(a)
    BY <1>2, <2>5 DEF LeaveAskOpen
  <2>6. CASE TakeAnswer(a)
    BY <1>2, <2>2, <2>3, <2>6 DEF TakeAnswer, Asks, NoAsk
  <2>. QED
    BY <2>1, <2>4, <2>5, <2>6
<1>10. ASSUME Propagate PROVE Reached'
  <2>1. answering \in Asks /\ ask[answering].status = "answered"
        /\ replies[answering][1] = "reply" /\ ask' = ask /\ answering' = NoAsk
    BY <1>0, <1>10 DEF Propagate, TypeOK, Steady, Answered
  <2>2. answering \in Posted /\ ~Holds(answering)
    <3>1. line["cascade"] = NoLine /\ line["orchestrator"] = NoLine
      BY <1>10, WhoIsActive DEF Propagate, Alone, Steady
    <3>. QED
      BY <2>1, <3>1 DEF Posted, Holds
  <2>3. PICK s \in Records : rec[s].ask = answering
    BY <2>2 DEF Linked
  <2>4. \E r \in Records : rec'[r].ask = answering /\ IsTruth(rec'[r])
    <3>1. CASE AnswersTo(answering) = {}
      BY <1>1, <2>1, <2>3, <3>1 DEF AnswersTo
    <3>2. CASE AnswersTo(answering) # {}
      <4>1. PICK r \in AnswersTo(answering) :
              Write(r, WithReality(rec[r], replies[answering][1]))
        BY <1>10, <3>2 DEF Propagate
      <4>2. r \in Records /\ rec[r].ask = answering /\ rec[r] \in Rec
        BY <1>0 DEF AnswersTo, TypeOK
      <4>3. rec'[r] = WithReality(rec[r], "reply")
        BY <1>0, <2>1, <4>1, <4>2 DEF Write, TypeOK
      <4>4. rec'[r].ask = answering /\ rec'[r].reality = "reply"
        BY <4>2, <4>3, LineValues DEF Reality
      <4>. QED
        BY <4>2, <4>4 DEF IsTruth
    <3>. QED
      BY <3>1, <3>2
  <2>5. ASSUME NEW a \in Asks, ask'[a].status = "answered", answering' # a
        PROVE  \E r \in Records : rec'[r].ask = a /\ IsTruth(rec'[r])
    <3>1. CASE a = answering
      BY <2>4, <3>1
    <3>2. CASE a # answering
      <4>1. PICK r \in Records : rec[r].ask = a /\ IsTruth(rec[r])
        BY <2>1, <2>5, <3>2 DEF Reached
      <4>. QED
        BY <1>1, <4>1
    <3>. QED
      BY <3>1, <3>2
  <2>. QED
    BY <2>5 DEF Reached, IsTruth
<1>11. ASSUME NEW a \in Asks, Reply(a) PROVE Reached'
  BY <1>2, <1>11 DEF Reply
<1>12. ASSUME Tick \/ UNCHANGED vars PROVE Reached'
  BY <1>2, <1>12 DEF Tick, vars
<1>13. ASSUME NEW p \in Programs, Crash(p) PROVE Reached'
  BY <1>0, <1>13 DEF Crash, TypeOK
<1>. QED
  BY <1>3, <1>4, <1>5, <1>6, <1>7, <1>8, <1>9, <1>10, <1>11, <1>12, <1>13 DEF Next

(***************************************************************************)
(* As long as no program dies, an ask that was answered has its answer in  *)
(* the record it was about once the poller is through, unless Gmail was    *)
(* first: the link is appended before the poller starts, and no later line *)
(* of the record drops it.                                                 *)
(***************************************************************************)
THEOREM AnswersReachRecords == Spec => []RepliesReachRecords
<1>. DEFINE Inv == Steady /\ (crashes = 0 => Linked /\ Reached)
<1>1. Init => Inv
  <2>. SUFFICES ASSUME Init PROVE Linked /\ Reached
    BY InitSteady
  <2>. QED
    BY DEF Init, Linked, Reached, Posted
<1>2. Inv /\ [Next]_vars => Inv'
  <2>. SUFFICES ASSUME Inv, [Next]_vars PROVE Inv'
    OBVIOUS
  <2>1. Steady' /\ Careful
    BY NextSteady
  <2>2. crashes' = 0 => crashes = 0
    <3>1. crashes' = crashes \/ crashes' = crashes + 1
      BY DEF Next, vars, Resolve, Escalate, Relabel, Link, Review, ReviewNext, StartScan,
         ScanNext, Poll, PollNext, Propagate, Reply, Crash, Tick
    <3>. QED
      BY <3>1 DEF Steady, TypeOK
  <2>. QED
    BY <2>1, <2>2, NextLinked, NextReached
<1>3. Inv => RepliesReachRecords
  <2>. SUFFICES ASSUME Inv, crashes = 0, "poller" \notin Active,
                       NEW a \in Asks, ask[a].status = "answered"
                PROVE  \E r \in Records :
                         rec[r].ask = a /\ rec[r].reality \in {replies[a][1], "own", "operator"}
    BY DEF RepliesReachRecords
  <2>1. answering = NoAsk
    BY WhoIsActive
  <2>2. PICK r \in Records : rec[r].ask = a /\ IsTruth(rec[r])
    BY <2>1 DEF Reached, Asks, NoAsk
  <2>3. rec[r].reality \in Reality /\ replies[a][1] = "reply"
    BY DEF Steady, TypeOK, Answered, Rec
  <2>. QED
    BY <2>2, <2>3 DEF IsTruth, Reality
<1>. QED
  BY <1>1, <1>2, <1>3, PTL DEF Spec
===============================================================================
