------------------------- MODULE NewsletterRunProofs -------------------------
(***************************************************************************)
(* Proofs about NewsletterRun, for any number of runs at once, threads,    *)
(* mails, categories and failures.                                         *)
(*                                                                         *)
(* Busy adds to the types what a run has in hand, Listed says what it      *)
(* knows of the labels when it changes them, and Ahead what the mailbox    *)
(* may hold of a thread beyond the mail that a run took for its last.      *)
(* Sole and Accounted are about one run at a time: what the ledger has of  *)
(* a thread is older than what a run has in hand of it, and, as long as no *)
(* run failed, as new as the mail the thread was last labelled for.        *)
(***************************************************************************)
EXTENDS NewsletterRun, FiniteSetTheorems, TLAPS

Tagging == {"ensure", "create", "list", "modify"}

\* The mails a run has read and not yet labelled.
Held(r) == queue[r] \cup (IF pc[r] \in Tagging THEN {item[r]} ELSE {})

Busy ==
  \A r \in Runners :
    /\ pc[r] \in Tagging \cup {"record"} => item[r] \in Mails
    /\ pc[r] \in Tagging => flow[r] = "tagging"
    /\ pc[r] \in {"list", "modify"} => category[r] \in known

Listed ==
  /\ Established \subseteq known
  /\ \A r \in Runners : pc[r] = "modify" =>
       Established \subseteq listed[r] /\ (Alone => known \subseteq listed[r])

\* The labels OneCategory is about.
Visible(t) == IF Alone THEN labels[t] ELSE labels[t] \cap Established
Single == \A t \in Threads : \A c, d \in Visible(t) : c = d

Ahead ==
  \A r \in Runners : flow[r] = "tagging" =>
    \A m \in Held(r), n \in Mails :
      n > m /\ mail[n] = mail[m] => n \in late \/ Covered(n)

-----------------------------------------------------------------------------
(* Mails *)

LEMMA MailsAreNumbers ==
  ASSUME TypeOK
  PROVE  /\ Mails = 1..Len(mail) /\ Mails \subseteq Numbers /\ Mails \subseteq Nat
         /\ Len(mail) \in Nat /\ IsFiniteSet(Mails)
         /\ \A m \in Mails : mail[m] \in Threads
<1>1. mail \in Seq(Threads) /\ Len(mail) <= MaxMail /\ Len(mail) \in Nat /\ MaxMail \in Nat
    BY BoundsAssumption DEF TypeOK
<1>2. Mails = 1..Len(mail)
    BY <1>1 DEF Mails
<1>3. IsFiniteSet(1..Len(mail))
    BY <1>1, FS_Interval
<1> QED
    BY <1>1, <1>2, <1>3 DEF Numbers

LEMMA NewMail ==
  ASSUME TypeOK, NEW t \in Threads, Arrive(t)
  PROVE  /\ Mails' = Mails \cup {Len(mail) + 1}
         /\ \A m \in Mails : mail'[m] = mail[m] /\ m < Len(mail) + 1
         /\ mail'[Len(mail) + 1] = t /\ Len(mail) + 1 \notin Mails
<1>1. mail \in Seq(Threads) /\ Len(mail) \in Nat /\ mail' = Append(mail, t)
    BY MailsAreNumbers DEF TypeOK, Arrive
<1>2. Mails = 1..Len(mail) /\ Mails' = 1..(Len(mail) + 1)
    BY <1>1 DEF Mails
<1> QED
    BY <1>1, <1>2

\* Every step but the arrival of a mail leaves the mails alone.
LEMMA MailStep ==
  TypeOK /\ [Next]_vars => mail' = mail \/ \E t \in Threads : Arrive(t)
<1> QED
    BY DEF Next, Step, Filter, Classify, Ensure, Create, List, Modify, Record, MarkProcessed,
       LabelExists, Forget, Fail, Fetch, MoveBack, mailbox, vars

-----------------------------------------------------------------------------
(* Types *)

LEMMA TypeInit == Init => TypeOK /\ Busy
<1> SUFFICES ASSUME Init PROVE TypeOK /\ Busy
    OBVIOUS
<1>1. MaxMail \in Nat /\ MaxFailures \in Nat /\ NoFlow \in Workflows
    BY BoundsAssumption, RunnersAssumption DEF NoFlow
<1>2. Nothing \in Entry /\ Unclear \in Categories /\ known \subseteq Categories
    BY <1>1, CategoriesAssumption DEF Init, Nothing, Entry
<1>3. mail \in Seq(Threads) /\ Len(mail) = 0 /\ Mails = {}
    BY DEF Init, Mails
<1>4. /\ labels \in [Threads -> SUBSET known]
      /\ ledger \in [Workflows -> [Threads -> Entry]]
      /\ evals \in [Workflows -> [Numbers -> Nat]]
    BY <1>2 DEF Init
<1>5. /\ pc \in [Runners -> Steps] /\ flow \in [Runners -> Workflows]
      /\ queue \in [Runners -> SUBSET Mails]
      /\ item \in [Runners -> 0..MaxMail] /\ category \in [Runners -> Categories]
      /\ listed \in [Runners -> SUBSET known] /\ done \in [Runners -> SUBSET Entry]
    BY <1>1, <1>2 DEF Init, Steps
<1>6. \A r \in Runners : pc[r] = "idle"
    BY DEF Init
<1> QED
    BY <1>1, <1>2, <1>3, <1>4, <1>5, <1>6 DEF Init, TypeOK, Busy, Tagging

LEMMA TypeStep == TypeOK /\ Busy /\ [Next]_vars => (TypeOK /\ Busy)'
<1> SUFFICES ASSUME TypeOK, Busy, [Next]_vars PROVE (TypeOK /\ Busy)'
    OBVIOUS
<1>m. /\ Mails \subseteq Numbers /\ MaxMail \in Nat /\ MaxFailures \in Nat
      /\ \A m \in Mails : mail[m] \in Threads
    BY MailsAreNumbers, BoundsAssumption
<1>n. NoFlow \in Workflows /\ Unclear \in Categories /\ 0 \in 0..MaxMail
    BY <1>m, RunnersAssumption, CategoriesAssumption DEF NoFlow
<1>u. Mails' = Mails \/ \E t \in Threads : Arrive(t)
    BY MailStep DEF Mails
<1> USE DEF TypeOK
<1>1. ASSUME NEW r \in Runners, NEW w \in Workflows, Fetch(r, w) PROVE (TypeOK /\ Busy)'
  <2>1. LatestPerThread(Newest(inbox)) \subseteq Mails
      BY DEF LatestPerThread, Newest
  <2> QED
      BY <1>1, <2>1 DEF Fetch, Goto, Busy, Tagging, Steps, Mails, mailbox, store, history
<1>2. ASSUME NEW r \in Runners, Filter(r) PROVE (TypeOK /\ Busy)'
  <2>1. New(r) \subseteq Mails
      BY <1>2 DEF New
  <2> QED
      BY <1>2, <2>1 DEF Filter, Goto, Busy, Tagging, Steps, Mails, mailbox, store, history
<1>3. ASSUME NEW r \in Runners, Classify(r) PROVE (TypeOK /\ Busy)'
  <2>1. PICK m \in queue[r], c \in Categories :
          /\ queue' = [queue EXCEPT ![r] = @ \ {m}]
          /\ item' = [item EXCEPT ![r] = m]
          /\ category' = [category EXCEPT ![r] = c]
      BY <1>3 DEF Classify
  <2>2. m \in Mails /\ m \in 0..MaxMail
      BY <1>m DEF Numbers
  <2>3. pc' = [pc EXCEPT ![r] = IF flow[r] = "tagging" THEN "ensure" ELSE "record"]
        /\ UNCHANGED <<mailbox, store, flow, listed, done, history>>
      BY <1>3 DEF Classify, Goto
  <2>4. TypeOK'
      BY <2>1, <2>2, <2>3 DEF Steps, Mails, mailbox, store, history
  <2>5. Busy'
      BY <2>1, <2>2, <2>3 DEF Busy, Tagging, Mails, mailbox
  <2> QED
      BY <2>4, <2>5
<1>4. ASSUME NEW r \in Runners, Ensure(r) PROVE (TypeOK /\ Busy)'
    BY <1>4 DEF Ensure, Goto, Busy, Tagging, Steps, Mails, mailbox, store, history
<1>5. ASSUME NEW r \in Runners, Create(r) PROVE (TypeOK /\ Busy)'
    BY <1>5 DEF Create, Goto, Busy, Tagging, Steps, Mails, store, history
<1>6. ASSUME NEW r \in Runners, List(r) PROVE (TypeOK /\ Busy)'
    BY <1>6 DEF List, Goto, Busy, Tagging, Steps, Mails, mailbox, store, history
<1>7. ASSUME NEW r \in Runners, Modify(r) PROVE (TypeOK /\ Busy)'
  <2>1. item[r] \in Mails /\ category[r] \in known
      BY <1>7 DEF Modify, Goto, Busy, Tagging
  <2>2. \A t \in Threads : Relabelled(r, t) \subseteq known
      BY <2>1 DEF Relabelled
  <2>3. labels' \in [Threads -> SUBSET known]
      BY <1>7, <2>2 DEF Modify
  <2> QED
      BY <1>7, <2>1, <2>3 DEF Modify, Goto, Busy, Tagging, Steps, Mails, store
<1>8. ASSUME NEW r \in Runners, Record(r) PROVE (TypeOK /\ Busy)'
  <2>1. [mail |-> item[r], category |-> category[r]] \in Entry
      BY DEF Entry
  <2>2. done' \in [Runners -> SUBSET Entry]
      BY <1>8, <2>1 DEF Record
  <2>3. evals' \in [Workflows -> [Numbers -> Nat]]
    <3>1. item[r] \in Numbers /\ flow[r] \in Workflows
        BY <1>8, <1>m DEF Record, Goto, Busy
    <3>2. evals' = [evals EXCEPT ![flow[r]][item[r]] = evals[flow[r]][item[r]] + 1]
        BY <1>8 DEF Record
    <3>3. evals[flow[r]][item[r]] + 1 \in Nat
        BY <3>1
    <3> QED
        BY <3>1, <3>2, <3>3
  <2> QED
      BY <1>8, <1>n, <2>2, <2>3 DEF Record, Drop, Goto, Busy, Tagging, Steps, Mails, mailbox, history
<1>9. ASSUME NEW r \in Runners, MarkProcessed(r) PROVE (TypeOK /\ Busy)'
  <2>1. \A t \in Threads : Marked(r, t) \in Entry
      BY DEF Marked
  <2>2. ledger' \in [Workflows -> [Threads -> Entry]]
      BY <1>9, <2>1 DEF MarkProcessed
  <2> QED
      BY <1>9, <1>n, <2>2 DEF MarkProcessed, Goto, Busy, Tagging, Steps, Mails, mailbox, history
<1>10. ASSUME NEW r \in Runners, Forget(r), failures' \in 0..MaxFailures
       PROVE  (TypeOK /\ Busy)'
    BY <1>10, <1>n DEF Forget, Drop, Busy, Tagging, Steps, Mails, mailbox, store
<1>11. ASSUME NEW r \in Runners, Fail(r) \/ LabelExists(r) PROVE (TypeOK /\ Busy)'
    BY <1>10, <1>11, <1>m DEF Fail, LabelExists
<1>12. ASSUME NEW t \in Threads, Arrive(t) PROVE (TypeOK /\ Busy)'
  <2>1. mail' \in Seq(Threads) /\ Len(mail') <= MaxMail
      BY <1>12, <1>m DEF Arrive
  <2>2. Mails \subseteq Mails' /\ Len(mail) + 1 \in Mails'
      BY <1>12, NewMail
  <2>3. TypeOK'
      BY <1>12, <2>1, <2>2 DEF Arrive, store, run
  <2>4. Busy'
      BY <1>12, <2>2 DEF Busy, Arrive, run
  <2> QED
      BY <2>3, <2>4
<1>13. ASSUME NEW t \in Threads, MoveBack(t) PROVE (TypeOK /\ Busy)'
    BY <1>13 DEF MoveBack, Busy, Mails, store, run
<1>14. CASE UNCHANGED vars
    BY <1>14 DEF vars, mailbox, store, run, history, Busy, Mails
<1> QED
    BY <1>1, <1>2, <1>3, <1>4, <1>5, <1>6, <1>7, <1>8, <1>9, <1>11, <1>12, <1>13, <1>14
       DEF Next, Step

-----------------------------------------------------------------------------
(* One category *)

LEMMA ListedInit == Init => Listed /\ Single
<1> QED
    BY CategoriesAssumption DEF Init, Listed, Single, Visible

LEMMA SoleRunner ==
  ASSUME Alone, NEW r \in Runners, NEW q \in Runners PROVE r = q
<1>1. \E x : Runners = {x}
    BY RunnersAssumption, FS_Singleton DEF Alone
<1> QED
    BY <1>1

LEMMA ListedStep == TypeOK /\ Listed /\ [Next]_vars => Listed'
<1> SUFFICES ASSUME TypeOK, Listed, [Next]_vars PROVE Listed'
    OBVIOUS
<1> USE DEF TypeOK
<1>0. ASSUME known' = known, NEW r \in Runners,
             \A q \in Runners : q # r => pc'[q] = pc[q] /\ listed'[q] = listed[q],
             pc'[r] = "modify" => listed'[r] = known
      PROVE  Listed'
    BY <1>0 DEF Listed, Alone
<1>1. CASE UNCHANGED <<known, pc, listed>>
    BY <1>1 DEF Listed, Alone
<1>2. ASSUME NEW r \in Runners,
             \/ Filter(r) \/ Classify(r) \/ Ensure(r) \/ Modify(r) \/ MarkProcessed(r)
             \/ \E w \in Workflows : Fetch(r, w)
      PROVE  Listed'
    BY <1>0, <1>2 DEF Filter, Classify, Ensure, Modify, MarkProcessed, Fetch, Goto, mailbox
<1>3. ASSUME NEW r \in Runners, Record(r) \/ Fail(r) \/ LabelExists(r) PROVE Listed'
    BY <1>0, <1>3 DEF Record, Fail, LabelExists, Forget, Drop, Goto, mailbox
<1>4. ASSUME NEW r \in Runners, List(r) PROVE Listed'
    BY <1>0, <1>4 DEF List, Goto, mailbox
<1>5. ASSUME NEW r \in Runners, Create(r) PROVE Listed'
  <2>1. /\ known \subseteq known' /\ listed' = listed
        /\ pc[r] = "create" /\ pc' = [pc EXCEPT ![r] = "list"]
      BY <1>5 DEF Create, Goto
  <2>2. Alone => \A q \in Runners : pc'[q] = "list"
      BY <2>1, SoleRunner
  <2>3. \A q \in Runners : pc'[q] = "modify" => pc[q] = "modify"
      BY <2>1
  <2> QED
      BY <2>1, <2>2, <2>3 DEF Listed, Alone
<1>6. ASSUME NEW t \in Threads, Arrive(t) \/ MoveBack(t) PROVE Listed'
    BY <1>1, <1>6 DEF Arrive, MoveBack, run
<1>7. CASE UNCHANGED vars
    BY <1>1, <1>7 DEF vars, mailbox, run
<1> QED
    BY <1>2, <1>3, <1>4, <1>5, <1>6, <1>7 DEF Next, Step

LEMMA SingleStep == TypeOK /\ Busy /\ Listed /\ Single /\ [Next]_vars => Single'
<1> SUFFICES ASSUME TypeOK, Busy, Listed, Single, [Next]_vars PROVE Single'
    OBVIOUS
<1> USE DEF TypeOK
<1>1. CASE UNCHANGED labels
    BY <1>1 DEF Single, Visible, Alone
<1>2. ASSUME NEW r \in Runners, Modify(r) PROVE Single'
  <2>1. pc[r] = "modify" /\ Established \subseteq listed[r] /\ (Alone => known \subseteq listed[r])
      BY <1>2 DEF Modify, Goto, Listed
  <2>2. \A t \in Threads :
          \/ labels'[t] = labels[t]
          \/ labels'[t] = (labels[t] \ listed[r]) \cup {category[r]}
      BY <1>2 DEF Modify, Relabelled
  <2>3. \A t \in Threads : labels[t] \subseteq known
      OBVIOUS
  <2>4. ASSUME NEW t \in Threads, NEW c \in Visible(t)', NEW d \in Visible(t)' PROVE c = d
    <3>1. CASE labels'[t] = labels[t]
        BY <2>4, <3>1 DEF Single, Visible, Alone
    <3>2. CASE labels'[t] = (labels[t] \ listed[r]) \cup {category[r]}
        BY <2>1, <2>3, <2>4, <3>2 DEF Visible, Alone
    <3> QED
        BY <2>2, <3>1, <3>2
  <2> QED
      BY <2>4 DEF Single
<1>3. ASSUME NEW r \in Runners, ~Modify(r),
             Step(r) \/ Fail(r) \/ \E w \in Workflows : Fetch(r, w)
      PROVE  UNCHANGED labels
    BY <1>3 DEF Step, Filter, Classify, Ensure, Create, List, Record, MarkProcessed, LabelExists,
       Forget, Fail, Fetch, mailbox
<1>4. ASSUME NEW t \in Threads, Arrive(t) \/ MoveBack(t) PROVE UNCHANGED labels
    BY <1>4 DEF Arrive, MoveBack
<1> QED
    BY <1>1, <1>2, <1>3, <1>4 DEF Next, vars, mailbox

-----------------------------------------------------------------------------
(* What is archived *)

LEMMA AheadInit == Init => Ahead /\ ArchivedMailWasRead
<1> SUFFICES ASSUME Init PROVE Ahead /\ ArchivedMailWasRead
    OBVIOUS
<1>1. Mails = {}
    BY DEF Init, Mails
<1> QED
    BY <1>1 DEF Init, Ahead, ArchivedMailWasRead

\* A newer mail of the inbox is among the newest when an older one is.
LEMMA NewestIsLatest ==
  ASSUME TypeOK, NEW m \in LatestPerThread(Newest(inbox)), NEW n \in Mails,
         n > m, mail[n] = mail[m]
  PROVE  n \notin inbox
<1> SUFFICES ASSUME n \in inbox PROVE FALSE
    OBVIOUS
<1>1. inbox \subseteq Nat /\ IsFiniteSet(inbox) /\ m \in Newest(inbox) /\ m \in inbox
    BY MailsAreNumbers, FS_Subset DEF TypeOK, LatestPerThread, Newest
<1>2. {k \in inbox : k > n} \subseteq {k \in inbox : k > m}
  <2> SUFFICES ASSUME NEW k \in inbox, k > n PROVE k > m
      OBVIOUS
  <2> QED
      BY <1>1
<1>3. IsFiniteSet({k \in inbox : k > m}) /\ IsFiniteSet({k \in inbox : k > n})
    BY <1>1, FS_Subset
<1>4. /\ Cardinality({k \in inbox : k > n}) <= Cardinality({k \in inbox : k > m})
      /\ Cardinality({k \in inbox : k > n}) \in Nat /\ Cardinality({k \in inbox : k > m}) \in Nat
    BY <1>2, <1>3, FS_Subset, FS_CardinalityType
<1>5. Cardinality({k \in inbox : k > m}) < MaxResults
    BY <1>1 DEF Newest
<1>6. n \in Newest(inbox)
    BY <1>4, <1>5, BoundsAssumption DEF Newest
<1>7. n <= m
    BY <1>6 DEF LatestPerThread
<1> QED
    BY <1>1, <1>7, MailsAreNumbers

\* What was covered stays covered.
LEMMA CoveredStays ==
  ASSUME TypeOK, NEW m \in Mails, Covered(m), tagged \subseteq tagged',
         \A k \in Mails : mail'[k] = mail[k]
  PROVE  Covered(m)'
<1> QED
    BY DEF Covered, TypeOK

\* A step that reads no mail, labels no thread and takes no mail in.
LEMMA AheadStays ==
  ASSUME TypeOK, Ahead, ArchivedMailWasRead, mail' = mail, inbox \subseteq inbox',
         tagged' = tagged, late' = late,
         \A r \in Runners : /\ flow'[r] = flow[r] \/ Held(r)' = {}
                            /\ Held(r)' \subseteq Held(r)
  PROVE  (Ahead /\ ArchivedMailWasRead)'
<1>1. Mails' = Mails /\ \A m \in Mails : Covered(m)' = Covered(m)
    BY DEF Mails, Covered
<1>2. Ahead'
  <2> SUFFICES ASSUME NEW r \in Runners, flow'[r] = "tagging", NEW m \in Held(r)',
                      NEW n \in Mails, n > m, mail[n] = mail[m]
               PROVE  n \in late \/ Covered(n)
      BY <1>1 DEF Ahead
  <2> QED
      BY DEF Ahead
<1>3. ArchivedMailWasRead'
    BY <1>1 DEF ArchivedMailWasRead
<1> QED
    BY <1>2, <1>3

LEMMA AheadStep ==
  TypeOK /\ Busy /\ Ahead /\ ArchivedMailWasRead /\ [Next]_vars
    => (Ahead /\ ArchivedMailWasRead)'
<1> SUFFICES ASSUME TypeOK, Busy, Ahead, ArchivedMailWasRead, [Next]_vars
             PROVE  (Ahead /\ ArchivedMailWasRead)'
    OBVIOUS
<1> USE DEF TypeOK
<1>m. Mails \subseteq Nat /\ \A m \in Mails : mail[m] \in Threads
    BY MailsAreNumbers
<1>1. ASSUME NEW r \in Runners, NEW w \in Workflows, Fetch(r, w)
      PROVE  (Ahead /\ ArchivedMailWasRead)'
  <2>1. /\ UNCHANGED <<mail, inbox, tagged, late>> /\ pc[r] = "idle"
        /\ \A q \in Runners : q # r => flow'[q] = flow[q] /\ Held(q)' = Held(q)
        /\ Held(r)' = LatestPerThread(Newest(inbox))
      BY <1>1 DEF Fetch, Goto, Held, Tagging, mailbox, history
  <2>2. Mails' = Mails /\ \A n \in Mails : Covered(n)' = Covered(n)
      BY <2>1 DEF Mails, Covered
  <2>3. ASSUME NEW q \in Runners, flow'[q] = "tagging", NEW m \in Held(q)', NEW n \in Mails,
               n > m, mail[n] = mail[m]
        PROVE  n \in late \/ Covered(n)
    <3>1. CASE q = r
        BY <2>1, <2>3, <3>1, NewestIsLatest DEF ArchivedMailWasRead
    <3>2. CASE q # r
        BY <2>1, <2>3, <3>2 DEF Ahead
    <3> QED
        BY <3>1, <3>2
  <2>4. Ahead'
      BY <2>1, <2>2, <2>3 DEF Ahead
  <2> QED
      BY <2>1, <2>2, <2>4 DEF ArchivedMailWasRead
<1>2. ASSUME NEW r \in Runners, Filter(r) PROVE (Ahead /\ ArchivedMailWasRead)'
  <2>1. \A q \in Runners : Held(q)' \subseteq Held(q)
      BY <1>2 DEF Filter, Goto, New, Held, Tagging
  <2> QED
      BY <1>2, <2>1, AheadStays DEF Filter, mailbox, history
<1>3. ASSUME NEW r \in Runners, Classify(r) PROVE (Ahead /\ ArchivedMailWasRead)'
  <2>1. \A q \in Runners : Held(q)' \subseteq Held(q)
      BY <1>3 DEF Classify, Goto, Held, Tagging
  <2> QED
      BY <1>3, <2>1, AheadStays DEF Classify, mailbox, history
<1>4. ASSUME NEW r \in Runners, Ensure(r) \/ Create(r) \/ List(r)
      PROVE  (Ahead /\ ArchivedMailWasRead)'
  <2>1. \A q \in Runners : Held(q)' \subseteq Held(q)
      BY <1>4 DEF Ensure, Create, List, Goto, Held, Tagging
  <2> QED
      BY <1>4, <2>1, AheadStays DEF Ensure, Create, List, mailbox, history
<1>5. ASSUME NEW r \in Runners, Modify(r) PROVE (Ahead /\ ArchivedMailWasRead)'
  <2>1. /\ pc[r] = "modify" /\ flow[r] = "tagging" /\ item[r] \in Mails /\ item[r] \in Held(r)
        /\ tagged' = tagged \cup {item[r]} /\ UNCHANGED <<mail, late, flow, queue, item>>
        /\ pc' = [pc EXCEPT ![r] = "record"]
        /\ inbox' = inbox \ {m \in inbox : mail[m] = mail[item[r]]}
      BY <1>5 DEF Modify, Goto, Busy, Tagging, Held, Archived
  <2>2. Mails' = Mails /\ \A n \in Mails : Covered(n) => Covered(n)'
      BY <2>1, CoveredStays DEF Mails
  <2>3. \A q \in Runners : Held(q)' \subseteq Held(q)
      BY <2>1 DEF Held, Tagging
  <2>4. Ahead'
      BY <2>1, <2>2, <2>3 DEF Ahead
  <2>5. ASSUME NEW m \in Mails, m \notin inbox', m \notin late PROVE Covered(m)'
    <3>1. CASE m \notin inbox
        BY <2>2, <2>5, <3>1 DEF ArchivedMailWasRead
    <3>2. CASE mail[m] = mail[item[r]] /\ m <= item[r]
        BY <2>1, <3>2 DEF Covered
    <3>3. CASE mail[m] = mail[item[r]] /\ m > item[r]
        BY <2>1, <2>2, <2>5, <3>3 DEF Ahead
    <3> QED
        BY <2>1, <2>5, <3>1, <3>2, <3>3, <1>m
  <2>6. ArchivedMailWasRead'
      BY <2>1, <2>2, <2>5 DEF ArchivedMailWasRead
  <2> QED
      BY <2>4, <2>6
<1>6. ASSUME NEW r \in Runners, Record(r) PROVE (Ahead /\ ArchivedMailWasRead)'
  <2>1. \A q \in Runners : Held(q)' \subseteq Held(q)
      BY <1>6 DEF Record, Drop, Goto, Held, Tagging
  <2> QED
      BY <1>6, <2>1, AheadStays DEF Record, mailbox, history
<1>7. ASSUME NEW r \in Runners, MarkProcessed(r) PROVE (Ahead /\ ArchivedMailWasRead)'
  <2>1. Held(r)' = {} /\ \A q \in Runners : q # r => Held(q)' = Held(q) /\ flow'[q] = flow[q]
      BY <1>7 DEF MarkProcessed, Goto, Held, Tagging
  <2> QED
      BY <1>7, <2>1, AheadStays DEF MarkProcessed, mailbox, history
<1>8. ASSUME NEW r \in Runners, Fail(r) \/ LabelExists(r) PROVE (Ahead /\ ArchivedMailWasRead)'
  <2>1. Held(r)' = {} /\ \A q \in Runners : q # r => Held(q)' = Held(q) /\ flow'[q] = flow[q]
      BY <1>8 DEF Fail, LabelExists, Forget, Drop, Held, Tagging
  <2> QED
      BY <1>8, <2>1, AheadStays DEF Fail, LabelExists, Forget, mailbox
<1>9. ASSUME NEW t \in Threads, Arrive(t) PROVE (Ahead /\ ArchivedMailWasRead)'
  <2> DEFINE new == Len(mail) + 1
  <2>1. /\ Mails' = Mails \cup {new} /\ mail'[new] = t /\ new \notin Mails
        /\ \A m \in Mails : mail'[m] = mail[m]
      BY <1>9, NewMail
  <2>2. /\ UNCHANGED <<tagged, run>> /\ inbox' = inbox \cup {new} /\ late \subseteq late'
        /\ (\E r \in Runners : t \in InHand(r)) => new \in late'
      BY <1>9 DEF Arrive
  <2>3. \A n \in Mails : Covered(n) => Covered(n)'
      BY <2>1, <2>2, CoveredStays
  <2>4. \A r \in Runners : Held(r)' = Held(r) /\ flow'[r] = flow[r] /\ Held(r) \subseteq Mails
      BY <2>2 DEF Held, Busy, run
  <2>5. ASSUME NEW r \in Runners, flow[r] = "tagging", NEW m \in Held(r), mail[m] = t
        PROVE  new \in late'
    <3>1. t \in InHand(r)
        BY <2>5 DEF InHand, Held, Tagging
    <3> QED
        BY <2>2, <3>1
  <2>6. Ahead'
    <3> SUFFICES ASSUME NEW r \in Runners, flow'[r] = "tagging", NEW m \in Held(r)',
                        NEW n \in Mails', n > m, mail'[n] = mail'[m]
                 PROVE  n \in late' \/ Covered(n)'
        BY DEF Ahead
    <3>1. CASE n = new
      <4>1. m \in Held(r) /\ flow[r] = "tagging" /\ mail[m] = t
          BY <2>1, <2>4, <3>1
      <4> QED
          BY <2>5, <3>1, <4>1
    <3>2. CASE n \in Mails
      <4>1. m \in Held(r) /\ flow[r] = "tagging" /\ mail[n] = mail[m]
          BY <2>1, <2>4, <3>2
      <4>2. n \in late \/ Covered(n)
          BY <3>2, <4>1 DEF Ahead
      <4> QED
          BY <2>2, <2>3, <3>2, <4>2
    <3> QED
        BY <2>1, <3>1, <3>2
  <2>7. ArchivedMailWasRead'
      BY <2>1, <2>2, <2>3 DEF ArchivedMailWasRead
  <2> QED
      BY <2>6, <2>7
<1>10. ASSUME NEW t \in Threads, MoveBack(t) PROVE (Ahead /\ ArchivedMailWasRead)'
  <2>1. \A q \in Runners : Held(q)' = Held(q) /\ flow'[q] = flow[q]
      BY <1>10 DEF MoveBack, Held, run
  <2> QED
      BY <1>10, <2>1, AheadStays DEF MoveBack
<1>11. CASE UNCHANGED vars
  <2>1. \A q \in Runners : Held(q)' = Held(q) /\ flow'[q] = flow[q]
      BY <1>11 DEF vars, Held, run
  <2> QED
      BY <1>11, <2>1, AheadStays DEF vars, mailbox, history
<1> QED
    BY <1>1, <1>2, <1>3, <1>4, <1>5, <1>6, <1>7, <1>8, <1>9, <1>10, <1>11 DEF Next, Step

-----------------------------------------------------------------------------
(* The ledger *)

\* The mails a run has in hand, and those it is done with.
Working(r) == IF pc[r] \in Tagging \cup {"record"} THEN {item[r]} ELSE {}
Finished(r) == {d.mail : d \in done[r]}

\* The inbox holds a thread from some mail on.
Upward == \A m \in inbox, n \in Mails : n > m /\ mail[n] = mail[m] => n \in inbox

\* The last mail of a thread.
IsLast(l, t) == l \in Mails /\ mail[l] = t /\ \A n \in Mails : mail[n] = t => n <= l
HasLast == \A m \in Mails : \E l \in Mails : IsLast(l, mail[m])

Marks ==
  \A w \in Workflows, t \in Threads :
    ledger[w][t].mail # 0 => ledger[w][t].mail \in Mails /\ mail[ledger[w][t].mail] = t

\* A run has at most one mail of a thread.
ApartIn(r) ==
  /\ pc[r] = "idle" => queue[r] = {} /\ done[r] = {}
  /\ pc[r] = "filter" => done[r] = {}
  /\ \A m, n \in queue[r] : mail[m] = mail[n] => m = n
  /\ \A m \in queue[r], n \in Working(r) \cup Finished(r) : mail[m] # mail[n]
  /\ \A m \in Working(r), n \in Finished(r) : mail[m] # mail[n]
  /\ \A d, e \in done[r] : d.mail \in Mails /\ (mail[d.mail] = mail[e.mail] => d = e)
Apart == \A r \in Runners : ApartIn(r)

LEMMA LastIs ==
  ASSUME TypeOK, NEW t, NEW l \in Mails, IsLast(l, t) PROVE Last(t) = l
<1> DEFINE S == {m \in Mails : mail[m] = t}
<1>1. S \subseteq Nat /\ l \in S /\ \A n \in S : l >= n
    BY MailsAreNumbers DEF IsLast
<1>2. \A k \in S : (\A n \in S : k >= n) => k = l
    BY <1>1
<1>3. Last(t) = CHOOSE k \in S : \A n \in S : k >= n
    BY DEF Last, Max
<1> QED
    BY <1>1, <1>2, <1>3

LEMMA OrderInit == Init => Upward /\ HasLast /\ Marks /\ Apart
<1> SUFFICES ASSUME Init PROVE Upward /\ HasLast /\ Marks /\ Apart
    OBVIOUS
<1>1. Mails = {} /\ inbox = {}
    BY DEF Init, Mails
<1>2. Marks
    BY DEF Init, Marks, Nothing
<1>3. Apart
    BY DEF Init, Apart, ApartIn, Working, Finished, Tagging
<1> QED
    BY <1>1, <1>2, <1>3 DEF Upward, HasLast

LEMMA UpwardStep ==
  TypeOK /\ Upward /\ HasLast /\ [Next]_vars => (Upward /\ HasLast)'
<1> SUFFICES ASSUME TypeOK, Upward, HasLast, [Next]_vars PROVE (Upward /\ HasLast)'
    OBVIOUS
<1>m. Mails \subseteq Nat /\ inbox \subseteq Mails
    BY MailsAreNumbers DEF TypeOK
<1>1. ASSUME mail' = mail, inbox' = inbox PROVE (Upward /\ HasLast)'
    BY <1>1 DEF Upward, HasLast, IsLast, Mails
<1>2. ASSUME NEW r \in Runners, Modify(r) PROVE (Upward /\ HasLast)'
  <2>1. mail' = mail /\ inbox' = inbox \ {m \in inbox : mail[m] = mail[item[r]]}
      BY <1>2 DEF Modify, Archived
  <2> QED
      BY <2>1 DEF Upward, HasLast, IsLast, Mails
<1>3. ASSUME NEW t \in Threads, MoveBack(t) PROVE (Upward /\ HasLast)'
  <2>1. mail' = mail /\ inbox' = inbox \cup {m \in Mails : mail[m] = t}
      BY <1>3 DEF MoveBack
  <2> QED
      BY <2>1 DEF Upward, HasLast, IsLast, Mails
<1>4. ASSUME NEW t \in Threads, Arrive(t) PROVE (Upward /\ HasLast)'
  <2>0. PICK new \in Nat : new = Len(mail) + 1
      BY MailsAreNumbers
  <2>1. /\ Mails' = Mails \cup {new} /\ mail'[new] = t
        /\ \A m \in Mails : mail'[m] = mail[m] /\ m < new
        /\ inbox' = inbox \cup {new}
      BY <1>4, <2>0, NewMail DEF Arrive
  <2>2. Upward'
    <3> SUFFICES ASSUME NEW m \in inbox', NEW n \in Mails', n > m, mail'[n] = mail'[m],
                        n # new
                 PROVE  n \in inbox
        BY <2>1 DEF Upward
    <3>1. n \in Mails /\ m \in Mails /\ m \in inbox
        BY <2>1, <1>m
    <3> QED
        BY <2>1, <3>1 DEF Upward
  <2>3. IsLast(new, t)'
      BY <2>1, <1>m DEF IsLast
  <2>4. ASSUME NEW m \in Mails, mail[m] # t PROVE (\E l \in Mails : IsLast(l, mail[m]))'
    <3>1. PICK l \in Mails : IsLast(l, mail[m])
        BY DEF HasLast
    <3>2. IsLast(l, mail[m])'
        BY <2>1, <2>4, <3>1 DEF IsLast
    <3> QED
        BY <2>1, <3>1, <3>2
  <2>5. HasLast'
      BY <2>1, <2>3, <2>4 DEF HasLast
  <2> QED
      BY <2>2, <2>5
<1>5. ASSUME NEW r \in Runners, ~Modify(r),
             Step(r) \/ Fail(r) \/ \E w \in Workflows : Fetch(r, w)
      PROVE  mail' = mail /\ inbox' = inbox
    BY <1>5 DEF Step, Filter, Classify, Ensure, Create, List, Record, MarkProcessed, LabelExists,
       Forget, Fail, Fetch, mailbox
<1> QED
    BY <1>1, <1>2, <1>3, <1>4, <1>5 DEF Next, vars, mailbox

LEMMA ApartStep == TypeOK /\ Busy /\ Apart /\ [Next]_vars => Apart'
<1> SUFFICES ASSUME TypeOK, Busy, Apart, [Next]_vars, NEW q \in Runners PROVE ApartIn(q)'
    BY DEF Apart
<1> USE DEF TypeOK, Busy
<1>a. ApartIn(q) /\ queue[q] \subseteq Mails /\ Working(q) \subseteq Mails
      /\ Finished(q) \subseteq Mails /\ done[q] \subseteq Entry
    BY DEF Apart, ApartIn, Working, Finished, Tagging
<1>0. CASE UNCHANGED <<mail, pc, queue, item, done>>
    BY <1>0, <1>a DEF ApartIn, Working, Finished, Mails
<1>1. ASSUME mail' = mail, pc'[q] = pc[q], queue'[q] = queue[q], item'[q] = item[q],
             done'[q] = done[q]
      PROVE  ApartIn(q)'
    BY <1>1, <1>a DEF ApartIn, Working, Finished, Mails
<1>2. ASSUME NEW w \in Workflows, Fetch(q, w) PROVE ApartIn(q)'
  <2>1. /\ mail' = mail /\ done' = done /\ pc[q] = "idle" /\ pc'[q] = "filter"
        /\ queue'[q] = LatestPerThread(Newest(inbox))
      BY <1>2 DEF Fetch, Goto, mailbox
  <2>2. Finished(q)' = {} /\ Working(q)' = {} /\ done'[q] = {}
      BY <1>a, <2>1 DEF ApartIn, Finished, Working, Tagging
  <2>3. ASSUME NEW m \in queue'[q], NEW n \in queue'[q], mail[m] = mail[n] PROVE m = n
    <3>1. m <= n /\ n <= m
        BY <2>1, <2>3 DEF LatestPerThread
    <3>2. m \in Nat /\ n \in Nat
        BY <2>1, MailsAreNumbers DEF LatestPerThread, Newest
    <3> QED
        BY <3>1, <3>2
  <2> QED
      BY <2>1, <2>2, <2>3 DEF ApartIn
<1>3. ASSUME Filter(q) PROVE ApartIn(q)'
    BY <1>3, <1>a DEF Filter, New, Goto, ApartIn, Working, Finished, Tagging, Mails, mailbox
<1>4. ASSUME Classify(q) PROVE ApartIn(q)'
  <2>1. PICK m \in queue[q] : queue'[q] = queue[q] \ {m} /\ item'[q] = m
      BY <1>4 DEF Classify
  <2>2. mail' = mail /\ done' = done /\ pc[q] = "next" /\ pc'[q] \in {"ensure", "record"}
      BY <1>4 DEF Classify, Goto, mailbox
  <2>3. Working(q)' = {m} /\ Finished(q)' = Finished(q) /\ Mails' = Mails
      BY <2>1, <2>2 DEF Working, Finished, Tagging, Mails
  <2> QED
      BY <1>a, <2>1, <2>2, <2>3 DEF ApartIn
<1>5. ASSUME Ensure(q) \/ Create(q) \/ List(q) \/ Modify(q) PROVE ApartIn(q)'
  <2>1. /\ UNCHANGED <<mail, queue, item, done>> /\ pc[q] \in Tagging
        /\ pc'[q] \in Tagging \cup {"record"}
      BY <1>5 DEF Ensure, Create, List, Modify, Goto, Tagging, mailbox
  <2>2. Working(q)' = Working(q) /\ Finished(q)' = Finished(q) /\ Mails' = Mails
        /\ pc'[q] \notin {"idle", "filter"}
      BY <2>1 DEF Working, Finished, Mails, Tagging
  <2> QED
      BY <1>a, <2>1, <2>2 DEF ApartIn
<1>6. ASSUME Record(q) PROVE ApartIn(q)'
  <2> DEFINE d == [mail |-> item[q], category |-> category[q]]
  <2>1. /\ mail' = mail /\ queue' = queue /\ pc[q] = "record" /\ pc'[q] = "next"
        /\ done'[q] = done[q] \cup {d}
      BY <1>6 DEF Record, Goto, mailbox
  <2>2. /\ Working(q) = {item[q]} /\ Working(q)' = {} /\ Mails' = Mails /\ item[q] \in Mails
        /\ Finished(q)' = Finished(q) \cup {item[q]}
    <3>1. d.mail = item[q] /\ Finished(q)' = {e.mail : e \in done[q] \cup {d}}
        BY <2>1 DEF Finished
    <3>2. Finished(q)' = Finished(q) \cup {item[q]}
        BY <3>1 DEF Finished
    <3> QED
        BY <2>1, <3>2 DEF Working, Tagging, Mails
  <2>3. \A e \in done[q] : e.mail \in Finished(q)
      BY DEF Finished
  <2>4. ASSUME NEW e \in done'[q], NEW f \in done'[q]
        PROVE  e.mail \in Mails /\ (mail[e.mail] = mail[f.mail] => e = f)
      BY <1>a, <2>1, <2>2, <2>3, <2>4 DEF ApartIn
  <2> QED
      BY <1>a, <2>1, <2>2, <2>4 DEF ApartIn
<1>7. ASSUME MarkProcessed(q) \/ Fail(q) \/ LabelExists(q) PROVE ApartIn(q)'
  <2>1. pc'[q] = "idle" /\ queue'[q] = {} /\ done'[q] = {}
      BY <1>7 DEF MarkProcessed, Fail, LabelExists, Forget, Goto
  <2> QED
      BY <2>1 DEF ApartIn, Working, Finished, Tagging
<1>8. ASSUME NEW t \in Threads, Arrive(t) PROVE ApartIn(q)'
  <2>1. Mails \subseteq Mails' /\ \A m \in Mails : mail'[m] = mail[m]
      BY <1>8, NewMail
  <2>2. UNCHANGED <<pc, queue, done>> /\ Working(q)' = Working(q) /\ Finished(q)' = Finished(q)
      BY <1>8 DEF Arrive, run, Working, Finished
  <2>3. \A m, n \in queue[q] : mail'[m] = mail'[n] => m = n
      BY <1>a, <2>1 DEF ApartIn
  <2>4. \A m \in queue[q] \cup Working(q), n \in Working(q) \cup Finished(q) :
          mail'[m] = mail[m] /\ mail'[n] = mail[n]
      BY <1>a, <2>1
  <2>5. \A d, e \in done[q] : d.mail \in Mails' /\ (mail'[d.mail] = mail'[e.mail] => d = e)
      BY <1>a, <2>1 DEF ApartIn
  <2> QED
      BY <1>a, <2>2, <2>3, <2>4, <2>5 DEF ApartIn
<1>9. ASSUME NEW t \in Threads, MoveBack(t) PROVE ApartIn(q)'
    BY <1>0, <1>9 DEF MoveBack, run
<1>10. ASSUME NEW r \in Runners, r # q,
              Step(r) \/ Fail(r) \/ \E w \in Workflows : Fetch(r, w)
       PROVE  ApartIn(q)'
    BY <1>1, <1>10 DEF Step, Filter, Classify, Ensure, Create, List, Modify, Record,
       MarkProcessed, LabelExists, Forget, Drop, Fail, Fetch, Goto, mailbox
<1>11. CASE UNCHANGED vars
    BY <1>0, <1>11 DEF vars, mailbox, run
<1> QED
    BY <1>2, <1>3, <1>4, <1>5, <1>6, <1>7, <1>8, <1>9, <1>10, <1>11 DEF Next, Step

LEMMA MarksStep == TypeOK /\ Busy /\ Apart /\ Marks /\ [Next]_vars => Marks'
<1> SUFFICES ASSUME TypeOK, Busy, Apart, Marks, [Next]_vars PROVE Marks'
    OBVIOUS
<1> USE DEF TypeOK
<1>1. CASE UNCHANGED <<mail, ledger>>
    BY <1>1 DEF Marks, Mails
<1>2. ASSUME NEW r \in Runners, MarkProcessed(r) PROVE Marks'
  <2>1. /\ mail' = mail /\ Mails' = Mails
        /\ ledger' = [ledger EXCEPT ![flow[r]] = [t \in Threads |-> Marked(r, t)]]
      BY <1>2 DEF MarkProcessed, mailbox, Mails
  <2>2. ASSUME NEW t \in Threads
        PROVE  \/ Marked(r, t) = ledger[flow[r]][t]
               \/ Marked(r, t).mail \in Mails /\ mail[Marked(r, t).mail] = t
      BY DEF Marked, Apart, ApartIn
  <2> QED
      BY <2>1, <2>2 DEF Marks
<1>3. ASSUME NEW t \in Threads, Arrive(t) PROVE Marks'
  <2>1. Mails \subseteq Mails' /\ \A m \in Mails : mail'[m] = mail[m]
      BY <1>3, NewMail
  <2>2. ledger' = ledger
      BY <1>3 DEF Arrive, store
  <2> QED
      BY <2>1, <2>2 DEF Marks
<1>4. ASSUME NEW r \in Runners, ~MarkProcessed(r),
             Step(r) \/ Fail(r) \/ \E w \in Workflows : Fetch(r, w)
      PROVE  UNCHANGED <<mail, ledger>>
    BY <1>4 DEF Step, Filter, Classify, Ensure, Create, List, Modify, Record, LabelExists,
       Forget, Fail, Fetch, mailbox, store
<1>5. ASSUME NEW t \in Threads, MoveBack(t) PROVE UNCHANGED <<mail, ledger>>
    BY <1>5 DEF MoveBack, store
<1> QED
    BY <1>1, <1>2, <1>3, <1>4, <1>5 DEF Next, vars, mailbox, store

\* What the ledger has of the threads a tagging run works on is older.
FreshIn(r) ==
  flow[r] = "tagging" =>
    /\ pc[r] = "filter" => \A m \in queue[r] : ledger["tagging"][mail[m]].mail <= m
    /\ pc[r] \notin {"idle", "filter"} =>
         \A m \in queue[r] \cup Working(r) \cup Finished(r) :
           ledger["tagging"][mail[m]].mail < m

\* The threads it is done with have the label it will report.
LabelledIn(r) ==
  flow[r] = "tagging" =>
    /\ pc[r] = "record" => labels[mail[item[r]]] = {category[r]}
    /\ \A d \in done[r] : labels[mail[d.mail]] = {d.category}

Fitting ==
  \A t \in Threads :
    LET e == ledger["tagging"][t]
    IN  e.mail # 0 /\ IsLast(e.mail, t) => labels[t] = {e.category}

\* What is true of a run that has the mailbox to itself.
Sole ==
  Alone /\ "tagging" \in Workflows =>
    Fitting /\ \A r \in Runners : FreshIn(r) /\ LabelledIn(r)

LEMMA SoleInit == Init => Sole
<1> QED
    BY DEF Init, Sole, Fitting, FreshIn, LabelledIn, Nothing

LEMMA SoleStep ==
  TypeOK /\ Busy /\ Listed /\ Upward /\ Marks /\ Apart /\ Sole /\ [Next]_vars => Sole'
<1> SUFFICES ASSUME TypeOK, Busy, Listed, Upward, Marks, Apart, Sole, [Next]_vars,
                    Alone, "tagging" \in Workflows
             PROVE  Fitting' /\ \A r \in Runners : FreshIn(r)' /\ LabelledIn(r)'
    BY DEF Sole, Alone
<1> DEFINE Goal(r) == Fitting' /\ FreshIn(r)' /\ LabelledIn(r)'
<1> USE DEF TypeOK
<1>m. Mails \subseteq Nat /\ 0 \in Nat /\ \A m \in Mails : mail[m] \in Threads
    BY MailsAreNumbers
<1>s. Fitting /\ \A r \in Runners : FreshIn(r) /\ LabelledIn(r) /\ ApartIn(r)
    BY DEF Sole, Apart
<1>e. \A t \in Threads : ledger["tagging"][t].mail \in Nat
    BY BoundsAssumption DEF Entry
<1>o. \A r, q \in Runners : r = q
    BY SoleRunner
<1>1. ASSUME NEW r \in Runners, UNCHANGED <<mail, ledger, labels>>, FreshIn(r)', LabelledIn(r)'
      PROVE  Goal(r)
    BY <1>1, <1>s DEF Fitting, IsLast, Mails
<1>2. ASSUME NEW r \in Runners, NEW w \in Workflows, Fetch(r, w) PROVE Goal(r)
  <2>1. /\ UNCHANGED <<mail, ledger, labels, done>> /\ pc[r] = "idle" /\ pc'[r] = "filter"
        /\ queue'[r] = LatestPerThread(Newest(inbox)) /\ done[r] = {}
      BY <1>2, <1>s DEF Fetch, Goto, mailbox, store, ApartIn
  <2>2. ASSUME NEW m \in queue'[r] PROVE ledger["tagging"][mail[m]].mail <= m
    <3> SUFFICES ASSUME ~(ledger["tagging"][mail[m]].mail <= m) PROVE FALSE
        OBVIOUS
    <3>1. m \in inbox /\ m \in Mails /\ m \in Nat /\ mail[m] \in Threads
        BY <2>1, <1>m DEF LatestPerThread, Newest
    <3>2. PICK x \in Nat : x = ledger["tagging"][mail[m]].mail
        BY <3>1, <1>e
    <3>3. x > m /\ x # 0
        BY <3>1, <3>2
    <3>4. x \in Mails /\ mail[x] = mail[m]
        BY <3>1, <3>2, <3>3 DEF Marks
    <3>5. x \in inbox
        BY <3>1, <3>3, <3>4 DEF Upward
    <3> QED
        BY <2>1, <3>3, <3>4, <3>5, NewestIsLatest
  <2> QED
      BY <1>1, <2>1, <2>2 DEF FreshIn, LabelledIn
<1>3. ASSUME NEW r \in Runners, Filter(r) PROVE Goal(r)
  <2>1. /\ UNCHANGED <<mail, ledger, labels, done, flow>> /\ pc[r] = "filter"
        /\ pc'[r] = "next" /\ queue'[r] = New(r) /\ done[r] = {}
      BY <1>3, <1>s DEF Filter, Goto, mailbox, store, ApartIn
  <2>2. Working(r)' = {} /\ Finished(r)' = {}
      BY <2>1 DEF Working, Finished, Tagging
  <2>3. ASSUME flow[r] = "tagging", NEW m \in New(r)
        PROVE  ledger["tagging"][mail[m]].mail < m
    <3>1. m \in queue[r] /\ ledger["tagging"][mail[m]].mail # m
        BY <2>3 DEF New
    <3>2. m \in Nat /\ mail[m] \in Threads
        BY <3>1, <1>m
    <3>3. ledger["tagging"][mail[m]].mail <= m
        BY <2>1, <2>3, <3>1, <1>s DEF FreshIn
    <3> QED
        BY <3>1, <3>2, <3>3, <1>e
  <2> QED
      BY <1>1, <2>1, <2>2, <2>3 DEF FreshIn, LabelledIn
<1>4. ASSUME NEW r \in Runners, Classify(r) PROVE Goal(r)
  <2>1. PICK m \in queue[r] : queue'[r] = queue[r] \ {m} /\ item'[r] = m
      BY <1>4 DEF Classify
  <2>2. /\ UNCHANGED <<mail, ledger, labels, done, flow>> /\ pc[r] = "next"
        /\ pc'[r] = (IF flow[r] = "tagging" THEN "ensure" ELSE "record")
      BY <1>4 DEF Classify, Goto, mailbox, store
  <2>3. flow[r] = "tagging" => Working(r)' = {m}
      BY <2>1, <2>2 DEF Working, Tagging
  <2>4. Finished(r)' = Finished(r)
      BY <2>2 DEF Finished
  <2>5. queue'[r] \cup Working(r)' \subseteq queue[r] \/ flow[r] # "tagging"
      BY <2>1, <2>3
  <2>6. FreshIn(r)'
    <3>1. flow[r] = "tagging" => \A n \in queue[r] \cup Finished(r) :
            ledger["tagging"][mail[n]].mail < n
        BY <2>2, <1>s DEF FreshIn
    <3>2. pc'[r] # "filter"
        BY <2>2
    <3>3. flow[r] = "tagging" => \A n \in queue'[r] \cup Working(r)' \cup Finished(r)' :
            ledger["tagging"][mail[n]].mail < n
        BY <2>4, <2>5, <3>1
    <3> QED
        BY <2>2, <3>2, <3>3 DEF FreshIn
  <2>7. LabelledIn(r)'
      BY <2>2, <1>s DEF LabelledIn
  <2> QED
      BY <1>1, <2>2, <2>6, <2>7
<1>5. ASSUME NEW r \in Runners, Ensure(r) \/ Create(r) \/ List(r) PROVE Goal(r)
  <2>1. /\ UNCHANGED <<mail, ledger, labels, done, flow, queue, item>> /\ pc[r] \in Tagging
        /\ pc'[r] \in Tagging
      BY <1>5 DEF Ensure, Create, List, Goto, Tagging, mailbox, store
  <2>2. Working(r)' = Working(r) /\ Finished(r)' = Finished(r)
        /\ pc[r] \notin {"idle", "filter", "record"} /\ pc'[r] \notin {"idle", "filter", "record"}
      BY <2>1 DEF Working, Finished, Tagging
  <2> QED
      BY <1>1, <1>s, <2>1, <2>2 DEF FreshIn, LabelledIn
<1>6. ASSUME NEW r \in Runners, Modify(r) PROVE Goal(r)
  <2> DEFINE t == mail[item[r]]
  <2>1. /\ UNCHANGED <<mail, ledger, done, flow, queue, item, category>> /\ pc[r] = "modify"
        /\ pc'[r] = "record" /\ labels' = [labels EXCEPT ![t] = Relabelled(r, t)]
      BY <1>6 DEF Modify, Goto, store
  <2>2. /\ item[r] \in Mails /\ flow[r] = "tagging" /\ t \in Threads
        /\ Working(r) = {item[r]} /\ Working(r)' = {item[r]} /\ Finished(r)' = Finished(r)
      BY <2>1, <1>m DEF Busy, Tagging, Working, Finished
  <2>3. labels'[t] = {category[r]}
    <3>1. labels[t] \subseteq known /\ known \subseteq listed[r]
        BY <2>1, <2>2 DEF Listed
    <3> QED
        BY <2>1, <2>2, <3>1 DEF Relabelled
  <2>4. \A u \in Threads : u # t => labels'[u] = labels[u]
      BY <2>1
  <2>5. \A d \in done[r] : mail[d.mail] # t /\ mail[d.mail] \in Threads
    <3>1. \A d \in done[r] : d.mail \in Finished(r) /\ d.mail \in Mails
        BY <1>s DEF Finished, ApartIn
    <3> QED
        BY <2>2, <3>1, <1>s, <1>m DEF ApartIn
  <2>6. LabelledIn(r)'
      BY <2>1, <2>2, <2>3, <2>4, <2>5, <1>s DEF LabelledIn
  <2>7. FreshIn(r)'
      BY <2>1, <2>2, <1>s DEF FreshIn
  <2>8. ~IsLast(ledger["tagging"][t].mail, t)
    <3>1. ledger["tagging"][t].mail < item[r]
        BY <2>1, <2>2, <1>s DEF FreshIn
    <3>2. PICK x \in Nat : x = ledger["tagging"][t].mail
        BY <2>2, <1>e
    <3>3. item[r] \in Nat /\ x < item[r]
        BY <2>2, <3>1, <3>2, <1>m
    <3>4. IsLast(x, t) => item[r] <= x
        BY <2>2 DEF IsLast
    <3> QED
        BY <3>2, <3>3, <3>4
  <2>9. Fitting'
      BY <2>1, <2>4, <2>8, <1>s DEF Fitting, IsLast, Mails
  <2> QED
      BY <2>6, <2>7, <2>9
<1>7. ASSUME NEW r \in Runners, Record(r) PROVE Goal(r)
  <2> DEFINE d == [mail |-> item[r], category |-> category[r]]
  <2>1. /\ UNCHANGED <<mail, ledger, labels, flow, queue>> /\ pc[r] = "record" /\ pc'[r] = "next"
        /\ done'[r] = done[r] \cup {d}
      BY <1>7 DEF Record, Goto, mailbox
  <2>2. Working(r) = {item[r]} /\ Working(r)' = {} /\ d.mail = item[r]
        /\ d.category = category[r]
      BY <2>1 DEF Working, Tagging
  <2>3. Finished(r)' = Finished(r) \cup {item[r]}
    <3>1. Finished(r)' = {e.mail : e \in done[r] \cup {d}}
        BY <2>1 DEF Finished
    <3> QED
        BY <2>2, <3>1 DEF Finished
  <2>4. LabelledIn(r)'
      BY <2>1, <2>2, <1>s DEF LabelledIn
  <2>5. FreshIn(r)'
    <3>1. queue[r] \cup Working(r)' \cup Finished(r)'
            = queue[r] \cup Working(r) \cup Finished(r)
        BY <2>2, <2>3
    <3> QED
        BY <2>1, <3>1, <1>s DEF FreshIn
  <2> QED
      BY <1>1, <2>1, <2>4, <2>5
<1>8. ASSUME NEW r \in Runners, MarkProcessed(r) PROVE Goal(r)
  <2>1. /\ UNCHANGED <<mail, labels>> /\ pc'[r] = "idle" /\ done'[r] = {}
        /\ ledger' = [ledger EXCEPT ![flow[r]] = [t \in Threads |-> Marked(r, t)]]
      BY <1>8 DEF MarkProcessed, Goto, mailbox
  <2>2. FreshIn(r)' /\ LabelledIn(r)'
      BY <2>1 DEF FreshIn, LabelledIn
  <2>3. ASSUME NEW t \in Threads, flow[r] = "tagging"
        PROVE  \/ ledger'["tagging"][t] = ledger["tagging"][t]
               \/ labels[t] = {ledger'["tagging"][t].category}
    <3>1. ledger'["tagging"][t] = Marked(r, t)
        BY <2>1, <2>3
    <3>2. \/ Marked(r, t) = ledger["tagging"][t]
          \/ Marked(r, t) \in done[r] /\ mail[Marked(r, t).mail] = t
        BY <2>3 DEF Marked
    <3>3. \A d \in done[r] : labels[mail[d.mail]] = {d.category}
        BY <2>3, <1>s DEF LabelledIn
    <3> QED
        BY <3>1, <3>2, <3>3
  <2>4. flow[r] # "tagging" => ledger'["tagging"] = ledger["tagging"]
      BY <2>1
  <2>5. Fitting'
      BY <2>1, <2>3, <2>4, <1>s DEF Fitting, IsLast, Mails
  <2> QED
      BY <2>2, <2>5
<1>9. ASSUME NEW r \in Runners, Fail(r) \/ LabelExists(r) PROVE Goal(r)
  <2>1. UNCHANGED <<mail, ledger, labels>> /\ pc'[r] = "idle" /\ queue'[r] = {} /\ done'[r] = {}
      BY <1>9 DEF Fail, LabelExists, Forget, mailbox, store
  <2> QED
      BY <1>1, <2>1 DEF FreshIn, LabelledIn
<1>10. ASSUME NEW r \in Runners, NEW t \in Threads, Arrive(t) PROVE Goal(r)
  <2>1. /\ Mails \subseteq Mails' /\ Len(mail) + 1 \in Mails' /\ mail'[Len(mail) + 1] = t
        /\ \A m \in Mails : mail'[m] = mail[m] /\ m < Len(mail) + 1
      BY <1>10, NewMail
  <2>2. /\ UNCHANGED <<ledger, labels, run>>
        /\ Working(r)' = Working(r) /\ Finished(r)' = Finished(r)
      BY <1>10 DEF Arrive, store, run, Working, Finished
  <2>3. queue[r] \cup Working(r) \cup Finished(r) \subseteq Mails
        /\ (pc[r] = "record" => item[r] \in Mails) /\ \A d \in done[r] : d.mail \in Mails
      BY <1>s DEF ApartIn, Working, Finished, Busy
  <2>4. FreshIn(r)'
      BY <2>1, <2>2, <2>3, <1>s DEF FreshIn, run
  <2>5. LabelledIn(r)'
      BY <2>1, <2>2, <2>3, <1>s DEF LabelledIn, run
  <2>6. ASSUME NEW u \in Threads, ledger["tagging"][u].mail # 0,
               IsLast(ledger["tagging"][u].mail, u)'
        PROVE  IsLast(ledger["tagging"][u].mail, u)
      BY <2>1, <2>2, <2>6 DEF IsLast, Marks
  <2>7. Fitting'
      BY <2>2, <2>6, <1>s DEF Fitting
  <2> QED
      BY <2>4, <2>5, <2>7
<1>11. ASSUME NEW r \in Runners, \/ \E t \in Threads : MoveBack(t)
                                 \/ UNCHANGED vars
       PROVE  Goal(r)
  <2>1. UNCHANGED <<mail, ledger, labels, run>>
      BY <1>11 DEF MoveBack, vars, mailbox, store
  <2>2. FreshIn(r)' /\ LabelledIn(r)'
      BY <2>1, <1>s DEF FreshIn, LabelledIn, Working, Finished, run
  <2> QED
      BY <1>1, <2>1, <2>2
<1>12. \A r \in Runners : Goal(r)
  <2> SUFFICES ASSUME NEW r \in Runners PROVE Goal(r)
      OBVIOUS
  <2>1. \/ Step(r) \/ Fail(r) \/ \E w \in Workflows : Fetch(r, w)
        \/ \E t \in Threads : Arrive(t) \/ MoveBack(t)
        \/ UNCHANGED vars
      BY <1>o DEF Next
  <2> QED
      BY <2>1, <1>2, <1>3, <1>4, <1>5, <1>6, <1>7, <1>8, <1>9, <1>10, <1>11 DEF Step
<1> QED
    BY <1>12, RunnersAssumption

-----------------------------------------------------------------------------
(* Threads that were moved back *)

\* A run that has the mailbox to itself creates no label twice.
Unknown == Alone => \A r \in Runners : pc[r] = "create" => category[r] \notin known

\* Run r labelled the thread of m and has not told the ledger yet.
Reports(r, m) ==
  /\ flow[r] = "tagging"
  /\ m \in Finished(r) \/ (pc[r] = "record" /\ item[r] = m)

\* As long as no run failed, the ledger knows every mail a thread was
\* labelled for, or a run is about to tell it.
Accounted ==
  Alone /\ "tagging" \in Workflows /\ failures = 0 =>
    \A m \in tagged :
      ledger["tagging"][mail[m]].mail >= m \/ \E r \in Runners : Reports(r, m)

LEMMA AccountedInit == Init => Unknown /\ Accounted
  BY DEF Init, Unknown, Accounted

LEMMA UnknownStep == TypeOK /\ Unknown /\ [Next]_vars => Unknown'
<1> SUFFICES ASSUME TypeOK, Unknown, [Next]_vars, Alone, NEW q \in Runners, pc'[q] = "create"
             PROVE  category'[q] \notin known'
    BY DEF Unknown, Alone
<1> USE DEF TypeOK, Goto
<1>o. \A r \in Runners : r = q
    BY SoleRunner
<1>1. ASSUME NEW r \in Runners, Ensure(r) PROVE category'[q] \notin known'
    BY <1>1, <1>o DEF Ensure, mailbox
<1>2. ASSUME NEW r \in Runners,
             \/ Filter(r) \/ Classify(r) \/ Create(r) \/ List(r) \/ Modify(r) \/ Record(r)
             \/ MarkProcessed(r) \/ LabelExists(r) \/ Fail(r)
             \/ \E w \in Workflows : Fetch(r, w)
      PROVE  FALSE
    BY <1>2, <1>o DEF Filter, Classify, Create, List, Modify, Record, MarkProcessed, LabelExists,
       Fail, Forget, Fetch
<1>3. CASE (\E t \in Threads : Arrive(t) \/ MoveBack(t)) \/ UNCHANGED vars
    BY <1>3 DEF Arrive, MoveBack, vars, run, mailbox, Unknown
<1> QED
    BY <1>1, <1>2, <1>3 DEF Next, Step

LEMMA AccountedStep ==
  TypeOK /\ Busy /\ Marks /\ Apart /\ Sole /\ Unknown /\ Accounted /\ [Next]_vars => Accounted'
<1> SUFFICES ASSUME TypeOK, Busy, Marks, Apart, Sole, Unknown, Accounted, [Next]_vars,
                    Alone, "tagging" \in Workflows, failures' = 0, NEW m \in tagged'
             PROVE  \/ ledger'["tagging"][mail'[m]].mail >= m
                    \/ \E r \in Runners : Reports(r, m)'
    BY DEF Accounted, Alone
<1> DEFINE Told   == ledger'["tagging"][mail'[m]].mail >= m
           Goal   == Told \/ \E r \in Runners : Reports(r, m)'
           Before == m \in tagged /\
                       (ledger["tagging"][mail[m]].mail >= m \/ \E r \in Runners : Reports(r, m))
<1> USE DEF TypeOK, Goto
<1>m. Mails \subseteq Nat /\ \A n \in Mails : mail[n] \in Threads
    BY MailsAreNumbers
<1>o. \A r, q \in Runners : r = q
    BY SoleRunner
<1>f. ASSUME failures = 0, m \in tagged PROVE Before
    BY <1>f DEF Accounted
\* Nothing that counts here changes.
<1>1. ASSUME Before, UNCHANGED <<mail, ledger>>,
             \A r \in Runners : Reports(r, m) => Reports(r, m)'
      PROVE  Goal
    BY <1>1
<1>2. ASSUME NEW r \in Runners, NEW w \in Workflows, Fetch(r, w) PROVE Goal
  <2>1. UNCHANGED <<mail, ledger, tagged, failures>> /\ pc[r] = "idle"
      BY <1>2 DEF Fetch, mailbox, store, history
  <2>2. ~Reports(r, m)
      BY <2>1 DEF Reports, Apart, ApartIn, Finished
  <2> QED
      BY <1>1, <1>f, <1>o, <2>1, <2>2
<1>3. ASSUME NEW r \in Runners, Filter(r) \/ Classify(r) \/ Ensure(r) \/ Create(r) \/ List(r)
      PROVE  Goal
  <2>1. UNCHANGED <<mail, ledger, tagged, failures, flow, done>> /\ pc[r] # "record"
      BY <1>3 DEF Filter, Classify, Ensure, Create, List, mailbox, store, history
  <2>2. Reports(r, m) => Reports(r, m)'
      BY <2>1 DEF Reports, Finished
  <2> QED
      BY <1>1, <1>f, <1>o, <2>1, <2>2
<1>4. ASSUME NEW r \in Runners, Modify(r) PROVE Goal
  <2>1. /\ UNCHANGED <<mail, ledger, failures, flow, done, item>> /\ pc[r] = "modify"
        /\ pc'[r] = "record" /\ tagged' = tagged \cup {item[r]}
      BY <1>4 DEF Modify, store
  <2>2. CASE m = item[r]
      BY <2>1, <2>2 DEF Busy, Tagging, Reports
  <2>3. CASE m \in tagged
    <3>1. Reports(r, m) => Reports(r, m)'
        BY <2>1 DEF Reports, Finished
    <3> QED
        BY <1>1, <1>f, <1>o, <2>1, <2>3, <3>1
  <2> QED
      BY <2>1, <2>2, <2>3
<1>5. ASSUME NEW r \in Runners, Record(r) PROVE Goal
  <2> DEFINE d == [mail |-> item[r], category |-> category[r]]
  <2>1. UNCHANGED <<mail, ledger, tagged, failures, flow>> /\ done'[r] = done[r] \cup {d}
      BY <1>5 DEF Record, mailbox, history
  <2>2. Finished(r) \cup {item[r]} \subseteq Finished(r)'
    <3>1. Finished(r)' = {e.mail : e \in done[r] \cup {d}} /\ d.mail = item[r]
        BY <2>1 DEF Finished
    <3> QED
        BY <3>1 DEF Finished
  <2>3. Reports(r, m) => Reports(r, m)'
      BY <2>1, <2>2 DEF Reports
  <2> QED
      BY <1>1, <1>f, <1>o, <2>1, <2>3
<1>6. ASSUME NEW r \in Runners, MarkProcessed(r) PROVE Goal
  <2>1. /\ UNCHANGED <<mail, tagged, failures>> /\ pc[r] = "next"
        /\ ledger' = [ledger EXCEPT ![flow[r]] = [t \in Threads |-> Marked(r, t)]]
      BY <1>6 DEF MarkProcessed, mailbox, history
  <2>2. Before /\ m \in Mails /\ mail[m] \in Threads
      BY <1>f, <1>m, <2>1
  <2> DEFINE t == mail[m]
             here == {e \in done[r] : mail[e.mail] = t}
  <2>3. CASE flow[r] # "tagging"
    <3>1. ledger'["tagging"] = ledger["tagging"] /\ ~Reports(r, m)
        BY <2>1, <2>3 DEF Reports
    <3> QED
        BY <1>o, <2>1, <2>2, <3>1
  <2>4. CASE flow[r] = "tagging" /\ here = {}
    <3>1. ledger'["tagging"][t] = ledger["tagging"][t]
        BY <2>1, <2>2, <2>4 DEF Marked
    <3>2. ~Reports(r, m)
        BY <2>1, <2>2, <2>4 DEF Reports, Finished
    <3> QED
        BY <1>o, <2>1, <2>2, <3>1, <3>2
  <2>5. ASSUME flow[r] = "tagging", NEW e \in done[r], mail[e.mail] = t PROVE Goal
    <3>1. here = {e}
        BY <2>5 DEF Apart, ApartIn
    <3>2. ledger'["tagging"][t] = e
        BY <2>1, <2>2, <2>5, <3>1 DEF Marked
    <3>3. e.mail \in Finished(r) /\ e.mail \in Mails
        BY <2>5 DEF Finished, Apart, ApartIn
    <3>4. CASE Reports(r, m)
      <4>1. PICK d \in done[r] : m = d.mail
          BY <2>1, <3>4 DEF Reports, Finished
      <4>2. d = e
          BY <2>5, <4>1 DEF Apart, ApartIn
      <4>3. m \in Nat /\ m >= m /\ mail'[m] = t
          BY <1>m, <2>1, <2>2
      <4> QED
          BY <3>2, <4>1, <4>2, <4>3
    <3>5. CASE ledger["tagging"][t].mail >= m
      <4>1. ledger["tagging"][t].mail < e.mail
          BY <2>1, <2>5, <3>3 DEF Sole, FreshIn
      <4>2. ledger["tagging"][t].mail \in Nat /\ m \in Nat /\ e.mail \in Nat
          BY <1>m, <2>2, <3>3, BoundsAssumption DEF Entry
      <4> QED
          BY <2>1, <3>2, <3>5, <4>1, <4>2
    <3> QED
        BY <1>o, <2>2, <3>4, <3>5
  <2> QED
      BY <2>3, <2>4, <2>5
<1>7. ASSUME NEW r \in Runners, Fail(r) \/ LabelExists(r) PROVE FALSE
    BY <1>7, BoundsAssumption DEF Fail, LabelExists, Unknown
<1>8. ASSUME NEW t \in Threads, Arrive(t) PROVE Goal
  <2>1. UNCHANGED <<ledger, tagged, failures, run>> /\ \A n \in Mails : mail'[n] = mail[n]
      BY <1>8, NewMail DEF Arrive, store
  <2>2. \A r \in Runners : Reports(r, m) => Reports(r, m)'
      BY <2>1 DEF Reports, Finished, run
  <2>3. Before /\ m \in Mails
      BY <1>f, <2>1
  <2> QED
      BY <2>1, <2>2, <2>3
<1>9. CASE (\E t \in Threads : MoveBack(t)) \/ UNCHANGED vars
  <2>1. UNCHANGED <<mail, ledger, tagged, failures, run>>
      BY <1>9 DEF MoveBack, vars, mailbox, store, history
  <2>2. \A r \in Runners : Reports(r, m) => Reports(r, m)'
      BY <2>1 DEF Reports, Finished, run
  <2> QED
      BY <1>1, <1>f, <2>1, <2>2
<1> QED
    BY <1>2, <1>3, <1>4, <1>5, <1>6, <1>7, <1>8, <1>9 DEF Next, Step

-----------------------------------------------------------------------------
(* The theorems *)

\* Every state that Spec reaches.
Inv == /\ TypeOK /\ Busy /\ Listed /\ Single /\ Ahead /\ ArchivedMailWasRead
       /\ Upward /\ HasLast /\ Marks /\ Apart /\ Sole
       /\ Unknown /\ Accounted

LEMMA Invariance == Spec => []Inv
<1>1. Init => Inv
    BY TypeInit, ListedInit, AheadInit, OrderInit, SoleInit, AccountedInit DEF Inv
<1>2. Inv /\ [Next]_vars => Inv'
    BY TypeStep, ListedStep, SingleStep, AheadStep, UpwardStep, MarksStep, ApartStep, SoleStep,
       UnknownStep, AccountedStep DEF Inv
<1> QED
    BY <1>1, <1>2, PTL DEF Spec

(***************************************************************************)
(* Every variable keeps its type; labels that a thread carries exist, and  *)
(* what a run works on are mails of the mailbox (runner.py:195-331).       *)
(***************************************************************************)
THEOREM TypeCorrect == Spec => []TypeOK
<1>1. Inv => TypeOK
    BY DEF Inv
<1> QED
    BY <1>1, Invariance, PTL

(***************************************************************************)
(* A thread has one taxonomy label at most, of those that no run created   *)
(* behind another one's back, however many runs label at once              *)
(* (gmail_labels.py:70-98).                                                *)
(***************************************************************************)
THEOREM LabelsOneCategory == Spec => []OneCategory
<1>1. Inv => OneCategory
  <2> SUFFICES ASSUME Inv, NEW t \in Threads PROVE Cardinality(Visible(t)) <= 1
      BY DEF OneCategory, Visible
  <2>1. \A c, d \in Visible(t) : c = d
      BY DEF Inv, Single
  <2>2. CASE Visible(t) = {}
      BY <2>2, FS_EmptySet
  <2>3. ASSUME NEW c \in Visible(t) PROVE Cardinality(Visible(t)) <= 1
    <3>1. Visible(t) = {c}
        BY <2>1
    <3> QED
        BY <3>1, FS_Singleton
  <2> QED
      BY <2>2, <2>3
<1> QED
    BY <1>1, Invariance, PTL

(***************************************************************************)
(* No mail leaves the inbox unread, except one that came in while a run    *)
(* had its thread in hand: the mail a run read was the last of its thread  *)
(* (_latest_message_per_thread), and what came later is late or was        *)
(* covered by another run.                                                 *)
(***************************************************************************)
THEOREM ArchivesReadMail == Spec => []ArchivedMailWasRead
<1>1. Inv => ArchivedMailWasRead
    BY DEF Inv
<1> QED
    BY <1>1, Invariance, PTL

(***************************************************************************)
(* With one run at a time the ledger of the tagging workflow is true of    *)
(* the mailbox at every step, and not only between runs: a run that may    *)
(* relabel a thread has a later mail of it than the ledger                 *)
(* (_filter_unprocessed_messages), so what it does before it fails is not  *)
(* held against the old entry.                                             *)
(***************************************************************************)
THEOREM LedgerIsTrue == Spec => []LedgerFitsMailbox
<1>1. Inv => LedgerFitsMailbox
  <2> SUFFICES ASSUME Inv, Alone, "tagging" \in Workflows, NEW t \in Threads,
                      NEW l \in Mails, l = ledger["tagging"][t].mail, l = Last(t), l # 0
               PROVE  labels[t] = {ledger["tagging"][t].category}
      BY DEF Inv, LedgerFitsMailbox, Marks
  <2>1. mail[l] = t
      BY DEF Inv, Marks
  <2>2. PICK x \in Mails : IsLast(x, t)
      BY <2>1 DEF Inv, HasLast
  <2>3. IsLast(l, t)
      BY <2>2, LastIs DEF Inv
  <2> QED
      BY <2>3 DEF Inv, Sole, Fitting
<1> QED
    BY <1>1, Invariance, PTL

(***************************************************************************)
(* With one run at a time and as long as none failed, a thread the         *)
(* operator moved back is archived again only for a mail no run has read:  *)
(* the ledger has every mail a thread was labelled for once its run is     *)
(* over, and a run has only later mails in hand than the ledger            *)
(* (_filter_unprocessed_messages, runner.py:331).                          *)
(***************************************************************************)
THEOREM MovedBackThreadsStay == Spec => MovedBackStays
<1> DEFINE Kept == \A m \in back \cap inbox :
                     Alone /\ failures = 0 /\ Last(mail[m]) \in tagged => m \in inbox'
<1>1. Inv /\ [Next]_vars => [Kept]_vars
  <2> SUFFICES ASSUME Inv, Next, NEW m \in inbox, m \notin inbox',
                      Alone, failures = 0, Last(mail[m]) \in tagged
               PROVE  FALSE
      BY DEF vars
  <2>m. /\ TypeOK /\ Mails \subseteq Nat /\ m \in Mails
        /\ \A n \in Mails : mail[n] \in Threads
      BY MailsAreNumbers DEF Inv, TypeOK
  <2>1. PICK r \in Runners : Modify(r) /\ mail[m] = mail[item[r]]
    <3>1. PICK r \in Runners : Modify(r)
        BY <2>m DEF Next, Step, Filter, Classify, Ensure, Create, List, Record, MarkProcessed,
           LabelExists, Forget, Fail, Fetch, Arrive, MoveBack, mailbox
    <3> QED
        BY <3>1 DEF Modify, Archived
  <2> DEFINE i == item[r]
             t == mail[i]
  <2>2. pc[r] = "modify" /\ flow[r] = "tagging" /\ i \in Mails /\ "tagging" \in Workflows
      BY <2>1, <2>m DEF Modify, Goto, Inv, Busy, Tagging, TypeOK
  <2>3. ledger["tagging"][t].mail < i /\ i \in Working(r)
      BY <2>2 DEF Inv, Sole, FreshIn, Working, Tagging
  <2>4. PICK x \in Mails : IsLast(x, t)
      BY <2>2 DEF Inv, HasLast
  <2>5. x = Last(t)
      BY <2>4, LastIs DEF Inv
  <2>6. x \in tagged /\ mail[x] = t /\ x >= i
      BY <2>1, <2>2, <2>4, <2>5, <2>m DEF IsLast
  <2>7. ~(ledger["tagging"][mail[x]].mail >= x)
    <3>1. ledger["tagging"] \in [Threads -> Entry] /\ t \in Threads
        BY <2>2, <2>m DEF TypeOK
    <3>2. PICK n \in Nat : n = ledger["tagging"][t].mail
        BY <3>1, BoundsAssumption DEF Entry
    <3>3. n < i /\ x >= i /\ x \in Nat /\ i \in Nat
        BY <2>2, <2>3, <2>6, <2>m, <3>2
    <3> QED
        BY <2>6, <3>2, <3>3
  <2>8. PICK q \in Runners : Reports(q, x)
      BY <2>2, <2>6, <2>7 DEF Inv, Accounted
  <2>9. q = r
      BY SoleRunner
  <2>10. x \in Finished(r)
      BY <2>2, <2>8, <2>9 DEF Reports
  <2> QED
      BY <2>3, <2>6, <2>10 DEF Inv, Apart, ApartIn
<1> QED
    BY <1>1, Invariance, PTL DEF Spec, MovedBackStays
=============================================================================
