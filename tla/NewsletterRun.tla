---------------------------- MODULE NewsletterRun ----------------------------
(***************************************************************************)
(* The two newsletter workflows of the control plane: one classifies the   *)
(* mails of the inbox, the other also labels and archives their threads.   *)
(*                                                                         *)
(*   app/control_plane/runner.py            _run_newsletter_workflow       *)
(*   app/workers/newsletter_identifier.py   classify_messages              *)
(*   app/connectors/gmail_labels.py         apply_thread_labels            *)
(*   app/observability/run_store.py         the ledger of processed items  *)
(*                                                                         *)
(* The mailbox changes while a run works: mails arrive, the operator moves *)
(* one back to the inbox, a second run labels the same threads.  Every     *)
(* call to Gmail and to the database is a step; an exception ends a run at *)
(* any step, and what it did to the mailbox stays.                         *)
(*                                                                         *)
(* Abstractions.  Mails are numbered as they arrive.  A classification is  *)
(* its level-1 category, chosen freely for what the keyword rules and the  *)
(* models say; the level-2 labels are left out.  Both policies allow what  *)
(* their workflow asks for.                                                *)
(***************************************************************************)
EXTENDS Naturals, Sequences, FiniteSets, FiniteSetsExt

CONSTANTS
  Runners,      \* processes that may run a workflow
  Threads,
  Categories,   \* level-1 categories, each with a label of its own
  Unclear,      \* the category no_label
  Established,  \* labels the mailbox has from the start
  Workflows,    \* those of {"tagging", "identification"} that are run
  MaxResults,   \* mails the query returns
  MaxMail, MaxFailures, MaxMoves  \* bounds: mails, exceptions, threads moved back

ASSUME RunnersAssumption ==
  /\ Runners # {} /\ IsFiniteSet(Runners) /\ Threads # {}
  /\ Workflows # {} /\ Workflows \subseteq {"tagging", "identification"}
ASSUME CategoriesAssumption == Unclear \in Categories /\ Established \subseteq Categories
ASSUME BoundsAssumption ==
  /\ MaxResults \in Nat \ {0}
  /\ {MaxMail, MaxFailures, MaxMoves} \subseteq Nat

VARIABLES
  mail,       \* the thread of each mail, in the order they arrived
  inbox,
  known,      \* labels that exist in the mailbox
  labels,     \* taxonomy labels of each thread
  ledger,     \* workflow_items: the last mail and category of each thread
  evals,      \* records in the evaluation dataset
  pc, flow,   \* each runner's place and workflow
  queue,      \* mails it has still to classify
  item, category, \* the mail in hand and what it was classified as
  listed,     \* the labels it saw last
  done,       \* what it classified: mail and category
  tagged,     \* history: mails whose thread was labelled for them
  late,       \* history: mails that came to a thread a run had in hand
  back,       \* history: mails the operator moved back to the inbox
  failures

mailbox == <<mail, inbox, known, labels>>
store   == <<ledger, evals>>
run     == <<pc, flow, queue, item, category, listed, done>>
history == <<tagged, late, back, failures>>
vars    == <<mailbox, store, run, history>>

Mails   == DOMAIN mail
Numbers == 1..MaxMail
Nothing == [mail |-> 0, category |-> Unclear]
Entry   == [mail : 0..MaxMail, category : Categories]
Steps   == {"idle", "filter", "next", "ensure", "create", "list", "modify", "record"}

TypeOK ==
  /\ mail \in Seq(Threads) /\ Len(mail) <= MaxMail
  /\ inbox \subseteq Mails /\ known \subseteq Categories
  /\ labels \in [Threads -> SUBSET known]
  /\ ledger \in [Workflows -> [Threads -> Entry]]
  /\ evals \in [Workflows -> [Numbers -> Nat]]
  /\ pc \in [Runners -> Steps] /\ flow \in [Runners -> Workflows]
  /\ queue \in [Runners -> SUBSET Mails]
  /\ item \in [Runners -> 0..MaxMail] /\ category \in [Runners -> Categories]
  /\ listed \in [Runners -> SUBSET known]
  /\ done \in [Runners -> SUBSET Entry]
  /\ tagged \subseteq Mails /\ late \subseteq Mails /\ back \subseteq Mails
  /\ failures \in 0..MaxFailures

-----------------------------------------------------------------------------
(* A run *)

Goto(r, here, there) == pc[r] = here /\ pc' = [pc EXCEPT ![r] = there]

\* What a run holds of a mail, and of all mails, is of no use afterwards.
NoFlow == CHOOSE w \in Workflows : TRUE
Drop(r) ==
  /\ item' = [item EXCEPT ![r] = 0]
  /\ category' = [category EXCEPT ![r] = Unclear]
  /\ listed' = [listed EXCEPT ![r] = {}]

\* fetch_messages: the newest MaxResults mails of the inbox.
Newest(S) == {m \in S : Cardinality({n \in S : n > m}) < MaxResults}

\* _latest_message_per_thread.  Mutant: the first mail of a thread is kept.
EarliestPerThread(S) == {m \in S : \A n \in S : mail[n] = mail[m] => n >= m}
LatestPerThread(S) == {m \in S : \A n \in S : mail[n] = mail[m] => n <= m}

Fetch(r, w) ==
  /\ Goto(r, "idle", "filter")
  /\ flow' = [flow EXCEPT ![r] = w]
  /\ queue' = [queue EXCEPT ![r] = LatestPerThread(Newest(inbox))]
  /\ UNCHANGED <<mailbox, store, item, category, listed, done, history>>

\* _filter_unprocessed_messages.  Mutant of New: the ledger is not asked.
All(r) == queue[r]
New(r) == {m \in queue[r] : ledger[flow[r]][mail[m]].mail # m}

Filter(r) ==
  /\ Goto(r, "filter", "next")
  /\ queue' = [queue EXCEPT ![r] = New(r)]
  /\ UNCHANGED <<mailbox, store, flow, item, category, listed, done, history>>

\* classify_messages asks the keyword rules and the models of one mail.
Classify(r) ==
  /\ Goto(r, "next", IF flow[r] = "tagging" THEN "ensure" ELSE "record")
  /\ \E m \in queue[r], c \in Categories :
       /\ queue' = [queue EXCEPT ![r] = @ \ {m}]
       /\ item' = [item EXCEPT ![r] = m]
       /\ category' = [category EXCEPT ![r] = c]
  /\ UNCHANGED <<mailbox, store, flow, listed, done, history>>

\* _ensure_labels looks for the label; it is created when it is missing.
Ensure(r) ==
  /\ Goto(r, "ensure", IF category[r] \in known THEN "list" ELSE "create")
  /\ UNCHANGED <<mailbox, store, flow, queue, item, category, listed, done, history>>

Create(r) ==
  /\ Goto(r, "create", "list")
  /\ category[r] \notin known
  /\ known' = known \cup {category[r]}
  /\ UNCHANGED <<mail, inbox, labels, store, flow, queue, item, category, listed, done,
                 history>>

List(r) ==
  /\ Goto(r, "list", "modify")
  /\ listed' = [listed EXCEPT ![r] = known]
  /\ UNCHANGED <<mailbox, store, flow, queue, item, category, done, history>>

\* The labels a thread has after it is tagged.  Mutant: none is removed.
Added(r, t) == labels[t] \cup {category[r]}
Relabelled(r, t) == (labels[t] \ listed[r]) \cup {category[r]}

\* threads.modify, on every mail the thread has by now.
\* Mutant of Archived: only the mail that was read leaves the inbox.
NotArchived(r) == {}
Archived(r) == {m \in inbox : mail[m] = mail[item[r]]}

Modify(r) ==
  /\ Goto(r, "modify", "record")
  /\ labels' = [labels EXCEPT ![mail[item[r]]] = Relabelled(r, mail[item[r]])]
  /\ inbox' = inbox \ Archived(r)
  /\ tagged' = tagged \cup {item[r]}
  /\ UNCHANGED <<mail, known, store, flow, queue, item, category, listed, done, late, back,
                 failures>>

\* The record of the evaluation dataset, and the item of the run's result.
Record(r) ==
  /\ Goto(r, "record", "next")
  /\ evals' = [evals EXCEPT ![flow[r]][item[r]] = @ + 1]
  /\ done' = [done EXCEPT ![r] = @ \cup {[mail |-> item[r], category |-> category[r]]}]
  /\ Drop(r)
  /\ UNCHANGED <<mailbox, ledger, flow, queue, history>>

\* mark_processed_items, in one transaction, when every mail is done.
\* Mutants of Marked: a thread keeps its first entry, or its first category.
FirstMarked(r, t) ==
  LET here == {e \in done[r] : mail[e.mail] = t}
  IN  IF here = {} \/ ledger[flow[r]][t].mail # 0 THEN ledger[flow[r]][t]
      ELSE CHOOSE e \in here : TRUE
FirstCategory(r, t) ==
  LET here == {e \in done[r] : mail[e.mail] = t}
      old  == ledger[flow[r]][t]
  IN  IF here = {} THEN old
      ELSE IF old.mail = 0 THEN CHOOSE e \in here : TRUE
      ELSE [CHOOSE e \in here : TRUE EXCEPT !.category = old.category]
Marked(r, t) ==
  LET here == {e \in done[r] : mail[e.mail] = t}
  IN  IF here = {} THEN ledger[flow[r]][t] ELSE CHOOSE e \in here : TRUE

\* The run completes.
MarkProcessed(r) ==
  /\ Goto(r, "next", "idle")
  /\ queue[r] = {}
  /\ ledger' = [ledger EXCEPT ![flow[r]] = [t \in Threads |-> Marked(r, t)]]
  /\ done' = [done EXCEPT ![r] = {}]
  /\ flow' = [flow EXCEPT ![r] = NoFlow]
  /\ UNCHANGED <<mailbox, evals, queue, item, category, listed, history>>

\* An exception: the run is FAILED and its result is lost.
Forget(r) ==
  /\ pc' = [pc EXCEPT ![r] = "idle"]
  /\ queue' = [queue EXCEPT ![r] = {}]
  /\ done' = [done EXCEPT ![r] = {}]
  /\ flow' = [flow EXCEPT ![r] = NoFlow]
  /\ Drop(r)
  /\ UNCHANGED <<mailbox, store, tagged, late, back>>

Fail(r) ==
  /\ pc[r] # "idle" /\ failures < MaxFailures
  /\ failures' = failures + 1
  /\ Forget(r)

\* Gmail refuses a label that another run created in the meantime.
LabelExists(r) ==
  /\ pc[r] = "create" /\ category[r] \in known
  /\ Forget(r)
  /\ UNCHANGED failures

-----------------------------------------------------------------------------
(* The mailbox *)

\* Threads a run has read and has still to label.
InHand(r) ==
  IF flow[r] # "tagging" THEN {}
  ELSE {mail[m] : m \in queue[r]} \cup
       (IF pc[r] \in {"ensure", "create", "list", "modify"} THEN {mail[item[r]]} ELSE {})

Arrive(t) ==
  /\ Len(mail) < MaxMail
  /\ mail' = Append(mail, t)
  /\ inbox' = inbox \cup {Len(mail) + 1}
  /\ late' = IF \E r \in Runners : t \in InHand(r) THEN late \cup {Len(mail) + 1} ELSE late
  /\ UNCHANGED <<known, labels, store, run, tagged, back, failures>>

\* The operator takes back a thread that a run archived.
MoveBack(t) ==
  /\ \E m \in Mails \ inbox : mail[m] = t
  /\ Cardinality({mail[m] : m \in back}) < MaxMoves
  /\ inbox' = inbox \cup {m \in Mails : mail[m] = t}
  /\ back' = back \cup {m \in Mails : mail[m] = t}
  /\ UNCHANGED <<mail, known, labels, store, run, tagged, late, failures>>

-----------------------------------------------------------------------------

Init ==
  /\ mail = <<>> /\ inbox = {}
  /\ known = Established
  /\ labels = [t \in Threads |-> {}]
  /\ ledger = [w \in Workflows |-> [t \in Threads |-> Nothing]]
  /\ evals = [w \in Workflows |-> [m \in Numbers |-> 0]]
  /\ pc = [r \in Runners |-> "idle"]
  /\ flow = [r \in Runners |-> NoFlow]
  /\ queue = [r \in Runners |-> {}]
  /\ item = [r \in Runners |-> 0] /\ category = [r \in Runners |-> Unclear]
  /\ listed = [r \in Runners |-> {}] /\ done = [r \in Runners |-> {}]
  /\ tagged = {} /\ late = {} /\ back = {} /\ failures = 0

Step(r) ==
  \/ Filter(r) \/ Classify(r)
  \/ Ensure(r) \/ Create(r) \/ List(r) \/ Modify(r)
  \/ Record(r) \/ MarkProcessed(r)
  \/ LabelExists(r)

Next ==
  \/ \E r \in Runners : Step(r) \/ Fail(r)
  \/ \E r \in Runners, w \in Workflows : Fetch(r, w)
  \/ \E t \in Threads : Arrive(t) \/ MoveBack(t)

Spec == Init /\ [][Next]_vars

\* Runs go on, and the tagging workflow is started again and again.
FairSpec ==
  /\ Spec
  /\ \A r \in Runners : WF_vars(Step(r))
  /\ \A r \in Runners : SF_vars(Fetch(r, "tagging"))

-----------------------------------------------------------------------------
(* Properties *)

\* A run labelled the thread of m for m or for a later mail in it.
Covered(m) == \E n \in tagged : n >= m /\ mail[n] = mail[m]

\* The last mail of a thread that has one.
Last(t) == Max({m \in Mails : mail[m] = t})

Alone == Cardinality(Runners) = 1

(***************************************************************************)
(* A thread has one category at a time, also when two runs disagree on it: *)
(* apply_thread_labels (gmail_labels.py:75-84) removes every other         *)
(* taxonomy label it knows of.  A label that did not exist when the other  *)
(* run listed them (line 70) is not removed.                               *)
(***************************************************************************)
OneCategory ==
  \A t \in Threads : Cardinality(IF Alone THEN labels[t] ELSE labels[t] \cap Established) <= 1

(***************************************************************************)
(* No mail leaves the inbox without having been looked at: it, or a later  *)
(* one of its thread, was classified.  threads.modify                      *)
(* (gmail_labels.py:90-98) archives the whole thread, so a mail that comes *)
(* in while a run has its thread in hand is the exception.                 *)
(***************************************************************************)
ArchivedMailWasRead == \A m \in Mails \ (inbox \cup late) : Covered(m)

(***************************************************************************)
(* What the ledger says of a thread is what the mailbox shows, once no run *)
(* is under way: a run that failed after it relabelled a thread            *)
(* (newsletter_identifier.py:114, runner.py:331) is no exception.          *)
(***************************************************************************)
LedgerFitsMailbox ==
  (Alone /\ "tagging" \in Workflows) =>
    \A t \in Threads :
      LET e == ledger["tagging"][t]
      IN  (e.mail # 0 /\ e.mail = Last(t) /\ \A r \in Runners : pc[r] = "idle")
             => labels[t] = {e.category}

(***************************************************************************)
(* A thread that the operator moved back to the inbox stays there, unless  *)
(* a mail arrives in it that no run has read, or a run failed between      *)
(* archiving the thread and the ledger (runner.py:331).                    *)
(***************************************************************************)
MovedBackStays ==
  [][\A m \in back \cap inbox :
       Alone /\ failures = 0 /\ Last(mail[m]) \in tagged => m \in inbox']_vars

(***************************************************************************)
(* Every mail is labelled in the end, although a run reads MaxResults of   *)
(* the newest mails only and may fail on its way: archiving makes room, as *)
(* long as the operator moves fewer than MaxResults mails back.            *)
(***************************************************************************)
EveryMailIsLabelled ==
  \A m \in Numbers :
    (m \in inbox) ~> (m \in late \/ Covered(m) \/ Cardinality(back) >= MaxResults)
=============================================================================
