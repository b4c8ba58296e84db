----------------------------- MODULE EmailIntents -----------------------------
(***************************************************************************)
(* The email daemon of the receipt collector: requests of the operator     *)
(* open an intent per thread, later mails of the thread are routed to it,  *)
(* and an approval creates or emails an invoice in QuickBooks.             *)
(*                                                                         *)
(*   skills/receipt-collector/lib/email_runner.py    the poll loop         *)
(*   skills/receipt-collector/lib/email_intents.py   the file per thread   *)
(*   skills/receipt-collector/lib/invoice_intent.py  draft, send, delete   *)
(*   skills/receipt-collector/lib/single_receipt_expense.py                *)
(*   skills/receipt-collector/runner.py              create-invoice        *)
(*                                                                         *)
(* One daemon polls.  Mails arrive at any moment; an exception ends a poll *)
(* (or is caught, where the code does); a crash also forgets which mails   *)
(* were seen.  Each reply, file and QuickBooks call is a step.             *)
(*                                                                         *)
(* Abstractions.  Mails are numbered as they arrive and say "ask", "yes",  *)
(* "no" or "note".  SAI's own mails carry its header, are skipped          *)
(* everywhere and left out.  What the dispatcher and the agents make of a  *)
(* mail is a choice.  All requests are about one trip, one invoice and     *)
(* receipts of one customer and month; expenses are live, not a dry run.   *)
(***************************************************************************)
EXTENDS Naturals, Sequences, FiniteSets, FiniteSetsExt

CONSTANTS
  Threads,
  Kinds,      \* verdicts of the dispatcher: "trip", "ad_hoc", "invoice", "other"
  Words,      \* what a reply says: "yes", "no", "note"
  MaxMail, MaxFailures, MaxCrashes   \* bounds

ASSUME KindsAssumption == Kinds \subseteq {"trip", "ad_hoc", "invoice", "other"}
ASSUME WordsAssumption == Words \subseteq {"yes", "no", "note"}
ASSUME BoundsAssumption == {MaxMail, MaxFailures, MaxCrashes} \subseteq Nat

VARIABLES
  mail,       \* operator mails: thread and words
  unread,
  status, kind,  \* the intent of each thread, "none" before there is one
  processed,  \* processed_operator_message_ids, on disk
  idle,       \* threads whose intent was last written more than 24 hours ago
  invoices,   \* trip invoices: the approving mail, and whether the marker is found
  drafts,     \* invoices of the invoice kind that each thread made and keeps
  ledger,     \* PendingStore: the row of each thread's invoice
  fresh,      \* threads whose row is of a request of this day
  sends,      \* times that invoice was emailed
  bookings,   \* expenses booked for each mail
  pc, listed, open, hand, fetched, outcome, \* the poll under way
  seen,       \* seen_message_ids, in memory
  talk,       \* history: the mail that opened the intent, the one the last proposal
              \* answers, and the mails there were when that was shown
  acted,      \* history: mails on whose approval something was done
  told,       \* history: mails answered with "Booked"
  missed,     \* history: mails that came after their thread was read
  strays,     \* history: drafts that no row of the ledger speaks for
  unsure,     \* history: emailed invoices the ledger does not know as sent
  failures, crashes

gmail   == <<mail, unread>>
intents == <<status, kind, processed, idle>>
books   == <<invoices, drafts, ledger, fresh, sends, bookings>>
poll    == <<pc, listed, open, hand, fetched, outcome, seen>>
history == <<talk, acted, told, missed, strays, unsure, failures, crashes>>
vars    == <<gmail, intents, books, poll, history>>

Mails    == DOMAIN mail
Numbers  == 1..MaxMail
Open     == {"AWAITING_CLARIFICATION", "AWAITING_APPROVAL", "EXECUTING"}
Terminal == {"COMPLETED", "DROPPED", "EXPIRED"}
Live     == {"pending", "approved", "sent"}
Drafting == {"draft", "summary", "openinv", "record"}
Booking  == {"book", "booked"}
Caught   == {"attempt", "delete"}  \* exceptions do not get out
Places   == {"idle", "new", "open", "offer", "proposal", "turn", "agent", "collect",
             "settle", "done", "replies", "route", "run", "report", "send", "sent",
             "confirm", "discard", "execute", "redo"} \cup Drafting \cup Booking \cup Caught

Of(t) == {m \in Mails : mail[m].thread = t}

TypeOK ==
  /\ mail \in Seq([thread : Threads, says : Words \cup {"ask"}])
  /\ Len(mail) <= MaxMail /\ unread \subseteq Mails
  /\ status \in [Threads -> Open \cup Terminal \cup {"none"}]
  /\ kind \in [Threads -> {"none", "trip", "auto", "steps", "invoice"}]
  /\ \A t \in Threads : status[t] = "none" <=> kind[t] = "none"
  /\ processed \subseteq Mails /\ seen \subseteq Mails
  /\ idle \subseteq {t \in Threads : status[t] \in Open}
  /\ invoices \in Seq([by : Mails, found : BOOLEAN])
  /\ drafts \in [Threads -> Nat] /\ sends \in [Threads -> Nat]
  /\ ledger \in [Threads -> Live \cup {"none", "discarded"}] /\ fresh \subseteq Threads
  /\ bookings \in [Numbers -> Nat]
  /\ pc \in Places /\ outcome \in Open \cup Terminal \cup {"none"}
  /\ listed \subseteq Mails /\ open \subseteq Threads
  /\ hand \in 0..Len(mail) /\ fetched \subseteq Mails
  /\ talk \in [Threads -> [opener : 0..MaxMail, to : 0..MaxMail, at : 0..MaxMail]]
  /\ acted \subseteq Mails /\ told \subseteq Mails /\ missed \subseteq Mails
  /\ {strays, unsure} \subseteq Nat
  /\ failures \in 0..MaxFailures /\ crashes \in 0..MaxCrashes

-----------------------------------------------------------------------------
(* The poll *)

T == mail[hand].thread
Goto(here, there) == pc = here /\ pc' = there

\* What a poll holds when it handles no mail.
Release == hand' = 0 /\ fetched' = {} /\ outcome' = "none"

\* email_intents.save.
Saved(t, s) ==
  /\ status' = [status EXCEPT ![t] = s]
  /\ idle' = idle \ {t}

\* A reply that shows the operator what an approval would do.
Show == talk' = [talk EXCEPT ![T].to = hand, ![T].at = Len(mail)]

StartPoll ==
  /\ Goto("idle", "new")
  /\ listed' = unread \ seen
  /\ UNCHANGED <<gmail, intents, books, open, hand, fetched, outcome, seen, history>>

\* Marking a mail read may fail, and nobody minds.
MarkRead(m) ==
  \/ unread' = unread \ {m} /\ UNCHANGED failures
  \/ failures < MaxFailures /\ failures' = failures + 1 /\ UNCHANGED unread

\* Gmail lists the newest mail first.
Upcoming(m) == pc = "new" /\ listed # {} /\ m = Max(listed)

\* The thread has an intent, open or closed.
KnownThread(m) ==
  /\ Upcoming(m) /\ status[mail[m].thread] # "none"
  /\ MarkRead(m)
  /\ listed' = listed \ {m}
  /\ UNCHANGED <<mail, intents, books, pc, open, hand, fetched, outcome, seen, talk,
                 acted, told, missed, strays, unsure, crashes>>

Dispatch(m, k) ==
  /\ Upcoming(m) /\ status[mail[m].thread] = "none"
  /\ MarkRead(m)
  /\ listed' = listed \ {m}
  /\ IF k = "other"
     THEN /\ seen' = seen \cup {m}
          /\ UNCHANGED <<pc, hand>>
     ELSE /\ pc' = CASE k = "trip" -> "open" [] k = "ad_hoc" -> "attempt"
                     [] k = "invoice" -> "draft"
          /\ hand' = m
          /\ UNCHANGED seen
  /\ UNCHANGED <<mail, intents, books, open, fetched, outcome, talk, acted, told, missed,
                 strays, unsure, crashes>>

\* The mail in hand is dealt with: a request is seen, a reply is processed on
\* disk, and the mails of its thread that were read with it are seen.
DealtWith(Reply) ==
  /\ pc = "done"
  /\ \/ /\ fetched = {} /\ pc' = "new"
        /\ seen' = seen \cup {hand}
        /\ UNCHANGED <<processed, idle>>
     \/ /\ fetched # {} /\ pc' = "replies"
        /\ Reply
        /\ idle' = idle \ {T}
  /\ Release
  /\ UNCHANGED <<gmail, status, kind, books, listed, open, history>>
\* Mutants: the disk is left out; the other mails are.
DoneInMemory == DealtWith(seen' = seen \cup fetched /\ UNCHANGED processed)
DoneAlone    == DealtWith(seen' = seen \cup {hand} /\ processed' = processed \cup {hand})
Done == DealtWith(seen' = seen \cup fetched /\ processed' = processed \cup {hand})

\* set_status after the reply.
Settle ==
  /\ Goto("settle", "done")
  /\ Saved(T, outcome)
  /\ UNCHANGED <<gmail, kind, processed, books, listed, open, hand, fetched, outcome, seen,
                 history>>

\* The operator is answered, and the intent gets status s.
Answer(here, s) ==
  /\ Goto(here, "settle")
  /\ outcome' = s
  /\ UNCHANGED <<gmail, intents, listed, open, hand, fetched, seen>>

OpenIntent(k, s) ==
  /\ kind' = [kind EXCEPT ![T] = k]
  /\ Saved(T, s)
  /\ processed' = processed \cup {hand}
  /\ talk' = [talk EXCEPT ![T].opener = hand]
  /\ UNCHANGED <<gmail, books, listed, open, hand, fetched, outcome, seen, acted, told,
                 missed, strays, unsure, failures, crashes>>

Turn(here, there) ==
  /\ Goto(here, there)
  /\ UNCHANGED <<gmail, intents, listed, open, hand, fetched, outcome, seen>>

-----------------------------------------------------------------------------
(* A trip: the agent asks, stages a plan, or a receipt is booked at once *)

OpenTrip == Goto("open", "turn") /\ OpenIntent("trip", "AWAITING_CLARIFICATION")

Agent == pc \in {"turn", "agent"}

Clarify == Agent /\ Turn(pc, "done") /\ UNCHANGED <<books, history>>

Stage == Agent /\ Turn(pc, "collect") /\ Show
         /\ UNCHANGED <<books, acted, told, missed, strays, unsure, failures, crashes>>

\* A step of the collect phase that must succeed may fail.
Collect ==
  \/ /\ Answer("collect", "AWAITING_APPROVAL") /\ Show
     /\ UNCHANGED <<books, acted, told, missed, strays, unsure, failures, crashes>>
  \/ /\ Answer("collect", "DROPPED")
     /\ UNCHANGED <<books, history>>

FindReceipt == Turn("turn", "book") /\ UNCHANGED <<books, history>>

\* The marker [sai-receipt:<customer>-<month>] is looked up first; when the
\* lookup fails the expense is booked.
NotBooked == \A m \in Numbers : bookings[m] = 0

Book ==
  /\ Turn("book", "booked")
  /\ \/ /\ bookings' = IF NotBooked THEN [bookings EXCEPT ![hand] = @ + 1] ELSE bookings
        /\ UNCHANGED failures
     \/ /\ failures < MaxFailures /\ failures' = failures + 1
        /\ bookings' = [bookings EXCEPT ![hand] = @ + 1]
  /\ UNCHANGED <<invoices, drafts, ledger, fresh, sends, talk, acted, told, missed, strays,
                 unsure, crashes>>

Booked ==
  /\ Answer("booked", "COMPLETED")
  /\ told' = told \cup {hand}
  /\ UNCHANGED <<books, talk, acted, missed, strays, unsure, failures, crashes>>

\* Any problem with the receipt: the agent takes over.
BookFails ==
  /\ pc \in Booking /\ failures < MaxFailures
  /\ Turn(pc, "agent")
  /\ failures' = failures + 1
  /\ UNCHANGED <<books, talk, acted, told, missed, strays, unsure, crashes>>

-----------------------------------------------------------------------------
(* Ad hoc: low-risk work is done at once, other work is proposed in steps *)

\* auto_execute_ad_hoc, or the proposal when it cannot.
Attempt == Turn("attempt", "offer") /\ UNCHANGED <<books, history>>

Offer ==
  /\ Goto("offer", "proposal")
  /\ \E k \in {"auto", "steps"} : OpenIntent(k, "AWAITING_APPROVAL")

Propose == Turn("proposal", "done") /\ Show
           /\ UNCHANGED <<books, acted, told, missed, strays, unsure, failures, crashes>>

-----------------------------------------------------------------------------
(* Invoice: an unsent draft is made first *)

\* A request that cannot be read, or whose invoice exists, is answered.
\* The hash of a request names its day.  Mutant: a row that was sent is passed over.
Undecided == \E t \in fresh : ledger[t] = "pending"
Drafted == \E t \in fresh : ledger[t] \in Live
RefuseDraft == Turn("draft", "done") /\ UNCHANGED <<books, history>>

Draft ==
  /\ ~Drafted
  /\ Turn("draft", "summary")
  /\ drafts' = [drafts EXCEPT ![T] = @ + 1]
  /\ UNCHANGED <<invoices, ledger, fresh, sends, bookings, history>>

Summary == Turn("summary", "openinv") /\ Show
           /\ UNCHANGED <<books, acted, told, missed, strays, unsure, failures, crashes>>

OpenInvoice == Goto("openinv", "record") /\ OpenIntent("invoice", "AWAITING_APPROVAL")

RecordPending ==
  /\ Turn("record", "done")
  /\ ledger' = [ledger EXCEPT ![T] = "pending"]
  /\ fresh' = fresh \cup {T}
  /\ UNCHANGED <<invoices, drafts, sends, bookings, history>>

Stray == IF pc \in Drafting \ {"draft"} THEN strays + 1 ELSE strays

\* The error is caught: "Nothing was created or sent."
DraftFails ==
  /\ pc \in Drafting /\ failures < MaxFailures
  /\ Turn(pc, "done")
  /\ failures' = failures + 1
  /\ strays' = Stray
  /\ UNCHANGED <<books, talk, acted, told, missed, unsure, crashes>>

-----------------------------------------------------------------------------
(* Replies on open intents *)

EndNew ==
  /\ Goto("new", "replies")
  /\ listed = {}
  /\ open' = {t \in Threads : status[t] \in Open}
  /\ UNCHANGED <<gmail, intents, books, listed, hand, fetched, outcome, seen, history>>

\* Mutant: no reply is remembered.
Every(t) == Of(t)
Waiting(t) == Of(t) \ (seen \cup processed)

\* Only the latest of the waiting mails is routed.
Latest(S) == Max(S)

Read(t) ==
  /\ pc = "replies" /\ t \in open
  /\ open' = open \ {t}
  /\ IF Waiting(t) = {}
     THEN seen' = seen \cup Of(t) /\ UNCHANGED <<pc, hand, fetched>>
     ELSE pc' = "route" /\ hand' = Latest(Waiting(t)) /\ fetched' = Of(t) /\ UNCHANGED seen
  /\ UNCHANGED <<gmail, intents, books, listed, outcome, history>>

\* A thread that cannot be fetched is skipped.
SkipThread(t) ==
  /\ pc = "replies" /\ t \in open /\ failures < MaxFailures
  /\ open' = open \ {t}
  /\ failures' = failures + 1
  /\ missed' = missed \cup Waiting(t)
  /\ UNCHANGED <<gmail, intents, books, pc, listed, hand, fetched, outcome, seen, talk,
                 acted, told, strays, unsure, crashes>>

Says(words) == mail[hand].says \in words
Asked(kinds) == pc = "route" /\ kind[T] \in kinds /\ status[T] = "AWAITING_APPROVAL"

\* More words for the agent.
Resume ==
  /\ pc = "route" /\ kind[T] = "trip" /\ status[T] = "AWAITING_CLARIFICATION"
  /\ Turn("route", "turn") /\ UNCHANGED <<books, history>>

\* Neither yes nor no: SAI asks again.  An intent left EXECUTING is only told so.
Reask ==
  /\ \/ Asked({"trip", "steps", "invoice"}) /\ Says({"ask", "note"})
     \/ pc = "route" /\ status[T] = "EXECUTING"
  /\ Turn("route", "done") /\ UNCHANGED <<books, history>>

\* Corrections of work that was done at once: it is done again.
Redo ==
  /\ Asked({"auto"}) /\ Says({"ask", "note"})
  /\ Goto("route", "redo")
  /\ Saved(T, "EXECUTING")
  /\ UNCHANGED <<gmail, kind, processed, books, listed, open, hand, fetched, outcome, seen,
                 history>>
\* When it cannot be done again, the thread goes on like a proposal in steps.
Redone ==
  /\ Goto("redo", "settle")
  /\ outcome' = "AWAITING_APPROVAL"
  /\ \E k \in {"auto", "steps"} : kind' = [kind EXCEPT ![T] = k]
  /\ Show
  /\ UNCHANGED <<gmail, status, processed, idle, listed, open, hand, fetched, seen, books,
                 acted, told, missed, strays, unsure, failures, crashes>>

Reject ==
  /\ Asked({"trip", "auto", "steps"}) /\ Says({"no"})
  /\ Answer("route", "DROPPED") /\ UNCHANGED <<books, history>>

Keep ==
  /\ Asked({"auto"}) /\ Says({"yes"})
  /\ Answer("route", "COMPLETED") /\ UNCHANGED <<books, history>>

\* EXECUTING is on disk before anything is done.  Mutant: it is not.
ApproveInMemory ==
  /\ Asked({"trip", "steps"}) /\ Says({"yes"})
  /\ Goto("route", IF kind[T] = "trip" THEN "run" ELSE "execute")
  /\ Saved(T, status[T])
  /\ UNCHANGED <<gmail, kind, processed, books, listed, open, hand, fetched, outcome, seen,
                 history>>
Approve ==
  /\ Asked({"trip", "steps"}) /\ Says({"yes"})
  /\ Goto("route", IF kind[T] = "trip" THEN "run" ELSE "execute")
  /\ Saved(T, "EXECUTING")
  /\ UNCHANGED <<gmail, kind, processed, books, listed, open, hand, fetched, outcome, seen,
                 history>>

Act == acted' = acted \cup {hand}

Execute ==
  /\ Answer("execute", "COMPLETED") /\ Act
  /\ UNCHANGED <<books, talk, told, missed, strays, unsure, failures, crashes>>

\* The plan file cannot be read.
NoPlan == Answer("run", "DROPPED") /\ UNCHANGED <<books, history>>

\* Receipts could not be matched, or create-invoice was refused.
SkipInvoice == Turn("run", "report") /\ UNCHANGED <<books, history>>

\* create-invoice looks for the marker among invoices dated within the trip.
\* The invoice gets the date of the day, during the trip or after it.  Mutant: it is not looked for.
NeverMarked == FALSE
MarkerFound == \E i \in DOMAIN invoices : invoices[i].found

CreateInvoice ==
  /\ Turn("run", "report") /\ Act
  /\ \E during \in BOOLEAN :
       invoices' = IF MarkerFound THEN invoices
                   ELSE Append(invoices, [by |-> hand, found |-> during])
  /\ UNCHANGED <<drafts, ledger, fresh, sends, bookings, talk, told, missed, strays, unsure,
                 failures, crashes>>

Report == Answer("report", "COMPLETED") /\ UNCHANGED <<books, history>>

\* The ledger says there is nothing to send, or that it was sent.
AlreadySent == Asked({"invoice"}) /\ ledger[T] = "sent"
RefuseSend ==
  /\ Asked({"invoice"}) /\ Says({"yes"})
  /\ \/ ledger[T] = "none" /\ Answer("route", "DROPPED")
     \/ AlreadySent /\ Answer("route", "COMPLETED")
  /\ UNCHANGED <<books, history>>

ApproveSend ==
  /\ Asked({"invoice"}) /\ Says({"yes"}) /\ ledger[T] # "none" /\ ~AlreadySent
  /\ Turn("route", "send")
  /\ ledger' = [ledger EXCEPT ![T] = "approved"]
  /\ UNCHANGED <<invoices, drafts, fresh, sends, bookings, history>>

\* A draft that was deleted cannot be sent: that is an exception.
Send ==
  /\ Turn("send", "sent") /\ Act
  /\ drafts[T] > 0
  /\ sends' = [sends EXCEPT ![T] = @ + 1]
  /\ UNCHANGED <<invoices, drafts, ledger, fresh, bookings, talk, told, missed, strays,
                 unsure, failures, crashes>>

\* Mutant: the ledger keeps "approved".
MarkNothing == Turn("sent", "confirm") /\ UNCHANGED <<books, history>>
MarkSent ==
  /\ Turn("sent", "confirm")
  /\ ledger' = [ledger EXCEPT ![T] = "sent"]
  /\ UNCHANGED <<invoices, drafts, fresh, sends, bookings, history>>

Confirm == Answer("confirm", "COMPLETED") /\ UNCHANGED <<books, history>>

RejectDraft ==
  /\ Asked({"invoice"}) /\ Says({"no"})
  /\ Turn("route", "delete") /\ UNCHANGED <<books, history>>

\* A failure to delete the draft goes to the audit log only.
Delete ==
  /\ Turn("delete", "discard")
  /\ \/ /\ drafts' = [drafts EXCEPT ![T] = IF @ > 0 THEN @ - 1 ELSE 0]
        /\ UNCHANGED <<strays, failures>>
     \/ /\ failures < MaxFailures /\ failures' = failures + 1
        /\ strays' = strays + 1
        /\ UNCHANGED drafts
  /\ UNCHANGED <<invoices, ledger, fresh, sends, bookings, talk, acted, told, missed,
                 unsure, crashes>>

Discard ==
  /\ Answer("discard", "DROPPED")
  /\ ledger' = [ledger EXCEPT ![T] = IF @ = "none" THEN @ ELSE "discarded"]
  /\ UNCHANGED <<invoices, drafts, fresh, sends, bookings, history>>

\* expire_idle_intents, and the poll is over.  Mutant: intents left EXECUTING
\* are not looked at.
ExpireWaiting ==
  /\ Goto("replies", "idle")
  /\ open = {}
  /\ status' = [t \in Threads |->
                  IF t \in idle /\ status[t] # "EXECUTING" THEN "EXPIRED" ELSE status[t]]
  /\ idle' = {}
  /\ UNCHANGED <<gmail, kind, processed, books, listed, open, hand, fetched, outcome, seen,
                 history>>
Expire ==
  /\ Goto("replies", "idle")
  /\ open = {}
  /\ status' = [t \in Threads |-> IF t \in idle THEN "EXPIRED" ELSE status[t]]
  /\ idle' = {}
  /\ UNCHANGED <<gmail, kind, processed, books, listed, open, hand, fetched, outcome, seen,
                 history>>

-----------------------------------------------------------------------------
(* Failures, time and the operator *)

Stop ==
  /\ pc' = "idle" /\ listed' = {} /\ open' = {} /\ Release
  /\ unsure' = IF pc = "sent" THEN unsure + 1 ELSE unsure
  /\ UNCHANGED <<gmail, intents, books, talk, acted, told, missed>>

\* An exception ends the poll.
Fail ==
  /\ pc \notin {"idle", "settle", "done"} \cup Drafting \cup Booking \cup Caught
  /\ IF pc = "send" /\ drafts[T] = 0 THEN UNCHANGED failures
     ELSE failures < MaxFailures /\ failures' = failures + 1
  /\ Stop
  /\ UNCHANGED <<seen, strays, crashes>>

Crash ==
  /\ crashes < MaxCrashes
  /\ crashes' = crashes + 1
  /\ Stop
  /\ seen' = {}
  /\ strays' = Stray
  /\ UNCHANGED failures

\* The thread was read, in this poll, before the mail came.
Passed(t) == \/ hand # 0 /\ T = t
             \/ hand # 0 /\ fetched # {} /\ t \notin open
             \/ pc = "replies" /\ t \notin open

Arrive(t, s) ==
  /\ Len(mail) < MaxMail
  /\ Of(t) = {} <=> s = "ask"
  /\ mail' = Append(mail, [thread |-> t, says |-> s])
  /\ unread' = unread \cup {Len(mail) + 1}
  /\ missed' = IF Passed(t) THEN missed \cup {Len(mail) + 1} ELSE missed
  /\ UNCHANGED <<intents, books, poll, talk, acted, told, strays, unsure, failures, crashes>>

\* Polls are shorter than a day.
DayPasses ==
  /\ pc = "idle"
  /\ idle' = {t \in Threads : status[t] \in Open}
  /\ fresh' = {}
  /\ UNCHANGED <<gmail, status, kind, processed, invoices, drafts, ledger, sends, bookings,
                 poll, history>>

Midnight ==
  /\ pc = "idle"
  /\ fresh' = {}
  /\ UNCHANGED <<gmail, intents, invoices, drafts, ledger, sends, bookings, poll, history>>

-----------------------------------------------------------------------------

Init ==
  /\ mail = <<>> /\ unread = {}
  /\ status = [t \in Threads |-> "none"] /\ kind = [t \in Threads |-> "none"]
  /\ processed = {} /\ idle = {}
  /\ invoices = <<>>
  /\ drafts = [t \in Threads |-> 0] /\ sends = [t \in Threads |-> 0]
  /\ ledger = [t \in Threads |-> "none"] /\ fresh = {}
  /\ bookings = [m \in Numbers |-> 0]
  /\ pc = "idle" /\ listed = {} /\ open = {} /\ hand = 0 /\ fetched = {}
  /\ outcome = "none" /\ seen = {}
  /\ talk = [t \in Threads |-> [opener |-> 0, to |-> 0, at |-> 0]]
  /\ acted = {} /\ told = {} /\ missed = {}
  /\ strays = 0 /\ unsure = 0 /\ failures = 0 /\ crashes = 0

Poll ==
  \/ StartPoll \/ EndNew \/ Expire \/ Done \/ Settle
  \/ \E m \in Mails : KnownThread(m)
  \/ \E m \in Mails, k \in Kinds : Dispatch(m, k)
  \/ \E t \in Threads : Read(t)
  \/ OpenTrip \/ Clarify \/ Stage \/ Collect \/ FindReceipt \/ Book \/ Booked
  \/ Attempt \/ Offer \/ Propose
  \/ RefuseDraft \/ Draft \/ Summary \/ OpenInvoice \/ RecordPending
  \/ Resume \/ Reask \/ Redo \/ Redone \/ Reject \/ Keep \/ Approve \/ Execute
  \/ NoPlan \/ SkipInvoice \/ CreateInvoice \/ Report
  \/ RefuseSend \/ ApproveSend \/ Send \/ MarkSent \/ Confirm
  \/ RejectDraft \/ Delete \/ Discard

Next ==
  \/ Poll
  \/ BookFails \/ DraftFails \/ Fail \/ Crash
  \/ \E t \in Threads : SkipThread(t)
  \/ \E t \in Threads, s \in Words \cup {"ask"} : Arrive(t, s)
  \/ DayPasses \/ Midnight

Spec == Init /\ [][Next]_vars

\* The daemon polls on, also after a failure, and days go by between polls.
FairSpec == Spec /\ WF_vars(Poll \/ Fail) /\ SF_vars(DayPasses)

-----------------------------------------------------------------------------
(* Properties *)

\* A mail that the next poll has to route: the last of an open thread, and
\* not answered as a request that is none.
Unanswered(m) ==
  /\ m \in Mails \ (processed \cup seen \cup missed)
  /\ m = Max(Of(mail[m].thread))
  /\ status[mail[m].thread] \in Open

Invoiced(t) == {i \in DOMAIN invoices : mail[invoices[i].by].thread = t}

\* The invoices that the threads of S made and keep.
DraftsOf(S) == UNION {{t} \X (1..drafts[t]) : t \in S}

Unsendable(t) == kind[t] = "invoice" /\ drafts[t] = 0

(***************************************************************************)
(* The mail that made SAI propose something does not also approve it: a    *)
(* request is processed when its intent opens, a reply after its turn      *)
(* (email_runner.py:592, 658).  A crash between the two writes of a turn   *)
(* (1113 and 659) is the exception.                                        *)
(***************************************************************************)
NoMailApprovesItself == crashes = 0 => \A m \in acted : m # talk[mail[m].thread].to

(***************************************************************************)
(* A thread gets one trip invoice, whatever fails and wherever the daemon  *)
(* stops: EXECUTING (email_runner.py:1133) is on disk before the first     *)
(* step, and an EXECUTING intent is never approved again.                  *)
(***************************************************************************)
InvoicedOnce == \A t \in Threads : Cardinality(Invoiced(t)) <= 1

(***************************************************************************)
(* A trip gets one invoice during its days, however many threads ask for   *)
(* it.  create-invoice looks for its marker within the trip's dates only   *)
(* (runner.py:639), but dates the invoice with the day it is made: made    *)
(* after the trip it is never found.                                       *)
(***************************************************************************)
OneInvoicePerTrip == Cardinality({i \in DOMAIN invoices : invoices[i].found}) <= 1

(***************************************************************************)
(* An invoice is emailed once: a reply that fails afterwards makes the     *)
(* daemon route the approval again, and only the row says it was sent      *)
(* (invoice_intent.py:312).  Each time the daemon stops between the mail   *)
(* and the row (318-319), or leaves a draft it could not delete, it may be *)
(* emailed once more: a "no" turns the row of a sent invoice to discarded. *)
(***************************************************************************)
SentOnce == \A t \in Threads : sends[t] <= 1 + unsure + strays

(***************************************************************************)
(* QuickBooks holds one invoice of a day's request, unless the daemon      *)
(* stopped between making and recording it (invoice_intent.py:246-278) or  *)
(* could not delete it (329): a second request finds the row of the first. *)
(***************************************************************************)
OneDraftPerRequest == Cardinality(DraftsOf(fresh)) <= 1 + strays

(***************************************************************************)
(* The operator's later word prevails: once a reply was routed, no earlier *)
(* one of its thread is (email_runner.py:633-661).  After a crash it may   *)
(* be: replies passed over are remembered in memory only.                  *)
(***************************************************************************)
LaterReplyPrevails ==
  [][\A m \in processed' \ processed, n \in processed :
       crashes = 0 /\ mail[n].thread = mail[m].thread /\ n # talk[mail[n].thread].opener
         => n < m]_vars

(***************************************************************************)
(* An operator is told "Booked" (single_receipt_expense.py:210) of a       *)
(* receipt only if an expense was booked for it: "if a Purchase carrying   *)
(* this receipt's marker already exists near its date, reuse it" (154).    *)
(***************************************************************************)
BookedIsTrue == \A m \in told : bookings[m] > 0

(***************************************************************************)
(* The last reply of an open thread is routed, or its intent is closed on  *)
(* another account than idleness, whatever failed or crashed before: a     *)
(* reply is retried until it is processed, and before intents expire.  A   *)
(* mail that comes after its thread was read may miss the expiry; a        *)
(* deleted draft that is approved again is tried for ever.                 *)
(***************************************************************************)
RepliesAreRouted ==
  \A m \in Numbers :
    Unanswered(m) ~>
      /\ m \in Mails
      /\ \/ m \in processed \cup missed
         \/ m # Max(Of(mail[m].thread))
         \/ status[mail[m].thread] \in {"COMPLETED", "DROPPED"}
         \/ Unsendable(mail[m].thread)

(***************************************************************************)
(* No intent stays open: it is completed, dropped, or expires a day after  *)
(* it was last written (email_intents.py:278), also one left EXECUTING.    *)
(***************************************************************************)
IntentsClose ==
  \A t \in Threads :
    status[t] \in Open ~> status[t] \in Terminal \/ \E u \in Threads : Unsendable(u)

-----------------------------------------------------------------------------
(* The promise *)

Phase(t) == CASE status[t] = "none"                -> "none"
              [] status[t] = "EXECUTING"           -> "begun"
              [] status[t] \in Terminal            -> "over"
              [] OTHER                             -> "asked"

\* Drafts of invoices are the exception: their record is the ledger (SentOnce).
WorkOf(t) == {m \in acted : mail[m].thread = t /\ kind[t] # "invoice"}

Promised == INSTANCE ApprovedWork WITH
  Approvals <- Numbers,
  phase     <- [t \in Threads |-> Phase(t)],
  work      <- [t \in Threads |-> WorkOf(t)]

(***************************************************************************)
(* Whatever fails and wherever the daemon stops, what a trip or a plan in  *)
(* steps does (email_runner.py:1133) is done once, on one approval, while  *)
(* its intent is EXECUTING on disk, and no closed intent opens again.      *)
(***************************************************************************)
ImplementsApprovedWork == Promised!Spec
=============================================================================
