-------------------------- MODULE EmailIntentsProofs --------------------------
(***************************************************************************)
(* Proofs about EmailIntents, for any number of threads, mails, failures   *)
(* and crashes.                                                            *)
(*                                                                         *)
(* Flow says what status the intent in hand has at each place of a poll:   *)
(* it is what keeps an approval from being acted on twice.  Standing,      *)
(* Balance, OnRecord, Single and Routed carry one theorem each; Acting and *)
(* Listening together carry NoSelfApproval, Acting and Undone the          *)
(* refinement of ApprovedWork.                                             *)
(***************************************************************************)
EXTENDS EmailIntents, FiniteSetTheorems, SequenceTheorems, TLAPS

Resting    == {"idle", "new", "replies"}
Unopened   == {"open", "attempt", "offer", "draft", "summary", "openinv"}
Clarifying == {"turn", "agent", "collect"} \cup Booking
Deciding   == {"record", "send", "sent", "confirm", "delete", "discard"}
Executing  == {"run", "report", "execute", "redo"}
States     == Open \cup Terminal \cup {"none"}

Flow ==
  /\ pc \in Resting <=> hand = 0
  /\ pc \in Unopened => status[T] = "none"
  /\ pc \in Clarifying => status[T] = "AWAITING_CLARIFICATION"
  /\ pc \in Deciding => status[T] = "AWAITING_APPROVAL"
  /\ pc \in Executing => status[T] = "EXECUTING"
  /\ pc = "settle" => outcome \in Terminal \cup {"AWAITING_APPROVAL"} /\ status[T] # "none"
  /\ pc = "run" => kind[T] = "trip"
  /\ pc = "redo" => kind[T] = "auto"

\* A thread with an invoice is executing or closed: it was invoiced while its
\* intent was EXECUTING, and that status is never approved.
Standing ==
  /\ \A t \in Threads : Invoiced(t) # {} => kind[t] = "trip" /\ status[t] \in {"EXECUTING"} \cup Terminal
  /\ pc = "run" => Invoiced(T) = {}
  /\ pc = "settle" /\ outcome \notin Terminal => Invoiced(T) = {}
  /\ \A t \in Threads : \A i, j \in Invoiced(t) : i = j

\* A thread's emails and the drafts it may still email: one, but for what the
\* ledger does not know; the draft of a row that says "sent" counts twice.
Slack == unsure + strays
InTheMail(t) == ledger[t] = "sent" \/ (pc = "sent" /\ T = t)
Balance ==
  /\ \A t \in Threads :
       /\ sends[t] <= 1 + Slack
       /\ sends[t] + drafts[t] <= 2 + Slack
       /\ ~InTheMail(t) => sends[t] + drafts[t] <= 1 + Slack
       /\ status[t] = "none" =>
            /\ sends[t] = 0 /\ ledger[t] = "none"
            /\ drafts[t] <= IF pc \in {"summary", "openinv"} /\ T = t THEN strays + 1 ELSE strays
  /\ pc = "send" => ledger[T] = "approved"
  /\ pc = "discard" => sends[T] + drafts[T] <= 1 + Slack
  /\ pc = "record" => sends[T] = 0 /\ ledger[T] = "none" /\ drafts[T] <= strays + 1

\* The mails are finitely many.
HasMax == \A S \in SUBSET Mails : S # {} => \E x \in S : \A y \in S : x >= y

-----------------------------------------------------------------------------
(* Mails *)

LEMMA MailsAreNumbers ==
  ASSUME TypeOK
  PROVE  /\ Mails = 1..Len(mail) /\ Mails \subseteq Numbers /\ Mails \subseteq Nat
         /\ Len(mail) \in 0..MaxMail /\ MaxMail \in Nat
         /\ \A m \in Mails : mail[m].thread \in Threads
<1>0. MaxMail \in Nat
    BY BoundsAssumption
<1>1. mail \in Seq([thread : Threads, says : Words \cup {"ask"}]) /\ Len(mail) <= MaxMail
      /\ Len(mail) \in Nat
    BY DEF TypeOK
<1>2. Mails = 1..Len(mail)
    BY <1>1 DEF Mails
<1>3. ASSUME NEW m \in Mails PROVE mail[m].thread \in Threads
  <2>1. \A S : mail \in Seq(S) => mail[m] \in S
      BY <1>1, <1>2, <1>3
  <2>2. mail[m] \in [thread : Threads, says : Words \cup {"ask"}]
      BY <1>1, <2>1
  <2> QED
      BY <2>2
<1> QED
    BY <1>0, <1>1, <1>2, <1>3 DEF Numbers

LEMMA NewMail ==
  ASSUME TypeOK, NEW t \in Threads, NEW s \in Words \cup {"ask"}, Arrive(t, s)
  PROVE  /\ Mails' = Mails \cup {Len(mail) + 1} /\ Len(mail) + 1 \notin Mails
         /\ \A m \in Mails : mail'[m] = mail[m] /\ m < Len(mail) + 1
         /\ mail' \in Seq([thread : Threads, says : Words \cup {"ask"}])
         /\ Len(mail') = Len(mail) + 1 /\ Len(mail') <= MaxMail
<1>1. /\ mail \in Seq([thread : Threads, says : Words \cup {"ask"}]) /\ Len(mail) \in Nat
      /\ mail' = Append(mail, [thread |-> t, says |-> s]) /\ Len(mail) < MaxMail /\ MaxMail \in Nat
    BY BoundsAssumption DEF TypeOK, Arrive
<1>2. Mails = 1..Len(mail) /\ Mails' = 1..(Len(mail) + 1)
    BY <1>1 DEF Mails
<1> QED
    BY <1>1, <1>2

LEMMA InHand ==
  ASSUME TypeOK, Flow, pc \notin Resting
  PROVE  hand \in Mails /\ T \in Threads
<1>1. hand \in 1..Len(mail)
    BY MailsAreNumbers DEF TypeOK, Flow
<1> QED
    BY <1>1, MailsAreNumbers DEF T

LEMMA LatestIsOne ==
  ASSUME HasMax, NEW S \in SUBSET Mails, S # {}
  PROVE  Latest(S) \in S
<1>1. \E x \in S : \A y \in S : x >= y
    BY DEF HasMax
<1> QED
    BY <1>1 DEF Latest, Max

LEMMA MaxInit == Init => HasMax
<1> SUFFICES ASSUME Init PROVE HasMax
    OBVIOUS
<1>1. Mails = {}
    BY DEF Init, Mails
<1> QED
    BY <1>1 DEF HasMax

\* Only an arrival changes the mails.
LEMMA MailStep ==
  [Next]_vars => mail' = mail \/ \E t \in Threads, s \in Words \cup {"ask"} : Arrive(t, s)
<1> QED
    BY DEF Next, Poll, StartPoll, EndNew, Expire, Done, DealtWith, Settle, KnownThread, Dispatch,
       Read, OpenTrip, Clarify, Stage, Collect, FindReceipt, Book, Booked, Attempt, Offer,
       Propose, RefuseDraft, Draft, Summary, OpenInvoice, RecordPending, Resume, Reask, Redo,
       Redone, Reject, Keep, Approve, Execute, NoPlan, SkipInvoice, CreateInvoice, Report,
       RefuseSend, ApproveSend, Send, MarkSent, Confirm, RejectDraft, Delete, Discard,
       BookFails, DraftFails, Fail, Crash, Stop, SkipThread, DayPasses, Midnight, Turn, Answer,
       OpenIntent, gmail, vars

LEMMA MaxStep == TypeOK /\ HasMax /\ [Next]_vars => HasMax'
<1> SUFFICES ASSUME TypeOK, HasMax, [Next]_vars PROVE HasMax'
    OBVIOUS
<1>1. CASE mail' = mail
    BY <1>1 DEF HasMax, Mails
<1>2. ASSUME NEW t \in Threads, NEW s \in Words \cup {"ask"}, Arrive(t, s) PROVE HasMax'
  <2>0. PICK n \in Nat : n = Len(mail) + 1
      BY MailsAreNumbers
  <2>1. Mails' = Mails \cup {n} /\ \A m \in Mails : m < n /\ m \in Nat
      BY <1>2, <2>0, NewMail, MailsAreNumbers
  <2> SUFFICES ASSUME NEW S \in SUBSET Mails', S # {}
               PROVE  \E x \in S : \A y \in S : x >= y
      BY DEF HasMax
  <2>2. CASE n \in S
      BY <2>1, <2>2
  <2>3. CASE n \notin S
      BY <2>1, <2>3 DEF HasMax
  <2> QED
      BY <2>2, <2>3
<1> QED
    BY <1>1, <1>2, MailStep

-----------------------------------------------------------------------------
(* The place of the poll and the status of its intent *)

LEMMA FlowInit == Init => Flow
<1> QED
    BY DEF Init, Flow, Resting, Unopened, Clarifying, Deciding, Executing, Booking

LEMMA FlowStep == TypeOK /\ Flow /\ HasMax /\ [Next]_vars => Flow'
<1> SUFFICES ASSUME TypeOK, Flow, HasMax, [Next]_vars PROVE Flow'
    OBVIOUS
<1> USE DEF Flow, Resting, Unopened, Clarifying, Deciding, Executing, Booking
<1>s. status \in [Threads -> States] /\ kind \in [Threads -> {"none", "trip", "auto", "steps", "invoice"}]
    BY DEF TypeOK, States
<1>h. pc \notin Resting => hand \in Mails /\ T \in Threads
    BY InHand
<1>1. CASE UNCHANGED <<pc, hand, mail, status, kind, outcome>>
    BY <1>1 DEF T
<1>2. CASE UNCHANGED <<hand, mail, status, kind>> /\ pc' \in {"proposal", "route", "done"}
           /\ pc \notin Resting
    BY <1>2 DEF T
\* The polls that begin and end.
<1>3. CASE StartPoll \/ EndNew \/ Expire
    BY <1>3 DEF StartPoll, EndNew, Expire, Goto
<1>4. CASE Done
    BY <1>4 DEF Done, DealtWith, Release
<1>5. CASE Fail \/ Crash
    BY <1>5 DEF Fail, Crash, Stop, Release
<1>6. CASE Settle
  <2>1. pc = "settle" /\ pc' = "done" /\ hand' = hand
      BY <1>6 DEF Settle, Goto
  <2> QED
      BY <2>1
<1>7. ASSUME NEW m \in Mails, KnownThread(m) PROVE Flow'
    BY <1>1, <1>7 DEF KnownThread, intents
<1>8. ASSUME NEW m \in Mails, NEW k \in Kinds, Dispatch(m, k) PROVE Flow'
  <2>1. /\ pc = "new" /\ status[mail[m].thread] = "none" /\ UNCHANGED <<mail, status, kind, outcome>>
        /\ k = "other" => UNCHANGED <<pc, hand>>
        /\ k # "other" => /\ hand' = m
                          /\ pc' = CASE k = "trip" -> "open" [] k = "ad_hoc" -> "attempt"
                                     [] k = "invoice" -> "draft"
      BY <1>8 DEF Dispatch, Upcoming, intents
  <2>2. k \in {"trip", "ad_hoc", "invoice", "other"}
      BY KindsAssumption
  <2>3. CASE k = "other"
      BY <1>1, <2>1, <2>3
  <2>4. CASE k # "other"
    <3>1. pc' \in {"open", "attempt", "draft"} /\ hand' = m
        BY <2>1, <2>2, <2>4
    <3>2. status'[T'] = "none" /\ m # 0
        BY <2>1, <3>1, MailsAreNumbers DEF T
    <3> QED
        BY <3>1, <3>2
  <2> QED
      BY <2>3, <2>4
<1>9. ASSUME NEW t \in Threads, Read(t) PROVE Flow'
  <2>1. CASE Waiting(t) = {}
      BY <1>1, <1>9, <2>1 DEF Read, gmail, intents
  <2>2. CASE Waiting(t) # {}
    <3>1. Waiting(t) \subseteq Mails
        BY DEF Waiting, Of
    <3>2. hand' # 0
        BY <1>9, <2>2, <3>1, LatestIsOne, MailsAreNumbers DEF Read
    <3> QED
        BY <1>9, <2>2, <3>2 DEF Read
  <2> QED
      BY <2>1, <2>2
<1>10. ASSUME NEW t \in Threads, SkipThread(t) PROVE Flow'
    BY <1>1, <1>10 DEF SkipThread, gmail, intents
\* Replies and steps that leave the intent as it is.
<1>11. CASE Clarify \/ Attempt \/ RefuseDraft \/ RecordPending \/ Propose \/ Reask \/ DraftFails
  <2>1. UNCHANGED <<hand, mail, status, kind>> /\ pc \notin Resting
      BY <1>11 DEF Clarify, Attempt, RefuseDraft, RecordPending, Propose, Reask, DraftFails, Agent,
         Asked, Turn, Goto, Drafting, gmail, intents
  <2>2. CASE Attempt
      BY <2>1, <2>2 DEF Attempt, Turn, Goto, T
  <2>3. CASE ~Attempt
      BY <1>2, <1>11, <2>1, <2>3 DEF Clarify, RefuseDraft, RecordPending, Propose, Reask, DraftFails,
         Turn, Goto
  <2> QED
      BY <2>2, <2>3
<1>12. ASSUME UNCHANGED <<hand, mail, status, kind>>, pc \notin Resting,
              \/ pc \in Unopened /\ pc' \in Unopened
              \/ pc \in Clarifying /\ pc' \in Clarifying
              \/ status[T] = "AWAITING_APPROVAL" /\ pc' \in Deciding
              \/ pc \in Executing /\ pc' = "report"
              \/ pc = "route" /\ status[T] = "AWAITING_CLARIFICATION" /\ pc' = "turn"
       PROVE  Flow'
    BY <1>12 DEF T
<1>13. CASE Stage \/ FindReceipt \/ Book \/ BookFails \/ Draft \/ Summary \/ Resume \/ SkipInvoice
            \/ CreateInvoice \/ Send \/ MarkSent \/ Delete \/ ApproveSend \/ RejectDraft
  <2>1. UNCHANGED <<hand, mail, status, kind>>
      BY <1>13 DEF Stage, FindReceipt, Book, BookFails, Draft, Summary, Resume, SkipInvoice,
         CreateInvoice, Send, MarkSent, Delete, ApproveSend, RejectDraft, Turn, gmail, intents
  <2>2. CASE Stage \/ FindReceipt \/ Book \/ BookFails \/ Draft \/ Summary \/ Resume
      BY <1>12, <2>1, <2>2 DEF Stage, FindReceipt, Book, BookFails, Draft, Summary, Resume, Agent,
         Turn, Goto
  <2>3. CASE SkipInvoice \/ CreateInvoice \/ Send \/ MarkSent \/ Delete \/ ApproveSend \/ RejectDraft
      BY <1>12, <2>1, <2>3 DEF SkipInvoice, CreateInvoice, Send, MarkSent, Delete, ApproveSend,
         RejectDraft, Asked, Turn, Goto
  <2> QED
      BY <1>13, <2>2, <2>3
\* Answers.
<1>14. ASSUME UNCHANGED <<hand, mail, status>>, pc \notin Resting, status[T] # "none",
              pc' = "settle", outcome' \in Terminal \cup {"AWAITING_APPROVAL"}
       PROVE  Flow'
    BY <1>14 DEF T
<1>15. CASE Collect \/ Booked \/ Reject \/ Keep \/ Execute \/ NoPlan \/ Report \/ RefuseSend
            \/ Confirm \/ Discard
  <2>1. UNCHANGED <<hand, mail, status>> /\ pc' = "settle"
      BY <1>15 DEF Collect, Booked, Reject, Keep, Execute, NoPlan, Report, RefuseSend, Confirm,
         Discard, Answer, Goto, gmail, intents
  <2>2. outcome' \in Terminal \cup {"AWAITING_APPROVAL"}
      BY <1>15 DEF Collect, Booked, Reject, Keep, Execute, NoPlan, Report, RefuseSend, Confirm,
         Discard, Answer, Terminal
  <2>3. pc \notin Resting /\ status[T] # "none"
      BY <1>15 DEF Collect, Booked, Reject, Keep, Execute, NoPlan, Report, RefuseSend, Confirm,
         Discard, Answer, Goto, Asked
  <2> QED
      BY <1>14, <2>1, <2>2, <2>3
<1>16. CASE Redone
  <2>1. UNCHANGED <<hand, mail, status>> /\ pc = "redo" /\ pc' = "settle"
        /\ outcome' = "AWAITING_APPROVAL"
      BY <1>16 DEF Redone, Goto, gmail
  <2> QED
      BY <1>14, <2>1
\* Status changes.
<1>17. ASSUME UNCHANGED <<hand, mail>>, pc \notin Resting, NEW s \in States, Saved(T, s),
              \/ s = "AWAITING_CLARIFICATION" /\ pc' = "turn"
              \/ s = "AWAITING_APPROVAL" /\ pc' \in {"record", "proposal"}
              \/ s = "EXECUTING" /\ pc' \in {"run", "execute", "redo"}
                 /\ (pc' = "run" => kind'[T] = "trip") /\ (pc' = "redo" => kind'[T] = "auto")
       PROVE  Flow'
  <2>1. status'[T] = s /\ T' = T
      BY <1>17, <1>s, <1>h DEF Saved, T
  <2> QED
      BY <1>17, <2>1
<1>18. CASE OpenTrip
    BY <1>17, <1>18 DEF OpenTrip, OpenIntent, Goto, States, Open, gmail
<1>19. CASE Offer
    BY <1>17, <1>19 DEF Offer, OpenIntent, Goto, States, Open, gmail
<1>20. CASE OpenInvoice
    BY <1>17, <1>20 DEF OpenInvoice, OpenIntent, Goto, States, Open, gmail
<1>21. CASE Approve
    BY <1>17, <1>21 DEF Approve, Asked, Goto, States, Open, gmail
<1>22. CASE Redo
    BY <1>17, <1>22 DEF Redo, Asked, Goto, States, Open, gmail
<1>23. ASSUME NEW t \in Threads, NEW s \in Words \cup {"ask"}, Arrive(t, s) PROVE Flow'
  <2>1. UNCHANGED <<intents, poll>> /\ (pc \notin Resting => T' = T)
      BY <1>h, <1>23, NewMail DEF Arrive, T, poll
  <2> QED
      BY <2>1 DEF intents, poll
<1>24. CASE DayPasses \/ Midnight \/ UNCHANGED vars
    BY <1>1, <1>24 DEF DayPasses, Midnight, vars, gmail, intents, poll
<1> QED
    BY <1>3, <1>4, <1>5, <1>6, <1>7, <1>8, <1>9, <1>10, <1>11, <1>13, <1>15, <1>16, <1>18, <1>19,
       <1>20, <1>21, <1>22, <1>23, <1>24 DEF Next, Poll

-----------------------------------------------------------------------------
(* Types *)

\* What a reply shows is noted with two numbers.
LEMMA TalkTyped ==
  ASSUME NEW f, NEW S, NEW t \in S, NEW V, f \in [S -> [opener : V, to : V, at : V]],
         NEW a \in V, NEW b \in V
  PROVE  /\ [f EXCEPT ![t].to = a, ![t].at = b] \in [S -> [opener : V, to : V, at : V]]
         /\ [f EXCEPT ![t].opener = a] \in [S -> [opener : V, to : V, at : V]]
<1> DEFINE r == [f[t] EXCEPT !.to = a, !.at = b]
<1>1. f[t] \in [opener : V, to : V, at : V]
    OBVIOUS
<1>2. r \in [opener : V, to : V, at : V]
    BY <1>1
<1>3. [f EXCEPT ![t].to = a, ![t].at = b] = [f EXCEPT ![t] = r]
    OBVIOUS
<1>4. [f EXCEPT ![t].opener = a] \in [S -> [opener : V, to : V, at : V]]
    OBVIOUS
<1> QED
    BY <1>2, <1>3, <1>4

LEMMA TypeInit == Init => TypeOK
<1> SUFFICES ASSUME Init PROVE TypeOK
    OBVIOUS
<1>1. Mails = {} /\ Len(mail) = 0 /\ MaxMail \in Nat /\ MaxFailures \in Nat /\ MaxCrashes \in Nat
    BY BoundsAssumption DEF Init, Mails
<1>2. mail \in Seq([thread : Threads, says : Words \cup {"ask"}]) /\ invoices \in Seq([by : Mails, found : BOOLEAN])
    BY DEF Init
<1> QED
    BY <1>1, <1>2 DEF Init, TypeOK, Places, Numbers

LEMMA TypeStep == TypeOK /\ Flow /\ HasMax /\ [Next]_vars => TypeOK'
<1> SUFFICES ASSUME TypeOK, Flow, HasMax, [Next]_vars PROVE TypeOK'
    OBVIOUS
<1>b. MaxMail \in Nat /\ MaxFailures \in Nat /\ MaxCrashes \in Nat /\ Len(mail) \in Nat
      /\ Mails = 1..Len(mail) /\ \A m \in Mails : m \in 1..MaxMail /\ mail[m].thread \in Threads
    BY BoundsAssumption, MailsAreNumbers
<1>h. pc \notin Resting => hand \in Mails /\ T \in Threads
    BY InHand
<1>m. mail' = mail => Mails' = Mails
    BY DEF Mails
<1> DEFINE I == /\ status \in [Threads -> States]
                /\ kind \in [Threads -> {"none", "trip", "auto", "steps", "invoice"}]
                /\ \A t \in Threads : status[t] = "none" <=> kind[t] = "none"
                /\ idle \subseteq {t \in Threads : status[t] \in Open}
           B == /\ invoices \in Seq([by : Mails, found : BOOLEAN])
                /\ drafts \in [Threads -> Nat] /\ sends \in [Threads -> Nat]
                /\ ledger \in [Threads -> Live \cup {"none", "discarded"}] /\ fresh \subseteq Threads
                /\ bookings \in [Numbers -> Nat]
           P == /\ unread \subseteq Mails /\ processed \subseteq Mails /\ seen \subseteq Mails
                /\ pc \in Places /\ outcome \in States
                /\ listed \subseteq Mails /\ open \subseteq Threads
                /\ hand \in 0..Len(mail) /\ fetched \subseteq Mails
           H == /\ talk \in [Threads -> [opener : 0..MaxMail, to : 0..MaxMail, at : 0..MaxMail]]
                /\ acted \subseteq Mails /\ told \subseteq Mails /\ missed \subseteq Mails
                /\ {strays, unsure} \subseteq Nat
                /\ failures \in 0..MaxFailures /\ crashes \in 0..MaxCrashes
<1>t. I /\ B /\ P /\ H
    BY DEF TypeOK, States
<1>u. ASSUME mail' = mail, I', B', P', H' PROVE TypeOK'
    BY <1>u DEF TypeOK, States, Mails
\* The intents.
<1>i. (UNCHANGED <<status, kind>> /\ idle' \subseteq idle) \/ UNCHANGED intents => I'
    BY <1>t DEF intents
<1>j. ASSUME pc \notin Resting, NEW s \in States \ {"none"}, Saved(T, s), status[T] # "none",
             kind' = kind
      PROVE  I'
    BY <1>h, <1>t, <1>j DEF Saved
<1>k. ASSUME pc \notin Resting, NEW s \in Open, NEW k \in {"trip", "auto", "steps", "invoice"}, OpenIntent(k, s)
      PROVE  I'
    BY <1>h, <1>t, <1>k DEF Saved, OpenIntent, States, Open
\* The books.
<1>l. UNCHANGED <<mail, books>> => B'
    BY <1>t, <1>m DEF books
\* The poll.
<1>p. UNCHANGED <<gmail, processed, poll>> => P'
    BY <1>t, <1>m DEF gmail, poll
<1>q. ASSUME NEW here, NEW there \in Places, Turn(here, there) PROVE I' /\ P' /\ mail' = mail
    BY <1>t, <1>m, <1>i, <1>q DEF Turn, Goto, gmail, intents
<1>r. ASSUME NEW here, NEW s \in States, Answer(here, s) PROVE I' /\ P' /\ mail' = mail
    BY <1>t, <1>m, <1>i, <1>r DEF Answer, Goto, gmail, intents, Places
\* The histories.
<1>v. UNCHANGED <<mail, history>> => H'
    BY <1>t, <1>m DEF history
<1>w. ASSUME mail' = mail, UNCHANGED talk \/ (Show /\ pc \notin Resting),
             acted' \subseteq Mails, told' \subseteq Mails, missed' \subseteq Mails,
             strays' \in Nat, unsure' \in Nat, failures' \in 0..MaxFailures, crashes' \in 0..MaxCrashes
      PROVE  H'
  <2>1. talk' \in [Threads -> [opener : 0..MaxMail, to : 0..MaxMail, at : 0..MaxMail]]
    <3>1. CASE UNCHANGED talk
        BY <1>t, <3>1
    <3>2. CASE Show /\ pc \notin Resting
      <4>1. hand \in 0..MaxMail /\ Len(mail) \in 0..MaxMail
          BY <1>t, <1>b, MailsAreNumbers
      <4>2. T \in Threads /\ talk' = [talk EXCEPT ![T].to = hand, ![T].at = Len(mail)]
          BY <1>h, <3>2 DEF Show
      <4>3. talk \in [Threads -> [opener : 0..MaxMail, to : 0..MaxMail, at : 0..MaxMail]]
          BY <1>t
      <4> HIDE DEF I, B, P, H
      <4> QED
          BY <4>1, <4>2, <4>3, TalkTyped
    <3> QED
        BY <1>w, <3>1, <3>2
  <2> QED
      BY <2>1, <1>w, <1>m
<1>y. ASSUME UNCHANGED <<mail, talk, acted, told, missed, strays, unsure, crashes>>,
             failures' = failures \/ (failures < MaxFailures /\ failures' = failures + 1)
      PROVE  H'
  <2>1. failures \in 0..MaxFailures
      BY <1>t
  <2>2. failures' \in 0..MaxFailures
      BY <1>b, <1>y, <2>1
  <2> QED
      BY <1>t, <1>m, <1>y, <2>2
<1> HIDE DEF I, B, P, H
\* The beginnings and ends of polls.
<1>1. CASE StartPoll
  <2>1. mail' = mail /\ UNCHANGED <<intents, books, history>>
      BY <1>1 DEF StartPoll, gmail
  <2>2. P'
      BY <1>1, <1>t, <1>m DEF P, StartPoll, Goto, gmail, intents, Places
  <2> QED
      BY <2>1, <2>2, <1>i, <1>l, <1>v, <1>u
<1>2. CASE EndNew
  <2>1. mail' = mail /\ UNCHANGED <<intents, books, history>>
      BY <1>2 DEF EndNew, gmail
  <2>2. P'
      BY <1>2, <1>t, <1>m DEF P, EndNew, Goto, gmail, intents, Places
  <2> QED
      BY <2>1, <2>2, <1>i, <1>l, <1>v, <1>u
<1>3. CASE Expire
  <2>1. mail' = mail /\ UNCHANGED <<books, history>>
      BY <1>3 DEF Expire, gmail
  <2>2. P'
      BY <1>3, <1>t, <1>m DEF P, Expire, Goto, gmail, Places
  <2>3. I'
      BY <1>3, <1>t DEF I, Expire, States, Open, Terminal
  <2> QED
      BY <2>1, <2>2, <2>3, <1>l, <1>v, <1>u
<1>4. CASE Done
  <2>1. mail' = mail /\ UNCHANGED <<status, kind, books, history>> /\ idle' \subseteq idle
      BY <1>4 DEF Done, DealtWith, gmail
  <2>2. hand \in Mails
      BY <1>4, <1>h DEF Done, DealtWith, Resting
  <2>3. UNCHANGED <<unread, listed, open>> /\ hand' = 0 /\ fetched' = {} /\ outcome' = "none"
      BY <1>4 DEF Done, DealtWith, Release, gmail
  <2>4. pc' \in {"new", "replies"} /\ seen' \subseteq Mails /\ processed' \subseteq Mails
      BY <1>4, <1>t, <2>2 DEF P, Done, DealtWith
  <2>5. P'
      BY <1>t, <1>m, <1>b, <2>1, <2>3, <2>4 DEF P, Places, States
  <2> QED
      BY <2>1, <2>5, <1>i, <1>l, <1>v, <1>u
<1>5. CASE Settle
  <2>1. mail' = mail /\ UNCHANGED <<books, history>>
      BY <1>5 DEF Settle, gmail
  <2>2. P'
      BY <1>5, <1>t, <1>m DEF P, Settle, Goto, gmail, Places
  <2>3. pc \notin Resting /\ outcome \in States \ {"none"} /\ status[T] # "none"
      BY <1>5 DEF Settle, Goto, Flow, Resting, States, Open, Terminal
  <2>4. I'
      BY <1>5, <2>3, <1>j DEF Settle
  <2> QED
      BY <2>1, <2>2, <2>4, <1>l, <1>v, <1>u
\* New mails and replies are taken up.
<1>6. ASSUME NEW m \in Mails, KnownThread(m) PROVE TypeOK'
  <2>1. mail' = mail /\ UNCHANGED <<intents, books, talk>>
      BY <1>6 DEF KnownThread
  <2>2. P'
      BY <1>6, <1>t, <1>m DEF P, KnownThread, MarkRead, intents
  <2>3. H'
      BY <1>6, <1>y DEF KnownThread, MarkRead
  <2> QED
      BY <2>1, <2>2, <2>3, <1>i, <1>l, <1>u
<1>7. ASSUME NEW m \in Mails, NEW k \in Kinds, Dispatch(m, k) PROVE TypeOK'
  <2>1. mail' = mail /\ UNCHANGED <<intents, books, talk>>
      BY <1>7 DEF Dispatch
  <2>2. k \in {"trip", "ad_hoc", "invoice", "other"}
      BY KindsAssumption
  <2>3. P'
    <3>1. pc' \in Places /\ hand' \in 0..Len(mail)
        BY <1>7, <1>t, <1>b, <2>2 DEF P, Dispatch, Places, Drafting, Caught
    <3> QED
        BY <1>7, <1>t, <1>m, <3>1 DEF P, Dispatch, MarkRead, intents
  <2>4. H'
      BY <1>7, <1>y DEF Dispatch, MarkRead
  <2> QED
      BY <2>1, <2>3, <2>4, <1>i, <1>l, <1>u
<1>8. ASSUME NEW t \in Threads, Read(t) PROVE TypeOK'
  <2>1. mail' = mail /\ UNCHANGED <<intents, books, history>>
      BY <1>8 DEF Read, gmail
  <2>2. Of(t) \subseteq Mails /\ Waiting(t) \subseteq Mails
      BY DEF Of, Waiting
  <2>3. Waiting(t) # {} => Latest(Waiting(t)) \in Mails
      BY <2>2, LatestIsOne
  <2>4. pc' \in Places /\ hand' \in 0..Len(mail) /\ fetched' \subseteq Mails /\ seen' \subseteq Mails
    <3>1. CASE Waiting(t) = {}
        BY <1>8, <1>t, <2>2, <3>1 DEF P, Read
    <3>2. CASE Waiting(t) # {}
      <4>1. /\ pc' = "route" /\ hand' = Latest(Waiting(t)) /\ fetched' = Of(t) /\ seen' = seen
          BY <1>8, <3>2 DEF Read
      <4>2. hand' \in 0..Len(mail) /\ seen \subseteq Mails
          BY <1>t, <1>b, <2>3, <3>2, <4>1 DEF P
      <4> QED
          BY <2>2, <4>1, <4>2 DEF Places
    <3> QED
        BY <3>1, <3>2
  <2>5. P'
      BY <1>8, <1>t, <1>m, <2>4 DEF P, Read, gmail, intents
  <2> QED
      BY <2>1, <2>5, <1>i, <1>l, <1>v, <1>u
<1>9. ASSUME NEW t \in Threads, SkipThread(t) PROVE TypeOK'
  <2>1. mail' = mail /\ UNCHANGED <<intents, books, talk>>
      BY <1>9 DEF SkipThread, gmail
  <2>2. P'
      BY <1>9, <1>t, <1>m DEF P, SkipThread, gmail, intents
  <2>3. Waiting(t) \subseteq Mails
      BY DEF Of, Waiting
  <2>4. /\ UNCHANGED <<acted, told, strays, unsure, crashes>> /\ missed' = missed \cup Waiting(t)
        /\ failures' = failures + 1 /\ failures < MaxFailures
      BY <1>9 DEF SkipThread
  <2>5. /\ acted' \subseteq Mails /\ told' \subseteq Mails /\ missed' \subseteq Mails
        /\ strays' \in Nat /\ unsure' \in Nat
        /\ failures' \in 0..MaxFailures /\ crashes' \in 0..MaxCrashes
    <3>1. /\ acted \subseteq Mails /\ told \subseteq Mails /\ missed \subseteq Mails
          /\ strays \in Nat /\ unsure \in Nat /\ failures \in 0..MaxFailures /\ crashes \in 0..MaxCrashes
        BY <1>t DEF H
    <3>2. failures' \in 0..MaxFailures
        BY <1>b, <2>4, <3>1
    <3> QED
        BY <2>3, <2>4, <3>1, <3>2
  <2>6. H'
      BY <1>w, <2>1, <2>5
  <2> QED
      BY <2>1, <2>2, <2>6, <1>i, <1>l, <1>u
\* Steps that leave the intent as it is.
<1>10. CASE Clarify \/ FindReceipt \/ Attempt \/ RefuseDraft \/ Resume \/ Reask \/ SkipInvoice
            \/ RejectDraft
  <2>1. UNCHANGED <<books, history>>
        /\ \E here \in Places, there \in Places : Turn(here, there)
    <3>1. Clarify => UNCHANGED <<books, history>> /\ Turn(pc, "done") /\ pc \in Places
        BY <1>t DEF P, Clarify
    <3> QED
        BY <1>10, <3>1 DEF FindReceipt, Attempt, RefuseDraft, Resume, Reask, SkipInvoice, RejectDraft,
           Places, Drafting, Booking, Caught
  <2>2. I' /\ P' /\ mail' = mail
      BY <2>1, <1>q
  <2> QED
      BY <2>1, <2>2, <1>l, <1>v, <1>u
<1>11. CASE Stage \/ Propose \/ Summary
  <2>1. pc \notin Resting /\ Show /\ UNCHANGED <<books, acted, told, missed, strays, unsure, failures, crashes>>
        /\ \E here \in Places, there \in Places : Turn(here, there)
    <3>1. Stage => Show /\ UNCHANGED <<books, acted, told, missed, strays, unsure, failures, crashes>>
                   /\ Turn(pc, "collect") /\ pc \in Places /\ pc \notin Resting
        BY <1>t DEF P, Stage, Agent, Resting
    <3> QED
        BY <1>11, <3>1 DEF Propose, Summary, Places, Drafting, Booking, Caught, Turn, Goto, Resting
  <2>2. I' /\ P' /\ mail' = mail
      BY <2>1, <1>q
  <2>3. H'
      BY <1>t, <2>1, <2>2, <1>m, <1>w DEF H
  <2> QED
      BY <2>1, <2>2, <2>3, <1>l, <1>u
<1>12. CASE BookFails \/ DraftFails
  <2>1. /\ UNCHANGED <<books, talk, acted, told, missed, unsure, crashes>>
        /\ failures < MaxFailures /\ failures' = failures + 1 /\ strays' \in {strays, strays + 1}
        /\ Turn(pc, "agent") \/ Turn(pc, "done")
      BY <1>12 DEF BookFails, DraftFails, Stray
  <2>2. I' /\ P' /\ mail' = mail
      BY <2>1, <1>q DEF Places
  <2>3. H'
      BY <1>t, <1>b, <2>1, <2>2, <1>w DEF H
  <2> QED
      BY <2>1, <2>2, <2>3, <1>l, <1>u
\* An intent is opened or its status changes.
<1>13. ASSUME NEW k \in {"trip", "auto", "steps", "invoice"}, NEW s \in Open, NEW there \in Places,
              NEW here, Goto(here, there), OpenIntent(k, s), pc \notin Resting
       PROVE  TypeOK'
  <2>1. /\ mail' = mail /\ UNCHANGED <<books, unread, listed, open, hand, fetched, outcome, seen>>
        /\ UNCHANGED <<acted, told, missed, strays, unsure, failures, crashes>>
        /\ processed' = processed \cup {hand} /\ talk' = [talk EXCEPT ![T].opener = hand]
      BY <1>13 DEF OpenIntent, gmail
  <2>2. P'
      BY <1>13, <1>t, <1>m, <1>h, <2>1 DEF P, Goto
  <2>3. H'
    <3>1. talk \in [Threads -> [opener : 0..MaxMail, to : 0..MaxMail, at : 0..MaxMail]]
        BY <1>t DEF H
    <3>2. T \in Threads /\ hand \in 0..MaxMail
        BY <1>13, <1>h, <1>b
    <3>3. talk' \in [Threads -> [opener : 0..MaxMail, to : 0..MaxMail, at : 0..MaxMail]]
        BY <2>1, <3>1, <3>2, TalkTyped
    <3> QED
        BY <1>t, <1>m, <2>1, <3>3 DEF H
  <2> QED
      BY <1>13, <1>k, <1>l, <1>u, <2>1, <2>2, <2>3
<1>14. CASE OpenTrip \/ Offer \/ OpenInvoice
    BY <1>13, <1>14 DEF OpenTrip, Offer, OpenInvoice, Goto, Places, Drafting, Open, Resting
<1>15. ASSUME NEW here, NEW there \in Places, Goto(here, there), Saved(T, "EXECUTING"), pc \notin Resting,
              UNCHANGED <<gmail, kind, processed, books, listed, open, hand, fetched, outcome, seen, history>>,
              status[T] # "none"
       PROVE  TypeOK'
  <2>1. I'
      BY <1>15, <1>j DEF States, Open
  <2>2. P'
      BY <1>15, <1>t, <1>m DEF P, Goto, gmail
  <2> QED
      BY <1>15, <2>1, <2>2, <1>l, <1>v, <1>u DEF gmail
<1>16. CASE Redo
    BY <1>15, <1>16 DEF Redo, Asked, Goto, Places, Resting
<1>17. CASE Approve
    BY <1>15, <1>17 DEF Approve, Asked, Goto, Places, Resting
<1>18. CASE Redone
  <2>1. /\ pc = "redo" /\ pc' = "settle" /\ outcome' = "AWAITING_APPROVAL" /\ mail' = mail /\ Show
        /\ UNCHANGED <<gmail, status, processed, idle, listed, open, hand, fetched, seen, books>>
        /\ UNCHANGED <<acted, told, missed, strays, unsure, failures, crashes>>
        /\ \E k \in {"auto", "steps"} : kind' = [kind EXCEPT ![T] = k]
      BY <1>18 DEF Redone, Goto, gmail
  <2>2. pc \notin Resting /\ T \in Threads /\ status[T] # "none"
      BY <1>h, <2>1 DEF Flow, Executing, Resting
  <2>3. I'
      BY <1>t, <2>1, <2>2 DEF I
  <2>4. P'
      BY <1>t, <1>m, <2>1 DEF P, gmail, Places, States, Open
  <2>5. H'
    <3>1. /\ acted \subseteq Mails /\ told \subseteq Mails /\ missed \subseteq Mails
          /\ strays \in Nat /\ unsure \in Nat /\ failures \in 0..MaxFailures /\ crashes \in 0..MaxCrashes
        BY <1>t DEF H
    <3> QED
        BY <1>w, <2>1, <2>2, <3>1
  <2> QED
      BY <1>l, <1>u, <2>1, <2>3, <2>4, <2>5
\* Answers.
<1>19. CASE Reject \/ Keep \/ NoPlan \/ Report \/ RefuseSend
  <2>1. UNCHANGED <<books, history>> /\ \E here \in Places, s \in States : Answer(here, s)
      BY <1>19 DEF Reject, Keep, NoPlan, Report, RefuseSend, Places, States, Terminal
  <2> QED
      BY <1>r, <1>l, <1>v, <1>u, <2>1
<1>20. CASE Confirm
  <2>1. UNCHANGED <<books, history>> /\ Answer("confirm", "COMPLETED") /\ "COMPLETED" \in States
      BY <1>20 DEF Confirm, States, Terminal
  <2> QED
      BY <1>r, <1>l, <1>v, <1>u, <2>1
<1>21. CASE Collect
  <2>1. /\ pc = "collect" /\ (UNCHANGED talk \/ (Show /\ pc \notin Resting))
        /\ UNCHANGED <<books, acted, told, missed, strays, unsure, failures, crashes>>
        /\ \E s \in States : Answer("collect", s)
      BY <1>21 DEF Collect, Answer, Goto, States, Open, Terminal, Resting, history
  <2>2. I' /\ P' /\ mail' = mail
      BY <1>r, <2>1
  <2>3. H'
    <3>1. /\ acted \subseteq Mails /\ told \subseteq Mails /\ missed \subseteq Mails
          /\ strays \in Nat /\ unsure \in Nat /\ failures \in 0..MaxFailures /\ crashes \in 0..MaxCrashes
        BY <1>t DEF H
    <3> QED
        BY <1>w, <2>1, <2>2, <3>1
  <2> QED
      BY <1>l, <1>u, <2>1, <2>2, <2>3
\* Histories of what was done and told.
<1>22. ASSUME UNCHANGED <<mail, talk>>, pc \notin Resting, acted' \in {acted, acted \cup {hand}},
              told' \in {told, told \cup {hand}}, missed' = missed, strays' \in {strays, strays + 1},
              unsure' \in {unsure, unsure + 1}, failures' = failures \/ (failures < MaxFailures /\ failures' = failures + 1),
              UNCHANGED crashes
       PROVE  H'
  <2>1. /\ acted \subseteq Mails /\ told \subseteq Mails /\ missed \subseteq Mails
        /\ strays \in Nat /\ unsure \in Nat /\ failures \in 0..MaxFailures /\ crashes \in 0..MaxCrashes
      BY <1>t DEF H
  <2>2. failures' \in 0..MaxFailures
      BY <1>b, <1>22, <2>1
  <2>3. acted' \subseteq Mails /\ told' \subseteq Mails
      BY <1>h, <1>22, <2>1
  <2> QED
      BY <1>w, <1>22, <2>1, <2>2, <2>3
<1>23. CASE Booked
  <2>1. Answer("booked", "COMPLETED") /\ "COMPLETED" \in States /\ pc \notin Resting
        /\ told' = told \cup {hand}
        /\ UNCHANGED <<books, talk, acted, missed, strays, unsure, failures, crashes>>
      BY <1>23 DEF Booked, Answer, Goto, Resting, States, Terminal
  <2>2. I' /\ P' /\ mail' = mail
      BY <1>r, <2>1
  <2> QED
      BY <1>22, <1>l, <1>u, <2>1, <2>2
<1>24. CASE Execute
  <2>1. Answer("execute", "COMPLETED") /\ "COMPLETED" \in States /\ pc \notin Resting
        /\ acted' = acted \cup {hand}
        /\ UNCHANGED <<books, talk, told, missed, strays, unsure, failures, crashes>>
      BY <1>24 DEF Execute, Act, Answer, Goto, Resting, States, Terminal
  <2>2. I' /\ P' /\ mail' = mail
      BY <1>r, <2>1
  <2> QED
      BY <1>22, <1>l, <1>u, <2>1, <2>2
\* The books.
<1>x. pc \notin Resting => drafts[T] \in Nat /\ sends[T] \in Nat
    BY <1>h, <1>t DEF B
<1>25. CASE Book
  <2>1. /\ Turn("book", "booked") /\ pc \notin Resting /\ "booked" \in Places
        /\ UNCHANGED <<invoices, drafts, ledger, fresh, sends, talk, acted, told, missed, strays,
                       unsure, crashes>>
        /\ failures' = failures \/ (failures < MaxFailures /\ failures' = failures + 1)
        /\ bookings' \in {bookings, [bookings EXCEPT ![hand] = @ + 1]}
      BY <1>25 DEF Book, Turn, Goto, Resting, Places, Booking
  <2>2. I' /\ P' /\ mail' = mail
      BY <1>q, <2>1
  <2>3. hand \in Numbers
      BY <1>h, <2>1, MailsAreNumbers
  <2>4. B'
      BY <1>t, <1>m, <2>1, <2>2, <2>3 DEF B
  <2> QED
      BY <1>22, <1>u, <2>1, <2>2, <2>4
<1>26. CASE Draft
  <2>1. /\ Turn("draft", "summary") /\ pc \notin Resting /\ "summary" \in Places
        /\ UNCHANGED <<invoices, ledger, fresh, sends, bookings, history>>
        /\ drafts' = [drafts EXCEPT ![T] = @ + 1]
      BY <1>26 DEF Draft, Turn, Goto, Resting, Places, Drafting
  <2>2. I' /\ P' /\ mail' = mail
      BY <1>q, <2>1
  <2>3. B'
      BY <1>t, <1>m, <1>h, <2>1, <2>2 DEF B
  <2> QED
      BY <1>v, <1>u, <2>1, <2>2, <2>3
<1>27. CASE RecordPending \/ ApproveSend \/ MarkSent
  <2>1. /\ pc \notin Resting /\ \E here, there \in Places : Turn(here, there)
        /\ UNCHANGED <<invoices, drafts, sends, bookings, history>>
        /\ \E s \in Live : ledger' = [ledger EXCEPT ![T] = s]
        /\ fresh' \in {fresh, fresh \cup {T}}
      BY <1>27 DEF RecordPending, ApproveSend, MarkSent, Asked, Turn, Goto, Resting, Places, Drafting, Live
  <2>2. I' /\ P' /\ mail' = mail
      BY <1>q, <2>1
  <2>3. B'
      BY <1>t, <1>m, <1>h, <2>1, <2>2 DEF B
  <2> QED
      BY <1>v, <1>u, <2>1, <2>2, <2>3
<1>28. CASE CreateInvoice
  <2>1. /\ Turn("run", "report") /\ pc \notin Resting /\ "report" \in Places
        /\ acted' = acted \cup {hand}
        /\ UNCHANGED <<drafts, ledger, fresh, sends, bookings, talk, told, missed, strays, unsure,
                       failures, crashes>>
        /\ \E during \in BOOLEAN :
             \/ invoices' = invoices
             \/ invoices' = Append(invoices, [by |-> hand, found |-> during])
      BY <1>28 DEF CreateInvoice, Act, Turn, Goto, Resting, Places
  <2>2. I' /\ P' /\ mail' = mail
      BY <1>q, <2>1
  <2>3. invoices' \in Seq([by : Mails, found : BOOLEAN])
    <3>1. invoices \in Seq([by : Mails, found : BOOLEAN]) /\ hand \in Mails
        BY <1>t, <1>h, <2>1 DEF B
    <3>2. \A d \in BOOLEAN : [by |-> hand, found |-> d] \in [by : Mails, found : BOOLEAN]
        BY <3>1
    <3>3. \A S, e : invoices \in Seq(S) /\ e \in S => Append(invoices, e) \in Seq(S)
        OBVIOUS
    <3>4. \A d \in BOOLEAN : Append(invoices, [by |-> hand, found |-> d]) \in Seq([by : Mails, found : BOOLEAN])
        BY <3>1, <3>2, <3>3
    <3> QED
        BY <2>1, <3>1, <3>4
  <2>4. B'
      BY <1>t, <1>m, <2>1, <2>2, <2>3 DEF B
  <2> QED
      BY <1>22, <1>u, <2>1, <2>2, <2>4
<1>29. CASE Send
  <2>1. /\ Turn("send", "sent") /\ pc \notin Resting /\ "sent" \in Places
        /\ acted' = acted \cup {hand} /\ sends' = [sends EXCEPT ![T] = @ + 1]
        /\ UNCHANGED <<invoices, drafts, ledger, fresh, bookings, talk, told, missed, strays,
                       unsure, failures, crashes>>
      BY <1>29 DEF Send, Act, Turn, Goto, Resting, Places
  <2>2. I' /\ P' /\ mail' = mail
      BY <1>q, <2>1
  <2>3. B'
      BY <1>t, <1>m, <1>h, <2>1, <2>2 DEF B
  <2> QED
      BY <1>22, <1>u, <2>1, <2>2, <2>3
<1>30. CASE Delete
  <2>1. /\ Turn("delete", "discard") /\ pc \notin Resting /\ "discard" \in Places
        /\ UNCHANGED <<invoices, ledger, fresh, sends, bookings, talk, acted, told, missed, unsure, crashes>>
        /\ strays' \in {strays, strays + 1}
        /\ failures' = failures \/ (failures < MaxFailures /\ failures' = failures + 1)
        /\ drafts' = drafts \/ drafts' = [drafts EXCEPT ![T] = IF @ > 0 THEN @ - 1 ELSE 0]
      BY <1>30 DEF Delete, Turn, Goto, Resting, Places
  <2>2. I' /\ P' /\ mail' = mail
      BY <1>q, <2>1
  <2>3. B'
      BY <1>t, <1>m, <1>h, <1>x, <2>1, <2>2 DEF B
  <2> QED
      BY <1>22, <1>u, <2>1, <2>2, <2>3
<1>31. CASE Discard
  <2>1. /\ Answer("discard", "DROPPED") /\ "DROPPED" \in States /\ pc \notin Resting
        /\ UNCHANGED <<invoices, drafts, fresh, sends, bookings, history>>
        /\ ledger' = [ledger EXCEPT ![T] = IF @ = "none" THEN @ ELSE "discarded"]
      BY <1>31 DEF Discard, Answer, Goto, Resting, States, Terminal
  <2>2. I' /\ P' /\ mail' = mail
      BY <1>r, <2>1
  <2>3. \E r \in Live \cup {"none", "discarded"} : ledger' = [ledger EXCEPT ![T] = r]
    <3>1. CASE ledger[T] = "none"
        BY <2>1, <3>1
    <3>2. CASE ledger[T] # "none"
        BY <2>1, <3>2
    <3> QED
        BY <3>1, <3>2
  <2>4. B'
      BY <1>t, <1>m, <1>h, <2>1, <2>2, <2>3 DEF B
  <2> QED
      BY <1>v, <1>u, <2>1, <2>2, <2>4
\* Failures, time and the operator.
<1>32. CASE Fail \/ Crash
  <2>1. /\ mail' = mail /\ UNCHANGED <<gmail, intents, books, talk, acted, told, missed>>
        /\ pc' = "idle" /\ listed' = {} /\ open' = {} /\ hand' = 0 /\ fetched' = {}
        /\ outcome' = "none" /\ seen' \in {seen, {}}
        /\ unsure' \in {unsure, unsure + 1} /\ strays' \in {strays, strays + 1}
        /\ failures' = failures \/ (failures < MaxFailures /\ failures' = failures + 1)
        /\ crashes' = crashes \/ (crashes < MaxCrashes /\ crashes' = crashes + 1)
      BY <1>32 DEF Fail, Crash, Stop, Stray, Release, gmail
  <2>2. P'
      BY <1>t, <1>m, <1>b, <2>1 DEF P, gmail, intents, Places, States
  <2>3. H'
    <3>1. /\ acted \subseteq Mails /\ told \subseteq Mails /\ missed \subseteq Mails
          /\ strays \in Nat /\ unsure \in Nat /\ failures \in 0..MaxFailures /\ crashes \in 0..MaxCrashes
        BY <1>t DEF H
    <3>2. failures' \in 0..MaxFailures /\ crashes' \in 0..MaxCrashes
        BY <1>b, <2>1, <3>1
    <3> QED
        BY <1>w, <2>1, <3>1, <3>2
  <2> QED
      BY <1>i, <1>l, <1>u, <2>1, <2>2, <2>3
<1>33. ASSUME NEW t \in Threads, NEW s \in Words \cup {"ask"}, Arrive(t, s) PROVE TypeOK'
  <2>1. PICK n \in Nat : n = Len(mail) + 1
      BY <1>b
  <2>2. /\ Mails' = Mails \cup {n} /\ Len(mail') = n /\ n <= MaxMail
        /\ mail' \in Seq([thread : Threads, says : Words \cup {"ask"}])
      BY <1>33, <2>1, NewMail
  <2>3. /\ unread' = unread \cup {n} /\ missed' \in {missed, missed \cup {n}}
        /\ UNCHANGED <<intents, books, poll, talk, acted, told, strays, unsure, failures, crashes>>
      BY <1>33, <2>1 DEF Arrive
  <2>4. I' /\ H'
      BY <1>t, <1>i, <2>2, <2>3 DEF H
  <2>5. P'
    <3>1. hand' \in 0..Len(mail')
        BY <1>t, <1>b, <2>1, <2>2, <2>3 DEF P, poll
    <3> QED
        BY <1>t, <2>2, <2>3, <3>1 DEF P, poll, intents
  <2>6. B'
    <3>1. invoices \in Seq([by : Mails, found : BOOLEAN]) /\ invoices' = invoices
        BY <1>t, <2>3 DEF B, books
    <3>2. invoices' \in Seq([by : Mails', found : BOOLEAN])
      <4>1. [by : Mails, found : BOOLEAN] \subseteq [by : Mails', found : BOOLEAN]
          BY <2>2
      <4> QED
          BY <3>1, <4>1, SeqMonotonic
    <3> QED
        BY <1>t, <2>3, <3>2 DEF B, books
  <2> QED
      BY <2>2, <2>4, <2>5, <2>6 DEF TypeOK, I, B, P, H, States
<1>34. CASE DayPasses \/ Midnight
  <2>1. /\ mail' = mail /\ fresh' = {} /\ UNCHANGED <<history, status, kind>>
        /\ UNCHANGED <<gmail, processed, poll, invoices, drafts, ledger, sends, bookings>>
        /\ idle' = {t \in Threads : status[t] \in Open} \/ idle' = idle
      BY <1>34 DEF DayPasses, Midnight, gmail, intents
  <2>2. I'
      BY <1>t, <2>1 DEF I
  <2>3. B'
      BY <1>t, <1>m, <2>1 DEF B
  <2> QED
      BY <1>p, <1>v, <1>u, <2>1, <2>2, <2>3
<1>35. CASE UNCHANGED vars
    BY <1>i, <1>l, <1>p, <1>v, <1>u, <1>35 DEF vars, gmail, intents
<1> QED
    BY <1>1, <1>2, <1>3, <1>4, <1>5, <1>6, <1>7, <1>8, <1>9, <1>10, <1>11, <1>12, <1>14, <1>16, <1>17,
       <1>18, <1>19, <1>20, <1>21, <1>23, <1>24, <1>25, <1>26, <1>27, <1>28, <1>29, <1>30, <1>31,
       <1>32, <1>33, <1>34, <1>35 DEF Next, Poll
-----------------------------------------------------------------------------
(* One invoice of a thread *)

LEMMA StandingInit == Init => Standing
<1> SUFFICES ASSUME Init PROVE Standing
    OBVIOUS
<1>1. \A t \in Threads : Invoiced(t) = {}
    BY DEF Init, Invoiced
<1> QED
    BY <1>1 DEF Init, Standing

\* Steps that neither approve a trip, nor answer, nor change an intent.
LEMMA Quiet ==
  ASSUME \/ StartPoll \/ EndNew \/ Done \/ (\E t \in Threads : Read(t) \/ SkipThread(t))
         \/ (\E m \in Mails : KnownThread(m)) \/ (\E m \in Mails, k \in Kinds : Dispatch(m, k))
         \/ Clarify \/ Stage \/ FindReceipt \/ Book \/ Attempt \/ Propose \/ RefuseDraft \/ Draft
         \/ Summary \/ RecordPending \/ Resume \/ Reask \/ SkipInvoice \/ ApproveSend \/ Send
         \/ MarkSent \/ RejectDraft \/ Delete \/ BookFails \/ DraftFails \/ Fail \/ Crash
         \/ DayPasses \/ Midnight
  PROVE  UNCHANGED <<mail, status, kind, invoices>> /\ pc' \notin {"run", "settle"}
<1>1. UNCHANGED <<mail, status, kind, invoices>>
    BY DEF StartPoll, EndNew, Done, DealtWith, Read, SkipThread, KnownThread, Dispatch, Clarify,
       Stage, FindReceipt, Book, Attempt, Propose, RefuseDraft, Draft, Summary, RecordPending,
       Resume, Reask, SkipInvoice, ApproveSend, Send, MarkSent, RejectDraft, Delete, BookFails,
       DraftFails, Fail, Crash, Stop, DayPasses, Midnight, Turn, gmail, intents, books
<1>2. ASSUME NEW m \in Mails, NEW k \in Kinds, Dispatch(m, k) PROVE pc' \notin {"run", "settle"}
  <2>1. k \in {"trip", "ad_hoc", "invoice", "other"}
      BY KindsAssumption
  <2> QED
      BY <1>2, <2>1 DEF Dispatch, Upcoming
<1>3. CASE \/ (\E t \in Threads : Read(t) \/ SkipThread(t)) \/ (\E m \in Mails : KnownThread(m))
           \/ (\E m \in Mails, k \in Kinds : Dispatch(m, k))
    BY <1>1, <1>2, <1>3 DEF Read, SkipThread, KnownThread, Upcoming
<1>4. CASE StartPoll \/ EndNew \/ Done \/ Fail \/ Crash \/ DayPasses \/ Midnight
    BY <1>1, <1>4 DEF StartPoll, EndNew, Done, DealtWith, Fail, Crash, Stop, DayPasses, Midnight, Goto, poll
<1>5. CASE Clarify \/ Stage \/ FindReceipt \/ Book \/ Attempt \/ Propose \/ RefuseDraft \/ Draft
           \/ Summary \/ RecordPending \/ Resume
    BY <1>1, <1>5 DEF Clarify, Stage, FindReceipt, Book, Attempt, Propose, RefuseDraft, Draft, Summary,
       RecordPending, Resume, Turn, Goto
<1>6. CASE \/ Reask \/ SkipInvoice \/ ApproveSend \/ Send \/ MarkSent \/ RejectDraft \/ Delete \/ BookFails
           \/ DraftFails
    BY <1>1, <1>6 DEF Reask, SkipInvoice, ApproveSend, Send, MarkSent, RejectDraft, Delete, BookFails,
       DraftFails, Turn, Goto
<1> QED
    BY <1>3, <1>4, <1>5, <1>6

LEMMA StandingStep == TypeOK /\ Flow /\ Standing /\ [Next]_vars => Standing'
<1> SUFFICES ASSUME TypeOK, Flow, Standing, [Next]_vars PROVE Standing'
    OBVIOUS
<1>s. status \in [Threads -> States] /\ kind \in [Threads -> {"none", "trip", "auto", "steps", "invoice"}]
    BY DEF TypeOK, States
<1>h. pc \notin Resting => hand \in Mails /\ T \in Threads
    BY InHand
<1>m. UNCHANGED <<mail, invoices>> => \A t \in Threads : Invoiced(t)' = Invoiced(t)
    BY DEF Invoiced
<1>1. ASSUME UNCHANGED <<mail, invoices>>,
             \A t \in Threads : \/ Invoiced(t) = {}
                                \/ status'[t] = status[t] /\ kind'[t] = kind[t]
                                \/ status'[t] \in {"EXECUTING"} \cup Terminal /\ kind'[t] = kind[t],
             pc' = "run" => T' \in Threads /\ Invoiced(T') = {},
             pc' = "settle" /\ outcome' \notin Terminal => T' \in Threads /\ Invoiced(T') = {}
      PROVE  Standing'
  <2>1. \A t \in Threads : Invoiced(t)' = Invoiced(t)
      BY <1>1, <1>m
  <2>2. \A t \in Threads : Invoiced(t)' # {} => kind'[t] = "trip" /\ status'[t] \in {"EXECUTING"} \cup Terminal
      BY <1>1, <2>1 DEF Standing
  <2>3. \A t \in Threads : \A i, j \in Invoiced(t)' : i = j
      BY <2>1 DEF Standing
  <2> QED
      BY <1>1, <1>m, <2>2, <2>3 DEF Standing
<1>2. ASSUME UNCHANGED <<mail, status, kind, invoices>>, pc' \notin {"run", "settle"} PROVE Standing'
    BY <1>1, <1>2
<1>3. ASSUME NEW t \in Threads, NEW s \in Words \cup {"ask"}, Arrive(t, s) PROVE Standing'
  <2>1. UNCHANGED <<intents, books, poll>> /\ \A m \in Mails : mail'[m] = mail[m]
      BY <1>3, NewMail DEF Arrive
  <2>2. \A i \in DOMAIN invoices : invoices[i].by \in Mails
    <3>1. ASSUME NEW i \in DOMAIN invoices PROVE invoices[i].by \in Mails
      <4>1. \A S : invoices \in Seq(S) => invoices[i] \in S
          BY <3>1, ElementOfSeq
      <4>2. invoices[i] \in [by : Mails, found : BOOLEAN]
          BY <4>1 DEF TypeOK
      <4> QED
          BY <4>2
    <3> QED
        BY <3>1
  <2>3. \A u \in Threads : Invoiced(u)' = Invoiced(u)
      BY <2>1, <2>2 DEF Invoiced, books
  <2>4. pc \notin Resting => T' = T
      BY <1>h, <2>1 DEF T, poll
  <2>5. pc \in {"run", "settle"} => pc \notin Resting
      BY DEF Resting
  <2> QED
      BY <1>h, <2>1, <2>3, <2>4, <2>5 DEF Standing, intents, poll
\* An intent is opened: there was none.
<1>4. CASE OpenTrip \/ Offer \/ OpenInvoice
  <2>1. /\ UNCHANGED <<mail, invoices>> /\ pc' \notin {"run", "settle"} /\ pc \in Unopened
        /\ \E k, s : status' = [status EXCEPT ![T] = s] /\ kind' = [kind EXCEPT ![T] = k]
      BY <1>4 DEF OpenTrip, Offer, OpenInvoice, OpenIntent, Saved, Goto, Unopened, gmail, books
  <2>2. pc \notin Resting /\ status[T] = "none"
      BY <2>1 DEF Flow, Unopened, Resting
  <2>3. Invoiced(T) = {}
      BY <1>h, <2>2 DEF Standing, Terminal
  <2>4. \A t \in Threads : t # T => status'[t] = status[t] /\ kind'[t] = kind[t]
      BY <1>s, <2>1
  <2> QED
      BY <1>1, <2>1, <2>3, <2>4
\* Answers: only a trip still in clarification stays open.
<1>5. CASE Booked \/ Reject \/ Keep \/ Execute \/ NoPlan \/ Report \/ RefuseSend \/ Confirm \/ Discard
  <2>1. UNCHANGED <<mail, status, kind, invoices>> /\ pc' = "settle" /\ outcome' \in Terminal
      BY <1>5 DEF Booked, Reject, Keep, Execute, NoPlan, Report, RefuseSend, Confirm, Discard, Answer,
         Goto, Terminal, gmail, intents, books
  <2> QED
      BY <1>1, <2>1
<1>6. CASE Collect
  <2>1. UNCHANGED <<mail, status, kind, invoices, hand>> /\ pc = "collect" /\ pc' = "settle"
      BY <1>6 DEF Collect, Answer, Goto, gmail, intents, books
  <2>2. T' = T /\ T \in Threads /\ status[T] = "AWAITING_CLARIFICATION"
      BY <1>h, <2>1 DEF T, Flow, Clarifying, Resting
  <2>3. Invoiced(T) = {}
      BY <2>2 DEF Standing, Terminal
  <2> QED
      BY <1>1, <2>1, <2>2, <2>3
<1>7. CASE Redone
  <2>1. UNCHANGED <<mail, status, invoices, hand>> /\ pc = "redo" /\ pc' = "settle"
        /\ \E k : kind' = [kind EXCEPT ![T] = k]
      BY <1>7 DEF Redone, Goto, gmail, books
  <2>2. T' = T /\ T \in Threads /\ kind[T] = "auto"
      BY <1>h, <2>1 DEF T, Flow, Resting
  <2>3. Invoiced(T) = {}
      BY <2>2 DEF Standing
  <2>4. \A t \in Threads : t # T => status'[t] = status[t] /\ kind'[t] = kind[t]
      BY <1>s, <2>1
  <2> QED
      BY <1>1, <2>1, <2>2, <2>3, <2>4
<1>8. CASE Settle
  <2>1. UNCHANGED <<mail, kind, invoices>> /\ pc = "settle" /\ pc' = "done"
        /\ status' = [status EXCEPT ![T] = outcome]
      BY <1>8 DEF Settle, Saved, Goto, gmail, books
  <2>2. T \in Threads
      BY <1>h, <2>1 DEF Resting
  <2>3. outcome \in Terminal \/ Invoiced(T) = {}
      BY <2>1 DEF Standing
  <2>4. \A t \in Threads : t # T => status'[t] = status[t] /\ kind'[t] = kind[t]
      BY <1>s, <2>1
  <2>5. status'[T] = outcome /\ kind'[T] = kind[T]
      BY <1>s, <2>1, <2>2
  <2> QED
      BY <1>1, <2>1, <2>3, <2>4, <2>5
<1>9. CASE Expire
  <2>1. UNCHANGED <<mail, kind, invoices>> /\ pc' = "idle"
        /\ \A t \in Threads : status'[t] \in {"EXPIRED", status[t]}
      BY <1>9 DEF Expire, Goto, gmail, books
  <2> QED
      BY <1>1, <2>1 DEF Terminal
<1>10. CASE Approve \/ Redo
  <2>1. /\ UNCHANGED <<mail, kind, invoices, hand>> /\ pc = "route" /\ pc' # "settle"
        /\ status[T] = "AWAITING_APPROVAL" /\ status' = [status EXCEPT ![T] = "EXECUTING"]
      BY <1>10 DEF Approve, Redo, Asked, Saved, Goto, gmail, books
  <2>2. T' = T /\ T \in Threads
      BY <1>h, <2>1 DEF T, Resting
  <2>3. Invoiced(T) = {}
      BY <2>1, <2>2 DEF Standing, Terminal
  <2>4. \A t \in Threads : t # T => status'[t] = status[t] /\ kind'[t] = kind[t]
      BY <1>s, <2>1
  <2> QED
      BY <1>1, <2>1, <2>2, <2>3, <2>4
\* The thread that gets an invoice had none.
<1>11. CASE CreateInvoice
  <2>1. /\ UNCHANGED <<mail, status, kind, hand>> /\ pc = "run" /\ pc' = "report"
        /\ \/ invoices' = invoices
           \/ \E during \in BOOLEAN : invoices' = Append(invoices, [by |-> hand, found |-> during])
      BY <1>11 DEF CreateInvoice, Turn, Goto, gmail, intents
  <2>2. T \in Threads /\ kind[T] = "trip" /\ status[T] = "EXECUTING" /\ Invoiced(T) = {}
      BY <1>h, <2>1 DEF Flow, Executing, Standing, Resting
  <2>3. CASE invoices' = invoices
      BY <1>2, <2>1, <2>3
  <2>4. ASSUME NEW during \in BOOLEAN, invoices' = Append(invoices, [by |-> hand, found |-> during])
        PROVE  Standing'
    <3>0. PICK n \in Nat : n = Len(invoices) + 1
        BY DEF TypeOK
    <3>1. /\ DOMAIN invoices' = DOMAIN invoices \cup {n} /\ n \notin DOMAIN invoices
          /\ invoices'[n].by = hand
          /\ \A i \in DOMAIN invoices : invoices'[i] = invoices[i]
        BY <2>4, <3>0 DEF TypeOK
    <3>2. Invoiced(T)' = {n}
      <4>1. \A i \in DOMAIN invoices : mail[invoices[i].by].thread # T
          BY <2>2 DEF Invoiced
      <4> QED
          BY <2>1, <3>1, <4>1 DEF Invoiced, T
    <3>3. ASSUME NEW t \in Threads, t # T PROVE Invoiced(t)' = Invoiced(t)
        BY <2>1, <3>1, <3>3 DEF Invoiced, T
    <3>4. ASSUME NEW t \in Threads
          PROVE  /\ Invoiced(t)' # {} => kind'[t] = "trip" /\ status'[t] \in {"EXECUTING"} \cup Terminal
                 /\ \A i, j \in Invoiced(t)' : i = j
      <4>1. CASE t = T
          BY <2>1, <2>2, <3>2, <4>1 DEF T
      <4>2. CASE t # T
          BY <2>1, <3>3, <4>2 DEF Standing
      <4> QED
          BY <4>1, <4>2
    <3> QED
        BY <2>1, <3>4 DEF Standing
  <2> QED
      BY <2>1, <2>3, <2>4
<1>12. CASE UNCHANGED vars
  <2>1. UNCHANGED <<mail, invoices, status, kind, pc, outcome>> /\ T' = T
      BY <1>12 DEF vars, gmail, intents, books, poll, T
  <2>2. pc \in {"run", "settle"} => T \in Threads
      BY <1>h DEF Resting
  <2> QED
      BY <1>m, <2>1, <2>2 DEF Standing
<1> QED
    BY <1>2, <1>3, <1>4, <1>5, <1>6, <1>7, <1>8, <1>9, <1>10, <1>11, <1>12, Quiet DEF Next, Poll

-----------------------------------------------------------------------------
(* One email of an invoice *)

LEMMA BalanceInit == Init => Balance
<1> QED
    BY DEF Init, Balance, Slack, InTheMail

Tallied == {"summary", "openinv", "record", "send", "sent", "discard"}

\* Steps between places where nothing is under way with an invoice of a request.
LEMMA Aside ==
  ASSUME TypeOK, Flow,
         \/ StartPoll \/ EndNew \/ Expire \/ Done \/ Settle \/ (\E t \in Threads : Read(t) \/ SkipThread(t))
         \/ (\E m \in Mails : KnownThread(m)) \/ (\E m \in Mails, k \in Kinds : Dispatch(m, k))
         \/ OpenTrip \/ Clarify \/ Stage \/ Collect \/ FindReceipt \/ Book \/ Booked \/ BookFails
         \/ Attempt \/ Offer \/ Propose \/ RefuseDraft \/ Resume \/ Reask \/ Redo \/ Redone \/ Reject
         \/ Keep \/ Approve \/ Execute \/ NoPlan \/ SkipInvoice \/ CreateInvoice \/ Report
         \/ RefuseSend \/ Confirm \/ RejectDraft \/ DayPasses \/ Midnight
  PROVE  /\ UNCHANGED <<sends, drafts, ledger, strays, unsure>>
         /\ pc \notin Tallied /\ pc' \notin Tallied
         /\ \A t \in Threads : status'[t] = "none" => status[t] = "none"
<1>s. status \in [Threads -> States]
    BY DEF TypeOK, States
<1>1. UNCHANGED <<sends, drafts, ledger, strays, unsure>>
    BY DEF StartPoll, EndNew, Expire, Done, DealtWith, Settle, Read, SkipThread, KnownThread, Dispatch,
       OpenTrip, OpenIntent, Clarify, Stage, Collect, FindReceipt, Book, Booked, BookFails, Attempt,
       Offer, Propose, RefuseDraft, Resume, Reask, Redo, Redone, Reject, Keep, Approve, Execute,
       NoPlan, SkipInvoice, CreateInvoice, Report, RefuseSend, Confirm, RejectDraft, DayPasses,
       Midnight, books, history
<1>2. pc \notin Tallied
    BY DEF StartPoll, EndNew, Expire, Done, DealtWith, Settle, Read, SkipThread, KnownThread, Dispatch,
       OpenTrip, Clarify, Stage, Collect, FindReceipt, Book, Booked, BookFails, Attempt,
       Offer, Propose, RefuseDraft, Resume, Reask, Redo, Redone, Reject, Keep, Approve, Execute,
       NoPlan, SkipInvoice, CreateInvoice, Report, RefuseSend, Confirm, RejectDraft, DayPasses,
       Midnight, Turn, Answer, Goto, Agent, Asked, Upcoming, Booking, Tallied
<1>3. pc' \notin Tallied
  <2>1. ASSUME NEW m \in Mails, NEW k \in Kinds, Dispatch(m, k) PROVE pc' \notin Tallied
    <3>1. k \in {"trip", "ad_hoc", "invoice", "other"}
        BY KindsAssumption
    <3> QED
        BY <2>1, <3>1, <1>2 DEF Dispatch, Tallied
  <2>2. CASE \/ (\E t \in Threads : Read(t) \/ SkipThread(t)) \/ (\E m \in Mails : KnownThread(m))
             \/ DayPasses \/ Midnight
      BY <1>2, <2>2 DEF Read, SkipThread, KnownThread, DayPasses, Midnight, poll, Tallied
  <2>3. CASE StartPoll \/ EndNew \/ Expire \/ Done \/ Settle \/ OpenTrip \/ Clarify \/ Stage \/ Collect
              \/ FindReceipt \/ Book \/ Booked \/ BookFails \/ Attempt \/ Offer \/ Propose \/ RefuseDraft
      BY <2>3 DEF StartPoll, EndNew, Expire, Done, DealtWith, Settle, OpenTrip, Clarify, Stage, Collect,
         FindReceipt, Book, Booked, BookFails, Attempt, Offer, Propose, RefuseDraft, Turn, Answer, Goto,
         Tallied
  <2>4. CASE Resume \/ Reask \/ Redo \/ Redone \/ Reject \/ Keep \/ Approve \/ Execute \/ NoPlan
              \/ SkipInvoice \/ CreateInvoice \/ Report \/ RefuseSend \/ Confirm \/ RejectDraft
      BY <2>4 DEF Resume, Reask, Redo, Redone, Reject, Keep, Approve, Execute, NoPlan, SkipInvoice,
         CreateInvoice, Report, RefuseSend, Confirm, RejectDraft, Turn, Answer, Goto, Tallied
  <2> QED
      BY <2>1, <2>2, <2>3, <2>4
<1>4. ASSUME NEW t \in Threads, status'[t] = "none" PROVE status[t] = "none"
  <2>1. CASE Settle
    <3>1. outcome # "none" /\ status' = [status EXCEPT ![T] = outcome]
        BY <2>1 DEF Settle, Saved, Goto, Flow, Terminal
    <3> QED
        BY <1>s, <1>4, <3>1
  <2>2. CASE Expire
      BY <1>4, <2>2 DEF Expire
  <2>3. CASE OpenTrip \/ Offer \/ Redo \/ Approve
    <3>1. \E x \in Open : status' = [status EXCEPT ![T] = x]
        BY <2>3 DEF OpenTrip, Offer, OpenIntent, Redo, Approve, Saved, Open
    <3> QED
        BY <1>s, <1>4, <3>1 DEF Open
  <2>4. CASE ~Settle /\ ~Expire /\ ~OpenTrip /\ ~Offer /\ ~Redo /\ ~Approve
    <3>1. status' = status
        BY <2>4 DEF StartPoll, EndNew, Done, DealtWith, Read, SkipThread, KnownThread, Dispatch, Clarify,
           Stage, Collect, FindReceipt, Book, Booked, BookFails, Attempt, Propose, RefuseDraft, Resume,
           Reask, Redone, Reject, Keep, Execute, NoPlan, SkipInvoice, CreateInvoice, Report,
           RefuseSend, Confirm, RejectDraft, DayPasses, Midnight, Turn, Answer, intents
    <3> QED
        BY <1>4, <3>1
  <2> QED
      BY <2>1, <2>2, <2>3, <2>4
<1> QED
    BY <1>1, <1>2, <1>3, <1>4

LEMMA BalanceStep == TypeOK /\ Flow /\ Balance /\ [Next]_vars => Balance'
<1> SUFFICES ASSUME TypeOK, Flow, Balance, [Next]_vars PROVE Balance'
    OBVIOUS
<1>h. pc \notin Resting => hand \in Mails /\ T \in Threads
    BY InHand
<1>t. /\ sends \in [Threads -> Nat] /\ drafts \in [Threads -> Nat] /\ strays \in Nat /\ unsure \in Nat
      /\ ledger \in [Threads -> Live \cup {"none", "discarded"}] /\ status \in [Threads -> States]
    BY DEF TypeOK, States
<1>1. ASSUME UNCHANGED <<sends, drafts, ledger>>, pc' \notin Tallied,
             strays' \in {strays, strays + 1}, unsure' \in {unsure, unsure + 1},
             pc = "sent" => unsure' = unsure + 1,
             pc \in {"summary", "openinv"} => strays' = strays + 1,
             \A t \in Threads : status'[t] = "none" => status[t] = "none"
      PROVE  Balance'
  <2>1. ASSUME NEW t \in Threads
        PROVE  /\ sends'[t] <= 1 + Slack'
               /\ sends'[t] + drafts'[t] <= 2 + Slack'
               /\ ledger'[t] # "sent" => sends'[t] + drafts'[t] <= 1 + Slack'
               /\ status'[t] = "none" =>
                    sends'[t] = 0 /\ ledger'[t] = "none" /\ drafts'[t] <= strays'
    <3>1. sends[t] \in Nat /\ drafts[t] \in Nat
        BY <1>t
    <3> QED
        BY <1>1, <1>t, <3>1 DEF Balance, Slack, InTheMail
  <2> QED
      BY <1>1, <2>1 DEF Balance, InTheMail, Tallied
<1>2. CASE \/ StartPoll \/ EndNew \/ Expire \/ Done \/ Settle \/ (\E t \in Threads : Read(t) \/ SkipThread(t))
           \/ (\E m \in Mails : KnownThread(m)) \/ (\E m \in Mails, k \in Kinds : Dispatch(m, k))
           \/ OpenTrip \/ Clarify \/ Stage \/ Collect \/ FindReceipt \/ Book \/ Booked \/ BookFails
           \/ Attempt \/ Offer \/ Propose \/ RefuseDraft \/ Resume \/ Reask \/ Redo \/ Redone \/ Reject
           \/ Keep \/ Approve \/ Execute \/ NoPlan \/ SkipInvoice \/ CreateInvoice \/ Report
           \/ RefuseSend \/ Confirm \/ RejectDraft \/ DayPasses \/ Midnight
  <2>1. /\ UNCHANGED <<sends, drafts, ledger, strays, unsure>>
        /\ pc \notin Tallied /\ pc' \notin Tallied
        /\ \A t \in Threads : status'[t] = "none" => status[t] = "none"
      BY <1>2, Aside
  <2> QED
      BY <1>1, <2>1 DEF Tallied
<1>3. CASE DraftFails \/ Fail \/ Crash
  <2>1. UNCHANGED <<sends, drafts, ledger, status>> /\ pc' \in {"idle", "done"}
      BY <1>3 DEF DraftFails, Fail, Crash, Stop, Turn, Goto, books, intents
  <2>2. /\ strays' \in {strays, strays + 1} /\ unsure' \in {unsure, unsure + 1}
        /\ pc = "sent" => unsure' = unsure + 1
        /\ pc \in {"summary", "openinv"} => strays' = strays + 1
      BY <1>3 DEF DraftFails, Fail, Crash, Stop, Stray, Drafting
  <2> QED
      BY <1>1, <2>1, <2>2 DEF Tallied
\* One thread at a time: the others keep their counts and are not in the mail.
<1>4. ASSUME pc \notin Resting, UNCHANGED <<mail, hand, strays, unsure>>, NEW a \in Nat, NEW d \in Nat, NEW r,
             sends' = [sends EXCEPT ![T] = a], drafts' = [drafts EXCEPT ![T] = d],
             ledger' = [ledger EXCEPT ![T] = r],
             \A t \in Threads : t # T => status'[t] = status[t],
             a <= 1 + Slack, a + d <= 2 + Slack,
             r = "sent" \/ pc' = "sent" \/ a + d <= 1 + Slack,
             status'[T] = "none" =>
               a = 0 /\ r = "none" /\ d <= IF pc' \in {"summary", "openinv"} THEN strays + 1 ELSE strays,
             pc' = "send" => r = "approved",
             pc' = "discard" => a + d <= 1 + Slack,
             pc' = "record" => a = 0 /\ r = "none" /\ d <= strays + 1
      PROVE  Balance'
  <2>0. T \in Threads /\ T' = T /\ Slack' = Slack
      BY <1>4, <1>h DEF T, Slack
  <2>1. sends'[T] = a /\ drafts'[T] = d /\ ledger'[T] = r
      BY <1>4, <1>t, <2>0
  <2>2. ASSUME NEW t \in Threads
        PROVE  /\ sends'[t] <= 1 + Slack'
               /\ sends'[t] + drafts'[t] <= 2 + Slack'
               /\ ~InTheMail(t)' => sends'[t] + drafts'[t] <= 1 + Slack'
               /\ status'[t] = "none" =>
                    /\ sends'[t] = 0 /\ ledger'[t] = "none"
                    /\ drafts'[t] <= IF pc' \in {"summary", "openinv"} /\ T' = t THEN strays' + 1 ELSE strays'
    <3>1. CASE t = T
        BY <1>4, <2>0, <2>1, <3>1 DEF InTheMail
    <3>2. CASE t # T
      <4>1. sends'[t] = sends[t] /\ drafts'[t] = drafts[t] /\ ledger'[t] = ledger[t] /\ status'[t] = status[t]
          BY <1>4, <1>t, <3>2
      <4> QED
          BY <1>4, <2>0, <3>2, <4>1 DEF Balance, InTheMail
    <3> QED
        BY <3>1, <3>2
  <2> QED
      BY <1>4, <2>0, <2>1, <2>2 DEF Balance
<1>c. ASSUME pc \notin Resting
      PROVE  /\ sends[T] \in Nat /\ drafts[T] \in Nat /\ Slack \in Nat /\ strays <= Slack
             /\ sends = [sends EXCEPT ![T] = sends[T]] /\ drafts = [drafts EXCEPT ![T] = drafts[T]]
             /\ ledger = [ledger EXCEPT ![T] = ledger[T]]
    BY <1>c, <1>h, <1>t DEF Slack
<1> DEFINE m == sends[T]
           n == drafts[T]
<1>5. CASE Draft
  <2>1. /\ pc = "draft" /\ pc' = "summary" /\ UNCHANGED <<mail, hand, strays, unsure, sends, ledger, status>>
        /\ drafts' = [drafts EXCEPT ![T] = n + 1]
      BY <1>5 DEF Draft, Turn, Goto, gmail, intents, history
  <2>2. pc \notin Resting /\ T \in Threads /\ status[T] = "none"
      BY <1>h, <2>1 DEF Flow, Resting, Unopened
  <2>3. m = 0 /\ ledger[T] = "none" /\ n <= strays
      BY <2>1, <2>2 DEF Balance
  <2>4. m \in Nat /\ n + 1 \in Nat /\ m <= 1 + Slack /\ m + (n + 1) <= 1 + Slack /\ m + (n + 1) <= 2 + Slack
      BY <1>c, <1>t, <2>2, <2>3
  <2>5. n + 1 <= strays + 1
      BY <1>t, <2>2, <2>3
  <2>6. /\ sends' = [sends EXCEPT ![T] = m] /\ ledger' = [ledger EXCEPT ![T] = "none"]
        /\ UNCHANGED <<mail, hand, strays, unsure, status>>
      BY <1>c, <2>1, <2>2, <2>3
  <2> HIDE DEF m, n
  <2> QED
      BY <1>4, <2>1, <2>2, <2>3, <2>4, <2>5, <2>6
<1>6. CASE Summary
  <2>1. /\ pc = "summary" /\ pc' = "openinv"
        /\ UNCHANGED <<mail, hand, strays, unsure, sends, drafts, ledger, status>>
      BY <1>6 DEF Summary, Turn, Goto, gmail, intents, books
  <2>2. pc \notin Resting /\ T \in Threads /\ status[T] = "none"
      BY <1>h, <2>1 DEF Flow, Resting, Unopened
  <2>3. m = 0 /\ ledger[T] = "none" /\ n <= strays + 1
      BY <2>1, <2>2 DEF Balance
  <2>4. m \in Nat /\ n \in Nat /\ m <= 1 + Slack /\ m + n <= 1 + Slack /\ m + n <= 2 + Slack
      BY <1>c, <1>t, <2>2, <2>3
  <2> QED
      BY <1>4, <1>c, <2>1, <2>2, <2>3, <2>4
<1>7. CASE OpenInvoice
  <2>1. /\ pc = "openinv" /\ pc' = "record"
        /\ UNCHANGED <<mail, hand, strays, unsure, sends, drafts, ledger>>
        /\ status' = [status EXCEPT ![T] = "AWAITING_APPROVAL"]
      BY <1>7 DEF OpenInvoice, OpenIntent, Saved, Goto, gmail, books
  <2>2. pc \notin Resting /\ T \in Threads /\ status[T] = "none"
      BY <1>h, <2>1 DEF Flow, Resting, Unopened
  <2>3. m = 0 /\ ledger[T] = "none" /\ n <= strays + 1
      BY <2>1, <2>2 DEF Balance
  <2>4. m \in Nat /\ n \in Nat /\ m <= 1 + Slack /\ m + n <= 1 + Slack /\ m + n <= 2 + Slack
      BY <1>c, <1>t, <2>2, <2>3
  <2>5. status'[T] # "none" /\ \A t \in Threads : t # T => status'[t] = status[t]
      BY <1>t, <2>1, <2>2
  <2> QED
      BY <1>4, <1>c, <2>1, <2>2, <2>3, <2>4, <2>5
<1>8. CASE RecordPending
  <2>1. /\ pc = "record" /\ pc' = "done" /\ UNCHANGED <<mail, hand, strays, unsure, sends, drafts, status>>
        /\ ledger' = [ledger EXCEPT ![T] = "pending"]
      BY <1>8 DEF RecordPending, Turn, Goto, gmail, intents, history
  <2>2. pc \notin Resting /\ status[T] # "none"
      BY <2>1 DEF Flow, Resting, Deciding
  <2>3. m = 0 /\ n <= strays + 1
      BY <2>1 DEF Balance
  <2>4. m \in Nat /\ n \in Nat /\ m <= 1 + Slack /\ m + n <= 1 + Slack /\ m + n <= 2 + Slack
      BY <1>c, <1>t, <2>2, <2>3
  <2> QED
      BY <1>4, <1>c, <2>1, <2>2, <2>4
<1>9. CASE ApproveSend
  <2>1. /\ pc = "route" /\ pc' = "send" /\ UNCHANGED <<mail, hand, strays, unsure, sends, drafts, status>>
        /\ ledger' = [ledger EXCEPT ![T] = "approved"]
        /\ status[T] # "none" /\ ledger[T] # "sent"
      BY <1>9 DEF ApproveSend, AlreadySent, Asked, Turn, Goto, gmail, intents, history
  <2>2. pc \notin Resting /\ T \in Threads
      BY <1>h, <2>1 DEF Resting
  <2>3. m <= 1 + Slack /\ m + n <= 1 + Slack /\ m + n <= 2 + Slack
      BY <2>1, <2>2 DEF Balance, InTheMail
  <2> QED
      BY <1>4, <1>c, <2>1, <2>2, <2>3
<1>10. CASE Send
  <2>1. /\ pc = "send" /\ pc' = "sent" /\ UNCHANGED <<mail, hand, strays, unsure, drafts, ledger, status>>
        /\ sends' = [sends EXCEPT ![T] = m + 1] /\ n > 0
      BY <1>10 DEF Send, Turn, Goto, gmail, intents
  <2>2. pc \notin Resting /\ T \in Threads /\ status[T] # "none"
      BY <1>h, <2>1 DEF Flow, Resting, Deciding
  <2>3. ledger[T] = "approved" /\ m + n <= 1 + Slack
      BY <2>1, <2>2 DEF Balance, InTheMail
  <2>4. m + 1 \in Nat /\ m + 1 <= 1 + Slack /\ (m + 1) + n <= 2 + Slack
      BY <1>c, <2>1, <2>2, <2>3
  <2> QED
      BY <1>4, <1>c, <2>1, <2>2, <2>4
<1>11. CASE MarkSent
  <2>1. /\ pc = "sent" /\ pc' = "confirm" /\ UNCHANGED <<mail, hand, strays, unsure, sends, drafts, status>>
        /\ ledger' = [ledger EXCEPT ![T] = "sent"]
      BY <1>11 DEF MarkSent, Turn, Goto, gmail, intents, history
  <2>2. pc \notin Resting /\ T \in Threads /\ status[T] # "none"
      BY <1>h, <2>1 DEF Flow, Resting, Deciding
  <2>3. m <= 1 + Slack /\ m + n <= 2 + Slack
      BY <2>2 DEF Balance
  <2> QED
      BY <1>4, <1>c, <2>1, <2>2, <2>3
\* A draft is deleted, or counted as astray.
<1>12. CASE Delete
  <2>1. /\ pc = "delete" /\ pc' = "discard" /\ UNCHANGED <<mail, hand, unsure, sends, ledger, status>>
        /\ \/ drafts' = [drafts EXCEPT ![T] = IF n > 0 THEN n - 1 ELSE 0] /\ strays' = strays
           \/ drafts' = drafts /\ strays' = strays + 1
      BY <1>12 DEF Delete, Turn, Goto, gmail, intents
  <2>2. pc \notin Resting /\ T \in Threads /\ status[T] # "none"
      BY <1>h, <2>1 DEF Flow, Resting, Deciding
  <2>3. /\ m <= 1 + Slack /\ m + n <= 2 + Slack
        /\ ledger[T] # "sent" => m + n <= 1 + Slack
      BY <2>1, <2>2 DEF Balance, InTheMail
  <2>4. CASE drafts' = [drafts EXCEPT ![T] = IF n > 0 THEN n - 1 ELSE 0] /\ strays' = strays
    <3>1. CASE n > 0
      <4>1. m \in Nat /\ n - 1 \in Nat /\ m + (n - 1) <= 1 + Slack /\ m + (n - 1) <= 2 + Slack
          BY <1>c, <2>2, <2>3, <3>1
      <4>2. drafts' = [drafts EXCEPT ![T] = n - 1]
          BY <2>4, <3>1
      <4> QED
          BY <1>4, <1>c, <2>1, <2>2, <2>3, <2>4, <4>1, <4>2
    <3>2. CASE ~(n > 0)
      <4>1. m \in Nat /\ m + 0 <= 1 + Slack /\ m + 0 <= 2 + Slack
          BY <1>c, <2>2, <2>3
      <4>2. drafts' = [drafts EXCEPT ![T] = 0]
          BY <2>4, <3>2
      <4> QED
          BY <1>4, <1>c, <2>1, <2>2, <2>3, <2>4, <4>1, <4>2
    <3> QED
        BY <3>1, <3>2
  <2>5. CASE drafts' = drafts /\ strays' = strays + 1
    <3>1. T' = T /\ Slack' = Slack + 1 /\ Slack \in Nat
        BY <1>c, <1>t, <2>1, <2>2, <2>5 DEF T, Slack
    <3>2. ASSUME NEW t \in Threads
          PROVE  /\ sends'[t] <= 1 + Slack'
                 /\ sends'[t] + drafts'[t] <= 2 + Slack'
                 /\ ~InTheMail(t)' => sends'[t] + drafts'[t] <= 1 + Slack'
                 /\ status'[t] = "none" =>
                      /\ sends'[t] = 0 /\ ledger'[t] = "none" /\ drafts'[t] <= strays'
                 /\ sends'[t] + drafts'[t] <= 1 + Slack'
      <4>1. sends[t] \in Nat /\ drafts[t] \in Nat
          BY <1>t
      <4> QED
          BY <1>t, <2>1, <2>5, <3>1, <4>1 DEF Balance
    <3> QED
        BY <2>1, <2>2, <3>1, <3>2 DEF Balance
  <2> QED
      BY <2>1, <2>4, <2>5
<1>13. CASE Discard
  <2>1. /\ pc = "discard" /\ pc' = "settle" /\ UNCHANGED <<mail, hand, strays, unsure, sends, drafts, status>>
        /\ ledger' = [ledger EXCEPT ![T] = IF ledger[T] = "none" THEN ledger[T] ELSE "discarded"]
      BY <1>13 DEF Discard, Answer, Goto, gmail, intents, history
  <2>2. pc \notin Resting /\ T \in Threads /\ status[T] # "none"
      BY <1>h, <2>1 DEF Flow, Resting, Deciding
  <2>3. m <= 1 + Slack /\ m + n <= 1 + Slack /\ m + n <= 2 + Slack
      BY <2>1, <2>2 DEF Balance
  <2> QED
      BY <1>4, <1>c, <2>1, <2>2, <2>3
<1>14. CASE (\E t \in Threads, s \in Words \cup {"ask"} : Arrive(t, s)) \/ UNCHANGED vars
  <2>1. UNCHANGED <<pc, status, sends, drafts, ledger, strays, unsure, hand>>
      BY <1>14 DEF Arrive, vars, intents, books, poll, history
  <2>2. pc \notin Resting => T' = T
      BY <1>h, <1>14, <2>1, NewMail DEF T, vars, gmail
  <2>3. pc \in Tallied => pc \notin Resting
      BY DEF Tallied, Resting
  <2> QED
      BY <2>1, <2>2, <2>3 DEF Balance, Slack, InTheMail, Tallied
<1> QED
    BY <1>2, <1>3, <1>5, <1>6, <1>7, <1>8, <1>9, <1>10, <1>11, <1>12, <1>13, <1>14 DEF Next, Poll

-----------------------------------------------------------------------------
(* One invoice of a request *)

AtMost(S, n) == IsFiniteSet(S) /\ Cardinality(S) <= n

LEMMA AtMostPart ==
  ASSUME NEW n \in Nat, NEW k \in Nat, n <= k, NEW S, AtMost(S, n), NEW R \in SUBSET S
  PROVE  AtMost(R, k)
<1>1. IsFiniteSet(R) /\ Cardinality(R) <= Cardinality(S)
    BY FS_Subset DEF AtMost
<1>2. Cardinality(R) \in Nat /\ Cardinality(S) \in Nat
    BY <1>1, FS_CardinalityType DEF AtMost
<1> QED
    BY <1>1, <1>2 DEF AtMost

LEMMA AtMostMore ==
  ASSUME NEW n \in Nat, NEW S, AtMost(S, n), NEW x PROVE AtMost(S \cup {x}, n + 1)
<1>1. Cardinality(S) \in Nat
    BY FS_CardinalityType DEF AtMost
<1>2. IsFiniteSet(S \cup {x})
      /\ Cardinality(S \cup {x}) = IF x \in S THEN Cardinality(S) ELSE Cardinality(S) + 1
    BY FS_AddElement DEF AtMost
<1> QED
    BY <1>1, <1>2 DEF AtMost

LEMMA AtMostLess ==
  ASSUME NEW n \in Nat, NEW S, AtMost(S, n + 1), NEW x \in S PROVE AtMost(S \ {x}, n)
<1>1. Cardinality(S) \in Nat
    BY FS_CardinalityType DEF AtMost
<1>2. IsFiniteSet(S \ {x}) /\ Cardinality(S \ {x}) = Cardinality(S) - 1
    BY FS_RemoveElement DEF AtMost
<1> QED
    BY <1>1, <1>2 DEF AtMost

\* The invoices the threads of S have when they have d.
Pairs(d, S) == UNION {{t} \X (1..d[t]) : t \in S}

LEMMA PairsIn ==
  ASSUME NEW d, NEW S, NEW x
  PROVE  x \in Pairs(d, S) <=> \E t \in S : \E i \in 1..d[t] : x = <<t, i>>
<1> QED
    BY DEF Pairs

LEMMA PairsPart ==
  ASSUME NEW d, NEW S, NEW R \in SUBSET S PROVE Pairs(d, R) \subseteq Pairs(d, S)
<1> QED
    BY PairsIn

\* One invoice more, or the last one less, of a thread of S.
LEMMA PairsMore ==
  ASSUME NEW d \in [Threads -> Nat], NEW S \in SUBSET Threads, NEW t \in Threads
  PROVE  Pairs([d EXCEPT ![t] = d[t] + 1], S) \subseteq Pairs(d, S) \cup {<<t, d[t] + 1>>}
<1> DEFINE e == [d EXCEPT ![t] = d[t] + 1]
<1>1. \A u \in Threads : d[u] \in Nat /\ e[u] = IF u = t THEN d[t] + 1 ELSE d[u]
    OBVIOUS
<1>2. ASSUME NEW u \in S, NEW i \in 1..e[u] PROVE i \in 1..d[u] \/ (u = t /\ i = d[t] + 1)
    BY <1>1, <1>2
<1> HIDE DEF e
<1>3. ASSUME NEW x \in Pairs(e, S) PROVE x \in Pairs(d, S) \cup {<<t, d[t] + 1>>}
  <2>1. PICK u \in S : \E i \in 1..e[u] : x = <<u, i>>
      BY <1>3, PairsIn
  <2> QED
      BY <1>2, <2>1, PairsIn
<1> QED
    BY <1>3 DEF e

LEMMA PairsLess ==
  ASSUME NEW d \in [Threads -> Nat], NEW S \in SUBSET Threads, NEW t \in Threads, d[t] > 0
  PROVE  /\ Pairs([d EXCEPT ![t] = d[t] - 1], S) \subseteq Pairs(d, S) \ {<<t, d[t]>>}
         /\ t \in S => <<t, d[t]>> \in Pairs(d, S)
<1> DEFINE e == [d EXCEPT ![t] = d[t] - 1]
<1>1. \A u \in Threads : d[u] \in Nat /\ e[u] = IF u = t THEN d[t] - 1 ELSE d[u]
    OBVIOUS
<1>2. ASSUME NEW u \in S, NEW i \in 1..e[u] PROVE i \in 1..d[u] /\ <<u, i>> # <<t, d[t]>>
    BY <1>1, <1>2
<1>3. t \in S => <<t, d[t]>> \in Pairs(d, S)
    BY <1>1, PairsIn
<1> HIDE DEF e
<1>4. ASSUME NEW x \in Pairs(e, S) PROVE x \in Pairs(d, S) \ {<<t, d[t]>>}
  <2>1. PICK u \in S : \E i \in 1..e[u] : x = <<u, i>>
      BY <1>4, PairsIn
  <2> QED
      BY <1>2, <2>1, PairsIn
<1> QED
    BY <1>3, <1>4 DEF e

\* The places where a draft has been made and its row has not.
Drawn == {"summary", "openinv", "record"}

\* The threads that may still get a row of this day.
Unasked == {t \in Threads : status[t] = "none"}
Counted == fresh \cup Unasked \cup (IF pc = "record" THEN {T} ELSE {})

\* A row of S stands in the way of a second draft, and its own exists.
InForce(S) == \E t \in S : ledger[t] \in Live /\ drafts[t] > 0

\* The drafts beyond the strays: one at most, which has a row or gets it.
OnRecord ==
  /\ AtMost(Pairs(drafts, Counted), strays + 1)
  /\ pc \notin {"summary", "openinv"} => AtMost(Pairs(drafts, Unasked), strays)
  /\ pc \in Drawn => drafts[T] > 0
  /\ pc \notin Drawn =>
       \/ AtMost(Pairs(drafts, Counted), strays)
       \/ InForce(IF pc = "discard" THEN fresh \ {T} ELSE fresh)

LEMMA OnRecordInit == Init => OnRecord
<1> SUFFICES ASSUME Init PROVE OnRecord
    OBVIOUS
<1>1. \A S \in SUBSET Threads : Pairs(drafts, S) = {}
    BY PairsIn DEF Init
<1>2. Counted \subseteq Threads /\ Unasked \subseteq Threads
    BY DEF Init, Counted, Unasked
<1>3. AtMost({}, 0) /\ AtMost({}, 0 + 1)
    BY FS_EmptySet DEF AtMost
<1> QED
    BY <1>1, <1>2, <1>3 DEF Init, OnRecord, Drawn

\* The rows of this day stay, or all become old.
LEMMA AsideFresh ==
  ASSUME \/ StartPoll \/ EndNew \/ Expire \/ Done \/ Settle \/ (\E t \in Threads : Read(t) \/ SkipThread(t))
         \/ (\E m \in Mails : KnownThread(m)) \/ (\E m \in Mails, k \in Kinds : Dispatch(m, k))
         \/ OpenTrip \/ Clarify \/ Stage \/ Collect \/ FindReceipt \/ Book \/ Booked \/ BookFails
         \/ Attempt \/ Offer \/ Propose \/ RefuseDraft \/ Resume \/ Reask \/ Redo \/ Redone \/ Reject
         \/ Keep \/ Approve \/ Execute \/ NoPlan \/ SkipInvoice \/ CreateInvoice \/ Report
         \/ RefuseSend \/ Confirm \/ RejectDraft \/ DayPasses \/ Midnight
  PROVE  fresh' \in {fresh, {}}
<1> QED
    BY DEF StartPoll, EndNew, Expire, Done, DealtWith, Settle, Read, SkipThread, KnownThread, Dispatch,
       OpenTrip, OpenIntent, Clarify, Stage, Collect, FindReceipt, Book, Booked, BookFails, Attempt,
       Offer, Propose, RefuseDraft, Resume, Reask, Redo, Redone, Reject, Keep, Approve, Execute,
       NoPlan, SkipInvoice, CreateInvoice, Report, RefuseSend, Confirm, RejectDraft, DayPasses,
       Midnight, books

LEMMA OnRecordStep == TypeOK /\ Flow /\ OnRecord /\ [Next]_vars => OnRecord'
<1> SUFFICES ASSUME TypeOK, Flow, OnRecord, [Next]_vars PROVE OnRecord'
    OBVIOUS
<1>h. pc \notin Resting => hand \in Mails /\ T \in Threads
    BY InHand
<1>t. /\ drafts \in [Threads -> Nat] /\ strays \in Nat /\ strays + 1 \in Nat /\ fresh \subseteq Threads
      /\ ledger \in [Threads -> Live \cup {"none", "discarded"}] /\ status \in [Threads -> States]
    BY DEF TypeOK, States
<1>c. Counted \subseteq Threads /\ Unasked \subseteq Counted
    BY <1>h, <1>t DEF Counted, Unasked, Resting
<1>o. /\ AtMost(Pairs(drafts, Counted), strays + 1)
      /\ pc \notin {"summary", "openinv"} => AtMost(Pairs(drafts, Unasked), strays)
    BY DEF OnRecord
\* No draft is made, and none is on its way to a row.
<1>1. ASSUME UNCHANGED <<drafts, ledger, strays, fresh>>, Unasked' \subseteq Unasked,
             pc \notin Drawn, pc' \notin Drawn \cup {"discard"}
      PROVE  OnRecord'
  <2>1. Counted' \subseteq Counted
      BY <1>1 DEF Counted, Drawn
  <2>2. /\ AtMost(Pairs(drafts, Counted'), strays + 1) /\ AtMost(Pairs(drafts, Unasked'), strays)
        /\ AtMost(Pairs(drafts, Counted), strays) => AtMost(Pairs(drafts, Counted'), strays)
      BY <1>1, <1>o, <1>t, <2>1, PairsPart, AtMostPart DEF Drawn
  <2>3. InForce(fresh)' \/ AtMost(Pairs(drafts, Counted'), strays)
      BY <1>1, <2>2 DEF OnRecord, InForce
  <2> QED
      BY <1>1, <2>2, <2>3 DEF OnRecord, Drawn
<1>2. CASE \/ StartPoll \/ EndNew \/ Expire \/ Done \/ Settle \/ (\E t \in Threads : Read(t) \/ SkipThread(t))
           \/ (\E m \in Mails : KnownThread(m)) \/ (\E m \in Mails, k \in Kinds : Dispatch(m, k))
           \/ OpenTrip \/ Clarify \/ Stage \/ Collect \/ FindReceipt \/ Book \/ Booked \/ BookFails
           \/ Attempt \/ Offer \/ Propose \/ RefuseDraft \/ Resume \/ Reask \/ Redo \/ Redone \/ Reject
           \/ Keep \/ Approve \/ Execute \/ NoPlan \/ SkipInvoice \/ CreateInvoice \/ Report
           \/ RefuseSend \/ Confirm \/ RejectDraft \/ DayPasses \/ Midnight
  <2>1. /\ UNCHANGED <<drafts, ledger, strays>> /\ Unasked' \subseteq Unasked
        /\ pc \notin Drawn \cup {"discard"} /\ pc' \notin Drawn \cup {"discard"}
      BY <1>2, Aside DEF Tallied, Drawn, Unasked
  <2>2. CASE fresh' = {}
    <3>1. Counted' \subseteq Unasked /\ Unasked' \subseteq Unasked
        BY <2>1, <2>2 DEF Counted, Drawn
    <3>2. AtMost(Pairs(drafts, Unasked), strays)
        BY <1>o, <2>1 DEF Drawn
    <3>3. /\ AtMost(Pairs(drafts, Counted'), strays) /\ AtMost(Pairs(drafts, Counted'), strays + 1)
          /\ AtMost(Pairs(drafts, Unasked'), strays)
        BY <1>t, <3>1, <3>2, PairsPart, AtMostPart
    <3> QED
        BY <2>1, <3>3 DEF OnRecord, Drawn
  <2> QED
      BY <1>1, <1>2, <2>1, <2>2, AsideFresh
\* A poll that stops between a draft and its row leaves a stray.
<1>3. CASE DraftFails \/ Fail \/ Crash
  <2>1. /\ UNCHANGED <<drafts, ledger, status, fresh>> /\ pc' \in {"idle", "done"}
        /\ strays' \in {strays, strays + 1} /\ (pc \in Drawn => strays' = strays + 1)
      BY <1>3 DEF DraftFails, Fail, Crash, Stop, Stray, Turn, Goto, books, intents, Drafting, Drawn
  <2>2. Counted' \subseteq Counted /\ Unasked' = Unasked
      BY <2>1 DEF Counted, Unasked
  <2>3. /\ strays' \in Nat /\ strays' + 1 \in Nat
        /\ strays <= strays' /\ strays + 1 <= strays' + 1
    <3>1. strays \in Nat /\ (strays' = strays \/ strays' = strays + 1)
        BY <1>t, <2>1
    <3> QED
        BY <3>1
  <2>4. AtMost(Pairs(drafts, Counted'), strays' + 1)
      BY <1>o, <1>t, <2>2, <2>3, PairsPart, AtMostPart
  <2>5. CASE pc \in Drawn
    <3>1. AtMost(Pairs(drafts, Counted'), strays') /\ AtMost(Pairs(drafts, Unasked'), strays')
        BY <1>c, <1>o, <1>t, <2>1, <2>2, <2>3, <2>5, PairsPart, AtMostPart
    <3> QED
        BY <2>1, <2>4, <3>1 DEF OnRecord, Drawn
  <2>6. CASE pc \notin Drawn
    <3>1. AtMost(Pairs(drafts, Unasked'), strays')
        BY <1>o, <1>t, <2>2, <2>3, <2>6, PairsPart, AtMostPart DEF Drawn
    <3>2. AtMost(Pairs(drafts, Counted), strays) => AtMost(Pairs(drafts, Counted'), strays')
        BY <1>t, <2>2, <2>3, PairsPart, AtMostPart
    <3>3. InForce(fresh)' \/ AtMost(Pairs(drafts, Counted'), strays')
        BY <2>1, <2>6, <3>2 DEF OnRecord, InForce
    <3> QED
        BY <2>1, <2>4, <3>1, <3>3 DEF OnRecord, Drawn
  <2> QED
      BY <2>5, <2>6
<1>4. CASE Draft
  <2>1. /\ pc = "draft" /\ pc' = "summary" /\ UNCHANGED <<mail, hand, strays, ledger, fresh, status>>
        /\ drafts' = [drafts EXCEPT ![T] = drafts[T] + 1] /\ ~Drafted
      BY <1>4 DEF Draft, Turn, Goto, gmail, intents, history
  <2>2. T \in Threads /\ T' = T /\ Counted' = Counted
      BY <1>h, <2>1 DEF Resting, T, Counted, Unasked
  <2>3. AtMost(Pairs(drafts, Counted), strays)
      BY <2>1 DEF OnRecord, InForce, Drafted, Drawn
  <2>4. AtMost(Pairs(drafts, Counted) \cup {<<T, drafts[T] + 1>>}, strays + 1)
      BY <1>t, <2>3, AtMostMore
  <2>5. AtMost(Pairs(drafts', Counted), strays + 1)
    <3>1. Pairs(drafts', Counted) \subseteq Pairs(drafts, Counted) \cup {<<T, drafts[T] + 1>>}
        BY <1>c, <1>t, <2>1, <2>2, PairsMore
    <3> QED
        BY <1>t, <2>4, <3>1, AtMostPart
  <2>6. drafts'[T] > 0
    <3>1. drafts[T] \in Nat /\ drafts'[T] = drafts[T] + 1
        BY <1>t, <2>1, <2>2
    <3> QED
        BY <3>1
  <2> QED
      BY <2>1, <2>2, <2>5, <2>6 DEF OnRecord, Drawn
<1>5. CASE Summary
  <2>1. /\ pc = "summary" /\ pc' = "openinv"
        /\ UNCHANGED <<mail, hand, strays, drafts, ledger, fresh, status>>
      BY <1>5 DEF Summary, Turn, Goto, gmail, intents, books
  <2>2. T' = T /\ Counted' = Counted
      BY <2>1 DEF T, Counted, Unasked
  <2> QED
      BY <2>1, <2>2 DEF OnRecord, Drawn
<1>6. CASE OpenInvoice
  <2>1. /\ pc = "openinv" /\ pc' = "record" /\ UNCHANGED <<mail, hand, strays, drafts, ledger, fresh>>
        /\ status' = [status EXCEPT ![T] = "AWAITING_APPROVAL"]
      BY <1>6 DEF OpenInvoice, OpenIntent, Saved, Goto, gmail, books
  <2>2. T \in Threads /\ T' = T /\ status[T] = "none" /\ drafts[T] > 0 /\ drafts[T] \in Nat
      BY <1>h, <1>t, <2>1 DEF Flow, Resting, Unopened, T, OnRecord, Drawn
  <2>3. Unasked' = Unasked \ {T} /\ Counted' = Counted /\ T \in Unasked
      BY <1>t, <2>1, <2>2 DEF Unasked, Counted
  <2>4. AtMost(Pairs(drafts, Unasked'), strays)
    <3> DEFINE x == <<T, drafts[T]>>
    <3>1. x \in Pairs(drafts, Counted)
        BY <1>c, <2>2, <2>3, PairsIn
    <3>2. Pairs(drafts, Unasked') \subseteq Pairs(drafts, Counted) \ {x}
        BY <1>c, <2>3, PairsIn
    <3>3. AtMost(Pairs(drafts, Counted) \ {x}, strays)
        BY <1>o, <1>t, <3>1, AtMostLess
    <3> QED
        BY <1>t, <3>2, <3>3, AtMostPart
  <2> QED
      BY <1>o, <2>1, <2>2, <2>3, <2>4 DEF OnRecord, Drawn
<1>7. CASE RecordPending
  <2>1. /\ pc = "record" /\ pc' = "done" /\ UNCHANGED <<mail, hand, strays, drafts, status>>
        /\ ledger' = [ledger EXCEPT ![T] = "pending"] /\ fresh' = fresh \cup {T}
      BY <1>7 DEF RecordPending, Turn, Goto, gmail, intents, history
  <2>2. T \in Threads /\ drafts[T] > 0 /\ Counted' = Counted /\ Unasked' = Unasked
      BY <1>h, <2>1 DEF Resting, Counted, Unasked, OnRecord, Drawn
  <2>3. InForce(fresh)'
    <3>1. ledger'[T] = "pending" /\ T \in fresh' /\ drafts'[T] > 0
        BY <1>t, <2>1, <2>2
    <3> QED
        BY <3>1 DEF InForce, Live
  <2> QED
      BY <1>o, <2>1, <2>2, <2>3 DEF OnRecord, Drawn
\* The row in hand stays in force.
<1>8. CASE ApproveSend \/ Send \/ MarkSent
  <2>1. /\ pc \in {"route", "send", "sent"} /\ pc' \in {"send", "sent", "confirm"}
        /\ UNCHANGED <<strays, drafts, status, fresh>>
        /\ \E row \in Live : ledger' = [ledger EXCEPT ![T] = row] \/ ledger' = ledger
      BY <1>8 DEF ApproveSend, Send, MarkSent, Turn, Goto, intents, history, Live
  <2>2. Counted' = Counted /\ Unasked' = Unasked
      BY <2>1 DEF Counted, Unasked
  <2>3. InForce(fresh) => InForce(fresh)'
      BY <1>t, <2>1 DEF InForce
  <2> QED
      BY <1>o, <2>1, <2>2, <2>3 DEF OnRecord, Drawn
<1>9. CASE Delete
  <2>1. /\ pc = "delete" /\ pc' = "discard" /\ UNCHANGED <<mail, hand, ledger, status, fresh>>
        /\ \/ /\ drafts' = [drafts EXCEPT ![T] = IF drafts[T] > 0 THEN drafts[T] - 1 ELSE 0]
              /\ strays' = strays
           \/ drafts' = drafts /\ strays' = strays + 1
      BY <1>9 DEF Delete, Turn, Goto, gmail, intents
  <2>2. T \in Threads /\ T' = T /\ status[T] # "none" /\ drafts[T] \in Nat
        /\ Counted' = Counted /\ Unasked' = Unasked
      BY <1>h, <1>t, <2>1 DEF Flow, Resting, Deciding, T, Counted, Unasked
  <2>3. AtMost(Pairs(drafts, Unasked), strays)
      BY <1>o, <2>1
  <2>4. CASE drafts' = drafts /\ strays' = strays + 1
    <3>1. /\ AtMost(Pairs(drafts, Counted), strays + 1 + 1)
          /\ AtMost(Pairs(drafts, Unasked), strays + 1)
      <4>1. strays + 1 + 1 \in Nat /\ strays <= strays + 1 /\ strays + 1 <= strays + 1 + 1
          BY <1>t
      <4> QED
          BY <1>o, <1>t, <2>3, <4>1, AtMostPart
    <3> QED
        BY <1>o, <2>1, <2>2, <2>4, <3>1 DEF OnRecord, Drawn
  <2>5. CASE drafts[T] = 0 /\ drafts' = [drafts EXCEPT ![T] = 0] /\ strays' = strays
    <3>1. drafts' = drafts
        BY <1>t, <2>2, <2>5
    <3>2. InForce(fresh) => InForce(fresh \ {T})'
        BY <2>1, <2>2, <2>5, <3>1 DEF InForce
    <3>3. AtMost(Pairs(drafts, Counted), strays) \/ InForce(fresh)
        BY <2>1 DEF OnRecord, Drawn
    <3> QED
        BY <1>o, <2>1, <2>2, <2>3, <2>5, <3>1, <3>2, <3>3 DEF OnRecord, Drawn
  <2>6. CASE drafts[T] > 0 /\ drafts' = [drafts EXCEPT ![T] = drafts[T] - 1] /\ strays' = strays
    <3> DEFINE x == <<T, drafts[T]>>
    <3>1. \A S \in SUBSET Threads : Pairs(drafts', S) \subseteq Pairs(drafts, S) \ {x}
                                     /\ (T \in S => x \in Pairs(drafts, S))
        BY <1>t, <2>2, <2>6, PairsLess
    <3>2. AtMost(Pairs(drafts', Counted), strays + 1) /\ AtMost(Pairs(drafts', Unasked), strays)
        BY <1>c, <1>o, <1>t, <2>3, <3>1, AtMostPart
    <3>3. CASE T \in Counted
      <4>1. AtMost(Pairs(drafts, Counted) \ {x}, strays)
          BY <1>c, <1>o, <1>t, <3>1, <3>3, AtMostLess
      <4>2. AtMost(Pairs(drafts', Counted), strays)
          BY <1>c, <1>t, <3>1, <4>1, AtMostPart
      <4> QED
          BY <2>1, <2>2, <2>6, <3>2, <4>2 DEF OnRecord, Drawn
    <3>4. CASE T \notin Counted
      <4>1. T \notin fresh
          BY <3>4 DEF Counted
      <4>2. InForce(fresh) => InForce(fresh \ {T})'
        <5>1. \A t \in fresh : t # T /\ drafts'[t] = drafts[t]
            BY <1>t, <2>2, <2>6, <4>1
        <5> QED
            BY <2>1, <2>2, <5>1 DEF InForce
      <4>3. AtMost(Pairs(drafts, Counted), strays) => AtMost(Pairs(drafts', Counted), strays)
          BY <1>c, <1>t, <3>1, AtMostPart
      <4>4. AtMost(Pairs(drafts, Counted), strays) \/ InForce(fresh)
          BY <2>1 DEF OnRecord, Drawn
      <4> QED
          BY <2>1, <2>2, <2>6, <3>2, <4>2, <4>3, <4>4 DEF OnRecord, Drawn
    <3> QED
        BY <3>3, <3>4
  <2> QED
      BY <2>1, <2>2, <2>4, <2>5, <2>6
<1>10. CASE Discard
  <2>1. /\ pc = "discard" /\ pc' = "settle" /\ UNCHANGED <<strays, drafts, status, fresh>>
        /\ ledger' = [ledger EXCEPT ![T] = IF ledger[T] = "none" THEN ledger[T] ELSE "discarded"]
      BY <1>10 DEF Discard, Answer, Goto, gmail, intents, history
  <2>2. Counted' = Counted /\ Unasked' = Unasked
      BY <2>1 DEF Counted, Unasked
  <2>3. InForce(fresh \ {T}) => InForce(fresh)'
      BY <1>t, <2>1 DEF InForce
  <2> QED
      BY <1>o, <2>1, <2>2, <2>3 DEF OnRecord, Drawn
<1>11. CASE (\E t \in Threads, s \in Words \cup {"ask"} : Arrive(t, s)) \/ UNCHANGED vars
  <2>1. UNCHANGED <<pc, status, drafts, ledger, strays, fresh, hand>>
      BY <1>11 DEF Arrive, vars, intents, books, poll, history
  <2>2. pc \notin Resting => T' = T
      BY <1>h, <1>11, <2>1, NewMail DEF T, vars, gmail
  <2>3. pc \in Drawn \cup {"discard"} => pc \notin Resting
      BY DEF Drawn, Resting
  <2>4. Counted' = Counted /\ Unasked' = Unasked
      BY <2>1, <2>2, <2>3 DEF Counted, Unasked, Drawn
  <2>5. InForce(fresh)' = InForce(fresh) /\ (pc = "discard" => InForce(fresh \ {T})' = InForce(fresh \ {T}))
      BY <2>1, <2>2, <2>3 DEF InForce
  <2> QED
      BY <1>o, <2>1, <2>2, <2>3, <2>4, <2>5 DEF OnRecord, Drawn
<1> QED
    BY <1>2, <1>3, <1>4, <1>5, <1>6, <1>7, <1>8, <1>9, <1>10, <1>11 DEF Next, Poll

-----------------------------------------------------------------------------
(* What was done on an approval *)

Calm(t) == \A m \in acted : mail[m].thread # t

\* A thread on whose approval something was done makes no other proposal.
Acting ==
  /\ \A m \in acted :
       LET t == mail[m].thread
       IN  \/ kind[t] \in {"trip", "steps"} /\ status[t] \in {"EXECUTING"} \cup Terminal
           \/ kind[t] = "invoice" /\ status[t] \in {"AWAITING_APPROVAL"} \cup Terminal
  /\ pc = "execute" => kind[T] = "steps"
  /\ pc = "send" => kind[T] = "invoice"
  /\ pc = "proposal" => status[T] = "AWAITING_APPROVAL" /\ kind[T] \in {"auto", "steps"}
  /\ pc = "settle" /\ outcome \notin Terminal => Calm(T)

LEMMA CalmBefore ==
  ASSUME TypeOK, Acting, NEW t \in Threads,
         \/ status[t] \in {"none", "AWAITING_CLARIFICATION"}
         \/ kind[t] = "auto"
         \/ status[t] = "AWAITING_APPROVAL" /\ kind[t] # "invoice"
  PROVE  Calm(t)
<1> QED
    BY DEF Acting, Calm, Terminal

LEMMA ActingStep == TypeOK /\ Flow /\ Acting /\ [Next]_vars => Acting'
<1> SUFFICES ASSUME TypeOK, Flow, Acting, [Next]_vars PROVE Acting'
    OBVIOUS
<1>s. status \in [Threads -> States] /\ kind \in [Threads -> {"none", "trip", "auto", "steps", "invoice"}]
      /\ acted \subseteq Mails
    BY DEF TypeOK, States
<1>h. pc \notin Resting => hand \in Mails /\ T \in Threads
    BY InHand
<1>m. \A m \in acted : mail[m].thread \in Threads
    BY <1>s, MailsAreNumbers
<1>1. CASE UNCHANGED <<acted, status, kind, mail>> /\ pc' \notin {"execute", "send", "proposal", "settle"}
    BY <1>1 DEF Acting
<1>2. CASE StartPoll \/ EndNew \/ Done \/ (\E m \in Mails : KnownThread(m))
           \/ (\E t \in Threads : Read(t) \/ SkipThread(t)) \/ Fail \/ Crash \/ DayPasses \/ Midnight
    BY <1>1, <1>2 DEF StartPoll, EndNew, Done, DealtWith, KnownThread, Upcoming, Read, SkipThread,
       Fail, Crash, Stop, DayPasses, Midnight, Goto, gmail, intents, history, poll
<1>3. ASSUME NEW m \in Mails, NEW k \in Kinds, Dispatch(m, k) PROVE Acting'
  <2>1. UNCHANGED <<acted, status, kind, mail>> /\ pc = "new"
      BY <1>3 DEF Dispatch, Upcoming, intents
  <2>2. k \in {"trip", "ad_hoc", "invoice", "other"}
      BY KindsAssumption
  <2>3. pc' \in {"new", "open", "attempt", "draft"}
      BY <1>3, <2>1, <2>2 DEF Dispatch
  <2> QED
      BY <1>1, <2>1, <2>3
<1>4. CASE Clarify \/ Stage \/ FindReceipt \/ Book \/ BookFails \/ Attempt \/ Propose \/ RefuseDraft
           \/ Draft \/ Summary \/ RecordPending \/ DraftFails \/ Resume \/ Reask
    BY <1>1, <1>4 DEF Clarify, Stage, FindReceipt, Book, BookFails, Attempt, Propose, RefuseDraft,
       Draft, Summary, RecordPending, DraftFails, Resume, Reask, Turn, Goto, gmail, intents, history
<1>5. CASE SkipInvoice \/ MarkSent \/ RejectDraft \/ Delete
    BY <1>1, <1>5 DEF SkipInvoice, MarkSent, RejectDraft, Delete, Turn, Goto, gmail, intents, history
<1>6. CASE Expire
  <2>1. \A t \in Threads : status'[t] \in {status[t], "EXPIRED"}
      BY <1>6 DEF Expire
  <2>2. UNCHANGED <<acted, kind, mail>> /\ pc' = "idle"
      BY <1>6 DEF Expire, Goto, gmail, history
  <2> QED
      BY <1>m, <2>1, <2>2 DEF Acting, Terminal
<1>7. CASE Settle
  <2>1. pc = "settle" /\ pc' = "done" /\ UNCHANGED <<acted, kind, mail>>
        /\ status' = [status EXCEPT ![T] = outcome]
      BY <1>7 DEF Settle, Goto, Saved, gmail, history
  <2>2. T \in Threads /\ outcome \in Terminal \cup {"AWAITING_APPROVAL"}
      BY <1>h, <2>1 DEF Flow, Resting
  <2>3. outcome \notin Terminal => Calm(T)
      BY <2>1 DEF Acting
  <2>4. \A t \in Threads : status'[t] = IF t = T THEN outcome ELSE status[t]
      BY <1>s, <2>1, <2>2
  <2> QED
      BY <1>m, <2>1, <2>2, <2>3, <2>4 DEF Acting, Calm
<1>8. ASSUME UNCHANGED <<acted, status, kind, mail, hand>>, pc' = "settle",
             outcome' \in Terminal \/ Calm(T)
      PROVE  Acting'
    BY <1>8 DEF Acting, Calm, T
<1>9. CASE Booked \/ Reject \/ Keep \/ NoPlan \/ Report \/ RefuseSend \/ Confirm \/ Discard
  <2>1. UNCHANGED <<acted, status, kind, mail, hand>> /\ pc' = "settle"
      BY <1>9 DEF Booked, Reject, Keep, NoPlan, Report, RefuseSend, Confirm, Discard, Answer, Goto,
         gmail, intents, history
  <2>2. outcome' \in Terminal
      BY <1>9 DEF Booked, Reject, Keep, NoPlan, Report, RefuseSend, Confirm, Discard, Answer, Terminal
  <2> QED
      BY <1>8, <2>1, <2>2
<1>10. CASE Collect
  <2>1. UNCHANGED <<acted, status, kind, mail, hand>> /\ pc = "collect" /\ pc' = "settle"
      BY <1>10 DEF Collect, Answer, Goto, gmail, intents, history
  <2>2. Calm(T)
      BY <1>h, <2>1, CalmBefore DEF Flow, Clarifying, Resting
  <2> QED
      BY <1>8, <2>1, <2>2
<1>11. CASE Redone
  <2>1. UNCHANGED <<acted, status, mail, hand>> /\ pc = "redo" /\ pc' = "settle"
      BY <1>11 DEF Redone, Goto, gmail, history
  <2>2. T \in Threads /\ Calm(T)
      BY <1>h, <2>1, CalmBefore DEF Flow, Resting
  <2>3. \A t \in Threads \ {T} : kind'[t] = kind[t]
      BY <1>11, <1>s, <2>2 DEF Redone
  <2> QED
      BY <1>m, <2>1, <2>2, <2>3 DEF Acting, Calm, T
\* Something is done.
<1>12. ASSUME UNCHANGED <<status, kind, mail, hand>>, pc \notin Resting, Act,
              \/ kind[T] \in {"trip", "steps"} /\ status[T] = "EXECUTING"
              \/ kind[T] = "invoice" /\ status[T] = "AWAITING_APPROVAL",
              pc' \in {"report", "sent"} \/ (pc' = "settle" /\ outcome' \in Terminal)
       PROVE  Acting'
    BY <1>12 DEF Acting, Act, T
<1>13. CASE Execute
  <2>1. /\ pc = "execute" /\ pc' = "settle" /\ outcome' \in Terminal /\ Act
        /\ UNCHANGED <<status, kind, mail, hand>>
      BY <1>13 DEF Execute, Answer, Goto, Terminal, gmail, intents
  <2>2. kind[T] = "steps" /\ status[T] = "EXECUTING"
      BY <2>1 DEF Acting, Flow, Executing
  <2> QED
      BY <1>12, <2>1, <2>2 DEF Resting
<1>14. CASE CreateInvoice
  <2>1. /\ pc = "run" /\ pc' = "report" /\ Act
        /\ UNCHANGED <<status, kind, mail, hand>>
      BY <1>14 DEF CreateInvoice, Turn, Goto, gmail, intents
  <2>2. kind[T] = "trip" /\ status[T] = "EXECUTING"
      BY <2>1 DEF Flow, Executing
  <2> QED
      BY <1>12, <2>1, <2>2 DEF Resting
<1>15. CASE Send
  <2>1. /\ pc = "send" /\ pc' = "sent" /\ Act
        /\ UNCHANGED <<status, kind, mail, hand>>
      BY <1>15 DEF Send, Turn, Goto, gmail, intents
  <2>2. kind[T] = "invoice" /\ status[T] = "AWAITING_APPROVAL"
      BY <2>1 DEF Acting, Flow, Deciding
  <2> QED
      BY <1>12, <2>1, <2>2 DEF Resting
<1>16. CASE ApproveSend
    BY <1>16 DEF ApproveSend, Asked, Turn, Goto, Acting, T, gmail, intents, history
\* The status of a thread in which nothing was done changes.
<1>17. ASSUME UNCHANGED <<acted, mail, hand>>, T \in Threads, Calm(T),
              \A t \in Threads \ {T} : status'[t] = status[t] /\ kind'[t] = kind[t],
              pc' \notin {"send", "settle"}, pc' = "execute" => kind'[T] = "steps",
              pc' = "proposal" => status'[T] = "AWAITING_APPROVAL" /\ kind'[T] \in {"auto", "steps"}
       PROVE  Acting'
    BY <1>17, <1>m DEF Acting, Calm, T
<1>18. CASE OpenTrip \/ Offer \/ OpenInvoice
  <2>1. pc \in {"open", "offer", "openinv"} /\ UNCHANGED <<acted, mail, hand>>
        /\ pc' \in {"turn", "proposal", "record"}
      BY <1>18 DEF OpenTrip, Offer, OpenInvoice, OpenIntent, Goto, gmail
  <2>2. T \in Threads /\ Calm(T)
      BY <1>h, <2>1, CalmBefore DEF Flow, Unopened, Resting
  <2>3. \A t \in Threads \ {T} : status'[t] = status[t] /\ kind'[t] = kind[t]
      BY <1>18, <1>s, <2>2 DEF OpenTrip, Offer, OpenInvoice, OpenIntent, Saved
  <2>4. pc' = "proposal" => status'[T] = "AWAITING_APPROVAL" /\ kind'[T] \in {"auto", "steps"}
      BY <1>18, <1>s, <2>2 DEF OpenTrip, Offer, OpenInvoice, OpenIntent, Saved, Goto
  <2> QED
      BY <1>17, <2>1, <2>2, <2>3, <2>4
<1>19. CASE Redo \/ Approve
  <2>1. /\ pc = "route" /\ UNCHANGED <<acted, mail, hand, kind>>
        /\ status' = [status EXCEPT ![T] = "EXECUTING"]
        /\ status[T] = "AWAITING_APPROVAL" /\ kind[T] \in {"trip", "auto", "steps"}
        /\ pc' \in {"redo", "run", "execute"} /\ (pc' = "execute" => kind[T] = "steps")
      BY <1>19 DEF Redo, Approve, Asked, Goto, Saved, gmail, history
  <2>2. T \in Threads
      BY <1>h, <2>1 DEF Resting
  <2>3. Calm(T)
      BY <2>1, <2>2, CalmBefore
  <2>4. \A t \in Threads \ {T} : status'[t] = status[t] /\ kind'[t] = kind[t]
      BY <1>s, <2>1
  <2> QED
      BY <1>17, <2>1, <2>2, <2>3, <2>4
<1>20. ASSUME NEW t \in Threads, NEW s \in Words \cup {"ask"}, Arrive(t, s) PROVE Acting'
  <2>1. UNCHANGED <<pc, status, kind, hand, acted, outcome>>
      BY <1>20 DEF Arrive, intents, poll
  <2>2. \A m \in Mails : mail'[m] = mail[m]
      BY <1>20, NewMail
  <2>3. pc \in {"execute", "send", "proposal", "settle"} => T' = T
      BY <1>h, <2>1, <2>2 DEF Resting, T
  <2>4. \A m \in acted : mail'[m].thread = mail[m].thread
      BY <1>s, <2>2
  <2> QED
      BY <2>1, <2>3, <2>4 DEF Acting, Calm
<1>21. CASE UNCHANGED vars
    BY <1>21 DEF vars, gmail, intents, poll, history, Acting, Calm, T
<1> QED
    BY <1>2, <1>3, <1>4, <1>5, <1>6, <1>7, <1>9, <1>10, <1>11, <1>13, <1>14, <1>15, <1>16, <1>18,
       <1>19, <1>20, <1>21 DEF Next, Poll

-----------------------------------------------------------------------------
(* What SAI answers, and what it takes for an approval of that *)

Shown == {"openinv", "done"}
Known(t) == talk[t].to = 0 \/ talk[t].to \in processed \cup seen

\* The mail that a proposal answers is remembered before the thread is read
\* again, so it is never in hand to approve it.
Heard ==
  /\ \A t \in Threads :
       status[t] \in {"none", "AWAITING_APPROVAL"} =>
         Known(t) \/ (pc \in Shown /\ T = t /\ talk[t].to = hand)
  /\ pc = "settle" /\ outcome \notin Terminal => talk[T].to = hand
  /\ pc \in {"run", "execute", "send"} \/ (pc = "route" /\ status[T] = "AWAITING_APPROVAL")
       => talk[T].to # hand
  /\ \A m \in acted : m # talk[mail[m].thread].to
Listening == crashes = 0 => Heard

LEMMA ListeningInit == Init => Acting /\ Listening
<1> QED
    BY DEF Init, Acting, Listening, Heard, Known, Calm

LEMMA ListeningStep == TypeOK /\ Flow /\ HasMax /\ Acting /\ Listening /\ [Next]_vars => Listening'
<1> SUFFICES ASSUME TypeOK, Flow, HasMax, Acting, Listening, [Next]_vars, crashes' = 0
             PROVE  Heard'
    BY DEF Listening
<1>s. status \in [Threads -> States] /\ acted \subseteq Mails /\ crashes \in Nat
      /\ talk \in [Threads -> [opener : 0..MaxMail, to : 0..MaxMail, at : 0..MaxMail]]
    BY BoundsAssumption DEF TypeOK, States
<1>h. pc \notin Resting => hand \in Mails /\ T \in Threads
    BY InHand
<1>m. \A m \in acted : mail[m].thread \in Threads
    BY <1>s, MailsAreNumbers
<1>c. ~Crash /\ Heard
  <2>1. ~Crash
      BY <1>s DEF Crash
  <2>2. crashes' = crashes
      BY <2>1 DEF Next, Poll, StartPoll, EndNew, Expire, Done, DealtWith, Settle, KnownThread,
         Dispatch, Read, OpenTrip, Clarify, Stage, Collect, FindReceipt, Book, Booked, Attempt,
         Offer, Propose, RefuseDraft, Draft, Summary, OpenInvoice, RecordPending, Resume, Reask,
         Redo, Redone, Reject, Keep, Approve, Execute, NoPlan, SkipInvoice, CreateInvoice, Report,
         RefuseSend, ApproveSend, Send, MarkSent, Confirm, RejectDraft, Delete, Discard,
         BookFails, DraftFails, Fail, SkipThread, Arrive, DayPasses, Midnight, OpenIntent,
         vars, history
  <2> QED
      BY <2>1, <2>2 DEF Listening
\* No proposal is shown, and nothing is done on one.
<1>1. ASSUME UNCHANGED <<acted, mail>>, processed \subseteq processed', seen \subseteq seen',
             \A t \in Threads : talk'[t].to = talk[t].to,
             \A t \in Threads : status'[t] \in {"none", "AWAITING_APPROVAL"} =>
                                  status[t] \in {"none", "AWAITING_APPROVAL"},
             pc \in Shown => pc' \in Shown /\ hand' = hand,
             pc' \notin {"run", "execute", "send", "route"},
             pc' = "settle" => outcome' \in Terminal
      PROVE  Heard'
    BY <1>1, <1>c, <1>m DEF Heard, Known, T
<1>2. CASE StartPoll \/ EndNew \/ DayPasses \/ Midnight
           \/ (\E m \in Mails : KnownThread(m)) \/ (\E t \in Threads : SkipThread(t))
    BY <1>1, <1>2 DEF StartPoll, EndNew, DayPasses, Midnight, KnownThread, Upcoming, SkipThread,
       Goto, Shown, gmail, intents, history, poll
<1>3. ASSUME NEW m \in Mails, NEW k \in Kinds, Dispatch(m, k) PROVE Heard'
  <2>1. UNCHANGED <<acted, status, talk, mail, processed>> /\ pc = "new" /\ seen \subseteq seen'
      BY <1>3 DEF Dispatch, Upcoming, intents
  <2>2. k \in {"trip", "ad_hoc", "invoice", "other"}
      BY KindsAssumption
  <2>3. pc' \in {"new", "open", "attempt", "draft"}
      BY <1>3, <2>1, <2>2 DEF Dispatch
  <2> QED
      BY <1>1, <2>1, <2>3 DEF Shown
<1>4. CASE Fail
  <2>1. /\ pc \notin Shown /\ pc' = "idle"
        /\ UNCHANGED <<acted, status, talk, mail, processed, seen>>
      BY <1>4 DEF Fail, Stop, Shown, Drafting, intents, gmail
  <2> QED
      BY <1>1, <2>1
<1>5. CASE Expire
  <2>1. \A t \in Threads : status'[t] \in {status[t], "EXPIRED"}
      BY <1>5 DEF Expire
  <2>2. UNCHANGED <<acted, talk, mail, processed, seen>> /\ pc = "replies" /\ pc' = "idle"
      BY <1>5 DEF Expire, Goto, gmail, history
  <2> QED
      BY <1>1, <2>1, <2>2 DEF Shown
<1>6. CASE Clarify \/ FindReceipt \/ Book \/ BookFails \/ Attempt \/ RefuseDraft \/ Draft
           \/ RecordPending \/ DraftFails \/ Resume \/ Reask \/ SkipInvoice \/ MarkSent
           \/ RejectDraft \/ Delete
  <2>1. UNCHANGED <<acted, mail, processed, seen, talk, status, hand>>
      BY <1>6 DEF Clarify, FindReceipt, Book, BookFails, Attempt, RefuseDraft, Draft,
         RecordPending, DraftFails, Resume, Reask, SkipInvoice, MarkSent, RejectDraft, Delete,
         Turn, gmail, intents, history
  <2>2. pc \in Shown => pc' \in Shown
      BY <1>6 DEF Clarify, Agent, FindReceipt, Book, BookFails, Booking, Attempt, RefuseDraft,
         Draft, RecordPending, DraftFails, Resume, Reask, SkipInvoice, MarkSent, RejectDraft,
         Delete, Turn, Goto, Shown
  <2>3. pc' \notin {"run", "execute", "send", "route", "settle"}
      BY <1>6 DEF Clarify, FindReceipt, Book, BookFails, Attempt, RefuseDraft, Draft,
         RecordPending, DraftFails, Resume, Reask, SkipInvoice, MarkSent, RejectDraft, Delete,
         Turn, Goto
  <2> QED
      BY <1>1, <2>1, <2>2, <2>3
<1>7. CASE Booked \/ Reject \/ Keep \/ NoPlan \/ Report \/ RefuseSend \/ Confirm \/ Discard
  <2>1. UNCHANGED <<acted, mail, processed, seen, talk, status, hand>> /\ pc' = "settle"
        /\ pc \in {"booked", "route", "run", "report", "confirm", "discard"}
      BY <1>7 DEF Booked, Reject, Keep, NoPlan, Report, RefuseSend, Confirm, Discard, Asked,
         Answer, Goto, gmail, intents, history
  <2>2. outcome' \in Terminal
      BY <1>7 DEF Booked, Reject, Keep, NoPlan, Report, RefuseSend, Confirm, Discard, Answer,
         Terminal
  <2> QED
      BY <1>1, <2>1, <2>2 DEF Shown
<1>8. CASE Redo \/ OpenTrip \/ Offer
  <2>1. UNCHANGED <<acted, mail, seen>> /\ processed \subseteq processed'
        /\ pc \in {"route", "open", "offer"} /\ pc' \in {"redo", "turn", "proposal"}
      BY <1>8 DEF Redo, OpenTrip, Offer, OpenIntent, Goto, gmail, history
  <2>2. T \in Threads
      BY <1>h, <2>1 DEF Resting
  <2>3. \A t \in Threads : talk'[t].to = talk[t].to
      BY <1>8, <1>s, <2>2 DEF Redo, OpenTrip, Offer, OpenIntent, history
  <2>4. status[T] \in {"none", "AWAITING_APPROVAL"}
      BY <1>8, <2>1 DEF Redo, Asked, OpenTrip, Offer, Goto, Flow, Unopened
  <2>5. \A t \in Threads \ {T} : status'[t] = status[t]
      BY <1>8, <1>s, <2>2 DEF Redo, OpenTrip, Offer, OpenIntent, Saved
  <2> QED
      BY <1>1, <2>1, <2>2, <2>3, <2>4, <2>5 DEF Shown
\* A mail is taken in hand, or put away.
<1>9. ASSUME NEW t \in Threads, Read(t) PROVE Heard'
  <2>1. UNCHANGED <<acted, mail, processed, talk, status, outcome>> /\ pc = "replies"
        /\ seen \subseteq seen'
      BY <1>9 DEF Read, gmail, intents, history
  <2>2. CASE Waiting(t) = {}
      BY <1>1, <1>9, <2>1, <2>2 DEF Read, Shown
  <2>3. CASE Waiting(t) # {}
    <3>1. /\ pc' = "route" /\ hand' = Latest(Waiting(t)) /\ seen' = seen
          /\ Waiting(t) \in SUBSET Mails
        BY <1>9, <2>3 DEF Read, Waiting, Of
    <3>2. hand' \in Waiting(t)
        BY <2>3, <3>1, LatestIsOne
    <3>3. hand' \in Mails /\ T' = t /\ hand' \notin seen \cup processed
        BY <2>1, <3>2 DEF Waiting, Of, T
    <3>4. hand' # 0
        BY <3>3, MailsAreNumbers
    <3>5. status[t] = "AWAITING_APPROVAL" => talk[t].to # hand'
        BY <1>c, <2>1, <3>3, <3>4 DEF Heard, Known, Shown
    <3> QED
        BY <1>c, <2>1, <3>1, <3>3, <3>5 DEF Heard, Known, Shown
  <2> QED
      BY <2>2, <2>3
<1>10. CASE Done
  <2>1. /\ pc = "done" /\ pc' \in {"new", "replies"} /\ UNCHANGED <<acted, mail, talk, status>>
        /\ processed \subseteq processed' /\ seen \subseteq seen' /\ hand \in processed' \cup seen'
      BY <1>10 DEF Done, DealtWith, gmail, history
  <2>2. \A t \in Threads : status'[t] \in {"none", "AWAITING_APPROVAL"} => Known(t)'
      BY <1>c, <2>1 DEF Heard, Known
  <2> QED
      BY <1>c, <2>1, <2>2 DEF Heard
<1>11. CASE OpenInvoice
  <2>1. /\ pc = "openinv" /\ pc' = "record" /\ UNCHANGED <<acted, mail, seen, hand>>
        /\ processed' = processed \cup {hand}
      BY <1>11 DEF OpenInvoice, OpenIntent, Goto, gmail
  <2>2. T \in Threads /\ status[T] = "none"
      BY <1>h, <2>1 DEF Flow, Unopened, Resting
  <2>3. \A t \in Threads : talk'[t].to = talk[t].to
      BY <1>11, <1>s, <2>2 DEF OpenInvoice, OpenIntent
  <2>4. \A t \in Threads : status'[t] \in {"none", "AWAITING_APPROVAL"} => Known(t)'
    <3>1. \A t \in Threads \ {T} : status'[t] = status[t]
        BY <1>11, <1>s, <2>2 DEF OpenInvoice, OpenIntent, Saved
    <3> QED
        BY <1>c, <2>1, <2>2, <2>3, <3>1 DEF Heard, Known
  <2> QED
      BY <1>c, <1>m, <2>1, <2>3, <2>4 DEF Heard
<1>12. CASE Settle
  <2>1. pc = "settle" /\ pc' = "done" /\ UNCHANGED <<acted, mail, talk, processed, seen, hand>>
        /\ status' = [status EXCEPT ![T] = outcome]
      BY <1>12 DEF Settle, Goto, Saved, gmail, history
  <2>2. T \in Threads /\ outcome \in Terminal \cup {"AWAITING_APPROVAL"}
      BY <1>h, <2>1 DEF Flow, Resting
  <2>3. \A t \in Threads : status'[t] = IF t = T THEN outcome ELSE status[t]
      BY <1>s, <2>1, <2>2
  <2> QED
      BY <1>c, <2>1, <2>2, <2>3 DEF Heard, Known, Terminal, Shown, T
\* An approval is accepted.
<1>13. CASE Approve \/ ApproveSend
  <2>1. /\ pc = "route" /\ status[T] = "AWAITING_APPROVAL"
        /\ pc' \in {"run", "execute", "send"}
        /\ UNCHANGED <<acted, mail, talk, processed, seen, hand>>
      BY <1>13 DEF Approve, ApproveSend, Asked, Turn, Goto, gmail, intents, history
  <2>2. T \in Threads
      BY <1>h, <2>1 DEF Resting
  <2>3. \A t \in Threads : status'[t] \in {status[t], "EXECUTING"}
      BY <1>13, <1>s, <2>2 DEF Approve, ApproveSend, Turn, intents, Saved
  <2> QED
      BY <1>c, <2>1, <2>3 DEF Heard, Known, Shown, T
\* Something is done on it.
<1>14. CASE Execute \/ CreateInvoice \/ Send
  <2>1. /\ pc \in {"run", "execute", "send"} /\ pc' \in {"report", "sent", "settle"}
        /\ acted' = acted \cup {hand}
        /\ UNCHANGED <<mail, talk, processed, seen, hand, status>>
      BY <1>14 DEF Execute, CreateInvoice, Send, Act, Answer, Turn, Goto, gmail, intents
  <2>2. pc' = "settle" => outcome' \in Terminal
      BY <1>14 DEF Execute, CreateInvoice, Send, Answer, Turn, Goto, Terminal
  <2>3. \A m \in acted' : m # talk[mail[m].thread].to
      BY <1>c, <2>1 DEF Heard, T
  <2> QED
      BY <1>c, <2>1, <2>2, <2>3 DEF Heard, Known, Shown
\* A proposal is shown: nothing was done in the thread yet.
<1>15. ASSUME Show, UNCHANGED <<status, mail, hand, acted, processed, seen>>,
              T \in Threads, Calm(T), pc \notin Shown,
              pc' \in Shown \/ status[T] \notin {"none", "AWAITING_APPROVAL"},
              pc' \notin {"run", "execute", "send", "route"}
       PROVE  Heard'
  <2>1. talk'[T].to = hand /\ \A t \in Threads \ {T} : talk'[t] = talk[t]
      BY <1>15, <1>s DEF Show
  <2>2. T' = T
      BY <1>15 DEF T
  <2>3. \A m \in acted' : m # talk'[mail'[m].thread].to
      BY <1>15, <1>c, <1>m, <2>1 DEF Heard, Calm
  <2> QED
      BY <1>15, <1>c, <2>1, <2>2, <2>3 DEF Heard, Known
<1>16. CASE Stage \/ Summary \/ Propose
  <2>1. /\ Show /\ UNCHANGED <<status, mail, hand, acted, processed, seen>>
        /\ pc \in {"turn", "agent", "summary", "proposal"}
        /\ pc' = IF pc = "proposal" THEN "done" ELSE IF pc = "summary" THEN "openinv" ELSE "collect"
      BY <1>16 DEF Stage, Agent, Summary, Propose, Turn, Goto, gmail, intents
  <2>2. T \in Threads
      BY <1>h, <2>1 DEF Resting
  <2>3. pc \in {"turn", "agent"} => status[T] = "AWAITING_CLARIFICATION"
      BY DEF Flow, Clarifying
  <2>4. pc = "summary" => status[T] = "none"
      BY DEF Flow, Unopened
  <2>5. pc = "proposal" => status[T] = "AWAITING_APPROVAL" /\ kind[T] # "invoice"
      BY DEF Acting
  <2>6. Calm(T)
      BY <2>1, <2>2, <2>3, <2>4, <2>5, CalmBefore
  <2> QED
      BY <1>15, <2>1, <2>2, <2>3, <2>6 DEF Shown
<1>17. CASE Collect
  <2>1. UNCHANGED <<status, mail, hand, acted, processed, seen>> /\ pc = "collect" /\ pc' = "settle"
      BY <1>17 DEF Collect, Answer, Goto, gmail, intents, history
  <2>2. T \in Threads /\ status[T] = "AWAITING_CLARIFICATION"
      BY <1>h, <2>1 DEF Flow, Clarifying, Resting
  <2>3. CASE Show
      BY <1>15, <2>1, <2>2, <2>3, CalmBefore DEF Shown
  <2>4. CASE talk' = talk /\ outcome' \in Terminal
      BY <1>1, <2>1, <2>4 DEF Shown
  <2> QED
      BY <1>17, <2>3, <2>4 DEF Collect, Answer, Terminal, history
<1>18. CASE Redone
  <2>1. Show /\ UNCHANGED <<status, mail, hand, acted, processed, seen>>
        /\ pc = "redo" /\ pc' = "settle"
      BY <1>18 DEF Redone, Goto, gmail
  <2>2. T \in Threads /\ status[T] = "EXECUTING" /\ kind[T] = "auto"
      BY <1>h, <2>1 DEF Flow, Executing, Resting
  <2> QED
      BY <1>15, <2>1, <2>2, CalmBefore DEF Shown
<1>19. ASSUME NEW t \in Threads, NEW s \in Words \cup {"ask"}, Arrive(t, s) PROVE Heard'
  <2>1. UNCHANGED <<pc, status, hand, acted, outcome, talk, processed, seen>>
      BY <1>19 DEF Arrive, intents, poll
  <2>2. \A m \in Mails : mail'[m] = mail[m]
      BY <1>19, NewMail
  <2>3. pc \notin Resting => T' = T
      BY <1>h, <2>1, <2>2 DEF T
  <2>4. \A m \in acted : mail'[m].thread = mail[m].thread
      BY <1>s, <2>2
  <2> QED
      BY <1>c, <2>1, <2>3, <2>4 DEF Heard, Known, Shown, Resting
<1>20. CASE UNCHANGED vars
    BY <1>20, <1>c DEF vars, gmail, intents, poll, history, Heard, Known, T
<1> QED
    BY <1>c, <1>2, <1>3, <1>4, <1>5, <1>6, <1>7, <1>8, <1>9, <1>10, <1>11, <1>12, <1>13, <1>14,
       <1>16, <1>17, <1>18, <1>19, <1>20 DEF Next, Poll

-----------------------------------------------------------------------------
(* The invoices of a trip that the marker finds *)

Found == {i \in DOMAIN invoices : invoices[i].found}
Single == \A i, j \in Found : i = j

LEMMA SingleInit == Init => Single
<1> QED
    BY DEF Init, Single, Found

LEMMA SingleStep == TypeOK /\ Single /\ [Next]_vars => Single'
<1> SUFFICES ASSUME TypeOK, Single, [Next]_vars PROVE Single'
    OBVIOUS
<1>1. CASE invoices' = invoices
    BY <1>1 DEF Single, Found
<1>2. CASE CreateInvoice
  <2>1. invoices \in Seq([by : Mails, found : BOOLEAN])
      BY DEF TypeOK
  <2>2. CASE MarkerFound
      BY <1>1, <1>2, <2>2 DEF CreateInvoice
  <2>3. CASE ~MarkerFound
    <3>1. PICK during \in BOOLEAN : invoices' = Append(invoices, [by |-> hand, found |-> during])
        BY <1>2, <2>3 DEF CreateInvoice
    <3>2. DOMAIN invoices = 1..Len(invoices) /\ Len(invoices) \in Nat
          /\ DOMAIN invoices' = 1..(Len(invoices) + 1)
          /\ \A i \in DOMAIN invoices : invoices'[i] = invoices[i]
        BY <2>1, <3>1
    <3>3. Found' \subseteq {Len(invoices) + 1}
        BY <2>3, <3>2 DEF Found, MarkerFound
    <3> QED
        BY <3>3 DEF Single
  <2> QED
      BY <2>2, <2>3
<1>3. invoices' = invoices \/ CreateInvoice
    BY DEF Next, Poll, StartPoll, EndNew, Expire, Done, DealtWith, Settle, KnownThread, Dispatch,
       Read, OpenTrip, Clarify, Stage, Collect, FindReceipt, Book, Booked, Attempt, Offer,
       Propose, RefuseDraft, Draft, Summary, OpenInvoice, RecordPending, Resume, Reask, Redo,
       Redone, Reject, Keep, Approve, Execute, NoPlan, SkipInvoice, Report, RefuseSend,
       ApproveSend, Send, MarkSent, Confirm, RejectDraft, Delete, Discard, BookFails, DraftFails,
       Fail, Crash, Stop, SkipThread, Arrive, DayPasses, Midnight, OpenIntent, books, vars
<1> QED
    BY <1>1, <1>2, <1>3

-----------------------------------------------------------------------------
(* The order in which replies are routed *)

\* With the mail in hand all earlier ones of its thread were read.
Taken ==
  /\ pc \in Resting \cup Unopened => fetched = {}
  /\ fetched # {} =>
       /\ hand \notin processed \cup seen /\ status[T] # "none"
       /\ \A m \in Of(T) : m < hand => m \in fetched

\* So once it is processed, none of them waits.
NoneWaits ==
  \A n \in processed : n # talk[mail[n].thread].opener =>
    \A m \in Of(mail[n].thread) : m < n => m \in processed \cup seen

Routed ==
  /\ \A n \in processed : status[mail[n].thread] # "none"
  /\ \A t \in open : status[t] # "none"
  /\ Taken
  /\ crashes = 0 => NoneWaits

LEMMA RoutedInit == Init => Routed
<1> QED
    BY DEF Init, Routed, Taken, NoneWaits

\* An intent is never forgotten.
LEMMA StatusStays ==
  TypeOK /\ Flow /\ [Next]_vars =>
    \A t \in Threads : status[t] # "none" => status'[t] # "none"
<1> SUFFICES ASSUME TypeOK, Flow, [Next]_vars, NEW t \in Threads, status[t] # "none"
             PROVE  status'[t] # "none"
    OBVIOUS
<1>s. status \in [Threads -> States]
    BY DEF TypeOK, States
<1>1. CASE Settle
    BY <1>1, <1>s DEF Settle, Goto, Saved, Flow, Terminal
<1>2. CASE Redo \/ Approve \/ OpenTrip \/ Offer \/ OpenInvoice
    BY <1>2, <1>s DEF Redo, Approve, OpenTrip, Offer, OpenInvoice, OpenIntent, Saved
<1>3. CASE Expire
    BY <1>3 DEF Expire
<1>4. CASE status' = status
    BY <1>4
<1> QED
    BY <1>1, <1>2, <1>3, <1>4 DEF Next, Poll, StartPoll, EndNew, Done, DealtWith, KnownThread,
       Dispatch, Read, Clarify, Stage, Collect, FindReceipt, Book, Booked, Attempt, Propose,
       RefuseDraft, Draft, Summary, RecordPending, Resume, Reask, Redone, Reject, Keep, Execute,
       NoPlan, SkipInvoice, CreateInvoice, Report, RefuseSend, ApproveSend, Send, MarkSent,
       Confirm, RejectDraft, Delete, Discard, BookFails, DraftFails, Fail, Crash, Stop,
       SkipThread, Arrive, DayPasses, Midnight, Turn, Answer, intents, vars

\* Only threads with an intent are read.
LEMMA OpenStep ==
  TypeOK /\ Flow /\ (\A t \in open : status[t] # "none") /\ [Next]_vars =>
    \A t \in open' : status'[t] # "none"
<1> SUFFICES ASSUME TypeOK, Flow, \A t \in open : status[t] # "none", [Next]_vars
             PROVE  \A t \in open' : status'[t] # "none"
    OBVIOUS
<1>1. CASE EndNew
    BY <1>1, StatusStays DEF EndNew, Open
<1>2. CASE open' \subseteq open
    BY <1>2, StatusStays DEF TypeOK
<1> QED
    BY <1>1, <1>2 DEF Next, Poll, StartPoll, Expire, Done, DealtWith, Settle, KnownThread, Dispatch,
       Read, OpenTrip, Clarify, Stage, Collect, FindReceipt, Book, Booked, Attempt, Offer,
       Propose, RefuseDraft, Draft, Summary, OpenInvoice, RecordPending, Resume, Reask, Redo,
       Redone, Reject, Keep, Approve, Execute, NoPlan, SkipInvoice, CreateInvoice, Report,
       RefuseSend, ApproveSend, Send, MarkSent, Confirm, RejectDraft, Delete, Discard,
       BookFails, DraftFails, Fail, Crash, Stop, SkipThread, Arrive, DayPasses, Midnight, Turn,
       Answer, OpenIntent, poll, vars

LEMMA RoutedStep == TypeOK /\ Flow /\ HasMax /\ Routed /\ [Next]_vars => Routed'
<1> SUFFICES ASSUME TypeOK, Flow, HasMax, Routed, [Next]_vars PROVE Routed'
    OBVIOUS
<1>s. status \in [Threads -> States] /\ crashes \in Nat /\ processed \subseteq Mails
      /\ seen \subseteq Mails
      /\ talk \in [Threads -> [opener : 0..MaxMail, to : 0..MaxMail, at : 0..MaxMail]]
    BY BoundsAssumption DEF TypeOK, States
<1>o. \A t \in open' : status'[t] # "none"
    BY OpenStep DEF Routed
<1>h. pc \notin Resting => hand \in Mails /\ T \in Threads
    BY InHand
<1>m. \A m \in Mails : mail[m].thread \in Threads
    BY MailsAreNumbers
\* Nothing is read or processed.
<1>1. ASSUME UNCHANGED <<mail, processed, hand, fetched, seen, crashes>>,
             \A t \in Threads : talk'[t].opener = talk[t].opener,
             pc' \in Resting \cup Unopened => pc \in Resting \cup Unopened
      PROVE  Routed'
  <2>1. T' = T /\ Mails' = Mails /\ \A t \in Threads : Of(t)' = Of(t)
      BY <1>1 DEF T, Mails, Of
  <2>2. \A t \in Threads : status[t] # "none" => status'[t] # "none"
      BY StatusStays
  <2>3. Taken'
    <3>1. CASE fetched = {}
        BY <1>1, <3>1 DEF Taken
    <3>2. CASE fetched # {}
      <4>1. pc \notin Resting \cup Unopened /\ pc' \notin Resting \cup Unopened /\ T \in Threads
          BY <1>h, <1>1, <3>2 DEF Routed, Taken
      <4>2. /\ hand \notin processed \cup seen /\ status[T] # "none"
            /\ \A m \in Of(T) : m < hand => m \in fetched
          BY <3>2 DEF Routed, Taken
      <4>3. Of(T)' = Of(T) /\ status'[T] # "none"
          BY <1>1, <2>2, <4>1, <4>2 DEF T, Mails, Of
      <4> QED
          BY <1>1, <2>1, <4>1, <4>2, <4>3 DEF Taken
    <3> QED
        BY <3>1, <3>2
  <2>4. crashes' = 0 => NoneWaits'
      BY <1>1, <1>s, <1>m, <2>1 DEF Routed, NoneWaits, Of
  <2>5. \A n \in processed' : status'[mail'[n].thread] # "none"
      BY <1>1, <1>s, <1>m, <2>2 DEF Routed
  <2> QED
      BY <1>o, <2>3, <2>4, <2>5 DEF Routed
<1>2. CASE StartPoll \/ EndNew \/ DayPasses \/ Midnight \/ (\E m \in Mails : KnownThread(m))
           \/ (\E t \in Threads : SkipThread(t))
  <2>1. UNCHANGED <<mail, processed, hand, fetched, seen, crashes, talk, status>>
      BY <1>2 DEF StartPoll, EndNew, DayPasses, Midnight, KnownThread, SkipThread, gmail,
         intents, history, poll
  <2>2. pc \in Resting
      BY <1>2 DEF StartPoll, EndNew, DayPasses, Midnight, KnownThread, Upcoming, SkipThread,
         Goto, Resting
  <2> QED
      BY <1>1, <2>1, <2>2
<1>3. ASSUME NEW m \in Mails, NEW k \in Kinds, Dispatch(m, k) PROVE Routed'
  <2>1. UNCHANGED <<mail, processed, talk, status, fetched, crashes>> /\ pc = "new"
        /\ seen \subseteq seen'
      BY <1>3 DEF Dispatch, Upcoming, intents
  <2>2. fetched = {}
      BY <2>1 DEF Routed, Taken, Resting
  <2> QED
      BY <1>o, <2>1, <2>2 DEF Routed, Taken, NoneWaits, Of, Mails
<1>4. CASE Fail \/ Crash
  <2>1. UNCHANGED <<mail, processed, talk, status>> /\ fetched' = {}
      BY <1>4 DEF Fail, Crash, Stop, Release, gmail, intents
  <2>2. crashes' = 0 => crashes = 0 /\ seen' = seen
      BY <1>4, <1>s DEF Fail, Crash
  <2> QED
      BY <1>o, <2>1, <2>2 DEF Routed, Taken, NoneWaits, Of, Mails
<1>5. CASE Expire
  <2>1. \A t \in Threads : status'[t] \in {status[t], "EXPIRED"}
      BY <1>5 DEF Expire
  <2>2. UNCHANGED <<mail, processed, hand, fetched, seen, crashes, talk>> /\ pc = "replies"
      BY <1>5 DEF Expire, Goto, gmail, history
  <2> QED
      BY <1>1, <2>1, <2>2 DEF Resting
<1>6. CASE Settle
  <2>1. pc = "settle" /\ pc' = "done" /\ status' = [status EXCEPT ![T] = outcome]
        /\ UNCHANGED <<mail, processed, hand, fetched, seen, crashes, talk>>
      BY <1>6 DEF Settle, Goto, Saved, gmail, history
  <2>2. T \in Threads /\ outcome # "none"
      BY <1>h, <2>1 DEF Flow, Resting, Terminal
  <2>3. \A t \in Threads : status'[t] = IF t = T THEN outcome ELSE status[t]
      BY <1>s, <2>1, <2>2
  <2> QED
      BY <1>1, <2>1, <2>2, <2>3 DEF Resting, Unopened
<1>7. CASE Redo \/ Approve
  <2>1. /\ pc = "route" /\ pc' \in {"redo", "run", "execute"}
        /\ status' = [status EXCEPT ![T] = "EXECUTING"]
        /\ UNCHANGED <<mail, processed, hand, fetched, seen, crashes, talk>>
      BY <1>7 DEF Redo, Approve, Asked, Saved, Goto, gmail, history
  <2>2. T \in Threads
      BY <1>h, <2>1 DEF Resting
  <2>3. \A t \in Threads : status'[t] \in {status[t], "EXECUTING"}
      BY <1>s, <2>1, <2>2
  <2> QED
      BY <1>1, <2>1, <2>3 DEF Resting, Unopened
<1>8. CASE Clarify \/ FindReceipt \/ Book \/ BookFails \/ Attempt \/ RefuseDraft \/ Draft
           \/ RecordPending \/ DraftFails \/ Resume \/ Reask \/ SkipInvoice \/ MarkSent
           \/ RejectDraft \/ Delete \/ CreateInvoice \/ ApproveSend \/ Send
  <2>1. UNCHANGED <<mail, processed, hand, fetched, seen, crashes, talk, status>>
      BY <1>8 DEF Clarify, FindReceipt, Book, BookFails, Attempt, RefuseDraft, Draft,
         RecordPending, DraftFails, Resume, Reask, SkipInvoice, MarkSent, RejectDraft, Delete,
         CreateInvoice, ApproveSend, Send, Turn, gmail, intents, history
  <2>2. pc' \in Resting \cup Unopened => pc \in Resting \cup Unopened
      BY <1>8 DEF Clarify, FindReceipt, Book, BookFails, Attempt, RefuseDraft, Draft,
         RecordPending, DraftFails, Resume, Reask, SkipInvoice, MarkSent, RejectDraft, Delete,
         CreateInvoice, ApproveSend, Send, Turn, Goto, Resting, Unopened
  <2> QED
      BY <1>1, <2>1, <2>2
<1>9. CASE Booked \/ Reject \/ Keep \/ NoPlan \/ Report \/ RefuseSend \/ Confirm \/ Discard
           \/ Execute
  <2>1. UNCHANGED <<mail, processed, hand, fetched, seen, crashes, talk, status>>
        /\ pc' = "settle"
      BY <1>9 DEF Booked, Reject, Keep, NoPlan, Report, RefuseSend, Confirm, Discard, Execute,
         Answer, Goto, gmail, intents, history
  <2> QED
      BY <1>1, <2>1 DEF Resting, Unopened
<1>10. CASE Stage \/ Summary \/ Propose \/ Collect \/ Redone
  <2>1. UNCHANGED <<mail, processed, hand, fetched, seen, crashes, status>>
        /\ pc \notin Resting
      BY <1>10 DEF Stage, Agent, Summary, Propose, Collect, Redone, Turn, Answer, Goto, Resting,
         gmail, intents, history
  <2>2. pc' \in Resting \cup Unopened => pc \in Resting \cup Unopened
      BY <1>10 DEF Stage, Summary, Propose, Collect, Redone, Turn, Answer, Goto, Resting, Unopened
  <2>3. Show \/ talk' = talk
      BY <1>10 DEF Stage, Summary, Propose, Collect, Redone, history
  <2>4. \A t \in Threads : talk'[t].opener = talk[t].opener
    <3>1. CASE talk' = talk
        BY <3>1
    <3>2. CASE Show
      <4>1. talk' = [talk EXCEPT ![T].to = hand, ![T].at = Len(mail)] /\ T \in Threads
          BY <1>h, <2>1, <3>2 DEF Show
      <4> QED
          BY <1>s, <4>1
    <3> QED
        BY <2>3, <3>1, <3>2
  <2> QED
      BY <1>1, <2>1, <2>2, <2>4
\* The mail that opens an intent is the first of its thread to be processed.
<1>11. CASE OpenTrip \/ Offer \/ OpenInvoice
  <2>1. /\ pc \in {"open", "offer", "openinv"} /\ pc' \in {"turn", "proposal", "record"}
        /\ UNCHANGED <<mail, hand, fetched, seen, crashes>> /\ processed' = processed \cup {hand}
        /\ talk' = [talk EXCEPT ![T].opener = hand]
      BY <1>11 DEF OpenTrip, Offer, OpenInvoice, OpenIntent, Goto, gmail
  <2>2. T \in Threads /\ hand \in Mails /\ status[T] = "none"
      BY <1>h, <2>1 DEF Flow, Unopened, Resting
  <2>3. status'[T] # "none" /\ \A t \in Threads \ {T} : status'[t] = status[t]
      BY <1>11, <1>s, <2>2 DEF OpenTrip, Offer, OpenInvoice, OpenIntent, Saved
  <2>4. talk'[T].opener = hand /\ \A t \in Threads \ {T} : talk'[t] = talk[t]
      BY <1>s, <2>1, <2>2
  <2>5. \A n \in processed : mail[n].thread # T
      BY <1>o, <2>2 DEF Routed
  <2>6. fetched = {}
      BY <2>1 DEF Routed, Taken, Unopened
  <2>7. \A n \in processed' : status'[mail'[n].thread] # "none"
      BY <1>s, <1>m, <2>1, <2>3, <2>5 DEF Routed, T
  <2>8. Taken'
      BY <2>1, <2>6 DEF Taken
  <2>9. crashes' = 0 => NoneWaits'
    <3> SUFFICES ASSUME crashes = 0, NEW n \in processed \cup {hand},
                        n # talk'[mail[n].thread].opener, NEW m \in Of(mail[n].thread), m < n
                 PROVE  m \in processed \cup {hand} \cup seen
        BY <2>1 DEF NoneWaits, Of, Mails
    <3>1. n \in processed
        BY <2>4 DEF T
    <3>2. talk'[mail[n].thread] = talk[mail[n].thread]
        BY <1>s, <1>m, <2>4, <2>5, <3>1
    <3> QED
        BY <3>1, <3>2 DEF Routed, NoneWaits
  <2> QED
      BY <1>o, <2>7, <2>8, <2>9 DEF Routed
<1>12. ASSUME NEW t \in Threads, Read(t) PROVE Routed'
  <2>1. UNCHANGED <<mail, processed, talk, status, crashes>> /\ pc = "replies"
        /\ seen \subseteq seen' /\ fetched = {}
      BY <1>12 DEF Read, gmail, intents, history, Routed, Taken, Resting
  <2>2. CASE Waiting(t) = {}
    <3>1. fetched' = {}
        BY <1>12, <2>1, <2>2 DEF Read
    <3> QED
        BY <1>o, <2>1, <3>1 DEF Routed, Taken, NoneWaits, Of, Mails
  <2>3. CASE Waiting(t) # {}
    <3>1. /\ pc' = "route" /\ hand' = Latest(Waiting(t)) /\ seen' = seen /\ fetched' = Of(t)
          /\ Waiting(t) \in SUBSET Mails
        BY <1>12, <2>3 DEF Read, Waiting, Of
    <3>2. hand' \in Waiting(t)
        BY <2>3, <3>1, LatestIsOne
    <3>3. T' = t /\ hand' \notin seen \cup processed
        BY <2>1, <3>2 DEF Waiting, Of, T
    <3>4. Of(T)' = fetched'
        BY <2>1, <3>1, <3>3 DEF Of, Mails
    <3>5. Taken'
      <4>1. status[t] # "none"
          BY <1>12 DEF Read, Routed
      <4> QED
          BY <2>1, <3>1, <3>3, <3>4, <4>1 DEF Taken, Resting, Unopened
    <3> QED
        BY <1>o, <2>1, <3>1, <3>5 DEF Routed, NoneWaits, Of, Mails
  <2> QED
      BY <2>2, <2>3
\* A reply is processed, and all that was read with it seen.
<1>13. CASE Done
  <2>1. /\ pc = "done" /\ UNCHANGED <<mail, talk, status, crashes>> /\ fetched' = {}
        /\ \/ seen' = seen \cup {hand} /\ processed' = processed
           \/ /\ fetched # {} /\ seen' = seen \cup fetched
              /\ processed' = processed \cup {hand}
      BY <1>13 DEF Done, DealtWith, Release, gmail, history
  <2>2. T \in Threads /\ hand \in Mails
      BY <1>h, <2>1 DEF Resting
  <2>3. /\ fetched # {} => status[T] # "none" /\ \A m \in Of(T) : m < hand => m \in fetched
        /\ \A t \in open' : status[t] # "none"
      BY <1>13 DEF Done, DealtWith, Routed, Taken
  <2> QED
      BY <1>o, <2>1, <2>2, <2>3 DEF Routed, Taken, NoneWaits, Of, Mails, T
<1>14. ASSUME NEW t \in Threads, NEW s \in Words \cup {"ask"}, Arrive(t, s) PROVE Routed'
  <2>1. UNCHANGED <<pc, status, hand, fetched, talk, processed, seen, crashes>>
      BY <1>14 DEF Arrive, intents, poll
  <2>2. PICK new : /\ Mails' = Mails \cup {new} /\ new \notin Mails
                   /\ \A m \in Mails : mail'[m] = mail[m] /\ m < new
                   /\ new \in Nat
      BY <1>14, NewMail, MailsAreNumbers
  <2>3. pc \notin Resting => T' = T
      BY <1>h, <2>1, <2>2 DEF T
  <2>4. \A n \in Mails : \A m \in Mails' :
          m < n /\ mail'[m].thread = mail[n].thread => m \in Of(mail[n].thread)
    <3> SUFFICES ASSUME NEW n \in Mails, NEW m \in Mails', m < n,
                        mail'[m].thread = mail[n].thread
                 PROVE  m \in Of(mail[n].thread)
        OBVIOUS
    <3>1. m # new
        BY <2>2, MailsAreNumbers
    <3> QED
        BY <2>2, <3>1 DEF Of
  <2>5. Taken'
    <3>1. CASE fetched = {}
        BY <2>1, <3>1 DEF Taken
    <3>2. CASE fetched # {}
      <4>1. pc \notin Resting /\ T' = T /\ hand \in Mails
          BY <1>h, <2>3, <3>2 DEF Routed, Taken
      <4>2. T = mail[hand].thread
          BY DEF T
      <4>3. \A m \in Of(T)' : m < hand => m \in fetched
        <5> SUFFICES ASSUME NEW m \in Mails', mail'[m].thread = T, m < hand
                     PROVE  m \in fetched
            BY <4>1 DEF Of
        <5>1. m \in Of(T)
            BY <2>4, <4>1, <4>2
        <5> QED
            BY <3>2, <5>1 DEF Routed, Taken
      <4>4. pc \notin Unopened /\ hand \notin processed \cup seen /\ status[T] # "none"
          BY <3>2 DEF Routed, Taken
      <4> QED
          BY <1>h, <2>1, <2>2, <3>2, <4>1, <4>3, <4>4, StatusStays DEF Taken
    <3> QED
        BY <3>1, <3>2
  <2>6. crashes' = 0 => NoneWaits'
      BY <1>s, <2>1, <2>2, <2>4 DEF Routed, NoneWaits, Of
  <2> QED
      BY <1>o, <1>s, <2>1, <2>2, <2>5, <2>6 DEF Routed
<1>15. CASE UNCHANGED vars
    BY <1>15, <1>1 DEF vars, gmail, intents, poll, history
<1> QED
    BY <1>2, <1>3, <1>4, <1>5, <1>6, <1>7, <1>8, <1>9, <1>10, <1>11, <1>12, <1>13, <1>14, <1>15
       DEF Next, Poll

-----------------------------------------------------------------------------
(* Work is done once *)

\* A plan that is carried out has not been before, and what a reply leads to is
\* saved in an intent that is open.
Undone ==
  /\ pc \in {"run", "execute"} => Calm(T)
  /\ pc = "settle" => status[T] \in Open

LEMMA UndoneInit == Init => Undone
<1> QED
    BY DEF Init, Undone

LEMMA UndoneStep == TypeOK /\ Flow /\ Acting /\ Undone /\ [Next]_vars => Undone'
<1> SUFFICES ASSUME TypeOK, Flow, Acting, Undone, [Next]_vars PROVE Undone'
    OBVIOUS
<1>h. pc \notin Resting => hand \in Mails /\ T \in Threads
    BY InHand
<1>1. CASE pc' \notin {"run", "execute", "settle"}
    BY <1>1 DEF Undone
\* The intent is open when its operator is answered.
<1>2. ASSUME UNCHANGED <<mail, status, hand>>, pc' = "settle", status[T] \in Open PROVE Undone'
    BY <1>2 DEF Undone, T
<1>3. CASE Collect \/ Booked \/ Execute \/ NoPlan \/ Report \/ Confirm \/ Discard \/ Redone
  <2>1. UNCHANGED <<mail, status, hand>> /\ pc' = "settle"
        /\ pc \in Clarifying \cup Deciding \cup Executing
      BY <1>3 DEF Collect, Booked, Execute, NoPlan, Report, Confirm, Discard, Redone, Answer, Goto,
         gmail, intents, Clarifying, Booking, Deciding, Executing
  <2> QED
      BY <1>2, <2>1 DEF Flow, Open
<1>4. CASE Reject \/ Keep \/ RefuseSend
  <2>1. UNCHANGED <<mail, status, hand>> /\ pc' = "settle" /\ status[T] = "AWAITING_APPROVAL"
      BY <1>4 DEF Reject, Keep, RefuseSend, Asked, Answer, Goto, gmail, intents
  <2> QED
      BY <1>2, <2>1 DEF Open
<1>5. CASE Approve
  <2>1. pc = "route" /\ pc' \in {"run", "execute"} /\ UNCHANGED <<mail, hand, acted>>
        /\ status[T] = "AWAITING_APPROVAL" /\ kind[T] # "invoice"
      BY <1>5 DEF Approve, Asked, Goto, gmail, history
  <2>2. Calm(T)
      BY <1>h, <2>1, CalmBefore DEF Resting
  <2> QED
      BY <2>1, <2>2 DEF Undone, Calm, T
<1>6. ASSUME NEW t \in Threads, NEW s \in Words \cup {"ask"}, Arrive(t, s) PROVE Undone'
  <2>1. UNCHANGED <<pc, status, hand, acted>> /\ \A m \in Mails : mail'[m] = mail[m]
      BY <1>6, NewMail DEF Arrive, intents, poll
  <2>2. pc \in {"run", "execute", "settle"} => T' = T
      BY <1>h, <2>1 DEF Resting, T
  <2>3. \A m \in acted : mail'[m] = mail[m]
      BY <2>1 DEF TypeOK
  <2> QED
      BY <2>1, <2>2, <2>3 DEF Undone, Calm
<1>7. CASE UNCHANGED vars
    BY <1>7 DEF vars, gmail, intents, poll, history, Undone, Calm, T
<1>8. ASSUME NEW m \in Mails, NEW k \in Kinds, Dispatch(m, k) PROVE Undone'
  <2>1. k \in {"trip", "ad_hoc", "invoice", "other"}
      BY KindsAssumption
  <2> QED
      BY <1>1, <1>8, <2>1 DEF Dispatch, Upcoming
<1>9. CASE StartPoll \/ EndNew \/ Expire \/ Done \/ Settle \/ (\E m \in Mails : KnownThread(m))
           \/ (\E t \in Threads : Read(t) \/ SkipThread(t)) \/ Fail \/ Crash \/ DayPasses \/ Midnight
    BY <1>1, <1>9 DEF StartPoll, EndNew, Expire, Done, DealtWith, Settle, KnownThread, Upcoming,
       Read, SkipThread, Fail, Crash, Stop, DayPasses, Midnight, Goto, poll
<1>10. CASE OpenTrip \/ Offer \/ OpenInvoice \/ Redo \/ CreateInvoice \/ SkipInvoice \/ ApproveSend
            \/ Send \/ MarkSent \/ RejectDraft \/ Delete
    BY <1>1, <1>10 DEF OpenTrip, Offer, OpenInvoice, Redo, CreateInvoice, SkipInvoice, ApproveSend,
       Send, MarkSent, RejectDraft, Delete, Turn, Goto
<1>11. CASE Clarify \/ Stage \/ FindReceipt \/ Book \/ BookFails \/ Attempt \/ Propose \/ RefuseDraft
            \/ Draft \/ Summary \/ RecordPending \/ DraftFails \/ Resume \/ Reask
    BY <1>1, <1>11 DEF Clarify, Stage, FindReceipt, Book, BookFails, Attempt, Propose, RefuseDraft,
       Draft, Summary, RecordPending, DraftFails, Resume, Reask, Agent, Booking, Drafting, Turn, Goto
<1> QED
    BY <1>3, <1>4, <1>5, <1>6, <1>7, <1>8, <1>9, <1>10, <1>11 DEF Next, Poll

\* A thread in which nothing was done shows no work.
LEMMA CalmIsEmpty == ASSUME NEW t \in Threads, Calm(t) PROVE WorkOf(t) = {}
<1> QED
    BY DEF Calm, WorkOf

\* The abstract state moves only with what it shows.
Same == \A t \in Threads : Phase(t)' = Phase(t) /\ WorkOf(t)' = WorkOf(t)

LEMMA SameStutters == Same => UNCHANGED Promised!vars
<1> QED
    BY DEF Same, Promised!vars

\* One thread's phase changes, and no work is done.
LEMMA PhaseMoves ==
  ASSUME NEW t \in Threads, NEW from, NEW to, Phase(t) = from, Phase(t)' = to,
         \A u \in Threads \ {t} : Phase(u)' = Phase(u),
         \A u \in Threads : WorkOf(u)' = WorkOf(u)
  PROVE  Promised!Move(t, from, to)
<1> QED
    BY DEF Promised!Move

LEMMA WorkMaps ==
  TypeOK /\ Flow /\ Acting /\ Undone /\ [Next]_vars => Promised!Next \/ Same
<1> SUFFICES ASSUME TypeOK, Flow, Acting, Undone, [Next]_vars PROVE Promised!Next \/ Same
    OBVIOUS
<1>s. status \in [Threads -> States] /\ kind \in [Threads -> {"none", "trip", "auto", "steps", "invoice"}]
      /\ acted \subseteq Mails
    BY DEF TypeOK, States
<1>h. pc \notin Resting => hand \in Mails /\ T \in Threads
    BY InHand
<1>1. CASE UNCHANGED <<mail, status, kind, acted>>
    BY <1>1 DEF Same, Phase, WorkOf
<1>2. CASE StartPoll \/ EndNew \/ Done \/ (\E m \in Mails : KnownThread(m))
           \/ (\E m \in Mails, k \in Kinds : Dispatch(m, k))
           \/ (\E t \in Threads : Read(t) \/ SkipThread(t)) \/ Fail \/ Crash \/ DayPasses \/ Midnight
    BY <1>1, <1>2 DEF StartPoll, EndNew, Done, DealtWith, KnownThread, Dispatch, Read, SkipThread,
       Fail, Crash, Stop, DayPasses, Midnight, gmail, intents, history
<1>3. CASE Clarify \/ Stage \/ Collect \/ FindReceipt \/ Book \/ Booked \/ BookFails \/ Attempt
           \/ Propose \/ RefuseDraft \/ Draft \/ Summary \/ RecordPending \/ DraftFails \/ Resume
    BY <1>1, <1>3 DEF Clarify, Stage, Collect, FindReceipt, Book, Booked, BookFails, Attempt, Propose,
       RefuseDraft, Draft, Summary, RecordPending, DraftFails, Resume, Turn, Answer, gmail, intents,
       history
<1>4. CASE Reask \/ Reject \/ Keep \/ NoPlan \/ SkipInvoice \/ Report \/ RefuseSend \/ ApproveSend
           \/ MarkSent \/ Confirm \/ RejectDraft \/ Delete \/ Discard
    BY <1>1, <1>4 DEF Reask, Reject, Keep, NoPlan, SkipInvoice, Report, RefuseSend, ApproveSend,
       MarkSent, Confirm, RejectDraft, Delete, Discard, Turn, Answer, gmail, intents, history
\* The intent in hand changes, and nothing was done for it.
<1>5. ASSUME NEW t \in Threads, Calm(t), UNCHANGED <<mail, acted>>,
             \A u \in Threads \ {t} : status'[u] = status[u] /\ kind'[u] = kind[u]
      PROVE  /\ \A u \in Threads : WorkOf(u)' = WorkOf(u)
             /\ \A u \in Threads \ {t} : Phase(u)' = Phase(u)
    BY <1>5 DEF Calm, WorkOf, Phase
<1>6. CASE OpenTrip \/ Offer \/ OpenInvoice
  <2>1. UNCHANGED <<mail, acted>> /\ pc \in Unopened
      BY <1>6 DEF OpenTrip, Offer, OpenInvoice, OpenIntent, Goto, Unopened, gmail
  <2>2. PICK t \in Threads : t = T /\ status[t] = "none"
      BY <1>h, <2>1 DEF Flow, Unopened, Resting
  <2>3. \A u \in Threads \ {t} : status'[u] = status[u] /\ kind'[u] = kind[u]
      BY <1>6, <1>s, <2>2 DEF OpenTrip, Offer, OpenInvoice, OpenIntent, Saved
  <2>4. status'[t] \in {"AWAITING_CLARIFICATION", "AWAITING_APPROVAL"}
      BY <1>6, <1>s, <2>2 DEF OpenTrip, Offer, OpenInvoice, OpenIntent, Saved
  <2>5. Phase(t) = "none" /\ Phase(t)' = "asked"
      BY <2>2, <2>4 DEF Phase, Terminal
  <2>6. Promised!Ask(t)
      BY <1>5, <2>1, <2>2, <2>3, <2>5, CalmBefore, PhaseMoves DEF Promised!Ask
  <2> QED
      BY <2>6 DEF Promised!Next
<1>7. CASE Approve \/ Redo
  <2>1. /\ UNCHANGED <<mail, acted, kind>> /\ pc = "route" /\ status[T] = "AWAITING_APPROVAL"
        /\ kind[T] # "invoice" /\ status' = [status EXCEPT ![T] = "EXECUTING"]
      BY <1>7 DEF Approve, Redo, Asked, Saved, Goto, gmail, history
  <2>2. PICK t \in Threads : t = T
      BY <1>h, <2>1 DEF Resting
  <2>3. \A u \in Threads : status'[u] = IF u = t THEN "EXECUTING" ELSE status[u]
      BY <1>s, <2>1, <2>2
  <2>4. Phase(t) = "asked" /\ Phase(t)' = "begun"
      BY <2>1, <2>2, <2>3 DEF Phase, Terminal
  <2>5. Calm(t)
      BY <2>1, <2>2, CalmBefore
  <2>6. Promised!Begin(t)
      BY <1>5, <2>1, <2>3, <2>4, <2>5, PhaseMoves DEF Promised!Begin
  <2> QED
      BY <2>6 DEF Promised!Next
<1>8. CASE Redone
  <2>1. UNCHANGED <<mail, acted, status>> /\ pc = "redo" /\ kind[T] = "auto"
        /\ \E k : kind' = [kind EXCEPT ![T] = k]
      BY <1>8 DEF Redone, Goto, Flow, gmail
  <2>2. PICK t \in Threads : t = T
      BY <1>h, <2>1 DEF Resting
  <2>3. \A u \in Threads \ {t} : kind'[u] = kind[u]
      BY <1>s, <2>1, <2>2
  <2>4. Calm(t)
      BY <2>1, <2>2, CalmBefore
  <2> QED
      BY <1>5, <2>1, <2>3, <2>4 DEF Same, Phase
<1>9. CASE Settle
  <2>1. UNCHANGED <<mail, acted, kind>> /\ pc = "settle" /\ status' = [status EXCEPT ![T] = outcome]
      BY <1>9 DEF Settle, Goto, Saved, gmail, history
  <2>2. outcome \in Terminal \cup {"AWAITING_APPROVAL"} /\ status[T] \in Open
      BY <2>1 DEF Flow, Undone
  <2>3. PICK t \in Threads : t = T
      BY <1>h, <2>1 DEF Resting
  <2>4. \A u \in Threads : status'[u] = IF u = t THEN outcome ELSE status[u]
      BY <1>s, <2>1, <2>3
  <2>5. \A u \in Threads : WorkOf(u)' = WorkOf(u)
      BY <2>1 DEF WorkOf
  <2>6. Phase(t) \in {"asked", "begun"}
      BY <2>2, <2>3 DEF Phase, Open, Terminal
  <2>7. \A u \in Threads \ {t} : Phase(u)' = Phase(u)
      BY <2>4 DEF Phase
  <2>8. CASE outcome \in Terminal
    <3>1. \A u \in Threads : Phase(u)' = IF u \in {t} THEN "over" ELSE Phase(u)
        BY <2>4, <2>7, <2>8 DEF Phase, Terminal
    <3>2. Promised!Close({t})
        BY <2>5, <2>6, <3>1 DEF Promised!Close
    <3> QED
        BY <3>2 DEF Promised!Next
  <2>9. CASE outcome = "AWAITING_APPROVAL"
    <3>1. WorkOf(t) = {}
        BY <2>1, <2>3, <2>9, CalmIsEmpty DEF Acting, Terminal
    <3>2. Phase(t)' = "asked"
        BY <2>4, <2>9 DEF Phase, Terminal
    <3>3. CASE Phase(t) = "asked"
        BY <2>5, <2>7, <3>2, <3>3 DEF Same
    <3>4. CASE Phase(t) = "begun"
      <4>1. Promised!AskAgain(t)
          BY <2>5, <2>7, <3>1, <3>2, <3>4, PhaseMoves DEF Promised!AskAgain
      <4> QED
          BY <4>1 DEF Promised!Next
    <3> QED
        BY <2>6, <3>3, <3>4
  <2> QED
      BY <2>2, <2>8, <2>9
<1>10. CASE Expire
  <2>1. UNCHANGED <<mail, acted, kind>>
        /\ status' = [t \in Threads |-> IF t \in idle THEN "EXPIRED" ELSE status[t]]
      BY <1>10 DEF Expire, gmail, history
  <2>2. idle \subseteq Threads /\ \A t \in idle : status[t] \in Open
      BY DEF TypeOK
  <2>3. \A t \in idle : Phase(t) \in {"asked", "begun"}
      BY <2>2 DEF Phase, Open, Terminal
  <2>4. \A t \in Threads : Phase(t)' = IF t \in idle THEN "over" ELSE Phase(t)
      BY <2>1 DEF Phase, Terminal
  <2>5. \A t \in Threads : WorkOf(t)' = WorkOf(t)
      BY <2>1 DEF WorkOf
  <2>6. Promised!Close(idle)
      BY <2>2, <2>3, <2>4, <2>5 DEF Promised!Close
  <2> QED
      BY <2>2, <2>6 DEF Promised!Next
<1>11. CASE Execute \/ CreateInvoice
  <2>1. UNCHANGED <<mail, status, kind>> /\ pc \in {"run", "execute"} /\ Act
      BY <1>11 DEF Execute, CreateInvoice, Answer, Turn, Goto, gmail, intents
  <2>2. T \in Threads /\ hand \in Numbers /\ Calm(T)
      BY <1>h, <2>1, MailsAreNumbers DEF Undone, Resting
  <2>3. status[T] = "EXECUTING" /\ kind[T] # "invoice"
      BY <2>1 DEF Flow, Acting, Executing
  <2>4. \A t \in Threads : Phase(t)' = Phase(t)
      BY <2>1 DEF Phase
  <2>5. \A t \in Threads : WorkOf(t)' = IF t = T THEN {hand} ELSE WorkOf(t)
      BY <2>1, <2>2, <2>3 DEF WorkOf, Calm, Act, T
  <2>6. Phase(T) = "begun" /\ WorkOf(T) = {}
      BY <2>2, <2>3, CalmIsEmpty DEF Phase, Terminal
  <2>7. Promised!Work(T, hand)
      BY <2>2, <2>4, <2>5, <2>6 DEF Promised!Work
  <2> QED
      BY <2>2, <2>7 DEF Promised!Next
\* The ledger speaks of the drafts that are emailed.
<1>12. CASE Send
  <2>1. UNCHANGED <<mail, status, kind>> /\ pc = "send" /\ Act
      BY <1>12 DEF Send, Turn, Goto, gmail, intents
  <2>2. kind[T] = "invoice"
      BY <2>1 DEF Acting
  <2> QED
      BY <2>1, <2>2 DEF Same, Phase, WorkOf, Act, T
<1>13. ASSUME NEW t \in Threads, NEW s \in Words \cup {"ask"}, Arrive(t, s) PROVE Same
  <2>1. UNCHANGED <<status, kind, acted>> /\ \A m \in Mails : mail'[m] = mail[m]
      BY <1>13, NewMail DEF Arrive, intents
  <2> QED
      BY <1>s, <2>1 DEF Same, Phase, WorkOf
<1>14. CASE UNCHANGED vars
    BY <1>1, <1>14 DEF vars, gmail, intents, history
<1> QED
    BY <1>2, <1>3, <1>4, <1>6, <1>7, <1>8, <1>9, <1>10, <1>11, <1>12, <1>13, <1>14 DEF Next, Poll

-----------------------------------------------------------------------------
(* The theorems *)

Inv == TypeOK /\ Flow /\ HasMax /\ Standing /\ Balance /\ Acting /\ Listening /\ Single /\ Routed
       /\ OnRecord /\ Undone

\* No step of the poll, failure, crash, mail or day breaks the invariant.
LEMMA Invariance == Spec => []Inv
<1>1. Init => Inv
    BY TypeInit, FlowInit, MaxInit, StandingInit, BalanceInit, ListeningInit, SingleInit,
       RoutedInit, OnRecordInit, UndoneInit DEF Inv
<1>2. Inv /\ [Next]_vars => Inv'
    BY TypeStep, FlowStep, MaxStep, StandingStep, BalanceStep, ActingStep, ListeningStep,
       SingleStep, RoutedStep, OnRecordStep, UndoneStep DEF Inv
<1> QED
    BY <1>1, <1>2, PTL DEF Spec

\* Every variable of the daemon keeps its type: a mail in hand exists, only
\* open intents are idle, and a thread has a kind when it has a status.
THEOREM TypeCorrect == Spec => []TypeOK
<1>1. Inv => TypeOK
    BY DEF Inv
<1> QED
    BY <1>1, Invariance, PTL

\* A thread is invoiced once (email_runner.py:1133): any number of failures
\* and crashes, of mails and threads.
THEOREM InvoicesOnce == Spec => []InvoicedOnce
<1>1. Inv => InvoicedOnce
  <2> SUFFICES ASSUME Inv, NEW t \in Threads PROVE Cardinality(Invoiced(t)) <= 1
      BY DEF InvoicedOnce
  <2>1. \A i, j \in Invoiced(t) : i = j
      BY DEF Inv, Standing
  <2>2. CASE Invoiced(t) = {}
      BY <2>2, FS_EmptySet
  <2>3. CASE Invoiced(t) # {}
    <3>1. PICK i : Invoiced(t) = {i}
        BY <2>1, <2>3
    <3>2. Cardinality({i}) = 1
        BY FS_Singleton
    <3> QED
        BY <3>1, <3>2
  <2> QED
      BY <2>2, <2>3
<1> QED
    BY <1>1, Invariance, PTL

\* An invoice is emailed once, and once more for each time the daemon stopped
\* between the email and its row or left a draft behind
\* (invoice_intent.py:312, 318-319, 329).
THEOREM SendsOnce == Spec => []SentOnce
<1>1. Inv => SentOnce
  <2> SUFFICES ASSUME Inv, NEW t \in Threads PROVE sends[t] <= 1 + unsure + strays
      BY DEF SentOnce
  <2>1. sends[t] <= 1 + Slack
      BY DEF Inv, Balance
  <2>2. sends[t] \in Nat /\ unsure \in Nat /\ strays \in Nat
      BY DEF Inv, TypeOK
  <2> QED
      BY <2>1, <2>2 DEF Slack
<1> QED
    BY <1>1, Invariance, PTL

\* QuickBooks holds one invoice of a day's request, and one more for each time
\* the daemon stopped between making and recording a draft or could not delete
\* it (invoice_intent.py:246-278, 329), however many threads ask for it.
THEOREM DraftedOnce == Spec => []OneDraftPerRequest
<1>1. Inv => OneDraftPerRequest
  <2> SUFFICES ASSUME Inv PROVE Cardinality(Pairs(drafts, fresh)) <= 1 + strays
      BY DEF OneDraftPerRequest, DraftsOf, Pairs
  <2>1. strays \in Nat /\ strays + 1 \in Nat
      BY DEF Inv, TypeOK
  <2>2. AtMost(Pairs(drafts, fresh), strays + 1)
      BY <2>1, PairsPart, AtMostPart DEF Inv, OnRecord, Counted
  <2> QED
      BY <2>1, <2>2 DEF AtMost
<1> QED
    BY <1>1, Invariance, PTL

\* The mail that a proposal answers is not taken for its approval
\* (email_runner.py:592, 658), as long as the daemon does not crash.
THEOREM NoSelfApproval == Spec => []NoMailApprovesItself
<1>1. Inv => NoMailApprovesItself
    BY DEF Inv, Listening, Heard, NoMailApprovesItself
<1> QED
    BY <1>1, Invariance, PTL

\* However many threads ask for it, a trip has one invoice that its marker
\* finds (runner.py:639).
THEOREM TripIsInvoicedOnce == Spec => []OneInvoicePerTrip
<1>1. Inv => OneInvoicePerTrip
  <2> SUFFICES ASSUME Single PROVE Cardinality(Found) <= 1
      BY DEF Inv, OneInvoicePerTrip, Found
  <2>1. CASE Found = {}
      BY <2>1, FS_EmptySet
  <2>2. CASE Found # {}
    <3>1. PICK i : Found = {i}
        BY <2>2 DEF Single
    <3>2. Cardinality({i}) = 1
        BY FS_Singleton
    <3> QED
        BY <3>1, <3>2
  <2> QED
      BY <2>1, <2>2
<1> QED
    BY <1>1, Invariance, PTL

\* Once a reply was routed no earlier one of its thread is, unless the daemon
\* crashed (email_runner.py:633-661): the earlier ones were read with it.
THEOREM LaterPrevails == Spec => LaterReplyPrevails
<1> DEFINE InTurn == \A m \in processed' \ processed, n \in processed :
             crashes = 0 /\ mail[n].thread = mail[m].thread /\ n # talk[mail[n].thread].opener
               => n < m
<1>1. Inv /\ [Next]_vars => [InTurn]_vars
  <2> SUFFICES ASSUME Inv, [Next]_vars, NEW m \in processed' \ processed, NEW n \in processed,
                      crashes = 0, mail[n].thread = mail[m].thread,
                      n # talk[mail[n].thread].opener
               PROVE  n < m
      OBVIOUS
  <2>i. TypeOK /\ Flow /\ Routed
      BY DEF Inv
  <2>1. CASE OpenTrip \/ Offer \/ OpenInvoice
    <3>1. m = hand /\ pc \in {"open", "offer", "openinv"}
        BY <2>1 DEF OpenTrip, Offer, OpenInvoice, OpenIntent, Goto
    <3>2. status[T] = "none"
        BY <2>i, <3>1 DEF Flow, Unopened
    <3> QED
        BY <2>i, <3>1, <3>2 DEF Routed, T
  <2>2. CASE Done
    <3>1. m = hand /\ fetched # {} /\ pc = "done"
        BY <2>2 DEF Done, DealtWith
    <3>2. m \notin processed \cup seen
        BY <2>i, <3>1 DEF Routed, Taken
    <3>3. m \in Mails /\ n \in Mails
        BY <2>i, <3>1, InHand DEF TypeOK, Resting
    <3>4. ~(m < n)
        BY <2>i, <3>2, <3>3 DEF Routed, NoneWaits, Of
    <3>5. m \in Nat /\ n \in Nat /\ m # n
        BY <2>i, <3>2, <3>3, MailsAreNumbers
    <3> QED
        BY <3>4, <3>5
  <2>3. processed' = processed \/ OpenTrip \/ Offer \/ OpenInvoice \/ Done
      BY DEF Next, Poll, StartPoll, EndNew, Expire, Settle, KnownThread, Dispatch, Read, Clarify,
         Stage, Collect, FindReceipt, Book, Booked, Attempt, Propose, RefuseDraft, Draft, Summary,
         RecordPending, Resume, Reask, Redo, Redone, Reject, Keep, Approve, Execute, NoPlan,
         SkipInvoice, CreateInvoice, Report, RefuseSend, ApproveSend, Send, MarkSent, Confirm,
         RejectDraft, Delete, Discard, BookFails, DraftFails, Fail, Crash, Stop, SkipThread,
         Arrive, DayPasses, Midnight, Turn, Answer, intents, vars
  <2> QED
      BY <2>1, <2>2, <2>3
<1> QED
    BY <1>1, Invariance, PTL DEF Spec, LaterReplyPrevails


\* What an approved trip or plan does is done once, marked begun on disk before
\* (email_runner.py:1133), and closed intents stay closed: for any number of
\* threads, mails, failures and crashes.
THEOREM DaemonImplementsApprovedWork == Spec => ImplementsApprovedWork
<1>1. Init => Promised!Init
  <2> SUFFICES ASSUME Init PROVE Promised!Init
      OBVIOUS
  <2>1. \A t \in Threads : Phase(t) = "none" /\ WorkOf(t) = {}
      BY DEF Init, Phase, WorkOf, Terminal
  <2> QED
      BY <2>1 DEF Promised!Init
<1>2. Inv /\ [Next]_vars => [Promised!Next]_Promised!vars
    BY WorkMaps, SameStutters DEF Inv
<1> QED
    BY <1>1, <1>2, Invariance, PTL DEF Spec, ImplementsApprovedWork, Promised!Spec
=============================================================================
