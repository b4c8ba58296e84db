---------------------------- MODULE MileageDaemon ----------------------------
(***************************************************************************)
(* The headless trip-mileage daemon: a poll takes the operator's mails     *)
(* "yesterday I went to Berkeley", reads calendar and sheet, has the row   *)
(* reviewed by another model, writes it cell by cell and answers.          *)
(*                                                                         *)
(*   skills/trip-mileage-log/run_daemon.py     run_once                    *)
(*   skills/trip-mileage-log/runner.py         the deterministic tiers     *)
(*   skills/trip-mileage-log/mileage_logic.py  what the tiers decide by    *)
(*   skills/trip-mileage-log/send_tool.py      the writes                  *)
(*                                                                         *)
(* Every call that leaves a trace is an action: a label, a cell, a line of *)
(* the distance tab, a reply.  run_once has no handler around them, so an  *)
(* exception ends the poll like a crash.  launchd does not start a poll    *)
(* while one is running.                                                   *)
(*                                                                         *)
(* Abstractions.  A date is a day, and a row of the sheet; words that name *)
(* a day relative to today ("yesterday") are an offset of zero.  What the  *)
(* calendar says of a day is a choice.  An entry of the distance tab is    *)
(* the set of the places it joins to home or to each other.                *)
(***************************************************************************)
EXTENDS Naturals, FiniteSets

CONSTANTS
  Threads,    \* mail threads with the trip label
  Requests,   \* those from an operator address that state a trip
  Dated,      \* those that name their day by its date
  Places,     \* destinations
  Cap,        \* max_writes_per_day
  Empty, Operator, \* what a cell holds that no thread wrote
  MaxDay,     \* bound: days
  MaxAborts   \* bound: polls that an exception or a crash ends

ASSUME ThreadsAssumption == Requests \subseteq Threads /\ Dated \subseteq Threads /\ Threads # {}
ASSUME PlacesAssumption  == IsFiniteSet(Places)
ASSUME CellsAssumption   == Empty # Operator /\ {Empty, Operator} \cap Threads = {}
ASSUME BoundsAssumption  == Cap \in Nat \ {0} /\ {MaxDay, MaxAborts} \subseteq Nat

VARIABLES
  day,
  sent,       \* the day a thread arrived, or NotSent
  attempted, processed,  \* threads that carry the label
  today,      \* threads labelled processed today
  cells,      \* columns H, I, J of each row: who filled them
  tab,        \* how often the distance tab has an entry
  told,       \* the replies in each thread
  wrote,      \* history: how often a thread wrote column H
  writes,     \* history: rows written today
  raced,      \* history: the operator typed into a row being written
  pc, todo, remaining,
  thread, row, new, \* the thread in hand, its row and its new distances
  verdict,    \* what will be told
  aborts

gmail  == <<sent, attempted, processed, today, told>>
sheet  == <<cells, tab>>
past   == <<wrote, writes, raced>>
local  == <<pc, todo, remaining, thread, row, new, verdict>>
vars   == <<day, gmail, sheet, past, local, aborts>>

Days    == 0..MaxDay
Columns == {"H", "I", "J"}
Writers == Threads \cup {Empty, Operator}
NotSent == MaxDay + 1
\* A round trip joins one place to home, a leg two places.
Entries == {S \in SUBSET Places : Cardinality(S) \in {1, 2}}
Verdicts == {"wrote", "nothing", "ignored"}
Locations == {"idle", "next", "read", "attempt", "plan", "review", "apply", "H", "I", "J",
              "append", "tell", "mark"}
SomeThread == CHOOSE t \in Threads : TRUE

TypeOK ==
  /\ day \in Days
  /\ sent \in [Threads -> Days \cup {NotSent}]
  /\ attempted \subseteq Threads
  /\ processed \subseteq Threads /\ today \subseteq processed
  /\ cells \in [Days -> [Columns -> Writers]]
  /\ tab \in [Entries -> Nat]
  /\ told \in [Threads -> SUBSET {"wrote", "nothing"}]
  /\ wrote \in [Threads -> Nat] /\ writes \in Nat /\ raced \in BOOLEAN
  /\ pc \in Locations
  /\ todo \subseteq Threads /\ remaining \in 0..Cap
  /\ thread \in Threads /\ row \in Days
  /\ new \subseteq Entries /\ verdict \in Verdicts
  /\ aborts \in 0..MaxAborts

-----------------------------------------------------------------------------
(* What the tiers decide *)

\* find_date_row of parse_trip_date: relative words mean the day of the poll.
RowOf(t) == IF t \in Dated THEN sent[t] ELSE day

\* row_conflict, and the re-check of the write.  Mutant: only column J counts.
HasReason(r) == cells[r]["J"] # Empty
Populated(r) == \E c \in Columns : cells[r][c] # Empty

\* is_flight_day, is_relocation, resolve_destinations: a local drive to one
\* place or two.  Whether it is one, and where to, the calendar says.
Trips == {P \in SUBSET Places : Cardinality(P) \in {1, 2}}

\* chained_loop_miles: the distances a trip needs.
Needed(trip) == {S \in SUBSET trip : S # {}}
Missing(trip) == {e \in Needed(trip) : tab[e] = 0}

-----------------------------------------------------------------------------
(* A poll *)

\* What the loop holds of a thread is of no more use once it is done with it.
Forget ==
  /\ thread' = SomeThread /\ row' = 0
  /\ new' = {} /\ verdict' = "ignored"

Goto(here, there) == pc = here /\ pc' = there

\* find_unprocessed_threads.  Mutant: an attempt is not made again.
NeverAttempted == {t \in Threads : sent[t] # NotSent} \ (processed \cup attempted)
Unprocessed == {t \in Threads : sent[t] # NotSent} \ processed

\* Mutant of Left: the cap is for each poll.
WholeCap == Cap
Left == IF Cardinality(today) >= Cap THEN 0 ELSE Cap - Cardinality(today)

StartPoll ==
  /\ Goto("idle", "next")
  /\ Left > 0 /\ Unprocessed # {}
  /\ remaining' = Left
  /\ todo' = Unprocessed
  /\ UNCHANGED <<day, gmail, sheet, past, thread, row, new, verdict, aborts>>

\* parse_trigger_email fails closed: any other thread is only marked.
TakeThread(t) ==
  /\ Goto("next", IF t \in Requests THEN "read" ELSE "mark")
  /\ remaining > 0 /\ t \in todo
  /\ todo' = todo \ {t}
  /\ thread' = t
  /\ UNCHANGED <<day, gmail, sheet, past, remaining, row, new, verdict, aborts>>

\* Nothing is left, or the rest is skipped_cap.
EndPoll ==
  /\ Goto("next", "idle")
  /\ remaining = 0 \/ todo = {}
  /\ todo' = {} /\ remaining' = 0
  /\ UNCHANGED <<day, gmail, sheet, past, thread, row, new, verdict, aborts>>

NeedsHuman(here) == Goto(here, "tell") /\ verdict' = "nothing"

\* No date in the words, or calendar and sheet cannot be read.
ReadFails ==
  /\ NeedsHuman("read")
  /\ UNCHANGED <<day, gmail, sheet, past, todo, remaining, thread, row, new, aborts>>

\* fetch_day_context.  The day is no local drive to one place or two, or the
\* row is filled: the tiers will block, whatever else they see.
ReadDay ==
  /\ Goto("read", "attempt")
  /\ row' = RowOf(thread)
  /\ \/ verdict' = "nothing" /\ UNCHANGED new
     \/ /\ ~Populated(RowOf(thread))
        /\ \E trip \in Trips : new' = Missing(trip)
        /\ verdict' = "wrote"
  /\ UNCHANGED <<day, gmail, sheet, past, todo, remaining, thread, aborts>>

MarkAttempted ==
  /\ Goto("attempt", "plan")
  /\ attempted' = attempted \cup {thread}
  /\ UNCHANGED <<day, sent, processed, today, told, sheet, past, todo, remaining,
                 thread, row, new, verdict, aborts>>

\* The tiers of build_trip_plan; missing distances are resolved or it fails.
Plan ==
  /\ \/ verdict = "wrote" /\ Goto("plan", "review") /\ UNCHANGED verdict
     \/ /\ verdict = "nothing" \/ new # {}
        /\ NeedsHuman("plan")
  /\ UNCHANGED <<day, gmail, sheet, past, todo, remaining, thread, row, new, aborts>>

\* review_mileage_write: anything but a clear yes is a no.
Review ==
  /\ \/ Goto("review", "apply") /\ UNCHANGED verdict
     \/ NeedsHuman("review")
  /\ UNCHANGED <<day, gmail, sheet, past, todo, remaining, thread, row, new, aborts>>

\* apply_approved_proposal up to the re-check of the row: the kill switch is
\* off, or the row was filled since it was read.
RefuseWrite ==
  /\ NeedsHuman("apply")
  /\ UNCHANGED <<day, gmail, sheet, past, todo, remaining, thread, row, new, aborts>>

\* Mutant of Recheck: the row was looked at by the plan.
TrustPlan ==
  /\ Goto("apply", "H")
  /\ UNCHANGED <<day, gmail, sheet, past, todo, remaining, thread, row, new, verdict, aborts>>

Recheck ==
  /\ Goto("apply", "H")
  /\ ~Populated(row)
  /\ UNCHANGED <<day, gmail, sheet, past, todo, remaining, thread, row, new, verdict, aborts>>

WriteH ==
  /\ Goto("H", "I")
  /\ cells' = [cells EXCEPT ![row]["H"] = thread]
  /\ wrote' = [wrote EXCEPT ![thread] = @ + 1]
  /\ writes' = writes + 1
  /\ UNCHANGED <<day, gmail, tab, raced, todo, remaining, thread, row, new, verdict, aborts>>

WriteCell(c, there) ==
  /\ Goto(c, there)
  /\ cells' = [cells EXCEPT ![row][c] = thread]
  /\ UNCHANGED <<day, gmail, tab, past, todo, remaining, thread, row, new, verdict, aborts>>

AppendDistance ==
  /\ pc = "append"
  /\ \E e \in new :
       /\ tab' = [tab EXCEPT ![e] = @ + 1]
       /\ new' = new \ {e}
  /\ UNCHANGED <<day, gmail, cells, past, pc, todo, remaining, thread, row, verdict, aborts>>

\* Mutant of EndWrite: a distance that was not appended fails the write.
FailWrite ==
  /\ NeedsHuman("append")
  /\ new = {}
  /\ UNCHANGED <<day, gmail, sheet, past, todo, remaining, thread, row, new, aborts>>

EndWrite ==
  /\ Goto("append", "tell")
  /\ new = {}
  /\ UNCHANGED <<day, gmail, sheet, past, todo, remaining, thread, row, new, verdict, aborts>>

Tell ==
  /\ Goto("tell", "mark")
  /\ told' = [told EXCEPT ![thread] = @ \cup {verdict}]
  /\ UNCHANGED <<day, sent, attempted, processed, today, sheet, past, todo, remaining,
                 thread, row, new, verdict, aborts>>

RemainingAfter == IF verdict = "wrote" THEN remaining - 1 ELSE remaining

MarkProcessed ==
  /\ Goto("mark", "next")
  /\ processed' = processed \cup {thread}
  /\ today' = today \cup {thread}
  /\ remaining' = RemainingAfter
  /\ Forget
  /\ UNCHANGED <<day, sent, attempted, told, sheet, past, todo, aborts>>

-----------------------------------------------------------------------------
(* The operator, time and faults *)

Arrive(t) ==
  /\ sent[t] = NotSent
  /\ sent' = [sent EXCEPT ![t] = day]
  /\ UNCHANGED <<day, attempted, processed, today, told, sheet, past, local, aborts>>

\* The operator fills a row by hand.
Type(r) ==
  /\ ~Populated(r)
  /\ cells' = [cells EXCEPT ![r] = [c \in Columns |-> Operator]]
  /\ raced' = (raced \/ (r = row /\ pc \in Columns))
  /\ UNCHANGED <<day, gmail, tab, wrote, writes, local, aborts>>

\* A poll lasts minutes: it ends on the day it began.
NextDay ==
  /\ day < MaxDay /\ pc = "idle"
  /\ day' = day + 1
  /\ today' = {}
  /\ writes' = 0
  /\ UNCHANGED <<sent, attempted, processed, told, sheet, wrote, raced, local, aborts>>

Abort ==
  /\ aborts < MaxAborts /\ pc # "idle"
  /\ aborts' = aborts + 1
  /\ pc' = "idle" /\ todo' = {} /\ remaining' = 0
  /\ Forget
  /\ UNCHANGED <<day, gmail, sheet, past>>

-----------------------------------------------------------------------------

Init ==
  /\ day = 0
  /\ sent = [t \in Threads |-> NotSent]
  /\ attempted = {} /\ processed = {} /\ today = {}
  /\ cells = [r \in Days |-> [c \in Columns |-> Empty]]
  /\ tab = [e \in Entries |-> 0]
  /\ told = [t \in Threads |-> {}]
  /\ wrote = [t \in Threads |-> 0] /\ writes = 0 /\ raced = FALSE
  /\ pc = "idle" /\ todo = {} /\ remaining = 0
  /\ thread = SomeThread /\ row = 0 /\ new = {} /\ verdict = "ignored"
  /\ aborts = 0

Poll ==
  \/ StartPoll \/ EndPoll
  \/ \E t \in Threads : TakeThread(t)
  \/ ReadFails \/ ReadDay \/ MarkAttempted \/ Plan \/ Review
  \/ RefuseWrite \/ Recheck \/ WriteH \/ WriteCell("I", "J") \/ WriteCell("J", "append")
  \/ AppendDistance \/ EndWrite \/ Tell \/ MarkProcessed

Next ==
  \/ Poll
  \/ \E t \in Threads : Arrive(t)
  \/ \E r \in Days : Type(r)
  \/ NextDay \/ Abort

Spec == Init /\ [][Next]_vars

\* The poller is started again and again, and a poll goes on.
FairSpec == Spec /\ WF_vars(Poll)

-----------------------------------------------------------------------------
(* Properties *)

(***************************************************************************)
(* The daemon never touches a filled cell, whatever polls were aborted     *)
(* before ("the overwrite guard limits the blast radius", SECURITY.md:44), *)
(* unless the operator types into the row between re-check and write.      *)
(***************************************************************************)
CellsAreKept ==
  [][raced \/ \A r \in Days, c \in Columns :
       cells[r][c] # Empty => cells'[r][c] = cells[r][c]]_vars

(***************************************************************************)
(* A mail is logged at most once, through aborted polls and attempts that  *)
(* begin again ("attempted before the write + processed after -> fires     *)
(* once", SECURITY.md:41), as long as the words name the same row again:   *)
(* a mail that says "yesterday" names another one the day after.           *)
(***************************************************************************)
LoggedOnce == \A t \in Threads : t \in Dated /\ ~raced => wrote[t] <= 1

(***************************************************************************)
(* No day sees more rows written than the cap ("Per-day write cap",        *)
(* SECURITY.md:42), plus one for every poll that was aborted before it     *)
(* marked the thread: the cap counts marks.                                *)
(***************************************************************************)
CapIsKept == writes <= Cap + aborts

(***************************************************************************)
(* When no poll is aborted the replies are true, and stay true: "SAI       *)
(* logged your trip" of a row that was written, "Nothing was written"      *)
(* (run_daemon.py:110) of one that was not; no mail is answered twice, nor *)
(* logged after the operator was told that it was not.                     *)
(***************************************************************************)
Fits(t, reply) == (reply = "wrote") = (wrote[t] > 0)

UnbrokenRepliesAreTrue ==
  aborts = 0 => \A t \in Threads : \A reply \in told[t] : Fits(t, reply)

(***************************************************************************)
(* A distance enters the tab once ("each place hits the network once",     *)
(* README.md), although each thread brings those it missed.                *)
(***************************************************************************)
DistancesEnterOnce == \A e \in Entries : tab[e] <= 1

(***************************************************************************)
(* Every request that was sent is answered and marked, however many polls  *)
(* were aborted on the way, unless the cap of the day is used up.          *)
(***************************************************************************)
RequestsAreAnswered ==
  \A t \in Requests :
    (sent[t] # NotSent) ~> ((t \in processed /\ told[t] # {}) \/ Left = 0)
=============================================================================
