------------------------- MODULE MileageDaemonProofs -------------------------
(***************************************************************************)
(* Proofs about MileageDaemon, for any number of threads, places, days and *)
(* aborted polls.                                                          *)
(*                                                                         *)
(* InHand says what is true of the thread a poll works on, Budget relates  *)
(* what was written today to what a poll may still write, and Logged,      *)
(* Clear, NewEntries and Truthful carry one theorem each.                  *)
(***************************************************************************)
EXTENDS MileageDaemon, FiniteSetTheorems, TLAPS

Active   == Locations \ {"idle", "next"}
Decided  == {"review", "apply", "H", "I", "J", "append"}
Written  == {"I", "J", "append"}

\* The thread in hand was sent and is not marked; the loop may write a row.
InHand ==
  /\ \A t \in todo : sent[t] # NotSent /\ t \notin processed
  /\ pc \in Active => /\ sent[thread] # NotSent /\ thread \notin processed
                      /\ thread \notin todo /\ remaining > 0
  /\ pc \in {"idle", "next"} => verdict = "ignored"
  /\ pc \in Decided => verdict = "wrote"
  /\ pc = "tell" => verdict # "ignored"
  /\ pc \in {"attempt", "plan"} \cup Decided /\ thread \in Dated => row = sent[thread]

\* One row is written and its thread not yet marked.
Pending == IF pc \in Written \/ (pc \in {"tell", "mark"} /\ verdict = "wrote") THEN 1 ELSE 0

Budget ==
  /\ IsFiniteSet(today)
  /\ writes <= Cardinality(today) + aborts + Pending
  /\ pc # "idle" => writes + remaining <= Cap + aborts + Pending

\* The cells a poll has still to write are empty.
Clear ==
  ~raced => /\ pc = "H" => \A c \in Columns : cells[row][c] = Empty
            /\ pc = "I" => cells[row]["I"] = Empty /\ cells[row]["J"] = Empty
            /\ pc = "J" => cells[row]["J"] = Empty

\* A row that a dated mail was logged in stays filled.
Logged ==
  ~raced => \A t \in Dated : wrote[t] > 0 =>
              sent[t] # NotSent /\ cells[sent[t]]["H"] # Empty /\ wrote[t] = 1

NewEntries == \A e \in new : tab[e] = 0

\* What is written and told of a thread that no poll has marked.
Truthful ==
  aborts = 0 => \A t \in Threads :
    /\ t \notin processed /\ (pc \in {"idle", "next"} \/ t # thread)
         => wrote[t] = 0 /\ told[t] = {}
    /\ t = thread /\ pc \in Active =>
         /\ pc # "mark" => told[t] = {}
         /\ pc \in Active \ (Written \cup {"tell", "mark"}) => wrote[t] = 0
         /\ pc \in Written => wrote[t] > 0
         /\ pc = "tell" => ((verdict = "wrote") <=> (wrote[t] > 0))

-----------------------------------------------------------------------------
(* Types *)

LEMMA NeededAreEntries ==
  ASSUME NEW trip \in Trips PROVE Needed(trip) \subseteq Entries
<1> SUFFICES ASSUME NEW S \in SUBSET trip, S # {} PROVE S \in Entries
    BY DEF Needed
<1>1. IsFiniteSet(trip) /\ trip \subseteq Places /\ Cardinality(trip) \in {1, 2}
    BY PlacesAssumption, FS_Subset DEF Trips
<1>2. IsFiniteSet(S) /\ Cardinality(S) <= Cardinality(trip)
    BY <1>1, FS_Subset
<1>3. Cardinality(S) \in Nat /\ Cardinality(S) # 0
    BY <1>2, FS_CardinalityType, FS_EmptySet
<1> QED
    BY <1>1, <1>2, <1>3 DEF Entries

LEMMA TypeInit == Init => TypeOK
<1> SUFFICES ASSUME Init PROVE TypeOK
    OBVIOUS
<1>1. MaxDay \in Nat /\ MaxAborts \in Nat /\ Cap \in Nat
    BY BoundsAssumption
<1>2. SomeThread \in Threads
    BY ThreadsAssumption DEF SomeThread
<1>3. day \in Days /\ row \in Days /\ remaining \in 0..Cap /\ aborts \in 0..MaxAborts
    BY <1>1 DEF Init, Days
<1>4. sent \in [Threads -> Days \cup {NotSent}] /\ cells \in [Days -> [Columns -> Writers]]
    BY DEF Init, Writers
<1>5. tab \in [Entries -> Nat] /\ told \in [Threads -> SUBSET {"wrote", "nothing"}]
      /\ wrote \in [Threads -> Nat] /\ writes \in Nat
    BY DEF Init
<1> QED
    BY <1>2, <1>3, <1>4, <1>5 DEF Init, TypeOK, Verdicts, Locations

LEMMA TypeStep == TypeOK /\ InHand /\ Budget /\ [Next]_vars => TypeOK'
<1> SUFFICES ASSUME TypeOK, InHand, Budget, [Next]_vars PROVE TypeOK'
    OBVIOUS
<1> USE DEF TypeOK
<1>b. MaxDay \in Nat /\ MaxAborts \in Nat /\ Cap \in Nat
    BY BoundsAssumption
<1>s. SomeThread \in Threads /\ 0 \in Days
    BY <1>b, ThreadsAssumption DEF SomeThread, Days
<1>0. CASE UNCHANGED vars
    BY <1>0 DEF vars, gmail, sheet, past, local
<1>1. CASE StartPoll
  <2>1. Cardinality(today) \in Nat
      BY FS_CardinalityType DEF Budget
  <2>2. Left \in 0..Cap
      BY <2>1, <1>b DEF Left
  <2>3. Unprocessed \subseteq Threads
      BY DEF Unprocessed
  <2> QED
      BY <1>1, <2>2, <2>3 DEF StartPoll, Goto, Locations, gmail, sheet, past
<1>2. ASSUME NEW t \in Threads, TakeThread(t) PROVE TypeOK'
    BY <1>2 DEF TakeThread, Goto, Locations, gmail, sheet, past
<1>3. CASE EndPoll
    BY <1>3, <1>b DEF EndPoll, Goto, Locations, gmail, sheet, past
<1>4. CASE ReadDay
  <2>1. RowOf(thread) \in Days
    <3>1. pc = "read" /\ sent[thread] # NotSent
        BY <1>4 DEF ReadDay, Goto, InHand, Active, Locations
    <3> QED
        BY <3>1 DEF RowOf
  <2>2. new' \subseteq Entries
      BY <1>4, NeededAreEntries DEF ReadDay, Missing
  <2>3. verdict' \in Verdicts
      BY <1>4 DEF ReadDay, Verdicts
  <2> QED
      BY <1>4, <2>1, <2>2, <2>3 DEF ReadDay, Goto, Locations, gmail, sheet, past
<1>5. CASE ReadFails \/ Plan \/ Review \/ RefuseWrite \/ Recheck \/ EndWrite
    BY <1>5 DEF ReadFails, Plan, Review, RefuseWrite, Recheck, EndWrite, NeedsHuman, Goto,
                Locations, Verdicts, gmail, sheet, past
<1>6. CASE MarkAttempted
    BY <1>6 DEF MarkAttempted, Goto, Locations, sheet, past
<1>7. CASE WriteH
    BY <1>7 DEF WriteH, Goto, Locations, gmail, Columns, Writers
<1>8. CASE WriteCell("I", "J") \/ WriteCell("J", "append")
    BY <1>8 DEF WriteCell, Goto, Locations, gmail, past, Columns, Writers
<1>9. CASE AppendDistance
    BY <1>9 DEF AppendDistance, gmail, past
<1>10. CASE Tell
  <2>1. pc = "tell" /\ pc' = "mark" /\ told' = [told EXCEPT ![thread] = @ \cup {verdict}]
      BY <1>10 DEF Tell, Goto
  <2>2. verdict \in {"wrote", "nothing"}
      BY <2>1 DEF InHand, Verdicts
  <2>3. told' \in [Threads -> SUBSET {"wrote", "nothing"}]
      BY <2>1, <2>2
  <2> QED
    BY <1>10, <2>1, <2>3 DEF Tell, Locations, sheet, past
<1>11. CASE MarkProcessed
  <2>1. remaining > 0
      BY <1>11 DEF MarkProcessed, Goto, InHand, Active, Locations
  <2>2. RemainingAfter \in 0..Cap
      BY <2>1, <1>b DEF RemainingAfter
  <2> QED
      BY <1>11, <1>s, <2>2 DEF MarkProcessed, Goto, Forget, Locations, Verdicts, sheet, past
<1>12. ASSUME NEW t \in Threads, Arrive(t) PROVE TypeOK'
    BY <1>12 DEF Arrive, sheet, past, local
<1>13. ASSUME NEW r \in Days, Type(r) PROVE TypeOK'
    BY <1>13 DEF Type, gmail, local, Writers
<1>14. CASE NextDay
    BY <1>14, <1>b DEF NextDay, sheet, local, Days
<1>15. CASE Abort
    BY <1>15, <1>b, <1>s DEF Abort, Forget, gmail, sheet, past, Locations, Verdicts
<1> QED
    BY <1>0, <1>1, <1>2, <1>3, <1>4, <1>5, <1>6, <1>7, <1>8, <1>9, <1>10, <1>11, <1>12,
       <1>13, <1>14, <1>15 DEF Next, Poll

-----------------------------------------------------------------------------
(* What a poll holds *)

LEMMA InHandInit == Init => InHand
<1> QED
    BY DEF Init, InHand, Active, Decided, Locations

LEMMA InHandStep == TypeOK /\ InHand /\ [Next]_vars => InHand'
<1> SUFFICES ASSUME TypeOK, InHand, [Next]_vars PROVE InHand'
    OBVIOUS
<1> USE DEF TypeOK, InHand, Active, Decided, Locations
<1>0. CASE UNCHANGED vars
    BY <1>0 DEF vars, gmail, local
<1>1. CASE StartPoll
    BY <1>1 DEF StartPoll, Goto, Unprocessed, gmail
<1>2. ASSUME NEW t \in Threads, TakeThread(t) PROVE InHand'
    BY <1>2 DEF TakeThread, Goto, gmail
<1>3. CASE EndPoll
    BY <1>3 DEF EndPoll, Goto, gmail
<1>4. CASE ReadDay
  <2>1. thread \in Dated => row' = sent[thread]
      BY <1>4 DEF ReadDay, RowOf
  <2> QED
      BY <1>4, <2>1 DEF ReadDay, Goto, gmail
<1>5. CASE Plan \/ Review
    BY <1>5 DEF Plan, Review, NeedsHuman, Goto, gmail
<1>6. CASE ReadFails \/ RefuseWrite \/ Recheck \/ EndWrite
    BY <1>6 DEF ReadFails, RefuseWrite, Recheck, EndWrite, NeedsHuman, Goto, gmail
<1>7. CASE MarkAttempted \/ Tell
    BY <1>7 DEF MarkAttempted, Tell, Goto
<1>8. CASE WriteH \/ WriteCell("I", "J") \/ WriteCell("J", "append") \/ AppendDistance
    BY <1>8 DEF WriteH, WriteCell, AppendDistance, Goto, gmail
<1>9. CASE MarkProcessed
    BY <1>9 DEF MarkProcessed, Goto, Forget
<1>10. ASSUME NEW t \in Threads, Arrive(t) PROVE InHand'
  <2>1. MaxDay \in Nat /\ day # NotSent
      BY BoundsAssumption DEF Days, NotSent
  <2>2. \A u \in Threads : sent[u] # NotSent => sent'[u] = sent[u]
      BY <1>10 DEF Arrive
  <2>3. UNCHANGED <<processed, local>>
      BY <1>10 DEF Arrive
  <2> QED
      BY <2>2, <2>3 DEF local
<1>11. ASSUME NEW r \in Days, Type(r) PROVE InHand'
    BY <1>11 DEF Type, gmail, local
<1>12. CASE NextDay
    BY <1>12 DEF NextDay, local
<1>13. CASE Abort
    BY <1>13 DEF Abort, Forget, gmail
<1> QED
    BY <1>0, <1>1, <1>2, <1>3, <1>4, <1>5, <1>6, <1>7, <1>8, <1>9, <1>10, <1>11, <1>12,
       <1>13 DEF Next, Poll

-----------------------------------------------------------------------------
(* What may still be written today *)

LEMMA BudgetInit == Init => Budget /\ CapIsKept
<1> SUFFICES ASSUME Init PROVE Budget /\ CapIsKept
    OBVIOUS
<1>1. IsFiniteSet(today) /\ Cardinality(today) = 0
    BY FS_EmptySet DEF Init
<1>2. Cap \in Nat
    BY BoundsAssumption
<1> QED
    BY <1>1, <1>2 DEF Init, Budget, CapIsKept, Pending, Written

LEMMA BudgetStep ==
  TypeOK /\ InHand /\ Budget /\ CapIsKept /\ [Next]_vars => (Budget /\ CapIsKept)'
<1> SUFFICES ASSUME TypeOK, InHand, Budget, CapIsKept, [Next]_vars
             PROVE  (Budget /\ CapIsKept)'
    OBVIOUS
<1> USE DEF TypeOK
<1>a. /\ Cap \in Nat /\ Cardinality(today) \in Nat /\ writes \in Nat /\ aborts \in Nat
      /\ remaining \in Nat
    BY BoundsAssumption, FS_CardinalityType DEF Budget
<1>b. pc \in Decided => verdict = "wrote"
    BY DEF InHand
<1>1. ASSUME UNCHANGED <<today, writes, remaining, aborts>>, Pending' = Pending,
             pc' # "idle" => pc # "idle"
      PROVE  (Budget /\ CapIsKept)'
    BY <1>1 DEF Budget, CapIsKept
<1>2. CASE StartPoll
  <2>1. remaining' = Cap - Cardinality(today) /\ Pending = 0 /\ Pending' = 0
      BY <1>2, <1>a DEF StartPoll, Goto, Left, Pending, Written
  <2> QED
      BY <1>2, <2>1, <1>a DEF StartPoll, Budget, CapIsKept, gmail, past
<1>3. CASE EndPoll
  <2>1. Pending = 0 /\ Pending' = 0 /\ pc' = "idle"
      BY <1>3 DEF EndPoll, Goto, Pending, Written
  <2> QED
      BY <1>3, <2>1, <1>a DEF EndPoll, Budget, CapIsKept, gmail, past
<1>4. ASSUME NEW t \in Threads, TakeThread(t) PROVE (Budget /\ CapIsKept)'
  <2>1. Pending = 0 /\ Pending' = 0
      BY <1>4 DEF TakeThread, Goto, Pending, Written, InHand
  <2> QED
      BY <1>1, <1>4, <2>1 DEF TakeThread, Goto, gmail, past
<1>5. CASE ReadFails \/ ReadDay \/ Plan \/ Review \/ RefuseWrite \/ Recheck
    BY <1>1, <1>5 DEF ReadFails, ReadDay, Plan, Review, RefuseWrite, Recheck, NeedsHuman,
                      Goto, Pending, Written, gmail, past
<1>6. CASE MarkAttempted
    BY <1>1, <1>6 DEF MarkAttempted, Goto, Pending, Written, past
<1>7. CASE WriteH
  <2>1. Pending = 0 /\ Pending' = 1
      BY <1>7 DEF WriteH, Goto, Pending, Written
  <2>2. remaining > 0 /\ pc = "H"
      BY <1>7 DEF WriteH, Goto, InHand, Active, Locations
  <2> QED
      BY <1>7, <2>1, <2>2, <1>a DEF WriteH, Budget, CapIsKept, gmail
<1>8. CASE WriteCell("I", "J") \/ WriteCell("J", "append") \/ AppendDistance \/ EndWrite
    BY <1>1, <1>8, <1>b DEF WriteCell, AppendDistance, EndWrite, Goto, Pending, Written,
                            Decided, gmail, past
<1>9. CASE Tell
    BY <1>1, <1>9 DEF Tell, Goto, Pending, Written, past
<1>10. CASE MarkProcessed
  <2>1. thread \notin today
      BY <1>10 DEF MarkProcessed, Goto, InHand, Active, Locations
  <2>2. today' = today \cup {thread} /\ IsFiniteSet(today') /\
        Cardinality(today') = Cardinality(today) + 1
      BY <1>10, <2>1, FS_AddElement DEF MarkProcessed, Budget
  <2>3. Pending = (IF verdict = "wrote" THEN 1 ELSE 0) /\ Pending' = 0 /\ pc = "mark"
      BY <1>10 DEF MarkProcessed, Goto, Pending, Written
  <2>4. remaining' = IF verdict = "wrote" THEN remaining - 1 ELSE remaining
      BY <1>10 DEF MarkProcessed, RemainingAfter
  <2>5. UNCHANGED <<writes, aborts>>
      BY <1>10 DEF MarkProcessed, past
  <2> QED
      BY <2>2, <2>3, <2>4, <2>5, <1>a DEF Budget, CapIsKept
<1>11. ASSUME NEW t \in Threads, Arrive(t) PROVE (Budget /\ CapIsKept)'
    BY <1>1, <1>11 DEF Arrive, Pending, past, local
<1>12. ASSUME NEW r \in Days, Type(r) PROVE (Budget /\ CapIsKept)'
    BY <1>1, <1>12 DEF Type, Pending, gmail, local
<1>13. CASE NextDay
  <2>1. IsFiniteSet(today') /\ Cardinality(today') = 0
      BY <1>13, FS_EmptySet DEF NextDay
  <2>2. Pending' = 0 /\ pc' = "idle" /\ writes' = 0 /\ aborts' = aborts
      BY <1>13 DEF NextDay, Pending, Written, local
  <2> QED
      BY <2>1, <2>2, <1>a DEF Budget, CapIsKept
<1>14. CASE Abort
  <2>1. Pending \in {0, 1} /\ Pending' = 0 /\ pc' = "idle" /\ aborts' = aborts + 1
        /\ UNCHANGED <<today, writes>>
      BY <1>14 DEF Abort, Pending, Written, gmail, past
  <2> QED
      BY <2>1, <1>a DEF Budget, CapIsKept
<1>15. CASE UNCHANGED vars
    BY <1>1, <1>15 DEF vars, gmail, past, local, Pending
<1> QED
    BY <1>2, <1>3, <1>4, <1>5, <1>6, <1>7, <1>8, <1>9, <1>10, <1>11, <1>12, <1>13, <1>14,
       <1>15 DEF Next, Poll

-----------------------------------------------------------------------------
(* Cells *)

LEMMA ClearInit == Init => Clear /\ Logged
<1> QED
    BY ThreadsAssumption DEF Init, Clear, Logged

\* Only the cells of the row being written may change once they are filled.
Kept == \A r \in Days, c \in Columns : cells[r][c] # Empty => cells'[r][c] = cells[r][c]

LEMMA CellsStep ==
  TypeOK /\ Clear /\ [Next]_vars => (raced \/ Kept) /\ (raced => raced')
<1> SUFFICES ASSUME TypeOK, Clear, [Next]_vars
             PROVE  (raced \/ Kept) /\ (raced => raced')
    OBVIOUS
<1> USE DEF TypeOK, Kept
<1>e. thread \in Threads /\ row \in Days /\ thread # Empty
    BY CellsAssumption
<1>0. CASE UNCHANGED <<cells, raced>>
    BY <1>0
<1>1. ASSUME NEW c \in Columns, cells' = [cells EXCEPT ![row][c] = thread],
             raced \/ cells[row][c] = Empty
      PROVE  raced \/ Kept
    BY <1>1, <1>e
<1>2. CASE WriteH
  <2>1. raced \/ cells[row]["H"] = Empty
      BY <1>2 DEF WriteH, Goto, Clear, Columns
  <2> QED
      BY <1>1, <1>2, <2>1 DEF WriteH, Columns
<1>3. CASE WriteCell("I", "J") \/ WriteCell("J", "append")
  <2>1. PICK c \in {"I", "J"} : pc = c /\ cells' = [cells EXCEPT ![row][c] = thread]
                                /\ raced' = raced
      BY <1>3 DEF WriteCell, Goto, past
  <2>2. raced \/ cells[row][c] = Empty
      BY <2>1 DEF Clear
  <2> QED
      BY <1>1, <2>1, <2>2 DEF Columns
<1>4. ASSUME NEW r \in Days, Type(r) PROVE Kept /\ (raced => raced')
  <2>1. \A c \in Columns : cells[r][c] = Empty
      BY <1>4 DEF Type, Populated
  <2> QED
      BY <1>4, <2>1 DEF Type
<1>5. CASE StartPoll \/ EndPoll \/ ReadFails \/ ReadDay \/ MarkAttempted \/ Plan \/ Review
           \/ RefuseWrite \/ Recheck \/ AppendDistance \/ EndWrite \/ Tell \/ MarkProcessed
    BY <1>0, <1>5 DEF StartPoll, EndPoll, ReadFails, ReadDay, MarkAttempted, Plan, Review,
       RefuseWrite, Recheck, AppendDistance, EndWrite, Tell, MarkProcessed, NeedsHuman,
       sheet, past
<1>6. ASSUME NEW t \in Threads, TakeThread(t) \/ Arrive(t) PROVE UNCHANGED <<cells, raced>>
    BY <1>6 DEF TakeThread, Arrive, sheet, past
<1>7. CASE NextDay \/ Abort \/ UNCHANGED vars
    BY <1>0, <1>7 DEF NextDay, Abort, vars, sheet, past
<1> QED
    BY <1>0, <1>2, <1>3, <1>4, <1>5, <1>6, <1>7 DEF Next, Poll

LEMMA ClearStep == TypeOK /\ InHand /\ Clear /\ [Next]_vars => Clear'
<1> SUFFICES ASSUME TypeOK, InHand, Clear, [Next]_vars, ~raced' PROVE Clear'
    BY DEF Clear
<1> USE DEF TypeOK
<1>0. CASE UNCHANGED <<cells, row, pc, raced>>
    BY <1>0 DEF Clear
<1>1. CASE pc' \notin Columns
    BY <1>1 DEF Clear, Columns
<1>2. CASE Recheck
  <2>1. \A c \in Columns : cells[row][c] = Empty
      BY <1>2 DEF Recheck, Populated
  <2> QED
      BY <1>2, <2>1 DEF Recheck, Goto, Clear, Columns, sheet
<1>3. CASE WriteH
  <2>1. pc = "H" /\ pc' = "I" /\ row' = row /\ ~raced
        /\ cells' = [cells EXCEPT ![row]["H"] = thread]
      BY <1>3 DEF WriteH, Goto
  <2> QED
      BY <2>1 DEF Clear, Columns
<1>4. CASE WriteCell("I", "J")
  <2>1. pc = "I" /\ pc' = "J" /\ row' = row /\ ~raced
        /\ cells' = [cells EXCEPT ![row]["I"] = thread]
      BY <1>4 DEF WriteCell, Goto, past
  <2> QED
      BY <2>1 DEF Clear, Columns
<1>5. ASSUME NEW r \in Days, Type(r) PROVE Clear'
  <2>1. ~raced /\ UNCHANGED <<row, pc>> /\ (r = row => pc \notin Columns)
      BY <1>5 DEF Type, local
  <2>2. r # row => cells'[row] = cells[row]
      BY <1>5 DEF Type
  <2> QED
      BY <2>1, <2>2, <1>1 DEF Clear
<1>6. CASE StartPoll \/ EndPoll \/ ReadFails \/ ReadDay \/ MarkAttempted \/ Plan \/ Review
           \/ RefuseWrite \/ WriteCell("J", "append") \/ AppendDistance \/ EndWrite \/ Tell
           \/ MarkProcessed \/ Abort \/ NextDay
    BY <1>1, <1>6 DEF StartPoll, EndPoll, ReadFails, ReadDay, MarkAttempted, Plan, Review,
       RefuseWrite, WriteCell, AppendDistance, EndWrite, Tell, MarkProcessed, Abort, NextDay,
       NeedsHuman, Goto, Columns, local
<1>7. ASSUME NEW t \in Threads, TakeThread(t) PROVE Clear'
    BY <1>1, <1>7 DEF TakeThread, Goto, Columns
<1>8. ASSUME NEW t \in Threads, Arrive(t) PROVE Clear'
    BY <1>0, <1>8 DEF Arrive, sheet, past, local
<1>9. CASE UNCHANGED vars
    BY <1>0, <1>9 DEF vars, sheet, past, local
<1> QED
    BY <1>2, <1>3, <1>4, <1>5, <1>6, <1>7, <1>8, <1>9 DEF Next, Poll

LEMMA LoggedStep == TypeOK /\ InHand /\ Clear /\ Logged /\ [Next]_vars => Logged'
<1> SUFFICES ASSUME TypeOK, InHand, Clear, Logged, [Next]_vars, ~raced',
                    NEW t \in Dated, wrote'[t] > 0
             PROVE  sent'[t] # NotSent /\ cells'[sent'[t]]["H"] # Empty /\ wrote'[t] = 1
    BY DEF Logged
<1> USE DEF TypeOK
<1>t. t \in Threads
    BY ThreadsAssumption
<1>s. sent[t] # NotSent => sent'[t] = sent[t]
    BY <1>t DEF Next, Poll, StartPoll, EndPoll, ReadFails, ReadDay, MarkAttempted, Plan, Review,
       RefuseWrite, Recheck, WriteH, WriteCell, AppendDistance, EndWrite, Tell, MarkProcessed,
       NeedsHuman, TakeThread, Arrive, Type, NextDay, Abort, vars, gmail
<1>r. ~raced
    BY CellsStep
<1>c. \A r \in Days, c \in Columns : cells[r][c] # Empty => cells'[r][c] = cells[r][c]
    BY CellsStep, <1>r DEF Kept
<1>1. CASE wrote'[t] = wrote[t]
  <2>1. sent[t] # NotSent /\ cells[sent[t]]["H"] # Empty /\ wrote[t] = 1
      BY <1>1, <1>r DEF Logged
  <2>2. sent[t] \in Days /\ "H" \in Columns
      BY <2>1, <1>t DEF Columns
  <2> QED
      BY <1>1, <1>s, <1>c, <2>1, <2>2
<1>2. CASE WriteH /\ thread = t
  <2>1. pc = "H" /\ cells' = [cells EXCEPT ![row]["H"] = thread]
        /\ wrote' = [wrote EXCEPT ![thread] = @ + 1]
      BY <1>2 DEF WriteH, Goto
  <2>2. sent[t] # NotSent /\ row = sent[t]
      BY <1>2, <2>1 DEF InHand, Active, Decided, Locations
  <2>3. cells[row]["H"] = Empty
      BY <2>1, <1>r DEF Clear, Columns
  <2>4. wrote[t] = 0
    <3>1. ~(wrote[t] > 0)
        BY <2>2, <2>3, <1>r DEF Logged
    <3>2. wrote[t] \in Nat
        BY <1>t
    <3> QED
        BY <3>1, <3>2
  <2>5. cells'[row]["H"] = thread /\ thread # Empty
      BY <2>1, CellsAssumption DEF Columns
  <2> QED
      BY <1>2, <1>s, <1>t, <2>1, <2>2, <2>4, <2>5
<1>3. wrote'[t] = wrote[t] \/ (WriteH /\ thread = t)
    BY <1>t DEF Next, Poll, StartPoll, EndPoll, ReadFails, ReadDay, MarkAttempted, Plan, Review,
       RefuseWrite, Recheck, WriteH, WriteCell, AppendDistance, EndWrite, Tell, MarkProcessed,
       NeedsHuman, TakeThread, Arrive, Type, NextDay, Abort, vars, past
<1> QED
    BY <1>1, <1>2, <1>3

-----------------------------------------------------------------------------
(* The distance tab *)

LEMMA EntriesInit == Init => NewEntries /\ DistancesEnterOnce
<1> QED
    BY DEF Init, NewEntries, DistancesEnterOnce

LEMMA EntriesStep ==
  TypeOK /\ NewEntries /\ DistancesEnterOnce /\ [Next]_vars
    => (NewEntries /\ DistancesEnterOnce)'
<1> SUFFICES ASSUME TypeOK, NewEntries, DistancesEnterOnce, [Next]_vars
             PROVE  (NewEntries /\ DistancesEnterOnce)'
    OBVIOUS
<1> USE DEF TypeOK, NewEntries, DistancesEnterOnce
<1>1. CASE tab' = tab /\ (new' = new \/ new' = {})
    BY <1>1
<1>2. CASE ReadDay
  <2>1. tab' = tab /\ (new' = new \/ \A e \in new' : tab[e] = 0)
      BY <1>2 DEF ReadDay, Missing, sheet
  <2> QED
      BY <2>1
<1>3. CASE AppendDistance
  <2>1. PICK e \in new : tab' = [tab EXCEPT ![e] = @ + 1] /\ new' = new \ {e}
      BY <1>3 DEF AppendDistance
  <2> QED
      BY <2>1
<1>4. CASE StartPoll \/ EndPoll \/ ReadFails \/ MarkAttempted \/ Plan \/ Review \/ RefuseWrite
           \/ Recheck \/ WriteH \/ WriteCell("I", "J") \/ WriteCell("J", "append") \/ EndWrite
           \/ Tell \/ MarkProcessed \/ NextDay \/ Abort \/ UNCHANGED vars
    BY <1>1, <1>4 DEF StartPoll, EndPoll, ReadFails, MarkAttempted, Plan, Review, RefuseWrite,
       Recheck, WriteH, WriteCell, EndWrite, Tell, MarkProcessed, NextDay, Abort, NeedsHuman,
       Forget, vars, sheet, local
<1>5. ASSUME NEW t \in Threads, TakeThread(t) \/ Arrive(t)
      PROVE  (NewEntries /\ DistancesEnterOnce)'
    BY <1>1, <1>5 DEF TakeThread, Arrive, sheet, local
<1>6. ASSUME NEW r \in Days, Type(r) PROVE (NewEntries /\ DistancesEnterOnce)'
    BY <1>1, <1>6 DEF Type, local
<1> QED
    BY <1>2, <1>3, <1>4, <1>5, <1>6 DEF Next, Poll

-----------------------------------------------------------------------------
(* Replies *)

LEMMA TruthInit == Init => Truthful /\ UnbrokenRepliesAreTrue
<1> QED
    BY DEF Init, Truthful, UnbrokenRepliesAreTrue, Active, Locations

LEMMA TruthStep ==
  TypeOK /\ InHand /\ Truthful /\ UnbrokenRepliesAreTrue /\ [Next]_vars
    => (Truthful /\ UnbrokenRepliesAreTrue)'
<1> SUFFICES ASSUME TypeOK, InHand, Truthful, UnbrokenRepliesAreTrue, [Next]_vars,
                    aborts' = 0, NEW t \in Threads
             PROVE  /\ t \notin processed' /\ (pc' \in {"idle", "next"} \/ t # thread')
                         => wrote'[t] = 0 /\ told'[t] = {}
                    /\ t = thread' /\ pc' \in Active =>
                         /\ pc' # "mark" => told'[t] = {}
                         /\ pc' \in Active \ (Written \cup {"tell", "mark"}) => wrote'[t] = 0
                         /\ pc' \in Written => wrote'[t] > 0
                         /\ pc' = "tell" => ((verdict' = "wrote") <=> (wrote'[t] > 0))
                    /\ \A reply \in told'[t] : (reply = "wrote") = (wrote'[t] > 0)
    BY DEF Truthful, UnbrokenRepliesAreTrue, Fits
<1> DEFINE Goal == /\ t \notin processed' /\ (pc' \in {"idle", "next"} \/ t # thread')
                         => wrote'[t] = 0 /\ told'[t] = {}
                   /\ t = thread' /\ pc' \in Active =>
                         /\ pc' # "mark" => told'[t] = {}
                         /\ pc' \in Active \ (Written \cup {"tell", "mark"}) => wrote'[t] = 0
                         /\ pc' \in Written => wrote'[t] > 0
                         /\ pc' = "tell" => ((verdict' = "wrote") <=> (wrote'[t] > 0))
                   /\ \A reply \in told'[t] : (reply = "wrote") = (wrote'[t] > 0)
<1> USE DEF TypeOK, Active, Written, Locations, Decided
<1>a. aborts = 0 /\ ~Abort
  <2>1. ~Abort
      BY DEF Abort
  <2> QED
      BY <2>1 DEF Next, Poll, StartPoll, EndPoll, ReadFails, ReadDay, MarkAttempted, Plan,
         Review, RefuseWrite, Recheck, WriteH, WriteCell, AppendDistance, EndWrite, Tell,
         MarkProcessed, NeedsHuman, TakeThread, Arrive, Type, NextDay, vars
<1>b. /\ t \notin processed /\ (pc \in {"idle", "next"} \/ t # thread)
            => wrote[t] = 0 /\ told[t] = {}
      /\ t = thread /\ pc \in Active =>
            /\ pc # "mark" => told[t] = {}
            /\ pc \in Active \ (Written \cup {"tell", "mark"}) => wrote[t] = 0
            /\ pc \in Written => wrote[t] > 0
            /\ pc = "tell" => ((verdict = "wrote") <=> (wrote[t] > 0))
      /\ \A reply \in told[t] : (reply = "wrote") = (wrote[t] > 0)
    BY <1>a DEF Truthful, UnbrokenRepliesAreTrue, Fits
<1>0. CASE UNCHANGED <<processed, told, wrote, pc, thread, verdict>>
    BY <1>0, <1>b
<1>1. CASE StartPoll \/ EndPoll
    BY <1>1, <1>b DEF StartPoll, EndPoll, Goto, gmail, past
<1>2. ASSUME NEW u \in Threads, TakeThread(u) PROVE Goal
  <2>1. pc = "next" /\ u \notin processed
      BY <1>2 DEF TakeThread, Goto, InHand
  <2>2. pc' \in {"read", "mark"} /\ thread' = u /\ UNCHANGED <<processed, told, wrote>>
      BY <1>2 DEF TakeThread, Goto, gmail, past
  <2> QED
      BY <2>1, <2>2, <1>b
<1>3. CASE ReadFails \/ ReadDay
    BY <1>3, <1>b DEF ReadFails, ReadDay, NeedsHuman, Goto, gmail, past
<1>4. CASE MarkAttempted
    BY <1>4, <1>b DEF MarkAttempted, Goto, past
<1>5. CASE Plan \/ Review \/ RefuseWrite \/ Recheck
    BY <1>5, <1>b DEF Plan, Review, RefuseWrite, Recheck, NeedsHuman, Goto, gmail, past
<1>6. CASE WriteH
  <2>1. pc = "H" /\ pc' = "I" /\ wrote' = [wrote EXCEPT ![thread] = @ + 1]
        /\ UNCHANGED <<processed, told, thread>>
      BY <1>6 DEF WriteH, Goto, gmail
  <2> QED
      BY <2>1, <1>b
<1>7. CASE WriteCell("I", "J") \/ WriteCell("J", "append") \/ AppendDistance
    BY <1>7, <1>b DEF WriteCell, AppendDistance, Goto, gmail, past
<1>8. CASE EndWrite
  <2>1. pc = "append" /\ pc' = "tell" /\ verdict = "wrote"
        /\ UNCHANGED <<processed, told, wrote, thread, verdict>>
      BY <1>8 DEF EndWrite, Goto, InHand, gmail, past
  <2> QED
      BY <2>1, <1>b
<1>9. CASE Tell
  <2>1. pc = "tell" /\ pc' = "mark" /\ told' = [told EXCEPT ![thread] = @ \cup {verdict}]
        /\ UNCHANGED <<processed, wrote, thread, verdict>>
      BY <1>9 DEF Tell, Goto, past
  <2>2. CASE t = thread
    <3>1. told'[t] = {verdict} /\ ((verdict = "wrote") <=> (wrote[t] > 0))
        BY <2>1, <2>2, <1>b
    <3>2. \A reply \in told'[t] : (reply = "wrote") = (wrote'[t] > 0)
        BY <2>1, <3>1
    <3> QED
        BY <2>1, <2>2, <3>2
  <2>3. CASE t # thread
      BY <2>1, <2>3, <1>b
  <2> QED
      BY <2>2, <2>3
<1>10. CASE MarkProcessed
    BY <1>10, <1>b DEF MarkProcessed, Goto, past
<1>11. ASSUME NEW u \in Threads, Arrive(u) PROVE Goal
    BY <1>0, <1>11 DEF Arrive, past, local
<1>12. ASSUME NEW r \in Days, Type(r) PROVE Goal
    BY <1>0, <1>12 DEF Type, gmail, local
<1>13. CASE NextDay \/ UNCHANGED vars
    BY <1>0, <1>13 DEF NextDay, vars, gmail, past, local
<1> QED
    BY <1>a, <1>1, <1>2, <1>3, <1>4, <1>5, <1>6, <1>7, <1>8, <1>9, <1>10, <1>11, <1>12, <1>13
       DEF Next, Poll

-----------------------------------------------------------------------------
(* The theorems *)

\* Every state that Spec reaches.
Inv == /\ TypeOK /\ InHand /\ Budget /\ CapIsKept /\ Clear /\ Logged
       /\ NewEntries /\ DistancesEnterOnce /\ Truthful /\ UnbrokenRepliesAreTrue

LEMMA Invariance == Spec => []Inv
<1>1. Init => Inv
    BY TypeInit, InHandInit, BudgetInit, ClearInit, EntriesInit, TruthInit DEF Inv
<1>2. Inv /\ [Next]_vars => Inv'
    BY TypeStep, InHandStep, BudgetStep, ClearStep, LoggedStep, EntriesStep, TruthStep DEF Inv
<1> QED
    BY <1>1, <1>2, PTL DEF Spec

(***************************************************************************)
(* Every variable of the poll keeps its type; in particular the rows it    *)
(* takes from the words of a mail (parse_trip_date) are days of the sheet. *)
(***************************************************************************)
THEOREM TypeCorrect == Spec => []TypeOK
<1>1. Inv => TypeOK
    BY DEF Inv
<1> QED
    BY <1>1, Invariance, PTL

(***************************************************************************)
(* A mail that names its day by its date is logged at most once, whatever  *)
(* polls an exception ended and began again (run_daemon.py:88-103): the    *)
(* row it would fill is filled, and column H is what the re-check of       *)
(* send_tool.py:83-92 looks at.                                            *)
(***************************************************************************)
THEOREM LogsOnce == Spec => []LoggedOnce
<1>1. Inv => LoggedOnce
  <2> SUFFICES ASSUME Inv, NEW t \in Threads, t \in Dated, ~raced PROVE wrote[t] <= 1
      BY DEF LoggedOnce
  <2>1. wrote[t] \in Nat /\ (wrote[t] > 0 => wrote[t] = 1)
      BY DEF Inv, TypeOK, Logged
  <2> QED
      BY <2>1
<1> QED
    BY <1>1, Invariance, PTL

(***************************************************************************)
(* The rows written on a day stay within the cap and one more for each     *)
(* poll that broke off (run_daemon.py:55-66): a row is counted when its    *)
(* thread is marked, and one poll has at most one row not counted yet.     *)
(***************************************************************************)
THEOREM KeepsCap == Spec => []CapIsKept
<1>1. Inv => CapIsKept
    BY DEF Inv
<1> QED
    BY <1>1, Invariance, PTL

(***************************************************************************)
(* Without a poll that breaks off every reply is true for good             *)
(* (run_daemon.py:95-120).                                                 *)
(***************************************************************************)
THEOREM RepliesTruly == Spec => []UnbrokenRepliesAreTrue
<1>1. Inv => UnbrokenRepliesAreTrue
    BY DEF Inv
<1> QED
    BY <1>1, Invariance, PTL

(***************************************************************************)
(* The distance tab never gets an entry twice (_autoresolve_into,          *)
(* runner.py:291-316, and send_tool.py:98-104).                            *)
(***************************************************************************)
THEOREM EntersDistancesOnce == Spec => []DistancesEnterOnce
<1>1. Inv => DistancesEnterOnce
    BY DEF Inv
<1> QED
    BY <1>1, Invariance, PTL

(***************************************************************************)
(* No step changes a filled cell until the operator types into the row     *)
(* that is being written (send_tool.py:83-96).                             *)
(***************************************************************************)
THEOREM KeepsCells == Spec => CellsAreKept
<1>1. Inv /\ [Next]_vars => [raced \/ Kept]_vars
    BY CellsStep DEF Inv
<1> QED
    BY <1>1, Invariance, PTL DEF Spec, CellsAreKept, Kept

=============================================================================
