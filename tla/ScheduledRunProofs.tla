-------------------------- MODULE ScheduledRunProofs --------------------------
(***************************************************************************)
(* Theorems about ScheduledRun, for any schedule, any number of process    *)
(* ids, failing jobs and SIGTERMs, and, where the theorem says so, any     *)
(* number of racing instances or of crashes.                               *)
(***************************************************************************)
EXTENDS ScheduledRun, WellFoundedInduction, TLAPS

\* The places of an instance that has taken the lock.
Inside == {"gate", "job", "mark", "release"}
HasLock == Inside \cup {"write", "leave"}

\* An instance that runs a gated job, or marks, has a slot in hand.
HasSlot ==
  \A p \in Pids :
    pc[p] = "mark" \/ (pc[p] = "job" /\ Gated) => slot[p] \in Slots

TypeInv == TypeOK /\ HasSlot

-----------------------------------------------------------------------------
(* Type correctness *)

LEMMA LeastExists ==
  ASSUME NEW S \in SUBSET Nat, S # {}
  PROVE  \E s \in S : \A t \in S : s <= t
<1>1. PICK s \in S : \A t \in S : <<t, s>> \notin OpToRel(<, Nat)
  BY NatLessThanWellFounded, WFMin
<1>2. \A t \in S : ~ (t < s)
  BY <1>1 DEF OpToRel
<1> QED  BY <1>2

LEMMA SlotsType == Slots \subseteq Nat /\ Due \subseteq Slots
  BY DEF Slots, Due, SlotsToday

LEMMA EarliestDue == Due # {} => Earliest(Due) \in Due
<1> SUFFICES ASSUME Due # {} PROVE Earliest(Due) \in Due
  OBVIOUS
<1>1. \E s \in Due : \A t \in Due : s <= t
  BY SlotsType, LeastExists
<1> QED  BY <1>1 DEF Earliest

LEMMA LastType == Last \in Int /\ Last >= 0 /\ NoSlot \notin Slots
<1>1. SlotsPerDay + 1 \in Nat /\ SlotsPerDay + 1 >= 1 /\ Days >= 1 /\ Days \in Nat
  BY ScheduleAssumption
<1>2. Days * (SlotsPerDay + 1) >= 1
  BY <1>1
<1>3. 0 % (SlotsPerDay + 1) = 0
  BY <1>1
<1> QED  BY <1>1, <1>2, <1>3 DEF Last, DayLength, NoSlot, Slots

LEMMA InitType == Init => TypeInv
<1> SUFFICES ASSUME Init PROVE TypeInv
  OBVIOUS
<1>1. HasSlot
  BY DEF Init, HasSlot
<1>2. now \in 0..Last /\ pc \in [Pids -> Locations]
  BY LastType DEF Init, Locations
<1>3. failures \in 0..MaxFailures /\ crashes \in 0..MaxCrashes /\ signals \in 0..MaxSignals
  BY BoundsAssumption DEF Init
<1> QED  BY <1>1, <1>2, <1>3 DEF Init, TypeInv, TypeOK

LEMMA GotoType ==
  ASSUME TypeOK, NEW p \in Pids, NEW here, NEW there \in Locations, Goto(p, here, there)
  PROVE  /\ pc' \in [Pids -> Locations]
         /\ pc[p] = here /\ pc'[p] = there
         /\ \A q \in Pids \ {p} : pc'[q] = pc[q]
  BY DEF Goto, TypeOK

LEMMA NextType == TypeInv /\ [Next]_vars => TypeInv'
<1> SUFFICES ASSUME TypeInv, [Next]_vars PROVE TypeInv'
  OBVIOUS
<1> USE DEF TypeInv
<1>1. CASE UNCHANGED vars
  BY <1>1 DEF TypeOK, HasSlot, Gated, Alive, vars, lock, faults
\* A step of p that leaves the slots, the state file and the history alone.
<1>2. ASSUME NEW p \in Pids, NEW here, NEW there \in Locations \ {"job", "mark"},
             Goto(p, here, there),
             dir' \in BOOLEAN, pidFile' \in Pids \cup {NoPid}, pidFile' # NoPid => dir',
             alone' \in BOOLEAN, UNCHANGED <<script, completed, now, slot, done, faults>>
      PROVE  TypeInv'
  BY <1>2, GotoType DEF TypeOK, HasSlot, Gated, faults
<1>3. ASSUME NEW p \in Pids, Start(p) PROVE TypeInv'
  BY <1>2, <1>3 DEF Start, Locations, TypeOK, lock
<1>4. ASSUME NEW p \in Pids, NEW here, TakeLock(p, here), UNCHANGED <<script, alone>> PROVE TypeInv'
  BY <1>2, <1>4 DEF TakeLock, Locations, TypeOK
<1>5. ASSUME NEW p \in Pids, FirstTry(p) \/ SecondTry(p), UNCHANGED <<script, alone>> PROVE TypeInv'
  BY <1>2, <1>4, <1>5 DEF FirstTry, SecondTry, Locations, TypeOK, lock
<1>6. ASSUME NEW p \in Pids, WritePid(p) \/ CheckPid(p) \/ ClearPid(p), UNCHANGED <<script, alone>>
      PROVE  TypeInv'
  BY <1>2, <1>6 DEF WritePid, CheckPid, ClearPid, Locations, TypeOK, lock
<1>7. ASSUME NEW p \in Pids, ClearDir(p) \/ ReleasePid(p), UNCHANGED <<script, alone>> PROVE TypeInv'
  BY <1>2, <1>7 DEF ClearDir, ReleasePid, DirAfterRmdir, Locations, TypeOK
<1>8. ASSUME NEW p \in Pids, ReleaseDir(p), UNCHANGED <<script, alone>> PROVE TypeInv'
  BY <1>8, GotoType DEF ReleaseDir, DirAfterRmdir, Locations, TypeOK, HasSlot, Gated, faults
<1>9. ASSUME NEW p \in Pids, AskGate(p), UNCHANGED <<script, alone>> PROVE TypeInv'
  <2>1. Due # {} => Earliest(Due) \in Slots
    BY EarliestDue, SlotsType
  <2> QED  BY <1>9, <2>1 DEF AskGate, Locations, TypeOK, HasSlot, Gated, lock, faults
<1>10. ASSUME NEW p \in Pids, FinishJob(p), UNCHANGED <<script, alone>> PROVE TypeInv'
  BY <1>10 DEF FinishJob, Goto, Locations, TypeOK, HasSlot, Gated, lock, faults
<1>11. ASSUME NEW p \in Pids, FailJob(p) PROVE TypeInv'
  BY <1>11, BoundsAssumption DEF FailJob, Goto, Locations, TypeOK, HasSlot, Gated, lock
<1>12. ASSUME NEW p \in Pids, MarkSlot(p), UNCHANGED <<script, alone>> PROVE TypeInv'
  BY <1>12 DEF MarkSlot, Goto, Locations, TypeOK, HasSlot, Gated, lock, faults
<1>13. ASSUME NEW p \in Pids, Crash(p) PROVE TypeInv'
  BY <1>13, BoundsAssumption DEF Crash, Locations, TypeOK, HasSlot, Gated, lock
<1>14. ASSUME NEW p \in Pids, Terminate(p) PROVE TypeInv'
  <2>1. HasSlot'
    BY <1>14 DEF Terminate, HasSlot, Gated
  <2>2. signals' \in 0..MaxSignals
    BY <1>14, BoundsAssumption DEF Terminate, TypeOK
  <2> QED  BY <1>14, <2>1, <2>2 DEF Terminate, TypeOK
<1>15. CASE Tick
  BY <1>15, LastType DEF Tick, TypeOK, HasSlot, Gated, lock, faults
<1>16. ASSUME NEW p \in Pids, Step(p) PROVE TypeInv'
  BY <1>5, <1>6, <1>7, <1>8, <1>9, <1>10, <1>12, <1>16 DEF Step
<1> QED  BY <1>1, <1>3, <1>11, <1>13, <1>14, <1>15, <1>16 DEF Next

LEMMA TypeInvariance == Spec => []TypeInv
  BY InitType, NextType, PTL DEF Spec

(***************************************************************************)
(* Every variable of the lock, the state file and the instances keeps its  *)
(* type, for any number of instances, slots and days.                      *)
(***************************************************************************)
THEOREM TypeCorrect == Spec => []TypeOK
<1>1. TypeInv => TypeOK
  BY DEF TypeInv
<1> QED  BY <1>1, TypeInvariance, PTL

-----------------------------------------------------------------------------
(* Any number of racing instances *)

(***************************************************************************)
(* Why the lock goes in the end: a pid in it is that of an instance that   *)
(* has still to pass its cleanup trap, and so is the maker of a directory. *)
(***************************************************************************)
WillRelease ==
  crashes = 0 =>
    /\ pidFile # NoPid => pc[pidFile] \in Inside
    /\ dir => \E p \in Pids : pc[p] \in HasLock

LockInv == TypeInv /\ WillRelease

LEMMA InitLock == Init => LockInv
  BY InitType DEF Init, LockInv, WillRelease

LEMMA NextLock == LockInv /\ [Next]_vars => LockInv'
<1> SUFFICES ASSUME LockInv, [Next]_vars PROVE WillRelease'
  BY NextType DEF LockInv
<1>t. TypeOK /\ TypeOK' /\ WillRelease
  BY NextType DEF LockInv, TypeInv
<1>1. CASE UNCHANGED vars
  BY <1>1, <1>t DEF WillRelease, vars, lock, faults
\* A step of p outside the lock, or inside it.
<1>2. ASSUME NEW p \in Pids, pc[p] \notin HasLock, pidFile # p, UNCHANGED <<pidFile, crashes>>,
             dir' => dir, \A q \in Pids \ {p} : pc'[q] = pc[q]
      PROVE  WillRelease'
  BY <1>2, <1>t DEF WillRelease, Inside, HasLock, TypeOK
<1>3. ASSUME NEW p \in Pids, pc'[p] \in Inside, UNCHANGED <<pidFile, crashes, dir>>,
             \A q \in Pids \ {p} : pc'[q] = pc[q]
      PROVE  WillRelease'
  BY <1>3, <1>t DEF WillRelease, Inside, HasLock, TypeOK
<1>4. ASSUME NEW p \in Pids, pc[p] \notin HasLock, crashes = 0 PROVE pidFile # p
  BY <1>4, <1>t, PidAssumption DEF WillRelease, HasLock
<1>5. ASSUME NEW p \in Pids, Start(p) PROVE WillRelease'
  BY <1>2, <1>5, <1>t, GotoType DEF Start, HasLock, Inside, Locations, lock, faults
<1>6. ASSUME NEW p \in Pids, NEW here \in {"mkdir", "again"}, TakeLock(p, here)
      PROVE  WillRelease'
  <2>1. pc'[p] \in HasLock /\ pc[p] = here /\ \A q \in Pids \ {p} : pc'[q] = pc[q]
    BY <1>6, <1>t, GotoType DEF TakeLock, HasLock, Inside, Locations
  <2>2. crashes = 0 => pidFile # p
    BY <1>4, <2>1 DEF HasLock, Inside
  <2> QED  BY <1>6, <1>t, <2>1, <2>2 DEF TakeLock, WillRelease, TypeOK, faults
<1>7. ASSUME NEW p \in Pids, pc[p] \notin HasLock, UNCHANGED <<pidFile, crashes>>,
             dir' => dir, \A q \in Pids \ {p} : pc'[q] = pc[q]
      PROVE  WillRelease'
  <2>1. CASE crashes # 0
    BY <1>7, <2>1 DEF WillRelease
  <2> QED  BY <1>2, <1>4, <1>7, <2>1
<1>8. ASSUME NEW p \in Pids, FirstTry(p) PROVE WillRelease'
  <2>1. CASE TakeLock(p, "mkdir")
    BY <1>6, <2>1
  <2>2. CASE ~TakeLock(p, "mkdir")
    BY <1>7, <1>8, <1>t, <2>2, GotoType DEF FirstTry, HasLock, Inside, Locations, lock, faults
  <2> QED  BY <2>1, <2>2
<1>9. ASSUME NEW p \in Pids, SecondTry(p) PROVE WillRelease'
  <2>1. CASE TakeLock(p, "again")
    BY <1>6, <2>1
  <2>2. CASE ~TakeLock(p, "again")
    BY <1>7, <1>9, <1>t, <2>2, GotoType DEF SecondTry, HasLock, Inside, Locations, lock, faults
  <2> QED  BY <2>1, <2>2
<1>10. ASSUME NEW p \in Pids, WritePid(p) PROVE WillRelease'
  <2>1. CASE dir
    <3>1. pidFile' = p /\ pc'[p] = "gate"
      BY <1>10, <1>t, <2>1, GotoType DEF WritePid, Locations
    <3> QED  BY <3>1 DEF WillRelease, Inside, HasLock
  <2>2. CASE ~dir
    BY <1>10, <1>t, <2>2 DEF WritePid, WillRelease, TypeOK
  <2> QED  BY <2>1, <2>2
<1>11. ASSUME NEW p \in Pids, CheckPid(p) PROVE WillRelease'
  BY <1>7, <1>11, <1>t, GotoType DEF CheckPid, HasLock, Inside, Locations, lock, faults
<1>12. ASSUME NEW p \in Pids, ClearPid(p) PROVE WillRelease'
  BY <1>12, <1>t, GotoType DEF ClearPid, WillRelease, HasLock, Inside, Locations, faults
<1>13. ASSUME NEW p \in Pids, ClearDir(p) PROVE WillRelease'
  <2>1. pc[p] \notin HasLock /\ \A q \in Pids \ {p} : pc'[q] = pc[q]
    BY <1>13, <1>t, GotoType DEF ClearDir, HasLock, Inside, Locations
  <2>2. dir' => dir
    BY <1>13 DEF ClearDir, DirAfterRmdir
  <2> QED  BY <1>7, <1>13, <2>1, <2>2 DEF ClearDir, faults
<1>14. ASSUME NEW p \in Pids, ReleasePid(p) PROVE WillRelease'
  BY <1>14, <1>t, GotoType DEF ReleasePid, WillRelease, HasLock, Inside, Locations, faults
\* Another instance wrote its pid into a directory this one cannot remove.
<1>15. ASSUME NEW p \in Pids, ReleaseDir(p) PROVE WillRelease'
  BY <1>15, <1>t, GotoType
  DEF ReleaseDir, DirAfterRmdir, WillRelease, TypeOK, HasLock, Inside, Locations, faults
<1>16. ASSUME NEW p \in Pids, AskGate(p) PROVE WillRelease'
  BY <1>3, <1>16, <1>t DEF AskGate, Inside, TypeOK, lock, faults
<1>17. ASSUME NEW p \in Pids, FinishJob(p) PROVE WillRelease'
  BY <1>3, <1>17, <1>t DEF FinishJob, Goto, Inside, TypeOK, lock, faults
<1>18. ASSUME NEW p \in Pids, FailJob(p) PROVE WillRelease'
  BY <1>3, <1>18, <1>t DEF FailJob, Goto, Inside, TypeOK, lock
<1>19. ASSUME NEW p \in Pids, MarkSlot(p) PROVE WillRelease'
  BY <1>3, <1>19, <1>t DEF MarkSlot, Goto, Inside, TypeOK, lock, faults
<1>20. ASSUME NEW p \in Pids, Crash(p) PROVE WillRelease'
  BY <1>20, <1>t, BoundsAssumption DEF Crash, WillRelease, TypeOK
<1>21. ASSUME NEW p \in Pids, Terminate(p) PROVE WillRelease'
  BY <1>21 DEF Terminate, WillRelease
<1>22. CASE Tick
  BY <1>22, <1>t DEF Tick, WillRelease, lock, faults
<1>23. ASSUME NEW p \in Pids, Step(p) PROVE WillRelease'
  BY <1>8, <1>9, <1>10, <1>11, <1>12, <1>13, <1>14, <1>15, <1>16, <1>17, <1>19, <1>23
  DEF Step
<1> QED  BY <1>1, <1>5, <1>18, <1>20, <1>21, <1>22, <1>23 DEF Next

(***************************************************************************)
(* Without crashes no lock is left over once every instance has ended, for *)
(* any number of instances that race for it and any number of SIGTERMs.    *)
(***************************************************************************)
THEOREM LocksAreReleased == Spec => []NoLeftoverLock
<1>1. Init => LockInv
  BY InitLock
<1>2. LockInv /\ [Next]_vars => LockInv'
  BY NextLock
<1>3. LockInv => NoLeftoverLock
  BY DEF LockInv, WillRelease, NoLeftoverLock, Alive, HasLock, Inside
<1> QED  BY <1>1, <1>2, <1>3, PTL DEF Spec

-----------------------------------------------------------------------------
(* Until two instances are alive at once *)

Alone == \A p, q \in Pids : pc[p] # "idle" /\ pc[q] # "idle" => p = q

\* Where an instance has no slot in hand.
SlotInHand == \A p \in Pids : pc[p] \notin {"job", "mark", "release", "leave"} => slot[p] = NoSlot

\* The lock names the instance from the writing of its pid to its cleanup.
Holding ==
  signals = 0 /\ ClearsStaleLocks =>
    \A p \in Pids : pc[p] \in Inside => dir /\ pidFile = p

\* A slot whose job has succeeded more often than instances crashed is
\* completed or about to be marked.
Once ==
  /\ \A s \in Slots : done[s] <= 1 + crashes
  /\ \A s \in Slots : done[s] <= crashes \/ s \in completed
                        \/ \E p \in Pids : pc[p] = "mark" /\ slot[p] = s
  /\ \A p \in Pids : pc[p] = "job" /\ Gated => done[slot[p]] <= crashes

SameDay(s, t) == s \div DayLength = t \div DayLength

DoneInOrder ==
  \A s \in completed, t \in Slots : t < s /\ SameDay(t, s) => t \in completed

\* No slot of the day was due before the one in hand.
InOrder ==
  /\ \A p \in Pids : pc[p] \in {"job", "mark"} =>
       \A t \in Slots : t < slot[p] /\ SameDay(t, slot[p]) => t \in completed
  /\ DoneInOrder

OneAtATime == Alone /\ SlotInHand /\ Holding /\ Once /\ InOrder

OneInv == TypeInv /\ (alone => OneAtATime)

LEMMA InitOne == Init => OneInv
<1> SUFFICES ASSUME Init PROVE OneInv
  OBVIOUS
<1> QED  BY InitType
         DEF Init, OneInv, OneAtATime, Alone, SlotInHand, Holding, Once, InOrder, DoneInOrder, Inside

LEMMA EarliestIsFirst ==
  ASSUME Due # {}, NEW t \in Slots, t < Earliest(Due), SameDay(t, Earliest(Due)),
         now \in Nat
  PROVE  t \in completed
<1>1. \A u \in Due : Earliest(Due) <= u
  <2>1. \E s \in Due : \A u \in Due : s <= u
    BY SlotsType, LeastExists
  <2> QED  BY <2>1 DEF Earliest
<1>2. Earliest(Due) \in SlotsToday /\ Earliest(Due) \in Nat /\ t \in Nat
  BY EarliestDue, SlotsType DEF Due
<1>3. t \in SlotsToday
  BY <1>2 DEF SlotsToday, SameDay
<1>4. t \notin Due
  BY <1>1, <1>2
<1> QED  BY <1>3, <1>4 DEF Due

LEMMA NextOne == OneInv /\ [Next]_vars => OneInv'
<1> SUFFICES ASSUME OneInv, [Next]_vars, alone'
             PROVE  Alone' /\ SlotInHand' /\ Holding' /\ Once' /\ InOrder'
  BY NextType DEF OneInv, OneAtATime
<1> DEFINE Goal == Alone' /\ SlotInHand' /\ Holding' /\ Once' /\ InOrder'
<1>0. alone
  BY DEF vars, Next, Start, Step, FailJob, Crash, Terminate, Tick
<1>t. TypeOK /\ TypeOK' /\ HasSlot /\ Alone /\ SlotInHand /\ Holding /\ Once /\ InOrder
  BY <1>0, NextType DEF OneInv, OneAtATime, TypeInv
<1>1. CASE UNCHANGED vars
  BY <1>1, <1>t DEF vars, lock, faults, Alone, SlotInHand, Holding, Once, InOrder,
                    DoneInOrder, Gated, ClearsStaleLocks
\* Only p moves; the others are idle.
<1>a. ASSUME NEW p \in Pids, pc[p] # "idle" PROVE \A q \in Pids \ {p} : pc[q] = "idle"
  BY <1>a, <1>t DEF Alone
<1>b. ASSUME NEW p \in Pids, NEW here, NEW there \in Locations, Goto(p, here, there),
             here # "idle"
      PROVE  /\ pc[p] = here /\ pc'[p] = there
             /\ \A q \in Pids \ {p} : pc[q] = "idle" /\ pc'[q] = "idle"
  BY <1>a, <1>b, <1>t, GotoType
\* A step that ends outside job and mark.
<1>2. ASSUME NEW p \in Pids,
             \A q \in Pids \ {p} : pc[q] = "idle" /\ pc'[q] = "idle",
             pc[p] # "mark", pc'[p] \notin {"job", "mark"},
             slot' = slot \/ slot' = [slot EXCEPT ![p] = NoSlot],
             pc'[p] \in {"release", "leave"} \/ slot'[p] = NoSlot,
             signals = 0 /\ ClearsStaleLocks => (pc'[p] \in Inside => dir' /\ pidFile' = p),
             UNCHANGED <<script, completed, now, done, crashes, signals>>
      PROVE  Goal
  <2>1. Alone' /\ SlotInHand'
    BY <1>2, <1>t DEF Alone, SlotInHand, TypeOK
  <2>2. Holding'
    BY <1>2 DEF Holding, Inside, ClearsStaleLocks
  <2>3. Once'
    BY <1>2, <1>t DEF Once, Gated
  <2>4. InOrder'
    BY <1>2, <1>t DEF InOrder, DoneInOrder
  <2> QED  BY <2>1, <2>2, <2>3, <2>4
<1>3. ASSUME NEW p \in Pids, Start(p) PROVE Goal
  <2>1. \A q \in Pids : pc[q] = "idle"
    BY <1>3 DEF Start, Alive
  <2>2. pc'[p] = "mkdir" /\ \A q \in Pids \ {p} : pc'[q] = "idle"
    BY <1>3, <1>t, <2>1 DEF Start, Goto, TypeOK
  <2> QED  BY <1>2, <1>3, <1>t, <2>1, <2>2 DEF Start, SlotInHand, Inside, faults
\* The steps before the gate, where no slot is in hand.
<1>4. ASSUME NEW p \in Pids, NEW here \in {"mkdir", "write", "check", "rm", "rmdir", "again"},
             NEW there \in Locations \ {"job", "mark"}, Goto(p, here, there),
             signals = 0 /\ ClearsStaleLocks => (there \in Inside => dir' /\ pidFile' = p),
             UNCHANGED <<script, completed, now, slot, done, faults>>
      PROVE  Goal
  <2>1. slot[p] = NoSlot
    BY <1>4, <1>b, <1>t DEF SlotInHand
  <2> QED  BY <1>2, <1>4, <1>b, <2>1 DEF faults
<1>5. ASSUME NEW p \in Pids, NEW here \in {"mkdir", "again"}, TakeLock(p, here),
             UNCHANGED script
      PROVE  Goal
  BY <1>4, <1>5 DEF TakeLock, Locations, Inside
<1>6. ASSUME NEW p \in Pids, FirstTry(p) \/ SecondTry(p), UNCHANGED script PROVE Goal
  BY <1>4, <1>5, <1>6 DEF FirstTry, SecondTry, Locations, Inside, lock
<1>7. ASSUME NEW p \in Pids, WritePid(p), UNCHANGED script PROVE Goal
  BY <1>4, <1>7 DEF WritePid, Locations, Inside
<1>8. ASSUME NEW p \in Pids, CheckPid(p) \/ ClearPid(p) \/ ClearDir(p), UNCHANGED script
      PROVE  Goal
  BY <1>4, <1>8 DEF CheckPid, ClearPid, ClearDir, Locations, Inside, lock
<1>9. ASSUME NEW p \in Pids, ReleasePid(p), UNCHANGED script PROVE Goal
  BY <1>2, <1>9, <1>b DEF ReleasePid, Locations, Inside, faults
<1>10. ASSUME NEW p \in Pids, ReleaseDir(p), UNCHANGED script PROVE Goal
  <2>1. slot'[p] = NoSlot
    BY <1>10, <1>t DEF ReleaseDir, TypeOK
  <2>2. Goto(p, "leave", "idle") /\ "idle" \in Locations
    BY <1>10 DEF ReleaseDir, Locations
  <2>3. /\ pc[p] = "leave" /\ pc'[p] = "idle"
        /\ \A q \in Pids \ {p} : pc[q] = "idle" /\ pc'[q] = "idle"
    BY <1>b, <2>2
  <2>4. /\ slot' = [slot EXCEPT ![p] = NoSlot]
        /\ UNCHANGED <<script, completed, now, done, crashes, signals>>
    BY <1>10 DEF ReleaseDir, faults
  <2>5. pc'[p] \notin Inside
    BY <2>3 DEF Inside
  <2> QED  BY <1>2, <2>1, <2>3, <2>4, <2>5
<1>11. ASSUME NEW p \in Pids, AskGate(p), UNCHANGED script PROVE Goal
  <2>1. /\ pc[p] = "gate" /\ slot[p] = NoSlot
        /\ \A q \in Pids \ {p} : pc[q] = "idle" /\ pc'[q] = "idle" /\ slot'[q] = slot[q]
    BY <1>11, <1>a, <1>t DEF AskGate, SlotInHand, TypeOK
  <2>2. CASE Gated /\ Due = {}
    <3>1. pc'[p] = "release" /\ slot' = slot
      BY <1>11, <1>t, <2>2 DEF AskGate, TypeOK
    <3>2. signals = 0 /\ ClearsStaleLocks => dir' /\ pidFile' = p
      BY <1>11, <1>t, <2>1 DEF AskGate, Holding, Inside, lock
    <3> QED  BY <1>2, <1>11, <2>1, <3>1, <3>2 DEF AskGate, faults
  <2>3. CASE ~(Gated /\ Due = {})
    <3>1. pc'[p] = "job" /\ slot'[p] = IF Gated THEN Earliest(Due) ELSE NoSlot
      BY <1>11, <1>t, <2>1, <2>3 DEF AskGate, TypeOK
    <3>2. UNCHANGED <<dir, pidFile, completed, now, done, signals, crashes, script>>
      BY <1>11 DEF AskGate, lock, faults
    <3>3. Alone' /\ SlotInHand'
      BY <1>t, <2>1, <3>1 DEF Alone, SlotInHand
    <3>4. Holding'
      BY <1>t, <2>1, <3>1, <3>2 DEF Holding, Inside, ClearsStaleLocks
    <3>5. Gated => /\ Earliest(Due) \in Slots /\ Earliest(Due) \notin completed
      BY <2>3, EarliestDue, SlotsType DEF Due
    <3>6. Once'
      BY <1>t, <2>1, <3>1, <3>2, <3>5 DEF Once, Gated
    <3>7. \A t \in Slots : t < slot'[p] /\ SameDay(t, slot'[p]) => t \in completed
      <4>1. CASE Gated
        BY <1>t, <2>3, <3>1, <4>1, LastType, EarliestIsFirst DEF TypeOK
      <4>2. CASE ~Gated
        <5>1. slot'[p] = 0
          BY <3>1, <4>2 DEF NoSlot
        <5>2. \A t \in Slots : t \in Nat /\ ~(t < 0)
          BY SlotsType
        <5> QED  BY <5>1, <5>2
      <4> QED  BY <4>1, <4>2
    <3>8. InOrder'
      BY <1>t, <2>1, <3>1, <3>2, <3>7 DEF InOrder, DoneInOrder
    <3> QED  BY <3>3, <3>4, <3>6, <3>8
  <2> QED  BY <2>2, <2>3
\* The job ends, without a slot to mark.
<1>12. ASSUME NEW p \in Pids, Goto(p, "job", "release"), UNCHANGED <<script, lock, completed>>,
              UNCHANGED <<now, slot, done, crashes, signals>>
       PROVE  Goal
  <2>1. signals = 0 /\ ClearsStaleLocks => dir' /\ pidFile' = p
    BY <1>12, <1>b, <1>t DEF Holding, Inside, lock, Locations
  <2> QED  BY <1>2, <1>12, <1>b, <2>1 DEF Locations
\* The job ends, and its slot is to be marked.
<1>13. ASSUME NEW p \in Pids, Goto(p, "job", "mark"), Gated,
              UNCHANGED <<script, lock, completed>>, UNCHANGED <<now, slot, crashes, signals>>,
              done' = done \/ done' = [done EXCEPT ![slot[p]] = @ + 1]
       PROVE  Goal
  <2>1. /\ pc[p] = "job" /\ pc'[p] = "mark" /\ slot[p] \in Slots
        /\ \A q \in Pids \ {p} : pc[q] = "idle" /\ pc'[q] = "idle"
    BY <1>13, <1>b, <1>t DEF Locations, HasSlot
  <2>2. Alone' /\ SlotInHand'
    BY <1>13, <1>t, <2>1 DEF Alone, SlotInHand
  <2>3. Holding'
    BY <1>13, <1>t, <2>1 DEF Holding, Inside, ClearsStaleLocks, lock
  <2>4. Once'
    BY <1>13, <1>t, <2>1 DEF Once, Gated, TypeOK
  <2>5. InOrder'
    BY <1>13, <1>t, <2>1 DEF InOrder, DoneInOrder
  <2> QED  BY <2>2, <2>3, <2>4, <2>5
<1>14. ASSUME NEW p \in Pids, FinishJob(p), UNCHANGED script PROVE Goal
  BY <1>12, <1>13, <1>14 DEF FinishJob, faults
<1>15. ASSUME NEW p \in Pids, FailJob(p) PROVE Goal
  BY <1>12, <1>13, <1>15 DEF FailJob
<1>16. ASSUME NEW p \in Pids, MarkSlot(p), UNCHANGED script PROVE Goal
  <2>1. /\ pc[p] = "mark" /\ pc'[p] = "release" /\ slot[p] \in Slots
        /\ \A q \in Pids \ {p} : pc[q] = "idle" /\ pc'[q] = "idle"
    BY <1>16, <1>b, <1>t DEF MarkSlot, Locations, HasSlot
  <2>2. Alone' /\ SlotInHand'
    BY <1>16, <1>t, <2>1 DEF MarkSlot, Alone, SlotInHand
  <2>3. Holding'
    BY <1>16, <1>t, <2>1 DEF MarkSlot, Holding, Inside, ClearsStaleLocks, lock, faults
  <2>4. Once'
    BY <1>16, <1>t, <2>1 DEF MarkSlot, Once, Gated, faults
  <2>5. \A t \in Slots : t < slot[p] /\ SameDay(t, slot[p]) => t \in completed
    BY <1>t, <2>1 DEF InOrder
  <2>6. InOrder'
    BY <1>16, <1>t, <2>1, <2>5 DEF MarkSlot, InOrder, DoneInOrder, SameDay
  <2> QED  BY <2>2, <2>3, <2>4, <2>6
<1>17. ASSUME NEW p \in Pids, Crash(p) PROVE Goal
  <2>1. pc'[p] = "idle" /\ slot'[p] = NoSlot
        /\ \A q \in Pids \ {p} : pc'[q] = "idle" /\ slot'[q] = slot[q] /\ pc[q] = "idle"
    BY <1>17, <1>a, <1>t DEF Crash, TypeOK
  <2>2. Once'
    <3>1. crashes \in Nat /\ crashes' = crashes + 1 /\ done' = done
      BY <1>17, <1>t, BoundsAssumption DEF Crash, TypeOK
    <3>2. \A s \in Slots : done[s] \in Nat /\ done[s] <= 1 + crashes
      BY <1>t DEF TypeOK, Once
    <3> QED  BY <2>1, <3>1, <3>2 DEF Once
  <2>3. InOrder'
    BY <1>17, <1>t, <2>1 DEF Crash, InOrder, DoneInOrder
  <2> QED  BY <1>t, <2>1, <2>2, <2>3 DEF Alone, SlotInHand, Holding, Inside
<1>18. ASSUME NEW p \in Pids, Terminate(p) PROVE Goal
  <2>1. signals' # 0
    BY <1>18, <1>t, BoundsAssumption DEF Terminate, TypeOK
  <2> QED  BY <1>18, <1>t, <2>1
           DEF Terminate, Alone, SlotInHand, Holding, Once, InOrder, DoneInOrder, Gated
<1>19. CASE Tick
  BY <1>19, <1>t DEF Tick, Alone, SlotInHand, Holding, Once, InOrder, DoneInOrder,
                     Gated, ClearsStaleLocks, lock, faults
<1>20. ASSUME NEW p \in Pids, Step(p) PROVE Goal
  BY <1>6, <1>7, <1>8, <1>9, <1>10, <1>11, <1>14, <1>16, <1>20 DEF Step
<1> QED  BY <1>1, <1>3, <1>15, <1>17, <1>18, <1>19, <1>20 DEF Next

LEMMA OneInvariance == Spec => []OneInv
  BY InitOne, NextOne, PTL DEF Spec

(***************************************************************************)
(* No two instances at once: whatever locks crashed instances left, while  *)
(* the job of a script that clears stale locks runs the lock names its     *)
(* instance, as long as it gets no SIGTERM.                                *)
(***************************************************************************)
THEOREM JobsHoldTheLock == Spec => []JobHoldsLock
<1>1. OneInv => JobHoldsLock
  BY DEF OneInv, OneAtATime, TypeInv, TypeOK, Holding, JobHoldsLock, ClearsStaleLocks, Inside
<1> QED  BY <1>1, OneInvariance, PTL

(***************************************************************************)
(* No two instances at once: the job of a gated script succeeds once for a *)
(* slot, whichever of its runs fail, and once more for each crash.         *)
(***************************************************************************)
THEOREM SlotsSucceedOnce == Spec => []OncePerSlot
<1>1. OneInv => OncePerSlot
  BY DEF OneInv, OneAtATime, Once, OncePerSlot
<1> QED  BY <1>1, OneInvariance, PTL

(***************************************************************************)
(* No two instances at once: through crashes and truncated state files, no *)
(* slot of a day is passed over while a later one is completed.            *)
(***************************************************************************)
THEOREM SlotsAreDoneInOrder == Spec => []NoSlotIsPassedOver
<1>1. OneInv => NoSlotIsPassedOver
  BY DEF OneInv, OneAtATime, InOrder, DoneInOrder, SameDay, NoSlotIsPassedOver
<1> QED  BY <1>1, OneInvariance, PTL
=============================================================================
