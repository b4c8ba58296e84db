----------------------------- MODULE ScheduledRun -----------------------------
(***************************************************************************)
(* A scheduled job: scripts/run_*_scheduled.sh, started again and again by *)
(* launchd or by hand, takes a lock directory, asks the schedule gate      *)
(* (app/control_plane/schedule_gate.py) which slot of the day is due, runs *)
(* the job and marks the slot as completed.                                *)
(*                                                                         *)
(* Every file operation of the lock is an action.  Time is a counter of    *)
(* slots: the multiples of SlotsPerDay + 1 are the early mornings, before  *)
(* the first slot of a day.                                                *)
(*                                                                         *)
(* Abstractions.  Each script instance is its pid; the system reuses a pid *)
(* only when no lock names it.  A preflight that finds nothing to do is a  *)
(* job that succeeds.  The state file is pruned after seven days, later    *)
(* than this clock runs.                                                   *)
(***************************************************************************)
EXTENDS Integers, FiniteSets

CONSTANTS
  Pids,              \* process ids a script instance may get
  MaxAlive,          \* script instances that may be alive at once
  SlotsPerDay, Days, \* the schedule and the length of the run
  Scripts,           \* kinds of script, one of which is run
  MaxFailures,       \* bound: jobs that exit with an error
  MaxCrashes,        \* bound: kills and power losses
  MaxSignals         \* bound: SIGTERMs to a script that holds the lock

ASSUME ScheduleAssumption == SlotsPerDay \in Nat \ {0} /\ Days \in Nat \ {0}
ASSUME ScriptAssumption   == Scripts # {} /\ Scripts \subseteq {"gated", "marking", "polling", "batch"}
ASSUME BoundsAssumption   == {MaxAlive, MaxFailures, MaxCrashes, MaxSignals} \subseteq Nat

VARIABLES
  script,     \* the kind of script
  dir,        \* the lock directory exists
  pidFile,    \* the pid in it, if any
  completed,  \* the slots in the state file
  now,        \* the clock
  alone,      \* history: no two instances were alive at once
  pc,         \* where each script instance is
  slot,       \* the slot it runs
  done,       \* history: how often the job succeeded for a slot
  failures, crashes, signals

lock   == <<dir, pidFile>>
faults == <<failures, crashes, signals>>
vars   == <<script, lock, completed, now, alone, pc, slot, done, faults>>

\* label_cleanup and newsletter_unsubscribe ask the gate, and the latter marks
\* a slot also when its job failed; tag_new_inbox and batch_disagreements run
\* their jobs every time; the lock of batch_disagreements holds no pid.
Gated == script \in {"gated", "marking"}
MarksFailures == script = "marking"
ClearsStaleLocks == script # "batch"

DayLength == SlotsPerDay + 1
Last  == Days * DayLength - 1
Slots == {t \in 0..Last : t % DayLength # 0}
NoSlot == 0
NoPid == -1
ASSUME PidAssumption == NoPid \notin Pids
Alive == {p \in Pids : pc[p] # "idle"}
Locations == {"idle", "mkdir", "write", "check", "rm", "rmdir", "again", "gate",
              "job", "mark", "release", "leave"}

TypeOK ==
  /\ script \in Scripts
  /\ dir \in BOOLEAN
  /\ pidFile \in Pids \cup {NoPid}
  /\ pidFile # NoPid => dir
  /\ completed \subseteq Slots
  /\ now \in 0..Last
  /\ alone \in BOOLEAN
  /\ pc \in [Pids -> Locations]
  /\ slot \in [Pids -> Slots \cup {NoSlot}]
  /\ done \in [Slots -> Nat]
  /\ failures \in 0..MaxFailures /\ crashes \in 0..MaxCrashes
  /\ signals \in 0..MaxSignals

-----------------------------------------------------------------------------
(* The lock *)

Goto(p, here, there) == pc[p] = here /\ pc' = [pc EXCEPT ![p] = there]

\* launchd's interval or the operator starts the script.
Start(p) ==
  /\ Cardinality(Alive) < MaxAlive
  /\ pidFile # p
  /\ Goto(p, "idle", "mkdir")
  /\ alone' = (alone /\ Alive = {})
  /\ UNCHANGED <<script, lock, completed, now, slot, done, faults>>

TakeLock(p, here) ==
  /\ ~dir
  /\ dir' = TRUE
  /\ Goto(p, here, IF ClearsStaleLocks THEN "write" ELSE "gate")
  /\ UNCHANGED <<pidFile, completed, now, slot, done, faults>>

FirstTry(p) ==
  \/ TakeLock(p, "mkdir")
  \/ /\ dir
     /\ Goto(p, "mkdir", IF ClearsStaleLocks THEN "check" ELSE "idle")
     /\ UNCHANGED <<lock, completed, now, slot, done, faults>>

\* Mutant of WritePid: the lock keeps no pid.
WriteNothing(p) ==
  /\ Goto(p, "write", "gate")
  /\ UNCHANGED <<lock, completed, now, slot, done, faults>>

\* The redirection fails, and with it the script, if the directory is gone.
WritePid(p) ==
  /\ \/ dir /\ pidFile' = p /\ Goto(p, "write", "gate")
     \/ ~dir /\ UNCHANGED pidFile /\ Goto(p, "write", "idle")
  /\ UNCHANGED <<dir, completed, now, slot, done, faults>>

\* Mutant: kill -0 takes every pid for a live one.
AnyPidLives == pidFile # NoPid
HolderLives == pidFile \in Alive

CheckPid(p) ==
  /\ \/ HolderLives /\ Goto(p, "check", "idle")
     \/ ~HolderLives /\ Goto(p, "check", IF pidFile = NoPid THEN "rmdir" ELSE "rm")
  /\ UNCHANGED <<lock, completed, now, slot, done, faults>>

ClearPid(p) ==
  /\ Goto(p, "rm", "rmdir")
  /\ pidFile' = NoPid
  /\ UNCHANGED <<dir, completed, now, slot, done, faults>>

\* rmdir fails on a directory that is not empty.
DirAfterRmdir == dir /\ pidFile # NoPid

ClearDir(p) ==
  /\ Goto(p, "rmdir", "again")
  /\ dir' = DirAfterRmdir
  /\ UNCHANGED <<pidFile, completed, now, slot, done, faults>>

SecondTry(p) ==
  \/ TakeLock(p, "again")
  \/ /\ dir
     /\ Goto(p, "again", "idle")
     /\ UNCHANGED <<lock, completed, now, slot, done, faults>>

\* Mutant of ReleasePid: the trap does not remove the pid file.
ReleaseNothing(p) ==
  /\ Goto(p, "release", "leave")
  /\ UNCHANGED <<lock, completed, now, slot, done, faults>>

\* The cleanup trap on exit, whoever holds the lock by then.
ReleasePid(p) ==
  /\ Goto(p, "release", "leave")
  /\ pidFile' = NoPid
  /\ UNCHANGED <<dir, completed, now, slot, done, faults>>

ReleaseDir(p) ==
  /\ Goto(p, "leave", "idle")
  /\ dir' = DirAfterRmdir
  /\ slot' = [slot EXCEPT ![p] = NoSlot]
  /\ UNCHANGED <<pidFile, completed, now, done, faults>>

-----------------------------------------------------------------------------
(* The gate and the job *)

SlotsToday == {s \in Slots : s <= now /\ s \div DayLength = now \div DayLength}
Due == SlotsToday \ completed

\* Mutant of Earliest: the latest due slot comes first.
Latest(S) == CHOOSE s \in S : \A t \in S : t <= s
Earliest(S) == CHOOSE s \in S : \A t \in S : s <= t

AskGate(p) ==
  /\ pc[p] = "gate"
  /\ \/ /\ Gated /\ Due = {}
        /\ pc' = [pc EXCEPT ![p] = "release"]
        /\ UNCHANGED slot
     \/ /\ Gated /\ Due # {}
        /\ pc' = [pc EXCEPT ![p] = "job"]
        /\ slot' = [slot EXCEPT ![p] = Earliest(Due)]
     \/ /\ ~Gated
        /\ pc' = [pc EXCEPT ![p] = "job"]
        /\ UNCHANGED slot
  /\ UNCHANGED <<lock, completed, now, done, faults>>

FinishJob(p) ==
  /\ IF Gated
     THEN Goto(p, "job", "mark") /\ done' = [done EXCEPT ![slot[p]] = @ + 1]
     ELSE Goto(p, "job", "release") /\ UNCHANGED done
  /\ UNCHANGED <<lock, completed, now, slot, faults>>

FailJob(p) ==
  /\ failures < MaxFailures
  /\ failures' = failures + 1
  /\ Goto(p, "job", IF Gated /\ MarksFailures THEN "mark" ELSE "release")
  /\ UNCHANGED <<script, alone, lock, completed, now, slot, done, crashes, signals>>

\* Mutant of MarkSlot: the slot is marked only in memory.
MarkNothing(p) ==
  /\ Goto(p, "mark", "release")
  /\ UNCHANGED <<lock, completed, now, slot, done, faults>>

\* mark_slot_completed: load, add, prune, write.
MarkSlot(p) ==
  /\ Goto(p, "mark", "release")
  /\ completed' = completed \cup {slot[p]}
  /\ UNCHANGED <<lock, now, slot, done, faults>>

-----------------------------------------------------------------------------
(* Time and faults *)

Tick ==
  /\ now < Last
  /\ now' = now + 1
  /\ UNCHANGED <<script, alone, lock, completed, pc, slot, done, faults>>

\* A kill or a power loss.  One in the middle of the write of the state file
\* leaves a truncated file, which the next load takes for an empty one.
Crash(p) ==
  /\ crashes < MaxCrashes
  /\ crashes' = crashes + 1
  /\ pc[p] # "idle"
  /\ pc' = [pc EXCEPT ![p] = "idle"]
  /\ slot' = [slot EXCEPT ![p] = NoSlot]
  /\ \/ UNCHANGED completed
     \/ pc[p] = "mark" /\ completed' = {}
  /\ UNCHANGED <<script, alone, lock, now, done, failures, signals>>

\* The trap on SIGTERM runs the cleanup after the command in progress and
\* does not exit: the script goes on without its lock.
Terminate(p) ==
  /\ signals < MaxSignals
  /\ signals' = signals + 1
  /\ pc[p] \in {"gate", "job", "mark"}
  /\ pidFile' = NoPid
  /\ dir' = FALSE
  /\ UNCHANGED <<script, alone, completed, now, pc, slot, done, failures, crashes>>

-----------------------------------------------------------------------------

Init ==
  /\ script \in Scripts
  /\ dir = FALSE /\ pidFile = NoPid
  /\ completed = {} /\ now = 0 /\ alone = TRUE
  /\ pc = [p \in Pids |-> "idle"]
  /\ slot = [p \in Pids |-> NoSlot]
  /\ done = [s \in Slots |-> 0]
  /\ failures = 0 /\ crashes = 0 /\ signals = 0

Step(p) ==
  /\ \/ FirstTry(p) \/ WritePid(p) \/ CheckPid(p) \/ ClearPid(p) \/ ClearDir(p)
     \/ SecondTry(p) \/ AskGate(p) \/ FinishJob(p) \/ MarkSlot(p)
     \/ ReleasePid(p) \/ ReleaseDir(p)
  /\ UNCHANGED <<script, alone>>

Next ==
  \/ \E p \in Pids : Start(p) \/ Step(p) \/ FailJob(p) \/ Crash(p) \/ Terminate(p)
  \/ Tick

Spec == Init /\ [][Next]_vars

\* A script that runs goes on; the interval timer starts it again.
FairSpec ==
  /\ Spec
  /\ \A p \in Pids : WF_vars(Step(p))
  /\ WF_vars(\E p \in Pids : Start(p))

-----------------------------------------------------------------------------
(* Properties *)

(***************************************************************************)
(* While an instance runs the job the lock names it, whatever was left by  *)
(* instances that died before it (com.sai.tag-new-inbox.plist.template:24  *)
(* "lock-protected").  Two instances that race may take the lock from each *)
(* other, the lock of batch_disagreements holds no pid, and the cleanup    *)
(* trap gives the lock away on SIGTERM and lets the script go on.          *)
(***************************************************************************)
JobHoldsLock ==
  alone /\ ClearsStaleLocks /\ signals = 0 =>
    \A p \in Pids : pc[p] = "job" => dir /\ pidFile = p

(***************************************************************************)
(* Once no instance runs, no lock is left over, however instances raced    *)
(* for it.  Holds without crashes.                                         *)
(***************************************************************************)
NoLeftoverLock == crashes = 0 /\ Alive = {} => ~dir

(***************************************************************************)
(* The job succeeds once for a slot (scheduler_gate.py:10 "once-per-slot   *)
(* scheduled job completion"), and once more for each crash: job and mark  *)
(* are two steps, and a truncated state file forgets every slot.  Holds    *)
(* without races, as two instances that take the lock from each other are  *)
(* given the same slot.                                                    *)
(***************************************************************************)
OncePerSlot == alone => \A s \in Slots : done[s] <= 1 + crashes

(***************************************************************************)
(* The slots of a day are completed in order: none is passed over while a  *)
(* later one is done (select_due_slot returns the earliest due slot).      *)
(***************************************************************************)
NoSlotIsPassedOver ==
  alone => \A s \in completed, t \in Slots :
    t < s /\ t \div DayLength = s \div DayLength => t \in completed

(***************************************************************************)
(* The schedule goes on, although instances crash and leave locks or a     *)
(* truncated state file: again and again no slot of the day is due         *)
(* (docs/scheduled_routines.md:6), and a job that asks no gate runs        *)
(* (com.sai.tag-new-inbox.plist.template:24); not that of                  *)
(* batch_disagreements, whose lock a crash leaves for good.  Instances     *)
(* that race for ever may clear each other's locks for ever.               *)
(***************************************************************************)
NothingStaysDue ==
  []<>(alone =>
         IF Gated THEN Due = {}
         ELSE (ClearsStaleLocks \/ crashes = 0) => \E p \in Pids : pc[p] = "job")
=============================================================================
