----------------------------- MODULE AgentMemory -----------------------------
(***************************************************************************)
(* The importance of a memory of src/lib/agent-service.ts: it decays while *)
(* the memory is not used and grows when it is.  runMemoryMaintenance      *)
(* reads the memories and then writes the new values, and two calls of the *)
(* job, and uses of the memory, may overlap.  Memories do not touch each   *)
(* other, so one is modelled; importance is counted in MEMORY_DECAY_STEPs. *)
(***************************************************************************)
EXTENDS Integers

CONSTANTS
    Starts,         \* importances a memory may be created with
    Min, Max,       \* MEMORY_MIN_IMPORTANCE, MEMORY_MAX_IMPORTANCE
    Reinforcement,  \* MEMORY_REINFORCE_STEP
    Useful,         \* the importance from which agents load a memory
    Period,         \* MEMORY_DECAY_DAYS
    Recent,         \* MEMORY_REINFORCE_DAYS
    Job,            \* calls of the maintenance job that may overlap
    MaxClock

ASSUME MemoryAssumption ==
    /\ Min \in Nat /\ Max \in Nat /\ Starts \subseteq Min..Max
    /\ Reinforcement \in Nat /\ Period \in Nat \ {0}
    /\ Recent \in Nat /\ MaxClock \in Nat

Never == -1     \* null
Time == 0..MaxClock

VARIABLES
    clock,
    start,      \* what the memory was created with, for DecayIsByTime
    memory,     \* the row
    idled,      \* whole periods it was idle before its last use
    job

memVars == <<clock, start, memory, idled, job>>

MemoryRow == [importance : Min..Max, accessed : Time, maintained : Time \cup {Never},
        used : BOOLEAN, live : BOOLEAN]
NoRead == [pc |-> "idle"]

MemoryInit ==
    /\ clock = 0
    /\ start \in Starts
    /\ memory = [importance |-> start, accessed |-> 0, maintained |-> Never,
                 used |-> FALSE, live |-> TRUE]
    /\ idled = 0
    /\ job = [j \in Job |-> NoRead]

-----------------------------------------------------------------------------
AtLeast(a, b) == IF a < b THEN b ELSE a
AtMost(a, b) == IF a > b THEN b ELSE a
Periods(from, to) == IF to < from THEN 0 ELSE (to - from) \div Period

\* elapsedDecayPeriods up to now less those up to the last maintenance.
Unapplied(row, time) ==
    AtLeast(Periods(row.accessed, time)
                - (IF row.maintained = Never THEN 0
                   ELSE Periods(row.accessed, row.maintained)), 0)

Stale(time) ==
    memory.live /\ memory.accessed < time - Period /\ memory.importance > Min

Fresh(time) ==
    /\ memory.live /\ memory.used
    /\ memory.accessed >= time - Recent /\ memory.importance < Max

ReadStale(j) ==
    /\ job[j] = NoRead
    /\ job' = [job EXCEPT ![j] =
        IF Stale(clock) /\ Unapplied(memory, clock) > 0
        THEN [pc |-> "stale", time |-> clock, from |-> memory.importance,
              lost |-> Unapplied(memory, clock)]
        ELSE [pc |-> "stale", time |-> clock, from |-> Min, lost |-> 0]]
    /\ UNCHANGED <<clock, start, memory, idled>>

(* A memory that was reinforced after its last use is passed over.         *)
ReadRecent(j) ==
    /\ job[j].pc = "stale"
    /\ job' = [job EXCEPT ![j] =
        [pc |-> "write", time |-> @.time, from |-> @.from, lost |-> @.lost,
         grown |-> IF Fresh(@.time) /\ memory.maintained < memory.accessed
                   THEN AtMost(memory.importance + Reinforcement, Max)
                   ELSE Never]]
    /\ UNCHANGED <<clock, start, memory, idled>>

(* The decayed value is the one read less the periods, not what the row    *)
(* has now less the periods.                                               *)
Decayed_Difference(read) == AtLeast(memory.importance - read.lost, Min)
Decayed(read) == AtLeast(read.from - read.lost, Min)

MaintainedAt(importance, time) ==
    [memory EXCEPT !.importance = importance, !.maintained = time]

(* The loop over stale memories, then the loop over recent ones, which a   *)
(* memory used between the two reads is in as well; one commit.            *)
WriteBack(j) ==
    LET read == job[j]
    IN  /\ read.pc = "write"
        /\ memory' = CASE read.grown # Never -> MaintainedAt(read.grown, read.time)
                       [] read.grown = Never /\ read.lost > 0 ->
                            MaintainedAt(Decayed(read), read.time)
                       [] OTHER -> memory
        /\ job' = [job EXCEPT ![j] = NoRead]
        /\ UNCHANGED <<clock, start, idled>>

(* The job or its transaction is lost.                                     *)
Lose(j) ==
    /\ job[j] # NoRead
    /\ job' = [job EXCEPT ![j] = NoRead]
    /\ UNCHANGED <<clock, start, memory, idled>>

-----------------------------------------------------------------------------
Touch ==
    /\ memory' = [memory EXCEPT !.accessed = clock, !.used = TRUE]
    /\ idled' = idled + Periods(memory.accessed, clock)
    /\ UNCHANGED <<clock, start, job>>

(* Its user opens it, or a run of an agent loads it.                       *)
Open == memory.live /\ Touch
Load == memory.live /\ memory.importance >= Useful /\ Touch

(* Deleted, or superseded by another.                                      *)
Forget ==
    /\ memory.live
    /\ memory' = [memory EXCEPT !.live = FALSE]
    /\ UNCHANGED <<clock, start, idled, job>>

ClockTicks ==
    /\ clock < MaxClock
    /\ clock' = clock + 1
    /\ UNCHANGED <<start, memory, idled, job>>

MemoryNext ==
    \/ \E j \in Job : ReadStale(j) \/ ReadRecent(j) \/ WriteBack(j) \/ Lose(j)
    \/ Open \/ Load \/ Forget \/ ClockTicks

MemorySpec == MemoryInit /\ [][MemoryNext]_memVars

-----------------------------------------------------------------------------
MemoryTypeOK ==
    /\ clock \in Time /\ start \in Starts /\ idled \in 0..MaxClock
    /\ memory \in MemoryRow
    /\ \A j \in Job : job[j].pc \in {"idle", "stale", "write"}

(* However calls of the job and uses overlap, a memory never loses more    *)
(* than the whole periods it was idle; and one that was never used has     *)
(* lost, at its last maintenance, exactly the periods up to then, whether  *)
(* the job ran in each of them or not.                                     *)
DecayIsByTime ==
    /\ memory.importance >=
            AtLeast(start - idled - Periods(memory.accessed, clock), Min)
    /\ ~memory.used /\ memory.maintained # Never =>
            memory.importance = AtLeast(start - Periods(0, memory.maintained), Min)
=============================================================================
