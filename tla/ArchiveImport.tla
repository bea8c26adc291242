---------------------------- MODULE ArchiveImport ----------------------------
(***************************************************************************)
(* The import of raw race days into the RaceDayArchive table.  The loop of *)
(* scripts/supervise-thedogs-race-day-archive-import.ts starts importers,  *)
(* scripts/import-thedogs-race-day-archive.ts, one per shard, a few at a   *)
(* time, taking turns; they outlive it and it looks for them among the     *)
(* processes, which it can on Windows only.  What was imported is known    *)
(* from progress files that importers append to.                           *)
(***************************************************************************)
EXTENDS Integers, FiniteSets

CONSTANTS
    FileDays,         \* raw files are of the days 1..FileDays
    ImportShards,     \* --workers, the number of shards
    MaxActive,        \* --max-active-shards
    MaxWaves,         \* --max-waves, 0 for no limit
    MaxDayErrors,     \* --max-errors
    MaxArchiveFaults  \* bound on failed days and processes that die

ASSUME ArchiveAssumption ==
    /\ {FileDays, ImportShards, MaxDayErrors} \subseteq Nat \ {0}
    /\ {MaxActive, MaxWaves, MaxArchiveFaults} \subseteq Nat

FileDay == 1..FileDays
ImportShard == 1..ImportShards

VARIABLES
    raw,           \* days with a raw file
    broken,        \* days whose file no importer can parse
    stored,        \* days with a RaceDayArchive row
    archived,      \* days with an ok record in a progress file
    runs,          \* shard -> its importer process
    unsharded,     \* whether an operator's importer of all days runs
    loop,          \* the supervisor
    lastShard,     \* the last shard of the wave in the manifest, 0 without
    archiveFaults

archiveVars == <<raw, broken, stored, archived, runs, unsharded, loop,
                 lastShard, archiveFaults>>

Stopped == [pc |-> "off", todo |-> {}, errors |-> 0]
NoLoop == [pc |-> "off", next |-> 1, waves |-> 0, shards |-> {}, last |-> 0]

ArchiveInit ==
    /\ raw \in SUBSET FileDay
    /\ broken \in SUBSET FileDay
    /\ stored = {}
    /\ archived = {}
    /\ runs = [s \in ImportShard |-> Stopped]
    /\ unsharded \in BOOLEAN
    /\ loop = NoLoop
    /\ lastShard = 0
    /\ archiveFaults = 0

ShardOfDay(d) == (d % ImportShards) + 1
Active == {s \in ImportShard : runs[s].pc # "off"}
FirstDay(days) == CHOOSE d \in days : \A e \in days : d <= e

-----------------------------------------------------------------------------
(* The supervisor.  A new one goes on after the last shard of the manifest.*)
ShardAfter(s) == IF s = 0 \/ s >= ImportShards THEN 1 ELSE s + 1

LoopStarts ==
    /\ loop.pc = "off"
    /\ loop' = [NoLoop EXCEPT !.pc = "poll", !.next = ShardAfter(lastShard)]
    /\ UNCHANGED <<raw, broken, stored, archived, runs, unsharded, lastShard,
                   archiveFaults>>

(* The shards without an importer, as many as may still run, in turn from  *)
(* the one after the last that was started.                                *)
TurnOf_FromFirst(s, next) == s
TurnOf(s, next) == IF s >= next THEN s - next ELSE s + ImportShards - next

Capacity == MaxActive - Cardinality(Active)

MissingShards(next) ==
    LET idle == ImportShard \ Active
    IN  {s \in idle : Cardinality({t \in idle : TurnOf(t, next) < TurnOf(s, next)}) < Capacity}

LastOf(S, next) == CHOOSE s \in S : \A t \in S : TurnOf(t, next) <= TurnOf(s, next)

LoopPolls ==
    /\ loop.pc = "poll"
    /\ IF MaxWaves > 0 /\ loop.waves >= MaxWaves
       THEN loop' = NoLoop
       ELSE /\ ~unsharded /\ MissingShards(loop.next) # {}
            /\ loop' = [loop EXCEPT !.pc = "probe", !.shards = MissingShards(loop.next),
                    !.last = LastOf(MissingShards(loop.next), loop.next)]
    /\ UNCHANGED <<raw, broken, stored, archived, runs, unsharded, lastShard,
                   archiveFaults>>

(* A dry run of the importer, which fails when there is no raw file.       *)
LoopProbes ==
    /\ loop.pc = "probe"
    /\ loop' = IF raw \ archived = {} THEN NoLoop ELSE [loop EXCEPT !.pc = "launch"]
    /\ UNCHANGED <<raw, broken, stored, archived, runs, unsharded, lastShard,
                   archiveFaults>>

LoopLaunches ==
    /\ loop.pc = "launch"
    /\ \E s \in loop.shards :
        /\ \A t \in loop.shards : TurnOf(s, loop.next) <= TurnOf(t, loop.next)
        /\ runs' = [runs EXCEPT ![s] = [Stopped EXCEPT !.pc = "boot"]]
        /\ loop' = [loop EXCEPT !.shards = @ \ {s},
                                !.pc = IF loop.shards = {s} THEN "write" ELSE "launch"]
    /\ UNCHANGED <<raw, broken, stored, archived, unsharded, lastShard, archiveFaults>>

LoopWrites ==
    /\ loop.pc = "write"
    /\ lastShard' = loop.last
    /\ loop' = [NoLoop EXCEPT !.pc = "poll", !.next = ShardAfter(loop.last),
                    !.waves = IF MaxWaves = 0 THEN 0 ELSE loop.waves + 1]
    /\ UNCHANGED <<raw, broken, stored, archived, runs, unsharded, archiveFaults>>

-----------------------------------------------------------------------------
(* An importer of the days of its shard that no progress file has.         *)
RunBecomes(s, pc, todo, errors) ==
    /\ runs' = [runs EXCEPT ![s] =
            IF pc = "read" /\ todo = {} THEN Stopped
            ELSE [pc |-> pc, todo |-> todo, errors |-> errors]]
    /\ UNCHANGED <<raw, broken, unsharded, loop, lastShard>>

ImporterBoots(s) ==
    /\ runs[s].pc = "boot"
    /\ RunBecomes(s, "read", {d \in raw \ archived : ShardOfDay(d) = s}, 0)
    /\ UNCHANGED <<stored, archived, archiveFaults>>

(* Parsed, counted and upserted, with its retries.                         *)
StoreDay(s) ==
    /\ runs[s].pc = "read"
    /\ LET d == FirstDay(runs[s].todo)
       IN  /\ d \notin broken
           /\ stored' = stored \cup {d}
           /\ RunBecomes(s, "record", runs[s].todo, runs[s].errors)
    /\ UNCHANGED <<archived, archiveFaults>>

RecordFile(s) ==
    /\ runs[s].pc = "record"
    /\ LET d == FirstDay(runs[s].todo)
       IN  /\ archived' = archived \cup {d}
           /\ RunBecomes(s, "read", runs[s].todo \ {d}, runs[s].errors)
    /\ UNCHANGED <<stored, archiveFaults>>

(* Recorded as not ok, and passed over.                                    *)
Skips(s, d) ==
    LET errors == runs[s].errors + 1
    IN  RunBecomes(s, "read",
                IF errors < MaxDayErrors THEN runs[s].todo \ {d} ELSE {}, errors)

SkipBrokenDay(s) ==
    /\ runs[s].pc = "read" /\ FirstDay(runs[s].todo) \in broken
    /\ Skips(s, FirstDay(runs[s].todo))
    /\ UNCHANGED <<stored, archived, archiveFaults>>

SkipFailedDay(s) ==
    /\ runs[s].pc \in {"read", "record"} /\ archiveFaults < MaxArchiveFaults
    /\ archiveFaults' = archiveFaults + 1
    /\ Skips(s, FirstDay(runs[s].todo))
    /\ UNCHANGED <<stored, archived>>

ImporterDies(s) ==
    /\ runs[s].pc # "off" /\ archiveFaults < MaxArchiveFaults
    /\ archiveFaults' = archiveFaults + 1
    /\ RunBecomes(s, "read", {}, 0)
    /\ UNCHANGED <<stored, archived>>

LoopDies ==
    /\ loop.pc # "off" /\ archiveFaults < MaxArchiveFaults
    /\ archiveFaults' = archiveFaults + 1
    /\ loop' = NoLoop
    /\ UNCHANGED <<raw, broken, stored, archived, runs, unsharded, lastShard>>

-----------------------------------------------------------------------------
(* The harvest goes on; the operator's own importer is over.               *)
Arrives(d) ==
    /\ d \notin raw
    /\ raw' = raw \cup {d}
    /\ UNCHANGED <<broken, stored, archived, runs, unsharded, loop, lastShard,
                   archiveFaults>>

UnshardedEnds ==
    /\ unsharded
    /\ unsharded' = FALSE
    /\ \E days \in SUBSET (raw \ broken) :
        /\ stored' = stored \cup days
        /\ archived' = archived \cup days
    /\ UNCHANGED <<raw, broken, runs, loop, lastShard, archiveFaults>>

ImporterStep(s) == ImporterBoots(s) \/ StoreDay(s) \/ RecordFile(s) \/ SkipBrokenDay(s)
LoopStep == LoopStarts \/ LoopPolls \/ LoopProbes \/ LoopLaunches \/ LoopWrites

ArchiveNext ==
    \/ LoopStep \/ LoopDies
    \/ \E s \in ImportShard :
        ImporterStep(s) \/ SkipFailedDay(s) \/ ImporterDies(s)
    \/ \E d \in FileDay : Arrives(d)
    \/ UnshardedEnds

ArchiveSpec == ArchiveInit /\ [][ArchiveNext]_archiveVars

(* The supervisor is started again when it ended; processes run.           *)
ArchiveFairSpec ==
    /\ ArchiveSpec
    /\ WF_archiveVars(LoopStep) /\ WF_archiveVars(UnshardedEnds)
    /\ \A s \in ImportShard : WF_archiveVars(ImporterStep(s))

-----------------------------------------------------------------------------
ArchiveTypeOK ==
    /\ raw \subseteq FileDay /\ broken \subseteq FileDay
    /\ stored \subseteq FileDay /\ archived \subseteq FileDay
    /\ runs \in [ImportShard -> [pc : {"off", "boot", "read", "record"},
                               todo : SUBSET FileDay, errors : 0..MaxDayErrors]]
    /\ unsharded \in BOOLEAN
    /\ loop \in [pc : {"off", "poll", "probe", "launch", "write"}, next : ImportShard,
                 waves : 0..MaxWaves, shards : SUBSET ImportShard,
                 last : 0..ImportShards]
    /\ lastShard \in 0..ImportShards
    /\ archiveFaults \in 0..MaxArchiveFaults

(* A raw file that can be parsed gets its row, whichever shard it is in:   *)
(* the turns reach every shard although fewer may run at once and others   *)
(* have files that fail in every wave, and importers and supervisors that  *)
(* die, or days that fail for a time, are made up for.                     *)
AllDaysGoIn == []<>(raw \ broken \subseteq stored \cap archived)
=============================================================================
