---------------------------- MODULE ProfileHarvest ----------------------------
(***************************************************************************)
(* The archive of TheDogs' dog profiles: workers of                        *)
(* scripts/backfill-thedogs-dog-profile-raw.ts fetch the pages of the dogs *)
(* that the archived race days name, and keep each in a file of its own.   *)
(* A supervisor runs them, in waves of shards that a start command spawns  *)
(* and leaves behind, or one batch after another.  They share files only;  *)
(* any process may die at any time.  Commands come one after another.      *)
(***************************************************************************)
EXTENDS Integers, FiniteSets

CONSTANTS
    Dogs,           \* dogs are 1..Dogs, in the order of --sort
    Gone,           \* dogs whose page always fails
    ShardOfDog,     \* dog -> the shard stableHash puts it in
    WaveShards,     \* --workers of a wave
    Limit,          \* --limit of a batch
    MaxPageErrors,  \* --max-errors
    MaxPageFaults,  \* bound on failures that pass, deaths, stops and manual starts
    NoWave

ASSUME PagesAssumption ==
    /\ {Dogs, Limit, WaveShards, MaxPageFaults} \subseteq Nat /\ MaxPageErrors \in Nat \ {0}
    /\ NoWave \notin 1..2 \cup [wave : 1..2, supervised : BOOLEAN]

Hound == 1..Dogs
Wave == 1..2            \* a wave may start while workers of another live
Whole == 0              \* the shard of a batch: all dogs
WaveShard == 1..WaveShards
Batch == <<1, Whole>>
PageWorker == (Wave \X WaveShard) \cup {Batch}

VARIABLES
    listable,  \* whether the processes of the machine can be listed
    sharded,   \* which supervisor runs
    seen,      \* dogs in the archived race days
    file,      \* dog -> its profile file
    progress,  \* shard -> dogs with a record ok and archived in its progress file
    cut,       \* shards whose progress file has a line that was cut off
    process,   \* worker -> its process
    waveFile,  \* the wave of the manifest file
    starter,   \* the start command: its wave, and whether the supervisor waits for it
    keeper,    \* the supervisor
    mishaps

pageVars == <<listable, sharded, seen, file, progress, cut, process, waveFile,
                 starter, keeper, mishaps>>

NoProcess == [pc |-> "none", todo |-> {}, errors |-> 0]
Lives(w) == process[w].pc \in {"boot", "fetch", "write", "record"}
LeastDog(S) == CHOOSE d \in S : \A e \in S : d <= e

PagesTypeOK ==
    /\ listable \in BOOLEAN /\ sharded \in BOOLEAN
    /\ seen \subseteq Hound
    /\ file \in [Hound -> {"none", "torn", "whole"}]
    /\ progress \in [{Whole} \cup WaveShard -> SUBSET Hound]
    /\ cut \subseteq {Whole} \cup WaveShard
    /\ process \in [PageWorker ->
            [pc : {"none", "boot", "fetch", "write", "record",
                   "exit 0", "exit 1", "killed"},
             todo : SUBSET Hound, errors : 0..MaxPageErrors]]
    /\ waveFile \in Wave \cup {NoWave}
    /\ starter \in [wave : Wave, supervised : BOOLEAN] \cup {NoWave}
    /\ keeper \in {"check", "probe", "start", "wait", "done", "failed"}
    /\ mishaps \in 0..MaxPageFaults

PagesInit ==
    /\ listable \in BOOLEAN
    /\ sharded \in BOOLEAN
    /\ seen = {}
    /\ file = [d \in Hound |-> "none"]
    /\ progress = [s \in {Whole} \cup WaveShard |-> {}]
    /\ cut = {}
    /\ process = [w \in PageWorker |-> NoProcess]
    /\ waveFile = NoWave
    /\ starter = NoWave
    /\ keeper = "check"
    /\ mishaps = 0

PageFault == mishaps < MaxPageFaults /\ mishaps' = mishaps + 1

\* Race days are archived while the supervisor runs.
DiscoverDog(d) ==
    /\ keeper \notin {"done", "failed"} /\ d \notin seen
    /\ seen' = seen \cup {d}
    /\ UNCHANGED <<listable, sharded, file, progress, cut, process, waveFile, starter,
                   keeper, mishaps>>

-----------------------------------------------------------------------------
(* The worker.  What its own progress file has, or what has a file of any  *)
(* content, is done.                                                       *)
Completed(s) == progress[s] \cup {d \in Hound : file[d] # "none"}

ShardDogs(s) == IF s = Whole THEN seen ELSE {d \in seen : ShardOfDog[d] = s}

SelectedDogs(s) ==
    LET pending == ShardDogs(s) \ Completed(s)
    IN  IF s = Whole
        THEN {d \in pending : Cardinality({e \in pending : e < d}) < Limit}
        ELSE pending

WorkersBecome(r) ==
    /\ process' = r
    /\ UNCHANGED <<listable, sharded, seen, waveFile, starter, keeper>>

\* A line cut off in the progress file fails every reader of it.
PageBoot(w) ==
    /\ process[w].pc = "boot"
    /\ WorkersBecome([process EXCEPT ![w] =
            IF w[2] \in cut THEN [@ EXCEPT !.pc = "exit 1"]
            ELSE [@ EXCEPT !.pc = "fetch", !.todo = SelectedDogs(w[2])]])
    /\ UNCHANGED <<file, progress, cut, mishaps>>

\* writeFile empties the file before it fills it.
FetchPage(w) ==
    /\ process[w].pc = "fetch" /\ process[w].todo # {}
    /\ LET d == LeastDog(process[w].todo)
       IN  /\ d \notin Gone
           /\ file' = [file EXCEPT ![d] = "torn"]
    /\ WorkersBecome([process EXCEPT ![w].pc = "write"])
    /\ UNCHANGED <<progress, cut, mishaps>>

WritePage(w) ==
    /\ process[w].pc = "write"
    /\ file' = [file EXCEPT ![LeastDog(process[w].todo)] = "whole"]
    /\ WorkersBecome([process EXCEPT ![w].pc = "record"])
    /\ UNCHANGED <<progress, cut, mishaps>>

RecordPage(w) ==
    /\ process[w].pc = "record"
    /\ progress' = [progress EXCEPT ![w[2]] = @ \cup {LeastDog(process[w].todo)}]
    /\ WorkersBecome([process EXCEPT ![w].pc = "fetch", ![w].todo = @ \ {LeastDog(@)}])
    /\ UNCHANGED <<file, cut, mishaps>>

\* After its retries: the record says so, and the worker goes on, up to a limit.
FetchPageFails_RecordsOk(w) ==
    /\ process[w].pc = "fetch" /\ process[w].todo # {}
    /\ LET d == LeastDog(process[w].todo)
           enough == process[w].errors + 1 >= MaxPageErrors
       IN  /\ IF d \in Gone THEN UNCHANGED mishaps ELSE PageFault
           /\ progress' = [progress EXCEPT ![w[2]] = @ \cup {d}]
           /\ WorkersBecome([process EXCEPT ![w] =
                    [pc |-> IF enough THEN "exit 1" ELSE "fetch",
                     todo |-> @.todo \ {d}, errors |-> @.errors + 1]])
    /\ UNCHANGED <<file, cut>>

FetchPageFails(w) ==
    /\ process[w].pc = "fetch" /\ process[w].todo # {}
    /\ LET d == LeastDog(process[w].todo)
           enough == process[w].errors + 1 >= MaxPageErrors
       IN  /\ IF d \in Gone THEN UNCHANGED mishaps ELSE PageFault
           /\ WorkersBecome([process EXCEPT ![w] =
                    [pc |-> IF enough THEN "exit 1" ELSE "fetch",
                     todo |-> @.todo \ {d}, errors |-> @.errors + 1]])
    /\ UNCHANGED <<file, progress, cut>>

Ends(w) ==
    /\ process[w].pc = "fetch" /\ process[w].todo = {}
    /\ WorkersBecome([process EXCEPT ![w].pc = "exit 0"])
    /\ UNCHANGED <<file, progress, cut, mishaps>>

\* Those of some that were about to record may leave a part of the line.
KilledWorkers(some) ==
    /\ WorkersBecome([w \in PageWorker |->
            IF w \in some THEN [NoProcess EXCEPT !.pc = "killed"] ELSE process[w]])
    /\ \E s \in SUBSET {w[2] : w \in {v \in some : process[v].pc = "record"}} : cut' = cut \cup s
    /\ PageFault
    /\ UNCHANGED <<file, progress>>

PageWorkerDies(w) == Lives(w) /\ KilledWorkers({w})

\* stop, by the pids of the manifest.
StopWave ==
    LET some == {w \in PageWorker \ {Batch} : w[1] = waveFile /\ Lives(w)}
    IN  some # {} /\ KilledWorkers(some)

PageWorkerStep(w) ==
    \/ PageBoot(w) \/ FetchPage(w) \/ WritePage(w) \/ RecordPage(w)
    \/ FetchPageFails(w) \/ Ends(w)

-----------------------------------------------------------------------------
(* start: refused while a pid of the manifest lives, or a worker is        *)
(* listed.  npm is the pid, and is not listed until it runs the script.    *)
Listed(w) == listable /\ Lives(w) /\ (sharded => process[w].pc # "boot")

Refused ==
    \/ \E w \in PageWorker \ {Batch} : w[1] = waveFile /\ Lives(w)
    \/ \E w \in PageWorker : Listed(w)

Spawned(some) ==
    [w \in PageWorker |-> IF w \in some THEN [NoProcess EXCEPT !.pc = "boot"] ELSE process[w]]

\* The workers are spawned before the manifest is written.
StartShards(supervised) ==
    /\ sharded /\ starter = NoWave
    /\ IF supervised THEN keeper = "start" /\ UNCHANGED mishaps ELSE PageFault
    /\ IF Refused
       THEN /\ keeper' = IF supervised THEN "failed" ELSE keeper
            /\ UNCHANGED <<process, starter>>
       ELSE \E n \in Wave :
            /\ \A s \in WaveShard : ~Lives(<<n, s>>)
            /\ process' = Spawned({<<n, s>> : s \in WaveShard})
            /\ starter' = [wave |-> n, supervised |-> supervised]
            /\ keeper' = IF supervised THEN "wait" ELSE keeper
    /\ UNCHANGED <<listable, sharded, seen, file, progress, cut, waveFile>>

StarterRecords ==
    /\ starter # NoWave
    /\ waveFile' = starter.wave
    /\ starter' = NoWave
    /\ keeper' = IF starter.supervised THEN "check" ELSE keeper
    /\ UNCHANGED <<listable, sharded, seen, file, progress, cut, process, mishaps>>

StarterDies ==
    /\ starter # NoWave /\ PageFault
    /\ starter' = NoWave
    /\ keeper' = IF starter.supervised THEN "failed" ELSE keeper
    /\ UNCHANGED <<listable, sharded, seen, file, progress, cut, process, waveFile>>

-----------------------------------------------------------------------------
(* The supervisors: wait until no worker is listed, ask by a dry run what  *)
(* is pending, and start a wave or run a batch.                            *)
KeeperGoes(to) ==
    /\ keeper' = to
    /\ UNCHANGED <<listable, sharded, seen, file, progress, cut, waveFile, starter, mishaps>>

Check ==
    /\ keeper = "check"
    /\ \A w \in PageWorker : ~Listed(w)
    /\ KeeperGoes("probe") /\ UNCHANGED process

\* The dry run reads the progress file that only batches write.
Probe ==
    /\ keeper = "probe"
    /\ IF Whole \in cut
       THEN KeeperGoes("failed") /\ UNCHANGED process
       ELSE IF seen \subseteq Completed(Whole)
       THEN KeeperGoes("done") /\ UNCHANGED process
       ELSE IF sharded
       THEN KeeperGoes("start") /\ UNCHANGED process
       ELSE KeeperGoes("wait") /\ process' = Spawned({Batch})

HarvestBatchEnds ==
    /\ keeper = "wait" /\ ~sharded /\ ~Lives(Batch)
    /\ KeeperGoes(IF process[Batch].pc = "exit 0" THEN "check" ELSE "failed")
    /\ UNCHANGED process

KeeperStep == Check \/ Probe \/ HarvestBatchEnds \/ StartShards(TRUE) \/ StarterRecords

-----------------------------------------------------------------------------
PagesNext ==
    \/ \E d \in Hound : DiscoverDog(d)
    \/ \E w \in PageWorker : PageWorkerStep(w) \/ PageWorkerDies(w)
    \/ StopWave
    \/ StartShards(FALSE)
    \/ StarterDies
    \/ KeeperStep

PagesSpec == PagesInit /\ [][PagesNext]_pageVars

PagesFairSpec ==
    /\ PagesSpec
    /\ \A w \in PageWorker : WF_pageVars(PageWorkerStep(w))
    /\ WF_pageVars(KeeperStep)

-----------------------------------------------------------------------------
(* A dog whose page can be fetched gets its file, however often the page   *)
(* fails and workers die, while the supervisor runs and no progress line   *)
(* is cut off, if fewer pages than the limits are gone for good.           *)
Archived(d) == file[d] # "none" \/ keeper = "failed" \/ cut # {}
PagesAreArchived == \A d \in Hound \ Gone : d \in seen ~> Archived(d)
=============================================================================
