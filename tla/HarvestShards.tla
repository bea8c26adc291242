---------------------------- MODULE HarvestShards ----------------------------
(***************************************************************************)
(* The harvest of TheDogs' historical results.  The operator's commands of *)
(* scripts/backfill-thedogs-shards.ts split a range of days into shards,   *)
(* kept in a manifest file, and a coordinator process runs a worker of     *)
(* scripts/backfill-thedogs-history.ts for each, a few at a time.  They    *)
(* share files only: the manifest, which each rewrites whole from its own  *)
(* copy, and the progress files, which workers append to and all read.     *)
(* Commands come one after another; any process may die at any time.       *)
(***************************************************************************)
EXTENDS Integers, FiniteSets

CONSTANTS
    Days,       \* the archive is the days 1..Days
    Forcing,    \* whether a start may be made with --force
    Named,      \* --from: days it may name, besides auto
    Workers,    \* --workers
    Shards,     \* --logical-shards
    MaxErrors,  \* --max-errors
    KillsTree,  \* whether a kill reaches the children: on Windows only
    MaxStarts,  \* bound on start commands
    MaxFaults,  \* bound on failures and deaths
    Nothing     \* no manifest, no pid, no command

Day == 1..Days
Queue == 1..MaxStarts       \* each start has one coordinator
ShardId == 1..Shards
Worker == Queue \X ShardId

VARIABLES
    manifest,   \* the manifest file
    command,    \* the start that launched a coordinator, and its own copy
    starts,     \* starts so far
    queue,      \* coordinator -> its process and its own copy of the manifest
    work,       \* worker processes
    recordedDays,   \* days with a record ok in a progress file
    storedDays, \* days whose results are stored
    lost,       \* whether a coordinator or a start command died, or the
                \* manifest lost the pids of workers left behind
    forced,     \* whether a start was made with --force
    deaths      \* failures and deaths so far

harvestVars == <<manifest, command, starts, queue, work, recordedDays,
                 storedDays, lost, forced, deaths>>

ShardState == {"queued", "running", "completed", "failed", "stopped"}
Manifest ==
    [from : Day, to : Day,
     shards : UNION {[1..n -> [pid : Worker \cup {Nothing}, state : ShardState]] :
                        n \in ShardId},
     queue : Queue \cup {Nothing},  \* queuePid
     own : BOOLEAN,                 \* it is the coordinator's own pid, not npm's
     status : {"none", "running", "completed", "failed", "stopped"}]

ASSUME ShardsAssumption ==
    /\ {Days, MaxStarts, MaxFaults} \subseteq Nat
    /\ {Workers, Shards, MaxErrors} \subseteq Nat \ {0}
    /\ Forcing \subseteq BOOLEAN
    /\ Nothing \notin Queue \cup Worker \cup Manifest
    /\ Nothing \notin [start : Queue, copy : Manifest]

NoWork == [pc |-> "none", days |-> {}, todo |-> {}, errors |-> 0]
NoQueue == [pc |-> "none", copy |-> Nothing, active |-> {}, changed |-> FALSE]
Over == {"exit 0", "exit 1", "exit 75", "killed"}

Alive(w) == work[w].pc \in {"boot", "fetch", "record"}
QueueRuns(q) == queue[q].pc \notin {"none", "over"}

ShardsInit ==
    /\ manifest = Nothing
    /\ command = Nothing
    /\ starts = 0
    /\ queue = [q \in Queue |-> NoQueue]
    /\ work = [w \in Worker |-> NoWork]
    /\ recordedDays = {}
    /\ storedDays = {}
    /\ lost = FALSE
    /\ forced = FALSE
    /\ deaths = 0

-----------------------------------------------------------------------------
(* splitRange: shards of as equal length as can be, in order.              *)
Least(a, b) == IF a < b THEN a ELSE b
Count(from, to) == Least(Shards, to - from + 1)

RangeOf(m, k) ==
    LET n == Cardinality(DOMAIN m.shards)
        total == m.to - m.from + 1
        First(i) == m.from + (i - 1) * (total \div n) + Least(i - 1, total % n)
    IN  First(k)..(First(k + 1) - 1)

(* nextQueuedShard in spreadShardOrder: first shards far from each other.  *)
Queued(m) == {k \in DOMAIN m.shards : m.shards[k].state = "queued"}

NextQueued(m) ==
    LET n == Cardinality(DOMAIN m.shards)
        a == Least(Workers, n)
        wave == {((i * n) \div a) + 1 : i \in 0..(a - 1)} \cap Queued(m)
        from == IF wave # {} THEN wave ELSE Queued(m)
    IN  CHOOSE k \in from : \A l \in from : k <= l

With(m, k, pid, state) ==
    [m EXCEPT !.shards = [@ EXCEPT ![k] = [pid |-> pid, state |-> state]]]

-----------------------------------------------------------------------------
(* start: refused while a pid of the manifest runs.  The first day no      *)
(* progress file has as ok, or any day the operator names, is where it     *)
(* starts.                                                                 *)
Busy ==
    /\ manifest # Nothing
    /\ \/ manifest.queue # Nothing /\ QueueRuns(manifest.queue)
       \/ \E k \in DOMAIN manifest.shards :
            manifest.shards[k].pid # Nothing /\ Alive(manifest.shards[k].pid)

NextMissing == CHOOSE d \in 1..(Days + 1) :
    d \notin recordedDays /\ \A e \in 1..(d - 1) : e \in recordedDays

NewManifest(from, s) ==
    LET n == Count(from, Days)
        direct == n <= Workers
    IN  [from |-> from, to |-> Days,
         shards |-> [k \in 1..n |-> IF direct
                        THEN [pid |-> <<s, k>>, state |-> "running"]
                        ELSE [pid |-> Nothing, state |-> "queued"]],
         queue |-> Nothing, own |-> FALSE, status |-> "none"]

Launched(m, some) == [w \in Worker |->
    IF w \in some
    THEN [pc |-> "boot", days |-> RangeOf(m, w[2]), todo |-> {}, errors |-> 0]
    ELSE work[w]]

Start(from, force) ==
    LET s == starts + 1
        m == NewManifest(from, s)
        direct == Queued(m) = {}
    IN  /\ command = Nothing /\ s \in Queue
        /\ Busy => force
        /\ from \in Day
        /\ starts' = s
        /\ forced' = (forced \/ force)
        /\ manifest' = m
        /\ IF direct
           THEN /\ work' = Launched(m, {<<s, k>> : k \in DOMAIN m.shards})
                /\ UNCHANGED <<command, queue>>
           ELSE /\ queue' = [queue EXCEPT ![s] =
                        [NoQueue EXCEPT !.pc = "boot"]]
                /\ command' = [start |-> s, copy |-> m]
                /\ UNCHANGED work
        /\ UNCHANGED <<recordedDays, storedDays, lost, deaths>>

\* Workers that go on without their coordinator.
LeftBehind(q) == queue[q].pc = "over" /\ \E k \in ShardId : Alive(<<q, k>>)

(* The second write of a queued start, from its copy: it may come after    *)
(* the coordinator's first ones, and, late as it is, after its last.  The  *)
(* copy has no pid of a worker.                                            *)
StartRecords ==
    /\ command # Nothing
    /\ manifest' = [command.copy EXCEPT !.queue = command.start, !.status = "running"]
    /\ command' = Nothing
    /\ lost' = (lost \/ LeftBehind(command.start))
    /\ UNCHANGED <<starts, queue, work, recordedDays, storedDays, forced, deaths>>

(* stop.  What it kills besides the process it names depends on the        *)
(* system: on Windows the process's children, elsewhere its process group, *)
(* of which npm is the leader and the coordinator is not.  A worker of a   *)
(* coordinator leads no group.                                             *)
KillQueue == manifest.queue # Nothing /\ (KillsTree \/ ~manifest.own)

StoppedShards(m) ==
    [m EXCEPT !.status = IF m.queue = Nothing THEN @ ELSE "stopped",
              !.shards = [k \in DOMAIN @ |->
        IF \/ m.queue # Nothing /\ @[k].state \in {"queued", "running"}
           \/ @[k].pid # Nothing /\ Alive(@[k].pid)
        THEN [pid |-> @[k].pid, state |-> "stopped"] ELSE @[k]]]

Stop ==
    LET q == manifest.queue
        Killed(w) == /\ Alive(w)
                     /\ \/ KillQueue /\ w[1] = q
                        \/ /\ w \in {manifest.shards[k].pid : k \in DOMAIN manifest.shards}
                           /\ KillsTree \/ queue[w[1]].pc = "none"
    IN  /\ command = Nothing /\ manifest # Nothing
        /\ manifest' = StoppedShards(manifest)
        /\ queue' = IF KillQueue /\ QueueRuns(q)
                    THEN [queue EXCEPT ![q] = [@ EXCEPT !.pc = "over"]] ELSE queue
        /\ work' = [w \in Worker |->
                IF Killed(w) THEN [work[w] EXCEPT !.pc = "killed"] ELSE work[w]]
        /\ UNCHANGED <<command, starts, recordedDays, storedDays, lost, forced, deaths>>

-----------------------------------------------------------------------------
(* run-queue.                                                              *)
QueueBoots(q) ==
    LET m == [manifest EXCEPT !.queue = q, !.own = TRUE, !.status = "running"]
    IN  /\ queue[q].pc = "boot"
        /\ manifest' = m
        /\ queue' = [queue EXCEPT ![q] = [pc |-> "turn", copy |-> m, active |-> {},
                                          changed |-> FALSE]]
        /\ UNCHANGED <<command, starts, work, recordedDays, storedDays, lost, forced, deaths>>

(* applyFinishedChildren.                                                  *)
StateOf_AnyExit(pc) == "completed"
StateOf(pc) == IF pc = "exit 0" THEN "completed" ELSE "failed"

Finished(q) == {k \in queue[q].active : ~Alive(<<q, k>>)}

QueueApplies(q) ==
    LET gone == Finished(q)
        shards == queue[q].copy.shards
    IN  /\ queue[q].pc = "turn"
        /\ gone # {} \/ (Queued(queue[q].copy) # {}
                            /\ Cardinality(queue[q].active) < Workers)
        /\ queue' = [queue EXCEPT ![q] =
            [pc |-> IF \E k \in gone : work[<<q, k>>].pc = "exit 75"
                    THEN "stop" ELSE "launch",
             copy |-> [@.copy EXCEPT !.shards = [k \in DOMAIN shards |->
                        IF k \in gone
                        THEN [pid |-> shards[k].pid, state |-> StateOf(work[<<q, k>>].pc)]
                        ELSE shards[k]]],
             active |-> @.active \ gone, changed |-> gone # {}]]
        /\ UNCHANGED <<manifest, command, starts, work, recordedDays, storedDays, lost, forced, deaths>>

Full(q) == Cardinality(queue[q].active) >= Workers \/ Queued(queue[q].copy) = {}

QueueLaunches(q) ==
    LET k == NextQueued(queue[q].copy)
    IN  /\ queue[q].pc = "launch" /\ ~Full(q)
        /\ work' = Launched(queue[q].copy, {<<q, k>>})
        /\ queue' = [queue EXCEPT ![q] =
            [pc |-> "launch", copy |-> With(@.copy, k, <<q, k>>, "running"),
             active |-> @.active \cup {k}, changed |-> TRUE]]
        /\ UNCHANGED <<manifest, command, starts, recordedDays, storedDays, lost, forced, deaths>>

QueueWrites(q) ==
    /\ queue[q].pc = "launch" /\ Full(q)
    /\ manifest' = IF queue[q].changed THEN queue[q].copy ELSE manifest
    /\ queue' = [queue EXCEPT ![q] =
        [@ EXCEPT !.pc = IF queue[q].active = {} THEN "end" ELSE "turn"]]
    /\ UNCHANGED <<command, starts, work, recordedDays, storedDays, lost, forced, deaths>>

QueueEnds(q) ==
    /\ queue[q].pc = "end"
    /\ manifest' = [queue[q].copy EXCEPT !.status =
        IF \E k \in DOMAIN queue[q].copy.shards :
                queue[q].copy.shards[k].state = "failed"
        THEN "failed" ELSE "completed"]
    /\ queue' = [queue EXCEPT ![q] = [@ EXCEPT !.pc = "over"]]
    /\ UNCHANGED <<command, starts, work, recordedDays, storedDays, lost, forced, deaths>>

(* stopActiveAndQueuedShards: no day can be stored while the database is   *)
(* away.  The kill reaches the workers on Windows only.                    *)
QueueStops(q) ==
    /\ queue[q].pc = "stop"
    /\ work' = [w \in Worker |->
        IF KillsTree /\ w[1] = q /\ w[2] \in queue[q].active /\ Alive(w)
        THEN [work[w] EXCEPT !.pc = "killed"] ELSE work[w]]
    /\ manifest' = [queue[q].copy EXCEPT !.status = "failed",
            !.shards = [k \in DOMAIN @ |->
                IF k \in queue[q].active \/ @[k].state = "queued"
                THEN [pid |-> @[k].pid, state |-> "stopped"] ELSE @[k]]]
    /\ queue' = [queue EXCEPT ![q] = [@ EXCEPT !.pc = "over"]]
    /\ UNCHANGED <<command, starts, recordedDays, storedDays, lost, forced, deaths>>

-----------------------------------------------------------------------------
(* A worker takes the days of its shard that no progress file has as ok    *)
(* when it starts, and leaves with 75 when the database is away.           *)
WorkerBecomes(w, pc, todo, errors) ==
    /\ work' = [work EXCEPT ![w] =
            [pc |-> pc, days |-> @.days, todo |-> todo, errors |-> errors]]
    /\ UNCHANGED <<manifest, command, starts, queue, lost, forced>>

Fault == deaths < MaxFaults /\ deaths' = deaths + 1

Boot(w) ==
    LET todo == work[w].days \ recordedDays
    IN  /\ work[w].pc = "boot"
        /\ \/ /\ WorkerBecomes(w, IF todo = {} THEN "exit 0" ELSE "fetch", todo, 0)
              /\ UNCHANGED deaths
           \/ todo # {} /\ WorkerBecomes(w, "exit 75", {}, 0) /\ Fault
        /\ UNCHANGED <<recordedDays, storedDays>>

FirstOf(days) == CHOOSE d \in days : \A e \in days : d <= e

(* The day's results are stored first and recorded after.                  *)
Store(w) ==
    /\ work[w].pc = "fetch"
    /\ storedDays' = storedDays \cup {FirstOf(work[w].todo)}
    /\ WorkerBecomes(w, "record", work[w].todo, work[w].errors)
    /\ UNCHANGED <<recordedDays, deaths>>

NextDay(w, errors) ==
    LET todo == work[w].todo \ {FirstOf(work[w].todo)}
    IN  WorkerBecomes(w, IF todo # {} /\ errors < MaxErrors THEN "fetch"
                   ELSE IF errors = 0 THEN "exit 0" ELSE "exit 1",
                IF errors < MaxErrors THEN todo ELSE {}, errors)

RecordDay(w) ==
    /\ work[w].pc = "record"
    /\ recordedDays' = recordedDays \cup {FirstOf(work[w].todo)}
    /\ NextDay(w, work[w].errors)
    /\ UNCHANGED <<storedDays, deaths>>

(* All attempts of a day failed.                                           *)
FailDay(w) ==
    /\ work[w].pc \in {"fetch", "record"}
    /\ NextDay(w, work[w].errors + 1)
    /\ Fault
    /\ UNCHANGED <<recordedDays, storedDays>>

FailDatabase(w) ==
    /\ work[w].pc = "fetch"
    /\ WorkerBecomes(w, "exit 75", {}, work[w].errors + 1)
    /\ Fault
    /\ UNCHANGED <<recordedDays, storedDays>>

-----------------------------------------------------------------------------
WorkerDies(w) ==
    /\ Alive(w) /\ Fault
    /\ work' = [work EXCEPT ![w] = [@ EXCEPT !.pc = "killed"]]
    /\ UNCHANGED <<manifest, command, starts, queue, recordedDays, storedDays, lost, forced>>

(* A coordinator's workers go on without it.                               *)
QueueDies(q) ==
    /\ QueueRuns(q) /\ Fault
    /\ queue' = [queue EXCEPT ![q] = [@ EXCEPT !.pc = "over"]]
    /\ lost' = TRUE
    /\ UNCHANGED <<manifest, command, starts, work, recordedDays, storedDays, forced>>

StartDies ==
    /\ command # Nothing /\ Fault
    /\ command' = Nothing
    /\ lost' = TRUE
    /\ UNCHANGED <<manifest, starts, queue, work, recordedDays, storedDays, forced>>

ShardsNext ==
    \/ \E from \in Named \cup {NextMissing}, force \in Forcing : Start(from, force)
    \/ StartRecords \/ Stop
    \/ \E q \in Queue :
        \/ QueueBoots(q) \/ QueueApplies(q) \/ QueueLaunches(q)
        \/ QueueWrites(q) \/ QueueEnds(q) \/ QueueStops(q) \/ QueueDies(q)
    \/ \E w \in Worker :
        \/ Boot(w) \/ Store(w) \/ RecordDay(w) \/ FailDay(w) \/ FailDatabase(w)
        \/ WorkerDies(w)
    \/ StartDies

ShardsSpec == ShardsInit /\ [][ShardsNext]_harvestVars

-----------------------------------------------------------------------------
ShardsTypeOK ==
    /\ manifest \in Manifest \cup {Nothing}
    /\ command \in [start : Queue, copy : Manifest] \cup {Nothing}
    /\ starts \in 0..MaxStarts
    /\ queue \in [Queue -> [pc : {"none", "boot", "turn", "launch", "stop", "end",
                                  "over"},
                            copy : Manifest \cup {Nothing},
                            active : SUBSET ShardId, changed : BOOLEAN]]
    /\ work \in [Worker -> [pc : {"none", "boot", "fetch", "record"} \cup Over,
                            days : SUBSET Day, todo : SUBSET Day,
                            errors : 0..MaxErrors]]
    /\ recordedDays \subseteq Day /\ storedDays \subseteq Day
    /\ lost \in BOOLEAN /\ forced \in BOOLEAN /\ deaths \in 0..MaxFaults

(* A shard the manifest has as completed is stored and recorded, whoever   *)
(* wrote the manifest last, whatever died, and although workers skip days  *)
(* that others recorded.  When the whole range is completed all of it is,  *)
(* unless two coordinators may have worked on one manifest.                *)
CompletedIsCovered ==
    manifest # Nothing =>
        /\ \A k \in DOMAIN manifest.shards :
            manifest.shards[k].state = "completed" =>
                RangeOf(manifest, k) \subseteq storedDays \cap recordedDays
        /\ manifest.status = "completed" /\ ~lost /\ ~forced =>
            manifest.from..manifest.to \subseteq storedDays \cap recordedDays

(* README.md:120: the shards are harvested by non-overlapping workers.     *)
(* No day is fetched by two at once, whatever is started, stopped and      *)
(* started again, as long as no coordinator and no start dies, nothing is  *)
(* forced, and a start is not so slow that it writes over the pids of the  *)
(* workers that a coordinator left when the database went away.            *)
DisjointWorkers ==
    ~lost /\ ~forced =>
        \A v, w \in Worker :
            v # w /\ Alive(v) /\ Alive(w) => work[v].days \cap work[w].days = {}

(* What the operator may take from the manifest and from README.md.        *)
ShardsAreCovered == CompletedIsCovered /\ DisjointWorkers
=============================================================================
