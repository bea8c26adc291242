------------------------------- MODULE LiveSync -------------------------------
(***************************************************************************)
(* Live race data: src/lib/live/sync.ts upserts what the providers publish *)
(* of a race, src/lib/live/provider.ts puts their feeds one after another, *)
(* and src/lib/dog-win-notify.ts tells the owners of the winner.           *)
(*                                                                         *)
(* A sync fetches the feed, writes all of it in one transaction, and, when *)
(* it was a sync of results, looks for wins in another transaction.  Cloud *)
(* Scheduler, the backup workflow and operators start syncs whatever else  *)
(* is running, so a sync may write a feed that has changed since.          *)
(*                                                                         *)
(* One race is modelled: upserts of different races touch different rows,  *)
(* and the others only matter to it as wins that crowd its own out of the  *)
(* 200 a scan reads.                                                       *)
(***************************************************************************)
EXTENDS Integers, FiniteSets

CONSTANTS
    Providers,    \* number of providers, numbered in the composite's order
    Rank,         \* provider -> sourceProviderRank
    Boxes,        \* number of boxes
    Dog,
    User,
    Owners,       \* dog -> its owners with an approved claim and a paid tier
    Off,          \* confirmed start times
    Run,          \* running times
    Sync,         \* syncs that may run at once
    Upcoming,     \* those that do not look for wins (scope=upcoming)
    None,         \* null, and a row that does not exist
    Fallback,     \* a start time made up from the race number
    MaxChanges,   \* bound on what the providers publish
    MaxFailures   \* bound on missing pages and on syncs that fail

Provider == 1..Providers
Box == 1..Boxes
Place == 1..2       \* finishing positions: first, and any other

ASSUME FeedAssumption ==
    /\ Providers \in Nat /\ Boxes \in Nat
    /\ Rank \in [Provider -> Nat]
    /\ Owners \in [Dog -> SUBSET User]
ASSUME SyncAssumption == IsFiniteSet(Sync) /\ Upcoming \subseteq Sync
ASSUME BoundAssumption == MaxChanges \in Nat /\ MaxFailures \in Nat
VARIABLES
    feed,       \* the pages of the providers: provider -> card
    changes,    \* number of changes published so far
    off,        \* Race.raceTime, None while there is no row
    runner,     \* Runner rows: box -> dog
    result,     \* Result rows, one for each runner row
    form,       \* FormEntry rows: dog -> row
    told,       \* user -> number of dog_win notifications for the race
    shown,      \* the users a provider has shown a winner of, so far
    window,     \* where the race is from the results a scan reads
    proc,       \* what each sync is about to do
    failures

dbVars == <<off, runner, result, form>>
feedVars == <<feed, changes, shown>>
vars == <<feedVars, dbVars, told, window, proc, failures>>

Entry == [dog : Dog, finish : Place \cup {None}, run : Run \cup {None}]
Card == [off : Off \cup {Fallback}, entry : [Box -> Entry]]
Feed == [Provider -> Card \cup {None}]
ResultRow == [finish : Place, run : Run \cup {None}]

ASSUME NullAssumption ==
    /\ None \notin Dog \cup Off \cup Run \cup Place \cup ResultRow
    /\ Fallback \notin Off \cup {None}

NoFeed == [p \in Provider |-> None]
Idle == [pc |-> "idle", feed |-> NoFeed, todo |-> {}, creating |-> {}]
ProcState ==
    [pc : {"idle", "write", "scan", "notify"}, feed : Feed,
     todo : SUBSET User, creating : SUBSET User]

Init ==
    /\ feed = NoFeed
    /\ changes = 0
    /\ shown = {}
    /\ off = None
    /\ runner = [b \in Box |-> None]
    /\ result = [b \in Box |-> None]
    /\ form = [d \in Dog |-> None]
    /\ told = [u \in User |-> 0]
    /\ window = "ahead"
    /\ proc = [s \in Sync |-> Idle]
    /\ failures = 0

-----------------------------------------------------------------------------
(* Providers publish a card, and then fill in or correct any part of it.   *)
ShownFirst(card) == UNION {Owners[card.entry[b].dog] :
                        b \in {c \in Box : card.entry[c].finish = 1}}

Publish(p, card) ==
    /\ changes < MaxChanges
    /\ feed' = [feed EXCEPT ![p] = card]
    /\ changes' = changes + 1
    /\ shown' = shown \cup ShownFirst(card)
    /\ UNCHANGED <<dbVars, told, window, proc, failures>>

NewCard(p) ==
    /\ feed[p] = None
    /\ \E start \in Off \cup {Fallback}, dogs \in [Box -> Dog] :
        Publish(p, [off |-> start, entry |-> [b \in Box |->
                    [dog |-> dogs[b], finish |-> None, run |-> None]]])

Correct(p) ==
    /\ feed[p] # None
    /\ \/ \E start \in Off \cup {Fallback} :
            Publish(p, [feed[p] EXCEPT !.off = start])
       \/ \E b \in Box, d \in Dog :
            Publish(p, [feed[p] EXCEPT !.entry[b].dog = d])
       \/ \E b \in Box, place \in Place, run \in Run \cup {None} :
            Publish(p, [feed[p] EXCEPT !.entry[b].finish = place,
                                       !.entry[b].run = run])

-----------------------------------------------------------------------------
Goes(s, state) == proc' = [proc EXCEPT ![s] = state]

(* The fetch of all providers' pages; a page that cannot be read is left   *)
(* out.                                                                    *)
Fetch(s, missing) ==
    /\ proc[s] = Idle
    /\ \E p \in Provider \ missing : feed[p] # None
    /\ missing # {} => failures < MaxFailures
    /\ failures' = IF missing = {} THEN failures ELSE failures + 1
    /\ Goes(s, [Idle EXCEPT !.pc = "write", !.feed =
                [p \in Provider |-> IF p \in missing THEN None ELSE feed[p]]])
    /\ UNCHANGED <<feedVars, dbVars, told, window>>

(* What one batch makes of the cards the providers have of a race.         *)
Carded(f) == {p \in Provider : f[p] # None}
Latest(S) == CHOOSE p \in S : \A q \in S : q <= p

\* uniqueByPreferredSource: the highest rank, the last of several.
Preferred(f) ==
    LET best == {p \in Carded(f) : \A q \in Carded(f) : Rank[q] <= Rank[p]}
    IN  f[Latest(best)]

\* SQL COALESCE, JavaScript ??.
Coalesce(new, old) == IF new = None THEN old ELSE new

WrittenOff_Always(f) == Preferred(f).off

\* bulkUpsertRaces: a made-up time is inserted but never overwrites.
WrittenOff(f) ==
    IF off # None /\ Preferred(f).off = Fallback THEN off ELSE Preferred(f).off

WrittenRunner_KeepsDog(f) ==
    [b \in Box |-> IF runner[b] # None THEN runner[b]
                  ELSE f[Latest(Carded(f))].entry[b].dog]

\* bulkUpsertRunners after uniqueBy: the last provider's dog.
WrittenRunner(f) == [b \in Box |-> f[Latest(Carded(f))].entry[b].dog]

Placed(f, b) == {p \in Carded(f) : f[p].entry[b].finish # None}
Timed(f, b) == {p \in Placed(f, b) : f[p].entry[b].run # None}

\* mergeResultRows, then bulkUpsertResults: every known value of a later
\* provider, else of an earlier one, else of the row.
WrittenResult(f) ==
    [b \in Box |->
        IF Placed(f, b) = {} THEN result[b]
        ELSE [finish |-> f[Latest(Placed(f, b))].entry[b].finish,
              run |-> Coalesce(
                IF Timed(f, b) = {} THEN None
                ELSE f[Latest(Timed(f, b))].entry[b].run,
                IF result[b] = None THEN None ELSE result[b].run)]]

WrittenForm_AllRunners(f) ==
    [d \in Dog |->
        LET boxes == {b \in Box : WrittenRunner(f)[b] = d}
        IN  IF boxes = {} THEN form[d]
            ELSE LET item == f[Latest(Carded(f))].entry[Latest(boxes)]
                 IN  [finish |-> item.finish, run |-> item.run]]

\* ensureFormEntries: one row for each dog, of the last item of the batch
\* whose box the dog now has; what it does not know becomes null.
WrittenForm(f) ==
    LET dogs == WrittenRunner(f)
        boxes(p, d) == {b \in Box : p \in Placed(f, b) /\ dogs[b] = d}
        from(d) == {p \in Provider : boxes(p, d) # {}}
    IN  [d \in Dog |->
            IF from(d) = {} THEN form[d]
            ELSE LET p == Latest(from(d))
                     item == f[p].entry[Latest(boxes(p, d))]
                 IN  [finish |-> item.finish, run |-> item.run]]

Write_ScansChanges(s) ==
    LET f == proc[s].feed IN
    /\ proc[s].pc = "write"
    /\ off' = WrittenOff(f)
    /\ runner' = WrittenRunner(f)
    /\ result' = WrittenResult(f)
    /\ form' = WrittenForm(f)
    /\ Goes(s, IF s \in Upcoming \/ result' = result
               THEN Idle ELSE [Idle EXCEPT !.pc = "scan"])
    /\ UNCHANGED <<feedVars, told, window, failures>>

(* upsertMeetings, in one transaction; the upsert of the meeting, which    *)
(* comes first, makes the transactions of two syncs wait for each other.   *)
Write(s) ==
    LET f == proc[s].feed IN
    /\ proc[s].pc = "write"
    /\ off' = WrittenOff(f)
    /\ runner' = WrittenRunner(f)
    /\ result' = WrittenResult(f)
    /\ form' = WrittenForm(f)
    /\ Goes(s, IF s \in Upcoming THEN Idle ELSE [Idle EXCEPT !.pc = "scan"])
    /\ UNCHANGED <<feedVars, told, window, failures>>

-----------------------------------------------------------------------------
(* notifyDogWinnersFromRecentResults, one transaction: the wins and the    *)
(* winners' owners, a look for each owner's notification, and the commit   *)
(* that makes the new ones visible to others.  It reads the latest         *)
(* WIN_NOTIFY_BATCH wins of races that started at most WIN_LOOKBACK_MS ago *)
(* and not after now: a race starts, and later is too long ago or behind   *)
(* too many other wins.                                                    *)
Winner(b) == result[b] # None /\ result[b].finish = 1
OwnersOfWinners == UNION {Owners[runner[b]] : b \in {c \in Box : Winner(c)}}

TimePasses ==
    /\ window # "past"
    /\ window' = IF window = "ahead" THEN "recent" ELSE "past"
    /\ UNCHANGED <<feedVars, dbVars, told, proc, failures>>

Scan(s) ==
    /\ proc[s].pc = "scan"
    /\ Goes(s, [Idle EXCEPT !.pc = "notify",
                !.todo = IF window = "recent" THEN OwnersOfWinners ELSE {}])
    /\ UNCHANGED <<feedVars, dbVars, told, window, failures>>

Look_Blind(s, u) ==
    /\ proc[s].pc = "notify"
    /\ u \in proc[s].todo
    /\ Goes(s, [proc[s] EXCEPT !.todo = @ \ {u}, !.creating = @ \cup {u}])
    /\ UNCHANGED <<feedVars, dbVars, told, window, failures>>

Look(s, u) ==
    /\ proc[s].pc = "notify"
    /\ u \in proc[s].todo
    /\ Goes(s, [proc[s] EXCEPT !.todo = @ \ {u},
                    !.creating = IF told[u] = 0 THEN @ \cup {u} ELSE @])
    /\ UNCHANGED <<feedVars, dbVars, told, window, failures>>

Commit(s) ==
    /\ proc[s].pc = "notify"
    /\ proc[s].todo = {}
    /\ told' = [u \in User |->
                    IF u \in proc[s].creating THEN told[u] + 1 ELSE told[u]]
    /\ Goes(s, Idle)
    /\ UNCHANGED <<feedVars, dbVars, window, failures>>

(* A sync fails: a provider's index cannot be read, a transaction times    *)
(* out, the instance ends.  What it did not commit is lost.                *)
Fail(s) ==
    /\ proc[s] # Idle
    /\ failures < MaxFailures
    /\ failures' = failures + 1
    /\ Goes(s, Idle)
    /\ UNCHANGED <<feedVars, dbVars, told, window>>

Step(s) ==
    \/ Fetch(s, {})
    \/ Write(s)
    \/ Scan(s)
    \/ \E u \in User : Look(s, u)
    \/ Commit(s)

Next ==
    \/ \E p \in Provider : NewCard(p) \/ Correct(p)
    \/ TimePasses
    \/ \E s \in Sync, missing \in SUBSET Provider : Fetch(s, missing)
    \/ \E s \in Sync : Write(s)
    \/ \E s \in Sync : Scan(s)
    \/ \E s \in Sync, u \in User : Look(s, u)
    \/ \E s \in Sync : Commit(s)
    \/ \E s \in Sync : Fail(s)

Spec == Init /\ [][Next]_vars

\* Schedulers start every kind of sync again and again, and a sync that does
\* not fail runs to its end.
FairSpec == Spec /\ \A s \in Sync : WF_vars(Step(s))

-----------------------------------------------------------------------------
(* Types of every variable.                                                *)
TypeOK ==
    /\ feed \in Feed
    /\ changes \in Nat
    /\ shown \subseteq User
    /\ off \in Off \cup {Fallback, None}
    /\ runner \in [Box -> Dog \cup {None}]
    /\ result \in [Box -> ResultRow \cup {None}]
    /\ form \in [Dog -> ResultRow \cup {None}]
    /\ told \in [User -> Nat]
    /\ window \in {"ahead", "recent", "past"}
    /\ proc \in [Sync -> ProcState]
    /\ failures \in Nat

(* What a provider confirmed is not lost again: a start time is not        *)
(* replaced by a made-up one, nor a running time by null, by any provider  *)
(* of any sync, however late it writes.                                    *)
KnownStaysKnown ==
    [][/\ off \in Off => off' \in Off
       /\ \A b \in Box : result[b] # None /\ result[b].run # None =>
            result'[b] # None /\ result'[b].run # None]_vars

(* dog-win-notify.ts:22, "at most one dog_win notification per (user,      *)
(* race)".                                                                 *)
WinNotifiedOnce == \A u \in User : told[u] <= 1

(* What is true of it: the syncs of results that run at once can each tell *)
(* a user once, and no later sync tells him again, however many run.       *)
ToldOncePerScan == \A u \in User : told[u] <= Cardinality(Sync \ Upcoming)

(* dog-win-notify.ts:19, "Notify Pro owners when a dog they have an        *)
(* approved ownership claim on finishes first": nobody is told of a win no *)
(* provider has ever shown.                                                *)
OnlyWinnersAreTold == \A u \in User : told[u] > 0 => u \in shown

(* The rows show what the providers publish: in each box the dog of the    *)
(* last provider, and the finish of the last one that has it, on the       *)
(* result and in the form of the dog.                                      *)
Mirrored ==
    \A b \in Box :
        /\ Carded(feed) # {} =>
            runner[b] = feed[Latest(Carded(feed))].entry[b].dog
        /\ Placed(feed, b) # {} =>
            LET finish == feed[Latest(Placed(feed, b))].entry[b].finish
            IN  /\ result[b] # None /\ result[b].finish = finish
                /\ (\A c \in Box \ {b} : runner[c] # runner[b]) =>
                    /\ form[runner[b]] # None
                    /\ form[runner[b]].finish = finish

(* A late write of an old feed is repaired: when the providers are done,   *)
(* the rows end up showing what they publish.                              *)
FeedIsMirrored == <>[]Mirrored

(* No owner of a winner on record waits for ever for his notification     *)
(* while the race is among the results a scan reads.  An owner whose win   *)
(* is written, or whose failed scan is repeated, after that is never told. *)
WinsAreNotified ==
    \A u \in User :
        []<>(window = "recent" /\ u \in OwnersOfWinners => told[u] > 0)

=============================================================================
