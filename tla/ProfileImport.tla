---------------------------- MODULE ProfileImport ----------------------------
(***************************************************************************)
(* The import of harvested race days and dog profiles in batches.  Two     *)
(* supervisors run importer processes one at a time: that of               *)
(* scripts/supervise-thedogs-dog-profile-import.ts for the profiles, when  *)
(* no race-day importer runs, and that of supervise-thedogs-import-        *)
(* replay.ts for days and profiles in turn.  A batch that takes too long   *)
(* is killed.  An importer saves a profile in several statements without a *)
(* transaction and appends an ok record to the progress file after.        *)
(***************************************************************************)
EXTENDS Integers, FiniteSets

CONSTANTS
    DayFiles, ProfileFiles, \* the days -DayFiles..-1, the profiles 1..ProfileFiles
    BatchLimit,             \* --limit of a batch
    MaxItemErrors,          \* --max-errors, at least 1
    MaxImportFaults         \* bound on database errors, kills and other failures

ASSUME ImportAssumption ==
    /\ DayFiles \in Nat /\ ProfileFiles \in Nat /\ BatchLimit \in Nat
    /\ MaxItemErrors \in Nat \ {0} /\ MaxImportFaults \in Nat

Profile == 1..ProfileFiles
RawDay == (-DayFiles)..(-1)
Item == Profile \cup RawDay
Supervisor == {"profiles", "replay"}
Importer == Supervisor \cup {"orphan"}      \* bound: one that was left running

VARIABLES
    windows,    \* whether processes are listed and killed with their children
    malformed,  \* files no importer can parse
    recorded,   \* items with an ok record in a progress file
    forms,      \* profiles whose form rows are in the database
    shared,     \* items that two importers took up at once
    super,      \* supervisor -> its loop
    importer,   \* importer processes
    racing,     \* whether race-day importers run
    importFaults

profileVars == <<windows, malformed, recorded, forms, shared, super, importer,
                 racing, importFaults>>

NoImporter == [pc |-> "off", todo |-> {}, errors |-> 0]
Pc == {"off", "boot", "save", "clear", "fill", "record",
       "exit 0", "exit 1", "exit 75"}

ImportInit ==
    /\ windows \in BOOLEAN
    /\ malformed \in SUBSET Item
    /\ recorded = {}
    /\ forms \in SUBSET Profile
    /\ shared = {}
    /\ super = [s \in Supervisor |-> "poll"]
    /\ importer = [i \in Importer |-> NoImporter]
    /\ racing \in BOOLEAN
    /\ importFaults = 0

ImporterRuns(i) == importer[i].pc \in {"boot", "save", "clear", "fill", "record"}
First(items) == CHOOSE n \in items : \A m \in items : n <= m
Item1(i) == First(importer[i].todo)

-----------------------------------------------------------------------------
(* The supervisors.  That of the profiles waits for race-day importers and *)
(* for other importers of profiles, as far as it can see them, ends when a *)
(* dry run finds nothing pending, and waits for the database.              *)
SuperGoes(s, pc) == super' = [super EXCEPT ![s] = pc]

Sees ==
    /\ windows
    /\ \/ racing
       \/ \E i \in Importer : ImporterRuns(i) /\ importer[i].todo \subseteq Profile

Polls(s) ==
    /\ super[s] = "poll"
    /\ s = "profiles" => ~Sees
    /\ SuperGoes(s, CASE s = "profiles" /\ Profile \subseteq recorded -> "done"
                 [] s = "profiles" -> "start profiles"
                 [] s = "replay" -> "start days")
    /\ UNCHANGED <<windows, malformed, recorded, forms, shared, importer, racing, importFaults>>

Starts(s) ==
    /\ super[s] \in {"start days", "start profiles"}
    /\ importer' = [importer EXCEPT ![s] =
            [NoImporter EXCEPT !.pc = "boot",
                           !.todo = IF super[s] = "start days" THEN RawDay ELSE Profile]]
    /\ SuperGoes(s, IF super[s] = "start days" THEN "days" ELSE "batch")
    /\ UNCHANGED <<windows, malformed, recorded, forms, shared, racing, importFaults>>

Unavailable(s) ==
    /\ super[s] \in {"start days", "start profiles"} /\ importFaults < MaxImportFaults
    /\ importFaults' = importFaults + 1
    /\ SuperGoes(s, "poll")
    /\ UNCHANGED <<windows, malformed, recorded, forms, shared, importer, racing>>

(* A batch that ended because of the database is tried again.  Any other   *)
(* error, of one item even, ends the supervisor.                           *)
After(exit, at) ==
    CASE exit = "exit 0" /\ at = "days" -> "start profiles"
      [] exit = "exit 0" /\ at = "batch" -> "poll"
      [] exit = "exit 75" -> "poll"
      [] exit = "exit 1" -> "threw"

BatchEnds(s) ==
    /\ importer[s].pc \in {"exit 0", "exit 1", "exit 75"}
    /\ SuperGoes(s, After(importer[s].pc, super[s]))
    /\ importer' = [importer EXCEPT ![s] = NoImporter]
    /\ UNCHANGED <<windows, malformed, recorded, forms, shared, racing, importFaults>>

(* The batch's time is up.  Only on Windows does the kill reach more than  *)
(* npm: elsewhere the importer goes on by itself.                          *)
BatchTimesOut(s) ==
    /\ ImporterRuns(s) /\ importFaults < MaxImportFaults
    /\ windows \/ importer["orphan"].pc = "off"
    /\ importFaults' = importFaults + 1
    /\ importer' = [importer EXCEPT ![s] = [NoImporter EXCEPT !.pc = "exit 75"],
                        !["orphan"] = IF windows THEN @ ELSE importer[s]]
    /\ UNCHANGED <<windows, malformed, recorded, forms, shared, super, racing>>

-----------------------------------------------------------------------------
(* An importer.                                                            *)
Others(i) ==
    UNION {importer[j].todo : j \in {k \in Importer \ {i} :
                                     ImporterRuns(k) /\ importer[k].pc # "boot"}}

ImporterBecomes(i, pc, todo, errors) ==
    /\ importer' = [importer EXCEPT ![i] =
            IF i = "orphan" /\ pc \in {"exit 0", "exit 1", "exit 75"} THEN NoImporter
            ELSE [pc |-> pc, todo |-> todo, errors |-> errors]]
    /\ UNCHANGED <<windows, malformed, super, racing>>

NextItem(i, errors) ==
    LET todo == importer[i].todo \ {Item1(i)}
    IN  ImporterBecomes(i, IF todo # {} /\ errors < MaxItemErrors THEN "save"
                   ELSE IF errors = 0 THEN "exit 0" ELSE "exit 1",
                IF errors < MaxItemErrors THEN todo ELSE {}, errors)

(* The first files of its kind without a record, up to the limit, unless   *)
(* the database does not answer.                                           *)
Selected(i) ==
    LET pending == importer[i].todo \ recorded
    IN  {n \in pending : Cardinality({m \in pending : m < n}) < BatchLimit}

Boots(i, kind) ==
    /\ importer[i].pc = "boot" /\ importer[i].todo = kind
    /\ \/ /\ ImporterBecomes(i, IF Selected(i) = {} THEN "exit 0" ELSE "save", Selected(i), 0)
          /\ shared' = shared \cup (Selected(i) \cap Others(i))
          /\ UNCHANGED importFaults
       \/ /\ Selected(i) # {} /\ importFaults < MaxImportFaults
          /\ importFaults' = importFaults + 1
          /\ ImporterBecomes(i, "exit 75", {}, 0)
          /\ UNCHANGED shared
    /\ UNCHANGED <<recorded, forms>>

BootDays(i) == Boots(i, RawDay)
BootProfiles(i) == Boots(i, Profile)

(* A day is written by the live sync, and recorded after.                  *)
SyncDay(i) ==
    /\ importer[i].pc = "save" /\ Item1(i) \in RawDay \ malformed
    /\ ImporterBecomes(i, "record", importer[i].todo, importer[i].errors)
    /\ UNCHANGED <<recorded, forms, shared, importFaults>>

(* Of a profile the dog, its parents and trainer and its archive row come  *)
(* first, then its form rows are replaced.                                 *)
Save(i) ==
    /\ importer[i].pc = "save" /\ Item1(i) \in Profile \ malformed
    /\ ImporterBecomes(i, "clear", importer[i].todo, importer[i].errors)
    /\ UNCHANGED <<recorded, forms, shared, importFaults>>

Clear(i) ==
    /\ importer[i].pc = "clear"
    /\ forms' = forms \ {Item1(i)}
    /\ ImporterBecomes(i, "fill", importer[i].todo, importer[i].errors)
    /\ UNCHANGED <<recorded, shared, importFaults>>

(* The unique index refuses rows that another importer has put there; the  *)
(* attempt fails, and the profile is saved again.                          *)
Fill(i) ==
    /\ importer[i].pc = "fill"
    /\ forms' = forms \cup {Item1(i)}
    /\ ImporterBecomes(i, IF Item1(i) \in forms THEN "save" ELSE "record",
               importer[i].todo, importer[i].errors)
    /\ UNCHANGED <<recorded, shared, importFaults>>

RecordItem_First(i) ==
    /\ importer[i].pc = "clear"
    /\ recorded' = recorded \cup {Item1(i)}
    /\ forms' = forms \ {Item1(i)}
    /\ NextItem(i, importer[i].errors)
    /\ UNCHANGED <<shared, importFaults>>

RecordItem(i) ==
    /\ importer[i].pc = "record"
    /\ recorded' = recorded \cup {Item1(i)}
    /\ NextItem(i, importer[i].errors)
    /\ UNCHANGED <<forms, shared, importFaults>>

SkipMalformed(i) ==
    /\ importer[i].pc = "save" /\ Item1(i) \in malformed
    /\ NextItem(i, importer[i].errors + 1)
    /\ UNCHANGED <<recorded, forms, shared, importFaults>>

(* All attempts at an item failed; a database error ends the importer.     *)
SkipFailed(i) ==
    /\ importer[i].pc \in {"save", "clear", "fill", "record"} /\ importFaults < MaxImportFaults
    /\ importFaults' = importFaults + 1
    /\ \/ NextItem(i, importer[i].errors + 1)
       \/ ImporterBecomes(i, "exit 75", {}, importer[i].errors + 1)
    /\ UNCHANGED <<recorded, forms, shared>>

RaceImports ==
    /\ racing' = ~racing
    /\ IF racing THEN UNCHANGED importFaults
                 ELSE importFaults < MaxImportFaults /\ importFaults' = importFaults + 1
    /\ UNCHANGED <<windows, malformed, recorded, forms, shared, super, importer>>

ImportNext ==
    \/ \E s \in Supervisor :
        Polls(s) \/ Starts(s) \/ BatchEnds(s) \/ Unavailable(s) \/ BatchTimesOut(s)
    \/ \E i \in Importer :
        \/ BootDays(i) \/ BootProfiles(i) \/ SyncDay(i) \/ Save(i) \/ Clear(i)
        \/ Fill(i) \/ RecordItem(i) \/ SkipMalformed(i) \/ SkipFailed(i)
    \/ RaceImports

ImportSpec == ImportInit /\ [][ImportNext]_profileVars

-----------------------------------------------------------------------------
ImportTypeOK ==
    /\ windows \in BOOLEAN
    /\ malformed \subseteq Item /\ recorded \subseteq Item
    /\ forms \subseteq Profile /\ shared \subseteq Item
    /\ super \in [Supervisor -> {"poll", "start days", "start profiles", "days",
                                 "batch", "done", "threw"}]
    /\ importer \in [Importer -> [pc : Pc, todo : SUBSET Item, errors : 0..MaxItemErrors]]
    /\ racing \in BOOLEAN /\ importFaults \in 0..MaxImportFaults

(* A profile that is recorded, and will not be imported again, has its     *)
(* form rows, whatever was killed or failed between the statements that    *)
(* save it; unless two importers were at it, as the supervisors allow.     *)
RecordedIsWhole == ((Profile \cap recorded) \ shared) \subseteq forms
==============================================================================
