------------------------------ MODULE MCHarvest ------------------------------
(* Small instances of the parts that bring race data in and share no rows: *)
(* the live sync, and the jobs of the historical archive and of replays.   *)
(* Each behaviour is of one of them, side; the variables of the others     *)
(* keep their initial values.                                              *)
EXTENDS MCLive, HarvestShards, ProfileImport, ArchiveImport, ProfileHarvest, RaceVideos

CONSTANTS results, cards

VARIABLE side

\* Two dogs of one shard.
SameShard == <<1, 1>>

\* Instead of two providers, one without start times and with a change more.
OneProvider == \A p \in Provider : feed[p] = None \/ (p = 1 /\ feed[p].off = Fallback)

SidesInit ==
    /\ side \in {"live", "longer", "shards", "archive", "profiles", "pages", "videos"}
    /\ Init /\ ShardsInit /\ ArchiveInit /\ ImportInit /\ PagesInit /\ VideosInit
    /\ side # "archive" => raw = {} /\ broken = {} /\ ~unsharded
    /\ side # "profiles" => malformed = {} /\ forms = {} /\ ~racing
    /\ side = "profiles" => malformed = {} \/ forms = {}
    /\ side # "profiles" => ~windows
    /\ side # "pages" => ~listable /\ ~sharded
    /\ IF side # "videos" THEN homeState = "SA" /\ track = <<1, 1>>
       ELSE homeState \in {"TAS", "SA"} => track = <<1, 1>>

SidesNext ==
    /\ \/ /\ side \in {"live", "longer"} /\ Next
          /\ IF side = "live" THEN changes' < MaxChanges ELSE OneProvider'
          /\ UNCHANGED <<harvestVars, archiveVars, profileVars, pageVars, videoVars>>
       \/ /\ side = "shards" /\ ShardsNext
          /\ UNCHANGED <<vars, archiveVars, profileVars, pageVars, videoVars>>
       \/ /\ side = "archive" /\ ArchiveNext
          /\ UNCHANGED <<vars, harvestVars, profileVars, pageVars, videoVars>>
       \/ /\ side = "profiles" /\ ImportNext
          /\ UNCHANGED <<vars, harvestVars, archiveVars, pageVars, videoVars>>
       \/ /\ side = "pages" /\ PagesNext
          /\ UNCHANGED <<vars, harvestVars, archiveVars, profileVars, videoVars>>
       \/ /\ side = "videos" /\ VideosNext
          /\ UNCHANGED <<vars, harvestVars, archiveVars, profileVars, pageVars>>
    /\ UNCHANGED side

all == <<side, vars, harvestVars, archiveVars, profileVars, pageVars, videoVars>>

\* The variables of the part that runs, and what is fair of it: one part
\* runs, so one WF serves them all.
mine ==
    CASE side \in {"live", "longer"} -> vars
      [] side = "archive" -> archiveVars
      [] side = "pages" -> pageVars
      [] OTHER -> videoVars

Turn(i) ==
  /\ UNCHANGED side
  /\ \/ side \in {"live", "longer"} /\ i \in 1..2 /\ Step(IF i = 1 THEN results ELSE cards)
     \/ side = "archive" /\ i = 0 /\ LoopStep
     \/ side = "archive" /\ i \in 1..2 /\ ImporterStep(i)
     \/ side = "archive" /\ i = 3 /\ UnshardedEnds
     \/ side = "pages" /\ i = 0 /\ KeeperStep
     \/ side = "pages" /\ i \in 1..2 /\ PageWorkerStep(<<1, i>>)
     \/ side = "pages" /\ i \in 3..4 /\ PageWorkerStep(<<2, i - 2>>)
     \/ side = "pages" /\ i = 5 /\ PageWorkerStep(Batch)
     \/ side = "videos" /\ i = 0 /\ (AllStep \/ TheDogsStep)
     \/ side = "videos" /\ i \in 1..2 /\ SyncVideo(i)

SidesSpec ==
    /\ SidesInit /\ [][SidesNext]_all
    /\ \A i \in 0..5 : WF_mine(Turn(i))
    /\ \A name \in {"all", "thedogs"} :
        SF_videoVars(side = "videos" /\ StartJob(name, FALSE))

-----------------------------------------------------------------------------
TypesOK ==
    /\ side \in {"live", "longer"} => TypeOK
    /\ side = "shards" => ShardsTypeOK
    /\ side = "archive" => ArchiveTypeOK
    /\ side = "profiles" => ImportTypeOK
    /\ side = "pages" => PagesTypeOK
    /\ side = "videos" => VideosTypeOK

FeedsAreMirrored == <>[]Mirrored

RaceDaysGoIn == side = "archive" => AllDaysGoIn
ProfilesAreArchived == side = "pages" => PagesAreArchived
VideosAreFound == side = "videos" => AllVideosAreFound
=============================================================================
