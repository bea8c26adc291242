------------------------------ MODULE RaceVideos ------------------------------
(***************************************************************************)
(* The replays of races.  The live sync stores the replay page that a race *)
(* card names; two jobs of an operator look for what is missing, and write *)
(* the rows of RaceVideo, one for a race and provider, with a stream or    *)
(* with the page alone: scripts/backfill-race-videos.ts for all providers, *)
(* and scripts/backfill-thedogs-race-videos.ts for TheDogs, which keeps a  *)
(* progress file.  Jobs run one at a time, without a limit, each race in   *)
(* steps; the sync runs at any time.                                       *)
(***************************************************************************)
EXTENDS Integers, FiniteSets

CONSTANTS
    Races,          \* races are 1..Races, in the order of their times
    Shown,          \* races whose replay TheDogs comes to show
    Tracks,
    Coded,          \* tracks with a code of Racing Queensland
    Refreshes,      \* whether a job may be told to look at all races: --refresh
    MaxVideoFaults  \* bound on failed requests and on deaths

ASSUME VideosAssumption == {Races, MaxVideoFaults} \subseteq Nat /\ Refreshes \subseteq BOOLEAN

Race == 1..Races
States == {"QLD", "TAS", "WA", "SA"}

VARIABLES
    homeState,  \* the state the races are run in, on one day
    track,      \* race -> its track
    carded,     \* races whose replay page TheDogs shows
    streams,    \* those whose stream it answers with
    filmed,     \* races whose video the provider of the state shows
    theDogs,    \* race -> its row of TheDogs
    local,      \* race -> its row of the state's provider
    found,      \* races with a record ok that has a stream
    running,    \* the running job
    blips

videoVars == <<homeState, track, carded, streams, filmed, theDogs, local, found,
               running, blips>>

VideoRow == {"none", "page", "stream"}
NoJob == [name |-> "none", refresh |-> FALSE, pass |-> "none", todo |-> {}, got |-> FALSE]

VideosTypeOK ==
    /\ homeState \in States /\ track \in [Race -> Tracks]
    /\ carded \subseteq Race /\ streams \subseteq carded /\ filmed \subseteq Race
    /\ theDogs \in [Race -> VideoRow] /\ local \in [Race -> VideoRow]
    /\ found \subseteq Race
    /\ running \in [name : {"none", "all", "thedogs"}, refresh : BOOLEAN,
                pass : {"none", "read", "existing", "cards", "state", "fetch", "record"},
                todo : SUBSET Race, got : BOOLEAN]
    /\ blips \in 0..MaxVideoFaults

VideosInit ==
    /\ homeState \in States /\ track \in [Race -> Tracks]
    /\ carded = {} /\ streams = {} /\ filmed = {}
    /\ theDogs = [r \in Race |-> "none"]
    /\ local = [r \in Race |-> "none"]
    /\ found = {}
    /\ running = NoJob
    /\ blips = 0

VideoFault == blips < MaxVideoFaults /\ blips' = blips + 1

\* The providers show a race's page, its stream, its video, in time.
PublishVideo(r) ==
    /\ \/ r \in Shown \ carded /\ carded' = carded \cup {r} /\ UNCHANGED <<streams, filmed>>
       \/ r \in carded \ streams /\ streams' = streams \cup {r} /\ UNCHANGED <<carded, filmed>>
       \/ r \notin filmed /\ filmed' = filmed \cup {r} /\ UNCHANGED <<carded, streams>>
    /\ UNCHANGED <<homeState, track, theDogs, local, found, running, blips>>

\* ensureRaceVideos: the upsert keeps the stream of a row that has one.
SyncVideo_Overwrites(r) ==
    /\ r \in carded
    /\ theDogs' = [theDogs EXCEPT ![r] = "page"]
    /\ UNCHANGED <<homeState, track, carded, streams, filmed, local, found, running, blips>>

SyncVideo(r) ==
    /\ r \in carded
    /\ theDogs' = [theDogs EXCEPT ![r] = IF @ = "stream" THEN "stream" ELSE "page"]
    /\ UNCHANGED <<homeState, track, carded, streams, filmed, local, found, running, blips>>

-----------------------------------------------------------------------------
StartJob(name, refresh) ==
    /\ running = NoJob
    /\ running' = [NoJob EXCEPT !.name = name, !.refresh = refresh, !.pass = "read"]
    /\ UNCHANGED <<homeState, track, carded, streams, filmed, theDogs, local, found, blips>>

\* A death, or an error that no loop catches.
JobDies ==
    /\ running # NoJob /\ VideoFault
    /\ running' = NoJob
    /\ UNCHANGED <<homeState, track, carded, streams, filmed, theDogs, local, found>>

RunningJob(j) ==
    /\ running' = j
    /\ UNCHANGED <<homeState, track, carded, streams, filmed>>

To(pass, todo) == RunningJob([running EXCEPT !.pass = pass, !.todo = todo])

In(pass) == running.pass = pass /\ running.todo # {}
Done(pass) == running.pass = pass /\ running.todo = {}
FirstRace == CHOOSE r \in running.todo : \A q \in running.todo : r <= q
Rest == running.todo \ {FirstRace}

MissingVideos(row, none) ==
    {r \in Race : row[r] = none \/ (running.refresh /\ row[r] # "none")}

\* Whether the source answers with the stream: one that has it may fail to.
Answered(r, with) ==
    \/ with = (r \in streams) /\ UNCHANGED blips
    \/ ~with /\ r \in streams /\ VideoFault

-----------------------------------------------------------------------------
(* backfill-race-videos: three passes, each of which reads its own races.  *)
ReadExisting ==
    /\ running.name = "all" /\ running.pass = "read"
    /\ To("existing", MissingVideos(theDogs, "page"))
    /\ UNCHANGED <<theDogs, local, found, blips>>

\* A row is written only with a stream.
Existing ==
    /\ In("existing")
    /\ \E with \in BOOLEAN :
        /\ Answered(FirstRace, with)
        /\ theDogs' = [theDogs EXCEPT ![FirstRace] = IF with THEN "stream" ELSE @]
    /\ To("existing", Rest)
    /\ UNCHANGED <<local, found>>

\* TheDogs' page of the day; without it there are no cards.
ReadCards ==
    /\ Done("existing")
    /\ \/ /\ To("cards", carded \cap MissingVideos(theDogs, "none"))
          /\ UNCHANGED blips
       \/ To("cards", {}) /\ VideoFault
    /\ UNCHANGED <<theDogs, local, found>>

\* A card is written with what its source answers, a stream or none; no
\* answer is an error of the card, which writes nothing.
CardVideo ==
    /\ In("cards")
    /\ \/ \E with \in BOOLEAN :
            /\ Answered(FirstRace, with)
            /\ theDogs' = [theDogs EXCEPT ![FirstRace] = IF with THEN "stream" ELSE "page"]
       \/ VideoFault /\ UNCHANGED theDogs
    /\ To("cards", Rest)
    /\ UNCHANGED <<local, found>>

ReadState ==
    /\ Done("cards")
    /\ To("state", {r \in Race : running.refresh \/ local[r] = "none"})
    /\ UNCHANGED <<theDogs, local, found, blips>>

-----------------------------------------------------------------------------
(* The provider of the state.  A request may fail for a race, or find      *)
(* nothing; an error of Tasracing's ends the job.                          *)
InState(s) == In("state") /\ homeState = s

FoundVideo(row) ==
    /\ FirstRace \in filmed
    /\ local' = [local EXCEPT ![FirstRace] = row]
    /\ To("state", Rest)
    /\ UNCHANGED <<theDogs, found, blips>>

Skipped ==
    /\ To("state", Rest)
    /\ UNCHANGED <<theDogs, local, found>>

NotFound == Skipped /\ IF FirstRace \in filmed THEN VideoFault ELSE UNCHANGED blips

\* The page of a race, by the code of its track.
RacingQueensland ==
    /\ InState("QLD")
    /\ IF track[FirstRace] \in Coded
       THEN FoundVideo("page") \/ NotFound
       ELSE Skipped /\ UNCHANGED blips

\* The angle that needs no login.
Tasracing ==
    /\ InState("TAS")
    /\ IF FirstRace \in filmed THEN FoundVideo("stream") ELSE NotFound

\* A day's page, whose titles name no track: two tracks are skipped.
GreyhoundsWa ==
    /\ InState("WA")
    /\ \/ /\ local' = [r \in Race |->
                IF r \in running.todo \cap filmed /\ \A o \in running.todo : track[o] = track[r]
                THEN "page" ELSE local[r]]
          /\ UNCHANGED blips
       \/ UNCHANGED local /\ VideoFault
    /\ To("state", {})
    /\ UNCHANGED <<theDogs, found>>

\* A search for the exact title.
SaRaceReplay ==
    /\ InState("SA")
    /\ FoundVideo("page") \/ NotFound

AllEnds ==
    /\ Done("state")
    /\ RunningJob(NoJob)
    /\ UNCHANGED <<theDogs, local, found, blips>>

-----------------------------------------------------------------------------
(* backfill-thedogs-race-videos: rows without a stream, but for those the  *)
(* progress file has with one.                                             *)
FindVideoCandidates ==
    /\ running.name = "thedogs" /\ running.pass = "read"
    /\ To("fetch", MissingVideos(theDogs, "page") \ found)
    /\ UNCHANGED <<theDogs, local, found, blips>>

\* An answer is written, with a stream or without; no answer is an error of
\* the race, after which the job goes on or, as it is told, ends.
ProcessCandidate ==
    /\ In("fetch")
    /\ \/ \E with \in BOOLEAN :
            /\ Answered(FirstRace, with)
            /\ theDogs' = [theDogs EXCEPT ![FirstRace] = IF with THEN "stream" ELSE "page"]
            /\ RunningJob([running EXCEPT !.pass = "record", !.got = with])
       \/ /\ To("fetch", Rest) \/ To("fetch", {})
          /\ VideoFault /\ UNCHANGED theDogs
    /\ UNCHANGED <<local, found>>

\* Of the records, readCompletedVideoKeys takes those that have a stream.
AppendProgress ==
    /\ running.pass = "record"
    /\ found' = found \cup (IF running.got THEN {FirstRace} ELSE {})
    /\ To("fetch", Rest)
    /\ UNCHANGED <<theDogs, local, blips>>

TheDogsEnds ==
    /\ Done("fetch")
    /\ RunningJob(NoJob)
    /\ UNCHANGED <<theDogs, local, found, blips>>

-----------------------------------------------------------------------------
AllStep ==
    \/ ReadExisting \/ Existing \/ ReadCards \/ CardVideo \/ ReadState
    \/ RacingQueensland \/ Tasracing \/ GreyhoundsWa \/ SaRaceReplay \/ AllEnds

TheDogsStep == FindVideoCandidates \/ ProcessCandidate \/ AppendProgress \/ TheDogsEnds

VideosNext ==
    \/ \E r \in Race : PublishVideo(r) \/ SyncVideo(r)
    \/ \E name \in {"all", "thedogs"}, refresh \in {FALSE} \cup Refreshes :
        StartJob(name, refresh)
    \/ JobDies \/ AllStep \/ TheDogsStep

VideosSpec == VideosInit /\ [][VideosNext]_videoVars

\* The sync has its schedule; operators rerun both jobs.
VideosFairSpec ==
    /\ VideosSpec
    /\ \A r \in Race : WF_videoVars(SyncVideo(r))
    /\ WF_videoVars(AllStep \/ TheDogsStep)
    /\ \A name \in {"all", "thedogs"} : SF_videoVars(StartJob(name, FALSE))

\* Operators rerun the job of TheDogs; the other may run, and need not.
TheDogsFairSpec ==
    /\ VideosSpec
    /\ \A r \in Race : WF_videoVars(SyncVideo(r))
    /\ WF_videoVars(AllStep \/ TheDogsStep)
    /\ SF_videoVars(StartJob("thedogs", FALSE))

-----------------------------------------------------------------------------
(* A replay that its source has is stored in the end and stays, and so is  *)
(* the video of the state's provider found where it can be told whose it   *)
(* is, however late they are published, whatever fails, and whatever was   *)
(* written before they were there: no row, no progress record and no run   *)
(* of a job takes them for done while both jobs are run again.             *)
Tellable(r) ==
    /\ homeState = "QLD" => track[r] \in Coded
    /\ homeState = "WA" => \A q \in Race : track[q] = track[r]
AllVideosAreFound ==
    /\ \A r \in Race : r \in streams ~> [](theDogs[r] = "stream")
    /\ \A r \in Race : (r \in filmed /\ Tellable(r)) ~> local[r] # "none"

(* Reruns of the job of TheDogs retry a row without a stream until one is  *)
(* stored, as docs/deployment/race-provider-smoke-checks.md:126-127 says:  *)
(* whatever wrote the row (backfill-thedogs-race-videos.ts).               *)
RerunsStoreStreams ==
    \A r \in Race : (theDogs[r] = "page" /\ r \in streams) ~> theDogs[r] = "stream"
=============================================================================
