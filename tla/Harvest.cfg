\* Two syncs of results, two providers, one box; and the instances of the other
\* jobs that bring data in.
SPECIFICATION SidesSpec
CONSTANTS
    results = results
    cards = cards
    rex = rex
    ivy = ivy
    ann = ann
    bob = bob
    Providers = 2
    Rank <- TwoRanks
    Boxes = 1
    Dog = {rex, ivy}
    User = {ann, bob}
    Owners <- OwnerOfEach
    Off = {t1}
    Run = {slow}
    Sync = {results, cards}
    Upcoming = {}
    None = None
    Fallback = Fallback
    MaxChanges = 3
    MaxFailures = 1
    Days = 3
    Forcing = {FALSE}
    Named = {}
    Workers = 1
    Shards = 2
    MaxErrors = 1
    KillsTree = FALSE
    MaxStarts = 2
    MaxFaults = 1
    Nothing = Nothing
    DayFiles = 1
    ProfileFiles = 2
    BatchLimit = 1
    MaxItemErrors = 2
    MaxImportFaults = 1
    FileDays = 3
    ImportShards = 2
    MaxActive = 1
    MaxWaves = 0
    MaxDayErrors = 2
    MaxArchiveFaults = 1
    Dogs = 2
    Gone = {1}
    ShardOfDog <- SameShard
    WaveShards = 2
    Limit = 2
    MaxPageErrors = 2
    MaxPageFaults = 1
    NoWave = NoWave
    Races = 2
    Shown = {1}
    Tracks = {1, 2}
    Coded = {1}
    Refreshes = {TRUE}
    MaxVideoFaults = 1
CHECK_DEADLOCK FALSE
INVARIANTS
    TypesOK
    ToldOncePerScan
    ShardsAreCovered
    RecordedIsWhole
PROPERTIES
    KnownStaysKnown
    FeedsAreMirrored
    WinsAreNotified
    RaceDaysGoIn
    ProfilesAreArchived
    VideosAreFound
