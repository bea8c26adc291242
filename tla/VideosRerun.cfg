\* One race, the job of TheDogs rerun, the other job when somebody runs it.
SPECIFICATION TheDogsFairSpec
CONSTANTS
    Races = 1
    Shown = {1}
    Tracks = {1}
    Coded = {}
    Refreshes = {TRUE}
    MaxVideoFaults = 1
PROPERTIES
    RerunsStoreStreams
