\* Two overlapping syncs of results.
SPECIFICATION Spec
CONSTANTS
    rex = rex
    ivy = ivy
    ann = ann
    bob = bob
    Providers = 1
    Rank <- OneRank
    Boxes = 1
    Dog = {rex}
    User = {ann}
    Owners <- OwnerOfEach
    Off = {t1}
    Run = {}
    Sync = {results, backup}
    Upcoming = {}
    None = None
    Fallback = Fallback
    MaxChanges = 2
    MaxFailures = 0
CHECK_DEADLOCK FALSE
INVARIANTS
    WinNotifiedOnce
