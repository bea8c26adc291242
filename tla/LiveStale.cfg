\* A sync of upcoming cards that writes an old feed; one provider.
SPECIFICATION Spec
CONSTANTS
    rex = rex
    ivy = ivy
    ann = ann
    bob = bob
    Providers = 1
    Rank <- OneRank
    Boxes = 1
    Dog = {rex, ivy}
    User = {ann, bob}
    Owners <- OwnerOfEach
    Off = {t1}
    Run = {}
    Sync = {results, cards}
    Upcoming = {cards}
    None = None
    Fallback = Fallback
    MaxChanges = 3
    MaxFailures = 0
CHECK_DEADLOCK FALSE
INVARIANTS
    OnlyWinnersAreTold
