\* Two sites, each with ids of its own.
SPECIFICATION DogsSpec
CONSTANTS
    rex = rex
    ivy = ivy
    Animal = {rex, ivy}
    Racing = {rex}
    Sire <- SireOf
    Sites = {1, 2}
    Race = {1, 2}
    Sync = {s1}
    Import = {}
    MaxRows = 4
    NoDog = NoDog
INVARIANTS
    OneDogOneRow
