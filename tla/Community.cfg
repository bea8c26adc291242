\* All operations of listings, two requests in flight on one of them; and the
\* instances of the other parts.
SPECIFICATION SidesSpec
CONSTANTS
    ann = ann
    bob = bob
    d1 = d1
    d2 = d2
    m1 = m1
    u1 = u1
    a1 = a1
    a2 = a2
    a3 = a3
    Listing = {l1}
    Request = {r1, r2}
    Ops <- AllOps
    Null = Null
    MaxTime = 1
    MaxEdits = 2
    ListingDays = 0
    SoldDays = 0
    Profile = {ann}
    Dog = {d1, d2}
    Registered = {d1}
    Plus = {}
    Maker = {r1, r2}
    PageLimit = 1
    MaxPageEdits = 1
    NoPage = NoPage
    Member = {ann, bob}
    ListedItem = {l1}
    Message = {m1}
    Account = {u1}
    MaxReports = 2
    Moderator = {r1, r2}
    NoReport = NoReport
    Run = {a1, a2, a3}
    Allowance <- AllowanceOfTier
    TierOf <- TierOfRun
    Needs <- NeedsOfRun
    Unfinished = {a1}
    NoRun = NoRun
    Starts = {3, 4}
    Min = 2
    Max = 5
    Reinforcement = 2
    Useful = 4
    Period = 2
    Recent = 1
    Job = {r1, r2}
    MaxClock = 4
    Animal = {d1, d2}
    Racing = {d1}
    Sire <- SireOf
    Sites = {1, 2}
    Race = {1, 2}
    Sync = {ann, bob}
    Import = {m1}
    MaxRows = 4
    NoDog = NoDog
SYMMETRY Permuted
INVARIANTS
    TypesOK
    PublicIsVetted
    PagesAreOwned
    ReportsAgree
    ChargeMatchesOutput
    OneSiteOneRow
    DecayIsByTime
