\* One run for the services that share no rows.
SPECIFICATION SidesSpec
CONSTANTS
    sub = sub
    inv = inv
    cust = cust
    billing = billing
    ended = ended
    bare = bare
    other = other
    ann = ann
    bob = bob
    a1 = a1
    a2 = a2
    r1 = r1
    r2 = r2
    r3 = r3
    Event = {billing, ended, bare, other}
    Content <- Webhooks
    Object = {sub, inv}
    Holder <- HeldBy
    Customer = {cust}
    User = {ann, bob}
    Status = {"active", "ended"}
    Delivery = {d1, d2}
    None = None
    MaxDeliveries = 6
    Identity = {ann, bob}
    Email = {a1, a2}
    Login <- Logins
    MaxUsers = 2
    Nobody = Nobody
    Rows = 2
    Sender = {r1, r2}
    Call = {ann, bob}
    Refused = {1}
    Limit = 1
    MaxAttempts = 2
    MaxFaults = 1
    Listing = {cust}
    Request = {r1, r2}
    Ops = {"renew", "sold", "withdraw", "approve", "reject", "remove"}
    Null = Null
    MaxTime = 1
    MaxEdits = 1
    ListingDays = 0
    SoldDays = 0
    Room = {sub}
    Profile = {ann, bob}
    Handler = {r1}
    Cron = {r2}
    NoOne = NoOne
    InviteTtl = 0
    RoomTtl = 0
    MaxSessions = 1
    MaxHookDeliveries = 1
    MaxFailures = 1
CHECK_DEADLOCK FALSE
INVARIANTS
    TypesOK
    InboxAgrees
    ScrubWasAsked
    UnverifiedNeverLinks
    EndsOnce
PROPERTIES
    TierSettles
    OldestSettles
    AllArrive
    OverdueExpires
    ActiveRoomEnds
    InviteResolves
