\* One participant leaves, comes back, and the first webhook is retried.
SPECIFICATION RoomsSpec
CONSTANTS
    Room = {m1}
    Profile = {ann, bob}
    Handler = {r1}
    Cron = {}
    NoOne = NoOne
    InviteTtl = 0
    RoomTtl = 0
    MaxSessions = 2
    MaxHookDeliveries = 2
    MaxFailures = 0
CHECK_DEADLOCK FALSE
INVARIANTS
    RetriedHookIsIdempotent
