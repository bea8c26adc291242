\* Events in any order, delivered twice; two users, two customers.  And two
\* tabs of the feed, two calls in the panel, a pair with two messages.
SPECIFICATION SidesSpec
CONSTANTS
    author = author
    fan = fan
    Tab = {1, 2}
    Member = {author, fan}
    Author = author
    Moderator = {author}
    Nil = Nil
    MaxFeedEvents = 3
    MaxFeedFaults = 1
    MaxRooms = 2
    MaxConns = 3
    MaxFailures = 1
    User = {u1, u2}
    Customer = {c1, c2}
    Sub = {s1}
    Design = {d1}
    Request = {r1}
    None = None
    MaxEvents = 3
    MaxDeliveries = 2
    InOrder = FALSE
    Tidy = FALSE
    ann = ann
    m1 = m1
    m2 = m2
    Profile = {ann, bob}
    Message = {m1, m2}
    ThreadRequest = {t1, t2}
    NoOne = NoOne
    MaxTime = 2
CHECK_DEADLOCK FALSE
SYMMETRY Permuted
INVARIANTS
    FeedAgrees
    PanelAgrees
    ReceiptsAgree
    MarkedIsBlocked
    BlockKeepsOut
    InboxTimeIsNewest
PROPERTIES
    OwnEventsOnly
    LedgerSpec
