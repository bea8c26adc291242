\* One upload, two requests, two overlapping runs of the job; or two races and
\* the clock of Sydney in hours, with a day on which summer begins and one on
\* which it ends.
SPECIFICATION SidesSpec
CONSTANTS
    Asset = {a1}
    Request = {r1, r2}
    Cron = {c1, c2}
    NoAsset = NoAsset
    MaxFailures = 1
    Standard = 10
    Summer = 11
    From = 16
    Until = 64
    Day = 24
    Race = {x1, x2}
    Meeting = {x1, x2}
    MeetingOf <- OwnMeeting
    None = None
    Unread = Unread
    Given = {13, 61}
    Moments = {13, 14, 61}
    TTL = 2
    ListLimit = 2
    MaxFaults = 1
INVARIANTS
    OnlyScannedIsUsed
    PagesAreWhole
PROPERTIES
    UploadsSettle
