\* One listing, two requests, an edit and a decision.
SPECIFICATION Spec
CONSTANTS
    Listing = {l1}
    Request = {r1, r2}
    Ops = {"update", "sold", "withdraw", "approve", "reject", "remove"}
    Null = Null
    MaxTime = 0
    MaxEdits = 2
    ListingDays = 0
    SoldDays = 0
PROPERTIES
    DecisionsStand
