\* An event that is delivered again.
SPECIFICATION Spec
CONSTANTS
    User = {u1}
    Customer = {c1}
    Sub = {s1}
    Design = {}
    Request = {r1}
    None = None
    MaxEvents = 2
    MaxDeliveries = 2
    InOrder = FALSE
    Tidy = FALSE
CHECK_DEADLOCK FALSE
INVARIANTS
    EveryDeliveryIsStored
