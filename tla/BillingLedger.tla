---------------------------- MODULE BillingLedger ----------------------------
(***************************************************************************)
(* What processing a payment provider's events promises: an event counts   *)
(* once, its effect and the record that it was handled are one step, and a *)
(* step touches one account at most.                                       *)
(***************************************************************************)
CONSTANTS
    User,
    Design,     \* one-off design purchases
    Event       \* the provider's events

VARIABLES
    tier,       \* user -> subscription tier
    handled,    \* the events that had their effect
    requests    \* the design purchases on record

vars == <<tier, handled, requests>>

Tier == {"free", "pro"}

Init ==
    /\ tier = [u \in User |-> "free"]
    /\ handled = {}
    /\ requests = {}

Handle(e) ==
    /\ e \notin handled
    /\ handled' = handled \cup {e}
    /\ \/ \E u \in User, t \in Tier :
            tier' = [tier EXCEPT ![u] = t] /\ UNCHANGED requests
       \/ \E d \in Design \ requests :
            requests' = requests \cup {d} /\ UNCHANGED tier
       \/ UNCHANGED <<tier, requests>>

\* An account that is deleted loses what it paid for.
Close(u) ==
    /\ tier' = [tier EXCEPT ![u] = "free"]
    /\ UNCHANGED <<handled, requests>>

Next == (\E e \in Event : Handle(e)) \/ (\E u \in User : Close(u))

Spec == Init /\ [][Next]_vars
=============================================================================
