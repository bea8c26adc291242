------------------------------ MODULE LagoInbox ------------------------------
(***************************************************************************)
(* The inbox of Lago's webhooks: src/lib/billing/lago-webhooks.ts stores a *)
(* delivery as a WebhookEvent, src/lib/billing/lago-reducer.ts then writes *)
(* the subscription or the invoice it tells of, and a BillingEvent, in a   *)
(* second transaction.  Either may fail, and the process may die between   *)
(* them.  Lago delivers again what was not answered with 200, and an       *)
(* operator may replay any event.                                          *)
(***************************************************************************)
EXTENDS Naturals

CONSTANTS
    Event,          \* webhooks, each with its unique key and its payload
    Content,        \* event -> what its payload tells
    Object,         \* Lago's ids of subscriptions and invoices
    Holder,         \* object -> the customer it belongs to in Lago
    Customer, User,
    Status,         \* statuses of subscriptions and of invoices
    Delivery,       \* requests that may run at once
    None,           \* null, and a row that does not exist
    MaxDeliveries   \* bound on the deliveries in all

Payload ==
    [kind : {"subscription", "invoice", "other"}, object : Object,
     sub : Object \cup {None},   \* the subscription an invoice is for
     customer : Customer \cup {None}, status : Status]

Snapshot == [user : User \cup {None}, sub : Object \cup {None}, status : Status]

(* What Lago sends: webhooks of an object name its customer or none, and   *)
(* an invoice is for a subscription of the same customer.                  *)
Attributed ==
    /\ Holder \in [Object -> Customer]
    /\ \A e \in Event :
        LET p == Content[e]
        IN  /\ p.customer \in {None, Holder[p.object]}
            /\ p.sub # None => Holder[p.sub] = Holder[p.object]

ASSUME LagoAssumption ==
    /\ Content \in [Event -> Payload] /\ Attributed
    /\ None \notin Event \cup Object \cup Customer \cup User \cup Snapshot
    /\ MaxDeliveries \in Nat

VARIABLES
    row,        \* WebhookEvent.status, "none" without a row
    billed,     \* number of BillingEvents of an event
    snapshot,   \* Subscription and InvoiceRecord rows: object -> row
    linked,     \* BillingCustomer rows: customer -> user
    call,       \* delivery -> the event it is about to reduce
    acked,      \* the events answered with 200
    deliveries

lagoVars == <<row, billed, snapshot, linked, call, acked, deliveries>>

InboxInit ==
    /\ row = [e \in Event |-> "none"]
    /\ billed = [e \in Event |-> 0]
    /\ snapshot = [o \in Object |-> None]
    /\ linked = [c \in Customer |-> None]
    /\ call = [d \in Delivery |-> None]
    /\ acked = {}
    /\ deliveries = 0

-----------------------------------------------------------------------------
(* The insert.  Two unique indexes, on Lago's key and on the payload, tell *)
(* a second delivery, which is counted and answered without being reduced. *)
Fresh_Always(e) == TRUE
Fresh(e) == row[e] = "none"

Arrive(d, e) ==
    /\ call[d] = None /\ deliveries < MaxDeliveries
    /\ deliveries' = deliveries + 1
    /\ IF Fresh(e)
       THEN /\ row' = [row EXCEPT ![e] = "received"]
            /\ call' = [call EXCEPT ![d] = e]
            /\ UNCHANGED acked
       ELSE /\ acked' = acked \cup {e}
            /\ UNCHANGED <<row, call>>
    /\ UNCHANGED <<billed, snapshot, linked>>

(* What the reduction writes: every column of the snapshot as the payload  *)
(* has it, in whatever order events come; owners only when they are known. *)
Coalesce(new, old) == IF new = None THEN old ELSE new

OwnerOf(o) == IF o = None \/ snapshot[o] = None THEN None ELSE snapshot[o].user
LinkOf(o) == IF snapshot[o] = None THEN None ELSE snapshot[o].sub
UserOf(c) == IF c = None THEN None ELSE linked[c]
StoredSub(o) == IF o = None \/ snapshot[o] = None THEN None ELSE o

Reduced_ForgetsOwner(p) ==
    [user |-> Coalesce(OwnerOf(p.sub), UserOf(p.customer)),
     sub |-> StoredSub(p.sub), status |-> p.status]

Reduced(p) ==
    [user |-> Coalesce(Coalesce(OwnerOf(p.sub), UserOf(p.customer)),
                       OwnerOf(p.object)),
     sub |-> Coalesce(StoredSub(p.sub), LinkOf(p.object)),
     status |-> p.status]

Answer(d, e) ==
    /\ call' = [call EXCEPT ![d] = None]
    /\ acked' = acked \cup {e}
    /\ UNCHANGED <<linked, deliveries>>

Ignore(d) ==
    LET e == call[d]
    IN  /\ e # None /\ Content[e].kind = "other"
        /\ row' = [row EXCEPT ![e] = "ignored"]
        /\ UNCHANGED <<billed, snapshot>>
        /\ Answer(d, e)

\* An event that has a BillingEvent already is marked, and nothing more.
Reduce(d) ==
    LET e == call[d]
        p == Content[e]
    IN  /\ e # None /\ p.kind # "other"
        /\ row' = [row EXCEPT ![e] = "processed"]
        /\ billed' = [billed EXCEPT ![e] = IF @ > 0 THEN @ ELSE 1]
        /\ snapshot' = [snapshot EXCEPT ![p.object] =
                            IF billed[e] > 0 THEN @ ELSE Reduced(p)]
        /\ Answer(d, e)

(* The transaction fails, which is answered with 500, or the process dies. *)
Fail(d) ==
    /\ call[d] # None
    /\ call' = [call EXCEPT ![d] = None]
    /\ UNCHANGED <<row, billed, snapshot, linked, acked, deliveries>>

(* No code creates BillingCustomer rows: they are entered by hand.         *)
Link(c) ==
    /\ linked[c] = None
    /\ \E u \in User : linked' = [linked EXCEPT ![c] = u]
    /\ UNCHANGED <<row, billed, snapshot, call, acked, deliveries>>

InboxNext ==
    \/ \E d \in Delivery :
        \/ \E e \in Event : Arrive(d, e)
        \/ Ignore(d)
        \/ Reduce(d)
        \/ Fail(d)
    \/ \E c \in Customer : Link(c)

InboxSpec == InboxInit /\ [][InboxNext]_lagoVars

-----------------------------------------------------------------------------
(* What scripts/lago-webhook-replay.ts tells the operator of an event.     *)
Verdict(e) ==
    CASE row[e] = "none" /\ billed[e] = 0 -> "local_snapshot_missing"
      [] row[e] = "none" /\ billed[e] > 0 -> "billing_snapshot_without_webhook"
      [] row[e] = "ignored" -> "ignored_locally"
      [] row[e] = "received" /\ billed[e] = 0 -> "replay_candidate"
      [] row[e] = "received" /\ billed[e] > 0 -> "status_reconciliation_required"
      [] row[e] = "processed" /\ billed[e] > 0 -> "replay_not_required"
      [] OTHER -> "processed_without_billing_snapshot"

InboxTypeOK ==
    /\ row \in [Event -> {"none", "received", "processed", "ignored"}]
    /\ billed \in [Event -> 0..1]
    /\ snapshot \in [Object -> Snapshot \cup {None}]
    /\ linked \in [Customer -> User \cup {None}]
    /\ call \in [Delivery -> Event \cup {None}]
    /\ acked \subseteq Event
    /\ deliveries \in 0..MaxDeliveries

(* The verdicts of the replay script that say the inbox and the billing    *)
(* events disagree are never given, whatever fails and however often an    *)
(* event is delivered: an event is marked processed in the commit that     *)
(* bills it and in no other, and what was billed left its snapshot.        *)
InboxAgrees ==
    \A e \in Event :
        /\ Verdict(e) \notin {"billing_snapshot_without_webhook",
                "status_reconciliation_required",
                "processed_without_billing_snapshot"}
        /\ billed[e] = 1 => snapshot[Content[e].object] # None

(* A subscription or an invoice once tied to a user stays tied to that     *)
(* user, when webhooks come late, again, or without their customer         *)
(* (relationFields, and the owner an invoice takes from its subscription). *)
OwnerSticks ==
    [][\A o \in Object :
        OwnerOf(o) # None => OwnerOf(o)' = OwnerOf(o)]_snapshot
=============================================================================
