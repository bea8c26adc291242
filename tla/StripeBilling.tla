---------------------------- MODULE StripeBilling ----------------------------
(***************************************************************************)
(* Payments through Stripe: src/lib/billing/stripe-service.ts starts the   *)
(* checkouts, src/lib/billing/stripe-webhooks.ts turns Stripe's events     *)
(* into the user's tier, and src/lib/account-service.ts finalises deleted  *)
(* accounts.                                                               *)
(*                                                                         *)
(* The webhook handler is one database transaction, so one action: its     *)
(* inbox row and its effect commit together or not at all.  The checkout   *)
(* handler talks to Stripe between its transactions.  Stripe is modelled   *)
(* from how the code uses it: it numbers its events, each with a copy of   *)
(* the object as it was, and sends them in any order, again and again.     *)
(***************************************************************************)
EXTENDS Integers, Sequences

CONSTANTS
    User,
    Customer,       \* Stripe customer ids
    Sub,            \* checkout sessions for a subscription, and their ids
    Design,         \* checkout sessions for a design package
    Request,        \* checkout requests in flight
    None,           \* null
    MaxEvents,      \* bound on the events Stripe creates
    MaxDeliveries,  \* bound on the deliveries of one event
    InOrder,        \* whether events arrive in the order of their creation
    Tidy            \* whether a user holds one subscription at a time, and
                    \* staff subscribe only customers on a user's row

ASSUME BoundAssumption == MaxEvents \in Nat /\ MaxDeliveries \in Nat
ASSUME ChoiceAssumption == InOrder \in BOOLEAN /\ Tidy \in BOOLEAN
ASSUME DistinctAssumption ==
    /\ Sub \cap Design = {}
    /\ None \notin User \cup Customer \cup Sub \cup Design

VARIABLES
    user,       \* User rows: tier, Stripe ids, and whether it was finalised
    inbox,      \* event -> status of its WebhookEvent row, "none" without
    retries,    \* event -> the row's retryCount
    requests,   \* the stripeSessionIds of CustomDesignRequest rows
    proc,       \* what each checkout request is about to do
    owner,      \* Stripe: customer -> the user it was created for
    purchase,   \* Stripe: checkout session or subscription -> its object
    events,     \* Stripe: the events created so far
    deliveries  \* event -> number of times it was sent

appVars == <<user, inbox, retries, requests>>
stripeVars == <<owner, purchase, events>>
vars == <<appVars, proc, stripeVars, deliveries>>

Purchase == Sub \cup Design
EventId == 1..MaxEvents
Tier == {"free", "pro"}
Paid == {"active", "past_due"}
SubStatus == Paid \cup {"unpaid", "canceled"}

UserRow == [tier : Tier, customer : Customer \cup {None},
            subscription : Sub \cup {None}, closed : BOOLEAN]
\* A purchase no metadata names a user for was made in Stripe's dashboard.
PurchaseObject ==
    [status : {"none", "open"} \cup SubStatus, paused : BOOLEAN,
     customer : Customer \cup {None}, user : User \cup {None}, plan : Tier]
EventObject ==
    [type : {"checkout", "changed"}, about : Sub, customer : Customer,
     user : User \cup {None}, grants : Tier, canceled : BOOLEAN]
    \cup [type : {"design"}, about : Design, customer : Customer,
          user : User, grants : Tier, canceled : BOOLEAN]
    \cup [type : {"other"}, about : {None}, customer : {None},
          user : {None}, grants : Tier, canceled : BOOLEAN]
ProcState ==
    [pc : {"idle"}, user : {None}, customer : {None}]
    \cup [pc : {"create"}, user : User, customer : {None}]
    \cup [pc : {"write", "open"}, user : User, customer : Customer]

Idle == [pc |-> "idle", user |-> None, customer |-> None]

Init ==
    /\ user = [u \in User |-> [tier |-> "free", customer |-> None,
                               subscription |-> None, closed |-> FALSE]]
    /\ inbox = [i \in EventId |-> "none"]
    /\ retries = [i \in EventId |-> 0]
    /\ requests = {}
    /\ proc = [r \in Request |-> Idle]
    /\ owner = [c \in Customer |-> None]
    /\ purchase = [s \in Purchase |->
            [status |-> "none", paused |-> FALSE, customer |-> None,
             user |-> None, plan |-> "pro"]]
    /\ events = <<>>
    /\ deliveries = [i \in EventId |-> 0]

-----------------------------------------------------------------------------
(* createStripeCheckoutSession: getOrCreateStripeCustomer reads the row,   *)
(* has Stripe create a customer if there is none, and writes its id.  An   *)
(* account that was deleted cannot sign in to ask for it.                  *)
StartCheckout(r, u) ==
    /\ proc[r] = Idle
    /\ ~user[u].closed
    /\ proc' = [proc EXCEPT ![r] =
            IF user[u].customer = None
            THEN [pc |-> "create", user |-> u, customer |-> None]
            ELSE [pc |-> "open", user |-> u, customer |-> user[u].customer]]
    /\ UNCHANGED <<appVars, stripeVars, deliveries>>

CreateCustomer(r, c) ==
    /\ proc[r].pc = "create"
    /\ owner[c] = None
    /\ owner' = [owner EXCEPT ![c] = proc[r].user]
    /\ proc' = [proc EXCEPT ![r] =
            [pc |-> "write", user |-> proc[r].user, customer |-> c]]
    /\ UNCHANGED <<appVars, purchase, events, deliveries>>

WriteCustomer(r) ==
    /\ proc[r].pc = "write"
    /\ user' = [user EXCEPT ![proc[r].user].customer = proc[r].customer]
    /\ proc' = [proc EXCEPT ![r].pc = "open"]
    /\ UNCHANGED <<inbox, retries, requests, stripeVars, deliveries>>

\* The checkout session of a subscription or of a design package.
OpenSession(r, s) ==
    /\ proc[r].pc = "open"
    /\ purchase[s].status = "none"
    /\ purchase' = [purchase EXCEPT ![s] =
            [status |-> "open", paused |-> FALSE,
             customer |-> proc[r].customer, user |-> proc[r].user,
             plan |-> "pro"]]
    /\ proc' = [proc EXCEPT ![r] = Idle]
    /\ UNCHANGED <<appVars, owner, events, deliveries>>

\* A call to Stripe or to the database fails and the request with it.
GiveUp(r) ==
    /\ proc[r] # Idle
    /\ proc' = [proc EXCEPT ![r] = Idle]
    /\ UNCHANGED <<appVars, stripeVars, deliveries>>

-----------------------------------------------------------------------------
\* planForStripeSubscription and the status test of
\* stripeUserBillingUpdateForSubscription.
GrantedTier(object) ==
    IF object.status \in Paid /\ ~object.paused THEN object.plan ELSE "free"

\* Stripe's event about s as it is now.
EventFor(type, s, object) ==
    [type |-> type, about |-> s, customer |-> object.customer,
     user |-> object.user, grants |-> GrantedTier(object),
     canceled |-> object.status = "canceled"]

OtherEvent == [type |-> "other", about |-> None, customer |-> None,
               user |-> None, grants |-> "free", canceled |-> FALSE]

Emit(new) ==
    /\ Len(events) + Len(new) <= MaxEvents
    /\ events' = events \o new

\* Whether Stripe bills for s, and whether it bills u for anything.
Live(s) == purchase[s].status \in SubStatus \ {"canceled"}
Subscribed(u) ==
    \E s \in Sub : Live(s) /\ owner[purchase[s].customer] = u
MaySubscribe(c) == Tidy => ~Subscribed(owner[c])

(* The buyer pays: a subscription starts, or a design is bought.           *)
Pay(s) ==
    LET paid == [purchase[s] EXCEPT !.status = "active"] IN
    /\ purchase[s].status = "open"
    /\ s \in Sub => MaySubscribe(purchase[s].customer)
    /\ purchase' = [purchase EXCEPT ![s] = paid]
    /\ Emit(IF s \in Sub
            THEN <<EventFor("changed", s, paid),
                   EventFor("checkout", s, paid)>>
            ELSE <<EventFor("design", s, paid)>>)
    /\ UNCHANGED <<appVars, proc, owner, deliveries>>

(* Staff subscribe a customer in the dashboard: no metadata, any price.    *)
DashboardSubscribe(s, c, plan) ==
    LET object == [status |-> "active", paused |-> FALSE, customer |-> c,
                   user |-> None, plan |-> plan]
    IN  /\ purchase[s].status = "none"
        /\ owner[c] # None
        /\ MaySubscribe(c)
        /\ Tidy => user[owner[c]].customer = c
        /\ purchase' = [purchase EXCEPT ![s] = object]
        /\ Emit(<<EventFor("changed", s, object)>>)
        /\ UNCHANGED <<appVars, proc, owner, deliveries>>

(* A payment fails or succeeds, the subscription is cancelled, paused or   *)
(* resumed, by Stripe or in its portal.                                    *)
Change(s, status, paused) ==
    LET object == [purchase[s] EXCEPT !.status = status, !.paused = paused]
    IN  /\ Live(s)
        /\ object # purchase[s]
        /\ purchase' = [purchase EXCEPT ![s] = object]
        /\ Emit(<<EventFor("changed", s, object)>>)
        /\ UNCHANGED <<appVars, proc, owner, deliveries>>

Other ==
    /\ Emit(<<OtherEvent>>)
    /\ UNCHANGED <<appVars, proc, owner, purchase, deliveries>>

-----------------------------------------------------------------------------
\* Stripe sends an event, and sends it again when it saw no answer.
Sent(i) ==
    /\ i <= Len(events)
    /\ deliveries[i] < MaxDeliveries
    /\ InOrder => \A j \in 1..i - 1 : inbox[j] # "none"
    /\ deliveries' = [deliveries EXCEPT ![i] = @ + 1]
    /\ UNCHANGED <<proc, stripeVars>>

FindUser_AnyWithoutCustomer(e) ==
    IF e.user # None
    THEN {e.user}
    ELSE LET bySubscription == {u \in User : user[u].subscription = e.about}
             byCustomer == {u \in User : user[u].customer = e.customer}
         IN  IF bySubscription # {} THEN bySubscription
             ELSE IF byCustomer # {} THEN byCustomer
             ELSE {u \in User : user[u].customer = None}

\* The one user an event is about: findUserIdForSubscription for a
\* subscription, the id the session carries for a checkout.
FindUser(e) ==
    IF e.user # None
    THEN {e.user}
    ELSE LET bySubscription == {u \in User : user[u].subscription = e.about}
         IN  IF bySubscription # {}
             THEN bySubscription
             ELSE {u \in User : user[u].customer = e.customer}

BillingUpdate_OnlyCancels(row, e) ==
    [row EXCEPT !.tier = IF e.canceled THEN "free" ELSE "pro",
                !.customer = e.customer,
                !.subscription = IF e.canceled THEN None ELSE e.about]

\* stripeUserBillingUpdateForCheckoutSession, ...ForSubscription.
BillingUpdate(row, e) ==
    IF e.type = "checkout"
    THEN [row EXCEPT !.tier = "pro", !.customer = e.customer,
                     !.subscription = e.about]
    ELSE [row EXCEPT !.tier = e.grants, !.customer = e.customer,
                     !.subscription = IF e.canceled THEN None ELSE e.about]

\* Stripe's ids are unique among users.
Clashes(u, e) ==
    \E v \in User \ {u} :
        user[v].customer = e.customer \/ user[v].subscription = e.about

Mark(i, status) == inbox' = [inbox EXCEPT ![i] = status]

UpdateUser_BeforeInsert(i) ==
    /\ Sent(i)
    /\ events[i].type \in {"checkout", "changed"}
    /\ \E u \in FindUser(events[i]) :
        /\ ~Clashes(u, events[i])
        /\ user' = [user EXCEPT ![u] = BillingUpdate(@, events[i])]
    /\ Mark(i, "processed")
    /\ UNCHANGED <<retries, requests>>

(* ingestStripeWebhook of an event that is new: one transaction inserts    *)
(* the inbox row, reduces the event and marks the row.                     *)
UpdateUser(i) ==
    /\ Sent(i)
    /\ inbox[i] = "none"
    /\ events[i].type \in {"checkout", "changed"}
    /\ \E u \in FindUser(events[i]) :
        /\ ~Clashes(u, events[i])
        /\ user' = [user EXCEPT ![u] = BillingUpdate(@, events[i])]
    /\ Mark(i, "processed")
    /\ UNCHANGED <<retries, requests>>

RecordDesign(i) ==
    /\ Sent(i)
    /\ inbox[i] = "none"
    /\ events[i].type = "design"
    /\ requests' = requests \cup {events[i].about}
    /\ Mark(i, "processed")
    /\ UNCHANGED <<user, retries>>

Ignore(i) ==
    /\ Sent(i)
    /\ inbox[i] = "none"
    /\ events[i].type = "other"
    /\ Mark(i, "ignored")
    /\ UNCHANGED <<user, retries, requests>>

Fail_Commits(i) ==
    /\ Sent(i)
    /\ inbox[i] = "none"
    /\ events[i].type \in {"checkout", "changed"}
    /\ \A u \in FindUser(events[i]) : Clashes(u, events[i])
    /\ Mark(i, "failed")
    /\ UNCHANGED <<user, retries, requests>>

\* The reducer throws: markWebhookEventFailed is rolled back with the rest.
Fail(i) ==
    /\ Sent(i)
    /\ inbox[i] = "none"
    /\ events[i].type \in {"checkout", "changed"}
    /\ \A u \in FindUser(events[i]) : Clashes(u, events[i])
    /\ UNCHANGED appVars

(* A repeated delivery: the insert fails on the unique event id, and the   *)
(* database refuses every further statement of a transaction that failed,  *)
(* incrementDuplicateWebhookEvent too.  The route answers 500.             *)
Redeliver(i) ==
    /\ Sent(i)
    /\ inbox[i] # "none"
    /\ UNCHANGED appVars

Deliver(i) ==
    \/ UpdateUser(i) \/ RecordDesign(i) \/ Ignore(i) \/ Fail(i) \/ Redeliver(i)

(* runAccountDeletionMaintenance for one user.  Stripe is not told.        *)
CloseAccount(u) ==
    /\ ~user[u].closed
    /\ user' = [user EXCEPT ![u] =
            [tier |-> "free", customer |-> None, subscription |-> None,
             closed |-> TRUE]]
    /\ UNCHANGED <<inbox, retries, requests, proc, stripeVars, deliveries>>

CheckoutNext ==
    \/ \E r \in Request, u \in User : StartCheckout(r, u)
    \/ \E r \in Request, c \in Customer : CreateCustomer(r, c)
    \/ \E r \in Request : WriteCustomer(r) \/ GiveUp(r)
    \/ \E r \in Request, s \in Purchase : OpenSession(r, s)

StripeNext ==
    \/ \E s \in Purchase : Pay(s)
    \/ \E s \in Sub, c \in Customer, plan \in Tier :
            DashboardSubscribe(s, c, plan)
    \/ \E s \in Sub, status \in SubStatus, paused \in BOOLEAN :
            Change(s, status, paused)
    \/ Other

Next ==
    \/ CheckoutNext
    \/ StripeNext
    \/ \E i \in EventId : Deliver(i)
    \/ \E u \in User : CloseAccount(u)

Spec == Init /\ [][Next]_vars

\* Stripe sends an event until it is answered.
FairSpec == Spec /\ \A i \in EventId : WF_vars(Deliver(i))

-----------------------------------------------------------------------------
TypeOK ==
    /\ user \in [User -> UserRow]
    /\ inbox \in [EventId -> {"none", "processed", "ignored"}]
    /\ retries \in [EventId -> Nat]
    /\ requests \subseteq Design
    /\ proc \in [Request -> ProcState]
    /\ owner \in [Customer -> User \cup {None}]
    /\ purchase \in [Purchase -> PurchaseObject]
    /\ events \in Seq(EventObject)
    /\ deliveries \in [EventId -> Nat]

(* The ids on a user's row are those of a customer and of a subscription   *)
(* that Stripe holds for that user, though events find their row by        *)
(* metadata, by subscription or by customer (findUserIdForSubscription).   *)
OwnIds ==
    \A u \in User :
        /\ user[u].customer # None => owner[user[u].customer] = u
        /\ user[u].subscription # None =>
                owner[purchase[user[u].subscription].customer] = u

(* No event about one user's purchase changes another user's row: whatever *)
(* the order of deliveries, checkouts and deletions.                       *)
OwnEventsOnly ==
    [][\A u \in User, i \in EventId :
        inbox'[i] # inbox[i] /\ user'[u] # user[u]
            => owner[events[i].customer] = u]_vars

Ledger == INSTANCE BillingLedger WITH
    Event <- EventId,
    tier <- [u \in User |-> user[u].tier],
    handled <- {i \in EventId : inbox[i] # "none"}

(* The webhook handler implements the ledger: however often and in         *)
(* whatever order Stripe sends its events, each takes effect once, with    *)
(* its inbox row, on one account.                                          *)
LedgerSpec == Ledger!Spec

(* Once Stripe is quiet, a user is on the paid tier exactly if Stripe      *)
(* bills him for it: for events that arrive in order, users who hold one   *)
(* subscription at a time, and accounts that stay open.                    *)
TierSettles ==
    \A u \in User :
        <>[](~user[u].closed =>
                (user[u].tier = "pro" <=>
                 \E s \in Sub : /\ GrantedTier(purchase[s]) = "pro"
                                /\ owner[purchase[s].customer] = u))

(* docs/planning/production-saas-layer-plan.md:194, "Store every webhook   *)
(* with ... status, and retry count".                                      *)
EveryDeliveryIsStored ==
    \A i \in EventId :
        deliveries[i] > 0 =>
            inbox[i] # "none" /\ retries[i] = deliveries[i] - 1

=============================================================================
