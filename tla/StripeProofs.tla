---------------------------- MODULE StripeProofs ----------------------------
(***************************************************************************)
(* Proofs about StripeBilling, for any constants: its rows and Stripe's    *)
(* objects are well typed, the Stripe ids on a row belong to its user, no  *)
(* event changes another user's row, and the webhook handler implements    *)
(* BillingLedger.                                                          *)
(***************************************************************************)
EXTENDS StripeBilling, SequenceTheorems, TLAPS

\* What Stripe's objects say of each other, once created.
PurchaseOwned ==
    \A s \in Purchase : purchase[s].status # "none" =>
        /\ purchase[s].customer \in Customer
        /\ owner[purchase[s].customer] \in User
        /\ purchase[s].user # None =>
                owner[purchase[s].customer] = purchase[s].user
        /\ s \in Design => purchase[s].user # None

ProcOwned ==
    \A r \in Request : proc[r].pc \in {"write", "open"} =>
        owner[proc[r].customer] = proc[r].user

\* The object an event is about still has the event's customer and user, and
\* an event about a design says that it was paid.
About(e) ==
    e.type # "other" =>
        /\ purchase[e.about].status # "none"
        /\ e.type = "design" => purchase[e.about].status # "open"
        /\ purchase[e.about].customer = e.customer
        /\ purchase[e.about].user = e.user

EventsOwned == \A i \in 1..Len(events) : About(events[i])

RowsOwned ==
    \A u \in User :
        /\ user[u].customer # None => owner[user[u].customer] = u
        /\ user[u].subscription # None =>
            /\ purchase[user[u].subscription].status # "none"
            /\ owner[purchase[user[u].subscription].customer] = u

IInv == TypeOK /\ PurchaseOwned /\ ProcOwned /\ EventsOwned /\ RowsOwned

-----------------------------------------------------------------------------
(* What Stripe's append to its events keeps, in emit's terms.              *)
LEMMA Appended ==
    ASSUME NEW S, NEW old \in Seq(S), NEW new \in Seq(S)
    PROVE  /\ old \o new \in Seq(S)
           /\ Len(old \o new) = Len(old) + Len(new)
           /\ \A i \in 1..Len(old) : (old \o new)[i] = old[i]
           /\ \A i \in 1..Len(old \o new) \ 1..Len(old) :
                \E k \in 1..Len(new) : (old \o new)[i] = new[k]
<1>1. /\ old \o new \in Seq(S)
      /\ Len(old \o new) = Len(old) + Len(new)
      /\ \A i \in 1..Len(old) + Len(new) :
            (old \o new)[i] = IF i <= Len(old) THEN old[i]
                                               ELSE new[i - Len(old)]
  BY ConcatProperties
<1>2. Len(old) \in Nat /\ Len(new) \in Nat
  OBVIOUS
<1>3. ASSUME NEW i \in 1..Len(old \o new) \ 1..Len(old)
      PROVE  \E k \in 1..Len(new) : (old \o new)[i] = new[k]
  <2>1. i - Len(old) \in 1..Len(new) /\ ~(i <= Len(old))
    BY <1>1, <1>2
  <2> QED
    BY <1>1, <2>1
<1> QED
  BY <1>1, <1>2, <1>3

LEMMA EventsAppended ==
    ASSUME events \in Seq(EventObject), NEW new \in Seq(EventObject),
           events' = events \o new
    PROVE  /\ events' \in Seq(EventObject)
           /\ Len(events') = Len(events) + Len(new)
           /\ \A i \in 1..Len(events) : events'[i] = events[i]
           /\ \A i \in 1..Len(events') \ 1..Len(events) :
                \E k \in 1..Len(new) : events'[i] = new[k]
BY Appended

\* The event about a purchase that Stripe knows is well typed and describes it.
LEMMA EventForType ==
    ASSUME NEW s \in Purchase, NEW object \in PurchaseObject,
           NEW type \in {"checkout", "changed", "design"},
           object.customer \in Customer,
           type = "design" <=> s \in Design,
           s \in Design => object.user \in User
    PROVE  EventFor(type, s, object) \in EventObject
<1>1. GrantedTier(object) \in Tier
  BY DEF GrantedTier, PurchaseObject, Tier
<1>2. object.user \in User \cup {None} /\ (object.status = "canceled") \in BOOLEAN
  BY DEF PurchaseObject
<1>3. CASE type = "design"
  BY <1>1, <1>2, <1>3 DEF EventFor, EventObject
<1>4. CASE type # "design"
  <2>1. s \in Sub
    BY <1>4 DEF Purchase
  <2> QED
    BY <1>1, <1>2, <1>4, <2>1 DEF EventFor, EventObject
<1> QED
  BY <1>3, <1>4

\* An event finds the user its customer was created for, and no other.
LEMMA FoundIsOwner ==
    ASSUME IInv, NEW i \in 1..Len(events), events[i].type # "other",
           NEW u \in FindUser(events[i])
    PROVE  u \in User /\ owner[events[i].customer] = u
<1> DEFINE e == events[i]
<1>1. /\ e \in EventObject
      /\ purchase[e.about].status # "none"
      /\ purchase[e.about].customer = e.customer
      /\ purchase[e.about].user = e.user
  BY DEF IInv, TypeOK, EventsOwned, About
<1>2. e.about \in Purchase /\ e.about # None
  BY <1>1, DistinctAssumption DEF EventObject, Purchase
<1>3. /\ e.customer \in Customer /\ e.customer # None
      /\ e.user # None => owner[e.customer] = e.user
  BY <1>1, <1>2, DistinctAssumption DEF IInv, PurchaseOwned
<1>4. CASE e.user # None
  BY <1>1, <1>3, <1>4, DistinctAssumption DEF FindUser, EventObject
<1>5. CASE e.user = None /\ user[u].subscription = e.about /\ u \in User
  BY <1>1, <1>2, <1>5 DEF IInv, RowsOwned
<1>6. CASE e.user = None /\ user[u].customer = e.customer /\ u \in User
  BY <1>3, <1>6 DEF IInv, RowsOwned
<1> QED
  BY <1>4, <1>5, <1>6 DEF FindUser

LEMMA InitInv == Init => IInv
<1> SUFFICES ASSUME Init PROVE IInv
  OBVIOUS
<1>1. user \in [User -> UserRow]
  BY DEF Init, UserRow, Tier
<1>2. purchase \in [Purchase -> PurchaseObject]
  BY DEF Init, PurchaseObject, Tier
<1>3. proc \in [Request -> ProcState] /\ ProcOwned
  BY DEF Init, Idle, ProcState, ProcOwned
<1>4. events = <<>> /\ events \in Seq(EventObject) /\ EventsOwned
  BY DEF Init, EventsOwned
<1>5. PurchaseOwned /\ RowsOwned
  BY DEF Init, PurchaseOwned, RowsOwned
<1>6. inbox \in [EventId -> {"none", "processed", "ignored"}]
      /\ retries \in [EventId -> Nat] /\ deliveries \in [EventId -> Nat]
      /\ requests \subseteq Design /\ owner \in [Customer -> User \cup {None}]
  BY DEF Init
<1> QED
  BY <1>1, <1>2, <1>3, <1>4, <1>5, <1>6 DEF IInv, TypeOK

-----------------------------------------------------------------------------
(* A purchase that Stripe creates or changes, with the events it makes.    *)
LEMMA PurchaseStep ==
    ASSUME IInv,
           NEW s \in Purchase, NEW object \in PurchaseObject,
           NEW new \in Seq(EventObject),
           object.status # "none", object.customer \in Customer,
           owner[object.customer] \in User,
           object.user # None => owner[object.customer] = object.user,
           s \in Design => object.user # None,
           \/ purchase[s].status = "none"
           \/ /\ purchase[s].customer = object.customer
              /\ purchase[s].user = object.user
              /\ object.status # "open",
           \A k \in 1..Len(new) :
                /\ new[k].type # "other" => new[k].about = s
                /\ new[k].customer = object.customer
                /\ new[k].user = object.user
                /\ object.status # "open",
           purchase' = [purchase EXCEPT ![s] = object],
           events' = events \o new,
           proc' \in [Request -> ProcState], ProcOwned',
           UNCHANGED <<appVars, owner, deliveries>>
    PROVE  IInv'
<1> USE DEF IInv
<1>1. purchase' \in [Purchase -> PurchaseObject]
  BY DEF TypeOK
<1>2. /\ purchase'[s] = object
      /\ \A t \in Purchase \ {s} : purchase'[t] = purchase[t]
  BY DEF TypeOK
<1>3. /\ events' \in Seq(EventObject)
      /\ \A i \in 1..Len(events) : events'[i] = events[i]
      /\ \A i \in 1..Len(events') \ 1..Len(events) :
            \E k \in 1..Len(new) : events'[i] = new[k]
  BY EventsAppended DEF TypeOK
<1>4. TypeOK'
  BY <1>1, <1>3 DEF TypeOK, appVars
<1>5. PurchaseOwned'
  BY <1>2 DEF PurchaseOwned
<1>6. ASSUME NEW i \in 1..Len(events') PROVE About(events[i])'
  <2>1. CASE i \in 1..Len(events)
    <3>1. events'[i] = events[i] /\ About(events[i]) /\ events[i] \in EventObject
      BY <1>3, <2>1 DEF EventsOwned, TypeOK
    <3>2. CASE events[i].type # "other" /\ events[i].about = s
      BY <1>2, <3>1, <3>2 DEF About
    <3>3. CASE events[i].type # "other" /\ events[i].about # s
      <4>1. events[i].about \in Purchase
        BY <3>1, <3>3 DEF EventObject, Purchase
      <4> QED
        BY <1>2, <3>1, <3>3, <4>1 DEF About
    <3> QED
      BY <3>1, <3>2, <3>3 DEF About
  <2>2. CASE i \notin 1..Len(events)
    <3>1. PICK k \in 1..Len(new) : events'[i] = new[k]
      BY <1>3, <2>2
    <3> QED
      BY <1>2, <3>1 DEF About
  <2> QED
    BY <2>1, <2>2
<1>7. EventsOwned'
  BY <1>6 DEF EventsOwned
<1>8. RowsOwned'
  <2> SUFFICES ASSUME NEW u \in User
               PROVE  /\ user[u].customer # None =>
                            owner[user[u].customer] = u
                      /\ user[u].subscription # None =>
                            /\ purchase'[user[u].subscription].status # "none"
                            /\ owner[purchase'[user[u].subscription].customer] = u
    BY DEF RowsOwned, appVars
  <2>1. user[u].subscription # None => user[u].subscription \in Purchase
    BY DEF TypeOK, UserRow, Purchase
  <2> QED
    BY <1>2, <2>1 DEF RowsOwned
<1> QED
  BY <1>4, <1>5, <1>7, <1>8

(* A step of the service that leaves Stripe as it is.                      *)
LEMMA AppStep ==
    ASSUME IInv, TypeOK', ProcOwned', RowsOwned', UNCHANGED stripeVars
    PROVE  IInv'
<1>1. PurchaseOwned'
  BY DEF IInv, PurchaseOwned, stripeVars
<1>2. EventsOwned'
  BY DEF IInv, EventsOwned, About, stripeVars
<1> QED
  BY <1>1, <1>2 DEF IInv

LEMMA CheckoutStep ==
    ASSUME IInv, CheckoutNext
    PROVE  IInv'
<1>1. ASSUME NEW r \in Request, NEW u \in User, StartCheckout(r, u)
      PROVE  IInv'
  <2>1. user[u] \in UserRow
    BY DEF IInv, TypeOK
  <2>2. proc' \in [Request -> ProcState]
    BY <1>1, <2>1 DEF IInv, TypeOK, StartCheckout, ProcState, UserRow
  <2>3. TypeOK'
    BY <1>1, <2>2 DEF IInv, TypeOK, StartCheckout, appVars, stripeVars
  <2>4. ProcOwned'
    BY <1>1, <2>1, DistinctAssumption
       DEF IInv, TypeOK, StartCheckout, ProcOwned, RowsOwned, UserRow, stripeVars
  <2>5. RowsOwned'
    BY <1>1 DEF IInv, StartCheckout, RowsOwned, appVars, stripeVars
  <2> QED
    BY <1>1, <2>3, <2>4, <2>5, AppStep DEF StartCheckout
<1>2. ASSUME NEW r \in Request, NEW c \in Customer, CreateCustomer(r, c)
      PROVE  IInv'
  <2>1. proc[r].user \in User /\ proc[r] \in ProcState
    BY <1>2 DEF IInv, TypeOK, CreateCustomer, ProcState
  <2>2. /\ owner' \in [Customer -> User \cup {None}]
        /\ owner'[c] = proc[r].user
        /\ \A d \in Customer \ {c} : owner'[d] = owner[d]
        /\ \A d \in Customer : owner[d] \in User => owner'[d] = owner[d]
    BY <1>2, <2>1, DistinctAssumption DEF IInv, TypeOK, CreateCustomer
  <2>3. proc' \in [Request -> ProcState]
    BY <1>2, <2>1 DEF IInv, TypeOK, CreateCustomer, ProcState
  <2>4. TypeOK'
    BY <1>2, <2>2, <2>3 DEF IInv, TypeOK, CreateCustomer, appVars
  <2>5. PurchaseOwned'
    BY <1>2, <2>2 DEF IInv, PurchaseOwned, CreateCustomer
  <2>6. ProcOwned'
    <3> SUFFICES ASSUME NEW q \in Request, proc'[q].pc \in {"write", "open"}
                 PROVE  owner'[proc'[q].customer] = proc'[q].user
      BY DEF ProcOwned
    <3>1. CASE q = r
      BY <1>2, <2>2, <3>1 DEF IInv, TypeOK, CreateCustomer
    <3>2. CASE q # r
      <4>1. /\ proc'[q] = proc[q] /\ proc[q].customer \in Customer
            /\ proc[q].user \in User
        BY <1>2, <3>2 DEF IInv, TypeOK, CreateCustomer, ProcState
      <4> QED
        BY <2>2, <4>1 DEF IInv, ProcOwned
    <3> QED
      BY <3>1, <3>2
  <2>7. EventsOwned'
    BY <1>2 DEF IInv, EventsOwned, About, CreateCustomer
  <2>8. RowsOwned'
    <3> SUFFICES ASSUME NEW u \in User
                 PROVE  /\ user[u].customer # None =>
                              owner'[user[u].customer] = u
                        /\ user[u].subscription # None =>
                            /\ purchase[user[u].subscription].status # "none"
                            /\ owner'[purchase[user[u].subscription].customer] = u
      BY <1>2 DEF RowsOwned, CreateCustomer, appVars
    <3>1. /\ user[u].customer # None => user[u].customer \in Customer
          /\ user[u].subscription # None => user[u].subscription \in Purchase
      BY DEF IInv, TypeOK, UserRow, Purchase
    <3> QED
      BY <2>2, <3>1 DEF IInv, RowsOwned, PurchaseOwned
  <2> QED
    BY <2>4, <2>5, <2>6, <2>7, <2>8 DEF IInv
<1>3. ASSUME NEW r \in Request, WriteCustomer(r)
      PROVE  IInv'
  <2> DEFINE u == proc[r].user
             row == [user[u] EXCEPT !.customer = proc[r].customer]
  <2>1. u \in User /\ proc[r].customer \in Customer
    BY <1>3 DEF IInv, TypeOK, WriteCustomer, ProcState
  <2>2. user[u] \in UserRow /\ row \in UserRow
    BY <2>1 DEF IInv, TypeOK, UserRow
  <2>3. user' = [user EXCEPT ![u] = row] /\ user' \in [User -> UserRow]
    BY <1>3, <2>1, <2>2 DEF IInv, TypeOK, WriteCustomer
  <2>4. /\ proc' \in [Request -> ProcState]
        /\ ProcOwned'
    BY <1>3, <2>1 DEF IInv, TypeOK, WriteCustomer, ProcState, ProcOwned, stripeVars
  <2>5. TypeOK'
    BY <1>3, <2>3, <2>4 DEF IInv, TypeOK, WriteCustomer, stripeVars
  <2>6. owner[proc[r].customer] = u
    BY <1>3 DEF IInv, ProcOwned, WriteCustomer
  <2>7. RowsOwned'
    <3> SUFFICES ASSUME NEW v \in User
                 PROVE  /\ user'[v].customer # None =>
                              owner[user'[v].customer] = v
                        /\ user'[v].subscription # None =>
                            /\ purchase[user'[v].subscription].status # "none"
                            /\ owner[purchase[user'[v].subscription].customer] = v
      BY <1>3 DEF RowsOwned, WriteCustomer, stripeVars
    <3>1. /\ \/ user'[v].customer = user[v].customer
             \/ v = u /\ user'[v].customer = proc[r].customer
          /\ user'[v].subscription = user[v].subscription
      BY <2>2, <2>3 DEF IInv, TypeOK, UserRow
    <3> QED
      BY <2>6, <3>1 DEF IInv, RowsOwned
  <2> QED
    BY <1>3, <2>4, <2>5, <2>7, AppStep DEF WriteCustomer
<1>4. ASSUME NEW r \in Request, GiveUp(r)
      PROVE  IInv'
  <2>1. proc' \in [Request -> ProcState]
    BY <1>4 DEF IInv, TypeOK, GiveUp, ProcState, Idle
  <2>2. TypeOK'
    BY <1>4, <2>1 DEF IInv, TypeOK, GiveUp, appVars, stripeVars
  <2>3. ProcOwned' /\ RowsOwned'
    BY <1>4 DEF IInv, TypeOK, ProcOwned, RowsOwned, GiveUp, Idle, appVars, stripeVars
  <2> QED
    BY <1>4, <2>2, <2>3, AppStep DEF GiveUp
<1>5. ASSUME NEW r \in Request, NEW s \in Purchase, OpenSession(r, s)
      PROVE  IInv'
  <2> DEFINE object == [status |-> "open", paused |-> FALSE,
                        customer |-> proc[r].customer, user |-> proc[r].user,
                        plan |-> "pro"]
  <2>1. /\ proc[r].user \in User /\ proc[r].customer \in Customer
        /\ owner[proc[r].customer] = proc[r].user
    BY <1>5 DEF IInv, TypeOK, OpenSession, ProcState, ProcOwned
  <2>2. object \in PurchaseObject
    BY <2>1 DEF PurchaseObject, Tier
  <2>3. proc' \in [Request -> ProcState] /\ ProcOwned'
    BY <1>5 DEF IInv, TypeOK, OpenSession, ProcState, ProcOwned, Idle
  <2>4. events' = events \o <<>> /\ <<>> \in Seq(EventObject) /\ Len(<<>>) = 0
    BY <1>5 DEF IInv, TypeOK, OpenSession
  <2>5. \A k \in 1..Len(<<>>) : FALSE
    BY <2>4
  <2> HIDE DEF object
  <2>6. /\ object.status = "open" /\ object.customer = proc[r].customer
        /\ object.user = proc[r].user /\ object.user # None
    BY <2>1, DistinctAssumption DEF object
  <2>7. purchase' = [purchase EXCEPT ![s] = object] /\ purchase[s].status = "none"
        /\ UNCHANGED <<appVars, owner, deliveries>>
    BY <1>5 DEF OpenSession, object
  <2> QED
    BY <2>1, <2>2, <2>3, <2>4, <2>5, <2>6, <2>7, PurchaseStep
<1> QED
  BY <1>1, <1>2, <1>3, <1>4, <1>5 DEF CheckoutNext

LEMMA StripeStep ==
    ASSUME IInv, StripeNext
    PROVE  IInv'
<1>1. ASSUME NEW s \in Purchase, Pay(s)
      PROVE  IInv'
  <2> DEFINE paid == [purchase[s] EXCEPT !.status = "active"]
             new == IF s \in Sub
                    THEN <<EventFor("changed", s, paid), EventFor("checkout", s, paid)>>
                    ELSE <<EventFor("design", s, paid)>>
  <2>1. purchase[s] \in PurchaseObject /\ purchase[s].status = "open"
    BY <1>1 DEF IInv, TypeOK, Pay
  <2>2. /\ paid \in PurchaseObject
        /\ paid.status = "active"
        /\ paid.customer = purchase[s].customer
        /\ paid.user = purchase[s].user
    BY <2>1 DEF PurchaseObject, SubStatus, Paid
  <2>3. /\ purchase' = [purchase EXCEPT ![s] = paid]
        /\ events' = events \o new
        /\ UNCHANGED <<appVars, proc, owner, deliveries>>
    BY <1>1 DEF Pay, Emit
  <2> HIDE DEF paid
  <2>4. /\ purchase[s].customer \in Customer
        /\ owner[purchase[s].customer] \in User
        /\ purchase[s].user # None =>
                owner[purchase[s].customer] = purchase[s].user
        /\ s \in Design => purchase[s].user # None
        /\ s \in Design => purchase[s].user \in User
    BY <2>1 DEF IInv, PurchaseOwned, PurchaseObject
  <2>5. /\ s \in Sub => /\ EventFor("changed", s, paid) \in EventObject
                        /\ EventFor("checkout", s, paid) \in EventObject
        /\ s \notin Sub => EventFor("design", s, paid) \in EventObject
    <3>1. s \in Sub <=> s \notin Design
      BY DistinctAssumption DEF Purchase
    <3> QED
      BY <2>2, <2>4, <3>1, EventForType
  <2>6. /\ new \in Seq(EventObject)
        /\ \A k \in 1..Len(new) : \E type \in {"changed", "checkout", "design"} :
                new[k] = EventFor(type, s, paid)
    <3>1. CASE s \in Sub
      <4> DEFINE a == EventFor("changed", s, paid)
                 b == EventFor("checkout", s, paid)
      <4>1. new = <<a, b>> /\ a \in EventObject /\ b \in EventObject
        BY <2>5, <3>1
      <4> HIDE DEF new
      <4>2. /\ \E type \in {"changed", "checkout", "design"} :
                    a = EventFor(type, s, paid)
            /\ \E type \in {"changed", "checkout", "design"} :
                    b = EventFor(type, s, paid)
        OBVIOUS
      <4> HIDE DEF a, b
      <4>3. /\ new \in Seq(EventObject)
            /\ \A k \in 1..Len(new) : new[k] = a \/ new[k] = b
        BY <4>1
      <4> QED
        BY <4>2, <4>3
    <3>2. CASE s \notin Sub
      <4> DEFINE a == EventFor("design", s, paid)
      <4>1. new = <<a>> /\ a \in EventObject
        BY <2>5, <3>2
      <4> HIDE DEF new
      <4>2. \E type \in {"changed", "checkout", "design"} :
                    a = EventFor(type, s, paid)
        OBVIOUS
      <4> HIDE DEF a
      <4>3. new \in Seq(EventObject) /\ \A k \in 1..Len(new) : new[k] = a
        BY <4>1
      <4> QED
        BY <4>2, <4>3
    <3> QED
      BY <3>1, <3>2
  <2> HIDE DEF new
  <2>7. \A k \in 1..Len(new) : /\ new[k].about = s
                               /\ new[k].customer = paid.customer
                               /\ new[k].user = paid.user
                               /\ paid.status # "open"
    BY <2>2, <2>6 DEF EventFor
  <2>8. proc' \in [Request -> ProcState] /\ ProcOwned'
    BY <2>3 DEF IInv, TypeOK, ProcOwned
  <2> QED
    BY <2>2, <2>3, <2>4, <2>6, <2>7, <2>8, PurchaseStep
<1>2. ASSUME NEW s \in Sub, NEW object \in PurchaseObject,
             object.status \in SubStatus, object.customer \in Customer,
             owner[object.customer] \in User,
             object.user # None => owner[object.customer] = object.user,
             \/ purchase[s].status = "none"
             \/ /\ purchase[s].customer = object.customer
                /\ purchase[s].user = object.user,
             purchase' = [purchase EXCEPT ![s] = object],
             Emit(<<EventFor("changed", s, object)>>),
             UNCHANGED <<appVars, proc, owner, deliveries>>
      PROVE  IInv'
  <2> DEFINE e == EventFor("changed", s, object)
             new == <<e>>
  <2>1. s \in Purchase /\ s \notin Design
    BY DistinctAssumption DEF Purchase
  <2>2. e \in EventObject
    BY <1>2, <2>1, EventForType
  <2>3. e.about = s /\ e.customer = object.customer /\ e.user = object.user
    BY DEF EventFor
  <2>4. object.status # "open" /\ object.status # "none"
    BY <1>2 DEF SubStatus, Paid
  <2>5. events' = events \o new
    BY <1>2 DEF Emit
  <2> HIDE DEF e
  <2>6. /\ new \in Seq(EventObject)
        /\ \A k \in 1..Len(new) : new[k] = e
    BY <2>2
  <2>7. proc' \in [Request -> ProcState] /\ ProcOwned'
    BY <1>2 DEF IInv, TypeOK, ProcOwned
  <2> HIDE DEF new
  <2> QED
    BY <1>2, <2>1, <2>3, <2>4, <2>5, <2>6, <2>7, PurchaseStep
<1>3. ASSUME NEW s \in Sub, NEW c \in Customer, NEW plan \in Tier,
             DashboardSubscribe(s, c, plan)
      PROVE  IInv'
  <2> DEFINE object == [status |-> "active", paused |-> FALSE, customer |-> c,
                        user |-> None, plan |-> plan]
  <2>1. object \in PurchaseObject /\ object.status \in SubStatus
    BY DEF PurchaseObject, SubStatus, Paid
  <2>2. object.customer = c /\ object.user = None /\ owner[c] \in User
    BY <1>3 DEF IInv, TypeOK, DashboardSubscribe
  <2>3. /\ purchase[s].status = "none"
        /\ purchase' = [purchase EXCEPT ![s] = object]
        /\ Emit(<<EventFor("changed", s, object)>>)
        /\ UNCHANGED <<appVars, proc, owner, deliveries>>
    BY <1>3 DEF DashboardSubscribe
  <2> HIDE DEF object
  <2> QED
    BY <1>2, <2>1, <2>2, <2>3
<1>4. ASSUME NEW s \in Sub, NEW status \in SubStatus, NEW paused \in BOOLEAN,
             Change(s, status, paused)
      PROVE  IInv'
  <2> DEFINE object == [purchase[s] EXCEPT !.status = status, !.paused = paused]
  <2>1. purchase[s] \in PurchaseObject /\ purchase[s].status # "none"
    BY <1>4 DEF IInv, TypeOK, Change, Live, Purchase, SubStatus, Paid
  <2>2. /\ object \in PurchaseObject /\ object.status \in SubStatus
        /\ object.customer = purchase[s].customer
        /\ object.user = purchase[s].user
    BY <2>1 DEF PurchaseObject
  <2>3. /\ purchase' = [purchase EXCEPT ![s] = object]
        /\ Emit(<<EventFor("changed", s, object)>>)
        /\ UNCHANGED <<appVars, proc, owner, deliveries>>
    BY <1>4 DEF Change
  <2>4. /\ purchase[s].customer \in Customer
        /\ owner[purchase[s].customer] \in User
        /\ purchase[s].user # None =>
                owner[purchase[s].customer] = purchase[s].user
    BY <2>1 DEF IInv, PurchaseOwned, Purchase
  <2> HIDE DEF object
  <2> QED
    BY <1>2, <2>2, <2>3, <2>4
<1>5. CASE Other
  <2>1. OtherEvent \in EventObject /\ OtherEvent.type = "other"
    BY DEF OtherEvent, EventObject, Tier
  <2> DEFINE new == <<OtherEvent>>
  <2>2. events' = events \o new
    BY <1>5 DEF Other, Emit
  <2>3. new \in Seq(EventObject) /\ \A k \in 1..Len(new) : new[k].type = "other"
    BY <2>1
  <2> HIDE DEF new
  <2>4. /\ events' \in Seq(EventObject)
        /\ \A i \in 1..Len(events) : events'[i] = events[i]
        /\ \A i \in 1..Len(events') \ 1..Len(events) :
              \E k \in 1..Len(new) : events'[i] = new[k]
    BY <2>2, <2>3, EventsAppended DEF IInv, TypeOK
  <2>5. ASSUME NEW i \in 1..Len(events') PROVE About(events[i])'
    <3>1. \/ events'[i].type = "other"
          \/ i \in 1..Len(events) /\ events'[i] = events[i]
      BY <2>3, <2>4
    <3> QED
      BY <1>5, <3>1 DEF IInv, EventsOwned, About, Other
  <2>6. TypeOK'
    BY <1>5, <2>4 DEF IInv, TypeOK, Other, appVars
  <2>7. PurchaseOwned' /\ ProcOwned' /\ RowsOwned'
    BY <1>5 DEF IInv, PurchaseOwned, ProcOwned, RowsOwned, Other, appVars
  <2> QED
    BY <2>5, <2>6, <2>7 DEF IInv, EventsOwned
<1> QED
  BY <1>1, <1>3, <1>4, <1>5 DEF StripeNext

\* The row an event leaves is well typed and carries ids of its user.
LEMMA UpdatedRow ==
    ASSUME IInv, NEW i \in 1..Len(events),
           events[i].type \in {"checkout", "changed"},
           NEW u \in FindUser(events[i])
    PROVE  LET row == BillingUpdate(user[u], events[i]) IN
           /\ u \in User /\ row \in UserRow
           /\ owner[row.customer] = u
           /\ row.subscription # None =>
                /\ purchase[row.subscription].status # "none"
                /\ owner[purchase[row.subscription].customer] = u
<1> DEFINE e == events[i]
           row == BillingUpdate(user[u], e)
<1>1. u \in User /\ owner[e.customer] = u
  BY FoundIsOwner
<1>2. /\ e \in EventObject /\ e.about \in Sub /\ e.customer \in Customer
      /\ purchase[e.about].status # "none"
      /\ purchase[e.about].customer = e.customer
  <2>1. e \in EventObject /\ About(e)
    BY DEF IInv, TypeOK, EventsOwned
  <2> QED
    BY <2>1 DEF EventObject, About
<1>3. user[u] \in UserRow /\ e.grants \in Tier
  BY <1>1, <1>2 DEF IInv, TypeOK, EventObject
<1>4. row \in UserRow
  BY <1>2, <1>3 DEF BillingUpdate, UserRow, Tier
<1>5. row.customer = e.customer /\ row.subscription \in {e.about, None}
  BY <1>2, <1>3 DEF BillingUpdate, UserRow
<1> QED
  BY <1>1, <1>2, <1>4, <1>5

LEMMA DeliverStep ==
    ASSUME IInv, NEW i \in EventId, Deliver(i)
    PROVE  IInv'
<1>1. /\ i \in 1..Len(events)
      /\ deliveries' \in [EventId -> Nat]
      /\ UNCHANGED <<proc, stripeVars>>
  BY BoundAssumption
     DEF Deliver, UpdateUser, RecordDesign, Ignore, Fail, Redeliver, Sent,
         IInv, TypeOK, EventId
<1>2. inbox' \in [EventId -> {"none", "processed", "ignored"}]
  BY DEF Deliver, UpdateUser, RecordDesign, Ignore, Fail, Redeliver, Mark,
         IInv, TypeOK, appVars
<1>3. requests' \subseteq Design
  <2>1. events[i] \in EventObject
    BY <1>1 DEF IInv, TypeOK
  <2> QED
    BY <2>1 DEF Deliver, UpdateUser, RecordDesign, Ignore, Fail, Redeliver,
                IInv, TypeOK, appVars, EventObject
<1>4. user' \in [User -> UserRow] /\ RowsOwned'
  <2>1. CASE UpdateUser(i)
    <3>1. PICK u \in FindUser(events[i]) :
            user' = [user EXCEPT ![u] = BillingUpdate(user[u], events[i])]
      BY <2>1 DEF UpdateUser
    <3> DEFINE row == BillingUpdate(user[u], events[i])
    <3>2. /\ u \in User /\ row \in UserRow
          /\ owner[row.customer] = u
          /\ row.subscription # None =>
                /\ purchase[row.subscription].status # "none"
                /\ owner[purchase[row.subscription].customer] = u
      BY <1>1, <2>1, UpdatedRow DEF UpdateUser
    <3> HIDE DEF row
    <3>3. user' = [user EXCEPT ![u] = row]
      BY <3>1 DEF row
    <3> QED
      BY <1>1, <3>2, <3>3 DEF IInv, TypeOK, RowsOwned, stripeVars
  <2>2. CASE UNCHANGED user
    BY <1>1, <2>2 DEF IInv, TypeOK, RowsOwned, stripeVars
  <2> QED
    BY <2>1, <2>2 DEF Deliver, RecordDesign, Ignore, Fail, Redeliver, appVars
<1>5. retries' \in [EventId -> Nat]
  BY DEF Deliver, UpdateUser, RecordDesign, Ignore, Fail, Redeliver,
         IInv, TypeOK, appVars
<1>6. TypeOK'
  BY <1>1, <1>2, <1>3, <1>4, <1>5 DEF IInv, TypeOK, stripeVars
<1>7. ProcOwned'
  BY <1>1 DEF IInv, ProcOwned, stripeVars
<1> QED
  BY <1>1, <1>4, <1>6, <1>7, AppStep

LEMMA CloseStep ==
    ASSUME IInv, NEW u \in User, CloseAccount(u)
    PROVE  IInv'
<1>1. user' \in [User -> UserRow] /\ RowsOwned'
  BY DEF CloseAccount, IInv, TypeOK, UserRow, Tier, RowsOwned, stripeVars
<1>2. TypeOK' /\ ProcOwned'
  BY <1>1 DEF CloseAccount, IInv, TypeOK, ProcOwned, stripeVars
<1> QED
  BY <1>1, <1>2, AppStep DEF CloseAccount

LEMMA NextInv == IInv /\ [Next]_vars => IInv'
<1> SUFFICES ASSUME IInv, [Next]_vars PROVE IInv'
  OBVIOUS
<1>1. CASE Next
  BY <1>1, CheckoutStep, StripeStep, DeliverStep, CloseStep DEF Next
<1>2. CASE UNCHANGED vars
  BY <1>2 DEF vars, appVars, stripeVars, IInv, TypeOK, PurchaseOwned, ProcOwned,
              EventsOwned, About, RowsOwned
<1> QED
  BY <1>1, <1>2

LEMMA Invariant == Spec => []IInv
<1> QED
  BY InitInv, NextInv, PTL DEF Spec

-----------------------------------------------------------------------------
(* Every reachable state is well typed: the rows, the inbox (no event is   *)
(* ever stored as failed), and Stripe's objects.                           *)
THEOREM TypeCorrect == Spec => []TypeOK
<1> QED
  BY Invariant, PTL DEF IInv

(* The Stripe ids on a row are those of a customer and of a subscription   *)
(* Stripe holds for that user.                                             *)
THEOREM IdsAreOwn == Spec => []OwnIds
<1>1. IInv => OwnIds
  BY DEF IInv, RowsOwned, OwnIds
<1> QED
  BY <1>1, Invariant, PTL

(* An event is handled on the row of the user it is about, and no other    *)
(* row changes with it.                                                    *)
THEOREM EventsAreOwn == Spec => OwnEventsOnly
<1>1. IInv /\ [Next]_vars =>
        [\A u \in User, i \in EventId :
            inbox'[i] # inbox[i] /\ user'[u] # user[u]
                => owner[events[i].customer] = u]_vars
  <2> SUFFICES ASSUME IInv, Next, NEW u \in User, NEW i \in EventId,
                      inbox'[i] # inbox[i], user'[u] # user[u]
               PROVE  owner[events[i].customer] = u
    OBVIOUS
  <2>1. PICK j \in EventId : Deliver(j)
    BY DEF Next, CheckoutNext, StartCheckout, CreateCustomer, WriteCustomer,
           OpenSession, GiveUp, StripeNext, Pay, DashboardSubscribe, Change,
           Other, CloseAccount, appVars
  <2>2. UpdateUser(j)
    BY <2>1 DEF Deliver, RecordDesign, Ignore, Fail, Redeliver, appVars
  <2>3. i = j
    BY <2>2 DEF UpdateUser, Mark, IInv, TypeOK
  <2>4. PICK v \in FindUser(events[j]) :
            user' = [user EXCEPT ![v] = BillingUpdate(user[v], events[j])]
    BY <2>2 DEF UpdateUser
  <2>5. u = v
    BY <2>4 DEF IInv, TypeOK
  <2>6. j \in 1..Len(events) /\ events[j].type # "other"
    BY <2>2, BoundAssumption DEF UpdateUser, Sent, EventId, IInv, TypeOK
  <2> QED
    BY <2>3, <2>4, <2>5, <2>6, FoundIsOwner
<1> QED
  BY <1>1, Invariant, PTL DEF Spec, OwnEventsOnly

-----------------------------------------------------------------------------
\* Stripe makes one event about the purchase of a design, and a design on
\* record is one whose event was handled.
DesignsOnce ==
    \A i, j \in 1..Len(events) :
        events[i].type = "design" /\ events[j].type = "design"
            /\ events[i].about = events[j].about
        => i = j

Recorded ==
    \A d \in requests : \E i \in 1..Len(events) :
        i \in EventId /\ inbox[i] # "none"
            /\ events[i].type = "design" /\ events[i].about = d

DInv == DesignsOnce /\ Recorded

\* Appending events about one purchase keeps both, if a design among them is
\* alone and no earlier event is about it.
LEMMA DesignsAppended ==
    ASSUME IInv, DInv, NEW new \in Seq(EventObject), events' = events \o new,
           \A k \in 1..Len(new) : new[k].type = "design" =>
                /\ Len(new) = 1
                /\ purchase[new[k].about].status = "open",
           UNCHANGED appVars
    PROVE  DInv'
<1>1. /\ events' \in Seq(EventObject)
      /\ Len(events') = Len(events) + Len(new)
      /\ \A i \in 1..Len(events) : events'[i] = events[i]
      /\ \A i \in 1..Len(events') \ 1..Len(events) :
            \E k \in 1..Len(new) : events'[i] = new[k]
  <2>1. events \in Seq(EventObject)
    BY DEF IInv, TypeOK
  <2> QED
    BY <2>1, EventsAppended
<1>2. Len(events) \in Nat /\ Len(new) \in Nat
  BY DEF IInv, TypeOK
<1>3. Recorded'
  BY <1>1, <1>2 DEF DInv, Recorded, appVars
<1>4. ASSUME NEW i \in 1..Len(events), NEW j \in 1..Len(events') \ 1..Len(events),
             events'[i].type = "design", events'[j].type = "design",
             events'[i].about = events'[j].about
      PROVE  FALSE
  <2>1. PICK k \in 1..Len(new) : events'[j] = new[k]
    BY <1>1
  <2>2. purchase[events[i].about].status # "open"
    BY <1>1, <1>4 DEF IInv, EventsOwned, About
  <2> QED
    BY <1>1, <1>4, <2>1, <2>2
<1>5. ASSUME NEW i \in 1..Len(events') \ 1..Len(events),
             NEW j \in 1..Len(events') \ 1..Len(events),
             events'[i].type = "design"
      PROVE  i = j
  <2>1. PICK k \in 1..Len(new) : events'[i] = new[k]
    BY <1>1
  <2>2. Len(new) = 1
    BY <1>5, <2>1
  <2> QED
    BY <1>1, <1>2, <2>2
<1>6. DesignsOnce'
  BY <1>1, <1>4, <1>5 DEF DInv, DesignsOnce
<1> QED
  BY <1>3, <1>6 DEF DInv

LEMMA DesignsEmitted ==
    ASSUME IInv, DInv, StripeNext
    PROVE  DInv'
<1>1. ASSUME NEW s \in Purchase, Pay(s)
      PROVE  DInv'
  <2> DEFINE paid == [purchase[s] EXCEPT !.status = "active"]
             a == EventFor("changed", s, paid)
             b == EventFor("checkout", s, paid)
             c == EventFor("design", s, paid)
  <2>1. /\ IInv' /\ UNCHANGED appVars /\ purchase[s].status = "open"
        /\ events' = events \o (IF s \in Sub THEN <<a, b>> ELSE <<c>>)
    BY <1>1, StripeStep DEF Pay, Emit
  <2>2. /\ a.type = "changed" /\ b.type = "checkout"
        /\ c.type = "design" /\ c.about = s
    BY DEF EventFor
  <2>3. /\ purchase[s] \in PurchaseObject /\ paid \in PurchaseObject
        /\ paid.customer = purchase[s].customer /\ paid.user = purchase[s].user
        /\ purchase[s].customer \in Customer
        /\ s \in Design => purchase[s].user \in User
    BY <2>1 DEF IInv, TypeOK, PurchaseOwned, PurchaseObject, SubStatus, Paid
  <2> HIDE DEF paid
  <2>4. CASE s \in Sub
    <3>1. s \notin Design
      BY <2>4, DistinctAssumption
    <3>2. a \in EventObject /\ b \in EventObject
      BY <2>3, <3>1, EventForType
    <3> DEFINE new == <<a, b>>
    <3>3. events' = events \o new
      BY <2>1, <2>4
    <3> HIDE DEF a, b
    <3>4. /\ new \in Seq(EventObject)
          /\ \A k \in 1..Len(new) : new[k] = a \/ new[k] = b
      BY <3>2
    <3> HIDE DEF new
    <3> QED
      BY <2>1, <2>2, <3>3, <3>4, DesignsAppended
  <2>5. CASE s \notin Sub
    <3>1. s \in Design
      BY <2>5 DEF Purchase
    <3>2. c \in EventObject
      BY <2>3, <3>1, EventForType
    <3> DEFINE new == <<c>>
    <3>3. events' = events \o new
      BY <2>1, <2>5
    <3> HIDE DEF c
    <3>4. /\ new \in Seq(EventObject) /\ Len(new) = 1
          /\ \A k \in 1..Len(new) : new[k] = c
      BY <3>2
    <3> HIDE DEF new
    <3> QED
      BY <2>1, <2>2, <3>3, <3>4, DesignsAppended
  <2> QED
    BY <2>4, <2>5
<1>2. ASSUME NEW e \in EventObject, e.type # "design", Emit(<<e>>),
             UNCHANGED appVars
      PROVE  DInv'
  <2> DEFINE new == <<e>>
  <2>1. events' = events \o new
    BY <1>2 DEF Emit
  <2>2. new \in Seq(EventObject) /\ \A k \in 1..Len(new) : new[k] = e
    BY <1>2
  <2> HIDE DEF new
  <2> QED
    BY <1>2, <2>1, <2>2, DesignsAppended
<1>3. ASSUME NEW s \in Sub, NEW object \in PurchaseObject,
             object.customer \in Customer
      PROVE  /\ EventFor("changed", s, object) \in EventObject
             /\ EventFor("changed", s, object).type # "design"
  <2>1. s \in Purchase /\ s \notin Design
    BY DistinctAssumption DEF Purchase
  <2>2. EventFor("changed", s, object) \in EventObject
    BY <1>3, <2>1, EventForType
  <2> QED
    BY <2>2 DEF EventFor
<1>4. ASSUME NEW s \in Sub, NEW c \in Customer, NEW plan \in Tier,
             DashboardSubscribe(s, c, plan)
      PROVE  DInv'
  <2> DEFINE object == [status |-> "active", paused |-> FALSE, customer |-> c,
                        user |-> None, plan |-> plan]
  <2>1. object \in PurchaseObject /\ object.customer \in Customer
    BY DEF PurchaseObject, SubStatus, Paid
  <2>2. Emit(<<EventFor("changed", s, object)>>) /\ UNCHANGED appVars
    BY <1>4 DEF DashboardSubscribe
  <2> HIDE DEF object
  <2> QED
    BY <1>2, <1>3, <2>1, <2>2
<1>5. ASSUME NEW s \in Sub, NEW status \in SubStatus, NEW paused \in BOOLEAN,
             Change(s, status, paused)
      PROVE  DInv'
  <2> DEFINE object == [purchase[s] EXCEPT !.status = status, !.paused = paused]
  <2>1. purchase[s] \in PurchaseObject /\ purchase[s].customer \in Customer
    BY <1>5 DEF IInv, TypeOK, PurchaseOwned, Change, Live, Purchase, SubStatus, Paid
  <2>2. object \in PurchaseObject /\ object.customer \in Customer
    BY <2>1 DEF PurchaseObject
  <2>3. Emit(<<EventFor("changed", s, object)>>) /\ UNCHANGED appVars
    BY <1>5 DEF Change
  <2> HIDE DEF object
  <2> QED
    BY <1>2, <1>3, <2>2, <2>3
<1>6. CASE Other
  <2>1. OtherEvent \in EventObject /\ OtherEvent.type # "design"
    BY DEF OtherEvent, EventObject, Tier
  <2> QED
    BY <1>2, <1>6, <2>1 DEF Other
<1> QED
  BY <1>1, <1>4, <1>5, <1>6 DEF StripeNext

LEMMA DesignsStep == IInv /\ DInv /\ [Next]_vars => DInv'
<1> SUFFICES ASSUME IInv, DInv, [Next]_vars PROVE DInv'
  OBVIOUS
<1>1. CASE CheckoutNext \/ (\E u \in User : CloseAccount(u)) \/ UNCHANGED vars
  <2>1. UNCHANGED <<events, inbox, requests>>
    BY <1>1 DEF CheckoutNext, StartCheckout, CreateCustomer, WriteCustomer,
                OpenSession, GiveUp, CloseAccount, vars, appVars, stripeVars
  <2> QED
    BY <2>1 DEF DInv, DesignsOnce, Recorded
<1>2. CASE StripeNext
  BY <1>2, DesignsEmitted
<1>3. ASSUME NEW i \in EventId, Deliver(i)
      PROVE  DInv'
  <2>1. /\ UNCHANGED events /\ i \in 1..Len(events)
    BY <1>3, BoundAssumption
       DEF Deliver, UpdateUser, RecordDesign, Ignore, Fail, Redeliver, Sent,
           stripeVars, IInv, TypeOK, EventId
  <2>2. /\ inbox \in [EventId -> {"none", "processed", "ignored"}]
        /\ \A j \in EventId : inbox[j] # "none" => inbox'[j] # "none"
    BY <1>3 DEF Deliver, UpdateUser, RecordDesign, Ignore, Fail, Redeliver,
                Mark, appVars, IInv, TypeOK
  <2>3. CASE RecordDesign(i)
    <3>1. /\ requests' = requests \cup {events[i].about}
          /\ events[i].type = "design" /\ inbox'[i] # "none"
      BY <2>2, <2>3 DEF RecordDesign, Mark
    <3> QED
      BY <2>1, <2>2, <3>1 DEF DInv, DesignsOnce, Recorded
  <2>4. CASE UNCHANGED requests
    BY <2>1, <2>2, <2>4 DEF DInv, DesignsOnce, Recorded
  <2> QED
    BY <1>3, <2>3, <2>4 DEF Deliver, UpdateUser, Ignore, Fail, Redeliver, appVars
<1> QED
  BY <1>1, <1>2, <1>3 DEF Next

(* Every step of the service, of Stripe and of its deliveries is a step of *)
(* the ledger or none: an event that is handled was not handled before,    *)
(* and its effect on one account comes with it.                            *)
THEOREM ImplementsLedger == Spec => LedgerSpec
<1>1. Init => DInv
  BY DEF Init, DInv, DesignsOnce, Recorded
<1>2. Init => Ledger!Init
  BY DEF Init, Ledger!Init
<1>3. IInv /\ DInv /\ [Next]_vars => [Ledger!Next]_Ledger!vars
  <2> SUFFICES ASSUME IInv, DInv, Next, ~UNCHANGED Ledger!vars
               PROVE  Ledger!Next
    BY DEF vars, appVars, Ledger!vars
  <2> DEFINE tier == [u \in User |-> user[u].tier]
             handled == {i \in EventId : inbox[i] # "none"}
  <2>1. ASSUME NEW u \in User, CloseAccount(u)
        PROVE  Ledger!Next
    <3>1. tier' = [tier EXCEPT ![u] = "free"]
      BY <2>1 DEF CloseAccount, IInv, TypeOK, UserRow
    <3>2. handled' = handled /\ requests' = requests
      BY <2>1 DEF CloseAccount
    <3> QED
      BY <3>1, <3>2 DEF Ledger!Next, Ledger!Close
  <2>2. ASSUME NEW r \in Request, WriteCustomer(r)
        PROVE  FALSE
    <3>1. tier' = tier
      BY <2>2 DEF WriteCustomer, IInv, TypeOK, UserRow
    <3>2. handled' = handled /\ requests' = requests
      BY <2>2 DEF WriteCustomer
    <3> QED
      BY <3>1, <3>2 DEF Ledger!vars
  <2>3. ASSUME NEW i \in EventId, Deliver(i)
        PROVE  Ledger!Next
    <3>1. ~UNCHANGED <<user, inbox, requests>>
      BY DEF Ledger!vars
    <3>2. inbox[i] = "none" /\ inbox' \in {[inbox EXCEPT ![i] = "processed"],
                                           [inbox EXCEPT ![i] = "ignored"]}
      BY <2>3, <3>1 DEF Deliver, UpdateUser, RecordDesign, Ignore, Fail,
                        Redeliver, Mark, appVars
    <3>3. i \notin handled /\ handled' = handled \cup {i}
      BY <3>2 DEF IInv, TypeOK
    <3>4. i \in 1..Len(events)
      BY <2>3, BoundAssumption
         DEF Deliver, UpdateUser, RecordDesign, Ignore, Fail, Redeliver, Sent,
             IInv, TypeOK, EventId
    <3>5. CASE UpdateUser(i)
      <4>1. PICK u \in FindUser(events[i]) :
              user' = [user EXCEPT ![u] = BillingUpdate(user[u], events[i])]
        BY <3>5 DEF UpdateUser
      <4> DEFINE row == BillingUpdate(user[u], events[i])
      <4>2. u \in User /\ row \in UserRow
        BY <3>4, <3>5, UpdatedRow DEF UpdateUser
      <4> HIDE DEF row
      <4>3. user' = [user EXCEPT ![u] = row]
        BY <4>1 DEF row
      <4>4. row.tier \in Ledger!Tier
        BY <4>2 DEF UserRow, Tier, Ledger!Tier
      <4>5. tier' = [tier EXCEPT ![u] = row.tier]
        BY <4>2, <4>3 DEF IInv, TypeOK, UserRow
      <4>6. requests' = requests
        BY <3>5 DEF UpdateUser
      <4> QED
        BY <3>3, <4>2, <4>4, <4>5, <4>6 DEF Ledger!Next, Ledger!Handle
    <3>6. CASE RecordDesign(i)
      <4> DEFINE d == events[i].about
      <4>1. events[i].type = "design" /\ events[i] \in EventObject
        BY <3>4, <3>6 DEF RecordDesign, IInv, TypeOK
      <4>2. d \in Design
        BY <4>1 DEF EventObject
      <4>3. d \notin requests
        <5> SUFFICES ASSUME d \in requests PROVE FALSE
          OBVIOUS
        <5>1. PICK j \in 1..Len(events) :
                j \in EventId /\ inbox[j] # "none"
                    /\ events[j].type = "design" /\ events[j].about = d
          BY DEF DInv, Recorded
        <5>2. i = j
          BY <3>4, <4>1, <5>1 DEF DInv, DesignsOnce
        <5> QED
          BY <3>2, <5>1, <5>2
      <4>4. requests' = requests \cup {d} /\ tier' = tier
        BY <3>6 DEF RecordDesign
      <4> QED
        BY <3>3, <4>2, <4>3, <4>4 DEF Ledger!Next, Ledger!Handle
    <3>7. CASE UNCHANGED <<user, requests>>
      BY <3>3, <3>7 DEF Ledger!Next, Ledger!Handle
    <3> QED
      BY <2>3, <3>5, <3>6, <3>7 DEF Deliver, Ignore, Fail, Redeliver, appVars
  <2>4. CASE UNCHANGED appVars
    BY <2>4 DEF appVars, Ledger!vars
  <2> QED
    BY <2>1, <2>2, <2>3, <2>4
       DEF Next, CheckoutNext, StartCheckout, CreateCustomer, OpenSession, GiveUp,
           StripeNext, Pay, DashboardSubscribe, Change, Other
<1> QED
  BY <1>1, <1>2, <1>3, DesignsStep, Invariant, PTL DEF Spec, LedgerSpec, Ledger!Spec

=============================================================================
