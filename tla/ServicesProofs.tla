--------------------------- MODULE ServicesProofs ---------------------------
(* What holds of LagoInbox, Accounts and Notifications for any values of   *)
(* their constants, and of their instances in MCServices.                  *)
EXTENDS MCServices, ListingProofs, CallProofs, FiniteSetTheorems, NaturalsInduction,
        WellFoundedInduction, TLAPS

-----------------------------------------------------------------------------
(* Lago's inbox.                                                           *)

(* An event is about to be reduced by one delivery at most, the one that   *)
(* stored it; what is processed is what is billed.                         *)
Waits(d) == call[d] # None =>
    /\ row[call[d]] = "received"
    /\ \A f \in Delivery : call[f] = call[d] => f = d
Billing(e) == billed[e] = IF row[e] = "processed" THEN 1 ELSE 0
Kept(e) == billed[e] = 1 => snapshot[Content[e].object] # None

\* Rows of Lago's objects belong to the user its customer is linked to.
Owned(o) == snapshot[o] # None =>
    snapshot[o].user \in {None, linked[Holder[o]]}

InboxIInv ==
    /\ InboxTypeOK
    /\ \A d \in Delivery : Waits(d)
    /\ \A e \in Event : Billing(e) /\ Kept(e)
    /\ \A o \in Object : Owned(o)

(* What a reduction writes is a row, of the user of its customer; and it   *)
(* forgets no user that the row had.                                       *)
LEMMA ReducedOwned ==
    ASSUME InboxIInv, NEW e \in Event
    PROVE  LET p == Content[e]
           IN  /\ p.object \in Object
               /\ Reduced(p) \in Snapshot
               /\ Reduced(p).user \in {None, linked[Holder[p.object]]}
               /\ OwnerOf(p.object) # None => Reduced(p).user = OwnerOf(p.object)
<1> DEFINE p == Content[e]
<1>1. /\ p \in Payload
      /\ p.customer \in {None, Holder[p.object]}
      /\ p.sub # None => Holder[p.sub] = Holder[p.object]
  BY LagoAssumption DEF Attributed
<1>2. p.object \in Object /\ p.sub \in Object \cup {None} /\ p.status \in Status
  BY <1>1 DEF Payload
<1> DEFINE holder == linked[Holder[p.object]]
<1>3. holder \in User \cup {None}
  BY <1>2, LagoAssumption DEF InboxIInv, InboxTypeOK, Attributed
<1>4. ASSUME NEW o \in Object
      PROVE  OwnerOf(o) \in {None, linked[Holder[o]]} /\ LinkOf(o) \in Object \cup {None}
  <2>1. CASE snapshot[o] = None
    BY <2>1 DEF OwnerOf, LinkOf
  <2>2. CASE snapshot[o] # None
    <3>1. snapshot[o] \in Snapshot /\ Owned(o)
      BY <2>2 DEF InboxIInv, InboxTypeOK
    <3>2. snapshot[o].sub \in Object \cup {None}
      BY <3>1 DEF Snapshot
    <3>3. o # None
      BY LagoAssumption
    <3> QED
      BY <2>2, <3>1, <3>2, <3>3 DEF OwnerOf, LinkOf, Owned
  <2> QED
    BY <2>1, <2>2
<1>5. OwnerOf(p.sub) \in {None, holder}
  <2>1. CASE p.sub = None
    BY <2>1 DEF OwnerOf
  <2>2. CASE p.sub # None
    BY <1>1, <1>2, <1>4, <2>2
  <2> QED
    BY <2>1, <2>2
<1>6. UserOf(p.customer) \in {None, holder}
  BY <1>1 DEF UserOf
<1>7. OwnerOf(p.object) \in {None, holder} /\ LinkOf(p.object) \in Object \cup {None}
  BY <1>2, <1>4
<1>8. StoredSub(p.sub) \in Object \cup {None}
  BY <1>2 DEF StoredSub
<1>9. /\ Reduced(p).user = Coalesce(Coalesce(OwnerOf(p.sub), UserOf(p.customer)),
                                    OwnerOf(p.object))
      /\ Reduced(p).user \in {None, holder}
      /\ OwnerOf(p.object) # None => Reduced(p).user = OwnerOf(p.object)
  <2>1. Reduced(p).user = Coalesce(Coalesce(OwnerOf(p.sub), UserOf(p.customer)),
                                   OwnerOf(p.object))
    BY DEF Reduced
  <2> QED
    BY <1>5, <1>6, <1>7, <2>1 DEF Coalesce
<1>10. Reduced(p) \in Snapshot
  <2>1. Reduced(p).user \in User \cup {None}
    BY <1>3, <1>9
  <2>2. Coalesce(StoredSub(p.sub), LinkOf(p.object)) \in Object \cup {None}
    BY <1>7, <1>8 DEF Coalesce
  <2>3. Coalesce(Coalesce(OwnerOf(p.sub), UserOf(p.customer)), OwnerOf(p.object))
            \in User \cup {None}
    BY <1>9, <2>1
  <2> QED
    BY <1>2, <2>2, <2>3 DEF Reduced, Snapshot
<1> QED
  BY <1>2, <1>9, <1>10

-----------------------------------------------------------------------------
LEMMA InitInv == InboxInit => InboxIInv
BY LagoAssumption
DEF InboxInit, InboxIInv, InboxTypeOK, Waits, Billing, Kept, Owned

LEMMA ArriveKeeps ==
    ASSUME InboxIInv, NEW d \in Delivery, NEW e \in Event, Arrive(d, e)
    PROVE  InboxIInv'
<1>1. deliveries' \in 0..MaxDeliveries
  BY LagoAssumption DEF Arrive, InboxIInv, InboxTypeOK
<1>2. UNCHANGED <<billed, snapshot, linked>>
  BY DEF Arrive
<1>3. \A o \in Object : Owned(o)'
  BY <1>2 DEF InboxIInv, Owned
<1>4. CASE Fresh(e)
  <2>1. /\ row' = [row EXCEPT ![e] = "received"] /\ row[e] = "none"
        /\ call' = [call EXCEPT ![d] = e]
        /\ acked' = acked
    BY <1>4 DEF Arrive, Fresh
  <2>2. InboxTypeOK'
    BY <1>1, <1>2, <2>1 DEF InboxIInv, InboxTypeOK
  <2>3. \A f \in Delivery : call[f] # e
    BY <2>1, LagoAssumption DEF InboxIInv, Waits
  <2>4. ASSUME NEW f \in Delivery PROVE Waits(f)'
    BY <2>1, <2>3, LagoAssumption DEF InboxIInv, Waits, InboxTypeOK
  <2>5. ASSUME NEW g \in Event PROVE Billing(g)' /\ Kept(g)'
    BY <1>2, <2>1 DEF InboxIInv, Billing, Kept, InboxTypeOK
  <2> QED
    BY <1>3, <2>2, <2>4, <2>5 DEF InboxIInv
<1>5. CASE ~Fresh(e)
  <2>1. acked' = acked \cup {e} /\ UNCHANGED <<row, call>>
    BY <1>5 DEF Arrive
  <2>2. InboxTypeOK'
    BY <1>1, <1>2, <2>1 DEF InboxIInv, InboxTypeOK
  <2> QED
    BY <1>2, <1>3, <2>1, <2>2 DEF InboxIInv, Waits, Billing, Kept
<1> QED
  BY <1>4, <1>5

(* A delivery that is over leaves the others what they were.               *)
LEMMA OverKeepsWaits ==
    ASSUME InboxIInv, NEW d \in Delivery, call' = [call EXCEPT ![d] = None],
           \A e \in Event : e # call[d] => row'[e] = row[e],
           NEW f \in Delivery
    PROVE  Waits(f)'
<1>1. call \in [Delivery -> Event \cup {None}]
  BY DEF InboxIInv, InboxTypeOK
<1>2. CASE f = d
  BY <1>1, <1>2 DEF Waits
<1>3. CASE f # d /\ call[f] # None
  <2>1. call'[f] = call[f] /\ call[f] \in Event
    BY <1>1, <1>3
  <2>2. call[f] # call[d]
    BY <1>3 DEF InboxIInv, Waits
  <2>3. row[call[f]] = "received"
    BY <1>3 DEF InboxIInv, Waits
  <2>4. row'[call'[f]] = "received"
    BY <2>1, <2>2, <2>3
  <2>5. \A g \in Delivery : call'[g] = call'[f] => g = f
    BY <1>1, <1>3, <2>1 DEF InboxIInv, Waits
  <2> QED
    BY <2>4, <2>5 DEF Waits
<1>4. CASE f # d /\ call[f] = None
  BY <1>1, <1>4 DEF Waits
<1> QED
  BY <1>2, <1>3, <1>4

LEMMA IgnoreKeeps ==
    ASSUME InboxIInv, NEW d \in Delivery, Ignore(d)
    PROVE  InboxIInv'
<1> DEFINE e == call[d]
<1>1. /\ e \in Event /\ row[e] = "received"
      /\ row' = [row EXCEPT ![e] = "ignored"]
      /\ call' = [call EXCEPT ![d] = None] /\ acked' = acked \cup {e}
      /\ UNCHANGED <<billed, snapshot, linked, deliveries>>
  BY DEF Ignore, Answer, InboxIInv, InboxTypeOK, Waits
<1> HIDE DEF e
<1>2. InboxTypeOK'
  BY <1>1 DEF InboxIInv, InboxTypeOK
<1>3. ASSUME NEW f \in Delivery PROVE Waits(f)'
  BY <1>1, OverKeepsWaits DEF e, InboxIInv, InboxTypeOK
<1>4. ASSUME NEW g \in Event PROVE Billing(g)' /\ Kept(g)'
  BY <1>1 DEF InboxIInv, InboxTypeOK, Billing, Kept
<1>5. ASSUME NEW o \in Object PROVE Owned(o)'
  BY <1>1 DEF InboxIInv, Owned
<1> QED
  BY <1>2, <1>3, <1>4, <1>5 DEF InboxIInv

(* An event whose reduction is due was not billed before, so it writes.    *)
LEMMA ReduceWrites ==
    ASSUME InboxIInv, NEW d \in Delivery, Reduce(d)
    PROVE  /\ call[d] \in Event /\ row[call[d]] = "received"
           /\ row' = [row EXCEPT ![call[d]] = "processed"]
           /\ billed' = [billed EXCEPT ![call[d]] = 1]
           /\ snapshot' = [snapshot EXCEPT ![Content[call[d]].object] =
                               Reduced(Content[call[d]])]
           /\ call' = [call EXCEPT ![d] = None]
           /\ acked' = acked \cup {call[d]}
           /\ UNCHANGED <<linked, deliveries>>
<1>1. call[d] \in Event /\ row[call[d]] = "received"
  BY DEF Reduce, InboxIInv, InboxTypeOK, Waits
<1>2. billed[call[d]] = 0
  BY <1>1 DEF InboxIInv, Billing
<1> QED
  BY <1>1, <1>2 DEF Reduce, Answer, InboxIInv, InboxTypeOK

LEMMA ReduceKeeps ==
    ASSUME InboxIInv, NEW d \in Delivery, Reduce(d)
    PROVE  InboxIInv'
<1> DEFINE e == call[d]
           new == Reduced(Content[e])
           object == Content[e].object
<1>1. /\ e \in Event /\ row[e] = "received"
      /\ row' = [row EXCEPT ![e] = "processed"]
      /\ billed' = [billed EXCEPT ![e] = 1]
      /\ snapshot' = [snapshot EXCEPT ![object] = new]
      /\ call' = [call EXCEPT ![d] = None]
      /\ acked' = acked \cup {e}
      /\ UNCHANGED <<linked, deliveries>>
  BY ReduceWrites
<1>2. /\ object \in Object /\ new \in Snapshot
      /\ new.user \in {None, linked[Holder[object]]}
  BY <1>1, ReducedOwned
<1>3. ASSUME NEW f \in Delivery PROVE Waits(f)'
  BY <1>1, OverKeepsWaits DEF InboxIInv, InboxTypeOK
<1> HIDE DEF e, new, object
<1>4. InboxTypeOK'
  BY <1>1, <1>2 DEF InboxIInv, InboxTypeOK
<1>5. ASSUME NEW g \in Event PROVE Billing(g)' /\ Kept(g)'
  <2>1. Billing(g)'
    BY <1>1 DEF InboxIInv, InboxTypeOK, Billing
  <2>2. new # None
    BY <1>2, LagoAssumption
  <2>3. \/ snapshot'[Content[g].object] # None
        \/ /\ snapshot'[Content[g].object] = snapshot[Content[g].object]
           /\ g # e
    <3>1. Content[g].object \in Object
      BY LagoAssumption DEF Payload
    <3> QED
      BY <1>1, <1>2, <2>2, <3>1 DEF InboxIInv, InboxTypeOK, object
  <2>4. Kept(g)'
    BY <1>1, <2>3 DEF InboxIInv, InboxTypeOK, Kept
  <2> QED
    BY <2>1, <2>4
<1>6. ASSUME NEW o \in Object PROVE Owned(o)'
  BY <1>1, <1>2 DEF InboxIInv, InboxTypeOK, Owned
<1> QED
  BY <1>3, <1>4, <1>5, <1>6 DEF InboxIInv

LEMMA FailKeeps ==
    ASSUME InboxIInv, NEW d \in Delivery, Fail(d)
    PROVE  InboxIInv'
<1>1. /\ call' = [call EXCEPT ![d] = None]
      /\ UNCHANGED <<row, billed, snapshot, linked, acked, deliveries>>
  BY DEF Fail
<1>2. InboxTypeOK'
  BY <1>1 DEF InboxIInv, InboxTypeOK
<1>3. ASSUME NEW f \in Delivery PROVE Waits(f)'
  BY <1>1, OverKeepsWaits
<1> QED
  BY <1>1, <1>2, <1>3 DEF InboxIInv, Billing, Kept, Owned

LEMMA LinkKeeps ==
    ASSUME InboxIInv, NEW c \in Customer, Link(c)
    PROVE  InboxIInv'
<1>1. PICK u \in User : linked' = [linked EXCEPT ![c] = u]
  BY DEF Link
<1>2. linked[c] = None /\ UNCHANGED <<row, billed, snapshot, call, acked, deliveries>>
  BY DEF Link
<1>3. InboxTypeOK'
  BY <1>1, <1>2 DEF InboxIInv, InboxTypeOK
<1>4. ASSUME NEW o \in Object PROVE Owned(o)'
  <2>1. Holder[o] \in Customer
    BY LagoAssumption DEF Attributed
  <2> QED
    BY <1>1, <1>2, <2>1 DEF InboxIInv, InboxTypeOK, Owned
<1> QED
  BY <1>2, <1>3, <1>4 DEF InboxIInv, Waits, Billing, Kept

LEMMA StepInv == InboxIInv /\ [InboxNext]_lagoVars => InboxIInv'
<1> SUFFICES ASSUME InboxIInv, [InboxNext]_lagoVars PROVE InboxIInv'
  OBVIOUS
<1>1. ASSUME NEW d \in Delivery, NEW e \in Event, Arrive(d, e) PROVE InboxIInv'
  BY <1>1, ArriveKeeps
<1>2. ASSUME NEW d \in Delivery, Ignore(d) PROVE InboxIInv'
  BY <1>2, IgnoreKeeps
<1>3. ASSUME NEW d \in Delivery, Reduce(d) PROVE InboxIInv'
  BY <1>3, ReduceKeeps
<1>4. ASSUME NEW d \in Delivery, Fail(d) PROVE InboxIInv'
  BY <1>4, FailKeeps
<1>5. ASSUME NEW c \in Customer, Link(c) PROVE InboxIInv'
  BY <1>5, LinkKeeps
<1>6. CASE UNCHANGED lagoVars
  BY <1>6 DEF lagoVars, InboxIInv, InboxTypeOK, Waits, Billing, Kept, Owned
<1> QED
  BY <1>1, <1>2, <1>3, <1>4, <1>5, <1>6 DEF InboxNext

LEMMA InboxAlwaysInv == InboxSpec => []InboxIInv
BY InitInv, StepInv, PTL DEF InboxSpec

-----------------------------------------------------------------------------
(* Every variable keeps its type.                                          *)
THEOREM InboxTypeCorrect == InboxSpec => []InboxTypeOK
<1>1. InboxIInv => InboxTypeOK
  BY DEF InboxIInv
<1> QED
  BY <1>1, InboxAlwaysInv, PTL

(* The inbox and the billing events never contradict each other: the       *)
(* replay script never finds an event billed and not processed, or         *)
(* processed and not billed, and what was billed has its snapshot.         *)
THEOREM InboxAlwaysAgrees == InboxSpec => []InboxAgrees
<1>1. InboxIInv => InboxAgrees
  <2> SUFFICES ASSUME InboxIInv, NEW e \in Event
               PROVE  /\ Verdict(e) \notin {"billing_snapshot_without_webhook",
                              "status_reconciliation_required",
                              "processed_without_billing_snapshot"}
                      /\ billed[e] = 1 => snapshot[Content[e].object] # None
    BY DEF InboxAgrees
  <2>1. row[e] \in {"none", "received", "processed", "ignored"}
    BY DEF InboxIInv, InboxTypeOK
  <2>2. billed[e] = IF row[e] = "processed" THEN 1 ELSE 0
    BY DEF InboxIInv, Billing
  <2>3. Verdict(e) \in {"local_snapshot_missing", "ignored_locally",
                        "replay_candidate", "replay_not_required"}
    BY <2>1, <2>2 DEF Verdict
  <2> QED
    BY <2>3 DEF InboxIInv, Kept
<1> QED
  BY <1>1, InboxAlwaysInv, PTL

(* A subscription or an invoice once tied to a user stays tied to it,      *)
(* however late, often or incomplete its webhooks come.                    *)
THEOREM OwnersStick == InboxSpec => OwnerSticks
<1>1. InboxIInv /\ [InboxNext]_lagoVars =>
        [\A o \in Object : OwnerOf(o) # None => OwnerOf(o)' = OwnerOf(o)]_snapshot
  <2> SUFFICES ASSUME InboxIInv, InboxNext, snapshot' # snapshot, NEW o \in Object,
                      OwnerOf(o) # None
               PROVE  OwnerOf(o)' = OwnerOf(o)
    BY DEF lagoVars
  <2>1. PICK d \in Delivery : Reduce(d)
    BY DEF InboxNext, Arrive, Ignore, Fail, Link
  <2> DEFINE p == Content[call[d]]
  <2>2. /\ call[d] \in Event
        /\ snapshot' = [snapshot EXCEPT ![p.object] = Reduced(p)]
    BY <2>1, ReduceWrites
  <2>3. /\ p.object \in Object /\ Reduced(p) \in Snapshot
        /\ OwnerOf(p.object) # None => Reduced(p).user = OwnerOf(p.object)
    BY <2>2, ReducedOwned
  <2> HIDE DEF p
  <2>4. o # None /\ Reduced(p) # None
    BY <2>3, LagoAssumption
  <2>5. CASE o = p.object
    <3>1. snapshot'[o] = Reduced(p)
      BY <2>2, <2>3, <2>5 DEF InboxIInv, InboxTypeOK
    <3> QED
      BY <2>3, <2>4, <2>5, <3>1 DEF OwnerOf
  <2>6. CASE o # p.object
    <3>1. snapshot'[o] = snapshot[o]
      BY <2>2, <2>6 DEF InboxIInv, InboxTypeOK
    <3> QED
      BY <3>1 DEF OwnerOf
  <2> QED
    BY <2>5, <2>6
<1> QED
  BY <1>1, InboxAlwaysInv, PTL DEF InboxSpec, OwnerSticks

-----------------------------------------------------------------------------
(* Accounts.                                                               *)

(* A deletion that is due, or was carried out, was asked for; the row of   *)
(* an identity that was never verified is of its own making.               *)
UserFits(account, n, reqs, who) ==
    /\ account \in UserRow
    /\ account.asked = "due" \/ account.scrubbed => n \in reqs
    /\ account.workos \in Unverified => who[n] = account.workos

\* What the sync of a login has read of a row it is about to write.
ReadFits(reqs, who, l, s) ==
    /\ s.asked = "due" => s.id \in reqs
    /\ l.identity \in Unverified => who[s.id] = l.identity

SessionFits(users, reqs, who, l, s) ==
    /\ s \in Session
    /\ s.pc \in {"update", "in"} => users[s.id] # Nobody
    /\ s.pc = "update" => ReadFits(reqs, who, l, s)

UsersFit(users, reqs, who) ==
    /\ users \in [Id -> UserRow \cup {Nobody}]
    /\ who \in [Id -> Identity \cup {Nobody}]
    /\ \A n \in Id : users[n] # Nobody => UserFits(users[n], n, reqs, who)

SessionsFit(users, reqs, who, rest) ==
    /\ rest \in [Login -> Session]
    /\ \A l \in Login : SessionFits(users, reqs, who, l, rest[l])

AccountsIInv ==
    /\ UsersFit(user, requests, founder)
    /\ SessionsFit(user, requests, founder, session)
    /\ requests \subseteq Id /\ due \subseteq requests
    /\ \A n \in due : user[n] # Nobody

-----------------------------------------------------------------------------
\* Rows are created once and stay; their founders are known from then on.
Grows(users, users2, who, who2) ==
    \A n \in Id : users[n] # Nobody => users2[n] # Nobody /\ who2[n] = who[n]

(* What a sync read of a row stays true when rows are written.             *)
LEMMA SessionStays ==
    ASSUME NEW users, NEW users2, NEW who, NEW who2, NEW reqs, NEW reqs2,
           reqs \subseteq reqs2, Grows(users, users2, who, who2),
           NEW l \in Login, NEW s, SessionFits(users, reqs, who, l, s)
    PROVE  SessionFits(users2, reqs2, who2, l, s)
<1>1. s.pc \in {"update", "in"} => s.id \in Id
  BY DEF SessionFits, Session, Away
<1>2. s.pc \in {"update", "in"} =>
        users[s.id] # Nobody /\ users2[s.id] # Nobody /\ who2[s.id] = who[s.id]
  BY <1>1 DEF SessionFits, Grows
<1> QED
  BY <1>2 DEF SessionFits, ReadFits

LEMMA SessionTypes ==
    ASSUME AccountsIInv
    PROVE  /\ session \in [Login -> Session]
           /\ \A l \in Login : SessionFits(user, requests, founder, l, session[l])
           /\ \A l \in Login : \A u, r, w : SessionFits(u, r, w, l, Away)
           /\ session = [l \in Login |-> session[l]]
BY DEF AccountsIInv, SessionsFit, SessionFits, Session, Away

(* A step after which each session is what it was, or fits the users as    *)
(* they are then.                                                          *)
LEMMA SessionsStep ==
    ASSUME AccountsIInv, Grows(user, user', founder, founder'),
           requests \subseteq requests',
           session' = [l \in Login |-> session'[l]],
           \A l \in Login : \/ session'[l] = session[l]
                            \/ SessionFits(user', requests', founder', l, session'[l])
    PROVE  SessionsFit(user', requests', founder', session')
<1>1. ASSUME NEW l \in Login
      PROVE  SessionFits(user', requests', founder', l, session'[l])
  <2>1. SessionFits(user, requests, founder, l, session[l])
    BY SessionTypes
  <2>2. SessionFits(user', requests', founder', l, session[l])
    BY <2>1, SessionStays
  <2> QED
    BY <2>2
<1>2. session' \in [Login -> Session]
  BY <1>1 DEF SessionFits
<1> QED
  BY <1>1, <1>2 DEF SessionsFit

(* A step that writes one row, and its founder if the row is new.          *)
LEMMA RowStep ==
    ASSUME AccountsIInv, NEW n \in Id, NEW account,
           UserFits(account, n, requests', founder'),
           user' = [user EXCEPT ![n] = account],
           \/ founder' = founder
           \/ user[n] = Nobody
              /\ \E i \in Identity : founder' = [founder EXCEPT ![n] = i],
           requests \subseteq requests', requests' \subseteq Id,
           due' \subseteq due,
           session' = [l \in Login |-> session'[l]],
           \A l \in Login : \/ session'[l] = session[l]
                            \/ SessionFits(user', requests', founder', l, session'[l])
    PROVE  AccountsIInv'
<1>1. account \in UserRow /\ account # Nobody
  BY AccountsAssumption DEF UserFits
<1>2. user \in [Id -> UserRow \cup {Nobody}] /\ founder \in [Id -> Identity \cup {Nobody}]
  BY DEF AccountsIInv, UsersFit
<1>3. user' \in [Id -> UserRow \cup {Nobody}] /\ founder' \in [Id -> Identity \cup {Nobody}]
  BY <1>1, <1>2
<1>4. \A m \in Id \ {n} : user'[m] = user[m] /\ founder'[m] = founder[m]
  BY <1>2
<1>5. user'[n] = account
  BY <1>2
<1>6. Grows(user, user', founder, founder')
  BY <1>1, <1>4, <1>5 DEF Grows
<1>7. ASSUME NEW m \in Id, user'[m] # Nobody
      PROVE  UserFits(user'[m], m, requests', founder')
  <2>1. CASE m = n
    BY <1>5, <2>1
  <2>2. CASE m # n
    <3>1. user'[m] = user[m] /\ founder'[m] = founder[m]
      BY <1>4, <2>2
    <3>2. UserFits(user[m], m, requests, founder)
      BY <1>7, <3>1 DEF AccountsIInv, UsersFit
    <3> QED
      BY <3>1, <3>2 DEF UserFits
  <2> QED
    BY <2>1, <2>2
<1>8. UsersFit(user', requests', founder')
  BY <1>3, <1>7 DEF UsersFit
<1>9. SessionsFit(user', requests', founder', session')
  BY <1>6, SessionsStep
<1>10. due' \subseteq requests' /\ \A m \in due' : user'[m] # Nobody
  BY <1>6 DEF AccountsIInv, Grows
<1> QED
  BY <1>8, <1>9, <1>10 DEF AccountsIInv

(* A step that writes no row.                                              *)
LEMMA NoRowStep ==
    ASSUME AccountsIInv, UNCHANGED <<user, founder, requests>>,
           due' \subseteq requests, \A n \in due' : user[n] # Nobody,
           session' = [l \in Login |-> session'[l]],
           \A l \in Login : \/ session'[l] = session[l]
                            \/ SessionFits(user, requests, founder, l, session'[l])
    PROVE  AccountsIInv'
<1>1. Grows(user, user', founder, founder')
  BY DEF Grows
<1>2. SessionsFit(user', requests', founder', session')
  BY <1>1, SessionsStep
<1>3. UsersFit(user', requests', founder')
  BY DEF AccountsIInv
<1> QED
  BY <1>2, <1>3 DEF AccountsIInv

-----------------------------------------------------------------------------
LEMMA LeastMatch ==
    ASSUME NEW S, S \subseteq Nat, S # {}
    PROVE  \E x \in S : \A y \in S : x <= y
<1>1. PICK x \in S : \A y \in S : ~(<<y, x>> \in OpToRel(<, Nat))
  BY NatLessThanWellFounded, WFMin
<1>2. \A y \in S : ~(y < x)
  BY <1>1 DEF OpToRel
<1> QED
  BY <1>2

(* A match of a sync is a row it may write.                                *)
LEMMA FoundMatches ==
    ASSUME AccountsIInv, NEW l \in Login, Matches(l) # {}
    PROVE  Found(l) \in Matches(l)
<1>1. Matches(l) \subseteq Nat
  BY AccountsAssumption DEF Matches, Existing, Id
<1>2. PICK n \in Matches(l) : \A m \in Matches(l) : n <= m
  BY <1>1, LeastMatch
<1> QED
  BY <1>2 DEF Found

LEMMA LoginTypes ==
    ASSUME NEW l \in Login
    PROVE  /\ l.identity \in Identity /\ l.email \in Email
           /\ l.identity # Nobody
           /\ l.identity \in Unverified => ~l.verified
BY AccountsAssumption DEF Unverified

LEMMA LeaveFits ==
    ASSUME AccountsIInv, NEW l \in Login, UNCHANGED <<user, due, founder, requests>>,
           session' = [session EXCEPT ![l] = Away]
    PROVE  AccountsIInv'
<1>1. /\ session' = [k \in Login |-> session'[k]]
      /\ \A k \in Login : \/ session'[k] = session[k]
                          \/ SessionFits(user, requests, founder, k, session'[k])
  BY SessionTypes
<1> QED
  BY <1>1, NoRowStep DEF AccountsIInv

LEMMA SyncReadsFits ==
    ASSUME AccountsIInv, NEW l \in Login, SyncReads(l)
    PROVE  AccountsIInv'
<1> DEFINE n == Found(l)
           read == [pc |-> "update", id |-> n,
                    isBanned |-> user[n].isBanned, asked |-> user[n].asked]
<1>1. Matches(l) # {} => SessionFits(user, requests, founder, l, read)
  <2>1. SUFFICES ASSUME Matches(l) # {}
                 PROVE  SessionFits(user, requests, founder, l, read)
    OBVIOUS
  <2>2. n \in Matches(l)
    BY <2>1, FoundMatches
  <2>3. /\ n \in Id /\ user[n] # Nobody
        /\ user[n].workos = l.identity \/ l.verified
    BY <2>2 DEF Matches, Existing
  <2>4. UserFits(user[n], n, requests, founder)
    BY <2>3 DEF AccountsIInv, UsersFit
  <2>5. user[n].isBanned \in BOOLEAN /\ user[n].asked \in {"no", "grace", "due"}
    BY <2>4 DEF UserFits, UserRow
  <2> HIDE DEF n
  <2>6. read \in Session
    BY <2>3, <2>5 DEF Session
  <2>7. ReadFits(requests, founder, l, read)
    BY <2>3, <2>4, LoginTypes DEF ReadFits, UserFits
  <2> QED
    BY <2>3, <2>6, <2>7 DEF SessionFits
<1>2. SessionFits(user, requests, founder, l, [pc |-> "create"])
  BY DEF SessionFits, Session
<1>3. SessionFits(user, requests, founder, l, Away)
  BY SessionTypes
<1> HIDE DEF read
<1>4. \E s : /\ session' = [session EXCEPT ![l] = s]
             /\ SessionFits(user, requests, founder, l, s)
  BY <1>1, <1>2, <1>3 DEF SyncReads, read
<1>5. /\ session' = [k \in Login |-> session'[k]]
      /\ \A k \in Login : \/ session'[k] = session[k]
                          \/ SessionFits(user, requests, founder, k, session'[k])
  BY <1>4, SessionTypes
<1> QED
  BY <1>5, NoRowStep DEF SyncReads, AccountsIInv

LEMMA SyncCreatesFits ==
    ASSUME AccountsIInv, NEW l \in Login, SyncCreates(l)
    PROVE  AccountsIInv'
<1>1. CASE Free(l.email, l.identity, Id)
  <2>1. PICK n \in Id :
            /\ Existing = 1..(n - 1)
            /\ user' = [user EXCEPT ![n] = NewUser(l.email, l.identity)]
            /\ founder' = [founder EXCEPT ![n] = l.identity]
            /\ session' = [session EXCEPT ![l] = [pc |-> "in", id |-> n]]
    BY <1>1 DEF SyncCreates
  <2> DEFINE account == NewUser(l.email, l.identity)
  <2>2. user[n] = Nobody
    BY <2>1, AccountsAssumption DEF Existing, Id
  <2>3. account \in UserRow /\ account # Nobody
    <3>1. account \in UserRow
      BY LoginTypes DEF NewUser, UserRow
    <3> QED
      BY <3>1, AccountsAssumption
  <2>4. user'[n] = account /\ founder'[n] = l.identity
    BY <2>1 DEF AccountsIInv, UsersFit
  <2>5. UserFits(account, n, requests', founder')
    BY <2>3, <2>4 DEF UserFits, NewUser
  <2> HIDE DEF account
  <2>6. SessionFits(user', requests', founder', l, [pc |-> "in", id |-> n])
    BY <2>3, <2>4 DEF SessionFits, Session
  <2>7. /\ session' = [k \in Login |-> session'[k]]
        /\ \A k \in Login : \/ session'[k] = session[k]
                            \/ SessionFits(user', requests', founder', k, session'[k])
    BY <2>1, <2>6, SessionTypes
  <2>8. UNCHANGED <<due, requests>> /\ requests \subseteq Id
    BY DEF SyncCreates, AccountsIInv
  <2>9. \E i \in Identity : founder' = [founder EXCEPT ![n] = i]
    BY <2>1, LoginTypes
  <2> QED
    BY <2>1, <2>2, <2>5, <2>7, <2>8, <2>9, RowStep DEF account
<1>2. CASE ~Free(l.email, l.identity, Id)
  BY <1>2, LeaveFits DEF SyncCreates
<1> QED
  BY <1>1, <1>2

LEMMA SyncUpdatesFits ==
    ASSUME AccountsIInv, NEW l \in Login, SyncUpdates(l)
    PROVE  AccountsIInv'
<1> DEFINE read == session[l]
           n == read.id
           pending == read.isBanned /\ read.asked # "no"
           stays == IF pending THEN FALSE ELSE read.isBanned
           account == [email |-> l.email, workos |-> l.identity, isBanned |-> stays,
                   asked |-> IF pending THEN "no" ELSE read.asked,
                   scrubbed |-> user[n].scrubbed]
<1>1. /\ read.pc = "update" /\ read \in Session
      /\ user[n] # Nobody /\ ReadFits(requests, founder, l, read)
  BY DEF SyncUpdates, AccountsIInv, SessionsFit, SessionFits
<1>2. n \in Id /\ read.isBanned \in BOOLEAN /\ read.asked \in {"no", "grace", "due"}
  BY <1>1 DEF Session, Away
<1>3. UserFits(user[n], n, requests, founder) /\ user[n].scrubbed \in BOOLEAN
  <2>1. UserFits(user[n], n, requests, founder)
    BY <1>1, <1>2 DEF AccountsIInv, UsersFit
  <2> QED
    BY <2>1 DEF UserFits, UserRow
<1>4. UNCHANGED <<due, founder, requests>> /\ requests \subseteq Id
  BY DEF SyncUpdates, AccountsIInv
<1>5. CASE Free(l.email, l.identity, Id \ {n})
  <2>1. /\ user' = [user EXCEPT ![n] = account]
        /\ session' = [session EXCEPT ![l] =
                    IF stays THEN Away ELSE [pc |-> "in", id |-> n]]
    BY <1>2, <1>5 DEF SyncUpdates, AccountsIInv, UsersFit
  <2>2. account \in UserRow /\ account # Nobody
    <3>1. account \in UserRow
      BY <1>2, <1>3, LoginTypes DEF UserRow
    <3> QED
      BY <3>1, AccountsAssumption
  <2>3. UserFits(account, n, requests', founder')
    BY <1>1, <1>3, <1>4, <2>2 DEF UserFits, ReadFits
  <2> HIDE DEF account, stays
  <2>4. user'[n] = account
    BY <1>2, <2>1 DEF AccountsIInv, UsersFit
  <2>5. SessionFits(user', requests', founder', l, [pc |-> "in", id |-> n])
    BY <1>2, <2>2, <2>4 DEF SessionFits, Session
  <2>6. /\ session' = [k \in Login |-> session'[k]]
        /\ \A k \in Login : \/ session'[k] = session[k]
                            \/ SessionFits(user', requests', founder', k, session'[k])
    BY <2>1, <2>5, SessionTypes
  <2> QED
    BY <1>2, <1>4, <2>1, <2>3, <2>6, RowStep
<1>6. CASE ~Free(l.email, l.identity, Id \ {n})
  BY <1>6, LeaveFits DEF SyncUpdates
<1> QED
  BY <1>5, <1>6

LEMMA AskDeletionFits ==
    ASSUME AccountsIInv, NEW l \in Login, AskDeletion(l)
    PROVE  AccountsIInv'
<1> DEFINE n == session[l].id
           account == [email |-> Nobody, workos |-> user[n].workos,
                   isBanned |-> TRUE, asked |-> "grace", scrubbed |-> user[n].scrubbed]
<1>1. session[l] \in Session /\ session[l].pc = "in" /\ user[n] # Nobody
  BY DEF AskDeletion, AccountsIInv, SessionsFit, SessionFits
<1>2. n \in Id
  BY <1>1 DEF Session, Away
<1>3. UserFits(user[n], n, requests, founder)
  BY <1>1, <1>2 DEF AccountsIInv, UsersFit
<1>4. user' = [user EXCEPT ![n] = account]
  BY <1>2 DEF AskDeletion, AccountsIInv, UsersFit
<1>5. UNCHANGED <<due, founder, requests>> /\ requests \subseteq Id
  BY DEF AskDeletion, AccountsIInv
<1>6. account \in UserRow
  BY <1>3 DEF UserFits, UserRow
<1>7. UserFits(account, n, requests', founder')
  BY <1>3, <1>5, <1>6 DEF UserFits
<1> HIDE DEF account
<1>8. /\ session' = [k \in Login |-> session'[k]]
      /\ \A k \in Login : \/ session'[k] = session[k]
                          \/ SessionFits(user', requests', founder', k, session'[k])
  BY SessionTypes DEF AskDeletion
<1> QED
  BY <1>2, <1>4, <1>5, <1>7, <1>8, RowStep

(* A ban, an admin's change and the end of the grace period leave a row to *)
(* its owner.                                                              *)
LEMMA ChangesFits ==
    ASSUME AccountsIInv, NEW n \in Existing, NEW ban \in BOOLEAN,
           NEW asks \in {"no", "grace", "due"}, Changes(n, ban, asks),
           UNCHANGED <<session, due, founder>>,
           requests' \in {requests, requests \cup {n}},
           asks = "due" => n \in requests'
    PROVE  AccountsIInv'
<1> DEFINE account == [email |-> user[n].email, workos |-> user[n].workos,
                   isBanned |-> ban, asked |-> asks, scrubbed |-> user[n].scrubbed]
<1>1. n \in Id /\ UserFits(user[n], n, requests, founder)
  BY DEF Existing, AccountsIInv, UsersFit
<1>2. account \in UserRow
  BY <1>1 DEF UserFits, UserRow
<1>3. requests \subseteq requests' /\ requests' \subseteq Id
  BY <1>1 DEF AccountsIInv
<1>4. UserFits(account, n, requests', founder')
  BY <1>1, <1>2, <1>3 DEF UserFits
<1>5. user' = [user EXCEPT ![n] = account]
  BY <1>1 DEF Changes, AccountsIInv, UsersFit
<1> HIDE DEF account
<1>6. session' = [k \in Login |-> session'[k]]
  BY SessionTypes
<1> QED
  BY <1>1, <1>3, <1>4, <1>5, <1>6, RowStep

LEMMA AdminCreatesFits ==
    ASSUME AccountsIInv, NEW address \in Email, AdminCreates(address)
    PROVE  AccountsIInv'
<1> DEFINE account == NewUser(address, Nobody)
<1>1. PICK n \in Id : Existing = 1..(n - 1) /\ user' = [user EXCEPT ![n] = account]
  BY DEF AdminCreates
<1>2. account \in UserRow
  BY DEF NewUser, UserRow
<1>3. UNCHANGED <<session, due, founder, requests>> /\ requests \subseteq Id
  BY DEF AdminCreates, AccountsIInv
<1>4. Nobody \notin Unverified
  BY AccountsAssumption DEF Unverified
<1>5. UserFits(account, n, requests', founder')
  BY <1>2, <1>4 DEF UserFits, NewUser
<1> HIDE DEF account
<1>6. session' = [k \in Login |-> session'[k]]
  BY <1>3, SessionTypes
<1> QED
  BY <1>1, <1>3, <1>5, <1>6, RowStep

LEMMA JobScrubsFits ==
    ASSUME AccountsIInv, NEW n \in Id, JobScrubs(n)
    PROVE  AccountsIInv'
<1> DEFINE account == [email |-> Nobody, workos |-> Nobody,
                   isBanned |-> TRUE, asked |-> "no", scrubbed |-> TRUE]
<1>1. n \in requests /\ user' = [user EXCEPT ![n] = account]
  BY DEF JobScrubs, AccountsIInv
<1>2. account \in UserRow
  BY DEF UserRow
<1>3. UNCHANGED <<session, founder, requests>> /\ requests \subseteq Id /\ due' \subseteq due
  BY DEF JobScrubs, AccountsIInv
<1>4. Nobody \notin Unverified
  BY AccountsAssumption DEF Unverified
<1>5. UserFits(account, n, requests', founder')
  BY <1>1, <1>2, <1>3, <1>4 DEF UserFits
<1> HIDE DEF account
<1>6. session' = [k \in Login |-> session'[k]]
  BY <1>3, SessionTypes
<1> QED
  BY <1>1, <1>3, <1>5, <1>6, RowStep

LEMMA AccountsInitFits == AccountsInit => AccountsIInv
BY DEF AccountsInit, AccountsIInv, UsersFit, SessionsFit, SessionFits, Session, Away

LEMMA AccountsNextFits ==
    AccountsIInv /\ [AccountsNext]_accountVars => AccountsIInv'
<1> SUFFICES ASSUME AccountsIInv, [AccountsNext]_accountVars PROVE AccountsIInv'
  OBVIOUS
<1>1. ASSUME NEW l \in Login, SyncReads(l) PROVE AccountsIInv'
  BY <1>1, SyncReadsFits
<1>2. ASSUME NEW l \in Login, SyncCreates(l) PROVE AccountsIInv'
  BY <1>2, SyncCreatesFits
<1>3. ASSUME NEW l \in Login, SyncUpdates(l) PROVE AccountsIInv'
  BY <1>3, SyncUpdatesFits
<1>4. ASSUME NEW l \in Login, AskDeletion(l) PROVE AccountsIInv'
  BY <1>4, AskDeletionFits
<1>5. ASSUME NEW l \in Login, Leave(l) PROVE AccountsIInv'
  BY <1>5, LeaveFits DEF Leave
<1>6. ASSUME NEW address \in Email, AdminCreates(address) PROVE AccountsIInv'
  BY <1>6, AdminCreatesFits
<1>7. ASSUME NEW n \in Existing, NEW asks \in {user[n].asked, "no"},
             NEW ban \in BOOLEAN, Changes(n, ban, asks),
             UNCHANGED <<session, due, founder, requests>>
      PROVE  AccountsIInv'
  <2>1. UserFits(user[n], n, requests, founder)
    BY DEF Existing, AccountsIInv, UsersFit
  <2>2. asks \in {"no", "grace", "due"} /\ (asks = "due" => n \in requests)
    BY <2>1 DEF UserFits, UserRow
  <2> QED
    BY <1>7, <2>2, ChangesFits
<1>8. ASSUME NEW n \in Id, Ban(n) PROVE AccountsIInv'
  BY <1>7, <1>8 DEF Ban
<1>9. ASSUME NEW n \in Id, NEW ban \in BOOLEAN, NEW cancel \in BOOLEAN,
             AdminSets(n, ban, cancel)
      PROVE  AccountsIInv'
  BY <1>7, <1>9 DEF AdminSets
<1>10. ASSUME NEW n \in Id, GraceEnds(n) PROVE AccountsIInv'
  <2>1. user[n].isBanned \in BOOLEAN
    BY <1>10 DEF GraceEnds, Existing, AccountsIInv, UsersFit, UserFits, UserRow
  <2> QED
    BY <1>10, <2>1, ChangesFits DEF GraceEnds
<1>11. ASSUME NEW n \in Id, JobScrubs(n) PROVE AccountsIInv'
  BY <1>11, JobScrubsFits
<1>12. CASE JobReads
  <2>1. due' \subseteq requests /\ \A n \in due' : user[n] # Nobody
    BY <1>12 DEF JobReads, IsDue, Existing, AccountsIInv, UsersFit, UserFits
  <2> QED
    BY <1>12, <2>1, SessionTypes, NoRowStep DEF JobReads
<1>13. CASE JobFails
  BY <1>13, SessionTypes, NoRowStep DEF JobFails, AccountsIInv
<1>14. CASE UNCHANGED accountVars
  BY <1>14, SessionTypes, NoRowStep DEF accountVars, AccountsIInv
<1> QED
  BY <1>1, <1>2, <1>3, <1>4, <1>5, <1>6, <1>8, <1>9, <1>10, <1>11, <1>12, <1>13,
     <1>14 DEF AccountsNext

LEMMA AccountsAlwaysFit == AccountsSpec => []AccountsIInv
BY AccountsInitFits, AccountsNextFits, PTL DEF AccountsSpec

(* Users, sessions and the job's list keep their types.                    *)
THEOREM AccountsTypeCorrect == AccountsSpec => []AccountsTypeOK
<1>1. AccountsIInv => AccountsTypeOK
  BY DEF AccountsIInv, AccountsTypeOK, UsersFit, SessionsFit
<1> QED
  BY <1>1, AccountsAlwaysFit, PTL

(* An account is scrubbed only if its user asked for it and the grace      *)
(* period went by, however old the job's list and the syncs' reads are.    *)
THEOREM ScrubsWereAsked == AccountsSpec => []ScrubWasAsked
<1>1. AccountsIInv => ScrubWasAsked
  BY DEF AccountsIInv, ScrubWasAsked, UsersFit, Existing, UserFits
<1> QED
  BY <1>1, AccountsAlwaysFit, PTL

(* An identity that was never verified has no row but those its own first  *)
(* sign-ins created: a sync writes a WorkOS id into the row it read, and   *)
(* one of an unverified address read a row that had that id already.       *)
THEOREM UnverifiedLinksNone == AccountsSpec => []UnverifiedNeverLinks
<1>1. AccountsIInv => UnverifiedNeverLinks
  BY DEF AccountsIInv, UnverifiedNeverLinks, UsersFit, Existing, UserFits
<1> QED
  BY <1>1, AccountsAlwaysFit, PTL

-----------------------------------------------------------------------------
(* Notifications.                                                          *)

\* A call holds a row from when it reads it until it commits or rolls back.
Holds(r, n) == n \in r.todo \/ r.marks[n] # "none"
Holders(calls, n) == {c \in Call : Holds(calls[c], n)}

\* Of the calls that hold a row, each may try it once.
Most == MaxAttempts - 1 + Cardinality(Call)
Budget(rows, calls) ==
    \A n \in Note : rows[n].attempts + Cardinality(Holders(calls, n)) <= Most

NoteRow == [status : {"none", "pending", "delivered", "error"}, attempts : Nat]
Delivering == [pc : {"none", "post", "mark"}, todo : SUBSET Note,
               marks : [Note -> {"none", "delivered", "error"}],
               outcome : {"none", "delivered", "error"}]

\* What a call says was delivered was.
CallFits(r, got) ==
    /\ r \in Delivering
    /\ r.pc = "mark" => r.todo # {} /\ r.outcome # "none"
    /\ r.pc = "mark" /\ r.outcome = "delivered" => Least(r.todo) \in got
    /\ \A n \in Note : r.marks[n] = "delivered" => n \in got
CallsFit(calls, got) == \A c \in Call : CallFits(calls[c], got)

Taken(rows, got) == \A n \in Note : rows[n].status = "delivered" => n \in got

SendersFit ==
    /\ unread \subseteq Note /\ recent \subseteq Note
    /\ sender \in [Sender -> {"idle", "message", "create", "create message", "done"}]
    /\ away \in BOOLEAN
    /\ faults \in 0..MaxFaults

NotesIInv ==
    /\ SendersFit
    /\ received \subseteq Note
    /\ table \in [Note -> NoteRow] /\ Taken(table, received)
    /\ delivery \in [Call -> Delivering] /\ CallsFit(delivery, received)
    /\ Budget(table, delivery)

LEMMA NotesNumbers ==
    /\ Cardinality(Call) \in Nat /\ MaxAttempts \in Nat \ {0}
    /\ Most \in Nat /\ Rows \in Nat /\ Note \subseteq Nat
  BY NotesAssumption, FS_CardinalityType DEF Most, Note

LEMMA FaultsCount ==
    ASSUME faults \in 0..MaxFaults, Fault \/ UNCHANGED faults
    PROVE  faults' \in 0..MaxFaults
  BY NotesAssumption DEF Fault

LEMMA LeastNote ==
    ASSUME NEW S \in SUBSET Note, S # {}
    PROVE  Least(S) \in S
<1>1. \E n \in S : \A o \in S : n <= o
  BY LeastMatch, NotesNumbers
<1> QED
  BY <1>1 DEF Least

LEMMA HoldersCount ==
    ASSUME NEW calls, NEW n
    PROVE  /\ IsFiniteSet(Holders(calls, n))
           /\ Cardinality(Holders(calls, n)) \in Nat
           /\ Cardinality(Holders(calls, n)) <= Cardinality(Call)
  BY NotesAssumption, FS_Subset, FS_CardinalityType DEF Holders

(* A call that lets go of rows, or goes on with those it holds, leaves the *)
(* budget of every row it does not try.                                    *)
LEMMA FewerHolders ==
    ASSUME NEW old, NEW new, NEW n, NEW c \in Call,
           \A o \in Call \ {c} : new[o] = old[o],
           Holds(new[c], n) => Holds(old[c], n)
    PROVE  /\ Cardinality(Holders(new, n)) <= Cardinality(Holders(old, n))
           /\ Holds(old[c], n) /\ ~Holds(new[c], n) =>
                Cardinality(Holders(new, n)) = Cardinality(Holders(old, n)) - 1
<1>1. Holders(new, n) \subseteq Holders(old, n)
  BY DEF Holders
<1>2. Cardinality(Holders(new, n)) <= Cardinality(Holders(old, n))
  BY <1>1, HoldersCount, FS_Subset
<1>3. ASSUME Holds(old[c], n), ~Holds(new[c], n)
      PROVE  Cardinality(Holders(new, n)) = Cardinality(Holders(old, n)) - 1
  <2>1. Holders(new, n) = Holders(old, n) \ {c} /\ c \in Holders(old, n)
    BY <1>3 DEF Holders
  <2> QED
    BY <2>1, HoldersCount, FS_RemoveElement
<1> QED
  BY <1>2, <1>3

LEMMA NotesInitFits == NotesInit => NotesIInv
<1> SUFFICES ASSUME NotesInit PROVE NotesIInv
  OBVIOUS
<1>1. 0 \in 0..MaxFaults
  BY NotesAssumption
<1>9. SendersFit /\ received \subseteq Note
  BY <1>1 DEF NotesInit, SendersFit
<1>2. table \in [Note -> NoteRow] /\ Taken(table, received)
  BY DEF NotesInit, NoNote, NoteRow, Taken
<1>3. NoCall \in Delivering /\ \A n \in Note : ~Holds(NoCall, n)
  BY DEF NoCall, NoMarks, Delivering, Holds
<1>4. delivery \in [Call -> Delivering] /\ CallsFit(delivery, received)
  BY <1>3 DEF NotesInit, CallsFit, CallFits, NoCall, NoMarks
<1>5. ASSUME NEW n \in Note
      PROVE  table[n].attempts + Cardinality(Holders(delivery, n)) <= Most
  <2>1. Holders(delivery, n) = {}
    BY <1>3 DEF NotesInit, Holders
  <2>2. table[n].attempts = 0
    BY DEF NotesInit, NoNote
  <2> QED
    BY <2>1, <2>2, NotesNumbers, FS_EmptySet
<1> QED
  BY <1>9, <1>2, <1>4, <1>5 DEF NotesIInv, Budget

(* What requests and the user do touches no call of the job.               *)
LEMMA SendersKeep ==
    ASSUME NotesIInv, SendersFit', UNCHANGED <<received, delivery>>,
           table' \in [Note -> NoteRow], Taken(table, received)',
           \A n \in Note : table'[n].attempts = table[n].attempts
    PROVE  NotesIInv'
<1>1. delivery' \in [Call -> Delivering] /\ CallsFit(delivery, received)' /\ received' \subseteq Note
  BY DEF NotesIInv
<1>2. Budget(table, delivery)'
  BY DEF NotesIInv, Budget
<1> QED
  BY <1>1, <1>2 DEF NotesIInv

LEMMA SendStep ==
    ASSUME NotesIInv, NEW s \in Sender, Send(s) \/ Dedupe(s) \/ Create(s)
    PROVE  NotesIInv'
<1>1. /\ sender' \in [Sender -> {"idle", "message", "create", "create message", "done"}]
      /\ UNCHANGED <<away, received, delivery>>
  BY DEF Send, Dedupe, Create, Goes, NotesIInv, SendersFit
<1>2. faults' \in 0..MaxFaults
  <2>1. Fault \/ UNCHANGED faults
    BY DEF Send, Dedupe, Create, MayFail
  <2> QED
    BY <2>1, FaultsCount DEF NotesIInv, SendersFit
<1>3. CASE UNCHANGED <<table, unread, recent>>
  <2>1. SendersFit'
    BY <1>1, <1>2, <1>3 DEF NotesIInv, SendersFit
  <2> QED
    BY <1>1, <1>3, <2>1, SendersKeep DEF NotesIInv, Taken
<1>4. ASSUME NEW n \in Note,
             table[n] = NoNote,
             table' = [table EXCEPT ![n].status = "pending"],
             unread' = unread \cup {n},
             recent' = IF sender[s] = "create" THEN recent ELSE recent \cup {n}
      PROVE  NotesIInv'
  <2>1. SendersFit'
    BY <1>1, <1>2, <1>4 DEF NotesIInv, SendersFit
  <2>2. table \in [Note -> NoteRow]
    BY DEF NotesIInv
  <2> DEFINE new == [table[n] EXCEPT !.status = "pending"]
  <2>5. new = [status |-> "pending", attempts |-> table[n].attempts]
    BY <2>2 DEF NoteRow
  <2>3. table' = [table EXCEPT ![n] = [status |-> "pending", attempts |-> table[n].attempts]]
    BY <1>4, <2>5
  <2>4. /\ table' \in [Note -> NoteRow]
        /\ \A o \in Note : table'[o].attempts = table[o].attempts
        /\ \A o \in Note : table'[o].status = "delivered" => table[o].status = "delivered"
    BY <2>2, <2>3 DEF NoteRow
  <2> QED
    BY <1>1, <2>1, <2>4, SendersKeep DEF NotesIInv, Taken
<1> QED
  BY <1>3, <1>4 DEF Send, Dedupe, Create

LEMMA ReadStep ==
    ASSUME NotesIInv,
           MarkAllRead \/ Leaves \/ \E n \in Note : MarkRead(n) \/ Ages(n)
    PROVE  NotesIInv'
<1>1. UNCHANGED <<table, received, delivery, sender, faults>>
  BY DEF MarkAllRead, Leaves, MarkRead, Ages, Columns
<1>2. unread' \subseteq Note /\ recent' \subseteq Note /\ away' \in BOOLEAN
  BY DEF MarkAllRead, Leaves, MarkRead, Ages, Columns, NotesIInv, SendersFit
<1>3. SendersFit'
  BY <1>1, <1>2 DEF NotesIInv, SendersFit
<1> QED
  BY <1>1, <1>3, SendersKeep DEF NotesIInv, Taken

(* A step of a call: it fits, what was taken stays taken, and no row is    *)
(* tried more often than its holders may.                                  *)
LEMMA CallKeeps ==
    ASSUME NotesIInv, NEW c \in Call, NEW r, NEW got \in SUBSET Note,
           Calls(c, r), CallFits(r, got), received' = got, received \subseteq got,
           table' = table, faults' \in 0..MaxFaults,
           \A n \in Note : Holds(r, n) => Holds(delivery[c], n) \/ table[n].attempts < MaxAttempts
    PROVE  NotesIInv'
<1>1. SendersFit' /\ received' \subseteq Note
  BY DEF Calls, NotesIInv, SendersFit
<1>2. /\ delivery' = [delivery EXCEPT ![c] = r] /\ delivery \in [Call -> Delivering]
      /\ r \in Delivering
  BY DEF Calls, NotesIInv, CallFits
<1>3. CallsFit(delivery, received)'
  BY <1>2 DEF NotesIInv, CallsFit, CallFits
<1>4. table' \in [Note -> NoteRow] /\ Taken(table, received)'
  BY DEF NotesIInv, Taken
<1>5. ASSUME NEW n \in Note
      PROVE  table[n].attempts + Cardinality(Holders(delivery', n)) <= Most
  <2> DEFINE tried == table[n].attempts
             before == Cardinality(Holders(delivery, n))
             after == Cardinality(Holders(delivery', n))
  <2>1. /\ tried \in Nat /\ before \in Nat /\ after \in Nat /\ after <= Cardinality(Call)
        /\ tried + before <= Most
    BY HoldersCount DEF NotesIInv, Budget, NoteRow
  <2>2. CASE Holds(r, n) => Holds(delivery[c], n)
    <3>1. after <= before
      BY <1>2, <2>2, FewerHolders
    <3> QED
      BY <2>1, <3>1, NotesNumbers
  <2>3. CASE tried < MaxAttempts
    BY <2>1, <2>3, NotesNumbers DEF Most
  <2> QED
    BY <2>2, <2>3
<1>6. Budget(table, delivery)'
  BY <1>5 DEF Budget
<1> QED
  BY <1>1, <1>2, <1>3, <1>4, <1>6 DEF NotesIInv

LEMMA NoCallFits ==
    ASSUME NEW got PROVE CallFits(NoCall, got) /\ \A n \in Note : ~Holds(NoCall, n)
  BY DEF NoCall, NoMarks, Delivering, Holds, CallFits

LEMMA FindPendingStep ==
    ASSUME NotesIInv, NEW c \in Call, FindPending(c)
    PROVE  NotesIInv'
<1> DEFINE found == {n \in Note : Undelivered(n)}
           batch == {n \in found : Cardinality({o \in found : o < n}) < Limit}
           r == [NoCall EXCEPT !.pc = "post", !.todo = batch]
<1>1. Calls(c, r) /\ UNCHANGED <<table, received, faults>>
  BY DEF FindPending
<1>2. r.pc = "post" /\ r.todo = batch /\ r.marks = NoMarks /\ r.outcome = "none"
  BY DEF NoCall
<1>5. batch \in SUBSET Note => r \in Delivering
  BY DEF NoCall, NoMarks, Delivering
<1>3. batch \in SUBSET Note /\ \A n \in batch : table[n].attempts < MaxAttempts
  BY DEF Undelivered
<1> HIDE DEF batch, r
<1>4. CallFits(r, received) /\ \A n \in Note : Holds(r, n) => n \in batch
  BY <1>2, <1>3, <1>5 DEF CallFits, NoMarks, Holds
<1> QED
  BY <1>1, <1>3, <1>4, CallKeeps DEF NotesIInv, SendersFit

LEMMA DeliverStep ==
    ASSUME NotesIInv, NEW c \in Call, Deliver(c)
    PROVE  NotesIInv'
<1> DEFINE n == Least(delivery[c].todo)
<1>1. delivery[c] \in Delivering /\ CallFits(delivery[c], received)
  BY DEF NotesIInv, CallsFit
<1>2. n \in Note /\ delivery[c].todo # {} /\ UNCHANGED table
  BY <1>1, LeastNote DEF Deliver, Delivering
<1>3. PICK answered \in BOOLEAN, taken \in BOOLEAN :
        /\ MayFail(~answered)
        /\ received' = IF taken THEN received \cup {n} ELSE received
        /\ Calls(c, [delivery[c] EXCEPT !.pc = "mark",
                !.outcome = IF answered /\ taken THEN "delivered" ELSE "error"])
  BY DEF Deliver
<1> DEFINE outcome == IF answered /\ taken THEN "delivered" ELSE "error"
           r == [delivery[c] EXCEPT !.pc = "mark", !.outcome = outcome]
<1>4. /\ r.pc = "mark" /\ r.todo = delivery[c].todo /\ r.marks = delivery[c].marks
      /\ r.outcome = outcome /\ r \in Delivering
  BY <1>1 DEF Delivering
<1>5. /\ outcome \in {"delivered", "error"} /\ (outcome = "delivered" => n \in received')
      /\ received \subseteq received' /\ received' \in SUBSET Note
  BY <1>2, <1>3 DEF NotesIInv
<1>6. faults' \in 0..MaxFaults
  BY <1>3, FaultsCount DEF MayFail, NotesIInv, SendersFit
<1>7. Calls(c, r)
  BY <1>3
<1> HIDE DEF outcome, r
<1> DEFINE got == received'
<1>8. received' = got /\ got \in SUBSET Note /\ received \subseteq got
  BY <1>5
<1>9. \A o \in Note : r.marks[o] = "delivered" => o \in got
  BY <1>1, <1>4, <1>8 DEF CallFits
<1>10. r.todo # {} /\ r.outcome # "none" /\ (r.outcome = "delivered" => Least(r.todo) \in got)
  BY <1>2, <1>4, <1>5
<1> HIDE DEF got
<1>11. CallFits(r, got)
  BY <1>4, <1>9, <1>10 DEF CallFits
<1>12. \A o \in Note : Holds(r, o) => Holds(delivery[c], o)
  BY <1>4 DEF Holds
<1> QED
  BY <1>2, <1>6, <1>7, <1>8, <1>11, <1>12, CallKeeps

LEMMA MarkStep ==
    ASSUME NotesIInv, NEW c \in Call, Mark(c)
    PROVE  NotesIInv'
<1> DEFINE n == Least(delivery[c].todo)
           outcome == delivery[c].outcome
           marks == [delivery[c].marks EXCEPT ![n] = outcome]
           r == [delivery[c] EXCEPT !.pc = "post", !.todo = @ \ {n}, !.outcome = "none",
                                    !.marks[n] = delivery[c].outcome]
<1>1. delivery[c] \in Delivering /\ CallFits(delivery[c], received)
  BY DEF NotesIInv, CallsFit
<1>2. delivery[c].todo # {} /\ outcome # "none" /\ (outcome = "delivered" => n \in received)
  BY <1>1 DEF Mark, CallFits
<1>3. n \in delivery[c].todo /\ delivery[c].todo \subseteq Note
  BY <1>1, <1>2, LeastNote DEF Delivering
<1>4. /\ r.pc = "post" /\ r.todo = delivery[c].todo \ {n} /\ r.marks = marks
      /\ r.outcome = "none" /\ r \in Delivering
  BY <1>1 DEF Delivering
<1>5. Calls(c, r) /\ UNCHANGED <<table, received, faults>>
  BY DEF Mark
<1>6. /\ marks \in [Note -> {"none", "delivered", "error"}]
      /\ marks[n] = outcome
      /\ \A o \in Note \ {n} : marks[o] = delivery[c].marks[o]
  BY <1>1, <1>3 DEF Delivering
<1> HIDE DEF n, outcome, marks, r
<1>7. CallFits(r, received)
  BY <1>1, <1>2, <1>3, <1>4, <1>6 DEF CallFits
<1>8. \A o \in Note : Holds(r, o) => Holds(delivery[c], o)
  BY <1>3, <1>4, <1>6 DEF Holds
<1> QED
  BY <1>5, <1>7, <1>8, CallKeeps DEF NotesIInv, SendersFit

LEMMA RollBackStep ==
    ASSUME NotesIInv, NEW c \in Call, RollBack(c)
    PROVE  NotesIInv'
<1>1. Calls(c, NoCall) /\ UNCHANGED <<table, received>> /\ faults' \in 0..MaxFaults
  BY FaultsCount DEF RollBack, NotesIInv, SendersFit
<1> QED
  BY <1>1, NoCallFits, CallKeeps DEF NotesIInv

LEMMA CommitStep ==
    ASSUME NotesIInv, NEW c \in Call, Commit(c)
    PROVE  NotesIInv'
<1> DEFINE marks == delivery[c].marks
<1>1. delivery[c] \in Delivering /\ CallFits(delivery[c], received)
  BY DEF NotesIInv, CallsFit
<1>2. /\ delivery' = [delivery EXCEPT ![c] = NoCall] /\ delivery \in [Call -> Delivering]
      /\ table' = [n \in Note |-> IF marks[n] = "none" THEN table[n]
                      ELSE [status |-> marks[n], attempts |-> table[n].attempts + 1]]
      /\ UNCHANGED <<unread, recent, sender, away, received, faults>>
  BY DEF Commit, Calls, NotesIInv
<1>3. SendersFit' /\ received' \subseteq Note
  BY <1>2 DEF NotesIInv, SendersFit
<1>4. /\ marks \in [Note -> {"none", "delivered", "error"}]
      /\ \A n \in Note : marks[n] = "delivered" => n \in received
      /\ table \in [Note -> NoteRow]
  BY <1>1 DEF Delivering, CallFits, NotesIInv
<1>5. table' \in [Note -> NoteRow] /\ Taken(table, received)'
  <2>1. ASSUME NEW n \in Note
        PROVE  table'[n] \in NoteRow /\ (table'[n].status = "delivered" => n \in received)
    <3>1. CASE marks[n] = "none"
      BY <1>2, <1>4, <3>1 DEF NotesIInv, Taken
    <3>2. CASE marks[n] # "none"
      <4>1. table'[n] = [status |-> marks[n], attempts |-> table[n].attempts + 1]
        BY <1>2, <3>2
      <4>2. marks[n] \in {"delivered", "error"} /\ table[n].attempts \in Nat
        BY <1>4, <3>2 DEF NoteRow
      <4> QED
        BY <1>4, <4>1, <4>2 DEF NoteRow
    <3> QED
      BY <3>1, <3>2
  <2>2. table' = [n \in Note |-> table'[n]]
    BY <1>2
  <2> QED
    BY <1>2, <2>1, <2>2 DEF Taken
<1>6. delivery' \in [Call -> Delivering] /\ CallsFit(delivery, received)'
  BY <1>2, NoCallFits DEF NotesIInv, CallsFit, CallFits
<1>7. ASSUME NEW n \in Note
      PROVE  table'[n].attempts + Cardinality(Holders(delivery', n)) <= Most
  <2> DEFINE tried == table[n].attempts
             before == Cardinality(Holders(delivery, n))
             after == Cardinality(Holders(delivery', n))
  <2>1. tried \in Nat /\ before \in Nat /\ after \in Nat /\ tried + before <= Most
    BY HoldersCount DEF NotesIInv, Budget, NoteRow
  <2>2. /\ ~Holds(delivery'[c], n)
        /\ \A o \in Call \ {c} : delivery'[o] = delivery[o]
    BY <1>2, NoCallFits
  <2>3. CASE marks[n] = "none"
    <3>1. table'[n].attempts = tried
      BY <1>2, <2>3
    <3>2. after <= before
      BY <2>2, FewerHolders
    <3> QED
      BY <2>1, <3>1, <3>2, NotesNumbers
  <2>4. CASE marks[n] # "none"
    <3>1. table'[n].attempts = tried + 1
      BY <1>2, <2>4
    <3>2. after = before - 1
      BY <2>2, <2>4, FewerHolders DEF Holds
    <3> QED
      BY <2>1, <3>1, <3>2, NotesNumbers
  <2> QED
    BY <2>3, <2>4
<1>8. Budget(table, delivery)'
  BY <1>7 DEF Budget
<1> QED
  BY <1>3, <1>5, <1>6, <1>8 DEF NotesIInv

LEMMA NotesNextFits == NotesIInv /\ [NotesNext]_noteVars => NotesIInv'
<1> SUFFICES ASSUME NotesIInv, [NotesNext]_noteVars PROVE NotesIInv'
  OBVIOUS
<1>1. CASE \E s \in Sender : Send(s) \/ Dedupe(s) \/ Create(s)
  BY <1>1, SendStep
<1>2. CASE MarkAllRead \/ Leaves \/ \E n \in Note : MarkRead(n) \/ Ages(n)
  BY <1>2, ReadStep
<1>3. ASSUME NEW c \in Call, CallStep(c) \/ RollBack(c)
      PROVE  NotesIInv'
  BY <1>3, FindPendingStep, DeliverStep, MarkStep, CommitStep, RollBackStep DEF CallStep
<1>4. CASE UNCHANGED noteVars
  BY <1>4 DEF noteVars, NotesIInv, SendersFit, Taken, Budget, CallsFit
<1> QED
  BY <1>1, <1>2, <1>3, <1>4 DEF NotesNext

LEMMA NotesAlwaysFit == NotesSpec => []NotesIInv
  BY NotesInitFits, NotesNextFits, PTL DEF NotesSpec

(* The variables keep their types: calls that overlap try a row once more  *)
(* each than NOTIFICATION_DELIVERY_MAX_ATTEMPTS and no more.               *)
THEOREM NotesTypeCorrect == NotesSpec => []NotesTypeOK
<1>1. NotesIInv => NotesTypeOK
  <2> SUFFICES ASSUME NotesIInv PROVE NotesTypeOK
    OBVIOUS
  <2>1. ASSUME NEW n \in Note
        PROVE  table[n] \in [status : {"none", "pending", "delivered", "error"},
                             attempts : 0..Most]
    <3>1. table[n] \in NoteRow /\ table[n].attempts + Cardinality(Holders(delivery, n)) <= Most
      BY DEF NotesIInv, Budget
    <3> QED
      BY <3>1, HoldersCount, NotesNumbers DEF NoteRow
  <2> QED
    BY <2>1 DEF NotesIInv, SendersFit, NotesTypeOK, Most, Delivering
<1> QED
  BY <1>1, NotesAlwaysFit, PTL

(* A row that is marked delivered was taken by the webhook, whatever calls *)
(* overlap and roll back: only that what was taken may be posted again.    *)
THEOREM DeliveredWasTaken ==
    NotesSpec => [](\A n \in Note : table[n].status = "delivered" => n \in received)
<1>1. NotesIInv => \A n \in Note : table[n].status = "delivered" => n \in received
  BY DEF NotesIInv, Taken
<1> QED
  BY <1>1, NotesAlwaysFit, PTL

-----------------------------------------------------------------------------
(* All services.                                                           *)

StripeFacts == INSTANCE StripeProofs WITH
    User <- {ann}, Customer <- {cust}, Sub <- {r1, r2}, Design <- {},
    Request <- {r3}, MaxEvents <- 4, MaxDeliveries <- 1,
    InOrder <- TRUE, Tidy <- TRUE,
    user <- client, requests <- designs, deliveries <- attempts

(* What a behaviour of the instances of MCServices does to the variables   *)
(* of one service is a behaviour of that service.                          *)
LEMMA ServicesOfSides ==
    SidesSpec => /\ InboxSpec /\ Stripe!Spec /\ AccountsSpec /\ NotesSpec
                 /\ Spec /\ RoomsSpec
<1>1. SidesInit => /\ InboxInit /\ Stripe!Init /\ AccountsInit /\ NotesInit
                   /\ Init /\ RoomsInit
  BY DEF SidesInit
<1>2. [SidesNext]_all => /\ [InboxNext]_lagoVars /\ [Stripe!Next]_(Stripe!vars)
                         /\ [AccountsNext]_accountVars /\ [NotesNext]_noteVars
                         /\ [Next]_vars /\ [RoomsNext]_roomVars
  BY DEF SidesNext, others, all, stripe, Stripe!vars, Stripe!stripeVars, Stripe!appVars
<1> QED
  BY <1>1, <1>2, PTL
  DEF SidesSpec, InboxSpec, Stripe!Spec, AccountsSpec, NotesSpec, Spec, RoomsSpec

(* The part of Stripe keeps the types of its variables: what StripeProofs   *)
(* proves of every instance, of the instance that MCServices checks.       *)
LEMMA StripeTypes == Stripe!Spec => []Stripe!TypeOK
<1>1. StripeFacts!Spec => []StripeFacts!TypeOK
  BY MembersAssumption, StripeFacts!TypeCorrect
<1>2. Stripe!Spec <=> StripeFacts!Spec
  BY PTL DEF Stripe!Init, StripeFacts!Init, Stripe!vars, StripeFacts!vars,
      Stripe!appVars, StripeFacts!appVars, Stripe!stripeVars,
      StripeFacts!stripeVars, Stripe!Next, StripeFacts!Next,
      Stripe!CheckoutNext, StripeFacts!CheckoutNext, Stripe!StripeNext,
      StripeFacts!StripeNext, Stripe!StartCheckout, StripeFacts!StartCheckout,
      Stripe!CreateCustomer, StripeFacts!CreateCustomer, Stripe!WriteCustomer,
      StripeFacts!WriteCustomer, Stripe!OpenSession, StripeFacts!OpenSession,
      Stripe!GiveUp, StripeFacts!GiveUp, Stripe!Pay, StripeFacts!Pay,
      Stripe!DashboardSubscribe, StripeFacts!DashboardSubscribe, Stripe!Change,
      StripeFacts!Change, Stripe!Other, StripeFacts!Other, Stripe!Deliver,
      StripeFacts!Deliver, Stripe!UpdateUser, StripeFacts!UpdateUser,
      Stripe!RecordDesign, StripeFacts!RecordDesign, Stripe!Ignore,
      StripeFacts!Ignore, Stripe!Fail, StripeFacts!Fail, Stripe!Redeliver,
      StripeFacts!Redeliver, Stripe!CloseAccount, StripeFacts!CloseAccount,
      Stripe!Purchase, StripeFacts!Purchase, Stripe!EventId,
      StripeFacts!EventId, Stripe!Tier, StripeFacts!Tier, Stripe!Paid,
      StripeFacts!Paid, Stripe!SubStatus, StripeFacts!SubStatus,
      Stripe!PurchaseObject, StripeFacts!PurchaseObject, Stripe!EventObject,
      StripeFacts!EventObject, Stripe!ProcState, StripeFacts!ProcState,
      Stripe!Idle, StripeFacts!Idle, Stripe!GrantedTier,
      StripeFacts!GrantedTier, Stripe!EventFor, StripeFacts!EventFor,
      Stripe!OtherEvent, StripeFacts!OtherEvent, Stripe!Emit, StripeFacts!Emit,
      Stripe!Live, StripeFacts!Live, Stripe!Subscribed, StripeFacts!Subscribed,
      Stripe!MaySubscribe, StripeFacts!MaySubscribe, Stripe!Sent,
      StripeFacts!Sent, Stripe!FindUser, StripeFacts!FindUser,
      Stripe!BillingUpdate, StripeFacts!BillingUpdate, Stripe!Clashes,
      StripeFacts!Clashes, Stripe!Mark, StripeFacts!Mark, Stripe!Spec,
      StripeFacts!Spec
<1>3. Stripe!TypeOK <=> StripeFacts!TypeOK
  BY DEF Stripe!TypeOK, StripeFacts!TypeOK, Stripe!UserRow, StripeFacts!UserRow,
      Stripe!PurchaseObject, StripeFacts!PurchaseObject, Stripe!EventObject,
      StripeFacts!EventObject, Stripe!ProcState, StripeFacts!ProcState,
      Stripe!EventId, StripeFacts!EventId, Stripe!Purchase,
      StripeFacts!Purchase, Stripe!Tier, StripeFacts!Tier, Stripe!Paid,
      StripeFacts!Paid, Stripe!SubStatus, StripeFacts!SubStatus
<1> QED
  BY <1>1, <1>2, <1>3, PTL

(* The variables of each service keep their types while it runs. *)
THEOREM ServicesTypesStayOK == SidesSpec => []TypesOK
<1>1. InboxTypeOK /\ Stripe!TypeOK /\ AccountsTypeOK /\ NotesTypeOK /\ TypeOK
      /\ RoomsTypeOK => TypesOK
  BY DEF TypesOK
<1> QED
  BY <1>1, ServicesOfSides, InboxTypeCorrect, StripeTypes, AccountsTypeCorrect,
     NotesTypeCorrect, ListingTypeCorrect, RoomsTypeCorrect, PTL
=============================================================================
