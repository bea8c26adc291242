----------------------------- MODULE MCServices -----------------------------
(* Small instances of the services that share no rows: Lago's inbox,       *)
(* Stripe, the accounts, the notifications, the daily job of listings and  *)
(* calls.                                                                  *)
(* Each behaviour is of one of them, side; the variables of the others     *)
(* keep a value of theirs.                                                 *)
EXTENDS FiniteSets, LagoInbox, Accounts, Notifications, ListingLifecycle, CallRooms

CONSTANTS sub, inv, cust, ended, bare, billing, other, ann, bob, a1, a2, r1, r2, r3

ASSUME MembersAssumption == None \notin {ann, cust, r1, r2}

VARIABLES
    side,
    client, inbox, retries, designs, proc, owner, purchase, events, attempts

-----------------------------------------------------------------------------
\* A subscription, the end of it without its customer, its invoice.
Webhooks ==
    [e \in Event |->
        CASE e = billing -> [kind |-> "subscription", object |-> sub, sub |-> None,
                             customer |-> cust, status |-> "active"]
          [] e = ended -> [kind |-> "subscription", object |-> sub, sub |-> None,
                           customer |-> None, status |-> "ended"]
          [] e = bare -> [kind |-> "invoice", object |-> inv, sub |-> sub,
                          customer |-> None, status |-> "active"]
          [] e = other -> [kind |-> "other", object |-> inv, sub |-> None,
                           customer |-> None, status |-> "active"]]
HeldBy == [o \in Object |-> cust]

\* Ann has changed her address; Bob gave her first one, and never verified it.
Logins ==
    {[identity |-> ann, email |-> a1, verified |-> TRUE],
     [identity |-> ann, email |-> a2, verified |-> TRUE],
     [identity |-> bob, email |-> a1, verified |-> FALSE]}

\* Bounds: two requests are at work on the rows of users at a time, and only
\* the oldest row is banned or asked to be deleted.
FewAtWork ==
    /\ Cardinality({l \in Login : session[l] # Away}) <= 2
    /\ user[2] # Nobody => ~user[2].isBanned /\ user[2].asked = "no"

\* Events in order, one subscription at a time.
Stripe == INSTANCE StripeBilling WITH
    User <- {ann}, Customer <- {cust}, Sub <- {r1, r2}, Design <- {},
    Request <- {r3}, MaxEvents <- 4, MaxDeliveries <- 1,
    InOrder <- TRUE, Tidy <- TRUE,
    user <- client, requests <- designs, deliveries <- attempts

stripe == <<client, inbox, retries, designs, proc, owner, purchase, events, attempts>>

\* Stripe starts from a few states, the others from one.
SidesInit ==
    /\ side \in {"lago", "stripe", "users", "notes", "listings", "calls"}
    /\ InboxInit /\ Stripe!Init /\ AccountsInit /\ NotesInit /\ Init /\ RoomsInit

all == <<side, lagoVars, stripe, accountVars, noteVars, vars, roomVars>>

others(s) ==
    /\ s # "lago" => UNCHANGED lagoVars
    /\ s # "stripe" => UNCHANGED stripe
    /\ s # "users" => UNCHANGED accountVars
    /\ s # "notes" => UNCHANGED noteVars
    /\ s # "listings" => UNCHANGED vars
    /\ s # "calls" => UNCHANGED roomVars

SidesNext ==
    /\ \/ side = "lago" /\ InboxNext
       \/ side = "stripe" /\ Stripe!Next
       \/ side = "users" /\ AccountsNext /\ FewAtWork'
       \/ side = "notes" /\ NotesNext
       \/ side = "listings" /\ Next
       \/ side = "calls" /\ RoomsNext
    /\ others(side)
    /\ UNCHANGED side

\* What is fair of each part: one part runs, so one WF serves them all.
mine ==
    CASE side = "stripe" -> stripe
      [] side = "users" -> accountVars
      [] side = "notes" -> noteVars
      [] side = "calls" -> roomVars
      [] OTHER -> vars

Turn(i) ==
  /\ UNCHANGED side
  /\ \/ side = "stripe" /\ Stripe!Deliver(i)
     \/ side = "users" /\ i = 1 /\ (JobReads \/ \E n \in 1..2 : JobScrubs(n))
     \/ side = "users" /\ i = 2 /\ GraceEnds(1)
     \/ side = "notes" /\ i \in 1..2 /\ CallStep(IF i = 1 THEN ann ELSE bob)
     \/ side = "listings" /\ i = 1 /\ Maintenance
     \/ side = "calls" /\ i = 1 /\ RoomsAge
     \/ side = "calls" /\ i = 2 /\ Continue(r1)
     \/ side = "calls" /\ i = 3 /\ Continue(r2)
     \/ side = "calls" /\ i = 4 /\ SweepStart(r2)

SidesSpec ==
    /\ SidesInit /\ [][SidesNext]_all
    /\ \A i \in 1..4 : WF_mine(Turn(i))
    /\ SF_accountVars(side = "users" /\ JobScrubs(1))

-----------------------------------------------------------------------------
TypesOK ==
    /\ side = "lago" => InboxTypeOK
    /\ side = "stripe" => Stripe!TypeOK
    /\ side = "users" => AccountsTypeOK
    /\ side = "notes" => NotesTypeOK
    /\ side = "listings" => TypeOK
    /\ side = "calls" => RoomsTypeOK

TierSettles == Stripe!TierSettles

\* DeletionSettles, of the oldest row, which stands for all.
OldestSettles == Settles(1)
=============================================================================
