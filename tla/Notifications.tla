----------------------------- MODULE Notifications -----------------------------
(***************************************************************************)
(* The notifications of a user, src/lib/notification-service.ts: what is   *)
(* sent is a row, unless a message already has an unread one; a job posts  *)
(* the rows to a webhook and marks them, a call of it in one transaction,  *)
(* which ends after thirty seconds.  Calls may overlap.                    *)
(***************************************************************************)
EXTENDS Integers, FiniteSets

CONSTANTS
    Rows,           \* bound on the rows, 1..Rows in the order of createdAt
    Sender,         \* requests that notify the user
    Call,           \* calls of the job that may overlap
    Refused,        \* rows that the webhook never takes
    Limit,          \* NOTIFICATION_DELIVERY_LIMIT
    MaxAttempts,    \* NOTIFICATION_DELIVERY_MAX_ATTEMPTS
    MaxFaults       \* bound on lost answers, failed queries, deaths and timeouts

ASSUME NotesAssumption ==
    /\ {Rows, MaxFaults} \subseteq Nat /\ {Limit, MaxAttempts} \subseteq Nat \ {0}
    /\ IsFiniteSet(Call)

Note == 1..Rows

VARIABLES
    table,      \* row -> its delivery columns
    unread,
    recent,     \* rows of messages, of the last ten minutes
    sender,     \* request -> what it does next
    away,       \* the user is banned or has asked for deletion
    received,   \* rows the webhook took
    delivery,
    faults

noteVars == <<table, unread, recent, sender, away, received, delivery, faults>>

NoNote == [status |-> "none", attempts |-> 0]
NoMarks == [n \in Note |-> "none"]
NoCall == [pc |-> "none", todo |-> {}, marks |-> NoMarks, outcome |-> "none"]

\* Calls that overlap may post a row once more each than MaxAttempts.
NotesTypeOK ==
    /\ table \in [Note -> [status : {"none", "pending", "delivered", "error"},
                           attempts : 0..(MaxAttempts - 1 + Cardinality(Call))]]
    /\ unread \subseteq Note /\ recent \subseteq Note /\ received \subseteq Note
    /\ sender \in [Sender -> {"idle", "message", "create", "create message", "done"}]
    /\ away \in BOOLEAN
    /\ delivery \in [Call -> [pc : {"none", "post", "mark"}, todo : SUBSET Note,
                          marks : [Note -> {"none", "delivered", "error"}],
                          outcome : {"none", "delivered", "error"}]]
    /\ faults \in 0..MaxFaults

NotesInit ==
    /\ table = [n \in Note |-> NoNote]
    /\ unread = {} /\ recent = {} /\ received = {}
    /\ sender = [s \in Sender |-> "idle"]
    /\ away = FALSE
    /\ delivery = [c \in Call |-> NoCall]
    /\ faults = 0

Fault == faults < MaxFaults /\ faults' = faults + 1
MayFail(fails) == IF fails THEN Fault ELSE UNCHANGED faults

-----------------------------------------------------------------------------
Goes(s, step) ==
    /\ sender' = [sender EXCEPT ![s] = step]
    /\ UNCHANGED <<away, received, delivery>>

Send(s) ==
    /\ sender[s] = "idle"
    /\ \E step \in {"message", "create"} : Goes(s, step)
    /\ UNCHANGED <<table, unread, recent, faults>>

\* createInAppNotificationDeduped: a failed query is as good as none found.
Dedupe(s) ==
    /\ sender[s] = "message"
    /\ \E fails \in BOOLEAN :
        /\ MayFail(fails)
        /\ Goes(s, IF ~fails /\ recent \cap unread # {} THEN "done" ELSE "create message")
    /\ UNCHANGED <<table, unread, recent>>

\* createInAppNotification: what cannot be stored is given up.
Create(s) ==
    /\ sender[s] \in {"create", "create message"}
    /\ \/ /\ \E n \in Note :
             /\ table[n] = NoNote /\ \A o \in Note : o < n => table[o] # NoNote
             /\ table' = [table EXCEPT ![n].status = "pending"]
             /\ unread' = unread \cup {n}
             /\ recent' = IF sender[s] = "create" THEN recent ELSE recent \cup {n}
          /\ UNCHANGED faults
       \/ Fault /\ UNCHANGED <<table, unread, recent>>
    /\ Goes(s, "done")

Columns == UNCHANGED <<table, sender, away, received, delivery, faults>>

\* A row the job has marked is locked.
MarkRead(n) ==
    /\ n \in unread /\ \A c \in Call : delivery[c].marks[n] = "none"
    /\ unread' = unread \ {n}
    /\ UNCHANGED recent /\ Columns

MarkAllRead ==
    /\ unread # {} /\ \A n \in unread, c \in Call : delivery[c].marks[n] = "none"
    /\ unread' = {}
    /\ UNCHANGED recent /\ Columns

Ages(n) ==
    /\ n \in recent
    /\ recent' = recent \ {n}
    /\ UNCHANGED unread /\ Columns

Leaves ==
    /\ away' = ~away
    /\ UNCHANGED <<table, unread, recent, sender, received, delivery, faults>>

-----------------------------------------------------------------------------
Calls(c, r) ==
    /\ delivery' = [delivery EXCEPT ![c] = r]
    /\ UNCHANGED <<unread, recent, sender, away>>

Undelivered(n) ==
    table[n].status \in {"pending", "error"} /\ table[n].attempts < MaxAttempts /\ ~away

Least(S) == CHOOSE n \in S : \A o \in S : n <= o

FindPending(c) ==
    /\ delivery[c] = NoCall
    /\ LET found == {n \in Note : Undelivered(n)}
           batch == {n \in found : Cardinality({o \in found : o < n}) < Limit}
       IN  /\ batch # {}
           /\ Calls(c, [NoCall EXCEPT !.pc = "post", !.todo = batch])
    /\ UNCHANGED <<table, received, faults>>

\* The webhook takes the post, refuses it, or its answer is lost.
Deliver_AnyAnswer(c) ==
    /\ delivery[c].pc = "post" /\ delivery[c].todo # {}
    /\ LET n == Least(delivery[c].todo)
       IN  /\ received' = IF n \in Refused THEN received ELSE received \cup {n}
           /\ Calls(c, [delivery[c] EXCEPT !.pc = "mark", !.outcome = "delivered"])
    /\ UNCHANGED <<table, faults>>

Deliver(c) ==
    /\ delivery[c].pc = "post" /\ delivery[c].todo # {}
    /\ \E answered, taken \in BOOLEAN :
        LET n == Least(delivery[c].todo)
        IN  /\ n \in Refused => answered /\ ~taken
            /\ n \notin Refused => (answered => taken)
            /\ MayFail(~answered)
            /\ received' = IF taken THEN received \cup {n} ELSE received
            /\ Calls(c, [delivery[c] EXCEPT !.pc = "mark",
                    !.outcome = IF answered /\ taken THEN "delivered" ELSE "error"])
    /\ UNCHANGED table

\* The update waits for a call that has marked the row.
Mark(c) ==
    /\ delivery[c].pc = "mark"
    /\ LET n == Least(delivery[c].todo)
       IN  /\ \A o \in Call : delivery[o].marks[n] = "none"
           /\ Calls(c, [delivery[c] EXCEPT !.pc = "post", !.todo = @ \ {n}, !.outcome = "none",
                                       !.marks[n] = delivery[c].outcome])
    /\ UNCHANGED <<table, received, faults>>

Commit(c) ==
    /\ delivery[c].pc = "post" /\ delivery[c].todo = {}
    /\ table' = [n \in Note |-> IF delivery[c].marks[n] = "none" THEN table[n]
                    ELSE [status |-> delivery[c].marks[n], attempts |-> table[n].attempts + 1]]
    /\ Calls(c, NoCall)
    /\ UNCHANGED <<received, faults>>

\* A death, or thirty seconds: every mark is lost, no post is.
RollBack(c) ==
    /\ delivery[c] # NoCall /\ Fault
    /\ Calls(c, NoCall)
    /\ UNCHANGED <<table, received>>

-----------------------------------------------------------------------------
CallStep(c) == FindPending(c) \/ Deliver(c) \/ Mark(c) \/ Commit(c)

NotesNext ==
    \/ \E s \in Sender : Send(s) \/ Dedupe(s) \/ Create(s)
    \/ \E n \in Note : MarkRead(n) \/ Ages(n)
    \/ MarkAllRead \/ Leaves
    \/ \E c \in Call : CallStep(c) \/ RollBack(c)

NotesSpec == NotesInit /\ [][NotesNext]_noteVars

\* The scheduler calls the job every five minutes.
NotesFairSpec == NotesSpec /\ \A c \in Call : WF_noteVars(CallStep(c))

-----------------------------------------------------------------------------
(* Every notification reaches the webhook in the end, or was refused as    *)
(* often as the job may try, unless its user goes away: however calls of   *)
(* the job overlap, whatever they roll back, and although rows in front of *)
(* it are never taken.                                                     *)
Settled(n) ==
    \/ n \in received
    \/ table[n].attempts >= MaxAttempts
    \/ away
AllArrive == \A n \in Note : []<>(table[n] # NoNote => Settled(n))
=============================================================================
