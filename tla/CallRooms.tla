----------------------------- MODULE CallRooms -----------------------------
(***************************************************************************)
(* The calls of one conversation: src/lib/call-service.ts, the requests    *)
(* and LiveKit webhooks that reach it, and its maintenance job.            *)
(*                                                                         *)
(* Each database transaction is one action; what a handler read or decided *)
(* before it is in worker. LiveKit itself (who is connected, which events   *)
(* it sends and sends again) is modelled from how the service uses it.     *)
(* Time is the age of a room: an invite is created with its room, so both  *)
(* deadlines are ages.                                                     *)
(***************************************************************************)
EXTENDS Integers

CONSTANTS
    Room,           \* the rooms the conversation can have
    Profile,        \* its two participants
    Handler,        \* requests and webhook deliveries in flight
    Cron,           \* runs of the maintenance job that may overlap
    NoOne,           \* no room, no profile
    InviteTtl,      \* ten minutes, in clock ticks
    RoomTtl,        \* CALL_ROOM_JOIN_TTL_MS, in clock ticks
    MaxSessions,    \* bound on the times a participant joins a LiveKit room
    MaxHookDeliveries,  \* bound on the deliveries of one webhook
    MaxFailures     \* bound on handlers that die between two transactions

ASSUME ProfileAssumption == \E a, b \in Profile : a # b /\ Profile = {a, b}
ASSUME BoundAssumption ==
    /\ InviteTtl \in Nat /\ RoomTtl \in Nat
    /\ MaxSessions \in Nat /\ MaxHookDeliveries \in Nat /\ MaxFailures \in Nat
ASSUME NoneAssumption == NoOne \notin Room \cup Profile
ASSUME ProcAssumption == Handler \cap Cron = {}

Proc == Handler \cup Cron

Other(p) == CHOOSE q \in Profile : q # p

\* The webhooks LiveKit can send.  A session is one stay of a participant;
\* room_finished carries neither profile nor session.
Hook ==
    [kind : {"joined", "left"}, room : Room, who : Profile,
     session : 1..MaxSessions]
    \cup [kind : {"finished"}, room : Room, who : {NoOne}, session : {0}]

VARIABLES
    room,       \* CallRoom rows: status, and age instead of createdAt
    invite,     \* the CallInvite of each room
    part,       \* CallParticipant rows: joinedAt and leftAt set or null
    endings,    \* room -> number of its terminal CallEvents and broadcasts
    worker,       \* what each handler is about to do
    failures,   \* number of handlers that died so far
    tokens,     \* room -> profiles that hold an unexpired join token
    connected,  \* room -> profiles connected in LiveKit
    sessions,   \* room -> profile -> joins so far
    hooks,      \* webhooks LiveKit has sent, with their deliveries
    effects     \* webhook -> deliveries of it that changed a row

dbVars == <<room, invite, part, endings>>
liveKitVars == <<tokens, connected, sessions, hooks>>
roomVars == <<dbVars, worker, failures, liveKitVars, effects>>

RoomRow == [status : {"none", "active", "ended"}, age : Nat]
InviteRow == [status : {"none", "pending", "accepted", "declined", "missed"},
              to : Profile \cup {NoOne}]
ParticipantRow == [joined : BOOLEAN, left : BOOLEAN]
ProcState ==
    [pc : {"idle", "create", "sweep", "miss"}, room : Room \cup {NoOne},
     who : Profile \cup {NoOne}, event : {"none", "room_expired"},
     todo : SUBSET Room]
    \cup [pc : {"token", "flip", "teardown"}, room : Room,
          who : Profile \cup {NoOne},
          event : {"none", "declined", "room_ended", "room_finished",
                   "room_expired"},
          todo : SUBSET Room]
    \cup [pc : {"respond"}, room : Room, who : Profile,
          event : {"accepted", "declined"}, todo : {{}}]

Resting == [pc |-> "idle", room |-> NoOne, who |-> NoOne, event |-> "none",
         todo |-> {}]

RoomsInit ==
    /\ room = [m \in Room |-> [status |-> "none", age |-> 0]]
    /\ invite = [m \in Room |-> [status |-> "none", to |-> NoOne]]
    /\ part = [m \in Room |-> [p \in Profile |->
                [joined |-> FALSE, left |-> FALSE]]]
    /\ endings = [m \in Room |-> 0]
    /\ worker = [r \in Proc |-> Resting]
    /\ failures = 0
    /\ tokens = [m \in Room |-> {}]
    /\ connected = [m \in Room |-> {}]
    /\ sessions = [m \in Room |-> [p \in Profile |-> 0]]
    /\ hooks = [h \in {} |-> 0]
    /\ effects = [h \in Hook |-> 0]

-----------------------------------------------------------------------------
Active(m) == room[m].status = "active"
Stale(m) == room[m].status = "active" /\ room[m].age > RoomTtl
InviteExpired(m) == invite[m].status = "pending" /\ room[m].age > InviteTtl

Becomes(r, state) == worker' = [worker EXCEPT ![r] = state]
Working(r, pc) == worker[r].pc = pc

(* createCallRoomForConversation up to its write: an active room is        *)
(* returned as it is, and the request is done.                             *)
CreateCheck(r, p) ==
    /\ worker[r] = Resting
    /\ \A m \in Room : ~Active(m)
    /\ Becomes(r, [Resting EXCEPT !.pc = "create", !.who = p])
    /\ UNCHANGED <<dbVars, failures, liveKitVars, effects>>

CreateRoom(r, m) ==
    /\ Working(r, "create")
    /\ room[m].status = "none"
    /\ room' = [room EXCEPT ![m] = [status |-> "active", age |-> 0]]
    /\ invite' = [invite EXCEPT ![m] =
            [status |-> "pending", to |-> Other(worker[r].who)]]
    /\ Becomes(r, Resting)
    /\ UNCHANGED <<part, endings, failures, liveKitVars, effects>>

(* createCallTokenForCurrentUser: callRoomJoinWhere, then the write that   *)
(* reopens the participant row and accepts a pending invite.               *)
TokenCheck(r, p, m) ==
    /\ worker[r] = Resting
    /\ Active(m) /\ ~Stale(m)
    /\ Becomes(r, [Resting EXCEPT !.pc = "token", !.room = m, !.who = p])
    /\ UNCHANGED <<dbVars, failures, liveKitVars, effects>>

TokenWrite(r) ==
    LET m == worker[r].room
        p == worker[r].who
    IN  /\ Working(r, "token")
        /\ part' = [part EXCEPT ![m][p] = [joined |-> TRUE, left |-> FALSE]]
        /\ invite' = IF invite[m] = [status |-> "pending", to |-> p]
                     THEN [invite EXCEPT ![m].status = "accepted"]
                     ELSE invite
        /\ tokens' = [tokens EXCEPT ![m] = @ \cup {p}]
        /\ Becomes(r, Resting)
        /\ UNCHANGED <<room, endings, failures, connected, sessions, hooks,
                       effects>>

(* endCallRoomForCurrentUser up to endCallRoom.                            *)
EndCheck(r, p, m) ==
    /\ worker[r] = Resting
    /\ Active(m)
    /\ Becomes(r, [Resting EXCEPT !.pc = "flip", !.room = m, !.who = p,
                            !.event = "room_ended"])
    /\ UNCHANGED <<dbVars, failures, liveKitVars, effects>>

(* respondToCallInviteForCurrentUser: the read of the pending invite, the  *)
(* write of the answer, and for a refusal the end of the room.             *)
RespondRead(r, p, m, answer) ==
    /\ worker[r] = Resting
    /\ Active(m)
    /\ invite[m] = [status |-> "pending", to |-> p]
    /\ ~InviteExpired(m)
    /\ Becomes(r, [Resting EXCEPT !.pc = "respond", !.room = m, !.who = p,
                            !.event = answer])
    /\ UNCHANGED <<dbVars, failures, liveKitVars, effects>>

RespondWrite(r) ==
    /\ Working(r, "respond")
    /\ invite' = [invite EXCEPT ![worker[r].room].status = worker[r].event]
    /\ Becomes(r, IF worker[r].event = "declined"
               THEN [worker[r] EXCEPT !.pc = "flip"]
               ELSE Resting)
    /\ UNCHANGED <<room, part, endings, failures, liveKitVars, effects>>

Closed(m, closed) ==
    [p \in Profile |->
        IF p \in closed THEN [part[m][p] EXCEPT !.left = TRUE]
                        ELSE part[m][p]]

EndRoom_Unconditional(m, closed) ==
    /\ room' = [room EXCEPT ![m].status = "ended"]
    /\ part' = [part EXCEPT ![m] = Closed(m, closed)]
    /\ endings' = [endings EXCEPT ![m] = @ + 1]

\* The transaction of endCallRoom: only the caller that flips the status
\* closes participant rows, records the event and broadcasts.
EndRoom(m, closed) ==
    IF Active(m)
    THEN /\ room' = [room EXCEPT ![m].status = "ended"]
         /\ part' = [part EXCEPT ![m] = Closed(m, closed)]
         /\ endings' = [endings EXCEPT ![m] = @ + 1]
    ELSE UNCHANGED <<room, part, endings>>

(* endCallRoom for a user or a webhook: a user who ends the call closes    *)
(* only his own row, and a webhook does not tear LiveKit down.             *)
Flip(r) ==
    /\ Working(r, "flip")
    /\ EndRoom(worker[r].room,
               IF worker[r].event = "room_ended" THEN {worker[r].who}
               ELSE Profile)
    /\ Becomes(r, IF worker[r].event = "room_finished"
               THEN Resting
               ELSE [worker[r] EXCEPT !.pc = "teardown"])
    /\ UNCHANGED <<invite, failures, liveKitVars, effects>>

-----------------------------------------------------------------------------
\* A webhook not sent yet is pending its first delivery.
SendHooks(new) ==
    hooks' = [h \in DOMAIN hooks \cup new |->
                IF h \in DOMAIN hooks THEN hooks[h] ELSE 0]

LeftHook(m, p) == [kind |-> "left", room |-> m, who |-> p,
                   session |-> sessions[m][p]]
FinishedHook(m) == [kind |-> "finished", room |-> m, who |-> NoOne,
                    session |-> 0]

(* deleteLiveKitRoom: LiveKit disconnects everybody and says so, or the    *)
(* call fails, which is only logged.                                       *)
Teardown(r) ==
    LET m == worker[r].room IN
    /\ Working(r, "teardown")
    /\ Becomes(r, IF worker[r].event = "room_expired"
               THEN [worker[r] EXCEPT !.pc = "sweep"]
               ELSE Resting)
    /\ \/ /\ connected' = [connected EXCEPT ![m] = {}]
          /\ SendHooks({LeftHook(m, p) : p \in connected[m]}
                  \cup {FinishedHook(m) : p \in connected[m]})
       \/ UNCHANGED <<connected, hooks>>
    /\ UNCHANGED <<dbVars, failures, tokens, sessions, effects>>

(* A participant connects with a token, whatever became of the room since, *)
(* and leaves; the last one out finishes the LiveKit room.                 *)
Join(p, m) ==
    /\ p \in tokens[m] \ connected[m]
    /\ sessions[m][p] < MaxSessions
    /\ connected' = [connected EXCEPT ![m] = @ \cup {p}]
    /\ sessions' = [sessions EXCEPT ![m][p] = @ + 1]
    /\ SendHooks({[kind |-> "joined", room |-> m, who |-> p,
              session |-> sessions[m][p] + 1]})
    /\ UNCHANGED <<dbVars, worker, failures, tokens, effects>>

Departs(p, m) ==
    /\ p \in connected[m]
    /\ connected' = [connected EXCEPT ![m] = @ \ {p}]
    /\ SendHooks({LeftHook(m, p)} \cup
            IF connected[m] = {p} THEN {FinishedHook(m)} ELSE {})
    /\ UNCHANGED <<dbVars, worker, failures, tokens, sessions, effects>>

TokenExpires(p, m) ==
    /\ p \in tokens[m]
    /\ tokens' = [tokens EXCEPT ![m] = @ \ {p}]
    /\ UNCHANGED <<dbVars, worker, failures, connected, sessions, hooks,
                   effects>>

(* A delivery, first or repeated, of participant_joined or of              *)
(* participant_left: the row changes when the column is still null.        *)
DeliverParticipant(h) ==
    LET seat == part[h.room][h.who]
        gate == IF h.kind = "joined" THEN ~seat.joined ELSE ~seat.left
    IN  /\ h \in DOMAIN hooks /\ h.kind # "finished"
        /\ hooks[h] < MaxHookDeliveries
        /\ hooks' = [hooks EXCEPT ![h] = @ + 1]
        /\ IF gate
           THEN /\ part' = [part EXCEPT ![h.room][h.who] =
                        IF h.kind = "joined" THEN [@ EXCEPT !.joined = TRUE]
                                             ELSE [@ EXCEPT !.left = TRUE]]
                /\ effects' = [effects EXCEPT ![h] = @ + 1]
           ELSE UNCHANGED <<part, effects>>
        /\ UNCHANGED <<room, invite, endings, worker, failures, tokens,
                       connected, sessions>>

(* A delivery of room_finished: the room is read, and ended if active.     *)
DeliverFinished(r, m) ==
    LET h == FinishedHook(m) IN
    /\ worker[r] = Resting
    /\ h \in DOMAIN hooks /\ hooks[h] < MaxHookDeliveries
    /\ hooks' = [hooks EXCEPT ![h] = @ + 1]
    /\ Becomes(r, IF Active(m)
               THEN [Resting EXCEPT !.pc = "flip", !.room = m,
                                 !.event = "room_finished"]
               ELSE Resting)
    /\ UNCHANGED <<dbVars, failures, tokens, connected, sessions, effects>>

-----------------------------------------------------------------------------
(* runCallMaintenance: list the stale rooms, end and tear down each; then  *)
(* list the expired invites and mark each missed, whatever it is by then.  *)

SweepStart_InvitesOnly(c) ==
    /\ worker[c] = Resting
    /\ \E m \in Room : InviteExpired(m)
    /\ Becomes(c, [Resting EXCEPT !.pc = "sweep", !.event = "room_expired"])
    /\ UNCHANGED <<dbVars, failures, liveKitVars, effects>>

SweepStart(c) ==
    /\ worker[c] = Resting
    /\ \E m \in Room : Stale(m) \/ InviteExpired(m)
    /\ Becomes(c, [Resting EXCEPT !.pc = "sweep", !.event = "room_expired",
                            !.todo = {m \in Room : Stale(m)}])
    /\ UNCHANGED <<dbVars, failures, liveKitVars, effects>>

SweepRoom(c, m) ==
    /\ Working(c, "sweep")
    /\ m \in worker[c].todo
    /\ EndRoom(m, Profile)
    /\ Becomes(c, [worker[c] EXCEPT !.pc = "teardown", !.room = m,
                               !.todo = @ \ {m}])
    /\ UNCHANGED <<invite, failures, liveKitVars, effects>>

SweepInvites_OfActiveRooms(c) ==
    /\ Working(c, "sweep")
    /\ worker[c].todo = {}
    /\ Becomes(c, [Resting EXCEPT !.pc = "miss",
                            !.todo = {m \in Room : InviteExpired(m)
                                                   /\ Active(m)}])
    /\ UNCHANGED <<dbVars, failures, liveKitVars, effects>>

SweepInvites(c) ==
    /\ Working(c, "sweep")
    /\ worker[c].todo = {}
    /\ Becomes(c, [Resting EXCEPT !.pc = "miss",
                            !.todo = {m \in Room : InviteExpired(m)}])
    /\ UNCHANGED <<dbVars, failures, liveKitVars, effects>>

Miss(c, m) ==
    /\ Working(c, "miss")
    /\ m \in worker[c].todo
    /\ invite' = [invite EXCEPT ![m].status = "missed"]
    /\ Becomes(c, [worker[c] EXCEPT !.todo = @ \ {m}])
    /\ UNCHANGED <<room, part, endings, failures, liveKitVars, effects>>

SweepDone(c) ==
    /\ Working(c, "miss")
    /\ worker[c].todo = {}
    /\ Becomes(c, Resting)
    /\ UNCHANGED <<dbVars, failures, liveKitVars, effects>>

(* A handler dies between two transactions: the instance ends, the         *)
(* database or a notification fails.                                       *)
Die(r) ==
    /\ worker[r] # Resting
    /\ failures < MaxFailures
    /\ failures' = failures + 1
    /\ Becomes(r, Resting)
    /\ UNCHANGED <<dbVars, liveKitVars, effects>>

RoomsAge ==
    /\ \E m \in Room : room[m].status # "none" /\ room[m].age <= RoomTtl
    /\ room' = [m \in Room |->
            IF room[m].status # "none" /\ room[m].age <= RoomTtl
            THEN [room[m] EXCEPT !.age = @ + 1] ELSE room[m]]
    /\ UNCHANGED <<invite, part, endings, worker, failures, liveKitVars,
                   effects>>

\* The steps of a handler that has started.
Continue(r) ==
    \/ \E m \in Room : CreateRoom(r, m) \/ SweepRoom(r, m) \/ Miss(r, m)
    \/ TokenWrite(r) \/ RespondWrite(r) \/ Flip(r) \/ Teardown(r)
    \/ SweepInvites(r) \/ SweepDone(r)

Start(r) ==
    \/ \E p \in Profile : CreateCheck(r, p)
    \/ \E p \in Profile, m \in Room :
        \/ TokenCheck(r, p, m) \/ EndCheck(r, p, m)
        \/ \E answer \in {"accepted", "declined"} :
                RespondRead(r, p, m, answer)
    \/ \E m \in Room : DeliverFinished(r, m)

LiveKit ==
    \/ \E p \in Profile, m \in Room :
        Join(p, m) \/ Departs(p, m) \/ TokenExpires(p, m)
    \/ \E h \in DOMAIN hooks : DeliverParticipant(h)

RoomsNext ==
    \/ \E r \in Handler : Start(r)
    \/ \E c \in Cron : SweepStart(c)
    \/ \E r \in Proc : Continue(r)
    \/ \E r \in Proc : Die(r)
    \/ LiveKit
    \/ RoomsAge

RoomsSpec == RoomsInit /\ [][RoomsNext]_roomVars

\* Time passes, a handler that is not killed runs on, and the scheduler runs
\* the maintenance job every five minutes.
RoomsFairSpec ==
    /\ RoomsSpec
    /\ WF_roomVars(RoomsAge)
    /\ \A r \in Proc : WF_roomVars(Continue(r))
    /\ \A c \in Cron : WF_roomVars(SweepStart(c))

-----------------------------------------------------------------------------
RoomsTypeOK ==
    /\ room \in [Room -> RoomRow]
    /\ invite \in [Room -> InviteRow]
    /\ part \in [Room -> [Profile -> ParticipantRow]]
    /\ endings \in [Room -> Nat]
    /\ worker \in [Proc -> ProcState]

(* call-service.ts:474, only the first caller to flip active to ended      *)
(* proceeds: a call that a user, LiveKit and the maintenance job all end   *)
(* leaves exactly one terminal event and broadcast.                        *)
EndsOnce ==
    \A m \in Room :
        endings[m] = IF room[m].status = "ended" THEN 1 ELSE 0

(* No call stays active for ever, however its handlers die and its         *)
(* webhooks get lost.                                                      *)
ActiveRoomEnds == \A m \in Room : []<>~Active(m)

(* No invite stays pending for ever: it is answered or missed in the end.  *)
InviteResolves == \A m \in Room : []<>(invite[m].status # "pending")

(* call-service.ts:379, "Gating on the null column keeps retried webhook   *)
(* deliveries idempotent".                                                 *)
RetriedHookIsIdempotent == \A h \in Hook : effects[h] <= 1

=============================================================================
