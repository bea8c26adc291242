----------------------------- MODULE CallProofs -----------------------------
(* What holds of CallRooms for any rooms, handlers, deadlines and bounds.  *)
EXTENDS CallRooms, TLAPS

RoomsIInv == RoomsTypeOK /\ EndsOnce

(* The states a handler can be left in are well typed.                     *)
LEMMA GoesTyped ==
    ASSUME RoomsTypeOK, NEW r \in Proc, NEW s \in ProcState, Becomes(r, s)
    PROVE  worker' \in [Proc -> ProcState]
BY DEF RoomsTypeOK, Becomes

LEMMA IdleTyped == Resting \in ProcState
BY DEF Resting, ProcState

LEMMA PartExcept ==
    ASSUME NEW f \in [Room -> [Profile -> ParticipantRow]], NEW m, NEW p,
           NEW seat, (m \in Room /\ p \in Profile) => seat \in ParticipantRow
    PROVE  [f EXCEPT ![m][p] = seat] \in [Room -> [Profile -> ParticipantRow]]
OBVIOUS

(* The transaction of endCallRoom keeps its rows typed, and the terminal   *)
(* events of every room in step with its status.                           *)
LEMMA EndRoomCounts ==
    ASSUME RoomsIInv, NEW m \in Room, NEW closed, EndRoom(m, closed)
    PROVE  /\ room' \in [Room -> RoomRow]
           /\ part' \in [Room -> [Profile -> ParticipantRow]]
           /\ endings' \in [Room -> Nat]
           /\ EndsOnce'
<1>1. CASE Active(m)
  <2>1. room' = [room EXCEPT ![m].status = "ended"]
        /\ endings' = [endings EXCEPT ![m] = @ + 1]
    BY <1>1 DEF EndRoom
  <2>2. room[m] \in RoomRow /\ room[m].status = "active" /\ endings[m] = 0
    BY <1>1 DEF RoomsIInv, RoomsTypeOK, EndsOnce, Active
  <2>3. room' \in [Room -> RoomRow] /\ endings' \in [Room -> Nat]
    BY <2>1, <2>2 DEF RoomsIInv, RoomsTypeOK, RoomRow
  <2>4. ASSUME NEW p \in Profile
        PROVE  [part[m][p] EXCEPT !.left = TRUE] \in ParticipantRow
    <3>1. part[m][p] \in ParticipantRow
      BY DEF RoomsIInv, RoomsTypeOK
    <3> QED
      BY <3>1 DEF ParticipantRow
  <2>5. part' \in [Room -> [Profile -> ParticipantRow]]
    <3>1. part \in [Room -> [Profile -> ParticipantRow]]
      BY DEF RoomsIInv, RoomsTypeOK
    <3>2. Closed(m, closed) \in [Profile -> ParticipantRow]
      BY <2>4, <3>1 DEF Closed
    <3>3. part' = [part EXCEPT ![m] = Closed(m, closed)]
      BY <1>1 DEF EndRoom
    <3> QED
      BY <3>1, <3>2, <3>3
  <2>6. EndsOnce'
    <3>1. ASSUME NEW n \in Room
          PROVE  endings'[n] = IF room'[n].status = "ended" THEN 1 ELSE 0
      <4>1. /\ room[n] \in RoomRow /\ endings[n] \in Nat
            /\ endings[n] = (IF room[n].status = "ended" THEN 1 ELSE 0)
            /\ room \in [Room -> RoomRow] /\ endings \in [Room -> Nat]
        BY DEF RoomsIInv, RoomsTypeOK, EndsOnce
      <4>2. CASE n = m
        BY <4>1, <4>2, <2>1, <2>2 DEF RoomRow
      <4>3. CASE n # m
        BY <4>1, <4>3, <2>1
      <4> QED
        BY <4>2, <4>3
    <3> QED
      BY <3>1 DEF EndsOnce
  <2> QED
    BY <2>3, <2>5, <2>6
<1>2. CASE ~Active(m)
  BY <1>2 DEF EndRoom, RoomsIInv, RoomsTypeOK, EndsOnce
<1> QED
  BY <1>1, <1>2

(* A step that leaves the rows of rooms and their events alone.            *)
LEMMA RoomsUntouched ==
    ASSUME RoomsIInv, UNCHANGED <<room, endings>>,
           invite' \in [Room -> InviteRow],
           part' \in [Room -> [Profile -> ParticipantRow]],
           worker' \in [Proc -> ProcState]
    PROVE  RoomsIInv'
BY DEF RoomsIInv, RoomsTypeOK, EndsOnce

LEMMA RoomsBegin == RoomsInit => RoomsIInv
BY IdleTyped DEF RoomsInit, RoomsIInv, RoomsTypeOK, EndsOnce, RoomRow, InviteRow,
                 ParticipantRow

-----------------------------------------------------------------------------
LEMMA StartInv ==
    ASSUME RoomsIInv, NEW r \in Handler, Start(r)
    PROVE  RoomsIInv'
<1>1. r \in Proc
  BY DEF Proc
<1>2. ASSUME NEW s \in ProcState, Becomes(r, s), UNCHANGED dbVars
      PROVE  RoomsIInv'
  BY <1>1, <1>2, GoesTyped, RoomsUntouched DEF RoomsIInv, RoomsTypeOK, dbVars
<1>3. ASSUME NEW p \in Profile, CreateCheck(r, p) PROVE RoomsIInv'
  <2>1. [Resting EXCEPT !.pc = "create", !.who = p] \in ProcState
    BY DEF Resting, ProcState
  <2> QED
    BY <1>3, <1>2, <2>1 DEF CreateCheck
<1>4. ASSUME NEW p \in Profile, NEW m \in Room, TokenCheck(r, p, m)
      PROVE  RoomsIInv'
  <2>1. [Resting EXCEPT !.pc = "token", !.room = m, !.who = p] \in ProcState
    BY DEF Resting, ProcState
  <2> QED
    BY <1>4, <1>2, <2>1 DEF TokenCheck
<1>5. ASSUME NEW p \in Profile, NEW m \in Room, EndCheck(r, p, m) PROVE RoomsIInv'
  <2>1. [Resting EXCEPT !.pc = "flip", !.room = m, !.who = p,
                     !.event = "room_ended"] \in ProcState
    BY DEF Resting, ProcState
  <2> QED
    BY <1>5, <1>2, <2>1 DEF EndCheck
<1>6. ASSUME NEW p \in Profile, NEW m \in Room,
             NEW answer \in {"accepted", "declined"},
             RespondRead(r, p, m, answer)
      PROVE  RoomsIInv'
  <2>1. [Resting EXCEPT !.pc = "respond", !.room = m, !.who = p,
                     !.event = answer] \in ProcState
    BY DEF Resting, ProcState
  <2> QED
    BY <1>6, <1>2, <2>1 DEF RespondRead
<1>7. ASSUME NEW m \in Room, DeliverFinished(r, m) PROVE RoomsIInv'
  <2>1. [Resting EXCEPT !.pc = "flip", !.room = m, !.event = "room_finished"]
        \in ProcState
    BY DEF Resting, ProcState
  <2>2. (IF Active(m) THEN [Resting EXCEPT !.pc = "flip", !.room = m,
                                        !.event = "room_finished"]
                      ELSE Resting) \in ProcState
    BY <2>1, IdleTyped
  <2> QED
    BY <1>7, <1>2, <2>2 DEF DeliverFinished
<1> QED
  BY <1>3, <1>4, <1>5, <1>6, <1>7 DEF Start

LEMMA ContinueInv ==
    ASSUME RoomsIInv, NEW r \in Proc, Continue(r)
    PROVE  RoomsIInv'
<1>0. worker[r] \in ProcState
  BY DEF RoomsIInv, RoomsTypeOK
<1>1. ASSUME NEW m \in Room, CreateRoom(r, m) PROVE RoomsIInv'
  <2>1. Other(worker[r].who) \in Profile
    <3>1. \E q \in Profile : q # worker[r].who
      BY ProfileAssumption
    <3> QED
      BY <3>1 DEF Other
  <2>2. invite' \in [Room -> InviteRow]
    BY <1>1, <2>1 DEF CreateRoom, RoomsIInv, RoomsTypeOK, InviteRow
  <2>3. room' \in [Room -> RoomRow] /\ EndsOnce'
    BY <1>1 DEF CreateRoom, RoomsIInv, RoomsTypeOK, EndsOnce, RoomRow
  <2>4. worker' \in [Proc -> ProcState]
    BY <1>1, IdleTyped, GoesTyped DEF CreateRoom, RoomsIInv
  <2> QED
    BY <1>1, <2>2, <2>3, <2>4 DEF CreateRoom, RoomsIInv, RoomsTypeOK
<1>2. ASSUME NEW m \in Room, SweepRoom(r, m) PROVE RoomsIInv'
  <2>1. [worker[r] EXCEPT !.pc = "teardown", !.room = m, !.todo = @ \ {m}]
        \in ProcState
    BY <1>0, <1>2 DEF ProcState, SweepRoom, Working
  <2>2. worker' \in [Proc -> ProcState]
    BY <1>2, <2>1, GoesTyped DEF SweepRoom, RoomsIInv
  <2> QED
    BY <1>2, <2>2, EndRoomCounts DEF SweepRoom, RoomsIInv, RoomsTypeOK
<1>3. ASSUME NEW m \in Room, Miss(r, m) PROVE RoomsIInv'
  <2>1. [worker[r] EXCEPT !.todo = @ \ {m}] \in ProcState
    BY <1>0, <1>3 DEF ProcState, Miss, Working
  <2>2. worker' \in [Proc -> ProcState]
    BY <1>3, <2>1, GoesTyped DEF Miss, RoomsIInv
  <2>3. invite' \in [Room -> InviteRow]
    BY <1>3 DEF Miss, RoomsIInv, RoomsTypeOK, InviteRow
  <2> QED
    BY <1>3, <2>2, <2>3, RoomsUntouched DEF Miss, RoomsIInv, RoomsTypeOK
<1>4. CASE TokenWrite(r)
  <2>1. [joined |-> TRUE, left |-> FALSE] \in ParticipantRow
    BY DEF ParticipantRow
  <2>2. part' \in [Room -> [Profile -> ParticipantRow]]
    BY <1>4, <2>1 DEF TokenWrite, RoomsIInv, RoomsTypeOK
  <2>3. invite' \in [Room -> InviteRow]
    BY <1>4 DEF TokenWrite, RoomsIInv, RoomsTypeOK, InviteRow
  <2>4. worker' \in [Proc -> ProcState]
    BY <1>4, IdleTyped, GoesTyped DEF TokenWrite, RoomsIInv
  <2> QED
    BY <1>4, <2>2, <2>3, <2>4, RoomsUntouched DEF TokenWrite
<1>5. CASE RespondWrite(r)
  <2>1. worker[r].event = "declined"
          => [worker[r] EXCEPT !.pc = "flip"] \in ProcState
    BY <1>0 DEF ProcState
  <2>2. worker' \in [Proc -> ProcState]
    BY <1>5, <2>1, IdleTyped, GoesTyped DEF RespondWrite, RoomsIInv
  <2>3. worker[r].event \in {"accepted", "declined"}
    BY <1>5, <1>0 DEF RespondWrite, Working, ProcState
  <2>4. invite' \in [Room -> InviteRow]
    BY <1>5, <2>3 DEF RespondWrite, RoomsIInv, RoomsTypeOK, InviteRow
  <2> QED
    BY <1>5, <2>2, <2>4, RoomsUntouched DEF RespondWrite, RoomsIInv, RoomsTypeOK
<1>6. CASE Flip(r)
  <2>1. [worker[r] EXCEPT !.pc = "teardown"] \in ProcState
    BY <1>0, <1>6 DEF ProcState, Flip, Working
  <2>2. worker[r].room \in Room
    BY <1>0, <1>6 DEF ProcState, Flip, Working
  <2>3. worker' \in [Proc -> ProcState]
    BY <1>6, <2>1, IdleTyped, GoesTyped DEF Flip, RoomsIInv
  <2> QED
    <3>1. EndRoom(worker[r].room, Profile)
          \/ EndRoom(worker[r].room, {worker[r].who})
      BY <1>6 DEF Flip
    <3>2. /\ room' \in [Room -> RoomRow]
          /\ part' \in [Room -> [Profile -> ParticipantRow]]
          /\ endings' \in [Room -> Nat]
          /\ EndsOnce'
      BY <2>2, <3>1, EndRoomCounts
    <3> QED
      BY <1>6, <2>3, <3>2 DEF Flip, RoomsIInv, RoomsTypeOK
<1>7. CASE Teardown(r)
  <2>1. worker[r].event = "room_expired"
        => [worker[r] EXCEPT !.pc = "sweep"] \in ProcState
    BY <1>0, <1>7 DEF ProcState, Teardown, Working
  <2>2. worker' \in [Proc -> ProcState]
    BY <1>7, <2>1, IdleTyped, GoesTyped DEF Teardown, RoomsIInv
  <2> QED
    BY <1>7, <2>2, RoomsUntouched DEF Teardown, dbVars, RoomsIInv, RoomsTypeOK
<1>8. CASE SweepInvites(r)
  <2>1. [Resting EXCEPT !.pc = "miss", !.todo = {m \in Room : InviteExpired(m)}]
        \in ProcState
    BY DEF Resting, ProcState
  <2>2. worker' \in [Proc -> ProcState]
    BY <1>8, <2>1, GoesTyped DEF SweepInvites, RoomsIInv
  <2> QED
    BY <1>8, <2>2, RoomsUntouched DEF SweepInvites, dbVars, RoomsIInv, RoomsTypeOK
<1>9. CASE SweepDone(r)
  <2>1. worker' \in [Proc -> ProcState]
    BY <1>9, IdleTyped, GoesTyped DEF SweepDone, RoomsIInv
  <2> QED
    BY <1>9, <2>1, RoomsUntouched DEF SweepDone, dbVars, RoomsIInv, RoomsTypeOK
<1> QED
  BY <1>1, <1>2, <1>3, <1>4, <1>5, <1>6, <1>7, <1>8, <1>9 DEF Continue

LEMMA RoomsContinue == RoomsIInv /\ [RoomsNext]_roomVars => RoomsIInv'
<1> SUFFICES ASSUME RoomsIInv, [RoomsNext]_roomVars PROVE RoomsIInv'
  OBVIOUS
<1>1. ASSUME NEW r \in Handler, Start(r) PROVE RoomsIInv'
  BY <1>1, StartInv
<1>2. ASSUME NEW c \in Cron, SweepStart(c) PROVE RoomsIInv'
  <2>1. [Resting EXCEPT !.pc = "sweep", !.event = "room_expired",
                     !.todo = {m \in Room : Stale(m)}] \in ProcState
    BY DEF Resting, ProcState
  <2>2. worker' \in [Proc -> ProcState]
    BY <1>2, <2>1, GoesTyped DEF SweepStart, RoomsIInv, Proc
  <2> QED
    BY <1>2, <2>2, RoomsUntouched DEF SweepStart, dbVars, RoomsIInv, RoomsTypeOK
<1>3. ASSUME NEW r \in Proc, Continue(r) PROVE RoomsIInv'
  BY <1>3, ContinueInv
<1>4. ASSUME NEW r \in Proc, Die(r) PROVE RoomsIInv'
  <2>1. worker' \in [Proc -> ProcState]
    BY <1>4, IdleTyped, GoesTyped DEF Die, RoomsIInv
  <2> QED
    BY <1>4, <2>1, RoomsUntouched DEF Die, dbVars, RoomsIInv, RoomsTypeOK
<1>5. CASE LiveKit
  <2>1. ASSUME NEW p \in Profile, NEW m \in Room,
               Join(p, m) \/ Departs(p, m) \/ TokenExpires(p, m)
        PROVE  RoomsIInv'
    BY <2>1, RoomsUntouched
       DEF Join, Departs, TokenExpires, dbVars, RoomsIInv, RoomsTypeOK
  <2>2. ASSUME NEW h \in DOMAIN hooks, DeliverParticipant(h) PROVE RoomsIInv'
    <3>1. /\ worker' = worker /\ invite' = invite
          /\ UNCHANGED <<room, endings>>
      BY <2>2 DEF DeliverParticipant
    <3>2. part' \in [Room -> [Profile -> ParticipantRow]]
      <4>1. CASE UNCHANGED part
        BY <4>1 DEF RoomsIInv, RoomsTypeOK
      <4>2. CASE part' = [part EXCEPT ![h.room][h.who] =
                           IF h.kind = "joined" THEN [@ EXCEPT !.joined = TRUE]
                                                ELSE [@ EXCEPT !.left = TRUE]]
        <5> DEFINE seat == IF h.kind = "joined"
                          THEN [part[h.room][h.who] EXCEPT !.joined = TRUE]
                          ELSE [part[h.room][h.who] EXCEPT !.left = TRUE]
        <5>1. part \in [Room -> [Profile -> ParticipantRow]]
          BY DEF RoomsIInv, RoomsTypeOK
        <5>2. (h.room \in Room /\ h.who \in Profile)
              => seat \in ParticipantRow
          <6>1. (h.room \in Room /\ h.who \in Profile)
                => part[h.room][h.who] \in ParticipantRow
            BY <5>1
          <6> QED
            BY <6>1 DEF ParticipantRow
        <5>3. part' = [part EXCEPT ![h.room][h.who] = seat]
          BY <4>2
        <5> QED
          BY <5>1, <5>2, <5>3, PartExcept
      <4> QED
        BY <2>2, <4>1, <4>2 DEF DeliverParticipant
    <3> QED
      BY <3>1, <3>2, RoomsUntouched DEF RoomsIInv, RoomsTypeOK
  <2> QED
    BY <1>5, <2>1, <2>2 DEF LiveKit
<1>6. CASE RoomsAge
  BY <1>6 DEF RoomsAge, RoomsIInv, RoomsTypeOK, EndsOnce, RoomRow
<1>7. CASE UNCHANGED roomVars
  BY <1>7 DEF roomVars, dbVars, RoomsIInv, RoomsTypeOK, EndsOnce
<1> QED
  BY <1>1, <1>2, <1>3, <1>4, <1>5, <1>6, <1>7 DEF RoomsNext

-----------------------------------------------------------------------------
(* Rows and handlers of every reachable state have the declared types.     *)
THEOREM RoomsTypeCorrect == RoomsSpec => []RoomsTypeOK
<1>1. RoomsIInv => RoomsTypeOK
  BY DEF RoomsIInv
<1> QED
  BY <1>1, RoomsBegin, RoomsContinue, PTL DEF RoomsSpec

(* The compare-and-set of endCallRoom: whoever races to end a call, it has *)
(* one terminal event once it ended and none before.                       *)
THEOREM CallEndsOnce == RoomsSpec => []EndsOnce
<1>1. RoomsIInv => EndsOnce
  BY DEF RoomsIInv
<1> QED
  BY <1>1, RoomsBegin, RoomsContinue, PTL DEF RoomsSpec

=============================================================================
