------------------------------ MODULE CallPanel ------------------------------
(***************************************************************************)
(* The call panel of a conversation, in the browser:                       *)
(* src/components/conversation-call-panel.tsx.  What it does between two   *)
(* awaits is one step; between them users click, LiveKit disconnects, the  *)
(* page is refreshed or left, and the other side starts and ends calls.    *)
(*                                                                         *)
(* The server, whose rooms CallRooms has in detail, is here the room it    *)
(* has active and the invite to this user.  Microphone, camera, screen and *)
(* devices only follow the connection and are left out.                    *)
(***************************************************************************)
EXTENDS Naturals, Sequences

CONSTANTS
    MaxRooms,   \* bound on the calls of the conversation
    MaxConns,   \* bound on the connections the panel opens
    MaxFailures \* bound on requests that fail and connections that break

ASSUME PanelAssumption == {MaxRooms, MaxConns, MaxFailures} \subseteq Nat

VARIABLES
    calls,      \* how many rooms there have been, and whether the last is on
    invite,     \* the room this user is invited to
    page,       \* what the page was last given: activeRoom, pendingInvite
    mounted,
    panel,      \* the state the panel renders from
    roomRef,    \* the connection whose events count
    conn,       \* the LiveKit connections, in the order they were made
    ended,      \* connections whose Disconnected event is on its way
    asking,     \* requests to create a room or to answer an invite
    crossed,    \* whether a call was begun while an answer was outstanding
    failures

serverVars == <<calls, invite>>
panelVars == <<serverVars, page, mounted, panel, roomRef, conn, ended, asking,
               crossed, failures>>

\* Room, invite and connection 0 is none; to retry 0 is to start anew.
IdlePanel == [status |-> "idle", room |-> 0, local |-> 0, gone |-> 0,
         answered |-> 0, retry |-> 0]

PanelInit ==
    /\ calls = [last |-> 0, on |-> FALSE] /\ invite = 0
    /\ page = [room |-> 0, invite |-> 0] /\ mounted = TRUE
    /\ panel = IdlePanel /\ roomRef = 0
    /\ conn = <<>> /\ ended = {} /\ asking = {}
    /\ crossed = FALSE /\ failures = 0

-----------------------------------------------------------------------------
\* What the panel shows, and so which buttons there are.
CurrentRoom ==
    IF panel.local # 0 THEN panel.local
    ELSE IF page.room # panel.gone THEN page.room ELSE 0
Incoming == IF page.invite # panel.answered THEN page.invite ELSE 0
InCall == panel.status \in {"connected", "reconnecting"}

Active(m) == calls.on /\ m = calls.last
PanelFault == failures < MaxFailures /\ failures' = failures + 1
NoFailure == UNCHANGED failures

(* One attempt: a new connection, whose events count from now on.          *)
Opens(m, attempt) ==
    /\ Len(conn) < MaxConns
    /\ conn' = Append(conn, [pc |-> "token", room |-> m, attempt |-> attempt])
    /\ roomRef' = Len(conn) + 1
    /\ UNCHANGED ended

ConnectTo(m, p) ==
    /\ Opens(m, 1)
    /\ panel' = [p EXCEPT !.status = "connecting", !.retry = m]

\* resetCallState: what was dismissed stays dismissed.
Reset(p) == [p EXCEPT !.status = "idle", !.room = 0, !.local = 0]

Start ==
    /\ mounted
    /\ \A a \in asking : a.what # "create"
    /\ \/ panel.status = "idle" /\ Incoming = 0 /\ CurrentRoom = 0
       \/ panel.status = "error" /\ panel.retry = 0
    /\ asking' = asking \cup {[what |-> "create", room |-> 0, said |-> "wait"]}
    /\ panel' = [panel EXCEPT !.status = "starting", !.retry = 0]
    /\ crossed' = (crossed \/ asking # {})
    /\ UNCHANGED <<serverVars, page, mounted, roomRef, conn, ended, failures>>

\* Both buttons wait for the answer of either; the others do not.
Respond(what) ==
    /\ mounted /\ panel.status = "idle" /\ Incoming # 0
    /\ \A a \in asking : a.what = "create"
    /\ asking' = asking \cup {[what |-> what, room |-> Incoming, said |-> "wait"]}
    /\ UNCHANGED <<serverVars, page, mounted, panel, roomRef, conn, ended, crossed, failures>>

Says(a, m, word) ==
    asking' = (asking \ {a}) \cup {[a EXCEPT !.room = m, !.said = word]}

(* The server makes a room, or returns the one that is active; an invite   *)
(* is answered while it stands, and a refusal ends the call.               *)
Serve(a) ==
    /\ a.said = "wait"
    /\ \/ /\ a.what = "create"
          /\ IF calls.on THEN UNCHANGED calls
             ELSE /\ calls.last < MaxRooms
                  /\ calls' = [last |-> calls.last + 1, on |-> TRUE]
          /\ Says(a, calls'.last, "yes")
          /\ UNCHANGED <<invite, failures>>
       \/ /\ a.what # "create" /\ invite = a.room
          /\ invite' = 0
          /\ calls' = [calls EXCEPT !.on = @ /\ a.what = "accept"]
          /\ Says(a, a.room, "yes")
          /\ NoFailure
       \/ /\ IF a.what # "create" /\ invite # a.room THEN NoFailure ELSE PanelFault
          /\ Says(a, a.room, "no")
          /\ UNCHANGED serverVars
    /\ UNCHANGED <<page, mounted, panel, roomRef, conn, ended, crossed>>

Created(a) ==
    /\ a.what = "create"
    /\ IF a.said = "yes"
       THEN ConnectTo(a.room, [panel EXCEPT !.gone = 0, !.local = a.room])
       ELSE /\ panel' = [panel EXCEPT !.status = "error"]
            /\ UNCHANGED <<roomRef, conn, ended>>

Accepted(a) ==
    /\ a.what = "accept" /\ a.said = "yes"
    /\ ConnectTo(a.room,
            [panel EXCEPT !.answered = a.room, !.gone = 0, !.local = a.room])

Declined(a) ==
    /\ a.what = "decline" /\ a.said = "yes"
    /\ panel' = [panel EXCEPT !.answered = a.room, !.gone = a.room]
    /\ UNCHANGED <<roomRef, conn, ended>>

NotAnswered(a) ==
    /\ a.what # "create" /\ a.said = "no"
    /\ UNCHANGED <<panel, roomRef, conn, ended>>

Answered(a) ==
    /\ a.said # "wait"
    /\ asking' = asking \ {a}
    /\ Created(a) \/ Accepted(a) \/ Declined(a) \/ NotAnswered(a)
    /\ UNCHANGED <<serverVars, page, mounted, crossed, failures>>

Join ==
    /\ mounted /\ panel.status = "idle" /\ Incoming = 0 /\ CurrentRoom # 0
    /\ ConnectTo(CurrentRoom, [panel EXCEPT !.local = CurrentRoom])
    /\ crossed' = (crossed \/ asking # {})
    /\ UNCHANGED <<serverVars, page, mounted, asking, failures>>

TryAgain ==
    /\ mounted /\ panel.status = "error" /\ panel.retry # 0
    /\ ConnectTo(panel.retry, panel)
    /\ UNCHANGED <<serverVars, page, mounted, asking, crossed, failures>>

-----------------------------------------------------------------------------
(* The token is refused once the room has ended.                           *)
Token(c) ==
    /\ conn[c].pc = "token" /\ Active(conn[c].room)
    /\ conn' = [conn EXCEPT ![c].pc = "connect"]
    /\ UNCHANGED <<serverVars, page, mounted, panel, roomRef, ended, asking, crossed, failures>>

Connected(c) ==
    /\ conn[c].pc = "connect" /\ Active(conn[c].room)
    /\ conn' = [conn EXCEPT ![c].pc = "live"]
    /\ panel' = [panel EXCEPT !.room = c, !.status = "connected"]
    /\ UNCHANGED <<serverVars, page, mounted, roomRef, ended, asking, crossed, failures>>

(* A failed attempt is tried once more with a fresh token, also when it    *)
(* failed because the page was left.                                       *)
Failed(c) ==
    /\ conn[c].pc \in {"token", "connect"}
    /\ IF mounted /\ Active(conn[c].room) THEN PanelFault ELSE NoFailure
    /\ IF conn[c].attempt = 1
       THEN /\ Len(conn) < MaxConns
            /\ conn' = Append([conn EXCEPT ![c].pc = "closed"],
                    [pc |-> "token", room |-> conn[c].room, attempt |-> 2])
            /\ roomRef' = Len(conn) + 1
            /\ UNCHANGED panel
       ELSE /\ conn' = [conn EXCEPT ![c].pc = "closed"]
            /\ roomRef' = 0
            /\ panel' = [panel EXCEPT !.status = "error"]
    /\ UNCHANGED <<serverVars, page, mounted, ended, asking, crossed>>

(* Events of a connection that is not the current one are not for the      *)
(* panel: it was left, or its attempt was given up.                        *)
OnDisconnected_Any(c) == panel' = Reset(panel) /\ roomRef' = 0
OnDisconnected(c) ==
    IF roomRef = c THEN panel' = Reset(panel) /\ roomRef' = 0
    ELSE UNCHANGED <<panel, roomRef>>

Disconnected(c) ==
    /\ c \in ended
    /\ ended' = ended \ {c}
    /\ OnDisconnected(c)
    /\ UNCHANGED <<serverVars, page, mounted, conn, asking, crossed, failures>>

Wavers(c) ==
    /\ conn[c].pc = "live" /\ roomRef = c
    /\ \/ panel.status = "connected" /\ PanelFault
          /\ panel' = [panel EXCEPT !.status = "reconnecting"]
       \/ panel.status = "reconnecting" /\ NoFailure
          /\ panel' = [panel EXCEPT !.status = "connected"]
    /\ UNCHANGED <<serverVars, page, mounted, roomRef, conn, ended, asking, crossed>>

Closed(cs) == [c \in DOMAIN conn |->
    IF c \in cs THEN [conn[c] EXCEPT !.pc = "closed"] ELSE conn[c]]
LiveOf(cs) == {c \in cs : conn[c].pc = "live"}

\* The connection is lost, or ended by the other side's LiveKit.
Breaks(c) ==
    /\ conn[c].pc = "live"
    /\ IF Active(conn[c].room) THEN PanelFault ELSE NoFailure
    /\ conn' = Closed({c})
    /\ ended' = ended \cup {c}
    /\ UNCHANGED <<serverVars, page, mounted, panel, roomRef, asking, crossed>>

(* Leaving ends the call for both; when that request fails it goes on.     *)
Leave ==
    /\ mounted /\ InCall
    /\ LET mine == LiveOf({panel.room} \cap DOMAIN conn)
       IN  conn' = Closed(mine) /\ ended' = ended \cup mine
    /\ roomRef' = 0
    /\ panel' = [Reset(panel) EXCEPT !.gone = CurrentRoom]
    /\ IF Active(CurrentRoom)
       THEN \/ calls' = [calls EXCEPT !.on = FALSE] /\ invite' = 0 /\ NoFailure
            \/ UNCHANGED serverVars /\ PanelFault
       ELSE UNCHANGED serverVars /\ NoFailure
    /\ UNCHANGED <<page, mounted, asking, crossed>>

(* The page is left: only the current connection is closed.                *)
Unmount ==
    /\ mounted
    /\ mounted' = FALSE
    /\ LET mine == LiveOf({roomRef} \cap DOMAIN conn)
       IN  conn' = Closed(mine) /\ ended' = ended \cup mine
    /\ roomRef' = 0
    /\ UNCHANGED <<serverVars, page, panel, asking, crossed, failures>>

-----------------------------------------------------------------------------
RefreshPage ==
    /\ mounted
    /\ page' = [room |-> IF calls.on THEN calls.last ELSE 0, invite |-> invite]
    /\ UNCHANGED <<serverVars, mounted, panel, roomRef, conn, ended, asking, crossed, failures>>

OtherCalls ==
    /\ ~calls.on /\ calls.last < MaxRooms
    /\ calls' = [last |-> calls.last + 1, on |-> TRUE]
    /\ invite' = calls.last + 1
    /\ UNCHANGED <<page, mounted, panel, roomRef, conn, ended, asking, crossed, failures>>

OtherEnds ==
    /\ calls.on
    /\ calls' = [calls EXCEPT !.on = FALSE] /\ invite' = 0
    /\ UNCHANGED <<page, mounted, panel, roomRef, conn, ended, asking, crossed, failures>>

PanelNext ==
    \/ Start \/ Join \/ TryAgain
    \/ \E a \in asking :
        \/ Serve(a)
        \/ Answered(a)
    \/ \E what \in {"accept", "decline"} : Respond(what)
    \/ \E c \in DOMAIN conn :
        \/ Token(c)
        \/ Connected(c)
        \/ Failed(c)
        \/ Disconnected(c)
        \/ Wavers(c)
        \/ Breaks(c)
    \/ Leave \/ Unmount \/ RefreshPage \/ OtherCalls \/ OtherEnds

PanelSpec == PanelInit /\ [][PanelNext]_panelVars

-----------------------------------------------------------------------------
(* Types of every variable.                                                *)
Room == 0..MaxRooms
Connection == [pc : {"token", "connect", "live", "closed"}, room : Room, attempt : 1..2]
PanelState ==
    [status : {"idle", "starting", "connecting", "connected", "reconnecting", "error"},
     room : 0..MaxConns, local : Room, gone : Room, answered : Room, retry : Room]
Question == [what : {"create", "accept", "decline"}, room : Room,
             said : {"wait", "yes", "no"}]

PanelTypeOK ==
    /\ calls \in [last : Room, on : BOOLEAN] /\ invite \in Room
    /\ page \in [room : Room, invite : Room]
    /\ mounted \in BOOLEAN /\ crossed \in BOOLEAN
    /\ panel \in PanelState /\ roomRef \in 0..MaxConns
    /\ conn \in Seq(Connection) /\ Len(conn) <= MaxConns
    /\ ended \subseteq DOMAIN conn
    /\ asking \subseteq Question
    /\ failures \in 0..MaxFailures

(* While the panel is on the page and connects once at a time, the call it *)
(* shows is the call there is: every connection that is on, with the       *)
(* microphone, is the one its buttons reach, and a call it shows is on or  *)
(* its end is on the way.  Late events of a call that was left, second     *)
(* attempts and calls of the other side must not part the two.             *)
PanelAgrees ==
    (mounted /\ ~crossed) =>
        /\ \A c \in DOMAIN conn : conn[c].pc = "live" =>
            InCall /\ panel.room = c /\ roomRef = c
        /\ InCall =>
            /\ panel.room \in DOMAIN conn /\ roomRef = panel.room
            /\ conn[panel.room].pc = "live" \/ panel.room \in ended
=============================================================================
