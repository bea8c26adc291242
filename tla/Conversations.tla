--------------------------- MODULE Conversations ---------------------------
(***************************************************************************)
(* The direct messages of one pair of profiles:                            *)
(* src/lib/conversation-service.ts, and the feed's block button.           *)
(*                                                                         *)
(* A conversation is unique to its pair, so there is one.  A handler is a  *)
(* chain of transactions: each is one action, except that a transaction    *)
(* that reads and then writes what it read is two, since Read Committed    *)
(* lets others commit in between.  What it still holds is in handler.      *)
(***************************************************************************)
EXTENDS Integers

CONSTANTS
    Profile,        \* the two participants
    Message,        \* the messages they can send
    ThreadRequest,        \* requests in flight
    NoOne,           \* no profile, no message
    MaxTime         \* bound on the clock that stamps messages

ASSUME ProfileAssumption == \E a, b \in Profile : a # b /\ Profile = {a, b}
ASSUME NoneAssumption == NoOne \notin Profile \cup Message
ASSUME ClockAssumption == MaxTime \in Nat \ {0}

VARIABLES
    started,    \* the Conversation row exists
    lastAt,     \* Conversation.lastMessageAt, 0 when null
    blockedBy,  \* Conversation.blockedById
    blocks,     \* the profiles with a UserBlock row against the other
    msg,        \* Message rows: sender, createdAt, readAt set, who deleted it
    delivered,  \* messages with the recipient's MessageDeliveryReceipt
    readBy,     \* messages with the recipient's MessageReadReceipt
    cursor,     \* ConversationParticipant.lastReadMessageId
    handler,       \* what each handler is about to do
    clock,
    overlapped  \* history: two requests were in flight at once, or one died

blockVars == <<blockedBy, blocks>>
receiptVars == <<delivered, readBy, cursor>>
threadVars == <<started, lastAt, blockVars, msg, receiptVars, handler, clock,
          overlapped>>

Unsent == [sent |-> FALSE, from |-> NoOne, at |-> 0, read |-> FALSE,
           deleted |-> {}]
MessageRow ==
    {Unsent} \cup [sent : {TRUE}, from : Profile, at : 1..MaxTime,
                   read : BOOLEAN, deleted : SUBSET Profile]
AtRest == [pc |-> "idle", who |-> NoOne, at |-> 0, todo |-> {}, barred |-> FALSE]
\* barred is history: a block stood when a request to open or to send began,
\* and one has stood ever since.
HandlerState ==
    {AtRest}
    \cup [pc : {"interact", "openCheck", "open", "read", "deliver", "unblock",
                "settle", "refresh"},
          who : Profile, at : 0..MaxTime, todo : SUBSET Message,
          barred : BOOLEAN]
    \cup [pc : {"send"}, who : Profile, at : 1..MaxTime,
          todo : SUBSET Message, barred : BOOLEAN]

ThreadInit ==
    /\ started = FALSE /\ lastAt = 0
    /\ blockedBy = NoOne /\ blocks = {}
    /\ msg = [m \in Message |-> Unsent]
    /\ delivered = {} /\ readBy = {}
    /\ cursor = [p \in Profile |-> NoOne]
    /\ handler = [r \in ThreadRequest |-> AtRest]
    /\ clock = 1
    /\ overlapped = FALSE

-----------------------------------------------------------------------------
Working(r, pc) == handler[r].pc = pc
Goes(r, state) == handler' = [handler EXCEPT ![r] = state]

\* A request moves on, with the time it took.
Moves(r, pc, at) ==
    Goes(r, [pc |-> pc, who |-> handler[r].who, at |-> at, todo |-> {},
             barred |-> handler[r].barred])

\* A request of p begins, with the messages it found.
Begins(r, p, pc, todo) ==
    /\ Working(r, "idle")
    /\ Goes(r, [pc |-> pc, who |-> p, at |-> 0, todo |-> todo,
                barred |-> blocks # {} /\ pc \in {"openCheck", "interact"}])
    /\ overlapped' = (overlapped \/ \E q \in ThreadRequest : ~Working(q, "idle"))

SentSoFar == {m \in Message : msg[m].sent}
To(m, p) == msg[m].sent /\ msg[m].from # p

\* assertProfilesCanInteract: a block by either side.
CanInteract_OwnBlock(p) == p \notin blocks
CanInteract(p) == blocks = {}

(* startOrGetConversation: the recipient is there, may the two interact,   *)
(* and then the upsert, with its participants.                             *)
OpenRead(r, p) ==
    /\ Begins(r, p, "openCheck", {})
    /\ UNCHANGED <<started, lastAt, blockVars, msg, receiptVars, clock>>

OpenCheck(r) ==
    /\ Working(r, "openCheck")
    /\ \/ CanInteract(handler[r].who) /\ Moves(r, "open", 0)
       \/ ~CanInteract(handler[r].who) /\ Goes(r, AtRest)
    /\ UNCHANGED <<started, lastAt, blockVars, msg, receiptVars, clock,
                   overlapped>>

Open(r) ==
    /\ Working(r, "open")
    /\ started' = TRUE
    /\ Goes(r, AtRest)
    /\ UNCHANGED <<lastAt, blockVars, msg, receiptVars, clock,
                   overlapped>>

(* sendConversationMessage: the conversation is not marked blocked, the    *)
(* two may interact, createdAt is taken, and then the write.               *)
SendRead(r, p) ==
    /\ started /\ blockedBy = NoOne
    /\ Begins(r, p, "interact", {})
    /\ UNCHANGED <<started, lastAt, blockVars, msg, receiptVars, clock>>

CreatedAt == clock

SendCheck(r) ==
    /\ Working(r, "interact")
    /\ \/ CanInteract(handler[r].who) /\ Moves(r, "send", CreatedAt)
       \/ ~CanInteract(handler[r].who) /\ Goes(r, AtRest)
    /\ UNCHANGED <<started, lastAt, blockVars, msg, receiptVars, clock,
                   overlapped>>

Send(r, m) ==
    /\ Working(r, "send")
    /\ ~msg[m].sent
    /\ msg' = [msg EXCEPT ![m] =
            [sent |-> TRUE, from |-> handler[r].who, at |-> handler[r].at,
             read |-> FALSE, deleted |-> {}]]
    /\ lastAt' = handler[r].at
    /\ Goes(r, AtRest)
    /\ UNCHANGED <<started, blockVars, receiptVars, clock,
                   overlapped>>

(* markConversationRead: its transaction finds the unread messages, and    *)
(* then stamps them, with both receipts and the participant's cursor.      *)
Unread(p) ==
    {m \in Message : To(m, p) /\ ~msg[m].read /\ p \notin msg[m].deleted}

ReadFind(r, p) ==
    /\ Unread(p) # {}
    /\ Begins(r, p, "read", Unread(p))
    /\ UNCHANGED <<started, lastAt, blockVars, msg, receiptVars, clock>>

ReceiptsOfRead(todo) == delivered \cup todo

\* The cursor goes to the newest message found, of equal times to any.
Newest_OfAll(todo) ==
    {m \in SentSoFar : \A n \in SentSoFar : msg[n].at <= msg[m].at}
Newest(todo) == {m \in todo : \A n \in todo : msg[n].at <= msg[m].at}

ReadWrite(r) ==
    /\ Working(r, "read")
    /\ msg' = [m \in Message |-> IF m \in handler[r].todo
            THEN [msg[m] EXCEPT !.read = TRUE] ELSE msg[m]]
    /\ delivered' = ReceiptsOfRead(handler[r].todo)
    /\ readBy' = readBy \cup handler[r].todo
    /\ \E m \in Newest(handler[r].todo) :
            cursor' = [cursor EXCEPT ![handler[r].who] = m]
    /\ Goes(r, AtRest)
    /\ UNCHANGED <<started, lastAt, blockVars, clock,
                   overlapped>>

(* markConversationDelivered: likewise, for the delivery receipts alone.   *)
Undelivered(p) ==
    {m \in Message : To(m, p) /\ p \notin msg[m].deleted} \ delivered

DeliverFind(r, p) ==
    /\ Undelivered(p) # {}
    /\ Begins(r, p, "deliver", Undelivered(p))
    /\ UNCHANGED <<started, lastAt, blockVars, msg, receiptVars, clock>>

DeliverWrite(r) ==
    /\ Working(r, "deliver")
    /\ delivered' = delivered \cup handler[r].todo
    /\ Goes(r, AtRest)
    /\ UNCHANGED <<started, lastAt, blockVars, msg, readBy, cursor, clock,
                   overlapped>>

(* softDeleteConversationMessage: hidden from p; then lastMessageAt is     *)
(* read from the messages somebody still sees, and written.                *)
Delete(r, p, m) ==
    /\ msg[m].sent
    /\ msg' = [msg EXCEPT ![m].deleted = @ \cup {p}]
    /\ Begins(r, p, "settle", {})
    /\ UNCHANGED <<started, lastAt, blockVars, receiptVars, clock>>

\* t is the time of the newest message somebody sees, 0 when there is none.
IsLast_SeenByBoth(t) ==
    LET seen == {m \in SentSoFar : msg[m].deleted = {}}
    IN  /\ \A m \in seen : msg[m].at <= t
        /\ t = 0 \/ \E m \in seen : msg[m].at = t
IsLast(t) ==
    LET seen == {m \in SentSoFar : msg[m].deleted # Profile}
    IN  /\ \A m \in seen : msg[m].at <= t
        /\ t = 0 \/ \E m \in seen : msg[m].at = t

RefreshRead(r) ==
    /\ Working(r, "settle")
    /\ \E t \in 0..MaxTime : IsLast(t) /\ Moves(r, "refresh", t)
    /\ UNCHANGED <<started, lastAt, blockVars, msg, receiptVars, clock,
                   overlapped>>

RefreshWrite(r) ==
    /\ Working(r, "refresh")
    /\ lastAt' = handler[r].at
    /\ Goes(r, AtRest)
    /\ UNCHANGED <<started, blockVars, msg, receiptVars, clock,
                   overlapped>>

(* setConversationBlock: a block writes over the other's mark; an unblock  *)
(* that read its own mark clears whatever mark is there by then.           *)
Block(p) ==
    /\ started
    /\ blockedBy' = p
    /\ blocks' = blocks \cup {p}
    /\ UNCHANGED <<started, lastAt, msg, receiptVars, handler, clock,
                   overlapped>>

UnblockRead(r, p) ==
    /\ blockedBy = p
    /\ Begins(r, p, "unblock", {})
    /\ UNCHANGED <<started, lastAt, blockVars, msg, receiptVars, clock>>

Unmarked_Kept == blockedBy
Unmarked == NoOne

Unblock(r) ==
    /\ Working(r, "unblock")
    /\ blockedBy' = Unmarked
    /\ blocks' = blocks \ {handler[r].who}
    /\ handler' = [q \in ThreadRequest |->
            IF q = r THEN AtRest
            ELSE IF handler[q].barred /\ blocks' = {}
                 THEN [handler[q] EXCEPT !.barred = FALSE] ELSE handler[q]]
    /\ UNCHANGED <<started, lastAt, msg, receiptVars, clock,
                   overlapped>>

(* blockFeedPostAuthorForCurrentUser: the row alone.                       *)
FeedBlock(p) ==
    /\ blocks' = blocks \cup {p}
    /\ UNCHANGED <<started, lastAt, blockedBy, msg, receiptVars, handler, clock,
                   overlapped>>

(* The process of a request dies; its open transaction is rolled back.     *)
Die(r) ==
    /\ ~Working(r, "idle")
    /\ overlapped' = TRUE
    /\ Goes(r, AtRest)
    /\ UNCHANGED <<started, lastAt, blockVars, msg, receiptVars, clock>>

Tick ==
    /\ clock < MaxTime
    /\ clock' = clock + 1
    /\ UNCHANGED <<started, lastAt, blockVars, msg, receiptVars, handler,
                   overlapped>>

ThreadNext ==
    \/ \E r \in ThreadRequest, p \in Profile :
          \/ OpenRead(r, p) \/ SendRead(r, p)
          \/ ReadFind(r, p) \/ DeliverFind(r, p) \/ UnblockRead(r, p)
          \/ \E m \in Message : Delete(r, p, m)
    \/ \E r \in ThreadRequest :
          \/ OpenCheck(r) \/ Open(r) \/ SendCheck(r)
          \/ \E m \in Message : Send(r, m)
          \/ ReadWrite(r) \/ DeliverWrite(r)
          \/ RefreshRead(r) \/ RefreshWrite(r) \/ Unblock(r) \/ Die(r)
    \/ \E p \in Profile : Block(p) \/ FeedBlock(p)
    \/ Tick

ThreadSpec == ThreadInit /\ [][ThreadNext]_threadVars

-----------------------------------------------------------------------------
(* Every row and every handler is well typed.                              *)
ThreadTypeOK ==
    /\ started \in BOOLEAN
    /\ lastAt \in 0..MaxTime
    /\ blockedBy \in Profile \cup {NoOne}
    /\ blocks \in SUBSET Profile
    /\ msg \in [Message -> MessageRow]
    /\ delivered \in SUBSET Message
    /\ readBy \in SUBSET Message
    /\ cursor \in [Profile -> Message \cup {NoOne}]
    /\ handler \in [ThreadRequest -> HandlerState]
    /\ clock \in 1..MaxTime
    /\ overlapped \in BOOLEAN

(* The sender's ticks agree with the recipient's rows: a message is read   *)
(* exactly when its read receipt is there, and then it is delivered, in    *)
(* whatever order the two marks of two tabs commit                         *)
(* (markConversationRead: "Read implies delivered.").                      *)
ReadIsDelivered ==
    \A m \in Message : /\ msg[m].read <=> m \in readBy
                       /\ msg[m].read => m \in delivered

(* A participant's cursor names a message that was sent to it and that it  *)
(* has read, although it is written from a list found earlier.             *)
CursorIsRead ==
    \A p \in Profile : cursor[p] # NoOne =>
        msg[cursor[p]].read /\ To(cursor[p], p)

(* What the sender and the recipient see of one message agrees: ticks,     *)
(* receipts and cursor, under any overlap of marks, sends and deletions    *)
(* (markConversationRead, markConversationDelivered).                      *)
ReceiptsAgree == ReadIsDelivered /\ CursorIsRead

(* The block a thread shows is one that is in force: blockedById is backed *)
(* by a UserBlock row of that profile, whoever blocked over whom and       *)
(* however stale the read of an unblock (setConversationBlock).            *)
MarkedIsBlocked == blockedBy # NoOne => blockedBy \in blocks

(* A request to send or to open that began under a block does not come to  *)
(* its write while a block stands, even when the mark on the conversation  *)
(* was lost to the other's block and unblock: the rows keep it out         *)
(* (assertNotBlocked, assertProfilesCanInteract).                          *)
BlockKeepsOut ==
    \A r \in ThreadRequest : Working(r, "send") \/ Working(r, "open") =>
        ~handler[r].barred

(* The inbox is sorted by lastMessageAt: as long as requests come one      *)
(* after the other and none dies, it is the time of the newest message     *)
(* that somebody still sees (refreshConversationLastMessageAt).  Requests  *)
(* that overlap can leave another time there, since a send and a refresh   *)
(* each write a time they took before.                                     *)
InboxTimeIsNewest ==
    (~overlapped /\ \A r \in ThreadRequest : Working(r, "idle")) =>
        LET seen  == {m \in SentSoFar : msg[m].deleted # Profile}
            times == {msg[m].at : m \in seen}
        IN  lastAt \in times \cup {0} /\ \A t \in times : t <= lastAt
=============================================================================
