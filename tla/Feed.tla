--------------------------------- MODULE Feed ---------------------------------
(***************************************************************************)
(* The community feed: src/lib/feed-service.ts behind its API routes, the  *)
(* banned phrases of src/lib/moderation-service.ts, and the page in the    *)
(* browser, src/components/instant-feed-controls.tsx with the refresh on   *)
(* broadcasts of src/components/realtime-refresh.tsx.                      *)
(*                                                                         *)
(* One post is modelled, with its comments and likes, and tabs that show   *)
(* it.  A tab has one request under way.  A request reads the post, the    *)
(* blocks, the phrases and its own like each in a transaction of its own,  *)
(* writes in another, and broadcasts and notifies after that.              *)
(***************************************************************************)
EXTENDS Integers, Sequences, FiniteSets

CONSTANTS
    Tab,
    Member,
    Author,       \* the member who writes the post
    Moderator,    \* members who moderate
    Nil,
    MaxFeedEvents,  \* bound on requests and on changes of blocks and phrases
    MaxFeedFaults   \* bound on failures after the write

ASSUME FeedAssumption ==
    /\ IsFiniteSet(Tab)
    /\ Author \in Member
    /\ {MaxFeedEvents, MaxFeedFaults} \subseteq Nat
    /\ Nil \notin {"post", "comment", "like", "moderate", "active", "hidden", "removed"}

VARIABLES
    Of,         \* tab -> the member who has it open
    post,       \* FeedPost: its status, and whether its text was let through
    topic,      \* whether the post's topic is active
    rules,      \* actions of the active phrases that match a bad text
    apart,      \* members with a block between them and the author
    likes,      \* FeedReaction rows
    written,    \* comments and likes made, each with what was so at the time
    notices,    \* Notification rows of the author
    lost,       \* notices that could not be made
    request,    \* tab -> its request
    shown,      \* tab -> whether its button says liked
    doubt,      \* tabs whose button cannot know
    stale,      \* tabs that show less than what is on record
    timer,      \* stale tabs with a refresh due
    missed,     \* stale tabs that were not told
    steps, feedFaults

rowVars == <<post, topic, rules, apart, likes, written>>
noticeVars == <<notices, lost>>
tabVars == <<shown, doubt, stale, timer, missed>>
feedVars == <<Of, rowVars, noticeVars, request, tabVars, steps, feedFaults>>

NoPost == [status |-> Nil, screened |-> TRUE]
\* What a request has seen, and, since it began, whether at some time no
\* phrase matched (clear) and no block was on record (met).
NoRequest == [kind |-> Nil, pc |-> "idle", bad |-> FALSE, status |-> "active",
              had |-> FALSE, fresh |-> FALSE, clear |-> FALSE, met |-> FALSE]

FeedInit ==
    /\ Of \in [Tab -> Member]
    /\ post \in {NoPost, [NoPost EXCEPT !.status = "active"]} /\ topic = TRUE
    /\ rules = {} /\ apart = {} /\ likes = {} /\ written = <<>>
    /\ notices = 0 /\ lost = 0
    /\ request = [t \in Tab |-> NoRequest]
    /\ shown = [t \in Tab |-> FALSE]
    /\ doubt = {} /\ stale = {} /\ timer = {} /\ missed = {}
    /\ steps = 0 /\ feedFaults = 0

-----------------------------------------------------------------------------
(* Blocks, phrases and topics change under way.                            *)
Event == steps < MaxFeedEvents /\ steps' = steps + 1

SetBlock(m) ==
    /\ m # Author /\ Event
    /\ apart' = IF m \in apart THEN apart \ {m} ELSE apart \cup {m}
    /\ request' = [t \in Tab |-> IF request[t] = NoRequest THEN NoRequest
                ELSE [request[t] EXCEPT !.met = @ \/ Of[t] \notin apart']]
    /\ UNCHANGED <<post, topic, rules, likes, written, noticeVars, tabVars, feedFaults>>

\* createBannedPhraseForModerator, setBannedPhraseActiveForModerator.
SetPhrase(action) ==
    /\ Event
    /\ rules' = IF action \in rules THEN rules \ {action} ELSE rules \cup {action}
    /\ request' = [t \in Tab |-> IF request[t] = NoRequest THEN NoRequest
                ELSE [request[t] EXCEPT !.clear = @ \/ rules' = {}]]
    /\ UNCHANGED <<post, topic, apart, likes, written, noticeVars, tabVars, feedFaults>>

SetTopic ==
    /\ Event
    /\ topic' = ~topic
    /\ UNCHANGED <<post, rules, apart, likes, written, noticeVars, request, tabVars, feedFaults>>

-----------------------------------------------------------------------------
RequestGoes(t, state) == request' = [request EXCEPT ![t] = state]
RequestTo(t, pc) == RequestGoes(t, [request[t] EXCEPT !.pc = pc])
At(t, pc, kinds) == request[t].pc = pc /\ request[t].kind \in kinds

Began(t, kind, bad) ==
    [kind |-> kind, pc |-> "begin", bad |-> bad, status |-> "active", had |-> FALSE,
     fresh |-> FALSE, clear |-> rules = {}, met |-> Of[t] \notin apart]

\* The composer and the comment form, and the moderators' page.
Submit(t, kind, bad) ==
    /\ request[t] = NoRequest /\ Event
    /\ CASE kind = "post" -> Of[t] = Author /\ post = NoPost
         [] kind = "comment" -> post # NoPost
         [] OTHER -> Of[t] \in Moderator /\ ~bad /\ post # NoPost
    /\ RequestGoes(t, Began(t, kind, bad))
    /\ UNCHANGED <<rowVars, noticeVars, tabVars, feedFaults>>

\* The button turns before it asks.
Click(t) ==
    /\ request[t] = NoRequest /\ post # NoPost /\ Event
    /\ RequestGoes(t, Began(t, "like", FALSE))
    /\ shown' = [shown EXCEPT ![t] = ~@]
    /\ UNCHANGED <<rowVars, noticeVars, doubt, stale, timer, missed, feedFaults>>

\* An error turns the button back.
Fails(t) ==
    /\ RequestGoes(t, NoRequest)
    /\ shown' = IF request[t].kind = "like" THEN [shown EXCEPT ![t] = ~@] ELSE shown

Refused(t) == Fails(t) /\ UNCHANGED <<doubt, stale, timer, missed>>
Passes(t, pc) == RequestTo(t, pc) /\ UNCHANGED tabVars

\* The rate limit, and the read of the post or of its topic.
Find(t) ==
    /\ request[t].pc = "begin"
    /\ \/ Refused(t)
       \/ /\ IF request[t].kind = "post" THEN topic
             ELSE request[t].kind = "moderate" \/ post.status = "active"
          /\ Passes(t, CASE request[t].kind = "post" -> "screen"
                         [] request[t].kind = "moderate" -> "write"
                         [] OTHER -> "meet")
    /\ UNCHANGED <<rowVars, noticeVars, steps, feedFaults>>

\* assertProfilesCanInteract.
Meet(t) ==
    /\ request[t].pc = "meet"
    /\ IF Of[t] \in apart THEN Refused(t)
       ELSE Passes(t, IF request[t].kind = "like" THEN "look" ELSE "screen")
    /\ UNCHANGED <<rowVars, noticeVars, steps, feedFaults>>

\* findBannedPhraseMatch: some phrase that matches, in no order.
Screen(t) ==
    /\ request[t].pc = "screen"
    /\ \/ /\ request[t].bad /\ "block" \in rules /\ Refused(t)
       \/ /\ request[t].bad /\ "review" \in rules
          /\ RequestGoes(t, [request[t] EXCEPT !.pc = "write", !.status = "hidden"])
          /\ UNCHANGED tabVars
       \/ ~request[t].bad /\ Passes(t, "write")
       \/ request[t].bad /\ rules = {} /\ Passes(t, "write")
    /\ UNCHANGED <<rowVars, noticeVars, steps, feedFaults>>

Look(t) ==
    /\ request[t].pc = "look"
    /\ RequestGoes(t, [request[t] EXCEPT !.pc = "write", !.had = Of[t] \in likes])
    /\ UNCHANGED <<rowVars, noticeVars, tabVars, steps, feedFaults>>

-----------------------------------------------------------------------------
(* The writes.  What others can see of one is broadcast next.              *)
Made(t) == [kind |-> request[t].kind, by |-> Of[t], active |-> request[t].status = "active",
            screened |-> ~request[t].bad \/ request[t].clear, met |-> request[t].met]

Seen == stale' = Tab /\ UNCHANGED timer
Unseen == UNCHANGED <<stale, timer>>

Wrote(t, pc, fresh) == RequestGoes(t, [request[t] EXCEPT !.pc = pc, !.fresh = fresh])

WritePost(t) ==
    /\ At(t, "write", {"post"})
    /\ post = NoPost
    /\ post' = [status |-> request[t].status, screened |-> Made(t).screened]
    /\ IF request[t].status = "active" THEN Wrote(t, "broadcast", FALSE) /\ Seen
       ELSE Wrote(t, "answer", FALSE) /\ Unseen
    /\ UNCHANGED <<topic, rules, apart, likes, written, noticeVars, shown, doubt,
                   missed, steps, feedFaults>>

WriteComment_Told(t) ==
    /\ At(t, "write", {"comment"})
    /\ written' = Append(written, Made(t))
    /\ IF request[t].status = "active" THEN Wrote(t, "broadcast", TRUE) /\ Seen
       ELSE Wrote(t, "notify", TRUE) /\ Unseen
    /\ UNCHANGED <<post, topic, rules, apart, likes, noticeVars, shown, doubt,
                   missed, steps, feedFaults>>

WriteComment(t) ==
    /\ At(t, "write", {"comment"})
    /\ written' = Append(written, Made(t))
    /\ IF request[t].status = "active" THEN Wrote(t, "broadcast", TRUE) /\ Seen
       ELSE Wrote(t, "answer", FALSE) /\ Unseen
    /\ UNCHANGED <<post, topic, rules, apart, likes, noticeVars, shown, doubt,
                   missed, steps, feedFaults>>

\* The member's other tabs are not told which way the like went.
OtherTabs(t) == {o \in Tab \ {t} : Of[o] = Of[t]}

\* A row found is deleted, else one is made; the row being gone by then, or
\* made by another tab, is an error.
WriteLike(t) ==
    /\ At(t, "write", {"like"})
    /\ IF request[t].had = (Of[t] \in likes)
       THEN /\ IF request[t].had THEN likes' = likes \ {Of[t]} /\ UNCHANGED written
               ELSE /\ likes' = likes \cup {Of[t]}
                    /\ written' = Append(written, Made(t))
            /\ Wrote(t, "broadcast", ~request[t].had)
            /\ Seen
            /\ doubt' = doubt \cup OtherTabs(t)
            /\ UNCHANGED shown
       ELSE Fails(t) /\ Unseen /\ UNCHANGED <<likes, written, doubt>>
    /\ UNCHANGED <<post, topic, rules, apart, noticeVars, missed, steps, feedFaults>>

\* moderateFeedPostForModerator, whatever the status was; a pin moves it.
Moderate(t) ==
    /\ At(t, "write", {"moderate"})
    /\ \E status \in {"active", "hidden", "removed", post.status} :
        post' = [status |-> status,
                 screened |-> post.screened \/ (status = "active" /\ post.status # status)]
    /\ Wrote(t, "broadcast", FALSE) /\ Seen
    /\ UNCHANGED <<topic, rules, apart, likes, written, noticeVars, shown, doubt,
                   missed, steps, feedFaults>>

-----------------------------------------------------------------------------
(* What follows a write; neither a broadcast nor a notice that fails is an *)
(* error.                                                                  *)
FeedFault == feedFaults < MaxFeedFaults /\ feedFaults' = feedFaults + 1

Broadcast(t) ==
    /\ request[t].pc = "broadcast"
    /\ \/ timer' = timer \cup stale /\ UNCHANGED <<missed, feedFaults>>
       \/ missed' = missed \cup stale /\ FeedFault /\ UNCHANGED timer
    /\ RequestTo(t, IF request[t].fresh THEN "notify" ELSE "answer")
    /\ UNCHANGED <<rowVars, noticeVars, shown, doubt, stale, steps>>

Notify(t) ==
    /\ request[t].pc = "notify"
    /\ IF Of[t] = Author THEN UNCHANGED <<noticeVars, feedFaults>>
       ELSE \/ notices' = notices + 1 /\ UNCHANGED <<lost, feedFaults>>
            \/ lost' = lost + 1 /\ FeedFault /\ UNCHANGED notices
    /\ RequestTo(t, "answer")
    /\ UNCHANGED <<rowVars, tabVars, steps>>

\* The form is reset, and the page asks for what is on record.
Refreshed(t) ==
    stale' = stale \ {t} /\ missed' = missed \ {t} /\ timer' = timer \ {t}

Answer(t) ==
    /\ request[t].pc = "answer"
    /\ RequestGoes(t, NoRequest)
    /\ Refreshed(t)
    /\ UNCHANGED <<rowVars, noticeVars, shown, doubt, steps, feedFaults>>

(* The server dies, or the answer is lost: the tab sees an error, whatever *)
(* was written.                                                            *)
After(t) == request[t].pc \in {"broadcast", "notify", "answer"}
Owed(t) == After(t) /\ request[t].fresh /\ request[t].pc # "answer" /\ Of[t] # Author

Dies(t) ==
    /\ After(t) /\ FeedFault
    /\ Fails(t)
    /\ doubt' = IF request[t].kind = "like" THEN doubt \cup {t} ELSE doubt
    /\ missed' = IF request[t].pc = "broadcast" THEN missed \cup stale ELSE missed
    /\ lost' = IF Owed(t) THEN lost + 1 ELSE lost
    /\ UNCHANGED <<rowVars, notices, stale, timer, steps>>

-----------------------------------------------------------------------------
\* RealtimeRefresh: 150 ms after the last event; the buttons keep their state.
Refresh(t) ==
    /\ t \in timer
    /\ Refreshed(t)
    /\ UNCHANGED <<rowVars, noticeVars, request, shown, doubt, steps, feedFaults>>

\* The page is opened anew.
Reload(t) ==
    /\ request[t] = NoRequest
    /\ shown' = [shown EXCEPT ![t] = Of[t] \in likes]
    /\ doubt' = doubt \ {t}
    /\ Refreshed(t)
    /\ UNCHANGED <<rowVars, noticeVars, request, steps, feedFaults>>

FeedNext ==
    /\ \/ \E m \in Member : SetBlock(m)
       \/ \E action \in {"review", "block"} : SetPhrase(action)
       \/ SetTopic
       \/ \E t \in Tab, kind \in {"post", "comment", "moderate"}, bad \in BOOLEAN :
            Submit(t, kind, bad)
       \/ \E t \in Tab :
            \/ Click(t) \/ Find(t) \/ Meet(t) \/ Screen(t) \/ Look(t)
            \/ WritePost(t) \/ WriteComment(t) \/ WriteLike(t) \/ Moderate(t)
            \/ Broadcast(t) \/ Notify(t) \/ Answer(t) \/ Dies(t)
            \/ Refresh(t) \/ Reload(t)
    /\ UNCHANGED Of

FeedSpec == FeedInit /\ [][FeedNext]_feedVars

-----------------------------------------------------------------------------
(* Types of every variable.                                                *)
Kind == {"post", "comment", "like", "moderate"}
Status == {"active", "hidden", "removed"}
Asking == [kind : Kind \cup {Nil},
           pc : {"idle", "begin", "meet", "screen", "look", "write", "broadcast",
                 "notify", "answer"},
           bad : BOOLEAN, status : Status, had : BOOLEAN, fresh : BOOLEAN,
           clear : BOOLEAN, met : BOOLEAN]
Entry == [kind : Kind, by : Member, active : BOOLEAN, screened : BOOLEAN,
          met : BOOLEAN]

FeedTypeOK ==
    /\ Of \in [Tab -> Member]
    /\ post \in [status : Status \cup {Nil}, screened : BOOLEAN]
    /\ topic \in BOOLEAN /\ rules \subseteq {"review", "block"}
    /\ apart \subseteq Member \ {Author} /\ likes \subseteq Member
    /\ written \in Seq(Entry)
    /\ notices \in Nat /\ lost \in Nat
    /\ request \in [Tab -> Asking]
    /\ shown \in [Tab -> BOOLEAN]
    /\ doubt \cup stale \cup timer \cup missed \subseteq Tab
    /\ steps \in 0..MaxFeedEvents /\ feedFaults \in 0..MaxFeedFaults

(* What a phrase matches is not shown, and who is blocked writes nothing,  *)
(* unless the phrase, or the block, was off at some time while the request *)
(* ran, or a moderator restored the text.                                  *)
Kept ==
    /\ post.status = "active" => post.screened
    /\ \A i \in 1..Len(written) :
        written[i].met /\ (written[i].active => written[i].screened)

(* The author is told once of each like and of each comment that can be    *)
(* seen, by others, and of nothing else: but for notices that failed, all  *)
(* are made or on their way.                                               *)
OfOthers == {i \in 1..Len(written) : written[i].active /\ written[i].by # Author}
NoticesAgree ==
    notices + lost + Cardinality({t \in Tab : Owed(t)}) = Cardinality(OfOthers)

(* A button that has no request under way says what is on record, unless   *)
(* an answer was lost or another tab of the member has liked since.        *)
ButtonAgrees ==
    \A t \in Tab \ doubt : request[t].kind # "like" => shown[t] = (Of[t] \in likes)

(* A tab that shows less than what is on record is about to be refreshed,  *)
(* or its news failed to be broadcast.                                     *)
StaleIsDue ==
    \A t \in stale : t \in timer \cup missed \/ \E r \in Tab : request[r].pc = "broadcast"

FeedAgrees == Kept /\ NoticesAgree /\ ButtonAgrees /\ StaleIsDue
===============================================================================
