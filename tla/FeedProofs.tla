----------------------------- MODULE FeedProofs -----------------------------
(* What holds of Feed for any tabs, members and bounds, of CallPanel for   *)
(* any bounds, and of Conversations for any number of messages and         *)
(* requests.                                                               *)
EXTENDS Feed, CallPanel, Conversations, FiniteSetTheorems, SequenceTheorems, TLAPS

-----------------------------------------------------------------------------
(* The feed.                                                               *)

Before == {"begin", "meet", "screen", "look", "write"}

(* What a request r of the member m carries.                               *)
Carries(r, m) ==
    /\ r.pc = "idle" => r = NoRequest
    /\ r.pc # "idle" =>
        r.kind \in Kind /\ (rules = {} => r.clear) /\ (m \notin apart => r.met)
    /\ r.kind \in {"like", "moderate"} => ~r.bad
    /\ r.kind = "like" => r.status = "active"
    /\ r.kind \in {"comment", "like"} /\ r.pc \notin {"begin", "meet"} => r.met
    /\ r.pc = "write" /\ r.status = "active" => ~r.bad \/ r.clear
    /\ r.pc = "look" => r.kind = "like"
    /\ r.pc = "notify" => r.fresh

AllCarry == \A t \in Tab : Carries(request[t], Of[t])

(* The button of a like that is not written yet says what will be.         *)
Turned(t) == request[t].kind = "like" /\ request[t].pc \in Before
Buttons ==
    \A t \in Tab \ doubt :
        shown[t] <=> IF Turned(t) THEN Of[t] \notin likes ELSE Of[t] \in likes

FeedIInv ==
    /\ FeedTypeOK /\ AllCarry /\ Buttons
    /\ Kept /\ NoticesAgree /\ StaleIsDue

Owing == {t \in Tab : Owed(t)}

-----------------------------------------------------------------------------
LEMMA Fields ==
    ASSUME NEW r \in Asking
    PROVE  /\ r.kind \in Kind \cup {Nil} /\ r.status \in Status
           /\ r.bad \in BOOLEAN /\ r.had \in BOOLEAN /\ r.fresh \in BOOLEAN
           /\ r.clear \in BOOLEAN /\ r.met \in BOOLEAN
           /\ Nil \notin Kind /\ Nil \notin Status
BY FeedAssumption DEF Asking, Kind, Status

LEMMA NothingAsked ==
    /\ NoRequest \in Asking /\ NoRequest.pc = "idle" /\ NoRequest.kind = Nil
    /\ \A m : Carries(NoRequest, m)
BY FeedAssumption DEF NoRequest, Asking, Status, Kind, Carries

(* A request that goes on.                                                 *)
LEMMA GoesOn ==
    ASSUME FeedTypeOK, AllCarry, NEW t \in Tab, NEW s \in Asking, RequestGoes(t, s),
           UNCHANGED <<Of, rules, apart>>, Carries(s, Of[t])
    PROVE  /\ request' \in [Tab -> Asking] /\ AllCarry'
           /\ request'[t] = s /\ \A u \in Tab \ {t} : request'[u] = request[u]
<1>1. request' = [request EXCEPT ![t] = s] /\ request \in [Tab -> Asking]
  BY DEF RequestGoes, FeedTypeOK
<1>2. /\ request' \in [Tab -> Asking]
      /\ request'[t] = s /\ \A u \in Tab \ {t} : request'[u] = request[u]
  BY <1>1
<1> QED
  BY <1>2 DEF AllCarry, Carries

(* The tabs that owe a notice: one comes to it, leaves it, or neither.     *)
LEMMA OwingIs ==
    IsFiniteSet(Owing) /\ Cardinality(Owing) \in Nat
BY FeedAssumption, FS_Subset, FS_CardinalityType DEF Owing

LEMMA OwingChanges ==
    ASSUME NEW t \in Tab, Of' = Of, \A u \in Tab \ {t} : request'[u] = request[u]
    PROVE  /\ (Owed(t) <=> Owed(t)') => Cardinality(Owing') = Cardinality(Owing)
           /\ ~Owed(t) /\ Owed(t)' => Cardinality(Owing') = Cardinality(Owing) + 1
           /\ Owed(t) /\ ~Owed(t)' => Cardinality(Owing') = Cardinality(Owing) - 1
<1>1. \A u \in Tab \ {t} : Owed(u)' <=> Owed(u)
  BY DEF Owed, After
<1>2. ASSUME Owed(t) <=> Owed(t)' PROVE Owing' = Owing
  BY <1>1, <1>2 DEF Owing
<1>3. ASSUME ~Owed(t), Owed(t)' PROVE Cardinality(Owing') = Cardinality(Owing) + 1
  <2>1. Owing' = Owing \cup {t} /\ t \notin Owing
    BY <1>1, <1>3 DEF Owing
  <2> QED
    BY <2>1, OwingIs, FS_AddElement
<1>4. ASSUME Owed(t), ~Owed(t)' PROVE Cardinality(Owing') = Cardinality(Owing) - 1
  <2>1. Owing' = Owing \ {t} /\ t \in Owing
    BY <1>1, <1>4 DEF Owing
  <2> QED
    BY <2>1, OwingIs, FS_RemoveElement
<1> QED
  BY <1>2, <1>3, <1>4

(* What a new comment or like adds to those that others can see.           *)
Others(s) == {i \in 1..Len(s) : s[i].active /\ s[i].by # Author}

LEMMA OthersGrow ==
    ASSUME NEW s \in Seq(Entry), NEW e \in Entry
    PROVE  /\ IsFiniteSet(Others(s)) /\ Cardinality(Others(s)) \in Nat
           /\ Cardinality(Others(Append(s, e))) =
                Cardinality(Others(s)) + IF e.active /\ e.by # Author THEN 1 ELSE 0
           /\ Append(s, e) \in Seq(Entry) /\ Len(Append(s, e)) = Len(s) + 1
           /\ Append(s, e)[Len(s) + 1] = e
           /\ \A i \in 1..Len(s) : Append(s, e)[i] = s[i]
<1>1. /\ Append(s, e) \in Seq(Entry) /\ Len(Append(s, e)) = Len(s) + 1 /\ Len(s) \in Nat
      /\ Append(s, e)[Len(s) + 1] = e
      /\ \A i \in 1..Len(s) : Append(s, e)[i] = s[i]
  OBVIOUS
<1>2. IsFiniteSet(Others(s)) /\ Cardinality(Others(s)) \in Nat
  <2>1. IsFiniteSet(1..Len(s))
    BY <1>1, FS_Interval
  <2>2. Others(s) \subseteq 1..Len(s)
    BY DEF Others
  <2> QED
    BY <2>1, <2>2, FS_Subset, FS_CardinalityType
<1>3. CASE e.active /\ e.by # Author
  <2>1. Others(Append(s, e)) = Others(s) \cup {Len(s) + 1} /\ Len(s) + 1 \notin Others(s)
    BY <1>1, <1>3 DEF Others
  <2>2. Cardinality(Others(s) \cup {Len(s) + 1}) = Cardinality(Others(s)) + 1
    BY <1>2, <2>1, FS_AddElement
  <2> QED
    BY <1>1, <1>2, <1>3, <2>1, <2>2
<1>4. CASE ~(e.active /\ e.by # Author)
  <2>1. Others(Append(s, e)) = Others(s)
    BY <1>1, <1>4 DEF Others
  <2> QED
    BY <1>1, <1>2, <1>4, <2>1
<1> QED
  BY <1>3, <1>4

-----------------------------------------------------------------------------
LEMMA FeedBegins == FeedInit => FeedIInv
<1> SUFFICES ASSUME FeedInit PROVE FeedIInv
  OBVIOUS
<1>1. /\ post \in [status : Status \cup {Nil}, screened : BOOLEAN]
      /\ post.status = "active" => post.screened
  <2>1. /\ NoPost \in [status : Status \cup {Nil}, screened : BOOLEAN]
        /\ NoPost.screened
    BY DEF NoPost
  <2>2. LET p == [NoPost EXCEPT !.status = "active"] IN
        p \in [status : Status \cup {Nil}, screened : BOOLEAN] /\ p.screened
    BY <2>1 DEF Status
  <2> QED
    BY <2>1, <2>2 DEF FeedInit
<1>2. FeedTypeOK
  BY <1>1, NothingAsked, FeedAssumption DEF FeedInit, FeedTypeOK
<1>3. AllCarry
  BY NothingAsked DEF FeedInit, AllCarry
<1>4. Buttons
  BY NothingAsked DEF FeedInit, Buttons, Turned, Before
<1>5. Kept
  BY <1>1 DEF FeedInit, Kept
<1>6. NoticesAgree
  <2>1. Owing = {} /\ OfOthers = {}
    BY NothingAsked DEF FeedInit, Owing, Owed, After, OfOthers
  <2> QED
    BY <2>1, FS_EmptySet DEF NoticesAgree, Owing, FeedInit
<1>7. StaleIsDue
  BY DEF FeedInit, StaleIsDue
<1> QED
  BY <1>2, <1>3, <1>4, <1>5, <1>6, <1>7 DEF FeedIInv

(* Steps that write no row: they ask, or the request is refused.           *)
LEMMA NoRowStep ==
    ASSUME FeedIInv, NEW t \in Tab, NEW s \in Asking, RequestGoes(t, s), Carries(s, Of[t]),
           UNCHANGED <<Of, rowVars, noticeVars, doubt, stale, timer, missed, feedFaults>>,
           steps' \in 0..MaxFeedEvents,
           ~Owed(t), s.pc \in Before \cup {"idle"}, request[t].pc # "broadcast",
           LET turns == s.kind = "like" /\ s.pc \in Before IN
           IF Turned(t) <=> turns
           THEN shown' = shown ELSE shown' = [shown EXCEPT ![t] = ~@]
    PROVE  FeedIInv'
<1>1. /\ FeedTypeOK /\ shown \in [Tab -> BOOLEAN]
      /\ UNCHANGED <<post, topic, rules, apart, likes, written, notices, lost>>
  BY DEF FeedIInv, FeedTypeOK, rowVars, noticeVars
<1>2. /\ request' \in [Tab -> Asking] /\ AllCarry'
      /\ request'[t] = s /\ \A u \in Tab \ {t} : request'[u] = request[u]
  BY <1>1, GoesOn DEF FeedIInv
<1>3. shown' \in [Tab -> BOOLEAN]
  BY <1>1
<1>4. FeedTypeOK'
  BY <1>1, <1>2, <1>3 DEF FeedTypeOK
<1>5. Buttons'
  <2> SUFFICES ASSUME NEW u \in Tab \ doubt
               PROVE  shown'[u] <=> IF Turned(u)' THEN Of[u] \notin likes ELSE Of[u] \in likes
    BY <1>1 DEF Buttons
  <2>1. shown[u] <=> IF Turned(u) THEN Of[u] \notin likes ELSE Of[u] \in likes
    BY DEF FeedIInv, Buttons
  <2>2. CASE u # t
    <3>1. shown'[u] = shown[u] /\ (Turned(u)' <=> Turned(u))
      BY <1>1, <1>2, <2>2 DEF Turned
    <3> QED
      BY <2>1, <3>1
  <2>3. CASE u = t
    <3>1. Turned(t)' <=> s.kind = "like" /\ s.pc \in Before
      BY <1>2 DEF Turned
    <3>2. CASE Turned(t)' <=> Turned(t)
      BY <2>1, <2>3, <3>1, <3>2
    <3>3. CASE ~(Turned(t)' <=> Turned(t))
      <4>1. shown'[t] = ~shown[t]
        BY <1>1, <3>1, <3>3
      <4> QED
        BY <2>1, <2>3, <3>3, <4>1
    <3> QED
      BY <3>2, <3>3
  <2> QED
    BY <2>2, <2>3
<1>6. Kept'
  BY <1>1 DEF FeedIInv, Kept
<1>7. NoticesAgree'
  <2>1. ~Owed(t)'
    BY <1>2 DEF Owed, After, Before
  <2>2. Cardinality(Owing') = Cardinality(Owing)
    BY <1>2, <2>1, OwingChanges
  <2> QED
    BY <1>1, <2>2 DEF FeedIInv, NoticesAgree, Owing, OfOthers
<1>8. StaleIsDue'
  BY <1>2 DEF FeedIInv, StaleIsDue, FeedTypeOK
<1> QED
  BY <1>2, <1>4, <1>5, <1>6, <1>7, <1>8 DEF FeedIInv

LEMMA WithPc ==
    ASSUME NEW r \in Asking,
           NEW pc \in {"begin", "meet", "screen", "look", "write", "broadcast", "notify",
                       "answer"}
    PROVE  LET s == [r EXCEPT !.pc = pc] IN
           /\ s \in Asking /\ s.pc = pc /\ s.kind = r.kind /\ s.bad = r.bad
           /\ s.status = r.status /\ s.fresh = r.fresh /\ s.had = r.had
           /\ s.clear = r.clear /\ s.met = r.met
BY DEF Asking

(* Refused requests, wherever they are.                                    *)
LEMMA RefusedStep ==
    ASSUME FeedIInv, NEW t \in Tab, Refused(t), request[t].pc \in Before,
           UNCHANGED <<Of, rowVars, noticeVars, steps, feedFaults>>
    PROVE  FeedIInv'
<1>1. RequestGoes(t, NoRequest) /\ UNCHANGED <<doubt, stale, timer, missed>>
      /\ shown' = IF request[t].kind = "like" THEN [shown EXCEPT ![t] = ~@] ELSE shown
  BY DEF Refused, Fails
<1>2. ~Owed(t) /\ request[t].pc # "broadcast" /\ steps' \in 0..MaxFeedEvents
  BY DEF Before, Owed, After, FeedIInv, FeedTypeOK
<1>3. ~(NoRequest.kind = "like" /\ NoRequest.pc \in Before)
  BY NothingAsked DEF Before
<1>4. (request[t].kind = "like") <=> Turned(t)
  BY DEF Turned
<1> QED
  BY <1>1, <1>2, <1>3, <1>4, NothingAsked, NoRowStep

(* And requests that find what they asked.                                 *)
LEMMA PassesStep ==
    ASSUME FeedIInv, NEW t \in Tab, NEW s \in Asking, RequestGoes(t, s), Carries(s, Of[t]),
           request[t].pc \in Before, s.pc \in Before, s.kind = request[t].kind,
           UNCHANGED tabVars, UNCHANGED <<Of, rowVars, noticeVars, steps, feedFaults>>
    PROVE  FeedIInv'
<1>1. ~Owed(t) /\ request[t].pc # "broadcast" /\ steps' \in 0..MaxFeedEvents
  BY DEF Before, Owed, After, FeedIInv, FeedTypeOK
<1>2. Turned(t) <=> s.kind = "like" /\ s.pc \in Before
  BY DEF Turned
<1>3. UNCHANGED <<shown, doubt, stale, timer, missed>>
  BY DEF tabVars
<1> QED
  BY <1>1, <1>2, <1>3, NoRowStep

LEMMA FindStep == ASSUME FeedIInv, NEW t \in Tab, Find(t), UNCHANGED Of PROVE FeedIInv'
<1> DEFINE r == request[t]
           pc == CASE r.kind = "post" -> "screen"
                   [] r.kind = "moderate" -> "write"
                   [] OTHER -> "meet"
           s == [r EXCEPT !.pc = pc]
<1>1. r \in Asking /\ Carries(r, Of[t]) /\ r.pc = "begin" /\ r.pc \in Before
  BY DEF FeedIInv, FeedTypeOK, AllCarry, Find, Before
<1>2. pc \in {"screen", "write", "meet"} /\ (pc = "write" => r.kind = "moderate")
      /\ (pc = "screen" => r.kind = "post")
  OBVIOUS
<1> HIDE DEF pc
<1>3. UNCHANGED <<Of, rowVars, noticeVars, steps, feedFaults>>
  BY DEF Find
<1>4. CASE Refused(t)
  BY <1>1, <1>3, <1>4, RefusedStep
<1>5. CASE Passes(t, pc)
  <2>1. RequestGoes(t, s) /\ UNCHANGED tabVars
    BY <1>5 DEF Passes, RequestTo
  <2>2. s \in Asking /\ s.pc = pc /\ s.kind = r.kind /\ s.bad = r.bad
        /\ s.status = r.status /\ s.clear = r.clear /\ s.met = r.met
    BY <1>1, <1>2 DEF Asking
  <2> HIDE DEF s, r
  <2>3. Carries(s, Of[t]) /\ s.pc \in Before
    BY <1>1, <1>2, <2>2 DEF Carries, Before
  <2> QED
    BY <1>1, <1>3, <2>1, <2>2, <2>3, PassesStep DEF r
<1> QED
  BY <1>4, <1>5 DEF Find, pc

LEMMA MeetStep == ASSUME FeedIInv, NEW t \in Tab, Meet(t), UNCHANGED Of PROVE FeedIInv'
<1> DEFINE r == request[t]
           pc == IF r.kind = "like" THEN "look" ELSE "screen"
           s == [r EXCEPT !.pc = pc]
<1>1. r \in Asking /\ Carries(r, Of[t]) /\ r.pc = "meet" /\ r.pc \in Before
  BY DEF FeedIInv, FeedTypeOK, AllCarry, Meet, Before
<1>2. UNCHANGED <<Of, rowVars, noticeVars, steps, feedFaults>>
  BY DEF Meet
<1>3. CASE Of[t] \in apart
  BY <1>1, <1>2, <1>3, RefusedStep DEF Meet
<1>4. CASE Of[t] \notin apart
  <2>1. RequestGoes(t, s) /\ UNCHANGED tabVars
    BY <1>4 DEF Meet, Passes, RequestTo
  <2>2. pc \in {"look", "screen"}
    OBVIOUS
  <2>3. pc = "look" => r.kind = "like"
    OBVIOUS
  <2> HIDE DEF pc
  <2>4. s \in Asking /\ s.pc = pc /\ s.kind = r.kind /\ s.bad = r.bad
        /\ s.status = r.status /\ s.clear = r.clear /\ s.met = r.met
    BY <1>1, <2>2 DEF Asking
  <2> HIDE DEF s, r
  <2>5. Carries(s, Of[t]) /\ s.pc \in Before
    BY <1>1, <1>4, <2>2, <2>4, <2>3 DEF Carries, Before
  <2> QED
    BY <1>1, <1>2, <2>1, <2>4, <2>5, PassesStep DEF r
<1> QED
  BY <1>3, <1>4

LEMMA ScreenStep == ASSUME FeedIInv, NEW t \in Tab, Screen(t), UNCHANGED Of PROVE FeedIInv'
<1> DEFINE r == request[t]
           hid == [r EXCEPT !.pc = "write", !.status = "hidden"]
           s == [r EXCEPT !.pc = "write"]
<1>1. r \in Asking /\ Carries(r, Of[t]) /\ r.pc = "screen" /\ r.pc \in Before
  BY DEF FeedIInv, FeedTypeOK, AllCarry, Screen, Before
<1>2. UNCHANGED <<Of, rowVars, noticeVars, steps, feedFaults>>
  BY DEF Screen
<1>3. CASE Refused(t)
  BY <1>1, <1>2, <1>3, RefusedStep
<1>4. CASE r.bad /\ RequestGoes(t, hid) /\ UNCHANGED tabVars
  <2>1. hid \in Asking /\ hid.pc = "write" /\ hid.kind = r.kind /\ hid.bad = r.bad
        /\ hid.status = "hidden" /\ hid.clear = r.clear /\ hid.met = r.met
    BY <1>1 DEF Asking, Status
  <2> HIDE DEF hid, r
  <2>2. Carries(hid, Of[t]) /\ hid.pc \in Before
    BY <1>1, <1>4, <2>1 DEF Carries, Before
  <2> QED
    BY <1>1, <1>2, <1>4, <2>1, <2>2, PassesStep DEF r
<1>5. CASE (~r.bad \/ rules = {}) /\ Passes(t, "write")
  <2>1. RequestGoes(t, s) /\ UNCHANGED tabVars
    BY <1>5 DEF Passes, RequestTo
  <2>2. s \in Asking /\ s.pc = "write" /\ s.kind = r.kind /\ s.bad = r.bad
        /\ s.status = r.status /\ s.clear = r.clear /\ s.met = r.met
    BY <1>1, WithPc
  <2> HIDE DEF s, r
  <2>3. Carries(s, Of[t]) /\ s.pc \in Before
    BY <1>1, <1>5, <2>2 DEF Carries, Before
  <2> QED
    BY <1>1, <1>2, <2>1, <2>2, <2>3, PassesStep DEF r
<1> QED
  BY <1>3, <1>4, <1>5 DEF Screen

LEMMA LookStep == ASSUME FeedIInv, NEW t \in Tab, Look(t), UNCHANGED Of PROVE FeedIInv'
<1> DEFINE r == request[t]
           s == [r EXCEPT !.pc = "write", !.had = Of[t] \in likes]
<1>1. r \in Asking /\ Carries(r, Of[t]) /\ r.pc = "look" /\ r.pc \in Before
  BY DEF FeedIInv, FeedTypeOK, AllCarry, Look, Before
<1>2. UNCHANGED <<Of, rowVars, noticeVars, steps, feedFaults>> /\ UNCHANGED tabVars
      /\ RequestGoes(t, s)
  BY DEF Look
<1>3. (Of[t] \in likes) \in BOOLEAN
  OBVIOUS
<1>4. s \in Asking /\ s.pc = "write" /\ s.kind = r.kind /\ s.bad = r.bad
      /\ s.status = r.status /\ s.clear = r.clear /\ s.met = r.met
  BY <1>1, <1>3 DEF Asking
<1> HIDE DEF s, r
<1>5. Carries(s, Of[t]) /\ s.pc \in Before
  BY <1>1, <1>4 DEF Carries, Before
<1> QED
  BY <1>1, <1>2, <1>4, <1>5, PassesStep DEF r

-----------------------------------------------------------------------------
(* Blocks, phrases and topics: requests under way only learn what was so.  *)
LEMMA LearnStep ==
    ASSUME FeedIInv, FeedTypeOK', AllCarry',
           UNCHANGED <<Of, post, likes, written, noticeVars, tabVars>>,
           \A t \in Tab : /\ request'[t].pc = request[t].pc
                          /\ request'[t].kind = request[t].kind
                          /\ request'[t].fresh = request[t].fresh
    PROVE  FeedIInv'
<1>1. UNCHANGED <<notices, lost, shown, doubt, stale, timer, missed>>
  BY DEF noticeVars, tabVars
<1>2. Buttons'
  BY <1>1 DEF FeedIInv, Buttons, Turned
<1>3. Kept'
  BY DEF FeedIInv, Kept
<1>4. NoticesAgree'
  <2>1. \A t \in Tab : Owed(t)' <=> Owed(t)
    BY DEF Owed, After
  <2>2. {t \in Tab : Owed(t)}' = {t \in Tab : Owed(t)} /\ OfOthers' = OfOthers
    BY <2>1 DEF OfOthers
  <2> QED
    BY <1>1, <2>2 DEF FeedIInv, NoticesAgree
<1>5. StaleIsDue'
  BY <1>1 DEF FeedIInv, StaleIsDue
<1> QED
  BY <1>2, <1>3, <1>4, <1>5 DEF FeedIInv

LEMMA SetBlockStep ==
    ASSUME FeedIInv, NEW m \in Member, SetBlock(m), UNCHANGED Of PROVE FeedIInv'
<1> DEFINE Met(t) == request[t].met \/ Of[t] \notin apart'
<1>1. FeedTypeOK /\ AllCarry /\ steps' \in 0..MaxFeedEvents
  BY FeedAssumption DEF FeedIInv, FeedTypeOK, SetBlock, Event
<1>2. /\ UNCHANGED <<Of, post, topic, rules, likes, written, noticeVars, tabVars, feedFaults>>
      /\ apart' \subseteq Member \ {Author}
  BY <1>1 DEF SetBlock, FeedTypeOK
<1>3. ASSUME NEW t \in Tab
      PROVE  /\ request'[t] \in Asking
             /\ request'[t].pc = request[t].pc /\ request'[t].kind = request[t].kind
             /\ request'[t].fresh = request[t].fresh /\ Carries(request[t], Of[t])'
  <2>1. request[t] \in Asking /\ Carries(request[t], Of[t])
    BY <1>1 DEF FeedTypeOK, AllCarry
  <2>2. CASE request[t] = NoRequest
    <3>1. request'[t] = NoRequest
      BY <2>2 DEF SetBlock
    <3> QED
      BY <2>2, <3>1, NothingAsked DEF Carries, NoRequest
  <2>3. CASE request[t] # NoRequest
    <3>1. request'[t] = [request[t] EXCEPT !.met = Met(t)] /\ Met(t) \in BOOLEAN
      BY <2>1, <2>3, Fields DEF SetBlock
    <3>2. Met(t) <=> request[t].met \/ Of[t] \notin apart'
      OBVIOUS
    <3> HIDE DEF Met
    <3>3. /\ request'[t] \in Asking /\ request'[t].met = Met(t)
          /\ request'[t].pc = request[t].pc /\ request'[t].kind = request[t].kind
          /\ request'[t].fresh = request[t].fresh /\ request'[t].clear = request[t].clear
          /\ request'[t].bad = request[t].bad /\ request'[t].status = request[t].status
      BY <2>1, <3>1 DEF Asking
    <3>4. request[t].pc # "idle"
      BY <2>1, <2>3 DEF Carries
    <3> QED
      BY <1>2, <2>1, <3>2, <3>3, <3>4 DEF Carries
  <2> QED
    BY <2>2, <2>3
<1>4. request' \in [Tab -> Asking]
  <2>1. request' = [t \in Tab |-> request'[t]]
    BY DEF SetBlock
  <2> QED
    BY <1>3, <2>1
<1>5. FeedTypeOK'
  BY <1>1, <1>2, <1>4 DEF FeedTypeOK, noticeVars, tabVars
<1>6. AllCarry'
  BY <1>2, <1>3 DEF AllCarry
<1> QED
  BY <1>2, <1>3, <1>5, <1>6, LearnStep

LEMMA SetPhraseStep ==
    ASSUME FeedIInv, NEW action \in {"review", "block"}, SetPhrase(action), UNCHANGED Of
    PROVE  FeedIInv'
<1> DEFINE Clear(t) == request[t].clear \/ rules' = {}
<1>1. FeedTypeOK /\ AllCarry /\ steps' \in 0..MaxFeedEvents
  BY FeedAssumption DEF FeedIInv, FeedTypeOK, SetPhrase, Event
<1>2. /\ UNCHANGED <<Of, post, topic, apart, likes, written, noticeVars, tabVars, feedFaults>>
      /\ rules' \subseteq {"review", "block"}
  BY <1>1 DEF SetPhrase, FeedTypeOK
<1>3. ASSUME NEW t \in Tab
      PROVE  /\ request'[t] \in Asking
             /\ request'[t].pc = request[t].pc /\ request'[t].kind = request[t].kind
             /\ request'[t].fresh = request[t].fresh /\ Carries(request[t], Of[t])'
  <2>1. request[t] \in Asking /\ Carries(request[t], Of[t])
    BY <1>1 DEF FeedTypeOK, AllCarry
  <2>2. CASE request[t] = NoRequest
    <3>1. request'[t] = NoRequest
      BY <2>2 DEF SetPhrase
    <3> QED
      BY <2>2, <3>1, NothingAsked DEF Carries, NoRequest
  <2>3. CASE request[t] # NoRequest
    <3>1. request'[t] = [request[t] EXCEPT !.clear = Clear(t)] /\ Clear(t) \in BOOLEAN
      BY <2>1, <2>3, Fields DEF SetPhrase
    <3>2. Clear(t) <=> request[t].clear \/ rules' = {}
      OBVIOUS
    <3> HIDE DEF Clear
    <3>3. /\ request'[t] \in Asking /\ request'[t].clear = Clear(t)
          /\ request'[t].pc = request[t].pc /\ request'[t].kind = request[t].kind
          /\ request'[t].fresh = request[t].fresh /\ request'[t].met = request[t].met
          /\ request'[t].bad = request[t].bad /\ request'[t].status = request[t].status
      BY <2>1, <3>1 DEF Asking
    <3>4. request[t].pc # "idle"
      BY <2>1, <2>3 DEF Carries
    <3> QED
      BY <1>2, <2>1, <3>2, <3>3, <3>4 DEF Carries
  <2> QED
    BY <2>2, <2>3
<1>4. request' \in [Tab -> Asking]
  <2>1. request' = [t \in Tab |-> request'[t]]
    BY DEF SetPhrase
  <2> QED
    BY <1>3, <2>1
<1>5. FeedTypeOK'
  BY <1>1, <1>2, <1>4 DEF FeedTypeOK, noticeVars, tabVars
<1>6. AllCarry'
  BY <1>2, <1>3 DEF AllCarry
<1> QED
  BY <1>2, <1>3, <1>5, <1>6, LearnStep

LEMMA SetTopicStep == ASSUME FeedIInv, SetTopic, UNCHANGED Of PROVE FeedIInv'
<1>1. FeedTypeOK /\ AllCarry /\ steps' \in 0..MaxFeedEvents
  BY FeedAssumption DEF FeedIInv, FeedTypeOK, SetTopic, Event
<1>2. /\ UNCHANGED <<Of, post, rules, apart, likes, written, noticeVars, request, tabVars,
                     feedFaults>>
      /\ topic' \in BOOLEAN
  BY DEF SetTopic
<1>3. FeedTypeOK'
  BY <1>1, <1>2 DEF FeedTypeOK, noticeVars, tabVars
<1>4. AllCarry'
  BY <1>1, <1>2 DEF AllCarry, Carries
<1> QED
  BY <1>2, <1>3, <1>4, LearnStep

(* What begins a request.                                                  *)
LEMMA BeganIs ==
    ASSUME FeedTypeOK, NEW t \in Tab, NEW kind \in Kind, NEW bad \in BOOLEAN,
           kind \in {"like", "moderate"} => ~bad
    PROVE  LET s == Began(t, kind, bad) IN
           s \in Asking /\ Carries(s, Of[t]) /\ s.pc = "begin" /\ s.kind = kind
<1> DEFINE clear == (rules = {})
           met == (Of[t] \notin apart)
           s == [kind |-> kind, pc |-> "begin", bad |-> bad, status |-> "active",
                 had |-> FALSE, fresh |-> FALSE, clear |-> clear, met |-> met]
<1>1. Began(t, kind, bad) = s
  BY DEF Began
<1>2. clear \in BOOLEAN /\ met \in BOOLEAN
  OBVIOUS
<1>3. (clear <=> rules = {}) /\ (met <=> Of[t] \notin apart)
  OBVIOUS
<1> HIDE DEF clear, met
<1>4. s \in Asking /\ s.pc = "begin" /\ s.kind = kind /\ s.bad = bad /\ s.status = "active"
      /\ s.clear = clear /\ s.met = met
  BY <1>2 DEF Asking, Status, Kind
<1> HIDE DEF s
<1>5. Carries(s, Of[t])
  BY <1>3, <1>4 DEF Carries
<1> QED
  BY <1>1, <1>4, <1>5

LEMMA BeginStep ==
    ASSUME FeedIInv, NEW t \in Tab, UNCHANGED Of,
           \/ Click(t)
           \/ \E kind \in {"post", "comment", "moderate"}, bad \in BOOLEAN :
                Submit(t, kind, bad)
    PROVE  FeedIInv'
<1>1. FeedTypeOK /\ request[t] = NoRequest
  <2>1. CASE Click(t)
    BY <2>1 DEF FeedIInv, Click
  <2>2. ASSUME NEW kind, NEW bad, Submit(t, kind, bad) PROVE FeedTypeOK /\ request[t] = NoRequest
    BY <2>2 DEF FeedIInv, Submit
  <2> QED
    BY <2>1, <2>2
<1>2. steps' \in 0..MaxFeedEvents
  <2>1. ASSUME Event PROVE steps' \in 0..MaxFeedEvents
    BY <1>1, <2>1, FeedAssumption DEF FeedTypeOK, Event
  <2> QED
    BY <2>1 DEF Click, Submit
<1>3. ~Owed(t) /\ request[t].pc # "broadcast" /\ ~Turned(t)
  BY <1>1, NothingAsked DEF Owed, After, Turned, Before
<1>4. UNCHANGED <<Of, rowVars, noticeVars, doubt, stale, timer, missed, feedFaults>>
  BY DEF Click, Submit, tabVars
<1>5. CASE Click(t)
  <2> DEFINE s == Began(t, "like", FALSE)
  <2>1. s \in Asking /\ Carries(s, Of[t]) /\ s.pc = "begin" /\ s.kind = "like"
    BY <1>1, BeganIs DEF Kind
  <2>2. RequestGoes(t, s) /\ shown' = [shown EXCEPT ![t] = ~@]
    BY <1>5 DEF Click
  <2> HIDE DEF s
  <2>3. ~(Turned(t) <=> s.kind = "like" /\ s.pc \in Before) /\ s.pc \in Before \cup {"idle"}
    BY <1>3, <2>1 DEF Before
  <2> QED
    BY <1>2, <1>3, <1>4, <2>1, <2>2, <2>3, NoRowStep
<1>6. ASSUME NEW kind \in {"post", "comment", "moderate"}, NEW bad \in BOOLEAN,
             Submit(t, kind, bad)
      PROVE  FeedIInv'
  <2> DEFINE s == Began(t, kind, bad)
  <2>1. kind \in Kind /\ (kind \in {"like", "moderate"} => ~bad)
    BY <1>6 DEF Submit, Kind
  <2>2. s \in Asking /\ Carries(s, Of[t]) /\ s.pc = "begin" /\ s.kind = kind
    BY <1>1, <2>1, BeganIs
  <2>3. RequestGoes(t, s) /\ shown' = shown
    BY <1>6 DEF Submit, tabVars
  <2> HIDE DEF s
  <2>4. (Turned(t) <=> s.kind = "like" /\ s.pc \in Before) /\ s.pc \in Before \cup {"idle"}
    BY <1>3, <1>6, <2>2 DEF Before
  <2> QED
    BY <1>2, <1>3, <1>4, <2>2, <2>3, <2>4, NoRowStep
<1> QED
  BY <1>5, <1>6

-----------------------------------------------------------------------------
LEMMA ButtonsStay ==
    ASSUME Buttons, UNCHANGED <<Of, likes, shown, doubt>>,
           \A u \in Tab : Turned(u)' <=> Turned(u)
    PROVE  Buttons'
BY DEF Buttons

LEMMA NoticesStay ==
    ASSUME NoticesAgree, NEW t \in Tab, UNCHANGED <<Of, written, notices, lost>>,
           \A u \in Tab \ {t} : request'[u] = request[u], Owed(t) <=> Owed(t)'
    PROVE  NoticesAgree'
<1>1. Cardinality(Owing') = Cardinality(Owing)
  BY OwingChanges
<1> QED
  BY <1>1 DEF NoticesAgree, Owing, OfOthers

(* A comment or a like is written, and the author is owed a notice of it   *)
(* when it is another's and can be seen.                                   *)
LEMMA WrittenOwed ==
    ASSUME FeedIInv, NEW t \in Tab, NEW e \in Entry, written' = Append(written, e),
           UNCHANGED <<Of, notices, lost>>,
           \A u \in Tab \ {t} : request'[u] = request[u],
           ~Owed(t), Owed(t)' <=> e.active /\ e.by # Author
    PROVE  NoticesAgree'
<1>1. written \in Seq(Entry) /\ notices \in Nat /\ lost \in Nat
      /\ notices + lost + Cardinality(Owing) = Cardinality(Others(written))
  BY DEF FeedIInv, FeedTypeOK, NoticesAgree, Owing, OfOthers, Others
<1>2. Cardinality(Owing') = Cardinality(Owing) + IF e.active /\ e.by # Author THEN 1 ELSE 0
  BY OwingChanges, OwingIs
<1>3. Cardinality(Others(written')) =
        Cardinality(Others(written)) + IF e.active /\ e.by # Author THEN 1 ELSE 0
  BY <1>1, OthersGrow
<1>4. Cardinality(Owing) \in Nat /\ Cardinality(Others(written)) \in Nat
  BY <1>1, OwingIs, OthersGrow
<1>5. notices' + lost' + Cardinality(Owing') = Cardinality(Others(written'))
  BY <1>1, <1>2, <1>3, <1>4
<1>6. Others(written') = OfOthers'
  BY DEF Others, OfOthers
<1> QED
  BY <1>5, <1>6 DEF NoticesAgree, Owing

LEMMA WrittenKept ==
    ASSUME FeedIInv, NEW e \in Entry, written' = Append(written, e), post' = post,
           e.met, e.active => e.screened
    PROVE  Kept' /\ written' \in Seq(Entry)
<1>1. written \in Seq(Entry)
  BY DEF FeedIInv, FeedTypeOK
<1>2. /\ written' \in Seq(Entry) /\ Len(written') = Len(written) + 1 /\ Len(written) \in Nat
      /\ written'[Len(written) + 1] = e
      /\ \A i \in 1..Len(written) : written'[i] = written[i]
  BY <1>1, OthersGrow
<1>3. ASSUME NEW i \in 1..Len(written')
      PROVE  written'[i].met /\ (written'[i].active => written'[i].screened)
  <2>1. CASE i = Len(written) + 1
    BY <1>2, <2>1
  <2>2. CASE i \in 1..Len(written)
    BY <1>2, <2>2 DEF FeedIInv, Kept
  <2> QED
    BY <1>2, <2>1, <2>2
<1> QED
  BY <1>2, <1>3 DEF FeedIInv, Kept

(* What a request has seen before it writes makes an entry that is kept.   *)
LEMMA MadeIs ==
    ASSUME FeedIInv, NEW t \in Tab, At(t, "write", {"comment", "like"})
    PROVE  /\ Made(t) \in Entry /\ Made(t).met /\ Made(t).by = Of[t]
           /\ Made(t).active <=> request[t].status = "active"
           /\ Made(t).active => Made(t).screened
<1> DEFINE r == request[t]
           active == (r.status = "active")
           screened == (~r.bad \/ r.clear)
<1>1. r \in Asking /\ Carries(r, Of[t]) /\ Of[t] \in Member
      /\ r.pc = "write" /\ r.kind \in {"comment", "like"}
  BY DEF FeedIInv, FeedTypeOK, AllCarry, At
<1>2. active \in BOOLEAN /\ screened \in BOOLEAN /\ r.met
      /\ (active => screened) /\ (active <=> r.status = "active")
  BY <1>1 DEF Carries
<1>3. r.met \in BOOLEAN /\ r.kind \in Kind
  BY <1>1, Fields DEF Kind
<1>4. Made(t) = [kind |-> r.kind, by |-> Of[t], active |-> active,
                 screened |-> screened, met |-> r.met]
  BY DEF Made
<1> HIDE DEF active, screened, r
<1>5. /\ Made(t) \in Entry /\ Made(t).met = r.met /\ Made(t).by = Of[t]
      /\ Made(t).active = active /\ Made(t).screened = screened
  BY <1>1, <1>2, <1>3, <1>4 DEF Entry
<1> QED
  BY <1>2, <1>5 DEF r

(* A request that has written: what others can see is broadcast.           *)
LEMMA WroteStep ==
    ASSUME FeedIInv, NEW t \in Tab, NEW pc \in {"broadcast", "answer"},
           NEW fresh \in BOOLEAN, Wrote(t, pc, fresh), request[t].pc = "write",
           IF pc = "broadcast" THEN Seen ELSE Unseen,
           UNCHANGED <<Of, topic, rules, apart, missed>>
    PROVE  /\ request' \in [Tab -> Asking] /\ AllCarry' /\ StaleIsDue'
           /\ \A u \in Tab \ {t} : request'[u] = request[u]
           /\ request'[t].kind = request[t].kind /\ ~Turned(t)'
           /\ stale' \cup timer' \subseteq Tab
           /\ ~Owed(t)
           /\ Owed(t)' <=> fresh /\ pc = "broadcast" /\ Of[t] # Author
<1> DEFINE r == request[t]
           s == [r EXCEPT !.pc = pc, !.fresh = fresh]
<1>1. r \in Asking /\ Carries(r, Of[t]) /\ FeedTypeOK /\ AllCarry /\ StaleIsDue
  BY DEF FeedIInv, FeedTypeOK, AllCarry
<1>2. s \in Asking /\ s.pc = pc /\ s.kind = r.kind /\ s.bad = r.bad
      /\ s.status = r.status /\ s.clear = r.clear /\ s.met = r.met /\ s.fresh = fresh
  BY <1>1 DEF Asking
<1>3. RequestGoes(t, s)
  BY DEF Wrote
<1> HIDE DEF s
<1>4. Carries(s, Of[t])
  BY <1>1, <1>2 DEF Carries
<1>5. /\ request' \in [Tab -> Asking] /\ AllCarry'
      /\ request'[t] = s /\ \A u \in Tab \ {t} : request'[u] = request[u]
  BY <1>1, <1>2, <1>3, <1>4, GoesOn
<1>6. stale' \cup timer' \subseteq Tab
  BY <1>1 DEF FeedTypeOK, Seen, Unseen
<1>7. StaleIsDue'
  <2>1. CASE pc = "broadcast"
    BY <1>2, <1>5, <2>1 DEF StaleIsDue
  <2>2. CASE pc # "broadcast"
    BY <1>1, <1>5, <2>2 DEF StaleIsDue, Unseen
  <2> QED
    BY <2>1, <2>2
<1>8. ~Owed(t) /\ (Owed(t)' <=> fresh /\ pc = "broadcast" /\ Of[t] # Author)
  BY <1>2, <1>5 DEF Owed, After
<1>9. ~Turned(t)' /\ request'[t].kind = request[t].kind
  BY <1>2, <1>5 DEF Turned, Before
<1> QED
  BY <1>5, <1>6, <1>7, <1>8, <1>9

LEMMA WritePostStep ==
    ASSUME FeedIInv, NEW t \in Tab, WritePost(t), UNCHANGED Of PROVE FeedIInv'
<1> DEFINE r == request[t]
           pc == IF r.status = "active" THEN "broadcast" ELSE "answer"
           screened == (~r.bad \/ r.clear)
<1>1. r \in Asking /\ Carries(r, Of[t]) /\ FeedTypeOK /\ r.pc = "write" /\ r.kind = "post"
  BY DEF FeedIInv, FeedTypeOK, AllCarry, WritePost, At
<1>2. /\ UNCHANGED <<Of, topic, rules, apart, likes, written, notices, lost, shown, doubt,
                     missed, steps, feedFaults>>
      /\ post' = [status |-> r.status, screened |-> screened]
  BY DEF WritePost, noticeVars, Made
<1>3. pc \in {"broadcast", "answer"} /\ Wrote(t, pc, FALSE)
      /\ IF pc = "broadcast" THEN Seen ELSE Unseen
  BY DEF WritePost
<1> HIDE DEF pc
<1>4. /\ request' \in [Tab -> Asking] /\ AllCarry' /\ StaleIsDue'
      /\ \A u \in Tab \ {t} : request'[u] = request[u]
      /\ ~Turned(t)' /\ stale' \cup timer' \subseteq Tab /\ ~Owed(t) /\ ~Owed(t)'
  BY <1>1, <1>2, <1>3, WroteStep
<1>5. (screened \in BOOLEAN) /\ (r.status = "active" => screened) /\ r.status \in Status
  BY <1>1, Fields DEF Carries
<1> HIDE DEF screened
<1>6. post' \in [status : Status \cup {Nil}, screened : BOOLEAN] /\ Kept'
  BY <1>2, <1>5 DEF FeedIInv, Kept
<1>7. FeedTypeOK'
  BY <1>1, <1>2, <1>4, <1>6 DEF FeedTypeOK
<1>8. Buttons'
  BY <1>1, <1>2, <1>4, ButtonsStay DEF FeedIInv, Turned
<1>9. NoticesAgree'
  BY <1>2, <1>4, NoticesStay DEF FeedIInv
<1> QED
  BY <1>4, <1>6, <1>7, <1>8, <1>9 DEF FeedIInv

LEMMA WriteCommentStep ==
    ASSUME FeedIInv, NEW t \in Tab, WriteComment(t), UNCHANGED Of PROVE FeedIInv'
<1> DEFINE r == request[t]
           fresh == (r.status = "active")
           pc == IF fresh THEN "broadcast" ELSE "answer"
<1>1. FeedTypeOK /\ r.pc = "write" /\ r.kind = "comment" /\ At(t, "write", {"comment", "like"})
  BY DEF FeedIInv, WriteComment, At
<1>2. /\ UNCHANGED <<Of, post, topic, rules, apart, likes, notices, lost, shown, doubt,
                     missed, steps, feedFaults>>
      /\ written' = Append(written, Made(t))
  BY DEF WriteComment, noticeVars
<1>3. pc \in {"broadcast", "answer"} /\ fresh \in BOOLEAN /\ Wrote(t, pc, fresh)
      /\ (IF pc = "broadcast" THEN Seen ELSE Unseen) /\ (pc = "broadcast" <=> fresh)
      /\ (fresh <=> r.status = "active")
  BY DEF WriteComment
<1> HIDE DEF pc, fresh
<1>4. /\ request' \in [Tab -> Asking] /\ AllCarry' /\ StaleIsDue'
      /\ \A u \in Tab \ {t} : request'[u] = request[u]
      /\ ~Turned(t)' /\ stale' \cup timer' \subseteq Tab
      /\ ~Owed(t) /\ (Owed(t)' <=> fresh /\ Of[t] # Author)
  BY <1>1, <1>2, <1>3, WroteStep
<1>5. /\ Made(t) \in Entry /\ Made(t).met /\ Made(t).by = Of[t]
      /\ (Made(t).active <=> fresh) /\ (Made(t).active => Made(t).screened)
  BY <1>1, <1>3, MadeIs
<1>6. Kept' /\ written' \in Seq(Entry)
  BY <1>2, <1>5, WrittenKept
<1>7. FeedTypeOK'
  BY <1>1, <1>2, <1>4, <1>6 DEF FeedTypeOK
<1>8. Buttons'
  BY <1>1, <1>2, <1>4, ButtonsStay DEF FeedIInv, Turned
<1>9. NoticesAgree'
  BY <1>2, <1>4, <1>5, WrittenOwed
<1> QED
  BY <1>4, <1>6, <1>7, <1>8, <1>9 DEF FeedIInv

(* A like: the buttons of the member's other tabs may be wrong from now on. *)
LEMMA WriteLikeStep ==
    ASSUME FeedIInv, NEW t \in Tab, WriteLike(t), UNCHANGED Of PROVE FeedIInv'
<1> DEFINE r == request[t]
           fresh == (~r.had)
<1>1. /\ FeedTypeOK /\ Carries(r, Of[t]) /\ r \in Asking /\ r.pc = "write" /\ r.kind = "like"
      /\ At(t, "write", {"comment", "like"}) /\ Turned(t)
  BY DEF FeedIInv, FeedTypeOK, AllCarry, WriteLike, At, Turned, Before
<1>2. UNCHANGED <<Of, post, topic, rules, apart, notices, lost, missed, steps, feedFaults>>
  BY DEF WriteLike, noticeVars
<1>3. CASE r.had # (Of[t] \in likes)
  <2>1. Refused(t) /\ UNCHANGED <<Of, rowVars, noticeVars, steps, feedFaults>>
    BY <1>2, <1>3 DEF WriteLike, Refused, Unseen, rowVars, noticeVars
  <2> QED
    BY <1>1, <2>1, RefusedStep DEF Before
<1>4. CASE r.had = (Of[t] \in likes)
  <2>1. /\ IF r.had THEN likes' = likes \ {Of[t]} /\ UNCHANGED written
           ELSE likes' = likes \cup {Of[t]} /\ written' = Append(written, Made(t))
        /\ Wrote(t, "broadcast", fresh) /\ Seen
        /\ doubt' = doubt \cup OtherTabs(t) /\ UNCHANGED shown
    BY <1>4 DEF WriteLike
  <2>2. fresh \in BOOLEAN /\ (fresh <=> ~r.had) /\ (r.had <=> Of[t] \in likes)
    BY <1>1, <1>4, Fields
  <2> HIDE DEF fresh
  <2>3. /\ request' \in [Tab -> Asking] /\ AllCarry' /\ StaleIsDue'
        /\ \A u \in Tab \ {t} : request'[u] = request[u]
        /\ ~Turned(t)' /\ stale' \cup timer' \subseteq Tab
        /\ ~Owed(t) /\ (Owed(t)' <=> fresh /\ Of[t] # Author)
    BY <1>1, <1>2, <2>1, <2>2, WroteStep
  <2>4. /\ Made(t) \in Entry /\ Made(t).met /\ Made(t).by = Of[t] /\ Made(t).active
        /\ (Made(t).active => Made(t).screened)
    BY <1>1, MadeIs DEF Carries
  <2>5. Kept' /\ written' \in Seq(Entry)
    <3>1. CASE r.had
      BY <1>1, <1>2, <2>1, <3>1 DEF FeedTypeOK, FeedIInv, Kept
    <3>2. CASE ~r.had
      BY <1>2, <2>1, <2>4, <3>2, WrittenKept
    <3> QED
      BY <3>1, <3>2
  <2>6. FeedTypeOK'
    <3>1. likes' \subseteq Member /\ doubt' \subseteq Tab
      BY <1>1, <2>1 DEF FeedTypeOK, OtherTabs
    <3> QED
      BY <1>1, <1>2, <2>1, <2>3, <2>5, <3>1 DEF FeedTypeOK
  <2>7. Buttons'
    <3> SUFFICES ASSUME NEW u \in Tab \ doubt'
                 PROVE  shown'[u] <=> IF Turned(u)' THEN Of[u] \notin likes'
                                      ELSE Of[u] \in likes'
      BY <1>2 DEF Buttons
    <3>1. u \in Tab \ doubt /\ shown'[u] = shown[u]
          /\ (shown[u] <=> IF Turned(u) THEN Of[u] \notin likes ELSE Of[u] \in likes)
      BY <2>1 DEF FeedIInv, Buttons
    <3>2. CASE u = t
      BY <1>1, <2>1, <2>2, <2>3, <3>1, <3>2
    <3>3. CASE u # t
      <4>1. Of[u] # Of[t]
        BY <2>1, <3>3 DEF OtherTabs
      <4>2. (Turned(u)' <=> Turned(u)) /\ (Of[u] \in likes' <=> Of[u] \in likes)
        BY <2>1, <2>3, <3>3, <4>1 DEF Turned
      <4> QED
        BY <3>1, <4>2
    <3> QED
      BY <3>2, <3>3
  <2>8. NoticesAgree'
    <3>1. CASE r.had
      BY <1>2, <2>1, <2>2, <2>3, <3>1, NoticesStay DEF FeedIInv
    <3>2. CASE ~r.had
      BY <1>2, <2>1, <2>2, <2>3, <2>4, <3>2, WrittenOwed
    <3> QED
      BY <3>1, <3>2
  <2> QED
    BY <2>3, <2>5, <2>6, <2>7, <2>8 DEF FeedIInv
<1> QED
  BY <1>3, <1>4

LEMMA ModerateStep ==
    ASSUME FeedIInv, NEW t \in Tab, Moderate(t), UNCHANGED Of PROVE FeedIInv'
<1>1. FeedTypeOK /\ request[t].pc = "write" /\ request[t].kind = "moderate"
  BY DEF FeedIInv, Moderate, At
<1>2. UNCHANGED <<Of, topic, rules, apart, likes, written, notices, lost, shown, doubt,
                  missed, steps, feedFaults>>
  BY DEF Moderate, noticeVars
<1>3. Wrote(t, "broadcast", FALSE) /\ Seen
  BY DEF Moderate
<1>4. /\ request' \in [Tab -> Asking] /\ AllCarry' /\ StaleIsDue'
      /\ \A u \in Tab \ {t} : request'[u] = request[u]
      /\ ~Turned(t)' /\ stale' \cup timer' \subseteq Tab /\ ~Owed(t) /\ ~Owed(t)'
  BY <1>1, <1>2, <1>3, WroteStep
<1>5. post' \in [status : Status \cup {Nil}, screened : BOOLEAN] /\ Kept'
  <2>1. PICK status \in {"active", "hidden", "removed", post.status} :
          post' = [status |-> status,
                   screened |-> post.screened \/ (status = "active" /\ post.status # status)]
    BY DEF Moderate
  <2>2. /\ status \in Status \cup {Nil} /\ post.screened \in BOOLEAN
        /\ post.status = "active" => post.screened
    BY <1>1, <2>1 DEF FeedTypeOK, Status, FeedIInv, Kept
  <2> DEFINE screened == (post.screened \/ (status = "active" /\ post.status # status))
  <2>3. (screened \in BOOLEAN) /\ (status = "active" => screened)
    BY <2>2
  <2>4. post' = [status |-> status, screened |-> screened]
    BY <2>1
  <2> HIDE DEF screened
  <2> QED
    BY <1>2, <2>2, <2>3, <2>4 DEF FeedIInv, Kept
<1>6. FeedTypeOK'
  BY <1>1, <1>2, <1>4, <1>5 DEF FeedTypeOK
<1>7. Buttons'
  BY <1>1, <1>2, <1>4, ButtonsStay DEF FeedIInv, Turned
<1>8. NoticesAgree'
  BY <1>2, <1>4, NoticesStay DEF FeedIInv
<1> QED
  BY <1>4, <1>5, <1>6, <1>7, <1>8 DEF FeedIInv

-----------------------------------------------------------------------------
(* After the write.                                                        *)
LEMMA AfterStep ==
    ASSUME FeedIInv, NEW t \in Tab, NEW s \in Asking, RequestGoes(t, s), Carries(s, Of[t]),
           After(t), s.pc \notin Before,
           UNCHANGED <<Of, rowVars, steps>>, feedFaults' \in 0..MaxFeedFaults
    PROVE  /\ request' \in [Tab -> Asking] /\ AllCarry' /\ Kept'
           /\ request'[t] = s /\ \A u \in Tab \ {t} : request'[u] = request[u]
           /\ UNCHANGED <<post, topic, rules, apart, likes, written>>
           /\ \A u \in Tab : Turned(u)' <=> Turned(u)
           /\ (notices' \in Nat /\ lost' \in Nat /\ shown' \in [Tab -> BOOLEAN]
               /\ doubt' \cup stale' \cup timer' \cup missed' \subseteq Tab) => FeedTypeOK'
<1>1. FeedTypeOK /\ AllCarry /\ UNCHANGED <<Of, post, topic, rules, apart, likes, written, steps>>
  BY DEF FeedIInv, rowVars
<1>2. /\ request' \in [Tab -> Asking] /\ AllCarry'
      /\ request'[t] = s /\ \A u \in Tab \ {t} : request'[u] = request[u]
  BY <1>1, GoesOn
<1>3. Kept'
  BY <1>1 DEF FeedIInv, Kept
<1>4. \A u \in Tab : Turned(u)' <=> Turned(u)
  <2>1. ~Turned(t) /\ ~Turned(t)'
    BY <1>2 DEF Turned, Before, After
  <2> QED
    BY <1>2, <2>1 DEF Turned
<1>5. ASSUME notices' \in Nat, lost' \in Nat, shown' \in [Tab -> BOOLEAN],
             doubt' \cup stale' \cup timer' \cup missed' \subseteq Tab
      PROVE  FeedTypeOK'
  BY <1>1, <1>2, <1>5 DEF FeedTypeOK
<1> QED
  BY <1>1, <1>2, <1>3, <1>4, <1>5

LEMMA FaultCounts ==
    ASSUME FeedTypeOK, FeedFault \/ UNCHANGED feedFaults PROVE feedFaults' \in 0..MaxFeedFaults
BY FeedAssumption DEF FeedFault, FeedTypeOK

LEMMA BroadcastStep ==
    ASSUME FeedIInv, NEW t \in Tab, Broadcast(t), UNCHANGED Of PROVE FeedIInv'
<1> DEFINE r == request[t]
           pc == IF r.fresh THEN "notify" ELSE "answer"
           s == [r EXCEPT !.pc = pc]
<1>1. /\ FeedTypeOK /\ r \in Asking /\ Carries(r, Of[t]) /\ r.pc = "broadcast" /\ After(t)
      /\ UNCHANGED <<Of, rowVars, notices, lost, shown, doubt, stale, steps>>
      /\ feedFaults' \in 0..MaxFeedFaults
  <2>1. FeedTypeOK /\ AllCarry /\ (FeedFault \/ UNCHANGED feedFaults)
    BY DEF FeedIInv, Broadcast
  <2> QED
    BY <2>1, FaultCounts DEF FeedTypeOK, AllCarry, Broadcast, After, noticeVars
<1>2. /\ pc \in {"notify", "answer"} /\ (pc = "notify" <=> r.fresh)
      /\ RequestGoes(t, s)
  BY DEF Broadcast, RequestTo
<1> HIDE DEF pc
<1>3. s \in Asking /\ s.pc = pc /\ s.kind = r.kind /\ s.bad = r.bad /\ s.fresh = r.fresh
      /\ s.status = r.status /\ s.clear = r.clear /\ s.met = r.met
  BY <1>1, <1>2 DEF Asking
<1> HIDE DEF s
<1>4. Carries(s, Of[t]) /\ s.pc \notin Before
  BY <1>1, <1>2, <1>3 DEF Carries, Before
<1>5. /\ timer' \cup missed' = timer \cup missed \cup stale
      /\ doubt' \cup stale' \cup timer' \cup missed' \subseteq Tab
  BY <1>1 DEF Broadcast, FeedTypeOK
<1>6. /\ request' \in [Tab -> Asking] /\ AllCarry' /\ Kept'
      /\ request'[t] = s /\ \A u \in Tab \ {t} : request'[u] = request[u]
      /\ UNCHANGED <<post, topic, rules, apart, likes, written>>
      /\ (\A u \in Tab : Turned(u)' <=> Turned(u))
      /\ FeedTypeOK'
  <2>1. notices' \in Nat /\ lost' \in Nat /\ shown' \in [Tab -> BOOLEAN]
    BY <1>1 DEF FeedTypeOK
  <2> QED
    BY <1>1, <1>2, <1>3, <1>4, <1>5, <2>1, AfterStep
<1>7. Buttons'
  BY <1>1, <1>6, ButtonsStay DEF FeedIInv
<1>8. NoticesAgree'
  <2>1. Owed(t) <=> Owed(t)'
    BY <1>1, <1>2, <1>3, <1>6 DEF Owed, After
  <2> QED
    BY <1>1, <1>6, <2>1, NoticesStay DEF FeedIInv
<1>9. StaleIsDue'
  BY <1>1, <1>5 DEF StaleIsDue
<1> QED
  BY <1>6, <1>7, <1>8, <1>9 DEF FeedIInv

LEMMA NotifyStep ==
    ASSUME FeedIInv, NEW t \in Tab, Notify(t), UNCHANGED Of PROVE FeedIInv'
<1> DEFINE r == request[t]
           s == [r EXCEPT !.pc = "answer"]
<1>1. /\ FeedTypeOK /\ r \in Asking /\ Carries(r, Of[t]) /\ r.pc = "notify" /\ After(t)
      /\ UNCHANGED <<Of, rowVars, shown, doubt, stale, timer, missed, steps>>
      /\ feedFaults' \in 0..MaxFeedFaults
  <2>1. FeedTypeOK /\ AllCarry /\ (FeedFault \/ UNCHANGED feedFaults)
    BY DEF FeedIInv, Notify
  <2> QED
    BY <2>1, FaultCounts DEF FeedTypeOK, AllCarry, Notify, After, tabVars
<1>2. RequestGoes(t, s)
  BY DEF Notify, RequestTo
<1>3. s \in Asking /\ s.pc = "answer" /\ s.kind = r.kind /\ s.bad = r.bad /\ s.fresh = r.fresh
      /\ s.status = r.status /\ s.clear = r.clear /\ s.met = r.met
  BY <1>1, WithPc
<1> HIDE DEF s
<1>4. Carries(s, Of[t]) /\ s.pc \notin Before
  BY <1>1, <1>3 DEF Carries, Before
<1>5. /\ notices' \in Nat /\ lost' \in Nat /\ notices \in Nat /\ lost \in Nat
      /\ IF Of[t] = Author THEN UNCHANGED <<notices, lost>>
         ELSE \/ notices' = notices + 1 /\ lost' = lost
              \/ notices' = notices /\ lost' = lost + 1
  BY <1>1 DEF Notify, FeedTypeOK, noticeVars
<1>6. /\ request' \in [Tab -> Asking] /\ AllCarry' /\ Kept'
      /\ request'[t] = s /\ \A u \in Tab \ {t} : request'[u] = request[u]
      /\ UNCHANGED <<post, topic, rules, apart, likes, written>>
      /\ (\A u \in Tab : Turned(u)' <=> Turned(u))
      /\ FeedTypeOK'
  <2>1. shown' \in [Tab -> BOOLEAN]
        /\ doubt' \cup stale' \cup timer' \cup missed' \subseteq Tab
    BY <1>1 DEF FeedTypeOK
  <2> QED
    BY <1>1, <1>2, <1>3, <1>4, <1>5, <2>1, AfterStep
<1>7. Buttons'
  BY <1>1, <1>6, ButtonsStay DEF FeedIInv
<1>8. NoticesAgree'
  <2>1. (Owed(t) <=> Of[t] # Author) /\ ~Owed(t)'
    BY <1>1, <1>3, <1>6 DEF Owed, After, Carries
  <2>2. Cardinality(Owing') = Cardinality(Owing) - IF Of[t] = Author THEN 0 ELSE 1
    BY <1>1, <1>6, <2>1, OwingChanges, OwingIs
  <2>3. /\ notices + lost + Cardinality(Owing) = Cardinality(OfOthers)
        /\ Cardinality(Owing) \in Nat
    BY OwingIs DEF FeedIInv, NoticesAgree, Owing
  <2>4. notices' + lost' + Cardinality(Owing') = Cardinality(OfOthers)
    <3>1. CASE Of[t] = Author
      BY <1>5, <2>2, <2>3, <3>1
    <3>2. CASE Of[t] # Author
      <4>1. Cardinality(Owing') = Cardinality(Owing) - 1
        BY <2>2, <3>2
      <4>2. CASE notices' = notices + 1 /\ lost' = lost
        BY <1>5, <2>3, <4>1, <4>2
      <4>3. CASE notices' = notices /\ lost' = lost + 1
        BY <1>5, <2>3, <4>1, <4>3
      <4> QED
        BY <1>5, <3>2, <4>2, <4>3
    <3> QED
      BY <3>1, <3>2
  <2>5. OfOthers' = OfOthers
    BY <1>6 DEF OfOthers
  <2> QED
    BY <2>4, <2>5 DEF NoticesAgree, Owing
<1>9. StaleIsDue'
  BY <1>1, <1>6 DEF FeedIInv, StaleIsDue
<1> QED
  BY <1>6, <1>7, <1>8, <1>9 DEF FeedIInv

(* A page that asks for what is on record shows no less than that.         *)
LEMMA RefreshedShows ==
    ASSUME FeedTypeOK, StaleIsDue, NEW t \in Tab, Refreshed(t),
           \A r \in Tab : request[r].pc = "broadcast" => request'[r].pc = "broadcast"
    PROVE  StaleIsDue' /\ stale' \cup timer' \cup missed' \subseteq Tab
BY DEF StaleIsDue, Refreshed, FeedTypeOK

LEMMA AnswerStep ==
    ASSUME FeedIInv, NEW t \in Tab, Answer(t), UNCHANGED Of PROVE FeedIInv'
<1>1. /\ FeedTypeOK /\ StaleIsDue /\ request[t].pc = "answer" /\ After(t) /\ RequestGoes(t, NoRequest)
      /\ UNCHANGED <<Of, rowVars, notices, lost, shown, doubt, steps>>
      /\ feedFaults' \in 0..MaxFeedFaults /\ Refreshed(t)
  BY DEF FeedIInv, Answer, After, FeedTypeOK, noticeVars
<1>2. NoRequest \in Asking /\ Carries(NoRequest, Of[t]) /\ NoRequest.pc \notin Before
  BY NothingAsked DEF Before
<1>3. \A u \in Tab \ {t} : request'[u] = request[u]
  BY <1>1 DEF RequestGoes, FeedTypeOK
<1>4. StaleIsDue' /\ stale' \cup timer' \cup missed' \subseteq Tab
  BY <1>1, <1>3, RefreshedShows
<1>5. /\ request' \in [Tab -> Asking] /\ AllCarry' /\ Kept' /\ request'[t] = NoRequest
      /\ UNCHANGED <<post, topic, rules, apart, likes, written>>
      /\ (\A u \in Tab : Turned(u)' <=> Turned(u))
      /\ FeedTypeOK'
  <2>1. notices' \in Nat /\ lost' \in Nat /\ shown' \in [Tab -> BOOLEAN]
        /\ doubt' \cup stale' \cup timer' \cup missed' \subseteq Tab
    BY <1>1, <1>4 DEF FeedTypeOK
  <2> QED
    BY <1>1, <1>2, <2>1, AfterStep
<1>6. Buttons'
  BY <1>1, <1>5, ButtonsStay DEF FeedIInv
<1>7. NoticesAgree'
  <2>1. ~Owed(t) /\ ~Owed(t)'
    BY <1>1, <1>5, NothingAsked DEF Owed, After
  <2> QED
    BY <1>1, <1>3, <1>5, <2>1, NoticesStay DEF FeedIInv
<1> QED
  BY <1>4, <1>5, <1>6, <1>7 DEF FeedIInv

LEMMA DiesStep ==
    ASSUME FeedIInv, NEW t \in Tab, Dies(t), UNCHANGED Of PROVE FeedIInv'
<1>1. /\ FeedTypeOK /\ After(t) /\ RequestGoes(t, NoRequest)
      /\ UNCHANGED <<Of, rowVars, notices, stale, timer, steps>>
      /\ feedFaults' \in 0..MaxFeedFaults
  <2>1. FeedTypeOK /\ FeedFault
    BY DEF FeedIInv, Dies
  <2> QED
    BY <2>1, FaultCounts DEF Dies, Fails
<1>2. NoRequest \in Asking /\ Carries(NoRequest, Of[t]) /\ NoRequest.pc \notin Before
  BY NothingAsked DEF Before
<1>3. notices \in Nat /\ lost \in Nat /\ lost' = IF Owed(t) THEN lost + 1 ELSE lost
  BY <1>1 DEF Dies, FeedTypeOK
<1>4. /\ IF request[t].kind = "like"
         THEN shown' = [shown EXCEPT ![t] = ~@] /\ doubt' = doubt \cup {t}
         ELSE shown' = shown /\ doubt' = doubt
      /\ missed' = IF request[t].pc = "broadcast" THEN missed \cup stale ELSE missed
      /\ shown \in [Tab -> BOOLEAN] /\ doubt \cup stale \cup timer \cup missed \subseteq Tab
  BY <1>1 DEF Dies, Fails, FeedTypeOK
<1>5. shown' \in [Tab -> BOOLEAN] /\ lost' \in Nat /\ notices' \in Nat
      /\ doubt' \cup stale' \cup timer' \cup missed' \subseteq Tab
  <2>1. shown' \in [Tab -> BOOLEAN]
    BY <1>4
  <2>2. lost' \in Nat /\ notices' \in Nat
    BY <1>1, <1>3
  <2>3. doubt' \cup stale' \cup timer' \cup missed' \subseteq Tab
    BY <1>1, <1>4
  <2> QED
    BY <2>1, <2>2, <2>3
<1>6. /\ request' \in [Tab -> Asking] /\ AllCarry' /\ Kept' /\ request'[t] = NoRequest
      /\ \A u \in Tab \ {t} : request'[u] = request[u]
      /\ UNCHANGED <<post, topic, rules, apart, likes, written>>
      /\ (\A u \in Tab : Turned(u)' <=> Turned(u))
      /\ FeedTypeOK'
  BY <1>1, <1>2, <1>5, AfterStep
<1>7. Buttons'
  <2> SUFFICES ASSUME NEW u \in Tab \ doubt'
               PROVE  shown'[u] <=> IF Turned(u)' THEN Of[u] \notin likes'
                                    ELSE Of[u] \in likes'
    BY <1>1 DEF Buttons
  <2>1. u \in Tab \ doubt /\ shown'[u] = shown[u]
    BY <1>4
  <2> QED
    BY <1>6, <2>1 DEF FeedIInv, Buttons
<1>8. NoticesAgree'
  <2>1. ~Owed(t)' /\ Cardinality(Owing) \in Nat
        /\ notices + lost + Cardinality(Owing) = Cardinality(OfOthers)
    BY <1>6, NothingAsked, OwingIs DEF Owed, After, FeedIInv, NoticesAgree, Owing
  <2>2. notices' + lost' + Cardinality(Owing') = Cardinality(OfOthers)
    <3>1. CASE Owed(t)
      <4>1. Cardinality(Owing') = Cardinality(Owing) - 1
        BY <1>1, <1>6, <2>1, <3>1, OwingChanges
      <4> QED
        BY <1>1, <1>3, <2>1, <3>1, <4>1
    <3>2. CASE ~Owed(t)
      <4>1. Cardinality(Owing') = Cardinality(Owing)
        BY <1>1, <1>6, <2>1, <3>2, OwingChanges
      <4> QED
        BY <1>1, <1>3, <2>1, <3>2, <4>1
    <3> QED
      BY <3>1, <3>2
  <2>3. OfOthers' = OfOthers
    BY <1>6 DEF OfOthers
  <2> QED
    BY <2>2, <2>3 DEF NoticesAgree, Owing
<1>9. StaleIsDue'
  BY <1>1, <1>4, <1>6 DEF FeedIInv, StaleIsDue
<1> QED
  BY <1>6, <1>7, <1>8, <1>9 DEF FeedIInv

(* The page: no row and no request changes.                                *)
LEMMA PageStep ==
    ASSUME FeedIInv, NEW t \in Tab, Refresh(t) \/ Reload(t), UNCHANGED Of PROVE FeedIInv'
<1>1. /\ FeedTypeOK /\ AllCarry /\ StaleIsDue
      /\ UNCHANGED <<Of, post, topic, rules, apart, likes, written, notices, lost, request,
                     steps, feedFaults>>
      /\ Refreshed(t)
  BY DEF FeedIInv, Refresh, Reload, rowVars, noticeVars
<1>2. StaleIsDue' /\ stale' \cup timer' \cup missed' \subseteq Tab
  BY <1>1, RefreshedShows
<1>3. shown' \in [Tab -> BOOLEAN] /\ doubt' \subseteq Tab /\ Buttons'
  <2>1. CASE Refresh(t)
    BY <1>1, <2>1, ButtonsStay DEF Refresh, FeedTypeOK, FeedIInv, Turned
  <2>2. CASE Reload(t)
    <3> DEFINE liked == (Of[t] \in likes)
    <3>1. shown' = [shown EXCEPT ![t] = liked] /\ doubt' = doubt \ {t}
          /\ request[t] = NoRequest /\ (liked \in BOOLEAN) /\ (liked <=> Of[t] \in likes)
      BY <2>2 DEF Reload
    <3> HIDE DEF liked
    <3>2. shown' \in [Tab -> BOOLEAN] /\ doubt' \subseteq Tab /\ shown'[t] = liked
          /\ \A u \in Tab \ {t} : shown'[u] = shown[u]
      BY <1>1, <3>1 DEF FeedTypeOK
    <3>3. ASSUME NEW u \in Tab \ doubt'
          PROVE  shown'[u] <=> IF Turned(u) THEN Of[u] \notin likes ELSE Of[u] \in likes
      <4>1. CASE u = t
        <5>1. ~Turned(t)
          BY <3>1, NothingAsked DEF Turned, Before
        <5> QED
          BY <3>1, <3>2, <4>1, <5>1
      <4>2. CASE u # t
        BY <3>1, <3>2, <4>2 DEF FeedIInv, Buttons
      <4> QED
        BY <4>1, <4>2
    <3> QED
      BY <1>1, <3>2, <3>3 DEF Buttons, Turned
  <2> QED
    BY <2>1, <2>2
<1>4. FeedTypeOK' /\ AllCarry'
  BY <1>1, <1>2, <1>3 DEF FeedTypeOK, AllCarry, Carries
<1>5. Kept' /\ NoticesAgree'
  BY <1>1 DEF FeedIInv, Kept, NoticesAgree, OfOthers, Owed, After
<1> QED
  BY <1>2, <1>3, <1>4, <1>5 DEF FeedIInv

-----------------------------------------------------------------------------
LEMMA FeedContinues == FeedIInv /\ [FeedNext]_feedVars => FeedIInv'
<1> SUFFICES ASSUME FeedIInv, [FeedNext]_feedVars PROVE FeedIInv'
  OBVIOUS
<1>1. CASE UNCHANGED feedVars
  BY <1>1 DEF feedVars, rowVars, noticeVars, tabVars, FeedIInv, FeedTypeOK, AllCarry, Carries,
     Buttons, Turned, Kept, NoticesAgree, OfOthers, Owed, After, StaleIsDue
<1>2. ASSUME NEW m \in Member, SetBlock(m), UNCHANGED Of PROVE FeedIInv'
  BY <1>2, SetBlockStep
<1>3. ASSUME NEW action \in {"review", "block"}, SetPhrase(action), UNCHANGED Of
      PROVE  FeedIInv'
  BY <1>3, SetPhraseStep
<1>4. CASE SetTopic /\ UNCHANGED Of
  BY <1>4, SetTopicStep
<1>5. ASSUME NEW t \in Tab, NEW kind \in {"post", "comment", "moderate"}, NEW bad \in BOOLEAN,
             Submit(t, kind, bad), UNCHANGED Of
      PROVE  FeedIInv'
  BY <1>5, BeginStep
<1>6. ASSUME NEW t \in Tab, UNCHANGED Of,
             \/ Click(t) \/ Find(t) \/ Meet(t) \/ Screen(t) \/ Look(t)
             \/ WritePost(t) \/ WriteComment(t) \/ WriteLike(t) \/ Moderate(t)
             \/ Broadcast(t) \/ Notify(t) \/ Answer(t) \/ Dies(t)
             \/ Refresh(t) \/ Reload(t)
      PROVE  FeedIInv'
  BY <1>6, BeginStep, FindStep, MeetStep, ScreenStep, LookStep, WritePostStep,
     WriteCommentStep, WriteLikeStep, ModerateStep, BroadcastStep, NotifyStep, AnswerStep,
     DiesStep, PageStep
<1> QED
  BY <1>1, <1>2, <1>3, <1>4, <1>5, <1>6 DEF FeedNext

LEMMA FeedHolds == FeedSpec => []FeedIInv
BY FeedBegins, FeedContinues, PTL DEF FeedSpec

(* FeedTypeOK holds of every behaviour of the feed. *)
THEOREM FeedTypeCorrect == FeedSpec => []FeedTypeOK
<1>1. FeedIInv => FeedTypeOK
  BY DEF FeedIInv
<1> QED
  BY <1>1, FeedHolds, PTL

(* FeedAgrees holds of every behaviour of the feed: for any tabs, members, *)
(* moderators and bounds, and however blocks and phrases change under way, *)
(* nothing is shown or written that a phrase or a block should have kept   *)
(* out, the author's notices are those due, buttons say what is on record, *)
(* and a tab that shows less is about to be told (Buttons says what the    *)
(* button shows while its like is not written yet, and Carries what a      *)
(* request must have seen to be where it is).                              *)
THEOREM FeedStaysInAgreement == FeedSpec => []FeedAgrees
<1>1. FeedIInv => ButtonAgrees
  <2> SUFFICES ASSUME FeedIInv, NEW t \in Tab \ doubt, request[t].kind # "like"
               PROVE  shown[t] = (Of[t] \in likes)
    BY DEF ButtonAgrees
  <2>1. (shown[t] <=> Of[t] \in likes) /\ shown[t] \in BOOLEAN
    BY DEF FeedIInv, FeedTypeOK, Buttons, Turned
  <2> QED
    BY <2>1
<1>2. FeedIInv => FeedAgrees
  BY <1>1 DEF FeedIInv, FeedAgrees
<1> QED
  BY <1>2, FeedHolds, PTL

-----------------------------------------------------------------------------
(* The panel of a conversation's calls.                                    *)

Waiting(row) == row.pc \in {"token", "connect"}

(* Connections that have ended stay so, and a Disconnected event of the    *)
(* one that counts is about the call the panel shows.                      *)
Ends ==
    \A c \in ended :
        conn[c].pc = "closed" /\ (mounted /\ ~crossed /\ roomRef = c => InCall)

(* One thing at a time: a request, an attempt to connect, or a call.       *)
OneRequest ==
    /\ \A a, b \in asking : a = b
    /\ \A a \in asking :
        panel.status = (IF a.what = "create" THEN "starting" ELSE "idle")

OneAtATime ==
    /\ OneRequest
    /\ \A c \in DOMAIN conn :
        Waiting(conn[c]) => panel.status = "connecting" /\ roomRef = c

PanelIInv ==
    /\ PanelTypeOK
    /\ Ends
    /\ mounted /\ ~crossed => OneAtATime
    /\ PanelAgrees

LEMMA PanelTyped ==
    ASSUME PanelTypeOK
    PROVE  /\ MaxRooms \in Nat /\ MaxConns \in Nat /\ MaxFailures \in Nat
           /\ Len(conn) \in Nat /\ DOMAIN conn = 1..Len(conn)
           /\ \A c \in DOMAIN conn : conn[c] \in Connection
           /\ calls.last \in Room /\ calls.on \in BOOLEAN
           /\ panel.local \in Room /\ panel.retry \in Room
           /\ panel.gone \in Room /\ panel.answered \in Room
           /\ page.room \in Room /\ page.invite \in Room /\ 0 \in Room
           /\ CurrentRoom \in Room /\ Incoming \in Room
           /\ \A a \in asking : a.room \in Room
<1>1. MaxRooms \in Nat /\ MaxConns \in Nat /\ MaxFailures \in Nat /\ 0 \in Room
  BY PanelAssumption DEF Room
<1>2. Len(conn) \in Nat /\ DOMAIN conn = 1..Len(conn)
      /\ \A c \in DOMAIN conn : conn[c] \in Connection
  BY DEF PanelTypeOK
<1>3. /\ panel.local \in Room /\ panel.retry \in Room
      /\ panel.gone \in Room /\ panel.answered \in Room
  BY DEF PanelTypeOK, PanelState
<1>4. page.room \in Room /\ page.invite \in Room /\ calls.last \in Room /\ calls.on \in BOOLEAN
  BY DEF PanelTypeOK
<1>5. CurrentRoom \in Room /\ Incoming \in Room
  BY <1>1, <1>3, <1>4 DEF CurrentRoom, Incoming
<1>6. \A a \in asking : a.room \in Room
  BY DEF PanelTypeOK, Question
<1> QED
  BY <1>1, <1>2, <1>3, <1>4, <1>5, <1>6

(* A connection more.                                                      *)
LEMMA AppendConnection ==
    ASSUME PanelTypeOK, NEW s \in Seq(Connection), NEW row \in Connection,
           Len(s) = Len(conn), Len(conn) < MaxConns
    PROVE  LET t == Append(s, row) IN
           /\ t \in Seq(Connection) /\ Len(t) = Len(conn) + 1 /\ Len(t) <= MaxConns
           /\ DOMAIN t = 1..(Len(conn) + 1)
           /\ \A c \in 1..Len(conn) : t[c] = s[c]
           /\ t[Len(conn) + 1] = row
           /\ Len(conn) + 1 \in 0..MaxConns
BY PanelTyped

(* A connection that changes.                                              *)
LEMMA ChangeConnections ==
    ASSUME PanelTypeOK, NEW f, DOMAIN f = DOMAIN conn,
           \A c \in DOMAIN conn : f[c] \in Connection,
           f = [c \in DOMAIN conn |-> f[c]]
    PROVE  f \in Seq(Connection) /\ Len(f) = Len(conn)
<1>1. f \in [1..Len(conn) -> Connection]
  BY PanelTyped
<1> QED
  BY <1>1, PanelTyped, LenProperties

LEMMA PanelBegins == PanelInit => PanelIInv
<1> SUFFICES ASSUME PanelInit PROVE PanelIInv
  OBVIOUS
<1>1. conn \in Seq(Connection) /\ Len(conn) = 0 /\ DOMAIN conn = {}
  BY DEF PanelInit
<1>2. 0 \in Room /\ 0 \in 0..MaxConns /\ 0 \in 0..MaxFailures
  BY PanelAssumption DEF Room
<1>3. panel \in PanelState
  BY <1>2 DEF PanelInit, IdlePanel, PanelState
<1>4. PanelTypeOK
  <2>1. calls \in [last : Room, on : BOOLEAN] /\ page \in [room : Room, invite : Room]
    BY <1>2 DEF PanelInit
  <2>2. Len(conn) <= MaxConns
    BY <1>1, PanelAssumption
  <2> QED
    BY <1>1, <1>2, <1>3, <2>1, <2>2 DEF PanelInit, PanelTypeOK
<1> QED
  BY <1>1, <1>4 DEF PanelInit, PanelIInv, Ends, OneAtATime, OneRequest, PanelAgrees, IdlePanel, InCall

(* A new connection, made while there is no other and nothing is asked, or *)
(* after the panel was left or crossed itself.                             *)
LEMMA ConnectToStep ==
    ASSUME PanelIInv, NEW m \in Room, NEW p \in PanelState, ConnectTo(m, p),
           UNCHANGED <<serverVars, page, mounted, failures>>,
           asking' \subseteq Question, crossed' \in BOOLEAN,
           mounted /\ ~crossed' =>
                /\ asking' = {} /\ ~crossed
                /\ \A c \in DOMAIN conn : conn[c].pc = "closed"
    PROVE  PanelIInv'
<1> DEFINE row == [pc |-> "token", room |-> m, attempt |-> 1]
<1>1. PanelTypeOK /\ Ends
  BY DEF PanelIInv
<1>2. row \in Connection
  BY DEF Connection
<1>3. /\ conn' = Append(conn, row) /\ roomRef' = Len(conn) + 1 /\ ended' = ended
      /\ Len(conn) < MaxConns
      /\ panel' = [p EXCEPT !.status = "connecting", !.retry = m]
  BY DEF ConnectTo, Opens
<1>4. panel' \in PanelState /\ panel'.status = "connecting"
  BY <1>3 DEF PanelState
<1>5. /\ conn' \in Seq(Connection) /\ Len(conn') <= MaxConns
      /\ DOMAIN conn' = 1..(Len(conn) + 1) /\ roomRef' \in 0..MaxConns
      /\ \A c \in 1..Len(conn) : conn'[c] = conn[c]
      /\ conn'[Len(conn) + 1] = row
  BY <1>1, <1>2, <1>3, AppendConnection DEF PanelTypeOK
<1> HIDE DEF row
<1>6. DOMAIN conn = 1..Len(conn) /\ Len(conn) \in Nat /\ ended \subseteq DOMAIN conn
  BY <1>1, PanelTyped DEF PanelTypeOK
<1>7. PanelTypeOK'
  BY <1>1, <1>3, <1>4, <1>5, <1>6 DEF PanelTypeOK, serverVars
<1>8. Ends'
  BY <1>1, <1>3, <1>5, <1>6 DEF Ends
<1>9. ASSUME mounted', ~crossed' PROVE OneAtATime' /\ PanelAgrees'
  <2>1. mounted /\ asking' = {} /\ \A c \in DOMAIN conn : conn[c].pc = "closed"
    BY <1>9
  <2>2. \A c \in DOMAIN conn' : conn'[c].pc = "closed" \/ c = roomRef'
    BY <1>3, <1>5, <1>6, <2>1
  <2>3. conn'[roomRef'].pc = "token"
    BY <1>3, <1>5 DEF row
  <2>4. OneAtATime'
    BY <1>4, <2>1, <2>2 DEF OneAtATime, OneRequest, Waiting
  <2>5. PanelAgrees'
    BY <1>4, <2>2, <2>3 DEF PanelAgrees, InCall
  <2> QED
    BY <2>4, <2>5
<1> QED
  BY <1>7, <1>8, <1>9 DEF PanelIInv, PanelAgrees

(* With nothing to connect or connected, all connections are closed.       *)
LEMMA AllClosed ==
    ASSUME PanelIInv, mounted, ~crossed, panel.status \in {"idle", "starting", "error"}
    PROVE  \A c \in DOMAIN conn : conn[c].pc = "closed"
BY PanelTyped DEF PanelIInv, OneAtATime, OneRequest, Waiting, PanelAgrees, InCall, Connection

(* A step that leaves the connections, and what the panel shows of them.   *)
LEMMA ShownStep ==
    ASSUME PanelIInv, PanelTypeOK', UNCHANGED <<mounted, roomRef, conn, ended>>,
           crossed => crossed',
           mounted /\ ~crossed' =>
                /\ OneRequest'
                /\ panel' = panel \/ (~InCall /\ ~InCall' /\ panel.status # "connecting")
    PROVE  PanelIInv'
<1>1. ASSUME mounted, ~crossed' PROVE OneAtATime' /\ PanelAgrees'
  <2>1. CASE panel' = panel
    BY <1>1, <2>1 DEF PanelIInv, OneAtATime, OneRequest, PanelAgrees, InCall
  <2>2. CASE ~InCall /\ ~InCall' /\ panel.status # "connecting"
    BY <1>1, <2>2 DEF PanelIInv, OneAtATime, OneRequest, PanelAgrees
  <2> QED
    BY <1>1, <2>1, <2>2
<1>2. Ends'
  BY DEF PanelIInv, Ends, InCall
<1> QED
  BY <1>1, <1>2 DEF PanelIInv, PanelAgrees

-----------------------------------------------------------------------------
LEMMA StartStep == ASSUME PanelIInv, Start PROVE PanelIInv'
<1> DEFINE new == [what |-> "create", room |-> 0, said |-> "wait"]
<1>1. PanelTypeOK /\ 0 \in Room
  BY PanelTyped DEF PanelIInv
<1>2. new \in Question
  BY <1>1 DEF Question
<1>3. panel' \in PanelState /\ panel'.status = "starting"
  BY <1>1 DEF Start, PanelTypeOK, PanelState
<1>4. PanelTypeOK'
  BY <1>1, <1>2, <1>3 DEF Start, PanelTypeOK, serverVars
<1>5. mounted /\ ~crossed' => asking' = {new} /\ ~crossed
  BY <1>1 DEF Start, PanelTypeOK
<1>6. panel.status \in {"idle", "error"}
  BY DEF Start
<1>7. crossed => crossed'
  BY DEF Start
<1>8. mounted /\ ~crossed' => OneRequest'
  BY <1>3, <1>5 DEF OneRequest
<1>9. ~InCall /\ ~InCall' /\ panel.status # "connecting"
  BY <1>3, <1>6 DEF InCall
<1>10. UNCHANGED <<mounted, roomRef, conn, ended>>
  BY DEF Start
<1> QED
  BY <1>4, <1>7, <1>8, <1>9, <1>10, ShownStep

LEMMA RespondStep ==
    ASSUME PanelIInv, NEW what \in {"accept", "decline"}, Respond(what) PROVE PanelIInv'
<1> DEFINE new == [what |-> what, room |-> Incoming, said |-> "wait"]
<1>1. PanelTypeOK /\ Incoming \in Room
  BY PanelTyped DEF PanelIInv
<1>2. new \in Question /\ new.what # "create"
  BY <1>1 DEF Question
<1>3. asking' = asking \cup {new} /\ panel' = panel /\ panel.status = "idle"
  BY DEF Respond
<1> HIDE DEF new
<1>4. PanelTypeOK'
  BY <1>1, <1>2, <1>3 DEF Respond, PanelTypeOK, serverVars
<1>5. mounted /\ ~crossed' => asking' = {new}
  <2>1. mounted /\ ~crossed => asking = {}
    BY <1>3 DEF Respond, PanelIInv, OneAtATime, OneRequest
  <2> QED
    BY <1>3, <2>1 DEF Respond
<1>6. UNCHANGED <<mounted, roomRef, conn, ended>> /\ crossed' = crossed
  BY DEF Respond
<1>7. mounted /\ ~crossed' => OneRequest'
  BY <1>2, <1>3, <1>5 DEF OneRequest
<1>8. crossed => crossed'
  BY <1>6, Zenon
<1> QED
  BY <1>3, <1>4, <1>6, <1>7, <1>8, ShownStep

LEMMA ServeStep == ASSUME PanelIInv, NEW a \in asking, Serve(a) PROVE PanelIInv'
<1>1. PanelTypeOK /\ a \in Question
  BY DEF PanelIInv, PanelTypeOK
<1>2. PICK m \in Room, word \in {"yes", "no"} : Says(a, m, word)
  <2>1. calls'.last \in Room \/ a.what # "create" \/ Says(a, a.room, "no")
    BY <1>1, PanelTyped, PanelAssumption DEF Serve, Room
  <2> QED
    BY <2>1, <1>1, PanelTyped DEF Serve
<1> DEFINE new == [a EXCEPT !.room = m, !.said = word]
<1>3. asking' = (asking \ {a}) \cup {new}
  BY <1>2 DEF Says
<1>4. new \in Question /\ new.what = a.what
  BY <1>1, <1>2 DEF Question
<1> HIDE DEF new
<1>5. /\ calls' \in [last : Room, on : BOOLEAN] /\ invite' \in Room
      /\ failures' \in 0..MaxFailures
  <2>1. calls' \in [last : Room, on : BOOLEAN]
    <3>1. calls.last < MaxRooms => calls.last + 1 \in Room
      BY <1>1, PanelTyped DEF Room
    <3>2. \/ calls' = calls
          \/ calls.last < MaxRooms /\ calls' = [last |-> calls.last + 1, on |-> TRUE]
          \/ calls' = [calls EXCEPT !.on = @ /\ a.what = "accept"]
      BY DEF Serve, serverVars
    <3>3. calls \in [last : Room, on : BOOLEAN]
      BY <1>1 DEF PanelTypeOK
    <3>4. calls' = [calls EXCEPT !.on = @ /\ a.what = "accept"]
            => calls' \in [last : Room, on : BOOLEAN]
      <4>1. (calls.on /\ a.what = "accept") \in BOOLEAN
        OBVIOUS
      <4> QED
        BY <3>3, <4>1, Zenon
    <3>5. CASE calls.last < MaxRooms /\ calls' = [last |-> calls.last + 1, on |-> TRUE]
      BY <3>1, <3>5
    <3> QED
      BY <3>2, <3>3, <3>4, <3>5, Zenon
  <2>2. invite' \in Room
    BY <1>1, PanelTyped DEF Serve, PanelTypeOK, serverVars
  <2>3. failures' \in 0..MaxFailures
    BY <1>1, PanelTyped DEF Serve, PanelTypeOK, PanelFault, NoFailure, serverVars
  <2> QED
    BY <2>1, <2>2, <2>3
<1>6. PanelTypeOK'
  BY <1>1, <1>3, <1>4, <1>5 DEF Serve, PanelTypeOK
<1>7. mounted /\ ~crossed => asking' = {new}
  BY <1>3 DEF PanelIInv, OneAtATime, OneRequest
<1>8. mounted /\ ~crossed =>
        panel.status = (IF new.what = "create" THEN "starting" ELSE "idle")
  BY <1>4 DEF PanelIInv, OneAtATime, OneRequest
<1>9. UNCHANGED <<mounted, roomRef, conn, ended>> /\ crossed' = crossed /\ panel' = panel
  BY DEF Serve
<1>10. mounted /\ ~crossed' => OneRequest'
  BY <1>7, <1>8, <1>9 DEF OneRequest
<1>11. crossed => crossed'
  BY <1>9, Zenon
<1> QED
  BY <1>6, <1>9, <1>10, <1>11, ShownStep

LEMMA AnsweredStep == ASSUME PanelIInv, NEW a \in asking, Answered(a) PROVE PanelIInv'
<1>1. PanelTypeOK /\ a \in Question /\ a.room \in Room /\ 0 \in Room
  BY PanelTyped DEF PanelIInv, PanelTypeOK
<1>2. asking' = asking \ {a} /\ asking' \subseteq Question
  BY <1>1 DEF Answered, PanelTypeOK
<1>3. mounted /\ ~crossed =>
        /\ asking' = {}
        /\ panel.status = (IF a.what = "create" THEN "starting" ELSE "idle")
  BY <1>2 DEF PanelIInv, OneAtATime, OneRequest
<1>4. mounted /\ ~crossed => \A c \in DOMAIN conn : conn[c].pc = "closed"
  BY <1>3, AllClosed
<1>5. crossed' = crossed /\ mounted' = mounted /\ crossed \in BOOLEAN
  BY <1>1 DEF Answered, PanelTypeOK
<1>6. CASE Created(a) /\ a.said = "yes"
  <2> DEFINE p == [panel EXCEPT !.gone = 0, !.local = a.room]
  <2>1. p \in PanelState
    BY <1>1 DEF PanelTypeOK, PanelState
  <2> QED
    BY <1>1, <1>2, <1>3, <1>4, <1>5, <1>6, <2>1, ConnectToStep DEF Created, Answered
<1>7. CASE Accepted(a)
  <2> DEFINE p == [panel EXCEPT !.answered = a.room, !.gone = 0, !.local = a.room]
  <2>1. p \in PanelState
    BY <1>1 DEF PanelTypeOK, PanelState
  <2> QED
    BY <1>1, <1>2, <1>3, <1>4, <1>5, <1>7, <2>1, ConnectToStep DEF Accepted, Answered
<1>8. CASE (Created(a) /\ a.said # "yes") \/ Declined(a) \/ NotAnswered(a)
  <2>1. UNCHANGED <<roomRef, conn, ended>>
    BY <1>8 DEF Created, Declined, NotAnswered
  <2>2. /\ panel' \in PanelState
        /\ \/ panel' = panel
           \/ panel'.status = "error" /\ a.what = "create"
           \/ panel'.status = panel.status /\ a.what = "decline"
    <3>1. panel \in PanelState
      BY <1>1 DEF PanelTypeOK
    <3>2. CASE panel' = [panel EXCEPT !.status = "error"] /\ a.what = "create"
      BY <3>1, <3>2 DEF PanelState
    <3>3. CASE panel' = [panel EXCEPT !.answered = a.room, !.gone = a.room]
               /\ a.what = "decline"
      BY <1>1, <3>1, <3>3 DEF PanelState
    <3> QED
      BY <1>8, <3>1, <3>2, <3>3 DEF Created, Declined, NotAnswered
  <2>3. PanelTypeOK'
    BY <1>1, <1>2, <2>1, <2>2 DEF Answered, PanelTypeOK, serverVars
  <2>4. mounted /\ ~crossed' => OneRequest'
    BY <1>3, <1>5 DEF OneRequest
  <2>5. mounted /\ ~crossed' =>
            panel' = panel \/ (~InCall /\ ~InCall' /\ panel.status # "connecting")
    BY <1>3, <1>5, <2>2 DEF InCall
  <2>6. (crossed => crossed') /\ UNCHANGED <<mounted, roomRef, conn, ended>>
    BY <1>5, <2>1
  <2> QED
    BY <2>3, <2>4, <2>5, <2>6, ShownStep
<1> QED
  BY <1>6, <1>7, <1>8 DEF Answered

LEMMA JoinStep == ASSUME PanelIInv, Join PROVE PanelIInv'
<1>1. PanelTypeOK /\ CurrentRoom \in Room /\ asking \subseteq Question /\ crossed \in BOOLEAN
  BY PanelTyped DEF PanelIInv, PanelTypeOK
<1> DEFINE p == [panel EXCEPT !.local = CurrentRoom]
<1>2. p \in PanelState
  BY <1>1 DEF PanelTypeOK, PanelState
<1>3. mounted /\ ~crossed => \A c \in DOMAIN conn : conn[c].pc = "closed"
  BY AllClosed DEF Join
<1>4. crossed' \in BOOLEAN /\ (~crossed' => ~crossed /\ asking = {})
  BY <1>1 DEF Join
<1> QED
  BY <1>1, <1>2, <1>3, <1>4, ConnectToStep DEF Join

LEMMA TryAgainStep == ASSUME PanelIInv, TryAgain PROVE PanelIInv'
<1>1. PanelTypeOK /\ panel \in PanelState /\ panel.retry \in Room /\ asking \subseteq Question
      /\ crossed \in BOOLEAN
  BY PanelTyped DEF PanelIInv, PanelTypeOK
<1>2. mounted /\ ~crossed => \A c \in DOMAIN conn : conn[c].pc = "closed"
  BY AllClosed DEF TryAgain
<1>3. mounted /\ ~crossed => asking = {}
  BY DEF TryAgain, PanelIInv, OneAtATime, OneRequest
<1> QED
  BY <1>1, <1>2, <1>3, ConnectToStep DEF TryAgain

-----------------------------------------------------------------------------
LEMMA TokenStep == ASSUME PanelIInv, NEW c \in DOMAIN conn, Token(c) PROVE PanelIInv'
<1>1. PanelTypeOK
  BY DEF PanelIInv
<1> DEFINE row == [conn[c] EXCEPT !.pc = "connect"]
<1>2. conn[c] \in Connection /\ conn[c].pc = "token" /\ row \in Connection
  BY <1>1, PanelTyped DEF Token, Connection
<1>3. conn' = [conn EXCEPT ![c] = row]
  BY DEF Token
<1>4. /\ DOMAIN conn' = DOMAIN conn /\ row.pc = "connect"
      /\ \A d \in DOMAIN conn : conn'[d] = IF d = c THEN row ELSE conn[d]
  BY <1>2, <1>3, <1>1, PanelTyped DEF Connection
<1> HIDE DEF row
<1>5. conn' \in Seq(Connection) /\ Len(conn') = Len(conn)
  <2>1. \A d \in DOMAIN conn : conn'[d] \in Connection
    BY <1>1, <1>2, <1>4, PanelTyped
  <2>2. conn' = [d \in DOMAIN conn |-> conn'[d]]
    BY <1>3
  <2> QED
    BY <1>1, <1>4, <2>1, <2>2, ChangeConnections
<1>6. PanelTypeOK'
  BY <1>1, <1>4, <1>5 DEF Token, PanelTypeOK, serverVars
<1>7. Ends'
  BY <1>2, <1>4 DEF Token, PanelIInv, Ends, InCall
<1>8. ASSUME mounted', ~crossed' PROVE OneAtATime' /\ PanelAgrees'
  <2>1. OneAtATime /\ mounted /\ ~crossed
    BY <1>8 DEF Token, PanelIInv
  <2>2. panel.status = "connecting" /\ roomRef = c
    BY <1>2, <2>1 DEF OneAtATime, Waiting
  <2>3. OneAtATime'
    BY <1>4, <2>1, <2>2 DEF Token, OneAtATime, OneRequest, Waiting
  <2>4. PanelAgrees'
    BY <1>4, <2>1, <2>2 DEF Token, PanelIInv, PanelAgrees, InCall
  <2> QED
    BY <2>3, <2>4
<1> QED
  BY <1>6, <1>7, <1>8 DEF PanelIInv, PanelAgrees

LEMMA ConnectedStep == ASSUME PanelIInv, NEW c \in DOMAIN conn, Connected(c) PROVE PanelIInv'
<1>1. PanelTypeOK
  BY DEF PanelIInv
<1> DEFINE row == [conn[c] EXCEPT !.pc = "live"]
<1>2. conn[c] \in Connection /\ conn[c].pc = "connect" /\ row \in Connection
  BY <1>1, PanelTyped DEF Connected, Connection
<1>3. conn' = [conn EXCEPT ![c] = row]
  BY DEF Connected
<1>4. /\ DOMAIN conn' = DOMAIN conn /\ row.pc = "live"
      /\ \A d \in DOMAIN conn : conn'[d] = IF d = c THEN row ELSE conn[d]
  BY <1>2, <1>3, <1>1, PanelTyped DEF Connection
<1> HIDE DEF row
<1>5. conn' \in Seq(Connection) /\ Len(conn') = Len(conn)
  <2>1. \A d \in DOMAIN conn : conn'[d] \in Connection
    BY <1>1, <1>2, <1>4, PanelTyped
  <2>2. conn' = [d \in DOMAIN conn |-> conn'[d]]
    BY <1>3
  <2> QED
    BY <1>1, <1>4, <2>1, <2>2, ChangeConnections
<1>6. panel' \in PanelState /\ panel'.room = c /\ panel'.status = "connected"
  <2>1. c \in 0..MaxConns
    BY <1>1, PanelTyped DEF PanelTypeOK
  <2> QED
    BY <1>1, <2>1 DEF Connected, PanelTypeOK, PanelState
<1>7. PanelTypeOK'
  BY <1>1, <1>4, <1>5, <1>6 DEF Connected, PanelTypeOK, serverVars
<1>8. Ends'
  BY <1>2, <1>4, <1>6 DEF Connected, PanelIInv, Ends, InCall
<1>9. ASSUME mounted', ~crossed' PROVE OneAtATime' /\ PanelAgrees'
  <2>1. OneAtATime /\ PanelAgrees /\ mounted /\ ~crossed
    BY <1>9 DEF Connected, PanelIInv
  <2>2. panel.status = "connecting" /\ roomRef = c
    BY <1>2, <2>1 DEF OneAtATime, Waiting
  <2>3. asking' = {}
    BY <2>1, <2>2 DEF Connected, OneAtATime, OneRequest
  <2>4. \A d \in DOMAIN conn : d # c => ~Waiting(conn[d]) /\ conn[d].pc # "live"
    BY <2>1, <2>2 DEF OneAtATime, PanelAgrees, InCall
  <2>5. OneAtATime'
    BY <1>4, <2>3, <2>4 DEF OneAtATime, OneRequest, Waiting
  <2>6. PanelAgrees'
    BY <1>4, <1>6, <2>2, <2>4 DEF Connected, PanelAgrees, InCall
  <2> QED
    BY <2>5, <2>6
<1> QED
  BY <1>7, <1>8, <1>9 DEF PanelIInv, PanelAgrees

LEMMA FailedStep == ASSUME PanelIInv, NEW c \in DOMAIN conn, Failed(c) PROVE PanelIInv'
<1>1. PanelTypeOK
  BY DEF PanelIInv
<1> DEFINE row == [conn[c] EXCEPT !.pc = "closed"]
           rest == [conn EXCEPT ![c] = row]
           new == [pc |-> "token", room |-> conn[c].room, attempt |-> 2]
<1>2. conn[c] \in Connection /\ Waiting(conn[c]) /\ row \in Connection /\ new \in Connection
  BY <1>1, PanelTyped DEF Failed, Connection, Waiting
<1>3. /\ DOMAIN rest = DOMAIN conn /\ row.pc = "closed" /\ new.pc = "token"
      /\ \A d \in DOMAIN conn : rest[d] = IF d = c THEN row ELSE conn[d]
  BY <1>2, <1>1, PanelTyped DEF Connection
<1>4. rest \in Seq(Connection) /\ Len(rest) = Len(conn)
  <2>1. \A d \in DOMAIN conn : rest[d] \in Connection
    BY <1>1, <1>2, <1>3, PanelTyped
  <2>2. rest = [d \in DOMAIN conn |-> rest[d]]
    OBVIOUS
  <2> HIDE DEF rest, row
  <2> QED
    BY <1>1, <1>3, <2>1, <2>2, ChangeConnections
<1>5. \/ /\ Len(conn) < MaxConns
         /\ conn' = Append(rest, new) /\ roomRef' = Len(conn) + 1 /\ panel' = panel
      \/ conn' = rest /\ roomRef' = 0 /\ panel' = [panel EXCEPT !.status = "error"]
  BY DEF Failed
<1> HIDE DEF rest, row, new
<1>6. /\ UNCHANGED <<calls, invite, page, mounted, ended, asking, crossed>>
      /\ failures' \in 0..MaxFailures
  BY <1>1, PanelTyped DEF Failed, PanelFault, NoFailure, serverVars, PanelTypeOK
<1>7. DOMAIN conn = 1..Len(conn) /\ Len(conn) \in Nat /\ 0 \in 0..MaxConns
  BY <1>1, PanelTyped
<1>8. mounted /\ ~crossed =>
        /\ panel.status = "connecting" /\ roomRef = c /\ asking = {}
        /\ \A d \in DOMAIN conn : d # c => ~Waiting(conn[d]) /\ conn[d].pc # "live"
  BY <1>2 DEF PanelIInv, OneAtATime, OneRequest, PanelAgrees, InCall
<1>9. \A d \in ended : d \in DOMAIN conn /\ conn[d].pc = "closed"
  BY <1>1 DEF PanelIInv, Ends, PanelTypeOK
<1>10. CASE Len(conn) < MaxConns /\ conn' = Append(rest, new) /\ roomRef' = Len(conn) + 1
            /\ panel' = panel
  <2>1. /\ conn' \in Seq(Connection) /\ Len(conn') <= MaxConns
        /\ DOMAIN conn' = 1..(Len(conn) + 1) /\ roomRef' \in 0..MaxConns
        /\ \A d \in 1..Len(conn) : conn'[d] = rest[d]
        /\ conn'[Len(conn) + 1] = new
    BY <1>1, <1>2, <1>4, <1>10, AppendConnection
  <2>2. PanelTypeOK'
    BY <1>1, <1>6, <1>7, <1>10, <2>1 DEF PanelTypeOK
  <2>3. Ends'
    BY <1>3, <1>6, <1>7, <1>9, <1>10, <2>1 DEF Ends
  <2>4. ASSUME mounted', ~crossed' PROVE OneAtATime' /\ PanelAgrees'
    <3>1. \A d \in DOMAIN conn' : d # roomRef' => ~Waiting(conn'[d]) /\ conn'[d].pc # "live"
      BY <1>3, <1>6, <1>7, <1>8, <1>10, <2>1, <2>4 DEF Waiting
    <3>2. OneAtATime'
      BY <1>6, <1>8, <1>10, <2>4, <3>1 DEF OneAtATime, OneRequest
    <3>3. PanelAgrees'
      BY <1>3, <1>6, <1>8, <1>10, <2>1, <2>4, <3>1 DEF PanelAgrees, InCall
    <3> QED
      BY <3>2, <3>3
  <2> QED
    BY <2>2, <2>3, <2>4 DEF PanelIInv, PanelAgrees
<1>11. CASE conn' = rest /\ roomRef' = 0 /\ panel' = [panel EXCEPT !.status = "error"]
  <2>1. panel' \in PanelState /\ panel'.status = "error"
    BY <1>1, <1>11 DEF PanelTypeOK, PanelState
  <2>2. PanelTypeOK'
    BY <1>1, <1>3, <1>4, <1>6, <1>7, <1>11, <2>1 DEF PanelTypeOK
  <2>3. Ends'
    BY <1>3, <1>6, <1>7, <1>9, <1>11 DEF Ends
  <2>4. ASSUME mounted', ~crossed' PROVE OneAtATime' /\ PanelAgrees'
    <3>1. \A d \in DOMAIN conn' : ~Waiting(conn'[d]) /\ conn'[d].pc # "live"
      BY <1>3, <1>6, <1>8, <1>11, <2>4 DEF Waiting
    <3> QED
      BY <1>6, <1>8, <2>1, <2>4, <3>1 DEF OneAtATime, OneRequest, PanelAgrees, InCall
  <2> QED
    BY <2>2, <2>3, <2>4 DEF PanelIInv, PanelAgrees
<1> QED
  BY <1>5, <1>10, <1>11

-----------------------------------------------------------------------------
LEMMA ClosedIs ==
    ASSUME PanelTypeOK, NEW cs
    PROVE  /\ Closed(cs) \in Seq(Connection) /\ Len(Closed(cs)) = Len(conn)
           /\ DOMAIN Closed(cs) = DOMAIN conn
           /\ \A d \in DOMAIN conn :
                /\ d \in cs => Closed(cs)[d].pc = "closed"
                /\ d \notin cs => Closed(cs)[d] = conn[d]
                /\ conn[d].pc = "closed" => Closed(cs)[d].pc = "closed"
<1>1. DOMAIN Closed(cs) = DOMAIN conn
      /\ \A d \in DOMAIN conn : Closed(cs)[d] =
            IF d \in cs THEN [conn[d] EXCEPT !.pc = "closed"] ELSE conn[d]
  BY DEF Closed
<1>2. ASSUME NEW d \in DOMAIN conn
      PROVE  /\ [conn[d] EXCEPT !.pc = "closed"] \in Connection
             /\ [conn[d] EXCEPT !.pc = "closed"].pc = "closed"
  BY PanelTyped DEF Connection
<1>3. \A d \in DOMAIN conn : Closed(cs)[d] \in Connection
  BY <1>1, <1>2, PanelTyped
<1>4. Closed(cs) = [d \in DOMAIN conn |-> Closed(cs)[d]]
  BY DEF Closed
<1>5. Closed(cs) \in Seq(Connection) /\ Len(Closed(cs)) = Len(conn)
  BY <1>1, <1>3, <1>4, ChangeConnections
<1> QED
  BY <1>1, <1>2, <1>5

LEMMA ResetIs ==
    ASSUME PanelTypeOK
    PROVE  /\ Reset(panel) \in PanelState /\ Reset(panel).status = "idle"
           /\ \A m \in Room : LET p == [Reset(panel) EXCEPT !.gone = m] IN
                p \in PanelState /\ p.status = "idle"
<1>1. panel \in PanelState /\ 0 \in Room /\ 0 \in 0..MaxConns
  BY PanelTyped DEF PanelTypeOK
<1>2. Reset(panel) \in PanelState /\ Reset(panel).status = "idle"
  BY <1>1 DEF PanelState, Reset
<1>3. ASSUME NEW m \in Room
      PROVE  LET p == [Reset(panel) EXCEPT !.gone = m] IN
             p \in PanelState /\ p.status = "idle"
  BY <1>2, <1>3 DEF PanelState
<1> QED
  BY <1>2, <1>3

LEMMA DisconnectedStep ==
    ASSUME PanelIInv, NEW c \in DOMAIN conn, Disconnected(c) PROVE PanelIInv'
<1>1. PanelTypeOK
  BY DEF PanelIInv
<1>2. /\ UNCHANGED <<calls, invite, page, mounted, conn, asking, crossed, failures>>
      /\ ended' = ended \ {c} /\ c \in ended
  BY DEF Disconnected, serverVars
<1>3. CASE roomRef = c /\ panel' = Reset(panel) /\ roomRef' = 0
  <2>1. panel' \in PanelState /\ panel'.status = "idle"
    BY <1>1, <1>3, ResetIs
  <2>2. 0 \in 0..MaxConns /\ 0 \notin DOMAIN conn
    BY <1>1, PanelTyped
  <2>3. PanelTypeOK'
    BY <1>1, <1>2, <1>3, <2>1, <2>2 DEF PanelTypeOK
  <2>4. Ends'
    BY <1>2, <1>3, <2>2, <1>1 DEF PanelIInv, Ends, PanelTypeOK
  <2>5. ASSUME mounted, ~crossed PROVE OneAtATime' /\ PanelAgrees'
    <3>1. InCall /\ OneAtATime /\ PanelAgrees /\ conn[c].pc = "closed"
      BY <1>2, <1>3, <2>5 DEF PanelIInv, Ends
    <3>2. asking = {} /\ \A d \in DOMAIN conn : ~Waiting(conn[d]) /\ conn[d].pc # "live"
      BY <1>3, <2>5, <3>1 DEF OneAtATime, OneRequest, PanelAgrees, InCall, Waiting
    <3> QED
      BY <1>2, <2>1, <3>2 DEF OneAtATime, OneRequest, PanelAgrees, InCall
  <2> QED
    BY <1>2, <2>3, <2>4, <2>5 DEF PanelIInv, PanelAgrees
<1>4. CASE roomRef # c /\ UNCHANGED <<panel, roomRef>>
  <2>1. PanelTypeOK'
    BY <1>1, <1>2, <1>4 DEF PanelTypeOK
  <2>2. Ends'
    BY <1>2, <1>4 DEF PanelIInv, Ends, InCall
  <2>3. ASSUME mounted, ~crossed PROVE OneAtATime' /\ PanelAgrees'
    BY <1>2, <1>4, <2>3 DEF PanelIInv, OneAtATime, OneRequest, PanelAgrees, InCall
  <2> QED
    BY <1>2, <2>1, <2>2, <2>3 DEF PanelIInv, PanelAgrees
<1> QED
  BY <1>3, <1>4 DEF Disconnected, OnDisconnected

LEMMA WaversStep == ASSUME PanelIInv, NEW c \in DOMAIN conn, Wavers(c) PROVE PanelIInv'
<1>1. PanelTypeOK
  BY DEF PanelIInv
<1>2. /\ UNCHANGED <<calls, invite, page, mounted, roomRef, conn, ended, asking, crossed>>
      /\ failures' \in 0..MaxFailures
  BY <1>1, PanelTyped DEF Wavers, serverVars, PanelFault, NoFailure, PanelTypeOK
<1>3. /\ panel' \in PanelState /\ InCall /\ InCall' /\ panel'.room = panel.room
  BY <1>1 DEF Wavers, PanelTypeOK, PanelState, InCall
<1>4. PanelTypeOK'
  BY <1>1, <1>2, <1>3 DEF PanelTypeOK
<1>5. Ends'
  BY <1>2, <1>3 DEF PanelIInv, Ends
<1>6. ASSUME mounted, ~crossed PROVE OneAtATime' /\ PanelAgrees'
  <2>1. asking = {} /\ \A d \in DOMAIN conn : ~Waiting(conn[d])
    BY <1>3, <1>6 DEF PanelIInv, OneAtATime, OneRequest, InCall
  <2>2. OneAtATime'
    BY <1>2, <2>1 DEF OneAtATime, OneRequest, Waiting
  <2>3. PanelAgrees'
    BY <1>2, <1>3, <1>6 DEF PanelIInv, PanelAgrees
  <2> QED
    BY <2>2, <2>3
<1> QED
  BY <1>2, <1>4, <1>5, <1>6 DEF PanelIInv, PanelAgrees

LEMMA BreaksStep == ASSUME PanelIInv, NEW c \in DOMAIN conn, Breaks(c) PROVE PanelIInv'
<1>1. PanelTypeOK
  BY DEF PanelIInv
<1>2. /\ UNCHANGED <<calls, invite, page, mounted, panel, roomRef, asking, crossed>>
      /\ failures' \in 0..MaxFailures
      /\ conn' = Closed({c}) /\ ended' = ended \cup {c} /\ conn[c].pc = "live"
  BY <1>1, PanelTyped DEF Breaks, serverVars, PanelFault, NoFailure, PanelTypeOK
<1>3. /\ conn' \in Seq(Connection) /\ Len(conn') = Len(conn) /\ DOMAIN conn' = DOMAIN conn
      /\ conn'[c].pc = "closed"
      /\ \A d \in DOMAIN conn : d # c => conn'[d] = conn[d]
  BY <1>1, <1>2, ClosedIs
<1>4. PanelTypeOK'
  BY <1>1, <1>2, <1>3 DEF PanelTypeOK
<1>5. mounted /\ ~crossed => InCall /\ panel.room = c /\ roomRef = c
  BY <1>2 DEF PanelIInv, PanelAgrees
<1>6. Ends'
  <2>1. \A d \in ended : d # c /\ d \in DOMAIN conn
    BY <1>1, <1>2 DEF PanelIInv, Ends, PanelTypeOK
  <2> QED
    BY <1>2, <1>3, <1>5, <2>1 DEF PanelIInv, Ends, InCall
<1>7. ASSUME mounted, ~crossed PROVE OneAtATime' /\ PanelAgrees'
  <2>1. OneAtATime'
    BY <1>2, <1>3, <1>7 DEF PanelIInv, OneAtATime, OneRequest, Waiting
  <2>2. PanelAgrees'
    BY <1>2, <1>3, <1>5, <1>7 DEF PanelIInv, PanelAgrees, InCall
  <2> QED
    BY <2>1, <2>2
<1> QED
  BY <1>2, <1>4, <1>6, <1>7 DEF PanelIInv, PanelAgrees

LEMMA LeaveStep == ASSUME PanelIInv, Leave PROVE PanelIInv'
<1> DEFINE mine == LiveOf({panel.room} \cap DOMAIN conn)
<1>1. PanelTypeOK /\ CurrentRoom \in Room
  BY PanelTyped DEF PanelIInv
<1>2. /\ UNCHANGED <<page, mounted, asking, crossed>> /\ mounted /\ InCall
      /\ conn' = Closed(mine) /\ ended' = ended \cup mine /\ roomRef' = 0
  BY DEF Leave
<1>3. /\ mine \subseteq DOMAIN conn
      /\ \A d \in DOMAIN conn : conn[d].pc = "live" /\ d = panel.room => d \in mine
  BY DEF LiveOf
<1> HIDE DEF mine
<1>4. panel' \in PanelState /\ panel'.status = "idle"
  BY <1>1, ResetIs DEF Leave
<1>5. calls' \in [last : Room, on : BOOLEAN] /\ invite' \in Room /\ failures' \in 0..MaxFailures
  <2>1. /\ calls \in [last : Room, on : BOOLEAN] /\ invite \in Room /\ 0 \in Room
        /\ failures \in 0..MaxFailures
    BY <1>1, PanelTyped DEF PanelTypeOK
  <2>2. \/ calls' = [calls EXCEPT !.on = FALSE] /\ invite' = 0
        \/ calls' = calls /\ invite' = invite
    BY DEF Leave, serverVars
  <2>3. failures' \in 0..MaxFailures
    BY <2>1, PanelTyped, <1>1 DEF Leave, PanelFault, NoFailure
  <2> QED
    BY <2>1, <2>2, <2>3
<1>6. /\ conn' \in Seq(Connection) /\ Len(conn') = Len(conn) /\ DOMAIN conn' = DOMAIN conn
      /\ \A d \in DOMAIN conn :
            /\ d \in mine => conn'[d].pc = "closed"
            /\ d \notin mine => conn'[d] = conn[d]
            /\ conn[d].pc = "closed" => conn'[d].pc = "closed"
  BY <1>1, <1>2, ClosedIs
<1>7. 0 \in 0..MaxConns /\ 0 \notin DOMAIN conn
  BY <1>1, PanelTyped
<1>8. PanelTypeOK'
  BY <1>1, <1>2, <1>3, <1>4, <1>5, <1>6, <1>7 DEF PanelTypeOK
<1>9. Ends'
  BY <1>1, <1>2, <1>3, <1>6, <1>7 DEF PanelIInv, Ends, PanelTypeOK
<1>10. ASSUME ~crossed PROVE OneAtATime' /\ PanelAgrees'
  <2>1. asking = {} /\ \A d \in DOMAIN conn : ~Waiting(conn[d])
    BY <1>2, <1>10 DEF PanelIInv, OneAtATime, OneRequest, InCall
  <2>2. \A d \in DOMAIN conn : conn'[d].pc # "live" /\ ~Waiting(conn'[d])
    BY <1>2, <1>3, <1>6, <1>10, <2>1 DEF PanelIInv, PanelAgrees, Waiting
  <2> QED
    BY <1>2, <1>4, <1>6, <2>1, <2>2 DEF OneAtATime, OneRequest, PanelAgrees, InCall
<1> QED
  BY <1>2, <1>8, <1>9, <1>10 DEF PanelIInv, PanelAgrees

LEMMA UnmountStep == ASSUME PanelIInv, Unmount PROVE PanelIInv'
<1> DEFINE mine == LiveOf({roomRef} \cap DOMAIN conn)
<1>1. PanelTypeOK
  BY DEF PanelIInv
<1>2. /\ UNCHANGED <<calls, invite, page, panel, asking, crossed, failures>>
      /\ mounted' = FALSE
      /\ conn' = Closed(mine) /\ ended' = ended \cup mine /\ roomRef' = 0
  BY DEF Unmount, serverVars
<1>3. mine \subseteq DOMAIN conn
  BY DEF LiveOf
<1> HIDE DEF mine
<1>4. /\ conn' \in Seq(Connection) /\ Len(conn') = Len(conn) /\ DOMAIN conn' = DOMAIN conn
      /\ \A d \in DOMAIN conn :
            /\ d \in mine => conn'[d].pc = "closed"
            /\ conn[d].pc = "closed" => conn'[d].pc = "closed"
  BY <1>1, <1>2, ClosedIs
<1>5. 0 \in 0..MaxConns
  BY <1>1, PanelTyped
<1>6. PanelTypeOK'
  BY <1>1, <1>2, <1>3, <1>4, <1>5 DEF PanelTypeOK
<1>7. Ends'
  BY <1>1, <1>2, <1>3, <1>4 DEF PanelIInv, Ends, PanelTypeOK
<1> QED
  BY <1>2, <1>6, <1>7 DEF PanelIInv, PanelAgrees

(* The page and the other side leave the panel alone.                      *)
LEMMA OutsideStep ==
    ASSUME PanelIInv, RefreshPage \/ OtherCalls \/ OtherEnds PROVE PanelIInv'
<1>1. PanelTypeOK
  BY DEF PanelIInv
<1>2. UNCHANGED <<mounted, panel, roomRef, conn, ended, asking, crossed, failures>>
  BY DEF RefreshPage, OtherCalls, OtherEnds
<1>3. /\ calls' \in [last : Room, on : BOOLEAN] /\ invite' \in Room
      /\ page' \in [room : Room, invite : Room]
  <2>1. CASE RefreshPage
    BY <1>1, <2>1, PanelTyped DEF RefreshPage, PanelTypeOK, serverVars
  <2>2. CASE OtherCalls
    <3>1. calls.last + 1 \in Room
      BY <1>1, <2>2, PanelTyped DEF OtherCalls, Room
    <3> QED
      BY <1>1, <2>2, <3>1 DEF OtherCalls, PanelTypeOK
  <2>3. CASE OtherEnds
    BY <1>1, <2>3, PanelTyped DEF OtherEnds, PanelTypeOK
  <2> QED
    BY <2>1, <2>2, <2>3
<1>4. PanelTypeOK'
  BY <1>1, <1>2, <1>3 DEF PanelTypeOK
<1>5. Ends'
  BY <1>2 DEF PanelIInv, Ends, InCall
<1>6. ASSUME mounted, ~crossed PROVE OneAtATime' /\ PanelAgrees'
  BY <1>2, <1>6 DEF PanelIInv, OneAtATime, OneRequest, PanelAgrees, InCall
<1> QED
  BY <1>2, <1>4, <1>5, <1>6 DEF PanelIInv, PanelAgrees

LEMMA PanelContinues == PanelIInv /\ [PanelNext]_panelVars => PanelIInv'
<1> SUFFICES ASSUME PanelIInv, [PanelNext]_panelVars PROVE PanelIInv'
  OBVIOUS
<1>1. CASE UNCHANGED panelVars
  <2>1. UNCHANGED <<calls, invite, page, mounted, panel, roomRef, conn, ended, asking,
                    crossed, failures>>
    BY <1>1 DEF panelVars, serverVars
  <2>2. PanelTypeOK' /\ Ends'
    BY <2>1 DEF PanelIInv, PanelTypeOK, Ends, InCall
  <2> QED
    BY <2>1, <2>2 DEF PanelIInv, OneAtATime, OneRequest, PanelAgrees, InCall
<1>2. CASE PanelNext
  BY <1>2, StartStep, JoinStep, TryAgainStep, ServeStep, AnsweredStep, RespondStep,
     TokenStep, ConnectedStep, FailedStep, DisconnectedStep, WaversStep, BreaksStep,
     LeaveStep, UnmountStep, OutsideStep DEF PanelNext
<1> QED
  BY <1>1, <1>2

(* The server's rooms, the connections and what is asked keep their types. *)
THEOREM PanelTypeCorrect == PanelSpec => []PanelTypeOK
<1>1. PanelIInv => PanelTypeOK
  BY DEF PanelIInv
<1> QED
  BY <1>1, PanelBegins, PanelContinues, PTL DEF PanelSpec

(* While the page is open and connects once at a time, the panel shows the *)
(* call there is, in whatever order answers, second attempts, Disconnected *)
(* events and refreshes come, for any number of calls and connections.     *)
THEOREM PanelStaysWithCall == PanelSpec => []PanelAgrees
<1>1. PanelIInv => PanelAgrees
  BY DEF PanelIInv
<1> QED
  BY <1>1, PanelBegins, PanelContinues, PTL DEF PanelSpec

-----------------------------------------------------------------------------
(* Conversations.                                                          *)

(* What a handler carries: the messages it found unread are its profile's, *)
(* and one that is barred has a block to meet and is not past its check.   *)
HandlerCarries(state) ==
    /\ state.pc = "read" => \A m \in state.todo : To(m, state.who)
    /\ state.barred => blocks # {}
    /\ state.pc \in {"send", "open"} => ~state.barred

Mail ==
    /\ msg \in [Message -> MessageRow]
    /\ delivered \in SUBSET Message
    /\ readBy \in SUBSET Message
    /\ cursor \in [Profile -> Message \cup {NoOne}]
    /\ ReadIsDelivered /\ CursorIsRead

Blocking ==
    /\ blockedBy \in Profile \cup {NoOne}
    /\ blocks \in SUBSET Profile
    /\ MarkedIsBlocked

Rest ==
    /\ started \in BOOLEAN /\ lastAt \in 0..MaxTime
    /\ clock \in 1..MaxTime /\ overlapped \in BOOLEAN

Handlers ==
    /\ handler \in [ThreadRequest -> HandlerState]
    /\ \A r \in ThreadRequest : HandlerCarries(handler[r])

MailIInv == Mail /\ Blocking /\ Rest /\ Handlers

LEMMA IdleTyped == AtRest \in HandlerState /\ HandlerCarries(AtRest)
BY DEF AtRest, HandlerState, HandlerCarries

LEMMA InitInv == ThreadInit => MailIInv
<1> SUFFICES ASSUME ThreadInit PROVE MailIInv
  OBVIOUS
<1>1. Mail
  BY DEF ThreadInit, Mail, MessageRow, ReadIsDelivered, CursorIsRead, Unsent
<1>2. Blocking
  BY DEF ThreadInit, Blocking, MarkedIsBlocked
<1>3. Rest
  <2>1. started = FALSE /\ lastAt = 0 /\ clock = 1 /\ overlapped = FALSE
    BY DEF ThreadInit
  <2>2. 0 \in 0..MaxTime /\ 1 \in 1..MaxTime
    BY ClockAssumption
  <2> QED
    BY <2>1, <2>2 DEF Rest
<1>4. ASSUME NEW r \in ThreadRequest PROVE handler[r] = AtRest
  BY DEF ThreadInit
<1>5. Handlers
  <2>1. handler \in [ThreadRequest -> HandlerState]
    BY IdleTyped DEF ThreadInit
  <2>2. \A r \in ThreadRequest : HandlerCarries(handler[r])
    BY <1>4, IdleTyped
  <2> QED
    BY <2>1, <2>2 DEF Handlers
<1> QED
  BY <1>1, <1>2, <1>3, <1>5 DEF MailIInv

(* What a handler carries is still so when messages stay with their        *)
(* recipients and blocks stay as they are.                                 *)
LEMMA StillCarries ==
    ASSUME NEW state \in HandlerState, HandlerCarries(state), UNCHANGED blocks,
           \A n \in Message, p \in Profile : To(n, p) => To(n, p)'
    PROVE  /\ state.pc = "read" => \A n \in state.todo : To(n, state.who)'
           /\ state.barred => blocks' # {}
           /\ state.pc \in {"send", "open"} => ~state.barred
<1>1. state.pc = "read" =>
        state.todo \in SUBSET Message /\ state.who \in Profile
  BY DEF HandlerState, AtRest
<1> QED
  BY <1>1 DEF HandlerCarries

(* A handler moves on with a state that carries what it should.            *)
LEMMA HandlerMoves ==
    ASSUME MailIInv, NEW r \in ThreadRequest, NEW s \in HandlerState, HandlerCarries(s),
           Goes(r, s), UNCHANGED blocks,
           \A n \in Message, p \in Profile : To(n, p) => To(n, p)'
    PROVE  Handlers'
<1>1. handler' \in [ThreadRequest -> HandlerState]
  BY DEF MailIInv, Handlers, Goes
<1>2. ASSUME NEW q \in ThreadRequest PROVE HandlerCarries(handler[q])'
  <2>1. handler'[q] = IF q = r THEN s ELSE handler[q]
    BY DEF MailIInv, Handlers, Goes
  <2>2. PICK state \in HandlerState : handler'[q] = state /\ HandlerCarries(state)
    BY <2>1 DEF MailIInv, Handlers
  <2>3. /\ state.pc = "read" => \A n \in state.todo : To(n, state.who)'
        /\ state.barred => blocks' # {}
        /\ state.pc \in {"send", "open"} => ~state.barred
    BY <2>2, StillCarries
  <2> QED
    BY <2>2, <2>3 DEF HandlerCarries, To
<1> QED
  BY <1>1, <1>2 DEF Handlers

LEMMA SameMessages ==
    ASSUME UNCHANGED msg
    PROVE  \A n \in Message, p \in Profile : To(n, p) => To(n, p)'
BY DEF To

(* The states of the handlers that only read.                              *)
LEMMA BeginCarries ==
    ASSUME NEW r \in ThreadRequest, NEW p \in Profile,
           NEW pc \in {"openCheck", "interact", "deliver", "settle",
                       "unblock", "read"},
           NEW todo \in SUBSET Message,
           pc = "read" => \A m \in todo : To(m, p),
           MailIInv, Begins(r, p, pc, todo), UNCHANGED blocks,
           \A n \in Message, q \in Profile : To(n, q) => To(n, q)'
    PROVE  Handlers' /\ overlapped' \in BOOLEAN
<1> DEFINE s == [pc |-> pc, who |-> p, at |-> 0, todo |-> todo,
                 barred |-> blocks # {} /\ pc \in {"openCheck", "interact"}]
<1>1. s \in HandlerState
  BY ClockAssumption DEF HandlerState
<1>2. HandlerCarries(s)
  BY DEF HandlerCarries
<1>3. Goes(r, s)
  BY DEF Begins
<1>4. overlapped' \in BOOLEAN
  BY DEF Begins, MailIInv, Rest
<1> HIDE DEF s
<1> QED
  BY <1>1, <1>2, <1>3, <1>4, HandlerMoves

LEMMA ReadOnlySteps ==
    ASSUME MailIInv, NEW r \in ThreadRequest, NEW p \in Profile,
           \/ OpenRead(r, p) \/ SendRead(r, p)
           \/ ReadFind(r, p) \/ DeliverFind(r, p) \/ UnblockRead(r, p)
    PROVE  MailIInv'
<1>1. UNCHANGED <<started, lastAt, blockVars, msg, receiptVars, clock>>
  BY DEF OpenRead, SendRead, ReadFind, DeliverFind, UnblockRead
<1>2. Handlers' /\ overlapped' \in BOOLEAN
  <2>1. UNCHANGED <<blocks, msg>>
    BY <1>1 DEF blockVars
  <2>2. Unread(p) \in SUBSET Message /\ \A m \in Unread(p) : To(m, p)
    BY DEF Unread
  <2>3. Undelivered(p) \in SUBSET Message
    BY DEF Undelivered
  <2>4. CASE OpenRead(r, p)
    BY <2>1, <2>4, SameMessages, BeginCarries DEF OpenRead
  <2>5. CASE SendRead(r, p)
    BY <2>1, <2>5, SameMessages, BeginCarries DEF SendRead
  <2>6. CASE ReadFind(r, p)
    BY <2>1, <2>2, <2>6, SameMessages, BeginCarries DEF ReadFind
  <2>7. CASE DeliverFind(r, p)
    BY <2>1, <2>3, <2>7, SameMessages, BeginCarries DEF DeliverFind
  <2>8. CASE UnblockRead(r, p)
    BY <2>1, <2>8, SameMessages, BeginCarries DEF UnblockRead
  <2> QED
    BY <2>4, <2>5, <2>6, <2>7, <2>8
<1>3. Mail' /\ Blocking'
  BY <1>1 DEF MailIInv, Mail, Blocking, ReadIsDelivered, CursorIsRead, To,
              MarkedIsBlocked, blockVars, receiptVars
<1>4. Rest'
  BY <1>1, <1>2 DEF MailIInv, Rest
<1> QED
  BY <1>2, <1>3, <1>4 DEF MailIInv

(* A handler that is not idle holds a profile.                             *)
LEMMA BusyTyped ==
    ASSUME MailIInv, NEW r \in ThreadRequest, ~Working(r, "idle")
    PROVE  /\ handler[r] \in HandlerState /\ handler[r].who \in Profile
           /\ handler[r].todo \in SUBSET Message
           /\ handler[r].at \in 0..MaxTime /\ handler[r].barred \in BOOLEAN
           /\ handler[r] = [pc |-> handler[r].pc, who |-> handler[r].who,
                         at |-> handler[r].at, todo |-> handler[r].todo,
                         barred |-> handler[r].barred]
           /\ Working(r, "send") => handler[r].at \in 1..MaxTime
           /\ HandlerCarries(handler[r])
BY DEF MailIInv, Handlers, HandlerState, Working, AtRest

(* Past its check a handler is not barred; a time it took is carried on.   *)
LEMMA MovesTyped ==
    ASSUME MailIInv, NEW r \in ThreadRequest, ~Working(r, "idle"),
           NEW pc, NEW t, Moves(r, pc, t),
           \/ pc = "open" /\ t = 0 /\ blocks = {}
           \/ pc = "send" /\ t \in 1..MaxTime /\ blocks = {}
           \/ pc = "refresh" /\ t \in 0..MaxTime,
           UNCHANGED <<blocks, msg>>
    PROVE  Handlers'
<1> DEFINE s == [pc |-> pc, who |-> handler[r].who, at |-> t, todo |-> {},
                 barred |-> handler[r].barred]
<1>1. handler[r].who \in Profile /\ handler[r].barred \in BOOLEAN
      /\ (handler[r].barred => blocks # {})
  BY BusyTyped DEF HandlerCarries
<1>2. s \in HandlerState
  BY <1>1, ClockAssumption DEF HandlerState
<1>3. HandlerCarries(s)
  BY <1>1 DEF HandlerCarries
<1>4. Goes(r, s)
  BY DEF Moves
<1> HIDE DEF s
<1> QED
  BY <1>2, <1>3, <1>4, SameMessages, HandlerMoves

LEMMA CheckSteps ==
    ASSUME MailIInv, NEW r \in ThreadRequest,
           \/ OpenCheck(r) \/ SendCheck(r) \/ RefreshRead(r) \/ Die(r)
           \/ Open(r) \/ RefreshWrite(r)
    PROVE  MailIInv'
<1>1. UNCHANGED <<blockVars, msg, receiptVars, clock>>
  BY DEF OpenCheck, SendCheck, RefreshRead, Die, Open, RefreshWrite
<1>2. ~Working(r, "idle")
  BY DEF OpenCheck, SendCheck, RefreshRead, Die, Open, RefreshWrite, Working
<1>3. UNCHANGED <<blocks, msg>>
  BY <1>1 DEF blockVars
<1>4. Rest'
  BY <1>1, <1>2, BusyTyped DEF MailIInv, Rest, OpenCheck, SendCheck,
                RefreshRead, Die, Open, RefreshWrite
<1>5. Handlers'
  <2>1. CASE Goes(r, AtRest)
    BY <1>3, <2>1, IdleTyped, SameMessages, HandlerMoves
  <2>2. CASE OpenCheck(r) /\ ~Goes(r, AtRest)
    BY <1>2, <1>3, <2>2, MovesTyped DEF OpenCheck, CanInteract
  <2>3. CASE SendCheck(r) /\ ~Goes(r, AtRest)
    <3>1. CreatedAt \in 1..MaxTime
      BY DEF CreatedAt, MailIInv, Rest
    <3> QED
      BY <1>2, <1>3, <2>3, <3>1, MovesTyped DEF SendCheck, CanInteract
  <2>4. CASE RefreshRead(r)
    BY <1>2, <1>3, <2>4, MovesTyped DEF RefreshRead
  <2> QED
    BY <2>1, <2>2, <2>3, <2>4 DEF Die, Open, RefreshWrite
<1>6. Mail' /\ Blocking'
  BY <1>1 DEF MailIInv, Mail, Blocking, ReadIsDelivered, CursorIsRead, To,
              MarkedIsBlocked, blockVars, receiptVars
<1> QED
  BY <1>4, <1>5, <1>6 DEF MailIInv

(* The message a send writes, in the place of one not sent yet.            *)
LEMMA SendStep ==
    ASSUME MailIInv, NEW r \in ThreadRequest, NEW m \in Message, Send(r, m)
    PROVE  MailIInv'
<1>1. /\ Working(r, "send") /\ ~Working(r, "idle")
      /\ Goes(r, AtRest) /\ ~msg[m].sent
      /\ UNCHANGED <<started, blockVars, receiptVars, clock, overlapped>>
  BY DEF Send, Working
<1>2. handler[r].who \in Profile /\ handler[r].at \in 1..MaxTime
  BY <1>1, BusyTyped
<1> DEFINE row == [sent |-> TRUE, from |-> handler[r].who, at |-> handler[r].at,
                   read |-> FALSE, deleted |-> {}]
<1>3. row \in MessageRow /\ row.read = FALSE
  BY <1>2 DEF MessageRow
<1>4. msg' = [msg EXCEPT ![m] = row]
  BY DEF Send
<1>5. ~msg[m].read
  <2>1. msg[m] \in MessageRow
    BY DEF MailIInv, Mail
  <2>2. msg[m] = Unsent
    BY <1>1, <2>1 DEF MessageRow
  <2> QED
    BY <2>2 DEF Unsent
<1> HIDE DEF row
<1>6. \A n \in Message : msg'[n] = IF n = m THEN row ELSE msg[n]
  BY <1>4 DEF MailIInv, Mail
<1>7. Mail'
  <2>1. msg' \in [Message -> MessageRow]
    BY <1>3, <1>4 DEF MailIInv, Mail
  <2>2. ReadIsDelivered'
    BY <1>1, <1>3, <1>5, <1>6 DEF MailIInv, Mail, ReadIsDelivered, receiptVars
  <2>3. CursorIsRead'
    <3>1. ASSUME NEW p \in Profile, cursor[p] # NoOne
          PROVE  (msg[cursor[p]].read /\ To(cursor[p], p))'
      <4>1. cursor[p] \in Message /\ msg[cursor[p]].read /\ To(cursor[p], p)
        BY <3>1 DEF MailIInv, Mail, CursorIsRead
      <4>2. msg'[cursor[p]] = msg[cursor[p]] /\ cursor' = cursor
        BY <1>1, <1>5, <1>6, <4>1 DEF receiptVars
      <4> QED
        BY <4>1, <4>2 DEF To
    <3> QED
      BY <1>1, <3>1 DEF CursorIsRead, receiptVars
  <2> QED
    BY <1>1, <2>1, <2>2, <2>3 DEF MailIInv, Mail, receiptVars
<1>8. Handlers'
  <2>1. \A n \in Message, p \in Profile : To(n, p) => To(n, p)'
    BY <1>1, <1>6 DEF To
  <2> QED
    BY <1>1, <2>1, IdleTyped, HandlerMoves DEF blockVars
<1>9. Blocking' /\ Rest'
  BY <1>1, <1>2 DEF MailIInv, Blocking, Rest, MarkedIsBlocked, blockVars, Send
<1> QED
  BY <1>7, <1>8, <1>9 DEF MailIInv

(* A row that is marked read, or hidden from somebody, stays a row.        *)
LEMMA RowChanges ==
    ASSUME NEW row \in MessageRow, row.sent, NEW p \in Profile
    PROVE  /\ [row EXCEPT !.read = TRUE] \in MessageRow
           /\ [row EXCEPT !.read = TRUE].read
           /\ [row EXCEPT !.read = TRUE].sent
           /\ [row EXCEPT !.read = TRUE].from = row.from
           /\ [row EXCEPT !.deleted = @ \cup {p}] \in MessageRow
           /\ [row EXCEPT !.deleted = @ \cup {p}].read = row.read
           /\ [row EXCEPT !.deleted = @ \cup {p}].sent
           /\ [row EXCEPT !.deleted = @ \cup {p}].from = row.from
<1>1. row \in [sent : {TRUE}, from : Profile, at : 1..MaxTime,
               read : BOOLEAN, deleted : SUBSET Profile]
  <2>1. ~Unsent.sent
    BY DEF Unsent
  <2> QED
    BY <2>1 DEF MessageRow
<1>2. /\ [row EXCEPT !.read = TRUE] \in
            [sent : {TRUE}, from : Profile, at : 1..MaxTime,
             read : BOOLEAN, deleted : SUBSET Profile]
      /\ [row EXCEPT !.deleted = @ \cup {p}] \in
            [sent : {TRUE}, from : Profile, at : 1..MaxTime,
             read : BOOLEAN, deleted : SUBSET Profile]
  BY <1>1
<1>3. [row EXCEPT !.read = TRUE].read
  BY <1>1
<1> QED
  BY <1>1, <1>2, <1>3 DEF MessageRow

LEMMA ReadWriteStep ==
    ASSUME MailIInv, NEW r \in ThreadRequest, ReadWrite(r)
    PROVE  MailIInv'
<1> DEFINE todo == handler[r].todo
           p == handler[r].who
<1>1. /\ Working(r, "read") /\ ~Working(r, "idle") /\ Goes(r, AtRest)
      /\ UNCHANGED <<started, lastAt, blockVars, clock, overlapped>>
  BY DEF ReadWrite, Working
<1>2. todo \in SUBSET Message /\ p \in Profile /\ \A m \in todo : To(m, p)
  BY <1>1, BusyTyped DEF HandlerCarries, Working
<1>3. /\ msg' = [m \in Message |-> IF m \in todo
                    THEN [msg[m] EXCEPT !.read = TRUE] ELSE msg[m]]
      /\ delivered' = delivered \cup todo /\ readBy' = readBy \cup todo
  BY DEF ReadWrite, ReceiptsOfRead
<1>4. PICK c \in todo : cursor' = [cursor EXCEPT ![p] = c]
  BY DEF ReadWrite, Newest
<1> HIDE DEF todo, p
<1>5. ASSUME NEW m \in Message
      PROVE  /\ msg'[m] \in MessageRow
             /\ msg'[m].read <=> (msg[m].read \/ m \in todo)
             /\ msg[m].sent => msg'[m].sent /\ msg'[m].from = msg[m].from
  <2>1. msg[m] \in MessageRow /\ msg'[m] =
            IF m \in todo THEN [msg[m] EXCEPT !.read = TRUE] ELSE msg[m]
    BY <1>3 DEF MailIInv, Mail
  <2>2. m \in todo => msg[m].sent
    BY <1>2 DEF To
  <2> QED
    BY <1>2, <2>1, <2>2, RowChanges
<1>6. \A m \in Message, q \in Profile : To(m, q) => To(m, q)'
  BY <1>5 DEF To
<1>7. Mail'
  <2>1. msg' \in [Message -> MessageRow]
    BY <1>3, <1>5
  <2>2. ReadIsDelivered'
    BY <1>2, <1>3, <1>5 DEF MailIInv, Mail, ReadIsDelivered
  <2>3. cursor' \in [Profile -> Message \cup {NoOne}]
    BY <1>2, <1>4 DEF MailIInv, Mail
  <2>4. ASSUME NEW q \in Profile, cursor'[q] # NoOne
        PROVE  (msg[cursor[q]].read /\ To(cursor[q], q))'
    <3>1. cursor'[q] = IF q = p THEN c ELSE cursor[q]
      BY <1>4 DEF MailIInv, Mail
    <3>2. cursor'[q] \in Message /\ To(cursor'[q], q)
          /\ (msg[cursor'[q]].read \/ cursor'[q] \in todo)
      BY <1>2, <2>4, <3>1 DEF MailIInv, Mail, CursorIsRead
    <3> QED
      BY <1>5, <3>2 DEF To
  <2>5. CursorIsRead'
    BY <2>4 DEF CursorIsRead
  <2>6. delivered' \in SUBSET Message /\ readBy' \in SUBSET Message
    BY <1>2, <1>3 DEF MailIInv, Mail
  <2> QED
    BY <2>1, <2>2, <2>3, <2>5, <2>6 DEF Mail
<1>8. Handlers'
  BY <1>1, <1>6, IdleTyped, HandlerMoves DEF blockVars
<1>9. Blocking' /\ Rest'
  BY <1>1 DEF MailIInv, Blocking, Rest, MarkedIsBlocked, blockVars
<1> QED
  BY <1>7, <1>8, <1>9 DEF MailIInv

LEMMA DeliverWriteStep ==
    ASSUME MailIInv, NEW r \in ThreadRequest, DeliverWrite(r)
    PROVE  MailIInv'
<1>1. /\ ~Working(r, "idle") /\ Goes(r, AtRest)
      /\ delivered' = delivered \cup handler[r].todo
      /\ UNCHANGED <<started, lastAt, blockVars, msg, readBy, cursor, clock,
                     overlapped>>
  BY DEF DeliverWrite, Working
<1>2. handler[r].todo \in SUBSET Message
  BY <1>1, BusyTyped
<1>3. Mail'
  BY <1>1, <1>2 DEF MailIInv, Mail, ReadIsDelivered, CursorIsRead, To
<1>4. Handlers'
  BY <1>1, IdleTyped, SameMessages, HandlerMoves DEF blockVars
<1>5. Blocking' /\ Rest'
  BY <1>1 DEF MailIInv, Blocking, Rest, MarkedIsBlocked, blockVars
<1> QED
  BY <1>3, <1>4, <1>5 DEF MailIInv

LEMMA DeleteStep ==
    ASSUME MailIInv, NEW r \in ThreadRequest, NEW p \in Profile, NEW m \in Message,
           Delete(r, p, m)
    PROVE  MailIInv'
<1>1. /\ msg[m].sent /\ Begins(r, p, "settle", {})
      /\ msg' = [msg EXCEPT ![m].deleted = @ \cup {p}]
      /\ UNCHANGED <<started, lastAt, blockVars, receiptVars, clock>>
  BY DEF Delete
<1>2. ASSUME NEW n \in Message
      PROVE  /\ msg'[n] \in MessageRow /\ msg'[n].read = msg[n].read
             /\ msg[n].sent => msg'[n].sent /\ msg'[n].from = msg[n].from
  <2>1. msg[n] \in MessageRow /\ msg'[n] =
            IF n = m THEN [msg[n] EXCEPT !.deleted = @ \cup {p}] ELSE msg[n]
    BY <1>1 DEF MailIInv, Mail
  <2>2. CASE n = m
    <3> DEFINE row == [msg[n] EXCEPT !.deleted = @ \cup {p}]
    <3>1. msg[n].sent /\ msg'[n] = row
      BY <1>1, <2>1, <2>2
    <3>2. row \in MessageRow /\ row.read = msg[n].read
          /\ row.sent /\ row.from = msg[n].from
      BY <2>1, <3>1, RowChanges
    <3> HIDE DEF row
    <3> QED
      BY <3>1, <3>2
  <2>3. CASE n # m
    BY <2>1, <2>3
  <2> QED
    BY <2>2, <2>3
<1>3. \A n \in Message, q \in Profile : To(n, q) => To(n, q)'
  BY <1>2 DEF To
<1>4. Mail'
  <2>1. msg' \in [Message -> MessageRow]
    <3>1. msg' = [n \in Message |-> msg'[n]]
      BY <1>1 DEF MailIInv, Mail
    <3> QED
      BY <1>2, <3>1
  <2>2. ReadIsDelivered'
    BY <1>1, <1>2 DEF MailIInv, Mail, ReadIsDelivered, receiptVars
  <2>3. CursorIsRead'
    <3>1. ASSUME NEW q \in Profile, cursor[q] # NoOne
          PROVE  (msg[cursor[q]].read /\ To(cursor[q], q))'
      <4>1. /\ cursor[q] \in Message /\ cursor' = cursor
            /\ msg[cursor[q]].read /\ To(cursor[q], q)
        BY <1>1, <3>1 DEF MailIInv, Mail, CursorIsRead, receiptVars
      <4> QED
        BY <1>2, <4>1 DEF To
    <3> QED
      BY <1>1, <3>1 DEF CursorIsRead, receiptVars
  <2> QED
    BY <1>1, <2>1, <2>2, <2>3 DEF MailIInv, Mail, receiptVars
<1>5. Handlers' /\ overlapped' \in BOOLEAN
  BY <1>1, <1>3, BeginCarries DEF blockVars
<1>6. Blocking' /\ Rest'
  BY <1>1, <1>5 DEF MailIInv, Blocking, Rest, MarkedIsBlocked, blockVars
<1> QED
  BY <1>4, <1>5, <1>6 DEF MailIInv

(* More blocks leave every handler with what it carries.                   *)
LEMMA BlockSteps ==
    ASSUME MailIInv, NEW p \in Profile, Block(p) \/ FeedBlock(p)
    PROVE  MailIInv'
<1>1. /\ blocks' = blocks \cup {p}
      /\ blockedBy' \in {blockedBy, p}
      /\ UNCHANGED <<started, lastAt, msg, receiptVars, handler, clock,
                     overlapped>>
  BY DEF Block, FeedBlock
<1>2. Mail'
  BY <1>1 DEF MailIInv, Mail, ReadIsDelivered, CursorIsRead, To, receiptVars
<1>3. Blocking'
  BY <1>1 DEF MailIInv, Blocking, MarkedIsBlocked
<1>4. Rest'
  BY <1>1 DEF MailIInv, Rest
<1>5. Handlers'
  BY <1>1 DEF MailIInv, Handlers, HandlerCarries, To
<1> QED
  BY <1>2, <1>3, <1>4, <1>5 DEF MailIInv

(* An unblock that clears the last block lifts the bar on everyone.        *)
LEMMA UnblockStep ==
    ASSUME MailIInv, NEW r \in ThreadRequest, Unblock(r)
    PROVE  MailIInv'
<1>1. /\ blocks' = blocks \ {handler[r].who} /\ blockedBy' = NoOne
      /\ handler' = [q \in ThreadRequest |->
                IF q = r THEN AtRest
                ELSE IF handler[q].barred /\ blocks' = {}
                     THEN [handler[q] EXCEPT !.barred = FALSE] ELSE handler[q]]
      /\ UNCHANGED <<started, lastAt, msg, receiptVars, clock, overlapped>>
  BY DEF Unblock, Unmarked
<1>2. Mail'
  BY <1>1 DEF MailIInv, Mail, ReadIsDelivered, CursorIsRead, To, receiptVars
<1>3. Blocking' /\ Rest'
  BY <1>1 DEF MailIInv, Blocking, MarkedIsBlocked, Rest
<1>4. ASSUME NEW q \in ThreadRequest
      PROVE  handler'[q] \in HandlerState /\ HandlerCarries(handler[q])'
  <2>1. CASE q = r
    <3>1. handler'[q] = AtRest
      BY <1>1, <2>1
    <3> QED
      BY <3>1, IdleTyped DEF HandlerCarries, AtRest
  <2>2. CASE q # r
    <3>1. PICK state \in HandlerState : handler[q] = state /\ HandlerCarries(state)
      BY DEF MailIInv, Handlers
    <3> DEFINE next == [state EXCEPT !.barred = FALSE]
    <3>2. CASE ~(state.barred /\ blocks' = {})
      <4>1. handler'[q] = state
        BY <1>1, <2>2, <3>1, <3>2
      <4> QED
        BY <1>1, <3>1, <3>2, <4>1 DEF HandlerCarries, To
    <3>3. CASE state.barred /\ blocks' = {}
      <4>1. state # AtRest
        BY <3>3 DEF AtRest
      <4>2. handler'[q] = next
        BY <1>1, <2>2, <3>1, <3>3
      <4>3. /\ next.pc = state.pc /\ next.who = state.who
            /\ next.todo = state.todo /\ ~next.barred
        BY <4>1 DEF HandlerState
      <4>4. next \in HandlerState
        BY <4>1 DEF HandlerState
      <4> HIDE DEF next
      <4> QED
        BY <1>1, <3>1, <4>2, <4>3, <4>4 DEF HandlerCarries, To
    <3> QED
      BY <3>2, <3>3
  <2> QED
    BY <2>1, <2>2
<1>5. Handlers'
  BY <1>1, <1>4 DEF Handlers
<1> QED
  BY <1>2, <1>3, <1>5 DEF MailIInv

-----------------------------------------------------------------------------
LEMMA NextInv == MailIInv /\ [ThreadNext]_threadVars => MailIInv'
<1> SUFFICES ASSUME MailIInv, [ThreadNext]_threadVars PROVE MailIInv'
  OBVIOUS
<1>1. ASSUME NEW r \in ThreadRequest, NEW p \in Profile,
             \/ OpenRead(r, p) \/ SendRead(r, p)
             \/ ReadFind(r, p) \/ DeliverFind(r, p) \/ UnblockRead(r, p)
      PROVE  MailIInv'
  BY <1>1, ReadOnlySteps
<1>2. ASSUME NEW r \in ThreadRequest,
             \/ OpenCheck(r) \/ SendCheck(r) \/ RefreshRead(r) \/ Die(r)
             \/ Open(r) \/ RefreshWrite(r)
      PROVE  MailIInv'
  BY <1>2, CheckSteps
<1>3. CASE Tick
  <2>1. UNCHANGED <<started, lastAt, blockVars, msg, receiptVars, handler,
                    overlapped>>
        /\ clock < MaxTime /\ clock' = clock + 1
    BY <1>3 DEF Tick
  <2>2. Mail' /\ Blocking' /\ Handlers'
    BY <2>1 DEF MailIInv, Mail, Blocking, Handlers, ReadIsDelivered, CursorIsRead,
                To, MarkedIsBlocked, HandlerCarries, blockVars, receiptVars
  <2>3. Rest'
    BY <2>1, ClockAssumption DEF MailIInv, Rest
  <2> QED
    BY <2>2, <2>3 DEF MailIInv
<1>4. CASE UNCHANGED threadVars
  BY <1>4 DEF MailIInv, Mail, Blocking, Rest, Handlers, ReadIsDelivered,
              CursorIsRead, To, MarkedIsBlocked, HandlerCarries, threadVars, blockVars,
              receiptVars
<1> QED
  BY <1>1, <1>2, <1>3, <1>4, SendStep, ReadWriteStep, DeliverWriteStep,
     DeleteStep, BlockSteps, UnblockStep DEF ThreadNext

LEMMA Invariant == ThreadSpec => []MailIInv
BY InitInv, NextInv, PTL DEF ThreadSpec

(* Rows and handlers stay well typed, for any pair, messages and requests  *)
(* (src/lib/conversation-service.ts).                                      *)
THEOREM MailTypeCorrect == ThreadSpec => []ThreadTypeOK
<1>1. MailIInv => ThreadTypeOK
  BY DEF MailIInv, Mail, Blocking, Rest, Handlers, ThreadTypeOK
<1> QED
  BY <1>1, Invariant, PTL

(* Read marks, read receipts and delivery receipts agree, whatever handlers *)
(* overlap (markConversationRead, markConversationDelivered).              *)
THEOREM ReadsAgree == ThreadSpec => []ReadIsDelivered
<1>1. MailIInv => ReadIsDelivered
  BY DEF MailIInv, Mail
<1> QED
  BY <1>1, Invariant, PTL

(* Cursors name read messages of their profile (markConversationRead).     *)
THEOREM CursorsAreRead == ThreadSpec => []CursorIsRead
<1>1. MailIInv => CursorIsRead
  BY DEF MailIInv, Mail
<1> QED
  BY <1>1, Invariant, PTL

(* Ticks, receipts and cursors agree (markConversationRead).               *)
THEOREM ReceiptsAlwaysAgree == ThreadSpec => []ReceiptsAgree
<1>1. MailIInv => ReceiptsAgree
  BY DEF MailIInv, Mail, ReceiptsAgree
<1> QED
  BY <1>1, Invariant, PTL

(* The block a thread shows is in force (setConversationBlock).            *)
THEOREM MarksAreBlocks == ThreadSpec => []MarkedIsBlocked
<1>1. MailIInv => MarkedIsBlocked
  BY DEF MailIInv, Blocking
<1> QED
  BY <1>1, Invariant, PTL

(* No request that began under a block that still stands gets to its write *)
(* (sendConversationMessage, startOrGetConversation).                      *)
THEOREM BlocksHold == ThreadSpec => []BlockKeepsOut
<1>1. MailIInv => BlockKeepsOut
  BY DEF MailIInv, Handlers, HandlerCarries, BlockKeepsOut, Working
<1> QED
  BY <1>1, Invariant, PTL

-----------------------------------------------------------------------------
(* The time in the inbox.  No time is ahead of the clock; and as long as   *)
(* requests come one after the other, the one that is under way holds a    *)
(* time that is as new as it has to be, and lastMessageAt is right unless  *)
(* a deletion is about to put it right.                                    *)
Past ==
    /\ \A m \in Message : msg[m].sent => msg[m].at <= clock
    /\ \A r \in ThreadRequest : Working(r, "send") => handler[r].at <= clock

Alone ==
    \A q, r \in ThreadRequest : Working(q, "idle") \/ Working(r, "idle") \/ q = r

Holds(r) ==
    /\ Working(r, "refresh") => IsLast(handler[r].at)
    /\ Working(r, "send") =>
        \A m \in Message : msg[m].sent => msg[m].at <= handler[r].at

Settled(r) == ~Working(r, "settle") /\ ~Working(r, "refresh")
Newer == (\A r \in ThreadRequest : Settled(r)) => IsLast(lastAt)

InOrder == ~overlapped => Alone /\ (\A r \in ThreadRequest : Holds(r)) /\ Newer

TimeInv == MailIInv /\ Past /\ InOrder

(* What a step that leaves the times and the deletions alone does not      *)
(* disturb.                                                                *)
SameTimes ==
    \A m \in Message : /\ msg'[m].sent = msg[m].sent
                       /\ msg'[m].at = msg[m].at
                       /\ msg'[m].deleted = msg[m].deleted

LEMMA LastStays ==
    ASSUME SameTimes, NEW t
    PROVE  IsLast(t) <=>
             /\ \A m \in Message : msg'[m].sent /\ msg'[m].deleted # Profile =>
                    msg'[m].at <= t
             /\ t = 0 \/ \E m \in Message :
                    msg'[m].sent /\ msg'[m].deleted # Profile /\ msg'[m].at = t
BY DEF SameTimes, IsLast, SentSoFar

LEMMA InitTimes == ThreadInit => Past /\ InOrder
<1> SUFFICES ASSUME ThreadInit PROVE Past /\ InOrder
  OBVIOUS
<1>1. \A m \in Message : ~msg[m].sent
  BY DEF ThreadInit, Unsent
<1>2. \A r \in ThreadRequest : Working(r, "idle") /\ ~Working(r, "send")
                         /\ ~Working(r, "refresh")
  BY DEF ThreadInit, Working, AtRest
<1>3. IsLast(lastAt)
  BY <1>1 DEF ThreadInit, IsLast, SentSoFar
<1> QED
  BY <1>1, <1>2, <1>3 DEF Past, InOrder, Alone, Holds, Newer

(* One request goes on while the times stay: it is the only one at work,   *)
(* the time it now holds is new enough, and t, which lastMessageAt becomes, *)
(* is right unless the request is about to put it right.                   *)
LEMMA OneGoes ==
    ASSUME TimeInv, NEW r \in ThreadRequest, NEW s, Goes(r, s), SameTimes,
           UNCHANGED clock, NEW t, lastAt' = t,
           ~overlapped' =>
                ~overlapped /\ \A q \in ThreadRequest : q # r => Working(q, "idle"),
           s.pc = "refresh" => IsLast(s.at),
           s.pc = "send" => s.at = clock,
           ~overlapped' /\ s.pc \notin {"settle", "refresh"} => IsLast(t)
    PROVE  Past' /\ InOrder'
<1>1. \A q \in ThreadRequest : handler'[q] = IF q = r THEN s ELSE handler[q]
  BY DEF TimeInv, MailIInv, Handlers, Goes
<1>2. \A q \in ThreadRequest : q # r => handler'[q] = handler[q]
  BY <1>1
<1>3. handler'[r] = s
  BY <1>1
<1>4. \A m \in Message : /\ msg'[m].sent <=> msg[m].sent
                         /\ msg'[m].at = msg[m].at
  BY DEF SameTimes
<1>5. Past'
  <2>1. \A m \in Message : msg'[m].sent => msg'[m].at <= clock'
    BY <1>4 DEF TimeInv, Past
  <2>2. ASSUME NEW q \in ThreadRequest, handler'[q].pc = "send"
        PROVE  handler'[q].at <= clock'
    <3>1. CASE q = r
      BY <1>3, <2>2, <3>1 DEF TimeInv, MailIInv, Rest
    <3>2. CASE q # r
      BY <1>2, <2>2, <3>2 DEF TimeInv, Past, Working
    <3> QED
      BY <3>1, <3>2
  <2> QED
    BY <2>1, <2>2 DEF Past, Working
<1>6. ASSUME ~overlapped'
      PROVE  Alone' /\ (\A q \in ThreadRequest : Holds(q)') /\ Newer'
  <2>1. \A q \in ThreadRequest : q # r => handler'[q].pc = "idle"
    BY <1>2, <1>6 DEF Working
  <2>2. Alone'
    BY <2>1 DEF Alone, Working
  <2>3. ASSUME NEW q \in ThreadRequest PROVE Holds(q)'
    <3>1. CASE q # r
      BY <2>1, <3>1 DEF Holds, Working
    <3>2. CASE q = r /\ s.pc = "refresh"
      <4>1. IsLast(s.at)
        BY <3>2
      <4>2. /\ \A m \in Message : msg'[m].sent /\ msg'[m].deleted # Profile =>
                    msg'[m].at <= s.at
            /\ s.at = 0 \/ \E m \in Message :
                    /\ msg'[m].sent /\ msg'[m].deleted # Profile
                    /\ msg'[m].at = s.at
        BY <4>1, LastStays
      <4> QED
        BY <1>3, <3>2, <4>2 DEF Holds, Working, IsLast, SentSoFar
    <3>3. CASE q = r /\ s.pc = "send"
      BY <1>3, <1>4, <3>3 DEF Holds, Working, TimeInv, Past
    <3>4. CASE q = r /\ s.pc \notin {"send", "refresh"}
      BY <1>3, <3>4 DEF Holds, Working
    <3> QED
      BY <3>1, <3>2, <3>3, <3>4
  <2>4. Newer'
    <3>1. CASE s.pc \in {"settle", "refresh"}
      BY <1>3, <3>1 DEF Newer, Settled, Working
    <3>2. CASE s.pc \notin {"settle", "refresh"}
      <4>1. IsLast(t)
        BY <1>6, <3>2
      <4>2. /\ \A m \in Message : msg'[m].sent /\ msg'[m].deleted # Profile =>
                    msg'[m].at <= t
            /\ t = 0 \/ \E m \in Message :
                    msg'[m].sent /\ msg'[m].deleted # Profile /\ msg'[m].at = t
        BY <4>1, LastStays
      <4> QED
        BY <4>2 DEF Newer, IsLast, SentSoFar
    <3> QED
      BY <3>1, <3>2
  <2> QED
    BY <2>2, <2>3, <2>4
<1> QED
  BY <1>5, <1>6 DEF InOrder

(* With one request at work at most, what a settled one leaves is right.   *)
LEMMA SettledIsLast ==
    ASSUME TimeInv, NEW r \in ThreadRequest, Settled(r), ~overlapped,
           \A q \in ThreadRequest : q # r => Working(q, "idle")
    PROVE  IsLast(lastAt)
<1>1. \A q \in ThreadRequest : Settled(q)
  BY DEF Settled, Working
<1> QED
  BY <1>1 DEF TimeInv, InOrder, Newer

LEMMA OthersIdle ==
    ASSUME TimeInv, NEW r \in ThreadRequest, ~Working(r, "idle"), ~overlapped
    PROVE  \A q \in ThreadRequest : q # r => Working(q, "idle")
BY DEF TimeInv, InOrder, Alone

LEMMA BeginTimes ==
    ASSUME TimeInv, NEW r \in ThreadRequest, NEW p, NEW todo,
           NEW pc \in {"openCheck", "interact", "deliver", "settle",
                       "unblock", "read"},
           Begins(r, p, pc, todo), SameTimes, UNCHANGED <<clock, lastAt>>
    PROVE  Past' /\ InOrder'
<1> DEFINE s == [pc |-> pc, who |-> p, at |-> 0, todo |-> todo,
                 barred |-> blocks # {} /\ pc \in {"openCheck", "interact"}]
<1>1. Goes(r, s) /\ s.pc \notin {"refresh", "send"}
  BY DEF Begins
<1>2. ~overlapped' => ~overlapped /\ \A q \in ThreadRequest : Working(q, "idle")
  BY DEF Begins
<1>3. ~overlapped' => IsLast(lastAt)
  <2>1. Working(r, "idle") => Settled(r)
    BY DEF Settled, Working
  <2> QED
    BY <1>2, <2>1, SettledIsLast
<1> HIDE DEF s
<1> QED
  BY <1>1, <1>2, <1>3, OneGoes

LEMMA QuietSteps ==
    ASSUME TimeInv, NEW r \in ThreadRequest, NEW s, Goes(r, s), ~Working(r, "idle"),
           Settled(r), s.pc \notin {"settle", "refresh"},
           s.pc = "send" => s.at = clock,
           SameTimes, UNCHANGED <<clock, lastAt, overlapped>>
    PROVE  Past' /\ InOrder'
<1>1. ~overlapped' =>
        ~overlapped /\ \A q \in ThreadRequest : q # r => Working(q, "idle")
  BY OthersIdle
<1>2. ~overlapped' => IsLast(lastAt)
  BY <1>1, SettledIsLast
<1> QED
  BY <1>1, <1>2, OneGoes

LEMMA SettleSteps ==
    ASSUME TimeInv, NEW r \in ThreadRequest, RefreshRead(r) \/ RefreshWrite(r)
    PROVE  Past' /\ InOrder'
<1>1. /\ ~Working(r, "idle") /\ SameTimes
      /\ UNCHANGED <<clock, overlapped>>
  BY DEF RefreshRead, RefreshWrite, Working, SameTimes
<1>2. ~overlapped' =>
        ~overlapped /\ \A q \in ThreadRequest : q # r => Working(q, "idle")
  BY <1>1, OthersIdle
<1>3. CASE RefreshRead(r)
  <2>1. PICK t \in 0..MaxTime : IsLast(t) /\ Moves(r, "refresh", t)
    BY <1>3 DEF RefreshRead
  <2> DEFINE s == [pc |-> "refresh", who |-> handler[r].who, at |-> t,
                   todo |-> {}, barred |-> handler[r].barred]
  <2>2. Goes(r, s) /\ s.pc = "refresh" /\ s.at = t
    BY <2>1 DEF Moves
  <2>3. lastAt' = lastAt
    BY <1>3 DEF RefreshRead
  <2> HIDE DEF s
  <2> QED
    BY <1>1, <1>2, <2>1, <2>2, <2>3, OneGoes
<1>4. CASE RefreshWrite(r)
  <2>1. Working(r, "refresh") /\ Goes(r, AtRest) /\ lastAt' = handler[r].at
    BY <1>4 DEF RefreshWrite
  <2>2. ~overlapped' => IsLast(handler[r].at)
    BY <1>2, <2>1 DEF TimeInv, InOrder, Holds
  <2>3. AtRest.pc = "idle"
    BY DEF AtRest
  <2> QED
    BY <1>1, <1>2, <2>1, <2>2, <2>3, OneGoes
<1> QED
  BY <1>3, <1>4

(* A send stamps the newest message, and the inbox with it.                *)
LEMMA SendTimes ==
    ASSUME TimeInv, NEW r \in ThreadRequest, NEW m \in Message, Send(r, m)
    PROVE  Past' /\ InOrder'
<1> DEFINE at == handler[r].at
<1>1. /\ Working(r, "send") /\ ~Working(r, "idle") /\ Goes(r, AtRest)
      /\ lastAt' = at /\ UNCHANGED <<clock, overlapped>>
  BY DEF Send, Working
<1>2. ASSUME NEW n \in Message
      PROVE  IF n = m THEN /\ msg'[n].sent /\ msg'[n].at = at
                           /\ msg'[n].deleted = {}
             ELSE msg'[n] = msg[n]
  BY DEF Send, TimeInv, MailIInv, Mail
<1>3. at <= clock /\ at \in 1..MaxTime
  BY <1>1, BusyTyped DEF TimeInv, Past
<1>4. \A q \in ThreadRequest : handler'[q] = IF q = r THEN AtRest ELSE handler[q]
  BY <1>1 DEF TimeInv, MailIInv, Handlers, Goes
<1> HIDE DEF at
<1>5. Past'
  <2>1. \A n \in Message : msg'[n].sent => msg'[n].at <= clock
    BY <1>2, <1>3 DEF TimeInv, Past
  <2>2. \A q \in ThreadRequest : handler'[q].pc = "send" => handler'[q].at <= clock
    BY <1>4 DEF TimeInv, Past, Working, AtRest
  <2> QED
    BY <1>1, <2>1, <2>2 DEF Past, Working
<1>6. ASSUME ~overlapped'
      PROVE  Alone' /\ (\A q \in ThreadRequest : Holds(q)') /\ Newer'
  <2>1. ~overlapped /\ \A q \in ThreadRequest : q # r => Working(q, "idle")
    BY <1>1, <1>6, OthersIdle
  <2>2. \A q \in ThreadRequest : handler'[q].pc = "idle"
    BY <1>4, <2>1 DEF Working, AtRest
  <2>3. \A n \in Message : msg[n].sent => msg[n].at <= at
    BY <1>1, <2>1 DEF TimeInv, InOrder, Holds, at
  <2>4. {} # Profile
    BY ProfileAssumption
  <2>5. /\ \A n \in Message : msg'[n].sent => msg'[n].at <= at
        /\ msg'[m].sent /\ msg'[m].deleted # Profile /\ msg'[m].at = at
    BY <1>2, <1>3, <2>3, <2>4
  <2>6. IsLast(lastAt)'
    BY <1>1, <2>5 DEF IsLast, SentSoFar
  <2> QED
    BY <2>2, <2>6 DEF Alone, Holds, Newer, Working
<1> QED
  BY <1>5, <1>6 DEF InOrder

LEMMA MarkTimes ==
    ASSUME TimeInv, NEW r \in ThreadRequest, ReadWrite(r)
    PROVE  Past' /\ InOrder'
<1>1. /\ Working(r, "read") /\ Goes(r, AtRest)
      /\ UNCHANGED <<clock, lastAt, overlapped>>
  BY DEF ReadWrite
<1>2. SameTimes
  <2>1. ASSUME NEW m \in Message
        PROVE  /\ msg'[m].sent = msg[m].sent /\ msg'[m].at = msg[m].at
               /\ msg'[m].deleted = msg[m].deleted
    BY DEF ReadWrite, TimeInv, MailIInv, Mail
  <2> QED
    BY <2>1 DEF SameTimes
<1> QED
  BY <1>1, <1>2, QuietSteps DEF Settled, Working, AtRest

LEMMA UnblockTimes ==
    ASSUME TimeInv, NEW r \in ThreadRequest, Unblock(r)
    PROVE  Past' /\ InOrder'
<1>1. /\ Working(r, "unblock") /\ UNCHANGED <<lastAt, msg, clock, overlapped>>
      /\ handler' = [q \in ThreadRequest |->
            IF q = r THEN AtRest
            ELSE IF handler[q].barred /\ blocks' = {}
                 THEN [handler[q] EXCEPT !.barred = FALSE] ELSE handler[q]]
  BY DEF Unblock
<1>2. ASSUME NEW q \in ThreadRequest, q # r
      PROVE  handler'[q].pc = handler[q].pc /\ handler'[q].at = handler[q].at
  <2>1. handler'[q] = IF handler[q].barred /\ blocks' = {}
                   THEN [handler[q] EXCEPT !.barred = FALSE] ELSE handler[q]
    BY <1>1, <1>2
  <2> QED
    BY <2>1
<1>3. handler'[r].pc = "idle"
  BY <1>1 DEF AtRest
<1>4. Past'
  BY <1>1, <1>2, <1>3 DEF TimeInv, Past, Working
<1>5. ASSUME ~overlapped'
      PROVE  Alone' /\ (\A q \in ThreadRequest : Holds(q)') /\ Newer'
  <2>1. ~overlapped /\ \A q \in ThreadRequest : q # r => handler[q].pc = "idle"
    BY <1>1, <1>5, OthersIdle DEF Working
  <2>2. \A q \in ThreadRequest : handler'[q].pc = "idle"
    BY <1>2, <1>3, <2>1
  <2>3. IsLast(lastAt)
    BY <1>1, <2>1, SettledIsLast DEF Settled, Working
  <2> QED
    BY <1>1, <2>2, <2>3 DEF Alone, Holds, Newer, Working, IsLast, SentSoFar
<1> QED
  BY <1>4, <1>5 DEF InOrder

LEMMA DeleteTimes ==
    ASSUME TimeInv, NEW r \in ThreadRequest, NEW p \in Profile, NEW m \in Message,
           Delete(r, p, m)
    PROVE  Past' /\ InOrder'
<1> DEFINE s == [pc |-> "settle", who |-> p, at |-> 0, todo |-> {},
                 barred |-> /\ blocks # {}
                            /\ "settle" \in {"openCheck", "interact"}]
<1>1. /\ Goes(r, s) /\ s.pc = "settle" /\ UNCHANGED <<clock, lastAt>>
      /\ ~overlapped' => ~overlapped /\ \A q \in ThreadRequest : Working(q, "idle")
  BY DEF Delete, Begins
<1>2. ASSUME NEW n \in Message
      PROVE  msg'[n].sent = msg[n].sent /\ msg'[n].at = msg[n].at
  BY DEF Delete, TimeInv, MailIInv, Mail
<1> HIDE DEF s
<1>3. \A q \in ThreadRequest : handler'[q] = IF q = r THEN s ELSE handler[q]
  BY <1>1 DEF TimeInv, MailIInv, Handlers, Goes
<1>4. Past'
  <2>1. \A n \in Message : msg'[n].sent => msg'[n].at <= clock
    BY <1>2 DEF TimeInv, Past
  <2>2. \A q \in ThreadRequest : handler'[q].pc = "send" => handler'[q].at <= clock
    BY <1>1, <1>3 DEF TimeInv, Past, Working
  <2> QED
    BY <1>1, <2>1, <2>2 DEF Past, Working
<1>5. ASSUME ~overlapped'
      PROVE  Alone' /\ (\A q \in ThreadRequest : Holds(q)') /\ Newer'
  <2>1. \A q \in ThreadRequest : q # r => handler'[q].pc = "idle"
    BY <1>1, <1>3, <1>5 DEF Working
  <2>2. handler'[r].pc = "settle"
    BY <1>1, <1>3
  <2> QED
    BY <2>1, <2>2 DEF Alone, Holds, Newer, Settled, Working
<1> QED
  BY <1>4, <1>5 DEF InOrder

LEMMA TimeStep == TimeInv /\ [ThreadNext]_threadVars => Past' /\ InOrder'
<1> SUFFICES ASSUME TimeInv, [ThreadNext]_threadVars PROVE Past' /\ InOrder'
  OBVIOUS
<1>1. ASSUME NEW r \in ThreadRequest, NEW p \in Profile,
             \/ OpenRead(r, p) \/ SendRead(r, p)
             \/ ReadFind(r, p) \/ DeliverFind(r, p) \/ UnblockRead(r, p)
      PROVE  Past' /\ InOrder'
  <2>1. SameTimes /\ UNCHANGED <<clock, lastAt>>
    BY <1>1 DEF OpenRead, SendRead, ReadFind, DeliverFind, UnblockRead,
                SameTimes
  <2> QED
    BY <1>1, <2>1, BeginTimes DEF OpenRead, SendRead, ReadFind, DeliverFind,
                                  UnblockRead
<1>2. ASSUME NEW r \in ThreadRequest, OpenCheck(r) \/ SendCheck(r) \/ Open(r)
                                \/ DeliverWrite(r)
      PROVE  Past' /\ InOrder'
  <2>1. /\ ~Working(r, "idle") /\ Settled(r) /\ SameTimes
        /\ UNCHANGED <<clock, lastAt, overlapped>>
    BY <1>2 DEF OpenCheck, SendCheck, Open, DeliverWrite, Settled, Working,
                SameTimes
  <2>2. CASE Goes(r, AtRest)
    BY <2>1, <2>2, QuietSteps DEF AtRest
  <2>3. ASSUME NEW pc \in {"open", "send"}, NEW at, Moves(r, pc, at),
               pc = "send" => at = clock
        PROVE  Past' /\ InOrder'
    <3> DEFINE s == [pc |-> pc, who |-> handler[r].who, at |-> at, todo |-> {},
                     barred |-> handler[r].barred]
    <3>1. Goes(r, s) /\ s.pc = pc /\ s.at = at
      BY <2>3 DEF Moves
    <3> HIDE DEF s
    <3> QED
      BY <2>1, <2>3, <3>1, QuietSteps
  <2>4. \/ Goes(r, AtRest) \/ Moves(r, "open", 0) \/ Moves(r, "send", clock)
    BY <1>2 DEF OpenCheck, SendCheck, Open, DeliverWrite, CreatedAt
  <2> QED
    BY <2>2, <2>3, <2>4
<1>3. ASSUME NEW r \in ThreadRequest, Die(r)
      PROVE  Past' /\ InOrder'
  BY <1>3, OneGoes DEF Die, AtRest, SameTimes
<1>4. CASE (\E p \in Profile : Block(p) \/ FeedBlock(p)) \/ UNCHANGED threadVars
  <2>1. UNCHANGED <<lastAt, msg, handler, clock, overlapped>>
    BY <1>4 DEF Block, FeedBlock, threadVars
  <2> QED
    BY <2>1 DEF TimeInv, Past, InOrder, Alone, Holds, Newer, Settled, Working,
                IsLast, SentSoFar
<1>5. CASE Tick
  <2>1. /\ UNCHANGED <<lastAt, msg, handler, overlapped>>
        /\ clock' = clock + 1 /\ clock \in Int
    BY <1>5 DEF Tick, TimeInv, MailIInv, Rest
  <2>2. ASSUME NEW m \in Message, msg[m].sent
        PROVE  msg[m].at \in Int
    <3>1. msg[m] \in MessageRow /\ ~Unsent.sent
      BY DEF TimeInv, MailIInv, Mail, Unsent
    <3>2. msg[m] \in [sent : {TRUE}, from : Profile, at : 1..MaxTime,
                     read : BOOLEAN, deleted : SUBSET Profile]
      BY <2>2, <3>1 DEF MessageRow
    <3>3. msg[m].at \in 1..MaxTime
      BY <3>2
    <3> QED
      BY <3>3, ClockAssumption
  <2>3. ASSUME NEW r \in ThreadRequest, Working(r, "send")
        PROVE  handler[r].at \in Int
    <3>1. ~Working(r, "idle")
      BY <2>3 DEF Working
    <3>2. handler[r].at \in 0..MaxTime
      BY <3>1, BusyTyped DEF TimeInv
    <3> QED
      BY <3>2, ClockAssumption
  <2>4. Past'
    BY <2>1, <2>2, <2>3 DEF TimeInv, Past, Working
  <2>5. InOrder'
    BY <2>1 DEF TimeInv, InOrder, Alone, Holds, Newer, Settled, Working,
                IsLast, SentSoFar
  <2> QED
    BY <2>4, <2>5
<1> QED
  BY <1>1, <1>2, <1>3, <1>4, <1>5, SendTimes, MarkTimes, SettleSteps,
     UnblockTimes, DeleteTimes DEF ThreadNext

(* The inbox shows the time of the newest message that somebody still      *)
(* sees, for any number of messages and requests one after the other       *)
(* (sendConversationMessage, refreshConversationLastMessageAt).            *)
THEOREM InboxTimes == ThreadSpec => []InboxTimeIsNewest
<1>1. ThreadInit => TimeInv
  BY InitInv, InitTimes DEF TimeInv
<1>2. TimeInv /\ [ThreadNext]_threadVars => TimeInv'
  BY NextInv, TimeStep DEF TimeInv
<1>3. TimeInv => InboxTimeIsNewest
  <2> SUFFICES ASSUME TimeInv, ~overlapped,
                      \A r \in ThreadRequest : Working(r, "idle")
               PROVE  LET seen  == {m \in SentSoFar : msg[m].deleted # Profile}
                          times == {msg[m].at : m \in seen}
                      IN  /\ lastAt \in times \cup {0}
                          /\ \A t \in times : t <= lastAt
    BY DEF InboxTimeIsNewest
  <2>1. \A r \in ThreadRequest : Settled(r)
    BY DEF Settled, Working
  <2>2. IsLast(lastAt)
    BY <2>1 DEF TimeInv, InOrder, Newer
  <2> QED
    BY <2>2 DEF IsLast
<1> QED
  BY <1>1, <1>2, <1>3, PTL DEF ThreadSpec
=============================================================================
