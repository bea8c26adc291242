-------------------------- MODULE CommunityProofs ---------------------------
(* What holds of CustomPages, Reports, AgentRuns, AgentMemory and          *)
(* DogIdentity for any values of their constants, and of their instances in*)
(* MCCommunity.                                                            *)
EXTENDS MCCommunity, ListingProofs, FiniteSetTheorems, SequenceTheorems,
        WellFoundedInduction, TLAPS

-----------------------------------------------------------------------------
(* Reports and their decisions.                                            *)

(* The reports of a target.                                                *)
Of(t) == {n \in ReportRow : report[n] # NoReport /\ report[n].of = t}

ReportsFit ==
    /\ \A l \in ListedItem : count[l] = Cardinality(Of(l))
    /\ \A n \in ReportRow : entry[n] = "open" =>
        report[n] # NoReport /\ report[n].of \in ListedItem /\ report[n].status = "open"
    /\ \A m \in Moderator : reading[m] # NoReport => report[reading[m]] # NoReport
    /\ \A t \in hidden \cup flags : Decided(t)
    /\ banned \subseteq flags

ReportsIInv == ReportsTypeOK /\ ReportsFit

LEMMA OfFinite ==
    ASSUME NEW t
    PROVE  /\ IsFiniteSet(Of(t))
           /\ Cardinality(Of(t)) \in 0..MaxReports
<1>1. IsFiniteSet(ReportRow) /\ Cardinality(ReportRow) = MaxReports
  BY ReportsAssumption, FS_Interval DEF ReportRow
<1>2. Of(t) \subseteq ReportRow
  BY DEF Of
<1>3. /\ IsFiniteSet(Of(t)) /\ Cardinality(Of(t)) <= MaxReports
  BY <1>1, <1>2, FS_Subset
<1> QED
  BY <1>3, FS_CardinalityType, ReportsAssumption

LEMMA ReportsInitFit == ReportsInit => ReportsIInv
<1> SUFFICES ASSUME ReportsInit PROVE ReportsIInv
  OBVIOUS
<1>1. ReportsTypeOK
  BY ReportsAssumption DEF ReportsInit, ReportsTypeOK, ReportRow
<1>2. \A t : Of(t) = {}
  BY DEF ReportsInit, Of
<1>3. ReportsFit
  BY <1>2, FS_EmptySet, ReportsAssumption DEF ReportsInit, ReportsFit, Status
<1> QED
  BY <1>1, <1>3 DEF ReportsIInv

(* What is decided stays so while every report stays of what it was of,    *)
(* and is not opened again.                                                *)
LEMMA DecidedStays ==
    ASSUME \A n \in ReportRow : report[n] # NoReport =>
            /\ report'[n] # NoReport /\ report'[n].of = report[n].of
            /\ report[n].status # "open" => report'[n].status # "open",
           NEW t, Decided(t)
    PROVE  Decided(t)'
BY DEF Decided

(* A step that leaves the reports, their entries and counts.               *)
LEMMA ReportsStay ==
    ASSUME ReportsFit, UNCHANGED <<report, entry, count, hidden, flags, banned>>,
           \A m \in Moderator : reading'[m] # NoReport => report[reading'[m]] # NoReport
    PROVE  ReportsFit'
BY DEF ReportsFit, Of, Decided

LEMMA CreateFits ==
    ASSUME ReportsIInv, NEW m \in Member, Create(m)
    PROVE  ReportsIInv'
<1> USE DEF ReportsIInv
<1> DEFINE made == [by |-> m, of |-> asking[m], status |-> "open"]
<1>1. PICK n \in ReportRow :
        /\ report[n] = NoReport
        /\ report' = [report EXCEPT ![n] = made]
        /\ recent' = recent \cup {n}
        /\ entry' = [entry EXCEPT ![n] =
                        IF asking[m] \in ListedItem THEN "open" ELSE NoReport]
  BY DEF Create
<1>2. asking[m] \in Target /\ made \in Report /\ made # NoReport
  <2>1. asking[m] \in Target
    BY DEF Create, ReportsTypeOK
  <2> QED
    BY <2>1, ReportsAssumption DEF Report, Status
<1>3. /\ count' = [l \in ListedItem |-> IF l = asking[m] THEN count[l] + 1 ELSE count[l]]
      /\ asking' = [asking EXCEPT ![m] = NoReport]
      /\ UNCHANGED <<reading, hidden, flags, banned>>
  BY DEF Create
<1>4. /\ report'[n] = made /\ report'[n] # NoReport /\ report'[n].of = asking[m]
      /\ report'[n].status = "open"
      /\ \A o \in ReportRow \ {n} : report'[o] = report[o]
  BY <1>1, <1>2 DEF ReportsTypeOK
<1> HIDE DEF made
<1>5. ASSUME NEW l \in ListedItem
      PROVE  /\ count'[l] = Cardinality(Of(l)')
             /\ count'[l] \in 0..MaxReports
  <2>1. CASE l = asking[m]
    <3>1. Of(l)' = Of(l) \cup {n} /\ n \notin Of(l)
      BY <1>1, <1>4, <2>1 DEF Of
    <3>2. Cardinality(Of(l)') = Cardinality(Of(l)) + 1
      BY <3>1, OfFinite, FS_AddElement
    <3>3. count'[l] = Cardinality(Of(l)')
      BY <1>3, <2>1, <3>2 DEF ReportsFit
    <3>4. Of(l)' \subseteq ReportRow
      BY DEF Of
    <3>5. IsFiniteSet(ReportRow) /\ Cardinality(ReportRow) = MaxReports
      BY ReportsAssumption, FS_Interval DEF ReportRow
    <3>6. Cardinality(Of(l)') <= MaxReports
      BY <3>4, <3>5, FS_Subset
    <3>7. Cardinality(Of(l)) \in Nat
      BY OfFinite, FS_CardinalityType
    <3> QED
      BY <3>2, <3>3, <3>6, <3>7, ReportsAssumption
  <2>2. CASE l # asking[m]
    <3>1. Of(l)' = Of(l)
      BY <1>1, <1>4, <2>2 DEF Of
    <3> QED
      BY <1>3, <2>2, <3>1 DEF ReportsFit, ReportsTypeOK
  <2> QED
    BY <2>1, <2>2
<1>6. ReportsTypeOK'
  <2>1. report' \in [ReportRow -> Report \cup {NoReport}]
    BY <1>1, <1>2, <1>4 DEF ReportsTypeOK
  <2>2. /\ entry' \in [ReportRow -> Status \cup {NoReport}]
        /\ recent' \subseteq ReportRow
    BY <1>1 DEF ReportsTypeOK, Status
  <2>3. count' \in [ListedItem -> 0..MaxReports]
    BY <1>3, <1>5
  <2>4. /\ asking' \in [Member -> Target \cup {NoReport}]
        /\ reading' \in [Moderator -> ReportRow \cup {NoReport}]
        /\ hidden' \subseteq Message /\ flags' \subseteq Account /\ banned' \subseteq Account
    BY <1>3 DEF ReportsTypeOK
  <2> QED
    BY <2>1, <2>2, <2>3, <2>4 DEF ReportsTypeOK
<1>7. ReportsFit'
  <2>1. ASSUME NEW o \in ReportRow, entry'[o] = "open"
        PROVE  /\ report'[o] # NoReport /\ report'[o].of \in ListedItem
               /\ report'[o].status = "open"
    BY <1>1, <1>4, <2>1, ReportsAssumption DEF ReportsFit, ReportsTypeOK, Status
  <2>2. ASSUME NEW d \in Moderator, reading'[d] # NoReport
        PROVE  report'[reading'[d]] # NoReport
    BY <1>3, <1>4, <2>2 DEF ReportsFit, ReportsTypeOK
  <2>3. ASSUME NEW t \in hidden' \cup flags' PROVE Decided(t)'
    BY <1>1, <1>3, <1>4, DecidedStays DEF ReportsFit
  <2> QED
    BY <1>3, <1>5, <2>1, <2>2, <2>3 DEF ReportsFit
<1> QED
  BY <1>6, <1>7

LEMMA ResolveFits ==
    ASSUME ReportsIInv, NEW m \in Moderator, NEW d \in Decisions, Resolve(m, d)
    PROVE  ReportsIInv'
<1> USE DEF ReportsIInv
<1> DEFINE n == reading[m]
           t == report[n].of
           decided == StatusOf(d)
<1>1. n \in ReportRow /\ report[n] \in Report /\ report[n] # NoReport
  BY DEF Resolve, ReportsTypeOK, ReportsFit
<1>2. decided \in {"dismissed", "resolved"}
  BY DEF StatusOf
<1>3. /\ report' = [report EXCEPT ![n].status = decided]
      /\ entry' = Entries(n, d)
      /\ reading' = [reading EXCEPT ![m] = NoReport]
      /\ UNCHANGED <<count, recent, asking>>
  BY DEF Resolve
<1>4. /\ report'[n] \in Report /\ report'[n] # NoReport
      /\ report'[n].of = t /\ report'[n].status = decided
      /\ \A o \in ReportRow \ {n} : report'[o] = report[o]
      /\ report' \in [ReportRow -> Report \cup {NoReport}]
  <2>1. [report[n] EXCEPT !.status = decided] \in Report
    BY <1>1, <1>2 DEF Report, Status
  <2> QED
    BY <1>1, <1>2, <1>3, <2>1, ReportsAssumption DEF ReportsTypeOK, Report
<1>5. /\ hidden' \subseteq hidden \cup {t} /\ hidden' \subseteq Message
      /\ flags' \subseteq flags \cup {t} /\ flags' \subseteq Account
      /\ flags \subseteq flags'
      /\ banned' \subseteq flags' /\ banned' \subseteq Account
  BY DEF Resolve, ReportsTypeOK, ReportsFit
<1>6. \A o \in ReportRow :
        /\ entry'[o] \in {entry[o], decided}
        /\ (t \in ListedItem /\ report[o] # NoReport /\ report[o].of = t)
                => entry'[o] # "open"
  BY <1>2, <1>3 DEF Entries
<1> HIDE DEF n, t, decided
<1>7. ReportsTypeOK'
  BY <1>2, <1>3, <1>4, <1>5, <1>6 DEF ReportsTypeOK, Entries, Status
<1>8. ASSUME NEW l \in ListedItem PROVE Of(l)' = Of(l)
  BY <1>1, <1>4 DEF Of, t
<1>9. ASSUME NEW o \in ReportRow, entry'[o] = "open"
      PROVE  /\ report'[o] # NoReport /\ report'[o].of \in ListedItem
             /\ report'[o].status = "open"
  <2>1. /\ entry[o] = "open" /\ report[o] # NoReport /\ report[o].of \in ListedItem
        /\ report[o].status = "open"
    BY <1>2, <1>6, <1>9 DEF ReportsFit
  <2>2. o # n
    BY <1>6, <1>9, <2>1 DEF t
  <2> QED
    BY <1>4, <2>1, <2>2
<1>10. ASSUME NEW i \in Moderator, reading'[i] # NoReport
       PROVE  report'[reading'[i]] # NoReport
  BY <1>3, <1>4, <1>10 DEF ReportsFit, ReportsTypeOK
<1>11. ASSUME NEW x \in hidden' \cup flags' PROVE Decided(x)'
  <2>1. CASE x = t
    BY <1>1, <1>2, <1>4, <2>1 DEF Decided
  <2>2. CASE x # t
    <3>1. Decided(x)
      BY <1>5, <1>11, <2>2 DEF ReportsFit
    <3> QED
      BY <1>1, <1>2, <1>4, <3>1, DecidedStays DEF t
  <2> QED
    BY <2>1, <2>2
<1>12. ReportsFit'
  BY <1>3, <1>5, <1>8, <1>9, <1>10, <1>11 DEF ReportsFit
<1> QED
  BY <1>7, <1>12

LEMMA ReportsNextFit == ReportsIInv /\ [ReportsNext]_reportVars => ReportsIInv'
<1> SUFFICES ASSUME ReportsIInv, [ReportsNext]_reportVars PROVE ReportsIInv'
  OBVIOUS
<1>1. ASSUME NEW m \in Member, Create(m) PROVE ReportsIInv'
  BY <1>1, CreateFits
<1>2. ASSUME NEW m \in Member, NEW t \in Target, Ask(m, t) PROVE ReportsIInv'
  BY <1>2, ReportsStay DEF Ask, ReportsIInv, ReportsTypeOK, ReportsFit
<1>3. ASSUME NEW n \in ReportRow, Ages(n) PROVE ReportsIInv'
  BY <1>3, ReportsStay DEF Ages, ReportsIInv, ReportsTypeOK, ReportsFit
<1>4. ASSUME NEW n \in ReportRow, NEW m \in Moderator, ReadReport(m, n)
      PROVE  ReportsIInv'
  BY <1>4, ReportsStay DEF ReadReport, ReportsIInv, ReportsTypeOK, ReportsFit
<1>5. ASSUME NEW m \in Moderator, NEW d \in Decisions, Resolve(m, d)
      PROVE  ReportsIInv'
  BY <1>5, ResolveFits
<1>6. CASE UNCHANGED reportVars
  BY <1>6, ReportsStay DEF reportVars, ReportsIInv, ReportsTypeOK, ReportsFit
<1> QED
  BY <1>1, <1>2, <1>3, <1>4, <1>5, <1>6 DEF ReportsNext

(* Every reachable state of Reports has the declared types; a count never  *)
(* exceeds the reports there are.                                          *)
THEOREM ReportsTypeCorrect == ReportsSpec => []ReportsTypeOK
<1>1. ReportsIInv => ReportsTypeOK
  BY DEF ReportsIInv
<1> QED
  BY <1>1, ReportsInitFit, ReportsNextFit, PTL DEF ReportsSpec

(* Reports, their entries and the count of a listing agree, and nobody is  *)
(* hidden or banned without a decided report, whatever createReportForUser *)
(* and resolveReportForModerator read before they wrote.                   *)
THEOREM ReportsStayInAgreement == ReportsSpec => []ReportsAgree
<1>1. ReportsIInv => ReportsAgree
  BY DEF ReportsIInv, ReportsFit, ReportsAgree, Of
<1> QED
  BY <1>1, ReportsInitFit, ReportsNextFit, PTL DEF ReportsSpec

-----------------------------------------------------------------------------
(* Custom pages.                                                           *)

ClaimFits(c) ==
    \/ claim[c] \in {"none", "pending"} /\ verdict[c] = "none"
    \/ claim[c] \in {"approved", "rejected"} /\ verdict[c] = claim[c]

MayHave(p, d) == verdict[<<d, p>>] = "approved" /\ d \in Registered

(* What Gate found of a request that goes on.                              *)
AskFits(r) ==
    /\ asked[r].pc # "none" => asked[r].owner \in Profile
    /\ asked[r].pc \in {"same", "limit", "handle", "insert"} =>
        (asked[r].of \in Dog /\ r \notin relaxed => MayHave(asked[r].owner, asked[r].of))

(* A request makes one page and is over.                                   *)
PageFits(r) ==
    pages[r] # NoPage =>
        /\ asked[r].pc = "over"
        /\ pages[r].of \in Dog /\ r \notin relaxed => MayHave(pages[r].owner, pages[r].of)

Distinct(r, o) ==
    r # o /\ pages[r] # NoPage /\ pages[o] # NoPage =>
        /\ pages[r].handle # pages[o].handle
        /\ pages[r].of \in Dog =>
            <<pages[r].owner, pages[r].of>> # <<pages[o].owner, pages[o].of>>

PagesFit ==
    /\ \A c \in Dog \X Profile : ClaimFits(c)
    /\ \A r \in Maker : AskFits(r) /\ PageFits(r)
    /\ \A r, o \in Maker : Distinct(r, o)

PagesIInv == PagesTypeOK /\ PagesFit

LEMMA PagesInitFit == PagesInit => PagesIInv
<1> SUFFICES ASSUME PagesInit PROVE PagesIInv
  OBVIOUS
<1>1. PagesTypeOK
  <2>1. ASSUME NEW r \in Maker PROVE 1 \in Handles
    BY PagesAssumption, FS_CardinalityType, FS_EmptySet DEF Handles
  <2> QED
    BY <2>1 DEF PagesInit, PagesTypeOK, NotAsked, Subject
<1>2. PagesFit
  BY DEF PagesInit, PagesFit, ClaimFits, AskFits, PageFits, Distinct, NotAsked
<1> QED
  BY <1>1, <1>2 DEF PagesIInv

-----------------------------------------------------------------------------
(* While a request has no page, not all handles are taken, so uniqueHandle *)
(* finds one.                                                              *)
LEMMA HandleIsLeft ==
    ASSUME PagesTypeOK, NEW r \in Maker, pages[r] = NoPage
    PROVE  Handles \ Taken # {}
<1> SUFFICES ASSUME Handles \subseteq Taken PROVE FALSE
  OBVIOUS
<1> DEFINE others == Maker \ {r}
           by == [h \in Handles |-> CHOOSE o \in others : pages[o] # NoPage /\ pages[o].handle = h]
<1>1. ASSUME NEW h \in Handles
      PROVE  \E o \in others : pages[o] # NoPage /\ pages[o].handle = h
  BY DEF Taken
<1>2. \A h \in Handles : by[h] \in others /\ pages[by[h]].handle = h
  BY <1>1
<1>3. by \in [Handles -> others]
  BY <1>1
<1> HIDE DEF by
<1>4. by \in Injection(Handles, others)
  <2>1. \A a, b \in Handles : by[a] = by[b] => a = b
    BY <1>2
  <2> QED
    BY <1>3, <2>1 DEF Injection, IsInjective
<1>5. /\ IsFiniteSet(others) /\ Cardinality(others) = Cardinality(Maker) - 1
      /\ Cardinality(Maker) \in Nat
  BY PagesAssumption, FS_RemoveElement, FS_CardinalityType
<1>6. Cardinality(Handles) <= Cardinality(others)
  BY <1>4, <1>5, FS_Injection
<1>7. Cardinality(Handles) = Cardinality(Maker)
  <2>1. Cardinality(Maker) # 0
    BY PagesAssumption, FS_EmptySet
  <2> QED
    BY <1>5, <2>1, FS_Interval DEF Handles
<1> QED
  BY <1>5, <1>6, <1>7

LEMMA LeastNumber ==
    ASSUME NEW S, S \subseteq Nat, S # {}
    PROVE  \E x \in S : \A y \in S : x <= y
<1>1. PICK x \in S : \A y \in S : ~(<<y, x>> \in OpToRel(<, Nat))
  BY NatLessThanWellFounded, WFMin
<1>2. \A y \in S : ~(y < x)
  BY <1>1 DEF OpToRel
<1> QED
  BY <1>2

-----------------------------------------------------------------------------
LEMMA HandleIsHandle ==
    ASSUME PagesTypeOK, NEW r \in Maker, pages[r] = NoPage
    PROVE  (CHOOSE h \in Handles \ Taken : \A o \in Handles \ Taken : h <= o)
                \in Handles
<1>1. Handles \ Taken # {} /\ Handles \ Taken \subseteq Nat
  BY HandleIsLeft DEF Handles
<1>2. \E h \in Handles \ Taken : \A o \in Handles \ Taken : h <= o
  BY <1>1, LeastNumber
<1> QED
  BY <1>2

(* A request goes on with what it knows.                                   *)
LEMMA AskStep ==
    ASSUME PagesIInv, NEW r \in Maker, NEW q, Asks(r, q), UNCHANGED pages,
           relaxed \subseteq relaxed', relaxed' \subseteq relaxed \cup {r},
           q \in [pc : {"none", "gate", "same", "limit", "handle", "insert", "over"},
                 owner : Profile \cup {NoPage}, of : Subject, handle : Handles],
           q.owner \in Profile, pages[r] # NoPage => q.pc = "over",
           q.pc \in {"same", "limit", "handle", "insert"} =>
            (q.of \in Dog /\ r \notin relaxed' => MayHave(q.owner, q.of))
    PROVE  PagesIInv'
<1> USE DEF PagesIInv
<1>1. /\ asked' = [asked EXCEPT ![r] = q]
      /\ UNCHANGED <<strict, claim, verdict, card>>
  BY DEF Asks
<1>2. PagesTypeOK'
  BY <1>1 DEF PagesTypeOK
<1>3. asked'[r] = q /\ \A o \in Maker \ {r} : asked'[o] = asked[o]
  BY <1>1 DEF PagesTypeOK
<1>4. ASSUME NEW o \in Maker PROVE AskFits(o)' /\ PageFits(o)'
  <2>1. CASE o = r
    BY <1>1, <1>3, <2>1 DEF PagesFit, AskFits, PageFits, MayHave
  <2>2. CASE o # r
    BY <1>1, <1>3, <2>2 DEF PagesFit, AskFits, PageFits, MayHave
  <2> QED
    BY <2>1, <2>2
<1> QED
  BY <1>1, <1>2, <1>4 DEF PagesFit, ClaimFits, Distinct

(* A page is written, or goes, and stays its owner's.                      *)
LEMMA PageStep ==
    ASSUME PagesIInv, NEW r \in Maker, OfPage, pages[r] # NoPage,
           card' \in [Maker -> Content \cup {NoPage}],
           NEW page, page \in Page \cup {NoPage}, pages' = [pages EXCEPT ![r] = page],
           page # NoPage =>
            /\ page.owner = pages[r].owner /\ page.of = pages[r].of
            /\ page.handle = pages[r].handle
    PROVE  PagesIInv'
<1> USE DEF PagesIInv
<1>1. UNCHANGED <<strict, claim, verdict, asked, relaxed>>
  BY DEF OfPage
<1>2. pages'[r] = page /\ \A o \in Maker \ {r} : pages'[o] = pages[o]
  BY DEF PagesTypeOK
<1>3. PagesTypeOK'
  BY <1>1 DEF PagesTypeOK
<1>4. ASSUME NEW o \in Maker PROVE AskFits(o)' /\ PageFits(o)'
  <2>1. AskFits(o)'
    BY <1>1 DEF PagesFit, AskFits, MayHave
  <2>2. PageFits(o)'
    <3>1. CASE o = r
      BY <1>1, <1>2, <3>1 DEF PagesFit, PageFits, MayHave
    <3>2. CASE o # r
      BY <1>1, <1>2, <3>2 DEF PagesFit, PageFits, MayHave
    <3> QED
      BY <3>1, <3>2
  <2> QED
    BY <2>1, <2>2
<1>5. ASSUME NEW o \in Maker, NEW i \in Maker PROVE Distinct(o, i)'
  BY <1>1, <1>2 DEF PagesFit, Distinct
<1> QED
  BY <1>1, <1>3, <1>4, <1>5 DEF PagesFit, ClaimFits

LEMMA CardStays ==
    ASSUME PagesIInv, OfPage, UNCHANGED pages,
           card' \in [Maker -> Content \cup {NoPage}]
    PROVE  PagesIInv'
BY DEF PagesIInv, OfPage, PagesTypeOK, PagesFit, ClaimFits, AskFits, PageFits, MayHave,
       Distinct

LEMMA InsertFits ==
    ASSUME PagesIInv, NEW r \in Maker, Insert(r)
    PROVE  PagesIInv'
<1> USE DEF PagesIInv
<1> DEFINE q == asked[r]
           clash == q.handle \in Taken \/ (q.of \in Dog /\ Owned(q.owner, {q.of}) # {})
           page == [owner |-> q.owner, of |-> q.of, handle |-> q.handle,
                    published |-> FALSE, content |-> [edit |-> 0, card |-> FALSE]]
           over == [q EXCEPT !.pc = "over"]
<1>1. /\ q.pc = "insert" /\ q.owner \in Profile /\ q.of \in Subject
      /\ q.handle \in Handles
      /\ q.of \in Dog /\ r \notin relaxed => MayHave(q.owner, q.of)
      /\ pages[r] = NoPage
  BY DEF Insert, PagesTypeOK, PagesFit, AskFits, PageFits
<1>2. /\ asked' = [asked EXCEPT ![r] = over]
      /\ UNCHANGED <<strict, claim, verdict, card, relaxed>>
  BY DEF Insert, AsksNext, Asks
<1>3. /\ over.pc = "over" /\ over.owner = q.owner /\ over.of = q.of
      /\ over \in [pc : {"none", "gate", "same", "limit", "handle", "insert", "over"},
                   owner : Profile \cup {NoPage}, of : Subject, handle : Handles]
  BY <1>1 DEF PagesTypeOK
<1>4. CASE clash
  <2>1. UNCHANGED pages
    BY <1>4 DEF Insert
  <2>2. Asks(r, over)
    BY DEF Insert, AsksNext
  <2> HIDE DEF over
  <2> QED
    BY <1>1, <1>2, <1>3, <2>1, <2>2, AskStep
<1>5. CASE ~clash
  <2>1. pages' = [pages EXCEPT ![r] = page]
    BY <1>5 DEF Insert
  <2>2. page \in Page /\ page # NoPage
    <3>1. page \in Page
      BY <1>1, PagesAssumption DEF Page, Content
    <3> QED
      BY <3>1, PagesAssumption
  <2>3. /\ pages'[r] = page /\ \A o \in Maker \ {r} : pages'[o] = pages[o]
        /\ asked'[r] = over /\ \A o \in Maker \ {r} : asked'[o] = asked[o]
    BY <1>2, <2>1 DEF PagesTypeOK
  <2>4. page.owner = q.owner /\ page.of = q.of /\ page.handle = q.handle
    OBVIOUS
  <2>5. ASSUME NEW o \in Maker \ {r}, pages[o] # NoPage
        PROVE  /\ pages[o].handle # q.handle
               /\ q.of \in Dog => ~(pages[o].owner = q.owner /\ pages[o].of = q.of)
    BY <1>5, <2>5 DEF Taken, Owned
  <2> HIDE DEF page, over, clash, q
  <2>6. PagesTypeOK'
    BY <1>2, <1>3, <2>1, <2>2 DEF PagesTypeOK
  <2>7. ASSUME NEW o \in Maker PROVE AskFits(o)' /\ PageFits(o)'
    <3>1. CASE o = r
      BY <1>1, <1>2, <1>3, <2>3, <2>4, <3>1 DEF AskFits, PageFits, MayHave
    <3>2. CASE o # r
      BY <1>2, <2>3, <3>2 DEF PagesFit, AskFits, PageFits, MayHave
    <3> QED
      BY <3>1, <3>2
  <2>8. ASSUME NEW o \in Maker, NEW i \in Maker PROVE Distinct(o, i)'
    <3>1. CASE o # r /\ i # r
      BY <2>3, <3>1 DEF PagesFit, Distinct
    <3>2. CASE o = r /\ i # r
      BY <2>3, <2>4, <2>5, <3>2 DEF Distinct
    <3>3. CASE o # r /\ i = r
      BY <2>3, <2>4, <2>5, <3>3 DEF Distinct
    <3>4. CASE o = i
      BY <3>4 DEF Distinct
    <3> QED
      BY <3>1, <3>2, <3>3, <3>4
  <2> QED
    BY <1>2, <2>6, <2>7, <2>8 DEF PagesFit, ClaimFits
<1> QED
  BY <1>4, <1>5

-----------------------------------------------------------------------------
LEMMA PagesNextFit == PagesIInv /\ [PagesNext]_pageVars => PagesIInv'
<1> SUFFICES ASSUME PagesIInv, [PagesNext]_pageVars PROVE PagesIInv'
  OBVIOUS
<1> USE DEF PagesIInv
<1>1. ASSUME NEW d \in Dog, NEW p \in Profile, Claim(d, p) PROVE PagesIInv'
  BY <1>1 DEF Claim, PagesTypeOK, PagesFit, ClaimFits, AskFits, PageFits, MayHave, Distinct
<1>2. ASSUME NEW d \in Dog, NEW p \in Profile, NEW s \in {"approved", "rejected"},
             Review(d, p, s)
      PROVE  PagesIInv'
  <2>1. verdict[<<d, p>>] = "none"
    BY <1>2 DEF Review, PagesFit, ClaimFits
  <2>2. /\ claim' = [claim EXCEPT ![<<d, p>>] = s]
        /\ verdict' = [verdict EXCEPT ![<<d, p>>] = s]
        /\ UNCHANGED <<strict, pages, asked, card, relaxed>>
    BY <1>2, <2>1 DEF Review
  <2>3. \A x, y : MayHave(x, y) /\ x \in Profile /\ y \in Dog => MayHave(x, y)'
    BY <2>1, <2>2 DEF MayHave, PagesTypeOK
  <2>4. PagesTypeOK'
    BY <2>2 DEF PagesTypeOK
  <2>5. ASSUME NEW c \in Dog \X Profile PROVE ClaimFits(c)'
    BY <2>2 DEF PagesTypeOK, PagesFit, ClaimFits
  <2>6. ASSUME NEW r \in Maker PROVE AskFits(r)' /\ PageFits(r)'
    <3>1. pages[r] # NoPage => pages[r].owner \in Profile
      BY DEF PagesTypeOK, Page
    <3> QED
      BY <2>2, <2>3, <3>1 DEF PagesFit, AskFits, PageFits
  <2> QED
    BY <2>2, <2>4, <2>5, <2>6 DEF PagesFit, Distinct
<1>3. CASE SetRules
  BY <1>3 DEF SetRules, PagesTypeOK, PagesFit, ClaimFits, AskFits, PageFits, MayHave,
              Distinct
<1>4. ASSUME NEW r \in Maker, NEW p \in Profile, NEW s \in Subject, AskForPage(r, p, s)
      PROVE  PagesIInv'
  <2> DEFINE q == [NotAsked EXCEPT !.pc = "gate", !.owner = p, !.of = s]
  <2>1. /\ q.pc = "gate" /\ q.owner = p
        /\ q \in [pc : {"none", "gate", "same", "limit", "handle", "insert", "over"},
                  owner : Profile \cup {NoPage}, of : Subject, handle : Handles]
    BY <1>4 DEF AskForPage, NotAsked, PagesTypeOK
  <2>2. pages[r] = NoPage /\ Asks(r, q) /\ UNCHANGED <<pages, relaxed>>
    BY <1>4 DEF AskForPage, NotAsked, PagesFit, PageFits
  <2> HIDE DEF q
  <2> QED
    BY <2>1, <2>2, AskStep
<1>5. ASSUME NEW r \in Maker, NEW pc \in {"same", "limit", "handle", "over"},
             AsksNext(r, pc), UNCHANGED pages,
             asked[r].pc \in {"gate", "same", "limit"},
             relaxed \subseteq relaxed', relaxed' \subseteq relaxed \cup {r},
             pc # "over" /\ asked[r].of \in Dog /\ r \notin relaxed' =>
                MayHave(asked[r].owner, asked[r].of)
      PROVE  PagesIInv'
  <2> DEFINE q == [asked[r] EXCEPT !.pc = pc]
  <2>1. /\ q.pc = pc /\ q.owner = asked[r].owner /\ q.of = asked[r].of
        /\ q \in [pc : {"none", "gate", "same", "limit", "handle", "insert", "over"},
                  owner : Profile \cup {NoPage}, of : Subject, handle : Handles]
    BY DEF PagesTypeOK
  <2>2. Asks(r, q) /\ asked[r].owner \in Profile /\ pages[r] = NoPage
    BY <1>5 DEF AsksNext, PagesFit, AskFits, PageFits
  <2> HIDE DEF q
  <2> QED
    BY <1>5, <2>1, <2>2, AskStep
<1>6. ASSUME NEW r \in Maker, Gate(r) PROVE PagesIInv'
  <2> DEFINE q == asked[r]
             allowed == q.of \in Dog /\ strict =>
                            q.of \in Registered /\ claim[<<q.of, q.owner>>] = "approved"
  <2>1. /\ q.pc = "gate" /\ AsksNext(r, IF allowed THEN "same" ELSE "over")
        /\ relaxed' = IF strict THEN relaxed ELSE relaxed \cup {r}
        /\ UNCHANGED pages
    BY <1>6 DEF Gate
  <2>2. q.owner \in Profile
    BY <2>1 DEF PagesFit, AskFits
  <2>3. allowed /\ q.of \in Dog /\ r \notin relaxed' => MayHave(q.owner, q.of)
    BY <2>1, <2>2 DEF PagesFit, ClaimFits, MayHave
  <2> HIDE DEF allowed
  <2> QED
    BY <1>5, <2>1, <2>3
<1>7. ASSUME NEW r \in Maker, Same(r) \/ UnderLimit(r) PROVE PagesIInv'
  <2>1. PICK pc \in {"limit", "handle", "over"} :
            AsksNext(r, pc) /\ asked[r].pc \in {"same", "limit"}
    BY <1>7 DEF Same, UnderLimit
  <2>2. asked[r].of \in Dog /\ r \notin relaxed => MayHave(asked[r].owner, asked[r].of)
    BY <2>1 DEF PagesFit, AskFits
  <2>3. UNCHANGED <<pages, relaxed>>
    BY <1>7 DEF Same, UnderLimit
  <2> QED
    BY <1>5, <2>1, <2>2, <2>3
<1>8. ASSUME NEW r \in Maker, UniqueHandle(r) PROVE PagesIInv'
  <2> DEFINE h == CHOOSE h \in Handles \ Taken : \A o \in Handles \ Taken : h <= o
             q == [asked[r] EXCEPT !.pc = "insert", !.handle = h]
  <2>1. asked[r].pc = "handle" /\ Asks(r, q) /\ UNCHANGED <<pages, relaxed>>
    BY <1>8 DEF UniqueHandle
  <2>2. /\ pages[r] = NoPage /\ asked[r].owner \in Profile
        /\ asked[r].of \in Dog /\ r \notin relaxed => MayHave(asked[r].owner, asked[r].of)
    BY <2>1 DEF PagesFit, AskFits, PageFits
  <2>3. h \in Handles
    BY <2>2, HandleIsHandle
  <2> HIDE DEF h
  <2>4. /\ q.pc = "insert" /\ q.owner = asked[r].owner /\ q.of = asked[r].of
        /\ q \in [pc : {"none", "gate", "same", "limit", "handle", "insert", "over"},
                  owner : Profile \cup {NoPage}, of : Subject, handle : Handles]
    BY <2>3 DEF PagesTypeOK
  <2> HIDE DEF q
  <2> QED
    BY <2>1, <2>2, <2>4, AskStep
<1>9. ASSUME NEW r \in Maker, Insert(r) PROVE PagesIInv'
  BY <1>9, InsertFits
<1>10. ASSUME NEW r \in Maker, Publish(r) PROVE PagesIInv'
  <2> DEFINE page == [pages[r] EXCEPT !.published = ~@]
  <2>1. /\ pages[r] # NoPage /\ OfPage /\ UNCHANGED card
        /\ pages' = [pages EXCEPT ![r] = page]
    BY <1>10 DEF Publish
  <2>2. /\ page \in Page /\ page.owner = pages[r].owner /\ page.of = pages[r].of
        /\ page.handle = pages[r].handle
    BY <2>1 DEF PagesTypeOK, Page
  <2> HIDE DEF page
  <2> QED
    BY <2>1, <2>2, PageStep DEF PagesTypeOK
<1>11. ASSUME NEW r \in Maker, NEW content \in Content, pages[r] # NoPage, OfPage,
              card' \in [Maker -> Content \cup {NoPage}],
              pages' = [pages EXCEPT ![r].content = content]
       PROVE  PagesIInv'
  <2> DEFINE page == [pages[r] EXCEPT !.content = content]
  <2>1. pages' = [pages EXCEPT ![r] = page]
    BY <1>11
  <2>2. /\ page \in Page /\ page.owner = pages[r].owner /\ page.of = pages[r].of
        /\ page.handle = pages[r].handle
    BY <1>11 DEF PagesTypeOK, Page
  <2> HIDE DEF page
  <2> QED
    BY <1>11, <2>1, <2>2, PageStep
<1>12. ASSUME NEW r \in Maker, Update(r) PROVE PagesIInv'
  <2> DEFINE content == [edit |-> pages[r].content.edit + 1, card |-> FALSE]
  <2>1. content \in Content
    BY <1>12, PagesAssumption DEF Update, PagesTypeOK, Page, Content
  <2>2. pages' = [pages EXCEPT ![r].content = content]
    BY <1>12 DEF Update
  <2>3. /\ pages[r] # NoPage /\ OfPage /\ card' \in [Maker -> Content \cup {NoPage}]
    BY <1>12 DEF Update, PagesTypeOK
  <2> HIDE DEF content
  <2> QED
    BY <1>11, <2>1, <2>2, <2>3
<1>13. ASSUME NEW r \in Maker, Delete(r) PROVE PagesIInv'
  BY <1>13, PageStep DEF Delete, PagesTypeOK
<1>14. ASSUME NEW r \in Maker, DrawCard(r) \/ CardFails(r) PROVE PagesIInv'
  <2>1. card' \in [Maker -> Content \cup {NoPage}]
    BY <1>14 DEF DrawCard, CardFails, PagesTypeOK, Page
  <2> QED
    BY <1>14, <2>1, CardStays DEF DrawCard, CardFails
<1>15. ASSUME NEW r \in Maker, StoreCard(r) PROVE PagesIInv'
  <2>1. card[r] # NoPage /\ card' = [card EXCEPT ![r] = NoPage] /\ OfPage
    BY <1>15 DEF StoreCard
  <2>2. card' \in [Maker -> Content \cup {NoPage}]
    BY <2>1 DEF PagesTypeOK
  <2>3. CASE pages[r] = NoPage
    BY <1>15, <2>1, <2>2, <2>3, CardStays DEF StoreCard
  <2>4. CASE pages[r] # NoPage
    <3> DEFINE content == [card[r] EXCEPT !.card = TRUE]
    <3>1. content \in Content
      BY <2>1 DEF PagesTypeOK, Content
    <3>2. pages' = [pages EXCEPT ![r].content = content]
      BY <1>15, <2>4 DEF StoreCard
    <3> HIDE DEF content
    <3> QED
      BY <1>11, <2>1, <2>2, <2>4, <3>1, <3>2
  <2> QED
    BY <2>3, <2>4
<1>16. CASE UNCHANGED pageVars
  BY <1>16 DEF pageVars, PagesTypeOK, PagesFit, ClaimFits, AskFits, PageFits, MayHave,
               Distinct
<1> QED
  BY <1>1, <1>2, <1>3, <1>4, <1>6, <1>7, <1>8, <1>9, <1>10, <1>12, <1>13, <1>14,
     <1>15, <1>16 DEF PagesNext

(* Every reachable state of CustomPages has the declared types; uniqueHandle *)
(* always finds a handle that no page has.                                 *)
THEOREM PagesTypeCorrect == PagesSpec => []PagesTypeOK
<1>1. PagesIInv => PagesTypeOK
  BY DEF PagesIInv
<1> QED
  BY <1>1, PagesInitFit, PagesNextFit, PTL DEF PagesSpec

(* createCustomPage, whose questions are transactions before the insert,   *)
(* makes no page of a dog for one whose claim of it no moderator approved, *)
(* nor two with one handle, or one owner and dog.                          *)
THEOREM PagesStayOwned == PagesSpec => []PagesAreOwned
<1>1. PagesIInv => PagesAreOwned
  BY DEF PagesIInv, PagesFit, ClaimFits, PageFits, MayHave, Distinct, PagesAreOwned
<1> QED
  BY <1>1, PagesInitFit, PagesNextFit, PTL DEF PagesSpec

-----------------------------------------------------------------------------
(* The rows of dogs.                                                       *)

(* A row has an id that some site gives to its dog.  A row of one of the   *)
(* dogs O, those with cards of TheDogs alone, has the id of TheDogs, or,   *)
(* without a profile, that of the stud book.                               *)
RowFits(row, O) ==
    /\ row \in DogRow
    /\ row.brand = IdOf(row.brand[1], row.name)
    /\ row.source \in {NoDog, IdOf(StudBook, row.name), IdOf(TheDogs, row.name)}
    /\ row.name \in O =>
        /\ row.brand \in {IdOf(StudBook, row.name), IdOf(TheDogs, row.name)}
        /\ row.source = IdOf(TheDogs, row.name) => row.brand = IdOf(TheDogs, row.name)

Table(d, O) ==
    /\ d \in Seq(DogRow)
    /\ \A r \in DOMAIN d : RowFits(d[r], O)

\* A row of the dog, the one of TheDogs if it has no cards of others.
Has(d, r, a, O) ==
    /\ r \in DOMAIN d /\ d[r].name = a
    /\ a \in O => d[r].brand = IdOf(TheDogs, a)

\* What a row may become.
Becomes(old, new, O) ==
    /\ new.name = old.name
    /\ old.name \in O /\ old.brand = IdOf(TheDogs, old.name) =>
        new.brand = IdOf(TheDogs, old.name)

(* No row of the table d changes its name, or loses TheDogs' id, in e.     *)
Keeps(d, e, O) ==
    /\ DOMAIN d \subseteq DOMAIN e
    /\ \A r \in DOMAIN d : Becomes(d[r], e[r], O)

(* What the jobs hold of rows they looked up.                              *)
LookFits(d, j, O) ==
    /\ j.race \in Race /\ j.animal \in Racing
    /\ j.cards \in SUBSET Sites /\ j.cards # {}
    /\ j.named # NoDog => j.named \in DOMAIN d /\ d[j.named].name = j.animal
    /\ j.known \subseteq j.cards \X DOMAIN d
    /\ \A k \in j.known : Has(d, k[2], j.animal, O)
    /\ j.named = NoDog => j.known = {}

FetchFits(d, f) == f.row \in DOMAIN d /\ f.id[2] = d[f.row].name

ImportWork == [pc : {"find", "save"}, animal : Animal, row : Nat \cup {NoDog},
               again : BOOLEAN]

WorkFits(d, w, O) ==
    /\ w \in ImportWork
    /\ w.row # NoDog => Has(d, w.row, w.animal, O)

RunnersFit(d, run, O) ==
    /\ run \in [Race -> [Racing -> DOMAIN d \cup {NoDog}]]
    /\ \A race \in Race, a \in Racing :
        run[race][a] # NoDog => Has(d, run[race][a], a, O)

SyncsFit(d, looked, O) ==
    DOMAIN looked = Sync /\ \A s \in Sync : looked[s] # NoDog => LookFits(d, looked[s], O)

WorksFit(d, done, O) ==
    DOMAIN done = Import /\ \A i \in Import : done[i] # NoDog => WorkFits(d, done[i], O)

FetchingFits(d, f) == f # NoDog => FetchFits(d, f)

DogsFit(O) ==
    /\ Table(dog, O) /\ Len(dog) <= MaxRows /\ Unique(dog)
    /\ RunnersFit(dog, runner, O)
    /\ SyncsFit(dog, sync, O)
    /\ FetchingFits(dog, fetching)
    /\ WorksFit(dog, work, O)

\* The dogs with cards of TheDogs alone.
Only == {a \in Animal : carded[a] \subseteq {TheDogs}}

DogsIInv == carded \in [Animal -> SUBSET Sites] /\ DogsFit(Only)

(* What is true of more dogs is true of fewer.                             *)
LEMMA FewerFit ==
    ASSUME NEW O, NEW Q, Q \subseteq O, DogsFit(O)
    PROVE  DogsFit(Q)
<1>1. \A r, a : Has(dog, r, a, O) => Has(dog, r, a, Q)
  BY DEF Has
<1>2. Table(dog, Q)
  BY DEF DogsFit, Table, RowFits
<1>3. RunnersFit(dog, runner, Q)
  BY <1>1 DEF DogsFit, RunnersFit
<1>4. \A j : LookFits(dog, j, O) => LookFits(dog, j, Q)
  BY <1>1 DEF LookFits
<1>5. \A w : WorkFits(dog, w, O) => WorkFits(dog, w, Q)
  BY <1>1 DEF WorkFits
<1> QED
  BY <1>2, <1>3, <1>4, <1>5 DEF DogsFit, SyncsFit, WorksFit

LEMMA Rows ==
    ASSUME NEW d, NEW O, Table(d, O)
    PROVE  DOMAIN d = 1..Len(d) /\ Len(d) \in Nat /\ NoDog \notin DOMAIN d
BY DogsAssumption DEF Table

\* A row with an id of a dog is a row of that dog.
LEMMA IdNames ==
    ASSUME NEW d, NEW O, Table(d, O), NEW r \in DOMAIN d, NEW c, NEW a,
           d[r].brand = IdOf(c, a)
    PROVE  d[r].name = a
BY DEF Table, RowFits, IdOf

LEMMA SourceIsBrand ==
    ASSUME NEW d, NEW O, Table(d, O), NEW r \in DOMAIN d, NEW a \in Animal,
           d[r].source = IdOf(TheDogs, a) \/ d[r].brand = IdOf(TheDogs, a)
    PROVE  Has(d, r, a, O)
<1>1. RowFits(d[r], O) /\ d[r].name \in Animal
  BY DEF Table, RowFits, DogRow
<1>2. CASE d[r].brand = IdOf(TheDogs, a)
  BY <1>2, IdNames DEF Has
<1>3. CASE d[r].source = IdOf(TheDogs, a)
  <2> DEFINE b == d[r].name
  <2>1. IdOf(TheDogs, a) # NoDog
    <3>1. IdOf(TheDogs, a) \in Ids
      BY DEF IdOf, Ids
    <3> QED
      BY <3>1, DogsAssumption
  <2>2. IdOf(TheDogs, a) # IdOf(StudBook, b) /\ (IdOf(TheDogs, a) = IdOf(TheDogs, b) => a = b)
    BY DEF IdOf, TheDogs, StudBook
  <2>3. d[r].source \in {NoDog, IdOf(StudBook, b), IdOf(TheDogs, b)}
    BY <1>1 DEF RowFits
  <2>4. b = a
    BY <1>3, <2>1, <2>2, <2>3
  <2> QED
    BY <1>1, <1>3, <2>4 DEF RowFits, Has
<1> QED
  BY <1>2, <1>3

LEMMA KeepsKeeps ==
    ASSUME NEW d, NEW e, NEW f, NEW O, Keeps(d, e, O), Keeps(e, f, O)
    PROVE  Keeps(d, f, O)
BY DEF Keeps, Becomes

LEMMA HasStays ==
    ASSUME NEW d, NEW e, NEW O, Keeps(d, e, O)
    PROVE  \A r, a : Has(d, r, a, O) => Has(e, r, a, O)
BY DEF Has, Keeps, Becomes

(* What was looked up in a table is as true of one that keeps it.          *)
LEMMA RunnersStay ==
    ASSUME NEW d, NEW e, NEW O, Keeps(d, e, O), NEW run, RunnersFit(d, run, O)
    PROVE  RunnersFit(e, run, O)
<1>1. run \in [Race -> [Racing -> DOMAIN e \cup {NoDog}]]
  <2>1. [Racing -> DOMAIN d \cup {NoDog}] \subseteq [Racing -> DOMAIN e \cup {NoDog}]
    BY DEF Keeps
  <2> QED
    BY <2>1 DEF RunnersFit
<1> QED
  BY <1>1, HasStays DEF RunnersFit

LEMMA OthersStay ==
    ASSUME NEW d, NEW e, NEW O, Keeps(d, e, O)
    PROVE  /\ \A j : LookFits(d, j, O) => LookFits(e, j, O)
           /\ \A f : FetchFits(d, f) => FetchFits(e, f)
           /\ \A w : WorkFits(d, w, O) => WorkFits(e, w, O)
<1>1. DOMAIN d \subseteq DOMAIN e /\ \A r \in DOMAIN d : e[r].name = d[r].name
  BY DEF Keeps, Becomes
<1>2. ASSUME NEW j, LookFits(d, j, O) PROVE LookFits(e, j, O)
  <2>1. j.known \subseteq j.cards \X DOMAIN e
    BY <1>1, <1>2 DEF LookFits
  <2>2. \A k \in j.known : Has(e, k[2], j.animal, O)
    BY <1>2, HasStays DEF LookFits
  <2> QED
    BY <1>1, <1>2, <2>1, <2>2 DEF LookFits
<1>3. ASSUME NEW f, FetchFits(d, f) PROVE FetchFits(e, f)
  BY <1>1, <1>3 DEF FetchFits
<1>4. ASSUME NEW w, WorkFits(d, w, O) PROVE WorkFits(e, w, O)
  BY <1>4, HasStays DEF WorkFits
<1> QED
  BY <1>2, <1>3, <1>4

-----------------------------------------------------------------------------
(* Rows that are added or written.                                         *)
LEMMA RowAdded ==
    ASSUME NEW d, NEW O, Table(d, O), NEW row, RowFits(row, O)
    PROVE  /\ Table(Append(d, row), O) /\ Keeps(d, Append(d, row), O)
           /\ Len(Append(d, row)) = Len(d) + 1
           /\ Append(d, row)[Len(d) + 1] = row
           /\ \A r \in DOMAIN d : Append(d, row)[r] = d[r]
           /\ DOMAIN Append(d, row) = DOMAIN d \cup {Len(d) + 1}
<1>1. d \in Seq(DogRow) /\ row \in DogRow /\ Len(d) \in Nat /\ DOMAIN d = 1..Len(d)
  BY Rows DEF Table, RowFits
<1> DEFINE e == Append(d, row)
<1>2. /\ e \in Seq(DogRow) /\ Len(e) = Len(d) + 1
      /\ \A r \in 1..Len(d) : e[r] = d[r]
      /\ e[Len(d) + 1] = row
  BY <1>1
<1>3. DOMAIN e = DOMAIN d \cup {Len(d) + 1}
  BY <1>1, <1>2
<1> HIDE DEF e
<1>4. Table(e, O)
  BY <1>1, <1>2, <1>3 DEF Table
<1>5. Keeps(d, e, O)
  BY <1>1, <1>2, <1>3 DEF Keeps, Becomes
<1> QED
  BY <1>1, <1>2, <1>3, <1>4, <1>5 DEF e

LEMMA RowsWritten ==
    ASSUME NEW d, NEW O, Table(d, O), NEW e, DOMAIN e = DOMAIN d, e = [r \in DOMAIN d |-> e[r]],
           \A r \in DOMAIN d :
            RowFits(e[r], O) /\ Becomes(d[r], e[r], O)
    PROVE  Table(e, O) /\ Keeps(d, e, O) /\ Len(e) = Len(d)
<1>1. d \in Seq(DogRow) /\ Len(d) \in Nat /\ DOMAIN d = 1..Len(d)
  BY Rows DEF Table
<1>2. \A r \in 1..Len(d) : e[r] \in DogRow
  BY <1>1 DEF RowFits
<1>3. e \in [1..Len(d) -> DogRow]
  BY <1>1, <1>2
<1>4. e \in Seq(DogRow) /\ Len(e) = Len(d)
  BY <1>1, <1>3
<1> QED
  BY <1>4 DEF Table, Keeps

LEMMA SireAdded ==
    ASSUME NEW d, NEW O, Table(d, O), NEW a \in Animal
    PROVE  Table(WithSire(d, a), O) /\ Keeps(d, WithSire(d, a), O)
<1> DEFINE p == Sire[a]
           id == IdOf(TheDogs, p)
           row == NewRow(p, id, id)
           e == [r \in DOMAIN d |-> IF d[r].brand = id
                    THEN [d[r] EXCEPT !.source = id] ELSE d[r]]
<1>1. CASE p = NoDog
  BY <1>1 DEF WithSire, Keeps, Becomes
<1>2. CASE p # NoDog /\ Branded(d, id) = {}
  <2>1. p \in Animal
    BY <1>2, DogsAssumption
  <2>2. RowFits(row, O)
    BY <2>1 DEF NewRow, RowFits, DogRow, Ids, IdOf, TheDogs
  <2>3. WithSire(d, a) = Append(d, row)
    BY <1>2 DEF WithSire
  <2> HIDE DEF row
  <2> QED
    BY <2>2, <2>3, RowAdded
<1>3. CASE p # NoDog /\ Branded(d, id) # {}
  <2>1. WithSire(d, a) = e
    BY <1>3 DEF WithSire
  <2>2. ASSUME NEW r \in DOMAIN d
        PROVE  /\ RowFits(e[r], O) /\ e[r].name = d[r].name /\ e[r].brand = d[r].brand
    <3>1. RowFits(d[r], O)
      BY DEF Table
    <3>2. CASE d[r].brand = id
      <4>1. d[r].name = p
        BY <3>1, <3>2 DEF RowFits, IdOf
      <4>2. id \in Ids
        BY <3>1, <3>2 DEF RowFits, DogRow
      <4> QED
        BY <3>1, <3>2, <4>1, <4>2 DEF RowFits, DogRow
    <3>3. CASE d[r].brand # id
      BY <3>1, <3>3
    <3> QED
      BY <3>2, <3>3
  <2>3. DOMAIN e = DOMAIN d /\ e = [r \in DOMAIN d |-> e[r]]
    OBVIOUS
  <2>4. \A r \in DOMAIN d : RowFits(e[r], O) /\ Becomes(d[r], e[r], O)
    BY <2>2 DEF Becomes
  <2> HIDE DEF e
  <2> QED
    BY <2>1, <2>3, <2>4, RowsWritten
<1> QED
  BY <1>1, <1>2, <1>3

LEMMA ProfileWritten ==
    ASSUME NEW d, NEW O, Table(d, O), NEW r \in DOMAIN d,
           NEW brand \in Ids, brand = IdOf(brand[1], d[r].name),
           d[r].name \in O => brand = IdOf(TheDogs, d[r].name)
    PROVE  /\ Table(WithProfile(d, r, d[r].name, brand), O)
           /\ Keeps(d, WithProfile(d, r, d[r].name, brand), O)
           /\ Len(WithProfile(d, r, d[r].name, brand)) = Len(d)
<1> DEFINE a == d[r].name
           row == [name |-> a, brand |-> brand, source |-> IdOf(TheDogs, a), synced |-> TRUE]
           e == [d EXCEPT ![r] = row]
<1>1. RowFits(d[r], O) /\ a \in Animal
  BY DEF Table, RowFits, DogRow
<1>2. RowFits(row, O)
  BY <1>1 DEF RowFits, DogRow, Ids, IdOf, TheDogs
<1>3. WithProfile(d, r, a, brand) = e
  BY DEF WithProfile
<1>4. DOMAIN e = DOMAIN d /\ e = [q \in DOMAIN d |-> e[q]]
  OBVIOUS
<1>5. ASSUME NEW q \in DOMAIN d
      PROVE  RowFits(e[q], O) /\ Becomes(d[q], e[q], O)
  <2>1. CASE q = r
    BY <1>2, <2>1 DEF Becomes
  <2>2. CASE q # r
    BY <2>2 DEF Table, Becomes
  <2> QED
    BY <2>1, <2>2
<1> HIDE DEF e
<1> QED
  BY <1>3, <1>4, <1>5, RowsWritten

-----------------------------------------------------------------------------
LEMMA KeepsItself == ASSUME NEW d, NEW O PROVE Keeps(d, d, O)
BY DEF Keeps, Becomes

(* A step that keeps the rows, and looks up nothing but what is there.     *)
LEMMA DogsStep ==
    ASSUME NEW O, DogsFit(O), Table(dog', O), Len(dog') <= MaxRows, Unique(dog'), Keeps(dog, dog', O),
           RunnersFit(dog', runner', O),
           DOMAIN sync' = Sync,
           \A s \in Sync : sync'[s] \in {sync[s], NoDog} \/ LookFits(dog', sync'[s], O),
           fetching' \in {fetching, NoDog} \/ FetchFits(dog', fetching'),
           DOMAIN work' = Import,
           \A i \in Import : work'[i] \in {work[i], NoDog} \/ WorkFits(dog', work'[i], O)
    PROVE  DogsFit(O)'
<1>1. ASSUME NEW s \in Sync, sync'[s] # NoDog PROVE LookFits(dog', sync'[s], O)
  BY <1>1, OthersStay DEF DogsFit, SyncsFit
<1>2. ASSUME fetching' # NoDog PROVE FetchFits(dog', fetching')
  BY <1>2, OthersStay DEF DogsFit, FetchingFits
<1>3. ASSUME NEW i \in Import, work'[i] # NoDog PROVE WorkFits(dog', work'[i], O)
  BY <1>3, OthersStay DEF DogsFit, WorksFit
<1>4. SyncsFit(dog', sync', O) /\ FetchingFits(dog', fetching') /\ WorksFit(dog', work', O)
  BY <1>1, <1>2, <1>3 DEF SyncsFit, FetchingFits, WorksFit
<1> QED
  BY <1>4 DEF DogsFit

(* One that writes rows, and nothing else but what it held.                *)
LEMMA RowsStep ==
    ASSUME NEW O, DogsFit(O), Table(dog', O), Len(dog') <= MaxRows, Unique(dog'), Keeps(dog, dog', O),
           UNCHANGED <<runner, sync>>, fetching' \in {fetching, NoDog},
           DOMAIN work' = Import,
           \A i \in Import : work'[i] \in {work[i], NoDog} \/ WorkFits(dog', work'[i], O)
    PROVE  DogsFit(O)'
<1>1. RunnersFit(dog', runner', O)
  BY RunnersStay DEF DogsFit
<1> QED
  BY <1>1, DogsStep DEF DogsFit, SyncsFit

LEMMA NoRowsStep ==
    ASSUME NEW O, DogsFit(O), UNCHANGED <<dog, runner>>,
           DOMAIN sync' = Sync,
           \A s \in Sync : sync'[s] \in {sync[s], NoDog} \/ LookFits(dog, sync'[s], O),
           fetching' \in {fetching, NoDog} \/ FetchFits(dog, fetching'),
           DOMAIN work' = Import,
           \A i \in Import : work'[i] \in {work[i], NoDog} \/ WorkFits(dog, work'[i], O)
    PROVE  DogsFit(O)'
BY DogsStep, KeepsItself DEF DogsFit

LEMMA LookKeeps ==
    ASSUME NEW O, DogsFit(O), NEW s \in Sync, NEW race \in Race,
           NEW a \in Racing, NEW cards \in SUBSET Sites, Look(s, race, a, cards)
    PROVE  DogsFit(O)'
<1>1. cards # {}
  BY DEF Look
<1>2. PICK row \in OneOf(Named(a)) :
        sync' = [sync EXCEPT ![s] =
            [race |-> race, animal |-> a, cards |-> cards, named |-> row,
             known |-> {k \in cards \X DOMAIN dog : dog[k[2]].brand = IdOf(k[1], a)}]]
  BY DEF Look
<1> DEFINE known == {k \in cards \X DOMAIN dog : dog[k[2]].brand = IdOf(k[1], a)}
           j == [race |-> race, animal |-> a, cards |-> cards, named |-> row, known |-> known]
<1>3. ASSUME NEW k \in known PROVE Has(dog, k[2], a, O)
  <2>1. k[2] \in DOMAIN dog /\ k[1] \in Sites /\ dog[k[2]].brand = IdOf(k[1], a)
    OBVIOUS
  <2>2. dog[k[2]].name = a
    BY <2>1, IdNames DEF DogsFit
  <2>3. IdOf(k[1], a) # IdOf(StudBook, a)
    BY <2>1, DogsAssumption DEF IdOf, StudBook
  <2>4. a \in O => dog[k[2]].brand \in {IdOf(StudBook, a), IdOf(TheDogs, a)}
    BY <2>1, <2>2 DEF DogsFit, Table, RowFits
  <2> QED
    BY <2>1, <2>2, <2>3, <2>4 DEF Has
<1>4. row # NoDog => row \in DOMAIN dog /\ dog[row].name = a
  BY DEF OneOf, Named
<1>5. row = NoDog => known = {}
  <2>1. SUFFICES ASSUME row = NoDog, NEW k \in known PROVE FALSE
    OBVIOUS
  <2>2. k[2] \in Named(a)
    BY <1>3 DEF Has, Named
  <2>3. NoDog \notin DOMAIN dog
    BY Rows DEF DogsFit
  <2> QED
    BY <2>1, <2>2, <2>3 DEF OneOf, Named
<1>6. known \subseteq cards \X DOMAIN dog
  OBVIOUS
<1> HIDE DEF known
<1>7. LookFits(dog, j, O)
  BY <1>1, <1>3, <1>4, <1>5, <1>6 DEF LookFits
<1>8. sync' = [sync EXCEPT ![s] = j]
  BY <1>2 DEF known
<1> HIDE DEF j
<1>9. DOMAIN sync' = Sync /\ \A x \in Sync : sync'[x] = sync[x] \/ LookFits(dog, sync'[x], O)
  BY <1>7, <1>8 DEF DogsFit, SyncsFit
<1> QED
  BY <1>9, NoRowsStep DEF Look, DogsFit, WorksFit

-----------------------------------------------------------------------------
(* One of finitely many sites is the last: of the sets of later ones, one   *)
(* has no strict subset among them.                                        *)
LEMMA LatestIs ==
    ASSUME NEW S \in SUBSET Sites, S # {}
    PROVE  Latest(S) \in S
<1> DEFINE after(x) == {c \in S : c > x}
           T == {after(x) : x \in S}
<1>1. S \subseteq Nat /\ IsFiniteSet(S)
  BY DogsAssumption, FS_Subset
<1>2. T \subseteq FiniteSubsetsOf(S) /\ T # {}
  <2>1. \A x \in S : after(x) \subseteq S /\ IsFiniteSet(after(x))
    BY <1>1, FS_Subset
  <2> HIDE DEF after
  <2> QED
    BY <2>1 DEF FiniteSubsetsOf
<1>3. IsWellFoundedOn(StrictSubsetOrdering(S), FiniteSubsetsOf(S))
  BY FS_StrictSubsetOrderingWellFounded
<1>4. \E U \in T : \A V \in T : ~ (<<V, U>> \in StrictSubsetOrdering(S))
  <2> HIDE DEF T
  <2> QED
    BY <1>2, <1>3, WFMin
<1>5. PICK x \in S : \A c \in S : ~ (<<after(c), after(x)>> \in StrictSubsetOrdering(S))
  BY <1>4
<1>6. ASSUME NEW c \in S PROVE c <= x
  <2> SUFFICES ASSUME x < c PROVE FALSE
    BY <1>1
  <2>1. after(c) \subseteq after(x) /\ c \in after(x) /\ c \notin after(c)
    <3>1. ASSUME NEW b \in after(c) PROVE b \in after(x)
      <4>1. b \in S /\ b > c /\ b \in Nat /\ c \in Nat /\ x \in Nat
        BY <1>1
      <4> QED
        BY <4>1
    <3>2. c \in Nat /\ x \in Nat
      BY <1>1
    <3>3. c \in after(x)
      BY <3>2
    <3>4. c \notin after(c)
      BY <3>2
    <3> HIDE DEF after
    <3> QED
      BY <3>1, <3>3, <3>4
  <2>2. after(c) \in SUBSET S /\ after(x) \in SUBSET S
    OBVIOUS
  <2>3. <<after(c), after(x)>> \in StrictSubsetOrdering(S)
    <3> HIDE DEF after
    <3> QED
      BY <2>1, <2>2 DEF StrictSubsetOrdering
  <2> QED
    BY <1>5, <2>3
<1> QED
  BY <1>6 DEF Latest

LEMMA Listed ==
    ASSUME NEW S, IsFiniteSet(S)
    PROVE  /\ AsList(S) \in [1..Cardinality(S) -> S] /\ Cardinality(S) \in Nat
           /\ \A m, n \in DOMAIN AsList(S) : AsList(S)[m] = AsList(S)[n] => m = n
           /\ \A c \in S : \E n \in DOMAIN AsList(S) : AsList(S)[n] = c
<1>1. Cardinality(S) \in Nat /\ ExistsBijection(1..Cardinality(S), S)
  BY FS_CardinalityType
<1>2. PICK f \in Bijection(1..Cardinality(S), S) : TRUE
  BY <1>1 DEF ExistsBijection
<1>3. /\ f \in [1..Cardinality(S) -> S]
      /\ \A m, n \in DOMAIN f : f[m] = f[n] => m = n
      /\ \A c \in S : \E n \in DOMAIN f : f[n] = c
  BY <1>2 DEF Bijection, Injection, IsInjective, Surjection
<1> QED
  BY <1>1, <1>3 DEF AsList

(* Without a row of the name, a sync makes one for each id that no row has *)
(* by now.                                                                 *)
LEMMA MadeRows ==
    ASSUME NEW O, Table(dog, O), Unique(dog), NEW a \in Animal,
           NEW cards \in SUBSET Sites, a \in O => cards \subseteq {TheDogs}
    PROVE  /\ Table(Made(a, cards), O) /\ Unique(Made(a, cards))
           /\ Keeps(dog, Made(a, cards), O)
           /\ \A c \in cards : \E r \in DOMAIN Made(a, cards) :
                Made(a, cards)[r].brand = IdOf(c, a)
<1> DEFINE C == {c \in cards : Branded(dog, IdOf(c, a)) = {}}
           new == AsList(C)
           row(c) == NewRow(a, IdOf(c, a), NoDog)
           rows == [i \in DOMAIN new |-> row(new[i])]
           n == Cardinality(C)
           e == Made(a, cards)
<1>1. e = dog \o rows
  BY DEF Made
<1>2. IsFiniteSet(C)
  BY DogsAssumption, FS_Subset
<1>3. /\ new \in [1..n -> C] /\ n \in Nat
      /\ \A x, y \in 1..n : new[x] = new[y] => x = y
      /\ \A c \in C : \E x \in 1..n : new[x] = c
  <2> HIDE DEF C
  <2>1. /\ new \in [1..n -> C] /\ n \in Nat
        /\ \A x, y \in DOMAIN new : new[x] = new[y] => x = y
        /\ \A c \in C : \E x \in DOMAIN new : new[x] = c
    BY <1>2, Listed
  <2> HIDE DEF new, n
  <2>2. DOMAIN new = 1..n
    BY <2>1
  <2> QED
    BY <2>1, <2>2
<1>4. ASSUME NEW c \in C
      PROVE  /\ RowFits(row(c), O) /\ row(c) \in DogRow
             /\ row(c).brand = IdOf(c, a) /\ row(c).source = NoDog
  <2>1. row(c) \in DogRow
    BY DEF DogRow, Ids, IdOf, NewRow
  <2>2. a \in O => c = TheDogs
    OBVIOUS
  <2> QED
    BY <2>1, <2>2 DEF RowFits, IdOf, NewRow
<1>5. \A c \in C, r \in DOMAIN dog : dog[r].brand # IdOf(c, a)
  BY DEF Branded
<1>6. C \subseteq cards /\ \A c \in cards \ C : \E r \in DOMAIN dog : dog[r].brand = IdOf(c, a)
  BY DEF Branded
<1>7. \A b, c \in C : IdOf(b, a) = IdOf(c, a) => b = c
  BY DEF IdOf
<1> HIDE DEF C, new, row, n
<1>8. rows \in Seq(DogRow) /\ Len(rows) = n
  <2>1. rows \in [1..n -> DogRow]
    BY <1>3, <1>4
  <2> HIDE DEF rows
  <2> QED
    BY <1>3, <2>1
<1>9. /\ dog \in Seq(DogRow) /\ Len(dog) \in Nat /\ DOMAIN dog = 1..Len(dog)
  BY Rows DEF Table
<1>10. /\ e \in Seq(DogRow) /\ Len(e) = Len(dog) + n
       /\ \A i \in 1..Len(dog) + n : e[i] = IF i <= Len(dog) THEN dog[i] ELSE rows[i - Len(dog)]
  <2> HIDE DEF rows, e
  <2> QED
    BY <1>1, <1>8, <1>9, ConcatProperties
<1> HIDE DEF e
<1>11. DOMAIN e = 1..(Len(dog) + n)
  BY <1>3, <1>9, <1>10
<1>12. DOMAIN dog \subseteq DOMAIN e /\ \A r \in DOMAIN dog : e[r] = dog[r]
  <2>1. DOMAIN dog \subseteq DOMAIN e
    BY <1>3, <1>9, <1>11
  <2>2. ASSUME NEW r \in DOMAIN dog PROVE e[r] = dog[r]
    <3>1. r \in 1..(Len(dog) + n) /\ r <= Len(dog)
      BY <1>3, <1>9
    <3> QED
      BY <1>10, <3>1
  <2> QED
    BY <2>1, <2>2
<1>13. ASSUME NEW r \in DOMAIN e \ DOMAIN dog
       PROVE  r - Len(dog) \in 1..n /\ e[r] = row(new[r - Len(dog)])
  <2>1. r \in 1..(Len(dog) + n) /\ ~(r <= Len(dog)) /\ r - Len(dog) \in 1..n
    BY <1>3, <1>9, <1>11
  <2>2. e[r] = rows[r - Len(dog)]
    BY <1>10, <2>1
  <2> QED
    BY <1>3, <2>1, <2>2
<1>14. ASSUME NEW x \in 1..n
       PROVE  Len(dog) + x \in DOMAIN e /\ e[Len(dog) + x] = row(new[x])
  <2>1. /\ Len(dog) + x \in 1..(Len(dog) + n) /\ ~(Len(dog) + x <= Len(dog))
        /\ (Len(dog) + x) - Len(dog) = x
    BY <1>3, <1>9
  <2> QED
    BY <1>3, <1>10, <1>11, <2>1
<1> HIDE DEF rows
<1>15. ASSUME NEW r \in DOMAIN e \ DOMAIN dog
       PROVE  \E x \in 1..n : /\ x = r - Len(dog) /\ new[x] \in C
                              /\ RowFits(e[r], O)
                              /\ e[r].brand = IdOf(new[x], a) /\ e[r].source = NoDog
  BY <1>3, <1>4, <1>13
<1>16. Table(e, O) /\ Keeps(dog, e, O)
  <2>1. \A r \in DOMAIN e : RowFits(e[r], O)
    BY <1>12, <1>15 DEF Table
  <2> QED
    BY <1>10, <1>12, <2>1 DEF Table, Keeps, Becomes
<1>17. Unique(e)
  <2> SUFFICES ASSUME NEW q \in DOMAIN e, NEW r \in DOMAIN e, q # r
               PROVE  /\ e[q].brand # e[r].brand
                      /\ e[q].source # NoDog => e[q].source # e[r].source
    BY DEF Unique
  <2>1. CASE q \in DOMAIN dog /\ r \in DOMAIN dog
    BY <1>12, <2>1 DEF Unique
  <2>2. CASE q \in DOMAIN dog /\ r \notin DOMAIN dog
    BY <1>5, <1>12, <1>15, <2>2
  <2>3. CASE q \notin DOMAIN dog /\ r \in DOMAIN dog
    BY <1>5, <1>12, <1>15, <2>3
  <2>4. CASE q \notin DOMAIN dog /\ r \notin DOMAIN dog
    <3>1. q \in Int /\ r \in Int /\ Len(dog) \in Int
      BY <1>9, <1>11
    <3>2. PICK x \in 1..n : /\ x = q - Len(dog) /\ new[x] \in C
                            /\ e[q].brand = IdOf(new[x], a) /\ e[q].source = NoDog
      BY <1>15, <2>4
    <3>3. PICK y \in 1..n : /\ y = r - Len(dog) /\ new[y] \in C
                            /\ e[r].brand = IdOf(new[y], a)
      BY <1>15, <2>4
    <3>4. x # y
      BY <3>1, <3>2, <3>3
    <3> QED
      BY <1>3, <1>7, <3>2, <3>3, <3>4
  <2> QED
    BY <2>1, <2>2, <2>3, <2>4
<1>18. ASSUME NEW c \in cards
       PROVE  \E r \in DOMAIN e : e[r].brand = IdOf(c, a)
  <2>1. CASE c \in C
    <3>1. PICK x \in 1..n : new[x] = c
      BY <1>3, <2>1
    <3> QED
      BY <1>4, <1>14, <2>1, <3>1
  <2>2. CASE c \notin C
    <3>1. PICK r \in DOMAIN dog : dog[r].brand = IdOf(c, a)
      BY <1>6, <2>2
    <3> QED
      BY <1>12, <3>1
  <2> QED
    BY <2>1, <2>2
<1> QED
  BY <1>16, <1>17, <1>18 DEF e

-----------------------------------------------------------------------------
(* What a sync has looked up, it writes to a row of the dog, the one with  *)
(* TheDogs' id if it has no cards of others.                               *)
LEMMA Resolves ==
    ASSUME NEW O, DogsFit(O), NEW j, LookFits(dog, j, O), ~Clash(j),
           j.animal \in O => j.cards \subseteq {TheDogs}
    PROVE  /\ Table(Resolved(j), O) /\ Unique(Resolved(j)) /\ Keeps(dog, Resolved(j), O)
           /\ Has(Resolved(j), RowFor(j, Resolved(j)), j.animal, O)
<1> DEFINE a == j.animal
           last == Latest(j.cards)
           known == (CHOOSE k \in j.known : k[1] = last)[2]
<1>1. /\ a \in Animal /\ Table(dog, O) /\ Unique(dog)
      /\ NoDog \notin DOMAIN dog /\ dog \in Seq(DogRow)
      /\ j.cards \in SUBSET Sites
  BY DogsAssumption, Rows DEF LookFits, DogsFit, Table
<1>2. last \in j.cards
  BY <1>1, LatestIs DEF LookFits
<1>3. IsKnown(j, last) => Has(dog, known, a, O)
  BY DEF IsKnown, LookFits
<1>4. \A d : IsKnown(j, last) => RowFor(j, d) = known
  BY DEF RowFor
<1>5. CASE j.named # NoDog /\ Unknown(j) = {}
  <2>1. Resolved(j) = dog
    BY <1>5 DEF Resolved, Rebranded
  <2>2. IsKnown(j, last)
    BY <1>2, <1>5 DEF Unknown
  <2>3. Has(dog, RowFor(j, dog), a, O)
    <3> HIDE DEF known, last
    <3> QED
      BY <1>3, <1>4, <2>2
  <2> QED
    BY <1>1, <2>1, <2>3, KeepsItself
<1>6. CASE j.named # NoDog /\ Unknown(j) # {}
  <2> DEFINE n == j.named
             u == Latest(Unknown(j))
             id == IdOf(u, a)
             row == [dog[n] EXCEPT !.brand = id]
             e == [dog EXCEPT ![n] = row]
  <2>1. n \in DOMAIN dog /\ dog[n].name = a /\ RowFits(dog[n], O)
    BY <1>1, <1>6 DEF LookFits, Table
  <2>2. Unknown(j) \in SUBSET Sites
    BY <1>1 DEF Unknown
  <2>3. u \in Unknown(j) /\ u \in Sites
    BY <1>6, <2>2, LatestIs
  <2>4. a \in O => u = TheDogs
    BY <2>3 DEF Unknown
  <2>5. \A q \in DOMAIN dog : q # n => dog[q].brand # id
    BY <1>6, <2>3 DEF Clash, Branded
  <2>6. Resolved(j) = e
    BY <1>6 DEF Resolved, Rebranded
  <2>7. ~IsKnown(j, last) => RowFor(j, e) = n
    BY <1>6 DEF RowFor
  <2> HIDE DEF u
  <2>8. /\ RowFits(row, O) /\ row.name = a /\ row.brand = id
        /\ row.source = dog[n].source
    <3>1. id \in Ids
      BY <1>1, <2>3 DEF Ids, IdOf
    <3> HIDE DEF id
    <3>2. /\ row \in DogRow /\ row.name = a /\ row.brand = id
          /\ row.source = dog[n].source
      BY <2>1, <3>1 DEF RowFits, DogRow
    <3> HIDE DEF row
    <3>3. row.brand = IdOf(row.brand[1], a)
      BY <3>2 DEF id, IdOf
    <3>4. a \in O => row.brand = IdOf(TheDogs, a)
      BY <2>4, <3>2 DEF id
    <3> QED
      BY <2>1, <3>2, <3>3, <3>4 DEF RowFits
  <2>9. /\ DOMAIN e = DOMAIN dog /\ e = [q \in DOMAIN dog |-> e[q]]
        /\ e[n] = row /\ \A q \in DOMAIN dog \ {n} : e[q] = dog[q]
    BY <2>1
  <2> HIDE DEF e, row
  <2>10. ASSUME NEW q \in DOMAIN dog
         PROVE  RowFits(e[q], O) /\ Becomes(dog[q], e[q], O)
    <3>1. CASE q = n
      BY <2>1, <2>4, <2>8, <2>9, <3>1 DEF Becomes
    <3>2. CASE q # n
      BY <1>1, <2>9, <3>2 DEF Becomes, Table
    <3> QED
      BY <3>1, <3>2
  <2>11. Table(e, O) /\ Keeps(dog, e, O)
    BY <1>1, <2>9, <2>10, RowsWritten
  <2>12. Unique(e)
    <3> HIDE DEF id
    <3> QED
      BY <1>1, <2>1, <2>5, <2>8, <2>9 DEF Unique
  <2>13. Has(e, n, a, O)
    BY <2>1, <2>4, <2>8, <2>9 DEF Has
  <2>14. Has(e, RowFor(j, e), a, O)
    <3> HIDE DEF last, known, n
    <3>1. CASE IsKnown(j, last)
      BY <1>3, <1>4, <2>11, <3>1, HasStays
    <3>2. CASE ~IsKnown(j, last)
      BY <2>7, <2>13, <3>2
    <3> QED
      BY <3>1, <3>2
  <2> QED
    BY <2>6, <2>11, <2>12, <2>14
<1>7. CASE j.named = NoDog
  <2> DEFINE e == Resolved(j)
  <2>1. j.known = {}
    BY <1>7 DEF LookFits
  <2>2. Unknown(j) = j.cards /\ ~IsKnown(j, last)
    BY <2>1 DEF Unknown, IsKnown
  <2>3. e = Made(a, j.cards)
    BY <1>7, <2>2 DEF Resolved
  <2>4. RowFor(j, e) = CHOOSE r \in DOMAIN e : e[r].brand = IdOf(last, a)
    BY <1>7, <2>2 DEF RowFor
  <2> HIDE DEF e, last
  <2>5. /\ Table(e, O) /\ Unique(e) /\ Keeps(dog, e, O)
        /\ \E r \in DOMAIN e : e[r].brand = IdOf(last, a)
    BY <1>1, <1>2, <2>3, MadeRows
  <2>6. RowFor(j, e) \in DOMAIN e /\ e[RowFor(j, e)].brand = IdOf(last, a)
    BY <2>4, <2>5
  <2>7. e[RowFor(j, e)].name = a
    BY <2>5, <2>6, IdNames
  <2>8. a \in O => last = TheDogs
    BY <1>2
  <2>9. Has(e, RowFor(j, e), a, O)
    BY <2>6, <2>7, <2>8 DEF Has
  <2> QED
    BY <2>5, <2>9 DEF e
<1> QED
  BY <1>5, <1>6, <1>7

(* A sync that writes cards of another site leaves fewer dogs with those of *)
(* TheDogs alone.                                                          *)
LEMMA WriteKeeps ==
    ASSUME DogsIInv, NEW s \in Sync, WriteDogs(s)
    PROVE  DogsIInv'
<1> DEFINE j == sync[s]
<1>1. /\ j # NoDog /\ LookFits(dog, j, Only)
      /\ sync' = [sync EXCEPT ![s] = NoDog] /\ UNCHANGED <<fetching, work>>
  BY DEF WriteDogs, DogsIInv, DogsFit, SyncsFit
<1>2. /\ DOMAIN sync' = Sync
      /\ \A x \in Sync : sync'[x] \in {sync[x], NoDog}
      /\ DOMAIN work' = Import
  BY <1>1 DEF DogsIInv, DogsFit, SyncsFit, WorksFit
<1>3. /\ j.animal \in Racing /\ j.animal \in Animal /\ j.race \in Race
      /\ j.cards \in SUBSET Sites
  BY <1>1, DogsAssumption DEF LookFits
<1>4. CASE Clash(j)
  <2>1. UNCHANGED <<dog, runner, carded>>
    BY <1>4 DEF WriteDogs
  <2>2. PICK O : O = Only
    OBVIOUS
  <2>3. DogsFit(O) /\ Only' = O
    BY <2>1, <2>2 DEF DogsIInv, Only
  <2>4. DogsFit(O)'
    BY <1>1, <1>2, <2>1, <2>3, NoRowsStep
  <2> QED
    BY <2>1, <2>3, <2>4 DEF DogsIInv
<1>5. CASE ~Clash(j)
  <2> DEFINE e == Resolved(j)
             row == RowFor(j, e)
  <2>1. /\ Len(e) <= MaxRows /\ dog' = e
        /\ runner' = [runner EXCEPT ![j.race][j.animal] = row]
        /\ carded' = [carded EXCEPT ![j.animal] = @ \cup j.cards]
    BY <1>5 DEF WriteDogs
  <2>2. carded' \in [Animal -> SUBSET Sites]
    BY <1>3, <2>1 DEF DogsIInv
  <2>3. PICK O : O = Only'
    OBVIOUS
  <2>4. O \subseteq Only
    BY <1>3, <2>1, <2>3 DEF Only, DogsIInv
  <2>5. j.animal \in O => j.cards \subseteq {TheDogs}
    BY <1>3, <2>1, <2>3 DEF Only, DogsIInv
  <2>6. DogsFit(O)
    BY <2>4, FewerFit DEF DogsIInv
  <2>7. LookFits(dog, j, O)
    BY <1>1, <2>6 DEF DogsFit, SyncsFit
  <2>8. Table(e, O) /\ Unique(e) /\ Keeps(dog, e, O) /\ Has(e, row, j.animal, O)
    BY <1>5, <2>5, <2>6, <2>7, Resolves
  <2> HIDE DEF e, row, j
  <2>9. RunnersFit(e, runner, O)
    BY <2>6, <2>8, RunnersStay DEF DogsFit
  <2>10. row \in DOMAIN e
    BY <2>8 DEF Has
  <2>11. RunnersFit(e, runner', O)
    BY <1>3, <2>1, <2>8, <2>9, <2>10 DEF RunnersFit
  <2>12. DogsFit(O)'
    BY <1>1, <1>2, <2>1, <2>6, <2>8, <2>11, DogsStep
  <2> QED
    BY <2>2, <2>3, <2>12 DEF DogsIInv
<1> QED
  BY <1>4, <1>5

LEMMA SaveKeeps ==
    ASSUME NEW O, DogsFit(O), Save
    PROVE  DogsFit(O)'
<1> DEFINE a == fetching.id[2]
           r == fetching.row
           d == WithSire(dog, a)
           e == WithProfile(d, r, a, IdOf(TheDogs, a))
<1>1. /\ r \in DOMAIN dog /\ a = dog[r].name /\ a \in Animal
      /\ Table(dog, O)
  BY DEF Save, DogsFit, FetchingFits, FetchFits, Table, RowFits, DogRow
<1>2. Unique(e) /\ Len(e) <= MaxRows /\ dog' = e /\ fetching' = NoDog
      /\ UNCHANGED <<runner, sync, work>>
  BY DEF Save
<1>3. Table(d, O) /\ Keeps(dog, d, O)
  BY <1>1, SireAdded
<1>4. r \in DOMAIN d /\ d[r].name = a
  <2> HIDE DEF d, a
  <2> QED
    BY <1>1, <1>3 DEF Keeps, Becomes
<1>5. Table(e, O) /\ Keeps(d, e, O)
  <2>1. IdOf(TheDogs, a) \in Ids /\ IdOf(TheDogs, a) = IdOf(IdOf(TheDogs, a)[1], a)
    BY <1>1 DEF Ids, IdOf
  <2> QED
    BY <1>3, <1>4, <2>1, ProfileWritten
<1>6. Keeps(dog, e, O)
  BY <1>3, <1>5, KeepsKeeps
<1> HIDE DEF e
<1> QED
  BY <1>2, <1>5, <1>6, RowsStep DEF DogsFit, WorksFit

LEMMA ImportSireKeeps ==
    ASSUME NEW O, DogsFit(O), NEW i \in Import, NEW a \in Animal, ImportSire(i, a)
    PROVE  DogsFit(O)'
<1> DEFINE e == WithSire(dog, a)
           w == [pc |-> "find", animal |-> a, row |-> NoDog, again |-> FALSE]
<1>1. /\ Len(e) <= MaxRows /\ Unique(e) /\ dog' = e
      /\ work' = [work EXCEPT ![i] = w] /\ UNCHANGED <<runner, sync, fetching>>
  BY DEF ImportSire
<1>2. Table(e, O) /\ Keeps(dog, e, O)
  BY SireAdded DEF DogsFit
<1>3. WorkFits(e, w, O)
  BY DEF WorkFits, ImportWork
<1> HIDE DEF e, w
<1>4. /\ DOMAIN work' = Import
      /\ \A x \in Import : work'[x] = work[x] \/ WorkFits(e, work'[x], O)
  BY <1>1, <1>3 DEF DogsFit, WorksFit
<1> QED
  BY <1>1, <1>2, <1>4, RowsStep

LEMMA FindKeeps ==
    ASSUME NEW O, DogsFit(O), NEW i \in Import, Find(i)
    PROVE  DogsFit(O)'
<1> DEFINE a == work[i].animal
<1>1. WorkFits(dog, work[i], O) /\ DOMAIN work = Import
  BY DEF Find, DogsFit, WorksFit
<1>2. PICK row \in OneOf(FoundProfile(a)) :
        work' = [work EXCEPT ![i] =
            IF row = NoDog /\ work[i].again THEN NoDog
            ELSE [work[i] EXCEPT !.pc = "save", !.row = row]]
  BY DEF Find
<1>3. row # NoDog => Has(dog, row, a, O)
  <2>1. SUFFICES ASSUME row # NoDog PROVE Has(dog, row, a, O)
    OBVIOUS
  <2>2. row \in FoundProfile(a)
    BY <2>1 DEF OneOf
  <2>3. row \in DOMAIN dog /\ (dog[row].source = IdOf(TheDogs, a) \/ dog[row].brand = IdOf(TheDogs, a))
    BY <2>2 DEF FoundProfile
  <2>4. a \in Animal /\ Table(dog, O)
    BY <1>1 DEF WorkFits, ImportWork, DogsFit
  <2> QED
    BY <2>3, <2>4, SourceIsBrand
<1>4. WorkFits(dog, [work[i] EXCEPT !.pc = "save", !.row = row], O)
  <2>1. row \in Nat \cup {NoDog}
    BY <1>3, Rows DEF Has, DogsFit
  <2> QED
    BY <1>1, <1>3, <2>1 DEF WorkFits, ImportWork
<1>5. /\ DOMAIN work' = Import
      /\ \A x \in Import : work'[x] \in {work[x], NoDog} \/ WorkFits(dog, work'[x], O)
  BY <1>1, <1>2, <1>4
<1> QED
  BY <1>5, NoRowsStep DEF Find, DogsFit, SyncsFit

LEMMA ImportSaveKeeps ==
    ASSUME NEW O, DogsFit(O), NEW i \in Import, ImportSave(i)
    PROVE  DogsFit(O)'
<1> DEFINE w == work[i]
           a == w.animal
           id == IdOf(TheDogs, a)
           r == w.row
           new == [name |-> a, brand |-> id, source |-> id, synced |-> TRUE]
           d == IF r # NoDog THEN WithProfile(dog, r, a, dog[r].brand)
                ELSE Append(dog, new)
           next == IF Unique(d) \/ r # NoDog \/ w.again THEN NoDog
                   ELSE [w EXCEPT !.pc = "find", !.again = TRUE]
<1>1. /\ WorkFits(dog, w, O) /\ DOMAIN work = Import /\ Table(dog, O)
  BY DEF ImportSave, DogsFit, WorksFit
<1>2. /\ Len(d) <= MaxRows /\ dog' = IF Unique(d) THEN d ELSE dog
      /\ work' = [work EXCEPT ![i] = next] /\ UNCHANGED <<runner, sync, fetching>>
  BY DEF ImportSave
<1>3. Table(d, O) /\ Keeps(dog, d, O)
  <2>1. CASE r # NoDog
    <3>1. r \in DOMAIN dog /\ dog[r].name = a /\ (a \in O => dog[r].brand = id)
      BY <1>1, <2>1 DEF WorkFits, Has
    <3>2. dog[r].brand \in Ids /\ dog[r].brand = IdOf(dog[r].brand[1], a)
      BY <1>1, <3>1 DEF Table, RowFits, DogRow
    <3> QED
      BY <1>1, <2>1, <3>1, <3>2, ProfileWritten
  <2>2. CASE r = NoDog
    <3>1. RowFits(new, O)
      BY <1>1 DEF WorkFits, ImportWork, RowFits, DogRow, Ids, IdOf, TheDogs
    <3> HIDE DEF new
    <3> QED
      BY <1>1, <2>2, <3>1, RowAdded
  <2> QED
    BY <2>1, <2>2
<1>4. /\ Table(dog', O) /\ Keeps(dog, dog', O) /\ Len(dog') <= MaxRows /\ Unique(dog')
  BY <1>2, <1>3, KeepsItself DEF DogsFit
<1>5. next = NoDog \/ WorkFits(dog', next, O)
  <2>1. WorkFits(dog', w, O)
    BY <1>1, <1>4, OthersStay
  <2> QED
    BY <2>1 DEF WorkFits, ImportWork
<1> HIDE DEF next, d
<1>6. /\ DOMAIN work' = Import
      /\ \A x \in Import : work'[x] \in {work[x], NoDog} \/ WorkFits(dog', work'[x], O)
  BY <1>1, <1>2, <1>5
<1> QED
  BY <1>2, <1>4, <1>6, RowsStep

LEMMA RegisterKeeps ==
    ASSUME NEW O, DogsFit(O), NEW a \in Racing, Register(a)
    PROVE  DogsFit(O)'
<1> DEFINE id == IdOf(StudBook, a)
           row == NewRow(a, id, id)
           e == Append(dog, row)
<1>1. /\ Unique(e) /\ Len(e) <= MaxRows /\ dog' = e
      /\ UNCHANGED <<runner, sync, fetching, work>>
  BY DEF Register
<1>2. a \in Animal /\ Table(dog, O)
  BY DogsAssumption DEF DogsFit
<1>3. RowFits(row, O)
  BY <1>2 DEF NewRow, RowFits, DogRow, Ids, IdOf, TheDogs, StudBook
<1> HIDE DEF row
<1>4. Table(e, O) /\ Keeps(dog, e, O)
  BY <1>2, <1>3, RowAdded
<1> HIDE DEF e
<1> QED
  BY <1>1, <1>4, RowsStep DEF DogsFit, WorksFit

LEMMA DogsInitFit ==
    ASSUME DogsInit
    PROVE  DogsIInv
<1>1. dog = <<>> /\ Len(dog) = 0 /\ DOMAIN dog = {} /\ dog \in Seq(DogRow)
  BY DEF DogsInit
<1>2. Table(dog, Only) /\ Unique(dog) /\ Len(dog) <= MaxRows
  BY <1>1, DogsAssumption DEF Table, Unique
<1>3. RunnersFit(dog, runner, Only)
  BY DEF DogsInit, RunnersFit
<1>4. SyncsFit(dog, sync, Only) /\ WorksFit(dog, work, Only) /\ FetchingFits(dog, fetching)
  BY DEF DogsInit, SyncsFit, WorksFit, FetchingFits
<1>5. carded \in [Animal -> SUBSET Sites]
  BY DEF DogsInit
<1> QED
  BY <1>2, <1>3, <1>4, <1>5 DEF DogsIInv, DogsFit

(* Every other step leaves the dogs the cards they had.                    *)
LEMMA OtherStep ==
    ASSUME NEW O, DogsFit(O),
           \/ \E s \in Sync, race \in Race, a \in Racing, cards \in SUBSET Sites :
                Look(s, race, a, cards)
           \/ \E r \in DogId : List(r)
           \/ Save \/ GiveUp
           \/ \E i \in Import : (\E a \in Animal : ImportSire(i, a)) \/ Find(i) \/ ImportSave(i)
           \/ \E a \in Racing : Register(a)
           \/ \E p \in Sync \cup Import : Die(p)
           \/ UNCHANGED identityVars
    PROVE  DogsFit(O)' /\ carded' = carded
<1>1. ASSUME NEW s \in Sync, NEW race \in Race, NEW a \in Racing,
             NEW cards \in SUBSET Sites, Look(s, race, a, cards)
      PROVE  DogsFit(O)' /\ carded' = carded
  <2>1. DogsFit(O)'
    BY <1>1, LookKeeps
  <2>2. carded' = carded
    BY <1>1 DEF Look
  <2> QED
    BY <2>1, <2>2
<1>2. ASSUME NEW r \in DogId, List(r) PROVE DogsFit(O)' /\ carded' = carded
  <2>1. RowFits(dog[r], O) /\ r \in DOMAIN dog
    BY <1>2 DEF List, DogsFit, Table
  <2>2. FetchFits(dog, fetching')
    <3>1. dog[r].source # NoDog => dog[r].source[2] = dog[r].name
      BY <2>1 DEF RowFits, IdOf
    <3>2. dog[r].brand[2] = dog[r].name
      BY <2>1 DEF RowFits, IdOf
    <3> QED
      BY <1>2, <2>1, <3>1, <3>2 DEF List, FetchFits
  <2> QED
    BY <1>2, <2>2, NoRowsStep DEF List, DogsFit, SyncsFit, WorksFit
<1>3. CASE Save
  BY <1>3, SaveKeeps DEF Save
<1>4. CASE GiveUp
  BY <1>4, NoRowsStep DEF GiveUp, DogsFit, SyncsFit, WorksFit
<1>5. ASSUME NEW i \in Import, NEW a \in Animal, ImportSire(i, a)
      PROVE  DogsFit(O)' /\ carded' = carded
  BY <1>5, ImportSireKeeps DEF ImportSire
<1>6. ASSUME NEW i \in Import, Find(i) \/ ImportSave(i)
      PROVE  DogsFit(O)' /\ carded' = carded
  BY <1>6, FindKeeps, ImportSaveKeeps DEF Find, ImportSave
<1>7. ASSUME NEW a \in Racing, Register(a) PROVE DogsFit(O)' /\ carded' = carded
  BY <1>7, RegisterKeeps DEF Register
<1>8. ASSUME NEW p \in Sync \cup Import, Die(p) PROVE DogsFit(O)' /\ carded' = carded
  BY <1>8, NoRowsStep DEF Die
<1>9. CASE UNCHANGED identityVars
  BY <1>9, NoRowsStep DEF identityVars, DogsFit, SyncsFit, WorksFit
<1> QED
  BY <1>1, <1>2, <1>3, <1>4, <1>5, <1>6, <1>7, <1>8, <1>9

LEMMA DogsNextFit ==
    ASSUME DogsIInv, [DogsNext]_identityVars
    PROVE  DogsIInv'
<1>1. CASE \E s \in Sync : WriteDogs(s)
  BY <1>1, WriteKeeps
<1>2. CASE ~ \E s \in Sync : WriteDogs(s)
  <2>1. PICK O : O = Only
    OBVIOUS
  <2>2. DogsFit(O)' /\ carded' = carded
    BY <1>2, <2>1, OtherStep DEF DogsNext, DogsIInv
  <2>3. Only' = O
    BY <2>1, <2>2 DEF Only
  <2> QED
    BY <2>2, <2>3 DEF DogsIInv
<1> QED
  BY <1>1, <1>2

(* The table of dogs, and what each job holds of it, keep their types.     *)
THEOREM DogsTypeCorrect == DogsSpec => []DogsTypeOK
<1>1. ASSUME DogsIInv PROVE DogsTypeOK
  <2>1. Len(dog) <= MaxRows /\ Unique(dog) /\ \A r \in DOMAIN dog : dog[r] \in DogRow
    BY <1>1 DEF DogsIInv, DogsFit, Table, RowFits
  <2>2. runner \in [Race -> [Racing -> DOMAIN dog \cup {NoDog}]]
    BY <1>1 DEF DogsIInv, DogsFit, RunnersFit
  <2>3. \A s \in Sync : sync[s] # NoDog => sync[s].named \in DOMAIN dog \cup {NoDog}
    BY <1>1 DEF DogsIInv, DogsFit, SyncsFit, LookFits
  <2>4. fetching # NoDog => fetching.row \in DOMAIN dog
    BY <1>1 DEF DogsIInv, DogsFit, FetchingFits, FetchFits
  <2>5. \A i \in Import : work[i] # NoDog => work[i].row \in DOMAIN dog \cup {NoDog}
    BY <1>1 DEF DogsIInv, DogsFit, WorksFit, WorkFits, Has
  <2> QED
    BY <1>1, <2>1, <2>2, <2>3, <2>4, <2>5 DEF DogsTypeOK, DogsIInv
<1>2. DogsInit => DogsIInv
  BY DogsInitFit
<1>3. DogsIInv /\ [DogsNext]_identityVars => DogsIInv'
  BY DogsNextFit
<1> QED
  BY <1>1, <1>2, <1>3, PTL DEF DogsSpec

(* Whatever sites are synced, all races of a greyhound that only TheDogs   *)
(* has written cards of, and its profile, are on one row, and no race of a *)
(* greyhound is on the row of another, whichever syncs, profile jobs and   *)
(* imports overlap, and although each writes by what it looked up before.  *)
THEOREM RacesAreOnOneRow == DogsSpec => []OneSiteOneRow
<1>1. ASSUME DogsIInv PROVE OneSiteOneRow
  <2> SUFFICES ASSUME NEW a \in Racing, NEW race \in Race, runner[race][a] # NoDog
               PROVE  /\ dog[runner[race][a]].name = a
                      /\ carded[a] \subseteq {TheDogs} =>
                          /\ \A other \in Race :
                              runner[other][a] \in {NoDog, runner[race][a]}
                          /\ \A q \in DOMAIN dog :
                              dog[q].source = IdOf(TheDogs, a) => q = runner[race][a]
    BY DEF OneSiteOneRow
  <2>1. \A other \in Race : runner[other][a] # NoDog => Has(dog, runner[other][a], a, Only)
    BY <1>1 DEF DogsIInv, DogsFit, RunnersFit
  <2>2. dog[runner[race][a]].name = a
    BY <2>1 DEF Has
  <2>3. SUFFICES ASSUME carded[a] \subseteq {TheDogs}
                 PROVE  /\ \A other \in Race :
                              runner[other][a] \in {NoDog, runner[race][a]}
                        /\ \A q \in DOMAIN dog :
                              dog[q].source = IdOf(TheDogs, a) => q = runner[race][a]
    BY <2>2
  <2>4. a \in Only
    BY <2>3, DogsAssumption DEF Only
  <2>5. \A q, r \in DOMAIN dog : dog[q].brand = dog[r].brand => q = r
    BY <1>1 DEF DogsIInv, DogsFit, Unique
  <2>6. ASSUME NEW q \in DOMAIN dog, dog[q].source = IdOf(TheDogs, a)
        PROVE  dog[q].brand = IdOf(TheDogs, a)
    BY <1>1, <2>4, <2>6, SourceIsBrand, DogsAssumption DEF DogsIInv, DogsFit, Has
  <2>7. Has(dog, runner[race][a], a, Only)
    BY <2>1
  <2>8. \A other \in Race : runner[other][a] \in {NoDog, runner[race][a]}
    BY <2>1, <2>4, <2>5, <2>7 DEF Has
  <2>9. \A q \in DOMAIN dog : dog[q].source = IdOf(TheDogs, a) => q = runner[race][a]
    BY <2>4, <2>5, <2>6, <2>7 DEF Has
  <2> QED
    BY <2>8, <2>9
<1>2. DogsInit => DogsIInv
  BY DogsInitFit
<1>3. DogsIInv /\ [DogsNext]_identityVars => DogsIInv'
  BY DogsNextFit
<1> QED
  BY <1>1, <1>2, <1>3, PTL DEF DogsSpec

-----------------------------------------------------------------------------
(* Agents and their memory.                                                *)

(* What a request has done is what its next step says, whatever the row's  *)
(* status has become meanwhile.                                            *)
RunFits(r) ==
    /\ request[r] # "none" => Allowed(r)
    /\ request[r] \in {"complete", "charge", "audit"} => r \in memories
    /\ request[r] \in {"charge", "audit"} => r \in output
    /\ request[r] = "audit" => r \in usage
    /\ r \in usage => r \in output /\ r \in memories /\ Allowed(r)
    /\ status[r] = "completed" =>
        request[r] \in {"charge", "audit", "catch"} \/ r \in crashed \cup usage

RunsIInv == RunsTypeOK /\ \A r \in Run : RunFits(r)

LEMMA RunsInitFit == RunsInit => RunsIInv
BY DEF RunsInit, RunsIInv, RunsTypeOK, RunFits, Step

(* Another run, of which nothing changes, fits as before.                  *)
LEMMA OtherRunFits ==
    ASSUME NEW o \in Run, RunFits(o),
           status'[o] = status[o], request'[o] = request[o],
           o \in memories' <=> o \in memories, o \in output' <=> o \in output,
           o \in usage' <=> o \in usage, o \in crashed' <=> o \in crashed
    PROVE  RunFits(o)'
BY DEF RunFits, Allowed

LEMMA RunsNextFit == RunsIInv /\ [RunsNext]_runVars => RunsIInv'
<1> SUFFICES ASSUME RunsIInv, [RunsNext]_runVars PROVE RunsIInv'
  OBVIOUS
<1> USE DEF RunsIInv
<1>1. ASSUME NEW r \in Run,
             StartRun(r) \/ Build(r) \/ Complete(r) \/ Charge(r) \/ Audit(r)
      PROVE  RunsIInv'
  <2>1. RunsTypeOK'
    BY <1>1 DEF RunsTypeOK, StartRun, Build, Complete, Charge, Audit, Goes, Step
  <2>2. RunFits(r)'
    BY <1>1 DEF RunsTypeOK, RunFits, Allowed, StartRun, Build, Complete, Charge,
                Audit, Goes
  <2>3. ASSUME NEW o \in Run \ {r} PROVE RunFits(o)'
    BY <1>1, OtherRunFits DEF RunsTypeOK, StartRun, Build, Complete, Charge,
                              Audit, Goes
  <2> QED
    BY <2>1, <2>2, <2>3
<1>2. ASSUME NEW r \in Run, Throw(r) \/ Catch(r) \/ Crash(r)
      PROVE  RunsIInv'
  <2>1. RunsTypeOK'
    BY <1>2 DEF RunsTypeOK, Throw, Catch, Crash, Goes, Step
  <2>2. RunFits(r)'
    BY <1>2 DEF RunsTypeOK, RunFits, Allowed, Throw, CaughtAt, Catch, Crash, Goes
  <2>3. ASSUME NEW o \in Run \ {r} PROVE RunFits(o)'
    BY <1>2, OtherRunFits DEF RunsTypeOK, Throw, Catch, Crash, Goes
  <2> QED
    BY <2>1, <2>2, <2>3
<1>3. ASSUME NEW r \in Run, CancelReads(r) \/ CancelWrites(r) \/ ADayPasses(r)
      PROVE  RunsIInv'
  BY <1>3 DEF RunsTypeOK, RunFits, Allowed, CancelReads, CancelWrites, ADayPasses
<1>4. CASE Cleanup
  BY <1>4 DEF RunsTypeOK, RunFits, Allowed, Cleanup, TimedOut
<1>5. CASE UNCHANGED runVars
  BY <1>5 DEF runVars, RunsTypeOK, RunFits, Allowed
<1> QED
  BY <1>1, <1>2, <1>3, <1>4, <1>5 DEF RunsNext

(* Every reachable state of AgentRuns has the declared types.              *)
THEOREM RunsTypeCorrect == RunsSpec => []RunsTypeOK
<1>1. RunsIInv => RunsTypeOK
  BY DEF RunsIInv
<1> QED
  BY <1>1, RunsInitFit, RunsNextFit, PTL DEF RunsSpec

(* What runAgentForCurrentUser charges for is stored, remembered and       *)
(* allowed by the tier, and a run it leaves completed is charged for,      *)
(* wherever it fails and whoever cancels it.                               *)
THEOREM ChargesMatch == RunsSpec => []ChargeMatchesOutput
<1>1. RunsIInv => ChargeMatchesOutput
  BY DEF RunsIInv, RunFits, ChargeMatchesOutput
<1> QED
  BY <1>1, RunsInitFit, RunsNextFit, PTL DEF RunsSpec

-----------------------------------------------------------------------------
(* Whole periods.                                                          *)
LEMMA Division ==
    ASSUME NEW n \in Nat, NEW d \in Nat \ {0}
    PROVE  /\ n \div d \in Nat
           /\ (n \div d) * d <= n
           /\ n < ((n \div d) + 1) * d
BY SMT

LEMMA ProductGrows ==
    ASSUME NEW a \in Nat, NEW b \in Nat, NEW d \in Nat \ {0}, a < b
    PROVE  (a + 1) * d <= b * d
BY SMT

LEMMA QuotientBound ==
    ASSUME NEW n \in Nat, NEW d \in Nat \ {0}, NEW q \in Nat, q * d <= n
    PROVE  q <= n \div d
<1>1. n \div d \in Nat /\ n < ((n \div d) + 1) * d
  BY Division
<1>2. ASSUME n \div d < q PROVE FALSE
  <2>1. ((n \div d) + 1) * d <= q * d
    BY <1>1, <1>2, ProductGrows
  <2> QED
    BY <1>1, <2>1
<1> QED
  BY <1>1, <1>2

(* The periods between two times: none when they are not in order, at most *)
(* the time between them, and no fewer for a later end.                    *)
LEMMA PeriodsBound ==
    ASSUME NEW a \in Nat, NEW b \in Nat
    PROVE  /\ Periods(a, b) \in Nat
           /\ b <= a => Periods(a, b) = 0
           /\ a <= b => Periods(a, b) <= b - a
<1>1. CASE b < a
  BY <1>1 DEF Periods
<1>2. CASE a <= b
  <2> DEFINE q == (b - a) \div Period
  <2>1. Period \in Nat \ {0} /\ b - a \in Nat
    BY <1>2, MemoryAssumption
  <2>2. q \in Nat /\ q * Period <= b - a
    BY <2>1, Division
  <2>3. q <= q * Period
    BY <2>1, <2>2, SMT
  <2>4. Periods(a, b) = q
    BY <1>2 DEF Periods
  <2> HIDE DEF q
  <2> QED
    BY <1>2, <2>2, <2>3, <2>1, <2>4
<1> QED
  BY <1>1, <1>2

LEMMA PeriodsGrow ==
    ASSUME NEW a \in Nat, NEW b \in Nat, NEW c \in Nat, b <= c
    PROVE  Periods(a, b) <= Periods(a, c)
<1>1. CASE b < a
  BY <1>1, PeriodsBound DEF Periods
<1>2. CASE a <= b
  <2>1. Period \in Nat \ {0} /\ b - a \in Nat /\ c - a \in Nat
    BY <1>2, MemoryAssumption
  <2>2. /\ (b - a) \div Period \in Nat
        /\ ((b - a) \div Period) * Period <= b - a
    BY <2>1, Division
  <2>3. ((b - a) \div Period) * Period <= c - a
    <3> DEFINE n == ((b - a) \div Period) * Period
    <3>1. n \in Int
      BY <2>1, <2>2
    <3>2. n <= b - a
      BY <2>2
    <3> HIDE DEF n
    <3>3. n <= c - a
      BY <3>1, <3>2
    <3> QED
      BY <3>3 DEF n
  <2>4. (b - a) \div Period <= (c - a) \div Period
    BY <2>1, <2>2, <2>3, QuotientBound
  <2> QED
    BY <1>2, <2>4 DEF Periods
<1> QED
  BY <1>1, <1>2

-----------------------------------------------------------------------------
(* What a call of the job holds between its steps.                         *)
StaleRead == [pc : {"stale"}, time : Time, from : Min..Max, lost : Nat]
WriteRead == [pc : {"write"}, time : Time, from : Min..Max, lost : Nat,
              grown : (Min..Max) \cup {Never}]

MemoryTyped ==
    /\ MemoryTypeOK
    /\ job \in [Job -> {NoRead} \cup StaleRead \cup WriteRead]

(* The memory has lost no more than the whole periods it was idle before   *)
(* its last use, and those from that use to its last maintenance.          *)
Applied(row) ==
    IF row.maintained = Never THEN 0 ELSE Periods(row.accessed, row.maintained)

MemoryFits ==
    /\ memory.accessed <= clock /\ memory.maintained <= clock
    /\ idled <= memory.accessed
    /\ memory.importance >= start - idled - Applied(memory)
    /\ ~memory.used =>
        /\ memory.accessed = 0 /\ idled = 0
        /\ memory.importance =
            IF memory.maintained = Never THEN start
            ELSE AtLeast(start - Periods(0, memory.maintained), Min)

(* What a call would write is as fit, as of the time it read.              *)
ReadFits(read) ==
    /\ read.pc # "idle" => read.time <= clock
    /\ read.pc # "idle" /\ read.lost > 0 =>
        /\ Decayed(read) >= start - idled - Periods(memory.accessed, read.time)
        /\ ~memory.used =>
            Decayed(read) = AtLeast(start - Periods(0, read.time), Min)
    /\ read.pc = "write" =>
        (read.grown # Never => memory.used /\ read.grown >= start - idled)

MemoryIInv == MemoryTyped /\ MemoryFits /\ \A j \in Job : ReadFits(job[j])

LEMMA AppliedBound ==
    ASSUME NEW row \in MemoryRow
    PROVE  /\ Applied(row) \in Nat
           /\ row.maintained <= row.accessed => Applied(row) = 0
<1>1. row.accessed \in Nat /\ row.maintained \in Nat \cup {Never}
  BY MemoryAssumption DEF MemoryRow, Time
<1> QED
  BY <1>1, PeriodsBound DEF Applied, Never

(* The row is typed, and what it is typed with are numbers.                *)
LEMMA MemoryNumbers ==
    ASSUME MemoryTyped
    PROVE  /\ clock \in Nat /\ start \in Min..Max /\ idled \in Nat
           /\ Min \in Nat /\ Max \in Nat /\ Min <= Max
           /\ memory.importance \in Min..Max
           /\ memory.accessed \in Nat /\ memory.maintained \in Nat \cup {Never}
           /\ memory.used \in BOOLEAN
           /\ Applied(memory) \in Nat
BY MemoryAssumption, AppliedBound DEF MemoryTyped, MemoryTypeOK, MemoryRow, Time

LEMMA ReadNumbers ==
    ASSUME NEW read \in StaleRead \cup WriteRead
    PROVE  /\ read.time \in Nat /\ read.time \in Time
           /\ read.from \in Min..Max /\ read.lost \in Nat
           /\ read.pc = "write" => read.grown \in (Min..Max) \cup {Never}
           /\ read.pc \in {"stale", "write"} /\ read # NoRead
           /\ Decayed(read) \in Min..Max
<1>1. /\ read.time \in Time /\ read.from \in Min..Max /\ read.lost \in Nat
      /\ read.pc \in {"stale", "write"}
      /\ read.pc = "write" => read.grown \in (Min..Max) \cup {Never}
  BY DEF StaleRead, WriteRead
<1>2. read # NoRead
  BY <1>1 DEF NoRead
<1> QED
  BY <1>1, <1>2, MemoryAssumption DEF Time, Decayed, AtLeast

LEMMA MemoryInitFit == MemoryInit => MemoryIInv
<1> SUFFICES ASSUME MemoryInit PROVE MemoryIInv
  OBVIOUS
<1>1. start \in Min..Max /\ 0 \in Time /\ Never \in Time \cup {Never}
  BY MemoryAssumption DEF MemoryInit, Time
<1>2. MemoryTyped
  BY <1>1 DEF MemoryInit, MemoryTyped, MemoryTypeOK, MemoryRow, Time, NoRead
<1>3. MemoryFits
  BY <1>1, MemoryAssumption DEF MemoryInit, MemoryFits, Applied, Never
<1>4. ASSUME NEW j \in Job PROVE ReadFits(job[j])
  BY DEF MemoryInit, ReadFits, NoRead
<1> QED
  BY <1>2, <1>3, <1>4 DEF MemoryIInv

LEMMA UnappliedBound ==
    ASSUME MemoryTyped
    PROVE  /\ Unapplied(memory, clock) \in Nat
           /\ Unapplied(memory, clock) > 0 =>
                Unapplied(memory, clock) =
                    Periods(memory.accessed, clock) - Applied(memory)
<1> DEFINE p == Periods(memory.accessed, clock)
<1>1. p \in Nat /\ Applied(memory) \in Nat
  BY MemoryNumbers, PeriodsBound
<1>2. Unapplied(memory, clock) = AtLeast(p - Applied(memory), 0)
  BY DEF Unapplied, Applied
<1> HIDE DEF p
<1> QED
  BY <1>1, <1>2 DEF p, AtLeast

(* A call that only reads leaves the memory, and the reads of other calls, *)
(* as they were.                                                           *)
LEMMA ReadStaleFits ==
    ASSUME MemoryIInv, NEW j \in Job, ReadStale(j)
    PROVE  MemoryIInv'
<1> USE DEF MemoryIInv
<1> DEFINE read == job'[j]
<1>1. read \in StaleRead
  <2>1. clock \in Time /\ memory.importance \in Min..Max /\ Min \in Min..Max
    BY MemoryNumbers DEF MemoryTyped, MemoryTypeOK
  <2> QED
    BY <2>1, UnappliedBound DEF ReadStale, MemoryTyped, StaleRead
<1>2. MemoryTyped'
  BY <1>1 DEF ReadStale, MemoryTyped, MemoryTypeOK
<1>3. MemoryFits'
  BY DEF ReadStale, MemoryFits, Applied
<1>4. ReadFits(job[j])'
  <2>1. read.pc = "stale" /\ read.time = clock
    BY DEF ReadStale, MemoryTyped
  <2>2. ASSUME read.lost > 0
        PROVE  /\ read.from = memory.importance
               /\ read.lost = Periods(memory.accessed, clock) - Applied(memory)
    BY <2>2, UnappliedBound DEF ReadStale, MemoryTyped
  <2>3. Periods(memory.accessed, clock) \in Nat
    BY MemoryNumbers, PeriodsBound
  <2>4. ASSUME read.lost > 0
        PROVE  Decayed(read) >= start - idled - Periods(memory.accessed, clock)
    BY <2>2, <2>3, <2>4, MemoryNumbers DEF Decayed, AtLeast, MemoryFits
  <2>5. ASSUME read.lost > 0, ~memory.used
        PROVE  Decayed(read) = AtLeast(start - Periods(0, clock), Min)
    <3>1. memory.accessed = 0
      BY <2>5 DEF MemoryFits
    <3>2. CASE memory.maintained = Never
      BY <2>2, <2>3, <2>5, <3>1, <3>2, MemoryNumbers
      DEF Decayed, AtLeast, MemoryFits, Applied
    <3>3. CASE memory.maintained # Never
      <4>1. Periods(0, memory.maintained) \in Nat
        BY <3>3, MemoryNumbers, PeriodsBound
      <4>2. /\ Applied(memory) = Periods(0, memory.maintained)
            /\ memory.importance = AtLeast(start - Periods(0, memory.maintained), Min)
        BY <2>5, <3>1, <3>3 DEF Applied, MemoryFits
      <4> QED
        BY <2>2, <2>3, <2>5, <3>1, <4>1, <4>2, MemoryNumbers DEF Decayed, AtLeast
    <3> QED
      BY <3>2, <3>3
  <2>6. UNCHANGED <<clock, start, memory, idled>>
    BY DEF ReadStale
  <2>7. read.time <= clock
    BY <2>1, MemoryNumbers
  <2> QED
    BY <2>1, <2>4, <2>5, <2>6, <2>7 DEF ReadFits, Decayed, Periods
<1>5. ASSUME NEW i \in Job \ {j} PROVE ReadFits(job[i])'
  BY DEF ReadStale, MemoryTyped, ReadFits, Decayed, Periods
<1> QED
  BY <1>2, <1>3, <1>4, <1>5 DEF MemoryTyped

(* A memory is reinforced only from what it was worth after its last use.  *)
LEMMA ReadRecentFits ==
    ASSUME MemoryIInv, NEW j \in Job, ReadRecent(j)
    PROVE  MemoryIInv'
<1> USE DEF MemoryIInv
<1> DEFINE read == job[j]
           grown == IF Fresh(read.time) /\ memory.maintained < memory.accessed
                    THEN AtMost(memory.importance + Reinforcement, Max)
                    ELSE Never
<1>1. read \in StaleRead
  BY DEF ReadRecent, MemoryTyped, NoRead, WriteRead
<1>2. /\ read.time \in Time /\ read.from \in Min..Max /\ read.lost \in Nat
      /\ read.pc = "stale"
  BY <1>1, ReadNumbers DEF ReadRecent
<1>3. /\ grown \in (Min..Max) \cup {Never}
      /\ grown # Never => memory.used /\ grown >= start - idled
  <2>1. CASE Fresh(read.time) /\ memory.maintained < memory.accessed
    <3>1. memory.used /\ Applied(memory) = 0
      <4>1. memory \in MemoryRow /\ memory.maintained <= memory.accessed
        BY <2>1, MemoryNumbers DEF MemoryTyped, MemoryTypeOK, Never
      <4> QED
        BY <2>1, <4>1, AppliedBound DEF Fresh
    <3>2. memory.importance >= start - idled
      BY <3>1, MemoryNumbers DEF MemoryFits
    <3> QED
      BY <2>1, <3>1, <3>2, MemoryNumbers, MemoryAssumption DEF AtMost
  <2>2. CASE ~(Fresh(read.time) /\ memory.maintained < memory.accessed)
    BY <2>2
  <2> QED
    BY <2>1, <2>2
<1>4. job' = [job EXCEPT ![j] =
        [pc |-> "write", time |-> read.time, from |-> read.from,
         lost |-> read.lost, grown |-> grown]]
  BY DEF ReadRecent
<1>5. UNCHANGED <<clock, start, memory, idled>>
  BY DEF ReadRecent
<1> HIDE DEF grown
<1>6. job'[j] = [pc |-> "write", time |-> read.time, from |-> read.from,
                 lost |-> read.lost, grown |-> grown]
  BY <1>4 DEF MemoryTyped
<1>7. job'[j] \in WriteRead
  BY <1>2, <1>3, <1>6 DEF WriteRead
<1>8. MemoryTyped'
  BY <1>4, <1>5, <1>6, <1>7 DEF MemoryTyped, MemoryTypeOK
<1>9. MemoryFits'
  BY <1>5 DEF MemoryFits, Applied
<1>10. ReadFits(job[j])'
  BY <1>2, <1>3, <1>5, <1>6 DEF ReadFits, Decayed, Periods
<1>11. ASSUME NEW i \in Job \ {j} PROVE ReadFits(job[i])'
  BY <1>4, <1>5 DEF MemoryTyped, ReadFits, Decayed, Periods
<1> QED
  BY <1>8, <1>9, <1>10, <1>11 DEF MemoryTyped

(* Whichever of its two values a call writes, it is one of a time it read, *)
(* and fits the memory as of that time.                                    *)
LEMMA MaintenanceFits ==
    ASSUME MemoryIInv, NEW value \in Min..Max, NEW time \in Time, time <= clock,
           value >= start - idled - Periods(memory.accessed, time),
           ~memory.used => value = AtLeast(start - Periods(0, time), Min),
           memory' = MaintainedAt(value, time), UNCHANGED <<clock, start, idled>>
    PROVE  memory' \in MemoryRow /\ MemoryFits'
<1> USE DEF MemoryIInv
<1>1. memory \in MemoryRow
  BY DEF MemoryTyped, MemoryTypeOK
<1>2. memory' \in MemoryRow
  BY <1>1 DEF MaintainedAt, MemoryRow
<1>3. /\ memory'.importance = value /\ memory'.maintained = time
      /\ memory'.accessed = memory.accessed /\ memory'.used = memory.used
  BY <1>1 DEF MaintainedAt, MemoryRow
<1>4. time \in Nat /\ time # Never
  BY MemoryAssumption DEF Time, Never
<1>5. Applied(memory)' = Periods(memory.accessed, time)
  BY <1>3, <1>4 DEF Applied, Periods
<1>6. MemoryFits'
  BY <1>3, <1>4, <1>5 DEF MemoryFits, AtLeast, Periods
<1> QED
  BY <1>2, <1>6

LEMMA WriteBackFits ==
    ASSUME MemoryIInv, NEW j \in Job, WriteBack(j)
    PROVE  MemoryIInv'
<1> USE DEF MemoryIInv
<1> DEFINE read == job[j]
<1>1. read \in WriteRead /\ read.pc = "write"
  BY DEF WriteBack, MemoryTyped, NoRead, StaleRead
<1>2. /\ read.time \in Time /\ read.time \in Nat /\ read.lost \in Nat
      /\ read.grown \in (Min..Max) \cup {Never}
      /\ Decayed(read) \in Min..Max
  BY <1>1, ReadNumbers
<1>3. ReadFits(read)
  OBVIOUS
<1>4. Periods(memory.accessed, read.time) \in Nat
  BY <1>2, MemoryNumbers, PeriodsBound
<1>5. memory' \in MemoryRow /\ MemoryFits'
  <2>1. CASE read.grown # Never
    <3>1. memory' = MaintainedAt(read.grown, read.time)
      BY <2>1 DEF WriteBack
    <3>2. memory.used /\ read.grown >= start - idled /\ read.time <= clock
      BY <1>1, <1>3, <2>1 DEF ReadFits
    <3>3. read.grown \in Min..Max
      BY <1>2, <2>1
    <3>4. read.grown >= start - idled - Periods(memory.accessed, read.time)
      BY <1>4, <3>2, <3>3, MemoryNumbers
    <3> HIDE DEF read
    <3> QED
      BY <1>2, <3>1, <3>2, <3>3, <3>4, MaintenanceFits DEF WriteBack
  <2>2. CASE read.grown = Never /\ read.lost > 0
    <3>1. memory' = MaintainedAt(Decayed(read), read.time)
      BY <2>2 DEF WriteBack
    <3>2. /\ read.time <= clock
          /\ Decayed(read) >= start - idled - Periods(memory.accessed, read.time)
          /\ ~memory.used =>
                Decayed(read) = AtLeast(start - Periods(0, read.time), Min)
      BY <1>1, <1>3, <2>2 DEF ReadFits
    <3> HIDE DEF read
    <3> QED
      BY <1>2, <3>1, <3>2, MaintenanceFits DEF WriteBack
  <2>3. CASE read.grown = Never /\ ~(read.lost > 0)
    <3>1. UNCHANGED <<memory, clock, start, idled>>
      BY <2>3 DEF WriteBack
    <3> QED
      BY <3>1 DEF MemoryTyped, MemoryTypeOK, MemoryFits, Applied
  <2> QED
    BY <2>1, <2>2, <2>3
<1>6. /\ job' = [job EXCEPT ![j] = NoRead] /\ UNCHANGED <<clock, start, idled>>
      /\ memory'.accessed = memory.accessed /\ memory'.used = memory.used
  BY DEF WriteBack, MaintainedAt, MemoryTyped, MemoryTypeOK, MemoryRow
<1>7. MemoryTyped'
  BY <1>5, <1>6 DEF MemoryTyped, MemoryTypeOK, NoRead
<1>8. ReadFits(job[j])'
  BY <1>6 DEF MemoryTyped, NoRead, ReadFits
<1>9. ASSUME NEW i \in Job \ {j} PROVE ReadFits(job[i])'
  BY <1>6 DEF MemoryTyped, ReadFits, Decayed, Periods
<1> QED
  BY <1>5, <1>7, <1>8, <1>9 DEF MemoryTyped

LEMMA AppliedSoFar ==
    ASSUME MemoryTyped, MemoryFits
    PROVE  /\ Periods(memory.accessed, clock) \in Nat
           /\ Periods(memory.accessed, clock) <= clock - memory.accessed
           /\ Applied(memory) <= Periods(memory.accessed, clock)
<1>1. /\ memory.accessed \in Nat /\ clock \in Nat
      /\ memory.accessed <= clock /\ memory.maintained <= clock
      /\ memory.maintained \in Nat \cup {Never}
  BY MemoryNumbers DEF MemoryFits
<1>2. /\ Periods(memory.accessed, clock) \in Nat
      /\ Periods(memory.accessed, clock) <= clock - memory.accessed
  BY <1>1, PeriodsBound
<1>3. CASE memory.maintained = Never
  BY <1>2, <1>3 DEF Applied
<1>4. CASE memory.maintained # Never
  <2>1. Periods(memory.accessed, memory.maintained) <= Periods(memory.accessed, clock)
    BY <1>1, <1>4, PeriodsGrow
  <2> QED
    BY <1>2, <1>4, <2>1 DEF Applied
<1> QED
  BY <1>3, <1>4

(* A use counts the periods before it once, whatever was applied of them.  *)
LEMMA TouchFits ==
    ASSUME MemoryIInv, Touch
    PROVE  MemoryIInv'
<1> USE DEF MemoryIInv
<1> DEFINE p == Periods(memory.accessed, clock)
<1>1. /\ p \in Nat /\ p <= clock - memory.accessed
      /\ Applied(memory) <= p
  BY AppliedSoFar
<1>2. /\ memory'.accessed = clock /\ memory'.used
      /\ memory'.maintained = memory.maintained
      /\ memory'.importance = memory.importance
      /\ memory' \in MemoryRow
      /\ idled' = idled + p /\ UNCHANGED <<clock, start, job>>
  BY DEF Touch, MemoryTyped, MemoryTypeOK, MemoryRow
<1> HIDE DEF p
<1>3. idled' \in 0..MaxClock /\ idled' <= clock
  BY <1>1, <1>2, MemoryNumbers, MemoryAssumption
  DEF MemoryFits, MemoryTyped, MemoryTypeOK, Time
<1>4. MemoryTyped'
  BY <1>2, <1>3 DEF MemoryTyped, MemoryTypeOK
<1>5. MemoryFits'
  <2>1. Applied(memory)' = 0
    BY <1>2, MemoryNumbers, AppliedBound, PeriodsBound DEF Applied, MemoryFits, Periods
  <2> QED
    BY <1>1, <1>2, <1>3, <2>1, MemoryNumbers DEF MemoryFits
<1>6. ASSUME NEW j \in Job PROVE ReadFits(job[j])'
  <2>1. CASE job[j] = NoRead
    BY <1>2, <2>1 DEF ReadFits, NoRead
  <2>2. CASE job[j] # NoRead
    <3> DEFINE read == job[j]
    <3>1. read \in StaleRead \cup WriteRead
      BY <2>2 DEF MemoryTyped
    <3>2. /\ read.time \in Nat /\ read.lost \in Nat /\ Decayed(read) \in Min..Max
          /\ read.pc = "write" => read.grown \in (Min..Max) \cup {Never}
          /\ read.pc # "idle"
      BY <3>1, ReadNumbers
    <3>3. ReadFits(read)
      OBVIOUS
    <3>4. /\ Periods(memory.accessed, read.time) <= p
          /\ Periods(memory.accessed, read.time) \in Nat
          /\ Periods(clock, read.time) = 0
      BY <3>2, <3>3, MemoryNumbers, PeriodsBound, PeriodsGrow DEF ReadFits, p
    <3>5. read.lost > 0 =>
            Decayed(read) >= start - idled' - Periods(clock, read.time)
      BY <1>1, <1>2, <3>2, <3>3, <3>4, MemoryNumbers DEF ReadFits
    <3>6. read.pc = "write" /\ read.grown # Never => read.grown >= start - idled'
      BY <1>1, <1>2, <3>2, <3>3, MemoryNumbers DEF ReadFits
    <3> QED
      BY <1>2, <3>2, <3>3, <3>5, <3>6 DEF ReadFits, Decayed, Periods
  <2> QED
    BY <2>1, <2>2
<1> QED
  BY <1>4, <1>5, <1>6, <1>2

LEMMA MemoryNextFit == MemoryIInv /\ [MemoryNext]_memVars => MemoryIInv'
<1> SUFFICES ASSUME MemoryIInv, [MemoryNext]_memVars PROVE MemoryIInv'
  OBVIOUS
<1>1. ASSUME NEW j \in Job, ReadStale(j) PROVE MemoryIInv'
  BY <1>1, ReadStaleFits
<1>2. ASSUME NEW j \in Job, ReadRecent(j) PROVE MemoryIInv'
  BY <1>2, ReadRecentFits
<1>3. ASSUME NEW j \in Job, WriteBack(j) PROVE MemoryIInv'
  BY <1>3, WriteBackFits
<1>4. ASSUME NEW j \in Job, Lose(j) PROVE MemoryIInv'
  <2>1. /\ job' = [job EXCEPT ![j] = NoRead]
        /\ UNCHANGED <<clock, start, memory, idled>>
    BY <1>4 DEF Lose
  <2>2. MemoryTyped' /\ MemoryFits'
    BY <2>1 DEF MemoryIInv, MemoryTyped, MemoryTypeOK, MemoryFits, Applied, NoRead
  <2>3. ASSUME NEW i \in Job PROVE ReadFits(job[i])'
    BY <2>1 DEF MemoryIInv, MemoryTyped, ReadFits, NoRead, Decayed, Periods
  <2> QED
    BY <2>1, <2>2, <2>3 DEF MemoryIInv, MemoryTyped
<1>5. CASE Open \/ Load
  BY <1>5, TouchFits DEF Open, Load
<1>6. CASE Forget
  <2>1. /\ memory' \in MemoryRow /\ memory'.importance = memory.importance
        /\ memory'.accessed = memory.accessed /\ memory'.used = memory.used
        /\ memory'.maintained = memory.maintained
        /\ UNCHANGED <<clock, start, idled, job>>
    BY <1>6 DEF Forget, MemoryIInv, MemoryTyped, MemoryTypeOK, MemoryRow
  <2> QED
    BY <2>1 DEF MemoryIInv, MemoryTyped, MemoryTypeOK, MemoryFits, Applied,
                ReadFits, Decayed, Periods
<1>7. CASE ClockTicks
  <2>1. clock' = clock + 1 /\ clock' \in Time
        /\ UNCHANGED <<start, memory, idled, job>>
    BY <1>7, MemoryAssumption
    DEF ClockTicks, MemoryIInv, MemoryTyped, MemoryTypeOK, Time
  <2>2. MemoryTyped'
    BY <2>1 DEF MemoryIInv, MemoryTyped, MemoryTypeOK
  <2>3. MemoryFits'
    BY <2>1, MemoryNumbers DEF MemoryIInv, MemoryFits, Applied, Never
  <2>4. ASSUME NEW j \in Job PROVE ReadFits(job[j])'
    <3>1. CASE job[j] = NoRead
      BY <2>1, <3>1 DEF ReadFits, NoRead
    <3>2. CASE job[j] # NoRead
      <4>1. job[j].time \in Nat
        BY <3>2, ReadNumbers DEF MemoryIInv, MemoryTyped
      <4>2. job[j].time <= clock => job[j].time <= clock + 1
        BY <4>1, MemoryNumbers DEF MemoryIInv
      <4> QED
        BY <2>1, <4>2 DEF MemoryIInv, ReadFits, Decayed, Periods
    <3> QED
      BY <3>1, <3>2
  <2> QED
    BY <2>1, <2>2, <2>3, <2>4 DEF MemoryIInv
<1>8. CASE UNCHANGED memVars
  BY <1>8 DEF memVars, MemoryIInv, MemoryTyped, MemoryTypeOK, MemoryFits, Applied,
              ReadFits, Decayed, Periods
<1> QED
  BY <1>1, <1>2, <1>3, <1>4, <1>5, <1>6, <1>7, <1>8 DEF MemoryNext

(* Every reachable state of AgentMemory has the declared types.            *)
THEOREM MemoryTypeCorrect == MemorySpec => []MemoryTypeOK
<1>1. MemoryIInv => MemoryTypeOK
  BY DEF MemoryIInv, MemoryTyped
<1> QED
  BY <1>1, MemoryInitFit, MemoryNextFit, PTL DEF MemorySpec

(* runMemoryMaintenance decays a memory by the time it was idle, however   *)
(* its calls overlap each other and the uses of the memory.                *)
THEOREM MemoryDecaysByTime == MemorySpec => []DecayIsByTime
<1>1. ASSUME MemoryIInv PROVE DecayIsByTime
  <2> DEFINE p == Periods(memory.accessed, clock)
  <2>1. p \in Nat /\ Applied(memory) <= p
    BY <1>1, AppliedSoFar DEF MemoryIInv
  <2>2. memory.importance >= start - idled - Applied(memory)
    BY <1>1 DEF MemoryIInv, MemoryFits
  <2> HIDE DEF p
  <2>3. memory.importance >= AtLeast(start - idled - p, Min)
    BY <1>1, <2>1, <2>2, MemoryNumbers DEF MemoryIInv, AtLeast
  <2>4. ~memory.used /\ memory.maintained # Never =>
            memory.importance = AtLeast(start - Periods(0, memory.maintained), Min)
    BY <1>1 DEF MemoryIInv, MemoryFits
  <2> QED
    BY <2>3, <2>4 DEF DecayIsByTime, p
<1> QED
  BY <1>1, MemoryInitFit, MemoryNextFit, PTL DEF MemorySpec

-----------------------------------------------------------------------------
(* All parts.                                                              *)

(* What a behaviour of the instances of MCCommunity does to the variables  *)
(* of one part is a behaviour of that part.                                *)
LEMMA PartsOfSides ==
    SidesSpec => /\ Spec /\ PagesSpec /\ ReportsSpec
                 /\ RunsSpec /\ MemorySpec /\ DogsSpec
<1> DEFINE all == <<side, vars, pageVars, reportVars, runVars, memVars, identityVars>>
<1>1. SidesInit => /\ Init /\ PagesInit /\ ReportsInit
                   /\ RunsInit /\ MemoryInit /\ DogsInit
  BY DEF SidesInit
<1>2. [SidesNext]_all => /\ [Next]_vars /\ [PagesNext]_pageVars
                         /\ [ReportsNext]_reportVars /\ [RunsNext]_runVars
                         /\ [MemoryNext]_memVars /\ [DogsNext]_identityVars
  BY DEF SidesNext
<1> QED
  BY <1>1, <1>2, PTL
  DEF SidesSpec, Spec, PagesSpec, ReportsSpec, RunsSpec, MemorySpec, DogsSpec

(* The variables of each part keep their types while it runs. *)
THEOREM TypesStayOK == SidesSpec => []TypesOK
<1>1. TypeOK /\ PagesTypeOK /\ ReportsTypeOK /\ RunsTypeOK /\ MemoryTypeOK /\ DogsTypeOK
      => TypesOK
  BY DEF TypesOK
<1> QED
  BY <1>1, PartsOfSides, ListingTypeCorrect, PagesTypeCorrect, ReportsTypeCorrect,
     RunsTypeCorrect, MemoryTypeCorrect, DogsTypeCorrect, PTL
=============================================================================
