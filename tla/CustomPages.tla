------------------------------ MODULE CustomPages ------------------------------
(***************************************************************************)
(* Claims of dogs and the pages that members make of them and of           *)
(* themselves: src/lib/custom-page-service.ts, dog-card-service.ts and the *)
(* reviews of claims in admin-service.ts.  A request that makes a page     *)
(* asks several questions, each in a transaction of its own, before it     *)
(* inserts; a request that draws a dog's card reads the page, waits for    *)
(* the picture, and writes the content it read, with the card.             *)
(***************************************************************************)
EXTENDS Integers, FiniteSets

CONSTANTS
    Profile, Dog,
    Registered,     \* dogs of the official data
    Plus,           \* profiles of the tier pro_plus; the others are pro
    Maker,          \* requests that make a page
    PageLimit,      \* PRO_DOG_PAGE_LIMIT
    MaxPageEdits,   \* bound on edits of a page
    NoPage

VARIABLES
    strict,     \* requireApprovedOwnership, requireRegisteredDog, enforceDogPageLimit
    claim,      \* <<dog, profile>> -> DogOwnership.status
    verdict,    \* <<dog, profile>> -> the first review
    pages,      \* request -> the page it made
    asked,      \* request -> what it asks next
    card,       \* page -> the content a drawing of its card has read
    relaxed     \* pages made while the rules were relaxed

pageVars == <<strict, claim, verdict, pages, asked, card, relaxed>>

Own == "own"    \* a page of the profile: trainer, punter or business
Subject == Dog \cup {Own}
Handles == 1..Cardinality(Maker)
Content == [edit : 0..MaxPageEdits, card : BOOLEAN]
Page == [owner : Profile, of : Subject, handle : Handles, published : BOOLEAN, content : Content]
NotAsked == [pc |-> "none", owner |-> NoPage, of |-> Own, handle |-> 1]

ASSUME PagesAssumption ==
    /\ IsFiniteSet(Maker) /\ MaxPageEdits \in Nat
    /\ NoPage \notin Page \cup Content \cup Profile
    /\ Own \notin Dog

PagesTypeOK ==
    /\ strict \in BOOLEAN
    /\ claim \in [Dog \X Profile -> {"none", "pending", "approved", "rejected"}]
    /\ verdict \in [Dog \X Profile -> {"none", "approved", "rejected"}]
    /\ pages \in [Maker -> Page \cup {NoPage}]
    /\ asked \in [Maker -> [pc : {"none", "gate", "same", "limit", "handle", "insert", "over"},
                             owner : Profile \cup {NoPage}, of : Subject, handle : Handles]]
    /\ card \in [Maker -> Content \cup {NoPage}]
    /\ relaxed \subseteq Maker

PagesInit ==
    /\ strict = TRUE
    /\ claim = [c \in Dog \X Profile |-> "none"]
    /\ verdict = [c \in Dog \X Profile |-> "none"]
    /\ pages = [r \in Maker |-> NoPage]
    /\ asked = [r \in Maker |-> NotAsked]
    /\ card = [r \in Maker |-> NoPage]
    /\ relaxed = {}

-----------------------------------------------------------------------------
\* A profile claims a dog once.
Claim(d, p) ==
    /\ claim[<<d, p>>] = "none"
    /\ claim' = [claim EXCEPT ![<<d, p>>] = "pending"]
    /\ UNCHANGED <<strict, verdict, pages, asked, card, relaxed>>

\* approveDogOwnership, rejectDogOwnership: of a claim that is pending.
Review(d, p, s) ==
    /\ claim[<<d, p>>] = "pending"
    /\ claim' = [claim EXCEPT ![<<d, p>>] = s]
    /\ verdict' = [verdict EXCEPT ![<<d, p>>] = IF @ = "none" THEN s ELSE @]
    /\ UNCHANGED <<strict, pages, asked, card, relaxed>>

\* setPlatformFlag, of the three rules together.
SetRules ==
    /\ strict' = ~strict
    /\ UNCHANGED <<claim, verdict, pages, asked, card, relaxed>>

-----------------------------------------------------------------------------
Asks(r, q) ==
    /\ asked' = [asked EXCEPT ![r] = q]
    /\ UNCHANGED <<strict, claim, verdict, card>>

AsksNext(r, pc) == Asks(r, [asked[r] EXCEPT !.pc = pc])

Owned(p, S) == {r \in Maker : pages[r] # NoPage /\ pages[r].owner = p /\ pages[r].of \in S}

AskForPage(r, p, s) ==
    /\ asked[r] = NotAsked
    /\ Asks(r, [NotAsked EXCEPT !.pc = "gate", !.owner = p, !.of = s])
    /\ UNCHANGED <<pages, relaxed>>

\* Ownership and registration, of a dog's page, as the rules are now.
Gate_AnyClaim(r) ==
    LET q == asked[r]
        allowed == q.of \in Dog /\ strict =>
                        q.of \in Registered /\ claim[<<q.of, q.owner>>] # "none"
    IN  /\ q.pc = "gate"
        /\ AsksNext(r, IF allowed THEN "same" ELSE "over")
        /\ relaxed' = IF strict THEN relaxed ELSE relaxed \cup {r}
        /\ UNCHANGED pages

Gate(r) ==
    LET q == asked[r]
        allowed == q.of \in Dog /\ strict =>
                        q.of \in Registered /\ claim[<<q.of, q.owner>>] = "approved"
    IN  /\ q.pc = "gate"
        /\ AsksNext(r, IF allowed THEN "same" ELSE "over")
        /\ relaxed' = IF strict THEN relaxed ELSE relaxed \cup {r}
        /\ UNCHANGED pages

Same(r) ==
    LET q == asked[r]
    IN  /\ q.pc = "same"
        /\ AsksNext(r, IF Owned(q.owner, {q.of}) # {} THEN "over"
                   ELSE IF q.of = Own THEN "handle" ELSE "limit")
        /\ UNCHANGED <<pages, relaxed>>

UnderLimit(r) ==
    LET q == asked[r]
        many == Cardinality(Owned(q.owner, Dog)) >= PageLimit
    IN  /\ q.pc = "limit"
        /\ AsksNext(r, IF strict /\ many /\ q.owner \notin Plus THEN "over" ELSE "handle")
        /\ UNCHANGED <<pages, relaxed>>

Taken == {pages[r].handle : r \in {o \in Maker : pages[o] # NoPage}}

\* uniqueHandle: the first that no page has; titles may be the same.
UniqueHandle(r) ==
    /\ asked[r].pc = "handle"
    /\ LET h == CHOOSE h \in Handles \ Taken : \A o \in Handles \ Taken : h <= o
       IN  Asks(r, [asked[r] EXCEPT !.pc = "insert", !.handle = h])
    /\ UNCHANGED <<pages, relaxed>>

\* Two rows cannot have one handle, nor one owner and dog; of pages without a
\* dog the index knows nothing.
Insert(r) ==
    LET q == asked[r]
        clash == q.handle \in Taken \/ (q.of \in Dog /\ Owned(q.owner, {q.of}) # {})
    IN  /\ q.pc = "insert"
        /\ pages' = IF clash THEN pages
                    ELSE [pages EXCEPT ![r] =
                            [owner |-> q.owner, of |-> q.of, handle |-> q.handle,
                             published |-> FALSE, content |-> [edit |-> 0, card |-> FALSE]]]
        /\ AsksNext(r, "over")
        /\ UNCHANGED relaxed

-----------------------------------------------------------------------------
OfPage == UNCHANGED <<strict, claim, verdict, asked, relaxed>>

Publish(r) ==
    /\ pages[r] # NoPage
    /\ pages' = [pages EXCEPT ![r].published = ~@]
    /\ UNCHANGED card /\ OfPage

\* An edit writes the whole content, of which a card is no part.
Update(r) ==
    /\ pages[r] # NoPage /\ pages[r].content.edit < MaxPageEdits
    /\ pages' = [pages EXCEPT ![r].content = [edit |-> @.edit + 1, card |-> FALSE]]
    /\ UNCHANGED card /\ OfPage

Delete(r) ==
    /\ pages[r] # NoPage
    /\ pages' = [pages EXCEPT ![r] = NoPage]
    /\ UNCHANGED card /\ OfPage

\* generateDogCard: reads the page, and minutes later writes what it read.
DrawCard(r) ==
    /\ pages[r] # NoPage /\ pages[r].of \in Dog /\ card[r] = NoPage
    /\ card' = [card EXCEPT ![r] = pages[r].content]
    /\ UNCHANGED pages /\ OfPage

StoreCard(r) ==
    /\ card[r] # NoPage
    /\ pages' = IF pages[r] = NoPage THEN pages
                ELSE [pages EXCEPT ![r].content = [card[r] EXCEPT !.card = TRUE]]
    /\ card' = [card EXCEPT ![r] = NoPage]
    /\ OfPage

CardFails(r) ==
    /\ card[r] # NoPage
    /\ card' = [card EXCEPT ![r] = NoPage]
    /\ UNCHANGED pages /\ OfPage

-----------------------------------------------------------------------------
PagesNext ==
    \/ \E d \in Dog, p \in Profile :
        Claim(d, p) \/ \E s \in {"approved", "rejected"} : Review(d, p, s)
    \/ SetRules
    \/ \E r \in Maker :
        \/ \E p \in Profile, s \in Subject : AskForPage(r, p, s)
        \/ Gate(r) \/ Same(r) \/ UnderLimit(r) \/ UniqueHandle(r) \/ Insert(r)
        \/ Publish(r) \/ Update(r) \/ Delete(r)
        \/ DrawCard(r) \/ StoreCard(r) \/ CardFails(r)

PagesSpec == PagesInit /\ [][PagesNext]_pageVars

-----------------------------------------------------------------------------
(* A dog's page belongs to a profile whose claim of the dog a moderator    *)
(* approved, whoever else claims or reviews it at the time, unless it was  *)
(* made under relaxed rules; a claim stays as it was first reviewed; and   *)
(* no two pages have one handle, or one owner and dog, although each       *)
(* request asks for them before it inserts.                                *)
PagesAreOwned ==
    /\ \A c \in Dog \X Profile : verdict[c] # "none" => claim[c] = verdict[c]
    /\ \A r \in Maker : pages[r] # NoPage /\ pages[r].of \in Dog /\ r \notin relaxed =>
        verdict[<<pages[r].of, pages[r].owner>>] = "approved" /\ pages[r].of \in Registered
    /\ \A r, o \in Maker : r # o /\ pages[r] # NoPage /\ pages[o] # NoPage =>
        /\ pages[r].handle # pages[o].handle
        /\ pages[r].of \in Dog => <<pages[r].owner, pages[r].of>> # <<pages[o].owner, pages[o].of>>
=============================================================================
