--------------------------- MODULE HarvestProofs ----------------------------
(* What holds of LiveSync, ProfileImport, HarvestShards, ArchiveImport,    *)
(* ProfileHarvest and RaceVideos for any values of their constants, and of *)
(* their instances in MCHarvest.                                           *)
EXTENDS MCHarvest, FiniteSetTheorems, NaturalsInduction,
        WellFoundedInduction, TLAPS

-----------------------------------------------------------------------------
(* The live sync.                                                          *)

(* Of finitely many providers, one has the highest rank: of the sets of    *)
(* those ranked above a provider, one has no strict subset among them.     *)
LEMMA HighestExists ==
    ASSUME NEW n \in Nat, NEW S \in SUBSET (1..n), S # {},
           NEW rank \in [1..n -> Nat]
    PROVE  \E x \in S : \A q \in S : rank[q] <= rank[x]
<1> DEFINE above(x) == {q \in S : rank[q] > rank[x]}
           T == {above(x) : x \in S}
<1>1. T \subseteq FiniteSubsetsOf(1..n)
    <2> SUFFICES ASSUME NEW x \in S PROVE above(x) \in FiniteSubsetsOf(1..n)
        OBVIOUS
    <2>1. IsFiniteSet(1..n) BY FS_Interval
    <2>2. above(x) \subseteq 1..n OBVIOUS
    <2>3. IsFiniteSet(above(x)) BY <2>1, <2>2, FS_Subset
    <2> QED BY <2>2, <2>3 DEF FiniteSubsetsOf
<1>2. T # {} OBVIOUS
<1>3. IsWellFoundedOn(StrictSubsetOrdering(1..n), FiniteSubsetsOf(1..n))
    BY FS_StrictSubsetOrderingWellFounded
<1>4. \E U \in T : \A V \in T : ~ (<<V, U>> \in StrictSubsetOrdering(1..n))
    <2> HIDE DEF T
    <2> QED BY <1>1, <1>2, <1>3, WFMin
<1>5. PICK x \in S :
        \A q \in S : ~ (<<above(q), above(x)>> \in StrictSubsetOrdering(1..n))
    BY <1>4
<1>6. ASSUME NEW q \in S PROVE rank[q] <= rank[x]
    <2> SUFFICES ASSUME rank[x] < rank[q] PROVE FALSE
        <3>1. rank[x] \in Nat /\ rank[q] \in Nat OBVIOUS
        <3> QED BY <3>1
    <2>1. above(q) \subseteq above(x)
        <3> SUFFICES ASSUME NEW y \in above(q) PROVE y \in above(x) OBVIOUS
        <3>1. rank[y] \in Nat /\ rank[x] \in Nat /\ rank[q] \in Nat OBVIOUS
        <3> QED BY <3>1
    <2>2. q \in above(x) /\ q \notin above(q)
        <3>1. rank[q] \in Nat OBVIOUS
        <3> QED BY <3>1
    <2>3. above(q) \in SUBSET (1..n) /\ above(x) \in SUBSET (1..n) OBVIOUS
    <2>4. <<above(q), above(x)>> \in StrictSubsetOrdering(1..n)
        <3> HIDE DEF above
        <3> QED BY <2>1, <2>2, <2>3 DEF StrictSubsetOrdering
    <2> QED BY <1>5, <2>4
<1> QED BY <1>6

(* The last provider or box of a batch exists.                             *)
LEMMA LatestIn ==
    ASSUME NEW n \in Nat, NEW S \in SUBSET (1..n), S # {}
    PROVE  Latest(S) \in S
<1> DEFINE id == [i \in 1..n |-> i]
<1>1. id \in [1..n -> Nat] OBVIOUS
<1>2. PICK x \in S : \A q \in S : id[q] <= id[x]
    <2> HIDE DEF id
    <2> QED BY <1>1, HighestExists
<1>3. \A q \in S : q <= x BY <1>2
<1> QED BY <1>3 DEF Latest

-----------------------------------------------------------------------------
(* What a batch writes is well typed, when some provider has a card.       *)
LEMMA CardedIn ==
    ASSUME NEW f \in Feed
    PROVE  /\ Carded(f) \in SUBSET (1..Providers)
           /\ \A p \in Carded(f) : f[p] \in Card
BY DEF Carded, Feed, Provider

LEMMA PreferredCard ==
    ASSUME NEW f \in Feed, Carded(f) # {}
    PROVE  Preferred(f) \in Card
<1> DEFINE best == {p \in Carded(f) : \A q \in Carded(f) : Rank[q] <= Rank[p]}
<1>1. Carded(f) \in SUBSET (1..Providers) BY CardedIn
<1>2. Rank \in [1..Providers -> Nat] /\ Providers \in Nat
    BY FeedAssumption DEF Provider
<1>3. best # {} BY <1>1, <1>2, HighestExists
<1>4. best \in SUBSET (1..Providers) BY <1>1
<1>5. Latest(best) \in best
    <2> HIDE DEF best
    <2> QED BY <1>2, <1>3, <1>4, LatestIn
<1>6. Latest(best) \in Carded(f) BY <1>5
<1> QED BY <1>6, CardedIn DEF Preferred

LEMMA EntryTyped ==
    ASSUME NEW f \in Feed, NEW p \in Carded(f), NEW b \in Box
    PROVE  f[p].entry[b] \in Entry
<1>1. f[p] \in Card BY CardedIn
<1> QED BY <1>1 DEF Card

LEMMA RunnerTyped ==
    ASSUME NEW f \in Feed, Carded(f) # {}
    PROVE  WrittenRunner(f) \in [Box -> Dog]
<1>1. Latest(Carded(f)) \in Carded(f)
    BY CardedIn, LatestIn, FeedAssumption
<1>2. \A b \in Box : f[Latest(Carded(f))].entry[b] \in Entry
    BY <1>1, EntryTyped
<1> QED BY <1>2 DEF WrittenRunner, Entry

(* What mergeResultRows takes of a box: the finish of a provider that has  *)
(* one, and the time of one that has it, if any.                           *)
LEMMA LatestEntries ==
    ASSUME NEW f \in Feed, NEW b \in Box, Placed(f, b) # {}
    PROVE  /\ f[Latest(Placed(f, b))].entry[b].finish \in Place
           /\ (IF Timed(f, b) = {} THEN None
               ELSE f[Latest(Timed(f, b))].entry[b].run) \in Run \cup {None}
<1>1. Placed(f, b) \in SUBSET (1..Providers) /\ Timed(f, b) \in SUBSET (1..Providers)
    BY CardedIn DEF Placed, Timed
<1>2. Latest(Placed(f, b)) \in Placed(f, b)
    BY <1>1, LatestIn, FeedAssumption
<1>3. f[Latest(Placed(f, b))].entry[b].finish \in Place
    <2>1. Latest(Placed(f, b)) \in Carded(f) BY <1>2 DEF Placed
    <2>2. f[Latest(Placed(f, b))].entry[b] \in Entry BY <2>1, EntryTyped
    <2> QED BY <1>2, <2>2 DEF Placed, Entry
<1>4. Timed(f, b) # {} =>
        f[Latest(Timed(f, b))].entry[b].run \in Run \cup {None}
    <2> SUFFICES ASSUME Timed(f, b) # {}
                 PROVE  f[Latest(Timed(f, b))].entry[b].run \in Run \cup {None}
        OBVIOUS
    <2>1. Latest(Timed(f, b)) \in Timed(f, b)
        BY <1>1, LatestIn, FeedAssumption
    <2>2. Latest(Timed(f, b)) \in Carded(f) BY <2>1 DEF Timed, Placed
    <2> QED BY <2>2, EntryTyped DEF Entry
<1> QED BY <1>3, <1>4

LEMMA ResultTyped ==
    ASSUME NEW f \in Feed, result \in [Box -> ResultRow \cup {None}]
    PROVE  WrittenResult(f) \in [Box -> ResultRow \cup {None}]
<1> SUFFICES ASSUME NEW b \in Box, Placed(f, b) # {}
             PROVE  [finish |-> f[Latest(Placed(f, b))].entry[b].finish,
                     run |-> Coalesce(
                        IF Timed(f, b) = {} THEN None
                        ELSE f[Latest(Timed(f, b))].entry[b].run,
                        IF result[b] = None THEN None ELSE result[b].run)]
                    \in ResultRow
    BY DEF WrittenResult
<1>1. (IF result[b] = None THEN None ELSE result[b].run) \in Run \cup {None}
    BY DEF ResultRow
<1> QED BY <1>1, LatestEntries DEF ResultRow, Coalesce

LEMMA FormTyped ==
    ASSUME NEW f \in Feed, form \in [Dog -> ResultRow \cup {None}]
    PROVE  WrittenForm(f) \in [Dog -> ResultRow \cup {None}]
<1> DEFINE dogs == WrittenRunner(f)
           boxes(p, d) == {b \in Box : p \in Placed(f, b) /\ dogs[b] = d}
           from(d) == {p \in Provider : boxes(p, d) # {}}
           item(d) == f[Latest(from(d))].entry[Latest(boxes(Latest(from(d)), d))]
<1>1. ASSUME NEW d \in Dog, from(d) # {}
      PROVE  item(d).finish \in Place /\ item(d).run \in Run \cup {None}
    <2> DEFINE p == Latest(from(d))
               b == Latest(boxes(p, d))
    <2>1. from(d) \in SUBSET (1..Providers) BY DEF Provider
    <2>2. p \in from(d)
        <3> HIDE DEF from
        <3> QED BY <1>1, <2>1, LatestIn, FeedAssumption
    <2>3. boxes(p, d) # {} /\ boxes(p, d) \in SUBSET (1..Boxes)
        BY <2>2 DEF Box
    <2>4. b \in boxes(p, d)
        <3> HIDE DEF boxes, p
        <3> QED BY <2>3, LatestIn, FeedAssumption
    <2>5. b \in Box /\ p \in Placed(f, b) BY <2>4
    <2> HIDE DEF p, b
    <2>6. p \in Carded(f) /\ f[p].entry[b].finish # None BY <2>5 DEF Placed
    <2>7. f[p].entry[b] \in Entry BY <2>5, <2>6, EntryTyped
    <2>8. f[p].entry[b].finish \in Place /\ f[p].entry[b].run \in Run \cup {None}
        BY <2>6, <2>7 DEF Entry
    <2> QED BY <2>8 DEF p, b
<1>2. WrittenForm(f) = [d \in Dog |->
            IF from(d) = {} THEN form[d]
            ELSE [finish |-> item(d).finish, run |-> item(d).run]]
    BY DEF WrittenForm
<1> HIDE DEF item, from
<1>3. ASSUME NEW d \in Dog, from(d) # {}
      PROVE  [finish |-> item(d).finish, run |-> item(d).run] \in ResultRow
    BY <1>1, <1>3 DEF ResultRow
<1> QED BY <1>2, <1>3

-----------------------------------------------------------------------------
(* A sync that is about to write has a card to write.                      *)
HasCard == \A s \in Sync : proc[s].pc = "write" => Carded(proc[s].feed) # {}

(* A result is of a box that has a dog.                                    *)
HasDog == \A b \in Box : result[b] # None => runner[b] \in Dog

IInv == TypeOK /\ HasCard /\ HasDog

LEMMA IdleTyped == Idle \in ProcState /\ NoFeed \in Feed
BY DEF Idle, ProcState, NoFeed, Feed

LEMMA GoesTyped ==
    ASSUME IInv, NEW s \in Sync, NEW state \in ProcState, Goes(s, state),
           state.pc = "write" => Carded(state.feed) # {}
    PROVE  proc' \in [Sync -> ProcState] /\ HasCard'
<1>1. proc' \in [Sync -> ProcState] BY DEF IInv, TypeOK, Goes
<1>2. ASSUME NEW t \in Sync, proc'[t].pc = "write"
      PROVE  Carded(proc'[t].feed) # {}
    <2>1. CASE t = s
        <3>1. proc'[t] = state BY <2>1 DEF Goes, IInv, TypeOK
        <3> QED BY <1>2, <3>1
    <2>2. CASE t # s
        <3>1. proc'[t] = proc[t] BY <2>2 DEF Goes, IInv, TypeOK
        <3> QED BY <1>2, <3>1 DEF IInv, HasCard
    <2> QED BY <2>1, <2>2
<1>3. HasCard' BY <1>2 DEF HasCard, Carded
<1> QED BY <1>1, <1>3

(* What a provider publishes is well typed.                                *)
LEMMA PublishTyped ==
    ASSUME IInv, NEW p \in Provider, NEW card \in Card, Publish(p, card)
    PROVE  IInv'
<1>1. feed' \in Feed BY DEF IInv, TypeOK, Publish, Feed
<1>2. changes' \in Nat BY DEF IInv, TypeOK, Publish
<1>3. shown' \subseteq User
    <2>1. \A b \in Box : Owners[card.entry[b].dog] \subseteq User
        BY FeedAssumption DEF Card, Entry
    <2> QED BY <2>1 DEF IInv, TypeOK, Publish, ShownFirst
<1>4. HasCard' BY DEF IInv, HasCard, Publish, Carded
<1>5. HasDog' BY DEF IInv, HasDog, Publish, dbVars
<1> QED BY <1>1, <1>2, <1>3, <1>4, <1>5 DEF IInv, TypeOK, Publish, dbVars

(* A provider changes nothing of ours.                                     *)
LEMMA PublishFrame ==
    ASSUME NEW p \in Provider, NewCard(p) \/ Correct(p)
    PROVE  UNCHANGED <<dbVars, told, window, proc, failures>>
<1>1. CASE NewCard(p)
    <2>1. PICK start \in Off \cup {Fallback}, dogs \in [Box -> Dog] :
            Publish(p, [off |-> start, entry |-> [b \in Box |->
                        [dog |-> dogs[b], finish |-> None, run |-> None]]])
        BY <1>1 DEF NewCard
    <2> QED BY <2>1 DEF Publish
<1>2. ASSUME NEW card, Publish(p, card)
      PROVE  UNCHANGED <<dbVars, told, window, proc, failures>>
    BY <1>2 DEF Publish
<1>3. CASE Correct(p)
    BY <1>2, <1>3 DEF Correct
<1> QED BY <1>1, <1>3

LEMMA NewCardTyped ==
    ASSUME IInv, NEW p \in Provider, NewCard(p)
    PROVE  IInv'
<1>1. PICK start \in Off \cup {Fallback}, dogs \in [Box -> Dog] :
        Publish(p, [off |-> start, entry |-> [b \in Box |->
                    [dog |-> dogs[b], finish |-> None, run |-> None]]])
    BY DEF NewCard
<1>2. [b \in Box |-> [dog |-> dogs[b], finish |-> None, run |-> None]]
        \in [Box -> Entry]
    BY DEF Entry
<1>3. [off |-> start, entry |-> [b \in Box |->
            [dog |-> dogs[b], finish |-> None, run |-> None]]] \in Card
    BY <1>2 DEF Card
<1> QED BY <1>1, <1>3, PublishTyped

LEMMA CorrectTyped ==
    ASSUME IInv, NEW p \in Provider, Correct(p)
    PROVE  IInv'
<1>1. feed[p] \in Card BY DEF IInv, TypeOK, Feed, Correct
<1>2. ASSUME NEW start \in Off \cup {Fallback}
      PROVE  [feed[p] EXCEPT !.off = start] \in Card
    BY <1>1 DEF Card
<1>3. ASSUME NEW b \in Box, NEW d \in Dog
      PROVE  [feed[p] EXCEPT !.entry[b].dog = d] \in Card
    <2>1. feed[p].entry \in [Box -> Entry] BY <1>1 DEF Card
    <2>2. [feed[p].entry[b] EXCEPT !.dog = d] \in Entry BY <2>1 DEF Entry
    <2>3. [feed[p].entry EXCEPT ![b] = [feed[p].entry[b] EXCEPT !.dog = d]]
            \in [Box -> Entry]
        BY <2>1, <2>2
    <2> QED BY <1>1, <2>3 DEF Card
<1>4. ASSUME NEW b \in Box, NEW place \in Place, NEW run \in Run \cup {None}
      PROVE  [feed[p] EXCEPT !.entry[b].finish = place, !.entry[b].run = run]
                \in Card
    <2>1. feed[p].entry \in [Box -> Entry] BY <1>1 DEF Card
    <2>2. [[feed[p].entry[b] EXCEPT !.finish = place] EXCEPT !.run = run] \in Entry
        BY <2>1 DEF Entry
    <2>3. [feed[p].entry EXCEPT ![b] =
            [[feed[p].entry[b] EXCEPT !.finish = place] EXCEPT !.run = run]]
            \in [Box -> Entry]
        BY <2>1, <2>2
    <2> QED BY <1>1, <2>1, <2>3 DEF Card
<1> QED BY <1>2, <1>3, <1>4, PublishTyped DEF Correct

LEMMA TypeInductive == IInv /\ [Next]_vars => IInv'
<1> SUFFICES ASSUME IInv, [Next]_vars PROVE IInv' OBVIOUS
<1>1. ASSUME NEW s \in Sync
      PROVE  proc[s] \in ProcState /\ proc[s].feed \in Feed
    BY DEF IInv, TypeOK, ProcState
<1>2. CASE \E p \in Provider : NewCard(p) \/ Correct(p)
    BY <1>2, NewCardTyped, CorrectTyped
<1>3. ASSUME NEW s \in Sync, NEW missing \in SUBSET Provider, Fetch(s, missing)
      PROVE  IInv'
    <2> DEFINE f == [p \in Provider |-> IF p \in missing THEN None ELSE feed[p]]
               state == [Idle EXCEPT !.pc = "write", !.feed = f]
    <2>1. f \in Feed BY DEF IInv, TypeOK, Feed
    <2>2. Carded(f) # {} BY <1>3 DEF Fetch, Carded
    <2>4. Goes(s, state) BY <1>3 DEF Fetch
    <2> HIDE DEF f
    <2>3. state.feed = f BY IdleTyped DEF ProcState
    <2>8. state \in ProcState BY <2>1, IdleTyped DEF ProcState
    <2> HIDE DEF state
    <2>5. proc' \in [Sync -> ProcState] /\ HasCard'
        BY <2>2, <2>3, <2>4, <2>8, GoesTyped
    <2>6. failures' \in Nat BY <1>3 DEF Fetch, IInv, TypeOK
    <2>7. HasDog' BY <1>3 DEF Fetch, IInv, HasDog, dbVars
    <2> QED BY <1>3, <2>5, <2>6, <2>7 DEF Fetch, IInv, TypeOK, feedVars, dbVars
<1>4. ASSUME NEW s \in Sync, Write(s)
      PROVE  IInv'
    <2> DEFINE f == proc[s].feed
    <2>1. f \in Feed /\ Carded(f) # {}
        BY <1>1, <1>4 DEF Write, IInv, HasCard
    <2>2. off' \in Off \cup {Fallback, None}
        BY <1>4, <2>1, PreferredCard DEF Write, WrittenOff, IInv, TypeOK, Card
    <2>3. runner' \in [Box -> Dog]
        BY <1>4, <2>1, RunnerTyped DEF Write
    <2>4. result' \in [Box -> ResultRow \cup {None}]
        BY <1>4, <2>1, ResultTyped DEF Write, IInv, TypeOK
    <2>5. form' \in [Dog -> ResultRow \cup {None}]
        BY <1>4, <2>1, FormTyped DEF Write, IInv, TypeOK
    <2>6. proc' \in [Sync -> ProcState] /\ HasCard'
        <3> DEFINE state == IF s \in Upcoming THEN Idle ELSE [Idle EXCEPT !.pc = "scan"]
        <3>1. state \in ProcState /\ state.pc # "write"
            BY IdleTyped DEF Idle, ProcState
        <3>2. Goes(s, state) BY <1>4 DEF Write
        <3> HIDE DEF state
        <3> QED BY <3>1, <3>2, GoesTyped
    <2>7. HasDog' BY <2>3 DEF HasDog
    <2> QED BY <1>4, <2>2, <2>3, <2>4, <2>5, <2>6, <2>7
            DEF Write, IInv, TypeOK, feedVars
<1>5. ASSUME NEW s \in Sync, Scan(s)
      PROVE  IInv'
    <2>1. OwnersOfWinners \subseteq User
        <3>1. \A b \in Box : Winner(b) => runner[b] \in Dog
            BY DEF IInv, HasDog, Winner
        <3> QED BY <3>1, FeedAssumption DEF OwnersOfWinners
    <2> DEFINE state == [Idle EXCEPT !.pc = "notify",
                    !.todo = IF window = "recent" THEN OwnersOfWinners ELSE {}]
    <2>2. state \in ProcState /\ state.pc # "write"
        BY <2>1, IdleTyped DEF Idle, ProcState
    <2>3. Goes(s, state) BY <1>5 DEF Scan
    <2> HIDE DEF state
    <2>4. proc' \in [Sync -> ProcState] /\ HasCard' BY <2>2, <2>3, GoesTyped
    <2>5. HasDog' BY <1>5 DEF Scan, IInv, HasDog, dbVars
    <2> QED BY <1>5, <2>4, <2>5 DEF Scan, IInv, TypeOK, feedVars, dbVars
<1>6. ASSUME NEW s \in Sync, NEW u \in User, Look(s, u)
      PROVE  IInv'
    <2> DEFINE state == [proc[s] EXCEPT !.todo = @ \ {u},
                    !.creating = IF told[u] = 0 THEN @ \cup {u} ELSE @]
    <2>1. proc[s].todo \subseteq User /\ proc[s].creating \subseteq User
        BY <1>1 DEF ProcState
    <2>2. state \in ProcState /\ state.pc # "write"
        BY <1>1, <1>6, <2>1 DEF Look, ProcState
    <2>3. Goes(s, state) BY <1>6 DEF Look
    <2> HIDE DEF state
    <2>4. proc' \in [Sync -> ProcState] /\ HasCard' BY <2>2, <2>3, GoesTyped
    <2>5. HasDog' BY <1>6 DEF Look, IInv, HasDog, dbVars
    <2> QED BY <1>6, <2>4, <2>5 DEF Look, IInv, TypeOK, feedVars, dbVars
<1>7. ASSUME NEW s \in Sync, Commit(s)
      PROVE  IInv'
    <2>1. told' \in [User -> Nat] BY <1>7 DEF Commit, IInv, TypeOK
    <2>2. Goes(s, Idle) /\ Idle.pc # "write" BY <1>7 DEF Commit, Idle
    <2>3. proc' \in [Sync -> ProcState] /\ HasCard'
        BY <2>2, IdleTyped, GoesTyped
    <2>4. HasDog' BY <1>7 DEF Commit, IInv, HasDog, dbVars
    <2> QED BY <1>7, <2>1, <2>3, <2>4 DEF Commit, IInv, TypeOK, feedVars, dbVars
<1>8. ASSUME NEW s \in Sync, Fail(s)
      PROVE  IInv'
    <2>1. failures' \in Nat BY <1>8 DEF Fail, IInv, TypeOK
    <2>2. Goes(s, Idle) /\ Idle.pc # "write" BY <1>8 DEF Fail, Idle
    <2>3. proc' \in [Sync -> ProcState] /\ HasCard'
        BY <2>2, IdleTyped, GoesTyped
    <2>4. HasDog' BY <1>8 DEF Fail, IInv, HasDog, dbVars
    <2> QED BY <1>8, <2>1, <2>3, <2>4 DEF Fail, IInv, TypeOK, feedVars, dbVars
<1>9. CASE UNCHANGED vars
    BY <1>9 DEF vars, feedVars, dbVars, IInv, TypeOK, HasCard, HasDog, Carded
<1>10. CASE TimePasses
    BY <1>10 DEF TimePasses, feedVars, dbVars, IInv, TypeOK, HasCard, HasDog, Carded
<1> QED BY <1>2, <1>3, <1>4, <1>5, <1>6, <1>7, <1>8, <1>9, <1>10 DEF Next

LEMMA TypeInitial == Init => IInv
BY IdleTyped, BoundAssumption
   DEF Init, IInv, TypeOK, HasCard, HasDog, Idle, Feed, NoFeed

(* Every reachable state is well typed, with a card behind every write.    *)
THEOREM TypeCorrect == Spec => [](TypeOK /\ HasCard /\ HasDog)
BY TypeInitial, TypeInductive, PTL DEF Spec, IInv

-----------------------------------------------------------------------------
(* Whatever a sync writes, a confirmed start time and a known running time *)
(* stay confirmed and known.                                               *)
Kept ==
    /\ off \in Off => off' \in Off
    /\ \A b \in Box : result[b] # None /\ result[b].run # None =>
            result'[b] # None /\ result'[b].run # None

LEMMA WriteKeeps ==
    ASSUME IInv, NEW s \in Sync, Write(s)
    PROVE  Kept
<1> DEFINE f == proc[s].feed
<1>1. f \in Feed /\ Carded(f) # {}
    BY DEF Write, IInv, TypeOK, ProcState, HasCard
<1>2. off \in Off => off' \in Off
    <2>1. Preferred(f).off \in Off \cup {Fallback}
        BY <1>1, PreferredCard DEF Card
    <2> QED BY <2>1, NullAssumption DEF Write, WrittenOff
<1>3. ASSUME NEW b \in Box, result[b] # None, result[b].run # None
      PROVE  result'[b] # None /\ result'[b].run # None
    <2>1. result' = WrittenResult(f) BY DEF Write
    <2>2. CASE Placed(f, b) = {}
        BY <1>3, <2>1, <2>2 DEF WrittenResult
    <2>3. CASE Placed(f, b) # {}
        <3> DEFINE run == IF Timed(f, b) = {} THEN None
                          ELSE f[Latest(Timed(f, b))].entry[b].run
                   finish == f[Latest(Placed(f, b))].entry[b].finish
        <3>1. result'[b] = [finish |-> finish, run |-> Coalesce(run, result[b].run)]
            BY <1>3, <2>1, <2>3 DEF WrittenResult
        <3>2. result'[b].run = Coalesce(run, result[b].run)
            <4> HIDE DEF run, finish
            <4> QED BY <3>1
        <3>3. result'[b].run # None
            <4> HIDE DEF run
            <4> QED BY <1>3, <3>2 DEF Coalesce
        <3>4. finish \in Place /\ run \in Run \cup {None}
            BY <1>1, <2>3, LatestEntries
        <3>5. result[b].run \in Run BY <1>3 DEF IInv, TypeOK, ResultRow
        <3>6. result'[b] \in ResultRow
            <4> HIDE DEF run, finish
            <4> QED BY <3>1, <3>4, <3>5 DEF ResultRow, Coalesce
        <3> QED BY <3>3, <3>6, NullAssumption
    <2> QED BY <2>2, <2>3
<1> QED BY <1>2, <1>3 DEF Kept

(* What a provider confirmed is not lost again.                            *)
THEOREM KnownKept == Spec => KnownStaysKnown
<1>1. IInv /\ [Next]_vars => [Kept]_vars
    <2> SUFFICES ASSUME IInv, Next PROVE Kept
        OBVIOUS
    <2>1. CASE \E s \in Sync : Write(s) BY <2>1, WriteKeeps
    <2>2. CASE UNCHANGED dbVars BY <2>2 DEF Kept, dbVars
    <2>3. CASE \E p \in Provider : NewCard(p) \/ Correct(p)
        BY <2>2, <2>3, PublishFrame
    <2>4. CASE \E s \in Sync, missing \in SUBSET Provider : Fetch(s, missing)
        BY <2>2, <2>4 DEF Fetch
    <2>5. CASE \E s \in Sync : Scan(s) \/ Commit(s) \/ Fail(s)
        BY <2>2, <2>5 DEF Scan, Commit, Fail
    <2>6. CASE \E s \in Sync, u \in User : Look(s, u)
        BY <2>2, <2>6 DEF Look
    <2>7. CASE TimePasses
        BY <2>2, <2>7 DEF TimePasses
    <2> QED BY <2>1, <2>3, <2>4, <2>5, <2>6, <2>7 DEF Next
<1> QED BY <1>1, TypeInitial, TypeInductive, PTL DEF Spec, KnownStaysKnown, Kept

-----------------------------------------------------------------------------
(* The syncs whose transactions are about to tell a user, and why there    *)
(* are never too many: once he has been told no scan adds to them.         *)
Notifiers == Sync \ Upcoming
Telling(u) == {s \in Sync : u \in proc[s].creating}

OnlyNotifiersTell ==
    \A s \in Sync :
        /\ s \in Upcoming => proc[s].pc \in {"idle", "write"}
        /\ proc[s].pc # "notify" => proc[s].creating = {}

ToldAndTelling ==
    \A u \in User :
        told[u] > 0 => told[u] + Cardinality(Telling(u)) <= Cardinality(Notifiers)

NInv == IInv /\ OnlyNotifiersTell /\ ToldAndTelling

(* Those about to tell a user are syncs of results.                        *)
LEMMA TellingBounds ==
    ASSUME OnlyNotifiersTell, NEW u \in User
    PROVE  /\ IsFiniteSet(Telling(u)) /\ Cardinality(Telling(u)) \in Nat
           /\ Cardinality(Notifiers) \in Nat
           /\ Cardinality(Telling(u)) <= Cardinality(Notifiers)
<1>1. IsFiniteSet(Notifiers) BY SyncAssumption, FS_Subset DEF Notifiers
<1>2. Telling(u) \subseteq Notifiers
    BY DEF OnlyNotifiersTell, Telling, Notifiers
<1> QED BY <1>1, <1>2, FS_Subset, FS_CardinalityType

(* A step after which nobody new is about to tell anybody keeps the bound. *)
LEMMA FewerTelling ==
    ASSUME NInv, OnlyNotifiersTell', told' = told,
           \A s \in Sync : proc'[s].creating \subseteq proc[s].creating
    PROVE  ToldAndTelling'
<1> SUFFICES ASSUME NEW u \in User, told[u] > 0
             PROVE  told[u] + Cardinality(Telling(u)') <= Cardinality(Notifiers)
    BY DEF ToldAndTelling, Notifiers
<1>1. Telling(u)' \subseteq Telling(u) BY DEF Telling
<1>2. /\ IsFiniteSet(Telling(u)) /\ Cardinality(Telling(u)) \in Nat
      /\ Cardinality(Notifiers) \in Nat
    BY TellingBounds DEF NInv
<1>3. /\ Cardinality(Telling(u)') \in Nat
      /\ Cardinality(Telling(u)') <= Cardinality(Telling(u))
    BY <1>1, <1>2, FS_Subset, FS_CardinalityType
<1>4. told[u] \in Nat BY DEF NInv, IInv, TypeOK
<1>5. told[u] + Cardinality(Telling(u)) <= Cardinality(Notifiers)
    BY DEF NInv, ToldAndTelling
<1> QED BY <1>2, <1>3, <1>4, <1>5

LEMMA LookKeepsBound ==
    ASSUME NInv, NEW s \in Sync, NEW u \in User, Look(s, u)
    PROVE  OnlyNotifiersTell' /\ ToldAndTelling'
<1>1. /\ proc'[s].pc = "notify" /\ proc[s].pc = "notify"
      /\ proc'[s].creating = IF told[u] = 0 THEN proc[s].creating \cup {u}
                             ELSE proc[s].creating
    BY DEF Look, Goes, NInv, IInv, TypeOK, ProcState
<1>2. \A t \in Sync : t # s => proc'[t] = proc[t]
    BY DEF Look, Goes, NInv, IInv, TypeOK
<1>3. told' = told BY DEF Look
<1>4. OnlyNotifiersTell' BY <1>1, <1>2 DEF NInv, OnlyNotifiersTell
<1>5. ASSUME NEW v \in User, told[v] > 0
      PROVE  told[v] + Cardinality(Telling(v)') <= Cardinality(Notifiers)
    <2>1. Telling(v)' = Telling(v)
        <3>1. v \in proc'[s].creating <=> v \in proc[s].creating
            BY <1>1, <1>5
        <3> QED BY <1>2, <3>1 DEF Telling
    <2> QED BY <1>5, <2>1 DEF NInv, ToldAndTelling
<1> QED BY <1>3, <1>4, <1>5 DEF ToldAndTelling, Notifiers

LEMMA CommitKeepsBound ==
    ASSUME NInv, NEW s \in Sync, Commit(s)
    PROVE  OnlyNotifiersTell' /\ ToldAndTelling'
<1>1. proc'[s] = Idle /\ \A t \in Sync : t # s => proc'[t] = proc[t]
    BY DEF Commit, Goes, NInv, IInv, TypeOK
<1>2. OnlyNotifiersTell' BY <1>1 DEF NInv, OnlyNotifiersTell, Idle
<1>3. ASSUME NEW u \in User, told'[u] > 0
      PROVE  told'[u] + Cardinality(Telling(u)') <= Cardinality(Notifiers)
    <2>1. /\ IsFiniteSet(Telling(u)) /\ Cardinality(Telling(u)) \in Nat
          /\ Cardinality(Notifiers) \in Nat
          /\ Cardinality(Telling(u)) <= Cardinality(Notifiers)
        BY TellingBounds DEF NInv
    <2>2. Telling(u)' = Telling(u) \ {s}
        BY <1>1 DEF Telling, Idle
    <2>3. told[u] \in Nat BY DEF NInv, IInv, TypeOK
    <2>4. told[u] > 0 =>
            told[u] + Cardinality(Telling(u)) <= Cardinality(Notifiers)
        BY DEF NInv, ToldAndTelling
    <2>5. CASE u \in proc[s].creating
        <3>1. s \in Telling(u) BY <2>5 DEF Telling
        <3>2. Cardinality(Telling(u)') = Cardinality(Telling(u)) - 1
            BY <2>1, <2>2, <3>1, FS_RemoveElement
        <3>3. told'[u] = told[u] + 1 BY <2>5 DEF Commit
        <3> QED BY <2>1, <2>3, <2>4, <3>2, <3>3
    <2>6. CASE u \notin proc[s].creating
        <3>1. Telling(u)' = Telling(u) BY <2>2, <2>6 DEF Telling
        <3>2. told'[u] = told[u] BY <2>6 DEF Commit
        <3> QED BY <1>3, <2>4, <3>1, <3>2
    <2> QED BY <2>5, <2>6
<1> QED BY <1>2, <1>3 DEF ToldAndTelling, Notifiers

LEMMA NotifyInductive ==
    ASSUME NInv, [Next]_vars
    PROVE  NInv'
<1>1. IInv' BY TypeInductive DEF NInv
<1>2. ASSUME NEW s \in Sync, Commit(s)
      PROVE  OnlyNotifiersTell' /\ ToldAndTelling'
    BY <1>2, CommitKeepsBound
<1>3. ASSUME NEW s \in Sync, NEW u \in User, Look(s, u)
      PROVE  OnlyNotifiersTell' /\ ToldAndTelling'
    BY <1>3, LookKeepsBound
<1>4. ASSUME NEW s \in Sync, NEW state \in ProcState, Goes(s, state),
             state.creating = {},
             s \in Upcoming => state.pc \in {"idle", "write"},
             told' = told
      PROVE  OnlyNotifiersTell' /\ ToldAndTelling'
    <2>1. proc'[s] = state /\ \A t \in Sync : t # s => proc'[t] = proc[t]
        BY <1>4 DEF Goes, NInv, IInv, TypeOK
    <2>2. OnlyNotifiersTell' BY <1>4, <2>1 DEF NInv, OnlyNotifiersTell
    <2>3. \A t \in Sync : proc'[t].creating \subseteq proc[t].creating
        BY <1>4, <2>1
    <2> QED BY <1>4, <2>2, <2>3, FewerTelling
<1>5. ASSUME UNCHANGED <<told, proc>>
      PROVE  OnlyNotifiersTell' /\ ToldAndTelling'
    <2>1. OnlyNotifiersTell' BY <1>5 DEF NInv, OnlyNotifiersTell
    <2> QED BY <1>5, <2>1, FewerTelling
<1>6. ASSUME NEW s \in Sync, NEW missing \in SUBSET Provider, Fetch(s, missing)
      PROVE  OnlyNotifiersTell' /\ ToldAndTelling'
    <2> DEFINE f == [p \in Provider |-> IF p \in missing THEN None ELSE feed[p]]
    <2>1. f \in Feed BY DEF NInv, IInv, TypeOK, Feed
    <2>2. Goes(s, [Idle EXCEPT !.pc = "write", !.feed = f]) BY <1>6 DEF Fetch
    <2> HIDE DEF f
    <2>3. [Idle EXCEPT !.pc = "write", !.feed = f] \in ProcState
        BY <2>1 DEF Idle, ProcState
    <2>4. /\ [Idle EXCEPT !.pc = "write", !.feed = f].pc = "write"
          /\ [Idle EXCEPT !.pc = "write", !.feed = f].creating = {}
        BY DEF Idle
    <2>5. told' = told BY <1>6 DEF Fetch
    <2> QED BY <1>4, <2>2, <2>3, <2>4, <2>5
<1>7. ASSUME NEW s \in Sync, Write(s)
      PROVE  OnlyNotifiersTell' /\ ToldAndTelling'
    <2> DEFINE state == IF s \in Upcoming THEN Idle ELSE [Idle EXCEPT !.pc = "scan"]
    <2>1. /\ state \in ProcState /\ state.creating = {}
          /\ s \in Upcoming => state.pc \in {"idle", "write"}
        BY IdleTyped DEF Idle, ProcState
    <2>2. Goes(s, state) /\ told' = told BY <1>7 DEF Write
    <2> HIDE DEF state
    <2> QED BY <1>4, <2>1, <2>2
<1>8. ASSUME NEW s \in Sync, Scan(s)
      PROVE  OnlyNotifiersTell' /\ ToldAndTelling'
    <2> DEFINE state == [Idle EXCEPT !.pc = "notify",
                    !.todo = IF window = "recent" THEN OwnersOfWinners ELSE {}]
    <2>1. proc'[s] = state /\ \A t \in Sync : t # s => proc'[t] = proc[t]
        BY <1>8 DEF Scan, Goes, NInv, IInv, TypeOK
    <2>2. s \notin Upcoming BY <1>8 DEF Scan, NInv, OnlyNotifiersTell
    <2>3. state.creating = {} /\ state.pc = "notify" BY DEF Idle
    <2>4. told' = told BY <1>8 DEF Scan
    <2> HIDE DEF state
    <2>5. OnlyNotifiersTell'
        BY <2>1, <2>2, <2>3 DEF NInv, OnlyNotifiersTell
    <2>6. \A t \in Sync : proc'[t].creating \subseteq proc[t].creating
        BY <2>1, <2>3
    <2> QED BY <2>4, <2>5, <2>6, FewerTelling
<1>9. ASSUME NEW s \in Sync, Fail(s)
      PROVE  OnlyNotifiersTell' /\ ToldAndTelling'
    <2>1. Goes(s, Idle) /\ told' = told BY <1>9 DEF Fail
    <2>2. Idle.creating = {} /\ Idle.pc = "idle" BY DEF Idle
    <2> QED BY <1>4, <2>1, <2>2, IdleTyped
<1>10. CASE \E p \in Provider : NewCard(p) \/ Correct(p)
    BY <1>1, <1>5, <1>10, PublishFrame DEF NInv
<1>11. CASE TimePasses
    BY <1>1, <1>5, <1>11 DEF TimePasses, NInv
<1>12. CASE UNCHANGED vars
    BY <1>1, <1>5, <1>12 DEF vars, NInv
<1> QED BY <1>1, <1>2, <1>3, <1>6, <1>7, <1>8, <1>9, <1>10, <1>11, <1>12
        DEF Next, NInv

LEMMA NotifyInitial == Init => NInv
BY TypeInitial DEF Init, NInv, OnlyNotifiersTell, ToldAndTelling, Idle

(* However many syncs of results run, overlapping or not, nobody is told   *)
(* of one win more often than syncs can run at once.                       *)
THEOREM ToldOnce == Spec => []ToldOncePerScan
<1>1. NInv /\ [Next]_vars => NInv' BY NotifyInductive
<1>2. NInv => ToldOncePerScan
    <2> SUFFICES ASSUME NInv, NEW u \in User
                 PROVE  told[u] <= Cardinality(Sync \ Upcoming)
        BY DEF ToldOncePerScan
    <2>1. /\ Cardinality(Telling(u)) \in Nat /\ Cardinality(Notifiers) \in Nat
          /\ told[u] \in Nat
        BY TellingBounds DEF NInv, IInv, TypeOK
    <2>2. told[u] > 0 =>
            told[u] + Cardinality(Telling(u)) <= Cardinality(Notifiers)
        BY DEF NInv, ToldAndTelling
    <2> QED BY <2>1, <2>2 DEF Notifiers
<1> QED BY <1>1, <1>2, NotifyInitial, PTL DEF Spec

-----------------------------------------------------------------------------
(* The import of dog profiles.                                             *)

ImportPc == {"save", "clear", "fill", "record"}
ImporterRow == [pc : Pc, todo : SUBSET Item, errors : 0..MaxItemErrors]

(* An importer at work has an item, and errors to spare.                   *)
AtWork(imp) ==
    imp.pc \in ImportPc =>
        /\ imp.todo # {} /\ imp.errors < MaxItemErrors
        /\ imp.pc \in {"clear", "fill"} => First(imp.todo) \in Profile

(* What it has taken up is not recorded, and once it is about to be, its   *)
(* form rows are there; unless another importer is at the same items.      *)
Holds(imp, done, rows, both) ==
    imp.pc \in ImportPc =>
        /\ imp.todo \cap done \subseteq both
        /\ imp.pc = "record" /\ First(imp.todo) \in Profile =>
            First(imp.todo) \in rows \cup both

Apart(imp, other, both) ==
    imp.pc \in ImportPc /\ other.pc \in ImportPc =>
        imp.todo \cap other.todo \subseteq both

\* Only the supervisor that waits for its importer has one.
Waits(at, imp) == imp.pc # "off" => at \in {"days", "batch"}

Importing(imps, done, rows, both) ==
    /\ imps \in [Importer -> ImporterRow]
    /\ \A i \in Importer : AtWork(imps[i]) /\ Holds(imps[i], done, rows, both)
    /\ \A i, j \in Importer : i # j => Apart(imps[i], imps[j], both)

ImportIInv ==
    /\ ImportTypeOK
    /\ Importing(importer, recorded, forms, shared)
    /\ \A s \in Supervisor : Waits(super[s], importer[s])
    /\ RecordedIsWhole

-----------------------------------------------------------------------------
LEMMA Values ==
    /\ 0 \in 0..MaxItemErrors /\ 0 \in 0..MaxImportFaults
    /\ Profile \subseteq Item /\ RawDay \subseteq Item
    /\ "off" \in Pc /\ "boot" \in Pc
    /\ NoImporter \in ImporterRow /\ NoImporter.pc = "off"
    /\ "off" \notin ImportPc /\ "boot" \notin ImportPc
<1>1. 0 \in 0..MaxItemErrors /\ 0 \in 0..MaxImportFaults
  BY ImportAssumption
<1>2. "off" \in Pc /\ "boot" \in Pc /\ "off" \notin ImportPc /\ "boot" \notin ImportPc
  BY DEF Pc, ImportPc
<1>3. NoImporter \in ImporterRow /\ NoImporter.pc = "off"
  BY <1>1, <1>2 DEF NoImporter, ImporterRow
<1> QED
  BY <1>1, <1>2, <1>3 DEF Item

LEMMA LeastItem ==
    ASSUME NEW T, T \subseteq Nat, T # {}
    PROVE  \E t \in T : \A u \in T : t <= u
<1>1. PICK t \in T : \A u \in T : ~(<<u, t>> \in OpToRel(<, Nat))
  BY NatLessThanWellFounded, WFMin
<1>2. \A u \in T : ~(u < t)
  BY <1>1 DEF OpToRel
<1> QED
  BY <1>2

LEMMA FirstItem ==
    ASSUME NEW S, S \subseteq Item, S # {}
    PROVE  First(S) \in S
<1> DEFINE T == {n \in Nat : n - DayFiles \in S}
<1>1. \A n \in S : n + DayFiles \in T /\ n \in Int
  BY ImportAssumption DEF Item, Profile, RawDay
<1>2. T \subseteq Nat /\ T # {}
  BY <1>1
<1>3. \A t \in T : t - DayFiles \in S
  OBVIOUS
<1> HIDE DEF T
<1>4. PICK t \in T : \A u \in T : t <= u
  BY <1>2, LeastItem
<1>5. t - DayFiles \in S /\ \A m \in S : t - DayFiles <= m
  BY <1>1, <1>2, <1>3, <1>4, ImportAssumption
<1> QED
  BY <1>5 DEF First

(* One importer goes on to an item, or ends, and the others stay.          *)
LEMMA OneMoves ==
    ASSUME ImportIInv, NEW i \in Importer, NEW row \in ImporterRow,
           NEW done, NEW rows, NEW both, shared \subseteq both,
           AtWork(row), Holds(row, done, rows, both),
           \A j \in Importer \ {i} :
            /\ Holds(importer[j], done, rows, both)
            /\ Apart(row, importer[j], both)
    PROVE  Importing([importer EXCEPT ![i] = row], done, rows, both)
<1> DEFINE new == [importer EXCEPT ![i] = row]
<1>1. importer \in [Importer -> ImporterRow]
  BY DEF ImportIInv, Importing
<1>2. new \in [Importer -> ImporterRow]
  BY <1>1
<1>3. new[i] = row /\ \A j \in Importer \ {i} : new[j] = importer[j]
  BY <1>1
<1> HIDE DEF new
<1>4. ASSUME NEW j \in Importer PROVE AtWork(new[j]) /\ Holds(new[j], done, rows, both)
  BY <1>3 DEF ImportIInv, Importing
<1>5. ASSUME NEW j \in Importer, NEW k \in Importer, j # k
      PROVE  Apart(new[j], new[k], both)
  <2>1. CASE j = i
    BY <1>3, <1>5, <2>1
  <2>2. CASE k = i
    BY <1>3, <1>5, <2>2 DEF Apart
  <2>3. CASE j # i /\ k # i
    <3>1. Apart(importer[j], importer[k], shared)
      BY <1>5 DEF ImportIInv, Importing
    <3> QED
      BY <1>3, <2>3, <3>1 DEF Apart
  <2> QED
    BY <2>1, <2>2, <2>3
<1> QED
  BY <1>2, <1>4, <1>5 DEF Importing, new

LEMMA Idles ==
    ASSUME NEW row, row.pc \notin ImportPc, NEW done, NEW rows, NEW both, NEW other
    PROVE  AtWork(row) /\ Holds(row, done, rows, both) /\ Apart(row, other, both)
BY DEF AtWork, Holds, Apart

(* What a step of one importer makes of it.                                *)
LEMMA Becomes ==
    ASSUME ImportIInv, NEW i \in Importer, NEW pc \in Pc, NEW todo \in SUBSET Item,
           NEW errors \in 0..MaxItemErrors, importer[i].pc # "off",
           ImporterBecomes(i, pc, todo, errors),
           NEW done, NEW rows, NEW both, shared \subseteq both,
           LET row == [pc |-> pc, todo |-> todo, errors |-> errors]
           IN  pc \in ImportPc =>
                /\ AtWork(row) /\ Holds(row, done, rows, both)
                /\ \A j \in Importer \ {i} : Apart(row, importer[j], both),
           \A j \in Importer \ {i} : Holds(importer[j], done, rows, both)
    PROVE  /\ Importing(importer', done, rows, both)
           /\ \A s \in Supervisor : Waits(super'[s], importer'[s])
<1> DEFINE row == [pc |-> pc, todo |-> todo, errors |-> errors]
           new == IF i = "orphan" /\ pc \in {"exit 0", "exit 1", "exit 75"}
                  THEN NoImporter ELSE row
<1>1. importer' = [importer EXCEPT ![i] = new] /\ super' = super
  BY DEF ImporterBecomes
<1>2. importer \in [Importer -> ImporterRow]
  BY DEF ImportIInv, Importing
<1>3. row \in ImporterRow /\ NoImporter \in ImporterRow
  BY Values DEF ImporterRow
<1>4. row.pc = pc /\ NoImporter.pc = "off"
  BY DEF NoImporter
<1>5. new \in ImporterRow /\ (new.pc \in ImportPc => new = row /\ pc \in ImportPc)
  BY <1>3, <1>4 DEF ImportPc
<1>6. AtWork(new) /\ Holds(new, done, rows, both)
      /\ \A j \in Importer \ {i} : Apart(new, importer[j], both)
  <2>1. CASE new.pc \in ImportPc
    BY <1>5, <2>1
  <2>2. CASE new.pc \notin ImportPc
    BY <2>2, Idles
  <2> QED
    BY <2>1, <2>2
<1> HIDE DEF new
<1>7. Importing([importer EXCEPT ![i] = new], done, rows, both)
  BY <1>5, <1>6, OneMoves
<1>8. ASSUME NEW s \in Supervisor PROVE Waits(super'[s], importer'[s])
  BY <1>1, <1>2 DEF ImportIInv, Waits
<1> QED
  BY <1>1, <1>7, <1>8

\* An importer at work takes its first item; no other has it, unless shared.
LEMMA TakesFirst ==
    ASSUME ImportIInv, NEW i \in Importer, importer[i].pc \in ImportPc
    PROVE  /\ importer[i].pc \in Pc /\ importer[i].todo \in SUBSET Item
           /\ importer[i].errors \in 0..MaxItemErrors
           /\ importer[i].errors + 1 \in 0..MaxItemErrors
           /\ importer[i].pc # "off" /\ importer[i].todo # {}
           /\ importer[i].errors < MaxItemErrors
           /\ Item1(i) \in importer[i].todo /\ Item1(i) \in Item
           /\ AtWork(importer[i]) /\ Holds(importer[i], recorded, forms, shared)
           /\ \A j \in Importer \ {i} :
                /\ Holds(importer[j], recorded, forms, shared)
                /\ Apart(importer[i], importer[j], shared)
                /\ importer[j].pc \in ImportPc /\ Item1(i) \in importer[j].todo =>
                    Item1(i) \in shared
<1>1. importer[i] \in ImporterRow /\ AtWork(importer[i])
  BY DEF ImportIInv, Importing
<1>2. importer[i].todo # {} /\ importer[i].errors < MaxItemErrors
      /\ importer[i].errors \in Nat /\ importer[i].todo \subseteq Item
  BY <1>1, ImportAssumption DEF AtWork, ImporterRow
<1>3. Item1(i) \in importer[i].todo
  BY <1>2, FirstItem DEF Item1
<1>4. \A j \in Importer \ {i} : Apart(importer[i], importer[j], shared)
                               /\ Holds(importer[j], recorded, forms, shared)
  BY DEF ImportIInv, Importing
<1>5. Holds(importer[i], recorded, forms, shared)
  BY DEF ImportIInv, Importing
<1>6. \A j \in Importer \ {i} :
        importer[j].pc \in ImportPc /\ Item1(i) \in importer[j].todo => Item1(i) \in shared
  BY <1>3, <1>4 DEF Apart
<1>7. importer[i].errors \in 0..MaxItemErrors /\ importer[i].errors + 1 \in 0..MaxItemErrors
  BY <1>2, ImportAssumption
<1> QED
  BY <1>1, <1>2, <1>3, <1>4, <1>5, <1>6, <1>7 DEF ImporterRow, ImportPc

(* Going on to the next item.                                              *)
LEMMA ImportGoesOn ==
    ASSUME ImportIInv, NEW i \in Importer, importer[i].pc \in ImportPc,
           NEW errors \in 0..MaxItemErrors, NextItem(i, errors),
           NEW done, NEW rows, forms \subseteq rows,
           recorded \subseteq done, done \subseteq recorded \cup {Item1(i)}
    PROVE  /\ Importing(importer', done, rows, shared)
           /\ \A s \in Supervisor : Waits(super'[s], importer'[s])
           /\ UNCHANGED <<windows, malformed, super, racing>>
<1> DEFINE todo == importer[i].todo \ {Item1(i)}
           pc == IF todo # {} /\ errors < MaxItemErrors THEN "save"
                   ELSE IF errors = 0 THEN "exit 0" ELSE "exit 1"
           left == IF errors < MaxItemErrors THEN todo ELSE {}
           row == [pc |-> pc, todo |-> left, errors |-> errors]
<1>1. ImporterBecomes(i, pc, left, errors)
  BY DEF NextItem
<1>2. pc \in Pc /\ left \in SUBSET Item /\ importer[i].pc # "off"
  BY TakesFirst DEF Pc, ImportPc
<1>3. ASSUME pc \in ImportPc
      PROVE  /\ AtWork(row) /\ Holds(row, done, rows, shared)
             /\ \A j \in Importer \ {i} : Apart(row, importer[j], shared)
  <2>1. row.pc = "save" /\ row.todo = todo /\ row.errors = errors
        /\ todo # {} /\ errors < MaxItemErrors
    BY <1>3 DEF ImportPc
  <2>2. todo \cap done \subseteq importer[i].todo \cap recorded
    OBVIOUS
  <2>3. importer[i].todo \cap recorded \subseteq shared
    BY TakesFirst DEF Holds
  <2>4. \A j \in Importer \ {i} : Apart(row, importer[j], shared)
    BY <2>1, TakesFirst DEF Apart
  <2> QED
    BY <2>1, <2>2, <2>3, <2>4 DEF AtWork, Holds
<1>4. ASSUME NEW j \in Importer \ {i} PROVE Holds(importer[j], done, rows, shared)
  BY TakesFirst DEF Holds
<1> HIDE DEF pc, left
<1> QED
  BY <1>1, <1>2, <1>3, <1>4, Becomes DEF ImporterBecomes
-----------------------------------------------------------------------------
LEMMA Begins == ImportInit => ImportIInv
<1> SUFFICES ASSUME ImportInit PROVE ImportIInv
  OBVIOUS
<1>1. 0 \in 0..MaxItemErrors /\ 0 \in 0..MaxImportFaults /\ "off" \notin ImportPc
  BY Values
<1>2. NoImporter \in ImporterRow /\ NoImporter.pc = "off"
  BY Values
<1>3. importer \in [Importer -> ImporterRow] /\ \A i \in Importer : importer[i] = NoImporter
  BY <1>2 DEF ImportInit
<1>4. Importing(importer, recorded, forms, shared)
  BY <1>1, <1>2, <1>3, Idles DEF Importing
<1>5. ImportTypeOK
  BY <1>1, <1>3 DEF ImportInit, ImportTypeOK, ImporterRow
<1>6. \A s \in Supervisor : Waits(super[s], importer[s])
  BY <1>2, <1>3 DEF Waits, Importer
<1>7. RecordedIsWhole
  BY DEF ImportInit, RecordedIsWhole
<1> QED
  BY <1>4, <1>5, <1>6, <1>7 DEF ImportIInv

\* The importers are what has been shown of them; the rest is of its type.
LEMMA Preserves ==
    ASSUME ImportIInv,
           Importing(importer', recorded', forms', shared'),
           \A s \in Supervisor : Waits(super'[s], importer'[s]),
           super' = super \/ super' \in [Supervisor -> {"poll", "start days",
               "start profiles", "days", "batch", "done", "threw"}],
           windows' = windows, malformed' = malformed, racing' \in BOOLEAN,
           recorded' \subseteq Item, forms' \subseteq Profile, shared' \subseteq Item,
           importFaults' \in 0..MaxImportFaults,
           RecordedIsWhole'
    PROVE  ImportIInv'
<1>1. importer' \in [Importer -> ImporterRow]
  BY DEF Importing
<1>2. ImportTypeOK'
  BY <1>1 DEF ImportIInv, ImportTypeOK, ImporterRow
<1> QED
  BY <1>2 DEF ImportIInv

LEMMA Counts ==
    ASSUME ImportIInv, importFaults < MaxImportFaults
    PROVE  importFaults + 1 \in 0..MaxImportFaults
<1>1. importFaults \in 0..MaxImportFaults
  BY DEF ImportIInv, ImportTypeOK
<1> QED
  BY <1>1, ImportAssumption

\* The supervisor's steps that leave the importers as they are.
LEMMA SuperMoves ==
    ASSUME ImportIInv, NEW s \in Supervisor, super[s] \notin {"days", "batch"},
           NEW pc \in {"poll", "start days", "start profiles", "done"}, SuperGoes(s, pc),
           UNCHANGED <<windows, malformed, recorded, forms, shared, importer, racing>>,
           importFaults' \in 0..MaxImportFaults
    PROVE  ImportIInv'
<1>1. super \in [Supervisor -> {"poll", "start days", "start profiles", "days",
                                "batch", "done", "threw"}]
  BY DEF ImportIInv, ImportTypeOK
<1>2. super' \in [Supervisor -> {"poll", "start days", "start profiles", "days",
                                 "batch", "done", "threw"}]
  BY <1>1 DEF SuperGoes
<1>3. \A t \in Supervisor : t # s => super'[t] = super[t]
  BY <1>1 DEF SuperGoes
<1>4. \A t \in Supervisor : Waits(super'[t], importer'[t])
  BY <1>3 DEF ImportIInv, Waits
<1>5. /\ Importing(importer', recorded', forms', shared') /\ RecordedIsWhole'
      /\ racing' \in BOOLEAN /\ recorded' \subseteq Item /\ forms' \subseteq Profile
      /\ shared' \subseteq Item
  BY DEF ImportIInv, ImportTypeOK, RecordedIsWhole
<1> QED
  BY <1>2, <1>4, <1>5, Preserves

LEMMA PollStep ==
    ASSUME ImportIInv, NEW s \in Supervisor, Polls(s) PROVE ImportIInv'
<1>1. \E pc \in {"done", "start profiles", "start days"} : SuperGoes(s, pc)
  BY DEF Polls, Supervisor
<1>2. super[s] \notin {"days", "batch"} /\ importFaults' \in 0..MaxImportFaults
  BY DEF Polls, ImportIInv, ImportTypeOK
<1> QED
  BY <1>1, <1>2, SuperMoves DEF Polls

LEMMA UnavailableStep ==
    ASSUME ImportIInv, NEW s \in Supervisor, Unavailable(s) PROVE ImportIInv'
<1>1. super[s] \notin {"days", "batch"} /\ importFaults' \in 0..MaxImportFaults
  BY Counts DEF Unavailable
<1> QED
  BY <1>1, SuperMoves DEF Unavailable

\* A row that is not at work in the place of a supervisor's importer.
LEMMA IdleImporter ==
    ASSUME ImportIInv, NEW i \in Importer, NEW row \in ImporterRow,
           row.pc \notin ImportPc
    PROVE  Importing([importer EXCEPT ![i] = row], recorded, forms, shared)
<1>1. \A j \in Importer : Holds(importer[j], recorded, forms, shared)
  BY DEF ImportIInv, Importing
<1>2. AtWork(row) /\ Holds(row, recorded, forms, shared)
      /\ \A j \in Importer \ {i} : Apart(row, importer[j], shared)
  BY Idles
<1> QED
  BY <1>1, <1>2, OneMoves

LEMMA ImportStartStep ==
    ASSUME ImportIInv, NEW s \in Supervisor, Starts(s) PROVE ImportIInv'
<1> DEFINE todo == IF super[s] = "start days" THEN RawDay ELSE Profile
           row == [NoImporter EXCEPT !.pc = "boot", !.todo = todo]
<1>1. importer' = [importer EXCEPT ![s] = row]
  BY DEF Starts
<1>3. row \in ImporterRow /\ row.pc \notin ImportPc
  <2>1. todo \in SUBSET Item
    BY Values
  <2> HIDE DEF todo
  <2>2. row \in ImporterRow /\ row.pc = "boot"
    BY <2>1, Values DEF ImporterRow
  <2> QED
    BY <2>2, Values
<1> HIDE DEF row
<1>4. s \in Importer
  BY DEF Importer
<1>5. Importing(importer', recorded', forms', shared')
  BY <1>1, <1>3, <1>4, IdleImporter DEF Starts
<1>6. super \in [Supervisor -> {"poll", "start days", "start profiles", "days",
                                "batch", "done", "threw"}]
  BY DEF ImportIInv, ImportTypeOK
<1>7. super' \in [Supervisor -> {"poll", "start days", "start profiles", "days",
                                 "batch", "done", "threw"}]
      /\ super'[s] \in {"days", "batch"}
      /\ \A t \in Supervisor : t # s => super'[t] = super[t]
  BY <1>6 DEF Starts, SuperGoes
<1>8. \A t \in Supervisor : Waits(super'[t], importer'[t])
  <2>1. \A t \in Supervisor : t # s => importer'[t] = importer[t]
    BY <1>1 DEF ImportIInv, Importing, Importer
  <2> QED
    BY <1>7, <2>1 DEF ImportIInv, Waits
<1>9. /\ racing' \in BOOLEAN /\ recorded' \subseteq Item /\ forms' \subseteq Profile
      /\ shared' \subseteq Item /\ importFaults' \in 0..MaxImportFaults /\ RecordedIsWhole'
      /\ windows' = windows /\ malformed' = malformed
  BY DEF Starts, ImportIInv, ImportTypeOK, RecordedIsWhole
<1> QED
  BY <1>5, <1>7, <1>8, <1>9, Preserves

LEMMA EndStep ==
    ASSUME ImportIInv, NEW s \in Supervisor, BatchEnds(s) PROVE ImportIInv'
<1>1. s \in Importer /\ NoImporter \in ImporterRow /\ NoImporter.pc \notin ImportPc
      /\ NoImporter.pc = "off"
  BY Values DEF Importer
<1>2. Importing(importer', recorded', forms', shared')
  BY <1>1, IdleImporter DEF BatchEnds
<1>3. super \in [Supervisor -> {"poll", "start days", "start profiles", "days",
                                "batch", "done", "threw"}]
  BY DEF ImportIInv, ImportTypeOK
<1>4. super[s] \in {"days", "batch"}
  BY DEF BatchEnds, ImportIInv, Waits
<1>5. After(importer[s].pc, super[s]) \in {"start profiles", "poll", "threw"}
  BY <1>4 DEF BatchEnds, After
<1>6. super' \in [Supervisor -> {"poll", "start days", "start profiles", "days",
                                 "batch", "done", "threw"}]
      /\ \A t \in Supervisor : t # s => super'[t] = super[t]
  BY <1>3, <1>5 DEF BatchEnds, SuperGoes
<1>7. \A t \in Supervisor : Waits(super'[t], importer'[t])
  <2>1. importer'[s] = NoImporter /\ \A t \in Supervisor : t # s => importer'[t] = importer[t]
    BY <1>1 DEF BatchEnds, ImportIInv, Importing, Importer
  <2> QED
    BY <1>1, <1>6, <2>1 DEF ImportIInv, Waits
<1>8. /\ racing' \in BOOLEAN /\ recorded' \subseteq Item /\ forms' \subseteq Profile
      /\ shared' \subseteq Item /\ importFaults' \in 0..MaxImportFaults /\ RecordedIsWhole'
      /\ windows' = windows /\ malformed' = malformed
  BY DEF BatchEnds, ImportIInv, ImportTypeOK, RecordedIsWhole
<1> QED
  BY <1>2, <1>6, <1>7, <1>8, Preserves

LEMMA RaceStep == ASSUME ImportIInv, RaceImports PROVE ImportIInv'
<1>1. importFaults' \in 0..MaxImportFaults
  BY Counts DEF RaceImports, ImportIInv, ImportTypeOK
<1>2. racing' \in BOOLEAN
  BY DEF RaceImports
<1>3. /\ importer' = importer /\ super' = super /\ windows' = windows
      /\ malformed' = malformed /\ recorded' = recorded /\ forms' = forms /\ shared' = shared
  BY DEF RaceImports
<1> QED
  BY <1>1, <1>2, <1>3 DEF ImportIInv, ImportTypeOK, RecordedIsWhole

(* The kill: the importer's row is moved to the place of the one left      *)
(* running, or dropped.                                                    *)
LEMMA TimeoutStep ==
    ASSUME ImportIInv, NEW s \in Supervisor, BatchTimesOut(s) PROVE ImportIInv'
<1> DEFINE dead == [NoImporter EXCEPT !.pc = "exit 75"]
<1>1. s \in Importer /\ "orphan" \in Importer /\ s # "orphan"
      /\ \A t \in Supervisor : t \in Importer /\ t # "orphan"
  BY DEF Supervisor, Importer
<1>2. importer \in [Importer -> ImporterRow]
  BY DEF ImportIInv, Importing
<1>3. dead \in ImporterRow /\ dead.pc = "exit 75" /\ dead.pc \notin ImportPc
  BY Values DEF ImporterRow, Pc, ImportPc
<1>4. importer' = [importer EXCEPT ![s] = dead,
                    !["orphan"] = IF windows THEN @ ELSE importer[s]]
  BY DEF BatchTimesOut
<1> HIDE DEF dead
<1>5. importer' \in [Importer -> ImporterRow]
  BY <1>1, <1>2, <1>3, <1>4
<1>6. /\ importer'[s] = dead
      /\ importer'["orphan"] = IF windows THEN importer["orphan"] ELSE importer[s]
      /\ \A i \in Importer \ {s, "orphan"} : importer'[i] = importer[i]
  BY <1>1, <1>2, <1>4
<1>7. ASSUME NEW i \in Importer
      PROVE  AtWork(importer'[i]) /\ Holds(importer'[i], recorded, forms, shared)
  BY <1>1, <1>3, <1>6, Idles DEF ImportIInv, Importing
<1>8. ASSUME NEW i \in Importer, NEW j \in Importer, i # j
      PROVE  Apart(importer'[i], importer'[j], shared)
  <2>1. CASE i = s \/ j = s
    BY <1>3, <1>6, <2>1 DEF Apart
  <2>2. CASE i # s /\ j # s
    BY <1>1, <1>6, <1>8, <2>2 DEF ImportIInv, Importing
  <2> QED
    BY <2>1, <2>2
<1>9. Importing(importer', recorded, forms, shared)
  BY <1>5, <1>7, <1>8 DEF Importing
<1>10. \A t \in Supervisor : Waits(super'[t], importer'[t])
  <2>1. importer[s].pc # "off" /\ super' = super
    BY DEF BatchTimesOut, ImporterRuns
  <2> QED
    BY <1>1, <1>6, <2>1 DEF ImportIInv, Waits
<1>11. importFaults' \in 0..MaxImportFaults
  BY Counts DEF BatchTimesOut
<1>12. /\ racing' \in BOOLEAN /\ recorded' = recorded /\ forms' = forms
       /\ shared' = shared /\ windows' = windows /\ malformed' = malformed /\ super' = super
       /\ recorded \subseteq Item /\ forms \subseteq Profile /\ shared \subseteq Item
       /\ RecordedIsWhole
  BY DEF BatchTimesOut, ImportIInv, ImportTypeOK
<1> QED
  BY <1>9, <1>10, <1>11, <1>12, Preserves DEF RecordedIsWhole

-----------------------------------------------------------------------------
\* Rows, records and shared items of the steps of an importer.
LEMMA Tables ==
    ASSUME ImportIInv
    PROVE  /\ recorded \subseteq Item /\ forms \subseteq Profile /\ shared \subseteq Item
           /\ RecordedIsWhole /\ importFaults \in 0..MaxImportFaults /\ racing \in BOOLEAN
BY DEF ImportIInv, ImportTypeOK

LEMMA ImportBootStep ==
    ASSUME ImportIInv, NEW i \in Importer, NEW kind, Boots(i, kind) PROVE ImportIInv'
<1>1. importer[i] \in ImporterRow /\ importer[i].pc = "boot"
  BY DEF ImportIInv, Importing, Boots
<1>2. Selected(i) \subseteq importer[i].todo \ recorded /\ Selected(i) \in SUBSET Item
  BY <1>1 DEF Selected, ImporterRow
<1>3. \A j \in Importer :
        Holds(importer[j], recorded, forms, shared \cup (Selected(i) \cap Others(i)))
        /\ Holds(importer[j], recorded, forms, shared)
  BY DEF ImportIInv, Importing, Holds
<1>4. ASSUME NEW j \in Importer \ {i}, importer[j].pc \in ImportPc
      PROVE  importer[j].todo \subseteq Others(i)
  <2>1. j \in {k \in Importer \ {i} : ImporterRuns(k) /\ importer[k].pc # "boot"}
    BY <1>4 DEF ImportPc, ImporterRuns
  <2> QED
    BY <2>1 DEF Others
<1>5. CASE /\ ImporterBecomes(i, IF Selected(i) = {} THEN "exit 0" ELSE "save", Selected(i), 0)
           /\ shared' = shared \cup (Selected(i) \cap Others(i))
           /\ importFaults' = importFaults
  <2> DEFINE pc == IF Selected(i) = {} THEN "exit 0" ELSE "save"
             both == shared \cup (Selected(i) \cap Others(i))
             row == [pc |-> pc, todo |-> Selected(i), errors |-> 0]
  <2>1. pc \in Pc
    BY DEF Pc
  <2>2. pc \in ImportPc =>
            /\ AtWork(row) /\ Holds(row, recorded, forms, both)
            /\ \A j \in Importer \ {i} : Apart(row, importer[j], both)
    <3>1. SUFFICES ASSUME pc \in ImportPc
                   PROVE  /\ AtWork(row) /\ Holds(row, recorded, forms, both)
                          /\ \A j \in Importer \ {i} : Apart(row, importer[j], both)
      OBVIOUS
    <3>2. pc = "save" /\ Selected(i) # {}
      BY <3>1 DEF ImportPc
    <3>3. row.pc = "save" /\ row.todo = Selected(i) /\ row.errors = 0
      BY <3>2
    <3> HIDE DEF row
    <3>4. AtWork(row)
      BY <3>2, <3>3, ImportAssumption DEF AtWork
    <3>5. Holds(row, recorded, forms, both)
      BY <1>2, <3>3 DEF Holds
    <3>6. \A j \in Importer \ {i} : Apart(row, importer[j], both)
      BY <1>4, <3>3 DEF Apart
    <3> QED
      BY <3>4, <3>5, <3>6
  <2>3. ImporterBecomes(i, pc, Selected(i), 0)
    BY <1>5
  <2>4. shared \subseteq both
    OBVIOUS
  <2>5. \A j \in Importer \ {i} : Holds(importer[j], recorded, forms, both)
    BY <1>3
  <2>6. importer[i].pc # "off"
    BY <1>1
  <2> HIDE DEF pc, both
  <2>7. /\ Importing(importer', recorded, forms, both)
        /\ \A s \in Supervisor : Waits(super'[s], importer'[s])
    BY <1>2, <2>1, <2>2, <2>3, <2>4, <2>5, <2>6, Values, Becomes
  <2>8. /\ shared' = both /\ recorded' = recorded /\ forms' = forms
        /\ windows' = windows /\ malformed' = malformed /\ super' = super /\ racing' = racing
    BY <1>5 DEF Boots, ImporterBecomes, both
  <2>9. RecordedIsWhole' /\ both \subseteq Item
    BY <1>2, <2>8, Tables DEF RecordedIsWhole, both
  <2> QED
    BY <1>5, <2>7, <2>8, <2>9, Tables, Preserves
<1>6. CASE /\ importFaults < MaxImportFaults /\ importFaults' = importFaults + 1
           /\ ImporterBecomes(i, "exit 75", {}, 0)
           /\ shared' = shared
  <2>1. "exit 75" \in Pc /\ "exit 75" \notin ImportPc /\ {} \in SUBSET Item
    BY DEF Pc, ImportPc
  <2>2. importer[i].pc # "off"
    BY <1>1
  <2>3. /\ Importing(importer', recorded, forms, shared)
        /\ \A s \in Supervisor : Waits(super'[s], importer'[s])
    BY <1>3, <1>6, <2>1, <2>2, Values, Becomes
  <2>4. /\ recorded' = recorded /\ forms' = forms
        /\ windows' = windows /\ malformed' = malformed /\ super' = super /\ racing' = racing
    BY <1>6 DEF Boots, ImporterBecomes
  <2>5. RecordedIsWhole'
    BY <1>6, <2>4, Tables DEF RecordedIsWhole
  <2> QED
    BY <1>6, <2>3, <2>4, <2>5, Counts, Tables, Preserves
<1> QED
  BY <1>5, <1>6 DEF Boots

\* A step to another of its statements, with the same items.
LEMMA Advances ==
    ASSUME ImportIInv, NEW i \in Importer, importer[i].pc \in ImportPc,
           NEW pc \in ImportPc, ImporterBecomes(i, pc, importer[i].todo, importer[i].errors),
           pc \in {"clear", "fill"} => Item1(i) \in Profile,
           NEW rows \in SUBSET Profile,
           pc = "record" /\ Item1(i) \in Profile => Item1(i) \in rows \cup shared,
           forms \subseteq rows \cup {Item1(i)},
           forms \subseteq rows \/ pc # "record",
           recorded' = recorded, shared' = shared, importFaults' = importFaults,
           forms' = rows
    PROVE  ImportIInv'
<1> DEFINE row == [pc |-> pc, todo |-> importer[i].todo, errors |-> importer[i].errors]
<1>1. row.pc = pc /\ row.todo = importer[i].todo /\ row.errors = importer[i].errors
      /\ pc \in Pc
  BY DEF ImportPc, Pc
<1> HIDE DEF row
<1>2. AtWork(row)
  BY <1>1, TakesFirst DEF AtWork, Item1
<1>3. Holds(row, recorded, rows, shared)
  BY <1>1, TakesFirst DEF Holds, Item1
<1>4. \A j \in Importer \ {i} : Apart(row, importer[j], shared)
  BY <1>1, TakesFirst DEF Apart
<1>5. ASSUME NEW j \in Importer \ {i} PROVE Holds(importer[j], recorded, rows, shared)
  <2>1. ASSUME importer[j].pc = "record", First(importer[j].todo) \in Profile
        PROVE  First(importer[j].todo) \in rows \cup shared
    <3>1. importer[j].pc \in ImportPc
      BY <2>1 DEF ImportPc
    <3>2. First(importer[j].todo) \in importer[j].todo
      BY <3>1, TakesFirst DEF Item1
    <3>3. First(importer[j].todo) \in forms \cup shared
      BY <2>1, <3>1, TakesFirst DEF Holds
    <3>4. CASE First(importer[j].todo) = Item1(i)
      BY <3>1, <3>2, <3>4, TakesFirst
    <3>5. CASE First(importer[j].todo) # Item1(i)
      BY <3>3, <3>5
    <3> QED
      BY <3>4, <3>5
  <2> QED
    BY <2>1, TakesFirst DEF Holds
<1>6. importer[i].pc # "off" /\ importer[i].todo \in SUBSET Item
      /\ importer[i].errors \in 0..MaxItemErrors
  BY TakesFirst
<1>7. /\ Importing(importer', recorded, rows, shared)
      /\ \A s \in Supervisor : Waits(super'[s], importer'[s])
  BY <1>1, <1>2, <1>3, <1>4, <1>5, <1>6, Becomes DEF row
<1>8. windows' = windows /\ malformed' = malformed /\ super' = super /\ racing' = racing
  BY DEF ImporterBecomes
<1>9. Item1(i) \notin recorded \ shared
  BY TakesFirst DEF Holds
<1>10. RecordedIsWhole'
  BY <1>9, Tables DEF RecordedIsWhole
<1> QED
  BY <1>7, <1>8, <1>10, Tables, Preserves

LEMMA SyncStep == ASSUME ImportIInv, NEW i \in Importer, SyncDay(i) PROVE ImportIInv'
<1>1. Item1(i) \notin Profile
  BY ImportAssumption DEF SyncDay, Profile, RawDay
<1> QED
  BY <1>1, Tables, Advances DEF SyncDay, ImportPc

LEMMA SaveStep == ASSUME ImportIInv, NEW i \in Importer, Save(i) PROVE ImportIInv'
BY Tables, Advances DEF Save, ImportPc

LEMMA ClearStep == ASSUME ImportIInv, NEW i \in Importer, Clear(i) PROVE ImportIInv'
<1>1. importer[i].pc \in ImportPc /\ Item1(i) \in Profile
  BY DEF Clear, ImportPc, ImportIInv, Importing, AtWork, Item1
<1>2. forms \ {Item1(i)} \in SUBSET Profile /\ forms \subseteq (forms \ {Item1(i)}) \cup {Item1(i)}
  BY Tables
<1>3. "fill" \in ImportPc
  BY DEF ImportPc
<1> QED
  BY <1>1, <1>2, <1>3, Advances DEF Clear

LEMMA FillStep == ASSUME ImportIInv, NEW i \in Importer, Fill(i) PROVE ImportIInv'
<1>1. importer[i].pc \in ImportPc /\ Item1(i) \in Profile
  BY DEF Fill, ImportPc, ImportIInv, Importing, AtWork, Item1
<1>2. forms \cup {Item1(i)} \in SUBSET Profile
  BY <1>1, Tables
<1> DEFINE pc == IF Item1(i) \in forms THEN "save" ELSE "record"
<1>3. pc \in ImportPc /\ pc \notin {"clear", "fill"}
  BY DEF ImportPc
<1>4. /\ ImporterBecomes(i, pc, importer[i].todo, importer[i].errors)
      /\ recorded' = recorded /\ shared' = shared /\ importFaults' = importFaults
      /\ forms' = forms \cup {Item1(i)}
  BY DEF Fill
<1> HIDE DEF pc
<1>5. Item1(i) \in (forms \cup {Item1(i)}) \cup shared
      /\ forms \subseteq (forms \cup {Item1(i)}) \cup {Item1(i)}
      /\ forms \subseteq forms \cup {Item1(i)}
  OBVIOUS
<1> QED
  BY <1>1, <1>2, <1>3, <1>4, <1>5, Advances

LEMMA ImportRecordStep == ASSUME ImportIInv, NEW i \in Importer, RecordItem(i) PROVE ImportIInv'
<1>1. importer[i].pc \in ImportPc /\ importer[i].pc = "record"
  BY DEF RecordItem, ImportPc
<1>2. importer[i].errors \in 0..MaxItemErrors /\ Item1(i) \in Item
  BY <1>1, TakesFirst
<1>3. /\ recorded' = recorded \cup {Item1(i)} /\ forms' = forms /\ shared' = shared
      /\ importFaults' = importFaults /\ NextItem(i, importer[i].errors)
  BY DEF RecordItem
<1>4. recorded \subseteq recorded' /\ recorded' \subseteq recorded \cup {Item1(i)}
      /\ recorded' \subseteq Item
  BY <1>2, <1>3, Tables
<1>5. /\ Importing(importer', recorded', forms, shared)
      /\ \A s \in Supervisor : Waits(super'[s], importer'[s])
      /\ UNCHANGED <<windows, malformed, super, racing>>
  BY <1>1, <1>2, <1>3, <1>4, ImportGoesOn
<1>6. Item1(i) \in Profile => Item1(i) \in forms \cup shared
  BY <1>1, TakesFirst DEF Holds, Item1
<1>7. RecordedIsWhole'
  BY <1>3, <1>6, Tables DEF RecordedIsWhole
<1> QED
  BY <1>3, <1>4, <1>5, <1>7, Tables, Preserves

\* An item that failed.
LEMMA Fails ==
    ASSUME ImportIInv, NEW i \in Importer, importer[i].pc \in ImportPc,
           NextItem(i, importer[i].errors + 1),
           recorded' = recorded, forms' = forms, shared' = shared,
           importFaults' \in 0..MaxImportFaults
    PROVE  ImportIInv'
<1>1. importer[i].errors + 1 \in 0..MaxItemErrors
  BY TakesFirst
<1>2. /\ Importing(importer', recorded, forms, shared)
      /\ \A s \in Supervisor : Waits(super'[s], importer'[s])
      /\ UNCHANGED <<windows, malformed, super, racing>>
  BY <1>1, ImportGoesOn
<1>3. RecordedIsWhole'
  BY Tables DEF RecordedIsWhole
<1> QED
  BY <1>2, <1>3, Tables, Preserves

LEMMA MalformedStep ==
    ASSUME ImportIInv, NEW i \in Importer, SkipMalformed(i) PROVE ImportIInv'
BY Tables, Fails DEF SkipMalformed, ImportPc

LEMMA FailedStep ==
    ASSUME ImportIInv, NEW i \in Importer, SkipFailed(i) PROVE ImportIInv'
<1>1. importer[i].pc \in ImportPc /\ importFaults' \in 0..MaxImportFaults
      /\ recorded' = recorded /\ forms' = forms /\ shared' = shared
  BY Counts DEF SkipFailed, ImportPc
<1>2. CASE NextItem(i, importer[i].errors + 1)
  BY <1>1, <1>2, Fails
<1>3. CASE ImporterBecomes(i, "exit 75", {}, importer[i].errors + 1)
  <2>1. importer[i].errors + 1 \in 0..MaxItemErrors /\ importer[i].pc # "off"
        /\ \A j \in Importer \ {i} : Holds(importer[j], recorded, forms, shared)
    BY <1>1, TakesFirst
  <2>2. "exit 75" \in Pc /\ "exit 75" \notin ImportPc /\ {} \in SUBSET Item
    BY DEF Pc, ImportPc
  <2>3. /\ Importing(importer', recorded, forms, shared)
        /\ \A s \in Supervisor : Waits(super'[s], importer'[s])
    BY <1>3, <2>1, <2>2, Becomes
  <2>4. windows' = windows /\ malformed' = malformed /\ super' = super /\ racing' = racing
    BY <1>3 DEF ImporterBecomes
  <2>5. RecordedIsWhole'
    BY <1>1, Tables DEF RecordedIsWhole
  <2> QED
    BY <1>1, <2>3, <2>4, <2>5, Tables, Preserves
<1> QED
  BY <1>2, <1>3 DEF SkipFailed

-----------------------------------------------------------------------------
LEMMA Continues == ImportIInv /\ [ImportNext]_profileVars => ImportIInv'
<1> SUFFICES ASSUME ImportIInv, [ImportNext]_profileVars PROVE ImportIInv'
  OBVIOUS
<1>1. ASSUME NEW s \in Supervisor,
             Polls(s) \/ Starts(s) \/ BatchEnds(s) \/ Unavailable(s) \/ BatchTimesOut(s)
      PROVE  ImportIInv'
  BY <1>1, PollStep, ImportStartStep, EndStep, UnavailableStep, TimeoutStep
<1>2. ASSUME NEW i \in Importer,
             \/ BootDays(i) \/ BootProfiles(i) \/ SyncDay(i) \/ Save(i) \/ Clear(i)
             \/ Fill(i) \/ RecordItem(i) \/ SkipMalformed(i) \/ SkipFailed(i)
      PROVE  ImportIInv'
  BY <1>2, ImportBootStep, SyncStep, SaveStep, ClearStep, FillStep, ImportRecordStep,
     MalformedStep, FailedStep DEF BootDays, BootProfiles
<1>3. CASE RaceImports
  BY <1>3, RaceStep
<1>4. CASE UNCHANGED profileVars
  BY <1>4 DEF profileVars, ImportIInv, ImportTypeOK, RecordedIsWhole
<1> QED
  BY <1>1, <1>2, <1>3, <1>4 DEF ImportNext

(* Supervisors, importers, the progress files and the form rows keep their *)
(* types: an importer ends before it counts past its errors.               *)
THEOREM ImportTypeCorrect == ImportSpec => []ImportTypeOK
<1>1. ImportIInv => ImportTypeOK
  BY DEF ImportIInv
<1> QED
  BY <1>1, Begins, Continues, PTL DEF ImportSpec

(* A profile that is recorded has its form rows, wherever an import was    *)
(* killed or failed and however often it was made again, unless the        *)
(* supervisors let two importers take it up at once.                       *)
THEOREM RecordedStaysWhole == ImportSpec => []RecordedIsWhole
<1>1. ImportIInv => RecordedIsWhole
  BY DEF ImportIInv
<1> QED
  BY <1>1, Begins, Continues, PTL DEF ImportSpec

-----------------------------------------------------------------------------
(* The sharded harvest of results.                                         *)

At == {"turn", "launch", "stop", "end"}
Live(row) == row.pc \in {"boot", "fetch", "record"}
ShardRow == [pid : Worker \cup {Nothing}, state : ShardState]
QueueRow == [pc : {"none", "boot", "turn", "launch", "stop", "end", "over"},
             copy : Manifest \cup {Nothing},
             active : SUBSET ShardId, changed : BOOLEAN]
WorkRow == [pc : {"none", "boot", "fetch", "record"} \cup Over,
            days : SUBSET Day, todo : SUBSET Day, errors : 0..MaxErrors]

(* A manifest, in the file or in memory, splits its range into shards.     *)
Splits(m) == m \in Manifest /\ m.to = Days /\ DOMAIN m.shards = 1..Count(m.from, m.to)
Sure(m, done) ==
    \A k \in DOMAIN m.shards :
        m.shards[k].state = "completed" => RangeOf(m, k) \subseteq done
Alike(m, p) == m.from = p.from /\ m.to = p.to /\ DOMAIN m.shards = DOMAIN p.shards
Untouched(m) == ~m.own /\ \A k \in DOMAIN m.shards : m.shards[k].state = "queued"

(* A worker without an error has recorded what it has been through.        *)
Honest(row, done, kept) ==
    /\ row.pc \in {"fetch", "record"} =>
        /\ row.todo # {} /\ row.errors < MaxErrors
        /\ row.errors = 0 => row.days \ row.todo \subseteq done
    /\ row.pc = "record" => FirstOf(row.todo) \in kept
    /\ row.pc = "exit 0" => row.days \subseteq done

(* A coordinator's copy has its workers, and it has its copy to itself.    *)
Keeps(q, row, rows, done) ==
    /\ row.pc \in {"none", "boot"} => row.active = {}
    /\ row.pc \in At =>
        /\ Splits(row.copy) /\ Sure(row.copy, done)
        /\ row.copy.queue = q /\ row.copy.status = "running"
        /\ \A k \in row.active :
            /\ k \in DOMAIN row.copy.shards
            /\ rows[<<q, k>>].days = RangeOf(row.copy, k)
            /\ row.copy.shards[k].pid = <<q, k>>
    /\ row.pc = "end" => row.active = {} /\ Queued(row.copy) = {}
    /\ row.pc \notin {"none", "over"} =>
        \A k \in ShardId : Live(rows[<<q, k>>]) => k \in row.active

Unstarted(n, queues, rows) ==
    \A q \in Queue : q > n =>
        queues[q] = NoQueue /\ \A k \in ShardId : rows[<<q, k>>] = NoWork

Commands(c, n, queues) == c # Nothing =>
    /\ Splits(c.copy) /\ Untouched(c.copy)
    /\ c.start <= n /\ queues[c.start].pc # "none"

Written(m, done, n) ==
    IF m = Nothing THEN n = 0 ELSE Splits(m) /\ Sure(m, done)

(* What holds whatever died and was forced.                                *)
Base ==
    /\ ShardsTypeOK
    /\ Written(manifest, recordedDays, starts)
    /\ recordedDays \subseteq storedDays
    /\ \A w \in Worker : Honest(work[w], recordedDays, storedDays)
    /\ \A q \in Queue : Keeps(q, queue[q], work, recordedDays)
    /\ Unstarted(starts, queue, work)
    /\ Commands(command, starts, queue)

(* The coordinator of the last start is the only one that runs.  It has    *)
(* the manifest's range, and each of its shards is queued, over, or a      *)
(* worker's of its own.                                                    *)
Told(row) == \A k \in DOMAIN row.copy.shards :
    \/ row.copy.shards[k].state \in {"queued", "completed", "failed"}
    \/ k \in row.active

OnlyQueue(q, row, c, m, n) == row.pc \notin {"none", "over"} =>
    /\ q = n
    /\ c = Nothing => m.queue = q
    /\ row.pc = "boot" => Untouched(m)
    /\ row.pc \in At => Alike(row.copy, m) /\ Told(row)

(* The workers that run are of the last start.  While no start is under    *)
(* way, stop and start find them in the manifest, or their coordinator.    *)
OnlyWorker(w, row, c, m, n, queues) == Live(row) =>
    /\ w[1] = n /\ w[2] \in DOMAIN m.shards /\ row.days = RangeOf(m, w[2])
    /\ c = Nothing =>
        queues[w[1]].pc \notin {"none", "over"} \/ m.shards[w[2]].pid = w

OnlyCommand(c, m, n) == c # Nothing => c.start = n /\ Alike(c.copy, m)

AllDone(m, done) ==
    m # Nothing /\ m.status = "completed" => m.from..m.to \subseteq done

Sound == ~lost /\ ~forced

Single ==
    /\ \A q \in Queue : OnlyQueue(q, queue[q], command, manifest, starts)
    /\ \A w \in Worker : OnlyWorker(w, work[w], command, manifest, starts, queue)
    /\ OnlyCommand(command, manifest, starts)
    /\ AllDone(manifest, recordedDays)

ShardsIInv == Base /\ (Sound => Single)

-----------------------------------------------------------------------------
(* The shards of a range are its parts.                                    *)
Edge(from, total, n, i) == from + (i - 1) * (total \div n) + Least(i - 1, total % n)

LEMMA Division ==
    ASSUME NEW x \in Nat, NEW n \in Nat \ {0}
    PROVE  /\ x \div n \in Nat /\ x % n \in 0..(n - 1)
           /\ x = (x \div n) * n + (x % n)
BY SMT

LEMMA ProductOrder ==
    ASSUME NEW a \in Nat, NEW b \in Nat, NEW q \in Nat, a <= b
    PROVE  a * q \in Nat /\ a * q <= b * q
BY SMT

LEMMA Edges ==
    ASSUME NEW from \in Int, NEW total \in Nat \ {0}, NEW n \in 1..total
    PROVE  /\ Edge(from, total, n, 1) = from
           /\ Edge(from, total, n, n + 1) = from + total
           /\ \A i \in 1..(n + 1) : Edge(from, total, n, i) \in Int
           /\ \A i, j \in 1..(n + 1) :
                i <= j => Edge(from, total, n, i) <= Edge(from, total, n, j)
<1> DEFINE q == total \div n
           r == total % n
<1>1. q \in Nat /\ r \in 0..(n - 1) /\ total = q * n + r /\ n \in Nat
  BY Division
<1>2. \A i : Edge(from, total, n, i) = from + (i - 1) * q + Least(i - 1, r)
  BY DEF Edge
<1> HIDE DEF q, r
<1>3. Edge(from, total, n, 1) = from
  BY <1>1, <1>2 DEF Least
<1>4. Edge(from, total, n, n + 1) = from + total
  <2>1. (n + 1) - 1 = n /\ Least(n, r) = r /\ n * q = q * n
    BY <1>1 DEF Least
  <2> QED
    BY <1>1, <1>2, <2>1
<1>5. ASSUME NEW i \in 1..(n + 1)
      PROVE  (i - 1) * q \in Nat /\ Least(i - 1, r) \in Nat
  BY <1>1, ProductOrder DEF Least
<1>6. \A i \in 1..(n + 1) : Edge(from, total, n, i) \in Int
  BY <1>2, <1>5
<1>7. ASSUME NEW i \in 1..(n + 1), NEW j \in 1..(n + 1), i <= j
      PROVE  Edge(from, total, n, i) <= Edge(from, total, n, j)
  <2>1. (i - 1) * q <= (j - 1) * q
    BY <1>1, <1>7, ProductOrder
  <2>2. Least(i - 1, r) <= Least(j - 1, r)
    BY <1>1, <1>7 DEF Least
  <2> QED
    BY <1>2, <1>5, <2>1, <2>2
<1> QED
  BY <1>3, <1>4, <1>6, <1>7

LEMMA LeastOne ==
    ASSUME NEW T, T \subseteq Nat, T # {}
    PROVE  \E t \in T : \A u \in T : t <= u
<1>1. PICK t \in T : \A u \in T : ~(<<u, t>> \in OpToRel(<, Nat))
  BY NatLessThanWellFounded, WFMin
<1>2. \A u \in T : ~(u < t)
  BY <1>1 DEF OpToRel
<1> QED
  BY <1>2

LEMMA FirstIsOne ==
    ASSUME NEW T, T \subseteq Nat, T # {}
    PROVE  FirstOf(T) \in T
BY LeastOne DEF FirstOf

LEMMA PartsCover ==
    ASSUME NEW from \in Int, NEW total \in Nat \ {0}, NEW n \in 1..total,
           NEW d \in from..(from + total - 1)
    PROVE  \E k \in 1..n :
            d \in Edge(from, total, n, k)..(Edge(from, total, n, k + 1) - 1)
<1> DEFINE E(i) == Edge(from, total, n, i)
           T == {t \in 1..n : d < E(t + 1)}
<1>1. E(1) = from /\ E(n + 1) = from + total /\ \A i \in 1..(n + 1) : E(i) \in Int
  BY Edges
<1> HIDE DEF E
<1>2. n \in T /\ T \subseteq Nat
  BY <1>1
<1>3. PICK t \in T : \A u \in T : t <= u
  <2> HIDE DEF T
  <2> QED
    BY <1>2, LeastOne
<1>4. t \in 1..n /\ d < E(t + 1) /\ E(t) \in Int /\ E(t + 1) \in Int
  BY <1>1
<1>5. E(t) <= d
  <2>1. CASE t = 1
    BY <1>1, <2>1
  <2>2. CASE t # 1
    <3>1. t - 1 \in 1..n /\ t - 1 \notin T /\ (t - 1) + 1 = t
      BY <1>3, <1>4, <2>2
    <3> QED
      BY <1>4, <3>1
  <2> QED
    BY <2>1, <2>2
<1> QED
  BY <1>4, <1>5 DEF E

-----------------------------------------------------------------------------
LEMMA Constants ==
    /\ Days \in Nat /\ MaxStarts \in Nat /\ MaxFaults \in Nat
    /\ Workers \in Nat \ {0} /\ Shards \in Nat \ {0} /\ MaxErrors \in Nat \ {0}
    /\ Nothing \notin Queue /\ Nothing \notin Worker /\ Nothing \notin Manifest
    /\ Nothing \notin [start : Queue, copy : Manifest]
<1>1. Nothing \notin Queue /\ Nothing \notin Worker /\ Nothing \notin Manifest
      /\ Nothing \notin [start : Queue, copy : Manifest]
  BY ShardsAssumption
<1>2. {Days, MaxStarts, MaxFaults} \subseteq Nat
      /\ {Workers, Shards, MaxErrors} \subseteq Nat \ {0}
  BY ShardsAssumption
<1>3. Days \in Nat /\ MaxStarts \in Nat /\ MaxFaults \in Nat
  BY <1>2
<1>4. Workers \in Nat \ {0} /\ Shards \in Nat \ {0} /\ MaxErrors \in Nat \ {0}
  BY <1>2
<1> QED
  BY <1>1, <1>2, <1>3, <1>4

LEMMA SplitsFields ==
    ASSUME NEW m, Splits(m)
    PROVE  /\ m.from \in Day /\ m.to = Days /\ Days \in Nat \ {0}
           /\ Count(m.from, m.to) \in ShardId
           /\ Count(m.from, m.to) \in 1..(m.to - m.from + 1)
           /\ DOMAIN m.shards = 1..Count(m.from, m.to)
           /\ DOMAIN m.shards \subseteq ShardId
           /\ Cardinality(DOMAIN m.shards) = Count(m.from, m.to)
           /\ m.shards \in [DOMAIN m.shards -> ShardRow]
           /\ m.queue \in Queue \cup {Nothing} /\ m.own \in BOOLEAN
           /\ m.status \in {"none", "running", "completed", "failed", "stopped"}
           /\ m = [from |-> m.from, to |-> m.to, shards |-> m.shards,
                   queue |-> m.queue, own |-> m.own, status |-> m.status]
<1>1. /\ m.from \in Day /\ m.to = Days
      /\ m.shards \in UNION {[1..n -> ShardRow] : n \in ShardId}
      /\ m.queue \in Queue \cup {Nothing} /\ m.own \in BOOLEAN
      /\ m.status \in {"none", "running", "completed", "failed", "stopped"}
      /\ m = [from |-> m.from, to |-> m.to, shards |-> m.shards,
              queue |-> m.queue, own |-> m.own, status |-> m.status]
  BY DEF Splits, Manifest, ShardRow
<1>2. m.shards \in [DOMAIN m.shards -> ShardRow]
  BY <1>1
<1>3. Days \in Nat \ {0} /\ m.from \in 1..Days
  BY <1>1, Constants DEF Day
<1>4. Count(m.from, m.to) \in ShardId /\ Count(m.from, m.to) \in 1..(m.to - m.from + 1)
  BY <1>1, <1>3, Constants DEF Count, Least, ShardId
<1>5. DOMAIN m.shards = 1..Count(m.from, m.to)
  BY DEF Splits
<1>6. Cardinality(DOMAIN m.shards) = Count(m.from, m.to) /\ DOMAIN m.shards \subseteq ShardId
  <2>1. Count(m.from, m.to) \in Nat /\ Count(m.from, m.to) - 1 + 1 = Count(m.from, m.to)
        /\ 1 <= Count(m.from, m.to) /\ Count(m.from, m.to) <= Shards /\ Shards \in Nat
    BY <1>4, Constants DEF ShardId
  <2> HIDE DEF Count
  <2>2. Cardinality(1..Count(m.from, m.to)) = Count(m.from, m.to)
    BY <2>1, FS_Interval
  <2> QED
    BY <1>5, <2>1, <2>2 DEF ShardId
<1> QED
  BY <1>1, <1>2, <1>3, <1>4, <1>5, <1>6

LEMMA RangeIsEdges ==
    ASSUME NEW m, Splits(m), NEW k
    PROVE  RangeOf(m, k) =
            Edge(m.from, m.to - m.from + 1, Count(m.from, m.to), k)..
                (Edge(m.from, m.to - m.from + 1, Count(m.from, m.to), k + 1) - 1)
BY SplitsFields DEF RangeOf, Edge

LEMMA AlikeRanges ==
    ASSUME NEW m, NEW p, Alike(m, p), NEW k
    PROVE  RangeOf(m, k) = RangeOf(p, k)
BY DEF Alike, RangeOf

(* The shards of a manifest are parts of its range, disjoint, and all.     *)
LEMMA RangesPart ==
    ASSUME NEW m, Splits(m)
    PROVE  /\ \A k \in DOMAIN m.shards : RangeOf(m, k) \subseteq Day
           /\ \A k, l \in DOMAIN m.shards :
                k # l => RangeOf(m, k) \cap RangeOf(m, l) = {}
           /\ \A d \in m.from..m.to : \E k \in DOMAIN m.shards : d \in RangeOf(m, k)
<1> DEFINE total == m.to - m.from + 1
           n == Count(m.from, m.to)
           E(i) == Edge(m.from, total, n, i)
<1>1. /\ m.from \in Day /\ m.to = Days /\ Days \in Nat \ {0} /\ n \in 1..total
      /\ DOMAIN m.shards = 1..n
  BY SplitsFields
<1>2. total \in Nat \ {0} /\ m.from \in Nat \ {0} /\ n \in Nat \ {0}
      /\ m.from + total = Days + 1 /\ m.from + total - 1 = m.to
  BY <1>1 DEF Day
<1>3. \A k : RangeOf(m, k) = E(k)..(E(k + 1) - 1)
  BY RangeIsEdges
<1> HIDE DEF n, total
<1>4. /\ E(1) = m.from /\ E(n + 1) = Days + 1
      /\ \A i \in 1..(n + 1) : E(i) \in Int
      /\ \A i, j \in 1..(n + 1) : i <= j => E(i) <= E(j)
  <2>1. m.from \in Int /\ total \in Nat \ {0} /\ n \in 1..total
    BY <1>1, <1>2
  <2>2. /\ Edge(m.from, total, n, 1) = m.from
        /\ Edge(m.from, total, n, n + 1) = m.from + total
        /\ \A i \in 1..(n + 1) : Edge(m.from, total, n, i) \in Int
        /\ \A i, j \in 1..(n + 1) :
                i <= j => Edge(m.from, total, n, i) <= Edge(m.from, total, n, j)
    BY ONLY <2>1, Edges
  <2> QED
    BY <1>2, <2>2
<1>5. ASSUME NEW d \in m.from..m.to PROVE \E k \in 1..n : d \in E(k)..(E(k + 1) - 1)
  <2>1. /\ m.from \in Int /\ total \in Nat \ {0} /\ n \in 1..total
        /\ d \in m.from..(m.from + total - 1)
    BY <1>1, <1>2
  <2>2. \E k \in 1..n :
            d \in Edge(m.from, total, n, k)..(Edge(m.from, total, n, k + 1) - 1)
    BY ONLY <2>1, PartsCover
  <2> QED
    BY <2>2
<1> HIDE DEF E
<1>6. ASSUME NEW k \in 1..n PROVE RangeOf(m, k) \subseteq Day
  <2>1. k \in 1..(n + 1) /\ k + 1 \in 1..(n + 1) /\ 1 \in 1..(n + 1) /\ n + 1 \in 1..(n + 1)
        /\ 1 <= k /\ k + 1 <= n + 1
    BY <1>2
  <2>2. m.from <= E(k) /\ E(k + 1) <= Days + 1 /\ E(k) \in Int /\ E(k + 1) \in Int
    BY <1>4, <2>1
  <2>3. RangeOf(m, k) = E(k)..(E(k + 1) - 1)
    BY <1>3
  <2>4. ASSUME NEW d \in E(k)..(E(k + 1) - 1) PROVE d \in 1..Days
    <3>1. d \in Int /\ E(k) <= d /\ d <= E(k + 1) - 1
      BY <2>2
    <3>2. m.from \in Int /\ 1 <= m.from /\ Days \in Int
      BY <1>1, <1>2
    <3> QED
      BY <2>2, <3>1, <3>2
  <2> QED
    BY <2>3, <2>4 DEF Day
<1>7. ASSUME NEW k \in 1..n, NEW l \in 1..n, k < l
      PROVE  RangeOf(m, k) \cap RangeOf(m, l) = {}
  <2>1. k + 1 \in 1..(n + 1) /\ l \in 1..(n + 1) /\ k + 1 <= l
    BY <1>2, <1>7
  <2>2. E(k + 1) <= E(l) /\ E(k + 1) \in Int /\ E(l) \in Int
    BY <1>4, <2>1
  <2>3. RangeOf(m, k) = E(k)..(E(k + 1) - 1) /\ RangeOf(m, l) = E(l)..(E(l + 1) - 1)
    BY <1>3
  <2> QED
    BY <2>2, <2>3
<1>8. \A k, l \in 1..n : k # l => k < l \/ l < k
  BY <1>2
<1> QED
  BY <1>1, <1>3, <1>5, <1>6, <1>7, <1>8

-----------------------------------------------------------------------------
LEMMA Pairs ==
    /\ \A q \in Queue, k \in ShardId :
        <<q, k>> \in Worker /\ <<q, k>>[1] = q /\ <<q, k>>[2] = k
    /\ \A w \in Worker : w[1] \in Queue /\ w[2] \in ShardId /\ w = <<w[1], w[2]>>
BY DEF Worker

LEMMA Typed ==
    ASSUME Base
    PROVE  /\ queue \in [Queue -> QueueRow] /\ work \in [Worker -> WorkRow]
           /\ manifest \in Manifest \cup {Nothing}
           /\ command \in [start : Queue, copy : Manifest] \cup {Nothing}
           /\ starts \in 0..MaxStarts /\ starts \in Nat
           /\ recordedDays \subseteq Day /\ storedDays \subseteq Day
           /\ lost \in BOOLEAN /\ forced \in BOOLEAN /\ deaths \in 0..MaxFaults
<1>1. starts \in Nat
  BY Constants DEF Base, ShardsTypeOK
<1> QED
  BY <1>1 DEF Base, ShardsTypeOK, QueueRow, WorkRow

LEMMA Retyped ==
    ASSUME queue' \in [Queue -> QueueRow], work' \in [Worker -> WorkRow],
           manifest' \in Manifest \cup {Nothing},
           command' \in [start : Queue, copy : Manifest] \cup {Nothing},
           starts' \in 0..MaxStarts,
           recordedDays' \subseteq Day, storedDays' \subseteq Day,
           lost' \in BOOLEAN, forced' \in BOOLEAN, deaths' \in 0..MaxFaults
    PROVE  ShardsTypeOK'
BY DEF ShardsTypeOK, QueueRow, WorkRow

Made(m, s, x, o, t) == [from |-> m.from, to |-> m.to, shards |-> s,
                        queue |-> x, own |-> o, status |-> t]

\* The ways in which a manifest is changed.
Field == {"from", "to", "shards", "queue", "own", "status"}
WithShards(m, s) == [m EXCEPT !.shards = s]
WithStatus(m, t) == [m EXCEPT !.status = t]
WithOwner(m, x, t) == [m EXCEPT !.queue = x, !.status = t]
WithProcess(m, x, o, t) == [m EXCEPT !.queue = x, !.own = o, !.status = t]
WithStates(m, t, s) == [m EXCEPT !.status = t, !.shards = s]

LEMMA NewShards ==
    ASSUME NEW m, Splits(m), NEW s
    PROVE  WithShards(m, s) = Made(m, s, m.queue, m.own, m.status)
<1> DEFINE p == WithShards(m, s)
<1>1. /\ p = [z \in Field |-> p[z]]
      /\ p.from = m.from /\ p.to = m.to /\ p.shards = s
      /\ p.queue = m.queue /\ p.own = m.own /\ p.status = m.status
  <2>1. m = [z \in Field |-> m[z]]
    BY DEF Splits, Manifest, Field
  <2> QED
    BY <2>1 DEF Field, WithShards
<1> HIDE DEF p
<1>2. p = Made(m, s, m.queue, m.own, m.status)
  BY <1>1 DEF Made, Field
<1> QED
  BY <1>2 DEF p

LEMMA NewStatus ==
    ASSUME NEW m, Splits(m), NEW t
    PROVE  WithStatus(m, t) = Made(m, m.shards, m.queue, m.own, t)
<1> DEFINE p == WithStatus(m, t)
<1>1. /\ p = [z \in Field |-> p[z]]
      /\ p.from = m.from /\ p.to = m.to /\ p.shards = m.shards
      /\ p.queue = m.queue /\ p.own = m.own /\ p.status = t
  <2>1. m = [z \in Field |-> m[z]]
    BY DEF Splits, Manifest, Field
  <2> QED
    BY <2>1 DEF Field, WithStatus
<1> HIDE DEF p
<1>2. p = Made(m, m.shards, m.queue, m.own, t)
  BY <1>1 DEF Made, Field
<1> QED
  BY <1>2 DEF p

LEMMA NewOwner ==
    ASSUME NEW m, Splits(m), NEW x, NEW t
    PROVE  WithOwner(m, x, t) = Made(m, m.shards, x, m.own, t)
<1> DEFINE p == WithOwner(m, x, t)
<1>1. /\ p = [z \in Field |-> p[z]]
      /\ p.from = m.from /\ p.to = m.to /\ p.shards = m.shards
      /\ p.queue = x /\ p.own = m.own /\ p.status = t
  <2>1. m = [z \in Field |-> m[z]]
    BY DEF Splits, Manifest, Field
  <2> QED
    BY <2>1 DEF Field, WithOwner
<1> HIDE DEF p
<1>2. p = Made(m, m.shards, x, m.own, t)
  BY <1>1 DEF Made, Field
<1> QED
  BY <1>2 DEF p

LEMMA NewProcess ==
    ASSUME NEW m, Splits(m), NEW x, NEW o, NEW t
    PROVE  WithProcess(m, x, o, t) = Made(m, m.shards, x, o, t)
<1> DEFINE p == WithProcess(m, x, o, t)
<1>1. /\ p = [z \in Field |-> p[z]]
      /\ p.from = m.from /\ p.to = m.to /\ p.shards = m.shards
      /\ p.queue = x /\ p.own = o /\ p.status = t
  <2>1. m = [z \in Field |-> m[z]]
    BY DEF Splits, Manifest, Field
  <2> QED
    BY <2>1 DEF Field, WithProcess
<1> HIDE DEF p
<1>2. p = Made(m, m.shards, x, o, t)
  BY <1>1 DEF Made, Field
<1> QED
  BY <1>2 DEF p

LEMMA NewStates ==
    ASSUME NEW m, Splits(m), NEW s, NEW t
    PROVE  WithStates(m, t, s) = Made(m, s, m.queue, m.own, t)
<1> DEFINE p == WithStates(m, t, s)
<1>1. /\ p = [z \in Field |-> p[z]]
      /\ p.from = m.from /\ p.to = m.to /\ p.shards = s
      /\ p.queue = m.queue /\ p.own = m.own /\ p.status = t
  <2>1. m = [z \in Field |-> m[z]]
    BY DEF Splits, Manifest, Field
  <2> QED
    BY <2>1 DEF Field, WithStates
<1> HIDE DEF p
<1>2. p = Made(m, s, m.queue, m.own, t)
  BY <1>1 DEF Made, Field
<1> QED
  BY <1>2 DEF p

\* A manifest written anew with the same range has the same shards.
LEMMA Rewritten ==
    ASSUME NEW m, Splits(m), NEW s \in [DOMAIN m.shards -> ShardRow],
           NEW x \in Queue \cup {Nothing}, NEW o \in BOOLEAN,
           NEW t \in {"none", "running", "completed", "failed", "stopped"}
    PROVE  /\ Splits(Made(m, s, x, o, t)) /\ Alike(Made(m, s, x, o, t), m)
           /\ Made(m, s, x, o, t).shards = s /\ Made(m, s, x, o, t).queue = x
           /\ Made(m, s, x, o, t).own = o /\ Made(m, s, x, o, t).status = t
           /\ Made(m, s, x, o, t) \in Manifest /\ Made(m, s, x, o, t) # Nothing
           /\ \A k : RangeOf(Made(m, s, x, o, t), k) = RangeOf(m, k)
<1> DEFINE p == Made(m, s, x, o, t)
<1>1. /\ p.from = m.from /\ p.to = m.to /\ p.shards = s /\ p.queue = x
      /\ p.own = o /\ p.status = t
  BY DEF Made
<1>2. DOMAIN s = DOMAIN m.shards
  OBVIOUS
<1>3. Alike(p, m)
  BY <1>1, <1>2 DEF Alike
<1>4. s \in UNION {[1..n -> ShardRow] : n \in ShardId}
  BY SplitsFields
<1>5. m.from \in Day /\ m.to = Days /\ Days \in Day
  BY SplitsFields DEF Day
<1>6. p \in Manifest
  BY <1>4, <1>5 DEF Made, Manifest, ShardRow
<1>7. Splits(p)
  BY <1>1, <1>2, <1>6 DEF Splits
<1>8. p # Nothing
  BY <1>6, Constants
<1>9. \A k : RangeOf(p, k) = RangeOf(m, k)
  BY <1>3, AlikeRanges
<1> QED
  BY <1>1, <1>3, <1>6, <1>7, <1>8, <1>9

LEMMA Alikes ==
    ASSUME NEW m, NEW p, Alike(m, p)
    PROVE  Alike(p, m) /\ \A r : Alike(r, m) <=> Alike(r, p)
BY DEF Alike

-----------------------------------------------------------------------------
(* Workers.                                                                *)
LEMMA WorkerMoves ==
    ASSUME ShardsIInv, NEW w \in Worker, Live(work[w]),
           NEW row \in WorkRow, row.days = work[w].days,
           work' = [work EXCEPT ![w] = row],
           UNCHANGED <<manifest, command, starts, queue, lost, forced>>,
           recordedDays \subseteq recordedDays', recordedDays' \subseteq storedDays',
           storedDays \subseteq storedDays', storedDays' \subseteq Day,
           deaths' \in 0..MaxFaults,
           Honest(row, recordedDays', storedDays')
    PROVE  ShardsIInv'
<1>1. work \in [Worker -> WorkRow] /\ work' \in [Worker -> WorkRow]
      /\ work'[w] = row /\ \A v \in Worker : v # w => work'[v] = work[v]
  BY Typed DEF ShardsIInv
<1>2. \A v \in Worker : work'[v].days = work[v].days /\ (Live(work'[v]) => Live(work[v]))
  BY <1>1
<1>3. ShardsTypeOK'
  BY <1>1, Typed, Retyped DEF ShardsIInv
<1>4. ASSUME NEW m, Sure(m, recordedDays) PROVE Sure(m, recordedDays')
  BY <1>4 DEF Sure
<1>5. Written(manifest, recordedDays, starts)'
  BY <1>4 DEF ShardsIInv, Base, Written
<1>6. \A v \in Worker : Honest(work[v], recordedDays, storedDays)'
  <2>1. \A v \in Worker : Honest(work[v], recordedDays', storedDays')
    BY DEF ShardsIInv, Base, Honest
  <2> QED
    BY <1>1, <2>1
<1>7. ASSUME NEW q \in Queue PROVE Keeps(q, queue[q], work, recordedDays)'
  <2>1. Keeps(q, queue[q], work, recordedDays) /\ queue[q] \in QueueRow
    BY Typed DEF ShardsIInv, Base
  <2>2. \A k \in ShardId : <<q, k>> \in Worker
    BY Pairs
  <2>3. queue[q].active \subseteq ShardId
    BY <2>1 DEF QueueRow
  <2>4. Keeps(q, queue[q], work', recordedDays')
    BY <1>2, <1>4, <2>1, <2>2, <2>3 DEF Keeps
  <2> QED
    BY <2>4
<1>8. Unstarted(starts, queue, work)'
  <2>1. \A q \in Queue : q > starts => \A k \in ShardId : <<q, k>> # w
    BY DEF ShardsIInv, Base, Unstarted, NoWork, Live
  <2> QED
    BY <1>1, <2>1, Pairs DEF ShardsIInv, Base, Unstarted
<1>9. Base'
  BY <1>3, <1>5, <1>6, <1>7, <1>8 DEF ShardsIInv, Base
<1>10. ASSUME Sound' PROVE Single'
  <2>1. Single
    BY <1>10 DEF ShardsIInv, Sound
  <2>2. AllDone(manifest, recordedDays)'
    BY <2>1 DEF Single, AllDone
  <2>3. \A v \in Worker : OnlyWorker(v, work[v], command, manifest, starts, queue)'
    BY <1>2, <2>1 DEF Single, OnlyWorker
  <2> QED
    BY <2>1, <2>2, <2>3 DEF Single
<1> QED
  BY <1>9, <1>10 DEF ShardsIInv

LEMMA WorkerFacts ==
    ASSUME ShardsIInv, NEW w \in Worker
    PROVE  /\ work[w] \in WorkRow /\ work[w].days \in SUBSET Day
           /\ work[w].pc \in {"fetch", "record"} =>
                /\ work[w].todo \in SUBSET Day /\ FirstOf(work[w].todo) \in work[w].todo
                /\ FirstOf(work[w].todo) \in Day
                /\ work[w].errors \in 0..MaxErrors /\ work[w].errors + 1 \in 0..MaxErrors
                /\ work[w].errors \in Nat /\ work[w].errors < MaxErrors
                /\ work[w].errors = 0 => work[w].days \ work[w].todo \subseteq recordedDays
           /\ work[w].pc = "record" => FirstOf(work[w].todo) \in storedDays
           /\ recordedDays \subseteq storedDays /\ storedDays \subseteq Day
           /\ deaths \in 0..MaxFaults
<1>1. work[w] \in WorkRow /\ Honest(work[w], recordedDays, storedDays)
  BY Typed DEF ShardsIInv, Base
<1>2. work[w].days \in SUBSET Day /\ work[w].todo \in SUBSET Day
      /\ work[w].errors \in 0..MaxErrors
  BY <1>1 DEF WorkRow
<1>3. work[w].todo \subseteq Nat
  BY <1>2 DEF Day
<1>4. ASSUME work[w].pc \in {"fetch", "record"}
      PROVE  /\ FirstOf(work[w].todo) \in work[w].todo
             /\ work[w].errors < MaxErrors
             /\ work[w].errors = 0 => work[w].days \ work[w].todo \subseteq recordedDays
  BY <1>1, <1>3, <1>4, FirstIsOne DEF Honest
<1>5. work[w].errors \in Nat /\ (work[w].errors < MaxErrors => work[w].errors + 1 \in 0..MaxErrors)
  BY <1>2, Constants
<1>6. work[w].pc = "record" => FirstOf(work[w].todo) \in storedDays
  BY <1>1 DEF Honest
<1>7. recordedDays \subseteq storedDays /\ storedDays \subseteq Day /\ deaths \in 0..MaxFaults
  BY Typed DEF ShardsIInv, Base
<1> QED
  BY <1>1, <1>2, <1>4, <1>5, <1>6, <1>7

LEMMA FaultCounts ==
    ASSUME ShardsIInv, Fault PROVE deaths' \in 0..MaxFaults
<1>1. deaths \in 0..MaxFaults
  BY Typed DEF ShardsIInv
<1> QED
  BY <1>1, Constants DEF Fault

LEMMA BootStep == ASSUME ShardsIInv, NEW w \in Worker, Boot(w) PROVE ShardsIInv'
<1> DEFINE todo == work[w].days \ recordedDays
           pc == IF todo = {} THEN "exit 0" ELSE "fetch"
           row == [pc |-> pc, days |-> work[w].days, todo |-> todo, errors |-> 0]
           gone == [pc |-> "exit 75", days |-> work[w].days, todo |-> {}, errors |-> 0]
<1>1. /\ Live(work[w]) /\ recordedDays' = recordedDays /\ storedDays' = storedDays
      /\ work[w].days \in SUBSET Day /\ todo \in SUBSET Day
      /\ 0 \in 0..MaxErrors /\ 0 < MaxErrors
      /\ recordedDays \subseteq storedDays /\ storedDays \subseteq Day
  <2>1. 0 \in 0..MaxErrors /\ 0 < MaxErrors
    BY Constants
  <2>2. Live(work[w]) /\ recordedDays' = recordedDays /\ storedDays' = storedDays
    BY DEF Boot, Live
  <2> QED
    BY <2>1, <2>2, WorkerFacts
<1>2. CASE WorkerBecomes(w, pc, todo, 0) /\ deaths' = deaths
  <2>1. work' = [work EXCEPT ![w] = row]
        /\ UNCHANGED <<manifest, command, starts, queue, lost, forced>>
    BY <1>2 DEF WorkerBecomes
  <2>2. row.pc = pc /\ row.days = work[w].days /\ row.todo = todo /\ row.errors = 0
        /\ row \in WorkRow
    BY <1>1 DEF WorkRow, Over
  <2>3. Honest(row, recordedDays', storedDays')
    BY <1>1, <2>2 DEF Honest
  <2> HIDE DEF row
  <2>4. deaths' \in 0..MaxFaults
    BY <1>2, WorkerFacts
  <2> QED
    BY <1>1, <2>1, <2>2, <2>3, <2>4, WorkerMoves
<1>3. CASE WorkerBecomes(w, "exit 75", {}, 0) /\ Fault
  <2>1. work' = [work EXCEPT ![w] = gone]
        /\ UNCHANGED <<manifest, command, starts, queue, lost, forced>>
    BY <1>3 DEF WorkerBecomes
  <2>2. gone.pc = "exit 75" /\ gone.days = work[w].days /\ gone \in WorkRow
    BY <1>1 DEF WorkRow, Over
  <2>3. Honest(gone, recordedDays', storedDays')
    BY <2>2 DEF Honest
  <2> HIDE DEF gone
  <2>4. deaths' \in 0..MaxFaults
    BY <1>3, FaultCounts
  <2> QED
    BY <1>1, <2>1, <2>2, <2>3, <2>4, WorkerMoves
<1> QED
  BY <1>2, <1>3 DEF Boot

LEMMA StoreStep == ASSUME ShardsIInv, NEW w \in Worker, Store(w) PROVE ShardsIInv'
<1> DEFINE row == [pc |-> "record", days |-> work[w].days, todo |-> work[w].todo,
                   errors |-> work[w].errors]
<1>1. work[w].pc \in {"fetch", "record"} /\ Live(work[w])
  BY DEF Store, Live
<1>2. /\ work' = [work EXCEPT ![w] = row]
      /\ UNCHANGED <<manifest, command, starts, queue, lost, forced>>
      /\ storedDays' = storedDays \cup {FirstOf(work[w].todo)}
      /\ recordedDays' = recordedDays /\ deaths' = deaths
  BY DEF Store, WorkerBecomes
<1>3. /\ row.pc = "record" /\ row.days = work[w].days /\ row.todo = work[w].todo
      /\ row.errors = work[w].errors /\ row \in WorkRow
  BY <1>1, WorkerFacts DEF WorkRow
<1> HIDE DEF row
<1>4. Honest(row, recordedDays', storedDays')
  BY <1>1, <1>2, <1>3, WorkerFacts DEF Honest
<1>5. recordedDays' \subseteq storedDays' /\ storedDays' \subseteq Day /\ deaths' \in 0..MaxFaults
  BY <1>1, <1>2, WorkerFacts
<1> QED
  BY <1>1, <1>2, <1>3, <1>4, <1>5, WorkerMoves

\* A worker that goes on to the next day, or ends.
LEMMA GoesOn ==
    ASSUME ShardsIInv, NEW w \in Worker, work[w].pc \in {"fetch", "record"},
           NEW errors \in 0..MaxErrors, NextDay(w, errors),
           recordedDays \subseteq recordedDays', recordedDays' \subseteq storedDays,
           storedDays' = storedDays, deaths' \in 0..MaxFaults,
           errors = 0 => work[w].errors = 0 /\ FirstOf(work[w].todo) \in recordedDays'
    PROVE  ShardsIInv'
<1> DEFINE todo == work[w].todo \ {FirstOf(work[w].todo)}
           pc == IF todo # {} /\ errors < MaxErrors THEN "fetch"
                   ELSE IF errors = 0 THEN "exit 0" ELSE "exit 1"
           left == IF errors < MaxErrors THEN todo ELSE {}
           row == [pc |-> pc, days |-> work[w].days, todo |-> left, errors |-> errors]
<1>1. /\ work' = [work EXCEPT ![w] = row]
      /\ UNCHANGED <<manifest, command, starts, queue, lost, forced>>
  BY DEF NextDay, WorkerBecomes
<1>2. pc \in {"fetch", "exit 0", "exit 1"} /\ left \in SUBSET Day
  BY WorkerFacts
<1>3. pc = "fetch" => todo # {} /\ errors < MaxErrors /\ left = todo
  OBVIOUS
<1>4. pc = "exit 0" => errors = 0 /\ todo = {}
  BY Constants
<1>5. errors = 0 => work[w].days \ todo \subseteq recordedDays'
  BY WorkerFacts
<1> HIDE DEF pc, left
<1>6. row.pc = pc /\ row.days = work[w].days /\ row.todo = left /\ row.errors = errors
      /\ row \in WorkRow
  BY <1>2, WorkerFacts DEF WorkRow, Over
<1> HIDE DEF row, todo
<1>7. Honest(row, recordedDays', storedDays')
  BY <1>2, <1>3, <1>4, <1>5, <1>6 DEF Honest
<1>8. Live(work[w]) /\ storedDays' \subseteq Day
  BY WorkerFacts DEF Live
<1> QED
  BY <1>1, <1>6, <1>7, <1>8, WorkerMoves

LEMMA RecordStep == ASSUME ShardsIInv, NEW w \in Worker, RecordDay(w) PROVE ShardsIInv'
<1>1. work[w].pc \in {"fetch", "record"} /\ work[w].pc = "record"
  BY DEF RecordDay
<1>2. /\ recordedDays' = recordedDays \cup {FirstOf(work[w].todo)}
      /\ storedDays' = storedDays /\ deaths' = deaths /\ NextDay(w, work[w].errors)
  BY DEF RecordDay
<1> QED
  BY <1>1, <1>2, WorkerFacts, GoesOn

LEMMA FailDayStep == ASSUME ShardsIInv, NEW w \in Worker, FailDay(w) PROVE ShardsIInv'
<1>1. work[w].pc \in {"fetch", "record"}
  BY DEF FailDay
<1>2. /\ recordedDays' = recordedDays /\ storedDays' = storedDays
      /\ NextDay(w, work[w].errors + 1) /\ deaths' \in 0..MaxFaults
  BY FaultCounts DEF FailDay
<1>3. work[w].errors + 1 \in 0..MaxErrors /\ work[w].errors + 1 # 0
  BY <1>1, WorkerFacts
<1> QED
  BY <1>1, <1>2, <1>3, WorkerFacts, GoesOn

LEMMA FailDatabaseStep ==
    ASSUME ShardsIInv, NEW w \in Worker, FailDatabase(w) PROVE ShardsIInv'
<1> DEFINE row == [pc |-> "exit 75", days |-> work[w].days, todo |-> {},
                   errors |-> work[w].errors + 1]
<1>1. work[w].pc \in {"fetch", "record"} /\ Live(work[w])
  BY DEF FailDatabase, Live
<1>2. /\ work' = [work EXCEPT ![w] = row]
      /\ UNCHANGED <<manifest, command, starts, queue, lost, forced>>
      /\ storedDays' = storedDays /\ recordedDays' = recordedDays
      /\ deaths' \in 0..MaxFaults
  BY FaultCounts DEF FailDatabase, WorkerBecomes
<1>3. row.pc = "exit 75" /\ row.days = work[w].days /\ row \in WorkRow
  BY <1>1, WorkerFacts DEF WorkRow, Over
<1> HIDE DEF row
<1>4. Honest(row, recordedDays', storedDays')
  BY <1>3 DEF Honest
<1> QED
  BY <1>1, <1>2, <1>3, <1>4, WorkerFacts, WorkerMoves

LEMMA WorkerDiesStep ==
    ASSUME ShardsIInv, NEW w \in Worker, WorkerDies(w) PROVE ShardsIInv'
<1> DEFINE row == [work[w] EXCEPT !.pc = "killed"]
<1>1. Live(work[w])
  BY DEF WorkerDies, Alive, Live
<1>2. /\ work' = [work EXCEPT ![w] = row]
      /\ UNCHANGED <<manifest, command, starts, queue, lost, forced>>
      /\ storedDays' = storedDays /\ recordedDays' = recordedDays
      /\ deaths' \in 0..MaxFaults
  BY FaultCounts DEF WorkerDies
<1>3. row.pc = "killed" /\ row.days = work[w].days /\ row \in WorkRow
  BY <1>1, WorkerFacts DEF WorkRow, Over
<1> HIDE DEF row
<1>4. Honest(row, recordedDays', storedDays')
  BY <1>3 DEF Honest
<1> QED
  BY <1>1, <1>2, <1>3, <1>4, WorkerFacts, WorkerMoves

-----------------------------------------------------------------------------
(* The coordinator.  Workers that are killed change nothing for the rest.  *)
Killed(rows, old) == \A w \in Worker :
    \/ rows[w] = old[w]
    \/ Live(old[w]) /\ rows[w] = [old[w] EXCEPT !.pc = "killed"]

LEMMA KilledRows ==
    ASSUME Base, NEW rows, rows = [w \in Worker |-> rows[w]], Killed(rows, work)
    PROVE  /\ rows \in [Worker -> WorkRow]
           /\ \A w \in Worker :
                /\ rows[w].days = work[w].days /\ (Live(rows[w]) => Live(work[w]))
                /\ Live(rows[w]) => rows[w] = work[w]
                /\ Honest(rows[w], recordedDays, storedDays)
           /\ \A q \in Queue : Keeps(q, queue[q], rows, recordedDays)
           /\ Unstarted(starts, queue, rows)
<1>1. \A w \in Worker : work[w] \in WorkRow
  BY Typed
<1>2. ASSUME NEW w \in Worker
      PROVE  /\ rows[w] \in WorkRow
             /\ rows[w].days = work[w].days /\ (Live(rows[w]) => Live(work[w]))
             /\ Live(rows[w]) => rows[w] = work[w]
             /\ Honest(rows[w], recordedDays, storedDays)
             /\ work[w] = NoWork => rows[w] = NoWork
  <2>1. Honest(work[w], recordedDays, storedDays) /\ work[w] \in WorkRow
    BY <1>1 DEF Base
  <2>2. CASE rows[w] = work[w]
    BY <2>1, <2>2
  <2>3. CASE Live(work[w]) /\ rows[w] = [work[w] EXCEPT !.pc = "killed"]
    <3>1. /\ rows[w] \in WorkRow /\ rows[w].pc = "killed" /\ rows[w].days = work[w].days
      BY <2>1, <2>3 DEF WorkRow, Over
    <3>2. work[w] # NoWork
      BY <2>3 DEF Live, NoWork
    <3> QED
      BY <2>3, <3>1, <3>2 DEF Honest, Live
  <2> QED
    BY <2>2, <2>3 DEF Killed
<1>3. rows \in [Worker -> WorkRow]
  BY <1>2
<1>4. ASSUME NEW q \in Queue PROVE Keeps(q, queue[q], rows, recordedDays)
  <2>1. Keeps(q, queue[q], work, recordedDays) /\ queue[q].active \subseteq ShardId
    BY Typed DEF Base, QueueRow
  <2>2. \A k \in ShardId : <<q, k>> \in Worker
    BY Pairs
  <2> QED
    BY <1>2, <2>1, <2>2 DEF Keeps
<1>5. Unstarted(starts, queue, rows)
  BY <1>2, Pairs DEF Base, Unstarted
<1> QED
  BY <1>2, <1>3, <1>4, <1>5

\* A coordinator that runs has been started, and there is a manifest.
LEMMA RunningFacts ==
    ASSUME Base, NEW q \in Queue, queue[q].pc \notin {"none", "over"}
    PROVE  /\ q <= starts /\ manifest # Nothing /\ Splits(manifest)
           /\ Sure(manifest, recordedDays)
           /\ queue[q] \in QueueRow /\ Keeps(q, queue[q], work, recordedDays)
           /\ \A k \in ShardId : <<q, k>> \in Worker
           /\ queue[q].active \subseteq ShardId
<1>1. queue[q] # NoQueue /\ starts \in Nat /\ q \in Nat \ {0}
  BY Typed, Constants DEF NoQueue, Queue
<1>2. q <= starts /\ starts # 0
  BY <1>1 DEF Base, Unstarted
<1>3. manifest # Nothing
  BY <1>2 DEF Base, Written
<1>4. Splits(manifest) /\ Sure(manifest, recordedDays)
  BY <1>3 DEF Base, Written
<1>5. queue[q] \in QueueRow /\ Keeps(q, queue[q], work, recordedDays)
  BY Typed DEF Base
<1> QED
  BY <1>2, <1>3, <1>4, <1>5, Pairs DEF QueueRow

\* A step of one coordinator.
LEMMA QueueMoves ==
    ASSUME Base, NEW q \in Queue, queue[q].pc \notin {"none", "over"},
           NEW row \in QueueRow, row.pc # "none", queue' = [queue EXCEPT ![q] = row],
           UNCHANGED <<command, starts, recordedDays, storedDays, forced>>,
           work' \in [Worker -> WorkRow],
           \A w \in Worker : Honest(work'[w], recordedDays, storedDays),
           Keeps(q, row, work', recordedDays),
           \A p \in Queue \ {q} : Keeps(p, queue[p], work', recordedDays),
           \A w \in Worker : w[1] # q /\ work[w] = NoWork => work'[w] = NoWork,
           manifest' \in Manifest \cup {Nothing},
           Written(manifest', recordedDays, starts),
           lost' \in BOOLEAN, deaths' \in 0..MaxFaults
    PROVE  Base'
<1>1. queue \in [Queue -> QueueRow]
  BY Typed
<1>2. queue' \in [Queue -> QueueRow] /\ queue'[q] = row
      /\ \A p \in Queue : p # q => queue'[p] = queue[p]
  BY <1>1
<1>3. ShardsTypeOK'
  BY <1>2, Typed, Retyped
<1>4. \A p \in Queue : Keeps(p, queue'[p], work', recordedDays)
  BY <1>2
<1>5. Unstarted(starts, queue', work')
  <2>1. q <= starts /\ starts \in Nat
    BY RunningFacts, Typed
  <2>2. \A p \in Queue : p > starts => p # q
    BY <2>1, Constants DEF Queue
  <2> QED
    BY <1>2, <2>2, Pairs DEF Base, Unstarted
<1>6. Commands(command, starts, queue')
  <2>1. command # Nothing => command.start \in Queue
    BY Typed
  <2> QED
    BY <1>2, <2>1 DEF Base, Commands
<1> QED
  BY <1>3, <1>4, <1>5, <1>6 DEF Base

LEMMA QueueSingle ==
    ASSUME Single, NEW q \in Queue, queue[q].pc \notin {"none", "over"},
           queue \in [Queue -> QueueRow],
           NEW row, queue' = [queue EXCEPT ![q] = row],
           UNCHANGED <<command, starts, recordedDays>>,
           OnlyQueue(q, row, command, manifest', starts),
           \A w \in Worker : OnlyWorker(w, work'[w], command, manifest', starts, queue'),
           OnlyCommand(command, manifest', starts),
           AllDone(manifest', recordedDays)
    PROVE  Single'
<1>1. queue'[q] = row /\ \A p \in Queue : p # q => queue'[p] = queue[p]
  OBVIOUS
<1>2. q = starts /\ \A p \in Queue : queue[p].pc \notin {"none", "over"} => p = starts
  BY DEF Single, OnlyQueue
<1>3. ASSUME NEW p \in Queue PROVE OnlyQueue(p, queue'[p], command, manifest', starts)
  <2>1. CASE p = q
    BY <1>1, <2>1
  <2>2. CASE p # q
    BY <1>1, <1>2, <2>2 DEF OnlyQueue
  <2> QED
    BY <2>1, <2>2
<1> QED
  BY <1>3 DEF Single

\* The parts of the invariant that steps of coordinators do not touch.
LEMMA KeptByOthers ==
    ASSUME Base
    PROVE  /\ \A w \in Worker : Honest(work[w], recordedDays, storedDays)
           /\ \A q \in Queue : Keeps(q, queue[q], work, recordedDays)
           /\ Written(manifest, recordedDays, starts)
           /\ work \in [Worker -> WorkRow] /\ queue \in [Queue -> QueueRow]
           /\ manifest \in Manifest \cup {Nothing}
           /\ lost \in BOOLEAN /\ deaths \in 0..MaxFaults
BY Typed DEF Base

LEMMA QueueBootsStep ==
    ASSUME ShardsIInv, NEW q \in Queue, QueueBoots(q) PROVE ShardsIInv'
<1>0. PICK own \in BOOLEAN : own = TRUE
  OBVIOUS
<1> DEFINE m == [manifest EXCEPT !.queue = q, !.own = own, !.status = "running"]
           row == [pc |-> "turn", copy |-> m, active |-> {}, changed |-> FALSE]
<1>1. /\ Base /\ queue[q].pc = "boot" /\ queue[q].pc \notin {"none", "over"}
      /\ manifest' = m /\ queue' = [queue EXCEPT ![q] = row]
      /\ UNCHANGED <<command, starts, work, recordedDays, storedDays, lost, forced, deaths>>
  BY <1>0 DEF ShardsIInv, QueueBoots
<1>2. Splits(manifest) /\ Sure(manifest, recordedDays) /\ manifest # Nothing
      /\ queue[q].active = {} /\ \A k \in ShardId : ~Live(work[<<q, k>>])
  BY <1>1, RunningFacts DEF Keeps
<1>3. m = Made(manifest, manifest.shards, q, own, "running")
  <2>1. m = WithProcess(manifest, q, own, "running")
    BY DEF WithProcess
  <2> HIDE DEF m
  <2> QED
    BY <1>2, <2>1, NewProcess
<1>4. /\ Splits(m) /\ Alike(m, manifest) /\ m.shards = manifest.shards /\ m.queue = q
      /\ m.status = "running" /\ m \in Manifest /\ m # Nothing
      /\ \A k : RangeOf(m, k) = RangeOf(manifest, k)
  <2>1. manifest.shards \in [DOMAIN manifest.shards -> ShardRow] /\ q \in Queue \cup {Nothing}
    BY <1>2, SplitsFields
  <2> HIDE DEF m
  <2> QED
    BY <1>2, <1>3, <2>1, Rewritten
<1> HIDE DEF m
<1>5. Sure(m, recordedDays)
  BY <1>2, <1>4 DEF Sure
<1>6. row \in QueueRow /\ row.pc = "turn" /\ row.copy = m /\ row.active = {}
  BY <1>4 DEF QueueRow
<1> HIDE DEF row
<1>7. Keeps(q, row, work, recordedDays)
  BY <1>2, <1>4, <1>5, <1>6 DEF Keeps
<1>8. Written(m, recordedDays, starts)
  BY <1>4, <1>5 DEF Written
<1>9. Base'
  BY <1>1, <1>4, <1>6, <1>7, <1>8, KeptByOthers, QueueMoves
<1>10. ASSUME Sound' PROVE Single'
  <2>1. Single
    BY <1>1, <1>10 DEF ShardsIInv, Sound
  <2>2. q = starts /\ Untouched(manifest)
    BY <1>1, <2>1 DEF Single, OnlyQueue
  <2>3. OnlyQueue(q, row, command, m, starts)
    BY <1>4, <1>6, <2>2 DEF OnlyQueue, Alike, Told, Untouched, At
  <2>4. \A w \in Worker : ~Live(work[w])
    BY <1>2, <2>1, <2>2, Pairs DEF Single, OnlyWorker
  <2>5. \A w \in Worker : OnlyWorker(w, work'[w], command, m, starts, queue')
    BY <1>1, <2>4 DEF OnlyWorker
  <2>6. OnlyCommand(command, m, starts)
    BY <1>4, <2>1, Alikes DEF Single, OnlyCommand
  <2>7. AllDone(m, recordedDays)
    BY <1>4 DEF AllDone
  <2>8. queue \in [Queue -> QueueRow]
    BY <1>1, KeptByOthers
  <2> QED
    BY <1>1, <2>1, <2>3, <2>5, <2>6, <2>7, <2>8, QueueSingle
<1> QED
  BY <1>9, <1>10 DEF ShardsIInv

LEMMA QueueAppliesStep ==
    ASSUME ShardsIInv, NEW q \in Queue, QueueApplies(q) PROVE ShardsIInv'
<1> DEFINE copy == queue[q].copy
           gone == Finished(q)
           Row(k) == IF k \in gone
                     THEN [pid |-> copy.shards[k].pid, state |-> StateOf(work[<<q, k>>].pc)]
                     ELSE copy.shards[k]
           new == [k \in DOMAIN copy.shards |-> Row(k)]
           m == [copy EXCEPT !.shards = new]
           pc == IF \E k \in gone : work[<<q, k>>].pc = "exit 75" THEN "stop" ELSE "launch"
           row == [pc |-> pc, copy |-> m, active |-> queue[q].active \ gone,
                   changed |-> gone # {}]
<1>1. /\ Base /\ queue[q].pc = "turn" /\ queue[q].pc \notin {"none", "over"}
      /\ queue[q].pc \in At
      /\ queue' = [queue EXCEPT ![q] = row]
      /\ UNCHANGED <<manifest, command, starts, work, recordedDays, storedDays, lost,
                     forced, deaths>>
  <2>1. queue' = [queue EXCEPT ![q] = row]
    BY DEF QueueApplies
  <2> QED
    BY <2>1 DEF ShardsIInv, QueueApplies, At
<1>2. /\ Splits(copy) /\ Sure(copy, recordedDays) /\ copy.queue = q
      /\ copy.status = "running" /\ queue[q].active \subseteq ShardId
      /\ \A k \in queue[q].active :
            /\ k \in DOMAIN copy.shards
            /\ work[<<q, k>>].days = RangeOf(copy, k)
            /\ copy.shards[k].pid = <<q, k>>
      /\ \A k \in ShardId : Live(work[<<q, k>>]) => k \in queue[q].active
  BY <1>1, RunningFacts DEF Keeps
<1>3. gone \subseteq queue[q].active /\ \A k \in gone : ~Live(work[<<q, k>>])
      /\ gone \subseteq ShardId
  BY <1>2 DEF Finished, Alive, Live
<1> HIDE DEF copy, gone
<1>4. \A k \in DOMAIN copy.shards : copy.shards[k] \in ShardRow
  BY <1>2, SplitsFields
<1>5. ASSUME NEW k \in DOMAIN copy.shards
      PROVE  /\ Row(k) \in ShardRow /\ Row(k).pid = copy.shards[k].pid
             /\ k \in gone => Row(k).state = StateOf(work[<<q, k>>].pc)
             /\ k \in gone => Row(k).state \in {"completed", "failed"}
             /\ k \notin gone => Row(k) = copy.shards[k]
  <2>1. StateOf(work[<<q, k>>].pc) \in {"completed", "failed"}
    BY DEF StateOf
  <2> QED
    BY <1>4, <2>1 DEF ShardRow, ShardState
<1> HIDE DEF Row
<1>6. new \in [DOMAIN copy.shards -> ShardRow] /\ DOMAIN new = DOMAIN copy.shards
      /\ \A k \in DOMAIN copy.shards : new[k] = Row(k)
  BY <1>5
<1> HIDE DEF new
<1>7. m = Made(copy, new, q, copy.own, "running") /\ copy.own \in BOOLEAN
  <2>1. m = WithShards(copy, new)
    BY DEF WithShards
  <2> HIDE DEF m
  <2> QED
    BY <1>2, <2>1, NewShards, SplitsFields
<1>8. /\ Splits(m) /\ Alike(m, copy) /\ m.shards = new /\ m.queue = q
      /\ m.status = "running" /\ m \in Manifest /\ m # Nothing
      /\ \A k : RangeOf(m, k) = RangeOf(copy, k)
  BY <1>2, <1>6, <1>7, Rewritten
<1> HIDE DEF m
<1>9. Sure(m, recordedDays)
  <2>1. SUFFICES ASSUME NEW k \in DOMAIN copy.shards, Row(k).state = "completed"
                 PROVE  RangeOf(copy, k) \subseteq recordedDays
    BY <1>6, <1>8 DEF Sure
  <2>2. CASE k \in gone
    <3>1. work[<<q, k>>].pc = "exit 0"
      BY <1>5, <2>1, <2>2 DEF StateOf
    <3>2. <<q, k>> \in Worker
      BY <1>3, <2>2, Pairs
    <3>3. work[<<q, k>>].days \subseteq recordedDays
      BY <1>1, <3>1, <3>2, KeptByOthers DEF Honest
    <3> QED
      BY <1>2, <1>3, <2>2, <3>3
  <2>3. CASE k \notin gone
    BY <1>2, <1>5, <2>1, <2>3 DEF Sure
  <2> QED
    BY <2>2, <2>3
<1>10. row \in QueueRow /\ row.pc \in {"stop", "launch"} /\ row.copy = m
       /\ row.active = queue[q].active \ gone
  BY <1>2, <1>8 DEF QueueRow
<1> HIDE DEF row
<1>11. Keeps(q, row, work, recordedDays)
  BY <1>2, <1>3, <1>5, <1>6, <1>8, <1>9, <1>10 DEF Keeps
<1>12. Base'
  BY <1>1, <1>10, <1>11, KeptByOthers, QueueMoves
<1>13. ASSUME Sound' PROVE Single'
  <2>1. Single
    BY <1>1, <1>13 DEF ShardsIInv, Sound
  <2>2. /\ q = starts /\ (command = Nothing => manifest.queue = q)
        /\ Alike(copy, manifest) /\ Told(queue[q])
    BY <1>1, <2>1 DEF Single, OnlyQueue, copy
  <2>3. Told(row)
    <3>1. \A k \in DOMAIN copy.shards :
            \/ copy.shards[k].state \in {"queued", "completed", "failed"}
            \/ k \in queue[q].active
      BY <2>2 DEF Told, copy
    <3>2. SUFFICES ASSUME NEW k \in DOMAIN copy.shards
                   PROVE  \/ Row(k).state \in {"queued", "completed", "failed"}
                          \/ k \in queue[q].active \ gone
      BY <1>6, <1>8, <1>10 DEF Told
    <3> QED
      BY <1>5, <3>1
  <2>4. OnlyQueue(q, row, command, manifest, starts)
    BY <1>8, <1>10, <2>2, <2>3 DEF OnlyQueue, Alike
  <2>5. queue'[q].pc \notin {"none", "over"}
        /\ \A p \in Queue \ {q} : queue'[p] = queue[p]
    BY <1>1, <1>10, KeptByOthers
  <2>6. \A w \in Worker : OnlyWorker(w, work[w], command, manifest, starts, queue')
    BY <2>1, <2>5, Pairs DEF Single, OnlyWorker
  <2>7. queue \in [Queue -> QueueRow]
    BY <1>1, KeptByOthers
  <2> QED
    BY <1>1, <2>1, <2>4, <2>6, <2>7, QueueSingle DEF Single
<1> QED
  BY <1>12, <1>13 DEF ShardsIInv

\* What a coordinator has while it is at its loop.
LEMMA AtFacts ==
    ASSUME Base, NEW q \in Queue, queue[q].pc \in At
    PROVE  /\ Splits(queue[q].copy) /\ Sure(queue[q].copy, recordedDays)
           /\ queue[q].copy.queue = q /\ queue[q].copy.status = "running"
           /\ queue[q].copy \in Manifest /\ queue[q].copy # Nothing
           /\ queue[q].pc \notin {"none", "over", "boot"}
           /\ queue[q].active \subseteq ShardId
           /\ queue[q].pc = "end" => queue[q].active = {} /\ Queued(queue[q].copy) = {}
           /\ \A k \in queue[q].active :
                /\ k \in DOMAIN queue[q].copy.shards
                /\ work[<<q, k>>].days = RangeOf(queue[q].copy, k)
                /\ queue[q].copy.shards[k].pid = <<q, k>>
           /\ \A k \in ShardId : Live(work[<<q, k>>]) => k \in queue[q].active
<1>1. queue[q].pc \notin {"none", "over", "boot"}
  BY DEF At
<1>2. Keeps(q, queue[q], work, recordedDays) /\ queue[q].active \subseteq ShardId
  BY <1>1, RunningFacts
<1>3. queue[q].copy \in Manifest /\ queue[q].copy # Nothing
  BY <1>2, Constants DEF Keeps, Splits
<1> QED
  BY <1>1, <1>2, <1>3 DEF Keeps

LEMMA NextIsQueued ==
    ASSUME NEW m, Splits(m), Queued(m) # {}
    PROVE  NextQueued(m) \in Queued(m)
<1> DEFINE n == Cardinality(DOMAIN m.shards)
           a == Least(Workers, n)
           wave == {((i * n) \div a) + 1 : i \in 0..(a - 1)} \cap Queued(m)
           from == IF wave # {} THEN wave ELSE Queued(m)
<1>1. from # {} /\ from \subseteq Queued(m) /\ Queued(m) \subseteq Nat
  BY SplitsFields DEF Queued, ShardId
<1>2. NextQueued(m) = CHOOSE k \in from : \A l \in from : k <= l
  BY DEF NextQueued
<1> HIDE DEF from
<1>3. \E k \in from : \A l \in from : k <= l
  BY <1>1, LeastOne
<1>4. NextQueued(m) \in from
  BY <1>2, <1>3
<1> QED
  BY <1>1, <1>4

LEMMA QueueLaunchesStep ==
    ASSUME ShardsIInv, NEW q \in Queue, QueueLaunches(q) PROVE ShardsIInv'
<1> DEFINE copy == queue[q].copy
           k == NextQueued(copy)
           m == With(copy, k, <<q, k>>, "running")
           new == [copy.shards EXCEPT ![k] = [pid |-> <<q, k>>, state |-> "running"]]
           row == [pc |-> "launch", copy |-> m, active |-> queue[q].active \cup {k},
                   changed |-> TRUE]
           job == [pc |-> "boot", days |-> RangeOf(copy, k), todo |-> {}, errors |-> 0]
<1>1. /\ Base /\ queue[q].pc = "launch" /\ queue[q].pc \in At
      /\ queue[q].pc \notin {"none", "over"} /\ Queued(copy) # {}
      /\ queue' = [queue EXCEPT ![q] = row]
      /\ work' = Launched(copy, {<<q, k>>})
      /\ UNCHANGED <<manifest, command, starts, recordedDays, storedDays, lost,
                     forced, deaths>>
  BY DEF ShardsIInv, QueueLaunches, Full, At
<1>2. /\ Splits(copy) /\ Sure(copy, recordedDays) /\ copy.queue = q
      /\ copy.status = "running" /\ queue[q].active \subseteq ShardId
      /\ \A l \in queue[q].active :
            /\ l \in DOMAIN copy.shards
            /\ work[<<q, l>>].days = RangeOf(copy, l)
            /\ copy.shards[l].pid = <<q, l>>
      /\ \A l \in ShardId : Live(work[<<q, l>>]) => l \in queue[q].active
  BY <1>1, AtFacts
<1>3. k \in DOMAIN copy.shards
  BY <1>1, <1>2, NextIsQueued DEF Queued
<1> HIDE DEF copy, k
<1>4. k \in ShardId /\ <<q, k>> \in Worker /\ RangeOf(copy, k) \in SUBSET Day
      /\ copy.shards \in [DOMAIN copy.shards -> ShardRow]
  BY <1>2, <1>3, SplitsFields, RangesPart, Pairs
<1>5. /\ new \in [DOMAIN copy.shards -> ShardRow] /\ DOMAIN new = DOMAIN copy.shards
      /\ new[k].pid = <<q, k>> /\ new[k].state = "running"
      /\ \A l \in DOMAIN copy.shards : l # k => new[l] = copy.shards[l]
  <2>1. [pid |-> <<q, k>>, state |-> "running"] \in ShardRow
    BY <1>4 DEF ShardRow, ShardState
  <2> QED
    BY <1>3, <1>4, <2>1
<1>6. m = Made(copy, new, q, copy.own, "running") /\ copy.own \in BOOLEAN
  <2>1. m = WithShards(copy, new)
    BY DEF WithShards, With
  <2> HIDE DEF m, new
  <2> QED
    BY <1>2, <2>1, NewShards, SplitsFields
<1> HIDE DEF m, new
<1>7. /\ Splits(m) /\ Alike(m, copy) /\ m.shards = new /\ m.queue = q
      /\ m.status = "running" /\ m \in Manifest /\ m # Nothing
      /\ \A l : RangeOf(m, l) = RangeOf(copy, l)
  BY <1>2, <1>5, <1>6, Rewritten
<1>8. Sure(m, recordedDays)
  BY <1>2, <1>5, <1>7 DEF Sure
<1>9. row \in QueueRow /\ row.pc = "launch" /\ row.copy = m
      /\ row.active = queue[q].active \cup {k}
  BY <1>2, <1>4, <1>7 DEF QueueRow
<1> HIDE DEF row
<1>10. job \in WorkRow /\ job.pc = "boot" /\ job.days = RangeOf(copy, k)
  <2>1. 0 \in 0..MaxErrors
    BY Constants
  <2> QED
    BY <1>4, <2>1 DEF WorkRow
<1>11. <<q, k>>[2] = k /\ work'[<<q, k>>] = job
       /\ \A w \in Worker : w # <<q, k>> => work'[w] = work[w]
  BY <1>1, <1>4 DEF Launched
<1>12. work' = [w \in Worker |-> work'[w]]
  BY <1>1 DEF Launched
<1> HIDE DEF job
<1>13. work' \in [Worker -> WorkRow]
       /\ \A w \in Worker : Honest(work'[w], recordedDays, storedDays)
  <2>1. ASSUME NEW w \in Worker
        PROVE  work'[w] \in WorkRow /\ Honest(work'[w], recordedDays, storedDays)
    <3>1. CASE w = <<q, k>>
      BY <1>10, <1>11, <3>1 DEF Honest
    <3>2. CASE w # <<q, k>>
      BY <1>1, <1>11, <3>2, KeptByOthers
    <3> QED
      BY <3>1, <3>2
  <2> QED
    BY <1>12, <2>1
<1>14. Keeps(q, row, work', recordedDays)
  <2>1. ASSUME NEW l \in row.active
        PROVE  /\ l \in DOMAIN m.shards /\ work'[<<q, l>>].days = RangeOf(m, l)
               /\ m.shards[l].pid = <<q, l>>
    <3>1. CASE l = k
      BY <1>3, <1>5, <1>7, <1>10, <1>11, <3>1
    <3>2. CASE l # k
      <4>1. l \in queue[q].active /\ l \in ShardId /\ <<q, l>> \in Worker
        BY <1>2, <1>9, <3>2, Pairs
      <4>2. <<q, l>> # <<q, k>>
        BY <3>2
      <4> QED
        BY <1>2, <1>5, <1>7, <1>11, <3>2, <4>1, <4>2
    <3> QED
      BY <3>1, <3>2
  <2>2. ASSUME NEW l \in ShardId, Live(work'[<<q, l>>]) PROVE l \in row.active
    <3>1. CASE l # k
      <4>1. <<q, l>> \in Worker /\ <<q, l>> # <<q, k>>
        BY <3>1, Pairs
      <4> QED
        BY <1>2, <1>9, <1>11, <2>2, <4>1
    <3>2. CASE l = k
      BY <1>9, <3>2
    <3> QED
      BY <3>1, <3>2
  <2> QED
    BY <1>7, <1>8, <1>9, <2>1, <2>2 DEF Keeps
<1>15. ASSUME NEW p \in Queue \ {q} PROVE Keeps(p, queue[p], work', recordedDays)
  <2>1. \A l \in ShardId : <<p, l>> \in Worker /\ <<p, l>> # <<q, k>>
    BY Pairs
  <2>2. Keeps(p, queue[p], work, recordedDays) /\ queue[p].active \subseteq ShardId
    BY <1>1, KeptByOthers DEF QueueRow
  <2> QED
    BY <1>11, <2>1, <2>2 DEF Keeps
<1>16. Base'
  <2>1. \A w \in Worker : w[1] # q /\ work[w] = NoWork => work'[w] = NoWork
    BY <1>11
  <2> QED
    BY <1>1, <1>9, <1>13, <1>14, <1>15, <2>1, KeptByOthers, QueueMoves
<1>17. ASSUME Sound' PROVE Single'
  <2>1. Single
    BY <1>1, <1>17 DEF ShardsIInv, Sound
  <2>2. /\ q = starts /\ (command = Nothing => manifest.queue = q)
        /\ Alike(copy, manifest) /\ Told(queue[q])
    BY <1>1, <2>1 DEF Single, OnlyQueue, copy
  <2>3. Told(row)
    <3>1. \A l \in DOMAIN copy.shards :
            \/ copy.shards[l].state \in {"queued", "completed", "failed"}
            \/ l \in queue[q].active
      BY <2>2 DEF Told, copy
    <3> QED
      BY <1>5, <1>7, <1>9, <3>1 DEF Told
  <2>4. OnlyQueue(q, row, command, manifest, starts)
    BY <1>7, <1>9, <2>2, <2>3 DEF OnlyQueue, Alike
  <2>5. queue'[q].pc \notin {"none", "over"}
        /\ \A p \in Queue \ {q} : queue'[p] = queue[p]
    BY <1>1, <1>9, KeptByOthers
  <2>6. ASSUME NEW w \in Worker
        PROVE  OnlyWorker(w, work'[w], command, manifest, starts, queue')
    <3>1. CASE w = <<q, k>>
      <4>1. w[1] = q /\ w[2] = k /\ k \in DOMAIN manifest.shards
        BY <1>3, <1>4, <2>2, <3>1, Pairs DEF Alike
      <4>2. work'[w].days = RangeOf(manifest, k)
        BY <1>10, <1>11, <2>2, <3>1, AlikeRanges
      <4> QED
        BY <2>2, <2>5, <4>1, <4>2 DEF OnlyWorker
    <3>2. CASE w # <<q, k>>
      BY <1>11, <2>1, <2>5, <3>2, Pairs DEF Single, OnlyWorker
    <3> QED
      BY <3>1, <3>2
  <2>7. queue \in [Queue -> QueueRow]
    BY <1>1, KeptByOthers
  <2> QED
    BY <1>1, <2>1, <2>4, <2>6, <2>7, QueueSingle DEF Single
<1> QED
  BY <1>16, <1>17 DEF ShardsIInv

LEMMA QueueWritesStep ==
    ASSUME ShardsIInv, NEW q \in Queue, QueueWrites(q) PROVE ShardsIInv'
<1> DEFINE copy == queue[q].copy
           pc == IF queue[q].active = {} THEN "end" ELSE "turn"
           row == [queue[q] EXCEPT !.pc = pc]
<1>1. /\ Base /\ queue[q].pc = "launch" /\ queue[q].pc \in At
      /\ queue[q].pc \notin {"none", "over"} /\ Full(q)
      /\ manifest' = IF queue[q].changed THEN copy ELSE manifest
      /\ queue' = [queue EXCEPT ![q] = row]
      /\ UNCHANGED <<command, starts, work, recordedDays, storedDays, lost, forced, deaths>>
  BY DEF ShardsIInv, QueueWrites, At
<1>2. /\ Splits(copy) /\ Sure(copy, recordedDays) /\ copy.queue = q
      /\ copy.status = "running" /\ copy \in Manifest /\ copy # Nothing
  BY <1>1, AtFacts
<1>3. queue[q] \in QueueRow /\ Keeps(q, queue[q], work, recordedDays)
  BY <1>1, RunningFacts
<1>4. pc = "end" => queue[q].active = {} /\ Queued(copy) = {}
  <2>1. Cardinality({}) = 0 /\ ~(0 >= Workers)
    BY FS_EmptySet, Constants
  <2> QED
    BY <1>1, <2>1 DEF Full
<1>5. pc \in {"end", "turn"}
  OBVIOUS
<1>6. row \in QueueRow /\ row.pc = pc /\ row.copy = copy /\ row.active = queue[q].active
  BY <1>3, <1>5 DEF QueueRow
<1> HIDE DEF row, pc, copy
<1>7. Keeps(q, row, work, recordedDays)
  BY <1>1, <1>3, <1>4, <1>5, <1>6 DEF Keeps, At, copy
<1>8. Written(manifest', recordedDays, starts) /\ manifest' \in Manifest \cup {Nothing}
  BY <1>1, <1>2, KeptByOthers DEF Written
<1>9. Base'
  BY <1>1, <1>5, <1>6, <1>7, <1>8, KeptByOthers, QueueMoves
<1>10. ASSUME Sound' PROVE Single'
  <2>1. Single
    BY <1>1, <1>10 DEF ShardsIInv, Sound
  <2>2. /\ q = starts /\ (command = Nothing => manifest.queue = q)
        /\ Alike(copy, manifest) /\ Told(queue[q])
    BY <1>1, <2>1 DEF Single, OnlyQueue, copy
  <2>3. Alike(manifest', manifest) /\ Alike(row.copy, manifest')
        /\ (command = Nothing => manifest'.queue = q)
    BY <1>1, <1>2, <1>6, <2>2 DEF Alike
  <2>4. Told(row)
    BY <1>6, <2>2 DEF Told, copy
  <2>5. OnlyQueue(q, row, command, manifest', starts)
    BY <1>5, <1>6, <2>2, <2>3, <2>4 DEF OnlyQueue
  <2>6. queue'[q].pc \notin {"none", "over"}
        /\ \A p \in Queue \ {q} : queue'[p] = queue[p]
    BY <1>1, <1>5, <1>6, KeptByOthers
  <2>7. DOMAIN manifest'.shards = DOMAIN manifest.shards
        /\ \A k : RangeOf(manifest', k) = RangeOf(manifest, k)
    BY <2>3, AlikeRanges DEF Alike
  <2>8. ASSUME NEW w \in Worker
        PROVE  OnlyWorker(w, work[w], command, manifest', starts, queue')
    <3>1. OnlyWorker(w, work[w], command, manifest, starts, queue)
      BY <2>1 DEF Single
    <3> QED
      BY <2>2, <2>6, <2>7, <3>1 DEF OnlyWorker
  <2>9. OnlyCommand(command, manifest', starts)
    BY <2>1, <2>3, Alikes DEF Single, OnlyCommand
  <2>10. AllDone(manifest', recordedDays)
    BY <1>1, <1>2, <2>1 DEF Single, AllDone
  <2>11. queue \in [Queue -> QueueRow]
    BY <1>1, KeptByOthers
  <2> QED
    BY <1>1, <2>1, <2>5, <2>8, <2>9, <2>10, <2>11, QueueSingle
<1> QED
  BY <1>9, <1>10 DEF ShardsIInv

LEMMA QueueEndsStep ==
    ASSUME ShardsIInv, NEW q \in Queue, QueueEnds(q) PROVE ShardsIInv'
<1> DEFINE copy == queue[q].copy
           status == IF \E k \in DOMAIN copy.shards : copy.shards[k].state = "failed"
                     THEN "failed" ELSE "completed"
           m == [copy EXCEPT !.status = status]
           row == [queue[q] EXCEPT !.pc = "over"]
<1>1. /\ Base /\ queue[q].pc = "end" /\ queue[q].pc \in At
      /\ queue[q].pc \notin {"none", "over"}
      /\ manifest' = m /\ queue' = [queue EXCEPT ![q] = row]
      /\ UNCHANGED <<command, starts, work, recordedDays, storedDays, lost, forced, deaths>>
  BY DEF ShardsIInv, QueueEnds, At
<1>2. /\ Splits(copy) /\ Sure(copy, recordedDays) /\ copy.queue = q
      /\ queue[q].active = {} /\ Queued(copy) = {}
      /\ \A k \in ShardId : ~Live(work[<<q, k>>])
  BY <1>1, AtFacts
<1>3. row \in QueueRow /\ row.pc = "over"
  BY <1>1, RunningFacts DEF QueueRow
<1> HIDE DEF row
<1>4. m = Made(copy, copy.shards, q, copy.own, status)
  <2>1. m = WithStatus(copy, status)
    BY DEF WithStatus
  <2> HIDE DEF m
  <2> QED
    BY <1>2, <2>1, NewStatus
<1>5. status \in {"failed", "completed"}
      /\ copy.shards \in [DOMAIN copy.shards -> ShardRow] /\ copy.own \in BOOLEAN
  BY <1>2, SplitsFields
<1>6. status = "completed" =>
        \A k \in DOMAIN copy.shards : copy.shards[k].state # "failed"
  OBVIOUS
<1> HIDE DEF m, status, copy
<1>7. /\ Splits(m) /\ Alike(m, copy) /\ m.shards = copy.shards /\ m.status = status
      /\ m \in Manifest /\ m # Nothing /\ \A k : RangeOf(m, k) = RangeOf(copy, k)
  BY <1>2, <1>4, <1>5, Rewritten
<1>8. Written(m, recordedDays, starts)
  BY <1>2, <1>7 DEF Written, Sure
<1>9. Keeps(q, row, work, recordedDays)
  BY <1>3 DEF Keeps, At
<1>10. Base'
  BY <1>1, <1>3, <1>7, <1>8, <1>9, KeptByOthers, QueueMoves
<1>11. ASSUME Sound' PROVE Single'
  <2>1. Single
    BY <1>1, <1>11 DEF ShardsIInv, Sound
  <2>2. q = starts /\ Alike(copy, manifest) /\ Told(queue[q])
    BY <1>1, <2>1 DEF Single, OnlyQueue, copy
  <2>3. OnlyQueue(q, row, command, m, starts)
    BY <1>3 DEF OnlyQueue
  <2>4. \A w \in Worker : ~Live(work[w])
    BY <1>2, <2>1, <2>2, Pairs DEF Single, OnlyWorker
  <2>5. \A w \in Worker : OnlyWorker(w, work[w], command, m, starts, queue')
    BY <2>4 DEF OnlyWorker
  <2>6. OnlyCommand(command, m, starts)
    BY <1>7, <2>1, <2>2, Alikes DEF Single, OnlyCommand
  <2>7. ASSUME m.status = "completed" PROVE m.from..m.to \subseteq recordedDays
    <3>1. ASSUME NEW k \in DOMAIN m.shards PROVE RangeOf(m, k) \subseteq recordedDays
      <4>1. copy.shards[k].state \in {"queued", "completed"}
        BY <1>2, <1>6, <1>7, <2>2, <2>7 DEF Told, copy
      <4>2. copy.shards[k].state # "queued"
        BY <1>2, <1>7 DEF Queued
      <4> QED
        BY <1>2, <1>7, <4>1, <4>2 DEF Sure
    <3> QED
      BY <1>7, <3>1, RangesPart
  <2>8. AllDone(m, recordedDays)
    BY <2>7 DEF AllDone
  <2>9. queue \in [Queue -> QueueRow]
    BY <1>1, KeptByOthers
  <2> QED
    BY <1>1, <2>1, <2>3, <2>5, <2>6, <2>8, <2>9, QueueSingle
<1> QED
  BY <1>10, <1>11 DEF ShardsIInv

LEMMA QueueStopsStep ==
    ASSUME ShardsIInv, NEW q \in Queue, QueueStops(q) PROVE ShardsIInv'
<1> DEFINE copy == queue[q].copy
           Row(k) == IF k \in queue[q].active \/ copy.shards[k].state = "queued"
                     THEN [pid |-> copy.shards[k].pid, state |-> "stopped"]
                     ELSE copy.shards[k]
           new == [k \in DOMAIN copy.shards |-> Row(k)]
           m == [copy EXCEPT !.status = "failed", !.shards = new]
           row == [queue[q] EXCEPT !.pc = "over"]
<1>1. /\ Base /\ queue[q].pc = "stop" /\ queue[q].pc \in At
      /\ queue[q].pc \notin {"none", "over"}
      /\ manifest' = m /\ queue' = [queue EXCEPT ![q] = row]
      /\ work' = [w \in Worker |->
            IF KillsTree /\ w[1] = q /\ w[2] \in queue[q].active /\ Alive(w)
            THEN [work[w] EXCEPT !.pc = "killed"] ELSE work[w]]
      /\ UNCHANGED <<command, starts, recordedDays, storedDays, lost, forced, deaths>>
  BY DEF ShardsIInv, QueueStops, At
<1>2. /\ Splits(copy) /\ Sure(copy, recordedDays) /\ copy.queue = q
      /\ \A k \in queue[q].active :
            /\ k \in DOMAIN copy.shards
            /\ work[<<q, k>>].days = RangeOf(copy, k)
            /\ copy.shards[k].pid = <<q, k>>
      /\ \A k \in ShardId : Live(work[<<q, k>>]) => k \in queue[q].active
  BY <1>1, AtFacts
<1>3. row \in QueueRow /\ row.pc = "over"
  BY <1>1, RunningFacts DEF QueueRow
<1> HIDE DEF row
<1>4. \A k \in DOMAIN copy.shards : copy.shards[k] \in ShardRow
  BY <1>2, SplitsFields
<1>5. ASSUME NEW k \in DOMAIN copy.shards
      PROVE  /\ Row(k) \in ShardRow /\ Row(k).pid = copy.shards[k].pid
             /\ Row(k).state = "completed" => copy.shards[k].state = "completed"
  BY <1>4 DEF ShardRow, ShardState
<1> HIDE DEF Row
<1>6. new \in [DOMAIN copy.shards -> ShardRow] /\ DOMAIN new = DOMAIN copy.shards
      /\ \A k \in DOMAIN copy.shards : new[k] = Row(k)
  BY <1>5
<1> HIDE DEF new
<1>7. m = Made(copy, new, q, copy.own, "failed") /\ copy.own \in BOOLEAN
  <2>1. m = WithStates(copy, "failed", new)
    BY DEF WithStates
  <2> HIDE DEF m
  <2> QED
    BY <1>2, <2>1, NewStates, SplitsFields
<1> HIDE DEF m
<1>8. /\ Splits(m) /\ Alike(m, copy) /\ m.shards = new /\ m.status = "failed"
      /\ m \in Manifest /\ m # Nothing /\ \A k : RangeOf(m, k) = RangeOf(copy, k)
  BY <1>2, <1>6, <1>7, Rewritten
<1>9. Written(m, recordedDays, starts)
  <2>1. Sure(m, recordedDays)
    BY <1>2, <1>5, <1>6, <1>8 DEF Sure
  <2> QED
    BY <1>8, <2>1 DEF Written
<1>10. Killed(work', work) /\ work' = [w \in Worker |-> work'[w]]
  BY <1>1 DEF Killed, Live, Alive
<1>11. /\ work' \in [Worker -> WorkRow]
       /\ \A w \in Worker :
            /\ Live(work'[w]) => work'[w] = work[w]
            /\ Honest(work'[w], recordedDays, storedDays)
       /\ \A p \in Queue : Keeps(p, queue[p], work', recordedDays)
  BY <1>1, <1>10, KilledRows
<1>12. Keeps(q, row, work', recordedDays)
  BY <1>3 DEF Keeps, At
<1>13. \A w \in Worker : w[1] # q /\ work[w] = NoWork => work'[w] = NoWork
  BY <1>1
<1>14. Base'
  BY <1>1, <1>3, <1>8, <1>9, <1>11, <1>12, <1>13, KeptByOthers, QueueMoves
<1>15. ASSUME Sound' PROVE Single'
  <2>1. Single
    BY <1>1, <1>15 DEF ShardsIInv, Sound
  <2>2. q = starts /\ Alike(copy, manifest)
    BY <1>1, <2>1 DEF Single, OnlyQueue, copy
  <2>3. OnlyQueue(q, row, command, m, starts)
    BY <1>3 DEF OnlyQueue
  <2>4. ASSUME NEW w \in Worker, Live(work'[w])
        PROVE  /\ w[1] = starts /\ w[2] \in DOMAIN m.shards
               /\ work'[w].days = RangeOf(m, w[2]) /\ m.shards[w[2]].pid = w
    <3>1. Live(work[w]) /\ work'[w] = work[w]
      BY <1>11, <2>4
    <3>2. w[1] = starts /\ w[2] \in ShardId /\ w = <<q, w[2]>>
      BY <2>1, <2>2, <3>1, Pairs DEF Single, OnlyWorker
    <3>3. w[2] \in queue[q].active
      BY <1>2, <3>1, <3>2
    <3> QED
      BY <1>2, <1>5, <1>6, <1>8, <3>1, <3>2, <3>3
  <2>5. \A w \in Worker : OnlyWorker(w, work'[w], command, m, starts, queue')
    BY <2>4 DEF OnlyWorker
  <2>6. OnlyCommand(command, m, starts)
    BY <1>8, <2>1, <2>2, Alikes DEF Single, OnlyCommand
  <2>7. AllDone(m, recordedDays)
    BY <1>8 DEF AllDone
  <2>8. queue \in [Queue -> QueueRow]
    BY <1>1, KeptByOthers
  <2> QED
    BY <1>1, <2>1, <2>3, <2>5, <2>6, <2>7, <2>8, QueueSingle
<1> QED
  BY <1>14, <1>15 DEF ShardsIInv

LEMMA QueueDiesStep ==
    ASSUME ShardsIInv, NEW q \in Queue, QueueDies(q) PROVE ShardsIInv'
<1> DEFINE row == [queue[q] EXCEPT !.pc = "over"]
<1>1. /\ Base /\ queue[q].pc \notin {"none", "over"}
      /\ queue' = [queue EXCEPT ![q] = row] /\ lost' = TRUE
      /\ UNCHANGED <<manifest, command, starts, work, recordedDays, storedDays, forced>>
  BY DEF ShardsIInv, QueueDies, QueueRuns
<1>2. row \in QueueRow /\ row.pc = "over"
  BY <1>1, RunningFacts DEF QueueRow
<1> HIDE DEF row
<1>3. Keeps(q, row, work, recordedDays)
  BY <1>2 DEF Keeps, At
<1>4. deaths' \in 0..MaxFaults
  BY FaultCounts DEF QueueDies
<1>5. lost' \in BOOLEAN /\ ~Sound'
  BY <1>1 DEF Sound
<1>6. Base'
  BY <1>1, <1>2, <1>3, <1>4, <1>5, KeptByOthers, QueueMoves
<1> QED
  BY <1>5, <1>6 DEF ShardsIInv

LEMMA StartDiesStep == ASSUME ShardsIInv, StartDies PROVE ShardsIInv'
<1>1. /\ Base /\ command' = Nothing /\ lost' = TRUE
      /\ UNCHANGED <<manifest, starts, queue, work, recordedDays, storedDays, forced>>
  BY DEF ShardsIInv, StartDies
<1>2. deaths' \in 0..MaxFaults
  BY FaultCounts DEF StartDies
<1>3. ShardsTypeOK'
  BY <1>1, <1>2, Typed, Retyped
<1>4. Base'
  BY <1>1, <1>3 DEF Base, Commands
<1>5. ~Sound'
  BY <1>1 DEF Sound
<1> QED
  BY <1>4, <1>5 DEF ShardsIInv

-----------------------------------------------------------------------------
(* The commands.                                                           *)
LEMMA StartRecordsStep == ASSUME ShardsIInv, StartRecords PROVE ShardsIInv'
<1> DEFINE q == command.start
           copy == command.copy
           m == [copy EXCEPT !.queue = q, !.status = "running"]
<1>1. /\ Base /\ command # Nothing /\ manifest' = m /\ command' = Nothing
      /\ lost' = (lost \/ LeftBehind(q))
      /\ UNCHANGED <<starts, queue, work, recordedDays, storedDays, forced, deaths>>
  BY DEF ShardsIInv, StartRecords
<1>2. /\ Splits(copy) /\ Untouched(copy) /\ q \in Queue /\ queue[q].pc # "none"
  <2>1. command \in [start : Queue, copy : Manifest]
    BY <1>1, Typed
  <2> QED
    BY <1>1, <2>1 DEF Base, Commands
<1>3. m = Made(copy, copy.shards, q, copy.own, "running")
  <2>1. m = WithOwner(copy, q, "running")
    BY DEF WithOwner
  <2> HIDE DEF m, q, copy
  <2> QED
    BY <1>2, <2>1, NewOwner
<1>4. copy.shards \in [DOMAIN copy.shards -> ShardRow] /\ copy.own \in BOOLEAN
      /\ q \in Queue \cup {Nothing}
  BY <1>2, SplitsFields
<1> HIDE DEF m, q, copy
<1>5. /\ Splits(m) /\ Alike(m, copy) /\ m.shards = copy.shards /\ m.queue = q
      /\ m.own = copy.own /\ m.status = "running" /\ m \in Manifest /\ m # Nothing
      /\ \A k : RangeOf(m, k) = RangeOf(copy, k)
  BY <1>2, <1>3, <1>4, Rewritten
<1>6. Untouched(m)
  BY <1>2, <1>5 DEF Untouched
<1>7. Written(m, recordedDays, starts)
  BY <1>5, <1>6 DEF Written, Sure, Untouched
<1>8. lost' \in BOOLEAN
  BY <1>1, Typed
<1>9. ShardsTypeOK'
  BY <1>1, <1>5, <1>8, Typed, Retyped
<1>10. Commands(Nothing, starts, queue)
  BY DEF Commands
<1>11. Base'
  BY <1>1, <1>7, <1>9, <1>10 DEF Base
<1>12. ASSUME Sound' PROVE Single'
  <2>1. Single /\ ~LeftBehind(q)
    BY <1>1, <1>8, <1>12 DEF ShardsIInv, Sound
  <2>2. q = starts /\ Alike(copy, manifest)
    BY <1>1, <2>1 DEF Single, OnlyCommand, q, copy
  <2>3. Alike(m, manifest) /\ DOMAIN m.shards = DOMAIN manifest.shards
        /\ \A k : RangeOf(m, k) = RangeOf(manifest, k)
    BY <1>5, <2>2, AlikeRanges DEF Alike
  <2>4. ASSUME NEW p \in Queue PROVE OnlyQueue(p, queue[p], Nothing, m, starts)
    <3>1. OnlyQueue(p, queue[p], command, manifest, starts)
      BY <2>1 DEF Single
    <3>2. queue[p].pc \in At => Alike(queue[p].copy, m)
      BY <2>3, <3>1 DEF OnlyQueue, Alike, At
    <3> QED
      BY <1>5, <1>6, <2>2, <3>1, <3>2 DEF OnlyQueue
  <2>5. ASSUME NEW w \in Worker
        PROVE  OnlyWorker(w, work[w], Nothing, m, starts, queue)
    <3>1. SUFFICES ASSUME Live(work[w])
                   PROVE  OnlyWorker(w, work[w], Nothing, m, starts, queue)
      BY DEF OnlyWorker
    <3>2. w[1] = q /\ w[2] \in DOMAIN manifest.shards /\ work[w].days = RangeOf(manifest, w[2])
      BY <2>1, <2>2, <3>1 DEF Single, OnlyWorker
    <3>3. queue[q].pc # "over"
      <4>1. w = <<q, w[2]>> /\ w[2] \in ShardId
        BY <3>2, Pairs
      <4>2. Alive(<<q, w[2]>>)
        BY <3>1, <4>1 DEF Alive, Live
      <4> QED
        BY <2>1, <4>1, <4>2 DEF LeftBehind
    <3> QED
      BY <1>2, <2>2, <2>3, <3>2, <3>3 DEF OnlyWorker
  <2>6. OnlyCommand(Nothing, m, starts) /\ AllDone(m, recordedDays)
    BY <1>5 DEF OnlyCommand, AllDone
  <2> QED
    BY <1>1, <2>4, <2>5, <2>6 DEF Single
<1> QED
  BY <1>11, <1>12 DEF ShardsIInv

LEMMA StopStep == ASSUME ShardsIInv, Stop PROVE ShardsIInv'
<1> DEFINE q == manifest.queue
           Row(k) == IF \/ q # Nothing /\ manifest.shards[k].state \in {"queued", "running"}
                        \/ /\ manifest.shards[k].pid # Nothing
                           /\ Alive(manifest.shards[k].pid)
                     THEN [pid |-> manifest.shards[k].pid, state |-> "stopped"]
                     ELSE manifest.shards[k]
           new == [k \in DOMAIN manifest.shards |-> Row(k)]
           status == IF q = Nothing THEN manifest.status ELSE "stopped"
           m == [manifest EXCEPT !.status = status, !.shards = new]
           row == [queue[q] EXCEPT !.pc = "over"]
           Hit(w) == /\ Alive(w)
                     /\ \/ KillQueue /\ w[1] = q
                        \/ /\ w \in {manifest.shards[k].pid : k \in DOMAIN manifest.shards}
                           /\ KillsTree \/ queue[w[1]].pc = "none"
<1>1. /\ Base /\ command = Nothing /\ manifest # Nothing /\ manifest' = m
      /\ queue' = IF KillQueue /\ QueueRuns(q)
                  THEN [queue EXCEPT ![q] = row] ELSE queue
      /\ work' = [w \in Worker |->
            IF Hit(w) THEN [work[w] EXCEPT !.pc = "killed"] ELSE work[w]]
      /\ UNCHANGED <<command, starts, recordedDays, storedDays, lost, forced, deaths>>
  <2>1. manifest' = m
    BY DEF Stop, StoppedShards
  <2> QED
    BY <2>1 DEF ShardsIInv, Stop
<1>2. Splits(manifest) /\ Sure(manifest, recordedDays)
  BY <1>1 DEF Base, Written
<1>3. \A k \in DOMAIN manifest.shards : manifest.shards[k] \in ShardRow
  BY <1>2, SplitsFields
<1>4. ASSUME NEW k \in DOMAIN manifest.shards
      PROVE  /\ Row(k) \in ShardRow /\ Row(k).pid = manifest.shards[k].pid
             /\ Row(k).state = "completed" => manifest.shards[k].state = "completed"
  <2>1. CASE Row(k) = manifest.shards[k]
    BY <1>3, <2>1
  <2>2. CASE Row(k) = [pid |-> manifest.shards[k].pid, state |-> "stopped"]
    BY <1>3, <2>2 DEF ShardRow, ShardState
  <2> QED
    BY <2>1, <2>2
<1> HIDE DEF Row
<1>5. new \in [DOMAIN manifest.shards -> ShardRow] /\ DOMAIN new = DOMAIN manifest.shards
      /\ \A k \in DOMAIN manifest.shards : new[k] = Row(k)
  BY <1>4
<1> HIDE DEF new
<1>6. m = Made(manifest, new, q, manifest.own, status) /\ manifest.own \in BOOLEAN
      /\ q \in Queue \cup {Nothing}
      /\ status \in {"none", "running", "completed", "failed", "stopped"}
  <2>1. m = WithStates(manifest, status, new)
    BY DEF WithStates
  <2> HIDE DEF m
  <2> QED
    BY <1>2, <2>1, NewStates, SplitsFields
<1>7. status = "completed" => manifest.status = "completed"
  OBVIOUS
<1> HIDE DEF m, status
<1>8. /\ Splits(m) /\ Alike(m, manifest) /\ m.shards = new /\ m.status = status
      /\ m.queue = q /\ m.own = manifest.own
      /\ m \in Manifest /\ m # Nothing /\ \A k : RangeOf(m, k) = RangeOf(manifest, k)
  BY <1>2, <1>5, <1>6, Rewritten
<1>9. Written(m, recordedDays, starts)
  <2>1. Sure(m, recordedDays)
    BY <1>2, <1>4, <1>5, <1>8 DEF Sure
  <2> QED
    BY <1>8, <2>1 DEF Written
<1>10. Killed(work', work) /\ work' = [w \in Worker |-> work'[w]]
  BY <1>1 DEF Killed, Live, Alive
<1> HIDE DEF Hit
<1>11. /\ work' \in [Worker -> WorkRow]
       /\ \A w \in Worker :
            /\ Live(work'[w]) => Live(work[w]) /\ work'[w] = work[w]
            /\ Honest(work'[w], recordedDays, storedDays)
       /\ \A p \in Queue : Keeps(p, queue[p], work', recordedDays)
       /\ Unstarted(starts, queue, work')
  BY <1>1, <1>10, KilledRows
<1>12. CASE ~(KillQueue /\ QueueRuns(q))
  <2>1. queue' = queue
    BY <1>1, <1>12
  <2>2. ShardsTypeOK'
    BY <1>1, <1>8, <1>11, <2>1, Typed, Retyped
  <2>3. Base'
    BY <1>1, <1>9, <1>11, <2>1, <2>2 DEF Base
  <2>4. ASSUME Sound' PROVE Single'
    <3>1. Single
      BY <1>1, <2>4 DEF ShardsIInv, Sound
    <3>2. ASSUME NEW p \in Queue PROVE OnlyQueue(p, queue[p], command, m, starts)
      <4>1. SUFFICES ASSUME queue[p].pc \notin {"none", "over"}
                     PROVE  OnlyQueue(p, queue[p], command, m, starts)
        BY DEF OnlyQueue
      <4>2. OnlyQueue(p, queue[p], command, manifest, starts)
        BY <3>1 DEF Single
      <4>3. p = q /\ p # Nothing /\ q # Nothing
        BY <1>1, <4>1, <4>2, Constants DEF OnlyQueue
      <4>4. queue[p].pc # "boot"
        BY <1>12, <4>1, <4>2, <4>3 DEF OnlyQueue, Untouched, KillQueue, QueueRuns
      <4>5. queue[p].pc \in At => Alike(queue[p].copy, m)
        BY <1>8, <4>1, <4>2 DEF OnlyQueue, Alike
      <4> QED
        BY <1>8, <4>2, <4>3, <4>4, <4>5 DEF OnlyQueue
    <3>3. ASSUME NEW w \in Worker
          PROVE  OnlyWorker(w, work'[w], command, m, starts, queue)
      <4>1. SUFFICES ASSUME Live(work'[w])
                     PROVE  OnlyWorker(w, work'[w], command, m, starts, queue)
        BY DEF OnlyWorker
      <4>2. Live(work[w]) /\ work'[w] = work[w]
        BY <1>11, <4>1
      <4>3. OnlyWorker(w, work[w], command, manifest, starts, queue)
        BY <3>1 DEF Single
      <4>4. w[2] \in DOMAIN manifest.shards
        BY <4>2, <4>3 DEF OnlyWorker
      <4>5. m.shards[w[2]].pid = manifest.shards[w[2]].pid
        BY <1>4, <1>5, <1>8, <4>4
      <4> QED
        BY <1>5, <1>8, <4>2, <4>3, <4>4, <4>5 DEF OnlyWorker
    <3>4. OnlyCommand(command, m, starts)
      BY <1>1 DEF OnlyCommand
    <3>5. AllDone(m, recordedDays)
      BY <1>1, <1>7, <1>8, <3>1 DEF Single, AllDone, Alike
    <3> QED
      BY <1>1, <2>1, <3>2, <3>3, <3>4, <3>5 DEF Single
  <2> QED
    BY <2>3, <2>4 DEF ShardsIInv
<1>13. CASE KillQueue /\ QueueRuns(q)
  <2>1. queue' = [queue EXCEPT ![q] = row] /\ q \in Queue
        /\ queue[q].pc \notin {"none", "over"}
    BY <1>1, <1>6, <1>13 DEF KillQueue, QueueRuns
  <2>2. row \in QueueRow /\ row.pc = "over"
    BY <1>1, <2>1, RunningFacts DEF QueueRow
  <2> HIDE DEF row
  <2>3. Keeps(q, row, work', recordedDays)
    BY <2>2 DEF Keeps, At
  <2>4. \A w \in Worker : work[w] = NoWork => work'[w] = NoWork
    BY <1>10 DEF Killed, Live, NoWork
  <2>5. Base'
    BY <1>1, <1>8, <1>9, <1>11, <2>1, <2>2, <2>3, <2>4, KeptByOthers, QueueMoves
  <2>6. ASSUME Sound' PROVE Single'
    <3>1. Single
      BY <1>1, <2>6 DEF ShardsIInv, Sound
    <3>2. q = starts
      BY <2>1, <3>1 DEF Single, OnlyQueue
    <3>3. OnlyQueue(q, row, command, m, starts)
      BY <2>2 DEF OnlyQueue
    <3>4. ASSUME NEW w \in Worker PROVE ~Live(work'[w])
      <4>1. SUFFICES ASSUME Live(work'[w]) PROVE FALSE
        OBVIOUS
      <4>2. Live(work[w]) /\ work'[w] = work[w]
        BY <1>11, <4>1
      <4>3. w[1] = q
        BY <3>1, <3>2, <4>2 DEF Single, OnlyWorker
      <4>4. Hit(w)
        BY <1>13, <4>2, <4>3 DEF Hit, Alive, Live
      <4>5. work'[w] = [work[w] EXCEPT !.pc = "killed"] /\ work[w] \in WorkRow
        BY <1>1, <4>4, KeptByOthers
      <4> QED
        BY <4>1, <4>5 DEF WorkRow, Live
    <3>5. \A w \in Worker : OnlyWorker(w, work'[w], command, m, starts, queue')
      BY <3>4 DEF OnlyWorker
    <3>6. OnlyCommand(command, m, starts)
      BY <1>1 DEF OnlyCommand
    <3>7. AllDone(m, recordedDays)
      BY <1>1, <1>7, <1>8, <3>1 DEF Single, AllDone, Alike
    <3>8. queue \in [Queue -> QueueRow]
      BY <1>1, KeptByOthers
    <3> QED
      BY <1>1, <2>1, <3>1, <3>3, <3>5, <3>6, <3>7, <3>8, QueueSingle
  <2> QED
    BY <2>5, <2>6 DEF ShardsIInv
<1> QED
  BY <1>12, <1>13

\* The manifest of a start: a worker for each shard, or all are queued.
LEMMA NewManifestIs ==
    ASSUME NEW from \in Day, NEW s \in Queue
    PROVE  LET m == NewManifest(from, s) IN
           /\ Splits(m) /\ m \in Manifest /\ m # Nothing
           /\ m.queue = Nothing /\ ~m.own /\ m.status = "none"
           /\ \A k \in DOMAIN m.shards : m.shards[k].state # "completed"
           /\ Queued(m) = {} => \A k \in DOMAIN m.shards : m.shards[k].pid = <<s, k>>
           /\ Queued(m) # {} => Untouched(m)
<1> DEFINE m == NewManifest(from, s)
           n == Count(from, Days)
           direct == n <= Workers
           Row(k) == IF direct THEN [pid |-> <<s, k>>, state |-> "running"]
                               ELSE [pid |-> Nothing, state |-> "queued"]
           rows == [k \in 1..n |-> Row(k)]
<1>1. /\ m.from = from /\ m.to = Days /\ m.shards = rows /\ m.queue = Nothing
      /\ m.own = FALSE /\ m.status = "none"
      /\ m = [from |-> from, to |-> Days, shards |-> rows, queue |-> Nothing,
              own |-> FALSE, status |-> "none"]
  BY DEF NewManifest
<1>2. from \in 1..Days /\ Days \in Nat /\ Shards \in Nat \ {0}
  BY Constants DEF Day
<1>3. n \in 1..Shards
  BY <1>2 DEF Count, Least
<1> HIDE DEF n, m
<1>4. \A k \in 1..n : k \in ShardId
  BY <1>2, <1>3 DEF ShardId
<1>5. ASSUME NEW k \in 1..n PROVE Row(k) \in ShardRow
  <2>1. <<s, k>> \in Worker
    BY <1>4, Pairs
  <2>2. [pid |-> <<s, k>>, state |-> "running"] \in ShardRow
    BY <2>1 DEF ShardRow, ShardState
  <2>3. [pid |-> Nothing, state |-> "queued"] \in ShardRow
    BY DEF ShardRow, ShardState
  <2> QED
    BY <2>2, <2>3
<1>6. rows \in [1..n -> ShardRow] /\ DOMAIN rows = 1..n /\ \A k \in 1..n : rows[k] = Row(k)
  BY <1>5
<1> HIDE DEF rows
<1>7. rows \in UNION {[1..l -> ShardRow] : l \in ShardId}
  BY <1>3, <1>6 DEF ShardId
<1>8. Days \in Day
  BY <1>2 DEF Day
<1>9. m \in Manifest
  BY <1>1, <1>7, <1>8 DEF Manifest, ShardRow
<1>10. Splits(m) /\ m # Nothing
  BY <1>1, <1>6, <1>9, Constants DEF Splits, n
<1>11. \A k \in 1..n : m.shards[k] = Row(k)
  BY <1>1, <1>6
<1>12. DOMAIN m.shards = 1..n
  BY <1>1, <1>6
<1>13. ASSUME direct, NEW k \in DOMAIN m.shards
      PROVE  m.shards[k].pid = <<s, k>> /\ m.shards[k].state = "running"
  <2>1. m.shards[k] = [pid |-> <<s, k>>, state |-> "running"]
    BY <1>11, <1>12, <1>13
  <2> QED
    BY <2>1
<1>14. ASSUME ~direct, NEW k \in DOMAIN m.shards
      PROVE  m.shards[k].state = "queued"
  <2>1. m.shards[k] = [pid |-> Nothing, state |-> "queued"]
    BY <1>11, <1>12, <1>14
  <2> QED
    BY <2>1
<1>15. direct => Queued(m) = {}
  BY <1>13 DEF Queued
<1>16. ~direct => Queued(m) # {}
  <2>1. 1 \in DOMAIN m.shards
    BY <1>3, <1>12, <1>2
  <2> QED
    BY <1>14, <2>1 DEF Queued
<1> HIDE DEF direct, Row
<1>17. \A k \in DOMAIN m.shards : m.shards[k].state # "completed"
  BY <1>13, <1>14
<1>18. Queued(m) # {} => Untouched(m)
  BY <1>1, <1>14, <1>15 DEF Untouched
<1> QED
  BY <1>1, <1>9, <1>10, <1>13, <1>16, <1>17, <1>18 DEF m

\* While nothing of the last start runs that the manifest has, nothing runs.
LEMMA IdleIsIdle ==
    ASSUME Base, Single, command = Nothing, ~Busy
    PROVE  /\ \A q \in Queue : queue[q].pc \in {"none", "over"}
           /\ \A w \in Worker : ~Live(work[w])
<1>1. ASSUME NEW q \in Queue PROVE queue[q].pc \in {"none", "over"}
  <2>1. SUFFICES ASSUME queue[q].pc \notin {"none", "over"} PROVE FALSE
    OBVIOUS
  <2>2. manifest # Nothing /\ manifest.queue = q /\ q # Nothing
    BY <2>1, RunningFacts, Constants DEF Single, OnlyQueue
  <2> QED
    BY <2>1, <2>2 DEF Busy, QueueRuns
<1>2. ASSUME NEW w \in Worker, Live(work[w]) PROVE FALSE
  <2>1. w[1] \in Queue /\ w # Nothing
    BY Pairs, Constants
  <2>2. w[2] \in DOMAIN manifest.shards /\ manifest.shards[w[2]].pid = w
    BY <1>1, <1>2, <2>1 DEF Single, OnlyWorker
  <2>3. manifest # Nothing
    <3>1. work[w] # NoWork
      BY <1>2 DEF Live, NoWork
    <3>2. w[1] <= starts /\ starts # 0
      <4>1. w[2] \in ShardId /\ w = <<w[1], w[2]>> /\ w[1] \in Nat \ {0} /\ starts \in Nat
        BY Pairs, Typed, Constants DEF Queue
      <4> QED
        BY <2>1, <3>1, <4>1 DEF Base, Unstarted
    <3> QED
      BY <3>2 DEF Base, Written
  <2> QED
    BY <1>2, <2>1, <2>2, <2>3 DEF Busy, Alive, Live
<1> QED
  BY <1>1, <1>2

LEMMA StartStep ==
    ASSUME ShardsIInv, NEW from, NEW force \in BOOLEAN, Start(from, force) PROVE ShardsIInv'
<1> DEFINE s == starts + 1
           m == NewManifest(from, s)
           fresh == {<<s, k>> : k \in DOMAIN m.shards}
           row == [NoQueue EXCEPT !.pc = "boot"]
           cmd == [start |-> s, copy |-> m]
<1>1. /\ Base /\ command = Nothing /\ s \in Queue /\ from \in Day /\ starts' = s
      /\ (Busy => force) /\ forced' = (forced \/ force) /\ manifest' = m
      /\ UNCHANGED <<recordedDays, storedDays, lost, deaths>>
  BY DEF ShardsIInv, Start
<1>2. \/ Queued(m) = {} /\ work' = Launched(m, fresh) /\ UNCHANGED <<command, queue>>
      \/ /\ Queued(m) # {} /\ queue' = [queue EXCEPT ![s] = row] /\ command' = cmd
         /\ UNCHANGED work
  BY DEF Start
<1>3. starts \in Nat /\ s \in Nat /\ s \in 0..MaxStarts /\ forced' \in BOOLEAN
      /\ s > starts
  <2>1. starts \in Nat /\ forced \in BOOLEAN
    BY <1>1, Typed
  <2> QED
    BY <1>1, <2>1, Constants DEF Queue
<1>4. /\ Splits(m) /\ m \in Manifest /\ m # Nothing /\ ~m.own /\ m.status = "none"
      /\ \A k \in DOMAIN m.shards : m.shards[k].state # "completed"
      /\ Queued(m) = {} => \A k \in DOMAIN m.shards : m.shards[k].pid = <<s, k>>
      /\ Queued(m) # {} => Untouched(m)
  BY <1>1, NewManifestIs
<1>5. DOMAIN m.shards \subseteq ShardId /\ \A k \in DOMAIN m.shards : RangeOf(m, k) \subseteq Day
  BY <1>4, SplitsFields, RangesPart
<1>6. /\ queue[s] = NoQueue /\ \A k \in ShardId : work[<<s, k>>] = NoWork
      /\ \A q \in Queue : q > s => q > starts
  BY <1>1, <1>3, Constants DEF Base, Unstarted, Queue
<1> HIDE DEF m
<1> HIDE DEF s
<1>7. Written(m, recordedDays, s) /\ AllDone(m, recordedDays)
  BY <1>4 DEF Written, Sure, AllDone
<1>8. Sound' => Sound /\ ~Busy
  BY <1>1, <1>3 DEF Sound
<1>9. Sound' => /\ \A q \in Queue : queue[q].pc \in {"none", "over"}
               /\ \A w \in Worker : ~Live(work[w])
  BY <1>1, <1>8, IdleIsIdle DEF ShardsIInv
<1>10. CASE /\ Queued(m) = {} /\ work' = Launched(m, fresh) /\ UNCHANGED <<command, queue>>
  <2>1. \A k \in DOMAIN m.shards : <<s, k>> \in Worker /\ <<s, k>>[2] = k
    BY <1>1, <1>5, Pairs
  <2>2. ASSUME NEW w \in Worker, w \in fresh
        PROVE  /\ w[1] = s /\ w[2] \in DOMAIN m.shards /\ w = <<s, w[2]>>
               /\ work'[w] = [pc |-> "boot", days |-> RangeOf(m, w[2]),
                              todo |-> {}, errors |-> 0]
               /\ work'[w] \in WorkRow /\ work'[w].pc = "boot"
               /\ work'[w].days = RangeOf(m, w[2])
    <3>1. PICK k \in DOMAIN m.shards : w = <<s, k>>
      BY <2>2
    <3>2. work'[w] = [pc |-> "boot", days |-> RangeOf(m, w[2]), todo |-> {}, errors |-> 0]
      BY <1>10, <2>2 DEF Launched
    <3>3. w[2] \in DOMAIN m.shards /\ RangeOf(m, w[2]) \in SUBSET Day /\ w[1] = s
          /\ w = <<s, w[2]>>
      BY <1>5, <3>1
    <3>4. 0 \in 0..MaxErrors
      BY Constants
    <3> QED
      BY <3>2, <3>3, <3>4 DEF WorkRow
  <2>3. \A w \in Worker : w \notin fresh => work'[w] = work[w]
    BY <1>10 DEF Launched
  <2>4. work' = [w \in Worker |-> work'[w]]
    BY <1>10 DEF Launched
  <2>5. \A w \in Worker : w[1] # s => w \notin fresh
    BY <2>1, <2>2
  <2> HIDE DEF fresh
  <2>6. \A w \in Worker : work'[w] \in WorkRow /\ Honest(work'[w], recordedDays, storedDays)
    <3>1. SUFFICES ASSUME NEW w \in Worker
                   PROVE  work'[w] \in WorkRow /\ Honest(work'[w], recordedDays, storedDays)
      OBVIOUS
    <3>2. CASE w \in fresh
      BY <2>2, <3>2 DEF Honest
    <3>3. CASE w \notin fresh
      BY <1>1, <2>3, <3>3, KeptByOthers
    <3> QED
      BY <3>2, <3>3
  <2>7. work' \in [Worker -> WorkRow]
    BY <2>4, <2>6
  <2>8. ASSUME NEW q \in Queue PROVE Keeps(q, queue[q], work', recordedDays)
    <3>1. CASE q = s
      BY <1>6, <3>1 DEF Keeps, NoQueue, At
    <3>2. CASE q # s
      <4>1. \A k \in ShardId : <<q, k>> \in Worker /\ <<q, k>>[1] = q
        BY Pairs
      <4>2. \A k \in ShardId : work'[<<q, k>>] = work[<<q, k>>]
        BY <2>3, <2>5, <3>2, <4>1
      <4>3. Keeps(q, queue[q], work, recordedDays) /\ queue[q].active \subseteq ShardId
        BY <1>1, KeptByOthers DEF QueueRow
      <4> QED
        BY <4>2, <4>3 DEF Keeps
    <3> QED
      BY <3>1, <3>2
  <2>9. Unstarted(s, queue, work')
    <3>1. SUFFICES ASSUME NEW q \in Queue, q > s
                   PROVE  queue[q] = NoQueue /\ \A k \in ShardId : work'[<<q, k>>] = NoWork
      BY DEF Unstarted
    <3>2. queue[q] = NoQueue /\ \A k \in ShardId : work[<<q, k>>] = NoWork
      BY <1>1, <1>6, <3>1 DEF Base, Unstarted
    <3>3. q # s
      BY <1>3, <3>1, Constants DEF Queue
    <3>4. \A k \in ShardId : work'[<<q, k>>] = work[<<q, k>>]
      BY <2>3, <2>5, <3>3, Pairs
    <3> QED
      BY <3>2, <3>4
  <2>10. Commands(command', s, queue)
    BY <1>1, <1>10 DEF Commands
  <2>11. ShardsTypeOK'
    BY <1>1, <1>3, <1>4, <1>10, <2>7, Typed, Retyped
  <2>12. Base'
    BY <1>1, <1>7, <1>10, <2>6, <2>8, <2>9, <2>10, <2>11 DEF Base
  <2>13. ASSUME Sound' PROVE Single'
    <3>1. \A q \in Queue : OnlyQueue(q, queue[q], command', m, s)
      BY <1>9, <2>13 DEF OnlyQueue
    <3>2. ASSUME NEW w \in Worker PROVE OnlyWorker(w, work'[w], command', m, s, queue)
      <4>1. CASE w \in fresh
        BY <1>4, <1>10, <2>2, <4>1 DEF OnlyWorker
      <4>2. CASE w \notin fresh
        BY <1>9, <2>3, <2>13, <4>2 DEF OnlyWorker
      <4> QED
        BY <4>1, <4>2
    <3>3. OnlyCommand(command', m, s)
      BY <1>1, <1>10 DEF OnlyCommand
    <3> QED
      BY <1>1, <1>7, <1>10, <3>1, <3>2, <3>3 DEF Single
  <2> QED
    BY <2>12, <2>13 DEF ShardsIInv
<1>11. CASE /\ Queued(m) # {} /\ queue' = [queue EXCEPT ![s] = row] /\ command' = cmd
            /\ UNCHANGED work
  <2>1. row \in QueueRow /\ row.pc = "boot" /\ row.active = {}
    BY DEF QueueRow, NoQueue
  <2> HIDE DEF row
  <2>2. cmd \in [start : Queue, copy : Manifest] /\ cmd.start = s /\ cmd.copy = m
        /\ cmd # Nothing
    <3>1. cmd \in [start : Queue, copy : Manifest]
      BY <1>1, <1>4
    <3> QED
      BY <3>1, Constants
  <2> HIDE DEF cmd
  <2>3. queue'[s] = row /\ \A q \in Queue : q # s => queue'[q] = queue[q]
    BY <1>1, <1>11, KeptByOthers
  <2>4. queue' \in [Queue -> QueueRow]
    BY <1>1, <1>11, <2>1, KeptByOthers
  <2>5. ASSUME NEW q \in Queue PROVE Keeps(q, queue'[q], work, recordedDays)
    <3>1. CASE q = s
      BY <1>6, <2>1, <2>3, <3>1 DEF Keeps, NoWork, Live, At
    <3>2. CASE q # s
      BY <1>1, <2>3, <3>2, KeptByOthers
    <3> QED
      BY <3>1, <3>2
  <2>6. Unstarted(s, queue', work)
    <3>1. \A q \in Queue : q > s => q # s
      BY <1>3, Constants DEF Queue
    <3> QED
      BY <1>1, <1>6, <2>3, <3>1 DEF Base, Unstarted
  <2>7. Commands(command', s, queue')
    BY <1>3, <1>4, <1>11, <2>1, <2>2, <2>3 DEF Commands
  <2>8. ShardsTypeOK'
    BY <1>1, <1>3, <1>4, <1>11, <2>2, <2>4, Typed, Retyped
  <2>9. Base'
    BY <1>1, <1>7, <1>11, <2>5, <2>6, <2>7, <2>8, KeptByOthers DEF Base
  <2>10. ASSUME Sound' PROVE Single'
    <3>1. ASSUME NEW q \in Queue PROVE OnlyQueue(q, queue'[q], command', m, s)
      <4>1. CASE q = s
        BY <1>4, <1>11, <2>1, <2>2, <2>3, <4>1 DEF OnlyQueue, At
      <4>2. CASE q # s
        BY <1>9, <2>3, <2>10, <4>2 DEF OnlyQueue
      <4> QED
        BY <4>1, <4>2
    <3>2. \A w \in Worker : OnlyWorker(w, work'[w], command', m, s, queue')
      BY <1>9, <1>11, <2>10 DEF OnlyWorker
    <3>3. OnlyCommand(command', m, s)
      BY <1>11, <2>2 DEF OnlyCommand, Alike
    <3> QED
      BY <1>1, <1>7, <3>1, <3>2, <3>3 DEF Single
  <2> QED
    BY <2>9, <2>10 DEF ShardsIInv
<1> QED
  BY <1>2, <1>10, <1>11

-----------------------------------------------------------------------------
LEMMA ShardsBegin == ShardsInit => ShardsIInv
<1> SUFFICES ASSUME ShardsInit PROVE ShardsIInv
  OBVIOUS
<1>1. NoQueue \in QueueRow /\ NoQueue.pc = "none" /\ NoQueue.active = {}
  BY DEF NoQueue, QueueRow
<1>2. NoWork \in WorkRow /\ NoWork.pc = "none"
  <2>1. 0 \in 0..MaxErrors
    BY Constants
  <2> QED
    BY <2>1 DEF NoWork, WorkRow
<1>3. \A q \in Queue : queue[q] = NoQueue
  BY DEF ShardsInit
<1>4. \A w \in Worker : work[w] = NoWork
  BY DEF ShardsInit
<1>5. ShardsTypeOK
  <2>1. 0 \in 0..MaxStarts /\ 0 \in 0..MaxFaults
    BY Constants
  <2>2. queue \in [Queue -> QueueRow] /\ work \in [Worker -> WorkRow]
    BY <1>1, <1>2 DEF ShardsInit
  <2> QED
    BY <2>1, <2>2 DEF ShardsInit, ShardsTypeOK, QueueRow, WorkRow
<1>6. Written(manifest, recordedDays, starts) /\ recordedDays \subseteq storedDays
      /\ Commands(command, starts, queue)
  BY DEF ShardsInit, Written, Commands
<1>7. \A w \in Worker : Honest(work[w], recordedDays, storedDays)
  BY <1>2, <1>4 DEF Honest
<1>8. \A q \in Queue : Keeps(q, queue[q], work, recordedDays)
  BY <1>1, <1>3 DEF Keeps, At
<1>9. Unstarted(starts, queue, work)
  BY <1>3, <1>4, Pairs DEF Unstarted
<1>10. Single
  BY <1>1, <1>2, <1>3, <1>4
     DEF ShardsInit, Single, OnlyQueue, OnlyWorker, OnlyCommand, AllDone, Live
<1> QED
  BY <1>5, <1>6, <1>7, <1>8, <1>9, <1>10 DEF ShardsIInv, Base

LEMMA ShardsContinue == ShardsIInv /\ [ShardsNext]_harvestVars => ShardsIInv'
<1> SUFFICES ASSUME ShardsIInv, [ShardsNext]_harvestVars PROVE ShardsIInv'
  OBVIOUS
<1>1. ASSUME NEW from \in Named \cup {NextMissing}, NEW force \in Forcing, Start(from, force)
      PROVE  ShardsIInv'
  <2>1. Forcing \subseteq BOOLEAN
    BY ShardsAssumption
  <2>2. force \in BOOLEAN
    BY <2>1, Zenon
  <2> QED
    BY <1>1, <2>2, StartStep, Zenon
<1>2. CASE StartRecords \/ Stop \/ StartDies
  BY <1>2, StartRecordsStep, StopStep, StartDiesStep
<1>3. ASSUME NEW q \in Queue,
             \/ QueueBoots(q) \/ QueueApplies(q) \/ QueueLaunches(q)
             \/ QueueWrites(q) \/ QueueEnds(q) \/ QueueStops(q) \/ QueueDies(q)
      PROVE  ShardsIInv'
  BY <1>3, QueueBootsStep, QueueAppliesStep, QueueLaunchesStep, QueueWritesStep,
     QueueEndsStep, QueueStopsStep, QueueDiesStep
<1>4. ASSUME NEW w \in Worker,
             \/ Boot(w) \/ Store(w) \/ RecordDay(w) \/ FailDay(w) \/ FailDatabase(w)
             \/ WorkerDies(w)
      PROVE  ShardsIInv'
  BY <1>4, BootStep, StoreStep, RecordStep, FailDayStep, FailDatabaseStep, WorkerDiesStep
<1>5. CASE UNCHANGED harvestVars
  <2>1. /\ manifest' = manifest /\ command' = command /\ starts' = starts /\ queue' = queue
        /\ work' = work /\ recordedDays' = recordedDays /\ storedDays' = storedDays
        /\ lost' = lost /\ forced' = forced /\ deaths' = deaths
    BY <1>5 DEF harvestVars
  <2>2. ShardsTypeOK'
    BY <2>1 DEF ShardsIInv, Base, ShardsTypeOK
  <2>3. Base'
    BY <2>1, <2>2 DEF ShardsIInv, Base
  <2>4. Sound' => Single'
    BY <2>1 DEF ShardsIInv, Sound, Single
  <2> QED
    BY <2>3, <2>4 DEF ShardsIInv
<1>6. CASE \E from \in Named \cup {NextMissing}, force \in Forcing : Start(from, force)
  BY <1>1, <1>6, Zenon
<1>7. CASE \E q \in Queue :
             \/ QueueBoots(q) \/ QueueApplies(q) \/ QueueLaunches(q)
             \/ QueueWrites(q) \/ QueueEnds(q) \/ QueueStops(q) \/ QueueDies(q)
  BY <1>3, <1>7, Zenon
<1>8. CASE \E w \in Worker :
             \/ Boot(w) \/ Store(w) \/ RecordDay(w) \/ FailDay(w) \/ FailDatabase(w)
             \/ WorkerDies(w)
  BY <1>4, <1>8, Zenon
<1> QED
  BY <1>2, <1>5, <1>6, <1>7, <1>8, Zenon DEF ShardsNext

LEMMA ShardsFollow == ShardsIInv => ShardsAreCovered
<1> SUFFICES ASSUME ShardsIInv PROVE ShardsAreCovered
  OBVIOUS
<1>1. CompletedIsCovered
  BY DEF ShardsIInv, Base, Written, Sure, Sound, Single, AllDone, CompletedIsCovered
<1>2. ASSUME Sound, NEW v \in Worker, NEW w \in Worker, v # w, Alive(v), Alive(w)
      PROVE  work[v].days \cap work[w].days = {}
  <2>1. Live(work[v]) /\ Live(work[w]) /\ Single
    BY <1>2 DEF Alive, Live, ShardsIInv
  <2>2. /\ v[1] = starts /\ v[2] \in DOMAIN manifest.shards
        /\ work[v].days = RangeOf(manifest, v[2])
        /\ w[1] = starts /\ w[2] \in DOMAIN manifest.shards
        /\ work[w].days = RangeOf(manifest, w[2])
    BY <2>1 DEF Single, OnlyWorker
  <2>3. v[2] # w[2]
    BY <1>2, <2>2, Pairs
  <2>4. manifest # Nothing
    <3>1. w[1] \in Nat \ {0}
      BY Pairs, Constants DEF Queue
    <3> QED
      BY <2>2, <3>1 DEF ShardsIInv, Base, Written
  <2>5. Splits(manifest)
    BY <2>4 DEF ShardsIInv, Base, Written
  <2> QED
    BY <2>2, <2>3, <2>5, RangesPart
<1>3. DisjointWorkers
  BY <1>2 DEF DisjointWorkers, Sound
<1> QED
  BY <1>1, <1>3 DEF ShardsAreCovered

(* The manifest and its copies, the coordinators and the workers keep      *)
(* their types: every copy that a process writes splits its range.         *)
THEOREM ShardsTypeCorrect == ShardsSpec => []ShardsTypeOK
<1>1. ShardsIInv => ShardsTypeOK
  BY DEF ShardsIInv, Base
<1> QED
  BY <1>1, ShardsBegin, ShardsContinue, PTL DEF ShardsSpec

(* A shard that the manifest has as completed is recorded and stored, and  *)
(* so is the whole range when it is completed; and no two workers fetch    *)
(* the same day; for any archive, number of shards, workers and starts,    *)
(* whatever is stopped and fails, as long as no coordinator and no start   *)
(* dies or is late, and nothing is forced.                                 *)
THEOREM ShardsStayCovered == ShardsSpec => []ShardsAreCovered
BY ShardsBegin, ShardsContinue, ShardsFollow, PTL DEF ShardsSpec

-----------------------------------------------------------------------------
(* The import of race days.                                                *)

RunRow == [pc : {"off", "boot", "read", "record"}, todo : SUBSET FileDay,
           errors : 0..MaxDayErrors]

\* An importer that reads has a day to read, and has stored what it records.
RunFits(r, files, kept) ==
    /\ r \in RunRow /\ r.todo \subseteq files
    /\ r.pc \in {"read", "record"} => r.todo # {} /\ r.errors < MaxDayErrors
    /\ r.pc = "record" => FirstDay(r.todo) \in kept

LoopRow == [pc : {"off", "poll", "probe", "launch", "write"}, next : ImportShard,
            waves : 0..MaxWaves, shards : SUBSET ImportShard, last : 0..ImportShards]

LoopFits(l) ==
    /\ l \in LoopRow
    /\ l.pc \in {"probe", "launch", "write"} =>
        l.last \in ImportShard /\ (MaxWaves = 0 \/ l.waves < MaxWaves)

\* The shards that are about to start have no importer, and there is room for them.
Engaged(rs) == {s \in ImportShard : rs[s].pc # "off"}
RoomFor(l, rs) ==
    l.pc \in {"probe", "launch"} =>
        /\ l.shards \cap Engaged(rs) = {}
        /\ Cardinality(l.shards) + Cardinality(Engaged(rs)) <= MaxActive

ArchiveIInv ==
    /\ raw \subseteq FileDay /\ broken \subseteq FileDay /\ unsharded \in BOOLEAN
    /\ archived \subseteq stored /\ stored \subseteq raw \ broken
    /\ runs \in [ImportShard -> RunRow]
    /\ \A s \in ImportShard : RunFits(runs[s], raw, stored)
    /\ LoopFits(loop) /\ RoomFor(loop, runs) /\ Cardinality(Engaged(runs)) <= MaxActive
    /\ lastShard \in 0..ImportShards
    /\ archiveFaults \in 0..MaxArchiveFaults

LEMMA ArchiveNumbers ==
    /\ ImportShards \in Nat \ {0} /\ MaxDayErrors \in Nat \ {0} /\ MaxActive \in Nat
    /\ MaxWaves \in Nat /\ MaxArchiveFaults \in Nat
    /\ FileDay \subseteq Nat /\ ImportShard \subseteq Nat /\ 1 \in ImportShard
    /\ ImportShard \subseteq 0..ImportShards /\ 0 \in 0..ImportShards
    /\ 0 \in 0..MaxDayErrors /\ 0 \in 0..MaxArchiveFaults /\ 0 \in 0..MaxWaves
  BY ArchiveAssumption DEF FileDay, ImportShard

LEMMA ShardsCount ==
    ASSUME NEW S \in SUBSET ImportShard
    PROVE  IsFiniteSet(S) /\ Cardinality(S) \in Nat
<1>1. IsFiniteSet(ImportShard)
  BY ArchiveNumbers, FS_Interval DEF ImportShard
<1> QED
  BY <1>1, FS_Subset, FS_CardinalityType

LEMMA FirstDayIs ==
    ASSUME NEW S \in SUBSET FileDay, S # {}
    PROVE  FirstDay(S) \in S
<1>1. \E d \in S : \A e \in S : d <= e
  BY LeastItem, ArchiveNumbers
<1> QED
  BY <1>1 DEF FirstDay

(* The turns of the shards are numbers, and no two are the same.           *)
LEMMA TurnsDiffer ==
    ASSUME NEW next \in ImportShard, NEW s \in ImportShard
    PROVE  /\ TurnOf(s, next) \in 0..(ImportShards - 1)
           /\ \A t \in ImportShard : TurnOf(s, next) = TurnOf(t, next) => s = t
  BY ArchiveNumbers DEF TurnOf, ImportShard

LEMMA LastOfIs ==
    ASSUME NEW next \in ImportShard, NEW S \in SUBSET ImportShard, S # {}
    PROVE  LastOf(S, next) \in S
<1> DEFINE T == {ImportShards - 1 - TurnOf(s, next) : s \in S}
<1>1. T \subseteq Nat /\ T # {}
  <2>1. \A s \in S : ImportShards - 1 - TurnOf(s, next) \in Nat
    BY TurnsDiffer, ArchiveNumbers
  <2> QED
    BY <2>1
<1>2. PICK m \in T : \A u \in T : m <= u
  <2> HIDE DEF T
  <2> QED
    BY <1>1, LeastItem
<1>3. PICK s \in S : m = ImportShards - 1 - TurnOf(s, next)
  OBVIOUS
<1>4. \A t \in S : TurnOf(t, next) <= TurnOf(s, next)
  <2> TAKE t \in S
  <2>1. m <= ImportShards - 1 - TurnOf(t, next)
    BY <1>2
  <2> QED
    BY <1>3, <2>1, TurnsDiffer, ArchiveNumbers
<1> QED
  BY <1>4 DEF LastOf

(* Of the idle shards, no more are started than may still run.             *)
LEMMA MissingFit ==
    ASSUME ArchiveIInv, NEW next \in ImportShard
    PROVE  /\ MissingShards(next) \subseteq ImportShard \ Active
           /\ Cardinality(MissingShards(next)) + Cardinality(Active) <= MaxActive
<1> DEFINE idle == ImportShard \ Active
           Before(s) == {t \in idle : TurnOf(t, next) < TurnOf(s, next)}
           rank == [s \in MissingShards(next) |-> Cardinality(Before(s))]
           k == MaxActive - Cardinality(Active)
<1>1. Active = Engaged(runs) /\ k \in Nat /\ Capacity = k /\ Cardinality(Active) \in Nat
  <2>1. Active = Engaged(runs)
    BY DEF Active, Engaged
  <2>2. Cardinality(Active) \in Nat /\ Cardinality(Active) <= MaxActive
    BY <2>1, ShardsCount DEF ArchiveIInv, Engaged
  <2> QED
    BY <2>1, <2>2, ArchiveNumbers DEF Capacity
<1>2. MissingShards(next) = {s \in idle : Cardinality(Before(s)) < k}
  BY <1>1 DEF MissingShards
<1>3. \A s \in idle : IsFiniteSet(Before(s)) /\ Cardinality(Before(s)) \in Nat
  BY ShardsCount
<1>4. rank \in [MissingShards(next) -> 0..(k - 1)]
  BY <1>1, <1>2, <1>3
<1>5. ASSUME NEW s \in idle, NEW t \in idle, TurnOf(s, next) < TurnOf(t, next)
      PROVE  Cardinality(Before(s)) # Cardinality(Before(t))
  <2>1. \A u \in idle : TurnOf(u, next) \in Int
    BY TurnsDiffer, ArchiveNumbers
  <2>2. Before(s) \subseteq Before(t)
    BY <1>5, <2>1
  <2>3. s \in Before(t) /\ s \notin Before(s)
    BY <1>5, <2>1
  <2> QED
    BY <1>3, <2>2, <2>3, FS_Subset
<1>6. ASSUME NEW s \in MissingShards(next), NEW t \in MissingShards(next), rank[s] = rank[t]
      PROVE  s = t
  <2>1. s \in idle /\ t \in idle
    BY <1>2
  <2>2. TurnOf(s, next) \in Int /\ TurnOf(t, next) \in Int
    BY <2>1, TurnsDiffer, ArchiveNumbers
  <2>3. Cardinality(Before(s)) = Cardinality(Before(t))
    BY <1>6
  <2>4. TurnOf(s, next) = TurnOf(t, next)
    BY <1>5, <2>1, <2>2, <2>3
  <2> QED
    BY <2>1, <2>4, TurnsDiffer
<1> HIDE DEF rank, k, idle, Before
<1>7. rank \in Injection(MissingShards(next), 0..(k - 1))
  BY <1>4, <1>6 DEF Injection, IsInjective
<1>8. IsFiniteSet(0..(k - 1)) /\ Cardinality(0..(k - 1)) = k
  <2>1. k - 1 \in Int /\ 0 \in Int
    BY <1>1
  <2>2. /\ IsFiniteSet(0..(k - 1))
        /\ Cardinality(0..(k - 1)) = IF 0 > k - 1 THEN 0 ELSE k - 1 - 0 + 1
    BY <2>1, FS_Interval
  <2> QED
    BY <1>1, <2>2
<1>9. Cardinality(MissingShards(next)) <= k
  BY <1>7, <1>8, FS_Injection
<1> QED
  BY <1>1, <1>2, <1>9, ShardsCount, ArchiveNumbers DEF k, idle

LEMMA ArchiveInitFits == ArchiveInit => ArchiveIInv
<1> SUFFICES ASSUME ArchiveInit PROVE ArchiveIInv
  OBVIOUS
<1>2. Stopped \in RunRow /\ RunFits(Stopped, raw, stored)
  BY ArchiveNumbers DEF Stopped, RunRow, RunFits
<1>3. LoopFits(NoLoop) /\ RoomFor(NoLoop, runs)
  BY ArchiveNumbers DEF NoLoop, LoopFits, LoopRow, RoomFor
<1>4. Engaged(runs) = {}
  BY DEF ArchiveInit, Engaged, Stopped
<1>5. Cardinality(Engaged(runs)) <= MaxActive
  BY <1>4, FS_EmptySet, ArchiveNumbers
<1> QED
  BY <1>2, <1>3, <1>5, ArchiveNumbers DEF ArchiveInit, ArchiveIInv

(* A step of the supervisor's own.                                         *)
LEMMA LoopMoves ==
    ASSUME ArchiveIInv, UNCHANGED <<raw, broken, stored, archived, runs, unsharded>>,
           LoopFits(loop)', RoomFor(loop, runs)',
           lastShard' \in 0..ImportShards, archiveFaults' \in 0..MaxArchiveFaults
    PROVE  ArchiveIInv'
  BY DEF ArchiveIInv

LEMMA ShardAfterIs ==
    ASSUME NEW s \in 0..ImportShards PROVE ShardAfter(s) \in ImportShard
  BY ArchiveNumbers DEF ShardAfter, ImportShard

LEMMA LoopMovesOn ==
    ASSUME ArchiveIInv,
           LoopStarts \/ LoopPolls \/ LoopProbes \/ LoopWrites \/ LoopDies
    PROVE  ArchiveIInv'
<1>1. LoopFits(NoLoop) /\ \A rs : RoomFor(NoLoop, rs)
  BY ArchiveNumbers DEF NoLoop, LoopFits, LoopRow, RoomFor, ImportShard
<1>2. loop \in LoopRow /\ lastShard \in 0..ImportShards /\ archiveFaults \in 0..MaxArchiveFaults
  BY DEF ArchiveIInv, LoopFits
<1>3. CASE loop' = NoLoop /\ UNCHANGED lastShard /\ UNCHANGED <<raw, broken, stored, archived, runs, unsharded>>
            /\ archiveFaults' \in 0..MaxArchiveFaults
  BY <1>1, <1>2, <1>3, LoopMoves
<1>4. CASE LoopStarts
  <2>1. /\ loop'.pc = "poll" /\ loop'.next = ShardAfter(lastShard) /\ loop'.waves = 0
        /\ loop'.shards = {} /\ loop'.last = 0
    BY <1>4 DEF LoopStarts, NoLoop
  <2>2. loop' \in LoopRow
    <3> DEFINE next == ShardAfter(lastShard)
    <3>1. next \in ImportShard
      BY <1>2, ShardAfterIs
    <3>2. loop' = [NoLoop EXCEPT !.pc = "poll", !.next = next]
      BY <1>4 DEF LoopStarts
    <3> HIDE DEF next
    <3> QED
      BY <3>1, <3>2, ArchiveNumbers DEF NoLoop, LoopRow
  <2>3. LoopFits(loop)' /\ RoomFor(loop, runs)'
    BY <2>1, <2>2 DEF LoopFits, RoomFor
  <2> QED
    BY <1>2, <1>4, <2>3, LoopMoves DEF LoopStarts
<1>5. ASSUME loop.pc = "poll", ~(MaxWaves > 0 /\ loop.waves >= MaxWaves),
             MissingShards(loop.next) # {},
             loop' = [loop EXCEPT !.pc = "probe", !.shards = MissingShards(loop.next),
                    !.last = LastOf(MissingShards(loop.next), loop.next)],
             UNCHANGED <<raw, broken, stored, archived, runs, unsharded, lastShard, archiveFaults>>
      PROVE  ArchiveIInv'
  <2> DEFINE S == MissingShards(loop.next)
  <2>1. loop.next \in ImportShard /\ loop.waves \in 0..MaxWaves
    BY <1>2 DEF LoopRow
  <2>2. /\ S \subseteq ImportShard \ Active
        /\ Cardinality(S) + Cardinality(Active) <= MaxActive
    BY <2>1, MissingFit
  <2>3. LastOf(S, loop.next) \in S
    BY <1>5, <2>1, <2>2, LastOfIs
  <2>4. /\ loop'.pc = "probe" /\ loop'.shards = S /\ loop'.waves = loop.waves
        /\ loop'.last = LastOf(S, loop.next)
    BY <1>2, <1>5 DEF LoopRow
  <2> HIDE DEF S
  <2>5. loop' \in LoopRow
    <3>1. S \in SUBSET ImportShard /\ LastOf(S, loop.next) \in 0..ImportShards
      BY <2>2, <2>3, ArchiveNumbers
    <3> QED
      BY <1>2, <1>5, <3>1 DEF LoopRow, S
  <2>6. LoopFits(loop)'
    BY <1>5, <2>1, <2>2, <2>3, <2>4, <2>5, ArchiveNumbers DEF LoopFits
  <2>7. RoomFor(loop, runs)'
    <3>1. Active = Engaged(runs)
      BY DEF Active, Engaged
    <3> QED
      BY <1>5, <2>2, <2>4, <3>1 DEF RoomFor
  <2> QED
    BY <1>2, <1>5, <2>6, <2>7, LoopMoves
<1>6. ASSUME loop.pc = "probe", loop' = [loop EXCEPT !.pc = "launch"],
             UNCHANGED <<raw, broken, stored, archived, runs, unsharded, lastShard, archiveFaults>>
      PROVE  ArchiveIInv'
  <2>1. /\ loop'.pc = "launch" /\ loop'.shards = loop.shards /\ loop'.waves = loop.waves
        /\ loop'.last = loop.last /\ loop' \in LoopRow
    BY <1>2, <1>6 DEF LoopRow
  <2>2. LoopFits(loop)' /\ RoomFor(loop, runs)'
    BY <1>6, <2>1 DEF ArchiveIInv, LoopFits, RoomFor
  <2> QED
    BY <1>2, <1>6, <2>2, LoopMoves
<1>7. CASE LoopWrites
  <2>1. loop.last \in ImportShard /\ (MaxWaves = 0 \/ loop.waves < MaxWaves) /\ loop.waves \in 0..MaxWaves
    BY <1>7 DEF LoopWrites, ArchiveIInv, LoopFits, LoopRow
  <2> DEFINE waves == IF MaxWaves = 0 THEN 0 ELSE loop.waves + 1
  <2>2. waves \in 0..MaxWaves /\ ShardAfter(loop.last) \in ImportShard /\ loop.last \in 0..ImportShards
    BY <2>1, ArchiveNumbers, ShardAfterIs DEF ImportShard
  <2>3. loop' = [NoLoop EXCEPT !.pc = "poll", !.next = ShardAfter(loop.last), !.waves = waves]
    BY <1>7 DEF LoopWrites
  <2> HIDE DEF waves
  <2> DEFINE next == ShardAfter(loop.last)
  <2>6. next \in ImportShard /\ loop' = [NoLoop EXCEPT !.pc = "poll", !.next = next, !.waves = waves]
    BY <2>2, <2>3
  <2> HIDE DEF next
  <2>4. loop'.pc = "poll" /\ loop' \in LoopRow
    BY <2>2, <2>6, ArchiveNumbers DEF NoLoop, LoopRow
  <2>5. LoopFits(loop)' /\ RoomFor(loop, runs)'
    BY <2>4 DEF LoopFits, RoomFor
  <2> QED
    BY <1>2, <1>7, <2>2, <2>5, LoopMoves DEF LoopWrites
<1>8. CASE LoopDies
  <2>1. archiveFaults' \in 0..MaxArchiveFaults
    BY <1>2, <1>8, ArchiveNumbers DEF LoopDies
  <2> QED
    BY <1>3, <1>8, <2>1 DEF LoopDies
<1> QED
  BY <1>2, <1>3, <1>4, <1>5, <1>6, <1>7, <1>8 DEF LoopPolls, LoopProbes

(* The supervisor starts an importer of a shard that has none.             *)
LEMMA LaunchStep == ASSUME ArchiveIInv, LoopLaunches PROVE ArchiveIInv'
<1>1. PICK s \in loop.shards :
        /\ runs' = [runs EXCEPT ![s] = [Stopped EXCEPT !.pc = "boot"]]
        /\ loop' = [loop EXCEPT !.shards = @ \ {s},
                                !.pc = IF loop.shards = {s} THEN "write" ELSE "launch"]
  BY DEF LoopLaunches
<1>2. loop \in LoopRow /\ loop.pc = "launch" /\ s \in ImportShard /\ loop.shards \subseteq ImportShard
  BY DEF LoopLaunches, ArchiveIInv, LoopFits, LoopRow
<1>3. /\ loop'.pc \in {"launch", "write"} /\ loop'.shards = loop.shards \ {s}
      /\ loop'.waves = loop.waves /\ loop'.last = loop.last /\ loop' \in LoopRow
  BY <1>1, <1>2 DEF LoopRow
<1>4. LoopFits(loop)'
  BY <1>2, <1>3 DEF ArchiveIInv, LoopFits
<1> DEFINE r == [Stopped EXCEPT !.pc = "boot"]
<1>5. r.pc = "boot" /\ r.todo = {} /\ r \in RunRow
  BY ArchiveNumbers DEF Stopped, RunRow
<1>6. runs \in [ImportShard -> RunRow] /\ runs' = [runs EXCEPT ![s] = r]
  BY <1>1 DEF ArchiveIInv
<1> HIDE DEF r
<1>7. /\ runs' \in [ImportShard -> RunRow]
      /\ \A t \in ImportShard : RunFits(runs'[t], raw, stored)
  BY <1>2, <1>5, <1>6 DEF ArchiveIInv, RunFits
<1>8. Engaged(runs)' = Engaged(runs) \cup {s}
  BY <1>2, <1>5, <1>6 DEF Engaged
<1>9. /\ loop.shards \cap Engaged(runs) = {}
      /\ Cardinality(loop.shards) + Cardinality(Engaged(runs)) <= MaxActive
  BY <1>2 DEF ArchiveIInv, RoomFor
<1>10. Engaged(runs) \subseteq ImportShard
  BY DEF Engaged
<1>11. /\ Cardinality(Engaged(runs)') = Cardinality(Engaged(runs)) + 1
       /\ Cardinality(loop'.shards) = Cardinality(loop.shards) - 1
       /\ Cardinality(Engaged(runs)) \in Nat /\ Cardinality(loop.shards) \in Nat
       /\ Cardinality(loop'.shards) \in Nat
  BY <1>2, <1>3, <1>8, <1>9, <1>10, ShardsCount, FS_AddElement, FS_RemoveElement
<1>12. Cardinality(Engaged(runs)') <= MaxActive
  BY <1>9, <1>11, ArchiveNumbers
<1>13. RoomFor(loop, runs)'
  BY <1>3, <1>8, <1>9, <1>11, ArchiveNumbers DEF RoomFor
<1> QED
  BY <1>4, <1>7, <1>12, <1>13 DEF LoopLaunches, ArchiveIInv

(* A step of an importer.                                                  *)
LEMMA RunMoves ==
    ASSUME ArchiveIInv, NEW s \in ImportShard, runs[s].pc # "off",
           NEW pc \in {"read", "record"}, NEW todo \in SUBSET raw,
           NEW errors \in 0..MaxDayErrors, RunBecomes(s, pc, todo, errors),
           todo # {} => errors < MaxDayErrors,
           pc = "record" => todo # {} /\ FirstDay(todo) \in stored',
           archiveFaults' \in 0..MaxArchiveFaults,
           stored \subseteq stored', archived' \subseteq stored', stored' \subseteq raw \ broken
    PROVE  ArchiveIInv'
<1> DEFINE r == IF pc = "read" /\ todo = {} THEN Stopped
                ELSE [pc |-> pc, todo |-> todo, errors |-> errors]
<1>1. runs \in [ImportShard -> RunRow] /\ runs' = [runs EXCEPT ![s] = r]
      /\ UNCHANGED <<raw, broken, unsharded, loop, lastShard>>
  BY DEF ArchiveIInv, RunBecomes
<1>2. todo \subseteq FileDay
  BY DEF ArchiveIInv
<1>3. RunFits(r, raw, stored')
  <2>1. CASE pc = "read" /\ todo = {}
    BY <2>1, ArchiveNumbers DEF Stopped, RunRow, RunFits
  <2>2. CASE ~(pc = "read" /\ todo = {})
    BY <1>2, <2>2 DEF RunRow, RunFits
  <2> QED
    BY <2>1, <2>2
<1> HIDE DEF r
<1>4. /\ runs' \in [ImportShard -> RunRow]
      /\ \A t \in ImportShard : RunFits(runs'[t], raw, stored')
  <2>1. r \in RunRow
    BY <1>3 DEF RunFits
  <2>2. \A t \in ImportShard : RunFits(runs[t], raw, stored')
    BY DEF ArchiveIInv, RunFits
  <2> QED
    BY <1>1, <1>3, <2>1, <2>2
<1>5. Engaged(runs)' \subseteq Engaged(runs) /\ Engaged(runs) \subseteq ImportShard
  BY <1>1 DEF Engaged
<1>6. /\ Cardinality(Engaged(runs)') <= Cardinality(Engaged(runs))
      /\ Cardinality(Engaged(runs)') \in Nat /\ Cardinality(Engaged(runs)) \in Nat
  BY <1>5, ShardsCount, FS_Subset
<1>7. Cardinality(Engaged(runs)') <= MaxActive
  BY <1>6, ArchiveNumbers DEF ArchiveIInv
<1>8. RoomFor(loop, runs)'
  <2>1. loop.shards \subseteq ImportShard
    BY DEF ArchiveIInv, LoopFits, LoopRow
  <2>2. Cardinality(loop.shards) \in Nat
    BY <2>1, ShardsCount
  <2> QED
    BY <1>1, <1>5, <1>6, <2>2, ArchiveNumbers DEF ArchiveIInv, RoomFor, Engaged
<1> QED
  BY <1>1, <1>4, <1>7, <1>8 DEF ArchiveIInv

LEMMA SkipMoves ==
    ASSUME ArchiveIInv, NEW s \in ImportShard, runs[s].pc \in {"read", "record"},
           Skips(s, FirstDay(runs[s].todo)), UNCHANGED <<stored, archived>>,
           archiveFaults' \in 0..MaxArchiveFaults
    PROVE  ArchiveIInv'
<1> DEFINE errors == runs[s].errors + 1
           todo == IF errors < MaxDayErrors THEN runs[s].todo \ {FirstDay(runs[s].todo)} ELSE {}
<1>1. /\ runs[s].errors \in 0..MaxDayErrors /\ runs[s].errors < MaxDayErrors
      /\ runs[s].todo \subseteq raw
  BY DEF ArchiveIInv, RunFits, RunRow
<1>2. errors \in 0..MaxDayErrors /\ todo \in SUBSET raw /\ (todo # {} => errors < MaxDayErrors)
  BY <1>1, ArchiveNumbers
<1>3. RunBecomes(s, "read", todo, errors)
  BY DEF Skips
<1> HIDE DEF errors, todo
<1> QED
  BY <1>2, <1>3, RunMoves DEF ArchiveIInv

LEMMA RunStep ==
    ASSUME ArchiveIInv, NEW s \in ImportShard,
           ImporterStep(s) \/ SkipFailedDay(s) \/ ImporterDies(s)
    PROVE  ArchiveIInv'
<1>1. /\ RunFits(runs[s], raw, stored) /\ runs[s] \in RunRow
      /\ archived \subseteq stored /\ stored \subseteq raw \ broken
      /\ archiveFaults \in 0..MaxArchiveFaults
  BY DEF ArchiveIInv
<1>2. runs[s].pc \in {"read", "record"} =>
        /\ FirstDay(runs[s].todo) \in runs[s].todo
        /\ runs[s].todo \in SUBSET raw /\ runs[s].errors \in 0..MaxDayErrors
        /\ runs[s].errors < MaxDayErrors
  BY <1>1, FirstDayIs DEF RunFits, RunRow
<1>3. CASE ImporterBoots(s)
  <2> DEFINE todo == {d \in raw \ archived : ShardOfDay(d) = s}
  <2>1. todo \in SUBSET raw /\ 0 \in 0..MaxDayErrors /\ 0 < MaxDayErrors
    BY ArchiveNumbers
  <2>2. RunBecomes(s, "read", todo, 0) /\ runs[s].pc # "off" /\ UNCHANGED <<stored, archived, archiveFaults>>
    BY <1>3 DEF ImporterBoots
  <2> HIDE DEF todo
  <2> QED
    BY <1>1, <2>1, <2>2, RunMoves
<1>4. CASE StoreDay(s)
  <2> DEFINE d == FirstDay(runs[s].todo)
  <2>1. /\ runs[s].pc = "read" /\ d \notin broken /\ stored' = stored \cup {d}
        /\ RunBecomes(s, "record", runs[s].todo, runs[s].errors)
        /\ UNCHANGED <<archived, archiveFaults>>
    BY <1>4 DEF StoreDay
  <2>2. d \in runs[s].todo /\ runs[s].todo \in SUBSET raw
    BY <1>2, <2>1
  <2> HIDE DEF d
  <2>3. /\ stored \subseteq stored' /\ archived' \subseteq stored' /\ stored' \subseteq raw \ broken
        /\ d \in stored' /\ runs[s].todo # {}
    BY <1>1, <2>1, <2>2
  <2>4. FirstDay(runs[s].todo) \in stored'
    BY <2>3 DEF d
  <2> QED
    BY <1>1, <1>2, <2>1, <2>3, <2>4, RunMoves
<1>5. CASE RecordFile(s)
  <2> DEFINE d == FirstDay(runs[s].todo)
  <2>1. /\ runs[s].pc = "record" /\ archived' = archived \cup {d}
        /\ RunBecomes(s, "read", runs[s].todo \ {d}, runs[s].errors)
        /\ UNCHANGED <<stored, archiveFaults>>
    BY <1>5 DEF RecordFile
  <2>2. d \in stored /\ runs[s].todo \ {d} \in SUBSET raw
    BY <1>1, <1>2, <2>1 DEF RunFits
  <2> HIDE DEF d
  <2> QED
    BY <1>1, <1>2, <2>1, <2>2, RunMoves
<1>6. CASE SkipBrokenDay(s)
  BY <1>1, <1>6, SkipMoves DEF SkipBrokenDay
<1>7. CASE SkipFailedDay(s)
  <2>1. archiveFaults' \in 0..MaxArchiveFaults
    BY <1>1, <1>7, ArchiveNumbers DEF SkipFailedDay
  <2> QED
    BY <1>7, <2>1, SkipMoves DEF SkipFailedDay
<1>8. CASE ImporterDies(s)
  <2>1. archiveFaults' \in 0..MaxArchiveFaults
    BY <1>1, <1>8, ArchiveNumbers DEF ImporterDies
  <2>2. {} \in SUBSET raw /\ 0 \in 0..MaxDayErrors
    BY ArchiveNumbers
  <2> QED
    BY <1>1, <1>8, <2>1, <2>2, RunMoves DEF ImporterDies
<1> QED
  BY <1>3, <1>4, <1>5, <1>6, <1>7, <1>8 DEF ImporterStep

LEMMA ArchiveNextFits == ArchiveIInv /\ [ArchiveNext]_archiveVars => ArchiveIInv'
<1> SUFFICES ASSUME ArchiveIInv, [ArchiveNext]_archiveVars PROVE ArchiveIInv'
  OBVIOUS
<1>1. CASE LoopStep \/ LoopDies
  BY <1>1, LoopMovesOn, LaunchStep DEF LoopStep
<1>2. ASSUME NEW s \in ImportShard, ImporterStep(s) \/ SkipFailedDay(s) \/ ImporterDies(s)
      PROVE  ArchiveIInv'
  BY <1>2, RunStep
<1>3. ASSUME NEW d \in FileDay, Arrives(d)
      PROVE  ArchiveIInv'
  <2>1. /\ raw' = raw \cup {d}
        /\ UNCHANGED <<broken, stored, archived, runs, unsharded, loop, lastShard, archiveFaults>>
    BY <1>3 DEF Arrives
  <2>2. raw' \subseteq FileDay /\ stored' \subseteq raw' \ broken' /\ archived' \subseteq stored'
    BY <2>1 DEF ArchiveIInv
  <2>3. \A s \in ImportShard : RunFits(runs[s], raw', stored)
    BY <2>1 DEF ArchiveIInv, RunFits
  <2> QED
    BY <2>1, <2>2, <2>3 DEF ArchiveIInv
<1>4. CASE UnshardedEnds
  <2>1. PICK days \in SUBSET (raw \ broken) :
            stored' = stored \cup days /\ archived' = archived \cup days
    BY <1>4 DEF UnshardedEnds
  <2>2. unsharded' \in BOOLEAN /\ UNCHANGED <<raw, broken, runs, loop, lastShard, archiveFaults>>
    BY <1>4 DEF UnshardedEnds
  <2>3. archived' \subseteq stored' /\ stored' \subseteq raw \ broken /\ stored \subseteq stored'
    BY <2>1 DEF ArchiveIInv
  <2>4. \A s \in ImportShard : RunFits(runs[s], raw, stored')
    BY <2>3 DEF ArchiveIInv, RunFits
  <2> QED
    BY <2>2, <2>3, <2>4 DEF ArchiveIInv
<1>5. CASE UNCHANGED archiveVars
  BY <1>5 DEF archiveVars, ArchiveIInv
<1> QED
  BY <1>1, <1>2, <1>3, <1>4, <1>5 DEF ArchiveNext

LEMMA ArchiveAlwaysFits == ArchiveSpec => []ArchiveIInv
  BY ArchiveInitFits, ArchiveNextFits, PTL DEF ArchiveSpec

(* The variables of the import of race days keep their types.              *)
THEOREM ArchiveTypeCorrect == ArchiveSpec => []ArchiveTypeOK
<1>1. ArchiveIInv => ArchiveTypeOK
  BY DEF ArchiveIInv, ArchiveTypeOK, LoopFits, LoopRow, RunRow
<1> QED
  BY <1>1, ArchiveAlwaysFits, PTL

(* No more importers run than --max-active-shards, and a shard with an     *)
(* importer gets no second one, although the supervisor only looks before  *)
(* it starts a wave, and one that died leaves its importers behind; and    *)
(* what a progress file says was imported is in the table, from a raw file *)
(* that could be parsed.                                                   *)
THEOREM ImportersAreFew ==
    ArchiveSpec => []( /\ Cardinality(Active) <= MaxActive
                       /\ loop.pc = "launch" => loop.shards \cap Active = {}
                       /\ archived \subseteq stored /\ stored \subseteq raw \ broken )
<1>1. ArchiveIInv => /\ Cardinality(Active) <= MaxActive
                     /\ loop.pc = "launch" => loop.shards \cap Active = {}
                     /\ archived \subseteq stored /\ stored \subseteq raw \ broken
  BY DEF ArchiveIInv, Active, Engaged, RoomFor
<1> QED
  BY <1>1, ArchiveAlwaysFits, PTL

-----------------------------------------------------------------------------
(* The archive of profile pages.                                           *)

PageShard == {Whole} \cup WaveShard

PageRow == [pc : {"none", "boot", "fetch", "write", "record", "exit 0", "exit 1", "killed"},
            todo : SUBSET Hound, errors : 0..MaxPageErrors]

\* A worker that is at a page has a dog, whose page is not gone, and what it
\* records has a file.
PageFits(r, files) ==
    /\ r \in PageRow
    /\ (r.pc = "boot" => r.errors = 0)
    /\ r.pc \in {"fetch", "write", "record"} => r.errors < MaxPageErrors
    /\ r.pc = "write" => r.todo # {} /\ LeastDog(r.todo) \notin Gone
    /\ r.pc = "record" => r.todo # {} /\ files[LeastDog(r.todo)] # "none"

FilesFit(files, records) ==
    /\ files \in [Hound -> {"none", "torn", "whole"}]
    /\ records \in [PageShard -> SUBSET Hound]
    /\ \A s \in PageShard : \A d \in records[s] : files[d] # "none"
    /\ \A d \in Hound \cap Gone : files[d] = "none"

PagesIInv ==
    /\ listable \in BOOLEAN /\ sharded \in BOOLEAN /\ seen \subseteq Hound
    /\ FilesFit(file, progress) /\ cut \subseteq PageShard
    /\ process \in [PageWorker -> PageRow]
    /\ \A w \in PageWorker : PageFits(process[w], file)
    /\ waveFile \in Wave \cup {NoWave}
    /\ starter \in [wave : Wave, supervised : BOOLEAN] \cup {NoWave}
    /\ keeper \in {"check", "probe", "start", "wait", "done", "failed"}
    /\ mishaps \in 0..MaxPageFaults

LEMMA PageNumbers ==
    /\ MaxPageErrors \in Nat \ {0} /\ MaxPageFaults \in Nat /\ Hound \subseteq Nat
    /\ 0 \in 0..MaxPageErrors /\ 0 < MaxPageErrors /\ 0 \in 0..MaxPageFaults
  BY PagesAssumption DEF Hound

LEMMA LeastDogIs ==
    ASSUME NEW S \in SUBSET Hound, S # {}
    PROVE  LeastDog(S) \in S
<1>1. \E d \in S : \A e \in S : d <= e
  BY LeastItem, PageNumbers
<1> QED
  BY <1>1 DEF LeastDog

LEMMA WorkerShard ==
    ASSUME NEW w \in PageWorker PROVE w[2] \in PageShard
  BY DEF PageWorker, PageShard, Batch

LEMMA PageFaultCounts ==
    ASSUME mishaps \in 0..MaxPageFaults, PageFault \/ UNCHANGED mishaps
    PROVE  mishaps' \in 0..MaxPageFaults
  BY PageNumbers DEF PageFault

LEMMA NoPageFits ==
    ASSUME NEW pc \in {"none", "boot", "killed"}, NEW files
    PROVE  PageFits([NoProcess EXCEPT !.pc = pc], files)
<1> DEFINE r == [NoProcess EXCEPT !.pc = pc]
<1>1. r.pc = pc /\ r.errors = 0 /\ r \in PageRow
  BY PageNumbers DEF NoProcess, PageRow
<1> HIDE DEF r
<1>2. PageFits(r, files)
  BY <1>1 DEF PageFits
<1> QED
  BY <1>2 DEF r

(* Files stay, so what fits still does.                                    *)
LEMMA PageStillFits ==
    ASSUME NEW r, NEW files, NEW more, PageFits(r, files),
           \A d \in Hound : files[d] # "none" => more[d] # "none"
    PROVE  PageFits(r, more)
<1>1. r.todo \in SUBSET Hound
  BY DEF PageFits, PageRow
<1>2. r.todo # {} => LeastDog(r.todo) \in Hound
  BY <1>1, LeastDogIs
<1> QED
  BY <1>2 DEF PageFits

(* A step of a worker.                                                     *)
LEMMA PageMoves ==
    ASSUME PagesIInv, NEW w \in PageWorker, NEW r,
           WorkersBecome([process EXCEPT ![w] = r]),
           PageFits(r, file'), FilesFit(file', progress'),
           \A d \in Hound : file[d] # "none" => file'[d] # "none",
           cut' = cut, mishaps' \in 0..MaxPageFaults
    PROVE  PagesIInv'
<1>1. process' = [process EXCEPT ![w] = r] /\ process \in [PageWorker -> PageRow]
      /\ UNCHANGED <<listable, sharded, seen, waveFile, starter, keeper>>
  BY DEF WorkersBecome, PagesIInv
<1>2. r \in PageRow
  BY DEF PageFits
<1>3. process' \in [PageWorker -> PageRow]
  BY <1>1, <1>2
<1>4. \A v \in PageWorker : PageFits(process'[v], file')
  <2> TAKE v \in PageWorker
  <2>1. CASE v = w
    BY <1>1, <2>1
  <2>2. CASE v # w
    <3>1. process'[v] = process[v] /\ PageFits(process[v], file)
      BY <1>1, <2>2 DEF PagesIInv
    <3> QED
      BY <3>1, PageStillFits
  <2> QED
    BY <2>1, <2>2
<1> QED
  BY <1>1, <1>3, <1>4 DEF PagesIInv

LEMMA PageStep ==
    ASSUME PagesIInv, NEW w \in PageWorker, PageWorkerStep(w)
    PROVE  PagesIInv'
<1> DEFINE p == process[w]
           d == LeastDog(p.todo)
           s == w[2]
<1>1. /\ PageFits(p, file) /\ p \in PageRow /\ p.todo \in SUBSET Hound
      /\ FilesFit(file, progress) /\ mishaps \in 0..MaxPageFaults
  BY DEF PagesIInv, PageRow
<1>2. s \in PageShard
  BY WorkerShard
<1>3. p.todo # {} => d \in p.todo /\ d \in Hound
  BY <1>1, LeastDogIs
<1> HIDE DEF d, s
<1>4. CASE PageBoot(w)
  <2> DEFINE r == IF s \in cut THEN [p EXCEPT !.pc = "exit 1"]
                  ELSE [p EXCEPT !.pc = "fetch", !.todo = SelectedDogs(s)]
  <2>1. SelectedDogs(s) \in SUBSET Hound
    BY DEF PagesIInv, SelectedDogs, ShardDogs
  <2>2. p.pc = "boot" /\ p.errors = 0
    BY <1>1, <1>4 DEF PageBoot, PageFits
  <2>3. r.pc \in {"exit 1", "fetch"} /\ r.errors = 0 /\ r \in PageRow
    BY <1>1, <2>1, <2>2 DEF PageRow
  <2>4. /\ WorkersBecome([process EXCEPT ![w] = r])
        /\ UNCHANGED <<file, progress, cut, mishaps>>
    BY <1>4 DEF PageBoot, s
  <2> HIDE DEF r
  <2>5. PageFits(r, file)
    <3>1. r.errors < MaxPageErrors
      BY <2>3, PageNumbers
    <3> QED
      BY <2>3, <3>1 DEF PageFits
  <2> QED
    BY <1>1, <2>4, <2>5, PageMoves
<1>5. CASE FetchPage(w)
  <2> DEFINE r == [p EXCEPT !.pc = "write"]
  <2>1. /\ p.pc = "fetch" /\ p.todo # {} /\ d \notin Gone /\ file' = [file EXCEPT ![d] = "torn"]
        /\ WorkersBecome([process EXCEPT ![w] = r]) /\ UNCHANGED <<progress, cut, mishaps>>
    BY <1>5 DEF FetchPage, d
  <2>2. r.pc = "write" /\ r.todo = p.todo /\ r.errors = p.errors /\ r \in PageRow
    BY <1>1 DEF PageRow
  <2> HIDE DEF r
  <2>3. PageFits(r, file')
    BY <1>1, <2>1, <2>2 DEF PageFits, d
  <2>4. FilesFit(file', progress') /\ \A e \in Hound : file[e] # "none" => file'[e] # "none"
    BY <1>1, <1>3, <2>1 DEF FilesFit
  <2> QED
    BY <1>1, <2>1, <2>3, <2>4, PageMoves
<1>6. CASE WritePage(w)
  <2> DEFINE r == [p EXCEPT !.pc = "record"]
  <2>1. /\ p.pc = "write" /\ file' = [file EXCEPT ![d] = "whole"]
        /\ WorkersBecome([process EXCEPT ![w] = r]) /\ UNCHANGED <<progress, cut, mishaps>>
    BY <1>6 DEF WritePage, d
  <2>2. r.pc = "record" /\ r.todo = p.todo /\ r.errors = p.errors /\ r \in PageRow
    BY <1>1 DEF PageRow
  <2>3. p.todo # {} /\ d \notin Gone /\ p.errors < MaxPageErrors
    BY <1>1, <2>1 DEF PageFits, d
  <2> HIDE DEF r
  <2>4. FilesFit(file', progress') /\ \A e \in Hound : file[e] # "none" => file'[e] # "none"
    BY <1>1, <1>3, <2>1, <2>3 DEF FilesFit
  <2>5. file'[d] # "none"
    BY <1>1, <1>3, <2>1, <2>3 DEF FilesFit
  <2>6. PageFits(r, file')
    BY <2>2, <2>3, <2>5 DEF PageFits, d
  <2> QED
    BY <1>1, <2>1, <2>4, <2>6, PageMoves
<1>7. CASE RecordPage(w)
  <2> DEFINE r == [p EXCEPT !.pc = "fetch", !.todo = @ \ {d}]
  <2>1. /\ p.pc = "record" /\ progress' = [progress EXCEPT ![s] = @ \cup {d}]
        /\ WorkersBecome([process EXCEPT ![w] = r]) /\ UNCHANGED <<file, cut, mishaps>>
    <3>1. [process EXCEPT ![w].pc = "fetch", ![w].todo = @ \ {LeastDog(@)}]
            = [process EXCEPT ![w] = r]
      BY <1>1 DEF PagesIInv, d, PageRow
    <3> QED
      BY <1>7, <3>1 DEF RecordPage, d, s
  <2>2. r.pc = "fetch" /\ r.todo = p.todo \ {d} /\ r.errors = p.errors /\ r \in PageRow
    BY <1>1 DEF PageRow
  <2> HIDE DEF r
  <2>3. p.todo # {} /\ file[d] # "none" /\ p.errors < MaxPageErrors
    BY <1>1, <2>1 DEF PageFits, d
  <2>4. FilesFit(file', progress')
    BY <1>1, <1>2, <1>3, <2>1, <2>3 DEF FilesFit
  <2>5. PageFits(r, file')
    BY <2>2, <2>3 DEF PageFits
  <2> QED
    BY <1>1, <2>1, <2>4, <2>5, PageMoves
<1>8. CASE FetchPageFails(w)
  <2> DEFINE enough == p.errors + 1 >= MaxPageErrors
             r == [pc |-> IF enough THEN "exit 1" ELSE "fetch",
                   todo |-> p.todo \ {d}, errors |-> p.errors + 1]
  <2>1. /\ p.pc = "fetch" /\ (PageFault \/ UNCHANGED mishaps)
        /\ WorkersBecome([process EXCEPT ![w] = r]) /\ UNCHANGED <<file, progress, cut>>
    BY <1>8 DEF FetchPageFails, d
  <2>2. p.errors \in 0..MaxPageErrors /\ p.errors < MaxPageErrors
    BY <1>1, <2>1 DEF PageFits, PageRow
  <2>3. PageFits(r, file')
    <3>1. p.errors + 1 \in 0..MaxPageErrors /\ p.todo \ {d} \in SUBSET Hound
      BY <1>1, <2>2, PageNumbers
    <3>2. r.pc \in {"fetch", "exit 1"} /\ r \in PageRow
      BY <3>1 DEF PageRow
    <3>3. r.pc = "fetch" => r.errors < MaxPageErrors
      BY <2>2, PageNumbers
    <3> QED
      BY <3>2, <3>3 DEF PageFits
  <2>4. mishaps' \in 0..MaxPageFaults
    BY <1>1, <2>1, PageFaultCounts
  <2> HIDE DEF r
  <2> QED
    BY <1>1, <2>1, <2>3, <2>4, PageMoves
<1>9. CASE Ends(w)
  <2> DEFINE r == [p EXCEPT !.pc = "exit 0"]
  <2>1. r.pc = "exit 0" /\ r \in PageRow
    BY <1>1 DEF PageRow
  <2>2. /\ WorkersBecome([process EXCEPT ![w] = r])
        /\ UNCHANGED <<file, progress, cut, mishaps>>
    BY <1>9 DEF Ends
  <2> HIDE DEF r
  <2>3. PageFits(r, file)
    BY <2>1 DEF PageFits
  <2> QED
    BY <1>1, <2>2, <2>3, PageMoves
<1> QED
  BY <1>4, <1>5, <1>6, <1>7, <1>8, <1>9 DEF PageWorkerStep

(* A step that spawns or kills some workers, and writes no page.           *)
LEMMA PagesMove ==
    ASSUME PagesIInv, NEW some, NEW pc \in {"none", "boot", "killed"},
           \/ UNCHANGED process
           \/ process' = [w \in PageWorker |->
                IF w \in some THEN [NoProcess EXCEPT !.pc = pc] ELSE process[w]],
           UNCHANGED <<listable, sharded, seen, file, progress>>, cut' \subseteq PageShard,
           waveFile' \in Wave \cup {NoWave},
           starter' \in [wave : Wave, supervised : BOOLEAN] \cup {NoWave},
           keeper' \in {"check", "probe", "start", "wait", "done", "failed"},
           PageFault \/ UNCHANGED mishaps
    PROVE  PagesIInv'
<1> DEFINE none == [NoProcess EXCEPT !.pc = pc]
<1>1. PageFits(none, file) /\ none \in PageRow
  BY NoPageFits DEF PageFits
<1>2. \/ UNCHANGED process
      \/ process' = [w \in PageWorker |-> IF w \in some THEN none ELSE process[w]]
  OBVIOUS
<1> HIDE DEF none
<1>3. /\ process' \in [PageWorker -> PageRow]
      /\ \A w \in PageWorker : PageFits(process'[w], file)
  BY <1>1, <1>2 DEF PagesIInv
<1>4. mishaps' \in 0..MaxPageFaults
  BY PageFaultCounts DEF PagesIInv
<1> QED
  BY <1>3, <1>4 DEF PagesIInv

LEMMA PagesInitFits == PagesInit => PagesIInv
<1> SUFFICES ASSUME PagesInit PROVE PagesIInv
  OBVIOUS
<1>1. PageFits(NoProcess, file) /\ NoProcess \in PageRow
  BY PageNumbers DEF NoProcess, PageFits, PageRow
<1>2. FilesFit(file, progress)
  BY DEF PagesInit, FilesFit, PageShard
<1> QED
  BY <1>1, <1>2, PageNumbers DEF PagesInit, PagesIInv

LEMMA PagesNextFits == PagesIInv /\ [PagesNext]_pageVars => PagesIInv'
<1> SUFFICES ASSUME PagesIInv, [PagesNext]_pageVars PROVE PagesIInv'
  OBVIOUS
<1>1. ASSUME NEW d \in Hound, DiscoverDog(d)
      PROVE  PagesIInv'
  <2>1. seen' \subseteq Hound
    BY <1>1 DEF DiscoverDog, PagesIInv
  <2>2. UNCHANGED <<listable, sharded, file, progress, cut, process, waveFile, starter,
                    keeper, mishaps>>
    BY <1>1 DEF DiscoverDog
  <2> QED
    BY <2>1, <2>2 DEF PagesIInv
<1>2. ASSUME NEW some \in SUBSET PageWorker, KilledWorkers(some)
      PROVE  PagesIInv'
  <2>1. cut' \subseteq PageShard
    <3>1. {w[2] : w \in {v \in some : process[v].pc = "record"}} \subseteq PageShard
      BY WorkerShard
    <3> QED
      BY <1>2, <3>1 DEF KilledWorkers, PagesIInv
  <2>2. /\ process' = [w \in PageWorker |->
                IF w \in some THEN [NoProcess EXCEPT !.pc = "killed"] ELSE process[w]]
        /\ PageFault
        /\ UNCHANGED <<listable, sharded, seen, file, progress, waveFile, starter, keeper>>
    BY <1>2 DEF KilledWorkers, WorkersBecome
  <2> QED
    BY <2>1, <2>2, PagesMove DEF PagesIInv
<1>3. ASSUME NEW supervised \in BOOLEAN, StartShards(supervised)
      PROVE  PagesIInv'
  <2>1. /\ UNCHANGED <<listable, sharded, seen, file, progress, cut, waveFile>>
        /\ PageFault \/ UNCHANGED mishaps
        /\ keeper' \in {"failed", "wait", keeper}
    BY <1>3 DEF StartShards
  <2>2. keeper' \in {"check", "probe", "start", "wait", "done", "failed"}
    BY <2>1 DEF PagesIInv
  <2>3. CASE UNCHANGED <<process, starter>>
    BY <2>1, <2>2, <2>3, PagesMove DEF PagesIInv
  <2>4. CASE ~ UNCHANGED <<process, starter>>
    <3>1. PICK n \in Wave : /\ process' = Spawned({<<n, s>> : s \in WaveShard})
                            /\ starter' = [wave |-> n, supervised |-> supervised]
      BY <1>3, <2>4 DEF StartShards
    <3>2. starter' \in [wave : Wave, supervised : BOOLEAN]
      BY <3>1
    <3> QED
      BY <2>1, <2>2, <3>1, <3>2, PagesMove DEF PagesIInv, Spawned
  <2> QED
    BY <2>3, <2>4
<1>4. CASE StarterRecords \/ StarterDies
  <2>1. starter # NoWave /\ starter' = NoWave /\ waveFile' \in {waveFile, starter.wave}
        /\ keeper' \in {"check", "failed", keeper}
    BY <1>4 DEF StarterRecords, StarterDies
  <2>2. starter \in [wave : Wave, supervised : BOOLEAN]
    BY <2>1 DEF PagesIInv
  <2>3. /\ waveFile' \in Wave \cup {NoWave}
        /\ keeper' \in {"check", "probe", "start", "wait", "done", "failed"}
    BY <2>1, <2>2 DEF PagesIInv
  <2>4. /\ UNCHANGED <<listable, sharded, seen, file, progress, cut, process>>
        /\ PageFault \/ UNCHANGED mishaps
    BY <1>4 DEF StarterRecords, StarterDies
  <2> QED
    BY <2>1, <2>3, <2>4, PagesMove DEF PagesIInv
<1>5. CASE Check \/ Probe \/ HarvestBatchEnds
  <2>1. /\ keeper' \in {"check", "probe", "start", "wait", "done", "failed"}
        /\ UNCHANGED <<listable, sharded, seen, file, progress, cut, waveFile, starter, mishaps>>
    BY <1>5 DEF Check, Probe, HarvestBatchEnds, KeeperGoes
  <2>2. UNCHANGED process \/ process' = Spawned({Batch})
    BY <1>5 DEF Check, Probe, HarvestBatchEnds
  <2> QED
    BY <2>1, <2>2, PagesMove DEF PagesIInv, Spawned
<1>6. ASSUME NEW w \in PageWorker, PageWorkerStep(w) \/ PageWorkerDies(w)
      PROVE  PagesIInv'
  BY <1>2, <1>6, PageStep DEF PageWorkerDies
<1>7. CASE StopWave
  BY <1>2, <1>7 DEF StopWave
<1>8. CASE UNCHANGED pageVars
  BY <1>8 DEF pageVars, PagesIInv
<1> QED
  BY <1>1, <1>3, <1>4, <1>5, <1>6, <1>7, <1>8 DEF PagesNext, KeeperStep

LEMMA PagesAlwaysFit == PagesSpec => []PagesIInv
  BY PagesInitFits, PagesNextFits, PTL DEF PagesSpec

(* The variables of the archive of profile pages keep their types.         *)
THEOREM PagesTypeCorrect == PagesSpec => []PagesTypeOK
<1>1. PagesIInv => PagesTypeOK
  BY DEF PagesIInv, PagesTypeOK, FilesFit, PageShard, PageRow
<1> QED
  BY <1>1, PagesAlwaysFit, PTL

(* What a progress file records as archived has its profile file, in any   *)
(* shard, however waves and batches overlap and workers die, and is no dog *)
(* whose page failed for good.                                             *)
THEOREM RecordedHasFile ==
    PagesSpec => [](\A s \in {Whole} \cup WaveShard : \A d \in progress[s] :
                        file[d] # "none" /\ d \notin Gone)
<1>1. PagesIInv => \A s \in {Whole} \cup WaveShard : \A d \in progress[s] :
                        file[d] # "none" /\ d \notin Gone
  BY DEF PagesIInv, FilesFit, PageShard
<1> QED
  BY <1>1, PagesAlwaysFit, PTL

-----------------------------------------------------------------------------
(* The replays of races.                                                   *)

JobRow == [name : {"none", "all", "thedogs"}, refresh : BOOLEAN,
           pass : {"none", "read", "existing", "cards", "state", "fetch", "record"},
           todo : SUBSET Race, got : BOOLEAN]

\* What is stored of a race, its source shows.
TheDogsFit(rows) ==
    /\ rows \in [Race -> VideoRow]
    /\ \A r \in Race : rows[r] # "none" => r \in carded
    /\ \A r \in Race : rows[r] = "stream" => r \in streams

LocalFit(rows) ==
    /\ rows \in [Race -> VideoRow]
    /\ \A r \in Race : rows[r] # "none" => r \in filmed /\ Tellable(r)

\* A pass over rows has races with rows, one over cards has races with cards;
\* and the races that a pass over a day of Western Australia leaves out have
\* their videos, so that theirs is no other track than that of the day.
JobFits ==
    /\ running \in JobRow
    /\ running.pass \in {"existing", "fetch", "record"} =>
            \A r \in running.todo : theDogs[r] # "none"
    /\ (running.pass = "cards" => running.todo \subseteq carded)
    /\ running.pass = "state" /\ homeState = "WA" /\ running.todo # {} =>
            \A r \in Race \ running.todo : local[r] # "none"
    /\ running.pass = "record" =>
            running.todo # {} /\ (running.got => FirstRace \in streams)

VideosIInv ==
    /\ homeState \in States /\ track \in [Race -> Tracks]
    /\ carded \subseteq Race /\ streams \subseteq carded /\ filmed \subseteq Race
    /\ TheDogsFit(theDogs) /\ LocalFit(local) /\ found \subseteq streams /\ JobFits
    /\ blips \in 0..MaxVideoFaults

LEMMA VideoNumbers ==
    Race \subseteq Nat /\ MaxVideoFaults \in Nat /\ 0 \in 0..MaxVideoFaults
  BY VideosAssumption DEF Race

LEMMA VideoFaultCounts ==
    ASSUME blips \in 0..MaxVideoFaults, VideoFault \/ UNCHANGED blips
    PROVE  blips' \in 0..MaxVideoFaults
  BY VideoNumbers DEF VideoFault

LEMMA FirstRaceIs ==
    ASSUME running.todo \in SUBSET Race, running.todo # {}
    PROVE  FirstRace \in running.todo /\ FirstRace \in Race
<1>1. \E r \in running.todo : \A q \in running.todo : r <= q
  BY LeastItem, VideoNumbers
<1> QED
  BY <1>1 DEF FirstRace

LEMMA NoJobFits ==
    /\ NoJob \in JobRow /\ NoJob.pass = "none"
  BY DEF NoJob, JobRow

(* A step of the job, to another of its races or passes.                   *)
LEMMA JobGoes ==
    ASSUME VideosIInv, NEW pass \in {"existing", "cards", "state", "fetch"},
           NEW todo \in SUBSET Race, To(pass, todo),
           pass \in {"existing", "fetch"} => \A r \in todo : theDogs'[r] # "none",
           (pass = "cards" => todo \subseteq carded),
           pass = "state" /\ homeState = "WA" /\ todo # {} =>
                \A r \in Race \ todo : local'[r] # "none",
           TheDogsFit(theDogs'), LocalFit(local'), found' \subseteq streams,
           VideoFault \/ UNCHANGED blips
    PROVE  VideosIInv'
<1>1. running' = [running EXCEPT !.pass = pass, !.todo = todo]
      /\ UNCHANGED <<homeState, track, carded, streams, filmed>>
  BY DEF To, RunningJob
<1>2. running \in JobRow
  BY DEF VideosIInv, JobFits
<1>3. running'.pass = pass /\ running'.todo = todo /\ running' \in JobRow
  BY <1>1, <1>2 DEF JobRow
<1>4. JobFits'
  BY <1>1, <1>3 DEF JobFits
<1>5. blips' \in 0..MaxVideoFaults
  BY VideoFaultCounts DEF VideosIInv
<1>6. TheDogsFit(theDogs)' /\ LocalFit(local)'
  BY <1>1 DEF TheDogsFit, LocalFit, Tellable
<1> QED
  BY <1>1, <1>4, <1>5, <1>6 DEF VideosIInv

LEMMA JobStops ==
    ASSUME VideosIInv, running' = NoJob,
           UNCHANGED <<homeState, track, carded, streams, filmed, theDogs, local, found>>,
           VideoFault \/ UNCHANGED blips
    PROVE  VideosIInv'
<1>1. JobFits'
  BY NoJobFits DEF JobFits
<1>2. blips' \in 0..MaxVideoFaults
  BY VideoFaultCounts DEF VideosIInv
<1>3. TheDogsFit(theDogs)' /\ LocalFit(local)'
  BY DEF VideosIInv, TheDogsFit, LocalFit, Tellable
<1> QED
  BY <1>1, <1>2, <1>3 DEF VideosIInv

(* A row of TheDogs that is written.                                       *)
LEMMA WriteFits ==
    ASSUME TheDogsFit(theDogs), NEW r \in carded, carded \subseteq Race,
           NEW row \in {"page", "stream"}, row = "stream" => r \in streams,
           theDogs' = [theDogs EXCEPT ![r] = row]
    PROVE  /\ TheDogsFit(theDogs')
           /\ \A q \in Race : theDogs[q] # "none" => theDogs'[q] # "none"
  BY DEF TheDogsFit, VideoRow

LEMMA AllJobStep == ASSUME VideosIInv, AllStep PROVE VideosIInv'
<1> DEFINE todo == running.todo
           r == FirstRace
<1>1. /\ running \in JobRow /\ todo \in SUBSET Race /\ JobFits
      /\ TheDogsFit(theDogs) /\ LocalFit(local) /\ found \subseteq streams
      /\ carded \subseteq Race /\ streams \subseteq carded
  BY DEF VideosIInv, JobFits, JobRow
<1>2. todo # {} => r \in todo /\ r \in Race
  BY <1>1, FirstRaceIs
<1>3. Rest \in SUBSET Race /\ Rest \subseteq todo
  BY <1>1 DEF Rest
<1> HIDE DEF r
<1>4. CASE ReadExisting
  <2>1. /\ To("existing", MissingVideos(theDogs, "page"))
        /\ UNCHANGED <<theDogs, local, found, blips>>
    BY <1>4 DEF ReadExisting
  <2>2. /\ MissingVideos(theDogs, "page") \in SUBSET Race
        /\ \A q \in MissingVideos(theDogs, "page") : theDogs[q] # "none"
    BY DEF MissingVideos
  <2> QED
    BY <1>1, <2>1, <2>2, JobGoes
<1>5. CASE Existing
  <2>1. PICK with \in BOOLEAN :
            /\ Answered(r, with)
            /\ theDogs' = [theDogs EXCEPT ![r] = IF with THEN "stream" ELSE @]
    BY <1>5 DEF Existing, r
  <2>2. /\ running.pass = "existing" /\ todo # {} /\ To("existing", Rest)
        /\ UNCHANGED <<local, found>>
    BY <1>5 DEF Existing, In
  <2>3. (with => r \in streams) /\ (VideoFault \/ UNCHANGED blips)
    BY <2>1 DEF Answered
  <2>4. r \in Race /\ \A q \in todo : theDogs[q] # "none"
    BY <1>1, <1>2, <2>2 DEF JobFits
  <2>5. r \in carded
    BY <1>1, <1>2, <2>2, <2>4 DEF TheDogsFit
  <2>6. /\ TheDogsFit(theDogs')
        /\ \A q \in Race : theDogs[q] # "none" => theDogs'[q] # "none"
    <3>1. CASE with
      BY <1>1, <2>1, <2>3, <2>5, <3>1, WriteFits
    <3>2. CASE ~with
      <4>1. theDogs' = theDogs
        BY <1>1, <2>1, <3>2 DEF TheDogsFit
      <4> QED
        BY <1>1, <4>1
    <3> QED
      BY <3>1, <3>2
  <2>7. \A q \in Rest : theDogs'[q] # "none"
    BY <1>3, <2>4, <2>6
  <2> QED
    BY <1>1, <1>3, <2>2, <2>3, <2>6, <2>7, JobGoes
<1>6. CASE ReadCards
  <2>1. /\ UNCHANGED <<theDogs, local, found>> /\ (VideoFault \/ UNCHANGED blips)
        /\ \/ To("cards", carded \cap MissingVideos(theDogs, "none"))
           \/ To("cards", {})
    BY <1>6 DEF ReadCards
  <2> QED
    BY <1>1, <2>1, JobGoes
<1>7. CASE CardVideo
  <2>1. /\ running.pass = "cards" /\ todo # {} /\ To("cards", Rest)
        /\ UNCHANGED <<local, found>>
    BY <1>7 DEF CardVideo, In
  <2>2. todo \subseteq carded /\ r \in carded
    BY <1>1, <1>2, <2>1 DEF JobFits
  <2>3. CASE VideoFault /\ UNCHANGED theDogs
    BY <1>1, <1>3, <2>1, <2>2, <2>3, JobGoes
  <2>4. ASSUME NEW with \in BOOLEAN, Answered(r, with),
               theDogs' = [theDogs EXCEPT ![r] = IF with THEN "stream" ELSE "page"]
        PROVE  VideosIInv'
    <3>1. (with => r \in streams) /\ (VideoFault \/ UNCHANGED blips)
      BY <2>4 DEF Answered
    <3>2. TheDogsFit(theDogs')
      BY <1>1, <2>2, <2>4, <3>1, WriteFits
    <3> QED
      BY <1>1, <1>3, <2>1, <2>2, <3>1, <3>2, JobGoes
  <2> QED
    BY <1>7, <2>3, <2>4 DEF CardVideo, r
<1>8. CASE ReadState
  <2> DEFINE races == {q \in Race : running.refresh \/ local[q] = "none"}
  <2>1. To("state", races) /\ UNCHANGED <<theDogs, local, found, blips>>
    BY <1>8 DEF ReadState
  <2>2. races \in SUBSET Race /\ \A q \in Race \ races : local'[q] # "none"
    BY <2>1
  <2> HIDE DEF races
  <2> QED
    BY <1>1, <2>1, <2>2, JobGoes
<1>9. ASSUME running.pass = "state", todo # {}, homeState # "WA", To("state", Rest),
             UNCHANGED <<theDogs, found>>, VideoFault \/ UNCHANGED blips,
             \/ UNCHANGED local
             \/ /\ r \in filmed /\ Tellable(r)
                /\ \E row \in {"page", "stream"} : local' = [local EXCEPT ![r] = row]
      PROVE  VideosIInv'
  <2>1. LocalFit(local')
    BY <1>1, <1>2, <1>9 DEF LocalFit, VideoRow
  <2> QED
    BY <1>1, <1>3, <1>9, <2>1, JobGoes
<1>10. CASE RacingQueensland
  <2>1. /\ running.pass = "state" /\ todo # {} /\ homeState = "QLD" /\ To("state", Rest)
        /\ UNCHANGED <<theDogs, found>> /\ (VideoFault \/ UNCHANGED blips)
        /\ UNCHANGED local \/ (/\ track[r] \in Coded /\ r \in filmed
                               /\ local' = [local EXCEPT ![r] = "page"])
    BY <1>10 DEF RacingQueensland, InState, In, FoundVideo, NotFound, Skipped, r
  <2>2. homeState # "WA" /\ (track[r] \in Coded => Tellable(r))
    BY <2>1 DEF Tellable
  <2> QED
    BY <1>9, <2>1, <2>2
<1>11. CASE Tasracing
  <2>1. /\ running.pass = "state" /\ todo # {} /\ homeState = "TAS" /\ To("state", Rest)
        /\ UNCHANGED <<theDogs, found>> /\ (VideoFault \/ UNCHANGED blips)
        /\ UNCHANGED local \/ (r \in filmed /\ local' = [local EXCEPT ![r] = "stream"])
    BY <1>11 DEF Tasracing, InState, In, FoundVideo, NotFound, Skipped, r
  <2>2. homeState # "WA" /\ Tellable(r)
    BY <2>1 DEF Tellable
  <2> QED
    BY <1>9, <2>1, <2>2
<1>12. CASE SaRaceReplay
  <2>1. /\ running.pass = "state" /\ todo # {} /\ homeState = "SA" /\ To("state", Rest)
        /\ UNCHANGED <<theDogs, found>> /\ (VideoFault \/ UNCHANGED blips)
        /\ UNCHANGED local \/ (r \in filmed /\ local' = [local EXCEPT ![r] = "page"])
    BY <1>12 DEF SaRaceReplay, InState, In, FoundVideo, NotFound, Skipped, r
  <2>2. homeState # "WA" /\ Tellable(r)
    BY <2>1 DEF Tellable
  <2> QED
    BY <1>9, <2>1, <2>2
<1>13. CASE GreyhoundsWa
  <2>1. /\ running.pass = "state" /\ todo # {} /\ homeState = "WA" /\ To("state", {})
        /\ UNCHANGED <<theDogs, found>> /\ (VideoFault \/ UNCHANGED blips)
        /\ \/ UNCHANGED local
           \/ local' = [q \in Race |->
                IF q \in todo \cap filmed /\ \A o \in todo : track[o] = track[q]
                THEN "page" ELSE local[q]]
    BY <1>13 DEF GreyhoundsWa, InState, In
  <2>2. \A q \in Race \ todo : local[q] # "none"
    BY <1>1, <2>1 DEF JobFits
  <2>3. ASSUME NEW q \in todo, \A o \in todo : track[o] = track[q]
        PROVE  Tellable(q)
    <3>1. q \in Race
      BY <1>1
    <3>2. ASSUME NEW o \in Race PROVE track[o] = track[q]
      <4>1. CASE o \in todo
        BY <2>3, <4>1
      <4>2. CASE o \notin todo
        <5>1. Tellable(o)
          BY <1>1, <2>2, <4>2 DEF LocalFit
        <5> QED
          BY <2>1, <3>1, <5>1 DEF Tellable
      <4> QED
        BY <4>1, <4>2
    <3> QED
      BY <2>1, <3>2 DEF Tellable
  <2>4. LocalFit(local')
    BY <1>1, <2>1, <2>3 DEF LocalFit, VideoRow
  <2> QED
    BY <1>1, <2>1, <2>4, JobGoes
<1>14. CASE AllEnds
  BY <1>14, JobStops DEF AllEnds, RunningJob
<1> QED
  BY <1>4, <1>5, <1>6, <1>7, <1>8, <1>10, <1>11, <1>12, <1>13, <1>14 DEF AllStep

LEMMA TheDogsJobStep == ASSUME VideosIInv, TheDogsStep PROVE VideosIInv'
<1> DEFINE todo == running.todo
           r == FirstRace
<1>1. /\ running \in JobRow /\ todo \in SUBSET Race /\ JobFits
      /\ TheDogsFit(theDogs) /\ LocalFit(local) /\ found \subseteq streams
      /\ carded \subseteq Race /\ streams \subseteq carded
  BY DEF VideosIInv, JobFits, JobRow
<1>2. todo # {} => r \in todo /\ r \in Race
  BY <1>1, FirstRaceIs
<1>3. Rest \in SUBSET Race /\ Rest \subseteq todo
  BY <1>1 DEF Rest
<1> HIDE DEF r
<1>4. CASE FindVideoCandidates
  <2> DEFINE races == MissingVideos(theDogs, "page") \ found
  <2>1. To("fetch", races) /\ UNCHANGED <<theDogs, local, found, blips>>
    BY <1>4 DEF FindVideoCandidates
  <2>2. races \in SUBSET Race /\ \A q \in races : theDogs[q] # "none"
    BY DEF MissingVideos
  <2> HIDE DEF races
  <2> QED
    BY <1>1, <2>1, <2>2, JobGoes
<1>5. CASE ProcessCandidate
  <2>1. running.pass = "fetch" /\ todo # {} /\ UNCHANGED <<local, found>>
    BY <1>5 DEF ProcessCandidate, In
  <2>2. \A q \in todo : theDogs[q] # "none"
    BY <1>1, <2>1 DEF JobFits
  <2>3. ASSUME To("fetch", Rest) \/ To("fetch", {}), VideoFault, UNCHANGED theDogs
        PROVE  VideosIInv'
    BY <1>1, <1>3, <2>1, <2>2, <2>3, JobGoes
  <2>4. ASSUME NEW with \in BOOLEAN, Answered(r, with),
               theDogs' = [theDogs EXCEPT ![r] = IF with THEN "stream" ELSE "page"],
               RunningJob([running EXCEPT !.pass = "record", !.got = with])
        PROVE  VideosIInv'
    <3>1. (with => r \in streams) /\ (VideoFault \/ UNCHANGED blips)
      BY <2>4 DEF Answered
    <3>2. r \in carded
      BY <1>1, <1>2, <2>1, <2>2 DEF TheDogsFit
    <3>3. /\ TheDogsFit(theDogs')
          /\ \A q \in Race : theDogs[q] # "none" => theDogs'[q] # "none"
      BY <1>1, <2>4, <3>1, <3>2, WriteFits
    <3>4. /\ running' = [running EXCEPT !.pass = "record", !.got = with]
          /\ UNCHANGED <<homeState, track, carded, streams, filmed>>
      BY <2>4 DEF RunningJob
    <3>5. /\ running'.pass = "record" /\ running'.todo = todo /\ running'.got = with
          /\ running' \in JobRow
      BY <1>1, <3>4 DEF JobRow
    <3>6. FirstRace' = r
      BY <3>5 DEF FirstRace, r
    <3>7. JobFits'
      BY <1>1, <2>1, <2>2, <3>1, <3>3, <3>4, <3>5, <3>6 DEF JobFits
    <3>8. blips' \in 0..MaxVideoFaults
      BY <3>1, VideoFaultCounts DEF VideosIInv
    <3>9. TheDogsFit(theDogs)' /\ LocalFit(local)'
      BY <1>1, <2>1, <3>3, <3>4 DEF TheDogsFit, LocalFit, Tellable
    <3> QED
      BY <2>1, <3>4, <3>7, <3>8, <3>9 DEF VideosIInv
  <2> QED
    BY <1>5, <2>3, <2>4 DEF ProcessCandidate, r
<1>6. CASE AppendProgress
  <2>1. /\ running.pass = "record" /\ found' = found \cup (IF running.got THEN {r} ELSE {})
        /\ To("fetch", Rest) /\ UNCHANGED <<theDogs, local, blips>>
    BY <1>6 DEF AppendProgress, r
  <2>2. /\ running.got => r \in streams
        /\ \A q \in todo : theDogs[q] # "none"
    BY <1>1, <2>1 DEF JobFits, r
  <2> QED
    BY <1>1, <1>3, <2>1, <2>2, JobGoes
<1>7. CASE TheDogsEnds
  BY <1>7, JobStops DEF TheDogsEnds, RunningJob
<1> QED
  BY <1>4, <1>5, <1>6, <1>7 DEF TheDogsStep

LEMMA VideosInitFits == VideosInit => VideosIInv
<1> SUFFICES ASSUME VideosInit PROVE VideosIInv
  OBVIOUS
<1>1. JobFits
  BY NoJobFits DEF VideosInit, JobFits
<1>2. TheDogsFit(theDogs) /\ LocalFit(local)
  BY DEF VideosInit, TheDogsFit, LocalFit, VideoRow
<1> QED
  BY <1>1, <1>2, VideoNumbers DEF VideosInit, VideosIInv

LEMMA VideosNextFits == VideosIInv /\ [VideosNext]_videoVars => VideosIInv'
<1> SUFFICES ASSUME VideosIInv, [VideosNext]_videoVars PROVE VideosIInv'
  OBVIOUS
<1>1. ASSUME NEW r \in Race, PublishVideo(r)
      PROVE  VideosIInv'
  <2>1. UNCHANGED <<homeState, track, theDogs, local, found, running, blips>>
    BY <1>1 DEF PublishVideo
  <2>2. /\ carded \subseteq carded' /\ streams \subseteq streams' /\ filmed \subseteq filmed'
        /\ carded' \subseteq Race /\ streams' \subseteq carded' /\ filmed' \subseteq Race
    BY <1>1 DEF PublishVideo, VideosIInv
  <2>3. TheDogsFit(theDogs)' /\ LocalFit(local)'
    BY <2>1, <2>2 DEF VideosIInv, TheDogsFit, LocalFit, Tellable
  <2>4. JobFits'
    BY <2>1, <2>2 DEF VideosIInv, JobFits, FirstRace
  <2> QED
    BY <2>1, <2>2, <2>3, <2>4 DEF VideosIInv
<1>2. ASSUME NEW r \in Race, SyncVideo(r)
      PROVE  VideosIInv'
  <2> DEFINE row == IF theDogs[r] = "stream" THEN "stream" ELSE "page"
  <2>1. /\ r \in carded
        /\ UNCHANGED <<homeState, track, carded, streams, filmed, local, found, running, blips>>
    BY <1>2 DEF SyncVideo
  <2>2. TheDogsFit(theDogs) /\ carded \subseteq Race
    BY DEF VideosIInv
  <2>3. theDogs' = [theDogs EXCEPT ![r] = row]
    BY <1>2 DEF SyncVideo
  <2>4. row \in {"page", "stream"} /\ (row = "stream" => r \in streams)
    BY <2>2 DEF TheDogsFit
  <2> HIDE DEF row
  <2>5. /\ TheDogsFit(theDogs')
        /\ \A q \in Race : theDogs[q] # "none" => theDogs'[q] # "none"
    BY <2>1, <2>2, <2>3, <2>4, WriteFits
  <2>6. TheDogsFit(theDogs)' /\ LocalFit(local)'
    BY <2>1, <2>5 DEF VideosIInv, TheDogsFit, LocalFit, Tellable
  <2>7. JobFits'
    BY <2>1, <2>5 DEF VideosIInv, JobFits, FirstRace, JobRow
  <2> QED
    BY <2>1, <2>6, <2>7 DEF VideosIInv
<1>3. ASSUME NEW name \in {"all", "thedogs"}, NEW refresh \in BOOLEAN, StartJob(name, refresh)
      PROVE  VideosIInv'
  <2> DEFINE j == [NoJob EXCEPT !.name = name, !.refresh = refresh, !.pass = "read"]
  <2>1. j \in JobRow /\ j.pass = "read"
    BY DEF NoJob, JobRow
  <2>2. /\ running' = j
        /\ UNCHANGED <<homeState, track, carded, streams, filmed, theDogs, local, found, blips>>
    BY <1>3 DEF StartJob
  <2> HIDE DEF j
  <2>3. JobFits'
    BY <2>1, <2>2 DEF JobFits
  <2>4. TheDogsFit(theDogs)' /\ LocalFit(local)'
    BY <2>2 DEF VideosIInv, TheDogsFit, LocalFit, Tellable
  <2> QED
    BY <2>2, <2>3, <2>4 DEF VideosIInv
<1>4. CASE JobDies
  BY <1>4, JobStops DEF JobDies
<1>5. CASE UNCHANGED videoVars
  BY <1>5 DEF videoVars, VideosIInv, TheDogsFit, LocalFit, Tellable, JobFits, FirstRace
<1>6. {FALSE} \cup Refreshes \subseteq BOOLEAN
  BY VideosAssumption
<1> QED
  BY <1>1, <1>2, <1>3, <1>4, <1>5, <1>6, AllJobStep, TheDogsJobStep DEF VideosNext

LEMMA VideosAlwaysFit == VideosSpec => []VideosIInv
  BY VideosInitFits, VideosNextFits, PTL DEF VideosSpec

(* The variables of the replays keep their types.                          *)
THEOREM VideosTypeCorrect == VideosSpec => []VideosTypeOK
<1>1. VideosIInv => VideosTypeOK
  BY DEF VideosIInv, VideosTypeOK, TheDogsFit, LocalFit, JobFits, JobRow
<1> QED
  BY <1>1, VideosAlwaysFit, PTL

(* A row of RaceVideo is of the race it names: TheDogs shows its page, and *)
(* the stream it has; the state's provider shows its video, and could tell *)
(* it from the races of other tracks on that day, although a rerun of the  *)
(* job looks only at the races whose videos are missing.                   *)
THEOREM VideosAreTheirs ==
    VideosSpec => [](\A r \in Race :
        /\ theDogs[r] # "none" => r \in carded
        /\ theDogs[r] = "stream" => r \in streams
        /\ local[r] # "none" => r \in filmed /\ Tellable(r))
<1>1. VideosIInv => \A r \in Race :
        /\ theDogs[r] # "none" => r \in carded
        /\ theDogs[r] = "stream" => r \in streams
        /\ local[r] # "none" => r \in filmed /\ Tellable(r)
  BY DEF VideosIInv, TheDogsFit, LocalFit
<1> QED
  BY <1>1, VideosAlwaysFit, PTL

-----------------------------------------------------------------------------
(* All jobs.                                                               *)

(* What a behaviour of the instances of MCHarvest does to the variables of *)
(* one job is a behaviour of that job.                                     *)
LEMMA JobsOfSides ==
    SidesSpec => Spec /\ ShardsSpec /\ ArchiveSpec /\ ImportSpec /\ PagesSpec /\ VideosSpec
<1>1. SidesInit => Init /\ ShardsInit /\ ArchiveInit /\ ImportInit /\ PagesInit /\ VideosInit
  BY DEF SidesInit
<1>2. [SidesNext]_all => /\ [Next]_vars /\ [ShardsNext]_harvestVars
                         /\ [ArchiveNext]_archiveVars /\ [ImportNext]_profileVars
                         /\ [PagesNext]_pageVars /\ [VideosNext]_videoVars
  BY DEF SidesNext, all
<1> QED
  BY <1>1, <1>2, PTL
  DEF SidesSpec, Spec, ShardsSpec, ArchiveSpec, ImportSpec, PagesSpec, VideosSpec

(* The variables of each job keep their types while it runs.               *)
THEOREM HarvestTypesStayOK == SidesSpec => []TypesOK
<1>1. (TypeOK /\ HasCard /\ HasDog) /\ ShardsTypeOK /\ ArchiveTypeOK /\ ImportTypeOK
      /\ PagesTypeOK /\ VideosTypeOK => TypesOK
  BY DEF TypesOK
<1> QED
  BY <1>1, JobsOfSides, TypeCorrect, ShardsTypeCorrect, ArchiveTypeCorrect,
     ImportTypeCorrect, PagesTypeCorrect, VideosTypeCorrect, PTL
=============================================================================
