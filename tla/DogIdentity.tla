----------------------------- MODULE DogIdentity -----------------------------
(***************************************************************************)
(* Which row stands for which greyhound.  Rows of Dog are made and changed *)
(* by the live sync (ensureDogs of src/lib/live/sync.ts), by the job that  *)
(* fetches profiles (src/lib/live/dog-profile-sync.ts), by the import of   *)
(* archived profiles (scripts/import-thedogs-dog-profile-raw.ts) and by    *)
(* the import of the stud book (scripts/import-galtd-studbook.ts).         *)
(*                                                                         *)
(* earBrand holds the id a site gives to a dog, with the site's name.  Two *)
(* dogs never have one name, as the stud book's import assumes, so a dog   *)
(* stands for its name; and every card carries the id of its site.         *)
(***************************************************************************)
EXTENDS Naturals, Sequences, FiniteSets

CONSTANTS
    Animal,     \* greyhounds, or their names
    Racing,     \* those that are on cards
    Sire,       \* animal -> its sire on its profile, or None
    Sites,      \* sites whose cards are synced, in the order of their feeds
    Race,
    Sync,       \* syncs that may overlap
    Import,     \* importers of profiles that may overlap
    MaxRows,    \* bound on the rows of Dog
    NoDog

StudBook == 0
TheDogs == 1

IdOf(site, a) == <<site, a>>
Ids == ({StudBook, TheDogs} \cup Sites) \X Animal

ASSUME DogsAssumption ==
    /\ Racing \subseteq Animal /\ Sire \in [Animal -> Animal \cup {NoDog}]
    /\ Sites \subseteq Nat \ {0} /\ IsFiniteSet(Sites) /\ MaxRows \in Nat
    /\ NoDog \notin Animal \cup Nat \cup Ids

VARIABLES
    dog,        \* the rows of Dog
    runner,     \* race -> animal -> the row its Runner is linked to
    carded,     \* animal -> the sites whose cards of it have been written
    sync,       \* what each sync has looked up
    fetching,   \* the row whose profile is being fetched, and by which id
    work        \* what each importer has done of a profile

identityVars == <<dog, runner, carded, sync, fetching, work>>

DogRow == [name : Animal, brand : Ids, source : Ids \cup {NoDog}, synced : BOOLEAN]
DogId == 1..MaxRows

DogsInit ==
    /\ dog = <<>>
    /\ runner = [r \in Race |-> [a \in Racing |-> NoDog]]
    /\ carded = [a \in Animal |-> {}]
    /\ sync = [s \in Sync |-> NoDog]
    /\ fetching = NoDog
    /\ work = [i \in Import |-> NoDog]

-----------------------------------------------------------------------------
(* The two unique keys of Dog, earBrand and (sourceProvider, sourceId):    *)
(* what a table may not hold twice.                                        *)
Unique(d) ==
    \A q, r \in DOMAIN d : q # r =>
        /\ d[q].brand # d[r].brand
        /\ d[q].source # NoDog => d[q].source # d[r].source

Branded(d, id) == {r \in DOMAIN d : d[r].brand = id}
Named(a) == {r \in DOMAIN dog : dog[r].name = a}
NewRow(a, id, source) == [name |-> a, brand |-> id, source |-> source, synced |-> FALSE]

\* One of the rows, whichever the query returns first or last.
OneOf(rows) == IF rows = {} THEN {NoDog} ELSE rows

(* ensureDogs, for the box of one dog on the cards of some sites.  It      *)
(* looks for rows with the ids and with the name; of several of one name   *)
(* the last of the answer counts.                                          *)
Look(s, race, a, cards) ==
    /\ sync[s] = NoDog /\ cards # {}
    /\ \E row \in OneOf(Named(a)) :
        sync' = [sync EXCEPT ![s] =
            [race |-> race, animal |-> a, cards |-> cards, named |-> row,
             known |-> {k \in cards \X DOMAIN dog :
                            dog[k[2]].brand = IdOf(k[1], a)}]]
    /\ UNCHANGED <<dog, runner, carded, fetching, work>>

Latest(cards) == CHOOSE c \in cards : \A b \in cards : b <= c
IsKnown(j, c) == \E k \in j.known : k[1] = c
Unknown(j) == {c \in j.cards : ~IsKnown(j, c)}

(* An id that is not known goes to the row of that name, one site after    *)
(* the other; without such a row each makes one, unless a row has the id   *)
(* by now.                                                                 *)
Rebranded(j) ==
    IF j.named = NoDog \/ Unknown(j) = {} THEN dog
    ELSE [dog EXCEPT ![j.named].brand = IdOf(Latest(Unknown(j)), j.animal)]

\* In whichever order; nothing tells the new rows apart but their ids.
AsList(cards) ==
    CHOOSE s \in [1..Cardinality(cards) -> cards] :
        /\ \A m, n \in DOMAIN s : s[m] = s[n] => m = n
        /\ \A c \in cards : \E n \in DOMAIN s : s[n] = c

Made(a, cards) ==
    LET new == AsList({c \in cards : Branded(dog, IdOf(c, a)) = {}})
    IN  dog \o [i \in DOMAIN new |-> NewRow(a, IdOf(new[i], a), NoDog)]

Resolved(j) ==
    IF j.named = NoDog THEN Made(j.animal, Unknown(j)) ELSE Rebranded(j)

\* The key of a dog is its id, which names no row of another site.
RowFor_ByName(j, d) ==
    IF j.named # NoDog THEN j.named
    ELSE CHOOSE r \in DOMAIN d : d[r].brand = IdOf(Latest(j.cards), j.animal)

RowFor(j, d) ==
    LET c == Latest(j.cards)
    IN  IF IsKnown(j, c) THEN (CHOOSE k \in j.known : k[1] = c)[2]
        ELSE IF j.named # NoDog THEN j.named
        ELSE CHOOSE r \in DOMAIN d : d[r].brand = IdOf(c, j.animal)

(* A new id may be on another row by now: the error is caught, but the     *)
(* transaction is aborted, and the sync fails with all it wrote.           *)
Clash(j) ==
    /\ j.named # NoDog
    /\ \E c \in Unknown(j) : Branded(dog, IdOf(c, j.animal)) \ {j.named} # {}

WriteDogs(s) ==
    LET j == sync[s]
    IN  /\ j # NoDog
        /\ sync' = [sync EXCEPT ![s] = NoDog]
        /\ IF Clash(j) THEN UNCHANGED <<dog, runner, carded>>
           ELSE /\ Len(Resolved(j)) <= MaxRows
                /\ dog' = Resolved(j)
                \* The card of the last site is the one whose Runner stays.
                /\ runner' = [runner EXCEPT ![j.race][j.animal] =
                                RowFor(j, Resolved(j))]
                /\ carded' = [carded EXCEPT ![j.animal] = @ \cup j.cards]
        /\ UNCHANGED <<fetching, work>>

-----------------------------------------------------------------------------
(* The upsert of a parent, by its id, in the table d.                      *)
WithSire(d, a) ==
    LET p == Sire[a]
        id == IdOf(TheDogs, p)
    IN  IF p = NoDog THEN d
        ELSE IF Branded(d, id) = {}
        THEN Append(d, NewRow(p, id, id))
        ELSE [r \in DOMAIN d |-> IF d[r].brand = id
                THEN [d[r] EXCEPT !.source = id] ELSE d[r]]

\* A profile on its row: of its own site and id, by whatever name.
WithProfile(d, r, a, brand) ==
    [d EXCEPT ![r] = [name |-> a, brand |-> brand,
                      source |-> IdOf(TheDogs, a), synced |-> TRUE]]

(* The job lists rows that ran and have no profile yet, and fetches by the *)
(* id the row has from any site, which only TheDogs knows.                 *)
Pending(r) ==
    /\ dog[r].brand[1] = TheDogs /\ ~dog[r].synced
    /\ \E race \in Race, a \in Racing : runner[race][a] = r

List(r) ==
    /\ fetching = NoDog /\ r \in DOMAIN dog /\ Pending(r)
    /\ fetching' = [row |-> r, id |-> IF dog[r].source # NoDog
                                      THEN dog[r].source ELSE dog[r].brand]
    /\ UNCHANGED <<dog, runner, carded, sync, work>>

Save ==
    /\ fetching # NoDog /\ fetching.id[1] = TheDogs
    /\ LET a == fetching.id[2]
           d == WithProfile(WithSire(dog, a), fetching.row, a, IdOf(TheDogs, a))
       IN  Unique(d) /\ Len(d) <= MaxRows /\ dog' = d
    /\ fetching' = NoDog
    /\ UNCHANGED <<runner, carded, sync, work>>

\* The page is not found, the database refuses, or the job dies.
GiveUp ==
    /\ fetching # NoDog
    /\ fetching' = NoDog
    /\ UNCHANGED <<dog, runner, carded, sync, work>>

-----------------------------------------------------------------------------
(* The import of an archived profile, each statement for itself; one that  *)
(* fails on a parent's key has changed nothing.                            *)
ImportSire(i, a) ==
    LET d == WithSire(dog, a)
    IN  /\ work[i] = NoDog
        /\ Len(d) <= MaxRows /\ Unique(d)
        /\ dog' = d
        /\ work' = [work EXCEPT ![i] =
                [pc |-> "find", animal |-> a, row |-> NoDog, again |-> FALSE]]
        /\ UNCHANGED <<runner, carded, sync, fetching>>

FoundProfile(a) ==
    {r \in DOMAIN dog : IdOf(TheDogs, a) \in {dog[r].source, dog[r].brand}}

Find(i) ==
    /\ work[i] # NoDog /\ work[i].pc = "find"
    /\ \E row \in OneOf(FoundProfile(work[i].animal)) :
        work' = [work EXCEPT ![i] =
            IF row = NoDog /\ work[i].again THEN NoDog
            ELSE [work[i] EXCEPT !.pc = "save", !.row = row]]
    /\ UNCHANGED <<dog, runner, carded, sync, fetching>>

\* A create that another one came before looks for the row once more.
ImportSave(i) ==
    LET a == work[i].animal
        id == IdOf(TheDogs, a)
        r == work[i].row
        d == IF r # NoDog THEN WithProfile(dog, r, a, dog[r].brand)
             ELSE Append(dog, [name |-> a, brand |-> id, source |-> id,
                               synced |-> TRUE])
    IN  /\ work[i] # NoDog /\ work[i].pc = "save"
        /\ Len(d) <= MaxRows
        /\ dog' = IF Unique(d) THEN d ELSE dog
        /\ work' = [work EXCEPT ![i] =
                IF Unique(d) \/ r # NoDog \/ work[i].again THEN NoDog
                ELSE [work[i] EXCEPT !.pc = "find", !.again = TRUE]]
        /\ UNCHANGED <<runner, carded, sync, fetching>>

(* The stud book: rows that are there already are skipped.  Rows of other  *)
(* dogs play no part, so only dogs on cards are registered.                *)
Register(a) ==
    LET id == IdOf(StudBook, a)
        d == Append(dog, NewRow(a, id, id))
    IN  /\ Unique(d) /\ Len(d) <= MaxRows
        /\ dog' = d
        /\ UNCHANGED <<runner, carded, sync, fetching, work>>

Die(p) ==
    /\ \/ p \in Sync /\ sync[p] # NoDog
       \/ p \in Import /\ work[p] # NoDog
    /\ sync' = [s \in Sync |-> IF s = p THEN NoDog ELSE sync[s]]
    /\ work' = [i \in Import |-> IF i = p THEN NoDog ELSE work[i]]
    /\ UNCHANGED <<dog, runner, carded, fetching>>

DogsNext ==
    \/ \E s \in Sync :
        \/ \E race \in Race, a \in Racing, cards \in SUBSET Sites :
            Look(s, race, a, cards)
        \/ WriteDogs(s)
    \/ \E r \in DogId : List(r)
    \/ Save
    \/ GiveUp
    \/ \E i \in Import :
        \/ \E a \in Animal : ImportSire(i, a)
        \/ Find(i)
        \/ ImportSave(i)
    \/ \E a \in Racing : Register(a)
    \/ \E p \in Sync \cup Import : Die(p)

DogsSpec == DogsInit /\ [][DogsNext]_identityVars

-----------------------------------------------------------------------------
DogsTypeOK ==
    /\ Len(dog) <= MaxRows /\ \A r \in DOMAIN dog : dog[r] \in DogRow
    /\ Unique(dog)
    /\ runner \in [Race -> [Racing -> DOMAIN dog \cup {NoDog}]]
    /\ carded \in [Animal -> SUBSET Sites]
    /\ \A s \in Sync : sync[s] # NoDog => sync[s].named \in DOMAIN dog \cup {NoDog}
    /\ fetching # NoDog => fetching.row \in DOMAIN dog
    /\ \A i \in Import : work[i] # NoDog => work[i].row \in DOMAIN dog \cup {NoDog}

(* All races of a greyhound are on one row of Dog, its own, and its        *)
(* profile is on that row too.                                             *)
OneDogOneRow ==
    \A a \in Racing, race \in Race :
        LET r == runner[race][a]
        IN  r # NoDog =>
            /\ dog[r].name = a
            /\ \A other \in Race : runner[other][a] \in {NoDog, r}
            /\ \A q \in DOMAIN dog : dog[q].source = IdOf(TheDogs, a) => q = r

(* So it is of a greyhound that only TheDogs has written cards of, whatever*)
(* sites are synced, although three jobs and an operator's import make rows*)
(* from what they looked up before; and no race of any greyhound is on the *)
(* row of another.                                                         *)
OneSiteOneRow ==
    \A a \in Racing, race \in Race :
        LET r == runner[race][a]
        IN  r # NoDog =>
            /\ dog[r].name = a
            /\ carded[a] \subseteq {TheDogs} =>
                /\ \A other \in Race : runner[other][a] \in {NoDog, r}
                /\ \A q \in DOMAIN dog : dog[q].source = IdOf(TheDogs, a) => q = r
=============================================================================
