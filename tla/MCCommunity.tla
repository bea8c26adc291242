----------------------------- MODULE MCCommunity -----------------------------
(* Small instances of what members and moderators do to rows that the      *)
(* parts do not share: listings, pages and claims of dogs, reports, and    *)
(* the runs and a memory of agents; and of the jobs that make the rows of  *)
(* dogs.  Each behaviour is of one part, side; the variables of the others *)
(* keep their initial values.  Requests are interchangeable.               *)
EXTENDS ListingLifecycle, CustomPages, Reports, AgentRuns, AgentMemory,
        DogIdentity, TLC

CONSTANTS ann, bob, d1, d2, m1, u1, a1, a2, a3

VARIABLE side

Permuted == Permutations(Request)

\* An agent the tier is for, twice, and one it is not for.
AllowanceOfTier == [free |-> 0, pro |-> 100, pro_plus |-> 500]
TierOfRun == [r \in Run |-> "pro"]
NeedsOfRun == [r \in Run |-> IF r = a3 THEN "pro_plus" ELSE "pro"]

\* A dog on cards, and a daughter with a profile.
SireOf == [a \in Animal |-> IF a = d2 THEN d1 ELSE NoDog]

\* A bound: once a sync has cards of the second site, it is alone.
Enriched ==
    \/ \E a \in Racing : ~(carded[a] \subseteq {TheDogs})
    \/ \E s \in Sync : sync[s] # NoDog /\ ~(sync[s].cards \subseteq {TheDogs})

-----------------------------------------------------------------------------
SidesInit ==
    /\ side \in {"listings", "pages", "reports", "runs", "memory", "dogs"}
    /\ Init /\ PagesInit /\ ReportsInit /\ RunsInit /\ MemoryInit /\ DogsInit
    /\ side # "memory" => start = 3

SidesNext ==
    /\ \/ side = "listings" /\ Next
          /\ UNCHANGED <<pageVars, reportVars, runVars, memVars, identityVars>>
       \/ side = "pages" /\ PagesNext
          /\ UNCHANGED <<vars, reportVars, runVars, memVars, identityVars>>
       \/ side = "reports" /\ ReportsNext
          /\ UNCHANGED <<vars, pageVars, runVars, memVars, identityVars>>
       \/ side = "runs" /\ RunsNext
          /\ UNCHANGED <<vars, pageVars, reportVars, memVars, identityVars>>
       \/ side = "memory" /\ MemoryNext
          /\ UNCHANGED <<vars, pageVars, reportVars, runVars, identityVars>>
       \/ side = "dogs" /\ DogsNext
          /\ (Enriched' => UNCHANGED <<work, fetching>> /\ sync'[bob] = NoDog)
          /\ UNCHANGED <<vars, pageVars, reportVars, runVars, memVars>>
    /\ UNCHANGED side

SidesSpec == SidesInit /\
    [][SidesNext]_<<side, vars, pageVars, reportVars, runVars, memVars, identityVars>>

TypesOK ==
    /\ side = "listings" => TypeOK
    /\ side = "pages" => PagesTypeOK
    /\ side = "reports" => ReportsTypeOK
    /\ side = "runs" => RunsTypeOK
    /\ side = "memory" => MemoryTypeOK
    /\ side = "dogs" => DogsTypeOK
=============================================================================
