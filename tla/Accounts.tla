------------------------------- MODULE Accounts -------------------------------
(***************************************************************************)
(* User rows: src/lib/auth-sync.ts finds or creates the row of whoever     *)
(* makes a request, src/lib/account-service.ts takes deletion requests and *)
(* scrubs accounts when the grace period is over, and moderators and       *)
(* admins ban users.  isBanned is set by bans and by deletion requests;    *)
(* only deletionRequestedAt tells them apart.  A sync reads the row and    *)
(* writes what it read back, at READ COMMITTED; the job reads all rows     *)
(* that are due and then scrubs them one after another.  WorkOS sessions   *)
(* carry the address their user had when they began: a user who changed it *)
(* has sessions with either, and one address may come from several users.  *)
(***************************************************************************)
EXTENDS Naturals

CONSTANTS
    Identity,       \* WorkOS users
    Email,          \* addresses
    Login,          \* WorkOS sessions: whose, with which address, verified or not
    MaxUsers,       \* bound on User rows, numbered as they were created
    Nobody          \* no row, an anonymised address, no WorkOS id

Id == 1..MaxUsers

UserRow == [email : Email \cup {Nobody}, workos : Identity \cup {Nobody},
            isBanned : BOOLEAN, asked : {"no", "grace", "due"}, scrubbed : BOOLEAN]

ASSUME AccountsAssumption ==
    /\ Login \subseteq [identity : Identity, email : Email, verified : BOOLEAN]
    /\ MaxUsers \in Nat /\ Nobody \notin Identity \cup Email \cup UserRow

\* Those whose address was never verified.
Unverified == {i \in Identity : \A l \in Login : l.identity = i => ~l.verified}

VARIABLES
    user,       \* User rows
    session,    \* login -> the sync its request is in, and its outcome
    due,        \* the rows the maintenance job has read, and not yet scrubbed
    founder,    \* history: row -> whose first sign-in created it, if one did
    requests    \* history: rows whose user asked for deletion a grace period ago

accountVars == <<user, session, due, founder, requests>>

Away == [pc |-> "away"]
Session ==
    {Away} \cup [pc : {"create"}]
           \cup [pc : {"update"}, id : Id, isBanned : BOOLEAN,
                 asked : {"no", "grace", "due"}]
           \cup [pc : {"in"}, id : Id]

AccountsInit ==
    /\ user = [n \in Id |-> Nobody]
    /\ session = [l \in Login |-> Away]
    /\ due = {} /\ requests = {}
    /\ founder = [n \in Id |-> Nobody]

Existing == {n \in Id : user[n] # Nobody}
NewUser(email, workos) ==
    [email |-> email, workos |-> workos, isBanned |-> FALSE, asked |-> "no",
     scrubbed |-> FALSE]

\* The unique indexes on email and on workosUserId.
Free(email, workos, others) ==
    \A n \in Existing \cap others :
        /\ email = Nobody \/ user[n].email # email
        /\ workos = Nobody \/ user[n].workos # workos

-----------------------------------------------------------------------------
(* authLookupWhere and the oldest row it finds.                            *)
Matches_AnyEmail(l) ==
    {n \in Existing : user[n].workos = l.identity \/ user[n].email = l.email}

Matches(l) ==
    {n \in Existing : \/ user[n].workos = l.identity
                      \/ l.verified /\ user[n].email = l.email}

Found(l) == CHOOSE n \in Matches(l) : \A m \in Matches(l) : n <= m

SyncReads(l) ==
    /\ session[l].pc \in {"away", "in"}
    /\ session' = [session EXCEPT ![l] =
        IF Matches(l) = {} THEN [pc |-> "create"]
        ELSE LET row == user[Found(l)]
             IN  IF row.isBanned /\ row.asked = "no" THEN Away
                 ELSE [pc |-> "update", id |-> Found(l),
                       isBanned |-> row.isBanned, asked |-> row.asked]]
    /\ UNCHANGED <<user, due, founder, requests>>

SyncCreates(l) ==
    /\ session[l].pc = "create"
    /\ IF Free(l.email, l.identity, Id)
       THEN \E n \in Id :
                /\ Existing = 1..(n - 1)
                /\ user' = [user EXCEPT ![n] = NewUser(l.email, l.identity)]
                /\ founder' = [founder EXCEPT ![n] = l.identity]
                /\ session' = [session EXCEPT ![l] = [pc |-> "in", id |-> n]]
       ELSE /\ session' = [session EXCEPT ![l] = Away]
            /\ UNCHANGED <<user, founder>>
    /\ UNCHANGED <<due, requests>>

(* An account that waits for its deletion is restored; any other gets back *)
(* the values that were read.  The address and the WorkOS id of the login  *)
(* replace the row's, which may have others by now; a unique index on one  *)
(* of them may refuse it.                                                  *)
SyncUpdates(l) ==
    LET read == session[l]
        pending == read.isBanned /\ read.asked # "no"
        stays == IF pending THEN FALSE ELSE read.isBanned
    IN  /\ read.pc = "update"
        /\ IF Free(l.email, l.identity, Id \ {read.id})
           THEN /\ user' = [user EXCEPT ![read.id] =
                    [email |-> l.email, workos |-> l.identity, isBanned |-> stays,
                     asked |-> IF pending THEN "no" ELSE read.asked,
                     scrubbed |-> @.scrubbed]]
                /\ session' = [session EXCEPT ![l] =
                    IF stays THEN Away ELSE [pc |-> "in", id |-> read.id]]
           ELSE /\ session' = [session EXCEPT ![l] = Away]
                /\ UNCHANGED user
        /\ UNCHANGED <<due, founder, requests>>

(* The rest of a request that was let in: it asks for deletion, or not.    *)
AskDeletion(l) ==
    LET n == session[l].id
    IN  /\ session[l].pc = "in"
        /\ user' = [user EXCEPT ![n] = [email |-> Nobody, workos |-> @.workos,
                        isBanned |-> TRUE, asked |-> "grace",
                        scrubbed |-> @.scrubbed]]
        /\ session' = [session EXCEPT ![l] = Away]
        /\ UNCHANGED <<due, founder, requests>>

Leave(l) ==
    /\ session[l].pc # "away"
    /\ session' = [session EXCEPT ![l] = Away]
    /\ UNCHANGED <<user, due, founder, requests>>

-----------------------------------------------------------------------------
Changes(n, isBanned, asked) ==
    user' = [user EXCEPT ![n] = [email |-> @.email, workos |-> @.workos,
                isBanned |-> isBanned, asked |-> asked, scrubbed |-> @.scrubbed]]

(* resolveReportForModerator with ban_user.                                *)
Ban(n) ==
    /\ n \in Existing
    /\ Changes(n, TRUE, user[n].asked)
    /\ UNCHANGED <<session, due, founder, requests>>

(* updateAdminUserAccess: the form's two checkboxes.                       *)
AdminSets(n, ban, cancel) ==
    /\ n \in Existing
    /\ Changes(n, ban, IF cancel THEN "no" ELSE user[n].asked)
    /\ UNCHANGED <<session, due, founder, requests>>

(* createAdminUser: a row that waits for the first sign-in of its address. *)
(* Of a row that has the address it changes nothing that is kept here.     *)
AdminCreates(address) ==
    /\ \A n \in Existing : user[n].email # address
    /\ \E n \in Id : /\ Existing = 1..(n - 1)
                     /\ user' = [user EXCEPT ![n] = NewUser(address, Nobody)]
    /\ UNCHANGED <<session, due, founder, requests>>

-----------------------------------------------------------------------------
GraceEnds(n) ==
    /\ n \in Existing /\ user[n].asked = "grace"
    /\ Changes(n, user[n].isBanned, "due")
    /\ requests' = requests \cup {n}
    /\ UNCHANGED <<session, due, founder>>

(* The rows of runAccountDeletionMaintenance.                              *)
IsDue_NoGrace(n) == user[n].isBanned /\ user[n].asked # "no"
IsDue_NotBanned(n) == ~user[n].isBanned /\ user[n].asked = "due"
IsDue(n) == user[n].isBanned /\ user[n].asked = "due"

JobReads ==
    /\ due = {}
    /\ due' = {n \in Existing : IsDue(n)}
    /\ UNCHANGED <<user, session, founder, requests>>

(* One row, whatever has become of it since: its content, profile, media   *)
(* and memories, and the row itself.                                       *)
JobScrubs(n) ==
    /\ n \in due
    /\ user' = [user EXCEPT ![n] = [email |-> Nobody, workos |-> Nobody,
                    isBanned |-> TRUE, asked |-> "no", scrubbed |-> TRUE]]
    /\ due' = due \ {n}
    /\ UNCHANGED <<session, founder, requests>>

(* One row's transaction fails, and the error ends the job.                *)
JobFails ==
    /\ due # {}
    /\ due' = {}
    /\ UNCHANGED <<user, session, founder, requests>>

AccountsNext ==
    \/ \E l \in Login :
        \/ SyncReads(l) \/ SyncCreates(l) \/ SyncUpdates(l)
        \/ AskDeletion(l) \/ Leave(l)
    \/ \E address \in Email : AdminCreates(address)
    \/ \E n \in Id :
        \/ Ban(n) \/ GraceEnds(n) \/ JobScrubs(n)
        \/ \E ban, cancel \in BOOLEAN : AdminSets(n, ban, cancel)
    \/ JobReads \/ JobFails

AccountsSpec == AccountsInit /\ [][AccountsNext]_accountVars

-----------------------------------------------------------------------------
AccountsTypeOK ==
    /\ user \in [Id -> UserRow \cup {Nobody}]
    /\ session \in [Login -> Session]
    /\ founder \in [Id -> Identity \cup {Nobody}]
    /\ due \subseteq Id /\ requests \subseteq Id

Pending(n) == n \in Existing /\ user[n].isBanned /\ user[n].asked # "no"

(* The comment of authLookupWhere: an identity whose address was never     *)
(* verified comes by no account that its own first sign-in did not create, *)
(* however syncs of old and new addresses, bans, deletions and admin       *)
(* changes interleave.                                                     *)
UnverifiedNeverLinks ==
    \A n \in Existing : user[n].workos \in Unverified => founder[n] = user[n].workos

(* Content is scrubbed only after its user asked for the deletion and the  *)
(* grace period went by, although the job works from a list that may be    *)
(* old and syncs write old values back.                                    *)
ScrubWasAsked == \A n \in Existing : user[n].scrubbed => n \in requests

(* A deletion request is carried out or taken back: the row does not stay  *)
(* between, as long as the job is called again after it failed.            *)
Settles(n) == []<>~Pending(n)
DeletionSettles == \A n \in Id : Settles(n)
=============================================================================
