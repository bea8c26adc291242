-------------------------- MODULE ListingLifecycle --------------------------
(***************************************************************************)
(* The marketplace listing workflow of src/lib/listing-service.ts.         *)
(*                                                                         *)
(* Every owner and moderator operation is a request that reads the listing *)
(* in one database transaction and writes it in another, so a request is   *)
(* two actions, Read and a write, and any other request, the maintenance   *)
(* job or the account-deletion job may commit between them.  The write of  *)
(* an edit copies columns from the row the request read.                   *)
(***************************************************************************)
EXTENDS Integers

CONSTANTS
    Listing,      \* listing identifiers
    Request,      \* requests in flight, of owners and of moderators
    Ops,          \* the operations requests perform, a subset of AllOps
    Null,         \* SQL NULL
    MaxTime,      \* bound on the clock
    MaxEdits,     \* bound on the contents one listing can have
    ListingDays,  \* LISTING_DURATION_DAYS
    SoldDays      \* SOLD_SEARCH_DAYS

OwnerOps == {"update", "renew", "sold", "withdraw"}
ModeratorOps == {"approve", "reject", "remove"}
AllOps == OwnerOps \cup ModeratorOps

ASSUME OpsAssumption == Ops \subseteq AllOps
ASSUME TimeAssumption ==
    /\ MaxTime \in Nat /\ MaxEdits \in Nat
    /\ ListingDays \in Nat /\ SoldDays \in Nat
ASSUME NullAssumption == Null \notin Int

Statuses == {"absent", "pending_review", "active", "rejected", "removed",
             "expired", "sold", "withdrawn", "archived"}
ModerationStatuses == {"pending_review", "approved", "rejected", "removed"}

SoldAllowedFrom == {"active", "expired"}
WithdrawAllowedFrom == {"active", "pending_review", "expired"}

Date == Nat \cup {Null}

\* The columns of a Listing row the workflow reads or writes.  content names
\* the version of the text, price and media a reader sees.
Row == [status : Statuses, moderationStatus : ModerationStatuses,
        reviewed : BOOLEAN, expiresAt : Date, soldAt : Date,
        archivedAt : Date, content : Nat]

NoRow == [status |-> "absent", moderationStatus |-> "pending_review",
          reviewed |-> FALSE, expiresAt |-> Null, soldAt |-> Null,
          archivedAt |-> Null, content |-> 0]

\* The last ListingStatusHistory row of a listing.
HistoryRow == [from : Statuses, to : Statuses, actor : {"owner", "moderator"}]
NoHistory == [from |-> "absent", to |-> "absent", actor |-> "owner"]

VARIABLES
    now,          \* the clock, in days
    listing,      \* the Listing table
    history,      \* listing -> its last ListingStatusHistory row
    edits,        \* listing -> number of contents written so far
    approved,     \* listing -> the content in place at the last approval
    deleted,      \* listing -> its owner's account was deleted
    req           \* request -> what it is doing, and the row it read

vars == <<now, listing, history, edits, approved, deleted, req>>

Idle == [op |-> "idle", listing |-> Null, seen |-> NoRow]
InFlight == [op : Ops, listing : Listing, seen : Row]

Init ==
    /\ now = 0
    /\ listing = [l \in Listing |-> NoRow]
    /\ history = [l \in Listing |-> NoHistory]
    /\ edits = [l \in Listing |-> 0]
    /\ approved = [l \in Listing |-> 0]
    /\ deleted = [l \in Listing |-> FALSE]
    /\ req = [r \in Request |-> Idle]

-----------------------------------------------------------------------------
(* Creating a listing: its row and its first history row, in one           *)
(* transaction.                                                            *)
CreateListing(l) ==
    /\ listing[l].status = "absent"
    /\ edits[l] < MaxEdits
    /\ listing' = [listing EXCEPT ![l] =
            [NoRow EXCEPT !.status = "pending_review",
                          !.content = edits[l] + 1]]
    /\ edits' = [edits EXCEPT ![l] = @ + 1]
    /\ history' = [history EXCEPT ![l] =
            [from |-> "absent", to |-> "pending_review", actor |-> "owner"]]
    /\ UNCHANGED <<now, approved, deleted, req>>

\* The guard an operation puts on the row it has just read.
ReadGuard(op, row) ==
    /\ op = "sold" => row.status \in SoldAllowedFrom
    /\ op = "withdraw" => row.status \in WithdrawAllowedFrom

(* The first transaction of a request: getOwnedListing, or the findUnique  *)
(* of a moderator's operation.                                             *)
Read(r, op, l) ==
    /\ req[r] = Idle
    /\ listing[l].status # "absent"
    /\ op \in OwnerOps => ~deleted[l]
    /\ ReadGuard(op, listing[l])
    /\ req' = [req EXCEPT ![r] =
            [op |-> op, listing |-> l, seen |-> listing[l]]]
    /\ UNCHANGED <<now, listing, history, edits, approved, deleted>>

(* A request that fails between its two transactions: a validation error,  *)
(* a timeout of the transaction, the end of the instance.                  *)
Abandon(r) ==
    /\ req[r] # Idle
    /\ req' = [req EXCEPT ![r] = Idle]
    /\ UNCHANGED <<now, listing, history, edits, approved, deleted>>

Log_ToIsNull(r, to) ==
    history' = [history EXCEPT ![req[r].listing] =
        [from |-> req[r].seen.status, to |-> Null, actor |-> "owner"]]

\* The status-history row a write leaves: fromStatus is the status the
\* request read, which may no longer be the one the write replaces.
Log(r, to) ==
    history' = [history EXCEPT ![req[r].listing] =
        [from |-> req[r].seen.status, to |-> to,
         actor |-> IF req[r].op \in OwnerOps THEN "owner" ELSE "moderator"]]

\* What every write of a request shares: it writes row to its listing and the
\* request is done.
Write(r, row) ==
    /\ listing' = [listing EXCEPT ![req[r].listing] = row]
    /\ req' = [req EXCEPT ![r] = Idle]
    /\ UNCHANGED <<now, deleted>>

Current(r) == listing[req[r].listing]

EditedRow_LeavesStatus(r, content) ==
    [Current(r) EXCEPT !.content = content]

\* The row an edit writes: the status and the review columns come from the
\* row the request read, and so does the content when the edit changes only
\* what the request supplied elsewhere (attributes, category).
EditedRow(r, content) ==
    LET seen == req[r].seen IN
    IF seen.status = "active"
    THEN [Current(r) EXCEPT !.status = "pending_review",
                            !.moderationStatus = "pending_review",
                            !.reviewed = FALSE,
                            !.expiresAt = Null,
                            !.content = content]
    ELSE [Current(r) EXCEPT !.status = seen.status,
                            !.moderationStatus = seen.moderationStatus,
                            !.reviewed = seen.reviewed,
                            !.expiresAt = seen.expiresAt,
                            !.content = content]

LogEdit(r) ==
    IF req[r].seen.status = "active" THEN Log(r, "pending_review")
                                     ELSE UNCHANGED history

UpdateContent(r) ==
    LET l == req[r].listing IN
    /\ req[r].op = "update"
    /\ edits[l] < MaxEdits
    /\ edits' = [edits EXCEPT ![l] = @ + 1]
    /\ Write(r, EditedRow(r, edits[l] + 1))
    /\ LogEdit(r)
    /\ UNCHANGED approved

UpdateRest(r) ==
    /\ req[r].op = "update"
    /\ Write(r, EditedRow(r, req[r].seen.content))
    /\ LogEdit(r)
    /\ UNCHANGED <<edits, approved>>

Renew(r) ==
    /\ req[r].op = "renew"
    /\ Write(r,
             [Current(r) EXCEPT !.status = "pending_review",
                                !.moderationStatus = "pending_review",
                                !.reviewed = FALSE, !.expiresAt = Null,
                                !.soldAt = Null, !.archivedAt = Null])
    /\ Log(r, "pending_review")
    /\ UNCHANGED <<edits, approved>>

\* The condition in the WHERE clause of the two guarded writes.  When it
\* fails the update throws, which is Abandon.
StillIn(r, allowed) == Current(r).status \in allowed

MarkSold(r) ==
    /\ req[r].op = "sold"
    /\ StillIn(r, SoldAllowedFrom)
    /\ Write(r, [Current(r) EXCEPT !.status = "sold", !.soldAt = now,
                                           !.archivedAt = Null])
    /\ Log(r, "sold")
    /\ UNCHANGED <<edits, approved>>

Withdraw(r) ==
    /\ req[r].op = "withdraw"
    /\ StillIn(r, WithdrawAllowedFrom)
    /\ Write(r, [Current(r) EXCEPT !.status = "withdrawn",
                                               !.archivedAt = Null])
    /\ Log(r, "withdrawn")
    /\ UNCHANGED <<edits, approved>>

ApprovedRow_KeepsArchivedAt(r) ==
    [Current(r) EXCEPT !.status = "active", !.moderationStatus = "approved",
                       !.reviewed = TRUE, !.expiresAt = now + ListingDays,
                       !.soldAt = Null]

ApprovedRow(r) ==
    [Current(r) EXCEPT !.status = "active", !.moderationStatus = "approved",
                       !.reviewed = TRUE, !.expiresAt = now + ListingDays,
                       !.soldAt = Null, !.archivedAt = Null]

Approve(r) ==
    LET l == req[r].listing IN
    /\ req[r].op = "approve"
    /\ Write(r, ApprovedRow(r))
    /\ Log(r, "active")
    /\ approved' = [approved EXCEPT ![l] = listing[l].content]
    /\ UNCHANGED edits

Reject(r) ==
    /\ req[r].op = "reject"
    /\ Write(r,
             [Current(r) EXCEPT !.status = "rejected",
                                !.moderationStatus = "rejected",
                                !.reviewed = TRUE, !.archivedAt = Null])
    /\ Log(r, "rejected")
    /\ UNCHANGED <<edits, approved>>

Remove(r) ==
    /\ req[r].op = "remove"
    /\ Write(r,
             [Current(r) EXCEPT !.status = "removed",
                                !.moderationStatus = "removed",
                                !.reviewed = TRUE, !.archivedAt = now])
    /\ Log(r, "removed")
    /\ UNCHANGED <<edits, approved>>

-----------------------------------------------------------------------------
(* runListingMaintenance: two set updates in one transaction, the second   *)
(* over the rows the first leaves.                                         *)
Overdue(row) ==
    /\ row.status = "active" /\ row.archivedAt = Null
    /\ row.expiresAt # Null /\ row.expiresAt < now

SoldLongAgo(row) ==
    /\ row.status = "sold" /\ row.archivedAt = Null
    /\ row.soldAt # Null /\ row.soldAt < now - SoldDays

Maintained_SoldOnly(row) ==
    IF SoldLongAgo(row)
    THEN [row EXCEPT !.status = "archived", !.archivedAt = now]
    ELSE row

Maintained(row) ==
    CASE Overdue(row) -> [row EXCEPT !.status = "expired"]
      [] SoldLongAgo(row) -> [row EXCEPT !.status = "archived",
                                         !.archivedAt = now]
      [] OTHER -> row

Maintenance ==
    /\ \E l \in Listing : Overdue(listing[l]) \/ SoldLongAgo(listing[l])
    /\ listing' = [l \in Listing |-> Maintained(listing[l])]
    /\ UNCHANGED <<now, history, edits, approved, deleted, req>>

(* scrubProfileOwnedContent archives the listings of a deleted account,    *)
(* whatever request of its owner is still in flight.                       *)
ArchiveForDeletedAccount(l) ==
    /\ listing[l].status # "absent"
    /\ ~deleted[l]
    /\ edits[l] < MaxEdits
    /\ listing' = [listing EXCEPT ![l] =
            [@ EXCEPT !.status = "archived", !.archivedAt = now,
                      !.content = edits[l] + 1]]
    /\ edits' = [edits EXCEPT ![l] = @ + 1]
    /\ deleted' = [deleted EXCEPT ![l] = TRUE]
    /\ UNCHANGED <<now, history, approved, req>>

Tick ==
    /\ now < MaxTime
    /\ now' = now + 1
    /\ UNCHANGED <<listing, history, edits, approved, deleted, req>>

Next ==
    \/ \E l \in Listing : CreateListing(l)
    \/ \E r \in Request, op \in Ops, l \in Listing : Read(r, op, l)
    \/ \E r \in Request : Abandon(r)
    \/ \E r \in Request : UpdateContent(r)
    \/ \E r \in Request : UpdateRest(r)
    \/ \E r \in Request : Renew(r)
    \/ \E r \in Request : MarkSold(r)
    \/ \E r \in Request : Withdraw(r)
    \/ \E r \in Request : Approve(r)
    \/ \E r \in Request : Reject(r)
    \/ \E r \in Request : Remove(r)
    \/ Maintenance
    \/ \E l \in Listing : ArchiveForDeletedAccount(l)
    \/ Tick

Spec == Init /\ [][Next]_vars

\* The listing-expiry job is run by a scheduler every day, whatever the
\* users do, so it is not postponed for ever once it has work.
FairSpec == Spec /\ WF_vars(Maintenance)

-----------------------------------------------------------------------------
(* Types of every variable: rows, history rows and what requests carry.    *)
TypeOK ==
    /\ now \in Nat
    /\ listing \in [Listing -> Row]
    /\ history \in [Listing -> HistoryRow]
    /\ edits \in [Listing -> Nat]
    /\ approved \in [Listing -> Nat]
    /\ deleted \in [Listing -> BOOLEAN]
    /\ req \in [Request -> InFlight \cup {Idle}]

(* listingIsPublic shows active listings only, so a listing must never be  *)
(* active with a moderation decision other than approval, nor with the     *)
(* dates of a listing that was sold or archived: not after any             *)
(* interleaving of stale edits, decisions and jobs.                        *)
ActiveIsApproved ==
    \A l \in Listing : listing[l].status = "active" =>
        /\ listing[l].moderationStatus = "approved"
        /\ listing[l].reviewed
        /\ listing[l].expiresAt # Null
        /\ listing[l].soldAt = Null
        /\ listing[l].archivedAt = Null

(* What the public sees is the content that was in place when a moderator  *)
(* approved: an edit that was read before an approval and lands after it   *)
(* takes the listing out of active, whatever status it had read.           *)
PublicContentIsApproved ==
    \A l \in Listing :
        listing[l].status = "active" => listing[l].content = approved[l]

(* Both of them: whatever the public sees, a moderator has let through.    *)
PublicIsVetted == ActiveIsApproved /\ PublicContentIsApproved

(* A listing is active only if its status history says so last, although   *)
(* edits, expiry and account deletion change the status without history.   *)
ActiveIsOnRecord ==
    \A l \in Listing :
        listing[l].status = "active" =>
            history[l].to = "active" /\ history[l].actor = "moderator"

(* An owner's edit, sale or withdrawal leaves a listing as a moderator has *)
(* rejected or removed it, as the comment at listing-service.ts:33-34 says *)
(* of the owner's transitions; a renewal is meant to return it to review.  *)
DecisionsStand ==
    [][\A r \in Request :
          LET l == req[r].listing IN
          /\ req[r].op \in OwnerOps \ {"renew"} /\ req'[r] # req[r]
          /\ listing[l].status \in {"rejected", "removed"}
          => listing'[l].status = listing[l].status]_vars

(* A listing past its ninety days leaves active, or is approved anew: the  *)
(* daily job finds it although it looks only at rows without archivedAt.   *)
OverdueExpires ==
    \A l \in Listing :
        []<>(listing[l].status = "active" => listing[l].expiresAt >= now)
=============================================================================
