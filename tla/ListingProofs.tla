---------------------------- MODULE ListingProofs ----------------------------
(* What holds of ListingLifecycle for any listings, requests and times.    *)
EXTENDS ListingLifecycle, TLAPS

(* The facts about one listing's row, its history and its approval that    *)
(* keep it fit to be shown.                                                *)
Fit(written, hist, appr) ==
    written.status = "active" =>
        /\ written.moderationStatus = "approved" /\ written.reviewed
        /\ written.expiresAt # Null /\ written.soldAt = Null /\ written.archivedAt = Null
        /\ written.content = appr
        /\ hist.to = "active" /\ hist.actor = "moderator"

AllFit == \A l \in Listing : Fit(listing[l], history[l], approved[l])

ListingIInv == TypeOK /\ AllFit

(* A request that performs a write carries a listing and a row it read.    *)
LEMMA Carries ==
    ASSUME TypeOK, NEW r \in Request, req[r].op \in AllOps
    PROVE  req[r] \in InFlight
BY DEF TypeOK, Idle, AllOps, OwnerOps, ModeratorOps

(* The shape of every write: one row of the table changes, to a row of the *)
(* right type, and the request is done.                                    *)
LEMMA WriteTyped ==
    ASSUME TypeOK, NEW r \in Request, req[r] \in InFlight,
           NEW written \in Row, Write(r, written)
    PROVE  /\ listing' \in [Listing -> Row]
           /\ req' \in [Request -> InFlight \cup {Idle}]
           /\ now' = now /\ deleted' = deleted
           /\ listing'[req[r].listing] = written
           /\ \A l \in Listing \ {req[r].listing} : listing'[l] = listing[l]
BY DEF TypeOK, Write, InFlight

LEMMA LogTyped ==
    ASSUME TypeOK, NEW r \in Request, req[r] \in InFlight,
           NEW to \in Statuses, Log(r, to)
    PROVE  /\ history' \in [Listing -> HistoryRow]
           /\ history'[req[r].listing].to = to
           /\ history'[req[r].listing].actor =
                IF req[r].op \in OwnerOps THEN "owner" ELSE "moderator"
           /\ \A l \in Listing \ {req[r].listing} : history'[l] = history[l]
<1>1. req[r].listing \in Listing /\ req[r].seen.status \in Statuses
  BY DEF InFlight, Row
<1>2. [from |-> req[r].seen.status, to |-> to,
       actor |-> IF req[r].op \in OwnerOps THEN "owner" ELSE "moderator"]
      \in HistoryRow
  BY <1>1 DEF HistoryRow
<1> QED
  BY <1>1, <1>2 DEF Log, TypeOK

LEMMA NowIsADate ==
    ASSUME TypeOK
    PROVE  now \in Date /\ now + ListingDays \in Date /\ Null \in Date
BY TimeAssumption DEF TypeOK, Date

(* The rows a creation and an account deletion write.                      *)
LEMMA NewRowTyped ==
    ASSUME NEW c \in Nat
    PROVE  [NoRow EXCEPT !.status = "pending_review", !.content = c] \in Row
BY DEF NoRow, Row, Statuses, ModerationStatuses, Date

LEMMA ScrubbedRowTyped ==
    ASSUME NEW written \in Row, NEW c \in Nat, NEW d \in Date
    PROVE  [written EXCEPT !.status = "archived", !.archivedAt = d,
                       !.content = c] \in Row
BY DEF Row, Statuses

(* An edit writes a row of the right type that is not active.              *)
LEMMA EditedRowHides ==
    ASSUME TypeOK, NEW r \in Request, req[r] \in InFlight, NEW c \in Nat
    PROVE  EditedRow(r, c) \in Row /\ EditedRow(r, c).status # "active"
<1>1. listing[req[r].listing] \in Row /\ req[r].seen \in Row
  BY DEF TypeOK, InFlight
<1> QED
  BY <1>1 DEF EditedRow, Current, Row, Statuses, ModerationStatuses, Date

LEMMA LogEditTyped ==
    ASSUME TypeOK, NEW r \in Request, req[r] \in InFlight, LogEdit(r)
    PROVE  /\ history' \in [Listing -> HistoryRow]
           /\ \A l \in Listing \ {req[r].listing} : history'[l] = history[l]
<1>1. CASE Log(r, "pending_review")
  BY <1>1, LogTyped DEF Statuses
<1>2. CASE UNCHANGED history
  BY <1>2 DEF TypeOK
<1> QED
  BY <1>1, <1>2 DEF LogEdit

(* A write that leaves its own listing out of active keeps all rows fit.   *)
LEMMA HidingWrite ==
    ASSUME ListingIInv, NEW r \in Request, req[r] \in InFlight, NEW written \in Row,
           Write(r, written), written.status # "active",
           history' \in [Listing -> HistoryRow],
           \A l \in Listing \ {req[r].listing} : history'[l] = history[l],
           approved' = approved, edits' \in [Listing -> Nat]
    PROVE  ListingIInv'
<1>1. /\ listing' \in [Listing -> Row]
      /\ req' \in [Request -> InFlight \cup {Idle}]
      /\ now' = now /\ deleted' = deleted
      /\ listing'[req[r].listing] = written
      /\ \A l \in Listing \ {req[r].listing} : listing'[l] = listing[l]
  BY WriteTyped DEF ListingIInv
<1>2. TypeOK'
  BY <1>1 DEF ListingIInv, TypeOK
<1>3. AllFit'
  BY <1>1 DEF ListingIInv, AllFit, Fit
<1> QED
  BY <1>2, <1>3 DEF ListingIInv

LEMMA ListingInitFit == Init => ListingIInv
<1> SUFFICES ASSUME Init PROVE ListingIInv
  OBVIOUS
<1>1. NoRow \in Row
  BY DEF NoRow, Row, Statuses, ModerationStatuses, Date
<1>2. NoHistory \in HistoryRow
  BY DEF NoHistory, HistoryRow, Statuses
<1>3. TypeOK
  BY <1>1, <1>2 DEF Init, TypeOK
<1>4. AllFit
  BY DEF Init, AllFit, Fit, NoRow
<1> QED
  BY <1>3, <1>4 DEF ListingIInv

LEMMA ListingNextFit == ListingIInv /\ [Next]_vars => ListingIInv'
<1> SUFFICES ASSUME ListingIInv, [Next]_vars PROVE ListingIInv'
  OBVIOUS
<1> USE DEF ListingIInv
<1>1. ASSUME NEW l \in Listing, CreateListing(l) PROVE ListingIInv'
  <2>1. [NoRow EXCEPT !.status = "pending_review", !.content = edits[l] + 1]
        \in Row
    <3>1. edits[l] + 1 \in Nat
      BY DEF TypeOK
    <3> QED
      BY <3>1, NewRowTyped
  <2>2. [from |-> "absent", to |-> "pending_review", actor |-> "owner"]
        \in HistoryRow
    BY DEF HistoryRow, Statuses
  <2>3. TypeOK'
    BY <1>1, <2>1, <2>2 DEF CreateListing, TypeOK
  <2>4. AllFit'
    BY <1>1 DEF CreateListing, TypeOK, AllFit, Fit, NoRow
  <2> QED
    BY <2>3, <2>4
<1>2. ASSUME NEW r \in Request, NEW op \in Ops, NEW l \in Listing,
             Read(r, op, l)
      PROVE  ListingIInv'
  <2>1. [op |-> op, listing |-> l, seen |-> listing[l]] \in InFlight
    BY DEF TypeOK, InFlight
  <2>2. TypeOK'
    BY <1>2, <2>1 DEF Read, TypeOK
  <2>3. AllFit'
    BY <1>2 DEF Read, AllFit
  <2> QED
    BY <2>2, <2>3
<1>3. ASSUME NEW r \in Request, Abandon(r) PROVE ListingIInv'
  BY <1>3 DEF Abandon, TypeOK, AllFit
<1>4. ASSUME NEW r \in Request, UpdateContent(r) PROVE ListingIInv'
  <2>1. req[r] \in InFlight
    BY <1>4, Carries DEF UpdateContent, AllOps, OwnerOps
  <2>2. edits[req[r].listing] + 1 \in Nat /\ edits' \in [Listing -> Nat]
    BY <1>4, <2>1 DEF UpdateContent, TypeOK, InFlight
  <2>3. /\ history' \in [Listing -> HistoryRow]
        /\ \A l \in Listing \ {req[r].listing} : history'[l] = history[l]
    BY <1>4, <2>1, LogEditTyped DEF UpdateContent
  <2> QED
    BY <1>4, <2>1, <2>2, <2>3, EditedRowHides, HidingWrite DEF UpdateContent
<1>5. ASSUME NEW r \in Request, UpdateRest(r) PROVE ListingIInv'
  <2>1. req[r] \in InFlight
    BY <1>5, Carries DEF UpdateRest, AllOps, OwnerOps
  <2>2. req[r].seen.content \in Nat /\ edits' \in [Listing -> Nat]
    BY <1>5, <2>1 DEF UpdateRest, TypeOK, InFlight, Row
  <2>3. /\ history' \in [Listing -> HistoryRow]
        /\ \A l \in Listing \ {req[r].listing} : history'[l] = history[l]
    BY <1>5, <2>1, LogEditTyped DEF UpdateRest
  <2> QED
    BY <1>5, <2>1, <2>2, <2>3, EditedRowHides, HidingWrite DEF UpdateRest
<1>6. ASSUME NEW r \in Request, Renew(r) PROVE ListingIInv'
  <2>1. req[r] \in InFlight /\ edits' \in [Listing -> Nat]
    BY <1>6, Carries DEF Renew, AllOps, OwnerOps, TypeOK
  <2> DEFINE written == [Current(r) EXCEPT !.status = "pending_review",
                                !.moderationStatus = "pending_review",
                                !.reviewed = FALSE, !.expiresAt = Null,
                                !.soldAt = Null, !.archivedAt = Null]
  <2>2. written \in Row /\ written.status # "active"
    BY <2>1 DEF TypeOK, InFlight, Current, Row, Statuses, ModerationStatuses,
                Date
  <2>3. Write(r, written) /\ Log(r, "pending_review") /\ approved' = approved
    BY <1>6 DEF Renew
  <2>4. /\ history' \in [Listing -> HistoryRow]
        /\ \A l \in Listing \ {req[r].listing} : history'[l] = history[l]
    BY <2>1, <2>3, LogTyped DEF Statuses
  <2> HIDE DEF written
  <2> QED
    BY <2>1, <2>2, <2>3, <2>4, HidingWrite
<1>7. ASSUME NEW r \in Request, MarkSold(r) PROVE ListingIInv'
  <2>1. req[r] \in InFlight /\ edits' \in [Listing -> Nat]
    BY <1>7, Carries DEF MarkSold, AllOps, OwnerOps, TypeOK
  <2> DEFINE written == [Current(r) EXCEPT !.status = "sold", !.soldAt = now,
                                       !.archivedAt = Null]
  <2>2. written \in Row /\ written.status # "active"
    BY <2>1, NowIsADate DEF TypeOK, InFlight, Current, Row, Statuses
  <2>3. Write(r, written) /\ Log(r, "sold") /\ approved' = approved
    BY <1>7 DEF MarkSold
  <2>4. /\ history' \in [Listing -> HistoryRow]
        /\ \A l \in Listing \ {req[r].listing} : history'[l] = history[l]
    BY <2>1, <2>3, LogTyped DEF Statuses
  <2> HIDE DEF written
  <2> QED
    BY <2>1, <2>2, <2>3, <2>4, HidingWrite
<1>8. ASSUME NEW r \in Request, Withdraw(r) PROVE ListingIInv'
  <2>1. req[r] \in InFlight /\ edits' \in [Listing -> Nat]
    BY <1>8, Carries DEF Withdraw, AllOps, OwnerOps, TypeOK
  <2> DEFINE written == [Current(r) EXCEPT !.status = "withdrawn",
                                       !.archivedAt = Null]
  <2>2. written \in Row /\ written.status # "active"
    BY <2>1, NowIsADate DEF TypeOK, InFlight, Current, Row, Statuses
  <2>3. Write(r, written) /\ Log(r, "withdrawn") /\ approved' = approved
    BY <1>8 DEF Withdraw
  <2>4. /\ history' \in [Listing -> HistoryRow]
        /\ \A l \in Listing \ {req[r].listing} : history'[l] = history[l]
    BY <2>1, <2>3, LogTyped DEF Statuses
  <2> HIDE DEF written
  <2> QED
    BY <2>1, <2>2, <2>3, <2>4, HidingWrite
<1>9. ASSUME NEW r \in Request, Approve(r) PROVE ListingIInv'
  <2>1. req[r] \in InFlight /\ req[r].op = "approve"
    BY <1>9, Carries DEF Approve, AllOps, ModeratorOps
  <2>2. req[r].listing \in Listing /\ listing[req[r].listing] \in Row
    BY <2>1 DEF TypeOK, InFlight
  <2>3. now + ListingDays \in Nat /\ Null \in Date
    BY TimeAssumption DEF TypeOK, Date
  <2>4. ApprovedRow(r) \in Row
    BY <2>2, <2>3 DEF ApprovedRow, Current, Row, Statuses,
                      ModerationStatuses, Date
  <2>5. /\ ApprovedRow(r).status = "active"
        /\ ApprovedRow(r).moderationStatus = "approved"
        /\ ApprovedRow(r).reviewed
        /\ ApprovedRow(r).expiresAt = now + ListingDays
        /\ ApprovedRow(r).soldAt = Null /\ ApprovedRow(r).archivedAt = Null
        /\ ApprovedRow(r).content = listing[req[r].listing].content
    BY <2>2 DEF ApprovedRow, Current, Row
  <2>6. Write(r, ApprovedRow(r)) /\ Log(r, "active") /\ edits' = edits
    BY <1>9 DEF Approve
  <2>7. /\ approved' \in [Listing -> Nat]
        /\ approved'[req[r].listing] = listing[req[r].listing].content
        /\ \A l \in Listing \ {req[r].listing} : approved'[l] = approved[l]
    BY <1>9, <2>2 DEF Approve, TypeOK, Row
  <2>8. /\ history' \in [Listing -> HistoryRow]
        /\ history'[req[r].listing].to = "active"
        /\ history'[req[r].listing].actor = "moderator"
        /\ \A l \in Listing \ {req[r].listing} : history'[l] = history[l]
    BY <2>1, <2>6, LogTyped DEF Statuses, OwnerOps
  <2>9. /\ listing' \in [Listing -> Row]
        /\ req' \in [Request -> InFlight \cup {Idle}]
        /\ now' = now /\ deleted' = deleted
        /\ listing'[req[r].listing] = ApprovedRow(r)
        /\ \A l \in Listing \ {req[r].listing} : listing'[l] = listing[l]
    BY <2>1, <2>4, <2>6, WriteTyped
  <2>10. TypeOK'
    BY <2>6, <2>7, <2>8, <2>9 DEF TypeOK
  <2>11. now + ListingDays # Null
    BY <2>3, NullAssumption
  <2>12. AllFit'
    BY <2>5, <2>7, <2>8, <2>9, <2>11 DEF AllFit, Fit
  <2> QED
    BY <2>10, <2>12
<1>10. ASSUME NEW r \in Request, Reject(r) PROVE ListingIInv'
  <2>1. req[r] \in InFlight /\ edits' \in [Listing -> Nat]
    BY <1>10, Carries DEF Reject, AllOps, ModeratorOps, TypeOK
  <2> DEFINE written == [Current(r) EXCEPT !.status = "rejected",
                                !.moderationStatus = "rejected",
                                !.reviewed = TRUE, !.archivedAt = Null]
  <2>2. written \in Row /\ written.status # "active"
    BY <2>1, NowIsADate DEF TypeOK, InFlight, Current, Row, Statuses,
                            ModerationStatuses
  <2>3. Write(r, written) /\ Log(r, "rejected") /\ approved' = approved
    BY <1>10 DEF Reject
  <2>4. /\ history' \in [Listing -> HistoryRow]
        /\ \A l \in Listing \ {req[r].listing} : history'[l] = history[l]
    BY <2>1, <2>3, LogTyped DEF Statuses
  <2> HIDE DEF written
  <2> QED
    BY <2>1, <2>2, <2>3, <2>4, HidingWrite
<1>11. ASSUME NEW r \in Request, Remove(r) PROVE ListingIInv'
  <2>1. req[r] \in InFlight /\ edits' \in [Listing -> Nat]
    BY <1>11, Carries DEF Remove, AllOps, ModeratorOps, TypeOK
  <2> DEFINE written == [Current(r) EXCEPT !.status = "removed",
                                !.moderationStatus = "removed",
                                !.reviewed = TRUE, !.archivedAt = now]
  <2>2. written \in Row /\ written.status # "active"
    BY <2>1, NowIsADate DEF TypeOK, InFlight, Current, Row, Statuses,
                            ModerationStatuses
  <2>3. Write(r, written) /\ Log(r, "removed") /\ approved' = approved
    BY <1>11 DEF Remove
  <2>4. /\ history' \in [Listing -> HistoryRow]
        /\ \A l \in Listing \ {req[r].listing} : history'[l] = history[l]
    BY <2>1, <2>3, LogTyped DEF Statuses
  <2> HIDE DEF written
  <2> QED
    BY <2>1, <2>2, <2>3, <2>4, HidingWrite
<1>12. ASSUME Maintenance PROVE ListingIInv'
  <2>1. ASSUME NEW l \in Listing
        PROVE  /\ Maintained(listing[l]) \in Row
               /\ \/ Maintained(listing[l]) = listing[l]
                  \/ Maintained(listing[l]).status # "active"
    BY NowIsADate DEF Maintained, TypeOK, Row, Statuses
  <2>2. TypeOK'
    BY <1>12, <2>1 DEF Maintenance, TypeOK
  <2>3. AllFit'
    BY <1>12, <2>1 DEF Maintenance, AllFit, Fit
  <2> QED
    BY <2>2, <2>3
<1>13. ASSUME NEW l \in Listing, ArchiveForDeletedAccount(l) PROVE ListingIInv'
  <2>1. [listing[l] EXCEPT !.status = "archived", !.archivedAt = now,
                           !.content = edits[l] + 1] \in Row
    <3>1. edits[l] + 1 \in Nat /\ listing[l] \in Row /\ now \in Date
      BY NowIsADate DEF TypeOK
    <3> QED
      BY <3>1, ScrubbedRowTyped
  <2>2. TypeOK'
    BY <1>13, <2>1 DEF ArchiveForDeletedAccount, TypeOK
  <2>3. AllFit'
    BY <1>13 DEF ArchiveForDeletedAccount, TypeOK, AllFit, Fit, Row
  <2> QED
    BY <2>2, <2>3
<1>14. CASE Tick
  BY <1>14 DEF Tick, TypeOK, AllFit
<1>15. CASE UNCHANGED vars
  BY <1>15 DEF vars, TypeOK, AllFit
<1> QED
  BY <1>1, <1>2, <1>3, <1>4, <1>5, <1>6, <1>7, <1>8, <1>9, <1>10, <1>11,
     <1>12, <1>13, <1>14, <1>15 DEF Next

-----------------------------------------------------------------------------
(* Every reachable state of ListingLifecycle has the declared types: in    *)
(* particular no stale row brings a status or a date of another kind.      *)
THEOREM ListingTypeCorrect == Spec => []TypeOK
<1>1. ListingIInv => TypeOK
  BY DEF ListingIInv
<1> QED
  BY <1>1, ListingInitFit, ListingNextFit, PTL DEF Spec

(* What listingIsPublic rests on: an active listing is approved and dated, *)
(* and shows the content that was in place when a moderator approved it,   *)
(* whatever edits, decisions and jobs interleave.                          *)
THEOREM PublicStaysVetted == Spec => []PublicIsVetted
<1>1. ListingIInv => ActiveIsApproved
  BY DEF ListingIInv, AllFit, Fit, ActiveIsApproved
<1>2. ListingIInv => PublicContentIsApproved
  BY DEF ListingIInv, AllFit, Fit, PublicContentIsApproved
<1> QED
  BY <1>1, <1>2, ListingInitFit, ListingNextFit, PTL DEF Spec, PublicIsVetted

(* An active listing's status history ends with a moderator's approval.    *)
THEOREM ActiveOnRecord == Spec => []ActiveIsOnRecord
<1>1. ListingIInv => ActiveIsOnRecord
  BY DEF ListingIInv, AllFit, Fit, ActiveIsOnRecord
<1> QED
  BY <1>1, ListingInitFit, ListingNextFit, PTL DEF Spec

=============================================================================
