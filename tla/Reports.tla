-------------------------------- MODULE Reports --------------------------------
(***************************************************************************)
(* Reports and what moderators decide of them: src/lib/report-service.ts.  *)
(* A report of a listing is two rows, and is counted on the listing.  A    *)
(* request reads in one transaction and writes in another, so two reports  *)
(* of one member, and the decisions of two moderators, may overlap.        *)
(***************************************************************************)
EXTENDS Integers, FiniteSets

CONSTANTS
    Member,     \* members who report
    ListedItem, Message, Account,  \* what they report
    MaxReports, \* bound on the reports, 1..MaxReports in the order of creation
    Moderator,
    NoReport

Target == ListedItem \cup Message \cup Account
ReportRow == 1..MaxReports
Decisions == {"dismiss", "hide_content", "delete_content", "warn_user", "ban_user"}

Status == {"open", "dismissed", "resolved"}
Report == [by : Member, of : Target, status : Status]

ASSUME ReportsAssumption ==
    /\ MaxReports \in Nat
    /\ NoReport \notin Report \cup Status \cup Target \cup ReportRow

VARIABLES
    report,     \* row -> Report
    entry,      \* row -> the ListingReport it was made with
    count,      \* listing -> reportCount
    recent,     \* reports of the last twenty-four hours
    asking,     \* member -> the target of a request that found no duplicate
    reading,    \* moderator -> the report that was read
    hidden,     \* messages deleted for both sides
    flags,      \* accounts with a TrustSafetyFlag
    banned

reportVars == <<report, entry, count, recent, asking, reading, hidden, flags, banned>>

ReportsTypeOK ==
    /\ report \in [ReportRow -> Report \cup {NoReport}]
    /\ entry \in [ReportRow -> Status \cup {NoReport}]
    /\ count \in [ListedItem -> 0..MaxReports]
    /\ recent \subseteq ReportRow
    /\ asking \in [Member -> Target \cup {NoReport}]
    /\ reading \in [Moderator -> ReportRow \cup {NoReport}]
    /\ hidden \subseteq Message /\ flags \subseteq Account /\ banned \subseteq Account

ReportsInit ==
    /\ report = [n \in ReportRow |-> NoReport]
    /\ entry = [n \in ReportRow |-> NoReport]
    /\ count = [l \in ListedItem |-> 0]
    /\ recent = {}
    /\ asking = [m \in Member |-> NoReport]
    /\ reading = [m \in Moderator |-> NoReport]
    /\ hidden = {} /\ flags = {} /\ banned = {}

-----------------------------------------------------------------------------
\* getReportedUserId, and no report of the same target within a day.
Ask(m, t) ==
    /\ asking[m] = NoReport /\ t \notin hidden
    /\ \A n \in recent : report[n] = NoReport \/ <<report[n].by, report[n].of>> # <<m, t>>
    /\ asking' = [asking EXCEPT ![m] = t]
    /\ UNCHANGED <<report, entry, count, recent, reading, hidden, flags, banned>>

\* Both rows and the count, in one transaction.
Create(m) ==
    /\ asking[m] # NoReport
    /\ \E n \in ReportRow :
        /\ report[n] = NoReport /\ \A o \in ReportRow : o < n => report[o] # NoReport
        /\ report' = [report EXCEPT ![n] = [by |-> m, of |-> asking[m], status |-> "open"]]
        /\ recent' = recent \cup {n}
        /\ entry' = [entry EXCEPT ![n] = IF asking[m] \in ListedItem THEN "open" ELSE NoReport]
    /\ count' = [l \in ListedItem |-> IF l = asking[m] THEN count[l] + 1 ELSE count[l]]
    /\ asking' = [asking EXCEPT ![m] = NoReport]
    /\ UNCHANGED <<reading, hidden, flags, banned>>

Ages(n) ==
    /\ n \in recent
    /\ recent' = recent \ {n}
    /\ UNCHANGED <<report, entry, count, asking, reading, hidden, flags, banned>>

-----------------------------------------------------------------------------
\* resolveReportForModerator does not ask whether the report is open.
ReadReport(m, n) ==
    /\ reading[m] = NoReport /\ report[n] # NoReport
    /\ reading' = [reading EXCEPT ![m] = n]
    /\ UNCHANGED <<report, entry, count, recent, asking, hidden, flags, banned>>

StatusOf(d) == IF d = "dismiss" THEN "dismissed" ELSE "resolved"

\* The open entries of the listing, whoever made them.
Entries_WhenResolved(n, d) ==
    [o \in ReportRow |->
        IF /\ report[n].of \in ListedItem /\ report[o] # NoReport /\ report[o].of = report[n].of
           /\ entry[o] = "open" /\ d # "dismiss"
        THEN StatusOf(d) ELSE entry[o]]

Entries(n, d) ==
    [o \in ReportRow |->
        IF /\ report[n].of \in ListedItem /\ report[o] # NoReport /\ report[o].of = report[n].of
           /\ entry[o] = "open"
        THEN StatusOf(d) ELSE entry[o]]

\* Only a message is hidden; only a member is warned or banned, whatever of
\* his is reported: of what is modelled, his account.
Resolve(m, d) ==
    LET n == reading[m]
        t == report[n].of
    IN  /\ n # NoReport
        /\ report' = [report EXCEPT ![n].status = StatusOf(d)]
        /\ entry' = Entries(n, d)
        /\ hidden' = IF t \in Message /\ d \in {"hide_content", "delete_content"}
                     THEN hidden \cup {t} ELSE hidden
        /\ flags' = IF t \in Account /\ d \in {"warn_user", "ban_user"}
                    THEN flags \cup {t} ELSE flags
        /\ banned' = IF t \in Account /\ d = "ban_user" THEN banned \cup {t} ELSE banned
        /\ reading' = [reading EXCEPT ![m] = NoReport]
        /\ UNCHANGED <<count, recent, asking>>

-----------------------------------------------------------------------------
ReportsNext ==
    \/ \E m \in Member : Create(m) \/ \E t \in Target : Ask(m, t)
    \/ \E n \in ReportRow : Ages(n) \/ \E m \in Moderator : ReadReport(m, n)
    \/ \E m \in Moderator, d \in Decisions : Resolve(m, d)

ReportsSpec == ReportsInit /\ [][ReportsNext]_reportVars

-----------------------------------------------------------------------------
(* What a listing shows of its reports agrees with them, however members   *)
(* and moderators overlap: it counts each of them, and once they are all   *)
(* decided none of their entries is open; nothing is hidden, and nobody is *)
(* banned, of whom there is no report that was decided.                    *)
Decided(t) == \E n \in ReportRow : report[n] # NoReport /\ report[n].of = t /\ report[n].status # "open"
ReportsAgree ==
    /\ \A l \in ListedItem :
        LET of == {n \in ReportRow : report[n] # NoReport /\ report[n].of = l}
        IN  /\ count[l] = Cardinality(of)
            /\ (\A n \in of : report[n].status # "open") => \A n \in of : entry[n] # "open"
    /\ \A t \in hidden \cup flags : Decided(t)
    /\ banned \subseteq flags
=============================================================================
