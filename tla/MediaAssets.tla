---------------------------- MODULE MediaAssets ----------------------------
(***************************************************************************)
(* Uploads and their virus scan: src/lib/media-service.ts with             *)
(* MEDIA_SCAN_MODE=clamav, from the signed URL to the verdict, the listing *)
(* that shows the asset, and its removal.                                  *)
(*                                                                         *)
(* A handler talks to the database and to the object store in turn, and    *)
(* nothing holds the two together: each call is an action, and proc is     *)
(* what a handler still carries.  Runs of the maintenance job may overlap. *)
(* The batch limit of a run is left out: every listed row gets a verdict   *)
(* or is gone, so a limit only spreads the work over more runs.            *)
(***************************************************************************)
EXTENDS Integers

CONSTANTS
    Asset,          \* the uploads of one user
    Request,        \* requests of that user in flight
    Cron,           \* runs of the maintenance job that may overlap
    NoAsset,
    MaxFailures     \* bound on failures of storage, scanner and processes

ASSUME ProcAssumption == Request \cap Cron = {}
ASSUME NoAssetAssumption == NoAsset \notin Asset
ASSUME BoundAssumption == MaxFailures \in Nat

Proc == Request \cup Cron

VARIABLES
    asset,      \* MediaAsset rows
    object,     \* the stored object of each asset
    signed,     \* assets whose signed upload URL lives
    attached,   \* assets a listing shows (ListingMedia rows)
    proc,       \* what each handler is about to do
    failures

vars == <<asset, object, signed, attached, proc, failures>>

\* expires stands for expiresAt: null once finalized, otherwise two hours
\* from the signing, when the signed URL ends too, finalized or not.
AssetRow == [there : BOOLEAN, scan : {"pending", "clean", "infected", "error"},
             expires : {"null", "ahead", "past"}, deleted : BOOLEAN]
NoRow == [there |-> FALSE, scan |-> "pending", expires |-> "null",
          deleted |-> FALSE]

\* What the store has, and, a history, whether something was removed before.
Content == {"none", "good", "mislabelled", "infected"}
ObjectState == [content : Content, removed : BOOLEAN]
NoObject == [content |-> "none", removed |-> FALSE]

ProcState ==
    [pc : {"idle", "sniff", "info", "finalize", "purge", "remove", "mark", "attach",
           "sweep", "sweepMark", "scan", "verdict", "scanPurge"},
     a : Asset \cup {NoAsset}, todo : SUBSET Asset, due : SUBSET Asset,
     verdict : {"none", "clean", "infected", "error"}]
At(pc, a, todo, due, verdict) ==
    [pc |-> pc, a |-> a, todo |-> todo, due |-> due, verdict |-> verdict]
Idle == At("idle", NoAsset, {}, {}, "none")

Init ==
    /\ asset = [a \in Asset |-> NoRow]
    /\ object = [a \in Asset |-> NoObject]
    /\ signed = {}
    /\ attached = {}
    /\ proc = [r \in Proc |-> Idle]
    /\ failures = 0

-----------------------------------------------------------------------------
Working(r, pc) == proc[r].pc = pc
Goes(r, state) == proc' = [proc EXCEPT ![r] = state]
On(pc, a) == At(pc, a, {}, {}, "none")
Live(a) == asset[a].there /\ ~asset[a].deleted
Todo(c) == proc[c].todo
Stored(a) == object[a].content # "none"
Fails == failures < MaxFailures /\ failures' = failures + 1

SetScan(a, scan) == asset' = [asset EXCEPT ![a].scan = scan]
SetDeleted(a) == asset' = [asset EXCEPT ![a].deleted = TRUE]

\* removeStorageObject: nothing to remove is no error.
Removed(a) ==
    object' = [object EXCEPT ![a] = [content |-> "none",
                    removed |-> @.removed \/ @.content # "none"]]

(* createSignedUploadIntent, once its quotas are met.                      *)
Sign(a) ==
    /\ ~asset[a].there
    /\ asset' = [asset EXCEPT ![a] = [there |-> TRUE, scan |-> "pending",
                    expires |-> "ahead", deleted |-> FALSE]]
    /\ signed' = signed \cup {a}
    /\ UNCHANGED <<object, attached, proc, failures>>

(* The browser puts a file while the URL lives, where there is none        *)
(* (upsert is off): also in the place of one that was removed, whatever    *)
(* the row says by now.                                                    *)
Upload(a) ==
    /\ a \in signed
    /\ ~Stored(a)
    /\ \E c \in Content \ {"none"} : object' = [object EXCEPT ![a].content = c]
    /\ UNCHANGED <<asset, signed, attached, proc, failures>>

(* The two hours are over, of the URL and of a row not finalized.          *)
Expire(a) ==
    /\ a \in signed
    /\ signed' = signed \ {a}
    /\ asset' = [asset EXCEPT ![a].expires = IF @ = "ahead" THEN "past" ELSE @]
    /\ UNCHANGED <<object, attached, proc, failures>>

(* finalizeMediaUpload: a row without a bad verdict, then its bytes, which *)
(* must be what they claim to be, then its size, and then the row is       *)
(* written, whatever has become of it and of the object.                   *)
FinalizeRead(r, a) ==
    /\ Working(r, "idle")
    /\ Live(a) /\ asset[a].scan \notin {"infected", "error"}
    /\ Goes(r, On("sniff", a))
    /\ UNCHANGED <<asset, object, signed, attached, failures>>

Sniff(r) ==
    LET a == proc[r].a IN
    /\ Working(r, "sniff")
    /\ \/ /\ ~Stored(a)
          /\ Goes(r, Idle)
          /\ UNCHANGED asset
       \/ /\ Stored(a) /\ object[a].content # "mislabelled"
          /\ Goes(r, On("info", a))
          /\ UNCHANGED asset
       \/ /\ Stored(a) /\ object[a].content = "mislabelled"
          /\ SetScan(a, "error")
          /\ Goes(r, On("purge", a))
    /\ UNCHANGED <<object, signed, attached, failures>>

\* An object that is gone, or over the user's limits, is refused.
Info(r) ==
    LET a == proc[r].a IN
    /\ Working(r, "info")
    /\ \/ Stored(a) /\ Goes(r, On("finalize", a))
       \/ Goes(r, Idle)
    /\ UNCHANGED <<asset, object, signed, attached, failures>>

Finalized(row) == [row EXCEPT !.expires = "null"]

Finalize(r) ==
    /\ Working(r, "finalize")
    /\ asset' = [asset EXCEPT ![proc[r].a] = Finalized(@)]
    /\ Goes(r, Idle)
    /\ UNCHANGED <<object, signed, attached, failures>>

(* A purge that fails is only logged.                                      *)
Purge(r) ==
    /\ Working(r, "purge")
    /\ \/ Removed(proc[r].a) /\ UNCHANGED failures
       \/ Fails /\ UNCHANGED object
    /\ Goes(r, Idle)
    /\ UNCHANGED <<asset, signed, attached>>

(* deleteMediaForCurrentUser: the object first, and then the row.          *)
DeleteRead(r, a) ==
    /\ Working(r, "idle")
    /\ Live(a)
    /\ Goes(r, On("remove", a))
    /\ UNCHANGED <<asset, object, signed, attached, failures>>

Remove(r) ==
    /\ Working(r, "remove")
    /\ \/ Removed(proc[r].a) /\ Goes(r, On("mark", proc[r].a))
          /\ UNCHANGED failures
       \/ Fails /\ Goes(r, Idle) /\ UNCHANGED object
    /\ UNCHANGED <<asset, signed, attached>>

Mark(r) ==
    /\ Working(r, "mark")
    /\ SetDeleted(proc[r].a)
    /\ Goes(r, Idle)
    /\ UNCHANGED <<object, signed, attached, failures>>

(* assertMediaAttachable for a listing, and then attachMediaToListing.     *)
AttachRead(r, a) ==
    /\ Working(r, "idle")
    /\ Live(a) /\ asset[a].scan = "clean" /\ a \notin attached
    /\ Goes(r, On("attach", a))
    /\ UNCHANGED <<asset, object, signed, attached, failures>>

Attach(r) ==
    /\ Working(r, "attach")
    /\ attached' = attached \cup {proc[r].a}
    /\ Goes(r, Idle)
    /\ UNCHANGED <<asset, object, signed, failures>>
-----------------------------------------------------------------------------
(* runMediaMaintenance: the uploads whose time was up when the run began   *)
(* are removed, object first; a failure leaves the row to a later run.     *)
Expired_Unscanned ==
    {a \in Asset : Live(a) /\ asset[a].expires = "past"
                    /\ asset[a].scan = "pending"}
Expired == {a \in Asset : Live(a) /\ asset[a].expires = "past"}

SweepStart(c) ==
    /\ Working(c, "idle")
    /\ Goes(c, At("sweep", NoAsset, Expired, Expired, "none"))
    /\ UNCHANGED <<asset, object, signed, attached, failures>>

Sweep(c, a) ==
    /\ Working(c, "sweep")
    /\ a \in Todo(c)
    /\ \/ Removed(a) /\ UNCHANGED failures
          /\ Goes(c, At("sweepMark", a, Todo(c), proc[c].due, "none"))
       \/ Fails /\ UNCHANGED object
          /\ Goes(c, At("sweep", NoAsset, Todo(c) \ {a}, proc[c].due, "none"))
    /\ UNCHANGED <<asset, signed, attached>>

SweepMark(c) ==
    /\ Working(c, "sweepMark")
    /\ \/ SetDeleted(proc[c].a) /\ UNCHANGED failures
       \/ Fails /\ UNCHANGED asset
    /\ Goes(c, At("sweep", NoAsset, Todo(c) \ {proc[c].a}, proc[c].due,
               "none"))
    /\ UNCHANGED <<object, signed, attached>>

(* Then everything pending is scanned that was not overdue when the run    *)
(* began, finalized or not.                                                *)
Pending(due) ==
    {a \in Asset : /\ Live(a) /\ asset[a].scan = "pending"
                   /\ asset[a].expires = "past" => a \notin due}

ScanStart(c) ==
    /\ Working(c, "sweep")
    /\ Todo(c) = {}
    /\ Goes(c, At("scan", NoAsset, Pending(proc[c].due), {}, "none"))
    /\ UNCHANGED <<asset, object, signed, attached, failures>>

\* clamscan: what it finds in the object, or no answer.  A missing object
\* and a scanner that does not answer are an error.
Found(a) == IF ~Stored(a) THEN "error"
            ELSE IF object[a].content = "infected" THEN "infected" ELSE "clean"
NoAnswer_Clean == "clean"
NoAnswer == "error"

Scan(c, a) ==
    /\ Working(c, "scan")
    /\ a \in Todo(c)
    /\ \E verdict \in {"clean", "infected", "error"} :
          /\ \/ verdict = Found(a) /\ UNCHANGED failures
             \/ verdict = NoAnswer /\ Fails
          /\ Goes(c, At("verdict", a, Todo(c), {}, verdict))
    /\ UNCHANGED <<asset, object, signed, attached>>

NextAsset(c) == At("scan", NoAsset, Todo(c) \ {proc[c].a}, {}, "none")

(* The verdict is written whatever the row says by now; when the write     *)
(* fails, an error is written instead.                                     *)
Verdict(c) ==
    /\ Working(c, "verdict")
    /\ SetScan(proc[c].a, proc[c].verdict)
    /\ \/ proc[c].verdict # "infected" /\ Goes(c, NextAsset(c))
       \/ proc[c].verdict = "infected"
          /\ Goes(c, At("scanPurge", proc[c].a, Todo(c), {}, "none"))
    /\ UNCHANGED <<object, signed, attached, failures>>

VerdictLost(c) ==
    /\ Working(c, "verdict")
    /\ Fails
    /\ Goes(c, At("verdict", proc[c].a, Todo(c), {}, "error"))
    /\ UNCHANGED <<asset, object, signed, attached>>

ScanPurge(c) ==
    /\ Working(c, "scanPurge")
    /\ \/ Removed(proc[c].a) /\ UNCHANGED failures
       \/ Fails /\ UNCHANGED object
    /\ Goes(c, NextAsset(c))
    /\ UNCHANGED <<asset, signed, attached>>

ScanDone(c) ==
    /\ Working(c, "scan")
    /\ Todo(c) = {}
    /\ Goes(c, Idle)
    /\ UNCHANGED <<asset, object, signed, attached, failures>>

(* A process dies between two calls.                                       *)
Die(r) ==
    /\ ~Working(r, "idle")
    /\ Fails
    /\ Goes(r, Idle)
    /\ UNCHANGED <<asset, object, signed, attached>>

RequestStep(r) ==
    \/ \E a \in Asset :
            FinalizeRead(r, a) \/ DeleteRead(r, a) \/ AttachRead(r, a)
    \/ Sniff(r) \/ Info(r) \/ Finalize(r) \/ Purge(r) \/ Remove(r) \/ Mark(r) \/ Attach(r)

CronStep(c) ==
    \/ SweepStart(c) \/ SweepMark(c) \/ ScanStart(c)
    \/ \E a \in Asset : Sweep(c, a) \/ Scan(c, a)
    \/ Verdict(c) \/ VerdictLost(c) \/ ScanPurge(c) \/ ScanDone(c)

Next ==
    \/ \E a \in Asset : Sign(a) \/ Upload(a) \/ Expire(a)
    \/ \E r \in Request : RequestStep(r)
    \/ \E c \in Cron : CronStep(c)
    \/ \E r \in Proc : Die(r)

Spec == Init /\ [][Next]_vars

\* The scheduler starts the job again and again and a run proceeds; time
\* passes.  Users owe nothing.
FairSpec ==
    /\ Spec
    /\ \A c \in Cron : WF_vars(CronStep(c))
    /\ \A a \in Asset : WF_vars(Expire(a))

-----------------------------------------------------------------------------
(* Every row, object and handler is well typed.                            *)
TypeOK ==
    /\ asset \in [Asset -> AssetRow]
    /\ object \in [Asset -> ObjectState]
    /\ signed \in SUBSET Asset
    /\ attached \in SUBSET Asset
    /\ proc \in [Proc -> ProcState]
    /\ failures \in 0..MaxFailures

(* What is clean or shown went through the scanner, in whatever order      *)
(* overlapping runs write their verdicts, and however late, as long as the *)
(* verdict's bytes are not removed and others put in their place           *)
(* (runMediaMaintenance, assertMediaClean).                                *)
OnlyScannedIsUsed ==
    \A a \in Asset : (asset[a].scan = "clean" \/ a \in attached) =>
        object[a].content \in {"good", "mislabelled"} \/ object[a].removed

(* No upload stays half done: it is finalized and gets a verdict, if only  *)
(* an error, or it is removed, whoever abandons it, and whichever run      *)
(* fails on it (runMediaMaintenance: what is pending is scanned, what is   *)
(* not finalized expires).                                                 *)
UploadsSettle ==
    \A a \in Asset : []<>(asset[a].there =>
        \/ asset[a].deleted
        \/ asset[a].expires = "null" /\ asset[a].scan # "pending")
=============================================================================
