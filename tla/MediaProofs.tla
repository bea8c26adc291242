---------------------------- MODULE MediaProofs -----------------------------
(* What holds of MediaAssets, for any number of uploads, requests,         *)
(* overlapping runs and failures; and of RaceExplorer, in every zone that  *)
(* is ahead of UTC and changes at night, for any races, and any times that *)
(* feeds give.                                                             *)
EXTENDS MediaAssets, RaceExplorer, TLAPS

-----------------------------------------------------------------------------
(* Uploads and verdicts.                                                   *)

\* What may be delivered, or is no longer what a verdict was about.
Passed(it) == it.content \in {"good", "mislabelled"} \/ it.removed

\* The calls of a handler that are about an asset.
AssetCalls == {"sniff", "info", "finalize", "purge", "remove", "mark", "attach",
               "sweepMark", "verdict", "scanPurge"}

\* What a handler carries holds whenever it gets to write it.
Carried(state, objects) ==
    /\ state.pc \in AssetCalls => state.a \in Asset
    /\ state.pc = "verdict" => state.verdict # "none"
    /\ state.pc = "attach" \/ (state.pc = "verdict" /\ state.verdict = "clean")
          => Passed(objects[state.a])

Handlers == \A r \in Proc : Carried(proc[r], object)

MediaIInv == TypeOK /\ Handlers /\ OnlyScannedIsUsed

-----------------------------------------------------------------------------
\* A fine content stays one: what handlers carry survives any step that
\* takes no content back.
LEMMA CarriedOn ==
    ASSUME NEW state \in ProcState, Carried(state, object),
           \A a \in Asset : Passed(object[a]) => Passed(object'[a])
    PROVE  Carried(state, object')
BY DEF Carried, AssetCalls

\* A step of one handler that keeps the fine contents keeps the promises of
\* all the others.
LEMMA HandlersKept ==
    ASSUME MediaIInv, NEW r \in Proc, NEW state \in ProcState, Goes(r, state),
           \A a \in Asset : Passed(object[a]) => Passed(object'[a]),
           Carried(state, object)
    PROVE  Handlers'
<1> SUFFICES ASSUME NEW q \in Proc PROVE Carried(proc'[q], object')
  BY DEF Handlers
<1>1. proc \in [Proc -> ProcState] /\ proc' = [proc EXCEPT ![r] = state]
  BY DEF MediaIInv, TypeOK, Goes
<1>2. CASE q = r
  <2>1. proc'[q] = state
    BY <1>1, <1>2
  <2> QED BY <2>1, CarriedOn
<1>3. CASE q # r
  <2>1. PICK before \in ProcState : before = proc[q]
    BY <1>1
  <2>2. Carried(before, object)
    BY <2>1 DEF MediaIInv, Handlers
  <2>3. Carried(before, object')
    BY <2>2, CarriedOn
  <2>4. proc'[q] = before
    BY <2>1, <1>1, <1>3
  <2> QED BY <2>3, <2>4
<1> QED BY <1>2, <1>3

\* A removal leaves nothing that its verdict was about.
LEMMA RemovedKeeps ==
    ASSUME MediaIInv, NEW a \in Asset, Removed(a) \/ UNCHANGED object
    PROVE  /\ object' \in [Asset -> ObjectState]
           /\ \A b \in Asset : Passed(object[b]) => Passed(object'[b])
<1>1. CASE UNCHANGED object
  BY <1>1 DEF MediaIInv, TypeOK
<1>2. CASE Removed(a)
  <2>1. PICK it \in ObjectState : it = object[a]
    BY DEF MediaIInv, TypeOK
  <2>2. object' = [object EXCEPT ![a] = [content |-> "none",
                                         removed |-> it.removed \/ it.content # "none"]]
    BY <1>2, <2>1 DEF Removed
  <2> QED BY <2>1, <2>2 DEF MediaIInv, TypeOK, ObjectState, Content, Passed
<1> QED BY <1>1, <1>2

\* Rows and listings keep their promise when the contents stay, a row turns
\* clean only with a scanned content, and so does a listing's asset.
LEMMA UsedKept ==
    ASSUME MediaIInv,
           \A a \in Asset : Passed(object[a]) => Passed(object'[a]),
           \A a \in Asset : asset'[a].scan = "clean" =>
                asset[a].scan = "clean" \/ Passed(object[a]),
           \A a \in attached' :
                a \in attached \/ Passed(object[a])
    PROVE  OnlyScannedIsUsed'
BY DEF MediaIInv, OnlyScannedIsUsed, Passed, TypeOK

LEMMA InitInv == Init => MediaIInv
<1> SUFFICES ASSUME Init PROVE MediaIInv
  OBVIOUS
<1>1. NoRow \in AssetRow /\ NoObject \in ObjectState /\ Idle \in ProcState
  BY DEF NoRow, AssetRow, NoObject, ObjectState, Content, Idle, At, ProcState
<1>2. failures \in 0..MaxFailures
  BY BoundAssumption DEF Init
<1>3. TypeOK
  BY <1>1, <1>2 DEF Init, TypeOK
<1>4. Handlers /\ OnlyScannedIsUsed
  BY DEF Init, Handlers, OnlyScannedIsUsed, NoRow, NoObject, Idle, At,
         AssetCalls, Carried
<1> QED BY <1>3, <1>4 DEF MediaIInv

-----------------------------------------------------------------------------
LEMMA IdleTyped == Idle \in ProcState
BY DEF Idle, At, ProcState

LEMMA OnTyped ==
    ASSUME NEW pc \in AssetCalls, NEW a \in Asset
    PROVE  /\ On(pc, a) \in ProcState
           /\ On(pc, a).pc = pc /\ On(pc, a).a = a
           /\ On(pc, a).verdict = "none"
BY DEF On, At, ProcState, AssetCalls

LEMMA NextAssetTyped ==
    ASSUME MediaIInv, NEW c \in Proc
    PROVE  NextAsset(c) \in ProcState /\ NextAsset(c).pc = "scan"
<1>1. PICK state \in ProcState : state = proc[c]
  BY DEF MediaIInv, TypeOK
<1> QED BY <1>1 DEF NextAsset, At, Todo, ProcState

\* What happens to an upload outside the handlers.
LEMMA OutsideSteps ==
    ASSUME MediaIInv, NEW a \in Asset, Sign(a) \/ Upload(a) \/ Expire(a)
    PROVE  MediaIInv'
<1>1. CASE Sign(a)
  <2>1. TypeOK'
    BY <1>1 DEF MediaIInv, TypeOK, Sign, AssetRow
  <2>2. OnlyScannedIsUsed'
    BY <1>1 DEF MediaIInv, TypeOK, Sign, OnlyScannedIsUsed
  <2>3. Handlers'
    BY <1>1 DEF MediaIInv, Sign, Handlers
  <2> QED BY <2>1, <2>2, <2>3 DEF MediaIInv
<1>2. CASE Upload(a)
  <2>1. PICK c \in Content \ {"none"} : object' = [object EXCEPT ![a].content = c]
    BY <1>2 DEF Upload
  <2>2. TypeOK'
    BY <1>2, <2>1 DEF MediaIInv, TypeOK, Upload, ObjectState
  <2>3. \A b \in Asset : Passed(object[b]) => Passed(object'[b])
    BY <1>2, <2>1 DEF Upload, Stored, Passed, MediaIInv, TypeOK, ObjectState
  <2>4. OnlyScannedIsUsed'
    BY <1>2, <2>3 DEF MediaIInv, OnlyScannedIsUsed, Upload, Passed
  <2>5. Handlers'
    <3> SUFFICES ASSUME NEW q \in Proc PROVE Carried(proc[q], object')
      BY <1>2 DEF Handlers, Upload
    <3>1. PICK state \in ProcState : state = proc[q]
      BY DEF MediaIInv, TypeOK
    <3>2. Carried(state, object)
      BY <3>1 DEF MediaIInv, Handlers
    <3> QED BY <3>1, <3>2, <2>3, CarriedOn
  <2> QED BY <2>2, <2>4, <2>5 DEF MediaIInv
<1>3. CASE Expire(a)
  <2>1. TypeOK'
    BY <1>3 DEF MediaIInv, TypeOK, Expire, AssetRow
  <2>2. OnlyScannedIsUsed'
    BY <1>3 DEF MediaIInv, TypeOK, Expire, OnlyScannedIsUsed, AssetRow
  <2>3. Handlers'
    BY <1>3 DEF MediaIInv, Expire, Handlers
  <2> QED BY <2>1, <2>2, <2>3 DEF MediaIInv
<1> QED BY <1>1, <1>2, <1>3

-----------------------------------------------------------------------------
\* The step of a handler: a call that leaves contents alone, and what it
\* carries on to the next one.
LEMMA HandlerStep ==
    ASSUME MediaIInv, NEW r \in Proc, NEW state \in ProcState, Goes(r, state),
           Carried(state, object),
           UNCHANGED object \/ (\E a \in Asset : Removed(a)),
           UNCHANGED failures \/ Fails, UNCHANGED signed,
           asset' \in [Asset -> AssetRow],
           \A a \in Asset : asset'[a].scan = "clean" =>
                asset[a].scan = "clean" \/ Passed(object[a]),
           attached' \in SUBSET Asset,
           \A a \in attached' :
                a \in attached \/ Passed(object[a])
    PROVE  MediaIInv'
<1>1. /\ object' \in [Asset -> ObjectState]
      /\ \A b \in Asset : Passed(object[b]) => Passed(object'[b])
  <2>1. CASE UNCHANGED object
    BY <2>1 DEF MediaIInv, TypeOK
  <2>2. CASE \E a \in Asset : Removed(a)
    BY <2>2, RemovedKeeps
  <2> QED BY <2>1, <2>2
<1>2. OnlyScannedIsUsed'
  BY <1>1, UsedKept
<1>3. Handlers'
  BY <1>1, HandlersKept
<1>4. failures' \in 0..MaxFailures
  BY BoundAssumption DEF MediaIInv, TypeOK, Fails
<1>5. proc' \in [Proc -> ProcState]
  BY DEF MediaIInv, TypeOK, Goes
<1> QED BY <1>1, <1>2, <1>3, <1>4, <1>5 DEF MediaIInv, TypeOK

LEMMA IdleCarries == Idle \in ProcState /\ Carried(Idle, object)
BY IdleTyped DEF Carried, Idle, At, AssetCalls

LEMMA OnCarries ==
    ASSUME NEW pc \in AssetCalls \ {"attach", "verdict"}, NEW a \in Asset
    PROVE  On(pc, a) \in ProcState /\ Carried(On(pc, a), object)
BY OnTyped DEF Carried

LEMMA NextAssetCarries ==
    ASSUME MediaIInv, NEW c \in Proc
    PROVE  NextAsset(c) \in ProcState /\ Carried(NextAsset(c), object)
BY NextAssetTyped DEF Carried, AssetCalls

\* A row that is written keeps its type, and its verdict unless it is given
\* another.
LEMMA ScanSet ==
    ASSUME MediaIInv, NEW a \in Asset,
           NEW scan \in {"clean", "infected", "error"}, SetScan(a, scan),
           scan = "clean" => Passed(object[a])
    PROVE  /\ asset' \in [Asset -> AssetRow]
           /\ \A b \in Asset : asset'[b].scan = "clean" =>
                    asset[b].scan = "clean" \/ Passed(object[b])
BY DEF MediaIInv, TypeOK, SetScan, AssetRow

LEMMA DeletedSet ==
    ASSUME MediaIInv, NEW a \in Asset, SetDeleted(a)
    PROVE  /\ asset' \in [Asset -> AssetRow]
           /\ \A b \in Asset : asset'[b].scan = asset[b].scan
BY DEF MediaIInv, TypeOK, SetDeleted, AssetRow

LEMMA FinalizedRow ==
    ASSUME NEW row \in AssetRow
    PROVE  Finalized(row) \in AssetRow /\ Finalized(row).scan = row.scan
BY DEF Finalized, AssetRow

\* What a handler in a call about an asset carries.
LEMMA Carrying ==
    ASSUME MediaIInv, NEW r \in Proc, proc[r].pc \in AssetCalls
    PROVE  /\ proc[r].a \in Asset
           /\ proc[r].pc = "attach" => Passed(object[proc[r].a])
           /\ proc[r].pc = "verdict" => proc[r].verdict # "none"
           /\ proc[r].pc = "verdict" /\ proc[r].verdict = "clean"
                 => Passed(object[proc[r].a])
           /\ proc[r].todo \in SUBSET Asset /\ proc[r].due \in SUBSET Asset
           /\ proc[r].verdict \in {"none", "clean", "infected", "error"}
<1>1. PICK state \in ProcState : state = proc[r]
  BY DEF MediaIInv, TypeOK
<1>2. Carried(state, object)
  BY <1>1 DEF MediaIInv, Handlers
<1> QED BY <1>1, <1>2 DEF Carried, ProcState

-----------------------------------------------------------------------------
LEMMA RequestSteps ==
    ASSUME MediaIInv, NEW r \in Request, RequestStep(r)
    PROVE  MediaIInv'
<1> r \in Proc
  BY DEF Proc
<1> /\ asset \in [Asset -> AssetRow] /\ attached \in SUBSET Asset
    /\ \A a \in attached : Passed(object[a])
  BY DEF MediaIInv, TypeOK, OnlyScannedIsUsed, Passed
<1>1. ASSUME NEW a \in Asset, FinalizeRead(r, a) PROVE MediaIInv'
  BY <1>1, OnCarries, HandlerStep DEF FinalizeRead, AssetCalls
<1>2. ASSUME NEW a \in Asset, DeleteRead(r, a) PROVE MediaIInv'
  BY <1>2, OnCarries, HandlerStep DEF DeleteRead, AssetCalls
<1>3. ASSUME NEW a \in Asset, AttachRead(r, a) PROVE MediaIInv'
  <2>1. asset[a].scan = "clean" /\ Passed(object[a])
    BY <1>3 DEF AttachRead, MediaIInv, OnlyScannedIsUsed, Passed
  <2>2. On("attach", a) \in ProcState /\ Carried(On("attach", a), object)
    BY <2>1, OnTyped DEF Carried, AssetCalls
  <2> QED BY <1>3, <2>2, HandlerStep DEF AttachRead
<1>4. CASE Sniff(r)
  <2>1. proc[r].a \in Asset
    BY <1>4, Carrying DEF Sniff, Working, AssetCalls
  <2>2. CASE UNCHANGED asset
    <3>1. Goes(r, Idle) \/ Goes(r, On("info", proc[r].a))
          \/ Goes(r, On("purge", proc[r].a))
      BY <1>4 DEF Sniff
    <3> QED
      BY <1>4, <2>1, <2>2, <3>1, IdleCarries, OnCarries, HandlerStep
         DEF Sniff, AssetCalls
  <2>3. CASE SetScan(proc[r].a, "error") /\ Goes(r, On("purge", proc[r].a))
    <3>1. /\ asset' \in [Asset -> AssetRow]
          /\ \A b \in Asset : asset'[b].scan = "clean" =>
                    asset[b].scan = "clean" \/ Passed(object[b])
      BY <2>1, <2>3, ScanSet
    <3> QED
      BY <1>4, <2>1, <2>3, <3>1, OnCarries, HandlerStep
         DEF Sniff, AssetCalls
  <2> QED BY <1>4, <2>2, <2>3 DEF Sniff
<1>5. CASE Finalize(r)
  <2>1. proc[r].a \in Asset
    BY <1>5, Carrying DEF Finalize, Working, AssetCalls
  <2>2. /\ asset' \in [Asset -> AssetRow]
        /\ \A b \in Asset : asset'[b].scan = asset[b].scan
    BY <1>5, <2>1, FinalizedRow DEF Finalize
  <2> QED BY <1>5, <2>2, IdleCarries, HandlerStep DEF Finalize
<1>6. CASE Purge(r)
  <2>1. proc[r].a \in Asset
    BY <1>6, Carrying DEF Purge, Working, AssetCalls
  <2> QED BY <1>6, <2>1, IdleCarries, HandlerStep DEF Purge
<1>7. CASE Remove(r)
  <2>1. proc[r].a \in Asset
    BY <1>7, Carrying DEF Remove, Working, AssetCalls
  <2> QED
    BY <1>7, <2>1, IdleCarries, OnCarries, HandlerStep
       DEF Remove, AssetCalls
<1>8. CASE Mark(r)
  <2>1. proc[r].a \in Asset
    BY <1>8, Carrying DEF Mark, Working, AssetCalls
  <2>2. /\ asset' \in [Asset -> AssetRow]
        /\ \A b \in Asset : asset'[b].scan = asset[b].scan
    BY <1>8, <2>1, DeletedSet DEF Mark
  <2> QED BY <1>8, <2>2, IdleCarries, HandlerStep DEF Mark
<1>9. CASE Attach(r)
  <2>1. proc[r].a \in Asset /\ Passed(object[proc[r].a])
    BY <1>9, Carrying DEF Attach, Working, AssetCalls
  <2> QED BY <1>9, <2>1, IdleCarries, HandlerStep DEF Attach
<1>10. CASE Info(r)
  <2>1. proc[r].a \in Asset
    BY <1>10, Carrying DEF Info, Working, AssetCalls
  <2>2. CASE Goes(r, Idle)
    BY <1>10, <2>2, IdleCarries, HandlerStep DEF Info
  <2>3. CASE Goes(r, On("finalize", proc[r].a))
    BY <1>10, <2>1, <2>3, OnCarries, HandlerStep DEF Info, AssetCalls
  <2> QED BY <1>10, <2>2, <2>3 DEF Info
<1> QED
  BY <1>1, <1>2, <1>3, <1>4, <1>5, <1>6, <1>7, <1>8, <1>9, <1>10
     DEF RequestStep

-----------------------------------------------------------------------------
\* What a run carries from one call to the next.
LEMMA RunCarries ==
    ASSUME MediaIInv, NEW c \in Proc,
           NEW todo \in SUBSET Asset, NEW due \in SUBSET Asset
    PROVE  /\ \A pc \in {"sweep", "scan"} :
                  /\ At(pc, NoAsset, todo, due, "none") \in ProcState
                  /\ Carried(At(pc, NoAsset, todo, due, "none"), object)
           /\ \A a \in Asset, pc \in {"sweepMark", "scanPurge"} :
                  /\ At(pc, a, todo, due, "none") \in ProcState
                  /\ Carried(At(pc, a, todo, due, "none"), object)
           /\ \A a \in Asset, verdict \in {"clean", "infected", "error"} :
                  (verdict = "clean" => Passed(object[a])) =>
                  /\ At("verdict", a, todo, due, verdict) \in ProcState
                  /\ Carried(At("verdict", a, todo, due, verdict), object)
BY DEF At, ProcState, Carried, AssetCalls

LEMMA TodoTyped ==
    ASSUME MediaIInv, NEW c \in Proc
    PROVE  Todo(c) \in SUBSET Asset /\ proc[c].due \in SUBSET Asset
<1>1. PICK state \in ProcState : state = proc[c]
  BY DEF MediaIInv, TypeOK
<1> QED BY <1>1 DEF Todo, ProcState

\* clamscan answers clean only of bytes that are there and fine.
LEMMA CleanIsFine ==
    ASSUME MediaIInv, NEW a \in Asset, Found(a) = "clean"
    PROVE  Passed(object[a])
<1>1. PICK state \in ObjectState : state = object[a]
  BY DEF MediaIInv, TypeOK
<1>2. state.content \notin {"none", "infected"}
  BY <1>1 DEF Found, Stored
<1> QED BY <1>1, <1>2 DEF ObjectState, Content, Passed

LEMMA CronSteps ==
    ASSUME MediaIInv, NEW c \in Cron, CronStep(c)
    PROVE  MediaIInv'
<1> c \in Proc
  BY DEF Proc
<1> /\ asset \in [Asset -> AssetRow] /\ attached \in SUBSET Asset
    /\ \A a \in attached : Passed(object[a])
    /\ Todo(c) \in SUBSET Asset /\ proc[c].due \in SUBSET Asset
    /\ {} \in SUBSET Asset
  BY TodoTyped DEF MediaIInv, TypeOK, OnlyScannedIsUsed, Passed
<1>1. CASE SweepStart(c)
  <2>1. Expired \in SUBSET Asset
    BY DEF Expired
  <2> QED BY <1>1, <2>1, RunCarries, HandlerStep DEF SweepStart
<1>2. CASE SweepMark(c)
  <2>1. proc[c].a \in Asset
    BY <1>2, Carrying DEF SweepMark, Working, AssetCalls
  <2>2. /\ asset' \in [Asset -> AssetRow]
        /\ \A b \in Asset : asset'[b].scan = asset[b].scan
    <3>1. CASE SetDeleted(proc[c].a)
      BY <2>1, <3>1, DeletedSet
    <3> QED BY <1>2, <3>1 DEF SweepMark
  <2>3. Todo(c) \ {proc[c].a} \in SUBSET Asset
    OBVIOUS
  <2> QED BY <1>2, <2>2, <2>3, RunCarries, HandlerStep DEF SweepMark
<1>3. CASE ScanStart(c)
  <2>1. Pending(proc[c].due) \in SUBSET Asset
    BY DEF Pending
  <2> QED BY <1>3, <2>1, RunCarries, HandlerStep DEF ScanStart
<1>4. ASSUME NEW a \in Asset, Sweep(c, a) PROVE MediaIInv'
  <2>1. Todo(c) \ {a} \in SUBSET Asset
    OBVIOUS
  <2>2. CASE Removed(a)
    BY <1>4, <2>2, RunCarries, HandlerStep DEF Sweep
  <2>3. CASE UNCHANGED object
    BY <1>4, <2>1, <2>3, RunCarries, HandlerStep DEF Sweep
  <2> QED BY <1>4, <2>2, <2>3 DEF Sweep
<1>5. ASSUME NEW a \in Asset, Scan(c, a) PROVE MediaIInv'
  <2>1. PICK verdict \in {"clean", "infected", "error"} :
            /\ \/ verdict = Found(a) /\ UNCHANGED failures
               \/ verdict = NoAnswer /\ Fails
            /\ Goes(c, At("verdict", a, Todo(c), {}, verdict))
    BY <1>5 DEF Scan
  <2>2. verdict = "clean" => Passed(object[a])
    BY <2>1, CleanIsFine DEF NoAnswer
  <2>3. /\ At("verdict", a, Todo(c), {}, verdict) \in ProcState
        /\ Carried(At("verdict", a, Todo(c), {}, verdict), object)
    BY <2>2, RunCarries
  <2> QED BY <1>5, <2>1, <2>3, HandlerStep DEF Scan
<1>6. CASE Verdict(c)
  <2>1. /\ proc[c].a \in Asset
        /\ proc[c].verdict \in {"clean", "infected", "error"}
        /\ proc[c].verdict = "clean" => Passed(object[proc[c].a])
    BY <1>6, Carrying DEF Verdict, Working, AssetCalls
  <2>2. PICK state \in ProcState : Goes(c, state) /\ Carried(state, object)
    BY <1>6, <2>1, RunCarries, NextAssetCarries DEF Verdict
  <2>3. /\ asset' \in [Asset -> AssetRow]
        /\ \A b \in Asset : asset'[b].scan = "clean" =>
                  asset[b].scan = "clean" \/ Passed(object[b])
    BY <1>6, <2>1, ScanSet DEF Verdict
  <2> QED BY <1>6, <2>2, <2>3, HandlerStep DEF Verdict
<1>7. CASE ScanPurge(c)
  <2>1. proc[c].a \in Asset
    BY <1>7, Carrying DEF ScanPurge, Working, AssetCalls
  <2> QED BY <1>7, <2>1, NextAssetCarries, HandlerStep DEF ScanPurge
<1>8. CASE ScanDone(c)
  BY <1>8, IdleCarries, HandlerStep DEF ScanDone
<1>9. CASE VerdictLost(c)
  <2>1. proc[c].a \in Asset
    BY <1>9, Carrying DEF VerdictLost, Working, AssetCalls
  <2>2. /\ At("verdict", proc[c].a, Todo(c), {}, "error") \in ProcState
        /\ Carried(At("verdict", proc[c].a, Todo(c), {}, "error"), object)
    BY <2>1, RunCarries
  <2> QED BY <1>9, <2>2, HandlerStep DEF VerdictLost
<1> QED
  BY <1>1, <1>2, <1>3, <1>4, <1>5, <1>6, <1>7, <1>8, <1>9 DEF CronStep

LEMMA DieStep ==
    ASSUME MediaIInv, NEW r \in Proc, Die(r)
    PROVE  MediaIInv'
<1>1. /\ asset \in [Asset -> AssetRow] /\ attached \in SUBSET Asset
      /\ UNCHANGED <<asset, object, attached>>
  BY DEF MediaIInv, TypeOK, Die
<1> QED BY <1>1, IdleCarries, HandlerStep DEF Die

LEMMA StepInv == MediaIInv /\ [Next]_vars => MediaIInv'
<1> SUFFICES ASSUME MediaIInv, [Next]_vars PROVE MediaIInv'
  OBVIOUS
<1>1. CASE UNCHANGED vars
  BY <1>1 DEF vars, MediaIInv, TypeOK, Stored, Handlers, Carried,
         OnlyScannedIsUsed
<1>2. CASE Next
  BY <1>2, OutsideSteps, RequestSteps, CronSteps, DieStep DEF Next
<1> QED BY <1>1, <1>2

\* Rows, objects and handlers stay well typed for any number of uploads,
\* requests and runs (media-service.ts).
THEOREM MediaTypeCorrect == Spec => []TypeOK
<1>1. MediaIInv => TypeOK
  BY DEF MediaIInv
<1> QED BY InitInv, StepInv, <1>1, PTL DEF Spec

\* However requests and runs of the job overlap, fail and die, an asset is
\* clean, and a listing shows it, only if the scanner saw its bytes and let
\* them pass (runMediaMaintenance, assertMediaAttachable).
THEOREM ScannedBeforeUse == Spec => []OnlyScannedIsUsed
<1>1. MediaIInv => OnlyScannedIsUsed
  BY DEF MediaIInv
<1> QED BY InitInv, StepInv, <1>1, PTL DEF Spec

-----------------------------------------------------------------------------
(* The pages of a day's races.                                             *)

(* The clock.                                                              *)

\* The day of a number is found by division.
LEMMA Division ==
    ASSUME NEW x \in Int, NEW d \in Int
    PROVE  x \div Day = d <=> d * Day <= x /\ x < (d + 1) * Day
<1> DEFINE q == x \div Day
<1>1. q \in Int /\ Day \in Int /\ Day > 0
  BY ZoneAssumption
<1>2. q * Day <= x /\ x < q * Day + Day
  BY <1>1
<1>3. (d + 1) * Day = d * Day + Day /\ (q + 1) * Day = q * Day + Day
  BY <1>1
<1> HIDE DEF q
<1>4. d < q => (d + 1) * Day <= q * Day
  BY <1>1
<1>5. q < d => (q + 1) * Day <= d * Day
  BY <1>1
<1>6. d * Day \in Int /\ q * Day \in Int
  BY <1>1
<1> QED
  BY <1>1, <1>2, <1>3, <1>4, <1>5, <1>6 DEF q

LEMMA MidnightIsPlain ==
    ASSUME NEW d \in Int
    PROVE  d * Day \in Int /\ Plain(d * Day)
<1>1. d * Day \in Int /\ (d + 1) * Day = d * Day + Day
  BY ZoneAssumption
<1>2. (d * Day) \div Day = d
  BY <1>1, Division, ZoneAssumption
<1>3. (d * Day) % Day = 0
  BY <1>1, <1>2, ZoneAssumption
<1> QED
  BY <1>1, <1>3, MidnightAssumption DEF Plain

LEMMA WallType == ASSUME NEW t \in Int PROVE Wall(t) \in Int /\ DayOf(t) \in Int
BY ZoneAssumption DEF Wall, Offset, DayOf

\* From the instant that a plain wall clock stands for, the wall shows it or
\* later, and before that instant earlier, across both changes.
LEMMA NoEarlier ==
    ASSUME NEW w \in Int, Plain(w), NEW t \in Int
    PROVE  ToUtc(w) <= t <=> w <= Wall(t)
BY ZoneAssumption DEF ToUtc, Wall, Offset, Plain, Skipped, Repeated

(* A time on the wall that is not skipped is stored as an instant at which *)
(* the wall shows it.                                                      *)
THEOREM RoundTrip ==
    ASSUME NEW w \in Int, w \notin Skipped
    PROVE  ToUtc(w) \in Int /\ Wall(ToUtc(w)) = w
BY ZoneAssumption DEF ToUtc, Wall, Offset, Skipped

(* raceDateWindow: the window of a day is the day, be it an hour longer or *)
(* shorter than the others.                                                *)
THEOREM WindowIsTheDay ==
    \A t, d \in Int : Within(t, Window(d)) <=> DayOf(t) = d
<1> SUFFICES ASSUME NEW t \in Int, NEW d \in Int
             PROVE  Within(t, Window(d)) <=> DayOf(t) = d
  OBVIOUS
<1>1. Wall(t) \in Int
  BY WallType
<1>2. ToUtc(d * Day) <= t <=> d * Day <= Wall(t)
  BY MidnightIsPlain, NoEarlier
<1>3. ToUtc((d + 1) * Day) <= t <=> (d + 1) * Day <= Wall(t)
  BY MidnightIsPlain, NoEarlier
<1>4. ToUtc((d + 1) * Day) \in Int /\ (d + 1) * Day \in Int
  BY MidnightIsPlain, RoundTrip DEF Plain
<1>5. t < ToUtc((d + 1) * Day) <=> Wall(t) < (d + 1) * Day
  BY <1>1, <1>3, <1>4
<1> QED
  BY <1>1, <1>2, <1>5, Division DEF Within, Window, DayOf

(* raceClockTimeWindow: the window of a time on the wall has the races at  *)
(* that time, unless the wall shows the time twice, or never.              *)
THEOREM ClockWindowIsTheTime ==
    \A t, w \in Int : Plain(w) => (Within(t, ClockWindow(w)) <=> Wall(t) = w)
<1> SUFFICES ASSUME NEW t \in Int, NEW w \in Int, Plain(w)
             PROVE  Within(t, ClockWindow(w)) <=> Wall(t) = w
  OBVIOUS
<1>1. ToUtc(w) \in Int /\ Wall(ToUtc(w)) = w /\ Wall(t) \in Int
  BY RoundTrip, WallType DEF Plain
<1>2. ToUtc(w) <= t <=> w <= Wall(t)
  BY NoEarlier
<1>3. t = ToUtc(w) => Wall(t) = w
  BY <1>1
<1>4. Wall(t) = w => t = ToUtc(w)
  BY <1>1, ZoneAssumption DEF Wall, Offset, ToUtc, Plain, Skipped, Repeated
<1> QED
  BY <1>1, <1>3, <1>4 DEF Within, ClockWindow

------------------------------------------------------------------------------
(* The pages.                                                              *)

HasRace(d) == \E r \in Race : raceTime[r] # None /\ DayOf(raceTime[r]) = d

\* A day was listed for a race that has not strayed from it.
Listed(days) == strayed = {} => \A d \in days : HasRace(d)

\* The meetings that a page has read have the races that stay on its day.
MeetingsAreRead ==
    /\ \A r \in front.had \ strayed :
        DayOf(raceTime[r]) = front.day => MeetingOf[r] \in front.meetings
    /\ front.had # {} /\ strayed = {} =>
        \E r \in Race : /\ raceTime[r] # None /\ DayOf(raceTime[r]) = front.day
                       /\ MeetingOf[r] \in front.meetings

Made ==
    /\ front.had \subseteq OnRecord
    /\ front.days # Unread => Listed(front.days)
    /\ front.latest \notin {None, Unread} => Listed({DayOf(front.latest)})
    /\ front.latest = None => front.had = {}
    /\ front.step \in {"meetings", "races"} =>
        front.day \in Int /\ (front.had # {} => Listed({front.day}))
    /\ front.step = "races" => MeetingsAreRead

Kept == store.page # None =>
    LET page == store.page
    IN  /\ page.had \cup page.races \subseteq OnRecord
        /\ \A r \in Race \ strayed : raceTime[r] # None =>
            /\ r \in page.races => DayOf(raceTime[r]) = page.day
            /\ r \in page.had /\ DayOf(raceTime[r]) = page.day => r \in page.races
        /\ page.had # {} /\ strayed = {} => page.races # {}

ExplorerIInv == ExplorerTypeOK /\ Listed(dates.days) /\ Made /\ Kept

LEMMA ShownAreOfTheDay ==
    ASSUME ExplorerTypeOK, NEW d \in Int
    PROVE  Shown(d) = RacesOf(d)
<1>1. ASSUME NEW r \in OnRecord
      PROVE  raceTime[r] \in Int
  BY DEF OnRecord, ExplorerTypeOK
<1> QED
  BY <1>1, WindowIsTheDay DEF Shown, RacesOf

LEMMA LoadedAreListed ==
    ASSUME ExplorerTypeOK
    PROVE  /\ Loaded \in [days : SUBSET Int, until : Int]
           /\ Listed(Loaded.days)
<1>1. \A r \in OnRecord : DayOf(raceTime[r]) \in Int
  BY WallType DEF OnRecord, ExplorerTypeOK
<1>2. Newest(RaceDays) \subseteq RaceDays /\ now + TTL \in Int
  BY ExplorerAssumption DEF Newest, ExplorerTypeOK
<1>3. RaceDays \subseteq Int
  BY <1>1 DEF RaceDays
<1>4. \A d \in RaceDays : HasRace(d)
  BY DEF RaceDays, HasRace, OnRecord
<1> QED
  BY <1>2, <1>3, <1>4 DEF Loaded, Listed

\* What the feeds do leaves standing what is known of races that stay.
LEMMA FeedsKeep ==
    ASSUME ExplorerIInv, NEW r \in Race, Publish(r) \/ Correct(r)
    PROVE  ExplorerIInv'
<1>0. PICK t \in Given :
        /\ raceTime' = [raceTime EXCEPT ![r] = t]
        /\ raceTime[r] = None \/ r \in strayed' \/ DayOf(t) = DayOf(raceTime[r])
  BY DEF Publish, Correct
<1>1. t \in Int /\ t # None
  BY ExplorerAssumption
<1>2. UNCHANGED <<now, dates, front, store, failed>>
  BY DEF Publish, Correct
<1>3. strayed \subseteq strayed' /\ strayed' \subseteq strayed \cup {r}
  BY DEF Publish, Correct
<1>4. \A q \in Race : q # r => raceTime'[q] = raceTime[q]
  BY <1>0 DEF ExplorerIInv, ExplorerTypeOK
<1>5. raceTime'[r] = t
  BY <1>0 DEF ExplorerIInv, ExplorerTypeOK
<1>6. \A q \in Race : raceTime[q] # None /\ q \notin strayed' =>
        raceTime'[q] # None /\ DayOf(raceTime'[q]) = DayOf(raceTime[q])
  BY <1>0, <1>1, <1>4, <1>5
<1>7. OnRecord \subseteq OnRecord'
  BY <1>1, <1>4, <1>5 DEF OnRecord
<1>8. ExplorerTypeOK'
  BY <1>0, <1>1, <1>2, <1>3 DEF ExplorerIInv, ExplorerTypeOK
<1>9. ASSUME NEW days, Listed(days) PROVE Listed(days)'
  BY <1>3, <1>6, <1>9 DEF Listed, HasRace
<1>10. Listed(dates.days)'
  BY <1>2, <1>9 DEF ExplorerIInv, Listed, HasRace
<1>11. Made'
  <2>1. ASSUME MeetingsAreRead, strayed' = {} => strayed = {}
        PROVE  MeetingsAreRead'
    BY <1>2, <1>3, <1>6, <2>1 DEF ExplorerIInv, Made, MeetingsAreRead, OnRecord
  <2> QED
    BY <1>2, <1>3, <1>7, <1>9, <2>1 DEF ExplorerIInv, Made, Listed, HasRace
<1>12. Kept'
  <2> SUFFICES ASSUME store.page # None PROVE Kept'
    BY <1>2 DEF Kept
  <2> DEFINE page == store.page
  <2>1. page.had \cup page.races \subseteq OnRecord
    BY DEF ExplorerIInv, Kept
  <2>2. ASSUME NEW q \in Race \ strayed', raceTime'[q] # None
        PROVE  /\ q \in page.races => DayOf(raceTime'[q]) = page.day
               /\ q \in page.had /\ DayOf(raceTime'[q]) = page.day => q \in page.races
    <3>1. CASE raceTime[q] = None
      BY <2>1, <3>1 DEF OnRecord
    <3>2. CASE raceTime[q] # None
      BY <1>3, <1>6, <2>2, <3>2 DEF ExplorerIInv, Kept
    <3> QED
      BY <3>1, <3>2
  <2>3. page.had # {} /\ strayed' = {} => page.races # {}
    BY <1>3 DEF ExplorerIInv, Kept
  <2> QED
    BY <1>2, <1>7, <2>1, <2>2, <2>3 DEF Kept
<1> QED
  BY <1>8, <1>10, <1>11, <1>12 DEF ExplorerIInv

\* A page that is not being made has read nothing.
LEMMA AtRest ==
    /\ Rest \in Front
    /\ Rest.step = "rest" /\ Rest.had = {} /\ Rest.latest = Unread
    /\ Rest.days = Unread
<1>1. {} \in SUBSET Race
  OBVIOUS
<1> QED
  BY <1>1 DEF Rest, Front

LEMMA RestIsMade == front = Rest => Made
BY AtRest, ExplorerAssumption DEF Made

\* The races stay as they are: so does what is listed of them.
LEMMA SameRaces ==
    ASSUME UNCHANGED <<raceTime, strayed>>, NEW days
    PROVE  Listed(days)' <=> Listed(days)
BY DEF Listed, HasRace

LEMMA OpenKeeps == ExplorerIInv /\ Open => ExplorerIInv'
<1> SUFFICES ASSUME ExplorerIInv, Open PROVE ExplorerIInv'
  OBVIOUS
<1> USE DEF Open, ExplorerIInv
<1>1. OnRecord' = OnRecord /\ OnRecord \subseteq Race
  BY DEF OnRecord
<1>2. front'.had = OnRecord /\ front'.latest = Unread /\ front'.step = "reading"
        /\ (front'.days # Unread => front'.days = dates.days)
  BY DEF Rest
<1>3. ExplorerTypeOK'
  BY <1>1 DEF ExplorerTypeOK, Front, Rest
<1>4. Made'
  BY <1>1, <1>2, SameRaces, ExplorerAssumption DEF Made
<1>5. Kept'
  BY <1>1 DEF Kept
<1> QED
  BY <1>3, <1>4, <1>5, SameRaces

LEMMA ReadsKeep == ExplorerIInv /\ (ReadLatest \/ ReadDates \/ LoadDates) => ExplorerIInv'
<1>1. ASSUME ExplorerIInv, ReadLatest PROVE ExplorerIInv'
  <2> USE <1>1 DEF ExplorerIInv
  <2>1. OnRecord' = OnRecord /\ front'.had = front.had /\ front'.days = front.days
          /\ front'.step = "reading"
    BY DEF ReadLatest, OnRecord, ExplorerTypeOK, Front
  <2>2. \/ front'.latest = None /\ OnRecord = {}
        \/ \E r \in OnRecord : front'.latest = raceTime[r]
    BY DEF ReadLatest, ExplorerTypeOK, Front
  <2>3. ExplorerTypeOK'
    BY DEF ReadLatest, ExplorerTypeOK, Front, OnRecord
  <2>4. Made'
    <3>1. front'.latest \notin {None, Unread} => Listed({DayOf(front'.latest)})
      BY <2>2 DEF Listed, HasRace, OnRecord
    <3>2. front'.latest = None => front'.had = {}
      BY <2>1, <2>2 DEF Made, OnRecord
    <3>3. UNCHANGED <<raceTime, strayed>>
      BY DEF ReadLatest
    <3> QED
      BY <2>1, <3>1, <3>2, <3>3 DEF Made, Listed, HasRace
  <2>5. Kept'
    BY <2>1 DEF ReadLatest, Kept
  <2> QED
    BY <2>3, <2>4, <2>5, SameRaces DEF ReadLatest
<1>2. ASSUME ExplorerIInv, ReadDates PROVE ExplorerIInv'
  <2> USE <1>2 DEF ExplorerIInv
  <2>1. OnRecord' = OnRecord /\ front'.had = front.had /\ front'.latest = front.latest
          /\ front'.step = "reading"
          /\ front'.days = Loaded.days
    BY DEF ReadDates, OnRecord, ExplorerTypeOK, Front
  <2>2. Loaded \in [days : SUBSET Int, until : Int] /\ Listed(Loaded.days)
    BY LoadedAreListed
  <2>3. ExplorerTypeOK'
    BY <2>2 DEF ReadDates, ExplorerTypeOK, Front
  <2>4. UNCHANGED <<raceTime, strayed>>
    BY DEF ReadDates
  <2>5. Made'
    BY <2>1, <2>2, <2>4 DEF Made, Listed, HasRace
  <2>6. Kept'
    BY <2>1 DEF ReadDates, Kept
  <2> QED
    BY <2>2, <2>3, <2>4, <2>5, <2>6, SameRaces DEF ReadDates
<1>3. ASSUME ExplorerIInv, LoadDates PROVE ExplorerIInv'
  <2> USE <1>3 DEF ExplorerIInv
  <2>1. Loaded \in [days : SUBSET Int, until : Int] /\ Listed(Loaded.days)
    BY LoadedAreListed
  <2> QED
    BY <2>1 DEF LoadDates, ExplorerTypeOK, Made, MeetingsAreRead, Kept, Listed,
       HasRace, OnRecord
<1> QED
  BY <1>1, <1>2, <1>3

\* The day that is chosen is a day of races, if there were any.
LEMMA DefaultHasRaces ==
    ASSUME ExplorerIInv, NEW day \in DefaultDays(front.latest, front.days),
           front.latest # Unread, front.days # Unread
    PROVE  day \in Int /\ (front.had # {} => Listed({day}))
<1> DEFINE past == {d \in front.days : d <= DayOf(now)}
<1>1. front.days \subseteq Int /\ now \in Int
      /\ (front.latest = None \/ front.latest \in Int)
  BY DEF ExplorerIInv, ExplorerTypeOK, Front
<1>2. CASE past # {}
  <2>1. day \in front.days
    BY <1>2 DEF DefaultDays
  <2> QED
    BY <1>1, <2>1 DEF ExplorerIInv, Made, Listed
<1>3. CASE past = {}
  <2>1. day = DayOf(IF front.latest = None THEN now ELSE front.latest)
    BY <1>3 DEF DefaultDays
  <2>2. day \in Int
    BY <1>1, <2>1, WallType
  <2> QED
    BY <2>1, <2>2 DEF ExplorerIInv, Made, Listed
<1> QED
  BY <1>2, <1>3

LEMMA ChooseKeeps == ExplorerIInv /\ Choose => ExplorerIInv'
<1> SUFFICES ASSUME ExplorerIInv, Choose PROVE ExplorerIInv'
  OBVIOUS
<1>1. PICK day \in DefaultDays(front.latest, front.days) :
        front' = [front EXCEPT !.step = "meetings", !.day = day]
  BY DEF Choose
<1>2. day \in Int /\ (front.had # {} => Listed({day}))
  BY DefaultHasRaces DEF Choose
<1>3. front'.had = front.had /\ front'.latest = front.latest /\ front'.day = day
        /\ front'.days = front.days /\ front'.step = "meetings"
  BY <1>1 DEF ExplorerIInv, ExplorerTypeOK, Front
<1>4. UNCHANGED <<now, raceTime, strayed, dates, store, failed>>
  BY DEF Choose
<1>5. ExplorerTypeOK'
  BY <1>1, <1>2, <1>4 DEF ExplorerIInv, ExplorerTypeOK, Front
<1>6. Made'
  BY <1>2, <1>3, <1>4 DEF ExplorerIInv, Made, Listed, HasRace, OnRecord
<1>7. Kept'
  BY <1>4 DEF ExplorerIInv, Kept, OnRecord
<1> QED
  BY <1>4, <1>5, <1>6, <1>7, SameRaces DEF ExplorerIInv

LEMMA MeetingsKeep == ExplorerIInv /\ ReadMeetings => ExplorerIInv'
<1> SUFFICES ASSUME ExplorerIInv, ReadMeetings PROVE ExplorerIInv'
  OBVIOUS
<1>1. /\ front'.had = front.had /\ front'.latest = front.latest
      /\ front'.day = front.day /\ front'.days = front.days
      /\ front'.step = "races"
      /\ front'.meetings = {MeetingOf[r] : r \in Shown(front.day)}
  BY DEF ReadMeetings, ExplorerIInv, ExplorerTypeOK, Front
<1>2. UNCHANGED <<now, raceTime, strayed, dates, store, failed>>
  BY DEF ReadMeetings
<1>3. front.day \in Int /\ (front.had # {} => Listed({front.day}))
        /\ front.had \subseteq OnRecord
  BY DEF ReadMeetings, ExplorerIInv, Made
<1>4. Shown(front.day) = {r \in OnRecord : DayOf(raceTime[r]) = front.day}
  BY <1>3, ShownAreOfTheDay DEF ExplorerIInv, RacesOf
<1>5. \A r \in Race : raceTime[r] # None /\ DayOf(raceTime[r]) = front.day =>
        MeetingOf[r] \in front'.meetings
  BY <1>1, <1>4 DEF OnRecord
<1>6. {MeetingOf[r] : r \in Shown(front.day)} \in SUBSET Meeting
  BY ExplorerAssumption DEF Shown, OnRecord
<1>7. ExplorerTypeOK'
  BY <1>2, <1>6 DEF ReadMeetings, ExplorerIInv, ExplorerTypeOK, Front
<1>8. MeetingsAreRead'
  BY <1>1, <1>2, <1>3, <1>5 DEF MeetingsAreRead, Listed, HasRace, OnRecord
<1>9. Made'
  BY <1>1, <1>2, <1>3, <1>8 DEF ExplorerIInv, Made, Listed, HasRace, OnRecord
<1>10. Kept'
  BY <1>2 DEF ExplorerIInv, Kept, OnRecord
<1> QED
  BY <1>2, <1>7, <1>9, <1>10, SameRaces DEF ExplorerIInv

LEMMA AnswerKeeps == ExplorerIInv /\ Answer => ExplorerIInv'
<1> SUFFICES ASSUME ExplorerIInv, Answer PROVE ExplorerIInv'
  OBVIOUS
<1> DEFINE races == {r \in RacesOf(front.day) : MeetingOf[r] \in front.meetings}
<1>1. front.day \in Int /\ front.had \subseteq OnRecord /\ MeetingsAreRead
  BY DEF ExplorerIInv, Answer, Made
<1>2. Shown(front.day) = RacesOf(front.day) /\ OnRecord \subseteq Race
  BY <1>1, ShownAreOfTheDay DEF ExplorerIInv, OnRecord
<1>3. races \subseteq OnRecord
  BY DEF RacesOf
<1>4. store' = [until |-> now + TTL,
                page |-> [day |-> front.day, had |-> front.had, races |-> races]]
  BY <1>2 DEF Answer, Settle
<1>5. [day |-> front.day, had |-> front.had, races |-> races] \in Page
        /\ now + TTL \in Int
  BY <1>1, <1>2, <1>3, ExplorerAssumption DEF Page, ExplorerIInv, ExplorerTypeOK
<1> HIDE DEF races
<1>6. UNCHANGED <<now, raceTime, strayed, dates, failed>> /\ front' = Rest
  BY DEF Answer, Settle
<1>7. ExplorerTypeOK'
  BY <1>4, <1>5, <1>6, AtRest DEF ExplorerIInv, ExplorerTypeOK
<1>8. Made'
  BY <1>6, AtRest, ExplorerAssumption DEF Made
<1>9. \A r \in Race \ strayed : raceTime[r] # None =>
        /\ r \in races => DayOf(raceTime[r]) = front.day
        /\ r \in front.had /\ DayOf(raceTime[r]) = front.day => r \in races
  BY <1>1 DEF races, RacesOf, OnRecord, MeetingsAreRead
<1>10. front.had # {} /\ strayed = {} => races # {}
  BY <1>1 DEF races, RacesOf, OnRecord, MeetingsAreRead
<1>11. OnRecord' = OnRecord
  BY <1>6 DEF OnRecord
<1>12. Kept'
  BY <1>1, <1>3, <1>4, <1>6, <1>9, <1>10, <1>11 DEF Kept
<1> QED
  BY <1>6, <1>7, <1>8, <1>12, SameRaces DEF ExplorerIInv

LEMMA RestKeeps == ExplorerIInv /\ (Fail \/ Tick \/ UNCHANGED explorerVars) => ExplorerIInv'
<1>1. ASSUME ExplorerIInv, Fail PROVE ExplorerIInv'
  <2>1. UNCHANGED <<now, raceTime, strayed, dates, store>> /\ front' = Rest
    BY <1>1 DEF Fail
  <2>2. failed' \in Nat
    BY <1>1 DEF Fail, ExplorerIInv, ExplorerTypeOK
  <2>3. ExplorerTypeOK'
    BY <1>1, <2>1, <2>2, AtRest DEF ExplorerIInv, ExplorerTypeOK
  <2>4. Made'
    BY <2>1, AtRest, ExplorerAssumption DEF Made
  <2>5. Listed(dates.days)' /\ Kept'
    BY <1>1, <2>1 DEF ExplorerIInv, Kept, Listed, HasRace, OnRecord
  <2> QED
    BY <2>3, <2>4, <2>5 DEF ExplorerIInv
<1>2. ExplorerIInv /\ Tick => ExplorerIInv'
  BY ExplorerAssumption DEF ExplorerIInv, Tick, ExplorerTypeOK, Made, MeetingsAreRead,
     Kept, Listed, HasRace, OnRecord
<1>3. ExplorerIInv /\ UNCHANGED explorerVars => ExplorerIInv'
  BY DEF explorerVars, ExplorerIInv, ExplorerTypeOK, Made, MeetingsAreRead, Kept, Listed,
     HasRace, OnRecord
<1> QED
  BY <1>1, <1>2, <1>3

LEMMA AlwaysInv == ExplorerSpec => []ExplorerIInv
<1>1. ASSUME ExplorerInit PROVE ExplorerIInv
  <2>1. Made
    BY <1>1, RestIsMade DEF ExplorerInit
  <2>2. now \in Int /\ raceTime \in [Race -> Int \cup {None}]
    BY <1>1, ExplorerAssumption DEF ExplorerInit
  <2>3. dates \in [days : SUBSET Int, until : Int] /\ Listed(dates.days)
    BY <1>1, <2>2 DEF ExplorerInit, Listed
  <2>4. store \in [page : Page \cup {None}, until : Int] /\ Kept
    BY <1>1, <2>2 DEF ExplorerInit, Kept
  <2> QED
    BY <1>1, <2>1, <2>2, <2>3, <2>4, AtRest DEF ExplorerInit, ExplorerIInv, ExplorerTypeOK
<1>2. ExplorerIInv /\ [ExplorerNext]_explorerVars => ExplorerIInv'
  BY FeedsKeep, OpenKeeps, ReadsKeep, ChooseKeeps, MeetingsKeep, AnswerKeeps, RestKeeps
     DEF ExplorerNext
<1> QED
  BY <1>1, <1>2, PTL DEF ExplorerSpec

(* Types, for any zone, races and times.                                   *)
THEOREM ExplorerTypeCorrect == ExplorerSpec => []ExplorerTypeOK
BY AlwaysInv, PTL DEF ExplorerIInv

(* A day's window has the races of that day, and the front page shows the  *)
(* races of its day and is not empty while there are races, whatever the   *)
(* zone, the races, the times of feeds and the age of the list.            *)
THEOREM PagesStayWhole == ExplorerSpec => []PagesAreWhole
<1>1. ExplorerIInv => PagesAreWhole
  <2> SUFFICES ASSUME ExplorerIInv PROVE PagesAreWhole
    OBVIOUS
  <2>1. RaceDays \cup {DayOf(now)} \subseteq Int
    BY WallType DEF ExplorerIInv, ExplorerTypeOK, RaceDays, OnRecord
  <2>2. \A d \in RaceDays \cup {DayOf(now)} : Shown(d) = RacesOf(d)
    BY <2>1, ShownAreOfTheDay DEF ExplorerIInv
  <2>3. store.page # None => store.page.races \subseteq OnRecord
                             /\ store.page.had \subseteq OnRecord
    BY DEF ExplorerIInv, Kept
  <2> QED
    BY <2>2, <2>3 DEF ExplorerIInv, Kept, PagesAreWhole, RacesOf, OnRecord
<1> QED
  BY <1>1, AlwaysInv, PTL
=============================================================================
