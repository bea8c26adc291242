# Verification project for Greyhound IQ

Greyhound IQ is a Next.js application on Cloud Run with a Postgres database
behind Prisma: racing data, a marketplace, conversations, calls, media, a feed,
notifications, billing through Stripe (and an older Lago integration), custom
pages and AI agents; and scripts that bring the racing archive in. Its
instances are stateless and serve requests concurrently; everything that
persists is in Postgres, in the object store, or at Stripe, LiveKit and the
racing providers. This directory holds TLA+ specifications of the parts whose
correctness depends on what happens between two steps of a handler, of a job or
of a browser, the TLC configurations that check them on small instances, and
TLAPS proofs for every instance.

Paths below are relative to the repository; `src/lib/` is the library of the
application.

## 1. What is an atomic step

`withDbRequestContext` and `withDbSystemContext` (src/lib/db-context.ts) each
open one interactive transaction at READ COMMITTED with a thirty second limit.
Two calls of them in one function are two transactions: any other request, a
webhook or a scheduled job may commit in between. All models use that boundary:

- a transaction is one action, and a handler is a chain of actions with what it
  read or decided so far in a variable of the request (`proc`, `req`, `call`);
- a transaction that reads and later writes *what it read* is two actions,
  since READ COMMITTED lets another transaction commit between its statements;
  a guarded `updateMany` is one action, since Postgres evaluates the condition
  again on the row it locks;
- a statement that fails aborts its transaction: everything the transaction did
  is rolled back, and every later statement in it fails too;
- a call to Stripe, LiveKit, the object store or a provider is a step of its
  own, which can fail, and after which the process can die;
- a script shares files with other processes: a rewrite of a whole file and an
  append are one step each, and a process may be killed between them, or inside
  them where the code reads a torn file or line differently;
- in the browser, what runs between two awaits is one step.

Time is a counter with a bound, or an age, or a flag (ahead or past), whatever
the properties tell apart. Two deadlines that are the same column are one.

## 2. Inventory

| Component | State it keeps | Operations | What is hard about it | What makes it correct | Module |
| --- | --- | --- | --- | --- | --- |
| Marketplace listings (listing-service.ts) | Listing, ListingStatusHistory | create, edit, renew, sell, withdraw; approve, reject, remove; expiry job; account deletion | a row read in one transaction is written back in another; decisions race edits | only approved content is public; overdue ones leave | ListingLifecycle |
| Stripe billing (billing/stripe-*.ts, two routes) | User's tier and Stripe ids, WebhookEvent, CustomDesignRequest | checkout, webhook inbox and reducer | events late, twice, out of order; calls to Stripe between transactions | an event counts once, for its own user; the tier settles | StripeBilling, BillingLedger |
| Lago billing (billing/lago-*.ts) | WebhookEvent, Subscription, InvoiceRecord, BillingEvent | ingest, reduce, replay verdicts | inbox and effect are two transactions | the inbox and the billing events agree | LagoInbox |
| Calls (call-service.ts, livekit-admin.ts, LiveKit webhook) | CallRoom, CallInvite, CallParticipant, CallEvent; LiveKit's room | create, token, respond, end; three webhooks; maintenance job | four parties end one call; webhooks late and repeated; teardown fails | a call ends, once; invites resolve | CallRooms |
| Call panel (conversation-call-panel.tsx) | the state of a React component, LiveKit connections | start, join, accept, decline, retry, leave | answers, events and refreshes in any order | the call shown is the connection that is on | CallPanel |
| Media (media-service.ts, supabase-storage.ts) | MediaAsset, the stored object, attachments | sign, upload, finalize, delete, attach; sweep and scan job | database and object store are not one transaction; runs overlap | nothing unscanned is used; uploads get a verdict or go | MediaAssets |
| Conversations (conversation-service.ts) | Conversation, Message, receipts, cursors, UserBlock | open, send, read, delivered, delete, block, unblock | two tabs, two users, checks apart from writes | ticks agree; a block holds; inbox order | Conversations |
| Feed (feed-service.ts, moderation-service.ts, instant-feed-controls.tsx, realtime-refresh.tsx) | FeedPost, FeedComment, FeedReaction, blocks, phrases, topics; what tabs show | post, comment, like, moderate; broadcast, refresh | the checks are transactions before the write; broadcasts are lost | rules held when asked; the author told once; tabs catch up | Feed |
| Notifications (notification-service.ts) | Notification with its delivery columns | create, dedupe, read; delivery job | posts inside one long transaction, overlapping calls | a notification arrives, or its attempts are used up | Notifications |
| Agents and memory, usage (agent-service.ts, usage-service.ts) | AgentRun, MemoryEntry, ConversationContext, UsageEvent, UsageOutbox | run, cancel, clean-up, record; remember, use, decay | run, cancel and clean-up write a status unread; job beside use | a charge has its output; decay counts time once | AgentRuns, AgentMemory |
| Accounts (auth.ts, auth-sync.ts, account-service.ts, admin-service.ts) | User: identity, address, flags, deletion | sync at sign-in, ask for deletion, ban, admin's form; the job | the job's list is old; a sync writes back what it read | scrubbed only who asked; no row goes to another | Accounts |
| Custom pages and dog ownership (custom-page-service.ts, dog-ownership) | CustomPage, DogOwnership, the card's media | open, publish, update, delete, draw; claim, review | the questions are transactions before the insert | a dog's page has its owner | CustomPages |
| Reports and moderation (report-service.ts) | Report, ListingReport, counts, TrustSafetyFlag | report, decide | two moderators, two tables and a count | reports, entries and counts agree | Reports |
| Live race data (live/sync.ts, live/provider.ts, dog-win-notify.ts) | Race, Runner, Result, FormEntry; notifications of wins | syncs of results and of cards; scan for wins | several schedulers, old feeds, providers that disagree | rows end as published; known facts stay; winners' owners told once | LiveSync |
| Identity of dogs (live/sync.ts, dog-profile-sync.ts, two import scripts) | Dog: brand, name, relations | match and make rows | lookups apart from writes, two sites with ids of their own | the races of a dog are on one row | DogIdentity |
| Archive harvest (backfill-thedogs-shards.ts, backfill-thedogs.ts) | manifest and progress files, results | start, resume, stop; coordinator, workers | processes die; every file is rewritten whole from a copy | a completed shard has every day | HarvestShards |
| Archive import (supervise- and import-thedogs-race-day-archive) | raw and progress files, RaceDayArchive | supervisor, importers in turns | fewer importers than shards | every file that can be read goes in | ArchiveImport |
| Profile import (supervise- and import-thedogs-dog-profile-raw, hydrate) | profile files, form rows | supervisors, importers | form is cleared and filled in two steps | a recorded profile has all its rows | ProfileImport |
| Profile harvest (backfill-thedogs-dog-profile-raw*.ts, supervisors) | raw pages, progress files, manifest | workers, waves, batches, stop | deaths at any step; new dogs meanwhile | every page that can be had is archived | ProfileHarvest |
| Replays (live/sync.ts, two backfill-race-videos scripts) | RaceVideo, a progress file | upsert of the sync, two jobs | three writers, one row | a replay that can be found is found | RaceVideos |
| Pages of a day's races (queries.ts, ttl-cache.ts, race-time.ts) | the page without a filter and the list of days, kept by an instance | open, read, keep; the feeds' races | reads at instants of their own, from caches; days of 23 and 25 hours | a day's page has that day's races, and is not empty for an old list | RaceTime, RaceExplorer |
| Friends, forum, support, other queries and pages | reads, or rows of one transaction that do not change after | | nothing | | not modelled |
| Rate limits, other caches, presence | RateLimit; a map per instance; broadcasts | | best effort, by their comments | | not modelled |
| Provider parsers, deployment, schema | none of the application's | | parsing | | not modelled |

How they interact. Requests reach the services through the API routes and
server actions. Stripe, Lago and LiveKit call webhook routes. Cloud Scheduler
calls the internal routes (listing expiry, call maintenance, media maintenance,
live sync, account deletion, notification delivery, agent clean-up, memory
decay) and a backup workflow and operators may call the same ones at the same
time. Services share rows, not memory: account deletion writes listings and the
user row that Stripe's webhook writes; listings attach media; the feed's block
button writes the UserBlock rows that conversations check; a live sync starts
the scan for wins, which writes notifications, and shares the rows of dogs and
of replays with scripts. The scripts share files: the supervisors read the
progress files of the workers they start.

PROJECT.json lists, under "hazards", where the code is exposed to each of the
hard behaviours, with the properties that would catch it going wrong.

## 3. How the modules are run

Each component has a module of its own. Components that share no rows are
checked side by side in one run: a host module (MCCommunity, MCServices,
MCHarvest, MCFeed, MCMedia) has the variables of all of them and a rigid variable `side`
that says which of them a behaviour is of; the others keep their initial
values. The result is the union of the state spaces, not their product, and a
property of a side says nothing of the others (`side = "feed" => ...`).
`TypesOK` of a host is the type invariant of each side. Fairness is stated on
the host as `WF_mine(Turn(i))`, where `mine` is the tuple of variables of the
side that runs, and `Turn(i)` its i-th fair step: since `side` is rigid that is
the weak fairness of each step of each side.

| Run | Host and sides | What it asks |
| --- | --- | --- |
| `community` | MCCommunity: listings, pages, reports, runs, memory, dogs | `TypesOK`, `PublicIsVetted`, `PagesAreOwned`, `ReportsAgree`, `ChargeMatchesOutput`, `DecayIsByTime`, `OneSiteOneRow` |
| `services` | MCServices: lago, stripe (in order), users, notes, listings (the job), calls | `TypesOK`, `InboxAgrees`, `TierSettles`, `ScrubWasAsked`, `UnverifiedNeverLinks`, `OldestSettles`, `AllArrive`, `OverdueExpires`, `EndsOnce`, `ActiveRoomEnds`, `InviteResolves` |
| `stripe` | MCFeed: stripe (any order, twice), feed, panel, thread | `OwnEventsOnly`, `LedgerSpec`, `FeedAgrees`, `PanelAgrees`, `ReceiptsAgree`, `MarkedIsBlocked`, `BlockKeepsOut`, `InboxTimeIsNewest` |
| `live` | MCHarvest: live (two providers), longer (one, more changes), shards, archive, profiles, pages, videos | `TypesOK`, `ToldOncePerScan`, `KnownStaysKnown`, `FeedsAreMirrored`, `WinsAreNotified`, `ShardsAreCovered`, `RaceDaysGoIn`, `RecordedIsWhole`, `ProfilesAreArchived`, `VideosAreFound` |
| `media` | MCMedia: media, explorer | `OnlyScannedIsUsed`, `UploadsSettle`, `PagesAreWhole` |
| `stripe_retries`, `calls_retry`, `live_twice`, `live_stale`, `dogs_split`, `listings_edit`, `videos_rerun` | one property each, which the code violates | section 7 |

That something comes about again and again is stated `[]<>P`: of a state
predicate it is the same as `~P ~> P`, since a behaviour without the one has a
suffix that never leaves `~P`, and TLC has one graph to search instead of two.

## 4. Modules

### ListingLifecycle

State: `listing` (the columns of a Listing row the workflow reads or writes;
`content` names a version of what a reader sees), `history` (the last
ListingStatusHistory row), `req` (what each request holds), `edits`, `approved`
and `deleted` (how many versions there are, the version approved last, whether
the owner's account is gone) and `now`.

Every owner or moderator operation is `Read` and one write action
(`UpdateContent`, `UpdateRest`, `Renew`, `MarkSold`, `Withdraw`, `Approve`,
`Reject`, `Remove`); `Abandon` is a request that stops in between. An edit
writes back the status, review and date columns of the row it read, as the code
does, over whatever is there by now; sold and withdraw write under a condition.
`Maintenance` is the daily job, `ArchiveForDeletedAccount` the account job.

- In `community` (two requests of all kinds, one listing, two contents):
  `PublicIsVetted`, which is `ActiveIsApproved` (what is active was approved)
  and `PublicContentIsApproved` (in what it shows). One listing suffices: no
  operation reads two. Two requests are what a race needs, and the job and the
  deletion are actors besides. The durations are zero ticks, so every expiry is
  reached with a clock of one.
- In `services` (no edits, fair job): `OverdueExpires`.
- `listings_edit` (one listing, an edit and a decision) refutes `DecisionsStand`,
  what the comment above the two lists of statuses says: sold and withdraw check
  again when they write, but an edit writes back the status it read, over a
  rejection or removal that came in between. `renew` checks nothing either, and
  takes a listing out of a removal; the property leaves it out, since it returns
  the listing to a moderator.
- Fairness: `WF(Maintenance)`, a scheduler that runs daily. Requests owe nothing.
- Proofs: `ListingTypeCorrect`, `PublicStaysVetted`, `ActiveOnRecord`.
  The invariant is `TypeOK` and `Fit` of each listing's row, last history row
  and approval. `Fit` is inductive because only an approval makes a row active:
  an edit that read an active row writes `pending_review`, so a stale copy never
  brings `active` back; that is the step the proof turns on.

### StripeBilling, BillingLedger, MCStripe

State: the user row, `inbox` and `retries` (WebhookEvent), `requests`
(CustomDesignRequest), `proc` (checkouts under way), and Stripe's side:
`owner` of a customer, `purchase`, the `events` Stripe created, each with a copy
of its object as it then was, and `deliveries`.

The webhook handler is one transaction and so one action per outcome
(`UpdateUser`, `RecordDesign`, `Ignore`, `Fail`, `Redeliver`): its inbox row
and its effect commit together or not at all. A checkout talks to Stripe
between its transactions (`StartCheckout`, `CreateCustomer`, `WriteCustomer`,
`OpenSession`, `GiveUp`). `Pay`, `DashboardSubscribe`, `Change` and `Other` are
Stripe, external, from what the code reads of it.

`BillingLedger` is what a billing inbox promises: an event is handled once, its
effect on at most one account and the record of it are one step.
`StripeBilling` implements it under `handled <- {i : inbox[i] # "none"}`.

- In `stripe` (two users, two customers, a subscription, a design, three events
  delivered twice, any order): `OwnEventsOnly`, `LedgerSpec`.
- In `services` (events in order, one subscription at a time, two in all):
  `TierSettles`, under `WF(Deliver(i))`: Stripe sends an event until it is
  answered. Without order the tier follows the last event to arrive, and with
  two subscriptions the last of either.
- Proofs: `TypeCorrect`, `IdsAreOwn`, `EventsAreOwn`, `ImplementsLedger`. The
  ids on a row belong to its user only if what Stripe's events and checkouts
  carry does: the invariant says it of purchases, of checkouts under way and of
  every event's copy (`PurchaseOwned`, `ProcOwned`, `EventsOwned`, `RowsOwned`).

### LagoInbox

State: `row` (the status of a WebhookEvent), `billed` (BillingEvents),
`snapshot` (Subscription and InvoiceRecord rows), `linked` (BillingCustomer),
the deliveries under way and what was answered. `Arrive` is the insert,
`Reduce` and `Ignore` the second transaction, `Fail` a death or an error between
them, `Link` the operator, since no code creates a BillingCustomer.

- `InboxAgrees`: of the verdicts that scripts/lago-webhook-replay.ts can give of
  an event, those that say the inbox and the billing events contradict each
  other are never given. An event that was stored and whose reduction failed
  stays `received`: every redelivery only counts. That is modelled, and it is
  what sets it apart from `BillingLedger`, which it does not implement.
- Proofs: `InboxTypeCorrect`, `InboxAlwaysAgrees` (of `InboxAgrees`) and
  `OwnersStick` (a subscription or invoice once tied to a user stays tied to
  him), from `LagoAssumption`. The invariant adds that an event is reduced by at
  most one delivery, the one that stored it (`Waits`), that what is billed has
  its snapshot (`Kept`), and that a snapshot's user is the one linked (`Owned`).

### CallRooms, CallPanel

CallRooms is the server. State: `room`, `invite`, `part`, `endings` (terminal
CallEvents), `proc`, and LiveKit's side: who holds a join token, who is
connected and how often he joined, which webhooks were sent and how often;
`effects` counts the deliveries of a webhook that changed a row.

Handlers: create (check, then write), token (check, then write), respond (read,
write, then end), end (check, end), each ending with `Flip` (the guarded update
that only the first caller passes) and `Teardown`; webhooks joined, left,
finished; the maintenance job, which may overlap itself.

- Side calls of `services` (one room, a request, a job, a death or a failure,
  two profiles who join once, webhooks delivered once): `EndsOnce`, and,
  under fairness, `ActiveRoomEnds`, `InviteResolves`.
- Fairness: time passes, a handler that is not killed goes on, the job runs.
  Webhooks and users owe nothing: lost webhooks must not keep a call open.
- `calls_retry` (MCCalls) has a webhook delivered twice, and refutes
  `RetriedHookIsIdempotent`.
- Proofs: `RoomsTypeCorrect` and `CallEndsOnce`, from `RoomsTypeOK /\ EndsOnce`,
  which is
  inductive because only the guarded flip writes both.

CallPanel is the browser, with the server reduced to the room it has active and
the invite to this user. `panel` is the React state, `roomRef` the connection
whose events count, `conn` the connections in the order they were made,
`notices` the Disconnected events on their way, `asking` the requests under
way, `page` the props last loaded. A failed attempt to connect is tried once
more with a new connection (`Failed`), a call may be left and another begun
while events of the first are still to come.

- `PanelAgrees`, in `stripe` (two calls, three connections, one failure): a
  connection that is on is the one the buttons reach, and a call that is shown
  is on or its end is on its way. It excludes two things the code does not
  have: a call begun while the answer to an invite is outstanding, after a
  refresh has shown the Join button, opens a second connection and loses the
  first; and a page that is left while it connects keeps the connection.
- Proofs: `PanelTypeCorrect`, `PanelStaysWithCall`, for any number of calls,
  connections and failures. The invariant adds that an ended connection is
  closed, and its event about the call that is shown (`Ends`), and that the
  panel does one thing at a time: one request, which its status names, or one
  connection that waits, the one that counts, while it says "connecting"
  (`OneAtATime`).

### MediaAssets

State: `asset` (row), `object` (what the store has, and whether something was
removed before), `signed` (the uploads whose URL lives), `attached`, `proc`,
`failures`. Modelled with MEDIA_SCAN_MODE=clamav. `Upload` needs a URL that
lives and a place that is empty (`upsert: false`), and nothing else: bytes can be
put again where some were removed, whatever the row says.

Finalize is read, sniff, size, write, or, on a mislabelled file, verdict `error`
and purge; delete is read, remove, mark; attach is read, write; a run of the job
lists the overdue uploads, removes each object and marks each row, lists what
is pending, scans each and writes the verdict whatever the row says by then
(`VerdictLost`: an error, when that write fails), and purges what is infected.
Every store call may fail, the scanner may not answer, and any handler may die,
up to `MaxFailures` times.

- Run `media` (one upload, two requests, two overlapping runs, one failure):
  `OnlyScannedIsUsed`, `UploadsSettle` (what was finalized gets a verdict, what
  was abandoned goes). Handlers of different uploads share nothing but the loop
  of a run, so one upload shows every race.
- Fairness: runs are started again and again and proceed; time passes.
- The batch limit is left out: in this mode every listed row gets a verdict or
  goes, so a limit spreads the work over more runs.
- `OnlyScannedIsUsed` speaks of a verdict's own bytes. After a removal the URL,
  if it still lives, takes other ones: until the next step marks the row, or for
  good if the process dies there, the row says clean of bytes nobody scanned,
  and so does a listing that shows the upload. The code has nothing against it,
  and no document promises otherwise, so the property exempts it by `removed`
  and PROJECT.json lists it as a hazard.
- Proofs: `MediaTypeCorrect` and `ScannedBeforeUse`. The invariant adds what a
  handler carries (`Handlers`): a `clean` that is about to be written was found
  in a fine content, and an attachment about to be written was of one, or the
  object was removed since. It is inductive because a content changes only by a
  removal, and `removed` stays.

### Conversations

State: the conversation (`started`, `lastAt`, `blockedBy`), `blocks`
(UserBlock), `msg`, `delivered` and `readBy` (receipts), `cursor`
(ConversationParticipant), `handler`, `clock`, and `overlapped`, a history variable
that says whether requests ever ran at the same time or died.

Opening and sending are read, checks, write; read and delivered marks find
their messages and then write from the list; a delete is followed by a refresh
that reads and then writes; an unblock reads the row and then writes. `Block`
and the feed's `FeedBlock` are one transaction each.

- Side thread of `stripe` (two requests of any kind, two messages; once requests
  have overlapped the clock stands still and, under a block, one message is
  sent: `FewInOverlap`; the first message is one profile's: `FirstIsAnns`, which
  names them and loses nothing): `ReceiptsAgree`
  (`ReadIsDelivered` and `CursorIsRead`), `MarkedIsBlocked`, `BlockKeepsOut`,
  `InboxTimeIsNewest`. The last is stated for requests one after the other:
  overlapping ones leave a stale time until the next send or delete, and
  nothing in the code says otherwise.
- Proofs: every property of the run. The invariant has a part per concern:
  `Mail` (receipts and cursors), `Blocking` (marks, blocks and who is barred),
  `Rest` (types) and `Handlers` (what a list found earlier still guarantees).
  `InboxTimes` strengthens it to `TimeInv`: no message is ahead of the clock
  (`Past`), and while nothing has overlapped at most one request is at work
  (`Alone`), the time it carries is as new as any message (`Holds`), and the
  row's is right unless a deletion is about to settle it (`Newer`).

### Feed

One post with its comments and likes, `rules` (the phrases that match a bad
text), `apart` (blocks), `topic`, and tabs that show it. A tab's request goes
through `Find`, `Meet`, `Screen` or `Look`, each a transaction, then
`WritePost`, `WriteComment`, `WriteLike` or `Moderate`, `Broadcast` and
`Notify`; `Dies` ends the server between any two, or loses the answer; a
broadcast makes the other tabs `Refresh` and `Reload` after a pause.

- `FeedAgrees`, in `stripe` (two tabs, three requests or changes, one failure):
  what a phrase matches is not shown and who is blocked writes nothing, unless
  the phrase or the block was off while the request ran (`Kept`); the author is
  told once of what others do (`NoticesAgree`); a like button without a request
  says what is on record (`ButtonAgrees`); and a tab that shows less than is on
  record has a refresh due or was not told (`StaleIsDue`). `doubt` and `missed`
  name the tabs that cannot know: the button keeps its first state over
  refreshes, and nothing sends a lost broadcast again.
- Proofs: `FeedTypeCorrect`, `FeedStaysInAgreement`. The invariant adds what a
  request carries of the rules, blocks and status it found (`AllCarry`), and
  that a button under a like that is not written yet says what will be
  (`Buttons`, of which `ButtonAgrees` is the part without a request). Notices
  are counted: `OwingChanges` and `OthersGrow` say what one step does to the
  number of tabs that owe the author one, and to the number of things of others
  on record, which keeps their difference without induction over the tabs.

### Notifications

`table` (delivery columns), senders that dedupe and create, overlapping `call`s
of the job, each in one transaction: `FindPending`, `Deliver`, `Mark`, `Commit`
or `RollBack`, which forgets every mark but not the posts.

- `AllArrive`, in `services` (two rows, the first never taken, two
  calls, two attempts), with `WF` of each call's steps: the job is called
  every five minutes. Rolled-back posts are made again, so a row may be posted more often
  than `attempts` says.
- Proofs: `NotesTypeCorrect`; `DeliveredWasTaken`: whatever calls overlap and
  roll back, a row that is marked delivered was taken by the webhook. The
  invariant bounds `attempts` by the calls that may have read it before it was
  used up: `MaxAttempts - 1`, and one more for each call that still delivers.

### AgentRuns, AgentMemory

AgentRuns has the request of a run step by step (`Start`, `Build`, `Complete`,
`Charge`, `Audit`, `Throw`, `Catch`, `Crash`), its cancellation as read and
write, and the clean-up. `ChargeMatchesOutput`: a charge has its output, its
memory and a tier that allows it, and a completed run was charged unless its
process died. That a cancelled run is still completed and charged is what the
code does, and is in the model.

- Proofs: `RunsTypeCorrect`, `ChargesMatch`. The invariant, `RunFits`, says of
  each step of a request what those before it have left, and of a row that is
  completed that its request is still to charge, threw, or died: no other part
  of it speaks of the status, which cancellations and the clean-up write.

AgentMemory has one memory under uses (`Touch`, `Open`, `Load`) and two
overlapping calls of maintenance, which read and later write. `DecayIsByTime`:
no period is taken off twice or lost, with a clock of four and periods of two.

- Proofs: `MemoryTypeCorrect`, `MemoryDecaysByTime`, for any period, bounds and
  number of overlapping calls. The invariant says of the row, and of what each
  call read and may still write (`ReadFits`), that it has lost no more than the
  whole periods up to the instant it was maintained, or read; that is what makes
  a late write no worse than the one it overwrites. `PeriodsGrow` is the
  arithmetic: whole periods of two stretches are no more than those of both.

### Accounts

`user` rows, the sync of a request as read and write (`SyncReads`,
`SyncCreates`, `SyncUpdates`), deletion requests, bans, the admin's form, and
the job, which reads what is due and scrubs it later row by row.

A session (`Login`) carries the identity and the address its user had when it
began, verified or not: a user who changed the address has sessions with either,
and two users may give the same one. So a row found by its id may have another
address than the session, which belongs to another row or to nobody by now, and
an update that read it can write an old address back. An address without
`emailVerified` counts as verified, as in auth-sync.ts.

- In `services` (two identities; one with two addresses, both verified, the
  other with one of them, never verified; two rows, two requests at work):
  `UnverifiedNeverLinks`, `ScrubWasAsked`, `OldestSettles` (of the oldest row,
  since ids are handed out in order). Fairness: grace
  periods end, the job is called again and again, and a row that can be scrubbed
  again and again is scrubbed (`SF(JobScrubs)`): an error that ends the job
  before it is not for good.
- `UnverifiedNeverLinks`: a row linked to a user none of whose addresses was ever
  verified is one that his own first sign-in created (`founder`). It does not
  say that it stayed his in between: a row he made can be linked to the verified
  owner of the address, and a write-back of his that read it before gives it
  back to him. Both are what auth-sync.ts does with two statements.
- Every request of a signed-in user restores a deletion that is pending, so a
  ban put on such an account is lifted by it; both are in the model.
- Proofs: `AccountsTypeCorrect`, `ScrubsWereAsked`, `UnverifiedLinksNone`. The
  invariant says of a row that it was asked for if it is due or scrubbed, and
  whose it may be (`UserFits`), and the same of what a sync under way is about to
  write (`ReadFits`). What was asked for and who made a row only grow (`Grows`),
  so what a sync has read of them stays true, whoever writes the row meanwhile.

### CustomPages, Reports

CustomPages: `claim` and `verdict` of dogs, `pages`, and requests that ask
(`Owned`, `Gate`, `Same`, `UnderLimit`, `UniqueHandle`) one transaction each
before they `Insert`. `PagesAreOwned`: a dog's page belongs to one whose claim
was approved, a claim stays as first reviewed, handles are unique.

Reports: a report of a listing is two rows and a count; `Read` and `Resolve` of
two moderators overlap. `ReportsAgree`: counts, entries and reports agree, and
nothing is hidden and nobody banned without a decided report.

- Proofs: `PagesTypeCorrect`, `PagesStayOwned`, `ReportsTypeCorrect`,
  `ReportsStayInAgreement`. A claim that was reviewed is never written again
  (`ClaimFits`), so what `Gate` found stays true until the insert (`AskFits`);
  that handles differ comes from the insert alone, whose index is the last to
  look (`Distinct`). The counts of reports are kept by a lemma on the
  cardinality of a set with one more element, not by induction.

### LiveSync, MCLive

State: `feed` (what each provider publishes of one race), the rows (`off`,
`runner`, `result`, `form`), `told` (notifications per user), `shown` (who ever
was the owner of a published winner), `proc`.

A sync fetches all providers' pages, some of which may be missing, writes all it
has in one transaction (`WrittenOff`, `WrittenRunner`, `WrittenResult`,
`WrittenForm`: which provider wins differs between tables, as in the code), and
a sync of results then scans, looks for each notification and commits those it
found missing.

A scan reads the latest 200 wins of races that started in the last three days.
`window` says where the race is: not started, among them, or too old or behind
too many others (`TimePasses`).

- In `live` (two syncs of results, two providers, two changes, one failure; and
  one provider with three changes): `ToldOncePerScan`, `KnownStaysKnown`,
  `FeedsAreMirrored`, `WinsAreNotified`. Fairness: every sync is started again
  and again (Cloud Scheduler), and one that does not fail ends. Nothing says
  when a race leaves the window.
- `WinsAreNotified` speaks of a win while scans read it. A result that comes
  later than three days, scans that fail for so long, or more than 200 wins leave
  an owner untold for ever: no other scan looks back, and the comment above the
  two constants takes older wins for notified.
- `ToldOncePerScan`: a user is told of a race at most once for each sync of
  results that may run at the same time. `WinNotifiedOnce`, what the code's
  comment says, is refuted by `live_twice`; that a sync of cards can make the
  scan tell the wrong owner, by `live_stale`.
- Proofs: `TypeCorrect`, `KnownKept`, `ToldOnce`, for any number of providers,
  boxes, dogs, owners and syncs, overlapping or not. The invariant counts: once
  a user was told, his notifications and the syncs about to tell him are no
  more than the syncs of results (`ToldAndTelling`), since no later one that
  looks adds itself; with one sync at a time that is one notification.

### DogIdentity, MCDogs

The rows of Dog, the Runner links, and what each sync has looked up: `Look` and
`Write` of the live sync, `List`, `Save` and `GiveUp` of the profile job,
`Find` and `ImportSave` of the importer, `Register` of the stud book's import.
A dog stands for its name, as the stud book's import assumes.

- `OneSiteOneRow`, in `community` (cards of TheDogs and of Watchdog, the default
  of provider.ts; two overlapping syncs, an importer, a dog and its sire): no
  race is on the row of another dog, and those of a dog that only TheDogs has
  shown so far (`carded`) are on one row with its profile. `OneDogOneRow`, the
  same of every dog, is refuted by `dogs_split`.
- A stud-book import run again after the profile job has rebranded a row finds
  it by name only (scripts/import-galtd-studbook.ts:231), and the profile job
  keeps asking for stud-book ids that TheDogs does not know
  (dog-profile-sync.ts:46): both are in the model, neither breaks the property.
- Proofs: `DogsTypeCorrect`, `RacesAreOnOneRow`, for any sites, animals, races,
  syncs, imports and rows. The invariant: brands are unique, each is an id of
  its dog, and of a dog that only TheDogs has shown TheDogs' or the stud book's
  (`RowFits`); what a job looked up is a row of that dog (`LookFits`,
  `FetchFits`, `WorkFits`). No write takes a row's name away, or, of such a dog,
  its TheDogs id (`Keeps`), so what was looked up stays so. The parts have the
  set of those dogs as a parameter, since it shrinks when another site's card is
  written, and what holds for a set holds for a smaller one.

### HarvestShards, ArchiveImport, ProfileImport, ProfileHarvest, RaceVideos

The scripts of the archive. They share files, and any process may be killed.

- HarvestShards: `manifest`, each process's own `copy`, and the progress files.
  `ShardsAreCovered` (two starts, two shards of three days, one fault): a shard
  that reads as completed is recorded and stored, and, while nothing died and
  nothing was forced, no day is fetched by two workers at once (README.md:120).
  A start that is slow to write the manifest for its second time, after its
  coordinator lost the database and ended, overwrites the pids of the workers
  that coordinator left, so that the next stop or start does not find them; the
  history variable `lost` says that this, or a death, may have happened
  (`LeftBehind`).
- HarvestShards' proofs: `ShardsTypeCorrect`, `ShardsStayCovered`, for any number
  of starts, shards, days and faults. The invariant has two halves. `Base` holds
  whatever died: in each copy of the manifest, on disk or in memory, a completed
  shard is recorded (`Sure`), and a worker without an error has recorded what it
  has been through (`Honest`). `Single` holds while nothing was lost or forced:
  only the last start's coordinator runs, its copy names the shards of the
  manifest, and every worker that runs is in one of them. `PartsCover` says that
  the shards of a range are its parts (disjoint, and all of it), from the
  arithmetic of the split.
- ArchiveImport: a supervisor with fewer importers at a time than shards.
  `RaceDaysGoIn`: a file that can be parsed goes in. Fairness: each process
  proceeds; a supervisor that died is started again. Proofs:
  `ArchiveTypeCorrect`; `ImportersAreFew`, for any shards, waves and deaths: no
  more importers than --max-active-shards, no second one for a shard, and what
  is recorded is stored. The supervisor looks only once before it starts a wave;
  the invariant says why that is enough (`RoomFor`: between the look and the
  last start, the shards to start are idle and fit beside those that run), and
  `MissingFit` counts them: their turns are different numbers.
- ProfileImport: an importer clears and refills form rows without a
  transaction; batches are killed when they take too long. `RecordedIsWhole`: a
  profile that is recorded has its rows, unless two importers were at it.
  Proofs: `ImportTypeCorrect`, `RecordedStaysWhole`. The invariant says that
  what an importer has taken up is not on record, and that its form is filled
  when it is about to be (`Holds`), and that two importers at work have no item
  in common that is not in `shared` (`Apart`).
- ProfileHarvest: workers in waves or batches, with the start and stop commands.
  `ProfilesAreArchived`: a dog whose page can be had gets its file, although
  other pages are gone for good. A file torn by a kill counts as done for ever
  and a torn progress line stops its shard: the property says so. Proofs:
  `PagesTypeCorrect`; `RecordedHasFile`: a dog on record as archived has a file,
  and is none whose page always fails (`PageFits`: what a worker is about to
  record has been written, and files stay).
- RaceVideos: the sync and two jobs write one row per race and provider.
  `VideosAreFound`: a stream that its source has is stored and stays, and the
  state's own video is found where it can be told whose it is. Fairness: both
  jobs are run again and again (`SF`, since one excludes the other). With
  reruns of TheDogs' job alone (`TheDogsFairSpec`) a progress record made before
  the other job took the stream from the row keeps it from repairing the row:
  `videos_rerun` refutes `RerunsStoreStreams`, which
  docs/deployment/race-provider-smoke-checks.md:127 promises. Proofs: `VideosTypeCorrect`; `VideosAreTheirs`: a
  stored replay is of its race. In Western Australia, where a day's videos do
  not name their track, a job skips a day of two tracks, but looks only at races
  whose videos are missing: the invariant (`JobFits`) says that the others have
  videos, so that, by the same property, they are of one track with the rest.

### RaceTime, RaceExplorer

RaceTime is the arithmetic of race-time.ts. Instants and wall clocks are
integers of one unit; the zone has an offset in summer and one outside it.
`ToUtc` is `zonedTimeToUtc` with its second look at the offset, `Window` the
pair of instants that a page of a day asks the database for. The zone is that of
one summer: a wall clock that summer's beginning skips, or that its end shows
twice, is in `Skipped` or `Repeated`.

RaceExplorer is the front page of the races. State: `raceTime` (the rows), `now`,
`dates` (`recentRaceDatesCache`), `store` and `front` (the kept page and the one
that is being made: `store` and `inflight` of ttl-cache.ts, for this page's key)
and the history `strayed`. The reads of a page (latest race, list of days,
meetings, races) are actions of their own, between which feeds put races on
record and correct their times. A failed read ends the page for all who wait for
it (`safeQuery` rethrows in production). The list of days is read and kept in
one step; pages with a filter load it too (`LoadDates`).

- Side explorer of `media`: two races of two meetings, at 11 pm before summer
  begins and at midnight of the day on which it ends, in hours of Sydney's
  clock, with a list of two days. `PagesAreWhole`: the window of a day has the
  races of that day; the page that is kept has every race of its day that was
  on record when it was begun, and none of another; and it is not an empty day
  while there are races, although its day comes from a list that may be a TTL
  old and the page is kept for another. Races that a feed moved to another day
  meanwhile are exempt, since nothing follows them before the next page.
- No liveness: a page that nobody opens is not made.
- Proofs: `RoundTrip`, `WindowIsTheDay` and `ClockWindowIsTheTime` of the clock,
  for any zone ahead of UTC that changes neither at midnight nor by more than
  summer lasts; the argument is that `ToUtc(w) <= t` exactly if the wall shows
  `w` or later at `t` (`NoEarlier`), on both sides of both changes.
  `ExplorerTypeCorrect` and `PagesStayWhole`: the invariant adds that a listed or
  chosen day has a race that has not strayed (`Listed`), and that the meetings a
  page has read have the races that stay on its day (`MeetingsAreRead`).

## 5. Bounds

Every bound is a constant in a guard: clocks (`MaxTime`, room ages by the
deadlines), contents (`MaxEdits`), rows (`Rows`, `MaxRows`), what the outside
sends (`MaxEvents`, `MaxDeliveries`, `MaxSessions`, `MaxChanges`), processes
started (`MaxStarts`, `MaxConns`) and failures (`MaxFailures`, `MaxFaults`).
Two requests, or a request and a job, are what a race between two transactions
needs; three of the same add orders of pairs. Two shards, two days and two dogs
are what a turn, a range or a limit needs to go wrong. The theorems lift every
bound and every set size of the modules they are of. Deadlock is checked where
users can always act, and not where the bounds stop the outside world
(CHECK_DEADLOCK FALSE: the runs `stripe`, `services` and `live` and those of
the calls and syncs alone, whose
sides come to rest when nothing more is sent or started). Symmetry is used only
in runs without liveness properties, on sets whose elements no definition names.

## 6. What is proved, and what is not

| Proof module | Of | Safety properties it proves for every instance |
| --- | --- | --- |
| ListingProofs | ListingLifecycle | `PublicIsVetted` |
| CommunityProofs | Reports, CustomPages, DogIdentity, AgentRuns, AgentMemory, MCCommunity | `ReportsAgree`, `PagesAreOwned`, `OneSiteOneRow`, `ChargeMatchesOutput`, `DecayIsByTime`, `TypesOK` |
| FeedProofs | Feed, CallPanel, Conversations | `FeedAgrees`, `PanelAgrees`, `ReceiptsAgree`, `MarkedIsBlocked`, `BlockKeepsOut`, `InboxTimeIsNewest` |
| ServicesProofs | LagoInbox, Accounts, Notifications, MCServices | `InboxAgrees`, `ScrubWasAsked`, `UnverifiedNeverLinks`, `TypesOK` |
| StripeProofs | StripeBilling | `OwnEventsOnly`, `LedgerSpec` (the refinement) |
| HarvestProofs | LiveSync, ProfileImport, HarvestShards, ArchiveImport, ProfileHarvest, RaceVideos, MCHarvest | `KnownStaysKnown`, `ToldOncePerScan`, `RecordedIsWhole`, `ShardsAreCovered`, `TypesOK` |
| CallProofs | CallRooms | `EndsOnce` |
| MediaProofs | MediaAssets, RaceTime, RaceExplorer | `OnlyScannedIsUsed`, `PagesAreWhole` |

The proofs rest on the named assumptions of the modules only: bounds are
naturals (or not zero), null is not a value, sets of handlers are disjoint; the
races' zone is ahead of UTC and does not change at midnight; the ids of two
sites differ; the syncs of results are finitely many; the people and requests
of MCServices are not null. No theorem has a hypothesis besides.

Each theorem is `Init => IInv`, `IInv /\ [Next]_vars => IInv'` and
`IInv => Inv`, with a lemma per action or per handler. Section 4 says why each
`IInv` is what it is. They have one pattern: the property itself, and for every
handler under way what it carries from what it read, which must stay true of
rows that others write before it does. Where a lemma is stated of values
(`KeepsKeeps`, `OthersStay`, `Apart`) it is because the same
argument serves every action that writes. Where a property counts rows, a
lemma says what one step does to the set that is counted.

The theorems are of the component modules. A host's side is an instance of one,
with constants that meet those assumptions. For MCCommunity, MCServices and
MCHarvest, `PartsOfSides`, `ServicesOfSides` and `JobsOfSides` prove that each
of their behaviours is a behaviour of every part, and `TypesStayOK`,
`ServicesTypesStayOK` and `HarvestTypesStayOK` their type invariants. Stripe's
part of MCServices is an instance with values of its own: `StripeTypes` takes
what StripeProofs proves of every instance to it.

Model-checked only: every liveness property (`OverdueExpires`, `TierSettles`, `ActiveRoomEnds`,
  `InviteResolves`, `UploadsSettle`, `AllArrive`, `OldestSettles`,
  `FeedsAreMirrored`, `WinsAreNotified`, `RaceDaysGoIn`, `ProfilesAreArchived`,
  `VideosAreFound`): the prover has neither fairness nor ENABLED.

The search for HarvestShards' invariant changed the model. `lost` did not cover
a start that writes the manifest late (`LeftBehind`): TLC shows two workers on
one day when two workers run and the process tree is not killed, which the
bounds of the run do not reach. The corrected property was checked with two
workers and three shards too (650 thousand states) before it was proved.

## 7. Disagreements between the code and its comments

Seven runs show one each, with the quoted line under "findings" in PROJECT.json:
Stripe's repeated deliveries leave no trace (`stripe_retries`), a repeated
LiveKit webhook closes a reopened row (`calls_retry`), a win can be notified
twice (`live_twice`), and to an owner whose dog did not win (`live_stale`), a
greyhound that two sites show has two rows (`dogs_split`), an owner's edit undoes
a moderator's rejection (`listings_edit`), and reruns of TheDogs' job leave a
replay without its stream (`videos_rerun`).

Others, which the models have but no run is spent on:

- renewing a listing takes it out of a moderator's removal, and an edit that
  read a sold listing leaves it sold and undated after a renewal;
- a Lago event whose reduction failed is never reduced again;
- an infected object whose purge fails is not found by any later run, and
  uploads are scanned before they are finalized;
- one page per user of the types that are not dogs, and the limit of dog pages,
  hold only for requests one after the other;
- the first phrase that matches a text decides, in no order, so that of a
  `block` and a `review` phrase either may
  (docs/marketplace-community-messaging-media-calls-plan.md:275);
- a second moderator may decide a report again;
- a win that is written after three days is not notified, and bytes put in the
  place of a removed upload are not scanned.

## 8. Not modelled

- Friends, forum, support, other queries and pages: reads, or rows of one transaction
  that no later one changes. Nothing in the code locks a thread.
- Rate limits (one atomic upsert, which lets requests through when the database
  fails) and the caches of counts, which their own comment keeps away from what
  must be right.
- Search of races, and what the front page shows besides its races: counts and
  replays are queries of their own, which may see other rows than the list.
- Provider parsers, and everything a row holds that no property tells apart.
- Presence, typing, and broadcasts other than the feed's; row level security,
  migrations and the deployment's scripts. What the scheduler calls again and
  again is where the fairness above comes from.
- Some reads in a row are one step where nothing between them is told apart:
  `Gate` has the flags and the two questions of createCustomPage, and `Stop` of
  HarvestShards the reading of the manifest, the kills and its rewriting: a
  coordinator that the kill does not reach and that writes in between is left
  out.
- ArchiveImport's supervisor sees the importers that run, which is so on
  Windows; elsewhere the script lists none, which is not modelled
  (supervise-thedogs-race-day-archive-import.ts:303).
- Parts of modelled components that are left out are named in the notes of
  PROJECT.json's components.

## 9. Plan

1. The safety that the liveness properties rest on, where it is an action
   property (attempts only grow, files and records stay, a stream is not lost
   but to a refresh).
2. Abstract specifications: a call as `idle -> ringing -> live -> over` that
   CallRooms implements, and CallPanel against it in the place of its small
   server; an upload as `pending -> verdict -> gone`.
3. Composition: account deletion with Stripe's late events and listings with
   the media they show, each of which shares one row.
