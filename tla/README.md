# AlwaysTrack in TLA+

AlwaysTrack is the back office of a support team (SAC): licences and their
renewal notices, work schedules, pauses and shift exchanges, announcements, case
handling, service flows, scripts, a wiki, sales documents, and a browser
companion. This directory holds TLA+ models of the parts of it whose correctness
depends on the order in which independent actors act: what each module models,
what TLC checks of it on small instances, and what TLAPS proves of it for every
instance.

Paths below are relative to the repository. `PROJECT.json` maps every
definition to the lines it stands for.

    tlc -config Records.cfg MCRecords        # a run
    tlapm NotificationDeliveryProofs.tla     # a proof

## 1. Inventory

The API (`services/api`) is an Express server over Prisma and SQLite. Jobs
(`services/api/src/jobs/*.ts`) are separate processes, started by cron, that
call the same service functions as the HTTP handlers. So the same function runs
in several processes at once, any of them can die between two database calls,
and the only things they share are rows. Three styles of concurrency control
occur:

* **compare-and-set across several calls** - notifications and recurring
  announcements: read, claim with a conditional `updateMany`, act, write back
  under the condition that the claim still stands;
* **one serializable transaction per request** - schedules, shifts, pauses,
  reviews of KPIs: what interleaves is whole operations, and what an actor read
  before (a draft, an offer, a proposal) may be stale when it is used;
* **none** - sales documents, licences, the wiki, scripts, flows, cases,
  receipts: a request reads, then writes row by row, and what saves it, where
  anything does, is a unique index. Here the properties say what survives any
  interleaving, and under which named excuse (two handlers crossed, one died)
  the rest does not.

| component | state | operations | hard behaviour | correct when |
|---|---|---|---|---|
| notification outbox (`core/notifications`, `jobs/notifications.ts`) | `NotificationJob` rows; memory of each worker; messages at the provider | scan, claim, send, record, retry, webhooks | two workers, leases that run out, deaths, webhooks late, repeated or reordered | no attempt sent twice, one owner, confirmed stays confirmed, every job is settled |
| schedule rules (`core/support-scheduling`) | rule drafts and versions of a team, each with a window | create, edit, publish, archive | managers acting on what they read earlier, time passing, cut and reopened windows | windows never overlap, published as read, no gap |
| shifts and exchanges (`core/support-scheduling`, `jobs/support-schedule-horizon.ts`) | shift occurrences, extra slots, claims, offers | materialise, claim, decide, offer, accept, apply, cancel | an offer waits for colleague and manager while everything else goes on | work loads and limits hold, negotiations do not cross, coverage stands |
| pauses (`core/support-operations`) | bookings, swap proposals, locks | book, move, cancel, propose, accept, decline, expire | proposals about bookings that move; shifts that change hands under them | locks follow proposals, nobody pauses twice, what no longer fits is flagged, only overrides exceed limits |
| recurring announcements (`core/announcements`, `jobs/announcement-scheduler.ts`) | series, versions, occurrences, announcements; memory of each run | materialise, publish, expire, recover, new version, cancel, archive | scheduled and manual runs race with each other and with managers; deaths; skipped local times | published once, records agree, cancelled stays cancelled, one voice for a date, elapsed comes down |
| receipts of an announcement (`core/announcements`) | text and demand of the announcement, receipts, notices to managers | open, acknowledge, edit, change status, people come and go | the last two acknowledge at once; an edit takes the receipts back under them | a receipt is for the present text; the managers are told, and only when all did |
| support KPIs (`core/support-operations`) | entries | create, edit, correct, archive, submit, review | corrections of corrections; calls that read before an approval | counted once, approved stands |
| support campaigns (`core/support-operations`) | status, audience, result, notices | activate, pause, resume, close, notify | people change teams; a death between commit and notices | snapshots stand, the audience is told |
| case decisions (`core/case-flow`) | conflicts, evidence, override log, resolutions | settle, add evidence, reroute, undo, resolve | two writes per decision; a refusal or a death between them; undos | the log answers for every choice that was not cut short, the resolution follows it |
| case plans (`core/case-flow/plan.service.ts`, `sessions.service.ts`) | plans with revisions, sessions started from them | compile, record, start | two requests record the next revision | revisions without gaps, that name one plan |
| service flows (`core/service-flows`) | flow, steps, revisions, versions | update, publish, archive, restore | edits that cross or break off between five writes | the latest version is served whole, versions never change |
| flow sessions (`core/service-flows`) | sessions, steps | start, answer, loop, reopen, rewind, facts, restart, complete | two tabs; orders that count rows | a session is a walk, ends once, discards what followed |
| sales documents (`core/sales-documents`) | documents with access key, status, items | upload, extract, analyse, correct, review | an analysis or an upload racing a review | one document per invoice, what counts was reviewed |
| licences and documents (`core/licenses`, `core/documents`) | licence, documents, upload links, files | send, judge, recalculate, deactivate | a link used twice; statuses worked out from stale reads | a link serves once, status follows documents, inactive stands |
| wiki and FAQ (`core/wiki`, `core/faq`) | pages, revisions, edit requests, a thread | create, edit, restore, propose, decide, promote | decisions across edits and each other; deaths between rows | history leads to the page, published as proposed, promoted once |
| script library (`core/script-library`) | scripts, revisions, suggestions | create, update, validate, restore, suggest, decide | the same revision number read twice; deaths between rows | numbered without gap, the last revision is what is served |
| API life cycle (`runtime/api-lifecycle.ts`) | gate, connections, resources, budget | start, drain, stop | hanging handlers and resources, late closings, second signals, a timer that does not keep the process alive | the database outlives requests, the shutdown ends |
| companion pairing (`services/companion-host`, `apps/companion-extension`) | grants, sockets, the client's token and timer | pair, hello, reconnect, refuse, shut down | a spent token whose successor is lost, stale connections, restarts | a token admits once, a paired client is not turned away, the client settles |
| the rest | rows changed by one request each, or none | create, edit, list | none that crosses requests | not modelled: section 8 |

How they interact:

* rules govern materialisation, slots, offers and their limits: `ScheduleRules`
  models the timeline of rules, `ShiftExchange` the shifts under them;
* an exchange cancels a shift and publishes another, and flags the pauses booked
  under it in the same transaction: `PauseBooking` sees a shift change hands as
  one step (`GiveShift`, `SwapShifts`), `ShiftExchange` says when that happens;
* licences feed the outbox: which keys are due is a constant of
  `NotificationDelivery`. `LicenceDocuments` models the licence;
* `KpiEntries` says which entries are approved, `SupportCampaign` takes any such
  set; `CaseFlow` says what a case is resolved to, `CasePlan` takes any sequence
  of resolutions;
* `FlowPublishing` makes the versions that `FlowSession` walks on; a version
  never changes (`VersionsStand`), so a session sees a constant graph;
* the other components share rows with nobody.

## 2. Modules

| module | models | theorems in | model-checked by |
|---|---|---|---|
| `DeliveryContract` | what the outbox promises of one notification: at most `MaxAttempts` tries, none after it is confirmed | `NotificationDeliveryProofs` | `office`, as a property |
| `NotificationDelivery` | the outbox and its workers | `NotificationDeliveryProofs` | `office`, `upkeep`, `notification_*` |
| `ScheduleRules` | drafts and versions of a team's rules | `ScheduleRulesProofs` | `office` |
| `KnowledgeBase` | the wiki and a thread of the FAQ | `RecordsProofs` | `office` |
| `PauseBooking` | bookings, proposals and locks of one team on one day | `PauseBookingProofs` | `support` |
| `KpiEntries` | measurements and their corrections | `SupportProofs` | `support`, `kpi_versions` |
| `SupportCampaign` | one campaign, its audience and result | `SupportProofs` | `support` |
| `CaseFlow` | what people decide about one case | `SupportProofs` | `support`, `case_choices` |
| `CasePlan` | the plans of one case | `SupportProofs` | `support` |
| `ShiftExchange` | shifts, extra slots, claims and offers of one team | `ShiftExchangeProofs` | `shift_exchange` |
| `AnnouncementSeries` | one series, its versions, occurrences and runs | `ContentProofs` | `content`, `upkeep`, `series_archive` |
| `FlowPublishing` | one flow under its editors | `ContentProofs` | `content` |
| `FlowSession` | sessions of one published version | `ContentProofs` | `content`, `flow_discard` |
| `ScriptLibrary` | scripts, revisions, suggestions | `ContentProofs` | `content` |
| `SalesDocuments` | invoices of one organisation | `RecordsProofs` | `records` |
| `LicenceDocuments` | one licence, its documents and links | `RecordsProofs` | `records` |
| `Acknowledgements` | the receipts of one announcement | `RecordsProofs` | `records` |
| `ApiLifecycle` | start, drain and stop of the API | `UpkeepProofs` | `upkeep` |
| `CompanionPairing` | pairing of the extension with its host | `UpkeepProofs` | `upkeep` |

`MCPauseBooking`, `MCAnnouncementSeries`, `MCShiftExchange` and `MCFlowSession`
give the constants that a cfg cannot write. `MCRecords`, `MCOffice`, `MCSupport`,
`MCContent` and `MCUpkeep` check several components in one run: the components
share no variable, so a variable `part`, chosen in the initial state, says which
of them moves in a behaviour, and the reachable states are the sum of theirs,
not the product. The components of a run share model values under several names
(a caller of one is a reader of another), so that one set of permutations is a
symmetry of all. A component of a union module names its variables and its
specification after itself (`kpiVars`, `KpiNext`, `KpiSpec`) where another
already has the plain names; `MCUpkeep` takes `AnnouncementSeries` as an
instance, with names of its own for three of its variables, for the same reason.

Each module that is checked also holds the mutants of its own definitions: an
operator with a comment "Mutant of X" is X with a plausible bug (a dropped
guard, a missing reset), and is used by no specification. `PROJECT.json` names,
for every property of a passing run, the mutant that breaks it. A property of a
run is often a conjunction of related ones (`PairingIsSound` is `TokenHonoured`
with three others), each stated and explained on its own in the module.

### NotificationDelivery

Workers are processes; every Prisma call is one step. A run is
`StartRun`/`StartRequest`, then per key `LookUp` and, if the key is free,
`Insert` (or `InsertRefused`: the unique key was taken meanwhile, and the run
ends), `EndScan`, `Select` (the `findMany` of candidates, whose row snapshots
go into `batch`), then per snapshot `Claim` or `ClaimLost`, and for a claimed
job `ConfigurationError`, `BadPayload` or `CallProvider`, `Accept` or `Refuse`
(what the provider made of the call and whether the answer was heard), and
`RecordSent` or `RecordFailed`, each under the condition of
`finishNotificationClaim`. `Crash` loses what the run held in memory.
`HandleWebhook` is the provider's callback, with the table of predecessors.

* The claim time `processingAt` is represented by the number of the attempt
  that claimed, `lease` by the time left: two claims of a row never share a
  time. `updatedAt` repeats, in the claim's WHERE, what the other three columns
  already tell apart.
* A database error after the provider accepted, which the code's `catch` records
  as a failed send, is `Accept` without the answer heard: both end in
  `RecordFailed` with a message that the provider did take.
* The provider is external: it takes a message or not, and a message reaches the
  recipient or bounces (`Fate`). Webhooks arrive in any order, late, and, if
  `Redelivery`, again.

### ScheduleRules

A draft becomes at most one version (`sourceDraftId` is unique) and rows are
never deleted, so a version has its draft's name. `Read` is a manager's GET;
`UpdateDraft`, `ArchiveDraft` and `PublishDraft` use the revision and content
that he read. `CreateVersion` is the call that makes a draft and publishes it at
once. `Publish` cuts the window of the version before, `ArchiveVersion` reopens
it. `Refer` stands for every write that points at a version, which forbids its
archival. What is kept of a rule is its window.

### PauseBooking

One team, one day, one policy. `Book` also reactivates a cancelled booking and
confirms again one that was flagged; `Reschedule` writes a new row or reuses the
one that the target slot has for the agent; `Accept` deletes cancelled rows in
the way, as the code does. Proposals expire when a listing or an operation comes
across them (`ExpireListed`, and the stale ones inside `RequestSwap`).
`PublishShift`, `GiveShift` and `SwapShifts` are the schedule under the
bookings. `LinkedRequiresReschedule` and `RequiresReschedule` are what the
listing shows. The policy's minimum coverage and duration do not change.

### AnnouncementSeries

One series, in one time zone. A run takes its `now` when it starts, then loops:
`Create` per candidate date (or `Throw`, at a date whose local time the clocks
skip, which ends the run), `FindElapsed`, `ClaimElapsed`, `Expire`, and, if it
publishes, `Recover` of stale claims, `FindDue`, `ClaimDue`, `Publish` or
`FailPublication`. A manager's request reads (`AskVersion`, `AskArchive`,
`AskCancel`) and writes in another step (`CreateVersion`, `ArchiveSeries`,
`CancelOccurrence`), or is refused (`Dismiss`). The code's null `lastAttemptAt`
is -1. `Date` is the set of dates that the rule can name; the calendar that
computes them is not modelled, but which of them have no local time is `Gap`.

### ShiftExchange

`Materialize` publishes the shifts of a plan, all of an agent's in the window or
none; `CreateSlot`, `ClaimSlot`, `DecideClaim` are extra slots, with the
manager's part of them; `CreateOffer`, `AcceptOffer`, `DecideOffer`,
`CancelOffer` are exchanges. What an operation checks is in `CanTake`
(`validateUserWorkload`) and `Applicable` (`validateOfferApplication`), and
`Exchange` is `applyShiftOffer`. The plan is a constant: patterns and
assignments do not change once made. All rules have the same limits and differ,
by day, in what they leave to a manager (`AutoDays`, `ManagedDays`). A closed
offer keeps no terms, an applied one only what the monthly limit reads.

### KpiEntries and SupportCampaign

A call on an entry is two steps: the one that reads (`BeginCreate`, `BeginEdit`,
`BeginSubmit`) and the one that writes (`Create`, `Edit` or `Revise`, `Submit`);
a review is one serializable transaction, so one step (`ReviewEntry`). An entry
by hand is keyed by its observation; one that comes from elsewhere by its
external reference; a correction by neither, it names what it supersedes.
`stale` records the entries that were written by a call that had read them in
another status: the code has no check against it, and `ApprovedContentStands`
claims the rest.

A campaign changes its status in one transaction (`Change`) and tells its
audience after it commits, member by member (`Tell`), under a unique key that
makes repeats harmless; `Forget` is the death of the request that would have
told. `ChangeTeam` and `ChangeApproved` are everything else that happens.

### CaseFlow and CasePlan

Every statement of the override, undo and resolve services is a step, since each
is a transaction of its own. Overrides, undos and resolutions are rows of a log
that only grows. `LookAgain`/`SettleConflict` is the conditional write of a
choice, `LogOverride` the record of it; `BeginUndo`, `Reopen`, `LogUndo` take it
back; `ReadCase` (the three reads of `resolveCase`, taken as one step) and
`LogResolution` resolve. The rules that suggest a flow are any flow.

A request ends early in two ways. `RefuseOverride` is `recordHumanOverride`
refusing a cause that it does not know: the handlers pass the cause on as it came,
so the refusal comes after the conflict was written RESOLVED, or the fact by hand
created, and undoes neither. `Perish` is a death, or a failure of the database,
anywhere. What such a request had written and not recorded is in `lost`; between
which writes requests died is in `perished`, and a refusal is not a death. A
conflict that was refused so stays resolved for good: only an OPEN conflict is
settled, and an undo needs the override that is missing; a fact by hand stays
likewise. The finding `case_choices` is that; `LogAnswers` says what holds beside
it, whatever the refusals: no other choice goes unrecorded, undos are complete, and
resolutions follow what is recorded.

`CasePlan` compiles (`Compile`), reads the plans that exist (`ReadPlans`) and
records the next revision (`RecordPlan`), or starts a session from the plan found
(`StartFromPlan`). A compiled plan is its fingerprint. The plans
are events of the case, under no unique index; `crossed` records that one was
recorded while another request was about to, and two plans may then share a
revision: `RevisionNamesPlan` claims the rest.

### FlowPublishing and FlowSession

An edit is `Begin...`, `WriteFlow`, `ClearSteps`, `FillSteps`, `Revise`,
`LookUpVersion`, `IssueVersion`, each a call of its own, and `Break` ends it
anywhere. What a flow says is a member of `Graph`, drawn or told step by step; a
list of steps that is being replaced is `Partial`. `disturbed` records that two
edits overlapped or one broke off. A call gives a graph or steps, not both; a
flow that is created as PUBLISHED is one that is created and published.

A session's request reads (`ReadAnswer`, `ReadRewind`, ...) and writes in one
transaction (`WriteAnswer`, ...), or is lost. `visitOrder` is a count of rows, as
in the code, so that two steps can have one order. `raced` and `looped` record
that two requests on a session crossed, and that a loop was taken. Answers are
abstracted to the transition taken; the facts a step requires to facts known.

### ScriptLibrary

`CreateScript`, `UpdateScript` (updates, validation, recertification, obsoletion,
which differ in the status they write) and `RestoreEdition` write the row of a
script, `ReadLast` looks the last revision up, `AddEdition` adds the next, and
`WriteDecision` answers the suggestion it was for. The unique index on (script,
version) refuses the second of two writers of one number. `tangled` are
the scripts that two handlers wrote at once, until one writes alone, or that one
that died left; `split` the suggestions decided twice or by half.

### SalesDocuments

A call is at a stage: a read (`Begin...`), the look-up of the access key
(`CheckKey`, `LookUpInvoice`), the write (`WriteDecision`, `StoreInvoice`,
`ApplyAnalysis`, `RestoreStatus`). `Extract` is the document AI, which may answer
anything or fail. The unique index on (organisation, key) is in `KeyAvailable`,
asked at every write. An upload of several invoices goes on with `NextInvoice`.

### LicenceDocuments

`BeginLinkUpload`, `StoreFile`, `CreateDocument`, `SpendLink`, `TouchLicence` is
an upload through a link; `StaffUpload` an upload with an account, whose file has
a name of its own; `BeginJudge`, `Judge` a decision on a document, followed by
the recalculation `Recalculate`, `WriteStatus` that an administrator may also ask
for. A file is named after its link, so a second upload overwrites the first's.
The excuses are `raced` links, used by two uploads at once or by one that died,
and an `unsteady` licence, where something happened while a request was under
way. The expiry of links is left out: it only closes them.

### Acknowledgements

A reader's request is `Look`, `KeepOpened` and `Done`, or `Acknowledge`,
`FindReceipt`, `KeepAcknowledged`, `CountReceipts`, `TellManagers`; an edit is
`BeginEdit`, `SaveEdit`, and deletes all receipts when it changed what was
acknowledged. `Leaves` and `Joins` change the audience. Four histories (`late`,
`slipped`, `missed`, `grown`) record what excuses the notice to the managers: a
request from before the reset, an edit that brought an old text back, somebody
who left or died, somebody who came.

### KnowledgeBase

A handler (`desk`) reads at `Begin...`, where the version its caller saw is
compared with the one there, and then writes the page (`CreatePage`,
`WritePage`), decides the proposal (`Decide`), adds the revision (`AddRevision`)
and links the thread (`LinkThread`), each in a step, with `WriterDies` anywhere.
`overtaken` are the pages written by a handler whose reading was no longer true,
or left by one that died; `promotedAgain` says so of the thread.

### ApiLifecycle

`Signal` closes the gate; `CloseResource` closes the resources of `Front` in
order, then the server, then those of `Back`; each gets what is left of one
budget, at least an instant, and `FailResource` gives it up. `CloseLate` is a
resource that closes after it was given up. A handler whose connection is gone
is an orphan and still runs. Production passes no resources but Prisma
(`main.ts`); `Front` and `Back` are what `options.resources` allows.

The timer of the budget is unref'd (`withTimeout`), so it does not keep the process
alive. The server does until it is closed, and so do its connections; behind it
only a resource with an open handle does. `holds` are the resources that have one
for as long as they are not closed, any set of them, and `RunsOut` is the process
ending where it waits because nothing holds it: no failure is counted, and the exit
code stays 0. A handler without a connection may hold the process or not, so an
orphan neither forbids `RunsOut` nor is needed for it.

### CompanionPairing

The host issues one-time tokens (`IssueTicket`); `Pair`, `Open`, the HELLO that
`Admit` takes and answers with the next token, `Reject`, `TimeOut`; the client
hears (`Paired`, `Rejected`, `ToldOfShutdown`, `Unavailable`), forgets or keeps
its token and sets its timer (`Reconnect`). A connection breaks with what it
carries (`Break`, `Unreachable`), the host notices later (`PeerLeaves`). `Shutdown`,
`HostStarts` and `WorkerDies` are the ends of both programs: tokens live in
memory on both sides. Messages keep their order within one direction.

## 3. Runs and what they show

Passing runs (distinct states, time with two workers):

| run | question | states |
|---|---|---|
| `office` | **Outbox**: the scheduled worker and an API request race for one job, with one death and webhooks in any order and again. No attempt reaches the provider twice and no two workers may both still write (`OneHandPerAttempt`), a confirmation is about a message that did reach the recipient, and the outbox implements `DeliveryContract`. **Rules**: three drafts and a moving clock; active windows never overlap; a manager publishes what he read, publication leaves past instants alone, archival leaves no gap (`RulesChangeSoundly`). **Wiki**: two pages, a proposal and a thread under two handlers (`WikiIsWhole`). | 918 305, 145 s |
| `support` | **Pauses**: three agents, three overlapping slots, two bookings, two proposals, shifts that change hands; locks are exactly the pending proposals, nobody pauses twice, a linked booking fits or is flagged and shows as such, only an override overfills a slot or thins the coverage. **KPIs**: two managers enter, edit, submit and review at once; an observation counts once, what was approved stands. **Campaigns**: snapshots stand, the audience is told. **Cases**: two requests that may be refused or die; the log answers for every choice but those they cut short, and resolutions follow it. **Plans**: revisions are sound. | 925 451, 183 s |
| `shift_exchange` | Three agents, two planned shifts, an extra slot, two offers, a month that ends. Work loads and limits hold, negotiations do not cross, slots add up, exchanges keep the coverage, and what was exchanged away does not come back. | 246 464, 135 s |
| `content` | **Series**: two runs and a manager on one date, with a death and stale claims; occurrence and announcement agree, nothing is published twice, one occurrence stands for a date, no cancellation is undone. **Flow**: two editors whose edits overlap or break off; what is served is whole and versions never change. **Session**: two tabs on a graph with a branch and a loop; a session is a walk and ends once. **Scripts**: two scripts and a suggestion under two curators. | 1 338 057, 159 s |
| `records` | **Licence**: two uploads through one link, judgements, recalculations, an administrator. **Sales**: two calls and two invoices, uploads, analyses, corrections, reviews, deaths. **Receipts**: two readers and two edits, while people come and go. | 2 400 958, 168 s |
| `upkeep` | What must come to an end. **Series**: elapsed announcements come down, with a death and a date without a local time. **Outbox**: two attempts, a lease of two ticks, one death, each webhook once; two workers have a job in hand only once the earlier lease is over, and every due job is again and again settled, or stranded with a worker that died on the last attempt. **Shutdown**: it ends whatever hangs and keeps the database for the requests that are left; it tells of what it left behind, unless the process ran out of open handles first. **Pairing**: the extension ends up connected, or asking for a pairing, through breaks, restarts and lost answers, and a token admits one connection. | 138 336, 61 s |

Runs that disagree with a document, a test or the purpose of the code. Each
checks one sentence, and TLC finds a behaviour of the code that breaks it:

| run | sentence | what happens |
|---|---|---|
| `notification_stale_lease` | RUNBOOK-007 and TASK-AT-410: a stale lease is recovered | a worker dies holding the last attempt: the row stays PROCESSING, as rows with `attempts >= maxAttempts` are dropped from every batch |
| `notification_redelivery` | RUNBOOK-007 and a test: a repeated event is ignored | FAILED of attempt 1 is applied, the job is retried, FAILED of attempt 1 comes again and is applied again: PROCESSING is a predecessor of FAILED, and the row keeps the first message id until the retry is recorded. The row is FAILED with its last attempt in a worker's hands, whose result is then refused |
| `case_choices` | TASK-AT-226: a resolution leaves an event | a conflict is settled with an unknown cause: the row is RESOLVED, then the record is refused. No event, and no way to settle or undo it |
| `series_archive` | RUNBOOK-007: archival wins over a concurrent run | a run that read the series as active creates an occurrence after the archival, and it is published |
| `kpi_versions` | a test and TASK-AT-375: approving a correction supersedes the version before | a correction of a correction names the first entry, which is SUPERSEDED already; the first correction stays APPROVED beside the second, and both count |
| `flow_discard` | TASK-AT-354: a discard removes the steps that followed | a step reopened by a loop gets the order that the next new step gets too; a rewind to it with discard leaves the step reached from it |

Three more disagreements are behaviours of the code that no run lists. Two are found
by changing a cfg, since their modules are already in the passing runs; the third
rests on what a library does:

* `PastRulesStand` (RUNBOOK-007: edits affect only the future): in `Office.cfg`,
  `Never = 5`, `MaxTime = 3`, `MaxRevision = 1`, and `PROPERTY PastRulesStand` alone.
  Archiving a future version sets the end of its predecessor to the next start,
  though the predecessor had ended: instants already past get a rule.
* `HistoryKept` (RUNBOOK-007: the earlier booking stays in the history): in
  `Support.cfg`, `PROPERTY HistoryKept` alone. Moving a pause back to its first
  slot turns the RESCHEDULED row into the live one.
* RUNBOOK-006:18 says of a shutdown that exceeds its time that "o exit code indica
  falha". If a resource behind the server hangs without an open handle, the process
  ends before the timer of the budget fires (`RunsOut`): nothing is reported and the
  exit code is 0. `ShutdownEnds` names that end beside the reported one, and
  excludes it where every resource behind the server holds the process. Whether
  Prisma does while it disconnects is Prisma's affair, so this is not a finding.

What was met and contradicts no document: an expired offer can be neither
accepted nor decided and blocks both its shifts until somebody cancels it
(`support-scheduling.service.ts:3892`); an upload of several invoices that finds a
key taken in between ends with its last documents not stored
(`sales-documents.service.ts:1172`); an `updateAnnouncement` that sets PUBLISHED
notifies nobody; a stale write can set the version of a wiki page back; an edit of
a SmartScript in use is refused by a unique index
(`script-library.service.ts:880`).

## 4. Bounds

Every bound is a constant, and is in a guard or in a set that inputs are taken
from.

* **Outbox.** One job: workers share nothing but rows, and a row's steps do not
  read other rows; `Limit` = 1 still makes a batch that leaves jobs behind. Two
  workers give every race on a row; two attempts are the least with a first and
  a last, the one that is retried and the one that may strand the job. A lease of
  one tick runs out under a worker in hand, one of two (`upkeep`) is also seen
  half-way. One death (`MaxCrashes`): a second one is another worker's,
  and both finish as one that never comes back.
* **Rules.** Three drafts are a version, the one it cuts and the one after; three
  instants and an open end give windows that touch, overlap and leave gaps; two
  revisions make a view stale.
* **Pauses.** Three agents and slots of two units at 1, 2, 3: neighbours
  overlap, first and last touch. Shifts cover one slot or all. Two bookings and
  two proposals: one to be accepted while the other waits.
* **KPIs.** Three entries are an original, its correction and the correction's
  correction; two observations and two calls give every duplicate. `Reference`
  is empty, so the half of `CountedOnce` about external references is settled by
  the proof only.
* **Campaigns.** Two agents, one entry, and versions of the life cycle up to four
  (`MaxLife`), which includes activated, paused, resumed and closed. **Cases.** Two requests at once and two
  overrides (`MaxOverride`), so that one is undone under the other; refusals and
  deaths are unbounded, since they record nothing. **Plans.**
  Two fingerprints that alternate over four revisions (`MaxPlan`).
* **Exchanges.** `Early` and `Evening` are on one day, of which `MaxDaily` lets
  an agent work one; `Evening` and `Tomorrow` touch, so the rest of one unit is
  missing between them. The first day is decided automatically for exchanges
  and by a manager for claims, the second the other way round. Two offers can
  name each other's shifts; a month of two ticks ends within the clock's bound.
  An offer expires at the next tick or outlives the clock.
* **Series.** One date suffices for races, which are about one occurrence or the
  occurrences of two versions for one date; `upkeep` has a second, the one that
  has no local time. Two ticks a day put the hour in the middle and a
  publication's window across a boundary of days.
* **Flows.** Two editors, two contents, three versions (`MaxVersion`): an edit,
  one that crosses it, and one that builds on both.
* **Sessions.** One session is worked on (`Worked`), in two tabs; the others are
  those a restart makes, and one more makes a second restart visible. No facts in
  `content` (`flow_discard` has one): they only forbid. `AfterRace = FALSE`: once
  requests have crossed in a session the run follows it no further, as nothing is
  claimed of it then. The proofs do not depend on it.
* **Scripts, wiki.** Two handlers; two revisions of scripts, three editions of a
  page, which are the least with one overwritten and one built on it. The wiki's
  `AfterRace` is that of sessions.
* **Licences, sales, receipts.** Two documents through one link, two days;
  two documents, two keys and two calls; two readers, two edits and one person
  who comes or goes.
* **Shutdown.** Three connections: one idle, one busy, one that turns into an
  orphan. One resource that makes work, two that are needed to the end, any of
  them with or without an open handle.
* **Pairing.** Two sockets, so that an old connection is there beside a new one;
  `MaxPairs` bounds the pairings a user asks for and `MaxFaults` what breaks,
  restarts or gets lost. Tokens are numbers without a bound of their own.

Symmetry is used where the constants are interchangeable model values that
nothing distinguishes, and in no run with a liveness property.

Deadlock is checked in the two findings about the outbox alone, whose scheduler
never stops. In every other run some component stops legitimately, when the clock
and the ids of a bound are used up; that the outbox goes on in `upkeep` is part of
`JobsSettle`.

## 5. Fairness

`upkeep` and the two findings about the outbox assume, each as weak fairness (in
`upkeep` for the component that moves):

* the scheduled job starts again and again (cron; `jobs/notifications.ts`,
  `jobs/announcement-scheduler.ts`). Nothing is assumed of API requests
  starting;
* a run that has started and has not died goes on: each step is a database call
  that returns or throws, and the provider's call is answered or aborted after
  15 seconds. A death is possible at every step within `MaxCrashes`, and is
  never fair;
* in the series, a manager's request that has read is answered;
* time passes;
* the shutdown goes on (`ShutdownGoesOn`): its own calls return, and the timer of a
  resource's budget fires (`FailResource`; a resource that does close in time need
  not wait for it) as long as something keeps the event loop turning; when nothing
  does, the process ends (`RunsOut`). Before the server is closed the server itself
  does. Nothing is assumed of handlers, clients or resources: they may hang for
  ever, which is what the budget is for;
* the pairing goes on (`PairingGoesOn`): what is under way on a standing connection
  arrives, the browser learns of a dead one, and the timers of both programs fire.
  Nothing is assumed of the user, and nothing of the host being started again.

Not assumed: that the provider accepts, that a webhook ever arrives, that a
recipient is reached, that a manager acts. `upkeep` checks that a date in `Gap`
delays the elapsed announcements only while it is in the window of the job; it
has no request under way.

`OneVoicePerDate` needs one assumption about time (`Prompt`): a manager's
request ends on the day it began. A new version must start tomorrow or later
when it is asked for; a request that takes longer than that could give a second
voice to a date that was already announced. `LeaseExclusion` needs that the
provider delivers each event once (`Redelivery = FALSE`): the finding
`notification_redelivery` shows a repeated one taking a job out of a worker's
hands.

## 6. Proofs

TLAPS proves the following for every value of the constants that satisfies the
module's named assumption: any number of jobs, workers, attempts, drafts,
agents, slots, dates, versions, runs, entries, documents, readers, pages,
scripts, tabs, connections, sockets, and any graph, list of resources, lease or
value of a bound. The assumptions are about the kinds of the
constants (numbers positive, sets finite where they are counted, null values
outside the sets they are added to); two theorems need more and say so in their
statement: `LeaseExcludes` that webhooks come once, `VoicesDoNotMix` that
requests are prompt.

Eight modules hold the proofs. The four of the components with the longest ones
stand alone; the others are shared by components that are checked together or are
alike in kind, one section per component, with names of their own.

The pattern is the same throughout: an inductive invariant (`...IInv`), a lemma
that the initial state satisfies it, one lemma per action that preserves it, a
lemma about the next-state relation that cites only those, and the theorems that
follow from it by temporal reasoning. TLC checked each of these invariants on
the instances of section 3 before it was proved. A leaf names the facts it uses;
records with several changed fields are written out, since the prover does not
reduce a multiple EXCEPT.

**NotificationDeliveryProofs** - `TypeCorrect`, `OneHand`,
`OutboxImplementsContract`, `ConfirmationsAreTrue`, `LeaseExcludes`. `IInv` is
`TypeOK` and

* `CurOK`: a worker with a job in hand claimed an attempt that the row has
  counted;
* `SnapshotsOK`: what a worker selected had attempts left and was not settled;
* `OneHolder`: two workers with one job in hand claimed different attempts;
* `CallsOK`: no attempt was called twice, none that the row has not counted was
  called, and a worker that has just claimed has not called;
* `AcceptedOK`: a message at the provider is of an attempt that was counted.

`OneCallPerAttempt` alone is not inductive: from a state in which two workers
had claimed one attempt, both would call. `OneHolder` is kept by `Claim` because
it increments the row's counter, which by `CurOK` is not below any attempt in
hand. The refinement maps `tries` to the row's attempts and `confirmed` to
DELIVERED or READ; each action is a step of the contract or a stutter.
`ConfirmationsAreTrue` adds what the world knows (`FateKnown`, `FailureKnown`): a
webhook is about a message with that fate, and a row's message id is of a message
of its own. `LeaseExcludes` adds that a selected row had no lease that ran
(`SelectedExpired`) and that a lease that runs is its claimer's (`LeaseKept`).

**ScheduleRulesProofs** - `TypeCorrect`, `NoTwoVersionsInForce`, `RulesAreSound`.
`IInv` is the type, `WindowsOK` (a draft and an active version have a proper
window), `FromPublished` (a version comes from a published draft, so publishing a
draft makes a new row) and `NoOverlap`. The steps that matter are `Publish`, which
cuts the version in force and is refused if it would reach the next, and
`ArchiveVersion`, which reopens up to the next; the three action properties of
`RulesChangeSoundly` follow from them instant by instant.

**PauseBookingProofs** - `TypeCorrect`, `NobodyPausesTwice`, `ProposalsHold`,
`ShiftsShow`, `OnlyOverridesExceed`. `IInv` is `TypeOK`, `LocksFollowProposals`,
`ProposalStands`, `PartiesDiffer` (the two bookings of a pending proposal are of
two agents), `NoDoublePause` and `LinkedFitsOrFlagged`. Exact locks are what let a
cancelled or moved booking close all the proposals about it by closing the one
its lock names; `PartiesDiffer` is needed for `Accept` not to put an agent on two
pauses. `OnlyOverridesExceed` counts. The bookings of a slot and those on pause at
an instant are both the bookings whose slot is in a given set: a step that books
nothing keeps such a set from growing, an accepted swap maps the new set one to
one into the old, and a reservation adds one. The code checks the coverage by
agents and per slot; `CoveredThroughout` shows that this is enough for every
instant of the slot, because nobody is on two pauses there, so that bookings are
as many as agents.

**ShiftExchangeProofs** - `TypeCorrect`, `WorkloadsHold`, `OffersHold`, `RuleLimits`,
`ExchangesStand`, `ExchangesStayFinal`. `IInv` is `TypeOK`, `RestRespected` (the
first half of `WorkloadRespected`), `OfferStands`, `OneNegotiation`, `SlotsAddUp`,
`MonthlyLimit`, and

* `IdsFollow`: an id that an offer or a claim creates has a row only once the
  offer was applied or the claim approved, so a replacement is written where
  nothing was;
* `AsPlanned`: a planned shift keeps its agent and its hours, whatever became of
  it, so that materialising, which counts the planned shifts that were exchanged
  away, checks all those that stand;
* `TermsOK`: an active offer is between two agents, a gift asks for nothing, and
  one that waits for the manager was accepted by somebody.

`OfferStands` and `OneNegotiation` hold only together: an exchange takes a shift
away, and the other offers stand because none of them names it. `Ready` says
what the two callers of `applyShiftOffer` have established when they call it;
`Exchanged` says, per row, what it does. `RestRespected` is kept by an exchange
although the work load is checked without the shift that goes, since that shift
is cancelled in the same step. The coverage of an interval is kept one for one:
who takes it was not on it (`TakerIsFree`, from the rest between shifts) unless
with the shift given for it, so each agent it loses is replaced by a new one.

The daily limit, the second half of `WorkloadRespected`, is a sum that `Minutes`
takes shift by shift with a recursive function. `MinutesCount` proves that for any
finite load it is the number of pairs of a shift and a minute of it (`Work`): the
count is a solution of the recursion (`SumExists`), and the only one, because a
smallest set of shifts on which a solution differed would have a smaller one
(`SumCounts`). So a part of a load has no longer days (`PartIsShorter`), and each
step leaves an agent with a part of what it held or of a load the step found
workable (`NothingNew`, `CheckedBefore`). `DailyInv` adds to `IInv` the limit and
that finitely many shifts are published, without which there is nothing to add up.

**SupportProofs** - `KpiTypeCorrect`, `SummariesCountOnce`, `ApprovalsStand`;
`CampaignTypeCorrect`, `CampaignSnapshots`, `AudienceHears`; `CaseTypeCorrect`,
`LogHolds`; `PlanTypeCorrect`, `RevisionsHold`.

* Entries: rows have their shape, an entry by hand is known by its observation
  (`KeysOK`), the unique keys hold (`OneKey`), what is corrected was reviewed
  (`CorrectsReviewed`), and a call carries what it read (`KpiRequestsOK`).
  `CountedOnce` includes the external references that the run has no data for.
* Campaigns: the versions of the life cycle are the statuses gone through, and
  every member of the audience of a change is told, about to be, or forgotten by
  the request that died.
* Cases: every choice and every fact that stands is in the log, in a request about
  to record it, or in `lost`, where a refusal or a death put it
  (`ConflictsAnswered`, `FactIsAnswered`); while requests come one at a time
  (`Alone`) and none died halfway through an undo, an open conflict has no override
  that stands and a resolved one exactly one, or none if its record was lost, with
  the exact place of the request in between (`Balance`); and a request that has had
  the case for itself resolves it by the newest correction that stands and the facts
  not taken back (`Conclusions`), whatever was refused or died before it.
* Plans: what a request has seen is a prefix of the plans, and if its length is
  the whole, the next revision is new.

**RecordsProofs** - `SalesTypeCorrect`, `RankingHolds`,
`ApprovalsLostToStaleCalls`; `LicencesAreSound`, `InactiveLicencesStand`;
`AcknowledgementsAreTrue`; `WikiStandsWhole`.

* Sales: what a call is about to write has its verdict, and an analysis no
  reviewed status (`SalesCallOK`); every write is by `Stores`, which the index
  guards.
* Licences: a link that was not raced on is unused, in the hands of one upload at
  a known step, or spent with one document and its file (`LinksOK`); a licence
  that is not unsteady has at most one request at work (`SteadyOK`), so the status
  that it writes is the one its reading derived.
* Receipts: a request has read the present form or is late (`FormsAsRead`), who
  acknowledged has done so still (`HadBefore`), whoever comes last is counting or
  telling (`OneIsToTell`), and who tells had counted all (`HadCounted`).
* Wiki: for every page that was not overtaken, the last revision is the page, or
  one handler that exists is about to add it (`PagesAccounted`, `FirstOnce`);
  likewise for the decision of a request (`ProposalsSettled`) and the page of the
  thread (`PromotedInHand`).

**ContentProofs** - `SeriesTypeCorrect`, `OccurrencesHold`, `CancellationsStand`,
`VoicesDoNotMix`; `EditsAreComplete`, `VersionsAreFinal`; `SessionsWalk`,
`SessionsEnd`; `LibraryStandsWhole`.

* Series: `SeriesIInv` says of each occurrence that its version is known, that it
  agrees with its announcement and was announced at most once (`RowOK`); of each
  run that it expires only what its `now` is past, and that a publisher's claim is
  older than the expiry of what it claimed (`RunOK`); of each request that it
  cancels a row that exists. Together they say why a publication happens once:
  an announcement that is out is PROCESSING only with a `lastAttemptAt` at or
  after its expiry, a publisher's claim is before it. `VoiceIInv`, for one voice a
  date: an occurrence that stands is of the version the rule selects; what is out
  had come due; a version that is asked for begins on a day that has not begun.
  The last is where `Prompt` is needed, and with it no new version selects a date
  that was announced.
* Flow: an edit's number is one the flow has had (`HandsOK`), and as long as
  nothing crossed or broke off, nobody is at work and everything recorded up to
  the flow's number, or one editor is at a known place.
* Session: a request has what it read (`SessionRequestsOK`), a restarted session is
  closed and was restarted once, a completed one is settled, and while nothing
  crossed and no loop was taken the steps hang together from the start node, each
  reached from one of a smaller order, and their orders are 0, 1, ... without a gap
  (`WalksOK`).
* Scripts: while nobody tangled on a script one handler at most is between its
  row and its revision, and holds what the row says and the number that the last
  revision has (`OneWriter`); a suggestion is in step with its script (`TakenUp`).

**UpkeepProofs** - `Orderly`, `PairingStandsSound`.

* Shutdown: the resources whose turn is over are exactly those closed or failed,
  for any lists, and the exit code tells of a failed one. The server listens until
  its turn; once that is over nothing is connected, and what is behind it has its
  turn after that. A process that ended in the middle was waiting there, for a
  resource that is not closed and has no handle (`DistinctBehind`: none has its turn
  twice).
* Pairing: per socket, what is under way and in which order it was sent (`Sent`),
  whose socket it is and which token its HELLO carries (`Its`), that an admitted
  connection has been answered (`Answered`), which token it was spent on
  (`SpentOn`); the token the client holds is one the host honours, or its
  successor is on the way, or a loss excuses it.

Only model-checked: liveness (`JobsSettle`, `ElapsedComesDown`,
`ShutdownEnds`, `ClientSettles`), which is beyond the prover. Every other property
of a passing run is stated by a theorem in the list of `PROJECT.json`.

## 7. Plan

Done: the modules of section 2 with their runs and the theorems of section 6. Next,
in this order:

1. Abstract specifications that detailed modules implement, in the manner of
   `DeliveryContract`, for the proofs that are now invariants: an occurrence is
   announced at most once and comes down (`AnnouncementSeries`); a document's key
   has one holder and its approval ends only by a review (`SalesDocuments`); a
   token is issued, spent, succeeded (`CompanionPairing`).
2. A module that composes `ShiftExchange` with `PauseBooking`, so that a shift
   changes hands only as an exchange does it, and the two invariants of that
   boundary are proved of the composition.
3. The evaluator of `packages/shared/src/case-flow` against a reference definition
   over small flows.
4. Uploads of attachments (a file without a row is cleaned up), and what is
   exchanged after a pairing (messages once and in order).
5. Campaigns and ranking snapshots of sales.

## 8. Not modelled

* **Inside the modelled components.** *Outbox*: in-app notifications other than a
  campaign's, templates and listings. *Rules*: the limits a version carries.
  *Shifts*: patterns and assignments, which are only ever added; the update in
  place of a shift under a new rule; the weekly limit, which has the form of the
  daily one. *Pauses*: generation of slots and policies. *Series*: the calendar
  arithmetic of recurrences. *Sales*: campaigns, ranking snapshots, statements,
  dashboards and exports. *Cases*: connectors, messages, metrics, the status of a
  case. *Flows*: sessions without a version, step text. *Scripts*: categories,
  packs, counts of uses, due dates, personal scripts and SmartScripts. *Wiki*: the
  slug is taken to be kept by edits; comments, reactions, read receipts, presence;
  `createWikiEditRequest` and archival are one step each. *Receipts*: announcements
  for several roles, and the first notification. *Licences*: the staff upload
  leaves the status alone, as in the code; who downloads. *Shutdown*: what an
  orphan does once the database is closed, and how the process ends after the
  shutdown is over. *Pairing*: version
  mismatch, origin check, replay guard and whatever is sent after the pairing.
  Everywhere: audiences and permissions, which narrow who may call but not what a
  call does; dry runs, audit rows and logs.
* **Registers, search, reports, dashboards, audit, diagnostics, attachments.** One
  request changes one row, or none.
* **Authentication, HTTP, validation, configuration, integrations, imports,
  document AI.** Sequential code over its input, or calls to services whose
  answers lie outside the repository.
* **Job queue and the remaining scheduled jobs.** A thin layer over BullMQ that
  nothing in the server starts, and sweeps with a single writer.
* **Web application, companion's user interface, SmartScript companion,
  deployment, scripts, tests.** No state shared with the modelled parts other
  than through the API.
