------------------------ MODULE NotificationDelivery ------------------------
(***************************************************************************)
(* The licence-notification outbox of                                      *)
(* services/api/src/core/notifications/notifications.service.ts and the    *)
(* workers that drain it (services/api/src/jobs/notifications.ts, and the  *)
(* API handlers that run the same functions).  Workers are separate        *)
(* processes; every database call is one step and everything between two   *)
(* calls interleaves.  A worker may die between any two calls.             *)
(*                                                                         *)
(* A row's processingAt is the claim time; two claims of one row never     *)
(* share it (a second claim needs the lease to run out or the row to leave *)
(* PROCESSING), so the number of the attempt that claimed stands for it    *)
(* and `lease' for the time it has left.  updatedAt, which only repeats    *)
(* in the claim's WHERE what status, attempts and processingAt already     *)
(* tell apart, is left out, as is NotificationLog, which no code reads     *)
(* back.  The provider and its webhooks are external.                      *)
(***************************************************************************)
EXTENDS Integers, FiniteSets

CONSTANTS
    Job,            \* dedupe keys that the active rules make due today
    Worker,         \* processes that run scan and process
    Cron,           \* those of them that are the scheduled job; the rest serve the API
    NoJob,          \* a worker without a current job
    MaxAttempts,    \* NotificationJob.maxAttempts
    Lease,          \* NOTIFICATION_JOB_LEASE_MS, in ticks
    RetryUnit,      \* a day of nextRetryDate, in ticks
    Limit,          \* notificationJobLimit: jobs of one batch
    MaxCrashes,     \* bound: worker deaths in a behaviour
    Redelivery      \* may the provider deliver one webhook event twice?

ASSUME DeliveryAssumption ==
    /\ NoJob \notin Job
    /\ Cron \subseteq Worker
    /\ MaxAttempts \in Nat \ {0}
    /\ Lease \in Nat \ {0}
    /\ RetryUnit \in Nat
    /\ Limit \in Nat \ {0}
    /\ MaxCrashes \in Nat
    /\ Redelivery \in BOOLEAN

VARIABLES
    job,        \* the NotificationJob rows
    pc,         \* where each worker is
    toScan,     \* keys the scan loop of a worker has still to look up
    ids,        \* the jobs the worker's batch may be taken from
    batch,      \* row snapshots of the worker's findMany, not yet visited
    cur,        \* the job a worker has looked up or claimed
    claimNo,    \* the attempt its claim made
    left,       \* observed: what is left of the lease of that claim
    calls,      \* observed: provider calls made, per job and attempt
    accepted,   \* the provider: messages it has taken, with their fate
    applied,    \* observed: webhook events that changed a row
    crashes     \* observed: deaths so far

rows    == <<job>>
workers == <<pc, toScan, ids, batch, cur, claimNo, left>>
world   == <<calls, accepted, applied, crashes>>
vars    == <<job, pc, toScan, ids, batch, cur, claimNo, left,
             calls, accepted, applied, crashes>>

Attempt == 1..MaxAttempts
Status  == {"ABSENT", "PENDING", "PROCESSING", "SENT", "DELIVERED", "READ", "FAILED"}
Reports == {"SENT", "DELIVERED", "READ", "FAILED"}

\* What becomes of a message the provider took: it reaches the recipient or not.
Fate == {"reaches", "bounces"}

Row      == [status : Status, attempts : 0..MaxAttempts, claim : 0..MaxAttempts,
             lease : 0..Lease, retry : Nat, msg : 0..MaxAttempts]
Snapshot == [job : Job, status : Status, attempts : 0..MaxAttempts,
             claim : 0..MaxAttempts]
Event    == [job : Job, n : Attempt, status : Reports]

NoRow == [status |-> "ABSENT", attempts |-> 0, claim |-> 0, lease |-> 0,
          retry |-> 0, msg |-> 0]

TypeOK ==
    /\ job \in [Job -> Row]
    /\ pc \in [Worker -> {"idle", "scan", "insert", "batch", "claimed",
                          "calling", "accepted", "refused"}]
    /\ toScan \in [Worker -> SUBSET Job]
    /\ ids \in [Worker -> SUBSET Job]
    /\ batch \in [Worker -> SUBSET Snapshot]
    /\ cur \in [Worker -> Job \cup {NoJob}]
    /\ claimNo \in [Worker -> 0..MaxAttempts]
    /\ left \in [Worker -> 0..Lease]
    /\ calls \in [Job -> [Attempt -> Nat]]
    /\ accepted \in SUBSET [job : Job, n : Attempt, fate : Fate]
    /\ applied \in SUBSET Event
    /\ crashes \in 0..MaxCrashes

Init ==
    /\ job = [j \in Job |-> NoRow]
    /\ pc = [w \in Worker |-> "idle"]
    /\ toScan = [w \in Worker |-> {}]
    /\ ids = [w \in Worker |-> {}]
    /\ batch = [w \in Worker |-> {}]
    /\ cur = [w \in Worker |-> NoJob]
    /\ claimNo = [w \in Worker |-> 0]
    /\ left = [w \in Worker |-> 0]
    /\ calls = [j \in Job |-> [n \in Attempt |-> 0]]
    /\ accepted = {}
    /\ applied = {}
    /\ crashes = 0

-----------------------------------------------------------------------------
(* Scanning: one findUnique and, if the key is free, one create per key.     *)

Start(w, keys, from) ==
    /\ pc[w] = "idle"
    /\ pc' = [pc EXCEPT ![w] = "scan"]
    /\ toScan' = [toScan EXCEPT ![w] = keys]
    /\ ids' = [ids EXCEPT ![w] = from]
    /\ UNCHANGED <<job, batch, cur, claimNo, left, world>>

\* runNotificationWorker: scan every due key, then process any job.
StartRun(w) == w \in Cron /\ Start(w, Job, Job)

\* The API: POST /notifications/scan, /notifications/process, and
\* sendManualLicenseNotification, which scans one licence's keys and then
\* processes only what it created.
StartRequest(w) ==
    /\ w \notin Cron
    /\ \/ Start(w, Job, {})
       \/ Start(w, {}, Job)
       \/ \E j \in Job : Start(w, {j}, {})

LookUp(w, j) ==
    /\ pc[w] = "scan"
    /\ j \in toScan[w]
    /\ toScan' = [toScan EXCEPT ![w] = @ \ {j}]
    /\ IF job[j].status = "ABSENT"
       THEN /\ pc' = [pc EXCEPT ![w] = "insert"]
            /\ cur' = [cur EXCEPT ![w] = j]
       ELSE UNCHANGED <<pc, cur>>
    /\ UNCHANGED <<job, ids, batch, claimNo, left, world>>

\* Forget everything the run held in memory.
Reset(w) ==
    /\ pc' = [pc EXCEPT ![w] = "idle"]
    /\ toScan' = [toScan EXCEPT ![w] = {}]
    /\ ids' = [ids EXCEPT ![w] = {}]
    /\ batch' = [batch EXCEPT ![w] = {}]
    /\ cur' = [cur EXCEPT ![w] = NoJob]
    /\ claimNo' = [claimNo EXCEPT ![w] = 0]
    /\ left' = [left EXCEPT ![w] = 0]

\* The create of a key that was free when it was looked up.
Insert(w) ==
    /\ pc[w] = "insert"
    /\ job[cur[w]].status = "ABSENT"
    /\ job' = [job EXCEPT ![cur[w]].status = "PENDING"]
    /\ pc' = [pc EXCEPT ![w] = "scan"]
    /\ ids' = [ids EXCEPT ![w] = @ \cup {cur[w]}]
    /\ cur' = [cur EXCEPT ![w] = NoJob]
    /\ UNCHANGED <<toScan, batch, claimNo, left, world>>

\* Another scan took the key meanwhile: the unique index refuses the create and
\* the error ends the run before anything is processed.
InsertRefused(w) ==
    /\ pc[w] = "insert"
    /\ job[cur[w]].status # "ABSENT"
    /\ Reset(w)
    /\ UNCHANGED <<job, world>>

-----------------------------------------------------------------------------
(* Processing: select a batch, then claim, send and record job by job.       *)

\* Mutants of Eligible: the select forgets the attempts, the lease of a claim, or
\* the rows whose worker is gone.
EligibleForEver(j) ==
    \/ job[j].status \in {"PENDING", "FAILED"} /\ job[j].retry = 0
    \/ job[j].status = "PROCESSING" /\ (job[j].claim = 0 \/ job[j].lease = 0)

EligibleWhileLeased(j) ==
    /\ job[j].attempts < MaxAttempts
    /\ \/ job[j].status \in {"PENDING", "FAILED"} /\ job[j].retry = 0
       \/ job[j].status = "PROCESSING"

EligibleIfLeft(j) ==
    /\ job[j].attempts < MaxAttempts
    /\ job[j].status \in {"PENDING", "FAILED"} /\ job[j].retry = 0

Eligible(j) ==
    /\ job[j].attempts < MaxAttempts
    /\ \/ job[j].status \in {"PENDING", "FAILED"} /\ job[j].retry = 0
       \/ job[j].status = "PROCESSING" /\ (job[j].claim = 0 \/ job[j].lease = 0)

SnapshotOf(j) ==
    [job |-> j, status |-> job[j].status, attempts |-> job[j].attempts,
     claim |-> job[j].claim]

\* The select: `limit' eligible rows, all of them when there are fewer.
Select(w) ==
    LET found == {j \in ids[w] : Eligible(j)}
    IN /\ pc[w] = "scan"
       /\ toScan[w] = {}
       /\ \E chosen \in SUBSET found :
            /\ \/ Cardinality(chosen) = Limit
               \/ chosen = found /\ Cardinality(found) < Limit
            /\ batch' = [batch EXCEPT ![w] = {SnapshotOf(j) : j \in chosen}]
       /\ pc' = [pc EXCEPT ![w] = "batch"]
       /\ UNCHANGED <<job, toScan, ids, cur, claimNo, left, world>>

\* A scan request, or a manual send with processNow = false, stops here.
EndScan(w) ==
    /\ w \notin Cron
    /\ pc[w] = "scan"
    /\ toScan[w] = {}
    /\ Reset(w)
    /\ UNCHANGED <<job, world>>

EndRun(w) ==
    /\ pc[w] = "batch"
    /\ batch[w] = {}
    /\ Reset(w)
    /\ UNCHANGED <<job, world>>

\* Mutant of StillAsSelected: the claim is an update by id.
StillThere(s) == job[s.job].status # "ABSENT"

\* The WHERE of the claim.
StillAsSelected(s) ==
    /\ job[s.job].status = s.status
    /\ job[s.job].attempts = s.attempts
    /\ s.status = "PROCESSING" => job[s.job].claim = s.claim

Claim(w) ==
    /\ pc[w] = "batch"
    /\ \E s \in batch[w] :
         /\ StillAsSelected(s)
         /\ batch' = [batch EXCEPT ![w] = @ \ {s}]
         /\ job' = [job EXCEPT ![s.job] =
                      [status |-> "PROCESSING", attempts |-> @.attempts + 1,
                       claim |-> s.attempts + 1, lease |-> Lease,
                       retry |-> 0, msg |-> @.msg]]
         /\ cur' = [cur EXCEPT ![w] = s.job]
         /\ claimNo' = [claimNo EXCEPT ![w] = s.attempts + 1]
    /\ left' = [left EXCEPT ![w] = Lease]
    /\ pc' = [pc EXCEPT ![w] = "claimed"]
    /\ UNCHANGED <<toScan, ids, world>>

ClaimLost(w) ==
    /\ pc[w] = "batch"
    /\ \E s \in batch[w] :
         /\ ~StillAsSelected(s)
         /\ batch' = [batch EXCEPT ![w] = @ \ {s}]
    /\ UNCHANGED <<job, pc, toScan, ids, cur, claimNo, left, world>>

\* Mutants of Owns: the finish looks at the status alone, or at nothing.
OwnsByStatus(w) == job[cur[w]].status = "PROCESSING"
OwnsAnyway(w) == TRUE

\* finishClaimedNotificationJob: only the current claim of the row may write.
Owns(w) ==
    /\ job[cur[w]].status = "PROCESSING"
    /\ job[cur[w]].claim = claimNo[w]

\* A row without a claim (processingAt: null).
Unclaimed(status, attempts, retry, msg) ==
    [status |-> status, attempts |-> attempts, claim |-> 0, lease |-> 0,
     retry |-> retry, msg |-> msg]

Finish(w, row) ==
    /\ job' = IF Owns(w) THEN [job EXCEPT ![cur[w]] = row] ELSE job
    /\ pc' = [pc EXCEPT ![w] = "batch"]
    /\ cur' = [cur EXCEPT ![w] = NoJob]
    /\ claimNo' = [claimNo EXCEPT ![w] = 0]
    /\ left' = [left EXCEPT ![w] = 0]
    /\ UNCHANGED <<toScan, ids, batch, world>>

\* No usable template or recipient: the row is given up, whatever was left.
ConfigurationError(w) ==
    /\ pc[w] = "claimed"
    /\ Finish(w, Unclaimed("FAILED", MaxAttempts, 0, job[cur[w]].msg))

\* JSON.parse of the payload throws before the provider is called.
BadPayload(w) ==
    /\ pc[w] = "claimed"
    /\ pc' = [pc EXCEPT ![w] = "refused"]
    /\ UNCHANGED <<job, toScan, ids, batch, cur, claimNo, left, world>>

CallProvider(w) ==
    /\ pc[w] = "claimed"
    /\ calls' = [calls EXCEPT ![cur[w]][claimNo[w]] = @ + 1]
    /\ pc' = [pc EXCEPT ![w] = "calling"]
    /\ UNCHANGED <<job, toScan, ids, batch, cur, claimNo, left,
                   accepted, applied, crashes>>

\* The provider's answer.  `heard' is FALSE when the message was taken but the
\* call times out or its response is unusable: the worker sees an error.
Accept(w, fate, heard) ==
    /\ pc[w] = "calling"
    /\ accepted' = accepted \cup
                     {[job |-> cur[w], n |-> claimNo[w], fate |-> fate]}
    /\ pc' = [pc EXCEPT ![w] = IF heard THEN "accepted" ELSE "refused"]
    /\ UNCHANGED <<job, toScan, ids, batch, cur, claimNo, left,
                   calls, applied, crashes>>

Refuse(w) ==
    /\ pc[w] = "calling"
    /\ pc' = [pc EXCEPT ![w] = "refused"]
    /\ UNCHANGED <<job, toScan, ids, batch, cur, claimNo, left, world>>

RecordSent(w) ==
    /\ pc[w] = "accepted"
    /\ Finish(w, Unclaimed("SENT", job[cur[w]].attempts, 0, claimNo[w]))

\* nextRetryDate: the back-off grows with the attempt up to six days.
Backoff(n) == RetryUnit * (IF n < 6 THEN n ELSE 6)

RecordFailed(w) ==
    /\ pc[w] = "refused"
    /\ Finish(w, Unclaimed("FAILED", job[cur[w]].attempts,
                           IF claimNo[w] >= MaxAttempts THEN 0 ELSE Backoff(claimNo[w]),
                           job[cur[w]].msg))

\* The process dies, or a database call throws outside the try: the run is over.
Crash(w) ==
    /\ pc[w] # "idle"
    /\ crashes < MaxCrashes
    /\ crashes' = crashes + 1
    /\ Reset(w)
    /\ UNCHANGED <<job, calls, accepted, applied>>

-----------------------------------------------------------------------------
(* Webhooks and time.                                                        *)

\* webhookPredecessorStatuses
Predecessors(status) ==
    {"PENDING", "PROCESSING"} \cup
    CASE status = "SENT"      -> {}
      [] status = "DELIVERED" -> {"SENT"}
      [] status = "READ"      -> {"SENT", "DELIVERED"}
      [] status = "FAILED"    -> {"SENT"}

\* The events the provider may report of a message, in any order.
MayReport(m) ==
    {[job |-> m.job, n |-> m.n, status |-> s] :
        s \in IF m.fate = "reaches" THEN {"SENT", "DELIVERED", "READ"}
                                    ELSE {"SENT", "FAILED"}}

\* Mutant of Applies: the row is found by job, not by the message of the event.
AppliesToAny(e) == job[e.job].status \in Predecessors(e.status)

\* handleMetaWebhook changes the row the event's message id is recorded on, if
\* the row has not moved past the event; every other event is dropped.
Applies(e) ==
    /\ job[e.job].msg = e.n
    /\ job[e.job].status \in Predecessors(e.status)

HandleWebhook(e) ==
    /\ \E m \in accepted : e \in MayReport(m)
    /\ Redelivery \/ e \notin applied
    /\ Applies(e)
    /\ job' = [job EXCEPT ![e.job].status = e.status]
    /\ applied' = applied \cup {e}
    /\ UNCHANGED <<workers, calls, accepted, crashes>>

Down(t) == IF t = 0 THEN 0 ELSE t - 1

Tick ==
    /\ \/ \E j \in Job : job[j].lease > 0 \/ job[j].retry > 0
       \/ \E w \in Worker : left[w] > 0
    /\ job' = [j \in Job |->
                 [status |-> job[j].status, attempts |-> job[j].attempts,
                  claim |-> job[j].claim, lease |-> Down(job[j].lease),
                  retry |-> Down(job[j].retry), msg |-> job[j].msg]]
    /\ left' = [w \in Worker |-> Down(left[w])]
    /\ UNCHANGED <<pc, toScan, ids, batch, cur, claimNo, world>>

Process(w) ==
    \/ Select(w) \/ EndRun(w) \/ Claim(w) \/ ClaimLost(w)
    \/ ConfigurationError(w) \/ BadPayload(w) \/ CallProvider(w)
    \/ \E fate \in Fate, heard \in BOOLEAN : Accept(w, fate, heard)
    \/ Refuse(w) \/ RecordSent(w) \/ RecordFailed(w)

Scan(w) ==
    \/ \E j \in Job : LookUp(w, j)
    \/ Insert(w) \/ InsertRefused(w)

Next ==
    \/ \E w \in Worker :
         \/ StartRun(w) \/ StartRequest(w) \/ EndScan(w)
         \/ Scan(w) \/ Process(w) \/ Crash(w)
    \/ \E e \in Event : HandleWebhook(e)
    \/ Tick

Spec == Init /\ [][Next]_vars

\* The scheduler starts runs for ever, a started run keeps making progress (a
\* provider call answers or times out after 15 s) and time passes.  A request,
\* a death and a webhook are never owed.
Fairness ==
    /\ \A w \in Worker : WF_vars(StartRun(w)) /\ WF_vars(EndScan(w) \/ Scan(w) \/ Process(w))
    /\ WF_vars(Tick)

FairSpec == Spec /\ Fairness

-----------------------------------------------------------------------------
(* What the outbox promises.                                                 *)

InHand == {"claimed", "calling", "accepted", "refused"}
Holds(w, j) == cur[w] = j /\ pc[w] \in InHand

Confirmed(j) == job[j].status \in {"DELIVERED", "READ"}

\* No attempt of a job reaches the provider twice, so a job costs at most
\* maxAttempts provider calls whatever workers die, stall past their lease or
\* race for it, and whatever the webhooks report meanwhile: the claim's
\* compare-and-set on (status, attempts, processingAt) hands every attempt
\* number to one worker.
OneCallPerAttempt == \A j \in Job, n \in Attempt : calls[j][n] <= 1

\* Two workers have the same job in hand only when the earlier claim's lease has
\* run out (the select's leaseExpiredBefore).  It needs the provider to deliver
\* each webhook event at most once: see the run notification_redelivery.
LeaseExclusion ==
    \A v, w \in Worker, j \in Job :
        Holds(v, j) /\ Holds(w, j) /\ claimNo[v] < claimNo[w] => left[v] = 0

\* Two workers never both believe in a claim they may still write under.
OneOwner ==
    \A v, w \in Worker, j \in Job :
        Holds(v, j) /\ Holds(w, j) /\ Owns(v) /\ Owns(w) => v = w

\* An attempt is one worker's: it is called once, and its outcome written by one.
OneHandPerAttempt == OneCallPerAttempt /\ OneOwner

\* A confirmation is about a message the provider took for that very job and
\* that did reach the recipient: the row's providerMessageId is never that of a
\* bounced or lost attempt when the row says DELIVERED or READ.
ConfirmedWasReached ==
    \A j \in Job : Confirmed(j) =>
        /\ [job |-> j, n |-> job[j].msg, fate |-> "reaches"] \in accepted
        /\ [job |-> j, n |-> job[j].msg, fate |-> "bounces"] \notin accepted

\* The reading of the test "advances webhook state monotonically and ignores
\* duplicate or out-of-order events": an event that has been applied once
\* changes nothing when it is delivered again.
DuplicateEventsIgnored ==
    [][\A e \in Event : e \in applied /\ HandleWebhook(e) => job' = job]_vars

Settled(j) ==
    \/ job[j].status \in {"SENT", "DELIVERED", "READ"}
    \/ job[j].status = "FAILED" /\ job[j].attempts = MaxAttempts

\* The claim of the last attempt belongs to a worker that is gone.
Stranded(j) ==
    /\ job[j].status = "PROCESSING" /\ job[j].attempts = MaxAttempts
    /\ \A w \in Worker : ~Holds(w, j)

\* How a due licence ends up: notified, or given up for good; the one way out is a
\* worker that dies holding the job's last attempt.
SettledOrStranded(j) == Settled(j) \/ Stranded(j)

\* "o worker recupera lease stale" (docs/tasks/TASK-AT-410, line 23): a row that
\* is PROCESSING with its lease run out does not stay so.
StaleLeaseRecovered ==
    \A j \in Job : job[j].status = "PROCESSING" /\ job[j].lease = 0
                     ~> job[j].status # "PROCESSING" \/ job[j].lease > 0

\* The outbox implements its contract: at most maxAttempts tries, and once the
\* recipient's handset has confirmed a message nothing takes the job back, no
\* retry, no late finish of an older attempt, no out-of-order webhook.
Contract == INSTANCE DeliveryContract WITH
                tries     <- [j \in Job |-> job[j].attempts],
                confirmed <- [j \in Job |-> Confirmed(j)]

ImplementsContract == Contract!Spec
=============================================================================
