------------------------- MODULE AnnouncementSeries -------------------------
(***************************************************************************)
(* One recurring announcement series of services/api/src/core/             *)
(* announcements/announcement-series.service.ts: its versions, the dated   *)
(* occurrences that the scheduler materialises, publishes and expires, and *)
(* the managers that add a version, skip a date or archive the series.     *)
(*                                                                         *)
(* Every database call, or transaction, is one step; what a run or a       *)
(* request read before it is kept in a variable and may be stale when it   *)
(* is used.  A run takes `now' once, when it starts.  The key lookup of    *)
(* createOccurrence before its transaction (664-665) is part of Create:    *)
(* occurrences are never deleted, so the transaction finds whatever the    *)
(* lookup found.  publishedAt, the texts and the audit log, which nothing  *)
(* here reads back, are left out, and dry runs, which write nothing.       *)
(***************************************************************************)
EXTENDS Integers, Sequences, FiniteSets

CONSTANTS
    Date,           \* the 14ths and 29ths considered, numbered by day
    Gap,            \* those whose local time the clocks skip (daylight saving)
    VersionInput,   \* what a manager may ask of a version
    Runner,         \* processes that run materializeAnnouncementOccurrences
    Cron,           \* those that are the scheduled job; the rest serve the API
    Manager,        \* managers' requests that may be under way at once
    DayTicks,       \* ticks in a day
    Duration,       \* durationMinutes, in ticks
    StaleAfter,     \* five minutes, in ticks
    Horizon,        \* horizonDays of the scheduled job
    CatchUp,        \* catchUpDays
    Prompt,         \* assumed: a manager's request ends on the day it began
    MaxVersions,    \* bound: versions of the series
    MaxRequests,    \* bound: runs started through the API
    MaxCrashes,     \* bound: runs that die or that the database fails
    MaxTime         \* bound: the clock

Forever == 1000000

ASSUME SeriesAssumption ==
    /\ Date \subseteq Nat \ {0}
    /\ Gap \subseteq Date
    /\ VersionInput \subseteq [from : Nat, to : Nat, days : SUBSET Date, hour : Nat]
    /\ \A i \in VersionInput : i.from <= i.to /\ i.hour < DayTicks
    /\ Cron \subseteq Runner
    /\ DayTicks \in Nat \ {0}
    /\ Duration \in Nat \ {0}
    /\ StaleAfter \in Nat
    /\ Horizon \in Nat /\ CatchUp \in Nat
    /\ Prompt \in BOOLEAN
    /\ MaxVersions \in Nat \ {0}
    /\ MaxRequests \in Nat /\ MaxCrashes \in Nat /\ MaxTime \in Nat

VARIABLES
    clock,      \* the wall clock
    series,     \* AnnouncementSeries.status
    version,    \* the versions, in order of their number
    occ,        \* the AnnouncementOccurrence rows: status and lastAttemptAt
    notice,     \* the status of the Announcement of each occurrence
    request,    \* what each manager's request has read and is about to write
    pc,         \* where each run is
    at,         \* its `now'
    publishes,  \* does it go on to publish?
    todo,       \* what the current loop of a run has still to visit
    cur,        \* the occurrence it has claimed
    claim,      \* the lastAttemptAt of that claim
    announced,  \* observed: how often each occurrence was published
    requests,   \* observed: API runs so far
    crashes     \* observed: crashes so far

table == <<series, version, occ, notice>>
run   == <<pc, at, publishes, todo, cur, claim>>
vars  == <<clock, series, version, occ, notice, request, pc, at, publishes,
           todo, cur, claim, announced, requests, crashes>>

Occurrence == [version : 1..MaxVersions, date : Date]
Status     == {"ABSENT", "SCHEDULED", "PROCESSING", "FAILED", "PUBLISHED",
               "EXPIRED", "CANCELLED"}
Pending    == {"SCHEDULED", "FAILED", "PROCESSING"}
Row        == [status : Status, last : Int]
Visit      == [id : Occurrence, seen : Row]

\* lastAttemptAt is null: the code compares it as -1.
NoRow  == [status |-> "ABSENT", last |-> -1]
Nobody == [version |-> 0, date |-> 0]
NoRequest == [kind |-> "none"]
Request ==
    {NoRequest}
        \cup [kind : {"version"}, input : VersionInput, number : 1..MaxVersions]
        \cup [kind : {"archive"}]
        \cup [kind : {"cancel"}, id : Occurrence]

TypeOK ==
    /\ clock \in 0..MaxTime
    /\ series \in {"ACTIVE", "ARCHIVED"}
    /\ version \in Seq(VersionInput) /\ Len(version) \in 1..MaxVersions
    /\ occ \in [Occurrence -> Row]
    /\ notice \in [Occurrence -> {"ABSENT", "SCHEDULED", "PUBLISHED", "ARCHIVED", "EXPIRED"}]
    /\ request \in [Manager -> Request]
    /\ pc \in [Runner -> {"idle", "create", "expire", "expiring", "select",
                          "publish", "publishing"}]
    /\ at \in [Runner -> 0..MaxTime]
    /\ publishes \in [Runner -> BOOLEAN]
    /\ todo \in [Runner -> SUBSET Visit]
    /\ cur \in [Runner -> Occurrence \cup {Nobody}]
    /\ claim \in [Runner -> Int]
    /\ announced \in [Occurrence -> Nat]
    /\ requests \in 0..MaxRequests
    /\ crashes \in 0..MaxCrashes

\* createAnnouncementSeries: an active series with its first version.
Init ==
    /\ clock = 0
    /\ series = "ACTIVE"
    /\ version \in {<<i>> : i \in VersionInput}
    /\ occ = [o \in Occurrence |-> NoRow]
    /\ notice = [o \in Occurrence |-> "ABSENT"]
    /\ request = [m \in Manager |-> NoRequest]
    /\ pc = [r \in Runner |-> "idle"]
    /\ at = [r \in Runner |-> 0]
    /\ publishes = [r \in Runner |-> FALSE]
    /\ todo = [r \in Runner |-> {}]
    /\ cur = [r \in Runner |-> Nobody]
    /\ claim = [r \in Runner |-> -1]
    /\ announced = [o \in Occurrence |-> 0]
    /\ requests = 0
    /\ crashes = 0

-----------------------------------------------------------------------------
(* Dates and versions.                                                       *)

Today           == clock \div DayTicks
ScheduledFor(o) == o.date * DayTicks + version[o.version].hour
ExpiresAt(o)    == ScheduledFor(o) + Duration

InEffect(v, d) == version[v].from <= d /\ d <= version[v].to

\* Does the rule give d to version v: in effect, the latest effectiveFromDate,
\* and the latest version of those that share it.
Selects(v, d) ==
    /\ InEffect(v, d)
    /\ \A u \in DOMAIN version :
          InEffect(u, d) =>
              \/ version[u].from < version[v].from
              \/ version[u].from = version[v].from /\ u <= v

\* buildRecurrenceCandidates between two local dates.
Candidates(first, last) ==
    {o \in Occurrence :
        /\ first <= o.date /\ o.date <= last
        /\ o.version \in DOMAIN version
        /\ Selects(o.version, o.date)
        /\ o.date \in version[o.version].days}

-----------------------------------------------------------------------------
(* Managers: one read, then one transaction.                                 *)

Read(m, q) ==
    /\ request[m] = NoRequest
    /\ request' = [request EXCEPT ![m] = q]
    /\ UNCHANGED <<clock, table, run, announced, requests, crashes>>

Done(m) ==
    /\ request' = [request EXCEPT ![m] = NoRequest]
    /\ UNCHANGED <<clock, run, announced, requests, crashes>>

Withdrawn(X) == [o \in Occurrence |-> IF o \in X THEN [status |-> "CANCELLED", last |-> occ[o].last] ELSE occ[o]]

Archived(X)  == [o \in Occurrence |-> IF o \in X THEN "ARCHIVED" ELSE notice[o]]

\* Cancel the occurrences X and archive their announcements.
Withdraw(X) ==
    /\ occ' = Withdrawn(X)
    /\ notice' = Archived(X)

PendingFrom(d) == {o \in Occurrence : occ[o].status \in Pending /\ o.date >= d}

AskVersion(m, i) ==
    /\ series = "ACTIVE"
    /\ Len(version) < MaxVersions
    /\ i.from > Today
    /\ i.from >= version[Len(version)].from
    /\ Read(m, [kind |-> "version", input |-> i, number |-> Len(version) + 1])

\* createFutureAnnouncementSeriesVersion: the version number is unique, so of
\* two requests that read the same series one fails.
CreateVersion(m) ==
    /\ request[m].kind = "version"
    /\ request[m].number = Len(version) + 1
    /\ version' = Append(version, request[m].input)
    /\ Withdraw(PendingFrom(request[m].input.from))
    /\ UNCHANGED series
    /\ Done(m)

AskArchive(m) ==
    /\ series = "ACTIVE"
    /\ Read(m, [kind |-> "archive"])

ArchiveSeries(m) ==
    /\ request[m].kind = "archive"
    /\ series' = "ARCHIVED"
    /\ Withdraw(PendingFrom(0))
    /\ UNCHANGED version
    /\ Done(m)

AskCancel(m, o) ==
    /\ occ[o].status \in Pending
    /\ ScheduledFor(o) > clock
    /\ Read(m, [kind |-> "cancel", id |-> o])

\* cancelAnnouncementOccurrence: the update repeats nothing of what was read.
CancelOccurrence(m) ==
    /\ request[m].kind = "cancel"
    /\ Withdraw({request[m].id})
    /\ UNCHANGED <<series, version>>
    /\ Done(m)

\* A CONFLICT, or the API process dies before its transaction.
Dismiss(m) ==
    /\ request[m] # NoRequest
    /\ UNCHANGED table
    /\ Done(m)

-----------------------------------------------------------------------------
(* A run of materializeAnnouncementOccurrences.                              *)

Unchanged(r) == UNCHANGED <<clock, request, requests, crashes>>

Goto(r, place, visits) ==
    /\ pc' = [pc EXCEPT ![r] = place]
    /\ todo' = [todo EXCEPT ![r] = visits]

Claimed(r, o, t) ==
    /\ cur' = [cur EXCEPT ![r] = o]
    /\ claim' = [claim EXCEPT ![r] = t]

Released(r) == Claimed(r, Nobody, -1)

Stop(r) ==
    /\ Goto(r, "idle", {})
    /\ Released(r)
    /\ at' = [at EXCEPT ![r] = 0]
    /\ publishes' = [publishes EXCEPT ![r] = FALSE]

\* The visits of a loop that looks at nothing but the id.
Ids(X) == [id : X, seen : {NoRow}]

\* The loops over candidates and due occurrences go by date.
Earliest(r, x) ==
    /\ x \in todo[r]
    /\ \A y \in todo[r] : x.id.date <= y.id.date

Start(r, first, last, publish) ==
    /\ pc[r] = "idle"
    /\ at' = [at EXCEPT ![r] = clock]
    /\ publishes' = [publishes EXCEPT ![r] = publish]
    /\ Goto(r, "create", IF series = "ACTIVE" THEN Ids(Candidates(first, last)) ELSE {})
    /\ UNCHANGED <<clock, table, request, cur, claim, announced, crashes>>

\* The scheduled job.
StartRun(r) ==
    /\ r \in Cron
    /\ Start(r, Today - CatchUp, Today + Horizon, TRUE)
    /\ UNCHANGED requests

\* The API, with the caller's dates and publishDue.
StartRequest(r) ==
    /\ r \notin Cron
    /\ requests < MaxRequests
    /\ \E first, last \in Date, publish \in BOOLEAN :
          first <= last /\ Start(r, first, last, publish)
    /\ requests' = requests + 1

\* Mutant of Creatable: the choice of version is not made again in the transaction.
CreatableAsRead(o) == occ[o] = NoRow

\* createOccurrence: only the version the rule selects now, and once; whether the
\* series is still active is not asked again.
Creatable(o) == Selects(o.version, o.date) /\ occ[o] = NoRow

Create(r, x) ==
    /\ pc[r] = "create"
    /\ Earliest(r, x)
    /\ x.id.date \notin Gap
    /\ IF Creatable(x.id)
       THEN /\ occ' = [occ EXCEPT ![x.id] = [status |-> "SCHEDULED", last |-> -1]]
            /\ notice' = [notice EXCEPT ![x.id] = "SCHEDULED"]
       ELSE UNCHANGED <<occ, notice>>
    /\ Goto(r, "create", todo[r] \ {x})
    /\ UNCHANGED <<series, version, at, publishes, cur, claim, announced>>
    /\ Unchanged(r)

\* zonedLocalDateTimeToUtc throws in the loop, and nothing in the run catches it.
Throw(r, x) ==
    /\ pc[r] = "create"
    /\ Earliest(r, x)
    /\ x.id.date \in Gap
    /\ Stop(r)
    /\ UNCHANGED <<table, announced>>
    /\ Unchanged(r)

\* Mutant of IsElapsed: claims are taken to be alive.
IsElapsedUnclaimed(o) == occ[o].status \in {"SCHEDULED", "FAILED", "PUBLISHED"}

IsElapsed(o) == occ[o].status \in Pending \cup {"PUBLISHED"}

\* The findMany of expireElapsedAnnouncementOccurrences.
FindElapsed(r) ==
    /\ pc[r] = "create"
    /\ todo[r] = {}
    /\ Goto(r, "expire",
            {[id |-> o, seen |-> occ[o]] :
                o \in {p \in Occurrence : IsElapsed(p) /\ ExpiresAt(p) <= at[r]}})
    /\ UNCHANGED <<table, at, publishes, cur, claim, announced>>
    /\ Unchanged(r)

\* Claims of elapsed occurrences take a lastAttemptAt no claim had before.
ClaimTime(r, x) == IF at[r] > x.seen.last THEN at[r] ELSE x.seen.last + 1

ClaimElapsed(r, x) ==
    /\ pc[r] = "expire"
    /\ x \in todo[r]
    /\ IF occ[x.id] = x.seen
       THEN /\ occ' = [occ EXCEPT ![x.id] = [status |-> "PROCESSING", last |-> ClaimTime(r, x)]]
            /\ Claimed(r, x.id, ClaimTime(r, x))
            /\ Goto(r, "expiring", todo[r] \ {x})
       ELSE /\ Goto(r, "expire", todo[r] \ {x})
            /\ UNCHANGED <<occ, cur, claim>>
    /\ UNCHANGED <<series, version, notice, at, publishes, announced>>
    /\ Unchanged(r)

\* Mutant of Holds: the claim is known by its time alone.
HoldsByTime(r) == occ[cur[r]].last = claim[r]

\* Does r still hold its claim?
Holds(r) == occ[cur[r]].status = "PROCESSING" /\ occ[cur[r]].last = claim[r]

Expire(r) ==
    /\ pc[r] = "expiring"
    /\ IF Holds(r)
       THEN /\ occ' = [occ EXCEPT ![cur[r]] = [status |-> "EXPIRED", last |-> @.last]]
            /\ notice' = [notice EXCEPT ![cur[r]] = "EXPIRED"]
       ELSE UNCHANGED <<occ, notice>>
    /\ Released(r)
    /\ Goto(r, "expire", todo[r])
    /\ UNCHANGED <<series, version, at, publishes, announced>>
    /\ Unchanged(r)

IsDue(o, t) == ScheduledFor(o) <= t /\ t < ExpiresAt(o)

\* publishDueAnnouncementOccurrences gives back the claims of dead runs ...
IsStale(o, t) ==
    /\ occ[o].status = "PROCESSING"
    /\ occ[o].last # -1
    /\ occ[o].last < t - StaleAfter

Recover(r) ==
    /\ pc[r] = "expire"
    /\ todo[r] = {}
    /\ publishes[r]
    /\ occ' = [o \in Occurrence |->
                  IF IsStale(o, at[r]) /\ IsDue(o, at[r])
                  THEN [status |-> "FAILED", last |-> occ[o].last]
                  ELSE occ[o]]
    /\ Goto(r, "select", {})
    /\ UNCHANGED <<series, version, notice, at, publishes, cur, claim, announced>>
    /\ Unchanged(r)

\* Mutant of IsPublishable: the claim repeats the instant, not the status.
IsUncancelledAndDue(o, t) == occ[o].status \notin {"ABSENT", "CANCELLED"} /\ IsDue(o, t)

IsPublishable(o, t) == occ[o].status \in {"SCHEDULED", "FAILED"} /\ IsDue(o, t)

\* ... and looks for what is due.
FindDue(r) ==
    /\ pc[r] = "select"
    /\ Goto(r, "publish", Ids({o \in Occurrence : IsPublishable(o, at[r])}))
    /\ UNCHANGED <<table, at, publishes, cur, claim, announced>>
    /\ Unchanged(r)

ClaimDue(r, x) ==
    /\ pc[r] = "publish"
    /\ Earliest(r, x)
    /\ IF IsPublishable(x.id, at[r])
       THEN /\ occ' = [occ EXCEPT ![x.id] = [status |-> "PROCESSING", last |-> at[r]]]
            /\ Claimed(r, x.id, at[r])
            /\ Goto(r, "publishing", todo[r] \ {x})
       ELSE /\ Goto(r, "publish", todo[r] \ {x})
            /\ UNCHANGED <<occ, cur, claim>>
    /\ UNCHANGED <<series, version, notice, at, publishes, announced>>
    /\ Unchanged(r)

\* The transaction: occurrence, announcement and notifications, if the claim holds.
Publish(r) ==
    /\ pc[r] = "publishing"
    /\ IF Holds(r)
       THEN /\ occ' = [occ EXCEPT ![cur[r]] = [status |-> "PUBLISHED", last |-> @.last]]
            /\ notice' = [notice EXCEPT ![cur[r]] = "PUBLISHED"]
            /\ announced' = [announced EXCEPT ![cur[r]] = @ + 1]
       ELSE UNCHANGED <<occ, notice, announced>>
    /\ Released(r)
    /\ Goto(r, "publish", todo[r])
    /\ UNCHANGED <<series, version, at, publishes>>
    /\ Unchanged(r)

\* The transaction is rolled back: markPublicationFailure.
FailPublication(r) ==
    /\ pc[r] = "publishing"
    /\ occ' = IF Holds(r)
              THEN [occ EXCEPT ![cur[r]] = [status |-> "FAILED", last |-> @.last]]
              ELSE occ
    /\ Released(r)
    /\ Goto(r, "publish", todo[r])
    /\ UNCHANGED <<series, version, notice, at, publishes, announced>>
    /\ Unchanged(r)

EndRun(r) ==
    /\ todo[r] = {}
    /\ pc[r] = "publish" \/ (pc[r] = "expire" /\ ~publishes[r])
    /\ Stop(r)
    /\ UNCHANGED <<table, announced>>
    /\ Unchanged(r)

\* The process dies, or an error outside the try of the publication ends the run.
Crash(r) ==
    /\ pc[r] # "idle"
    /\ crashes < MaxCrashes
    /\ crashes' = crashes + 1
    /\ Stop(r)
    /\ UNCHANGED <<clock, table, request, announced, requests>>

-----------------------------------------------------------------------------

\* Under Prompt no request is still under way when its day ends.
Tick ==
    /\ clock < MaxTime
    /\ Prompt /\ (clock + 1) % DayTicks = 0 => \A m \in Manager : request[m] = NoRequest
    /\ clock' = clock + 1
    /\ UNCHANGED <<table, request, run, announced, requests, crashes>>

Manage(m) ==
    \/ \E i \in VersionInput : AskVersion(m, i)
    \/ AskArchive(m)
    \/ \E o \in Occurrence : AskCancel(m, o)

Settle(m) == CreateVersion(m) \/ ArchiveSeries(m) \/ CancelOccurrence(m) \/ Dismiss(m)

Work(r) ==
    \/ \E x \in todo[r] : Create(r, x) \/ Throw(r, x) \/ ClaimElapsed(r, x) \/ ClaimDue(r, x)
    \/ FindElapsed(r) \/ Expire(r)
    \/ Recover(r) \/ FindDue(r) \/ Publish(r) \/ FailPublication(r)
    \/ EndRun(r)

Next ==
    \/ \E m \in Manager : Manage(m) \/ Settle(m)
    \/ \E r \in Runner : StartRun(r) \/ StartRequest(r) \/ Work(r) \/ Crash(r)
    \/ Tick

Spec == Init /\ [][Next]_vars

\* Cron starts a run every five minutes, a run that does not die goes on, a
\* request is answered, and time passes.
Fairness ==
    /\ \A r \in Cron : WF_vars(StartRun(r))
    /\ \A r \in Runner : WF_vars(Work(r))
    /\ \A m \in Manager : WF_vars(Settle(m))
    /\ WF_vars(Tick)

FairSpec == Spec /\ Fairness

-----------------------------------------------------------------------------
(* Properties.                                                               *)

\* The two records of an occurrence tell the same story.  In particular a claim
\* of a publisher never covers an announcement that is already out: one that is
\* out is PROCESSING only while its expiry is claimed.
Agree(o) ==
    /\ occ[o].status = "ABSENT"    => notice[o] = "ABSENT"
    /\ occ[o].status \in {"SCHEDULED", "FAILED"} => notice[o] = "SCHEDULED"
    /\ occ[o].status = "PUBLISHED" => notice[o] = "PUBLISHED"
    /\ occ[o].status = "EXPIRED"   => notice[o] = "EXPIRED"
    /\ occ[o].status = "CANCELLED" => notice[o] = "ARCHIVED"
    /\ occ[o].status = "PROCESSING" =>
          \/ notice[o] = "SCHEDULED"
          \/ notice[o] = "PUBLISHED" /\ occ[o].last >= ExpiresAt(o)

\* See Agree, above: the occurrence and its announcement never disagree, whatever
\* publishers, expirers and managers race for them.
StatusesAgree == \A o \in Occurrence : Agree(o)

\* Exactly-once of TASK-AT-407: whatever runs race, crash and recover, an
\* occurrence is published, and its audience notified, at most once.
PublishedOnce == \A o \in Occurrence : announced[o] <= 1

\* An occurrence is published once, and never says otherwise than its announcement.
OccurrencesAreSound == StatusesAgree /\ PublishedOnce

\* No two versions both speak for one date, however a new version races with
\* runs that chose from the versions before it.
Standing(o) == occ[o].status \notin {"ABSENT", "CANCELLED"}

OneVoicePerDate ==
    \A o, p \in Occurrence : Standing(o) /\ Standing(p) /\ o.date = p.date => o = p

\* What a manager cancelled no run brings back (RUNBOOK-007:97).
CancelledIsFinal ==
    [][\A o \in Occurrence :
         occ[o].status = "CANCELLED" => occ'[o].status = "CANCELLED" /\ notice'[o] = "ARCHIVED"]_vars

\* RUNBOOK-007:97: archiving the series wins over a concurrent run.
ArchivedIsSilent ==
    [][series = "ARCHIVED" => \A o \in Occurrence : announced'[o] = announced[o]]_vars

\* An announcement whose time is over comes down, whoever died claiming it.
ElapsedComesDown ==
    \A o \in Occurrence :
        (notice[o] \in {"SCHEDULED", "PUBLISHED"} /\ clock >= ExpiresAt(o))
            ~> notice[o] \in {"EXPIRED", "ARCHIVED"}

=============================================================================
