------------------------------- MODULE MCUpkeep -------------------------------
(***************************************************************************)
(* What has to come to an end, for TLC: the delivery of a licence          *)
(* notification, the shutdown of the API, the wait of the browser          *)
(* extension for its host, and the announcements that elapse.  They share  *)
(* no state, so one of them moves in each behaviour, under its own         *)
(* fairness.                                                               *)
(***************************************************************************)
EXTENDS NotificationDelivery, ApiLifecycle, CompanionPairing

\* The constants of AnnouncementSeries, whose Cron is Starter here.
CONSTANTS Date, Gap, VersionInput, Runner, Starter, Manager, DayTicks, Duration,
          StaleAfter, Horizon, CatchUp, Prompt, MaxVersions, MaxRequests, MaxTime

VARIABLES
    part,           \* the component that moves
    \* The variables of AnnouncementSeries, whose pc, cur and crashes are `stage',
    \* `held' and `deaths' here.
    clock, series, version, occ, notice, request, stage, at, publishes, todo, held,
    claim, announced, requests, deaths

seriesVars ==
    <<clock, series, version, occ, notice, request, stage, at, publishes, todo, held,
      claim, announced, requests, deaths>>

Series == INSTANCE AnnouncementSeries WITH
                Cron <- Starter, pc <- stage, cur <- held, crashes <- deaths

Jobs == <<"jobs">>
Stores == <<"redis", "prisma">>

\* A rule for both dates, and one for the second alone.
TwoDays ==
    {[from |-> 1, to |-> 9, days |-> {1, 2}, hour |-> 0],
     [from |-> 2, to |-> 2, days |-> {2}, hour |-> 1]}

UpkeepInit ==
    /\ part \in {"outbox", "shutdown", "pairing", "series"}
    /\ Init /\ LifecycleInit /\ PairingInit /\ Series!Init
    \* The rule of the series matters to the series alone, and the handles of the
    \* resources to the shutdown.
    /\ part # "series" => version[1] = CHOOSE i \in VersionInput : TRUE
    /\ part # "shutdown" => holds = {}

UpkeepNext ==
    /\ \/ /\ part = "outbox" /\ Next
          /\ UNCHANGED <<lifecycleVars, pairingVars, seriesVars>>
       \/ /\ part = "shutdown" /\ LifecycleNext
          /\ UNCHANGED <<vars, pairingVars, seriesVars>>
       \/ /\ part = "pairing" /\ PairingNext
          /\ UNCHANGED <<vars, lifecycleVars, seriesVars>>
       \/ /\ part = "series" /\ Series!Next
          /\ UNCHANGED <<vars, lifecycleVars, pairingVars>>
    /\ UNCHANGED part

\* The fairness of both FairSpecs, of LifecycleFairSpec and of PairingFairSpec, each
\* where it applies.
UpkeepFairness ==
    /\ \A w \in Worker :
        /\ WF_vars(part = "outbox" /\ StartRun(w))
        /\ WF_vars(part = "outbox" /\ (EndScan(w) \/ Scan(w) \/ Process(w)))
    /\ WF_vars(part = "outbox" /\ Tick)
    /\ WF_lifecycleVars(part = "shutdown" /\ ShutdownGoesOn)
    /\ \A s \in Socket : WF_pairingVars(part = "pairing" /\ PairingGoesOn(s))
    /\ \A r \in Starter : WF_seriesVars(part = "series" /\ Series!StartRun(r))
    /\ \A r \in Runner : WF_seriesVars(part = "series" /\ Series!Work(r))
    /\ \A m \in Manager : WF_seriesVars(part = "series" /\ Series!Settle(m))
    /\ WF_seriesVars(part = "series" /\ Series!Tick)

UpkeepSpec ==
    /\ UpkeepInit /\ [][UpkeepNext]_<<part, vars, lifecycleVars, pairingVars, seriesVars>>
    /\ UpkeepFairness

-----------------------------------------------------------------------------
(* Properties, of one part each.                                           *)

\* While the outbox is what moves, every due job is again and again settled, or
\* stranded with a worker that died on the last attempt, through scan races, lost
\* claims, expired leases and retries (notifications.service.ts).
JobsSettle == \A j \in Job : []<>(part = "outbox" => SettledOrStranded(j))

\* An announcement whose time is over comes down, whoever died claiming it
\* (announcement-series.service.ts).
ElapsedComesDown == Series!ElapsedComesDown
=============================================================================
