------------------------------- MODULE CasePlan -------------------------------
(***************************************************************************)
(* The plan of one service case                                            *)
(* (services/api/src/core/case-flow/plan.service.ts, sessions.service.ts). *)
(* Whoever asks for the plan compiles it from the newest resolution of the *)
(* case and the newest published version of its flow; when it differs from *)
(* the plan compiled last it is recorded under the next revision.  Sessions*)
(* and copied messages carry the revision they were made from.             *)
(*                                                                         *)
(* A compiled plan is abstracted to its fingerprint, in Compilation.       *)
(***************************************************************************)
EXTENDS Naturals, Sequences

CONSTANTS
    Compilation,    \* plans that may be compiled, by fingerprint
    NoCompilation,  \* the case is not resolved yet
    Asker,          \* bound: requests in flight
    MaxPlan         \* bound: plans recorded

ASSUME PlanAssumption == NoCompilation \notin Compilation /\ MaxPlan \in Nat

VARIABLES
    source,         \* what resolution and publication amount to at the moment
    plan,           \* the "plan compiled" events, in order
    started,        \* what sessions were started from: fingerprint and revision
    asked,          \* requests in flight
    crossed         \* observation: a plan was recorded while another request
                    \* that had read the plans was about to record one

planVars == <<source, plan, started, asked, crossed>>

PlanRow == [of : Compilation, revision : Nat]

\* `start' asks for a session; `revision' is that of the last plan read, `seen'
\* the number of plans there were.
AskRow ==
    [at : {"compiled", "recording", "starting"}, of : Compilation, start : BOOLEAN, revision : Nat,
     seen : Nat]
NoAsk == [at |-> "idle"]

PlanInit ==
    /\ source = NoCompilation
    /\ plan = <<>>
    /\ started = {}
    /\ asked = [a \in Asker |-> NoAsk]
    /\ crossed = FALSE

LetAsk(a, at, of, start, revision, seen) ==
    asked' = [asked EXCEPT ![a] = [at |-> at, of |-> of, start |-> start,
                                   revision |-> revision, seen |-> seen]]
EndAsk(a) == asked' = [asked EXCEPT ![a] = NoAsk]

\* resolveCase records a resolution, or a version of a flow is published.
Resolve ==
    /\ \E p \in Compilation : source' = p
    /\ UNCHANGED <<plan, started, asked, crossed>>

Resolved == source # NoCompilation

\* getCaseFlowPlan
Compile(a) ==
    /\ asked[a] = NoAsk
    /\ Resolved
    /\ \E start \in BOOLEAN : LetAsk(a, "compiled", source, start, 0, 0)
    /\ UNCHANGED <<source, plan, started, crossed>>

\* Mutant of LastRevision: the revision of a first plan is taken for the last.
LastRevisionOrOne == IF plan = <<>> THEN 1 ELSE plan[Len(plan)].revision

LastRevision == IF plan = <<>> THEN 0 ELSE plan[Len(plan)].revision

SameSource(p) == plan # <<>> /\ plan[Len(plan)].of = p

NextRevision(a) == asked[a].revision + 1

\* What the request does with the plan it has found or recorded.
Serves(a, p, revision) ==
    IF asked[a].start
    THEN LetAsk(a, "starting", p, asked[a].start, revision, Len(plan))
    ELSE EndAsk(a)

\* The plans recorded are read: one that does not differ from the last keeps
\* its revision.
ReadPlans(a) ==
    /\ asked[a].at = "compiled"
    /\ LET p == asked[a].of
       IN  \/ /\ SameSource(p)
              /\ Serves(a, p, LastRevision)
           \/ /\ ~SameSource(p)
              /\ LetAsk(a, "recording", p, asked[a].start, LastRevision, Len(plan))
    /\ UNCHANGED <<source, plan, started, crossed>>

RecordPlan(a) ==
    /\ asked[a].at = "recording"
    /\ Len(plan) < MaxPlan
    /\ plan' = Append(plan, [of |-> asked[a].of, revision |-> NextRevision(a)])
    /\ Serves(a, asked[a].of, NextRevision(a))
    /\ crossed' = (crossed \/ asked[a].seen # Len(plan))
    /\ UNCHANGED <<source, started>>

StartedFrom(a) == [of |-> asked[a].of, revision |-> asked[a].revision]

\* createCaseFlowSession: every step keeps the revision of the plan.
StartFromPlan(a) ==
    /\ asked[a].at = "starting"
    /\ started' = started \cup {StartedFrom(a)}
    /\ EndAsk(a)
    /\ UNCHANGED <<source, plan, crossed>>

\* The request dies, or the plan is blocked.
AbandonPlan(a) ==
    /\ asked[a] # NoAsk
    /\ EndAsk(a)
    /\ UNCHANGED <<source, plan, started, crossed>>

PlanNext ==
    \/ Resolve
    \/ \E a \in Asker :
          \/ Compile(a) \/ ReadPlans(a) \/ RecordPlan(a) \/ StartFromPlan(a) \/ AbandonPlan(a)

PlanSpec == PlanInit /\ [][PlanNext]_planVars

-----------------------------------------------------------------------------
(* Properties                                                              *)

\* The rows and the requests have the shape the code gives them.
PlanTypeOK ==
    /\ source \in Compilation \cup {NoCompilation}
    /\ plan \in Seq(PlanRow)
    /\ Len(plan) <= MaxPlan
    /\ started \subseteq PlanRow
    /\ asked \in [Asker -> AskRow \cup {NoAsk}]
    /\ crossed \in BOOLEAN

\* Requests at once may record two plans under one revision, but none is
\* skipped: a revision above the first follows one recorded before.
RevisionsHaveNoGap ==
    \A i \in 1 .. Len(plan) :
        plan[i].revision = 1 \/ \E j \in 1 .. (i - 1) : plan[i].revision = plan[j].revision + 1

\* ... and as long as none crossed, a revision names one plan, and every plan
\* differs from the one before it.
RevisionNamesPlan ==
    ~crossed =>
        /\ \A i \in 1 .. Len(plan) : plan[i].revision = i
        /\ \A i \in 1 .. (Len(plan) - 1) : plan[i].of # plan[i + 1].of

\* Whatever was compiled in the meantime, a session is started from a plan that
\* was recorded, under the revision it carries.
StartedFromRecorded ==
    \A s \in started : \E i \in 1 .. Len(plan) : plan[i] = s

\* A revision that a session or a message carries leads to the plan it was made from.
RevisionsAreSound == RevisionsHaveNoGap /\ RevisionNamesPlan /\ StartedFromRecorded
=============================================================================
