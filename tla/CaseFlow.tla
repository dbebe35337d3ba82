------------------------------- MODULE CaseFlow -------------------------------
(***************************************************************************)
(* What people decide about one service case                               *)
(* (services/api/src/core/case-flow/*.service.ts): they settle a conflict  *)
(* of evidence, add evidence by hand, correct the flow the rules suggest,  *)
(* and undo each of these; the case is resolved again.  Overrides, undos   *)
(* and resolutions are rows of an audit log that only grows: the newest    *)
(* counts.  Every statement is a transaction of its own, so the steps of   *)
(* concurrent requests interleave, and a request may die between two.  One *)
(* that gives an unknown cause is refused between two as well: after what  *)
(* it decided was written, and before that is recorded.                    *)
(*                                                                         *)
(* The rules are abstracted to any flow they may suggest.  What becomes of *)
(* a resolution is in CasePlan.                                            *)
(***************************************************************************)
EXTENDS Naturals, Sequences, FiniteSets

CONSTANTS
    Choice,         \* the facts in conflict, one of which is chosen
    Manual,         \* facts that may be added by hand
    Route,          \* flows a case may take
    None,           \* null
    Actor,          \* bound: requests in flight
    MaxOverride     \* bound: overrides recorded

ASSUME CaseAssumption ==
    /\ None \notin Choice \cup Manual \cup Route
    \* A fact added by hand gets an id of its own.
    /\ Choice \cap Manual = {}
    /\ MaxOverride \in Nat

VARIABLES
    conflict,       \* the EvidenceConflict row
    manual,         \* EvidenceFact rows added by hand
    override,       \* the overrides created, in order
    undone,         \* indexes of the overrides an undo event names
    resolution,     \* the newest "resolved" event
    action,         \* requests in flight
    overlapped,     \* observation: two requests were in flight at once
    crowded,        \* observation: they were since the case was last left alone
    lost,           \* observation: facts whose request ended without recording them
    perished,       \* observation: between which two writes requests died
    current         \* observation: the last request to end resolved the case last

caseVars ==
    <<conflict, manual, override, undone, resolution, action, overlapped,
      crowded, lost, perished, current>>

Conflict ==
    [status : {"OPEN"}, chosen : {None}] \cup [status : {"RESOLVED"}, chosen : Choice \cup {None}]
OverrideRow ==
    [kind : {"CONFLICT_RESOLUTION"}, of : Choice \cup {None}]
    \cup [kind : {"MANUAL_EVIDENCE"}, of : Manual]
    \cup [kind : {"FLOW_CLASSIFICATION"}, of : Route]
\* `by' is the override that named the flow, 0 when the rules did; `uses' the
\* facts added by hand it rests on.
Resolution == [flow : Route \cup {None}, by : Nat, uses : SUBSET Manual]

\* `of' is what is chosen, `which' the override to undo.
ActionRow ==
    [at : {"looking", "settling", "logging", "undoing", "reopened", "resolving", "resolved"},
     kind : {"CONFLICT_RESOLUTION", "MANUAL_EVIDENCE", "FLOW_CLASSIFICATION", "none"},
     of : Choice \cup Manual \cup Route \cup {None}, which : Nat, uses : SUBSET Manual]
NoAction == [at |-> "idle"]

-----------------------------------------------------------------------------

CaseInit ==
    /\ conflict = [status |-> "OPEN", chosen |-> None]
    /\ manual = {}
    /\ override = <<>>
    /\ undone = {}
    /\ resolution = [flow |-> None, by |-> 0, uses |-> {}]
    /\ action = [a \in Actor |-> NoAction]
    /\ overlapped = FALSE /\ crowded = FALSE
    /\ lost = {} /\ perished = {}
    /\ current = FALSE

Moves(a, at, kind, of, which, uses) ==
    action' = [action EXCEPT ![a] = [at |-> at, kind |-> kind, of |-> of, which |-> which,
                                     uses |-> uses]]
Returns(a) == action' = [action EXCEPT ![a] = NoAction]

Others(a) == \E b \in Actor \ {a} : action[b] # NoAction

Opens(a) ==
    /\ action[a] = NoAction
    /\ crowded' = Others(a)
    /\ overlapped' = (overlapped \/ Others(a))
    /\ UNCHANGED <<conflict, override, undone, resolution, lost, perished, current>>

\* The bound on overrides, with those about to be recorded.
Room ==
    Len(override) + Cardinality({a \in Actor : action[a].at \in {"looking", "settling", "logging"}})
        < MaxOverride

-----------------------------------------------------------------------------
(* Overrides.                                                              *)

\* resolveEvidenceConflictManually, with or without a chosen fact.
BeginSettle(a) ==
    /\ conflict.status = "OPEN"
    /\ \E f \in Choice \cup {None} : Moves(a, "looking", "CONFLICT_RESOLUTION", f, 0, {})
    /\ Opens(a) /\ Room
    /\ UNCHANGED manual

\* resolveEvidenceConflict reads the row again, and leaves a resolved one be;
\* the override is recorded all the same.
LookAgain(a) ==
    /\ action[a].at = "looking"
    /\ Moves(a, IF conflict.status = "RESOLVED" THEN "logging" ELSE "settling",
             action[a].kind, action[a].of, 0, {})
    /\ UNCHANGED <<conflict, manual, override, undone, resolution, overlapped,
                   crowded, lost, perished, current>>

\* The row is written: what had been lost of it is no longer there.
Writes(row) ==
    /\ conflict' = row
    /\ lost' = lost \cap Manual

SettleConflict(a) ==
    /\ action[a].at = "settling"
    /\ Writes([status |-> "RESOLVED", chosen |-> action[a].of])
    /\ Moves(a, "logging", action[a].kind, action[a].of, 0, {})
    /\ UNCHANGED <<manual, override, undone, resolution, overlapped, crowded,
                   perished, current>>

\* createManualEvidence: the fact first.
BeginEvidence(a, m) ==
    /\ m \notin manual
    /\ manual' = manual \cup {m}
    /\ Moves(a, "logging", "MANUAL_EVIDENCE", m, 0, {})
    /\ Opens(a) /\ Room

\* createFlowClassificationOverride
BeginReroute(a) ==
    /\ \E r \in Route : Moves(a, "logging", "FLOW_CLASSIFICATION", r, 0, {})
    /\ Opens(a) /\ Room
    /\ UNCHANGED manual

\* The request goes on to resolve the case (recompute), or ends.
Concludes(a) ==
    \/ Moves(a, "resolving", "none", None, 0, {}) /\ UNCHANGED current
    \/ Returns(a) /\ current' = FALSE

\* recordHumanOverride
LogOverride(a) ==
    /\ action[a].at = "logging"
    /\ override' = Append(override, [kind |-> action[a].kind, of |-> action[a].of])
    /\ Concludes(a)
    /\ UNCHANGED <<conflict, manual, undone, resolution, overlapped, crowded,
                   lost, perished>>

\* What a request has written and not recorded: a choice, or a fact.
Unrecorded(a) ==
    IF action[a].at = "logging" /\ action[a].kind # "FLOW_CLASSIFICATION"
    THEN {action[a].of} ELSE {}

\* ... which refuses a cause it does not know.  No handler has looked at the cause,
\* and what was written before stays.
RefuseOverride(a) ==
    /\ action[a].at = "logging"
    /\ lost' = lost \cup Unrecorded(a)
    /\ current' = FALSE
    /\ Returns(a)
    /\ UNCHANGED <<conflict, manual, override, undone, resolution, overlapped,
                   crowded, perished>>

Undoable(i) == i \in (1 .. Len(override)) \ undone

\* undoHumanOverride
BeginUndo(a, i) ==
    /\ Undoable(i)
    /\ Moves(a, "undoing", override[i].kind, None, i, {})
    /\ Opens(a)
    /\ UNCHANGED manual

\* Mutant of Compensates: undoing a choice leaves the conflict resolved.
CompensatesNever(kind) == FALSE

Compensates(kind) == kind = "CONFLICT_RESOLUTION"

Reopened == [status |-> "OPEN", chosen |-> None]

\* The conflict is opened again before the undo is recorded.
Reopen(a) ==
    /\ action[a].at = "undoing"
    /\ IF Compensates(action[a].kind)
       THEN Writes(Reopened)
       ELSE UNCHANGED <<conflict, lost>>
    /\ Moves(a, "reopened", action[a].kind, None, action[a].which, {})
    /\ UNCHANGED <<manual, override, undone, resolution, overlapped, crowded,
                   perished, current>>

LogUndo(a) ==
    /\ action[a].at = "reopened"
    /\ undone' = undone \cup {action[a].which}
    /\ Concludes(a)
    /\ UNCHANGED <<conflict, manual, override, resolution, overlapped, crowded,
                   lost, perished>>

-----------------------------------------------------------------------------
(* Resolution.                                                             *)

BeginResolve(a) ==
    /\ Moves(a, "resolving", "none", None, 0, {})
    /\ Opens(a)
    /\ UNCHANGED manual

\* getCaseOverrideState: the newest active correction of the flow, and the facts
\* whose override is undone.
ActiveCorrection(i) ==
    /\ i \in (1 .. Len(override)) \ undone
    /\ override[i].kind = "FLOW_CLASSIFICATION"
    /\ \A j \in (i + 1) .. Len(override) :
            override[j].kind = "FLOW_CLASSIFICATION" => j \in undone

TakenBack(m) == \E i \in undone : override[i] = [kind |-> "MANUAL_EVIDENCE", of |-> m]

\* The facts a resolution rests on.
Usable == {m \in manual : ~TakenBack(m)}

\* resolveCase reads the facts, the conflicts and the overrides ...
ReadCase(a) ==
    /\ action[a].at = "resolving"
    /\ \/ \E i \in 1 .. Len(override) :
            /\ ActiveCorrection(i)
            /\ Moves(a, "resolved", "none", override[i].of, i, Usable)
       \/ /\ \A i \in 1 .. Len(override) : ~ActiveCorrection(i)
          /\ \E r \in Route : Moves(a, "resolved", "none", r, 0, Usable)
    /\ UNCHANGED <<conflict, manual, override, undone, resolution, overlapped,
                   crowded, lost, perished, current>>

\* ... and records what follows from them.
LogResolution(a) ==
    /\ action[a].at = "resolved"
    /\ resolution' = [flow |-> action[a].of, by |-> action[a].which, uses |-> action[a].uses]
    /\ current' = TRUE
    /\ Returns(a)
    /\ UNCHANGED <<conflict, manual, override, undone, overlapped, crowded,
                   lost, perished>>

\* A choice or a fact is written and not recorded, or a conflict is open again
\* and the undo is not.
HalfDone(a) ==
    \/ Unrecorded(a) # {}
    \/ action[a].at = "reopened" /\ Compensates(action[a].kind)

\* The process dies, or the database fails; what the request had written stays.
Perish(a) ==
    /\ action[a] # NoAction
    /\ Returns(a)
    /\ lost' = lost \cup Unrecorded(a)
    /\ perished' = IF HalfDone(a) THEN perished \cup {action[a].at} ELSE perished
    /\ current' = FALSE
    /\ UNCHANGED <<conflict, manual, override, undone, resolution, overlapped,
                   crowded>>

CaseNext ==
    \E a \in Actor :
        \/ BeginSettle(a) \/ LookAgain(a) \/ SettleConflict(a)
        \/ \E m \in Manual : BeginEvidence(a, m)
        \/ BeginReroute(a) \/ LogOverride(a) \/ RefuseOverride(a)
        \/ \E i \in 1 .. MaxOverride : BeginUndo(a, i)
        \/ Reopen(a) \/ LogUndo(a)
        \/ BeginResolve(a) \/ ReadCase(a) \/ LogResolution(a)
        \/ Perish(a)

CaseSpec == CaseInit /\ [][CaseNext]_caseVars

-----------------------------------------------------------------------------
(* Properties                                                              *)

\* The rows and the requests have the shape the code gives them.
CaseTypeOK ==
    /\ conflict \in Conflict
    /\ manual \subseteq Manual
    /\ override \in Seq(OverrideRow)
    /\ undone \subseteq 1 .. Len(override)
    /\ resolution \in Resolution
    /\ action \in [Actor -> ActionRow \cup {NoAction}]
    /\ overlapped \in BOOLEAN /\ crowded \in BOOLEAN /\ current \in BOOLEAN
    /\ lost \subseteq Choice \cup Manual \cup {None}
    /\ perished \subseteq {"logging", "reopened"}

Names(i, kind, of) == override[i] = [kind |-> kind, of |-> of]
Chooses(i, f) == Names(i, "CONFLICT_RESOLUTION", f)

\* About to record it.
Recording(kind, of) ==
    \E a \in Actor : action[a].at = "logging" /\ action[a].kind = kind /\ action[a].of = of

\* Whoever settles and undoes at once: a conflict that stands resolved has its
\* choice in an override not undone, or in a request about to record it, unless
\* the request that wrote it ended in between.
ChoiceIsAnswered ==
    conflict.status = "RESOLVED" =>
        \/ \E i \in (1 .. Len(override)) \ undone : Chooses(i, conflict.chosen)
        \/ Recording("CONFLICT_RESOLUTION", conflict.chosen)
        \/ conflict.chosen \in lost

\* ... and so has a fact added by hand.
FactIsAnswered ==
    \A m \in manual :
        \/ \E i \in 1 .. Len(override) : Names(i, "MANUAL_EVIDENCE", m)
        \/ Recording("MANUAL_EVIDENCE", m)
        \/ m \in lost

Idle == \A a \in Actor : action[a] = NoAction

\* "desfazer sem apagar historico": after requests one at a time, none of which
\* died halfway through an undo, an open conflict has no override left, and a
\* resolved one has exactly one, or none if it was never recorded.
UndoIsComplete ==
    Idle /\ ~overlapped /\ "reopened" \notin perished =>
        LET active == {i \in (1 .. Len(override)) \ undone :
                            override[i].kind = "CONFLICT_RESOLUTION"}
        IN  /\ conflict.status = "OPEN" => active = {}
            /\ conflict.status = "RESOLVED" =>
                    \/ \E i \in active : active = {i}
                    \/ active = {} /\ conflict.chosen \in lost

\* A case resolved last by a request that had it for itself, whatever went before,
\* follows the newest correction that stands, and rests on the facts whose override
\* was not undone.
ResolvedAsDecided ==
    Idle /\ ~crowded /\ current =>
        /\ resolution.by # 0 => ActiveCorrection(resolution.by)
        /\ resolution.by = 0 => \A i \in 1 .. Len(override) : ~ActiveCorrection(i)
        /\ resolution.uses = Usable

\* The log answers for what stands: every choice and every fact is in it, an undo
\* leaves nothing of what it undoes, and the resolution follows what is left.
LogAnswers == ChoiceIsAnswered /\ FactIsAnswered /\ UndoIsComplete /\ ResolvedAsDecided

\* "Resolucao gera evento para heuristica e metricas" (TASK-AT-226): where no request
\* died before it could, whoever resolved a conflict has left an event of it.
ResolutionLeavesEvent ==
    Idle /\ conflict.status = "RESOLVED" /\ "logging" \notin perished =>
        \E i \in 1 .. Len(override) : Chooses(i, conflict.chosen)
=============================================================================
