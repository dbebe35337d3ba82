---------------------------- MODULE FlowPublishing ----------------------------
(***************************************************************************)
(* One service flow under its editors (services/api/src/core/service-flows/*)
(* service-flows.service.ts): it is edited, published, archived, and an    *)
(* older version restored, while attendants start sessions on the latest   *)
(* published version.  Every edit reads the flow, writes it back with the  *)
(* version it read plus one, replaces the steps one by one, and then       *)
(* records a revision and, for a published flow, a version: transactions   *)
(* of their own, each of which may be the last of a request.               *)
(*                                                                         *)
(* What a flow says is a member of Graph, drawn (draftGraphJson) or told   *)
(* by its list of steps; a list that is being replaced is Partial.         *)
(***************************************************************************)
EXTENDS Naturals

CONSTANTS
    Editor,         \* bound: edits under way
    Graph,          \* contents a flow may have
    NoGraph,        \* draftGraphJson = null, no version or no revision
    Partial,        \* steps deleted and not all created again
    MaxVersion      \* bound: versions of the flow

ASSUME FlowAssumption ==
    /\ NoGraph \notin Graph /\ Partial \notin Graph /\ NoGraph # Partial
    /\ MaxVersion \in Nat \ {0}

VARIABLES
    flow,           \* the ServiceFlow row and its ServiceFlowStep rows
    versions,       \* ServiceFlowVersion rows, by number
    revision,       \* ServiceFlowRevision rows, by number: a whole snapshot or not
    edit,           \* edits under way
    disturbed       \* observation: two edits overlapped, or one did not end

flowVars == <<flow, versions, revision, edit, disturbed>>

Number == 1 .. MaxVersion
Content == Graph \cup {Partial}
FlowStatus == {"DRAFT", "PUBLISHED", "ARCHIVED"}
Flow == [status : FlowStatus, version : Nat, draft : Content \cup {NoGraph}, steps : Content]

\* `number' is the version an edit read, and later the one it publishes;
\* `status' the one the flow is to have, which the edit `keeps' or gives anew;
\* `draws' the graph it gives, `tells' the steps, `content' what to publish.
\* What has been written is forgotten.
EditRow ==
    [at : {"read", "written", "cleared", "filled", "revised", "issuing"},
     number : Nat, status : FlowStatus, keeps : BOOLEAN, draws : Content \cup {NoGraph},
     tells : Graph \cup {NoGraph}, content : Content \cup {NoGraph}]
NoEdit == [at |-> "idle"]

\* createPublishedVersion: the drawn graph, or the steps in a line.
Says(f) == IF f.draft # NoGraph THEN f.draft ELSE f.steps

Reads(e, status, keeps, draws, tells, content) ==
    edit' = [edit EXCEPT ![e] = [at |-> "read", number |-> flow.version, status |-> status,
                                 keeps |-> keeps, draws |-> draws, tells |-> tells,
                                 content |-> content]]
Advance(e, at, number, tells, content) ==
    edit' = [edit EXCEPT ![e] = [at |-> at, number |-> number,
                                 status |-> IF edit[e].status = "PUBLISHED" THEN "PUBLISHED"
                                            ELSE "DRAFT",
                                 keeps |-> FALSE, draws |-> NoGraph, tells |-> tells,
                                 content |-> content]]
Closes(e) == edit' = [edit EXCEPT ![e] = NoEdit]

-----------------------------------------------------------------------------

FlowInit ==
    /\ \E steps \in Graph :
            flow = [status |-> "DRAFT", version |-> 1, draft |-> NoGraph, steps |-> steps]
    /\ revision = [v \in Number |-> IF v = 1 THEN "whole" ELSE "none"]
    /\ versions = [v \in Number |-> NoGraph]
    /\ edit = [e \in Editor |-> NoEdit]
    /\ disturbed = FALSE

Overlaps(e) == \E f \in Editor \ {e} : edit[f] # NoEdit

\* An edit reads the flow.
Begin(e) ==
    /\ edit[e] = NoEdit
    /\ flow.version < MaxVersion
    /\ disturbed' = (disturbed \/ Overlaps(e))
    /\ UNCHANGED <<flow, versions, revision>>

\* updateServiceFlow, with or without a status, and a graph or steps in the
\* input, not both (a bound).
BeginUpdate(e) ==
    /\ \E draws \in Graph \cup {NoGraph}, tells \in Graph \cup {NoGraph} :
            /\ draws = NoGraph \/ tells = NoGraph
            /\ \/ \E status \in FlowStatus : Reads(e, status, FALSE, draws, tells, NoGraph)
               \/ Reads(e, flow.status, TRUE, draws, tells, NoGraph)
    /\ Begin(e)

BeginPublish(e) == Reads(e, "PUBLISHED", FALSE, NoGraph, NoGraph, NoGraph) /\ Begin(e)

BeginArchive(e) == Reads(e, "ARCHIVED", FALSE, NoGraph, NoGraph, NoGraph) /\ Begin(e)

\* restoreServiceFlowVersion: of a version that was published.
BeginRestore(e) ==
    /\ \E v \in Number :
            /\ versions[v] # NoGraph
            /\ Reads(e, "PUBLISHED", FALSE, versions[v], NoGraph, versions[v])
    /\ Begin(e)

\* The version as read, plus one.
NextNumber(e) == edit[e].number + 1

WriteFlow(e) ==
    /\ edit[e].at = "read"
    /\ LET r == edit[e]
       IN  flow' = [status |-> IF r.keeps THEN flow.status ELSE r.status, version |-> NextNumber(e),
                    draft |-> IF r.draws # NoGraph THEN r.draws ELSE flow.draft,
                    steps |-> flow.steps]
    /\ Advance(e, IF edit[e].tells # NoGraph THEN "written" ELSE "filled", 0,
               edit[e].tells, edit[e].content)
    /\ UNCHANGED <<versions, revision, disturbed>>

\* replaceSteps
ClearSteps(e) ==
    /\ edit[e].at = "written"
    /\ flow' = [status |-> flow.status, version |-> flow.version, draft |-> flow.draft,
                steps |-> Partial]
    /\ Advance(e, "cleared", 0, edit[e].tells, edit[e].content)
    /\ UNCHANGED <<versions, revision, disturbed>>

NewSteps(e) == edit[e].tells

FillSteps(e) ==
    /\ edit[e].at = "cleared"
    /\ flow' = [status |-> flow.status, version |-> flow.version, draft |-> flow.draft,
                steps |-> NewSteps(e)]
    /\ Advance(e, "filled", 0, NoGraph, edit[e].content)
    /\ UNCHANGED <<versions, revision, disturbed>>

\* Mutant of Revise: drafts leave no revision.
ReviseIfPublished(e) ==
    /\ edit[e].at = "filled"
    /\ \/ /\ edit[e].status = "PUBLISHED"
          /\ revision' = [revision EXCEPT ![flow.version] = "whole"]
          /\ Advance(e, "revised", 0, NoGraph, edit[e].content)
       \/ /\ edit[e].status # "PUBLISHED"
          /\ Closes(e)
          /\ UNCHANGED revision
    /\ UNCHANGED <<flow, versions, disturbed>>

\* createFlowRevision: reads the flow again; one revision for each version.
Revise(e) ==
    /\ edit[e].at = "filled"
    /\ revision' = [revision EXCEPT ![flow.version] =
                        IF flow.steps = Partial THEN "partial" ELSE "whole"]
    /\ IF edit[e].status = "PUBLISHED"
       THEN Advance(e, "revised", 0, NoGraph, edit[e].content)
       ELSE Closes(e)
    /\ UNCHANGED <<flow, versions, disturbed>>

\* Mutant of Unissued: the number is not looked up.
UnissuedOrNot(v) == TRUE

Unissued(v) == versions[v] = NoGraph

\* createPublishedVersion: reads the flow again, and keeps a version it finds.
LookUpVersion(e) ==
    /\ edit[e].at = "revised"
    /\ IF Unissued(flow.version)
       THEN Advance(e, "issuing", flow.version, NoGraph,
                    IF edit[e].content # NoGraph THEN edit[e].content ELSE Says(flow))
       ELSE Closes(e)
    /\ UNCHANGED <<flow, versions, revision, disturbed>>

\* One transaction; @@unique([flowId, version]) refuses a number taken since.
IssueVersion(e) ==
    /\ edit[e].at = "issuing"
    /\ IF Unissued(edit[e].number)
       THEN versions' = [versions EXCEPT ![edit[e].number] = edit[e].content]
       ELSE UNCHANGED versions
    /\ Closes(e)
    /\ UNCHANGED <<flow, revision, disturbed>>

\* A request ends early: an unknown script among the steps, an error, a death.
Break(e) ==
    /\ edit[e] # NoEdit
    /\ Closes(e)
    /\ disturbed' = TRUE
    /\ UNCHANGED <<flow, versions, revision>>

FlowNext ==
    \E e \in Editor :
        \/ BeginUpdate(e) \/ BeginPublish(e) \/ BeginArchive(e) \/ BeginRestore(e)
        \/ WriteFlow(e) \/ ClearSteps(e) \/ FillSteps(e) \/ Revise(e)
        \/ LookUpVersion(e) \/ IssueVersion(e) \/ Break(e)

FlowSpec == FlowInit /\ [][FlowNext]_flowVars

-----------------------------------------------------------------------------
(* Properties                                                              *)

\* The rows and the edits under way have the shape the code gives them.
FlowTypeOK ==
    /\ flow \in Flow
    /\ flow.version \in Number
    /\ versions \in [Number -> Content \cup {NoGraph}]
    /\ revision \in [Number -> {"none", "partial", "whole"}]
    /\ edit \in [Editor -> EditRow \cup {NoEdit}]
    /\ disturbed \in BOOLEAN

\* createServiceFlowSession takes the version with the highest number.
Latest(v) == versions[v] # NoGraph /\ \A w \in Number : versions[w] # NoGraph => w <= v

\* As long as no edit overlapped another or broke off, a published flow that is
\* not being edited is served as it stands: its latest version says what it says.
PublishedIsServed ==
    flow.status = "PUBLISHED" /\ ~disturbed /\ (\A e \in Editor : edit[e] = NoEdit) =>
        \E v \in Number : Latest(v) /\ versions[v] = Says(flow)

\* ... no version was made of steps half replaced, and none is missing from
\* the history of revisions.
HistoryIsWhole ==
    ~disturbed /\ (\A e \in Editor : edit[e] = NoEdit) =>
        /\ \A v \in Number : versions[v] # Partial
        /\ \A v \in 1 .. flow.version : revision[v] = "whole"

\* A flow is well formed, and edits that are alone are complete, for sessions and in
\* the history.
EditsAreWhole == FlowTypeOK /\ PublishedIsServed /\ HistoryIsWhole

\* "fluxo publicado e imutavel": whatever overlaps, a version in which sessions
\* are under way neither changes nor vanishes.
VersionsStand ==
    [][\A v \in Number : versions[v] # NoGraph => versions'[v] = versions[v]]_flowVars
=============================================================================
