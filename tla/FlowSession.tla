------------------------------ MODULE FlowSession ------------------------------
(***************************************************************************)
(* Sessions of one published version of a service flow                     *)
(* (services/api/src/core/service-flows/service-flows.service.ts).  An     *)
(* attendant walks the graph from its start: answering a step materialises *)
(* the next one, a loop reopens an old one, a rewind goes back and discards*)
(* what followed or has it confirmed again.  A request reads the session   *)
(* and the steps it is about, and then writes in one transaction; the same *)
(* attendant may have the session open in several tabs.                    *)
(*                                                                         *)
(* Answers, notes and choices are abstracted to the transition taken; the  *)
(* required facts of a step and the condition of a transition to facts     *)
(* that must be known.  Sessions without a version (legacy) are left out.  *)
(***************************************************************************)
EXTENDS Naturals, FiniteSets

CONSTANTS
    Session,        \* ServiceFlowSession ids
    Worked,         \* bound: the sessions requests are about; the others only
                    \* serve as what a restart creates
    AfterRace,      \* bound: FALSE ends the work on a session once requests have
                    \* crossed in it, of which little is claimed
    NoSession,      \* no session
    Tab,            \* bound: requests in flight
    Node,           \* node keys of the version
    StartNode,      \* the START node
    Terminal,       \* terminal nodes
    Edge,           \* transitions: from, to, loop (allowLoop)
    Needs,          \* requiredFacts, by node
    Fact            \* keys of the case data

ASSUME SessionAssumption ==
    /\ NoSession \notin Session /\ Worked \subseteq Session /\ AfterRace \in BOOLEAN
    /\ IsFiniteSet(Node) /\ StartNode \in Node /\ Terminal \subseteq Node
    /\ Edge \subseteq [from : Node, to : Node, loop : BOOLEAN]
    /\ \A e \in Edge : e.from \notin Terminal
    /\ Needs \in [Node -> SUBSET Fact]

VARIABLES
    session,        \* ServiceFlowSession.status
    step,           \* ServiceFlowSessionStep rows, by session and node
    facts,          \* caseDataJson: the facts that are known
    restartOf,      \* observation: the session each one restarts
    inFlight,       \* requests in flight
    via,            \* observation: the step from which each was reached last
    raced,          \* observation: a request wrote on a session that had changed
                    \* since it read it
    looped          \* observation: a loop was taken

sessionVars == <<session, step, facts, restartOf, inFlight, via, raced, looped>>

SessionStatus == {"OPEN", "RESTARTED", "COMPLETED"}
StepStatus == {"PENDING", "DONE", "RECONFIRMATION_REQUIRED"}
NoStep == [status |-> "NONE", order |-> 0]
StepRow == [status : StepStatus, order : Nat] \cup {NoStep}

\* What a request will write on what it read: an answer goes `along' an edge,
\* `found' says whether the row it goes to was there; `order' is the target's.
RequestRow ==
    [op : {"answer", "finish", "reopen", "facts", "discard", "reconfirm", "restart",
           "complete"},
     on : Session, node : Node, along : Edge \cup {NoSession}, found : BOOLEAN,
     order : Nat, facts : SUBSET Fact, fresh : BOOLEAN]
Nothing == [op |-> "none"]

Materialised(s) == {n \in Node : step[s][n] # NoStep}
StepAfter(s, n) == {m \in Materialised(s) : step[s][m].order > step[s][n].order}
\* The steps right after one; two may have the same order.
Following(s, n) == {m \in StepAfter(s, n) : \A k \in StepAfter(s, n) : step[s][m].order <= step[s][k].order}

Outgoing(n) == {e \in Edge : e.from = n}

-----------------------------------------------------------------------------

SessionInit ==
    /\ session = [s \in Session |-> "NONE"]
    /\ step = [s \in Session |-> [n \in Node |-> NoStep]]
    /\ facts = [s \in Session |-> {}]
    /\ restartOf = [s \in Session |-> NoSession]
    /\ inFlight = [t \in Tab |-> Nothing]
    /\ via = [s \in Session |-> [n \in Node |-> StartNode]]
    /\ raced = [s \in Session |-> FALSE]
    /\ looped = [s \in Session |-> FALSE]

\* Mutant of FirstSteps: a step begins with the status of a session.
FirstStepsOpen(e) ==
    [n \in Node |-> CASE n = StartNode -> [status |-> "DONE", order |-> 0]
                      [] n = e.to /\ n # StartNode -> [status |-> "OPEN", order |-> 1]
                      [] OTHER -> NoStep]

\* The start is done, and the target of its first transition pending.
FirstSteps(e) ==
    [n \in Node |-> CASE n = StartNode -> [status |-> "DONE", order |-> 0]
                      [] n = e.to /\ n # StartNode -> [status |-> "PENDING", order |-> 1]
                      [] OTHER -> NoStep]

\* createServiceFlowSession
StartSession(s) ==
    /\ session[s] = "NONE"
    /\ session' = [session EXCEPT ![s] = "OPEN"]
    /\ \E e \in Outgoing(StartNode) : step' = [step EXCEPT ![s] = FirstSteps(e)]
    /\ UNCHANGED <<facts, restartOf, inFlight, via, raced, looped>>

-----------------------------------------------------------------------------
(* What a request reads and checks.                                        *)

Asks(t, op, s, n, along, found, order, known) ==
    /\ inFlight[t] = Nothing
    /\ raced[s] => AfterRace
    /\ inFlight' = [inFlight EXCEPT ![t] =
                    [op |-> op, on |-> s, node |-> n, along |-> along, found |-> found,
                     order |-> order, facts |-> known, fresh |-> TRUE]]
    /\ UNCHANGED <<session, step, facts, restartOf, via, raced, looped>>

\* Mutant of IsOpen: the status is not looked at.
IsOpenOrNot(s) == session[s] # "NONE"

IsOpen(s) == session[s] = "OPEN"

\* Mutant of Unvisited: a step that follows is overlooked.
UnvisitedYet(s, e) == e.to \notin Materialised(s)

Unvisited(s, e) == StepAfter(s, e.from) = {} /\ e.to \notin Materialised(s)

\* updateServiceFlowSessionStep, DONE, along a transition: a loop goes back to
\* its target; another goes to the step that follows, or to one not visited.
ReadAnswer(t, s, e) ==
    /\ IsOpen(s)
    /\ e.from \in Materialised(s)
    /\ Needs[e.from] \subseteq facts[s]
    /\ \/ /\ e.loop
          /\ Asks(t, "answer", s, e.from, e, e.to \in Materialised(s), 0, {})
       \/ /\ ~e.loop
          /\ \/ /\ Unvisited(s, e)
                /\ Asks(t, "answer", s, e.from, e, FALSE, 0, {})
             \/ /\ e.to \in Following(s, e.from)
                /\ Asks(t, "answer", s, e.from, e, TRUE, 0, {})

\* ... of a step nothing goes out of, and back to PENDING.
ReadFinish(t, s, n) ==
    /\ IsOpen(s) /\ n \in Materialised(s)
    /\ Outgoing(n) = {}
    /\ Needs[n] \subseteq facts[s]
    /\ Asks(t, "finish", s, n, NoSession, TRUE, 0, {})

ReadReopen(t, s, n) ==
    /\ IsOpen(s) /\ n \in Materialised(s)
    /\ Asks(t, "reopen", s, n, NoSession, TRUE, 0, {})

\* updateServiceFlowSessionCaseData: the values given merged into those read.
ReadFacts(t, s, known) ==
    /\ IsOpen(s)
    /\ Asks(t, "facts", s, StartNode, NoSession, TRUE, 0, known)

\* rewindServiceFlowSessionStep
ReadRewind(t, s, n, strategy) ==
    /\ IsOpen(s) /\ n \in Materialised(s)
    /\ Asks(t, strategy, s, n, NoSession, TRUE, step[s][n].order, {})

ReadRestart(t, s) ==
    /\ IsOpen(s)
    /\ Asks(t, "restart", s, StartNode, NoSession, TRUE, 0, {})

Completable(s) ==
    /\ \A n \in Materialised(s) : step[s][n].status \notin {"PENDING", "RECONFIRMATION_REQUIRED"}
    /\ \E n \in Terminal : step[s][n].status = "DONE"

ReadComplete(t, s) ==
    /\ IsOpen(s)
    /\ Completable(s)
    /\ Asks(t, "complete", s, StartNode, NoSession, TRUE, 0, {})

-----------------------------------------------------------------------------
(* What it writes.                                                         *)

\* The request ends; what the others had read of the session is out of date.
Answers(t, s) ==
    /\ inFlight' = [u \in Tab |->
                    IF u = t \/ inFlight[u] = Nothing THEN Nothing
                    ELSE IF inFlight[u].on # s THEN inFlight[u]
                    ELSE [op |-> inFlight[u].op, on |-> s, node |-> inFlight[u].node,
                          along |-> inFlight[u].along, found |-> inFlight[u].found,
                          order |-> inFlight[u].order, facts |-> inFlight[u].facts,
                          fresh |-> FALSE]]
    /\ raced' = [raced EXCEPT ![s] = raced[s] \/ ~inFlight[t].fresh]

\* An error ends it: a row is gone, or one with that key is there.
Refused(t) ==
    /\ inFlight' = [inFlight EXCEPT ![t] = Nothing]
    /\ UNCHANGED <<session, step, facts, restartOf, via, raced, looped>>

Sets(s, n, status) == [step[s] EXCEPT ![n] = [status |-> status, order |-> step[s][n].order]]

\* The count is taken inside the transaction.
WithNext(s, n, m) ==
    [Sets(s, n, "DONE") EXCEPT ![m] = [status |-> "PENDING", order |-> Cardinality(Materialised(s))]]

WriteAnswer(t) ==
    /\ inFlight[t].op = "answer"
    /\ LET r == inFlight[t]
           s == r.on
           m == r.along.to
       IN  \/ /\ r.node \in Materialised(s)
              /\ \/ /\ r.along.loop /\ r.found /\ m \in Materialised(s)
                    /\ step' = [step EXCEPT ![s] = WithNext(s, r.node, m)]
                 \/ /\ ~r.found /\ m \notin Materialised(s)
                    /\ step' = [step EXCEPT ![s] = WithNext(s, r.node, m)]
                 \/ /\ ~r.along.loop /\ r.found
                    /\ step' = [step EXCEPT ![s] = Sets(s, r.node, "DONE")]
              /\ looped' = [looped EXCEPT ![s] = looped[s] \/ r.along.loop]
              /\ via' = [via EXCEPT ![s][m] = r.node]
              /\ Answers(t, s)
              /\ UNCHANGED <<session, facts, restartOf>>
           \/ /\ \/ r.node \notin Materialised(s)
                 \/ r.along.loop /\ r.found /\ m \notin Materialised(s)
                 \/ ~r.found /\ m \in Materialised(s)
              /\ Refused(t)

WriteStatus(t, op, status) ==
    /\ inFlight[t].op = op
    /\ LET r == inFlight[t]
       IN  \/ /\ r.node \in Materialised(r.on)
              /\ step' = [step EXCEPT ![r.on] = Sets(r.on, r.node, status)]
              /\ Answers(t, r.on)
              /\ UNCHANGED <<session, facts, restartOf, via, looped>>
           \/ /\ r.node \notin Materialised(r.on)
              /\ Refused(t)

WriteFinish(t) == WriteStatus(t, "finish", "DONE")
WriteReopen(t) == WriteStatus(t, "reopen", "PENDING")

WriteFacts(t) ==
    /\ inFlight[t].op = "facts"
    /\ LET s == inFlight[t].on
       IN  /\ facts' = [facts EXCEPT ![s] = inFlight[t].facts]
           /\ Answers(t, s)
    /\ UNCHANGED <<session, step, restartOf, via, looped>>

\* By the order the target had when it was read.
Later(s, m, order) == step[s][m] # NoStep /\ step[s][m].order > order

WriteRewind(t) ==
    /\ inFlight[t].op \in {"discard", "reconfirm"}
    /\ LET r == inFlight[t]
           s == r.on
       IN  \/ /\ r.node \in Materialised(s)
              /\ step' = [step EXCEPT ![s] =
                    [m \in Node |->
                        IF Later(s, m, r.order)
                        THEN IF r.op = "discard" THEN NoStep
                             ELSE [status |-> "RECONFIRMATION_REQUIRED", order |-> step[s][m].order]
                        ELSE IF m = r.node THEN [status |-> "PENDING", order |-> step[s][m].order]
                        ELSE step[s][m]]]
              /\ via' = [via EXCEPT ![s] =
                    [m \in Node |-> IF r.op = "discard" /\ Later(s, m, r.order)
                                    THEN StartNode ELSE via[s][m]]]
              /\ Answers(t, s)
              /\ UNCHANGED <<session, facts, restartOf, looped>>
           \/ /\ r.node \notin Materialised(s)
              /\ Refused(t)

Restartable(s) == IsOpen(s)

\* One transaction: the old session is closed if it is still open, and a new
\* one on the same version created.
WriteRestart(t, new) ==
    /\ inFlight[t].op = "restart"
    /\ session[new] = "NONE"
    /\ LET s == inFlight[t].on
       IN  \/ /\ Restartable(s)
              /\ session' = [session EXCEPT ![s] = "RESTARTED", ![new] = "OPEN"]
              /\ \E e \in Outgoing(StartNode) : step' = [step EXCEPT ![new] = FirstSteps(e)]
              /\ restartOf' = [restartOf EXCEPT ![new] = s]
              /\ Answers(t, s)
              /\ UNCHANGED <<facts, via, looped>>
           \/ /\ ~Restartable(s)
              /\ Refused(t)

WriteComplete(t) ==
    /\ inFlight[t].op = "complete"
    /\ LET s == inFlight[t].on
       IN  /\ session' = [session EXCEPT ![s] = "COMPLETED"]
           /\ Answers(t, s)
    /\ UNCHANGED <<step, facts, restartOf, via, looped>>

\* The process dies before the write.
LoseRequest(t) ==
    /\ inFlight[t] # Nothing
    /\ Refused(t)

SessionNext ==
    \/ \E s \in Worked : StartSession(s)
    \/ \E t \in Tab, s \in Worked :
          \/ \E e \in Edge : ReadAnswer(t, s, e)
          \/ \E n \in Node :
                \/ ReadFinish(t, s, n)
                \/ ReadReopen(t, s, n)
                \/ ReadRewind(t, s, n, "discard")
                \/ ReadRewind(t, s, n, "reconfirm")
          \/ \E known \in SUBSET Fact : ReadFacts(t, s, known)
          \/ ReadRestart(t, s)
          \/ ReadComplete(t, s)
    \/ \E t \in Tab :
          \/ WriteAnswer(t) \/ WriteFinish(t) \/ WriteReopen(t) \/ WriteFacts(t)
          \/ WriteRewind(t) \/ WriteComplete(t)
          \/ LoseRequest(t)
          \/ \E new \in Session \ Worked : WriteRestart(t, new)

SessionSpec == SessionInit /\ [][SessionNext]_sessionVars

-----------------------------------------------------------------------------
(* Properties                                                              *)

\* The rows and the requests in flight have the shape the code gives them.
SessionTypeOK ==
    /\ session \in [Session -> SessionStatus \cup {"NONE"}]
    /\ step \in [Session -> [Node -> StepRow]]
    /\ facts \in [Session -> SUBSET Fact]
    /\ restartOf \in [Session -> Session \cup {NoSession}]
    /\ inFlight \in [Tab -> RequestRow \cup {Nothing}]
    /\ via \in [Session -> [Node -> Node]]
    /\ raced \in [Session -> BOOLEAN]
    /\ looped \in [Session -> BOOLEAN]

\* Whatever the tabs do at once, a session is restarted by one other at most.
RestartedOnce ==
    \A s \in Session, u \in Session :
        restartOf[s] = restartOf[u] /\ restartOf[s] # NoSession => s = u

\* A step that follows another in the walk is the target of a transition from it.
Joined(s, n, m) ==
    step[s][m].order = step[s][n].order + 1 => \E e \in Edge : e.from = n /\ e.to = m

\* As long as no requests crossed and no loop was taken, the steps of a session
\* are one walk through the graph from its start, through every answer, reopening
\* and rewind of either kind.
StepsFormWalk ==
    \A s \in Session :
        session[s] # "NONE" /\ ~raced[s] /\ ~looped[s] =>
            /\ step[s][StartNode].order = 0
            /\ \A n \in Materialised(s) : step[s][n].order < Cardinality(Materialised(s))
            /\ \A n \in Materialised(s), m \in Materialised(s) :
                    /\ step[s][n].order = step[s][m].order => n = m
                    /\ Joined(s, n, m)

\* Loops or none, a completed session whose requests did not cross has every
\* step done and confirmed, a terminal one among them.
CompletedIsSettled ==
    \A s \in Session :
        session[s] = "COMPLETED" /\ ~raced[s] =>
            /\ \A n \in Materialised(s) : step[s][n].status = "DONE"
            /\ \E n \in Terminal : step[s][n].status = "DONE"

\* A session is well formed and one walk, ended at its end, and continued by one
\* other.
SessionIsWalk == SessionTypeOK /\ RestartedOnce /\ StepsFormWalk /\ CompletedIsSettled

\* "Sessao finalizada e imutavel": a session that is closed changes only by a
\* request that had read it open.
ClosedUnlessRaced ==
    [][\A s \in Session :
        session[s] \in {"COMPLETED", "RESTARTED"} =>
            \/ session'[s] = session[s] /\ step'[s] = step[s] /\ facts'[s] = facts[s]
            \/ raced'[s]]_sessionVars

\* What a rewind with discard leaves of the path that went on from the step.
Remains(t) ==
    LET s == inFlight[t].on
    IN  {m \in Node \ {inFlight[t].node} : step'[s][m] # NoStep /\ via[s][m] = inFlight[t].node}

Discards(t) ==
    /\ inFlight[t] # Nothing
    /\ inFlight[t].op = "discard" /\ inFlight[t].fresh
    /\ inFlight'[t] = Nothing
    /\ step' # step

\* "remover passos posteriores materializados": after a rewind that discards, no
\* step is left that was reached from the step rewound to.
DiscardLeavesNothing ==
    [][\A t \in Tab : Discards(t) => Remains(t) = {}]_sessionVars

\* ... which holds as long as no loop was taken and no requests crossed.
DiscardLeavesNothingUnlessLooped ==
    [][\A t \in Tab :
        Discards(t) /\ ~looped[inFlight[t].on] /\ ~raced[inFlight[t].on] => Remains(t) = {}]_sessionVars

\* A request disturbs no session that was closed, and a rewind leaves no step of
\* what it discards.
SessionsEndCleanly == ClosedUnlessRaced /\ DiscardLeavesNothingUnlessLooped
=============================================================================
