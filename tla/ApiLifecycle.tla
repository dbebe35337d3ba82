----------------------------- MODULE ApiLifecycle -----------------------------
(***************************************************************************)
(* Start, drain and stop of the API process                                *)
(* (services/api/src/runtime/api-lifecycle.ts).  A first signal closes the *)
(* gate to new requests and starts the shutdown: the resources that make   *)
(* work are closed one after the other, then the HTTP server, then Redis   *)
(* and the database.  Each gets what is left of one time budget, at least  *)
(* an instant; what does not close in time is left behind as a failure,    *)
(* but the server, whose connections are cut.                              *)
(*                                                                         *)
(* The timer of the budget does not keep the process alive (timer.unref):  *)
(* once the server is closed, a process with no open handle ends where it  *)
(* is, in the middle of its shutdown and with the exit code 0.             *)
(*                                                                         *)
(* A handler whose connection is gone still runs: it is an orphan.         *)
(***************************************************************************)
EXTENDS Naturals, Sequences

CONSTANTS
    Connection,     \* bound: connections to the server
    Front,          \* resources of kind jobs and websocket, in order
    Back,           \* resources of kind redis and prisma, in order: prisma is last
    Server          \* the HTTP server, as an item of the shutdown

Listed(list) == {list[i] : i \in DOMAIN list}

\* A resource has one kind, and the server none of them; one of kind redis or prisma
\* is listed once.
ASSUME LifecycleAssumption ==
    /\ Front \in Seq(Listed(Front)) /\ Back \in Seq(Listed(Back))
    /\ \A i, k \in DOMAIN Back : Back[i] = Back[k] => i = k
    /\ Listed(Front) \cap Listed(Back) = {}
    /\ Server \notin Listed(Front) \cup Listed(Back)

VARIABLES
    draining,       \* state.draining
    turn,           \* what the shutdown is at: 0 before it, Len(Plan) + 1 after
    listening,      \* the server takes connections
    socket,         \* its connections, and the handlers of those lost
    closed,         \* resources closed
    failed,         \* failures: resources left behind
    cut,            \* timedOut: connections were cut
    exitCode,       \* set by the signal handler
    holds,          \* resources with an open handle for as long as they are not closed
    stopped         \* the process ended before its shutdown did

loop == <<holds, stopped>>

lifecycleVars ==
    <<draining, turn, listening, socket, closed, failed, cut, exitCode, holds, stopped>>

\* Mutant of Plan: the database goes before the server.
PlanBackFirst == Front \o Back \o <<Server>>

\* The order of the shutdown.
Plan == Front \o <<Server>> \o Back

Resources == {Plan[i] : i \in DOMAIN Plan} \ {Server}
Over == turn = Len(Plan) + 1
ClosingServer == turn \in DOMAIN Plan /\ Plan[turn] = Server
ClosingResource == turn \in DOMAIN Plan /\ Plan[turn] # Server

-----------------------------------------------------------------------------

LifecycleInit ==
    /\ draining = FALSE
    /\ turn = 0
    /\ listening = TRUE
    /\ socket = [c \in Connection |-> "none"]
    /\ closed = {} /\ failed = {} /\ cut = FALSE
    /\ exitCode = 0
    /\ holds \in SUBSET Resources
    /\ stopped = FALSE

Links(c, s) ==
    /\ socket' = [socket EXCEPT ![c] = s]
    /\ UNCHANGED <<draining, turn, listening, closed, failed, cut, exitCode, loop>>

Connect(c) ==
    /\ listening /\ socket[c] = "none"
    /\ Links(c, "idle")

\* The gate: a request that comes while draining is refused, and its
\* connection closed.
Ask(c) ==
    /\ socket[c] = "idle"
    /\ Links(c, IF draining THEN "none" ELSE "running")

\* The handler answers; the connection is kept or not.
Answer(c) ==
    /\ socket[c] = "running"
    /\ \E s \in {"idle", "none"} : Links(c, s)

\* GET /health/ready: while draining, the answer needs no dependency.
Probe(c) ==
    /\ socket[c] = "idle"
    /\ Links(c, IF draining THEN "idle" ELSE "probing")

AnswerProbe(c) ==
    /\ socket[c] = "probing"
    /\ Links(c, "idle")

\* The client goes away, or the keep-alive time of an idle connection is over.
Leave(c) ==
    /\ socket[c] \in {"idle", "running", "probing"}
    /\ Links(c, IF socket[c] = "running" THEN "orphan" ELSE "none")

EndOrphan(c) ==
    /\ socket[c] = "orphan"
    /\ Links(c, "none")

-----------------------------------------------------------------------------
(* Shutdown.                                                               *)

\* SIGINT or SIGTERM; another one joins the shutdown that has begun.
Signal ==
    /\ turn = 0
    /\ draining' = TRUE
    /\ turn' = 1
    /\ UNCHANGED <<listening, socket, closed, failed, cut, exitCode, loop>>

CloseResource ==
    /\ ClosingResource
    /\ closed' = closed \cup {Plan[turn]}
    /\ turn' = turn + 1
    /\ UNCHANGED <<draining, listening, socket, failed, cut, exitCode, loop>>

Failing(r) == failed \cup {r}

\* It throws, or what is left of the budget is over while something keeps the
\* process alive.
FailResource ==
    /\ ClosingResource
    /\ failed' = Failing(Plan[turn])
    /\ turn' = turn + 1
    /\ UNCHANGED <<draining, listening, socket, closed, cut, exitCode, loop>>

\* A resource that was not waited for closes after all.
CloseLate(r) ==
    /\ r \in failed /\ turn > 0
    /\ closed' = closed \cup {r}
    /\ UNCHANGED <<draining, turn, listening, socket, failed, cut, exitCode, loop>>

\* server.close: no new connection, and the idle ones are closed.
StopListening ==
    /\ ClosingServer /\ listening
    /\ listening' = FALSE
    /\ socket' = [c \in Connection |-> IF socket[c] = "idle" THEN "none" ELSE socket[c]]
    /\ UNCHANGED <<draining, turn, closed, failed, cut, exitCode, loop>>

Connected(c) == socket[c] \in {"idle", "running", "probing"}

\* Mutant of Severed: connections at work are left alone.
SeveredIfIdle(c) == IF socket[c] \in {"idle", "probing"} THEN "none" ELSE socket[c]

Severed(c) ==
    IF socket[c] \in {"idle", "probing"} THEN "none"
    ELSE IF socket[c] = "running" THEN "orphan"
    ELSE socket[c]

\* The budget is over: closeAllConnections.
CutConnections ==
    /\ ClosingServer /\ ~listening /\ ~cut
    /\ cut' = TRUE
    /\ socket' = [c \in Connection |-> Severed(c)]
    /\ UNCHANGED <<draining, turn, listening, closed, failed, exitCode, loop>>

Quiet == \A c \in Connection : ~Connected(c)

\* The server calls back once its last connection is gone; this is waited for,
\* however long.
ServerClosed ==
    /\ ClosingServer /\ ~listening /\ Quiet
    /\ turn' = turn + 1
    /\ UNCHANGED <<draining, listening, socket, closed, failed, cut, exitCode, loop>>

Completed == ~cut /\ failed = {}

\* The handler of the signal learns the result.
Report ==
    /\ Over /\ ~Completed /\ exitCode = 0
    /\ exitCode' = 1
    /\ UNCHANGED <<draining, turn, listening, socket, closed, failed, cut, loop>>

\* Behind the closed server a resource is waited for that does not answer, and
\* nothing that is left has an open handle: the event loop is empty before the timer
\* fires.  A handler without a connection may keep it turning, or not.
RunsOut ==
    /\ ClosingResource /\ ~listening
    /\ holds \subseteq closed
    /\ stopped' = TRUE
    /\ UNCHANGED <<draining, turn, listening, socket, closed, failed, cut, exitCode, holds>>

LifecycleNext ==
    /\ ~stopped
    /\ \/ \E c \in Connection :
            \/ Connect(c) \/ Ask(c) \/ Answer(c) \/ Probe(c)
            \/ AnswerProbe(c) \/ Leave(c) \/ EndOrphan(c)
       \/ Signal \/ CloseResource \/ FailResource
       \/ \E r \in Resources : CloseLate(r)
       \/ StopListening \/ CutConnections \/ ServerClosed \/ Report \/ RunsOut

LifecycleSpec == LifecycleInit /\ [][LifecycleNext]_lifecycleVars

\* The event loop turns and its timers fire for as long as it has something to wait
\* for, and the process ends when it has not; handlers and clients owe nothing.
ShutdownGoesOn ==
    /\ ~stopped
    /\ FailResource \/ RunsOut \/ StopListening \/ CutConnections \/ ServerClosed \/ Report

LifecycleFairSpec == LifecycleSpec /\ WF_lifecycleVars(ShutdownGoesOn)

-----------------------------------------------------------------------------
(* Properties                                                              *)

\* The state has the shape the code gives it, and once the server was closed
\* nothing is connected.
LifecycleTypeOK ==
    /\ draining \in BOOLEAN /\ listening \in BOOLEAN /\ cut \in BOOLEAN
    /\ turn \in 0 .. Len(Plan) + 1
    /\ draining <=> turn > 0
    /\ (\E i \in DOMAIN Plan : Plan[i] = Server /\ turn > i) =>
            ~listening /\ \A c \in Connection : ~Connected(c)
    /\ socket \in [Connection -> {"none", "idle", "running", "probing", "orphan"}]
    /\ closed \subseteq Resources /\ failed \subseteq Resources
    /\ exitCode \in {0, 1}
    /\ holds \subseteq Resources
    /\ stopped \in BOOLEAN

\* No request that can still be answered loses the database: while a connection
\* is left, nothing behind the server is closed, whatever timed out before.
DatabaseOutlivesRequests ==
    (\E c \in Connection : Connected(c)) => \A i \in DOMAIN Back : Back[i] \notin closed

\* A shutdown that reports success closed everything and cut nobody off; any
\* other ends with exit code 1, once reported.
CompletedIsClean ==
    Over =>
        /\ Completed => closed = Resources
        /\ exitCode = 1 => ~Completed

\* A process ends before its shutdown only behind the server, with nobody connected
\* and nothing reported, at a resource that has no handle open.
LeavesNobody ==
    stopped =>
        /\ exitCode = 0 /\ ~Listed(Back) \subseteq holds
        /\ turn \in DOMAIN Plan /\ Plan[turn] \in Listed(Back)
        /\ \A c \in Connection : ~Connected(c)

\* A shutdown takes nothing from a request that is left, and reports what it did if
\* the process lasts until its end.
ShutdownIsOrderly ==
    LifecycleTypeOK /\ DatabaseOutlivesRequests /\ CompletedIsClean /\ LeavesNobody

\* A shutdown that began ends, whatever hangs: a resource that never closes, a
\* handler that never answers, a client that never leaves; and the exit code tells
\* of what was left behind.  If a resource behind the server keeps no handle open,
\* the process may instead be over in the middle of it.
ShutdownEnds ==
    draining ~> \/ Over /\ (Completed \/ exitCode = 1)
                \/ stopped /\ ~Listed(Back) \subseteq holds
=============================================================================
