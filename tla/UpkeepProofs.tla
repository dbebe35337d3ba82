---------------------------- MODULE UpkeepProofs ----------------------------
(***************************************************************************)
(* Theorems about two components that have to come to an end and share no  *)
(* state: the shutdown of the API (ApiLifecycle), for every number of      *)
(* connections and every list of resources to close before and after the   *)
(* server, and the pairing of the browser extension with its host          *)
(* (CompanionPairing).  Each has an inductive invariant, the lemmas that   *)
(* its actions preserve it, and the theorems of its specification.         *)
(***************************************************************************)
EXTENDS ApiLifecycle, CompanionPairing, SequenceTheorems, TLAPS

\* What comes when: the front, the server, the back.
LEMMA PlanOrder ==
    /\ Len(Front) \in Nat /\ Len(Back) \in Nat
    /\ Len(Plan) = Len(Front) + 1 + Len(Back)
    /\ DOMAIN Plan = 1 .. Len(Plan)
    /\ \A i \in 1 .. Len(Front) : Plan[i] \in Listed(Front)
    /\ Plan[Len(Front) + 1] = Server
    /\ \A i \in 1 .. Len(Back) : Plan[Len(Front) + 1 + i] = Back[i]
<1> DEFINE S == Listed(Front) \cup Listed(Back) \cup {Server}
           m == Front \o <<Server>>
<1>1. Front \in Seq(S) /\ Back \in Seq(S) /\ <<Server>> \in Seq(S)
  BY LifecycleAssumption
<1>2. /\ m \in Seq(S) /\ Len(m) = Len(Front) + 1
      /\ \A i \in 1 .. Len(Front) + 1 : m[i] = IF i <= Len(Front) THEN Front[i] ELSE <<Server>>[i - Len(Front)]
  <2>1. Len(<<Server>>) = 1
    OBVIOUS
  <2>2. QED
    BY <1>1, <2>1, ConcatProperties
<1>3. /\ m \o Back \in Seq(S) /\ Len(m \o Back) = Len(m) + Len(Back)
      /\ \A i \in 1 .. Len(m) + Len(Back) : (m \o Back)[i] = IF i <= Len(m) THEN m[i] ELSE Back[i - Len(m)]
  BY <1>1, <1>2, ConcatProperties
<1>4. Len(Front) \in Nat /\ Len(Back) \in Nat /\ DOMAIN Front = 1 .. Len(Front)
  BY <1>1
<1>5. Plan = m \o Back
  BY DEF Plan
<1>6. DOMAIN Plan = 1 .. Len(Plan)
  BY <1>3, <1>5
<1>7. \A i \in 1 .. Len(Front) : Plan[i] \in Listed(Front)
  <2>1. ASSUME NEW i \in 1 .. Len(Front) PROVE Plan[i] = Front[i]
    BY <1>2, <1>3, <1>4, <1>5
  <2>2. \A i \in 1 .. Len(Front) : Front[i] \in Listed(Front)
    BY <1>4 DEF Listed
  <2>3. QED
    BY <2>1, <2>2
<1>8. Plan[Len(Front) + 1] = Server
  BY <1>2, <1>3, <1>4, <1>5
<1>9. \A i \in 1 .. Len(Back) : Plan[Len(Front) + 1 + i] = Back[i]
  BY <1>2, <1>3, <1>4, <1>5
<1>10. QED
  BY <1>2, <1>3, <1>4, <1>5, <1>6, <1>7, <1>8, <1>9

\* The resources whose turn is over.
Behind == {Plan[i] : i \in {k \in DOMAIN Plan : k < turn}} \ {Server}

\* A resource has been closed, or has failed to close, when its turn is over and
\* not before; the process reports failure only of a shutdown that failed.  The server
\* takes connections until its turn, so that a process that ended in the middle was
\* past it, waiting for a resource without a handle.
LifecycleIInv ==
    /\ LifecycleTypeOK
    /\ closed \cup failed = Behind
    /\ exitCode = 1 => Over /\ ~Completed
    /\ ~listening => turn > Len(Front)
    /\ stopped =>
        /\ exitCode = 0
        /\ turn \in DOMAIN Plan /\ turn > Len(Front) + 1 /\ Plan[turn] \notin holds

\* The process serves before anything is asked of it.
LEMMA LifecycleStarts == LifecycleInit => LifecycleIInv
<1> SUFFICES ASSUME LifecycleInit PROVE LifecycleIInv
  OBVIOUS
<1>1. Len(Plan) \in Nat /\ DOMAIN Plan = 1 .. Len(Plan)
  BY PlanOrder
<1>2. Behind = {}
  BY <1>1 DEF Behind, LifecycleInit
<1>3. LifecycleTypeOK
  <2>1. ~ \E i \in DOMAIN Plan : Plan[i] = Server /\ turn > i
    BY <1>1 DEF LifecycleInit
  <2>2. turn \in 0 .. Len(Plan) + 1 /\ (draining <=> turn > 0)
    BY <1>1 DEF LifecycleInit
  <2>3. socket \in [Connection -> {"none", "idle", "running", "probing", "orphan"}]
    BY DEF LifecycleInit
  <2>4. QED
    BY <2>1, <2>2, <2>3 DEF LifecycleInit, LifecycleTypeOK
<1>4. QED
  BY <1>2, <1>3 DEF LifecycleIInv, LifecycleInit

\* The shutdown takes its next turn.
LEMMA TurnTaken ==
    ASSUME LifecycleIInv, turn \in DOMAIN Plan, turn' = turn + 1
    PROVE  /\ turn' \in 0 .. Len(Plan) + 1 /\ turn > 0
           /\ Behind' = Behind \cup ({Plan[turn]} \ {Server})
<1>1. Len(Plan) \in Nat /\ DOMAIN Plan = 1 .. Len(Plan)
  BY PlanOrder
<1>2. turn \in 1 .. Len(Plan)
  BY <1>1
<1>3. {k \in DOMAIN Plan : k < turn'} = {k \in DOMAIN Plan : k < turn} \cup {turn}
  BY <1>1, <1>2
<1>4. Behind' = {Plan[i] : i \in {k \in DOMAIN Plan : k < turn'}} \ {Server}
  BY DEF Behind, Plan
<1>5. QED
  BY <1>2, <1>3, <1>4 DEF Behind

\* Behind the server no resource has its turn twice.
LEMMA DistinctBehind ==
    ASSUME turn \in DOMAIN Plan, turn > Len(Front) + 1
    PROVE  Plan[turn] \in Listed(Back) /\ Plan[turn] \notin Behind
<1>0. /\ Len(Front) \in Nat /\ Len(Back) \in Nat
      /\ Len(Plan) = Len(Front) + 1 + Len(Back)
      /\ DOMAIN Plan = 1 .. Len(Plan) /\ DOMAIN Back = 1 .. Len(Back)
  BY PlanOrder, LifecycleAssumption
<1>1. ASSUME NEW i \in DOMAIN Plan, i > Len(Front) + 1
      PROVE  i - (Len(Front) + 1) \in DOMAIN Back /\ Plan[i] = Back[i - (Len(Front) + 1)]
  <2>1. i - (Len(Front) + 1) \in 1 .. Len(Back)
    BY <1>0, <1>1
  <2>2. Plan[Len(Front) + 1 + (i - (Len(Front) + 1))] = Back[i - (Len(Front) + 1)]
    BY <2>1, PlanOrder
  <2>3. QED
    BY <1>0, <2>1, <2>2
<1>2. Plan[turn] \in Listed(Back)
  BY <1>1 DEF Listed
<1>3. ASSUME NEW k \in DOMAIN Plan, k < turn, Plan[k] = Plan[turn], Plan[k] # Server PROVE FALSE
  <2>1. CASE k \in 1 .. Len(Front)
    BY <1>2, <1>3, <2>1, PlanOrder, LifecycleAssumption
  <2>2. CASE k > Len(Front) + 1
    BY <1>0, <1>1, <1>3, <2>2, LifecycleAssumption
  <2>3. k # Len(Front) + 1
    BY <1>3, PlanOrder
  <2>4. QED
    BY <1>0, <2>1, <2>2, <2>3
<1>4. QED
  BY <1>2, <1>3 DEF Behind

\* One step for the connections, one for each thing the shutdown does.
LEMMA LifecycleSteps == LifecycleIInv /\ [LifecycleNext]_lifecycleVars => LifecycleIInv'
<1>s. ASSUME LifecycleIInv, UNCHANGED lifecycleVars PROVE LifecycleIInv'
  <2>1. UNCHANGED <<draining, turn, listening, socket, closed, failed, cut, exitCode, holds, stopped>>
    BY <1>s DEF lifecycleVars
  <2>2. Behind' = Behind /\ Over' = Over /\ Completed' = Completed /\ Plan' = Plan
    BY <2>1 DEF Behind, Over, Completed, Plan
  <2>3. LifecycleTypeOK'
    BY <1>s, <2>1, <2>2 DEF LifecycleIInv, LifecycleTypeOK, Resources, Connected
  <2>4. QED
    BY <1>s, <2>1, <2>2, <2>3 DEF LifecycleIInv
<1> SUFFICES ASSUME LifecycleIInv, LifecycleNext PROVE LifecycleIInv'
  BY <1>s
<1>n. ~stopped
  BY DEF LifecycleNext
<1>0. /\ Len(Plan) \in Nat /\ DOMAIN Plan = 1 .. Len(Plan)
      /\ Plan' = Plan /\ Len(Front) \in Nat
  BY PlanOrder DEF Plan
<1>k. /\ Len(Front) + 1 \in DOMAIN Plan /\ Plan[Len(Front) + 1] = Server
      /\ \A i \in DOMAIN Plan : Plan[i] = Server => i = Len(Front) + 1
  <2>1. ASSUME NEW i \in DOMAIN Plan, i # Len(Front) + 1 PROVE Plan[i] # Server
    <3>1. CASE i \in 1 .. Len(Front)
      BY <3>1, PlanOrder, LifecycleAssumption
    <3>2. CASE i > Len(Front) + 1
      <4>1. i - (Len(Front) + 1) \in 1 .. Len(Back) /\ DOMAIN Back = 1 .. Len(Back)
        BY <3>2, PlanOrder, LifecycleAssumption
      <4>2. Plan[Len(Front) + 1 + (i - (Len(Front) + 1))] = Back[i - (Len(Front) + 1)]
        BY <4>1, PlanOrder
      <4>3. Plan[i] \in Listed(Back)
        BY <1>0, <4>1, <4>2 DEF Listed
      <4>4. QED
        BY <4>3, LifecycleAssumption
    <3>3. QED
      BY <1>0, <2>1, <3>1, <3>2
  <2>2. QED
    BY <1>0, <2>1, PlanOrder
<1>t. /\ draining \in BOOLEAN /\ listening \in BOOLEAN /\ cut \in BOOLEAN
      /\ turn \in 0 .. Len(Plan) + 1
      /\ draining <=> turn > 0
      /\ (\E i \in DOMAIN Plan : Plan[i] = Server /\ turn > i) =>
              ~listening /\ \A c \in Connection : ~Connected(c)
      /\ socket \in [Connection -> {"none", "idle", "running", "probing", "orphan"}]
      /\ closed \subseteq Resources /\ failed \subseteq Resources
      /\ exitCode \in {0, 1}
      /\ closed \cup failed = Behind
      /\ exitCode = 1 => Over /\ ~Completed
      /\ holds \subseteq Resources /\ stopped \in BOOLEAN
      /\ ~listening => turn > Len(Front)
  BY DEF LifecycleIInv, LifecycleTypeOK
\* What happens on the connections.
<1>1. ASSUME NEW c \in Connection, NEW s \in {"none", "idle", "running", "probing", "orphan"},
             Links(c, s), s \in {"idle", "running", "probing"} => Connected(c) \/ listening
      PROVE  LifecycleIInv'
  <2>1. /\ socket' = [socket EXCEPT ![c] = s]
        /\ UNCHANGED <<draining, turn, listening, closed, failed, cut, exitCode, holds, stopped>>
    BY <1>1 DEF Links, loop
  <2>2. Behind' = Behind /\ Over' = Over /\ Completed' = Completed
    BY <1>0, <2>1 DEF Behind, Over, Completed
  <2>3. (\E i \in DOMAIN Plan : Plan[i] = Server /\ turn > i) =>
              ~listening /\ \A d \in Connection : ~Connected(d)'
    BY <1>t, <1>1, <2>1 DEF Connected
  <2>4. LifecycleTypeOK'
    BY <1>0, <1>t, <2>1, <2>3 DEF LifecycleTypeOK, Resources
  <2>5. QED
    BY <1>n, <1>t, <2>1, <2>2, <2>4 DEF LifecycleIInv
<1>2. ASSUME NEW c \in Connection,
             \/ Connect(c) \/ Ask(c) \/ Answer(c) \/ Probe(c)
             \/ AnswerProbe(c) \/ Leave(c) \/ EndOrphan(c)
      PROVE  LifecycleIInv'
  BY <1>1, <1>2 DEF Connect, Ask, Answer, Probe, AnswerProbe, Leave, EndOrphan, Connected
<1>3. CASE Signal
  <2>1. /\ turn = 0 /\ draining' = TRUE /\ turn' = 1
        /\ UNCHANGED <<listening, socket, closed, failed, cut, exitCode, holds, stopped>>
    BY <1>3 DEF Signal, loop
  <2>2. Behind = {} /\ Behind' = {}
    BY <1>0, <2>1 DEF Behind
  <2>3. ~Over
    BY <1>0, <2>1 DEF Over
  <2>4. ~ \E i \in DOMAIN Plan : Plan[i] = Server /\ turn' > i
    BY <1>0, <2>1
  <2>5. LifecycleTypeOK'
    BY <1>0, <1>t, <2>1, <2>4 DEF LifecycleTypeOK, Resources
  <2>6. QED
    BY <1>n, <1>t, <2>1, <2>2, <2>3, <2>5 DEF LifecycleIInv
<1>4. ASSUME ClosingResource, turn' = turn + 1,
             closed' \cup failed' = closed \cup failed \cup {Plan[turn]},
             UNCHANGED <<draining, listening, socket, cut, exitCode, holds, stopped>>
      PROVE  LifecycleIInv'
  <2>1. turn \in DOMAIN Plan /\ Plan[turn] # Server /\ Plan[turn] \in Resources
    BY <1>4 DEF ClosingResource, Resources
  <2>2. turn' \in 0 .. Len(Plan) + 1 /\ turn > 0 /\ Behind' = Behind \cup {Plan[turn]}
    BY <1>4, <2>1, TurnTaken
  <2>3. ~Over
    BY <1>0, <2>1 DEF Over
  <2>4. \A i \in DOMAIN Plan : Plan[i] = Server /\ turn' > i => turn > i
    BY <1>0, <1>4, <2>1
  <2>5. \A c \in Connection : Connected(c)' = Connected(c)
    BY <1>4 DEF Connected
  <2>6. closed' \subseteq Resources /\ failed' \subseteq Resources
    BY <1>4, <1>t, <2>1
  <2>7. draining' <=> turn' > 0
    BY <1>4, <1>t, <2>2
  <2>8. LifecycleTypeOK'
    BY <1>0, <1>t, <1>4, <2>2, <2>4, <2>5, <2>6, <2>7 DEF LifecycleTypeOK, Resources
  <2>9. QED
    BY <1>n, <1>t, <1>4, <2>2, <2>3, <2>8 DEF LifecycleIInv
<1>5. CASE CloseResource
  BY <1>4, <1>5 DEF CloseResource, loop
<1>6. CASE FailResource
  BY <1>4, <1>6 DEF FailResource, Failing, loop
<1>7. ASSUME NEW r \in Resources, CloseLate(r) PROVE LifecycleIInv'
  <2>1. /\ r \in failed /\ closed' = closed \cup {r}
        /\ UNCHANGED <<draining, turn, listening, socket, failed, cut, exitCode, holds, stopped>>
    BY <1>7 DEF CloseLate, loop
  <2>2. Behind' = Behind /\ Over' = Over /\ Completed' = Completed
    BY <1>0, <2>1 DEF Behind, Over, Completed
  <2>3. LifecycleTypeOK'
    BY <1>0, <1>t, <1>7, <2>1 DEF LifecycleTypeOK, Resources, Connected
  <2>4. QED
    BY <1>n, <1>t, <2>1, <2>2, <2>3 DEF LifecycleIInv
\* The server lets go of connections, and takes no more.
<1>8. ASSUME ClosingServer, UNCHANGED <<draining, turn, closed, failed, exitCode, holds, stopped>>,
             socket' \in [Connection -> {"none", "idle", "running", "probing", "orphan"}],
             \A c \in Connection : Connected(c)' => Connected(c),
             listening' = FALSE, cut' \in BOOLEAN
      PROVE  LifecycleIInv'
  <2>1. Behind' = Behind
    BY <1>0, <1>8 DEF Behind
  <2>2. ~Over
    BY <1>0, <1>8 DEF ClosingServer, Over
  <2>3. LifecycleTypeOK'
    BY <1>0, <1>t, <1>8 DEF LifecycleTypeOK, Resources
  <2>4. turn > Len(Front)
    BY <1>0, <1>k, <1>8 DEF ClosingServer
  <2>5. QED
    BY <1>n, <1>t, <1>8, <2>1, <2>2, <2>3, <2>4 DEF LifecycleIInv
<1>9. CASE StopListening
  BY <1>8, <1>9, <1>t DEF StopListening, Connected, loop
<1>10. CASE CutConnections
  BY <1>8, <1>10, <1>t DEF CutConnections, Severed, Connected, loop
<1>11. CASE ServerClosed
  <2>1. /\ turn \in DOMAIN Plan /\ Plan[turn] = Server
        /\ ~listening /\ Quiet /\ turn' = turn + 1
        /\ UNCHANGED <<draining, listening, socket, closed, failed, cut, exitCode, holds, stopped>>
    BY <1>11 DEF ServerClosed, ClosingServer, loop
  <2>2. turn' \in 0 .. Len(Plan) + 1 /\ turn > 0 /\ Behind' = Behind
    BY <2>1, TurnTaken
  <2>3. ~Over
    BY <1>0, <2>1 DEF Over
  <2>4. ~listening' /\ \A c \in Connection : ~Connected(c)'
    BY <2>1 DEF Quiet, Connected
  <2>5. draining' <=> turn' > 0
    BY <1>t, <2>1, <2>2
  <2>6. LifecycleTypeOK'
    BY <1>0, <1>t, <2>1, <2>2, <2>4, <2>5 DEF LifecycleTypeOK, Resources
  <2>7. QED
    BY <1>n, <1>t, <2>1, <2>2, <2>3, <2>6 DEF LifecycleIInv
<1>12. CASE Report
  <2>1. /\ Over /\ ~Completed /\ exitCode' = 1
        /\ UNCHANGED <<draining, turn, listening, socket, closed, failed, cut, holds, stopped>>
    BY <1>12 DEF Report, loop
  <2>2. Behind' = Behind /\ Over' = Over /\ Completed' = Completed
    BY <1>0, <2>1 DEF Behind, Over, Completed
  <2>3. LifecycleTypeOK'
    BY <1>0, <1>t, <2>1 DEF LifecycleTypeOK, Resources, Connected
  <2>4. QED
    BY <1>n, <1>t, <2>1, <2>2, <2>3 DEF LifecycleIInv
\* The process ends where it waits.
<1>13. CASE RunsOut
  <2>1. /\ turn \in DOMAIN Plan /\ Plan[turn] # Server
        /\ ~listening /\ holds \subseteq closed /\ stopped' = TRUE
        /\ UNCHANGED <<draining, turn, listening, socket, closed, failed, cut, exitCode, holds>>
    BY <1>13 DEF RunsOut, ClosingResource
  <2>2. Behind' = Behind /\ Over' = Over /\ Completed' = Completed
    BY <1>0, <2>1 DEF Behind, Over, Completed
  <2>3. turn > Len(Front) + 1
    <3>1. turn # Len(Front) + 1
      BY <1>k, <2>1
    <3>2. QED
      BY <1>0, <1>t, <2>1, <3>1
  <2>4. Plan[turn] \notin Behind
    BY <1>0, <2>1, <2>3, DistinctBehind
  <2>5. exitCode = 0
    BY <1>0, <1>t, <2>1 DEF Over
  <2>6. LifecycleTypeOK'
    BY <1>0, <1>t, <2>1 DEF LifecycleTypeOK, Resources, Connected
  <2>7. QED
    BY <1>0, <1>t, <2>1, <2>2, <2>3, <2>4, <2>5, <2>6 DEF LifecycleIInv
<1>14. QED
  BY <1>2, <1>3, <1>5, <1>6, <1>7, <1>9, <1>10, <1>11, <1>12, <1>13 DEF LifecycleNext

\* The parts of ShutdownIsOrderly.
LEMMA OrderlyIfInvariant == LifecycleIInv => ShutdownIsOrderly
<1> SUFFICES ASSUME LifecycleIInv PROVE ShutdownIsOrderly
  OBVIOUS
<1>0. /\ Len(Front) \in Nat /\ Len(Back) \in Nat
      /\ Len(Plan) = Len(Front) + 1 + Len(Back)
      /\ DOMAIN Plan = 1 .. Len(Plan)
      /\ turn \in 0 .. Len(Plan) + 1
      /\ DOMAIN Back = 1 .. Len(Back)
  BY PlanOrder, LifecycleAssumption DEF LifecycleIInv, LifecycleTypeOK
<1>1. DatabaseOutlivesRequests
  <2>1. SUFFICES ASSUME NEW c \in Connection, Connected(c),
                        NEW i \in DOMAIN Back, Back[i] \in closed
                 PROVE  FALSE
    BY DEF DatabaseOutlivesRequests
  <2>2. ~(turn > Len(Front) + 1)
    <3>1. Len(Front) + 1 \in DOMAIN Plan /\ Plan[Len(Front) + 1] = Server
      BY <1>0, PlanOrder
    <3>2. QED
      BY <2>1, <3>1 DEF LifecycleIInv, LifecycleTypeOK
  <2>3. PICK k \in DOMAIN Plan : k < turn /\ Plan[k] = Back[i]
    BY <2>1 DEF LifecycleIInv, Behind
  <2>4. k \in 1 .. Len(Front)
    BY <1>0, <2>2, <2>3
  <2>5. Back[i] \in Listed(Front) /\ Back[i] \in Listed(Back)
    BY <2>3, <2>4, PlanOrder DEF Listed
  <2>6. QED
    BY <2>5, LifecycleAssumption
<1>2. CompletedIsClean
  <2>1. ASSUME Over, Completed PROVE closed = Resources
    <3>1. {k \in DOMAIN Plan : k < turn} = DOMAIN Plan
      BY <1>0, <2>1 DEF Over
    <3>2. Behind = Resources
      BY <3>1 DEF Behind, Resources
    <3>3. QED
      BY <2>1, <3>2 DEF LifecycleIInv, Completed
  <2>2. QED
    BY <2>1 DEF CompletedIsClean, LifecycleIInv
<1>3. LeavesNobody
  <2>1. SUFFICES ASSUME stopped PROVE LeavesNobody
    BY DEF LeavesNobody
  <2>2. /\ exitCode = 0 /\ turn \in DOMAIN Plan
        /\ turn > Len(Front) + 1 /\ Plan[turn] \notin holds
    BY <2>1 DEF LifecycleIInv
  <2>3. Plan[turn] \in Listed(Back)
    BY <2>2, DistinctBehind
  <2>4. \A c \in Connection : ~Connected(c)
    <3>1. Len(Front) + 1 \in DOMAIN Plan /\ Plan[Len(Front) + 1] = Server
      BY <1>0, PlanOrder
    <3>2. QED
      BY <2>2, <3>1 DEF LifecycleIInv, LifecycleTypeOK
  <2>5. QED
    BY <2>2, <2>3, <2>4 DEF LeavesNobody
<1>4. QED
  BY <1>1, <1>2, <1>3 DEF ShutdownIsOrderly, LifecycleIInv

\* For every number of connections and every list of resources: no request is
\* running when the database is closed, a shutdown that completes has closed
\* everything, and a process that ends before its shutdown leaves nobody connected.
THEOREM Orderly == LifecycleSpec => []ShutdownIsOrderly
  BY LifecycleStarts, LifecycleSteps, OrderlyIfInvariant, PTL DEF LifecycleSpec

-----------------------------------------------------------------------------
(* The pairing of the browser extension.                                   *)

\* What the host has said on a socket and the browser has not heard: a refusal or a
\* farewell is the last word, at most one answer comes before it.
Sent(s) ==
    /\ wire[s].browser = "closed" => wire[s].toClient = <<>>
    /\ wire[s].peer \in {"closed", "none", "waiting"} => wire[s].toClient = <<>>
    /\ wire[s].peer = "identified" =>
         \A i \in 1 .. Len(wire[s].toClient) : i = 1 /\ wire[s].toClient[i].kind = "PAIRED"
    /\ \A i \in 1 .. Len(wire[s].toClient) :
         /\ wire[s].browser = "connecting" => wire[s].toClient[i].kind \in {"TIMEOUT", "SHUTDOWN"}
         /\ i > 1 => i = 2 /\ wire[s].toClient[i].kind = "SHUTDOWN"
                     /\ wire[s].toClient[1].kind = "PAIRED"
    /\ wire[s].browser = "connecting" => wire[s].toHost = {}

\* The client has one socket, and a token to say HELLO with on it, which is all that
\* is said there.
Its(s) ==
    /\ wire[s].browser # "closed" => s = client.socket /\ client.token # NoToken /\ ~client.timer
    /\ wire[s].browser = "open" => wire[s].toHost \subseteq {client.token}

\* A token that is honoured, or need not be.
Good(t) == t \in host.live \cup excused

\* An answer carries a good token that nobody else has.
Answered(s) ==
    \A i \in 1 .. Len(wire[s].toClient) : wire[s].toClient[i].kind = "PAIRED" =>
        /\ wire[s].toHost = {} /\ Good(wire[s].toClient[i].token)
        /\ wire[s].toClient[i].token # ticket

\* A token that admitted a connection is honoured no more.
SpentOn(s) == wire[s].by < host.next /\ wire[s].by \notin host.live

\* What holds of a connection.
SocketOK(s) ==
    /\ Sent(s) /\ Its(s) /\ Answered(s) /\ SpentOn(s)
    /\ UnderWay(s, "REJECTED") => client.token \in excused
\* It does of all of them.
SocketsOK == \A s \in Socket : SocketOK(s)

\* The token shown to the user is good, and the client has another.
TicketGood == ticket # NoToken => Good(ticket) /\ ticket # client.token

\* The next token is a new one.
Numbered ==
    /\ 1 <= host.next /\ client.token < host.next /\ ticket < host.next
    /\ \A t \in host.live \cup excused : t < host.next

\* The inductive invariant.
PairingIInv ==
    /\ PairingTypeOK /\ SocketsOK /\ TicketGood /\ Numbered /\ TokenHonoured /\ OneAdmission
    /\ client.timer => client.token # NoToken

\* The rows of the tables.
End == {"closed", "none", "waiting", "identified", "leaving"}
Channel ==
    [browser : {"closed", "connecting", "open"}, peer : End,
     by : Held, toHost : SUBSET Token, toClient : Seq(Message)]
Clients ==
    [state : {"PAIRING_REQUIRED", "CONNECTING", "CONNECTED", "HOST_UNAVAILABLE", "RECONNECTING"},
     token : Held, socket : Socket \cup {NoSocket}, stopped : BOOLEAN, timer : BOOLEAN]
Hosts == [up : BOOLEAN, live : SUBSET Token, next : Nat]

\* The type invariant, field by field.
LEMMA Shapes ==
    ASSUME PairingTypeOK
    PROVE  /\ host \in Hosts /\ wire \in [Socket -> Channel] /\ client \in Clients
           /\ host.live \subseteq Token /\ host.next \in Nat
           /\ client.token \in Held /\ client.socket \in Socket \cup {NoSocket}
           /\ ticket \in Held /\ excused \subseteq Token
           /\ \A s \in Socket :
                /\ wire[s] \in Channel /\ wire[s].toHost \subseteq Token
                /\ wire[s].by \in Held /\ wire[s].toClient \in Seq(Message)
<1>1. /\ host \in Hosts /\ wire \in [Socket -> Channel] /\ client \in Clients
      /\ ticket \in Held /\ excused \subseteq Token
  BY DEF PairingTypeOK, Hosts, Channel, Clients, End
<1>2. host.live \subseteq Token /\ host.next \in Nat
  BY <1>1 DEF Hosts
<1>3. client.token \in Held /\ client.socket \in Socket \cup {NoSocket}
  BY <1>1 DEF Clients
<1>4. \A s \in Socket :
                /\ wire[s] \in Channel /\ wire[s].toHost \subseteq Token
                /\ wire[s].by \in Held /\ wire[s].toClient \in Seq(Message)
  BY <1>1 DEF Channel
<1>5. QED
  BY <1>1, <1>2, <1>3, <1>4

\* What is under way is a list of messages.
LEMMA Messages ==
    ASSUME NEW q \in Seq(Message)
    PROVE  /\ Len(q) \in Nat
           /\ \A i \in 1 .. Len(q) :
                /\ q[i] \in Message /\ q[i].token \in Held
                /\ q[i].kind = "PAIRED" => q[i].token \in Token
           /\ q # <<>> => /\ Len(q) >= 1 /\ Head(q) = q[1] /\ Tail(q) \in Seq(Message)
                          /\ Len(Tail(q)) = Len(q) - 1
                          /\ \A i \in 1 .. Len(Tail(q)) : Tail(q)[i] = q[i + 1]
           /\ q = <<>> <=> Len(q) = 0
<1>1. Len(q) \in Nat /\ \A i \in 1 .. Len(q) : q[i] \in Message
  OBVIOUS
<1>2. \A m \in Message : m.token \in Held /\ (m.kind = "PAIRED" => m.token \in Token)
  BY DEF Message, Held, NoToken
<1>3. q # <<>> => /\ Len(q) >= 1 /\ Head(q) = q[1] /\ Tail(q) \in Seq(Message)
                  /\ Len(Tail(q)) = Len(q) - 1
                  /\ \A i \in 1 .. Len(Tail(q)) : Tail(q)[i] = q[i + 1]
  OBVIOUS
<1>4. q = <<>> <=> Len(q) = 0
  OBVIOUS
<1>5. QED
  BY <1>1, <1>2, <1>3, <1>4

\* A connection the client has left says nothing more to it.
LEMMA ClosedIsOK ==
    ASSUME NEW s \in Socket, wire'[s].browser = "closed", wire'[s].toClient = <<>>, SpentOn(s)'
    PROVE  SocketOK(s)'
<1>1. Len(wire'[s].toClient) = 0
  OBVIOUS
<1>2. Sent(s)'
  BY <1>1 DEF Sent
<1>3. Its(s)' /\ Answered(s)' /\ ~UnderWay(s, "REJECTED")'
  BY <1>1 DEF Its, Answered, UnderWay
<1>4. QED
  BY <1>2, <1>3 DEF SocketOK

\* A connection nothing happens to, while the client keeps to it and forgets nothing.
LEMMA SocketStill ==
    ASSUME PairingTypeOK, NEW s \in Socket, SocketOK(s), wire'[s] = wire[s],
           wire[s].browser # "closed" =>
             /\ client'.socket = client.socket /\ client'.token = client.token
             /\ client'.timer = client.timer
             /\ \A t \in Token : Good(t) => Good(t)' /\ (t # ticket => t # ticket'),
           excused \subseteq excused', SpentOn(s)'
    PROVE  SocketOK(s)'
<1>1. Sent(s)'
  BY DEF SocketOK, Sent
<1>2. Its(s)'
  BY DEF SocketOK, Its
<1>3. Answered(s)'
  <2>1. SUFFICES ASSUME NEW i \in 1 .. Len(wire[s].toClient), wire[s].toClient[i].kind = "PAIRED"
                 PROVE  /\ wire[s].toHost = {} /\ Good(wire[s].toClient[i].token)'
                        /\ wire[s].toClient[i].token # ticket'
    BY DEF Answered, Good
  <2>2. wire[s].browser # "closed"
    <3>1. wire[s].toClient \in Seq(Message)
      BY Shapes
    <3>2. wire[s].toClient # <<>>
      BY <2>1, <3>1, Messages
    <3>3. QED
      BY <3>2 DEF SocketOK, Sent
  <2>3. wire[s].toClient[i].token \in Token
    BY <2>1, Shapes, Messages
  <2>4. QED
    BY <2>1, <2>2, <2>3 DEF SocketOK, Answered
<1>4. UnderWay(s, "REJECTED")' => client'.token \in excused'
  BY DEF SocketOK, UnderWay
<1>5. QED
  BY <1>1, <1>2, <1>3, <1>4 DEF SocketOK

\* No token is given out twice, and none is honoured again.
TokensAdvance ==
    /\ excused \subseteq excused' /\ host.next <= host'.next
    /\ host'.live \subseteq host.live \cup {host.next}

\* The client keeps to its socket, and what is good for it stays so.
ClientKeeps ==
    /\ client'.socket = client.socket /\ client'.token = client.token
    /\ client'.timer = client.timer
    /\ \A t \in Token : Good(t) => Good(t)' /\ (t # ticket => t # ticket')

\* A token that admitted a connection is honoured no more.
LEMMA SpentStill ==
    ASSUME PairingIInv, PairingTypeOK', TokensAdvance, NEW s \in Socket,
           wire'[s].by \in {wire[s].by, NoToken}
    PROVE  SpentOn(s)'
<1>1. /\ SpentOn(s) /\ host.next \in Nat /\ host.next >= 1 /\ wire[s].by \in Held
      /\ host.live \subseteq Token
  BY Shapes DEF PairingIInv, SocketsOK, SocketOK, Numbered
<1>2. host'.next \in Nat
  BY DEF PairingTypeOK
<1>3. QED
  BY <1>1, <1>2 DEF TokensAdvance, SpentOn, Held, Token, NoToken

\* A connection that stays as it is.
LEMMA OtherStill ==
    ASSUME PairingIInv, PairingTypeOK', TokensAdvance, NEW s \in Socket, wire'[s] = wire[s],
           wire[s].browser # "closed" => ClientKeeps
    PROVE  SocketOK(s)'
<1>1. SpentOn(s)'
  BY SpentStill
<1>2. PairingTypeOK /\ SocketOK(s) /\ excused \subseteq excused'
  BY DEF PairingIInv, SocketsOK, TokensAdvance
<1>3. QED
  BY <1>1, <1>2, SocketStill DEF ClientKeeps

\* One connection changes: that of the client, or the client is left alone.
LEMMA OneMoves ==
    ASSUME PairingIInv, PairingTypeOK', TokensAdvance, NEW s \in Socket,
           \A u \in Socket \ {s} : wire'[u] = wire[u], SocketOK(s)',
           s = client.socket \/ (\A u \in Socket : wire[u].browser = "closed") \/ ClientKeeps
    PROVE  SocketsOK'
<1>1. SUFFICES ASSUME NEW u \in Socket \ {s} PROVE SocketOK(u)'
  BY DEF SocketsOK
<1>2. wire[u].browser # "closed" => u = client.socket
  BY DEF PairingIInv, SocketsOK, SocketOK, Its
<1>3. QED
  BY <1>2, OtherStill

\* Nobody is admitted.
LEMMA NobodyAdmitted ==
    ASSUME PairingIInv, \A s \in Socket : wire'[s].by \in {wire[s].by, NoToken}
    PROVE  OneAdmission'
BY DEF PairingIInv, OneAdmission

\* The host after it gave out a token.
LEMMA IssuedShape ==
    ASSUME PairingTypeOK, Numbered, NEW h \in Hosts, h.next = host.next
    PROVE  /\ Issued(h) \in Hosts /\ Issued(h).live = h.live \cup {host.next}
           /\ Issued(h).next = host.next + 1 /\ host.next \in Token
<1>1. host.next \in Token
  BY Shapes DEF Numbered, Token
<1>2. h.live \subseteq Token
  BY DEF Hosts
<1>3. QED
  BY <1>1, <1>2 DEF Issued, Hosts, Token

\* A ticket is issued.
LEMMA TicketIssued ==
    ASSUME PairingIInv, IssueTicket
    PROVE  PairingIInv'
<1>1. PairingTypeOK
  BY DEF PairingIInv
<1>2. /\ host' \in Hosts /\ host'.live = host.live \cup {host.next} /\ host'.next = host.next + 1
      /\ UNCHANGED <<wire, client, excused>> /\ ticket' = host.next /\ host.next \in Token
      /\ ticket = NoToken
  BY <1>1, Shapes, IssuedShape DEF IssueTicket, PairingIInv
<1>3. PairingTypeOK'
  BY <1>1, <1>2 DEF PairingTypeOK, Hosts, Held
<1>4. TokensAdvance /\ ClientKeeps
  <2>1. TokensAdvance
    BY <1>1, <1>2, Shapes DEF TokensAdvance
  <2>2. \A t \in Token : Good(t) => t < host.next
    BY DEF PairingIInv, Numbered, Good
  <2>3. QED
    BY <1>2, <2>1, <2>2 DEF ClientKeeps, Good, Token
<1>5. SocketsOK'
  BY <1>2, <1>3, <1>4, OtherStill DEF SocketsOK
<1>6. TicketGood'
  <2>1. client.token \in Nat /\ host.next \in Nat /\ client.token < host.next
    BY <1>1, Shapes DEF PairingIInv, Numbered, Held, Token, NoToken
  <2>2. client.token # host.next
    BY <2>1
  <2>3. QED
    BY <1>2, <2>2 DEF TicketGood, Good
<1>7. Numbered'
  <2>1. /\ host.next \in Nat /\ client.token \in Nat
        /\ \A t \in host.live \cup excused : t \in Nat /\ t < host.next
    BY <1>1, Shapes DEF PairingIInv, Numbered, Held, Token, NoToken
  <2>2. QED
    BY <1>2, <2>1 DEF PairingIInv, Numbered
<1>8. TokenHonoured'
  BY <1>2 DEF PairingIInv, TokenHonoured, UnderWay
<1>9. OneAdmission'
  BY <1>2, NobodyAdmitted
<1>10. QED
  BY <1>2, <1>3, <1>5, <1>6, <1>7, <1>8, <1>9 DEF PairingIInv

\* A grant expires.
LEMMA GrantExpired ==
    ASSUME PairingIInv, NEW t \in host.live, GrantExpires(t)
    PROVE  PairingIInv'
<1>1. PairingTypeOK
  BY DEF PairingIInv
<1>2. /\ host' \in Hosts /\ host'.live = host.live \ {t} /\ host'.next = host.next
      /\ UNCHANGED <<wire, client, ticket>> /\ excused' = excused \cup {t} /\ t \in Token
  BY <1>1, Shapes DEF GrantExpires, Consumed, Hosts
<1>3. PairingTypeOK'
  BY <1>1, <1>2 DEF PairingTypeOK, Hosts
<1>4. TokensAdvance /\ ClientKeeps
  BY <1>1, <1>2, Shapes DEF TokensAdvance, ClientKeeps, Good
<1>5. SocketsOK'
  BY <1>2, <1>3, <1>4, OtherStill DEF SocketsOK
<1>6. TicketGood' /\ Numbered'
  BY <1>2 DEF PairingIInv, TicketGood, Good, Numbered
<1>7. TokenHonoured'
  BY <1>2 DEF PairingIInv, TokenHonoured, UnderWay
<1>8. OneAdmission'
  BY <1>2, NobodyAdmitted
<1>9. QED
  BY <1>2, <1>3, <1>5, <1>6, <1>7, <1>8 DEF PairingIInv

\* The host starts.
LEMMA HostStarted ==
    ASSUME PairingIInv, HostStarts
    PROVE  PairingIInv'
<1>1. PairingTypeOK
  BY DEF PairingIInv
<1>2. /\ host' \in Hosts /\ host'.live = host.live /\ host'.next = host.next
      /\ UNCHANGED <<wire, client, ticket, excused>>
  BY <1>1, Shapes DEF HostStarts, Hosts
<1>3. PairingTypeOK'
  BY <1>1, <1>2 DEF PairingTypeOK, Hosts
<1>4. TokensAdvance /\ ClientKeeps
  BY <1>1, <1>2, Shapes DEF TokensAdvance, ClientKeeps, Good
<1>5. SocketsOK'
  BY <1>2, <1>3, <1>4, OtherStill DEF SocketsOK
<1>6. TicketGood' /\ Numbered'
  BY <1>2 DEF PairingIInv, TicketGood, Good, Numbered
<1>7. TokenHonoured'
  BY <1>2 DEF PairingIInv, TokenHonoured, UnderWay
<1>8. OneAdmission'
  BY <1>2, NobodyAdmitted
<1>9. QED
  BY <1>2, <1>3, <1>5, <1>6, <1>7, <1>8 DEF PairingIInv

\* Left takes the client off its socket.
LEMMA LeftShape ==
    ASSUME PairingIInv
    PROVE  /\ Left \in [Socket -> Channel]
           /\ \A s \in Socket : Left[s].browser = "closed" /\ Left[s].toClient = <<>>
                                /\ Left[s].by = wire[s].by
<1>1. wire \in [Socket -> Channel]
  BY Shapes DEF PairingIInv
<1>2. <<>> \in Seq(Message)
  OBVIOUS
<1>3. \A s \in Socket : /\ HungUp(wire[s]) \in Channel /\ HungUp(wire[s]).browser = "closed"
                        /\ HungUp(wire[s]).toClient = <<>> /\ HungUp(wire[s]).by = wire[s].by
  BY <1>1, <1>2 DEF HungUp, Channel
<1>4. \A s \in Socket \ {client.socket} : wire[s].browser = "closed" /\ wire[s].toClient = <<>>
  BY DEF PairingIInv, SocketsOK, SocketOK, Its, Sent
<1>5. \A s \in Socket : Left[s] = IF s = client.socket THEN HungUp(wire[s]) ELSE wire[s]
  BY DEF Left
<1>6. Left \in [Socket -> Channel]
  BY <1>1, <1>3 DEF Left
<1>7. QED
  BY <1>3, <1>4, <1>5, <1>6

\* The rows that start a connection, or end one.
LEMMA FreshRows ==
    /\ Unused \in Channel /\ Dialled \in Channel
    /\ Unused.browser = "closed" /\ Unused.peer = "closed" /\ Unused.toClient = <<>>
    /\ Dialled.browser = "connecting" /\ Dialled.peer = "none" /\ Dialled.toClient = <<>>
    /\ Unused.by = NoToken /\ Dialled.by = NoToken /\ Unused.toHost = {} /\ Dialled.toHost = {}
<1>1. <<>> \in Seq(Message)
  OBVIOUS
<1>2. Unused \in Channel
  BY <1>1 DEF Unused, Channel, End, Held
<1>3. /\ Unused.browser = "closed" /\ Unused.peer = "closed" /\ Unused.toClient = <<>>
      /\ Unused.by = NoToken /\ Unused.toHost = {}
  BY DEF Unused
<1>4. /\ Dialled \in Channel
      /\ Dialled.browser = "connecting" /\ Dialled.peer = "none"
      /\ Dialled.toClient = Unused.toClient /\ Dialled.by = Unused.by
      /\ Dialled.toHost = Unused.toHost
  BY <1>2 DEF Dialled, Channel, End
<1>5. QED
  BY <1>2, <1>3, <1>4

\* A connection that was just dialled.
LEMMA DialledIsOK ==
    ASSUME NEW s \in Socket, wire'[s] = Dialled, SpentOn(s)', client'.socket = s,
           client'.token # NoToken, ~client'.timer
    PROVE  SocketOK(s)'
<1>1. Len(wire'[s].toClient) = 0 /\ wire'[s].toClient = <<>>
  BY FreshRows
<1>2. Sent(s)'
  BY <1>1, FreshRows DEF Sent
<1>3. Its(s)'
  BY FreshRows DEF Its
<1>4. Answered(s)' /\ ~UnderWay(s, "REJECTED")'
  BY <1>1 DEF Answered, UnderWay
<1>5. QED
  BY <1>2, <1>3, <1>4 DEF SocketOK

\* The user pairs.
LEMMA UserPairs ==
    ASSUME PairingIInv, NEW s \in Socket, Pair(s)
    PROVE  PairingIInv'
<1>1. PairingTypeOK /\ host \in Hosts /\ host.next \in Nat
  BY Shapes DEF PairingIInv
<1>2. /\ ticket # NoToken /\ ticket \in Token /\ ticket' = NoToken
      /\ UNCHANGED <<host, excused>>
  BY <1>1, Shapes DEF Pair, Held
<1>3. /\ wire' \in [Socket -> Channel] /\ wire'[s] = Dialled
      /\ \A u \in Socket \ {s} : wire'[u] = Left[u]
  BY FreshRows, LeftShape DEF Pair
<1>4. /\ client' \in Clients /\ client'.token = ticket /\ client'.socket = s
      /\ client'.timer = FALSE
  BY <1>2 DEF Pair, Clients, Held
<1>5. PairingTypeOK'
  BY <1>1, <1>2, <1>3, <1>4, Shapes DEF PairingTypeOK, Channel, Clients, End, Held
<1>6. TokensAdvance
  BY <1>1, <1>2 DEF TokensAdvance
<1>7. \A u \in Socket : wire'[u].by \in {wire[u].by, NoToken}
  BY <1>3, LeftShape, FreshRows
<1>8. SocketsOK'
  <2>1. SUFFICES ASSUME NEW u \in Socket PROVE SocketOK(u)'
    BY DEF SocketsOK
  <2>2. SpentOn(u)'
    BY <1>5, <1>6, <1>7, SpentStill
  <2>3. CASE u = s
    BY <1>2, <1>3, <1>4, <2>2, <2>3, DialledIsOK
  <2>4. CASE u # s
    BY <1>3, <2>2, <2>4, LeftShape, ClosedIsOK
  <2>5. QED
    BY <2>3, <2>4
<1>9. TicketGood' /\ Numbered'
  BY <1>1, <1>2, <1>4 DEF PairingIInv, TicketGood, Numbered, NoToken
<1>10. TokenHonoured'
  BY <1>2, <1>4 DEF PairingIInv, TicketGood, Good, TokenHonoured
<1>11. OneAdmission'
  BY <1>7, NobodyAdmitted
<1>12. QED
  BY <1>4, <1>5, <1>8, <1>9, <1>10, <1>11 DEF PairingIInv

\* The timer fires: the client dials again.
LEMMA ClientReconnects ==
    ASSUME PairingIInv, NEW s \in Socket, Reconnect(s)
    PROVE  PairingIInv'
<1>1. PairingTypeOK /\ client \in Clients /\ wire \in [Socket -> Channel]
  BY Shapes DEF PairingIInv
<1>2. /\ client.timer /\ client.token # NoToken
      /\ UNCHANGED <<host, ticket, excused>> /\ host.next \in Nat
  BY <1>1, Shapes DEF Reconnect, PairingIInv
<1>3. /\ wire' \in [Socket -> Channel] /\ wire'[s] = Dialled
      /\ \A u \in Socket \ {s} : wire'[u] = wire[u]
  BY <1>1, FreshRows DEF Reconnect
<1>4. /\ client' \in Clients /\ client'.token = client.token /\ client'.socket = s
      /\ client'.timer = FALSE
  BY <1>1 DEF Reconnect, Clients
<1>5. PairingTypeOK'
  BY <1>1, <1>2, <1>3, <1>4 DEF PairingTypeOK, Channel, Clients, End
<1>6. TokensAdvance
  BY <1>1, <1>2 DEF TokensAdvance
<1>7. \A u \in Socket : wire[u].browser = "closed" /\ wire'[u].by \in {wire[u].by, NoToken}
  BY <1>2, <1>3, FreshRows DEF PairingIInv, SocketsOK, SocketOK, Its
<1>8. SocketsOK'
  <2>1. SocketOK(s)'
    BY <1>2, <1>3, <1>4, <1>5, <1>6, <1>7, SpentStill, DialledIsOK
  <2>2. QED
    BY <1>3, <1>5, <1>6, <1>7, <2>1, OneMoves
<1>9. TicketGood' /\ Numbered'
  BY <1>2, <1>4 DEF PairingIInv, TicketGood, Good, Numbered
<1>10. TokenHonoured'
  <2>1. client.token \in host.live \cup excused
    <3>1. client.socket \in Socket \cup {NoSocket}
      BY <1>1, Shapes
    <3>2. QED
      BY <1>2, <1>7, <3>1 DEF PairingIInv, TokenHonoured, UnderWay
  <2>2. QED
    BY <1>2, <1>4, <2>1 DEF TokenHonoured
<1>11. OneAdmission'
  BY <1>7, NobodyAdmitted
<1>12. QED
  BY <1>4, <1>5, <1>8, <1>9, <1>10, <1>11 DEF PairingIInv

\* The socket opens, and the client says HELLO.
LEMMA SocketOpens ==
    ASSUME PairingIInv, NEW s \in Socket, Open(s)
    PROVE  PairingIInv'
<1>1. PairingTypeOK /\ wire \in [Socket -> Channel]
  BY Shapes DEF PairingIInv
<1>2. /\ s = client.socket /\ client.token \in Token /\ host.next \in Nat
      /\ UNCHANGED <<host, client, ticket, excused>>
      /\ wire[s].browser = "connecting"
  BY <1>1, Shapes DEF Open, Held
<1>3. /\ wire'[s].browser = "open" /\ wire'[s].peer = wire[s].peer /\ wire'[s].by = wire[s].by
      /\ wire'[s].toHost = {client.token} /\ wire'[s].toClient = wire[s].toClient
  BY <1>1, <1>2 DEF Open, Channel
<1>4. /\ wire' \in [Socket -> Channel]
      /\ \A u \in Socket \ {s} : wire'[u] = wire[u]
  BY <1>1, <1>2 DEF Open, Channel
<1>5. PairingTypeOK'
  BY <1>1, <1>2, <1>4 DEF PairingTypeOK, Channel, End
<1>6. TokensAdvance
  BY <1>2 DEF TokensAdvance
<1>7. \A u \in Socket : wire'[u].by \in {wire[u].by, NoToken}
  BY <1>3, <1>4
<1>8. Sent(s) /\ Its(s) /\ SpentOn(s)'
  BY <1>5, <1>6, <1>7, SpentStill DEF PairingIInv, SocketsOK, SocketOK
<1>9. SocketsOK'
  <2>1. \A i \in 1 .. Len(wire'[s].toClient) : wire'[s].toClient[i].kind \in {"TIMEOUT", "SHUTDOWN"}
    BY <1>2, <1>3, <1>8 DEF Sent
  <2>2. Sent(s)'
    BY <1>2, <1>3, <1>4, <1>8 DEF Sent
  <2>3. Its(s)'
    BY <1>2, <1>3, <1>4, <1>8 DEF Its, NoToken, Token
  <2>4. Answered(s)' /\ ~UnderWay(s, "REJECTED")'
    BY <2>1 DEF Answered, UnderWay
  <2>5. SocketOK(s)'
    BY <1>8, <2>2, <2>3, <2>4 DEF SocketOK
  <2>6. QED
    BY <1>2, <1>4, <1>5, <1>6, <2>5, OneMoves
<1>10. TicketGood' /\ Numbered'
  BY <1>2 DEF PairingIInv, TicketGood, Good, Numbered
<1>11. TokenHonoured'
  BY <1>2 DEF PairingIInv, TokenHonoured, UnderWay
<1>12. OneAdmission'
  BY <1>7, NobodyAdmitted
<1>13. QED
  BY <1>2, <1>5, <1>9, <1>10, <1>11, <1>12 DEF PairingIInv

\* The client hears that it is paired: it has the token of its next connection.
LEMMA ClientPaired ==
    ASSUME PairingIInv, NEW s \in Socket, Paired(s)
    PROVE  PairingIInv'
<1>1. PairingTypeOK /\ wire \in [Socket -> Channel] /\ client \in Clients
      /\ wire[s].toClient \in Seq(Message) /\ host.next \in Nat
  BY Shapes DEF PairingIInv
<1>2. PICK q \in Seq(Message) : q = wire[s].toClient
  BY <1>1
<1>3. /\ wire[s].browser = "open" /\ q # <<>> /\ q[1].kind = "PAIRED" /\ Heard(s) = q[1]
      /\ Tail(q) \in Seq(Message) /\ 1 \in 1 .. Len(q) /\ q[1].token \in Token
      /\ UNCHANGED <<host, ticket, excused>>
  BY <1>2, Messages DEF Paired, Hears, Heard
<1>4. /\ client' \in Clients /\ client'.token = q[1].token
      /\ client'.socket = client.socket /\ client'.timer = client.timer
  BY <1>1, <1>3 DEF Paired, Clients, Held
<1>5. /\ wire'[s].browser = "open" /\ wire'[s].peer = wire[s].peer /\ wire'[s].by = wire[s].by
      /\ wire'[s].toHost = wire[s].toHost /\ wire'[s].toClient = Tail(q)
  BY <1>1, <1>2, <1>3 DEF Paired, Channel
<1>6. /\ wire' \in [Socket -> Channel]
      /\ \A u \in Socket \ {s} : wire'[u] = wire[u]
  BY <1>1, <1>2, <1>3 DEF Paired, Channel
<1>7. PairingTypeOK'
  BY <1>1, <1>3, <1>4, <1>6 DEF PairingTypeOK, Channel, Clients, End
<1>8. TokensAdvance
  BY <1>1, <1>3 DEF TokensAdvance
<1>9. \A u \in Socket : wire'[u].by \in {wire[u].by, NoToken}
  BY <1>5, <1>6
<1>10. /\ Sent(s) /\ Its(s) /\ SpentOn(s)'
       /\ wire[s].toHost = {} /\ Good(q[1].token) /\ q[1].token # ticket
  <2>1. SpentOn(s)'
    BY <1>7, <1>8, <1>9, SpentStill
  <2>2. Sent(s) /\ Its(s) /\ Answered(s)
    BY DEF PairingIInv, SocketsOK, SocketOK
  <2>3. QED
    BY <1>2, <1>3, <2>1, <2>2 DEF Answered
<1>11. \A i \in 1 .. Len(Tail(q)) : i = 1 /\ Tail(q)[i].kind = "SHUTDOWN"
  <2>1. SUFFICES ASSUME NEW i \in 1 .. Len(Tail(q)) PROVE i = 1 /\ Tail(q)[i].kind = "SHUTDOWN"
    OBVIOUS
  <2>2. /\ Len(q) \in Nat /\ Len(Tail(q)) = Len(q) - 1 /\ Tail(q)[i] = q[i + 1]
    BY <1>3, Messages
  <2>3. i + 1 \in 1 .. Len(q) /\ i + 1 > 1
    BY <2>2
  <2>4. i + 1 = 2 /\ q[i + 1].kind = "SHUTDOWN"
    BY <1>2, <1>10, <2>3 DEF Sent
  <2>5. QED
    BY <2>2, <2>4
<1>12. SocketsOK'
  <2>1. Sent(s)'
    <3>1. wire'[s].peer \notin {"closed", "none", "waiting"}
      BY <1>2, <1>3, <1>5, <1>10 DEF Sent
    <3>2. wire[s].peer = "identified" => Len(q) = 1
      <4>1. Len(q) \in 1 .. Len(q)
        BY <1>3, Messages
      <4>2. QED
        BY <1>2, <1>10, <4>1 DEF Sent
    <3>3. Len(Tail(q)) = Len(q) - 1 /\ Len(q) \in Nat /\ Len(Tail(q)) \in Nat
      BY <1>3, Messages
    <3>4. QED
      BY <1>5, <1>11, <3>1, <3>2, <3>3 DEF Sent
  <2>2. Its(s)'
    BY <1>3, <1>4, <1>5, <1>10 DEF Its, Token, NoToken
  <2>3. Answered(s)' /\ ~UnderWay(s, "REJECTED")'
    BY <1>5, <1>11 DEF Answered, UnderWay
  <2>4. SocketOK(s)'
    BY <1>10, <2>1, <2>2, <2>3 DEF SocketOK
  <2>5. s = client.socket
    BY <1>3, <1>10 DEF Its
  <2>6. QED
    BY <1>6, <1>7, <1>8, <2>4, <2>5, OneMoves
<1>13. TicketGood' /\ Numbered'
  BY <1>3, <1>4, <1>10 DEF PairingIInv, TicketGood, Good, Numbered
<1>14. TokenHonoured'
  BY <1>3, <1>4, <1>10 DEF TokenHonoured, Good
<1>15. OneAdmission'
  BY <1>9, NobodyAdmitted
<1>16. QED
  BY <1>3, <1>4, <1>7, <1>12, <1>13, <1>14, <1>15 DEF PairingIInv, Token, NoToken

\* What the browser's end looks like once it is gone.
LEMMA HungUpShape ==
    ASSUME NEW w \in Channel
    PROVE  /\ HungUp(w) \in Channel /\ HungUp(w).browser = "closed"
           /\ HungUp(w).toClient = <<>> /\ HungUp(w).by = w.by
<1>1. <<>> \in Seq(Message)
  OBVIOUS
<1>2. QED
  BY <1>1 DEF HungUp, Channel

\* The client's connection ends for its side.
LEMMA SocketGone ==
    ASSUME PairingIInv, PairingTypeOK', TokensAdvance, NEW s \in Socket, s = client.socket \/ ClientKeeps,
           \A u \in Socket \ {s} : wire'[u] = wire[u],
           wire'[s].browser = "closed", wire'[s].toClient = <<>>,
           wire'[s].by \in {wire[s].by, NoToken}
    PROVE  SocketsOK' /\ OneAdmission'
<1>1. SocketOK(s)'
  BY SpentStill, ClosedIsOK
<1>2. \A u \in Socket : wire'[u].by \in {wire[u].by, NoToken}
  OBVIOUS
<1>3. QED
  BY <1>1, <1>2, OneMoves, NobodyAdmitted

\* The client is turned away: it forgets its token.
LEMMA ClientRejected ==
    ASSUME PairingIInv, NEW s \in Socket, Rejected(s)
    PROVE  PairingIInv'
<1>1. PairingTypeOK /\ wire \in [Socket -> Channel] /\ client \in Clients /\ host.next \in Nat
  BY Shapes DEF PairingIInv
<1>2. wire[s].browser = "open" /\ UNCHANGED <<host, ticket, excused>>
  BY DEF Rejected, Hears
<1>3. s = client.socket /\ ~client.timer
  BY <1>2 DEF PairingIInv, SocketsOK, SocketOK, Its
<1>4. /\ client' \in Clients /\ client'.token = NoToken /\ client'.timer = client.timer
  BY <1>1 DEF Rejected, Clients, Held
<1>5. /\ wire' \in [Socket -> Channel] /\ wire'[s] = HungUp(wire[s])
      /\ \A u \in Socket \ {s} : wire'[u] = wire[u]
  BY <1>1, HungUpShape DEF Rejected
<1>6. PairingTypeOK'
  BY <1>1, <1>2, <1>4, <1>5 DEF PairingTypeOK, Channel, Clients, End
<1>7. TokensAdvance
  BY <1>1, <1>2 DEF TokensAdvance
<1>8. SocketsOK' /\ OneAdmission'
  BY <1>1, <1>3, <1>5, <1>6, <1>7, HungUpShape, SocketGone
<1>9. TicketGood' /\ Numbered'
  BY <1>1, <1>2, <1>4 DEF PairingIInv, TicketGood, Good, Numbered, NoToken
<1>10. TokenHonoured' /\ ~client'.timer
  BY <1>3, <1>4 DEF TokenHonoured
<1>11. QED
  BY <1>6, <1>8, <1>9, <1>10 DEF PairingIInv

\* The client's socket closes for no reason of the protocol: it will try again.
LEMMA ClientUnavailable ==
    ASSUME PairingIInv, NEW s \in Socket, wire[s].browser # "closed",
           client' = Unavailable(client), UNCHANGED <<host, ticket>>,
           excused \subseteq excused',
           excused' \subseteq excused \cup {client.token},
           wire' \in [Socket -> Channel],
           \A u \in Socket \ {s} : wire'[u] = wire[u],
           wire'[s].browser = "closed", wire'[s].toClient = <<>>,
           wire'[s].by \in {wire[s].by, NoToken},
           client.token \in host.live \cup excused'
    PROVE  PairingIInv'
<1>1. PairingTypeOK /\ client \in Clients /\ host.next \in Nat /\ client.token \in Held
  BY Shapes DEF PairingIInv
<1>2. s = client.socket /\ client.token # NoToken
  BY DEF PairingIInv, SocketsOK, SocketOK, Its
<1>3. /\ client' \in Clients /\ client'.token = client.token
  BY <1>1 DEF Unavailable, Clients
<1>4. excused' \subseteq Token
  BY <1>1, <1>2, Shapes DEF Held
<1>5. PairingTypeOK'
  BY <1>1, <1>3, <1>4 DEF PairingTypeOK, Channel, Clients, End
<1>6. TokensAdvance
  BY <1>1 DEF TokensAdvance
<1>7. SocketsOK' /\ OneAdmission'
  BY <1>2, <1>5, <1>6, SocketGone
<1>8. TicketGood' /\ Numbered'
  BY <1>3 DEF PairingIInv, TicketGood, Good, Numbered
<1>9. TokenHonoured'
  BY <1>3 DEF TokenHonoured
<1>10. QED
  BY <1>2, <1>3, <1>5, <1>7, <1>8, <1>9 DEF PairingIInv

\* The client hears that the host stops.
LEMMA ClientTold ==
    ASSUME PairingIInv, NEW s \in Socket, ToldOfShutdown(s)
    PROVE  PairingIInv'
<1>1. /\ PairingTypeOK /\ wire \in [Socket -> Channel] /\ wire[s].toClient \in Seq(Message)
      /\ client.token \in Held
  BY Shapes DEF PairingIInv
<1>2. /\ wire[s].browser = "open" /\ wire[s].toClient # <<>>
      /\ UNCHANGED <<host, ticket, excused>> /\ client' = Unavailable(client)
      /\ Head(wire[s].toClient).kind = "SHUTDOWN"
  BY DEF ToldOfShutdown, Hears, Heard
<1>3. /\ wire' \in [Socket -> Channel] /\ wire'[s] = HungUp(wire[s])
      /\ \A u \in Socket \ {s} : wire'[u] = wire[u]
  BY <1>1, HungUpShape DEF ToldOfShutdown
<1>4. Sent(s) /\ s = client.socket /\ client.token # NoToken
  BY <1>2 DEF PairingIInv, SocketsOK, SocketOK, Its
<1>5. ~UnderWay(s, "PAIRED")
  <2>1. wire[s].toClient[1].kind = "SHUTDOWN"
    BY <1>1, <1>2, Messages
  <2>2. \A i \in 1 .. Len(wire[s].toClient) : i = 1
    BY <1>1, <1>4, <2>1, Messages DEF Sent
  <2>3. QED
    BY <2>1, <2>2 DEF UnderWay
<1>6. client.token \in host.live \cup excused
  BY <1>4, <1>5 DEF PairingIInv, TokenHonoured
<1>7. QED
  BY <1>1, <1>2, <1>3, <1>6, HungUpShape, ClientUnavailable

\* The connection breaks.
LEMMA ConnectionBroken ==
    ASSUME PairingIInv, NEW s \in Socket, Break(s)
    PROVE  PairingIInv'
<1>1. PairingTypeOK /\ wire \in [Socket -> Channel]
  BY Shapes DEF PairingIInv
<1>2. /\ wire[s].browser # "closed" /\ s = client.socket
      /\ UNCHANGED <<host, ticket>> /\ client' = Unavailable(client)
      /\ excused' = excused \cup Unheard(s)
  BY DEF Break
<1>3. /\ wire' \in [Socket -> Channel] /\ wire'[s] = HungUp(wire[s])
      /\ \A u \in Socket \ {s} : wire'[u] = wire[u]
  BY <1>1, HungUpShape DEF Break
<1>4. client.token # NoToken
  BY <1>2 DEF PairingIInv, SocketsOK, SocketOK, Its
<1>5. Unheard(s) \subseteq {client.token}
  BY DEF Unheard
<1>6. client.token \in host.live \cup excused'
  <2>1. CASE client.token \in host.live \cup excused
    BY <1>2, <2>1
  <2>2. CASE UnderWay(s, "PAIRED")
    BY <1>2, <2>2 DEF UnderWay, Unheard
  <2>3. QED
    BY <1>2, <1>4, <2>1, <2>2 DEF PairingIInv, TokenHonoured
<1>7. QED
  BY <1>1, <1>2, <1>3, <1>5, <1>6, HungUpShape, ClientUnavailable

\* Nobody listens.
LEMMA HostUnreachable ==
    ASSUME PairingIInv, NEW s \in Socket, Unreachable(s)
    PROVE  PairingIInv'
<1>1. PairingTypeOK /\ wire \in [Socket -> Channel] /\ client.token \in Held
  BY Shapes DEF PairingIInv
<1>2. /\ wire[s].browser = "connecting"
      /\ UNCHANGED <<host, ticket, excused>> /\ client' = Unavailable(client)
  BY DEF Unreachable
<1>3. /\ wire' \in [Socket -> Channel] /\ wire'[s] = Unused
      /\ \A u \in Socket \ {s} : wire'[u] = wire[u]
  BY <1>1, FreshRows DEF Unreachable
<1>4. s = client.socket /\ client.token # NoToken
  BY <1>2 DEF PairingIInv, SocketsOK, SocketOK, Its
<1>5. client.token \in host.live \cup excused
  BY <1>2, <1>4 DEF PairingIInv, TokenHonoured, UnderWay
<1>6. QED
  BY <1>1, <1>2, <1>3, <1>5, FreshRows, ClientUnavailable

\* A step of the host that leaves the grants and the client alone.
LEMMA HostMoves ==
    ASSUME PairingIInv, NEW s \in Socket, UNCHANGED <<host, client, ticket, excused>>,
           wire' \in [Socket -> Channel], \A u \in Socket \ {s} : wire'[u] = wire[u],
           Sent(s)', Its(s)', Answered(s)', UnderWay(s, "REJECTED")' => client.token \in excused,
           UnderWay(s, "PAIRED") => UnderWay(s, "PAIRED")',
           wire'[s].by \in {wire[s].by, NoToken}
    PROVE  PairingIInv'
<1>1. PairingTypeOK /\ host.next \in Nat
  BY Shapes DEF PairingIInv
<1>2. PairingTypeOK'
  BY <1>1 DEF PairingTypeOK, Channel, End
<1>3. TokensAdvance /\ ClientKeeps
  BY <1>1 DEF TokensAdvance, ClientKeeps, Good
<1>4. SocketsOK' /\ OneAdmission'
  <2>1. SpentOn(s)'
    BY <1>2, <1>3, SpentStill
  <2>2. SocketOK(s)'
    BY <2>1 DEF SocketOK
  <2>3. \A u \in Socket : wire'[u].by \in {wire[u].by, NoToken}
    OBVIOUS
  <2>4. QED
    BY <1>2, <1>3, <2>2, <2>3, OneMoves, NobodyAdmitted
<1>5. TicketGood' /\ Numbered'
  BY DEF PairingIInv, TicketGood, Good, Numbered
<1>6. TokenHonoured'
  <2>1. \A u \in Socket : UnderWay(u, "PAIRED") => UnderWay(u, "PAIRED")'
    BY DEF UnderWay
  <2>2. client.socket \in Socket \cup {NoSocket}
    BY <1>1, Shapes
  <2>3. QED
    BY <2>1, <2>2 DEF PairingIInv, TokenHonoured
<1>7. QED
  BY <1>2, <1>4, <1>5, <1>6 DEF PairingIInv

\* The host accepts a connection.
LEMMA HostAccepts ==
    ASSUME PairingIInv, NEW s \in Socket, Attach(s)
    PROVE  PairingIInv'
<1>1. wire \in [Socket -> Channel]
  BY Shapes DEF PairingIInv
<1>2. /\ wire' \in [Socket -> Channel] /\ \A u \in Socket \ {s} : wire'[u] = wire[u]
      /\ wire'[s].browser = wire[s].browser /\ wire'[s].by = wire[s].by
      /\ wire'[s].toHost = wire[s].toHost /\ wire'[s].toClient = wire[s].toClient
      /\ wire'[s].peer = "waiting" /\ wire[s].peer = "none"
      /\ UNCHANGED <<host, client, ticket, excused>>
  BY <1>1 DEF Attach, Channel, End
<1>3. /\ Sent(s) /\ Its(s) /\ Answered(s) /\ wire[s].toClient = <<>>
      /\ UnderWay(s, "REJECTED") => client.token \in excused
  BY <1>2 DEF PairingIInv, SocketsOK, SocketOK, Sent
<1>4. Sent(s)'
  BY <1>2, <1>3 DEF Sent
<1>5. Its(s)'
  BY <1>2, <1>3 DEF Its
<1>6. Answered(s)'
  BY <1>2, <1>3 DEF Answered, Good
<1>7. /\ UnderWay(s, "REJECTED")' => client.token \in excused
      /\ UnderWay(s, "PAIRED") => UnderWay(s, "PAIRED")'
  BY <1>2, <1>3 DEF UnderWay
<1>8. QED
  BY <1>2, <1>4, <1>5, <1>6, <1>7, HostMoves

\* The host learns that the other end is gone.
LEMMA PeerLeft ==
    ASSUME PairingIInv, NEW s \in Socket, PeerLeaves(s)
    PROVE  PairingIInv'
<1>1. wire \in [Socket -> Channel]
  BY Shapes DEF PairingIInv
<1>2. /\ wire' \in [Socket -> Channel] /\ \A u \in Socket \ {s} : wire'[u] = wire[u]
      /\ wire'[s] = Unused /\ wire[s].browser = "closed"
      /\ UNCHANGED <<host, client, ticket, excused>>
  BY <1>1, FreshRows DEF PeerLeaves
<1>3. Len(wire'[s].toClient) = 0
  BY <1>2, FreshRows
<1>4. Sent(s)' /\ Its(s)'
  BY <1>2, <1>3, FreshRows DEF Sent, Its
<1>5. Answered(s)' /\ ~UnderWay(s, "REJECTED")' /\ ~UnderWay(s, "PAIRED")
  BY <1>2, <1>3 DEF Answered, UnderWay
<1>6. QED
  BY <1>2, <1>4, <1>5, FreshRows, HostMoves

\* The end of a connection on the host's side: the last word is said.
LEMMA ClosingShape ==
    ASSUME NEW w \in Channel, NEW kind \in {"REJECTED", "TIMEOUT", "SHUTDOWN"}
    PROVE  /\ Closing(w, kind) \in Channel
           /\ Closing(w, kind).peer = "leaving" /\ Closing(w, kind).toHost = {}
           /\ Closing(w, kind).browser = w.browser /\ Closing(w, kind).by = w.by
           /\ Closing(w, kind).toClient =
                IF w.browser # "closed" THEN Append(w.toClient, Notice(kind)) ELSE w.toClient
<1>1. Notice(kind) \in Message
  BY DEF Notice, Message
<1>2. w.toClient \in Seq(Message)
  BY DEF Channel
<1>3. Append(w.toClient, Notice(kind)) \in Seq(Message)
  BY <1>1, <1>2
<1>4. QED
  BY <1>2, <1>3 DEF Closing, Channel, End

\* A message more, behind those there are.
LEMMA Appended ==
    ASSUME NEW q \in Seq(Message), NEW m \in Message
    PROVE  /\ Len(Append(q, m)) = Len(q) + 1
           /\ \A i \in 1 .. Len(Append(q, m)) :
                Append(q, m)[i] = IF i = Len(q) + 1 THEN m ELSE q[i]
           /\ \A i \in 1 .. Len(Append(q, m)) : i # Len(q) + 1 => i \in 1 .. Len(q)
           /\ \A i \in 1 .. Len(q) : i \in 1 .. Len(Append(q, m)) /\ Append(q, m)[i] = q[i]
OBVIOUS

\* A connection that the host closes is as it should be, whatever the reason; only a
\* connection that said nothing yet is closed for another reason than a shutdown.
LEMMA ClosedByHost ==
    ASSUME PairingIInv, NEW s \in Socket, NEW kind \in {"REJECTED", "TIMEOUT", "SHUTDOWN"},
           wire[s].peer = "waiting" \/ (wire[s].peer = "identified" /\ kind = "SHUTDOWN"),
           kind = "REJECTED" => wire[s].browser # "connecting",
           client'.token = client.token, client'.socket = client.socket,
           client'.timer = client.timer, ticket' = ticket,
           wire'[s].peer = "leaving", wire'[s].toClient = Closing(wire[s], kind).toClient,
           wire'[s].browser = wire[s].browser,
           wire'[s].toHost = {} \/ (wire'[s].toHost = wire[s].toHost /\ kind = "TIMEOUT"),
           \A t \in Token : Good(t) => Good(t)'
    PROVE  /\ Sent(s)' /\ Its(s)' /\ Answered(s)'
           /\ UnderWay(s, "PAIRED") => UnderWay(s, "PAIRED")'
           /\ UnderWay(s, "REJECTED")' => kind = "REJECTED" /\ wire[s].browser = "open"
<1>1. wire[s] \in Channel /\ wire[s].toClient \in Seq(Message)
  BY Shapes DEF PairingIInv
<1>2. Sent(s) /\ Its(s) /\ Answered(s)
  BY DEF PairingIInv, SocketsOK, SocketOK
<1>3. PICK q, m : q = wire[s].toClient /\ m = Notice(kind)
  OBVIOUS
<1>4. q \in Seq(Message) /\ m \in Message /\ m.kind = kind /\ Len(q) \in Nat
  BY <1>1, <1>3, Messages DEF Notice, Message
<1>5. wire[s].browser = "closed" => q = <<>>
  BY <1>2, <1>3 DEF Sent
<1>6. wire'[s].toClient = IF wire[s].browser # "closed" THEN Append(q, m) ELSE q
  BY <1>1, <1>3, ClosingShape
<1>7. /\ \A i \in 1 .. Len(q) : i = 1 /\ q[i].kind = "PAIRED" /\ wire[s].peer = "identified"
      /\ Len(q) <= 1
  <2>1. CASE wire[s].peer = "waiting"
    BY <1>2, <1>3, <2>1 DEF Sent
  <2>2. CASE wire[s].peer = "identified"
    <3>1. \A i \in 1 .. Len(q) : i = 1 /\ q[i].kind = "PAIRED"
      BY <1>2, <1>3, <2>2 DEF Sent
    <3>2. Len(q) <= 1
      <4>1. CASE Len(q) = 0
        BY <4>1
      <4>2. CASE Len(q) # 0
        <5>1. Len(q) \in 1 .. Len(q)
          BY <1>4, <4>2
        <5>2. QED
          BY <3>1, <5>1
      <4>3. QED
        BY <4>1, <4>2
    <3>3. QED
      BY <2>2, <3>1, <3>2
  <2>3. QED
    BY <2>1, <2>2
<1>8. CASE wire[s].browser = "closed"
  <2>1. wire'[s].toClient = <<>> /\ wire'[s].browser = "closed" /\ Len(wire'[s].toClient) = 0
    BY <1>5, <1>6, <1>8
  <2>2. Sent(s)'
    BY <2>1 DEF Sent
  <2>3. Its(s)' /\ Answered(s)' /\ ~UnderWay(s, "PAIRED") /\ ~UnderWay(s, "REJECTED")'
    BY <1>8, <2>1 DEF Its, Answered, UnderWay
  <2>4. QED
    BY <2>2, <2>3
<1>9. CASE wire[s].browser # "closed"
  <2>1. PICK z : z = wire'[s].toClient
    OBVIOUS
  <2>2. /\ Len(z) = Len(q) + 1
        /\ \A i \in 1 .. Len(z) : (i = Len(q) + 1 /\ z[i] = m) \/ (i \in 1 .. Len(q) /\ z[i] = q[i])
        /\ \A i \in 1 .. Len(q) : i \in 1 .. Len(z) /\ z[i] = q[i]
    BY <1>4, <1>6, <1>9, <2>1, Appended
  <2>3. \A i \in 1 .. Len(z) : i > 1 =>
            i = 2 /\ z[i].kind = "SHUTDOWN" /\ z[1].kind = "PAIRED"
    <3>1. SUFFICES ASSUME NEW i \in 1 .. Len(z), i > 1
                   PROVE  i = 2 /\ z[i].kind = "SHUTDOWN" /\ z[1].kind = "PAIRED"
      OBVIOUS
    <3>2. i = Len(q) + 1 /\ z[i] = m /\ Len(q) = 1 /\ 1 \in 1 .. Len(q)
      <4>1. i \notin 1 .. Len(q)
        BY <1>7, <3>1
      <4>2. i = Len(q) + 1 /\ z[i] = m
        BY <2>2, <3>1, <4>1
      <4>3. PICK n \in Nat : n = Len(q) /\ n <= 1
        BY <1>4, <1>7
      <4>4. n + 1 > 1
        BY <3>1, <4>2, <4>3
      <4>5. n = 1
        BY <4>3, <4>4
      <4>6. QED
        BY <4>2, <4>3, <4>5
    <3>3. z[1] = q[1] /\ q[1].kind = "PAIRED" /\ wire[s].peer = "identified"
      BY <1>7, <2>2, <3>2
    <3>4. QED
      BY <1>4, <3>2, <3>3
  <2>4. wire[s].browser = "connecting" =>
            \A i \in 1 .. Len(z) : z[i].kind \in {"TIMEOUT", "SHUTDOWN"}
    <3>1. SUFFICES ASSUME wire[s].browser = "connecting", NEW i \in 1 .. Len(z)
                   PROVE  z[i].kind \in {"TIMEOUT", "SHUTDOWN"}
      OBVIOUS
    <3>2. i \in 1 .. Len(q) => q[i].kind \in {"TIMEOUT", "SHUTDOWN"}
      BY <1>2, <1>3, <3>1 DEF Sent
    <3>3. QED
      BY <1>4, <2>2, <3>1, <3>2
  <2>5. wire[s].browser = "connecting" => wire'[s].toHost = {}
    BY <1>2 DEF Sent
  <2>6. Sent(s)'
    BY <1>9, <2>1, <2>3, <2>4, <2>5 DEF Sent
  <2>7. Its(s)'
    BY <1>2 DEF Its
  <2>8. Answered(s)'
    <3>1. SUFFICES ASSUME NEW i \in 1 .. Len(z), z[i].kind = "PAIRED"
                   PROVE  wire'[s].toHost = {} /\ Good(z[i].token)' /\ z[i].token # ticket
      BY <2>1 DEF Answered, Good
    <3>2. i \in 1 .. Len(q) /\ z[i] = q[i]
      BY <1>4, <2>2, <3>1
    <3>3. wire[s].toHost = {} /\ Good(z[i].token) /\ z[i].token # ticket
      BY <1>2, <1>3, <3>1, <3>2 DEF Answered
    <3>4. z[i].token \in Token
      BY <1>4, <3>1, <3>2, Messages
    <3>5. QED
      BY <3>3, <3>4
  <2>9. UnderWay(s, "PAIRED") => UnderWay(s, "PAIRED")'
    BY <1>3, <2>1, <2>2 DEF UnderWay
  <2>10. UnderWay(s, "REJECTED")' => kind = "REJECTED" /\ wire[s].browser = "open"
    BY <1>4, <1>7, <2>1, <2>2 DEF UnderWay
  <2>11. QED
    BY <2>6, <2>7, <2>8, <2>9, <2>10
<1>10. QED
  BY <1>8, <1>9

\* A HELLO with a token that is not honoured.
LEMMA HelloRefused ==
    ASSUME PairingIInv, NEW s \in Socket, Reject(s)
    PROVE  PairingIInv'
<1>1. wire \in [Socket -> Channel] /\ PairingTypeOK
  BY Shapes DEF PairingIInv
<1>2. PICK t \in wire[s].toHost :
          /\ wire[s].peer = "waiting" /\ t \notin host.live
          /\ wire' = [wire EXCEPT ![s] = Closing(wire[s], "REJECTED")]
          /\ UNCHANGED <<host, client, ticket, excused>>
  BY <1>1 DEF Reject
<1>3. /\ wire' \in [Socket -> Channel] /\ wire'[s] = Closing(wire[s], "REJECTED")
      /\ \A u \in Socket \ {s} : wire'[u] = wire[u]
  BY <1>1, <1>2, ClosingShape
<1>4. /\ Sent(s) /\ Its(s)
      /\ wire[s].browser # "connecting"
  BY <1>2 DEF PairingIInv, SocketsOK, SocketOK, Sent
<1>5. \A u \in Token : Good(u) => Good(u)'
  BY <1>2 DEF Good
<1>6. /\ wire'[s].peer = "leaving" /\ wire'[s].browser = wire[s].browser
      /\ wire'[s].toHost = {} /\ wire'[s].by = wire[s].by
      /\ wire'[s].toClient = Closing(wire[s], "REJECTED").toClient
  BY <1>1, <1>3, ClosingShape
<1>7. /\ Sent(s)' /\ Its(s)' /\ Answered(s)'
      /\ UnderWay(s, "PAIRED") => UnderWay(s, "PAIRED")'
      /\ UnderWay(s, "REJECTED")' => wire[s].browser = "open"
  BY <1>2, <1>4, <1>5, <1>6, ClosedByHost
<1>8. UnderWay(s, "REJECTED")' => client.token \in excused
  <2>1. SUFFICES ASSUME wire[s].browser = "open" PROVE client.token \in excused
    BY <1>7
  <2>2. t = client.token /\ s = client.socket /\ client.token # NoToken
    BY <1>2, <1>4, <2>1 DEF Its
  <2>3. ~UnderWay(s, "PAIRED")
    <3>1. Len(wire[s].toClient) = 0
      BY <1>2, <1>4 DEF Sent
    <3>2. QED
      BY <3>1 DEF UnderWay
  <2>4. QED
    BY <1>2, <2>2, <2>3 DEF PairingIInv, TokenHonoured
<1>9. QED
  BY <1>2, <1>3, <1>6, <1>7, <1>8, HostMoves

\* Nobody says HELLO in time.
LEMMA HelloTimedOut ==
    ASSUME PairingIInv, NEW s \in Socket, TimeOut(s)
    PROVE  PairingIInv'
<1>1. wire \in [Socket -> Channel] /\ PairingTypeOK
  BY Shapes DEF PairingIInv
<1>2. PICK c : c = Closing(wire[s], "TIMEOUT")
  OBVIOUS
<1>3. /\ c \in Channel /\ c.peer = "leaving" /\ c.browser = wire[s].browser
      /\ c.by = wire[s].by
  BY <1>1, <1>2, ClosingShape
<1>4. PICK r : r = [c EXCEPT !.toHost = wire[s].toHost]
  OBVIOUS
<1>5. /\ wire[s].peer = "waiting" /\ UNCHANGED <<host, client, ticket, excused>>
      /\ wire' = [wire EXCEPT ![s] = r]
  BY <1>2, <1>4 DEF TimeOut
<1>6. wire[s].toHost \in SUBSET Token
  BY <1>1 DEF Channel
<1>7. /\ r \in Channel /\ r.peer = "leaving" /\ r.browser = wire[s].browser
      /\ r.by = wire[s].by /\ r.toClient = c.toClient /\ r.toHost = wire[s].toHost
  BY <1>3, <1>4, <1>6 DEF Channel
<1>8. /\ wire' \in [Socket -> Channel] /\ wire'[s] = r
      /\ \A u \in Socket \ {s} : wire'[u] = wire[u]
  BY <1>1, <1>5, <1>7
<1>9. \A u \in Token : Good(u) => Good(u)'
  BY <1>5 DEF Good
<1>10. /\ Sent(s)' /\ Its(s)' /\ Answered(s)'
       /\ UnderWay(s, "PAIRED") => UnderWay(s, "PAIRED")'
       /\ ~UnderWay(s, "REJECTED")'
  <2>1. /\ wire'[s].peer = "leaving" /\ wire'[s].browser = wire[s].browser
        /\ wire'[s].toHost = wire[s].toHost
        /\ wire'[s].toClient = Closing(wire[s], "TIMEOUT").toClient
    BY <1>2, <1>7, <1>8
  <2>2. QED
    BY <1>5, <1>9, <2>1, ClosedByHost
<1>11. QED
  BY <1>5, <1>7, <1>8, <1>10, HostMoves

\* The host stops: it closes what is open, and its grants die with it.
LEMMA HostStops ==
    ASSUME PairingIInv, Shutdown
    PROVE  PairingIInv'
<1>1. wire \in [Socket -> Channel] /\ PairingTypeOK /\ host \in Hosts
  BY Shapes DEF PairingIInv
<1>2. /\ UNCHANGED <<client, ticket>> /\ excused' = excused \cup host.live
      /\ host' = [host EXCEPT !.up = FALSE, !.live = {}]
      /\ wire' = [s \in Socket |-> IF wire[s].peer \in {"waiting", "identified"}
                                   THEN Closing(wire[s], "SHUTDOWN") ELSE wire[s]]
  BY DEF Shutdown
<1>3. host' \in Hosts /\ host'.live = {} /\ host'.next = host.next /\ host.next \in Nat
  BY <1>1, <1>2 DEF Hosts
<1>4. /\ wire' \in [Socket -> Channel]
      /\ \A s \in Socket : wire[s].peer \in {"waiting", "identified"} =>
            wire'[s] = Closing(wire[s], "SHUTDOWN")
      /\ \A s \in Socket : wire[s].peer \notin {"waiting", "identified"} => wire'[s] = wire[s]
  BY <1>1, <1>2, ClosingShape
<1>5. PairingTypeOK'
  BY <1>1, <1>2, <1>3, <1>4, Shapes DEF PairingTypeOK, Channel, End, Hosts
<1>6. TokensAdvance /\ ClientKeeps /\ \A t \in Token : Good(t) => Good(t)'
  BY <1>2, <1>3 DEF TokensAdvance, ClientKeeps, Good
<1>7. \A s \in Socket : wire'[s].by \in {wire[s].by, NoToken}
  BY <1>1, <1>4, ClosingShape
<1>8. ASSUME NEW s \in Socket
      PROVE  SocketOK(s)' /\ (UnderWay(s, "PAIRED") => UnderWay(s, "PAIRED")')
  <2>1. CASE wire[s].peer \in {"waiting", "identified"}
    <3>1. /\ wire'[s].peer = "leaving" /\ wire'[s].browser = wire[s].browser
          /\ wire'[s].toHost = {} 
          /\ wire'[s].toClient = Closing(wire[s], "SHUTDOWN").toClient
      BY <1>1, <1>4, <2>1, ClosingShape
    <3>2. /\ Sent(s)' /\ Its(s)' /\ Answered(s)'
          /\ UnderWay(s, "PAIRED") => UnderWay(s, "PAIRED")'
          /\ ~UnderWay(s, "REJECTED")'
      BY <1>2, <1>6, <2>1, <3>1, ClosedByHost
    <3>3. SpentOn(s)'
      BY <1>5, <1>6, <1>7, SpentStill
    <3>4. QED
      BY <3>2, <3>3 DEF SocketOK
  <2>2. CASE wire[s].peer \notin {"waiting", "identified"}
    <3>1. wire'[s] = wire[s]
      BY <1>4, <2>2
    <3>2. SocketOK(s)'
      BY <1>5, <1>6, <3>1, OtherStill
    <3>3. QED
      BY <3>1, <3>2 DEF UnderWay
  <2>3. QED
    BY <2>1, <2>2
<1>9. SocketsOK'
  BY <1>8 DEF SocketsOK
<1>10. TicketGood' /\ Numbered'
  BY <1>2, <1>3 DEF PairingIInv, TicketGood, Good, Numbered
<1>11. TokenHonoured'
  <2>1. client.socket \in Socket \cup {NoSocket}
    BY <1>1, Shapes
  <2>2. QED
    BY <1>2, <1>8, <2>1 DEF PairingIInv, TokenHonoured
<1>12. OneAdmission'
  BY <1>7, NobodyAdmitted
<1>13. QED
  BY <1>2, <1>5, <1>9, <1>10, <1>11, <1>12 DEF PairingIInv

\* The browser ends the worker: the client forgets all it knew.
LEMMA WorkerDied ==
    ASSUME PairingIInv, WorkerDies
    PROVE  PairingIInv'
<1>1. PairingTypeOK /\ host \in Hosts /\ host.next \in Nat
  BY Shapes DEF PairingIInv
<1>2. UNCHANGED <<host, ticket, excused>> /\ wire' = Left /\ client' = Waiting
  BY DEF WorkerDies
<1>3. /\ client' \in Clients /\ client'.token = NoToken /\ ~client'.timer
  BY <1>2 DEF Waiting, Clients, Held
<1>4. /\ wire' \in [Socket -> Channel]
      /\ \A s \in Socket : wire'[s].browser = "closed" /\ wire'[s].toClient = <<>>
                           /\ wire'[s].by = wire[s].by
  BY <1>2, LeftShape
<1>5. PairingTypeOK'
  BY <1>1, <1>2, <1>3, <1>4 DEF PairingTypeOK, Channel, Clients, End
<1>6. TokensAdvance
  BY <1>1, <1>2 DEF TokensAdvance
<1>7. SocketsOK'
  BY <1>4, <1>5, <1>6, SpentStill, ClosedIsOK DEF SocketsOK
<1>8. TicketGood' /\ Numbered'
  BY <1>1, <1>2, <1>3 DEF PairingIInv, TicketGood, Good, Numbered, NoToken
<1>9. TokenHonoured'
  BY <1>3 DEF TokenHonoured
<1>10. OneAdmission'
  BY <1>4, NobodyAdmitted
<1>11. QED
  BY <1>3, <1>5, <1>7, <1>8, <1>9, <1>10 DEF PairingIInv

\* The first message is the only one.
LEMMA FirstMessage ==
    ASSUME NEW q \in Seq(Message), NEW m \in Message, Len(q) = 0
    PROVE  /\ Len(Append(q, m)) = 1 /\ Append(q, m)[1] = m
           /\ \A i \in 1 .. Len(Append(q, m)) : i = 1 /\ Append(q, m)[i] = m
OBVIOUS

\* A HELLO with a token that is honoured.
LEMMA HelloAdmitted ==
    ASSUME PairingIInv, NEW s \in Socket, Admit(s)
    PROVE  PairingIInv'
<1>1. /\ wire \in [Socket -> Channel] /\ PairingTypeOK /\ host \in Hosts /\ Numbered
      /\ wire[s] \in Channel /\ wire[s].toClient \in Seq(Message) /\ host.next \in Nat
      /\ client.token \in Held /\ ticket \in Held
  BY Shapes DEF PairingIInv
<1>2. PICK t \in wire[s].toHost :
          /\ wire[s].peer \in {"waiting", "leaving"} /\ t \in host.live
          /\ host' = Issued(Consumed(host, t))
          /\ wire' = [wire EXCEPT ![s] = Admitted(wire[s], t)]
          /\ excused' = IF Heeded(wire[s]) THEN excused ELSE excused \cup {t}
          /\ UNCHANGED <<client, ticket>>
  BY DEF Admit
<1>3. t \in Token /\ t < host.next /\ host.next \in Token
  BY <1>1, <1>2, Shapes DEF Numbered, Token
<1>4. /\ host' \in Hosts /\ host'.live = (host.live \ {t}) \cup {host.next}
      /\ host'.next = host.next + 1
  <2>1. PICK h : h = Consumed(host, t)
    OBVIOUS
  <2>2. h \in Hosts /\ h.live = host.live \ {t} /\ h.next = host.next
    BY <1>1, <2>1 DEF Consumed, Hosts
  <2>3. QED
    BY <1>1, <1>2, <2>1, <2>2, IssuedShape
<1>5. PICK m : m = [kind |-> "PAIRED", token |-> host.next]
  OBVIOUS
<1>6. m \in Message /\ m.kind = "PAIRED" /\ m.token = host.next
  BY <1>3, <1>5 DEF Message
<1>7. /\ Admitted(wire[s], t) \in Channel
      /\ Admitted(wire[s], t).toHost = {} /\ Admitted(wire[s], t).by = t
      /\ Admitted(wire[s], t).browser = wire[s].browser
      /\ Admitted(wire[s], t).peer =
            IF wire[s].peer = "waiting" THEN "identified" ELSE "leaving"
      /\ Admitted(wire[s], t).toClient =
            IF Heeded(wire[s]) THEN Append(wire[s].toClient, m) ELSE wire[s].toClient
  <2>1. Append(wire[s].toClient, m) \in Seq(Message)
    BY <1>1, <1>6
  <2>2. PICK z : z = IF Heeded(wire[s]) THEN Append(wire[s].toClient, m) ELSE wire[s].toClient
    OBVIOUS
  <2>3. z \in Seq(Message)
    BY <1>1, <2>1, <2>2
  <2>4. Admitted(wire[s], t) =
            [browser |-> wire[s].browser, by |-> t, toHost |-> {},
             peer |-> IF wire[s].peer = "waiting" THEN "identified" ELSE wire[s].peer,
             toClient |-> z]
    BY <1>5, <2>2 DEF Admitted
  <2>5. QED
    BY <1>1, <1>2, <1>3, <2>2, <2>3, <2>4 DEF Channel, End, Held
<1>8. /\ wire' \in [Socket -> Channel] /\ wire'[s] = Admitted(wire[s], t)
      /\ \A u \in Socket \ {s} : wire'[u] = wire[u]
  BY <1>1, <1>2, <1>7
<1>9. PairingTypeOK'
  <2>1. excused' \subseteq Token
    BY <1>1, <1>2, <1>3, Shapes
  <2>2. QED
    BY <1>1, <1>2, <1>4, <1>8, <2>1 DEF PairingTypeOK, Channel, End, Hosts
<1>10. TokensAdvance
  <2>1. host.next <= host'.next
    BY <1>1, <1>4
  <2>2. QED
    BY <1>2, <1>4, <2>1 DEF TokensAdvance
<1>11. /\ Sent(s) /\ Its(s) /\ Answered(s) /\ (UnderWay(s, "REJECTED") => client.token \in excused)
  BY DEF PairingIInv, SocketsOK, SocketOK
<1>12. SpentOn(s)'
  BY <1>1, <1>3, <1>4, <1>7, <1>8 DEF SpentOn, Token
<1>13. OneAdmission'
  <2>1. \A u \in Socket : wire[u].by # t
    BY <1>2 DEF PairingIInv, SocketsOK, SocketOK, SpentOn
  <2>2. wire'[s].by = t /\ \A u \in Socket \ {s} : wire'[u].by = wire[u].by
    BY <1>7, <1>8
  <2>3. QED
    BY <2>1, <2>2 DEF PairingIInv, OneAdmission
<1>14. Numbered'
  <2>1. /\ host.next \in Nat /\ client.token \in Nat /\ ticket \in Nat
        /\ \A u \in host.live \cup excused : u \in Nat /\ u < host.next
    BY <1>1, Shapes DEF Numbered, Held, Token, NoToken
  <2>2. client.token < host.next /\ ticket < host.next /\ 1 <= host.next
    BY <1>1 DEF Numbered
  <2>3. \A u \in host'.live \cup excused' : u \in Nat /\ u < host.next + 1
    BY <1>2, <1>3, <1>4, <2>1 DEF Token
  <2>4. QED
    BY <1>2, <1>4, <2>1, <2>2, <2>3 DEF Numbered
<1>15. CASE Heeded(wire[s])
  <2>1. /\ wire[s].peer = "waiting" /\ wire[s].browser = "open" /\ wire[s].toClient = <<>>
        /\ excused' = excused
    BY <1>2, <1>11, <1>15 DEF Heeded, Sent
  <2>2. s = client.socket /\ t = client.token /\ ~client.timer /\ client.token # NoToken
    BY <1>2, <1>11, <2>1 DEF Its
  <2>3. PICK q, z : q = wire[s].toClient /\ z = Append(q, m)
    OBVIOUS
  <2>4. q \in Seq(Message) /\ Len(q) = 0 /\ z = wire'[s].toClient
    BY <1>1, <1>7, <1>8, <1>15, <2>1, <2>3
  <2>5. Len(z) = 1 /\ z[1] = m /\ \A i \in 1 .. Len(z) : i = 1 /\ z[i] = m
    <3>1. q \in Seq(Message) /\ m \in Message /\ Len(q) = 0
      BY <1>6, <2>4
    <3>2. /\ Len(Append(q, m)) = 1 /\ Append(q, m)[1] = m
          /\ \A i \in 1 .. Len(Append(q, m)) : i = 1 /\ Append(q, m)[i] = m
      BY <3>1, FirstMessage
    <3>3. z = Append(q, m)
      BY <2>3
    <3>4. QED
      BY <3>2, <3>3
  <2>6. Sent(s)'
    <3>1. wire'[s].browser = "open" /\ wire'[s].peer = "identified" /\ z = wire'[s].toClient
      BY <1>7, <1>8, <2>1, <2>4
    <3>2. \A i \in 1 .. Len(z) : i = 1 /\ z[i].kind = "PAIRED"
      BY <1>6, <2>5
    <3>3. QED
      BY <3>1, <3>2 DEF Sent
  <2>7. Its(s)'
    BY <1>2, <1>7, <1>8, <2>2 DEF Its
  <2>8. Answered(s)' /\ ~UnderWay(s, "REJECTED")' /\ UnderWay(s, "PAIRED")'
    <3>1. host.next \in host'.live /\ host.next # ticket'
      BY <1>1, <1>2, <1>4 DEF Numbered, Held, Token, NoToken
    <3>2. /\ wire'[s].browser = "open" /\ wire'[s].toHost = {} /\ z = wire'[s].toClient
      BY <1>7, <1>8, <2>1, <2>4
    <3>3. Answered(s)'
      BY <1>6, <2>5, <3>1, <3>2 DEF Answered, Good
    <3>4. ~UnderWay(s, "REJECTED")' /\ UnderWay(s, "PAIRED")'
      <4>1. Len(z) = 1
        BY <2>5
      <4>2. 1 \in 1 .. Len(z)
        BY <4>1
      <4>3. QED
        BY <1>6, <2>5, <3>2, <4>2 DEF UnderWay
    <3>5. QED
      BY <3>3, <3>4
  <2>9. SocketsOK'
    <3>1. SocketOK(s)'
      BY <1>12, <2>6, <2>7, <2>8 DEF SocketOK
    <3>2. QED
      BY <1>8, <1>9, <1>10, <2>2, <3>1, OneMoves
  <2>10. TicketGood'
    BY <1>2, <1>4, <2>1, <2>2 DEF PairingIInv, TicketGood, Good
  <2>11. TokenHonoured'
    <3>1. s # NoSocket
      BY PairingAssumption
    <3>2. QED
      BY <1>2, <2>2, <2>8, <3>1 DEF TokenHonoured
  <2>12. QED
    BY <1>2, <1>9, <1>13, <1>14, <2>2, <2>9, <2>10, <2>11 DEF PairingIInv
<1>16. CASE ~Heeded(wire[s])
  <2>1. /\ excused' = excused \cup {t} /\ wire'[s].toClient = wire[s].toClient
        /\ wire'[s].toHost = {} /\ wire'[s].browser = wire[s].browser
    BY <1>2, <1>7, <1>8, <1>16
  <2>2. \A u : Good(u) => Good(u)'
    BY <1>2, <1>4, <2>1 DEF Good
  <2>3. ClientKeeps
    BY <1>2, <2>2 DEF ClientKeeps
  <2>4. Sent(s)'
    <3>1. CASE wire[s].peer = "leaving"
      BY <1>7, <1>8, <1>11, <2>1, <3>1 DEF Sent
    <3>2. CASE wire[s].peer = "waiting"
      <4>1. wire[s].toClient = <<>> /\ Len(wire[s].toClient) = 0
        BY <1>11, <3>2 DEF Sent
      <4>2. QED
        BY <1>7, <1>8, <1>11, <2>1, <3>2, <4>1 DEF Sent
    <3>3. QED
      BY <1>2, <3>1, <3>2
  <2>5. Its(s)'
    BY <1>2, <1>11, <2>1 DEF Its
  <2>6. Answered(s)'
    BY <1>2, <1>11, <2>1, <2>2 DEF Answered
  <2>7. UnderWay(s, "REJECTED")' => client'.token \in excused'
    BY <1>2, <1>11, <2>1 DEF UnderWay
  <2>8. SocketsOK'
    <3>1. SocketOK(s)'
      BY <1>12, <2>4, <2>5, <2>6, <2>7 DEF SocketOK
    <3>2. QED
      BY <1>8, <1>9, <1>10, <2>3, <3>1, OneMoves
  <2>9. TicketGood'
    BY <1>2, <2>2 DEF PairingIInv, TicketGood
  <2>10. TokenHonoured'
    <3>1. \A u \in Socket : UnderWay(u, "PAIRED") => UnderWay(u, "PAIRED")'
      BY <1>8, <2>1 DEF UnderWay
    <3>2. client.socket \in Socket \cup {NoSocket}
      BY <1>1, Shapes
    <3>3. client.token \in host.live \cup excused => client.token \in host'.live \cup excused'
      BY <2>2 DEF Good
    <3>4. QED
      BY <1>2, <3>1, <3>2, <3>3 DEF PairingIInv, TokenHonoured
  <2>11. QED
    BY <1>2, <1>9, <1>13, <1>14, <2>8, <2>9, <2>10 DEF PairingIInv
<1>17. QED
  BY <1>15, <1>16

\* Nothing is paired at first.
LEMMA PairingStarts == PairingInit => PairingIInv
<1> SUFFICES ASSUME PairingInit PROVE PairingIInv
  OBVIOUS
<1>1. /\ host = [up |-> TRUE, live |-> {}, next |-> 1] /\ client = Waiting
      /\ wire = [s \in Socket |-> Unused] /\ ticket = NoToken /\ excused = {}
  BY DEF PairingInit
<1>2. /\ host \in Hosts /\ host.live = {} /\ host.next = 1
      /\ client \in Clients /\ client.token = NoToken /\ client.timer = FALSE
  BY <1>1 DEF Hosts, Clients, Waiting, Held
<1>3. wire \in [Socket -> Channel] /\ \A s \in Socket : wire[s] = Unused
  BY <1>1, FreshRows
<1>4. PairingTypeOK
  BY <1>1, <1>2, <1>3 DEF PairingTypeOK, Channel, Clients, Hosts, End, Held
<1>5. SocketsOK
  <2>1. SUFFICES ASSUME NEW s \in Socket PROVE SocketOK(s)
    BY DEF SocketsOK
  <2>2. /\ wire[s].browser = "closed" /\ wire[s].toClient = <<>> /\ Len(wire[s].toClient) = 0
        /\ wire[s].by = NoToken
    BY <1>3, FreshRows
  <2>3. Sent(s)
    BY <2>2 DEF Sent
  <2>4. Its(s) /\ Answered(s) /\ ~UnderWay(s, "REJECTED")
    BY <2>2 DEF Its, Answered, UnderWay
  <2>5. SpentOn(s)
    BY <1>2, <2>2 DEF SpentOn, NoToken
  <2>6. QED
    BY <2>3, <2>4, <2>5 DEF SocketOK
<1>6. TicketGood /\ Numbered
  BY <1>1, <1>2 DEF TicketGood, Numbered, NoToken
<1>7. TokenHonoured /\ OneAdmission
  BY <1>2, <1>3, FreshRows DEF TokenHonoured, OneAdmission
<1>8. QED
  BY <1>2, <1>4, <1>5, <1>6, <1>7 DEF PairingIInv

\* One step for each thing that the user, the client, the host and the network do.
LEMMA PairingSteps == PairingIInv /\ [PairingNext]_pairingVars => PairingIInv'
<1> SUFFICES ASSUME PairingIInv, [PairingNext]_pairingVars PROVE PairingIInv'
  OBVIOUS
<1>1. CASE UNCHANGED pairingVars
  <2>1. UNCHANGED <<host, wire, client, ticket, excused>>
    BY <1>1 DEF pairingVars
  <2>2. PairingTypeOK' /\ TicketGood' /\ Numbered' /\ OneAdmission'
    BY <2>1 DEF PairingIInv, PairingTypeOK, TicketGood, Good, Numbered, OneAdmission
  <2>3. SocketsOK' /\ TokenHonoured'
    BY <2>1 DEF PairingIInv, SocketsOK, SocketOK, Sent, Its, Answered, Good, SpentOn, UnderWay,
                TokenHonoured
  <2>4. QED
    BY <2>1, <2>2, <2>3 DEF PairingIInv
<1>2. CASE PairingNext
  BY <1>2, TicketIssued, GrantExpired, UserPairs, SocketOpens, ClientPaired, ClientRejected,
     ClientTold, ClientReconnects, HostAccepts, HelloAdmitted, HelloRefused, HelloTimedOut,
     PeerLeft, ConnectionBroken, HostUnreachable, HostStops, HostStarted, WorkerDied
     DEF PairingNext
<1>3. QED
  BY <1>1, <1>2

\* The inductive invariant of the pairing holds in every state.
THEOREM PairingInvariance == PairingSpec => []PairingIInv
  BY PairingStarts, PairingSteps, PTL DEF PairingSpec

\* For any number of sockets, pairings and faults: the token a client holds is one the
\* host honours or need not honour, nobody is turned away for another reason, and a
\* token admits one connection (companion-server.ts, protocol-client.ts).
THEOREM PairingStandsSound == PairingSpec => []PairingIsSound
<1>1. PairingIInv => PairingIsSound
  BY DEF PairingIInv, PairingIsSound, SocketsOK, SocketOK, RejectedForCause
<1>2. QED
  BY <1>1, PairingInvariance, PTL
=============================================================================
