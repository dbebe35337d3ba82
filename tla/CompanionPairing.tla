---------------------------- MODULE CompanionPairing ----------------------------
(***************************************************************************)
(* Pairing of the browser extension with the companion host               *)
(* (services/companion-host, apps/companion-extension/src/background).     *)
(*                                                                         *)
(* The host gives out tokens; a token admits one connection, and the       *)
(* answer to it carries the token of the next.  The client reconnects by   *)
(* itself after whatever closes its socket without a reason it calls       *)
(* terminal.  Messages of one direction keep their order; a connection     *)
(* breaks with what it carries, the host finds out later than the browser, *)
(* and both ends lose their memory when they stop.                         *)
(***************************************************************************)
EXTENDS Naturals, Sequences

CONSTANTS
    Socket,         \* connections; one that both ends have left is used again
    NoSocket,       \* no connection
    MaxPairs,       \* bound on the tokens a user asks for
    MaxFaults       \* bound on breaks, refusals, restarts and dead workers

ASSUME PairingAssumption == NoSocket \notin Socket /\ MaxPairs \in Nat /\ MaxFaults \in Nat

\* Random in the code: here each one is new, in the order they are given out.
Token == Nat \ {0}
NoToken == 0
Held == Token \cup {NoToken}

VARIABLES
    host,           \* [up, live, next]: the grants it honours, the next token
    wire,           \* per socket: how each end sees it, who was admitted, what
                    \* is under way
    client,         \* [state, token, socket, stopped, timer]
    ticket,         \* a token shown to the user and not used yet
    excused,        \* history: tokens that need not be honoured any more
    pairs, faults   \* how many of each there were

pairingVars == <<host, wire, client, ticket, excused, pairs, faults>>

Unused == [browser |-> "closed", peer |-> "closed", by |-> NoToken,
           toHost |-> {}, toClient |-> <<>>]
Dialled == [Unused EXCEPT !.browser = "connecting", !.peer = "none"]

Message == [kind : {"PAIRED"}, token : Token]
           \cup [kind : {"REJECTED", "TIMEOUT", "SHUTDOWN"}, token : {NoToken}]
Notice(kind) == [kind |-> kind, token |-> NoToken]

Waiting == [state |-> "PAIRING_REQUIRED", token |-> NoToken, socket |-> NoSocket,
            stopped |-> FALSE, timer |-> FALSE]

PairingInit ==
    /\ host = [up |-> TRUE, live |-> {}, next |-> 1]
    /\ wire = [s \in Socket |-> Unused]
    /\ client = Waiting
    /\ ticket = NoToken
    /\ excused = {}
    /\ pairs = 0
    /\ faults = 0

----------------------------------------------------------------------------
(* Grants.                                                                 *)

\* issue: the host with a grant for its next token.
Issued(h) == [up |-> h.up, live |-> h.live \cup {h.next}, next |-> h.next + 1]

\* Mutant of Consumed: a grant is good for as many connections as like.
StillGranted(h, t) == h

\* consume: whatever becomes of the call, the grant is gone.
Consumed(h, t) == [h EXCEPT !.live = @ \ {t}]

\* POST /pairing, for a user who is about to pair.
IssueTicket ==
    /\ host.up /\ ticket = NoToken /\ pairs < MaxPairs
    /\ host' = Issued(host)
    /\ ticket' = host.next
    /\ pairs' = pairs + 1
    /\ UNCHANGED <<wire, client, excused, faults>>

\* A grant outlives its time: consume will not find it any more.
GrantExpires(t) ==
    /\ host' = Consumed(host, t)
    /\ excused' = excused \cup {t}
    /\ UNCHANGED <<wire, client, ticket, pairs, faults>>

----------------------------------------------------------------------------
(* The client.                                                             *)

\* What the browser's end of a socket is once the client has left it.
HungUp(w) == [w EXCEPT !.browser = "closed", !.toClient = <<>>]
Left == [s \in Socket |-> IF s = client.socket THEN HungUp(wire[s]) ELSE wire[s]]

Free(s) == wire[s].browser = "closed" /\ wire[s].peer = "closed"

\* pair: start stops what there is, its timer included, and connects anew.
Pair(s) ==
    /\ ticket # NoToken /\ Free(s)
    /\ wire' = [Left EXCEPT ![s] = Dialled]
    /\ client' = [state |-> "CONNECTING", token |-> ticket, socket |-> s,
                  stopped |-> FALSE, timer |-> FALSE]
    /\ ticket' = NoToken
    /\ UNCHANGED <<host, excused, pairs, faults>>

\* The socket opens: the client says HELLO with the token it holds.
Open(s) ==
    /\ wire[s].browser = "connecting" /\ wire[s].peer # "none"
    /\ ~client.stopped /\ s = client.socket /\ client.token # NoToken
    /\ wire' = [wire EXCEPT ![s].browser = "open", ![s].toHost = {client.token}]
    /\ UNCHANGED <<host, client, ticket, excused, pairs, faults>>

Heard(s) == Head(wire[s].toClient)
Hears(s, kinds) ==
    wire[s].browser = "open" /\ wire[s].toClient # <<>> /\ Heard(s).kind \in kinds

\* PAIRED: the client keeps the token of its next connection.
Paired(s) ==
    /\ Hears(s, {"PAIRED"})
    /\ client' = [client EXCEPT !.token = Heard(s).token, !.state = "CONNECTED"]
    /\ wire' = [wire EXCEPT ![s].toClient = Tail(@)]
    /\ UNCHANGED <<host, ticket, excused, pairs, faults>>

\* An error of the protocol: #closeTerminal.
Rejected(s) ==
    /\ Hears(s, {"REJECTED", "TIMEOUT"})
    /\ client' = [client EXCEPT !.state = "PAIRING_REQUIRED", !.token = NoToken, !.stopped = TRUE]
    /\ wire' = [wire EXCEPT ![s] = HungUp(@)]
    /\ UNCHANGED <<host, ticket, excused, pairs, faults>>

\* Mutant of Unavailable: no timer is set.
UnavailableForGood(c) == [c EXCEPT !.state = "HOST_UNAVAILABLE"]

\* The close handler, for a reason that is not terminal.
Unavailable(c) == [c EXCEPT !.state = "HOST_UNAVAILABLE", !.timer = TRUE]

ToldOfShutdown(s) ==
    /\ Hears(s, {"SHUTDOWN"})
    /\ client' = Unavailable(client)
    /\ wire' = [wire EXCEPT ![s] = HungUp(@)]
    /\ UNCHANGED <<host, ticket, excused, pairs, faults>>

\* The timer of the close handler: #connect.
Reconnect(s) ==
    /\ client.timer /\ Free(s)
    /\ wire' = [wire EXCEPT ![s] = Dialled]
    /\ client' = [client EXCEPT !.state = "RECONNECTING", !.socket = s, !.timer = FALSE]
    /\ UNCHANGED <<host, ticket, excused, pairs, faults>>

----------------------------------------------------------------------------
(* The host.                                                               *)

Attach(s) ==
    /\ host.up /\ wire[s].peer = "none"
    /\ wire' = [wire EXCEPT ![s].peer = "waiting"]
    /\ UNCHANGED <<host, client, ticket, excused, pairs, faults>>

\* The client is there to hear of its admission.
Heeded(w) == w.peer = "waiting" /\ w.browser = "open"

\* The connection that token t admitted; the answer to it carries the next one.
Admitted(w, t) ==
    [browser |-> w.browser, by |-> t, toHost |-> {},
     peer |-> IF w.peer = "waiting" THEN "identified" ELSE w.peer,
     toClient |-> IF Heeded(w)
                  THEN Append(w.toClient, [kind |-> "PAIRED", token |-> host.next])
                  ELSE w.toClient]

\* HELLO with a token that is honoured: the replacement is issued and sent.  A
\* connection that is being closed for its delay still takes a HELLO.
Admit(s) == \E t \in wire[s].toHost :
    /\ host.up /\ wire[s].peer \in {"waiting", "leaving"} /\ t \in host.live
    /\ host' = Issued(Consumed(host, t))
    /\ wire' = [wire EXCEPT ![s] = Admitted(wire[s], t)]
    /\ excused' = IF Heeded(wire[s]) THEN excused ELSE excused \cup {t}
    /\ UNCHANGED <<client, ticket, pairs, faults>>

\* closeWithProtocolError: what is sent, and the end of the connection.
Closing(w, kind) ==
    [w EXCEPT !.peer = "leaving", !.toHost = {},
              !.toClient = IF w.browser # "closed" THEN Append(@, Notice(kind)) ELSE @]

Reject(s) == \E t \in wire[s].toHost :
    /\ host.up /\ wire[s].peer = "waiting" /\ t \notin host.live
    /\ wire' = [wire EXCEPT ![s] = Closing(@, "REJECTED")]
    /\ UNCHANGED <<host, client, ticket, excused, pairs, faults>>

\* preAuthTimeout; a HELLO that is under way still arrives.
TimeOut(s) ==
    /\ host.up /\ wire[s].peer = "waiting"
    /\ wire' = [wire EXCEPT ![s] = [Closing(@, "TIMEOUT") EXCEPT !.toHost = wire[s].toHost]]
    /\ UNCHANGED <<host, client, ticket, excused, pairs, faults>>

\* The host learns that the browser's end is gone.
PeerLeaves(s) ==
    /\ wire[s].browser = "closed" /\ wire[s].peer # "closed"
    /\ wire' = [wire EXCEPT ![s] = Unused]
    /\ UNCHANGED <<host, client, ticket, excused, pairs, faults>>

----------------------------------------------------------------------------
(* What goes wrong.                                                        *)

Fault == faults < MaxFaults /\ faults' = faults + 1

\* A token that was spent on an answer which is lost.
Unheard(s) ==
    IF \E i \in 1 .. Len(wire[s].toClient) : wire[s].toClient[i].kind = "PAIRED"
    THEN {client.token} ELSE {}

\* The connection breaks, or the host turns it away (429): the socket closes
\* without a reason.
Break(s) ==
    /\ Fault
    /\ s = client.socket /\ wire[s].browser # "closed"
    /\ wire' = [wire EXCEPT ![s] = HungUp(@)]
    /\ client' = Unavailable(client)
    /\ excused' = excused \cup Unheard(s)
    /\ UNCHANGED <<host, ticket, pairs>>

\* Nobody listens.
Unreachable(s) ==
    /\ ~host.up
    /\ wire[s].browser = "connecting" /\ wire[s].peer = "none"
    /\ wire' = [wire EXCEPT ![s] = Unused]
    /\ client' = Unavailable(client)
    /\ UNCHANGED <<host, ticket, excused, pairs, faults>>

\* The host stops: it closes every connection, and its grants die with it.
Shutdown ==
    /\ Fault /\ host.up
    /\ host' = [host EXCEPT !.up = FALSE, !.live = {}]
    /\ excused' = excused \cup host.live
    /\ wire' = [s \in Socket |->
                  IF wire[s].peer \in {"waiting", "identified"}
                  THEN Closing(wire[s], "SHUTDOWN") ELSE wire[s]]
    /\ UNCHANGED <<client, ticket, pairs>>

HostStarts ==
    /\ ~host.up
    /\ host' = [host EXCEPT !.up = TRUE]
    /\ UNCHANGED <<wire, client, ticket, excused, pairs, faults>>

\* The browser ends the service worker: it starts again without a token.
WorkerDies ==
    /\ Fault /\ client # Waiting
    /\ wire' = Left
    /\ client' = Waiting
    /\ UNCHANGED <<host, ticket, excused, pairs>>

PairingNext ==
    \/ IssueTicket
    \/ \E t \in host.live : GrantExpires(t)
    \/ \E s \in Socket :
         \/ Pair(s) \/ Open(s) \/ Paired(s) \/ Rejected(s) \/ ToldOfShutdown(s)
         \/ Reconnect(s) \/ Attach(s) \/ Admit(s) \/ Reject(s) \/ TimeOut(s)
         \/ PeerLeaves(s) \/ Break(s) \/ Unreachable(s)
    \/ Shutdown \/ HostStarts \/ WorkerDies

PairingSpec == PairingInit /\ [][PairingNext]_pairingVars

\* Event loops turn, timers fire, the network delivers or fails.  Nothing is
\* owed by the user, nor does anybody start a host that stopped.
PairingGoesOn(s) ==
    Open(s) \/ Paired(s) \/ Rejected(s) \/ ToldOfShutdown(s) \/ Reconnect(s)
    \/ Attach(s) \/ Admit(s) \/ Reject(s) \/ PeerLeaves(s) \/ Unreachable(s)

PairingFairSpec == PairingSpec /\ \A s \in Socket : WF_pairingVars(PairingGoesOn(s))

-----------------------------------------------------------------------------
(* Properties                                                              *)

\* What the two ends keep, and what is under way, have the shape of the code's.
PairingTypeOK ==
    /\ host \in [up : BOOLEAN, live : SUBSET Token, next : Nat]
    /\ wire \in [Socket ->
            [browser : {"closed", "connecting", "open"},
             peer : {"closed", "none", "waiting", "identified", "leaving"},
             by : Held, toHost : SUBSET Token, toClient : Seq(Message)]]
    /\ client \in
            [state : {"PAIRING_REQUIRED", "CONNECTING", "CONNECTED", "HOST_UNAVAILABLE",
                      "RECONNECTING"},
             token : Held, socket : Socket \cup {NoSocket}, stopped : BOOLEAN, timer : BOOLEAN]
    /\ ticket \in Held /\ excused \in SUBSET Token

UnderWay(s, kind) ==
    wire[s].browser = "open"
    /\ \E i \in 1 .. Len(wire[s].toClient) : wire[s].toClient[i].kind = kind

\* The token the client will say HELLO with is one the host honours, or its
\* successor is on the way, unless it expired, the host stopped, or the answer it
\* was spent on was lost.
TokenHonoured ==
    client.token # NoToken =>
        \/ client.token \in host.live \cup excused
        \/ client.socket # NoSocket /\ UnderWay(client.socket, "PAIRED")

\* A user is sent back to pairing for one of those reasons only, however breaks,
\* reconnections and pairings anew cross.
RejectedForCause ==
    \A s \in Socket : UnderWay(s, "REJECTED") => client.token \in excused

\* A token admits one connection, though a client whose answer was lost says HELLO
\* again on another while the host still has the first.
OneAdmission ==
    \A s \in Socket, u \in Socket :
        wire[s].by = wire[u].by /\ wire[s].by # NoToken => s = u

\* Both ends are well formed, a pairing lasts from token to token, and each of them
\* serves once.
PairingIsSound == PairingTypeOK /\ TokenHonoured /\ RejectedForCause /\ OneAdmission

\* Once the host stays up and faults come to an end, the client ends up connected
\* or asking for a pairing: it never waits for ever.
ClientSettles ==
    <>[]host.up => []<>(client.state \in {"CONNECTED", "PAIRING_REQUIRED"})
=============================================================================
