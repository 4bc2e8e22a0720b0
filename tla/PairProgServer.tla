---------------------------- MODULE PairProgServer ----------------------------
(***************************************************************************)
(* The host's protocol endpoint (src/network/server.ts): one slot for the  *)
(* client socket, the listeners of every socket that ever held it, the     *)
(* heartbeat, and the adoption of sockets that reach the host through the  *)
(* relay.  The synchronous reaction of HostSession to the three events the *)
(* endpoint emits is part of the step that emits them, because it runs     *)
(* inside emit(): rejectClient() from onClientConnected(), and the closing *)
(* of the relay channel from onClientDisconnected().                       *)
(*                                                                         *)
(* A socket is used for one connection.  readyState goes                   *)
(* none -> open -> closing -> closed; the 'close' event is the last step,  *)
(* and frames already received may still be delivered while closing.       *)
(***************************************************************************)
EXTENDS Naturals, Sequences

CONSTANTS
    LanSock,     \* sockets accepted by the host's own ws.Server
    RelaySock,   \* sockets the host itself opens to the relay
    NoSocket,    \* the null of this.client
    MaxMissed,   \* MAX_MISSED_PINGS
    MaxOwed,     \* bound: pings a peer is remembered to owe an answer to
    MaxInbox     \* bound: frames in flight on one socket

Sock == LanSock \cup RelaySock

ASSUME SocketAssumption ==
    /\ LanSock \cap RelaySock = {}
    /\ NoSocket \notin Sock

ASSUME BoundAssumption ==
    /\ MaxMissed \in Nat
    /\ MaxOwed \in Nat
    /\ MaxInbox \in Nat

VARIABLES
    phase,       \* "idle", "running", "stopped"
    hostListens, \* HostSession has attached its listeners to the events
    slot,        \* this.client
    missed,      \* this.missedPings
    ws,          \* readyState of each socket, on the host
    lsn,         \* which listeners the server has on it: none, first frame, all
    inbox,       \* frames of the peer not yet delivered
    owed,        \* pings the peer has not answered yet
    alive,       \* FALSE: the peer has gone without a word
    hello,       \* what became of the peer's Hello
    hostSees,    \* HostSession holds that a client is connected
    unanswered   \* history: pings sent since the last Pong read from the
                 \* socket, counted up to MaxMissed

vars == <<phase, hostListens, slot, missed, ws, lsn, inbox, owed, alive, hello, hostSees, unanswered>>

Frame == {"Hello", "Pong", "Data"}

TypeOK ==
    /\ phase \in {"idle", "running", "stopped"}
    /\ hostListens \in BOOLEAN
    /\ slot \in Sock \cup {NoSocket}
    /\ missed \in 0..MaxMissed
    /\ ws \in [Sock -> {"none", "open", "closing", "closed"}]
    /\ lsn \in [Sock -> {"none", "first", "attached"}]
    /\ inbox \in [Sock -> Seq(Frame)]
    /\ owed \in [Sock -> 0..MaxOwed]
    /\ alive \in [Sock -> BOOLEAN]
    /\ hello \in [Sock -> {"none", "sent", "lost", "read", "heard"}]
    /\ hostSees \in BOOLEAN
    /\ unanswered \in [Sock -> Nat]

Init ==
    /\ phase = "idle"
    /\ hostListens = FALSE
    /\ slot = NoSocket
    /\ missed = 0
    /\ ws = [s \in Sock |-> "none"]
    /\ lsn = [s \in Sock |-> "none"]
    /\ inbox = [s \in Sock |-> << >>]
    /\ owed = [s \in Sock |-> 0]
    /\ alive = [s \in Sock |-> TRUE]
    /\ hello = [s \in Sock |-> "none"]
    /\ hostSees = FALSE
    /\ unanswered = [s \in Sock |-> 0]

-------------------------------------------------------------------------------
Holds(c) == c # NoSocket /\ ws[c] = "open"      \* this.client && OPEN

HasClient == Holds(slot)

\* HostSession.onClientDisconnected() returns early once the session stops.
Hosting == phase = "running" /\ hostListens

\* close() of every socket in S that is still open.
CloseAll(w, S) == [s \in Sock |-> IF s \in S /\ w[s] = "open" THEN "closing" ELSE w[s]]

\* emit("clientDisconnected"): the host forgets the client and re-opens its
\* relay channel, which first closes the one it has.
EmitDisconnected(w) ==
    /\ hostSees' = (hostSees /\ ~Hosting)
    /\ ws' = IF Hosting THEN CloseAll(w, RelaySock) ELSE w

\* emit("clientConnected") while c is this.client.  The host may turn the
\* client away (protocol version, passphrase): rejectClient() acts on c.
EmitConnected(s, c, reject) ==
    /\ hostSees' = (hostSees \/ hostListens)
    /\ hello' = [hello EXCEPT ![s] = IF hostListens THEN "heard" ELSE "read"]
    /\ IF reject /\ hostListens /\ Holds(c)
         THEN /\ ws' = [ws EXCEPT ![c] = "closing"]
              /\ slot' = NoSocket
         ELSE /\ slot' = c
              /\ UNCHANGED ws

\* Mutant: the limit is compared one ping late.
PastLimitLate(n) == n > MaxMissed + 1

PastLimit(n) == n > MaxMissed

\* Mutant: the tick sends its ping without counting it.
CountPingNever(n) == n

CountPing(n) == n + 1

Owe(n) == IF n < MaxOwed THEN n + 1 ELSE n

Unanswered(n) == IF n < MaxMissed THEN n + 1 ELSE n

-------------------------------------------------------------------------------
(* Life of the endpoint *)

\* server.start(): the port is open and the heartbeat runs.
Start ==
    /\ phase = "idle"
    /\ phase' = "running"
    /\ UNCHANGED <<hostListens, slot, missed, ws, lsn, inbox, owed, alive, hello, hostSees, unanswered>>

\* The last thing HostSession.start() does, after it has waited for the relay
\* to answer its registration.
StartListening ==
    /\ phase # "idle" /\ ~hostListens
    /\ hostListens' = TRUE
    /\ UNCHANGED <<phase, slot, missed, ws, lsn, inbox, owed, alive, hello, hostSees, unanswered>>

\* HostSession.stop(): the relay channel, then server.stop().
Stop ==
    /\ phase = "running"
    /\ phase' = "stopped"
    /\ ws' = CloseAll(ws, RelaySock \cup {slot})
    /\ slot' = NoSocket
    /\ hostSees' = FALSE
    /\ UNCHANGED <<hostListens, missed, lsn, inbox, owed, alive, hello, unanswered>>

-------------------------------------------------------------------------------
(* Connections *)

\* Mutant: the counter of the previous client is kept.
AttachKeepingCount(s) ==
    /\ lsn' = [lsn EXCEPT ![s] = "attached"]
    /\ UNCHANGED missed

\* The listeners for all frames, and a fresh heartbeat count.
Attach(s) ==
    /\ lsn' = [lsn EXCEPT ![s] = "attached"]
    /\ missed' = 0

\* A refused socket is told SESSION_FULL and closed; it never gets listeners.
\* A client sends its Hello as soon as it is connected.
HandleNewConnection(s) ==
    /\ phase = "running"
    /\ ws[s] = "none"
    /\ IF HasClient
         THEN /\ ws' = [ws EXCEPT ![s] = "closing"]
              /\ UNCHANGED <<slot, missed, lsn, inbox, hello>>
         ELSE /\ ws' = [ws EXCEPT ![s] = "open"]
              /\ slot' = s
              /\ Attach(s)
              /\ inbox' = [inbox EXCEPT ![s] = <<"Hello">>]
              /\ hello' = [hello EXCEPT ![s] = "sent"]
    /\ UNCHANGED <<phase, hostListens, owed, alive, hostSees, unanswered>>

\* The relay channel opened by HostRelayBridge.openChannels(); the bridge
\* closed the previous one before.
AdoptRelaySocket(s) ==
    /\ Hosting
    /\ ws[s] = "none"
    /\ \A r \in RelaySock : ws[r] # "open"
    /\ ws' = [ws EXCEPT ![s] = "open"]
    /\ lsn' = [lsn EXCEPT ![s] = "first"]
    /\ UNCHANGED <<phase, hostListens, slot, missed, inbox, owed, alive, hello, hostSees, unanswered>>

-------------------------------------------------------------------------------
(* The peer and the network *)

Send(s, f) == inbox' = [inbox EXCEPT ![s] = Append(@, f)]

CanSend(s) ==
    /\ alive[s]
    /\ ws[s] = "open"
    /\ Len(inbox[s]) < MaxInbox

\* The Hello of a client that joins through the relay.
PeerHello(s) ==
    /\ CanSend(s) /\ lsn[s] = "first" /\ hello[s] = "none"
    /\ Send(s, "Hello")
    /\ hello' = [hello EXCEPT ![s] = "sent"]
    /\ UNCHANGED <<phase, hostListens, slot, missed, ws, lsn, owed, alive, hostSees, unanswered>>

\* The relay forwards only what arrives while the host's channel is open, so
\* the Hello may be missing and another frame come first.  Elsewhere a frame
\* that is neither Hello nor Pong only passes through to the router and
\* changes nothing here: it is left out.
PeerData(s) ==
    /\ CanSend(s) /\ lsn[s] = "first" /\ hello[s] = "none"
    /\ Send(s, "Data")
    /\ hello' = [hello EXCEPT ![s] = "lost"]
    /\ UNCHANGED <<phase, hostListens, slot, missed, ws, lsn, owed, alive, hostSees, unanswered>>

PeerPong(s) ==
    /\ CanSend(s) /\ hello[s] # "none" /\ owed[s] > 0
    /\ Send(s, "Pong")
    /\ owed' = [owed EXCEPT ![s] = @ - 1]
    /\ UNCHANGED <<phase, hostListens, slot, missed, ws, lsn, alive, hello, hostSees, unanswered>>

\* The peer's machine sleeps or loses its network: no frame, no close.
PeerVanishes(s) ==
    /\ alive[s] /\ ws[s] = "open"
    /\ alive' = [alive EXCEPT ![s] = FALSE]
    /\ UNCHANGED <<phase, hostListens, slot, missed, ws, lsn, inbox, owed, hello, hostSees, unanswered>>

\* The peer closes, or the connection is reset.  Frames that arrived before
\* may still be delivered.
ConnectionEnds(s) ==
    /\ ws[s] = "open"
    /\ ws' = [ws EXCEPT ![s] = "closing"]
    /\ UNCHANGED <<phase, hostListens, slot, missed, lsn, inbox, owed, alive, hello, hostSees, unanswered>>

-------------------------------------------------------------------------------
(* Frames *)

TakeFrame(s, f) ==
    /\ ws[s] \in {"open", "closing"}
    /\ inbox[s] # << >> /\ Head(inbox[s]) = f
    /\ inbox' = [inbox EXCEPT ![s] = Tail(@)]

ReadHello(s, reject) ==
    /\ lsn[s] = "attached"
    /\ TakeFrame(s, "Hello")
    /\ EmitConnected(s, slot, reject)
    /\ UNCHANGED <<phase, hostListens, missed, lsn, owed, alive, unanswered>>

ReadPong(s) ==
    /\ lsn[s] = "attached"
    /\ TakeFrame(s, "Pong")
    /\ missed' = 0
    /\ unanswered' = [unanswered EXCEPT ![s] = 0]
    /\ UNCHANGED <<phase, hostListens, slot, ws, lsn, owed, alive, hello, hostSees>>

\* onFirstMessage() with the slot taken: SESSION_FULL, close.
RelayRefused(s) ==
    /\ lsn[s] = "first" /\ HasClient
    /\ \E f \in {"Hello", "Data"} : TakeFrame(s, f)
    /\ lsn' = [lsn EXCEPT ![s] = "none"]
    /\ ws' = [ws EXCEPT ![s] = "closing"]
    /\ UNCHANGED <<phase, hostListens, slot, missed, owed, alive, hello, hostSees, unanswered>>

\* onFirstMessage() with the slot free: handleNewConnection(), and the frame
\* is emitted again for the listeners just attached.
RelayAdopted(s, reject) ==
    /\ lsn[s] = "first" /\ ~HasClient
    /\ Attach(s)
    /\ \/ /\ TakeFrame(s, "Hello")
          /\ EmitConnected(s, s, reject)
       \/ /\ TakeFrame(s, "Data")
          /\ slot' = s
          /\ UNCHANGED <<ws, hello, hostSees>>
    /\ UNCHANGED <<phase, hostListens, owed, alive, unanswered>>

-------------------------------------------------------------------------------
(* 'close' events and the heartbeat *)

\* Nothing about a socket matters once its 'close' event is over.
Forget(s) ==
    /\ lsn' = [lsn EXCEPT ![s] = "none"]
    /\ inbox' = [inbox EXCEPT ![s] = << >>]
    /\ owed' = [owed EXCEPT ![s] = 0]
    /\ alive' = [alive EXCEPT ![s] = FALSE]
    /\ hello' = [hello EXCEPT ![s] = "none"]
    /\ unanswered' = [unanswered EXCEPT ![s] = 0]

\* Mutant: the event counts only if the socket is still in the slot.
ClosedOnlyIfCurrent(s) ==
    IF slot = s
      THEN /\ slot' = NoSocket
           /\ missed' = 0
           /\ EmitDisconnected([ws EXCEPT ![s] = "closed"])
      ELSE /\ ws' = [ws EXCEPT ![s] = "closed"]
           /\ UNCHANGED <<slot, missed, hostSees>>

\* Mutant: the slot is left as it is.
ClosedKeepingSlot(s) ==
    /\ missed' = 0
    /\ EmitDisconnected([ws EXCEPT ![s] = "closed"])
    /\ UNCHANGED slot

\* The 'close' listener does not ask which socket closed: whoever is in the
\* slot leaves it.
OnClose(s) ==
    /\ slot' = NoSocket
    /\ missed' = 0
    /\ EmitDisconnected([ws EXCEPT ![s] = "closed"])

AttachedClosed(s) ==
    /\ lsn[s] = "attached" /\ ws[s] = "closing"
    /\ OnClose(s)
    /\ Forget(s)
    /\ UNCHANGED <<phase, hostListens>>

\* A refused socket, or a relay channel nobody has used.
UnattachedClosed(s) ==
    /\ lsn[s] # "attached" /\ ws[s] = "closing"
    /\ ws' = [ws EXCEPT ![s] = "closed"]
    /\ Forget(s)
    /\ UNCHANGED <<phase, hostListens, slot, missed, hostSees>>

HeartbeatPing ==
    /\ phase = "running"
    /\ HasClient /\ ~PastLimit(CountPing(missed))
    /\ missed' = CountPing(missed)
    /\ unanswered' = [unanswered EXCEPT ![slot] = Unanswered(@)]
    /\ owed' = [owed EXCEPT ![slot] = Owe(@)]
    /\ UNCHANGED <<phase, hostListens, slot, ws, lsn, inbox, alive, hello, hostSees>>

HeartbeatTerminate ==
    /\ phase = "running"
    /\ HasClient /\ PastLimit(CountPing(missed))
    /\ slot' = NoSocket
    /\ missed' = 0
    /\ EmitDisconnected([ws EXCEPT ![slot] = "closing"])
    /\ UNCHANGED <<phase, hostListens, lsn, inbox, owed, alive, hello, unanswered>>

HeartbeatTick == HeartbeatPing \/ HeartbeatTerminate

-------------------------------------------------------------------------------
Peer(s) ==
    \/ PeerHello(s) \/ PeerData(s) \/ PeerPong(s)
    \/ PeerVanishes(s) \/ ConnectionEnds(s)

Deliver(s) ==
    \/ \E reject \in BOOLEAN : ReadHello(s, reject) \/ RelayAdopted(s, reject)
    \/ ReadPong(s) \/ RelayRefused(s)

Closed(s) == AttachedClosed(s) \/ UnattachedClosed(s)

Next ==
    \/ Start \/ StartListening \/ Stop
    \/ \E s \in LanSock : HandleNewConnection(s)
    \/ \E s \in RelaySock : AdoptRelaySocket(s)
    \/ \E s \in Sock : Peer(s) \/ Deliver(s) \/ Closed(s)
    \/ HeartbeatTick

Spec == Init /\ [][Next]_vars

\* The interval timer keeps firing; ws emits 'close' for every closing socket
\* (its close timeout sees to that).
Fairness ==
    /\ WF_vars(HeartbeatTick)
    /\ \A s \in Sock : WF_vars(Closed(s))

FairSpec == Spec /\ Fairness

-------------------------------------------------------------------------------
(* What the session sees of it *)

Life == CASE phase = "idle" -> "idle" [] phase = "running" -> "up" [] OTHER -> "over"

Attached == {s \in Sock : lsn[s] = "attached"}

Open == {s \in Attached : ws[s] = "open"}

Greeted == {s \in Attached : hello[s] \in {"read", "heard"}}

Promised == INSTANCE Presence WITH
    Nobody <- NoSocket, life <- Life, attached <- Attached, open <- Open,
    greeted <- Greeted, sees <- hostSees

-------------------------------------------------------------------------------
(* Properties *)

SlotOfVanished == slot # NoSocket /\ ~alive[slot]

Unclosed(s) == lsn[s] = "attached" /\ ws[s] \in {"open", "closing"}

\* Whatever order connections, stale 'close' events, rejections and relay
\* first frames come in, the socket in the slot is one the server listens on
\* and whose 'close' event is still to come: no departed client keeps the
\* slot, and the departure of the one that has it will be noticed.
SlotWillBeFreed == slot # NoSocket => Unclosed(slot)

\* While hosting, HostSession believes in a client only as long as some
\* attached socket has its 'close' event ahead of it.  A client turned away
\* by rejectClient() leaves the slot at once, so only that later event makes
\* the host forget it.
BeliefIsBacked == (Hosting /\ hostSees) => \E s \in Sock : Unclosed(s)

\* The heartbeat gives up on a client only after MAX_MISSED_PINGS pings were
\* sent to this very socket since its last Pong: a count left over from an
\* earlier client is never held against the next one.
TerminatesOnlySilentPeers ==
    [][HeartbeatTerminate => unanswered[slot] >= MaxMissed]_vars

\* A client that vanished without closing loses the slot, whatever its last
\* frames in flight and the Pongs of earlier clients do to the counter.  (A
\* socket is used once, so the slot is not handed from one vanished peer to
\* the next for ever.)
VanishedPeerLosesSlot == SlotOfVanished ~> ~SlotOfVanished

\* "Only allow one client at a time" (server.ts:146): the sockets the server
\* listens on and could exchange frames with.
OneClientAtATime ==
    \A s, t \in Sock : (lsn[s] = "attached" /\ lsn[t] = "attached"
                        /\ ws[s] = "open" /\ ws[t] = "open") => s = t

\* "LAN connections still work" while or after the relay registration fails
\* (hostSession.ts:142): once the session is hosting, the client in the slot
\* whose Hello has been read is known to the host.
HelloReachesHost ==
    (Hosting /\ slot # NoSocket) => hello[slot] # "read"
===============================================================================
