---------------------------- MODULE SessionRegistry ----------------------------
(***************************************************************************)
(* A room of the relay (server/src/sessionRegistry.ts, index.ts) with the  *)
(* two who use it: the host's bridge (src/network/hostRelayBridge.ts) with *)
(* what its endpoint and session do on a relay socket, and clients.  Only  *)
(* the main channel is modelled; the ShareDB channel is kept in the same   *)
(* way and opened and closed with it.                                      *)
(*                                                                         *)
(* A connection has two ends that learn of its end at different times:     *)
(* `near` at the relay, `far` at its owner.  Of the frames only the        *)
(* client's first, its Hello, is modelled.                                 *)
(***************************************************************************)
CONSTANTS
    HostConn,    \* connections the host's bridge opens, each used once
    ClientConn,  \* connections of clients
    None         \* null, undefined

Conn == HostConn \cup ClientConn

ASSUME ConnAssumption ==
    /\ HostConn \cap ClientConn = {}
    /\ None \notin Conn

VARIABLES
    room,        \* "none", "listed", "removed"
    holder,      \* room.channels.main
    near,        \* readyState at the relay; "refused": closing, never accepted
    far,         \* readyState at the owner
    forwards,    \* <<a, b>>: what the relay receives on a it sends on b
    inbox,       \* Hellos on their way to the host, per connection
    mainSocket,  \* HostRelayBridge.mainSocket
    stage,       \* listeners of the host's endpoint: none, first frame, all
    slot,        \* PairProgServer.client
    stopping,    \* HostSession.isStopping
    spokesman    \* history: whose Hello attached the host's connection

vars == <<room, holder, near, far, forwards, inbox, mainSocket, stage, slot,
          stopping, spokesman>>

Role(s) == IF s \in HostConn THEN "host" ELSE "client"

TypeOK ==
    /\ room \in {"none", "listed", "removed"}
    /\ holder \in [host : HostConn \cup {None}, client : ClientConn \cup {None}]
    /\ near \in [Conn -> {"none", "open", "refused", "closing", "closed"}]
    /\ far \in [Conn -> {"none", "connecting", "open", "closing", "closed"}]
    /\ forwards \subseteq Conn \X Conn
    /\ inbox \in [HostConn -> SUBSET ClientConn]
    /\ mainSocket \in HostConn \cup {None}
    /\ stage \in [HostConn -> {"none", "first", "attached"}]
    /\ slot \in HostConn \cup {None}
    /\ stopping \in BOOLEAN
    /\ spokesman \in [HostConn -> ClientConn \cup {None}]
    /\ \A h \in HostConn : far[h] \in {"connecting", "open"} => h = mainSocket

Init ==
    /\ room = "none"
    /\ holder = [host |-> None, client |-> None]
    /\ near = [s \in Conn |-> "none"]
    /\ far = [s \in Conn |-> "none"]
    /\ forwards = {}
    /\ inbox = [h \in HostConn |-> {}]
    /\ mainSocket = None
    /\ stage = [h \in HostConn |-> "none"]
    /\ slot = None
    /\ stopping = FALSE
    /\ spokesman = [h \in HostConn |-> None]

-------------------------------------------------------------------------------
(* The host *)

\* closeChannels(), on the ends `ends` as they are by then
CloseChannels(ends) ==
    IF mainSocket # None /\ ends[mainSocket] \in {"connecting", "open"}
      THEN [ends EXCEPT ![mainSocket] = "closing"]
      ELSE ends

Unused == {h \in HostConn : far[h] = "none"}

Fresh == CHOOSE h \in Unused : TRUE

\* openChannels(): close the old one, open the next.  None is left at the
\* bound.
OpenChannels(ends) ==
    IF Unused = {}
      THEN mainSocket' = None /\ far' = CloseChannels(ends)
      ELSE /\ mainSocket' = Fresh
           /\ far' = [CloseChannels(ends) EXCEPT ![Fresh] = "connecting"]

\* register() has answered.
Register ==
    /\ room = "none"
    /\ room' = "listed"
    /\ OpenChannels(far)
    /\ UNCHANGED <<holder, near, forwards, inbox, stage, slot, stopping, spokesman>>

\* onClientDisconnected()
OnClientDisconnected(ends) ==
    IF stopping THEN far' = ends /\ UNCHANGED mainSocket ELSE OpenChannels(ends)

\* The first frame adopts the socket: no other is open.  The session may turn
\* the client away at once, which closes the socket and empties the slot.
HostReads(h, c) ==
    /\ c \in inbox[h] /\ far[h] \in {"open", "closing"}
    /\ inbox' = [inbox EXCEPT ![h] = @ \ {c}]
    /\ \/ /\ stage[h] = "first"
          /\ stage' = [stage EXCEPT ![h] = "attached"]
          /\ spokesman' = [spokesman EXCEPT ![h] = c]
          /\ \/ slot' = h /\ UNCHANGED far
             \/ far[h] = "open" /\ slot' = None /\ far' = [far EXCEPT ![h] = "closing"]
       \/ stage[h] # "first" /\ UNCHANGED <<far, stage, slot, spokesman>>
    /\ UNCHANGED <<room, holder, near, forwards, mainSocket, stopping>>

\* The heartbeat gives the client up: terminate(), and the session is told at
\* once, and again by the 'close' event.
HeartbeatTerminates(h) ==
    /\ slot = h /\ far[h] = "open" /\ ~stopping
    /\ slot' = None
    /\ OnClientDisconnected([far EXCEPT ![h] = "closing"])
    /\ UNCHANGED <<room, holder, near, forwards, inbox, stage, stopping, spokesman>>

\* HostSession.stop(): the request to remove the room is sent, the channels and
\* the client are let go.
Stop ==
    /\ ~stopping /\ room # "none"
    /\ stopping' = TRUE
    /\ far' = CloseChannels(far)
    /\ mainSocket' = None
    /\ slot' = None
    /\ UNCHANGED <<room, holder, near, forwards, inbox, stage, spokesman>>

-------------------------------------------------------------------------------
(* Clients, and the ends of connections at their owner *)

ClientConnects(c) ==
    /\ room # "none" /\ far[c] = "none"
    /\ far' = [far EXCEPT ![c] = "connecting"]
    /\ UNCHANGED <<room, holder, near, forwards, inbox, mainSocket, stage, slot,
                   stopping, spokesman>>

\* The user leaves, or the connection breaks.
ClientLeaves(c) ==
    /\ far[c] \in {"connecting", "open"}
    /\ far' = [far EXCEPT ![c] = "closed"]
    /\ UNCHANGED <<room, holder, near, forwards, inbox, mainSocket, stage, slot, stopping,
                   spokesman>>

\* 'open' at the host: it waits for the first frame.
HostConnOpened(h) ==
    /\ far[h] = "connecting" /\ near[h] # "none"
    /\ far' = [far EXCEPT ![h] = "open"]
    /\ stage' = [stage EXCEPT ![h] = "first"]
    /\ UNCHANGED <<room, holder, near, forwards, inbox, mainSocket, slot, stopping, spokesman>>

\* The relay's close arrives, after all it sent before.
CloseReachesHost(h) ==
    /\ near[h] \in {"refused", "closing", "closed"} /\ far[h] = "open" /\ inbox[h] = {}
    /\ far' = [far EXCEPT ![h] = "closing"]
    /\ UNCHANGED <<room, holder, near, forwards, inbox, mainSocket, stage, slot, stopping,
                   spokesman>>

CloseReachesClient(c) ==
    /\ near[c] \in {"refused", "closing", "closed"} /\ far[c] \in {"connecting", "open"}
    /\ far' = [far EXCEPT ![c] = "closed"]
    /\ UNCHANGED <<room, holder, near, forwards, inbox, mainSocket, stage, slot, stopping,
                   spokesman>>

\* 'close' at the host: an attached socket was a client, any other is dropped.
HostConnClosed(h) ==
    /\ far[h] = "closing"
    /\ inbox' = [inbox EXCEPT ![h] = {}]
    /\ IF stage[h] = "attached"
         THEN slot' = None /\ OnClientDisconnected([far EXCEPT ![h] = "closed"])
         ELSE far' = [far EXCEPT ![h] = "closed"] /\ UNCHANGED <<slot, mainSocket>>
    /\ UNCHANGED <<room, holder, near, forwards, stage, stopping, spokesman>>

-------------------------------------------------------------------------------
(* The relay *)

Other(r) == IF r = "host" THEN "client" ELSE "host"

IsOpen(s) == s # None /\ near[s] = "open"

\* setSocket() refuses a second socket for a role.
Taken(s) == IsOpen(holder[Role(s)])

\* Mutant: the role is always the host's.
HeldByHost(s) == [holder EXCEPT !.host = s]

Held(s) == [holder EXCEPT ![Role(s)] = s]

\* Mutant: forwarding is set up by a client that finds a host.
ForwardingFromClient(s) ==
    IF s \in ClientConn /\ IsOpen(holder.host)
      THEN {<<s, holder.host>>, <<holder.host, s>>}
      ELSE {}

\* setupForwarding(), when both are there
Forwarding(s) ==
    LET peer == holder[Other(Role(s))] IN
    IF IsOpen(peer) THEN {<<s, peer>>, <<peer, s>>} ELSE {}

\* 'connection' at the relay: no such room, role taken, or accepted.  The
\* request may arrive although its owner has given up.
Connection(s) ==
    /\ near[s] = "none" /\ far[s] \in {"connecting", "closing"}
    /\ \/ /\ room = "removed" \/ Taken(s)
          /\ near' = [near EXCEPT ![s] = "refused"]
          /\ UNCHANGED <<holder, forwards>>
       \/ /\ room = "listed" /\ ~Taken(s)
          /\ near' = [near EXCEPT ![s] = "open"]
          /\ holder' = Held(s)
          /\ forwards' = forwards \cup Forwarding(s)
    /\ UNCHANGED <<room, far, inbox, mainSocket, stage, slot, stopping, spokesman>>

\* A client is connected and its Hello has come: the relay forwards it where
\* it forwards the client, or nowhere.
HelloArrives(c) ==
    /\ far[c] = "connecting" /\ near[c] = "open"
    /\ far' = [far EXCEPT ![c] = "open"]
    /\ inbox' = [h \in HostConn |->
                   IF <<c, h>> \in forwards /\ IsOpen(h) THEN inbox[h] \cup {c} ELSE inbox[h]]
    /\ UNCHANGED <<room, holder, near, forwards, mainSocket, stage, slot, stopping, spokesman>>

\* The owner's close arrives, or the relay notices that the owner is gone.
CloseReachesRelay(s) ==
    /\ far[s] \in {"closing", "closed"} /\ near[s] = "open"
    /\ near' = [near EXCEPT ![s] = "closing"]
    /\ UNCHANGED <<room, holder, far, forwards, inbox, mainSocket, stage, slot,
                   stopping, spokesman>>

\* Mutant: the host is only forgotten.
ForgetHost(c) ==
    /\ near' = [near EXCEPT ![c] = "closed"]
    /\ holder' = [host |-> None, client |-> IF holder.client = c THEN None ELSE holder.client]

\* A client that held the role takes the host's channel with it, whoever
\* holds the client's role by now.
ReleaseClient(c) ==
    /\ near' = [s \in Conn |-> IF s = c THEN "closed"
                               ELSE IF s = holder.host /\ near[s] = "open" THEN "closing"
                               ELSE near[s]]
    /\ holder' = [host |-> None, client |-> IF holder.client = c THEN None ELSE holder.client]

\* 'close' of an accepted socket, with the listeners of setSocket() and
\* setupForwarding(); a refused one has none.
SocketClosed(s) ==
    /\ near[s] \in {"refused", "closing"}
    /\ forwards' = {f \in forwards : f[2] # s}
    /\ IF near[s] = "closing" /\ s \in ClientConn
         THEN ReleaseClient(s)
         ELSE /\ near' = [near EXCEPT ![s] = "closed"]
              /\ holder' = IF holder.host = s THEN [holder EXCEPT !.host = None] ELSE holder
    /\ UNCHANGED <<room, far, inbox, mainSocket, stage, slot, stopping, spokesman>>

\* Mutant: only the host's socket is closed.
CloseHost ==
    near' = [s \in Conn |-> IF s = holder.host /\ IsOpen(s) THEN "closing" ELSE near[s]]

CloseBoth ==
    near' = [s \in Conn |-> IF s \in {holder.host, holder.client} /\ IsOpen(s) THEN "closing"
                                                                           ELSE near[s]]

\* removeSession(): on the host's request, after a day, or when the relay stops.
RemoveSession ==
    /\ room = "listed"
    /\ room' = "removed"
    /\ CloseBoth
    /\ UNCHANGED <<holder, far, forwards, inbox, mainSocket, stage, slot,
                   stopping, spokesman>>

-------------------------------------------------------------------------------
HostSide(h) ==
    \/ \E c \in ClientConn : HostReads(h, c)
    \/ CloseReachesHost(h) \/ HostConnClosed(h)

Next ==
    \/ Register \/ Stop \/ RemoveSession
    \/ \E h \in HostConn : HostConnOpened(h) \/ HeartbeatTerminates(h) \/ HostSide(h)
    \/ \E c \in ClientConn :
        ClientConnects(c) \/ ClientLeaves(c) \/ CloseReachesClient(c) \/ HelloArrives(c)
    \/ \E s \in Conn : Connection(s) \/ CloseReachesRelay(s) \/ SocketClosed(s)

Spec == Init /\ [][Next]_vars

\* The host's process runs and what the relay sent to it arrives; nothing is
\* assumed of the relay and of clients.
FairSpec == Spec /\ \A h \in HostConn : WF_vars(HostSide(h))

-------------------------------------------------------------------------------
(* Properties *)

\* The relay never joins the wrong ends: an open host and an open client are
\* those the room holds, and each is forwarded to the other.
RolesAreConnected ==
    \A h \in HostConn : \A c \in ClientConn :
        IsOpen(h) /\ IsOpen(c) =>
            /\ holder = [host |-> h, client |-> c]
            /\ {<<h, c>>, <<c, h>>} \subseteq forwards

\* Once the room is removed, no socket that was in it stays open, whichever
\* sockets came and went before.
NothingOutlivesRoom == room = "removed" => \A s \in Conn : ~IsOpen(s)

\* The host learns through the relay that its client has gone: once the relay
\* has seen the client's socket close, the host's own connection closes.
DepartureReachesHost ==
    \A h \in HostConn : \A c \in ClientConn :
        (spokesman[h] = c /\ near[c] = "closed") ~> far[h] = "closed"

Settled(s) == <<far[s], near[s]>> \in
    {<<"none", "none">>, <<"open", "open">>, <<"closed", "none">>, <<"closed", "closed">>}

\* A client has been served, and nobody is connected or on the way any more,
\* but for the host.
QuietAfterService ==
    /\ room = "listed" /\ ~stopping
    /\ \E h \in HostConn : stage[h] = "attached"
    /\ \A s \in Conn : Settled(s)
    /\ \A c \in ClientConn : far[c] # "open"

\* "Re-open relay channels so the next client can join via relay"
\* (hostSession.ts:309): the host has an open channel, and the relay holds it.
NextClientCanJoin ==
    (QuietAfterService /\ mainSocket # None) =>
        far[mainSocket] = "open" /\ holder.host = mainSocket
===============================================================================
