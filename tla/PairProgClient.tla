---------------------------- MODULE PairProgClient ----------------------------
(***************************************************************************)
(* The client's protocol endpoint (src/network/client.ts): the sockets it  *)
(* opens one after the other, the listeners on them, the reconnect timer,  *)
(* the heartbeat timer, and the last thing the session was told.           *)
(*                                                                         *)
(* A socket identifier is free ("closed") until doConnect() takes it, then *)
(* connecting, open or closing; its 'close' event frees it again.  A       *)
(* socket whose handshake failed has no listener left: it counts as closed *)
(* at once, although this.socket still points to it.                       *)
(*                                                                         *)
(* connect() is called once on an endpoint (ClientSession makes a new one  *)
(* for every session), and disconnect() at most once, at any time after    *)
(* it: by the user while the socket is open (SessionManager.leaveSession), *)
(* or when an attempt to connect fails, then to whichever session is       *)
(* current (connectToSession, autoReconnect).  Deactivation of the         *)
(* extension ends the process and is left out.                             *)
(***************************************************************************)
EXTENDS Naturals

CONSTANTS
    Sock,          \* identities of sockets
    NoSocket,      \* the null of this.socket
    MaxAttempts    \* MAX_RECONNECT_ATTEMPTS

ASSUME SocketAssumption == NoSocket \notin Sock

ASSUME AttemptAssumption == MaxAttempts \in Nat

VARIABLES
    socket,        \* this.socket
    ws,            \* readyState
    lsn,           \* listeners on the socket: none, "handshake", "session"
    attempts,      \* this.reconnectAttempts
    retryTimer,    \* this.reconnectTimer is armed
    heartbeat,     \* this.heartbeatTimer is armed
    intentional,   \* this.intentionalDisconnect
    retrying,      \* the attempt in progress was started by the timer
    told,          \* the last event the session has seen
    final,         \* the host has sent its last frame on the socket
    host,          \* "there", or gone for good: "unreachable", or "behindRelay",
                   \* where the relay answers in its place
    left           \* disconnect(): "no", "yes", or "midway" when it aborted the
                   \* handshake of a retry that has not been made up for

vars == <<socket, ws, lsn, attempts, retryTimer, heartbeat, intentional,
          retrying, told, final, host, left>>

TypeOK ==
    /\ socket \in Sock \cup {NoSocket}
    /\ ws \in [Sock -> {"closed", "connecting", "open", "closing"}]
    /\ lsn \in [Sock -> {"none", "handshake", "session"}]
    /\ attempts \in 0..MaxAttempts
    /\ retryTimer \in BOOLEAN
    /\ heartbeat \in BOOLEAN
    /\ intentional \in BOOLEAN
    /\ retrying \in BOOLEAN
    /\ told \in {"idle", "connecting", "failed", "opened", "connected",
                 "reconnecting", "disconnected"}
    /\ final \in [Sock -> BOOLEAN]
    /\ host \in {"there", "unreachable", "behindRelay"}
    /\ left \in {"no", "yes", "midway"}

Init ==
    /\ socket = NoSocket
    /\ ws = [s \in Sock |-> "closed"]
    /\ lsn = [s \in Sock |-> "none"]
    /\ attempts = 0
    /\ retryTimer = FALSE
    /\ heartbeat = FALSE
    /\ intentional = FALSE
    /\ retrying = FALSE
    /\ told = "idle"
    /\ final = [s \in Sock |-> FALSE]
    /\ host = "there"
    /\ left = "no"

-------------------------------------------------------------------------------
\* new ws.WebSocket(url), with the two listeners of doConnect().
DoConnect(s) ==
    /\ ws[s] = "closed"
    /\ ws' = [ws EXCEPT ![s] = "connecting"]
    /\ lsn' = [lsn EXCEPT ![s] = "handshake"]
    /\ final' = [final EXCEPT ![s] = FALSE]
    /\ socket' = s

\* w after this.socket?.close(), which aborts a handshake
Closing(w) == [s \in Sock |-> IF s = socket /\ w[s] \in {"connecting", "open"}
                               THEN "closing" ELSE w[s]]

\* Mutant: one attempt too many is counted.
OutOfAttemptsLate == attempts > MaxAttempts

OutOfAttempts == attempts >= MaxAttempts

AttemptReconnect ==
    IF OutOfAttempts
      THEN /\ told' = "disconnected"
           /\ UNCHANGED <<attempts, retryTimer>>
      ELSE /\ attempts' = attempts + 1
           /\ told' = "reconnecting"
           /\ retryTimer' = TRUE

StopReconnect ==
    /\ retryTimer' = FALSE
    /\ attempts' = 0

-------------------------------------------------------------------------------
(* The session's calls *)

Connect(s) ==
    /\ told = "idle"
    /\ DoConnect(s)
    /\ told' = "connecting"
    /\ intentional' = FALSE
    /\ UNCHANGED <<attempts, retryTimer, heartbeat, retrying, host, left>>

RetryInProgress == retrying /\ \E s \in Sock : ws[s] = "connecting"

Disconnect ==
    /\ told # "idle" /\ left = "no"
    /\ intentional' = TRUE
    /\ StopReconnect
    /\ heartbeat' = FALSE
    /\ ws' = Closing(ws)
    /\ socket' = NoSocket
    /\ told' = "disconnected"
    /\ left' = IF RetryInProgress THEN "midway" ELSE "yes"
    /\ UNCHANGED <<lsn, retrying, final, host>>

-------------------------------------------------------------------------------
(* The handshake *)

\* Mutant: the heartbeat starts with the first ping only.
ArmOnPing == UNCHANGED heartbeat

\* setupSocketListeners() -> resetHeartbeatTimeout()
ArmHeartbeat == heartbeat' = TRUE

\* The attempt counter restarts when the socket opens, before any Welcome.
Opened(s) ==
    /\ lsn[s] = "handshake" /\ ws[s] = "connecting"
    /\ host # "unreachable"
    /\ ws' = [ws EXCEPT ![s] = "open"]
    /\ lsn' = [lsn EXCEPT ![s] = "session"]
    /\ attempts' = 0
    /\ ArmHeartbeat
    /\ told' = IF retrying THEN told ELSE "opened"
    /\ left' = IF left = "midway" THEN "yes" ELSE left
    /\ UNCHANGED <<socket, retryTimer, intentional, retrying, final, host>>

\* The handshake fails, or close() aborted it.  The promise of doConnect() is
\* rejected: the timer's callback tries again, whether or not the endpoint was
\* disconnected meanwhile; connect() hands the error to the session.
HandshakeFails(s) ==
    /\ lsn[s] = "handshake" /\ ws[s] \in {"connecting", "closing"}
    /\ ws' = [ws EXCEPT ![s] = "closed"]
    /\ lsn' = [lsn EXCEPT ![s] = "none"]
    /\ IF retrying
         THEN AttemptReconnect
         ELSE /\ told' = "failed"
              /\ UNCHANGED <<attempts, retryTimer>>
    /\ UNCHANGED <<socket, heartbeat, intentional, retrying, final, host, left>>

-------------------------------------------------------------------------------
(* Frames of the host; those already received are delivered while closing *)

Hears(s) == lsn[s] = "session" /\ ws[s] \in {"open", "closing"} /\ ~final[s]

WelcomeAccepted(s) ==
    /\ Hears(s)
    /\ told' = "connected"
    /\ UNCHANGED <<socket, ws, lsn, attempts, retryTimer, heartbeat, intentional,
                   retrying, final, host, left>>

\* The host runs another protocol version.
WelcomeMismatch(s) ==
    /\ Hears(s)
    /\ intentional' = TRUE
    /\ ws' = Closing(ws)
    /\ UNCHANGED <<socket, lsn, attempts, retryTimer, heartbeat, retrying, told,
                   final, host, left>>

Ping(s) ==
    /\ Hears(s)
    /\ heartbeat' = TRUE
    /\ UNCHANGED <<socket, ws, lsn, attempts, retryTimer, intentional, retrying,
                   told, final, host, left>>

\* server.stop() sends nothing after it.
HostDisconnects(s) ==
    /\ Hears(s)
    /\ intentional' = TRUE
    /\ ws' = Closing(ws)
    /\ told' = "disconnected"
    /\ final' = [final EXCEPT ![s] = TRUE]
    /\ UNCHANGED <<socket, lsn, attempts, retryTimer, heartbeat, retrying, host, left>>

\* Mutant: the refusal is reported, but the end of the connection is then
\* taken for an accident.
RefusalIsAccident == UNCHANGED intentional

RefusalIsFinal == intentional' = TRUE

\* AUTH_FAILED, VERSION_MISMATCH, SESSION_FULL.
FatalError(s) ==
    /\ Hears(s)
    /\ RefusalIsFinal
    /\ StopReconnect
    /\ heartbeat' = FALSE
    /\ ws' = Closing(ws)
    /\ final' = [final EXCEPT ![s] = TRUE]
    /\ UNCHANGED <<socket, lsn, retrying, told, host, left>>

-------------------------------------------------------------------------------
(* Timers, and the end of a connection *)

\* Mutant: the callback starts to reconnect without waiting for the close.
ExpireAndRetry ==
    /\ ws' = Closing(ws)
    /\ AttemptReconnect

Expire ==
    /\ ws' = Closing(ws)
    /\ UNCHANGED <<attempts, retryTimer, told>>

HeartbeatExpires ==
    /\ heartbeat
    /\ heartbeat' = FALSE
    /\ Expire
    /\ UNCHANGED <<socket, lsn, intentional, retrying, final, host, left>>

\* The host closes, or the connection is reset.
ConnectionEnds(s) ==
    /\ lsn[s] = "session" /\ ws[s] = "open"
    /\ ws' = [ws EXCEPT ![s] = "closing"]
    /\ UNCHANGED <<socket, lsn, attempts, retryTimer, heartbeat, intentional,
                   retrying, told, final, host, left>>

\* Mutant: the heartbeat timer of the closed connection is left armed.
KeepHeartbeat == UNCHANGED heartbeat

StopHeartbeat == heartbeat' = FALSE

Closed(s) ==
    /\ lsn[s] = "session" /\ ws[s] = "closing"
    /\ ws' = [ws EXCEPT ![s] = "closed"]
    /\ lsn' = [lsn EXCEPT ![s] = "none"]
    /\ socket' = NoSocket
    /\ StopHeartbeat
    /\ IF intentional
         THEN /\ told' = "disconnected"
              /\ UNCHANGED <<attempts, retryTimer>>
         ELSE AttemptReconnect
    /\ UNCHANGED <<intentional, retrying, final, host, left>>

RetryFires(s) ==
    /\ retryTimer
    /\ retryTimer' = FALSE
    /\ retrying' = TRUE
    /\ DoConnect(s)
    /\ UNCHANGED <<attempts, heartbeat, intentional, told, host, left>>

HostVanishes ==
    /\ host = "there"
    /\ host' \in {"unreachable", "behindRelay"}
    /\ UNCHANGED <<socket, ws, lsn, attempts, retryTimer, heartbeat, intentional,
                   retrying, told, final, left>>

-------------------------------------------------------------------------------
HostFrame(s) ==
    /\ host = "there"
    /\ \/ WelcomeAccepted(s) \/ WelcomeMismatch(s) \/ Ping(s)
       \/ HostDisconnects(s) \/ FatalError(s)

Next ==
    \/ \E s \in Sock : Connect(s) \/ Opened(s) \/ HandshakeFails(s) \/ HostFrame(s)
                       \/ ConnectionEnds(s) \/ Closed(s) \/ RetryFires(s)
    \/ Disconnect \/ HeartbeatExpires \/ HostVanishes

Spec == Init /\ [][Next]_vars

\* Timers fire, a connection attempt to a host that is gone fails, and a
\* closing socket closes.
Fairness ==
    /\ WF_vars(HeartbeatExpires)
    /\ WF_vars(\E s \in Sock : RetryFires(s))
    /\ \A s \in Sock : WF_vars(Closed(s)) /\ WF_vars(HandshakeFails(s))

FairSpec == Spec /\ Fairness

-------------------------------------------------------------------------------
(* Properties *)

\* The endpoint never holds two connections at once: the next one is opened
\* only after the 'close' event of the previous one, whichever of the timers,
\* the host and the user ended it.
OneConnection ==
    \A s, t \in Sock : ws[s] # "closed" /\ ws[t] # "closed" => s = t

\* An open connection always has a heartbeat timer behind it, and no timer
\* outlives its connection: its callback terminates whatever socket is
\* current by then.
HeartbeatMatchesConnection ==
    /\ \A s \in Sock : lsn[s] = "session" /\ ws[s] = "open" => heartbeat
    /\ heartbeat => \E s \in Sock : lsn[s] = "session"

\* The session was told that it is over, the host said goodbye or turned the
\* client away, or disconnect() was called.
Over ==
    \/ told = "disconnected" /\ left # "midway"
    \/ left = "yes"
    \/ \E s \in Sock : final[s]

\* Once it is over, no reconnection is ever scheduled.  A disconnect() that
\* meets the handshake of a retry is not in the claim: the rejected promise
\* schedules the next retry (client.ts:218-224).  If that retry reaches the
\* host, the claim covers what follows: the connection is the last one.
EndIsFinal == [][Over => ~retryTimer']_vars

\* A client whose host becomes unreachable without a word learns it: the
\* heartbeat runs out, the attempts to reconnect run out, and the session is
\* told.  This is a claim about a direct connection: a relay still answers,
\* and every socket it opens restarts the count of attempts (client.ts:60).
VanishedHostIsNoticed ==
    (host = "unreachable" /\ told # "idle") ~> (told \in {"failed", "disconnected"})
===============================================================================
