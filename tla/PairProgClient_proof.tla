-------------------------- MODULE PairProgClient_proof ------------------------
(***************************************************************************)
(* What the client's endpoint guarantees for every set of sockets and      *)
(* every number of attempts.  The inductive invariant says what each kind  *)
(* of socket and timer excludes.                                           *)
(***************************************************************************)
EXTENDS PairProgClient, TLAPS

\* Listeners and readyState go together; a socket that is connecting or open
\* is this.socket.
ListenersMatch ==
    \A s \in Sock :
        /\ ws[s] = "closed" <=> lsn[s] = "none"
        /\ ws[s] = "connecting" => lsn[s] = "handshake"
        /\ ws[s] = "open" => lsn[s] = "session"
        /\ ws[s] = "closing" /\ lsn[s] = "handshake" => left # "no"
        /\ ws[s] \in {"connecting", "open"} => socket = s

\* No socket is left while a reconnection waits, nor before the session began
\* or after its first attempt failed.
NothingElsePending ==
    /\ retryTimer => \A s \in Sock : ws[s] = "closed"
    /\ told \in {"idle", "failed"} =>
         ~retryTimer /\ \A s \in Sock : ws[s] = "closed"
    /\ told = "idle" => left = "no" /\ \A s \in Sock : ~final[s]

\* Once it is over, nothing is under way that could begin again.
OverIsOver ==
    /\ Over => /\ ~retryTimer
               /\ \A s \in Sock : /\ ws[s] # "connecting"
                                  /\ lsn[s] = "handshake" => ~retrying
                                  /\ lsn[s] = "session" => intentional
    /\ left # "no" => intentional

IInv ==
    /\ TypeOK
    /\ OneConnection
    /\ HeartbeatMatchesConnection
    /\ ListenersMatch
    /\ NothingElsePending
    /\ OverIsOver

USE DEF IInv

\* close() on the current socket opens or frees none.
LEMMA ClosingType ==
    ASSUME TypeOK
    PROVE  /\ Closing(ws) \in [Sock -> {"closed", "connecting", "open", "closing"}]
           /\ \A s \in Sock :
                /\ Closing(ws)[s] = "closed" <=> ws[s] = "closed"
                /\ Closing(ws)[s] = "connecting" <=> ws[s] = "connecting" /\ s # socket
                /\ Closing(ws)[s] = "open" <=> ws[s] = "open" /\ s # socket
BY DEF TypeOK, Closing

\* attemptReconnect() keeps the counter within MAX_RECONNECT_ATTEMPTS.
LEMMA AttemptType ==
    ASSUME TypeOK, AttemptReconnect
    PROVE  /\ attempts' \in 0..MaxAttempts
           /\ retryTimer' \in BOOLEAN
           /\ told' \in {"disconnected", "reconnecting"}
           /\ told' = "disconnected" => retryTimer' = retryTimer
<1>1. CASE OutOfAttempts
  BY <1>1 DEF AttemptReconnect, TypeOK
<1>2. CASE ~OutOfAttempts
  <2>1. attempts + 1 \in 0..MaxAttempts
    BY <1>2, AttemptAssumption DEF AttemptAssumption, OutOfAttempts, TypeOK
  <2> QED BY <1>2, <2>1 DEF AttemptReconnect
<1> QED BY <1>1, <1>2

\* No step leaves the types; in particular the attempts stay counted.
LEMMA TypeStep == TypeOK /\ [Next]_vars => TypeOK'
<1> SUFFICES ASSUME TypeOK, [Next]_vars PROVE TypeOK'
  OBVIOUS
<1>0. 0 \in 0..MaxAttempts
  BY AttemptAssumption DEF AttemptAssumption
<1>c. Closing(ws) \in [Sock -> {"closed", "connecting", "open", "closing"}]
  BY ClosingType
<1>1. ASSUME NEW s \in Sock, Connect(s) PROVE TypeOK'
  BY <1>1 DEF Connect, DoConnect, TypeOK
<1>2. ASSUME NEW s \in Sock, Opened(s) PROVE TypeOK'
  BY <1>0, <1>2 DEF Opened, ArmHeartbeat, TypeOK
<1>3. ASSUME NEW s \in Sock, HandshakeFails(s) PROVE TypeOK'
  <2>1. CASE retrying
    BY <1>3, <2>1, AttemptType DEF HandshakeFails, TypeOK
  <2>2. CASE ~retrying
    BY <1>3, <2>2 DEF HandshakeFails, TypeOK
  <2> QED BY <2>1, <2>2
<1>4. ASSUME NEW s \in Sock, HostFrame(s) PROVE TypeOK'
  <2>1. CASE WelcomeAccepted(s)
    BY <2>1 DEF WelcomeAccepted, TypeOK
  <2>2. CASE WelcomeMismatch(s)
    BY <1>c, <2>2 DEF WelcomeMismatch, TypeOK
  <2>3. CASE Ping(s)
    BY <2>3 DEF Ping, TypeOK
  <2>4. CASE HostDisconnects(s)
    BY <1>c, <2>4 DEF HostDisconnects, TypeOK
  <2>5. CASE FatalError(s)
    BY <1>0, <1>c, <2>5 DEF FatalError, RefusalIsFinal, StopReconnect, TypeOK
  <2> QED BY <1>4, <2>1, <2>2, <2>3, <2>4, <2>5 DEF HostFrame
<1>5. ASSUME NEW s \in Sock, ConnectionEnds(s) PROVE TypeOK'
  BY <1>5 DEF ConnectionEnds, TypeOK
<1>6. ASSUME NEW s \in Sock, Closed(s) PROVE TypeOK'
  <2>1. CASE intentional
    BY <1>6, <2>1 DEF Closed, StopHeartbeat, TypeOK
  <2>2. CASE ~intentional
    BY <1>6, <2>2, AttemptType DEF Closed, StopHeartbeat, TypeOK
  <2> QED BY <2>1, <2>2
<1>7. ASSUME NEW s \in Sock, RetryFires(s) PROVE TypeOK'
  BY <1>7 DEF RetryFires, DoConnect, TypeOK
<1>8. CASE Disconnect
  BY <1>0, <1>c, <1>8 DEF Disconnect, StopReconnect, TypeOK
<1>9. CASE HeartbeatExpires
  BY <1>c, <1>9 DEF HeartbeatExpires, Expire, TypeOK
<1>10. CASE HostVanishes
  BY <1>10 DEF HostVanishes, TypeOK
<1>11. CASE UNCHANGED vars
  BY <1>11 DEF vars, TypeOK
<1> QED
  BY <1>1, <1>2, <1>3, <1>4, <1>5, <1>6, <1>7, <1>8, <1>9, <1>10, <1>11 DEF Next

\* The initial state has its types.
LEMMA InitTypes == Init => TypeOK
<1> SUFFICES ASSUME Init PROVE TypeOK
  OBVIOUS
<1>1. attempts \in 0..MaxAttempts
  BY AttemptAssumption DEF AttemptAssumption, Init
<1> QED BY <1>1 DEF Init, TypeOK

\* The state of the endpoint always has its types.
THEOREM ClientTypes == Spec => []TypeOK
<1> QED BY InitTypes, TypeStep, PTL DEF Spec

-------------------------------------------------------------------------------
(* The safety invariant *)

\* No step makes connections, timers and the session's knowledge disagree.
LEMMA SafetyStep == IInv /\ [Next]_vars => IInv'
<1> SUFFICES ASSUME IInv, [Next]_vars PROVE IInv'
  OBVIOUS
<1>0. TypeOK /\ TypeOK'
  BY TypeStep
<1>c. \A t \in Sock : /\ Closing(ws)[t] = "closed" <=> ws[t] = "closed"
                      /\ Closing(ws)[t] = "connecting" <=> ws[t] = "connecting" /\ t # socket
                      /\ Closing(ws)[t] = "open" <=> ws[t] = "open" /\ t # socket
  BY <1>0, ClosingType
<1> DEFINE Rest == /\ OneConnection /\ HeartbeatMatchesConnection
                   /\ ListenersMatch /\ NothingElsePending /\ OverIsOver
<1> SUFFICES Rest'
  BY <1>0
<1> USE DEF OneConnection, HeartbeatMatchesConnection, ListenersMatch,
            NothingElsePending, OverIsOver, Over
<1>1. ASSUME NEW s \in Sock, Connect(s) PROVE Rest'
  <2>1. \A t \in Sock : ws[t] = "closed" /\ lsn[t] = "none"
    BY <1>1 DEF Connect
  <2>2. /\ ws'[s] = "connecting" /\ lsn'[s] = "handshake" /\ socket' = s
        /\ \A t \in Sock : t # s => ws'[t] = "closed" /\ lsn'[t] = "none"
    BY <1>0, <1>1, <2>1 DEF Connect, DoConnect, TypeOK
  <2>3. ~heartbeat /\ ~retryTimer /\ UNCHANGED <<heartbeat, retryTimer>>
    BY <1>1, <2>1 DEF Connect
  <2>4. told' = "connecting" /\ left' = "no" /\ ~Over'
    BY <1>0, <1>1 DEF Connect, DoConnect, TypeOK
  <2> QED BY <2>2, <2>3, <2>4
<1>2. ASSUME NEW s \in Sock, Opened(s) PROVE Rest'
  <2>1. \A t \in Sock : t # s => ws[t] = "closed" /\ lsn[t] = "none"
    BY <1>2 DEF Opened
  <2>2. ~Over /\ ~retryTimer /\ socket = s /\ told \notin {"idle", "failed"}
    BY <1>2 DEF Opened
  <2>3. /\ ws'[s] = "open" /\ lsn'[s] = "session"
        /\ \A t \in Sock : t # s => ws'[t] = "closed" /\ lsn'[t] = "none"
    BY <1>0, <1>2, <2>1 DEF Opened, TypeOK
  <2>4. heartbeat' /\ told' \in {"opened", told}
    BY <1>2 DEF Opened, ArmHeartbeat
  <2>5. /\ left' = (IF left = "midway" THEN "yes" ELSE left)
        /\ UNCHANGED <<socket, retryTimer, intentional, final>>
    BY <1>2 DEF Opened
  <2>6. ListenersMatch' /\ OneConnection' /\ HeartbeatMatchesConnection' /\ NothingElsePending'
    BY <2>2, <2>3, <2>4, <2>5
  <2>7. OverIsOver'
    BY <2>2, <2>3, <2>4, <2>5
  <2> QED BY <2>6, <2>7
<1>3. ASSUME NEW s \in Sock, HandshakeFails(s) PROVE Rest'
  <2>1. \A t \in Sock : t # s => ws[t] = "closed" /\ lsn[t] = "none"
    BY <1>3 DEF HandshakeFails
  <2>2. \A t \in Sock : ws'[t] = "closed" /\ lsn'[t] = "none"
    BY <1>0, <1>3, <2>1 DEF HandshakeFails, TypeOK
  <2>3. ~retryTimer /\ ~heartbeat /\ (retrying => ~Over) /\ told # "idle"
    BY <1>3, <2>1 DEF HandshakeFails
  <2>4. /\ told' \in {"failed", "disconnected", "reconnecting"}
        /\ told' \in {"failed", "disconnected"} => ~retryTimer'
        /\ ~retrying => ~retryTimer'
    BY <1>0, <1>3, <2>3, AttemptType DEF HandshakeFails
  <2>5. UNCHANGED <<heartbeat, final, left, intentional, socket>>
    BY <1>3 DEF HandshakeFails
  <2>6. retrying => ~Over' \/ ~retryTimer'
    BY <2>3, <2>4, <2>5
  <2> QED BY <2>2, <2>3, <2>4, <2>5, <2>6
<1>4. ASSUME NEW s \in Sock, HostFrame(s) PROVE Rest'
  <2>1. /\ lsn[s] = "session" /\ ws[s] \in {"open", "closing"}
        /\ \A t \in Sock : t # s => ws[t] = "closed" /\ lsn[t] = "none"
    BY <1>4 DEF HostFrame, Hears, WelcomeAccepted, WelcomeMismatch, Ping,
       HostDisconnects, FatalError
  <2>2. ~retryTimer /\ told \notin {"idle", "failed"}
    BY <2>1
  <2>3. CASE WelcomeAccepted(s)
    BY <2>1, <2>2, <2>3 DEF WelcomeAccepted
  <2>4. CASE WelcomeMismatch(s)
    BY <1>c, <2>1, <2>2, <2>4 DEF WelcomeMismatch
  <2>5. CASE Ping(s)
    BY <2>1, <2>2, <2>5 DEF Ping
  <2>6. CASE HostDisconnects(s)
    BY <1>c, <2>1, <2>2, <2>6 DEF HostDisconnects
  <2>7. CASE FatalError(s)
    BY <1>c, <2>1, <2>2, <2>7 DEF FatalError, RefusalIsFinal, StopReconnect
  <2> QED BY <1>4, <2>3, <2>4, <2>5, <2>6, <2>7 DEF HostFrame
<1>5. ASSUME NEW s \in Sock, ConnectionEnds(s) PROVE Rest'
  BY <1>0, <1>5 DEF ConnectionEnds, TypeOK
<1>6. ASSUME NEW s \in Sock, Closed(s) PROVE Rest'
  <2>1. \A t \in Sock : t # s => ws[t] = "closed" /\ lsn[t] = "none"
    BY <1>6 DEF Closed
  <2>2. \A t \in Sock : ws'[t] = "closed" /\ lsn'[t] = "none"
    BY <1>0, <1>6, <2>1 DEF Closed, TypeOK
  <2>3. ~retryTimer /\ ~heartbeat' /\ UNCHANGED final
    BY <1>6 DEF Closed, StopHeartbeat
  <2>4. CASE intentional
    <3>1. told' = "disconnected" /\ ~retryTimer'
      BY <1>6, <2>3, <2>4 DEF Closed
    <3> QED BY <1>6, <2>2, <2>3, <2>4, <3>1 DEF Closed
  <2>5. CASE ~intentional
    <3>1. ~Over
      BY <1>6, <2>5 DEF Closed
    <3>2. /\ told' \in {"disconnected", "reconnecting"}
          /\ told' = "disconnected" => ~retryTimer'
      BY <1>0, <1>6, <2>3, <2>5, AttemptType DEF Closed
    <3>3. left' = "no" /\ \A t \in Sock : ~final'[t]
      BY <1>6, <2>3, <2>5, <3>1 DEF Closed
    <3> QED BY <2>2, <2>3, <3>1, <3>2, <3>3
  <2> QED BY <2>4, <2>5
<1>7. ASSUME NEW s \in Sock, RetryFires(s) PROVE Rest'
  <2>1. \A t \in Sock : ws[t] = "closed" /\ lsn[t] = "none"
    BY <1>7 DEF RetryFires
  <2>2. ~Over /\ ~heartbeat
    BY <1>7, <2>1 DEF RetryFires
  <2> QED BY <1>0, <1>7, <2>1, <2>2 DEF RetryFires, DoConnect, TypeOK
<1>8. CASE Disconnect
  <2>1. /\ \A t \in Sock : /\ ws'[t] = "closed" <=> ws[t] = "closed"
                          /\ ws'[t] \notin {"connecting", "open"}
        /\ lsn' = lsn /\ ~heartbeat' /\ ~retryTimer' /\ intentional'
        /\ told' = "disconnected" /\ left' \in {"yes", "midway"} /\ retrying' = retrying
    BY <1>0, <1>c, <1>8 DEF Disconnect, StopReconnect
  <2>2. OneConnection' /\ HeartbeatMatchesConnection' /\ ListenersMatch' /\ NothingElsePending'
    BY <1>0, <2>1 DEF TypeOK
  <2>3. ASSUME Over', NEW t \in Sock, lsn[t] = "handshake" PROVE ~retrying
    <3>1. CASE left' = "yes"
      <4>1. ~RetryInProgress /\ left = "no"
        BY <1>8, <3>1 DEF Disconnect
      <4>2. ws[t] = "connecting"
        BY <1>0, <2>3, <4>1 DEF TypeOK
      <4> QED BY <4>1, <4>2 DEF RetryInProgress
    <3>2. CASE left' = "midway"
      <4>1. PICK x \in Sock : final[x]
        BY <1>8, <2>3, <3>2 DEF Disconnect
      <4> QED BY <2>3, <4>1
    <3> QED BY <2>1, <3>1, <3>2
  <2>4. OverIsOver'
    BY <2>1, <2>3
  <2> QED BY <2>2, <2>4
<1>9. CASE HeartbeatExpires
  BY <1>c, <1>9 DEF HeartbeatExpires, Expire
<1>10. CASE HostVanishes
  BY <1>10 DEF HostVanishes
<1>11. CASE UNCHANGED vars
  BY <1>11 DEF vars
<1> QED
  BY <1>1, <1>2, <1>3, <1>4, <1>5, <1>6, <1>7, <1>8, <1>9, <1>10, <1>11 DEF Next

\* The inductive invariant holds in every reachable state.
LEMMA ClientInvariant == Spec => []IInv
<1>1. Init => IInv
  <2>1. Init => TypeOK
    BY InitTypes
  <2> QED
    BY <2>1 DEF Init, OneConnection, HeartbeatMatchesConnection, ListenersMatch,
       NothingElsePending, OverIsOver, Over
<1> QED BY <1>1, SafetyStep, PTL DEF Spec

\* The endpoint never holds two connections at once.
THEOREM OneConnectionHolds == Spec => []OneConnection
<1>1. IInv => OneConnection
  OBVIOUS
<1> QED BY <1>1, ClientInvariant, PTL

\* A heartbeat timer is armed exactly for an open connection, and none
\* survives the connection it was started for.
THEOREM HeartbeatMatches == Spec => []HeartbeatMatchesConnection
<1>1. IInv => HeartbeatMatchesConnection
  OBVIOUS
<1> QED BY <1>1, ClientInvariant, PTL

\* After the end of the session no reconnection is scheduled.
THEOREM EndIsFinalHolds == Spec => EndIsFinal
<1>1. IInv /\ [Next]_vars
        => [Over => ~retryTimer']_vars
  <2> SUFFICES ASSUME IInv, [Next]_vars, Over PROVE ~retryTimer'
    OBVIOUS
  <2>1. /\ ~retryTimer
        /\ \A s \in Sock : /\ lsn[s] = "handshake" => ~retrying
                           /\ lsn[s] = "session" => intentional
    BY DEF OverIsOver
  <2> QED
    BY <2>1 DEF Next, vars, Connect, Opened, HandshakeFails, HostFrame,
       WelcomeAccepted, WelcomeMismatch, Ping, HostDisconnects, FatalError,
       RefusalIsFinal, StopReconnect, ConnectionEnds, Closed, RetryFires,
       Disconnect, HeartbeatExpires, Expire, HostVanishes
<1> QED BY <1>1, ClientInvariant, PTL DEF Spec, EndIsFinal
===============================================================================
