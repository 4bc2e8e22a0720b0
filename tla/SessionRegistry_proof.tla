------------------------- MODULE SessionRegistry_proof -------------------------
(***************************************************************************)
(* What the relay guarantees for any number of connections: it joins the   *)
(* right ends, and a removed room leaves nobody behind.  Both follow from  *)
(* what setSocket() maintains, that an open socket is the one the room     *)
(* holds for its role.                                                     *)
(***************************************************************************)
EXTENDS SessionRegistry, TLAPS

\* Whatever is open is in the room.
OpenIsHeld == \A s \in Conn : IsOpen(s) => room = "listed" /\ holder[Role(s)] = s

\* Two open ends are forwarded to each other.
OpenIsForwarded ==
    \A h \in HostConn : \A c \in ClientConn :
        IsOpen(h) /\ IsOpen(c) => {<<h, c>>, <<c, h>>} \subseteq forwards

IInv == TypeOK /\ OpenIsHeld /\ OpenIsForwarded

-------------------------------------------------------------------------------
(* The host's channels *)

\* openChannels() leaves one connection of the host that may be used.
LEMMA ChannelsOpened ==
    ASSUME TypeOK, NEW ends \in [Conn -> {"none", "connecting", "open", "closing", "closed"}],
           \A h \in HostConn : ends[h] \in {"connecting", "open"} => h = mainSocket,
           OpenChannels(ends)
    PROVE  /\ far' \in [Conn -> {"none", "connecting", "open", "closing", "closed"}]
           /\ mainSocket' \in HostConn \cup {None}
           /\ \A h \in HostConn : far'[h] \in {"connecting", "open"} => h = mainSocket'
<1> DEFINE closed == CloseChannels(ends)
<1>1. /\ closed \in [Conn -> {"none", "connecting", "open", "closing", "closed"}]
      /\ \A h \in HostConn : closed[h] \notin {"connecting", "open"}
  BY ConnAssumption DEF CloseChannels, TypeOK, Conn, ConnAssumption
<1>2. CASE Unused = {}
  BY <1>1, <1>2 DEF OpenChannels
<1>3. CASE Unused # {}
  <2>1. Fresh \in HostConn
    BY <1>3 DEF Fresh, Unused
  <2>2. mainSocket' = Fresh /\ far' = [closed EXCEPT ![Fresh] = "connecting"]
    BY <1>3 DEF OpenChannels
  <2> QED BY <1>1, <2>1, <2>2 DEF Conn
<1> QED BY <1>2, <1>3

\* The same of the session's reaction to a disconnection.
LEMMA Disconnected ==
    ASSUME TypeOK, NEW ends \in [Conn -> {"none", "connecting", "open", "closing", "closed"}],
           \A h \in HostConn : ends[h] \in {"connecting", "open"} => h = mainSocket,
           OnClientDisconnected(ends)
    PROVE  /\ far' \in [Conn -> {"none", "connecting", "open", "closing", "closed"}]
           /\ mainSocket' \in HostConn \cup {None}
           /\ \A h \in HostConn : far'[h] \in {"connecting", "open"} => h = mainSocket'
<1>1. CASE stopping
  BY <1>1 DEF OnClientDisconnected, TypeOK
<1>2. CASE ~stopping
  BY <1>2, ChannelsOpened DEF OnClientDisconnected
<1> QED BY <1>1, <1>2

LEMMA TypeStep == TypeOK /\ [Next]_vars => TypeOK'
<1> SUFFICES ASSUME TypeOK, [Next]_vars PROVE TypeOK'
  OBVIOUS
<1> USE ConnAssumption DEF ConnAssumption, Conn
<1>1. CASE Register
  BY <1>1, ChannelsOpened DEF Register, TypeOK
<1>2. CASE Stop
  BY <1>2 DEF Stop, CloseChannels, TypeOK
<1>3. CASE RemoveSession
  BY <1>3 DEF RemoveSession, CloseBoth, TypeOK
<1>4. ASSUME NEW h \in HostConn, HostConnOpened(h) PROVE TypeOK'
  BY <1>4 DEF HostConnOpened, TypeOK
<1>5. ASSUME NEW h \in HostConn, HeartbeatTerminates(h) PROVE TypeOK'
  <2> DEFINE ends == [far EXCEPT ![h] = "closing"]
  <2>1. /\ ends \in [Conn -> {"none", "connecting", "open", "closing", "closed"}]
        /\ \A g \in HostConn : ends[g] \in {"connecting", "open"} => g = mainSocket
    BY DEF TypeOK
  <2>2. OnClientDisconnected(ends)
    BY <1>5 DEF HeartbeatTerminates
  <2> HIDE DEF ends
  <2> QED BY <1>5, <2>1, <2>2, Disconnected DEF HeartbeatTerminates, TypeOK
<1>6. ASSUME NEW h \in HostConn, NEW c \in ClientConn, HostReads(h, c) PROVE TypeOK'
  BY <1>6 DEF HostReads, TypeOK
<1>7. ASSUME NEW h \in HostConn, CloseReachesHost(h) PROVE TypeOK'
  BY <1>7 DEF CloseReachesHost, TypeOK
<1>8. ASSUME NEW h \in HostConn, HostConnClosed(h) PROVE TypeOK'
  <2> DEFINE ends == [far EXCEPT ![h] = "closed"]
  <2>1. /\ ends \in [Conn -> {"none", "connecting", "open", "closing", "closed"}]
        /\ \A g \in HostConn : ends[g] \in {"connecting", "open"} => g = mainSocket
    BY DEF TypeOK
  <2>2. CASE stage[h] = "attached"
    <3>1. OnClientDisconnected(ends)
      BY <1>8, <2>2 DEF HostConnClosed
    <3> HIDE DEF ends
    <3> QED BY <1>8, <2>1, <2>2, <3>1, Disconnected DEF HostConnClosed, TypeOK
  <2>3. CASE stage[h] # "attached"
    BY <1>8, <2>3 DEF HostConnClosed, TypeOK
  <2> QED BY <2>2, <2>3
<1>9. ASSUME NEW c \in ClientConn,
             ClientConnects(c) \/ ClientLeaves(c) \/ CloseReachesClient(c)
      PROVE  TypeOK'
  BY <1>9 DEF ClientConnects, ClientLeaves, CloseReachesClient, TypeOK
<1>10. ASSUME NEW c \in ClientConn, HelloArrives(c) PROVE TypeOK'
  BY <1>10 DEF HelloArrives, TypeOK
<1>11. ASSUME NEW s \in Conn, Connection(s) PROVE TypeOK'
  <2>1. Forwarding(s) \subseteq Conn \X Conn
    BY DEF Forwarding, IsOpen, Other, Role, TypeOK
  <2>2. Held(s) \in [host : HostConn \cup {None}, client : ClientConn \cup {None}]
    BY DEF Held, Role, TypeOK
  <2> QED BY <1>11, <2>1, <2>2 DEF Connection, TypeOK
<1>12. ASSUME NEW s \in Conn, CloseReachesRelay(s) PROVE TypeOK'
  BY <1>12 DEF CloseReachesRelay, TypeOK
<1>13. ASSUME NEW s \in Conn, SocketClosed(s) PROVE TypeOK'
  BY <1>13 DEF SocketClosed, ReleaseClient, TypeOK
<1>14. CASE UNCHANGED vars
  BY <1>14 DEF vars, TypeOK
<1> QED BY <1>1, <1>2, <1>3, <1>4, <1>5, <1>6, <1>7, <1>8, <1>9, <1>10, <1>11, <1>12, <1>13,
           <1>14 DEF Next, HostSide

-------------------------------------------------------------------------------
(* The room *)

RoomInv == OpenIsHeld /\ OpenIsForwarded

\* A step that opens nothing and forgets no open socket.
LEMMA RoomKept ==
    ASSUME RoomInv,
           \A s \in Conn : near'[s] = "open" => near[s] = "open" /\ holder'[Role(s)] = holder[Role(s)],
           \A f \in forwards : near'[f[2]] = "open" => f \in forwards',
           room = "listed" /\ room' # "listed" => \A s \in Conn : near'[s] # "open"
    PROVE  RoomInv'
<1>1. OpenIsHeld'
  BY DEF RoomInv, OpenIsHeld, IsOpen
<1>2. OpenIsForwarded'
  BY DEF RoomInv, OpenIsForwarded, IsOpen, Conn
<1> QED BY <1>1, <1>2 DEF RoomInv

LEMMA RoomStep == TypeOK /\ RoomInv /\ [Next]_vars => RoomInv'
<1> SUFFICES ASSUME TypeOK, RoomInv, [Next]_vars PROVE RoomInv'
  OBVIOUS
<1> USE ConnAssumption DEF ConnAssumption
<1>1. CASE Register
  BY <1>1, RoomKept DEF Register
<1>2. CASE RemoveSession
  <2>1. \A s \in Conn : near'[s] # "open"
    BY <1>2 DEF RemoveSession, CloseBoth, RoomInv, OpenIsHeld, IsOpen, Role, TypeOK
  <2> QED BY <1>2, <2>1 DEF RoomInv, OpenIsHeld, OpenIsForwarded, IsOpen, Conn
<1>3. ASSUME NEW s \in Conn, Connection(s) PROVE RoomInv'
  <2>1. CASE room = "removed" \/ Taken(s)
    <3>1. near' = [near EXCEPT ![s] = "refused"] /\ UNCHANGED <<room, holder, forwards>>
      BY <1>3, <2>1 DEF Connection
    <3> QED BY <3>1, RoomKept DEF TypeOK
  <2>2. CASE ~(room = "removed" \/ Taken(s))
    <3>1. /\ room = "listed" /\ room' = room
          /\ near' = [near EXCEPT ![s] = "open"]
          /\ holder' = Held(s)
          /\ forwards' = forwards \cup Forwarding(s)
      BY <1>3, <2>2 DEF Connection
    <3>2. \A t \in Conn : Role(t) = Role(s) /\ t # s => near[t] # "open"
      BY <2>2 DEF RoomInv, OpenIsHeld, IsOpen, Taken, Conn
    <3>3. OpenIsHeld'
      BY <3>1, <3>2 DEF RoomInv, OpenIsHeld, IsOpen, Held, Role, TypeOK
    <3>4. ASSUME NEW t \in Conn, Role(t) = Other(Role(s)), near[t] = "open"
          PROVE  {<<s, t>>, <<t, s>>} \subseteq Forwarding(s)
      BY <3>4 DEF RoomInv, OpenIsHeld, IsOpen, Forwarding
    <3>5. OpenIsForwarded'
      <4> SUFFICES ASSUME NEW h \in HostConn, NEW c \in ClientConn,
                          near'[h] = "open", near'[c] = "open"
                   PROVE  {<<h, c>>, <<c, h>>} \subseteq forwards'
        BY DEF OpenIsForwarded, IsOpen
      <4>1. CASE h = s
        BY <3>1, <3>4, <4>1 DEF TypeOK, Role, Other, Conn
      <4>2. CASE c = s
        BY <3>1, <3>4, <4>2 DEF TypeOK, Role, Other, Conn
      <4>3. CASE h # s /\ c # s
        BY <3>1, <4>3 DEF RoomInv, OpenIsForwarded, IsOpen, TypeOK, Conn
      <4> QED BY <4>1, <4>2, <4>3
    <3> QED BY <3>3, <3>5 DEF RoomInv
  <2> QED BY <2>1, <2>2
<1>4. ASSUME NEW s \in Conn, CloseReachesRelay(s) PROVE RoomInv'
  BY <1>4, RoomKept DEF CloseReachesRelay, TypeOK
<1>5. ASSUME NEW s \in Conn, SocketClosed(s) PROVE RoomInv'
  <2>1. forwards' = {f \in forwards : f[2] # s} /\ room' = room /\ near'[s] = "closed"
    BY <1>5 DEF SocketClosed, ReleaseClient, TypeOK
  <2>2. \A f \in forwards : near'[f[2]] = "open" => f \in forwards'
    BY <2>1
  <2>3. \A t \in Conn : near'[t] = "open" =>
                          near[t] = "open" /\ holder'[Role(t)] = holder[Role(t)]
    <3>1. CASE near[s] = "closing" /\ s \in ClientConn
      BY <1>5, <3>1 DEF SocketClosed, ReleaseClient, TypeOK, RoomInv, OpenIsHeld, IsOpen, Role, Conn
    <3>2. CASE ~(near[s] = "closing" /\ s \in ClientConn)
      BY <1>5, <3>2 DEF SocketClosed, TypeOK, RoomInv, OpenIsHeld, IsOpen, Role, Conn
    <3> QED BY <3>1, <3>2
  <2> QED BY <2>1, <2>2, <2>3, RoomKept
<1>6. CASE UNCHANGED <<room, holder, near, forwards>>
  BY <1>6, RoomKept
<1>7. Stop => UNCHANGED <<room, holder, near, forwards>>
  BY DEF Stop
<1>8. \A h \in HostConn :
        HostConnOpened(h) \/ HeartbeatTerminates(h) \/ HostSide(h) =>
            UNCHANGED <<room, holder, near, forwards>>
  BY DEF HostConnOpened, HeartbeatTerminates, HostSide, HostReads, CloseReachesHost, HostConnClosed
<1>9. \A c \in ClientConn :
        ClientConnects(c) \/ ClientLeaves(c) \/ CloseReachesClient(c) \/ HelloArrives(c) =>
            UNCHANGED <<room, holder, near, forwards>>
  BY DEF ClientConnects, ClientLeaves, CloseReachesClient, HelloArrives
<1>10. UNCHANGED vars => UNCHANGED <<room, holder, near, forwards>>
  BY DEF vars
<1> QED BY <1>1, <1>2, <1>3, <1>4, <1>5, <1>6, <1>7, <1>8, <1>9, <1>10 DEF Next

-------------------------------------------------------------------------------
LEMMA Invariance == Spec => []IInv
<1>1. Init => IInv
  <2> SUFFICES ASSUME Init PROVE IInv
    OBVIOUS
  <2>1. TypeOK
    BY DEF Init, TypeOK, Conn
  <2>2. \A s \in Conn : near[s] = "none"
    BY DEF Init
  <2> QED BY <2>1, <2>2 DEF IInv, OpenIsHeld, OpenIsForwarded, IsOpen, Conn
<1>2. IInv /\ [Next]_vars => IInv'
  BY TypeStep, RoomStep DEF IInv, RoomInv
<1> QED BY <1>1, <1>2, PTL DEF Spec

\* The state of the room and of both ends has its types; the host never has two
\* connections to the relay that it uses.
THEOREM RegistryTypes == Spec => []TypeOK
<1>1. IInv => TypeOK
  BY DEF IInv
<1> QED BY Invariance, <1>1, PTL

\* setSocket() and setupForwarding(): an open host and an open client are the
\* room's and are forwarded to each other.
THEOREM RightEndsJoined == Spec => []RolesAreConnected
<1>1. IInv => RolesAreConnected
  <2> SUFFICES ASSUME IInv, NEW h \in HostConn, NEW c \in ClientConn, IsOpen(h), IsOpen(c)
               PROVE  /\ holder = [host |-> h, client |-> c]
                      /\ {<<h, c>>, <<c, h>>} \subseteq forwards
    BY DEF RolesAreConnected
  <2>1. holder.host = h /\ holder.client = c
    BY ConnAssumption DEF IInv, OpenIsHeld, Role, Conn, ConnAssumption
  <2> QED BY <2>1 DEF IInv, TypeOK, OpenIsForwarded
<1> QED BY Invariance, <1>1, PTL

\* removeSession(): no socket of a removed room stays open.
THEOREM RoomLeavesNobody == Spec => []NothingOutlivesRoom
<1>1. IInv => NothingOutlivesRoom
  BY DEF IInv, OpenIsHeld, NothingOutlivesRoom
<1> QED BY Invariance, <1>1, PTL

===============================================================================
