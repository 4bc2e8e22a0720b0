-------------------------- MODULE PairProgServer_proof ------------------------
(***************************************************************************)
(* What the endpoint guarantees for every set of sockets and every limit.  *)
(* The inductive invariant adds to the properties two facts they rest on:  *)
(* the counter never exceeds the pings the socket in the slot left         *)
(* unanswered, and the host believes nothing before it listens.            *)
(*                                                                         *)
(* The second half shows that the endpoint implements Presence.            *)
(***************************************************************************)
EXTENDS PairProgServer, TLAPS

SilenceCounted == slot # NoSocket => missed <= unanswered[slot]

DeafHostSeesNothing ==
    /\ hostListens \/ ~hostSees
    /\ phase = "idle" => ~hostListens

IInv ==
    /\ TypeOK
    /\ SlotWillBeFreed
    /\ BeliefIsBacked
    /\ SilenceCounted
    /\ DeafHostSeesNothing

-------------------------------------------------------------------------------
(* Lemmas about the operators *)

\* Closing a set of sockets keeps readyStates readyStates ...
LEMMA CloseAllType ==
    ASSUME NEW w \in [Sock -> {"none", "open", "closing", "closed"}], NEW S
    PROVE  CloseAll(w, S) \in [Sock -> {"none", "open", "closing", "closed"}]
BY DEF CloseAll

\* ... and no socket gets nearer to, or farther from, its 'close' event.
LEMMA CloseAllKeepsUnclosed ==
    ASSUME NEW w \in [Sock -> {"none", "open", "closing", "closed"}], NEW S,
           NEW s \in Sock
    PROVE  w[s] \in {"open", "closing"} <=> CloseAll(w, S)[s] \in {"open", "closing"}
BY DEF CloseAll

\* Taking a frame leaves every inbox a sequence of frames.
LEMMA TakeFrameType ==
    ASSUME TypeOK, NEW s \in Sock, NEW f \in Frame, TakeFrame(s, f)
    PROVE  /\ inbox' \in [Sock -> Seq(Frame)]
           /\ ws[s] \in {"open", "closing"}
BY DEF TypeOK, TakeFrame

\* Sending one does, too.
LEMMA SendType ==
    ASSUME TypeOK, NEW s \in Sock, NEW f \in Frame, Send(s, f)
    PROVE  inbox' \in [Sock -> Seq(Frame)]
BY DEF TypeOK, Send

-------------------------------------------------------------------------------
(* The type invariant *)

\* No step of the endpoint leaves the types of its state: in particular the
\* count of missed pings never passes MAX_MISSED_PINGS.
LEMMA TypeStep == TypeOK /\ [Next]_vars => TypeOK'
<1> SUFFICES ASSUME TypeOK, [Next]_vars PROVE TypeOK'
  OBVIOUS
<1>0. 0 \in 0..MaxMissed /\ 0 \in 0..MaxOwed
  BY BoundAssumption DEF BoundAssumption
<1>1. CASE Start \/ StartListening
  BY <1>1 DEF Start, StartListening, TypeOK
<1>2. CASE Stop
  <2>1. ws' \in [Sock -> {"none", "open", "closing", "closed"}]
    BY <1>2, CloseAllType DEF Stop, TypeOK
  <2> QED BY <1>2, <2>1 DEF Stop, TypeOK
<1>3. ASSUME NEW s \in LanSock, HandleNewConnection(s) PROVE TypeOK'
  <2>1. s \in Sock
    BY DEF Sock
  <2>2. <<"Hello">> \in Seq(Frame)
    BY DEF Frame
  <2>3. CASE HasClient
    BY <1>3, <2>1, <2>3 DEF HandleNewConnection, TypeOK
  <2>4. CASE ~HasClient
    <3>1. inbox' \in [Sock -> Seq(Frame)]
      BY <1>3, <2>1, <2>2, <2>4 DEF HandleNewConnection, TypeOK
    <3>2. /\ lsn' \in [Sock -> {"none", "first", "attached"}]
          /\ missed' \in 0..MaxMissed
      BY <1>0, <1>3, <2>1, <2>4 DEF HandleNewConnection, Attach, TypeOK
    <3>3. /\ ws' \in [Sock -> {"none", "open", "closing", "closed"}]
          /\ hello' \in [Sock -> {"none", "sent", "lost", "read", "heard"}]
          /\ slot' \in Sock
      BY <1>3, <2>1, <2>4 DEF HandleNewConnection, TypeOK
    <3> QED BY <1>3, <3>1, <3>2, <3>3 DEF HandleNewConnection, TypeOK
  <2> QED BY <2>3, <2>4
<1>4. ASSUME NEW s \in RelaySock, AdoptRelaySocket(s) PROVE TypeOK'
  BY <1>4 DEF AdoptRelaySocket, TypeOK, Sock
<1>5. ASSUME NEW s \in Sock, Peer(s) PROVE TypeOK'
  <2>1. CASE PeerHello(s)
    <3>1. inbox' \in [Sock -> Seq(Frame)]
      BY <2>1, SendType DEF PeerHello, Frame
    <3> QED BY <2>1, <3>1 DEF PeerHello, TypeOK
  <2>2. CASE PeerData(s)
    <3>1. inbox' \in [Sock -> Seq(Frame)]
      BY <2>2, SendType DEF PeerData, Frame
    <3> QED BY <2>2, <3>1 DEF PeerData, TypeOK
  <2>3. CASE PeerPong(s)
    <3>1. inbox' \in [Sock -> Seq(Frame)]
      BY <2>3, SendType DEF PeerPong, Frame
    <3>2. owed[s] - 1 \in 0..MaxOwed
      BY BoundAssumption, <2>3 DEF BoundAssumption, PeerPong, TypeOK
    <3> QED BY <2>3, <3>1, <3>2 DEF PeerPong, TypeOK
  <2>4. CASE PeerVanishes(s)
    BY <2>4 DEF PeerVanishes, TypeOK
  <2>5. CASE ConnectionEnds(s)
    BY <2>5 DEF ConnectionEnds, TypeOK
  <2> QED BY <1>5, <2>1, <2>2, <2>3, <2>4, <2>5 DEF Peer
<1>6. ASSUME NEW s \in Sock, NEW reject \in BOOLEAN, ReadHello(s, reject)
      PROVE  TypeOK'
  <2>1. inbox' \in [Sock -> Seq(Frame)]
    BY <1>6, TakeFrameType DEF ReadHello, Frame
  <2>2. /\ ws' \in [Sock -> {"none", "open", "closing", "closed"}]
        /\ slot' \in Sock \cup {NoSocket}
    BY <1>6 DEF ReadHello, EmitConnected, TypeOK, Holds
  <2>3. hello' \in [Sock -> {"none", "sent", "lost", "read", "heard"}]
    BY <1>6 DEF ReadHello, EmitConnected, TypeOK
  <2>4. hostSees' \in BOOLEAN
    BY <1>6 DEF ReadHello, EmitConnected, TypeOK
  <2> QED BY <1>6, <2>1, <2>2, <2>3, <2>4 DEF ReadHello, TypeOK
<1>7. ASSUME NEW s \in Sock, NEW reject \in BOOLEAN, RelayAdopted(s, reject)
      PROVE  TypeOK'
  <2>1. inbox' \in [Sock -> Seq(Frame)]
    BY <1>7, TakeFrameType DEF RelayAdopted, Frame
  <2>2. /\ lsn' \in [Sock -> {"none", "first", "attached"}]
        /\ missed' \in 0..MaxMissed
    BY <1>0, <1>7 DEF RelayAdopted, Attach, TypeOK
  <2>3. /\ ws' \in [Sock -> {"none", "open", "closing", "closed"}]
        /\ slot' \in Sock \cup {NoSocket}
    BY <1>7 DEF RelayAdopted, EmitConnected, TypeOK, Holds
  <2>4. hello' \in [Sock -> {"none", "sent", "lost", "read", "heard"}]
    BY <1>7 DEF RelayAdopted, EmitConnected, TypeOK
  <2>5. hostSees' \in BOOLEAN
    BY <1>7 DEF RelayAdopted, EmitConnected, TypeOK
  <2>6. UNCHANGED <<phase, hostListens, owed, alive, unanswered>>
    BY <1>7 DEF RelayAdopted
  <2> QED BY <2>1, <2>2, <2>3, <2>4, <2>5, <2>6 DEF TypeOK
<1>8. ASSUME NEW s \in Sock, ReadPong(s) PROVE TypeOK'
  <2>1. inbox' \in [Sock -> Seq(Frame)]
    BY <1>8, TakeFrameType DEF ReadPong, Frame
  <2>2. missed' \in 0..MaxMissed
    BY <1>0, <1>8 DEF ReadPong
  <2>3. unanswered' \in [Sock -> Nat]
    BY <1>8 DEF ReadPong, TypeOK
  <2> QED BY <1>8, <2>1, <2>2, <2>3 DEF ReadPong, TypeOK
<1>9. ASSUME NEW s \in Sock, RelayRefused(s) PROVE TypeOK'
  <2>1. inbox' \in [Sock -> Seq(Frame)]
    BY <1>9, TakeFrameType DEF RelayRefused, Frame
  <2> QED BY <1>9, <2>1 DEF RelayRefused, TypeOK
<1>10. ASSUME NEW s \in Sock, AttachedClosed(s) PROVE TypeOK'
  <2>1. [ws EXCEPT ![s] = "closed"] \in [Sock -> {"none", "open", "closing", "closed"}]
    BY DEF TypeOK
  <2>2. ws' \in [Sock -> {"none", "open", "closing", "closed"}]
    BY <1>10, <2>1, CloseAllType DEF AttachedClosed, OnClose, EmitDisconnected
  <2>3. /\ lsn' \in [Sock -> {"none", "first", "attached"}]
        /\ inbox' \in [Sock -> Seq(Frame)]
        /\ owed' \in [Sock -> 0..MaxOwed]
        /\ alive' \in [Sock -> BOOLEAN]
        /\ hello' \in [Sock -> {"none", "sent", "lost", "read", "heard"}]
        /\ unanswered' \in [Sock -> Nat]
    BY <1>0, <1>10 DEF AttachedClosed, Forget, TypeOK
  <2>4. hostSees' \in BOOLEAN
    BY <1>10 DEF AttachedClosed, OnClose, EmitDisconnected, TypeOK
  <2> QED BY <1>0, <1>10, <2>2, <2>3, <2>4 DEF AttachedClosed, OnClose, TypeOK
<1>11. ASSUME NEW s \in Sock, UnattachedClosed(s) PROVE TypeOK'
  BY <1>0, <1>11 DEF UnattachedClosed, Forget, TypeOK
<1>12. CASE HeartbeatPing
  <2>1. slot \in Sock
    BY <1>12 DEF HeartbeatPing, HasClient, Holds, TypeOK
  <2>2. missed' \in 0..MaxMissed
    BY BoundAssumption, <1>12 DEF BoundAssumption, HeartbeatPing, PastLimit, CountPing, TypeOK
  <2>3. owed' \in [Sock -> 0..MaxOwed]
    BY BoundAssumption, <1>12, <2>1 DEF BoundAssumption, HeartbeatPing, Owe, TypeOK
  <2>4. unanswered' \in [Sock -> Nat]
    BY BoundAssumption, <1>12, <2>1 DEF BoundAssumption, HeartbeatPing, Unanswered, TypeOK
  <2> QED BY <1>12, <2>2, <2>3, <2>4 DEF HeartbeatPing, TypeOK
<1>13. CASE HeartbeatTerminate
  <2>1. [ws EXCEPT ![slot] = "closing"] \in [Sock -> {"none", "open", "closing", "closed"}]
    BY DEF TypeOK
  <2>2. ws' \in [Sock -> {"none", "open", "closing", "closed"}]
    BY <1>13, <2>1, CloseAllType DEF HeartbeatTerminate, EmitDisconnected
  <2>3. hostSees' \in BOOLEAN
    BY <1>13 DEF HeartbeatTerminate, EmitDisconnected, TypeOK
  <2> QED BY <1>0, <1>13, <2>2, <2>3 DEF HeartbeatTerminate, TypeOK
<1>14. CASE UNCHANGED vars
  BY <1>14 DEF vars, TypeOK
<1> QED
  BY <1>1, <1>2, <1>3, <1>4, <1>5, <1>6, <1>7, <1>8, <1>9, <1>10, <1>11,
     <1>12, <1>13, <1>14 DEF Next, Deliver, Closed, HeartbeatTick

\* The initial state has its types.
LEMMA InitTypes == Init => TypeOK
<1> SUFFICES ASSUME Init PROVE TypeOK
  OBVIOUS
<1>1. inbox \in [Sock -> Seq(Frame)]
  BY DEF Init
<1>2. missed \in 0..MaxMissed /\ owed \in [Sock -> 0..MaxOwed]
  BY BoundAssumption DEF BoundAssumption, Init
<1> QED BY <1>1, <1>2 DEF Init, TypeOK

\* The state always has its types.
THEOREM ServerTypes == Spec => []TypeOK
<1> QED BY InitTypes, TypeStep, PTL DEF Spec

-------------------------------------------------------------------------------
(* The safety invariant *)

\* The endpoint keeps the slot, the host's belief and the heartbeat count in
\* agreement with the sockets, whatever happens to them.
LEMMA SafetyStep == IInv /\ [Next]_vars => IInv'
<1> SUFFICES ASSUME IInv, [Next]_vars PROVE IInv'
  OBVIOUS
<1>0. TypeOK /\ TypeOK'
  BY TypeStep DEF IInv
<1> DEFINE Rest == /\ SlotWillBeFreed /\ BeliefIsBacked
                   /\ SilenceCounted /\ DeafHostSeesNothing
<1> SUFFICES Rest'
  BY <1>0 DEF IInv
<1>1. CASE Start \/ StartListening
  BY <1>0, <1>1 DEF IInv, Start, StartListening, TypeOK, SlotWillBeFreed,
     BeliefIsBacked, SilenceCounted, DeafHostSeesNothing, Unclosed, Hosting
<1>2. CASE Stop
  BY <1>2 DEF IInv, Stop, SlotWillBeFreed, BeliefIsBacked, SilenceCounted,
     DeafHostSeesNothing, Unclosed, Hosting
<1>3. ASSUME NEW s \in LanSock, HandleNewConnection(s) PROVE Rest'
  <2>1. s \in Sock
    BY DEF Sock
  <2>2. CASE HasClient
    <3>1. \A t \in Sock : Unclosed(t) => Unclosed(t)'
      BY <1>0, <1>3, <2>1, <2>2 DEF HandleNewConnection, TypeOK, Unclosed
    <3> QED
      BY <1>0, <1>3, <2>2, <3>1 DEF IInv, HandleNewConnection, TypeOK,
         SlotWillBeFreed, BeliefIsBacked, SilenceCounted, DeafHostSeesNothing, Hosting
  <2>3. CASE ~HasClient
    <3>1. \A t \in Sock : Unclosed(t) => Unclosed(t)'
      BY <1>0, <1>3, <2>1, <2>3 DEF HandleNewConnection, Attach, TypeOK, Unclosed
    <3>2. Unclosed(s)'
      BY <1>0, <1>3, <2>1, <2>3 DEF HandleNewConnection, Attach, TypeOK, Unclosed
    <3>3. slot' = s /\ missed' = 0 /\ unanswered'[s] \in Nat
      BY <1>0, <1>3, <2>1, <2>3 DEF HandleNewConnection, Attach, TypeOK
    <3> QED
      BY <1>0, <1>3, <2>1, <2>3, <3>1, <3>2, <3>3 DEF IInv, HandleNewConnection,
         SlotWillBeFreed, BeliefIsBacked, SilenceCounted, DeafHostSeesNothing, Hosting
  <2> QED BY <2>2, <2>3
<1>4. ASSUME NEW s \in RelaySock, AdoptRelaySocket(s) PROVE Rest'
  <2>1. \A t \in Sock : Unclosed(t) => Unclosed(t)'
    BY <1>0, <1>4 DEF AdoptRelaySocket, TypeOK, Unclosed, Sock
  <2> QED
    BY <1>0, <1>4, <2>1 DEF IInv, AdoptRelaySocket, TypeOK, SlotWillBeFreed,
       BeliefIsBacked, SilenceCounted, DeafHostSeesNothing, Hosting
<1>5. ASSUME NEW s \in Sock, Peer(s) PROVE Rest'
  <2>1. \A t \in Sock : Unclosed(t) => Unclosed(t)'
    BY <1>0, <1>5 DEF Peer, PeerHello, PeerData, PeerPong, PeerVanishes,
       ConnectionEnds, TypeOK, Unclosed
  <2>2. UNCHANGED <<phase, hostListens, slot, missed, hostSees, unanswered>>
    BY <1>5 DEF Peer, PeerHello, PeerData, PeerPong, PeerVanishes, ConnectionEnds
  <2> QED
    BY <1>0, <2>1, <2>2 DEF IInv, TypeOK, SlotWillBeFreed,
       BeliefIsBacked, SilenceCounted, DeafHostSeesNothing, Hosting
<1>6. ASSUME NEW s \in Sock, NEW reject \in BOOLEAN, ReadHello(s, reject)
      PROVE  Rest'
  <2>1. \A t \in Sock : Unclosed(t) => Unclosed(t)'
    BY <1>0, <1>6 DEF ReadHello, EmitConnected, TypeOK, Unclosed, Holds
  <2>2. Unclosed(s)'
    BY <1>6, <2>1 DEF ReadHello, TakeFrame, Unclosed
  <2>3. slot' \in {slot, NoSocket}
    BY <1>6 DEF ReadHello, EmitConnected
  <2>4. UNCHANGED <<phase, hostListens, missed, unanswered>>
    BY <1>6 DEF ReadHello
  <2>5. hostSees' = (hostSees \/ hostListens)
    BY <1>6 DEF ReadHello, EmitConnected
  <2> QED
    BY <1>0, <2>1, <2>2, <2>3, <2>4, <2>5 DEF IInv, TypeOK, SlotWillBeFreed,
       BeliefIsBacked, SilenceCounted, DeafHostSeesNothing, Hosting
<1>7. ASSUME NEW s \in Sock, NEW reject \in BOOLEAN, RelayAdopted(s, reject)
      PROVE  Rest'
  <2>1. ws[s] \in {"open", "closing"}
    BY <1>7 DEF RelayAdopted, TakeFrame
  <2>2. ws' = ws \/ ws' = [ws EXCEPT ![s] = "closing"]
    BY <1>7 DEF RelayAdopted, EmitConnected
  <2>3. \A t \in Sock : Unclosed(t) => Unclosed(t)'
    BY <1>0, <1>7, <2>2 DEF RelayAdopted, Attach, TypeOK, Unclosed
  <2>4. Unclosed(s)'
    BY <1>0, <1>7, <2>1, <2>2 DEF RelayAdopted, Attach, TypeOK, Unclosed
  <2>5. slot' \in {s, NoSocket}
    BY <1>7 DEF RelayAdopted, EmitConnected
  <2>6. missed' = 0 /\ unanswered'[s] \in Nat
    BY <1>0, <1>7 DEF RelayAdopted, Attach, TypeOK
  <2>7. UNCHANGED <<phase, hostListens>>
    BY <1>7 DEF RelayAdopted
  <2>8. hostSees' \in {hostSees, (hostSees \/ hostListens)}
    BY <1>7 DEF RelayAdopted, EmitConnected
  <2> QED
    BY <1>0, <2>3, <2>4, <2>5, <2>6, <2>7, <2>8 DEF IInv, TypeOK, SlotWillBeFreed,
       BeliefIsBacked, SilenceCounted, DeafHostSeesNothing, Hosting
<1>8. ASSUME NEW s \in Sock, ReadPong(s) PROVE Rest'
  <2>1. \A t \in Sock : Unclosed(t) => Unclosed(t)'
    BY <1>8 DEF ReadPong, Unclosed
  <2>2. missed' = 0 /\ \A t \in Sock : unanswered'[t] \in Nat
    BY <1>0, <1>8 DEF ReadPong, TypeOK
  <2> QED
    BY <1>0, <1>8, <2>1, <2>2 DEF IInv, ReadPong, TypeOK, SlotWillBeFreed,
       BeliefIsBacked, SilenceCounted, DeafHostSeesNothing, Hosting
<1>9. ASSUME NEW s \in Sock, RelayRefused(s) PROVE Rest'
  <2>1. \A t \in Sock : Unclosed(t) => Unclosed(t)'
    BY <1>0, <1>9 DEF RelayRefused, TypeOK, Unclosed
  <2> QED
    BY <1>0, <1>9, <2>1 DEF IInv, RelayRefused, TypeOK, SlotWillBeFreed,
       BeliefIsBacked, SilenceCounted, DeafHostSeesNothing, Hosting
<1>10. ASSUME NEW s \in Sock, AttachedClosed(s) PROVE Rest'
  <2>1. slot' = NoSocket /\ UNCHANGED <<phase, hostListens>>
    BY <1>10 DEF AttachedClosed, OnClose
  <2>2. hostSees' = (hostSees /\ ~Hosting)
    BY <1>10 DEF AttachedClosed, OnClose, EmitDisconnected
  <2> QED
    BY <2>1, <2>2 DEF IInv, SlotWillBeFreed, BeliefIsBacked, SilenceCounted,
       DeafHostSeesNothing, Hosting
<1>11. ASSUME NEW s \in Sock, UnattachedClosed(s) PROVE Rest'
  <2>1. \A t \in Sock : Unclosed(t) => Unclosed(t)' /\ t # s
    BY <1>0, <1>11 DEF UnattachedClosed, Forget, TypeOK, Unclosed
  <2>2. UNCHANGED <<phase, hostListens, slot, missed, hostSees>>
    BY <1>11 DEF UnattachedClosed
  <2>3. \A t \in Sock : t # s => unanswered'[t] = unanswered[t]
    BY <1>0, <1>11 DEF UnattachedClosed, Forget, TypeOK
  <2> QED
    BY <1>0, <2>1, <2>2, <2>3 DEF IInv, TypeOK, SlotWillBeFreed,
       BeliefIsBacked, SilenceCounted, DeafHostSeesNothing, Hosting
<1>12. CASE HeartbeatPing
  <2>1. \A t \in Sock : Unclosed(t) => Unclosed(t)'
    BY <1>12 DEF HeartbeatPing, Unclosed
  <2>2. slot \in Sock
    BY <1>0, <1>12 DEF HeartbeatPing, HasClient, Holds, TypeOK
  <2>3. /\ missed' = missed + 1 /\ missed' \in 0..MaxMissed
        /\ unanswered'[slot] = Unanswered(unanswered[slot])
    BY <1>0, <1>12, <2>2 DEF HeartbeatPing, CountPing, TypeOK
  <2>4. missed \in Nat /\ unanswered[slot] \in Nat /\ missed <= unanswered[slot]
    BY <1>0, <1>12, <2>2 DEF IInv, SilenceCounted, TypeOK, HeartbeatPing, HasClient, Holds
  <2>5. UNCHANGED <<phase, hostListens, slot, hostSees>>
    BY <1>12 DEF HeartbeatPing
  <2>6. SilenceCounted'
    BY BoundAssumption, <2>3, <2>4, <2>5 DEF BoundAssumption, SilenceCounted, Unanswered
  <2> QED
    BY <1>0, <2>1, <2>2, <2>5, <2>6 DEF IInv, TypeOK, SlotWillBeFreed,
       BeliefIsBacked, DeafHostSeesNothing, Hosting
<1>13. CASE HeartbeatTerminate
  <2>1. slot' = NoSocket /\ UNCHANGED <<phase, hostListens>>
    BY <1>13 DEF HeartbeatTerminate
  <2>2. hostSees' = (hostSees /\ ~Hosting)
    BY <1>13 DEF HeartbeatTerminate, EmitDisconnected
  <2> QED
    BY <2>1, <2>2 DEF IInv, SlotWillBeFreed, BeliefIsBacked, SilenceCounted,
       DeafHostSeesNothing, Hosting
<1>14. CASE UNCHANGED vars
  BY <1>14 DEF vars, IInv, SlotWillBeFreed, BeliefIsBacked, SilenceCounted,
     DeafHostSeesNothing, Unclosed, Hosting
<1> QED
  BY <1>1, <1>2, <1>3, <1>4, <1>5, <1>6, <1>7, <1>8, <1>9, <1>10, <1>11,
     <1>12, <1>13, <1>14 DEF Next, Deliver, Closed, HeartbeatTick

\* The initial state fits.
LEMMA InitSafe == Init => IInv
<1> SUFFICES ASSUME Init PROVE IInv
  OBVIOUS
<1>1. TypeOK
  BY InitTypes
<1> QED
  BY <1>1 DEF Init, IInv, SlotWillBeFreed, BeliefIsBacked, SilenceCounted,
     DeafHostSeesNothing

\* The inductive invariant holds in every reachable state.
LEMMA ServerInvariant == Spec => []IInv
BY InitSafe, SafetyStep, PTL DEF Spec

\* No departed socket keeps the slot: the one in it is attached and will close.
THEOREM SlotIsFreed == Spec => []SlotWillBeFreed
<1>1. IInv => SlotWillBeFreed
  BY DEF IInv
<1> QED BY <1>1, ServerInvariant, PTL

\* While hosting, the host believes in a client only when some attached
\* socket has yet to close.
THEOREM HostBeliefIsBacked == Spec => []BeliefIsBacked
<1>1. IInv => BeliefIsBacked
  BY DEF IInv
<1> QED BY <1>1, ServerInvariant, PTL

\* The heartbeat ends a connection only after MAX_MISSED_PINGS pings this
\* socket has left unanswered.
THEOREM HeartbeatIsFair == Spec => TerminatesOnlySilentPeers
<1>1. IInv /\ [Next]_vars => [HeartbeatTerminate => unanswered[slot] >= MaxMissed]_vars
  <2> SUFFICES ASSUME IInv, HeartbeatTerminate
               PROVE  unanswered[slot] >= MaxMissed
    OBVIOUS
  <2>1. slot \in Sock /\ missed <= unanswered[slot]
    BY DEF IInv, TypeOK, SilenceCounted, HeartbeatTerminate, HasClient, Holds
  <2>2. missed + 1 > MaxMissed
    BY DEF HeartbeatTerminate, PastLimit, CountPing
  <2>3. missed \in Nat /\ unanswered[slot] \in Nat /\ MaxMissed \in Nat
    BY <2>1, BoundAssumption DEF IInv, TypeOK, BoundAssumption
  <2> QED BY <2>1, <2>2, <2>3
<1> QED BY <1>1, ServerInvariant, PTL DEF Spec, TerminatesOnlySilentPeers

-------------------------------------------------------------------------------
(* Presence *)

\* What listeners, ready state and Hello of a socket have to do with each other:
\* a first frame is only awaited from the relay, and not from an open channel
\* once the endpoint is over.
ListenerMatches(s) ==
    /\ ws[s] = "none" => hello[s] = "none"
    /\ lsn[s] # "none" => ws[s] \in {"open", "closing"} /\ phase # "idle"
    /\ lsn[s] = "first" => /\ s \in RelaySock
                           /\ hello[s] \in {"none", "sent", "lost"}
                           /\ phase # "running" => ws[s] # "open"

ListenersMatch == \A s \in Sock : ListenerMatches(s)

\* A Hello is under way once, and only as long as it has not been read.
OneHello ==
    \A s \in Sock : \A i \in DOMAIN inbox[s] :
        inbox[s][i] = "Hello" =>
            hello[s] = "sent" /\ \A j \in DOMAIN inbox[s] : inbox[s][j] = "Hello" => j = i

PresenceInv == IInv /\ ListenersMatch /\ OneHello

\* The frames of a socket that has got one more.
LEMMA Sent ==
    ASSUME TypeOK, NEW s \in Sock, NEW f \in Frame, Send(s, f)
    PROVE  /\ \A t \in Sock : t # s => inbox'[t] = inbox[t]
           /\ \A i \in DOMAIN inbox'[s] :
                \/ i \in DOMAIN inbox[s] /\ inbox'[s][i] = inbox[s][i]
                \/ i = Len(inbox[s]) + 1 /\ inbox'[s][i] = f
<1>1. inbox'[s] = Append(inbox[s], f) /\ inbox[s] \in Seq(Frame)
  BY DEF Send, TypeOK
<1> QED BY <1>1 DEF Send, TypeOK

\* The frames of a socket of which one was taken.
LEMMA Taken ==
    ASSUME TypeOK, NEW s \in Sock, NEW f \in Frame, TakeFrame(s, f)
    PROVE  /\ \A t \in Sock : t # s => inbox'[t] = inbox[t]
           /\ 1 \in DOMAIN inbox[s] /\ inbox[s][1] = f
           /\ \A i \in DOMAIN inbox'[s] :
                i + 1 \in DOMAIN inbox[s] /\ i + 1 # 1 /\ inbox'[s][i] = inbox[s][i + 1]
           /\ ws[s] \in {"open", "closing"}
<1>1. inbox'[s] = Tail(inbox[s]) /\ inbox[s] \in Seq(Frame) /\ inbox[s] # << >>
  BY DEF TakeFrame, TypeOK
<1> QED BY <1>1 DEF TakeFrame, TypeOK

\* Taking a frame that is no Hello leaves the Hello where it is.
LEMMA TakenOther ==
    ASSUME TypeOK, OneHello, NEW s \in Sock, NEW f \in Frame, TakeFrame(s, f), UNCHANGED hello
    PROVE  OneHello'
<1> SUFFICES ASSUME NEW t \in Sock, NEW i \in DOMAIN inbox'[t], inbox'[t][i] = "Hello"
             PROVE  hello[t] = "sent" /\ \A j \in DOMAIN inbox'[t] : inbox'[t][j] = "Hello" => j = i
  BY DEF OneHello
<1>1. CASE t # s
  BY <1>1, Taken DEF OneHello
<1>2. CASE t = s
  <2>1. i + 1 \in DOMAIN inbox[s] /\ inbox[s][i + 1] = "Hello"
    BY <1>2, Taken
  <2>2. hello[s] = "sent"
    BY <2>1 DEF OneHello
  <2>3. ASSUME NEW j \in DOMAIN inbox'[t], inbox'[t][j] = "Hello" PROVE j = i
    <3>1. j + 1 \in DOMAIN inbox[s] /\ inbox[s][j + 1] = "Hello"
      BY <1>2, <2>3, Taken
    <3>2. j + 1 = i + 1
      BY <2>1, <3>1 DEF OneHello
    <3>3. i \in Nat /\ j \in Nat
      BY TakeFrameType, <1>2, <2>3
    <3> QED BY <3>2, <3>3
  <2> QED BY <1>2, <2>2, <2>3
<1> QED BY <1>1, <1>2

\* A Hello that is taken was the only one, whatever its socket is marked with.
LEMMA TakenHello ==
    ASSUME TypeOK, OneHello, NEW s \in Sock, TakeFrame(s, "Hello"),
           NEW v, hello' = [hello EXCEPT ![s] = v]
    PROVE  /\ hello[s] = "sent"
           /\ OneHello'
<1>0. "Hello" \in Frame
  BY DEF Frame
<1>1. 1 \in DOMAIN inbox[s] /\ inbox[s][1] = "Hello"
  BY <1>0, Taken
<1>2. hello[s] = "sent" /\ \A j \in DOMAIN inbox[s] : inbox[s][j] = "Hello" => j = 1
  BY <1>1 DEF OneHello
<1>3. \A i \in DOMAIN inbox'[s] : inbox'[s][i] # "Hello"
  <2> SUFFICES ASSUME NEW i \in DOMAIN inbox'[s] PROVE inbox'[s][i] # "Hello"
    OBVIOUS
  <2>1. i + 1 \in DOMAIN inbox[s] /\ i + 1 # 1 /\ inbox'[s][i] = inbox[s][i + 1]
    BY <1>0, Taken
  <2> QED BY <1>2, <2>1
<1>4. \A t \in Sock : t # s => inbox'[t] = inbox[t] /\ hello'[t] = hello[t]
  BY <1>0, Taken DEF TypeOK
<1> QED BY <1>2, <1>3, <1>4 DEF OneHello

\* No step lets listeners, ready state and Hello of a socket disagree.
LEMMA ListenersStep ==
    ASSUME PresenceInv, [Next]_vars
    PROVE  ListenersMatch'
<1> SUFFICES ASSUME NEW t \in Sock PROVE ListenerMatches(t)'
  BY DEF ListenersMatch
<1>0. /\ ws \in [Sock -> {"none", "open", "closing", "closed"}]
      /\ lsn \in [Sock -> {"none", "first", "attached"}]
      /\ hello \in [Sock -> {"none", "sent", "lost", "read", "heard"}]
      /\ ListenerMatches(t)
  BY DEF PresenceInv, IInv, TypeOK, ListenersMatch
<1> USE <1>0 DEF ListenerMatches
<1>1. CASE Start \/ StartListening
  BY <1>1 DEF Start, StartListening
<1>2. CASE Stop
  BY <1>2 DEF Stop, CloseAll
<1>3. ASSUME NEW s \in LanSock, HandleNewConnection(s) PROVE ListenerMatches(t)'
  BY <1>3 DEF HandleNewConnection, Attach, Sock
<1>4. ASSUME NEW s \in RelaySock, AdoptRelaySocket(s) PROVE ListenerMatches(t)'
  BY <1>4 DEF AdoptRelaySocket, Hosting, Sock
<1>5. ASSUME NEW s \in Sock, Peer(s) PROVE ListenerMatches(t)'
  BY <1>5 DEF Peer, PeerHello, PeerData, PeerPong, PeerVanishes, ConnectionEnds, CanSend
<1>6. ASSUME NEW s \in Sock, NEW reject \in BOOLEAN, ReadHello(s, reject) PROVE ListenerMatches(t)'
  <2>1. lsn' = lsn /\ phase' = phase /\ lsn[s] = "attached" /\ ws[s] \in {"open", "closing"}
    BY <1>6 DEF ReadHello, TakeFrame
  <2>2. \/ ws' = ws
        \/ ws' = [ws EXCEPT ![slot] = "closing"] /\ ws[slot] = "open"
    BY <1>6 DEF ReadHello, EmitConnected, Holds
  <2>3. t # s => hello'[t] = hello[t]
    BY <1>6 DEF ReadHello, EmitConnected
  <2>4. ws[t] = "none" => t # s
    BY <2>1
  <2> QED BY <2>1, <2>2, <2>3, <2>4
<1>7. ASSUME NEW s \in Sock, NEW reject \in BOOLEAN, RelayAdopted(s, reject) PROVE ListenerMatches(t)'
  <2>1. /\ phase' = phase /\ lsn' = [lsn EXCEPT ![s] = "attached"]
        /\ ws[s] \in {"open", "closing"} /\ phase # "idle"
    BY <1>7 DEF RelayAdopted, Attach, TakeFrame, PresenceInv, ListenersMatch
  <2>2. ws' = ws \/ ws' = [ws EXCEPT ![s] = "closing"]
    BY <1>7 DEF RelayAdopted, EmitConnected
  <2>3. t # s => hello'[t] = hello[t]
    BY <1>7 DEF RelayAdopted, EmitConnected
  <2> QED BY <2>1, <2>2, <2>3
<1>8. ASSUME NEW s \in Sock, ReadPong(s) \/ RelayRefused(s) PROVE ListenerMatches(t)'
  BY <1>8 DEF ReadPong, RelayRefused, TakeFrame
<1>9. ASSUME NEW s \in Sock, Closed(s) PROVE ListenerMatches(t)'
  <2>1. phase' = phase /\ lsn' = [lsn EXCEPT ![s] = "none"] /\ hello' = [hello EXCEPT ![s] = "none"]
    BY <1>9 DEF Closed, AttachedClosed, UnattachedClosed, Forget
  <2>2. t # s => ws'[t] = ws[t] \/ (ws[t] = "open" /\ ws'[t] = "closing")
    BY <1>9 DEF Closed, AttachedClosed, UnattachedClosed, OnClose, EmitDisconnected, CloseAll
  <2> QED BY <2>1, <2>2
<1>10. CASE HeartbeatTick
  <2>1. phase' = phase /\ lsn' = lsn /\ hello' = hello
    BY <1>10 DEF HeartbeatTick, HeartbeatPing, HeartbeatTerminate
  <2>2. ws'[t] = ws[t] \/ (ws[t] = "open" /\ ws'[t] = "closing")
    BY <1>10 DEF HeartbeatTick, HeartbeatPing, HeartbeatTerminate, HasClient, Holds, EmitDisconnected, CloseAll
  <2> QED BY <2>1, <2>2
<1>11. CASE UNCHANGED vars
  BY <1>11 DEF vars
<1> QED
  BY <1>1, <1>2, <1>3, <1>4, <1>5, <1>6, <1>7, <1>8, <1>9, <1>10, <1>11 DEF Next, Deliver

\* A Hello that is not under way does not come to be, elsewhere.
LEMMA HelloKept ==
    ASSUME OneHello,
           \A t \in Sock : \/ inbox'[t] = inbox[t] /\ hello'[t] = hello[t]
                           \/ inbox'[t] = << >>
    PROVE  OneHello'
BY DEF OneHello

\* No step puts a second Hello under way, or one that has been read.
LEMMA HelloStep ==
    ASSUME PresenceInv, [Next]_vars
    PROVE  OneHello'
<1>0. TypeOK /\ TypeOK' /\ OneHello
  BY TypeStep DEF PresenceInv, IInv
<1>1. CASE Start \/ StartListening \/ Stop \/ HeartbeatTick \/ UNCHANGED vars
  BY <1>0, <1>1, HelloKept
  DEF Start, StartListening, Stop, HeartbeatTick, HeartbeatPing, HeartbeatTerminate, vars
<1>2. ASSUME NEW s \in LanSock, HandleNewConnection(s) PROVE OneHello'
  <2>1. CASE inbox' = inbox /\ hello' = hello
    BY <1>0, <2>1, HelloKept
  <2>2. CASE inbox' = [inbox EXCEPT ![s] = <<"Hello">>] /\ hello' = [hello EXCEPT ![s] = "sent"]
    <3>1. s \in Sock /\ inbox'[s] = <<"Hello">> /\ hello'[s] = "sent"
      BY <1>0, <2>2 DEF TypeOK, Sock
    <3>2. \A t \in Sock : t # s => inbox'[t] = inbox[t] /\ hello'[t] = hello[t]
      BY <1>0, <2>2 DEF TypeOK
    <3> QED BY <1>0, <3>1, <3>2 DEF OneHello
  <2> QED BY <1>2, <2>1, <2>2 DEF HandleNewConnection
<1>3. ASSUME NEW s \in RelaySock, AdoptRelaySocket(s) PROVE OneHello'
  BY <1>0, <1>3, HelloKept DEF AdoptRelaySocket
<1>4. ASSUME NEW s \in Sock, Peer(s) PROVE OneHello'
  <2>1. CASE PeerHello(s) \/ PeerData(s)
    <3>1. PICK f \in {"Hello", "Data"}, v \in {"sent", "lost"} :
             /\ Send(s, f) /\ hello' = [hello EXCEPT ![s] = v]
             /\ f = "Hello" => v = "sent"
      BY <2>1 DEF PeerHello, PeerData
    <3>2. hello[s] = "none"
      BY <2>1 DEF PeerHello, PeerData
    <3>3. \A i \in DOMAIN inbox[s] : inbox[s][i] # "Hello"
      BY <1>0, <3>2 DEF OneHello
    <3>4. \A i \in DOMAIN inbox'[s] : inbox'[s][i] = "Hello" =>
             i = Len(inbox[s]) + 1 /\ f = "Hello"
      BY <1>0, <3>1, <3>3, Sent DEF Frame
    <3>5. \A t \in Sock : t # s => inbox'[t] = inbox[t] /\ hello'[t] = hello[t]
      BY <1>0, <3>1, Sent DEF Frame, TypeOK
    <3>6. hello'[s] = v
      BY <1>0, <3>1 DEF TypeOK
    <3> QED BY <1>0, <3>1, <3>4, <3>5, <3>6 DEF OneHello
  <2>2. CASE PeerPong(s)
    <3>1. Send(s, "Pong") /\ hello' = hello
      BY <2>2 DEF PeerPong
    <3>2. \A i \in DOMAIN inbox'[s] : inbox'[s][i] = "Hello" =>
             i \in DOMAIN inbox[s] /\ inbox[s][i] = "Hello"
      BY <1>0, <3>1, Sent DEF Frame
    <3>3. \A t \in Sock : t # s => inbox'[t] = inbox[t]
      BY <1>0, <3>1, Sent DEF Frame
    <3> QED BY <1>0, <3>1, <3>2, <3>3 DEF OneHello
  <2>3. CASE PeerVanishes(s) \/ ConnectionEnds(s)
    BY <1>0, <2>3, HelloKept DEF PeerVanishes, ConnectionEnds
  <2> QED BY <1>4, <2>1, <2>2, <2>3 DEF Peer
<1>5. ASSUME NEW s \in Sock, NEW reject \in BOOLEAN, ReadHello(s, reject) PROVE OneHello'
  BY <1>0, <1>5, TakenHello DEF ReadHello, EmitConnected
<1>6. ASSUME NEW s \in Sock, NEW reject \in BOOLEAN, RelayAdopted(s, reject) PROVE OneHello'
  <2>1. CASE TakeFrame(s, "Hello") /\ EmitConnected(s, s, reject)
    BY <1>0, <2>1, TakenHello DEF EmitConnected
  <2>2. CASE TakeFrame(s, "Data") /\ hello' = hello
    BY <1>0, <2>2, TakenOther DEF Frame
  <2> QED BY <1>6, <2>1, <2>2 DEF RelayAdopted
<1>7. ASSUME NEW s \in Sock, ReadPong(s) \/ RelayRefused(s) PROVE OneHello'
  BY <1>0, <1>7, TakenOther DEF ReadPong, RelayRefused, Frame
<1>8. ASSUME NEW s \in Sock, Closed(s) PROVE OneHello'
  <2>1. inbox' = [inbox EXCEPT ![s] = << >>] /\ hello' = [hello EXCEPT ![s] = "none"]
    BY <1>8 DEF Closed, AttachedClosed, UnattachedClosed, Forget
  <2> QED BY <1>0, <2>1, HelloKept DEF TypeOK
<1> QED
  BY <1>1, <1>2, <1>3, <1>4, <1>5, <1>6, <1>7, <1>8 DEF Next, Deliver

\* The stronger invariant holds in every reachable state.
LEMMA PresenceInvariant == Spec => []PresenceInv
<1>1. Init => PresenceInv
  BY InitSafe DEF Init, PresenceInv, ListenersMatch, ListenerMatches, OneHello
<1>2. PresenceInv /\ [Next]_vars => PresenceInv'
  BY SafetyStep, ListenersStep, HelloStep DEF PresenceInv
<1> QED BY <1>1, <1>2, PTL DEF Spec

-------------------------------------------------------------------------------
(* The endpoint implements Presence *)

\* Which sockets the session sees attached, open and greeted.
LEMMA Views ==
    /\ \A t \in Sock : t \in Attached <=> lsn[t] = "attached"
    /\ \A t \in Sock : t \in Open <=> lsn[t] = "attached" /\ ws[t] = "open"
    /\ \A t \in Sock : t \in Greeted <=> lsn[t] = "attached" /\ hello[t] \in {"read", "heard"}
    /\ Attached \subseteq Sock /\ Open \subseteq Attached /\ Greeted \subseteq Attached
BY DEF Attached, Open, Greeted

\* A step that only concerns frames, peers, the heartbeat's count or sockets
\* without listeners is no step of Presence.
LEMMA StepUnseen ==
    ASSUME UNCHANGED <<phase, slot, hostSees>>,
           \A t \in Sock : /\ lsn'[t] = "attached" <=> lsn[t] = "attached"
                           /\ lsn[t] = "attached" => /\ ws'[t] = "open" <=> ws[t] = "open"
                                                     /\ hello'[t] \in {"read", "heard"}
                                                          <=> hello[t] \in {"read", "heard"}
    PROVE  UNCHANGED Promised!presence
<1>1. Attached' = Attached
  BY DEF Attached
<1>2. Open' = Open
  BY <1>1 DEF Open, Attached
<1>3. Greeted' = Greeted
  BY <1>1 DEF Greeted, Attached
<1>4. Life' = Life
  BY DEF Life
<1> QED BY <1>1, <1>2, <1>3, <1>4 DEF Promised!presence

\* Whoever has the slot is attached, and open as far as its socket is.
LEMMA SlotViewed ==
    ASSUME PresenceInv
    PROVE  /\ slot # NoSocket => slot \in Sock /\ slot \in Attached
           /\ HasClient <=> slot \in Open
           /\ NoSocket \notin Attached
BY SocketAssumption DEF SocketAssumption, PresenceInv, IInv, TypeOK, SlotWillBeFreed, Unclosed,
   HasClient, Holds, Attached, Open

\* The endpoint is up while it is running, and over once it has stopped.
LEMMA Lives ==
    ASSUME TypeOK
    PROVE  /\ phase = "idle" <=> Life = "idle"
           /\ phase = "running" <=> Life = "up"
           /\ phase = "stopped" <=> Life = "over"
BY DEF TypeOK, Life

\* A new LAN connection gets the slot or, refused, is not seen.
LEMMA ConnectsStep ==
    ASSUME PresenceInv, NEW s \in LanSock, HandleNewConnection(s)
    PROVE  [Promised!Next]_(Promised!presence)
<1>0. TypeOK /\ s \in Sock /\ ListenerMatches(s)
  BY DEF PresenceInv, IInv, ListenersMatch, Sock
<1>1. lsn[s] # "attached"
  BY <1>0 DEF HandleNewConnection, ListenerMatches
<1>2. CASE HasClient
  <2>1. UNCHANGED <<phase, slot, hostSees, lsn, hello>> /\ ws' = [ws EXCEPT ![s] = "closing"]
    BY <1>2 DEF HandleNewConnection
  <2> QED BY <1>0, <1>1, <2>1, StepUnseen DEF TypeOK
<1>3. CASE ~HasClient
  <2>1. /\ slot' = s /\ UNCHANGED <<phase, hostSees>> /\ phase = "running"
        /\ lsn' = [lsn EXCEPT ![s] = "attached"] /\ ws' = [ws EXCEPT ![s] = "open"]
        /\ hello' = [hello EXCEPT ![s] = "sent"]
    BY <1>3 DEF HandleNewConnection, Attach
  <2>2. Attached' = Attached \cup {s}
    BY <1>0, <2>1 DEF Attached, TypeOK
  <2>3. Open' = Open \cup {s}
    BY <1>0, <2>1 DEF Open, Attached, TypeOK
  <2>4. Greeted' = Greeted
    BY <1>0, <1>1, <2>1 DEF Greeted, Attached, TypeOK
  <2>5. Life' = Life /\ Life = "up"
    BY <2>1 DEF Life
  <2>6. s \notin Attached /\ slot \notin Open
    BY <1>0, <1>1, <1>3, Views, SlotViewed
  <2>7. Promised!Connects(s)
    BY <2>1, <2>2, <2>3, <2>4, <2>5, <2>6 DEF Promised!Connects, Promised!Attach
  <2> QED BY <1>0, <2>7 DEF Promised!Next
<1> QED BY <1>2, <1>3

\* The first frame of a relay channel attaches it, with or without a Hello.
LEMMA AdoptedStep ==
    ASSUME PresenceInv, NEW s \in Sock, NEW reject \in BOOLEAN, RelayAdopted(s, reject)
    PROVE  [Promised!Next]_(Promised!presence)
<1>0. TypeOK /\ ListenerMatches(s)
  BY DEF PresenceInv, IInv, ListenersMatch
<1>1. /\ lsn[s] = "first" /\ hello[s] \notin {"read", "heard"}
      /\ UNCHANGED phase
      /\ lsn' = [lsn EXCEPT ![s] = "attached"]
      /\ phase # "idle" /\ (ws[s] = "open" => phase = "running")
  BY <1>0 DEF RelayAdopted, Attach, ListenerMatches
<1>2. Attached' = Attached \cup {s}
  BY <1>0, <1>1 DEF Attached, TypeOK
<1>3. Life' = Life
  BY <1>1 DEF Life
<1>4. s \notin Attached /\ slot \notin Open /\ s # NoSocket
  BY <1>0, <1>1, Views, SlotViewed, SocketAssumption DEF RelayAdopted, SocketAssumption
<1>5. ws' = ws \/ ws' = [ws EXCEPT ![s] = "closing"]
  BY DEF RelayAdopted, EmitConnected
<1>6. Open' \in {Open, Open \cup {s}} /\ (s \in Open' <=> ws'[s] = "open")
  <2>1. CASE ws'[s] = "open"
    <3>1. ws' = ws
      BY <1>0, <1>5, <2>1 DEF TypeOK
    <3>2. Open' = Open \cup {s}
      BY <1>0, <1>1, <2>1, <3>1 DEF Open, Attached, TypeOK
    <3> QED BY <2>1, <3>2
  <2>2. CASE ws'[s] # "open"
    <3>1. \A t \in Sock : t # s => ws'[t] = ws[t]
      BY <1>0, <1>5 DEF TypeOK
    <3>2. Open' = Open
      BY <1>0, <1>1, <2>2, <3>1 DEF Open, Attached, TypeOK
    <3> QED BY <1>4, <2>2, <3>2, Views
  <2> QED BY <2>1, <2>2
<1>7. s \in Open' => Life = "up"
  BY <1>0, <1>1, <1>5, <1>6, Lives DEF TypeOK
<1>8. Promised!Attach(s)
  BY <1>0, <1>1, <1>2, <1>3, <1>4, <1>6, <1>7, Lives DEF Promised!Attach
<1>9. CASE TakeFrame(s, "Hello") /\ EmitConnected(s, s, reject)
  <2>1. \E v \in {"read", "heard"} : hello' = [hello EXCEPT ![s] = v]
    BY <1>9 DEF EmitConnected
  <2>2. Greeted' = Greeted \cup {s}
    BY <1>0, <1>1, <2>1 DEF Greeted, Attached, TypeOK
  <2>3. hostSees' \in {hostSees, TRUE}
    BY <1>0, <1>9 DEF EmitConnected, TypeOK
  <2>4. slot' \in {s, NoSocket} /\ (slot' = NoSocket => ws'[s] # "open")
    BY <1>0, <1>4, <1>9 DEF EmitConnected, TypeOK
  <2>5. Promised!ConnectsWithHello(s)
    BY <1>6, <1>8, <2>2, <2>3, <2>4 DEF Promised!ConnectsWithHello, Promised!Announced
  <2> QED BY <2>5 DEF Promised!Next
<1>10. CASE TakeFrame(s, "Data") /\ slot' = s /\ UNCHANGED <<ws, hello, hostSees>>
  <2>1. Greeted' = Greeted
    BY <1>0, <1>1, <1>10 DEF Greeted, Attached, TypeOK
  <2>2. Promised!Connects(s)
    BY <1>8, <1>10, <2>1 DEF Promised!Connects
  <2> QED BY <2>2 DEF Promised!Next
<1> QED BY <1>9, <1>10 DEF RelayAdopted

\* A Hello is read once, and may have the socket in the slot turned away.
LEMMA HelloReadStep ==
    ASSUME PresenceInv, NEW s \in Sock, NEW reject \in BOOLEAN, ReadHello(s, reject)
    PROVE  [Promised!Next]_(Promised!presence)
<1>0. TypeOK /\ OneHello
  BY DEF PresenceInv, IInv
<1>1. PICK v \in {"read", "heard"} : hello' = [hello EXCEPT ![s] = v]
  BY DEF ReadHello, EmitConnected
<1>2. hello[s] = "sent"
  BY <1>0, <1>1, TakenHello DEF ReadHello
<1>3. UNCHANGED <<phase, lsn>> /\ lsn[s] = "attached"
  BY DEF ReadHello
<1>4. Life' = Life /\ Attached' = Attached
  BY <1>3 DEF Life, Attached
<1>5. Greeted' = Greeted \cup {s}
  BY <1>0, <1>1, <1>3, <1>4 DEF Greeted, Attached, TypeOK
<1>6. hostSees' \in {hostSees, TRUE}
  BY <1>0 DEF ReadHello, EmitConnected, TypeOK
<1>7. s \in Attached \ Greeted
  BY <1>2, <1>3, Views
<1>8. Promised!Announced(s)
  BY <1>5, <1>6 DEF Promised!Announced
<1>9. CASE slot' = slot /\ ws' = ws
  <2>1. Open' = Open
    BY <1>4, <1>9 DEF Open
  <2>2. Promised!Hello(s)
    BY <1>4, <1>7, <1>8, <1>9, <2>1 DEF Promised!Hello
  <2> QED BY <2>2 DEF Promised!Next
<1>10. CASE Holds(slot) /\ ws' = [ws EXCEPT ![slot] = "closing"] /\ slot' = NoSocket
  <2>1. slot \in Open /\ slot \in Sock
    BY <1>10, SlotViewed DEF HasClient, Holds
  <2>2. Open' = Open \ {slot}
    BY <1>0, <1>4, <1>10, <2>1 DEF Open, Attached, TypeOK
  <2>3. Promised!HelloRejected(s)
    BY <1>4, <1>7, <1>8, <1>10, <2>1, <2>2 DEF Promised!HelloRejected
  <2> QED BY <2>3 DEF Promised!Next
<1> QED BY <1>9, <1>10 DEF ReadHello, EmitConnected

\* After EmitDisconnected() the session believes in nobody, if it is up.
LEMMA GoneStep ==
    ASSUME PresenceInv, hostSees' = (hostSees /\ ~Hosting), slot' = NoSocket, Open' \subseteq Open
    PROVE  Promised!Gone
<1>1. hostSees' = (hostSees /\ Life # "up")
  BY Lives DEF PresenceInv, IInv, DeafHostSeesNothing, Hosting, TypeOK
<1> QED BY <1>1 DEF Promised!Gone

\* The 'close' event of an attached socket, whichever it is, clears the slot.
LEMMA AttachedClosedStep ==
    ASSUME PresenceInv, NEW s \in Sock, AttachedClosed(s)
    PROVE  [Promised!Next]_(Promised!presence)
<1>0. TypeOK
  BY DEF PresenceInv, IInv
<1>1. /\ slot' = NoSocket /\ UNCHANGED phase /\ hostSees' = (hostSees /\ ~Hosting)
      /\ lsn' = [lsn EXCEPT ![s] = "none"] /\ hello' = [hello EXCEPT ![s] = "none"]
      /\ lsn[s] = "attached" /\ ws[s] = "closing"
  BY DEF AttachedClosed, OnClose, EmitDisconnected, Forget
<1>2. \A t \in Sock : ws'[t] = "open" => ws[t] = "open"
  BY <1>0 DEF AttachedClosed, OnClose, EmitDisconnected, CloseAll, TypeOK
<1>3. Attached' = Attached \ {s}
  BY <1>0, <1>1 DEF Attached, TypeOK
<1>4. Open' \subseteq Open
  BY <1>2, <1>3 DEF Open, Attached
<1>5. Greeted' = Greeted \ {s}
  BY <1>0, <1>1, <1>3 DEF Greeted, Attached, TypeOK
<1>6. Life' = Life
  BY <1>1 DEF Life
<1>7. s \in Attached \ Open
  BY <1>1, Views
<1>8. Promised!Gone
  BY <1>1, <1>4, GoneStep
<1>9. Promised!Closed(s)
  BY <1>3, <1>5, <1>6, <1>7, <1>8 DEF Promised!Closed
<1> QED BY <1>9 DEF Promised!Next

\* The heartbeat does the same before the socket has closed.
LEMMA TerminateStep ==
    ASSUME PresenceInv, HeartbeatTerminate
    PROVE  [Promised!Next]_(Promised!presence)
<1>0. TypeOK /\ slot \in Sock /\ slot \in Open
  BY SlotViewed DEF PresenceInv, IInv, HeartbeatTerminate, HasClient, Holds
<1>1. /\ slot' = NoSocket /\ UNCHANGED <<phase, lsn, hello>> /\ phase = "running"
      /\ hostSees' = (hostSees /\ ~Hosting)
  BY DEF HeartbeatTerminate, EmitDisconnected
<1>2. \A t \in Sock : ws'[t] = "open" => ws[t] = "open" /\ t # slot
  BY <1>0 DEF HeartbeatTerminate, EmitDisconnected, CloseAll, TypeOK
<1>3. Attached' = Attached /\ Life' = Life /\ Life = "up"
  BY <1>1 DEF Attached, Life
<1>4. Greeted' = Greeted
  BY <1>1, <1>3 DEF Greeted
<1>5. Open' \subseteq Open /\ slot \notin Open'
  BY <1>2, <1>3 DEF Open, Attached
<1>6. Promised!Terminate
  BY <1>0, <1>1, <1>3, <1>4, <1>5, GoneStep DEF Promised!Terminate
<1> QED BY <1>6 DEF Promised!Next

\* So does stop().
LEMMA StopStep ==
    ASSUME PresenceInv, Stop
    PROVE  [Promised!Next]_(Promised!presence)
<1>0. TypeOK
  BY DEF PresenceInv, IInv
<1>1. /\ slot' = NoSocket /\ UNCHANGED <<lsn, hello>> /\ ~hostSees'
      /\ phase = "running" /\ phase' = "stopped"
  BY DEF Stop
<1>2. \A t \in Sock : ws'[t] = "open" => ws[t] = "open" /\ t # slot
  BY <1>0 DEF Stop, CloseAll, TypeOK
<1>3. Attached' = Attached /\ Life' = "over" /\ Life = "up"
  BY <1>1 DEF Attached, Life
<1>4. Greeted' = Greeted
  BY <1>1, <1>3 DEF Greeted
<1>5. Open' \subseteq Open /\ slot \notin Open'
  BY <1>2, <1>3 DEF Open, Attached
<1>6. hostSees' = (hostSees /\ Life # "up")
  BY <1>1, <1>3 DEF Stop
<1>7. Promised!Stop
  BY <1>1, <1>3, <1>4, <1>5, <1>6 DEF Promised!Stop, Promised!Gone
<1> QED BY <1>7 DEF Promised!Next

\* The end of a connection concerns the session only if it is attached.
LEMMA EndsStep ==
    ASSUME PresenceInv, NEW s \in Sock, ConnectionEnds(s)
    PROVE  [Promised!Next]_(Promised!presence)
<1>0. TypeOK
  BY DEF PresenceInv, IInv
<1>1. /\ UNCHANGED <<phase, slot, hostSees, lsn, hello>>
      /\ ws' = [ws EXCEPT ![s] = "closing"] /\ ws[s] = "open"
  BY DEF ConnectionEnds
<1>2. CASE lsn[s] # "attached"
  BY <1>0, <1>1, <1>2, StepUnseen DEF TypeOK
<1>3. CASE lsn[s] = "attached"
  <2>1. Attached' = Attached /\ Life' = Life
    BY <1>1 DEF Attached, Life
  <2>2. Greeted' = Greeted
    BY <1>1, <2>1 DEF Greeted
  <2>3. Open' = Open \ {s}
    BY <1>0, <1>1, <2>1 DEF Open, Attached, TypeOK
  <2>4. s \in Open
    BY <1>1, <1>3, Views
  <2>5. Promised!Ends(s)
    BY <1>1, <2>1, <2>2, <2>3, <2>4 DEF Promised!Ends
  <2> QED BY <2>5 DEF Promised!Next
<1> QED BY <1>2, <1>3

\* Every step of the endpoint is one of Presence, or none.
LEMMA PresenceStep == PresenceInv /\ [Next]_vars => [Promised!Next]_(Promised!presence)
<1> SUFFICES ASSUME PresenceInv, [Next]_vars PROVE [Promised!Next]_(Promised!presence)
  OBVIOUS
<1>0. TypeOK /\ ListenersMatch
  BY DEF PresenceInv, IInv
<1>1. CASE Start
  <2>1. /\ UNCHANGED <<Attached, Open, Greeted>>
        /\ Life = "idle" /\ Life' = "up"
    BY <1>1 DEF Start, Attached, Open, Greeted, Life
  <2>2. Promised!Start
    BY <1>1, <2>1 DEF Start, Promised!Start
  <2> QED BY <2>2 DEF Promised!Next
<1>2. CASE StartListening \/ HeartbeatPing \/ UNCHANGED vars
  BY <1>2, StepUnseen DEF StartListening, HeartbeatPing, vars
<1>3. ASSUME NEW s \in RelaySock, AdoptRelaySocket(s) PROVE [Promised!Next]_(Promised!presence)
  <2>1. s \in Sock /\ lsn[s] # "attached"
    BY <1>0, <1>3 DEF AdoptRelaySocket, ListenersMatch, ListenerMatches, Sock
  <2>2. /\ UNCHANGED <<phase, slot, hostSees, hello>>
        /\ ws' = [ws EXCEPT ![s] = "open"] /\ lsn' = [lsn EXCEPT ![s] = "first"]
    BY <1>3 DEF AdoptRelaySocket
  <2> QED BY <1>0, <2>1, <2>2, StepUnseen DEF TypeOK
<1>4. ASSUME NEW s \in Sock, Peer(s) PROVE [Promised!Next]_(Promised!presence)
  <2>1. CASE PeerHello(s) \/ PeerData(s)
    <3>1. /\ UNCHANGED <<phase, slot, hostSees, ws, lsn>> /\ lsn[s] = "first"
          /\ \E v \in {"sent", "lost"} : hello' = [hello EXCEPT ![s] = v]
      BY <2>1 DEF PeerHello, PeerData
    <3> QED BY <1>0, <3>1, StepUnseen DEF TypeOK
  <2>2. CASE PeerPong(s) \/ PeerVanishes(s)
    BY <2>2, StepUnseen DEF PeerPong, PeerVanishes
  <2>3. CASE ConnectionEnds(s)
    BY <2>3, EndsStep
  <2> QED BY <1>4, <2>1, <2>2, <2>3 DEF Peer
<1>5. ASSUME NEW s \in Sock, ReadPong(s) PROVE [Promised!Next]_(Promised!presence)
  BY <1>5, StepUnseen DEF ReadPong
<1>6. ASSUME NEW s \in Sock, RelayRefused(s) PROVE [Promised!Next]_(Promised!presence)
  BY <1>0, <1>6, StepUnseen DEF RelayRefused, TypeOK
<1>7. ASSUME NEW s \in Sock, UnattachedClosed(s) PROVE [Promised!Next]_(Promised!presence)
  BY <1>0, <1>7, StepUnseen DEF UnattachedClosed, Forget, TypeOK
<1> QED
  BY <1>1, <1>2, <1>3, <1>4, <1>5, <1>6, <1>7, ConnectsStep, AdoptedStep, HelloReadStep,
     AttachedClosedStep, TerminateStep, StopStep DEF Next, Deliver, Closed, HeartbeatTick

\* The endpoint, with its relay channel, its heartbeat and the frames under
\* way, implements Presence: attached sockets, the slot and what the session
\* hears change in the ways Presence allows, and in no other.
THEOREM EndpointImplementsPresence == Spec => Promised!Spec
<1>1. Init => Promised!Init
  BY DEF Init, Promised!Init, Life, Attached, Open, Greeted
<1> QED BY <1>1, PresenceStep, PresenceInvariant, PTL DEF Spec, Promised!Spec

\* The promise is inductive in Presence.
LEMMA PromiseStep ==
    ASSUME Promised!Promise, [Promised!Next]_(Promised!presence)
    PROVE  Promised!Promise'
<1> USE DEF Promised!Promise
<1>1. CASE Promised!Start
  BY <1>1 DEF Promised!Start
<1>2. CASE Promised!Stop
  BY <1>2 DEF Promised!Stop, Promised!Gone
<1>3. CASE Promised!Terminate
  BY <1>3 DEF Promised!Terminate, Promised!Gone
<1>4. ASSUME NEW s \in Sock, Promised!Connects(s) PROVE Promised!Promise'
  BY <1>4 DEF Promised!Connects, Promised!Attach
<1>5. ASSUME NEW s \in Sock, Promised!ConnectsWithHello(s) PROVE Promised!Promise'
  BY <1>5 DEF Promised!ConnectsWithHello, Promised!Attach, Promised!Announced
<1>6. ASSUME NEW s \in Sock, Promised!Hello(s) PROVE Promised!Promise'
  BY <1>6 DEF Promised!Hello, Promised!Announced
<1>7. ASSUME NEW s \in Sock, Promised!HelloRejected(s) PROVE Promised!Promise'
  BY <1>7 DEF Promised!HelloRejected, Promised!Announced
<1>8. ASSUME NEW s \in Sock, Promised!Ends(s) PROVE Promised!Promise'
  BY <1>8 DEF Promised!Ends
<1>9. ASSUME NEW s \in Sock, Promised!Closed(s) PROVE Promised!Promise'
  BY <1>9 DEF Promised!Closed, Promised!Gone
<1>10. CASE UNCHANGED Promised!presence
  BY <1>10 DEF Promised!presence
<1> QED
  BY <1>1, <1>2, <1>3, <1>4, <1>5, <1>6, <1>7, <1>8, <1>9, <1>10 DEF Promised!Next

\* While the endpoint is up, the session never believes in a client unless some
\* attached socket has said Hello and has its 'close' event to come.  This
\* follows from Presence alone, whatever implements it.
THEOREM PromiseIsKept == Promised!Spec => []Promised!Promise
<1>1. Promised!Init => Promised!Promise
  BY DEF Promised!Init, Promised!Promise
<1> QED BY <1>1, PromiseStep, PTL DEF Promised!Spec

\* So the endpoint keeps the promise.
THEOREM EndpointKeepsPromise == Spec => []Promised!Promise
BY EndpointImplementsPresence, PromiseIsKept, PTL
===============================================================================
