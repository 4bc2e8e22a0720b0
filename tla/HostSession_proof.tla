--------------------------- MODULE HostSession_proof ---------------------------
(***************************************************************************)
(* What the host's session guarantees for every set of connections.  The   *)
(* inductive invariant adds, to the properties the runs check, what the    *)
(* slot, the sockets and the invocations know of each other.  The endpoint *)
(* this module repeats implements Presence, as PairProgServer does.        *)
(***************************************************************************)
EXTENDS HostSession, TLAPS

\* The slot holds a socket whose 'close' event is to come, and nobody once
\* the session stops; a Hello comes from an accepted socket.
SlotIsAttached ==
    /\ slot # None => Unclosed(slot)
    /\ stopping => slot = None
    /\ \A c \in Conn : st[c] = "none" => pc[c] = "none"

\* A client with a Welcome is one that was accepted, and while it has the
\* slot the claims of the router are taken, so nobody can welcome it again.
WelcomedOnce ==
    \A c \in Conn : welcomes[c] = 1 => st[c] # "none" /\ (slot = c => routes # None)

\* What is in use has not been disposed of, and what an invocation will
\* create is neither in use nor disposed of.
InUseIsLive ==
    /\ sync \notin disposed
    /\ \A c \in Conn : pc[c] = "none" => c \notin disposed /\ c # sync /\ c # routes

\* Without two attached sockets at a time only one can be.
AloneUnlessCrowded ==
    ~crowded => \A c, d \in Conn : Unclosed(c) /\ Unclosed(d) => c = d

\* On the way to ServedWhenSetupEnds: the invocation of the client in the
\* slot finds the router free and its own components current, or another
\* invocation has welcomed its client already.
ServiceUnderWay ==
    \A c \in Conn :
        (slot = c /\ HasClient /\ ~crowded) =>
            /\ pc[c] = "git" => (sync = c /\ routes = None) \/ welcomes[c] = 1
            /\ pc[c] \in {"tree", "docs"} => welcomes[c] = 1

IInv ==
    /\ TypeOK
    /\ SlotIsAttached
    /\ WelcomedOnce
    /\ InUseIsLive
    /\ RoutedComponentsAreLive
    /\ ComponentsWillBeDisposed
    /\ GrantReachesClient
    /\ AloneUnlessCrowded
    /\ RouterFollowsSync
    /\ ServiceUnderWay
    /\ ServedWhenSetupEnds

-------------------------------------------------------------------------------
(* The operators of the model *)

\* server.send() of a Welcome reaches the client in the slot, which has had
\* none while the router is free.
LEMMA WelcomeCounted ==
    ASSUME TypeOK, WelcomedOnce, routes = None
    PROVE  /\ Count(welcomes) \in [Conn -> 0..1]
           /\ \A c \in Conn : Count(welcomes)[c] =
                                IF HasClient /\ slot = c THEN 1 ELSE welcomes[c]
<1>1. \A c \in Conn : HasClient /\ slot = c => welcomes[c] = 0
  BY DEF TypeOK, WelcomedOnce
<1>2. \A c \in Conn : Count(welcomes)[c] = IF HasClient /\ slot = c THEN 1 ELSE welcomes[c]
  BY <1>1 DEF Count, Reached
<1>3. Count(welcomes) = [c \in Conn |-> IF c \in Reached THEN welcomes[c] + 1 ELSE welcomes[c]]
  BY DEF Count
<1> QED BY <1>2, <1>3 DEF TypeOK

\* What server.send() of a permission changes.
LEMMA TellReaches ==
    ASSUME TypeOK, NEW p \in {"read", "edit"}
    PROVE  /\ Tell(p) \in [Conn -> {"none", "read", "edit"}]
           /\ \A c \in Conn : Tell(p)[c] = IF HasClient /\ slot = c THEN p ELSE perm[c]
BY DEF TypeOK, Tell, Reached

\* The number of trees sent stays a number.
LEMMA TreesCounted == TypeOK => Count(trees) \in [Conn -> Nat]
BY DEF TypeOK, Count

\* teardownSync() as the invariant sees it.
LEMMA TornDown ==
    ASSUME TypeOK, TeardownSync
    PROVE  /\ sync' = None
           /\ routes' \in {routes, None}
           /\ routes' # None => routes' # sync
           /\ disposed' \subseteq Conn
           /\ \A c \in Conn : c \in disposed' <=> c \in disposed \/ c = sync
BY ConnAssumption DEF TeardownSync, TypeOK, ConnAssumption

\* RegisterAndWelcome() either goes through or throws.
LEMMA Registration ==
    ASSUME TypeOK, WelcomedOnce, NEW t \in Conn, NEW obj \in Conn \cup {None},
           RegisterAndWelcome(t, obj)
    PROVE  \/ /\ obj # None /\ routes = None
              /\ routes' = obj
              /\ pc' = [pc EXCEPT ![t] = "tree"]
              /\ welcomes' \in [Conn -> 0..1]
              /\ \A c \in Conn : welcomes'[c] =
                                   IF HasClient /\ slot = c THEN 1 ELSE welcomes[c]
              /\ perm' \in [Conn -> {"none", "read", "edit"}]
              /\ \A c \in Conn : perm'[c] =
                   IF HasClient /\ slot = c THEN (IF granted THEN "edit" ELSE "read")
                                            ELSE perm[c]
           \/ /\ obj = None \/ routes # None
              /\ pc' = [pc EXCEPT ![t] = "failed"]
              /\ UNCHANGED <<routes, welcomes, perm>>
<1>1. CASE Registers(obj)
  <2>1. routes = None /\ obj # None
    BY <1>1 DEF Registers
  <2>2. welcomes' = Count(welcomes) /\ perm' = Tell(IF granted THEN "edit" ELSE "read")
    BY <1>1 DEF RegisterAndWelcome, SendWelcome
  <2>3. (IF granted THEN "edit" ELSE "read") \in {"read", "edit"}
    OBVIOUS
  <2>4. routes' = obj /\ pc' = [pc EXCEPT ![t] = "tree"]
    BY <1>1 DEF RegisterAndWelcome
  <2> QED BY <2>1, <2>2, <2>3, <2>4, WelcomeCounted, TellReaches
<1>2. CASE ~Registers(obj)
  BY <1>2 DEF RegisterAndWelcome, Registers
<1> QED BY <1>1, <1>2

-------------------------------------------------------------------------------
(* Types, the slot and the welcomes *)

Base == TypeOK /\ SlotIsAttached /\ WelcomedOnce

\* No step leaves the types, loses the 'close' event of the client in the
\* slot, or welcomes a client again.
LEMMA BaseStep == Base /\ [Next]_vars => Base'
<1> SUFFICES ASSUME Base, [Next]_vars PROVE Base'
  OBVIOUS
<1> USE ConnAssumption DEF ConnAssumption, Base
<1>1. ASSUME NEW c \in Conn, HandleNewConnection(c) PROVE Base'
  BY <1>1 DEF HandleNewConnection, TypeOK, SlotIsAttached, WelcomedOnce, Unclosed
<1>2. ASSUME NEW c \in Conn, ConnectionEnds(c) PROVE Base'
  BY <1>2 DEF ConnectionEnds, TypeOK, SlotIsAttached, WelcomedOnce, Unclosed
<1>3. ASSUME NEW c \in Conn, SocketClosed(c) PROVE Base'
  <2>1. CASE stopping
    BY <1>3, <2>1 DEF SocketClosed, ReportClosed, OnClientDisconnected, TypeOK, SlotIsAttached,
       WelcomedOnce, Unclosed
  <2>2. CASE ~stopping
    BY <1>3, <2>2, TornDown DEF SocketClosed, ReportClosed, OnClientDisconnected, TypeOK,
       SlotIsAttached, WelcomedOnce, Unclosed
  <2> QED BY <2>1, <2>2
<1>4. CASE HeartbeatTerminate
  <2>1. ~stopping
    BY <1>4 DEF HeartbeatTerminate, HasClient, SlotIsAttached
  <2> QED
    BY <1>4, <2>1, TornDown DEF HeartbeatTerminate, HasClient, OnClientDisconnected, TypeOK,
       SlotIsAttached, WelcomedOnce, Unclosed
<1>5. ASSUME NEW c \in Conn, HelloWithoutWorkspace(c) PROVE Base'
  BY <1>5 DEF HelloWithoutWorkspace, ReadHello, TypeOK, SlotIsAttached, WelcomedOnce, Unclosed
<1>6. ASSUME NEW c \in Conn, HelloRejected(c) PROVE Base'
  BY <1>6 DEF HelloRejected, ReadHello, HasClient, TypeOK, SlotIsAttached, WelcomedOnce, Unclosed
<1>7. ASSUME NEW c \in Conn, HelloAccepted(c) PROVE Base'
  <2>1. CASE gitActive
    BY <1>7, <2>1, Registration DEF HelloAccepted, ReadHello, HasClient, TypeOK, SlotIsAttached,
       WelcomedOnce, Unclosed
  <2>2. CASE ~gitActive
    BY <1>7, <2>2 DEF HelloAccepted, ReadHello, TypeOK, SlotIsAttached, WelcomedOnce, Unclosed
  <2> QED BY <2>1, <2>2
<1>8. ASSUME NEW c \in Conn, HelloAfterStop(c) PROVE Base'
  BY <1>8 DEF HelloAfterStop, ReadHello, TypeOK, SlotIsAttached, WelcomedOnce, Unclosed
<1>9. ASSUME NEW c \in Conn, ResumeSetup(c) PROVE Base'
  <2>1. sync \in Conn \cup {None}
    BY DEF TypeOK
  <2> QED
    BY <1>9, <2>1, Registration DEF ResumeSetup, Registerable, HasClient, TypeOK,
       SlotIsAttached, WelcomedOnce, Unclosed
<1>10. ASSUME NEW c \in Conn, TreeBuilt(c) PROVE Base'
  BY <1>10, TreesCounted DEF TreeBuilt, TypeOK, SlotIsAttached, WelcomedOnce, Unclosed
<1>11. ASSUME NEW c \in Conn, DocsReady(c) PROVE Base'
  BY <1>11, TellReaches DEF DocsReady, TypeOK, SlotIsAttached, WelcomedOnce, Unclosed
<1>12. CASE GitActivated
  BY <1>12 DEF GitActivated, TypeOK, SlotIsAttached, WelcomedOnce, Unclosed
<1>13. CASE GrantEditAccess
  BY <1>13, TellReaches DEF GrantEditAccess, AnnounceGrant, TypeOK, SlotIsAttached, WelcomedOnce,
     Unclosed
<1>14. CASE Stop
  BY <1>14, TornDown DEF Stop, HasClient, TypeOK, SlotIsAttached, WelcomedOnce, Unclosed
<1>15. CASE UNCHANGED vars
  BY <1>15 DEF vars, TypeOK, SlotIsAttached, WelcomedOnce, Unclosed
<1> QED
  BY <1>1, <1>2, <1>3, <1>4, <1>5, <1>6, <1>7, <1>8, <1>9, <1>10, <1>11, <1>12, <1>13,
     <1>14, <1>15 DEF Next, Endpoint, Connected

-------------------------------------------------------------------------------
(* The safety properties *)

Live == InUseIsLive /\ RoutedComponentsAreLive

\* Nothing that has been disposed of is current or registered again.
LEMMA LiveStep == IInv /\ [Next]_vars => Live'
<1> SUFFICES ASSUME IInv, [Next]_vars PROVE Live'
  OBVIOUS
<1> USE ConnAssumption DEF ConnAssumption
<1> USE DEF Live, InUseIsLive, RoutedComponentsAreLive, TypeOK, IInv
<1>0. TypeOK /\ SlotIsAttached /\ WelcomedOnce /\ Base'
  BY BaseStep DEF Base
<1>1. ASSUME NEW c \in Conn, HandleNewConnection(c) PROVE Live'
  BY <1>0, <1>1 DEF HandleNewConnection
<1>2. ASSUME NEW c \in Conn, ConnectionEnds(c) PROVE Live'
  BY <1>0, <1>2 DEF ConnectionEnds
<1>3. ASSUME NEW c \in Conn, SocketClosed(c) PROVE Live'
  <2>1. CASE stopping
    BY <1>0, <1>3, <2>1 DEF SocketClosed, ReportClosed, OnClientDisconnected
  <2>2. CASE ~stopping
    BY <1>0, <1>3, <2>2, TornDown DEF SocketClosed, ReportClosed, OnClientDisconnected
  <2> QED BY <2>1, <2>2
<1>4. CASE HeartbeatTerminate
  <2>1. ~stopping
    BY <1>0, <1>4 DEF HeartbeatTerminate, HasClient, SlotIsAttached
  <2> QED BY <1>0, <1>4, <2>1, TornDown DEF HeartbeatTerminate, OnClientDisconnected
<1>5. ASSUME NEW c \in Conn, HelloWithoutWorkspace(c) PROVE Live'
  BY <1>0, <1>5 DEF HelloWithoutWorkspace, ReadHello
<1>6. ASSUME NEW c \in Conn, HelloRejected(c) PROVE Live'
  BY <1>0, <1>6 DEF HelloRejected, ReadHello
<1>7. ASSUME NEW c \in Conn, HelloAccepted(c) PROVE Live'
  <2>1. CASE gitActive
    BY <1>0, <1>7, <2>1, Registration DEF HelloAccepted, ReadHello
  <2>2. CASE ~gitActive
    BY <1>0, <1>7, <2>2 DEF HelloAccepted, ReadHello
  <2> QED BY <2>1, <2>2
<1>8. ASSUME NEW c \in Conn, HelloAfterStop(c) PROVE Live'
  BY <1>0, <1>8 DEF HelloAfterStop, ReadHello
<1>9. ASSUME NEW c \in Conn, ResumeSetup(c) PROVE Live'
  <2>1. sync \in Conn \cup {None}
    BY <1>0 DEF TypeOK
  <2> QED BY <1>0, <1>9, <2>1, Registration DEF ResumeSetup, Registerable
<1>10. ASSUME NEW c \in Conn, TreeBuilt(c) PROVE Live'
  BY <1>0, <1>10 DEF TreeBuilt
<1>11. ASSUME NEW c \in Conn, DocsReady(c) PROVE Live'
  BY <1>0, <1>11, TellReaches DEF DocsReady
<1>12. CASE GitActivated
  BY <1>0, <1>12 DEF GitActivated
<1>13. CASE GrantEditAccess
  BY <1>0, <1>13, TellReaches DEF GrantEditAccess, AnnounceGrant
<1>14. CASE Stop
  BY <1>0, <1>14, TornDown DEF Stop
<1>15. CASE UNCHANGED vars
  BY <1>0, <1>15 DEF vars
<1> QED
  BY <1>1, <1>2, <1>3, <1>4, <1>5, <1>6, <1>7, <1>8, <1>9, <1>10, <1>11, <1>12,
     <1>13, <1>14, <1>15 DEF Next, Endpoint, Connected

\* Current components keep a 'close' event to come.
LEMMA DisposalStep == IInv /\ [Next]_vars => ComponentsWillBeDisposed'
<1> SUFFICES ASSUME IInv, [Next]_vars PROVE ComponentsWillBeDisposed'
  OBVIOUS
<1> USE DEF ComponentsWillBeDisposed, IInv, TypeOK, SlotIsAttached, Unclosed, HasClient
<1>0. TypeOK /\ SlotIsAttached /\ WelcomedOnce /\ Base'
  BY BaseStep DEF Base
<1>1. ASSUME NEW c \in Conn, HandleNewConnection(c) PROVE ComponentsWillBeDisposed'
  BY <1>0, <1>1 DEF HandleNewConnection
<1>2. ASSUME NEW c \in Conn, ConnectionEnds(c) PROVE ComponentsWillBeDisposed'
  BY <1>0, <1>2 DEF ConnectionEnds
<1>3. ASSUME NEW c \in Conn, SocketClosed(c) PROVE ComponentsWillBeDisposed'
  <2>1. CASE stopping
    BY <1>0, <1>3, <2>1 DEF SocketClosed, ReportClosed, OnClientDisconnected
  <2>2. CASE ~stopping
    BY <1>0, <1>3, <2>2, TornDown DEF SocketClosed, ReportClosed, OnClientDisconnected
  <2> QED BY <2>1, <2>2
<1>4. CASE HeartbeatTerminate
  <2>1. ~stopping
    BY <1>0, <1>4 DEF HeartbeatTerminate, HasClient, SlotIsAttached
  <2> QED BY <1>0, <1>4, <2>1, TornDown DEF HeartbeatTerminate, OnClientDisconnected
<1>5. ASSUME NEW c \in Conn, HelloWithoutWorkspace(c) PROVE ComponentsWillBeDisposed'
  BY <1>0, <1>5 DEF HelloWithoutWorkspace, ReadHello
<1>6. ASSUME NEW c \in Conn, HelloRejected(c) PROVE ComponentsWillBeDisposed'
  BY <1>0, <1>6 DEF HelloRejected, ReadHello
<1>7. ASSUME NEW c \in Conn, HelloAccepted(c) PROVE ComponentsWillBeDisposed'
  <2>1. CASE gitActive
    BY <1>0, <1>7, <2>1, Registration DEF HelloAccepted, ReadHello
  <2>2. CASE ~gitActive
    BY <1>0, <1>7, <2>2 DEF HelloAccepted, ReadHello
  <2> QED BY <2>1, <2>2
<1>8. ASSUME NEW c \in Conn, HelloAfterStop(c) PROVE ComponentsWillBeDisposed'
  BY <1>0, <1>8 DEF HelloAfterStop, ReadHello
<1>9. ASSUME NEW c \in Conn, ResumeSetup(c) PROVE ComponentsWillBeDisposed'
  <2>1. sync \in Conn \cup {None}
    BY <1>0 DEF TypeOK
  <2> QED BY <1>0, <1>9, <2>1, Registration DEF ResumeSetup, Registerable
<1>10. ASSUME NEW c \in Conn, TreeBuilt(c) PROVE ComponentsWillBeDisposed'
  BY <1>0, <1>10 DEF TreeBuilt
<1>11. ASSUME NEW c \in Conn, DocsReady(c) PROVE ComponentsWillBeDisposed'
  BY <1>0, <1>11, TellReaches DEF DocsReady
<1>12. CASE GitActivated
  BY <1>0, <1>12 DEF GitActivated
<1>13. CASE GrantEditAccess
  BY <1>0, <1>13, TellReaches DEF GrantEditAccess, AnnounceGrant
<1>14. CASE Stop
  BY <1>0, <1>14, TornDown DEF Stop
<1>15. CASE UNCHANGED vars
  BY <1>0, <1>15 DEF vars
<1> QED
  BY <1>1, <1>2, <1>3, <1>4, <1>5, <1>6, <1>7, <1>8, <1>9, <1>10, <1>11, <1>12,
     <1>13, <1>14, <1>15 DEF Next, Endpoint, Connected

\* A client set up under a grant is told so last.
LEMMA GrantStep == IInv /\ [Next]_vars => GrantReachesClient'
<1> SUFFICES ASSUME IInv, [Next]_vars PROVE GrantReachesClient'
  OBVIOUS
<1> USE DEF GrantReachesClient, IInv, TypeOK, SlotIsAttached, Unclosed, HasClient
<1>0. TypeOK /\ SlotIsAttached /\ WelcomedOnce /\ Base'
  BY BaseStep DEF Base
<1>1. ASSUME NEW c \in Conn, HandleNewConnection(c) PROVE GrantReachesClient'
  BY <1>0, <1>1 DEF HandleNewConnection
<1>2. ASSUME NEW c \in Conn, ConnectionEnds(c) PROVE GrantReachesClient'
  BY <1>0, <1>2 DEF ConnectionEnds
<1>3. ASSUME NEW c \in Conn, SocketClosed(c) PROVE GrantReachesClient'
  <2>1. CASE stopping
    BY <1>0, <1>3, <2>1 DEF SocketClosed, ReportClosed, OnClientDisconnected
  <2>2. CASE ~stopping
    BY <1>0, <1>3, <2>2, TornDown DEF SocketClosed, ReportClosed, OnClientDisconnected
  <2> QED BY <2>1, <2>2
<1>4. CASE HeartbeatTerminate
  <2>1. ~stopping
    BY <1>0, <1>4 DEF HeartbeatTerminate, HasClient, SlotIsAttached
  <2> QED BY <1>0, <1>4, <2>1, TornDown DEF HeartbeatTerminate, OnClientDisconnected
<1>5. ASSUME NEW c \in Conn, HelloWithoutWorkspace(c) PROVE GrantReachesClient'
  BY <1>0, <1>5 DEF HelloWithoutWorkspace, ReadHello
<1>6. ASSUME NEW c \in Conn, HelloRejected(c) PROVE GrantReachesClient'
  BY <1>0, <1>6 DEF HelloRejected, ReadHello
<1>7. ASSUME NEW c \in Conn, HelloAccepted(c) PROVE GrantReachesClient'
  <2>1. CASE gitActive
    BY <1>0, <1>7, <2>1, Registration DEF HelloAccepted, ReadHello
  <2>2. CASE ~gitActive
    BY <1>0, <1>7, <2>2 DEF HelloAccepted, ReadHello
  <2> QED BY <2>1, <2>2
<1>8. ASSUME NEW c \in Conn, HelloAfterStop(c) PROVE GrantReachesClient'
  BY <1>0, <1>8 DEF HelloAfterStop, ReadHello
<1>9. ASSUME NEW c \in Conn, ResumeSetup(c) PROVE GrantReachesClient'
  <2>1. sync \in Conn \cup {None}
    BY <1>0 DEF TypeOK
  <2> QED BY <1>0, <1>9, <2>1, Registration DEF ResumeSetup, Registerable
<1>10. ASSUME NEW c \in Conn, TreeBuilt(c) PROVE GrantReachesClient'
  BY <1>0, <1>10 DEF TreeBuilt
<1>11. ASSUME NEW c \in Conn, DocsReady(c) PROVE GrantReachesClient'
  BY <1>0, <1>11, TellReaches DEF DocsReady
<1>12. CASE GitActivated
  BY <1>0, <1>12 DEF GitActivated
<1>13. CASE GrantEditAccess
  BY <1>0, <1>13, TellReaches DEF GrantEditAccess, AnnounceGrant
<1>14. CASE Stop
  BY <1>0, <1>14, TornDown DEF Stop
<1>15. CASE UNCHANGED vars
  BY <1>0, <1>15 DEF vars
<1> QED
  BY <1>1, <1>2, <1>3, <1>4, <1>5, <1>6, <1>7, <1>8, <1>9, <1>10, <1>11, <1>12,
     <1>13, <1>14, <1>15 DEF Next, Endpoint, Connected

\* Two attached sockets do not go unnoticed.
LEMMA AloneStep == IInv /\ [Next]_vars => AloneUnlessCrowded'
<1> SUFFICES ASSUME IInv, [Next]_vars PROVE AloneUnlessCrowded'
  OBVIOUS
<1> USE DEF AloneUnlessCrowded, IInv, TypeOK, SlotIsAttached, Unclosed, HasClient
<1>0. TypeOK /\ SlotIsAttached /\ WelcomedOnce /\ Base'
  BY BaseStep DEF Base
<1>1. ASSUME NEW c \in Conn, HandleNewConnection(c) PROVE AloneUnlessCrowded'
  <2>1. /\ ~crowded' => \A d \in Conn : ~Unclosed(d)
        /\ \A d \in Conn : d # c => st'[d] = st[d]
    BY <1>0, <1>1 DEF HandleNewConnection
  <2>2. \A d \in Conn : d # c /\ ~crowded' => ~Unclosed(d)'
    BY <2>1
  <2> QED BY <2>2
<1>2. ASSUME NEW c \in Conn, ConnectionEnds(c) PROVE AloneUnlessCrowded'
  BY <1>0, <1>2 DEF ConnectionEnds
<1>3. ASSUME NEW c \in Conn, SocketClosed(c) PROVE AloneUnlessCrowded'
  <2>1. CASE stopping
    BY <1>0, <1>3, <2>1 DEF SocketClosed, ReportClosed, OnClientDisconnected
  <2>2. CASE ~stopping
    BY <1>0, <1>3, <2>2, TornDown DEF SocketClosed, ReportClosed, OnClientDisconnected
  <2> QED BY <2>1, <2>2
<1>4. CASE HeartbeatTerminate
  <2>1. ~stopping
    BY <1>0, <1>4 DEF HeartbeatTerminate, HasClient, SlotIsAttached
  <2> QED BY <1>0, <1>4, <2>1, TornDown DEF HeartbeatTerminate, OnClientDisconnected
<1>5. ASSUME NEW c \in Conn, HelloWithoutWorkspace(c) PROVE AloneUnlessCrowded'
  BY <1>0, <1>5 DEF HelloWithoutWorkspace, ReadHello
<1>6. ASSUME NEW c \in Conn, HelloRejected(c) PROVE AloneUnlessCrowded'
  BY <1>0, <1>6 DEF HelloRejected, ReadHello
<1>7. ASSUME NEW c \in Conn, HelloAccepted(c) PROVE AloneUnlessCrowded'
  <2>1. CASE gitActive
    BY <1>0, <1>7, <2>1, Registration DEF HelloAccepted, ReadHello
  <2>2. CASE ~gitActive
    BY <1>0, <1>7, <2>2 DEF HelloAccepted, ReadHello
  <2> QED BY <2>1, <2>2
<1>8. ASSUME NEW c \in Conn, HelloAfterStop(c) PROVE AloneUnlessCrowded'
  BY <1>0, <1>8 DEF HelloAfterStop, ReadHello
<1>9. ASSUME NEW c \in Conn, ResumeSetup(c) PROVE AloneUnlessCrowded'
  <2>1. sync \in Conn \cup {None}
    BY <1>0 DEF TypeOK
  <2> QED BY <1>0, <1>9, <2>1, Registration DEF ResumeSetup, Registerable
<1>10. ASSUME NEW c \in Conn, TreeBuilt(c) PROVE AloneUnlessCrowded'
  BY <1>0, <1>10 DEF TreeBuilt
<1>11. ASSUME NEW c \in Conn, DocsReady(c) PROVE AloneUnlessCrowded'
  BY <1>0, <1>11, TellReaches DEF DocsReady
<1>12. CASE GitActivated
  BY <1>0, <1>12 DEF GitActivated
<1>13. CASE GrantEditAccess
  BY <1>0, <1>13, TellReaches DEF GrantEditAccess, AnnounceGrant
<1>14. CASE Stop
  BY <1>0, <1>14, TornDown DEF Stop
<1>15. CASE UNCHANGED vars
  BY <1>0, <1>15 DEF vars
<1> QED
  BY <1>1, <1>2, <1>3, <1>4, <1>5, <1>6, <1>7, <1>8, <1>9, <1>10, <1>11, <1>12,
     <1>13, <1>14, <1>15 DEF Next, Endpoint, Connected

\* When no two sockets were ever attached at once, the Hello of a client finds
\* neither components nor claims of another: they would need the 'close'
\* event of a second attached socket to come.
LEMMA RouterFreeForHello ==
    ASSUME IInv, NEW c \in Conn, Unclosed(c), pc[c] = "none", ~stopping, ~crowded
    PROVE  sync = None /\ routes = None
<1>1. ASSUME sync # None PROVE FALSE
  <2>1. PICK d \in Conn : Unclosed(d) /\ pc[d] # "none"
    BY <1>1 DEF IInv, ComponentsWillBeDisposed
  <2> QED BY <2>1 DEF IInv, AloneUnlessCrowded
<1> QED BY <1>1 DEF IInv, RouterFollowsSync

Service == RouterFollowsSync /\ ServiceUnderWay /\ ServedWhenSetupEnds

\* The client in the slot is served: its setup does not end before a Welcome.
LEMMA ServiceStep == IInv /\ [Next]_vars => Service'
<1> SUFFICES ASSUME IInv, [Next]_vars PROVE Service'
  OBVIOUS
<1> USE DEF Service, RouterFollowsSync, ServiceUnderWay, ServedWhenSetupEnds
<1>0. Base /\ Base' /\ Service /\ TypeOK /\ WelcomedOnce /\ SlotIsAttached
  BY BaseStep DEF IInv, Base
<1>a. AloneUnlessCrowded
  BY DEF IInv
<1>1. ASSUME NEW c \in Conn, HandleNewConnection(c) PROVE Service'
  BY <1>0, <1>1 DEF HandleNewConnection, TypeOK, SlotIsAttached, HasClient
<1>2. ASSUME NEW c \in Conn, ConnectionEnds(c) PROVE Service'
  BY <1>0, <1>2 DEF ConnectionEnds, TypeOK, HasClient
<1>3. ASSUME NEW c \in Conn, SocketClosed(c) PROVE Service'
  <2>1. CASE stopping
    BY <1>0, <1>3, <2>1 DEF SocketClosed, ReportClosed, OnClientDisconnected, HasClient
  <2>2. CASE ~stopping
    BY <1>0, <1>3, <2>2, TornDown DEF SocketClosed, ReportClosed, OnClientDisconnected, HasClient
  <2> QED BY <2>1, <2>2
<1>4. CASE HeartbeatTerminate
  <2>1. ~stopping
    BY <1>0, <1>4 DEF HeartbeatTerminate, HasClient, SlotIsAttached
  <2> QED BY <1>0, <1>4, <2>1, TornDown DEF HeartbeatTerminate, OnClientDisconnected, HasClient
<1>5. ASSUME NEW c \in Conn, HelloWithoutWorkspace(c) PROVE Service'
  BY <1>0, <1>5 DEF HelloWithoutWorkspace, ReadHello, TypeOK, HasClient
<1>6. ASSUME NEW c \in Conn, HelloRejected(c) PROVE Service'
  BY <1>0, <1>6 DEF HelloRejected, ReadHello, TypeOK, HasClient
<1>7. ASSUME NEW c \in Conn, HelloAccepted(c) PROVE Service'
  <2>1. CASE crowded
    BY <1>7, <2>1 DEF HelloAccepted
  <2>2. CASE ~crowded
    <3>1. routes = None /\ c # None
      BY <1>7, <2>2, RouterFreeForHello, ConnAssumption
         DEF HelloAccepted, ReadHello, ConnAssumption
    <3>2. \A d \in Conn : slot = d /\ HasClient => d = c
      BY <1>a, <1>7, <2>2 DEF HelloAccepted, ReadHello, AloneUnlessCrowded, HasClient, Unclosed
    <3>3. CASE gitActive
      BY <1>0, <1>7, <3>1, <3>2, <3>3, Registration DEF HelloAccepted, ReadHello, TypeOK, HasClient
    <3>4. CASE ~gitActive
      BY <1>0, <1>7, <3>1, <3>2, <3>4 DEF HelloAccepted, ReadHello, TypeOK, HasClient
    <3> QED BY <3>3, <3>4
  <2> QED BY <1>0, <2>1, <2>2 DEF Base, TypeOK
<1>8. ASSUME NEW c \in Conn, HelloAfterStop(c) PROVE Service'
  BY <1>0, <1>8 DEF HelloAfterStop, ReadHello, TypeOK, HasClient, SlotIsAttached
<1>9. ASSUME NEW c \in Conn, ResumeSetup(c) PROVE Service'
  <2>1. sync \in Conn \cup {None}
    BY <1>0 DEF TypeOK
  <2> QED
    BY <1>0, <1>9, <2>1, Registration DEF ResumeSetup, Registerable, TypeOK, HasClient
<1>10. ASSUME NEW c \in Conn, TreeBuilt(c) PROVE Service'
  BY <1>0, <1>10 DEF TreeBuilt, TypeOK, HasClient
<1>11. ASSUME NEW c \in Conn, DocsReady(c) PROVE Service'
  BY <1>0, <1>11 DEF DocsReady, TypeOK, HasClient
<1>12. CASE GitActivated
  BY <1>0, <1>12 DEF GitActivated, HasClient
<1>13. CASE GrantEditAccess
  BY <1>0, <1>13 DEF GrantEditAccess, HasClient
<1>14. CASE Stop
  BY <1>0, <1>14, TornDown DEF Stop, HasClient
<1>15. CASE UNCHANGED vars
  BY <1>0, <1>15 DEF vars, HasClient
<1> QED
  BY <1>1, <1>2, <1>3, <1>4, <1>5, <1>6, <1>7, <1>8, <1>9, <1>10, <1>11, <1>12, <1>13,
     <1>14, <1>15 DEF Next, Endpoint, Connected

-------------------------------------------------------------------------------
(* The theorems *)

\* The initial state satisfies the inductive invariant.
LEMMA InitInvariant == Init => IInv
<1> SUFFICES ASSUME Init PROVE IInv
  OBVIOUS
<1>1. TypeOK
  <2>1. welcomes \in [Conn -> 0..1] /\ trees \in [Conn -> Nat]
    BY DEF Init
  <2> QED BY <2>1, Zenon DEF Init, TypeOK
<1>2. SlotIsAttached /\ WelcomedOnce
  BY DEF Init, SlotIsAttached, WelcomedOnce
<1>3. InUseIsLive /\ RoutedComponentsAreLive
  BY ConnAssumption DEF ConnAssumption, Init, InUseIsLive, RoutedComponentsAreLive
<1>4. ComponentsWillBeDisposed /\ GrantReachesClient /\ AloneUnlessCrowded
  BY DEF Init, ComponentsWillBeDisposed, GrantReachesClient, AloneUnlessCrowded, Unclosed, HasClient
<1>5. RouterFollowsSync /\ ServiceUnderWay /\ ServedWhenSetupEnds
  BY DEF Init, RouterFollowsSync, ServiceUnderWay, ServedWhenSetupEnds, HasClient
<1> QED BY <1>1, <1>2, <1>3, <1>4, <1>5 DEF IInv

\* The inductive invariant holds in every reachable state.
LEMMA HostInvariant == Spec => []IInv
<1>1. IInv /\ [Next]_vars => IInv'
  <2> SUFFICES ASSUME IInv, [Next]_vars PROVE IInv'
    OBVIOUS
  <2>1. Base'
    BY BaseStep DEF IInv, Base
  <2>2. Service'
    BY ServiceStep
  <2> QED
    BY <2>1, <2>2, LiveStep, DisposalStep, GrantStep, AloneStep
       DEF IInv, Base, Live, Service
<1> QED BY <1>1, InitInvariant, PTL DEF Spec

\* The state of the session always has its types; no client is welcomed twice.
THEOREM HostTypes == Spec => []TypeOK
<1>1. IInv => TypeOK
  BY DEF IInv
<1> QED BY <1>1, HostInvariant, PTL

\* The router never routes to components that have been disposed of.
THEOREM RoutesAreLive == Spec => []RoutedComponentsAreLive
<1>1. IInv => RoutedComponentsAreLive
  BY DEF IInv
<1> QED BY <1>1, HostInvariant, PTL

\* The current components have a 'close' event to come that disposes of them.
THEOREM DisposalIsAhead == Spec => []ComponentsWillBeDisposed
<1>1. IInv => ComponentsWillBeDisposed
  BY DEF IInv
<1> QED BY <1>1, HostInvariant, PTL

\* A grant of edit access is the last word a client that is set up hears.
THEOREM GrantIsHeard == Spec => []GrantReachesClient
<1>1. IInv => GrantReachesClient
  BY DEF IInv
<1> QED BY <1>1, HostInvariant, PTL

\* Unless two sockets were attached at once, the router's claims are those of
\* the current components.
THEOREM RouterFollows == Spec => []RouterFollowsSync
<1>1. IInv => RouterFollowsSync
  BY DEF IInv
<1> QED BY <1>1, HostInvariant, PTL

\* Unless two sockets were attached at once, no setup ends before its client
\* has been welcomed.
THEOREM SetupServes == Spec => []ServedWhenSetupEnds
<1>1. IInv => ServedWhenSetupEnds
  BY DEF IInv
<1> QED BY <1>1, HostInvariant, PTL

-------------------------------------------------------------------------------
(* The endpoint's part implements Presence *)

\* Which connections the endpoint has attached, open and greeted.
LEMMA Views ==
    /\ \A c \in Conn : c \in Attached <=> Unclosed(c)
    /\ \A c \in Conn : c \in Open <=> st[c] = "open"
    /\ \A c \in Conn : c \in Greeted <=> Unclosed(c) /\ pc[c] # "none"
    /\ Attached \subseteq Conn /\ Open \subseteq Attached /\ Greeted \subseteq Attached
BY DEF Attached, Open, Greeted, Unclosed

\* The slot is taken by an attached connection, and by nobody after stop().
LEMMA SlotViewed ==
    ASSUME IInv
    PROVE  /\ slot # None => slot \in Conn /\ slot \in Attached /\ Life = "up"
           /\ HasClient <=> slot \in Open
BY ConnAssumption DEF ConnAssumption, IInv, TypeOK, SlotIsAttached, HasClient, Attached, Open, Life

\* A step that only moves an invocation on is no step of Presence.
LEMMA StepUnseen ==
    ASSUME UNCHANGED <<st, slot, stopping, known>>,
           \A c \in Conn : pc'[c] = "none" <=> pc[c] = "none"
    PROVE  UNCHANGED Promised!presence
<1>1. Attached' = Attached
  BY DEF Attached, Unclosed
<1>2. Open' = Open /\ Life' = Life /\ Seen' = Seen
  BY <1>1 DEF Open, Life, Seen
<1>3. Greeted' = Greeted
  BY <1>1 DEF Greeted, Attached
<1> QED BY <1>1, <1>2, <1>3 DEF Promised!presence

\* However an invocation starts, the session hears of the Hello.
LEMMA HelloHeard ==
    ASSUME IInv, NEW c \in Conn, ReadHello(c), UNCHANGED stopping,
           NEW v, v # "none", pc' = [pc EXCEPT ![c] = v], Attached' = Attached
    PROVE  c \in Attached \ Greeted /\ Promised!Announced(c)
<1>1. c \in Attached \ Greeted
  BY Views DEF ReadHello
<1>2. Greeted' = Greeted \cup {c}
  BY <1>1 DEF IInv, TypeOK, Greeted, Attached
<1>3. Seen' \in {Seen, TRUE}
  BY DEF ReadHello, Seen
<1> QED BY <1>1, <1>2, <1>3 DEF Promised!Announced

\* What is left of the client after onClientDisconnected().
LEMMA GoneStep ==
    ASSUME IInv, UNCHANGED stopping, OnClientDisconnected, slot' = None, Open' \subseteq Open
    PROVE  Promised!Gone
<1>1. Seen' = (Seen /\ Life # "up")
  BY DEF OnClientDisconnected, Seen, Life, IInv, TypeOK
<1> QED BY <1>1 DEF Promised!Gone

\* Connections come, end and close as Presence has it.
LEMMA EndpointStep ==
    ASSUME IInv, NEW c \in Conn, Endpoint(c)
    PROVE  [Promised!Next]_(Promised!presence)
<1>0. TypeOK
  BY DEF IInv
<1>1. CASE HandleNewConnection(c)
  <2>1. /\ st[c] = "none" /\ st' = [st EXCEPT ![c] = "open"] /\ slot' = c
        /\ UNCHANGED <<stopping, known, pc>> /\ ~stopping /\ ~HasClient
    BY <1>1 DEF HandleNewConnection
  <2>2. c \notin Attached /\ slot \notin Open /\ pc[c] = "none"
    BY <2>1, Views, SlotViewed DEF Unclosed, IInv, SlotIsAttached
  <2>3. Attached' = Attached \cup {c}
    BY <1>0, <2>1 DEF Attached, Unclosed, TypeOK
  <2>4. Open' = Open \cup {c}
    BY <1>0, <2>1, <2>3 DEF Open, Attached, Unclosed, TypeOK
  <2>5. Greeted' = Greeted
    BY <2>1, <2>2, <2>3 DEF Greeted
  <2>6. Life' = Life /\ Life = "up" /\ Seen' = Seen
    BY <2>1 DEF Life, Seen
  <2>7. Promised!Connects(c)
    BY <2>1, <2>2, <2>3, <2>4, <2>5, <2>6 DEF Promised!Connects, Promised!Attach
  <2> QED BY <2>7 DEF Promised!Next
<1>2. CASE ConnectionEnds(c)
  <2>1. /\ st[c] = "open" /\ st' = [st EXCEPT ![c] = "closing"]
        /\ UNCHANGED <<slot, stopping, known, pc>>
    BY <1>2 DEF ConnectionEnds
  <2>2. Attached' = Attached
    BY <1>0, <2>1 DEF Attached, Unclosed, TypeOK
  <2>3. Open' = Open \ {c}
    BY <1>0, <2>1, <2>2 DEF Open, Attached, TypeOK
  <2>4. Greeted' = Greeted /\ Life' = Life /\ Seen' = Seen
    BY <2>1, <2>2 DEF Greeted, Life, Seen
  <2>5. Promised!Ends(c)
    BY <2>1, <2>2, <2>3, <2>4, Views DEF Promised!Ends
  <2> QED BY <2>5 DEF Promised!Next
<1>3. CASE SocketClosed(c)
  <2>1. /\ st[c] = "closing" /\ st' = [st EXCEPT ![c] = "closed"] /\ slot' = None
        /\ OnClientDisconnected /\ UNCHANGED <<stopping, pc>>
    BY <1>3 DEF SocketClosed, ReportClosed
  <2>2. Attached' = Attached \ {c}
    BY <1>0, <2>1 DEF Attached, Unclosed, TypeOK
  <2>3. Open' \subseteq Open
    BY <1>0, <2>1, <2>2 DEF Open, Attached, TypeOK
  <2>4. Greeted' = Greeted \ {c} /\ Life' = Life
    BY <2>1, <2>2 DEF Greeted, Life
  <2>5. c \in Attached \ Open
    BY <2>1, Views DEF Unclosed
  <2>6. Promised!Closed(c)
    BY <2>1, <2>2, <2>3, <2>4, <2>5, GoneStep DEF Promised!Closed
  <2> QED BY <2>6 DEF Promised!Next
<1> QED BY <1>1, <1>2, <1>3 DEF Endpoint

\* A Hello is one to Presence, however onClientConnected() goes on with it.
LEMMA ConnectedStep ==
    ASSUME IInv, NEW c \in Conn, Connected(c)
    PROVE  [Promised!Next]_(Promised!presence)
<1>0. TypeOK
  BY DEF IInv
<1>1. ASSUME ReadHello(c), UNCHANGED <<st, slot, stopping>>,
             NEW v, v # "none", pc' = [pc EXCEPT ![c] = v]
      PROVE  [Promised!Next]_(Promised!presence)
  <2>1. Attached' = Attached
    BY <1>1 DEF Attached, Unclosed
  <2>2. Open' = Open /\ Life' = Life
    BY <1>1, <2>1 DEF Open, Life
  <2>3. Promised!Hello(c)
    BY <1>1, <2>1, <2>2, HelloHeard DEF Promised!Hello
  <2> QED BY <2>3 DEF Promised!Next
<1>2. CASE HelloWithoutWorkspace(c) \/ HelloAfterStop(c)
  BY <1>1, <1>2 DEF HelloWithoutWorkspace, HelloAfterStop
<1>3. CASE HelloAccepted(c)
  <2>1. ReadHello(c) /\ UNCHANGED <<st, slot, stopping>>
    BY <1>3 DEF HelloAccepted
  <2>2. \E v \in {"git", "tree", "failed"} : pc' = [pc EXCEPT ![c] = v]
    BY <1>3 DEF HelloAccepted, RegisterAndWelcome
  <2> QED BY <1>1, <2>1, <2>2
<1>4. CASE HelloRejected(c)
  <2>1. CASE ~HasClient
    BY <1>1, <1>4, <2>1 DEF HelloRejected
  <2>2. CASE HasClient
    <3>1. /\ ReadHello(c) /\ pc' = [pc EXCEPT ![c] = "rejected"] /\ UNCHANGED stopping
          /\ st' = [st EXCEPT ![slot] = "closing"] /\ slot' = None /\ st[slot] = "open"
          /\ slot \in Conn /\ slot \in Open
      BY <1>4, <2>2, SlotViewed DEF HelloRejected, HasClient
    <3>2. Attached' = Attached
      BY <1>0, <3>1 DEF Attached, Unclosed, TypeOK
    <3>3. Open' = Open \ {slot}
      BY <1>0, <3>1, <3>2 DEF Open, Attached, TypeOK
    <3>4. Life' = Life
      BY <3>1 DEF Life
    <3>5. Promised!HelloRejected(c)
      BY <3>1, <3>2, <3>3, <3>4, HelloHeard DEF Promised!HelloRejected
    <3> QED BY <3>5 DEF Promised!Next
  <2> QED BY <2>1, <2>2
<1>5. CASE ResumeSetup(c) \/ TreeBuilt(c) \/ DocsReady(c)
  <2>1. UNCHANGED <<st, slot, stopping, known>> /\ pc[c] # "none"
    BY <1>5 DEF ResumeSetup, TreeBuilt, DocsReady
  <2>2. \E v \in {"tree", "failed", "docs", "done"} : pc' = [pc EXCEPT ![c] = v]
    BY <1>5 DEF ResumeSetup, RegisterAndWelcome, TreeBuilt, DocsReady
  <2> QED BY <1>0, <2>1, <2>2, StepUnseen DEF TypeOK
<1> QED BY <1>2, <1>3, <1>4, <1>5 DEF Connected

\* Every step of the session is one of Presence, or none.
LEMMA PresenceStep == IInv /\ [Next]_vars => [Promised!Next]_(Promised!presence)
<1> SUFFICES ASSUME IInv, [Next]_vars PROVE [Promised!Next]_(Promised!presence)
  OBVIOUS
<1>0. TypeOK
  BY DEF IInv
<1>1. CASE HeartbeatTerminate
  <2>1. /\ slot \in Conn /\ slot \in Open /\ Life = "up" /\ st[slot] = "open"
        /\ st' = [st EXCEPT ![slot] = "closing"] /\ slot' = None
        /\ OnClientDisconnected /\ UNCHANGED <<stopping, pc>>
    BY <1>1, SlotViewed DEF HeartbeatTerminate, HasClient
  <2>2. Attached' = Attached
    BY <1>0, <2>1 DEF Attached, Unclosed, TypeOK
  <2>3. Open' = Open \ {slot} /\ Greeted' = Greeted /\ Life' = Life
    BY <1>0, <2>1, <2>2 DEF Open, Attached, Greeted, Life, TypeOK
  <2>4. Promised!Terminate
    BY <2>1, <2>2, <2>3, GoneStep DEF Promised!Terminate
  <2> QED BY <2>4 DEF Promised!Next
<1>2. CASE Stop
  <2>1. /\ slot' = None /\ Life = "up" /\ Life' = "over" /\ UNCHANGED pc /\ stopping'
        /\ st' = IF HasClient THEN [st EXCEPT ![slot] = "closing"] ELSE st
    BY <1>2 DEF Stop, Life
  <2>2. \A c \in Conn : /\ Unclosed(c)' <=> Unclosed(c)
                        /\ st'[c] = "open" => st[c] = "open" /\ c # slot
    BY <1>0, <2>1, ConnAssumption DEF HasClient, Unclosed, TypeOK, ConnAssumption
  <2>3. Attached' = Attached
    BY <2>2 DEF Attached
  <2>4. Open' \subseteq Open /\ slot \notin Open' /\ Greeted' = Greeted
    BY <2>1, <2>2, <2>3 DEF Open, Attached, Greeted
  <2>5. Seen' = (Seen /\ Life # "up")
    BY <2>1 DEF Seen
  <2>6. Promised!Stop
    BY <2>1, <2>3, <2>4, <2>5 DEF Promised!Stop, Promised!Gone
  <2> QED BY <2>6 DEF Promised!Next
<1>3. CASE GitActivated \/ GrantEditAccess \/ UNCHANGED vars
  BY <1>3, StepUnseen DEF GitActivated, GrantEditAccess, vars
<1> QED BY <1>1, <1>2, <1>3, EndpointStep, ConnectedStep DEF Next

\* What this module repeats of the endpoint is no more than Presence allows, as
\* PairProgServer itself is.
THEOREM SessionImplementsPresence == Spec => Promised!Spec
<1>1. Init => Promised!Init
  BY DEF Init, Promised!Init, Life, Attached, Open, Greeted, Seen, Unclosed
<1>2. IInv /\ [Next]_vars => [Promised!Next]_(Promised!presence)
  BY PresenceStep
<1> QED BY <1>1, <1>2, HostInvariant, PTL DEF Spec, Promised!Spec

\* The promise is inductive in Presence.
LEMMA PromiseStep ==
    ASSUME Promised!Promise, [Promised!Next]_(Promised!presence)
    PROVE  Promised!Promise'
<1> USE DEF Promised!Promise
<1>1. CASE Promised!Start
  BY <1>1 DEF Promised!Start
<1>2. CASE Promised!Stop
  BY <1>2 DEF Promised!Stop, Promised!Gone
<1>3. CASE Promised!Terminate
  BY <1>3 DEF Promised!Terminate, Promised!Gone
<1>4. ASSUME NEW s \in Conn, Promised!Connects(s) PROVE Promised!Promise'
  BY <1>4 DEF Promised!Connects, Promised!Attach
<1>5. ASSUME NEW s \in Conn, Promised!ConnectsWithHello(s) PROVE Promised!Promise'
  BY <1>5 DEF Promised!ConnectsWithHello, Promised!Attach, Promised!Announced
<1>6. ASSUME NEW s \in Conn, Promised!Hello(s) PROVE Promised!Promise'
  BY <1>6 DEF Promised!Hello, Promised!Announced
<1>7. ASSUME NEW s \in Conn, Promised!HelloRejected(s) PROVE Promised!Promise'
  BY <1>7 DEF Promised!HelloRejected, Promised!Announced
<1>8. ASSUME NEW s \in Conn, Promised!Ends(s) PROVE Promised!Promise'
  BY <1>8 DEF Promised!Ends
<1>9. ASSUME NEW s \in Conn, Promised!Closed(s) PROVE Promised!Promise'
  BY <1>9 DEF Promised!Closed, Promised!Gone
<1>10. CASE UNCHANGED Promised!presence
  BY <1>10 DEF Promised!presence
<1> QED
  BY <1>1, <1>2, <1>3, <1>4, <1>5, <1>6, <1>7, <1>8, <1>9, <1>10 DEF Promised!Next

\* While the endpoint is up, the session never believes in a client unless some
\* attached socket has said Hello and has its 'close' event to come.  This
\* follows from Presence alone, whatever implements it.
THEOREM PromiseIsKept == Promised!Spec => []Promised!Promise
<1>1. Promised!Init => Promised!Promise
  BY DEF Promised!Init, Promised!Promise
<1> QED BY <1>1, PromiseStep, PTL DEF Promised!Spec


\* So it is kept here, too: the session never waits for a client whose socket is
\* gone.
THEOREM SessionKeepsPromise == Spec => []Promised!Promise
BY SessionImplementsPresence, PromiseIsKept, PTL
===============================================================================
