------------------------------ MODULE HostSession ------------------------------
(***************************************************************************)
(* The host's reaction to its client coming and going                      *)
(* (src/session/hostSession.ts), with the routes its sync components claim *)
(* in the MessageRouter (src/network/messageRouter.ts).                    *)
(*                                                                         *)
(* onClientConnected() is asynchronous.  It gives way while the git        *)
(* extension is being activated, while the directory tree is read and      *)
(* while the open files are opened; connections come and go in between,    *)
(* and what it goes on with is this.* as others left it.                   *)
(*                                                                         *)
(* Each connection sends one Hello, so a connection also names the         *)
(* invocation its Hello starts and the sync components (cursorSync,        *)
(* documentSync, ... ) that invocation creates: the six of them are        *)
(* created, registered and disposed of together.  The session has been     *)
(* started; the endpoint's slot, its 'close' events and its heartbeat are  *)
(* those of PairProgServer, without the relay.                             *)
(***************************************************************************)
EXTENDS Naturals, FiniteSets

CONSTANTS
    Conn,    \* connections, each used once
    None     \* null

ASSUME ConnAssumption == None \notin Conn

VARIABLES
    st,          \* readyState of an accepted socket
    slot,        \* server.client
    stopping,    \* isStopping; the server no longer listens
    known,       \* clientUsername is not empty
    granted,     \* _editAccessGranted
    gitActive,   \* the git extension is active: activate() does not wait
    pc,          \* where the onClientConnected() of a connection's Hello is
    sync,        \* whose components this.cursorSync, ... are
    routes,      \* whose components hold the six claims of the router
    disposed,    \* whose components have been disposed of
    welcomes,    \* Welcome messages sent to each connection
    trees,       \* DirectoryTree messages sent to each connection
    perm,        \* what a connection was last told about editing
    crowded      \* history: two sockets were attached at the same time

vars == <<st, slot, stopping, known, granted, gitActive, pc, sync, routes,
          disposed, welcomes, trees, perm, crowded>>

TypeOK ==
    /\ st \in [Conn -> {"none", "open", "closing", "closed"}]
    /\ slot \in Conn \cup {None}
    /\ stopping \in BOOLEAN
    /\ known \in BOOLEAN
    /\ granted \in BOOLEAN
    /\ gitActive \in BOOLEAN
    /\ pc \in [Conn -> {"none", "git", "tree", "docs", "done", "failed", "rejected"}]
    /\ sync \in Conn \cup {None}
    /\ routes \in Conn \cup {None}
    /\ disposed \subseteq Conn
    /\ welcomes \in [Conn -> 0..1]
    /\ trees \in [Conn -> Nat]
    /\ perm \in [Conn -> {"none", "read", "edit"}]
    /\ crowded \in BOOLEAN

Init ==
    /\ st = [c \in Conn |-> "none"]
    /\ slot = None
    /\ stopping = FALSE
    /\ known = FALSE
    /\ granted = FALSE
    /\ gitActive \in BOOLEAN
    /\ pc = [c \in Conn |-> "none"]
    /\ sync = None
    /\ routes = None
    /\ disposed = {}
    /\ welcomes = [c \in Conn |-> 0]
    /\ trees = [c \in Conn |-> 0]
    /\ perm = [c \in Conn |-> "none"]
    /\ crowded = FALSE

-------------------------------------------------------------------------------
Unclosed(c) == st[c] \in {"open", "closing"}

HasClient == slot # None /\ st[slot] = "open"

\* server.send() reaches the client in the slot, if it is open.
Reached == IF HasClient THEN {slot} ELSE {}

Count(f) == [c \in Conn |-> IF c \in Reached THEN f[c] + 1 ELSE f[c]]

Tell(p) == [c \in Conn |-> IF c \in Reached THEN p ELSE perm[c]]

\* Mutant: the claims stay in the router.
TeardownKeepingRoutes ==
    /\ sync' = None
    /\ disposed' = IF sync = None THEN disposed ELSE disposed \cup {sync}
    /\ UNCHANGED routes

\* teardownSync(): unregister() drops only the claims of the very components.
TeardownSync ==
    /\ sync' = None
    /\ disposed' = IF sync = None THEN disposed ELSE disposed \cup {sync}
    /\ routes' = IF routes = sync THEN None ELSE routes

-------------------------------------------------------------------------------
(* The endpoint *)

\* A second socket is accepted while the first is closing; a socket refused
\* because the slot is taken never reaches the session.
HandleNewConnection(c) ==
    /\ ~stopping /\ st[c] = "none" /\ ~HasClient
    /\ st' = [st EXCEPT ![c] = "open"]
    /\ slot' = c
    /\ crowded' = (crowded \/ \E d \in Conn : Unclosed(d))
    /\ UNCHANGED <<stopping, known, granted, gitActive, pc, sync, routes, disposed,
                   welcomes, trees, perm>>

\* The peer closes, or the connection is reset.
ConnectionEnds(c) ==
    /\ st[c] = "open"
    /\ st' = [st EXCEPT ![c] = "closing"]
    /\ UNCHANGED <<slot, stopping, known, granted, gitActive, pc, sync, routes,
                   disposed, welcomes, trees, perm, crowded>>

\* onClientDisconnected(): nothing once the session stops.
OnClientDisconnected ==
    IF stopping
      THEN UNCHANGED <<known, sync, routes, disposed>>
      ELSE TeardownSync /\ known' = FALSE

\* Mutant: only the socket in the slot counts as the client.
DisconnectedIfCurrent(c) ==
    IF slot = c THEN OnClientDisconnected ELSE UNCHANGED <<known, sync, routes, disposed>>

\* Any attached socket's 'close' event is reported.
ReportClosed(c) == OnClientDisconnected

SocketClosed(c) ==
    /\ st[c] = "closing"
    /\ st' = [st EXCEPT ![c] = "closed"]
    /\ slot' = None
    /\ ReportClosed(c)
    /\ UNCHANGED <<stopping, granted, gitActive, pc, welcomes, trees, perm, crowded>>

\* The heartbeat gives up; the 'close' event will report the client again.
HeartbeatTerminate ==
    /\ HasClient
    /\ st' = [st EXCEPT ![slot] = "closing"]
    /\ slot' = None
    /\ OnClientDisconnected
    /\ UNCHANGED <<stopping, granted, gitActive, pc, welcomes, trees, perm, crowded>>

-------------------------------------------------------------------------------
(* onClientConnected() *)

\* Mutant: the components of the invocation itself are registered.
RegisterableOwn(t) == t

\* register(this.cursorSync), ...: whatever this.* holds by now.
Registerable(t) == sync

\* Mutant: Welcome goes out only if the invocation's own client is current.
WelcomeIfCurrent(t) ==
    IF slot = t
      THEN welcomes' = Count(welcomes) /\ perm' = Tell(IF granted THEN "edit" ELSE "read")
      ELSE UNCHANGED <<welcomes, perm>>

SendWelcome(t) ==
    /\ welcomes' = Count(welcomes)
    /\ perm' = Tell(IF granted THEN "edit" ELSE "read")

\* Mutant: a later registration takes the claims over.
RegistersOver(obj) == obj # None

\* register() throws on null and on a message type already claimed.
Registers(obj) == obj # None /\ routes = None

\* The rest of setupSync() from the registrations on, and the Welcome.
RegisterAndWelcome(t, obj) ==
    IF Registers(obj)
      THEN /\ routes' = obj
           /\ SendWelcome(t)
           /\ pc' = [pc EXCEPT ![t] = "tree"]
      ELSE /\ pc' = [pc EXCEPT ![t] = "failed"]
           /\ UNCHANGED <<routes, welcomes, perm>>

ReadHello(c) == Unclosed(c) /\ pc[c] = "none" /\ known' = TRUE

\* The host has no workspace open: an Error is sent and nothing else happens.
HelloWithoutWorkspace(c) ==
    /\ ReadHello(c)
    /\ pc' = [pc EXCEPT ![c] = "rejected"]
    /\ UNCHANGED <<st, slot, stopping, granted, gitActive, sync, routes, disposed,
                   welcomes, trees, perm, crowded>>

\* Wrong version or passphrase: rejectClient() turns away whoever has the slot.
HelloRejected(c) ==
    /\ ReadHello(c)
    /\ pc' = [pc EXCEPT ![c] = "rejected"]
    /\ IF HasClient
         THEN st' = [st EXCEPT ![slot] = "closing"] /\ slot' = None
         ELSE UNCHANGED <<st, slot>>
    /\ UNCHANGED <<stopping, granted, gitActive, sync, routes, disposed, welcomes,
                   trees, perm, crowded>>

\* setupSync() creates the components, without disposing of earlier ones.
HelloAccepted(c) ==
    /\ ReadHello(c) /\ ~stopping
    /\ sync' = c
    /\ IF gitActive
         THEN RegisterAndWelcome(c, c)
         ELSE /\ pc' = [pc EXCEPT ![c] = "git"]
              /\ UNCHANGED <<routes, welcomes, perm>>
    /\ UNCHANGED <<st, slot, stopping, granted, gitActive, disposed, trees, crowded>>

\* After stop() there is no ShareDB server: setupSync() throws at once.
HelloAfterStop(c) ==
    /\ ReadHello(c) /\ stopping
    /\ pc' = [pc EXCEPT ![c] = "failed"]
    /\ UNCHANGED <<st, slot, stopping, granted, gitActive, sync, routes, disposed,
                   welcomes, trees, perm, crowded>>

GitActivated ==
    /\ ~gitActive
    /\ gitActive' = TRUE
    /\ UNCHANGED <<st, slot, stopping, known, granted, pc, sync, routes, disposed,
                   welcomes, trees, perm, crowded>>

\* gitStatusSync.activate() has returned.
ResumeSetup(t) ==
    /\ pc[t] = "git" /\ gitActive
    /\ RegisterAndWelcome(t, Registerable(t))
    /\ UNCHANGED <<st, slot, stopping, known, granted, gitActive, sync, disposed,
                   trees, crowded>>

\* buildDirectoryTree() has returned, or failed: then no tree is sent.
TreeBuilt(t) ==
    /\ pc[t] = "tree"
    /\ trees' \in {Count(trees), trees}
    /\ pc' = [pc EXCEPT ![t] = "docs"]
    /\ UNCHANGED <<st, slot, stopping, known, granted, gitActive, sync, routes,
                   disposed, welcomes, perm, crowded>>

\* The open files have their ShareDB documents; this.cursorSync may be null
\* by now.  A grant is repeated last.
DocsReady(t) ==
    /\ pc[t] = "docs"
    /\ IF sync = None
         THEN pc' = [pc EXCEPT ![t] = "failed"] /\ UNCHANGED perm
         ELSE /\ pc' = [pc EXCEPT ![t] = "done"]
              /\ perm' = IF granted THEN Tell("edit") ELSE perm
    /\ UNCHANGED <<st, slot, stopping, known, granted, gitActive, sync, routes,
                   disposed, welcomes, trees, crowded>>

-------------------------------------------------------------------------------
(* The user of the host *)

\* Mutant: the client learns of the grant when it connects again.
GrantSilently == UNCHANGED perm

AnnounceGrant == perm' = Tell("edit")

GrantEditAccess ==
    /\ ~stopping /\ known /\ ~granted
    /\ granted' = TRUE
    /\ AnnounceGrant
    /\ UNCHANGED <<st, slot, stopping, known, gitActive, pc, sync, routes, disposed,
                   welcomes, trees, crowded>>

Stop ==
    /\ ~stopping
    /\ stopping' = TRUE
    /\ granted' = FALSE
    /\ TeardownSync
    /\ st' = IF HasClient THEN [st EXCEPT ![slot] = "closing"] ELSE st
    /\ slot' = None
    /\ UNCHANGED <<known, gitActive, pc, welcomes, trees, perm, crowded>>

-------------------------------------------------------------------------------
Endpoint(c) == HandleNewConnection(c) \/ ConnectionEnds(c) \/ SocketClosed(c)

Connected(c) ==
    \/ HelloWithoutWorkspace(c) \/ HelloRejected(c)
    \/ HelloAccepted(c) \/ HelloAfterStop(c)
    \/ ResumeSetup(c) \/ TreeBuilt(c) \/ DocsReady(c)

Next ==
    \/ \E c \in Conn : Endpoint(c) \/ Connected(c)
    \/ HeartbeatTerminate \/ GitActivated \/ GrantEditAccess \/ Stop

Spec == Init /\ [][Next]_vars

-------------------------------------------------------------------------------
(* The endpoint's part as the session may expect it *)

Life == IF stopping THEN "over" ELSE "up"

Attached == {c \in Conn : Unclosed(c)}

Open == {c \in Attached : st[c] = "open"}

Greeted == {c \in Attached : pc[c] # "none"}

Seen == known /\ ~stopping

Promised == INSTANCE Presence WITH
    Sock <- Conn, Nobody <- None, life <- Life, attached <- Attached, open <- Open,
    greeted <- Greeted, sees <- Seen

-------------------------------------------------------------------------------
(* Properties *)

\* The router never hands a message to components that have been disposed
\* of, although invocations register what others created and tear down what
\* others registered.
RoutedComponentsAreLive == routes \notin disposed

\* As long as no two sockets were attached at once, the claims in the router
\* are those of the current components or none, so the teardown frees them
\* for the next client: a client may come back while the invocation of its
\* previous connection is still under way.
RouterFollowsSync == (routes # None /\ routes # sync) => crowded

\* Under the same condition a client whose setup has ended, even by an
\* exception, has been welcomed exactly once.
ServedWhenSetupEnds ==
    \A c \in Conn :
        (slot = c /\ HasClient /\ pc[c] \in {"done", "failed"} /\ ~crowded)
            => welcomes[c] = 1

\* A client that has been set up while, before or after the host grants edit
\* access has been told so last.
GrantReachesClient ==
    \A c \in Conn : (granted /\ slot = c /\ HasClient /\ pc[c] = "done") => perm[c] = "edit"

\* Components exist only as long as the socket of some client that said
\* Hello has its 'close' event to come, which will dispose of them.
ComponentsWillBeDisposed ==
    (sync # None /\ ~stopping) => \E c \in Conn : Unclosed(c) /\ pc[c] # "none"

\* "Sends Hello, receives Welcome" and then "receives DirectoryTree"
\* (clientSession.ts:38-39).
TreeAfterWelcome == \A c \in Conn : trees[c] > 0 => welcomes[c] > 0
===============================================================================
