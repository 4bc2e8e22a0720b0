----------------------------- MODULE ClientSession -----------------------------
(***************************************************************************)
(* The client side's sessions (src/session/clientSession.ts), the manager  *)
(* that starts, replaces and ends them (src/session/sessionManager.ts) and *)
(* what all sessions share: the virtual file system, the router, the       *)
(* features, the workspace folder, the persisted reconnect.                *)
(*                                                                         *)
(* Nothing keeps two sessions apart: a join that was checked before its    *)
(* dialogs replaces a session that came up meanwhile, and the endpoint of  *)
(* a session that was left or replaced still reports.  onDirectoryTree()   *)
(* gives way twice, once before it adds the folder and once in             *)
(* activateAll(), and goes on with what it then finds.  An invocation is   *)
(* named by its session and a number, and so are the sync components it    *)
(* creates, registers and disposes of together.                            *)
(*                                                                         *)
(* The endpoint is the one of PairProgClient.  Welcome, DirectoryTree and  *)
(* EditPermissionGranted come in any order and more than once, also in one *)
(* connection: a set-up of the host that outlives its client sends to      *)
(* whoever is connected then (TreeAfterWelcome of HostSession).  Hosting,  *)
(* the passphrase and the list of open files are left out.                 *)
(***************************************************************************)
EXTENDS Naturals, FiniteSets

CONSTANTS
    Session,       \* ClientSession objects
    None,          \* null
    MaxTree,       \* DirectoryTree messages per session, and one more altogether
    MaxStop        \* how often the extension host stops

ASSUME SessionAssumption == None \notin Session /\ None \notin Session \X Nat

ASSUME BoundAssumption == MaxTree \in Nat /\ MaxStop \in Nat

VARIABLES
    running,       \* the extension is active
    stops,
    current,       \* SessionManager.clientSession
    phase,         \* what a session and its endpoint are doing
    isReadonly,    \* _isReadonly
    trees,         \* DirectoryTree messages seen by a session, which numbers them
    step,          \* the await an invocation is at
    sync,          \* whose components this.cursorSync, ... are
    routes,        \* whose components hold the claims of the router
    alive,         \* components that have not been disposed of
    readonlySync,  \* components told to be read-only
    features,      \* the session the features were activated for
    sender,        \* the session whose requestSender the file system has
    vfsReadonly,   \* the file system's _readonly
    folder,        \* the workspace has the virtual folder
    pending,       \* pairprog.pendingReconnect is persisted
    word,          \* history: what the host last said about editing
    mishaps        \* history: what has gone wrong since the start

vars == <<running, stops, current, phase, isReadonly, trees, step, sync, routes, alive,
          readonlySync, features, sender, vfsReadonly, folder, pending, word, mishaps>>

Invocation == Session \X (1 .. MaxTree)

\* The socket is open; "revived": by a retry that disconnect() did not stop.
Open == {"open", "revived"}

\* Frames that have arrived are still handled while the socket closes.
Hearing == Open \cup {"closing"}

Phases == Hearing \cup {"unused", "asking", "secret", "joining", "rejoining", "aborted",
                        "retrying", "reviving", "done"}

TypeOK ==
    /\ running \in BOOLEAN /\ stops \in 0 .. MaxStop
    /\ current \in Session \cup {None}
    /\ phase \in [Session -> Phases]
    /\ isReadonly \in [Session -> BOOLEAN]
    /\ trees \in [Session -> 0 .. MaxTree]
    /\ step \in [Invocation -> {"none", "save", "features"}]
    /\ sync \in [Session -> Invocation \cup {None}]
    /\ routes \in Invocation \cup {None}
    /\ alive \subseteq Invocation /\ readonlySync \subseteq Invocation
    /\ features \in Session \cup {None} /\ sender \in Session \cup {None}
    /\ vfsReadonly \in BOOLEAN /\ folder \in BOOLEAN /\ pending \in BOOLEAN
    /\ word \in [Session -> {"none", "read", "edit"}]
    /\ mishaps \subseteq {"relapse", "zombie", "crossing"}

\* The extension is about to start, with what an earlier run has persisted.
Init ==
    /\ running = FALSE /\ stops = 0
    /\ current = None
    /\ phase = [s \in Session |-> "unused"]
    /\ isReadonly = [s \in Session |-> TRUE]
    /\ trees = [s \in Session |-> 0]
    /\ step = [t \in Invocation |-> "none"]
    /\ sync = [s \in Session |-> None]
    /\ routes = None /\ alive = {} /\ readonlySync = {}
    /\ features = None /\ sender = None
    /\ vfsReadonly = TRUE /\ folder \in BOOLEAN /\ pending \in BOOLEAN
    /\ word = [s \in Session |-> "none"] /\ mishaps = {}

-------------------------------------------------------------------------------
(* What several handlers do *)

shared == <<routes, alive, readonlySync, features, sender, vfsReadonly, folder, pending>>

Fresh(s) == phase[s] = "unused" /\ s = CHOOSE x \in Session : phase[x] = "unused"

Becomes(s, p) == phase' = [phase EXCEPT ![s] = p]

Mishap(kind, happens) == mishaps' = mishaps \cup (IF happens THEN {kind} ELSE {})

\* A session other than s is served by the file system or the features, or
\* sets them up.
Meddles(s) ==
    \/ {sender, features} \ {s, None} # {}
    \/ \E t \in Invocation : t[1] # s /\ step[t] # "none"

\* Mutant: the components are forgotten before their claims are released.
ForgetFirst(s) == UNCHANGED routes

\* MessageRouter.unregister() leaves the claims of others alone.
ReleaseClaims(s) == routes' = IF routes = sync[s] THEN None ELSE routes

\* teardownSync(), PairProgFileSystemProvider.teardown(), and the persisted
\* reconnect: what a session does when it ends, whoever ended it.
EndSession(s) ==
    /\ pending' = FALSE
    /\ isReadonly' = [isReadonly EXCEPT ![s] = TRUE]
    /\ word' = [word EXCEPT ![s] = "none"]
    /\ ReleaseClaims(s)
    /\ alive' = alive \ {sync[s]} /\ readonlySync' = readonlySync \ {sync[s]}
    /\ sync' = [sync EXCEPT ![s] = None]
    /\ features' = None
    /\ sender' = None /\ vfsReadonly' = TRUE /\ folder' = FALSE
    /\ Mishap("crossing", Meddles(s))

\* PairProgClient.disconnect(): a retry that waits for its timer is cancelled,
\* one whose socket is connecting goes on to the next attempt.
AfterDisconnect(p) ==
    CASE p \in Open -> {"closing"}
      [] p \in {"joining", "rejoining"} -> {"aborted"}
      [] p = "retrying" -> {"done", "reviving"}
      [] OTHER -> {p}

-------------------------------------------------------------------------------
(* SessionManager *)

IsClient == current # None /\ phase[current] \in Open

\* joinSession() and an invite link look for a session, then ask the user.
AskToJoin(s) ==
    /\ running /\ Fresh(s) /\ ~IsClient
    /\ Becomes(s, "asking")
    /\ UNCHANGED <<running, stops, current, isReadonly, trees, step, sync, shared, word, mishaps>>

\* connectToSession(), or autoReconnect() when it has the passphrase
ConnectToSession(s) ==
    /\ running /\ phase[s] \in {"asking", "secret"}
    /\ current' = s
    /\ Becomes(s, IF phase[s] = "asking" THEN "joining" ELSE "rejoining")
    /\ UNCHANGED <<running, stops, isReadonly, trees, step, sync, shared, word, mishaps>>

SocketOpens(s) ==
    /\ phase[s] \in {"joining", "rejoining", "retrying", "reviving"}
    /\ Becomes(s, IF phase[s] = "reviving" THEN "revived" ELSE "open")
    /\ UNCHANGED <<running, stops, current, isReadonly, trees, step, sync, shared, word, mishaps>>

\* The first attempt fails.  The catch block disposes of the session that is
\* current now.
ConnectFails(s) ==
    /\ phase[s] \in {"joining", "rejoining", "aborted"}
    /\ current' = None
    /\ LET ended == [phase EXCEPT ![s] = "done"] IN
        IF current = None
          THEN /\ phase' = ended
               /\ folder' = (folder /\ phase[s] # "rejoining")
               /\ UNCHANGED <<isReadonly, sync, routes, alive, readonlySync, features, sender,
                              vfsReadonly, pending, word, mishaps>>
          ELSE /\ \E p \in AfterDisconnect(ended[current]) :
                    phase' = [ended EXCEPT ![current] = p]
               /\ EndSession(current)
    /\ UNCHANGED <<running, stops, trees, step>>

\* leaveSession()
LeaveSession ==
    /\ IsClient
    /\ Becomes(current, "closing")
    /\ EndSession(current)
    /\ current' = None
    /\ UNCHANGED <<running, stops, trees, step>>

-------------------------------------------------------------------------------
(* ClientSession: what the endpoint reports *)

SetUp(s) == sync[s] # None /\ \A t \in Invocation : step[t] = "none"

\* onConnected() tells no layer what the Welcome says.
Contradicts(s, said) ==
    \/ word[s] = "edit" /\ said = "read"
    \/ SetUp(s) /\ word[s] # "edit" /\ said = "edit"

OnConnected(s, said) ==
    /\ phase[s] \in Hearing
    /\ isReadonly' = [isReadonly EXCEPT ![s] = said = "read"]
    /\ word' = [word EXCEPT ![s] = said]
    /\ Mishap("relapse", Contradicts(s, said))
    /\ UNCHANGED <<running, stops, current, phase, trees, step, sync, shared>>

ConnectionLost(s) ==
    /\ phase[s] = "open"
    /\ Becomes(s, "retrying")
    /\ UNCHANGED <<running, stops, current, isReadonly, trees, step, sync, shared, word, mishaps>>

\* The host refuses: the endpoint closes its socket.
Refused(s) ==
    /\ phase[s] \in Open
    /\ Becomes(s, "closing")
    /\ UNCHANGED <<running, stops, current, isReadonly, trees, step, sync, shared, word, mishaps>>

\* onDisconnected(): the host says so, the endpoint gives up, or a socket that
\* this side closed is closed.
OnDisconnected(s) ==
    /\ \/ phase[s] \in Open /\ Becomes(s, "closing")
       \/ phase[s] \in {"retrying", "closing", "reviving", "revived"} /\ Becomes(s, "done")
    /\ EndSession(s)
    /\ UNCHANGED <<running, stops, current, trees, step>>

\* Mutant: only what is there already is told.
TellThoseThere(s) == UNCHANGED isReadonly

\* The session remembers, for the layers it has yet to create.
RememberGrant(s) == isReadonly' = [isReadonly EXCEPT ![s] = FALSE]

OnEditPermissionGranted(s) ==
    /\ phase[s] \in Hearing
    /\ RememberGrant(s)
    /\ word' = [word EXCEPT ![s] = "edit"]
    /\ vfsReadonly' = FALSE
    /\ readonlySync' = readonlySync \ {sync[s]}
    /\ Mishap("crossing", Meddles(s))
    /\ UNCHANGED <<running, stops, current, phase, trees, step, sync, routes, alive, features,
                   sender, folder, pending>>

-------------------------------------------------------------------------------
(* ClientSession: onDirectoryTree() *)

\* setupSync(): register() throws when the types are claimed.
SetupSync(t) ==
    /\ sync' = [sync EXCEPT ![t[1]] = t]
    /\ alive' = alive \cup {t}
    /\ IF routes = None
         THEN routes' = t /\ features' = t[1] /\ step' = [step EXCEPT ![t] = "features"]
         ELSE UNCHANGED <<routes, features>> /\ step' = [step EXCEPT ![t] = "none"]

\* s has components, or an invocation of it is still at work.
Begun(s) == sync[s] # None \/ \E t \in Invocation : t[1] = s /\ step[t] # "none"

\* The bound on the trees
MoreTrees(s) ==
    /\ trees[s] < MaxTree
    /\ Cardinality({t \in Invocation : t[2] <= trees[t[1]]}) <= MaxTree

OnDirectoryTree(s) ==
    LET t == <<s, trees[s] + 1>> IN
    /\ phase[s] \in Hearing /\ MoreTrees(s)
    /\ trees' = [trees EXCEPT ![s] = @ + 1]
    /\ sender' = s
    /\ IF folder
         THEN SetupSync(t) /\ UNCHANGED pending
         ELSE /\ pending' = TRUE
              /\ step' = [step EXCEPT ![t] = "save"]
              /\ UNCHANGED <<sync, alive, routes, features>>
    /\ Mishap("crossing", Meddles(s) \/ Begun(s))
    /\ UNCHANGED <<running, stops, current, phase, isReadonly, readonlySync, vfsReadonly,
                   folder, word>>

\* The reconnect is saved: the folder, then the components.
AddFolder(t) ==
    /\ step[t] = "save"
    /\ folder' = TRUE
    /\ SetupSync(t)
    /\ Mishap("zombie", phase[t[1]] = "done")
    /\ UNCHANGED <<running, stops, current, phase, isReadonly, trees, readonlySync, sender,
                   vfsReadonly, pending, word>>

\* Mutant: components that are gone are told, too.
AnyLayers(s) == {sync[s]}

\* The components that are still there
Layers(s) == {sync[s]} \ {None}

\* The features are active: setReadonly() on all layers, and what only sends.
ApplyReadonly(t) ==
    LET s == t[1] IN
    /\ step[t] = "features"
    /\ step' = [step EXCEPT ![t] = "none"]
    /\ vfsReadonly' = isReadonly[s]
    /\ readonlySync' = IF isReadonly[s] THEN readonlySync \cup Layers(s)
                                        ELSE readonlySync \ Layers(s)
    /\ UNCHANGED <<running, stops, current, phase, isReadonly, trees, sync, routes, alive,
                   features, sender, folder, pending, word, mishaps>>

-------------------------------------------------------------------------------
(* The extension host stops and starts: a window is reloaded, the folder    *)
(* was added, or it crashes.                                                *)

\* Every session is gone with the process; deactivate() has disposed of the
\* current one, and with it of the folder, unless it is to come back.
Stop ==
    /\ running /\ running' = FALSE
    /\ stops < MaxStop /\ stops' = stops + 1
    /\ \/ UNCHANGED folder
       \/ folder' = (folder /\ (pending \/ current = None))
    /\ current' = None
    /\ phase' = [s \in Session |-> IF phase[s] = "unused" THEN "unused" ELSE "done"]
    /\ isReadonly' = [s \in Session |-> TRUE]
    /\ trees' = [s \in Session |-> 0]
    /\ step' = [t \in Invocation |-> "none"]
    /\ sync' = [s \in Session |-> None]
    /\ routes' = None /\ alive' = {} /\ readonlySync' = {}
    /\ features' = None /\ sender' = None /\ vfsReadonly' = TRUE
    /\ word' = [s \in Session |-> "none"] /\ mishaps' = {}
    /\ UNCHANGED pending

\* Mutant: the folder of a session that is not resumed stays.
LeaveStaleVfs == UNCHANGED folder

CleanupStaleVfs == folder' = FALSE

\* activate(): checkPendingReconnect()
Activate ==
    /\ ~running /\ running' = TRUE
    /\ IF pending
         THEN /\ pending' = FALSE
              /\ \E s \in Session : Fresh(s) /\ Becomes(s, "secret")
              /\ UNCHANGED folder
         ELSE CleanupStaleVfs /\ UNCHANGED <<pending, phase>>
    /\ UNCHANGED <<stops, current, isReadonly, trees, step, sync, routes, alive, readonlySync,
                   features, sender, vfsReadonly, word, mishaps>>

Next ==
    \/ \E s \in Session :
        \/ AskToJoin(s) \/ ConnectToSession(s) \/ SocketOpens(s) \/ ConnectFails(s)
        \/ \E said \in {"read", "edit"} : OnConnected(s, said)
        \/ ConnectionLost(s) \/ Refused(s) \/ OnDisconnected(s)
        \/ OnEditPermissionGranted(s) \/ OnDirectoryTree(s)
    \/ \E t \in Invocation : AddFolder(t) \/ ApplyReadonly(t)
    \/ LeaveSession \/ Stop \/ Activate

Spec == Init /\ [][Next]_vars

-------------------------------------------------------------------------------
(* Properties *)

\* Only a session that was told so makes the files writable, and a session
\* that is set up, in whatever order Welcome, tree and grants came, has the
\* host's last word on the file system and on its components.  Not in the
\* claim: a Welcome that contradicts what the layers were told already
\* (clientSession.ts:161 keeps it to itself), and two set-ups in each other's
\* way, be they of two sessions or of two trees that one session was sent.
ReadonlyAsTold ==
    mishaps \cap {"relapse", "crossing"} = {} =>
        /\ vfsReadonly \/ \E s \in Session : word[s] = "edit"
        /\ \A s \in Session : SetUp(s) =>
            /\ vfsReadonly <=> word[s] # "edit"
            /\ sync[s] \in readonlySync <=> word[s] # "edit"

\* The router's claims are those of the components of a session that is not
\* over, and they have not been disposed of; components without claims, or
\* features without components, do not outlive their session.  Not in the
\* claim: two set-ups in each other's way (the second one throws at the
\* claims of the first and leaves them to nobody), and an invocation that adds
\* the folder after its session is over.
ClaimsMatchComponents ==
    mishaps \cap {"zombie", "crossing"} = {} =>
        /\ alive = {routes} \ {None}
        /\ \A s \in Session : sync[s] # None => sync[s] = routes
        /\ routes # None => /\ sync[routes[1]] = routes
                            /\ features = routes[1]
                            /\ phase[features] \notin {"unused", "done"}
        /\ routes = None => features = None

\* A session that had a connection and has not been ended, or that takes up
\* an earlier one
MayServe == Hearing \cup {"retrying", "reviving", "secret", "rejoining"}

\* The virtual folder of a running extension belongs to a session that may
\* still serve it: whatever fails, ends, is replaced or crashes, no folder is
\* left with nobody behind it, but for an invocation that adds it after its
\* session is over.
FolderHasKeeper ==
    running /\ folder /\ "zombie" \notin mishaps =>
        \E s \in Session : phase[s] \in MayServe
===============================================================================
