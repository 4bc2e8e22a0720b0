# Formal models of vscode-pair-prog

TLA+ models of the VS Code extension for pair programming, with TLC configurations that
check them on small instances and TLAPS proofs of their safety properties for every
instance. The reference is the code under `src/` (paths below are relative to the
repository); every definition is translated from it, and `PROJECT.json` says from which
lines.

## The system

A *host* shares its workspace with one *client*. They talk over one WebSocket: directly
(LAN), or through a relay that pairs two outgoing sockets. A second WebSocket carries
ShareDB operations for the open documents.

| Part | State it keeps | Operations | What makes it hard |
|---|---|---|---|
| `network/server.ts` (host endpoint) | the client slot, missed pings, listeners per socket | accept / refuse, adopt a relay socket, reject, heartbeat, stop | 'close' events come late and are not told apart by socket; every step emits into the session |
| `network/client.ts` (client endpoint) | socket, reconnect timer, attempts, heartbeat timer, intentional flag | connect, disconnect, handshake, frames, timers | timers, the user, the host and the network end the same socket |
| `session/hostSession.ts` | sync components, username, edit access, stopping | react to connected / disconnected, grant, stop | the reaction to a connection waits three times; others change `this.*` meanwhile |
| `network/messageRouter.ts` | message type -> handler | register, unregister, route | one router for all sessions; a claim left behind is final |
| `network/hostRelayBridge.ts`, `relayConnector.ts` | code, two sockets | register, open / close channels | channels are reopened from inside a 'close' event |
| `server/src/sessionRegistry.ts` (relay) | rooms, a socket per channel and role | create, remove, set socket, forward, expire | 'close' events of replaced sockets, reopening that races them |
| `session/clientSession.ts` | Welcome data, readonly flag, sync components | Welcome, DirectoryTree, grant, teardown | reconnects set up again without tearing down; awaits |
| `session/sessionManager.ts` | the two sessions, the pending reconnect | host, join, leave, reconnect after a restart | the extension host restarts in the middle of joining |
| `vfs/pairProgFileSystemProvider.ts` | tree, cached contents, pending requests | read, responses, tree operations, teardown | shared requests, a timer that is never cancelled |
| `sync/fileOpsSync.ts` | - | broadcast and apply create / delete / rename | awaits reorder messages |
| `sync/sharedbBridge.ts`, `sync/remoteOpGuard.ts` | documents, batched ops, op queues, guard | local edits, remote ops, subscribe | batching against concurrent remote ops |
| `sync/intellisenseSync.ts`, `ui/remoteGitQuickDiffController.ts` | pending requests, caches | request, answer, timeout, cancel, dispose | answers after timeouts, disposal with requests pending |
| `sync/diagnosticsSync.ts`, `gitStatusSync.ts`, `cursorSync.ts`, `documentSync.ts` | snapshots, debounce timers, flags | push changes, full synchronisation | snapshots that do not clear; activation that waits |
| `features/whiteboard` | entity maps on both sides, undo stacks | add, update, delete, clear, full sync | two writers without an order |
| `features/terminal`, `features/chat` | little or none | forward output, show a message | - |
| beacon, invite codes, tree builder, path helpers, UI | little or none | encoding, discovery, presentation | - |

Everything runs in the event loops of two extension hosts and of the relay: a step of the
models is what runs between two returns to a loop, so an `await` or a timer splits a
handler into steps and an `emit()` does not.

### What would make each part correct

* Endpoint of the host: the slot is never kept by a client that is gone; what the session
  believes is backed by a socket; only silence costs a client the slot; one client at a time.
* Endpoint of the client: one connection; timers match the connection; the end is final;
  a host that vanishes is noticed.
* Host session: messages go to live components; components are disposed of; a client that
  connects is served; a grant of edit access is heard.
* Relay: whoever holds a role in a room can be reached by the other; a session that is
  hosted can be joined again.
* Client session: one set of components, matching the connection; readonly as the host said last.
* Virtual file system: every read ends, with the contents asked for; the tree follows the host's.
* Documents: both sides show the same text once they are quiet.
* Request tables: every request is answered once; a cache never outlives what it was filled from.
* Whiteboard: both maps agree once quiet.

`PROJECT.json` lists the hazards line by line, with the properties that would catch each, or the
reason why none does.

## The modules

### PairProgServer — the host's endpoint

`slot` is `this.client`, `missed` is `missedPings`; `ws` is the ready state of each socket and
`lsn` the listeners the server put on it ("first" is the listener of `adoptRelaySocket()` for the
first frame, "attached" those of `handleNewConnection()`). `inbox` holds frames of the peer that
are not delivered yet, `hello` what became of its Hello, `hostSees` whether the session believes in
a client. `owed` and `unanswered` count pings (up to their bounds) for the peer's answers and for a property.
The actions are the event handlers: `HandleNewConnection`, `AdoptRelaySocket`, `RelayRefused` /
`RelayAdopted` (the first frame on a relay socket), `ReadHello`, `ReadPong`, `AttachedClosed`,
`UnattachedClosed`, `HeartbeatPing` / `HeartbeatTerminate`, `Start`, `StartListening`, `Stop`.
What `HostSession` does inside `emit()` is part of the step: `rejectClient()` from
`onClientConnected()`, and the closing of the relay channel from `onClientDisconnected()`.
Peers send frames, answer pings, close, or vanish without closing.

### Presence — what the session may expect of its endpoint

The abstract specification of the endpoint as `HostSession` sees it, without ready states other than
open, frames, pings or the relay: which sockets are attached (they have the endpoint's listeners, and
their 'close' event is to come), which of them are open and which has the slot, whose Hello has been
read, and whether the session believes in a client. `Promise` is what follows from it: while the
endpoint is up, a session that believes in a client has an attached socket that said Hello, whose
'close' event will end the belief, and the slot's socket is attached. `PairProgServer` implements it, and so does the
part of the endpoint that `HostSession` repeats; in both modules `Promised` is the refinement mapping.
For `PairProgServer` a socket is attached from `handleNewConnection()` to its 'close' event; for
`HostSession` `greeted` are the connections whose `onClientConnected()` has begun.

### PairProgClient — the client's endpoint

`socket`, `attempts`, `retryTimer`, `heartbeat` and `intentional` are the fields of the class,
`ws` and `lsn` belong to each socket, `told` is the last event the session saw, `retrying`
says whether the attempt under way was started by the timer (only then a failed handshake leads to
the next attempt). The host's frames, failing handshakes, timers and 'close' events are actions.
Frames received before a socket closed may be handled while it closes, but nothing follows the
host's Disconnect or a refusal (`final`): the host closes after sending them.
`host` says whether the host is there, is out of reach, or is gone behind a relay that still
accepts sockets: those open and restart the count of attempts (`client.ts:60`), so that such a client
reconnects without end. `Disconnect` comes at any time after `connect()`, also when another session's
failure calls it (`sessionManager.ts:275`). When it meets the handshake of a retry, `close()` rejects
the promise and the next retry is scheduled after the end (`client.ts:218-224`); `left` is "midway"
until such a retry has reached the host. `EndIsFinal` does not claim that stretch, and
`VanishedHostIsNoticed` claims only a host that is out of reach.

### HostSession — the life of a client's set-up

Each connection sends one Hello, so a connection names the invocation of `onClientConnected()`
that its Hello starts and the sync components this invocation creates. `pc` is where that
invocation is: waiting for the git extension ("git"), for the directory tree ("tree"), for the
open documents ("docs"), or over ("done", "failed" by an exception, "rejected"). `sync` says whose
components `this.cursorSync`, ... are, `routes` whose claims the router holds, `disposed` which
have been disposed of. The six components are created, registered and disposed of together, and
the claims are taken together, because nothing else runs in between. `welcomes`, `trees` and `perm`
record what each client was sent. The endpoint's part (`st`, `slot`, the 'close' events, the
heartbeat) repeats what `PairProgServer` says of LAN sockets, without frames in flight.

### SharedDocument — one file edited on both sides

Each side has an editor's `text`, a ShareDB document (`data` is `doc.data`), the batch of
`pendingOps`, the queue of remote ops and the guard. A text is the set of edits it contains, each
typed once; deleting is an edit like any other. What positions would show is kept in `misfit`: an
op was composed onto, submitted against, or placed in another text than the one it was made for.
`sub` is where `ensureDoc()` is: it waits for `subscribe()`, for `create()`, for the editor's
document ("opening"), for `applyEdit()` ("replacing"). `applyEdit()` takes two steps, so the user
may type in between, in which case it fails, as VS Code's does. `BackendTakes`, `Send` and `Put` stand
for ShareDB: requests of a side and answers to it arrive in order, a creation defeats a later one,
and the op that is taken reaches the other subscriber. `met` records what an edit met on its way:
another edit ("edit") or an `ensureDoc()` under way ("sync").

### SessionRegistry — a room of the relay and those who use it

A connection has two ends: `near` is the ready state of the relay's socket, `far` that of its
owner's. They learn of the end at different times, and that is what the hazards are made of.
`holder` is `room.channels.main`, `forwards` the listeners of `setupForwarding()`, `mainSocket` the
bridge's field; `stage` says which listeners the host's endpoint has put on a socket, `slot` is
`PairProgServer.client`. The actions are the relay's ('connection', 'close', removal), the host's
(first frame, 'close', heartbeat, stop, with the reopening of the channel inside the event) and
the clients'. Only the main channel is there; the ShareDB channel is opened, closed and kept by the
same code. LAN clients are left out, and so is the refusal SESSION_FULL of `adoptRelaySocket()`
(`PairProgServer` has it): where the endpoint could still have its slot taken when a first frame
comes, `HostReads` attaches the channel. A client's 'open' and the arrival of its Hello at the relay
are one step.

### ClientSession — the client's sessions and their manager

`current` is `SessionManager.clientSession`; `phase` says what each `ClientSession` object and its
endpoint are doing: "asking" (the dialogs of `joinSession()`), "secret" (`autoReconnect()` reads the
passphrase), "joining" / "rejoining" (the first attempt; "aborted" when `disconnect()` meets it),
"open", "retrying", "closing", "done", and "reviving" / "revived" for a retry that `disconnect()` did not
stop and the connection it may reach. `sender`, `vfsReadonly` and `folder` are the file system's,
`routes` the router's, `features` the registry's, `pending` the persisted reconnect: all sessions
share them. The host's messages come in any order and number while a socket is open or closing:
`OnConnected` (Welcome), `OnDirectoryTree` and `OnEditPermissionGranted` have no guard in the code,
and a set-up of the host that outlives its client sends to the next one (`TreeAfterWelcome` of
`HostSession`). An invocation of `onDirectoryTree()` is named by its session and a number; `step` says
at which of its two awaits it is ("save" before the folder is added, "features" in `activateAll()`),
and `OnDirectoryTree`, `AddFolder`, `ApplyReadonly` are what runs between them. `EndSession` is
`teardownSync()` with the file system's `teardown()`, wherever the code calls the two. `Stop` and
`Activate` are the extension host's end (a reload, a crash, the restart that adding a folder may
bring) and its next start.

Sessions, and two trees for one session, do get in each other's way in this code: a join that was
checked before its dialogs replaces a session that came up meanwhile, the late 'close' event of a
session that was left tears down what the next one has set up, and a second tree sets up again over
the components of the first. The model has all of this; `mishaps` records it, and the properties
say for which histories they claim something.

* "crossing": a session ends, is granted access or receives its tree while another uses the shared
  parts, or sets them up; or a session receives a tree when it has components already, or is at
  work on them. `setupSync()` then overwrites the components and throws in `register()`, whose claims
  the earlier ones hold. A reconnection that is sent its tree is of this kind.
* "relapse": a Welcome says something else about editing than the layers have been told. It reaches
  none of them (`clientSession.ts:161`): a grant that is taken back, or access given by a Welcome that
  comes after the set-up.
* "zombie": an invocation goes on after its session is over, and adds the folder.

`ReadonlyAsTold` is claimed without relapse and crossing, `ClaimsMatchComponents` without crossing
and zombies, `FolderHasKeeper` without zombies. What is left to `ReadonlyAsTold` is every order of
Welcome, tree and grants of one set-up, whatever await they fall into.

### The features: IntelliSense, FileContents, FileTree, GitStatus, Diagnostics, FollowMode, Whiteboard

Each is a module of its own with both sides of the feature and the frames between them.
`MCFeatures` puts them next to each other for one run. They share the connection but no state, so
a behaviour exercises one of them: `watched` says which. No interleaving of two features is looked at.

* **Requests** is the abstract specification of a request that is forwarded to the partner: refused
  at once, or waiting and then ended exactly once; the end of the session abandons what waits.
  **IntelliSense** (`sync/intellisenseSync.ts`) implements it: the table with its timers and
  cancellation listeners, the numbers that start from 1 in every session, the probe of the local
  completions, and the host's handlers, which survive the session they were started in.
  `Promised` is the refinement mapping.
* **FileContents** is `readFile()` of the virtual file system for one file: the shared request, its
  timer, entries that are replaced while calls wait. `robbed` has the calls whose resolver the
  timer of an *earlier* request removed: the code leaves them without an end, in spite of
  the comment at `pairProgFileSystemProvider.ts:370` ("to avoid hanging forever").
* **FileTree** (`sync/fileOpsSync.ts`, the tree operations of the file system, `buildDirectoryTree()`)
  has the host's files and the client's tree. A path is the sequence of its names. Creations are sent
  after two awaits, renamings may wait at the client. The disk changes by VS Code's gestures, which
  fire its events, and from outside (`ChangeOutside`: a terminal, git, another program), which fires
  none. `Hidden` is what the walk leaves out for the ignored patterns: it does not enter an ignored
  folder, while `isIgnored()` of a file inside one need not hold ("*.lock" does not match "a.lock/x").
  `lapse` marks the behaviours in which the code lets host and client drift apart:
  the walk leaves out a folder's contents it cannot read, or a link, without an error; an operation
  falls between the walk and the client's set-up; the disk changes from outside after the walk; an event
  concerns what is in an ignored folder without being ignored, or a renaming enters or leaves what
  is hidden; a deletion or renaming overtakes a creation; a renaming replaces a folder that is not
  empty; a frame overtakes a renaming in wait; entries left behind by the deletion of their folder
  come to light again. `TreeFollows` claims all the rest. A link that is created later is shown to the
  client as a file like any other; links are in the model only as what the walk leaves out.
* **GitStatus** (`sync/gitStatusSync.ts`, `ui/remoteGitQuickDiffController.ts`) has the binding to a
  repository, the snapshot with the merging of several changes to one path, and the diff's cache.
  `strayed` marks a content request that the host dropped, or answered after the snapshot that
  made the answer outdated; the cache may then be wrong until the next snapshot. A `show()` that fails
  for another reason than a missing file is treated as one of a missing file.
* **Diagnostics** (`sync/diagnosticsSync.ts`): versions of a file's problems, debounce, full snapshot.
* **FollowMode** (`sync/cursorSync.ts`): cursors, following, the jump with its await, the guard and
  its timer, the same on both sides (`Partners`). A session begins with the host's side set up; the
  client's is activated when the tree has come and has its routes some awaits later
  (`clientSession.ts:212-235`). The host's first cursor, or one that follows, may come before that and
  is dropped for good (`missed`): of what the client was not told, `FollowSettles` claims nothing until
  the next frame of its kind. A follower is claimed to be where its partner is if the jump that ended
  last went there (`led`); overlapping jumps may end in another order. Every file is one of the workspace.
* **Whiteboard** (`features/whiteboard`, `whiteboard.js`): per side a webview with undo stacks, and a
  store that outlives it. A board maps ids to what the entity looks like. Undo, redo, drag,
  delete, clear, panels that are hidden, closed or opened by the partner, full synchronisation,
  lost connections and new sessions. `contested` has the entities for which the code does not promise that
  both sides agree, and there are three kinds: those that both sides worked on at once, or a side and a
  full synchronisation; those that a panel worked on which still sends into a session that is over
  (`whiteboardPanel.ts:30`); and, when a connection comes back to a host whose board is empty, those that
  the client has then. The host sends nothing in that case (`index.ts:32`), so the client keeps for good
  what the host cleared, lost with its session, or never heard of. With anything on the host's board
  the full synchronisation brings a lost operation, and the claim covers it.

`MC*` modules instantiate these for TLC; `*_proof` modules hold the theorems.

## The runs

| Run | Shows | Instance |
|---|---|---|
| `server` | `SlotWillBeFreed`, `BeliefIsBacked`, `TerminatesOnlySilentPeers`, and under fairness `VanishedPeerLosesSlot` | two LAN sockets, one relay channel |
| `server_one_client` | violated: "Only allow one client at a time" (`server.ts:146`) | three LAN sockets |
| `server_hello_lost` | violated: "LAN connections still work" (`hostSession.ts:142`) | as `server` |
| `client` | `OneConnection`, `HeartbeatMatchesConnection`, `EndIsFinal`, and under fairness `VanishedHostIsNoticed` | three socket identities, the code's 15 attempts |
| `host_session` | `RoutedComponentsAreLive`, `RouterFollowsSync`, `ServedWhenSetupEnds`, `GrantReachesClient`, `ComponentsWillBeDisposed` | three connections |
| `host_tree_before_welcome` | violated: Welcome, then DirectoryTree (`clientSession.ts:38-39`) | three connections |
| `document` | `TurnsConverge`, `TurnsFit`, `NoEcho`, `GuardIsReleased`, and under fairness `EditsArrive` | two edits of the host's user, one of the client's |
| `document_conflict_free` | violated: "Conflict-free simultaneous editing" (`README.md:9`) | as `document` |
| `relay` | `RolesAreConnected`, `NothingOutlivesRoom`, and under fairness `DepartureReachesHost` | two connections of the host, two clients |
| `relay_next_client` | violated: "so the next client can join via relay" (`hostSession.ts:309`) | three connections of the host, two clients |
| `client_session` | `ReadonlyAsTold`, `ClaimsMatchComponents`, `FolderHasKeeper` | two sessions, three trees in all, one stop of the extension host |
| `features` | `AnswersFit`, `WaitersAreHeld`, `TreeFollows`, `StatusFollows`, `OriginalIsCurrent`, `DiagnosticsFollow`, `UncontestedEntitiesAgree`; that the request table implements `Requests` with its fairness (`RequestsAreSettled`), and under fairness `FollowSettles` | see the bounds |

Every property of a passing run has a mutant in its module (the operator just before the one it
replaces, marked "Mutant"): a plausible slip in the code under which TLC finds the property
violated.

### Bounds

* `LanSock`, `RelaySock`, `Conn`: a socket is used once, so their number bounds how many
  connections a behaviour has. The races concern a departing client, its successor, and a third
  that profits; three sockets show all of them. The theorems hold for any number.
* `MaxMissed` is `MAX_MISSED_PINGS` (5 in the code, 1 in the runs: the count only has to be able to
  be below, at and above it). The theorems hold for any number.
* `MaxOwed`, `MaxInbox` bound the pings a peer still owes and the frames in flight on a socket. One
  is enough for a late Pong or a Hello read while closing to meet the next event.
* `Sock` of the client are identities that are reused; one connection exists at a time
  (`OneConnection`), three leave room for a mutant to show the contrary.
* `MaxAttempts` is the code's 15.
* `HostEdit`, `ClientEdit`: two edits of one side are what it takes for a batch of several, a queue
  of two remote ops, or an edit while another is being applied; one of the other side gives it
  something to meet.
* `HostConn`, `ClientConn` bound how often the host opens a channel and how many clients come. Two and
  two let a client leave, be replaced, and its late 'close' meet its successor. When the host's
  connections are used up, `OpenChannels` leaves it without a channel; `NextClientCanJoin` speaks only
  of states in which it has one.
* `Session`, `MaxTree`, `MaxStop` of `client_session`: two sessions are what it takes for one to be left
  or replaced and its late events to meet the other, or to be resumed after a stop; `MaxTree` 2 allows
  each session two trees, and three altogether (`MoreTrees`): a second one in the same connection or
  after a reconnection, next to one of the other session. The theorems hold for any number.
* `features`: `Request` and `MaxSession` (2, 2) let a late answer meet the same number of the next
  session; `Reader` and `MaxEntry` (3, 2) a request, one that shares it, and one after its timer, with an
  entry that is replaced. `MCPath` has three folders with a file each, which is what moves, replacements
  and deletions of folders need, and the pattern matches one of the folders but not the file in it;
  `MaxFileOp` is 3 (create, rename, delete, by VS Code or from outside). `MCGitState` has
  paths that are in several groups, each in another order of priority, a renaming from outside of
  the workspace, and ignored paths and states; `MaxGitEvent` 2. `DiagFile` 2, `MaxDiagChange` 3:
  a problem that appears, changes and is solved. `CursorFile` 2, `MaxMove` 3: follow, move, leave.
  `Entity` 2, `MaxBoardOp` 3, `MaxHistory` 2 (`MAX_HISTORY` is 100 in the code): something drawn, then
  two of undo, redo, drag, clear, hide, disconnect; the third command drops off the stack.
* `host_session` uses symmetry over connections; it checks no liveness.

### Fairness

* Host endpoint: `HeartbeatTick` is weakly fair, because `setInterval` keeps firing while the
  server runs, and so is every socket's 'close' event: `ws` emits it for every closing socket, by
  its own close timeout at the latest. Nothing is assumed of peers, new connections or `Stop`.
* Client endpoint: the heartbeat and reconnect timers fire, a handshake with a host that is gone
  fails, and a closing socket closes. Nothing is assumed of the host or the user.
* `HostSession` has no liveness property.
* Documents: the flush timer fires, messages between a side and ShareDB arrive, and VS Code answers
  `openTextDocument()` and `applyEdit()`. Nothing is assumed of users or of the opening of files.
* Relay: the host's process reads what has arrived, and the closing of its own socket completes (by
  `ws`'s close timeout). Nothing is assumed of the relay, of clients or of the network between
  them: `DepartureReachesHost` starts when the relay has seen the client's socket close.

* IntelliSense: timers fire and VS Code answers `executeCompletionItemProvider`; nothing is assumed of
  the host or the network.
* Follow mode: timers fire, messages arrive and VS Code answers `showTextDocument()`. Nothing is
  assumed of the users, and the actions of theirs are bounded, so "when they stop" is part of every
  behaviour.

`CHECK_DEADLOCK FALSE` is set in every configuration: sockets are used once and sessions end, so
behaviours may stop.

## What the violated properties show

* **One client at a time.** A client's socket is closing, a second client takes the slot, the
  first one's 'close' event empties it (`server.ts:180` does not ask which socket closed), and a third
  client is accepted while the second is still attached.
* **LAN connections still work.** The endpoint listens from `hostSession.ts:103` on, the session listens
  to it from line 167 on, after the relay has answered. A Hello in between is lost: the client
  holds the slot and is never welcomed.
* **Welcome before DirectoryTree.** `onClientConnected()` sends to whoever has the slot: the tree
  built for a client that has gone reaches its successor first.

* **Conflict-free simultaneous editing.** A local edit waits in `pendingOps` for up to 50 ms. A remote
  op that arrives in between changes `doc.data`, but the waiting op is not transformed; `submitOp()`
  takes it as one made on the new text (`sharedbBridge.ts:209-218`), and its positions no longer fit.
  `TurnsConverge` and `TurnsFit` show that turns taken one after the other are safe.
* **So the next client can join via relay.** The host opens its next channel at once. If the relay has
  not yet seen the old one end (after the heartbeat's `terminate()`, or a connection that broke),
  `setSocket()` finds the role taken and refuses the new one (`sessionRegistry.ts:131`). No client ever
  used that socket, so its 'close' is nobody's disconnection and nothing opens the channel again.

`HostSession`'s `RouterFollowsSync` and `ServedWhenSetupEnds` are stated for behaviours in which
no two sockets were attached at once (`crowded`). Without that condition both fail: the set-up of the
second client replaces the components of the first without freeing their claims, the router
refuses every later registration, and no client is welcomed any more.

## What is proved

All theorems hold for every value of the constants, under the named assumptions of the modules
(null is no socket; LAN and relay sockets differ; the limits are natural numbers; those of the
features are listed below).

* `PairProgServer_proof`: `ServerTypes`, `SlotIsFreed`, `HostBeliefIsBacked`, `HeartbeatIsFair`.
  The inductive invariant adds `SilenceCounted` (the missed pings of the slot's client are no more than
  the pings sent to it since its last Pong, without which the heartbeat could be unfair) and
  `DeafHostSeesNothing` (before it listens the session believes in nobody).
  `EndpointImplementsPresence` is the refinement, step by step: most actions change nothing that the
  session sees, the others are one action of `Presence` each. It needs two facts more: that the
  listeners of a socket fit its ready state and its Hello (`ListenersMatch`), and that a Hello is
  under way once, and only before it was read (`OneHello`; without it a client could be announced
  twice). `PromiseIsKept` is proved of `Presence` alone, so `EndpointKeepsPromise` follows.
* `PairProgClient_proof`: `ClientTypes`, `OneConnectionHolds`, `HeartbeatMatches`, `EndIsFinalHolds`.
  The inductive invariant says how listeners and ready state go together (`ListenersMatch`), that
  nothing is left while a reconnection waits (`NothingElsePending`), and that nothing is under way
  once it is over (`OverIsOver`). That holds for a disconnection at any time but the handshake of a
  retry, which the definition of `Over` leaves out until the retry has reached the host.
* `HostSession_proof`: `HostTypes`, `RoutesAreLive`, `DisposalIsAhead`, `GrantIsHeard`,
  `RouterFollows`, `SetupServes`. The argument: a set of components is disposed of only when it leaves
  `sync`, and registered only from `sync` (`InUseIsLive`); components imply a 'close' event to come
  (`ComponentsWillBeDisposed`), so without two attached sockets a Hello finds none
  (`RouterFreeForHello`); hence its set-up reaches the Welcome, or another invocation has sent it
  already (`ServiceUnderWay`), and nobody is welcomed twice while the claims are held
  (`WelcomedOnce`). `SessionImplementsPresence` and `SessionKeepsPromise`: what this module repeats of
  the endpoint is within what `Presence` allows, from the same invariant.
* `SharedDocument_proof`: `DocumentTypes`, `GuardComesDown`, `NothingEchoes`, `TurnTakersFit`,
  `TurnTakersConverge`, `DocumentsConverge`. The inductive invariant describes the exchange with
  ShareDB (`Exchange`: which requests and answers may be under way in each phase of `ensureDoc()`; the
  type invariant needs it, because a document that is destroyed must not be filled by a late
  answer). `Copies` says that what is on the way to a side makes its document the backend's; so
  the documents agree once quiet, whatever happened (`DocumentsConverge`), and the editors alone can
  drift. For echoes the invariant adds that a side applies one edit at a time while nothing has been
  met (`OneEditAtATime`: otherwise the first to end takes the guard down under the second), and that
  what it applies is never heard (`BridgeUnheard`). For the turns it adds that only one side then
  has work under way (`TakingTurns`) and that each editor comes to show its document (`EditorsFollow`).
* `SessionRegistry_proof`: `RegistryTypes`, `RightEndsJoined`, `RoomLeavesNobody`. Both safety
  properties follow from `OpenIsHeld` (an open socket is the one its role holds, in a listed room)
  and `OpenIsForwarded` (an open host and an open client are forwarded to each other); the second is
  inductive only with the first, which says that a replaced socket is no longer open.
* `Features_proof` has five features.
  *FileContents*: `ReadTypes`, `ReadersAreHeld`; `WaitersAreHeld` is inductive once the types are known.
  *IntelliSense*: `IsenseTypes`, `AnswersFitRequests`, and `TableImplementsRequests`: for any number of
  requests and sessions every behaviour of the table is one of `Requests`, step by step. The
  invariant behind it says that the table has exactly the requests of this session without a result,
  each with its timer (`TableIsComplete`), and that numbers are used once per session (`Numbered`).
  The fairness of `Requests` is only model-checked.
  *Diagnostics*: `DiagnosticsTypes`, `ProblemsFollow`. What the client shows of a file, or will show
  after the last frame about it, is wrong only if the file is pending and the debounce runs, or if it
  has problems and the full snapshot is still to be sent (`FileFollows`).
  *FollowMode*: `FollowTypes`, `GuardComesDown`, `FollowRest`. The last frame of a side on its way, or
  what the partner knows if there is none, says where that side is and whether it follows
  (`PartnerLearns`); a raised guard has a jump or the timer behind it (`GuardIsHeld`). With
  `FollowRest`, what liveness adds in `FollowSettles` is only that rest is reached. The invariant speaks
  of a client from the moment it has its routes, and of what it was told since (`NeverTold`).
  *GitStatus*: `GitStatusTypes`, `StatusShown`, `DiffsAreCurrent`. The snapshot is a fold over the
  changes of a repository; that it keeps of each path the change of the highest priority is shown by
  induction on the changes taken (`EntriesFit`).
* `Replicas_proof` has the two features of which both sides have a copy, and all of them together.
  *FileTree*: `FileTreeTypes`, `TreeArrives`. `TreeFollows` speaks of the moment when everything has
  arrived, so its invariant has to say what the frames on their way will do. `Fits` relates a tree to the
  host's files, up to the creations not sent yet and the renamings in wait; `Leads` says that
  every way of handling the queue ends in a tree that fits; `Held` is the client's tree with its
  renamings done. A step at the host extends the queue, one at the client takes its first frame, and
  the lemmas say that creations, deletions and renamings keep `Fits` (`FitsCreated`, `FitsDeleted`,
  `FitsRenamed`) and commute with the renamings in wait (`HeldCreated`, ...). A renaming that replaces
  a file or an empty folder, and a change from outside before the walk, are steps of their own.
  *Whiteboard*: `BoardTypesHold`, `EntitiesAgree`. For every entity that is not contested, one side
  works on it at a time, and not before it has been shown what there is (`InTurn`); the messages on the
  connection turn the partner's store into one's own (`StoresMeet`); and the store comes to be what its
  webview shows, but for a drag, or the webview what the store is (`WebviewMeets`). `Brings` is what a
  queue makes of one entity. A webview that waits for its full synchronisation is the hard case.
  *Together*: `FeaturesTogether` (a behaviour of all features is one of each), `FeaturesTypes`.
* `ClientSession_proof`: `ClientTypes`, `ReadonlyIsAsTold`, `ClaimsAreMatched`, `FolderIsKept`. None of
  the three properties is inductive. `History` ties the names of invocations to what their sessions
  have received; `Once` says that a session has one set-up at a time; `Alone` that whoever has set up
  the shared parts, or is at an await on the way to it, is alone. The last two hold only in the
  histories without crossings, so the proof of each step has to show first that the step itself was none.

Every invariant of a passing run is stated by a theorem.

The assumptions on the constants are these. What the code gives: paths are sequences of names without
the root, and the patterns match some of them (`PathAssumption`; nothing is assumed of what is in an
ignored folder); a repository's state is a sequence of changes with a path and one of the API's
statuses (`GitStateAssumption`). About the instance: what is below a folder may be below the one it
is renamed to (`RenamingAssumption`: the set of paths is closed under renamings); a board has finitely
many entities (`BoardAssumption`); the bounds are natural numbers (`FileOpAssumption`,
`GitEventAssumption`, `DiagAssumption`, `MoveAssumption`).

Only model-checked: the liveness properties (`VanishedPeerLosesSlot`, `VanishedHostIsNoticed`,
`EditsArrive`, `DepartureReachesHost`, `FollowSettles`, and `RequestsAreSettled` with the fairness of
`Requests`), because the prover does not handle fairness and ENABLED, and the violations, which
are counterexamples.

## Not modelled

Contents of messages, logging, notices and layout; TLS and compression; the passphrase beyond the
fact that the host may turn a client away; errors of `send()`. Of the documents: `removeDoc()`,
`dispose()`, files that one side does not have, and the disk. Of the relay: the HTTP interface, codes
and tokens, and the ShareDB channel. Of the client's session: the opening of the host's files. Of
the features: a client without the virtual file system, tabs and contents under file operations, the
awaits inside of `buildDirectoryTree()` (the walk is one reading of the disk, what happens during it
counts as happening after it), links but for what the walk leaves out, a `show()` of git that fails
though the file is there, `stat()` and change events, decorations, positions inside of a file, cursors on the whiteboard,
editing a text on it by double-click, operations on several entities as one command.

Not in one model: both endpoints with the network between them. `PairProgServer` and
`PairProgClient` each take the other side as an environment that may do anything the protocol
allows; the hazards at `client.ts:60` and `client.ts:173`, which are about how long a client tries,
are open for that reason: `PairProgClient` shows the endless reconnection through a relay without a
host, and no property calls it right or wrong. Chat, the terminal, saving, the beacon, invite codes and the user
interface have next to no state of their own; each part with status `not_modelled` in
`PROJECT.json` carries its reason.

## Plan

Done: the endpoints, with `Presence` above the host's, the host session, shared documents, the
relay's room, the client's sessions with the manager, the features. What is left, most important first:

1. `HostSession` over `Presence`: the two modules that implement it are each shown to stay within it,
   but `HostSession` allows less than `Presence` does (no relay), so that its properties hold next to
   `PairProgServer` with relay channels is still to be shown.
2. Host, relay and client in one model, for the two open hazards.
