---------------------------- MODULE SharedDocument ----------------------------
(***************************************************************************)
(* One file edited on both sides (src/sync/sharedbBridge.ts, with the      *)
(* guard of src/sync/remoteOpGuard.ts).  Each side has the editor's text   *)
(* and a ShareDB document; the bridge carries the editor's changes to the  *)
(* document, 50 ms later, and the document's remote ops to the editor, one *)
(* after the other.                                                        *)
(*                                                                         *)
(* A text is the set of edits it contains.  ShareDB orders and transforms  *)
(* ops (external): its documents hold every op they were told of.  What    *)
(* it cannot do is repair an op that is applied to another text than the   *)
(* one it was made for, because its positions are then wrong: `misfit`     *)
(* records that this has happened.                                         *)
(***************************************************************************)
EXTENDS Sequences

CONSTANTS
    HostEdit,    \* what the host's user types, each once
    ClientEdit   \* what the client's user types

Edit == HostEdit \cup ClientEdit

ASSUME EditAssumption == HostEdit \cap ClientEdit = {}

Side == {"host", "client"}

Other(s) == IF s = "host" THEN "client" ELSE "host"

EditOf(s) == IF s = "host" THEN HostEdit ELSE ClientEdit

VARIABLES
    text,      \* the editor's document
    made,      \* history: edits that were typed
    readonly,  \* the client's bridge is read-only
    sub,       \* where ensureDoc() is; "off": docs does not have the file
    held,      \* text ensureDoc() carries over its awaits
    data,      \* doc.data
    batch,     \* pendingOps, with the flush timer running
    base,      \* the text the first edit of the batch was made on
    queue,     \* opQueues: remote ops not yet applied to the editor
    placing,   \* the first of them is being applied
    opFrom,    \* ... and was placed in this text
    syncFrom,  \* the text syncLocalDocument() is replacing
    guard,     \* remoteOpGuard has the file
    exists,    \* the backend has the document
    server,    \* ... and this is its text
    known,     \* sides subscribed to it
    up,        \* from a side to the backend
    down,      \* from the backend to a side
    met,       \* history: what edits have met on their way
    misfit     \* history: an op was applied to a text it was not made for

vars == <<text, made, readonly, sub, held, data, batch, base, queue, placing, opFrom,
          syncFrom, guard, exists, server, known, up, down, met, misfit>>

Text == SUBSET Edit
Request == [kind : {"sub", "create", "op"}, edits : Text]
Answer == [kind : {"none", "snap", "ack", "nack", "op"}, edits : Text]
RemoteOp == [edits : Text, on : Text]

TypeOK ==
    /\ text \in [Side -> Text]
    /\ made \in Text
    /\ readonly \in BOOLEAN
    /\ sub \in [Side -> {"off", "subscribing", "creating", "opening", "replacing", "ready"}]
    /\ held \in [Side -> Text]
    /\ data \in [Side -> Text]
    /\ batch \in [Side -> Text]
    /\ base \in [Side -> Text]
    /\ queue \in [Side -> Seq(RemoteOp)]
    /\ placing \in [Side -> BOOLEAN]
    /\ opFrom \in [Side -> Text]
    /\ syncFrom \in [Side -> Text]
    /\ guard \in [Side -> BOOLEAN]
    /\ exists \in BOOLEAN
    /\ server \in Text
    /\ known \in SUBSET Side
    /\ up \in [Side -> Seq(Request)]
    /\ down \in [Side -> Seq(Answer)]
    /\ met \in SUBSET {"sync", "edit"}
    /\ misfit \in BOOLEAN
    /\ \A s \in Side : sub[s] = "off" => data[s] = {} /\ s \notin known

Init ==
    /\ text = [s \in Side |-> {}]
    /\ made = {}
    /\ readonly = TRUE
    /\ sub = [s \in Side |-> "off"]
    /\ held = [s \in Side |-> {}]
    /\ data = [s \in Side |-> {}]
    /\ batch = [s \in Side |-> {}]
    /\ base = [s \in Side |-> {}]
    /\ queue = [s \in Side |-> << >>]
    /\ placing = [s \in Side |-> FALSE]
    /\ opFrom = [s \in Side |-> {}]
    /\ syncFrom = [s \in Side |-> {}]
    /\ guard = [s \in Side |-> FALSE]
    /\ exists = FALSE
    /\ server = {}
    /\ known = {}
    /\ up = [s \in Side |-> << >>]
    /\ down = [s \in Side |-> << >>]
    /\ met = {}
    /\ misfit = FALSE

-------------------------------------------------------------------------------
(* The editor's changes *)

Send(s, kind, edits) ==
    up' = [up EXCEPT ![s] = Append(@, [kind |-> kind, edits |-> edits])]

Answers(s, kind) == \E i \in DOMAIN down[s] : down[s][i].kind = kind

\* doc.type is set
Typed(s) == sub[s] \in {"creating", "opening", "replacing", "ready"}

\* Mutant: changes made by the bridge itself are heard.
HearsAll(s) == ~(s = "client" /\ readonly) /\ Typed(s)

\* onLocalDocumentChange() goes on with the change.
Hears(s) == ~(s = "client" /\ readonly) /\ ~guard[s] /\ Typed(s)

\* onLocalDocumentChange(): scheduleOp() composes the change onto the batch.
OnLocalDocumentChange(s, edits) ==
    IF Hears(s)
      THEN /\ batch' = [batch EXCEPT ![s] = @ \cup edits]
           /\ base' = [base EXCEPT ![s] = IF batch[s] = {} THEN text[s] ELSE @]
      ELSE UNCHANGED <<batch, base>>

\* The batch was made on a text that has changed under it.
ComposesMisfit(s) == Hears(s) /\ batch[s] # {} /\ text[s] # base[s] \cup batch[s]

\* Nothing of the other side's work is on its way to s's editor.
Settled(s) ==
    /\ queue[s] = << >>
    /\ ~Answers(s, "op")
    /\ batch[Other(s)] = {}
    /\ \A i \in DOMAIN up[Other(s)] : up[Other(s)][i].kind # "op"

\* The user types.  What it meets is recorded: the other side's work that is
\* still on its way, or this side's own ensureDoc().
Types(s, e) ==
    /\ e \in EditOf(s) \ made
    /\ s = "client" => ~readonly
    /\ made' = made \cup {e}
    /\ text' = [text EXCEPT ![s] = @ \cup {e}]
    /\ OnLocalDocumentChange(s, {e})
    /\ misfit' = (misfit \/ ComposesMisfit(s))
    /\ met' = met \cup (IF Settled(s) THEN {} ELSE {"edit"})
                  \cup (IF sub[s] \in {"off", "ready"} THEN {} ELSE {"sync"})
    /\ UNCHANGED <<readonly, sub, held, data, queue, placing, opFrom, syncFrom, guard,
                   exists, server, known, up, down>>

\* Mutant: the batch is submitted and kept.
FlushKeeping(s) == UNCHANGED <<batch, base>>

TakeBatch(s) ==
    /\ batch' = [batch EXCEPT ![s] = {}]
    /\ base' = [base EXCEPT ![s] = {}]

\* The flush timer.  Without a document the batch is dropped.
FlushOp(s) ==
    /\ batch[s] # {}
    /\ TakeBatch(s)
    /\ IF Typed(s)
         THEN /\ data' = [data EXCEPT ![s] = @ \cup batch[s]]
              /\ Send(s, "op", batch[s])
              /\ misfit' = (misfit \/ base[s] # data[s])
         ELSE UNCHANGED <<data, up, misfit>>
    /\ UNCHANGED <<text, made, readonly, sub, held, queue, placing, opFrom, syncFrom, guard,
                   exists, server, known, down, met>>

\* setReadonly(false) on the client
GrantEditAccess ==
    /\ readonly
    /\ readonly' = FALSE
    /\ UNCHANGED <<text, made, sub, held, data, batch, base, queue, placing, opFrom, syncFrom,
                   guard, exists, server, known, up, down, met, misfit>>

-------------------------------------------------------------------------------
(* ensureDoc() *)

\* The file is opened: subscribe(), with the editor's text at hand in case
\* the document does not exist yet.
EnsureDoc(s) ==
    /\ sub[s] = "off"
    /\ sub' = [sub EXCEPT ![s] = "subscribing"]
    /\ held' = [held EXCEPT ![s] = text[s]]
    /\ Send(s, "sub", {})
    /\ UNCHANGED <<text, made, readonly, data, batch, base, queue, placing, opFrom, syncFrom,
                   guard, exists, server, known, down, met, misfit>>

Answered(s, kind) ==
    /\ down[s] # << >> /\ Head(down[s]).kind = kind
    /\ down' = [down EXCEPT ![s] = Tail(@)]

\* It exists: the snapshot is the document, and the text to be synchronised.
SnapshotArrives(s) ==
    /\ Answered(s, "snap")
    /\ sub' = [sub EXCEPT ![s] = "opening"]
    /\ data' = [data EXCEPT ![s] = Head(down[s]).edits]
    /\ held' = [held EXCEPT ![s] = Head(down[s]).edits]
    /\ UNCHANGED <<text, made, readonly, batch, base, queue, placing, opFrom, syncFrom, guard,
                   exists, server, known, up, met, misfit>>

\* It does not: doc.create(), which takes effect here at once.
CreatesDocument(s) ==
    /\ Answered(s, "none")
    /\ sub' = [sub EXCEPT ![s] = "creating"]
    /\ data' = [data EXCEPT ![s] = held[s]]
    /\ Send(s, "create", held[s])
    /\ UNCHANGED <<text, made, readonly, held, batch, base, queue, placing, opFrom, syncFrom,
                   guard, exists, server, known, met, misfit>>

\* The creation is acknowledged: go on with doc.data as it is now.
CreationDone(s) ==
    /\ Answered(s, "ack")
    /\ sub' = [sub EXCEPT ![s] = "opening"]
    /\ held' = [held EXCEPT ![s] = data[s]]
    /\ UNCHANGED <<text, made, readonly, data, batch, base, queue, placing, opFrom, syncFrom,
                   guard, exists, server, known, up, met, misfit>>

\* Mutant: the document of a failed creation stays.
KeepDocument(s) == UNCHANGED <<data, known>>

DestroyDocument(s) ==
    /\ data' = [data EXCEPT ![s] = {}]
    /\ known' = known \ {s}

\* The other side was faster: the document is destroyed, the file may be
\* opened again.
CreationFails(s) ==
    /\ down[s] # << >> /\ Head(down[s]).kind = "nack"
    /\ down' = [down EXCEPT ![s] = << >>]
    /\ sub' = [sub EXCEPT ![s] = "off"]
    /\ held' = [held EXCEPT ![s] = {}]
    /\ up' = [up EXCEPT ![s] = << >>]
    /\ DestroyDocument(s)
    /\ UNCHANGED <<text, made, readonly, batch, base, queue, placing, opFrom, syncFrom, guard,
                   exists, server, met, misfit>>

\* Mutant: only an empty document is synchronised.
SyncNeededIfEmpty(s) == text[s] = {} /\ held[s] # {}

SyncNeeded(s) == text[s] # held[s]

\* syncLocalDocument() has the editor's document: nothing to do, or replace
\* all of it, under the guard.
SyncOpened(s) ==
    /\ sub[s] = "opening"
    /\ IF SyncNeeded(s)
         THEN /\ sub' = [sub EXCEPT ![s] = "replacing"]
              /\ syncFrom' = [syncFrom EXCEPT ![s] = text[s]]
              /\ guard' = [guard EXCEPT ![s] = TRUE]
              /\ UNCHANGED held
         ELSE /\ sub' = [sub EXCEPT ![s] = "ready"]
              /\ held' = [held EXCEPT ![s] = {}]
              /\ UNCHANGED <<syncFrom, guard>>
    /\ UNCHANGED <<text, made, readonly, data, batch, base, queue, placing, opFrom, exists, server,
                   known, up, down, met, misfit>>

\* Mutant: an edit that fails leaves the guard up.
ReleaseOnSuccess(s) ==
    guard' = [guard EXCEPT ![s] = placing[s] /\ text[s] # opFrom[s]]

\* The end of remoteOpGuard.run(), whatever became of the edit.
ReleaseGuard(s) == guard' = [guard EXCEPT ![s] = FALSE]

\* applyEdit() succeeds only on the text it was computed for.  The change
\* event comes while the guard is up, unless an overlapping edit took it down.
SyncApplied(s) ==
    /\ sub[s] = "replacing"
    /\ IF text[s] = syncFrom[s]
         THEN /\ text' = [text EXCEPT ![s] = held[s]]
              /\ OnLocalDocumentChange(s, held[s])
              /\ misfit' = (misfit \/ ComposesMisfit(s))
         ELSE UNCHANGED <<text, batch, base, misfit>>
    /\ sub' = [sub EXCEPT ![s] = "ready"]
    /\ held' = [held EXCEPT ![s] = {}]
    /\ syncFrom' = [syncFrom EXCEPT ![s] = {}]
    /\ ReleaseGuard(s)
    /\ UNCHANGED <<made, readonly, data, queue, placing, opFrom, exists, server, known, up, down, met>>

-------------------------------------------------------------------------------
(* Remote ops *)

\* doc.on("op"): the document has the op, the editor's turn is queued.
OpArrives(s) ==
    /\ Answered(s, "op")
    /\ LET edits == Head(down[s]).edits IN
        /\ data' = [data EXCEPT ![s] = @ \cup edits]
        /\ queue' = [queue EXCEPT ![s] = Append(@, [edits |-> edits, on |-> data[s]])]
    /\ met' = met \cup (IF sub[s] = "ready" THEN {} ELSE {"sync"})
    /\ UNCHANGED <<text, made, readonly, sub, held, batch, base, placing, opFrom, syncFrom,
                   guard, exists, server, known, up, misfit>>

\* onRemoteOp() has the editor's document and places the op in it.
PlaceRemoteOp(s) ==
    /\ queue[s] # << >> /\ ~placing[s]
    /\ placing' = [placing EXCEPT ![s] = TRUE]
    /\ opFrom' = [opFrom EXCEPT ![s] = text[s]]
    /\ guard' = [guard EXCEPT ![s] = TRUE]
    /\ UNCHANGED <<text, made, readonly, sub, held, data, batch, base, queue, syncFrom,
                   exists, server, known, up, down, met, misfit>>

\* Mutant: the queue ends with the op that is done.
DropQueue(s) == queue' = [queue EXCEPT ![s] = << >>]

NextInQueue(s) == queue' = [queue EXCEPT ![s] = Tail(@)]

\* applyEdit() is over, as in SyncApplied.
RemoteOpApplied(s) ==
    /\ placing[s]
    /\ LET op == Head(queue[s]) IN
        IF text[s] = opFrom[s]
          THEN /\ text' = [text EXCEPT ![s] = @ \cup op.edits]
               /\ OnLocalDocumentChange(s, op.edits)
               /\ misfit' = (misfit \/ text[s] # op.on \/ ComposesMisfit(s))
          ELSE UNCHANGED <<text, batch, base, misfit>>
    /\ NextInQueue(s)
    /\ placing' = [placing EXCEPT ![s] = FALSE]
    /\ opFrom' = [opFrom EXCEPT ![s] = {}]
    /\ ReleaseGuard(s)
    /\ UNCHANGED <<made, readonly, sub, held, data, syncFrom, exists, server, known, up, down, met>>

-------------------------------------------------------------------------------
(* The ShareDB backend *)

Put(f, s, kind, edits) ==
    [f EXCEPT ![s] = Append(@, [kind |-> kind, edits |-> edits])]

\* A creation also reaches the other subscriber and defeats its own, which
\* ShareDB then never sends, nor what was to follow it.
BackendTakes(s) ==
    /\ up[s] # << >> /\ ~Answers(s, "nack")
    /\ up' = [up EXCEPT ![s] = Tail(@)]
    /\ LET req == Head(up[s]) IN
        \/ /\ req.kind = "sub"
           /\ known' = known \cup {s}
           /\ down' = IF exists THEN Put(down, s, "snap", server) ELSE Put(down, s, "none", {})
           /\ UNCHANGED <<exists, server>>
        \/ /\ req.kind = "create"
           /\ exists' = TRUE
           /\ server' = req.edits
           /\ down' = LET acked == Put(down, s, "ack", {}) IN
                      IF Other(s) \in known THEN Put(acked, Other(s), "nack", {})
                                            ELSE acked
           /\ UNCHANGED known
        \/ /\ req.kind = "op"
           /\ server' = server \cup req.edits
           /\ down' = IF Other(s) \in known THEN Put(down, Other(s), "op", req.edits)
                                            ELSE down
           /\ UNCHANGED <<exists, known>>
    /\ UNCHANGED <<text, made, readonly, sub, held, data, batch, base, queue, placing, opFrom,
                   syncFrom, guard, met, misfit>>

-------------------------------------------------------------------------------
Bridge(s) ==
    \/ FlushOp(s) \/ SnapshotArrives(s) \/ CreatesDocument(s) \/ CreationDone(s)
    \/ CreationFails(s) \/ SyncOpened(s) \/ SyncApplied(s) \/ OpArrives(s)
    \/ PlaceRemoteOp(s) \/ RemoteOpApplied(s)

Next ==
    \/ GrantEditAccess
    \/ \E s \in Side :
        \/ \E e \in EditOf(s) : Types(s, e)
        \/ EnsureDoc(s) \/ Bridge(s) \/ BackendTakes(s)

Spec == Init /\ [][Next]_vars

\* Timers fire, messages arrive, and VS Code answers: everything but the
\* users and the opening of files.
Fairness == \A s \in Side : WF_vars(Bridge(s)) /\ WF_vars(BackendTakes(s))

FairSpec == Spec /\ Fairness

-------------------------------------------------------------------------------
(* Properties *)

Quiet ==
    \A s \in Side :
        /\ sub[s] = "ready"
        /\ batch[s] = {} /\ queue[s] = << >> /\ up[s] = << >> /\ down[s] = << >>

\* Sides that take turns agree: once everything has arrived, both editors
\* show what the backend holds, unless an edit was typed while the other's
\* was on its way, or met an ensureDoc() under way.
TurnsConverge ==
    (Quiet /\ met = {}) => \A s \in Side : text[s] = server /\ data[s] = server

\* Under the same condition every op, through batches, document and queue,
\* is applied to the text it was made for.
TurnsFit == met = {} => ~misfit

\* The bridge never sends back what it applied itself: under the same
\* condition a batch holds only what this side's user typed.
NoEcho == met = {} => \A s \in Side : batch[s] \subseteq EditOf(s)

\* Whether an edit of the bridge succeeds, fails or overlaps with another, the
\* guard comes down with it: the user's typing is not ignored for ever.
GuardIsReleased ==
    \A s \in Side : guard[s] => placing[s] \/ sub[s] = "replacing"

\* An edit made while the other side is set up arrives in its editor.
EditsArrive ==
    \A s \in Side : \A e \in EditOf(s) :
        (e \in batch[s] /\ sub[Other(s)] = "ready")
            ~> (e \in text[Other(s)] \/ met # {})

\* "Conflict-free simultaneous editing" (README.md:9): with both sides set
\* up, simultaneous edits are applied to the texts they were made for.
ConflictFree == "sync" \notin met => ~misfit
===============================================================================
