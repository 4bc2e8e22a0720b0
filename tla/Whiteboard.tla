------------------------------ MODULE Whiteboard ------------------------------
(***************************************************************************)
(* The whiteboard (src/features/whiteboard, and the entity operations of   *)
(* src/media/webviews/whiteboard/whiteboard.js).  Each side has a webview  *)
(* with its own entities and undo stacks, and a store in the extension     *)
(* that outlives the webview.  An operation changes the webview at once    *)
(* and travels through the store, the partner's store and the partner's    *)
(* webview; nothing orders the two sides.                                  *)
(*                                                                         *)
(* A board maps every id to what the entity looks like, 0 where there is   *)
(* none.  Operations on several selected entities are taken one by one.    *)
(***************************************************************************)
EXTENDS Naturals, FiniteSets, SequencesExt, Partners

CONSTANTS
    Entity,        \* ids
    MaxBoardOp,    \* what the two users do
    MaxHistory     \* MAX_HISTORY

ASSUME BoardAssumption == IsFiniteSet(Entity) /\ MaxBoardOp \in Nat /\ MaxHistory \in Nat

VARIABLES
    web,           \* the entities of the webview
    store,         \* WhiteboardFeature.entities, which the panel shares
    panel,         \* "none", "hidden" or "up"
    webOut, webIn, \* messages from and to the webview
    boardNet,      \* frames to the partner
    undoStack, redoStack,
    dragging,      \* the entity that is being dragged, as a set
    dragFrom,      \* ... and what it looked like
    drawn,         \* ids that have been used
    boardOps,      \* what the users have done
    linked,        \* the connection
    rejoined,      \* the last connection began a session of its own
    muted,         \* who has a panel that sends through a session that is over
    contested      \* history: ids that both sides, or a full sync, worked on
                   \* at the same time; that a muted panel worked on; or that
                   \* the client had when it came back to an empty host's board

boardVars == <<web, store, panel, webOut, webIn, boardNet, undoStack, redoStack, dragging,
               dragFrom, drawn, boardOps, linked, rejoined, muted, contested>>

boardLink == <<linked, rejoined, muted>>

Look == 1 .. 2

Board == [Entity -> {0} \cup Look]

Blank == [i \in Entity |-> 0]

Command == [type : {"add", "delete", "update"}, id : Entity, before : {0} \cup Look,
            after : {0} \cup Look] \cup [type : {"clear"}, ents : Board]

BoardTypeOK ==
    /\ web \in [Party -> Board] /\ store \in [Party -> Board]
    /\ panel \in [Party -> {"none", "hidden", "up"}]
    /\ \A s \in Party :
        /\ \A q \in {undoStack[s], redoStack[s]} : \A k \in DOMAIN q : q[k] \in Command
        /\ panel[s] # "up" => web[s] = Blank /\ webIn[s] = << >> /\ dragging[s] = {}
    /\ dragging \in [Party -> SUBSET Entity] /\ dragFrom \in [Party -> {0} \cup Look]
    /\ drawn \subseteq Entity /\ contested \subseteq Entity
    /\ boardOps \in 0 .. MaxBoardOp /\ linked \in BOOLEAN /\ rejoined \in BOOLEAN
    /\ muted \in SUBSET Party /\ \A s \in muted : panel[s] # "none"

BoardInit ==
    /\ web = [s \in Party |-> Blank] /\ store = [s \in Party |-> Blank]
    /\ panel = [s \in Party |-> "none"]
    /\ webOut = [s \in Party |-> << >>] /\ webIn = [s \in Party |-> << >>]
    /\ boardNet = [s \in Party |-> << >>]
    /\ undoStack = [s \in Party |-> << >>] /\ redoStack = [s \in Party |-> << >>]
    /\ dragging = [s \in Party |-> {}] /\ dragFrom = [s \in Party |-> 0]
    /\ drawn = {} /\ boardOps = 0
    /\ linked = TRUE /\ rejoined = FALSE /\ muted = {} /\ contested = {}

-------------------------------------------------------------------------------
(* Messages *)

Add(i, v) == [op |-> "add", id |-> i, look |-> v]
Update(i, v) == [op |-> "update", id |-> i, look |-> v]
Delete(i) == [op |-> "delete", id |-> i]
Clear == [op |-> "clear"]
FullSync(b) == [op |-> "full", ents |-> b]
RequestFullSync == [op |-> "request"]

\* What the webview and the store make of a message.
Apply(m, b) ==
    CASE m.op = "add" -> [b EXCEPT ![m.id] = m.look]
      [] m.op = "update" -> IF b[m.id] = 0 THEN b ELSE [b EXCEPT ![m.id] = m.look]
      [] m.op = "delete" -> [b EXCEPT ![m.id] = 0]
      [] m.op = "clear" -> Blank
      [] m.op = "full" -> m.ents

Concerns(m, i) == m.op \in {"clear", "full"} \/ (m.op # "request" /\ m.id = i)

\* Something that the partner did to i, or a full sync, has not reached s.
Unsettled(s, i) ==
    \/ i \in dragging[Partner(s)]
    \/ \E q \in {webOut[Partner(s)], boardNet[Partner(s)], webIn[s]} :
        \E k \in DOMAIN q : Concerns(q[k], i)
    \/ RequestFullSync \in {webOut[s][k] : k \in DOMAIN webOut[s]}

UserDraws(s, ids) ==
    /\ panel[s] = "up"
    /\ boardOps < MaxBoardOp /\ boardOps' = boardOps + 1
    /\ contested' = contested \cup {i \in ids : Unsettled(s, i) \/ s \in muted}
    /\ UNCHANGED <<store, panel, webIn, boardNet, boardLink>>

\* The webview does something and posts it.
Post(s, ms, b) ==
    /\ web' = [web EXCEPT ![s] = b]
    /\ webOut' = [webOut EXCEPT ![s] = @ \o ms]

-------------------------------------------------------------------------------
(* The webview *)

\* pushUndo()
PushUndo(s, cmd) ==
    LET stack == Append(undoStack[s], cmd)
    IN  /\ undoStack' = [undoStack EXCEPT ![s] =
                          IF Len(stack) > MaxHistory THEN Tail(stack) ELSE stack]
        /\ redoStack' = [redoStack EXCEPT ![s] = << >>]

KeepStacks == UNCHANGED <<undoStack, redoStack>>

KeepDrag == UNCHANGED <<dragging, dragFrom>>

\* Ids are as good as each other: a new entity has the first unused one.
FreshId(i) == i \notin drawn /\ i = CHOOSE j \in Entity \ drawn : TRUE

\* finishDrag() with a drawing tool, a text, a pasted entity
Draw(s, i) ==
    /\ UserDraws(s, {i})
    /\ FreshId(i) /\ drawn' = drawn \cup {i}
    /\ PushUndo(s, [type |-> "add", id |-> i, before |-> 0, after |-> 1])
    /\ Post(s, <<Add(i, 1)>>, [web[s] EXCEPT ![i] = 1])
    /\ KeepDrag

\* pointerdown on an entity and pointermove: it changes here only.
Drag(s, i, v) ==
    /\ UserDraws(s, {i})
    /\ web[s][i] # 0 /\ dragging[s] = {}
    /\ web' = [web EXCEPT ![s][i] = v]
    /\ dragging' = [dragging EXCEPT ![s] = {i}]
    /\ dragFrom' = [dragFrom EXCEPT ![s] = web[s][i]]
    /\ KeepStacks /\ UNCHANGED <<webOut, drawn>>

\* finishDrag() with the select tool posts what the entity looks like now.
FinishDrag(s) ==
    /\ dragging[s] # {}
    /\ dragging' = [dragging EXCEPT ![s] = {}]
    /\ dragFrom' = [dragFrom EXCEPT ![s] = 0]
    /\ \E i \in dragging[s] :
        IF web[s][i] = 0
          THEN KeepStacks /\ UNCHANGED webOut
          ELSE /\ IF web[s][i] = dragFrom[s] THEN KeepStacks
                  ELSE PushUndo(s, [type |-> "update", id |-> i, before |-> dragFrom[s],
                                    after |-> web[s][i]])
               /\ webOut' = [webOut EXCEPT ![s] = Append(@, Update(i, web[s][i]))]
    /\ UNCHANGED <<web, store, panel, webIn, boardNet, drawn, boardOps, boardLink, contested>>

\* The delete button or key
DeleteEntity(s, i) ==
    /\ UserDraws(s, {i})
    /\ web[s][i] # 0
    /\ PushUndo(s, [type |-> "delete", id |-> i, before |-> web[s][i], after |-> 0])
    /\ Post(s, <<Delete(i)>>, [web[s] EXCEPT ![i] = 0])
    /\ KeepDrag /\ UNCHANGED drawn

ClearBoard(s) ==
    /\ UserDraws(s, Entity)
    /\ IF web[s] = Blank THEN KeepStacks ELSE PushUndo(s, [type |-> "clear", ents |-> web[s]])
    /\ Post(s, <<Clear>>, Blank)
    /\ KeepDrag /\ UNCHANGED drawn

\* An order in which the entities of a cleared board come back.
IdsOf(b) == CHOOSE q \in [1 .. Cardinality({i \in Entity : b[i] # 0}) -> Entity] :
                {q[k] : k \in DOMAIN q} = {i \in Entity : b[i] # 0}

Touched(cmd) == IF cmd.type = "clear" THEN Entity ELSE {cmd.id}

\* executeCommand(): an update of an entity that is gone is skipped.
ExecuteCommand(s, cmd, reverse) ==
    IF cmd.type = "clear"
      THEN IF reverse
             THEN Post(s, [k \in DOMAIN IdsOf(cmd.ents) |->
                              Add(IdsOf(cmd.ents)[k], cmd.ents[IdsOf(cmd.ents)[k]])],
                       [i \in Entity |-> IF cmd.ents[i] # 0 THEN cmd.ents[i] ELSE web[s][i]])
             ELSE Post(s, <<Clear>>, Blank)
      ELSE LET look == IF reverse THEN cmd.before ELSE cmd.after
               m == IF look = 0 THEN Delete(cmd.id)
                    ELSE IF cmd.type = "update" THEN Update(cmd.id, look) ELSE Add(cmd.id, look)
           IN  IF cmd.type = "update" /\ web[s][cmd.id] = 0
                 THEN UNCHANGED <<web, webOut>>
                 ELSE Post(s, <<m>>, Apply(m, web[s]))

\* applyUndo()
Undo(s) ==
    /\ undoStack[s] # << >>
    /\ LET cmd == Last(undoStack[s]) IN
        /\ UserDraws(s, Touched(cmd))
        /\ ExecuteCommand(s, cmd, TRUE)
        /\ undoStack' = [undoStack EXCEPT ![s] = Front(@)]
        /\ redoStack' = [redoStack EXCEPT ![s] = Append(@, cmd)]
    /\ KeepDrag /\ UNCHANGED drawn

\* applyRedo()
Redo(s) ==
    /\ redoStack[s] # << >>
    /\ LET cmd == Last(redoStack[s]) IN
        /\ UserDraws(s, Touched(cmd))
        /\ ExecuteCommand(s, cmd, FALSE)
        /\ redoStack' = [redoStack EXCEPT ![s] = Front(@)]
        /\ undoStack' = [undoStack EXCEPT ![s] = Append(@, cmd)]
    /\ KeepDrag /\ UNCHANGED drawn

\* The message listener
WebviewReceives(s) ==
    /\ webIn[s] # << >>
    /\ webIn' = [webIn EXCEPT ![s] = Tail(@)]
    /\ web' = [web EXCEPT ![s] = Apply(Head(webIn[s]), @)]
    /\ KeepStacks /\ KeepDrag
    /\ UNCHANGED <<store, panel, webOut, boardNet, drawn, boardOps, boardLink, contested>>

-------------------------------------------------------------------------------
(* The extension *)

\* A webview that is loaded has nothing, and asks for everything.
LoadWebview(s) ==
    /\ panel' = [panel EXCEPT ![s] = "up"]
    /\ webOut' = [webOut EXCEPT ![s] = Append(@, RequestFullSync)]

\* The feature's context: the host's is gone with the connection.  (So is that
\* of a client who has left, but it may as well be reconnecting.)
HasContext(s) == linked \/ s = "client"

\* openWhiteboard(), or a panel that was hidden is shown again
OpenWhiteboard(s) ==
    /\ panel[s] # "up"
    /\ panel[s] = "none" => HasContext(s)
    /\ LoadWebview(s)
    /\ KeepStacks /\ KeepDrag
    /\ UNCHANGED <<web, store, webIn, boardNet, drawn, boardOps, boardLink, contested>>

\* The webview is gone, with its entities and stacks.
WebviewGoes(s, left) ==
    /\ panel[s] = "up"
    /\ boardOps < MaxBoardOp /\ boardOps' = boardOps + 1
    /\ panel' = [panel EXCEPT ![s] = left]
    /\ web' = [web EXCEPT ![s] = Blank]
    /\ webIn' = [webIn EXCEPT ![s] = << >>]
    /\ undoStack' = [undoStack EXCEPT ![s] = << >>]
    /\ redoStack' = [redoStack EXCEPT ![s] = << >>]
    /\ dragging' = [dragging EXCEPT ![s] = {}]
    /\ dragFrom' = [dragFrom EXCEPT ![s] = 0]
    /\ muted' = IF left = "none" THEN muted \ {s} ELSE muted
    /\ UNCHANGED <<store, webOut, boardNet, drawn, linked, rejoined, contested>>

\* Mutant: a message waits for a webview.
PostAlways(s, m) == [webIn EXCEPT ![s] = Append(@, m)]

\* A message that nobody displays is lost.
PostTo(s, m) == IF panel'[s] = "up" THEN [webIn EXCEPT ![s] = Append(@, m)] ELSE webIn

\* onDidReceiveMessage
PanelReceives(s) ==
    /\ webOut[s] # << >>
    /\ webOut' = [webOut EXCEPT ![s] = Tail(@)]
    /\ UNCHANGED panel
    /\ LET m == Head(webOut[s]) IN
        IF m = RequestFullSync
          THEN webIn' = PostTo(s, FullSync(store[s])) /\ UNCHANGED <<store, boardNet>>
          ELSE /\ store' = [store EXCEPT ![s] = Apply(m, @)]
               /\ boardNet' = IF linked /\ s \notin muted
                              THEN [boardNet EXCEPT ![s] = Append(@, m)] ELSE boardNet
               /\ UNCHANGED webIn
    /\ KeepStacks /\ KeepDrag
    /\ UNCHANGED <<web, drawn, boardOps, boardLink, contested>>

\* Mutant: where a webview shows it, the store does not take it.
ShowOnly(s, m) ==
    store' = IF panel[s] = "up" THEN store ELSE [store EXCEPT ![s] = Apply(m, @)]

KeepAuthoritative(s, m) == store' = [store EXCEPT ![s] = Apply(m, @)]

\* handleMessage(): everything but Clear opens a panel; not so the full sync of
\* a new session, which comes before the client's feature has its context.
HandleBoardMessage(s) ==
    /\ boardNet[Partner(s)] # << >>
    /\ boardNet' = [boardNet EXCEPT ![Partner(s)] = Tail(@)]
    /\ LET m == Head(boardNet[Partner(s)]) IN
        /\ KeepAuthoritative(s, m)
        /\ IF panel[s] = "none" /\ m.op # "clear" /\ ~(m.op = "full" /\ rejoined)
             THEN LoadWebview(s) ELSE UNCHANGED <<panel, webOut>>
        /\ webIn' = PostTo(s, m)
    /\ KeepStacks /\ KeepDrag
    /\ UNCHANGED <<web, drawn, boardOps, boardLink, contested>>

\* The connection is lost, with the frames.
BoardDisconnects ==
    /\ linked /\ linked' = FALSE
    /\ boardOps < MaxBoardOp /\ boardOps' = boardOps + 1
    /\ boardNet' = [s \in Party |-> << >>]
    /\ KeepStacks /\ KeepDrag
    /\ UNCHANGED <<web, store, panel, webOut, webIn, drawn, rejoined, muted, contested>>

\* The connection comes back, in the same session or in new ones of those who
\* join or host again: their panels stay and go on sending into the old ones.
\* The host's activate() sends its store, unless that is empty: then the client
\* keeps what it has, which the host has lost, cleared or never heard of.
\* Operations on their way from the client's webview meet a store that is sent.
BoardReconnects(again) ==
    /\ ~linked /\ linked' = TRUE
    /\ rejoined' = (again # {})
    /\ muted' = muted \cup {s \in again : panel[s] # "none"}
    /\ boardNet' = IF store["host"] = Blank THEN boardNet
                   ELSE [boardNet EXCEPT !["host"] = <<FullSync(store["host"])>>]
    /\ contested' = contested \cup
        {i \in Entity :
            \/ store["host"] = Blank /\ store["client"][i] # 0
            \/ \E s \in muted' \cup (IF store["host"] = Blank THEN {} ELSE {"client"}) :
                \/ i \in dragging[s]
                \/ \E k \in DOMAIN webOut[s] : Concerns(webOut[s][k], i)}
    /\ KeepStacks /\ KeepDrag
    /\ UNCHANGED <<web, store, panel, webOut, webIn, drawn, boardOps>>

BoardNext ==
    \/ \E s \in Party :
        \/ \E i \in Entity : \/ Draw(s, i) \/ DeleteEntity(s, i)
                             \/ \E v \in Look : Drag(s, i, v)
        \/ FinishDrag(s) \/ ClearBoard(s) \/ Undo(s) \/ Redo(s) \/ WebviewReceives(s)
        \/ OpenWhiteboard(s) \/ WebviewGoes(s, "hidden") \/ WebviewGoes(s, "none")
        \/ PanelReceives(s) \/ HandleBoardMessage(s)
    \/ BoardDisconnects
    \/ \E again \in {{}, {"client"}, Party} : BoardReconnects(again)

BoardSpec == BoardInit /\ [][BoardNext]_boardVars

-------------------------------------------------------------------------------
(* Property *)

BoardQuiet ==
    /\ linked
    /\ \A s \in Party : /\ webOut[s] = << >> /\ webIn[s] = << >> /\ boardNet[s] = << >>
                        /\ dragging[s] = {}

\* Once quiet both stores and both webviews have the same entities, looking
\* the same, whatever was undone, redone, hidden, closed, lost with the
\* connection or opened by the partner.  Three kinds of entities are excepted:
\* those that both sides, or a side and a full sync, worked on at once; those
\* that a panel of an earlier session worked on; and those that the client has
\* when a connection comes back to a host whose board is empty, which sends
\* nothing: the client keeps them for good.
UncontestedEntitiesAgree ==
    BoardQuiet => \A i \in Entity \ contested :
        /\ store["host"][i] = store["client"][i]
        /\ \A s \in Party : panel[s] = "up" => web[s][i] = store[s][i]
===============================================================================
