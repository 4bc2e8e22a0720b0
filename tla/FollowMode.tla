------------------------------ MODULE FollowMode ------------------------------
(***************************************************************************)
(* Cursors and follow mode (src/sync/cursorSync.ts), the same on both      *)
(* sides.  A cursor update leaves 150 ms after the last change of the      *)
(* selection; one that arrives makes a follower jump, which takes an       *)
(* await, and the jump changes the follower's selection in turn.  A guard  *)
(* that a timer releases keeps the jump from ending the following.         *)
(*                                                                         *)
(* A session begins with the host's side set up.  The client's is created  *)
(* when the directory tree has arrived and has its routes some awaits      *)
(* later; what comes before that is lost, and nobody sends it again.       *)
(***************************************************************************)
EXTENDS Naturals, Sequences, Partners

CONSTANTS
    CursorFile,     \* files
    MaxMove         \* what the two users do

ASSUME MoveAssumption == MaxMove \in Nat

VARIABLES
    at,             \* the file of the active editor
    moves,
    following, remoteIsFollowing,
    followGuard,    \* followActionGuard
    guardTimer,     \* followActionGuardTimer is set
    cursorTimer,    \* debounceTimer: the files of its editor, {} when not set
    localFile,      \* localFileUri
    remoteFile,     \* remoteFileUri, and the file of remoteCursors
    jumps,          \* followRemoteCursor() waits for showTextDocument()
    led,            \* history: the jump that ended last went to the partner's
                    \* last cursor, and the user has not moved since; not so
                    \* when jumps overlap and an earlier one ends last
    cursorNet,      \* frames from a side to its partner
    clientUp,       \* the client's CursorSync: "off", "active", "routed"
    greeted,        \* sendCurrentCursor() has run
    missed          \* history: the kinds of frame of which the client has
                    \* lost the last that was sent before it had its routes

followVars == <<at, moves, following, remoteIsFollowing, followGuard, guardTimer,
                cursorTimer, localFile, remoteFile, jumps, led, cursorNet, clientUp,
                greeted, missed>>

setupVars == <<clientUp, greeted, missed>>

FollowTypeOK ==
    /\ at \in [Party -> CursorFile] /\ moves \in 0 .. MaxMove
    /\ following \in [Party -> BOOLEAN] /\ remoteIsFollowing \in [Party -> BOOLEAN]
    /\ followGuard \in [Party -> BOOLEAN] /\ guardTimer \in [Party -> BOOLEAN]
    /\ cursorTimer \in [Party -> SUBSET CursorFile]
    /\ localFile \in [Party -> SUBSET CursorFile] /\ remoteFile \in [Party -> SUBSET CursorFile]
    /\ jumps \in [Party -> SUBSET CursorFile] /\ led \in [Party -> BOOLEAN]
    /\ \A s \in Party : \A i \in DOMAIN cursorNet[s] :
        cursorNet[s][i] \in [type : {"cursor"}, file : CursorFile]
                              \cup [type : {"follow"}, following : BOOLEAN]
    /\ clientUp \in {"off", "active", "routed"}
    /\ greeted \in [Party -> BOOLEAN] /\ (greeted["client"] => clientUp = "routed")
    /\ missed \subseteq {"cursor", "follow"}

FollowInit ==
    /\ at \in [Party -> CursorFile] /\ moves = 0
    /\ following = [s \in Party |-> FALSE] /\ remoteIsFollowing = [s \in Party |-> FALSE]
    /\ followGuard = [s \in Party |-> FALSE] /\ guardTimer = [s \in Party |-> FALSE]
    /\ cursorTimer = [s \in Party |-> {}]
    /\ localFile = [s \in Party |-> {}] /\ remoteFile = [s \in Party |-> {}]
    /\ jumps = [s \in Party |-> {}] /\ led = [s \in Party |-> FALSE]
    /\ cursorNet = [s \in Party |-> << >>]
    /\ clientUp = "off" /\ greeted = [s \in Party |-> FALSE] /\ missed = {}

-------------------------------------------------------------------------------
(* The set-up of the client *)

Active(s) == s = "host" \/ clientUp # "off"

Routed(s) == s = "host" \/ clientUp = "routed"

Others == UNCHANGED <<at, moves, following, remoteIsFollowing, followGuard, guardTimer,
                      cursorTimer, remoteFile, jumps, led>>

\* cursorSync.activate(), in setupSync() of a client that got its tree
ActivateClient ==
    /\ clientUp = "off"
    /\ clientUp' = "active"
    /\ Others /\ UNCHANGED <<localFile, cursorNet, greeted, missed>>

\* messageRouter.register(cursorSync), after the await of gitStatusSync
RegisterClient ==
    /\ clientUp = "active"
    /\ clientUp' = "routed"
    /\ Others /\ UNCHANGED <<localFile, cursorNet, greeted, missed>>

\* The router has no handler yet.
FrameForgotten ==
    /\ ~Routed("client") /\ cursorNet["host"] # << >>
    /\ cursorNet' = [cursorNet EXCEPT !["host"] = Tail(@)]
    /\ missed' = missed \cup {Head(cursorNet["host"]).type}
    /\ Others /\ UNCHANGED <<localFile, clientUp, greeted>>

SendCursor(s, f) ==
    /\ localFile' = [localFile EXCEPT ![s] = {f}]
    /\ cursorNet' = [cursorNet EXCEPT ![s] = Append(@, [type |-> "cursor", file |-> f])]

\* sendCurrentCursor(), last in the set-up of either side; there may be no
\* editor, or one whose document is not synchronised.
SendCurrentCursor(s) ==
    /\ ~greeted[s] /\ Routed(s)
    /\ greeted' = [greeted EXCEPT ![s] = TRUE]
    /\ SendCursor(s, at[s]) \/ UNCHANGED <<localFile, cursorNet>>
    /\ Others /\ UNCHANGED <<clientUp, missed>>

-------------------------------------------------------------------------------
(* Following *)

SendFollow(s, value) ==
    cursorNet' = [cursorNet EXCEPT ![s] = Append(@, [type |-> "follow", following |-> value])]

UserDoes(s) ==
    /\ Active(s)
    /\ moves < MaxMove /\ moves' = moves + 1
    /\ UNCHANGED setupVars

\* toggleFollow()
ToggleFollow(s) ==
    /\ UserDoes(s)
    /\ following' = [following EXCEPT ![s] = ~@]
    /\ SendFollow(s, ~following[s])
    /\ led' = [led EXCEPT ![s] = FALSE]
    /\ UNCHANGED <<at, remoteIsFollowing, followGuard, guardTimer, cursorTimer, localFile,
                   remoteFile, jumps>>

\* The guard swallows it, or it was no key and no click.
KeepsFollowing(s, byHand) == ~following[s] \/ followGuard[s] \/ ~byHand

\* The selection changes: onLocalSelectionChange()
MoveTo(s, f, byHand) ==
    /\ UserDoes(s)
    /\ at' = [at EXCEPT ![s] = f]
    /\ led' = [led EXCEPT ![s] = FALSE]
    /\ cursorTimer' = [cursorTimer EXCEPT ![s] = {f}]
    /\ IF KeepsFollowing(s, byHand)
         THEN UNCHANGED <<following, cursorNet>>
         ELSE following' = [following EXCEPT ![s] = FALSE] /\ SendFollow(s, FALSE)
    /\ UNCHANGED <<remoteIsFollowing, followGuard, guardTimer, localFile, remoteFile, jumps>>

\* The timer: sendCursorUpdate()
SendCursorUpdate(s) ==
    /\ cursorTimer[s] # {}
    /\ cursorTimer' = [cursorTimer EXCEPT ![s] = {}]
    /\ \E f \in cursorTimer[s] : SendCursor(s, f)
    /\ UNCHANGED <<at, moves, following, remoteIsFollowing, followGuard, guardTimer,
                   remoteFile, jumps, led>> /\ UNCHANGED setupVars

\* followRemoteCursor() up to its await
StartJump(s, f) ==
    /\ jumps' = [jumps EXCEPT ![s] = @ \cup {f}]
    /\ followGuard' = [followGuard EXCEPT ![s] = TRUE]

\* jumpToPartner()
JumpToPartner(s) ==
    /\ UserDoes(s)
    /\ \E f \in remoteFile[s] : StartJump(s, f)
    /\ UNCHANGED <<at, following, remoteIsFollowing, guardTimer, cursorTimer, localFile,
                   remoteFile, led, cursorNet>>

\* handleRemoteCursorUpdate(), handleRemoteFollowUpdate()
ReceiveCursor(s) ==
    /\ Routed(s) /\ cursorNet[Partner(s)] # << >>
    /\ cursorNet' = [cursorNet EXCEPT ![Partner(s)] = Tail(@)]
    /\ LET frame == Head(cursorNet[Partner(s)]) IN
        IF frame.type = "cursor"
          THEN /\ remoteFile' = [remoteFile EXCEPT ![s] = {frame.file}]
               /\ IF following[s] THEN StartJump(s, frame.file)
                                  ELSE UNCHANGED <<jumps, followGuard>>
               /\ UNCHANGED remoteIsFollowing
          ELSE /\ remoteIsFollowing' = [remoteIsFollowing EXCEPT ![s] = frame.following]
               /\ UNCHANGED <<remoteFile, jumps, followGuard>>
    /\ missed' = IF s = "client" THEN missed \ {Head(cursorNet[Partner(s)]).type} ELSE missed
    /\ UNCHANGED <<at, moves, following, guardTimer, cursorTimer, localFile, led, clientUp,
                   greeted>>

\* Mutant: only a jump that succeeds starts the release of the guard.
ReleaseAfterSuccess(s, succeeds) == guardTimer' = [guardTimer EXCEPT ![s] = @ \/ succeeds]

\* The finally block
ReleaseLater(s, succeeds) == guardTimer' = [guardTimer EXCEPT ![s] = TRUE]

\* showTextDocument() returns; another file has another selection, so an event
\* follows.  Or it throws.
JumpEnds(s, f) ==
    /\ f \in jumps[s]
    /\ jumps' = [jumps EXCEPT ![s] = @ \ {f}]
    /\ \E succeeds \in BOOLEAN :
        /\ at' = IF succeeds THEN [at EXCEPT ![s] = f] ELSE at
        /\ cursorTimer' = IF succeeds /\ at[s] # f THEN [cursorTimer EXCEPT ![s] = {f}]
                                                   ELSE cursorTimer
        /\ led' = [led EXCEPT ![s] = succeeds /\ remoteFile[s] = {f}]
        /\ ReleaseLater(s, succeeds)
    /\ UNCHANGED <<moves, following, remoteIsFollowing, followGuard, localFile, remoteFile,
                   cursorNet>> /\ UNCHANGED setupVars

ReleaseFollowGuard(s) ==
    /\ guardTimer[s]
    /\ guardTimer' = [guardTimer EXCEPT ![s] = FALSE]
    /\ followGuard' = [followGuard EXCEPT ![s] = FALSE]
    /\ UNCHANGED <<at, moves, following, remoteIsFollowing, cursorTimer, localFile,
                   remoteFile, jumps, led, cursorNet>> /\ UNCHANGED setupVars

FollowNext ==
    \/ ActivateClient \/ RegisterClient \/ FrameForgotten
    \/ \E s \in Party :
        \/ SendCurrentCursor(s)
        \/ ToggleFollow(s) \/ JumpToPartner(s)
        \/ \E f \in CursorFile : (\E byHand \in BOOLEAN : MoveTo(s, f, byHand)) \/ JumpEnds(s, f)
        \/ SendCursorUpdate(s) \/ ReceiveCursor(s) \/ ReleaseFollowGuard(s)

FollowSpec == FollowInit /\ [][FollowNext]_followVars

\* Timers fire, messages arrive, VS Code answers, and a set-up that has begun
\* ends.  The client's need not begin: the host may fail to read its tree.
FollowFairness ==
    /\ WF_followVars(RegisterClient)
    /\ WF_followVars(FrameForgotten)
    /\ \A s \in Party :
        /\ WF_followVars(SendCurrentCursor(s))
        /\ WF_followVars(SendCursorUpdate(s))
        /\ WF_followVars(ReceiveCursor(s))
        /\ WF_followVars(ReleaseFollowGuard(s))
        /\ \A f \in CursorFile : WF_followVars(JumpEnds(s, f))

-------------------------------------------------------------------------------
(* Property *)

FollowQuiet(s) ==
    /\ cursorTimer[s] = {} /\ cursorNet[s] = << >> /\ jumps[s] = {}
    /\ ~followGuard[s] /\ ~guardTimer[s]

\* What s cannot know: the last such frame came before it had its routes.
NeverTold(s, kind) == s = "client" /\ kind \in missed

\* When the users stop, following comes to rest: no guard stays up, both know
\* whether they are followed and where the partner is, and a follower who was
\* led there is in the partner's file.  Not so of what came before the client
\* had its routes, until the next of its kind; and two who follow each other
\* may chase each other between their files for ever.
FollowSettles ==
    <>[] \/ \A s \in Party : following[s]
         \/ \A s \in Party :
             /\ FollowQuiet(s)
             /\ ~NeverTold(s, "follow") => remoteIsFollowing[s] = following[Partner(s)]
             /\ ~NeverTold(s, "cursor") =>
                    /\ remoteFile[s] = localFile[Partner(s)]
                    /\ (following[s] /\ led[s]) => {at[s]} = localFile[Partner(s)]
===============================================================================
