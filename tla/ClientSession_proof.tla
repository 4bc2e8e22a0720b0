------------------------- MODULE ClientSession_proof -------------------------
(***************************************************************************)
(* Proofs about ClientSession, for every number of sessions, directory     *)
(* trees and restarts.                                                     *)
(***************************************************************************)
EXTENDS ClientSession, TLAPS

\* A session that had a connection and is not over
Had == Hearing \cup {"retrying", "reviving"}

Apart == "crossing" \notin mishaps

\* What ReadonlyAsTold and ClaimsMatchComponents are about
Heard == mishaps \cap {"relapse", "crossing"} = {}
Whole == mishaps \cap {"zombie", "crossing"} = {}

\* What an invocation and its components are named after has happened.
History ==
    /\ \A s \in Session :
        /\ trees[s] > 0 \/ word[s] # "none" => phase[s] \in Had \cup {"done"}
        /\ phase[s] = "done" => word[s] = "none"
        /\ isReadonly[s] <=> word[s] # "edit"
        /\ sync[s] # None => sync[s][1] = s
    /\ \A t \in Invocation :
        step[t] # "none" \/ sync[t[1]] = t \/ routes = t \/ t \in alive => t[2] <= trees[t[1]]
    /\ \A t \in Invocation :
        step[t] = "save" => routes # t /\ sync[t[1]] # t /\ t \notin alive

\* A session has one set-up at a time.
Once ==
    /\ \A t, u \in Invocation : step[t] # "none" /\ step[u] # "none" /\ t[1] = u[1] => t = u
    /\ \A t \in Invocation : step[t] = "save" => sync[t[1]] = None

OnceInv == Apart => Once

\* Who has set up the shared parts, or is about to, is alone.
Alone ==
    /\ \A s \in Session : sync[s] # None => features = s
    /\ \A t \in Invocation : step[t] # "none" =>
        /\ features \in {t[1], None}
        /\ \A u \in Invocation : step[u] # "none" => t[1] = u[1]
    /\ routes # None => sync[routes[1]] = routes

AloneInv == Apart => Alone

\* ClaimsMatchComponents, with what keeps the last session from being over
ClaimsInv ==
    /\ ClaimsMatchComponents
    /\ Whole /\ features # None => phase[features] \in Had

ClientInv ==
    /\ TypeOK /\ History
    /\ OnceInv /\ AloneInv
    /\ ReadonlyAsTold /\ ClaimsInv /\ FolderHasKeeper

-------------------------------------------------------------------------------
LEMMA InvocationParts ==
    /\ \A t \in Invocation : t[1] \in Session /\ t[2] \in 1 .. MaxTree /\ t = <<t[1], t[2]>>
    /\ \A s \in Session, k \in 1 .. MaxTree : <<s, k>> \in Invocation
    /\ None \notin Session /\ None \notin Invocation
BY SessionAssumption, BoundAssumption DEF Invocation

LEMMA InitType == Init => TypeOK
<1> SUFFICES ASSUME Init PROVE TypeOK
  OBVIOUS
<1>1. running \in BOOLEAN /\ vfsReadonly \in BOOLEAN /\ folder \in BOOLEAN /\ pending \in BOOLEAN
  BY Zenon DEF Init
<1>3. phase \in [Session -> Phases]
  BY DEF Init, Phases
<1>2. isReadonly \in [Session -> BOOLEAN] /\ step \in [Invocation -> {"none", "save", "features"}]
  BY DEF Init
<1> QED
  BY <1>1, <1>2, <1>3, BoundAssumption DEF Init, TypeOK

\* disconnect(), one phase at a time
LEMMA DisconnectFacts ==
    ASSUME NEW q, NEW p \in AfterDisconnect(q)
    PROVE  \/ q \in Open /\ p = "closing"
           \/ q \in {"joining", "rejoining"} /\ p = "aborted"
           \/ q = "retrying" /\ p \in {"done", "reviving"}
           \/ q \notin Open \cup {"joining", "rejoining", "retrying"} /\ p = q
BY DEF AfterDisconnect, Open

LEMMA TypeStep == TypeOK /\ [Next]_vars => TypeOK'
<1> SUFFICES ASSUME TypeOK, [Next]_vars PROVE TypeOK'
  OBVIOUS
<1> USE InvocationParts, BoundAssumption DEF TypeOK, Phases, Hearing, Open
<1>1. ASSUME NEW s \in Session, AskToJoin(s) PROVE TypeOK'
  BY <1>1 DEF AskToJoin, Becomes, shared
<1>2. ASSUME NEW s \in Session, ConnectToSession(s) PROVE TypeOK'
  BY <1>2 DEF ConnectToSession, Becomes, shared
<1>3. ASSUME NEW s \in Session, SocketOpens(s) PROVE TypeOK'
  BY <1>3 DEF SocketOpens, Becomes, shared
<1>4. ASSUME NEW s \in Session, ConnectFails(s) PROVE TypeOK'
  <2>1. CASE current = None
    <3>1. folder' \in BOOLEAN
      BY <1>4, <2>1, Zenon DEF ConnectFails
    <3> QED
      BY <1>4, <2>1, <3>1 DEF ConnectFails
  <2>2. CASE current # None
    <3>1. phase' \in [Session -> Phases]
      <4>1. PICK p \in AfterDisconnect([phase EXCEPT ![s] = "done"][current]) :
              phase' = [[phase EXCEPT ![s] = "done"] EXCEPT ![current] = p]
        BY <1>4, <2>2 DEF ConnectFails
      <4>2. [phase EXCEPT ![s] = "done"][current] \in Phases
        BY <2>2
      <4>3. p \in Phases
        BY <4>1, <4>2, DisconnectFacts
      <4> QED
        BY <4>1, <4>3
    <3>2. EndSession(current)
      BY <1>4, <2>2 DEF ConnectFails
    <3> QED
      BY <1>4, <2>2, <3>1, <3>2 DEF ConnectFails, EndSession, ReleaseClaims, Mishap
  <2> QED
    BY <2>1, <2>2
<1>5. ASSUME NEW s \in Session, NEW said \in {"read", "edit"}, OnConnected(s, said) PROVE TypeOK'
  BY <1>5 DEF OnConnected, Mishap, shared
<1>6. ASSUME NEW s \in Session, ConnectionLost(s) PROVE TypeOK'
  BY <1>6 DEF ConnectionLost, Becomes, shared
<1>7. ASSUME NEW s \in Session, Refused(s) PROVE TypeOK'
  BY <1>7 DEF Refused, Becomes, shared
<1>8. ASSUME NEW s \in Session, OnDisconnected(s) PROVE TypeOK'
  BY <1>8 DEF OnDisconnected, Becomes, EndSession, ReleaseClaims, Mishap
<1>9. ASSUME NEW s \in Session, OnEditPermissionGranted(s) PROVE TypeOK'
  BY <1>9 DEF OnEditPermissionGranted, RememberGrant, Mishap
<1>10. ASSUME NEW s \in Session, OnDirectoryTree(s) PROVE TypeOK'
  <2> DEFINE t == <<s, trees[s] + 1>>
  <2>1. trees' \in [Session -> 0 .. MaxTree] /\ t \in Invocation
    BY <1>10 DEF OnDirectoryTree, MoreTrees
  <2>2. phase' \in [Session -> Phases]
    BY <1>10 DEF OnDirectoryTree, Becomes
  <2>3. mishaps' \subseteq {"relapse", "zombie", "crossing"}
    BY <1>10 DEF OnDirectoryTree, Mishap
  <2>4. CASE folder
    <3>1. SetupSync(t) /\ t[1] = s
      BY <1>10, <2>4 DEF OnDirectoryTree
    <3>2. pending' \in BOOLEAN /\ vfsReadonly' \in BOOLEAN /\ folder' \in BOOLEAN
      BY <1>10, <2>4 DEF OnDirectoryTree
    <3> HIDE DEF t
    <3>3. /\ sync' \in [Session -> Invocation \cup {None}] /\ alive' \subseteq Invocation
          /\ routes' \in Invocation \cup {None} /\ features' \in Session \cup {None}
          /\ step' \in [Invocation -> {"none", "save", "features"}]
      BY <2>1, <3>1 DEF SetupSync
    <3> QED
      BY <1>10, <2>1, <2>2, <2>3, <3>2, <3>3 DEF OnDirectoryTree
  <2>5. CASE ~folder
    BY <1>10, <2>1, <2>2, <2>3, <2>5 DEF OnDirectoryTree
  <2> QED
    BY <2>4, <2>5
<1>11. ASSUME NEW t \in Invocation, AddFolder(t) PROVE TypeOK'
  <2>1. /\ sync' \in [Session -> Invocation \cup {None}] /\ alive' \subseteq Invocation
        /\ routes' \in Invocation \cup {None} /\ features' \in Session \cup {None}
        /\ step' \in [Invocation -> {"none", "save", "features"}]
    BY <1>11 DEF AddFolder, SetupSync
  <2>2. mishaps' \subseteq {"relapse", "zombie", "crossing"}
    BY <1>11 DEF AddFolder, Mishap
  <2> QED
    BY <1>11, <2>1, <2>2 DEF AddFolder
<1>12. ASSUME NEW t \in Invocation, ApplyReadonly(t) PROVE TypeOK'
  BY <1>12 DEF ApplyReadonly, Layers
<1>13. CASE LeaveSession
  BY <1>13 DEF LeaveSession, IsClient, Becomes, EndSession, ReleaseClaims, Mishap
<1>14. CASE Stop
  <2>1. running' \in BOOLEAN /\ folder' \in BOOLEAN /\ vfsReadonly' \in BOOLEAN
    BY <1>14, Zenon DEF Stop
  <2>2. isReadonly' \in [Session -> BOOLEAN] /\ word' \in [Session -> {"none", "read", "edit"}]
        /\ step' \in [Invocation -> {"none", "save", "features"}]
    BY <1>14 DEF Stop
  <2>3. phase' \in [Session -> Phases]
    BY <1>14 DEF Stop
  <2> QED
    BY <1>14, <2>1, <2>2, <2>3 DEF Stop
<1>15. CASE Activate
  BY <1>15 DEF Activate, Becomes, CleanupStaleVfs
<1>16. CASE UNCHANGED vars
  BY <1>16 DEF vars
<1> HIDE DEF TypeOK, Phases, Hearing, Open
<1> QED
  BY <1>1, <1>2, <1>3, <1>4, <1>5, <1>6, <1>7, <1>8, <1>9, <1>10, <1>11, <1>12, <1>13,
     <1>14, <1>15, <1>16 DEF Next

\* The invocation that the DirectoryTree starts
NewTree(s) == <<s, trees[s] + 1>>

LEMMA MishapFree ==
    ASSUME NEW STATE h, Mishap("crossing", h), Apart'
    PROVE  Apart /\ ~h
BY DEF Mishap, Apart

\* What setupSync() and onDirectoryTree() come to, one variable at a time
SetupEffect(s, t) ==
    /\ \A u \in Invocation : u # t => step'[u] = step[u]
    /\ \A x \in Session : x # s => sync'[x] = sync[x]
    /\ sync'[s] = t /\ alive' = alive \cup {t}
    /\ routes = None => routes' = t /\ features' = s /\ step'[t] = "features"
    /\ routes # None => routes' = routes /\ features' = features /\ step'[t] = "none"

SaveEffect(t) ==
    /\ \A u \in Invocation : step'[u] = IF u = t THEN "save" ELSE step[u]
    /\ sync' = sync /\ routes' = routes /\ alive' = alive /\ features' = features

TreeEffect(s, t) ==
    /\ phase[s] \in Hearing /\ phase' = phase
    /\ \A x \in Session : trees'[x] = IF x = s THEN trees[s] + 1 ELSE trees[x]
    /\ sender' = s
    /\ isReadonly' = isReadonly /\ word' = word
    /\ vfsReadonly' = vfsReadonly /\ readonlySync' = readonlySync
    /\ t \in Invocation /\ t[1] = s /\ t[2] = trees[s] + 1
    /\ Apart' => Apart /\ ~Meddles(s) /\ ~Begun(s)
    /\ mishaps \subseteq mishaps'
    /\ SetupEffect(s, t) \/ SaveEffect(t)

LEMMA SetupFacts ==
    ASSUME TypeOK, NEW STATE t, t \in Invocation, SetupSync(t)
    PROVE  SetupEffect(t[1], t)
BY InvocationParts DEF SetupSync, SetupEffect, TypeOK

LEMMA TreeFacts ==
    ASSUME TypeOK, NEW s \in Session, OnDirectoryTree(s)
    PROVE  TreeEffect(s, NewTree(s))
<1> DEFINE t == NewTree(s)
<1>1. /\ phase[s] \in Hearing /\ phase' = phase
      /\ trees' = [trees EXCEPT ![s] = @ + 1] /\ sender' = s
      /\ UNCHANGED <<isReadonly, word, vfsReadonly, readonlySync>>
  BY DEF OnDirectoryTree
<1>2. t \in Invocation /\ t[1] = s /\ t[2] = trees[s] + 1
  BY InvocationParts, BoundAssumption DEF OnDirectoryTree, MoreTrees, NewTree, TypeOK
<1>3. Mishap("crossing", Meddles(s) \/ Begun(s))
  BY DEF OnDirectoryTree
<1>4. Apart' => Apart /\ ~Meddles(s) /\ ~Begun(s)
  BY <1>3, MishapFree
<1>5. SetupSync(t) \/ (step' = [step EXCEPT ![t] = "save"] /\ UNCHANGED <<sync, routes, alive, features>>)
  BY DEF OnDirectoryTree, NewTree
<1> HIDE DEF t
<1>6. SetupEffect(s, t) \/ SaveEffect(t)
  BY <1>2, <1>5, SetupFacts DEF SaveEffect, TypeOK
<1>7. mishaps \subseteq mishaps'
  BY <1>3 DEF Mishap
<1> QED
  BY <1>1, <1>2, <1>4, <1>6, <1>7 DEF TreeEffect, TypeOK, t

EndEffect(s) ==
    /\ \A x \in Session : isReadonly'[x] = IF x = s THEN TRUE ELSE isReadonly[x]
    /\ \A x \in Session : word'[x] = IF x = s THEN "none" ELSE word[x]
    /\ \A x \in Session : sync'[x] = IF x = s THEN None ELSE sync[x]
    /\ routes' = IF routes = sync[s] THEN None ELSE routes
    /\ alive' = alive \ {sync[s]} /\ readonlySync' = readonlySync \ {sync[s]}
    /\ features' = None /\ sender' = None /\ vfsReadonly' = TRUE
    /\ Apart' => Apart /\ ~Meddles(s)
    /\ mishaps \subseteq mishaps'

LEMMA EndFacts ==
    ASSUME TypeOK, NEW STATE s, s \in Session, EndSession(s)
    PROVE  EndEffect(s)
<1>1. Mishap("crossing", Meddles(s))
  BY DEF EndSession
<1>2. Apart' => Apart /\ ~Meddles(s)
  BY <1>1, MishapFree
<1>3. mishaps \subseteq mishaps'
  BY <1>1 DEF Mishap
<1> QED
  BY <1>2, <1>3 DEF EndSession, ReleaseClaims, EndEffect, TypeOK

\* A failed attempt ends the session that is current now.
LEMMA FailFacts ==
    ASSUME TypeOK, NEW s \in Session, ConnectFails(s), current # None
    PROVE  /\ current \in Session /\ EndEffect(current) /\ step' = step /\ trees' = trees
           /\ phase[s] \in {"joining", "rejoining", "aborted"}
           /\ \A x \in Session \ {s, current} : phase'[x] = phase[x]
           /\ s # current => phase'[s] = "done"
           /\ s = current => phase'[s] = "done"
           /\ s # current => phase'[current] \in AfterDisconnect(phase[current])
<1>1. /\ current \in Session /\ EndSession(current) /\ step' = step /\ trees' = trees
      /\ phase[s] \in {"joining", "rejoining", "aborted"}
  BY DEF ConnectFails, TypeOK
<1>2. EndEffect(current)
  BY <1>1, EndFacts
<1> DEFINE ended == [phase EXCEPT ![s] = "done"]
<1>3. PICK p \in AfterDisconnect(ended[current]) : phase' = [ended EXCEPT ![current] = p]
  BY DEF ConnectFails
<1>4. \A x \in Session : phase'[x] = IF x = current THEN p ELSE IF x = s THEN "done" ELSE phase[x]
  BY <1>1, <1>3 DEF TypeOK
<1>5. CASE s = current
  <2>1. ended[current] = "done"
    BY <1>1, <1>5 DEF TypeOK
  <2>2. p = "done"
    BY <1>3, <2>1, DisconnectFacts DEF Open
  <2> QED
    BY <1>1, <1>2, <1>4, <1>5, <2>2
<1>6. CASE s # current
  <2>1. ended[current] = phase[current]
    BY <1>1, <1>6 DEF TypeOK
  <2> QED
    BY <1>1, <1>2, <1>3, <1>4, <1>6, <2>1
<1> QED
  BY <1>5, <1>6

LEMMA HistoryStep ==
    TypeOK /\ History /\ [Next]_vars => History'
<1> SUFFICES ASSUME TypeOK, History, [Next]_vars PROVE History'
  OBVIOUS
<1>0. TypeOK'
  BY TypeStep
<1> USE <1>0, InvocationParts, BoundAssumption DEF TypeOK, History, Hearing, Open, Had
<1>1. ASSUME NEW s \in Session, AskToJoin(s) PROVE History'
  BY <1>1 DEF AskToJoin, Fresh, Becomes, shared
<1>2. ASSUME NEW s \in Session, ConnectToSession(s) PROVE History'
  BY <1>2 DEF ConnectToSession, Becomes, shared
<1>3. ASSUME NEW s \in Session, SocketOpens(s) PROVE History'
  BY <1>3 DEF SocketOpens, Becomes, shared
<1>4. ASSUME NEW s \in Session, ConnectFails(s) PROVE History'
  <2>1. CASE current = None
    BY <1>4, <2>1 DEF ConnectFails
  <2>2. CASE current # None
    <3>1. /\ current \in Session /\ EndEffect(current) /\ step' = step /\ trees' = trees
          /\ phase[s] \in {"joining", "rejoining", "aborted"}
          /\ phase'[s] = "done"
          /\ \A x \in Session \ {s, current} : phase'[x] = phase[x]
      BY <1>4, <2>2, FailFacts
    <3>2. s # current => \/ phase'[current] = phase[current]
                         \/ phase'[current] \in {"closing", "done", "reviving"}
                         \/ /\ phase[current] \in {"joining", "rejoining"}
                            /\ phase'[current] = "aborted"
      BY <1>4, <2>2, FailFacts, DisconnectFacts
    <3>3. \A x \in Session : trees'[x] > 0 \/ word'[x] # "none" => phase'[x] \in Had \cup {"done"}
      BY <3>1, <3>2 DEF EndEffect
    <3>4. \A x \in Session : phase'[x] = "done" => word'[x] = "none"
      BY <3>1, <3>2 DEF EndEffect
    <3>5. ASSUME NEW x \in Session
          PROVE  /\ isReadonly'[x] <=> word'[x] # "edit"
                 /\ sync'[x] # None => sync'[x][1] = x
      <4>1. CASE x = current
        BY <3>1, <4>1 DEF EndEffect
      <4>2. CASE x # current
        <5>1. isReadonly'[x] = isReadonly[x] /\ word'[x] = word[x] /\ sync'[x] = sync[x]
          BY <3>1, <4>2 DEF EndEffect
        <5>2. isReadonly[x] <=> word[x] # "edit"
          BY DEF History
        <5> QED
          BY <5>1, <5>2
      <4> QED
        BY <4>1, <4>2
    <3> QED
      BY <3>1, <3>3, <3>4, <3>5 DEF EndEffect
  <2> QED
    BY <2>1, <2>2
<1>5. ASSUME NEW s \in Session, NEW said \in {"read", "edit"}, OnConnected(s, said) PROVE History'
  <2>1. /\ phase[s] \in Hearing /\ phase' = phase
        /\ word' = [word EXCEPT ![s] = said]
        /\ UNCHANGED <<trees, step, sync, routes, alive>>
    BY <1>5 DEF OnConnected, shared
  <2>2. \A x \in Session : isReadonly'[x] <=> word'[x] # "edit"
    <3>1. CASE said = "read"
      <4>1. (said = "read") = TRUE
        BY <3>1
      <4>2. isReadonly' = [isReadonly EXCEPT ![s] = TRUE]
        BY <1>5, <4>1, Zenon DEF OnConnected
      <4> QED
        BY <2>1, <3>1, <4>2
    <3>2. CASE said = "edit"
      <4>1. (said = "read") = FALSE
        BY <3>2
      <4>2. isReadonly' = [isReadonly EXCEPT ![s] = FALSE]
        BY <1>5, <4>1, Zenon DEF OnConnected
      <4> QED
        BY <2>1, <3>2, <4>2
    <3> QED
      BY <3>1, <3>2
  <2> QED
    BY <2>1, <2>2
<1>6. ASSUME NEW s \in Session, ConnectionLost(s) PROVE History'
  BY <1>6 DEF ConnectionLost, Becomes, shared
<1>7. ASSUME NEW s \in Session, Refused(s) PROVE History'
  BY <1>7 DEF Refused, Becomes, shared
<1>8. ASSUME NEW s \in Session, OnDisconnected(s) PROVE History'
  BY <1>8 DEF OnDisconnected, Becomes, EndSession, ReleaseClaims, Mishap, Meddles
<1>9. ASSUME NEW s \in Session, OnEditPermissionGranted(s) PROVE History'
  BY <1>9 DEF OnEditPermissionGranted, RememberGrant, Mishap, Meddles
<1>10. ASSUME NEW s \in Session, OnDirectoryTree(s) PROVE History'
  <2> DEFINE t == NewTree(s)
  <2>1. TreeEffect(s, t)
    BY <1>10, TreeFacts
  <2> HIDE DEF t
  <2>2. CASE SetupEffect(s, t)
    BY <2>1, <2>2 DEF TreeEffect, SetupEffect
  <2>3. CASE SaveEffect(t)
    BY <2>1, <2>3 DEF TreeEffect, SaveEffect
  <2> QED
    BY <2>1, <2>2, <2>3 DEF TreeEffect
<1>11. ASSUME NEW t \in Invocation, AddFolder(t) PROVE History'
  BY <1>11 DEF AddFolder, SetupSync, Mishap
<1>12. ASSUME NEW t \in Invocation, ApplyReadonly(t) PROVE History'
  BY <1>12 DEF ApplyReadonly, Layers
<1>13. CASE LeaveSession
  BY <1>13 DEF LeaveSession, IsClient, Becomes, EndSession, ReleaseClaims, Mishap, Meddles
<1>14. CASE Stop
  BY <1>14 DEF Stop
<1>15. CASE Activate
  BY <1>15 DEF Activate, Fresh, Becomes, CleanupStaleVfs
<1>16. CASE UNCHANGED vars
  BY <1>16 DEF vars
<1> HIDE DEF TypeOK, History, Hearing, Open, Had
<1> QED
  BY <1>1, <1>2, <1>3, <1>4, <1>5, <1>6, <1>7, <1>8, <1>9, <1>10, <1>11, <1>12, <1>13, <1>14, <1>15, <1>16 DEF Next

LEMMA FolderStep ==
    TypeOK /\ History /\ FolderHasKeeper /\ [Next]_vars => FolderHasKeeper'
<1> SUFFICES ASSUME TypeOK, History, FolderHasKeeper, [Next]_vars PROVE FolderHasKeeper'
  OBVIOUS
<1>0. TypeOK'
  BY TypeStep
<1> USE <1>0, InvocationParts, BoundAssumption DEF TypeOK, History, FolderHasKeeper, MayServe, Hearing, Open, Had
<1>1. ASSUME NEW s \in Session, AskToJoin(s) PROVE FolderHasKeeper'
  BY <1>1 DEF AskToJoin, Fresh, Becomes, shared
<1>2. ASSUME NEW s \in Session, ConnectToSession(s) PROVE FolderHasKeeper'
  BY <1>2 DEF ConnectToSession, Becomes, shared
<1>3. ASSUME NEW s \in Session, SocketOpens(s) PROVE FolderHasKeeper'
  BY <1>3 DEF SocketOpens, Becomes, shared
<1>4. ASSUME NEW s \in Session, ConnectFails(s) PROVE FolderHasKeeper'
  <2>1. CASE current = None /\ phase[s] = "rejoining"
    <3>1. folder' = FALSE
      BY <1>4, <2>1, Zenon DEF ConnectFails
    <3> QED
      BY <3>1
  <2>2. CASE current = None /\ phase[s] # "rejoining"
    <3>1. folder' => folder
      BY <1>4, <2>2, Zenon DEF ConnectFails
    <3> QED
      BY <1>4, <2>2, <3>1 DEF ConnectFails
  <2>3. CASE current # None
    <3>1. folder' = FALSE
      BY <1>4, <2>3 DEF ConnectFails, EndSession
    <3> QED
      BY <3>1
  <2> QED
    BY <2>1, <2>2, <2>3
<1>5. ASSUME NEW s \in Session, NEW said \in {"read", "edit"}, OnConnected(s, said) PROVE FolderHasKeeper'
  BY <1>5 DEF OnConnected, Mishap, shared
<1>6. ASSUME NEW s \in Session, ConnectionLost(s) PROVE FolderHasKeeper'
  BY <1>6 DEF ConnectionLost, Becomes, shared
<1>7. ASSUME NEW s \in Session, Refused(s) PROVE FolderHasKeeper'
  BY <1>7 DEF Refused, Becomes, shared
<1>8. ASSUME NEW s \in Session, OnDisconnected(s) PROVE FolderHasKeeper'
  BY <1>8 DEF OnDisconnected, Becomes, EndSession, ReleaseClaims, Mishap, Meddles
<1>9. ASSUME NEW s \in Session, OnEditPermissionGranted(s) PROVE FolderHasKeeper'
  BY <1>9 DEF OnEditPermissionGranted, RememberGrant, Mishap, Meddles
<1>10. ASSUME NEW s \in Session, OnDirectoryTree(s) PROVE FolderHasKeeper'
  BY <1>10 DEF OnDirectoryTree, SetupSync, Mishap, Meddles
<1>11. ASSUME NEW t \in Invocation, AddFolder(t) PROVE FolderHasKeeper'
  BY <1>11 DEF AddFolder, SetupSync, Mishap
<1>12. ASSUME NEW t \in Invocation, ApplyReadonly(t) PROVE FolderHasKeeper'
  BY <1>12 DEF ApplyReadonly, Layers
<1>13. CASE LeaveSession
  BY <1>13 DEF LeaveSession, IsClient, Becomes, EndSession, ReleaseClaims, Mishap, Meddles
<1>14. CASE Stop
  BY <1>14 DEF Stop
<1>15. CASE Activate
  <2>1. CASE pending
    <3>1. PICK s \in Session : phase' = [phase EXCEPT ![s] = "secret"]
      BY <1>15, <2>1 DEF Activate, Becomes
    <3> QED
      BY <3>1
  <2>2. CASE ~pending
    <3>1. folder' = FALSE
      BY <1>15, <2>2 DEF Activate, CleanupStaleVfs
    <3> QED
      BY <3>1
  <2> QED
    BY <2>1, <2>2
<1>16. CASE UNCHANGED vars
  BY <1>16 DEF vars
<1> HIDE DEF TypeOK, History, FolderHasKeeper, MayServe, Hearing, Open, Had
<1> QED
  BY <1>1, <1>2, <1>3, <1>4, <1>5, <1>6, <1>7, <1>8, <1>9, <1>10, <1>11, <1>12, <1>13, <1>14, <1>15, <1>16 DEF Next

\* But for a restart, a mishap is not forgotten.
LEMMA ApartStep ==
    ASSUME [Next]_vars, ~Stop, Apart'
    PROVE  Apart
<1>1. mishaps \subseteq mishaps'
  <2>1. ASSUME NEW s \in Session, ConnectFails(s) PROVE mishaps \subseteq mishaps'
    BY <2>1 DEF ConnectFails, EndSession, Mishap
  <2>2. ASSUME NEW s \in Session, \/ AskToJoin(s) \/ ConnectToSession(s) \/ SocketOpens(s)
                                  \/ ConnectionLost(s) \/ Refused(s)
        PROVE  mishaps \subseteq mishaps'
    BY <2>2 DEF AskToJoin, ConnectToSession, SocketOpens, ConnectionLost, Refused
  <2>3. ASSUME NEW s \in Session, NEW said \in {"read", "edit"}, OnConnected(s, said)
        PROVE  mishaps \subseteq mishaps'
    BY <2>3 DEF OnConnected, Mishap
  <2>4. ASSUME NEW s \in Session,
               OnDisconnected(s) \/ OnEditPermissionGranted(s) \/ OnDirectoryTree(s)
        PROVE  mishaps \subseteq mishaps'
    BY <2>4 DEF OnDisconnected, OnEditPermissionGranted, OnDirectoryTree, EndSession, Mishap
  <2>5. ASSUME NEW t \in Invocation, AddFolder(t) \/ ApplyReadonly(t)
        PROVE  mishaps \subseteq mishaps'
    BY <2>5 DEF AddFolder, ApplyReadonly, Mishap
  <2>6. LeaveSession \/ Activate \/ UNCHANGED vars => mishaps \subseteq mishaps'
    BY DEF LeaveSession, EndSession, Mishap, Activate, vars
  <2> QED
    BY <2>1, <2>2, <2>3, <2>4, <2>5, <2>6 DEF Next
<1> QED
  BY <1>1 DEF Apart

LEMMA OnceStep ==
    TypeOK /\ History /\ OnceInv /\ AloneInv /\ [Next]_vars => OnceInv'
<1> SUFFICES ASSUME TypeOK, History, OnceInv, AloneInv, [Next]_vars, Apart' PROVE Once'
  BY DEF OnceInv
<1>0. TypeOK'
  BY TypeStep
<1>14. CASE Stop
  BY <1>14, InvocationParts DEF Stop, Once
<1>a. SUFFICES ASSUME ~Stop PROVE Once'
  BY <1>14
<1>b. Apart
  BY <1>a, ApartStep
<1>c. Once
  BY <1>b DEF OnceInv
<1> USE <1>0, <1>c, InvocationParts DEF TypeOK, Once
<1>1. ASSUME NEW s \in Session, AskToJoin(s) PROVE Once'
  BY <1>1 DEF AskToJoin, Fresh, Becomes, shared
<1>2. ASSUME NEW s \in Session, ConnectToSession(s) PROVE Once'
  BY <1>2 DEF ConnectToSession, Becomes, shared
<1>3. ASSUME NEW s \in Session, SocketOpens(s) PROVE Once'
  BY <1>3 DEF SocketOpens, Becomes, shared
<1>4. ASSUME NEW s \in Session, ConnectFails(s) PROVE Once'
  <2>1. CASE current = None
    BY <1>4, <2>1 DEF ConnectFails
  <2>2. CASE current # None
    BY <1>4, <2>2, FailFacts DEF EndEffect
  <2> QED
    BY <2>1, <2>2
<1>5. ASSUME NEW s \in Session, NEW said \in {"read", "edit"}, OnConnected(s, said) PROVE Once'
  BY <1>5 DEF OnConnected, shared
<1>6. ASSUME NEW s \in Session, ConnectionLost(s) PROVE Once'
  BY <1>6 DEF ConnectionLost, Becomes, shared
<1>7. ASSUME NEW s \in Session, Refused(s) PROVE Once'
  BY <1>7 DEF Refused, Becomes, shared
<1>8. ASSUME NEW s \in Session, OnDisconnected(s) PROVE Once'
  <2>1. EndEffect(s) /\ step' = step
    BY <1>8, EndFacts DEF OnDisconnected
  <2> QED
    BY <2>1 DEF EndEffect
<1>9. ASSUME NEW s \in Session, OnEditPermissionGranted(s) PROVE Once'
  BY <1>9 DEF OnEditPermissionGranted, RememberGrant, Mishap
<1>10. ASSUME NEW s \in Session, OnDirectoryTree(s) PROVE Once'
  <2> DEFINE t == NewTree(s)
  <2>1. TreeEffect(s, t)
    BY <1>10, TreeFacts
  <2> HIDE DEF t
  <2>2. t \in Invocation /\ t[1] = s /\ sync[s] = None
        /\ \A u \in Invocation : u[1] = s => step[u] = "none"
    BY <2>1 DEF TreeEffect, Begun
  <2>3. CASE SetupEffect(s, t)
    BY <2>2, <2>3 DEF SetupEffect
  <2>4. CASE SaveEffect(t)
    BY <2>2, <2>4 DEF SaveEffect
  <2> QED
    BY <2>1, <2>3, <2>4 DEF TreeEffect
<1>11. ASSUME NEW t \in Invocation, AddFolder(t) PROVE Once'
  <2>1. SetupEffect(t[1], t) /\ step[t] = "save"
    BY <1>11, SetupFacts DEF AddFolder
  <2>2. t[1] \in Session /\ step'[t] # "save" /\ step[t] # "none"
        /\ \A u \in Invocation : u # t => step'[u] = step[u]
        /\ \A x \in Session : x # t[1] => sync'[x] = sync[x]
    BY <2>1 DEF SetupEffect
  <2>3. ASSUME NEW u \in Invocation, NEW v \in Invocation, step'[u] # "none", step'[v] # "none",
               u[1] = v[1]
        PROVE  u = v
    BY <2>2, <2>3
  <2>4. ASSUME NEW u \in Invocation, step'[u] = "save" PROVE sync'[u[1]] = None
    <3>1. u # t /\ step[u] = "save"
      BY <2>2, <2>4
    <3>2. u[1] # t[1]
      BY <2>2, <3>1
    <3> QED
      BY <2>2, <3>1, <3>2
  <2> QED
    BY <2>3, <2>4
<1>12. ASSUME NEW t \in Invocation, ApplyReadonly(t) PROVE Once'
  BY <1>12 DEF ApplyReadonly, Layers
<1>13. CASE LeaveSession
  <2>1. EndEffect(current) /\ step' = step
    BY <1>13, EndFacts DEF LeaveSession, IsClient
  <2> QED
    BY <2>1 DEF EndEffect
<1>15. CASE Activate
  BY <1>15 DEF Activate, Fresh, Becomes, CleanupStaleVfs
<1>16. CASE UNCHANGED vars
  BY <1>16 DEF vars
<1> HIDE DEF TypeOK, Once
<1> QED
  BY <1>1, <1>2, <1>3, <1>4, <1>5, <1>6, <1>7, <1>8, <1>9, <1>10, <1>11, <1>12, <1>13, <1>15, <1>16, <1>a DEF Next

\* Only a session that is alone ends in Apart; after that nobody is set up.
LEMMA AloneAfterEnd ==
    ASSUME TypeOK, AloneInv, NEW STATE s, s \in Session, EndEffect(s), step' = step
    PROVE  AloneInv'
<1> SUFFICES ASSUME Apart' PROVE Alone'
  BY DEF AloneInv
<1>1. /\ Alone
      /\ features \in {s, None} /\ sender \in {s, None}
      /\ \A t \in Invocation : step[t] # "none" => t[1] = s
  <2>1. Apart /\ ~Meddles(s)
    BY DEF EndEffect
  <2> QED
    BY <2>1 DEF Meddles, AloneInv
<1>2. \A x \in Session : sync'[x] = None
  <2> SUFFICES ASSUME NEW x \in Session, sync'[x] # None PROVE FALSE
    OBVIOUS
  <2>1. x # s /\ sync[x] # None
    BY DEF EndEffect
  <2>2. features = x
    BY <1>1, <2>1 DEF Alone
  <2> QED
    BY <1>1, <2>1, <2>2, InvocationParts
<1>3. routes' = None
  <2> SUFFICES ASSUME routes' # None PROVE FALSE
    OBVIOUS
  <2>1. routes # None /\ routes # sync[s]
    BY DEF EndEffect
  <2>2. routes \in Invocation
    BY <2>1 DEF TypeOK
  <2>3. routes[1] = s /\ sync[routes[1]] = routes
    BY <1>1, <2>1, <2>2, InvocationParts DEF Alone
  <2> QED
    BY <2>1, <2>3
<1>4. features' = None
  BY DEF EndEffect
<1>5. \A t \in Invocation : step'[t] # "none" => t[1] = s
  BY <1>1
<1> QED
  BY <1>2, <1>3, <1>4, <1>5 DEF Alone

\* A DirectoryTree in Apart finds nothing set up and nobody about to.
LEMMA FreshTree ==
    ASSUME TypeOK, AloneInv, Apart', NEW s \in Session, NEW STATE t, TreeEffect(s, t)
    PROVE  /\ routes = None
           /\ \A u \in Invocation : step[u] = "none"
           /\ \A x \in Session : sync[x] = None
<1>1. Alone /\ ~Meddles(s) /\ ~Begun(s)
  BY DEF TreeEffect, AloneInv
<1>2. \A u \in Invocation : step[u] = "none"
  BY <1>1 DEF Meddles, Begun
<1>3. ASSUME NEW x \in Session, sync[x] # None PROVE FALSE
  <2>1. x # s /\ features = x
    BY <1>1, <1>3 DEF Begun, Alone
  <2> QED
    BY <1>1, <2>1, InvocationParts DEF Meddles
<1>4. routes = None
  <2> SUFFICES ASSUME routes # None PROVE FALSE
    OBVIOUS
  <2>1. routes \in Invocation /\ sync[routes[1]] = routes
    BY <1>1 DEF TypeOK, Alone
  <2> QED
    BY <1>3, <2>1, InvocationParts
<1> QED
  BY <1>2, <1>3, <1>4

\* In Apart nothing is set up when an invocation comes to register.
LEMMA FreeClaims ==
    ASSUME TypeOK, Once, Alone, NEW t \in Invocation, step[t] = "save"
    PROVE  routes = None /\ \A x \in Session : sync[x] = None
<1>1. ASSUME NEW x \in Session, sync[x] # None PROVE FALSE
  <2>1. features = x /\ features \in {t[1], None}
    BY <1>1 DEF Alone
  <2>2. sync[t[1]] = None
    BY DEF Once
  <2> QED
    BY <1>1, <2>1, <2>2, InvocationParts
<1>2. routes = None
  <2> SUFFICES ASSUME routes # None PROVE FALSE
    OBVIOUS
  <2>1. routes \in Invocation /\ sync[routes[1]] = routes
    BY DEF TypeOK, Alone
  <2> QED
    BY <1>1, <2>1, InvocationParts
<1> QED
  BY <1>1, <1>2

LEMMA AloneStep ==
    TypeOK /\ History /\ OnceInv /\ AloneInv /\ [Next]_vars => AloneInv'
<1> SUFFICES ASSUME TypeOK, History, OnceInv, AloneInv, [Next]_vars PROVE AloneInv'
  OBVIOUS
<1>0. TypeOK'
  BY TypeStep
<1> USE <1>0, InvocationParts, BoundAssumption DEF TypeOK, History, OnceInv, Once, AloneInv, Alone, Hearing, Open, Had
<1>1. ASSUME NEW s \in Session, AskToJoin(s) PROVE AloneInv'
  BY <1>1 DEF AskToJoin, Fresh, Becomes, shared, Apart
<1>2. ASSUME NEW s \in Session, ConnectToSession(s) PROVE AloneInv'
  BY <1>2 DEF ConnectToSession, Becomes, shared, Apart
<1>3. ASSUME NEW s \in Session, SocketOpens(s) PROVE AloneInv'
  BY <1>3 DEF SocketOpens, Becomes, shared, Apart
<1>4. ASSUME NEW s \in Session, ConnectFails(s) PROVE AloneInv'
  <2>1. CASE current = None
    BY <1>4, <2>1 DEF ConnectFails, Apart
  <2>2. CASE current # None
    BY ONLY TypeOK, TypeOK', History, OnceInv, AloneInv, <1>4, <2>2, FailFacts, AloneAfterEnd
  <2> QED
    BY <2>1, <2>2
<1>5. ASSUME NEW s \in Session, NEW said \in {"read", "edit"}, OnConnected(s, said) PROVE AloneInv'
  BY <1>5 DEF OnConnected, Mishap, Apart, shared
<1>6. ASSUME NEW s \in Session, ConnectionLost(s) PROVE AloneInv'
  BY <1>6 DEF ConnectionLost, Becomes, shared, Apart
<1>7. ASSUME NEW s \in Session, Refused(s) PROVE AloneInv'
  BY <1>7 DEF Refused, Becomes, shared, Apart
<1>8. ASSUME NEW s \in Session, OnDisconnected(s) PROVE AloneInv'
  <2>1. EndEffect(s)
    BY <1>8, EndFacts DEF OnDisconnected
  <2>2. step' = step
    BY <1>8 DEF OnDisconnected, Becomes
  <2> QED
    BY <2>1, <2>2, AloneAfterEnd
<1>9. ASSUME NEW s \in Session, OnEditPermissionGranted(s) PROVE AloneInv'
  BY <1>9 DEF OnEditPermissionGranted, Mishap, Apart
<1>10. ASSUME NEW s \in Session, OnDirectoryTree(s) PROVE AloneInv'
  <2> DEFINE t == NewTree(s)
  <2>1. TreeEffect(s, t)
    BY <1>10, TreeFacts
  <2> HIDE DEF t
  <2> SUFFICES ASSUME Apart' PROVE Alone'
    OBVIOUS
  <2>2. /\ routes = None
        /\ \A u \in Invocation : step[u] = "none"
        /\ \A x \in Session : sync[x] = None
    BY <2>1, FreshTree
  <2>3. CASE SetupEffect(s, t)
    BY <2>1, <2>2, <2>3 DEF TreeEffect, SetupEffect
  <2>4. CASE SaveEffect(t)
    <3>1. features \in {s, None}
      BY <2>1 DEF TreeEffect, Meddles
    <3> QED
      BY <2>1, <2>2, <2>4, <3>1 DEF TreeEffect, SaveEffect
  <2> QED
    BY <2>1, <2>3, <2>4 DEF TreeEffect
<1>11. ASSUME NEW t \in Invocation, AddFolder(t) PROVE AloneInv'
  <2>1. SetupEffect(t[1], t)
    BY <1>11, SetupFacts DEF AddFolder
  <2>2. step[t] = "save" /\ (Apart' => Apart)
    BY <1>11 DEF AddFolder, Mishap, Apart
  <2> SUFFICES ASSUME Apart' PROVE Alone'
    OBVIOUS
  <2>3. routes = None /\ \A x \in Session : sync[x] = None
    BY <2>2, FreeClaims
  <2>4. \A u \in Invocation : step[u] # "none" => u[1] = t[1]
    BY <2>2
  <2> QED
    BY <2>1, <2>2, <2>3, <2>4 DEF SetupEffect
<1>12. ASSUME NEW t \in Invocation, ApplyReadonly(t) PROVE AloneInv'
  BY <1>12 DEF ApplyReadonly, Layers, Apart
<1>13. CASE LeaveSession
  <2>1. EndEffect(current)
    BY <1>13, EndFacts DEF LeaveSession, IsClient
  <2>2. step' = step
    BY <1>13 DEF LeaveSession, IsClient, Becomes
  <2> QED
    BY <1>13, <2>1, <2>2, AloneAfterEnd DEF LeaveSession, IsClient
<1>14. CASE Stop
  BY <1>14 DEF Stop, Apart
<1>15. CASE Activate
  BY <1>15 DEF Activate, Fresh, Becomes, CleanupStaleVfs, Apart
<1>16. CASE UNCHANGED vars
  BY <1>16 DEF vars, Apart
<1> HIDE DEF TypeOK, History, OnceInv, Once, AloneInv, Alone, Hearing, Open, Had
<1> QED
  BY <1>1, <1>2, <1>3, <1>4, <1>5, <1>6, <1>7, <1>8, <1>9, <1>10, <1>11, <1>12, <1>13, <1>14, <1>15, <1>16 DEF Next


\* Nobody else is set up when a session in Apart speaks for the shared parts.
LEMMA NobodyElse ==
    ASSUME TypeOK, Alone, NEW STATE s, s \in Session, ~Meddles(s),
           NEW x \in Session, sync[x] # None
    PROVE  x = s
BY InvocationParts DEF Alone, Meddles

LEMMA OnlyOne ==
    ASSUME Alone, NEW t \in Invocation, step[t] # "none",
           NEW x \in Session, sync[x] # None
    PROVE  x = t[1]
BY InvocationParts DEF Alone

LEMMA ReadonlyAfterEnd ==
    ASSUME TypeOK, ReadonlyAsTold, AloneInv, NEW STATE s, s \in Session, EndEffect(s), step' = step
    PROVE  ReadonlyAsTold'
<1> SUFFICES ASSUME Heard' PROVE ReadonlyAsTold'
  BY DEF ReadonlyAsTold, Heard
<1>0. Apart'
  BY DEF Heard, Apart
<1>1. Alone /\ ~Meddles(s)
  BY <1>0 DEF EndEffect, AloneInv
<1>2. ASSUME NEW x \in Session, sync'[x] # None PROVE FALSE
  <2>1. x # s /\ sync[x] # None
    BY <1>2 DEF EndEffect
  <2> QED
    BY <1>1, <2>1, NobodyElse
<1>3. vfsReadonly'
  BY DEF EndEffect
<1> QED
  BY <1>2, <1>3 DEF ReadonlyAsTold, SetUp

LEMMA ReadonlyStep ==
    TypeOK /\ History /\ OnceInv /\ AloneInv /\ ReadonlyAsTold /\ [Next]_vars => ReadonlyAsTold'
<1> SUFFICES ASSUME TypeOK, History, OnceInv, AloneInv, ReadonlyAsTold, [Next]_vars PROVE ReadonlyAsTold'
  OBVIOUS
<1>0. TypeOK'
  BY TypeStep
<1> USE <1>0, InvocationParts, BoundAssumption DEF TypeOK, History, OnceInv, AloneInv, ReadonlyAsTold, SetUp, Apart, Heard
<1>1. ASSUME NEW s \in Session, AskToJoin(s) PROVE ReadonlyAsTold'
  BY <1>1 DEF AskToJoin, Fresh, Becomes, shared
<1>2. ASSUME NEW s \in Session, ConnectToSession(s) PROVE ReadonlyAsTold'
  BY <1>2 DEF ConnectToSession, Becomes, shared
<1>3. ASSUME NEW s \in Session, SocketOpens(s) PROVE ReadonlyAsTold'
  BY <1>3 DEF SocketOpens, Becomes, shared
<1>4. ASSUME NEW s \in Session, ConnectFails(s) PROVE ReadonlyAsTold'
  <2>1. CASE current = None
    BY <1>4, <2>1 DEF ConnectFails, Apart
  <2>2. CASE current # None
    BY ONLY TypeOK, AloneInv, ReadonlyAsTold, <1>4, <2>2, FailFacts, ReadonlyAfterEnd
  <2> QED
    BY <2>1, <2>2
<1>5. ASSUME NEW s \in Session, NEW said \in {"read", "edit"}, OnConnected(s, said) PROVE ReadonlyAsTold'
  <2>1. /\ word' = [word EXCEPT ![s] = said]
        /\ UNCHANGED <<step, sync, vfsReadonly, readonlySync>>
        /\ Mishap("relapse", Contradicts(s, said))
    BY <1>5 DEF OnConnected, shared
  <2> SUFFICES ASSUME Heard' PROVE ReadonlyAsTold'
    OBVIOUS
  <2>2. Heard /\ ~Contradicts(s, said)
    <3>1. CASE Contradicts(s, said)
      BY <2>1, <3>1 DEF Mishap
    <3>2. CASE ~Contradicts(s, said)
      BY <2>1, <3>2 DEF Mishap
    <3> QED
      BY <3>1, <3>2
  <2>3. word[s] = "edit" => said = "edit"
    BY <2>2 DEF Contradicts
  <2>4. SetUp(s) /\ word[s] # "edit" => said # "edit"
    BY <2>2 DEF Contradicts
  <2>5. \A x \in Session : word'[x] = IF x = s THEN said ELSE word[x]
    BY <2>1
  <2>6. vfsReadonly' \/ \E x \in Session : word'[x] = "edit"
    BY <2>1, <2>2, <2>3, <2>5
  <2>7. ASSUME NEW x \in Session, SetUp(x)
        PROVE  /\ word'[x] = "edit" <=> word[x] = "edit"
               /\ vfsReadonly <=> word[x] # "edit"
               /\ sync[x] \in readonlySync <=> word[x] # "edit"
    BY <2>2, <2>3, <2>4, <2>5, <2>7 DEF SetUp
  <2> QED
    BY <2>1, <2>6, <2>7
<1>6. ASSUME NEW s \in Session, ConnectionLost(s) PROVE ReadonlyAsTold'
  BY <1>6 DEF ConnectionLost, Becomes, shared
<1>7. ASSUME NEW s \in Session, Refused(s) PROVE ReadonlyAsTold'
  BY <1>7 DEF Refused, Becomes, shared
<1>8. ASSUME NEW s \in Session, OnDisconnected(s) PROVE ReadonlyAsTold'
  <2>1. EndEffect(s)
    BY <1>8, EndFacts DEF OnDisconnected
  <2>2. step' = step
    BY <1>8 DEF OnDisconnected, Becomes
  <2> QED
    BY <2>1, <2>2, ReadonlyAfterEnd
<1>9. ASSUME NEW s \in Session, OnEditPermissionGranted(s) PROVE ReadonlyAsTold'
  <2>1. /\ phase' = phase /\ sync' = sync /\ step' = step
        /\ word' = [word EXCEPT ![s] = "edit"]
        /\ vfsReadonly' = FALSE /\ readonlySync' = readonlySync \ {sync[s]}
        /\ Mishap("crossing", Meddles(s))
    BY <1>9 DEF OnEditPermissionGranted
  <2>2. Apart' => Apart /\ ~Meddles(s)
    BY <2>1, MishapFree
  <2>3. ASSUME Apart', NEW x \in Session, sync[x] # None PROVE x = s
    BY <2>2, <2>3, NobodyElse
  <2> QED
    BY <2>1, <2>3
<1>10. ASSUME NEW s \in Session, OnDirectoryTree(s) PROVE ReadonlyAsTold'
  <2> DEFINE t == NewTree(s)
  <2>1. TreeEffect(s, t)
    BY <1>10, TreeFacts
  <2> HIDE DEF t
  <2> SUFFICES ASSUME Heard' PROVE ReadonlyAsTold'
    OBVIOUS
  <2>2. routes = None
    BY <2>1, FreshTree
  <2>3. step'[t] # "none" /\ t \in Invocation
    BY <2>1, <2>2 DEF TreeEffect, SetupEffect, SaveEffect
  <2>4. Heard /\ word' = word /\ vfsReadonly' = vfsReadonly
    BY <2>1 DEF TreeEffect
  <2> QED
    BY <2>3, <2>4
<1>11. ASSUME NEW t \in Invocation, AddFolder(t) PROVE ReadonlyAsTold'
  <2> SUFFICES ASSUME Heard' PROVE ReadonlyAsTold'
    OBVIOUS
  <2>1. step[t] = "save" /\ Heard /\ word' = word /\ vfsReadonly' = vfsReadonly
    BY <1>11 DEF AddFolder, Mishap
  <2>2. routes = None
    BY <2>1, FreeClaims
  <2>3. step'[t] # "none"
    BY <1>11, <2>2 DEF AddFolder, SetupSync
  <2> QED
    BY <2>1, <2>3
<1>12. ASSUME NEW t \in Invocation, ApplyReadonly(t) PROVE ReadonlyAsTold'
  <2>1. /\ step[t] # "none" /\ vfsReadonly' = isReadonly[t[1]]
        /\ phase' = phase /\ sync' = sync /\ word' = word /\ mishaps' = mishaps
        /\ readonlySync' = IF isReadonly[t[1]] THEN readonlySync \cup Layers(t[1])
                                               ELSE readonlySync \ Layers(t[1])
    BY <1>12 DEF ApplyReadonly
  <2>2. ASSUME Apart, NEW x \in Session, sync[x] # None PROVE x = t[1]
    <3>1. Alone
      BY <2>2, Zenon DEF AloneInv
    <3> QED
      BY <2>1, <2>2, <3>1, OnlyOne
  <2>3. CASE isReadonly[t[1]]
    <3>1. vfsReadonly' /\ readonlySync' = readonlySync \cup ({sync[t[1]]} \ {None})
      BY <2>1, <2>3 DEF Layers
    <3>2. word[t[1]] # "edit"
      BY <2>3, InvocationParts
    <3> QED
      BY <2>1, <2>2, <3>1, <3>2
  <2>4. CASE ~isReadonly[t[1]]
    <3>1. ~vfsReadonly' /\ readonlySync' = readonlySync \ {sync[t[1]]}
      <4>1. readonlySync \ Layers(t[1]) = readonlySync \ {sync[t[1]]}
        BY InvocationParts DEF Layers
      <4> QED
        BY <2>1, <2>4, <4>1
    <3>2. word[t[1]] = "edit"
      BY <2>4, InvocationParts
    <3> QED
      BY <2>1, <2>2, <3>1, <3>2, InvocationParts
  <2> QED
    BY <2>3, <2>4
<1>13. CASE LeaveSession
  <2>1. EndEffect(current)
    BY <1>13, EndFacts DEF LeaveSession, IsClient
  <2>2. step' = step
    BY <1>13 DEF LeaveSession, IsClient, Becomes
  <2> QED
    BY <1>13, <2>1, <2>2, ReadonlyAfterEnd DEF LeaveSession, IsClient
<1>14. CASE Stop
  BY <1>14 DEF Stop
<1>15. CASE Activate
  BY <1>15 DEF Activate, Fresh, Becomes, CleanupStaleVfs
<1>16. CASE UNCHANGED vars
  BY <1>16 DEF vars
<1> HIDE DEF TypeOK, History, OnceInv, AloneInv, ReadonlyAsTold, SetUp, Apart, Heard
<1> QED
  BY <1>1, <1>2, <1>3, <1>4, <1>5, <1>6, <1>7, <1>8, <1>9, <1>10, <1>11, <1>12, <1>13, <1>14, <1>15, <1>16 DEF Next


\* An invocation that adds the folder and starts no mishap is not a late one.
LEMMA NotLate ==
    ASSUME NEW STATE late, Mishap("zombie", late), Whole'
    PROVE  Whole /\ ~late
BY DEF Mishap, Whole

\* A session that ends without a mishap leaves the router and the features free.
LEMMA ClaimsAfterEnd ==
    ASSUME TypeOK, History, AloneInv, ClaimsInv, NEW STATE s, s \in Session, EndEffect(s)
    PROVE  ClaimsInv'
<1> SUFFICES ASSUME Whole' PROVE ClaimsInv'
  BY DEF ClaimsInv, ClaimsMatchComponents, Whole
<1>1. Whole /\ ~Meddles(s)
  BY DEF EndEffect, Apart, Whole
<1>2. /\ alive = {routes} \ {None}
      /\ \A x \in Session : sync[x] # None => sync[x] = routes
      /\ routes # None => sync[routes[1]] = routes /\ features = routes[1]
  BY <1>1 DEF ClaimsInv, ClaimsMatchComponents, Whole
<1>3. features' = None
  BY DEF EndEffect
<1>4. CASE routes = None
  BY <1>2, <1>3, <1>4 DEF EndEffect, ClaimsInv, ClaimsMatchComponents, Whole
<1>5. CASE routes # None
  <2>1. routes[1] = s /\ sync[s] = routes
    <3>1. routes \in Invocation /\ routes[1] # None
      BY <1>5, InvocationParts DEF TypeOK
    <3>2. features \in {s, None}
      BY <1>1 DEF Meddles
    <3> QED
      BY <1>2, <1>5, <3>1, <3>2
  <2>2. routes' = None /\ alive' = {}
    BY <1>2, <2>1 DEF EndEffect
  <2>3. \A x \in Session : sync'[x] = None
    <3> SUFFICES ASSUME NEW x \in Session, x # s PROVE sync[x] = None
      BY DEF EndEffect
    <3> QED
      BY <1>2, <2>1 DEF History
  <2> QED
    BY <1>3, <2>2, <2>3 DEF ClaimsInv, ClaimsMatchComponents, Whole
<1> QED
  BY <1>4, <1>5

LEMMA ClaimsStep ==
    TypeOK /\ History /\ OnceInv /\ AloneInv /\ ClaimsInv /\ [Next]_vars => ClaimsInv'
<1> SUFFICES ASSUME TypeOK, History, OnceInv, AloneInv, ClaimsInv, [Next]_vars PROVE ClaimsInv'
  OBVIOUS
<1>0. TypeOK'
  BY TypeStep
<1> USE <1>0, InvocationParts, BoundAssumption DEF TypeOK, History, OnceInv, AloneInv, Apart, ClaimsInv, ClaimsMatchComponents, Hearing, Open, Had, Whole
<1>1. ASSUME NEW s \in Session, AskToJoin(s) PROVE ClaimsInv'
  BY <1>1 DEF AskToJoin, Fresh, Becomes, shared
<1>2. ASSUME NEW s \in Session, ConnectToSession(s) PROVE ClaimsInv'
  BY <1>2 DEF ConnectToSession, Becomes, shared
<1>3. ASSUME NEW s \in Session, SocketOpens(s) PROVE ClaimsInv'
  BY <1>3 DEF SocketOpens, Becomes, shared
<1>4. ASSUME NEW s \in Session, ConnectFails(s) PROVE ClaimsInv'
  <2>1. CASE current = None
    BY <1>4, <2>1 DEF ConnectFails
  <2>2. CASE current # None
    <3>1. EndEffect(current)
      BY <1>4, <2>2, EndFacts DEF ConnectFails
    <3> QED
      BY <2>2, <3>1, ClaimsAfterEnd
  <2> QED
    BY <2>1, <2>2
<1>5. ASSUME NEW s \in Session, NEW said \in {"read", "edit"}, OnConnected(s, said) PROVE ClaimsInv'
  BY <1>5 DEF OnConnected, Mishap, shared
<1>6. ASSUME NEW s \in Session, ConnectionLost(s) PROVE ClaimsInv'
  BY <1>6 DEF ConnectionLost, Becomes, shared
<1>7. ASSUME NEW s \in Session, Refused(s) PROVE ClaimsInv'
  BY <1>7 DEF Refused, Becomes, shared
<1>8. ASSUME NEW s \in Session, OnDisconnected(s) PROVE ClaimsInv'
  <2>1. EndEffect(s)
    BY <1>8, EndFacts DEF OnDisconnected
  <2> QED
    BY <2>1, ClaimsAfterEnd
<1>9. ASSUME NEW s \in Session, OnEditPermissionGranted(s) PROVE ClaimsInv'
  BY <1>9 DEF OnEditPermissionGranted, Mishap
<1>10. ASSUME NEW s \in Session, OnDirectoryTree(s) PROVE ClaimsInv'
  <2> DEFINE t == NewTree(s)
  <2>1. TreeEffect(s, t)
    BY <1>10, TreeFacts
  <2> HIDE DEF t
  <2> SUFFICES ASSUME Whole' PROVE ClaimsInv'
    OBVIOUS
  <2>2. Whole /\ routes = None
    <3>1. Apart' /\ Whole
      BY <2>1 DEF TreeEffect
    <3> QED
      BY ONLY TypeOK, AloneInv, s \in Session, <2>1, <3>1, FreshTree
  <2>5. features = None /\ alive = {} /\ \A x \in Session : sync[x] = None
    BY <2>2
  <2>3. CASE SetupEffect(s, t)
    BY <2>1, <2>2, <2>3, <2>5 DEF TreeEffect, SetupEffect
  <2>4. CASE SaveEffect(t)
    BY <2>2, <2>4, <2>5 DEF SaveEffect
  <2> QED
    BY <2>1, <2>3, <2>4 DEF TreeEffect
<1>11. ASSUME NEW t \in Invocation, AddFolder(t) PROVE ClaimsInv'
  <2> SUFFICES ASSUME Whole' PROVE ClaimsInv'
    OBVIOUS
  <2>1. step[t] = "save" /\ Whole /\ phase' = phase /\ phase[t[1]] # "done"
    <3>1. step[t] = "save" /\ phase' = phase /\ Mishap("zombie", phase[t[1]] = "done")
      BY <1>11 DEF AddFolder
    <3>2. Whole /\ phase[t[1]] # "done"
      BY ONLY <3>1, NotLate, Whole'
    <3> QED
      BY <3>1, <3>2
  <2>2. routes = None
    BY <2>1, FreeClaims
  <2>3. features = None /\ alive = {} /\ \A x \in Session : sync[x] = None
    BY <2>1, <2>2
  <2>4. phase[t[1]] \in Had
    <3>1. t[1] \in Session /\ trees[t[1]] \in Nat /\ trees[t[1]] > 0
      BY <2>1, InvocationParts
    <3> QED
      BY ONLY <2>1, <3>1, History DEF History
  <2>5. SetupEffect(t[1], t)
    BY <1>11, SetupFacts DEF AddFolder
  <2> QED
    BY <2>1, <2>2, <2>3, <2>4, <2>5, InvocationParts DEF SetupEffect
<1>12. ASSUME NEW t \in Invocation, ApplyReadonly(t) PROVE ClaimsInv'
  BY <1>12 DEF ApplyReadonly, Layers
<1>13. CASE LeaveSession
  <2>1. EndEffect(current)
    BY <1>13, EndFacts DEF LeaveSession, IsClient
  <2> QED
    BY <1>13, <2>1, ClaimsAfterEnd DEF LeaveSession, IsClient
<1>14. CASE Stop
  BY <1>14 DEF Stop
<1>15. CASE Activate
  BY <1>15 DEF Activate, Fresh, Becomes, CleanupStaleVfs
<1>16. CASE UNCHANGED vars
  BY <1>16 DEF vars
<1> HIDE DEF TypeOK, History, OnceInv, AloneInv, Apart, ClaimsInv, ClaimsMatchComponents, Hearing, Open, Had, Whole
<1> QED
  BY <1>1, <1>2, <1>3, <1>4, <1>5, <1>6, <1>7, <1>8, <1>9, <1>10, <1>11, <1>12, <1>13, <1>14, <1>15, <1>16 DEF Next

LEMMA InvInit == Init => ClientInv
<1> SUFFICES ASSUME Init PROVE ClientInv
  OBVIOUS
<1>1. TypeOK
  BY InitType
<1>2. /\ \A s \in Session : /\ isReadonly[s] /\ word[s] = "none" /\ sync[s] = None
                            /\ trees[s] = 0 /\ phase[s] = "unused"
      /\ \A t \in Invocation : step[t] = "none"
      /\ routes = None /\ features = None /\ sender = None /\ alive = {}
      /\ ~running /\ vfsReadonly
  BY InvocationParts DEF Init
<1>3. History
  BY <1>2, InvocationParts DEF History
<1>4. OnceInv
  BY <1>2, InvocationParts DEF OnceInv, Once
<1>5. AloneInv
  BY <1>2, InvocationParts DEF AloneInv, Alone
<1>6. ReadonlyAsTold
  BY <1>2 DEF ReadonlyAsTold, SetUp
<1>7. ClaimsInv
  BY <1>2 DEF ClaimsInv, ClaimsMatchComponents
<1>8. FolderHasKeeper
  BY <1>2 DEF FolderHasKeeper
<1> QED
  BY <1>1, <1>3, <1>4, <1>5, <1>6, <1>7, <1>8 DEF ClientInv

LEMMA InvStep == ClientInv /\ [Next]_vars => ClientInv'
BY TypeStep, HistoryStep, OnceStep, AloneStep, ReadonlyStep, ClaimsStep, FolderStep DEF ClientInv

\* The variables of ClientSession keep their types.
THEOREM ClientTypes == Spec => []TypeOK
BY InitType, TypeStep, PTL DEF Spec

\* Nobody edits what the host has not opened for editing, and a session that
\* is set up follows the host's last word.
THEOREM ReadonlyIsAsTold == Spec => []ReadonlyAsTold
BY InvInit, InvStep, PTL DEF Spec, ClientInv

\* The router's claims, the components and the features come and go together.
THEOREM ClaimsAreMatched == Spec => []ClaimsMatchComponents
BY InvInit, InvStep, PTL DEF Spec, ClientInv, ClaimsInv

\* No virtual folder is left in the workspace without a session behind it.
THEOREM FolderIsKept == Spec => []FolderHasKeeper
BY InvInit, InvStep, PTL DEF Spec, ClientInv

===============================================================================
