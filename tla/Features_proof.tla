--------------------------- MODULE Features_proof ----------------------------
(***************************************************************************)
(* Proofs about five features, for every number of requests, sessions,     *)
(* files, changes and movements.  IntelliSense and FileContents: answers fit *)
(* the requests that take them, every step of the table is a step of Requests *)
(* or none, and who waits for a file's text is held by something that ends *)
(* the wait.  Diagnostics, FollowMode and GitStatus: what the client shows of *)
(* the host's problems and git status is what the host has, and a follower is *)
(* where its partner is, once everything has arrived.                      *)
(***************************************************************************)
EXTENDS IntelliSense, FileContents, Diagnostics, FollowMode, GitStatus, WellFoundedInduction, TLAPS

-------------------------------------------------------------------------------
(* IntelliSense *)

\* What has been sent has a number of its own in its session; numbers of this
\* session are at most the counter.
Numbered ==
    /\ \A r \in Request : of[r] <= session
    /\ \A r \in Request : of[r] = session => id[r] <= counter
    /\ \A r, q \in Request : id[r] # 0 /\ id[r] = id[q] /\ of[r] = of[q] => r = q
    /\ \A r \in toHost \cup jobs \cup toClient \cup listening \cup probing : id[r] # 0
    /\ \A r \in Request : result[r] \in Request => id[r] # 0 /\ id[result[r]] # 0

\* The table has the requests of this session that have no result, and each
\* has its timer.
TableIsComplete ==
    /\ timers = pending
    /\ \A r \in pending : live /\ of[r] = session /\ id[r] # 0 /\ result[r] = "none"
    /\ \A r \in Request :
        InSession(r) /\ id[r] # 0 /\ result[r] = "none" => r \in pending

IsenseInv == IsenseTypeOK /\ Numbered /\ TableIsComplete /\ AnswersFit

-------------------------------------------------------------------------------
LEMMA InvInit == IsenseInit => IsenseInv
BY ResultAssumption
DEF IsenseInit, IsenseInv, IsenseTypeOK, Numbered, TableIsComplete, AnswersFit, InSession

LEMMA IsenseTypeStep == IsenseTypeOK /\ [IsenseNext]_isenseVars => IsenseTypeOK'
<1> SUFFICES ASSUME IsenseTypeOK, [IsenseNext]_isenseVars PROVE IsenseTypeOK'
  OBVIOUS
<1> USE DEF IsenseTypeOK
<1>1. ASSUME NEW r \in Request, Refuse(r) \/ TimerFires(r) \/ ProbeEnds(r) \/ HostReceives(r)
                                  \/ HostAnswers(r)
      PROVE IsenseTypeOK'
  BY <1>1 DEF Refuse, TimerFires, ProbeEnds, HostReceives, HostAnswers, Resolved
<1>2. ASSUME NEW r \in Request, Cancel(r) PROVE IsenseTypeOK'
  BY <1>2 DEF Cancel, CancelResolves, Resolved
<1>3. ASSUME NEW r \in Request, ResponseArrives(r) PROVE IsenseTypeOK'
  BY <1>3 DEF ResponseArrives, Resolved
<1>4. ASSUME NEW r \in Request, NEW c \in BOOLEAN, Ask(r, c) PROVE IsenseTypeOK'
  <2>1. probing' \subseteq Request /\ counter' \in Nat
    BY <1>4 DEF Ask, NextNumber
  <2>2. id' \in [Request -> Nat] /\ of' \in [Request -> Nat]
    BY <1>4 DEF Ask
  <2> QED
    BY <1>4, <2>1, <2>2 DEF Ask
<1>5. CASE Dispose \/ Rejoin
  <2>1. live' \in BOOLEAN
    BY <1>5, Zenon DEF Dispose, Rejoin
  <2>2. CASE Dispose
    BY <2>1, <2>2 DEF Dispose
  <2>3. CASE Rejoin
    BY <2>1, <2>3 DEF Rejoin
  <2> QED
    BY <1>5, <2>2, <2>3
<1>6. CASE UNCHANGED isenseVars
  BY <1>6 DEF isenseVars
<1> HIDE DEF IsenseTypeOK
<1> QED
  BY <1>1, <1>2, <1>3, <1>4, <1>5, <1>6 DEF IsenseNext

\* Tables, queues and results hold what the handlers may put into them.
THEOREM IsenseTypes == IsenseSpec => []IsenseTypeOK
BY InvInit, IsenseTypeStep, PTL DEF IsenseSpec, IsenseInv

LEMMA InvStep == IsenseInv /\ [IsenseNext]_isenseVars => IsenseInv'
<1> SUFFICES ASSUME IsenseInv, [IsenseNext]_isenseVars PROVE IsenseInv'
  OBVIOUS
<1>0. IsenseTypeOK /\ IsenseTypeOK'
  BY IsenseTypeStep DEF IsenseInv
<1> SUFFICES (Numbered /\ TableIsComplete /\ AnswersFit)'
  BY <1>0 DEF IsenseInv
<1> USE <1>0, ResultAssumption
    DEF IsenseInv, IsenseTypeOK, Numbered, TableIsComplete, AnswersFit, InSession
<1>1. ASSUME NEW r \in Request, Refuse(r)
      PROVE (Numbered /\ TableIsComplete /\ AnswersFit)'
  BY <1>1 DEF Refuse, New, Resolved
<1>2. ASSUME NEW r \in Request, ProbeEnds(r) \/ HostReceives(r) \/ HostAnswers(r)
      PROVE (Numbered /\ TableIsComplete /\ AnswersFit)'
  BY <1>2 DEF ProbeEnds, HostReceives, HostAnswers
<1>3. ASSUME NEW r \in Request, TimerFires(r)
      PROVE (Numbered /\ TableIsComplete /\ AnswersFit)'
  BY <1>3 DEF TimerFires, Resolved
<1>4. ASSUME NEW r \in Request, Cancel(r)
      PROVE (Numbered /\ TableIsComplete /\ AnswersFit)'
  BY <1>4 DEF Cancel, CancelResolves, Resolved
<1>5. ASSUME NEW a \in Request, ResponseArrives(a)
      PROVE (Numbered /\ TableIsComplete /\ AnswersFit)'
  <2> DEFINE hit == {r \in pending : id[r] = id[a]}
  <2>1. /\ a \in toClient /\ id[a] # 0 /\ of[a] <= session
        /\ pending' = pending \ hit /\ timers' = timers \ hit /\ listening' = listening \ hit
        /\ toClient' = toClient \ {a}
        /\ result' = Resolved(hit, a)
        /\ UNCHANGED <<session, live, counter, id, of, probing, toHost, jobs>>
    BY <1>5 DEF ResponseArrives
  <2>2. \A r \in hit : id[r] = id[a] /\ of[r] = session /\ r \in Request /\ result[r] = "none"
    OBVIOUS
  <2>3. \A r \in Request : result'[r] = IF r \in hit THEN a ELSE result[r]
    BY <2>1, <2>2 DEF Resolved
  <2> HIDE DEF hit
  <2>4. \A r \in hit : a = r \/ of[a] < of[r]
    BY <2>1, <2>2
  <2>5. AnswersFit'
    BY <2>1, <2>2, <2>3, <2>4
  <2>6. Numbered'
    BY <2>1, <2>2, <2>3
  <2>7. TableIsComplete'
    BY <2>1, <2>2, <2>3
  <2> QED
    BY <2>5, <2>6, <2>7
<1>6. ASSUME NEW r \in Request, NEW c \in BOOLEAN, Ask(r, c)
      PROVE (Numbered /\ TableIsComplete /\ AnswersFit)'
  <2>1. Numbered'
    BY <1>6 DEF Ask, New, NextNumber
  <2>2. TableIsComplete'
    BY <1>6 DEF Ask, New, NextNumber
  <2>3. AnswersFit'
    BY <1>6 DEF Ask, New, NextNumber
  <2> QED
    BY <2>1, <2>2, <2>3
<1>7. CASE Dispose
  BY <1>7 DEF Dispose
<1>8. CASE Rejoin
  BY <1>8 DEF Rejoin
<1>9. CASE UNCHANGED isenseVars
  BY <1>9 DEF isenseVars
<1> QED
  BY <1>1, <1>2, <1>3, <1>4, <1>5, <1>6, <1>7, <1>8, <1>9 DEF IsenseNext

\* An answer is taken for its own request, or for one of a later session that
\* was given the same number.
THEOREM AnswersFitRequests == IsenseSpec => []AnswersFit
BY InvInit, InvStep, PTL DEF IsenseSpec, IsenseInv

-------------------------------------------------------------------------------
(* The refinement *)

Phases == [r \in Request |-> Phase(r)]

\* At most r changes its phase, in the way that `from` and `to` say.
LEMMA OnePhase ==
    ASSUME NEW r \in Request, NEW from, NEW to, UNCHANGED live,
           \A q \in Request : q # r => Phase(q)' = Phase(q),
           Phase(r) = from /\ Phase(r)' = to
    PROVE  Promised!Move(r, from, to)
BY DEF Promised!Move

LEMMA NoPhase ==
    ASSUME UNCHANGED live, \A q \in Request : Phase(q)' = Phase(q)
    PROVE  UNCHANGED Promised!reqVars
BY DEF Promised!reqVars

LEMMA InitRefines == IsenseInit => Promised!Init
BY DEF IsenseInit, Promised!Init, Phase

\* A request that gets its result, or whose probe ends, moves on or stays.
LEMMA StepRefines == IsenseInv /\ [IsenseNext]_isenseVars => [Promised!Next]_(Promised!reqVars)
<1> SUFFICES ASSUME IsenseInv, [IsenseNext]_isenseVars
             PROVE  Promised!Next \/ UNCHANGED Promised!reqVars
  OBVIOUS
<1> USE ResultAssumption DEF IsenseInv, IsenseTypeOK, Numbered, TableIsComplete, InSession
<1>1. ASSUME NEW r \in Request, Refuse(r) PROVE Promised!Next
  <2>1. \A q \in Request : q # r => Phase(q)' = Phase(q)
    BY <1>1 DEF Refuse, New, Resolved, Phase
  <2>2. Phase(r) = "idle" /\ Phase(r)' = "ended"
    BY <1>1 DEF Refuse, New, Resolved, Phase
  <2>3. live /\ UNCHANGED live
    BY <1>1 DEF Refuse, New
  <2> QED
    BY <2>1, <2>2, <2>3, OnePhase DEF Promised!Next, Promised!Refuse
<1>2. ASSUME NEW r \in Request, NEW c \in BOOLEAN, Ask(r, c) PROVE Promised!Next
  <2>1. \A q \in Request : q # r => Phase(q)' = Phase(q)
    BY <1>2 DEF Ask, Phase
  <2>2. Phase(r) = "idle" /\ Phase(r)' = "waiting"
    BY <1>2 DEF Ask, New, NextNumber, Phase
  <2>3. live /\ UNCHANGED live
    BY <1>2 DEF Ask, New
  <2> QED
    BY <2>1, <2>2, <2>3, OnePhase DEF Promised!Next, Promised!Ask
<1>3. ASSUME NEW r \in Request, UNCHANGED live,
             \A q \in Request : q # r => Phase(q)' = Phase(q),
             \/ live /\ Phase(r) = "waiting" /\ Phase(r)' = "ended"
             \/ Phase(r) = "abandoned" /\ Phase(r)' = "ended"
             \/ Phase(r)' = Phase(r)
      PROVE Promised!Next \/ UNCHANGED Promised!reqVars
  <2>1. CASE live /\ Phase(r) = "waiting" /\ Phase(r)' = "ended"
    BY <1>3, <2>1, OnePhase DEF Promised!Next, Promised!Settle
  <2>2. CASE Phase(r) = "abandoned" /\ Phase(r)' = "ended"
    BY <1>3, <2>2, OnePhase DEF Promised!Next, Promised!Cancel
  <2>3. CASE Phase(r)' = Phase(r)
    BY <1>3, <2>3, NoPhase
  <2> QED
    BY <1>3, <2>1, <2>2, <2>3
<1>4. ASSUME NEW r \in Request, ProbeEnds(r)
      PROVE Promised!Next \/ UNCHANGED Promised!reqVars
  BY <1>3, <1>4 DEF ProbeEnds, Phase
<1>5. ASSUME NEW r \in Request, TimerFires(r)
      PROVE Promised!Next \/ UNCHANGED Promised!reqVars
  BY <1>3, <1>5 DEF TimerFires, Resolved, Phase
<1>6. ASSUME NEW r \in Request, Cancel(r)
      PROVE Promised!Next \/ UNCHANGED Promised!reqVars
  BY <1>3, <1>6 DEF Cancel, CancelResolves, Resolved, Phase
<1>7. ASSUME NEW a \in Request, ResponseArrives(a)
      PROVE Promised!Next \/ UNCHANGED Promised!reqVars
  <2> DEFINE hit == {r \in pending : id[r] = id[a]}
  <2>1. /\ timers' = timers \ hit /\ result' = Resolved(hit, a)
        /\ UNCHANGED <<session, live, id, of, probing>>
    BY <1>7 DEF ResponseArrives
  <2>2. CASE hit = {}
    BY <2>1, <2>2, NoPhase DEF Resolved, Phase
  <2>3. CASE hit # {}
    <3>1. PICK r \in hit : TRUE
      BY <2>3
    <3>2. \A q \in hit : q = r
      BY <3>1
    <3>3. \A q \in Request : q # r => Phase(q)' = Phase(q)
      BY <2>1, <3>2 DEF Resolved, Phase
    <3>4. live /\ r \in Request /\ Phase(r) = "waiting" /\ Phase(r)' \in {"ended", "waiting"}
      BY <2>1, <3>1 DEF Resolved, Phase
    <3> QED
      BY <1>3, <2>1, <3>3, <3>4
  <2> QED
    BY <2>2, <2>3
<1>8. ASSUME NEW r \in Request, HostReceives(r) \/ HostAnswers(r)
      PROVE UNCHANGED Promised!reqVars
  BY <1>8, NoPhase DEF HostReceives, HostAnswers, Phase
<1>9. CASE Dispose
  <2>1. live /\ ~live' /\ UNCHANGED <<id, of, probing, result>>
    BY <1>9 DEF Dispose
  <2>2. \A r \in Request : Phase(r)' = IF Phase(r) = "waiting" THEN "abandoned" ELSE Phase(r)
    BY <2>1 DEF Phase
  <2>3. Promised!Close
    BY <2>1, <2>2 DEF Promised!Close
  <2> QED
    BY <2>3 DEF Promised!Next
<1>10. CASE Rejoin
  <2>1. ~live /\ live' /\ session' = session + 1 /\ UNCHANGED <<id, of, timers, probing, result>>
    BY <1>10 DEF Rejoin
  <2>2. \A r \in Request : Phase(r)' = Phase(r)
    BY <2>1 DEF Phase
  <2>3. Promised!Reopen
    BY <2>1, <2>2 DEF Promised!Reopen
  <2> QED
    BY <2>3 DEF Promised!Next
<1>11. CASE UNCHANGED isenseVars
  BY <1>11, NoPhase DEF isenseVars, Phase
<1> QED
  BY <1>1, <1>2, <1>4, <1>5, <1>6, <1>7, <1>8, <1>9, <1>10, <1>11 DEF IsenseNext

\* The table implements what Requests promises: no request ends twice, or is
\* left without an end while its session lasts.
THEOREM TableImplementsRequests == IsenseSpec => Promised!Spec
BY InvInit, InvStep, InitRefines, StepRefines, PTL DEF IsenseSpec, Promised!Spec

-------------------------------------------------------------------------------
(* FileContents *)

LEMMA ReadInitType == ReadInit => ReadTypeOK
BY EntryAssumption DEF ReadInit, ReadTypeOK

LEMMA ReadTypeStep == ReadTypeOK /\ [ReadNext]_readVars => ReadTypeOK'
<1> SUFFICES ASSUME ReadTypeOK, [ReadNext]_readVars PROVE ReadTypeOK'
  OBVIOUS
<1> USE EntryAssumption DEF ReadTypeOK
<1>1. ASSUME NEW r \in Reader, ReadCached(r) PROVE ReadTypeOK'
  BY <1>1 DEF ReadCached
<1>2. ASSUME NEW r \in Reader, RequestContent(r) PROVE ReadTypeOK'
  BY <1>2 DEF RequestContent, BeginsWaiting
<1>3. ASSUME NEW r \in Reader, ShareRequest(r) PROVE ReadTypeOK'
  BY <1>3 DEF ShareRequest, BeginsWaiting, ChainResolver
<1>4. ASSUME NEW r \in Reader, ContentTimeout(r) PROVE ReadTypeOK'
  <2>1. CASE resolver = {}
    BY <1>4, <2>1 DEF ContentTimeout
  <2>2. CASE resolver # {}
    <3>1. cache' \in {"none", "empty", "text"} /\ (entry' = 0 => cache' = "none")
      BY <1>4, <2>2 DEF ContentTimeout, ResolveReads
    <3> QED
      BY <1>4, <2>2, <3>1 DEF ContentTimeout, ResolveReads
  <2> QED
    BY <2>1, <2>2
<1>5. CASE HandleContentResponse
  <2>1. cache' \in {"none", "empty", "text"} /\ (entry' = 0 => cache' = "none")
    BY <1>5 DEF HandleContentResponse, ResolveReads
  <2> QED
    BY <1>5, <2>1 DEF HandleContentResponse, ResolveReads
<1>6. CASE HandleContentRequest
  BY <1>6 DEF HandleContentRequest
<1>7. CASE PopulateEntry \/ EntryCreated \/ WriteEntry
  BY <1>7 DEF PopulateEntry, EntryCreated, WriteEntry
<1>8. CASE TeardownReads
  BY <1>8 DEF TeardownReads, EndReads
<1>9. CASE UNCHANGED readVars
  BY <1>9 DEF readVars
<1> QED
  BY <1>1, <1>2, <1>3, <1>4, <1>5, <1>6, <1>7, <1>8, <1>9 DEF ReadNext

\* The readers of a file (readFile() of pairProgFileSystemProvider.ts), its
\* request and its entries keep their types, however many they are.
THEOREM ReadTypes == ReadSpec => []ReadTypeOK
BY ReadInitType, ReadTypeStep, PTL DEF ReadSpec

LEMMA HeldInit == ReadInit => WaitersAreHeld
BY DEF ReadInit, WaitersAreHeld, WaitingReaders

LEMMA HeldStep ==
    ReadTypeOK /\ WaitersAreHeld /\ [ReadNext]_readVars => WaitersAreHeld'
<1> SUFFICES ASSUME ReadTypeOK, WaitersAreHeld, [ReadNext]_readVars PROVE WaitersAreHeld'
  OBVIOUS
<1> USE DEF ReadTypeOK, WaitersAreHeld, WaitingReaders
<1>1. ASSUME NEW r \in Reader, ReadCached(r) PROVE WaitersAreHeld'
  BY <1>1 DEF ReadCached
<1>2. ASSUME NEW r \in Reader, RequestContent(r) PROVE WaitersAreHeld'
  BY <1>2 DEF RequestContent, BeginsWaiting
<1>3. ASSUME NEW r \in Reader, ShareRequest(r) PROVE WaitersAreHeld'
  BY <1>3 DEF ShareRequest, BeginsWaiting, ChainResolver
<1>4. ASSUME NEW r \in Reader, ContentTimeout(r) PROVE WaitersAreHeld'
  <2>1. CASE resolver = {}
    BY <1>4, <2>1 DEF ContentTimeout
  <2>2. CASE resolver # {}
    BY <1>4, <2>2 DEF ContentTimeout, ResolveReads
  <2> QED
    BY <2>1, <2>2
<1>5. CASE HandleContentResponse
  BY <1>5 DEF HandleContentResponse, ResolveReads
<1>6. CASE HandleContentRequest
  BY <1>6 DEF HandleContentRequest
<1>7. CASE PopulateEntry \/ EntryCreated \/ WriteEntry
  BY <1>7 DEF PopulateEntry, EntryCreated, WriteEntry
<1>8. CASE TeardownReads
  BY <1>8 DEF TeardownReads, EndReads
<1>9. CASE UNCHANGED readVars
  BY <1>9 DEF readVars
<1> QED
  BY <1>1, <1>2, <1>3, <1>4, <1>5, <1>6, <1>7, <1>8, <1>9 DEF ReadNext

\* Every reader that waits is held by the pending request, and a timer runs
\* for it: no reader hangs but those that the timer of another one robbed.
THEOREM ReadersAreHeld == ReadSpec => []WaitersAreHeld
BY ReadInitType, ReadTypeStep, HeldInit, HeldStep, PTL DEF ReadSpec

-------------------------------------------------------------------------------
(* Diagnostics *)

\* A DiagnosticsUpdate
DiagUpdate == UNION {[S -> 0 .. MaxDiagChange] : S \in SUBSET DiagFile}

\* The last frame on the way that mentions f has what it should.
Arriving(f) ==
    \E i \in DOMAIN diagToClient :
        /\ f \in DOMAIN diagToClient[i] /\ diagToClient[i][f] = problems[f]
        /\ \A j \in DOMAIN diagToClient : j > i => f \notin DOMAIN diagToClient[j]

Unmentioned(f) == \A j \in DOMAIN diagToClient : f \notin DOMAIN diagToClient[j]

\* What the client shows of f is right, or is going to be.
FileFollows(f) ==
    \/ f \in pendingUris
    \/ Arriving(f)
    \/ /\ Unmentioned(f)
       /\ collection[f] = problems[f]
           \/ (problems[f] # 0 /\ (diagUp # "asked" \/ diagToHost > 0))

DiagInv ==
    /\ DiagTypeOK
    /\ diagToClient \in Seq(DiagUpdate)
    /\ pendingUris # {} => debounce
    /\ diagUp = "off" => \A f \in DiagFile : collection[f] = 0
    /\ \A f \in DiagFile : FileFollows(f)

LEMMA UpdateTyped ==
    ASSUME DiagTypeOK, NEW S \in SUBSET DiagFile
    PROVE  UpdateOf(S) \in DiagUpdate
<1>1. UpdateOf(S) \in [S -> 0 .. MaxDiagChange]
  BY DEF UpdateOf, DiagTypeOK, Versions
<1> QED BY <1>1 DEF DiagUpdate

LEMMA UpdateShape ==
    ASSUME NEW u \in DiagUpdate
    PROVE  DOMAIN u \subseteq DiagFile /\ \A f \in DOMAIN u : u[f] \in 0 .. MaxDiagChange
BY DEF DiagUpdate

LEMMA FrameSent ==
    ASSUME diagToClient \in Seq(DiagUpdate), NEW u \in DiagUpdate, NEW f,
           diagToClient' = Append(diagToClient, u), UNCHANGED problems
    PROVE  /\ f \in DOMAIN u /\ u[f] = problems[f] => Arriving(f)'
           /\ f \notin DOMAIN u /\ Arriving(f) => Arriving(f)'
           /\ f \notin DOMAIN u /\ Unmentioned(f) => Unmentioned(f)'
<1>1. /\ DOMAIN diagToClient = 1 .. Len(diagToClient) /\ Len(diagToClient) \in Nat
      /\ DOMAIN diagToClient' = 1 .. Len(diagToClient) + 1
      /\ \A i \in DOMAIN diagToClient : diagToClient'[i] = diagToClient[i]
      /\ diagToClient'[Len(diagToClient) + 1] = u
  OBVIOUS
<1>2. ASSUME f \in DOMAIN u, u[f] = problems[f] PROVE Arriving(f)'
  BY <1>1, <1>2 DEF Arriving
<1>3. ASSUME f \notin DOMAIN u, Arriving(f) PROVE Arriving(f)'
  <2>1. PICK i \in DOMAIN diagToClient :
          /\ f \in DOMAIN diagToClient[i] /\ diagToClient[i][f] = problems[f]
          /\ \A j \in DOMAIN diagToClient : j > i => f \notin DOMAIN diagToClient[j]
    BY <1>3 DEF Arriving
  <2>2. \A j \in DOMAIN diagToClient' : j > i => f \notin DOMAIN diagToClient'[j]
    BY <1>1, <1>3, <2>1
  <2> QED BY <1>1, <2>1, <2>2 DEF Arriving
<1>4. ASSUME f \notin DOMAIN u, Unmentioned(f) PROVE Unmentioned(f)'
  BY <1>1, <1>4 DEF Unmentioned
<1> QED BY <1>2, <1>3, <1>4

LEMMA FrameTaken ==
    ASSUME diagToClient \in Seq(DiagUpdate), diagToClient # << >>, NEW f,
           diagToClient' = Tail(diagToClient), UNCHANGED problems
    PROVE  /\ Arriving(f) => \/ Arriving(f)'
                             \/ /\ Unmentioned(f)' /\ f \in DOMAIN Head(diagToClient)
                                /\ Head(diagToClient)[f] = problems[f]
           /\ Unmentioned(f) => Unmentioned(f)' /\ f \notin DOMAIN Head(diagToClient)
<1>1. /\ DOMAIN diagToClient = 1 .. Len(diagToClient) /\ Len(diagToClient) \in Nat \ {0}
      /\ DOMAIN diagToClient' = 1 .. Len(diagToClient) - 1
      /\ \A i \in DOMAIN diagToClient' : diagToClient'[i] = diagToClient[i + 1]
      /\ Head(diagToClient) = diagToClient[1]
  OBVIOUS
<1>2. ASSUME Arriving(f)
      PROVE  \/ Arriving(f)'
             \/ /\ Unmentioned(f)' /\ f \in DOMAIN Head(diagToClient)
                /\ Head(diagToClient)[f] = problems[f]
  <2>1. PICK i \in DOMAIN diagToClient :
          /\ f \in DOMAIN diagToClient[i] /\ diagToClient[i][f] = problems[f]
          /\ \A j \in DOMAIN diagToClient : j > i => f \notin DOMAIN diagToClient[j]
    BY <1>2 DEF Arriving
  <2>2. \A j \in DOMAIN diagToClient' : j + 1 > i => f \notin DOMAIN diagToClient'[j]
    BY <1>1, <2>1
  <2>3. CASE i = 1
    <3>1. Unmentioned(f)'
      BY <1>1, <2>2, <2>3 DEF Unmentioned
    <3> QED BY <1>1, <2>1, <2>3, <3>1
  <2>4. CASE i # 1
    <3>1. i - 1 \in DOMAIN diagToClient' /\ diagToClient'[i - 1] = diagToClient[i]
      BY <1>1, <2>4
    <3>2. \A j \in DOMAIN diagToClient' : j > i - 1 => f \notin DOMAIN diagToClient'[j]
      BY <1>1, <2>2, <3>1
    <3> QED BY <2>1, <3>1, <3>2 DEF Arriving
  <2> QED BY <2>3, <2>4
<1>3. ASSUME Unmentioned(f) PROVE Unmentioned(f)' /\ f \notin DOMAIN Head(diagToClient)
  BY <1>1, <1>3 DEF Unmentioned
<1> QED BY <1>2, <1>3

LEMMA DiagInitHolds == DiagInit => DiagInv
<1> SUFFICES ASSUME DiagInit PROVE DiagInv
  OBVIOUS
<1>1. DiagTypeOK
  <2>1. problems \in Versions /\ collection \in Versions /\ diagChanges \in 0 .. MaxDiagChange
    BY DiagAssumption DEF DiagInit, Versions
  <2>2. \A i \in DOMAIN diagToClient : DOMAIN diagToClient[i] \subseteq DiagFile
    BY DEF DiagInit
  <2> QED BY <2>1, <2>2 DEF DiagInit, DiagTypeOK
<1>2. diagToClient \in Seq(DiagUpdate) /\ \A f \in DiagFile : FileFollows(f)
  BY DEF DiagInit, FileFollows, Unmentioned
<1> QED BY <1>1, <1>2 DEF DiagInit, DiagInv

LEMMA DiagStep == DiagInv /\ [DiagNext]_diagVars => DiagInv'
<1> SUFFICES ASSUME DiagInv, [DiagNext]_diagVars PROVE DiagInv'
  OBVIOUS
<1>0. /\ DiagTypeOK /\ diagToClient \in Seq(DiagUpdate) /\ \A f \in DiagFile : FileFollows(f)
      /\ pendingUris # {} => debounce
      /\ diagUp = "off" => \A f \in DiagFile : collection[f] = 0
  BY DEF DiagInv
<1>1. ASSUME NEW S \in SUBSET DiagFile, S # {}, DiagnosticsChange(S) PROVE DiagInv'
  <2>1. PICK v \in {0, diagChanges + 1} :
          problems' = [f \in DiagFile |-> IF f \in S THEN v ELSE problems[f]]
    BY <1>1 DEF DiagnosticsChange
  <2>2. DiagTypeOK'
    BY <1>0, <1>1, <2>1, DiagAssumption DEF DiagnosticsChange, DiagTypeOK, Versions
  <2>3. ASSUME NEW f \in DiagFile PROVE FileFollows(f)'
    <3>1. CASE f \in S
      BY <1>1, <3>1 DEF DiagnosticsChange, FileFollows
    <3>2. CASE f \notin S
      BY <1>0, <1>1, <2>1, <3>2 DEF DiagnosticsChange, FileFollows, Arriving, Unmentioned
    <3> QED BY <3>1, <3>2
  <2> QED BY <1>0, <1>1, <2>2, <2>3 DEF DiagnosticsChange, DiagInv
<1>2. CASE DebounceFires
  <2>1. CASE pendingUris = {}
    BY <1>0, <1>2, <2>1
       DEF DebounceFires, DiagInv, DiagTypeOK, FileFollows, Arriving, Unmentioned
  <2>2. CASE pendingUris # {}
    <3>1. SendChanged \in DiagUpdate /\ diagToClient' = Append(diagToClient, SendChanged)
      BY <1>0, <1>2, <2>2, UpdateTyped DEF DebounceFires, SendChanged, DiagTypeOK
    <3>2. diagToClient' \in Seq(DiagUpdate)
      BY <1>0, <3>1
    <3>3. DiagTypeOK'
      <4>1. \A i \in DOMAIN diagToClient' : diagToClient'[i] \in DiagUpdate
        BY <3>2
      <4>2. \A i \in DOMAIN diagToClient' : DOMAIN diagToClient'[i] \subseteq DiagFile
        BY <4>1, UpdateShape
      <4> QED BY <1>0, <1>2, <4>2 DEF DebounceFires, DiagTypeOK
    <3>4. ASSUME NEW f \in DiagFile PROVE FileFollows(f)'
      <4>1. /\ f \in DOMAIN SendChanged <=> f \in pendingUris
            /\ f \in pendingUris => SendChanged[f] = problems[f]
        BY DEF SendChanged, UpdateOf
      <4>2. UNCHANGED <<problems, collection, diagUp, diagToHost>>
        BY <1>2 DEF DebounceFires
      <4> QED BY <1>0, <3>1, <4>1, <4>2, FrameSent DEF FileFollows
    <3> QED BY <1>0, <1>2, <3>2, <3>3, <3>4 DEF DebounceFires, DiagInv
  <2> QED BY <2>1, <2>2
<1>3. CASE SendFullDiagnostics
  <2> DEFINE withProblems == {f \in DiagFile : problems[f] # 0}
  <2>1. /\ UNCHANGED <<problems, diagChanges, pendingUris, debounce, diagUp, collection>>
        /\ diagToHost \in Nat /\ diagToHost > 0 /\ diagToHost' = diagToHost - 1
    BY <1>0, <1>3 DEF SendFullDiagnostics, DiagTypeOK
  <2>2. CASE withProblems = {}
    <3>1. diagToClient' = diagToClient
      BY <1>3, <2>2 DEF SendFullDiagnostics
    <3>2. ASSUME NEW f \in DiagFile PROVE FileFollows(f)'
      BY <1>0, <2>1, <2>2, <3>1 DEF FileFollows, Arriving, Unmentioned
    <3> QED BY <1>0, <2>1, <3>1, <3>2 DEF DiagInv, DiagTypeOK
  <2>3. CASE withProblems # {}
    <3>1. /\ UpdateOf(withProblems) \in DiagUpdate
          /\ diagToClient' = Append(diagToClient, UpdateOf(withProblems))
      BY <1>0, <1>3, <2>3, UpdateTyped DEF SendFullDiagnostics
    <3>2. diagToClient' \in Seq(DiagUpdate)
      BY <1>0, <3>1
    <3>3. DiagTypeOK'
      BY <1>0, <2>1, <3>2, UpdateShape DEF DiagTypeOK
    <3>4. ASSUME NEW f \in DiagFile PROVE FileFollows(f)'
      <4>1. /\ f \in DOMAIN UpdateOf(withProblems) <=> problems[f] # 0
            /\ problems[f] # 0 => UpdateOf(withProblems)[f] = problems[f]
        BY DEF UpdateOf
      <4>2. /\ problems[f] # 0 => Arriving(f)'
            /\ problems[f] = 0 /\ Arriving(f) => Arriving(f)'
            /\ problems[f] = 0 /\ Unmentioned(f) => Unmentioned(f)'
        BY <1>0, <2>1, <3>1, <4>1, FrameSent
      <4> QED BY <1>0, <2>1, <4>2 DEF FileFollows
    <3> QED BY <1>0, <2>1, <3>2, <3>3, <3>4 DEF DiagInv
  <2> QED BY <2>2, <2>3
<1>4. CASE ActivateDiagnostics
  BY <1>0, <1>4
     DEF ActivateDiagnostics, DiagInv, DiagTypeOK, FileFollows, Arriving, Unmentioned
<1>5. CASE RequestDiagnostics
  <2>1. diagToHost \in Nat
    BY <1>0 DEF DiagTypeOK
  <2>2. /\ UNCHANGED <<problems, diagChanges, pendingUris, debounce, diagToClient, collection>>
        /\ diagToHost' \in Nat /\ diagToHost' > 0 /\ diagUp' = "asked"
    BY <1>5, <2>1 DEF RequestDiagnostics
  <2>3. ASSUME NEW f \in DiagFile PROVE FileFollows(f)'
    BY <1>0, <2>2 DEF FileFollows, Arriving, Unmentioned
  <2> QED BY <1>0, <2>2, <2>3 DEF DiagInv, DiagTypeOK
<1>6. CASE ApplyDiagnostics
  <2>1. /\ diagToClient # << >> /\ diagToClient' = Tail(diagToClient)
        /\ collection' = [f \in DiagFile |->
                IF diagUp # "off" /\ f \in DOMAIN Head(diagToClient)
                  THEN Head(diagToClient)[f] ELSE collection[f]]
        /\ UNCHANGED <<problems, diagChanges, pendingUris, debounce, diagToHost, diagUp>>
    BY <1>6 DEF ApplyDiagnostics
  <2>2. Head(diagToClient) \in DiagUpdate /\ diagToClient' \in Seq(DiagUpdate)
    BY <1>0, <2>1
  <2>3. DiagTypeOK'
    <3>1. collection' \in Versions
      BY <1>0, <2>1, <2>2, UpdateShape DEF DiagTypeOK, Versions
    <3> QED BY <1>0, <2>1, <2>2, <3>1, UpdateShape DEF DiagTypeOK
  <2>4. ASSUME NEW f \in DiagFile PROVE FileFollows(f)'
    <3>1. /\ Arriving(f) => \/ Arriving(f)'
                            \/ /\ Unmentioned(f)' /\ f \in DOMAIN Head(diagToClient)
                               /\ Head(diagToClient)[f] = problems[f]
          /\ Unmentioned(f) => Unmentioned(f)' /\ f \notin DOMAIN Head(diagToClient)
      BY <1>0, <2>1, FrameTaken
    <3> QED BY <1>0, <2>1, <3>1 DEF FileFollows
  <2> QED BY <1>0, <2>1, <2>2, <2>3, <2>4 DEF DiagInv
<1>7. CASE UNCHANGED diagVars
  BY <1>0, <1>7 DEF diagVars, DiagInv, DiagTypeOK, FileFollows, Arriving, Unmentioned
<1> QED BY <1>1, <1>2, <1>3, <1>4, <1>5, <1>6, <1>7 DEF DiagNext

LEMMA DiagInvariance == DiagSpec => []DiagInv
BY DiagInitHolds, DiagStep, PTL DEF DiagSpec

\* Versions, pending files, frames and what the client shows keep their types
\* (diagnosticsSync.ts).
THEOREM DiagnosticsTypes == DiagSpec => []DiagTypeOK
<1>1. DiagInv => DiagTypeOK
  BY DEF DiagInv
<1> QED BY DiagInvariance, <1>1, PTL

\* Once quiet the client shows the host's problems: a full snapshot leaves out
\* the files without any, but those it showed before are pending or on the way.
THEOREM ProblemsFollow == DiagSpec => []DiagnosticsFollow
<1>1. ASSUME DiagInv PROVE DiagnosticsFollow
  <2> SUFFICES ASSUME diagUp = "asked", ~debounce, diagToHost = 0, diagToClient = << >>
               PROVE  collection = problems
    BY DEF DiagnosticsFollow
  <2>1. \A f \in DiagFile : collection[f] = problems[f]
    <3>1. pendingUris = {} /\ \A f \in DiagFile : FileFollows(f)
      BY <1>1 DEF DiagInv
    <3>2. \A f \in DiagFile : ~Arriving(f)
      BY DEF Arriving
    <3>3. ~(diagToHost > 0)
      OBVIOUS
    <3> QED BY <3>1, <3>2, <3>3 DEF FileFollows
  <2> QED BY <1>1, <2>1 DEF DiagInv, DiagTypeOK, Versions
<1> QED BY DiagInvariance, <1>1, PTL

-------------------------------------------------------------------------------
(* FollowMode *)

CursorFrame == [type : {"cursor"}, file : CursorFile] \cup [type : {"follow"}, following : BOOLEAN]

\* The last frame of a kind.
LastOf(q, type, i) ==
    /\ i \in DOMAIN q /\ q[i].type = type
    /\ \A j \in DOMAIN q : j > i => q[j].type # type

Lacks(q, type) == \A i \in DOMAIN q : q[i].type # type

\* What the partner of s knows, or will when it has read what is on the way.
PartnerLearns(s) ==
    /\ \A i \in DOMAIN cursorNet[s] : LastOf(cursorNet[s], "follow", i) =>
        cursorNet[s][i].following = following[s]
    /\ Lacks(cursorNet[s], "follow") /\ ~NeverTold(Partner(s), "follow") =>
        remoteIsFollowing[Partner(s)] = following[s]
    /\ \A i \in DOMAIN cursorNet[s] : LastOf(cursorNet[s], "cursor", i) =>
        {cursorNet[s][i].file} = localFile[s]
    /\ Lacks(cursorNet[s], "cursor") /\ ~NeverTold(Partner(s), "cursor") =>
        remoteFile[Partner(s)] = localFile[s]

GuardIsHeld == \A s \in Party : followGuard[s] => guardTimer[s] \/ jumps[s] # {}

WasLed(s) == following[s] /\ led[s] /\ jumps[s] = {} => remoteFile[s] = {at[s]}

FollowInv ==
    /\ FollowTypeOK
    /\ cursorNet \in [Party -> Seq(CursorFrame)]
    /\ \A s \in Party : cursorTimer[s] = {} \/ \E f \in CursorFile : cursorTimer[s] = {f}
    /\ \A s \in Party : PartnerLearns(s) /\ WasLed(s)
    /\ GuardIsHeld

LEMMA PartnerOfPartner == \A s \in Party : Partner(s) \in Party /\ Partner(s) # s /\ Partner(Partner(s)) = s
BY DEF Party, Partner

LEMMA LastSent ==
    ASSUME NEW S, NEW q \in Seq(S), NEW x \in S, NEW type, x.type = type
    PROVE  /\ \A i : LastOf(Append(q, x), type, i) => Append(q, x)[i] = x
           /\ ~Lacks(Append(q, x), type)
<1>1. /\ DOMAIN q = 1 .. Len(q) /\ Len(q) \in Nat
      /\ DOMAIN Append(q, x) = 1 .. Len(q) + 1
      /\ Append(q, x)[Len(q) + 1] = x
  OBVIOUS
<1>2. ASSUME NEW i, LastOf(Append(q, x), type, i) PROVE Append(q, x)[i] = x
  BY <1>1, <1>2 DEF LastOf
<1>3. ~Lacks(Append(q, x), type)
  BY <1>1 DEF Lacks
<1> QED BY <1>2, <1>3

LEMMA LastStays ==
    ASSUME NEW S, NEW q \in Seq(S), NEW x \in S, NEW type, x.type # type
    PROVE  /\ \A i : LastOf(Append(q, x), type, i) => LastOf(q, type, i) /\ Append(q, x)[i] = q[i]
           /\ Lacks(Append(q, x), type) => Lacks(q, type)
<1>1. /\ DOMAIN q = 1 .. Len(q) /\ Len(q) \in Nat
      /\ DOMAIN Append(q, x) = 1 .. Len(q) + 1
      /\ \A i \in DOMAIN q : Append(q, x)[i] = q[i]
      /\ Append(q, x)[Len(q) + 1] = x
  OBVIOUS
<1>2. ASSUME NEW i, LastOf(Append(q, x), type, i)
      PROVE  LastOf(q, type, i) /\ Append(q, x)[i] = q[i]
  BY <1>1, <1>2 DEF LastOf
<1>3. Lacks(Append(q, x), type) => Lacks(q, type)
  BY <1>1 DEF Lacks
<1> QED BY <1>2, <1>3

LEMMA LastTaken ==
    ASSUME NEW S, NEW q \in Seq(S), q # << >>, NEW type
    PROVE  /\ \A i : LastOf(Tail(q), type, i) =>
                        i + 1 \in DOMAIN q /\ LastOf(q, type, i + 1) /\ Tail(q)[i] = q[i + 1]
           /\ Lacks(Tail(q), type) /\ Head(q).type = type =>
                1 \in DOMAIN q /\ LastOf(q, type, 1) /\ q[1] = Head(q)
           /\ Lacks(Tail(q), type) /\ Head(q).type # type => Lacks(q, type)
<1>1. /\ DOMAIN q = 1 .. Len(q) /\ Len(q) \in Nat \ {0}
      /\ DOMAIN Tail(q) = 1 .. Len(q) - 1
      /\ \A i \in DOMAIN Tail(q) : Tail(q)[i] = q[i + 1]
      /\ Head(q) = q[1]
  OBVIOUS
<1>2. \A i \in DOMAIN q : i = 1 \/ (i - 1 \in DOMAIN Tail(q) /\ Tail(q)[i - 1] = q[i])
  BY <1>1
<1>3. ASSUME NEW i, LastOf(Tail(q), type, i)
      PROVE  i + 1 \in DOMAIN q /\ LastOf(q, type, i + 1) /\ Tail(q)[i] = q[i + 1]
  <2>1. i \in DOMAIN Tail(q) /\ \A j \in DOMAIN Tail(q) : j > i => Tail(q)[j].type # type
    BY <1>3 DEF LastOf
  <2>2. \A j \in DOMAIN q : j > i + 1 => q[j].type # type
    <3>1. ASSUME NEW j \in DOMAIN q, j > i + 1 PROVE q[j].type # type
      <4>1. j - 1 \in DOMAIN Tail(q) /\ j - 1 > i /\ Tail(q)[j - 1] = q[j]
        BY <1>1, <1>2, <2>1, <3>1
      <4> QED BY <2>1, <4>1
    <3> QED BY <3>1
  <2> QED BY <1>1, <1>3, <2>1, <2>2 DEF LastOf
<1>4. ASSUME Lacks(Tail(q), type), NEW j \in DOMAIN q, j > 1 PROVE q[j].type # type
  <2>1. j - 1 \in DOMAIN Tail(q) /\ Tail(q)[j - 1] = q[j]
    BY <1>1, <1>2, <1>4
  <2> QED BY <1>4, <2>1 DEF Lacks
<1> QED BY <1>1, <1>3, <1>4 DEF LastOf, Lacks

LEMMA FollowInitHolds == FollowInit => FollowInv
<1> SUFFICES ASSUME FollowInit PROVE FollowInv
  OBVIOUS
<1>1. ASSUME NEW s \in Party
      PROVE  /\ cursorNet[s] = << >> /\ localFile[s] = {} /\ remoteFile[s] = {}
             /\ ~following[s] /\ remoteIsFollowing[s] = FALSE
             /\ cursorTimer[s] = {} /\ ~followGuard[s]
  BY <1>1 DEF FollowInit
<1>2. cursorNet \in [Party -> Seq(CursorFrame)]
  BY DEF FollowInit
<1>3. ASSUME NEW s \in Party PROVE PartnerLearns(s)
  <2>1. /\ Partner(s) \in Party
        /\ \A i \in DOMAIN cursorNet[s] : FALSE
    <3>1. cursorNet[s] = << >>
      BY <1>1
    <3>2. \A i \in DOMAIN << >> : FALSE
      OBVIOUS
    <3> QED BY <3>1, <3>2, PartnerOfPartner
  <2>2. remoteIsFollowing[Partner(s)] = following[s] /\ remoteFile[Partner(s)] = localFile[s]
    BY <1>3, <2>1 DEF FollowInit
  <2> QED BY <2>1, <2>2 DEF PartnerLearns, LastOf
<1>4. \A s \in Party : WasLed(s)
  BY DEF FollowInit, WasLed
<1>5. FollowTypeOK
  <2>1. \A s \in Party : cursorNet[s] = << >>
    BY <1>1
  <2> QED BY <2>1, MoveAssumption DEF FollowInit, FollowTypeOK, Party
<1> QED BY <1>1, <1>2, <1>3, <1>4, <1>5 DEF FollowInv, GuardIsHeld

\* What s says of whether it follows, its partner learns.
LEMMA FollowSent ==
    ASSUME FollowInv, NEW s \in Party, NEW value \in BOOLEAN, SendFollow(s, value),
           following' = [following EXCEPT ![s] = value],
           UNCHANGED <<remoteIsFollowing, localFile, remoteFile, missed>>
    PROVE  cursorNet' \in [Party -> Seq(CursorFrame)] /\ \A t \in Party : PartnerLearns(t)'
<1> DEFINE x == [type |-> "follow", following |-> value]
<1>1. x \in CursorFrame /\ x.type = "follow" /\ x.type # "cursor" /\ x.following = value
  BY DEF CursorFrame
<1>2. cursorNet' = [cursorNet EXCEPT ![s] = Append(@, x)]
  BY DEF SendFollow
<1> HIDE DEF x
<1>3. cursorNet[s] \in Seq(CursorFrame) /\ PartnerLearns(s)
  BY DEF FollowInv
<1>4. /\ cursorNet' \in [Party -> Seq(CursorFrame)]
      /\ cursorNet'[s] = Append(cursorNet[s], x) /\ following'[s] = value
      /\ \A t \in Party : t # s => cursorNet'[t] = cursorNet[t] /\ following'[t] = following[t]
  BY <1>1, <1>2, <1>3 DEF FollowInv, FollowTypeOK
<1>5. PartnerLearns(s)'
  <2>1. /\ \A i : LastOf(cursorNet'[s], "follow", i) => cursorNet'[s][i] = x
        /\ ~Lacks(cursorNet'[s], "follow")
    <3>1. cursorNet[s] \in Seq(CursorFrame) /\ x \in CursorFrame /\ x.type = "follow"
      BY <1>1, <1>3, <1>4
    <3>2. /\ \A i : LastOf(Append(cursorNet[s], x), "follow", i) => Append(cursorNet[s], x)[i] = x
          /\ ~Lacks(Append(cursorNet[s], x), "follow")
      BY <3>1, LastSent
    <3> QED BY <1>1, <1>3, <1>4, <3>2
  <2>2. /\ \A i : LastOf(cursorNet'[s], "cursor", i) =>
                    LastOf(cursorNet[s], "cursor", i) /\ cursorNet'[s][i] = cursorNet[s][i]
        /\ Lacks(cursorNet'[s], "cursor") => Lacks(cursorNet[s], "cursor")
    <3>1. cursorNet[s] \in Seq(CursorFrame) /\ x \in CursorFrame /\ x.type # "cursor"
      BY <1>1, <1>3, <1>4
    <3>2. /\ \A i : LastOf(Append(cursorNet[s], x), "cursor", i) =>
                LastOf(cursorNet[s], "cursor", i) /\ Append(cursorNet[s], x)[i] = cursorNet[s][i]
          /\ Lacks(Append(cursorNet[s], x), "cursor") => Lacks(cursorNet[s], "cursor")
      BY <3>1, LastStays
    <3> QED BY <1>1, <1>3, <1>4, <3>2
  <2>3. \A i : LastOf(cursorNet[s], "cursor", i) => i \in DOMAIN cursorNet[s]
    BY DEF LastOf
  <2> QED BY <1>1, <1>3, <1>4, <2>1, <2>2, <2>3 DEF PartnerLearns, NeverTold
<1>6. ASSUME NEW t \in Party, t # s PROVE PartnerLearns(t)'
  <2>1. PartnerLearns(t) /\ cursorNet'[t] = cursorNet[t] /\ following'[t] = following[t]
    BY <1>4, <1>6 DEF FollowInv
  <2> QED BY <2>1 DEF PartnerLearns, NeverTold
<1> QED BY <1>4, <1>5, <1>6

\* Where s says it is, its partner learns.
LEMMA CursorSent ==
    ASSUME FollowInv, NEW s \in Party, NEW f \in CursorFile, SendCursor(s, f),
           UNCHANGED <<following, remoteIsFollowing, remoteFile, missed>>
    PROVE  /\ cursorNet' \in [Party -> Seq(CursorFrame)] /\ \A t \in Party : PartnerLearns(t)'
           /\ localFile' \in [Party -> SUBSET CursorFile]
<1>1. /\ cursorNet' = [cursorNet EXCEPT ![s] = Append(@, [type |-> "cursor", file |-> f])]
      /\ localFile' = [localFile EXCEPT ![s] = {f}]
  BY DEF SendCursor
<1> DEFINE x == [type |-> "cursor", file |-> f]
<1>2. x \in CursorFrame /\ x.type = "cursor" /\ x.type # "follow" /\ x.file = f
  BY DEF CursorFrame
<1>3. cursorNet' = [cursorNet EXCEPT ![s] = Append(@, x)]
  BY <1>1
<1> HIDE DEF x
<1>4. cursorNet[s] \in Seq(CursorFrame) /\ PartnerLearns(s)
  BY DEF FollowInv
<1>5. /\ cursorNet' \in [Party -> Seq(CursorFrame)]
      /\ cursorNet'[s] = Append(cursorNet[s], x) /\ localFile'[s] = {f}
      /\ \A t \in Party : t # s => cursorNet'[t] = cursorNet[t] /\ localFile'[t] = localFile[t]
      /\ localFile' \in [Party -> SUBSET CursorFile]
      /\ UNCHANGED <<following, remoteIsFollowing, remoteFile, missed>>
  BY <1>1, <1>2, <1>3, <1>4 DEF FollowInv, FollowTypeOK
<1>6. PartnerLearns(s)'
  <2>1. /\ \A i : LastOf(cursorNet'[s], "cursor", i) => cursorNet'[s][i] = x
        /\ ~Lacks(cursorNet'[s], "cursor")
    <3>1. cursorNet[s] \in Seq(CursorFrame) /\ x \in CursorFrame /\ x.type = "cursor"
      BY <1>2, <1>4, <1>5
    <3>2. /\ \A i : LastOf(Append(cursorNet[s], x), "cursor", i) => Append(cursorNet[s], x)[i] = x
          /\ ~Lacks(Append(cursorNet[s], x), "cursor")
      BY <3>1, LastSent
    <3> QED BY <1>2, <1>4, <1>5, <3>2
  <2>2. /\ \A i : LastOf(cursorNet'[s], "follow", i) =>
                    LastOf(cursorNet[s], "follow", i) /\ cursorNet'[s][i] = cursorNet[s][i]
        /\ Lacks(cursorNet'[s], "follow") => Lacks(cursorNet[s], "follow")
    <3>1. cursorNet[s] \in Seq(CursorFrame) /\ x \in CursorFrame /\ x.type # "follow"
      BY <1>2, <1>4, <1>5
    <3>2. /\ \A i : LastOf(Append(cursorNet[s], x), "follow", i) =>
                LastOf(cursorNet[s], "follow", i) /\ Append(cursorNet[s], x)[i] = cursorNet[s][i]
          /\ Lacks(Append(cursorNet[s], x), "follow") => Lacks(cursorNet[s], "follow")
      BY <3>1, LastStays
    <3> QED BY <1>2, <1>4, <1>5, <3>2
  <2>3. \A i : LastOf(cursorNet[s], "follow", i) => i \in DOMAIN cursorNet[s]
    BY DEF LastOf
  <2> QED BY <1>2, <1>4, <1>5, <2>1, <2>2, <2>3 DEF PartnerLearns, NeverTold
<1>7. ASSUME NEW t \in Party, t # s PROVE PartnerLearns(t)'
  <2>1. PartnerLearns(t) /\ cursorNet'[t] = cursorNet[t] /\ localFile'[t] = localFile[t]
    BY <1>5, <1>7 DEF FollowInv
  <2> QED BY <1>5, <2>1 DEF PartnerLearns, NeverTold
<1> QED BY <1>5, <1>6, <1>7

\* Reading a frame is learning what it says.
LEMMA FrameRead ==
    ASSUME FollowInv, NEW s \in Party, ReceiveCursor(s)
    PROVE  /\ cursorNet' \in [Party -> Seq(CursorFrame)] /\ \A t \in Party : PartnerLearns(t)'
           /\ Head(cursorNet[Partner(s)]) \in CursorFrame
<1> DEFINE p == Partner(s)
           q == cursorNet[p]
<1>1. /\ p \in Party /\ p # s /\ Partner(p) = s
      /\ \A t \in Party : t # p => Partner(t) # s
  BY PartnerOfPartner
<1> HIDE DEF p
<1>2. q \in Seq(CursorFrame) /\ q # << >> /\ PartnerLearns(p)
  BY <1>1 DEF FollowInv, ReceiveCursor, p
<1>3. Head(q) \in CursorFrame /\ Tail(q) \in Seq(CursorFrame)
  BY <1>2
<1>4. /\ cursorNet' \in [Party -> Seq(CursorFrame)]
      /\ cursorNet'[p] = Tail(q)
      /\ \A t \in Party : t # p => cursorNet'[t] = cursorNet[t]
      /\ UNCHANGED <<following, localFile>>
  BY <1>1, <1>3 DEF FollowInv, FollowTypeOK, ReceiveCursor, p
<1>7. /\ \A kind : kind # Head(q).type => (NeverTold(s, kind)' <=> NeverTold(s, kind))
      /\ \A t \in Party : \A kind : t # s => (NeverTold(t, kind)' <=> NeverTold(t, kind))
  BY <1>1 DEF ReceiveCursor, NeverTold, Party, p
<1>5. CASE Head(q).type = "cursor"
  <2>1. remoteFile' = [remoteFile EXCEPT ![s] = {Head(q).file}] /\ UNCHANGED remoteIsFollowing
    BY <1>5 DEF ReceiveCursor, p
  <2>2. /\ remoteFile'[s] = {Head(q).file}
        /\ \A t \in Party : t # s => remoteFile'[t] = remoteFile[t]
    BY <2>1 DEF FollowInv, FollowTypeOK
  <2>3. PartnerLearns(p)'
    <3>1. /\ \A i : LastOf(Tail(q), "follow", i) =>
                i + 1 \in DOMAIN q /\ LastOf(q, "follow", i + 1) /\ Tail(q)[i] = q[i + 1]
          /\ Lacks(Tail(q), "follow") => Lacks(q, "follow")
      BY <1>2, <1>5, LastTaken
    <3>2. /\ \A i : LastOf(Tail(q), "cursor", i) =>
                i + 1 \in DOMAIN q /\ LastOf(q, "cursor", i + 1) /\ Tail(q)[i] = q[i + 1]
          /\ Lacks(Tail(q), "cursor") =>
                1 \in DOMAIN q /\ LastOf(q, "cursor", 1) /\ q[1] = Head(q)
      BY <1>2, <1>5, LastTaken
    <3>3. /\ PartnerLearns(p) /\ cursorNet'[p] = Tail(q) /\ Partner(p) = s
          /\ remoteFile'[s] = {Head(q).file}
          /\ UNCHANGED <<following, localFile, remoteIsFollowing>>
      BY <1>1, <1>2, <1>4, <2>1, <2>2
    <3>4. NeverTold(s, "follow")' <=> NeverTold(s, "follow")
      BY <1>5, <1>7
    <3> QED BY <3>1, <3>2, <3>3, <3>4 DEF PartnerLearns
  <2>4. ASSUME NEW t \in Party, t # p PROVE PartnerLearns(t)'
    <3>1. PartnerLearns(t) /\ cursorNet'[t] = cursorNet[t] /\ Partner(t) \in Party /\ Partner(t) # s
      BY <1>1, <1>4, <2>4, PartnerOfPartner DEF FollowInv
    <3>2. remoteFile'[Partner(t)] = remoteFile[Partner(t)]
      BY <2>2, <3>1
    <3>3. \A kind : NeverTold(Partner(t), kind)' <=> NeverTold(Partner(t), kind)
      BY <1>7, <3>1
    <3> QED BY <1>4, <2>1, <3>1, <3>2, <3>3 DEF PartnerLearns
  <2> QED BY <1>3, <1>4, <2>3, <2>4 DEF p
<1>6. CASE Head(q).type # "cursor"
  <2>1. /\ remoteIsFollowing' = [remoteIsFollowing EXCEPT ![s] = Head(q).following]
        /\ UNCHANGED remoteFile
        /\ Head(q).type = "follow"
    BY <1>3, <1>6 DEF ReceiveCursor, CursorFrame, p
  <2>2. /\ remoteIsFollowing'[s] = Head(q).following
        /\ \A t \in Party : t # s => remoteIsFollowing'[t] = remoteIsFollowing[t]
    BY <2>1 DEF FollowInv, FollowTypeOK
  <2>3. PartnerLearns(p)'
    <3>1. NeverTold(s, "cursor")' <=> NeverTold(s, "cursor")
      BY <1>6, <1>7
    <3>2. /\ \A i : LastOf(Tail(q), "cursor", i) =>
                i + 1 \in DOMAIN q /\ LastOf(q, "cursor", i + 1) /\ Tail(q)[i] = q[i + 1]
          /\ Lacks(Tail(q), "cursor") => Lacks(q, "cursor")
      BY <1>2, <1>6, LastTaken
    <3>3. /\ \A i : LastOf(Tail(q), "follow", i) =>
                i + 1 \in DOMAIN q /\ LastOf(q, "follow", i + 1) /\ Tail(q)[i] = q[i + 1]
          /\ Lacks(Tail(q), "follow") =>
                1 \in DOMAIN q /\ LastOf(q, "follow", 1) /\ q[1] = Head(q)
      BY <1>2, <2>1, LastTaken
    <3>4. /\ PartnerLearns(p) /\ cursorNet'[p] = Tail(q) /\ Partner(p) = s
          /\ remoteIsFollowing'[s] = Head(q).following
          /\ UNCHANGED <<following, localFile, remoteFile>>
      BY <1>1, <1>2, <1>4, <2>1, <2>2
    <3> QED BY <3>1, <3>2, <3>3, <3>4 DEF PartnerLearns
  <2>4. ASSUME NEW t \in Party, t # p PROVE PartnerLearns(t)'
    <3>1. PartnerLearns(t) /\ cursorNet'[t] = cursorNet[t] /\ Partner(t) \in Party /\ Partner(t) # s
      BY <1>1, <1>4, <2>4, PartnerOfPartner DEF FollowInv
    <3>2. remoteIsFollowing'[Partner(t)] = remoteIsFollowing[Partner(t)]
      BY <2>2, <3>1
    <3>3. \A kind : NeverTold(Partner(t), kind)' <=> NeverTold(Partner(t), kind)
      BY <1>7, <3>1
    <3> QED BY <1>4, <2>1, <3>1, <3>2, <3>3 DEF PartnerLearns
  <2> QED BY <1>3, <1>4, <2>3, <2>4 DEF p
<1> QED BY <1>5, <1>6

\* What is lost before the client has its routes is known to be missed.
LEMMA FrameLost ==
    ASSUME FollowInv, FrameForgotten
    PROVE  /\ cursorNet' \in [Party -> Seq(CursorFrame)] /\ \A t \in Party : PartnerLearns(t)'
           /\ missed' \subseteq {"cursor", "follow"}
<1> DEFINE q == cursorNet["host"]
<1>1. /\ "host" \in Party /\ "client" \in Party
      /\ Partner("host") = "client" /\ Partner("client") = "host"
      /\ \A t \in Party : t \in {"host", "client"}
  BY DEF Party, Partner
<1>2. q \in Seq(CursorFrame) /\ q # << >> /\ PartnerLearns("host") /\ PartnerLearns("client")
  BY <1>1 DEF FollowInv, FrameForgotten
<1>3. Head(q) \in CursorFrame /\ Tail(q) \in Seq(CursorFrame)
  BY <1>2
<1>4. Head(q).type \in {"cursor", "follow"}
  BY <1>3 DEF CursorFrame
<1>5. /\ cursorNet' = [cursorNet EXCEPT !["host"] = Tail(q)]
      /\ missed' = missed \cup {Head(q).type}
      /\ UNCHANGED <<following, remoteIsFollowing, localFile, remoteFile>>
  BY DEF FrameForgotten, Others
<1>6. /\ cursorNet' \in [Party -> Seq(CursorFrame)]
      /\ cursorNet'["host"] = Tail(q) /\ cursorNet'["client"] = cursorNet["client"]
  BY <1>1, <1>3, <1>5 DEF FollowInv, FollowTypeOK
<1>7. PartnerLearns("host")'
  <2>1. ASSUME NEW kind PROVE
            /\ \A i : LastOf(Tail(q), kind, i) =>
                i + 1 \in DOMAIN q /\ LastOf(q, kind, i + 1) /\ Tail(q)[i] = q[i + 1]
            /\ Lacks(Tail(q), kind) /\ Head(q).type # kind => Lacks(q, kind)
    BY <1>2, LastTaken
  <2> HIDE DEF q
  <2>2. \A kind : ~NeverTold("client", kind)' => Head(q).type # kind /\ ~NeverTold("client", kind)
    BY <1>5 DEF NeverTold
  <2> QED BY <1>1, <1>2, <1>5, <1>6, <2>1, <2>2 DEF PartnerLearns, q
<1>8. PartnerLearns("client")'
  <2>1. \A kind : ~NeverTold("host", kind) /\ ~NeverTold("host", kind)'
    BY DEF NeverTold
  <2> QED BY <1>1, <1>2, <1>5, <1>6, <2>1 DEF PartnerLearns
<1>9. missed' \subseteq {"cursor", "follow"}
  BY <1>4, <1>5 DEF FollowInv, FollowTypeOK
<1> QED BY <1>1, <1>6, <1>7, <1>8, <1>9

LEMMA FramesTyped ==
    ASSUME cursorNet \in [Party -> Seq(CursorFrame)], NEW s \in Party, NEW i \in DOMAIN cursorNet[s]
    PROVE  cursorNet[s][i] \in [type : {"cursor"}, file : CursorFile]
                                    \cup [type : {"follow"}, following : BOOLEAN]
<1>1. cursorNet[s] \in Seq(CursorFrame)
  OBVIOUS
<1>2. cursorNet[s][i] \in CursorFrame
  BY <1>1
<1> QED BY <1>2 DEF CursorFrame

\* The parts of the invariant but for what the partner learns, which is shown
\* by the frames.
FollowFlags ==
    /\ at \in [Party -> CursorFile] /\ moves \in 0 .. MaxMove
    /\ following \in [Party -> BOOLEAN] /\ remoteIsFollowing \in [Party -> BOOLEAN]
    /\ followGuard \in [Party -> BOOLEAN] /\ guardTimer \in [Party -> BOOLEAN]
    /\ cursorTimer \in [Party -> SUBSET CursorFile]
    /\ localFile \in [Party -> SUBSET CursorFile] /\ remoteFile \in [Party -> SUBSET CursorFile]
    /\ jumps \in [Party -> SUBSET CursorFile] /\ led \in [Party -> BOOLEAN]
    /\ clientUp \in {"off", "active", "routed"}
    /\ greeted \in [Party -> BOOLEAN] /\ (greeted["client"] => clientUp = "routed")
    /\ missed \subseteq {"cursor", "follow"}
    /\ \A s \in Party : cursorTimer[s] = {} \/ \E f \in CursorFile : cursorTimer[s] = {f}
    /\ \A s \in Party : WasLed(s)
    /\ GuardIsHeld

FollowFrames == cursorNet \in [Party -> Seq(CursorFrame)] /\ \A s \in Party : PartnerLearns(s)

LEMMA FollowApart == FollowFlags /\ FollowFrames <=> FollowInv
<1>1. ASSUME FollowInv PROVE FollowFlags /\ FollowFrames
  <2>1. FollowFrames
    BY <1>1 DEF FollowInv, FollowFrames
  <2>2. FollowTypeOK /\ GuardIsHeld
    BY <1>1 DEF FollowInv
  <2>3. \A s \in Party : cursorTimer[s] = {} \/ \E f \in CursorFile : cursorTimer[s] = {f}
    BY <1>1 DEF FollowInv
  <2>4. \A s \in Party : WasLed(s)
    BY <1>1 DEF FollowInv
  <2>5. FollowFlags
    BY <2>2, <2>3, <2>4 DEF FollowTypeOK, FollowFlags
  <2> QED BY <2>1, <2>5
<1>2. ASSUME FollowFlags, FollowFrames PROVE FollowInv
  <2>1. FollowTypeOK
    <3>1. \A s \in Party : \A i \in DOMAIN cursorNet[s] :
            cursorNet[s][i] \in [type : {"cursor"}, file : CursorFile]
                                    \cup [type : {"follow"}, following : BOOLEAN]
      BY <1>2, FramesTyped DEF FollowFrames
    <3> QED BY <1>2, <3>1 DEF FollowTypeOK, FollowFlags
  <2> QED BY <1>2, <2>1 DEF FollowInv, FollowFlags, FollowFrames
<1> QED BY <1>1, <1>2

LEMMA FollowParts ==
    /\ FollowFlags /\ FollowFrames <=> FollowInv
    /\ FollowFlags' /\ FollowFrames' => FollowInv'
BY FollowApart, PTL

\* What a side knows changes with the frames only.
LEMMA LearnsKept ==
    ASSUME FollowFrames,
           UNCHANGED <<cursorNet, following, remoteIsFollowing, localFile, remoteFile, missed>>
    PROVE  FollowFrames'
BY DEF FollowFrames, PartnerLearns, NeverTold

LEMMA UserFollows ==
    ASSUME FollowInv, NEW s \in Party, ToggleFollow(s) \/ JumpToPartner(s)
    PROVE  FollowInv'
<1>1. FollowFlags /\ FollowFrames
  BY FollowParts
<1>2. moves' \in 0 .. MaxMove
  BY <1>1, MoveAssumption DEF FollowFlags, ToggleFollow, JumpToPartner, UserDoes
<1>5. UNCHANGED setupVars
  BY DEF ToggleFollow, JumpToPartner, UserDoes
<1>3. CASE ToggleFollow(s)
  <2>1. FollowFrames'
    <3>1. (~following[s]) \in BOOLEAN
      OBVIOUS
    <3>2. /\ SendFollow(s, ~following[s]) /\ following' = [following EXCEPT ![s] = ~following[s]]
          /\ UNCHANGED <<remoteIsFollowing, localFile, remoteFile, missed>>
      BY <1>3, <1>5 DEF ToggleFollow, setupVars
    <3> QED BY <3>1, <3>2, FollowSent DEF FollowFrames
  <2>2. FollowFlags'
    BY <1>1, <1>2, <1>3, <1>5 DEF FollowFlags, ToggleFollow, WasLed, GuardIsHeld, setupVars
  <2> QED BY <2>1, <2>2, FollowParts
<1>4. CASE JumpToPartner(s)
  <2>1. FollowFrames'
    BY <1>1, <1>4, <1>5, LearnsKept DEF JumpToPartner, StartJump, setupVars
  <2>2. PICK f \in remoteFile[s] : StartJump(s, f)
    BY <1>4 DEF JumpToPartner
  <2>3. f \in CursorFile
    BY <1>1, <2>2 DEF FollowFlags
  <2>4. FollowFlags'
    BY <1>1, <1>2, <1>4, <1>5, <2>2, <2>3
    DEF FollowFlags, JumpToPartner, StartJump, WasLed, GuardIsHeld, setupVars
  <2> QED BY <2>1, <2>4, FollowParts
<1> QED BY <1>3, <1>4

LEMMA UserMoves ==
    ASSUME FollowInv, NEW s \in Party, NEW f \in CursorFile, NEW byHand \in BOOLEAN,
           MoveTo(s, f, byHand)
    PROVE  FollowInv'
<1>1. FollowFlags /\ FollowFrames
  BY FollowParts
<1>2. moves' \in 0 .. MaxMove
  BY <1>1, MoveAssumption DEF FollowFlags, MoveTo, UserDoes
<1>6. UNCHANGED setupVars
  BY DEF MoveTo, UserDoes
<1>3. FollowFrames'
  <2>1. CASE KeepsFollowing(s, byHand)
    BY <1>1, <1>6, <2>1, LearnsKept DEF MoveTo, setupVars
  <2>2. CASE ~KeepsFollowing(s, byHand)
    <3>1. /\ SendFollow(s, FALSE) /\ following' = [following EXCEPT ![s] = FALSE]
          /\ UNCHANGED <<remoteIsFollowing, localFile, remoteFile, missed>>
      BY <1>6, <2>2 DEF MoveTo, setupVars
    <3> QED BY <3>1, FollowSent DEF FollowFrames
  <2> QED BY <2>1, <2>2
<1>4. following' \in [Party -> BOOLEAN] /\ \A t \in Party : t # s => following'[t] = following[t]
  BY <1>1 DEF FollowFlags, MoveTo
<1>5. FollowFlags'
  <2>1. \A t \in Party : WasLed(t)'
    BY <1>1, <1>4 DEF FollowFlags, MoveTo, WasLed
  <2>2. \A t \in Party : cursorTimer'[t] = {} \/ \E g \in CursorFile : cursorTimer'[t] = {g}
    BY <1>1 DEF FollowFlags, MoveTo
  <2> QED BY <1>1, <1>2, <1>4, <1>6, <2>1, <2>2 DEF FollowFlags, MoveTo, GuardIsHeld, setupVars
<1> QED BY <1>3, <1>5, FollowParts

LEMMA CursorStep ==
    ASSUME FollowInv, NEW s \in Party,
           SendCursorUpdate(s) \/ ReceiveCursor(s) \/ ReleaseFollowGuard(s)
    PROVE  FollowInv'
<1>1. FollowFlags /\ FollowFrames
  BY FollowParts
<1>2. CASE SendCursorUpdate(s)
  <2>1. PICK f \in CursorFile : SendCursor(s, f)
    BY <1>1, <1>2 DEF SendCursorUpdate, FollowFlags
  <2>2. FollowFrames' /\ localFile' \in [Party -> SUBSET CursorFile]
    BY <1>2, <2>1, CursorSent DEF FollowFrames, SendCursorUpdate, setupVars
  <2>3. FollowFlags'
    BY <1>1, <1>2, <2>2
    DEF FollowFlags, SendCursorUpdate, WasLed, GuardIsHeld, setupVars
  <2> QED BY <2>2, <2>3, FollowParts
<1>3. CASE ReceiveCursor(s)
  <2>1. FollowFrames' /\ Head(cursorNet[Partner(s)]) \in CursorFrame
    BY <1>3, FrameRead DEF FollowFrames
  <2> DEFINE frame == Head(cursorNet[Partner(s)])
  <2>2. CASE frame.type = "cursor"
    <3>1. frame.file \in CursorFile
      BY <2>1, <2>2 DEF CursorFrame
    <3>2. /\ remoteFile' = [remoteFile EXCEPT ![s] = {frame.file}]
          /\ IF following[s] THEN StartJump(s, frame.file) ELSE UNCHANGED <<jumps, followGuard>>
          /\ UNCHANGED <<remoteIsFollowing, at, moves, following, guardTimer, cursorTimer,
                         localFile, led, clientUp, greeted>>
          /\ missed' \subseteq missed
      BY <1>3, <2>2 DEF ReceiveCursor
    <3> HIDE DEF frame
    <3>3. remoteFile' \in [Party -> SUBSET CursorFile]
      BY <1>1, <3>1, <3>2 DEF FollowFlags
    <3>4. ASSUME following[s]
          PROVE  /\ jumps' \in [Party -> SUBSET CursorFile] /\ followGuard' \in [Party -> BOOLEAN]
             /\ \A t \in Party : WasLed(t)'
             /\ GuardIsHeld'
      <4>1. /\ jumps' = [jumps EXCEPT ![s] = @ \cup {frame.file}]
            /\ followGuard' = [followGuard EXCEPT ![s] = TRUE]
        BY <3>2, <3>4 DEF StartJump
      <4>2. jumps' \in [Party -> SUBSET CursorFile] /\ followGuard' \in [Party -> BOOLEAN]
        BY <1>1, <3>1, <4>1 DEF FollowFlags
      <4>3. \A t \in Party : WasLed(t)'
        BY <1>1, <3>2, <4>1 DEF FollowFlags, WasLed
      <4>4. GuardIsHeld'
        BY <1>1, <3>2, <4>1 DEF FollowFlags, GuardIsHeld
      <4> QED BY <4>2, <4>3, <4>4
    <3>5. ASSUME ~following[s]
          PROVE  /\ jumps' \in [Party -> SUBSET CursorFile] /\ followGuard' \in [Party -> BOOLEAN]
             /\ \A t \in Party : WasLed(t)'
             /\ GuardIsHeld'
      <4>1. UNCHANGED <<jumps, followGuard>>
        BY <3>2, <3>5
      <4>2. \A t \in Party : WasLed(t)'
        BY <1>1, <3>2, <3>5, <4>1 DEF FollowFlags, WasLed
      <4>3. GuardIsHeld'
        BY <1>1, <3>2, <4>1 DEF FollowFlags, GuardIsHeld
      <4>4. jumps' \in [Party -> SUBSET CursorFile] /\ followGuard' \in [Party -> BOOLEAN]
        BY <1>1, <4>1 DEF FollowFlags
      <4> QED BY <4>2, <4>3, <4>4
    <3>6. FollowFlags'
      BY <1>1, <3>2, <3>3, <3>4, <3>5 DEF FollowFlags
    <3> QED BY <2>1, <3>6, FollowParts
  <2>3. CASE frame.type # "cursor"
    <3>1. frame.following \in BOOLEAN
      BY <2>1, <2>3 DEF CursorFrame
    <3>2. /\ remoteIsFollowing' = [remoteIsFollowing EXCEPT ![s] = frame.following]
          /\ UNCHANGED <<remoteFile, jumps, followGuard, at, moves, following, guardTimer,
                         cursorTimer, localFile, led, clientUp, greeted>>
          /\ missed' \subseteq missed
      BY <1>3, <2>3 DEF ReceiveCursor
    <3> HIDE DEF frame
    <3>3. FollowFlags'
      BY <1>1, <3>1, <3>2 DEF FollowFlags, WasLed, GuardIsHeld
    <3> QED BY <2>1, <3>3, FollowParts
  <2> QED BY <2>2, <2>3
<1>4. CASE ReleaseFollowGuard(s)
  <2>1. FollowFrames'
    BY <1>1, <1>4, LearnsKept DEF ReleaseFollowGuard, setupVars
  <2>2. FollowFlags'
    BY <1>1, <1>4 DEF FollowFlags, ReleaseFollowGuard, WasLed, GuardIsHeld, setupVars
  <2> QED BY <2>1, <2>2, FollowParts
<1> QED BY <1>2, <1>3, <1>4

LEMMA JumpStep ==
    ASSUME FollowInv, NEW s \in Party, NEW f \in CursorFile, JumpEnds(s, f)
    PROVE  FollowInv'
<1>1. FollowFlags /\ FollowFrames
  BY FollowParts
<1>2. FollowFrames'
  BY <1>1, LearnsKept DEF JumpEnds, setupVars
<1>3. PICK succeeds \in BOOLEAN :
        /\ at' = IF succeeds THEN [at EXCEPT ![s] = f] ELSE at
        /\ cursorTimer' = IF succeeds /\ at[s] # f THEN [cursorTimer EXCEPT ![s] = {f}]
                                                   ELSE cursorTimer
        /\ led' = [led EXCEPT ![s] = succeeds /\ remoteFile[s] = {f}]
        /\ guardTimer' = [guardTimer EXCEPT ![s] = TRUE]
  BY DEF JumpEnds, ReleaseLater
<1>4. /\ jumps' = [jumps EXCEPT ![s] = @ \ {f}]
      /\ UNCHANGED <<moves, following, remoteIsFollowing, followGuard, localFile, remoteFile,
                     clientUp, greeted, missed>>
  BY DEF JumpEnds, setupVars
<1>5. /\ at' \in [Party -> CursorFile] /\ cursorTimer' \in [Party -> SUBSET CursorFile]
      /\ \A t \in Party : cursorTimer'[t] = {} \/ \E g \in CursorFile : cursorTimer'[t] = {g}
  BY <1>1, <1>3 DEF FollowFlags
<1>6. /\ led' \in [Party -> BOOLEAN] /\ jumps' \in [Party -> SUBSET CursorFile]
      /\ guardTimer' \in [Party -> BOOLEAN]
  <2>1. (succeeds /\ remoteFile[s] = {f}) \in BOOLEAN
    OBVIOUS
  <2> QED BY <1>1, <1>3, <1>4, <2>1 DEF FollowFlags
<1>7. \A t \in Party : WasLed(t)'
  <2>1. ASSUME NEW t \in Party, t # s PROVE WasLed(t)'
    <3>1. at'[t] = at[t] /\ led'[t] = led[t] /\ jumps'[t] = jumps[t]
      BY <1>1, <1>3, <1>4, <2>1 DEF FollowFlags
    <3> QED BY <1>1, <1>4, <3>1 DEF FollowFlags, WasLed
  <2>2. WasLed(s)'
    <3>1. ASSUME led'[s] PROVE at'[s] = f /\ remoteFile'[s] = {f}
      BY <1>1, <1>3, <1>4, <3>1 DEF FollowFlags
    <3> QED BY <3>1 DEF WasLed
  <2> QED BY <2>1, <2>2
<1>8. GuardIsHeld'
  <2>1. ASSUME NEW t \in Party, t # s PROVE guardTimer'[t] = guardTimer[t] /\ jumps'[t] = jumps[t]
    BY <1>1, <1>3, <1>4, <2>1 DEF FollowFlags
  <2>2. guardTimer'[s] = TRUE
    BY <1>1, <1>3 DEF FollowFlags
  <2> QED BY <1>1, <1>4, <2>1, <2>2 DEF FollowFlags, GuardIsHeld
<1>9. FollowFlags'
  BY <1>1, <1>4, <1>5, <1>6, <1>7, <1>8 DEF FollowFlags
<1> QED BY <1>2, <1>9, FollowParts

LEMMA SetupStep ==
    ASSUME FollowInv,
           \/ ActivateClient \/ RegisterClient \/ FrameForgotten
           \/ \E s \in Party : SendCurrentCursor(s)
    PROVE  FollowInv'
<1>1. FollowFlags /\ FollowFrames
  BY FollowParts
<1>2. Others
  BY DEF ActivateClient, RegisterClient, FrameForgotten, SendCurrentCursor
<1>3. CASE ActivateClient \/ RegisterClient
  <2>1. FollowFrames'
    BY <1>1, <1>2, <1>3, LearnsKept DEF ActivateClient, RegisterClient, Others
  <2>2. FollowFlags'
    BY <1>1, <1>2, <1>3
    DEF FollowFlags, ActivateClient, RegisterClient, Others, WasLed, GuardIsHeld
  <2> QED BY <2>1, <2>2, FollowParts
<1>4. CASE FrameForgotten
  <2>1. FollowFrames' /\ missed' \subseteq {"cursor", "follow"}
    BY <1>4, FrameLost DEF FollowFrames
  <2>2. FollowFlags'
    BY <1>1, <1>2, <1>4, <2>1 DEF FollowFlags, FrameForgotten, Others, WasLed, GuardIsHeld
  <2> QED BY <2>1, <2>2, FollowParts
<1>5. ASSUME NEW s \in Party, SendCurrentCursor(s) PROVE FollowInv'
  <2>1. FollowFrames' /\ localFile' \in [Party -> SUBSET CursorFile]
    <3>1. CASE SendCursor(s, at[s])
      <4>1. at[s] \in CursorFile
        BY <1>1, <1>5 DEF FollowFlags
      <4> QED BY <1>2, <1>5, <3>1, <4>1, CursorSent DEF FollowFrames, SendCurrentCursor, Others
    <3>2. CASE UNCHANGED <<localFile, cursorNet>>
      <4>1. FollowFrames'
        BY <1>1, <1>2, <1>5, <3>2, LearnsKept DEF SendCurrentCursor, Others
      <4> QED BY <1>1, <3>2, <4>1 DEF FollowFlags
    <3> QED BY <1>5, <3>1, <3>2 DEF SendCurrentCursor
  <2>2. greeted' \in [Party -> BOOLEAN] /\ (greeted'["client"] => clientUp' = "routed")
    BY <1>1, <1>5 DEF FollowFlags, SendCurrentCursor, Routed, Party
  <2>3. FollowFlags'
    BY <1>1, <1>2, <1>5, <2>1, <2>2
    DEF FollowFlags, SendCurrentCursor, Others, WasLed, GuardIsHeld
  <2> QED BY <2>1, <2>3, FollowParts
<1> QED BY <1>3, <1>4, <1>5

LEMMA FollowStep == FollowInv /\ [FollowNext]_followVars => FollowInv'
<1> SUFFICES ASSUME FollowInv, [FollowNext]_followVars PROVE FollowInv'
  OBVIOUS
<1>1. CASE FollowNext
  <2>1. CASE ActivateClient \/ RegisterClient \/ FrameForgotten
    BY <2>1, SetupStep
  <2>2. CASE \E s \in Party :
          \/ SendCurrentCursor(s)
          \/ ToggleFollow(s) \/ JumpToPartner(s)
          \/ \E f \in CursorFile : (\E byHand \in BOOLEAN : MoveTo(s, f, byHand)) \/ JumpEnds(s, f)
          \/ SendCursorUpdate(s) \/ ReceiveCursor(s) \/ ReleaseFollowGuard(s)
    BY <2>2, SetupStep, UserFollows, UserMoves, CursorStep, JumpStep
  <2> QED BY <1>1, <2>1, <2>2 DEF FollowNext
<1>2. CASE UNCHANGED followVars
  <2>1. FollowFlags /\ FollowFrames
    BY FollowParts
  <2>2. FollowFrames'
    BY <1>2, <2>1, LearnsKept DEF followVars, setupVars
  <2>3. FollowFlags'
    BY <1>2, <2>1 DEF FollowFlags, WasLed, GuardIsHeld, followVars, setupVars
  <2> QED BY <2>2, <2>3, FollowParts
<1> QED BY <1>1, <1>2

LEMMA FollowInvariant == FollowSpec => []FollowInv
BY FollowInitHolds, FollowStep, PTL DEF FollowSpec

\* The types of follow mode (cursorSync.ts).
THEOREM FollowTypes == FollowSpec => []FollowTypeOK
<1>1. FollowInv => FollowTypeOK
  BY DEF FollowInv
<1> QED BY <1>1, FollowInvariant, PTL

\* followActionGuard never stays up by itself: a jump that will set the timer
\* is under way, or the timer that lowers it runs (cursorSync.ts:284).
THEOREM GuardComesDown == FollowSpec => []GuardIsHeld
<1>1. FollowInv => GuardIsHeld
  BY DEF FollowInv
<1> QED BY <1>1, FollowInvariant, PTL

\* Whenever nothing of it is under way, each side knows whether it is followed
\* and where its partner is, and a follower who was led is in the partner's
\* file; but for what the client missed before it had its routes.
FollowersArrive ==
    (\A s \in Party : FollowQuiet(s)) =>
        \A s \in Party :
            /\ ~NeverTold(s, "follow") => remoteIsFollowing[s] = following[Partner(s)]
            /\ ~NeverTold(s, "cursor") =>
                /\ remoteFile[s] = localFile[Partner(s)]
                /\ (following[s] /\ led[s]) => {at[s]} = localFile[Partner(s)]

\* The safety half of FollowSettles (cursorSync.ts:195, 243): rest cannot be
\* anything else, in whatever order set-up, frames, moves and jumps come.
THEOREM FollowRest == FollowSpec => []FollowersArrive
<1>1. ASSUME FollowInv PROVE FollowersArrive
  <2>1. SUFFICES ASSUME \A t \in Party : FollowQuiet(t), NEW s \in Party
                 PROVE  /\ ~NeverTold(s, "follow") => remoteIsFollowing[s] = following[Partner(s)]
                        /\ ~NeverTold(s, "cursor") =>
                            /\ remoteFile[s] = localFile[Partner(s)]
                            /\ (following[s] /\ led[s]) => {at[s]} = localFile[Partner(s)]
    BY DEF FollowersArrive
  <2>2. /\ Partner(s) \in Party /\ Partner(Partner(s)) = s
        /\ cursorNet[Partner(s)] = << >> /\ jumps[s] = {}
    BY <2>1, PartnerOfPartner DEF FollowQuiet
  <2>3. PartnerLearns(Partner(s)) /\ WasLed(s)
    BY <1>1, <2>2 DEF FollowInv
  <2>4. Lacks(cursorNet[Partner(s)], "follow") /\ Lacks(cursorNet[Partner(s)], "cursor")
    BY <2>2 DEF Lacks
  <2> QED BY <2>2, <2>3, <2>4 DEF PartnerLearns, WasLed
<1> QED BY <1>1, FollowInvariant, PTL

-------------------------------------------------------------------------------
(* GitStatus *)

GitEntry == [path : GitPath, status : DOMAIN StatusPriority, orig : GitPath \cup {"none"}]

GitEntries == {E \in SUBSET GitEntry : \A e, f \in E : e.path = f.path => e = f}

GitFrame == [type : {"status"}, files : GitEntries] \cup [type : {"orig"}, content : Nat \ {0}]

Has(q, x) == \E i \in DOMAIN q : q[i] = x

GitTypes ==
    /\ enabled \in BOOLEAN /\ bound \in BOOLEAN /\ unnoticed \in BOOLEAN
    /\ initDone \in BOOLEAN /\ sendTimer \in BOOLEAN /\ strayed \in BOOLEAN
    /\ changes \in GitState
    /\ head \in Nat \ {0} /\ gitEvents \in 0 .. MaxGitEvent
    /\ statusAsked \in Nat /\ shows \subseteq Nat \ {0}
    /\ gitToHost \in Seq({"status", "orig"})
    /\ gitUp \in {"off", "active", "asked", "disposed"}
    /\ gitToClient \in Seq(GitFrame) /\ entryMap \in GitEntries
    /\ origCache \in Nat \cup {-1} /\ origPending \in BOOLEAN

BoundAsEnabled == bound = (initDone /\ enabled)

\* Nobody has asked for contents before the client is set up.
OffIsEmpty ==
    gitUp = "off" => /\ ~origPending /\ origCache = -1
                     /\ gitToHost = << >> /\ shows = {} /\ Lacks(gitToClient, "orig")

\* A request for the status waits until the host can answer it.
StatusAwaited == (gitUp = "asked" /\ ~initDone) => statusAsked > 0 \/ Has(gitToHost, "status")

RepositoryStatus == BuildGitStatusSnapshot(IF enabled THEN changes ELSE << >>)

\* The last snapshot on the way, or the entries when there is none, is what the
\* repository has.
StatusIn(q, listed) ==
    /\ \A i \in DOMAIN q : LastOf(q, "status", i) => q[i].files = RepositoryStatus
    /\ Lacks(q, "status") => listed = RepositoryStatus

StatusReaches ==
    (gitUp = "asked" /\ initDone /\ ~sendTimer /\ ~Has(gitToHost, "status")) =>
        StatusIn(gitToClient, entryMap)

\* The contents that no snapshot on the way will clear are those at HEAD.
OriginalsIn(q, cached) ==
    /\ \A i \in DOMAIN q :
        (q[i].type = "orig" /\ \A j \in DOMAIN q : j > i => q[j].type # "status") =>
            q[i].content = head
    /\ Lacks(q, "status") => cached \in {-1, 0, head}

OriginalsFit ==
    (ClientListens /\ initDone /\ enabled /\ ~strayed /\ ~sendTimer /\ ~unnoticed) =>
        OriginalsIn(gitToClient, origCache)

\* What was asked for and what has timed out will be answered.
OriginalAwaited ==
    (ClientListens /\ ~strayed /\ (origPending \/ origCache = 0)) =>
        Has(gitToHost, "orig") \/ shows # {} \/ ~Lacks(gitToClient, "orig")

GitInv ==
    /\ GitTypes /\ BoundAsEnabled /\ OffIsEmpty /\ StatusAwaited
    /\ StatusReaches /\ OriginalsFit /\ OriginalAwaited

\* Induction on the natural numbers, over a set of them.
LEMMA NatSets ==
    ASSUME NEW S, 0 \in S, \A n \in Nat : n \in S => n + 1 \in S
    PROVE  Nat \subseteq S
<1> DEFINE T == Nat \ S
           R == OpToRel(<, Nat)
<1>1. ASSUME T # {} PROVE FALSE
  <2>1. IsWellFoundedOn(R, Nat) /\ T \subseteq Nat
    BY NatLessThanWellFounded
  <2>2. PICK x \in T : \A y \in T : ~(<<y, x>> \in R)
    <3> HIDE DEF T, R
    <3> QED BY <1>1, <2>1, WFMin
  <2>3. x \in Nat /\ x # 0 /\ x \notin S
    OBVIOUS
  <2>4. x - 1 \in Nat /\ x - 1 \notin S
    BY <2>3
  <2>5. <<x - 1, x>> \in R
    BY <2>3, <2>4 DEF OpToRel
  <2> QED BY <2>2, <2>4, <2>5
<1> QED BY <1>1

\* The fold over a sequence of changes, as the function that FoldLeft defines.
Folds(cs, n, f) ==
    f = [s \in SUBSET (1 .. n) |->
            IF s = {} THEN {} ELSE AddChange(f[s \ {Max(s)}], cs[Max(s)])]

LEMMA Largest ==
    ASSUME NEW n \in Nat, NEW s \in SUBSET (1 .. n + 1), n + 1 \in s
    PROVE  Max(s) = n + 1
<1>1. n + 1 \in s /\ \A y \in s : n + 1 >= y
  OBVIOUS
<1>2. \A x \in s : (\A y \in s : x >= y) => x = n + 1
  OBVIOUS
<1> QED BY <1>1, <1>2 DEF Max

LEMMA FoldExists ==
    ASSUME NEW cs, NEW n \in Nat
    PROVE  \E f : Folds(cs, n, f)
<1> DEFINE S == {k \in Nat : \E f : Folds(cs, k, f)}
<1>1. 0 \in S
  <2> DEFINE f == [s \in SUBSET (1 .. 0) |-> {}]
  <2>1. Folds(cs, 0, f)
    BY DEF Folds
  <2> QED BY <2>1
<1>2. ASSUME NEW k \in Nat, k \in S PROVE k + 1 \in S
  <2>1. PICK f : Folds(cs, k, f)
    BY <1>2
  <2> DEFINE g == [s \in SUBSET (1 .. k + 1) |->
                    IF k + 1 \in s THEN AddChange(f[s \ {k + 1}], cs[k + 1]) ELSE f[s]]
             h == [s \in SUBSET (1 .. k + 1) |->
                    IF s = {} THEN {} ELSE AddChange(g[s \ {Max(s)}], cs[Max(s)])]
  <2>2. ASSUME NEW s \in SUBSET (1 .. k + 1) PROVE g[s] = h[s]
    <3>1. CASE k + 1 \in s
      <4>1. Max(s) = k + 1 /\ s # {} /\ s \ {k + 1} \in SUBSET (1 .. k + 1) /\ k + 1 \notin s \ {k + 1}
        BY <3>1, Largest
      <4>2. g[s \ {k + 1}] = f[s \ {k + 1}]
        BY <4>1
      <4> QED BY <3>1, <4>1, <4>2
    <3>2. CASE k + 1 \notin s
      <4>0. \A i \in s : i \in 1 .. k
        BY <3>2
      <4>1. /\ s \in SUBSET (1 .. k) /\ s \ {Max(s)} \in SUBSET (1 .. k)
            /\ s \ {Max(s)} \in SUBSET (1 .. k + 1) /\ k + 1 \notin s \ {Max(s)}
        BY <3>2, <4>0
      <4>2. g[s] = f[s] /\ g[s \ {Max(s)}] = f[s \ {Max(s)}]
        BY <3>2, <4>1
      <4>3. f[s] = IF s = {} THEN {} ELSE AddChange(f[s \ {Max(s)}], cs[Max(s)])
        BY <2>1, <4>1 DEF Folds
      <4> QED BY <4>2, <4>3
    <3> QED BY <3>1, <3>2
  <2>3. g = h
    <3>1. DOMAIN g = SUBSET (1 .. k + 1) /\ g = [s \in SUBSET (1 .. k + 1) |-> g[s]]
      OBVIOUS
    <3>2. h = [s \in SUBSET (1 .. k + 1) |-> h[s]]
      OBVIOUS
    <3> HIDE DEF g, h
    <3> QED BY <2>2, <3>1, <3>2, Zenon
  <2>4. Folds(cs, k + 1, g)
    BY <2>3 DEF Folds
  <2> QED BY <2>4
<1> HIDE DEF S
<1>3. Nat \subseteq S
  BY <1>1, <1>2, NatSets
<1> QED BY <1>3 DEF S

\* What the loop has made of the first n changes.
LEMMA SnapshotFolds ==
    ASSUME NEW cs, NEW n \in Nat, DOMAIN cs = 1 .. n
    PROVE  \E f : Folds(cs, n, f) /\ BuildGitStatusSnapshot(cs) = f[1 .. n]
<1> DEFINE f == CHOOSE g : Folds(cs, n, g)
<1>1. Folds(cs, n, f)
  BY FoldExists
<1>2. BuildGitStatusSnapshot(cs) = f[1 .. n]
  BY DEF BuildGitStatusSnapshot, FoldLeft, MapThenFoldSet, Folds
<1> QED BY <1>1, <1>2

LEMMA FoldSteps ==
    ASSUME NEW cs, NEW n \in Nat, NEW f, Folds(cs, n, f)
    PROVE  /\ f[1 .. 0] = {}
           /\ \A k \in Nat : k + 1 <= n => f[1 .. k + 1] = AddChange(f[1 .. k], cs[k + 1])
<1>1. f[1 .. 0] = {}
  <2>1. 1 .. 0 = {} /\ 1 .. 0 \in SUBSET (1 .. n)
    OBVIOUS
  <2> QED BY <2>1 DEF Folds
<1>2. ASSUME NEW k \in Nat, k + 1 <= n
      PROVE  f[1 .. k + 1] = AddChange(f[1 .. k], cs[k + 1])
  <2>1. 1 .. k + 1 \in SUBSET (1 .. n) /\ 1 .. k + 1 # {} /\ (1 .. k + 1) \ {k + 1} = 1 .. k
    BY <1>2
  <2>2. Max(1 .. k + 1) = k + 1
    BY Largest
  <2>3. f[1 .. k + 1] = AddChange(f[(1 .. k + 1) \ {Max(1 .. k + 1)}], cs[Max(1 .. k + 1)])
    BY <2>1 DEF Folds
  <2> QED BY <2>1, <2>2, <2>3
<1> QED BY <1>1, <1>2

-------------------------------------------------------------------------------
LEMMA StatusOfApi ==
    ASSUME NEW api \in GitApiStatus
    PROVE  MapGitApiStatus(api) \in DOMAIN StatusPriority \cup {"null"}
BY DEF GitApiStatus, MapGitApiStatus, StatusPriority

LEMMA StatusNumbers ==
    /\ \A status \in DOMAIN StatusPriority : StatusPriority[status] \in Nat
    /\ "null" \notin DOMAIN StatusPriority
BY DEF StatusPriority

LEMMA EntryTyped ==
    ASSUME NEW c \in GitChange, Counts(c)
    PROVE  /\ EntryOf(c) \in GitEntry
           /\ EntryOf(c).path = c.path /\ EntryOf(c).status = MapGitApiStatus(c.api)
<1>1. MapGitApiStatus(c.api) \in DOMAIN StatusPriority
  BY StatusOfApi DEF GitChange, Counts
<1>2. OriginalGitPath(c, MapGitApiStatus(c.api)) \in GitPath \cup {"none"}
  <2>1. OriginalGitPath(c, MapGitApiStatus(c.api)) \in {"none", c.orig, c.path}
    BY DEF OriginalGitPath
  <2> QED BY <2>1 DEF GitChange
<1> QED BY <1>1, <1>2 DEF EntryOf, GitEntry, GitChange

LEMMA MergeKeeps ==
    ASSUME NEW a \in GitEntry, NEW b \in GitEntry, a.path = b.path
    PROVE  LET m == MergeGitStatusEntries(a, b) IN
           /\ m \in GitEntry /\ m.path = a.path
           /\ StatusPriority[b.status] > StatusPriority[a.status] => m = b
           /\ ~(StatusPriority[b.status] > StatusPriority[a.status]) =>
                m.status = a.status /\ (a.orig # "none" => m.orig = a.orig)
<1> DEFINE m == MergeGitStatusEntries(a, b)
<1>1. CASE StatusPriority[b.status] > StatusPriority[a.status]
  <2>1. m = b
    BY <1>1 DEF MergeGitStatusEntries
  <2> QED BY <1>1, <2>1
<1>2. CASE /\ ~(StatusPriority[b.status] > StatusPriority[a.status])
           /\ a.status \notin {"added", "untracked"} /\ a.orig = "none"
  <2>1. m = [a EXCEPT !.orig = b.orig]
    BY <1>2 DEF MergeGitStatusEntries
  <2> HIDE DEF m
  <2>2. m \in GitEntry /\ m.path = a.path /\ m.status = a.status
    BY <2>1 DEF GitEntry
  <2> QED BY <1>2, <2>2 DEF m
<1>3. CASE /\ ~(StatusPriority[b.status] > StatusPriority[a.status])
           /\ ~(a.status \notin {"added", "untracked"} /\ a.orig = "none")
  <2>1. m = a
    BY <1>3 DEF MergeGitStatusEntries
  <2> QED BY <1>3, <2>1
<1> QED BY <1>1, <1>2, <1>3

Priority(c) == StatusPriority[MapGitApiStatus(c.api)]

\* Leading among the first n changes.
LeadingOf(cs, n, i) ==
    /\ i \in 1 .. n /\ Counts(cs[i])
    /\ \A j \in 1 .. n : (cs[j].path = cs[i].path /\ Counts(cs[j])) =>
        Priority(cs[i]) > Priority(cs[j]) \/ (Priority(cs[i]) = Priority(cs[j]) /\ i <= j)

EntryFits(e, c) ==
    /\ e.path = c.path /\ e.status = MapGitApiStatus(c.api)
    /\ EntryOf(c).orig # "none" => e.orig = EntryOf(c).orig

\* What the entries are after the first n changes.
EntriesFit(cs, n, E) ==
    /\ E \in GitEntries
    /\ \A e \in E : \E i \in 1 .. n : LeadingOf(cs, n, i) /\ EntryFits(e, cs[i])
    /\ \A i \in 1 .. n : Counts(cs[i]) => \E e \in E : e.path = cs[i].path

LEMMA ChangeAdded ==
    ASSUME NEW cs \in Seq(GitChange), NEW n \in Nat, n + 1 <= Len(cs),
           NEW E, EntriesFit(cs, n, E)
    PROVE  EntriesFit(cs, n + 1, AddChange(E, cs[n + 1]))
<1> DEFINE c == cs[n + 1]
           current == {e \in E : e.path = c.path}
<1>1. c \in GitChange /\ \A i \in 1 .. n : cs[i] \in GitChange
  OBVIOUS
<1>2. /\ E \in SUBSET GitEntry /\ \A e, g \in E : e.path = g.path => e = g
      /\ \A e \in E : \E i \in 1 .. n : LeadingOf(cs, n, i) /\ EntryFits(e, cs[i])
      /\ \A i \in 1 .. n : Counts(cs[i]) => \E e \in E : e.path = cs[i].path
  BY DEF EntriesFit, GitEntries
<1>3. \A i \in 1 .. n + 1 : Counts(cs[i]) => Priority(cs[i]) \in Nat
  BY StatusOfApi, StatusNumbers, <1>1 DEF Priority, Counts, GitChange
<1>4. ASSUME NEW i \in 1 .. n, LeadingOf(cs, n, i),
             ~Counts(c) \/ c.path # cs[i].path \/ Priority(cs[i]) >= Priority(c)
      PROVE  LeadingOf(cs, n + 1, i)
  <2>1. ASSUME NEW j \in 1 .. n + 1, cs[j].path = cs[i].path, Counts(cs[j])
        PROVE  Priority(cs[i]) > Priority(cs[j]) \/ (Priority(cs[i]) = Priority(cs[j]) /\ i <= j)
    <3>1. CASE j \in 1 .. n
      BY <1>4, <2>1, <3>1 DEF LeadingOf
    <3>2. CASE j = n + 1
      <4>1. Priority(cs[i]) >= Priority(c) /\ Counts(cs[i]) /\ c = cs[j]
        BY <1>4, <2>1, <3>2 DEF LeadingOf
      <4>2. Priority(cs[i]) \in Nat /\ Priority(c) \in Nat
        BY <1>3, <2>1, <3>2, <4>1
      <4> QED BY <4>1, <4>2, <3>2
    <3> QED BY <3>1, <3>2
  <2> QED BY <1>4, <2>1 DEF LeadingOf
<1>5. CASE ~Counts(c)
  <2>1. AddChange(E, c) = E
    BY <1>5 DEF AddChange
  <2>2. \A e \in E : \E i \in 1 .. n + 1 : LeadingOf(cs, n + 1, i) /\ EntryFits(e, cs[i])
    BY <1>2, <1>4, <1>5
  <2>3. \A i \in 1 .. n + 1 : Counts(cs[i]) => \E e \in E : e.path = cs[i].path
    BY <1>2, <1>5
  <2> QED BY <2>1, <2>2, <2>3 DEF EntriesFit
<1>6. CASE Counts(c)
  <2> DEFINE merged == IF current = {} THEN EntryOf(c)
                       ELSE MergeGitStatusEntries(CHOOSE e \in current : TRUE, EntryOf(c))
             F == (E \ current) \cup {merged}
  <2>1. AddChange(E, c) = F
    BY <1>6 DEF AddChange
  <2>2. /\ EntryOf(c) \in GitEntry
        /\ EntryOf(c).path = c.path /\ EntryOf(c).status = MapGitApiStatus(c.api)
    BY <1>1, <1>6, EntryTyped
  <2>3. /\ merged \in GitEntry /\ merged.path = c.path
        /\ \E i \in 1 .. n + 1 : LeadingOf(cs, n + 1, i) /\ EntryFits(merged, cs[i])
    <3>1. CASE current = {}
      <4>1. merged = EntryOf(c)
        BY <3>1
      <4>2. \A j \in 1 .. n : ~(Counts(cs[j]) /\ cs[j].path = c.path)
        BY <1>2, <3>1
      <4>3. LeadingOf(cs, n + 1, n + 1)
        BY <1>6, <4>2 DEF LeadingOf
      <4>4. EntryFits(merged, c)
        BY <2>2, <4>1 DEF EntryFits
      <4>5. n + 1 \in 1 .. n + 1 /\ c = cs[n + 1]
        OBVIOUS
      <4> HIDE DEF merged, c
      <4> QED BY <2>2, <4>1, <4>3, <4>4, <4>5
    <3>2. CASE current # {}
      <4> DEFINE a == CHOOSE e \in current : TRUE
      <4>1. a \in current
        BY <3>2
      <4>2. a \in GitEntry /\ a.path = c.path /\ a \in E
        BY <1>2, <4>1
      <4>3. PICK i \in 1 .. n : LeadingOf(cs, n, i) /\ EntryFits(a, cs[i])
        BY <1>2, <4>2
      <4>4. merged = MergeGitStatusEntries(a, EntryOf(c))
        BY <3>2
      <4> HIDE DEF a, merged, current, c
      <4>5. /\ StatusPriority[a.status] = Priority(cs[i])
            /\ StatusPriority[EntryOf(c).status] = Priority(c)
            /\ cs[i].path = c.path /\ Counts(cs[i])
        BY <2>2, <4>2, <4>3 DEF EntryFits, Priority, LeadingOf
      <4>6. Priority(c) \in Nat /\ Priority(cs[i]) \in Nat
        BY <1>3, <1>6, <4>5 DEF c
      <4>7. CASE Priority(c) > Priority(cs[i])
        <5>1. merged = EntryOf(c)
          BY <2>2, <4>2, <4>4, <4>5, <4>7, MergeKeeps
        <5>2. LeadingOf(cs, n + 1, n + 1)
          <6>1. ASSUME NEW j \in 1 .. n, cs[j].path = c.path, Counts(cs[j])
                PROVE  Priority(c) > Priority(cs[j])
            <7>1. Priority(cs[i]) >= Priority(cs[j]) /\ Priority(cs[j]) \in Nat
              <8>1. Priority(cs[j]) \in Nat
                BY <1>3, <6>1
              <8>2. cs[j].path = cs[i].path /\ Counts(cs[j])
                BY <4>5, <6>1
              <8>3. Priority(cs[i]) > Priority(cs[j]) \/ Priority(cs[i]) = Priority(cs[j])
                BY <4>3, <8>2, Zenon DEF LeadingOf
              <8> QED BY <4>6, <8>1, <8>3
            <7> QED BY <4>6, <4>7, <7>1
          <6> QED BY <1>6, <6>1 DEF LeadingOf, c
        <5>3. EntryFits(merged, c)
          BY <2>2, <5>1 DEF EntryFits
        <5>4. n + 1 \in 1 .. n + 1 /\ c = cs[n + 1]
          BY DEF c
        <5> QED BY <2>2, <5>1, <5>2, <5>3, <5>4
      <4>8. CASE ~(Priority(c) > Priority(cs[i]))
        <5>1. /\ merged \in GitEntry /\ merged.path = a.path /\ merged.status = a.status
              /\ a.orig # "none" => merged.orig = a.orig
          BY <2>2, <4>2, <4>4, <4>5, <4>8, MergeKeeps
        <5>2. LeadingOf(cs, n + 1, i)
          BY <1>4, <4>3, <4>6, <4>8
        <5>3. EntryFits(merged, cs[i])
          BY <4>3, <5>1 DEF EntryFits
        <5> QED BY <4>2, <5>1, <5>2, <5>3
      <4> QED BY <4>7, <4>8
    <3> QED BY <3>1, <3>2
  <2> HIDE DEF merged
  <2>4. F \in GitEntries
    BY <1>2, <2>3 DEF GitEntries
  <2>5. ASSUME NEW e \in F
        PROVE  \E i \in 1 .. n + 1 : LeadingOf(cs, n + 1, i) /\ EntryFits(e, cs[i])
    <3>1. CASE e = merged
      BY <2>3, <3>1
    <3>2. CASE e \in E \ current
      <4>1. PICK i \in 1 .. n : LeadingOf(cs, n, i) /\ EntryFits(e, cs[i])
        BY <1>2, <3>2
      <4>2. cs[i].path # c.path
        BY <3>2, <4>1 DEF EntryFits
      <4> QED BY <1>4, <4>1, <4>2
    <3> QED BY <2>5, <3>1, <3>2
  <2>6. ASSUME NEW i \in 1 .. n + 1, Counts(cs[i]) PROVE \E e \in F : e.path = cs[i].path
    <3>1. CASE cs[i].path = c.path
      BY <2>3, <3>1
    <3>2. CASE cs[i].path # c.path
      BY <1>2, <2>6, <3>2
    <3> QED BY <3>1, <3>2
  <2> QED BY <2>1, <2>4, <2>5, <2>6 DEF EntriesFit
<1> QED BY <1>5, <1>6

\* buildGitStatusSnapshot(): an entry for every path with a change that
\* counts, fitting the change that leads; for repository states of any length.
LEMMA SnapshotFits ==
    ASSUME NEW cs \in Seq(GitChange)
    PROVE  EntriesFit(cs, Len(cs), BuildGitStatusSnapshot(cs))
<1> DEFINE n == Len(cs)
<1>1. n \in Nat /\ DOMAIN cs = 1 .. n
  OBVIOUS
<1>2. PICK f : Folds(cs, n, f) /\ BuildGitStatusSnapshot(cs) = f[1 .. n]
  BY <1>1, SnapshotFolds
<1> DEFINE S == {k \in Nat : k <= n => EntriesFit(cs, k, f[1 .. k])}
<1>3. 0 \in S
  <2>1. f[1 .. 0] = {}
    BY <1>1, <1>2, FoldSteps
  <2>2. EntriesFit(cs, 0, {})
    BY DEF EntriesFit, GitEntries
  <2> QED BY <2>1, <2>2
<1>4. ASSUME NEW k \in Nat, k \in S PROVE k + 1 \in S
  <2>1. ASSUME k + 1 <= n PROVE EntriesFit(cs, k + 1, f[1 .. k + 1])
    <3>1. EntriesFit(cs, k, f[1 .. k])
      BY <1>1, <1>4, <2>1
    <3>2. f[1 .. k + 1] = AddChange(f[1 .. k], cs[k + 1])
      BY <1>1, <1>2, <2>1, FoldSteps
    <3> QED BY <2>1, <3>1, <3>2, ChangeAdded
  <2> QED BY <2>1
<1> HIDE DEF S
<1>5. n \in S
  BY <1>1, <1>3, <1>4, NatSets
<1> QED BY <1>1, <1>2, <1>5 DEF S

LEMMA NoEntries == BuildGitStatusSnapshot(<< >>) = {}
<1>1. << >> \in Seq(GitChange) /\ Len(<< >>) = 0
  OBVIOUS
<1>2. EntriesFit(<< >>, 0, BuildGitStatusSnapshot(<< >>))
  BY <1>1, SnapshotFits
<1> QED BY <1>2 DEF EntriesFit

LEMMA StatusTyped ==
    ASSUME GitTypes
    PROVE  /\ RepositoryStatus \in GitEntries
           /\ BuildGitStatusSnapshot(changes) \in GitEntries
           /\ {} \in GitEntries
<1>1. changes \in Seq(GitChange) /\ << >> \in Seq(GitChange)
  BY GitStateAssumption DEF GitTypes
<1>2. BuildGitStatusSnapshot(changes) \in GitEntries
  BY <1>1, SnapshotFits DEF EntriesFit
<1>3. {} \in GitEntries
  BY DEF GitEntries
<1> QED BY <1>2, <1>3, NoEntries DEF RepositoryStatus

\* What the host sends is what the repository has.
LEMMA SentSnapshot ==
    ASSUME GitTypes, BoundAsEnabled
    PROVE  /\ Snapshot \in GitFrame /\ Snapshot.type = "status"
           /\ initDone => Snapshot.files = RepositoryStatus
<1>1. Snapshot.type = "status" /\ Snapshot.files \in GitEntries
  BY StatusTyped DEF Snapshot
<1>2. Snapshot \in GitFrame
  BY <1>1, StatusTyped DEF Snapshot, GitFrame
<1>3. ASSUME initDone PROVE Snapshot.files = RepositoryStatus
  BY <1>3, NoEntries DEF Snapshot, RepositoryStatus, BoundAsEnabled, GitTypes
<1> QED BY <1>1, <1>2, <1>3

-------------------------------------------------------------------------------
(* Queues *)

LEMMA AppendedHas ==
    ASSUME NEW S, NEW q \in Seq(S), NEW x \in S
    PROVE  /\ Append(q, x) \in Seq(S)
           /\ Has(Append(q, x), x)
           /\ \A y : Has(q, y) => Has(Append(q, x), y)
           /\ \A y : Has(Append(q, x), y) => Has(q, y) \/ y = x
<1>1. /\ DOMAIN q = 1 .. Len(q) /\ Len(q) \in Nat
      /\ DOMAIN Append(q, x) = 1 .. Len(q) + 1
      /\ \A i \in DOMAIN q : Append(q, x)[i] = q[i]
      /\ Append(q, x)[Len(q) + 1] = x
  OBVIOUS
<1>2. Append(q, x) \in Seq(S) /\ Has(Append(q, x), x)
  BY <1>1 DEF Has
<1>3. \A y : Has(q, y) => Has(Append(q, x), y)
  BY <1>1 DEF Has
<1>4. \A y : Has(Append(q, x), y) => Has(q, y) \/ y = x
  BY <1>1 DEF Has
<1> QED BY <1>2, <1>3, <1>4

LEMMA TakenHas ==
    ASSUME NEW S, NEW q \in Seq(S), q # << >>
    PROVE  /\ Tail(q) \in Seq(S) /\ Head(q) \in S
           /\ \A y : Has(Tail(q), y) => Has(q, y)
           /\ \A y : Has(q, y) => Has(Tail(q), y) \/ Head(q) = y
<1>1. /\ DOMAIN q = 1 .. Len(q) /\ Len(q) \in Nat \ {0}
      /\ DOMAIN Tail(q) = 1 .. Len(q) - 1
      /\ \A i \in DOMAIN Tail(q) : Tail(q)[i] = q[i + 1]
      /\ Head(q) = q[1]
  OBVIOUS
<1>2. \A i \in DOMAIN q : i = 1 \/ (i - 1 \in DOMAIN Tail(q) /\ Tail(q)[i - 1] = q[i])
  BY <1>1
<1>3. \A y : Has(Tail(q), y) => Has(q, y)
  BY <1>1 DEF Has
<1>4. \A y : Has(q, y) => Has(Tail(q), y) \/ Head(q) = y
  BY <1>1, <1>2 DEF Has
<1> QED BY <1>1, <1>3, <1>4

\* A snapshot is the last that arrives, and clears the contents.
LEMMA StatusSent ==
    ASSUME NEW q \in Seq(GitFrame), NEW x \in GitFrame, x.type = "status",
           x.files = RepositoryStatus, NEW listed, NEW cached
    PROVE  StatusIn(Append(q, x), listed) /\ OriginalsIn(Append(q, x), cached)
<1>1. /\ DOMAIN q = 1 .. Len(q) /\ Len(q) \in Nat
      /\ DOMAIN Append(q, x) = 1 .. Len(q) + 1
      /\ Append(q, x)[Len(q) + 1] = x
  OBVIOUS
<1>2. StatusIn(Append(q, x), listed)
  BY <1>1 DEF StatusIn, LastOf, Lacks
<1>3. OriginalsIn(Append(q, x), cached)
  BY <1>1 DEF OriginalsIn, Lacks
<1> QED BY <1>2, <1>3

\* Several at once, for the requests that waited.
LEMMA StatusesSent ==
    ASSUME NEW q \in Seq(GitFrame), NEW x \in GitFrame, x.type = "status",
           x.files = RepositoryStatus, NEW listed, NEW k \in Nat, k > 0
    PROVE  StatusIn(q \o [i \in 1 .. k |-> x], listed)
<1> DEFINE r == [i \in 1 .. k |-> x]
           c == q \o r
<1>1. r \in Seq(GitFrame) /\ Len(r) = k /\ \A i \in 1 .. k : r[i] = x
  OBVIOUS
<1>2. /\ DOMAIN c = 1 .. Len(q) + k /\ Len(q) \in Nat
      /\ \A i \in 1 .. Len(q) + k : i > Len(q) => c[i] = r[i - Len(q)]
  <2> HIDE DEF r
  <2> QED BY <1>1
<1> HIDE DEF c
<1>3. Len(q) + k \in DOMAIN c /\ c[Len(q) + k] = x
  BY <1>1, <1>2
<1>4. \A i \in DOMAIN c : LastOf(c, "status", i) => i = Len(q) + k
  BY <1>2, <1>3 DEF LastOf
<1>5. ~Lacks(c, "status")
  BY <1>3 DEF Lacks
<1> QED BY <1>3, <1>4, <1>5 DEF StatusIn, c

LEMMA ContentSent ==
    ASSUME NEW q \in Seq(GitFrame), NEW x \in GitFrame, x.type = "orig", NEW listed, NEW cached
    PROVE  /\ StatusIn(q, listed) => StatusIn(Append(q, x), listed)
           /\ OriginalsIn(q, cached) /\ x.content = head => OriginalsIn(Append(q, x), cached)
           /\ ~Lacks(Append(q, x), "orig")
<1>1. /\ DOMAIN q = 1 .. Len(q) /\ Len(q) \in Nat
      /\ DOMAIN Append(q, x) = 1 .. Len(q) + 1
      /\ \A i \in DOMAIN q : Append(q, x)[i] = q[i]
      /\ Append(q, x)[Len(q) + 1] = x
  OBVIOUS
<1>2. ASSUME StatusIn(q, listed) PROVE StatusIn(Append(q, x), listed)
  BY <1>1, <1>2 DEF StatusIn, LastOf, Lacks
<1>3. ASSUME OriginalsIn(q, cached), x.content = head PROVE OriginalsIn(Append(q, x), cached)
  <2>1. Lacks(Append(q, x), "status") => Lacks(q, "status")
    BY <1>1 DEF Lacks
  <2>2. ASSUME NEW i \in DOMAIN Append(q, x), Append(q, x)[i].type = "orig",
               \A j \in DOMAIN Append(q, x) : j > i => Append(q, x)[j].type # "status"
        PROVE  Append(q, x)[i].content = head
    <3>1. CASE i = Len(q) + 1
      BY <1>1, <1>3, <3>1
    <3>2. CASE i \in DOMAIN q
      <4>1. \A j \in DOMAIN q : j > i => q[j].type # "status"
        BY <1>1, <2>2
      <4> QED BY <1>1, <1>3, <2>2, <3>2, <4>1 DEF OriginalsIn
    <3> QED BY <1>1, <3>1, <3>2
  <2> QED BY <1>3, <2>1, <2>2 DEF OriginalsIn
<1>4. ~Lacks(Append(q, x), "orig")
  BY <1>1 DEF Lacks
<1> QED BY <1>2, <1>3, <1>4

LEMMA GitTaken ==
    ASSUME NEW q \in Seq(GitFrame), q # << >>, NEW listed, NEW cached
    PROVE  /\ Tail(q) \in Seq(GitFrame) /\ Head(q) \in GitFrame
           /\ (Head(q).type = "status" /\ StatusIn(q, listed)) => StatusIn(Tail(q), Head(q).files)
           /\ (Head(q).type = "status" /\ OriginalsIn(q, cached)) => OriginalsIn(Tail(q), -1)
           /\ (Head(q).type = "orig" /\ StatusIn(q, listed)) => StatusIn(Tail(q), listed)
           /\ (Head(q).type = "orig" /\ OriginalsIn(q, cached)) => OriginalsIn(Tail(q), Head(q).content)
<1>1. /\ DOMAIN q = 1 .. Len(q) /\ Len(q) \in Nat \ {0}
      /\ DOMAIN Tail(q) = 1 .. Len(q) - 1
      /\ \A i \in DOMAIN Tail(q) : Tail(q)[i] = q[i + 1]
      /\ Head(q) = q[1] /\ Tail(q) \in Seq(GitFrame) /\ Head(q) \in GitFrame
  OBVIOUS
<1>2. \A i \in DOMAIN q : i = 1 \/ (i - 1 \in DOMAIN Tail(q) /\ Tail(q)[i - 1] = q[i])
  BY <1>1
<1>3. ASSUME NEW i \in DOMAIN Tail(q), LastOf(Tail(q), "status", i)
      PROVE  i + 1 \in DOMAIN q /\ LastOf(q, "status", i + 1) /\ Tail(q)[i] = q[i + 1]
  <2>1. \A j \in DOMAIN q : j > i + 1 => q[j].type # "status"
    <3>1. ASSUME NEW j \in DOMAIN q, j > i + 1 PROVE q[j].type # "status"
      <4>1. j - 1 \in DOMAIN Tail(q) /\ j - 1 > i /\ Tail(q)[j - 1] = q[j]
        BY <1>1, <1>2, <3>1
      <4> QED BY <1>3, <4>1 DEF LastOf
    <3> QED BY <3>1
  <2> QED BY <1>1, <1>3, <2>1 DEF LastOf
<1>4. ASSUME NEW i \in DOMAIN Tail(q),
             \A j \in DOMAIN Tail(q) : j > i => Tail(q)[j].type # "status"
      PROVE  /\ i + 1 \in DOMAIN q /\ Tail(q)[i] = q[i + 1]
             /\ \A j \in DOMAIN q : j > i + 1 => q[j].type # "status"
  <2>1. ASSUME NEW j \in DOMAIN q, j > i + 1 PROVE q[j].type # "status"
    <3>1. j - 1 \in DOMAIN Tail(q) /\ j - 1 > i /\ Tail(q)[j - 1] = q[j]
      BY <1>1, <1>2, <2>1
    <3> QED BY <1>4, <3>1
  <2> QED BY <1>1, <2>1
<1>5. ASSUME Lacks(Tail(q), "status")
      PROVE  /\ \A j \in DOMAIN q : j > 1 => q[j].type # "status"
             /\ Head(q).type # "status" => Lacks(q, "status")
             /\ 1 \in DOMAIN q
  <2>1. ASSUME NEW j \in DOMAIN q, j > 1 PROVE q[j].type # "status"
    <3>1. j - 1 \in DOMAIN Tail(q) /\ Tail(q)[j - 1] = q[j]
      BY <1>1, <1>2, <2>1
    <3> QED BY <1>5, <3>1 DEF Lacks
  <2> QED BY <1>1, <2>1 DEF Lacks
<1>6. ASSUME Head(q).type = "status", StatusIn(q, listed)
      PROVE  StatusIn(Tail(q), Head(q).files)
  <2>1. Lacks(Tail(q), "status") => Head(q).files = RepositoryStatus
    BY <1>1, <1>5, <1>6 DEF StatusIn, LastOf
  <2> QED BY <1>3, <1>6, <2>1 DEF StatusIn
<1>7. ASSUME Head(q).type = "orig", StatusIn(q, listed) PROVE StatusIn(Tail(q), listed)
  BY <1>3, <1>5, <1>7 DEF StatusIn
<1>8. ASSUME OriginalsIn(q, cached)
      PROVE  \A i \in DOMAIN Tail(q) :
                (Tail(q)[i].type = "orig"
                    /\ \A j \in DOMAIN Tail(q) : j > i => Tail(q)[j].type # "status") =>
                    Tail(q)[i].content = head
  BY <1>4, <1>8 DEF OriginalsIn
<1>9. ASSUME Head(q).type = "orig", OriginalsIn(q, cached), Lacks(Tail(q), "status")
      PROVE  Head(q).content = head
  BY <1>1, <1>5, <1>9 DEF OriginalsIn
<1>10. (Head(q).type = "status" /\ OriginalsIn(q, cached)) => OriginalsIn(Tail(q), -1)
  BY <1>8 DEF OriginalsIn
<1>11. (Head(q).type = "orig" /\ OriginalsIn(q, cached)) => OriginalsIn(Tail(q), Head(q).content)
  BY <1>8, <1>9 DEF OriginalsIn
<1> QED BY <1>1, <1>6, <1>7, <1>10, <1>11

LEMMA GitInitHolds == GitInit => GitInv
<1> SUFFICES ASSUME GitInit PROVE GitInv
  OBVIOUS
<1>1. GitTypes
  <2>1. gitToHost \in Seq({"status", "orig"}) /\ gitToClient \in Seq(GitFrame)
    BY DEF GitInit
  <2>2. entryMap \in GitEntries
    BY DEF GitInit, GitEntries
  <2>3. gitEvents \in 0 .. MaxGitEvent
    BY GitEventAssumption DEF GitInit
  <2>4. origCache \in Nat \cup {-1} /\ head \in Nat \ {0} /\ statusAsked \in Nat
    BY DEF GitInit
  <2>5. /\ enabled \in BOOLEAN /\ bound \in BOOLEAN /\ unnoticed \in BOOLEAN
        /\ initDone \in BOOLEAN /\ sendTimer \in BOOLEAN /\ strayed \in BOOLEAN
        /\ origPending \in BOOLEAN
    BY DEF GitInit
  <2>6. changes \in GitState /\ shows \subseteq Nat \ {0} /\ gitUp \in {"off", "active", "asked", "disposed"}
    BY DEF GitInit
  <2> QED BY <2>1, <2>2, <2>3, <2>4, <2>5, <2>6 DEF GitTypes
<1>2. BoundAsEnabled /\ OffIsEmpty /\ StatusAwaited /\ StatusReaches
  <2>1. BoundAsEnabled
    BY DEF GitInit, BoundAsEnabled
  <2>2. OffIsEmpty
    BY DEF GitInit, OffIsEmpty, Lacks
  <2> QED BY <2>1, <2>2 DEF GitInit, StatusAwaited, StatusReaches
<1>3. OriginalsFit /\ OriginalAwaited
  BY DEF GitInit, OriginalsFit, OriginalAwaited, ClientListens
<1> QED BY <1>1, <1>2, <1>3 DEF GitInv

\* What the host does without the connection: it will send a snapshot.
LEMMA RepositoryStep ==
    ASSUME GitInv,
           \/ RepositoryComesOrGoes \/ HeadMoves \/ NoticesHead
           \/ \E cs \in LaterGitState : RepositoryChanges(cs)
    PROVE  GitInv'
<1> USE DEF GitInv
<1>1. /\ UNCHANGED <<initDone, statusAsked, shows, gitToHost, gitToClient, strayed,
                     gitUp, entryMap, origCache, origPending>>
      /\ gitEvents' \in 0 .. MaxGitEvent
  BY GitEventAssumption
  DEF RepositoryComesOrGoes, HeadMoves, NoticesHead, RepositoryChanges, GitEvent,
      GitHostStays, GitTypes
<1>2. /\ enabled' \in BOOLEAN /\ bound' \in BOOLEAN /\ unnoticed' \in BOOLEAN
      /\ sendTimer' \in BOOLEAN /\ changes' \in GitState /\ head' \in Nat \ {0}
  <2>1. CASE RepositoryComesOrGoes
    <3>1. /\ enabled' = ~enabled /\ UNCHANGED <<changes, head, unnoticed>>
          /\ IF initDone THEN Rebind(~enabled) ELSE UNCHANGED <<bound, sendTimer>>
      BY <2>1 DEF RepositoryComesOrGoes
    <3>2. bound' \in BOOLEAN /\ sendTimer' \in BOOLEAN
      BY <3>1 DEF Rebind, GitTypes
    <3> QED BY <3>1, <3>2 DEF GitTypes
  <2>2. CASE HeadMoves
    BY <2>2 DEF HeadMoves, GitTypes
  <2>3. CASE NoticesHead
    BY <2>3 DEF NoticesHead, GitTypes
  <2>4. CASE \E cs \in LaterGitState : RepositoryChanges(cs)
    BY <2>4, GitStateAssumption DEF RepositoryChanges, GitTypes
  <2> QED BY <2>1, <2>2, <2>3, <2>4
<1>3. BoundAsEnabled'
  BY <1>1
  DEF RepositoryComesOrGoes, HeadMoves, NoticesHead, RepositoryChanges, Rebind, GitTypes,
      BoundAsEnabled
<1>4. OffIsEmpty' /\ StatusAwaited' /\ OriginalAwaited'
  BY <1>1 DEF OffIsEmpty, StatusAwaited, OriginalAwaited, ClientListens
\* Whatever the status depends on changes with the timer set.
<1>5. initDone /\ ~sendTimer' => /\ ~sendTimer /\ UNCHANGED enabled
                                 /\ enabled => UNCHANGED changes
  BY DEF RepositoryComesOrGoes, HeadMoves, NoticesHead, RepositoryChanges, Rebind, GitTypes,
         BoundAsEnabled
<1>6. StatusReaches'
  <2>1. SUFFICES ASSUME initDone, ~sendTimer', gitUp = "asked", ~Has(gitToHost, "status")
                 PROVE  StatusIn(gitToClient, entryMap)'
    BY <1>1 DEF StatusReaches
  <2>2. RepositoryStatus' = RepositoryStatus
    BY <1>5, <2>1 DEF RepositoryStatus
  <2>3. StatusIn(gitToClient, entryMap)
    BY <1>5, <2>1 DEF StatusReaches
  <2> QED BY <1>1, <2>2, <2>3 DEF StatusIn
<1>7. OriginalsFit'
  <2>1. SUFFICES ASSUME initDone, enabled', ~sendTimer', ~unnoticed', ~strayed, ClientListens
                 PROVE  OriginalsIn(gitToClient, origCache)'
    BY <1>1 DEF OriginalsFit, ClientListens
  <2>2. enabled /\ ~sendTimer /\ bound
    BY <1>5, <2>1 DEF BoundAsEnabled
  <2>3. UNCHANGED head /\ ~unnoticed
    BY <2>1, <2>2
    DEF RepositoryComesOrGoes, HeadMoves, NoticesHead, RepositoryChanges, Rebind, GitTypes
  <2>4. OriginalsIn(gitToClient, origCache)
    BY <2>1, <2>2, <2>3 DEF OriginalsFit
  <2> QED BY <1>1, <2>3, <2>4 DEF OriginalsIn
<1> QED BY <1>1, <1>2, <1>3, <1>4, <1>6, <1>7 DEF GitTypes

\* The host is set up: requests that waited are answered, and the timer is set.
LEMMA InitializeStep == ASSUME GitInv, InitializeHost PROVE GitInv'
<1> USE DEF GitInv
<1> DEFINE x == [Snapshot EXCEPT !.files = IF enabled THEN BuildGitStatusSnapshot(changes) ELSE {}]
           r == [i \in 1 .. statusAsked |-> x]
<1>1. /\ x \in GitFrame /\ x.type = "status" /\ x.files = RepositoryStatus
      /\ gitToClient' = gitToClient \o r
  <2>1. x = [type |-> "status", files |-> IF enabled THEN BuildGitStatusSnapshot(changes) ELSE {}]
    BY DEF Snapshot
  <2>2. x \in GitFrame
    BY <2>1, StatusTyped DEF GitFrame
  <2>3. x.files = RepositoryStatus
    BY <2>1, NoEntries DEF RepositoryStatus, GitTypes
  <2> QED BY <2>1, <2>2, <2>3 DEF InitializeHost
<1>2. /\ ~initDone /\ initDone' = TRUE /\ bound' = enabled /\ statusAsked' = 0
      /\ sendTimer' \in BOOLEAN
      /\ enabled => sendTimer' = TRUE
      /\ UNCHANGED <<enabled, changes, head, unnoticed, gitEvents, shows, gitToHost, strayed,
                     gitUp, entryMap, origCache, origPending>>
  BY DEF InitializeHost, Rebind, GitHostStays, GitTypes, BoundAsEnabled
<1> HIDE DEF x
<1>3. r \in Seq(GitFrame) /\ gitToClient \in Seq(GitFrame) /\ statusAsked \in Nat
  BY <1>1 DEF GitTypes
<1>4. gitToClient' \in Seq(GitFrame)
  BY <1>1, <1>3
<1>5. GitTypes' /\ BoundAsEnabled' /\ OffIsEmpty' /\ StatusAwaited' /\ OriginalsFit'
  <2>1. GitTypes'
    BY <1>2, <1>4 DEF GitTypes
  <2>2. BoundAsEnabled' /\ StatusAwaited' /\ OriginalsFit'
    BY <1>2 DEF BoundAsEnabled, StatusAwaited, OriginalsFit, GitTypes
  <2>3. ASSUME Lacks(gitToClient, "orig") PROVE Lacks(gitToClient', "orig")
    <3>1. \A i \in DOMAIN gitToClient' : gitToClient'[i] = x
                \/ (i \in DOMAIN gitToClient /\ gitToClient'[i] = gitToClient[i])
      BY <1>1, <1>3
    <3> QED BY <1>1, <2>3, <3>1 DEF Lacks
  <2>4. OffIsEmpty'
    BY <1>2, <2>3 DEF OffIsEmpty
  <2> QED BY <2>1, <2>2, <2>4
<1>6. StatusReaches'
  <2>1. SUFFICES ASSUME gitUp = "asked", ~Has(gitToHost, "status")
                 PROVE  StatusIn(gitToClient, entryMap)'
    BY <1>2 DEF StatusReaches
  <2>2. statusAsked > 0
    BY <1>2, <2>1 DEF StatusAwaited
  <2>3. StatusIn(gitToClient \o r, entryMap)
    BY <1>1, <1>3, <2>2, StatusesSent
  <2>4. RepositoryStatus' = RepositoryStatus
    BY <1>2 DEF RepositoryStatus
  <2> HIDE DEF r
  <2> QED BY <1>1, <1>2, <2>3, <2>4 DEF StatusIn
<1>7. OriginalAwaited'
  <2>1. ~Lacks(gitToClient, "orig") => ~Lacks(gitToClient', "orig")
    <3>1. \A i \in DOMAIN gitToClient : i \in DOMAIN gitToClient' /\ gitToClient'[i] = gitToClient[i]
      <4> HIDE DEF r
      <4> QED BY <1>1, <1>3
    <3> QED BY <3>1 DEF Lacks
  <2> QED BY <1>2, <2>1 DEF OriginalAwaited, ClientListens
<1> QED BY <1>5, <1>6, <1>7

LEMMA LacksKept ==
    ASSUME NEW q \in Seq(GitFrame), NEW x \in GitFrame, x.type = "status"
    PROVE  Append(q, x) \in Seq(GitFrame) /\ (Lacks(q, "orig") <=> Lacks(Append(q, x), "orig"))
<1>1. /\ DOMAIN q = 1 .. Len(q) /\ Len(q) \in Nat
      /\ DOMAIN Append(q, x) = 1 .. Len(q) + 1
      /\ \A i \in DOMAIN q : Append(q, x)[i] = q[i]
      /\ Append(q, x)[Len(q) + 1] = x
  OBVIOUS
<1>2. Lacks(q, "orig") => Lacks(Append(q, x), "orig")
  BY <1>1 DEF Lacks
<1>3. Lacks(Append(q, x), "orig") => Lacks(q, "orig")
  BY <1>1 DEF Lacks
<1> QED BY <1>2, <1>3

LEMMA SendStatusStep ==
    ASSUME GitInv, SendTimerFires \/ HandleStatusRequest
    PROVE  GitInv'
<1> USE DEF GitInv
<1>1. UNCHANGED <<enabled, changes, head, unnoticed, gitEvents, bound, initDone, shows,
                  strayed, gitUp, entryMap, origCache, origPending>>
  BY DEF SendTimerFires, HandleStatusRequest, HostTakesGit, GitHostStays
<1>2. RepositoryStatus' = RepositoryStatus
  BY <1>1 DEF RepositoryStatus
<1>3. Snapshot \in GitFrame /\ Snapshot.type = "status" /\ gitToClient \in Seq(GitFrame)
  BY SentSnapshot DEF GitTypes
<1>4. /\ gitToHost' \in Seq({"status", "orig"})
      /\ Has(gitToHost, "orig") => Has(gitToHost', "orig")
      /\ Has(gitToHost', "status") => Has(gitToHost, "status")
      /\ gitToHost = << >> => gitToHost' = << >>
  <2>1. CASE SendTimerFires
    BY <2>1 DEF SendTimerFires, GitTypes
  <2>2. CASE HandleStatusRequest
    <3>1. /\ gitToHost # << >> /\ Head(gitToHost) = "status" /\ gitToHost' = Tail(gitToHost)
          /\ gitToHost \in Seq({"status", "orig"})
      BY <2>2 DEF HandleStatusRequest, HostTakesGit, GitTypes
    <3> QED BY <3>1, TakenHas
  <2> QED BY <2>1, <2>2
<1>5. CASE initDone
  <2>1. gitToClient' = Append(gitToClient, Snapshot) /\ UNCHANGED statusAsked /\ sendTimer' \in BOOLEAN
    BY <1>5 DEF SendTimerFires, HandleStatusRequest, HostTakesGit, GitTypes
  <2>2. /\ StatusIn(gitToClient', entryMap) /\ OriginalsIn(gitToClient', origCache)
        /\ gitToClient' \in Seq(GitFrame)
    BY <1>3, <1>5, <2>1, SentSnapshot, StatusSent, AppendedHas
  <2>3. Lacks(gitToClient, "orig") <=> Lacks(gitToClient', "orig")
    BY <1>3, <2>1, LacksKept
  <2>4. GitTypes' /\ BoundAsEnabled' /\ OffIsEmpty' /\ StatusAwaited'
    <3>1. GitTypes'
      BY <1>1, <1>4, <2>1, <2>2 DEF GitTypes
    <3>2. BoundAsEnabled' /\ StatusAwaited'
      BY <1>1, <1>5 DEF BoundAsEnabled, StatusAwaited
    <3>3. OffIsEmpty'
      BY <1>1, <1>4, <2>3 DEF OffIsEmpty
    <3> QED BY <3>1, <3>2, <3>3
  <2>5. StatusReaches'
    BY <1>1, <1>2, <2>2 DEF StatusReaches, StatusIn
  <2>6. OriginalsFit'
    BY <1>1, <2>2 DEF OriginalsFit, OriginalsIn
  <2>7. OriginalAwaited'
    BY <1>1, <1>4, <2>3 DEF OriginalAwaited, ClientListens
  <2> QED BY <2>4, <2>5, <2>6, <2>7
<1>6. CASE ~initDone
  <2>1. CASE HandleStatusRequest
    <3>1. statusAsked' = statusAsked + 1 /\ UNCHANGED <<gitToClient, sendTimer>>
      BY <1>6, <2>1 DEF HandleStatusRequest, HostTakesGit
    <3>2. GitTypes' /\ BoundAsEnabled' /\ OffIsEmpty' /\ StatusAwaited'
      BY <1>1, <1>4, <1>6, <3>1 DEF GitTypes, BoundAsEnabled, OffIsEmpty, StatusAwaited
    <3>3. StatusReaches' /\ OriginalsFit'
      BY <1>1, <1>6 DEF StatusReaches, OriginalsFit
    <3>4. OriginalAwaited'
      BY <1>1, <1>4, <3>1 DEF OriginalAwaited, ClientListens
    <3> QED BY <3>2, <3>3, <3>4
  <2>2. CASE SendTimerFires
    <3>1. /\ gitToClient' = Append(gitToClient, Snapshot) /\ UNCHANGED <<statusAsked, gitToHost>>
          /\ sendTimer' = FALSE
      BY <2>2 DEF SendTimerFires
    <3>2. gitToClient' \in Seq(GitFrame) /\ (Lacks(gitToClient, "orig") <=> Lacks(gitToClient', "orig"))
      BY <1>3, <3>1, LacksKept
    <3>3. GitTypes' /\ BoundAsEnabled' /\ OffIsEmpty' /\ StatusAwaited'
      BY <1>1, <1>4, <1>6, <3>1, <3>2 DEF GitTypes, BoundAsEnabled, OffIsEmpty, StatusAwaited
    <3>4. StatusReaches' /\ OriginalsFit'
      BY <1>1, <1>6 DEF StatusReaches, OriginalsFit
    <3>5. OriginalAwaited'
      BY <1>1, <1>4, <3>2 DEF OriginalAwaited, ClientListens
    <3> QED BY <3>3, <3>4, <3>5
  <2> QED BY <2>1, <2>2
<1> QED BY <1>5, <1>6

LEMMA OriginalStep ==
    ASSUME GitInv, HandleOriginalRequest
    PROVE  GitInv'
<1> USE DEF GitInv
<1>1. /\ UNCHANGED <<enabled, changes, head, unnoticed, gitEvents, bound, initDone, sendTimer,
                     gitUp, entryMap, origCache, origPending, gitToClient, statusAsked>>
      /\ shows' = (IF bound THEN shows \cup {head} ELSE shows)
      /\ strayed' = (strayed \/ ~bound)
  BY DEF HandleOriginalRequest, HostTakesGit, GitHostStays
<1>2. RepositoryStatus' = RepositoryStatus
  BY <1>1 DEF RepositoryStatus
<1>3. /\ gitToHost # << >> /\ Head(gitToHost) = "orig" /\ gitToHost' = Tail(gitToHost)
      /\ gitToHost \in Seq({"status", "orig"})
  BY DEF HandleOriginalRequest, HostTakesGit, GitTypes
<1>4. /\ gitToHost' \in Seq({"status", "orig"})
      /\ Has(gitToHost, "status") <=> Has(gitToHost', "status")
  BY <1>3, TakenHas
<1>5. GitTypes'
  BY <1>1, <1>4 DEF GitTypes
<1>6. BoundAsEnabled' /\ OffIsEmpty' /\ StatusAwaited'
  BY <1>1, <1>3, <1>4 DEF BoundAsEnabled, OffIsEmpty, StatusAwaited
<1>7. StatusReaches'
  BY <1>1, <1>2, <1>4 DEF StatusReaches, StatusIn
<1>8. OriginalsFit'
  BY <1>1 DEF OriginalsFit, OriginalsIn, ClientListens
<1>9. OriginalAwaited'
  BY <1>1 DEF OriginalAwaited, GitTypes
<1> QED BY <1>5, <1>6, <1>7, <1>8, <1>9

LEMMA ShowStep ==
    ASSUME GitInv, NEW c \in shows, ShowReturns(c)
    PROVE  GitInv'
<1> USE DEF GitInv
<1> DEFINE x == [type |-> "orig", content |-> c]
<1>1. /\ UNCHANGED <<enabled, changes, head, unnoticed, gitEvents, bound, initDone, sendTimer,
                     statusAsked, gitToHost, gitUp, entryMap, origCache, origPending>>
      /\ gitToClient' = Append(gitToClient, x)
      /\ shows' = shows \ {c}
      /\ strayed' = (strayed \/ (c # head /\ ~sendTimer /\ ~unnoticed))
  BY DEF ShowReturns, GitHostStays
<1>2. x \in GitFrame /\ x.type = "orig" /\ x.content = c /\ gitToClient \in Seq(GitFrame)
  BY DEF GitFrame, GitTypes
<1> HIDE DEF x
<1>3. RepositoryStatus' = RepositoryStatus
  BY <1>1 DEF RepositoryStatus
<1>4. GitTypes' /\ BoundAsEnabled' /\ OffIsEmpty' /\ StatusAwaited'
  BY <1>1, <1>2 DEF GitTypes, BoundAsEnabled, OffIsEmpty, StatusAwaited
<1>5. StatusReaches'
  <2>1. StatusIn(gitToClient, entryMap) => StatusIn(gitToClient', entryMap)
    BY <1>1, <1>2, ContentSent
  <2> QED BY <1>1, <1>3, <2>1 DEF StatusReaches, StatusIn
<1>6. OriginalsFit'
  <2>1. OriginalsIn(gitToClient, origCache) /\ c = head => OriginalsIn(gitToClient', origCache)
    BY <1>1, <1>2, ContentSent
  <2> QED BY <1>1, <2>1 DEF OriginalsFit, OriginalsIn, ClientListens
<1>7. OriginalAwaited'
  BY <1>1, <1>2, ContentSent DEF OriginalAwaited
<1> QED BY <1>4, <1>5, <1>6, <1>7

\* What the client does by itself.
LEMMA ClientStep ==
    ASSUME GitInv,
           ActivateGit \/ RequestFullStatus \/ ShowDiff \/ OriginalTimeout \/ DisposeGit
    PROVE  GitInv'
<1> USE DEF GitInv
<1>1. UNCHANGED <<enabled, changes, head, unnoticed, gitEvents, bound, initDone, sendTimer,
                  statusAsked, shows, strayed, gitToClient>>
  BY DEF ActivateGit, RequestFullStatus, ShowDiff, OriginalTimeout, DisposeGit, GitClientStays
<1>2. RepositoryStatus' = RepositoryStatus
  BY <1>1 DEF RepositoryStatus
<1>3. gitToHost \in Seq({"status", "orig"})
  BY DEF GitTypes
<1>4. CASE ActivateGit
  <2>1. gitUp = "off" /\ gitUp' = "active" /\ UNCHANGED <<gitToHost, entryMap, origCache, origPending>>
    BY <1>4 DEF ActivateGit
  <2>2. GitTypes' /\ BoundAsEnabled' /\ OffIsEmpty' /\ StatusAwaited' /\ StatusReaches'
    BY <1>1, <2>1 DEF GitTypes, BoundAsEnabled, OffIsEmpty, StatusAwaited, StatusReaches
  <2>3. /\ ~origPending /\ origCache = -1 /\ Lacks(gitToClient, "orig")
    BY <2>1 DEF OffIsEmpty
  <2>4. OriginalAwaited'
    BY <2>1, <2>3 DEF OriginalAwaited
  <2>5. OriginalsIn(gitToClient, origCache)
    BY <2>3 DEF OriginalsIn, Lacks
  <2>6. OriginalsFit'
    BY <1>1, <2>1, <2>5 DEF OriginalsFit, OriginalsIn
  <2> QED BY <2>2, <2>4, <2>6
<1>5. CASE RequestFullStatus
  <2>1. /\ gitUp = "active" /\ gitUp' = "asked" /\ UNCHANGED <<entryMap, origCache, origPending>>
        /\ gitToHost' = Append(gitToHost, "status")
    BY <1>5 DEF RequestFullStatus
  <2>2. /\ gitToHost' \in Seq({"status", "orig"}) /\ Has(gitToHost', "status")
        /\ Has(gitToHost, "orig") => Has(gitToHost', "orig")
    BY <1>3, <2>1, AppendedHas
  <2>3. GitTypes' /\ BoundAsEnabled' /\ OffIsEmpty' /\ StatusAwaited' /\ StatusReaches'
    BY <1>1, <2>1, <2>2 DEF GitTypes, BoundAsEnabled, OffIsEmpty, StatusAwaited, StatusReaches
  <2>4. OriginalsFit' /\ OriginalAwaited'
    BY <1>1, <2>1, <2>2 DEF OriginalsFit, OriginalsIn, OriginalAwaited, ClientListens
  <2> QED BY <2>3, <2>4
<1>6. CASE ShowDiff
  <2>1. /\ ClientListens /\ origPending' = TRUE /\ UNCHANGED <<gitUp, entryMap, origCache>>
        /\ gitToHost' = Append(gitToHost, "orig")
    BY <1>6 DEF ShowDiff
  <2>2. /\ gitToHost' \in Seq({"status", "orig"}) /\ Has(gitToHost', "orig")
        /\ Has(gitToHost, "status") <=> Has(gitToHost', "status")
    <3>1. Has(gitToHost', "status") => Has(gitToHost, "status")
      BY <1>3, <2>1, AppendedHas
    <3> QED BY <1>3, <2>1, <3>1, AppendedHas
  <2>3. GitTypes' /\ BoundAsEnabled' /\ OffIsEmpty' /\ StatusAwaited'
    BY <1>1, <2>1, <2>2
    DEF GitTypes, BoundAsEnabled, OffIsEmpty, StatusAwaited, ClientListens
  <2>4. StatusReaches' /\ OriginalAwaited'
    BY <1>1, <1>2, <2>1, <2>2 DEF StatusReaches, StatusIn, OriginalAwaited
  <2>5. OriginalsFit'
    BY <1>1, <2>1 DEF OriginalsFit, OriginalsIn, ClientListens
  <2> QED BY <2>3, <2>4, <2>5
<1>7. CASE OriginalTimeout
  <2>1. /\ origPending /\ origPending' = FALSE /\ origCache' = 0
        /\ UNCHANGED <<gitToHost, gitUp, entryMap>>
    BY <1>7 DEF OriginalTimeout
  <2>2. GitTypes' /\ BoundAsEnabled' /\ OffIsEmpty' /\ StatusAwaited'
    BY <1>1, <2>1 DEF GitTypes, BoundAsEnabled, OffIsEmpty, StatusAwaited
  <2>3. StatusReaches' /\ OriginalAwaited'
    BY <1>1, <1>2, <2>1 DEF StatusReaches, StatusIn, OriginalAwaited, ClientListens
  <2>4. OriginalsFit'
    BY <1>1, <2>1 DEF OriginalsFit, OriginalsIn, ClientListens
  <2> QED BY <2>2, <2>3, <2>4
<1>8. CASE DisposeGit
  <2>1. /\ gitUp = "asked" /\ gitUp' = "disposed" /\ entryMap' = {} /\ origPending' = FALSE
        /\ origCache' \in {0, -1} /\ UNCHANGED gitToHost
    BY <1>8 DEF DisposeGit
  <2>2. GitTypes'
    <3>1. {} \in GitEntries /\ origCache' \in Nat \cup {-1}
      BY <2>1 DEF GitEntries
    <3> QED BY <1>1, <2>1, <3>1 DEF GitTypes
  <2>3. BoundAsEnabled' /\ OffIsEmpty' /\ StatusAwaited' /\ StatusReaches'
    BY <1>1, <2>1 DEF BoundAsEnabled, OffIsEmpty, StatusAwaited, StatusReaches
  <2>4. OriginalsFit' /\ OriginalAwaited'
    BY <2>1 DEF OriginalsFit, OriginalAwaited, ClientListens
  <2> QED BY <2>2, <2>3, <2>4
<1> QED BY <1>4, <1>5, <1>6, <1>7, <1>8

\* What the client does with what arrives.
LEMMA ArrivalStep ==
    ASSUME GitInv, GitForgotten \/ ApplySnapshot \/ HandleOriginalResponse
    PROVE  GitInv'
<1> USE DEF GitInv
<1> DEFINE x == Head(gitToClient)
<1>1. UNCHANGED <<enabled, changes, head, unnoticed, gitEvents, bound, initDone, sendTimer,
                  statusAsked, shows, strayed, gitToHost, gitUp>>
  BY DEF GitForgotten, ApplySnapshot, HandleOriginalResponse, ClientTakesGit, GitClientStays
<1>2. gitToClient # << >> /\ gitToClient' = Tail(gitToClient) /\ gitToClient \in Seq(GitFrame)
  BY DEF GitForgotten, ApplySnapshot, HandleOriginalResponse, ClientTakesGit, GitTypes
<1>3. RepositoryStatus' = RepositoryStatus
  BY <1>1 DEF RepositoryStatus
<1>4. gitToClient' \in Seq(GitFrame) /\ x \in GitFrame
  BY <1>2, GitTaken
<1>5. /\ Lacks(gitToClient, "orig") => Lacks(gitToClient', "orig")
      /\ x.type # "orig" => (Lacks(gitToClient', "orig") => Lacks(gitToClient, "orig"))
  <2>1. /\ DOMAIN gitToClient = 1 .. Len(gitToClient) /\ Len(gitToClient) \in Nat \ {0}
        /\ DOMAIN gitToClient' = 1 .. Len(gitToClient) - 1
        /\ \A i \in DOMAIN gitToClient' : gitToClient'[i] = gitToClient[i + 1]
        /\ x = gitToClient[1]
    BY <1>2
  <2>2. \A i \in DOMAIN gitToClient :
            i = 1 \/ (i - 1 \in DOMAIN gitToClient' /\ gitToClient'[i - 1] = gitToClient[i])
    BY <2>1
  <2>3. Lacks(gitToClient, "orig") => Lacks(gitToClient', "orig")
    BY <2>1 DEF Lacks
  <2>4. ASSUME x.type # "orig", Lacks(gitToClient', "orig") PROVE Lacks(gitToClient, "orig")
    BY <2>1, <2>2, <2>4 DEF Lacks
  <2> QED BY <2>3, <2>4
<1>6. BoundAsEnabled' /\ StatusAwaited'
  BY <1>1 DEF BoundAsEnabled, StatusAwaited
<1>7. CASE GitForgotten
  <2>1. ~ClientListens /\ UNCHANGED <<entryMap, origCache, origPending>>
    BY <1>7 DEF GitForgotten
  <2>2. GitTypes' /\ OffIsEmpty'
    BY <1>1, <1>4, <1>5, <2>1 DEF GitTypes, OffIsEmpty
  <2>3. StatusReaches' /\ OriginalsFit' /\ OriginalAwaited'
    BY <1>1, <2>1 DEF StatusReaches, OriginalsFit, OriginalAwaited, ClientListens
  <2> QED BY <1>6, <2>2, <2>3
<1>8. CASE ApplySnapshot
  <2>1. /\ ClientListens /\ x.type = "status" /\ entryMap' = x.files /\ origCache' = -1
        /\ UNCHANGED origPending
    BY <1>8 DEF ApplySnapshot, ClientTakesGit, ForgetContents
  <2> HIDE DEF x
  <2>2. x.files \in GitEntries
    BY <1>4, <2>1 DEF GitFrame
  <2>3. /\ StatusIn(gitToClient, entryMap) => StatusIn(gitToClient', entryMap')
        /\ OriginalsIn(gitToClient, origCache) => OriginalsIn(gitToClient', origCache')
    BY <1>2, <2>1, GitTaken DEF x
  <2>4. GitTypes' /\ OffIsEmpty'
    BY <1>1, <1>4, <2>1, <2>2 DEF GitTypes, OffIsEmpty, ClientListens
  <2>5. StatusReaches'
    BY <1>1, <1>3, <2>3 DEF StatusReaches, StatusIn
  <2>6. OriginalsFit'
    BY <1>1, <2>3 DEF OriginalsFit, OriginalsIn, ClientListens
  <2>7. OriginalAwaited'
    <3>1. x.type # "orig"
      BY <2>1
    <3> QED BY <1>1, <1>5, <2>1, <3>1 DEF OriginalAwaited, ClientListens
  <2> QED BY <1>6, <2>4, <2>5, <2>6, <2>7
<1>9. CASE HandleOriginalResponse
  <2>1. /\ ClientListens /\ x.type = "orig" /\ origCache' = x.content /\ origPending' = FALSE
        /\ UNCHANGED entryMap
    BY <1>9 DEF HandleOriginalResponse, ClientTakesGit
  <2> HIDE DEF x
  <2>2. x.content \in Nat \ {0}
    BY <1>4, <2>1 DEF GitFrame
  <2>3. /\ StatusIn(gitToClient, entryMap) => StatusIn(gitToClient', entryMap)
        /\ OriginalsIn(gitToClient, origCache) => OriginalsIn(gitToClient', origCache')
    BY <1>2, <2>1, GitTaken DEF x
  <2>4. GitTypes' /\ OffIsEmpty'
    BY <1>1, <1>4, <2>1, <2>2 DEF GitTypes, OffIsEmpty, ClientListens
  <2>5. StatusReaches'
    BY <1>1, <1>3, <2>1, <2>3 DEF StatusReaches, StatusIn
  <2>6. OriginalsFit'
    BY <1>1, <2>3 DEF OriginalsFit, OriginalsIn, ClientListens
  <2>7. OriginalAwaited'
    BY <2>1, <2>2 DEF OriginalAwaited
  <2> QED BY <1>6, <2>4, <2>5, <2>6, <2>7
<1> QED BY <1>7, <1>8, <1>9

LEMMA GitStep == GitInv /\ [GitNext]_gitVars => GitInv'
<1> SUFFICES ASSUME GitInv, [GitNext]_gitVars PROVE GitInv'
  OBVIOUS
<1>1. CASE GitNext
  BY <1>1, RepositoryStep, InitializeStep, SendStatusStep, OriginalStep, ShowStep, ClientStep,
     ArrivalStep
  DEF GitNext
<1>2. CASE UNCHANGED gitVars
  BY <1>2
  DEF gitVars, GitInv, GitTypes, BoundAsEnabled, OffIsEmpty, StatusAwaited, StatusReaches,
      StatusIn, RepositoryStatus, OriginalsFit, OriginalsIn, OriginalAwaited, ClientListens
<1> QED BY <1>1, <1>2

LEMMA GitInvariant == GitSpec => []GitInv
BY GitInitHolds, GitStep, PTL DEF GitSpec

\* The types of the status (gitStatusSync.ts, remoteGitQuickDiffController.ts).
THEOREM GitStatusTypes == GitSpec => []GitTypeOK
<1>1. ASSUME GitInv PROVE GitTypeOK
  <2>1. GitTypes /\ BoundAsEnabled
    BY <1>1 DEF GitInv
  <2>2. \A i \in DOMAIN gitToClient : gitToClient[i].type \in {"status", "orig"}
    <3>1. \A i \in DOMAIN gitToClient : gitToClient[i] \in GitFrame
      BY <2>1 DEF GitTypes
    <3> QED BY <3>1 DEF GitFrame
  <2>3. /\ \A e \in entryMap : e.status \in DOMAIN StatusPriority
        /\ \A e, f \in entryMap : e.path = f.path => e = f
    BY <2>1 DEF GitTypes, GitEntries, GitEntry
  <2> QED BY <2>1, <2>2, <2>3 DEF GitTypeOK, GitTypes, BoundAsEnabled
<1> QED BY <1>1, GitInvariant, PTL

\* Once quiet the client shows of every path the status that matters most, for
\* repositories in any state (buildGitStatusSnapshot(), mergeGitStatusEntries()).
THEOREM StatusShown == GitSpec => []StatusFollows
<1>1. ASSUME GitInv, GitQuiet PROVE StatusFollows
  <2> DEFINE cs == IF enabled THEN changes ELSE << >>
             leading == {i \in DOMAIN cs : Leading(cs, i)}
  <2>1. cs \in Seq(GitChange)
    BY <1>1, GitStateAssumption DEF GitInv, GitTypes
  <2>2. entryMap = BuildGitStatusSnapshot(cs)
    <3>1. ~Has(gitToHost, "status") /\ Lacks(gitToClient, "status")
      BY <1>1 DEF GitQuiet, Has, Lacks
    <3> QED BY <1>1, <3>1 DEF GitInv, GitQuiet, StatusReaches, StatusIn, RepositoryStatus
  <2> HIDE DEF cs
  <2>3. EntriesFit(cs, Len(cs), entryMap)
    BY <2>1, <2>2, SnapshotFits
  <2>4. DOMAIN cs = 1 .. Len(cs) /\ Len(cs) \in Nat
    BY <2>1
  <2>5. \A i : LeadingOf(cs, Len(cs), i) <=> i \in leading
    BY <2>4 DEF LeadingOf, Leading, Priority
  <2>6. ASSUME NEW e \in entryMap PROVE \E i \in leading : EntryFits(e, cs[i])
    BY <2>3, <2>5 DEF EntriesFit
  <2>7. ASSUME NEW i \in leading PROVE \E e \in entryMap : EntryFits(e, cs[i])
    <3>1. PICK e \in entryMap : e.path = cs[i].path
      BY <2>3, <2>4 DEF EntriesFit, Leading
    <3>2. PICK j \in leading : EntryFits(e, cs[j])
      BY <2>6
    <3>3. /\ i \in 1 .. Len(cs) /\ Leading(cs, i) /\ j \in 1 .. Len(cs) /\ Leading(cs, j)
          /\ cs[i].path = cs[j].path /\ Counts(cs[i]) /\ Counts(cs[j])
      BY <2>4, <3>1, <3>2 DEF EntryFits, Leading
    <3>4. cs[i] \in GitChange /\ cs[j] \in GitChange
      BY <2>1, <3>3
    <3>5. Priority(cs[i]) \in Nat /\ Priority(cs[j]) \in Nat
      BY <3>3, <3>4, StatusOfApi, StatusNumbers DEF Priority, Counts, GitChange
    <3>6. /\ Priority(cs[i]) > Priority(cs[j]) \/ (Priority(cs[i]) = Priority(cs[j]) /\ i <= j)
          /\ Priority(cs[j]) > Priority(cs[i]) \/ (Priority(cs[j]) = Priority(cs[i]) /\ j <= i)
      BY <2>4, <3>3 DEF Leading, Priority
    <3>7. i = j
      BY <3>3, <3>5, <3>6
    <3> QED BY <3>2, <3>7
  <2> HIDE DEF leading
  <2>8. {e.path : e \in entryMap} = {cs[i].path : i \in leading}
    BY <2>6, <2>7 DEF EntryFits
  <2>9. \A i \in leading : \E e \in entryMap :
            /\ e.path = cs[i].path
            /\ e.status = MapGitApiStatus(cs[i].api)
            /\ EntryOf(cs[i]).orig # "none" => e.orig = EntryOf(cs[i]).orig
    BY <2>7 DEF EntryFits
  <2> QED BY <2>8, <2>9 DEF StatusFollows, cs, leading
<1>2. GitInv => StatusFollows
  BY <1>1 DEF StatusFollows
<1> QED BY <1>2, GitInvariant, PTL

\* The diff shows the text that is at HEAD once all is quiet, unless a
\* request strayed (remoteGitQuickDiffController.ts): contents of before, and
\* those that timed out, do not stay.
THEOREM DiffsAreCurrent == GitSpec => []OriginalIsCurrent
<1>1. ASSUME GitInv, GitQuiet, enabled, ~strayed, ~origPending PROVE origCache \in {-1, head}
  <2>1. ~Has(gitToHost, "orig") /\ Lacks(gitToClient, "orig") /\ Lacks(gitToClient, "status")
    BY <1>1 DEF GitQuiet, Has, Lacks
  <2>2. ClientListens
    BY <1>1 DEF GitQuiet, ClientListens
  <2>3. origCache # 0
    BY <1>1, <2>1, <2>2 DEF GitInv, GitQuiet, OriginalAwaited
  <2>4. origCache \in {-1, 0, head}
    BY <1>1, <2>1, <2>2 DEF GitInv, GitQuiet, OriginalsFit, OriginalsIn
  <2> QED BY <2>3, <2>4
<1>2. GitInv => OriginalIsCurrent
  BY <1>1 DEF OriginalIsCurrent
<1> QED BY <1>2, GitInvariant, PTL
===============================================================================
