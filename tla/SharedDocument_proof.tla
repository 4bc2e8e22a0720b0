------------------------- MODULE SharedDocument_proof -------------------------
(***************************************************************************)
(* What the bridge guarantees whatever the users type: the guard comes     *)
(* down, and the documents agree once everything has arrived (`Copies`).   *)
(* As long as edits meet nothing on their way, only one side has work      *)
(* under way (`TakingTurns`); so nothing is echoed, ops are applied to the *)
(* texts they were made for, and the editors agree as well                 *)
(* (`EditorsFollow`).  All rests on the order in which ShareDB answers,    *)
(* `Exchange`.                                                             *)
(***************************************************************************)
EXTENDS SharedDocument, Integers, TLAPS

OnlyOps(q) == \A i \in DOMAIN q : q[i].kind = "op"

\* q starts with a message of this kind, followed by ops only.
Leads(q, kind) == q # << >> /\ Head(q).kind = kind /\ OnlyOps(Tail(q))

\* Where ensureDoc() is, what is on the wire, and what the backend knows.
NotOpen(s) == sub[s] = "off" /\ s \notin known /\ up[s] = << >> /\ down[s] = << >>

Subscribing(s) ==
    /\ sub[s] = "subscribing"
    /\ \/ s \notin known /\ Leads(up[s], "sub") /\ Tail(up[s]) = << >> /\ down[s] = << >>
       \/ s \in known /\ up[s] = << >> /\ exists /\ Leads(down[s], "snap")
       \/ s \in known /\ up[s] = << >> /\ ~exists /\ Leads(down[s], "none") /\ Tail(down[s]) = << >>
       \/ /\ s \in known /\ up[s] = << >> /\ exists
          /\ down[s] # << >> /\ Head(down[s]).kind = "none"
          /\ Tail(down[s]) # << >> /\ Head(Tail(down[s])).kind = "nack"

Creating(s) ==
    /\ sub[s] = "creating" /\ s \in known
    /\ \/ ~exists /\ Leads(up[s], "create") /\ down[s] = << >>
       \/ exists /\ down[s] # << >> /\ Head(down[s]).kind = "nack"
       \/ exists /\ OnlyOps(up[s]) /\ Leads(down[s], "ack")

Following(s) ==
    /\ sub[s] \in {"opening", "replacing", "ready"} /\ s \in known
    /\ exists /\ OnlyOps(up[s]) /\ OnlyOps(down[s])

Phase(s) == NotOpen(s) \/ Subscribing(s) \/ Creating(s) \/ Following(s)

Exchange == \A s \in Side : Phase(s)

\* A remote op is being applied only as the first of its queue, and the queue
\* fills only when ensureDoc() is over.
OneEditAtATime ==
    \A s \in Side :
        /\ placing[s] => queue[s] # << >>
        /\ met = {} /\ queue[s] # << >> => sub[s] = "ready"

\* What the bridge does to the editor is not heard.
BridgeUnheard ==
    met = {} => \A s \in Side : placing[s] \/ sub[s] = "replacing" => guard[s]

\* The edits that messages carry.
Carried(q) == UNION {q[i].edits : i \in DOMAIN q}

\* A document is the backend's, but for the ops that are on their way in
\* either direction; a document that is being created is what its author
\* has sent.  (Not so one whose creation is refused, until it is destroyed.)
CopyOf(s) ==
    /\ sub[s] \in {"off", "subscribing"} => data[s] = {}
    /\ sub[s] = "creating" /\ ~exists => data[s] = Carried(up[s])
    /\ sub[s] = "creating" /\ down[s] # << >> /\ Head(down[s]).kind = "ack" =>
        Head(down[s]).edits = {}
    /\ s \in known /\ exists /\ ~Answers(s, "nack") =>
        data[s] \cup Carried(down[s]) = server \cup Carried(up[s])

Copies == (\A s \in Side : CopyOf(s)) /\ (~exists => server = {})

\* Ops of which each is made for what the one before it leaves: the first
\* for one text, and the last leaves the other.
Chains(q, from, to) ==
    IF q = << >> THEN from = to
    ELSE /\ q[1].on = from
         /\ \A i \in 1 .. Len(q) - 1 : q[i + 1].on = q[i].on \cup q[i].edits
         /\ to = q[Len(q)].on \cup q[Len(q)].edits

\* Only one side's work is under way.
TakingTurns == met = {} => \E s \in Side : Settled(s)

\* An editor that is set up differs from its document by the queue or by the
\* batch, and never by both; until then the document waits for it.
EditorFollows(s) ==
    /\ batch[s] # {} => /\ sub[s] = "ready" /\ queue[s] = << >> /\ base[s] = data[s]
                        /\ text[s] = data[s] \cup batch[s]
    /\ sub[s] = "ready" /\ batch[s] = {} => Chains(queue[s], text[s], data[s])
    /\ sub[s] \in {"opening", "replacing"} => held[s] = data[s]
    /\ sub[s] = "replacing" => syncFrom[s] = text[s]
    /\ placing[s] => opFrom[s] = text[s]

EditorsFollow == met = {} => \A s \in Side : EditorFollows(s)

IInv ==
    /\ TypeOK
    /\ Exchange
    /\ GuardIsReleased
    /\ OneEditAtATime
    /\ BridgeUnheard
    /\ NoEcho
    /\ Copies
    /\ TakingTurns
    /\ EditorsFollow
    /\ TurnsFit

-------------------------------------------------------------------------------
(* Sequences *)

LEMMA AppendShape ==
    ASSUME NEW S, NEW q \in Seq(S), NEW x \in S
    PROVE  /\ Append(q, x) \in Seq(S) /\ Append(q, x) # << >>
           /\ q = << >> => Head(Append(q, x)) = x /\ Tail(Append(q, x)) = << >>
           /\ q # << >> => Head(Append(q, x)) = Head(q)
                           /\ Tail(Append(q, x)) = Append(Tail(q), x)
                           /\ Tail(q) \in Seq(S)
OBVIOUS

LEMMA OpsAppended ==
    ASSUME NEW S, NEW q \in Seq(S), OnlyOps(q), NEW x \in S, x.kind = "op"
    PROVE  OnlyOps(Append(q, x))
BY DEF OnlyOps

LEMMA OpsFollow ==
    ASSUME NEW S, NEW q \in Seq(S), NEW kind, Leads(q, kind), NEW x \in S, x.kind = "op"
    PROVE  Leads(Append(q, x), kind)
<1>1. q # << >> /\ Head(q).kind = kind /\ OnlyOps(Tail(q))
  BY DEF Leads
<1>2. Tail(q) \in Seq(S)
  BY <1>1
<1>3. OnlyOps(Append(Tail(q), x))
  BY <1>1, <1>2, OpsAppended
<1>4. /\ Append(q, x) # << >> /\ Head(Append(q, x)) = Head(q)
      /\ Tail(Append(q, x)) = Append(Tail(q), x)
  BY <1>1, AppendShape
<1> QED BY <1>1, <1>3, <1>4 DEF Leads

LEMMA OpsTaken ==
    ASSUME NEW S, NEW q \in Seq(S), q # << >>, OnlyOps(q)
    PROVE  Head(q).kind = "op" /\ OnlyOps(Tail(q))
BY DEF OnlyOps

LEMMA FirstAnswer ==
    ASSUME NEW S, NEW q \in Seq(S), q # << >>
    PROVE  1 \in DOMAIN q /\ q[1] = Head(q)
OBVIOUS

Has(q, kind) == \E i \in DOMAIN q : q[i].kind = kind

LEMMA CarriedAppended ==
    ASSUME NEW S, NEW q \in Seq(S), NEW x \in S
    PROVE  Carried(Append(q, x)) = Carried(q) \cup x.edits
<1>1. /\ DOMAIN Append(q, x) = DOMAIN q \cup {Len(q) + 1}
      /\ \A i \in DOMAIN q : Append(q, x)[i] = q[i]
      /\ Append(q, x)[Len(q) + 1] = x
  OBVIOUS
<1>2. ASSUME NEW e \in Carried(Append(q, x)) PROVE e \in Carried(q) \cup x.edits
  <2>1. PICK i \in DOMAIN Append(q, x) : e \in Append(q, x)[i].edits
    BY <1>2 DEF Carried
  <2> QED BY <1>1, <2>1 DEF Carried
<1>3. ASSUME NEW e \in Carried(q) \cup x.edits PROVE e \in Carried(Append(q, x))
  <2>1. CASE e \in x.edits
    BY <1>1, <2>1 DEF Carried
  <2>2. CASE e \in Carried(q)
    <3>1. PICK i \in DOMAIN q : e \in q[i].edits
      BY <2>2 DEF Carried
    <3> QED BY <1>1, <3>1 DEF Carried
  <2> QED BY <1>3, <2>1, <2>2
<1> QED BY <1>2, <1>3

LEMMA CarriedTaken ==
    ASSUME NEW S, NEW q \in Seq(S), q # << >>
    PROVE  Carried(q) = Head(q).edits \cup Carried(Tail(q))
<1>1. /\ Head(q) = q[1] /\ 1 \in DOMAIN q
      /\ \A i \in DOMAIN Tail(q) : i + 1 \in DOMAIN q /\ Tail(q)[i] = q[i + 1]
      /\ \A i \in DOMAIN q : i = 1 \/ (i - 1 \in DOMAIN Tail(q) /\ Tail(q)[i - 1] = q[i])
  OBVIOUS
<1>2. ASSUME NEW e \in Carried(q) PROVE e \in Head(q).edits \cup Carried(Tail(q))
  <2>1. PICK i \in DOMAIN q : e \in q[i].edits
    BY <1>2 DEF Carried
  <2> QED BY <1>1, <2>1 DEF Carried
<1>3. ASSUME NEW e \in Head(q).edits \cup Carried(Tail(q)) PROVE e \in Carried(q)
  <2>1. CASE e \in Head(q).edits
    BY <1>1, <2>1 DEF Carried
  <2>2. CASE e \in Carried(Tail(q))
    <3>1. PICK i \in DOMAIN Tail(q) : e \in Tail(q)[i].edits
      BY <2>2 DEF Carried
    <3> QED BY <1>1, <3>1 DEF Carried
  <2> QED BY <1>3, <2>1, <2>2
<1> QED BY <1>2, <1>3

LEMMA CarriedNothing == Carried(<< >>) = {}
BY DEF Carried

LEMMA HasAppended ==
    ASSUME NEW S, NEW q \in Seq(S), NEW x \in S, NEW kind
    PROVE  Has(Append(q, x), kind) <=> Has(q, kind) \/ x.kind = kind
<1>1. /\ DOMAIN Append(q, x) = DOMAIN q \cup {Len(q) + 1}
      /\ \A i \in DOMAIN q : Append(q, x)[i] = q[i]
      /\ Append(q, x)[Len(q) + 1] = x
  OBVIOUS
<1> QED BY <1>1 DEF Has

LEMMA HasTaken ==
    ASSUME NEW S, NEW q \in Seq(S), q # << >>, NEW kind
    PROVE  Has(q, kind) <=> Head(q).kind = kind \/ Has(Tail(q), kind)
<1>1. /\ Head(q) = q[1] /\ 1 \in DOMAIN q
      /\ \A i \in DOMAIN Tail(q) : i + 1 \in DOMAIN q /\ Tail(q)[i] = q[i + 1]
      /\ \A i \in DOMAIN q : i = 1 \/ (i - 1 \in DOMAIN Tail(q) /\ Tail(q)[i - 1] = q[i])
  OBVIOUS
<1>2. ASSUME Has(q, kind) PROVE Head(q).kind = kind \/ Has(Tail(q), kind)
  <2>1. PICK i \in DOMAIN q : q[i].kind = kind
    BY <1>2 DEF Has
  <2> QED BY <1>1, <2>1 DEF Has
<1>3. ASSUME Has(Tail(q), kind) PROVE Has(q, kind)
  <2>1. PICK i \in DOMAIN Tail(q) : Tail(q)[i].kind = kind
    BY <1>3 DEF Has
  <2> QED BY <1>1, <2>1 DEF Has
<1>4. Head(q).kind = kind => Has(q, kind)
  BY <1>1 DEF Has
<1> QED BY <1>2, <1>3, <1>4

LEMMA NotEmpty ==
    ASSUME NEW S, NEW q \in Seq(S)
    PROVE  (q # << >> => Len(q) \in Nat \ {0}) /\ (q = << >> => Len(q) = 0)
OBVIOUS

LEMMA ChainGrows ==
    ASSUME NEW q \in Seq(RemoteOp), NEW from, NEW to, Chains(q, from, to),
           NEW op \in RemoteOp, op.on = to
    PROVE  Chains(Append(q, op), from, to \cup op.edits)
<1>1. CASE q = << >>
  <2>1. Append(q, op) = << op >> /\ Len(<< op >>) = 1 /\ << op >>[1] = op /\ << op >> # << >>
    BY <1>1
  <2> QED BY <1>1, <2>1 DEF Chains
<1>2. CASE q # << >>
  <2>1. /\ Append(q, op) # << >> /\ Len(Append(q, op)) = Len(q) + 1 /\ Len(q) \in Nat \ {0}
        /\ \A i \in 1 .. Len(q) : Append(q, op)[i] = q[i]
        /\ Append(q, op)[Len(q) + 1] = op
    BY <1>2
  <2>2. \A i \in 1 .. Len(q) : Append(q, op)[i + 1].on =
                                Append(q, op)[i].on \cup Append(q, op)[i].edits
    <3>1. ASSUME NEW i \in 1 .. Len(q)
          PROVE  Append(q, op)[i + 1].on = Append(q, op)[i].on \cup Append(q, op)[i].edits
      <4>1. CASE i = Len(q)
        BY <1>2, <2>1, <4>1 DEF Chains
      <4>2. CASE i # Len(q)
        <5>1. i \in 1 .. Len(q) - 1 /\ i + 1 \in 1 .. Len(q)
          BY <2>1, <4>2
        <5> QED BY <1>2, <2>1, <5>1 DEF Chains
      <4> QED BY <4>1, <4>2
    <3> QED BY <3>1
  <2>3. Append(q, op)[1].on = from
    BY <1>2, <2>1 DEF Chains
  <2> QED BY <2>1, <2>2, <2>3 DEF Chains
<1> QED BY <1>1, <1>2

LEMMA ChainTaken ==
    ASSUME NEW q \in Seq(RemoteOp), q # << >>, NEW from, NEW to, Chains(q, from, to)
    PROVE  Head(q).on = from /\ Chains(Tail(q), from \cup Head(q).edits, to)
<1>1. /\ Head(q) = q[1] /\ Len(q) \in Nat \ {0} /\ Len(Tail(q)) = Len(q) - 1
      /\ \A i \in 1 .. Len(q) - 1 : Tail(q)[i] = q[i + 1]
      /\ Tail(q) = << >> <=> Len(q) = 1
  <2>1. /\ Head(q) = q[1] /\ Len(q) \in Nat \ {0} /\ Len(Tail(q)) = Len(q) - 1
        /\ \A i \in 1 .. Len(q) - 1 : Tail(q)[i] = q[i + 1]
    OBVIOUS
  <2>2. Tail(q) \in Seq(RemoteOp)
    OBVIOUS
  <2>3. /\ Tail(q) # << >> => Len(Tail(q)) \in Nat \ {0}
        /\ Tail(q) = << >> => Len(Tail(q)) = 0
    BY <2>2, NotEmpty
  <2> QED BY <2>1, <2>3
<1>2. Head(q).on = from
  BY <1>1 DEF Chains
<1>3. CASE Tail(q) = << >>
  BY <1>1, <1>2, <1>3 DEF Chains
<1>4. CASE Tail(q) # << >>
  <2>1. 1 \in 1 .. Len(q) - 1 /\ Len(q) - 1 \in 1 .. Len(q) - 1 /\ Len(q) - 1 + 1 = Len(q)
    BY <1>1, <1>4
  <2>2. Tail(q)[1].on = from \cup Head(q).edits
    BY <1>1, <1>2, <2>1 DEF Chains
  <2>3. to = Tail(q)[Len(Tail(q))].on \cup Tail(q)[Len(Tail(q))].edits
    <3>1. Tail(q)[Len(q) - 1] = q[Len(q) - 1 + 1]
      BY <1>1, <2>1
    <3> QED BY <1>1, <2>1, <3>1 DEF Chains
  <2>4. ASSUME NEW i \in 1 .. Len(Tail(q)) - 1
        PROVE  Tail(q)[i + 1].on = Tail(q)[i].on \cup Tail(q)[i].edits
    <3>1. i \in 1 .. Len(q) - 1 /\ i + 1 \in 1 .. Len(q) - 1
      BY <1>1, <2>4
    <3>2. Tail(q)[i] = q[i + 1] /\ Tail(q)[i + 1] = q[i + 1 + 1]
      BY <1>1, <3>1
    <3>3. q[i + 1 + 1].on = q[i + 1].on \cup q[i + 1].edits
      BY <1>1, <3>1 DEF Chains
    <3> QED BY <3>2, <3>3
  <2> QED BY <1>2, <1>4, <2>2, <2>3, <2>4 DEF Chains
<1> QED BY <1>2, <1>3, <1>4

-------------------------------------------------------------------------------
(* Types *)

\* What onLocalDocumentChange() leaves is a batch of texts.
LEMMA ChangeTyped ==
    ASSUME TypeOK, NEW s \in Side, NEW edits \in Text, OnLocalDocumentChange(s, edits)
    PROVE  batch' \in [Side -> Text] /\ base' \in [Side -> Text]
<1>1. /\ batch \in [Side -> Text] /\ base \in [Side -> Text]
      /\ text[s] \in Text /\ batch[s] \cup edits \in Text
  BY DEF TypeOK, Text
<1>2. CASE Hears(s)
  <2>1. batch' = [batch EXCEPT ![s] = batch[s] \cup edits]
    BY <1>2 DEF OnLocalDocumentChange
  <2>2. PICK b \in Text : base' = [base EXCEPT ![s] = b]
    <3>1. base[s] \in Text
      BY <1>1
    <3> QED BY <1>1, <1>2, <3>1 DEF OnLocalDocumentChange
  <2> QED BY <1>1, <2>1, <2>2
<1>3. CASE ~Hears(s)
  BY <1>1, <1>3 DEF OnLocalDocumentChange
<1> QED BY <1>2, <1>3

\* The message at the head of `down`.
LEMMA AnswerTyped ==
    ASSUME TypeOK, NEW s \in Side, NEW kind, Answered(s, kind)
    PROVE  /\ Head(down[s]) \in Answer
           /\ down' \in [Side -> Seq(Answer)]
           /\ down[s] # << >>
BY DEF Answered, TypeOK

LEMMA SendTyped ==
    ASSUME TypeOK, NEW s \in Side, NEW kind \in {"sub", "create", "op"}, NEW edits \in Text,
           Send(s, kind, edits)
    PROVE  up' \in [Side -> Seq(Request)]
<1>1. [kind |-> kind, edits |-> edits] \in Request
  BY DEF Request
<1> QED BY <1>1 DEF Send, TypeOK

LEMMA PutTyped ==
    ASSUME NEW f \in [Side -> Seq(Answer)], NEW s \in Side,
           NEW kind \in {"none", "snap", "ack", "nack", "op"}, NEW edits \in Text
    PROVE  Put(f, s, kind, edits) \in [Side -> Seq(Answer)]
<1>1. [kind |-> kind, edits |-> edits] \in Answer
  BY DEF Answer
<1> QED BY <1>1 DEF Put

LEMMA TypeStep == TypeOK /\ Exchange /\ OneEditAtATime /\ [Next]_vars => TypeOK'
<1> SUFFICES ASSUME TypeOK, Exchange, OneEditAtATime, [Next]_vars PROVE TypeOK'
  OBVIOUS
<1>1. ASSUME NEW s \in Side, NEW e \in EditOf(s), Types(s, e) PROVE TypeOK'
  <2>1. {e} \in Text /\ e \in Edit
    BY DEF EditOf, Edit, Text
  <2>2. batch' \in [Side -> Text] /\ base' \in [Side -> Text]
    BY <1>1, <2>1, ChangeTyped DEF Types
  <2>3. text' \in [Side -> Text] /\ made' \in Text
    BY <1>1, <2>1 DEF Types, TypeOK, Text
  <2>4. misfit' \in BOOLEAN
    BY <1>1 DEF Types, TypeOK, ComposesMisfit
  <2>5. met' \in SUBSET {"sync", "edit"}
    BY <1>1 DEF Types, TypeOK
  <2> QED BY <1>1, <2>2, <2>3, <2>4, <2>5 DEF Types, TypeOK
<1>2. ASSUME NEW s \in Side, FlushOp(s) PROVE TypeOK'
  <2>1. CASE Typed(s)
    <3>1. up' \in [Side -> Seq(Request)]
      BY <1>2, <2>1, SendTyped DEF FlushOp, TypeOK
    <3>2. data' \in [Side -> Text]
      <4>1. data[s] \cup batch[s] \in Text
        BY DEF TypeOK, Text
      <4>2. data \in [Side -> Text] /\ data' = [data EXCEPT ![s] = data[s] \cup batch[s]]
        BY <1>2, <2>1 DEF FlushOp, TypeOK
      <4> QED BY <4>1, <4>2
    <3>3. {} \in Text /\ sub[s] # "off"
      BY <2>1 DEF Text, Typed
    <3>4. batch' \in [Side -> Text] /\ base' \in [Side -> Text]
      BY <1>2, <3>3 DEF FlushOp, TakeBatch, TypeOK
    <3>5. misfit' \in BOOLEAN
      BY <1>2, <2>1 DEF FlushOp, TypeOK
    <3>6. \A t \in Side : sub[t] = "off" => data'[t] = {} /\ t \notin known
      BY <1>2, <2>1, <3>3 DEF FlushOp, TypeOK
    <3> QED BY <1>2, <3>1, <3>2, <3>4, <3>5, <3>6 DEF FlushOp, TypeOK
  <2>2. CASE ~Typed(s)
    BY <1>2, <2>2 DEF FlushOp, TakeBatch, TypeOK, Text
  <2> QED BY <2>1, <2>2
<1>3. CASE GrantEditAccess
  BY <1>3 DEF GrantEditAccess, TypeOK
<1>4. ASSUME NEW s \in Side, EnsureDoc(s) PROVE TypeOK'
  <2>1. up' \in [Side -> Seq(Request)]
    BY <1>4, SendTyped DEF EnsureDoc, Text
  <2> QED BY <1>4, <2>1 DEF EnsureDoc, TypeOK
<1>5. ASSUME NEW s \in Side, SnapshotArrives(s) PROVE TypeOK'
  <2>1. Head(down[s]) \in Answer /\ down' \in [Side -> Seq(Answer)]
    BY <1>5, AnswerTyped DEF SnapshotArrives
  <2> QED BY <1>5, <2>1 DEF SnapshotArrives, TypeOK, Answer
<1>6. ASSUME NEW s \in Side, CreatesDocument(s) PROVE TypeOK'
  <2>1. down' \in [Side -> Seq(Answer)]
    BY <1>6, AnswerTyped DEF CreatesDocument
  <2>2. up' \in [Side -> Seq(Request)]
    BY <1>6, SendTyped DEF CreatesDocument, TypeOK
  <2> QED BY <1>6, <2>1, <2>2 DEF CreatesDocument, TypeOK
<1>7. ASSUME NEW s \in Side, CreationDone(s) PROVE TypeOK'
  <2>1. down' \in [Side -> Seq(Answer)]
    BY <1>7, AnswerTyped DEF CreationDone
  <2> QED BY <1>7, <2>1 DEF CreationDone, TypeOK
<1>8. ASSUME NEW s \in Side, CreationFails(s) PROVE TypeOK'
  BY <1>8 DEF CreationFails, DestroyDocument, TypeOK, Text
<1>9. ASSUME NEW s \in Side, SyncOpened(s) PROVE TypeOK'
  <2>1. /\ sub[s] = "opening"
        /\ UNCHANGED <<text, made, readonly, data, batch, base, queue, placing, opFrom, exists,
                       server, known, up, down, met, misfit>>
    BY <1>9 DEF SyncOpened
  <2>2. {} \in Text /\ text[s] \in Text
    BY DEF TypeOK, Text
  <2>3. CASE SyncNeeded(s)
    <3>1. /\ sub' = [sub EXCEPT ![s] = "replacing"] /\ held' = held
          /\ syncFrom' = [syncFrom EXCEPT ![s] = text[s]]
          /\ guard' = [guard EXCEPT ![s] = TRUE]
      BY <1>9, <2>3 DEF SyncOpened
    <3> QED BY <2>1, <2>2, <3>1 DEF TypeOK
  <2>4. CASE ~SyncNeeded(s)
    <3>1. /\ sub' = [sub EXCEPT ![s] = "ready"] /\ held' = [held EXCEPT ![s] = {}]
          /\ syncFrom' = syncFrom /\ guard' = guard
      BY <1>9, <2>4 DEF SyncOpened
    <3> QED BY <2>1, <2>2, <3>1 DEF TypeOK
  <2> QED BY <2>3, <2>4
<1>10. ASSUME NEW s \in Side, SyncApplied(s) PROVE TypeOK'
  <2>1. batch' \in [Side -> Text] /\ base' \in [Side -> Text]
    BY <1>10, ChangeTyped DEF SyncApplied, TypeOK
  <2>2. misfit' \in BOOLEAN
    BY <1>10 DEF SyncApplied, TypeOK, ComposesMisfit
  <2> QED BY <1>10, <2>1, <2>2 DEF SyncApplied, ReleaseGuard, TypeOK, Text
<1>11. ASSUME NEW s \in Side, OpArrives(s) PROVE TypeOK'
  <2>1. Head(down[s]) \in Answer /\ down' \in [Side -> Seq(Answer)] /\ down[s] # << >>
    BY <1>11, AnswerTyped DEF OpArrives
  <2>2. Head(down[s]).edits \in Text
    BY <2>1 DEF Answer
  <2>3. data' \in [Side -> Text]
    BY <1>11, <2>2 DEF OpArrives, TypeOK, Text
  <2>4. [edits |-> Head(down[s]).edits, on |-> data[s]] \in RemoteOp
    BY <2>2 DEF RemoteOp, TypeOK
  <2>5. queue' \in [Side -> Seq(RemoteOp)]
    BY <1>11, <2>4 DEF OpArrives, TypeOK
  <2>6. sub[s] # "off"
    BY <2>1 DEF Exchange, Phase, NotOpen, Subscribing, Creating, Following
  <2>7. met' \in SUBSET {"sync", "edit"}
    BY <1>11 DEF OpArrives, TypeOK
  <2> QED BY <1>11, <2>1, <2>3, <2>5, <2>6, <2>7 DEF OpArrives, TypeOK
<1>12. ASSUME NEW s \in Side, PlaceRemoteOp(s) PROVE TypeOK'
  BY <1>12 DEF PlaceRemoteOp, TypeOK
<1>13. ASSUME NEW s \in Side, RemoteOpApplied(s) PROVE TypeOK'
  <2>1. queue[s] # << >>
    BY <1>13 DEF RemoteOpApplied, OneEditAtATime
  <2>2. Head(queue[s]) \in RemoteOp /\ Tail(queue[s]) \in Seq(RemoteOp)
    BY <2>1 DEF TypeOK
  <2>3. Head(queue[s]).edits \in Text
    BY <2>2 DEF RemoteOp
  <2>4. batch' \in [Side -> Text] /\ base' \in [Side -> Text]
    BY <1>13, <2>3, ChangeTyped DEF RemoteOpApplied, TypeOK
  <2>5. text' \in [Side -> Text]
    <3>1. text[s] \cup Head(queue[s]).edits \in Text
      BY <2>3 DEF TypeOK, Text
    <3> QED BY <1>13, <3>1 DEF RemoteOpApplied, TypeOK
  <2>6. misfit' \in BOOLEAN
    BY <1>13 DEF RemoteOpApplied, TypeOK, ComposesMisfit
  <2> QED BY <1>13, <2>2, <2>4, <2>5, <2>6
        DEF RemoteOpApplied, NextInQueue, ReleaseGuard, TypeOK, Text
<1>14. ASSUME NEW s \in Side, BackendTakes(s) PROVE TypeOK'
  <2>1. up[s] # << >> /\ Head(up[s]) \in Request /\ up' \in [Side -> Seq(Request)]
    BY <1>14 DEF BackendTakes, TypeOK
  <2>2. Other(s) \in Side /\ {} \in Text /\ Head(up[s]).edits \in Text
    BY <2>1 DEF Other, Side, Text, Request
  <2>3. sub[s] # "off"
    BY <2>1 DEF Exchange, Phase, NotOpen, Subscribing, Creating, Following
  <2>4. down' \in [Side -> Seq(Answer)]
    <3>1. server \in Text /\ down \in [Side -> Seq(Answer)]
      BY DEF TypeOK
    <3>2. CASE Head(up[s]).kind = "sub"
      <4>1. /\ Put(down, s, "snap", server) \in [Side -> Seq(Answer)]
            /\ Put(down, s, "none", {}) \in [Side -> Seq(Answer)]
        BY <2>2, <3>1, PutTyped
      <4> QED BY <1>14, <3>2, <4>1 DEF BackendTakes
    <3>3. CASE Head(up[s]).kind = "create"
      <4>1. Put(down, s, "ack", {}) \in [Side -> Seq(Answer)]
        BY <2>2, <3>1, PutTyped
      <4>2. Put(Put(down, s, "ack", {}), Other(s), "nack", {}) \in [Side -> Seq(Answer)]
        BY <2>2, <4>1, PutTyped
      <4> QED BY <1>14, <3>3, <4>1, <4>2 DEF BackendTakes
    <3>4. CASE Head(up[s]).kind = "op"
      <4>1. Put(down, Other(s), "op", Head(up[s]).edits) \in [Side -> Seq(Answer)]
        BY <2>2, <3>1, PutTyped
      <4> QED BY <1>14, <3>1, <3>4, <4>1 DEF BackendTakes
    <3> QED BY <2>1, <3>2, <3>3, <3>4 DEF Request
  <2> QED BY <1>14, <2>1, <2>2, <2>3, <2>4 DEF BackendTakes, TypeOK, Text
<1>15. CASE UNCHANGED vars
  BY <1>15 DEF vars, TypeOK
<1> QED BY <1>1, <1>2, <1>3, <1>4, <1>5, <1>6, <1>7, <1>8, <1>9, <1>10, <1>11, <1>12, <1>13,
           <1>14, <1>15 DEF Next, Bridge

-------------------------------------------------------------------------------
(* What ShareDB answers, and when *)

\* What is at the head of `down` tells where ensureDoc() is.
LEMMA AnswerTells ==
    ASSUME TypeOK, Exchange, NEW s \in Side, down[s] # << >>
    PROVE  /\ Head(down[s]).kind = "snap" =>
                /\ sub[s] = "subscribing" /\ s \in known /\ up[s] = << >> /\ exists
                /\ OnlyOps(Tail(down[s]))
           /\ Head(down[s]).kind = "none" =>
                /\ sub[s] = "subscribing" /\ s \in known /\ up[s] = << >>
                /\ \/ ~exists /\ Tail(down[s]) = << >>
                   \/ exists /\ Tail(down[s]) # << >> /\ Head(Tail(down[s])).kind = "nack"
           /\ Head(down[s]).kind = "ack" =>
                /\ sub[s] = "creating" /\ s \in known /\ exists
                /\ OnlyOps(up[s]) /\ OnlyOps(Tail(down[s]))
           /\ Head(down[s]).kind = "nack" => sub[s] = "creating"
           /\ Head(down[s]).kind = "op" => Following(s)
<1>1. Phase(s) /\ down[s] \in Seq(Answer)
  BY DEF Exchange, TypeOK
<1>2. CASE Following(s)
  <2>1. Head(down[s]).kind = "op"
    BY <1>1, <1>2, OpsTaken DEF Following
  <2> QED BY <1>2, <2>1
<1>3. CASE ~Following(s)
  BY <1>1, <1>3 DEF Phase, NotOpen, Subscribing, Creating, Leads
<1> QED BY <1>2, <1>3

\* The other side of a step.
LEMMA PhaseKept ==
    ASSUME NEW t \in Side, Phase(t), sub'[t] = sub[t], up'[t] = up[t], down'[t] = down[t],
           t \in known' <=> t \in known, exists' = exists
    PROVE  Phase(t)'
BY DEF Phase, NotOpen, Subscribing, Creating, Following

\* An op behind what a side has sent already.
LEMMA PhaseSends ==
    ASSUME TypeOK, NEW s \in Side, Phase(s), Typed(s), NEW edits \in Text, Send(s, "op", edits),
           UNCHANGED <<sub, known, exists, down>>
    PROVE  Phase(s)'
<1> DEFINE msg == [kind |-> "op", edits |-> edits]
<1>1. up[s] \in Seq(Request) /\ msg \in Request /\ msg.kind = "op"
  BY DEF TypeOK, Request
<1>2. up'[s] = Append(up[s], msg)
  BY DEF Send, TypeOK
<1>3. OnlyOps(up[s]) => OnlyOps(up'[s])
  BY <1>1, <1>2, OpsAppended
<1>4. Leads(up[s], "create") => Leads(up'[s], "create")
  BY <1>1, <1>2, OpsFollow
<1>5. CASE Creating(s)
  BY <1>3, <1>4, <1>5 DEF Creating, Phase
<1>6. CASE Following(s)
  BY <1>3, <1>6 DEF Following, Phase
<1> QED BY <1>5, <1>6 DEF Phase, NotOpen, Subscribing, Typed

\* An op behind what a subscriber has not read yet.
LEMMA PhaseHears ==
    ASSUME TypeOK, NEW t \in Side, Phase(t), t \in known, exists,
           NEW msg \in Answer, msg.kind = "op",
           down'[t] = Append(down[t], msg), up'[t] = up[t],
           UNCHANGED <<sub, known, exists>>
    PROVE  Phase(t)'
<1>1. down[t] \in Seq(Answer)
  BY DEF TypeOK
<1>2. down'[t] = Append(down[t], msg)
  OBVIOUS
<1>3. OnlyOps(down[t]) => OnlyOps(down'[t])
  BY <1>1, <1>2, OpsAppended
<1>4. \A kind : Leads(down[t], kind) => Leads(down'[t], kind)
  BY <1>1, <1>2, OpsFollow
<1>5. down[t] # << >> => down'[t] # << >> /\ Head(down'[t]) = Head(down[t])
                         /\ Tail(down'[t]) = Append(Tail(down[t]), msg)
                         /\ Tail(down[t]) \in Seq(Answer)
  BY <1>1, <1>2, AppendShape
<1>6. down[t] # << >> /\ Tail(down[t]) # << >> =>
        Tail(down'[t]) # << >> /\ Head(Tail(down'[t])) = Head(Tail(down[t]))
  BY <1>1, <1>5, AppendShape
<1>7. CASE Subscribing(t)
  BY <1>4, <1>5, <1>6, <1>7 DEF Subscribing, Phase
<1>8. CASE Creating(t)
  BY <1>4, <1>5, <1>8 DEF Creating, Phase
<1>9. CASE Following(t)
  BY <1>3, <1>9 DEF Following, Phase
<1> QED BY <1>7, <1>8, <1>9 DEF Phase, NotOpen

\* A creation reaches its author as an answer, and a subscriber that was told
\* of no document as a refusal.
LEMMA PhaseCreated ==
    ASSUME TypeOK, Exchange, NEW s \in Side, up[s] # << >>, Head(up[s]).kind = "create",
           BackendTakes(s)
    PROVE  Exchange'
<1>1. up[s] \in Seq(Request) /\ down \in [Side -> Seq(Answer)]
  BY DEF TypeOK
<1>2. ~(down[s] # << >> /\ Head(down[s]).kind = "nack")
  BY <1>1, FirstAnswer DEF BackendTakes, Answers
<1>3. /\ sub[s] = "creating" /\ s \in known /\ ~exists
      /\ OnlyOps(Tail(up[s])) /\ down[s] = << >>
  <2>1. ~OnlyOps(up[s])
    BY <1>1, OpsTaken
  <2> QED BY <1>2, <2>1 DEF Exchange, Phase, NotOpen, Subscribing, Creating, Following, Leads
<1>4. /\ up'[s] = Tail(up[s]) /\ up'[Other(s)] = up[Other(s)] /\ exists'
      /\ UNCHANGED <<sub, known>>
  BY DEF BackendTakes, TypeOK, Other, Side
<1>5. PICK ack \in Answer : ack.kind = "ack" /\ down'[s] = << ack >>
  <2>1. [kind |-> "ack", edits |-> {}] \in Answer
    BY DEF Answer, Text
  <2>2. Other(s) # s
    BY DEF Other, Side
  <2>3. down'[s] = Append(down[s], [kind |-> "ack", edits |-> {}])
    BY <1>1, <2>2 DEF BackendTakes, Put
  <2> QED BY <1>3, <2>1, <2>3
<1>6. Phase(s)'
  BY <1>3, <1>4, <1>5 DEF Phase, Creating, Leads, OnlyOps
<1>7. Phase(Other(s)) /\ Other(s) \in Side /\ Other(s) # s
  BY DEF Exchange, Other, Side
<1>8. ASSUME Other(s) \in known PROVE Phase(Other(s))'
  <2>1. PICK nack \in Answer :
          nack.kind = "nack" /\ down'[Other(s)] = Append(down[Other(s)], nack)
    <3>1. [kind |-> "nack", edits |-> {}] \in Answer
      BY DEF Answer, Text
    <3>2. down'[Other(s)] = Append(down[Other(s)], [kind |-> "nack", edits |-> {}])
      BY <1>1, <1>7, <1>8 DEF BackendTakes, Put
    <3> QED BY <3>1, <3>2
  <2>2. down[Other(s)] \in Seq(Answer)
    BY <1>1, <1>7
  <2>3. CASE down[Other(s)] = << >>
    <3>1. sub[Other(s)] = "creating"
      BY <1>3, <1>7, <1>8, <2>3 DEF Phase, NotOpen, Subscribing, Creating, Following, Leads
    <3>2. down'[Other(s)] # << >> /\ Head(down'[Other(s)]).kind = "nack"
      BY <2>1, <2>2, <2>3, AppendShape
    <3> QED BY <1>4, <1>8, <3>1, <3>2 DEF Phase, Creating
  <2>4. CASE down[Other(s)] # << >>
    <3>1. /\ sub[Other(s)] = "subscribing" /\ up[Other(s)] = << >>
          /\ Head(down[Other(s)]).kind = "none" /\ Tail(down[Other(s)]) = << >>
      BY <1>3, <1>7, <1>8, <2>4
         DEF Phase, NotOpen, Subscribing, Creating, Following, Leads
    <3>2. /\ down'[Other(s)] # << >> /\ Head(down'[Other(s)]).kind = "none"
          /\ Tail(down'[Other(s)]) = << nack >>
      <4>1. /\ down'[Other(s)] # << >> /\ Head(down'[Other(s)]) = Head(down[Other(s)])
            /\ Tail(down'[Other(s)]) = Append(Tail(down[Other(s)]), nack)
        BY <2>1, <2>2, <2>4, AppendShape
      <4>2. Append(<< >>, nack) = << nack >>
        OBVIOUS
      <4> QED BY <3>1, <4>1, <4>2
    <3>3. << nack >> # << >> /\ Head(<< nack >>) = nack
      OBVIOUS
    <3> QED BY <1>4, <1>8, <2>1, <3>1, <3>2, <3>3 DEF Phase, Subscribing
  <2> QED BY <2>3, <2>4
<1>9. ASSUME Other(s) \notin known PROVE Phase(Other(s))'
  <2>1. down'[Other(s)] = down[Other(s)]
    BY <1>1, <1>7, <1>9 DEF BackendTakes, Put
  <2> QED BY <1>4, <1>7, <1>9, <2>1
          DEF Phase, NotOpen, Subscribing, Creating, Following
<1>10. Phase(Other(s))'
  BY <1>8, <1>9
<1> QED BY <1>6, <1>10 DEF Exchange, Other, Side

LEMMA ExchangeStep == TypeOK /\ Exchange /\ [Next]_vars => Exchange'
<1> SUFFICES ASSUME TypeOK, Exchange, [Next]_vars PROVE Exchange'
  OBVIOUS
<1>1. ASSUME NEW s \in Side, NEW e \in EditOf(s), Types(s, e) PROVE Exchange'
  BY <1>1, PhaseKept DEF Types, Exchange
<1>2. ASSUME NEW s \in Side, FlushOp(s) PROVE Exchange'
  <2>1. CASE Typed(s)
    <3>1. Phase(s)'
      <4>1. Send(s, "op", batch[s]) /\ UNCHANGED <<sub, known, exists, down>>
        BY <1>2, <2>1 DEF FlushOp
      <4>2. batch[s] \in Text /\ Phase(s)
        BY DEF TypeOK, Exchange
      <4> QED BY <2>1, <4>1, <4>2, PhaseSends
    <3>2. ASSUME NEW t \in Side, t # s PROVE Phase(t)'
      BY <1>2, <2>1, <3>2, PhaseKept DEF FlushOp, Send, Exchange, TypeOK
    <3> QED BY <3>1, <3>2 DEF Exchange
  <2>2. CASE ~Typed(s)
    BY <1>2, <2>2, PhaseKept DEF FlushOp, Exchange
  <2> QED BY <2>1, <2>2
<1>3. CASE GrantEditAccess
  BY <1>3, PhaseKept DEF GrantEditAccess, Exchange
<1>4. ASSUME NEW s \in Side, EnsureDoc(s) PROVE Exchange'
  <2>1. NotOpen(s)
    BY <1>4 DEF EnsureDoc, Exchange, Phase, Subscribing, Creating, Following
  <2>2. sub'[s] = "subscribing" /\ UNCHANGED <<known, exists, down>>
    BY <1>4 DEF EnsureDoc, TypeOK
  <2>3. PICK msg \in Request : msg.kind = "sub" /\ up'[s] = << msg >>
    <3>1. [kind |-> "sub", edits |-> {}] \in Request
      BY DEF Request, Text
    <3>2. up'[s] = Append(up[s], [kind |-> "sub", edits |-> {}])
      BY <1>4 DEF EnsureDoc, Send, TypeOK
    <3> QED BY <2>1, <3>1, <3>2 DEF NotOpen
  <2>4. Phase(s)'
    BY <2>1, <2>2, <2>3 DEF NotOpen, Phase, Subscribing, Leads, OnlyOps
  <2>5. ASSUME NEW t \in Side, t # s PROVE Phase(t)'
    BY <1>4, <2>5, PhaseKept DEF EnsureDoc, Send, Exchange, TypeOK
  <2> QED BY <2>4, <2>5 DEF Exchange
<1>5. ASSUME NEW s \in Side, SnapshotArrives(s) PROVE Exchange'
  <2>1. /\ s \in known /\ up[s] = << >> /\ exists /\ OnlyOps(Tail(down[s]))
    BY <1>5, AnswerTells DEF SnapshotArrives, Answered
  <2>2. sub'[s] = "opening" /\ down'[s] = Tail(down[s]) /\ UNCHANGED <<known, exists, up>>
    BY <1>5 DEF SnapshotArrives, Answered, TypeOK
  <2>3. Phase(s)'
    BY <2>1, <2>2 DEF Phase, Following, OnlyOps
  <2>4. ASSUME NEW t \in Side, t # s PROVE Phase(t)'
    BY <1>5, <2>4, PhaseKept DEF SnapshotArrives, Answered, Exchange, TypeOK
  <2> QED BY <2>3, <2>4 DEF Exchange
<1>6. ASSUME NEW s \in Side, CreatesDocument(s) PROVE Exchange'
  <2>1. /\ s \in known /\ up[s] = << >>
        /\ \/ ~exists /\ Tail(down[s]) = << >>
           \/ exists /\ Tail(down[s]) # << >> /\ Head(Tail(down[s])).kind = "nack"
    BY <1>6, AnswerTells DEF CreatesDocument, Answered
  <2>2. sub'[s] = "creating" /\ down'[s] = Tail(down[s]) /\ UNCHANGED <<known, exists>>
    BY <1>6 DEF CreatesDocument, Answered, TypeOK
  <2>3. PICK msg \in Request : msg.kind = "create" /\ up'[s] = << msg >>
    <3>1. [kind |-> "create", edits |-> held[s]] \in Request
      BY DEF Request, TypeOK
    <3>2. up'[s] = Append(up[s], [kind |-> "create", edits |-> held[s]])
      BY <1>6 DEF CreatesDocument, Send, TypeOK
    <3> QED BY <2>1, <3>1, <3>2
  <2>4. Phase(s)'
    BY <2>1, <2>2, <2>3 DEF Phase, Creating, Leads, OnlyOps
  <2>5. ASSUME NEW t \in Side, t # s PROVE Phase(t)'
    BY <1>6, <2>5, PhaseKept DEF CreatesDocument, Answered, Send, Exchange, TypeOK
  <2> QED BY <2>4, <2>5 DEF Exchange
<1>7. ASSUME NEW s \in Side, CreationDone(s) PROVE Exchange'
  <2>1. s \in known /\ exists /\ OnlyOps(up[s]) /\ OnlyOps(Tail(down[s]))
    BY <1>7, AnswerTells DEF CreationDone, Answered
  <2>2. sub'[s] = "opening" /\ down'[s] = Tail(down[s]) /\ UNCHANGED <<known, exists, up>>
    BY <1>7 DEF CreationDone, Answered, TypeOK
  <2>3. Phase(s)'
    BY <2>1, <2>2 DEF Phase, Following
  <2>4. ASSUME NEW t \in Side, t # s PROVE Phase(t)'
    BY <1>7, <2>4, PhaseKept DEF CreationDone, Answered, Exchange, TypeOK
  <2> QED BY <2>3, <2>4 DEF Exchange
<1>8. ASSUME NEW s \in Side, CreationFails(s) PROVE Exchange'
  <2>1. Phase(s)'
    BY <1>8 DEF CreationFails, DestroyDocument, Phase, NotOpen, TypeOK
  <2>2. ASSUME NEW t \in Side, t # s PROVE Phase(t)'
    BY <1>8, <2>2, PhaseKept DEF CreationFails, DestroyDocument, Exchange, TypeOK
  <2> QED BY <2>1, <2>2 DEF Exchange
<1>9. ASSUME NEW s \in Side, SyncOpened(s) \/ SyncApplied(s) PROVE Exchange'
  <2>1. /\ sub[s] \in {"opening", "replacing"} /\ sub'[s] \in {"replacing", "ready"}
        /\ \A t \in Side : t # s => sub'[t] = sub[t]
        /\ UNCHANGED <<known, exists, up, down>>
    BY <1>9 DEF SyncOpened, SyncApplied, TypeOK
  <2>2. Phase(s)'
    BY <2>1 DEF Exchange, Phase, NotOpen, Subscribing, Creating, Following
  <2>3. ASSUME NEW t \in Side, t # s PROVE Phase(t)'
    BY <2>1, <2>3, PhaseKept DEF Exchange
  <2> QED BY <2>2, <2>3 DEF Exchange
<1>10. ASSUME NEW s \in Side, OpArrives(s) PROVE Exchange'
  <2>1. Following(s) /\ down[s] # << >> /\ down[s] \in Seq(Answer)
    BY <1>10, AnswerTells DEF OpArrives, Answered, TypeOK
  <2>2. down'[s] = Tail(down[s]) /\ UNCHANGED <<sub, known, exists, up>>
    BY <1>10 DEF OpArrives, Answered, TypeOK
  <2>3. OnlyOps(down'[s])
    BY <2>1, <2>2, OpsTaken DEF Following
  <2>4. Phase(s)'
    BY <2>1, <2>2, <2>3 DEF Phase, Following
  <2>5. ASSUME NEW t \in Side, t # s PROVE Phase(t)'
    BY <1>10, <2>5, PhaseKept DEF OpArrives, Answered, Exchange, TypeOK
  <2> QED BY <2>4, <2>5 DEF Exchange
<1>11. ASSUME NEW s \in Side, PlaceRemoteOp(s) \/ RemoteOpApplied(s) PROVE Exchange'
  BY <1>11, PhaseKept DEF PlaceRemoteOp, RemoteOpApplied, Exchange
<1>12. ASSUME NEW s \in Side, BackendTakes(s) PROVE Exchange'
  <2>1. up[s] # << >> /\ up[s] \in Seq(Request) /\ down \in [Side -> Seq(Answer)]
    BY <1>12 DEF BackendTakes, TypeOK
  <2>2. Other(s) \in Side /\ Other(s) # s /\ Phase(s) /\ Phase(Other(s))
    BY DEF Exchange, Other, Side
  <2>3. /\ up'[s] = Tail(up[s]) /\ up'[Other(s)] = up[Other(s)] /\ sub' = sub
    BY <1>12, <2>2 DEF BackendTakes, TypeOK
  <2>0. Head(up[s]) \in Request
    BY <2>1
  <2>4. CASE Head(up[s]).kind = "sub"
    <3>1. sub[s] = "subscribing" /\ Tail(up[s]) = << >> /\ down[s] = << >>
      <4>1. ~OnlyOps(up[s])
        BY <2>1, <2>4, OpsTaken
      <4>2. CASE Creating(s)
        BY <1>12, <2>1, <2>4, <4>1, <4>2, FirstAnswer
           DEF Creating, Leads, BackendTakes, Answers
      <4> QED BY <2>1, <2>2, <4>1, <4>2 DEF Phase, NotOpen, Subscribing, Following
    <3>2. known' = known \cup {s} /\ UNCHANGED exists
      BY <1>12, <2>4 DEF BackendTakes
    <3>3. PICK msg \in Answer : /\ msg.kind = IF exists THEN "snap" ELSE "none"
                               /\ down' = [down EXCEPT ![s] = Append(@, msg)]
      <4>1. CASE exists
        <5>1. [kind |-> "snap", edits |-> server] \in Answer
          BY DEF Answer, TypeOK
        <5> QED BY <1>12, <2>4, <4>1, <5>1 DEF BackendTakes, Put
      <4>2. CASE ~exists
        <5>1. [kind |-> "none", edits |-> {}] \in Answer
          BY DEF Answer, Text
        <5> QED BY <1>12, <2>4, <4>2, <5>1 DEF BackendTakes, Put
      <4> QED BY <4>1, <4>2
    <3>4. down'[s] = << msg >>
      BY <2>1, <3>1, <3>3
    <3>5. Phase(s)'
      BY <2>3, <3>1, <3>2, <3>3, <3>4 DEF Phase, Subscribing, Leads, OnlyOps
    <3>6. Phase(Other(s))'
      BY <2>1, <2>2, <2>3, <3>2, <3>3, PhaseKept
    <3> QED BY <3>5, <3>6 DEF Exchange, Other, Side
  <2>5. CASE Head(up[s]).kind = "create"
    BY <1>12, <2>1, <2>5, PhaseCreated
  <2>6. CASE Head(up[s]).kind = "op"
    <3>1. s \in known /\ exists /\ OnlyOps(up[s])
      <4>1. CASE Creating(s)
        BY <1>12, <2>1, <2>6, <4>1, FirstAnswer DEF Creating, Leads, BackendTakes, Answers
      <4> QED BY <2>1, <2>2, <2>6, <4>1 DEF Phase, NotOpen, Subscribing, Leads, Following
    <3>2. UNCHANGED <<exists, known>> /\ down'[s] = down[s]
      BY <1>12, <2>1, <2>2, <2>6 DEF BackendTakes, Put
    <3>3. Phase(s)'
      <4>1. OnlyOps(up'[s])
        BY <2>1, <2>3, <3>1, OpsTaken
      <4> QED BY <2>1, <2>2, <2>3, <3>1, <3>2, <4>1
              DEF Phase, NotOpen, Subscribing, Creating, Following, Leads
    <3>4. ASSUME Other(s) \in known PROVE Phase(Other(s))'
      <4>1. PICK msg \in Answer :
              msg.kind = "op" /\ down'[Other(s)] = Append(down[Other(s)], msg)
        <5>1. [kind |-> "op", edits |-> Head(up[s]).edits] \in Answer
          BY <2>0 DEF Answer, Request
        <5>2. down'[Other(s)] = Append(down[Other(s)], [kind |-> "op", edits |-> Head(up[s]).edits])
          BY <1>12, <2>1, <2>2, <2>6, <3>4 DEF BackendTakes, Put
        <5> QED BY <5>1, <5>2
      <4> QED BY <2>2, <2>3, <3>1, <3>2, <3>4, <4>1, PhaseHears
    <3>5. ASSUME Other(s) \notin known PROVE Phase(Other(s))'
      BY <1>12, <2>2, <2>3, <2>6, <3>2, <3>5, PhaseKept DEF BackendTakes
    <3> QED BY <3>3, <3>4, <3>5 DEF Exchange, Other, Side
  <2> QED BY <2>0, <2>4, <2>5, <2>6 DEF Request
<1>13. CASE UNCHANGED vars
  BY <1>13, PhaseKept DEF vars, Exchange
<1> QED BY <1>1, <1>2, <1>3, <1>4, <1>5, <1>6, <1>7, <1>8, <1>9, <1>10, <1>11, <1>12, <1>13
        DEF Next, Bridge

-------------------------------------------------------------------------------
(* The guard and the queue *)

\* The invariant without the types and the answers.
Editing == GuardIsReleased /\ OneEditAtATime /\ BridgeUnheard /\ NoEcho

\* A step that touches none of it.
LEMMA EditingKept ==
    ASSUME Editing, UNCHANGED <<sub, batch, queue, placing, guard, met>>
    PROVE  Editing'
BY DEF Editing, GuardIsReleased, OneEditAtATime, BridgeUnheard, NoEcho

\* A step of ensureDoc() before the editor is touched.
LEMMA EditingOpens ==
    ASSUME TypeOK, Editing, NEW s \in Side, sub[s] \in {"off", "subscribing", "creating"},
           NEW state \in {"off", "subscribing", "creating", "opening"},
           sub' = [sub EXCEPT ![s] = state], UNCHANGED <<batch, queue, placing, guard, met>>
    PROVE  Editing'
BY DEF TypeOK, Editing, GuardIsReleased, OneEditAtATime, BridgeUnheard, NoEcho

\* As long as nothing has met anything, the bridge edits under the guard, and
\* one edit at a time, so that its change is not heard.
LEMMA EditingStep == TypeOK /\ Exchange /\ Editing /\ [Next]_vars => Editing'
<1> SUFFICES ASSUME TypeOK, Exchange, Editing, [Next]_vars PROVE Editing'
  OBVIOUS
<1>1. ASSUME NEW s \in Side, NEW e \in EditOf(s), Types(s, e) PROVE Editing'
  <2>1. met' = {} => met = {}
    BY <1>1 DEF Types
  <2>2. UNCHANGED <<sub, queue, placing, guard>>
    BY <1>1 DEF Types
  <2>3. \A t \in Side : batch'[t] = batch[t] \/ (t = s /\ batch'[t] = batch[t] \cup {e})
    BY <1>1 DEF Types, OnLocalDocumentChange, TypeOK
  <2>4. NoEcho'
    BY <2>1, <2>3 DEF Editing, NoEcho
  <2> QED BY <2>1, <2>2, <2>4
          DEF Editing, GuardIsReleased, OneEditAtATime, BridgeUnheard
<1>2. ASSUME NEW s \in Side, FlushOp(s) PROVE Editing'
  <2>1. UNCHANGED <<sub, queue, placing, guard, met>>
    BY <1>2 DEF FlushOp
  <2>2. \A t \in Side : batch'[t] \subseteq batch[t]
    BY <1>2 DEF FlushOp, TakeBatch, TypeOK
  <2> QED BY <2>1, <2>2 DEF Editing, GuardIsReleased, OneEditAtATime, BridgeUnheard, NoEcho
<1>3. CASE GrantEditAccess
  BY <1>3, EditingKept DEF GrantEditAccess
<1>4. ASSUME NEW s \in Side, EnsureDoc(s) PROVE Editing'
  BY <1>4, EditingOpens DEF EnsureDoc
<1>5. ASSUME NEW s \in Side, SnapshotArrives(s) PROVE Editing'
  BY <1>5, AnswerTells, EditingOpens DEF SnapshotArrives, Answered
<1>6. ASSUME NEW s \in Side, CreatesDocument(s) PROVE Editing'
  BY <1>6, AnswerTells, EditingOpens DEF CreatesDocument, Answered
<1>7. ASSUME NEW s \in Side, CreationDone(s) PROVE Editing'
  BY <1>7, AnswerTells, EditingOpens DEF CreationDone, Answered
<1>8. ASSUME NEW s \in Side, CreationFails(s) PROVE Editing'
  BY <1>8, AnswerTells, EditingOpens DEF CreationFails
<1>9. ASSUME NEW s \in Side, SyncOpened(s) PROVE Editing'
  <2>1. sub[s] = "opening" /\ UNCHANGED <<batch, queue, placing, met>>
    BY <1>9 DEF SyncOpened
  <2>2. \/ sub' = [sub EXCEPT ![s] = "replacing"] /\ guard' = [guard EXCEPT ![s] = TRUE]
        \/ sub' = [sub EXCEPT ![s] = "ready"] /\ guard' = guard
    BY <1>9 DEF SyncOpened
  <2>3. \A t \in Side : met = {} /\ queue[t] # << >> => sub'[t] = "ready"
    BY <2>1, <2>2 DEF TypeOK, Editing, OneEditAtATime
  <2>4. OneEditAtATime' /\ NoEcho'
    BY <2>1, <2>3 DEF Editing, OneEditAtATime, NoEcho
  <2>5. GuardIsReleased' /\ BridgeUnheard'
    <3>1. ~placing[s] \/ met # {}
      BY <2>1 DEF Editing, OneEditAtATime
    <3>2. CASE sub' = [sub EXCEPT ![s] = "replacing"] /\ guard' = [guard EXCEPT ![s] = TRUE]
      BY <2>1, <3>2 DEF TypeOK, Editing, GuardIsReleased, BridgeUnheard
    <3>3. CASE sub' = [sub EXCEPT ![s] = "ready"] /\ guard' = guard
      BY <2>1, <3>1, <3>3 DEF TypeOK, Editing, GuardIsReleased, BridgeUnheard
    <3> QED BY <2>2, <3>2, <3>3
  <2> QED BY <2>4, <2>5 DEF Editing
<1>10. ASSUME NEW s \in Side, SyncApplied(s) PROVE Editing'
  <2>1. /\ sub[s] = "replacing" /\ sub' = [sub EXCEPT ![s] = "ready"]
        /\ guard' = [guard EXCEPT ![s] = FALSE] /\ UNCHANGED <<queue, placing, met>>
    BY <1>10 DEF SyncApplied, ReleaseGuard
  <2>2. met = {} => guard[s] /\ ~placing[s]
    BY <2>1 DEF Editing, OneEditAtATime, BridgeUnheard
  <2>3. met = {} => batch' = batch
    BY <1>10, <2>2 DEF SyncApplied, OnLocalDocumentChange, Hears
  <2> QED BY <2>1, <2>2, <2>3
          DEF TypeOK, Editing, GuardIsReleased, OneEditAtATime, BridgeUnheard, NoEcho
<1>11. ASSUME NEW s \in Side, OpArrives(s) PROVE Editing'
  <2>1. /\ met' = {} => met = {} /\ sub[s] = "ready"
        /\ UNCHANGED <<sub, batch, placing, guard>>
    BY <1>11 DEF OpArrives
  <2>2. PICK op \in RemoteOp : queue' = [queue EXCEPT ![s] = Append(@, op)]
    <3>1. Head(down[s]).edits \in Text
      BY <1>11, AnswerTyped DEF OpArrives, Answer
    <3>2. [edits |-> Head(down[s]).edits, on |-> data[s]] \in RemoteOp
      BY <3>1 DEF RemoteOp, TypeOK
    <3> QED BY <1>11, <3>2 DEF OpArrives
  <2>3. queue'[s] # << >> /\ \A t \in Side : t # s => queue'[t] = queue[t]
    <3>1. queue \in [Side -> Seq(RemoteOp)] /\ queue[s] \in Seq(RemoteOp)
      BY DEF TypeOK
    <3>2. queue'[s] = Append(queue[s], op) /\ Append(queue[s], op) # << >>
      BY <2>2, <3>1, AppendShape
    <3> QED BY <2>2, <3>1, <3>2
  <2> QED BY <2>1, <2>3
          DEF Editing, GuardIsReleased, OneEditAtATime, BridgeUnheard, NoEcho
<1>12. ASSUME NEW s \in Side, PlaceRemoteOp(s) PROVE Editing'
  BY <1>12 DEF PlaceRemoteOp, TypeOK, Editing, GuardIsReleased, OneEditAtATime,
               BridgeUnheard, NoEcho
<1>13. ASSUME NEW s \in Side, RemoteOpApplied(s) PROVE Editing'
  <2>1. /\ placing[s] /\ placing' = [placing EXCEPT ![s] = FALSE]
        /\ guard' = [guard EXCEPT ![s] = FALSE] /\ UNCHANGED <<sub, met>>
        /\ queue' = [queue EXCEPT ![s] = Tail(@)]
    BY <1>13 DEF RemoteOpApplied, ReleaseGuard, NextInQueue
  <2>2. queue[s] # << >> /\ (met = {} => sub[s] = "ready" /\ guard[s])
    BY <2>1 DEF Editing, OneEditAtATime, BridgeUnheard
  <2>3. met = {} => batch' = batch
    BY <1>13, <2>2 DEF RemoteOpApplied, OnLocalDocumentChange, Hears
  <2>4. ~placing'[s] /\ ~guard'[s]
        /\ \A t \in Side : t # s => placing'[t] = placing[t] /\ guard'[t] = guard[t]
                                    /\ queue'[t] = queue[t]
    BY <2>1 DEF TypeOK
  <2>5. GuardIsReleased' /\ OneEditAtATime' /\ BridgeUnheard'
    BY <2>1, <2>2, <2>4 DEF Editing, GuardIsReleased, OneEditAtATime, BridgeUnheard
  <2> QED BY <2>1, <2>3, <2>5 DEF Editing, NoEcho
<1>14. ASSUME NEW s \in Side, BackendTakes(s) PROVE Editing'
  BY <1>14, EditingKept DEF BackendTakes
<1>15. CASE UNCHANGED vars
  BY <1>15, EditingKept DEF vars
<1> QED BY <1>1, <1>2, <1>3, <1>4, <1>5, <1>6, <1>7, <1>8, <1>9, <1>10, <1>11, <1>12, <1>13,
           <1>14, <1>15 DEF Next, Bridge

-------------------------------------------------------------------------------
(* The copies of the document *)

\* The other side of a step.
LEMMA CopyKept ==
    ASSUME NEW t \in Side, CopyOf(t), sub'[t] = sub[t], data'[t] = data[t],
           up'[t] = up[t], down'[t] = down[t], t \in known' => t \in known,
           exists' = exists, server' = server
    PROVE  CopyOf(t)'
BY DEF CopyOf, Answers

\* The first message of `down` is taken, and the document with its edits
\* stays what it is.
LEMMA CopyHears ==
    ASSUME TypeOK, NEW s \in Side, CopyOf(s), NEW kind, Answered(s, kind), kind # "nack",
           s \in known, exists, sub'[s] \in {"opening", "replacing", "ready"},
           data'[s] = data[s] \cup Head(down[s]).edits,
           up'[s] = up[s], UNCHANGED <<known, exists, server>>
    PROVE  CopyOf(s)'
<1>1. /\ down[s] \in Seq(Answer) /\ down[s] # << >> /\ Head(down[s]).kind = kind
      /\ down'[s] = Tail(down[s])
  BY DEF Answered, TypeOK
<1>2. Has(down[s], "nack") <=> Has(down'[s], "nack")
  BY <1>1, HasTaken
<1>3. Answers(s, "nack")' <=> Answers(s, "nack")
  BY <1>2 DEF Answers, Has
<1>4. Carried(down[s]) = Head(down[s]).edits \cup Carried(down'[s])
  BY <1>1, CarriedTaken
<1> QED BY <1>3, <1>4 DEF CopyOf

\* What a request that the backend takes tells of its sender.
LEMMA SubTaken ==
    ASSUME TypeOK, Exchange, NEW s \in Side, BackendTakes(s), Head(up[s]).kind = "sub"
    PROVE  sub[s] = "subscribing" /\ Tail(up[s]) = << >> /\ down[s] = << >>
<1>1. up[s] # << >> /\ up[s] \in Seq(Request) /\ down \in [Side -> Seq(Answer)]
  BY DEF BackendTakes, TypeOK
<1>2. ~OnlyOps(up[s]) /\ Phase(s)
  BY <1>1, OpsTaken DEF Exchange
<1>3. CASE Creating(s)
  BY <1>1, <1>2, <1>3, FirstAnswer DEF Creating, Leads, BackendTakes, Answers
<1> QED BY <1>1, <1>2, <1>3 DEF Phase, NotOpen, Subscribing, Following

LEMMA CreateTaken ==
    ASSUME TypeOK, Exchange, NEW s \in Side, BackendTakes(s), Head(up[s]).kind = "create"
    PROVE  /\ sub[s] = "creating" /\ s \in known /\ ~exists
           /\ OnlyOps(Tail(up[s])) /\ down[s] = << >>
<1>1. up[s] # << >> /\ up[s] \in Seq(Request) /\ down \in [Side -> Seq(Answer)]
  BY DEF BackendTakes, TypeOK
<1>2. ~(down[s] # << >> /\ Head(down[s]).kind = "nack")
  BY <1>1, FirstAnswer DEF BackendTakes, Answers
<1>3. ~OnlyOps(up[s])
  BY <1>1, OpsTaken
<1> QED BY <1>1, <1>2, <1>3 DEF Exchange, Phase, NotOpen, Subscribing, Creating, Following, Leads

LEMMA OpTaken ==
    ASSUME TypeOK, Exchange, NEW s \in Side, BackendTakes(s), Head(up[s]).kind = "op"
    PROVE  s \in known /\ exists /\ OnlyOps(up[s])
<1>1. up[s] # << >> /\ up[s] \in Seq(Request) /\ down \in [Side -> Seq(Answer)] /\ Phase(s)
  BY DEF BackendTakes, TypeOK, Exchange
<1>2. CASE Creating(s)
  BY <1>1, <1>2, FirstAnswer DEF Creating, Leads, BackendTakes, Answers
<1> QED BY <1>1, <1>2 DEF Phase, NotOpen, Subscribing, Leads, Following

LEMMA CopiesStep == TypeOK /\ Exchange /\ Copies /\ [Next]_vars => Copies'
<1> SUFFICES ASSUME TypeOK, Exchange, Copies, [Next]_vars PROVE Copies'
  OBVIOUS
<1>1. ASSUME NEW s \in Side, NEW e \in EditOf(s), Types(s, e) PROVE Copies'
  BY <1>1, CopyKept DEF Types, Copies
<1>2. ASSUME NEW s \in Side, FlushOp(s) PROVE Copies'
  <2>1. CASE Typed(s)
    <3>1. batch[s] \in Text /\ [kind |-> "op", edits |-> batch[s]] \in Request
      BY DEF TypeOK, Request
    <3>2. /\ up'[s] = Append(up[s], [kind |-> "op", edits |-> batch[s]])
          /\ data'[s] = data[s] \cup batch[s]
          /\ UNCHANGED <<sub, down, known, exists, server>>
          /\ \A t \in Side : t # s => up'[t] = up[t] /\ data'[t] = data[t]
      BY <1>2, <2>1 DEF FlushOp, Send, TypeOK
    <3>3. Carried(up'[s]) = Carried(up[s]) \cup batch[s]
      BY <3>1, <3>2, CarriedAppended DEF TypeOK
    <3>4. CopyOf(s)'
      BY <2>1, <3>2, <3>3 DEF Copies, CopyOf, Answers, Typed
    <3> QED BY <3>2, <3>4, CopyKept DEF Copies
  <2>2. CASE ~Typed(s)
    BY <1>2, <2>2, CopyKept DEF FlushOp, Copies
  <2> QED BY <2>1, <2>2
<1>3. CASE GrantEditAccess
  BY <1>3, CopyKept DEF GrantEditAccess, Copies
<1>4. ASSUME NEW s \in Side, EnsureDoc(s) PROVE Copies'
  <2>1. s \notin known
    BY <1>4 DEF EnsureDoc, TypeOK
  <2>2. CopyOf(s)'
    BY <1>4, <2>1 DEF EnsureDoc, Copies, CopyOf, TypeOK
  <2>3. ASSUME NEW t \in Side, t # s PROVE CopyOf(t)'
    BY <1>4, <2>3, CopyKept DEF EnsureDoc, Send, Copies, TypeOK
  <2> QED BY <1>4, <2>2, <2>3 DEF EnsureDoc, Copies
<1>5. ASSUME NEW s \in Side, SnapshotArrives(s) PROVE Copies'
  <2>1. s \in known /\ exists /\ sub[s] = "subscribing"
    BY <1>5, AnswerTells DEF SnapshotArrives, Answered
  <2>2. /\ Answered(s, "snap") /\ sub'[s] = "opening"
        /\ data'[s] = data[s] \cup Head(down[s]).edits
        /\ UNCHANGED <<up, known, exists, server>>
    BY <1>5, <2>1 DEF SnapshotArrives, Copies, CopyOf, TypeOK
  <2>3. CopyOf(s)'
    BY <2>1, <2>2, CopyHears DEF Copies
  <2>4. ASSUME NEW t \in Side, t # s PROVE CopyOf(t)'
    BY <1>5, <2>4, CopyKept DEF SnapshotArrives, Answered, Copies, TypeOK
  <2> QED BY <2>2, <2>3, <2>4 DEF Copies
<1>6. ASSUME NEW s \in Side, CreatesDocument(s) PROVE Copies'
  <2>1. /\ up[s] = << >> /\ s \in known
        /\ \/ ~exists /\ Tail(down[s]) = << >>
           \/ exists /\ Tail(down[s]) # << >> /\ Head(Tail(down[s])).kind = "nack"
    BY <1>6, AnswerTells DEF CreatesDocument, Answered
  <2>2. /\ sub'[s] = "creating" /\ data'[s] = held[s] /\ down'[s] = Tail(down[s])
        /\ up'[s] = Append(up[s], [kind |-> "create", edits |-> held[s]])
        /\ UNCHANGED <<known, exists, server>>
    BY <1>6 DEF CreatesDocument, Answered, Send, TypeOK
  <2>3. Carried(up'[s]) = held[s]
    <3>1. PICK msg \in Request : msg.edits = held[s] /\ up'[s] = Append(up[s], msg)
      <4>1. [kind |-> "create", edits |-> held[s]] \in Request
        BY DEF TypeOK, Request
      <4> QED BY <2>2, <4>1
    <3>2. Carried(up'[s]) = Carried(up[s]) \cup held[s]
      BY <3>1, CarriedAppended DEF TypeOK
    <3> QED BY <2>1, <3>2, CarriedNothing
  <2>4. exists => Answers(s, "nack")'
    <3>1. down[s] \in Seq(Answer) /\ down[s] # << >>
      BY <1>6 DEF CreatesDocument, Answered, TypeOK
    <3>2. exists => Has(Tail(down[s]), "nack")
      <4>1. Tail(down[s]) \in Seq(Answer)
        BY <3>1
      <4> QED BY <2>1, <4>1, FirstAnswer DEF Has
    <3> QED BY <2>2, <3>2 DEF Answers, Has
  <2>5. CopyOf(s)'
    BY <2>1, <2>2, <2>3, <2>4 DEF CopyOf
  <2>6. ASSUME NEW t \in Side, t # s PROVE CopyOf(t)'
    BY <1>6, <2>6, CopyKept DEF CreatesDocument, Answered, Send, Copies, TypeOK
  <2> QED BY <2>2, <2>5, <2>6 DEF Copies
<1>7. ASSUME NEW s \in Side, CreationDone(s) PROVE Copies'
  <2>1. s \in known /\ exists
    BY <1>7, AnswerTells DEF CreationDone, Answered
  <2>2. /\ Answered(s, "ack") /\ sub'[s] = "opening"
        /\ data'[s] = data[s] \cup Head(down[s]).edits
        /\ UNCHANGED <<up, known, exists, server>>
    <3>1. Head(down[s]).edits = {}
      BY <1>7, AnswerTells DEF CreationDone, Answered, Copies, CopyOf
    <3> QED BY <1>7, <3>1 DEF CreationDone, TypeOK
  <2>3. CopyOf(s)'
    BY <2>1, <2>2, CopyHears DEF Copies
  <2>4. ASSUME NEW t \in Side, t # s PROVE CopyOf(t)'
    BY <1>7, <2>4, CopyKept DEF CreationDone, Answered, Copies, TypeOK
  <2> QED BY <2>2, <2>3, <2>4 DEF Copies
<1>8. ASSUME NEW s \in Side, CreationFails(s) PROVE Copies'
  <2>1. CopyOf(s)'
    BY <1>8 DEF CreationFails, DestroyDocument, CopyOf, TypeOK
  <2>2. ASSUME NEW t \in Side, t # s PROVE CopyOf(t)'
    BY <1>8, <2>2, CopyKept DEF CreationFails, DestroyDocument, Copies, TypeOK
  <2> QED BY <1>8, <2>1, <2>2 DEF CreationFails, Copies
<1>9. ASSUME NEW s \in Side, SyncOpened(s) \/ SyncApplied(s) PROVE Copies'
  <2>1. /\ sub[s] \in {"opening", "replacing"} /\ sub'[s] \in {"replacing", "ready"}
        /\ \A t \in Side : t # s => sub'[t] = sub[t]
        /\ UNCHANGED <<known, exists, server, data, up, down>>
    BY <1>9 DEF SyncOpened, SyncApplied, TypeOK
  <2>2. CopyOf(s)'
    BY <2>1 DEF Copies, CopyOf, Answers
  <2>3. ASSUME NEW t \in Side, t # s PROVE CopyOf(t)'
    BY <2>1, <2>3, CopyKept DEF Copies
  <2> QED BY <2>1, <2>2, <2>3 DEF Copies
<1>10. ASSUME NEW s \in Side, OpArrives(s) PROVE Copies'
  <2>1. Following(s) /\ Answered(s, "op")
    BY <1>10, AnswerTells DEF OpArrives, Answered
  <2>2. /\ sub'[s] = sub[s] /\ data'[s] = data[s] \cup Head(down[s]).edits
        /\ UNCHANGED <<up, known, exists, server>>
    BY <1>10 DEF OpArrives, TypeOK
  <2>3. CopyOf(s)'
    BY <2>1, <2>2, CopyHears DEF Copies, Following
  <2>4. ASSUME NEW t \in Side, t # s PROVE CopyOf(t)'
    BY <1>10, <2>4, CopyKept DEF OpArrives, Answered, Copies, TypeOK
  <2> QED BY <2>2, <2>3, <2>4 DEF Copies
<1>11. ASSUME NEW s \in Side, PlaceRemoteOp(s) \/ RemoteOpApplied(s) PROVE Copies'
  BY <1>11, CopyKept DEF PlaceRemoteOp, RemoteOpApplied, Copies
<1>13. CASE UNCHANGED vars
  BY <1>13, CopyKept DEF vars, Copies
<1>12. ASSUME NEW s \in Side, BackendTakes(s) PROVE Copies'
  <2>1. /\ up[s] \in Seq(Request) /\ up[s] # << >> /\ ~Answers(s, "nack")
        /\ up' = [up EXCEPT ![s] = Tail(@)] /\ up'[s] = Tail(up[s])
        /\ UNCHANGED <<sub, data>>
    BY <1>12 DEF BackendTakes, TypeOK
  <2>2. /\ Other(s) \in Side /\ Other(s) # s /\ up'[Other(s)] = up[Other(s)]
        /\ \A t \in Side : t = s \/ t = Other(s)
    BY <2>1 DEF Other, Side, TypeOK
  <2>3. Carried(up[s]) = Head(up[s]).edits \cup Carried(up'[s])
    BY <2>1, CarriedTaken
  <2>4. Head(up[s]) \in Request
    BY <2>1
  <2>5. CASE Head(up[s]).kind = "sub"
    <3>1. sub[s] = "subscribing" /\ Tail(up[s]) = << >> /\ down[s] = << >>
      BY <1>12, <2>1, <2>5, SubTaken
    <3>2. /\ known' = known \cup {s} /\ UNCHANGED <<exists, server>>
          /\ down'[Other(s)] = down[Other(s)]
      BY <1>12, <2>2, <2>5 DEF BackendTakes, Put, TypeOK
    <3>4. ASSUME exists PROVE Carried(down'[s]) = server
      <4>1. PICK msg \in Answer : msg.edits = server /\ down'[s] = Append(down[s], msg)
        <5>1. [kind |-> "snap", edits |-> server] \in Answer
          BY DEF Answer, TypeOK
        <5>2. down'[s] = Append(down[s], [kind |-> "snap", edits |-> server])
          BY <1>12, <2>5, <3>4 DEF BackendTakes, Put, TypeOK
        <5> QED BY <5>1, <5>2
      <4>2. down[s] \in Seq(Answer)
        BY DEF TypeOK
      <4>3. Carried(down'[s]) = Carried(down[s]) \cup msg.edits
        BY <4>1, <4>2, CarriedAppended
      <4> QED BY <3>1, <4>1, <4>3, CarriedNothing
    <3>5. Carried(up'[s]) = {} /\ data[s] = {}
      BY <2>1, <3>1, CarriedNothing DEF Copies, CopyOf
    <3>6. CopyOf(s)'
      BY <2>1, <3>1, <3>2, <3>4, <3>5 DEF CopyOf
    <3>7. CopyOf(Other(s))'
      BY <2>1, <2>2, <3>2, CopyKept DEF Copies
    <3> QED BY <2>2, <3>2, <3>6, <3>7 DEF Copies
  <2>6. CASE Head(up[s]).kind = "create"
    <3>1. /\ sub[s] = "creating" /\ s \in known /\ ~exists /\ down[s] = << >>
      BY <1>12, <2>1, <2>6, CreateTaken
    <3>2. exists' /\ server' = Head(up[s]).edits /\ UNCHANGED known
      BY <1>12, <2>6 DEF BackendTakes
    <3>3. Carried(down'[s]) = {} /\ Head(down'[s]).edits = {}
      <4>1. PICK msg \in Answer : msg.edits = {} /\ down'[s] = Append(down[s], msg)
        <5>1. [kind |-> "ack", edits |-> {}] \in Answer
          BY DEF Answer, Text
        <5>2. down'[s] = Append(down[s], [kind |-> "ack", edits |-> {}])
          BY <1>12, <2>2, <2>6 DEF BackendTakes, Put, TypeOK
        <5> QED BY <5>1, <5>2
      <4>2. down[s] \in Seq(Answer)
        BY DEF TypeOK
      <4>3. Carried(down'[s]) = Carried(down[s]) \cup msg.edits
        BY <4>1, <4>2, CarriedAppended
      <4>4. Head(down'[s]) = msg
        BY <3>1, <4>1, <4>2, AppendShape
      <4> QED BY <3>1, <4>1, <4>3, <4>4, CarriedNothing
    <3>4. data[s] = Carried(up[s])
      BY <3>1 DEF Copies, CopyOf
    <3>5. CopyOf(s)'
      BY <2>1, <2>3, <3>1, <3>2, <3>3, <3>4 DEF CopyOf
    <3>6. CopyOf(Other(s))'
      <4>1. CASE Other(s) \in known
        <5>1. PICK msg \in Answer : /\ msg.kind = "nack"
                                   /\ down'[Other(s)] = Append(down[Other(s)], msg)
          <6>1. [kind |-> "nack", edits |-> {}] \in Answer
            BY DEF Answer, Text
          <6>2. down'[Other(s)] = Append(down[Other(s)], [kind |-> "nack", edits |-> {}])
            BY <1>12, <2>2, <2>6, <4>1 DEF BackendTakes, Put, TypeOK
          <6> QED BY <6>1, <6>2
        <5>2. down[Other(s)] \in Seq(Answer)
          BY <2>2 DEF TypeOK
        <5>3. Answers(Other(s), "nack")'
          BY <5>1, <5>2, HasAppended DEF Answers, Has
        <5>4. /\ down[Other(s)] = << >> => Head(down'[Other(s)]) = msg
              /\ down[Other(s)] # << >> => Head(down'[Other(s)]) = Head(down[Other(s)])
          BY <5>1, <5>2, AppendShape
        <5> QED BY <2>1, <2>2, <3>2, <5>1, <5>3, <5>4 DEF Copies, CopyOf
      <4>2. CASE Other(s) \notin known
        <5>1. down'[Other(s)] = down[Other(s)]
          BY <1>12, <2>2, <2>6, <4>2 DEF BackendTakes, Put, TypeOK
        <5> QED BY <2>1, <2>2, <3>2, <4>2, <5>1 DEF Copies, CopyOf
      <4> QED BY <4>1, <4>2
    <3> QED BY <2>2, <3>2, <3>5, <3>6 DEF Copies
  <2>7. CASE Head(up[s]).kind = "op"
    <3>1. s \in known /\ exists
      BY <1>12, <2>1, <2>7, OpTaken
    <3>2. /\ UNCHANGED <<exists, known>> /\ down'[s] = down[s]
          /\ server' = server \cup Head(up[s]).edits
      BY <1>12, <2>2, <2>7 DEF BackendTakes, Put, TypeOK
    <3>3. CopyOf(s)'
      BY <2>1, <2>3, <3>1, <3>2 DEF Copies, CopyOf, Answers
    <3>4. CopyOf(Other(s))'
      <4>1. CASE Other(s) \in known
        <5>1. PICK msg \in Answer : /\ msg.kind = "op" /\ msg.edits = Head(up[s]).edits
                                   /\ down'[Other(s)] = Append(down[Other(s)], msg)
          <6>1. [kind |-> "op", edits |-> Head(up[s]).edits] \in Answer
            BY <2>4 DEF Answer, Request
          <6>2. down'[Other(s)] =
                  Append(down[Other(s)], [kind |-> "op", edits |-> Head(up[s]).edits])
            BY <1>12, <2>2, <2>7, <4>1 DEF BackendTakes, Put, TypeOK
          <6> QED BY <6>1, <6>2
        <5>2. down[Other(s)] \in Seq(Answer)
          BY <2>2 DEF TypeOK
        <5>3. Answers(Other(s), "nack")' <=> Answers(Other(s), "nack")
          <6>1. Has(down'[Other(s)], "nack") <=> Has(down[Other(s)], "nack")
            BY <5>1, <5>2, HasAppended
          <6> QED BY <6>1 DEF Answers, Has
        <5>4. Carried(down'[Other(s)]) = Carried(down[Other(s)]) \cup Head(up[s]).edits
          BY <5>1, <5>2, CarriedAppended
        <5>5. /\ down[Other(s)] = << >> => Head(down'[Other(s)]) = msg
              /\ down[Other(s)] # << >> => Head(down'[Other(s)]) = Head(down[Other(s)])
          BY <5>1, <5>2, AppendShape
        <5> QED BY <2>1, <2>2, <3>1, <3>2, <4>1, <5>1, <5>3, <5>4, <5>5 DEF Copies, CopyOf
      <4>2. CASE Other(s) \notin known
        <5>1. down'[Other(s)] = down[Other(s)]
          BY <1>12, <2>2, <2>7, <4>2 DEF BackendTakes, Put, TypeOK
        <5> QED BY <2>1, <2>2, <3>1, <3>2, <4>2, <5>1 DEF Copies, CopyOf
      <4> QED BY <4>1, <4>2
    <3> QED BY <2>2, <3>1, <3>2, <3>3, <3>4 DEF Copies
  <2> QED BY <2>4, <2>5, <2>6, <2>7 DEF Request
<1> QED BY <1>1, <1>2, <1>3, <1>4, <1>5, <1>6, <1>7, <1>8, <1>9, <1>10, <1>11, <1>12, <1>13
        DEF Next, Bridge

-------------------------------------------------------------------------------
(* Turns *)

\* Nothing of the other side's work is left when none is added.
LEMMA SettledKept ==
    ASSUME NEW t \in Side, Settled(t), queue'[t] = << >>,
           Has(down'[t], "op") => Has(down[t], "op"),
           batch'[Other(t)] \subseteq batch[Other(t)],
           Has(up'[Other(t)], "op") => Has(up[Other(t)], "op")
    PROVE  Settled(t)'
BY DEF Settled, Answers, Has

\* A step that takes an answer and tells the bridge's queue nothing.
LEMMA AnswerSettles ==
    ASSUME TypeOK, NEW t \in Side, Settled(t), NEW s \in Side, NEW kind, Answered(s, kind),
           UNCHANGED <<queue, batch>>, Has(up'[Other(t)], "op") => Has(up[Other(t)], "op")
    PROVE  Settled(t)'
<1>1. /\ down[s] # << >> /\ down[s] \in Seq(Answer) /\ down'[s] = Tail(down[s])
      /\ \A u \in Side : u # s => down'[u] = down[u]
  BY DEF Answered, TypeOK
<1>2. Has(down'[t], "op") => Has(down[t], "op")
  BY <1>1, HasTaken
<1> QED BY <1>2, SettledKept DEF Settled

LEMMA TurnsStep ==
    TypeOK /\ Exchange /\ Editing /\ TakingTurns /\ [Next]_vars => TakingTurns'
<1> SUFFICES ASSUME TypeOK, Exchange, Editing, TakingTurns, [Next]_vars, met' = {}
             PROVE  \E t \in Side : Settled(t)'
  BY DEF TakingTurns, Settled, Answers
<1>0. \A t \in Side : Other(t) \in Side /\ Other(t) # t /\ Other(Other(t)) = t
  BY DEF Other, Side
<1>1. ASSUME NEW s \in Side, NEW e \in EditOf(s), Types(s, e)
      PROVE  \E t \in Side : Settled(t)'
  <2>1. Settled(s) /\ UNCHANGED <<queue, up, down>>
    BY <1>1 DEF Types
  <2>2. batch'[Other(s)] = batch[Other(s)]
    BY <1>0, <1>1 DEF Types, OnLocalDocumentChange, TypeOK
  <2> QED BY <2>1, <2>2, SettledKept DEF Settled
<1>2. CASE UNCHANGED vars
  BY <1>2, SettledKept DEF TakingTurns, vars, Settled
<1>3. CASE \A s \in Side : \A e \in EditOf(s) : ~Types(s, e)
  <2>1. met = {}
    BY <1>2, <1>3
       DEF Next, Bridge, GrantEditAccess, EnsureDoc, FlushOp, SnapshotArrives, CreatesDocument,
           CreationDone, CreationFails, SyncOpened, SyncApplied, OpArrives, PlaceRemoteOp,
           RemoteOpApplied, BackendTakes, vars
  <2>2. PICK t \in Side : Settled(t)
    BY <2>1 DEF TakingTurns
  <2> SUFFICES Settled(t)'
    OBVIOUS
  <2>3. ASSUME NEW s \in Side, FlushOp(s) PROVE Settled(t)'
    <3>1. s = t
      BY <1>0, <2>2, <2>3 DEF FlushOp, Settled, Side
    <3>2. /\ UNCHANGED <<queue, down>>
          /\ batch'[Other(t)] = batch[Other(t)] /\ up'[Other(t)] = up[Other(t)]
      BY <1>0, <2>3, <3>1 DEF FlushOp, TakeBatch, Send, TypeOK
    <3> QED BY <2>2, <3>2, SettledKept DEF Settled
  <2>4. CASE GrantEditAccess
    BY <2>2, <2>4, SettledKept DEF GrantEditAccess, Settled
  <2>5. ASSUME NEW s \in Side, EnsureDoc(s) PROVE Settled(t)'
    <3>1. PICK msg \in Request : msg.kind = "sub" /\ up' = [up EXCEPT ![s] = Append(@, msg)]
      <4>1. [kind |-> "sub", edits |-> {}] \in Request
        BY DEF Request, Text
      <4> QED BY <2>5, <4>1 DEF EnsureDoc, Send
    <3>2. \A u \in Side : Has(up'[u], "op") <=> Has(up[u], "op")
      BY <3>1, HasAppended DEF TypeOK
    <3> QED BY <1>0, <2>2, <2>5, <3>2, SettledKept DEF EnsureDoc, Settled
  <2>6. ASSUME NEW s \in Side, SnapshotArrives(s) \/ CreationDone(s) PROVE Settled(t)'
    BY <2>2, <2>6, AnswerSettles DEF SnapshotArrives, CreationDone
  <2>7. ASSUME NEW s \in Side, CreatesDocument(s) PROVE Settled(t)'
    <3>1. PICK msg \in Request : msg.kind = "create" /\ up' = [up EXCEPT ![s] = Append(@, msg)]
      <4>1. [kind |-> "create", edits |-> held[s]] \in Request
        BY DEF Request, TypeOK
      <4> QED BY <2>7, <4>1 DEF CreatesDocument, Send
    <3>2. \A u \in Side : Has(up'[u], "op") <=> Has(up[u], "op")
      BY <3>1, HasAppended DEF TypeOK
    <3> QED BY <1>0, <2>2, <2>7, <3>2, AnswerSettles DEF CreatesDocument
  <2>8. ASSUME NEW s \in Side, CreationFails(s) PROVE Settled(t)'
    <3>1. \A u \in Side : /\ up'[u] = up[u] \/ up'[u] = << >>
                          /\ down'[u] = down[u] \/ down'[u] = << >>
      BY <2>8 DEF CreationFails, TypeOK
    <3>2. ~Has(<< >>, "op")
      BY DEF Has
    <3> QED BY <1>0, <2>2, <2>8, <3>1, <3>2, SettledKept DEF CreationFails, Settled
  <2>9. ASSUME NEW s \in Side, SyncOpened(s) \/ PlaceRemoteOp(s) PROVE Settled(t)'
    BY <2>2, <2>9, SettledKept DEF SyncOpened, PlaceRemoteOp, Settled
  <2>10. ASSUME NEW s \in Side, SyncApplied(s) PROVE Settled(t)'
    <3>1. batch' = batch
      BY <2>1, <2>10 DEF SyncApplied, OnLocalDocumentChange, Hears, Editing, BridgeUnheard
    <3> QED BY <2>2, <2>10, <3>1, SettledKept DEF SyncApplied, Settled
  <2>11. ASSUME NEW s \in Side, OpArrives(s) PROVE Settled(t)'
    <3>1. down[s] # << >> /\ down[s] \in Seq(Answer) /\ Head(down[s]).kind = "op"
      BY <2>11 DEF OpArrives, Answered, TypeOK
    <3>2. s # t
      BY <2>2, <3>1, FirstAnswer DEF Settled, Answers
    <3> QED BY <2>2, <2>11, <3>2, SettledKept DEF OpArrives, Answered, Settled, TypeOK
  <2>12. ASSUME NEW s \in Side, RemoteOpApplied(s) PROVE Settled(t)'
    <3>1. batch' = batch
      BY <2>1, <2>12 DEF RemoteOpApplied, OnLocalDocumentChange, Hears, Editing, BridgeUnheard
    <3>2. s # t
      BY <2>2, <2>12 DEF RemoteOpApplied, Settled, Editing, OneEditAtATime
    <3> QED BY <2>2, <2>12, <3>1, <3>2, SettledKept
            DEF RemoteOpApplied, NextInQueue, Settled, TypeOK
  <2>13. ASSUME NEW s \in Side, BackendTakes(s) PROVE Settled(t)'
    <3>1. /\ up[s] # << >> /\ up[s] \in Seq(Request) /\ Head(up[s]) \in Request
          /\ up' = [up EXCEPT ![s] = Tail(@)] /\ UNCHANGED <<queue, batch>>
      BY <2>13 DEF BackendTakes, TypeOK
    <3>2. \A u \in Side : Has(up'[u], "op") => Has(up[u], "op")
      BY <3>1, HasTaken DEF TypeOK
    <3>3. Head(up[s]).kind = "op" => s = t
      <4>1. Head(up[s]).kind = "op" => Has(up[s], "op")
        BY <3>1, HasTaken
      <4> QED BY <1>0, <2>2, <4>1 DEF Settled, Has, Side
    <3>4. Has(down'[t], "op") => Has(down[t], "op")
      <4>1. \/ down'[t] = down[t]
            \/ \E msg \in Answer : msg.kind # "op" /\ down'[t] = Append(down[t], msg)
        <5>1. /\ [kind |-> "snap", edits |-> server] \in Answer
              /\ \A kind \in {"none", "ack", "nack"} : [kind |-> kind, edits |-> {}] \in Answer
          BY DEF Answer, Text, TypeOK
        <5>2. CASE Head(up[s]).kind = "sub"
          <6>1. \/ down' = Put(down, s, "snap", server)
                \/ down' = Put(down, s, "none", {})
            BY <2>13, <5>2 DEF BackendTakes
          <6> QED BY <5>1, <6>1 DEF Put, TypeOK
        <5>3. CASE Head(up[s]).kind = "create"
          <6>1. \/ down' = Put(down, s, "ack", {})
                \/ down' = Put(Put(down, s, "ack", {}), Other(s), "nack", {})
            BY <2>13, <5>3 DEF BackendTakes
          <6>2. /\ t = s => down'[t] = Append(down[t], [kind |-> "ack", edits |-> {}])
                /\ t # s => \/ down'[t] = down[t]
                            \/ down'[t] = Append(down[t], [kind |-> "nack", edits |-> {}])
            BY <1>0, <6>1 DEF Put, TypeOK
          <6> QED BY <5>1, <6>2
        <5>4. CASE Head(up[s]).kind = "op"
          BY <1>0, <2>13, <3>3, <5>4 DEF BackendTakes, Put, TypeOK
        <5> QED BY <3>1, <5>2, <5>3, <5>4 DEF Request
      <4>2. down[t] \in Seq(Answer)
        BY DEF TypeOK
      <4> QED BY <4>1, <4>2, HasAppended
    <3> QED BY <1>0, <2>2, <3>1, <3>2, <3>4, SettledKept DEF Settled
  <2> QED BY <1>2, <1>3, <2>2, <2>3, <2>4, <2>5, <2>6, <2>7, <2>8, <2>9, <2>10, <2>11, <2>12,
             <2>13, SettledKept DEF Next, Bridge, vars, Settled
<1> QED BY <1>1, <1>3

\* The side that a step leaves alone.
LEMMA EditorKept ==
    ASSUME NEW t \in Side, EditorFollows(t), sub'[t] = sub[t], text'[t] = text[t],
           data'[t] = data[t], batch'[t] = batch[t], base'[t] = base[t], queue'[t] = queue[t],
           held'[t] = held[t], syncFrom'[t] = syncFrom[t], placing'[t] = placing[t],
           opFrom'[t] = opFrom[t]
    PROVE  EditorFollows(t)'
BY DEF EditorFollows

\* A step of ensureDoc() before there is a text to be synchronised.
LEMMA EditorWaits ==
    ASSUME TypeOK, Editing, met = {}, NEW s \in Side, EditorFollows(s),
           sub[s] \in {"off", "subscribing", "creating"},
           sub'[s] \in {"off", "subscribing", "creating", "opening"},
           sub'[s] = "opening" => held'[s] = data'[s],
           UNCHANGED <<batch, queue, placing>>
    PROVE  EditorFollows(s)'
BY DEF TypeOK, Editing, OneEditAtATime, EditorFollows

LEMMA EditorsStep ==
    ASSUME TypeOK, Exchange, Editing, TakingTurns, EditorsFollow, [Next]_vars, met' = {},
           TurnsFit
    PROVE  ~misfit' /\ \A s \in Side : EditorFollows(s)'
<1>1. ASSUME NEW s \in Side, NEW e \in EditOf(s), Types(s, e)
      PROVE  ~misfit' /\ \A t \in Side : EditorFollows(t)'
  <2>1. /\ met = {} /\ Settled(s) /\ sub[s] \in {"off", "ready"}
    BY <1>1 DEF Types
  <2>2. /\ queue[s] = << >> /\ ~placing[s] /\ ~misfit /\ EditorFollows(s)
        /\ text[s] \in Text /\ batch[s] \in Text
    BY <2>1 DEF Settled, Editing, OneEditAtATime, TurnsFit, EditorsFollow, TypeOK
  <2>3. ~ComposesMisfit(s)
    BY <2>2 DEF ComposesMisfit, EditorFollows
  <2>4. /\ text' = [text EXCEPT ![s] = @ \cup {e}] /\ text'[s] = text[s] \cup {e}
        /\ UNCHANGED <<sub, data, queue, held, syncFrom, placing, opFrom>>
    BY <1>1 DEF Types, TypeOK
  <2>5. EditorFollows(s)'
    <3>1. CASE sub[s] = "off"
      <4>1. UNCHANGED <<batch, base>>
        BY <1>1, <3>1 DEF Types, OnLocalDocumentChange, Hears, Typed
      <4> QED BY <2>2, <2>4, <3>1, <4>1 DEF EditorFollows
    <3>2. CASE sub[s] = "ready"
      <4>1. Hears(s)
        BY <1>1, <2>2, <3>2 DEF Hears, Typed, Types, Editing, GuardIsReleased
      <4>2. /\ batch'[s] = batch[s] \cup {e}
            /\ base'[s] = IF batch[s] = {} THEN text[s] ELSE base[s]
        BY <1>1, <4>1 DEF Types, OnLocalDocumentChange, TypeOK
      <4>3. base'[s] = data[s] /\ text[s] = data[s] \cup batch[s]
        BY <2>2, <3>2, <4>2 DEF EditorFollows, Chains
      <4> QED BY <2>2, <2>4, <3>2, <4>2, <4>3 DEF EditorFollows
    <3> QED BY <2>1, <3>1, <3>2
  <2>6. ASSUME NEW t \in Side, t # s PROVE EditorFollows(t)'
    <3>1. batch'[t] = batch[t] /\ base'[t] = base[t] /\ text'[t] = text[t]
      BY <1>1, <2>6 DEF Types, OnLocalDocumentChange, TypeOK
    <3> QED BY <2>1, <2>4, <3>1, EditorKept DEF EditorsFollow
  <2> QED BY <1>1, <2>2, <2>3, <2>5, <2>6 DEF Types
<1>2. CASE UNCHANGED vars
  BY <1>2, EditorKept DEF vars, EditorsFollow, TurnsFit
<1>3. CASE \A s \in Side : \A e \in EditOf(s) : ~Types(s, e)
  <2>1. met = {}
    BY <1>2, <1>3
       DEF Next, Bridge, GrantEditAccess, EnsureDoc, FlushOp, SnapshotArrives, CreatesDocument,
           CreationDone, CreationFails, SyncOpened, SyncApplied, OpArrives, PlaceRemoteOp,
           RemoteOpApplied, BackendTakes, vars
  <2>2. ~misfit /\ \A t \in Side : EditorFollows(t)
    BY <2>1 DEF EditorsFollow, TurnsFit
  <2> DEFINE Goal == ~misfit' /\ \A t \in Side : EditorFollows(t)'
  <2>3. ASSUME NEW s \in Side, FlushOp(s) PROVE Goal
    <3>1. /\ sub[s] = "ready" /\ queue[s] = << >> /\ base[s] = data[s]
          /\ text[s] = data[s] \cup batch[s]
      BY <2>2, <2>3 DEF FlushOp, EditorFollows
    <3>2. /\ ~misfit' /\ data' = [data EXCEPT ![s] = @ \cup batch[s]]
          /\ batch' = [batch EXCEPT ![s] = {}] /\ base' = [base EXCEPT ![s] = {}]
          /\ UNCHANGED <<sub, text, queue, held, syncFrom, placing, opFrom>>
      BY <2>2, <2>3, <3>1 DEF FlushOp, TakeBatch, Typed
    <3>3. EditorFollows(s)'
      <4>1. data'[s] = text[s] /\ batch'[s] = {}
        BY <3>1, <3>2 DEF TypeOK
      <4> QED BY <2>2, <3>1, <3>2, <4>1 DEF EditorFollows, Chains
    <3>4. ASSUME NEW t \in Side, t # s PROVE EditorFollows(t)'
      BY <2>2, <3>2, <3>4, EditorKept DEF TypeOK
    <3> QED BY <3>2, <3>3, <3>4
  <2>4. CASE GrantEditAccess
    BY <2>2, <2>4, EditorKept DEF GrantEditAccess
  <2>5. ASSUME NEW s \in Side, EnsureDoc(s) PROVE Goal
    <3>1. /\ sub[s] = "off" /\ sub'[s] = "subscribing" /\ UNCHANGED <<batch, queue, placing>>
          /\ ~misfit'
      BY <2>2, <2>5 DEF EnsureDoc, TypeOK
    <3>2. EditorFollows(s)'
      BY <2>1, <2>2, <3>1, EditorWaits
    <3>3. ASSUME NEW t \in Side, t # s PROVE EditorFollows(t)'
      BY <2>2, <2>5, <3>3, EditorKept DEF EnsureDoc, TypeOK
    <3> QED BY <3>1, <3>2, <3>3
  <2>6. ASSUME NEW s \in Side, SnapshotArrives(s) PROVE Goal
    <3>1. /\ sub[s] = "subscribing" /\ sub'[s] = "opening" /\ held'[s] = data'[s]
          /\ UNCHANGED <<batch, queue, placing>> /\ ~misfit'
      BY <2>2, <2>6, AnswerTells DEF SnapshotArrives, Answered, TypeOK
    <3>2. EditorFollows(s)'
      BY <2>1, <2>2, <3>1, EditorWaits
    <3>3. ASSUME NEW t \in Side, t # s PROVE EditorFollows(t)'
      BY <2>2, <2>6, <3>3, EditorKept DEF SnapshotArrives, TypeOK
    <3> QED BY <3>1, <3>2, <3>3
  <2>7. ASSUME NEW s \in Side, CreatesDocument(s) PROVE Goal
    <3>1. /\ sub[s] = "subscribing" /\ sub'[s] = "creating"
          /\ UNCHANGED <<batch, queue, placing>> /\ ~misfit'
      BY <2>2, <2>7, AnswerTells DEF CreatesDocument, Answered, TypeOK
    <3>2. EditorFollows(s)'
      BY <2>1, <2>2, <3>1, EditorWaits
    <3>3. ASSUME NEW t \in Side, t # s PROVE EditorFollows(t)'
      BY <2>2, <2>7, <3>3, EditorKept DEF CreatesDocument, TypeOK
    <3> QED BY <3>1, <3>2, <3>3
  <2>8. ASSUME NEW s \in Side, CreationDone(s) PROVE Goal
    <3>1. /\ sub[s] = "creating" /\ sub'[s] = "opening" /\ held'[s] = data'[s]
          /\ UNCHANGED <<batch, queue, placing>> /\ ~misfit'
      BY <2>2, <2>8, AnswerTells DEF CreationDone, Answered, TypeOK
    <3>2. EditorFollows(s)'
      BY <2>1, <2>2, <3>1, EditorWaits
    <3>3. ASSUME NEW t \in Side, t # s PROVE EditorFollows(t)'
      BY <2>2, <2>8, <3>3, EditorKept DEF CreationDone, TypeOK
    <3> QED BY <3>1, <3>2, <3>3
  <2>9. ASSUME NEW s \in Side, CreationFails(s) PROVE Goal
    <3>1. /\ sub[s] = "creating" /\ sub'[s] = "off"
          /\ UNCHANGED <<batch, queue, placing>> /\ ~misfit'
      BY <2>2, <2>9, AnswerTells DEF CreationFails, TypeOK
    <3>2. EditorFollows(s)'
      BY <2>1, <2>2, <3>1, EditorWaits
    <3>3. ASSUME NEW t \in Side, t # s PROVE EditorFollows(t)'
      BY <2>2, <2>9, <3>3, EditorKept DEF CreationFails, DestroyDocument, TypeOK
    <3> QED BY <3>1, <3>2, <3>3
  <2>10. ASSUME NEW s \in Side, SyncOpened(s) PROVE Goal
    <3>1. /\ sub[s] = "opening" /\ held[s] = data[s] /\ queue[s] = << >> /\ batch[s] = {}
          /\ ~placing[s]
      BY <2>1, <2>2, <2>10 DEF SyncOpened, EditorFollows, Editing, OneEditAtATime
    <3>2. /\ UNCHANGED <<text, data, batch, base, queue, placing, opFrom>> /\ ~misfit'
          /\ \/ sub'[s] = "replacing" /\ held'[s] = held[s] /\ syncFrom'[s] = text[s]
             \/ sub'[s] = "ready" /\ text[s] = held[s]
      BY <2>2, <2>10 DEF SyncOpened, SyncNeeded, TypeOK
    <3>3. EditorFollows(s)'
      BY <3>1, <3>2 DEF EditorFollows, Chains
    <3>4. ASSUME NEW t \in Side, t # s PROVE EditorFollows(t)'
      BY <2>2, <2>10, <3>4, EditorKept DEF SyncOpened, TypeOK
    <3> QED BY <3>2, <3>3, <3>4
  <2>11. ASSUME NEW s \in Side, SyncApplied(s) PROVE Goal
    <3>1. /\ sub[s] = "replacing" /\ held[s] = data[s] /\ text[s] = syncFrom[s]
          /\ queue[s] = << >> /\ batch[s] = {} /\ ~placing[s] /\ ~Hears(s)
      BY <2>1, <2>2, <2>11
         DEF SyncApplied, EditorFollows, Editing, OneEditAtATime, BridgeUnheard, Hears
    <3>2. /\ UNCHANGED <<data, batch, base, queue, placing, opFrom>> /\ ~misfit'
          /\ sub'[s] = "ready" /\ text' = [text EXCEPT ![s] = held[s]]
      BY <2>2, <2>11, <3>1 DEF SyncApplied, OnLocalDocumentChange, ComposesMisfit, TypeOK
    <3>3. EditorFollows(s)'
      <4>1. text'[s] = data'[s]
        BY <3>1, <3>2 DEF TypeOK
      <4> QED BY <3>1, <3>2, <4>1 DEF EditorFollows, Chains
    <3>4. ASSUME NEW t \in Side, t # s PROVE EditorFollows(t)'
      BY <2>2, <2>11, <3>2, <3>4, EditorKept DEF SyncApplied, TypeOK
    <3> QED BY <3>2, <3>3, <3>4
  <2>12. ASSUME NEW s \in Side, OpArrives(s) PROVE Goal
    <3>1. sub[s] = "ready" /\ down[s] # << >> /\ Head(down[s]).kind = "op"
      BY <2>12 DEF OpArrives, Answered
    <3>2. batch[s] = {}
      <4>1. ~Settled(s)
        BY <3>1, FirstAnswer DEF Settled, Answers, TypeOK
      <4>2. Settled(Other(s)) /\ Other(Other(s)) = s
        BY <2>1, <4>1 DEF TakingTurns, Other, Side
      <4> QED BY <4>2 DEF Settled
    <3>3. PICK op \in RemoteOp : /\ op.on = data[s] /\ op.edits = Head(down[s]).edits
                               /\ queue' = [queue EXCEPT ![s] = Append(@, op)]
      <4>1. Head(down[s]).edits \in Text
        BY <2>12, AnswerTyped DEF OpArrives, Answer
      <4>2. [edits |-> Head(down[s]).edits, on |-> data[s]] \in RemoteOp
        BY <4>1 DEF RemoteOp, TypeOK
      <4> QED BY <2>12, <4>2 DEF OpArrives
    <3>4. /\ data' = [data EXCEPT ![s] = @ \cup op.edits] /\ ~misfit'
          /\ UNCHANGED <<sub, text, batch, base, held, syncFrom, placing, opFrom>>
      BY <2>2, <2>12, <3>3 DEF OpArrives
    <3>5. EditorFollows(s)'
      <4>1. queue[s] \in Seq(RemoteOp) /\ Chains(queue[s], text[s], data[s])
        BY <2>2, <3>1, <3>2 DEF TypeOK, EditorFollows
      <4>2. Chains(Append(queue[s], op), text[s], data[s] \cup op.edits)
        BY <3>3, <4>1, ChainGrows
      <4>3. queue'[s] = Append(queue[s], op) /\ data'[s] = data[s] \cup op.edits
        BY <3>3, <3>4 DEF TypeOK
      <4> QED BY <2>2, <3>1, <3>2, <3>4, <4>2, <4>3 DEF EditorFollows
    <3>6. ASSUME NEW t \in Side, t # s PROVE EditorFollows(t)'
      BY <2>2, <3>3, <3>4, <3>6, EditorKept DEF TypeOK
    <3> QED BY <3>4, <3>5, <3>6
  <2>13. ASSUME NEW s \in Side, PlaceRemoteOp(s) PROVE Goal
    <3>1. sub[s] = "ready" /\ queue[s] # << >>
      BY <2>1, <2>13 DEF PlaceRemoteOp, Editing, OneEditAtATime
    <3>2. EditorFollows(s)'
      BY <2>2, <2>13, <3>1 DEF PlaceRemoteOp, EditorFollows, TypeOK
    <3>3. ASSUME NEW t \in Side, t # s PROVE EditorFollows(t)'
      BY <2>2, <2>13, <3>3, EditorKept DEF PlaceRemoteOp, TypeOK
    <3> QED BY <2>2, <2>13, <3>2, <3>3 DEF PlaceRemoteOp
  <2>14. ASSUME NEW s \in Side, RemoteOpApplied(s) PROVE Goal
    <3>1. /\ placing[s] /\ queue[s] # << >> /\ sub[s] = "ready" /\ ~Hears(s)
          /\ queue[s] \in Seq(RemoteOp)
      BY <2>1, <2>14
         DEF RemoteOpApplied, Editing, OneEditAtATime, BridgeUnheard, Hears, TypeOK
    <3>2. /\ batch[s] = {} /\ text[s] = opFrom[s] /\ Chains(queue[s], text[s], data[s])
      BY <2>2, <3>1 DEF EditorFollows
    <3>3. /\ Head(queue[s]).on = text[s]
          /\ Chains(Tail(queue[s]), text[s] \cup Head(queue[s]).edits, data[s])
      BY <3>1, <3>2, ChainTaken
    <3>4. /\ text' = [text EXCEPT ![s] = @ \cup Head(queue[s]).edits] /\ ~misfit'
          /\ queue' = [queue EXCEPT ![s] = Tail(@)] /\ placing' = [placing EXCEPT ![s] = FALSE]
          /\ opFrom' = [opFrom EXCEPT ![s] = {}]
          /\ UNCHANGED <<sub, data, batch, base, held, syncFrom>>
      BY <2>2, <2>14, <3>1, <3>2, <3>3
         DEF RemoteOpApplied, NextInQueue, OnLocalDocumentChange, ComposesMisfit
    <3>5. EditorFollows(s)'
      BY <3>1, <3>2, <3>3, <3>4 DEF EditorFollows, TypeOK
    <3>6. ASSUME NEW t \in Side, t # s PROVE EditorFollows(t)'
      BY <2>2, <3>4, <3>6, EditorKept DEF TypeOK
    <3> QED BY <3>4, <3>5, <3>6
  <2>15. ASSUME NEW s \in Side, BackendTakes(s) PROVE Goal
    BY <2>2, <2>15, EditorKept DEF BackendTakes
  <2> QED BY <1>2, <1>3, <2>3, <2>4, <2>5, <2>6, <2>7, <2>8, <2>9, <2>10, <2>11, <2>12, <2>13,
             <2>14, <2>15 DEF Next, Bridge
<1> QED BY <1>1, <1>3

-------------------------------------------------------------------------------
LEMMA InitHolds == Init => IInv
<1> SUFFICES ASSUME Init PROVE IInv
  OBVIOUS
<1>1. TypeOK
  <2>1. /\ << >> \in Seq(RemoteOp) /\ << >> \in Seq(Request) /\ << >> \in Seq(Answer)
        /\ {} \in Text
    BY DEF Text
  <2> QED BY <2>1 DEF Init, TypeOK
<1>2. Exchange
  BY DEF Init, Exchange, Phase, NotOpen
<1>3. Copies
  BY DEF Init, Copies, CopyOf
<1>4. \A s \in Side : Settled(s)
  BY DEF Init, Settled, Answers, Other, Side
<1>5. EditorsFollow
  BY DEF Init, EditorsFollow, EditorFollows, Chains
<1> QED BY <1>1, <1>2, <1>3, <1>4, <1>5
        DEF Init, IInv, GuardIsReleased, OneEditAtATime, BridgeUnheard, NoEcho, TakingTurns,
            TurnsFit, Side

LEMMA Invariance == Spec => []IInv
<1>1. ASSUME IInv, [Next]_vars PROVE IInv'
  <2>1. TypeOK' /\ Exchange' /\ Editing' /\ Copies' /\ TakingTurns'
    BY <1>1, TypeStep, ExchangeStep, EditingStep, CopiesStep, TurnsStep DEF IInv, Editing
  <2>2. EditorsFollow' /\ TurnsFit'
    BY <1>1, EditorsStep DEF IInv, Editing, EditorsFollow, TurnsFit
  <2> QED BY <2>1, <2>2 DEF IInv, Editing
<1> QED BY InitHolds, <1>1, PTL DEF Spec

\* The documents, queues and messages of a file have the types of the model;
\* a file that is not open has no document.
THEOREM DocumentTypes == Spec => []TypeOK
<1>1. IInv => TypeOK
  BY DEF IInv
<1> QED BY Invariance, <1>1, PTL

\* RemoteOpGuard: the guard of a file comes down with the edit it was raised for,
\* whatever becomes of the edit and however edits overlap.
THEOREM GuardComesDown == Spec => []GuardIsReleased
<1>1. IInv => GuardIsReleased
  BY DEF IInv
<1> QED BY Invariance, <1>1, PTL

\* onLocalDocumentChange(): as long as edits meet nothing on their way, what
\* the bridge does to an editor is never sent back.
THEOREM NothingEchoes == Spec => []NoEcho
<1>1. IInv => NoEcho
  BY DEF IInv
<1> QED BY Invariance, <1>1, PTL

\* scheduleOp(), onRemoteOp(): as long as edits meet nothing on their way,
\* every op is applied to the text it was made for, in the document when a
\* batch is flushed and in the editor when the queue gets to it.
THEOREM TurnTakersFit == Spec => []TurnsFit
<1>1. IInv => TurnsFit
  BY DEF IInv
<1> QED BY Invariance, <1>1, PTL

\* Once quiet the documents of both sides are the backend's, whatever the
\* users typed at the same time and however ensureDoc() went.
QuietDocuments == Quiet => \A s \in Side : data[s] = server

LEMMA QuietCopies == IInv => QuietDocuments
<1> SUFFICES ASSUME IInv, Quiet, NEW s \in Side PROVE data[s] = server
  BY DEF QuietDocuments
<1>1. Following(s) /\ up[s] = << >> /\ down[s] = << >>
  BY DEF IInv, Exchange, Phase, NotOpen, Subscribing, Creating, Quiet
<1>2. ~Answers(s, "nack") /\ Carried(down[s]) = {} /\ Carried(up[s]) = {}
  BY <1>1, CarriedNothing DEF Answers
<1> QED BY <1>1, <1>2 DEF IInv, Copies, CopyOf, Following

\* So in every state of every behaviour: what is typed at the same time may
\* leave the editors apart (sharedbBridge.ts:209), never the documents.
THEOREM DocumentsConverge == Spec => []QuietDocuments
BY Invariance, QuietCopies, PTL

\* Sides that take turns agree: once everything has arrived, both editors show
\* what both documents and the backend hold.
THEOREM TurnTakersConverge == Spec => []TurnsConverge
<1>1. ASSUME IInv PROVE TurnsConverge
  <2> SUFFICES ASSUME Quiet, met = {}, NEW s \in Side PROVE text[s] = server /\ data[s] = server
    BY DEF TurnsConverge
  <2>1. data[s] = server
    BY <1>1, QuietCopies DEF QuietDocuments
  <2>2. text[s] = data[s]
    BY <1>1 DEF IInv, EditorsFollow, EditorFollows, Chains, Quiet
  <2> QED BY <2>1, <2>2
<1> QED BY Invariance, <1>1, PTL

===============================================================================
