--------------------------- MODULE Replicas_proof ----------------------------
(***************************************************************************)
(* Proofs about the tree and the whiteboard, of which both sides have a copy, *)
(* for every number of files, entities and operations: once everything has *)
(* arrived the client's tree has the host's files, and the boards of both  *)
(* sides have the same entities, but for the histories that the modules name. *)
(***************************************************************************)
EXTENDS MCFeatures, Features_proof, SequenceTheorems, FiniteSetTheorems

-------------------------------------------------------------------------------
(* FileTree *)

\* What the client is to show, and what it hears of later.
Shared == disk \ Hidden

Awaited == {c[1] : c \in stated}

Unrelated(p, q) == ~IsPrefix(p, q) /\ ~IsPrefix(q, p)

\* A renaming that the host can do.
Movable(p, n) == Unrelated(p, n) /\ (p \in Folder <=> n \in Folder)

\* Two renamings have nothing to do with each other.
Apart(r, s) == /\ Unrelated(r[1], s[1]) /\ Unrelated(r[1], s[2])
               /\ Unrelated(r[2], s[1]) /\ Unrelated(r[2], s[2])

\* S has every path from p, exclusively, to q.
Hangs(q, p, S) == IsPrefix(p, q) /\ \A x \in Path : IsPrefix(p, x) /\ IsPrefix(x, q) /\ x # p => x \in S

\* The tree S fits the files D up to those of A, of which the client still hears.
\* What is shown of S is in D, and so is what would be shown below the paths
\* that have been heard of, and below those of N.
Fits(S, D, A, N) ==
    /\ D \ A \subseteq S
    /\ \A p \in (D \ A) \cup {<< >>} \cup N, q \in S : Hangs(q, p, S) => q \in D
    /\ \A m, n \in N : m # n => Unrelated(m, n)

\* What the client makes of a tree S by itself: its renamings R are done.
Held(S, R) == {q \in S : \A r \in R : ~IsPrefix(r[1], q)}
              \cup {Moved(c[2], c[1][1], c[1][2]) : c \in {d \in R \X S : IsPrefix(d[1][1], d[2])}}

Renamed(S, p, n) == (S \ Under(p, S)) \cup {Moved(q, p, n) : q \in Under(p, S)}

\* The same when the renaming replaces what has the new name.
Replaced(S, p, n) == (S \ (Under(p, S) \cup Under(n, S))) \cup {Moved(q, p, n) : q \in Under(p, S)}

Upto(p) == {p} \cup Parents(p)

\* The frame f is handled without a lapse when the client has S, once its
\* renamings are done, and those to N are not.
FineCreated(p, S, N) ==
    /\ \A n \in N : Unrelated(p, n)
    /\ \A z \in Upto(p) \ S, w \in S : IsPrefix(z, w) /\ z # w => \E n \in N : IsPrefix(n, w)

FineRenamed(p, n, S, N) ==
    /\ \A m \in N : Unrelated(p, m) /\ Unrelated(n, m)
    /\ \A w \in S : IsPrefix(n, w) /\ n # w => Parents(w) \subseteq S

Handled(f, S, N, S1, N1) ==
    \/ /\ f.op = "created" /\ FineCreated(f.path, S, N)
       /\ S1 = S \cup Upto(f.path) /\ N1 \subseteq N
    \/ /\ f.op = "deleted" /\ \A n \in N : Unrelated(f.path, n)
       /\ S1 = S \ {f.path} /\ N1 \subseteq N
    \/ /\ f.op = "renamed" /\ FineRenamed(f.path, f.to, S, N)
       /\ S1 = Renamed(S, f.path, f.to) /\ N1 \subseteq N \cup {f.to}

\* The client has S when it has taken m of the frames of q, and renamings to
\* the paths of N are not done.  However it handles the others, it comes to fit.
Leads(q, m, S, N, D, A) ==
    \A ts, ns \in [m .. Len(q) -> SUBSET Path] :
        /\ ts[m] = S /\ ns[m] \subseteq N
        /\ \A i \in m + 1 .. Len(q) : Handled(q[i], ts[i - 1], ns[i - 1], ts[i], ns[i])
        => Fits(ts[Len(q)], D, A, ns[Len(q)])

Targets(R) == {r[2] : r \in R}

HostFrame == {f \in OpFrame : f.op = "renamed" => Movable(f.path, f.to)}

FileTypes ==
    /\ FileTypeOK
    /\ opsNet \in Seq(HostFrame)
    /\ \A p \in disk : Parents(p) \subseteq disk
    /\ \A r \in renaming : Movable(r[1], r[2])

FilePhases ==
    /\ \A c \in stated : c[1] \notin Ignored
    /\ ~lapse => \A c \in stated : c[2] = "open" => c[1] \in disk \cup Hidden
    /\ ~lapse => \A r, s \in renaming : r # s => Apart(r, s)
    /\ setUp # "ready" => renaming = {}
    /\ scan # "sent" => setUp = "waiting"
    /\ \A i \in DOMAIN opsNet : opsNet[i].op = "tree" =>
        /\ scan = "sent" /\ setUp = "waiting"
        /\ \A j \in DOMAIN opsNet : opsNet[j].op = "tree" => j = i

Follows ==
    ~lapse =>
        /\ scan = "read" => Fits(snapshot, Shared, Awaited, {})
        /\ \A m \in DOMAIN opsNet : opsNet[m].op = "tree" =>
                Leads(opsNet, m, snapshot, {}, Shared, Awaited)
        /\ setUp # "waiting" => 
                Leads(opsNet, 0, Held(tree, renaming), Targets(renaming), Shared, Awaited)

\* A prefix, said place by place.
LEMMA PrefixIs ==
    ASSUME NEW S, NEW p \in Seq(S), NEW q \in Seq(S)
    PROVE  IsPrefix(p, q) <=> Len(p) <= Len(q) /\ \A i \in 1 .. Len(p) : p[i] = q[i]
<1>1. ASSUME Len(p) <= Len(q)
      PROVE  /\ Len(SubSeq(q, 1, Len(p))) = Len(p) /\ SubSeq(q, 1, Len(p)) \in Seq(S)
             /\ \A i \in 1 .. Len(p) : SubSeq(q, 1, Len(p))[i] = q[i]
  BY <1>1
<1>2. /\ Len(SubSeq(p, 1, Len(p))) = Len(p) /\ SubSeq(p, 1, Len(p)) \in Seq(S)
      /\ \A i \in 1 .. Len(p) : SubSeq(p, 1, Len(p))[i] = p[i]
  OBVIOUS
<1>3. IsPrefix(p, q) => Len(p) <= Len(q) /\ \A i \in 1 .. Len(p) : p[i] = q[i]
  BY <1>1, <1>2 DEF IsPrefix
<1>4. ASSUME Len(p) <= Len(q), \A i \in 1 .. Len(p) : p[i] = q[i] PROVE IsPrefix(p, q)
  BY <1>1, <1>2, <1>4 DEF IsPrefix
<1> QED BY <1>3, <1>4

\* Prefixes are ordered, and those of one sequence linearly.
LEMMA PrefixOrder ==
    ASSUME NEW S, NEW p \in Seq(S), NEW q \in Seq(S), NEW r \in Seq(S)
    PROVE  /\ IsPrefix(p, p)
           /\ IsPrefix(p, q) /\ IsPrefix(q, p) => p = q
           /\ IsPrefix(p, q) /\ IsPrefix(q, r) => IsPrefix(p, r)
           /\ IsPrefix(p, r) /\ IsPrefix(q, r) => IsPrefix(p, q) \/ IsPrefix(q, p)
<1>1. Len(p) \in Nat /\ Len(q) \in Nat /\ Len(r) \in Nat
  OBVIOUS
<1>2. IsPrefix(p, p)
  BY PrefixIs
<1>3. ASSUME IsPrefix(p, q), IsPrefix(q, p) PROVE p = q
  <2>1. Len(p) = Len(q) /\ \A i \in 1 .. Len(p) : p[i] = q[i]
    BY <1>1, <1>3, PrefixIs
  <2> QED BY <2>1, SeqEqual
<1>4. ASSUME IsPrefix(p, q), IsPrefix(q, r) PROVE IsPrefix(p, r)
  <2>1. Len(p) <= Len(q) /\ \A i \in 1 .. Len(p) : p[i] = q[i]
    BY <1>4, PrefixIs
  <2>2. Len(q) <= Len(r) /\ \A i \in 1 .. Len(q) : q[i] = r[i]
    BY <1>4, PrefixIs
  <2>3. Len(p) <= Len(r) /\ \A i \in 1 .. Len(p) : p[i] = r[i]
    BY <1>1, <2>1, <2>2
  <2> QED BY <2>3, PrefixIs
<1>5. ASSUME IsPrefix(p, r), IsPrefix(q, r) PROVE IsPrefix(p, q) \/ IsPrefix(q, p)
  <2>1. Len(p) <= Len(r) /\ \A i \in 1 .. Len(p) : p[i] = r[i]
    BY <1>5, PrefixIs
  <2>2. Len(q) <= Len(r) /\ \A i \in 1 .. Len(q) : q[i] = r[i]
    BY <1>5, PrefixIs
  <2>3. CASE Len(p) <= Len(q)
    <3>1. \A i \in 1 .. Len(p) : p[i] = q[i]
      BY <1>1, <2>1, <2>2, <2>3
    <3> QED BY <2>3, <3>1, PrefixIs
  <2>4. CASE Len(q) <= Len(p)
    <3>1. \A i \in 1 .. Len(q) : q[i] = p[i]
      BY <1>1, <2>1, <2>2, <2>4
    <3> QED BY <2>4, <3>1, PrefixIs
  <2> QED BY <1>1, <2>3, <2>4
<1> QED BY <1>2, <1>3, <1>4, <1>5

\* m is n, and then what q has after p.
Spliced(m, q, p, n, S) ==
    /\ m \in Seq(S) /\ Len(m) = Len(n) + (Len(q) - Len(p))
    /\ \A i \in 1 .. Len(n) : m[i] = n[i]
    /\ \A i \in 1 .. Len(q) - Len(p) : m[Len(n) + i] = q[Len(p) + i]

\* rebase() keeps what follows the old path, place by place.
LEMMA MovedIs ==
    ASSUME NEW S, NEW p \in Seq(S), NEW q \in Seq(S), NEW n \in Seq(S), IsPrefix(p, q)
    PROVE  Spliced(Moved(q, p, n), q, p, n, S)
<1> DEFINE r == SubSeq(q, Len(p) + 1, Len(q))
<1>1. Len(p) \in Nat /\ Len(q) \in Nat /\ Len(n) \in Nat /\ Len(p) <= Len(q)
  BY PrefixIs
<1>2. /\ r \in Seq(S) /\ Len(r) = Len(q) - Len(p)
      /\ \A i \in 1 .. Len(q) - Len(p) : r[i] = q[Len(p) + i]
  BY <1>1
<1>3. Moved(q, p, n) = n \o r
  BY DEF Moved
<1> HIDE DEF r
<1>4. /\ n \o r \in Seq(S) /\ Len(n \o r) = Len(n) + Len(r)
      /\ \A i \in 1 .. Len(n) + Len(r) : (n \o r)[i] = IF i <= Len(n) THEN n[i] ELSE r[i - Len(n)]
  BY <1>1, <1>2, ConcatProperties
<1>5. \A i \in 1 .. Len(n) : (n \o r)[i] = n[i]
  BY <1>1, <1>2, <1>4
<1>6. ASSUME NEW i \in 1 .. Len(q) - Len(p) PROVE (n \o r)[Len(n) + i] = q[Len(p) + i]
  <2>1. Len(n) + i \in 1 .. Len(n) + Len(r) /\ ~(Len(n) + i <= Len(n)) /\ (Len(n) + i) - Len(n) = i
    BY <1>1, <1>2
  <2>2. (n \o r)[Len(n) + i] = r[(Len(n) + i) - Len(n)]
    BY <1>4, <2>1
  <2> QED BY <1>2, <2>1, <2>2
<1> QED BY <1>2, <1>3, <1>4, <1>5, <1>6 DEF Spliced

\* Moving is moving a subtree: it can be undone, and keeps what is below what.
LEMMA MovedBack ==
    ASSUME NEW S, NEW p \in Seq(S), NEW q \in Seq(S), NEW n \in Seq(S), IsPrefix(p, q)
    PROVE  IsPrefix(n, Moved(q, p, n)) /\ Moved(Moved(q, p, n), n, p) = q
<1> DEFINE m == Moved(q, p, n)
<1>1. Spliced(m, q, p, n, S)
  BY MovedIs
<1>2. Len(p) \in Nat /\ Len(q) \in Nat /\ Len(n) \in Nat /\ Len(p) <= Len(q)
      /\ \A i \in 1 .. Len(p) : p[i] = q[i]
  BY PrefixIs
<1> HIDE DEF m
<1>3. IsPrefix(n, m) /\ m \in Seq(S)
  BY <1>1, <1>2, PrefixIs DEF Spliced
<1> DEFINE b == Moved(m, n, p)
<1>4. Spliced(b, m, n, p, S)
  BY <1>3, MovedIs
<1> HIDE DEF b
<1>5. Len(b) = Len(q) /\ Len(m) - Len(n) = Len(q) - Len(p)
  BY <1>1, <1>2, <1>4 DEF Spliced
<1>6. ASSUME NEW i \in 1 .. Len(q) PROVE b[i] = q[i]
  <2>1. CASE i <= Len(p)
    BY <1>2, <1>4, <2>1 DEF Spliced
  <2>2. CASE i > Len(p)
    <3>1. i - Len(p) \in 1 .. Len(q) - Len(p) /\ Len(p) + (i - Len(p)) = i
      BY <1>2, <2>2
    <3>2. b[Len(p) + (i - Len(p))] = m[Len(n) + (i - Len(p))]
      BY <1>4, <1>5, <3>1 DEF Spliced
    <3>3. m[Len(n) + (i - Len(p))] = q[Len(p) + (i - Len(p))]
      BY <1>1, <3>1 DEF Spliced
    <3> QED BY <3>1, <3>2, <3>3
  <2> QED BY <1>2, <2>1, <2>2
<1>7. b = q
  BY <1>4, <1>5, <1>6, SeqEqual DEF Spliced
<1> QED BY <1>3, <1>7 DEF m, b

\* Moving keeps one path below another.
LEMMA MovedBelow ==
    ASSUME NEW S, NEW p \in Seq(S), NEW n \in Seq(S), NEW a \in Seq(S), NEW b \in Seq(S),
           IsPrefix(p, a), IsPrefix(a, b)
    PROVE  IsPrefix(Moved(a, p, n), Moved(b, p, n))
<1>1. IsPrefix(p, b)
  BY PrefixOrder
<1>2. /\ Len(p) \in Nat /\ Len(a) \in Nat /\ Len(b) \in Nat /\ Len(n) \in Nat
      /\ Len(p) <= Len(a) /\ Len(a) <= Len(b)
      /\ \A i \in 1 .. Len(a) : a[i] = b[i]
  BY PrefixIs
<1> DEFINE ma == Moved(a, p, n)
           mb == Moved(b, p, n)
<1>3. Spliced(ma, a, p, n, S)
  BY MovedIs
<1>4. Spliced(mb, b, p, n, S)
  BY <1>1, MovedIs
<1> HIDE DEF ma, mb
<1>5. Len(ma) <= Len(mb)
  BY <1>2, <1>3, <1>4 DEF Spliced
<1>6. ASSUME NEW i \in 1 .. Len(ma) PROVE ma[i] = mb[i]
  <2>1. CASE i <= Len(n)
    BY <1>2, <1>3, <1>4, <2>1 DEF Spliced
  <2>2. CASE i > Len(n)
    <3> DEFINE j == i - Len(n)
    <3>1. j \in 1 .. Len(a) - Len(p) /\ j \in 1 .. Len(b) - Len(p) /\ Len(n) + j = i
          /\ Len(p) + j \in 1 .. Len(a)
      BY <1>2, <1>3, <2>2 DEF Spliced
    <3> HIDE DEF j
    <3>2. ma[Len(n) + j] = a[Len(p) + j] /\ mb[Len(n) + j] = b[Len(p) + j]
      BY <1>3, <1>4, <3>1 DEF Spliced
    <3> QED BY <1>2, <3>1, <3>2
  <2> QED BY <1>2, <1>3, <2>1, <2>2 DEF Spliced
<1>7. IsPrefix(ma, mb)
  BY <1>3, <1>4, <1>5, <1>6, PrefixIs DEF Spliced
<1> QED BY <1>7 DEF ma, mb

\* What is renamed itself gets the new path.
LEMMA MovedItself ==
    ASSUME NEW S, NEW p \in Seq(S), NEW n \in Seq(S)
    PROVE  Moved(p, p, n) = n
<1>1. IsPrefix(p, p)
  BY PrefixOrder
<1>2. Spliced(Moved(p, p, n), p, p, n, S)
  BY <1>1, MovedIs
<1> QED BY <1>2, SeqEqual DEF Spliced

\* The order of the paths that the features use, with the root below all
\* of them.
LEMMA Order ==
    /\ \A p \in Path : IsPrefix(p, p) /\ IsPrefix(<< >>, p) /\ ~IsPrefix(p, << >>)
    /\ \A p, q \in Path : IsPrefix(p, q) /\ IsPrefix(q, p) => p = q
    /\ \A p, q, r \in Path : IsPrefix(p, q) /\ IsPrefix(q, r) => IsPrefix(p, r)
    /\ \A p, q, r \in Path : IsPrefix(p, r) /\ IsPrefix(q, r) => IsPrefix(p, q) \/ IsPrefix(q, p)
<1>1. \A p \in Path : p \in Seq(STRING) /\ p # << >>
  BY PathAssumption
<1>2. << >> \in Seq(STRING)
  OBVIOUS
<1>3. ASSUME NEW p \in Path PROVE IsPrefix(p, p) /\ IsPrefix(<< >>, p) /\ ~IsPrefix(p, << >>)
  <2>1. IsPrefix(p, p)
    BY <1>1, PrefixOrder
  <2>2. IsPrefix(<< >>, p)
    <3>1. p \in Seq(STRING) /\ Len(<< >>) = 0 /\ Len(p) \in Nat
      BY <1>1
    <3>2. Len(<< >>) <= Len(p) /\ \A i \in 1 .. Len(<< >>) : << >>[i] = p[i]
      BY <3>1
    <3> QED BY <1>2, <3>1, <3>2, PrefixIs
  <2>3. ~IsPrefix(p, << >>)
    BY <1>1, <1>2, <2>2, PrefixOrder
  <2> QED BY <2>1, <2>2, <2>3
<1>4. \A p, q \in Path : IsPrefix(p, q) /\ IsPrefix(q, p) => p = q
  BY <1>1, PrefixOrder
<1>5. \A p, q, r \in Path : IsPrefix(p, q) /\ IsPrefix(q, r) => IsPrefix(p, r)
  BY <1>1, PrefixOrder
<1>6. \A p, q, r \in Path : IsPrefix(p, r) /\ IsPrefix(q, r) => IsPrefix(p, q) \/ IsPrefix(q, p)
  BY <1>1, PrefixOrder
<1> QED BY <1>3, <1>4, <1>5, <1>6

\* The parents of a path are its proper prefixes among the paths.
LEMMA ParentsAre ==
    ASSUME NEW q, NEW x
    PROVE  /\ x \in Parents(q) <=> x \in Path /\ IsPrefix(x, q) /\ x # q
           /\ x \in Upto(q) <=> x = q \/ (x \in Path /\ IsPrefix(x, q) /\ x # q)
BY DEF Parents, IsStrictPrefix, Upto

\* What has no gap above it hangs on the root.
LEMMA HangsOnRoot ==
    ASSUME NEW q \in Path, NEW S, q \in S, Parents(q) \subseteq S
    PROVE  Hangs(q, << >>, S)
BY Order, ParentsAre DEF Hangs

\* What is below a folder that can be renamed moves there and back, and
\* keeps its order.
LEMMA MovedPath ==
    ASSUME NEW p \in Path, NEW n \in Path, Movable(p, n)
    PROVE  /\ Movable(n, p) /\ Moved(p, p, n) = n
           /\ \A x \in Path : IsPrefix(p, x) =>
                /\ Moved(x, p, n) \in Path /\ IsPrefix(n, Moved(x, p, n))
                /\ Moved(Moved(x, p, n), n, p) = x
           /\ \A x, y \in Path : IsPrefix(p, x) /\ IsPrefix(x, y) =>
                IsPrefix(Moved(x, p, n), Moved(y, p, n))
<1>1. \A x \in Path : x \in Seq(STRING)
  BY PathAssumption
<1>2. Movable(n, p)
  BY DEF Movable, Unrelated
<1>3. Moved(p, p, n) = n
  BY <1>1, MovedItself
<1>4. ASSUME NEW x \in Path, IsPrefix(p, x)
      PROVE  /\ Moved(x, p, n) \in Path /\ IsPrefix(n, Moved(x, p, n))
             /\ Moved(Moved(x, p, n), n, p) = x
  <2>1. Moved(x, p, n) \in Path
    BY <1>4, RenamingAssumption DEF Movable, Unrelated
  <2> QED BY <1>1, <1>4, <2>1, MovedBack
<1>5. ASSUME NEW x \in Path, NEW y \in Path, IsPrefix(p, x), IsPrefix(x, y)
      PROVE IsPrefix(Moved(x, p, n), Moved(y, p, n))
  BY <1>1, <1>5, MovedBelow
<1> QED BY <1>2, <1>3, <1>4, <1>5

\* The creation of a file the host has, with the folders above it, keeps
\* the tree fitting, and one creation less is awaited.
LEMMA FitsCreated ==
    ASSUME NEW S \in SUBSET Path, NEW D \in SUBSET Path, NEW A, NEW A1,
           NEW N \in SUBSET Path, NEW N1 \in SUBSET N, NEW p \in D,
           A \subseteq A1 \cup {p}, \A q \in D : Parents(q) \subseteq D,
           Fits(S, D, A, N), FineCreated(p, S, N)
    PROVE  Fits(S \cup Upto(p), D, A1, N1)
<1> DEFINE T == S \cup Upto(p)
<1>1. p \in Path /\ Upto(p) \subseteq D /\ \A x \in Upto(p) : IsPrefix(x, p)
  BY ParentsAre, Order DEF Upto
<1>2. D \ A1 \subseteq T
  BY <1>1 DEF Fits, Upto
<1>3. ASSUME NEW a \in (D \ A1) \cup {<< >>} \cup N1, NEW q \in T, Hangs(q, a, T)
      PROVE  q \in D
  <2>1. CASE q \in Upto(p)
    BY <1>1, <2>1
  <2>2. ASSUME q \notin Upto(p), NEW z \in Upto(p) \ S, IsPrefix(z, q)
        PROVE  q \in D
    <3>1. q \in S /\ q \in Path /\ z # q /\ IsPrefix(a, q)
      BY <2>2, <1>3 DEF Hangs
    <3>2. PICK n \in N : IsPrefix(n, q)
      BY <2>2, <3>1 DEF FineCreated
    <3>3. Unrelated(p, n) /\ n \in Path
      BY DEF FineCreated
    <3>4. \A x \in Path : IsPrefix(n, x) => x \notin Upto(p)
      BY <1>1, <3>3, Order DEF Unrelated
    <3>5. CASE IsPrefix(a, n)
      <4>1. \A x \in Path : IsPrefix(n, x) /\ IsPrefix(x, q) /\ x # n => x \in S
        <5>1. ASSUME NEW x \in Path, IsPrefix(n, x), IsPrefix(x, q), x # n PROVE x \in S
          <6>1. IsPrefix(a, x) /\ x # a
            BY <1>1, <1>3, <3>3, <3>5, <5>1, Order
          <6>2. x \in T
            BY <1>3, <5>1, <6>1 DEF Hangs
          <6> QED BY <3>4, <5>1, <6>2
        <5> QED BY <5>1
      <4>2. Hangs(q, n, S)
        BY <3>2, <4>1 DEF Hangs
      <4> QED BY <3>1, <4>2 DEF Fits
    <3>6. CASE ~IsPrefix(a, n)
      <4>1. IsPrefix(n, a) /\ a # n /\ a \in Path
        BY <3>1, <3>2, <3>3, <3>6, Order
      <4>2. a \notin N
        BY <4>1 DEF Fits, Unrelated
      <4>3. a # p /\ a # << >>
        BY <3>3, <4>1, Order DEF Unrelated
      <4>4. a \in D \ A
        BY <4>2, <4>3
      <4>5. Hangs(q, a, S)
        <5>1. ASSUME NEW x \in Path, IsPrefix(a, x), IsPrefix(x, q), x # a PROVE x \in S
          <6>1. IsPrefix(n, x)
            BY <4>1, <3>3, <5>1, Order
          <6>2. x \in T
            BY <1>3, <5>1 DEF Hangs
          <6> QED BY <3>4, <6>1, <6>2
        <5> QED BY <3>1, <5>1 DEF Hangs
      <4> QED BY <3>1, <4>4, <4>5 DEF Fits
    <3> QED BY <3>5, <3>6
  <2>3. ASSUME q \notin Upto(p), \A z \in Upto(p) \ S : ~IsPrefix(z, q)
        PROVE  q \in D
    <3>1. q \in S /\ q \in Path /\ IsPrefix(a, q)
      BY <2>3, <1>3 DEF Hangs
    <3>2. Hangs(q, a, S)
      BY <1>3, <2>3 DEF Hangs
    <3>3. CASE a # p
      <4>1. a \in (D \ A) \cup {<< >>} \cup N
        BY <3>3
      <4> QED BY <3>1, <3>2, <4>1 DEF Fits
    <3>4. CASE a = p
      <4>1. \A x \in Upto(p) : x \in S
        BY <1>1, <2>3, <3>1, <3>4, Order DEF Upto, Parents
      <4>2. ASSUME NEW x \in Parents(q) PROVE x \in S
        <5>1. x \in Path /\ IsPrefix(x, q) /\ x # q
          BY ParentsAre
        <5>2. CASE IsPrefix(x, p)
          BY <4>1, <5>1, <5>2, ParentsAre
        <5>3. CASE IsPrefix(p, x) /\ x # p
          BY <3>2, <3>4, <5>1, <5>3 DEF Hangs
        <5>4. IsPrefix(x, p) \/ (IsPrefix(p, x) /\ x # p)
          BY <1>1, <3>1, <3>4, <5>1, Order
        <5> QED BY <5>2, <5>3, <5>4
      <4>3. Hangs(q, << >>, S)
        BY <3>1, <4>2, HangsOnRoot
      <4> QED BY <3>1, <4>3 DEF Fits
    <3> QED BY <3>3, <3>4
  <2> QED BY <2>1, <2>2, <2>3
<1>4. \A m, n \in N1 : m # n => Unrelated(m, n)
  BY DEF Fits
<1> QED BY <1>2, <1>3, <1>4 DEF Fits

\* The deletion of one entry does, when the host has lost all that is
\* below it: what stays in the tree hangs on nothing.
LEMMA FitsDeleted ==
    ASSUME NEW S \in SUBSET Path, NEW D \in SUBSET Path, NEW A,
           NEW N \in SUBSET Path, NEW N1 \in SUBSET N, NEW p \in Path,
           Fits(S, D, A, N), \A n \in N : Unrelated(p, n)
    PROVE  Fits(S \ {p}, D \ Under(p, D), A, N1)
<1> DEFINE T == S \ {p}
           E == D \ Under(p, D)
<1>1. \A x : x \in E <=> x \in D /\ ~IsPrefix(p, x)
  BY DEF Under
<1> HIDE DEF E
<1>2. E \ A \subseteq T
  BY <1>1, Order DEF Fits
<1>3. ASSUME NEW a \in (E \ A) \cup {<< >>} \cup N1, NEW q \in T, Hangs(q, a, T)
      PROVE  q \in E
  <2>1. q \in S /\ q \in Path /\ q # p /\ IsPrefix(a, q)
    BY <1>3 DEF Hangs
  <2>2. Hangs(q, a, S)
    BY <1>3 DEF Hangs
  <2>3. a \in (D \ A) \cup {<< >>} \cup N
    BY <1>1
  <2>4. q \in D
    BY <2>1, <2>2, <2>3 DEF Fits
  <2>5. ASSUME IsPrefix(p, q) PROVE FALSE
    <3>1. CASE a = << >>
      <4>1. IsPrefix(a, p) /\ p # a
        BY <3>1, Order
      <4> QED BY <1>3, <2>5, <4>1 DEF Hangs
    <3>2. CASE a \in E \ A
      <4>1. a \in Path /\ ~IsPrefix(p, a)
        BY <1>1, <3>2
      <4>2. IsPrefix(a, p) /\ a # p
        BY <2>1, <2>5, <4>1, Order
      <4> QED BY <1>3, <2>5, <4>2 DEF Hangs
    <3>3. CASE a \in N1
      BY <2>1, <2>5, <3>3, Order DEF Unrelated
    <3> QED BY <3>1, <3>2, <3>3
  <2> QED BY <1>1, <2>4, <2>5
<1>4. \A m, n \in N1 : m # n => Unrelated(m, n)
  BY DEF Fits
<1> QED BY <1>2, <1>3, <1>4 DEF Fits, E

\* A renaming that both sides do keeps the tree fitting.
LEMMA FitsRenamed ==
    ASSUME NEW S \in SUBSET Path, NEW D \in SUBSET Path, NEW A,
           NEW N \in SUBSET Path, NEW p \in D, NEW n \in Path, NEW N1 \in SUBSET (N \cup {n}),
           Movable(p, n), \A x \in D : IsPrefix(n, x) => x = n, \A q \in D : Parents(q) \subseteq D,
           \A q \in A : ~IsPrefix(p, q),
           Fits(S, D, A, N), FineRenamed(p, n, S, N)
    PROVE  Fits(Renamed(S, p, n), Renamed(D, p, n), A, N1)
<1> DEFINE T == Renamed(S, p, n)
           E == Renamed(D, p, n)
<1>1. /\ \A x : x \in T <=> (x \in S /\ ~IsPrefix(p, x)) \/ \E y \in S : IsPrefix(p, y) /\ x = Moved(y, p, n)
      /\ \A x : x \in E <=> (x \in D /\ ~IsPrefix(p, x)) \/ \E y \in D : IsPrefix(p, y) /\ x = Moved(y, p, n)
  BY DEF Renamed, Under
<1> HIDE DEF T, E
<1>2. /\ p \in Path /\ p \in D \ A /\ Movable(n, p) /\ ~IsPrefix(p, n) /\ ~IsPrefix(n, p)
      /\ Moved(p, p, n) = n
  BY MovedPath, Order DEF Movable, Unrelated
<1>3. \A x \in D : IsPrefix(n, x) => x = n
  OBVIOUS
<1>4. ASSUME NEW w \in S, IsPrefix(n, w) PROVE w = n
  <2>1. ASSUME n # w PROVE FALSE
    <3>1. Parents(w) \subseteq S
      BY <1>4, <2>1 DEF FineRenamed
    <3>2. Hangs(w, << >>, S)
      BY <3>1, HangsOnRoot
    <3>3. w \in D
      BY <3>2 DEF Fits
    <3> QED BY <1>3, <1>4, <2>1, <3>3
  <2> QED BY <2>1
<1>5. ASSUME NEW x \in Path, IsPrefix(p, x), x # p, Moved(x, p, n) \in T PROVE x \in S
  <2>1. /\ Moved(x, p, n) \in Path /\ IsPrefix(n, Moved(x, p, n)) /\ Moved(Moved(x, p, n), n, p) = x
    BY <1>2, <1>5, MovedPath
  <2>2. ASSUME Moved(x, p, n) = n PROVE FALSE
    BY <1>2, <1>5, <2>1, <2>2, MovedPath
  <2>3. ~(Moved(x, p, n) \in S)
    BY <1>4, <2>1, <2>2
  <2>4. PICK y \in S : IsPrefix(p, y) /\ Moved(x, p, n) = Moved(y, p, n)
    BY <1>1, <1>5, <2>3
  <2>5. Moved(Moved(y, p, n), n, p) = y
    BY <1>2, <2>4, MovedPath
  <2> QED BY <2>1, <2>4, <2>5
<1>6. E \ A \subseteq T
  <2>1. ASSUME NEW x \in E \ A PROVE x \in T
    <3>1. CASE x \in D /\ ~IsPrefix(p, x)
      BY <1>1, <2>1, <3>1 DEF Fits
    <3>2. CASE \E y \in D : IsPrefix(p, y) /\ x = Moved(y, p, n)
      <4>1. PICK y \in D : IsPrefix(p, y) /\ x = Moved(y, p, n)
        BY <3>2
      <4>2. y \in S
        BY <4>1 DEF Fits
      <4> QED BY <1>1, <4>1, <4>2
    <3> QED BY <1>1, <2>1, <3>1, <3>2
  <2> QED BY <2>1
<1>7. ASSUME NEW y \in S, IsPrefix(p, y), NEW b \in D \ A, IsPrefix(p, b), IsPrefix(b, y),
             \A x \in Path : (IsPrefix(b, x) /\ IsPrefix(x, y) /\ x # b) => Moved(x, p, n) \in T
      PROVE  Moved(y, p, n) \in E
  <2>1. ASSUME NEW x \in Path, IsPrefix(b, x), IsPrefix(x, y), x # b PROVE x \in S
    <3>1. IsPrefix(p, x) /\ x # p
      BY <1>2, <1>7, <2>1, Order
    <3> QED BY <1>5, <1>7, <2>1, <3>1
  <2>2. Hangs(y, b, S)
    BY <1>7, <2>1 DEF Hangs
  <2>3. y \in D
    BY <2>2 DEF Fits
  <2> QED BY <1>1, <1>7, <2>3
<1>8. ASSUME NEW a \in (E \ A) \cup {<< >>} \cup N1, NEW q \in T, Hangs(q, a, T)
      PROVE  q \in E
  <2>1. CASE q \in S /\ ~IsPrefix(p, q) /\ IsPrefix(n, q)
    <3>1. q = n
      BY <1>4, <2>1
    <3> QED BY <1>1, <1>2, <3>1, Order
  <2>2. CASE q \in S /\ ~IsPrefix(p, q) /\ ~IsPrefix(n, q)
    <3>1. IsPrefix(a, q) /\ q \in Path
      BY <1>8, <2>2 DEF Hangs
    <3>2. ~IsPrefix(n, a)
      <4>1. ASSUME IsPrefix(n, a) PROVE FALSE
        <5>1. CASE a = << >>
          BY <4>1, <5>1, Order
        <5>2. CASE a \in Path
          BY <2>2, <3>1, <4>1, <5>2, Order
        <5>3. E \subseteq Path
          BY <1>1, <1>2, MovedPath
        <5> QED BY <5>1, <5>2, <5>3
      <4> QED BY <4>1
    <3>3. a \in (D \ A) \cup {<< >>} \cup N
      BY <1>1, <1>2, <3>2, MovedPath, Order
    <3>4. ASSUME NEW x \in Path, IsPrefix(a, x), IsPrefix(x, q), x # a PROVE x \in S
      <4>1. x \in T
        BY <1>8, <3>4 DEF Hangs
      <4>2. ~IsPrefix(n, x)
        BY <2>2, <3>1, <3>4, Order
      <4> QED BY <1>1, <1>2, <4>1, <4>2, MovedPath
    <3>5. Hangs(q, a, S)
      BY <3>1, <3>4 DEF Hangs
    <3>6. q \in D
      BY <2>2, <3>3, <3>5 DEF Fits
    <3> QED BY <1>1, <2>2, <3>6
  <2>3. ASSUME NEW y \in S, IsPrefix(p, y), q = Moved(y, p, n) PROVE q \in E
    <3>1. q \in Path /\ IsPrefix(n, q) /\ Moved(q, n, p) = y /\ IsPrefix(a, q)
      BY <1>2, <1>8, <2>3, MovedPath DEF Hangs
    <3>2. \A x \in Path : (IsPrefix(p, x) /\ IsPrefix(x, y)) =>
            /\ Moved(x, p, n) \in Path /\ IsPrefix(n, Moved(x, p, n)) /\ IsPrefix(Moved(x, p, n), q)
            /\ Moved(Moved(x, p, n), n, p) = x
      BY <1>2, <2>3, MovedPath
    <3>3. CASE IsPrefix(n, a) /\ a # n
      <4>1. a \in E \ A
        <5>1. a # << >>
          BY <3>3, Order
        <5>2. a \notin N
          BY <3>3 DEF FineRenamed, Unrelated
        <5> QED BY <3>3, <5>1, <5>2
      <4>2. PICK b \in D : IsPrefix(p, b) /\ a = Moved(b, p, n)
        BY <1>1, <1>3, <3>3, <4>1
      <4>3. a \in Path /\ Moved(a, n, p) = b /\ b \in D \ A
        BY <1>2, <4>2, MovedPath
      <4>4. IsPrefix(b, y)
        BY <1>2, <3>1, <3>3, <4>3, MovedPath
      <4>5. ASSUME NEW x \in Path, IsPrefix(b, x), IsPrefix(x, y), x # b
            PROVE  Moved(x, p, n) \in T
        <5>1. IsPrefix(p, x)
          BY <1>2, <4>2, <4>3, <4>5, Order
        <5>2. IsPrefix(a, Moved(x, p, n))
          BY <1>2, <4>2, <4>3, <4>5, MovedPath
        <5>3. Moved(x, p, n) # a
          BY <3>2, <4>3, <4>5, <5>1
        <5> QED BY <1>8, <3>2, <4>5, <5>1, <5>2, <5>3 DEF Hangs
      <4> QED BY <1>7, <2>3, <4>2, <4>3, <4>4, <4>5
    <3>4. CASE ~(IsPrefix(n, a) /\ a # n)
      <4>1. a \in Path \cup {<< >>}
        BY <1>1, <1>2, MovedPath
      <4>2. IsPrefix(a, n)
        BY <3>1, <3>4, <4>1, Order
      <4>3. ASSUME NEW x \in Path, IsPrefix(p, x), IsPrefix(x, y), x # p
            PROVE  Moved(x, p, n) \in T
        <5>1. /\ Moved(x, p, n) \in Path /\ IsPrefix(n, Moved(x, p, n)) /\ IsPrefix(Moved(x, p, n), q)
              /\ Moved(Moved(x, p, n), n, p) = x
          BY <3>2, <4>3
        <5>2. Moved(x, p, n) # n
          BY <1>2, <4>3, <5>1, MovedPath
        <5>3. IsPrefix(a, Moved(x, p, n)) /\ Moved(x, p, n) # a
          BY <4>1, <4>2, <5>1, <5>2, Order
        <5> QED BY <1>8, <5>1, <5>3 DEF Hangs
      <4> QED BY <1>2, <1>7, <2>3, <4>3, Order
    <3> QED BY <3>3, <3>4
  <2> QED BY <1>1, <2>1, <2>2, <2>3
<1>9. \A m, k \in N1 : m # k => Unrelated(m, k)
  BY DEF Fits, FineRenamed, Unrelated
<1> QED BY <1>6, <1>8, <1>9 DEF Fits, T, E

\* The renamings R of a client have nothing to do with each other, nor with p.
Renamings(R) ==
    /\ R \subseteq Path \X Path
    /\ \A r \in R : Movable(r[1], r[2])
    /\ \A r, s \in R : r # s => Apart(r, s)

Unconcerned(p, R) == \A r \in R : Unrelated(p, r[1]) /\ Unrelated(p, r[2])

\* What is in the tree once its renamings are done.
LEMMA HeldAre ==
    ASSUME NEW S, NEW R, NEW x
    PROVE  x \in Held(S, R) <=> \/ x \in S /\ \A r \in R : ~IsPrefix(r[1], x)
                                \/ \E r \in R, y \in S : IsPrefix(r[1], y) /\ x = Moved(y, r[1], r[2])
<1>1. ASSUME x \in {Moved(c[2], c[1][1], c[1][2]) : c \in {d \in R \X S : IsPrefix(d[1][1], d[2])}}
      PROVE  \E r \in R, y \in S : IsPrefix(r[1], y) /\ x = Moved(y, r[1], r[2])
  <2>1. PICK c \in R \X S : IsPrefix(c[1][1], c[2]) /\ x = Moved(c[2], c[1][1], c[1][2])
    BY <1>1
  <2> QED BY <2>1
<1>2. ASSUME NEW r \in R, NEW y \in S, IsPrefix(r[1], y), x = Moved(y, r[1], r[2])
      PROVE  x \in {Moved(c[2], c[1][1], c[1][2]) : c \in {d \in R \X S : IsPrefix(d[1][1], d[2])}}
  <2>1. <<r, y>> \in {d \in R \X S : IsPrefix(d[1][1], d[2])}
    BY <1>2
  <2> QED BY <1>2, <2>1
<1> QED BY <1>1, <1>2 DEF Held

\* What is in a tree after one renaming.
LEMMA RenamedAre ==
    ASSUME NEW S, NEW p, NEW n, NEW x
    PROVE  x \in Renamed(S, p, n) <=> \/ x \in S /\ ~IsPrefix(p, x)
                                      \/ \E y \in S : IsPrefix(p, y) /\ x = Moved(y, p, n)
BY DEF Renamed, Under

\* Where things are after a renaming of R.
LEMMA HeldPath ==
    ASSUME NEW R, Renamings(R), NEW r \in R, NEW y \in Path, IsPrefix(r[1], y)
    PROVE  /\ r[1] \in Path /\ r[2] \in Path
           /\ Moved(y, r[1], r[2]) \in Path /\ IsPrefix(r[2], Moved(y, r[1], r[2]))
           /\ Moved(Moved(y, r[1], r[2]), r[2], r[1]) = y
<1>1. r[1] \in Path /\ r[2] \in Path /\ Movable(r[1], r[2])
  BY DEF Renamings
<1> QED BY <1>1, MovedPath

\* The tree has paths only, whatever renamings wait in it.
LEMMA HeldTyped ==
    ASSUME NEW R, Renamings(R), NEW S \in SUBSET Path
    PROVE  Held(S, R) \in SUBSET Path
BY HeldAre, HeldPath

\* A tree in which no renaming waits is what it is.
LEMMA HeldNone ==
    ASSUME NEW S
    PROVE  Held(S, {}) = S
<1>1. ASSUME NEW x PROVE x \in Held(S, {}) <=> x \in S
  BY HeldAre
<1> QED BY <1>1

\* What is above or below p is neither moved nor come by.
LEMMA ClearOf ==
    ASSUME NEW R, Renamings(R), NEW p \in Path, Unconcerned(p, R), NEW x \in Path,
           IsPrefix(x, p) \/ IsPrefix(p, x)
    PROVE  \A r \in R : /\ ~(IsPrefix(r[1], x) /\ IsPrefix(x, p)) /\ ~(IsPrefix(r[2], x) /\ IsPrefix(x, p))
                        /\ IsPrefix(p, x) => ~IsPrefix(r[1], x) /\ ~IsPrefix(r[2], x)
BY Order DEF Unconcerned, Unrelated, Renamings

\* A creation that has nothing to do with the renamings in wait may as
\* well come after them.
LEMMA HeldCreated ==
    ASSUME NEW R, Renamings(R), NEW S \in SUBSET Path, NEW p \in Path, Unconcerned(p, R)
    PROVE  Held(S \cup Upto(p), R) = Held(S, R) \cup Upto(p)
<1>1. \A x \in Upto(p) : x \in Path /\ IsPrefix(x, p)
  BY ParentsAre, Order
<1>2. \A x \in Upto(p), r \in R : ~IsPrefix(r[1], x)
  BY <1>1, ClearOf
<1>3. ASSUME NEW x PROVE x \in Held(S \cup Upto(p), R) <=> x \in Held(S, R) \cup Upto(p)
  BY <1>2, HeldAre
<1> QED BY <1>3

\* If it is no lapse in the tree as it is, neither is it after the
\* renamings.
LEMMA HeldCreatedFine ==
    ASSUME NEW R, Renamings(R), NEW S \in SUBSET Path, NEW p \in Path, Unconcerned(p, R),
           \A z \in Upto(p), w \in S : IsPrefix(z, w) /\ z # w => Parents(w) \subseteq S
    PROVE  FineCreated(p, Held(S, R), Targets(R))
<1>1. \A n \in Targets(R) : Unrelated(p, n)
  BY DEF Targets, Unconcerned
<1>2. ASSUME NEW z \in Upto(p) \ Held(S, R), NEW w \in Held(S, R), IsPrefix(z, w), z # w
      PROVE  \E n \in Targets(R) : IsPrefix(n, w)
  <2>1. z \in Path /\ IsPrefix(z, p)
    BY ParentsAre, Order
  <2>2. z \notin S
    BY <2>1, HeldAre, ClearOf
  <2>3. CASE w \in S
    BY <1>2, <2>1, <2>2, <2>3, ParentsAre
  <2>4. CASE w \notin S
    <3>1. PICK r \in R, y \in S : IsPrefix(r[1], y) /\ w = Moved(y, r[1], r[2])
      BY <2>4, HeldAre
    <3>2. IsPrefix(r[2], w)
      BY <3>1, HeldPath
    <3> QED BY <3>2 DEF Targets
  <2> QED BY <2>3, <2>4
<1> QED BY <1>1, <1>2 DEF FineCreated

\* The same of a deletion.
LEMMA HeldDeleted ==
    ASSUME NEW R, Renamings(R), NEW S \in SUBSET Path, NEW p \in Path, Unconcerned(p, R)
    PROVE  Held(S \ {p}, R) = Held(S, R) \ {p}
<1>1. \A r \in R : ~IsPrefix(r[1], p) /\ ~IsPrefix(r[2], p)
  BY DEF Unconcerned, Unrelated
<1>2. ASSUME NEW r \in R, NEW y \in S, IsPrefix(r[1], y), p = Moved(y, r[1], r[2])
      PROVE  FALSE
  BY <1>1, <1>2, HeldPath
<1>3. ASSUME NEW x PROVE x \in Held(S \ {p}, R) <=> x \in Held(S, R) \ {p}
  BY <1>1, <1>2, HeldAre
<1> QED BY <1>3

\* The same of a renaming that is done at once.
LEMMA HeldRenamed ==
    ASSUME NEW R, Renamings(R), NEW S \in SUBSET Path, NEW p \in Path, NEW n \in Path,
           Movable(p, n), Unconcerned(p, R), Unconcerned(n, R)
    PROVE  Held(Renamed(S, p, n), R) = Renamed(Held(S, R), p, n)
<1>1. ASSUME NEW r \in R, NEW x \in Path, IsPrefix(r[1], x) PROVE ~IsPrefix(p, x) /\ ~IsPrefix(n, x)
  BY <1>1, Order DEF Unconcerned, Unrelated, Renamings
<1>2. ASSUME NEW r \in R, NEW x \in Path, IsPrefix(r[2], x) PROVE ~IsPrefix(p, x) /\ ~IsPrefix(n, x)
  BY <1>2, Order DEF Unconcerned, Unrelated, Renamings
<1>3. \A y \in Path : IsPrefix(p, y) => Moved(y, p, n) \in Path /\ IsPrefix(n, Moved(y, p, n))
  BY MovedPath
<1>4. ASSUME NEW x \in Held(Renamed(S, p, n), R) PROVE x \in Renamed(Held(S, R), p, n)
  <2>1. CASE x \in Renamed(S, p, n) /\ \A r \in R : ~IsPrefix(r[1], x)
    <3>1. CASE x \in S /\ ~IsPrefix(p, x)
      BY <2>1, <3>1, HeldAre, RenamedAre
    <3>2. CASE \E y \in S : IsPrefix(p, y) /\ x = Moved(y, p, n)
      <4>1. PICK y \in S : IsPrefix(p, y) /\ x = Moved(y, p, n)
        BY <3>2
      <4>2. y \in Held(S, R)
        BY <1>1, <4>1, HeldAre
      <4> QED BY <4>1, <4>2, RenamedAre
    <3> QED BY <2>1, <3>1, <3>2, RenamedAre
  <2>2. ASSUME NEW r \in R, NEW y \in Renamed(S, p, n), IsPrefix(r[1], y), x = Moved(y, r[1], r[2])
        PROVE  x \in Renamed(Held(S, R), p, n)
    <3>1. y \in S
      BY <1>1, <1>3, <2>2, RenamedAre
    <3>2. x \in Held(S, R)
      BY <2>2, <3>1, HeldAre
    <3>3. ~IsPrefix(p, x)
      BY <1>2, <2>2, <3>1, HeldPath
    <3> QED BY <3>2, <3>3, RenamedAre
  <2> QED BY <1>4, <2>1, <2>2, HeldAre
<1>5. ASSUME NEW x \in Renamed(Held(S, R), p, n) PROVE x \in Held(Renamed(S, p, n), R)
  <2>1. ASSUME x \in S, ~IsPrefix(p, x), \A r \in R : ~IsPrefix(r[1], x)
        PROVE  x \in Held(Renamed(S, p, n), R)
    BY <2>1, HeldAre, RenamedAre
  <2>2. ASSUME NEW r \in R, NEW y \in S, IsPrefix(r[1], y), x = Moved(y, r[1], r[2])
        PROVE  x \in Held(Renamed(S, p, n), R)
    <3>1. y \in Renamed(S, p, n)
      BY <1>1, <2>2, RenamedAre
    <3> QED BY <2>2, <3>1, HeldAre
  <2>3. ASSUME NEW y \in Held(S, R), IsPrefix(p, y), x = Moved(y, p, n)
        PROVE  x \in Held(Renamed(S, p, n), R)
    <3>1. y \in S
      BY <1>2, <2>3, HeldAre, HeldPath
    <3>2. x \in Renamed(S, p, n)
      BY <2>3, <3>1, RenamedAre
    <3>3. x \in Path /\ IsPrefix(n, x)
      BY <1>3, <2>3, <3>1
    <3>4. \A r \in R : ~IsPrefix(r[1], x)
      BY <1>1, <3>3
    <3> QED BY <3>2, <3>4, HeldAre
  <2>4. \/ x \in Held(S, R) /\ ~IsPrefix(p, x)
        \/ \E y \in Held(S, R) : IsPrefix(p, y) /\ x = Moved(y, p, n)
    BY <1>5, RenamedAre
  <2> QED BY <2>1, <2>2, <2>3, <2>4, HeldAre
<1> QED BY <1>4, <1>5

\* A renaming that is put off is done when all those in wait are.
LEMMA HeldAlso ==
    ASSUME NEW R, Renamings(R), NEW S \in SUBSET Path, NEW p \in Path, NEW n \in Path,
           Movable(p, n), Unconcerned(p, R), Unconcerned(n, R)
    PROVE  Held(S, R \cup {<<p, n>>}) = Renamed(Held(S, R), p, n)
<1>1. ASSUME NEW r \in R, NEW x \in Path, IsPrefix(r[1], x) PROVE ~IsPrefix(p, x)
  BY <1>1, Order DEF Unconcerned, Unrelated, Renamings
<1>2. ASSUME NEW r \in R, NEW x \in Path, IsPrefix(r[2], x) PROVE ~IsPrefix(p, x)
  BY <1>2, Order DEF Unconcerned, Unrelated, Renamings
<1> DEFINE Q == R \cup {<<p, n>>}
<1>3. <<p, n>> \in Q /\ R \subseteq Q /\ \A r \in Q : r \in R \/ (r[1] = p /\ r[2] = n)
  OBVIOUS
<1> HIDE DEF Q
<1>4. ASSUME NEW x \in Held(S, Q) PROVE x \in Renamed(Held(S, R), p, n)
  <2>1. CASE x \in S /\ \A r \in Q : ~IsPrefix(r[1], x)
    <3>1. <<p, n>>[1] = p
      OBVIOUS
    <3>2. ~IsPrefix(p, x) /\ \A r \in R : ~IsPrefix(r[1], x)
      BY <1>3, <2>1, <3>1
    <3> QED BY <2>1, <3>2, HeldAre, RenamedAre
  <2>2. ASSUME NEW r \in R, NEW y \in S, IsPrefix(r[1], y), x = Moved(y, r[1], r[2])
        PROVE  x \in Renamed(Held(S, R), p, n)
    <3>1. x \in Held(S, R)
      BY <2>2, HeldAre
    <3>2. ~IsPrefix(p, x)
      BY <1>2, <2>2, HeldPath
    <3> QED BY <3>1, <3>2, RenamedAre
  <2>3. ASSUME NEW y \in S, IsPrefix(p, y), x = Moved(y, p, n)
        PROVE  x \in Renamed(Held(S, R), p, n)
    <3>1. y \in Held(S, R)
      BY <1>1, <2>3, HeldAre
    <3> QED BY <2>3, <3>1, RenamedAre
  <2>4. \/ x \in S /\ \A r \in Q : ~IsPrefix(r[1], x)
        \/ \E r \in Q, y \in S : IsPrefix(r[1], y) /\ x = Moved(y, r[1], r[2])
    BY <1>4, HeldAre
  <2> QED BY <1>3, <2>1, <2>2, <2>3, <2>4
<1>5. ASSUME NEW x \in Renamed(Held(S, R), p, n) PROVE x \in Held(S, Q)
  <2>1. ASSUME x \in S, ~IsPrefix(p, x), \A r \in R : ~IsPrefix(r[1], x)
        PROVE  x \in Held(S, Q)
    <3>1. \A r \in Q : ~IsPrefix(r[1], x)
      BY <1>3, <2>1
    <3> QED BY <2>1, <3>1, HeldAre
  <2>2. ASSUME NEW r \in R, NEW y \in S, IsPrefix(r[1], y), x = Moved(y, r[1], r[2])
        PROVE  x \in Held(S, Q)
    BY <1>3, <2>2, HeldAre
  <2>3. ASSUME NEW y \in Held(S, R), IsPrefix(p, y), x = Moved(y, p, n)
        PROVE  x \in Held(S, Q)
    <3>1. y \in S
      BY <1>2, <2>3, HeldAre, HeldPath
    <3>2. IsPrefix(<<p, n>>[1], y) /\ x = Moved(y, <<p, n>>[1], <<p, n>>[2])
      BY <2>3
    <3> QED BY <1>3, <3>1, <3>2, HeldAre
  <2>4. \/ x \in Held(S, R) /\ ~IsPrefix(p, x)
        \/ \E y \in Held(S, R) : IsPrefix(p, y) /\ x = Moved(y, p, n)
    BY <1>5, RenamedAre
  <2> QED BY <2>1, <2>2, <2>3, <2>4, HeldAre
<1> QED BY <1>4, <1>5 DEF Q

\* Once the tabs are saved a renaming is done, and waits no longer.
LEMMA HeldSaved ==
    ASSUME NEW R, Renamings(R), NEW S \in SUBSET Path, NEW r \in R
    PROVE  Held(Renamed(S, r[1], r[2]), R \ {r}) = Held(S, R)
<1> DEFINE Q == R \ {r}
<1>1. /\ Renamings(Q) /\ r[1] \in Path /\ r[2] \in Path /\ Movable(r[1], r[2])
      /\ Unconcerned(r[1], Q) /\ Unconcerned(r[2], Q) /\ R = Q \cup {r} /\ r = <<r[1], r[2]>>
  BY DEF Renamings, Unconcerned, Apart
<1> HIDE DEF Q
<1>2. Held(Renamed(S, r[1], r[2]), Q) = Renamed(Held(S, Q), r[1], r[2])
  BY <1>1, HeldRenamed
<1>3. Held(S, Q \cup {<<r[1], r[2]>>}) = Renamed(Held(S, Q), r[1], r[2])
  BY <1>1, HeldAlso
<1> QED BY <1>1, <1>2, <1>3 DEF Q

\* A renaming that is no lapse in the tree as it is, is none after the
\* others.
LEMMA HeldRenamedFine ==
    ASSUME NEW R, Renamings(R), NEW S \in SUBSET Path, NEW p \in Path, NEW n \in Path,
           Movable(p, n), Unconcerned(p, R), Unconcerned(n, R),
           \A w \in S : IsPrefix(n, w) /\ n # w => Parents(w) \subseteq S
    PROVE  FineRenamed(p, n, Held(S, R), Targets(R))
<1>1. \A m \in Targets(R) : Unrelated(p, m) /\ Unrelated(n, m)
  BY DEF Targets, Unconcerned
<1>2. ASSUME NEW w \in Held(S, R), IsPrefix(n, w), n # w, NEW v \in Parents(w)
      PROVE  v \in Held(S, R)
  <2>1. w \in Path
    BY HeldTyped
  <2>2. \A r \in R : ~IsPrefix(r[2], w)
    BY <1>2, <2>1, ClearOf
  <2>3. w \in S /\ \A r \in R : ~IsPrefix(r[1], w)
    BY <2>2, HeldAre, HeldPath
  <2>4. v \in S /\ v \in Path /\ IsPrefix(v, w)
    BY <1>2, <2>3, ParentsAre
  <2>5. \A r \in R : ~IsPrefix(r[1], v)
    BY <2>1, <2>3, <2>4, Order DEF Renamings
  <2> QED BY <2>4, <2>5, HeldAre
<1> QED BY <1>1, <1>2 DEF FineRenamed

Chain(q, m, S, N, ts, ns) ==
    /\ ts \in [m .. Len(q) -> SUBSET Path] /\ ns \in [m .. Len(q) -> SUBSET Path]
    /\ ts[m] = S /\ ns[m] \subseteq N
    /\ \A i \in m + 1 .. Len(q) : Handled(q[i], ts[i - 1], ns[i - 1], ts[i], ns[i])

\* Leads, with the queue's handling as a chain of trees.
LEMMA LeadsIs ==
    ASSUME NEW q, NEW m, NEW S, NEW N, NEW D, NEW A
    PROVE  Leads(q, m, S, N, D, A) <=>
             \A ts, ns : Chain(q, m, S, N, ts, ns) => Fits(ts[Len(q)], D, A, ns[Len(q)])
BY DEF Leads, Chain

\* With fewer renamings in wait there are fewer chains.
LEMMA LeadsLess ==
    ASSUME NEW q, NEW m, NEW S, NEW N, NEW N1, N1 \subseteq N, NEW D, NEW A, Leads(q, m, S, N, D, A)
    PROVE  Leads(q, m, S, N1, D, A)
<1>1. ASSUME NEW ts, NEW ns, Chain(q, m, S, N1, ts, ns)
      PROVE  Fits(ts[Len(q)], D, A, ns[Len(q)])
  <2>1. Chain(q, m, S, N, ts, ns)
    BY <1>1 DEF Chain
  <2> QED BY <2>1, LeadsIs
<1> QED BY <1>1, LeadsIs

\* What the host does without a frame must fit whatever fitted.
LEMMA LeadsStays ==
    ASSUME NEW q \in Seq(HostFrame), NEW m \in 0 .. Len(q), NEW S, NEW N,
           NEW D, NEW A, NEW D1, NEW A1, Leads(q, m, S, N, D, A),
           \A H, M \in SUBSET Path : Fits(H, D, A, M) => Fits(H, D1, A1, M)
    PROVE  Leads(q, m, S, N, D1, A1)
<1>1. ASSUME NEW ts, NEW ns, Chain(q, m, S, N, ts, ns)
      PROVE  Fits(ts[Len(q)], D1, A1, ns[Len(q)])
  <2>1. Len(q) \in m .. Len(q)
    OBVIOUS
  <2>2. ts[Len(q)] \in SUBSET Path /\ ns[Len(q)] \in SUBSET Path
    BY <1>1, <2>1 DEF Chain
  <2> QED BY <1>1, <2>2, LeadsIs
<1> QED BY <1>1, LeadsIs

\* What it does with a frame must fit whatever fitted before, once the
\* frame is handled.
LEMMA LeadsAppended ==
    ASSUME NEW q \in Seq(HostFrame), NEW f \in HostFrame, NEW m \in 0 .. Len(q), NEW S, NEW N,
           NEW D, NEW A, NEW D1, NEW A1, Leads(q, m, S, N, D, A),
           \A H, M, H1, M1 \in SUBSET Path :
               Fits(H, D, A, M) /\ Handled(f, H, M, H1, M1) => Fits(H1, D1, A1, M1)
    PROVE  Leads(Append(q, f), m, S, N, D1, A1)
<1> DEFINE l == Len(q)
           r == Append(q, f)
<1>1. /\ l \in Nat /\ m \in Nat /\ m <= l /\ Len(r) = l + 1 /\ r[l + 1] = f
      /\ \A i \in 1 .. l : r[i] = q[i]
  OBVIOUS
<1> HIDE DEF l, r
<1>2. ASSUME NEW ts, NEW ns, Chain(r, m, S, N, ts, ns)
      PROVE  Fits(ts[Len(r)], D1, A1, ns[Len(r)])
  <2> DEFINE us == [i \in m .. l |-> ts[i]]
             os == [i \in m .. l |-> ns[i]]
  <2>1. \A i \in m .. l : i \in m .. Len(r) /\ us[i] = ts[i] /\ os[i] = ns[i]
    BY <1>1
  <2>2. us \in [m .. l -> SUBSET Path] /\ os \in [m .. l -> SUBSET Path]
    BY <1>2, <2>1 DEF Chain
  <2> HIDE DEF us, os
  <2>3. us[m] = S /\ os[m] \subseteq N
    BY <1>1, <1>2, <2>1 DEF Chain
  <2>4. ASSUME NEW i \in m + 1 .. l PROVE Handled(q[i], us[i - 1], os[i - 1], us[i], os[i])
    <3>1. i \in m + 1 .. Len(r) /\ i \in m .. l /\ i - 1 \in m .. l /\ i \in 1 .. l
      BY <1>1
    <3>2. Handled(r[i], ts[i - 1], ns[i - 1], ts[i], ns[i])
      BY <1>2, <3>1 DEF Chain
    <3> QED BY <1>1, <2>1, <3>1, <3>2
  <2>5. Chain(q, m, S, N, us, os)
    BY <2>2, <2>3, <2>4 DEF Chain, l
  <2>6. Fits(us[l], D, A, os[l])
    BY <2>5, LeadsIs DEF l
  <2>7. l \in m .. l /\ l + 1 \in m + 1 .. Len(r) /\ (l + 1) - 1 = l /\ l + 1 \in m .. Len(r)
    BY <1>1
  <2>8. Handled(r[l + 1], ts[(l + 1) - 1], ns[(l + 1) - 1], ts[l + 1], ns[l + 1])
    BY <1>2, <2>7 DEF Chain
  <2>9. Handled(f, us[l], os[l], ts[l + 1], ns[l + 1])
    BY <1>1, <2>1, <2>7, <2>8
  <2>10. /\ us[l] \in SUBSET Path /\ os[l] \in SUBSET Path
         /\ ts[l + 1] \in SUBSET Path /\ ns[l + 1] \in SUBSET Path
    BY <1>2, <2>2, <2>7 DEF Chain
  <2> QED BY <1>1, <2>6, <2>9, <2>10
<1>3. Leads(r, m, S, N, D1, A1)
  BY <1>2, LeadsIs
<1> QED BY <1>3 DEF r

\* A tree that is sent as it fits is the chain of no frame.
LEMMA LeadsSent ==
    ASSUME NEW q \in Seq(HostFrame), NEW f \in HostFrame, NEW S, NEW D, NEW A, Fits(S, D, A, {})
    PROVE  Leads(Append(q, f), Len(q) + 1, S, {}, D, A)
<1>1. Len(Append(q, f)) = Len(q) + 1 /\ Len(q) + 1 \in Nat
  OBVIOUS
<1>2. ASSUME NEW ts, NEW ns, Chain(Append(q, f), Len(q) + 1, S, {}, ts, ns)
      PROVE  Fits(ts[Len(Append(q, f))], D, A, ns[Len(Append(q, f))])
  <2>1. ts[Len(q) + 1] = S /\ ns[Len(q) + 1] = {}
    BY <1>2 DEF Chain
  <2> QED BY <1>1, <2>1
<1> QED BY <1>2, LeadsIs

\* The frames that the client drops before the tree comes change nothing.
LEMMA LeadsShifted ==
    ASSUME NEW q \in Seq(HostFrame), q # << >>, NEW m \in 1 .. Len(q), NEW S, NEW N, NEW D, NEW A,
           Leads(q, m, S, N, D, A)
    PROVE  Leads(Tail(q), m - 1, S, N, D, A)
<1> DEFINE l == Len(q)
           r == Tail(q)
<1>1. /\ l \in Nat /\ m \in Nat /\ 1 <= m /\ m <= l /\ Len(r) = l - 1
      /\ \A i \in 1 .. l - 1 : r[i] = q[i + 1]
  OBVIOUS
<1> HIDE DEF l, r
<1>2. ASSUME NEW ts, NEW ns, Chain(r, m - 1, S, N, ts, ns)
      PROVE  Fits(ts[Len(r)], D, A, ns[Len(r)])
  <2> DEFINE us == [i \in m .. l |-> ts[i - 1]]
             os == [i \in m .. l |-> ns[i - 1]]
  <2>1. \A i \in m .. l : i - 1 \in m - 1 .. Len(r) /\ us[i] = ts[i - 1] /\ os[i] = ns[i - 1]
    BY <1>1
  <2>2. us \in [m .. l -> SUBSET Path] /\ os \in [m .. l -> SUBSET Path]
    BY <1>2, <2>1 DEF Chain
  <2> HIDE DEF us, os
  <2>3. us[m] = S /\ os[m] \subseteq N
    BY <1>1, <1>2, <2>1 DEF Chain
  <2>4. ASSUME NEW i \in m + 1 .. l PROVE Handled(q[i], us[i - 1], os[i - 1], us[i], os[i])
    <3>1. i - 1 \in (m - 1) + 1 .. Len(r) /\ i \in m .. l /\ i - 1 \in m .. l /\ i - 1 \in 1 .. l - 1
          /\ (i - 1) + 1 = i
      BY <1>1
    <3>2. Handled(r[i - 1], ts[(i - 1) - 1], ns[(i - 1) - 1], ts[i - 1], ns[i - 1])
      BY <1>2, <3>1 DEF Chain
    <3> QED BY <1>1, <2>1, <3>1, <3>2
  <2>5. Chain(q, m, S, N, us, os)
    BY <2>2, <2>3, <2>4 DEF Chain, l
  <2>6. Fits(us[l], D, A, os[l])
    BY <2>5, LeadsIs DEF l
  <2>7. l \in m .. l
    BY <1>1
  <2> QED BY <1>1, <2>1, <2>6, <2>7
<1>3. Leads(r, m - 1, S, N, D, A)
  BY <1>2, LeadsIs
<1> QED BY <1>3 DEF r

\* A frame that the client handles is the first link of the chain.
LEMMA LeadsTaken ==
    ASSUME NEW q \in Seq(HostFrame), q # << >>, NEW S \in SUBSET Path, NEW N \in SUBSET Path,
           NEW S1, NEW N1, NEW D, NEW A, Leads(q, 0, S, N, D, A),
           \A M \in SUBSET N1 : Handled(Head(q), S, N, S1, M)
    PROVE  Leads(Tail(q), 0, S1, N1, D, A)
<1> DEFINE l == Len(q)
           r == Tail(q)
<1>1. /\ l \in Nat /\ 1 <= l /\ Len(r) = l - 1 /\ Head(q) = q[1]
      /\ \A i \in 1 .. l - 1 : r[i] = q[i + 1]
  OBVIOUS
<1> HIDE DEF l, r
<1>2. ASSUME NEW ts, NEW ns, Chain(r, 0, S1, N1, ts, ns)
      PROVE  Fits(ts[Len(r)], D, A, ns[Len(r)])
  <2> DEFINE us == [i \in 0 .. l |-> IF i = 0 THEN S ELSE ts[i - 1]]
             os == [i \in 0 .. l |-> IF i = 0 THEN N ELSE ns[i - 1]]
  <2>1. /\ \A i \in 1 .. l : i - 1 \in 0 .. Len(r) /\ us[i] = ts[i - 1] /\ os[i] = ns[i - 1]
        /\ us[0] = S /\ os[0] = N
    BY <1>1
  <2>2. us \in [0 .. l -> SUBSET Path] /\ os \in [0 .. l -> SUBSET Path]
    <3>1. ASSUME NEW i \in 0 .. l PROVE us[i] \in SUBSET Path /\ os[i] \in SUBSET Path
      <4>1. CASE i = 0
        BY <2>1, <4>1
      <4>2. CASE i # 0
        <5>1. i \in 1 .. l /\ i - 1 \in 0 .. Len(r)
          BY <1>1, <4>2
        <5>2. ts[i - 1] \in SUBSET Path /\ ns[i - 1] \in SUBSET Path
          BY <1>2, <5>1 DEF Chain
        <5> QED BY <2>1, <5>1, <5>2
      <4> QED BY <4>1, <4>2
    <3> QED BY <3>1
  <2> HIDE DEF us, os
  <2>3. ASSUME NEW i \in 1 .. l PROVE Handled(q[i], us[i - 1], os[i - 1], us[i], os[i])
    <3>1. CASE i = 1
      <4>1. us[1] = S1 /\ os[1] \subseteq N1
        BY <1>1, <1>2, <2>1 DEF Chain
      <4> QED BY <1>1, <2>1, <3>1, <4>1
    <3>2. CASE i # 1
      <4>1. i - 1 \in 0 + 1 .. Len(r) /\ i - 1 \in 1 .. l /\ i - 1 \in 1 .. l - 1 /\ (i - 1) + 1 = i
        BY <1>1, <3>2
      <4>2. Handled(r[i - 1], ts[(i - 1) - 1], ns[(i - 1) - 1], ts[i - 1], ns[i - 1])
        BY <1>2, <4>1 DEF Chain
      <4> QED BY <1>1, <2>1, <4>1, <4>2
    <3> QED BY <3>1, <3>2
  <2>4. Chain(q, 0, S, N, us, os)
    BY <2>1, <2>2, <2>3 DEF Chain, l
  <2>5. Fits(us[l], D, A, os[l])
    BY <2>4, LeadsIs DEF l
  <2>6. l \in 1 .. l
    BY <1>1
  <2> QED BY <1>1, <2>1, <2>5, <2>6
<1>3. Leads(r, 0, S1, N1, D, A)
  BY <1>2, LeadsIs
<1> QED BY <1>3 DEF r

\* When nothing is on the way the tree fits.
LEMMA LeadsHome ==
    ASSUME NEW S \in SUBSET Path, NEW N, NEW D, NEW A, Leads(<< >>, 0, S, N, D, A)
    PROVE  Fits(S, D, A, {})
<1> DEFINE ts == [i \in 0 .. 0 |-> S]
           ns == [i \in 0 .. 0 |-> {}]
<1>1. Len(<< >>) = 0
  OBVIOUS
<1>2. /\ ts \in [0 .. Len(<< >>) -> SUBSET Path] /\ ns \in [0 .. Len(<< >>) -> SUBSET Path]
      /\ ts[0] = S /\ ns[0] = {}
  BY <1>1
<1> HIDE DEF ts, ns
<1>3. Chain(<< >>, 0, S, N, ts, ns)
  BY <1>1, <1>2 DEF Chain
<1> QED BY <1>1, <1>2, <1>3, LeadsIs

\* What the host's frames are.
LEMMA FrameKinds ==
    ASSUME NEW f \in HostFrame
    PROVE  /\ f.op \in {"tree", "created", "deleted", "renamed"}
           /\ f.op \in {"created", "deleted", "renamed"} => f.path \in Path
           /\ f.op = "renamed" => f.to \in Path /\ Movable(f.path, f.to)
BY DEF HostFrame, OpFrame

\* What the host sends are frames.
LEMMA FramesOf ==
    /\ [op |-> "tree", path |-> << >>, to |-> << >>] \in HostFrame
    /\ \A p \in Path : /\ [op |-> "created", path |-> p, to |-> << >>] \in HostFrame
                       /\ [op |-> "deleted", path |-> p, to |-> << >>] \in HostFrame
    /\ \A p, n \in Path : Movable(p, n) => [op |-> "renamed", path |-> p, to |-> n] \in HostFrame
BY DEF HostFrame, OpFrame

\* The queue of frames under append and take.
LEMMA FrameQueue ==
    ASSUME NEW q \in Seq(HostFrame)
    PROVE  /\ \A i \in DOMAIN q : q[i] \in HostFrame
           /\ \A f \in HostFrame : Append(q, f) \in Seq(HostFrame)
           /\ q # << >> => Head(q) \in HostFrame /\ Tail(q) \in Seq(HostFrame) /\ Head(q) = q[1]
OBVIOUS

\* The host's files still have their folders after a renaming.
LEMMA RenamedClosed ==
    ASSUME NEW D \in SUBSET Path, \A q \in D : Parents(q) \subseteq D,
           NEW p \in D, NEW n \in Path, n \notin D, Parents(n) \subseteq D,
           p \in Folder <=> n \in Folder, ~IsPrefix(p, n)
    PROVE  /\ Movable(p, n) /\ Renamed(D, p, n) \in SUBSET Path
           /\ \A q \in Renamed(D, p, n) : Parents(q) \subseteq Renamed(D, p, n)
<1>1. Movable(p, n)
  BY ParentsAre DEF Movable, Unrelated
<1>2. Movable(n, p) /\ \A x \in Path : IsPrefix(p, x) =>
                /\ Moved(x, p, n) \in Path /\ IsPrefix(n, Moved(x, p, n))
                /\ Moved(Moved(x, p, n), n, p) = x
  BY <1>1, MovedPath
<1>3. \A x \in Path : IsPrefix(n, x) =>
                /\ Moved(x, n, p) \in Path /\ IsPrefix(p, Moved(x, n, p))
                /\ Moved(Moved(x, n, p), p, n) = x
  BY <1>2, MovedPath
<1>4. Renamed(D, p, n) \in SUBSET Path
  BY <1>2, RenamedAre
<1>5. ASSUME NEW q \in Renamed(D, p, n), NEW v \in Parents(q) PROVE v \in Renamed(D, p, n)
  <2>1. v \in Path /\ IsPrefix(v, q) /\ v # q /\ q \in Path
    BY <1>4, ParentsAre
  <2>2. CASE q \in D /\ ~IsPrefix(p, q)
    <3>1. v \in D /\ ~IsPrefix(p, v)
      BY <2>1, <2>2, Order
    <3> QED BY <3>1, RenamedAre
  <2>3. ASSUME NEW y \in D, IsPrefix(p, y), q = Moved(y, p, n) PROVE v \in Renamed(D, p, n)
    <3>1. IsPrefix(n, q) /\ Moved(q, n, p) = y
      BY <1>2, <2>3
    <3>2. CASE IsPrefix(n, v)
      <4>1. Moved(v, n, p) \in Path /\ IsPrefix(p, Moved(v, n, p)) /\ Moved(Moved(v, n, p), p, n) = v
        BY <1>3, <2>1, <3>2
      <4>2. IsPrefix(Moved(v, n, p), y)
        BY <1>2, <2>1, <3>1, <3>2, MovedPath
      <4>3. Moved(v, n, p) # y
        BY <2>1, <2>3, <4>1
      <4>4. Moved(v, n, p) \in D
        BY <4>1, <4>2, <4>3, ParentsAre
      <4> QED BY <4>1, <4>4, RenamedAre
    <3>3. CASE ~IsPrefix(n, v)
      <4>1. IsPrefix(v, n) /\ v # n
        BY <2>1, <3>1, <3>3, Order
      <4>2. v \in D
        BY <2>1, <4>1, ParentsAre
      <4>3. ~IsPrefix(p, v)
        BY <2>1, <4>1, Order
      <4> QED BY <4>2, <4>3, RenamedAre
    <3> QED BY <3>2, <3>3
  <2> QED BY <2>2, <2>3, RenamedAre
<1> QED BY <1>1, <1>4, <1>5

\* So they have when the renaming replaces what had the new name.
LEMMA ReplacedClosed ==
    ASSUME NEW D \in SUBSET Path, \A q \in D : Parents(q) \subseteq D,
           NEW p \in D, NEW n \in Path, Parents(n) \subseteq D,
           p \in Folder <=> n \in Folder, ~IsPrefix(p, n), ~IsPrefix(n, p)
    PROVE  /\ Movable(p, n) /\ Replaced(D, p, n) \in SUBSET Path
           /\ \A q \in Replaced(D, p, n) : Parents(q) \subseteq Replaced(D, p, n)
<1> DEFINE C == D \ Under(n, D)
<1>1. C \in SUBSET Path /\ p \in C /\ n \notin C
  BY Order DEF Under
<1>2. \A q \in C : Parents(q) \subseteq C
  <2>1. ASSUME NEW q \in C, NEW v \in Parents(q) PROVE v \in C
    <3>1. v \in D /\ q \in Path /\ v \in Path /\ IsPrefix(v, q) /\ ~IsPrefix(n, q)
      BY <2>1, ParentsAre DEF Under
    <3>2. ~IsPrefix(n, v)
      BY <3>1, Order
    <3> QED BY <3>1, <3>2 DEF Under
  <2> QED BY <2>1
<1>3. Parents(n) \subseteq C
  <2>1. ASSUME NEW v \in Parents(n) PROVE v \in C
    <3>1. v \in D /\ v \in Path /\ IsPrefix(v, n) /\ v # n
      BY <2>1, ParentsAre
    <3>2. ~IsPrefix(n, v)
      BY <3>1, Order
    <3> QED BY <3>1, <3>2 DEF Under
  <2> QED BY <2>1
<1>4. Under(p, C) = Under(p, D)
  <2>1. ASSUME NEW q \in D, IsPrefix(p, q) PROVE ~IsPrefix(n, q)
    BY <2>1, Order
  <2> QED BY <2>1 DEF Under
<1>5. Replaced(D, p, n) = Renamed(C, p, n)
  BY <1>4 DEF Renamed, Replaced
<1> HIDE DEF C
<1> QED BY <1>1, <1>2, <1>3, <1>5, RenamedClosed

\* The types at the start.
LEMMA FileTypesInit == FileInit => FileTypes
<1>1. << >> \in Seq(HostFrame)
  OBVIOUS
<1>2. ASSUME FileInit PROVE \A i \in DOMAIN opsNet : opsNet[i] \in OpFrame
  BY <1>2 DEF FileInit
<1>3. 0 \in 0 .. MaxFileOp
  BY FileOpAssumption
<1> QED BY <1>1, <1>2, <1>3 DEF FileInit, FileTypes, FileTypeOK

HostTypes ==
    /\ disk \subseteq Path
    /\ fileOps \in 0 .. MaxFileOp
    /\ \A p \in disk : Parents(p) \subseteq disk

TypeList ==
    /\ HostTypes
    /\ opsNet \in Seq(HostFrame)
    /\ tree \subseteq Path /\ snapshot \subseteq Path
    /\ scan \in {"reading", "read", "sent"}
    /\ stated \subseteq Path \X {"stat", "open"}
    /\ setUp \in {"waiting", "registering", "ready"}
    /\ renaming \subseteq Path \X Path /\ \A r \in renaming : Movable(r[1], r[2])
    /\ lapse \in BOOLEAN

\* The types, conjunct by conjunct.
LEMMA TypesAre == FileTypes <=> TypeList
<1>1. opsNet \in Seq(HostFrame) => \A i \in DOMAIN opsNet : opsNet[i] \in OpFrame
  BY FrameQueue DEF HostFrame
<1> QED BY <1>1 DEF FileTypes, FileTypeOK, HostTypes, TypeList

\* Every step keeps the types; with them go that the host's files have
\* their folders, and that only renamings it can do are sent.
LEMMA FileTypesStep == FileTypes /\ [FileNext]_fileVars => FileTypes'
<1> SUFFICES ASSUME FileTypes, [FileNext]_fileVars PROVE FileTypes'
  OBVIOUS
<1>0. /\ HostTypes
      /\ opsNet \in Seq(HostFrame)
      /\ tree \subseteq Path /\ snapshot \subseteq Path
      /\ scan \in {"reading", "read", "sent"}
      /\ stated \subseteq Path \X {"stat", "open"}
      /\ setUp \in {"waiting", "registering", "ready"}
      /\ renaming \subseteq Path \X Path /\ \A r \in renaming : Movable(r[1], r[2])
      /\ lapse \in BOOLEAN
  BY TypesAre DEF TypeList
<1>e. TypeList' => FileTypes'
  BY TypesAre, PTL
<1>a. HostTypes /\ UNCHANGED <<disk, fileOps>> => HostTypes'
  BY DEF HostTypes
<1>b. UserActs /\ HostTypes => fileOps' \in 0 .. MaxFileOp
  BY FileOpAssumption DEF UserActs, HostTypes
<1>c. ASSUME NEW f \in HostFrame PROVE Append(opsNet, f) \in Seq(HostFrame)
  BY <1>0, FrameQueue
<1>d. opsNet # << >> => Head(opsNet) \in HostFrame /\ Tail(opsNet) \in Seq(HostFrame)
  BY <1>0, FrameQueue
<1>1. ASSUME NEW p \in Path, CreateFile(p) PROVE FileTypes'
  <2>1. HostTypes'
    <3>1. disk' \subseteq Path /\ \A q \in disk' : Parents(q) \subseteq disk'
      BY <1>0, <1>1 DEF CreateFile, HostTypes
    <3> QED BY <1>0, <1>1, <1>b, <3>1 DEF CreateFile, HostTypes
  <2>2. stated' \subseteq Path \X {"stat", "open"}
    BY <1>0, <1>1 DEF CreateFile
  <2> QED BY <1>0, <1>1, <2>1, <2>2, <1>e DEF TypeList, CreateFile, UserActs
<1>2. ASSUME NEW p \in Path, DeleteFile(p) PROVE FileTypes'
  <2>1. HostTypes'
    <3>1. disk' \subseteq Path /\ \A q \in disk' : Parents(q) \subseteq disk'
      BY <1>0, <1>2, ParentsAre, Order DEF DeleteFile, HostTypes, Under
    <3> QED BY <1>0, <1>2, <1>b, <3>1 DEF DeleteFile, HostTypes
  <2>2. opsNet' \in Seq(HostFrame) /\ lapse' \in BOOLEAN
    BY <1>0, <1>2, <1>c, FramesOf DEF DeleteFile, SendOp
  <2> QED BY <1>0, <1>2, <2>1, <2>2, <1>e DEF TypeList, DeleteFile, UserActs
<1>3. ASSUME NEW p \in Path, NEW n \in Path, RenameFile(p, n) PROVE FileTypes'
  <2>1. disk' = Replaced(disk, p, n)
    BY <1>3 DEF RenameFile, Replaced
  <2>2. /\ Movable(p, n) /\ disk' \subseteq Path /\ \A q \in disk' : Parents(q) \subseteq disk'
    <3>1. /\ disk \in SUBSET Path /\ \A q \in disk : Parents(q) \subseteq disk
          /\ p \in disk /\ Parents(n) \subseteq disk
          /\ (p \in Folder <=> n \in Folder) /\ ~IsPrefix(p, n) /\ ~IsPrefix(n, p)
      BY <1>0, <1>3 DEF RenameFile, HostTypes
    <3> QED BY <2>1, <3>1, ReplacedClosed
  <2>3. HostTypes'
    BY <1>0, <1>3, <1>b, <2>2 DEF RenameFile, HostTypes
  <2>4. opsNet' \in Seq(HostFrame)
    <3> DEFINE f == [op |-> "renamed", path |-> p, to |-> n]
    <3>1. Append(opsNet, f) \in Seq(HostFrame)
      BY <1>c, <2>2, FramesOf
    <3>2. opsNet' = opsNet \/ opsNet' = Append(opsNet, f)
      BY <1>3 DEF RenameFile, SendOp
    <3> HIDE DEF f
    <3> QED BY <1>0, <3>1, <3>2
  <2>5. lapse' \in BOOLEAN
    BY <1>0, <1>3, Zenon DEF RenameFile
  <2> QED BY <1>0, <1>3, <2>3, <2>4, <2>5, <1>e DEF TypeList, RenameFile, UserActs
<1>4. ASSUME NEW p \in Path, StatDone(p) PROVE FileTypes'
  <2>1. /\ opsNet' \in Seq(HostFrame) /\ lapse' \in BOOLEAN
        /\ stated' \subseteq Path \X {"stat", "open"}
    <3> DEFINE rest == stated \ {<<p, "stat">>}
               f == [op |-> "created", path |-> p, to |-> << >>]
    <3>1. rest \subseteq Path \X {"stat", "open"} /\ rest \cup {<<p, "open">>} \subseteq Path \X {"stat", "open"}
      BY <1>0
    <3>2. Append(opsNet, f) \in Seq(HostFrame)
      BY <1>c, FramesOf
    <3>3. /\ stated' = rest \/ stated' = rest \cup {<<p, "open">>}
          /\ opsNet' = opsNet \/ opsNet' = Append(opsNet, f)
          /\ lapse' = lapse \/ lapse' = (lapse \/ Missed \/ p \in Hidden)
      BY <1>4 DEF StatDone, SendCreated, SendOp
    <3> HIDE DEF rest, f
    <3>4. lapse' \in BOOLEAN
      BY <1>0, <3>3
    <3> QED BY <1>0, <3>1, <3>2, <3>3, <3>4
  <2> QED BY <1>0, <1>4, <1>a, <2>1, <1>e DEF TypeList, StatDone, HostStays
<1>5. ASSUME NEW p \in Path, OpenDone(p) PROVE FileTypes'
  <2>1. /\ opsNet' \in Seq(HostFrame) /\ lapse' \in BOOLEAN
        /\ stated' \subseteq Path \X {"stat", "open"}
    BY <1>0, <1>5, <1>c, FramesOf DEF OpenDone, SendCreated, SendOp
  <2> QED BY <1>0, <1>5, <1>a, <2>1, <1>e DEF TypeList, OpenDone, HostStays
<1>6. ASSUME ReadDirectory PROVE FileTypes'
  <2>1. snapshot' \subseteq Path /\ lapse' \in BOOLEAN
    BY <1>0, <1>6 DEF ReadDirectory, HostTypes
  <2> QED BY <1>0, <1>6, <1>a, <2>1, <1>e DEF TypeList, ReadDirectory, HostStays
<1>7. ASSUME SendDirectoryTree PROVE FileTypes'
  <2>1. opsNet' \in Seq(HostFrame)
    BY <1>0, <1>7, <1>c, FramesOf DEF SendDirectoryTree, SendOp
  <2> QED BY <1>0, <1>7, <1>a, <2>1, <1>e DEF TypeList, SendDirectoryTree, HostStays
<1>8. ASSUME PopulateTree PROVE FileTypes'
  BY <1>0, <1>8, <1>a, <1>d, <1>e DEF TypeList, PopulateTree, TakeOp, ClientStays
<1>9. ASSUME RegisterFileOps PROVE FileTypes'
  BY <1>0, <1>9, <1>a, <1>e DEF TypeList, RegisterFileOps, ClientStays
<1>10. ASSUME OpForgotten PROVE FileTypes'
  BY <1>0, <1>10, <1>a, <1>d, <1>e DEF TypeList, OpForgotten, TakeOp, ClientStays
<1>11. ASSUME ApplyFileCreated PROVE FileTypes'
  <2>1. Frame.path \in Path
    BY <1>11, <1>d, FrameKinds DEF ApplyFileCreated, TakeOp, Frame
  <2>2. tree' \subseteq Path /\ lapse' \in BOOLEAN
    BY <1>0, <1>11, <2>1 DEF ApplyFileCreated, Parents
  <2> QED BY <1>0, <1>11, <1>a, <1>d, <2>2, <1>e DEF TypeList, ApplyFileCreated, TakeOp, ClientStays
<1>12. ASSUME ApplyFileDeleted PROVE FileTypes'
  <2>1. tree' \subseteq Path /\ lapse' \in BOOLEAN
    BY <1>0, <1>12 DEF ApplyFileDeleted
  <2> QED BY <1>0, <1>12, <1>a, <1>d, <2>1, <1>e DEF TypeList, ApplyFileDeleted, TakeOp, ClientStays
<1>13. ASSUME HandleFileRenamed PROVE FileTypes'
  <2>1. Frame.path \in Path /\ Frame.to \in Path /\ Movable(Frame.path, Frame.to)
    BY <1>13, <1>d, FrameKinds DEF HandleFileRenamed, TakeOp, Frame
  <2>2. lapse' \in BOOLEAN
    BY <1>0, <1>13 DEF HandleFileRenamed
  <2>3. tree' \subseteq Path
    <3>1. \A x \in Path : IsPrefix(Frame.path, x) => Moved(x, Frame.path, Frame.to) \in Path
      BY <2>1, MovedPath
    <3> QED BY <1>0, <1>13, <3>1 DEF HandleFileRenamed, MoveEntries, Under
  <2>4. renaming' \subseteq Path \X Path /\ \A r \in renaming' : Movable(r[1], r[2])
    BY <1>0, <1>13, <2>1 DEF HandleFileRenamed
  <2> QED BY <1>0, <1>13, <1>a, <1>d, <2>2, <2>3, <2>4, <1>e
           DEF TypeList, HandleFileRenamed, TakeOp, ClientStays
<1>14. ASSUME NEW r \in renaming, TabsSaved(r) PROVE FileTypes'
  <2>1. r[1] \in Path /\ r[2] \in Path /\ Movable(r[1], r[2])
    BY <1>0
  <2>2. tree' \subseteq Path
    <3>1. \A x \in Path : IsPrefix(r[1], x) => Moved(x, r[1], r[2]) \in Path
      BY <2>1, MovedPath
    <3> QED BY <1>0, <1>14, <3>1 DEF TabsSaved, MoveEntries, Under
  <2>3. renaming' \subseteq Path \X Path /\ \A s \in renaming' : Movable(s[1], s[2])
    BY <1>0, <1>14 DEF TabsSaved
  <2> QED BY <1>0, <1>14, <1>a, <2>2, <2>3, <1>e DEF TypeList, TabsSaved, ClientStays
<1>15. ASSUME NEW p \in Path, ChangeOutside(p) PROVE FileTypes'
  <2>1. HostTypes'
    <3>1. CASE disk' = disk \cup {p} /\ Parents(p) \subseteq disk
      BY <1>0, <1>15, <1>b, <3>1 DEF ChangeOutside, HostTypes
    <3>2. CASE disk' = disk \ Under(p, disk)
      <4>1. disk' \subseteq Path /\ \A q \in disk' : Parents(q) \subseteq disk'
        BY <1>0, <3>2, ParentsAre, Order DEF HostTypes, Under
      <4> QED BY <1>0, <1>15, <1>b, <4>1 DEF ChangeOutside, HostTypes
    <3> QED BY <1>15, <3>1, <3>2 DEF ChangeOutside
  <2>2. lapse' \in BOOLEAN
    BY <1>0, <1>15 DEF ChangeOutside
  <2> QED BY <1>0, <1>15, <2>1, <2>2, <1>e DEF TypeList, ChangeOutside, UserActs
<1>16. CASE UNCHANGED fileVars
  BY <1>0, <1>16, <1>a, <1>e DEF TypeList, fileVars
<1> QED
  BY <1>1, <1>2, <1>3, <1>4, <1>5, <1>6, <1>7, <1>8, <1>9, <1>10, <1>11, <1>12, <1>13, <1>14, <1>15, <1>16
  DEF FileNext

\* Host's files, client's tree, awaited creations and frames hold what
\* fileOpsSync.ts and the tree of pairProgFileSystemProvider.ts may put
\* into them, for any paths and any number of operations.
THEOREM FileTreeTypes == FileSpec => []FileTypeOK
<1>1. FileTypes => FileTypeOK
  BY DEF FileTypes
<1> QED BY FileTypesInit, FileTypesStep, <1>1, PTL DEF FileSpec

\* What is ignored is hidden, and so is what is below something hidden.
LEMMA HiddenBelow ==
    /\ \A p \in Path : p \in Ignored => p \in Hidden
    /\ \A p, q \in Path : p \in Hidden /\ IsPrefix(p, q) => q \in Hidden
<1>1. ASSUME NEW p \in Path, p \in Ignored PROVE p \in Hidden
  BY <1>1, Order DEF Hidden
<1>2. ASSUME NEW p \in Path, NEW q \in Path, p \in Hidden, IsPrefix(p, q) PROVE q \in Hidden
  <2>1. PICK i \in Ignored : IsPrefix(i, p)
    BY <1>2 DEF Hidden
  <2>2. IsPrefix(i, q)
    BY <1>2, <2>1, PathAssumption, Order
  <2> QED BY <1>2, <2>1, <2>2 DEF Hidden
<1> QED BY <1>1, <1>2

\* The files that are shared have their folders.
LEMMA SharedClosed ==
    ASSUME FileTypes
    PROVE  Shared \in SUBSET Path /\ \A q \in Shared : Parents(q) \subseteq Shared
<1>1. disk \subseteq Path /\ \A q \in disk : Parents(q) \subseteq disk
  BY TypesAre DEF TypeList, HostTypes
<1> QED BY <1>1, ParentsAre, HiddenBelow DEF Shared

\* The files whose creation has not been sent.
LEMMA AwaitedAre ==
    ASSUME NEW x
    PROVE  x \in Awaited <=> \E c \in stated : c[1] = x
BY DEF Awaited

\* The renamings in wait have nothing to do with each other unless there
\* was a lapse.
LEMMA RenamingsAre ==
    ASSUME FileTypes, FilePhases, ~lapse
    PROVE  Renamings(renaming)
BY TypesAre DEF TypeList, FilePhases, Renamings

\* A frame that overtakes no renaming is about none of their paths.
LEMMA ClearPath ==
    ASSUME NEW p
    PROVE  ~Overtakes(p) <=> Unconcerned(p, renaming)
BY DEF Overtakes, Related, Unconcerned, Unrelated

\* The host does something that it does not send.
LEMMA QuietHost ==
    ASSUME FileTypes, Follows,
           UNCHANGED <<scan, snapshot, opsNet, setUp, tree, renaming, lapse>>,
           ~lapse => \A H, M \in SUBSET Path :
               Fits(H, Shared, Awaited, M) => Fits(H, Shared', Awaited', M)
    PROVE  Follows'
<1>1. opsNet \in Seq(HostFrame) /\ snapshot \in SUBSET Path
  BY TypesAre DEF TypeList
<1> SUFFICES ASSUME ~lapse'
             PROVE  /\ scan' = "read" => Fits(snapshot', Shared', Awaited', {})
                    /\ \A m \in DOMAIN opsNet' : opsNet'[m].op = "tree" =>
                         Leads(opsNet', m, snapshot', {}, Shared', Awaited')
                    /\ setUp' # "waiting" =>
                         Leads(opsNet', 0, Held(tree', renaming'), Targets(renaming'), Shared', Awaited')
  BY DEF Follows
<1>2. ASSUME scan = "read" PROVE Fits(snapshot, Shared', Awaited', {})
  <2>1. {} \in SUBSET Path
    OBVIOUS
  <2> QED BY <1>1, <1>2, <2>1 DEF Follows
<1>3. ASSUME NEW m \in DOMAIN opsNet, opsNet[m].op = "tree"
      PROVE  Leads(opsNet, m, snapshot, {}, Shared', Awaited')
  <2>1. m \in 0 .. Len(opsNet)
    BY <1>1
  <2>2. Leads(opsNet, m, snapshot, {}, Shared, Awaited)
    BY <1>3 DEF Follows
  <2> QED BY <1>1, <2>1, <2>2, LeadsStays
<1>4. ASSUME setUp # "waiting"
      PROVE  Leads(opsNet, 0, Held(tree, renaming), Targets(renaming), Shared', Awaited')
  <2>1. 0 \in 0 .. Len(opsNet)
    BY <1>1
  <2>2. Leads(opsNet, 0, Held(tree, renaming), Targets(renaming), Shared, Awaited)
    BY <1>4 DEF Follows
  <2> QED BY <1>1, <2>1, <2>2, LeadsStays
<1> QED BY <1>2, <1>3, <1>4

TreeOnItsWay ==
    \A i \in DOMAIN opsNet : opsNet[i].op = "tree" =>
        /\ scan = "sent" /\ setUp = "waiting"
        /\ \A j \in DOMAIN opsNet : opsNet[j].op = "tree" => j = i

\* The places of a queue that has got a frame.
LEMMA AppendedTo ==
    ASSUME NEW q \in Seq(HostFrame), NEW f \in HostFrame, NEW m \in DOMAIN Append(q, f)
    PROVE  \/ m = Len(q) + 1 /\ Append(q, f)[m] = f
           \/ m \in DOMAIN q /\ m \in 0 .. Len(q) /\ Append(q, f)[m] = q[m]
OBVIOUS

\* The places of a queue that has lost one.
LEMMA TakenFrom ==
    ASSUME NEW q \in Seq(HostFrame), q # << >>, NEW m \in DOMAIN Tail(q)
    PROVE  /\ m \in Nat /\ m + 1 \in DOMAIN q /\ Tail(q)[m] = q[m + 1] /\ m + 1 # 1
           /\ m + 1 \in 1 .. Len(q) /\ (m + 1) - 1 = m
OBVIOUS

\* The host sends something.
LEMMA HostSends ==
    ASSUME FileTypes, Follows, TreeOnItsWay, NEW f \in HostFrame, f.op # "tree",
           opsNet' = Append(opsNet, f), UNCHANGED <<scan, snapshot, setUp, tree, renaming>>,
           lapse \/ Missed => lapse',
           ~lapse' => \A H, M, H1, M1 \in SUBSET Path :
               Fits(H, Shared, Awaited, M) /\ Handled(f, H, M, H1, M1)
                   => Fits(H1, Shared', Awaited', M1)
    PROVE  Follows' /\ TreeOnItsWay'
<1>1. opsNet \in Seq(HostFrame) /\ snapshot \in SUBSET Path
  BY TypesAre DEF TypeList
<1> DEFINE q == opsNet'
<1>0. q = Append(opsNet, f)
  OBVIOUS
<1> HIDE DEF q
<1>2. \A m \in DOMAIN q : q[m].op = "tree" =>
        m \in DOMAIN opsNet /\ m \in 0 .. Len(opsNet) /\ q[m] = opsNet[m]
  BY <1>0, <1>1, AppendedTo
<1>3. TreeOnItsWay'
  BY <1>2 DEF TreeOnItsWay, q
<1>4. ASSUME ~lapse', NEW m \in DOMAIN q, q[m].op = "tree"
      PROVE  Leads(q, m, snapshot, {}, Shared', Awaited')
  <2>1. m \in DOMAIN opsNet /\ m \in 0 .. Len(opsNet) /\ opsNet[m].op = "tree"
    BY <1>2, <1>4
  <2>2. Leads(opsNet, m, snapshot, {}, Shared, Awaited)
    BY <1>4, <2>1 DEF Follows
  <2> QED BY <1>0, <1>1, <1>4, <2>1, <2>2, LeadsAppended
<1>5. ASSUME ~lapse', setUp # "waiting"
      PROVE  Leads(q, 0, Held(tree, renaming), Targets(renaming), Shared', Awaited')
  <2>1. 0 \in 0 .. Len(opsNet)
    BY <1>1
  <2>2. Leads(opsNet, 0, Held(tree, renaming), Targets(renaming), Shared, Awaited)
    BY <1>5 DEF Follows
  <2> QED BY <1>0, <1>1, <1>5, <2>1, <2>2, LeadsAppended
<1>6. ~lapse' => scan' # "read"
  BY DEF Missed
<1>7. Follows'
  BY <1>4, <1>5, <1>6 DEF Follows, q
<1> QED BY <1>3, <1>7

\* The client handles a frame.
LEMMA ClientTakes ==
    ASSUME FileTypes, Follows, TreeOnItsWay, setUp # "waiting", opsNet # << >>, opsNet' = Tail(opsNet),
           UNCHANGED <<disk, stated, scan, snapshot, setUp>>, lapse => lapse', scan # "sent" => setUp = "waiting",
           ~lapse' => \A M \in SUBSET Targets(renaming') :
               Handled(Head(opsNet), Held(tree, renaming), Targets(renaming), Held(tree', renaming'), M),
           ~lapse' => Held(tree, renaming) \in SUBSET Path /\ Targets(renaming) \in SUBSET Path
    PROVE  Follows' /\ TreeOnItsWay'
<1>1. opsNet \in Seq(HostFrame)
  BY TypesAre DEF TypeList
<1> DEFINE q == opsNet'
<1>0. q = Tail(opsNet)
  OBVIOUS
<1> HIDE DEF q
<1>2. \A m \in DOMAIN q : q[m].op # "tree"
  BY <1>0, <1>1, TakenFrom DEF TreeOnItsWay
<1>3. TreeOnItsWay'
  BY <1>2 DEF TreeOnItsWay, q
<1>4. Shared' = Shared /\ Awaited' = Awaited
  BY DEF Shared, Awaited
<1>5. ASSUME ~lapse'
      PROVE  Leads(q, 0, Held(tree', renaming'), Targets(renaming'), Shared, Awaited)
  <2>1. Leads(opsNet, 0, Held(tree, renaming), Targets(renaming), Shared, Awaited)
    BY <1>5 DEF Follows
  <2>2. /\ Held(tree, renaming) \in SUBSET Path /\ Targets(renaming) \in SUBSET Path
        /\ \A M \in SUBSET Targets(renaming') :
               Handled(Head(opsNet), Held(tree, renaming), Targets(renaming), Held(tree', renaming'), M)
    BY <1>5
  <2> DEFINE S == Held(tree, renaming)
             N == Targets(renaming)
             S1 == Held(tree', renaming')
             N1 == Targets(renaming')
             D == Shared
             A == Awaited
  <2> HIDE DEF S, N, S1, N1, D, A
  <2>3. /\ S \in SUBSET Path /\ N \in SUBSET Path /\ Leads(opsNet, 0, S, N, D, A)
        /\ \A M \in SUBSET N1 : Handled(Head(opsNet), S, N, S1, M)
    BY <2>1, <2>2 DEF S, N, S1, N1, D, A
  <2>4. Leads(q, 0, S1, N1, D, A)
    BY <1>0, <1>1, <2>3, LeadsTaken
  <2> QED BY <2>4 DEF S1, N1, D, A
<1>6. scan' # "read"
  OBVIOUS
<1>7. Follows'
  BY <1>2, <1>4, <1>5, <1>6 DEF Follows, q
<1> QED BY <1>3, <1>7

\* A tree that fits does so with more files of which it is still to hear.
LEMMA FitsMore ==
    ASSUME NEW S, NEW D, NEW A, NEW D1, NEW A1, NEW N, D \subseteq D1, D1 \ A1 \subseteq D \ A,
           Fits(S, D, A, N)
    PROVE  Fits(S, D1, A1, N)
BY DEF Fits

\* What the phases say besides of the frames.
FileRests ==
    /\ \A c \in stated : c[1] \notin Ignored
    /\ ~lapse => \A c \in stated : c[2] = "open" => c[1] \in disk \cup Hidden
    /\ ~lapse => \A r, s \in renaming : r # s => Apart(r, s)
    /\ setUp # "ready" => renaming = {}
    /\ scan # "sent" => setUp = "waiting"

\* The phases, what the tree's journey has to do with them, and the rest.
LEMMA PhasesAre == FilePhases <=> FileRests /\ TreeOnItsWay
BY DEF FilePhases, FileRests, TreeOnItsWay

FileInv == FileTypes /\ FilePhases /\ Follows

\* The invariant at the start.
LEMMA FileInvInit == FileInit => FileInv
<1> SUFFICES ASSUME FileInit PROVE FileInv
  OBVIOUS
<1>1. opsNet = << >> /\ DOMAIN << >> = {}
  BY DEF FileInit
<1>2. FilePhases /\ Follows
  BY <1>1 DEF FileInit, FilePhases, Follows
<1> QED BY <1>2, FileTypesInit DEF FileInv

\* The host creates a file (onDidCreateFiles).
LEMMA CreateStep ==
    ASSUME FileInv, NEW p \in Path, CreateFile(p)
    PROVE  FilePhases' /\ Follows'
<1>1. /\ disk' = disk \cup {p} /\ p \notin disk
      /\ UNCHANGED <<scan, snapshot, setUp, tree, renaming, opsNet, lapse>>
      /\ stated' = IF p \in Ignored THEN stated ELSE stated \cup {<<p, "stat">>}
  BY DEF CreateFile, UserActs
<1>2. FileRests' /\ TreeOnItsWay'
  BY <1>1, PhasesAre DEF FileInv, FileRests, TreeOnItsWay
<1>3. FilePhases'
  BY <1>2, PhasesAre, PTL
<1>4. Shared \subseteq Shared' /\ Shared' \ Awaited' \subseteq Shared \ Awaited
  <2>1. CASE p \in Ignored
    BY <1>1, <2>1, HiddenBelow DEF Shared, Awaited
  <2>2. CASE p \notin Ignored
    <3>1. p \in Awaited' /\ Awaited \subseteq Awaited'
      <4>1. <<p, "stat">> \in stated' /\ <<p, "stat">>[1] = p
        BY <1>1, <2>2
      <4> QED BY <1>1, <4>1 DEF Awaited
    <3> QED BY <1>1, <3>1 DEF Shared
  <2> QED BY <2>1, <2>2
<1>5. \A H, M \in SUBSET Path : Fits(H, Shared, Awaited, M) => Fits(H, Shared', Awaited', M)
  BY <1>4, FitsMore
<1>6. Follows'
  BY <1>1, <1>5, QuietHost DEF FileInv
<1> QED BY <1>3, <1>6

\* The host deletes a file or a folder; a creation of which nothing was
\* sent makes it a lapse.
LEMMA DeleteStep ==
    ASSUME FileInv, NEW p \in Path, DeleteFile(p)
    PROVE  FilePhases' /\ Follows'
<1>1. /\ disk' = disk \ Under(p, disk) /\ p \in disk
      /\ UNCHANGED <<scan, snapshot, setUp, tree, renaming, stated>>
  BY DEF DeleteFile, UserActs
<1>a. Awaited' = Awaited
  BY <1>1 DEF Awaited
<1>b. Shared' = Shared \ Under(p, Shared)
  BY <1>1 DEF Shared, Under
<1>c. disk \subseteq Path
  BY TypesAre DEF FileInv, TypeList, HostTypes
<1>2. CASE p \in Ignored
  <2>1. UNCHANGED <<opsNet, lapse>>
    BY <1>2 DEF DeleteFile
  <2>2. Shared' = Shared
    BY <1>1, <1>2, <1>b, <1>c, HiddenBelow DEF Shared, Under
  <2>3. FileRests' /\ TreeOnItsWay'
    <3>1. ASSUME ~lapse, NEW c \in stated, c[2] = "open" PROVE c[1] \in disk' \cup Hidden
      <4>1. c[1] \in disk \cup Hidden
        BY <3>1, PhasesAre DEF FileInv, FileRests
      <4> QED BY <2>2, <4>1 DEF Shared
    <3> QED BY <1>1, <2>1, <3>1, PhasesAre DEF FileInv, FileRests, TreeOnItsWay
  <2>4. FilePhases'
    BY <2>3, PhasesAre, PTL
  <2>5. Follows'
    BY <1>1, <1>a, <2>1, <2>2, QuietHost DEF FileInv
  <2> QED BY <2>4, <2>5
<1>3. CASE p \notin Ignored
  <2> DEFINE f == [op |-> "deleted", path |-> p, to |-> << >>]
  <2>1. /\ opsNet' = Append(opsNet, f)
        /\ lapse' = (lapse \/ Missed \/ \E c \in stated : IsPrefix(p, c[1]) /\ c[2] = "open")
    BY <1>3 DEF DeleteFile, SendOp
  <2>2. f \in HostFrame /\ f.op = "deleted" /\ f.path = p
    BY FramesOf
  <2> HIDE DEF f
  <2>3. FileRests'
    <3>1. ASSUME ~lapse', NEW c \in stated, c[2] = "open" PROVE c[1] \in disk' \cup Hidden
      <4>1. c[1] \in disk \cup Hidden /\ ~IsPrefix(p, c[1])
        BY <2>1, <3>1, PhasesAre DEF FileInv, FileRests
      <4> QED BY <1>1, <4>1 DEF Under
    <3> QED BY <1>1, <2>1, <3>1, PhasesAre DEF FileInv, FileRests
  <2>4. ASSUME NEW H \in SUBSET Path, NEW M \in SUBSET Path, NEW H1 \in SUBSET Path, NEW M1 \in SUBSET Path,
               Fits(H, Shared, Awaited, M), Handled(f, H, M, H1, M1)
        PROVE  Fits(H1, Shared', Awaited', M1)
    <3>1. H1 = H \ {p} /\ M1 \subseteq M /\ \A n \in M : Unrelated(p, n)
      BY <2>2, <2>4 DEF Handled
    <3>2. Shared \in SUBSET Path
      BY <1>c DEF Shared
    <3> QED BY <1>a, <1>b, <2>4, <3>1, <3>2, FitsDeleted
  <2>5. Follows' /\ TreeOnItsWay'
    BY <1>1, <2>1, <2>2, <2>4, HostSends, PhasesAre DEF FileInv
  <2>6. FilePhases'
    BY <2>3, <2>5, PhasesAre, PTL
  <2> QED BY <2>5, <2>6
<1> QED BY <1>2, <1>3

\* The host renames a file or a folder.
LEMMA RenameStep ==
    ASSUME FileInv, NEW p \in Path, NEW n \in Path, RenameFile(p, n)
    PROVE  FilePhases' /\ Follows'
<1>1. /\ disk' = Replaced(disk, p, n)
      /\ p \in disk /\ Parents(n) \subseteq disk
      /\ (p \in Folder <=> n \in Folder) /\ ~IsPrefix(p, n) /\ ~IsPrefix(n, p)
      /\ UNCHANGED <<scan, snapshot, setUp, tree, renaming, stated>>
  BY DEF RenameFile, UserActs, Replaced
<1>a. Awaited' = Awaited
  BY <1>1 DEF Awaited
<1>c. disk \in SUBSET Path /\ \A q \in disk : Parents(q) \subseteq disk
  BY TypesAre DEF FileInv, TypeList, HostTypes
<1>d. Movable(p, n)
  BY <1>1 DEF Movable, Unrelated
<1>e. /\ Moved(p, p, n) = n /\ IsPrefix(p, p)
      /\ \A x \in Path : IsPrefix(p, x) => Moved(x, p, n) \in Path /\ IsPrefix(n, Moved(x, p, n))
  BY <1>d, MovedPath, Order
<1>f. ASSUME NEW x
      PROVE  x \in disk' <=> \/ x \in disk /\ ~IsPrefix(p, x) /\ ~IsPrefix(n, x)
                             \/ \E y \in disk : IsPrefix(p, y) /\ x = Moved(y, p, n)
  BY <1>1 DEF Under, Replaced
<1>2. CASE {p, n} \subseteq Ignored
  <2>1. UNCHANGED <<opsNet, lapse>>
    BY <1>2 DEF RenameFile
  <2>2. Shared' = Shared
    <3>1. p \in Hidden /\ n \in Hidden
      BY <1>2, <1>c, HiddenBelow
    <3>2. \A x \in Path : IsPrefix(p, x) \/ IsPrefix(n, x) => x \in Hidden
      BY <1>c, <3>1, HiddenBelow
    <3>3. ASSUME NEW x PROVE x \in Shared' <=> x \in Shared
      BY <1>c, <1>e, <1>f, <3>2 DEF Shared
    <3> QED BY <3>3
  <2>3. FileRests' /\ TreeOnItsWay'
    <3>1. ASSUME ~lapse, NEW c \in stated, c[2] = "open" PROVE c[1] \in disk' \cup Hidden
      <4>1. c[1] \in disk \cup Hidden
        BY <3>1, PhasesAre DEF FileInv, FileRests
      <4> QED BY <2>2, <4>1 DEF Shared
    <3> QED BY <1>1, <2>1, <3>1, PhasesAre DEF FileInv, FileRests, TreeOnItsWay
  <2>4. FilePhases'
    BY <2>3, PhasesAre, PTL
  <2>5. Follows'
    BY <1>1, <1>a, <2>1, <2>2, QuietHost DEF FileInv
  <2> QED BY <2>4, <2>5
<1>3. CASE ~({p, n} \subseteq Ignored)
  <2> DEFINE f == [op |-> "renamed", path |-> p, to |-> n]
  <2>1. /\ opsNet' = Append(opsNet, f)
        /\ lapse \/ Missed => lapse'
        /\ ~lapse' => \A c \in stated : ~IsPrefix(p, c[1])
        /\ ~lapse' => p \notin Hidden
        /\ ~lapse' => \A q \in Under(p, disk) : q \in Hidden <=> Moved(q, p, n) \in Hidden
        /\ ~lapse' => \A q \in disk \ Hidden : ~IsStrictPrefix(n, q)
    BY <1>3 DEF RenameFile, SendOp
  <2>2. f \in HostFrame /\ f.op = "renamed" /\ f.path = p /\ f.to = n
    BY <1>d, FramesOf
  <2> HIDE DEF f
  <2>3. FileRests'
    <3>1. ASSUME ~lapse', NEW c \in stated, c[2] = "open" PROVE c[1] \in disk' \cup Hidden
      <4>1. c[1] \in disk \cup Hidden /\ ~IsPrefix(p, c[1])
        BY <2>1, <3>1, PhasesAre DEF FileInv, FileRests
      <4>2. n \in disk'
        BY <1>1, <1>e, <1>f
      <4>3. c[1] \in disk \ Hidden => c[1] = n \/ ~IsPrefix(n, c[1])
        BY <2>1, <3>1 DEF IsStrictPrefix
      <4> QED BY <1>f, <4>1, <4>2, <4>3
    <3> QED BY <1>1, <2>1, <3>1, PhasesAre DEF FileInv, FileRests
  <2>4. ASSUME ~lapse', NEW H \in SUBSET Path, NEW M \in SUBSET Path,
               NEW H1 \in SUBSET Path, NEW M1 \in SUBSET Path,
               Fits(H, Shared, Awaited, M), Handled(f, H, M, H1, M1)
        PROVE  Fits(H1, Shared', Awaited', M1)
    <3>1. H1 = Renamed(H, p, n) /\ M1 \subseteq M \cup {n} /\ FineRenamed(p, n, H, M)
      BY <2>2, <2>4 DEF Handled
    <3>2. p \in Shared /\ n \notin Hidden
      <4>1. p \in Under(p, disk)
        BY <1>1, <1>e DEF Under
      <4>2. p \in Hidden <=> n \in Hidden
        BY <1>e, <2>1, <2>4, <4>1
      <4> QED BY <1>1, <2>1, <2>4, <4>2 DEF Shared
    <3>6. \A x \in Shared : IsPrefix(n, x) => x = n
      BY <2>1, <2>4 DEF Shared, IsStrictPrefix
    <3>3. Shared' = Renamed(Shared, p, n)
      <4>1. ASSUME NEW x PROVE x \in Shared' <=> x \in Renamed(Shared, p, n)
        <5>1. \A q \in disk : IsPrefix(p, q) => (q \in Hidden <=> Moved(q, p, n) \in Hidden)
          BY <2>1, <2>4 DEF Under
        <5>2. x \in Renamed(Shared, p, n) <=> \/ x \in Shared /\ ~IsPrefix(p, x)
                                             \/ \E y \in Shared : IsPrefix(p, y) /\ x = Moved(y, p, n)
          BY RenamedAre
        <5>3. CASE x = n
          BY <1>1, <1>e, <1>f, <3>2, <5>2, <5>3 DEF Shared
        <5>4. CASE x # n
          BY <1>f, <3>6, <5>1, <5>2, <5>4 DEF Shared
        <5> QED BY <5>3, <5>4
      <4> QED BY <4>1
    <3>4. \A q \in Awaited : ~IsPrefix(p, q)
      BY <2>1, <2>4, AwaitedAre
    <3>5. Shared \in SUBSET Path /\ \A q \in Shared : Parents(q) \subseteq Shared
      BY SharedClosed DEF FileInv
    <3> QED BY <1>a, <1>d, <2>4, <3>1, <3>2, <3>3, <3>4, <3>5, <3>6, FitsRenamed
  <2>5. Follows' /\ TreeOnItsWay'
    BY <1>1, <2>1, <2>2, <2>4, HostSends, PhasesAre DEF FileInv
  <2>6. FilePhases'
    BY <2>3, <2>5, PhasesAre, PTL
  <2> QED BY <2>5, <2>6
<1> QED BY <1>2, <1>3

\* The host tells of p, and no longer awaits it (or does for another reason).
LEMMA CreatedSent ==
    ASSUME FileInv, NEW p \in Path, p \in Shared \/ lapse',
           UNCHANGED <<disk, scan, snapshot, setUp, tree, renaming>>,
           NEW f, f = [op |-> "created", path |-> p, to |-> << >>],
           opsNet' = Append(opsNet, f), lapse' = (lapse \/ Missed \/ p \in Hidden),
           stated' \subseteq stated, \A c \in stated : c[1] # p => c \in stated'
    PROVE  FilePhases' /\ Follows'
<1>1. f \in HostFrame /\ f.op = "created" /\ f.path = p
  BY FramesOf
<1>2. FileRests'
  BY PhasesAre DEF FileInv, FileRests
<1>3. Shared' = Shared /\ Awaited \subseteq Awaited' \cup {p}
  BY AwaitedAre DEF Shared, Awaited
<1>4. ASSUME ~lapse', NEW H \in SUBSET Path, NEW M \in SUBSET Path,
             NEW H1 \in SUBSET Path, NEW M1 \in SUBSET Path,
             Fits(H, Shared, Awaited, M), Handled(f, H, M, H1, M1)
      PROVE  Fits(H1, Shared', Awaited', M1)
  <2>1. H1 = H \cup Upto(p) /\ M1 \subseteq M /\ FineCreated(p, H, M)
    BY <1>1, <1>4 DEF Handled
  <2>2. Shared \in SUBSET Path /\ \A q \in Shared : Parents(q) \subseteq Shared
    BY SharedClosed DEF FileInv
  <2>3. p \in Shared
    BY <1>4
  <2> QED BY <1>3, <1>4, <2>1, <2>2, <2>3, FitsCreated
<1>5. Follows' /\ TreeOnItsWay'
  BY <1>1, <1>4, HostSends, PhasesAre DEF FileInv
<1>6. FilePhases'
  BY <1>2, <1>5, PhasesAre, PTL
<1> QED BY <1>5, <1>6

\* The host's stat() of a created file is there.
LEMMA StatStep ==
    ASSUME FileInv, NEW p \in Path, StatDone(p)
    PROVE  FilePhases' /\ Follows'
<1>1. /\ UNCHANGED <<disk, setUp, tree, renaming, scan, snapshot>>
      /\ <<p, "stat">> \in stated
  BY DEF StatDone, HostStays
<1>a. \A c \in stated : c = <<p, "stat">> \/ c = <<p, "open">> \/ c[1] # p
  BY TypesAre DEF FileInv, TypeList
<1>b. p \notin Ignored
  BY <1>1, PhasesAre DEF FileInv, FileRests
<1>c. Shared' = Shared
  BY <1>1 DEF Shared
<1> DEFINE rest == stated \ {<<p, "stat">>}
           f == [op |-> "created", path |-> p, to |-> << >>]
<1>2. CASE p \notin disk /\ stated' = rest /\ UNCHANGED <<opsNet, lapse>>
  <2>1. FileRests' /\ TreeOnItsWay'
    BY <1>1, <1>2, PhasesAre DEF FileInv, FileRests, TreeOnItsWay
  <2>2. Shared' \ Awaited' \subseteq Shared \ Awaited
    <3>1. ASSUME NEW x \in Awaited, x # p PROVE x \in Awaited'
      <4>1. PICK c \in stated : c[1] = x
        BY <3>1, AwaitedAre
      <4>2. c \in stated'
        BY <1>1, <1>2, <3>1, <4>1
      <4> QED BY <4>1, <4>2 DEF Awaited
    <3> QED BY <1>2, <1>c, <3>1 DEF Shared
  <2>3. \A H, M \in SUBSET Path : Fits(H, Shared, Awaited, M) => Fits(H, Shared', Awaited', M)
    BY <1>c, <2>2, FitsMore
  <2>4. Follows'
    BY <1>1, <1>2, <2>3, QuietHost DEF FileInv
  <2>5. FilePhases'
    BY <2>1, PhasesAre, PTL
  <2> QED BY <2>4, <2>5
<1>3. CASE p \in disk /\ stated' = rest \cup {<<p, "open">>} /\ UNCHANGED <<opsNet, lapse>>
  <2>1. FileRests' /\ TreeOnItsWay'
    <3>1. ASSUME NEW c \in stated'
          PROVE  c[1] \notin Ignored /\ (~lapse' /\ c[2] = "open" => c[1] \in disk' \cup Hidden)
      <4>1. CASE c = <<p, "open">>
        BY <1>1, <1>3, <1>b, <4>1
      <4>2. CASE c \in stated
        BY <1>1, <1>3, <4>2, PhasesAre DEF FileInv, FileRests
      <4> QED BY <1>3, <3>1, <4>1, <4>2
    <3> QED BY <1>1, <1>3, <3>1, PhasesAre DEF FileInv, FileRests, TreeOnItsWay
  <2>2. Awaited' = Awaited
    <3>1. ASSUME NEW x \in Awaited PROVE x \in Awaited'
      <4>1. PICK c \in stated : c[1] = x
        BY AwaitedAre
      <4>2. CASE c = <<p, "stat">>
        <5>1. <<p, "open">> \in stated' /\ <<p, "open">>[1] = x
          BY <1>3, <4>1, <4>2
        <5> QED BY <5>1 DEF Awaited
      <4>3. CASE c # <<p, "stat">>
        <5>1. c \in stated'
          BY <1>3, <4>3
        <5> QED BY <4>1, <5>1 DEF Awaited
      <4> QED BY <4>2, <4>3
    <3>2. ASSUME NEW c \in stated' PROVE c[1] \in Awaited
      <4>1. CASE c = <<p, "open">>
        <5>1. <<p, "stat">>[1] = p /\ c[1] = p
          BY <4>1
        <5> QED BY <1>1, <5>1, AwaitedAre
      <4>2. CASE c \in stated
        BY <4>2, AwaitedAre
      <4> QED BY <1>3, <3>2, <4>1, <4>2
    <3> QED BY <3>1, <3>2 DEF Awaited
  <2>3. Follows'
    BY <1>1, <1>3, <1>c, <2>2, QuietHost DEF FileInv
  <2>4. FilePhases'
    BY <2>1, PhasesAre, PTL
  <2> QED BY <2>3, <2>4
<1>4. CASE p \in disk /\ stated' = rest /\ opsNet' = Append(opsNet, f) /\ lapse' = (lapse \/ Missed \/ p \in Hidden)
  <2>1. p \in Shared \/ lapse'
    BY <1>4 DEF Shared
  <2>2. stated' \subseteq stated /\ \A c \in stated : c[1] # p => c \in stated'
    BY <1>4
  <2>3. opsNet' = Append(opsNet, f) /\ lapse' = (lapse \/ Missed \/ p \in Hidden)
    BY <1>4
  <2> HIDE DEF rest, f
  <2>4. f = [op |-> "created", path |-> p, to |-> << >>]
    BY DEF f
  <2> QED BY <1>1, <2>1, <2>2, <2>3, <2>4, CreatedSent
<1> QED BY <1>2, <1>3, <1>4 DEF StatDone, SendCreated, SendOp

\* The host's openTextDocument() of a created file is there.
LEMMA OpenStep ==
    ASSUME FileInv, NEW p \in Path, OpenDone(p)
    PROVE  FilePhases' /\ Follows'
<1> DEFINE f == [op |-> "created", path |-> p, to |-> << >>]
<1>1. /\ UNCHANGED <<disk, setUp, tree, renaming, scan, snapshot>>
      /\ <<p, "open">> \in stated /\ stated' = stated \ {<<p, "open">>}
      /\ opsNet' = Append(opsNet, f) /\ lapse' = (lapse \/ Missed \/ p \in Hidden)
  BY DEF OpenDone, SendCreated, HostStays, SendOp
<1> HIDE DEF f
<1>2. f = [op |-> "created", path |-> p, to |-> << >>]
  BY DEF f
<1>3. p \in Shared \/ lapse'
  <2>1. <<p, "open">>[1] = p /\ <<p, "open">>[2] = "open"
    OBVIOUS
  <2>2. ~lapse => p \in disk \cup Hidden
    BY <1>1, <2>1, PhasesAre DEF FileInv, FileRests
  <2> QED BY <1>1, <2>2 DEF Shared
<1>4. stated' \subseteq stated /\ \A c \in stated : c[1] # p => c \in stated'
  BY <1>1
<1> QED BY <1>1, <1>2, <1>3, <1>4, CreatedSent

\* buildDirectoryTree() reads the disk.
LEMMA ReadStep ==
    ASSUME FileInv, ReadDirectory
    PROVE  FilePhases' /\ Follows'
<1>1. /\ UNCHANGED <<disk, setUp, tree, renaming, stated, opsNet>>
      /\ scan = "reading" /\ scan' = "read"
      /\ (lapse => lapse') /\ (~lapse' => snapshot' = Shared)
  BY DEF ReadDirectory, HostStays, Shared
<1>2. setUp = "waiting" /\ \A i \in DOMAIN opsNet : opsNet[i].op # "tree"
  BY <1>1, PhasesAre DEF FileInv, FileRests, TreeOnItsWay
<1>3. FileRests' /\ TreeOnItsWay'
  BY <1>1, <1>2, PhasesAre DEF FileInv, FileRests, TreeOnItsWay
<1>4. FilePhases'
  BY <1>3, PhasesAre, PTL
<1>5. Fits(Shared, Shared, Awaited, {}) /\ Shared' = Shared /\ Awaited' = Awaited
  BY <1>1 DEF Fits, Shared, Awaited
<1>6. Follows'
  BY <1>1, <1>2, <1>5 DEF Follows
<1> QED BY <1>4, <1>6

\* Something changes on the disk of which the host hears nothing: it is
\* hidden, or the walk is still to come, or it is a lapse.
LEMMA OutsideStep ==
    ASSUME FileInv, NEW p \in Path, ChangeOutside(p)
    PROVE  FilePhases' /\ Follows'
<1>1. /\ UNCHANGED <<scan, snapshot, setUp, tree, renaming, stated, opsNet>>
      /\ disk' = disk \cup {p} \/ disk' = disk \ Under(p, disk)
      /\ lapse => lapse'
      /\ ~lapse' => scan = "reading" \/ p \in Hidden
      /\ ~lapse' => \A c \in stated : c[2] = "open" => ~IsPrefix(p, c[1])
  BY DEF ChangeOutside, UserActs
<1>2. disk \subseteq Path
  BY TypesAre DEF FileInv, TypeList, HostTypes
<1>3. FileRests' /\ TreeOnItsWay'
  <2>1. ASSUME ~lapse', NEW c \in stated, c[2] = "open" PROVE c[1] \in disk' \cup Hidden
    <3>1. c[1] \in disk \cup Hidden /\ ~IsPrefix(p, c[1])
      BY <1>1, <2>1, PhasesAre DEF FileInv, FileRests
    <3> QED BY <1>1, <3>1 DEF Under
  <2> QED BY <1>1, <2>1, PhasesAre DEF FileInv, FileRests, TreeOnItsWay
<1>4. FilePhases'
  BY <1>3, PhasesAre, PTL
<1>5. ASSUME ~lapse', scan = "reading" PROVE Follows'
  <2>1. setUp = "waiting" /\ \A i \in DOMAIN opsNet : opsNet[i].op # "tree"
    BY <1>5, PhasesAre DEF FileInv, FileRests, TreeOnItsWay
  <2> QED BY <1>1, <1>5, <2>1 DEF Follows
<1>6. ASSUME ~lapse', p \in Hidden PROVE Follows'
  <2>1. Shared' = Shared /\ Awaited' = Awaited
    BY <1>1, <1>2, <1>6, HiddenBelow DEF Shared, Awaited, Under
  <2>2. ~lapse
    BY <1>1, <1>6
  <2> QED BY <1>1, <2>1, <2>2 DEF FileInv, Follows
<1>7. lapse' => Follows'
  BY DEF Follows
<1> QED BY <1>1, <1>4, <1>5, <1>6, <1>7

\* The host sends the directory tree.
LEMMA SendTreeStep ==
    ASSUME FileInv, SendDirectoryTree
    PROVE  FilePhases' /\ Follows'
<1> DEFINE f == [op |-> "tree", path |-> << >>, to |-> << >>]
           q == opsNet'
<1>1. /\ UNCHANGED <<disk, setUp, tree, renaming, stated, lapse, snapshot>>
      /\ scan = "read" /\ scan' = "sent" /\ opsNet' = Append(opsNet, f)
  BY DEF SendDirectoryTree, HostStays, SendOp
<1>2. f \in HostFrame
  BY FramesOf
<1> HIDE DEF f, q
<1>3. setUp = "waiting" /\ \A i \in DOMAIN opsNet : opsNet[i].op # "tree"
  BY <1>1, PhasesAre DEF FileInv, FileRests, TreeOnItsWay
<1>4. opsNet \in Seq(HostFrame)
  BY TypesAre DEF FileInv, TypeList
<1>5. \A m \in DOMAIN q : q[m].op = "tree" => m = Len(opsNet) + 1
  BY <1>1, <1>2, <1>3, <1>4, AppendedTo DEF q
<1>6. FileRests' /\ TreeOnItsWay'
  BY <1>1, <1>3, <1>5, PhasesAre DEF FileInv, FileRests, TreeOnItsWay, q
<1>7. FilePhases'
  BY <1>6, PhasesAre, PTL
<1>8. Shared' = Shared /\ Awaited' = Awaited
  BY <1>1 DEF Shared, Awaited
<1>9. ~lapse => Leads(q, Len(opsNet) + 1, snapshot, {}, Shared, Awaited)
  <2>1. ~lapse => Fits(snapshot, Shared, Awaited, {})
    BY <1>1 DEF FileInv, Follows
  <2> QED BY <1>1, <1>2, <1>4, <2>1, LeadsSent DEF q
<1>10. Follows'
  BY <1>1, <1>3, <1>5, <1>8, <1>9 DEF Follows, q
<1> QED BY <1>7, <1>10

\* The client fills its tree from the frame.
LEMMA PopulateStep ==
    ASSUME FileInv, PopulateTree
    PROVE  FilePhases' /\ Follows'
<1> DEFINE q == opsNet'
<1>1. /\ UNCHANGED <<disk, stated, lapse, scan, snapshot, renaming>>
      /\ tree' = snapshot /\ setUp' = "registering" /\ q = Tail(opsNet)
      /\ opsNet # << >> /\ Head(opsNet).op = "tree"
  BY DEF PopulateTree, TakeOp, ClientStays
<1> HIDE DEF q
<1>2. opsNet \in Seq(HostFrame) /\ snapshot \in SUBSET Path
  BY TypesAre DEF FileInv, TypeList
<1>3. 1 \in DOMAIN opsNet /\ 1 \in 1 .. Len(opsNet) /\ opsNet[1] = Head(opsNet)
  BY <1>1, <1>2
<1>4. scan = "sent" /\ setUp = "waiting" /\ \A j \in DOMAIN opsNet : opsNet[j].op = "tree" => j = 1
  BY <1>1, <1>3, PhasesAre DEF FileInv, TreeOnItsWay
<1>5. \A m \in DOMAIN q : q[m].op # "tree"
  BY <1>1, <1>2, <1>4, TakenFrom
<1>6. renaming = {}
  BY <1>4, PhasesAre DEF FileInv, FileRests
<1>7. FileRests' /\ TreeOnItsWay'
  BY <1>1, <1>4, <1>5, <1>6, PhasesAre DEF FileInv, FileRests, TreeOnItsWay, q
<1>8. FilePhases'
  BY <1>7, PhasesAre, PTL
<1>9. Shared' = Shared /\ Awaited' = Awaited
  BY <1>1 DEF Shared, Awaited
<1>10. Held(tree', renaming') = snapshot /\ Targets(renaming') = {}
  BY <1>1, <1>6, HeldNone DEF Targets
<1>11. ~lapse => Leads(q, 0, snapshot, {}, Shared, Awaited)
  <2>1. ~lapse => Leads(opsNet, 1, snapshot, {}, Shared, Awaited)
    BY <1>1, <1>3 DEF FileInv, Follows
  <2>2. ~lapse => Leads(q, 1 - 1, snapshot, {}, Shared, Awaited)
    BY <1>1, <1>2, <1>3, <2>1, LeadsShifted
  <2>3. 1 - 1 = 0
    OBVIOUS
  <2> QED BY <2>2, <2>3
<1>12. Follows'
  BY <1>1, <1>4, <1>5, <1>9, <1>10, <1>11 DEF Follows, q
<1> QED BY <1>8, <1>12

\* A frame for which the client has no handler yet is dropped: a lapse,
\* unless the tree is still to come.
LEMMA ForgottenStep ==
    ASSUME FileInv, OpForgotten
    PROVE  FilePhases' /\ Follows'
<1> DEFINE q == opsNet'
<1>1. /\ UNCHANGED <<disk, stated, scan, snapshot, renaming, tree, setUp>>
      /\ q = Tail(opsNet) /\ opsNet # << >>
      /\ lapse' = (lapse \/ setUp = "registering") /\ setUp # "ready"
  BY DEF OpForgotten, TakeOp, ClientStays
<1> HIDE DEF q
<1>2. opsNet \in Seq(HostFrame) /\ setUp \in {"waiting", "registering", "ready"}
  BY TypesAre DEF FileInv, TypeList
<1>3. \A m \in DOMAIN q : m \in Nat /\ m + 1 \in DOMAIN opsNet /\ q[m] = opsNet[m + 1]
         /\ m + 1 \in 1 .. Len(opsNet) /\ (m + 1) - 1 = m
  BY <1>1, <1>2, TakenFrom
<1>4. FileRests'
  BY <1>1, PhasesAre DEF FileInv, FileRests
<1>5. TreeOnItsWay'
  <2>1. ASSUME NEW i \in DOMAIN q, q[i].op = "tree", NEW j \in DOMAIN q, q[j].op = "tree"
        PROVE  scan = "sent" /\ setUp = "waiting" /\ i = j
    <3>1. opsNet[i + 1].op = "tree" /\ opsNet[j + 1].op = "tree"
      BY <1>3, <2>1
    <3>2. scan = "sent" /\ setUp = "waiting" /\ i + 1 = j + 1
      BY <1>3, <3>1, PhasesAre DEF FileInv, TreeOnItsWay
    <3> QED BY <1>3, <3>2
  <2> QED BY <1>1, <2>1 DEF TreeOnItsWay, q
<1>6. FilePhases'
  BY <1>4, <1>5, PhasesAre, PTL
<1>7. Shared' = Shared /\ Awaited' = Awaited
  BY <1>1 DEF Shared, Awaited
<1>8. ASSUME ~lapse, NEW m \in DOMAIN q, q[m].op = "tree"
      PROVE  Leads(q, m, snapshot, {}, Shared, Awaited)
  <2>1. Leads(opsNet, m + 1, snapshot, {}, Shared, Awaited)
    BY <1>3, <1>8 DEF FileInv, Follows
  <2>2. Leads(q, (m + 1) - 1, snapshot, {}, Shared, Awaited)
    BY <1>1, <1>2, <1>3, <2>1, LeadsShifted
  <2> QED BY <1>3, <2>2
<1>9. Follows'
  BY <1>1, <1>2, <1>7, <1>8 DEF FileInv, Follows, q
<1> QED BY <1>6, <1>9

\* What is known of a client that is set up while there was no lapse.
LEMMA TreeReady ==
    ASSUME FileInv, setUp = "ready", ~lapse
    PROVE  /\ Renamings(renaming) /\ tree \in SUBSET Path
           /\ Held(tree, renaming) \in SUBSET Path /\ Targets(renaming) \in SUBSET Path
<1>1. Renamings(renaming) /\ tree \in SUBSET Path
  BY RenamingsAre, TypesAre DEF FileInv, TypeList
<1>2. Targets(renaming) \in SUBSET Path
  BY <1>1 DEF Targets, Renamings
<1> QED BY <1>1, <1>2, HeldTyped

\* The client applies a creation.
LEMMA CreatedStep ==
    ASSUME FileInv, ApplyFileCreated
    PROVE  FilePhases' /\ Follows'
<1> DEFINE p == Frame.path
<1>1. /\ UNCHANGED <<disk, stated, scan, snapshot, renaming, setUp>>
      /\ opsNet' = Tail(opsNet) /\ opsNet # << >> /\ setUp = "ready" /\ Head(opsNet).op = "created"
      /\ Head(opsNet).path = p /\ tree' = tree \cup Upto(p)
      /\ lapse' = (lapse \/ Overtakes(p) \/ \E z \in Upto(p) : Resurrects(z))
  BY DEF ApplyFileCreated, TakeOp, ClientStays, Frame, Upto
<1>2. p \in Path
  BY <1>1, FrameKinds, FrameQueue, TypesAre DEF FileInv, TypeList
<1> HIDE DEF p
<1>3. ASSUME ~lapse', NEW M \in SUBSET Targets(renaming)
      PROVE  Handled(Head(opsNet), Held(tree, renaming), Targets(renaming), Held(tree', renaming), M)
  <2>1. ~lapse /\ Unconcerned(p, renaming)
    BY <1>1, <1>3, ClearPath
  <2>2. Renamings(renaming) /\ tree \in SUBSET Path
    BY <1>1, <2>1, TreeReady
  <2>3. \A z \in Upto(p), w \in tree : IsPrefix(z, w) /\ z # w => Parents(w) \subseteq tree
    BY <1>1, <1>3 DEF Resurrects, IsStrictPrefix
  <2>4. Held(tree', renaming) = Held(tree, renaming) \cup Upto(p)
    BY <1>1, <1>2, <2>1, <2>2, HeldCreated
  <2>5. FineCreated(p, Held(tree, renaming), Targets(renaming))
    BY <1>2, <2>1, <2>2, <2>3, HeldCreatedFine
  <2> QED BY <1>1, <2>4, <2>5 DEF Handled
<1>4. ~lapse' => Held(tree, renaming) \in SUBSET Path /\ Targets(renaming) \in SUBSET Path
  BY <1>1, TreeReady
<1>5. Follows' /\ TreeOnItsWay'
  BY <1>1, <1>3, <1>4, ClientTakes, PhasesAre DEF FileInv, FileRests
<1>6. FileRests'
  BY <1>1, PhasesAre DEF FileInv, FileRests
<1>7. FilePhases'
  BY <1>5, <1>6, PhasesAre, PTL
<1> QED BY <1>5, <1>7

\* The client applies a deletion.
LEMMA DeletedStep ==
    ASSUME FileInv, ApplyFileDeleted
    PROVE  FilePhases' /\ Follows'
<1> DEFINE p == Frame.path
<1>1. /\ UNCHANGED <<disk, stated, scan, snapshot, renaming, setUp>>
      /\ opsNet' = Tail(opsNet) /\ opsNet # << >> /\ setUp = "ready" /\ Head(opsNet).op = "deleted"
      /\ Head(opsNet).path = p /\ tree' = tree \ {p}
      /\ lapse' = (lapse \/ Overtakes(p))
  BY DEF ApplyFileDeleted, TakeOp, ClientStays, Frame
<1>2. p \in Path
  BY <1>1, FrameKinds, FrameQueue, TypesAre DEF FileInv, TypeList
<1> HIDE DEF p
<1>3. ASSUME ~lapse', NEW M \in SUBSET Targets(renaming)
      PROVE  Handled(Head(opsNet), Held(tree, renaming), Targets(renaming), Held(tree', renaming), M)
  <2>1. ~lapse /\ Unconcerned(p, renaming)
    BY <1>1, <1>3, ClearPath
  <2>2. Renamings(renaming) /\ tree \in SUBSET Path
    BY <1>1, <2>1, TreeReady
  <2>3. Held(tree', renaming) = Held(tree, renaming) \ {p}
    BY <1>1, <1>2, <2>1, <2>2, HeldDeleted
  <2>4. \A n \in Targets(renaming) : Unrelated(p, n)
    BY <2>1 DEF Unconcerned, Targets
  <2> QED BY <1>1, <2>3, <2>4 DEF Handled
<1>4. ~lapse' => Held(tree, renaming) \in SUBSET Path /\ Targets(renaming) \in SUBSET Path
  BY <1>1, TreeReady
<1>5. Follows' /\ TreeOnItsWay'
  BY <1>1, <1>3, <1>4, ClientTakes, PhasesAre DEF FileInv, FileRests
<1>6. FileRests'
  BY <1>1, PhasesAre DEF FileInv, FileRests
<1>7. FilePhases'
  BY <1>5, <1>6, PhasesAre, PTL
<1> QED BY <1>5, <1>7

\* The client applies a renaming, or keeps it until its tabs are saved.
LEMMA RenamedStep ==
    ASSUME FileInv, HandleFileRenamed
    PROVE  FilePhases' /\ Follows'
<1> DEFINE p == Frame.path
           n == Frame.to
<1>1. /\ UNCHANGED <<disk, stated, scan, snapshot, setUp>>
      /\ opsNet' = Tail(opsNet) /\ opsNet # << >> /\ setUp = "ready" /\ Head(opsNet).op = "renamed"
      /\ Head(opsNet).path = p /\ Head(opsNet).to = n
      /\ lapse' = (lapse \/ Overtakes(p) \/ Overtakes(n) \/ Resurrects(n))
      /\ \/ tree' = Renamed(tree, p, n) /\ renaming' = renaming
         \/ renaming' = renaming \cup {<<p, n>>} /\ tree' = tree
  BY DEF HandleFileRenamed, TakeOp, ClientStays, Frame, MoveEntries, Renamed
<1>2. p \in Path /\ n \in Path /\ Movable(p, n)
  BY <1>1, FrameKinds, FrameQueue, TypesAre DEF FileInv, TypeList
<1> HIDE DEF p, n
<1>3. ASSUME ~lapse'
      PROVE  /\ Held(tree', renaming') = Renamed(Held(tree, renaming), p, n)
             /\ Targets(renaming') \subseteq Targets(renaming) \cup {n}
             /\ FineRenamed(p, n, Held(tree, renaming), Targets(renaming))
             /\ \A r, s \in renaming' : r # s => Apart(r, s)
  <2>1. ~lapse /\ Unconcerned(p, renaming) /\ Unconcerned(n, renaming)
    BY <1>1, <1>3, ClearPath
  <2>2. Renamings(renaming) /\ tree \in SUBSET Path
    BY <1>1, <2>1, TreeReady
  <2>3. \A w \in tree : IsPrefix(n, w) /\ n # w => Parents(w) \subseteq tree
    BY <1>1, <1>3 DEF Resurrects, IsStrictPrefix
  <2>4. FineRenamed(p, n, Held(tree, renaming), Targets(renaming))
    BY <1>2, <2>1, <2>2, <2>3, HeldRenamedFine
  <2>5. CASE tree' = Renamed(tree, p, n) /\ renaming' = renaming
    <3>1. Held(Renamed(tree, p, n), renaming) = Renamed(Held(tree, renaming), p, n)
      BY <1>2, <2>1, <2>2, HeldRenamed
    <3> QED BY <2>2, <2>4, <2>5, <3>1 DEF Renamings
  <2>6. CASE renaming' = renaming \cup {<<p, n>>} /\ tree' = tree
    <3>1. Held(tree, renaming \cup {<<p, n>>}) = Renamed(Held(tree, renaming), p, n)
      BY <1>2, <2>1, <2>2, HeldAlso
    <3>2. <<p, n>>[1] = p /\ <<p, n>>[2] = n
      OBVIOUS
    <3>3. Targets(renaming') \subseteq Targets(renaming) \cup {n}
      BY <2>6, <3>2 DEF Targets
    <3>4. \A r \in renaming : Apart(r, <<p, n>>) /\ Apart(<<p, n>>, r)
      BY <2>1, <3>2 DEF Apart, Unconcerned, Unrelated
    <3>5. \A r, s \in renaming' : r # s => Apart(r, s)
      BY <2>2, <2>6, <3>4 DEF Renamings
    <3> QED BY <2>4, <2>6, <3>1, <3>3, <3>5
  <2> QED BY <1>1, <2>5, <2>6
<1>4. ASSUME ~lapse', NEW M \in SUBSET Targets(renaming')
      PROVE  Handled(Head(opsNet), Held(tree, renaming), Targets(renaming), Held(tree', renaming'), M)
  BY <1>1, <1>3, <1>4 DEF Handled
<1>5. ~lapse' => Held(tree, renaming) \in SUBSET Path /\ Targets(renaming) \in SUBSET Path
  BY <1>1, TreeReady
<1>6. Follows' /\ TreeOnItsWay'
  BY <1>1, <1>4, <1>5, ClientTakes, PhasesAre DEF FileInv, FileRests
<1>7. FileRests'
  BY <1>1, <1>3, PhasesAre DEF FileInv, FileRests
<1>8. FilePhases'
  BY <1>6, <1>7, PhasesAre, PTL
<1> QED BY <1>6, <1>8

\* The tabs are saved, and the renaming is done.
LEMMA SavedStep ==
    ASSUME FileInv, NEW r \in renaming, TabsSaved(r)
    PROVE  FilePhases' /\ Follows'
<1>1. /\ UNCHANGED <<disk, stated, scan, snapshot, setUp, opsNet, lapse>>
      /\ renaming' = renaming \ {r} /\ tree' = Renamed(tree, r[1], r[2])
  BY DEF TabsSaved, ClientStays, MoveEntries, Renamed
<1>2. FileRests' /\ TreeOnItsWay'
  BY <1>1, PhasesAre DEF FileInv, FileRests, TreeOnItsWay
<1>3. FilePhases'
  BY <1>2, PhasesAre, PTL
<1>4. Shared' = Shared /\ Awaited' = Awaited
  BY <1>1 DEF Shared, Awaited
<1>5. setUp = "ready"
  BY PhasesAre DEF FileInv, FileRests
<1>6. ASSUME ~lapse
      PROVE  Leads(opsNet, 0, Held(tree', renaming'), Targets(renaming'), Shared, Awaited)
  <2>1. Renamings(renaming) /\ tree \in SUBSET Path
    BY <1>5, <1>6, TreeReady
  <2>2. Held(tree', renaming') = Held(tree, renaming)
    BY <1>1, <2>1, HeldSaved
  <2>3. Targets(renaming') \subseteq Targets(renaming)
    BY <1>1 DEF Targets
  <2>4. Leads(opsNet, 0, Held(tree, renaming), Targets(renaming), Shared, Awaited)
    BY <1>5, <1>6 DEF FileInv, Follows
  <2> QED BY <2>2, <2>3, <2>4, LeadsLess
<1>7. Follows'
  BY <1>1, <1>4, <1>6 DEF FileInv, Follows
<1> QED BY <1>3, <1>7

\* The client's handlers are registered.
LEMMA RegisterStep ==
    ASSUME FileInv, RegisterFileOps
    PROVE  FilePhases' /\ Follows'
<1>1. /\ UNCHANGED <<disk, stated, scan, snapshot, opsNet, lapse, tree, renaming>>
      /\ setUp = "registering" /\ setUp' = "ready"
  BY DEF RegisterFileOps, ClientStays
<1>2. FileRests' /\ TreeOnItsWay'
  BY <1>1, PhasesAre DEF FileInv, FileRests, TreeOnItsWay
<1>3. FilePhases'
  BY <1>2, PhasesAre, PTL
<1>4. Shared' = Shared /\ Awaited' = Awaited
  BY <1>1 DEF Shared, Awaited
<1>5. Follows'
  BY <1>1, <1>4 DEF FileInv, Follows
<1> QED BY <1>3, <1>5

\* The invariant is inductive.
LEMMA FileStep == FileInv /\ [FileNext]_fileVars => FileInv'
<1> SUFFICES ASSUME FileInv, [FileNext]_fileVars PROVE FilePhases' /\ Follows'
  BY FileTypesStep DEF FileInv
<1>1. CASE FileNext
  BY <1>1, CreateStep, DeleteStep, RenameStep, OutsideStep, StatStep, OpenStep, ReadStep, SendTreeStep, PopulateStep,
     RegisterStep, ForgottenStep, CreatedStep, DeletedStep, RenamedStep, SavedStep DEF FileNext
<1>2. CASE UNCHANGED fileVars
  <2>1. UNCHANGED <<disk, stated, scan, snapshot, setUp, opsNet, lapse, tree, renaming>>
    BY <1>2 DEF fileVars
  <2>2. FileRests' /\ TreeOnItsWay'
    BY <2>1, PhasesAre DEF FileInv, FileRests, TreeOnItsWay
  <2>3. FilePhases'
    BY <2>2, PhasesAre, PTL
  <2>4. Shared' = Shared /\ Awaited' = Awaited
    BY <2>1 DEF Shared, Awaited
  <2>5. Follows'
    BY <2>1, <2>4 DEF FileInv, Follows
  <2> QED BY <2>3, <2>5
<1> QED BY <1>1, <1>2

\* When nothing is on the way and nothing is awaited, a tree that fits
\* shows the shared files.
LEMMA TreeThere == FileInv => TreeFollows
<1> SUFFICES ASSUME FileInv, setUp = "ready", stated = {}, opsNet = << >>, renaming = {}, ~lapse
             PROVE  Visible = disk \ Hidden
  BY DEF TreeFollows
<1>1. tree \in SUBSET Path
  BY TypesAre DEF FileInv, TypeList
<1>2. Held(tree, renaming) = tree /\ Awaited = {}
  BY HeldNone DEF Awaited
<1>3. Leads(<< >>, 0, tree, Targets(renaming), Shared, Awaited)
  BY <1>2 DEF FileInv, Follows
<1>4. Fits(tree, Shared, {}, {})
  BY <1>1, <1>2, <1>3, LeadsHome
<1>5. \A q \in Shared : q \in tree /\ Parents(q) \subseteq tree
  BY <1>4, SharedClosed DEF FileInv, Fits
<1>6. ASSUME NEW q \in tree, Parents(q) \subseteq tree PROVE q \in Shared
  <2>1. Hangs(q, << >>, tree)
    BY <1>1, <1>6, HangsOnRoot
  <2> QED BY <1>4, <2>1 DEF Fits
<1> QED BY <1>5, <1>6 DEF Visible, Shared

\* Whatever the host creates, deletes and renames, and however
\* fileOpsSync.ts spreads it over its awaits, the tree that the client
\* shows has the host's files when everything has arrived, but for the
\* histories with a lapse.
THEOREM TreeArrives == FileSpec => []TreeFollows
BY FileInvInit, FileStep, TreeThere, PTL DEF FileSpec

-------------------------------------------------------------------------------
(* Whiteboard *)

Value == {0} \cup Look

BoardMessage == [op : {"add", "update"}, id : Entity, look : Value] \cup [op : {"delete"}, id : Entity]
                  \cup [op : {"clear"}]

OutMessage == BoardMessage \cup [op : {"request"}]

NetMessage == BoardMessage \cup [op : {"full"}, ents : Board]

BoardTypes ==
    /\ web \in [Party -> Board] /\ store \in [Party -> Board]
    /\ panel \in [Party -> {"none", "hidden", "up"}]
    /\ webOut \in [Party -> Seq(OutMessage)]
    /\ webIn \in [Party -> Seq(NetMessage)] /\ boardNet \in [Party -> Seq(NetMessage)]
    /\ undoStack \in [Party -> Seq(Command)] /\ redoStack \in [Party -> Seq(Command)]
    /\ dragging \in [Party -> SUBSET Entity] /\ dragFrom \in [Party -> Value]
    /\ drawn \subseteq Entity /\ contested \subseteq Entity
    /\ boardOps \in 0 .. MaxBoardOp /\ linked \in BOOLEAN /\ rejoined \in BOOLEAN
    /\ muted \in SUBSET Party /\ \A s \in muted : panel[s] # "none"
    /\ \A s \in Party : panel[s] # "up" => web[s] = Blank /\ webIn[s] = << >> /\ dragging[s] = {}
    /\ \A s \in Party : \A i, j \in dragging[s] : i = j
    /\ ~linked => \A s \in Party : boardNet[s] = << >>

\* What a message makes of what the entity i looks like.
Becomes(m, i, x) ==
    IF ~Concerns(m, i) THEN x
    ELSE CASE m.op = "add" -> m.look
           [] m.op = "update" -> IF x = 0 THEN 0 ELSE m.look
           [] m.op = "full" -> m.ents[i]
           [] OTHER -> 0

\* The messages of q turn x into y.
Brings(q, i, x, y) ==
    \A xs \in [0 .. Len(q) -> Value] :
        /\ xs[0] = x
        /\ \A k \in 1 .. Len(q) : xs[k] = Becomes(q[k], i, xs[k - 1])
        => xs[Len(q)] = y

Silent(q, i) == \A k \in DOMAIN q : ~Concerns(q[k], i)

\* The partner, and the store of s itself, have yet to hear of what s does to i.
Working(s, i) == i \in dragging[s] \/ ~Silent(webOut[s], i)

AsksIn(q) == \E k \in DOMAIN q : q[k].op = "request"

Asks(s) == AsksIn(webOut[s])

\* A webview that asks has not been worked in.
AsksLast(q, i) ==
    \A j, k \in DOMAIN q : q[j].op = "request" /\ j < k => ~Concerns(q[k], i)

\* The partner has nothing to say about i, and s has been told everything.
HasTurn(s, i) ==
    /\ ~Working(Partner(s), i) /\ Silent(boardNet[Partner(s)], i)
    /\ Silent(webIn[s], i) /\ s \notin muted

\* One side works at a time, and not before it has been shown what there is.
InTurn(s, i) ==
    /\ Working(s, i) => HasTurn(s, i)
    /\ Silent(boardNet[s], i) \/ Silent(boardNet[Partner(s)], i)
    /\ Asks(s) => i \notin dragging[s]
    /\ AsksLast(webOut[s], i)

\* What is on the way makes the partner's store equal to that of s.
StoresMeet(s, i) ==
    linked /\ Silent(boardNet[Partner(s)], i) => Brings(boardNet[s], i, store[Partner(s)][i], store[s][i])

\* The store of s comes to be what its webview shows, but for what is being
\* dragged: y is what it was.
StoreFollows(s, i) ==
    \E y \in Value : /\ Brings(webOut[s], i, store[s][i], y)
                     /\ y = 0 <=> web[s][i] = 0
                     /\ i \notin dragging[s] => y = web[s][i]

\* That, or the webview comes to be what the store is.
WebviewMeets(s, i) ==
    panel[s] = "up" /\ ~Asks(s) =>
        IF Working(s, i) THEN StoreFollows(s, i)
        ELSE Brings(webIn[s], i, web[s][i], store[s][i])

EntityFits(i) == \A s \in Party : InTurn(s, i) /\ StoresMeet(s, i) /\ WebviewMeets(s, i)

BoardInv == BoardTypes /\ \A i \in Entity \ contested : EntityFits(i)

Message == BoardMessage \cup OutMessage \cup NetMessage

\* What the messages are.
LEMMA MessageKinds ==
    ASSUME NEW m \in Message
    PROVE  /\ m.op \in {"add", "update", "delete", "clear", "full", "request"}
           /\ m.op \in {"add", "update"} => m.id \in Entity /\ m.look \in Value
           /\ m.op = "delete" => m.id \in Entity
           /\ m.op = "full" => m.ents \in Board
BY DEF Message, BoardMessage, OutMessage, NetMessage

\* How the messages of webview, panel and connection relate.
LEMMA OutKinds ==
    /\ OutMessage \subseteq Message /\ NetMessage \subseteq Message
    /\ BoardMessage \subseteq OutMessage /\ BoardMessage \subseteq NetMessage
    /\ \A m \in OutMessage : m.op \in {"add", "update", "delete", "clear", "request"}
    /\ \A m \in OutMessage : m.op # "request" => m \in BoardMessage
    /\ \A m \in OutMessage : m.op = "request" <=> m = RequestFullSync
    /\ \A m \in NetMessage : m.op # "request"
BY DEF Message, BoardMessage, OutMessage, NetMessage, RequestFullSync

\* What the handlers post is a message.
LEMMA MessagesMade ==
    ASSUME NEW i \in Entity, NEW v \in Value
    PROVE  /\ Add(i, v) \in BoardMessage /\ Update(i, v) \in BoardMessage
           /\ Delete(i) \in BoardMessage /\ Clear \in BoardMessage
BY DEF BoardMessage, Add, Update, Delete, Clear

\* What a full synchronisation sends are messages.
LEMMA SyncMade == RequestFullSync \in OutMessage /\ \A b \in Board : FullSync(b) \in NetMessage
BY DEF OutMessage, NetMessage, RequestFullSync, FullSync

\* A message makes a look of a look.
LEMMA BecomesTyped ==
    ASSUME NEW m \in Message, NEW i \in Entity, NEW x \in Value
    PROVE  Becomes(m, i, x) \in Value
BY MessageKinds DEF Becomes, Board, Value

\* A message that is not about an entity leaves it alone.
LEMMA BecomesSilent ==
    ASSUME NEW m, NEW i, NEW x, ~Concerns(m, i)
    PROVE  Becomes(m, i, x) = x
BY DEF Becomes

\* What a message makes of a board, entity by entity.
LEMMA Applied ==
    ASSUME NEW m \in Message, m.op # "request", NEW b \in Board
    PROVE  /\ Apply(m, b) \in Board
           /\ \A i \in Entity : Apply(m, b)[i] = Becomes(m, i, b[i])
<1>1. CASE m.op = "add"
  <2>1. Apply(m, b) = [b EXCEPT ![m.id] = m.look] /\ m.id \in Entity /\ m.look \in Value
    BY <1>1, MessageKinds DEF Apply
  <2> QED BY <1>1, <2>1 DEF Becomes, Concerns, Board, Value
<1>2. CASE m.op = "update"
  <2>1. Apply(m, b) = (IF b[m.id] = 0 THEN b ELSE [b EXCEPT ![m.id] = m.look])
        /\ m.id \in Entity /\ m.look \in Value
    BY <1>2, MessageKinds DEF Apply
  <2> QED BY <1>2, <2>1 DEF Becomes, Concerns, Board, Value
<1>3. CASE m.op = "delete"
  <2>1. Apply(m, b) = [b EXCEPT ![m.id] = 0] /\ m.id \in Entity
    BY <1>3, MessageKinds DEF Apply
  <2> QED BY <1>3, <2>1 DEF Becomes, Concerns, Board
<1>4. CASE m.op = "clear"
  BY <1>4 DEF Apply, Becomes, Concerns, Board, Blank
<1>5. CASE m.op = "full"
  BY <1>5, MessageKinds DEF Apply, Becomes, Concerns
<1> QED BY <1>1, <1>2, <1>3, <1>4, <1>5, MessageKinds

\* There are two sides.
LEMMA OtherSide ==
    ASSUME NEW s \in Party
    PROVE  /\ Partner(s) \in Party /\ Partner(s) # s /\ Partner(Partner(s)) = s
           /\ \A t \in Party : t = s \/ t = Partner(s)
BY DEF Party, Partner

\* xs are the values that the messages of q give i, one after the other.
Passes(q, i, xs) ==
    /\ xs \in [0 .. Len(q) -> Value]
    /\ \A k \in 1 .. Len(q) : xs[k] = Becomes(q[k], i, xs[k - 1])

\* Brings, with the messages' handling as a chain of looks.
LEMMA BringsIs ==
    ASSUME NEW q, NEW i, NEW x, NEW y
    PROVE  Brings(q, i, x, y) <=> \A xs : Passes(q, i, xs) /\ xs[0] = x => xs[Len(q)] = y
BY DEF Brings, Passes

\* Messages that are not about an entity leave it alone, however many.
LEMMA ChainSilent ==
    ASSUME NEW q \in Seq(Message), NEW i \in Entity, NEW xs, Passes(q, i, xs), Silent(q, i)
    PROVE  xs[Len(q)] = xs[0]
<1> DEFINE S == {n \in Nat : n <= Len(q) => xs[n] = xs[0]}
<1>1. 0 \in S
  OBVIOUS
<1>2. ASSUME NEW n \in Nat, n \in S PROVE n + 1 \in S
  <2>1. CASE n + 1 <= Len(q)
    <3>1. n + 1 \in 1 .. Len(q) /\ n + 1 \in DOMAIN q
      BY <2>1
    <3>2. xs[n + 1] = Becomes(q[n + 1], i, xs[n]) /\ xs[n] = xs[0]
      BY <1>2, <2>1, <3>1 DEF Passes
    <3> QED BY <3>1, <3>2, BecomesSilent DEF Silent
  <2> QED BY <2>1
<1>3. Nat \subseteq S
  <2> HIDE DEF S
  <2> QED BY <1>1, <1>2, NatSets
<1>4. Len(q) \in Nat
  OBVIOUS
<1> QED BY <1>3, <1>4

\* Messages that do not concern i leave it as it is,
LEMMA BringsSilent ==
    ASSUME NEW q \in Seq(Message), NEW i \in Entity, Silent(q, i), NEW x
    PROVE  Brings(q, i, x, x)
BY ChainSilent, BringsIs

\* ... and bring nothing else.
LEMMA BringsSame ==
    ASSUME NEW q \in Seq(Message), NEW i \in Entity, Silent(q, i), NEW x \in Value, NEW y,
           Brings(q, i, x, y)
    PROVE  y = x
<1> DEFINE xs == [k \in 0 .. Len(q) |-> x]
<1>0. Len(q) \in Nat /\ 0 \in 0 .. Len(q) /\ Len(q) \in 0 .. Len(q)
  OBVIOUS
<1>1. xs \in [0 .. Len(q) -> Value] /\ xs[0] = x /\ xs[Len(q)] = x
  BY <1>0
<1>2. ASSUME NEW k \in 1 .. Len(q) PROVE xs[k] = Becomes(q[k], i, xs[k - 1])
  <2>1. k \in 0 .. Len(q) /\ k - 1 \in 0 .. Len(q) /\ k \in DOMAIN q
    BY <1>0
  <2>2. xs[k] = x /\ xs[k - 1] = x
    BY <2>1
  <2> QED BY <2>1, <2>2, BecomesSilent DEF Silent
<1> HIDE DEF xs
<1>3. Passes(q, i, xs)
  BY <1>1, <1>2 DEF Passes
<1> QED BY <1>1, <1>3, BringsIs

\* One queue after the other.
LEMMA BringsConcat ==
    ASSUME NEW p \in Seq(Message), NEW q \in Seq(Message), NEW i \in Entity, NEW x, NEW y, NEW z,
           Brings(p, i, x, y), Brings(q, i, y, z)
    PROVE  Brings(p \o q, i, x, z)
<1>0. /\ Len(p) \in Nat /\ Len(q) \in Nat /\ Len(p \o q) = Len(p) + Len(q)
      /\ \A k \in 1 .. Len(p) : (p \o q)[k] = p[k]
      /\ \A k \in 1 .. Len(q) : (p \o q)[Len(p) + k] = q[k]
  OBVIOUS
<1> SUFFICES ASSUME NEW xs, Passes(p \o q, i, xs), xs[0] = x PROVE xs[Len(p \o q)] = z
  BY BringsIs
<1>1. /\ xs \in [0 .. Len(p) + Len(q) -> Value]
      /\ \A k \in 1 .. Len(p) + Len(q) : xs[k] = Becomes((p \o q)[k], i, xs[k - 1])
  BY <1>0 DEF Passes
<1> DEFINE us == [k \in 0 .. Len(p) |-> xs[k]]
           vs == [k \in 0 .. Len(q) |-> xs[Len(p) + k]]
<1>2. us[0] = xs[0] /\ us[Len(p)] = xs[Len(p)] /\ vs[0] = xs[Len(p)] /\ vs[Len(q)] = xs[Len(p) + Len(q)]
  BY <1>0
<1>3. us \in [0 .. Len(p) -> Value] /\ vs \in [0 .. Len(q) -> Value]
  BY <1>0, <1>1
<1>4. ASSUME NEW k \in 1 .. Len(p) PROVE us[k] = Becomes(p[k], i, us[k - 1])
  <2>1. k \in 0 .. Len(p) /\ k - 1 \in 0 .. Len(p) /\ k \in 1 .. Len(p) + Len(q)
    BY <1>0
  <2>2. us[k] = xs[k] /\ us[k - 1] = xs[k - 1]
    BY <2>1
  <2> QED BY <1>0, <1>1, <2>1, <2>2
<1>5. ASSUME NEW k \in 1 .. Len(q) PROVE vs[k] = Becomes(q[k], i, vs[k - 1])
  <2>1. k \in 0 .. Len(q) /\ k - 1 \in 0 .. Len(q) /\ Len(p) + k \in 1 .. Len(p) + Len(q)
        /\ Len(p) + (k - 1) = Len(p) + k - 1
    BY <1>0
  <2>2. vs[k] = xs[Len(p) + k] /\ vs[k - 1] = xs[Len(p) + k - 1]
    BY <2>1
  <2> QED BY <1>0, <1>1, <2>1, <2>2
<1> HIDE DEF us, vs
<1>6. Passes(p, i, us) /\ Passes(q, i, vs)
  BY <1>3, <1>4, <1>5 DEF Passes
<1>7. us[Len(p)] = y
  BY <1>2, <1>6, BringsIs
<1>8. vs[Len(q)] = z
  BY <1>2, <1>6, <1>7, BringsIs
<1> QED BY <1>0, <1>2, <1>8

\* A queue of one message.
LEMMA BringsOne ==
    ASSUME NEW m, NEW i \in Entity, NEW x
    PROVE  Brings(<<m>>, i, x, Becomes(m, i, x))
<1> SUFFICES ASSUME NEW xs, Passes(<<m>>, i, xs), xs[0] = x
             PROVE  xs[Len(<<m>>)] = Becomes(m, i, x)
  BY BringsIs
<1>1. Len(<<m>>) = 1 /\ <<m>>[1] = m /\ 1 \in 1 .. Len(<<m>>)
  OBVIOUS
<1>2. xs[1] = Becomes(<<m>>[1], i, xs[1 - 1])
  BY <1>1 DEF Passes
<1> QED BY <1>1, <1>2

\* One message more.
LEMMA BringsAppend ==
    ASSUME NEW q \in Seq(Message), NEW m \in Message, NEW i \in Entity, NEW x, NEW y,
           Brings(q, i, x, y)
    PROVE  Brings(Append(q, m), i, x, Becomes(m, i, y))
<1>1. Append(q, m) = q \o <<m>> /\ <<m>> \in Seq(Message)
  OBVIOUS
<1>2. Brings(<<m>>, i, y, Becomes(m, i, y))
  BY BringsOne
<1>3. Brings(q \o <<m>>, i, x, Becomes(m, i, y))
  BY <1>1, <1>2, BringsConcat
<1> QED BY <1>1, <1>3

\* The first message taken.
LEMMA BringsTail ==
    ASSUME NEW q \in Seq(Message), q # << >>, NEW i \in Entity, NEW x \in Value, NEW y,
           Brings(q, i, x, y)
    PROVE  Brings(Tail(q), i, Becomes(Head(q), i, x), y)
<1>0. /\ Len(q) \in Nat \ {0} /\ Len(Tail(q)) = Len(q) - 1 /\ Head(q) = q[1] /\ q[1] \in Message
      /\ \A k \in 1 .. Len(q) - 1 : Tail(q)[k] = q[k + 1]
  OBVIOUS
<1> SUFFICES ASSUME NEW xs, Passes(Tail(q), i, xs), xs[0] = Becomes(Head(q), i, x)
             PROVE  xs[Len(Tail(q))] = y
  BY BringsIs
<1>1. /\ xs \in [0 .. Len(q) - 1 -> Value]
      /\ \A k \in 1 .. Len(q) - 1 : xs[k] = Becomes(q[k + 1], i, xs[k - 1])
  BY <1>0 DEF Passes
<1> DEFINE us == [k \in 0 .. Len(q) |-> IF k = 0 THEN x ELSE xs[k - 1]]
<1>2. us[0] = x /\ us[Len(q)] = xs[Len(q) - 1]
  BY <1>0
<1>3. us \in [0 .. Len(q) -> Value]
  BY <1>0, <1>1
<1>4. ASSUME NEW k \in 1 .. Len(q) PROVE us[k] = Becomes(q[k], i, us[k - 1])
  <2>1. us[k] = xs[k - 1]
    BY <1>0
  <2>2. CASE k = 1
    BY <1>0, <2>1, <2>2
  <2>3. CASE k # 1
    <3>1. k - 1 \in 1 .. Len(q) - 1 /\ k - 1 \in 0 .. Len(q) /\ k - 1 # 0
      BY <1>0, <2>3
    <3>2. us[k - 1] = xs[k - 1 - 1] /\ k - 1 + 1 = k
      BY <3>1
    <3> HIDE DEF us
    <3> QED BY <1>1, <2>1, <3>1, <3>2
  <2> QED BY <2>2, <2>3
<1> HIDE DEF us
<1>5. Passes(q, i, us)
  BY <1>3, <1>4 DEF Passes
<1> QED BY <1>0, <1>2, <1>5, BringsIs

\* Whether a queue is about an entity, after an append.
LEMMA SilentAppend ==
    ASSUME NEW S, NEW q \in Seq(S), NEW m \in S, NEW i
    PROVE  Silent(Append(q, m), i) <=> Silent(q, i) /\ ~Concerns(m, i)
<1>1. /\ Len(q) \in Nat /\ DOMAIN q = 1 .. Len(q) /\ DOMAIN Append(q, m) = 1 .. Len(q) + 1
      /\ \A k \in 1 .. Len(q) : Append(q, m)[k] = q[k]
      /\ Append(q, m)[Len(q) + 1] = m
  OBVIOUS
<1> QED BY <1>1 DEF Silent

\* The same of two queues.
LEMMA SilentConcat ==
    ASSUME NEW S, NEW p \in Seq(S), NEW q \in Seq(S), NEW i
    PROVE  Silent(p \o q, i) <=> Silent(p, i) /\ Silent(q, i)
<1>1. /\ Len(p) \in Nat /\ Len(q) \in Nat /\ DOMAIN p = 1 .. Len(p) /\ DOMAIN q = 1 .. Len(q)
      /\ DOMAIN (p \o q) = 1 .. Len(p) + Len(q)
      /\ \A k \in 1 .. Len(p) : (p \o q)[k] = p[k]
      /\ \A k \in 1 .. Len(q) : (p \o q)[Len(p) + k] = q[k]
  OBVIOUS
<1>2. ASSUME Silent(p \o q, i) PROVE Silent(p, i) /\ Silent(q, i)
  <2>1. \A k \in 1 .. Len(p) : k \in DOMAIN (p \o q)
    BY <1>1
  <2>2. \A k \in 1 .. Len(q) : Len(p) + k \in DOMAIN (p \o q)
    BY <1>1
  <2> QED BY <1>1, <1>2, <2>1, <2>2, Zenon DEF Silent
<1>3. ASSUME Silent(p, i), Silent(q, i) PROVE Silent(p \o q, i)
  <2> SUFFICES ASSUME NEW k \in 1 .. Len(p) + Len(q) PROVE ~Concerns((p \o q)[k], i)
    BY <1>1 DEF Silent
  <2>1. CASE k \in 1 .. Len(p)
    BY <1>1, <1>3, <2>1 DEF Silent
  <2>2. CASE k \notin 1 .. Len(p)
    <3>1. k - Len(p) \in 1 .. Len(q) /\ Len(p) + (k - Len(p)) = k
      BY <1>1, <2>2
    <3>2. (p \o q)[Len(p) + (k - Len(p))] = q[k - Len(p)]
      BY <1>1, <3>1
    <3> QED BY <1>1, <1>3, <3>1, <3>2 DEF Silent
  <2> QED BY <2>1, <2>2
<1> QED BY <1>2, <1>3

\* The same of a message taken.
LEMMA SilentTail ==
    ASSUME NEW S, NEW q \in Seq(S), q # << >>, NEW i
    PROVE  Silent(q, i) <=> ~Concerns(Head(q), i) /\ Silent(Tail(q), i)
<1>1. /\ Len(q) \in Nat \ {0} /\ DOMAIN q = 1 .. Len(q) /\ DOMAIN Tail(q) = 1 .. Len(q) - 1
      /\ Head(q) = q[1]
      /\ \A k \in 1 .. Len(q) - 1 : Tail(q)[k] = q[k + 1]
  OBVIOUS
<1>2. ASSUME Silent(q, i) PROVE ~Concerns(Head(q), i) /\ Silent(Tail(q), i)
  <2>1. 1 \in DOMAIN q /\ \A k \in 1 .. Len(q) - 1 : k + 1 \in DOMAIN q
    BY <1>1
  <2> QED BY <1>1, <1>2, <2>1, Zenon DEF Silent
<1>3. ASSUME ~Concerns(Head(q), i), Silent(Tail(q), i) PROVE Silent(q, i)
  <2> SUFFICES ASSUME NEW k \in 1 .. Len(q) PROVE ~Concerns(q[k], i)
    BY <1>1 DEF Silent
  <2>1. CASE k = 1
    BY <1>1, <1>3, <2>1
  <2>2. CASE k # 1
    <3>1. k - 1 \in 1 .. Len(q) - 1 /\ (k - 1) + 1 = k
      BY <1>1, <2>2
    <3>2. Tail(q)[k - 1] = q[k]
      BY <1>1, <3>1
    <3> QED BY <1>1, <1>3, <3>1, <3>2 DEF Silent
  <2> QED BY <2>1, <2>2
<1> QED BY <1>2, <1>3

\* The messages ms make w of what v is in the webview, and of whatever the
\* store comes to have: it differs from v at most while the entity is dragged.
Sets(ms, i, v, w) == \A y \in Value : (y = 0 <=> v = 0) => Brings(ms, i, y, w)

\* What the commands on the undo stacks are.
LEMMA CommandKinds ==
    ASSUME NEW cmd \in Command
    PROVE  /\ cmd.type \in {"add", "delete", "update", "clear"}
           /\ cmd.type # "clear" => cmd.id \in Entity /\ cmd.before \in Value /\ cmd.after \in Value
           /\ cmd.type = "clear" => cmd.ents \in Board
BY DEF Command, Value

\* A board's ids in the order in which they are sent.
LEMMA IdsAre ==
    ASSUME NEW b \in Board
    PROVE  IdsOf(b) \in Seq(Entity) /\ {IdsOf(b)[k] : k \in DOMAIN IdsOf(b)} = {i \in Entity : b[i] # 0}
<1> DEFINE X == {i \in Entity : b[i] # 0}
           n == Cardinality(X)
<1>1. IsFiniteSet(X)
  BY BoardAssumption, FS_Subset
<1>2. n \in Nat /\ ExistsBijection(1 .. n, X)
  <2> HIDE DEF X
  <2> QED BY <1>1, FS_CardinalityType
<1>3. PICK q \in [1 .. n -> X] : \A x \in X : \E k \in 1 .. n : q[k] = x
  <2> HIDE DEF X, n
  <2> QED BY <1>2 DEF ExistsBijection, Bijection, Surjection, Injection
<1>4. q \in [1 .. n -> Entity] /\ {q[k] : k \in DOMAIN q} = X
  <2>1. X \subseteq Entity
    OBVIOUS
  <2> HIDE DEF X, n
  <2> QED BY <1>3, <2>1
<1>5. /\ IdsOf(b) \in [1 .. n -> Entity]
      /\ {IdsOf(b)[k] : k \in DOMAIN IdsOf(b)} = X
  BY <1>4 DEF IdsOf
<1>6. IdsOf(b) \in Seq(Entity)
  <2> HIDE DEF X, n
  <2> QED BY <1>2, <1>5
<1> QED BY <1>5, <1>6

\* The entities of a cleared board come back.
LEMMA AddsBring ==
    ASSUME NEW b \in Board, NEW ids \in Seq(Entity), NEW i \in Entity, NEW ms,
           ms = [k \in DOMAIN ids |-> Add(ids[k], b[ids[k]])],
           NEW k0 \in DOMAIN ids, ids[k0] = i, NEW x
    PROVE  Brings(ms, i, x, b[i])
<1>0. /\ Len(ids) \in Nat /\ DOMAIN ids = 1 .. Len(ids) /\ Len(ms) = Len(ids)
      /\ \A k \in 1 .. Len(ids) : ms[k] = Add(ids[k], b[ids[k]])
  OBVIOUS
<1> SUFFICES ASSUME NEW xs, Passes(ms, i, xs) PROVE xs[Len(ms)] = b[i]
  BY BringsIs
<1>1. \A k \in 1 .. Len(ids) : xs[k] = IF ids[k] = i THEN b[i] ELSE xs[k - 1]
  <2> SUFFICES ASSUME NEW k \in 1 .. Len(ids)
               PROVE  xs[k] = IF ids[k] = i THEN b[i] ELSE xs[k - 1]
    OBVIOUS
  <2>1. xs[k] = Becomes(Add(ids[k], b[ids[k]]), i, xs[k - 1])
    BY <1>0 DEF Passes
  <2> QED BY <2>1 DEF Becomes, Concerns, Add
<1> DEFINE S == {n \in Nat : k0 <= n /\ n <= Len(ids) => xs[n] = b[i]}
<1>2. 0 \in S
  BY <1>0
<1>3. ASSUME NEW n \in Nat, n \in S PROVE n + 1 \in S
  <2> SUFFICES ASSUME k0 <= n + 1, n + 1 <= Len(ids) PROVE xs[n + 1] = b[i]
    OBVIOUS
  <2>1. n + 1 \in 1 .. Len(ids) /\ (n + 1) - 1 = n
    BY <1>0
  <2>2. CASE k0 = n + 1
    BY <1>1, <2>1, <2>2
  <2>3. CASE k0 # n + 1
    <3>1. xs[n] = b[i]
      BY <1>0, <1>3, <2>3
    <3> QED BY <1>1, <2>1, <3>1
  <2> QED BY <2>2, <2>3
<1>4. Nat \subseteq S
  <2> HIDE DEF S
  <2> QED BY <1>2, <1>3, NatSets
<1> QED BY <1>0, <1>4

\* executeCommand() posts messages that make of every entity what it becomes in
\* the webview; the ids of the command are the ones they are about.
LEMMA Executed ==
    ASSUME BoardTypes, NEW s \in Party, NEW cmd \in Command, NEW reverse \in BOOLEAN,
           ExecuteCommand(s, cmd, reverse)
    PROVE  \E ms \in Seq(BoardMessage), b \in Board :
               /\ Post(s, ms, b)
               /\ \A i \in Entity :
                   \/ Silent(ms, i) /\ b[i] = web[s][i]
                   \/ i \in Touched(cmd) /\ Sets(ms, i, web[s][i], b[i])
<1>0. web[s] \in Board /\ web \in [Party -> Board] /\ webOut \in [Party -> Seq(OutMessage)]
  BY DEF BoardTypes
<1>1. CASE cmd.type = "clear" /\ reverse
  <2> DEFINE ids == IdsOf(cmd.ents)
             ms == [k \in DOMAIN ids |-> Add(ids[k], cmd.ents[ids[k]])]
             b == [i \in Entity |-> IF cmd.ents[i] # 0 THEN cmd.ents[i] ELSE web[s][i]]
  <2>0. cmd.ents \in Board
    BY <1>1, CommandKinds
  <2>1. ids \in Seq(Entity) /\ {ids[k] : k \in DOMAIN ids} = {i \in Entity : cmd.ents[i] # 0}
    BY <2>0, IdsAre
  <2>2. Post(s, ms, b)
    BY <1>1 DEF ExecuteCommand
  <2>3. b \in Board
    BY <1>0, <2>0 DEF Board
  <2> HIDE DEF ids, b
  <2>4. ms \in Seq(BoardMessage)
    <3>1. \A k \in DOMAIN ids : ids[k] \in Entity /\ cmd.ents[ids[k]] \in Value
      BY <2>0, <2>1 DEF Board, Value
    <3>2. \A k \in DOMAIN ids : ms[k] \in BoardMessage
      BY <3>1, MessagesMade
    <3>3. Len(ids) \in Nat /\ DOMAIN ids = 1 .. Len(ids)
      BY <2>1
    <3> QED BY <3>2, <3>3
  <2>5. ASSUME NEW i \in Entity
        PROVE  \/ Silent(ms, i) /\ b[i] = web[s][i]
               \/ i \in Touched(cmd) /\ Sets(ms, i, web[s][i], b[i])
    <3>1. CASE cmd.ents[i] = 0
      <4>1. \A k \in DOMAIN ids : ids[k] # i
        BY <2>1, <3>1
      <4>2. Silent(ms, i)
        BY <4>1 DEF Silent, Concerns, Add
      <4> QED BY <3>1, <4>2 DEF b
    <3>2. CASE cmd.ents[i] # 0
      <4>1. PICK k0 \in DOMAIN ids : ids[k0] = i
        BY <2>1, <3>2
      <4>2. \A x : Brings(ms, i, x, cmd.ents[i])
        <5> SUFFICES ASSUME NEW x PROVE Brings(ms, i, x, cmd.ents[i])
          OBVIOUS
        <5>1. ms = [k \in DOMAIN ids |-> Add(ids[k], cmd.ents[ids[k]])]
          OBVIOUS
        <5> HIDE DEF ms
        <5> QED BY <2>0, <2>1, <4>1, <5>1, AddsBring
      <4>3. b[i] = cmd.ents[i] /\ i \in Touched(cmd)
        BY <1>1, <3>2 DEF b, Touched
      <4> QED BY <4>2, <4>3 DEF Sets
    <3> QED BY <3>1, <3>2
  <2> HIDE DEF ms
  <2> QED BY <2>2, <2>3, <2>4, <2>5
<1>2. CASE cmd.type = "clear" /\ ~reverse
  <2>1. Post(s, <<Clear>>, Blank)
    BY <1>2 DEF ExecuteCommand
  <2>2. <<Clear>> \in Seq(BoardMessage) /\ Blank \in Board
    BY DEF BoardMessage, Clear, Blank, Board
  <2>3. ASSUME NEW i \in Entity PROVE i \in Touched(cmd) /\ Sets(<<Clear>>, i, web[s][i], Blank[i])
    <3>1. \A y : Becomes(Clear, i, y) = Blank[i]
      BY DEF Becomes, Concerns, Clear, Blank
    <3> QED BY <1>2, <3>1, BringsOne DEF Sets, Touched
  <2> QED BY <2>1, <2>2, <2>3
<1>3. CASE cmd.type # "clear"
  <2> DEFINE look == IF reverse THEN cmd.before ELSE cmd.after
             m == IF look = 0 THEN Delete(cmd.id)
                    ELSE IF cmd.type = "update" THEN Update(cmd.id, look) ELSE Add(cmd.id, look)
  <2>0. /\ cmd.id \in Entity /\ look \in Value /\ Touched(cmd) = {cmd.id}
        /\ cmd.type \in {"add", "delete", "update"}
    BY <1>3, CommandKinds DEF Touched
  <2>1. m \in BoardMessage /\ m \in Message /\ m.op # "request"
    BY <2>0, MessagesMade, OutKinds DEF Add, Update, Delete
  <2>2. CASE cmd.type = "update" /\ web[s][cmd.id] = 0
    <3>1. UNCHANGED <<web, webOut>>
      BY <1>3, <2>2 DEF ExecuteCommand
    <3>2. Post(s, << >>, web[s]) /\ << >> \in Seq(BoardMessage)
      <4>1. webOut[s] \o << >> = webOut[s]
        BY <1>0
      <4> QED BY <1>0, <3>1, <4>1 DEF Post
    <3>3. \A i \in Entity : Silent(<< >>, i)
      BY DEF Silent
    <3> QED BY <1>0, <3>2, <3>3
  <2>3. CASE ~(cmd.type = "update" /\ web[s][cmd.id] = 0)
    <3>1. Post(s, <<m>>, Apply(m, web[s]))
      BY <1>3, <2>3 DEF ExecuteCommand
    <3>2. /\ Apply(m, web[s]) \in Board
          /\ \A i \in Entity : Apply(m, web[s])[i] = Becomes(m, i, web[s][i])
      BY <1>0, <2>1, Applied
    <3>3. \A i \in Entity : Concerns(m, i) <=> i = cmd.id
      BY DEF Concerns, Add, Update, Delete
    <3>4. \A y : (y = 0 <=> web[s][cmd.id] = 0) => Becomes(m, cmd.id, y) = Becomes(m, cmd.id, web[s][cmd.id])
      BY <2>0, <2>3, <3>3 DEF Becomes, Add, Update, Delete
    <3> HIDE DEF m
    <3>5. ASSUME NEW i \in Entity, i # cmd.id
          PROVE  Silent(<<m>>, i) /\ Apply(m, web[s])[i] = web[s][i]
      <4>1. Apply(m, web[s])[i] = web[s][i]
        BY <3>2, <3>3, <3>5, BecomesSilent
      <4> QED BY <3>3, <3>5, <4>1 DEF Silent
    <3>6. Sets(<<m>>, cmd.id, web[s][cmd.id], Apply(m, web[s])[cmd.id])
      BY <2>0, <3>2, <3>4, BringsOne DEF Sets
    <3>7. <<m>> \in Seq(BoardMessage)
      BY <2>1
    <3> QED BY <2>0, <3>1, <3>2, <3>5, <3>6, <3>7
  <2> QED BY <2>2, <2>3
<1> QED BY <1>1, <1>2, <1>3

\* The types at the start.
LEMMA BoardTypesInit == BoardInit => BoardTypes
<1> SUFFICES ASSUME BoardInit PROVE BoardTypes
  OBVIOUS
<1>1. Blank \in Board /\ 0 \in 0 .. MaxBoardOp /\ 0 \in Value
  BY BoardAssumption DEF Blank, Board, Value
<1> HIDE DEF Blank
<1>2. web \in [Party -> Board] /\ store \in [Party -> Board] /\ dragFrom \in [Party -> Value]
  BY <1>1 DEF BoardInit
<1>3. /\ webOut \in [Party -> Seq(OutMessage)]
      /\ webIn \in [Party -> Seq(NetMessage)] /\ boardNet \in [Party -> Seq(NetMessage)]
      /\ undoStack \in [Party -> Seq(Command)] /\ redoStack \in [Party -> Seq(Command)]
  BY DEF BoardInit
<1>4. /\ panel \in [Party -> {"none", "hidden", "up"}] /\ dragging \in [Party -> SUBSET Entity]
      /\ \A s \in Party : \A i, j \in dragging[s] : i = j
  BY DEF BoardInit
<1>5. \A s \in Party : web[s] = Blank /\ webIn[s] = << >> /\ dragging[s] = {}
  BY DEF BoardInit
<1> QED BY <1>1, <1>2, <1>3, <1>4, <1>5 DEF BoardInit, BoardTypes

\* The part of the types that the queues are in, the one of the user's side,
\* and what relates them.
QueueTypes ==
    /\ store \in [Party -> Board] /\ panel \in [Party -> {"none", "hidden", "up"}]
    /\ webOut \in [Party -> Seq(OutMessage)]
    /\ webIn \in [Party -> Seq(NetMessage)] /\ boardNet \in [Party -> Seq(NetMessage)]

UserTypes ==
    /\ web \in [Party -> Board]
    /\ undoStack \in [Party -> Seq(Command)] /\ redoStack \in [Party -> Seq(Command)]
    /\ dragging \in [Party -> SUBSET Entity] /\ dragFrom \in [Party -> Value]
    /\ drawn \subseteq Entity /\ contested \subseteq Entity
    /\ boardOps \in 0 .. MaxBoardOp
    /\ \A s \in Party : \A i, j \in dragging[s] : i = j

PanelTypes ==
    /\ linked \in BOOLEAN /\ rejoined \in BOOLEAN
    /\ muted \in SUBSET Party /\ \A s \in muted : panel[s] # "none"
    /\ \A s \in Party : panel[s] # "up" => web[s] = Blank /\ webIn[s] = << >> /\ dragging[s] = {}
    /\ ~linked => \A s \in Party : boardNet[s] = << >>

\* The types in three parts.
LEMMA TypeParts == BoardTypes <=> QueueTypes /\ UserTypes /\ PanelTypes
BY DEF BoardTypes, QueueTypes, UserTypes, PanelTypes

\* A command pushed keeps the stacks' types.
LEMMA Stacked ==
    ASSUME BoardTypes, NEW s \in Party, NEW cmd \in Command, PushUndo(s, cmd)
    PROVE  undoStack' \in [Party -> Seq(Command)] /\ redoStack' \in [Party -> Seq(Command)]
<1>0. undoStack \in [Party -> Seq(Command)] /\ redoStack \in [Party -> Seq(Command)]
  BY DEF BoardTypes
<1> DEFINE q == Append(undoStack[s], cmd)
<1>1. q \in Seq(Command) /\ q # << >>
  BY <1>0
<1> DEFINE r == IF Len(q) > MaxHistory THEN Tail(q) ELSE q
<1>2. undoStack' = [undoStack EXCEPT ![s] = r] /\ redoStack' = [redoStack EXCEPT ![s] = << >>]
  BY DEF PushUndo
<1> HIDE DEF q
<1>3. r \in Seq(Command)
  BY <1>1
<1> HIDE DEF r
<1> QED BY <1>0, <1>2, <1>3

\* A command taken from its stack is one.
LEMMA Unstacked ==
    ASSUME NEW q \in Seq(Command), q # << >>
    PROVE  Last(q) \in Command /\ Front(q) \in Seq(Command)
<1>1. Len(q) \in Nat \ {0} /\ Len(q) \in DOMAIN q
  OBVIOUS
<1>2. Last(q) = q[Len(q)]
  BY DEF Last
<1>3. Front(q) = SubSeq(q, 1, Len(q) - 1)
  BY DEF Front
<1> QED BY <1>1, <1>2, <1>3

\* A handler of the webview that posts ms.
LEMMA PostedTypes ==
    ASSUME BoardTypes, NEW s \in Party, panel[s] = "up",
           NEW ms \in Seq(BoardMessage), NEW b \in Board, Post(s, ms, b),
           NEW ids \in SUBSET Entity, UserDraws(s, ids),
           undoStack' \in [Party -> Seq(Command)], redoStack' \in [Party -> Seq(Command)],
           KeepDrag, drawn' \subseteq Entity
    PROVE  BoardTypes'
<1>1. QueueTypes'
  <2>1. webOut[s] \o ms \in Seq(OutMessage) /\ webOut \in [Party -> Seq(OutMessage)]
    BY OutKinds DEF BoardTypes
  <2>2. webOut' \in [Party -> Seq(OutMessage)]
    BY <2>1 DEF Post
  <2> QED BY <2>2 DEF BoardTypes, QueueTypes, UserDraws
<1>2. UserTypes'
  <2>1. web' \in [Party -> Board]
    BY DEF Post, BoardTypes
  <2>2. boardOps' \in 0 .. MaxBoardOp
    BY BoardAssumption DEF UserDraws, BoardTypes
  <2> QED BY <2>1, <2>2 DEF UserTypes, BoardTypes, UserDraws, KeepDrag
<1>3. PanelTypes'
  <2>1. \A t \in Party : panel[t] # "up" => web'[t] = web[t]
    BY DEF Post, BoardTypes
  <2> QED BY <2>1 DEF PanelTypes, BoardTypes, UserDraws, KeepDrag, boardLink
<1> QED BY <1>1, <1>2, <1>3, TypeParts, PTL

\* Every step keeps the types.
LEMMA BoardTypesStep == BoardTypes /\ [BoardNext]_boardVars => BoardTypes'
<1> SUFFICES ASSUME BoardTypes, [BoardNext]_boardVars PROVE BoardTypes'
  OBVIOUS
<1>0. QueueTypes /\ UserTypes /\ PanelTypes
  BY TypeParts
<1>t. ASSUME QueueTypes', UserTypes', PanelTypes' PROVE BoardTypes'
  BY <1>t, TypeParts, PTL
<1>1. ASSUME NEW s \in Party, NEW i \in Entity, Draw(s, i) PROVE BoardTypes'
  <2> DEFINE cmd == [type |-> "add", id |-> i, before |-> 0, after |-> 1]
             b == [web[s] EXCEPT ![i] = 1]
  <2>1. cmd \in Command /\ 1 \in Value
    BY DEF Command, Look, Value
  <2>2. b \in Board
    BY <1>0, <2>1 DEF UserTypes, Board, Value
  <2>3. <<Add(i, 1)>> \in Seq(BoardMessage)
    BY <2>1, MessagesMade
  <2> HIDE DEF cmd, b
  <2>4. PushUndo(s, cmd) /\ Post(s, <<Add(i, 1)>>, b) /\ UserDraws(s, {i}) /\ KeepDrag
        /\ drawn' \subseteq Entity /\ panel[s] = "up"
    BY <1>0, <1>1 DEF Draw, cmd, b, UserDraws, UserTypes
  <2> QED BY <2>1, <2>2, <2>3, <2>4, Stacked, PostedTypes
<1>2. ASSUME NEW s \in Party, NEW i \in Entity, DeleteEntity(s, i) PROVE BoardTypes'
  <2> DEFINE cmd == [type |-> "delete", id |-> i, before |-> web[s][i], after |-> 0]
             b == [web[s] EXCEPT ![i] = 0]
  <2>1. cmd \in Command /\ b \in Board
    BY <1>0 DEF Command, Look, UserTypes, Board
  <2>3. <<Delete(i)>> \in Seq(BoardMessage)
    BY MessagesMade DEF Value
  <2> HIDE DEF cmd, b
  <2>4. PushUndo(s, cmd) /\ Post(s, <<Delete(i)>>, b) /\ UserDraws(s, {i}) /\ KeepDrag
        /\ drawn' \subseteq Entity /\ panel[s] = "up"
    BY <1>0, <1>2 DEF DeleteEntity, cmd, b, UserDraws, UserTypes
  <2> QED BY <2>1, <2>3, <2>4, Stacked, PostedTypes
<1>3. ASSUME NEW s \in Party, NEW i \in Entity, NEW v \in Look, Drag(s, i, v) PROVE BoardTypes'
  <2>1. QueueTypes'
    BY <1>0, <1>3 DEF QueueTypes, Drag, UserDraws
  <2>2. UserTypes'
    <3>1. web' \in [Party -> Board]
      BY <1>0, <1>3 DEF UserTypes, Drag, Board
    <3>2. dragging' \in [Party -> SUBSET Entity] /\ dragFrom' \in [Party -> Value]
      BY <1>0, <1>3 DEF UserTypes, Drag, Board, Value
    <3>3. boardOps' \in 0 .. MaxBoardOp
      BY <1>0, <1>3, BoardAssumption DEF UserTypes, Drag, UserDraws
    <3>4. \A t \in Party : \A j, k \in dragging'[t] : j = k
      BY <1>0, <1>3 DEF UserTypes, Drag
    <3> QED BY <1>0, <1>3, <3>1, <3>2, <3>3, <3>4 DEF UserTypes, Drag, UserDraws, KeepStacks
  <2>3. PanelTypes'
    <3>1. panel[s] = "up" /\ \A t \in Party : t # s => web'[t] = web[t] /\ dragging'[t] = dragging[t]
      BY <1>0, <1>3 DEF Drag, UserDraws, UserTypes
    <3> QED BY <1>0, <1>3, <3>1 DEF PanelTypes, Drag, UserDraws, boardLink
  <2> QED BY <1>t, <2>1, <2>2, <2>3
<1>4. ASSUME NEW s \in Party, FinishDrag(s) PROVE BoardTypes'
  <2>1. PICK i \in dragging[s] :
          IF web[s][i] = 0
            THEN KeepStacks /\ UNCHANGED webOut
            ELSE /\ IF web[s][i] = dragFrom[s] THEN KeepStacks
                    ELSE PushUndo(s, [type |-> "update", id |-> i, before |-> dragFrom[s],
                                      after |-> web[s][i]])
                 /\ webOut' = [webOut EXCEPT ![s] = Append(@, Update(i, web[s][i]))]
    BY <1>4 DEF FinishDrag
  <2>2. i \in Entity /\ web[s][i] \in Value
    BY <1>0, <2>1 DEF UserTypes, Board, Value
  <2>3. [type |-> "update", id |-> i, before |-> dragFrom[s], after |-> web[s][i]] \in Command
    BY <1>0, <2>2 DEF Command, UserTypes, Value
  <2>4. undoStack' \in [Party -> Seq(Command)] /\ redoStack' \in [Party -> Seq(Command)]
    BY <1>0, <2>1, <2>3, Stacked DEF KeepStacks, UserTypes
  <2>5. Update(i, web[s][i]) \in OutMessage
    BY <2>2, MessagesMade, OutKinds
  <2>6. webOut' \in [Party -> Seq(OutMessage)]
    <3> DEFINE m == Update(i, web[s][i])
    <3>1. m \in OutMessage /\ (webOut' = [webOut EXCEPT ![s] = Append(@, m)] \/ webOut' = webOut)
      BY <2>1, <2>5
    <3> HIDE DEF m
    <3>2. CASE webOut' = webOut
      BY <1>0, <3>2 DEF QueueTypes
    <3>3. CASE webOut' = [webOut EXCEPT ![s] = Append(@, m)]
      BY <1>0, <3>1, <3>3 DEF QueueTypes
    <3> QED BY <3>1, <3>2, <3>3
  <2>7. QueueTypes'
    BY <1>0, <1>4, <2>6 DEF QueueTypes, FinishDrag
  <2>8. UserTypes'
    <3>1. dragging' = [dragging EXCEPT ![s] = {}] /\ dragFrom' = [dragFrom EXCEPT ![s] = 0]
          /\ UNCHANGED <<web, drawn, boardOps, contested>>
      BY <1>4 DEF FinishDrag
    <3> QED BY <1>0, <2>4, <3>1 DEF UserTypes, Value
  <2>9. PanelTypes'
    <3>1. dragging' = [dragging EXCEPT ![s] = {}]
          /\ UNCHANGED <<web, panel, webIn, boardNet, boardLink>>
      BY <1>4 DEF FinishDrag
    <3>2. \A t \in Party : dragging[t] = {} => dragging'[t] = {}
      BY <1>0, <3>1 DEF UserTypes
    <3> QED BY <1>0, <3>1, <3>2 DEF PanelTypes, boardLink
  <2> QED BY <1>t, <2>7, <2>8, <2>9
<1>5. ASSUME NEW s \in Party, ClearBoard(s) PROVE BoardTypes'
  <2> DEFINE cmd == [type |-> "clear", ents |-> web[s]]
  <2>1. cmd \in Command /\ Blank \in Board
    BY <1>0 DEF Command, UserTypes, Blank, Board
  <2>2. <<Clear>> \in Seq(BoardMessage)
    BY DEF BoardMessage, Clear
  <2> HIDE DEF cmd
  <2>3. /\ KeepStacks \/ PushUndo(s, cmd)
        /\ Post(s, <<Clear>>, Blank) /\ UserDraws(s, Entity) /\ KeepDrag /\ UNCHANGED drawn
        /\ panel[s] = "up"
    BY <1>5 DEF ClearBoard, cmd, UserDraws
  <2>4. undoStack' \in [Party -> Seq(Command)] /\ redoStack' \in [Party -> Seq(Command)]
    BY <1>0, <2>1, <2>3, Stacked DEF KeepStacks, UserTypes
  <2>5. drawn' \subseteq Entity
    BY <1>0, <2>3 DEF UserTypes
  <2> QED BY <2>1, <2>2, <2>3, <2>4, <2>5, PostedTypes
<1>6. ASSUME NEW s \in Party, Undo(s) \/ Redo(s) PROVE BoardTypes'
  <2>0. undoStack[s] \in Seq(Command) /\ redoStack[s] \in Seq(Command)
        /\ undoStack \in [Party -> Seq(Command)] /\ redoStack \in [Party -> Seq(Command)]
    BY <1>0 DEF UserTypes
  <2>1. /\ KeepDrag /\ UNCHANGED drawn /\ panel[s] = "up"
        /\ \E cmd \in Command, reverse \in BOOLEAN :
             UserDraws(s, Touched(cmd)) /\ ExecuteCommand(s, cmd, reverse)
        /\ undoStack' \in [Party -> Seq(Command)] /\ redoStack' \in [Party -> Seq(Command)]
    <3>1. CASE Undo(s)
      <4> DEFINE cmd == Last(undoStack[s])
      <4>1. cmd \in Command /\ Front(undoStack[s]) \in Seq(Command)
        BY <2>0, <3>1, Unstacked DEF Undo
      <4>2. /\ UserDraws(s, Touched(cmd)) /\ ExecuteCommand(s, cmd, TRUE)
            /\ undoStack' = [undoStack EXCEPT ![s] = Front(@)]
            /\ redoStack' = [redoStack EXCEPT ![s] = Append(@, cmd)]
            /\ KeepDrag /\ UNCHANGED drawn
        BY <3>1 DEF Undo
      <4> HIDE DEF cmd
      <4>3. undoStack' \in [Party -> Seq(Command)] /\ redoStack' \in [Party -> Seq(Command)]
        BY <2>0, <4>1, <4>2
      <4> QED BY <4>1, <4>2, <4>3 DEF UserDraws
    <3>2. CASE Redo(s)
      <4> DEFINE cmd == Last(redoStack[s])
      <4>1. cmd \in Command /\ Front(redoStack[s]) \in Seq(Command)
        BY <2>0, <3>2, Unstacked DEF Redo
      <4>2. /\ UserDraws(s, Touched(cmd)) /\ ExecuteCommand(s, cmd, FALSE)
            /\ redoStack' = [redoStack EXCEPT ![s] = Front(@)]
            /\ undoStack' = [undoStack EXCEPT ![s] = Append(@, cmd)]
            /\ KeepDrag /\ UNCHANGED drawn
        BY <3>2 DEF Redo
      <4> HIDE DEF cmd
      <4>3. undoStack' \in [Party -> Seq(Command)] /\ redoStack' \in [Party -> Seq(Command)]
        BY <2>0, <4>1, <4>2
      <4> QED BY <4>1, <4>2, <4>3 DEF UserDraws
    <3> QED BY <1>6, <3>1, <3>2
  <2>2. PICK cmd \in Command, reverse \in BOOLEAN :
          UserDraws(s, Touched(cmd)) /\ ExecuteCommand(s, cmd, reverse)
    BY <2>1
  <2>3. PICK ms \in Seq(BoardMessage), b \in Board : Post(s, ms, b)
    BY <2>2, Executed
  <2>4. Touched(cmd) \in SUBSET Entity
    BY CommandKinds DEF Touched
  <2>5. drawn' \subseteq Entity
    BY <1>0, <2>1 DEF UserTypes
  <2> QED BY <2>1, <2>2, <2>3, <2>4, <2>5, PostedTypes
<1>7. ASSUME NEW s \in Party, WebviewReceives(s) PROVE BoardTypes'
  <2>0. webIn[s] \in Seq(NetMessage) /\ webIn[s] # << >> /\ webIn \in [Party -> Seq(NetMessage)]
    BY <1>0, <1>7 DEF QueueTypes, WebviewReceives
  <2>1. Head(webIn[s]) \in NetMessage /\ Tail(webIn[s]) \in Seq(NetMessage)
    BY <2>0
  <2>2. Apply(Head(webIn[s]), web[s]) \in Board
    BY <1>0, <2>1, Applied, OutKinds DEF UserTypes
  <2>3. web' = [web EXCEPT ![s] = Apply(Head(webIn[s]), web[s])] /\ webIn' = [webIn EXCEPT ![s] = Tail(webIn[s])]
        /\ UNCHANGED <<store, panel, webOut, boardNet, drawn, boardOps, boardLink, contested,
                       undoStack, redoStack, dragging, dragFrom>>
    BY <1>7 DEF WebviewReceives, KeepStacks, KeepDrag
  <2>4. QueueTypes'
    BY <1>0, <2>1, <2>3 DEF QueueTypes
  <2>5. UserTypes'
    <3>1. web' \in [Party -> Board]
      BY <1>0, <2>2, <2>3 DEF UserTypes
    <3> QED BY <1>0, <2>3, <3>1 DEF UserTypes
  <2>6. PanelTypes'
    <3>1. panel[s] = "up" /\ \A t \in Party : t # s => web'[t] = web[t] /\ webIn'[t] = webIn[t]
      BY <1>0, <2>0, <2>3 DEF UserTypes, QueueTypes, PanelTypes
    <3> QED BY <1>0, <2>3, <3>1 DEF PanelTypes, boardLink
  <2> QED BY <1>t, <2>4, <2>5, <2>6
<1>8. ASSUME NEW s \in Party, OpenWhiteboard(s) PROVE BoardTypes'
  <2>1. /\ panel' = [panel EXCEPT ![s] = "up"] /\ webOut' = [webOut EXCEPT ![s] = Append(@, RequestFullSync)]
        /\ UNCHANGED <<web, store, webIn, boardNet, drawn, boardOps, boardLink, contested,
                       undoStack, redoStack, dragging, dragFrom>>
    BY <1>8 DEF OpenWhiteboard, LoadWebview, KeepStacks, KeepDrag
  <2>2. QueueTypes'
    <3>1. RequestFullSync \in OutMessage
      BY DEF RequestFullSync, OutMessage
    <3> HIDE DEF RequestFullSync
    <3> QED BY <1>0, <2>1, <3>1 DEF QueueTypes
  <2>3. UserTypes'
    BY <1>0, <2>1 DEF UserTypes
  <2>4. PanelTypes'
    BY <1>0, <2>1 DEF PanelTypes, QueueTypes, boardLink
  <2> QED BY <1>t, <2>2, <2>3, <2>4
<1>9. ASSUME NEW s \in Party, NEW left \in {"hidden", "none"}, WebviewGoes(s, left) PROVE BoardTypes'
  <2>1. QueueTypes'
    BY <1>0, <1>9 DEF QueueTypes, WebviewGoes
  <2>2. UserTypes'
    <3>1. boardOps' \in 0 .. MaxBoardOp
      BY <1>0, <1>9, BoardAssumption DEF UserTypes, WebviewGoes
    <3>2. Blank \in Board /\ 0 \in Value
      BY DEF Blank, Board, Value
    <3> HIDE DEF Blank
    <3>3. web' \in [Party -> Board] /\ dragFrom' \in [Party -> Value]
      BY <1>0, <1>9, <3>2 DEF UserTypes, WebviewGoes
    <3>4. undoStack' \in [Party -> Seq(Command)] /\ redoStack' \in [Party -> Seq(Command)]
      BY <1>0, <1>9 DEF UserTypes, WebviewGoes
    <3>5. dragging' \in [Party -> SUBSET Entity] /\ \A t \in Party : \A i, j \in dragging'[t] : i = j
      BY <1>0, <1>9 DEF UserTypes, WebviewGoes
    <3> QED BY <1>0, <1>9, <3>1, <3>3, <3>4, <3>5 DEF UserTypes, WebviewGoes
  <2>3. PanelTypes'
    <3>1. /\ web' = [web EXCEPT ![s] = Blank] /\ webIn' = [webIn EXCEPT ![s] = << >>]
          /\ dragging' = [dragging EXCEPT ![s] = {}] /\ panel' = [panel EXCEPT ![s] = left]
          /\ muted' = IF left = "none" THEN muted \ {s} ELSE muted
          /\ UNCHANGED <<linked, rejoined, boardNet>>
      BY <1>9 DEF WebviewGoes
    <3>2. \A t \in Party : \/ t = s /\ web'[t] = Blank /\ webIn'[t] = << >> /\ dragging'[t] = {}
                           \/ t # s /\ web'[t] = web[t] /\ webIn'[t] = webIn[t] /\ panel'[t] = panel[t]
                                    /\ dragging'[t] = dragging[t]
      BY <1>0, <3>1 DEF QueueTypes, UserTypes
    <3>3. panel'[s] = left
      BY <1>0, <3>1 DEF QueueTypes
    <3> QED BY <1>0, <3>1, <3>2, <3>3 DEF PanelTypes
  <2> QED BY <1>t, <2>1, <2>2, <2>3
<1>10. ASSUME NEW s \in Party, PanelReceives(s) PROVE BoardTypes'
  <2>0. webOut[s] \in Seq(OutMessage) /\ webOut[s] # << >>
        /\ Head(webOut[s]) \in OutMessage /\ Tail(webOut[s]) \in Seq(OutMessage)
    BY <1>0, <1>10 DEF QueueTypes, PanelReceives
  <2> DEFINE m == Head(webOut[s])
  <2>1. /\ webOut' = [webOut EXCEPT ![s] = Tail(webOut[s])]
        /\ UNCHANGED <<panel, web, drawn, boardOps, boardLink, contested, undoStack, redoStack,
                       dragging, dragFrom>>
    BY <1>10 DEF PanelReceives, KeepStacks, KeepDrag
  <2>2. /\ store' \in [Party -> Board]
        /\ webIn' \in [Party -> Seq(NetMessage)] /\ boardNet' \in [Party -> Seq(NetMessage)]
        /\ ~linked => boardNet' = boardNet
        /\ \A t \in Party : panel[t] # "up" => webIn'[t] = webIn[t]
    <3>1. CASE m = RequestFullSync
      <4>1. webIn' = PostTo(s, FullSync(store[s])) /\ UNCHANGED <<store, boardNet>> /\ UNCHANGED panel
        BY <1>10, <3>1 DEF PanelReceives
      <4> DEFINE f == FullSync(store[s])
      <4>2. f \in NetMessage
        BY <1>0, SyncMade DEF QueueTypes
      <4>3. webIn' = IF panel[s] = "up" THEN [webIn EXCEPT ![s] = Append(@, f)] ELSE webIn
        BY <4>1 DEF PostTo
      <4> HIDE DEF f
      <4> QED BY <1>0, <4>1, <4>2, <4>3 DEF QueueTypes
    <3>2. CASE m # RequestFullSync
      <4>1. /\ store' = [store EXCEPT ![s] = Apply(m, @)] /\ UNCHANGED webIn
            /\ boardNet' = IF linked /\ s \notin muted
                           THEN [boardNet EXCEPT ![s] = Append(@, m)] ELSE boardNet
        BY <1>10, <3>2 DEF PanelReceives
      <4>2. m \in NetMessage /\ m \in Message /\ m.op # "request"
        BY <2>0, <3>2, OutKinds
      <4> HIDE DEF m
      <4>3. Apply(m, store[s]) \in Board
        BY <1>0, <4>2, Applied DEF QueueTypes
      <4> QED BY <1>0, <4>1, <4>2, <4>3 DEF QueueTypes
    <3> QED BY <3>1, <3>2
  <2>3. QueueTypes'
    BY <1>0, <2>0, <2>1, <2>2 DEF QueueTypes
  <2>4. UserTypes'
    BY <1>0, <2>1 DEF UserTypes
  <2>5. PanelTypes'
    BY <1>0, <2>1, <2>2 DEF PanelTypes, boardLink
  <2> QED BY <1>t, <2>3, <2>4, <2>5
<1>11. ASSUME NEW s \in Party, HandleBoardMessage(s) PROVE BoardTypes'
  <2> DEFINE p == Partner(s)
             m == Head(boardNet[p])
  <2>0. p \in Party /\ boardNet[p] # << >> /\ m \in NetMessage /\ Tail(boardNet[p]) \in Seq(NetMessage)
    BY <1>0, <1>11, OtherSide DEF QueueTypes, HandleBoardMessage
  <2> HIDE DEF p
  <2>1. /\ boardNet' = [boardNet EXCEPT ![p] = Tail(boardNet[p])]
        /\ store' = [store EXCEPT ![s] = Apply(m, @)]
        /\ \/ panel[s] = "none" /\ LoadWebview(s)
           \/ UNCHANGED <<panel, webOut>>
        /\ webIn' = PostTo(s, m)
        /\ UNCHANGED <<web, drawn, boardOps, boardLink, contested, undoStack, redoStack,
                       dragging, dragFrom>>
    BY <1>11 DEF HandleBoardMessage, KeepAuthoritative, KeepStacks, KeepDrag, p
  <2> HIDE DEF m
  <2>2. Apply(m, store[s]) \in Board
    BY <1>0, <2>0, Applied, OutKinds DEF QueueTypes
  <2>3. RequestFullSync \in OutMessage
    BY DEF RequestFullSync, OutMessage
  <2>4. panel' \in [Party -> {"none", "hidden", "up"}] /\ webOut' \in [Party -> Seq(OutMessage)]
        /\ \A t \in Party : panel'[t] = panel[t] \/ panel'[t] = "up"
    <3>1. CASE UNCHANGED <<panel, webOut>>
      BY <1>0, <3>1 DEF QueueTypes
    <3>2. CASE LoadWebview(s)
      <4>1. panel' = [panel EXCEPT ![s] = "up"] /\ webOut' = [webOut EXCEPT ![s] = Append(@, RequestFullSync)]
        BY <3>2 DEF LoadWebview
      <4> QED BY <1>0, <2>3, <4>1 DEF QueueTypes
    <3> QED BY <2>1, <3>1, <3>2
  <2>5. webIn' = IF panel'[s] = "up" THEN [webIn EXCEPT ![s] = Append(@, m)] ELSE webIn
    BY <2>1 DEF PostTo
  <2>6. QueueTypes'
    <3>1. store' \in [Party -> Board]
      BY <1>0, <2>1, <2>2 DEF QueueTypes
    <3>2. webIn' \in [Party -> Seq(NetMessage)]
      BY <1>0, <2>0, <2>5 DEF QueueTypes
    <3>3. boardNet' \in [Party -> Seq(NetMessage)]
      BY <1>0, <2>0, <2>1 DEF QueueTypes
    <3> QED BY <2>4, <3>1, <3>2, <3>3 DEF QueueTypes
  <2>7. UserTypes'
    BY <1>0, <2>1 DEF UserTypes
  <2>8. PanelTypes'
    <3>1. \A t \in Party : panel'[t] # "up" => panel[t] # "up" /\ webIn'[t] = webIn[t]
      BY <1>0, <2>4, <2>5 DEF QueueTypes
    <3>2. ~linked => boardNet' = boardNet
      BY <1>0, <2>0 DEF PanelTypes
    <3>3. \A t \in muted : panel'[t] # "none"
      BY <1>0, <2>4 DEF PanelTypes
    <3> QED BY <1>0, <2>1, <3>1, <3>2, <3>3 DEF PanelTypes, boardLink
  <2> QED BY <1>t, <2>6, <2>7, <2>8
<1>12. CASE BoardDisconnects
  <2>1. QueueTypes'
    BY <1>0, <1>12 DEF QueueTypes, BoardDisconnects
  <2>2. UserTypes'
    BY <1>0, <1>12, BoardAssumption DEF UserTypes, BoardDisconnects, KeepStacks, KeepDrag
  <2>3. PanelTypes'
    BY <1>0, <1>12 DEF PanelTypes, BoardDisconnects, KeepDrag
  <2> QED BY <1>t, <2>1, <2>2, <2>3
<1>13. ASSUME NEW again \in {{}, {"client"}, Party}, BoardReconnects(again) PROVE BoardTypes'
  <2>1. QueueTypes'
    <3>1. FullSync(store["host"]) \in NetMessage
      BY <1>0, SyncMade DEF QueueTypes, Party
    <3>2. boardNet' \in [Party -> Seq(NetMessage)]
      <4> DEFINE f == FullSync(store["host"])
      <4>1. boardNet' = boardNet \/ boardNet' = [boardNet EXCEPT !["host"] = <<f>>]
        BY <1>13 DEF BoardReconnects
      <4>2. f \in NetMessage
        BY <3>1
      <4> HIDE DEF f
      <4>3. CASE boardNet' = boardNet
        BY <1>0, <4>3 DEF QueueTypes
      <4>4. CASE boardNet' = [boardNet EXCEPT !["host"] = <<f>>]
        <5>1. <<f>> \in Seq(NetMessage)
          BY <4>2
        <5> QED BY <1>0, <4>4, <5>1 DEF QueueTypes
      <4> QED BY <4>1, <4>3, <4>4
    <3> QED BY <1>0, <1>13, <3>2 DEF QueueTypes, BoardReconnects
  <2>2. UserTypes'
    <3>1. contested' \subseteq Entity
      BY <1>0, <1>13 DEF UserTypes, BoardReconnects
    <3> QED BY <1>0, <1>13, <3>1 DEF UserTypes, BoardReconnects, KeepStacks, KeepDrag
  <2>3. PanelTypes'
    <3>1. linked' \in BOOLEAN /\ rejoined' \in BOOLEAN /\ linked'
      BY <1>13 DEF BoardReconnects
    <3>2. muted' \in SUBSET Party /\ \A s \in muted' : panel[s] # "none"
      BY <1>0, <1>13 DEF PanelTypes, BoardReconnects, Party
    <3> QED BY <1>0, <1>13, <3>1, <3>2 DEF PanelTypes, BoardReconnects, KeepDrag
  <2> QED BY <1>t, <2>1, <2>2, <2>3
<1>14. CASE UNCHANGED boardVars
  <2>1. QueueTypes'
    BY <1>0, <1>14 DEF QueueTypes, boardVars
  <2>2. UserTypes'
    BY <1>0, <1>14 DEF UserTypes, boardVars
  <2>3. PanelTypes'
    BY <1>0, <1>14 DEF PanelTypes, boardVars
  <2> QED BY <1>t, <2>1, <2>2, <2>3
<1> QED BY <1>1, <1>2, <1>3, <1>4, <1>5, <1>6, <1>7, <1>8, <1>9, <1>10, <1>11, <1>12, <1>13, <1>14
        DEF BoardNext

\* The boards, undo stacks, queues and flags of both sides hold what
\* whiteboard.js, its panel and the features may put into them.
THEOREM BoardTypesHold == BoardSpec => []BoardTypeOK
<1>1. BoardTypes => BoardTypeOK
  <2> SUFFICES ASSUME BoardTypes PROVE BoardTypeOK
    OBVIOUS
  <2>1. \A s \in Party : \A q \in {undoStack[s], redoStack[s]} : \A k \in DOMAIN q : q[k] \in Command
    BY DEF BoardTypes
  <2> QED BY <2>1 DEF BoardTypes, BoardTypeOK, Value
<1> QED BY <1>1, BoardTypesInit, BoardTypesStep, PTL DEF BoardSpec

\* A webview's messages after its request for a full synchronisation, when
\* it posts more.
LEMMA AsksConcat ==
    ASSUME NEW q \in Seq(OutMessage), NEW ms \in Seq(BoardMessage), NEW i
    PROVE  /\ AsksIn(q \o ms) <=> AsksIn(q)
           /\ AsksLast(q, i) /\ (AsksIn(q) => Silent(ms, i)) => AsksLast(q \o ms, i)
<1>1. /\ Len(q) \in Nat /\ Len(ms) \in Nat /\ DOMAIN q = 1 .. Len(q) /\ DOMAIN ms = 1 .. Len(ms)
      /\ DOMAIN (q \o ms) = 1 .. Len(q) + Len(ms)
      /\ \A k \in 1 .. Len(q) : (q \o ms)[k] = q[k]
      /\ \A k \in 1 .. Len(ms) : (q \o ms)[Len(q) + k] = ms[k] /\ ms[k] \in BoardMessage
  OBVIOUS
<1>2. \A m \in BoardMessage : m.op # "request"
  BY OutKinds
<1>3. ASSUME NEW k \in 1 .. Len(q) + Len(ms)
      PROVE  \/ k \in 1 .. Len(q) /\ (q \o ms)[k] = q[k]
             \/ /\ k \notin 1 .. Len(q)
                /\ \E l \in 1 .. Len(ms) : (q \o ms)[k] = ms[l] /\ (q \o ms)[k].op # "request"
  <2>1. CASE k \notin 1 .. Len(q)
    <3>1. k - Len(q) \in 1 .. Len(ms) /\ Len(q) + (k - Len(q)) = k
      BY <1>1, <2>1
    <3>2. (q \o ms)[Len(q) + (k - Len(q))] = ms[k - Len(q)] /\ ms[k - Len(q)] \in BoardMessage
      BY <1>1, <3>1
    <3> QED BY <1>2, <2>1, <3>1, <3>2
  <2> QED BY <1>1, <2>1
<1>4. AsksIn(q \o ms) => AsksIn(q)
  BY <1>1, <1>3 DEF AsksIn
<1>5. AsksIn(q) => AsksIn(q \o ms)
  <2> SUFFICES ASSUME NEW k \in 1 .. Len(q), q[k].op = "request" PROVE AsksIn(q \o ms)
    BY <1>1 DEF AsksIn
  <2>1. k \in 1 .. Len(q) + Len(ms)
    BY <1>1
  <2> QED BY <1>1, <2>1 DEF AsksIn
<1>6. ASSUME AsksLast(q, i), AsksIn(q) => Silent(ms, i) PROVE AsksLast(q \o ms, i)
  <2> SUFFICES ASSUME NEW j \in 1 .. Len(q) + Len(ms), NEW k \in 1 .. Len(q) + Len(ms),
                      (q \o ms)[j].op = "request", j < k
               PROVE  ~Concerns((q \o ms)[k], i)
    BY <1>1 DEF AsksLast
  <2>1. j \in 1 .. Len(q) /\ q[j].op = "request"
    BY <1>3
  <2>2. AsksIn(q)
    BY <1>1, <2>1 DEF AsksIn
  <2>3. CASE k \in 1 .. Len(q)
    BY <1>1, <1>6, <2>1, <2>3 DEF AsksLast
  <2>4. CASE k \notin 1 .. Len(q)
    <3>1. PICK l \in 1 .. Len(ms) : (q \o ms)[k] = ms[l]
      BY <1>3, <2>4
    <3> QED BY <1>1, <1>6, <2>2, <3>1 DEF Silent
  <2> QED BY <2>3, <2>4
<1> QED BY <1>4, <1>5, <1>6

\* The same when it asks.
LEMMA AsksAppended ==
    ASSUME NEW q \in Seq(OutMessage), NEW i
    PROVE  /\ AsksIn(Append(q, RequestFullSync))
           /\ AsksLast(q, i) => AsksLast(Append(q, RequestFullSync), i)
           /\ Silent(Append(q, RequestFullSync), i) <=> Silent(q, i)
<1> DEFINE m == RequestFullSync
           r == Append(q, m)
<1>0. m.op = "request" /\ m \in OutMessage /\ ~Concerns(m, i)
  BY SyncMade DEF RequestFullSync, Concerns
<1> HIDE DEF m
<1>1. /\ Len(q) \in Nat /\ DOMAIN q = 1 .. Len(q) /\ DOMAIN r = 1 .. Len(q) + 1
      /\ \A k \in 1 .. Len(q) : r[k] = q[k]
      /\ r[Len(q) + 1] = m
  BY <1>0
<1>2. Silent(r, i) <=> Silent(q, i)
  BY <1>0, SilentAppend
<1> HIDE DEF r
<1>3. AsksIn(r)
  <2>1. Len(q) + 1 \in 1 .. Len(q) + 1
    BY <1>1
  <2> QED BY <1>0, <1>1, <2>1 DEF AsksIn
<1>4. ASSUME AsksLast(q, i) PROVE AsksLast(r, i)
  <2> SUFFICES ASSUME NEW j \in 1 .. Len(q) + 1, NEW k \in 1 .. Len(q) + 1,
                      r[j].op = "request", j < k
               PROVE  ~Concerns(r[k], i)
    BY <1>1 DEF AsksLast
  <2>1. j \in 1 .. Len(q)
    BY <1>1
  <2> QED BY <1>0, <1>1, <1>4, <2>1 DEF AsksLast
<1> QED BY <1>2, <1>3, <1>4 DEF m, r

\* The same when the panel takes one.
LEMMA AsksTail ==
    ASSUME NEW q \in Seq(OutMessage), q # << >>, NEW i
    PROVE  /\ Head(q).op # "request" => (AsksIn(Tail(q)) <=> AsksIn(q))
           /\ Head(q).op = "request" => AsksIn(q)
           /\ AsksIn(Tail(q)) => AsksIn(q)
           /\ AsksLast(q, i) => AsksLast(Tail(q), i)
           /\ AsksLast(q, i) /\ Head(q).op = "request" => Silent(q, i)
<1> DEFINE r == Tail(q)
<1>1. /\ Len(q) \in Nat \ {0} /\ DOMAIN q = 1 .. Len(q) /\ DOMAIN r = 1 .. Len(q) - 1
      /\ Head(q) = q[1]
      /\ \A k \in 1 .. Len(q) - 1 : r[k] = q[k + 1]
  OBVIOUS
<1> HIDE DEF r
<1>2. AsksIn(r) => AsksIn(q)
  <2> SUFFICES ASSUME NEW k \in 1 .. Len(q) - 1, r[k].op = "request" PROVE AsksIn(q)
    BY <1>1 DEF AsksIn
  <2>1. k + 1 \in 1 .. Len(q) /\ q[k + 1].op = "request"
    BY <1>1
  <2> QED BY <1>1, <2>1 DEF AsksIn
<1>3. ASSUME Head(q).op # "request", AsksIn(q) PROVE AsksIn(r)
  <2>1. PICK k \in 1 .. Len(q) : q[k].op = "request"
    BY <1>1, <1>3 DEF AsksIn
  <2>2. k - 1 \in 1 .. Len(q) - 1 /\ (k - 1) + 1 = k
    BY <1>1, <1>3, <2>1
  <2>3. r[k - 1] = q[k]
    BY <1>1, <2>2
  <2> QED BY <1>1, <2>1, <2>2, <2>3 DEF AsksIn
<1>4. Head(q).op = "request" => AsksIn(q)
  <2>1. 1 \in 1 .. Len(q)
    BY <1>1
  <2> QED BY <1>1, <2>1 DEF AsksIn
<1>5. ASSUME AsksLast(q, i) PROVE AsksLast(r, i)
  <2> SUFFICES ASSUME NEW j \in 1 .. Len(q) - 1, NEW k \in 1 .. Len(q) - 1,
                      r[j].op = "request", j < k
               PROVE  ~Concerns(r[k], i)
    BY <1>1 DEF AsksLast
  <2>1. j + 1 \in 1 .. Len(q) /\ k + 1 \in 1 .. Len(q) /\ j + 1 < k + 1
    BY <1>1
  <2> QED BY <1>1, <1>5, <2>1 DEF AsksLast
<1>6. ASSUME AsksLast(q, i), Head(q).op = "request" PROVE Silent(q, i)
  <2> SUFFICES ASSUME NEW k \in 1 .. Len(q) PROVE ~Concerns(q[k], i)
    BY <1>1 DEF Silent
  <2>1. CASE k = 1
    BY <1>1, <1>6, <2>1 DEF Concerns
  <2>2. CASE k # 1
    <3>1. 1 \in 1 .. Len(q) /\ 1 < k
      BY <1>1, <2>2
    <3> QED BY <1>1, <1>6, <3>1 DEF AsksLast
  <2> QED BY <2>1, <2>2
<1> QED BY <1>2, <1>3, <1>4, <1>5, <1>6 DEF r

\* The queues of one side, and what an entity looks like there.
LEMMA QueuesAre ==
    ASSUME BoardTypes, NEW s \in Party, NEW i \in Entity
    PROVE  /\ webOut[s] \in Seq(OutMessage) /\ webOut[s] \in Seq(Message)
           /\ webIn[s] \in Seq(NetMessage) /\ webIn[s] \in Seq(Message)
           /\ boardNet[s] \in Seq(NetMessage) /\ boardNet[s] \in Seq(Message)
           /\ web[s] \in Board /\ store[s] \in Board
           /\ web[s][i] \in Value /\ store[s][i] \in Value
<1>1. /\ webOut[s] \in Seq(OutMessage) /\ webIn[s] \in Seq(NetMessage)
      /\ boardNet[s] \in Seq(NetMessage) /\ web[s] \in Board /\ store[s] \in Board
  BY DEF BoardTypes
<1>2. OutMessage \subseteq Message /\ NetMessage \subseteq Message
  BY OutKinds
<1>3. \A q \in Seq(OutMessage) : q \in Seq(Message)
  BY <1>2
<1>4. \A q \in Seq(NetMessage) : q \in Seq(Message)
  BY <1>2
<1> QED BY <1>1, <1>3, <1>4 DEF Board, Value

\* What holds of a side as long as nothing of it changes.
LEMMA SideKept ==
    ASSUME NEW s \in Party, NEW i \in Entity, webOut'[s] = webOut[s], webIn'[s] = webIn[s],
           web'[s][i] = web[s][i], store'[s][i] = store[s][i], panel'[s] = panel[s],
           i \in dragging'[s] <=> i \in dragging[s]
    PROVE  /\ Working(s, i)' <=> Working(s, i)
           /\ Asks(s)' <=> Asks(s)
           /\ WebviewMeets(s, i)' <=> WebviewMeets(s, i)
<1>1. /\ Working(s, i)' <=> Working(s, i)
      /\ Asks(s)' <=> Asks(s)
  BY DEF Working, Asks
<1>2. StoreFollows(s, i)' <=> StoreFollows(s, i)
  BY DEF StoreFollows
<1> QED BY <1>1, <1>2 DEF WebviewMeets

\* Before s does something to i it shows what its store comes to be.
LEMMA Caught ==
    ASSUME BoardTypes, NEW s \in Party, NEW i \in Entity, panel[s] = "up", ~Asks(s),
           Silent(webIn[s], i), WebviewMeets(s, i)
    PROVE  StoreFollows(s, i)
<1>1. CASE Working(s, i)
  BY <1>1 DEF WebviewMeets
<1>2. CASE ~Working(s, i)
  <2>1. Brings(webIn[s], i, web[s][i], store[s][i])
    BY <1>2 DEF WebviewMeets
  <2>2. web[s][i] = store[s][i]
    BY <2>1, QueuesAre, BringsSame
  <2>3. Brings(webOut[s], i, store[s][i], store[s][i])
    BY <1>2, QueuesAre, BringsSilent DEF Working
  <2> QED BY <2>2, <2>3, QueuesAre DEF StoreFollows
<1> QED BY <1>1, <1>2

\* ... and afterwards that is all there is to show.
LEMMA CaughtUp ==
    ASSUME BoardTypes, NEW s \in Party, NEW i \in Entity, Silent(webIn[s], i), StoreFollows(s, i)
    PROVE  WebviewMeets(s, i)
<1>1. CASE Working(s, i)
  BY <1>1 DEF WebviewMeets
<1>2. CASE ~Working(s, i)
  <2>1. PICK y \in Value : /\ Brings(webOut[s], i, store[s][i], y)
                           /\ y = web[s][i]
    BY <1>2 DEF StoreFollows, Working
  <2>2. y = store[s][i]
    BY <1>2, <2>1, QueuesAre, BringsSame DEF Working
  <2>3. Brings(webIn[s], i, web[s][i], store[s][i])
    BY <2>1, <2>2, QueuesAre, BringsSilent
  <2> QED BY <1>2, <2>3 DEF WebviewMeets
<1> QED BY <1>1, <1>2

\* The lemma above as one formula, so that it may be primed.
LEMMA CaughtUpAlways ==
    \A s \in Party, i \in Entity :
        BoardTypes /\ Silent(webIn[s], i) /\ StoreFollows(s, i) => WebviewMeets(s, i)
BY CaughtUp

\* It holds after a step as well.
LEMMA CaughtUpNext ==
    (\A s \in Party, i \in Entity :
        BoardTypes /\ Silent(webIn[s], i) /\ StoreFollows(s, i) => WebviewMeets(s, i))'
BY CaughtUpAlways, PTL

\* The messages ms bring the store from whatever it comes to be, when the
\* webview has v, to what it is to be when the webview has w: the two differ
\* at most in how an entity looks that is being dragged.
Carries(ms, i, v, loose, w, looser) ==
    \A y \in Value : (y = 0 <=> v = 0) /\ (~loose => y = v) =>
        \E z \in Value : Brings(ms, i, y, z) /\ (z = 0 <=> w = 0) /\ (~looser => z = w)

\* Messages that set an entity carry it over from whatever it was.
LEMMA SetsCarry ==
    ASSUME NEW ms, NEW i, NEW v, NEW loose, NEW w \in Value, NEW looser, Sets(ms, i, v, w)
    PROVE  Carries(ms, i, v, loose, w, looser)
BY DEF Sets, Carries

\* A handler of the webview that is working on i, or leaves it alone.
LEMMA PostsFit ==
    ASSUME BoardTypes, BoardTypes', NEW s \in Party, NEW i \in Entity, EntityFits(i),
           panel[s] = "up", UNCHANGED <<store, panel, webIn, boardNet, linked, muted>>,
           NEW ms \in Seq(BoardMessage), webOut' = [webOut EXCEPT ![s] = @ \o ms],
           \A t \in Party : t # s => web'[t] = web[t] /\ dragging'[t] = dragging[t],
           \/ Silent(ms, i) /\ web'[s][i] = web[s][i] /\ (i \in dragging'[s] <=> i \in dragging[s])
           \/ /\ ~Asks(s) /\ HasTurn(s, i)
              /\ Carries(ms, i, web[s][i], i \in dragging[s], web'[s][i], i \in dragging'[s])
    PROVE  EntityFits(i)'
<1> DEFINE p == Partner(s)
<1>0. p \in Party /\ p # s /\ Partner(p) = s /\ \A t \in Party : t = s \/ t = p
  BY OtherSide
<1>1. webOut'[s] = webOut[s] \o ms /\ webOut'[p] = webOut[p] /\ ms \in Seq(Message) /\ ms \in Seq(OutMessage)
  <2>1. BoardMessage \subseteq Message /\ BoardMessage \subseteq OutMessage
    BY OutKinds
  <2>2. ms \in Seq(Message) /\ ms \in Seq(OutMessage)
    BY <2>1
  <2> QED BY <1>0, <2>2 DEF BoardTypes
<1> HIDE DEF p
<1>2. /\ InTurn(s, i) /\ InTurn(p, i) /\ StoresMeet(s, i) /\ StoresMeet(p, i)
      /\ WebviewMeets(s, i) /\ WebviewMeets(p, i)
  BY <1>0 DEF EntityFits
<1>3. (Working(p, i)' <=> Working(p, i)) /\ (Asks(p)' <=> Asks(p)) /\ WebviewMeets(p, i)'
  BY <1>0, <1>1, <1>2, SideKept
<1>4. Asks(s)' <=> Asks(s)
  <2>1. AsksIn(webOut[s] \o ms) <=> AsksIn(webOut[s])
    BY AsksConcat, QueuesAre
  <2> QED BY <1>1, <2>1 DEF Asks
<1>5. HasTurn(s, i)' <=> HasTurn(s, i)
  BY <1>0, <1>3 DEF HasTurn, p
<1>6. ~Silent(ms, i) \/ Silent(webOut'[s], i) <=> ~Silent(ms, i) \/ Silent(webOut[s], i)
  BY <1>1, SilentConcat, QueuesAre
<1>7. CASE Silent(ms, i) /\ web'[s][i] = web[s][i] /\ (i \in dragging'[s] <=> i \in dragging[s])
  <2>1. Working(s, i)' <=> Working(s, i)
    BY <1>6, <1>7 DEF Working
  <2>2. InTurn(s, i)'
    <3>1. AsksLast(webOut'[s], i)
      BY <1>1, <1>2, <1>7, AsksConcat, QueuesAre DEF InTurn
    <3> QED BY <1>2, <1>4, <1>5, <1>7, <2>1, <3>1 DEF InTurn
  <2>3. InTurn(p, i)'
    <3>1. HasTurn(p, i)' <=> HasTurn(p, i)
      BY <1>0, <2>1 DEF HasTurn
    <3> QED BY <1>0, <1>1, <1>2, <1>3, <3>1 DEF InTurn
  <2>4. WebviewMeets(s, i)'
    <3>1. StoreFollows(s, i) => StoreFollows(s, i)'
      <4> SUFFICES ASSUME StoreFollows(s, i) PROVE StoreFollows(s, i)'
        OBVIOUS
      <4>1. PICK y \in Value : /\ Brings(webOut[s], i, store[s][i], y)
                               /\ y = 0 <=> web[s][i] = 0
                               /\ i \notin dragging[s] => y = web[s][i]
        BY DEF StoreFollows
      <4>2. Brings(ms, i, y, y)
        BY <1>1, <1>7, BringsSilent
      <4>3. Brings(webOut[s] \o ms, i, store[s][i], y)
        BY <1>1, <4>1, <4>2, BringsConcat, QueuesAre
      <4> QED BY <1>1, <1>7, <4>1, <4>3 DEF StoreFollows
    <3> QED BY <1>2, <1>4, <1>7, <2>1, <3>1 DEF WebviewMeets
  <2> QED BY <1>0, <1>2, <1>3, <2>2, <2>3, <2>4 DEF EntityFits, StoresMeet
<1>8. CASE /\ ~Asks(s) /\ HasTurn(s, i)
           /\ Carries(ms, i, web[s][i], i \in dragging[s], web'[s][i], i \in dragging'[s])
  <2>1. InTurn(s, i)'
    <3>1. AsksLast(webOut'[s], i)
      BY <1>1, <1>2, <1>8, AsksConcat, QueuesAre DEF InTurn, Asks
    <3> QED BY <1>2, <1>4, <1>5, <1>8, <3>1 DEF InTurn
  <2>2. InTurn(p, i)'
    BY <1>0, <1>1, <1>2, <1>3, <1>8 DEF InTurn, HasTurn, p
  <2>3. WebviewMeets(s, i)'
    <3>1. Silent(webIn[s], i) /\ StoreFollows(s, i)
      BY <1>2, <1>8, Caught DEF HasTurn
    <3>2. PICK y \in Value : /\ Brings(webOut[s], i, store[s][i], y)
                             /\ y = 0 <=> web[s][i] = 0
                             /\ i \notin dragging[s] => y = web[s][i]
      BY <3>1 DEF StoreFollows
    <3>3. PICK z \in Value : Brings(ms, i, y, z) /\ (z = 0 <=> web'[s][i] = 0)
                             /\ (i \notin dragging'[s] => z = web'[s][i])
      BY <1>8, <3>2 DEF Carries
    <3>4. Brings(webOut[s] \o ms, i, store[s][i], z)
      BY <1>1, <3>2, <3>3, BringsConcat, QueuesAre
    <3>5. StoreFollows(s, i)'
      BY <1>1, <3>3, <3>4 DEF StoreFollows
    <3>6. Silent(webIn'[s], i)
      BY <3>1
    <3> QED BY <3>5, <3>6, CaughtUpNext
  <2> QED BY <1>0, <1>2, <1>3, <2>1, <2>2, <2>3 DEF EntityFits, StoresMeet
<1> QED BY <1>7, <1>8

\* Who works on an entity that stays uncontested may do so.
LEMMA FreeToWork ==
    ASSUME BoardTypes, NEW s \in Party, NEW ids \in SUBSET Entity, UserDraws(s, ids),
           NEW i \in ids, i \notin contested'
    PROVE  ~Asks(s) /\ HasTurn(s, i)
<1>1. ~Unsettled(s, i) /\ s \notin muted
  BY DEF UserDraws
<1>2. i \notin dragging[Partner(s)]
  BY <1>1 DEF Unsettled
<1>3. Silent(webOut[Partner(s)], i) /\ Silent(boardNet[Partner(s)], i) /\ Silent(webIn[s], i)
  BY <1>1 DEF Unsettled, Silent
<1>4. ~Asks(s)
  <2> SUFFICES ASSUME NEW k \in DOMAIN webOut[s], webOut[s][k].op = "request" PROVE FALSE
    BY DEF Asks, AsksIn
  <2>1. webOut[s] \in Seq(OutMessage)
    BY DEF BoardTypes
  <2>2. webOut[s][k] \in OutMessage
    BY <2>1
  <2>3. webOut[s][k] = RequestFullSync
    BY <2>2, OutKinds
  <2> QED BY <1>1, <2>3 DEF Unsettled
<1> QED BY <1>1, <1>2, <1>3, <1>4 DEF HasTurn, Working

\* What a user does to some entities outside of a drag keeps every entity
\* in turn.
LEMMA UserPostsFit ==
    ASSUME BoardTypes, BoardTypes', NEW s \in Party, NEW ids \in SUBSET Entity, UserDraws(s, ids),
           NEW ms \in Seq(BoardMessage), NEW b \in Board, Post(s, ms, b), KeepDrag,
           \A i \in Entity : \/ Silent(ms, i) /\ b[i] = web[s][i]
                             \/ i \in ids /\ Sets(ms, i, web[s][i], b[i]),
           NEW i \in Entity \ contested', EntityFits(i)
    PROVE  EntityFits(i)'
<1>1. /\ panel[s] = "up" /\ UNCHANGED <<store, panel, webIn, boardNet, linked, muted>>
  BY DEF UserDraws, boardLink
<1>2. /\ webOut' = [webOut EXCEPT ![s] = @ \o ms] /\ dragging' = dragging /\ web'[s] = b
      /\ \A t \in Party : t # s => web'[t] = web[t]
  BY DEF Post, KeepDrag, BoardTypes
<1>3. CASE Silent(ms, i) /\ b[i] = web[s][i]
  BY <1>1, <1>2, <1>3, PostsFit
<1>4. CASE i \in ids /\ Sets(ms, i, web[s][i], b[i])
  <2>1. ~Asks(s) /\ HasTurn(s, i)
    BY <1>4, FreeToWork
  <2>2. b[i] \in Value
    BY DEF Board, Value
  <2>3. Carries(ms, i, web[s][i], i \in dragging[s], b[i], i \in dragging'[s])
    BY <1>4, <2>2, SetsCarry
  <2>4. Carries(ms, i, web[s][i], i \in dragging[s], web'[s][i], i \in dragging'[s])
    BY <1>2, <2>3
  <2> QED BY <1>1, <1>2, <2>1, <2>4, PostsFit
<1> QED BY <1>3, <1>4

\* One message that sets an entity.
LEMMA OneSets ==
    ASSUME NEW m, NEW i \in Entity, NEW v, NEW w,
           \A y \in Value : (y = 0 <=> v = 0) => Becomes(m, i, y) = w
    PROVE  Sets(<<m>>, i, v, w)
BY BringsOne DEF Sets

\* One message that is not about it.
LEMMA OneSilent ==
    ASSUME NEW m, NEW i, ~Concerns(m, i)
    PROVE  Silent(<<m>>, i)
BY DEF Silent

\* An entity is drawn.
LEMMA DrawFits ==
    ASSUME BoardTypes, BoardTypes', NEW i \in Entity \ contested', EntityFits(i),
           NEW s \in Party, NEW e \in Entity, Draw(s, e)
    PROVE  EntityFits(i)'
<1> DEFINE m == Add(e, 1)
           b == [web[s] EXCEPT ![e] = 1]
<1>1. UserDraws(s, {e}) /\ Post(s, <<m>>, b) /\ KeepDrag
  BY DEF Draw
<1>2. web[s] \in Board
  BY DEF BoardTypes
<1>3. b \in Board /\ <<m>> \in Seq(BoardMessage) /\ {e} \in SUBSET Entity
  BY <1>2, MessagesMade DEF Board, Value, Look
<1>4. ASSUME NEW j \in Entity
      PROVE  \/ Silent(<<m>>, j) /\ b[j] = web[s][j]
             \/ j \in {e} /\ Sets(<<m>>, j, web[s][j], b[j])
  <2>1. CASE j = e
    <3>1. \A y : Becomes(m, j, y) = 1
      BY <2>1 DEF Becomes, Concerns, Add
    <3>2. b[j] = 1
      BY <1>2, <2>1 DEF Board
    <3> HIDE DEF m, b
    <3> QED BY <2>1, <3>1, <3>2, OneSets
  <2>2. CASE j # e
    <3>1. ~Concerns(m, j)
      BY <2>2 DEF Concerns, Add
    <3> QED BY <1>2, <2>2, <3>1, OneSilent DEF Board
  <2> QED BY <2>1, <2>2
<1> HIDE DEF m, b
<1> QED BY <1>1, <1>3, <1>4, UserPostsFit

\* An entity is deleted.
LEMMA DeleteFits ==
    ASSUME BoardTypes, BoardTypes', NEW i \in Entity \ contested', EntityFits(i),
           NEW s \in Party, NEW e \in Entity, DeleteEntity(s, e)
    PROVE  EntityFits(i)'
<1> DEFINE m == Delete(e)
           b == [web[s] EXCEPT ![e] = 0]
<1>1. UserDraws(s, {e}) /\ Post(s, <<m>>, b) /\ KeepDrag
  BY DEF DeleteEntity
<1>2. web[s] \in Board
  BY DEF BoardTypes
<1>3. b \in Board /\ <<m>> \in Seq(BoardMessage) /\ {e} \in SUBSET Entity
  BY <1>2, MessagesMade DEF Board, Value, Look
<1>4. ASSUME NEW j \in Entity
      PROVE  \/ Silent(<<m>>, j) /\ b[j] = web[s][j]
             \/ j \in {e} /\ Sets(<<m>>, j, web[s][j], b[j])
  <2>1. CASE j = e
    <3>1. \A y : Becomes(m, j, y) = 0
      BY <2>1 DEF Becomes, Concerns, Delete
    <3>2. b[j] = 0
      BY <1>2, <2>1 DEF Board
    <3> HIDE DEF m, b
    <3> QED BY <2>1, <3>1, <3>2, OneSets
  <2>2. CASE j # e
    <3>1. ~Concerns(m, j)
      BY <2>2 DEF Concerns, Delete
    <3> QED BY <1>2, <2>2, <3>1, OneSilent DEF Board
  <2> QED BY <2>1, <2>2
<1> HIDE DEF m, b
<1> QED BY <1>1, <1>3, <1>4, UserPostsFit

\* The board is cleared.
LEMMA ClearFits ==
    ASSUME BoardTypes, BoardTypes', NEW i \in Entity \ contested', EntityFits(i),
           NEW s \in Party, ClearBoard(s)
    PROVE  EntityFits(i)'
<1>1. UserDraws(s, Entity) /\ Post(s, <<Clear>>, Blank) /\ KeepDrag
  BY DEF ClearBoard
<1>2. <<Clear>> \in Seq(BoardMessage) /\ Blank \in Board
  BY DEF BoardMessage, Clear, Blank, Board
<1>3. ASSUME NEW j \in Entity PROVE Sets(<<Clear>>, j, web[s][j], Blank[j])
  <2>1. \A y : Becomes(Clear, j, y) = Blank[j]
    BY DEF Becomes, Concerns, Clear, Blank
  <2> QED BY <2>1, OneSets
<1> QED BY <1>1, <1>2, <1>3, UserPostsFit

\* A command is undone or done again.
LEMMA UndoFits ==
    ASSUME BoardTypes, BoardTypes', NEW i \in Entity \ contested', EntityFits(i),
           NEW s \in Party, Undo(s) \/ Redo(s)
    PROVE  EntityFits(i)'
<1>0. undoStack[s] \in Seq(Command) /\ redoStack[s] \in Seq(Command)
  BY DEF BoardTypes
<1>1. PICK cmd \in Command, reverse \in BOOLEAN :
        UserDraws(s, Touched(cmd)) /\ ExecuteCommand(s, cmd, reverse) /\ KeepDrag
  <2>1. CASE Undo(s)
    <3>1. Last(undoStack[s]) \in Command
      BY <1>0, <2>1, Unstacked DEF Undo
    <3> QED BY <2>1, <3>1 DEF Undo
  <2>2. CASE Redo(s)
    <3>1. Last(redoStack[s]) \in Command
      BY <1>0, <2>2, Unstacked DEF Redo
    <3> QED BY <2>2, <3>1 DEF Redo
  <2> QED BY <2>1, <2>2
<1>2. PICK ms \in Seq(BoardMessage), b \in Board :
        /\ Post(s, ms, b)
        /\ \A j \in Entity :
            \/ Silent(ms, j) /\ b[j] = web[s][j]
            \/ j \in Touched(cmd) /\ Sets(ms, j, web[s][j], b[j])
  BY <1>1, Executed
<1>3. Touched(cmd) \in SUBSET Entity
  BY CommandKinds DEF Touched
<1> QED BY <1>1, <1>2, <1>3, UserPostsFit

\* A step in which the webview posts nothing.
LEMMA NoMessages ==
    ASSUME BoardTypes, NEW s \in Party, UNCHANGED webOut
    PROVE  /\ << >> \in Seq(BoardMessage) /\ webOut' = [webOut EXCEPT ![s] = @ \o << >>]
           /\ \A i : Silent(<< >>, i)
           /\ \A i \in Entity : \A y : Brings(<< >>, i, y, y)
<1>1. webOut[s] \o << >> = webOut[s] /\ webOut \in [Party -> Seq(OutMessage)]
  <2>1. webOut[s] \in Seq(OutMessage)
    BY DEF BoardTypes
  <2> QED BY <2>1 DEF BoardTypes
<1>2. webOut' = [webOut EXCEPT ![s] = @ \o << >>]
  BY <1>1
<1>3. << >> \in Seq(Message) /\ \A i : Silent(<< >>, i)
  BY DEF Silent
<1>4. ASSUME NEW i \in Entity, NEW y PROVE Brings(<< >>, i, y, y)
  BY <1>3, BringsSilent
<1>5. << >> \in Seq(BoardMessage)
  OBVIOUS
<1> QED BY <1>2, <1>3, <1>4, <1>5

\* A drag begins, or goes on: the webview shows it, and nobody hears of
\* it.
LEMMA DragFits ==
    ASSUME BoardTypes, BoardTypes', NEW i \in Entity \ contested', EntityFits(i),
           NEW s \in Party, NEW e \in Entity, NEW v \in Look, Drag(s, e, v)
    PROVE  EntityFits(i)'
<1>1. /\ UserDraws(s, {e}) /\ web[s][e] # 0 /\ dragging[s] = {}
      /\ web' = [web EXCEPT ![s][e] = v] /\ dragging' = [dragging EXCEPT ![s] = {e}]
      /\ UNCHANGED webOut
  BY DEF Drag
<1>2. /\ panel[s] = "up" /\ UNCHANGED <<store, panel, webIn, boardNet, linked, muted>>
      /\ \A t \in Party : t # s => web'[t] = web[t] /\ dragging'[t] = dragging[t]
      /\ dragging'[s] = {e} /\ \A j \in Entity : web'[s][j] = IF j = e THEN v ELSE web[s][j]
  BY <1>1 DEF UserDraws, boardLink, BoardTypes, Board
<1>3. << >> \in Seq(BoardMessage) /\ webOut' = [webOut EXCEPT ![s] = @ \o << >>]
      /\ Silent(<< >>, i) /\ \A y : Brings(<< >>, i, y, y)
  BY <1>1, NoMessages
<1>4. CASE i # e
  <2>1. Silent(<< >>, i) /\ web'[s][i] = web[s][i] /\ (i \in dragging'[s] <=> i \in dragging[s])
    BY <1>1, <1>2, <1>3, <1>4
  <2> QED BY <1>2, <1>3, <2>1, PostsFit
<1>5. CASE i = e
  <2>1. ~Asks(s) /\ HasTurn(s, i)
    BY <1>1, <1>5, FreeToWork
  <2>2. Carries(<< >>, i, web[s][i], i \in dragging[s], web'[s][i], i \in dragging'[s])
    <3>1. web[s][i] # 0 /\ web'[s][i] # 0 /\ i \in dragging'[s]
      BY <1>1, <1>2, <1>5 DEF Look
    <3> QED BY <1>3, <3>1 DEF Carries
  <2> QED BY <1>2, <1>3, <2>1, <2>2, PostsFit
<1> QED BY <1>4, <1>5

\* A drag ends, and its update is posted.
LEMMA FinishFits ==
    ASSUME BoardTypes, BoardTypes', NEW i \in Entity \ contested', EntityFits(i),
           NEW s \in Party, FinishDrag(s)
    PROVE  EntityFits(i)'
<1>1. PICK e \in dragging[s] :
        IF web[s][e] = 0 THEN UNCHANGED webOut
        ELSE webOut' = [webOut EXCEPT ![s] = Append(@, Update(e, web[s][e]))]
  BY DEF FinishDrag
<1>2. /\ dragging' = [dragging EXCEPT ![s] = {}]
      /\ UNCHANGED <<web, store, panel, webIn, boardNet, linked, muted>>
  BY DEF FinishDrag, boardLink
<1>3. e \in Entity /\ web[s][e] \in Value /\ \A j \in dragging[s] : j = e
  BY <1>1 DEF BoardTypes, Board, Value
<1>4. panel[s] = "up"
  BY <1>1 DEF BoardTypes
<1>5. /\ \A t \in Party : t # s => web'[t] = web[t] /\ dragging'[t] = dragging[t]
      /\ dragging'[s] = {} /\ web'[s][i] = web[s][i]
  BY <1>2 DEF BoardTypes
<1>6. i = e => ~Asks(s) /\ HasTurn(s, i)
  BY <1>1 DEF EntityFits, InTurn, Working
<1>7. CASE web[s][e] = 0
  <2>1. << >> \in Seq(BoardMessage) /\ webOut' = [webOut EXCEPT ![s] = @ \o << >>]
        /\ Silent(<< >>, i) /\ \A y : Brings(<< >>, i, y, y)
    BY <1>1, <1>7, NoMessages
  <2>2. CASE i # e
    <3>1. i \notin dragging[s] /\ i \notin dragging'[s]
      BY <1>3, <1>5, <2>2
    <3> QED BY <1>2, <1>4, <1>5, <2>1, <3>1, PostsFit
  <2>3. CASE i = e
    <3>1. Carries(<< >>, i, web[s][i], i \in dragging[s], web'[s][i], i \in dragging'[s])
      BY <1>5, <1>7, <2>1, <2>3 DEF Carries
    <3> QED BY <1>2, <1>4, <1>5, <1>6, <2>1, <2>3, <3>1, PostsFit
  <2> QED BY <2>2, <2>3
<1>8. CASE web[s][e] # 0
  <2> DEFINE m == Update(e, web[s][e])
  <2>1. m \in BoardMessage
    BY <1>3, MessagesMade
  <2>2. <<m>> \in Seq(BoardMessage) /\ webOut' = [webOut EXCEPT ![s] = @ \o <<m>>]
    <3>1. webOut[s] \in Seq(OutMessage) /\ m \in OutMessage
      BY <2>1, OutKinds DEF BoardTypes
    <3>2. webOut' = [webOut EXCEPT ![s] = Append(@, m)]
      BY <1>1, <1>8
    <3> HIDE DEF m
    <3>3. Append(webOut[s], m) = webOut[s] \o <<m>>
      BY <3>1
    <3> QED BY <2>1, <3>2, <3>3
  <2>3. CASE i # e
    <3>1. i \notin dragging[s] /\ i \notin dragging'[s]
      BY <1>3, <1>5, <2>3
    <3>2. Silent(<<m>>, i)
      BY <2>3, OneSilent DEF Concerns, Update
    <3> HIDE DEF m
    <3> QED BY <1>2, <1>4, <1>5, <2>2, <3>1, <3>2, PostsFit
  <2>4. CASE i = e
    <3>1. \A y \in Value : (y = 0 <=> web[s][i] = 0) => Becomes(m, i, y) = web'[s][i]
      BY <1>5, <1>8, <2>4 DEF Becomes, Concerns, Update
    <3> HIDE DEF m
    <3>2. Sets(<<m>>, i, web[s][i], web'[s][i])
      BY <3>1, OneSets
    <3>3. web'[s][i] \in Value
      BY <1>3, <1>5, <2>4
    <3>4. Carries(<<m>>, i, web[s][i], i \in dragging[s], web'[s][i], i \in dragging'[s])
      BY <3>2, <3>3, SetsCarry
    <3> QED BY <1>2, <1>4, <1>5, <1>6, <2>2, <2>4, <3>4, PostsFit
  <2> QED BY <2>3, <2>4
<1> QED BY <1>7, <1>8

\* The parts of EntityFits, by side.
LEMMA FitsParts ==
    ASSUME NEW s \in Party, NEW i \in Entity
    PROVE  EntityFits(i) <=> /\ InTurn(s, i) /\ StoresMeet(s, i) /\ WebviewMeets(s, i)
                             /\ InTurn(Partner(s), i) /\ StoresMeet(Partner(s), i)
                             /\ WebviewMeets(Partner(s), i)
BY OtherSide DEF EntityFits

\* The first message of a queue and the rest of it.
LEMMA Received ==
    ASSUME NEW q \in Seq(NetMessage), q # << >>, NEW i \in Entity
    PROVE  /\ Head(q) \in NetMessage /\ Tail(q) \in Seq(NetMessage) /\ Head(q) \in Message
           /\ Head(q).op # "request"
           /\ Silent(q, i) => ~Concerns(Head(q), i) /\ Silent(Tail(q), i)
           /\ \A x \in Value : \A y : Brings(q, i, x, y) =>
                Brings(Tail(q), i, Becomes(Head(q), i, x), y)
<1>1. Head(q) \in NetMessage /\ Tail(q) \in Seq(NetMessage)
  OBVIOUS
<1>2. NetMessage \subseteq Message /\ Head(q).op # "request"
  BY <1>1, OutKinds
<1>3. q \in Seq(Message)
  BY <1>2
<1>4. Silent(q, i) => ~Concerns(Head(q), i) /\ Silent(Tail(q), i)
  BY SilentTail
<1>5. ASSUME NEW x \in Value, NEW y, Brings(q, i, x, y)
      PROVE  Brings(Tail(q), i, Becomes(Head(q), i, x), y)
  BY <1>3, <1>5, BringsTail
<1> QED BY <1>1, <1>2, <1>4, <1>5

\* The webview handles a message of its panel.
LEMMA ReceivesFits ==
    ASSUME BoardTypes, BoardTypes', NEW i \in Entity \ contested', EntityFits(i),
           NEW s \in Party, WebviewReceives(s)
    PROVE  EntityFits(i)'
<1> DEFINE p == Partner(s)
           m == Head(webIn[s])
<1>0. p \in Party /\ p # s /\ Partner(p) = s /\ \A t \in Party : t = s \/ t = p
  BY OtherSide
<1> HIDE DEF p
<1>1. /\ InTurn(s, i) /\ InTurn(p, i) /\ StoresMeet(s, i) /\ StoresMeet(p, i)
      /\ WebviewMeets(s, i) /\ WebviewMeets(p, i)
  BY <1>0 DEF EntityFits
<1>2. webIn[s] \in Seq(NetMessage) /\ webIn[s] # << >>
  BY DEF WebviewReceives, BoardTypes
<1>3. /\ webIn'[s] = Tail(webIn[s]) /\ web'[s] = Apply(m, web[s])
      /\ webIn'[p] = webIn[p] /\ web'[p] = web[p]
      /\ UNCHANGED <<store, panel, webOut, boardNet, linked, muted, dragging>>
  BY <1>0 DEF WebviewReceives, KeepDrag, boardLink, BoardTypes
<1>4. web'[s][i] = Becomes(m, i, web[s][i])
  BY <1>2, <1>3, Received, Applied, QueuesAre
<1>5. /\ (Working(p, i)' <=> Working(p, i)) /\ (Working(s, i)' <=> Working(s, i))
      /\ (Asks(p)' <=> Asks(p)) /\ (Asks(s)' <=> Asks(s)) /\ WebviewMeets(p, i)'
  BY <1>0, <1>1, <1>3, SideKept DEF Working, Asks
<1>6. Silent(webIn[s], i) => ~Concerns(m, i) /\ Silent(webIn'[s], i)
  BY <1>2, <1>3, Received
<1>7. InTurn(s, i)' /\ InTurn(p, i)'
  <2>1. HasTurn(s, i) => HasTurn(s, i)'
    BY <1>0, <1>3, <1>5, <1>6 DEF HasTurn, p
  <2>2. HasTurn(p, i) => HasTurn(p, i)'
    BY <1>0, <1>3, <1>5 DEF HasTurn
  <2> QED BY <1>1, <1>3, <1>5, <2>1, <2>2 DEF InTurn
<1>8. WebviewMeets(s, i)'
  <2>1. CASE Working(s, i)
    <3>1. web'[s][i] = web[s][i]
      BY <1>1, <1>4, <1>6, <2>1, BecomesSilent DEF InTurn, HasTurn
    <3>2. StoreFollows(s, i) => StoreFollows(s, i)'
      BY <1>3, <3>1 DEF StoreFollows
    <3> QED BY <1>1, <1>3, <1>5, <2>1, <3>2 DEF WebviewMeets
  <2>2. CASE ~Working(s, i)
    <3>1. Brings(webIn[s], i, web[s][i], store[s][i]) => Brings(webIn'[s], i, web'[s][i], store[s][i])
      BY <1>2, <1>3, <1>4, Received, QueuesAre
    <3> QED BY <1>1, <1>3, <1>5, <2>2, <3>1 DEF WebviewMeets
  <2> QED BY <2>1, <2>2
<1>9. StoresMeet(s, i)' /\ StoresMeet(p, i)'
  BY <1>1, <1>3 DEF StoresMeet
<1> QED BY <1>0, <1>5, <1>7, <1>8, <1>9 DEF EntityFits

\* A panel opens, and its webview asks for everything.
LEMMA OpenFits ==
    ASSUME BoardTypes, BoardTypes', NEW i \in Entity \ contested', EntityFits(i),
           NEW s \in Party, OpenWhiteboard(s)
    PROVE  EntityFits(i)'
<1> DEFINE p == Partner(s)
<1>0. p \in Party /\ p # s /\ Partner(p) = s /\ \A t \in Party : t = s \/ t = p
  BY OtherSide
<1> HIDE DEF p
<1>1. /\ InTurn(s, i) /\ InTurn(p, i) /\ StoresMeet(s, i) /\ StoresMeet(p, i)
      /\ WebviewMeets(s, i) /\ WebviewMeets(p, i)
  BY <1>0 DEF EntityFits
<1>2. /\ panel'[p] = panel[p] /\ webOut'[p] = webOut[p]
      /\ webOut'[s] = Append(webOut[s], RequestFullSync) /\ i \notin dragging[s]
      /\ UNCHANGED <<store, web, webIn, boardNet, linked, muted, dragging>>
  BY <1>0 DEF OpenWhiteboard, LoadWebview, KeepDrag, boardLink, BoardTypes
<1>3. AsksIn(webOut'[s]) /\ (AsksLast(webOut[s], i) => AsksLast(webOut'[s], i))
      /\ (Silent(webOut'[s], i) <=> Silent(webOut[s], i))
  BY <1>2, AsksAppended, QueuesAre
<1>4. /\ (Working(p, i)' <=> Working(p, i)) /\ (Working(s, i)' <=> Working(s, i))
      /\ (Asks(p)' <=> Asks(p)) /\ Asks(s)' /\ WebviewMeets(p, i)'
  BY <1>0, <1>1, <1>2, <1>3, SideKept DEF Working, Asks
<1>5. InTurn(s, i)' /\ InTurn(p, i)'
  <2>1. HasTurn(s, i) => HasTurn(s, i)'
    BY <1>0, <1>2, <1>4 DEF HasTurn, p
  <2>2. HasTurn(p, i) => HasTurn(p, i)'
    BY <1>0, <1>2, <1>4 DEF HasTurn
  <2> QED BY <1>1, <1>2, <1>3, <1>4, <2>1, <2>2 DEF InTurn
<1>6. WebviewMeets(s, i)'
  BY <1>4 DEF WebviewMeets
<1>7. StoresMeet(s, i)' /\ StoresMeet(p, i)'
  BY <1>1, <1>2 DEF StoresMeet
<1> QED BY <1>0, <1>4, <1>5, <1>6, <1>7 DEF EntityFits

\* A panel is hidden or closed: what its webview shows is gone, what it
\* has posted still arrives.
LEMMA GoesFits ==
    ASSUME BoardTypes, BoardTypes', NEW i \in Entity \ contested', EntityFits(i),
           NEW s \in Party, NEW left \in {"hidden", "none"}, WebviewGoes(s, left)
    PROVE  EntityFits(i)'
<1> DEFINE p == Partner(s)
<1>0. p \in Party /\ p # s /\ Partner(p) = s /\ \A t \in Party : t = s \/ t = p
  BY OtherSide
<1> HIDE DEF p
<1>1. /\ InTurn(s, i) /\ InTurn(p, i) /\ StoresMeet(s, i) /\ StoresMeet(p, i)
      /\ WebviewMeets(s, i) /\ WebviewMeets(p, i)
  BY <1>0 DEF EntityFits
<1>2. /\ panel'[p] = panel[p] /\ web'[p] = web[p] /\ webIn'[p] = webIn[p] /\ dragging'[p] = dragging[p]
      /\ panel'[s] = left /\ webIn'[s] = << >> /\ dragging'[s] = {} /\ muted' \subseteq muted
      /\ UNCHANGED <<store, webOut, boardNet, linked>>
  BY <1>0 DEF WebviewGoes, BoardTypes
<1>3. Silent(webIn'[s], i)
  BY <1>2 DEF Silent
<1>4. /\ (Working(p, i)' <=> Working(p, i)) /\ (Working(s, i)' => Working(s, i))
      /\ (Asks(p)' <=> Asks(p)) /\ WebviewMeets(p, i)'
  BY <1>0, <1>1, <1>2, SideKept DEF Working
<1>5. InTurn(s, i)' /\ InTurn(p, i)'
  <2>1. HasTurn(s, i) => HasTurn(s, i)'
    BY <1>0, <1>2, <1>3, <1>4 DEF HasTurn, p
  <2>2. HasTurn(p, i) => HasTurn(p, i)'
    BY <1>0, <1>2, <1>4 DEF HasTurn
  <2> QED BY <1>1, <1>2, <1>4, <2>1, <2>2 DEF InTurn
<1>6. WebviewMeets(s, i)'
  BY <1>2 DEF WebviewMeets
<1>7. StoresMeet(s, i)' /\ StoresMeet(p, i)'
  BY <1>1, <1>2 DEF StoresMeet
<1> QED BY <1>0, <1>4, <1>5, <1>6, <1>7 DEF EntityFits

\* The panel takes a message of its webview into the store and sends it
\* on.
LEMMA PanelFits ==
    ASSUME BoardTypes, BoardTypes', NEW i \in Entity \ contested', EntityFits(i),
           NEW s \in Party, PanelReceives(s)
    PROVE  EntityFits(i)'
<1> DEFINE p == Partner(s)
           m == Head(webOut[s])
<1>0. p \in Party /\ p # s /\ Partner(p) = s /\ \A t \in Party : t = s \/ t = p
  BY OtherSide
<1> HIDE DEF p
<1>1. /\ InTurn(s, i) /\ InTurn(p, i) /\ StoresMeet(s, i) /\ StoresMeet(p, i)
      /\ WebviewMeets(s, i) /\ WebviewMeets(p, i)
  BY <1>0 DEF EntityFits
<1>2. webOut[s] \in Seq(OutMessage) /\ webOut[s] \in Seq(Message) /\ webOut[s] # << >>
      /\ m \in OutMessage /\ Tail(webOut[s]) \in Seq(OutMessage) /\ Tail(webOut[s]) \in Seq(Message)
  <2>1. webOut[s] \in Seq(OutMessage) /\ webOut[s] \in Seq(Message) /\ webOut[s] # << >>
    BY QueuesAre DEF PanelReceives
  <2> QED BY <2>1
<1>3. /\ webOut'[s] = Tail(webOut[s]) /\ webOut'[p] = webOut[p]
      /\ UNCHANGED <<web, panel, linked, muted, dragging>>
  BY <1>0 DEF PanelReceives, KeepDrag, boardLink, BoardTypes
<1>4. /\ m.op # "request" => (Asks(s)' <=> Asks(s))
      /\ m.op = "request" => Asks(s) /\ Silent(webOut[s], i)
      /\ Asks(s)' => Asks(s)
      /\ AsksLast(webOut'[s], i)
  BY <1>1, <1>2, <1>3, AsksTail DEF Asks, InTurn
<1>5. Silent(webOut[s], i) <=> ~Concerns(m, i) /\ Silent(webOut'[s], i)
  BY <1>2, <1>3, SilentTail
<1>6. CASE m = RequestFullSync
  <2>1. /\ UNCHANGED <<store, boardNet>>
        /\ webIn' = PostTo(s, FullSync(store[s])) /\ UNCHANGED panel
    BY <1>6 DEF PanelReceives
  <2>2. m.op = "request"
    BY <1>6 DEF RequestFullSync
  <2>3. /\ webIn'[p] = webIn[p]
        /\ webIn'[s] = IF panel[s] = "up" THEN Append(webIn[s], FullSync(store[s])) ELSE webIn[s]
    BY <1>0, <2>1 DEF PostTo, BoardTypes
  <2>4. ~Working(s, i) /\ ~Working(s, i)'
    BY <1>1, <1>3, <1>4, <1>5, <2>2 DEF Working, InTurn
  <2>5. (Working(p, i)' <=> Working(p, i)) /\ (Asks(p)' <=> Asks(p)) /\ WebviewMeets(p, i)'
    BY <1>0, <1>1, <1>3, <2>1, <2>3, SideKept
  <2>6. InTurn(s, i)' /\ InTurn(p, i)'
    <3>1. HasTurn(p, i) => HasTurn(p, i)'
      BY <1>0, <1>3, <2>1, <2>3, <2>4 DEF HasTurn
    <3> QED BY <1>1, <1>3, <1>4, <2>1, <2>4, <2>5, <3>1 DEF InTurn
  <2>7. WebviewMeets(s, i)'
    <3> SUFFICES ASSUME panel[s] = "up" PROVE Brings(webIn'[s], i, web[s][i], store[s][i])
      BY <1>3, <2>1, <2>4 DEF WebviewMeets
    <3> DEFINE f == FullSync(store[s])
    <3>1. f \in Message /\ Becomes(f, i, web[s][i]) = store[s][i]
      <4>1. f \in NetMessage
        BY SyncMade, QueuesAre
      <4> QED BY <4>1, OutKinds DEF Becomes, Concerns, FullSync
    <3>2. \A x \in Value : Becomes(f, i, x) = store[s][i]
      BY DEF Becomes, Concerns, FullSync
    <3> HIDE DEF f
    <3>3. webIn'[s] = Append(webIn[s], f)
      BY <2>3 DEF f
    <3>4. Brings(Append(webIn[s], f), i, web[s][i], store[s][i])
      <4> SUFFICES ASSUME NEW xs, Passes(Append(webIn[s], f), i, xs)
                   PROVE  xs[Len(Append(webIn[s], f))] = store[s][i]
        BY BringsIs
      <4>1. webIn[s] \in Seq(Message)
        BY QueuesAre
      <4>2. Len(webIn[s]) \in Nat /\ Len(Append(webIn[s], f)) = Len(webIn[s]) + 1
            /\ Append(webIn[s], f)[Len(webIn[s]) + 1] = f
        BY <3>1, <4>1
      <4>3. Len(webIn[s]) + 1 \in 1 .. Len(Append(webIn[s], f)) /\ (Len(webIn[s]) + 1) - 1 = Len(webIn[s])
            /\ Len(webIn[s]) \in 0 .. Len(Append(webIn[s], f))
        BY <4>2
      <4>4. xs[Len(webIn[s]) + 1] = Becomes(f, i, xs[Len(webIn[s])]) /\ xs[Len(webIn[s])] \in Value
        BY <4>2, <4>3 DEF Passes
      <4> QED BY <3>2, <4>2, <4>4
    <3> QED BY <3>3, <3>4
  <2>8. StoresMeet(s, i)' /\ StoresMeet(p, i)'
    BY <1>1, <1>3, <2>1 DEF StoresMeet
  <2> QED BY <1>0, <2>5, <2>6, <2>7, <2>8 DEF EntityFits
<1>7. CASE m # RequestFullSync
  <2>1. /\ store' = [store EXCEPT ![s] = Apply(m, @)] /\ UNCHANGED webIn
        /\ boardNet' = IF linked /\ s \notin muted
                       THEN [boardNet EXCEPT ![s] = Append(@, m)] ELSE boardNet
    BY <1>7 DEF PanelReceives
  <2>2. m \in NetMessage /\ m \in Message /\ m.op # "request"
    BY <1>2, <1>7, OutKinds
  <2> HIDE DEF m
  <2>3. /\ store'[s][i] = Becomes(m, i, store[s][i]) /\ store'[p] = store[p]
        /\ boardNet'[p] = boardNet[p]
        /\ boardNet'[s] = IF linked /\ s \notin muted THEN Append(boardNet[s], m) ELSE boardNet[s]
    <3>1. Apply(m, store[s])[i] = Becomes(m, i, store[s][i])
      BY <2>2, Applied, QueuesAre
    <3> QED BY <1>0, <2>1, <3>1 DEF BoardTypes
  <2>4. (Working(p, i)' <=> Working(p, i)) /\ (Asks(p)' <=> Asks(p)) /\ WebviewMeets(p, i)'
    BY <1>0, <1>1, <1>3, <2>1, <2>3, SideKept
  <2>5. (Asks(s)' <=> Asks(s)) /\ (Working(s, i)' => Working(s, i))
    BY <1>3, <1>4, <1>5, <2>2 DEF Working
  <2>6. ~Concerns(m, i) => (Working(s, i)' <=> Working(s, i)) /\ store'[s][i] = store[s][i]
    BY <1>3, <1>5, <2>3, BecomesSilent DEF Working
  <2>7. Concerns(m, i) => Working(s, i) /\ HasTurn(s, i)
    BY <1>1, <1>5 DEF InTurn, Working
  <2>8. Silent(boardNet'[s], i) <=> Silent(boardNet[s], i) /\ (linked /\ s \notin muted => ~Concerns(m, i))
    BY <2>2, <2>3, SilentAppend, QueuesAre
  <2>9. InTurn(s, i)'
    <3>1. HasTurn(s, i) => HasTurn(s, i)'
      BY <1>0, <1>3, <2>1, <2>3, <2>4 DEF HasTurn, p
    <3>2. Silent(boardNet'[s], i) \/ Silent(boardNet'[p], i)
      BY <1>1, <2>3, <2>7, <2>8 DEF InTurn, HasTurn, p
    <3> QED BY <1>1, <1>3, <1>4, <2>5, <3>1, <3>2 DEF InTurn, p
  <2>10. InTurn(p, i)'
    <3>1. Working(p, i) => HasTurn(p, i)'
      <4> SUFFICES ASSUME Working(p, i) PROVE HasTurn(p, i)'
        OBVIOUS
      <4>1. HasTurn(p, i)
        BY <1>1 DEF InTurn
      <4>2. ~Concerns(m, i)
        BY <2>7 DEF HasTurn, p
      <4> QED BY <1>0, <1>3, <2>1, <2>5, <2>8, <4>1, <4>2 DEF HasTurn
    <3>2. Silent(boardNet'[s], i) \/ Silent(boardNet'[p], i)
      BY <1>1, <2>3, <2>7, <2>8 DEF InTurn, HasTurn, p
    <3>3. (Asks(p) => i \notin dragging[p]) /\ AsksLast(webOut[p], i)
      BY <1>1 DEF InTurn
    <3> QED BY <1>0, <1>3, <2>4, <3>1, <3>2, <3>3 DEF InTurn
  <2>11. StoresMeet(s, i)'
    <3> SUFFICES ASSUME linked, Silent(boardNet[p], i)
                 PROVE  Brings(boardNet'[s], i, store[p][i], store'[s][i])
      BY <1>3, <2>3 DEF StoresMeet, p
    <3>1. Brings(boardNet[s], i, store[p][i], store[s][i])
      BY <1>1 DEF StoresMeet, p
    <3>2. CASE s \notin muted
      BY <2>2, <2>3, <3>1, <3>2, BringsAppend, QueuesAre
    <3>3. CASE s \in muted
      <4>1. ~Concerns(m, i)
        BY <2>7, <3>3 DEF HasTurn
      <4> QED BY <2>3, <2>6, <3>1, <3>3, <4>1
    <3> QED BY <3>2, <3>3
  <2>12. StoresMeet(p, i)'
    <3> SUFFICES ASSUME linked, Silent(boardNet'[s], i)
                 PROVE  Brings(boardNet[p], i, store'[s][i], store[p][i])
      BY <1>0, <1>3, <2>3 DEF StoresMeet
    <3>1. Silent(boardNet[s], i) /\ ~Concerns(m, i)
      BY <2>7, <2>8 DEF HasTurn
    <3>2. Brings(boardNet[p], i, store[s][i], store[p][i])
      BY <1>0, <1>1, <3>1 DEF StoresMeet
    <3> QED BY <2>6, <3>1, <3>2
  <2>13. WebviewMeets(s, i)'
    <3>1. CASE Working(s, i)
      <4> SUFFICES ASSUME panel[s] = "up", ~Asks(s) PROVE WebviewMeets(s, i)'
        BY <1>3, <2>5 DEF WebviewMeets
      <4>1. StoreFollows(s, i) /\ Silent(webIn[s], i)
        BY <1>1, <3>1 DEF WebviewMeets, InTurn, HasTurn
      <4>2. PICK y \in Value : /\ Brings(webOut[s], i, store[s][i], y)
                               /\ y = 0 <=> web[s][i] = 0
                               /\ i \notin dragging[s] => y = web[s][i]
        BY <4>1 DEF StoreFollows
      <4>3. Brings(webOut'[s], i, store'[s][i], y)
        BY <1>2, <1>3, <2>3, <4>2, BringsTail, QueuesAre DEF m
      <4>4. StoreFollows(s, i)'
        BY <1>3, <4>2, <4>3 DEF StoreFollows
      <4> QED BY <2>1, <4>1, <4>4, CaughtUpNext
    <3>2. CASE ~Working(s, i)
      BY <1>1, <1>3, <2>1, <2>5, <2>6, <2>7, <3>2 DEF WebviewMeets
    <3> QED BY <3>1, <3>2
  <2> QED BY <1>0, <2>4, <2>9, <2>10, <2>11, <2>12, <2>13 DEF EntityFits
<1> QED BY <1>6, <1>7

\* A message of the partner arrives.
LEMMA HandleFits ==
    ASSUME BoardTypes, BoardTypes', NEW i \in Entity \ contested', EntityFits(i),
           NEW s \in Party, HandleBoardMessage(s)
    PROVE  EntityFits(i)'
<1> DEFINE p == Partner(s)
           m == Head(boardNet[p])
<1>0. p \in Party /\ p # s /\ Partner(p) = s /\ \A t \in Party : t = s \/ t = p
  BY OtherSide
<1>1. /\ InTurn(s, i) /\ InTurn(p, i) /\ StoresMeet(s, i) /\ StoresMeet(p, i)
      /\ WebviewMeets(s, i) /\ WebviewMeets(p, i)
  BY <1>0 DEF EntityFits
<1>2. /\ boardNet[p] # << >> /\ boardNet' = [boardNet EXCEPT ![p] = Tail(@)]
      /\ store' = [store EXCEPT ![s] = Apply(m, @)]
      /\ \/ panel[s] = "none" /\ LoadWebview(s)
         \/ UNCHANGED <<panel, webOut>>
      /\ webIn' = PostTo(s, m)
      /\ UNCHANGED <<web, linked, muted, dragging>>
  BY DEF HandleBoardMessage, KeepAuthoritative, KeepDrag, boardLink
<1> HIDE DEF p
<1>3. boardNet[p] \in Seq(NetMessage) /\ linked
  BY <1>0, <1>2 DEF BoardTypes
<1>4. /\ m \in NetMessage /\ m \in Message /\ m.op # "request"
      /\ Silent(boardNet[p], i) <=> ~Concerns(m, i) /\ Silent(Tail(boardNet[p]), i)
  BY <1>2, <1>3, Received, SilentTail
<1>5. store'[s][i] = Becomes(m, i, store[s][i]) /\ store'[p] = store[p]
      /\ boardNet'[p] = Tail(boardNet[p]) /\ boardNet'[s] = boardNet[s]
  <2>1. Apply(m, store[s])[i] = Becomes(m, i, store[s][i])
    BY <1>4, Applied, QueuesAre
  <2> QED BY <1>0, <1>2, <2>1 DEF BoardTypes
<1>6. ASSUME NEW x \in Value, NEW y, Brings(boardNet[p], i, x, y)
      PROVE  Brings(boardNet'[p], i, Becomes(m, i, x), y)
  BY <1>2, <1>3, <1>5, <1>6, Received
<1> HIDE DEF m
<1>7. \/ /\ panel[s] = "none" /\ panel' = [panel EXCEPT ![s] = "up"]
         /\ webOut' = [webOut EXCEPT ![s] = Append(@, RequestFullSync)]
      \/ panel' = panel /\ webOut' = webOut
  BY <1>2 DEF LoadWebview
<1>8. /\ webIn'[p] = webIn[p] /\ panel'[p] = panel[p] /\ webOut'[p] = webOut[p]
      /\ webIn'[s] = IF panel'[s] = "up" THEN Append(webIn[s], m) ELSE webIn[s]
      /\ \/ panel[s] # "up" /\ webOut'[s] = Append(webOut[s], RequestFullSync)
         \/ panel'[s] = panel[s] /\ webOut'[s] = webOut[s]
  <2>0. webOut \in [Party -> Seq(OutMessage)] /\ webIn \in [Party -> Seq(NetMessage)]
        /\ panel \in [Party -> {"none", "hidden", "up"}]
    BY DEF BoardTypes
  <2>1. webIn' = IF panel'[s] = "up" THEN [webIn EXCEPT ![s] = Append(@, m)] ELSE webIn
    BY <1>2 DEF PostTo
  <2>2. webIn'[p] = webIn[p]
        /\ webIn'[s] = IF panel'[s] = "up" THEN Append(webIn[s], m) ELSE webIn[s]
    BY <1>0, <2>0, <2>1
  <2>3. CASE panel' = panel /\ webOut' = webOut
    BY <2>2, <2>3
  <2>4. CASE /\ panel[s] = "none" /\ panel' = [panel EXCEPT ![s] = "up"]
             /\ webOut' = [webOut EXCEPT ![s] = Append(@, RequestFullSync)]
    <3>1. panel'[p] = panel[p] /\ webOut'[p] = webOut[p]
          /\ webOut'[s] = Append(webOut[s], RequestFullSync)
      BY <1>0, <2>0, <2>4
    <3> QED BY <2>2, <2>4, <3>1
  <2> QED BY <1>7, <2>3, <2>4
<1>9. /\ Silent(webOut'[s], i) <=> Silent(webOut[s], i)
      /\ AsksLast(webOut'[s], i)
      /\ Asks(s) => Asks(s)'
      /\ Asks(s)' \/ (panel'[s] = panel[s] /\ webOut'[s] = webOut[s])
      /\ Asks(s)' => i \notin dragging[s]
  <2>1. CASE panel[s] # "up" /\ webOut'[s] = Append(webOut[s], RequestFullSync)
    <3>1. /\ AsksIn(webOut'[s]) /\ AsksLast(webOut'[s], i)
          /\ Silent(webOut'[s], i) <=> Silent(webOut[s], i)
      BY <1>1, <2>1, AsksAppended, QueuesAre DEF InTurn
    <3>2. i \notin dragging[s]
      BY <2>1 DEF BoardTypes
    <3> QED BY <3>1, <3>2 DEF Asks
  <2>2. CASE panel'[s] = panel[s] /\ webOut'[s] = webOut[s]
    BY <1>1, <2>2 DEF InTurn, Asks
  <2> QED BY <1>8, <2>1, <2>2
<1>10. /\ (Working(s, i)' <=> Working(s, i)) /\ (Working(p, i)' <=> Working(p, i))
       /\ (Asks(p)' <=> Asks(p)) /\ WebviewMeets(p, i)'
  BY <1>0, <1>1, <1>2, <1>5, <1>8, <1>9, SideKept DEF Working
<1>11. Concerns(m, i) => ~Working(s, i) /\ Silent(boardNet[s], i)
  BY <1>1, <1>4 DEF InTurn, HasTurn, p
<1>12. ~Concerns(m, i) => store'[s][i] = store[s][i]
  BY <1>5, BecomesSilent
<1>13. Silent(webIn'[s], i) <=> Silent(webIn[s], i) /\ (panel'[s] = "up" => ~Concerns(m, i))
  BY <1>4, <1>8, SilentAppend, QueuesAre
<1>14. InTurn(s, i)'
  <2>1. Working(s, i) => HasTurn(s, i)'
    <3> SUFFICES ASSUME Working(s, i) PROVE HasTurn(s, i)'
      OBVIOUS
    <3>1. HasTurn(s, i) /\ ~Concerns(m, i)
      BY <1>1, <1>11 DEF InTurn
    <3>2. Silent(boardNet'[p], i) /\ Silent(webIn'[s], i)
      BY <1>4, <1>5, <1>13, <3>1 DEF HasTurn, p
    <3> QED BY <1>2, <1>10, <3>1, <3>2 DEF HasTurn, p
  <2>2. Silent(boardNet'[s], i) \/ Silent(boardNet'[p], i)
    BY <1>1, <1>4, <1>5 DEF InTurn, p
  <2> QED BY <1>2, <1>9, <1>10, <2>1, <2>2 DEF InTurn, p
<1>15. InTurn(p, i)'
  <2>1. HasTurn(p, i) => HasTurn(p, i)'
    BY <1>0, <1>2, <1>5, <1>8, <1>10 DEF HasTurn
  <2>2. Silent(boardNet'[s], i) \/ Silent(boardNet'[p], i)
    BY <1>1, <1>4, <1>5 DEF InTurn, p
  <2> QED BY <1>0, <1>1, <1>2, <1>8, <1>10, <2>1, <2>2 DEF InTurn
<1>16. StoresMeet(p, i)'
  <2> SUFFICES ASSUME Silent(boardNet[s], i)
               PROVE  Brings(boardNet'[p], i, store'[s][i], store[p][i])
    BY <1>0, <1>5 DEF StoresMeet
  <2>1. Brings(boardNet[p], i, store[s][i], store[p][i])
    BY <1>0, <1>1, <1>3 DEF StoresMeet
  <2> QED BY <1>5, <1>6, <2>1, QueuesAre
<1>17. StoresMeet(s, i)'
  <2> SUFFICES ASSUME Silent(boardNet'[p], i)
               PROVE  Brings(boardNet[s], i, store[p][i], store'[s][i])
    BY <1>5 DEF StoresMeet, p
  <2>1. CASE ~Concerns(m, i)
    BY <1>1, <1>3, <1>4, <1>5, <1>12, <2>1 DEF StoresMeet, p
  <2>2. CASE Concerns(m, i)
    <3>1. Silent(boardNet[s], i)
      BY <1>11, <2>2
    <3>2. Brings(boardNet[p], i, store[s][i], store[p][i])
      BY <1>0, <1>1, <1>3, <3>1 DEF StoresMeet
    <3>3. Brings(boardNet'[p], i, store'[s][i], store[p][i])
      BY <1>5, <1>6, <3>2, QueuesAre
    <3>4. store'[s][i] \in Value /\ boardNet'[p] \in Seq(Message)
      <4>1. store'[s][i] \in Value
        BY <1>4, <1>5, BecomesTyped, QueuesAre
      <4>2. boardNet[p] \in Seq(Message)
        BY <1>0, QueuesAre
      <4> QED BY <1>2, <1>5, <4>1, <4>2
    <3>5. store[p][i] = store'[s][i]
      BY <3>3, <3>4, BringsSame
    <3> QED BY <3>1, <3>5, BringsSilent, QueuesAre
  <2> QED BY <2>1, <2>2
<1>18. WebviewMeets(s, i)'
  <2> SUFFICES ASSUME panel'[s] = "up", ~Asks(s)' PROVE WebviewMeets(s, i)'
    BY DEF WebviewMeets
  <2>1. panel[s] = "up" /\ webOut'[s] = webOut[s] /\ ~Asks(s)
    BY <1>9
  <2>2. webIn'[s] = Append(webIn[s], m)
    BY <1>8
  <2>3. CASE Working(s, i)
    <3>1. StoreFollows(s, i)
      BY <1>1, <2>1, <2>3 DEF WebviewMeets
    <3>2. store'[s][i] = store[s][i]
      BY <1>11, <1>12, <2>3
    <3>3. StoreFollows(s, i)'
      BY <1>2, <2>1, <3>1, <3>2 DEF StoreFollows
    <3> QED BY <1>10, <2>3, <3>3 DEF WebviewMeets
  <2>4. CASE ~Working(s, i)
    <3>1. Brings(webIn[s], i, web[s][i], store[s][i])
      BY <1>1, <2>1, <2>4 DEF WebviewMeets
    <3>2. Brings(webIn'[s], i, web[s][i], store'[s][i])
      BY <1>4, <1>5, <2>2, <3>1, BringsAppend, QueuesAre
    <3> QED BY <1>2, <1>10, <2>4, <3>2 DEF WebviewMeets
  <2> QED BY <2>3, <2>4
<1> QED BY <1>0, <1>10, <1>14, <1>15, <1>16, <1>17, <1>18 DEF EntityFits

\* The connection is lost with what was on it.
LEMMA DisconnectFits ==
    ASSUME BoardTypes, BoardTypes', NEW i \in Entity \ contested', EntityFits(i), BoardDisconnects
    PROVE  EntityFits(i)'
<1> SUFFICES ASSUME NEW s \in Party PROVE (InTurn(s, i) /\ StoresMeet(s, i) /\ WebviewMeets(s, i))'
  BY DEF EntityFits
<1>0. Partner(s) \in Party /\ InTurn(s, i) /\ WebviewMeets(s, i)
  BY OtherSide DEF EntityFits
<1>1. /\ ~linked' /\ boardNet'[s] = << >> /\ boardNet'[Partner(s)] = << >>
      /\ UNCHANGED <<web, store, panel, webOut, webIn, muted, dragging>>
  BY <1>0 DEF BoardDisconnects, KeepDrag
<1>2. Silent(boardNet'[s], i) /\ Silent(boardNet'[Partner(s)], i)
  BY <1>1 DEF Silent
<1>3. (Working(s, i)' <=> Working(s, i)) /\ (Working(Partner(s), i)' <=> Working(Partner(s), i))
      /\ (Asks(s)' <=> Asks(s)) /\ WebviewMeets(s, i)'
  BY <1>0, <1>1, SideKept
<1>4. HasTurn(s, i) => HasTurn(s, i)'
  BY <1>1, <1>2, <1>3 DEF HasTurn
<1>5. InTurn(s, i)'
  BY <1>0, <1>1, <1>2, <1>3, <1>4 DEF InTurn
<1>6. StoresMeet(s, i)'
  BY <1>1 DEF StoresMeet
<1> QED BY <1>3, <1>5, <1>6

\* The connection is back, and the host's store goes to the client.
LEMMA StoreSentFits ==
    ASSUME BoardTypes, BoardTypes', NEW i \in Entity \ contested', EntityFits(i),
           NEW again \in {{}, {"client"}, Party}, BoardReconnects(again),
           store["host"] # Blank
    PROVE  EntityFits(i)'
<1>0. /\ "host" \in Party /\ "client" \in Party /\ Partner("host") = "client"
      /\ Partner("client") = "host" /\ "host" # "client" /\ \A s \in Party : s = "host" \/ s = "client"
  BY DEF Party, Partner
<1>1. /\ boardNet["host"] = << >> /\ boardNet["client"] = << >>
      /\ InTurn("host", i) /\ InTurn("client", i)
      /\ WebviewMeets("host", i) /\ WebviewMeets("client", i)
  BY <1>0 DEF BoardTypes, EntityFits, BoardReconnects
<1> DEFINE f == FullSync(store["host"])
<1>2. \A s \in muted' \cup {"client"} : i \notin dragging[s] /\ Silent(webOut[s], i)
  BY DEF BoardReconnects, Silent
<1>3. /\ boardNet' = [boardNet EXCEPT !["host"] = <<f>>]
      /\ UNCHANGED <<web, store, panel, webOut, webIn, dragging>>
  BY <1>2 DEF BoardReconnects, KeepDrag
<1>4. boardNet'["host"] = <<f>> /\ boardNet'["client"] = << >>
  BY <1>0, <1>1, <1>3 DEF BoardTypes
<1>5. /\ \A x : Becomes(f, i, x) = store["host"][i]
      /\ Concerns(f, i)
  BY DEF Becomes, Concerns, FullSync
<1> HIDE DEF f
<1>6. Silent(boardNet'["client"], i) /\ ~Silent(boardNet'["host"], i)
  BY <1>4, <1>5 DEF Silent
<1>7. ASSUME NEW s \in Party
      PROVE  (Working(s, i)' <=> Working(s, i)) /\ (Asks(s)' <=> Asks(s))
             /\ (WebviewMeets(s, i) => WebviewMeets(s, i)')
  BY <1>3, SideKept
<1>8. ~Working("client", i) /\ (Working("host", i) => "host" \notin muted')
  BY <1>2 DEF Working
<1>9. InTurn("host", i)'
  <2>1. Working("host", i) => HasTurn("host", i)'
    BY <1>0, <1>1, <1>3, <1>6, <1>7, <1>8 DEF InTurn, HasTurn
  <2> QED BY <1>0, <1>1, <1>3, <1>6, <1>7, <2>1 DEF InTurn
<1>10. InTurn("client", i)'
  BY <1>0, <1>1, <1>3, <1>6, <1>7, <1>8 DEF InTurn
<1>11. StoresMeet("host", i)'
  <2>1. Brings(<<f>>, i, store["client"][i], store["host"][i])
    BY <1>5, BringsOne
  <2> QED BY <1>0, <1>3, <1>4, <2>1 DEF StoresMeet
<1>12. StoresMeet("client", i)'
  BY <1>0, <1>6 DEF StoresMeet
<1> QED BY <1>0, <1>1, <1>7, <1>9, <1>10, <1>11, <1>12 DEF EntityFits

\* The host's store is empty, and so is the client's place for what is not
\* contested: nothing is sent, and the two go on as before.
LEMMA NothingSentFits ==
    ASSUME BoardTypes, BoardTypes', NEW i \in Entity \ contested', EntityFits(i),
           NEW again \in {{}, {"client"}, Party}, BoardReconnects(again),
           store["host"] = Blank
    PROVE  EntityFits(i)'
<1> SUFFICES ASSUME NEW s \in Party PROVE (InTurn(s, i) /\ StoresMeet(s, i) /\ WebviewMeets(s, i))'
  BY DEF EntityFits
<1>0. /\ Partner(s) \in Party /\ InTurn(s, i) /\ WebviewMeets(s, i)
      /\ (s = "host" /\ Partner(s) = "client") \/ (s = "client" /\ Partner(s) = "host")
  BY OtherSide DEF EntityFits, Party, Partner
<1>1. boardNet[s] = << >> /\ boardNet[Partner(s)] = << >>
  BY <1>0 DEF BoardTypes, BoardReconnects
<1>2. UNCHANGED <<web, store, panel, webOut, webIn, boardNet, dragging>>
  BY DEF BoardReconnects, KeepDrag
<1>3. /\ store["client"][i] = 0
      /\ \A t \in muted' : i \notin dragging[t] /\ Silent(webOut[t], i)
  BY DEF BoardReconnects, Silent
<1>4. (Working(s, i)' <=> Working(s, i)) /\ (Working(Partner(s), i)' <=> Working(Partner(s), i))
      /\ (Asks(s)' <=> Asks(s)) /\ WebviewMeets(s, i)'
  BY <1>0, <1>2, SideKept
<1>5. Working(s, i) => s \notin muted'
  BY <1>3 DEF Working
<1>6. InTurn(s, i)'
  <2>1. Working(s, i) => HasTurn(s, i)'
    BY <1>0, <1>2, <1>4, <1>5 DEF InTurn, HasTurn
  <2> QED BY <1>0, <1>2, <1>4, <2>1 DEF InTurn
<1>7. StoresMeet(s, i)'
  <2>1. store["host"][i] = 0
    BY DEF Blank
  <2>2. store[s][i] = 0 /\ store[Partner(s)][i] = 0 /\ 0 \in Value
    BY <1>0, <1>3, <2>1 DEF Value
  <2>3. boardNet'[s] = << >> /\ store'[s][i] = 0 /\ store'[Partner(s)][i] = 0
    BY <1>1, <1>2, <2>2
  <2>4. Silent(<< >>, i) /\ << >> \in Seq(Message)
    BY DEF Silent
  <2>5. Brings(<< >>, i, 0, 0)
    BY <2>4, BringsSilent
  <2> QED BY <2>3, <2>5 DEF StoresMeet
<1> QED BY <1>4, <1>6, <1>7

\* What the connection that is back cannot settle is contested.
LEMMA ReconnectFits ==
    ASSUME BoardTypes, BoardTypes', NEW i \in Entity \ contested', EntityFits(i),
           NEW again \in {{}, {"client"}, Party}, BoardReconnects(again)
    PROVE  EntityFits(i)'
BY StoreSentFits, NothingSentFits

\* The invariant at the start.
LEMMA BoardInvInit == BoardInit => BoardInv
<1> SUFFICES ASSUME BoardInit PROVE BoardInv
  OBVIOUS
<1>1. BoardTypes
  BY BoardTypesInit
<1>2. ASSUME NEW i \in Entity, NEW s \in Party
      PROVE  InTurn(s, i) /\ StoresMeet(s, i) /\ WebviewMeets(s, i)
  <2>0. Partner(s) \in Party
    BY OtherSide
  <2>1. /\ \A t \in Party : webOut[t] = << >> /\ boardNet[t] = << >> /\ dragging[t] = {}
        /\ panel[s] = "none" /\ store[s] = store[Partner(s)]
    BY <2>0 DEF BoardInit
  <2>2. Silent(<< >>, i) /\ ~AsksIn(<< >>) /\ AsksLast(<< >>, i)
    BY DEF Silent, AsksIn, AsksLast
  <2>3. InTurn(s, i)
    BY <2>0, <2>1, <2>2 DEF InTurn, Working, Asks
  <2>4. StoresMeet(s, i)
    BY <1>1, <2>0, <2>1, <2>2, BringsSilent, QueuesAre DEF StoresMeet
  <2> QED BY <2>1, <2>3, <2>4 DEF WebviewMeets
<1> QED BY <1>1, <1>2 DEF BoardInv, EntityFits

\* What is contested stays so, hence the invariant may be kept for the
\* others only.
LEMMA ContestedGrows == [BoardNext]_boardVars => contested \subseteq contested'
<1> SUFFICES ASSUME [BoardNext]_boardVars PROVE contested \subseteq contested'
  OBVIOUS
<1>1. ASSUME NEW s \in Party, NEW ids, UserDraws(s, ids) PROVE contested \subseteq contested'
  BY <1>1 DEF UserDraws
<1>2. ASSUME NEW s \in Party, NEW i \in Entity,
             Draw(s, i) \/ DeleteEntity(s, i) \/ \E v \in Look : Drag(s, i, v)
      PROVE  contested \subseteq contested'
  BY <1>1, <1>2 DEF Draw, DeleteEntity, Drag
<1>3. ASSUME NEW s \in Party, ClearBoard(s) \/ Undo(s) \/ Redo(s)
      PROVE  contested \subseteq contested'
  BY <1>1, <1>3 DEF ClearBoard, Undo, Redo
<1>4. ASSUME NEW s \in Party, FinishDrag(s) \/ WebviewReceives(s) \/ OpenWhiteboard(s)
      PROVE  contested \subseteq contested'
  BY <1>4 DEF FinishDrag, WebviewReceives, OpenWhiteboard
<1>5. ASSUME NEW s \in Party, \/ WebviewGoes(s, "hidden") \/ WebviewGoes(s, "none")
                              \/ PanelReceives(s) \/ HandleBoardMessage(s)
      PROVE  contested \subseteq contested'
  BY <1>5 DEF WebviewGoes, PanelReceives, HandleBoardMessage
<1>6. CASE BoardDisconnects \/ (\E again \in {{}, {"client"}, Party} : BoardReconnects(again))
  BY <1>6 DEF BoardDisconnects, BoardReconnects
<1>7. CASE UNCHANGED boardVars
  BY <1>7 DEF boardVars
<1> QED BY <1>2, <1>3, <1>4, <1>5, <1>6, <1>7 DEF BoardNext

\* The invariant is inductive.
LEMMA BoardStep == BoardInv /\ [BoardNext]_boardVars => BoardInv'
<1> SUFFICES ASSUME BoardInv, [BoardNext]_boardVars PROVE BoardInv'
  OBVIOUS
<1>0. BoardTypes /\ BoardTypes'
  BY BoardTypesStep DEF BoardInv
<1> SUFFICES ASSUME NEW i \in Entity \ contested' PROVE EntityFits(i)'
  BY <1>0 DEF BoardInv
<1>1. EntityFits(i)
  BY ContestedGrows DEF BoardInv
<1>2. ASSUME NEW s \in Party, NEW e \in Entity, Draw(s, e) PROVE EntityFits(i)'
  BY <1>0, <1>1, <1>2, DrawFits
<1>3. ASSUME NEW s \in Party, NEW e \in Entity, DeleteEntity(s, e) PROVE EntityFits(i)'
  BY <1>0, <1>1, <1>3, DeleteFits
<1>4. ASSUME NEW s \in Party, NEW e \in Entity, NEW v \in Look, Drag(s, e, v) PROVE EntityFits(i)'
  BY <1>0, <1>1, <1>4, DragFits
<1>5. ASSUME NEW s \in Party, FinishDrag(s) PROVE EntityFits(i)'
  BY <1>0, <1>1, <1>5, FinishFits
<1>6. ASSUME NEW s \in Party, ClearBoard(s) PROVE EntityFits(i)'
  BY <1>0, <1>1, <1>6, ClearFits
<1>7. ASSUME NEW s \in Party, Undo(s) \/ Redo(s) PROVE EntityFits(i)'
  BY <1>0, <1>1, <1>7, UndoFits
<1>8. ASSUME NEW s \in Party, WebviewReceives(s) PROVE EntityFits(i)'
  BY <1>0, <1>1, <1>8, ReceivesFits
<1>9. ASSUME NEW s \in Party, OpenWhiteboard(s) PROVE EntityFits(i)'
  BY <1>0, <1>1, <1>9, OpenFits
<1>10. ASSUME NEW s \in Party, NEW left \in {"hidden", "none"}, WebviewGoes(s, left)
       PROVE  EntityFits(i)'
  BY <1>0, <1>1, <1>10, GoesFits
<1>11. ASSUME NEW s \in Party, PanelReceives(s) PROVE EntityFits(i)'
  BY <1>0, <1>1, <1>11, PanelFits
<1>12. ASSUME NEW s \in Party, HandleBoardMessage(s) PROVE EntityFits(i)'
  BY <1>0, <1>1, <1>12, HandleFits
<1>13. CASE BoardDisconnects
  BY <1>0, <1>1, <1>13, DisconnectFits
<1>14. ASSUME NEW again \in {{}, {"client"}, Party}, BoardReconnects(again) PROVE EntityFits(i)'
  BY <1>0, <1>1, <1>14, ReconnectFits
<1>15. CASE UNCHANGED boardVars
  <2>1. UNCHANGED <<web, store, panel, webOut, webIn, boardNet, linked, muted, dragging>>
    BY <1>15 DEF boardVars
  <2>2. ASSUME NEW s \in Party PROVE (InTurn(s, i) /\ StoresMeet(s, i) /\ WebviewMeets(s, i))'
    <3>1. Partner(s) \in Party /\ InTurn(s, i) /\ StoresMeet(s, i) /\ WebviewMeets(s, i)
      BY <1>1, OtherSide DEF EntityFits
    <3>2. (Working(s, i)' <=> Working(s, i)) /\ (Working(Partner(s), i)' <=> Working(Partner(s), i))
          /\ (Asks(s)' <=> Asks(s)) /\ (WebviewMeets(s, i)' <=> WebviewMeets(s, i))
      BY <2>1, <3>1, SideKept
    <3> QED BY <2>1, <3>1, <3>2 DEF InTurn, HasTurn, StoresMeet
  <2> QED BY <2>2 DEF EntityFits
<1> QED BY <1>2, <1>3, <1>4, <1>5, <1>6, <1>7, <1>8, <1>9, <1>10, <1>11, <1>12, <1>13, <1>14, <1>15
        DEF BoardNext

\* With empty queues, messages that meet have met.
LEMMA QuietBoards == BoardInv => UncontestedEntitiesAgree
<1> SUFFICES ASSUME BoardInv, BoardQuiet, NEW i \in Entity \ contested
             PROVE  /\ store["host"][i] = store["client"][i]
                    /\ \A s \in Party : panel[s] = "up" => web[s][i] = store[s][i]
  BY DEF UncontestedEntitiesAgree
<1>0. BoardTypes /\ EntityFits(i) /\ linked
      /\ \A s \in Party : webOut[s] = << >> /\ webIn[s] = << >> /\ boardNet[s] = << >> /\ dragging[s] = {}
  BY DEF BoardInv, BoardQuiet
<1>1. Silent(<< >>, i) /\ ~AsksIn(<< >>)
  BY DEF Silent, AsksIn
<1>2. store["host"][i] = store["client"][i]
  <2>1. "host" \in Party /\ "client" \in Party /\ Partner("host") = "client"
    BY DEF Party, Partner
  <2>2. Brings(boardNet["host"], i, store["client"][i], store["host"][i])
    BY <1>0, <1>1, <2>1 DEF EntityFits, StoresMeet
  <2> QED BY <1>0, <1>1, <2>1, <2>2, BringsSame, QueuesAre
<1>3. ASSUME NEW s \in Party, panel[s] = "up" PROVE web[s][i] = store[s][i]
  <2>1. ~Working(s, i) /\ ~Asks(s)
    BY <1>0, <1>1 DEF Working, Asks
  <2>2. Brings(webIn[s], i, web[s][i], store[s][i])
    BY <1>0, <1>3, <2>1 DEF EntityFits, WebviewMeets
  <2> QED BY <1>0, <1>1, <2>2, BringsSame, QueuesAre
<1> QED BY <1>2, <1>3

\* Once quiet both stores, and the webviews that are up, have the same
\* entities, looking the same, but for the contested ones.
THEOREM EntitiesAgree == BoardSpec => []UncontestedEntitiesAgree
BY BoardInvInit, BoardStep, QuietBoards, PTL DEF BoardSpec

-------------------------------------------------------------------------------
(* The features together *)

\* Every feature starts as it does by itself.
LEMMA FeaturesInit ==
    Init => IsenseInit /\ ReadInit /\ FileInit /\ GitInit /\ DiagInit /\ FollowInit /\ BoardInit
BY DEF Init

\* A step of one feature leaves the others alone.
LEMMA FeaturesStep ==
    [Next]_vars => /\ [IsenseNext]_isenseVars /\ [ReadNext]_readVars /\ [FileNext]_fileVars
                   /\ [GitNext]_gitVars /\ [DiagNext]_diagVars /\ [FollowNext]_followVars
                   /\ [BoardNext]_boardVars
<1> SUFFICES ASSUME [Next]_vars
             PROVE  /\ [IsenseNext]_isenseVars /\ [ReadNext]_readVars /\ [FileNext]_fileVars
                    /\ [GitNext]_gitVars /\ [DiagNext]_diagVars /\ [FollowNext]_followVars
                    /\ [BoardNext]_boardVars
  OBVIOUS
<1>1. CASE UNCHANGED vars
  BY <1>1 DEF vars
<1>2. CASE Next
  BY <1>2, Zenon DEF Next
<1> QED BY <1>1, <1>2

\* What the features do next to each other each of them may do by itself: the
\* theorems about the one hold for all of them.
THEOREM FeaturesTogether ==
    Spec => /\ IsenseSpec /\ ReadSpec /\ FileSpec /\ GitSpec /\ DiagSpec /\ FollowSpec
            /\ BoardSpec
BY FeaturesInit, FeaturesStep, PTL
   DEF Spec, IsenseSpec, ReadSpec, FileSpec, GitSpec, DiagSpec, FollowSpec, BoardSpec

\* The tables, queues and flags of all features hold what the handlers may put
\* into them.
THEOREM FeaturesTypes == Spec => []FeaturesTypeOK
<1>1. /\ IsenseTypeOK /\ ReadTypeOK /\ FileTypeOK /\ GitTypeOK /\ DiagTypeOK
      /\ FollowTypeOK /\ BoardTypeOK
      => FeaturesTypeOK
  BY DEF FeaturesTypeOK
<1> QED BY <1>1, FeaturesTogether, IsenseTypes, ReadTypes, FileTreeTypes, GitStatusTypes,
           DiagnosticsTypes, FollowTypes, BoardTypesHold, PTL
===============================================================================
