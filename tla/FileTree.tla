------------------------------- MODULE FileTree -------------------------------
(***************************************************************************)
(* The host's files and the tree the client shows of them                  *)
(* (src/sync/fileOpsSync.ts, the tree operations of the virtual file       *)
(* system, src/vfs/directoryTreeBuilder.ts).  The host sends one directory *)
(* tree and then its creations, deletions and renamings; a creation is     *)
(* sent two awaits late, the client may hold a renaming back to save tabs, *)
(* and forgets what comes before it is set up.                             *)
(*                                                                         *)
(* A path is the sequence of its names.  The disk also changes without an  *)
(* event of VS Code, by a terminal, git or another program.                *)
(*                                                                         *)
(* `lapse` records the cases in which the code lets the two drift apart:   *)
(*   - the walk leaves out what it cannot read, and links;                 *)
(*   - something happens between the walk and the sending of the tree, or  *)
(*     a frame arrives while the client is not set up;                     *)
(*   - a change without an event after the walk;                           *)
(*   - an event about what is not ignored itself, in an ignored folder, or *)
(*     a renaming that enters or leaves what is hidden;                    *)
(*   - a deletion or a renaming overtakes a creation that is being read;   *)
(*   - a renaming replaces a folder that is not empty;                     *)
(*   - a frame overtakes a renaming for which the client saves tabs, or    *)
(*     entries of a deleted folder come to light again.                    *)
(***************************************************************************)
EXTENDS SequencesExt

CONSTANTS
    Path,        \* the paths in use
    Folder,      \* those that are folders when they exist
    Ignored,     \* those the ignored patterns match
    MaxFileOp    \* how much the host's user does

ASSUME PathAssumption == Path \subseteq Seq(STRING) \ {<< >>} /\ Ignored \subseteq Path

ASSUME FileOpAssumption == MaxFileOp \in Nat

VARIABLES
    disk,        \* the host's files
    fileOps,     \* what the user has done
    scan,        \* "reading": buildDirectoryTree() has not read; "read"; "sent"
    snapshot,    \* what it read
    stated,      \* creations in onFileCreated(): "stat" or "open" is awaited
    opsNet,      \* frames on the way
    setUp,       \* the client: "waiting" for the tree, "registering", "ready"
    tree,        \* the client's tree
    renaming,    \* renamings that wait for saveDirtyTabs()
    lapse

fileVars == <<disk, fileOps, scan, snapshot, stated, opsNet, setUp, tree, renaming, lapse>>

OpFrame == [op : {"tree"}, path : {<< >>}, to : {<< >>}]
             \cup [op : {"created", "deleted"}, path : Path, to : {<< >>}]
             \cup [op : {"renamed"}, path : Path, to : Path]

FileTypeOK ==
    /\ disk \subseteq Path /\ tree \subseteq Path /\ snapshot \subseteq Path
    /\ fileOps \in 0 .. MaxFileOp
    /\ scan \in {"reading", "read", "sent"}
    /\ stated \subseteq Path \X {"stat", "open"}
    /\ \A i \in DOMAIN opsNet : opsNet[i] \in OpFrame
    /\ setUp \in {"waiting", "registering", "ready"}
    /\ renaming \subseteq Path \X Path
    /\ lapse \in BOOLEAN

Under(p, S) == {q \in S : IsPrefix(p, q)}

Parents(p) == {q \in Path : IsStrictPrefix(q, p)}

\* What the walk leaves out: it does not enter an ignored folder, whether a
\* pattern matches what is in it ("dir/**") or not ("*.lock").
Hidden == {p \in Path : \E q \in Ignored : IsPrefix(q, p)}

\* Where q is after p has become n.
Moved(q, p, n) == n \o SubSeq(q, Len(p) + 1, Len(q))

\* What is below a path can be below any other.
ASSUME RenamingAssumption ==
    \A p, n, q \in Path :
        ((p \in Folder <=> n \in Folder) /\ ~IsPrefix(p, n) /\ ~IsPrefix(n, p) /\ IsPrefix(p, q))
            => Moved(q, p, n) \in Path

FileInit ==
    /\ disk \in {S \in SUBSET Path : \A p \in S : Parents(p) \subseteq S}
    /\ fileOps = 0
    /\ scan = "reading" /\ snapshot = {} /\ stated = {}
    /\ opsNet = << >>
    /\ setUp = "waiting" /\ tree = {} /\ renaming = {}
    /\ lapse = FALSE

-------------------------------------------------------------------------------
(* The host *)

SendOp(op, p, n) == opsNet' = Append(opsNet, [op |-> op, path |-> p, to |-> n])

\* What is sent between the reading and the sending of the tree is neither
\* in the tree nor heard.
Missed == scan = "read"

UserActs ==
    /\ fileOps < MaxFileOp
    /\ fileOps' = fileOps + 1
    /\ UNCHANGED <<scan, snapshot, setUp, tree, renaming>>

\* onDidCreateFiles: onFileCreated() up to fs.stat()
CreateFile(p) ==
    /\ UserActs
    /\ p \notin disk /\ Parents(p) \subseteq disk
    /\ disk' = disk \cup {p}
    /\ stated' = IF p \in Ignored THEN stated ELSE stated \cup {<<p, "stat">>}
    /\ UNCHANGED <<opsNet, lapse>>

\* onDidDeleteFiles names the folder only.  FileDeleted overtakes a creation
\* that has passed its fs.stat().
DeleteFile(p) ==
    /\ UserActs
    /\ p \in disk
    /\ disk' = disk \ Under(p, disk)
    /\ UNCHANGED stated
    /\ IF p \in Ignored
         THEN UNCHANGED <<opsNet, lapse>>
         ELSE /\ SendOp("deleted", p, << >>)
              /\ lapse' = (lapse \/ Missed \/ \E c \in stated : IsPrefix(p, c[1]) /\ c[2] = "open")

\* onDidRenameFiles.  The renaming may replace what has the new name, and
\* nothing is sent of that.  FileRenamed overtakes the creations of what it
\* moves; only what is shown before and after moves at the client.
RenameFile(p, n) ==
    /\ UserActs
    /\ p \in disk /\ Parents(n) \subseteq disk
    /\ p \in Folder <=> n \in Folder
    /\ ~IsPrefix(p, n) /\ ~IsPrefix(n, p)
    /\ LET moved == Under(p, disk)
           after == {Moved(q, p, n) : q \in moved}
       IN  /\ after \subseteq Path
           /\ disk' = (disk \ (moved \cup Under(n, disk))) \cup after
           /\ IF {p, n} \subseteq Ignored
                THEN UNCHANGED <<opsNet, lapse>>
                ELSE /\ SendOp("renamed", p, n)
                     /\ lapse' = \/ lapse \/ Missed \/ p \in Hidden
                                 \/ \E c \in stated : IsPrefix(p, c[1])
                                 \/ \E q \in moved : ~(q \in Hidden <=> Moved(q, p, n) \in Hidden)
                                 \/ \E q \in disk \ Hidden : IsStrictPrefix(n, q)
    /\ UNCHANGED stated

\* A terminal, git or another program adds or removes p: none of the events
\* that activate() listens to is fired.
ChangeOutside(p) ==
    /\ UserActs
    /\ \/ p \notin disk /\ Parents(p) \subseteq disk /\ disk' = disk \cup {p}
       \/ p \in disk /\ disk' = disk \ Under(p, disk)
    /\ lapse' = \/ lapse
                \/ scan # "reading" /\ p \notin Hidden
                \/ \E c \in stated : IsPrefix(p, c[1]) /\ c[2] = "open"
    /\ UNCHANGED <<stated, opsNet>>

HostStays == UNCHANGED <<disk, fileOps, setUp, tree, renaming>>

\* The client shows what it hears of, with its folders.
SendCreated(p) ==
    /\ SendOp("created", p, << >>)
    /\ lapse' = (lapse \/ Missed \/ p \in Hidden)

\* fs.stat() answers: the path is gone, or it is a folder, or the text is next.
StatDone(p) ==
    /\ <<p, "stat">> \in stated
    /\ HostStays /\ UNCHANGED <<scan, snapshot>>
    /\ LET rest == stated \ {<<p, "stat">>} IN
        \/ /\ p \notin disk
           /\ stated' = rest /\ UNCHANGED <<opsNet, lapse>>
        \/ /\ p \in disk \cap Folder
           /\ stated' = rest /\ SendCreated(p)
        \/ /\ p \in disk \ Folder
           /\ stated' = rest \cup {<<p, "open">>} /\ UNCHANGED <<opsNet, lapse>>

\* openTextDocument() has answered, with the text or with an exception.
OpenDone(p) ==
    /\ <<p, "open">> \in stated
    /\ stated' = stated \ {<<p, "open">>}
    /\ SendCreated(p)
    /\ HostStays /\ UNCHANGED <<scan, snapshot>>

\* buildDirectoryTree().  What is in a folder that cannot be read is left
\* out without an error, and so is a link.  What happens during the walk
\* counts as happening after it.
ReadDirectory ==
    /\ scan = "reading"
    /\ scan' = "read"
    /\ \E skipped \in SUBSET (disk \ Hidden) :
         snapshot' = {p \in disk \ Hidden : \A q \in skipped : ~IsPrefix(q, p)}
    /\ lapse' = (lapse \/ snapshot' # disk \ Hidden)
    /\ HostStays /\ UNCHANGED <<stated, opsNet>>

SendDirectoryTree ==
    /\ scan = "read"
    /\ scan' = "sent"
    /\ SendOp("tree", << >>, << >>)
    /\ HostStays /\ UNCHANGED <<snapshot, stated, lapse>>

-------------------------------------------------------------------------------
(* The client *)

ClientStays == UNCHANGED <<disk, fileOps, scan, snapshot, stated>>

TakeOp(op) ==
    /\ opsNet # << >> /\ Head(opsNet).op = op
    /\ opsNet' = Tail(opsNet)
    /\ ClientStays

Frame == Head(opsNet)

\* populateTree(), then the awaits of onDirectoryTree()
PopulateTree ==
    /\ TakeOp("tree")
    /\ tree' = snapshot
    /\ setUp' = "registering"
    /\ UNCHANGED <<renaming, lapse>>

RegisterFileOps ==
    /\ setUp = "registering"
    /\ setUp' = "ready"
    /\ ClientStays /\ UNCHANGED <<opsNet, tree, renaming, lapse>>

\* The router has no handler yet.
OpForgotten ==
    /\ setUp # "ready"
    /\ \E op \in {"created", "deleted", "renamed"} : TakeOp(op)
    /\ lapse' = (lapse \/ setUp = "registering")
    /\ UNCHANGED <<setUp, tree, renaming>>

Related(p, q) == IsPrefix(p, q) \/ IsPrefix(q, p)

\* A frame is handled before a renaming that came first and that it concerns.
Overtakes(p) == \E r \in renaming : Related(p, r[1]) \/ Related(p, r[2])

\* Entries left behind by the deletion of their folder come to light again.
Resurrects(p) == \E q \in tree : IsStrictPrefix(p, q) /\ ~(Parents(q) \subseteq tree)

\* applyFileCreated(), with ensureParentDirs()
ApplyFileCreated ==
    /\ setUp = "ready" /\ TakeOp("created")
    /\ tree' = tree \cup {Frame.path} \cup Parents(Frame.path)
    /\ lapse' = \/ lapse \/ Overtakes(Frame.path)
                \/ \E q \in {Frame.path} \cup Parents(Frame.path) : Resurrects(q)
    /\ UNCHANGED <<setUp, renaming>>

\* applyFileDeleted() removes one entry.
ApplyFileDeleted ==
    /\ setUp = "ready" /\ TakeOp("deleted")
    /\ tree' = tree \ {Frame.path}
    /\ lapse' = (lapse \/ Overtakes(Frame.path))
    /\ UNCHANGED <<setUp, renaming>>

\* Mutant: the entry moves without what is below it.
MoveEntry(p, n) == IF p \in tree THEN (tree \ {p}) \cup {n} ELSE tree

\* applyFileRenamed()
MoveEntries(p, n) == (tree \ Under(p, tree)) \cup {Moved(q, p, n) : q \in Under(p, tree)}

\* handleFileRenamed(): at once, or after the dirty tabs under p are saved.
HandleFileRenamed ==
    /\ setUp = "ready" /\ TakeOp("renamed")
    /\ lapse' = (lapse \/ Overtakes(Frame.path) \/ Overtakes(Frame.to) \/ Resurrects(Frame.to))
    /\ \/ tree' = MoveEntries(Frame.path, Frame.to) /\ UNCHANGED renaming
       \/ renaming' = renaming \cup {<<Frame.path, Frame.to>>} /\ UNCHANGED tree
    /\ UNCHANGED setUp

TabsSaved(r) ==
    /\ r \in renaming
    /\ renaming' = renaming \ {r}
    /\ tree' = MoveEntries(r[1], r[2])
    /\ ClientStays /\ UNCHANGED <<opsNet, setUp, lapse>>

FileNext ==
    \/ \E p \in Path : \/ CreateFile(p) \/ DeleteFile(p) \/ ChangeOutside(p)
                       \/ StatDone(p) \/ OpenDone(p)
                       \/ \E n \in Path : RenameFile(p, n)
    \/ ReadDirectory \/ SendDirectoryTree
    \/ PopulateTree \/ RegisterFileOps \/ OpForgotten
    \/ ApplyFileCreated \/ ApplyFileDeleted \/ HandleFileRenamed
    \/ \E r \in renaming : TabsSaved(r)

FileSpec == FileInit /\ [][FileNext]_fileVars

-------------------------------------------------------------------------------
(* Property *)

\* What readDirectory() shows from the root on.
Visible == {p \in tree : Parents(p) \subseteq tree}

\* Once everything has arrived the client shows the host's files, without the
\* ignored ones and what is in ignored folders; with the exceptions that the
\* list of `lapse` above names.
TreeFollows ==
    (setUp = "ready" /\ stated = {} /\ opsNet = << >> /\ renaming = {} /\ ~lapse)
        => Visible = disk \ Hidden
===============================================================================
