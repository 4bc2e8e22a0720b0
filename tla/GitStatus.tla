------------------------------ MODULE GitStatus -------------------------------
(***************************************************************************)
(* The host's git status at the client (src/sync/gitStatusSync.ts) and the *)
(* contents at HEAD that the client's diffs show                           *)
(* (src/ui/remoteGitQuickDiffController.ts, here for one file).  The host  *)
(* sends a snapshot 150 ms after the last change, and on request; the      *)
(* client caches contents until the next snapshot.                         *)
(***************************************************************************)
EXTENDS Integers, SequencesExt

CONSTANTS
    GitState,       \* states of a repository: its changes, in the order of
                    \* mergeChanges, indexChanges, workingTreeChanges, ...
    LaterGitState,  \* those it may change to
    GitPath,        \* the paths in them
    GitIgnored,     \* paths the ignored patterns match
    MaxGitEvent     \* how much the repository does

VARIABLES
    enabled,     \* the git extension has the repository
    changes,     \* repository.state
    head,        \* the commit HEAD is at
    unnoticed,   \* the git extension has not fired onDidChange for it yet
    gitEvents,   \* what has happened
    bound,       \* this.repository is set
    initDone,    \* initPromise is resolved
    sendTimer,
    statusAsked, \* GitStatusRequests that wait for initPromise
    shows,       \* show("HEAD") under way: what it has read
    gitToHost, gitToClient,
    gitUp,       \* the client: "off", "active", "asked", "disposed"
    entryMap,    \* this.entries of the client, as a set
    origCache,   \* contentCache for the file: a commit; -1: none, 0: ""
    origPending, \* pendingRequests has the file; its timer runs
    strayed      \* history: a content request got no answer, or got it after
                 \* the snapshot that made it outdated

gitVars == <<enabled, changes, head, unnoticed, gitEvents, bound, initDone, sendTimer,
             statusAsked, shows, gitToHost, gitToClient, gitUp, entryMap, origCache,
             origPending, strayed>>

\* Status of the git extension, and a change as it is taken from it: its path
\* in the workspace, and the path it had before, "none" outside of the workspace.
GitApiStatus ==
    {"INDEX_MODIFIED", "INDEX_ADDED", "INDEX_DELETED", "INDEX_RENAMED", "INDEX_COPIED",
     "MODIFIED", "DELETED", "UNTRACKED", "IGNORED", "INTENT_TO_ADD", "INTENT_TO_RENAME",
     "TYPE_CHANGED", "ADDED_BY_US", "ADDED_BY_THEM", "DELETED_BY_US", "DELETED_BY_THEM",
     "BOTH_ADDED", "BOTH_DELETED", "BOTH_MODIFIED"}

GitChange == [api : GitApiStatus, path : GitPath, orig : GitPath \cup {"none"}]

ASSUME GitStateAssumption ==
    /\ LaterGitState \subseteq GitState
    /\ \A cs \in GitState : cs \in Seq(GitChange)

ASSUME GitEventAssumption == MaxGitEvent \in Nat

-------------------------------------------------------------------------------
(* buildGitStatusSnapshot() *)

StatusPriority == [conflict |-> 6, deleted |-> 5, renamed |-> 4, added |-> 3,
                   modified |-> 2, untracked |-> 1]

MapGitApiStatus(s) ==
    CASE s \in {"INDEX_ADDED", "INDEX_COPIED", "INTENT_TO_ADD"} -> "added"
      [] s \in {"INDEX_DELETED", "DELETED"} -> "deleted"
      [] s \in {"INDEX_RENAMED", "INTENT_TO_RENAME"} -> "renamed"
      [] s = "UNTRACKED" -> "untracked"
      [] s \in {"ADDED_BY_US", "ADDED_BY_THEM", "DELETED_BY_US", "DELETED_BY_THEM",
                "BOTH_ADDED", "BOTH_DELETED", "BOTH_MODIFIED"} -> "conflict"
      [] s \in {"INDEX_MODIFIED", "MODIFIED", "TYPE_CHANGED"} -> "modified"
      [] s = "IGNORED" -> "null"

OriginalGitPath(c, status) ==
    CASE status \in {"added", "untracked"} -> "none"
      [] status = "renamed" -> c.orig
      [] OTHER -> c.path

EntryOf(c) ==
    LET status == MapGitApiStatus(c.api)
    IN  [path |-> c.path, status |-> status, orig |-> OriginalGitPath(c, status)]

\* Mutant: the later entry wins.
MergeLatest(current, next) == next

MergeGitStatusEntries(current, next) ==
    IF StatusPriority[next.status] > StatusPriority[current.status] THEN next
    ELSE IF current.status \notin {"added", "untracked"} /\ current.orig = "none"
      THEN [current EXCEPT !.orig = next.orig]
      ELSE current

Counts(c) == MapGitApiStatus(c.api) # "null" /\ c.path \notin GitIgnored

AddChange(entries, c) ==
    LET current == {e \in entries : e.path = c.path}
        merged == IF current = {} THEN EntryOf(c)
                  ELSE MergeGitStatusEntries(CHOOSE e \in current : TRUE, EntryOf(c))
    IN  IF Counts(c) THEN (entries \ current) \cup {merged} ELSE entries

BuildGitStatusSnapshot(cs) == FoldLeft(AddChange, {}, cs)

-------------------------------------------------------------------------------
GitTypeOK ==
    /\ enabled \in BOOLEAN /\ bound \in BOOLEAN /\ unnoticed \in BOOLEAN
    /\ initDone \in BOOLEAN /\ sendTimer \in BOOLEAN /\ strayed \in BOOLEAN
    /\ changes \in GitState
    /\ head \in Nat \ {0} /\ gitEvents \in 0 .. MaxGitEvent
    /\ statusAsked \in Nat /\ shows \subseteq Nat
    /\ gitToHost \in Seq({"status", "orig"})
    /\ gitUp \in {"off", "active", "asked", "disposed"}
    /\ \A i \in DOMAIN gitToClient : gitToClient[i].type \in {"status", "orig"}
    /\ \A e \in entryMap : e.status \in DOMAIN StatusPriority
    /\ \A e, f \in entryMap : e.path = f.path => e = f
    /\ origCache \in Nat \cup {-1} /\ origPending \in BOOLEAN
    /\ bound => initDone

GitInit ==
    /\ enabled \in BOOLEAN /\ changes \in GitState /\ head = 1
    /\ unnoticed = FALSE /\ gitEvents = 0
    /\ bound = FALSE /\ initDone = FALSE /\ sendTimer = FALSE /\ statusAsked = 0
    /\ shows = {} /\ gitToHost = << >> /\ gitToClient = << >>
    /\ gitUp = "off" /\ entryMap = {} /\ origCache = -1 /\ origPending = FALSE
    /\ strayed = FALSE

-------------------------------------------------------------------------------
(* The host *)

GitHostStays == UNCHANGED <<gitUp, entryMap, origCache, origPending>>

GitClientStays ==
    UNCHANGED <<enabled, changes, head, unnoticed, gitEvents, bound, initDone, sendTimer,
                statusAsked, shows, strayed>>

\* refreshRepositoryBinding() does nothing for the same repository; without the
\* extension bindGitApi() always schedules a snapshot.
Rebind(repository) ==
    /\ bound' = repository
    /\ \/ sendTimer' = (sendTimer \/ bound # repository)
       \/ ~repository /\ sendTimer' = TRUE

Snapshot ==
    [type |-> "status", files |-> IF bound THEN BuildGitStatusSnapshot(changes) ELSE {}]

\* The git extension is there; requests that waited are answered.
InitializeHost ==
    /\ ~initDone
    /\ initDone' = TRUE
    /\ Rebind(enabled)
    /\ statusAsked' = 0
    /\ gitToClient' = gitToClient \o [i \in 1 .. statusAsked |->
           [Snapshot EXCEPT !.files = IF enabled THEN BuildGitStatusSnapshot(changes) ELSE {}]]
    /\ GitHostStays
    /\ UNCHANGED <<enabled, changes, head, unnoticed, gitEvents, shows, gitToHost, strayed>>

GitEvent ==
    /\ gitEvents < MaxGitEvent
    /\ gitEvents' = gitEvents + 1
    /\ GitHostStays
    /\ UNCHANGED <<initDone, statusAsked, shows, gitToHost, gitToClient, strayed>>

\* A repository is opened or closed, or git is enabled or disabled.
RepositoryComesOrGoes ==
    /\ GitEvent
    /\ enabled' = ~enabled
    /\ IF initDone THEN Rebind(~enabled) ELSE UNCHANGED <<bound, sendTimer>>
    /\ UNCHANGED <<changes, head, unnoticed>>

\* Somebody commits, or switches branches; git show sees it at once.
HeadMoves ==
    /\ GitEvent
    /\ enabled
    /\ head' = head + 1 /\ unnoticed' = TRUE
    /\ UNCHANGED <<enabled, changes, bound, sendTimer>>

\* repository.state changes: onDidChange
RepositoryChanges(cs) ==
    /\ GitEvent
    /\ enabled
    /\ changes' = cs /\ unnoticed' = FALSE
    /\ sendTimer' = (sendTimer \/ bound)
    /\ UNCHANGED <<enabled, head, bound>>

NoticesHead ==
    /\ unnoticed /\ unnoticed' = FALSE
    /\ sendTimer' = (sendTimer \/ bound)
    /\ GitHostStays
    /\ UNCHANGED <<enabled, changes, head, gitEvents, bound, initDone, statusAsked, shows,
                   gitToHost, gitToClient, strayed>>

SendTimerFires ==
    /\ sendTimer /\ sendTimer' = FALSE
    /\ gitToClient' = Append(gitToClient, Snapshot)
    /\ GitHostStays
    /\ UNCHANGED <<enabled, changes, head, unnoticed, gitEvents, bound, initDone,
                   statusAsked, shows, gitToHost, strayed>>

HostTakesGit(type) ==
    /\ gitToHost # << >> /\ Head(gitToHost) = type
    /\ gitToHost' = Tail(gitToHost)
    /\ GitHostStays
    /\ UNCHANGED <<enabled, changes, head, unnoticed, gitEvents, bound, initDone, sendTimer>>

HandleStatusRequest ==
    /\ HostTakesGit("status")
    /\ IF initDone
         THEN gitToClient' = Append(gitToClient, Snapshot) /\ UNCHANGED statusAsked
         ELSE statusAsked' = statusAsked + 1 /\ UNCHANGED gitToClient
    /\ UNCHANGED <<shows, strayed>>

\* handleOriginalContentRequest(): no answer without a repository
HandleOriginalRequest ==
    /\ HostTakesGit("orig")
    /\ shows' = IF bound THEN shows \cup {head} ELSE shows
    /\ strayed' = (strayed \/ ~bound)
    /\ UNCHANGED <<gitToClient, statusAsked>>

\* show() returns, or throws.
ShowReturns(c) ==
    /\ c \in shows
    /\ shows' = shows \ {c}
    /\ gitToClient' = Append(gitToClient, [type |-> "orig", content |-> c])
    /\ strayed' = (strayed \/ (c # head /\ ~sendTimer /\ ~unnoticed))
    /\ GitHostStays
    /\ UNCHANGED <<enabled, changes, head, unnoticed, gitEvents, bound, initDone, sendTimer,
                   statusAsked, gitToHost>>

-------------------------------------------------------------------------------
(* The client *)

\* setupSync(); then requestFullSync()
ActivateGit ==
    /\ gitUp = "off" /\ gitUp' = "active"
    /\ GitClientStays /\ UNCHANGED <<gitToHost, gitToClient, entryMap, origCache, origPending>>

RequestFullStatus ==
    /\ gitUp = "active" /\ gitUp' = "asked"
    /\ gitToHost' = Append(gitToHost, "status")
    /\ GitClientStays /\ UNCHANGED <<gitToClient, entryMap, origCache, origPending>>

ClientTakesGit(type) ==
    /\ gitToClient # << >> /\ Head(gitToClient).type = type
    /\ gitToClient' = Tail(gitToClient)
    /\ GitClientStays /\ UNCHANGED <<gitToHost, gitUp>>

ClientListens == gitUp \in {"active", "asked"}

GitForgotten ==
    /\ ~ClientListens
    /\ ClientTakesGit("status") \/ ClientTakesGit("orig")
    /\ UNCHANGED <<entryMap, origCache, origPending>>

\* Mutant: the contents outlive the snapshot.
KeepContents == UNCHANGED origCache

ForgetContents == origCache' = -1

\* applySnapshot(), updateEntries()
ApplySnapshot ==
    /\ ClientListens
    /\ ClientTakesGit("status")
    /\ entryMap' = Head(gitToClient).files
    /\ ForgetContents
    /\ UNCHANGED origPending

\* provideTextDocumentContent() for an entry that has an original
ShowDiff ==
    /\ ClientListens
    /\ \E e \in entryMap : e.status \notin {"deleted", "added", "untracked"}
    /\ origCache = -1 /\ ~origPending
    /\ origPending' = TRUE
    /\ gitToHost' = Append(gitToHost, "orig")
    /\ GitClientStays /\ UNCHANGED <<gitToClient, gitUp, entryMap, origCache>>

OriginalTimeout ==
    /\ origPending
    /\ origPending' = FALSE /\ origCache' = 0
    /\ GitClientStays /\ UNCHANGED <<gitToHost, gitToClient, gitUp, entryMap>>

\* Also a late one is cached.
HandleOriginalResponse ==
    /\ ClientListens
    /\ ClientTakesGit("orig")
    /\ origCache' = Head(gitToClient).content
    /\ origPending' = FALSE
    /\ UNCHANGED entryMap

\* dispose(), clear(): what is pending is resolved with "".
DisposeGit ==
    /\ gitUp = "asked" /\ gitUp' = "disposed"
    /\ entryMap' = {}
    /\ origPending' = FALSE
    /\ origCache' = IF origPending THEN 0 ELSE -1
    /\ GitClientStays /\ UNCHANGED <<gitToHost, gitToClient>>

GitNext ==
    \/ InitializeHost \/ RepositoryComesOrGoes \/ HeadMoves \/ NoticesHead
    \/ \E cs \in LaterGitState : RepositoryChanges(cs)
    \/ SendTimerFires \/ HandleStatusRequest \/ HandleOriginalRequest
    \/ \E c \in shows : ShowReturns(c)
    \/ ActivateGit \/ RequestFullStatus \/ GitForgotten \/ ApplySnapshot
    \/ ShowDiff \/ OriginalTimeout \/ HandleOriginalResponse \/ DisposeGit

GitSpec == GitInit /\ [][GitNext]_gitVars

-------------------------------------------------------------------------------
(* Properties *)

GitQuiet ==
    /\ gitUp = "asked" /\ initDone /\ ~sendTimer /\ ~unnoticed
    /\ gitToHost = << >> /\ gitToClient = << >> /\ shows = {}

\* Of the changes to a path, the first of the highest priority.
Leading(cs, i) ==
    /\ Counts(cs[i])
    /\ \A j \in DOMAIN cs : (cs[j].path = cs[i].path /\ Counts(cs[j])) =>
        LET pi == StatusPriority[MapGitApiStatus(cs[i].api)]
            pj == StatusPriority[MapGitApiStatus(cs[j].api)]
        IN  pi > pj \/ (pi = pj /\ i <= j)

\* Once quiet the client shows every path the host's repository has a change
\* of, with the status that matters most and the original that belongs to it,
\* whatever opened, closed, or changed meanwhile; and nothing without one.
StatusFollows ==
    GitQuiet =>
        LET cs == IF enabled THEN changes ELSE << >>
            leading == {i \in DOMAIN cs : Leading(cs, i)}
        IN  /\ {e.path : e \in entryMap} = {cs[i].path : i \in leading}
            /\ \A i \in leading : \E e \in entryMap :
                 /\ e.path = cs[i].path
                 /\ e.status = MapGitApiStatus(cs[i].api)
                 /\ EntryOf(cs[i]).orig # "none" => e.orig = EntryOf(cs[i]).orig

\* A diff is against what is at HEAD now: a content that was read before HEAD
\* moved, or that timed out, does not stay; unless the host had no repository to
\* answer from, or git took so long that the snapshot was sent first.
OriginalIsCurrent ==
    (GitQuiet /\ enabled /\ ~strayed /\ ~origPending) => origCache \in {-1, head}
===============================================================================
