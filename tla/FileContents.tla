----------------------------- MODULE FileContents -----------------------------
(***************************************************************************)
(* Reading one file of the host (src/vfs/pairProgFileSystemProvider.ts):   *)
(* readFile() asks the host once and lets later readers share the answer;  *)
(* a timer, an answer or the end of the session ends the waiting.  The     *)
(* entry of the file is replaced by every directory tree and by every      *)
(* creation of the file; a reader keeps the entry it began with.           *)
(*                                                                         *)
(* Each member of Reader is one call of readFile().                        *)
(***************************************************************************)
EXTENDS Naturals

CONSTANTS
    Reader,      \* calls of readFile()
    MaxEntry     \* how often the entry is replaced

ASSUME EntryAssumption == MaxEntry \in Nat

VARIABLES
    entry,       \* which entry the tree has for the file; 0: none
    entries,     \* how many there have been
    cache,       \* what entry.content is
    readState,   \* where a call is: "new", "waiting", "done"
    readOf,      \* the entry a call began with
    resolver,    \* the calls that pendingContentRequests resolves for the file
    readTimers,  \* calls whose 10-second timer runs
    asked,       \* requests on the way to the host
    answered,    \* answers on the way to the client
    robbed       \* history: calls whose resolver another call's timer removed

readVars == <<entry, entries, cache, readState, readOf, resolver, readTimers, asked,
              answered, robbed>>

ReadTypeOK ==
    /\ entries \in 0 .. MaxEntry /\ entry \in 0 .. entries
    /\ cache \in {"none", "empty", "text"}
    /\ readState \in [Reader -> {"new", "waiting", "done"}]
    /\ readOf \in [Reader -> 0 .. MaxEntry]
    /\ resolver \subseteq Reader /\ readTimers \subseteq Reader /\ robbed \subseteq Reader
    /\ asked \in Nat /\ answered \in Nat
    /\ entry = 0 => cache = "none"
    /\ \A r \in Reader : readState[r] = "waiting" => readOf[r] # 0

ReadInit ==
    /\ entry = 0 /\ entries = 0 /\ cache = "none"
    /\ readState = [r \in Reader |-> "new"]
    /\ readOf = [r \in Reader |-> 0]
    /\ resolver = {} /\ readTimers = {} /\ robbed = {}
    /\ asked = 0 /\ answered = 0

-------------------------------------------------------------------------------
(* readFile() and requestContent() *)

WaitingReaders == {r \in Reader : readState[r] = "waiting"}

\* The calls S go on with content c, and put it into the entry they have.
ResolveReads(S, c) ==
    /\ readState' = [r \in Reader |-> IF r \in S THEN "done" ELSE readState[r]]
    /\ cache' = IF \E r \in S : readState[r] = "waiting" /\ readOf[r] = entry
                  THEN c ELSE cache

ReadCached(r) ==
    /\ readState[r] = "new" /\ entry # 0 /\ cache # "none"
    /\ readState' = [readState EXCEPT ![r] = "done"]
    /\ UNCHANGED <<entry, entries, cache, readOf, resolver, readTimers, asked, answered, robbed>>

BeginsWaiting(r) ==
    /\ readState[r] = "new" /\ entry # 0 /\ cache = "none"
    /\ readState' = [readState EXCEPT ![r] = "waiting"]
    /\ readOf' = [readOf EXCEPT ![r] = entry]

\* The first one asks the host and starts the timer.
RequestContent(r) ==
    /\ BeginsWaiting(r)
    /\ resolver = {}
    /\ resolver' = {r}
    /\ readTimers' = readTimers \cup {r}
    /\ asked' = asked + 1
    /\ UNCHANGED <<entry, entries, cache, answered, robbed>>

\* Mutant: the later call's resolver takes the place of the earlier one's.
ChainReplaces(r) == resolver' = {r}

ChainResolver(r) == resolver' = resolver \cup {r}

\* A later one shares its answer.
ShareRequest(r) ==
    /\ BeginsWaiting(r)
    /\ resolver # {}
    /\ ChainResolver(r)
    /\ UNCHANGED <<entry, entries, cache, readTimers, asked, answered, robbed>>

\* The timer of call r: whatever request for the file is pending is removed,
\* and r alone goes on, with nothing.
ContentTimeout(r) ==
    /\ r \in readTimers
    /\ readTimers' = readTimers \ {r}
    /\ resolver' = {}
    /\ IF resolver # {} THEN ResolveReads({r}, "empty") ELSE UNCHANGED <<readState, cache>>
    /\ robbed' = robbed \cup (resolver \ {r})
    /\ UNCHANGED <<entry, entries, readOf, asked, answered>>

HandleContentResponse ==
    /\ answered > 0
    /\ answered' = answered - 1
    /\ resolver' = {}
    /\ ResolveReads(resolver, "text")
    /\ UNCHANGED <<entry, entries, readOf, readTimers, asked, robbed>>

-------------------------------------------------------------------------------
(* The tree *)

\* populateTree(), also after a reconnect; the lost connection took the frames
\* with it.
PopulateEntry ==
    /\ entries < MaxEntry
    /\ entries' = entries + 1 /\ entry' = entries + 1
    /\ cache' = "none"
    /\ asked' = 0 /\ answered' = 0
    /\ UNCHANGED <<readState, readOf, resolver, readTimers, robbed>>

\* applyFileCreated() brings the text along.
EntryCreated ==
    /\ entry # 0 /\ entries < MaxEntry
    /\ entries' = entries + 1 /\ entry' = entries + 1
    /\ cache' = "text"
    /\ UNCHANGED <<readState, readOf, resolver, readTimers, asked, answered, robbed>>

\* writeFile() from an editor
WriteEntry ==
    /\ entry # 0 /\ \E r \in Reader : readState[r] = "done"
    /\ cache' = "text"
    /\ UNCHANGED <<entry, entries, readState, readOf, resolver, readTimers, asked, answered, robbed>>

EndReads ==
    readState' = [r \in Reader |-> IF r \in resolver THEN "done" ELSE readState[r]]

\* teardown(): the tree is cleared, the timers are left.
TeardownReads ==
    /\ entry # 0
    /\ entry' = 0 /\ cache' = "none"
    /\ EndReads
    /\ resolver' = {}
    /\ asked' = 0 /\ answered' = 0
    /\ UNCHANGED <<entries, readOf, readTimers, robbed>>

-------------------------------------------------------------------------------
\* The host's handleFileContentRequest(): an unsafe path or an unreadable file
\* gets no answer.
HandleContentRequest ==
    /\ asked > 0
    /\ asked' = asked - 1
    /\ answered' \in {answered, answered + 1}
    /\ UNCHANGED <<entry, entries, cache, readState, readOf, resolver, readTimers, robbed>>

ReadNext ==
    \/ \E r \in Reader :
        ReadCached(r) \/ RequestContent(r) \/ ShareRequest(r) \/ ContentTimeout(r)
    \/ HandleContentResponse \/ HandleContentRequest
    \/ PopulateEntry \/ EntryCreated \/ WriteEntry \/ TeardownReads

ReadSpec == ReadInit /\ [][ReadNext]_readVars

-------------------------------------------------------------------------------
(* Property *)

\* No reader of a file waits for nothing: its resolver is held, and whenever
\* one is held a timer runs that will remove it.  Except, in the code, for the
\* readers whose resolver the timer of another call removed.
WaitersAreHeld ==
    /\ WaitingReaders \subseteq resolver \cup robbed
    /\ resolver # {} => resolver \cap readTimers # {}
===============================================================================
