----------------------------- MODULE Diagnostics ------------------------------
(***************************************************************************)
(* The host's problems at the client (src/sync/diagnosticsSync.ts).  The   *)
(* host sends the files that changed, 500 ms after the last change, and    *)
(* the files that have problems when the client asks.  What comes before   *)
(* the client has its collection is lost.                                  *)
(***************************************************************************)
EXTENDS Integers, Sequences

CONSTANTS
    DiagFile,        \* files of the workspace
    MaxDiagChange    \* how often the language servers report, with the reports
                     \* of before the session as the first

ASSUME DiagAssumption == MaxDiagChange \in Nat \ {0}

VARIABLES
    problems,        \* languages.getDiagnostics(): the version; 0: no problems
    diagChanges,     \* what has been reported
    pendingUris, debounce,
    diagToHost,      \* DiagnosticsRequests on the way
    diagToClient,    \* DiagnosticsUpdates: the version of every file in it
    diagUp,          \* the client: "off", "active", "asked"
    collection       \* diagnosticCollection

diagVars == <<problems, diagChanges, pendingUris, debounce, diagToHost, diagToClient,
              diagUp, collection>>

Versions == [DiagFile -> 0 .. MaxDiagChange]

DiagTypeOK ==
    /\ problems \in Versions /\ diagChanges \in 0 .. MaxDiagChange
    /\ pendingUris \subseteq DiagFile /\ debounce \in BOOLEAN
    /\ diagToHost \in Nat
    /\ \A i \in DOMAIN diagToClient : DOMAIN diagToClient[i] \subseteq DiagFile
    /\ diagUp \in {"off", "active", "asked"}
    /\ collection \in Versions

DiagInit ==
    /\ problems \in [DiagFile -> 0 .. 1] /\ diagChanges = 1
    /\ pendingUris = {} /\ debounce = FALSE
    /\ diagToHost = 0 /\ diagToClient = << >>
    /\ diagUp = "off" /\ collection = [f \in DiagFile |-> 0]

-------------------------------------------------------------------------------
(* The host *)

\* onDiagnosticsChanged()
DiagnosticsChange(S) ==
    /\ diagChanges < MaxDiagChange
    /\ diagChanges' = diagChanges + 1
    /\ \E v \in {0, diagChanges + 1} :
        problems' = [f \in DiagFile |-> IF f \in S THEN v ELSE problems[f]]
    /\ pendingUris' = pendingUris \cup S
    /\ debounce' = TRUE
    /\ UNCHANGED <<diagToHost, diagToClient, diagUp, collection>>

UpdateOf(S) == [f \in S |-> problems[f]]

\* Mutant: only files with problems are sent.
SendProblems == UpdateOf({f \in pendingUris : problems[f] # 0})

SendChanged == UpdateOf(pendingUris)

\* The timer: sendPendingDiagnostics()
DebounceFires ==
    /\ debounce /\ debounce' = FALSE
    /\ pendingUris' = {}
    /\ diagToClient' = IF pendingUris = {} THEN diagToClient
                       ELSE Append(diagToClient, SendChanged)
    /\ UNCHANGED <<problems, diagChanges, diagToHost, diagUp, collection>>

\* sendFullSnapshot()
SendFullDiagnostics ==
    /\ diagToHost > 0 /\ diagToHost' = diagToHost - 1
    /\ LET withProblems == {f \in DiagFile : problems[f] # 0}
       IN  diagToClient' = IF withProblems = {} THEN diagToClient
                           ELSE Append(diagToClient, UpdateOf(withProblems))
    /\ UNCHANGED <<problems, diagChanges, pendingUris, debounce, diagUp, collection>>

-------------------------------------------------------------------------------
(* The client *)

\* activate(), and later requestFullSync()
ActivateDiagnostics ==
    /\ diagUp = "off" /\ diagUp' = "active"
    /\ UNCHANGED <<problems, diagChanges, pendingUris, debounce, diagToHost, diagToClient,
                   collection>>

RequestDiagnostics ==
    /\ diagUp = "active" /\ diagUp' = "asked"
    /\ diagToHost' = diagToHost + 1
    /\ UNCHANGED <<problems, diagChanges, pendingUris, debounce, diagToClient, collection>>

\* applyDiagnostics()
ApplyDiagnostics ==
    /\ diagToClient # << >>
    /\ diagToClient' = Tail(diagToClient)
    /\ LET update == Head(diagToClient) IN
        collection' = [f \in DiagFile |->
            IF diagUp # "off" /\ f \in DOMAIN update THEN update[f] ELSE collection[f]]
    /\ UNCHANGED <<problems, diagChanges, pendingUris, debounce, diagToHost, diagUp>>

DiagNext ==
    \/ \E S \in SUBSET DiagFile : S # {} /\ DiagnosticsChange(S)
    \/ DebounceFires \/ SendFullDiagnostics
    \/ ActivateDiagnostics \/ RequestDiagnostics \/ ApplyDiagnostics

DiagSpec == DiagInit /\ [][DiagNext]_diagVars

-------------------------------------------------------------------------------
(* Property *)

\* Once quiet the client shows the host's problems: those that were solved
\* while it was being set up are gone, although a full snapshot leaves files
\* without problems out.
DiagnosticsFollow ==
    (diagUp = "asked" /\ ~debounce /\ diagToHost = 0 /\ diagToClient = << >>)
        => collection = problems
===============================================================================
