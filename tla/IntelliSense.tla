----------------------------- MODULE IntelliSense -----------------------------
(***************************************************************************)
(* Language features forwarded to the host (src/sync/intellisenseSync.ts): *)
(* the client's table of pending requests with a timer and a cancellation  *)
(* listener each, and the host, which answers when its language servers    *)
(* have, whoever is connected by then.                                     *)
(*                                                                         *)
(* The client makes a new table for every session, and numbers its         *)
(* requests from 1 again; the host's handlers survive the session they     *)
(* were started in.  Each member of Request is one call of a provider.     *)
(***************************************************************************)
EXTENDS Naturals

CONSTANTS
    Request,       \* calls of the providers
    MaxSession     \* how many sessions the client has

VARIABLES
    session,       \* the session of the client's present table
    live,          \* it is connected
    counter,       \* this.requestCounter
    id, of,        \* the requestId of a call (0 before it is sent), its session
    pending,       \* this.pendingRequests
    timers,        \* calls whose timer runs
    listening,     \* calls whose onCancellationRequested listener is there
    probing,       \* completions whose local probe has not ended: isProbing
    result,        \* what the promise was resolved with
    toHost,        \* requests on the way
    jobs,          \* requests in handleRequest()
    toClient       \* answers on the way, by the request they were made for

isenseVars == <<session, live, counter, id, of, pending, timers, listening,
                probing, result, toHost, jobs, toClient>>

ASSUME ResultAssumption == "none" \notin Request /\ "null" \notin Request

IsenseTypeOK ==
    /\ session \in Nat /\ live \in BOOLEAN /\ counter \in Nat
    /\ id \in [Request -> Nat] /\ of \in [Request -> Nat]
    /\ pending \subseteq Request /\ timers \subseteq Request
    /\ listening \subseteq Request /\ probing \subseteq Request
    /\ result \in [Request -> {"none", "null"} \cup Request]
    /\ toHost \subseteq Request /\ jobs \subseteq Request /\ toClient \subseteq Request

IsenseInit ==
    /\ session = 1 /\ live = TRUE /\ counter = 0
    /\ id = [r \in Request |-> 0] /\ of = [r \in Request |-> 0]
    /\ pending = {} /\ timers = {} /\ listening = {} /\ probing = {}
    /\ result = [r \in Request |-> "none"]
    /\ toHost = {} /\ jobs = {} /\ toClient = {}

-------------------------------------------------------------------------------
(* The client *)

\* A promise keeps the first value it is resolved with.
Resolved(S, v) ==
    [r \in Request |-> IF r \in S /\ result[r] = "none" THEN v ELSE result[r]]

New(r) == live /\ id[r] = 0 /\ result[r] = "none"

IsProbing == \E r \in probing : of[r] = session

\* No path in the workspace, a cancelled token, or a completion that VS Code
\* asks for while a probe runs: null at once.
Refuse(r) ==
    /\ New(r)
    /\ result' = Resolved({r}, "null")
    /\ UNCHANGED <<session, live, counter, id, of, pending, timers, listening,
                   probing, toHost, jobs, toClient>>

\* Mutant: the requests share a number.
SameNumber == UNCHANGED counter

NextNumber == counter' = counter + 1

\* sendRequest(); a completion also probes the local providers.
Ask(r, isCompletion) ==
    /\ New(r)
    /\ isCompletion => ~IsProbing
    /\ NextNumber
    /\ id' = [id EXCEPT ![r] = counter + 1]
    /\ of' = [of EXCEPT ![r] = session]
    /\ pending' = pending \cup {r}
    /\ timers' = timers \cup {r}
    /\ listening' = listening \cup {r}
    /\ probing' = IF isCompletion THEN probing \cup {r} ELSE probing
    /\ toHost' = toHost \cup {r}
    /\ UNCHANGED <<session, live, result, jobs, toClient>>

ProbeEnds(r) ==
    /\ r \in probing
    /\ probing' = probing \ {r}
    /\ UNCHANGED <<session, live, counter, id, of, pending, timers, listening,
                   result, toHost, jobs, toClient>>

TimerFires(r) ==
    /\ r \in timers
    /\ timers' = timers \ {r}
    /\ pending' = pending \ {r}
    /\ result' = Resolved({r}, "null")
    /\ UNCHANGED <<session, live, counter, id, of, listening, probing, toHost,
                   jobs, toClient>>

\* Mutant: cancelling forgets the promise.
CancelQuietly(r) == UNCHANGED result

CancelResolves(r) == result' = Resolved({r}, "null")

\* Also after the timer fired or the table was disposed of: the listener stays.
Cancel(r) ==
    /\ r \in listening
    /\ listening' = listening \ {r}
    /\ pending' = pending \ {r}
    /\ timers' = IF r \in pending THEN timers \ {r} ELSE timers
    /\ CancelResolves(r)
    /\ UNCHANGED <<session, live, counter, id, of, probing, toHost, jobs, toClient>>

\* handleResponse(): the answer to a is taken for the request with its number.
ResponseArrives(a) ==
    LET hit == {r \in pending : id[r] = id[a]}
    IN  /\ a \in toClient
        /\ toClient' = toClient \ {a}
        /\ pending' = pending \ hit
        /\ timers' = timers \ hit
        /\ listening' = listening \ hit
        /\ result' = Resolved(hit, a)
        /\ UNCHANGED <<session, live, counter, id, of, probing, toHost, jobs>>

\* The session ends; dispose() stops the timers and resolves nothing.
Dispose ==
    /\ live
    /\ live' = FALSE
    /\ timers' = {} /\ pending' = {}
    /\ toHost' = {} /\ toClient' = {}
    /\ UNCHANGED <<session, counter, id, of, listening, probing, result, jobs>>

Rejoin ==
    /\ ~live /\ session < MaxSession
    /\ live' = TRUE
    /\ session' = session + 1
    /\ counter' = 0
    /\ UNCHANGED <<id, of, pending, timers, listening, probing, result, toHost,
                   jobs, toClient>>

-------------------------------------------------------------------------------
(* The host *)

HostReceives(r) ==
    /\ r \in toHost
    /\ toHost' = toHost \ {r}
    /\ \/ jobs' = jobs \cup {r}
       \/ UNCHANGED jobs                        \* an unsafe path
    /\ UNCHANGED <<session, live, counter, id, of, pending, timers, listening,
                   probing, result, toClient>>

\* With a result or, after an exception, with none; server.send() reaches the
\* client that is connected now, if any.
HostAnswers(r) ==
    /\ r \in jobs
    /\ jobs' = jobs \ {r}
    /\ toClient' = IF live THEN toClient \cup {r} ELSE toClient
    /\ UNCHANGED <<session, live, counter, id, of, pending, timers, listening,
                   probing, result, toHost>>

IsenseNext ==
    \/ \E r \in Request : \/ Refuse(r) \/ ProbeEnds(r) \/ TimerFires(r) \/ Cancel(r)
                          \/ ResponseArrives(r) \/ HostReceives(r) \/ HostAnswers(r)
                          \/ \E c \in BOOLEAN : Ask(r, c)
    \/ Dispose \/ Rejoin

IsenseSpec == IsenseInit /\ [][IsenseNext]_isenseVars

\* Timers fire, and VS Code answers executeCompletionItemProvider.
IsenseFairness ==
    \A r \in Request : WF_isenseVars(TimerFires(r)) /\ WF_isenseVars(ProbeEnds(r))

-------------------------------------------------------------------------------
(* Properties *)

\* An answer is taken for the request it was made for; or, when the host was
\* slow, for the request of a later session that has the same number.
AnswersFit ==
    \A r \in Request : result[r] \in Request =>
        \/ result[r] = r
        \/ of[result[r]] < of[r] /\ id[result[r]] = id[r]

InSession(r) == live /\ of[r] = session

\* A completion has ended when its probe has, too.
Phase(r) ==
    IF result[r] # "none" /\ r \notin probing THEN "ended"
    ELSE IF id[r] = 0 THEN "idle"
    ELSE IF InSession(r) /\ (r \in timers \/ result[r] # "none") THEN "waiting"
    ELSE "abandoned"

Promised == INSTANCE Requests WITH phase <- [r \in Request |-> Phase(r)], open <- live

\* Every forwarded request ends exactly once, whichever of the answer, the
\* timer and the cancellation comes first, in whatever order the others
\* follow; only the end of the session leaves requests open.
RequestsAreSettled == Promised!FairSpec
===============================================================================
