------------------------------ MODULE MCFeatures ------------------------------
(***************************************************************************)
(* The features of a session for TLC.  They share the connection and no    *)
(* state, so a behaviour looks at one of them: `watched` says which.       *)
(***************************************************************************)
EXTENDS IntelliSense, FileContents, FileTree, GitStatus, Diagnostics, FollowMode,
        Whiteboard

VARIABLE watched

vars == <<watched, isenseVars, readVars, fileVars, gitVars, diagVars, followVars, boardVars>>

\* The pattern matches the folder k and nothing in it.
MCPath == {<<"d">>, <<"d", "x">>, <<"e">>, <<"e", "x">>, <<"k">>, <<"k", "x">>}
MCFolder == {<<"d">>, <<"e">>, <<"k">>}
MCIgnored == {<<"k">>}

Change(api, path, orig) == [api |-> api, path |-> path, orig |-> orig]

\* Two paths with changes in several groups, an ignored path and an ignored
\* status; and one that was renamed from outside of the workspace.
MCLaterGitState ==
    {<< >>,
     <<Change("BOTH_ADDED", "q", "q"), Change("INDEX_RENAMED", "p", "q"),
       Change("DELETED", "i", "i"), Change("MODIFIED", "p", "p"),
       Change("IGNORED", "q", "q")>>}
MCGitState == MCLaterGitState \cup
    {<<Change("INDEX_RENAMED", "p", "none"), Change("INDEX_ADDED", "q", "q"),
       Change("TYPE_CHANGED", "p", "p"), Change("UNTRACKED", "q", "q")>>}

Init ==
    /\ watched \in {"isense", "read", "files", "git", "diagnostics", "follow", "board"}
    /\ IsenseInit /\ ReadInit /\ DiagInit /\ BoardInit
    /\ FileInit /\ disk \in {{<<"d">>, <<"d", "x">>}, {<<"d">>, <<"k">>}}
    /\ GitInit
    /\ FollowInit /\ at["host"] = CHOOSE f \in CursorFile : TRUE
    /\ watched # "follow" => at["client"] = at["host"]
    /\ watched # "files" => disk = {<<"d">>, <<"k">>}
    /\ watched # "git" => changes = << >> /\ ~enabled
    /\ watched # "diagnostics" => \A f \in DiagFile : problems[f] = 0

Next ==
    /\ UNCHANGED watched
    /\ \/ watched = "isense" /\ IsenseNext
          /\ UNCHANGED <<readVars, fileVars, gitVars, diagVars, followVars, boardVars>>
       \/ watched = "read" /\ ReadNext
          /\ UNCHANGED <<isenseVars, fileVars, gitVars, diagVars, followVars, boardVars>>
       \/ watched = "files" /\ FileNext
          /\ UNCHANGED <<isenseVars, readVars, gitVars, diagVars, followVars, boardVars>>
       \/ watched = "git" /\ GitNext
          /\ UNCHANGED <<isenseVars, readVars, fileVars, diagVars, followVars, boardVars>>
       \/ watched = "diagnostics" /\ DiagNext
          /\ UNCHANGED <<isenseVars, readVars, fileVars, gitVars, followVars, boardVars>>
       \/ watched = "follow" /\ FollowNext
          /\ UNCHANGED <<isenseVars, readVars, fileVars, gitVars, diagVars, boardVars>>
       \/ watched = "board" /\ BoardNext
          /\ UNCHANGED <<isenseVars, readVars, fileVars, gitVars, diagVars, followVars>>

Spec == Init /\ [][Next]_vars /\ IsenseFairness /\ FollowFairness

-------------------------------------------------------------------------------
\* The types of all features: tables, queues and flags hold what the handlers
\* may put into them.
FeaturesTypeOK ==
    /\ IsenseTypeOK /\ ReadTypeOK /\ FileTypeOK /\ GitTypeOK /\ DiagTypeOK
    /\ FollowTypeOK /\ BoardTypeOK
===============================================================================
