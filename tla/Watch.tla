------------------------------- MODULE Watch -------------------------------
(***************************************************************************)
(* A kube_runtime::watcher event stream and the WatchDiagnostics that      *)
(* Runtime::watch_inner attaches to it.                                    *)
(*                                                                         *)
(* The watcher is a library: it lists the resources (Init, one InitApply   *)
(* per resource, InitDone), then watches them (Apply, Delete).  When the   *)
(* watch breaks it lists again, and when a list fails it starts over with  *)
(* another Init.  Errors are items of the stream too; LogAndSleep keeps    *)
(* them from the consumers, which see the events only.                     *)
(***************************************************************************)
CONSTANTS
    Key,       \* the resources' names
    Version,   \* their resource versions
    None,      \* no such resource
    Aborts     \* whether a list may fail

ASSUME WatchAssumption == None \notin Version /\ Aborts \in BOOLEAN

VARIABLES
    phase,     \* where the watcher is: "empty", "listing", "watching"
    list,      \* the result of the list in progress
    todo,      \* its resources that are still to be sent
    view,      \* the resources, after the last full list and the events since
    known,     \* WatchState::known
    resetting  \* WatchState::resetting

watchVars == <<phase, list, todo, view, known, resetting>>

Resources == [Key -> Version \cup {None}]
Nothing == [k \in Key |-> None]
Present(r) == {k \in Key : r[k] # None}

-----------------------------------------------------------------------------
(* Diagnostics *)

\* Mutant: Init does not clear the names of the list before.
InspectInitKeeps == UNCHANGED <<known, resetting>>

\* WatchDiagnostics::inspect.
InspectInit ==
    resetting' = Nothing /\ UNCHANGED known

InspectInitApply(k, v) ==
    resetting' = [resetting EXCEPT ![k] = v] /\ UNCHANGED known

InspectInitDone ==
    known' = resetting /\ resetting' = known

InspectEvent(k, v) ==
    known' = [known EXCEPT ![k] = v] /\ UNCHANGED resetting

-----------------------------------------------------------------------------
(* The stream *)

\* A list starts.  It may find anything: resources come and go unseen while
\* the watcher does not watch.
InitEvent ==
    /\ phase = "empty"
    /\ phase' = "listing"
    /\ list' \in Resources
    /\ todo' = Present(list')
    /\ InspectInit
    /\ UNCHANGED view

InitApplyEvent(k) ==
    /\ phase = "listing"
    /\ k \in todo
    /\ todo' = todo \ {k}
    /\ InspectInitApply(k, list[k])
    /\ UNCHANGED <<phase, list, view>>

InitDoneEvent ==
    /\ phase = "listing"
    /\ todo = {}
    /\ phase' = "watching"
    /\ view' = list
    /\ list' = Nothing
    /\ InspectInitDone
    /\ UNCHANGED todo

\* A resource was created or changed (v \in Version) or deleted (v = None).
WatchEvent(k, v) ==
    /\ phase = "watching"
    /\ v # view[k]
    /\ view' = [view EXCEPT ![k] = v]
    /\ InspectEvent(k, v)
    /\ UNCHANGED <<phase, list, todo>>

\* An error: of the watch, or of a list that may have been sent in part.
ErrorEvent ==
    /\ \/ phase = "watching"
       \/ phase = "listing" /\ Aborts
    /\ phase' = "empty"
    /\ list' = Nothing
    /\ todo' = {}
    /\ UNCHANGED <<view, known, resetting>>

WatchInit ==
    /\ phase = "empty"
    /\ list = Nothing
    /\ todo = {}
    /\ view = Nothing
    /\ known = Nothing
    /\ resetting = Nothing

-----------------------------------------------------------------------------
(* Properties *)

\* After a list has completed the diagnostics know exactly the watched
\* resources, however many lists failed before it.
DiagnosticsExact == phase = "watching" => known = view
=============================================================================
