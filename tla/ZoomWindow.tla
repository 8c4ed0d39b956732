------------------------------ MODULE ZoomWindow ------------------------------
(***************************************************************************)
(* The tmux-floating-pane backend's Prepare and restore, on one window.    *)
(*                                                                         *)
(* A floating pane created while a pane of the window is zoomed takes the  *)
(* tmux server down on the versions before 3.7c, so Prepare asks which     *)
(* pane is zoomed and toggles it off, and the launch's release toggles it  *)
(* back.  Each of these is a command of its own: another launch, or the    *)
(* user, can come between any two of them.                                 *)
(***************************************************************************)
EXTENDS Naturals

CONSTANTS
    Launches,       \* launches whose pane lands in the window
    Panes,          \* the user's panes in it
    Versions,       \* what "tmux -V" may print: <<major, minor, suffix>>, or Unparsed
    MaxUserToggles  \* how often the user zooms or unzooms, a bound for TLC

Unparsed == <<>>

NoPane == "none"

ASSUME VersionsAssumption == Versions \subseteq (Nat \X Nat \X Nat) \cup {Unparsed}
ASSUME PanesAssumption == NoPane \notin Panes /\ MaxUserToggles \in Nat

VARIABLES
    version,    \* the version of the server's tmux
    crashes,    \* it has the crash
    server,     \* the tmux server
    zoomed,     \* the zoomed pane of the window
    pc,         \* where each launch is
    target,     \* the pane its Prepare remembers
    pane,       \* its floating pane
    overZoom,   \* that pane was created over a zoomed one
    before,     \* the zoom each launch came upon
    failed,     \* the launches one of whose commands failed
    disturbed,  \* the launches somebody else toggled the zoom under
    toggles     \* the user's so far

launchVars == <<pc, target, pane, overZoom, before, failed>>
vars == <<version, crashes, server, zoomed, launchVars, disturbed, toggles>>

------------------------------------------------------------------------------
(* version.go *)

\* 3.7c, where the suffixes "", "a", "b", "c" are 0, 1, 2, 3.
Fixed == <<3, 7, 3>>

Earlier(v, w) ==
    \/ v[1] < w[1]
    \/ v[1] = w[1] /\ v[2] < w[2]
    \/ v[1] = w[1] /\ v[2] = w[2] /\ v[3] < w[3]

\* Mutant of AffectedByZoomCrash: what cannot be parsed counts as fixed.
AffectedWhenParsed(v) == v # Unparsed /\ Earlier(v, Fixed)

AffectedByZoomCrash(v) == v = Unparsed \/ Earlier(v, Fixed)

Init ==
    /\ version \in Versions
    /\ crashes \in IF version = Unparsed THEN BOOLEAN ELSE {Earlier(version, Fixed)}
    /\ server = "up"
    /\ zoomed \in Panes \cup {NoPane}
    /\ pc = [l \in Launches |-> "start"]
    /\ target = [l \in Launches |-> NoPane]
    /\ pane = [l \in Launches |-> "none"]
    /\ overZoom = [l \in Launches |-> FALSE]
    /\ before = [l \in Launches |-> NoPane]
    /\ failed = {}
    /\ disturbed = {}
    /\ toggles = 0

------------------------------------------------------------------------------
InProgress == {l \in Launches : pc[l] \notin {"start", "done"}}

\* "resize-pane -Z": a zoomed window is unzoomed, whichever pane is named.  It
\* disturbs every launch under way but the one that asked for it.
Toggle(p, own) ==
    /\ zoomed' = IF zoomed = NoPane THEN p ELSE NoPane
    /\ disturbed' = disturbed \cup (InProgress \ own)

Goto(l, where) == pc' = [pc EXCEPT ![l] = where]
Fails(l) == failed' = failed \cup {l}

\* tmux -V.  A version that cannot be asked for counts as affected.
AskVersion(l) ==
    /\ pc[l] = "start"
    /\ \/ server = "up"
          /\ Goto(l, IF AffectedByZoomCrash(version) THEN "query" ELSE "create")
       \/ Goto(l, "query")
    /\ before' = [before EXCEPT ![l] = zoomed]
    /\ UNCHANGED <<version, crashes, server, zoomed, target, pane, overZoom, failed, disturbed,
                   toggles>>

\* ZoomedPane: a window that is not zoomed needs nothing.
QueryZoom(l) ==
    /\ pc[l] = "query"
    /\ server = "up"
    /\ IF zoomed = NoPane THEN Goto(l, "create") ELSE Goto(l, "dezoom")
    /\ target' = [target EXCEPT ![l] = zoomed]
    /\ UNCHANGED <<version, crashes, server, zoomed, pane, overZoom, before, failed, disturbed,
                   toggles>>

\* No pane is created without knowing the zoom.
QueryFails(l) ==
    /\ pc[l] = "query"
    /\ Goto(l, "done")
    /\ Fails(l)
    /\ UNCHANGED <<version, crashes, server, zoomed, target, pane, overZoom, before, disturbed,
                   toggles>>

DeZoom(l) ==
    /\ pc[l] = "dezoom"
    /\ server = "up"
    /\ Toggle(target[l], {l})
    /\ Goto(l, "create")
    /\ UNCHANGED <<version, crashes, server, target, pane, overZoom, before, failed, toggles>>

\* Prepare returns the error and no restore, even when tmux had done it already.
DeZoomFails(l) ==
    /\ pc[l] = "dezoom"
    /\ \/ server = "up" /\ Toggle(target[l], {l})
       \/ UNCHANGED <<zoomed, disturbed>>
    /\ Goto(l, "done")
    /\ Fails(l)
    /\ UNCHANGED <<version, crashes, server, target, pane, overZoom, before, toggles>>

\* new-pane, by the launch.
CreatePane(l) ==
    /\ pc[l] = "create"
    /\ server = "up"
    /\ pane' = [pane EXCEPT ![l] = "floating"]
    /\ overZoom' = [overZoom EXCEPT ![l] = crashes /\ zoomed # NoPane]
    /\ Goto(l, "restore")
    /\ UNCHANGED <<version, crashes, server, zoomed, target, before, failed, disturbed, toggles>>

\* The rollback of a launch that did not happen restores as well.
CreateFails(l) ==
    /\ pc[l] = "create"
    /\ Goto(l, "restore")
    /\ Fails(l)
    /\ UNCHANGED <<version, crashes, server, zoomed, target, pane, overZoom, before, disturbed,
                   toggles>>

\* A floating pane of the window is laid out with the rest when a pane is zoomed.
Unfloat == pane' = [k \in Launches |->
    IF pane[k] = "floating" /\ zoomed' # NoPane THEN "tiled" ELSE pane[k]]

\* Mutant of Restore: not while the pane lives.
RestoreAfterPane(l) ==
    /\ pc[l] = "restore"
    /\ server = "up" \/ target[l] = NoPane
    /\ IF target[l] = NoPane \/ pane[l] \in {"floating", "tiled"}
       THEN UNCHANGED <<zoomed, disturbed, pane>>
       ELSE Toggle(target[l], {l}) /\ Unfloat
    /\ Goto(l, "done")
    /\ UNCHANGED <<version, crashes, server, target, overZoom, before, failed, toggles>>

\* The release, while the pane lives or after.  A nil restore has nothing to undo.
Restore(l) ==
    /\ pc[l] = "restore"
    /\ server = "up" \/ target[l] = NoPane
    /\ IF target[l] = NoPane
       THEN UNCHANGED <<zoomed, disturbed, pane>>
       ELSE Toggle(target[l], {l}) /\ Unfloat
    /\ Goto(l, "done")
    /\ UNCHANGED <<version, crashes, server, target, overZoom, before, failed, toggles>>

\* Logged, and the window left as it is.
RestoreFails(l) ==
    /\ pc[l] = "restore"
    /\ target[l] # NoPane
    /\ \/ server = "up" /\ Toggle(target[l], {l}) /\ Unfloat
       \/ UNCHANGED <<zoomed, disturbed, pane>>
    /\ Goto(l, "done")
    /\ Fails(l)
    /\ UNCHANGED <<version, crashes, server, target, overZoom, before, toggles>>

\* The pane's command exits, which is when the crash comes.
PaneExits(l) ==
    /\ pane[l] \in {"floating", "tiled"}
    /\ server = "up"
    /\ pane' = [pane EXCEPT ![l] = "gone"]
    /\ server' = IF overZoom[l] THEN "dead" ELSE "up"
    /\ UNCHANGED <<version, crashes, zoomed, pc, target, overZoom, before, failed, disturbed,
                   toggles>>

UserToggles(p) ==
    /\ server = "up"
    /\ toggles < MaxUserToggles
    /\ toggles' = toggles + 1
    /\ Toggle(p, {})
    /\ Unfloat
    /\ UNCHANGED <<version, crashes, server, pc, target, overZoom, before, failed>>

Next ==
    \/ \E l \in Launches :
        \/ AskVersion(l) \/ QueryZoom(l) \/ QueryFails(l) \/ DeZoom(l) \/ DeZoomFails(l)
        \/ CreatePane(l) \/ CreateFails(l) \/ Restore(l) \/ RestoreFails(l) \/ PaneExits(l)
    \/ \E p \in Panes : UserToggles(p)

Spec == Init /\ [][Next]_vars

------------------------------------------------------------------------------
(* Properties. *)

\* Every variable has its type.
TypeOK ==
    /\ version \in Versions
    /\ crashes \in BOOLEAN
    /\ server \in {"up", "dead"}
    /\ zoomed \in Panes \cup {NoPane}
    /\ pc \in [Launches -> {"start", "query", "dezoom", "create", "restore", "done"}]
    /\ target \in [Launches -> Panes \cup {NoPane}]
    /\ pane \in [Launches -> {"none", "floating", "tiled", "gone"}]
    /\ overZoom \in [Launches -> BOOLEAN]
    /\ before \in [Launches -> Panes \cup {NoPane}]
    /\ failed \subseteq Launches
    /\ disturbed \subseteq Launches
    /\ toggles \in 0..MaxUserToggles

\* Prepare: the zoom crash needs somebody else at the zoom between the query and the
\* creation.  Left alone, a launch never creates its pane over a zoomed one, whatever
\* the version prints as and whichever of its commands fail.
UndisturbedServerLives ==
    \A l \in Launches : overZoom[l] => l \in disturbed

\* "re-zooming the pane that was zoomed": a launch left alone whose commands worked
\* gives the window back zoomed as it came upon it.
UndisturbedZoomComesBack ==
    [][\A l \in Launches :
        /\ pc[l] # "done" /\ pc'[l] = "done"
        /\ l \notin disturbed' /\ l \notin failed'
        => zoomed' = before[l]]_vars

\* tmux_floating_pane.go:78, "Prepare de-zooms the window before the floating pane is
\* created", of a backend that backend.go:150 calls "safe to reuse for several popups":
\* no pane is created over a zoomed one.
NoPaneOverZoom ==
    \A l \in Launches : ~overZoom[l]
==============================================================================
