------------------------------ MODULE CommandRun ------------------------------
(***************************************************************************)
(* One invocation: run-in-popup's exec and pinentry subcommands and the    *)
(* deprecated binaries, from their arguments to their exit.                *)
(*                                                                         *)
(* The invocation settles its configuration and its backend (Settings),    *)
(* opens the run's directory, runs the popup (PopupLaunch and              *)
(* PinentryExchange have what that is), closes the directory again and     *)
(* reports the first thing that went wrong.  An input is chosen where it   *)
(* is read.                                                                *)
(***************************************************************************)
EXTENDS Settings

CONSTANTS
    BackendValues,   \* what a layer may set the backend to, "" included
    PathValues,      \* and the pinentry binary
    Values           \* the popup's rows and heights as typed

ASSUME ValuesAssumption == Values \subseteq Value

VARIABLES
    cmd,        \* exec, pinentry, or a deprecated binary
    phase,      \* where the invocation is
    signaled,   \* an exit signal arrived, and canceled the context
    layers,     \* the layers read so far, lowest first
    cfg,        \* the configuration merged so far
    backend,    \* the backend settled on
    debug,      \* the run was asked to keep its log and directory
    dir,        \* the run's directory
    log,        \* its log file
    asked,      \* the row and height of the popup, as typed
    flag,       \* the row flag its launcher got
    runErr,     \* what the popup's run returned
    err,        \* the error the command returns
    closeErr,   \* what closing the workspace reported
    report      \* what the process said, and exited 1 with

settled == <<layers, cfg, backend>>
space   == <<debug, dir, log>>
place   == <<asked, flag>>
vars == <<cmd, phase, signaled, settled, space, place, runErr, err, closeErr, report>>

Commands == {"exec", "pinentry", "shim"}
Partials == UNION {[S -> BackendValues \cup PathValues] : S \in SUBSET DOMAIN DefaultConfig}

\* The partials a layer can hold, each field with values of its own.
Layer == {p \in Partials :
    /\ "backend" \in DOMAIN p => p["backend"] \in BackendValues
    /\ "pinentry_path" \in DOMAIN p => p["pinentry_path"] \in PathValues}

\* exec has no --pinentry, and its partial never holds the path.
FlagLayer == {p \in Layer : cmd = "exec" => "pinentry_path" \notin DOMAIN p}

Init ==
    /\ cmd \in Commands
    /\ phase = "args"
    /\ signaled = FALSE
    /\ layers = <<>>
    /\ cfg = DefaultConfig
    /\ backend = ""
    /\ debug = FALSE
    /\ dir = "none"
    /\ log = "none"
    /\ asked = <<Empty, Empty>>
    /\ flag = Empty
    /\ runErr = "none"
    /\ err = "nil"
    /\ closeErr = "nil"
    /\ report = "none"

Fail(e) == phase' = "main" /\ err' = e

Signal ==
    /\ ~signaled
    /\ phase # "exit"
    /\ signaled' = TRUE
    /\ UNCHANGED <<cmd, phase, settled, space, place, err, runErr, closeErr, report>>

------------------------------------------------------------------------------
(* Arguments, configuration, backend. *)

\* exec without a command.
ParseArgs ==
    /\ cmd # "shim"
    /\ phase = "args"
    /\ \/ phase' = "file" /\ UNCHANGED err
       \/ cmd = "exec" /\ Fail("args")
    /\ UNCHANGED <<cmd, signaled, settled, space, place, runErr, closeErr, report>>

\* A missing file is an empty layer, one that cannot be read or parsed the end of it.
LoadFile ==
    /\ phase = "file"
    /\ \/ \E p \in Layer : layers' = <<p>> /\ cfg' = Apply(p, cfg)
          /\ phase' = "env" /\ UNCHANGED err
       \/ Fail("config") /\ UNCHANGED <<layers, cfg>>
    /\ UNCHANGED <<cmd, signaled, backend, space, place, runErr, closeErr, report>>

LoadEnv ==
    /\ phase = "env"
    /\ \/ \E p \in Layer : layers' = <<layers[1], p>> /\ cfg' = Apply(p, cfg)
          /\ phase' = "flags" /\ UNCHANGED err
       \/ Fail("config") /\ UNCHANGED <<layers, cfg>>
    /\ UNCHANGED <<cmd, signaled, backend, space, place, runErr, closeErr, report>>

ApplyFlags ==
    /\ phase = "flags"
    /\ \E p \in FlagLayer : layers' = <<layers[1], layers[2], p>> /\ cfg' = Apply(p, cfg)
    /\ phase' = "runtime"
    /\ UNCHANGED <<cmd, signaled, backend, space, place, err, runErr, closeErr, report>>

NewBackend(name, tmuxEnv, metaOk) ==
    IF Constructible(name, tmuxEnv, metaOk)
    THEN backend' = name /\ phase' = "workspace" /\ UNCHANGED err
    ELSE Fail("backend") /\ UNCHANGED backend

\* The configured backend or the detected one.
ResolveRuntime ==
    /\ phase = "runtime"
    /\ \E kind \in Kinds, tmuxEnv, zellijEnv, metaOk \in BOOLEAN :
        NewBackend(IF cfg.backend # "" THEN cfg.backend
                   ELSE DetectName(kind, tmuxEnv, zellijEnv), tmuxEnv, metaOk)
    /\ layers' = <<>>    \* out of scope
    /\ UNCHANGED <<cmd, signaled, cfg, space, place, runErr, closeErr, report>>

\* A deprecated binary: no configuration, the one backend it is named after, and the
\* multiplexer's coordinates, which it cannot do without.
ShimSettles ==
    /\ cmd = "shim"
    /\ phase = "args"
    /\ \/ \E name \in {"tmux-popup", "zellij"}, tmuxEnv, metaOk \in BOOLEAN :
            NewBackend(name, tmuxEnv, metaOk)
       \/ Fail("args") /\ UNCHANGED backend
    /\ UNCHANGED <<cmd, signaled, layers, cfg, space, place, runErr, closeErr, report>>

------------------------------------------------------------------------------
(* runworkspace and the run in it. *)

\* A log that cannot be opened takes the directory back down with it.
OpenWorkspace ==
    /\ phase = "workspace"
    /\ debug' \in BOOLEAN
    /\ \/ /\ dir' = "open"
          /\ log' = IF debug' THEN "open" ELSE "none"
          /\ phase' = "launch"
          /\ UNCHANGED err
       \/ Fail("workspace") /\ UNCHANGED <<dir, log>>
       \/ debug' /\ Fail("workspace") /\ dir' \in {"removed", "left"} /\ UNCHANGED log
    /\ UNCHANGED <<cmd, signaled, settled, place, runErr, closeErr, report>>

\* validateGeometry, and the backend's request.  A pinentry popup is not placed.
Launch ==
    /\ phase = "launch"
    /\ \E y, h \in Values :
        LET row == RowFlag(backend, y, h)
        IN  /\ cmd # "exec" => y = Empty /\ h = Empty
            /\ asked' = <<y, h>>
            /\ IF Valid(y, TRUE) /\ Valid(h, FALSE) /\ row # NoSum
               THEN flag' = row /\ phase' = "running" /\ UNCHANGED runErr
               ELSE phase' = "closing" /\ runErr' = "geometry" /\ UNCHANGED flag
    /\ UNCHANGED <<cmd, signaled, settled, space, err, closeErr, report>>

\* WaitStreams, or Call: clean, failed of its own, or canceled.
RunEnds ==
    /\ phase = "running"
    /\ runErr' \in {"nil", "run"} \cup (IF signaled THEN {"canceled"} ELSE {})
    /\ phase' = "closing"
    /\ UNCHANGED <<cmd, signaled, settled, space, place, err, closeErr, report>>

\* Mutant of CloseWorkspace: its error is the run's.
CloseWorkspaceOver ==
    /\ phase = "closing"
    /\ log' = IF log = "open" THEN "closed" ELSE log
    /\ \E logFails, dirFails \in BOOLEAN :
        /\ dir' = IF debug \/ dirFails THEN "left" ELSE "removed"
        /\ closeErr' = IF (debug /\ logFails) \/ (~debug /\ dirFails) THEN "close" ELSE "nil"
    /\ err' = IF closeErr' # "nil" THEN closeErr' ELSE runErr
    /\ phase' = "main"
    /\ UNCHANGED <<cmd, signaled, settled, debug, place, runErr, report>>

\* Workspace.Close, deferred: a debug run's directory stays, any other's goes.
CloseWorkspace ==
    /\ phase = "closing"
    /\ log' = IF log = "open" THEN "closed" ELSE log
    /\ \E logFails, dirFails \in BOOLEAN :
        /\ dir' = IF debug \/ dirFails THEN "left" ELSE "removed"
        /\ closeErr' = IF (debug /\ logFails) \/ (~debug /\ dirFails) THEN "close" ELSE "nil"
    /\ err' = IF runErr = "nil" THEN closeErr' ELSE runErr
    /\ phase' = "main"
    /\ UNCHANGED <<cmd, signaled, settled, debug, place, runErr, report>>

\* main: the cancellation's cause stands in for it, in run-in-popup's.
Main ==
    /\ phase = "main"
    /\ report' = IF err = "canceled" /\ signaled /\ cmd # "shim" THEN "signal" ELSE err
    /\ phase' = "exit"
    /\ UNCHANGED <<cmd, signaled, settled, space, place, err, runErr, closeErr>>

Next ==
    \/ Signal \/ ParseArgs \/ LoadFile \/ LoadEnv \/ ApplyFlags \/ ResolveRuntime
    \/ ShimSettles \/ OpenWorkspace \/ Launch \/ RunEnds \/ CloseWorkspace \/ Main

Spec == Init /\ [][Next]_vars

------------------------------------------------------------------------------
(* Properties. *)

\* defaults < file < environment < flags, field by field: the configuration holds what
\* the highest layer that has the field says, an explicit empty value included.
HighestLayerWins ==
    phase = "runtime" =>
        \A f \in DOMAIN cfg :
            \/ \E i \in 1..3 : /\ f \in DOMAIN layers[i] /\ cfg[f] = layers[i][f]
                               /\ \A j \in (i + 1)..3 : f \notin DOMAIN layers[j]
            \/ /\ \A i \in 1..3 : f \notin DOMAIN layers[i]
               /\ cfg[f] = DefaultConfig[f]

\* "--x and --y are the popup's top-left corner on every backend": the popup's top row
\* is the one asked for whatever mechanism places it.  A sum past the largest int is the
\* one exception, and wraps to no row at all.
TopLeftCorner ==
    phase = "running" /\ asked[1].kind \in Unit =>
        TopEdge(backend, flag, asked[2]) = asked[1] \/ flag.n < 0

\* Whatever failed, the invocation exits with its directory settled: gone unless it was
\* to be kept or could not be removed, its log closed.  It reports what the popup's run
\* reported, never hidden by the close, and nothing only if all went well.
ExitIsSettled ==
    phase = "exit" =>
        /\ dir # "open" /\ log # "open"
        /\ dir = "left" => debug \/ closeErr # "nil"
        /\ err = "nil" => runErr = "nil" /\ dir = IF debug THEN "left" ELSE "removed"
        /\ runErr \notin {"none", "nil"} => report = runErr \/ (report = "signal" /\ signaled)
        /\ closeErr # "nil" => report # "nil"
==============================================================================
