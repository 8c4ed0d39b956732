------------------------------ MODULE ZellijRun ------------------------------
(***************************************************************************)
(* A launch on the zellij backend that carries an environment.             *)
(*                                                                         *)
(* "zellij run" has no environment flag, so StartRun makes a FIFO in the   *)
(* launch's directory, the pane's shell sources it before the payload      *)
(* (". env && { payload }"), and a goroutine beside the launcher writes    *)
(* the script into it.  Launcher.Wait joins launcher and delivery; a       *)
(* dismissal waits for the launcher alone.  The launch around it           *)
(* (PopupLaunch has it in full) is its Wait, its release and its context.  *)
(***************************************************************************)
EXTENDS Naturals

CONSTANTS
    Lines,   \* the "export" lines of the environment script
    Room     \* the lines the FIFO holds before a write blocks

ASSUME ScriptAssumption == Lines \in Nat \ {0} /\ Room \in Nat \ {0}

VARIABLES
    start,      \* where StartRun is
    dir,        \* the launch's directory, with the FIFO in it
    canceled,   \* the caller's context
    launchCtx,  \* the launch's context
    envCtx,     \* the delivery's context: the launch's, with a timeout and cancelEnv
    launcher,   \* the zellij process
    printed,    \* the launcher printed the id of its pane
    pane,       \* the floating pane
    shell,      \* the pane's shell
    deliver,    \* where writeEnvFifo is
    derr,       \* what it returned
    wrote,      \* lines written to the FIFO
    sourced,    \* lines the shell has read from it
    dismissal,  \* handle.Dismiss
    wait,       \* where the wait on the launch and its release are
    werr        \* what Launcher.Wait returned to it

paneVars  == <<launcher, printed, pane>>
scriptVars == <<deliver, derr, wrote>>
shellVars == <<shell, sourced>>
waitVars  == <<wait, werr>>
vars == <<start, dir, canceled, launchCtx, envCtx, paneVars, shellVars, scriptVars,
          dismissal, waitVars>>

Exited == {"ok", "failed"}

Init ==
    /\ start = "start"
    /\ dir = "open"
    /\ canceled = FALSE
    /\ launchCtx = "live"
    /\ envCtx = "none"
    /\ launcher = "none"
    /\ printed = FALSE
    /\ pane = "none"
    /\ shell = "none"
    /\ deliver = "none"
    /\ derr = "none"
    /\ wrote = 0
    /\ sourced = 0
    /\ dismissal = "armed"
    /\ wait = "idle"
    /\ werr = "none"

------------------------------------------------------------------------------
(* Zellij.Launch and StartRun. *)

\* A tmux-only position, a FIFO that cannot be made, a zellij that does not
\* start: the launch's rollback takes the directory away again.
StartFails ==
    /\ start \in {"start", "fifo"}
    /\ start' = "failed"
    /\ dir' = "removed"
    /\ launchCtx' = "canceled"
    /\ UNCHANGED <<canceled, envCtx, paneVars, shellVars, scriptVars, dismissal, waitVars>>

MakeEnvFifo ==
    /\ start = "start"
    /\ start' = "fifo"
    /\ UNCHANGED <<dir, canceled, launchCtx, envCtx, paneVars, shellVars, scriptVars,
                   dismissal, waitVars>>

StartLauncher ==
    /\ start = "fifo"
    /\ launchCtx = "live"
    /\ start' = "started"
    /\ launcher' = "running"
    /\ UNCHANGED <<dir, canceled, launchCtx, envCtx, printed, pane, shellVars, scriptVars,
                   dismissal, waitVars>>

\* context.WithTimeout on the launch's context, and the goroutine of the delivery.
DeliverEnv ==
    /\ start = "started"
    /\ start' = "launched"
    /\ envCtx' = IF launchCtx = "live" THEN "live" ELSE "ended"
    /\ deliver' = "opening"
    /\ UNCHANGED <<dir, canceled, launchCtx, paneVars, shellVars, derr, wrote, dismissal,
                   waitVars>>

------------------------------------------------------------------------------
(* Contexts. *)

Cancel ==
    /\ ~canceled
    /\ canceled' = TRUE
    /\ UNCHANGED <<start, dir, launchCtx, envCtx, paneVars, shellVars, scriptVars, dismissal,
                   waitVars>>

CancelReachesLaunch ==
    /\ canceled
    /\ launchCtx = "live"
    /\ launchCtx' = "canceled"
    /\ UNCHANGED <<start, dir, canceled, envCtx, paneVars, shellVars, scriptVars, dismissal,
                   waitVars>>

CancelReachesDelivery ==
    /\ launchCtx = "canceled"
    /\ envCtx = "live"
    /\ envCtx' = "ended"
    /\ UNCHANGED <<start, dir, canceled, launchCtx, paneVars, shellVars, scriptVars, dismissal,
                   waitVars>>

\* StartupTimeout: a pane has that long to come for its environment, and the
\* write that follows has only what is left of it.
StartupTimeout ==
    /\ envCtx = "live"
    /\ envCtx' = "ended"
    /\ UNCHANGED <<start, dir, canceled, launchCtx, paneVars, shellVars, scriptVars, dismissal,
                   waitVars>>

------------------------------------------------------------------------------
(* The zellij process, its pane, and the shell in it. *)

PaneShows ==
    /\ launcher = "running"
    /\ pane = "none"
    /\ pane' = "up"
    /\ shell' = "starting"
    /\ UNCHANGED <<start, dir, canceled, launchCtx, envCtx, launcher, printed, sourced,
                   scriptVars, dismissal, waitVars>>

\* "zellij run" prints the pane's id and returns the moment the pane exists.
LauncherExits ==
    /\ launcher = "running"
    /\ pane # "none"
    /\ launcher' = "ok"
    /\ printed' = TRUE
    /\ UNCHANGED <<start, dir, canceled, launchCtx, envCtx, pane, shellVars, scriptVars,
                   dismissal, waitVars>>

\* No such session, or the interrupt of a canceled launch: the id may or may
\* not have been printed.
LauncherFails ==
    /\ launcher = "running"
    /\ pane = "none" \/ launchCtx = "canceled"
    /\ launcher' = "failed"
    /\ printed' \in IF pane = "none" THEN {FALSE} ELSE BOOLEAN
    /\ UNCHANGED <<start, dir, canceled, launchCtx, envCtx, pane, shellVars, scriptVars,
                   dismissal, waitVars>>

PaneGoes ==
    /\ pane' = "gone"
    /\ shell' = "exited"

\* ". env": the open blocks until the delivery opens the other end; a FIFO that
\* went with its directory fails it, and "&&" keeps the payload from running.
ShellOpens ==
    /\ shell = "starting"
    /\ IF dir = "open" THEN shell' = "opening" /\ UNCHANGED pane ELSE PaneGoes
    /\ UNCHANGED <<start, dir, canceled, launchCtx, envCtx, launcher, printed, sourced,
                   scriptVars, dismissal, waitVars>>

ShellReads ==
    /\ shell = "sourcing"
    /\ sourced < wrote
    /\ sourced' = sourced + 1
    /\ UNCHANGED <<start, dir, canceled, launchCtx, envCtx, paneVars, shell, scriptVars,
                   dismissal, waitVars>>

\* End of file: the shell sources what it has read.  Whole lines succeed, none
\* at all included; a line cut in the middle may not.
ShellSources ==
    /\ shell = "sourcing"
    /\ deliver = "done"
    /\ sourced = wrote
    /\ \/ shell' = "payload" /\ UNCHANGED pane
       \/ wrote < Lines /\ PaneGoes
    /\ UNCHANGED <<start, dir, canceled, launchCtx, envCtx, launcher, printed, sourced,
                   scriptVars, dismissal, waitVars>>

\* The payload ending (--close-on-exit), or the user closing the pane.
PaneCloses ==
    /\ pane = "up"
    /\ PaneGoes
    /\ UNCHANGED <<start, dir, canceled, launchCtx, envCtx, launcher, printed, sourced,
                   scriptVars, dismissal, waitVars>>

------------------------------------------------------------------------------
(* writeEnvFifo, over fifo.OpenWriter. *)

DeliveryReturns(e) == deliver' = "done" /\ derr' = e

\* The non-blocking open finds the shell in its own open, and releases it.
OpenWriter ==
    /\ deliver = "opening"
    /\ dir = "open"
    /\ shell = "opening"
    /\ deliver' = "writing"
    /\ shell' = "sourcing"
    /\ UNCHANGED <<start, dir, canceled, launchCtx, envCtx, paneVars, sourced, derr, wrote,
                   dismissal, waitVars>>

\* The context, or OpenWriter's own deadline, ending before a pane came; or the
\* FIFO being gone.
OpenWriterGivesUp ==
    /\ deliver = "opening"
    /\ envCtx = "ended" \/ dir = "removed"
    /\ DeliveryReturns("abandoned")
    /\ UNCHANGED <<start, dir, canceled, launchCtx, envCtx, paneVars, shellVars, wrote,
                   dismissal, waitVars>>

WriteLine ==
    /\ deliver = "writing"
    /\ wrote < Lines
    /\ wrote - sourced < Room
    /\ shell = "sourcing"
    /\ wrote' = wrote + 1
    /\ UNCHANGED <<start, dir, canceled, launchCtx, envCtx, paneVars, shellVars, deliver, derr,
                   dismissal, waitVars>>

WriteEnds ==
    /\ deliver = "writing"
    /\ wrote = Lines
    /\ DeliveryReturns("nil")
    /\ UNCHANGED <<start, dir, canceled, launchCtx, envCtx, paneVars, shellVars, wrote,
                   dismissal, waitVars>>

\* Mutant of WriteCut: without the AfterFunc that sets the write deadline.
WriteCutByPane ==
    /\ deliver = "writing"
    /\ wrote < Lines
    /\ shell = "exited"
    /\ DeliveryReturns("cut")
    /\ UNCHANGED <<start, dir, canceled, launchCtx, envCtx, paneVars, shellVars, wrote,
                   dismissal, waitVars>>

\* The write deadline of an ended context, or the broken pipe of a pane gone.
\* The close that follows is an end of file for the shell either way.
WriteCut ==
    /\ deliver = "writing"
    /\ wrote < Lines
    /\ envCtx = "ended" \/ shell = "exited"
    /\ DeliveryReturns("cut")
    /\ UNCHANGED <<start, dir, canceled, launchCtx, envCtx, paneVars, shellVars, wrote,
                   dismissal, waitVars>>

------------------------------------------------------------------------------
(* Dismiss: closePane, on a context of its own with a bound. *)

StartDismissal ==
    /\ canceled
    /\ start = "launched"
    /\ dismissal = "armed"
    /\ dismissal' = "waiting"
    /\ UNCHANGED <<start, dir, canceled, launchCtx, envCtx, paneVars, shellVars, scriptVars,
                   waitVars>>

\* waitBounded, then parsePaneId and close-pane.
DismissCloses ==
    /\ dismissal = "waiting"
    /\ launcher \in Exited
    /\ IF printed /\ pane = "up"
       THEN dismissal' = "closed" /\ PaneGoes
       ELSE dismissal' = "failed" /\ UNCHANGED <<pane, shell>>
    /\ UNCHANGED <<start, dir, canceled, launchCtx, envCtx, launcher, printed, sourced,
                   scriptVars, waitVars>>

DismissGivesUp ==
    /\ dismissal = "waiting"
    /\ dismissal' = "failed"
    /\ UNCHANGED <<start, dir, canceled, launchCtx, envCtx, paneVars, shellVars, scriptVars,
                   waitVars>>

------------------------------------------------------------------------------
(* Launcher.Wait, as PopupCommand.Wait calls it, and the release after it.  *)

waitUnchanged == <<start, canceled, paneVars, shellVars, scriptVars>>

\* PopupCommand.Wait waits for the launcher first.  An exchange whose streams
\* end it, JSON's, is released without.
BeginWait ==
    /\ start = "launched"
    /\ wait = "idle"
    /\ wait' \in {"launcher", "release"}
    /\ UNCHANGED <<waitUnchanged, dir, launchCtx, envCtx, dismissal, werr>>

\* Mutant of JoinLauncher: a failed launcher leaves the delivery to its timeout.
JoinLauncherOnly ==
    /\ wait = "launcher"
    /\ launcher \in Exited
    /\ werr' = IF launcher = "ok" THEN "nil" ELSE "launcher"
    /\ wait' = "env"
    /\ UNCHANGED <<waitUnchanged, dir, launchCtx, envCtx, dismissal>>

JoinLauncher ==
    /\ wait = "launcher"
    /\ launcher \in Exited
    /\ werr' = IF launcher = "ok" THEN "nil" ELSE "launcher"
    /\ envCtx' = IF launcher = "ok" THEN envCtx ELSE "ended"    \* cancelEnv
    /\ wait' = "env"
    /\ UNCHANGED <<waitUnchanged, dir, launchCtx, dismissal>>

\* Mutant of JoinDelivery: the delivery is left to itself.
JoinNoDelivery ==
    /\ wait = "env"
    /\ wait' = "release"
    /\ UNCHANGED <<waitUnchanged, dir, launchCtx, envCtx, dismissal, werr>>

\* Mutant of JoinDelivery: its error is dropped.
JoinDeliveryQuietly ==
    /\ wait = "env"
    /\ deliver = "done"
    /\ envCtx' = "ended"
    /\ wait' = "release"
    /\ UNCHANGED <<waitUnchanged, dir, launchCtx, dismissal, werr>>

JoinDelivery ==
    /\ wait = "env"
    /\ deliver = "done"
    /\ werr' = IF werr = "nil" THEN derr ELSE werr
    /\ envCtx' = "ended"    \* the deferred cancel
    /\ wait' = "release"
    /\ UNCHANGED <<waitUnchanged, dir, launchCtx, dismissal>>

\* Mutant of StopDismiss: the watch is left registered.
StopDismissNot ==
    /\ wait = "release"
    /\ \/ ~canceled /\ dismissal = "armed"
       \/ dismissal \in {"closed", "failed"}
    /\ launchCtx' = "canceled"
    /\ wait' = "undo"
    /\ UNCHANGED <<waitUnchanged, dir, envCtx, dismissal, werr>>

\* release: a canceled launch is dismissed first, and one that was not stops
\* the watch; then the launch's context ends.
StopDismiss ==
    /\ wait = "release"
    /\ \/ ~canceled /\ dismissal = "armed" /\ dismissal' = "stopped"
       \/ dismissal \in {"closed", "failed"} /\ UNCHANGED dismissal
    /\ launchCtx' = "canceled"
    /\ wait' = "undo"
    /\ UNCHANGED <<waitUnchanged, dir, envCtx, werr>>

RemoveDir ==
    /\ wait = "undo"
    /\ dir' = "removed"
    /\ wait' = "returned"
    /\ UNCHANGED <<waitUnchanged, launchCtx, envCtx, dismissal, werr>>

------------------------------------------------------------------------------
StartStep == StartFails \/ MakeEnvFifo \/ StartLauncher \/ DeliverEnv
ContextStep == CancelReachesLaunch \/ CancelReachesDelivery
DeliveryStep == OpenWriter \/ OpenWriterGivesUp \/ WriteLine \/ WriteEnds \/ WriteCut
DismissStep == StartDismissal \/ DismissCloses \/ DismissGivesUp
WaitStep == JoinLauncher \/ JoinDelivery \/ StopDismiss \/ RemoveDir
InterruptedExits == launchCtx = "canceled" /\ LauncherFails

Next ==
    \/ StartStep
    \/ Cancel \/ ContextStep \/ StartupTimeout
    \/ PaneShows \/ LauncherExits \/ LauncherFails
    \/ ShellOpens \/ ShellReads \/ ShellSources \/ PaneCloses
    \/ DeliveryStep \/ DismissStep
    \/ BeginWait \/ WaitStep

Spec == Init /\ [][Next]_vars

\* Goroutines that can move do, contexts reach their children, a launcher that
\* was interrupted ends.  Nothing is assumed of the pane and its shell, which may
\* be stopped with the FIFO open, nor of the startup timeout: a wait that needed
\* it would sit it out.
Fairness ==
    /\ WF_vars(StartStep)
    /\ WF_vars(ContextStep)
    /\ WF_vars(DeliveryStep)
    /\ WF_vars(DismissStep)
    /\ WF_vars(WaitStep)
    /\ WF_vars(InterruptedExits)

FairSpec == Spec /\ Fairness

------------------------------------------------------------------------------
(* Properties. *)

\* Every variable has its type.
TypeOK ==
    /\ start \in {"start", "fifo", "started", "launched", "failed"}
    /\ dir \in {"open", "removed"}
    /\ canceled \in BOOLEAN
    /\ launchCtx \in {"live", "canceled"}
    /\ envCtx \in {"none", "live", "ended"}
    /\ launcher \in {"none", "running"} \cup Exited
    /\ printed \in BOOLEAN
    /\ pane \in {"none", "up", "gone"}
    /\ shell \in {"none", "starting", "opening", "sourcing", "payload", "exited"}
    /\ deliver \in {"none", "opening", "writing", "done"}
    /\ derr \in {"none", "nil", "abandoned", "cut"}
    /\ wrote \in 0..Lines
    /\ sourced \in 0..wrote
    /\ dismissal \in {"armed", "waiting", "closed", "failed", "stopped"}
    /\ wait \in {"idle", "launcher", "env", "release", "undo", "returned"}
    /\ werr \in {"none", "nil", "launcher", "abandoned", "cut"}

\* backend.go: a file the payload must still find in the directory needs a
\* rendezvous holding the launch open, zellij's is joined by its Wait.  A launch
\* waited on keeps its directory until the delivery is over.
DirOutlivesDelivery ==
    dir = "removed" /\ werr # "none" => deliver = "done"

\* A wait without an error means the whole environment was handed over and closed,
\* so a payload that ran with less is never part of a clean launch.
CleanWaitMeansWholeEnvironment ==
    wait = "returned" /\ werr = "nil" =>
        /\ wrote = Lines
        /\ shell = "payload" => sourced = Lines

\* A launcher that failed ends the wait at once: no pane is coming, and the
\* delivery is ended rather than sat out.
FailedLauncherEndsWait ==
    (launcher = "failed" /\ wait = "launcher") ~> (wait = "returned")

\* A canceled launch ends whatever the pane is doing: one that opened the FIFO
\* and stopped reading it holds neither the delivery nor the wait.
CanceledDeliveryEnds ==
    (canceled /\ start = "launched") ~> (deliver = "done")

\* internal/zellij/run.go:164, "A pane that could not read its environment must
\* not run the payload without it": the payload runs with all of it.
PayloadHasItsEnvironment ==
    shell = "payload" => sourced = Lines

------------------------------------------------------------------------------
(* The launch around the delivery is the one launch.go has. *)

runDismissal == IF dismissal \in {"armed", "stopped"} THEN "none"
                ELSE IF dismissal = "waiting" THEN "running" ELSE "over"
runRelease   == IF wait = "undo" THEN "begun" ELSE IF wait = "returned" THEN "done" ELSE "no"

Run == INSTANCE LaunchRun WITH
    Outputs   <- {},
    asked     <- canceled,
    ctx       <- launchCtx,
    dismissal <- runDismissal,
    open      <- {},
    release   <- runRelease

\* The delivery, its wait and its dismissal fit the launch of LaunchRun: a pane is
\* closed only for a canceled launch, and before its release goes on.
KeepsRun == Run!RunSpec
==============================================================================
