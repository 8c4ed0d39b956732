----------------------------- MODULE PopupLaunch -----------------------------
(***************************************************************************)
(* One popup launch, from PopupLauncher.Exec to the return of              *)
(* PopupCommand.Wait or WaitStreams (runinpopup/launch.go), with the FIFO  *)
(* rendezvous of internal/fifo and the launcher and dismissal of           *)
(* internal/tmux and internal/zellij.                                      *)
(*                                                                         *)
(* The actors, each advancing on its own: the caller (Exec, then Wait),    *)
(* whoever cancels its context, the goroutine context.AfterFunc starts to  *)
(* dismiss the popup, one relay goroutine per allocated stream, the        *)
(* launcher process, and the popup with the payload's shell inside it.     *)
(***************************************************************************)
EXTENDS Naturals, Sequences

CONSTANT
    Launches   \* the launches Exec may be asked for, see LaunchRequest

VARIABLES
    req,        \* the launch asked for
    exec,       \* where Exec is
    rollback,   \* Exec's rollback list, oldest first
    mux,        \* the multiplexer state Backend.Prepare adjusts
    workspace,  \* the work directory with the FIFOs
    canceled,   \* the caller's ctx
    launchCtx,  \* the context derived from it for the launcher and the relays
    watch,      \* the context.AfterFunc registration that dismisses
    dismissal,  \* the sync.OnceFunc around handle.Dismiss, and how it went
    launcher,   \* the launcher process
    printed,    \* the launcher printed the id of the pane it created
    popup,      \* the popup on the multiplexer
    payload,    \* the shell in the popup
    met,        \* the streams whose FIFO the payload has opened
    unread,     \* the streams whose FIFO holds something their relay has not read
    pump,       \* where the relay of each stream is
    cut,        \* the relays whose context.AfterFunc has run
    perr,       \* what the relay of each stream returned
    wait,       \* where Wait, WaitStreams or the release they call is
    lerr,       \* what waitLauncher returned to the wait
    serr,       \* what endpoints.Wait returned to the wait
    stopped,    \* what stopDismiss returned to the release
    verdict     \* what Wait or WaitStreams returned

ctxVars    == <<canceled, launchCtx>>
heldVars   == <<rollback, mux, workspace>>
popupVars  == <<launcher, printed, popup, payload, met>>
relayVars  == <<unread, pump, cut, perr>>
waitVars   == <<wait, lerr, serr, stopped, verdict>>
dismissVars == <<watch, dismissal>>
vars == <<req, exec, heldVars, ctxVars, dismissVars, popupVars, relayVars, waitVars>>

------------------------------------------------------------------------------
(* The request: PopupStreams, the spec's Env, and the backend's mechanism. *)

Outs    == {"stdout", "stderr"}
Streams == Outs \cup {"stdin"}

\* A "popup" launcher lives as long as its popup (tmux display-popup); a "pane"
\* launcher exits once the pane exists, and prints its id (new-pane, zellij run).
\* A launch is ended by WaitStreams, by Wait, or by its release alone, as the
\* exchanges of the package do whose streams are pipes, or none.
LaunchRequest ==
    { r \in [ stdin     : BOOLEAN,
              endpoints : SUBSET Outs,
              pipes     : SUBSET Outs,
              env       : BOOLEAN,
              mechanism : {"popup", "pane"},
              by        : {"WaitStreams", "Wait", "release"} ] :
        r.by = "release" => r.endpoints = {} }

ASSUME LaunchesAssumption == Launches \subseteq LaunchRequest

\* payloadStreams: an endpoint wins over a pipe request for the same stream.
Endpoints == req.endpoints
Piped     == req.pipes \ req.endpoints
Outputs   == Endpoints \cup Piped
Allocated == Outputs \cup (IF req.stdin THEN {"stdin"} ELSE {})

NeedsWorkspace == Allocated # {} \/ req.env

\* launchCommandLine appends the redirections in the order stdin, stdout,
\* stderr, and the shell opens them in that order.
Earlier(s) == CASE s = "stdin"  -> {}
                [] s = "stdout" -> {"stdin"}
                [] s = "stderr" -> {"stdin", "stdout"}

Undos == {"restore", "releaseWorkspace", "cancelLaunch"}

Init ==
    /\ req \in Launches
    /\ exec = "start"
    /\ rollback = <<>>
    /\ mux = "plain"
    /\ workspace = "none"
    /\ canceled = FALSE
    /\ launchCtx = "none"
    /\ watch = "none"
    /\ dismissal = "none"
    /\ launcher = "none"
    /\ printed = FALSE
    /\ popup = "none"
    /\ payload = "none"
    /\ met = {}
    /\ unread = {}
    /\ cut = {}
    /\ pump = [s \in Streams |-> "idle"]
    /\ perr = [s \in Streams |-> "none"]
    /\ wait = "idle"
    /\ lerr = "none"
    /\ serr = "none"
    /\ stopped = FALSE
    /\ verdict = "none"

------------------------------------------------------------------------------
(* PopupLauncher.Exec.  A step that fails goes to "undoing", where the     *)
(* deferred function runs the rollback list.                               *)

\* No backend, or a geometry nobody can act on.
RefuseRequest ==
    /\ exec = "start"
    /\ exec' = "failed"
    /\ UNCHANGED <<req, heldVars, ctxVars, dismissVars, popupVars, relayVars, waitVars>>

\* Only the floating-pane backend adjusts anything (it de-zooms the window).
Prepare ==
    /\ exec = "start"
    /\ \/ /\ exec' \in {"workspace", "failed"}
          /\ UNCHANGED <<mux, rollback>>
       \/ /\ req.mechanism = "pane"
          /\ exec' = "workspace"
          /\ mux' = "adjusted"
          /\ rollback' = Append(rollback, "restore")
    /\ UNCHANGED <<req, workspace, ctxVars, dismissVars, popupVars, relayVars, waitVars>>

OpenWorkspace ==
    /\ exec = "workspace"
    /\ \/ /\ NeedsWorkspace
          /\ exec' = "undoing"
          /\ UNCHANGED <<workspace, rollback>>
       \/ /\ NeedsWorkspace
          /\ exec' = "fifos"
          /\ workspace' = "open"
          /\ rollback' = Append(rollback, "releaseWorkspace")
       \/ /\ ~NeedsWorkspace
          /\ exec' = "context"
          /\ UNCHANGED <<workspace, rollback>>
    /\ UNCHANGED <<req, mux, ctxVars, dismissVars, popupVars, relayVars, waitVars>>

\* Mutant of MakeFifos: the error returned past the deferred rollback.
MakeFifosNoRollback ==
    /\ exec = "fifos"
    /\ \/ exec' = "context"
       \/ Allocated # {} /\ exec' = "failed"
    /\ UNCHANGED <<req, heldVars, ctxVars, dismissVars, popupVars, relayVars, waitVars>>

MakeFifos ==
    /\ exec = "fifos"
    /\ \/ exec' = "context"
       \/ Allocated # {} /\ exec' = "undoing"
    /\ UNCHANGED <<req, heldVars, ctxVars, dismissVars, popupVars, relayVars, waitVars>>

\* context.WithCancel(ctx): a child of a canceled context is born canceled.
MakeLaunchContext ==
    /\ exec = "context"
    /\ exec' = "launch"
    /\ launchCtx' = IF canceled THEN "canceled" ELSE "live"
    /\ rollback' = Append(rollback, "cancelLaunch")
    /\ UNCHANGED <<req, mux, workspace, canceled, dismissVars, popupVars, relayVars, waitVars>>

LaunchFails ==
    /\ exec = "launch"
    /\ exec' = "undoing"
    /\ UNCHANGED <<req, heldVars, ctxVars, dismissVars, popupVars, relayVars, waitVars>>

\* exec.Cmd.Start refuses a context already done, so a launcher starts only
\* under a live one.  The relays and the dismissal watch start with it.
LaunchSucceeds ==
    /\ exec = "launch"
    /\ launchCtx = "live"
    /\ exec' = "launched"
    /\ launcher' = "running"
    /\ watch' = "armed"
    /\ pump' = [s \in Streams |-> IF s \in Allocated THEN "opening" ELSE "idle"]
    /\ UNCHANGED <<req, heldVars, ctxVars, dismissal, printed, popup, payload, met,
                   unread, cut, perr, waitVars>>

\* Mutant of UndoLast: ranging over the rollback list forwards.
UndoFirst ==
    /\ rollback # <<>>
    /\ rollback' = Tail(rollback)
    /\ LET first == Head(rollback) IN
        /\ mux' = IF first = "restore" THEN "restored" ELSE mux
        /\ workspace' = IF first = "releaseWorkspace" THEN "removed" ELSE workspace
        /\ launchCtx' = IF first = "cancelLaunch" THEN "canceled" ELSE launchCtx

\* One func of "range slices.Backward(rollback)".
UndoLast ==
    /\ rollback # <<>>
    /\ rollback' = SubSeq(rollback, 1, Len(rollback) - 1)
    /\ LET last == rollback[Len(rollback)] IN
        /\ mux' = IF last = "restore" THEN "restored" ELSE mux
        /\ workspace' = IF last = "releaseWorkspace" THEN "removed" ELSE workspace
        /\ launchCtx' = IF last = "cancelLaunch" THEN "canceled" ELSE launchCtx

UndoExec ==
    /\ exec = "undoing"
    /\ UndoLast
    /\ UNCHANGED <<req, exec, canceled, dismissVars, popupVars, relayVars, waitVars>>

ExecFails ==
    /\ exec = "undoing"
    /\ rollback = <<>>
    /\ exec' = "failed"
    /\ UNCHANGED <<req, heldVars, ctxVars, dismissVars, popupVars, relayVars, waitVars>>

------------------------------------------------------------------------------
(* Cancellation and the dismissal it starts.                               *)

\* The caller's Ctrl-C.  The context's own error is set first; its children
\* learn of it one after the other, in no fixed order.
Cancel ==
    /\ ~canceled
    /\ canceled' = TRUE
    /\ UNCHANGED <<req, exec, heldVars, launchCtx, dismissVars, popupVars, relayVars, waitVars>>

CancelReachesLaunch ==
    /\ canceled
    /\ launchCtx = "live"
    /\ launchCtx' = "canceled"
    /\ UNCHANGED <<req, exec, heldVars, canceled, dismissVars, popupVars, relayVars, waitVars>>

\* sync.OnceFunc: only the first caller runs the dismissal.
StartDismissal == dismissal' = IF dismissal = "none" THEN "running" ELSE dismissal

WatchFires ==
    /\ canceled
    /\ watch = "armed"
    /\ watch' = "fired"
    /\ StartDismissal
    /\ UNCHANGED <<req, exec, heldVars, ctxVars, popupVars, relayVars, waitVars>>

Exited == {"ok", "failed"}    \* a launcher that is gone

\* A payload that is gone, and one that is but for a process it left behind, which
\* still holds the writing end of some of its FIFOs.
Over == {"left", "exited"}

\* The popup going away takes the payload along, and the FIFO ends it holds; but
\* one that got past its redirections may have started what outlives it.
PopupGoes ==
    /\ popup' = "gone"
    /\ payload' \in IF payload = "started" /\ Outputs # {} /\ Allocated \subseteq met
                    THEN Over ELSE {"exited"}

\* handle.Dismiss closing the popup.  A popup is addressed by its client at any
\* time; a pane by the id its launcher printed, so that launcher has to have
\* exited first.
DismissCloses ==
    /\ dismissal = "running"
    /\ popup = "up"
    /\ req.mechanism = "pane" => launcher \in Exited /\ printed
    /\ dismissal' = "closed"
    /\ PopupGoes
    /\ UNCHANGED <<req, exec, heldVars, ctxVars, watch, launcher, printed, met, relayVars,
                   waitVars>>

\* handle.Dismiss finding nothing to close, failing, or running out of its
\* popupDismissTimeout: logged, and the launch ends all the same.
DismissFails ==
    /\ dismissal = "running"
    /\ dismissal' = "failed"
    /\ UNCHANGED <<req, exec, heldVars, ctxVars, watch, popupVars, relayVars, waitVars>>

------------------------------------------------------------------------------
(* The launcher process, the popup and the payload.                        *)

PopupShows ==
    /\ launcher = "running"
    /\ popup = "none"
    /\ popup' = "up"
    /\ UNCHANGED <<req, exec, heldVars, ctxVars, dismissVars, launcher, printed, payload, met,
                   relayVars, waitVars>>

\* The launcher exiting as its mechanism has it: display-popup with its popup,
\* carrying the payload's exit status; new-pane and zellij run once the pane
\* has been created.
LauncherExits ==
    /\ launcher = "running"
    /\ \/ /\ req.mechanism = "popup"
          /\ popup = "gone"
          /\ launcher' \in Exited
          /\ UNCHANGED printed
       \/ /\ req.mechanism = "pane"
          /\ popup # "none"
          /\ launcher' = "ok"
          /\ printed' = TRUE
    /\ UNCHANGED <<req, exec, heldVars, ctxVars, dismissVars, popup, payload, met, relayVars,
                   waitVars>>

\* "no server running" and friends: the popup never appears.
LauncherFails ==
    /\ launcher = "running"
    /\ popup = "none"
    /\ launcher' = "failed"
    /\ UNCHANGED <<req, exec, heldVars, ctxVars, dismissVars, printed, popup, payload, met,
                   relayVars, waitVars>>

\* cmd.Cancel's interrupt, and WaitDelay's kill behind it.  The popup stays up;
\* a pane's launcher may or may not have printed the id by then.
LauncherInterrupted ==
    /\ launcher = "running"
    /\ launchCtx = "canceled"
    /\ launcher' = "failed"
    /\ printed' \in IF req.mechanism = "pane" /\ popup # "none" THEN BOOLEAN ELSE {FALSE}
    /\ UNCHANGED <<req, exec, heldVars, ctxVars, dismissVars, popup, payload, met, relayVars,
                   waitVars>>

PayloadStarts ==
    /\ popup = "up"
    /\ payload = "none"
    /\ payload' = "started"
    /\ UNCHANGED <<req, exec, heldVars, ctxVars, dismissVars, launcher, printed, popup, met,
                   relayVars, waitVars>>

\* The shell's redirection s opening its FIFO for writing: it blocks until
\* somebody holds, or is opening, the reading end.  wake opens it too.
PayloadOpens(s) ==
    /\ payload = "started"
    /\ s \in Outputs \ met
    /\ Earlier(s) \cap Allocated \subseteq met
    /\ pump[s] \in {"opening", "waking"}
    /\ met' = met \cup {s}
    /\ UNCHANGED <<req, exec, heldVars, ctxVars, dismissVars, launcher, printed, popup, payload,
                   relayVars, waitVars>>

\* Past its redirections the payload runs, for as long as it likes.  A redirection
\* whose FIFO has gone with the workspace fails, and the shell ends without it.
PayloadExits ==
    /\ payload = "started"
    /\ Allocated \subseteq met \/ workspace = "removed"
    /\ PopupGoes
    /\ UNCHANGED <<req, exec, heldVars, ctxVars, dismissVars, launcher, printed, met, relayVars,
                   waitVars>>

\* The payload, or what it left behind, writing to a stream: what a relay that has
\* given up will never read included.
PayloadWrites(s) ==
    /\ s \in met \ unread
    /\ payload = "left" \/ (payload = "started" /\ Allocated \subseteq met)
    /\ pump[s] # "done"
    /\ unread' = unread \cup {s}
    /\ UNCHANGED <<req, exec, heldVars, ctxVars, dismissVars, popupVars, pump, cut, perr,
                   waitVars>>

\* The process left behind ending, or closing what it held.
LeftoverEnds ==
    /\ payload = "left"
    /\ payload' = "exited"
    /\ UNCHANGED <<req, exec, heldVars, ctxVars, dismissVars, launcher, printed, popup, met,
                   relayVars, waitVars>>

\* The user closing the popup, whatever the payload is doing.
UserCloses ==
    /\ popup = "up"
    /\ PopupGoes
    /\ UNCHANGED <<req, exec, heldVars, ctxVars, dismissVars, launcher, printed, met, relayVars,
                   waitVars>>

------------------------------------------------------------------------------
(* The relays: pumpOut over fifo.OpenReader, pumpIn over fifo.OpenWriter.  *)
(* Relays touch nothing but their own FIFO and their own entries.          *)

relayUnchanged == <<req, exec, heldVars, ctxVars, dismissVars, launcher, printed, popup,
                    payload, waitVars>>

\* The relay returns e: its FIFO and its endpoint are closed, its AfterFunc stopped.
RelayReturns(s, e) ==
    /\ pump' = [pump EXCEPT ![s] = "done"]
    /\ perr' = [perr EXCEPT ![s] = e]
    /\ unread' = unread \ {s}
    /\ cut' = cut \ {s}

\* The blocked open returns: the payload has opened its end.
ReaderOpens(s) ==
    /\ s \in Outs
    /\ pump[s] = "opening"
    /\ s \in met
    /\ pump' = [pump EXCEPT ![s] = "relaying"]
    /\ UNCHANGED <<relayUnchanged, unread, cut, perr, met>>

\* OpenReader's select taking startupTimeout or ctx.Done, also when the open
\* has just succeeded; the open is then woken and its file closed.
ReaderAborts(s) ==
    /\ s \in Outs
    /\ pump[s] = "opening"
    /\ \/ perr' = [perr EXCEPT ![s] = "late"]
       \/ launchCtx = "canceled" /\ perr' = [perr EXCEPT ![s] = "canceled"]
    /\ pump' = [pump EXCEPT ![s] = "waking"]
    /\ UNCHANGED <<relayUnchanged, unread, cut, met>>

ReaderWakes(s) ==
    /\ pump[s] = "waking"
    /\ RelayReturns(s, perr[s])
    /\ UNCHANGED <<relayUnchanged, met>>

\* io.Copy: a read that finds something, and goes on to write it.
ReaderReads(s) ==
    /\ pump[s] = "relaying"
    /\ s \in unread \ cut
    /\ pump' = [pump EXCEPT ![s] = "writing"]
    /\ unread' = unread \ {s}
    /\ UNCHANGED <<relayUnchanged, cut, perr, met>>

\* The write returns once somebody has taken it: whoever drains the endpoint, or
\* the reader of a pipe that is still open.
ReaderWrites(s) ==
    /\ pump[s] = "writing"
    /\ s \in Piped => s \notin cut
    /\ pump' = [pump EXCEPT ![s] = "relaying"]
    /\ UNCHANGED <<relayUnchanged, unread, cut, perr, met>>

\* io.Copy reaches the end of what was written: nobody holds a writing end any more.
\* A process left behind holds some of them, not necessarily this one.
ReaderEnds(s) ==
    /\ pump[s] = "relaying"
    /\ s \notin unread \cup cut
    /\ payload \in Over
    /\ RelayReturns(s, "nil")
    /\ UNCHANGED <<relayUnchanged, met>>

\* Mutant of CutRelay: canceling closes the pipes but sets no read deadline.
CutPipeOnly(s) ==
    /\ s \in Piped
    /\ pump[s] \in {"relaying", "writing"}
    /\ launchCtx = "canceled"
    /\ s \notin cut
    /\ cut' = cut \cup {s}
    /\ UNCHANGED <<relayUnchanged, unread, pump, perr, met>>

\* The AfterFunc, in a goroutine of its own: it sets the FIFO's read deadline, and
\* closes the pipe with the cause.  The endpoint of the caller it leaves alone.
CutRelay(s) ==
    /\ pump[s] \in {"relaying", "writing"}
    /\ launchCtx = "canceled"
    /\ s \notin cut
    /\ cut' = cut \cup {s}
    /\ UNCHANGED <<relayUnchanged, unread, pump, perr, met>>

\* The deadline ends the read, or the next one; the closed pipe ends a write to it.
\* A write to an endpoint goes on for as long as nobody drains that.
ReaderInterrupted(s) ==
    /\ s \in cut
    /\ pump[s] \in IF s \in Piped THEN {"relaying", "writing"} ELSE {"relaying"}
    /\ RelayReturns(s, "canceled")
    /\ UNCHANGED <<relayUnchanged, met>>

\* The open, a read, a write or the endpoint's close failing; the cause of a canceled
\* context stands for an error of the copy.
ReaderBreaks(s) ==
    /\ pump[s] \in {"opening", "relaying", "writing"}
    /\ \E e \in {"canceled", "broken"} :
        /\ e = "canceled" => launchCtx = "canceled" /\ pump[s] # "opening"
        /\ RelayReturns(s, e)
    /\ UNCHANGED <<relayUnchanged, met>>

\* The non-blocking open of OpenWriter finds the payload in its own open of
\* stdin, the first of its redirections, and releases it.
WriterOpens ==
    /\ pump["stdin"] = "opening"
    /\ workspace = "open"
    /\ payload = "started"
    /\ pump' = [pump EXCEPT !["stdin"] = "relaying"]
    /\ met' = met \cup {"stdin"}
    /\ UNCHANGED <<relayUnchanged, unread, cut, perr>>

\* The deadline, ctx.Done, or the FIFO being gone with its workspace.
WriterGivesUp ==
    /\ pump["stdin"] = "opening"
    /\ \E e \in {"late", "canceled", "broken"} :
        /\ e = "canceled" => launchCtx = "canceled"
        /\ e = "broken" => workspace # "open"
        /\ RelayReturns("stdin", e)
    /\ UNCHANGED <<relayUnchanged, met>>

\* The source ending, or a write past the popup's death: up to the caller.
WriterEnds ==
    /\ pump["stdin"] = "relaying"
    /\ \E e \in {"nil", "canceled", "broken"} : RelayReturns("stdin", e)
    /\ UNCHANGED <<relayUnchanged, met>>

------------------------------------------------------------------------------
(* PopupCommand.Wait and WaitStreams, and the release both end in.         *)

waitUnchanged == <<req, exec, canceled, popupVars, relayVars>>

\* WaitStreams without an endpoint has nothing to decide by, and is Wait.
StreamsDecide == req.by = "WaitStreams" /\ Endpoints # {}

BeginWait ==
    /\ exec = "launched"
    /\ wait = "idle"
    /\ wait' = IF req.by = "release" THEN "stop"
               ELSE IF StreamsDecide THEN "endpoints" ELSE "launcher"
    /\ UNCHANGED <<waitUnchanged, heldVars, launchCtx, dismissVars, lerr, serr, stopped, verdict>>

JoinLauncher ==
    /\ wait = "launcher"
    /\ launcher \in Exited
    /\ lerr' = IF launcher = "ok" THEN "nil" ELSE "launcher"
    /\ wait' = IF StreamsDecide THEN "stop" ELSE "endpoints"
    /\ UNCHANGED <<waitUnchanged, heldVars, launchCtx, dismissVars, serr, stopped, verdict>>

\* Mutant of JoinEndpoints: the group is left at its first stream.
JoinAnyEndpoint ==
    /\ wait = "endpoints"
    /\ Endpoints = {} \/ \E s \in Endpoints : pump[s] = "done"
    /\ serr' = IF \A s \in Endpoints : perr[s] \in {"nil", "none"} THEN "nil" ELSE "stream"
    /\ wait' = IF StreamsDecide THEN "launcher" ELSE "stop"
    /\ UNCHANGED <<waitUnchanged, heldVars, launchCtx, dismissVars, lerr, stopped, verdict>>

\* Mutant of JoinEndpoints: the input relay is joined as well.
JoinEndpointsAndInput ==
    /\ wait = "endpoints"
    /\ \A s \in Endpoints \cup (Allocated \cap {"stdin"}) : pump[s] = "done"
    /\ serr' = IF \A s \in Endpoints : perr[s] = "nil" THEN "nil" ELSE "stream"
    /\ wait' = IF StreamsDecide THEN "launcher" ELSE "stop"
    /\ UNCHANGED <<waitUnchanged, heldVars, launchCtx, dismissVars, lerr, stopped, verdict>>

JoinEndpoints ==
    /\ wait = "endpoints"
    /\ \A s \in Endpoints : pump[s] = "done"
    /\ serr' = IF \A s \in Endpoints : perr[s] = "nil" THEN "nil" ELSE "stream"
    /\ wait' = IF StreamsDecide THEN "launcher" ELSE "stop"
    /\ UNCHANGED <<waitUnchanged, heldVars, launchCtx, dismissVars, lerr, stopped, verdict>>

\* Mutant of StopDismiss: the watch is asked but left registered.
StopDismissNot ==
    /\ wait = "stop"
    /\ stopped' = (watch = "armed")
    /\ wait' = "check"
    /\ UNCHANGED <<waitUnchanged, heldVars, launchCtx, dismissVars, lerr, serr, verdict>>

StopDismiss ==
    /\ wait = "stop"
    /\ stopped' = (watch = "armed")
    /\ watch' = IF watch = "armed" THEN "stopped" ELSE watch
    /\ wait' = "check"
    /\ UNCHANGED <<waitUnchanged, heldVars, launchCtx, dismissal, lerr, serr, verdict>>

\* Mutant of CheckCanceled: without "|| ctx.Err() != nil".
CheckStoppedOnly ==
    /\ wait = "check"
    /\ IF ~stopped
       THEN wait' = "dismiss" /\ StartDismissal
       ELSE wait' = "cancel" /\ UNCHANGED dismissal
    /\ UNCHANGED <<waitUnchanged, heldVars, launchCtx, watch, lerr, serr, stopped, verdict>>

\* if !stopDismiss() || ctx.Err() != nil { dismiss() }
CheckCanceled ==
    /\ wait = "check"
    /\ IF ~stopped \/ canceled
       THEN wait' = "dismiss" /\ StartDismissal
       ELSE wait' = "cancel" /\ UNCHANGED dismissal
    /\ UNCHANGED <<waitUnchanged, heldVars, launchCtx, watch, lerr, serr, stopped, verdict>>

\* Mutant of JoinDismissal: a flag instead of a OnceFunc, which does not wait.
JoinDismissalAtOnce ==
    /\ wait = "dismiss"
    /\ wait' = "cancel"
    /\ UNCHANGED <<waitUnchanged, heldVars, launchCtx, dismissVars, lerr, serr, stopped, verdict>>

\* A OnceFunc returns to its second caller when the first one's run is over.
JoinDismissal ==
    /\ wait = "dismiss"
    /\ dismissal \in {"closed", "failed"}
    /\ wait' = "cancel"
    /\ UNCHANGED <<waitUnchanged, heldVars, launchCtx, dismissVars, lerr, serr, stopped, verdict>>

CancelLaunch ==
    /\ wait = "cancel"
    /\ launchCtx' = "canceled"
    /\ wait' = "pipes"
    /\ UNCHANGED <<waitUnchanged, heldVars, dismissVars, lerr, serr, stopped, verdict>>

\* Mutant of JoinPipes: the piped relays are not waited on.
JoinNoPipes ==
    /\ wait = "pipes"
    /\ wait' = "undo"
    /\ UNCHANGED <<waitUnchanged, heldVars, launchCtx, dismissVars, lerr, serr, stopped, verdict>>

JoinPipes ==
    /\ wait = "pipes"
    /\ \A s \in Piped : pump[s] = "done"
    /\ wait' = "undo"
    /\ UNCHANGED <<waitUnchanged, heldVars, launchCtx, dismissVars, lerr, serr, stopped, verdict>>

UndoLaunch ==
    /\ wait = "undo"
    /\ UndoLast
    /\ UNCHANGED <<waitUnchanged, dismissVars, waitVars>>

\* Mutant of WaitVerdict: the launcher alone decides.
LauncherVerdict == lerr

\* Mutant of WaitVerdict: one relay's own error for the group's.
RelayVerdict ==
    IF lerr # "nil" \/ Endpoints = {} THEN lerr ELSE perr[CHOOSE s \in Endpoints : TRUE]

WaitVerdict ==
    IF StreamsDecide /\ serr = "nil" THEN "nil"
    ELSE IF lerr # "nil" THEN lerr ELSE serr

WaitReturns ==
    /\ wait = "undo"
    /\ rollback = <<>>
    /\ wait' = "returned"
    /\ verdict' = WaitVerdict
    /\ UNCHANGED <<waitUnchanged, heldVars, launchCtx, dismissVars, lerr, serr, stopped>>

------------------------------------------------------------------------------
ExecStep ==
    \/ RefuseRequest \/ Prepare \/ OpenWorkspace \/ MakeFifos
    \/ MakeLaunchContext \/ LaunchFails \/ LaunchSucceeds
    \/ UndoExec \/ ExecFails

DismissStep == DismissCloses \/ DismissFails

LauncherStep == LauncherExits \/ LauncherInterrupted

ReaderStep(s) ==
    \/ ReaderOpens(s) \/ ReaderAborts(s) \/ ReaderWakes(s)
    \/ ReaderReads(s) \/ ReaderInterrupted(s)

\* An output relay, and what the payload does to its FIFO.
StreamStep(s) ==
    \/ PayloadOpens(s) \/ PayloadWrites(s)
    \/ ReaderStep(s) \/ CutRelay(s)
    \/ ReaderWrites(s) \/ ReaderEnds(s) \/ ReaderBreaks(s)

WriterStep == WriterOpens \/ WriterGivesUp

WaitStep ==
    \/ JoinLauncher \/ JoinEndpoints
    \/ StopDismiss \/ CheckCanceled \/ JoinDismissal
    \/ CancelLaunch \/ JoinPipes \/ UndoLaunch \/ WaitReturns

Next ==
    \/ ExecStep
    \/ Cancel \/ CancelReachesLaunch
    \/ WatchFires \/ DismissStep
    \/ PopupShows \/ LauncherStep \/ LauncherFails
    \/ PayloadStarts \/ PayloadExits \/ LeftoverEnds \/ UserCloses
    \/ \E s \in Outs : StreamStep(s)
    \/ WriterStep \/ WriterEnds
    \/ BeginWait \/ WaitStep

Spec == Init /\ [][Next]_vars

\* What the Go scheduler, the timers and the operating system owe: every
\* goroutine that can move does, a started launcher shows its popup or exits, an
\* interrupted one exits (WaitDelay kills it), a shell runs its redirections, a FIFO
\* nobody holds for writing any more has an end.
\* Nothing is owed by the user (Cancel, UserCloses), by the payload once it runs or
\* what it leaves behind (PayloadWrites, PayloadExits, LeftoverEnds), by whoever
\* drains an endpoint or a pipe (ReaderWrites), by the caller (BeginWait, the source
\* of stdin), nor is any failure.
Fairness ==
    /\ WF_vars(ExecStep)
    /\ WF_vars(CancelReachesLaunch)
    /\ WF_vars(WatchFires)
    /\ WF_vars(DismissStep)
    /\ WF_vars(PopupShows)
    /\ WF_vars(LauncherStep)
    /\ WF_vars(PayloadStarts)
    /\ \A s \in Outs :
        /\ WF_vars(PayloadOpens(s))
        /\ WF_vars(ReaderStep(s))
        /\ WF_vars(CutRelay(s))
        /\ WF_vars(payload = "exited" /\ ReaderEnds(s))
    /\ WF_vars(WriterStep)
    /\ WF_vars(WaitStep)

FairSpec == Spec /\ Fairness

------------------------------------------------------------------------------
(* Properties.                                                             *)

\* Every variable has its type.
TypeOK ==
    /\ req \in LaunchRequest
    /\ exec \in {"start", "workspace", "fifos", "context", "launch", "launched",
                 "undoing", "failed"}
    /\ rollback \in Seq(Undos)
    /\ mux \in {"plain", "adjusted", "restored"}
    /\ workspace \in {"none", "open", "removed"}
    /\ canceled \in BOOLEAN
    /\ launchCtx \in {"none", "live", "canceled"}
    /\ watch \in {"none", "armed", "fired", "stopped"}
    /\ dismissal \in {"none", "running", "closed", "failed"}
    /\ launcher \in {"none", "running"} \cup Exited
    /\ printed \in BOOLEAN
    /\ popup \in {"none", "up", "gone"}
    /\ payload \in {"none", "started"} \cup Over
    /\ met \in SUBSET Streams
    /\ unread \in SUBSET Outs
    /\ pump \in [Streams -> {"idle", "opening", "waking", "relaying", "writing", "done"}]
    /\ cut \in SUBSET Outs
    /\ perr \in [Streams -> {"none", "nil", "late", "canceled", "broken"}]
    /\ wait \in {"idle", "launcher", "endpoints", "stop", "check", "dismiss", "cancel",
                 "pipes", "undo", "returned"}
    /\ lerr \in {"none", "nil", "launcher"}
    /\ serr \in {"none", "nil", "stream"}
    /\ stopped \in BOOLEAN
    /\ verdict \in {"none", "nil", "launcher", "stream"}

\* The FIFOs outlive the relays: an output relay that has not ended always finds
\* its FIFO, so that the open OpenReader abandons can always be woken.
FifoOutlivesRelay ==
    \A s \in Outs : pump[s] \notin {"idle", "done"} => workspace = "open"

\* Multiplexer state comes back last: while the workspace stands or the launch's
\* context is live, what Prepare adjusted stays adjusted.
RestoredLast ==
    mux = "restored" => workspace # "open" /\ launchCtx # "live"

\* An Exec that returned an error, and a Wait that returned at all, hold nothing:
\* the rollback ran in full, whichever step ended the launch and whoever
\* canceled meanwhile.
NothingKept ==
    exec = "failed" \/ wait = "returned" =>
        mux # "adjusted" /\ workspace # "open" /\ launchCtx # "live"

\* An endpoint is closed by the launch if and only if the launch adopted it: a
\* failed Exec leaves every relay unborn, a returned Wait every output closed.
EndpointsAccountedFor ==
    /\ exec = "failed" => \A s \in Streams : pump[s] = "idle"
    /\ wait = "returned" => \A s \in Outputs : pump[s] = "done"

\* Once the launch is given back no dismissal is under way and none can start:
\* "popup -C" names a client, so a late one would close somebody else's popup.
NoDismissalAfterRelease ==
    wait \in {"pipes", "undo", "returned"} => watch # "armed" /\ dismissal # "running"

\* A cancellation the watch noticed is a dismissal finished before the launch
\* goes on being released, whoever of the watch and the release ran it.
NoticedCancelDismisses ==
    wait \in {"cancel", "pipes", "undo", "returned"} /\ watch = "fired" =>
        dismissal \in {"closed", "failed"}

\* No clean verdict for a payload that never ran: nil from a wait over endpoints
\* means the payload opened every one of them and is gone, what it left behind aside.
CleanVerdictMeansPayloadRan ==
    verdict = "nil" => Endpoints = {} \/ (payload \in Over /\ Endpoints \subseteq met)

\* What the caller owes: whoever drains an endpoint takes, in the end, what a relay
\* is writing to it.  Nothing in the launch interrupts that write.
EndpointsDrained == \A s \in Outs : []<>~(s \in Endpoints /\ pump[s] = "writing")

\* A canceled launch is always ended: cancellation reaches the launcher, the popup
\* and every relay, and Wait returns, whatever the payload and what it left behind
\* are doing - but not while a relay's write to an undrained endpoint lasts.
CanceledWaitReturns ==
    EndpointsDrained => ((canceled /\ wait # "idle") ~> (wait = "returned"))

\* A launch whose popup is gone is ended, cancellation or not, and whoever sits on
\* the payload's stdin or leaves a piped stream unread, once nothing the payload
\* left behind holds its outputs and the endpoints are drained.
WaitReturnsAfterPopup ==
    EndpointsDrained /\ []<>(payload # "left") =>
        ((popup = "gone" /\ wait # "idle") ~> (wait = "returned"))

\* A launch canceled before its release starts gets its popup dismissed.
CanceledLaunchDismissed ==
    (canceled /\ watch = "armed") ~> (dismissal \in {"closed", "failed"})

\* README, "Only the popup's startup is on a clock - 30 s for it to get as far as
\* running the command and opening its end of each stream": once a relay has given
\* up on a payload that never opened its end, and so never runs, the wait ends.
StartupOnAClock ==
    (/\ wait # "idle"
     /\ \E s \in Endpoints : pump[s] = "done" /\ perr[s] = "late" /\ s \notin met)
        ~> (wait = "returned")

------------------------------------------------------------------------------
(* The launch keeps the promise of LaunchLease.                            *)

leasePhase ==
    CASE exec = "undoing" -> "undoing"
      [] exec = "failed" -> "refused"
      [] exec = "launched" /\ wait = "undo" -> "ending"
      [] exec = "launched" /\ wait = "returned" -> "ended"
      [] exec = "launched" /\ wait \notin {"undo", "returned"} -> "running"
      [] OTHER -> "taking"

\* The streams whose endpoint the launch has adopted and not closed.
openStreams == {s \in Outs : pump[s] \notin {"idle", "done"}}

Lease == INSTANCE LaunchLease WITH
    Outputs <- Outs,
    Things  <- Undos,
    phase   <- leasePhase,
    held    <- rollback,
    adopted <- openStreams

\* Exec and Wait take, run and give back as LaunchLease says they do.
KeepsLease == Lease!LeaseSpec

------------------------------------------------------------------------------
(* And that of LaunchRun, which the exchanges built on it rely on. *)

runDismissal == IF dismissal \in {"closed", "failed"} THEN "over" ELSE dismissal
runRelease   == IF wait \in {"pipes", "undo"} THEN "begun"
                ELSE IF wait = "returned" THEN "done" ELSE "no"

Run == INSTANCE LaunchRun WITH
    Outputs   <- Outs,
    asked     <- canceled,
    ctx       <- launchCtx,
    dismissal <- runDismissal,
    open      <- openStreams,
    release   <- runRelease

\* The launch is dismissed only when canceled, once and before its release, which waits
\* for that dismissal and for every stream: what JsonIpc, ZellijRun and
\* PinentryExchange take a launch to do.
KeepsRun == Run!RunSpec
==============================================================================
