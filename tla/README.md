# Verification of run-in-tmux-popup

`run-in-popup` opens a popup of tmux or zellij, runs a payload in it and relays
streams between that payload and the process that asked for it: an ordinary
command (`exec`), a JSON exchange, or a terminal for `pinentry` to draw on.
What is hard in it is not any one function. It is four or five parties that
share a few named pipes: the caller, the relays, the launcher process of the
multiplexer, the shell inside the popup, the user who may close it at any time,
and a cancellation that reaches each of them at a moment of its own.

This directory holds TLA+ modules translated from the Go source, the TLC
configurations that check them on small instances, and proofs, checked by the
TLA+ proof system, of every safety property and of every refinement for every
instance. Paths below are relative to `src/`, and to `src/runinpopup/` where they
name a single file.

    tlc -config PopupLaunch_safety.cfg MCPopupLaunch.tla
    tlc -config JsonIpc_exchange.cfg JsonIpc.tla
    tlapm PopupLaunchProofs.tla

## The system

| component | state it keeps | operations | talks to |
|---|---|---|---|
| popup launch (`launch.go`) | the rollback list, the launch's context, the `AfterFunc` watch, two groups of relays | `Exec`, `Wait`, `WaitStreams`, `release`, `pump` | backend, FIFOs, caller |
| fifo (`internal/fifo`) | a blocked open and its goroutine | `Mkfifo`, `OpenReader`, `OpenWriter` | the payload's shell |
| tmux, zellij clients (`internal/tmux`, `internal/zellij`) | the launcher process, what it printed, the once-only close | start, `Wait`, `Dismiss`, queries | multiplexer |
| zoom workaround (`backend/tmux_floating_pane.go`) | the pane that was zoomed | `Prepare`, restore | tmux window |
| pinentry exchange (`pinentry.go`, `assuan.go`, `stdio.go`) | the pinentry process, the relay, the derived input | `Call`, `run` | gpg-agent, pinentry, handshake |
| tty handshake (`ttyhandshake.go`, `backend/tmux.go`, `backend/zellij.go`) | two FIFOs, the launched popup | `acquire`, `dismiss` | the popup's shell, popup launch |
| JSON IPC, output (`jsonipc.go`, `launch.go`'s `pumpOut`) | the results channel, the first outcome, the launcher watch | `Results`, `stream`, `watchLauncher`, `finish`, `Wait` | popup launch, the payload's stdout |
| JSON IPC, input (`jsonipc.go`, `launch.go`'s `pumpIn`) | `sendMu`, an `io.Pipe` | `Send` and its `AfterFunc` | the payload's stdin |
| zellij environment (`internal/zellij/run.go`, `zellij.go`) | a FIFO in the launch's directory, the delivery's goroutine | `StartRun`, `deliverEnv`, `Launcher.Wait`, `Dismiss` | the pane's shell, popup launch |
| configuration (`config.go`, `userdata.go`, `cli/`) | none | layering, detection, parsing | command line |
| geometry (`internal/geometry`, `geometry.go`) | none | `Validate`, `Sum`, `popupBottomEdge` | backends |
| run workspace (`internal/runworkspace`) | a directory and its log | `Open`, `Close` | command line |
| command line and legacy binaries (`cmd/`, `internal/legacyshim`) | the signal context, the exit code | `exec`, `pinentry`, `Shim.Run`, `main` | all of the above |
| logging, templates, versions | none of interest | - | - |

### What makes each of them correct

* **Launch.** Whatever ends it, and whoever cancels it meanwhile, everything
  taken is given back in the reverse order, after the last relay that needs it;
  an endpoint is closed exactly when the launch adopted it; a cancellation
  closes the popup once, before the launch is given back and never after; the
  verdict is clean only for a payload that ran; the wait ends with the popup and
  with the context, as far as the caller's endpoints and the payload's own children
  let it.
* **Pinentry exchange and handshake.** Pinentry draws on the popup's terminal
  and has it to itself while it runs; the verdict is the first thing that went
  wrong; `Call` ends with pinentry and with its context, leaving nothing
  running or open; the popup goes when it has been told to.
* **JSON IPC.** The first outcome stands and is the verdict; a clean one is of a
  payload that has exited and whose every value was handed over; a launcher that
  failed, or a cancellation, ends the exchange, also when the payload never lets go.
  Concurrent sends do not mix, and one that was cut short ends the input: nothing
  follows half a value.
* **zellij's environment.** A clean wait means that the shell got all of it; its
  FIFO outlives the delivery; neither a failed launcher nor a cancellation is held
  up by a pane that never reads. That the payload runs with all of it or not at
  all is what the code says, and not what it does: see Findings.
* **Zoom workaround.** A launch nobody else disturbs creates no pane over a zoomed
  one and gives the user's zoom back. One that is disturbed may: see Findings.
* **Configuration, geometry, workspace, command line.** The highest layer that has
  a field wins, an explicit empty value included; `--y` is the popup's top row on
  every backend; every exit has its directory settled and reports what failed.

The hazards behind these are listed, each at its line, in `PROJECT.json`.

## The modules

### LaunchLease: what a launch promises

The abstract specification of `PopupLauncher.Exec` towards what it takes: the
launch takes things one after the other, then either refuses and gives all of
them back, or adopts its streams and runs, closes each stream once, and only
with no stream left open gives back what it took, newest first. It knows nothing
of relays, popups, contexts or waits.

### LaunchRun: what the exchanges rely on

The abstract specification of a `PopupCommand` towards whoever runs it, in six
variables: the caller's context, the launch's, the launcher process, the dismissal,
the output streams still relayed, and the release. Only a canceled launch is
dismissed, once, never after its release began; a release waits for a dismissal
under way, and ends with no stream open.

This is how the modules compose. JsonIpc, ZellijRun and PinentryExchange each need
a launch below them and carry it in a handful of steps, and PopupLaunch has it in
full. All four refine LaunchRun (`KeepsRun`), so that what the three
show is shown of the interface `launch.go` keeps, and a shortcut one of them took
with the launch would be a step LaunchRun does not have. ZellijRun and
PinentryExchange relay no output, and refine it with `Outputs` empty; JsonIpc leaves
the dismissal itself out, as one more way for its payload to end.

### ValueInput and ValueOutput: what a JSON exchange promises its callers

ValueInput is `Send` as its callers and the payload have it, in five variables: values
are taken one at a time, reach the payload's stdin one at a time, and a call answers nil
just when its value was taken. A half value may be followed by the end of the input
and by nothing else. It knows no mutex, no pipe, no parts and no relay; JsonSend
has those and implements it (`KeepsInput`).

ValueOutput is `Results` and `Wait`: values as far as they got, a closed channel, one
outcome settled once by whoever comes first and never without its grounds (`Grounds`
says of each outcome what has to be so), and a verdict that is the outcome, after the
launch was given back. JsonIpc implements it (`KeepsOutput`). Both let a
value be lost between the two ends where the code does: a value may be taken and not
delivered, or written and not taken, but then the answer or the verdict shows it. The
grounds of `"abandoned"` are that nothing reached the caller, and not that nothing was
written: the payload may have arrived as the relay gave up.

### PopupLaunch: one launch in full

One action per step of `launch.go`, of `internal/fifo` and of the process and
dismissal code in `internal/tmux` and `internal/zellij`.

| code | model |
|---|---|
| `Exec`, its early returns and `rollback` | `RefuseRequest`, `Prepare`, `OpenWorkspace`, `MakeFifos`, `MakeLaunchContext`, `LaunchFails`, `LaunchSucceeds`, with `exec` the position and `rollback` the list; the deferred loop is `UndoExec`, one func a step, then `ExecFails` |
| `context.WithCancel` of the caller's context | `canceled` and `launchCtx`; `CancelReachesLaunch` is the propagation, which takes a moment |
| `dismiss`, a `sync.OnceFunc`, and `context.AfterFunc` | `dismissal` and `watch`: `WatchFires`, `StartDismissal`, `DismissCloses`, `DismissFails`, `JoinDismissal` |
| `release` | `StopDismiss`, `CheckCanceled`, `JoinDismissal`, `CancelLaunch`, `JoinPipes`, `UndoLaunch`: the two halves of `!stopDismiss() \|\| ctx.Err() != nil` are two steps, as they are in the code |
| `Wait`, `WaitStreams`, and `release` alone (`jsonipc.go:188`, `:253`, `ttyhandshake.go:157`) | the launch's `by` says which; `BeginWait`, `JoinLauncher` and `JoinEndpoints` in the order each has them, `WaitReturns`, `WaitVerdict` |
| `OpenReader` | `ReaderOpens`, `ReaderAborts` (the select may take the timeout although the open succeeded), `ReaderWakes` |
| `pumpOut` | `io.Copy` alternates between `ReaderReads` and `ReaderWrites`, and `unread` holds what it has to read; `CutRelay` is its `AfterFunc` (the read deadline and, for a pipe, the close), `ReaderInterrupted` what that ends: a read, or a write to a pipe, and not a write to an endpoint; `ReaderEnds`, `ReaderBreaks` |
| `OpenWriter`, `pumpIn` | `WriterOpens`, `WriterGivesUp`, `WriterEnds` |
| the launcher process | `LauncherExits`, `LauncherFails`, `LauncherInterrupted`; a `popup` launcher stays with its popup and carries the payload's status, a `pane` launcher prints an id and exits |
| the popup, its shell, the user | `PopupShows`, `PayloadStarts`, `PayloadOpens` (the redirections of `launchCommandLine`, in their order, each blocking until somebody has the other end), `PayloadWrites`, `PayloadExits`, `UserCloses`; a popup that goes may leave a process of the payload's behind (`payload` is `"left"` until `LeftoverEnds`), which holds the writing ends it inherited |

A stream is one of three names; of what flows through it only that there is some is
kept, and argv, titles and log lines are left out. An error is reduced to which part it came from.

### PinentryExchange: the proxied pinentry

`Call` and `run` step by step, the handshake's two FIFOs, the pinentry process,
the relay of the Assuan input and the shell `echo $(tty) >> TTY && read done <
DONE`. The launch is one step each for `Exec` and `release`, since PopupLaunch
has them in full. A FIFO is modelled by the two things that matter of it: an
open blocks until the other end is opened (and is released by an open that has
come and gone), and what is in it is lost with the last process that holds it
(`CloseDone`). A removed directory fails the shell, a retained one blocks it.
An Assuan line either names a terminal or does not.

### JsonIpc: the output side of a JSON exchange

Four goroutines that meet in `finish` and in the release.

| code | model |
|---|---|
| `OpenReader` | `PayloadOpens` (`met`) and `RelayOpens` are the two sides of the rendezvous; `RelayAbandons` takes the timeout or the context, also when the open is there to be taken, `RelayWakes` wakes the open and closes its file; `RelayOpenFails` |
| the relay into the `io.Pipe`, and what ends it | `RelayEnds`, `RelayBreaks`, `CutPipe`, `RelayCut`; `pipe` is the pipe and who closed it, `relayed` what the stream has read off it |
| `stream`: decode, hand over, end | `Refill`, `Decode`, `TakeResult` (the reader of `Results`), `DecodeFails`, `ReadFails`, `ReadEnds`, `AskLauncher` (`launcherFailure`), `CloseStream`, `FinishStream`, `EndStream` |
| `watchLauncher`: the launcher's end, the grace period | `LauncherReaped`, `WatchSeesEnd`, `GraceExpires`, `FinishWatch`, `WatchReleased` |
| `finish` | `Finish`: the first outcome recorded stays |
| `release`, a `sync.OnceFunc` both sides call | `BeginRelease`, `EndRelease` |
| `Wait` | `CallWait`, `WaitEnded`, `WaitReleased`, `WaitReturns` |

The values a payload writes are counted. What it leaves behind them is nothing,
half a value or garbage, which is all the decoder tells apart. Because the payload's
open and the relay's are steps of their own, a payload may write whole values into a
FIFO whose relay has given up on it: they are lost, and the verdict is `"abandoned"`.

### JsonSend: the input side

`Send` is `CallSend`, `LockSend`, then the parts of its value through the pipe, and
`SendEnds` or `SendFails`; `AfterSend` is its `context.AfterFunc`, in a goroutine of
its own, so that one started before the deferred `stop` runs on after the call has
returned. `pumpIn` is `OpenWriter`, `OpenWriterGivesUp`, `RelayReads`, `RelayWrites`,
`RelayWriteFails` and `RelaySourceEnds`. A value is several parts because a write on
an `io.Pipe` is consumed by as many reads as the relay's buffer makes of it; a read
and the write it serves are one step against a close, which is what `io.Pipe`
promises. The launch's context and the payload are free.

### ZellijRun: a pane with an environment

`StartRun`'s steps and its failures; `deliverEnv` and `writeEnvFifo` with the open,
the deadline that is armed after it, each line, and the close; `Launcher.Wait`, which
joins launcher and delivery; `Dismiss` and `waitBounded`, which wait for the launcher
alone; and the shell, which runs the payload if `. env` succeeded. The FIFO holds
`Room` lines, so that the delivery can block half way.

### ZoomWindow: one tmux window

The window's zoom, its panes, its user, and several launches, each of which asks for
the version (`AskVersion`), queries (`QueryZoom`), toggles (`DeZoom`), creates
(`CreatePane`) and restores (`Restore`), one command a step. A command that fails may
have taken effect. `resize-pane -Z` is a toggle whichever pane it names. `disturbed`
holds the launches under whose feet somebody else toggled: a launch of the module's
own or `UserToggles`.

### Settings and CommandRun: one invocation

Settings has the pure functions: `Apply`, `DetectName`, `Constructible` (which of
`New`'s errors stop a run), `Valid`, `Sum` with the width of an `int`,
`PopupBottomEdge`, the `RowFlag` of each backend's request and, to say what that flag
means, the multiplexer's `TopEdge`. CommandRun runs them in their order: `ParseArgs`,
`LoadFile`, `LoadEnv`, `ApplyFlags`, `ResolveRuntime`, or for a deprecated binary
`ShimSettles`; then `OpenWorkspace`, `Launch`, `RunEnds`, `CloseWorkspace` and `Main`,
with `Signal` at any time. The popup's run is one step, since the modules above have
it.

### The MC modules and the configurations

`MCPopupLaunch` names the launches TLC is given: `exec`'s (both outputs as
endpoints, stdin relayed, `WaitStreams`), the JSON exchange's (a pipe, stdin,
`release`), the handshake's (an environment and no stream, `release`), one that
mixes an endpoint with a pipe (`Wait`), and one with nothing, each on both
mechanisms; `OneEndpoint` is `exec`'s with one output, for the liveness run. `MCZoomWindow` names versions of tmux around the fix, `MCCommandRun`
the values a configuration and a geometry flag may have. The other modules'
constants are numbers or model values, given in their `.cfg`.

### The proof modules

`<module>Proofs` holds the theorems about `<module>`, see below.

## What the runs check

| run | shows |
|---|---|
| `launch_safety` | the type invariant, seven safety properties and the refinements of LaunchLease and LaunchRun, over ten launches |
| `launch_liveness` | with its endpoints drained, a canceled wait returns, and so does one whose popup is gone once nothing holds its outputs; a canceled launch dismisses its popup |
| `launch_startup` | expected to fail: the startup clock does not end a wait, see Findings |
| `pinentry_call` | the terminal is pinentry's while it runs, the verdict is the first failure, nothing is left behind; the exchange ends with pinentry and with its context; a popup that waits for its dismissal gets it; LaunchRun is kept |
| `pinentry_dismissal` | expected to fail: the dismissal can be lost, see Findings |
| `json_exchange` | a clean verdict is of a whole exchange, the launch goes from under a running stream only for a failed launcher or a cancellation, and the verdict says so; a failed launcher and a cancellation end the exchange; ValueOutput and LaunchRun are kept |
| `json_send` | a value that was cut ends the input, a send that reported success was relayed, and a canceled one comes back; ValueInput is kept |
| `zellij_delivery` | the FIFO outlives its delivery, a clean wait means the whole environment; a failed launcher and a cancellation end the delivery; LaunchRun is kept |
| `zellij_environment` | expected to fail: the payload runs with part of its environment, see Findings |
| `zoom_undisturbed` | a launch left alone creates no pane over a zoomed one and gives the zoom back |
| `zoom_shared` | expected to fail: two launches undo each other's toggle, see Findings |
| `command_run` | the layers merge in their order, the top row is the one asked for, every exit is settled |

Every property of a passing run is paired, in `PROJECT.json`, with a mutated
definition (in the module, marked as a mutant) under which TLC reports it
violated: a rollback that runs forwards, a release that does not wait for its
pipes, a watch that is never stopped, an `AfterFunc` that closes the pipe and sets no read deadline, a
later outcome that replaces the first, a canceled send that merely returns, a failed
write that leaves its source open, a wait that does not join the delivery, a version
that cannot be parsed and counts as fixed, a close whose error hides the run's, and
so on.

**Bounds.** Each state space below is complete for its constants.

| run | distinct states | constants, and why they are enough |
|---|---|---|
| `launch_safety` | 930,996 | ten launches. Nothing is counted. A launch has at most three streams, which is all the code knows; the five kinds cover the ways a stream can be absent, an endpoint or a pipe, with and without stdin and an environment, and the three ways to end a launch |
| `launch_liveness` | 170,918 | three launches, to keep TLC's graph small: an endpoint beside stdin on a popup, a pipe on a pane, one that mixes the two. `launch_startup` has `exec`'s launch with both endpoints |
| `pinentry_call` | 13,806 | a directory that stays and one that goes; nothing is counted |
| `json_exchange` | 53,989 | two values (`MaxValues`): one in the pipe or the channel while another is still to come, and a tail behind them |
| `json_send` | 89,976 | three senders, values of two parts, a FIFO that holds one: a sender writes while one waits and one has been canceled, and the relay blocks in the middle of a value |
| `zellij_delivery` | 5,762 | two lines and a FIFO that holds one: the delivery can be cut before, between and after them, and can block |
| `zoom_undisturbed` | 160,028 | two launches, two panes, six versions (before, at and after 3.7c, and one that cannot be parsed), one toggle of the user (`MaxUserToggles`, the module's one bound on steps). `zoom_shared` has no toggle of the user and needs none |
| `command_run` | 111,668 | integers of four bits (`MaxInt` = 7) with values at 0, in the middle and on both sides of the limit; backends that are empty, known and unknown; both paths empty and set |

The theorems hold for every value of the constants. Deadlock is not checked,
because a launch, an exchange or an invocation that has returned, or that waits for
its user, really stops.

**Fairness.** Weak fairness, and only for what the Go scheduler, timers, the
kernel or the shell owe: a goroutine that can move does; a context's
cancellation reaches its children and their `AfterFunc`s; `popupDismissTimeout`,
the grace period, the read and write deadlines fire; a launcher that was
interrupted ends, because `WaitDelay` kills it; a shell runs its next
redirection; a FIFO nobody holds for writing has an end. In PopupLaunch a relay's
startup timeout fires too, and JsonIpc, JsonSend and ZellijRun do without that.
JsonIpc also assumes that `Results` is drained (`TakeResult`), as its comment asks of
the caller: a result nobody takes blocks the stream goroutine, and `Wait` behind it,
also when the exchange is canceled (`jsonipc.go:213`). Nothing is assumed of the user, the payload once it
runs or what it leaves behind, the caller (who may never wait), whoever drains an
endpoint, the pane of an environment, the source of stdin, the reader of a piped
stream, gpg-agent, or of pinentry ending.

Two things outside the program can hold a launch up, and the properties name them
instead of assuming them away. A relay that writes to the caller's endpoint waits for
whoever drains it, and no cancellation reaches that write: its `AfterFunc`
(`launch.go:632-637`) sets the FIFO's read deadline and closes a pipe of the launch's.
`EndpointsDrained` says that such a write ends in time, and `CanceledWaitReturns` and
`WaitReturnsAfterPopup` have it as their hypothesis. And a popup that is gone may leave
a process behind that holds an output open, so `WaitReturnsAfterPopup` is about launches
where that process ends or there is none; a canceled launch does not need that.

Multiplexer commands are assumed to end: `restore` has no timeout of its own
(`launch.go:221`), so a tmux that never answers does hold a wait, and is outside
the model. ZoomWindow and CommandRun state no fairness and no liveness.

## Findings

1. **The startup clock does not end the wait** (`launch_startup`). README
   356-358 has the popup's startup on a 30 s clock. The clock ends the relays
   only. A payload that arrives after it, or that had opened one of its FIFOs
   when it ran out, blocks in a redirection nobody will ever answer, keeps the
   popup up and tmux's launcher with it, and `WaitStreams` waits for that
   launcher without a bound. Only Ctrl-C, or closing the popup, ends it, and what can
   stand in the way of these two is what `LaunchNeverStuck` lists: an endpoint nobody
   drains and, for the popup alone, a process the payload left behind.
2. **The dismissal of the pinentry popup can be lost** (`pinentry_dismissal`).
   `dismiss` opens, writes and closes the done FIFO. If the popup's shell is
   still between its `echo` and its `read`, this process was the only holder
   and the line is gone; the shell then blocks opening a FIFO nobody will write
   to, and `release` closes popups of canceled launches only. A pinentry that
   fails to start is the short way there.
3. **A zellij payload can run with part of its environment** (`zellij_environment`).
   `run.go:164-165` has the `&&` keep the payload from running without it. But
   `. env` fails only when the file cannot be read. `writeEnvFifo` opens the FIFO,
   then arms the write deadline (`zellij.go:168`) of a context that has been
   running since before the open: a pane that opens it as the timeout runs out, or
   as the launch is canceled, is written nothing or the first lines, reads an end of
   file, and goes on to the payload. `Wait` does report the delivery's failure
   (`CleanWaitMeansWholeEnvironment` holds), after the payload has started. It takes
   that, and no more: a payload with part of its environment is one whose delivery was
   cut by a context that had ended (`PartialIsCut`), for scripts of every length.
4. **The zoom workaround does not survive company** (`zoom_shared`). Query, toggle
   and creation are commands of their own
   (`backend/tmux_floating_pane.go:113`, `:120`, `:51`), and the toggle toggles. A second
   launch in the window, or the release of an earlier one, comes between them and
   zooms the window again, and the pane is created over a zoomed one, "the one move
   that can crash the user's server" (`:88-90`), by a backend that `backend.go:150`
   calls "safe to reuse for several popups". Company is what it takes: a launch alone
   in a window whose user does not toggle never creates a pane over a zoomed one
   (`AloneNoPaneOverZoom`), and the server dies only once a launch was disturbed, on a
   version that has the crash (`ServerDiesInCompany`).

Not a disagreement with any document, but worth knowing:

* A popup that is gone can still be waited on. README 359-361 has a dismissed popup take
  the command with it, "which ends both output streams". They are redirections of the
  group the payload runs in (`launch.go:574-603`), on descriptors 4 and 5, which every
  process the command starts inherits: one that outlives the popup, a daemon or a
  `setsid` child, keeps the FIFO open and the wait going, until it ends or the user
  presses Ctrl-C. `WaitReturnsAfterPopup` is violated without its hypothesis about
  `payload # "left"`.
* A canceled `exec` whose stdout nobody drains does not return: the relay's write to it
  is interrupted by nothing (see Fairness).
* A payload that opens its stdout as the relay's startup timeout expires has its writes
  succeed and its values lost, and the error says that nothing opened the FIFO
  (`fifo.go:56-72`).
* A line gpg-agent sends after pinentry has exited well fails with a broken pipe or
  a closed file, which is not among the errors `run` filters, so the exchange
  reports a failure (`VerdictIsPinentrys` is stated with that in mind).
* A `Send` that is queued on `sendMu` does not notice its cancellation
  (`jsonipc.go:152`); `CanceledSendReturns` is about one that holds it. One that
  returned nil was taken by the relay, which may fail to pass the last part on. And
  a send that was canceled as its last part went may return nil and still end the
  input, because its `AfterFunc` had started before the `stop`.
* `internal/geometry/geometry.go:62-64` refuses a count too large for an `int`, but not
  a sum: a row and a height that each fit and together do not wrap to a negative row
  (`TopLeftCorner` names the exception).
* A de-zoom that fails after it took effect leaves the window de-zoomed: `Prepare`
  returns the error and no restore.

## What is proved

Every safety property of a passing run and every refinement, for every value of
the constants. The assumptions are the constants' types, named in the module that
declares them: `LaunchesAssumption`, `RetainsAssumption`, `ScriptAssumption`,
`ValuesAssumption` (one in JsonIpc, one in CommandRun), `SendAssumption`,
`VersionsAssumption`, `PanesAssumption`, `IntAssumption`.

| module | theorems | inductive invariant |
|---|---|---|
| PopupLaunchProofs | `TypeCorrect`, `Invariance`, `FifosOutliveRelays`, `MuxRestoredLast`, `NothingIsKept`, `EndpointsAreAccountedFor`, `NoLateDismissal`, `NoticedMeansDismissed`, `CleanVerdictRan`, `LeaseKept`, `RunKept`, `LaunchNeverStuck`, `LaunchDescends` | `IInv`, with `RanFacts` for the verdict, `RunFacts` for LaunchRun and `AliveFacts` for what a wait can wait for |
| PinentryExchangeProofs | `TypesHold`, `TerminalHeld`, `VerdictHolds`, `SettledHolds`, `RunKept`, `CallNeverStuck`, `CallDescends` | `PopupFacts`, `ProcessFacts`, `ErrFacts`, `ReturnFacts`, with `EndFacts` |
| ZellijRunProofs | `TypesHold`, `DirOutlives`, `CleanWaitIsWhole`, `PartialIsCut`, `RunKept`, `DeliveryNeverStuck`, `DeliveryDescends` | `DeliveryFacts`, `ShellFacts`, `WaitFacts`, with `CutFacts`, `RunFacts`, `WaitEndFacts` |
| JsonIpcProofs | `TypesHold`, `VerdictIsWhole`, `StreamOutlives`, `FirstWins`, `OutputKept`, `RunKept`, `ExchangeNeverStuck`, `ExchangeDescends` | `VerdictFacts`, `OutcomeFacts`, `WatchFacts`, `StreamFacts`, `PipeFacts`, `LaunchFacts`, with `GroundFacts` and `EndFacts` |
| JsonSendProofs | `TypesHold`, `CutEndsInput`, `SentAreRelayed`, `InputKept`, `SendNeverStuck`, `SendDescends` | `LockFacts`, `Frontier`, `WireFacts`, `ReadFacts`, with `InputFacts` and `PipeFacts` |
| ZoomWindowProofs | `TypesHold`, `ServerLives`, `ZoomComesBack`, `ServerDiesInCompany`, `AloneNoPaneOverZoom` | `VersionFacts`, `LaunchFacts` with `ZoomFacts`, and `CrashFacts` |
| CommandRunProofs | `HighestWins`, `CornerIsTopLeft`, `ExitSettled` | `ConfigFacts`, `PlaceFacts`, `RunFacts`, `EndFacts`, `ReportFacts` |

The type invariants of PinentryExchange, ZellijRun, JsonIpc, JsonSend and ZoomWindow are
conjuncts of these and stay with the proofs (`TypesHold`): their runs check what is not a type.

None of the properties is inductive. The arguments:

* **PopupLaunch.** That nothing is kept when `Wait` returns depends on the list
  being exactly what is owed. `IInv` says so (`Owed`: the multiplexer is adjusted,
  the workspace open, the context live just when their undo is on the list), that
  the list is in the order it was built (`Ordered`, without which undoing the last
  one says nothing about what is left), and how far Exec, the dismissal, the relays
  and the wait have got relative to each other (`ExecProgress`,
  `DismissalProgress`, `RelayProgress`, `WaitProgress`): for instance that a wait
  past `pipes` finds every output relay ended. Each conjunct is preserved by a lemma
  of its own with one case per action that can disturb it; a few lemmas about
  appending to and removing from a sequence carry the list. LaunchLease then needs
  only which phase of the lease each step starts and ends in; LaunchRun also that a
  dismissal and a release exclude each other (`DismissesOnce`) and that a relay's
  end closes one stream (`RelayClosesRunStream`).
* **PinentryExchange.** A verdict is right because each error variable is set by one
  party and read after that party ended (`ErrFacts`), and the order in which `Call`
  passes its joins says who has (`ReturnFacts`).
* **ZellijRun.** The wait's clean verdict reaches back through the delivery's (no
  error means every line was written, `DeliveryFacts`) to the shell, which cannot
  have seen an end of file before the last line (`ShellFacts`).
* **JsonIpc.** The same chain is longer: the verdict is the outcome, the outcome the
  stream's or the watch's error, the stream's clean end the pipe's, and the pipe's
  the relay's, which saw the payload exit. One group of facts stands for each link.
* **JsonSend.** The parts on the wire, the one in the relay's hand and the next one
  of the call that holds the lock form one sequence in which each part continues
  the one before it (`Frontier`); a call that gives up between two parts leaves the
  pipe closed, so nothing is ever appended behind its half.
* **ZoomWindow.** For each launch left alone, the zoom is determined by where it is
  and what it found (`ZoomFacts`); another launch's toggle puts it among the disturbed.
* **CommandRun.** `LayersMerge` (two layers applied in turn are their union, the later
  one first) and `FlagKeepsTopEdge` (a row flag of any backend, if it fits an `int`,
  gives back the row it was made from) are the two lemmas about operators; the rest
  is bookkeeping by phase.

**Refinements.** Each is proved by a lemma that takes every action of the
detailed module to the step it is of the abstract one, or to none, with the facts
that tell which. LaunchLease, ValueInput and ValueOutput are each implemented by one
module, LaunchRun by four. For ValueInput the work is in `AnswerFacts` (a call that
returned nil was taken, one that returned an error never will be, although its
`AfterFunc` may still close the pipe) and in the order of the wire (`Frontier`); for
ValueOutput in `GroundFacts`, that the stream and the watch bring the grounds of an
outcome along while they are on their way to recording it. Neither implementation is
allowed a shortcut: a step the abstract module does not have fails the run, and the
mutants of `KeepsInput` and `KeepsOutput` are such steps.

**The safety core of the liveness properties.** Liveness under weak fairness is out of
the prover's reach, but the two facts each of its arguments rests on are not:

| module | never stuck | rank | the liveness it is the core of |
|---|---|---|---|
| PopupLaunch | `LaunchNeverStuck` | `LaunchDescends` | `CanceledWaitReturns`, `WaitReturnsAfterPopup` |
| PinentryExchange | `CallNeverStuck` | `CallDescends` | `CanceledCallReturns`, `CallEndsWithPinentry` |
| ZellijRun | `DeliveryNeverStuck` | `DeliveryDescends` | `CanceledDeliveryEnds`, `FailedLauncherEndsWait` |
| JsonIpc | `ExchangeNeverStuck` | `ExchangeDescends` | `CanceledExchangeReturns`, `FailedLauncherEndsExchange` |
| JsonSend | `SendNeverStuck` | `SendDescends` | `CanceledSendReturns` |

The first says that, while the thing is pending (canceled, or its launcher failed, or
its popup or its pinentry gone, and not over yet), the guard of an action under `WF_`
holds, in every reachable state and for every value of the constants. The second, that
there is a natural number which each step under `WF_` brings down and nobody's step
raises, and that what made it pending is never taken back. So a pending wait has a
fair step to take (PopupLaunch: or is held up by a named outsider) and only so many of
them to wait for. What is left to TLC is the step from there to `~>`: that these guards are the actions' `ENABLED`, and the rules for `WF_`. A rank
is also where such an argument goes wrong in silence: the relay of pinentry's input,
for one, may read and write for ever and must not count. For a send the return itself is
the end and is not counted.

In PopupLaunch all steps bring the rank down, also those of the user and of the payload,
but for a relay's copying, which leaves it alone and has a rank of its own that only the
payload's next write raises: a payload may write, and be copied, for as long as it likes.
Its `LaunchNeverStuck` names, beside the guards, what may hold the wait up (`HeldUp`): in
`endpoints.Wait`, a relay writing to an endpoint and, unless the launch was canceled, a
relay whose FIFO a process of the payload's still holds after the popup. Everything else
that is pending has a fair step to wait for.

Model-checked only: the liveness properties themselves, and `CanceledLaunchDismissed`
and `WaitingPopupGoes` in all of their parts. The four properties of the findings are
false. Six hazards no property covers, each with its reason in
`PROJECT.json`: a dismissal that overtakes the pane's id, a restore that never ends, a
relay held up by an undrained endpoint or a process left behind, a result nobody takes, a
queued `Send`, and a sum that wraps. Two more are covered in part. The two properties of `zoom_undisturbed`
are about launches left alone; what happens in company only the run that refutes
`NoPaneOverZoom` has.

## Plan

1. What LaunchRun and LaunchLease promise, as theorems about them (a module
   can hold those of one abstract specification), for every implementation to inherit.
2. A liveness counterpart of LaunchRun (a canceled launch is released), so that the
   exchanges' liveness rests on it as their safety does on LaunchRun.
3. More lemmas about Settings' operators: the layering is associative and idempotent,
   and what `Valid` accepts fits an `int`.

## Not modelled

Rendering of command lines, help, logs and templates, JSON syntax, cobra, the version
information, and the `config` and `version` subcommands, which print and exit:
formatting or library code, without an interleaving to check. Three of the five
fields of a configuration are timeouts, which `Apply` treats as it does the two that
are modelled. The contents of streams are never looked at by the launch; JsonIpc and
JsonSend look at whole values only.
