--------------------------- MODULE PinentryExchange ---------------------------
(***************************************************************************)
(* One proxied pinentry exchange: PinentryLauncher.Call and                *)
(* pinentryExchange.run (runinpopup/pinentry.go), the two-FIFO handshake   *)
(* with the popup (runinpopup/ttyhandshake.go) and the relay of the Assuan *)
(* input (assuan.go, stdio.go).                                            *)
(*                                                                         *)
(* The popup is opened by PopupLauncher.Exec without streams and ended by  *)
(* its release; both are single steps here, PopupLaunch has them in full.  *)
(* The actors: the goroutine in Call, the relay goroutine, the pinentry    *)
(* process, the shell in the popup, the dismissal a done context starts,   *)
(* gpg-agent at the other end of stdin, and the user.                      *)
(***************************************************************************)
CONSTANT Retains   \* whether the workspace is kept: BOOLEAN for both

ASSUME RetainsAssumption == Retains \subseteq BOOLEAN

VARIABLES
    retain,     \* WorkspaceOptions.Retain, or a Dir the caller owns
    call,       \* where Call is
    ctxDone,    \* its context: canceled, or past Timeouts.Overall
    workspace,  \* the directory holding the two FIFOs
    hold,       \* the FIFOs this process holds open, read-write
    popup,      \* the popup
    payload,    \* the shell in it: echo $(tty) >> TTY && read done < DONE
    ttyData,    \* the announcement waiting in the tty FIFO
    doneData,   \* the dismissal waiting in the done FIFO
    watch,      \* the launch's dismissal on a done context
    pinentry,   \* the pinentry process
    stdin,      \* the derived end of this process's input
    relay,      \* the goroutine in rewriteAssuanTTY
    line,       \* the line it has scanned and not yet written
    rerr,       \* what it returned
    named,      \* the terminals pinentry has been told to draw on
    err,        \* what run, then Call, is going to return
    derr,       \* what dismiss is going to return
    verdict     \* what Call returned

popupVars == <<popup, payload, ttyData>>
relayVars == <<relay, line, rerr, named>>
endVars   == <<err, derr, verdict>>
vars == <<retain, call, ctxDone, workspace, hold, popupVars, doneData, watch, pinentry, stdin,
          relayVars, endVars>>

Init ==
    /\ retain \in Retains
    /\ call = "start"
    /\ ctxDone = FALSE
    /\ workspace = "none"
    /\ hold = {}
    /\ popup = "none"
    /\ payload = "none"
    /\ ttyData = "none"
    /\ doneData = FALSE
    /\ watch = "none"
    /\ pinentry = "none"
    /\ stdin = "none"
    /\ relay = "none"
    /\ line = "none"
    /\ rerr = "none"
    /\ named = {}
    /\ err = "nil"
    /\ derr = "none"
    /\ verdict = "none"

------------------------------------------------------------------------------
(* Call and acquire.  A failure before the exchange runs unwinds what has  *)
(* been deferred by then; a failure in it goes to the deferred dismissal.  *)

\* Call refusing a backend without the handshake, or the workspace.
RefuseCall ==
    /\ call = "start"
    /\ call' = "returned"
    /\ verdict' = "workspace"
    /\ ctxDone' = TRUE
    /\ UNCHANGED <<retain, workspace, hold, popupVars, doneData, watch, pinentry, stdin,
                   relayVars, err, derr>>

OpenWorkspace ==
    /\ call = "start"
    /\ call' = "input"
    /\ workspace' = "open"
    /\ UNCHANGED <<retain, ctxDone, hold, popupVars, doneData, watch, pinentry, stdin, relayVars,
                   endVars>>

NewAssuanInput ==
    /\ call = "input"
    /\ \/ call' = "acquire" /\ stdin' = "open" /\ UNCHANGED err
       \/ call' = "freeWorkspace" /\ err' = "input" /\ UNCHANGED stdin
    /\ UNCHANGED <<retain, ctxDone, workspace, hold, popupVars, doneData, watch, pinentry,
                   relayVars, derr, verdict>>

\* A FIFO that cannot be made, a handshake that cannot be built, Exec failing:
\* there is no popup, and dismiss has nothing to do.
AcquireFails ==
    /\ call = "acquire"
    /\ call' = "dismiss"
    /\ err' = "acquire"
    /\ UNCHANGED <<retain, ctxDone, workspace, hold, popupVars, doneData, watch, pinentry, stdin,
                   relayVars, derr, verdict>>

\* Both FIFOs made, and Exec returning the launched popup.
ExecPopup ==
    /\ call = "acquire"
    /\ ~ctxDone
    /\ call' = "openTTY"
    /\ popup' = "coming"
    /\ watch' = "armed"
    /\ UNCHANGED <<retain, ctxDone, workspace, hold, payload, ttyData, doneData, pinentry, stdin,
                   relayVars, endVars>>

\* Opened read-write: at once, and the payload in its own open goes on.
OpenTTY ==
    /\ call = "openTTY"
    /\ \/ /\ call' = "readTTY"
          /\ hold' = hold \cup {"tty"}
          /\ payload' = IF payload = "atTTY" THEN "announcing" ELSE payload
          /\ UNCHANGED err
       \/ /\ call' = "dismiss"
          /\ err' = "acquire"
          /\ UNCHANGED <<hold, payload>>
    /\ UNCHANGED <<retain, ctxDone, workspace, popup, ttyData, doneData, watch, pinentry, stdin,
                   relayVars, derr, verdict>>

\* acquire returning: a terminal, or the error of an announcement without one.
ReadTTY ==
    /\ call = "readTTY"
    /\ ttyData # "none"
    /\ ttyData' = "none"
    /\ hold' = hold \ {"tty"}
    /\ IF ttyData = "tty"
       THEN call' = "startPinentry" /\ UNCHANGED err
       ELSE call' = "dismiss" /\ err' = "acquire"
    /\ UNCHANGED <<retain, ctxDone, workspace, popup, payload, doneData, watch, pinentry, stdin,
                   relayVars, derr, verdict>>

\* The read deadline, the one thing that ends this wait: not even the context does.
ReadDeadline ==
    /\ call = "readTTY"
    /\ ttyData' = "none"
    /\ hold' = hold \ {"tty"}
    /\ call' = "dismiss"
    /\ err' = "acquire"
    /\ UNCHANGED <<retain, ctxDone, workspace, popup, payload, doneData, watch, pinentry, stdin,
                   relayVars, derr, verdict>>

------------------------------------------------------------------------------
(* run, once there is a terminal.                                          *)

StartPinentry ==
    /\ call = "startPinentry"
    /\ \/ /\ ~ctxDone
          /\ call' = "waitPinentry"
          /\ pinentry' = "running"
          /\ relay' = "reading"
          /\ UNCHANGED err
       \/ /\ call' = "dismiss"
          /\ err' = "start"
          /\ UNCHANGED <<pinentry, relay>>
    /\ UNCHANGED <<retain, ctxDone, workspace, hold, popupVars, doneData, watch, stdin, line,
                   rerr, named, derr, verdict>>

Exited == {"ok", "failed"}

\* Mutant of WaitPinentry: a wait that a done relay can end.
WaitPinentryOrRelay ==
    /\ call = "waitPinentry"
    /\ pinentry \in Exited \/ relay = "done"
    /\ call' = "closeEnd"
    /\ err' = IF pinentry = "failed" THEN "pinentry" ELSE "nil"
    /\ UNCHANGED <<retain, ctxDone, workspace, hold, popupVars, doneData, watch, pinentry, stdin,
                   relayVars, derr, verdict>>

\* e.pinentry.wait, which closes pinentry's input on the way out.
WaitPinentry ==
    /\ call = "waitPinentry"
    /\ pinentry \in Exited
    /\ call' = "closeEnd"
    /\ err' = IF pinentry = "failed" THEN "pinentry" ELSE "nil"
    /\ UNCHANGED <<retain, ctxDone, workspace, hold, popupVars, doneData, watch, pinentry, stdin,
                   relayVars, derr, verdict>>

\* Mutant of CloseEnd: the relay is waited for with its input left open.
CloseNoEnd ==
    /\ call = "closeEnd"
    /\ call' = "joinRelay"
    /\ UNCHANGED <<retain, ctxDone, workspace, hold, popupVars, doneData, watch, pinentry, stdin,
                   relayVars, endVars>>

\* e.input.Close: the way the exchange ends its relay.
CloseEnd ==
    /\ call = "closeEnd"
    /\ call' = "joinRelay"
    /\ stdin' = IF stdin = "open" THEN "closed" ELSE stdin
    /\ UNCHANGED <<retain, ctxDone, workspace, hold, popupVars, doneData, watch, pinentry,
                   relayVars, endVars>>

\* relayFailure and the three errors filtered after it: what is left of the
\* relay's error once the teardown's own traces are taken out.
RelayFailure(e) == IF e \in {"nil", "closed"} THEN "nil" ELSE "relay"

\* Mutant of Or: the last error instead of the first.
OrLast(first, second) == IF second # "nil" THEN second ELSE first

\* cmp.Or over errors.
Or(first, second) == IF first # "nil" THEN first ELSE second

\* Mutant of JoinRelay: the relay is left to end on its own.
JoinNoRelay ==
    /\ call = "joinRelay"
    /\ call' = "dismiss"
    /\ UNCHANGED <<retain, ctxDone, workspace, hold, popupVars, doneData, watch, pinentry, stdin,
                   relayVars, endVars>>

JoinRelay ==
    /\ call = "joinRelay"
    /\ relay = "done"
    /\ call' = "dismiss"
    /\ err' = Or(err, RelayFailure(rerr))
    /\ UNCHANGED <<retain, ctxDone, workspace, hold, popupVars, doneData, watch, pinentry, stdin,
                   relayVars, derr, verdict>>

------------------------------------------------------------------------------
(* dismiss, and Call's deferred teardown.                                  *)

\* dismiss failing: the error of the exchange itself wins.
DismissFailed ==
    /\ derr' = "failed"
    /\ err' = Or(err, "dismiss")

SkipDismiss ==
    /\ call = "dismiss"
    /\ popup = "none"
    /\ call' = "closeInput"
    /\ UNCHANGED <<retain, ctxDone, workspace, hold, popupVars, doneData, watch, pinentry, stdin,
                   relayVars, endVars>>

\* Mutant of OpenDone: only an exchange that went well dismisses its popup.
OpenDoneIfClean ==
    /\ call = "dismiss"
    /\ popup # "none"
    /\ IF err = "nil"
       THEN /\ call' = "writeDone"
            /\ hold' = hold \cup {"done"}
            /\ payload' = IF payload = "atDone" THEN "reading" ELSE payload
       ELSE call' = "release" /\ UNCHANGED <<hold, payload>>
    /\ UNCHANGED <<retain, ctxDone, workspace, popup, ttyData, doneData, watch, pinentry, stdin,
                   relayVars, endVars>>

\* Opened read-write again, which lets a payload in its own open go on.
OpenDone ==
    /\ call = "dismiss"
    /\ popup # "none"
    /\ \/ /\ call' = "writeDone"
          /\ hold' = hold \cup {"done"}
          /\ payload' = IF payload = "atDone" THEN "reading" ELSE payload
          /\ UNCHANGED <<err, derr>>
       \/ /\ call' = "release"
          /\ DismissFailed
          /\ UNCHANGED <<hold, payload>>
    /\ UNCHANGED <<retain, ctxDone, workspace, popup, ttyData, doneData, watch, pinentry, stdin,
                   relayVars, verdict>>

\* The write, or its deadline.
WriteDone ==
    /\ call = "writeDone"
    /\ call' = "closeDone"
    /\ \/ doneData' = TRUE /\ derr' = "nil" /\ UNCHANGED err
       \/ DismissFailed /\ UNCHANGED doneData
    /\ UNCHANGED <<retain, ctxDone, workspace, hold, popupVars, watch, pinentry, stdin, relayVars,
                   verdict>>

\* What is in a FIFO is gone with the last process that has it open.
CloseDone ==
    /\ call = "closeDone"
    /\ call' = "release"
    /\ hold' = hold \ {"done"}
    /\ doneData' = (doneData /\ payload = "reading")
    /\ UNCHANGED <<retain, ctxDone, workspace, popupVars, watch, pinentry, stdin, relayVars,
                   endVars>>

\* Mutant of Release: a dismissal under way is not waited for.
ReleaseAtOnce ==
    /\ call = "release"
    /\ \/ watch = "armed" /\ ~ctxDone /\ watch' = "stopped"
       \/ watch \in {"dismissing", "dismissed"} /\ UNCHANGED watch
    /\ call' = "closeInput"
    /\ UNCHANGED <<retain, ctxDone, workspace, hold, popupVars, doneData, pinentry, stdin,
                   relayVars, endVars>>

\* popup.release: the watch is stopped, or the dismissal it started waited for.
Release ==
    /\ call = "release"
    /\ \/ watch = "armed" /\ ~ctxDone /\ watch' = "stopped"
       \/ watch = "dismissed" /\ UNCHANGED watch
    /\ call' = "closeInput"
    /\ UNCHANGED <<retain, ctxDone, workspace, hold, popupVars, doneData, pinentry, stdin,
                   relayVars, endVars>>

\* input.close: a failure of stdin itself is worth reporting when nothing else is.
CloseInput ==
    /\ call = "closeInput"
    /\ call' = "freeWorkspace"
    /\ err' = Or(err, IF stdin = "failed" THEN "input" ELSE "nil")
    /\ stdin' = "closed"
    /\ UNCHANGED <<retain, ctxDone, workspace, hold, popupVars, doneData, watch, pinentry,
                   relayVars, derr, verdict>>

\* releaseWorkspace, then the deferred cancel, then Call has returned.
FreeWorkspace ==
    /\ call = "freeWorkspace"
    /\ call' = "returned"
    /\ workspace' = IF retain THEN "retained" ELSE "removed"
    /\ ctxDone' = TRUE
    /\ verdict' = err
    /\ UNCHANGED <<retain, hold, popupVars, doneData, watch, pinentry, stdin, relayVars, err,
                   derr>>

------------------------------------------------------------------------------
(* The context, and the dismissal a launch does when it is done.           *)

Expire ==
    /\ ~ctxDone
    /\ ctxDone' = TRUE
    /\ UNCHANGED <<retain, call, workspace, hold, popupVars, doneData, watch, pinentry, stdin,
                   relayVars, endVars>>

WatchFires ==
    /\ ctxDone
    /\ watch = "armed"
    /\ watch' = "dismissing"
    /\ UNCHANGED <<retain, call, ctxDone, workspace, hold, popupVars, doneData, pinentry, stdin,
                   relayVars, endVars>>

PopupGoes ==
    /\ popup' = "gone"
    /\ payload' = "exited"

\* The multiplexer closing the popup, or failing to.
MuxDismisses ==
    /\ watch = "dismissing"
    /\ watch' = "dismissed"
    /\ \/ popup = "up" /\ PopupGoes
       \/ UNCHANGED <<popup, payload>>
    /\ UNCHANGED <<retain, call, ctxDone, workspace, hold, ttyData, doneData, pinentry, stdin,
                   relayVars, endVars>>

------------------------------------------------------------------------------
(* The popup and the shell in it.                                          *)

popupUnchanged == <<retain, call, ctxDone, workspace, hold, watch, pinentry, stdin, relayVars,
                    endVars>>

\* The popup with its shell, or a launcher that failed to open one.
PopupShows ==
    /\ popup = "coming"
    /\ \/ popup' = "up" /\ payload' = "started"
       \/ PopupGoes
    /\ UNCHANGED <<popupUnchanged, ttyData, doneData>>

\* "echo $(tty) >> TTY": the open blocks without a reader, and fails when the
\* FIFO has gone with its directory; "&&" then ends the shell.
PayloadOpensTTY ==
    /\ payload = "started"
    /\ IF workspace = "removed" THEN PopupGoes
       ELSE /\ payload' = IF "tty" \in hold THEN "announcing" ELSE "atTTY"
            /\ UNCHANGED popup
    /\ UNCHANGED <<popupUnchanged, ttyData, doneData>>

\* The write, or the broken pipe of a reader that has left.
PayloadAnnounces ==
    /\ payload = "announcing"
    /\ IF "tty" \in hold
       THEN ttyData' \in {"tty", "empty"} /\ payload' = "announced" /\ UNCHANGED popup
       ELSE PopupGoes /\ UNCHANGED ttyData
    /\ UNCHANGED <<popupUnchanged, doneData>>

\* "read done < DONE": the open blocks without a writer.
PayloadOpensDone ==
    /\ payload = "announced"
    /\ IF workspace = "removed" THEN PopupGoes
       ELSE /\ payload' = IF "done" \in hold THEN "reading" ELSE "atDone"
            /\ UNCHANGED popup
    /\ UNCHANGED <<popupUnchanged, ttyData, doneData>>

\* A line, or the end of file a writer leaves behind.
PayloadReads ==
    /\ payload = "reading"
    /\ doneData \/ "done" \notin hold
    /\ PopupGoes
    /\ doneData' = FALSE
    /\ UNCHANGED <<popupUnchanged, ttyData>>

UserCloses ==
    /\ popup = "up"
    /\ PopupGoes
    /\ UNCHANGED <<popupUnchanged, ttyData, doneData>>

------------------------------------------------------------------------------
(* The pinentry process and the relay feeding it.                          *)

processUnchanged == <<retain, call, ctxDone, workspace, hold, popupVars, doneData, watch, endVars>>

\* Pinentry ends as it likes, at BYE, at its timeout, at the user's hand.
PinentryExits ==
    /\ pinentry = "running"
    /\ pinentry' \in Exited
    /\ UNCHANGED <<processUnchanged, stdin, relayVars>>

\* Mutant of PinentryInterrupted: exec.Command for exec.CommandContext.
PinentryNotInterrupted ==
    /\ FALSE
    /\ UNCHANGED vars

\* cmd.Cancel's SIGINT, and the kill WaitDelay has behind it.
PinentryInterrupted ==
    /\ pinentry = "running"
    /\ ctxDone
    /\ pinentry' = "failed"
    /\ UNCHANGED <<processUnchanged, stdin, relayVars>>

\* gpg-agent sending a line.
RelayScans ==
    /\ relay = "reading"
    /\ stdin = "open"
    /\ relay' = "writing"
    /\ line' \in {"ttyname", "other"}
    /\ UNCHANGED <<processUnchanged, pinentry, stdin, rerr, named>>

\* Mutant of Rewritten: the line forwarded as gpg-agent sent it.
RewrittenNot(l) == IF l = "ttyname" THEN {"agent's"} ELSE {}

\* The terminal a line names once it has been through rewriteAssuanTTY.
Rewritten(l) == IF l = "ttyname" THEN {"popup's"} ELSE {}

\* The line taken by pinentry's input, which may also be full for a while.
RelayWrites ==
    /\ relay = "writing"
    /\ pinentry = "running"
    /\ relay' = "reading"
    /\ line' = "none"
    /\ named' = named \cup Rewritten(line)
    /\ UNCHANGED <<processUnchanged, pinentry, stdin, rerr>>

RelayReturns(e) ==
    /\ relay' = "done"
    /\ line' = "none"
    /\ rerr' = e

\* A write to a pinentry that is gone.
RelayBreaks ==
    /\ relay = "writing"
    /\ pinentry \in Exited
    /\ RelayReturns("broken")
    /\ UNCHANGED <<processUnchanged, pinentry, stdin, named>>

\* gpg-agent ending its input.
RelayEnds ==
    /\ relay = "reading"
    /\ stdin = "open"
    /\ RelayReturns("nil")
    /\ UNCHANGED <<processUnchanged, pinentry, stdin, named>>

\* The end closed by the exchange or by its context, or failing on its own.
RelayStops ==
    /\ relay = "reading"
    /\ \/ (stdin = "closed" \/ ctxDone) /\ RelayReturns("closed")
       \/ stdin = "failed" /\ RelayReturns("input")
    /\ UNCHANGED <<processUnchanged, pinentry, stdin, named>>

StdinFails ==
    /\ stdin = "open"
    /\ stdin' = "failed"
    /\ UNCHANGED <<processUnchanged, pinentry, relayVars>>

------------------------------------------------------------------------------
CallStep ==
    \/ RefuseCall \/ OpenWorkspace \/ NewAssuanInput
    \/ AcquireFails \/ ExecPopup \/ OpenTTY \/ ReadTTY \/ ReadDeadline
    \/ StartPinentry \/ WaitPinentry \/ CloseEnd \/ JoinRelay
    \/ SkipDismiss \/ OpenDone \/ WriteDone \/ CloseDone
    \/ Release \/ CloseInput \/ FreeWorkspace

PayloadStep ==
    \/ PopupShows \/ PayloadOpensTTY \/ PayloadAnnounces \/ PayloadOpensDone \/ PayloadReads

RelayStep == RelayBreaks \/ RelayStops

Next ==
    \/ CallStep
    \/ Expire \/ WatchFires \/ MuxDismisses
    \/ PayloadStep \/ UserCloses
    \/ PinentryExits \/ PinentryInterrupted
    \/ RelayScans \/ RelayWrites \/ RelayEnds \/ RelayStep
    \/ StdinFails

Spec == Init /\ [][Next]_vars

\* What the Go scheduler, the read and write deadlines, the kernel and the shell
\* owe.  Not owed: the context ever being done, pinentry ever ending or reading
\* its input, gpg-agent sending or ending anything, the user, any failure of stdin.
Fairness ==
    /\ WF_vars(CallStep)
    /\ WF_vars(WatchFires)
    /\ WF_vars(MuxDismisses)
    /\ WF_vars(PayloadStep)
    /\ WF_vars(PinentryInterrupted)
    /\ WF_vars(RelayStep)

FairSpec == Spec /\ Fairness

------------------------------------------------------------------------------
(* Properties.                                                             *)

\* Every variable has its type.
TypeOK ==
    /\ retain \in BOOLEAN
    /\ call \in {"start", "input", "acquire", "openTTY", "readTTY", "startPinentry",
                 "waitPinentry", "closeEnd", "joinRelay", "dismiss", "writeDone", "closeDone",
                 "release", "closeInput", "freeWorkspace", "returned"}
    /\ ctxDone \in BOOLEAN
    /\ workspace \in {"none", "open", "removed", "retained"}
    /\ hold \in SUBSET {"tty", "done"}
    /\ popup \in {"none", "coming", "up", "gone"}
    /\ payload \in {"none", "started", "atTTY", "announcing", "announced", "atDone", "reading",
                    "exited"}
    /\ ttyData \in {"none", "tty", "empty"}
    /\ doneData \in BOOLEAN
    /\ watch \in {"none", "armed", "stopped", "dismissing", "dismissed"}
    /\ pinentry \in {"none", "running"} \cup Exited
    /\ stdin \in {"none", "open", "failed", "closed"}
    /\ relay \in {"none", "reading", "writing", "done"}
    /\ line \in {"none", "ttyname", "other"}
    /\ rerr \in {"none", "nil", "closed", "broken", "input"}
    /\ named \in SUBSET {"popup's", "agent's"}
    /\ err \in {"nil", "input", "acquire", "start", "pinentry", "relay", "dismiss"}
    /\ derr \in {"none", "nil", "failed"}
    /\ verdict \in {"none", "workspace"} \cup
                   {"nil", "input", "acquire", "start", "pinentry", "relay", "dismiss"}

\* Pinentry draws on the popup's terminal alone, whatever gpg-agent names, and the
\* terminal is pinentry's for as long as pinentry runs: a popup still up has a shell
\* that has announced it and has not been told to let go.
TerminalHeldForPinentry ==
    /\ named \subseteq {"popup's"}
    /\ pinentry = "running" /\ popup = "up" => payload \in {"announced", "atDone"}

\* What Call reports is the first thing that went wrong: success means pinentry
\* exited well on a terminal that was then given back, and neither the teardown
\* nor a failed dismissal ever hides what pinentry reported.
VerdictIsPinentrys ==
    call = "returned" =>
        /\ verdict = "nil" =>
            pinentry = "ok" /\ derr = "nil" /\ rerr \in {"nil", "closed"}
        /\ pinentry = "failed" => verdict = "pinentry"
        /\ pinentry = "ok" /\ derr = "nil" /\ rerr \in {"nil", "closed"} =>
            verdict \in {"nil", "input"}

\* Call leaves nothing running or open behind: pinentry reaped, the relay ended,
\* both FIFOs closed, no dismissal armed or under way for its deferred cancel to
\* set off, the FIFOs' directory given back.
SettledOnReturn ==
    call = "returned" =>
        /\ pinentry # "running" /\ relay \in {"none", "done"}
        /\ hold = {}
        /\ watch \notin {"armed", "dismissing"}
        /\ workspace # "open"

\* A canceled exchange ends, whatever the popup, pinentry and gpg-agent do.
CanceledCallReturns == ctxDone ~> (call = "returned")

\* The exchange ends with pinentry, though gpg-agent keeps its end of the input open.
CallEndsWithPinentry == (pinentry \in Exited) ~> (call = "returned")

\* A popup whose shell is waiting for its dismissal goes when the exchange ends,
\* however it ended, unless the dismissal itself is what failed.
WaitingPopupGoes ==
    (payload = "atDone" /\ call \in {"closeEnd", "joinRelay", "dismiss"})
        ~> (popup = "gone" \/ derr = "failed")

\* pinentry.go, "a popup that is open but never announced anything still has to be
\* told to go away", and README, "The popup is dismissed once pinentry exits": a
\* popup that was told to go away over its done FIFO, and by nothing else, goes.
DismissedPopupGoes ==
    (call = "returned" /\ derr = "nil" /\ watch = "stopped") ~> (popup = "gone")

------------------------------------------------------------------------------
(* The launch of the handshake's popup is the one launch.go has. *)

ReleasedPopup == popup # "none" /\ call \in {"closeInput", "freeWorkspace", "returned"}

Run == INSTANCE LaunchRun WITH
    Outputs   <- {},
    asked     <- ctxDone,
    ctx       <- IF ReleasedPopup THEN "canceled" ELSE "live",
    launcher  <- IF popup = "none" THEN "none" ELSE "running",
    dismissal <- IF watch = "dismissing" THEN "running"
                 ELSE IF watch = "dismissed" THEN "over" ELSE "none",
    open      <- {},
    release   <- IF ReleasedPopup THEN "begun" ELSE "no"

\* The exchange ends its popup's launch as LaunchRun has it: the multiplexer closes the
\* popup only when the context is done, and Call goes on only once that is over.
KeepsRun == Run!RunSpec
==============================================================================
