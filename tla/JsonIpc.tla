------------------------------- MODULE JsonIpc -------------------------------
(***************************************************************************)
(* A JSON exchange with a popup payload: what JsonIpcConn does with the    *)
(* payload's stdout, the launcher's exit and the exchange's end.           *)
(*                                                                         *)
(* Four goroutines meet here.  The launch's relay copies the payload's     *)
(* FIFO into an io.Pipe; the stream decodes the other end and hands the    *)
(* values over the unbuffered results channel; the watch waits for the     *)
(* launcher; the caller's Wait waits for the stream's end, releases the    *)
(* launch and joins the two.  Stream and watch settle the exchange through *)
(* finish, where the first outcome recorded wins.  The input side is       *)
(* JsonSend's.                                                             *)
(***************************************************************************)
EXTENDS Naturals

CONSTANT MaxValues    \* the values a payload writes, bounded for TLC

ASSUME ValuesAssumption == MaxValues \in Nat

VARIABLES
    canceled,   \* the caller's context
    launchCtx,  \* the launch's context
    launcher,   \* the launcher process
    payload,    \* the payload; "exited" once nothing holds its stdout any more
    sent,       \* whole values it has written to its stdout
    tail,       \* what it wrote after them that is no whole value
    met,        \* whether the payload's open has met the relay's
    relay,      \* pumpOut of the payload's stdout
    abort,      \* what ends OpenReader before its open is taken
    pipe,       \* the pipe between relay and stream
    relayed,    \* values the stream has read off the pipe, the tail being one more
    stream,     \* where stream is
    handed,     \* values taken from Results
    serr,       \* what stream, and then finish, returned
    watch,      \* where watchLauncher is
    werr,       \* what it returned
    outcome,    \* conn.decided and conn.outcome
    release,    \* PopupCommand.release, a sync.OnceFunc
    wait,       \* where the caller's Wait is
    verdict     \* what it returned

payloadVars == <<payload, sent, tail>>
openVars    == <<met, abort>>
relayVars   == <<openVars, relay, pipe>>
streamVars  == <<stream, handed, serr>>
watchVars   == <<watch, werr>>
waitVars    == <<wait, verdict>>
vars == <<canceled, launchCtx, launcher, payloadVars, relayVars, relayed, streamVars,
          watchVars, outcome, release, waitVars>>

Failures == {"launcher", "decode", "cut", "abandoned"}

\* Exec has returned: relay, stream and watch are running.
Init ==
    /\ canceled = FALSE
    /\ launchCtx = "live"
    /\ launcher = "running"
    /\ payload = "none"
    /\ sent = 0
    /\ tail = "none"
    /\ met = FALSE
    /\ relay = "opening"
    /\ abort = "none"
    /\ pipe = "open"
    /\ relayed = 0
    /\ stream = "decoding"
    /\ handed = 0
    /\ serr = "none"
    /\ watch = "waiting"
    /\ werr = "none"
    /\ outcome = "undecided"
    /\ release = "none"
    /\ wait = "idle"
    /\ verdict = "none"

Written == sent + (IF tail = "none" THEN 0 ELSE 1)
ReaderClosed == stream \in {"finishing", "ending", "ended"}
ClosePipe(how) == pipe' = IF pipe = "open" THEN how ELSE pipe    \* the first close wins

------------------------------------------------------------------------------
(* The popup: its launcher and its payload. *)

Cancel ==
    /\ ~canceled
    /\ canceled' = TRUE
    /\ UNCHANGED <<launchCtx, launcher, payloadVars, relayVars, relayed, streamVars, watchVars,
                   outcome, release, waitVars>>

CancelReachesLaunch ==
    /\ canceled
    /\ launchCtx = "live"
    /\ launchCtx' = "canceled"
    /\ UNCHANGED <<canceled, launcher, payloadVars, relayVars, relayed, streamVars, watchVars,
                   outcome, release, waitVars>>

PopupShows ==
    /\ launcher = "running"
    /\ payload = "none"
    /\ payload' = "coming"
    /\ UNCHANGED <<canceled, launchCtx, launcher, sent, tail, relayVars, relayed, streamVars,
                   watchVars, outcome, release, waitVars>>

\* The floating-pane mechanisms return with the payload still to come; display-popup
\* carries the payload's status; an interrupted one leaves it behind.
LauncherExits ==
    /\ launcher = "running"
    /\ launcher' \in IF payload = "none" THEN {"failed"} ELSE {"ok", "failed"}
    /\ UNCHANGED <<canceled, launchCtx, payloadVars, relayVars, relayed, streamVars, watchVars,
                   outcome, release, waitVars>>

\* The payload's open meets the relay's, or the one that wakes it.
PayloadOpens ==
    /\ payload = "coming"
    /\ relay \in {"opening", "waking"}
    /\ payload' = "open"
    /\ met' = TRUE
    /\ UNCHANGED <<canceled, launchCtx, launcher, sent, tail, relay, abort, pipe, relayed,
                   streamVars, watchVars, outcome, release, waitVars>>

\* Into the FIFO, whether or not anybody will read it there.
PayloadWrites ==
    /\ payload = "open"
    /\ tail = "none"
    /\ relay # "done"
    /\ \/ sent < MaxValues /\ sent' = sent + 1 /\ UNCHANGED tail
       \/ tail' \in {"torn", "garbage"} /\ UNCHANGED sent
    /\ UNCHANGED <<canceled, launchCtx, launcher, payload, relayVars, relayed, streamVars,
                   watchVars, outcome, release, waitVars>>

\* Of its own, killed by a dismissal, or closed by the user.
PayloadExits ==
    /\ payload \in {"coming", "open"}
    /\ payload' = "exited"
    /\ UNCHANGED <<canceled, launchCtx, launcher, sent, tail, relayVars, relayed, streamVars,
                   watchVars, outcome, release, waitVars>>

------------------------------------------------------------------------------
(* pumpOut into the pipe. *)

RelayOpens ==
    /\ relay = "opening"
    /\ met
    /\ relay' = "relaying"
    /\ UNCHANGED <<canceled, launchCtx, launcher, payloadVars, openVars, pipe, relayed,
                   streamVars, watchVars, outcome, release, waitVars>>

RelayOpenFails ==
    /\ relay = "opening"
    /\ relay' = "done"
    /\ ClosePipe("abandoned")
    /\ UNCHANGED <<canceled, launchCtx, launcher, payloadVars, openVars, relayed, streamVars,
                   watchVars, outcome, release, waitVars>>

\* The startup timeout or the launch's context, also with the open there to be taken.
RelayAbandons ==
    /\ relay = "opening"
    /\ relay' = "waking"
    /\ abort' \in {"abandoned"} \cup (IF launchCtx = "live" THEN {} ELSE {"cut"})
    /\ UNCHANGED <<canceled, launchCtx, launcher, payloadVars, met, pipe, relayed, streamVars,
                   watchVars, outcome, release, waitVars>>

\* The open is woken and its file closed, with whatever the payload wrote there.
RelayWakes ==
    /\ relay = "waking"
    /\ relay' = "done"
    /\ ClosePipe(abort)
    /\ UNCHANGED <<canceled, launchCtx, launcher, payloadVars, openVars, relayed, streamVars,
                   watchVars, outcome, release, waitVars>>

\* End of file: the payload's end closed with everything copied on.
RelayEnds ==
    /\ relay = "relaying"
    /\ payload = "exited"
    /\ relayed = Written
    /\ relay' = "done"
    /\ ClosePipe("eof")
    /\ UNCHANGED <<canceled, launchCtx, launcher, payloadVars, openVars, relayed, streamVars,
                   watchVars, outcome, release, waitVars>>

\* The stream closed its end, and the next write finds out.
RelayBreaks ==
    /\ relay = "relaying"
    /\ ReaderClosed
    /\ relayed < Written
    /\ relay' = "done"
    /\ ClosePipe("cut")
    /\ UNCHANGED <<canceled, launchCtx, launcher, payloadVars, openVars, relayed, streamVars,
                   watchVars, outcome, release, waitVars>>

\* The AfterFunc of the launch's context, for the stream's read.
CutPipe ==
    /\ relay = "relaying"
    /\ launchCtx = "canceled"
    /\ pipe = "open"
    /\ pipe' = "cut"
    /\ UNCHANGED <<canceled, launchCtx, launcher, payloadVars, openVars, relay, relayed,
                   streamVars, watchVars, outcome, release, waitVars>>

\* Mutant of RelayCut: the pipe is closed without the cause.
RelayCutQuietly ==
    /\ relay = "relaying"
    /\ launchCtx = "canceled"
    /\ relay' = "done"
    /\ ClosePipe("eof")
    /\ UNCHANGED <<canceled, launchCtx, launcher, payloadVars, openVars, relayed, streamVars,
                   watchVars, outcome, release, waitVars>>

\* Mutant of RelayCut: no read deadline, so the payload has to let go first.
RelayCutLate ==
    /\ payload = "exited"
    /\ relay = "relaying"
    /\ launchCtx = "canceled"
    /\ relay' = "done"
    /\ ClosePipe("cut")
    /\ UNCHANGED <<canceled, launchCtx, launcher, payloadVars, openVars, relayed, streamVars,
                   watchVars, outcome, release, waitVars>>

\* The read deadline the same AfterFunc set, for the relay's own.
RelayCut ==
    /\ relay = "relaying"
    /\ launchCtx = "canceled"
    /\ relay' = "done"
    /\ ClosePipe("cut")
    /\ UNCHANGED <<canceled, launchCtx, launcher, payloadVars, openVars, relayed, streamVars,
                   watchVars, outcome, release, waitVars>>

------------------------------------------------------------------------------
(* stream: decode, hand over, end. *)

\* A chunk through the synchronous pipe, into the decoder's buffer.
Refill ==
    /\ stream = "decoding"
    /\ handed = relayed
    /\ relay = "relaying"
    /\ pipe = "open"
    /\ relayed' \in (relayed + 1)..Written
    /\ UNCHANGED <<canceled, launchCtx, launcher, payloadVars, relayVars, streamVars, watchVars,
                   outcome, release, waitVars>>

Decode ==
    /\ stream = "decoding"
    /\ handed < relayed
    /\ handed < sent
    /\ stream' = "handing"
    /\ UNCHANGED <<canceled, launchCtx, launcher, payloadVars, relayVars, relayed, handed, serr,
                   watchVars, outcome, release, waitVars>>

\* The caller draining Results.
TakeResult ==
    /\ stream = "handing"
    /\ stream' = "decoding"
    /\ handed' = handed + 1
    /\ UNCHANGED <<canceled, launchCtx, launcher, payloadVars, relayVars, relayed, serr,
                   watchVars, outcome, release, waitVars>>

StreamReturns(e) == stream' = "closing" /\ serr' = e

\* The buffer holds garbage, or a value the pipe's end leaves torn.
DecodeFails ==
    /\ stream = "decoding"
    /\ handed = sent
    /\ relayed > sent
    /\ \/ tail = "garbage" /\ StreamReturns("decode")
       \/ tail = "torn" /\ pipe = "eof" /\ StreamReturns("decode")
       \/ tail = "torn" /\ pipe \in {"cut", "abandoned"} /\ StreamReturns(pipe)
    /\ UNCHANGED <<canceled, launchCtx, launcher, payloadVars, relayVars, relayed, handed,
                   watchVars, outcome, release, waitVars>>

ReadFails ==
    /\ stream = "decoding"
    /\ handed = relayed
    /\ pipe \in {"cut", "abandoned"}
    /\ StreamReturns(pipe)
    /\ UNCHANGED <<canceled, launchCtx, launcher, payloadVars, relayVars, relayed, handed,
                   watchVars, outcome, release, waitVars>>

ReadEnds ==
    /\ stream = "decoding"
    /\ handed = relayed
    /\ pipe = "eof"
    /\ \/ handed > 0 /\ StreamReturns("nil")
       \/ handed = 0 /\ stream' = "asking" /\ UNCHANGED serr
    /\ UNCHANGED <<canceled, launchCtx, launcher, payloadVars, relayVars, relayed, handed,
                   watchVars, outcome, release, waitVars>>

\* launcherFailure: launcherDone, or the grace.
AskLauncher ==
    /\ stream = "asking"
    /\ \/ watch # "waiting" /\ StreamReturns(IF launcher = "failed" THEN "launcher" ELSE "nil")
       \/ StreamReturns("nil")
    /\ UNCHANGED <<canceled, launchCtx, launcher, payloadVars, relayVars, relayed, handed,
                   watchVars, outcome, release, waitVars>>

\* The deferred closes of Results and of the reader.
CloseStream ==
    /\ stream = "closing"
    /\ stream' = "finishing"
    /\ UNCHANGED <<canceled, launchCtx, launcher, payloadVars, relayVars, relayed, handed, serr,
                   watchVars, outcome, release, waitVars>>

\* Mutant of Finish: the last outcome wins.
FinishLast(err) == outcome' = err

Finish(err) == outcome' = IF outcome = "undecided" THEN err ELSE outcome

FinishStream ==
    /\ stream = "finishing"
    /\ Finish(serr)
    /\ serr' = outcome'
    /\ stream' = "ending"
    /\ UNCHANGED <<canceled, launchCtx, launcher, payloadVars, relayVars, relayed, handed,
                   watchVars, release, waitVars>>

EndStream ==
    /\ stream = "ending"
    /\ stream' = "ended"
    /\ UNCHANGED <<canceled, launchCtx, launcher, payloadVars, relayVars, relayed, handed, serr,
                   watchVars, outcome, release, waitVars>>

------------------------------------------------------------------------------
(* watchLauncher. *)

\* Mutant of LauncherReaped: any exit starts the grace.
LauncherReapedAny ==
    /\ watch = "waiting"
    /\ launcher # "running"
    /\ watch' = "grace"
    /\ UNCHANGED <<canceled, launchCtx, launcher, payloadVars, relayVars, relayed, streamVars,
                   werr, outcome, release, waitVars>>

\* Only a failure starts the grace: a successful launcher says nothing.
LauncherReaped ==
    /\ watch = "waiting"
    /\ launcher # "running"
    /\ IF launcher = "ok" THEN watch' = "done" /\ werr' = "nil"
                          ELSE watch' = "grace" /\ UNCHANGED werr
    /\ UNCHANGED <<canceled, launchCtx, launcher, payloadVars, relayVars, relayed, streamVars,
                   outcome, release, waitVars>>

WatchSeesEnd ==
    /\ watch = "grace"
    /\ stream = "ended"
    /\ watch' = "done"
    /\ werr' = "nil"
    /\ UNCHANGED <<canceled, launchCtx, launcher, payloadVars, relayVars, relayed, streamVars,
                   outcome, release, waitVars>>

GraceExpires ==
    /\ watch = "grace"
    /\ watch' = "expired"
    /\ UNCHANGED <<canceled, launchCtx, launcher, payloadVars, relayVars, relayed, streamVars,
                   werr, outcome, release, waitVars>>

\* Mutant of FinishWatch: the popup is left to the startup timeout.
FinishWatchOnly ==
    /\ watch = "expired"
    /\ Finish("launcher")
    /\ werr' = outcome'
    /\ watch' = "done"
    /\ UNCHANGED <<canceled, launchCtx, launcher, payloadVars, relayVars, relayed, streamVars,
                   release, waitVars>>

FinishWatch ==
    /\ watch = "expired"
    /\ Finish("launcher")
    /\ werr' = outcome'
    /\ watch' = "releasing"
    /\ UNCHANGED <<canceled, launchCtx, launcher, payloadVars, relayVars, relayed, streamVars,
                   release, waitVars>>

WatchReleased ==
    /\ watch = "releasing"
    /\ release = "done"
    /\ watch' = "done"
    /\ UNCHANGED <<canceled, launchCtx, launcher, payloadVars, relayVars, relayed, streamVars,
                   werr, outcome, release, waitVars>>

------------------------------------------------------------------------------
(* release and Wait. *)

\* Whichever of the two calls it first runs it, and the other waits for it.
BeginRelease ==
    /\ release = "none"
    /\ wait = "releasing" \/ watch = "releasing"
    /\ launchCtx' = "canceled"
    /\ release' = "draining"
    /\ UNCHANGED <<canceled, launcher, payloadVars, relayVars, relayed, streamVars, watchVars,
                   outcome, waitVars>>

\* Mutant of EndRelease: the relay is not waited for.
EndReleaseUndrained ==
    /\ release = "draining"
    /\ release' = "done"
    /\ UNCHANGED <<canceled, launchCtx, launcher, payloadVars, relayVars, relayed, streamVars,
                   watchVars, outcome, waitVars>>

\* piped.Wait, and then the rollback.
EndRelease ==
    /\ release = "draining"
    /\ relay = "done"
    /\ release' = "done"
    /\ UNCHANGED <<canceled, launchCtx, launcher, payloadVars, relayVars, relayed, streamVars,
                   watchVars, outcome, waitVars>>

CallWait ==
    /\ wait = "idle"
    /\ wait' = "ended"
    /\ UNCHANGED <<canceled, launchCtx, launcher, payloadVars, relayVars, relayed, streamVars,
                   watchVars, outcome, release, verdict>>

WaitEnded ==
    /\ wait = "ended"
    /\ stream = "ended"
    /\ wait' = "releasing"
    /\ UNCHANGED <<canceled, launchCtx, launcher, payloadVars, relayVars, relayed, streamVars,
                   watchVars, outcome, release, verdict>>

WaitReleased ==
    /\ wait = "releasing"
    /\ release = "done"
    /\ wait' = "joining"
    /\ UNCHANGED <<canceled, launchCtx, launcher, payloadVars, relayVars, relayed, streamVars,
                   watchVars, outcome, release, verdict>>

\* group.Wait: the first failure either of the two returned.
WaitReturns ==
    /\ wait = "joining"
    /\ watch = "done"
    /\ wait' = "returned"
    /\ verdict' \in IF {serr, werr} = {"nil"} THEN {"nil"} ELSE {serr, werr} \ {"nil"}
    /\ UNCHANGED <<canceled, launchCtx, launcher, payloadVars, relayVars, relayed, streamVars,
                   watchVars, outcome, release>>

------------------------------------------------------------------------------
RelayStep == RelayOpens \/ RelayWakes \/ RelayEnds \/ RelayBreaks \/ CutPipe \/ RelayCut
StreamStep ==
    \/ Refill \/ Decode \/ DecodeFails \/ ReadFails \/ ReadEnds
    \/ AskLauncher \/ CloseStream \/ FinishStream \/ EndStream
WatchStep ==
    LauncherReaped \/ WatchSeesEnd \/ GraceExpires \/ FinishWatch \/ WatchReleased
ReleaseStep == BeginRelease \/ EndRelease
WaitStep == WaitEnded \/ WaitReleased \/ WaitReturns

Next ==
    \/ Cancel \/ CancelReachesLaunch
    \/ PopupShows \/ LauncherExits \/ PayloadOpens \/ PayloadWrites \/ PayloadExits
    \/ RelayOpenFails \/ RelayAbandons \/ RelayStep
    \/ StreamStep \/ TakeResult
    \/ WatchStep \/ ReleaseStep \/ CallWait \/ WaitStep

Spec == Init /\ [][Next]_vars

\* Goroutines that can move do, a canceled relay sees its context, an interrupted
\* launcher ends, and the caller drains Results as its contract has it.  Nothing
\* is assumed of the payload, nor of the startup timeout.
Fairness ==
    /\ WF_vars(CancelReachesLaunch)
    /\ WF_vars(launchCtx = "canceled" /\ RelayAbandons)
    /\ WF_vars(RelayStep)
    /\ WF_vars(StreamStep)
    /\ WF_vars(TakeResult)
    /\ WF_vars(WatchStep)
    /\ WF_vars(ReleaseStep)
    /\ WF_vars(WaitStep)
    /\ WF_vars(launchCtx = "canceled" /\ LauncherExits)

FairSpec == Spec /\ Fairness

------------------------------------------------------------------------------
(* Properties. *)

\* Every variable has its type.
TypeOK ==
    /\ canceled \in BOOLEAN
    /\ launchCtx \in {"live", "canceled"}
    /\ launcher \in {"running", "ok", "failed"}
    /\ payload \in {"none", "coming", "open", "exited"}
    /\ sent \in 0..MaxValues
    /\ tail \in {"none", "torn", "garbage"}
    /\ met \in BOOLEAN
    /\ relay \in {"opening", "waking", "relaying", "done"}
    /\ abort \in {"none", "abandoned", "cut"}
    /\ pipe \in {"open", "eof", "cut", "abandoned"}
    /\ relayed \in 0..Written
    /\ stream \in {"decoding", "handing", "asking", "closing", "finishing", "ending", "ended"}
    /\ handed \in 0..sent
    /\ serr \in {"none", "nil"} \cup Failures
    /\ watch \in {"waiting", "grace", "expired", "releasing", "done"}
    /\ werr \in {"none", "nil"} \cup Failures
    /\ outcome \in {"undecided", "nil"} \cup Failures
    /\ release \in {"none", "draining", "done"}
    /\ wait \in {"idle", "ended", "releasing", "joining", "returned"}
    /\ verdict \in {"none", "nil"} \cup Failures

\* finish: "The first one recorded wins".  A launcher failing on the way out does
\* not replace the stream's end, nor the cancellation that ended a rendezvous the
\* failure that caused it, and Wait reports that outcome.
FirstOutcomeWins ==
    [][/\ outcome # "undecided" => outcome' = outcome
       /\ verdict' # verdict => verdict' = outcome]_vars

\* A Wait without an error means the exchange is whole: the payload ended it, and
\* everything it wrote was a value somebody took.
CleanVerdictIsWhole ==
    verdict = "nil" => payload = "exited" /\ tail = "none" /\ handed = sent

\* Wait: "A launcher failure decides the exchange only while the output stream has
\* not ended".  The launch is taken down under a stream that is still running only
\* by a canceled caller or by a launcher that failed, and then the verdict says so.
StreamOutlivesLauncher ==
    /\ release # "none" => stream = "ended" \/ outcome # "undecided"
    /\ launchCtx = "canceled" /\ stream # "ended" => canceled \/ launcher = "failed"
    /\ verdict = "cut" => canceled

\* watchLauncher: a launcher that failed ends the exchange after the grace, however
\* little the payload does and however long the startup timeout is.
FailedLauncherEndsExchange ==
    launcher = "failed" ~> stream = "ended"

\* A canceled exchange comes back from Wait, given that its results are drained.
CanceledExchangeReturns ==
    (canceled /\ wait # "idle") ~> (wait = "returned")

------------------------------------------------------------------------------
(* The launch below the exchange is the one launch.go has. *)

runRelease == IF release = "none" THEN "no" ELSE IF release = "draining" THEN "begun" ELSE "done"

Run == INSTANCE LaunchRun WITH
    Outputs   <- {"stdout"},
    asked     <- canceled,
    ctx       <- launchCtx,
    dismissal <- "none",    \* left out: it is one of the payload's ends
    open      <- IF relay = "done" THEN {} ELSE {"stdout"},
    release   <- runRelease

\* The exchange asks nothing of its launch that LaunchRun does not promise: its context
\* ends with the caller's or in the release, and the release drains the relay.
KeepsRun == Run!RunSpec

------------------------------------------------------------------------------
(* What its caller is promised: the specification of ValueOutput. *)

Output == INSTANCE ValueOutput WITH
    gone     <- (payload = "exited"),
    written  <- sent,
    spoiled  <- (tail # "none"),
    taken    <- handed,
    closed   <- ReaderClosed,
    returned <- (release = "done")

\* However relay, stream, watch and Wait interleave, the caller gets what was written, a
\* channel that closes, and one verdict, which is true and comes after the launch was
\* given back.
KeepsOutput == Output!OutputSpec
==============================================================================
