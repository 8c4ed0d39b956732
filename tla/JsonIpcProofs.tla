---------------------------- MODULE JsonIpcProofs ----------------------------
(***************************************************************************)
(* The safety of JsonIpc, however many values the payload writes.          *)
(*                                                                         *)
(* IInv is the inductive invariant.  A verdict is worth what the outcome   *)
(* behind it is, so the parts follow it back: the verdict to the outcome   *)
(* (VerdictFacts), the outcome to what stream or watch found               *)
(* (OutcomeFacts, WatchFacts), and that to the state of the pipe, the      *)
(* payload and the launch's context (StreamFacts, PipeFacts, LaunchFacts). *)
(***************************************************************************)
EXTENDS JsonIpc, TLAPS

Whole == payload = "exited" /\ tail = "none" /\ handed = sent
Decided == outcome # "undecided"

PipeFacts ==
    /\ pipe = "eof" => payload = "exited" /\ relayed = Written
    /\ pipe \in {"eof", "abandoned"} => relay = "done"
    /\ pipe = "cut" => launchCtx = "canceled" \/ ReaderClosed
    /\ abort = "cut" => launchCtx = "canceled"
    /\ relay = "waking" => abort # "none"

StreamFacts ==
    /\ handed <= relayed
    /\ stream = "handing" => handed < relayed /\ handed < sent
    /\ stream = "asking" => pipe = "eof" /\ handed = relayed
    /\ serr = "none" <=> stream \in {"decoding", "handing", "asking"}
    /\ serr = "nil" => Whole
    /\ serr = "cut" => canceled \/ Decided

LaunchFacts ==
    /\ release # "none" => Decided
    /\ launchCtx = "canceled" => canceled \/ Decided
    /\ launchCtx = "canceled" /\ stream # "ended" => canceled \/ launcher = "failed"

OutcomeFacts ==
    /\ stream \in {"ending", "ended"} => Decided /\ serr = outcome
    /\ outcome = "nil" => stream \in {"ending", "ended"}
    /\ outcome = "cut" => canceled

WatchFacts ==
    /\ watch \in {"waiting", "grace", "expired"} <=> werr = "none"
    /\ watch \in {"grace", "expired", "releasing"} => launcher = "failed"
    /\ watch \in {"releasing", "done"} => werr = "nil" \/ (Decided /\ werr = outcome)
    /\ watch = "releasing" => Decided

VerdictFacts ==
    /\ wait \in {"releasing", "joining", "returned"} => stream = "ended"
    /\ verdict # "none" => wait = "returned" /\ verdict = outcome

IInv ==
    /\ TypeOK
    /\ PipeFacts
    /\ StreamFacts
    /\ LaunchFacts
    /\ OutcomeFacts
    /\ WatchFacts
    /\ VerdictFacts

------------------------------------------------------------------------------
\* An exchange starts in the invariant.
LEMMA InitHolds == Init => IInv
<1> SUFFICES ASSUME Init PROVE IInv
  OBVIOUS
<1>1. TypeOK
  <2>1. Written = 0
    BY DEF Init, Written
  <2>2. relayed \in 0..Written /\ sent \in 0..MaxValues /\ handed \in 0..sent
    BY <2>1, ValuesAssumption DEF Init
  <2>3. QED
    BY <2>2 DEF Init, TypeOK
<1>2. PipeFacts /\ StreamFacts /\ LaunchFacts
  BY DEF Init, PipeFacts, StreamFacts, LaunchFacts
<1>3. OutcomeFacts /\ WatchFacts /\ VerdictFacts
  BY DEF Init, OutcomeFacts, WatchFacts, VerdictFacts
<1>4. QED
  BY <1>1, <1>2, <1>3 DEF IInv

\* Every action keeps the invariant.
LEMMA NextHolds == IInv /\ [Next]_vars => IInv'
<1> SUFFICES ASSUME IInv, [Next]_vars PROVE IInv'
  OBVIOUS
<1> USE ValuesAssumption
    DEF IInv, TypeOK, PipeFacts, StreamFacts, LaunchFacts, OutcomeFacts, WatchFacts,
        VerdictFacts, Whole, Decided, Written, ReaderClosed, Failures,
        payloadVars, openVars, relayVars, streamVars, watchVars, waitVars
<1>1. CASE Cancel
  BY <1>1 DEF Cancel
<1>2. CASE CancelReachesLaunch
  BY <1>2 DEF CancelReachesLaunch
<1>3. CASE PopupShows
  BY <1>3 DEF PopupShows
<1>4. CASE LauncherExits
  BY <1>4 DEF LauncherExits
<1>5. CASE PayloadOpens
  BY <1>5 DEF PayloadOpens
<1>6. CASE PayloadWrites
  BY <1>6 DEF PayloadWrites
<1>7. CASE PayloadExits
  BY <1>7 DEF PayloadExits
<1>8. CASE RelayOpens \/ RelayAbandons
  BY <1>8 DEF RelayOpens, RelayAbandons
<1>8a. CASE RelayOpenFails \/ RelayWakes
  BY <1>8a DEF RelayOpenFails, RelayWakes, ClosePipe
<1>9. CASE RelayEnds
  BY <1>9 DEF RelayEnds, ClosePipe
<1>10. CASE RelayBreaks
  BY <1>10 DEF RelayBreaks, ClosePipe
<1>11. CASE CutPipe
  BY <1>11 DEF CutPipe
<1>12. CASE RelayCut
  BY <1>12 DEF RelayCut, ClosePipe
<1>13. CASE Refill
  BY <1>13 DEF Refill
<1>14. CASE Decode
  BY <1>14 DEF Decode
<1>15. CASE TakeResult
  BY <1>15 DEF TakeResult
<1>16. CASE DecodeFails
  BY <1>16 DEF DecodeFails, StreamReturns
<1>17. CASE ReadFails
  BY <1>17 DEF ReadFails, StreamReturns
<1>18. CASE ReadEnds
  BY <1>18 DEF ReadEnds, StreamReturns
<1>19. CASE AskLauncher
  BY <1>19 DEF AskLauncher, StreamReturns
<1>20. CASE CloseStream
  BY <1>20 DEF CloseStream
<1>21. CASE FinishStream
  BY <1>21 DEF FinishStream, Finish
<1>22. CASE EndStream
  BY <1>22 DEF EndStream
<1>23. CASE LauncherReaped
  BY <1>23 DEF LauncherReaped
<1>24. CASE WatchSeesEnd
  BY <1>24 DEF WatchSeesEnd
<1>25. CASE GraceExpires
  BY <1>25 DEF GraceExpires
<1>26. CASE FinishWatch
  BY <1>26 DEF FinishWatch, Finish
<1>27. CASE WatchReleased
  BY <1>27 DEF WatchReleased
<1>28. CASE BeginRelease
  BY <1>28 DEF BeginRelease
<1>29. CASE EndRelease
  BY <1>29 DEF EndRelease
<1>30. CASE CallWait
  BY <1>30 DEF CallWait
<1>31. CASE WaitEnded
  BY <1>31 DEF WaitEnded
<1>32. CASE WaitReleased
  BY <1>32 DEF WaitReleased
<1>33. CASE WaitReturns
  BY <1>33 DEF WaitReturns
<1>34. CASE UNCHANGED vars
  BY <1>34 DEF vars
<1>35. QED
  BY <1>1, <1>2, <1>3, <1>4, <1>5, <1>6, <1>7, <1>8, <1>9, <1>10, <1>11, <1>12,
     <1>13, <1>14, <1>15, <1>16, <1>17, <1>18, <1>19, <1>20, <1>21, <1>22, <1>23,
     <1>24, <1>25, <1>26, <1>27, <1>28, <1>29, <1>30, <1>31, <1>32, <1>33, <1>34,
     <1>8a
  DEF Next, RelayStep, StreamStep, WatchStep, ReleaseStep, WaitStep

\* IInv holds in every state of every exchange.
LEMMA Invariance == Spec => []IInv
<1>1. QED
  BY InitHolds, NextHolds, PTL DEF Spec

\* Every variable of the exchange has its type, however many values are written.
THEOREM TypesHold == Spec => []TypeOK
<1>1. IInv => TypeOK
  BY DEF IInv
<1>2. QED
  BY <1>1, Invariance, PTL

\* A Wait without an error means the payload ended the exchange and every value it wrote
\* was taken: stream reports nil only at the relay's end of file, and a launcher that
\* failed reports nil only once the stream has ended so.
THEOREM VerdictIsWhole == Spec => []CleanVerdictIsWhole
<1>1. IInv => CleanVerdictIsWhole
  BY DEF IInv, StreamFacts, OutcomeFacts, VerdictFacts, CleanVerdictIsWhole, Whole
<1>2. QED
  BY <1>1, Invariance, PTL

\* The launch is taken down under a stream that is still running only by a canceled
\* caller or a launcher that failed, and a verdict of a cut stream is the caller's doing.
THEOREM StreamOutlives == Spec => []StreamOutlivesLauncher
<1>1. IInv => StreamOutlivesLauncher
  BY DEF IInv, LaunchFacts, OutcomeFacts, VerdictFacts, StreamOutlivesLauncher, Decided
<1>2. QED
  BY <1>1, Invariance, PTL

\* finish keeps the first outcome, and Wait returns that one.
THEOREM FirstWins == Spec => FirstOutcomeWins
<1>1. IInv /\ [Next]_vars =>
        [/\ outcome # "undecided" => outcome' = outcome
         /\ verdict' # verdict => verdict' = outcome]_vars
  <2> SUFFICES ASSUME IInv, Next
               PROVE  /\ outcome # "undecided" => outcome' = outcome
                      /\ verdict' # verdict => verdict' = outcome
    OBVIOUS
  <2>1. CASE FinishStream \/ FinishWatch
    BY <2>1 DEF FinishStream, FinishWatch, Finish, waitVars
  <2>2. CASE WaitReturns
    <3>1. serr = outcome /\ (werr = "nil" \/ werr = outcome)
      BY <2>2 DEF WaitReturns, IInv, VerdictFacts, OutcomeFacts, WatchFacts
    <3>2. verdict' = outcome
      BY <2>2, <3>1 DEF WaitReturns
    <3>3. QED
      BY <2>2, <3>2 DEF WaitReturns
  <2>3. CASE ~(FinishStream \/ FinishWatch \/ WaitReturns)
    <3>1. UNCHANGED <<outcome, verdict>>
      BY <2>3 DEF Next, RelayStep, StreamStep, WatchStep, ReleaseStep, WaitStep, waitVars,
         Cancel, CancelReachesLaunch, PopupShows, LauncherExits, PayloadOpens,
         PayloadWrites, PayloadExits, RelayOpens, RelayOpenFails, RelayAbandons,
         RelayWakes, RelayEnds, RelayBreaks, CutPipe,
         RelayCut, Refill, Decode, TakeResult, DecodeFails, ReadFails, ReadEnds,
         AskLauncher, CloseStream, EndStream, LauncherReaped, WatchSeesEnd,
         GraceExpires, WatchReleased, BeginRelease, EndRelease, CallWait, WaitEnded,
         WaitReleased
    <3>2. QED
      BY <3>1
  <2>4. QED
    BY <2>1, <2>2, <2>3
<1>2. QED
  BY <1>1, Invariance, PTL DEF Spec, FirstOutcomeWins

------------------------------------------------------------------------------
(* The exchange implements LaunchRun. *)

\* A step that leaves the launch, its relay and its release alone is none of the run's.
LEMMA RunStutters ==
    ASSUME UNCHANGED <<canceled, launchCtx, launcher, release>>,
           relay' = relay \/ {relay, relay'} \subseteq {"opening", "waking", "relaying"}
    PROVE  UNCHANGED Run!runVars
  BY DEF Run!runVars, runRelease

\* Each step of an exchange is a step of its launch, or none.
LEMMA RunStep ==
    ASSUME IInv, [Next]_vars
    PROVE  Run!RunNext \/ UNCHANGED Run!runVars
<1> USE DEF payloadVars, openVars, relayVars, streamVars, watchVars, waitVars
<1>1. CASE Cancel
  <2>1. Run!Ask
    BY <1>1 DEF Cancel, Run!Ask, runRelease
  <2>2. QED
    BY <2>1 DEF Run!RunNext
<1>2. CASE CancelReachesLaunch
  <2>1. Run!EndContext
    BY <1>2 DEF CancelReachesLaunch, Run!EndContext, runRelease
  <2>2. QED
    BY <2>1 DEF Run!RunNext
<1>3. CASE LauncherExits
  <2>1. Run!LauncherEnds
    BY <1>3 DEF LauncherExits, Run!LauncherEnds, runRelease
  <2>2. QED
    BY <2>1 DEF Run!RunNext
<1>4. CASE RelayOpenFails \/ RelayWakes \/ RelayEnds \/ RelayBreaks \/ RelayCut
  <2>1. /\ relay # "done" /\ relay' = "done"
        /\ UNCHANGED <<canceled, launchCtx, launcher, release>>
    BY <1>4 DEF RelayOpenFails, RelayWakes, RelayEnds, RelayBreaks, RelayCut
  <2>2. Run!CloseStream("stdout")
    BY <2>1 DEF Run!CloseStream, runRelease
  <2>3. QED
    BY <2>2 DEF Run!RunNext
<1>5. CASE BeginRelease
  <2>1. Run!BeginRelease
    BY <1>5 DEF BeginRelease, Run!BeginRelease, runRelease, IInv, TypeOK
  <2>2. QED
    BY <2>1 DEF Run!RunNext
<1>6. CASE EndRelease
  <2>1. Run!EndRelease
    BY <1>6 DEF EndRelease, Run!EndRelease, runRelease
  <2>2. QED
    BY <2>1 DEF Run!RunNext
<1>7. CASE \/ PopupShows \/ PayloadOpens \/ PayloadWrites \/ PayloadExits
           \/ RelayOpens \/ RelayAbandons \/ CutPipe
  BY <1>7, RunStutters DEF PopupShows, PayloadOpens, PayloadWrites, PayloadExits, RelayOpens,
     RelayAbandons, CutPipe
<1>8. CASE StreamStep \/ TakeResult
  BY <1>8, RunStutters DEF StreamStep, Refill, Decode, DecodeFails, ReadFails, ReadEnds,
     AskLauncher, CloseStream, FinishStream, EndStream, TakeResult
<1>9. CASE WatchStep \/ CallWait \/ WaitStep
  BY <1>9, RunStutters DEF WatchStep, LauncherReaped, WatchSeesEnd, GraceExpires, FinishWatch,
     WatchReleased, CallWait, WaitStep, WaitEnded, WaitReleased, WaitReturns
<1>10. CASE UNCHANGED vars
  BY <1>10, RunStutters DEF vars
<1>11. QED
  BY <1>1, <1>2, <1>3, <1>4, <1>5, <1>6, <1>7, <1>8, <1>9, <1>10
  DEF Next, RelayStep, ReleaseStep

\* The exchange does to its launch only what LaunchRun has: the release ends the context,
\* and is over only with the relay.
THEOREM RunKept == Spec => KeepsRun
<1>1. Init => Run!RunInit
  BY DEF Init, Run!RunInit, runRelease
<1>2. IInv /\ [Next]_vars => [Run!RunNext]_(Run!runVars)
  BY RunStep
<1>3. QED
  BY <1>1, <1>2, Invariance, PTL DEF Spec, KeepsRun, Run!RunSpec

------------------------------------------------------------------------------
(* The exchange implements ValueOutput. *)

\* The grounds of the errors stream returns, up to its finish, and what has been given
\* back when Wait joins.
GroundFacts ==
    /\ relay \in {"opening", "waking"} \/ pipe = "abandoned" => relayed = 0
    /\ stream \in {"closing", "finishing"} =>
        /\ serr = "decode" => tail # "none" /\ handed = sent
        /\ serr = "launcher" => launcher = "failed"
        /\ serr = "abandoned" => pipe = "abandoned"
    /\ wait = "joining" => release = "done"

\* Every step keeps them.
LEMMA StepKeepsGrounds == IInv /\ GroundFacts /\ [Next]_vars => GroundFacts'
<1> SUFFICES ASSUME IInv, GroundFacts, [Next]_vars PROVE GroundFacts'
  OBVIOUS
<1> USE DEF GroundFacts, payloadVars, openVars, relayVars, streamVars, watchVars, waitVars
<1>1. CASE Cancel \/ CancelReachesLaunch \/ PopupShows \/ PayloadExits
  BY <1>1 DEF Cancel, CancelReachesLaunch, PopupShows, PayloadExits
<1>2. CASE LauncherExits
  BY <1>2 DEF LauncherExits, IInv, TypeOK
<1>3. CASE PayloadWrites
  BY <1>3 DEF PayloadWrites
<1>4. CASE RelayOpenFails \/ RelayAbandons \/ RelayStep
  BY <1>4 DEF RelayOpenFails, RelayAbandons, RelayStep, RelayOpens, RelayWakes, RelayEnds,
     RelayBreaks, CutPipe, RelayCut, ClosePipe, IInv, TypeOK
<1>5. CASE Refill \/ Decode \/ TakeResult
  BY <1>5 DEF Refill, Decode, TakeResult
<1>6. CASE DecodeFails
  <2>1. tail # "none"
    BY <1>6, ValuesAssumption DEF DecodeFails, IInv, TypeOK, Written
  <2>2. QED
    BY <1>6, <2>1 DEF DecodeFails, StreamReturns, IInv, TypeOK
<1>7. CASE ReadFails \/ ReadEnds
  BY <1>7 DEF ReadFails, ReadEnds, StreamReturns
<1>8. CASE AskLauncher
  BY <1>8 DEF AskLauncher, StreamReturns
<1>9. CASE CloseStream \/ FinishStream \/ EndStream
  BY <1>9 DEF CloseStream, FinishStream, EndStream
<1>10. CASE WatchStep
  BY <1>10 DEF WatchStep, LauncherReaped, WatchSeesEnd, GraceExpires, FinishWatch, WatchReleased
<1>11. CASE ReleaseStep
  BY <1>11 DEF ReleaseStep, BeginRelease, EndRelease
<1>12. CASE CallWait \/ WaitStep
  BY <1>12 DEF CallWait, WaitStep, WaitEnded, WaitReleased, WaitReturns
<1>13. CASE PayloadOpens
  BY <1>13 DEF PayloadOpens
<1>14. CASE UNCHANGED vars
  BY <1>14 DEF vars
<1>15. QED
  BY <1>1, <1>2, <1>3, <1>4, <1>5, <1>6, <1>7, <1>8, <1>9, <1>10, <1>11, <1>12, <1>13, <1>14
  DEF Next, StreamStep

\* A step that leaves alone what the caller can see is none of ValueOutput's.
LEMMA OutputStutters ==
    ASSUME UNCHANGED <<canceled, launcher, sent, tail, handed, outcome, verdict>>,
           payload' = payload \/ "exited" \notin {payload, payload'},
           release' = release \/ "done" \notin {release, release'},
           stream' = stream \/ ~ReaderClosed' \/ (ReaderClosed /\ ReaderClosed'),
           ReaderClosed => ReaderClosed'
    PROVE  UNCHANGED Output!outputVars
<1>1. (payload' = "exited") = (payload = "exited")
  OBVIOUS
<1>2. (release' = "done") = (release = "done")
  OBVIOUS
<1>3. ReaderClosed' = ReaderClosed
  BY DEF ReaderClosed
<1>4. (tail' # "none") = (tail # "none")
  OBVIOUS
<1>5. QED
  BY <1>1, <1>2, <1>3, <1>4 DEF Output!outputVars

\* The stream's outcome has the grounds ValueOutput asks of it.
LEMMA StreamDecides ==
    ASSUME IInv, GroundFacts, FinishStream
    PROVE  Output!OutputNext \/ UNCHANGED Output!outputVars
<1>1. /\ stream = "finishing" /\ ReaderClosed /\ ReaderClosed'
      /\ UNCHANGED <<canceled, launcher, payload, sent, tail, handed, release, verdict>>
  BY DEF FinishStream, ReaderClosed, payloadVars, waitVars
<1>2. CASE outcome # "undecided"
  <2>1. outcome' = outcome
    BY <1>2 DEF FinishStream, Finish
  <2>2. QED
    BY <1>1, <2>1, OutputStutters
<1>3. CASE outcome = "undecided"
  <2>1. outcome' = serr
    BY <1>3 DEF FinishStream, Finish
  <2>2. serr \in {"nil", "decode", "cut", "launcher", "abandoned"}
    BY <1>1 DEF IInv, TypeOK, StreamFacts, Failures
  <2>3. Output!Grounds(serr)
    <3>1. serr = "nil" => payload = "exited" /\ tail = "none" /\ handed = sent
      BY DEF IInv, StreamFacts, Whole
    <3>2. serr = "cut" => canceled
      BY <1>3 DEF IInv, StreamFacts, Decided
    <3>3. serr = "decode" => tail # "none" /\ handed = sent
      BY <1>1 DEF GroundFacts
    <3>4. serr = "launcher" => launcher = "failed"
      BY <1>1 DEF GroundFacts
    <3>5. serr = "abandoned" => handed = 0
      <4>1. serr = "abandoned" => relayed = 0
        BY <1>1 DEF GroundFacts
      <4>2. handed \in Nat /\ handed <= relayed
        BY DEF IInv, TypeOK, StreamFacts
      <4>3. QED
        BY <4>1, <4>2
    <3>6. QED
      BY <1>1, <2>2, <3>1, <3>2, <3>3, <3>4, <3>5 DEF Output!Grounds
  <2>4. Output!Decide(serr)
    BY <1>1, <1>3, <2>1, <2>3 DEF Output!Decide
  <2>5. QED
    BY <2>2, <2>4 DEF Output!OutputNext
<1>4. QED
  BY <1>2, <1>3

\* And so has the watch's.
LEMMA WatchDecides ==
    ASSUME IInv, FinishWatch
    PROVE  Output!OutputNext \/ UNCHANGED Output!outputVars
<1>1. UNCHANGED <<canceled, launcher, payload, sent, tail, stream, handed, release, verdict>>
  BY DEF FinishWatch, payloadVars, streamVars, waitVars
<1>2. ReaderClosed' = ReaderClosed
  BY <1>1 DEF ReaderClosed
<1>3. CASE outcome # "undecided"
  <2>1. outcome' = outcome
    BY <1>3 DEF FinishWatch, Finish
  <2>2. QED
    BY <1>1, <1>2, <2>1, OutputStutters
<1>4. CASE outcome = "undecided"
  <2>1. outcome' = "launcher" /\ launcher = "failed"
    BY <1>4 DEF FinishWatch, Finish, IInv, WatchFacts
  <2>2. Output!Decide("launcher")
    BY <1>1, <1>2, <1>4, <2>1 DEF Output!Decide, Output!Grounds
  <2>3. QED
    BY <2>2 DEF Output!OutputNext
<1>5. QED
  BY <1>3, <1>4

\* Every step of an exchange is one its caller was promised, or one it cannot see.
LEMMA OutputStep ==
    ASSUME IInv, GroundFacts, [Next]_vars
    PROVE  Output!OutputNext \/ UNCHANGED Output!outputVars
<1> USE DEF payloadVars, openVars, relayVars, streamVars, watchVars, waitVars
<1>1. CASE Cancel
  <2>1. Output!Cancel
    BY <1>1 DEF Cancel, Output!Cancel, ReaderClosed
  <2>2. QED
    BY <2>1 DEF Output!OutputNext
<1>2. CASE LauncherExits
  <2>1. Output!LauncherEnds
    BY <1>2 DEF LauncherExits, Output!LauncherEnds, ReaderClosed
  <2>2. QED
    BY <2>1 DEF Output!OutputNext
<1>3. CASE PayloadWrites
  <2>1. /\ payload = "open" /\ tail = "none"
        /\ UNCHANGED <<canceled, launcher, payload, stream, handed, outcome, release, verdict>>
    BY <1>3 DEF PayloadWrites
  <2>2. ReaderClosed' = ReaderClosed
    BY <2>1 DEF ReaderClosed
  <2>3. \/ sent' = sent + 1 /\ tail' = tail
        \/ tail' # "none" /\ sent' = sent
    BY <1>3 DEF PayloadWrites
  <2>4. Output!WriteValue \/ Output!Spoil
    BY <2>1, <2>2, <2>3 DEF Output!WriteValue, Output!Spoil
  <2>5. QED
    BY <2>4 DEF Output!OutputNext
<1>4. CASE PayloadExits
  <2>1. Output!LetGo
    BY <1>4 DEF PayloadExits, Output!LetGo, ReaderClosed
  <2>2. QED
    BY <2>1 DEF Output!OutputNext
<1>5. CASE TakeResult
  <2>1. handed < sent /\ ~ReaderClosed /\ ReaderClosed' = ReaderClosed
    BY <1>5 DEF TakeResult, ReaderClosed, IInv, StreamFacts
  <2>2. Output!TakeValue
    BY <1>5, <2>1 DEF TakeResult, Output!TakeValue
  <2>3. QED
    BY <2>2 DEF Output!OutputNext
<1>6. CASE CloseStream
  <2>1. ~ReaderClosed /\ ReaderClosed'
    BY <1>6 DEF CloseStream, ReaderClosed
  <2>2. Output!CloseResults
    BY <1>6, <2>1 DEF CloseStream, Output!CloseResults
  <2>3. QED
    BY <2>2 DEF Output!OutputNext
<1>7. CASE EndRelease
  <2>1. outcome # "undecided" /\ release # "done" /\ release' = "done"
    BY <1>7 DEF EndRelease, IInv, LaunchFacts, Decided
  <2>2. Output!GiveBack
    BY <1>7, <2>1 DEF EndRelease, Output!GiveBack, ReaderClosed
  <2>3. QED
    BY <2>2 DEF Output!OutputNext
<1>8. CASE WaitReturns
  <2>1. ReaderClosed /\ ReaderClosed' /\ release = "done" /\ verdict = "none"
    BY <1>8 DEF WaitReturns, ReaderClosed, IInv, VerdictFacts, GroundFacts
  <2>2. serr = outcome /\ (werr = "nil" \/ werr = outcome)
    BY <1>8 DEF WaitReturns, IInv, VerdictFacts, OutcomeFacts, WatchFacts
  <2>3. verdict' = outcome
    BY <1>8, <2>2 DEF WaitReturns
  <2>4. Output!Report
    BY <1>8, <2>1, <2>3 DEF WaitReturns, Output!Report
  <2>5. QED
    BY <2>4 DEF Output!OutputNext
<1>9. CASE \/ CancelReachesLaunch \/ PopupShows \/ PayloadOpens
           \/ RelayOpenFails \/ RelayAbandons \/ RelayStep
  BY <1>9, OutputStutters DEF CancelReachesLaunch, PopupShows, PayloadOpens, RelayOpenFails,
     RelayAbandons, RelayStep, RelayOpens, RelayWakes, RelayEnds, RelayBreaks, CutPipe, RelayCut,
     ReaderClosed
<1>10. CASE Refill \/ Decode \/ DecodeFails \/ ReadFails \/ ReadEnds \/ AskLauncher \/ EndStream
  BY <1>10, OutputStutters DEF Refill, Decode, DecodeFails, ReadFails, ReadEnds, AskLauncher,
     EndStream, StreamReturns, ReaderClosed
<1>11. CASE LauncherReaped \/ WatchSeesEnd \/ GraceExpires \/ WatchReleased
  BY <1>11, OutputStutters DEF LauncherReaped, WatchSeesEnd, GraceExpires, WatchReleased,
     ReaderClosed
<1>12. CASE BeginRelease \/ CallWait \/ WaitEnded \/ WaitReleased
  BY <1>12, OutputStutters DEF BeginRelease, CallWait, WaitEnded, WaitReleased, ReaderClosed
<1>13. CASE UNCHANGED vars
  BY <1>13, OutputStutters DEF vars, ReaderClosed
<1>14. QED
  BY <1>1, <1>2, <1>3, <1>4, <1>5, <1>6, <1>7, <1>8, <1>9, <1>10, <1>11, <1>12, <1>13,
     StreamDecides, WatchDecides
  DEF Next, StreamStep, WatchStep, ReleaseStep, WaitStep

\* The exchange implements ValueOutput, however many values the payload writes and wherever
\* it is cut: one verdict, never without its grounds, after the launch was given back.
THEOREM OutputKept == Spec => KeepsOutput
<1>1. Init => GroundFacts /\ Output!OutputInit
  BY DEF Init, GroundFacts, Output!OutputInit, ReaderClosed
<1>2. IInv /\ GroundFacts /\ [Next]_vars => GroundFacts' /\ [Output!OutputNext]_(Output!outputVars)
  BY StepKeepsGrounds, OutputStep
<1>3. QED
  BY <1>1, <1>2, Invariance, PTL DEF Spec, KeepsOutput, Output!OutputSpec

------------------------------------------------------------------------------
(* Why the exchange ends: what CanceledExchangeReturns and FailedLauncherEndsExchange     *)
(* rest on.  While either of them still has something to wait for, the guard of one of    *)
(* the steps that are fair holds (ExchangeCanMove); each of those steps brings            *)
(* ExchangeRank down, and no step of anybody raises it (ExchangeGetsCloser).              *)

ExchangePending ==
    \/ canceled /\ wait \notin {"idle", "returned"}
    \/ launcher = "failed" /\ stream # "ended"

Releasable == release \in {"none", "done"} \/ relay = "done"

ExchangeCanMove ==
    ExchangePending =>
        \/ canceled /\ launchCtx = "live"
        \/ launchCtx = "canceled" /\ (relay # "done" \/ launcher = "running")
        \/ stream \in {"handing", "asking", "closing", "finishing", "ending"}
        \/ stream = "decoding" /\ handed < relayed /\ handed < sent
        \/ stream = "decoding" /\ handed = sent /\ relayed > sent /\ pipe # "open"
        \/ stream = "decoding" /\ handed = relayed /\ pipe # "open"
        \/ watch = "waiting" /\ launcher # "running"
        \/ watch \in {"grace", "expired"}
        \/ "releasing" \in {watch, wait} /\ Releasable
        \/ wait = "ended" /\ stream = "ended"
        \/ wait = "joining" /\ watch = "done"

relayRank ==
    (IF relay = "opening" THEN 2 ELSE IF relay \in {"waking", "relaying"} THEN 1 ELSE 0)
    + (IF pipe = "open" THEN 1 ELSE 0)
    + (MaxValues + 1 - relayed)
streamRank ==
    2 * (MaxValues - handed)
    + (IF stream = "decoding" THEN 5
       ELSE IF stream \in {"handing", "asking"} THEN 4
       ELSE IF stream = "closing" THEN 3
       ELSE IF stream = "finishing" THEN 2
       ELSE IF stream = "ending" THEN 1 ELSE 0)
watchRank ==
    IF watch = "waiting" THEN 4
    ELSE IF watch = "grace" THEN 3
    ELSE IF watch = "expired" THEN 2
    ELSE IF watch = "releasing" THEN 1 ELSE 0
launchRank ==
    (IF launchCtx = "live" THEN 1 ELSE 0)
    + (IF launcher = "running" THEN 1 ELSE 0)
    + (IF release = "none" THEN 2 ELSE IF release = "draining" THEN 1 ELSE 0)
waitRank ==
    IF wait = "idle" THEN 4
    ELSE IF wait = "ended" THEN 3
    ELSE IF wait = "releasing" THEN 2
    ELSE IF wait = "joining" THEN 1 ELSE 0

ExchangeRank == relayRank + streamRank + watchRank + launchRank + waitRank

\* The steps of Fairness: all but the user's, the payload's, the caller's first steps, and
\* a startup timeout that expires.
FairStep ==
    \/ CancelReachesLaunch \/ RelayStep \/ StreamStep \/ TakeResult
    \/ WatchStep \/ ReleaseStep \/ WaitStep
    \/ launchCtx = "canceled" /\ (RelayAbandons \/ LauncherExits)

ExchangeGetsCloser ==
    [][/\ ExchangeRank' <= ExchangeRank
       /\ FairStep => ExchangeRank' < ExchangeRank
       /\ canceled /\ wait \notin {"idle", "returned"} => canceled' /\ wait' # "idle"
       /\ launcher = "failed" => launcher' = "failed"]_vars

\* A relay that is done has closed the pipe, and a release that is done has seen it to its
\* end; the watch waits for the launcher, and leaves one that failed only behind a stream or
\* a release that ended.
EndFacts ==
    /\ relay = "done" => pipe # "open"
    /\ release # "none" => launchCtx = "canceled"
    /\ release = "done" => relay = "done"
    /\ launcher = "running" => watch = "waiting"
    /\ launcher = "failed" /\ watch = "done" => stream = "ended" \/ release = "done"

\* Every step keeps them.
LEMMA StepKeepsEnd == IInv /\ EndFacts /\ [Next]_vars => EndFacts'
<1> SUFFICES ASSUME IInv, EndFacts, [Next]_vars PROVE EndFacts'
  OBVIOUS
<1> USE DEF EndFacts, payloadVars, openVars, relayVars, streamVars, watchVars, waitVars
<1>1. CASE Cancel \/ CancelReachesLaunch \/ PopupShows \/ PayloadExits
  BY <1>1 DEF Cancel, CancelReachesLaunch, PopupShows, PayloadExits
<1>2. CASE LauncherExits
  BY <1>2 DEF LauncherExits, IInv, TypeOK, WatchFacts
<1>3. CASE PayloadOpens \/ PayloadWrites
  BY <1>3 DEF PayloadOpens, PayloadWrites
<1>4. CASE RelayOpenFails \/ RelayAbandons \/ RelayStep
  BY <1>4 DEF RelayOpenFails, RelayAbandons, RelayStep, RelayOpens, RelayWakes, RelayEnds,
     RelayBreaks, CutPipe, RelayCut, ClosePipe, IInv, TypeOK
<1>5. CASE StreamStep \/ TakeResult
  BY <1>5 DEF TakeResult, StreamStep, Refill, Decode, DecodeFails, ReadFails, ReadEnds,
     AskLauncher, CloseStream, FinishStream, EndStream, StreamReturns
<1>6. CASE WatchStep
  BY <1>6 DEF WatchStep, LauncherReaped, WatchSeesEnd, GraceExpires, FinishWatch, WatchReleased
<1>7. CASE ReleaseStep \/ CallWait \/ WaitStep
  BY <1>7 DEF ReleaseStep, BeginRelease, EndRelease, CallWait, WaitStep, WaitEnded,
     WaitReleased, WaitReturns, IInv, TypeOK
<1>8. CASE UNCHANGED vars
  BY <1>8 DEF vars
<1>9. QED
  BY <1>1, <1>2, <1>3, <1>4, <1>5, <1>6, <1>7, <1>8 DEF Next

\* Once the launch's context is over, a stream that has not ended has a step to wait for:
\* its own, the caller's, or the relay's.
LEMMA StreamCanMove ==
    ASSUME IInv, EndFacts, launchCtx = "canceled", stream # "ended", ExchangePending
    PROVE  ExchangeCanMove
<1> USE DEF ExchangeCanMove
<1>1. CASE relay # "done" \/ stream # "decoding"
  BY <1>1 DEF IInv, TypeOK
<1>2. CASE relay = "done" /\ stream = "decoding"
  <2>1. pipe # "open" /\ handed <= relayed /\ handed <= sent
    BY <1>2 DEF EndFacts, IInv, TypeOK, StreamFacts
  <2>2. handed \in Nat /\ relayed \in Nat /\ sent \in Nat
    BY ValuesAssumption DEF IInv, TypeOK, Written
  <2>3. \/ handed < relayed /\ handed < sent
        \/ handed = sent /\ relayed > sent
        \/ handed = relayed
    BY <2>1, <2>2
  <2>4. QED
    BY <1>2, <2>1, <2>3
<1>3. QED
  BY <1>1, <1>2

\* A canceled exchange, and one whose launcher failed, never has nothing to wait for,
\* whatever the payload does, and although neither the payload nor the startup timeout is
\* counted on.
THEOREM ExchangeNeverStuck == Spec => []ExchangeCanMove
<1>1. Init => EndFacts
  BY DEF Init, EndFacts
<1>2. ASSUME IInv, EndFacts, ExchangePending
      PROVE  ExchangeCanMove
  <2>1. CASE launchCtx = "canceled" /\ stream # "ended"
    BY <1>2, <2>1, StreamCanMove
  <2>2. CASE launchCtx = "canceled" /\ stream = "ended"
    <3>1. canceled /\ wait \in {"ended", "releasing", "joining"}
      BY <1>2, <2>2 DEF ExchangePending, IInv, TypeOK
    <3>2. watch \in {"waiting", "grace", "expired", "releasing", "done"}
      BY <1>2 DEF IInv, TypeOK
    <3>3. QED
      BY <1>2, <2>2, <3>1, <3>2 DEF ExchangeCanMove, Releasable
  <2>3. CASE launchCtx = "live" /\ canceled
    BY <2>3 DEF ExchangeCanMove
  <2>4. CASE launchCtx = "live" /\ ~canceled
    <3>1. launcher = "failed" /\ stream # "ended" /\ release = "none"
      BY <1>2, <2>4 DEF ExchangePending, EndFacts
    <3>2. watch \in {"waiting", "grace", "expired", "releasing"}
      BY <1>2, <3>1 DEF EndFacts, IInv, TypeOK
    <3>3. QED
      BY <3>1, <3>2 DEF ExchangeCanMove, Releasable
  <2>5. QED
    BY <1>2, <2>1, <2>2, <2>3, <2>4 DEF IInv, TypeOK
<1>3. IInv /\ EndFacts => ExchangeCanMove
  BY <1>2 DEF ExchangeCanMove
<1>4. QED
  BY <1>1, <1>3, Invariance, StepKeepsEnd, PTL DEF Spec

\* The parts of the rank are numbers.
LEMMA RanksAreNat ==
    ASSUME IInv
    PROVE  /\ relayRank \in Nat /\ streamRank \in Nat
           /\ watchRank \in 0..4 /\ launchRank \in 0..4 /\ waitRank \in 0..4
<1>1. /\ sent \in 0..MaxValues /\ relayed \in 0..Written /\ handed \in 0..sent
      /\ Written \in 0..(MaxValues + 1) /\ MaxValues \in Nat
  BY ValuesAssumption DEF IInv, TypeOK, Written
<1>2. MaxValues + 1 - relayed \in Nat /\ MaxValues - handed \in Nat
  BY <1>1
<1>3. relayRank \in Nat
  BY <1>2 DEF relayRank
<1>4. streamRank \in Nat
  BY <1>2 DEF streamRank
<1>5. QED
  BY <1>3, <1>4 DEF watchRank, launchRank, waitRank

\* And stay numbers.
LEMMA RanksStayNat ==
    ASSUME IInv, [Next]_vars
    PROVE  /\ relayRank' \in Nat /\ streamRank' \in Nat
           /\ watchRank' \in 0..4 /\ launchRank' \in 0..4 /\ waitRank' \in 0..4
<1>1. IInv'
  BY NextHolds
<1>2. sent' \in 0..MaxValues /\ relayed' \in 0..Written' /\ handed' \in 0..sent'
  BY <1>1 DEF IInv, TypeOK
<1>3. MaxValues + 1 - relayed' \in Nat /\ MaxValues - handed' \in Nat
  <2>1. sent' \in Nat /\ sent' <= MaxValues /\ handed' \in Nat /\ handed' <= MaxValues
        /\ MaxValues \in Nat
    BY <1>2, ValuesAssumption
  <2>2. PICK n \in Nat, h \in Nat : n = sent' /\ h = handed'
    BY <2>1
  <2>3. n <= MaxValues /\ h <= MaxValues
    BY <2>1, <2>2, Zenon
  <2>4. Written' = n + 0 \/ Written' = n + 1
    BY <2>2, Zenon DEF Written
  <2>5. PICK w \in {n + 0, n + 1} : w = Written'
    BY <2>4, Zenon
  <2>6. PICK k \in 0..w : k = relayed'
    BY <1>2, <2>5, Zenon
  <2>7. w \in Nat /\ w <= MaxValues + 1
    BY <2>3, <2>5, ValuesAssumption
  <2>8. k \in Nat /\ k <= MaxValues + 1
    BY <2>6, <2>7, ValuesAssumption
  <2>9. MaxValues + 1 - k \in Nat /\ MaxValues - h \in Nat
    BY <2>3, <2>8, ValuesAssumption
  <2>10. QED
    BY <2>2, <2>6, <2>9, Zenon
<1>4. relayRank' \in Nat
  BY <1>3 DEF relayRank
<1>5. streamRank' \in Nat
  BY <1>3 DEF streamRank
<1>6. QED
  BY <1>4, <1>5 DEF watchRank, launchRank, waitRank

\* A step of the relay brings its part down, and no other.
LEMMA RelayDescends ==
    ASSUME IInv, RelayOpenFails \/ RelayAbandons \/ RelayStep \/ Refill
    PROVE  relayRank' < relayRank /\ UNCHANGED <<streamRank, watchRank, launchRank, waitRank>>
<1> USE DEF payloadVars, openVars, relayVars, streamVars, watchVars, waitVars
<1>1. relayed \in Nat /\ MaxValues + 1 - relayed \in Nat /\ MaxValues \in Nat
  <2>1. relayed \in 0..Written /\ Written \in 0..(MaxValues + 1) /\ MaxValues \in Nat
    BY ValuesAssumption DEF IInv, TypeOK, Written
  <2>2. QED
    BY <2>1
<1>2. UNCHANGED <<stream, handed, watch, launchCtx, launcher, release, wait>>
  BY DEF RelayOpenFails, RelayAbandons, RelayStep, RelayOpens, RelayWakes, RelayEnds, RelayBreaks,
     CutPipe, RelayCut, Refill
<1>3. ASSUME RelayOpens \/ RelayAbandons PROVE relayRank' < relayRank
  BY <1>1, <1>3 DEF RelayOpens, RelayAbandons, relayRank
<1>4. ASSUME RelayOpenFails \/ RelayWakes \/ RelayEnds \/ RelayBreaks \/ RelayCut
      PROVE  relayRank' < relayRank
  <2>1. /\ relay \in {"opening", "waking", "relaying"} /\ relay' = "done"
        /\ relayed' = relayed
        /\ pipe = "open" \/ pipe' = pipe
    BY <1>4 DEF RelayOpenFails, RelayWakes, RelayEnds, RelayBreaks, RelayCut, ClosePipe
  <2>2. QED
    BY <1>1, <2>1 DEF relayRank
<1>5. ASSUME CutPipe PROVE relayRank' < relayRank
  BY <1>1, <1>5 DEF CutPipe, relayRank
<1>6. ASSUME Refill PROVE relayRank' < relayRank
  <2>1. relayed' \in (relayed + 1)..Written /\ UNCHANGED <<relay, pipe>> /\ Written \in Nat
    BY <1>6, ValuesAssumption DEF Refill, IInv, TypeOK, Written
  <2>2. relayed' \in Nat /\ relayed' > relayed
    BY <1>1, <2>1
  <2>3. relayed' <= MaxValues + 1
    BY <1>6, <1>1, ValuesAssumption DEF Refill, IInv, TypeOK, Written
  <2> DEFINE n == (IF relay = "opening" THEN 2
                   ELSE IF relay \in {"waking", "relaying"} THEN 1 ELSE 0)
                    + (IF pipe = "open" THEN 1 ELSE 0)
  <2>4. PICK k \in Nat : k = relayed'
    BY <2>2
  <2>5. k > relayed /\ k <= MaxValues + 1
    BY <2>2, <2>3, <2>4, Zenon
  <2>6. n + (MaxValues + 1 - k) < n + (MaxValues + 1 - relayed)
    BY <1>1, <2>5
  <2>7. relayRank = n + (MaxValues + 1 - relayed)
    BY DEF relayRank
  <2>8. relayRank' = n + (MaxValues + 1 - relayed')
    BY <2>1, Zenon DEF relayRank
  <2>9. QED
    BY <2>4, <2>6, <2>7, <2>8, Zenon
<1>7. relayRank' < relayRank
  BY <1>3, <1>4, <1>5, <1>6 DEF RelayStep
<1>8. QED
  BY <1>2, <1>7 DEF streamRank, watchRank, launchRank, waitRank

\* And so does each other step of the stream, and the caller's taking a value.
LEMMA StreamDescends ==
    ASSUME IInv, (StreamStep /\ ~Refill) \/ TakeResult
    PROVE  streamRank' < streamRank /\ UNCHANGED <<relayRank, watchRank, launchRank, waitRank>>
<1> USE DEF payloadVars, openVars, relayVars, streamVars, watchVars, waitVars
<1>1. handed \in Nat /\ MaxValues - handed \in Nat /\ MaxValues \in Nat
  <2>1. handed \in 0..sent /\ sent \in 0..MaxValues /\ MaxValues \in Nat
    BY ValuesAssumption DEF IInv, TypeOK
  <2>2. QED
    BY <2>1
<1>2. UNCHANGED <<relay, pipe, relayed, watch, launchCtx, launcher, release, wait>>
  BY DEF StreamStep, TakeResult, Decode, DecodeFails, ReadFails, ReadEnds, AskLauncher,
     CloseStream, FinishStream, EndStream
<1>3. ASSUME TakeResult PROVE streamRank' < streamRank
  BY <1>1, <1>3 DEF TakeResult, streamRank
<1>4. ASSUME StreamStep /\ ~Refill PROVE streamRank' < streamRank
  <2>1. handed' = handed
    BY <1>4 DEF StreamStep, Decode, DecodeFails, ReadFails, ReadEnds, AskLauncher, CloseStream,
       FinishStream, EndStream
  <2>2. \/ stream = "decoding" /\ stream' \in {"handing", "asking", "closing"}
        \/ stream = "asking" /\ stream' = "closing"
        \/ stream = "closing" /\ stream' = "finishing"
        \/ stream = "finishing" /\ stream' = "ending"
        \/ stream = "ending" /\ stream' = "ended"
    BY <1>4 DEF StreamStep, Decode, DecodeFails, ReadFails, ReadEnds, AskLauncher, CloseStream,
       FinishStream, EndStream, StreamReturns
  <2>3. QED
    BY <1>1, <2>1, <2>2 DEF streamRank
<1>5. QED
  BY <1>2, <1>3, <1>4 DEF relayRank, watchRank, launchRank, waitRank

\* The watch's steps bring its part down, those of the launch's end theirs, and the caller's
\* Wait the last one.
LEMMA EndDescends ==
    ASSUME IInv, WatchStep \/ CancelReachesLaunch \/ LauncherExits \/ ReleaseStep
                   \/ CallWait \/ WaitStep
    PROVE  /\ UNCHANGED <<relayRank, streamRank>>
           /\ \/ watchRank' < watchRank /\ UNCHANGED <<launchRank, waitRank>>
              \/ launchRank' < launchRank /\ UNCHANGED <<watchRank, waitRank>>
              \/ waitRank' < waitRank /\ UNCHANGED <<watchRank, launchRank>>
<1> USE DEF payloadVars, openVars, relayVars, streamVars, watchVars, waitVars
<1>1. UNCHANGED <<relay, pipe, relayed, stream, handed>>
  BY DEF WatchStep, LauncherReaped, WatchSeesEnd, GraceExpires, FinishWatch, WatchReleased,
     CancelReachesLaunch, LauncherExits, ReleaseStep, BeginRelease, EndRelease, CallWait,
     WaitStep, WaitEnded, WaitReleased, WaitReturns
<1>2. ASSUME WatchStep
      PROVE  watchRank' < watchRank /\ UNCHANGED <<launchRank, waitRank>>
  <2>1. /\ UNCHANGED <<launchCtx, launcher, release, wait>>
        /\ \/ watch = "waiting" /\ watch' \in {"done", "grace"}
           \/ watch = "grace" /\ watch' \in {"done", "expired"}
           \/ watch = "expired" /\ watch' = "releasing"
           \/ watch = "releasing" /\ watch' = "done"
    BY <1>2 DEF WatchStep, LauncherReaped, WatchSeesEnd, GraceExpires, FinishWatch, WatchReleased
  <2>2. QED
    BY <2>1 DEF watchRank, launchRank, waitRank
<1>3. ASSUME CancelReachesLaunch \/ LauncherExits \/ ReleaseStep
      PROVE  launchRank' < launchRank /\ UNCHANGED <<watchRank, waitRank>>
  <2>1. /\ UNCHANGED <<watch, wait>>
        /\ \/ launchCtx = "live" /\ launchCtx' = "canceled" /\ UNCHANGED <<launcher, release>>
           \/ launcher = "running" /\ launcher' # "running" /\ UNCHANGED <<launchCtx, release>>
           \/ release = "none" /\ release' = "draining" /\ launchCtx' = "canceled"
                /\ UNCHANGED launcher
           \/ release = "draining" /\ release' = "done" /\ UNCHANGED <<launchCtx, launcher>>
    BY <1>3 DEF CancelReachesLaunch, LauncherExits, ReleaseStep, BeginRelease, EndRelease
  <2>2. launchRank' < launchRank
    BY <2>1 DEF launchRank
  <2>3. QED
    BY <2>1, <2>2 DEF watchRank, waitRank
<1>4. ASSUME CallWait \/ WaitStep
      PROVE  waitRank' < waitRank /\ UNCHANGED <<watchRank, launchRank>>
  <2>1. /\ UNCHANGED <<watch, launchCtx, launcher, release>>
        /\ \/ wait = "idle" /\ wait' = "ended"
           \/ wait = "ended" /\ wait' = "releasing"
           \/ wait = "releasing" /\ wait' = "joining"
           \/ wait = "joining" /\ wait' = "returned"
    BY <1>4 DEF CallWait, WaitStep, WaitEnded, WaitReleased, WaitReturns
  <2>2. QED
    BY <2>1 DEF waitRank, watchRank, launchRank
<1>5. UNCHANGED <<relayRank, streamRank>>
  BY <1>1 DEF relayRank, streamRank
<1>6. QED
  BY <1>2, <1>3, <1>4, <1>5

\* The rank is a number, every fair step brings it down, and nobody's step raises it: an
\* exchange takes no more fair steps than ExchangeRank counts at its start, whatever the
\* user, the payload and the caller do in between.
THEOREM ExchangeDescends == Spec => [](ExchangeRank \in Nat) /\ ExchangeGetsCloser
<1> USE DEF payloadVars, openVars, relayVars, streamVars, watchVars, waitVars
<1>1. ASSUME IInv
      PROVE  ExchangeRank \in Nat
  BY <1>1, RanksAreNat DEF ExchangeRank
<1>2. ASSUME IInv, Next,
             FairStep \/ RelayOpenFails \/ RelayAbandons \/ LauncherExits \/ CallWait
      PROVE  ExchangeRank' < ExchangeRank
  <2>1. /\ relayRank \in Nat /\ streamRank \in Nat /\ watchRank \in Nat
        /\ launchRank \in Nat /\ waitRank \in Nat
    BY <1>2, RanksAreNat
  <2>2. ASSUME RelayOpenFails \/ RelayAbandons \/ RelayStep \/ Refill
        PROVE  relayRank' < relayRank
                 /\ UNCHANGED <<streamRank, watchRank, launchRank, waitRank>>
    BY <1>2, <2>2, RelayDescends
  <2>3. ASSUME (StreamStep /\ ~Refill) \/ TakeResult
        PROVE  streamRank' < streamRank
                 /\ UNCHANGED <<relayRank, watchRank, launchRank, waitRank>>
    BY <1>2, <2>3, StreamDescends
  <2>4. ASSUME WatchStep \/ CancelReachesLaunch \/ LauncherExits \/ ReleaseStep
                 \/ CallWait \/ WaitStep
        PROVE  /\ UNCHANGED <<relayRank, streamRank>>
               /\ \/ watchRank' < watchRank /\ UNCHANGED <<launchRank, waitRank>>
                  \/ launchRank' < launchRank /\ UNCHANGED <<watchRank, waitRank>>
                  \/ waitRank' < waitRank /\ UNCHANGED <<watchRank, launchRank>>
    BY <1>2, <2>4, EndDescends
  <2>5. \/ relayRank' < relayRank /\ UNCHANGED <<streamRank, watchRank, launchRank, waitRank>>
        \/ streamRank' < streamRank /\ UNCHANGED <<relayRank, watchRank, launchRank, waitRank>>
        \/ /\ UNCHANGED <<relayRank, streamRank>>
           /\ \/ watchRank' < watchRank /\ UNCHANGED <<launchRank, waitRank>>
              \/ launchRank' < launchRank /\ UNCHANGED <<watchRank, waitRank>>
              \/ waitRank' < waitRank /\ UNCHANGED <<watchRank, launchRank>>
    BY <1>2, <2>2, <2>3, <2>4 DEF FairStep
  <2>6. PICK r \in Nat, s \in Nat, w \in Nat, l \in Nat, c \in Nat :
            r = relayRank' /\ s = streamRank' /\ w = watchRank' /\ l = launchRank' /\ c = waitRank'
    BY <1>2, RanksStayNat
  <2>7. \/ r < relayRank /\ s = streamRank /\ w = watchRank /\ l = launchRank /\ c = waitRank
        \/ r = relayRank /\ s < streamRank /\ w = watchRank /\ l = launchRank /\ c = waitRank
        \/ r = relayRank /\ s = streamRank /\ w < watchRank /\ l = launchRank /\ c = waitRank
        \/ r = relayRank /\ s = streamRank /\ w = watchRank /\ l < launchRank /\ c = waitRank
        \/ r = relayRank /\ s = streamRank /\ w = watchRank /\ l = launchRank /\ c < waitRank
    BY <2>5, <2>6, Zenon
  <2>8. r + s + w + l + c < relayRank + streamRank + watchRank + launchRank + waitRank
    BY <2>1, <2>7
  <2>9. QED
    BY <2>6, <2>8, Zenon DEF ExchangeRank
<1>3. ASSUME Cancel \/ PopupShows \/ PayloadOpens \/ PayloadWrites \/ PayloadExits
      PROVE  ExchangeRank' = ExchangeRank
  BY <1>3 DEF Cancel, PopupShows, PayloadOpens, PayloadWrites, PayloadExits, ExchangeRank, relayRank,
     streamRank, watchRank, launchRank, waitRank
<1>4. ASSUME IInv, Next
      PROVE  ExchangeRank' <= ExchangeRank
  <2>1. ExchangeRank' < ExchangeRank \/ ExchangeRank' = ExchangeRank
    BY <1>2, <1>3, <1>4 DEF Next, FairStep
  <2>2. ExchangeRank \in Nat /\ ExchangeRank' \in Nat
    BY <1>4, RanksAreNat, RanksStayNat DEF ExchangeRank
  <2>3. QED
    BY <2>1, <2>2
<1>5. ASSUME IInv, Next
      PROVE  /\ canceled /\ wait \notin {"idle", "returned"} => canceled' /\ wait' # "idle"
             /\ launcher = "failed" => launcher' = "failed"
  BY <1>5 DEF Next, RelayStep, StreamStep, WatchStep, ReleaseStep, WaitStep, Cancel,
     CancelReachesLaunch, PopupShows, LauncherExits, PayloadOpens, PayloadWrites, PayloadExits,
     RelayOpens, RelayOpenFails, RelayAbandons, RelayWakes, RelayEnds, RelayBreaks, CutPipe,
     RelayCut, Refill, Decode, TakeResult, DecodeFails, ReadFails, ReadEnds, AskLauncher, CloseStream, FinishStream, EndStream,
     LauncherReaped, WatchSeesEnd, GraceExpires, FinishWatch, WatchReleased, BeginRelease,
     EndRelease, CallWait, WaitEnded, WaitReleased, WaitReturns
<1>6. IInv /\ [Next]_vars =>
        [/\ ExchangeRank' <= ExchangeRank
         /\ FairStep => ExchangeRank' < ExchangeRank
         /\ canceled /\ wait \notin {"idle", "returned"} => canceled' /\ wait' # "idle"
         /\ launcher = "failed" => launcher' = "failed"]_vars
  BY <1>2, <1>4, <1>5, Zenon
<1>7. QED
  BY <1>1, <1>6, Invariance, PTL DEF Spec, ExchangeGetsCloser
==============================================================================
