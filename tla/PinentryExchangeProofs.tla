--------------------------- MODULE PinentryExchangeProofs ---------------------------
(***************************************************************************)
(* The safety of PinentryExchange, whether or not the workspace is kept.   *)
(*                                                                         *)
(* IInv is the inductive invariant.  It ties everybody to where Call is:   *)
(* which FIFO is held open and how far the shell in the popup has come     *)
(* (PopupFacts), who runs (ProcessFacts), and what the errors collected so *)
(* far say of pinentry, of the relay and of the dismissal (ErrFacts).      *)
(***************************************************************************)
EXTENDS PinentryExchange, Integers, TLAPS

Beginning == {"start", "input", "acquire"}
Handshake == {"openTTY", "readTTY", "startPinentry"}
Serving   == {"waitPinentry", "closeEnd", "joinRelay"}
Ending    == {"dismiss", "writeDone", "closeDone", "release", "closeInput", "freeWorkspace"}

PopupFacts ==
    /\ call \in Beginning => popup = "none"
    /\ call \in Handshake \cup Serving \cup {"writeDone", "closeDone", "release"}
            => popup # "none"
    /\ popup = "none" <=> watch = "none"
    /\ popup \in {"none", "coming"} => payload = "none"
    /\ popup = "gone" <=> payload = "exited"
    /\ "tty" \in hold <=> call = "readTTY"
    /\ "done" \in hold <=> call \in {"writeDone", "closeDone"}
    /\ payload = "reading" => call \notin Beginning \cup Handshake \cup Serving \cup {"dismiss"}
    /\ ttyData # "none" => payload \in {"announced", "atDone", "reading", "exited"}
    /\ call \in {"startPinentry"} \cup Serving
            => popup = "gone" \/ payload \in {"announced", "atDone"}
    /\ call \in {"closeInput", "freeWorkspace", "returned"}
            => watch \in {"none", "stopped", "dismissed"}

ProcessFacts ==
    /\ pinentry = "none" <=> relay = "none"
    /\ call \in Serving <=> (pinentry # "none" /\ call \notin Ending \cup {"returned"})
    /\ pinentry # "none" => popup # "none"
    /\ pinentry = "running" => call = "waitPinentry"
    /\ call \notin Serving => relay \in {"none", "done"}
    /\ rerr # "none" <=> relay = "done"
    /\ named \subseteq {"popup's"}
    /\ call = "start" => workspace = "none"

\* The errors of an exchange that is ending.
EndErr ==
    /\ pinentry = "none" => err # "nil"
    /\ pinentry = "failed" => err = "pinentry"
    /\ pinentry = "ok" /\ rerr \notin {"nil", "closed"} => err = "relay"
    /\ pinentry = "ok" /\ rerr \in {"nil", "closed"} =>
            IF derr = "failed" THEN err = "dismiss" ELSE err \in {"nil", "input"}

ErrFacts ==
    /\ call \in Beginning \cup Handshake \cup {"waitPinentry"} => err = "nil"
    /\ call \in {"closeEnd", "joinRelay"} =>
            err = (IF pinentry = "failed" THEN "pinentry" ELSE "nil")
    /\ call \in Beginning \cup Handshake \cup Serving \cup {"dismiss", "writeDone"}
            => derr = "none"
    /\ call \in {"closeDone", "release", "closeInput", "freeWorkspace"} /\ pinentry # "none"
            => derr # "none"
    /\ call \in Ending => EndErr
    /\ call \in Ending \ {"freeWorkspace"} => err # "input"

ReturnFacts ==
    call = "returned" =>
        /\ workspace # "open"
        /\ \/ verdict = "workspace" /\ pinentry = "none"
           \/ verdict = err /\ EndErr /\ (pinentry # "none" => derr # "none")

IInv ==
    /\ TypeOK
    /\ PopupFacts
    /\ ProcessFacts
    /\ ErrFacts
    /\ ReturnFacts

------------------------------------------------------------------------------
\* A call starts in the invariant.
LEMMA InitHolds == Init => IInv
<1> SUFFICES ASSUME Init PROVE IInv
  OBVIOUS
<1>1. TypeOK
  BY RetainsAssumption DEF Init, TypeOK, Exited
<1>2. PopupFacts /\ ProcessFacts
  BY DEF Init, PopupFacts, ProcessFacts, Beginning, Handshake, Serving, Ending
<1>3. ErrFacts /\ ReturnFacts
  BY DEF Init, ErrFacts, ReturnFacts, Beginning, Handshake, Serving, Ending
<1>4. QED
  BY <1>1, <1>2, <1>3 DEF IInv

\* Every action keeps the invariant.
LEMMA NextHolds == IInv /\ [Next]_vars => IInv'
<1> SUFFICES ASSUME IInv, [Next]_vars PROVE IInv'
  OBVIOUS
<1> USE DEF IInv, TypeOK, Exited, PopupFacts, ProcessFacts, ErrFacts, EndErr, ReturnFacts,
        Beginning, Handshake, Serving, Ending, popupVars, relayVars, endVars
<1>1. CASE RefuseCall
  BY <1>1 DEF RefuseCall
<1>2. CASE OpenWorkspace
  BY <1>2 DEF OpenWorkspace
<1>3. CASE NewAssuanInput
  BY <1>3 DEF NewAssuanInput
<1>4. CASE AcquireFails
  BY <1>4 DEF AcquireFails
<1>5. CASE ExecPopup
  BY <1>5 DEF ExecPopup
<1>6. CASE OpenTTY
  <2>1. CASE call' = "readTTY"
    <3>1. /\ call = "openTTY" /\ hold' = hold \cup {"tty"}
          /\ payload' = IF payload = "atTTY" THEN "announcing" ELSE payload
          /\ UNCHANGED <<retain, ctxDone, workspace, popup, ttyData, doneData, watch, pinentry,
                         stdin, relay, line, rerr, named, err, derr, verdict>>
      BY <1>6, <2>1 DEF OpenTTY
    <3>2. TypeOK' /\ PopupFacts'
      BY <2>1, <3>1
    <3>3. ProcessFacts' /\ ErrFacts' /\ ReturnFacts'
      BY <2>1, <3>1
    <3>4. QED
      BY <3>2, <3>3
  <2>2. CASE call' = "dismiss"
    <3>1. /\ call = "openTTY" /\ err' = "acquire"
          /\ UNCHANGED <<retain, ctxDone, workspace, hold, popup, payload, ttyData, doneData,
                         watch, pinentry, stdin, relay, line, rerr, named, derr, verdict>>
      BY <1>6, <2>2 DEF OpenTTY
    <3>2. TypeOK' /\ PopupFacts'
      BY <2>2, <3>1
    <3>3. ProcessFacts' /\ ErrFacts' /\ ReturnFacts'
      BY <2>2, <3>1
    <3>4. QED
      BY <3>2, <3>3
  <2>3. QED
    BY <1>6, <2>1, <2>2 DEF OpenTTY
<1>7. CASE ReadTTY
  BY <1>7 DEF ReadTTY
<1>8. CASE ReadDeadline
  BY <1>8 DEF ReadDeadline
<1>9. CASE StartPinentry
  BY <1>9 DEF StartPinentry
<1>10. CASE WaitPinentry
  BY <1>10 DEF WaitPinentry
<1>11. CASE CloseEnd
  BY <1>11 DEF CloseEnd
<1>12. CASE JoinRelay
  BY <1>12 DEF JoinRelay, Or, RelayFailure
<1>13. CASE SkipDismiss
  BY <1>13 DEF SkipDismiss
<1>14. CASE OpenDone
  <2>1. /\ call = "dismiss" /\ popup # "none"
        /\ UNCHANGED <<retain, ctxDone, workspace, popup, ttyData, doneData, watch, pinentry,
                       stdin, relay, line, rerr, named, verdict>>
    BY <1>14 DEF OpenDone
  <2>2. CASE /\ call' = "writeDone" /\ hold' = hold \cup {"done"} /\ UNCHANGED <<err, derr>>
             /\ payload' = IF payload = "atDone" THEN "reading" ELSE payload
    <3>1. hold' \in SUBSET {"tty", "done"}
      BY <2>2
    <3>2. TypeOK'
      BY <2>1, <2>2, <3>1
    <3>3. PopupFacts' /\ ProcessFacts' /\ ReturnFacts'
      BY <2>1, <2>2
    <3>4. ErrFacts'
      BY <2>1, <2>2
    <3>5. QED
      BY <3>2, <3>3, <3>4
  <2>3. CASE call' = "release" /\ DismissFailed /\ UNCHANGED <<hold, payload>>
    <3>1. derr' = "failed" /\ err' = IF err = "nil" THEN "dismiss" ELSE err
      BY <2>3 DEF DismissFailed, Or
    <3>2. TypeOK' /\ PopupFacts' /\ ProcessFacts' /\ ReturnFacts'
      BY <2>1, <2>3, <3>1
    <3>3. ErrFacts'
      BY <2>1, <2>3, <3>1
    <3>4. QED
      BY <3>2, <3>3
  <2>4. QED
    BY <1>14, <2>2, <2>3 DEF OpenDone
<1>15. CASE WriteDone
  <2>1. /\ call = "writeDone" /\ call' = "closeDone"
        /\ UNCHANGED <<retain, ctxDone, workspace, hold, popup, payload, ttyData, watch, pinentry,
                       stdin, relay, line, rerr, named, verdict>>
    BY <1>15 DEF WriteDone
  <2>2. \/ doneData' = TRUE /\ derr' = "nil" /\ err' = err
        \/ doneData' = doneData /\ derr' = "failed" /\ err' = IF err = "nil" THEN "dismiss" ELSE err
    BY <1>15 DEF WriteDone, DismissFailed, Or
  <2>3. doneData' \in BOOLEAN
    BY <2>2
  <2>4. TypeOK' /\ PopupFacts' /\ ProcessFacts' /\ ReturnFacts'
    BY <2>1, <2>2, <2>3
  <2>5. ErrFacts'
    BY <2>1, <2>2
  <2>6. QED
    BY <2>4, <2>5
<1>16. CASE CloseDone
  BY <1>16 DEF CloseDone
<1>17. CASE Release
  BY <1>17 DEF Release
<1>18. CASE CloseInput
  BY <1>18 DEF CloseInput, Or
<1>19. CASE FreeWorkspace
  BY <1>19 DEF FreeWorkspace
<1>20. CASE Expire
  BY <1>20 DEF Expire
<1>21. CASE WatchFires
  BY <1>21 DEF WatchFires
<1>22. CASE MuxDismisses
  BY <1>22 DEF MuxDismisses, PopupGoes
<1>23. CASE PopupShows
  <2>1. /\ popup = "coming"
        /\ UNCHANGED <<retain, call, ctxDone, workspace, hold, watch, pinentry, stdin, relay, line,
                       rerr, named, err, derr, verdict, ttyData, doneData>>
    BY <1>23 DEF PopupShows, popupUnchanged
  <2>2. \/ popup' = "up" /\ payload' = "started"
        \/ popup' = "gone" /\ payload' = "exited"
    BY <1>23 DEF PopupShows, PopupGoes
  <2>3. ttyData = "none"
    BY <2>1
  <2>4. call \notin {"startPinentry"} \cup Serving
    BY <2>1
  <2>5. TypeOK' /\ PopupFacts'
    BY <2>1, <2>2, <2>3, <2>4
  <2>6. ProcessFacts' /\ ErrFacts' /\ ReturnFacts'
    BY <2>1, <2>2
  <2>7. QED
    BY <2>5, <2>6
<1>24. CASE PayloadOpensTTY
  BY <1>24 DEF PayloadOpensTTY, PopupGoes, popupUnchanged
<1>25. CASE PayloadAnnounces
  BY <1>25 DEF PayloadAnnounces, PopupGoes, popupUnchanged
<1>26. CASE PayloadOpensDone
  BY <1>26 DEF PayloadOpensDone, PopupGoes, popupUnchanged
<1>27. CASE PayloadReads
  <2>1. /\ payload = "reading" /\ popup' = "gone" /\ payload' = "exited" /\ doneData' = FALSE
        /\ UNCHANGED <<retain, call, ctxDone, workspace, hold, watch, pinentry, stdin, relay, line,
                       rerr, named, err, derr, verdict, ttyData>>
    BY <1>27 DEF PayloadReads, PopupGoes, popupUnchanged
  <2>2. doneData' \in BOOLEAN
    BY <2>1
  <2>3. TypeOK'
    BY <2>1, <2>2
  <2>4. PopupFacts' /\ ProcessFacts' /\ ErrFacts' /\ ReturnFacts'
    BY <2>1
  <2>5. QED
    BY <2>3, <2>4
<1>28. CASE UserCloses
  BY <1>28 DEF UserCloses, PopupGoes, popupUnchanged
<1>29. CASE PinentryExits
  BY <1>29 DEF PinentryExits, processUnchanged
<1>30. CASE PinentryInterrupted
  BY <1>30 DEF PinentryInterrupted, processUnchanged
<1>31. CASE RelayScans
  BY <1>31 DEF RelayScans, processUnchanged
<1>32. CASE RelayWrites
  BY <1>32 DEF RelayWrites, Rewritten, processUnchanged
<1>33. CASE RelayEnds
  BY <1>33 DEF RelayEnds, RelayReturns, processUnchanged
<1>34. CASE RelayBreaks
  BY <1>34 DEF RelayBreaks, RelayReturns, processUnchanged
<1>35. CASE RelayStops
  BY <1>35 DEF RelayStops, RelayReturns, processUnchanged
<1>36. CASE StdinFails
  BY <1>36 DEF StdinFails, processUnchanged
<1>37. CASE UNCHANGED vars
  BY <1>37 DEF vars
<1>38. QED
  BY <1>1, <1>2, <1>3, <1>4, <1>5, <1>6, <1>7, <1>8, <1>9, <1>10, <1>11, <1>12,
     <1>13, <1>14, <1>15, <1>16, <1>17, <1>18, <1>19, <1>20, <1>21, <1>22, <1>23,
     <1>24, <1>25, <1>26, <1>27, <1>28, <1>29, <1>30, <1>31, <1>32, <1>33, <1>34,
     <1>35, <1>36, <1>37
  DEF Next, CallStep, PayloadStep, RelayStep

\* IInv holds in every state of every exchange.
LEMMA Invariance == Spec => []IInv
<1>1. QED
  BY InitHolds, NextHolds, PTL DEF Spec

\* Every variable of the exchange has its type.
THEOREM TypesHold == Spec => []TypeOK
<1>1. IInv => TypeOK
  BY DEF IInv
<1>2. QED
  BY <1>1, Invariance, PTL

\* Pinentry draws on the popup's terminal, which its shell has announced and not let go.
THEOREM TerminalHeld == Spec => []TerminalHeldForPinentry
<1>1. IInv => TerminalHeldForPinentry
  BY DEF IInv, PopupFacts, ProcessFacts, TerminalHeldForPinentry, Serving
<1>2. QED
  BY <1>1, Invariance, PTL

\* Call's verdict is pinentry's, and a clean one means a clean teardown as well.
THEOREM VerdictHolds == Spec => []VerdictIsPinentrys
<1>1. IInv => VerdictIsPinentrys
  BY DEF IInv, TypeOK, ReturnFacts, EndErr, ProcessFacts, VerdictIsPinentrys, Exited
<1>2. QED
  BY <1>1, Invariance, PTL

\* A returned Call has reaped, closed, stopped and given back everything it took.
THEOREM SettledHolds == Spec => []SettledOnReturn
<1>1. IInv => SettledOnReturn
  BY DEF IInv, TypeOK, ReturnFacts, PopupFacts, ProcessFacts, SettledOnReturn, Serving
<1>2. QED
  BY <1>1, Invariance, PTL

------------------------------------------------------------------------------
(* The launch of the popup implements LaunchRun. *)

\* A step that leaves the context, the popup's existence, its dismissal and its release
\* alone is none of the run's.
LEMMA RunStutters ==
    ASSUME UNCHANGED <<ctxDone, watch, ReleasedPopup>>,
           popup = "none" <=> popup' = "none"
    PROVE  UNCHANGED Run!runVars
  BY DEF Run!runVars

\* Each step of an exchange is a step of its popup's launch, or none.
LEMMA RunStep ==
    ASSUME IInv, [Next]_vars
    PROVE  Run!RunNext \/ UNCHANGED Run!runVars
<1> USE DEF popupVars, relayVars, endVars, ReleasedPopup
<1>1. CASE RefuseCall
  <2>1. popup = "none" /\ popup' = "none" /\ watch' = watch /\ ctxDone'
    BY <1>1 DEF RefuseCall, IInv, PopupFacts, Beginning
  <2>2. Run!Ask
    BY <2>1 DEF Run!Ask
  <2>3. QED
    BY <2>2 DEF Run!RunNext
<1>2. CASE Expire
  <2>1. Run!Ask
    BY <1>2 DEF Expire, Run!Ask
  <2>2. QED
    BY <2>1 DEF Run!RunNext
<1>3. CASE FreeWorkspace
  <2>1. Run!Ask
    BY <1>3 DEF FreeWorkspace, Run!Ask
  <2>2. QED
    BY <2>1 DEF Run!RunNext
<1>4. CASE ExecPopup
  <2>1. popup = "none" /\ watch = "none" /\ popup' = "coming" /\ watch' = "armed"
    BY <1>4 DEF ExecPopup, IInv, PopupFacts, Beginning
  <2>2. Run!Start({})
    BY <1>4, <2>1 DEF ExecPopup, Run!Start
  <2>3. QED
    BY <2>2 DEF Run!RunNext
<1>5. CASE WatchFires
  <2>1. popup # "none" /\ ~ReleasedPopup
    BY <1>5 DEF WatchFires, IInv, PopupFacts
  <2>2. Run!Dismiss
    BY <1>5, <2>1 DEF WatchFires, Run!Dismiss
  <2>3. QED
    BY <2>2 DEF Run!RunNext
<1>6. CASE MuxDismisses
  <2>1. popup # "none" /\ popup' # "none"
    BY <1>6 DEF MuxDismisses, PopupGoes, IInv, PopupFacts
  <2>2. Run!Dismissed
    BY <1>6, <2>1 DEF MuxDismisses, Run!Dismissed
  <2>3. QED
    BY <2>2 DEF Run!RunNext
<1>7. CASE Release
  <2>1. popup # "none"
    BY <1>7 DEF Release, IInv, PopupFacts
  <2>2. Run!BeginRelease
    BY <1>7, <2>1 DEF Release, Run!BeginRelease
  <2>3. QED
    BY <2>2 DEF Run!RunNext
<1>8. CASE OpenWorkspace \/ NewAssuanInput \/ AcquireFails \/ SkipDismiss
  <2>1. popup = "none" /\ UNCHANGED <<ctxDone, watch, popup>>
    BY <1>8 DEF OpenWorkspace, NewAssuanInput, AcquireFails, SkipDismiss, IInv, PopupFacts,
       Beginning
  <2>2. QED
    BY <2>1, RunStutters
<1>9. CASE OpenTTY \/ ReadTTY \/ ReadDeadline \/ StartPinentry \/ WaitPinentry \/ CloseEnd
           \/ JoinRelay \/ OpenDone \/ WriteDone \/ CloseDone \/ CloseInput
  <2>1. /\ UNCHANGED <<ctxDone, watch, popup>>
        /\ (call \in {"closeInput", "freeWorkspace", "returned"}
            <=> call' \in {"closeInput", "freeWorkspace", "returned"})
    BY <1>9 DEF OpenTTY, ReadTTY, ReadDeadline, StartPinentry, WaitPinentry, CloseEnd,
       JoinRelay, OpenDone, WriteDone, CloseDone, CloseInput
  <2>2. QED
    BY <2>1, RunStutters
<1>10. CASE PayloadStep \/ UserCloses
  <2>1. UNCHANGED <<call, ctxDone, watch>> /\ (popup = "none" <=> popup' = "none")
    BY <1>10 DEF PayloadStep, PopupShows, PayloadOpensTTY, PayloadAnnounces, PayloadOpensDone,
       PayloadReads, UserCloses, PopupGoes, popupUnchanged, IInv, PopupFacts
  <2>2. QED
    BY <2>1, RunStutters
<1>11. CASE PinentryExits \/ PinentryInterrupted \/ RelayScans \/ RelayWrites \/ RelayEnds
            \/ RelayStep \/ StdinFails
  <2>1. UNCHANGED <<call, ctxDone, watch, popup>>
    BY <1>11 DEF PinentryExits, PinentryInterrupted, RelayScans, RelayWrites, RelayEnds,
       RelayStep, RelayBreaks, RelayStops, StdinFails, processUnchanged
  <2>2. QED
    BY <2>1, RunStutters
<1>12. CASE UNCHANGED vars
  BY <1>12, RunStutters DEF vars
<1>13. QED
  BY <1>1, <1>2, <1>3, <1>4, <1>5, <1>6, <1>7, <1>8, <1>9, <1>10, <1>11, <1>12
  DEF Next, CallStep

\* The popup's launch is ended as LaunchRun has it: dismissed only when the context is
\* done, and given back only once that dismissal is over.
THEOREM RunKept == Spec => KeepsRun
<1>1. Init => Run!RunInit
  BY DEF Init, Run!RunInit, ReleasedPopup
<1>2. IInv /\ [Next]_vars => [Run!RunNext]_(Run!runVars)
  BY RunStep
<1>3. QED
  BY <1>1, <1>2, Invariance, PTL DEF Spec, KeepsRun, Run!RunSpec

------------------------------------------------------------------------------
(* Why a call ends: what CanceledCallReturns and CallEndsWithPinentry rest  *)
(* on.  A call that is to end always has the guard of a fair step to wait   *)
(* for (CallCanMove); each of those steps brings CallRank down, and nobody's *)
(* step raises it (CallGetsCloser), gpg-agent's next line included.         *)

CallPending == call # "returned" /\ (ctxDone \/ pinentry \in Exited)

CallCanMove ==
    /\ CallPending =>
        \/ call \notin {"waitPinentry", "joinRelay", "release"}
        \/ call = "waitPinentry" /\ pinentry \in Exited
        \/ pinentry = "running" /\ ctxDone
        \/ call = "joinRelay" /\ relay = "done"
        \/ relay = "reading" /\ (stdin \in {"closed", "failed"} \/ ctxDone)
        \/ relay = "writing" /\ pinentry \in Exited
        \/ call = "release" /\ watch = "armed" /\ ~ctxDone
        \/ call = "release" /\ watch = "dismissed"
        \/ ctxDone /\ watch = "armed"
        \/ watch = "dismissing"
    /\ payload = "reading" => doneData \/ "done" \notin hold \/ call \in {"writeDone", "closeDone"}

callRank ==
    IF call = "start" THEN 15 ELSE IF call = "input" THEN 14 ELSE IF call = "acquire" THEN 13
    ELSE IF call = "openTTY" THEN 12 ELSE IF call = "readTTY" THEN 11
    ELSE IF call = "startPinentry" THEN 10 ELSE IF call = "waitPinentry" THEN 9
    ELSE IF call = "closeEnd" THEN 8 ELSE IF call = "joinRelay" THEN 7
    ELSE IF call = "dismiss" THEN 6 ELSE IF call = "writeDone" THEN 5
    ELSE IF call = "closeDone" THEN 4 ELSE IF call = "release" THEN 3
    ELSE IF call = "closeInput" THEN 2 ELSE IF call = "freeWorkspace" THEN 1 ELSE 0
shellRank ==
    IF payload = "none" THEN 7 ELSE IF payload = "started" THEN 6 ELSE IF payload = "atTTY" THEN 5
    ELSE IF payload = "announcing" THEN 4 ELSE IF payload = "announced" THEN 3
    ELSE IF payload = "atDone" THEN 2 ELSE IF payload = "reading" THEN 1 ELSE 0
watchRank == IF watch \in {"none", "armed"} THEN 2 ELSE IF watch = "dismissing" THEN 1 ELSE 0
processRank ==
    (IF pinentry \in Exited THEN 0 ELSE 1) + (IF relay = "done" THEN 0 ELSE 1)

CallRank == callRank + shellRank + watchRank + processRank

\* The steps of Fairness.
FairStep ==
    CallStep \/ WatchFires \/ MuxDismisses \/ PayloadStep \/ PinentryInterrupted \/ RelayStep

CallGetsCloser ==
    [][/\ CallRank' <= CallRank
       /\ FairStep => CallRank' < CallRank
       /\ ctxDone => ctxDone'
       /\ pinentry \in Exited => pinentry' = pinentry]_vars

\* The relay is waited for only once its input was closed or had failed, and the watch is
\* stopped by the release alone.
EndFacts ==
    /\ call \in {"acquire"} \cup Handshake \cup Serving => stdin # "none"
    /\ call = "joinRelay" => stdin # "open"
    /\ watch = "stopped" => call \in {"closeInput", "freeWorkspace", "returned"}

\* Every step keeps them.
LEMMA StepKeepsEnd == IInv /\ EndFacts /\ [Next]_vars => EndFacts'
<1> SUFFICES ASSUME IInv, EndFacts, [Next]_vars PROVE EndFacts'
  OBVIOUS
<1> USE DEF EndFacts, Handshake, Serving, popupVars, relayVars, endVars
<1>1. CASE RefuseCall \/ OpenWorkspace \/ NewAssuanInput \/ AcquireFails
  BY <1>1 DEF RefuseCall, OpenWorkspace, NewAssuanInput, AcquireFails
<1>2. CASE ExecPopup \/ OpenTTY \/ ReadTTY \/ ReadDeadline \/ StartPinentry
  BY <1>2 DEF ExecPopup, OpenTTY, ReadTTY, ReadDeadline, StartPinentry
<1>3. CASE WaitPinentry \/ CloseEnd \/ JoinRelay \/ SkipDismiss
  BY <1>3 DEF WaitPinentry, CloseEnd, JoinRelay, SkipDismiss
<1>4. CASE OpenDone \/ WriteDone \/ CloseDone
  BY <1>4 DEF OpenDone, WriteDone, CloseDone
<1>5. CASE Release \/ CloseInput \/ FreeWorkspace
  BY <1>5 DEF Release, CloseInput, FreeWorkspace
<1>6. CASE Expire \/ WatchFires \/ MuxDismisses
  BY <1>6 DEF Expire, WatchFires, MuxDismisses
<1>7. CASE PayloadStep \/ UserCloses
  BY <1>7 DEF PayloadStep, PopupShows, PayloadOpensTTY, PayloadAnnounces, PayloadOpensDone,
     PayloadReads, UserCloses, popupUnchanged
<1>8. CASE PinentryExits \/ PinentryInterrupted \/ RelayScans \/ RelayWrites \/ RelayEnds
           \/ RelayStep \/ StdinFails
  BY <1>8 DEF PinentryExits, PinentryInterrupted, RelayScans, RelayWrites, RelayEnds,
     RelayStep, RelayBreaks, RelayStops, StdinFails, processUnchanged
<1>9. CASE UNCHANGED vars
  BY <1>9 DEF vars
<1>10. QED
  BY <1>1, <1>2, <1>3, <1>4, <1>5, <1>6, <1>7, <1>8, <1>9 DEF Next, CallStep

\* A call whose context is done, and one whose pinentry has exited, never have nothing to
\* wait for, although gpg-agent may hold its end of the input open and the popup may never
\* come; nor has a shell that has reached its read of the dismissal.
THEOREM CallNeverStuck == Spec => []CallCanMove
<1>1. Init => EndFacts
  BY DEF Init, EndFacts, Handshake, Serving
<1>2. ASSUME IInv, EndFacts, CallPending, call = "waitPinentry"
      PROVE  CallCanMove
  BY <1>2 DEF CallCanMove, CallPending, IInv, TypeOK, PopupFacts, ProcessFacts, Serving
<1>3. ASSUME IInv, EndFacts, CallPending, call = "joinRelay"
      PROVE  CallCanMove
  <2>1. pinentry \in Exited /\ relay \in {"reading", "writing", "done"}
    BY <1>3 DEF IInv, TypeOK, ProcessFacts, Serving, Exited
  <2>2. stdin \in {"closed", "failed"}
    BY <1>3 DEF IInv, TypeOK, EndFacts, Serving
  <2>3. QED
    BY <1>3, <2>1, <2>2 DEF CallCanMove, IInv, PopupFacts, Serving
<1>4. ASSUME IInv, EndFacts, CallPending, call = "release"
      PROVE  CallCanMove
  <2>1. watch \in {"armed", "dismissing", "dismissed"}
    BY <1>4 DEF IInv, TypeOK, PopupFacts, EndFacts
  <2>2. QED
    BY <1>4, <2>1 DEF CallCanMove, IInv, TypeOK, PopupFacts
<1>5. IInv /\ EndFacts => CallCanMove
  BY <1>2, <1>3, <1>4 DEF CallCanMove, IInv, PopupFacts
<1>6. QED
  BY <1>1, <1>5, Invariance, StepKeepsEnd, PTL DEF Spec

\* Every step of Call lowers its own part, and raises none.
LEMMA CallStepDescends ==
    ASSUME IInv, EndFacts, CallStep
    PROVE  /\ callRank' < callRank
           /\ shellRank' <= shellRank /\ watchRank' <= watchRank /\ processRank' <= processRank
<1> USE DEF popupVars, relayVars, endVars
<1>1. callRank' < callRank
  BY DEF CallStep, RefuseCall, OpenWorkspace, NewAssuanInput, AcquireFails, ExecPopup, OpenTTY,
     ReadTTY, ReadDeadline, StartPinentry, WaitPinentry, CloseEnd, JoinRelay, SkipDismiss,
     OpenDone, WriteDone, CloseDone, Release, CloseInput, FreeWorkspace, callRank
<1>2. /\ \/ payload' = payload
         \/ payload = "atTTY" /\ payload' = "announcing"
         \/ payload = "atDone" /\ payload' = "reading"
      /\ \/ watch' = watch
         \/ watch = "none" /\ watch' = "armed"
         \/ watch = "armed" /\ watch' = "stopped"
      /\ \/ UNCHANGED <<pinentry, relay>>
         \/ pinentry = "none" /\ relay = "none" /\ pinentry' = "running" /\ relay' = "reading"
  BY DEF CallStep, RefuseCall, OpenWorkspace, NewAssuanInput, AcquireFails, ExecPopup, OpenTTY,
     ReadTTY, ReadDeadline, StartPinentry, WaitPinentry, CloseEnd, JoinRelay, SkipDismiss,
     OpenDone, WriteDone, CloseDone, Release, CloseInput, FreeWorkspace, IInv, PopupFacts,
     ProcessFacts, Beginning, Serving, Ending
<1>3. shellRank' <= shellRank /\ watchRank' <= watchRank
  BY <1>2 DEF shellRank, watchRank
<1>4. processRank' <= processRank
  BY <1>2 DEF processRank, Exited
<1>5. QED
  BY <1>1, <1>3, <1>4

\* Every step of the dismissal, of the shell and of its user lowers their parts.
LEMMA PopupDescends ==
    ASSUME IInv, WatchFires \/ MuxDismisses \/ PayloadStep \/ UserCloses
    PROVE  /\ UNCHANGED <<callRank, processRank>>
           /\ \/ shellRank' <= shellRank /\ watchRank' < watchRank
              \/ shellRank' < shellRank /\ watchRank' = watchRank
<1> USE DEF popupVars, relayVars, endVars, popupUnchanged
<1>1. UNCHANGED <<call, pinentry, relay>>
  BY DEF WatchFires, MuxDismisses, PayloadStep, PopupShows, PayloadOpensTTY, PayloadAnnounces,
     PayloadOpensDone, PayloadReads, UserCloses
<1>2. UNCHANGED <<callRank, processRank>>
  BY <1>1 DEF callRank, processRank
<1>3. ASSUME WatchFires \/ MuxDismisses
      PROVE  shellRank' <= shellRank /\ watchRank' < watchRank
  <2>1. \/ watch = "armed" /\ watch' = "dismissing"
        \/ watch = "dismissing" /\ watch' = "dismissed"
    BY <1>3 DEF WatchFires, MuxDismisses
  <2>2. payload' \in {payload, "exited"}
    BY <1>3 DEF WatchFires, MuxDismisses, PopupGoes
  <2>3. QED
    BY <2>1, <2>2 DEF shellRank, watchRank
<1>4. ASSUME PayloadStep \/ UserCloses
      PROVE  shellRank' < shellRank /\ watchRank' = watchRank
  <2>1. watch' = watch
    BY <1>4 DEF PayloadStep, PopupShows, PayloadOpensTTY, PayloadAnnounces, PayloadOpensDone,
       PayloadReads, UserCloses
  <2>2. \/ payload = "none" /\ payload' \in {"started", "exited"}
        \/ payload = "started" /\ payload' \in {"atTTY", "announcing", "exited"}
        \/ payload = "announcing" /\ payload' \in {"announced", "exited"}
        \/ payload = "announced" /\ payload' \in {"atDone", "reading", "exited"}
        \/ payload # "exited" /\ payload' = "exited"
    BY <1>4 DEF PayloadStep, PopupShows, PayloadOpensTTY, PayloadAnnounces, PayloadOpensDone,
       PayloadReads, UserCloses, PopupGoes, IInv, PopupFacts
  <2>3. payload \in {"none", "started", "atTTY", "announcing", "announced", "atDone", "reading",
                     "exited"}
    BY DEF IInv, TypeOK
  <2>4. QED
    BY <2>1, <2>2, <2>3 DEF shellRank, watchRank
<1>5. QED
  BY <1>2, <1>3, <1>4

\* Pinentry ending and the relay ending lower theirs; a line scanned or written does not
\* touch it.
LEMMA ProcessDescends ==
    ASSUME IInv,
           PinentryExits \/ PinentryInterrupted \/ RelayScans \/ RelayWrites \/ RelayEnds
             \/ RelayStep \/ StdinFails
    PROVE  /\ UNCHANGED <<callRank, shellRank, watchRank>>
           /\ processRank' <= processRank
           /\ PinentryInterrupted \/ RelayStep => processRank' < processRank
<1> USE DEF popupVars, relayVars, endVars, processUnchanged
<1>1. UNCHANGED <<call, payload, watch>>
  BY DEF PinentryExits, PinentryInterrupted, RelayScans, RelayWrites, RelayEnds, RelayStep,
     RelayBreaks, RelayStops, StdinFails
<1>2. UNCHANGED <<callRank, shellRank, watchRank>>
  BY <1>1 DEF callRank, shellRank, watchRank
<1>3. \/ UNCHANGED <<pinentry, relay>>
      \/ pinentry = "running" /\ pinentry' \in Exited /\ relay' = relay
      \/ relay \in {"reading", "writing"} /\ relay' \in {"reading", "writing", "done"}
           /\ pinentry' = pinentry
  BY DEF PinentryExits, PinentryInterrupted, RelayScans, RelayWrites, RelayEnds, RelayStep,
     RelayBreaks, RelayStops, RelayReturns, StdinFails, Exited
<1>4. processRank' <= processRank
  BY <1>3 DEF processRank, Exited
<1>5. ASSUME PinentryInterrupted \/ RelayStep
      PROVE  processRank' < processRank
  <2>1. \/ pinentry = "running" /\ pinentry' = "failed" /\ relay' = relay
        \/ relay # "done" /\ relay' = "done" /\ pinentry' = pinentry
    BY <1>5 DEF PinentryInterrupted, RelayStep, RelayBreaks, RelayStops, RelayReturns
  <2>2. QED
    BY <2>1 DEF processRank, Exited
<1>6. QED
  BY <1>2, <1>4, <1>5

\* Nobody's step raises the rank and every fair one brings it down: a call takes no more of
\* them than it counts at its start, however many lines gpg-agent sends.
THEOREM CallDescends == Spec => [](CallRank \in Nat) /\ CallGetsCloser
<1> DEFINE Parts == /\ callRank \in 0..15 /\ shellRank \in 0..7
                    /\ watchRank \in 0..2 /\ processRank \in 0..2
<1>1. Parts
  BY DEF callRank, shellRank, watchRank, processRank
<1>2. CallRank \in Nat
  BY <1>1 DEF CallRank
<1>3. /\ callRank' \in 0..15 /\ shellRank' \in 0..7
      /\ watchRank' \in 0..2 /\ processRank' \in 0..2
  BY DEF callRank, shellRank, watchRank, processRank
<1>4. ASSUME IInv, EndFacts, Next
      PROVE  /\ CallRank' <= CallRank
             /\ FairStep => CallRank' < CallRank
  <2>1. PICK c \in 0..15, s \in 0..7, w \in 0..2, p \in 0..2 :
            c = callRank' /\ s = shellRank' /\ w = watchRank' /\ p = processRank'
    BY <1>3
  <2>2. ASSUME CallStep
        PROVE  c < callRank /\ s <= shellRank /\ w <= watchRank /\ p <= processRank
    BY <1>4, <2>1, <2>2, CallStepDescends, Zenon
  <2>3. ASSUME WatchFires \/ MuxDismisses \/ PayloadStep \/ UserCloses
        PROVE  /\ c = callRank /\ p = processRank
               /\ \/ s <= shellRank /\ w < watchRank
                  \/ s < shellRank /\ w = watchRank
    BY <1>4, <2>1, <2>3, PopupDescends, Zenon
  <2>4. ASSUME PinentryExits \/ PinentryInterrupted \/ RelayScans \/ RelayWrites \/ RelayEnds
                 \/ RelayStep \/ StdinFails
        PROVE  /\ c = callRank /\ s = shellRank /\ w = watchRank /\ p <= processRank
               /\ PinentryInterrupted \/ RelayStep => p < processRank
    BY <1>4, <2>1, <2>4, ProcessDescends, Zenon
  <2>5. ASSUME Expire
        PROVE  c = callRank /\ s = shellRank /\ w = watchRank /\ p = processRank
    <3>1. UNCHANGED <<call, payload, watch, pinentry, relay>>
      BY <2>5 DEF Expire, popupVars, relayVars
    <3>2. UNCHANGED <<callRank, shellRank, watchRank, processRank>>
      BY <3>1 DEF callRank, shellRank, watchRank, processRank
    <3>3. QED
      BY <2>1, <3>2, Zenon
  <2>6. c + s + w + p <= callRank + shellRank + watchRank + processRank
    BY <1>1, <1>4, <2>2, <2>3, <2>4, <2>5 DEF Next
  <2>7. FairStep => c + s + w + p < callRank + shellRank + watchRank + processRank
    BY <1>1, <2>2, <2>3, <2>4 DEF FairStep
  <2>8. QED
    BY <2>1, <2>6, <2>7, Zenon DEF CallRank
<1>5. ASSUME IInv, Next
      PROVE  /\ ctxDone => ctxDone'
             /\ pinentry \in Exited => pinentry' = pinentry
  <2> USE DEF popupVars, relayVars, endVars
  <2>1. CASE CallStep
    BY <1>5, <2>1 DEF CallStep, RefuseCall, OpenWorkspace, NewAssuanInput, AcquireFails,
       ExecPopup, OpenTTY, ReadTTY, ReadDeadline, StartPinentry, WaitPinentry, CloseEnd,
       JoinRelay, SkipDismiss, OpenDone, WriteDone, CloseDone, Release, CloseInput,
       FreeWorkspace, IInv, ProcessFacts, Serving, Ending, Exited
  <2>2. CASE Expire \/ WatchFires \/ MuxDismisses \/ PayloadStep \/ UserCloses
    BY <2>2 DEF Expire, WatchFires, MuxDismisses, PayloadStep, PopupShows, PayloadOpensTTY,
       PayloadAnnounces, PayloadOpensDone, PayloadReads, UserCloses, popupUnchanged
  <2>3. CASE PinentryExits \/ PinentryInterrupted \/ RelayScans \/ RelayWrites \/ RelayEnds
             \/ RelayStep \/ StdinFails
    BY <2>3 DEF PinentryExits, PinentryInterrupted, RelayScans, RelayWrites, RelayEnds,
       RelayStep, RelayBreaks, RelayStops, StdinFails, processUnchanged, Exited
  <2>4. QED
    BY <1>5, <2>1, <2>2, <2>3 DEF Next
<1>6. IInv /\ EndFacts /\ [Next]_vars =>
        [/\ CallRank' <= CallRank
         /\ FairStep => CallRank' < CallRank
         /\ ctxDone => ctxDone'
         /\ pinentry \in Exited => pinentry' = pinentry]_vars
  BY <1>4, <1>5, Zenon
<1>7. Init => EndFacts
  BY DEF Init, EndFacts, Handshake, Serving
<1>8. QED
  BY <1>2, <1>6, <1>7, Invariance, StepKeepsEnd, PTL DEF Spec, CallGetsCloser
==============================================================================
