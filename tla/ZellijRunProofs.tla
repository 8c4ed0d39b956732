---------------------------- MODULE ZellijRunProofs ----------------------------
(***************************************************************************)
(* The safety of ZellijRun, however long the environment and however small *)
(* the FIFO.                                                               *)
(*                                                                         *)
(* IInv is the inductive invariant: what the delivery returned is what it  *)
(* wrote (DeliveryFacts), the payload runs on what was written             *)
(* (ShellFacts), and a wait that is past Launcher.Wait has joined the      *)
(* delivery and holds its error (WaitFacts).                               *)
(***************************************************************************)
EXTENDS ZellijRun, TLAPS

Joined == wait \in {"release", "undo", "returned"} /\ werr # "none"

DeliveryFacts ==
    /\ derr # "none" <=> deliver = "done"
    /\ derr = "nil" => wrote = Lines

ShellFacts == shell = "payload" => deliver = "done" /\ sourced = wrote

WaitFacts ==
    /\ start # "launched" => deliver = "none" /\ wait = "idle"
    /\ wait \in {"idle", "launcher"} => werr = "none"
    /\ wait = "env" => werr # "none"
    /\ Joined => deliver = "done"
    /\ Joined /\ werr = "nil" => derr = "nil"
    /\ dir = "removed" => start = "failed" \/ wait = "returned"

IInv ==
    /\ TypeOK
    /\ DeliveryFacts
    /\ ShellFacts
    /\ WaitFacts

------------------------------------------------------------------------------
\* A launch starts in the invariant.
LEMMA InitHolds == Init => IInv
<1> SUFFICES ASSUME Init PROVE IInv
  OBVIOUS
<1>1. wrote \in 0..Lines /\ sourced \in 0..wrote
  BY ScriptAssumption DEF Init
<1>2. TypeOK
  BY <1>1 DEF Init, TypeOK
<1>3. QED
  BY <1>2 DEF Init, IInv, DeliveryFacts, ShellFacts, WaitFacts, Joined

\* Every action keeps the invariant.
LEMMA NextHolds == IInv /\ [Next]_vars => IInv'
<1> SUFFICES ASSUME IInv, [Next]_vars PROVE IInv'
  OBVIOUS
<1> USE ScriptAssumption
    DEF IInv, TypeOK, Exited, DeliveryFacts, ShellFacts, WaitFacts, Joined,
        paneVars, scriptVars, shellVars, waitVars
<1>1. CASE StartFails
  BY <1>1 DEF StartFails
<1>2. CASE MakeEnvFifo
  BY <1>2 DEF MakeEnvFifo
<1>3. CASE StartLauncher
  BY <1>3 DEF StartLauncher
<1>4. CASE DeliverEnv
  BY <1>4 DEF DeliverEnv
<1>5. CASE Cancel
  BY <1>5 DEF Cancel
<1>6. CASE CancelReachesLaunch
  BY <1>6 DEF CancelReachesLaunch
<1>7. CASE CancelReachesDelivery
  BY <1>7 DEF CancelReachesDelivery
<1>8. CASE StartupTimeout
  BY <1>8 DEF StartupTimeout
<1>9. CASE PaneShows
  BY <1>9 DEF PaneShows
<1>10. CASE LauncherExits
  BY <1>10 DEF LauncherExits
<1>11. CASE LauncherFails
  <2>1. printed' \in BOOLEAN
    BY <1>11 DEF LauncherFails
  <2>2. launcher' = "failed" /\ UNCHANGED <<start, dir, canceled, launchCtx, envCtx, pane,
                                              shell, sourced, deliver, derr, wrote, dismissal,
                                              wait, werr>>
    BY <1>11 DEF LauncherFails
  <2>3. QED
    BY <2>1, <2>2
<1>12. CASE ShellOpens
  BY <1>12 DEF ShellOpens, PaneGoes
<1>13. CASE ShellReads
  BY <1>13 DEF ShellReads
<1>14. CASE ShellSources
  BY <1>14 DEF ShellSources, PaneGoes
<1>15. CASE PaneCloses
  BY <1>15 DEF PaneCloses, PaneGoes
<1>16. CASE OpenWriter
  BY <1>16 DEF OpenWriter
<1>17. CASE OpenWriterGivesUp
  BY <1>17 DEF OpenWriterGivesUp, DeliveryReturns
<1>18. CASE WriteLine
  BY <1>18 DEF WriteLine
<1>19. CASE WriteEnds
  BY <1>19 DEF WriteEnds, DeliveryReturns
<1>20. CASE WriteCut
  BY <1>20 DEF WriteCut, DeliveryReturns
<1>21. CASE StartDismissal
  BY <1>21 DEF StartDismissal
<1>22. CASE DismissCloses
  BY <1>22 DEF DismissCloses, PaneGoes
<1>23. CASE DismissGivesUp
  BY <1>23 DEF DismissGivesUp
<1>24. CASE BeginWait
  BY <1>24 DEF BeginWait, waitUnchanged
<1>25. CASE JoinLauncher
  BY <1>25 DEF JoinLauncher, waitUnchanged
<1>26. CASE JoinDelivery
  BY <1>26 DEF JoinDelivery, waitUnchanged
<1>27. CASE StopDismiss
  BY <1>27 DEF StopDismiss, waitUnchanged
<1>28. CASE RemoveDir
  BY <1>28 DEF RemoveDir, waitUnchanged
<1>29. CASE UNCHANGED vars
  BY <1>29 DEF vars
<1>30. QED
  BY <1>1, <1>2, <1>3, <1>4, <1>5, <1>6, <1>7, <1>8, <1>9, <1>10, <1>11, <1>12,
     <1>13, <1>14, <1>15, <1>16, <1>17, <1>18, <1>19, <1>20, <1>21, <1>22, <1>23,
     <1>24, <1>25, <1>26, <1>27, <1>28, <1>29
  DEF Next, StartStep, ContextStep, DeliveryStep, DismissStep, WaitStep

\* IInv holds in every state of every launch.
LEMMA Invariance == Spec => []IInv
<1>1. QED
  BY InitHolds, NextHolds, PTL DEF Spec

\* Every variable of the launch has its type, whatever the script and the FIFO's room.
THEOREM TypesHold == Spec => []TypeOK
<1>1. IInv => TypeOK
  BY DEF IInv
<1>2. QED
  BY <1>1, Invariance, PTL

\* The directory of a launch that was waited on is removed with the delivery over:
\* Launcher.Wait joins it before the release comes to the directory.
THEOREM DirOutlives == Spec => []DirOutlivesDelivery
<1>1. IInv => DirOutlivesDelivery
  BY DEF IInv, WaitFacts, Joined, DirOutlivesDelivery, TypeOK
<1>2. QED
  BY <1>1, Invariance, PTL

\* A wait without an error delivered the whole script, and a payload that runs then
\* runs with all of it.
THEOREM CleanWaitIsWhole == Spec => []CleanWaitMeansWholeEnvironment
<1>1. IInv => CleanWaitMeansWholeEnvironment
  BY DEF IInv, WaitFacts, DeliveryFacts, ShellFacts, Joined, CleanWaitMeansWholeEnvironment
<1>2. QED
  BY <1>1, Invariance, PTL

------------------------------------------------------------------------------
(* The launch around the delivery implements LaunchRun. *)

\* The launcher runs from StartRun on, and the dismissal is settled by the release.
RunFacts ==
    /\ start \in {"start", "fifo", "failed"} => launcher = "none"
    /\ start \in {"started", "launched"} => launcher # "none"
    /\ start # "launched" => dismissal = "armed" /\ wait = "idle"
    /\ wait \in {"undo", "returned"} => dismissal \in {"stopped", "closed", "failed"}

\* Every action keeps the launcher and the dismissal in step with StartRun and the wait.
LEMMA RunFactsNext ==
    ASSUME IInv, RunFacts, [Next]_vars
    PROVE  RunFacts'
<1> USE DEF RunFacts, paneVars, scriptVars, shellVars, waitVars
<1>0. start \in {"start", "fifo", "started", "launched", "failed"}
  BY DEF IInv, TypeOK
<1>1. CASE StartStep
  BY <1>1 DEF StartStep, StartFails, MakeEnvFifo, StartLauncher, DeliverEnv
<1>2. CASE Cancel \/ ContextStep \/ StartupTimeout
  BY <1>2 DEF Cancel, ContextStep, CancelReachesLaunch, CancelReachesDelivery, StartupTimeout
<1>3. CASE PaneShows \/ LauncherExits \/ LauncherFails
  BY <1>0, <1>3 DEF PaneShows, LauncherExits, LauncherFails
<1>4. CASE ShellOpens \/ ShellReads \/ ShellSources \/ PaneCloses
  BY <1>4 DEF ShellOpens, ShellReads, ShellSources, PaneCloses
<1>5. CASE DeliveryStep
  BY <1>5 DEF DeliveryStep, OpenWriter, OpenWriterGivesUp, WriteLine, WriteEnds, WriteCut,
     DeliveryReturns
<1>6. CASE DismissStep
  BY <1>6 DEF DismissStep, StartDismissal, DismissCloses, DismissGivesUp
<1>7. CASE BeginWait \/ WaitStep
  BY <1>7 DEF BeginWait, WaitStep, JoinLauncher, JoinDelivery, StopDismiss, RemoveDir,
     waitUnchanged
<1>8. CASE UNCHANGED vars
  BY <1>8 DEF vars
<1>9. QED
  BY <1>1, <1>2, <1>3, <1>4, <1>5, <1>6, <1>7, <1>8 DEF Next

\* A step that leaves the contexts, the launcher, the dismissal and the wait's end alone
\* is none of the run's.
LEMMA RunStutters ==
    ASSUME UNCHANGED <<canceled, launchCtx, launcher, dismissal>>,
           wait' = wait \/ {wait, wait'} \cap {"undo", "returned"} = {}
    PROVE  UNCHANGED Run!runVars
<1>1. runDismissal' = runDismissal
  BY DEF runDismissal
<1>2. runRelease' = runRelease
  BY DEF runRelease
<1>3. QED
  BY <1>1, <1>2 DEF Run!runVars

\* Each step of a launch is a step of LaunchRun, or none.
LEMMA RunStep ==
    ASSUME IInv, RunFacts, [Next]_vars
    PROVE  Run!RunNext \/ UNCHANGED Run!runVars
<1> USE DEF paneVars, scriptVars, shellVars, waitVars
<1>1. CASE Cancel
  <2>1. Run!Ask
    BY <1>1 DEF Cancel, Run!Ask, runDismissal, runRelease
  <2>2. QED
    BY <2>1 DEF Run!RunNext
<1>2. CASE StartFails \/ CancelReachesLaunch
  <2>1. Run!EndContext
    BY <1>2 DEF StartFails, CancelReachesLaunch, Run!EndContext, runDismissal, runRelease, RunFacts
  <2>2. QED
    BY <2>1 DEF Run!RunNext
<1>3. CASE StartLauncher
  <2>1. Run!Start({})
    BY <1>3 DEF StartLauncher, Run!Start, runDismissal, runRelease, RunFacts
  <2>2. QED
    BY <2>1 DEF Run!RunNext
<1>4. CASE LauncherExits \/ LauncherFails
  <2>1. Run!LauncherEnds
    BY <1>4 DEF LauncherExits, LauncherFails, Run!LauncherEnds, runDismissal, runRelease
  <2>2. QED
    BY <2>1 DEF Run!RunNext
<1>5. CASE StartDismissal
  <2>1. launcher # "none" /\ runRelease = "no" /\ runRelease' = "no"
    BY <1>5 DEF StartDismissal, RunFacts, runRelease
  <2>2. Run!Dismiss
    BY <1>5, <2>1 DEF StartDismissal, Run!Dismiss, runDismissal
  <2>3. QED
    BY <2>2 DEF Run!RunNext
<1>6. CASE DismissCloses \/ DismissGivesUp
  <2>1. Run!Dismissed
    BY <1>6 DEF DismissCloses, DismissGivesUp, Run!Dismissed, runDismissal, runRelease
  <2>2. QED
    BY <2>1 DEF Run!RunNext
<1>7. CASE StopDismiss
  <2>1. launcher # "none"
    BY <1>7 DEF StopDismiss, RunFacts, IInv, TypeOK
  <2>2. Run!BeginRelease
    BY <1>7, <2>1 DEF StopDismiss, waitUnchanged, Run!BeginRelease, runDismissal, runRelease
  <2>3. QED
    BY <2>2 DEF Run!RunNext
<1>8. CASE RemoveDir
  <2>1. Run!EndRelease
    BY <1>8 DEF RemoveDir, waitUnchanged, Run!EndRelease, runDismissal, runRelease
  <2>2. QED
    BY <2>1 DEF Run!RunNext
<1>9. CASE MakeEnvFifo \/ DeliverEnv \/ CancelReachesDelivery \/ StartupTimeout \/ PaneShows
  BY <1>9, RunStutters DEF MakeEnvFifo, DeliverEnv, CancelReachesDelivery, StartupTimeout,
     PaneShows
<1>10. CASE ShellOpens \/ ShellReads \/ ShellSources \/ PaneCloses
  BY <1>10, RunStutters DEF ShellOpens, ShellReads, ShellSources, PaneCloses
<1>11. CASE DeliveryStep
  BY <1>11, RunStutters DEF DeliveryStep, OpenWriter, OpenWriterGivesUp, WriteLine, WriteEnds,
     WriteCut, DeliveryReturns
<1>12. CASE BeginWait \/ JoinLauncher \/ JoinDelivery
  BY <1>12, RunStutters DEF BeginWait, JoinLauncher, JoinDelivery, waitUnchanged
<1>13. CASE UNCHANGED vars
  BY <1>13, RunStutters DEF vars
<1>14. QED
  BY <1>1, <1>2, <1>3, <1>4, <1>5, <1>6, <1>7, <1>8, <1>9, <1>10, <1>11, <1>12, <1>13
  DEF Next, StartStep, ContextStep, DismissStep, WaitStep

\* A pane is closed only for a canceled launch, and before its release goes on, however
\* long the environment.
THEOREM RunKept == Spec => KeepsRun
<1>1. Init => RunFacts /\ Run!RunInit
  BY DEF Init, RunFacts, Run!RunInit, runDismissal, runRelease
<1>2. IInv /\ RunFacts /\ [Next]_vars => RunFacts'
  BY RunFactsNext
<1>3. IInv /\ RunFacts /\ [Next]_vars => [Run!RunNext]_(Run!runVars)
  BY RunStep
<1>4. QED
  BY <1>1, <1>2, <1>3, Invariance, PTL DEF Spec, KeepsRun, Run!RunSpec

------------------------------------------------------------------------------
(* What a partial environment takes, for the finding of zellij_environment. *)

\* The shell comes with its pane and goes with it; one that has opened the FIFO met the
\* delivery there, which was cut only when its context ended or the shell was gone.
CutFacts ==
    /\ pane = "none" <=> shell = "none"
    /\ shell \in {"sourcing", "payload"} =>
        deliver \in {"writing", "done"} /\ derr # "abandoned"
    /\ envCtx = "none" <=> start # "launched"
    /\ derr = "cut" => envCtx = "ended" \/ shell = "exited"

\* Every step keeps them.
LEMMA StepKeepsCut == IInv /\ CutFacts /\ [Next]_vars => CutFacts'
<1> SUFFICES ASSUME IInv, CutFacts, [Next]_vars PROVE CutFacts'
  OBVIOUS
<1> USE DEF CutFacts, paneVars, scriptVars, shellVars, waitVars
<1>1. CASE StartStep
  BY <1>1 DEF StartStep, StartFails, MakeEnvFifo, StartLauncher, DeliverEnv, IInv,
     DeliveryFacts, WaitFacts
<1>2. CASE Cancel \/ ContextStep \/ StartupTimeout
  BY <1>2 DEF Cancel, ContextStep, CancelReachesLaunch, CancelReachesDelivery, StartupTimeout
<1>3. CASE PaneShows \/ LauncherExits
  BY <1>3 DEF PaneShows, LauncherExits
<1>4. CASE LauncherFails
  BY <1>4 DEF LauncherFails
<1>5. CASE ShellOpens \/ ShellReads \/ ShellSources \/ PaneCloses
  BY <1>5 DEF ShellOpens, ShellReads, ShellSources, PaneCloses, PaneGoes, IInv, TypeOK
<1>6. CASE DeliveryStep
  BY <1>6 DEF DeliveryStep, OpenWriter, OpenWriterGivesUp, WriteLine, WriteEnds, WriteCut,
     DeliveryReturns, IInv, TypeOK, DeliveryFacts
<1>7. CASE DismissStep
  BY <1>7 DEF DismissStep, StartDismissal, DismissCloses, DismissGivesUp, PaneGoes
<1>8. CASE BeginWait \/ WaitStep
  BY <1>8 DEF BeginWait, WaitStep, JoinLauncher, JoinDelivery, StopDismiss, RemoveDir,
     waitUnchanged, IInv, WaitFacts
<1>9. CASE UNCHANGED vars
  BY <1>9 DEF vars
<1>10. QED
  BY <1>1, <1>2, <1>3, <1>4, <1>5, <1>6, <1>7, <1>8, <1>9 DEF Next

\* A payload with part of its environment is one whose delivery's context ended in the
\* middle of it, and whose delivery has failed with that.
PartialMeansCut ==
    shell = "payload" /\ sourced < Lines => derr = "cut" /\ envCtx = "ended"

\* So only an ended context leads to the finding, by the timeout, a cancellation or a launcher
\* that failed: a payload that starts while the delivery may still run starts with its whole
\* environment, for every length of the script and every room in the FIFO.
THEOREM PartialIsCut == Spec => []PartialMeansCut
<1>1. Init => CutFacts
  BY DEF Init, CutFacts
<1>2. IInv /\ CutFacts => PartialMeansCut
  BY ScriptAssumption DEF IInv, TypeOK, DeliveryFacts, ShellFacts, CutFacts, PartialMeansCut
<1>3. QED
  BY <1>1, <1>2, Invariance, StepKeepsCut, PTL DEF Spec

------------------------------------------------------------------------------
(* Why the delivery and its wait end: what FailedLauncherEndsWait and CanceledDeliveryEnds *)
(* rest on.  While either of them still has something to wait for, the guard of one of the *)
(* steps that are fair holds (DeliveryCanMove), and no launch takes more of those steps    *)
(* than DeliveryRank counts (DeliveryGetsCloser): the pane, its shell and the startup      *)
(* timeout have no part in it.                                                             *)

DeliveryPending ==
    \/ launcher = "failed" /\ wait \notin {"idle", "returned"}
    \/ canceled /\ start = "launched" /\ deliver # "done"

DeliveryCanMove ==
    DeliveryPending =>
        \/ canceled /\ launchCtx = "live"
        \/ launchCtx = "canceled" /\ envCtx = "live"
        \/ deliver = "opening" /\ envCtx = "ended"
        \/ deliver = "writing" /\ (envCtx = "ended" \/ wrote = Lines)
        \/ canceled /\ start = "launched" /\ dismissal = "armed"
        \/ dismissal = "waiting"
        \/ wait = "launcher" /\ launcher \in Exited
        \/ wait = "env" /\ deliver = "done"
        \/ wait = "release" /\ dismissal \in {"closed", "failed"}
        \/ wait = "release" /\ ~canceled /\ dismissal = "armed"
        \/ wait = "undo"

startRank ==
    IF start = "start" THEN 3 ELSE IF start = "fifo" THEN 2 ELSE IF start = "started" THEN 1 ELSE 0
contextRank ==
    (IF launchCtx = "live" THEN 1 ELSE 0)
    + (IF envCtx = "none" THEN 2 ELSE IF envCtx = "live" THEN 1 ELSE 0)
    + (IF launcher = "none" THEN 2 ELSE IF launcher = "running" THEN 1 ELSE 0)
deliverRank ==
    (IF deliver = "none" THEN 3 ELSE IF deliver = "opening" THEN 2
     ELSE IF deliver = "writing" THEN 1 ELSE 0)
    + (Lines - wrote)
waitRank ==
    (IF dismissal = "armed" THEN 2 ELSE IF dismissal = "waiting" THEN 1 ELSE 0)
    + (IF wait = "idle" THEN 5 ELSE IF wait = "launcher" THEN 4 ELSE IF wait = "env" THEN 3
       ELSE IF wait = "release" THEN 2 ELSE IF wait = "undo" THEN 1 ELSE 0)

DeliveryRank == startRank + contextRank + deliverRank + waitRank

\* The steps of Fairness.
FairStep ==
    StartStep \/ ContextStep \/ DeliveryStep \/ DismissStep \/ WaitStep \/ InterruptedExits

DeliveryGetsCloser ==
    [][/\ DeliveryRank' <= DeliveryRank
       /\ FairStep => DeliveryRank' < DeliveryRank
       /\ launcher = "failed" /\ wait # "idle" => launcher' = "failed" /\ wait' # "idle"
       /\ canceled /\ start = "launched" => canceled' /\ start' = "launched"]_vars

\* A delivery waits only while its context is there; a launcher that failed ended it for the
\* wait behind it, and the watch is stopped only by the release.
WaitEndFacts ==
    /\ start = "launched" <=> envCtx # "none"
    /\ start = "launched" => deliver # "none"
    /\ start \in {"start", "fifo", "failed"} <=> launcher = "none"
    /\ wait = "env" /\ launcher = "failed" => envCtx = "ended"
    /\ wait = "env" => launcher \in Exited
    /\ dismissal = "stopped" => wait \in {"undo", "returned"}

\* Every step keeps them.
LEMMA StepKeepsWaitEnd == IInv /\ WaitEndFacts /\ [Next]_vars => WaitEndFacts'
<1> SUFFICES ASSUME IInv, WaitEndFacts, [Next]_vars PROVE WaitEndFacts'
  OBVIOUS
<1> USE DEF WaitEndFacts, Exited, paneVars, scriptVars, shellVars, waitVars
<1>1. CASE StartStep
  BY <1>1 DEF StartStep, StartFails, MakeEnvFifo, StartLauncher, DeliverEnv, IInv, WaitFacts
<1>2. CASE Cancel \/ ContextStep \/ StartupTimeout
  BY <1>2 DEF Cancel, ContextStep, CancelReachesLaunch, CancelReachesDelivery, StartupTimeout
<1>3. CASE PaneShows \/ LauncherExits
  BY <1>3 DEF PaneShows, LauncherExits
<1>4. CASE LauncherFails
  BY <1>4 DEF LauncherFails
<1>5. CASE ShellOpens \/ ShellReads \/ ShellSources \/ PaneCloses
  BY <1>5 DEF ShellOpens, ShellReads, ShellSources, PaneCloses
<1>6. CASE DeliveryStep
  BY <1>6 DEF DeliveryStep, OpenWriter, OpenWriterGivesUp, WriteLine, WriteEnds, WriteCut,
     DeliveryReturns
<1>7. CASE DismissStep
  BY <1>7 DEF DismissStep, StartDismissal, DismissCloses, DismissGivesUp
<1>8. CASE BeginWait \/ WaitStep
  BY <1>8 DEF BeginWait, WaitStep, JoinLauncher, JoinDelivery, StopDismiss, RemoveDir,
     waitUnchanged, IInv, WaitFacts
<1>9. CASE UNCHANGED vars
  BY <1>9 DEF vars
<1>10. QED
  BY <1>1, <1>2, <1>3, <1>4, <1>5, <1>6, <1>7, <1>8, <1>9 DEF Next

\* A delivery whose launch was canceled, and a wait whose launcher failed, never have
\* nothing to wait for, however long the environment and although neither the pane nor the
\* startup timeout is counted on.
THEOREM DeliveryNeverStuck == Spec => []DeliveryCanMove
<1>1. Init => WaitEndFacts
  BY DEF Init, WaitEndFacts, Exited
<1>2. ASSUME IInv, WaitEndFacts, DeliveryPending
      PROVE  DeliveryCanMove
  <2>1. wait # "idle" \/ start = "launched"
    BY <1>2 DEF DeliveryPending
  <2>2. start = "launched" /\ deliver \in {"opening", "writing", "done"}
          /\ envCtx \in {"live", "ended"}
    BY <1>2, <2>1 DEF IInv, TypeOK, WaitFacts, WaitEndFacts
  <2>3. CASE canceled /\ deliver # "done"
    BY <1>2, <2>2, <2>3 DEF DeliveryCanMove, IInv, TypeOK
  <2>4. CASE launcher = "failed" /\ wait \notin {"idle", "returned"}
    <3>1. CASE wait \in {"launcher", "undo"}
      BY <2>4, <3>1 DEF DeliveryCanMove, Exited
    <3>2. CASE wait = "env"
      BY <1>2, <2>2, <2>4, <3>2 DEF DeliveryCanMove, WaitEndFacts
    <3>3. CASE wait = "release"
      BY <1>2, <2>2, <3>3 DEF DeliveryCanMove, WaitEndFacts, IInv, TypeOK
    <3>4. QED
      BY <1>2, <2>4, <3>1, <3>2, <3>3 DEF IInv, TypeOK
  <2>5. QED
    BY <1>2, <2>3, <2>4 DEF DeliveryPending
<1>3. IInv /\ WaitEndFacts => DeliveryCanMove
  BY <1>2 DEF DeliveryCanMove
<1>4. QED
  BY <1>1, <1>3, Invariance, StepKeepsWaitEnd, PTL DEF Spec

\* The parts of the rank are numbers, and stay numbers.
LEMMA RanksAreNat ==
    ASSUME IInv, [Next]_vars
    PROVE  /\ startRank \in Nat /\ contextRank \in Nat /\ deliverRank \in Nat /\ waitRank \in Nat
           /\ startRank' \in Nat /\ contextRank' \in Nat /\ deliverRank' \in Nat
           /\ waitRank' \in Nat
<1>1. Lines - wrote \in Nat
  BY ScriptAssumption DEF IInv, TypeOK
<1>2. PICK w \in 0..Lines : w = wrote'
  <2>1. IInv'
    BY NextHolds
  <2>2. QED
    BY <2>1 DEF IInv, TypeOK
<1>3. w \in Nat /\ w <= Lines
  BY ScriptAssumption
<1>4. Lines - w \in Nat
  BY ScriptAssumption, <1>3
<1>5. Lines - wrote' \in Nat
  BY <1>2, <1>4, Zenon
<1>6. deliverRank \in Nat
  BY <1>1 DEF deliverRank
<1>7. deliverRank' \in Nat
  BY <1>5 DEF deliverRank
<1>8. QED
  BY <1>6, <1>7 DEF startRank, contextRank, waitRank

\* Every step of the start, of a context and of the launcher lowers its own part.
LEMMA StartDescends ==
    ASSUME IInv, WaitEndFacts,
           StartStep \/ ContextStep \/ StartupTimeout \/ LauncherExits \/ LauncherFails
    PROVE  /\ waitRank' = waitRank
           /\ startRank' < startRank \/ contextRank' < contextRank
           /\ startRank' <= startRank /\ contextRank' <= contextRank
           /\ \/ UNCHANGED <<deliver, wrote>>
              \/ deliver = "none" /\ deliver' = "opening" /\ UNCHANGED wrote
<1> USE DEF paneVars, scriptVars, shellVars, waitVars, Exited
<1>1. /\ UNCHANGED <<dismissal, wait>>
      /\ \/ UNCHANGED <<deliver, wrote>>
         \/ deliver = "none" /\ deliver' = "opening" /\ UNCHANGED wrote
  BY DEF StartStep, StartFails, MakeEnvFifo, StartLauncher, DeliverEnv, ContextStep,
     CancelReachesLaunch, CancelReachesDelivery, StartupTimeout, LauncherExits, LauncherFails,
     IInv, WaitFacts
<1>2. waitRank' = waitRank
  BY <1>1 DEF waitRank
<1>3. ASSUME StartFails
      PROVE  startRank' < startRank /\ contextRank' <= contextRank
  BY <1>3 DEF StartFails, startRank, contextRank, WaitEndFacts
<1>4. ASSUME MakeEnvFifo \/ StartLauncher
      PROVE  startRank' < startRank /\ contextRank' <= contextRank
  <2>1. CASE MakeEnvFifo
    BY <2>1 DEF MakeEnvFifo, startRank, contextRank
  <2>2. CASE StartLauncher
    BY <2>2 DEF StartLauncher, startRank, contextRank, WaitEndFacts
  <2>3. QED
    BY <1>4, <2>1, <2>2
<1>5. ASSUME DeliverEnv
      PROVE  startRank' < startRank /\ contextRank' <= contextRank
  BY <1>5 DEF DeliverEnv, startRank, contextRank, WaitEndFacts
<1>6. ASSUME ContextStep \/ StartupTimeout \/ LauncherExits \/ LauncherFails
      PROVE  startRank' = startRank /\ contextRank' < contextRank
  <2>1. UNCHANGED start
    BY <1>6 DEF ContextStep, CancelReachesLaunch, CancelReachesDelivery, StartupTimeout,
       LauncherExits, LauncherFails
  <2>2. \/ launchCtx = "live" /\ launchCtx' = "canceled" /\ UNCHANGED <<envCtx, launcher>>
        \/ envCtx = "live" /\ envCtx' = "ended" /\ UNCHANGED <<launchCtx, launcher>>
        \/ launcher = "running" /\ launcher' \in Exited /\ UNCHANGED <<launchCtx, envCtx>>
    BY <1>6 DEF ContextStep, CancelReachesLaunch, CancelReachesDelivery, StartupTimeout,
       LauncherExits, LauncherFails
  <2>3. QED
    BY <2>1, <2>2 DEF startRank, contextRank
<1>7. startRank \in 0..3 /\ startRank' \in 0..3 /\ contextRank \in 0..5 /\ contextRank' \in 0..5
  BY DEF startRank, contextRank
<1>8. \/ startRank' < startRank /\ contextRank' <= contextRank
      \/ startRank' = startRank /\ contextRank' < contextRank
  BY <1>3, <1>4, <1>5, <1>6 DEF StartStep
<1>9. QED
  BY <1>1, <1>2, <1>7, <1>8

\* Every step of the delivery lowers its part.
LEMMA ScriptDescends ==
    ASSUME IInv, DeliveryStep
    PROVE  deliverRank' < deliverRank /\ UNCHANGED <<startRank, contextRank, waitRank>>
<1> USE DEF paneVars, scriptVars, shellVars, waitVars
<1>1. wrote \in Nat /\ Lines \in Nat /\ Lines - wrote \in Nat
  BY ScriptAssumption DEF IInv, TypeOK
<1>2. UNCHANGED <<start, launchCtx, envCtx, launcher, dismissal, wait>>
  BY DEF DeliveryStep, OpenWriter, OpenWriterGivesUp, WriteLine, WriteEnds, WriteCut
<1>3. \/ deliver = "opening" /\ deliver' \in {"writing", "done"} /\ wrote' = wrote
      \/ deliver = "writing" /\ deliver' = "done" /\ wrote' = wrote
      \/ deliver' = deliver /\ wrote' = wrote + 1
  BY DEF DeliveryStep, OpenWriter, OpenWriterGivesUp, WriteLine, WriteEnds, WriteCut,
     DeliveryReturns
<1>4. deliverRank' < deliverRank
  BY <1>1, <1>3 DEF deliverRank
<1>5. QED
  BY <1>2, <1>4 DEF startRank, contextRank, waitRank

\* Every step of the dismissal and of the wait lowers theirs.
LEMMA WaitDescends ==
    ASSUME IInv, WaitEndFacts, DismissStep \/ BeginWait \/ WaitStep
    PROVE  /\ waitRank' < waitRank
           /\ contextRank' <= contextRank
           /\ UNCHANGED <<startRank, deliverRank>>
<1> USE DEF paneVars, scriptVars, shellVars, waitVars, waitUnchanged
<1>1. UNCHANGED <<start, deliver, wrote, launcher>>
  BY DEF DismissStep, StartDismissal, DismissCloses, DismissGivesUp, BeginWait, WaitStep,
     JoinLauncher, JoinDelivery, StopDismiss, RemoveDir
<1>2. /\ launchCtx' \in {launchCtx, "canceled"}
      /\ envCtx' \in {envCtx, "ended"}
  BY DEF DismissStep, StartDismissal, DismissCloses, DismissGivesUp, BeginWait, WaitStep,
     JoinLauncher, JoinDelivery, StopDismiss, RemoveDir
<1>3. contextRank' <= contextRank
  BY <1>1, <1>2 DEF contextRank
<1>4. ASSUME DismissStep
      PROVE  waitRank' < waitRank
  <2>1. wait' = wait
    BY <1>4 DEF DismissStep, StartDismissal, DismissCloses, DismissGivesUp
  <2>2. \/ dismissal = "armed" /\ dismissal' = "waiting"
        \/ dismissal = "waiting" /\ dismissal' \in {"closed", "failed"}
    BY <1>4 DEF DismissStep, StartDismissal, DismissCloses, DismissGivesUp
  <2>3. QED
    BY <2>1, <2>2 DEF waitRank
<1>5. ASSUME BeginWait \/ WaitStep
      PROVE  waitRank' < waitRank
  <2>1. \/ dismissal' = dismissal
        \/ dismissal = "armed" /\ dismissal' = "stopped"
    BY <1>5 DEF BeginWait, WaitStep, JoinLauncher, JoinDelivery, StopDismiss, RemoveDir
  <2>2. \/ wait = "idle" /\ wait' \in {"launcher", "release"}
        \/ wait = "launcher" /\ wait' = "env"
        \/ wait = "env" /\ wait' = "release"
        \/ wait = "release" /\ wait' = "undo"
        \/ wait = "undo" /\ wait' = "returned"
    BY <1>5 DEF BeginWait, WaitStep, JoinLauncher, JoinDelivery, StopDismiss, RemoveDir
  <2>3. QED
    BY <2>1, <2>2 DEF waitRank
<1>6. QED
  BY <1>1, <1>3, <1>4, <1>5 DEF startRank, deliverRank

\* Nobody's step raises the rank and every fair one brings it down: a launch takes no more
\* fair steps than it counts at its start, however the pane, its shell and the timeout go.
THEOREM DeliveryDescends == Spec => [](DeliveryRank \in Nat) /\ DeliveryGetsCloser
<1> USE DEF paneVars, scriptVars, shellVars, waitVars
<1>1. ASSUME IInv
      PROVE  DeliveryRank \in Nat
  <2>1. Lines - wrote \in Nat
    BY <1>1, ScriptAssumption DEF IInv, TypeOK
  <2>2. QED
    BY <2>1 DEF DeliveryRank, startRank, contextRank, deliverRank, waitRank
<1>2. ASSUME IInv, WaitEndFacts, Next
      PROVE  /\ DeliveryRank' <= DeliveryRank
             /\ FairStep => DeliveryRank' < DeliveryRank
  <2>1. /\ startRank \in Nat /\ contextRank \in Nat /\ deliverRank \in Nat /\ waitRank \in Nat
    BY <1>2, RanksAreNat
  <2>2. PICK s \in Nat, c \in Nat, d \in Nat, w \in Nat :
            s = startRank' /\ c = contextRank' /\ d = deliverRank' /\ w = waitRank'
    BY <1>2, RanksAreNat
  <2>3. ASSUME StartStep \/ ContextStep \/ StartupTimeout \/ LauncherExits \/ LauncherFails
        PROVE  s <= startRank /\ c <= contextRank /\ d <= deliverRank /\ w <= waitRank
                 /\ (s < startRank \/ c < contextRank)
    <3>1. /\ waitRank' = waitRank
          /\ startRank' < startRank \/ contextRank' < contextRank
          /\ startRank' <= startRank /\ contextRank' <= contextRank
          /\ \/ UNCHANGED <<deliver, wrote>>
             \/ deliver = "none" /\ deliver' = "opening" /\ UNCHANGED wrote
      BY <1>2, <2>3, StartDescends
    <3>2. deliverRank' <= deliverRank
      <4>1. Lines - wrote \in Nat
        BY <1>2, ScriptAssumption DEF IInv, TypeOK
      <4>2. QED
        BY <3>1, <4>1 DEF deliverRank
    <3>3. s <= startRank /\ c <= contextRank /\ (s < startRank \/ c < contextRank)
            /\ w = waitRank /\ d <= deliverRank
      BY <2>2, <3>1, <3>2, Zenon
    <3>4. QED
      BY <2>1, <3>3
  <2>4. ASSUME DeliveryStep
        PROVE  s = startRank /\ c = contextRank /\ d < deliverRank /\ w = waitRank
    BY <1>2, <2>2, <2>4, ScriptDescends, Zenon
  <2>5. ASSUME DismissStep \/ BeginWait \/ WaitStep
        PROVE  s = startRank /\ c <= contextRank /\ d = deliverRank /\ w < waitRank
    BY <1>2, <2>2, <2>5, WaitDescends, Zenon
  <2>6. ASSUME Cancel \/ PaneShows \/ ShellOpens \/ ShellReads \/ ShellSources \/ PaneCloses
        PROVE  s = startRank /\ c = contextRank /\ d = deliverRank /\ w = waitRank
    <3>1. UNCHANGED <<start, launchCtx, envCtx, launcher, deliver, wrote, dismissal, wait>>
      BY <2>6 DEF Cancel, PaneShows, ShellOpens, ShellReads, ShellSources, PaneCloses
    <3>2. UNCHANGED <<startRank, contextRank, deliverRank, waitRank>>
      BY <3>1 DEF startRank, contextRank, deliverRank, waitRank
    <3>3. QED
      BY <2>2, <3>2, Zenon
  <2>7. s + c + d + w <= startRank + contextRank + deliverRank + waitRank
    BY <1>2, <2>1, <2>3, <2>4, <2>5, <2>6 DEF Next
  <2>8. FairStep => s + c + d + w < startRank + contextRank + deliverRank + waitRank
    BY <2>1, <2>3, <2>4, <2>5 DEF FairStep, InterruptedExits
  <2>9. QED
    BY <2>2, <2>7, <2>8, Zenon DEF DeliveryRank
<1>3. ASSUME IInv, WaitEndFacts, Next
      PROVE  /\ launcher = "failed" /\ wait # "idle" => launcher' = "failed" /\ wait' # "idle"
             /\ canceled /\ start = "launched" => canceled' /\ start' = "launched"
  <2>1. CASE StartStep
    BY <1>3, <2>1 DEF StartStep, StartFails, MakeEnvFifo, StartLauncher, DeliverEnv,
       WaitEndFacts, IInv, WaitFacts
  <2>2. CASE Cancel \/ ContextStep \/ StartupTimeout \/ PaneShows \/ LauncherExits
    BY <2>2 DEF Cancel, ContextStep, CancelReachesLaunch, CancelReachesDelivery,
       StartupTimeout, PaneShows, LauncherExits
  <2>3. CASE LauncherFails
    BY <2>3 DEF LauncherFails
  <2>4. CASE ShellOpens \/ ShellReads \/ ShellSources \/ PaneCloses
    BY <2>4 DEF ShellOpens, ShellReads, ShellSources, PaneCloses
  <2>5. CASE DeliveryStep \/ DismissStep
    BY <2>5 DEF DeliveryStep, OpenWriter, OpenWriterGivesUp, WriteLine, WriteEnds, WriteCut,
       DismissStep, StartDismissal, DismissCloses, DismissGivesUp
  <2>6. CASE BeginWait \/ WaitStep
    BY <2>6 DEF BeginWait, WaitStep, JoinLauncher, JoinDelivery, StopDismiss, RemoveDir,
       waitUnchanged
  <2>7. QED
    BY <1>3, <2>1, <2>2, <2>3, <2>4, <2>5, <2>6 DEF Next
<1>4. IInv /\ WaitEndFacts /\ [Next]_vars =>
        [/\ DeliveryRank' <= DeliveryRank
         /\ FairStep => DeliveryRank' < DeliveryRank
         /\ launcher = "failed" /\ wait # "idle" => launcher' = "failed" /\ wait' # "idle"
         /\ canceled /\ start = "launched" => canceled' /\ start' = "launched"]_vars
  BY <1>2, <1>3, Zenon
<1>5. Init => WaitEndFacts
  BY DEF Init, WaitEndFacts, Exited
<1>6. QED
  BY <1>1, <1>4, <1>5, Invariance, StepKeepsWaitEnd, PTL DEF Spec, DeliveryGetsCloser
==============================================================================
