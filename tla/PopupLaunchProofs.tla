-------------------------- MODULE PopupLaunchProofs --------------------------
(***************************************************************************)
(* The safety of PopupLaunch, for every set of launches.                   *)
(*                                                                         *)
(* IInv is the inductive invariant.  What makes the properties inductive   *)
(* is the correspondence between the rollback list and the things taken    *)
(* (Owed), its order (Ordered), and how far Exec and Wait have come        *)
(* (ExecProgress, WaitProgress, DismissalProgress, RelayProgress).         *)
(***************************************************************************)
EXTENDS PopupLaunch, SequenceTheorems, TLAPS

Rank == [u \in Undos |-> CASE u = "restore" -> 1
                           [] u = "releaseWorkspace" -> 2
                           [] u = "cancelLaunch" -> 3]

\* The rollback list holds an undo u.
Registered(u) == \E i \in 1..Len(rollback) : rollback[i] = u

\* The list is in the order Exec takes things in.
Ordered ==
    \A i, j \in 1..Len(rollback) : i < j => Rank[rollback[i]] < Rank[rollback[j]]

\* Whatever is taken is registered, and the other way round.
Owed ==
    /\ mux = "adjusted" <=> Registered("restore")
    /\ workspace = "open" <=> Registered("releaseWorkspace")
    /\ launchCtx = "live" => Registered("cancelLaunch")
    /\ mux = "restored" => rollback = <<>>

Launched == exec = "launched"
Released == wait \in {"undo", "returned"}

ExecProgress ==
    /\ exec = "start" => mux = "plain"
    /\ exec \in {"start", "workspace"} => workspace = "none"
    /\ exec \in {"start", "workspace", "fifos", "context"} => launchCtx = "none"
    /\ exec \in {"start", "workspace", "fifos", "context"} => ~Registered("cancelLaunch")
    /\ exec \in {"fifos", "context", "launch", "launched"} /\ Allocated # {} /\ ~Released
            => workspace = "open"
    /\ exec = "failed" => rollback = <<>>
    /\ wait = "returned" => rollback = <<>>
    /\ mux = "restored" => exec \in {"undoing", "failed"} \/ Released

WaitProgress ==
    /\ wait # "idle" => Launched
    /\ wait \in {"stop", "check", "dismiss", "cancel", "pipes", "undo", "returned"}
            => \A s \in Endpoints : pump[s] = "done"
    /\ wait = "launcher" /\ StreamsDecide => \A s \in Endpoints : pump[s] = "done"
    /\ Released => \A s \in Piped : pump[s] = "done"
    /\ wait \in {"pipes", "undo", "returned"} => launchCtx = "canceled"

RelayProgress ==
    /\ ~Launched => \A s \in Streams : pump[s] = "idle"
    /\ \A s \in Streams \ Allocated : pump[s] = "idle"

DismissalProgress ==
    /\ ~Launched <=> watch = "none"
    /\ wait \in {"idle", "launcher", "endpoints", "stop"} => watch # "stopped"
    /\ wait \in {"check", "dismiss", "cancel", "pipes", "undo", "returned"}
            => watch \in {"fired", "stopped"}
    /\ wait = "check" => (stopped <=> watch = "stopped")
    /\ watch = "fired" => dismissal # "none"
    /\ wait \notin {"dismiss", "cancel", "pipes", "undo", "returned"} /\ watch # "fired"
            => dismissal = "none"
    /\ wait \in {"cancel", "pipes", "undo", "returned"} => dismissal # "running"

IInv ==
    /\ TypeOK
    /\ Ordered
    /\ Owed
    /\ ExecProgress
    /\ WaitProgress
    /\ RelayProgress
    /\ DismissalProgress

------------------------------------------------------------------------------
(* Facts about the rollback list. *)

\* Appending to a list keeps its elements and adds one (Exec registering an undo).
LEMMA AppendFacts ==
    ASSUME NEW r \in Seq(Undos), NEW u \in Undos, NEW q, q = Append(r, u)
    PROVE  /\ q \in Seq(Undos)
           /\ Len(r) \in Nat
           /\ Len(q) = Len(r) + 1
           /\ \A i \in 1..Len(r) : q[i] = r[i]
           /\ q[Len(r) + 1] = u
           /\ q # <<>>
  BY AppendProperties, LenProperties

\* Dropping the last element keeps the others (one undo of the rollback).
LEMMA DropLastFacts ==
    ASSUME NEW r \in Seq(Undos), r # <<>>, NEW q, q = SubSeq(r, 1, Len(r) - 1)
    PROVE  /\ q \in Seq(Undos)
           /\ Len(r) \in Nat \ {0}
           /\ Len(q) = Len(r) - 1
           /\ \A i \in 1..Len(q) : q[i] = r[i]
           /\ r[Len(r)] \in Undos
<1>1. Len(r) \in Nat \ {0}
  BY EmptySeq
<1>2. \A i \in 1..Len(r) : r[i] \in Undos
  BY ElementOfSeq
<1>3. PICK n \in Nat : Len(r) = n + 1
  BY <1>1
<1>4. q = SubSeq(r, 1, n)
  BY <1>3
<1>5. q \in Seq(Undos)
  BY <1>2, <1>3, <1>4, SMT
<1>6. Len(q) = n
  BY <1>3, <1>4, SMT
<1>7. \A i \in 1..n : q[i] = r[i]
  BY <1>3, <1>4, SMT
<1>8. QED
  BY <1>1, <1>2, <1>3, <1>5, <1>6, <1>7

\* A list is empty exactly when it has no elements.
LEMMA ListFacts ==
    ASSUME NEW r \in Seq(Undos)
    PROVE  /\ Len(r) \in Nat
           /\ r = <<>> <=> Len(r) = 0
           /\ \A i \in 1..Len(r) : r[i] \in Undos
<1>1. \A i \in 1..Len(r) : r[i] \in Undos
  BY ElementOfSeq
<1>2. Len(r) \in Nat /\ (r = <<>> <=> Len(r) = 0)
  BY EmptySeq, LenProperties
<1>3. QED
  BY <1>1, <1>2

\* The order in which a launch takes what it has to give back.
LEMMA RankFacts ==
    /\ Rank["restore"] = 1
    /\ Rank["releaseWorkspace"] = 2
    /\ Rank["cancelLaunch"] = 3
  BY DEF Rank, Undos

------------------------------------------------------------------------------
(* Type correctness. *)

\* The requests are launch requests, so their streams are output streams.
LEMMA RequestFacts ==
    ASSUME req \in LaunchRequest
    PROVE  /\ Endpoints \subseteq Outs
           /\ Piped \subseteq Outs
           /\ Outputs \subseteq Outs
           /\ Outputs = Endpoints \cup Piped
           /\ Allocated \subseteq Streams
           /\ Allocated \cap Outs = Outputs
           /\ req.by = "release" => Endpoints = {}
  BY DEF LaunchRequest, Endpoints, Piped, Outputs, Allocated, Streams, Outs

\* A launch starts well typed.
LEMMA TypeInit == Init => TypeOK
  BY LaunchesAssumption, EmptySeq
  DEF Init, TypeOK, Undos, Streams, Outs, Exited

\* One step of a rollback keeps the types of what it touches.
LEMMA TypeUndo ==
    ASSUME TypeOK, UndoLast
    PROVE  /\ rollback' \in Seq(Undos)
           /\ mux' \in {"plain", "adjusted", "restored"}
           /\ workspace' \in {"none", "open", "removed"}
           /\ launchCtx' \in {"none", "live", "canceled"}
  BY DropLastFacts DEF TypeOK, UndoLast

\* What happens to a stream, whoever does it, is between its FIFO and its relay: a
\* relay moves on from one of its positions, and all else stays as it is.
LEMMA StreamFacts ==
    ASSUME NEW s \in Outs, StreamStep(s)
    PROVE  /\ UNCHANGED <<req, exec, heldVars, ctxVars, dismissVars, launcher, printed, popup,
                         payload, waitVars>>
           /\ met \subseteq met'
           /\ \/ UNCHANGED pump
              \/ /\ pump[s] \in {"opening", "waking", "relaying", "writing"}
                 /\ \E q \in {"waking", "relaying", "writing", "done"} :
                        pump' = [pump EXCEPT ![s] = q]
<1> USE DEF popupVars, relayUnchanged
<1>1. CASE PayloadOpens(s) \/ PayloadWrites(s) \/ CutRelay(s)
  BY <1>1 DEF PayloadOpens, PayloadWrites, CutRelay, relayVars
<1>2. CASE ReaderStep(s)
  BY <1>2 DEF ReaderStep, ReaderOpens, ReaderAborts, ReaderWakes, ReaderReads,
     ReaderInterrupted, CutRelay, RelayReturns
<1>3. CASE ReaderWrites(s) \/ ReaderEnds(s) \/ ReaderBreaks(s)
  BY <1>3 DEF ReaderWrites, ReaderEnds, ReaderBreaks, RelayReturns
<1>4. QED
  BY <1>1, <1>2, <1>3 DEF StreamStep

\* Every action keeps the types.
LEMMA TypeNext == TypeOK /\ [Next]_vars => TypeOK'
<1> SUFFICES ASSUME TypeOK, [Next]_vars PROVE TypeOK'
  OBVIOUS
<1> USE DEF TypeOK, heldVars, ctxVars, dismissVars, popupVars, relayVars, waitVars
<1>1. CASE RefuseRequest
  BY <1>1 DEF RefuseRequest
<1>2. CASE Prepare
  BY <1>2, AppendFacts DEF Prepare, Undos
<1>3. CASE OpenWorkspace
  BY <1>3, AppendFacts DEF OpenWorkspace, Undos
<1>4. CASE MakeFifos
  BY <1>4 DEF MakeFifos
<1>5. CASE MakeLaunchContext
  BY <1>5, AppendFacts DEF MakeLaunchContext, Undos
<1>6. CASE LaunchFails
  BY <1>6 DEF LaunchFails
<1>7. CASE LaunchSucceeds
  BY <1>7 DEF LaunchSucceeds, Exited
<1>8. CASE UndoExec
  BY <1>8, TypeUndo DEF UndoExec
<1>9. CASE ExecFails
  BY <1>9 DEF ExecFails
<1>10. CASE Cancel \/ CancelReachesLaunch
  BY <1>10 DEF Cancel, CancelReachesLaunch
<1>11. CASE WatchFires
  BY <1>11 DEF WatchFires, StartDismissal
<1>12. CASE DismissStep
  BY <1>12 DEF DismissStep, DismissCloses, DismissFails, PopupGoes, Over
<1>13. CASE PopupShows
  BY <1>13 DEF PopupShows
<1>14. CASE LauncherStep \/ LauncherFails
  BY <1>14 DEF LauncherStep, LauncherExits, LauncherInterrupted, LauncherFails, Exited
<1>15. CASE PayloadStarts \/ PayloadExits \/ LeftoverEnds \/ UserCloses
  BY <1>15 DEF PayloadStarts, PayloadExits, LeftoverEnds, UserCloses, PopupGoes, Over
<1>16. ASSUME NEW s \in Outs, PayloadOpens(s) \/ PayloadWrites(s) \/ CutRelay(s)
       PROVE  TypeOK'
  BY <1>16 DEF PayloadOpens, PayloadWrites, CutRelay, relayUnchanged, Streams
<1>17. ASSUME NEW s \in Outs,
              ReaderStep(s) \/ ReaderWrites(s) \/ ReaderEnds(s) \/ ReaderBreaks(s)
       PROVE  TypeOK'
  BY <1>17 DEF ReaderStep, ReaderOpens, ReaderAborts, ReaderWakes, ReaderReads, ReaderWrites,
     ReaderEnds, ReaderInterrupted, ReaderBreaks, RelayReturns, relayUnchanged, Streams
<1>18. CASE WriterStep \/ WriterEnds
  BY <1>18 DEF WriterStep, WriterOpens, WriterGivesUp, WriterEnds, RelayReturns,
     relayUnchanged, Streams
<1>19. CASE BeginWait
  BY <1>19 DEF BeginWait, waitUnchanged
<1>20. CASE JoinLauncher \/ JoinEndpoints
  BY <1>20 DEF JoinLauncher, JoinEndpoints, waitUnchanged
<1>21. CASE StopDismiss \/ CheckCanceled \/ JoinDismissal
  BY <1>21 DEF StopDismiss, CheckCanceled, JoinDismissal, StartDismissal, waitUnchanged
<1>22. CASE CancelLaunch \/ JoinPipes
  BY <1>22 DEF CancelLaunch, JoinPipes, waitUnchanged
<1>23. CASE UndoLaunch
  BY <1>23, TypeUndo DEF UndoLaunch, waitUnchanged
<1>24. CASE WaitReturns
  BY <1>24 DEF WaitReturns, WaitVerdict, waitUnchanged
<1>25. CASE UNCHANGED vars
  BY <1>25 DEF vars
<1>26. QED
  BY <1>1, <1>2, <1>3, <1>4, <1>5, <1>6, <1>7, <1>8, <1>9, <1>10, <1>11, <1>12, <1>13,
     <1>14, <1>15, <1>16, <1>17, <1>18, <1>19, <1>20, <1>21, <1>22, <1>23, <1>24, <1>25
  DEF Next, ExecStep, StreamStep, WaitStep

\* Every variable has its type, in every behaviour and for every set of launches.
THEOREM TypeCorrect == Spec => []TypeOK
<1>1. QED
  BY TypeInit, TypeNext, PTL DEF Spec

------------------------------------------------------------------------------
(* The rollback list and the things it owes. *)

\* Registering an undo of a higher rank than the others keeps the order.
LEMMA PushFacts ==
    ASSUME TypeOK, Ordered, NEW u \in Undos,
           rollback' = Append(rollback, u),
           \A i \in 1..Len(rollback) : Rank[rollback[i]] < Rank[u]
    PROVE  /\ Ordered'
           /\ \A v \in Undos : Registered(v)' <=> Registered(v) \/ v = u
           /\ rollback' # <<>>
<1>1. /\ Len(rollback) \in Nat
      /\ Len(rollback') = Len(rollback) + 1
      /\ \A i \in 1..Len(rollback) : rollback'[i] = rollback[i]
      /\ rollback'[Len(rollback) + 1] = u
      /\ rollback' # <<>>
  BY AppendFacts DEF TypeOK
<1>2. Ordered'
  BY <1>1 DEF Ordered
<1>3. \A v \in Undos : Registered(v)' <=> Registered(v) \/ v = u
  BY <1>1 DEF Registered
<1>4. QED
  BY <1>1, <1>2, <1>3

\* Running the last undo takes exactly that one off the list; the restore, which
\* has the lowest rank, is last only when it is alone.
LEMMA PopFacts ==
    ASSUME TypeOK, Ordered, rollback # <<>>,
           rollback' = SubSeq(rollback, 1, Len(rollback) - 1),
           NEW u, u = rollback[Len(rollback)]
    PROVE  /\ u \in Undos
           /\ Ordered'
           /\ Registered(u) /\ ~Registered(u)'
           /\ \A v \in Undos \ {u} : Registered(v)' <=> Registered(v)
           /\ u = "restore" => rollback' = <<>>
<1>1. /\ Len(rollback) \in Nat \ {0}
      /\ Len(rollback') = Len(rollback) - 1
      /\ \A i \in 1..Len(rollback') : rollback'[i] = rollback[i]
      /\ rollback' \in Seq(Undos)
      /\ u \in Undos
  <2>1. rollback \in Seq(Undos)
    BY DEF TypeOK
  <2>2. QED
    BY <2>1, DropLastFacts
<1>2. Ordered'
  BY <1>1 DEF Ordered
<1>3. Registered(u)
  BY <1>1 DEF Registered
<1>4. \A i \in 1..Len(rollback') : Rank[rollback[i]] < Rank[u]
  BY <1>1 DEF Ordered
<1>5. ~Registered(u)'
  <2>1. SUFFICES ASSUME NEW i \in 1..Len(rollback'), rollback'[i] = u PROVE FALSE
    BY DEF Registered
  <2>2. Rank[u] < Rank[u]
    BY <1>1, <1>4, <2>1
  <2>3. QED
    BY <1>1, <2>2, RankFacts DEF Undos
<1>6. \A v \in Undos \ {u} : Registered(v)' <=> Registered(v)
  BY <1>1 DEF Registered
<1>7. ASSUME u = "restore" PROVE rollback' = <<>>
  <2>1. \A i \in 1..Len(rollback') : FALSE
    <3>1. SUFFICES ASSUME NEW i \in 1..Len(rollback') PROVE FALSE
      OBVIOUS
    <3>2. Rank[rollback[i]] < 1 /\ rollback[i] \in Undos
      BY <1>1, <1>4, <1>7, RankFacts, ListFacts DEF TypeOK
    <3>3. QED
      BY <3>2, RankFacts DEF Undos
  <2>2. QED
    BY <1>1, <2>1, ListFacts
<1>8. QED
  BY <1>1, <1>2, <1>3, <1>5, <1>6, <1>7

\* One undo keeps the list and what is owed in correspondence.
LEMMA UndoOwed ==
    ASSUME TypeOK, Ordered, Owed, UndoLast
    PROVE  /\ Ordered' /\ Owed'
           /\ mux' = "restored" => rollback' = <<>>
           /\ launchCtx' # launchCtx => launchCtx' = "canceled"
           /\ \A v \in Undos : Registered(v)' => Registered(v)
<1> PICK u : u = rollback[Len(rollback)]
  OBVIOUS
<1>1. /\ rollback # <<>>
      /\ rollback' = SubSeq(rollback, 1, Len(rollback) - 1)
      /\ mux' = IF u = "restore" THEN "restored" ELSE mux
      /\ workspace' = IF u = "releaseWorkspace" THEN "removed" ELSE workspace
      /\ launchCtx' = IF u = "cancelLaunch" THEN "canceled" ELSE launchCtx
  BY DEF UndoLast
<1>2. /\ u \in Undos
      /\ Ordered'
      /\ Registered(u) /\ ~Registered(u)'
      /\ \A v \in Undos \ {u} : Registered(v)' <=> Registered(v)
      /\ u = "restore" => rollback' = <<>>
  BY <1>1, PopFacts
<1>3. {"restore", "releaseWorkspace", "cancelLaunch"} \subseteq Undos
  BY DEF Undos
<1>4. mux' = "adjusted" <=> Registered("restore")'
  BY <1>1, <1>2, <1>3 DEF Owed, TypeOK
<1>5. workspace' = "open" <=> Registered("releaseWorkspace")'
  BY <1>1, <1>2, <1>3 DEF Owed, TypeOK
<1>6. launchCtx' = "live" => Registered("cancelLaunch")'
  BY <1>1, <1>2, <1>3 DEF Owed, TypeOK
<1>7. mux' = "restored" => rollback' = <<>>
  BY <1>1, <1>2 DEF Owed
<1>8. QED
  BY <1>1, <1>2, <1>4, <1>5, <1>6, <1>7 DEF Owed

\* Until something is taken nothing is registered.
LEMMA StartIsEmpty ==
    ASSUME TypeOK, Owed, ExecProgress, exec = "start"
    PROVE  rollback = <<>>
<1>1. \A v \in Undos : ~Registered(v)
  BY DEF Owed, ExecProgress, TypeOK, Undos
<1>2. \A i \in 1..Len(rollback) : FALSE
  BY <1>1, ListFacts DEF Registered, TypeOK
<1>3. QED
  BY <1>2, ListFacts DEF TypeOK

\* Every action keeps the rollback list in its order, and equal to what is owed.
LEMMA OwedNext ==
    ASSUME IInv, [Next]_vars
    PROVE  Ordered' /\ Owed'
<1> USE DEF IInv, heldVars, ctxVars
<1>1. CASE UNCHANGED <<rollback, mux, workspace, launchCtx>>
  BY <1>1 DEF Ordered, Owed, Registered
<1>2. CASE Prepare /\ rollback' # rollback
  <2>1. /\ mux' = "adjusted" /\ rollback' = Append(rollback, "restore")
        /\ exec = "start" /\ UNCHANGED <<workspace, launchCtx>>
    BY <1>2 DEF Prepare
  <2>2. rollback = <<>> /\ Len(rollback) = 0
    BY <2>1, StartIsEmpty, ListFacts DEF TypeOK
  <2>3. /\ Ordered'
        /\ \A v \in Undos : Registered(v)' <=> Registered(v) \/ v = "restore"
    BY <2>1, <2>2, PushFacts DEF Undos
  <2>4. QED
    BY <2>1, <2>3 DEF Owed, Undos
<1>3. CASE OpenWorkspace /\ rollback' # rollback
  <2>1. /\ workspace' = "open" /\ rollback' = Append(rollback, "releaseWorkspace")
        /\ exec = "workspace" /\ UNCHANGED <<mux, launchCtx>>
    BY <1>3 DEF OpenWorkspace
  <2>2. \A i \in 1..Len(rollback) : Rank[rollback[i]] < Rank["releaseWorkspace"]
    <3>1. \A i \in 1..Len(rollback) : rollback[i] \in Undos
      BY ListFacts DEF TypeOK
    <3>2. ~Registered("releaseWorkspace") /\ ~Registered("cancelLaunch")
      BY <2>1 DEF Owed, ExecProgress
    <3>3. \A i \in 1..Len(rollback) : rollback[i] = "restore"
      BY <3>1, <3>2 DEF Registered, Undos
    <3>4. QED
      BY <3>3, RankFacts
  <2>3. /\ Ordered'
        /\ \A v \in Undos : Registered(v)' <=> Registered(v) \/ v = "releaseWorkspace"
        /\ rollback' # <<>>
    BY <2>1, <2>2, PushFacts DEF Undos
  <2>4. mux # "restored"
    BY <2>1 DEF ExecProgress, WaitProgress, Launched, Released
  <2>5. QED
    BY <2>1, <2>3, <2>4 DEF Owed, Undos
<1>4. CASE MakeLaunchContext
  <2>1. /\ rollback' = Append(rollback, "cancelLaunch")
        /\ exec = "context" /\ UNCHANGED <<mux, workspace>>
    BY <1>4 DEF MakeLaunchContext
  <2>2. \A i \in 1..Len(rollback) : Rank[rollback[i]] < Rank["cancelLaunch"]
    <3>1. \A i \in 1..Len(rollback) : rollback[i] \in Undos \ {"cancelLaunch"}
      BY <2>1, ListFacts DEF TypeOK, ExecProgress, Registered
    <3>2. QED
      BY <3>1, RankFacts DEF Undos
  <2>3. /\ Ordered'
        /\ \A v \in Undos : Registered(v)' <=> Registered(v) \/ v = "cancelLaunch"
    BY <2>1, <2>2, PushFacts DEF Undos
  <2>4. mux # "restored"
    BY <2>1 DEF ExecProgress, WaitProgress, Launched, Released
  <2>5. QED
    BY <2>1, <2>3, <2>4 DEF Owed, Undos
<1>5. CASE UndoExec \/ UndoLaunch
  BY <1>5, UndoOwed DEF UndoExec, UndoLaunch
<1>6. CASE CancelReachesLaunch \/ CancelLaunch
  BY <1>6 DEF CancelReachesLaunch, CancelLaunch, Ordered, Owed, Registered
<1>7. ASSUME Next
      PROVE \/ UNCHANGED <<rollback, mux, workspace, launchCtx>>
            \/ Prepare /\ rollback' # rollback
            \/ OpenWorkspace /\ rollback' # rollback
            \/ MakeLaunchContext
            \/ UndoExec \/ UndoLaunch
            \/ CancelReachesLaunch \/ CancelLaunch
  <2>1. CASE ExecStep
    BY <2>1 DEF ExecStep, RefuseRequest, Prepare, OpenWorkspace, MakeFifos, LaunchFails,
       LaunchSucceeds, ExecFails
  <2>2. CASE WaitStep \/ BeginWait
    BY <2>2 DEF WaitStep, BeginWait, JoinLauncher, JoinEndpoints, StopDismiss, CheckCanceled,
       JoinDismissal, JoinPipes, WaitReturns
  <2>3. CASE \E s \in Outs : StreamStep(s)
    BY <2>3, StreamFacts
  <2>4. CASE WriterStep \/ WriterEnds
    BY <2>4 DEF WriterStep, WriterOpens, WriterGivesUp, WriterEnds, relayUnchanged
  <2>5. CASE Cancel \/ CancelReachesLaunch \/ WatchFires \/ DismissStep
    BY <2>5 DEF Cancel, WatchFires, DismissStep, DismissCloses, DismissFails
  <2>6. CASE PopupShows \/ LauncherStep \/ LauncherFails
    BY <2>6 DEF PopupShows, LauncherStep, LauncherFails, LauncherExits, LauncherInterrupted
  <2>7. CASE PayloadStarts \/ PayloadExits \/ LeftoverEnds \/ UserCloses
    BY <2>7 DEF PayloadStarts, PayloadExits, LeftoverEnds, UserCloses
  <2>8. QED
    BY <1>7, <2>1, <2>2, <2>3, <2>4, <2>5, <2>6, <2>7 DEF Next
<1>8. CASE UNCHANGED vars
  BY <1>1, <1>8 DEF vars
<1>9. QED
  BY <1>1, <1>2, <1>3, <1>4, <1>5, <1>6, <1>7, <1>8

------------------------------------------------------------------------------
(* How far Exec, the relays, the dismissal and Wait have come. *)

\* Only the undoing of a launch takes an undo off the list or restores anything.
LEMMA ExecProgressNext ==
    ASSUME IInv, [Next]_vars, TypeOK'
    PROVE  ExecProgress'
<1> USE DEF IInv, heldVars, ctxVars, dismissVars, waitVars, Launched, Released,
            Endpoints, Piped, Outputs, Allocated
<1>1. CASE UNCHANGED <<req, exec, rollback, mux, workspace, launchCtx, wait>>
  BY <1>1 DEF ExecProgress, Registered
<1>2. CASE RefuseRequest \/ LaunchFails \/ LaunchSucceeds \/ MakeFifos
  BY <1>2, StartIsEmpty
  DEF RefuseRequest, LaunchFails, LaunchSucceeds, MakeFifos, ExecProgress, WaitProgress,
      Registered
<1>3. CASE Prepare
  <2>1. rollback = <<>> /\ Len(rollback) = 0
    BY <1>3, StartIsEmpty, ListFacts DEF Prepare, TypeOK
  <2>2. CASE UNCHANGED rollback
    BY <1>3, <2>1, <2>2 DEF Prepare, ExecProgress, WaitProgress, Registered
  <2>3. CASE rollback' = Append(rollback, "restore")
    <3>1. \A v \in Undos : Registered(v)' <=> Registered(v) \/ v = "restore"
      BY <2>1, <2>3, PushFacts DEF Undos
    <3>2. ~Registered("cancelLaunch")'
      BY <3>1, <2>1 DEF Registered, Undos
    <3>3. QED
      BY <1>3, <2>3, <3>2, <2>1, AppendFacts DEF Prepare, ExecProgress, WaitProgress, Undos
  <2>4. QED
    BY <1>3, <2>2, <2>3 DEF Prepare
<1>4. CASE OpenWorkspace
  <2>1. CASE UNCHANGED rollback
    BY <1>4, <2>1 DEF OpenWorkspace, NeedsWorkspace, ExecProgress, WaitProgress, Registered
  <2>2. CASE rollback' = Append(rollback, "releaseWorkspace")
    <3>1. ~Registered("cancelLaunch")'
      BY <1>4, <2>2, AppendFacts DEF OpenWorkspace, ExecProgress, Registered, Undos, TypeOK
    <3>2. QED
      BY <1>4, <2>2, <3>1 DEF OpenWorkspace, ExecProgress, WaitProgress
  <2>3. QED
    BY <1>4, <2>1, <2>2 DEF OpenWorkspace
<1>5. CASE MakeLaunchContext
  BY <1>5 DEF MakeLaunchContext, ExecProgress, WaitProgress
<1>6. CASE UndoExec \/ UndoLaunch
  <2>1. CASE UndoExec
    <3>1. exec' = "undoing" /\ wait' = "idle"
      BY <2>1 DEF UndoExec, WaitProgress
    <3>2. QED
      BY <3>1 DEF ExecProgress
  <2>2. CASE UndoLaunch
    <3>1. exec' = "launched" /\ wait' = "undo"
      BY <2>2 DEF UndoLaunch, waitUnchanged, WaitProgress
    <3>2. QED
      BY <3>1 DEF ExecProgress
  <2>3. QED
    BY <1>6, <2>1, <2>2
<1>7. CASE ExecFails
  BY <1>7 DEF ExecFails, ExecProgress, WaitProgress
<1>8. CASE CancelReachesLaunch
  BY <1>8 DEF CancelReachesLaunch, ExecProgress, Registered
<1>9. CASE BeginWait \/ (WaitStep /\ ~UndoLaunch)
  BY <1>9 DEF WaitStep, BeginWait, JoinLauncher, JoinEndpoints, StopDismiss, CheckCanceled,
     JoinDismissal, CancelLaunch, JoinPipes, WaitReturns, waitUnchanged, ExecProgress,
     WaitProgress, Registered
<1>10. CASE \E s \in Outs : StreamStep(s)
  BY <1>1, <1>10, StreamFacts
<1>11. CASE WriterStep \/ WriterEnds
  BY <1>1, <1>11 DEF WriterStep, WriterOpens, WriterGivesUp, WriterEnds, relayUnchanged
<1>12. CASE Cancel \/ WatchFires \/ DismissStep
  BY <1>1, <1>12 DEF Cancel, WatchFires, DismissStep, DismissCloses, DismissFails
<1>13. CASE PopupShows \/ LauncherStep \/ LauncherFails
  BY <1>1, <1>13 DEF PopupShows, LauncherStep, LauncherFails, LauncherExits,
     LauncherInterrupted
<1>14. CASE PayloadStarts \/ PayloadExits \/ LeftoverEnds \/ UserCloses
  BY <1>1, <1>14 DEF PayloadStarts, PayloadExits, LeftoverEnds, UserCloses
<1>15. CASE UNCHANGED vars
  BY <1>1, <1>15 DEF vars
<1>16. QED
  BY <1>2, <1>3, <1>4, <1>5, <1>6, <1>7, <1>8, <1>9, <1>10, <1>11, <1>12, <1>13, <1>14, <1>15
  DEF Next, ExecStep, WaitStep

\* A relay is born with the launch, and once it has ended it stays ended.
LEMMA RelayStep ==
    ASSUME IInv, [Next]_vars
    PROVE  /\ RelayProgress'
           /\ Launched => \A s \in Streams : pump[s] = "done" => pump'[s] = "done"
<1> USE DEF IInv, RelayProgress, Launched, heldVars, ctxVars, dismissVars, waitVars, relayVars,
            Endpoints, Piped, Outputs, Allocated
<1>1. CASE UNCHANGED <<req, pump>> /\ (exec' = "launched" <=> exec = "launched")
  BY <1>1
<1>2. CASE LaunchSucceeds
  BY <1>2 DEF LaunchSucceeds
<1>3. CASE \E s \in Outs : StreamStep(s)
  <2>1. PICK s \in Outs : StreamStep(s)
    BY <1>3
  <2>2. /\ UNCHANGED <<req, exec>>
        /\ \/ UNCHANGED pump
           \/ /\ pump[s] \in {"opening", "waking", "relaying", "writing"}
              /\ \E q \in {"waking", "relaying", "writing", "done"} :
                     pump' = [pump EXCEPT ![s] = q]
    BY <2>1, StreamFacts
  <2>3. CASE UNCHANGED pump
    BY <1>1, <2>2, <2>3
  <2>4. CASE /\ pump[s] \in {"opening", "waking", "relaying", "writing"}
             /\ \E q \in {"waking", "relaying", "writing", "done"} :
                    pump' = [pump EXCEPT ![s] = q]
    BY <2>2, <2>4 DEF Outs, Streams, TypeOK
  <2>5. QED
    BY <2>2, <2>3, <2>4
<1>4. CASE WriterStep \/ WriterEnds
  BY <1>4 DEF WriterStep, WriterOpens, WriterGivesUp, WriterEnds, RelayReturns,
     relayUnchanged, Streams, TypeOK
<1>5. CASE ExecStep /\ ~LaunchSucceeds
  BY <1>1, <1>5 DEF ExecStep, RefuseRequest, Prepare, OpenWorkspace, MakeFifos,
     MakeLaunchContext, LaunchFails, UndoExec, ExecFails
<1>6. CASE BeginWait \/ WaitStep
  BY <1>1, <1>6 DEF WaitStep, BeginWait, JoinLauncher, JoinEndpoints, StopDismiss,
     CheckCanceled, JoinDismissal, CancelLaunch, JoinPipes, UndoLaunch, WaitReturns,
     waitUnchanged
<1>7. CASE Cancel \/ CancelReachesLaunch \/ WatchFires \/ DismissStep
  BY <1>1, <1>7 DEF Cancel, CancelReachesLaunch, WatchFires, DismissStep, DismissCloses,
     DismissFails
<1>8. CASE PopupShows \/ LauncherStep \/ LauncherFails
  BY <1>1, <1>8 DEF PopupShows, LauncherStep, LauncherFails, LauncherExits,
     LauncherInterrupted
<1>9. CASE PayloadStarts \/ PayloadExits \/ LeftoverEnds \/ UserCloses
  BY <1>1, <1>9 DEF PayloadStarts, PayloadExits, LeftoverEnds, UserCloses
<1>10. CASE UNCHANGED vars
  BY <1>1, <1>10 DEF vars
<1>11. QED
  BY <1>2, <1>3, <1>4, <1>5, <1>6, <1>7, <1>8, <1>9, <1>10 DEF Next

\* What the wait has joined stays joined, and it releases a launch only then.
LEMMA WaitProgressNext ==
    ASSUME IInv, [Next]_vars
    PROVE  WaitProgress'
<1> USE DEF IInv, heldVars, ctxVars, dismissVars, waitVars, Launched, Released
<1>1. /\ Launched => \A s \in Streams : pump[s] = "done" => pump'[s] = "done"
      /\ Endpoints \subseteq Streams /\ Piped \subseteq Streams
  BY RelayStep, RequestFacts DEF TypeOK, Streams
<1>2. CASE /\ UNCHANGED <<req, wait>>
           /\ exec = "launched" => exec' = "launched"
           /\ launchCtx = "canceled" => launchCtx' = "canceled"
  BY <1>1, <1>2 DEF WaitProgress, Endpoints, Piped, StreamsDecide
<1>3. CASE BeginWait \/ WaitStep
  <2> USE <1>1 DEF waitUnchanged, WaitProgress, Endpoints, Piped, StreamsDecide, relayVars
  <2>1. CASE BeginWait
    <3>1. req.by = "release" => Endpoints = {}
      BY RequestFacts DEF TypeOK
    <3>2. QED
      BY <2>1, <3>1 DEF BeginWait
  <2>2. CASE JoinLauncher \/ JoinEndpoints
    BY <2>2 DEF JoinLauncher, JoinEndpoints
  <2>3. CASE StopDismiss \/ CheckCanceled \/ JoinDismissal
    BY <2>3 DEF StopDismiss, CheckCanceled, JoinDismissal
  <2>4. CASE CancelLaunch \/ JoinPipes \/ WaitReturns
    BY <2>4 DEF CancelLaunch, JoinPipes, WaitReturns
  <2>5. CASE UndoLaunch
    BY <2>5 DEF UndoLaunch, UndoLast
  <2>6. QED
    BY <1>3, <2>1, <2>2, <2>3, <2>4, <2>5 DEF WaitStep
<1>4. CASE ExecStep
  <2>1. wait = "idle" /\ wait' = "idle" /\ req' = req
    BY <1>4 DEF ExecStep, RefuseRequest, Prepare, OpenWorkspace, MakeFifos, MakeLaunchContext,
       LaunchFails, LaunchSucceeds, UndoExec, ExecFails, WaitProgress, TypeOK
  <2>2. QED
    BY <2>1 DEF WaitProgress
<1>5. CASE Cancel \/ CancelReachesLaunch \/ WatchFires \/ DismissStep
  BY <1>2, <1>5 DEF Cancel, CancelReachesLaunch, WatchFires, DismissStep, DismissCloses,
     DismissFails
<1>6. CASE PopupShows \/ LauncherStep \/ LauncherFails
  BY <1>2, <1>6 DEF PopupShows, LauncherStep, LauncherFails, LauncherExits,
     LauncherInterrupted
<1>7. CASE PayloadStarts \/ PayloadExits \/ LeftoverEnds \/ UserCloses
  BY <1>2, <1>7 DEF PayloadStarts, PayloadExits, LeftoverEnds, UserCloses
<1>8. CASE \E s \in Outs : StreamStep(s)
  BY <1>2, <1>8, StreamFacts
<1>9. CASE WriterStep \/ WriterEnds
  BY <1>2, <1>9 DEF WriterStep, WriterOpens, WriterGivesUp, WriterEnds, relayUnchanged
<1>10. CASE UNCHANGED vars
  BY <1>2, <1>10 DEF vars
<1>11. QED
  BY <1>3, <1>4, <1>5, <1>6, <1>7, <1>8, <1>9, <1>10 DEF Next

\* A dismissal starts from the watch or from the release, and never after it.
LEMMA DismissalProgressNext ==
    ASSUME IInv, [Next]_vars
    PROVE  DismissalProgress'
<1> USE DEF IInv, DismissalProgress, WaitProgress, Launched, dismissVars, waitVars, TypeOK
<1>1. CASE /\ UNCHANGED <<watch, dismissal, wait, stopped>>
           /\ exec' = "launched" <=> exec = "launched"
  BY <1>1
<1>2. CASE ExecStep
  <2>1. exec # "launched" /\ UNCHANGED <<wait, dismissal>>
    BY <1>2 DEF ExecStep, RefuseRequest, Prepare, OpenWorkspace, MakeFifos, MakeLaunchContext,
       LaunchFails, LaunchSucceeds, UndoExec, ExecFails
  <2>2. (watch' = "none" /\ exec' # "launched") \/ (watch' = "armed" /\ exec' = "launched")
    BY <1>2, <2>1 DEF ExecStep, RefuseRequest, Prepare, OpenWorkspace, MakeFifos,
       MakeLaunchContext, LaunchFails, LaunchSucceeds, UndoExec, ExecFails
  <2>3. wait = "idle" /\ watch = "none" /\ dismissal = "none"
    BY <2>1
  <2>4. /\ wait' = "idle" /\ dismissal' = "none"
        /\ watch' \in {"none", "armed"}
        /\ watch' = "armed" <=> exec' = "launched"
    BY <2>1, <2>2, <2>3
  <2>5. QED
    BY ONLY <2>4 DEF DismissalProgress, Launched
<1>3. CASE BeginWait \/ JoinLauncher \/ JoinEndpoints
  BY <1>3 DEF BeginWait, JoinLauncher, JoinEndpoints, waitUnchanged
<1>4. CASE StopDismiss
  <2>1. /\ wait = "stop" /\ wait' = "check" /\ UNCHANGED <<exec, dismissal>>
        /\ watch' = IF watch = "armed" THEN "stopped" ELSE watch
        /\ watch \in {"armed", "fired"}
    BY <1>4 DEF StopDismiss, waitUnchanged
  <2>2. stopped' <=> watch' = "stopped"
    <3>1. stopped' = (watch = "armed")
      BY <1>4 DEF StopDismiss
    <3>2. QED
      BY <2>1, <3>1
  <2>3. watch # "fired" => dismissal = "none"
    BY <2>1
  <2>4. QED
    BY <2>1, <2>2, <2>3
<1>5. CASE CheckCanceled
  BY <1>5 DEF CheckCanceled, StartDismissal, waitUnchanged
<1>6. CASE JoinDismissal \/ CancelLaunch \/ JoinPipes \/ UndoLaunch \/ WaitReturns
  BY <1>6 DEF JoinDismissal, CancelLaunch, JoinPipes, UndoLaunch, WaitReturns, waitUnchanged
<1>7. CASE WatchFires
  BY <1>7 DEF WatchFires, StartDismissal
<1>8. CASE DismissStep
  BY <1>8 DEF DismissStep, DismissCloses, DismissFails
<1>9. CASE Cancel \/ CancelReachesLaunch \/ PopupShows \/ LauncherStep \/ LauncherFails
  BY <1>1, <1>9 DEF Cancel, CancelReachesLaunch, PopupShows, LauncherStep, LauncherFails,
     LauncherExits, LauncherInterrupted
<1>10. CASE PayloadStarts \/ PayloadExits \/ LeftoverEnds \/ UserCloses
  BY <1>1, <1>10 DEF PayloadStarts, PayloadExits, LeftoverEnds, UserCloses
<1>11. CASE \E s \in Outs : StreamStep(s)
  BY <1>1, <1>11, StreamFacts
<1>12. CASE WriterStep \/ WriterEnds
  BY <1>1, <1>12 DEF WriterStep, WriterOpens, WriterGivesUp, WriterEnds, relayUnchanged
<1>13. CASE UNCHANGED vars
  BY <1>1, <1>13 DEF vars
<1>14. QED
  BY <1>2, <1>3, <1>4, <1>5, <1>6, <1>7, <1>8, <1>9, <1>10, <1>11, <1>12, <1>13
  DEF Next, WaitStep

------------------------------------------------------------------------------
(* The inductive invariant and what follows from it. *)

\* A launch starts in the invariant.
LEMMA IInvInit == Init => IInv
<1> SUFFICES ASSUME Init PROVE IInv
  OBVIOUS
<1>1. TypeOK
  BY TypeInit
<1>2. Len(rollback) = 0
  BY EmptySeq DEF Init
<1>3. QED
  BY <1>1, <1>2 DEF Init, IInv, Ordered, Owed, Registered, ExecProgress, WaitProgress,
     RelayProgress, DismissalProgress, Launched, Released

\* Every action keeps the invariant.
LEMMA IInvNext == IInv /\ [Next]_vars => IInv'
  BY TypeNext, OwedNext, ExecProgressNext, WaitProgressNext, RelayStep, DismissalProgressNext
  DEF IInv

\* launch.go: whatever Exec, its release and its wait do, the rollback list is what the
\* launch still owes, and the invariant holds in every state of every launch.
THEOREM Invariance == Spec => []IInv
  BY IInvInit, IInvNext, PTL DEF Spec

\* The FIFOs outlive the relays, for every set of launches.
THEOREM FifosOutliveRelays == Spec => []FifoOutlivesRelay
<1>1. IInv => FifoOutlivesRelay
  <2> SUFFICES ASSUME IInv, NEW s \in Outs, pump[s] \notin {"idle", "done"}
               PROVE  workspace = "open"
    BY DEF FifoOutlivesRelay
  <2>1. s \in Outputs /\ Launched /\ Outputs = Endpoints \cup Piped /\ Allocated # {}
    BY RequestFacts DEF IInv, TypeOK, RelayProgress, Streams, Outs
  <2>2. ~Released
    BY <2>1 DEF IInv, WaitProgress, Released
  <2>3. QED
    BY <2>1, <2>2 DEF IInv, ExecProgress, Launched
<1>2. QED
  BY <1>1, Invariance, PTL

\* Multiplexer state comes back last, on every way out of a launch.
THEOREM MuxRestoredLast == Spec => []RestoredLast
<1>1. IInv => RestoredLast
  BY ListFacts DEF IInv, RestoredLast, Owed, Registered, TypeOK
<1>2. QED
  BY <1>1, Invariance, PTL

\* A failed Exec and a returned Wait hold nothing.
THEOREM NothingIsKept == Spec => []NothingKept
<1>1. IInv => NothingKept
  BY ListFacts DEF IInv, NothingKept, Owed, ExecProgress, Registered, TypeOK
<1>2. QED
  BY <1>1, Invariance, PTL

\* Endpoints are closed exactly by the launches that adopted them.
THEOREM EndpointsAreAccountedFor == Spec => []EndpointsAccountedFor
<1>1. IInv => EndpointsAccountedFor
  BY RequestFacts DEF IInv, EndpointsAccountedFor, WaitProgress, RelayProgress, Launched,
     Released, TypeOK
<1>2. QED
  BY <1>1, Invariance, PTL

\* No dismissal is running or armed once the launch has been released.
THEOREM NoLateDismissal == Spec => []NoDismissalAfterRelease
<1>1. IInv => NoDismissalAfterRelease
  BY DEF IInv, NoDismissalAfterRelease, DismissalProgress, TypeOK
<1>2. QED
  BY <1>1, Invariance, PTL

\* A cancellation the watch noticed is a dismissal over and done with by the time the
\* release cancels the launch: JoinDismissal has waited for whoever ran it.
THEOREM NoticedMeansDismissed == Spec => []NoticedCancelDismisses
<1>1. IInv => NoticedCancelDismisses
  BY DEF IInv, NoticedCancelDismisses, DismissalProgress, TypeOK
<1>2. QED
  BY <1>1, Invariance, PTL

------------------------------------------------------------------------------
(* What a clean verdict says of the payload. *)

\* A relay reads only what the payload opened, and says nil only once the payload has
\* ended; the wait says nil only if every endpoint's relay does.
RanFacts ==
    /\ \A s \in Outs : pump[s] \in {"relaying", "writing"} => s \in met
    /\ \A s \in Outs : perr[s] = "nil" => s \in met /\ payload \in Over
    /\ serr = "nil" => Endpoints = {} \/ (payload \in Over /\ Endpoints \subseteq met)
    /\ verdict = "nil" => serr = "nil" /\ wait = "returned"

\* Nothing takes back what the wait has found, nor the payload's end.
LEMMA RanNext ==
    ASSUME TypeOK, RanFacts, [Next]_vars
    PROVE  RanFacts'
<1> USE DEF RanFacts, heldVars, ctxVars, dismissVars, waitVars, relayVars, popupVars, Endpoints
<1>1. CASE /\ UNCHANGED <<req, pump, perr, serr, verdict>>
           /\ met \subseteq met'
           /\ payload \in Over => payload' \in Over
           /\ wait = "returned" => wait' = "returned"
  BY <1>1
<1>2. CASE LaunchSucceeds
  BY <1>2 DEF LaunchSucceeds, Streams, Outs
<1>3. CASE ExecStep /\ ~LaunchSucceeds
  BY <1>1, <1>3 DEF ExecStep, RefuseRequest, Prepare, OpenWorkspace, MakeFifos,
     MakeLaunchContext, LaunchFails, UndoExec, ExecFails
<1>4. CASE Cancel \/ CancelReachesLaunch \/ WatchFires \/ DismissStep
  BY <1>1, <1>4 DEF Cancel, CancelReachesLaunch, WatchFires, DismissStep, DismissCloses,
     DismissFails, PopupGoes, Over
<1>5. CASE PopupShows \/ LauncherStep \/ LauncherFails
  BY <1>1, <1>5 DEF PopupShows, LauncherStep, LauncherFails, LauncherExits,
     LauncherInterrupted
<1>6. CASE PayloadStarts \/ PayloadExits \/ LeftoverEnds \/ UserCloses
  BY <1>1, <1>6 DEF PayloadStarts, PayloadExits, LeftoverEnds, UserCloses, PopupGoes, Over
<1>7. ASSUME NEW s \in Outs, StreamStep(s) PROVE RanFacts'
  <2> USE DEF relayUnchanged, Outs, Streams, TypeOK
  <2>1. CASE PayloadOpens(s) \/ PayloadWrites(s) \/ CutRelay(s)
    BY <1>1, <2>1 DEF PayloadOpens, PayloadWrites, CutRelay
  <2>2. CASE ReaderStep(s)
    BY <2>2 DEF ReaderStep, ReaderOpens, ReaderAborts, ReaderWakes, ReaderReads,
       ReaderInterrupted, RelayReturns
  <2>3. CASE ReaderWrites(s) \/ ReaderEnds(s) \/ ReaderBreaks(s)
    BY <2>3 DEF ReaderWrites, ReaderEnds, ReaderBreaks, RelayReturns
  <2>4. QED
    BY <1>7, <2>1, <2>2, <2>3 DEF StreamStep
<1>8. CASE WriterStep \/ WriterEnds
  BY <1>8 DEF WriterStep, WriterOpens, WriterGivesUp, WriterEnds, RelayReturns,
     relayUnchanged, Outs, Streams, TypeOK
<1>9. CASE JoinEndpoints
  <2>1. serr' = "nil" => \A s \in Endpoints : perr[s] = "nil"
    BY <1>9 DEF JoinEndpoints
  <2>2. Endpoints \subseteq Outs
    BY RequestFacts DEF TypeOK
  <2>3. /\ UNCHANGED <<req, pump, perr, met, payload, verdict>>
        /\ verdict # "nil"
    BY <1>9 DEF JoinEndpoints, waitUnchanged
  <2>4. QED
    BY <2>1, <2>2, <2>3
<1>10. CASE WaitReturns
  BY <1>10 DEF WaitReturns, WaitVerdict, waitUnchanged
<1>11. CASE BeginWait \/ (WaitStep /\ ~JoinEndpoints /\ ~WaitReturns)
  BY <1>1, <1>11 DEF WaitStep, BeginWait, JoinLauncher, StopDismiss, CheckCanceled,
     JoinDismissal, CancelLaunch, JoinPipes, UndoLaunch, waitUnchanged
<1>12. CASE UNCHANGED vars
  BY <1>1, <1>12 DEF vars
<1>13. QED
  BY <1>2, <1>3, <1>4, <1>5, <1>6, <1>7, <1>8, <1>9, <1>10, <1>11, <1>12 DEF Next

\* No clean verdict for a payload that never ran, for every set of launches.
THEOREM CleanVerdictRan == Spec => []CleanVerdictMeansPayloadRan
<1>1. Init => RanFacts
  BY DEF Init, RanFacts, Outs, Streams
<1>2. TypeOK /\ RanFacts /\ [Next]_vars => RanFacts'
  BY RanNext
<1>3. RanFacts => CleanVerdictMeansPayloadRan
  BY DEF RanFacts, CleanVerdictMeansPayloadRan
<1>4. QED
  BY <1>1, <1>2, <1>3, TypeCorrect, PTL DEF Spec

------------------------------------------------------------------------------
(* The launch implements LaunchLease. *)

\* The phases of the lease, told apart by where Exec and Wait are.
Phased ==
    /\ exec = "undoing" => leasePhase = "undoing"
    /\ exec = "failed" => leasePhase = "refused"
    /\ exec = "launched" /\ wait = "undo" => leasePhase = "ending"
    /\ exec = "launched" /\ wait = "returned" => leasePhase = "ended"
    /\ exec = "launched" /\ wait \notin {"undo", "returned"} => leasePhase = "running"
    /\ exec \in {"start", "workspace", "fifos", "context", "launch"} => leasePhase = "taking"

\* Which phase of the lease a launch is in follows from how far Exec and the wait are.
LEMMA PhaseFacts ==
    ASSUME TypeOK, TypeOK'
    PROVE  Phased /\ Phased'
<1>1. Phased
  BY DEF Phased, leasePhase
<1>2. Phased'
  BY DEF Phased, leasePhase
<1>3. QED
  BY <1>1, <1>2

\* A step that leaves Exec, the rollback list, the relays and the two ends of Wait
\* alone is no step of the lease.
LEMMA LeaseStutters ==
    ASSUME TypeOK, TypeOK', UNCHANGED <<exec, rollback, pump>>,
           wait' = wait \/ {wait, wait'} \cap {"undo", "returned"} = {}
    PROVE  UNCHANGED Lease!leaseVars
<1>1. leasePhase' = leasePhase
  BY DEF leasePhase
<1>2. openStreams' = openStreams
  BY DEF openStreams
<1>3. QED
  BY <1>1, <1>2 DEF Lease!leaseVars

\* A relay ending closes its stream; every other relay step leaves it open.
LEMMA RelayClosesStream ==
    ASSUME IInv, TypeOK', NEW s \in Outs, StreamStep(s)
    PROVE  Lease!LeaseNext \/ UNCHANGED Lease!leaseVars
<1> USE DEF IInv, heldVars, waitVars
<1>0. UNCHANGED <<exec, rollback, wait>>
  BY StreamFacts
<1> SUFFICES ASSUME /\ pump[s] \in {"opening", "waking", "relaying", "writing"}
                    /\ \E q \in {"waking", "relaying", "writing", "done"} :
                           pump' = [pump EXCEPT ![s] = q]
             PROVE  Lease!LeaseNext \/ UNCHANGED Lease!leaseVars
  BY <1>0, StreamFacts, LeaseStutters
<1>1. /\ UNCHANGED <<exec, rollback, wait>>
      /\ pump[s] \in {"opening", "waking", "relaying", "writing"}
      /\ \E q \in {"waking", "relaying", "writing", "done"} :
             pump' = [pump EXCEPT ![s] = q]
  BY <1>0
<1>2. exec = "launched" /\ wait \notin {"undo", "returned"}
  <2>1. s \in Outputs /\ exec = "launched" /\ Outputs = Endpoints \cup Piped
    BY <1>1, RequestFacts DEF TypeOK, RelayProgress, Launched, Streams, Outs
  <2>2. QED
    BY <1>1, <2>1 DEF WaitProgress, Released
<1>3. leasePhase = "running" /\ leasePhase' = "running"
  BY <1>1, <1>2, PhaseFacts DEF Phased
<1>4. s \in openStreams
  BY <1>1 DEF openStreams
<1>5. CASE pump' = [pump EXCEPT ![s] = "done"]
  <2>1. openStreams' = openStreams \ {s}
    BY <1>5 DEF openStreams, TypeOK, Streams
  <2>2. Lease!CloseStream(s)
    BY <1>1, <1>3, <1>4, <2>1 DEF Lease!CloseStream
  <2>3. QED
    BY <2>2 DEF Lease!LeaseNext
<1>6. CASE \E q \in {"waking", "relaying", "writing"} : pump' = [pump EXCEPT ![s] = q]
  <2>1. openStreams' = openStreams
    BY <1>1, <1>6 DEF openStreams, TypeOK, Streams
  <2>2. QED
    BY <1>1, <1>3, <2>1 DEF Lease!leaseVars
<1>7. QED
  BY <1>1, <1>5, <1>6

\* Each step of a launch is a step of its lease, or none.
LEMMA LeaseStep ==
    ASSUME IInv, IInv', [Next]_vars
    PROVE  Lease!LeaseNext \/ UNCHANGED Lease!leaseVars
<1> USE DEF heldVars, ctxVars, dismissVars, popupVars, relayVars, waitVars
<1>0. TypeOK /\ TypeOK'
  BY DEF IInv
<1>1. CASE RefuseRequest
  <2>1. exec = "start" /\ exec' = "failed" /\ UNCHANGED <<rollback, pump>>
    BY <1>1 DEF RefuseRequest
  <2>2. rollback = <<>>
    BY <2>1, StartIsEmpty DEF IInv
  <2>3. Lease!RefuseAtOnce
    BY <1>0, <2>1, <2>2, PhaseFacts DEF Phased, Lease!RefuseAtOnce, openStreams
  <2>4. QED
    BY <2>3 DEF Lease!LeaseNext
<1>2. CASE Prepare
  <2>1. exec = "start" /\ UNCHANGED <<pump, wait>>
    BY <1>2 DEF Prepare
  <2>2. rollback = <<>>
    BY <2>1, StartIsEmpty DEF IInv
  <2>3. CASE exec' = "failed"
    <3>1. UNCHANGED rollback
      BY <1>2, <2>3 DEF Prepare
    <3>2. Lease!RefuseAtOnce
      BY <1>0, <2>1, <2>2, <2>3, <3>1, PhaseFacts DEF Phased, Lease!RefuseAtOnce, openStreams
    <3>3. QED
      BY <3>2 DEF Lease!LeaseNext
  <2>4. CASE exec' = "workspace"
    <3>1. leasePhase = "taking" /\ leasePhase' = "taking" /\ openStreams' = openStreams
      BY <1>0, <2>1, <2>4, PhaseFacts DEF Phased, openStreams
    <3>2. UNCHANGED rollback \/ rollback' = Append(rollback, "restore")
      BY <1>2 DEF Prepare
    <3>3. QED
      BY <3>1, <3>2 DEF Lease!Take, Lease!LeaseNext, Lease!leaseVars, Undos
  <2>5. QED
    BY <1>2, <2>3, <2>4 DEF Prepare
<1>3. CASE OpenWorkspace
  <2>1. exec = "workspace" /\ exec' \in {"undoing", "fifos", "context"} /\ UNCHANGED pump
    BY <1>3 DEF OpenWorkspace
  <2>2. openStreams' = openStreams
    BY <2>1 DEF openStreams
  <2>3. CASE exec' = "undoing"
    <3>1. Lease!GiveUp
      BY <1>0, <1>3, <2>1, <2>2, <2>3, PhaseFacts DEF Phased, OpenWorkspace, Lease!GiveUp
    <3>2. QED
      BY <3>1 DEF Lease!LeaseNext
  <2>4. CASE exec' # "undoing"
    <3>1. leasePhase = "taking" /\ leasePhase' = "taking"
      BY <1>0, <2>1, <2>4, PhaseFacts DEF Phased
    <3>2. UNCHANGED rollback \/ rollback' = Append(rollback, "releaseWorkspace")
      BY <1>3 DEF OpenWorkspace
    <3>3. QED
      BY <2>2, <3>1, <3>2 DEF Lease!Take, Lease!LeaseNext, Lease!leaseVars, Undos
  <2>5. QED
    BY <2>3, <2>4
<1>4. CASE MakeFifos \/ LaunchFails
  <2>1. /\ exec \in {"fifos", "launch"} /\ exec' \in {"context", "undoing"}
        /\ UNCHANGED <<rollback, pump>>
    BY <1>4 DEF MakeFifos, LaunchFails
  <2>2. openStreams' = openStreams
    BY <2>1 DEF openStreams
  <2>3. QED
    BY <1>0, <2>1, <2>2, PhaseFacts DEF Phased, Lease!GiveUp, Lease!LeaseNext, Lease!leaseVars
<1>5. CASE MakeLaunchContext
  <2>1. /\ exec = "context" /\ exec' = "launch"
        /\ rollback' = Append(rollback, "cancelLaunch") /\ UNCHANGED pump
    BY <1>5 DEF MakeLaunchContext
  <2>2. Lease!Take("cancelLaunch")
    BY <1>0, <2>1, PhaseFacts DEF Phased, Lease!Take, openStreams
  <2>3. QED
    BY <2>2 DEF Lease!LeaseNext, Undos
<1>6. CASE LaunchSucceeds
  <2>1. exec = "launch" /\ exec' = "launched" /\ UNCHANGED <<rollback, wait>>
    BY <1>6 DEF LaunchSucceeds
  <2>2. leasePhase = "taking" /\ leasePhase' = "running"
    BY <1>0, <2>1, PhaseFacts DEF Phased, IInv, WaitProgress, Launched
  <2>3. openStreams' \in SUBSET Outs
    BY DEF openStreams
  <2>4. Lease!Adopt(openStreams')
    BY <2>1, <2>2 DEF Lease!Adopt
  <2>5. QED
    BY <2>3, <2>4 DEF Lease!LeaseNext
<1>7. CASE UndoExec \/ UndoLaunch
  <2>1. /\ rollback # <<>> /\ rollback' = SubSeq(rollback, 1, Len(rollback) - 1)
        /\ UNCHANGED <<exec, wait, pump>>
        /\ exec = "undoing" \/ (exec = "launched" /\ wait = "undo")
    BY <1>7 DEF UndoExec, UndoLaunch, UndoLast, waitUnchanged, IInv, WaitProgress, Launched
  <2>2. Lease!GiveBack
    BY <1>0, <2>1, PhaseFacts DEF Phased, Lease!GiveBack, openStreams
  <2>3. QED
    BY <2>2 DEF Lease!LeaseNext
<1>8. CASE ExecFails
  <2>1. /\ rollback = <<>> /\ exec = "undoing" /\ exec' = "failed"
        /\ UNCHANGED <<rollback, pump>>
    BY <1>8 DEF ExecFails
  <2>2. Lease!Finish
    BY <1>0, <2>1, PhaseFacts DEF Phased, Lease!Finish, openStreams
  <2>3. QED
    BY <2>2 DEF Lease!LeaseNext
<1>9. CASE JoinPipes
  <2>1. /\ wait = "pipes" /\ wait' = "undo" /\ exec = "launched"
        /\ UNCHANGED <<exec, rollback, pump>>
    BY <1>9 DEF JoinPipes, waitUnchanged, IInv, WaitProgress, Launched
  <2>2. openStreams = {}
    <3>1. \A s \in Endpoints \cup Piped : pump[s] = "done"
      BY <1>9, <2>1 DEF JoinPipes, IInv, WaitProgress
    <3>2. \A s \in Outs : s \notin Outputs => pump[s] = "idle"
      BY RequestFacts DEF IInv, TypeOK, RelayProgress, Streams, Outs
    <3>3. QED
      BY <3>1, <3>2, RequestFacts DEF openStreams, IInv, TypeOK
  <2>3. openStreams' = openStreams
    BY <2>1 DEF openStreams
  <2>4. Lease!StartEnding
    BY <1>0, <2>1, <2>2, <2>3, PhaseFacts DEF Phased, Lease!StartEnding
  <2>5. QED
    BY <2>4 DEF Lease!LeaseNext
<1>10. CASE WaitReturns
  <2>1. /\ wait = "undo" /\ wait' = "returned" /\ exec = "launched" /\ rollback = <<>>
        /\ UNCHANGED <<exec, rollback, pump>>
    BY <1>10 DEF WaitReturns, waitUnchanged, IInv, WaitProgress, Launched
  <2>2. Lease!Finish
    BY <1>0, <2>1, PhaseFacts DEF Phased, Lease!Finish, openStreams
  <2>3. QED
    BY <2>2 DEF Lease!LeaseNext
<1>11. CASE BeginWait \/ JoinLauncher \/ JoinEndpoints \/ StopDismiss \/ CheckCanceled
            \/ JoinDismissal \/ CancelLaunch
  <2>1. UNCHANGED <<exec, rollback, pump>> /\ {wait, wait'} \cap {"undo", "returned"} = {}
    BY <1>11 DEF BeginWait, JoinLauncher, JoinEndpoints, StopDismiss, CheckCanceled,
       JoinDismissal, CancelLaunch, waitUnchanged
  <2>2. QED
    BY <1>0, <2>1, LeaseStutters
<1>12. CASE \E s \in Outs : StreamStep(s)
  BY <1>0, <1>12, RelayClosesStream
<1>13. CASE WriterStep \/ WriterEnds
  <2>1. UNCHANGED <<exec, rollback, wait>> /\ \A s \in Outs : pump'[s] = pump[s]
    BY <1>0, <1>13 DEF WriterStep, WriterOpens, WriterGivesUp, WriterEnds, RelayReturns,
       relayUnchanged, TypeOK, Outs, Streams
  <2>2. openStreams' = openStreams /\ leasePhase' = leasePhase
    BY <2>1 DEF openStreams, leasePhase
  <2>3. QED
    BY <2>1, <2>2 DEF Lease!leaseVars
<1>14. CASE Cancel \/ CancelReachesLaunch \/ WatchFires \/ DismissStep
  <2>1. UNCHANGED <<exec, rollback, pump, wait>>
    BY <1>14 DEF Cancel, CancelReachesLaunch, WatchFires, DismissStep, DismissCloses,
       DismissFails
  <2>2. QED
    BY <1>0, <2>1, LeaseStutters
<1>15. CASE PopupShows \/ LauncherStep \/ LauncherFails
  <2>1. UNCHANGED <<exec, rollback, pump, wait>>
    BY <1>15 DEF PopupShows, LauncherStep, LauncherFails, LauncherExits, LauncherInterrupted
  <2>2. QED
    BY <1>0, <2>1, LeaseStutters
<1>16. CASE PayloadStarts \/ PayloadExits \/ LeftoverEnds \/ UserCloses
  <2>1. UNCHANGED <<exec, rollback, pump, wait>>
    BY <1>16 DEF PayloadStarts, PayloadExits, LeftoverEnds, UserCloses
  <2>2. QED
    BY <1>0, <2>1, LeaseStutters
<1>17. CASE UNCHANGED vars
  BY <1>0, <1>17, LeaseStutters DEF vars
<1>18. QED
  BY <1>1, <1>2, <1>3, <1>4, <1>5, <1>6, <1>7, <1>8, <1>9, <1>10, <1>11, <1>12, <1>13,
     <1>14, <1>15, <1>16, <1>17
  DEF Next, ExecStep, WaitStep

\* Exec and Wait take, run and give back as LaunchLease promises, for every set of
\* launches: the refinement KeepsLease that the run checks.
THEOREM LeaseKept == Spec => KeepsLease
<1>1. Init => Lease!LeaseInit
  BY DEF Init, Lease!LeaseInit, leasePhase, openStreams, Outs, Streams
<1>2. IInv /\ IInv' /\ [Next]_vars => [Lease!LeaseNext]_(Lease!leaseVars)
  BY LeaseStep
<1>3. QED
  BY <1>1, <1>2, Invariance, PTL DEF Spec, KeepsLease, Lease!LeaseSpec

------------------------------------------------------------------------------
(* The launch implements LaunchRun. *)

\* There is a launcher as soon as Exec has launched one, and the watch fires on a
\* cancellation alone.
RunFacts ==
    /\ launcher = "none" <=> ~Launched
    /\ watch = "fired" => canceled

\* Nothing takes the launcher or the cancellation back.
LEMMA RunFactsNext ==
    ASSUME RunFacts, [Next]_vars
    PROVE  RunFacts'
<1> USE DEF RunFacts, Launched, heldVars, ctxVars, dismissVars, waitVars, relayVars, popupVars
<1>1. CASE ExecStep
  BY <1>1 DEF ExecStep, RefuseRequest, Prepare, OpenWorkspace, MakeFifos, MakeLaunchContext,
     LaunchFails, LaunchSucceeds, UndoExec, ExecFails
<1>2. CASE Cancel \/ CancelReachesLaunch \/ WatchFires \/ DismissStep
  BY <1>2 DEF Cancel, CancelReachesLaunch, WatchFires, DismissStep, DismissCloses, DismissFails
<1>3. CASE PopupShows \/ LauncherStep \/ LauncherFails
  BY <1>3 DEF PopupShows, LauncherStep, LauncherFails, LauncherExits, LauncherInterrupted, Exited
<1>4. CASE PayloadStarts \/ PayloadExits \/ LeftoverEnds \/ UserCloses
  BY <1>4 DEF PayloadStarts, PayloadExits, LeftoverEnds, UserCloses
<1>5. CASE (\E s \in Outs : StreamStep(s)) \/ WriterStep \/ WriterEnds
  BY <1>5, StreamFacts DEF WriterStep, WriterOpens, WriterGivesUp, WriterEnds, relayUnchanged
<1>6. CASE BeginWait \/ WaitStep
  BY <1>6 DEF BeginWait, WaitStep, JoinLauncher, JoinEndpoints, StopDismiss, CheckCanceled,
     JoinDismissal, CancelLaunch, JoinPipes, UndoLaunch, WaitReturns, waitUnchanged
<1>7. CASE UNCHANGED vars
  BY <1>7 DEF vars
<1>8. QED
  BY <1>1, <1>2, <1>3, <1>4, <1>5, <1>6, <1>7 DEF Next

\* A step that leaves the contexts, the launcher, the dismissal, the relays and the
\* wait's end alone is none of the run's.
LEMMA RunStutters ==
    ASSUME UNCHANGED <<canceled, launchCtx, launcher, dismissal, pump>>,
           wait' = wait \/ {wait, wait'} \cap {"pipes", "undo", "returned"} = {}
                        \/ {wait, wait'} = {"pipes", "undo"}
    PROVE  UNCHANGED Run!runVars
<1>1. runDismissal' = runDismissal /\ openStreams' = openStreams
  BY DEF runDismissal, openStreams
<1>2. runRelease' = runRelease
  BY DEF runRelease
<1>3. QED
  BY <1>1, <1>2 DEF Run!runVars

\* A relay ending closes its stream; every other relay step is none of the run's.
LEMMA RelayClosesRunStream ==
    ASSUME TypeOK, NEW s \in Outs, StreamStep(s)
    PROVE  Run!RunNext \/ UNCHANGED Run!runVars
<1> USE DEF heldVars, waitVars, ctxVars, dismissVars
<1>0. UNCHANGED <<canceled, launchCtx, launcher, dismissal, wait>>
  BY StreamFacts
<1> SUFFICES ASSUME /\ pump[s] \in {"opening", "waking", "relaying", "writing"}
                    /\ \E q \in {"waking", "relaying", "writing", "done"} :
                           pump' = [pump EXCEPT ![s] = q]
             PROVE  Run!RunNext \/ UNCHANGED Run!runVars
  BY <1>0, StreamFacts, RunStutters
<1>1. /\ UNCHANGED <<canceled, launchCtx, launcher, dismissal, wait>>
      /\ pump[s] \in {"opening", "waking", "relaying", "writing"}
      /\ \E q \in {"waking", "relaying", "writing", "done"} :
             pump' = [pump EXCEPT ![s] = q]
  BY <1>0
<1>2. s \in openStreams
  BY <1>1 DEF openStreams
<1>3. runDismissal' = runDismissal /\ runRelease' = runRelease
  BY <1>1 DEF runDismissal, runRelease
<1>4. CASE pump' = [pump EXCEPT ![s] = "done"]
  <2>1. openStreams' = openStreams \ {s}
    BY <1>4 DEF openStreams, TypeOK, Streams
  <2>2. Run!CloseStream(s)
    BY <1>1, <1>2, <1>3, <2>1 DEF Run!CloseStream
  <2>3. QED
    BY <2>2 DEF Run!RunNext
<1>5. CASE \E q \in {"waking", "relaying", "writing"} : pump' = [pump EXCEPT ![s] = q]
  <2>1. openStreams' = openStreams
    BY <1>1, <1>5 DEF openStreams, TypeOK, Streams
  <2>2. QED
    BY <1>1, <1>3, <2>1 DEF Run!runVars
<1>6. QED
  BY <1>1, <1>4, <1>5

\* The first of the watch and the release to notice a cancellation runs the dismissal.
LEMMA DismissesOnce ==
    ASSUME canceled, launcher # "none", runRelease = "no", runRelease' = "no",
           StartDismissal, UNCHANGED <<canceled, launchCtx, launcher, pump>>
    PROVE  Run!RunNext \/ UNCHANGED Run!runVars
<1>1. openStreams' = openStreams
  BY DEF openStreams
<1>2. CASE dismissal = "none"
  <2>1. Run!Dismiss
    BY <1>1, <1>2 DEF Run!Dismiss, StartDismissal, runDismissal
  <2>2. QED
    BY <2>1 DEF Run!RunNext
<1>3. CASE dismissal # "none"
  <2>1. runDismissal' = runDismissal
    BY <1>3 DEF StartDismissal, runDismissal
  <2>2. QED
    BY <1>1, <2>1 DEF Run!runVars
<1>4. QED
  BY <1>2, <1>3

\* Each step of a launch is a step of LaunchRun, or none.
LEMMA RunStep ==
    ASSUME IInv, RunFacts, [Next]_vars
    PROVE  Run!RunNext \/ UNCHANGED Run!runVars
<1> USE DEF heldVars, ctxVars, dismissVars, popupVars, relayVars, waitVars
<1>1. CASE MakeLaunchContext
  <2>1. launchCtx = "none" /\ UNCHANGED <<canceled, launcher, dismissal, pump, wait>>
    BY <1>1 DEF MakeLaunchContext, IInv, ExecProgress
  <2>2. Run!MakeContext
    BY <1>1, <2>1 DEF MakeLaunchContext, Run!MakeContext, runDismissal, runRelease, openStreams
  <2>3. QED
    BY <2>2 DEF Run!RunNext
<1>2. CASE LaunchSucceeds
  <2>1. launcher = "none" /\ launchCtx = "live" /\ launcher' = "running"
    BY <1>2 DEF LaunchSucceeds, RunFacts, Launched
  <2>2. runDismissal' = runDismissal /\ runRelease' = runRelease
    BY <1>2 DEF LaunchSucceeds, runDismissal, runRelease
  <2>3. Run!Start(openStreams')
    BY <1>2, <2>1, <2>2 DEF LaunchSucceeds, Run!Start
  <2>4. openStreams' \in SUBSET Outs
    BY DEF openStreams
  <2>5. QED
    BY <2>3, <2>4 DEF Run!RunNext
<1>3. CASE UndoExec
  <2>1. /\ launcher = "none" /\ UNCHANGED <<canceled, launcher, dismissal, pump, wait>>
        /\ launchCtx' \in {launchCtx, "canceled"}
    BY <1>3 DEF UndoExec, UndoLast, RunFacts, Launched
  <2>2. CASE launchCtx' = launchCtx
    BY <2>1, <2>2, RunStutters
  <2>3. CASE launchCtx' = "canceled"
    <3>1. Run!EndContext
      BY <2>1, <2>3 DEF Run!EndContext, runDismissal, runRelease, openStreams
    <3>2. QED
      BY <3>1 DEF Run!RunNext
  <2>4. QED
    BY <2>1, <2>2, <2>3
<1>4. CASE ExecStep /\ ~(MakeLaunchContext \/ LaunchSucceeds \/ UndoExec)
  BY <1>4, RunStutters DEF ExecStep, RefuseRequest, Prepare, OpenWorkspace, MakeFifos,
     LaunchFails, ExecFails
<1>5. CASE Cancel
  <2>1. Run!Ask
    BY <1>5 DEF Cancel, Run!Ask, runDismissal, runRelease, openStreams
  <2>2. QED
    BY <2>1 DEF Run!RunNext
<1>6. CASE CancelReachesLaunch
  <2>1. Run!EndContext
    BY <1>6 DEF CancelReachesLaunch, Run!EndContext, runDismissal, runRelease, openStreams
  <2>2. QED
    BY <2>1 DEF Run!RunNext
<1>7. CASE WatchFires
  <2>1. launcher # "none" /\ wait \notin {"pipes", "undo", "returned"} /\ wait' = wait
    BY <1>7 DEF WatchFires, RunFacts, IInv, DismissalProgress
  <2>2. QED
    BY <1>7, <2>1, DismissesOnce DEF WatchFires, runRelease
<1>8. CASE DismissStep
  <2>1. /\ dismissal = "running" /\ dismissal' \in {"closed", "failed"}
        /\ UNCHANGED <<canceled, launchCtx, launcher, pump, wait>>
    BY <1>8 DEF DismissStep, DismissCloses, DismissFails
  <2>2. Run!Dismissed
    BY <2>1 DEF Run!Dismissed, runDismissal, runRelease, openStreams
  <2>3. QED
    BY <2>2 DEF Run!RunNext
<1>9. CASE LauncherStep \/ LauncherFails
  <2>1. /\ launcher = "running" /\ launcher' \in {"ok", "failed"}
        /\ UNCHANGED <<canceled, launchCtx, dismissal, pump, wait>>
    BY <1>9 DEF LauncherStep, LauncherFails, LauncherExits, LauncherInterrupted, Exited
  <2>2. Run!LauncherEnds
    BY <2>1 DEF Run!LauncherEnds, runDismissal, runRelease, openStreams
  <2>3. QED
    BY <2>2 DEF Run!RunNext
<1>10. CASE PopupShows \/ PayloadStarts \/ PayloadExits \/ LeftoverEnds \/ UserCloses
  BY <1>10, RunStutters DEF PopupShows, PayloadStarts, PayloadExits, LeftoverEnds, UserCloses
<1>11. CASE \E s \in Outs : StreamStep(s)
  BY <1>11, RelayClosesRunStream DEF IInv
<1>12. CASE WriterStep \/ WriterEnds
  <2>1. /\ UNCHANGED <<canceled, launchCtx, launcher, dismissal, wait>>
        /\ \A s \in Outs : pump'[s] = pump[s]
    BY <1>12 DEF WriterStep, WriterOpens, WriterGivesUp, WriterEnds, RelayReturns,
       relayUnchanged, IInv, TypeOK, Outs, Streams
  <2>2. openStreams' = openStreams
    BY <2>1 DEF openStreams
  <2>3. QED
    BY <2>1, <2>2 DEF Run!runVars, runDismissal, runRelease
<1>13. CASE CheckCanceled
  <2>1. /\ wait = "check" /\ wait' \in {"dismiss", "cancel"}
        /\ UNCHANGED <<canceled, launchCtx, launcher, pump>>
    BY <1>13 DEF CheckCanceled, waitUnchanged
  <2>2. launcher # "none"
    BY <2>1 DEF RunFacts, IInv, WaitProgress
  <2>3. runRelease = "no" /\ runRelease' = "no"
    BY <2>1 DEF runRelease
  <2>4. CASE ~stopped \/ canceled
    <3>1. canceled
      BY <2>1, <2>4 DEF IInv, DismissalProgress, RunFacts
    <3>2. QED
      BY <1>13, <2>1, <2>2, <2>3, <2>4, <3>1, DismissesOnce DEF CheckCanceled
  <2>5. CASE ~(~stopped \/ canceled)
    BY <1>13, <2>1, <2>5, RunStutters DEF CheckCanceled
  <2>6. QED
    BY <2>4, <2>5
<1>14. CASE CancelLaunch
  <2>1. launcher # "none" /\ dismissal # "running"
    BY <1>14 DEF CancelLaunch, RunFacts, IInv, WaitProgress, DismissalProgress
  <2>2. Run!BeginRelease
    BY <1>14, <2>1 DEF CancelLaunch, waitUnchanged, Run!BeginRelease, runDismissal, runRelease,
       openStreams
  <2>3. QED
    BY <2>2 DEF Run!RunNext
<1>15. CASE UndoLaunch
  <2>1. UNCHANGED <<canceled, launchCtx, launcher, dismissal, pump, wait>>
    BY <1>15 DEF UndoLaunch, UndoLast, waitUnchanged, IInv, WaitProgress
  <2>2. QED
    BY <2>1, RunStutters
<1>16. CASE WaitReturns
  <2>1. /\ wait = "undo" /\ wait' = "returned"
        /\ UNCHANGED <<canceled, launchCtx, launcher, dismissal, pump>>
    BY <1>16 DEF WaitReturns, waitUnchanged
  <2>2. openStreams = {} /\ openStreams' = openStreams
    <3>1. \A s \in Endpoints \cup Piped : pump[s] = "done"
      BY <2>1 DEF IInv, WaitProgress, Released
    <3>2. \A s \in Outs : s \notin Outputs => pump[s] = "idle"
      BY RequestFacts DEF IInv, TypeOK, RelayProgress, Streams, Outs
    <3>3. QED
      BY <2>1, <3>1, <3>2, RequestFacts DEF openStreams, IInv, TypeOK
  <2>3. Run!EndRelease
    BY <2>1, <2>2 DEF Run!EndRelease, runDismissal, runRelease
  <2>4. QED
    BY <2>3 DEF Run!RunNext
<1>17. CASE BeginWait \/ JoinLauncher \/ JoinEndpoints \/ StopDismiss \/ JoinDismissal \/ JoinPipes
  BY <1>17, RunStutters DEF BeginWait, JoinLauncher, JoinEndpoints, StopDismiss, JoinDismissal,
     JoinPipes, waitUnchanged
<1>18. CASE UNCHANGED vars
  BY <1>18, RunStutters DEF vars
<1>19. QED
  BY <1>1, <1>2, <1>3, <1>4, <1>5, <1>6, <1>7, <1>8, <1>9, <1>10, <1>11, <1>12, <1>13, <1>14,
     <1>15, <1>16, <1>17, <1>18
  DEF Next, WaitStep

\* A launch is dismissed only when canceled, once and before its release, which waits for
\* that dismissal and for every stream: for every set of launches.
THEOREM RunKept == Spec => KeepsRun
<1>1. Init => RunFacts /\ Run!RunInit
  BY DEF Init, RunFacts, Launched, Run!RunInit, runDismissal, runRelease, openStreams, Outs, Streams
<1>2. RunFacts /\ [Next]_vars => RunFacts'
  BY RunFactsNext
<1>3. IInv /\ RunFacts /\ [Next]_vars => [Run!RunNext]_(Run!runVars)
  BY RunStep
<1>4. QED
  BY <1>1, <1>2, <1>3, Invariance, PTL DEF Spec, KeepsRun, Run!RunSpec

------------------------------------------------------------------------------
(* Why a launch ends: what CanceledWaitReturns and WaitReturnsAfterPopup    *)
(* rest on.  A wait that is to end always has the guard of a fair step to   *)
(* wait for, or is held up by somebody outside (LaunchCanMove), and every   *)
(* step but the copying of a relay, which has a rank of its own, brings     *)
(* LaunchRank down (LaunchGetsCloser).                                      *)

LaunchPending == wait \notin {"idle", "returned"} /\ (canceled \/ popup = "gone")

\* Who may hold the wait up: whoever does not drain an endpoint, canceled or not, and,
\* unless canceled, a process of the payload's that outlived the popup.
HeldUp ==
    /\ wait = "endpoints"
    /\ \E s \in Endpoints :
        \/ pump[s] = "writing"
        \/ pump[s] = "relaying" /\ ~canceled /\ payload = "left"

LaunchCanMove ==
    LaunchPending =>
        \/ HeldUp
        \/ wait \in {"stop", "check", "cancel", "undo"}
        \/ canceled /\ launchCtx = "live"
        \/ launcher = "running" /\ launchCtx = "canceled"
        \/ launcher = "running" /\ popup = "gone"
        \/ wait = "launcher" /\ launcher \in Exited
        \/ wait = "endpoints" /\ \A s \in Endpoints : pump[s] = "done"
        \/ \E s \in Outs : pump[s] \in {"opening", "waking"}
        \/ launchCtx = "canceled" /\ \E s \in Outs \ cut : pump[s] \in {"relaying", "writing"}
        \/ \E s \in cut : pump[s] = "relaying" \/ (pump[s] = "writing" /\ s \in Piped)
        \/ payload = "exited" /\ \E s \in Outs : pump[s] = "relaying"
        \/ dismissal = "running"
        \/ wait = "dismiss" /\ dismissal \in {"closed", "failed"}
        \/ wait = "pipes" /\ \A s \in Piped : pump[s] = "done"

\* Exec counts twice, because a step of it may add to the rollback list.
execRank ==
    (IF exec = "start" THEN 14 ELSE IF exec = "workspace" THEN 12 ELSE IF exec = "fifos" THEN 10
     ELSE IF exec = "context" THEN 8 ELSE IF exec = "launch" THEN 6
     ELSE IF exec = "undoing" THEN 4 ELSE 0)
    + Len(rollback)
ctxRank ==
    (IF canceled THEN 0 ELSE 1)
    + (IF launchCtx = "none" THEN 2 ELSE IF launchCtx = "live" THEN 1 ELSE 0)
dismissRank ==
    (IF watch \in {"none", "armed"} THEN 1 ELSE 0)
    + (IF dismissal = "none" THEN 2 ELSE IF dismissal = "running" THEN 1 ELSE 0)
popupRank ==
    (IF launcher \in Exited THEN 0 ELSE 1)
    + (IF popup = "none" THEN 2 ELSE IF popup = "up" THEN 1 ELSE 0)
    + (IF payload = "none" THEN 3 ELSE IF payload = "started" THEN 2
       ELSE IF payload = "left" THEN 1 ELSE 0)
streamRank(s) ==
    (IF pump[s] \in {"idle", "opening"} THEN 3 ELSE IF pump[s] = "done" THEN 0
     ELSE IF s \in cut THEN 1 ELSE 2)
    + (IF s \in met THEN 0 ELSE 1)
relayRank == streamRank("stdin") + streamRank("stdout") + streamRank("stderr")
waitRank ==
    IF wait = "idle" THEN 9
    ELSE IF wait = "launcher" THEN (IF StreamsDecide THEN 7 ELSE 8)
    ELSE IF wait = "endpoints" THEN (IF StreamsDecide THEN 8 ELSE 7)
    ELSE IF wait = "stop" THEN 6 ELSE IF wait = "check" THEN 5 ELSE IF wait = "dismiss" THEN 4
    ELSE IF wait = "cancel" THEN 3 ELSE IF wait = "pipes" THEN 2
    ELSE IF wait = "undo" THEN 1 ELSE 0

LaunchRank == execRank + ctxRank + dismissRank + popupRank + relayRank + waitRank

\* What is left to copy: read it, then write it.
copyRank(s) == (IF s \in unread THEN 2 ELSE 0) + (IF pump[s] = "writing" THEN 1 ELSE 0)
CopyRank == copyRank("stdout") + copyRank("stderr")

LaunchGetsCloser ==
    [][/\ \/ LaunchRank' < LaunchRank
          \/ /\ LaunchRank' = LaunchRank
             /\ CopyRank' < CopyRank \/ \E s \in Outs : PayloadWrites(s)
       /\ canceled => canceled'
       /\ popup = "gone" => popup' = "gone"
       /\ payload = "exited" => payload' = "exited"
       /\ wait # "idle" => wait' # "idle"]_vars

\* A payload is gone with its popup, every stream of a launch has its relay, and the
\* release that dismisses has started the dismissal or found it started.
AliveFacts ==
    /\ popup = "gone" <=> payload \in Over
    /\ Launched => launchCtx # "none" /\ \A s \in Allocated : pump[s] # "idle"
    /\ wait = "dismiss" => dismissal # "none"

\* Every step keeps them.
LEMMA AliveNext ==
    ASSUME IInv, AliveFacts, [Next]_vars
    PROVE  AliveFacts'
<1> USE DEF AliveFacts, Launched, heldVars, ctxVars, dismissVars, waitVars, relayVars, popupVars,
        Allocated, Outputs, Piped, Endpoints
<1>1. CASE ExecStep
  <2>1. UNCHANGED <<req, popup, payload, wait, dismissal>>
    BY <1>1 DEF ExecStep, RefuseRequest, Prepare, OpenWorkspace, MakeFifos, MakeLaunchContext,
       LaunchFails, LaunchSucceeds, UndoExec, ExecFails
  <2>2. CASE LaunchSucceeds
    BY <2>1, <2>2, RequestFacts DEF LaunchSucceeds, IInv, TypeOK
  <2>3. CASE ~LaunchSucceeds
    BY <1>1, <2>1, <2>3 DEF ExecStep, RefuseRequest, Prepare, OpenWorkspace, MakeFifos,
       MakeLaunchContext, LaunchFails, UndoExec, ExecFails
  <2>4. QED
    BY <2>2, <2>3
<1>2. CASE Cancel \/ CancelReachesLaunch \/ WatchFires \/ DismissStep
  BY <1>2 DEF Cancel, CancelReachesLaunch, WatchFires, StartDismissal, DismissStep,
     DismissCloses, DismissFails, PopupGoes, Over
<1>3. CASE PopupShows \/ LauncherStep \/ LauncherFails
  BY <1>3 DEF PopupShows, LauncherStep, LauncherFails, LauncherExits, LauncherInterrupted
<1>4. CASE PayloadStarts \/ PayloadExits \/ LeftoverEnds \/ UserCloses
  BY <1>4 DEF PayloadStarts, PayloadExits, LeftoverEnds, UserCloses, PopupGoes, Over
<1>5. CASE (\E s \in Outs : StreamStep(s)) \/ WriterStep \/ WriterEnds
  <2>1. UNCHANGED <<req, exec, launchCtx, popup, payload, wait, dismissal>>
    BY <1>5, StreamFacts DEF WriterStep, WriterOpens, WriterGivesUp, WriterEnds,
       relayUnchanged
  <2>2. \A s \in Streams : pump[s] # "idle" => pump'[s] # "idle"
    <3>1. CASE \E s \in Outs : StreamStep(s)
      BY <3>1, StreamFacts DEF IInv, TypeOK, Streams
    <3>2. CASE WriterStep \/ WriterEnds
      BY <3>2 DEF WriterStep, WriterOpens, WriterGivesUp, WriterEnds, RelayReturns, IInv,
         TypeOK, Streams
    <3>3. QED
      BY <1>5, <3>1, <3>2
  <2>3. QED
    BY <2>1, <2>2, RequestFacts DEF IInv, TypeOK
<1>6. CASE BeginWait \/ WaitStep
  BY <1>6 DEF BeginWait, WaitStep, JoinLauncher, JoinEndpoints, StopDismiss, CheckCanceled,
     StartDismissal, JoinDismissal, CancelLaunch, JoinPipes, UndoLaunch, UndoLast, WaitReturns,
     waitUnchanged
<1>7. CASE UNCHANGED vars
  BY <1>7 DEF vars
<1>8. QED
  BY <1>1, <1>2, <1>3, <1>4, <1>5, <1>6, <1>7 DEF Next

\* A wait that was canceled, and one whose popup is gone, never have nothing to wait for,
\* whoever sits on stdin, leaves a piped stream unread or keeps the payload running; only
\* an endpoint nobody drains, or an uncanceled launch's leftover process, holds them up.
THEOREM LaunchNeverStuck == Spec => []LaunchCanMove
<1>1. Init => AliveFacts /\ RunFacts
  BY DEF Init, AliveFacts, RunFacts, Launched, Over
<1>2. ASSUME IInv, AliveFacts, RunFacts, LaunchPending
      PROVE  LaunchCanMove
  <2>1. Launched /\ launchCtx \in {"live", "canceled"} /\ launcher \in {"running"} \cup Exited
    BY <1>2 DEF LaunchPending, IInv, TypeOK, WaitProgress, AliveFacts, RunFacts
  <2>2. CASE wait = "launcher"
    BY <1>2, <2>1, <2>2 DEF LaunchPending, LaunchCanMove
  <2>3. ASSUME NEW s \in Outs, s \in Outputs
        PROVE  pump[s] \in {"opening", "waking", "relaying", "writing", "done"}
    <3>1. s \in Allocated
      BY <2>3 DEF Allocated
    <3>2. QED
      BY <1>2, <2>1, <2>3, <3>1 DEF IInv, TypeOK, AliveFacts, Streams
  <2>4. CASE wait = "endpoints" /\ \E s \in Endpoints : pump[s] # "done"
    <3>1. PICK s \in Endpoints : pump[s] # "done"
      BY <2>4
    <3>2. s \in Outs /\ s \in Outputs
      BY <1>2, <3>1, RequestFacts DEF IInv, TypeOK
    <3>3. pump[s] \in {"opening", "waking", "relaying", "writing"}
      BY <2>3, <3>1, <3>2
    <3>4. CASE pump[s] \in {"opening", "waking"}
      BY <3>2, <3>4 DEF LaunchCanMove
    <3>5. CASE pump[s] = "writing"
      BY <2>4, <3>1, <3>5 DEF LaunchCanMove, HeldUp
    <3>6. CASE pump[s] = "relaying" /\ canceled
      BY <2>1, <3>2, <3>6 DEF LaunchCanMove
    <3>7. CASE pump[s] = "relaying" /\ ~canceled
      BY <1>2, <2>4, <3>1, <3>2, <3>7 DEF LaunchPending, LaunchCanMove, HeldUp, AliveFacts, Over
    <3>8. QED
      BY <3>3, <3>4, <3>5, <3>6, <3>7
  <2>5. CASE wait = "pipes" /\ \E s \in Piped : pump[s] # "done"
    <3>1. PICK s \in Piped : pump[s] # "done"
      BY <2>5
    <3>2. s \in Outs /\ s \in Outputs
      BY <1>2, <3>1, RequestFacts DEF IInv, TypeOK
    <3>3. pump[s] \in {"opening", "waking", "relaying", "writing"}
      BY <2>3, <3>1, <3>2
    <3>4. launchCtx = "canceled"
      BY <1>2, <2>5 DEF IInv, WaitProgress
    <3>5. QED
      BY <3>1, <3>2, <3>3, <3>4 DEF LaunchCanMove
  <2>6. CASE wait = "dismiss"
    BY <1>2, <2>6 DEF LaunchCanMove, AliveFacts, IInv, TypeOK
  <2>7. CASE wait \in {"stop", "check", "cancel", "undo"}
    BY <2>7 DEF LaunchCanMove
  <2>8. CASE \/ wait = "endpoints" /\ \A s \in Endpoints : pump[s] = "done"
             \/ wait = "pipes" /\ \A s \in Piped : pump[s] = "done"
    BY <2>8 DEF LaunchCanMove
  <2>9. QED
    BY <1>2, <2>2, <2>4, <2>5, <2>6, <2>7, <2>8 DEF LaunchPending, IInv, TypeOK
<1>3. IInv /\ AliveFacts /\ RunFacts => LaunchCanMove
  BY <1>2 DEF LaunchCanMove
<1>4. IInv /\ AliveFacts /\ RunFacts /\ [Next]_vars => AliveFacts' /\ RunFacts'
  BY AliveNext, RunFactsNext
<1>5. QED
  BY <1>1, <1>3, <1>4, Invariance, PTL DEF Spec

\* Exec and either rollback: every step takes one position off, or one undo off the list.
LEMMA ExecDescends ==
    ASSUME IInv, RunFacts, ExecStep \/ UndoLaunch
    PROVE  /\ execRank' < execRank
           /\ ctxRank' <= ctxRank /\ dismissRank' <= dismissRank /\ popupRank' <= popupRank
           /\ relayRank' <= relayRank /\ waitRank' = waitRank
<1> USE DEF heldVars, ctxVars, dismissVars, popupVars, relayVars, waitVars
<1>1. rollback \in Seq(Undos) /\ Len(rollback) \in Nat
  BY ListFacts DEF IInv, TypeOK
<1>2. execRank' < execRank
  <2>1. CASE \/ Prepare /\ rollback' = Append(rollback, "restore")
             \/ OpenWorkspace /\ rollback' = Append(rollback, "releaseWorkspace")
             \/ MakeLaunchContext
    <3>1. PICK u \in Undos : rollback' = Append(rollback, u)
      BY <2>1 DEF MakeLaunchContext, Undos
    <3>2. Len(rollback') = Len(rollback) + 1
      BY <1>1, <3>1, AppendFacts
    <3>3. \/ exec = "start" /\ exec' \in {"workspace", "failed"}
          \/ exec = "workspace" /\ exec' \in {"undoing", "fifos", "context"}
          \/ exec = "context" /\ exec' = "launch"
      BY <2>1 DEF Prepare, OpenWorkspace, MakeLaunchContext
    <3>4. QED
      BY <1>1, <3>2, <3>3 DEF execRank
  <2>2. CASE UndoExec \/ UndoLaunch
    <3>1. /\ exec' = exec /\ rollback # <<>>
          /\ rollback' = SubSeq(rollback, 1, Len(rollback) - 1)
      BY <2>2 DEF UndoExec, UndoLaunch, UndoLast, waitUnchanged
    <3>2. Len(rollback) \in Nat \ {0} /\ Len(rollback') = Len(rollback) - 1
      BY <1>1, <3>1, DropLastFacts
    <3>3. PICK n \in Nat : Len(rollback) = n + 1 /\ Len(rollback') = n
      BY <3>2
    <3>4. QED
      BY <3>1, <3>3 DEF execRank
  <2>3. CASE /\ UNCHANGED rollback
             /\ \/ exec = "start" /\ exec' \in {"workspace", "failed"}
                \/ exec = "workspace" /\ exec' \in {"undoing", "context"}
                \/ exec = "fifos" /\ exec' \in {"context", "undoing"}
                \/ exec = "launch" /\ exec' \in {"undoing", "launched"}
                \/ exec = "undoing" /\ exec' = "failed"
    BY <1>1, <2>3 DEF execRank
  <2>4. QED
    BY <2>1, <2>2, <2>3 DEF ExecStep, RefuseRequest, Prepare, OpenWorkspace, MakeFifos,
       LaunchFails, LaunchSucceeds, ExecFails
<1>3. ctxRank' <= ctxRank
  <2>1. /\ canceled' = canceled
        /\ \/ launchCtx' = launchCtx
           \/ launchCtx = "none" /\ launchCtx' \in {"live", "canceled"}
           \/ launchCtx' = "canceled"
    <3>1. CASE UndoExec \/ UndoLaunch
      BY <3>1 DEF UndoExec, UndoLaunch, UndoLast, waitUnchanged
    <3>2. CASE MakeLaunchContext
      BY <3>2 DEF MakeLaunchContext, IInv, ExecProgress
    <3>3. CASE ~(UndoExec \/ UndoLaunch \/ MakeLaunchContext)
      BY <3>3 DEF ExecStep, RefuseRequest, Prepare, OpenWorkspace, MakeFifos, LaunchFails,
         LaunchSucceeds, ExecFails
    <3>4. QED
      BY <3>1, <3>2, <3>3
  <2>2. QED
    BY <2>1 DEF ctxRank
<1>4. \/ UNCHANGED <<watch, dismissal, launcher, popup, payload, met, pump, cut>>
      \/ /\ UNCHANGED <<dismissal, popup, payload, met, cut>>
         /\ watch = "none" /\ watch' = "armed"
         /\ launcher = "none" /\ launcher' = "running"
         /\ \A s \in Streams : pump[s] = "idle" /\ pump'[s] \in {"idle", "opening"}
  <2>1. CASE LaunchSucceeds
    <3>1. ~Launched
      BY <2>1 DEF LaunchSucceeds, Launched
    <3>2. QED
      BY <2>1, <3>1 DEF LaunchSucceeds, IInv, DismissalProgress, RelayProgress, RunFacts
  <2>2. CASE ~LaunchSucceeds
    BY <2>2 DEF ExecStep, RefuseRequest, Prepare, OpenWorkspace, MakeFifos, MakeLaunchContext,
       LaunchFails, UndoExec, ExecFails, UndoLaunch, waitUnchanged
  <2>3. QED
    BY <2>1, <2>2
<1>5. dismissRank' <= dismissRank /\ popupRank' <= popupRank
  BY <1>4 DEF dismissRank, popupRank, Exited
<1>6. relayRank' = relayRank
  <2>1. streamRank("stdin")' = streamRank("stdin") /\ streamRank("stdout")' = streamRank("stdout")
          /\ streamRank("stderr")' = streamRank("stderr")
    BY <1>4 DEF streamRank, Streams, Outs
  <2>2. QED
    BY <2>1, Zenon DEF relayRank
<1>7. relayRank \in Nat
  BY DEF relayRank, streamRank
<1>8. UNCHANGED <<req, wait>>
  BY DEF ExecStep, RefuseRequest, Prepare, OpenWorkspace, MakeFifos, MakeLaunchContext,
     LaunchFails, LaunchSucceeds, UndoExec, ExecFails, UndoLaunch, waitUnchanged
<1>9. waitRank' = waitRank
  BY <1>8 DEF waitRank, StreamsDecide, Endpoints
<1>10. relayRank' <= relayRank
  BY <1>6, <1>7
<1>11. QED
  BY <1>2, <1>3, <1>5, <1>9, <1>10

\* Cancellation, the dismissal, the launcher, the popup and its payload.
LEMMA PopupDescends ==
    ASSUME IInv,
           \/ Cancel \/ CancelReachesLaunch \/ WatchFires \/ DismissStep
           \/ PopupShows \/ LauncherStep \/ LauncherFails
           \/ PayloadStarts \/ PayloadExits \/ LeftoverEnds \/ UserCloses
    PROVE  /\ UNCHANGED <<execRank, relayRank, waitRank>>
           /\ ctxRank' <= ctxRank /\ dismissRank' <= dismissRank /\ popupRank' <= popupRank
           /\ ctxRank' < ctxRank \/ dismissRank' < dismissRank \/ popupRank' < popupRank
<1> USE DEF heldVars, ctxVars, dismissVars, popupVars, relayVars, waitVars, Exited
<1>1. UNCHANGED <<req, exec, rollback, pump, cut, met, wait>>
  <2>1. CASE Cancel \/ CancelReachesLaunch \/ WatchFires \/ DismissStep
    BY <2>1 DEF Cancel, CancelReachesLaunch, WatchFires, DismissStep, DismissCloses,
       DismissFails
  <2>2. CASE PopupShows \/ LauncherStep \/ LauncherFails
    BY <2>2 DEF PopupShows, LauncherStep, LauncherExits, LauncherInterrupted, LauncherFails
  <2>3. CASE PayloadStarts \/ PayloadExits \/ LeftoverEnds \/ UserCloses
    BY <2>3 DEF PayloadStarts, PayloadExits, LeftoverEnds, UserCloses
  <2>4. QED
    BY <2>1, <2>2, <2>3
<1>2. UNCHANGED <<execRank, waitRank>>
  BY <1>1 DEF execRank, waitRank, StreamsDecide, Endpoints
<1>3. UNCHANGED relayRank
  BY <1>1 DEF relayRank, streamRank
<1>4. ASSUME Cancel \/ CancelReachesLaunch
      PROVE  ctxRank' < ctxRank /\ dismissRank' = dismissRank /\ popupRank' = popupRank
  BY <1>4 DEF Cancel, CancelReachesLaunch, ctxRank, dismissRank, popupRank
<1>5. ASSUME WatchFires
      PROVE  ctxRank' = ctxRank /\ dismissRank' < dismissRank /\ popupRank' = popupRank
  BY <1>5 DEF WatchFires, StartDismissal, ctxRank, dismissRank, popupRank
<1>6. ASSUME DismissStep
      PROVE  ctxRank' = ctxRank /\ dismissRank' < dismissRank /\ popupRank' <= popupRank
  <2>1. /\ UNCHANGED <<canceled, launchCtx, watch, launcher>>
        /\ dismissal = "running" /\ dismissal' \in {"closed", "failed"}
        /\ \/ UNCHANGED <<popup, payload>>
           \/ /\ popup' = "gone"
              /\ payload' = "exited" \/ (payload = "started" /\ payload' = "left")
    BY <1>6 DEF DismissStep, DismissCloses, DismissFails, PopupGoes, Over
  <2>2. QED
    BY <2>1 DEF ctxRank, dismissRank, popupRank
<1>7. ASSUME \/ PopupShows \/ LauncherStep \/ LauncherFails
             \/ PayloadStarts \/ PayloadExits \/ LeftoverEnds \/ UserCloses
      PROVE  ctxRank' = ctxRank /\ dismissRank' = dismissRank /\ popupRank' < popupRank
  <2>1. UNCHANGED <<canceled, launchCtx, watch, dismissal>>
    BY <1>7 DEF PopupShows, LauncherStep, LauncherExits, LauncherInterrupted, LauncherFails,
       PayloadStarts, PayloadExits, LeftoverEnds, UserCloses
  <2>2. \/ popup = "none" /\ popup' = "up" /\ UNCHANGED <<launcher, payload>>
        \/ launcher = "running" /\ launcher' \in Exited /\ UNCHANGED <<popup, payload>>
        \/ payload = "none" /\ payload' = "started" /\ UNCHANGED <<launcher, popup>>
        \/ payload = "left" /\ payload' = "exited" /\ UNCHANGED <<launcher, popup>>
        \/ /\ payload = "started" \/ popup = "up"
           /\ popup' = "gone" /\ UNCHANGED launcher
           /\ payload' = "exited" \/ (payload = "started" /\ payload' = "left")
    BY <1>7 DEF PopupShows, LauncherStep, LauncherExits, LauncherInterrupted, LauncherFails,
       PayloadStarts, PayloadExits, LeftoverEnds, UserCloses, PopupGoes, Over
  <2>3. QED
    BY <2>1, <2>2 DEF ctxRank, dismissRank, popupRank
<1>8. ctxRank \in 0..3 /\ dismissRank \in 0..3 /\ popupRank \in 0..6
  BY DEF ctxRank, dismissRank, popupRank
<1>9. PICK c \in 0..3, d \in 0..3, p \in 0..6 : c = ctxRank' /\ d = dismissRank' /\ p = popupRank'
  BY DEF ctxRank, dismissRank, popupRank
<1>10. \/ c < ctxRank /\ d = dismissRank /\ p = popupRank
       \/ c = ctxRank /\ d < dismissRank /\ p = popupRank
       \/ c = ctxRank /\ d < dismissRank /\ p <= popupRank
       \/ c = ctxRank /\ d = dismissRank /\ p < popupRank
  BY <1>4, <1>5, <1>6, <1>7, <1>9, Zenon
<1>11. /\ c <= ctxRank /\ d <= dismissRank /\ p <= popupRank
       /\ c < ctxRank \/ d < dismissRank \/ p < popupRank
  BY <1>8, <1>10
<1>12. QED
  BY <1>2, <1>3, <1>9, <1>11, Zenon

\* A relay moving on, and a redirection that opens, lower the rank of their stream.
LEMMA StreamDescends ==
    ASSUME NEW s \in Streams, streamRank(s)' < streamRank(s),
           \A t \in Streams \ {s} : streamRank(t)' = streamRank(t)
    PROVE  relayRank' < relayRank
<1>1. \A t \in Streams : streamRank(t) \in 0..4 /\ streamRank(t)' \in 0..4
  BY DEF streamRank
<1>2. PICK i \in 0..4, o \in 0..4, e \in 0..4 :
          /\ i = streamRank("stdin")' /\ o = streamRank("stdout")' /\ e = streamRank("stderr")'
  BY <1>1 DEF Streams, Outs
<1>3. \/ i < streamRank("stdin") /\ o = streamRank("stdout") /\ e = streamRank("stderr")
      \/ i = streamRank("stdin") /\ o < streamRank("stdout") /\ e = streamRank("stderr")
      \/ i = streamRank("stdin") /\ o = streamRank("stdout") /\ e < streamRank("stderr")
  BY <1>2, Zenon DEF Streams, Outs
<1>4. i + o + e < streamRank("stdin") + streamRank("stdout") + streamRank("stderr")
  BY <1>1, <1>3 DEF Streams, Outs
<1>5. QED
  BY <1>2, <1>4, Zenon DEF relayRank

\* The copying of one stream leaves the rank of every stream as it is; one that is not
\* the payload's writing leaves less to copy.
LEMMA CopyDescends ==
    ASSUME IInv, NEW s \in Outs, PayloadWrites(s) \/ ReaderReads(s) \/ ReaderWrites(s)
    PROVE  /\ relayRank' = relayRank
           /\ PayloadWrites(s) \/ CopyRank' < CopyRank
<1> USE DEF popupVars, relayUnchanged
<1>1. /\ UNCHANGED <<met, cut>>
      /\ \A t \in Streams \ {s} : pump'[t] = pump[t]
      /\ pump'[s] = pump[s] \/ {pump[s], pump'[s]} = {"relaying", "writing"}
  BY DEF PayloadWrites, ReaderReads, ReaderWrites, IInv, TypeOK, Streams
<1>2. \A t \in Streams : streamRank(t)' = streamRank(t)
  BY <1>1 DEF streamRank
<1>3. relayRank' = relayRank
  <2>1. /\ streamRank("stdin")' = streamRank("stdin")
        /\ streamRank("stdout")' = streamRank("stdout")
        /\ streamRank("stderr")' = streamRank("stderr")
    BY <1>2 DEF Streams, Outs
  <2>2. QED
    BY <2>1, Zenon DEF relayRank
<1>4. ASSUME ~PayloadWrites(s) PROVE CopyRank' < CopyRank
  <2>1. \A t \in Outs : copyRank(t) \in 0..3 /\ copyRank(t)' \in 0..3
    BY DEF copyRank
  <2>2. /\ copyRank(s)' < copyRank(s)
        /\ \A t \in Outs \ {s} : copyRank(t)' = copyRank(t)
    BY <1>4 DEF ReaderReads, ReaderWrites, copyRank, IInv, TypeOK, Streams
  <2>3. PICK o \in 0..3, e \in 0..3 : o = copyRank("stdout")' /\ e = copyRank("stderr")'
    BY <2>1 DEF Outs
  <2>4. \/ o < copyRank("stdout") /\ e = copyRank("stderr")
        \/ o = copyRank("stdout") /\ e < copyRank("stderr")
    BY <2>2, <2>3, Zenon DEF Outs
  <2>5. o + e < copyRank("stdout") + copyRank("stderr")
    BY <2>1, <2>4 DEF Outs
  <2>6. QED
    BY <2>3, <2>5, Zenon DEF CopyRank
<1>5. QED
  BY <1>3, <1>4

\* The relays, and the redirections they meet: a relay moves on, a stream is opened or
\* cut, or something is copied.
LEMMA RelayDescends ==
    ASSUME IInv, (\E s \in Outs : StreamStep(s)) \/ WriterStep \/ WriterEnds
    PROVE  /\ UNCHANGED <<execRank, ctxRank, dismissRank, popupRank, waitRank>>
           /\ \/ relayRank' < relayRank
              \/ /\ relayRank' = relayRank
                 /\ CopyRank' < CopyRank \/ \E s \in Outs : PayloadWrites(s)
<1> USE DEF heldVars, ctxVars, dismissVars, popupVars, relayVars, waitVars
<1>1. UNCHANGED <<req, exec, rollback, canceled, launchCtx, watch, dismissal, launcher, popup,
                  payload, wait>>
  BY StreamFacts DEF WriterStep, WriterOpens, WriterGivesUp, WriterEnds, relayUnchanged
<1>2. UNCHANGED <<execRank, ctxRank, dismissRank, popupRank, waitRank>>
  BY <1>1 DEF execRank, ctxRank, dismissRank, popupRank, waitRank, StreamsDecide, Endpoints
<1>3. ASSUME NEW s \in Outs, PayloadWrites(s) \/ ReaderReads(s) \/ ReaderWrites(s)
      PROVE  /\ relayRank' = relayRank
             /\ CopyRank' < CopyRank \/ \E u \in Outs : PayloadWrites(u)
  BY <1>3, CopyDescends
<1>4. ASSUME NEW s \in Streams,
             /\ \A t \in Streams \ {s} :
                    pump'[t] = pump[t] /\ (t \in met' <=> t \in met) /\ (t \in cut' <=> t \in cut)
             /\ s \in met => s \in met'
             /\ \/ pump'[s] = pump[s] /\ s \notin met /\ s \in met' /\ cut' = cut
                \/ /\ pump'[s] = pump[s] /\ pump[s] \in {"relaying", "writing"}
                   /\ s \notin cut /\ s \in cut'
                \/ pump[s] = "opening" /\ pump'[s] \in {"waking", "relaying", "done"}
                \/ pump[s] \in {"waking", "relaying", "writing"} /\ pump'[s] = "done"
      PROVE  relayRank' < relayRank
  <2>1. streamRank(s)' < streamRank(s)
    BY <1>4 DEF streamRank
  <2>2. \A t \in Streams \ {s} : streamRank(t)' = streamRank(t)
    BY <1>4 DEF streamRank
  <2>3. QED
    BY <2>1, <2>2, StreamDescends
<1> USE DEF relayUnchanged, IInv, TypeOK, Streams
<1>5. ASSUME NEW s \in Outs, PayloadOpens(s) \/ CutRelay(s)
      PROVE  relayRank' < relayRank
  BY <1>4, <1>5 DEF PayloadOpens, CutRelay
<1>6. ASSUME NEW s \in Outs, ReaderStep(s), ~ReaderReads(s)
      PROVE  relayRank' < relayRank
  BY <1>4, <1>6 DEF ReaderStep, ReaderOpens, ReaderAborts, ReaderWakes, ReaderInterrupted,
     RelayReturns
<1>7. ASSUME NEW s \in Outs, ReaderEnds(s) \/ ReaderBreaks(s)
      PROVE  relayRank' < relayRank
  BY <1>4, <1>7 DEF ReaderEnds, ReaderBreaks, RelayReturns
<1>8. ASSUME WriterStep \/ WriterEnds
      PROVE  relayRank' < relayRank
  BY <1>4, <1>8 DEF WriterStep, WriterOpens, WriterGivesUp, WriterEnds, RelayReturns
<1>9. QED
  BY <1>2, <1>3, <1>5, <1>6, <1>7, <1>8 DEF StreamStep

\* The wait and the release it ends in, up to the rollback.
LEMMA WaitDescends ==
    ASSUME IInv, BeginWait \/ WaitStep, ~UndoLaunch
    PROVE  /\ waitRank' < waitRank
           /\ ctxRank' <= ctxRank /\ dismissRank' <= dismissRank
           /\ UNCHANGED <<execRank, popupRank, relayRank>>
<1> USE DEF heldVars, ctxVars, dismissVars, popupVars, relayVars, waitVars, waitUnchanged
<1>1. UNCHANGED <<req, exec, rollback, canceled, launcher, popup, payload, met, pump, cut>>
  BY DEF BeginWait, WaitStep, JoinLauncher, JoinEndpoints, StopDismiss, CheckCanceled,
     JoinDismissal, CancelLaunch, JoinPipes, WaitReturns
<1>2. UNCHANGED <<execRank, popupRank>>
  BY <1>1 DEF execRank, popupRank
<1>3. UNCHANGED relayRank
  BY <1>1 DEF relayRank, streamRank
<1>4. /\ launchCtx' \in {launchCtx, "canceled"}
      /\ watch' = watch \/ watch' = "stopped"
      /\ dismissal' = dismissal \/ (dismissal = "none" /\ dismissal' = "running")
  BY DEF BeginWait, WaitStep, JoinLauncher, JoinEndpoints, StopDismiss, CheckCanceled,
     StartDismissal, JoinDismissal, CancelLaunch, JoinPipes, WaitReturns
<1>5. ctxRank' <= ctxRank /\ dismissRank' <= dismissRank
  BY <1>1, <1>4 DEF ctxRank, dismissRank
<1>6. StreamsDecide' = StreamsDecide
  BY <1>1 DEF StreamsDecide, Endpoints
<1>7. \/ wait = "idle" /\ wait' \in {"stop", "launcher", "endpoints"}
      \/ wait = "launcher" /\ wait' = IF StreamsDecide THEN "stop" ELSE "endpoints"
      \/ wait = "endpoints" /\ wait' = IF StreamsDecide THEN "launcher" ELSE "stop"
      \/ wait = "stop" /\ wait' = "check"
      \/ wait = "check" /\ wait' \in {"dismiss", "cancel"}
      \/ wait = "dismiss" /\ wait' = "cancel"
      \/ wait = "cancel" /\ wait' = "pipes"
      \/ wait = "pipes" /\ wait' = "undo"
      \/ wait = "undo" /\ wait' = "returned"
  BY DEF BeginWait, WaitStep, JoinLauncher, JoinEndpoints, StopDismiss, CheckCanceled,
     JoinDismissal, CancelLaunch, JoinPipes, WaitReturns
<1>8. waitRank' < waitRank
  BY <1>6, <1>7 DEF waitRank
<1>9. QED
  BY <1>2, <1>3, <1>5, <1>8

\* Every step of a launch, whoever takes it, brings its rank down, or copies a piece of
\* its output: but for the copying a launch is over after a bounded number of steps, and
\* so is the copying of what the payload has written.
THEOREM LaunchDescends ==
    Spec => [](LaunchRank \in Nat /\ CopyRank \in Nat) /\ LaunchGetsCloser
<1>1. IInv => /\ execRank \in Nat /\ ctxRank \in Nat /\ dismissRank \in Nat
              /\ popupRank \in Nat /\ relayRank \in Nat /\ waitRank \in Nat
  <2>1. SUFFICES ASSUME IInv
                 PROVE  /\ execRank \in Nat /\ ctxRank \in Nat /\ dismissRank \in Nat
                        /\ popupRank \in Nat /\ relayRank \in Nat /\ waitRank \in Nat
    OBVIOUS
  <2>2. Len(rollback) \in Nat
    BY <2>1, ListFacts DEF IInv, TypeOK
  <2>3. QED
    BY <2>2 DEF execRank, ctxRank, dismissRank, popupRank, relayRank, streamRank, waitRank
<1>2. IInv => LaunchRank \in Nat /\ CopyRank \in Nat
  BY <1>1 DEF LaunchRank, CopyRank, copyRank
<1>3. ASSUME IInv, RunFacts, Next
      PROVE  \/ LaunchRank' < LaunchRank
             \/ /\ LaunchRank' = LaunchRank
                /\ CopyRank' < CopyRank \/ \E s \in Outs : PayloadWrites(s)
  <2>1. IInv'
    BY <1>3, IInvNext
  <2>2. /\ execRank' \in Nat /\ ctxRank' \in Nat /\ dismissRank' \in Nat
        /\ popupRank' \in Nat /\ relayRank' \in Nat /\ waitRank' \in Nat
    <3>1. Len(rollback') \in Nat
      BY <2>1, ListFacts DEF IInv, TypeOK
    <3>2. PICK n \in Nat : n = Len(rollback')
      BY <3>1
    <3>3. execRank' \in Nat
      BY <3>2 DEF execRank
    <3>4. QED
      BY <3>3 DEF ctxRank, dismissRank, popupRank, relayRank, streamRank, waitRank
  <2>3. PICK e \in Nat, c \in Nat, d \in Nat, p \in Nat, r \in Nat, w \in Nat :
            /\ e = execRank' /\ c = ctxRank' /\ d = dismissRank'
            /\ p = popupRank' /\ r = relayRank' /\ w = waitRank'
    BY <2>2
  <2>4. ASSUME ExecStep \/ UndoLaunch
        PROVE  /\ e < execRank /\ c <= ctxRank /\ d <= dismissRank
               /\ p <= popupRank /\ r <= relayRank /\ w = waitRank
    BY <1>3, <2>3, <2>4, ExecDescends, Zenon
  <2>5. ASSUME \/ Cancel \/ CancelReachesLaunch \/ WatchFires \/ DismissStep
               \/ PopupShows \/ LauncherStep \/ LauncherFails
               \/ PayloadStarts \/ PayloadExits \/ LeftoverEnds \/ UserCloses
        PROVE  /\ e = execRank /\ r = relayRank /\ w = waitRank
               /\ c <= ctxRank /\ d <= dismissRank /\ p <= popupRank
               /\ c < ctxRank \/ d < dismissRank \/ p < popupRank
    BY <1>3, <2>3, <2>5, PopupDescends, Zenon
  <2>6. ASSUME (\E s \in Outs : StreamStep(s)) \/ WriterStep \/ WriterEnds
        PROVE  /\ e = execRank /\ c = ctxRank /\ d = dismissRank
               /\ p = popupRank /\ w = waitRank
               /\ \/ r < relayRank
                  \/ /\ r = relayRank
                     /\ CopyRank' < CopyRank \/ \E s \in Outs : PayloadWrites(s)
    BY <1>3, <2>3, <2>6, RelayDescends, Zenon
  <2>7. ASSUME BeginWait \/ WaitStep, ~UndoLaunch
        PROVE  /\ w < waitRank /\ c <= ctxRank /\ d <= dismissRank
               /\ e = execRank /\ p = popupRank /\ r = relayRank
    BY <1>3, <2>3, <2>7, WaitDescends, Zenon
  <2>8. \/ e + c + d + p + r + w
             < execRank + ctxRank + dismissRank + popupRank + relayRank + waitRank
        \/ /\ e + c + d + p + r + w
                = execRank + ctxRank + dismissRank + popupRank + relayRank + waitRank
           /\ CopyRank' < CopyRank \/ \E s \in Outs : PayloadWrites(s)
    <3> DEFINE Copied == CopyRank' < CopyRank \/ \E s \in Outs : PayloadWrites(s)
    <3>1. \/ ExecStep \/ UndoLaunch
          \/ Cancel \/ CancelReachesLaunch \/ WatchFires \/ DismissStep
          \/ PopupShows \/ LauncherStep \/ LauncherFails
          \/ PayloadStarts \/ PayloadExits \/ LeftoverEnds \/ UserCloses
          \/ (\E s \in Outs : StreamStep(s)) \/ WriterStep \/ WriterEnds
          \/ (BeginWait \/ WaitStep) /\ ~UndoLaunch
      BY <1>3 DEF Next
    <3>2. \/ e < execRank /\ c <= ctxRank /\ d <= dismissRank
             /\ p <= popupRank /\ r <= relayRank /\ w = waitRank
          \/ /\ e = execRank /\ r = relayRank /\ w = waitRank
             /\ c <= ctxRank /\ d <= dismissRank /\ p <= popupRank
             /\ c < ctxRank \/ d < dismissRank \/ p < popupRank
          \/ /\ e = execRank /\ c = ctxRank /\ d = dismissRank
             /\ p = popupRank /\ w = waitRank
             /\ r < relayRank \/ (r = relayRank /\ Copied)
          \/ w < waitRank /\ c <= ctxRank /\ d <= dismissRank
             /\ e = execRank /\ p = popupRank /\ r = relayRank
      BY <2>4, <2>5, <2>6, <2>7, <3>1, Zenon
    <3>3. HIDE DEF Copied
    <3>4. \/ e + c + d + p + r + w
               < execRank + ctxRank + dismissRank + popupRank + relayRank + waitRank
          \/ /\ e + c + d + p + r + w
                  = execRank + ctxRank + dismissRank + popupRank + relayRank + waitRank
             /\ Copied
      BY <1>1, <1>3, <3>2
    <3>5. QED
      BY <3>4 DEF Copied
  <2>9. QED
    BY <2>3, <2>8, Zenon DEF LaunchRank
<1>4. ASSUME IInv, Next
      PROVE  /\ canceled => canceled'
             /\ popup = "gone" => popup' = "gone"
             /\ payload = "exited" => payload' = "exited"
             /\ wait # "idle" => wait' # "idle"
  <2> USE DEF heldVars, ctxVars, dismissVars, popupVars, relayVars, waitVars
  <2>1. CASE ExecStep
    BY <2>1 DEF ExecStep, RefuseRequest, Prepare, OpenWorkspace, MakeFifos, MakeLaunchContext,
       LaunchFails, LaunchSucceeds, UndoExec, ExecFails
  <2>2. CASE \/ Cancel \/ CancelReachesLaunch \/ WatchFires \/ DismissStep
             \/ PopupShows \/ LauncherStep \/ LauncherFails
             \/ PayloadStarts \/ PayloadExits \/ LeftoverEnds \/ UserCloses
    <3>1. CASE Cancel \/ CancelReachesLaunch \/ WatchFires \/ DismissStep
      BY <3>1 DEF Cancel, CancelReachesLaunch, WatchFires, DismissStep, DismissCloses,
         DismissFails, PopupGoes
    <3>2. CASE PopupShows \/ LauncherStep \/ LauncherFails
      <4>1. UNCHANGED <<canceled, payload, wait>> /\ (popup' = popup \/ popup = "none")
        BY <3>2 DEF PopupShows, LauncherStep, LauncherExits, LauncherInterrupted, LauncherFails
      <4>2. QED
        BY <4>1, Zenon
    <3>3. CASE PayloadStarts \/ PayloadExits \/ LeftoverEnds \/ UserCloses
      BY <3>3 DEF PayloadStarts, PayloadExits, LeftoverEnds, UserCloses, PopupGoes
    <3>4. QED
      BY <2>2, <3>1, <3>2, <3>3
  <2>3. CASE (\E s \in Outs : StreamStep(s)) \/ WriterStep \/ WriterEnds
    BY <2>3, StreamFacts DEF WriterStep, WriterOpens, WriterGivesUp, WriterEnds, relayUnchanged
  <2>4. CASE BeginWait \/ WaitStep
    BY <2>4 DEF BeginWait, WaitStep, JoinLauncher, JoinEndpoints, StopDismiss, CheckCanceled,
       JoinDismissal, CancelLaunch, JoinPipes, UndoLaunch, WaitReturns, waitUnchanged
  <2>5. QED
    BY <1>4, <2>1, <2>2, <2>3, <2>4 DEF Next
<1>5. IInv /\ RunFacts /\ [Next]_vars =>
        [/\ \/ LaunchRank' < LaunchRank
            \/ /\ LaunchRank' = LaunchRank
               /\ CopyRank' < CopyRank \/ \E s \in Outs : PayloadWrites(s)
         /\ canceled => canceled'
         /\ popup = "gone" => popup' = "gone"
         /\ payload = "exited" => payload' = "exited"
         /\ wait # "idle" => wait' # "idle"]_vars
  BY <1>3, <1>4, Zenon
<1>6. Init => RunFacts
  BY DEF Init, RunFacts, Launched
<1>7. RunFacts /\ [Next]_vars => RunFacts'
  BY RunFactsNext
<1>8. QED
  BY <1>2, <1>5, <1>6, <1>7, Invariance, PTL DEF Spec, LaunchGetsCloser
==============================================================================
