--------------------------- MODULE ZoomWindowProofs ---------------------------
(***************************************************************************)
(* The safety of ZoomWindow, for every set of launches, panes and versions *)
(* and however often the user toggles the zoom.                            *)
(*                                                                         *)
(* IInv is the inductive invariant.  A launch nobody disturbed knows the   *)
(* zoom: it is what the launch came upon until its own toggle, and off     *)
(* from then on (ZoomFacts).  Whatever any other actor does to the zoom    *)
(* makes the launches under way disturbed ones, so only a launch's own     *)
(* steps have to be looked at.                                             *)
(***************************************************************************)
EXTENDS ZoomWindow, TLAPS

\* A version that has the crash is one the launch takes for affected.
VersionFacts == crashes => AffectedByZoomCrash(version)

\* The zoom as launch l last left it, or found it.
ZoomFacts(l) ==
    /\ pc[l] = "query" => zoomed = before[l]
    /\ pc[l] = "dezoom" => zoomed = before[l] /\ target[l] = before[l] /\ zoomed # NoPane
    /\ pc[l] \in {"create", "restore"} =>
            zoomed = (IF target[l] = NoPane THEN before[l] ELSE NoPane)
    /\ pc[l] \in {"create", "restore"} => target[l] \in {NoPane, before[l]}
    /\ pc[l] = "create" /\ AffectedByZoomCrash(version) => zoomed = NoPane

LaunchFacts(l) ==
    /\ pc[l] \in {"start", "query"} => target[l] = NoPane
    /\ overZoom[l] => l \in disturbed
    /\ l \in InProgress \ disturbed => ZoomFacts(l)

IInv ==
    /\ TypeOK
    /\ VersionFacts
    /\ \A l \in Launches : LaunchFacts(l)

------------------------------------------------------------------------------
\* The order of the versions is a truth value whatever is compared.
LEMMA EarlierIsBoolean == \A v, w : Earlier(v, w) \in BOOLEAN
  BY DEF Earlier

\* A window starts in the invariant.
LEMMA InitHolds == Init => IInv
<1> SUFFICES ASSUME Init PROVE IInv
  OBVIOUS
<1>1. crashes \in BOOLEAN /\ (crashes => version = Unparsed \/ Earlier(version, Fixed))
  <2>1. CASE version = Unparsed
    BY <2>1 DEF Init
  <2>2. CASE version # Unparsed
    <3>1. crashes = Earlier(version, Fixed)
      BY <2>2 DEF Init
    <3>2. QED
      BY <3>1, EarlierIsBoolean
  <2>3. QED
    BY <2>1, <2>2
<1>2. 0 \in 0..MaxUserToggles
  BY PanesAssumption
<1>3. TypeOK
  BY <1>1, <1>2 DEF Init, TypeOK
<1>4. VersionFacts
  BY <1>1 DEF VersionFacts, AffectedByZoomCrash
<1>5. \A l \in Launches : LaunchFacts(l)
  BY DEF Init, LaunchFacts, InProgress
<1>6. QED
  BY <1>3, <1>4, <1>5 DEF IInv

\* A step of one launch keeps the invariant.
LEMMA LaunchStepHolds ==
    ASSUME IInv, NEW l \in Launches,
           \/ AskVersion(l) \/ QueryZoom(l) \/ QueryFails(l) \/ DeZoom(l) \/ DeZoomFails(l)
           \/ CreatePane(l) \/ CreateFails(l) \/ Restore(l) \/ RestoreFails(l) \/ PaneExits(l)
    PROVE  IInv'
<1> USE PanesAssumption
    DEF IInv, TypeOK, VersionFacts, LaunchFacts, ZoomFacts, InProgress, Goto, Fails, Toggle, Unfloat
<1>1. CASE AskVersion(l)
  <2>1. TypeOK' /\ VersionFacts'
    BY <1>1 DEF AskVersion
  <2>2. \A k \in Launches : LaunchFacts(k)'
    BY <1>1 DEF AskVersion
  <2>3. QED
    BY <2>1, <2>2
<1>2. CASE QueryZoom(l)
  <2>1. TypeOK' /\ VersionFacts'
    BY <1>2 DEF QueryZoom
  <2>2. \A k \in Launches : LaunchFacts(k)'
    BY <1>2 DEF QueryZoom
  <2>3. QED
    BY <2>1, <2>2
<1>3. CASE QueryFails(l)
  <2>1. TypeOK' /\ VersionFacts'
    BY <1>3 DEF QueryFails
  <2>2. \A k \in Launches : LaunchFacts(k)'
    BY <1>3 DEF QueryFails
  <2>3. QED
    BY <2>1, <2>2
<1>4. CASE DeZoom(l)
  <2>1. TypeOK' /\ VersionFacts'
    BY <1>4 DEF DeZoom
  <2>2. \A k \in Launches : LaunchFacts(k)'
    BY <1>4 DEF DeZoom
  <2>3. QED
    BY <2>1, <2>2
<1>5. CASE DeZoomFails(l)
  <2>1. TypeOK' /\ VersionFacts'
    BY <1>5 DEF DeZoomFails
  <2>2. \A k \in Launches : LaunchFacts(k)'
    BY <1>5 DEF DeZoomFails
  <2>3. QED
    BY <2>1, <2>2
<1>6. CASE CreatePane(l)
  <2>1. TypeOK' /\ VersionFacts'
    BY <1>6 DEF CreatePane
  <2>2. \A k \in Launches : LaunchFacts(k)'
    BY <1>6 DEF CreatePane
  <2>3. QED
    BY <2>1, <2>2
<1>7. CASE CreateFails(l)
  <2>1. TypeOK' /\ VersionFacts'
    BY <1>7 DEF CreateFails
  <2>2. \A k \in Launches : LaunchFacts(k)'
    BY <1>7 DEF CreateFails
  <2>3. QED
    BY <2>1, <2>2
<1>8. CASE Restore(l)
  <2>1. TypeOK' /\ VersionFacts'
    BY <1>8 DEF Restore
  <2>2. \A k \in Launches : LaunchFacts(k)'
    BY <1>8 DEF Restore
  <2>3. QED
    BY <2>1, <2>2
<1>9. CASE RestoreFails(l)
  <2>1. TypeOK' /\ VersionFacts'
    BY <1>9 DEF RestoreFails
  <2>2. \A k \in Launches : LaunchFacts(k)'
    BY <1>9 DEF RestoreFails
  <2>3. QED
    BY <2>1, <2>2
<1>10. CASE PaneExits(l)
  <2>1. TypeOK' /\ VersionFacts'
    BY <1>10 DEF PaneExits
  <2>2. \A k \in Launches : LaunchFacts(k)'
    BY <1>10 DEF PaneExits
  <2>3. QED
    BY <2>1, <2>2
<1>11. QED
  BY <1>1, <1>2, <1>3, <1>4, <1>5, <1>6, <1>7, <1>8, <1>9, <1>10

\* The user toggling the zoom disturbs every launch under way.
LEMMA UserStepHolds ==
    ASSUME IInv, NEW p \in Panes, UserToggles(p)
    PROVE  IInv'
<1>1. toggles' \in 0..MaxUserToggles
  BY PanesAssumption DEF UserToggles, IInv, TypeOK
<1>2. TypeOK'
  BY <1>1 DEF UserToggles, Toggle, Unfloat, InProgress, IInv, TypeOK
<1>3. \A l \in Launches : LaunchFacts(l)'
  BY DEF UserToggles, Toggle, InProgress, IInv, TypeOK, LaunchFacts
<1>4. QED
  BY <1>2, <1>3 DEF UserToggles, IInv, VersionFacts

\* Every action keeps the invariant.
LEMMA NextHolds == IInv /\ [Next]_vars => IInv'
<1> SUFFICES ASSUME IInv, [Next]_vars PROVE IInv'
  OBVIOUS
<1>1. CASE Next
  BY <1>1, LaunchStepHolds, UserStepHolds DEF Next
<1>2. CASE UNCHANGED vars
  BY <1>2 DEF vars, launchVars, IInv, TypeOK, VersionFacts, LaunchFacts, ZoomFacts, InProgress
<1>3. QED
  BY <1>1, <1>2

\* IInv holds in every state of the window.
LEMMA Invariance == Spec => []IInv
<1>1. QED
  BY InitHolds, NextHolds, PTL DEF Spec

\* Every variable of the window has its type.
THEOREM TypesHold == Spec => []TypeOK
<1>1. IInv => TypeOK
  BY DEF IInv
<1>2. QED
  BY <1>1, Invariance, PTL

\* Prepare is enough for one launch at a time: left alone, a launch creates no pane over
\* a zoomed one, for every version of tmux and every failure of its own commands.
THEOREM ServerLives == Spec => []UndisturbedServerLives
<1>1. IInv => UndisturbedServerLives
  BY DEF IInv, LaunchFacts, UndisturbedServerLives
<1>2. QED
  BY <1>1, Invariance, PTL

\* Restore gives an undisturbed launch's window back zoomed as the launch came upon it.
THEOREM ZoomComesBack == Spec => UndisturbedZoomComesBack
<1>1. IInv /\ [Next]_vars =>
        [\A l \in Launches :
            /\ pc[l] # "done" /\ pc'[l] = "done"
            /\ l \notin disturbed' /\ l \notin failed'
            => zoomed' = before[l]]_vars
  <2> SUFFICES ASSUME IInv, Next, NEW l \in Launches,
                      pc[l] # "done", pc'[l] = "done",
                      l \notin disturbed', l \notin failed'
               PROVE  zoomed' = before[l]
    OBVIOUS
  <2>1. Restore(l)
    <3>1. CASE \E p \in Panes : UserToggles(p)
      BY <3>1 DEF UserToggles
    <3>2. CASE \E k \in Launches :
                 \/ AskVersion(k) \/ QueryZoom(k) \/ DeZoom(k)
                 \/ CreatePane(k) \/ CreateFails(k) \/ PaneExits(k)
      BY <3>2 DEF AskVersion, QueryZoom, DeZoom, CreatePane, CreateFails, PaneExits, Goto,
         IInv, TypeOK
    <3>3. CASE \E k \in Launches : QueryFails(k) \/ DeZoomFails(k) \/ RestoreFails(k)
      BY <3>3 DEF QueryFails, DeZoomFails, RestoreFails, Goto, Fails, IInv, TypeOK
    <3>4. CASE \E k \in Launches : Restore(k)
      BY <3>4 DEF Restore, Goto, IInv, TypeOK
    <3>5. QED
      BY <3>1, <3>2, <3>3, <3>4 DEF Next
  <2>2. l \in InProgress \ disturbed
    BY <2>1 DEF Restore, InProgress, Toggle
  <2>3. /\ zoomed = (IF target[l] = NoPane THEN before[l] ELSE NoPane)
        /\ target[l] \in {NoPane, before[l]}
    BY <2>1, <2>2 DEF Restore, IInv, LaunchFacts, ZoomFacts
  <2>4. QED
    BY <2>1, <2>3 DEF Restore, Toggle
<1>2. QED
  BY <1>1, Invariance, PTL DEF Spec, UndisturbedZoomComesBack

------------------------------------------------------------------------------
(* What the crash takes, for the finding of zoom_shared. *)

\* A pane over a zoomed one is dangerous on an affected server only, and a dead server
\* has had one, of a launch somebody disturbed.
CrashFacts ==
    /\ \A l \in Launches : overZoom[l] => crashes
    /\ server = "dead" => \E l \in disturbed : overZoom[l]

\* A server on a version with the fix lives, and one that dies was in company: the crash
\* of zoom_shared is the only one there is.
CrashNeedsCompany ==
    server = "dead" => AffectedByZoomCrash(version) /\ disturbed # {}

\* Every step keeps them.
LEMMA StepKeepsCrash == IInv /\ CrashFacts /\ [Next]_vars => CrashFacts'
<1> SUFFICES ASSUME IInv, CrashFacts, [Next]_vars PROVE CrashFacts'
  OBVIOUS
<1> USE DEF CrashFacts
<1>1. \A own : disturbed \subseteq disturbed \cup (InProgress \ own)
  OBVIOUS
<1>2. ASSUME NEW l \in Launches, CreatePane(l)
      PROVE  CrashFacts'
  BY <1>2 DEF CreatePane, IInv, TypeOK
<1>3. ASSUME NEW l \in Launches, PaneExits(l)
      PROVE  CrashFacts'
  <2>1. overZoom[l] => l \in disturbed
    BY DEF IInv, LaunchFacts
  <2>2. QED
    BY <1>3, <2>1 DEF PaneExits
<1>4. CASE UNCHANGED <<crashes, overZoom, server>> /\ disturbed \subseteq disturbed'
  BY <1>4
<1>5. ASSUME NEW l \in Launches,
             \/ AskVersion(l) \/ QueryZoom(l) \/ QueryFails(l) \/ DeZoom(l) \/ DeZoomFails(l)
             \/ CreateFails(l) \/ Restore(l) \/ RestoreFails(l)
      PROVE  UNCHANGED <<crashes, overZoom, server>> /\ disturbed \subseteq disturbed'
  BY <1>1, <1>5 DEF AskVersion, QueryZoom, QueryFails, DeZoom, DeZoomFails, CreateFails,
     Restore, RestoreFails, Toggle
<1>6. ASSUME NEW p \in Panes, UserToggles(p)
      PROVE  UNCHANGED <<crashes, overZoom, server>> /\ disturbed \subseteq disturbed'
  BY <1>1, <1>6 DEF UserToggles, Toggle
<1>7. CASE UNCHANGED vars
  BY <1>7 DEF vars, launchVars
<1>8. QED
  BY <1>2, <1>3, <1>4, <1>5, <1>6, <1>7 DEF Next

\* Whatever the launches and the user do, the server dies only on an affected version and
\* only when the zoom was toggled under a launch.
THEOREM ServerDiesInCompany == Spec => []CrashNeedsCompany
<1>1. Init => CrashFacts
  BY DEF Init, CrashFacts
<1>2. IInv /\ CrashFacts => CrashNeedsCompany
  BY DEF IInv, VersionFacts, CrashFacts, CrashNeedsCompany, TypeOK
<1>3. QED
  BY <1>1, <1>2, Invariance, StepKeepsCrash, PTL DEF Spec

\* One launch, and a user who keeps off the zoom.
Alone == MaxUserToggles = 0 /\ \A k, l \in Launches : k = l

\* Nobody is disturbed then.
LEMMA AloneUndisturbed ==
    ASSUME Alone
    PROVE  IInv /\ disturbed = {} /\ [Next]_vars => disturbed' = {}
<1> SUFFICES ASSUME IInv, disturbed = {}, [Next]_vars PROVE disturbed' = {}
  OBVIOUS
<1>1. \A l \in Launches : InProgress \ {l} = {}
  BY DEF Alone, InProgress
<1>2. ASSUME NEW p \in Panes, UserToggles(p) PROVE FALSE
  BY <1>2 DEF UserToggles, Alone, IInv, TypeOK
<1>3. ASSUME NEW l \in Launches,
             \/ AskVersion(l) \/ QueryZoom(l) \/ QueryFails(l) \/ DeZoom(l) \/ DeZoomFails(l)
             \/ CreatePane(l) \/ CreateFails(l) \/ Restore(l) \/ RestoreFails(l) \/ PaneExits(l)
      PROVE  disturbed' = {}
  BY <1>1, <1>3 DEF AskVersion, QueryZoom, QueryFails, DeZoom, DeZoomFails, CreatePane,
     CreateFails, Restore, RestoreFails, PaneExits, Toggle
<1>4. CASE UNCHANGED vars
  BY <1>4 DEF vars
<1>5. QED
  BY <1>2, <1>3, <1>4 DEF Next

\* What zoom_shared refutes for two launches holds for one, on every version and whichever
\* of its commands fail: Prepare's promise is good for a window nobody else zooms.
THEOREM AloneNoPaneOverZoom ==
    ASSUME Alone
    PROVE  Spec => []NoPaneOverZoom
<1>1. Init => disturbed = {}
  BY DEF Init
<1>2. IInv /\ disturbed = {} => NoPaneOverZoom
  BY DEF IInv, LaunchFacts, NoPaneOverZoom
<1>3. IInv /\ disturbed = {} /\ [Next]_vars => (disturbed = {})'
  BY AloneUndisturbed
<1>4. QED
  BY <1>1, <1>2, <1>3, Invariance, PTL DEF Spec
=============================================================================
