--------------------------- MODULE CommandRunProofs ---------------------------
(***************************************************************************)
(* What CommandRun promises, for every width of an int, every value a      *)
(* position or a height can have and whatever the layers may set.          *)
(*                                                                         *)
(* IInv is the inductive invariant.  It follows an invocation through its  *)
(* phases: the configuration is the layers read so far applied in their    *)
(* order (ConfigFacts), the launcher's flag is the one the settled backend *)
(* makes of what was asked (PlaceFacts), and the directory, the log and    *)
(* the errors are those of how far the run has come (RunFacts, EndFacts).  *)
(***************************************************************************)
EXTENDS CommandRun, TLAPS

Before == {"args", "file", "env", "flags", "runtime"}

\* What the configuration is made of.
ConfigFacts ==
    /\ phase \in {"args", "file"} => cfg = DefaultConfig
    /\ phase = "env" => \E p \in Layer :
            layers = <<p>> /\ cfg = Apply(p, DefaultConfig)
    /\ phase = "flags" => \E p, q \in Layer :
            layers = <<p, q>> /\ cfg = Apply(q, Apply(p, DefaultConfig))
    /\ phase = "runtime" => \E p, q, r \in Layer :
            layers = <<p, q, r>> /\ cfg = Apply(r, Apply(q, Apply(p, DefaultConfig)))

PlaceFacts ==
    /\ phase \in {"workspace", "launch", "running"} => backend \in Names
    /\ phase = "running" => \E y, h \in Value :
            asked = <<y, h>> /\ flag = RowFlag(backend, y, h) /\ flag # NoSum

\* Up to the end of the popup's run.
RunFacts ==
    /\ phase \in Before \cup {"workspace"} => dir = "none" /\ log = "none"
    /\ phase \in {"launch", "running", "closing"} => dir = "open"
    /\ phase \in Before \cup {"workspace", "launch", "running"} => runErr = "none"
    /\ phase = "closing" => runErr # "none"
    /\ phase \notin {"main", "exit"} => closeErr = "nil"

\* From there to the exit: an invocation that failed before its run, or a closed one.
EndFacts ==
    phase \in {"main", "exit"} =>
        /\ dir # "open" /\ log # "open"
        /\ dir = "left" => debug \/ closeErr # "nil"
        /\ runErr = "none" => err # "nil" /\ closeErr = "nil"
        /\ runErr = "nil" => err = closeErr
        /\ runErr \notin {"none", "nil"} => err = runErr
        /\ runErr # "none" /\ closeErr = "nil" => dir = IF debug THEN "left" ELSE "removed"

ReportFacts ==
    phase = "exit" => report = err \/ (report = "signal" /\ signaled /\ err = "canceled")

IInv ==
    /\ ConfigFacts
    /\ PlaceFacts
    /\ RunFacts
    /\ EndFacts
    /\ ReportFacts

------------------------------------------------------------------------------
(* Operators of Settings. *)

\* config.go, Apply: three partials applied in their order leave each field with the
\* value of the last that has it.
LEMMA LayersMerge ==
    ASSUME NEW p, NEW q, NEW r, NEW base, NEW f \in DOMAIN base
    PROVE  LET c == Apply(r, Apply(q, Apply(p, base)))
           IN  /\ DOMAIN c = DOMAIN base
               /\ c[f] = IF f \in DOMAIN r THEN r[f]
                         ELSE IF f \in DOMAIN q THEN q[f]
                         ELSE IF f \in DOMAIN p THEN p[f]
                         ELSE base[f]
  BY DEF Apply

\* geometry.go and tmux_popup.go: the row flag of a launch that is not refused puts the
\* popup's top edge on the row asked for, or is the negative number an overflow leaves.
LEMMA FlagKeepsTopEdge ==
    ASSUME NEW name \in Names, NEW y \in Value, NEW h \in Value,
           y.kind \in Unit, RowFlag(name, y, h) # NoSum
    PROVE  \/ TopEdge(name, RowFlag(name, y, h), h) = y
           \/ RowFlag(name, y, h).n < 0
<1>1. y \in [kind : Unit, n : Nat] /\ h.n \in Nat /\ MaxInt \in Nat
  BY IntAssumption DEF Value, Unit
<1>2. y.kind \notin {"empty", "position"}
  BY DEF Unit
<1>3. CASE name = "tmux-popup"
  <2>1. RowFlag(name, y, h) = Sum(y, h)
    BY <1>2, <1>3 DEF RowFlag, PopupBottomEdge, IsPosition
  <2>2. /\ y.kind = h.kind /\ y.n <= MaxInt /\ h.n <= MaxInt
        /\ Sum(y, h) = [kind |-> y.kind, n |-> Add(y.n, h.n)]
    BY <2>1 DEF Sum
  <2>3. CASE y.n + h.n <= MaxInt
    <3>1. Add(y.n, h.n) - h.n = y.n
      BY <1>1, <2>3 DEF Add
    <3>2. TopEdge(name, Sum(y, h), h) = [kind |-> y.kind, n |-> y.n]
      BY <1>3, <2>2, <3>1 DEF TopEdge
    <3>3. y = [kind |-> y.kind, n |-> y.n]
      BY <1>1
    <3>4. QED
      BY <2>1, <3>2, <3>3
  <2>4. CASE ~(y.n + h.n <= MaxInt)
    BY <1>1, <2>1, <2>2, <2>4 DEF Add
  <2>5. QED
    BY <2>3, <2>4
<1>4. CASE name # "tmux-popup"
  <2>1. RowFlag(name, y, h) = y
    BY <1>2, <1>4 DEF RowFlag, Names, IsPosition
  <2>2. QED
    BY <1>4, <2>1 DEF TopEdge
<1>5. QED
  BY <1>3, <1>4

------------------------------------------------------------------------------
\* An invocation starts in the invariant.
LEMMA InitHolds == Init => IInv
  BY DEF Init, IInv, ConfigFacts, PlaceFacts, RunFacts, EndFacts, ReportFacts, Before

\* Every action keeps the invariant.
LEMMA NextHolds == IInv /\ [Next]_vars => IInv'
<1> SUFFICES ASSUME IInv, [Next]_vars PROVE IInv'
  OBVIOUS
<1> USE ValuesAssumption
    DEF IInv, PlaceFacts, RunFacts, EndFacts, ReportFacts, Before, Fail, settled, space, place
<1>1. CASE Signal
  <2>1. ConfigFacts'
    BY <1>1 DEF Signal, ConfigFacts
  <2>2. PlaceFacts'
    BY <1>1 DEF Signal
  <2>3. RunFacts' /\ EndFacts' /\ ReportFacts'
    BY <1>1 DEF Signal
  <2>4. QED
    BY <2>1, <2>2, <2>3
<1>2. CASE ParseArgs
  <2>1. ConfigFacts'
    BY <1>2 DEF ParseArgs, ConfigFacts
  <2>2. PlaceFacts'
    BY <1>2 DEF ParseArgs
  <2>3. RunFacts' /\ EndFacts' /\ ReportFacts'
    BY <1>2 DEF ParseArgs
  <2>4. QED
    BY <2>1, <2>2, <2>3
<1>3. CASE LoadFile
  <2>1. ConfigFacts'
    BY <1>3 DEF LoadFile, ConfigFacts
  <2>2. PlaceFacts'
    BY <1>3 DEF LoadFile
  <2>3. RunFacts' /\ EndFacts' /\ ReportFacts'
    BY <1>3 DEF LoadFile
  <2>4. QED
    BY <2>1, <2>2, <2>3
<1>4. CASE LoadEnv
  <2>1. ConfigFacts'
    BY <1>4 DEF LoadEnv, ConfigFacts
  <2>2. PlaceFacts'
    BY <1>4 DEF LoadEnv
  <2>3. RunFacts' /\ EndFacts' /\ ReportFacts'
    BY <1>4 DEF LoadEnv
  <2>4. QED
    BY <2>1, <2>2, <2>3
<1>5. CASE ApplyFlags
  <2>1. ConfigFacts'
    <3>1. PICK p, q \in Layer :
            layers = <<p, q>> /\ cfg = Apply(q, Apply(p, DefaultConfig))
      BY <1>5 DEF ApplyFlags, ConfigFacts
    <3>2. PICK r \in Layer : layers' = <<layers[1], layers[2], r>> /\ cfg' = Apply(r, cfg)
      BY <1>5 DEF ApplyFlags, FlagLayer
    <3>3. layers' = <<p, q, r>> /\ cfg' = Apply(r, Apply(q, Apply(p, DefaultConfig)))
      BY <3>1, <3>2
    <3>4. QED
      BY <1>5, <3>3 DEF ApplyFlags, ConfigFacts
  <2>2. PlaceFacts'
    BY <1>5 DEF ApplyFlags
  <2>3. RunFacts' /\ EndFacts' /\ ReportFacts'
    BY <1>5 DEF ApplyFlags
  <2>4. QED
    BY <2>1, <2>2, <2>3
<1>6. CASE ResolveRuntime
  <2>1. ConfigFacts'
    BY <1>6 DEF ResolveRuntime, NewBackend, ConfigFacts
  <2>2. PlaceFacts'
    BY <1>6 DEF ResolveRuntime, NewBackend, Constructible
  <2>3. RunFacts' /\ EndFacts' /\ ReportFacts'
    BY <1>6 DEF ResolveRuntime, NewBackend
  <2>4. QED
    BY <2>1, <2>2, <2>3
<1>7. CASE OpenWorkspace
  <2>1. ConfigFacts'
    BY <1>7 DEF OpenWorkspace, ConfigFacts
  <2>2. PlaceFacts'
    BY <1>7 DEF OpenWorkspace
  <2>3. RunFacts' /\ EndFacts' /\ ReportFacts'
    BY <1>7 DEF OpenWorkspace
  <2>4. QED
    BY <2>1, <2>2, <2>3
<1>8. CASE Launch
  <2>1. ConfigFacts'
    BY <1>8 DEF Launch, ConfigFacts
  <2>2. PlaceFacts'
    BY <1>8 DEF Launch
  <2>3. RunFacts' /\ EndFacts' /\ ReportFacts'
    BY <1>8 DEF Launch
  <2>4. QED
    BY <2>1, <2>2, <2>3
<1>9. CASE RunEnds
  <2>1. ConfigFacts'
    BY <1>9 DEF RunEnds, ConfigFacts
  <2>2. PlaceFacts'
    BY <1>9 DEF RunEnds
  <2>3. RunFacts' /\ EndFacts' /\ ReportFacts'
    BY <1>9 DEF RunEnds
  <2>4. QED
    BY <2>1, <2>2, <2>3
<1>10. CASE CloseWorkspace
  <2>1. ConfigFacts'
    BY <1>10 DEF CloseWorkspace, ConfigFacts
  <2>2. PlaceFacts'
    BY <1>10 DEF CloseWorkspace
  <2>3. RunFacts' /\ EndFacts' /\ ReportFacts'
    BY <1>10 DEF CloseWorkspace
  <2>4. QED
    BY <2>1, <2>2, <2>3
<1>11. CASE Main
  <2>1. ConfigFacts'
    BY <1>11 DEF Main, ConfigFacts
  <2>2. PlaceFacts'
    BY <1>11 DEF Main
  <2>3. RunFacts' /\ EndFacts' /\ ReportFacts'
    BY <1>11 DEF Main
  <2>4. QED
    BY <2>1, <2>2, <2>3
<1>12. CASE ShimSettles
  <2>1. ConfigFacts'
    BY <1>12 DEF ShimSettles, NewBackend, ConfigFacts
  <2>2. PlaceFacts'
    BY <1>12 DEF ShimSettles, NewBackend, Constructible
  <2>3. RunFacts' /\ EndFacts' /\ ReportFacts'
    BY <1>12 DEF ShimSettles, NewBackend
  <2>4. QED
    BY <2>1, <2>2, <2>3
<1>13. CASE UNCHANGED vars
  BY <1>13 DEF vars, ConfigFacts
<1>14. QED
  BY <1>1, <1>2, <1>3, <1>4, <1>5, <1>6, <1>7, <1>8, <1>9, <1>10, <1>11, <1>12, <1>13 DEF Next

\* IInv holds in every state of every invocation.
LEMMA Invariance == Spec => []IInv
<1>1. QED
  BY InitHolds, NextHolds, PTL DEF Spec

\* The layers are merged defaults < file < environment < flags, whatever fields each has
\* and whatever it sets them to.
THEOREM HighestWins == Spec => []HighestLayerWins
<1>1. IInv => HighestLayerWins
  <2> SUFFICES ASSUME IInv, phase = "runtime", NEW f \in DOMAIN cfg
               PROVE  \/ \E i \in 1..3 : /\ f \in DOMAIN layers[i] /\ cfg[f] = layers[i][f]
                                         /\ \A j \in (i + 1)..3 : f \notin DOMAIN layers[j]
                      \/ /\ \A i \in 1..3 : f \notin DOMAIN layers[i]
                         /\ cfg[f] = DefaultConfig[f]
    BY DEF HighestLayerWins
  <2>1. PICK p, q, r \in Layer :
          layers = <<p, q, r>> /\ cfg = Apply(r, Apply(q, Apply(p, DefaultConfig)))
    BY DEF IInv, ConfigFacts
  <2>2. f \in DOMAIN DefaultConfig
    BY <2>1 DEF Apply
  <2>3. cfg[f] = IF f \in DOMAIN r THEN r[f]
                 ELSE IF f \in DOMAIN q THEN q[f]
                 ELSE IF f \in DOMAIN p THEN p[f]
                 ELSE DefaultConfig[f]
    BY <2>1, <2>2, LayersMerge
  <2>4. layers[1] = p /\ layers[2] = q /\ layers[3] = r
    BY <2>1
  <2>5. CASE f \in DOMAIN r
    <3>1. \A j \in (3 + 1)..3 : f \notin DOMAIN layers[j]
      OBVIOUS
    <3>2. QED
      BY <2>3, <2>4, <2>5, <3>1
  <2>6. CASE f \notin DOMAIN r /\ f \in DOMAIN q
    <3>1. \A j \in (2 + 1)..3 : j = 3
      OBVIOUS
    <3>2. QED
      BY <2>3, <2>4, <2>6, <3>1
  <2>7. CASE f \notin DOMAIN r /\ f \notin DOMAIN q /\ f \in DOMAIN p
    <3>1. \A j \in (1 + 1)..3 : j \in {2, 3}
      OBVIOUS
    <3>2. QED
      BY <2>3, <2>4, <2>7, <3>1
  <2>8. CASE f \notin DOMAIN r /\ f \notin DOMAIN q /\ f \notin DOMAIN p
    <3>1. \A i \in 1..3 : i \in {1, 2, 3}
      OBVIOUS
    <3>2. QED
      BY <2>3, <2>4, <2>8, <3>1
  <2>9. QED
    BY <2>5, <2>6, <2>7, <2>8
<1>2. QED
  BY <1>1, Invariance, PTL

\* Whatever backend places it, a popup with a row of its own has its top edge there, for
\* every width of an int.
THEOREM CornerIsTopLeft == Spec => []TopLeftCorner
<1>1. IInv => TopLeftCorner
  <2> SUFFICES ASSUME IInv, phase = "running", asked[1].kind \in Unit
               PROVE  TopEdge(backend, flag, asked[2]) = asked[1] \/ flag.n < 0
    BY DEF TopLeftCorner
  <2>1. PICK y, h \in Value :
          asked = <<y, h>> /\ flag = RowFlag(backend, y, h) /\ flag # NoSum
    BY DEF IInv, PlaceFacts
  <2>2. backend \in Names /\ asked[1] = y /\ asked[2] = h
    BY <2>1 DEF IInv, PlaceFacts
  <2>3. QED
    BY <2>1, <2>2, FlagKeepsTopEdge
<1>2. QED
  BY <1>1, Invariance, PTL

\* Every exit leaves the directory settled and reports the first thing that failed.
THEOREM ExitSettled == Spec => []ExitIsSettled
<1>1. IInv => ExitIsSettled
  BY DEF IInv, EndFacts, ReportFacts, ExitIsSettled
<1>2. QED
  BY <1>1, Invariance, PTL
=============================================================================
