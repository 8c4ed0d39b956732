------------------------------- MODULE Settings -------------------------------
(***************************************************************************)
(* What an invocation decides before it opens a popup: the configuration   *)
(* layers, the backend, and where the popup goes.  Operators only;         *)
(* CommandRun is the invocation that uses them.                            *)
(***************************************************************************)
EXTENDS Integers

CONSTANT MaxInt    \* the largest int

ASSUME IntAssumption == MaxInt \in Nat \ {0}

------------------------------------------------------------------------------
(* config.go: a partial configuration is a function on the fields it has. *)

\* Mutant of Apply: an explicit empty value counts as absent.
ApplyNonEmpty(p, base) ==
    [f \in DOMAIN base |-> IF f \in DOMAIN p THEN IF p[f] # "" THEN p[f] ELSE base[f]
                           ELSE base[f]]

\* A present field overwrites, its explicit zero included.
Apply(p, base) == [f \in DOMAIN base |-> IF f \in DOMAIN p THEN p[f] ELSE base[f]]

\* Backend stays empty on purpose: unset means detection.
DefaultConfig == [backend |-> "", pinentry_path |-> "/usr/bin/pinentry-curses"]

------------------------------------------------------------------------------
(* backend.go, userdata.go *)

Names == {"tmux-popup", "tmux-floating-pane", "zellij"}
Kinds == Names \cup {""}    \* the mechanism a PINENTRY_USER_DATA kind names, or none

\* The kind, then $TMUX, then $ZELLIJ; "" is the error naming them all.
DetectName(kind, tmuxEnv, zellijEnv) ==
    IF kind # "" THEN kind
    ELSE IF tmuxEnv THEN "tmux-popup"
    ELSE IF zellijEnv THEN "zellij"
    ELSE ""

\* New: a name it knows; and tmux wants a session meta it can use unless it has $TMUX.
Constructible(name, tmuxEnv, metaOk) ==
    name \in Names /\ (name # "zellij" => tmuxEnv \/ metaOk)

------------------------------------------------------------------------------
(* geometry.go: a value is empty, a position specifier, malformed, or a number of
   cells or percent, its digits read. *)

Unit == {"cells", "percent"}
Value == [kind : {"empty", "position", "malformed"}, n : {0}] \cup [kind : Unit, n : Nat]

Empty == [kind |-> "empty", n |-> 0]
NoSum == [kind |-> "malformed", n |-> 0]
IsPosition(v) == v.kind = "position"

Valid(v, position) == v.kind \in Unit \cup {"empty"} \/ (IsPosition(v) /\ position)

\* x + y of two ints.
Add(x, y) == IF x + y > MaxInt THEN x + y - 2 * (MaxInt + 1) ELSE x + y

\* Two values of one unit; Atoi refuses the digits of a number that is no int.
Sum(a, b) ==
    IF a.kind \in Unit /\ a.kind = b.kind /\ a.n <= MaxInt /\ b.n <= MaxInt
    THEN [kind |-> a.kind, n |-> Add(a.n, b.n)]
    ELSE NoSum

\* Mutant of PopupBottomEdge: a row without a height passes as it is.
PopupBottomEdgeLax(y, height) ==
    IF y.kind = "empty" \/ IsPosition(y) \/ height.kind = "empty" THEN y ELSE Sum(y, height)

\* display-popup's -y for a popup whose top edge is y.
PopupBottomEdge(y, height) ==
    IF y.kind = "empty" \/ IsPosition(y) THEN y ELSE Sum(y, height)

\* The row flag each backend's request carries; NoSum is a launch it refuses.
RowFlag(name, y, height) ==
    CASE name = "tmux-popup" -> PopupBottomEdge(y, height)
      [] name = "tmux-floating-pane" -> y
      [] name = "zellij" -> IF IsPosition(y) THEN NoSum ELSE y

\* What the multiplexer makes of the flag: display-popup's is the bottom edge, and a
\* popup as high as tmux likes has its top edge anywhere.
TopEdge(name, flag, height) ==
    IF name # "tmux-popup" \/ flag.kind \notin Unit THEN flag
    ELSE IF height.kind = flag.kind THEN [kind |-> flag.kind, n |-> flag.n - height.n]
    ELSE NoSum
==============================================================================
