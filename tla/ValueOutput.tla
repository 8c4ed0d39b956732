----------------------------- MODULE ValueOutput -----------------------------
(***************************************************************************)
(* What Results and Wait promise the caller of a JSON exchange: the values *)
(* the payload wrote, as far as they got, then a closed channel, then one  *)
(* verdict that is true.  JsonIpc implements it, with the relay, the pipe, *)
(* the two goroutines and the release that make it so.                     *)
(*                                                                         *)
(* The verdict is settled once, by whoever comes first, and each has its   *)
(* grounds: "nil" that the payload is through and all it wrote was taken,  *)
(* "decode" that what follows the values taken is not one, "cut" that the  *)
(* caller canceled, "launcher" that the launcher failed, "abandoned" that  *)
(* nothing the payload may have written reached the caller.                *)
(***************************************************************************)
EXTENDS Naturals

VARIABLES
    canceled,   \* the caller's context
    launcher,   \* the launcher process
    gone,       \* the payload has let go of its stdout
    written,    \* the whole values it wrote there
    spoiled,    \* it wrote something after them that is no value
    taken,      \* the values the caller has taken
    closed,     \* the channel of results
    outcome,    \* how the exchange ended, "undecided" before
    returned,   \* the launch was given back
    verdict     \* what Wait reported

outputVars == <<canceled, launcher, gone, written, spoiled, taken, closed, outcome, returned,
                verdict>>

OutputInit ==
    /\ canceled = FALSE
    /\ launcher = "running"
    /\ gone = FALSE
    /\ written = 0
    /\ spoiled = FALSE
    /\ taken = 0
    /\ closed = FALSE
    /\ outcome = "undecided"
    /\ returned = FALSE
    /\ verdict = "none"

Cancel ==
    /\ canceled' = TRUE
    /\ UNCHANGED <<launcher, gone, written, spoiled, taken, closed, outcome, returned, verdict>>

LauncherEnds ==
    /\ launcher = "running"
    /\ launcher' \in {"ok", "failed"}
    /\ UNCHANGED <<canceled, gone, written, spoiled, taken, closed, outcome, returned, verdict>>

WriteValue ==
    /\ ~gone /\ ~spoiled
    /\ written' = written + 1
    /\ UNCHANGED <<canceled, launcher, gone, spoiled, taken, closed, outcome, returned, verdict>>

Spoil ==
    /\ ~gone /\ ~spoiled
    /\ spoiled' = TRUE
    /\ UNCHANGED <<canceled, launcher, gone, written, taken, closed, outcome, returned, verdict>>

LetGo ==
    /\ gone' = TRUE
    /\ UNCHANGED <<canceled, launcher, written, spoiled, taken, closed, outcome, returned,
                   verdict>>

TakeValue ==
    /\ ~closed
    /\ taken < written
    /\ taken' = taken + 1
    /\ UNCHANGED <<canceled, launcher, gone, written, spoiled, closed, outcome, returned,
                   verdict>>

CloseResults ==
    /\ ~closed
    /\ closed' = TRUE
    /\ UNCHANGED <<canceled, launcher, gone, written, spoiled, taken, outcome, returned, verdict>>

\* What each outcome says of the exchange.
Grounds(o) ==
    \/ o = "nil" /\ closed /\ gone /\ ~spoiled /\ taken = written
    \/ o = "decode" /\ closed /\ spoiled /\ taken = written
    \/ o = "cut" /\ closed /\ canceled
    \/ o = "launcher" /\ launcher = "failed"
    \/ o = "abandoned" /\ closed /\ taken = 0

\* "The first one recorded wins."
Decide(o) ==
    /\ outcome = "undecided"
    /\ Grounds(o)
    /\ outcome' = o
    /\ UNCHANGED <<canceled, launcher, gone, written, spoiled, taken, closed, returned, verdict>>

GiveBack ==
    /\ outcome # "undecided"
    /\ ~returned
    /\ returned' = TRUE
    /\ UNCHANGED <<canceled, launcher, gone, written, spoiled, taken, closed, outcome, verdict>>

Report ==
    /\ closed /\ returned
    /\ verdict = "none"
    /\ verdict' = outcome
    /\ UNCHANGED <<canceled, launcher, gone, written, spoiled, taken, closed, outcome, returned>>

OutputNext ==
    \/ Cancel \/ LauncherEnds
    \/ WriteValue \/ Spoil \/ LetGo
    \/ TakeValue \/ CloseResults
    \/ \E o \in {"nil", "decode", "cut", "launcher", "abandoned"} : Decide(o)
    \/ GiveBack \/ Report

OutputSpec == OutputInit /\ [][OutputNext]_outputVars
==============================================================================
