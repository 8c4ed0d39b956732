----------------------------- MODULE LaunchLease -----------------------------
(***************************************************************************)
(* What a popup launch promises the caller of PopupLauncher.Exec, without  *)
(* saying how: it takes things one after the other, either refuses and     *)
(* gives all of them back, or runs, and then gives them back in the        *)
(* reverse order once every output stream it adopted has been closed.      *)
(*                                                                         *)
(* The promise is spread over launch.go: the rollback list of Exec, the    *)
(* documentation of Exec ("owns what the launch took, and gives it back    *)
(* when its Wait returns") and of PopupStreams ("The launch closes every   *)
(* endpoint it was handed once its stream has ended; when Exec itself      *)
(* returns an error the endpoints were never adopted").                    *)
(***************************************************************************)
EXTENDS Sequences, Naturals

CONSTANTS
    Outputs,   \* the payload's output streams
    Things     \* what a launch can take: multiplexer state, workspace, context

VARIABLES
    phase,     \* "taking", "running", "undoing", "ending", "refused" or "ended"
    held,      \* what has been taken and not given back, oldest first
    adopted    \* the output streams adopted and not yet closed

leaseVars == <<phase, held, adopted>>

LeaseInit ==
    /\ phase = "taking"
    /\ held = <<>>
    /\ adopted = {}

Take(t) ==
    /\ phase = "taking"
    /\ held' = Append(held, t)
    /\ UNCHANGED <<phase, adopted>>

\* The launch did not happen, and nothing had been taken for it.
RefuseAtOnce ==
    /\ phase = "taking"
    /\ held = <<>>
    /\ phase' = "refused"
    /\ UNCHANGED <<held, adopted>>

\* The launch did not happen: from here on things are only given back.
GiveUp ==
    /\ phase = "taking"
    /\ phase' = "undoing"
    /\ UNCHANGED <<held, adopted>>

\* The launch happened, and owns the streams it was handed.
Adopt(S) ==
    /\ phase = "taking"
    /\ phase' = "running"
    /\ adopted' = S
    /\ UNCHANGED held

CloseStream(s) ==
    /\ phase = "running"
    /\ s \in adopted
    /\ adopted' = adopted \ {s}
    /\ UNCHANGED <<phase, held>>

\* Giving back starts only when no adopted stream is left open.
StartEnding ==
    /\ phase = "running"
    /\ adopted = {}
    /\ phase' = "ending"
    /\ UNCHANGED <<held, adopted>>

GiveBack ==
    /\ phase \in {"undoing", "ending"}
    /\ held # <<>>
    /\ held' = SubSeq(held, 1, Len(held) - 1)
    /\ UNCHANGED <<phase, adopted>>

Finish ==
    /\ held = <<>>
    /\ \/ phase = "undoing" /\ phase' = "refused"
       \/ phase = "ending" /\ phase' = "ended"
    /\ UNCHANGED <<held, adopted>>

LeaseNext ==
    \/ \E t \in Things : Take(t)
    \/ \E S \in SUBSET Outputs : Adopt(S)
    \/ \E s \in Outputs : CloseStream(s)
    \/ RefuseAtOnce
    \/ GiveUp
    \/ StartEnding
    \/ GiveBack
    \/ Finish

LeaseSpec == LeaseInit /\ [][LeaseNext]_leaseVars
==============================================================================
