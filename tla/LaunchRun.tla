------------------------------ MODULE LaunchRun ------------------------------
(***************************************************************************)
(* A launched popup as the exchanges built on PopupCommand see it: its     *)
(* contexts, its launcher, the dismissal, the output streams relayed, and  *)
(* the release.  PopupLaunch implements it; JsonIpc, ZellijRun and         *)
(* PinentryExchange, which have the launch in a few steps of their own,    *)
(* keep to it, so that what they show is shown of launch.go's launch.      *)
(*                                                                         *)
(* The promise is that of the comments in launch.go: "Only a canceled      *)
(* launch is closed from here", "whichever of the two noticed first, this  *)
(* returns with the popup dismissed", and the release that drains what it  *)
(* relays before it gives anything back.                                   *)
(***************************************************************************)
CONSTANT Outputs    \* the output streams a launch can relay

VARIABLES
    asked,      \* the caller's context is done
    ctx,        \* the launch's context
    launcher,   \* the launcher process
    dismissal,  \* the popup's dismissal: "none", "running" or "over"
    open,       \* the output streams still relayed
    release     \* "no", "begun" (what remains is to drain and to undo) or "done"

runVars == <<asked, ctx, launcher, dismissal, open, release>>

\* Before the launch, or right after a launch that happened.
RunInit ==
    /\ asked = FALSE
    /\ \/ ctx \in {"none", "live"} /\ launcher = "none" /\ open = {}
       \/ ctx = "live" /\ launcher = "running" /\ open \in SUBSET Outputs
    /\ dismissal = "none"
    /\ release = "no"

Ask ==
    /\ asked' = TRUE
    /\ UNCHANGED <<ctx, launcher, dismissal, open, release>>

\* A child of a context that is done is born done.
MakeContext ==
    /\ ctx = "none"
    /\ ctx' = IF asked THEN "canceled" ELSE "live"
    /\ UNCHANGED <<asked, launcher, dismissal, open, release>>

Start(S) ==
    /\ launcher = "none"
    /\ ctx = "live"
    /\ launcher' = "running"
    /\ open' = S
    /\ UNCHANGED <<asked, ctx, dismissal, release>>

\* The context of a launch that runs ends with the caller's; one that never
\* started is given up.
EndContext ==
    /\ asked \/ launcher = "none"
    /\ ctx' = "canceled"
    /\ UNCHANGED <<asked, launcher, dismissal, open, release>>

LauncherEnds ==
    /\ launcher = "running"
    /\ launcher' \in {"ok", "failed"}
    /\ UNCHANGED <<asked, ctx, dismissal, open, release>>

CloseStream(s) ==
    /\ s \in open
    /\ open' = open \ {s}
    /\ UNCHANGED <<asked, ctx, launcher, dismissal, release>>

\* Only a canceled launch is dismissed, once, and never one that is given back.
Dismiss ==
    /\ asked
    /\ launcher # "none"
    /\ release = "no"
    /\ dismissal = "none"
    /\ dismissal' = "running"
    /\ UNCHANGED <<asked, ctx, launcher, open, release>>

Dismissed ==
    /\ dismissal = "running"
    /\ dismissal' = "over"
    /\ UNCHANGED <<asked, ctx, launcher, open, release>>

\* A dismissal under way is waited for.
BeginRelease ==
    /\ launcher # "none"
    /\ release = "no"
    /\ dismissal # "running"
    /\ release' = "begun"
    /\ ctx' = "canceled"
    /\ UNCHANGED <<asked, launcher, dismissal, open>>

\* And so is every stream.
EndRelease ==
    /\ release = "begun"
    /\ open = {}
    /\ release' = "done"
    /\ UNCHANGED <<asked, ctx, launcher, dismissal, open>>

RunNext ==
    \/ Ask \/ MakeContext \/ EndContext
    \/ \E S \in SUBSET Outputs : Start(S)
    \/ \E s \in Outputs : CloseStream(s)
    \/ LauncherEnds
    \/ Dismiss \/ Dismissed
    \/ BeginRelease \/ EndRelease

RunSpec == RunInit /\ [][RunNext]_runVars
==============================================================================
