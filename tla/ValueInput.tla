----------------------------- MODULE ValueInput ------------------------------
(***************************************************************************)
(* What Send promises its callers, and the payload that reads them: values *)
(* one at a time, each of them whole or the last of the input, and an      *)
(* answer that says whether the value was taken.  JsonSend implements it,  *)
(* with the mutex, the pipe and the relay that make it so.                 *)
(*                                                                         *)
(* A value counts as taken once the relay has all of it.  That it is then  *)
(* delivered is not promised: the input can end first.                     *)
(***************************************************************************)
CONSTANT Senders    \* the calls of Send, one value each

VARIABLES
    accepted,   \* the values taken whole
    begun,      \* the values of which a part has reached the payload's stdin
    whole,      \* the values that are there whole
    ended,      \* the payload's end of file
    answer      \* what each call returned

inputVars == <<accepted, begun, whole, ended, answer>>

InputInit ==
    /\ accepted = {}
    /\ begun = {}
    /\ whole = {}
    /\ ended = FALSE
    /\ answer = [s \in Senders |-> "none"]

\* A value is taken when those before it are through, and while its call is there.
Accept(s) ==
    /\ ~ended
    /\ accepted = whole
    /\ s \notin accepted
    /\ answer[s] = "none"
    /\ accepted' = accepted \cup {s}
    /\ UNCHANGED <<begun, whole, ended, answer>>

\* Also of a call that has given up: its half value "cannot be taken back".
Begin(s) ==
    /\ ~ended
    /\ begun = whole
    /\ s \notin begun
    /\ begun' = begun \cup {s}
    /\ UNCHANGED <<accepted, whole, ended, answer>>

\* The last part of a value, which may be its first.
Deliver(s) ==
    /\ ~ended
    /\ s \in accepted \ whole
    /\ begun \ whole \in SUBSET {s}
    /\ begun' = begun \cup {s}
    /\ whole' = whole \cup {s}
    /\ UNCHANGED <<accepted, ended, answer>>

EndInput ==
    /\ ~ended
    /\ ended' = TRUE
    /\ UNCHANGED <<accepted, begun, whole, answer>>

\* "nil" is for a value that was taken, an error for one that was not and never will be.
Answer(s, r) ==
    /\ answer[s] = "none"
    /\ r = "nil" <=> s \in accepted
    /\ answer' = [answer EXCEPT ![s] = r]
    /\ UNCHANGED <<accepted, begun, whole, ended>>

InputNext ==
    \/ \E s \in Senders : Accept(s) \/ Begin(s) \/ Deliver(s)
    \/ \E s \in Senders, r \in {"nil", "canceled", "closed"} : Answer(s, r)
    \/ EndInput

InputSpec == InputInit /\ [][InputNext]_inputVars
==============================================================================
