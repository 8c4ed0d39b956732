------------------------------ MODULE JsonSend ------------------------------
(***************************************************************************)
(* The input side of a JSON exchange: concurrent calls of JsonIpcConn.Send *)
(* and the launch's relay of the payload's stdin, pumpIn, with an io.Pipe  *)
(* between them.                                                           *)
(*                                                                         *)
(* A value is larger than one read of the relay may be, so it travels as   *)
(* parts 1..Parts and can be cut between two of them.  What the payload    *)
(* gets to read is "wire"; when it exits, and when the exchange's Wait     *)
(* cancels the launch, is JsonIpc's, and happens here at any time.         *)
(***************************************************************************)
EXTENDS Naturals, Sequences

CONSTANTS
    Senders,    \* the calls of Send, one value each
    Parts,      \* the pieces of a value
    Room        \* the parts the payload's FIFO holds before a write blocks

NoOne == "no one"
Nothing == <<>>

ASSUME SendAssumption == Parts \in Nat \ {0} /\ Room \in Nat \ {0} /\ NoOne \notin Senders

VARIABLES
    ctx,        \* each call's context
    call,       \* where each call is
    left,       \* the part each call writes next
    after,      \* each call's AfterFunc: armed, stopped or run
    result,     \* what each call returned
    lock,       \* who holds sendMu
    pipe,       \* the pipe: open, or who closed it
    launchCtx,  \* the launch's context
    payload,    \* the payload
    relay,      \* pumpIn of the payload's stdin
    chunk,      \* what it read and has not written yet
    wire,       \* everything written to the FIFO
    taken       \* how much of it the payload has read

callVars  == <<call, left, after, result, lock>>
relayVars == <<relay, chunk, wire>>
vars == <<ctx, callVars, pipe, launchCtx, payload, relayVars, taken>>

\* Exec has returned, without an AddPayload: the input is streamed.
Init ==
    /\ ctx = [s \in Senders |-> "live"]
    /\ call = [s \in Senders |-> "idle"]
    /\ left = [s \in Senders |-> 1]
    /\ after = [s \in Senders |-> "none"]
    /\ result = [s \in Senders |-> "none"]
    /\ lock = NoOne
    /\ pipe = "open"
    /\ launchCtx = "live"
    /\ payload = "coming"
    /\ relay = "opening"
    /\ chunk = Nothing
    /\ wire = <<>>
    /\ taken = 0

ClosePipe(how) == pipe' = IF pipe = "open" THEN how ELSE pipe    \* the first close wins

------------------------------------------------------------------------------
(* Send. *)

\* Marshaled, and queued on sendMu.
CallSend(s) ==
    /\ call[s] = "idle"
    /\ call' = [call EXCEPT ![s] = "queued"]
    /\ UNCHANGED <<ctx, left, after, result, lock, pipe, launchCtx, payload, relayVars, taken>>

\* The lock, and then context.AfterFunc.
LockSend(s) ==
    /\ call[s] = "queued"
    /\ lock = NoOne
    /\ lock' = s
    /\ call' = [call EXCEPT ![s] = "writing"]
    /\ after' = [after EXCEPT ![s] = "armed"]
    /\ UNCHANGED <<ctx, left, result, pipe, launchCtx, payload, relayVars, taken>>

CancelSend(s) ==
    /\ ctx[s] = "live"
    /\ call[s] \in {"queued", "writing"}
    /\ ctx' = [ctx EXCEPT ![s] = "canceled"]
    /\ UNCHANGED <<callVars, pipe, launchCtx, payload, relayVars, taken>>

\* Mutant of AfterSend: a canceled send merely returns.
AfterSendReturns(s) ==
    /\ ctx[s] = "canceled"
    /\ after[s] = "armed"
    /\ after' = [after EXCEPT ![s] = "run"]
    /\ call' = [call EXCEPT ![s] = "returned"]
    /\ result' = [result EXCEPT ![s] = "canceled"]
    /\ lock' = NoOne
    /\ UNCHANGED <<ctx, left, pipe, launchCtx, payload, relayVars, taken>>

\* A canceled send ends the input stream.  In its own goroutine: one that was
\* started before the call's stop runs on after the call returned.
AfterSend(s) ==
    /\ ctx[s] = "canceled"
    /\ after[s] = "armed"
    /\ after' = [after EXCEPT ![s] = "run"]
    /\ ClosePipe("sender")
    /\ UNCHANGED <<ctx, call, left, result, lock, launchCtx, payload, relayVars, taken>>

\* The deferred stop and unlock.  A context that was canceled first has its
\* AfterFunc started, and the stop comes too late.
SendReturns(s, r) ==
    /\ call' = [call EXCEPT ![s] = "returned"]
    /\ result' = [result EXCEPT ![s] = r]
    /\ lock' = NoOne
    /\ after' = IF ctx[s] = "live" THEN [after EXCEPT ![s] = "stopped"] ELSE after

SendEnds(s) ==
    /\ call[s] = "writing"
    /\ left[s] > Parts
    /\ SendReturns(s, "nil")
    /\ UNCHANGED <<ctx, left, pipe, launchCtx, payload, relayVars, taken>>

\* Mutant of SendFails: the write's error is dropped.
SendFailsQuietly(s) ==
    /\ call[s] = "writing"
    /\ left[s] <= Parts
    /\ pipe # "open"
    /\ SendReturns(s, "nil")
    /\ UNCHANGED <<ctx, left, pipe, launchCtx, payload, relayVars, taken>>

\* Mutant of SendFails: an error although the relay has the whole value.
SendFailsTaken(s) ==
    /\ call[s] = "writing"
    /\ pipe # "open"
    /\ SendReturns(s, IF pipe = "sender" THEN "canceled" ELSE "closed")
    /\ UNCHANGED <<ctx, left, pipe, launchCtx, payload, relayVars, taken>>

\* The pipe closed at either end.
SendFails(s) ==
    /\ call[s] = "writing"
    /\ left[s] <= Parts
    /\ pipe # "open"
    /\ SendReturns(s, IF pipe = "sender" THEN "canceled" ELSE "closed")
    /\ UNCHANGED <<ctx, left, pipe, launchCtx, payload, relayVars, taken>>

------------------------------------------------------------------------------
(* The launch and the payload. *)

\* A canceled exchange, or the release at its end.
CancelLaunch ==
    /\ launchCtx = "live"
    /\ launchCtx' = "canceled"
    /\ UNCHANGED <<ctx, callVars, pipe, payload, relayVars, taken>>

\* The redirection of the payload's stdin, which the relay's next try finds.
PayloadOpens ==
    /\ payload = "coming"
    /\ payload' = "opening"
    /\ UNCHANGED <<ctx, callVars, pipe, launchCtx, relayVars, taken>>

PayloadReads ==
    /\ payload = "reading"
    /\ taken < Len(wire)
    /\ taken' = taken + 1
    /\ UNCHANGED <<ctx, callVars, pipe, launchCtx, payload, relayVars>>

PayloadExits ==
    /\ payload # "exited"
    /\ payload' = "exited"
    /\ UNCHANGED <<ctx, callVars, pipe, launchCtx, relayVars, taken>>

------------------------------------------------------------------------------
(* pumpIn. *)

\* Every way out closes the source, which is how a blocked send learns of it.
RelayReturns == relay' = "done" /\ ClosePipe("relay")

OpenWriter ==
    /\ relay = "opening"
    /\ payload = "opening"
    /\ relay' = "copying"
    /\ payload' = "reading"
    /\ UNCHANGED <<ctx, callVars, pipe, launchCtx, chunk, wire, taken>>

\* The startup timeout, the launch's context, or its directory gone.
OpenWriterGivesUp ==
    /\ relay = "opening"
    /\ RelayReturns
    /\ UNCHANGED <<ctx, callVars, launchCtx, payload, chunk, wire, taken>>

\* A read on the pipe takes what the one writer has on offer.  A cancellation
\* does not reach it: it ends with the source.
RelayReads(s) ==
    /\ relay = "copying"
    /\ chunk = Nothing
    /\ pipe = "open"
    /\ call[s] = "writing"
    /\ left[s] <= Parts
    /\ chunk' = <<s, left[s]>>
    /\ left' = [left EXCEPT ![s] = @ + 1]
    /\ UNCHANGED <<ctx, call, after, result, lock, pipe, launchCtx, payload, relay, wire, taken>>

RelayWrites ==
    /\ relay = "copying"
    /\ chunk # Nothing
    /\ payload = "reading"
    /\ Len(wire) - taken < Room
    /\ wire' = Append(wire, chunk)
    /\ chunk' = Nothing
    /\ UNCHANGED <<ctx, callVars, pipe, launchCtx, payload, relay, taken>>

\* Mutant of RelayWriteFails: a failed write leaves the source open.
RelayWriteFailsOnly ==
    /\ relay = "copying"
    /\ chunk # Nothing
    /\ launchCtx = "canceled" \/ payload = "exited"
    /\ relay' = "done"
    /\ UNCHANGED <<ctx, callVars, pipe, launchCtx, payload, chunk, wire, taken>>

\* The write deadline of a canceled launch, or nobody left to read.
RelayWriteFails ==
    /\ relay = "copying"
    /\ chunk # Nothing
    /\ launchCtx = "canceled" \/ payload = "exited"
    /\ RelayReturns
    /\ UNCHANGED <<ctx, callVars, launchCtx, payload, chunk, wire, taken>>

\* The pipe closed by a canceled send: its cause ends the copy, and closing the
\* FIFO is the payload's end of file.
RelaySourceEnds ==
    /\ relay = "copying"
    /\ chunk = Nothing
    /\ pipe # "open"
    /\ RelayReturns
    /\ UNCHANGED <<ctx, callVars, launchCtx, payload, chunk, wire, taken>>

------------------------------------------------------------------------------
SendStep(s) == LockSend(s) \/ SendEnds(s) \/ SendFails(s)
RelayStep ==
    \/ OpenWriter \/ RelayWrites \/ RelayWriteFails \/ RelaySourceEnds
    \/ \E s \in Senders : RelayReads(s)

Next ==
    \/ \E s \in Senders : CallSend(s) \/ CancelSend(s) \/ AfterSend(s) \/ SendStep(s)
    \/ CancelLaunch \/ PayloadOpens \/ PayloadReads \/ PayloadExits
    \/ RelayStep \/ OpenWriterGivesUp

Spec == Init /\ [][Next]_vars

\* Goroutines that can move do.  Nothing is assumed of the payload, which may
\* never open its stdin or stop reading it, nor of the startup timeout.
Fairness ==
    /\ \A s \in Senders : WF_vars(AfterSend(s)) /\ WF_vars(SendStep(s))
    /\ WF_vars(RelayStep)
    /\ WF_vars(launchCtx = "canceled" /\ OpenWriterGivesUp)

FairSpec == Spec /\ Fairness

------------------------------------------------------------------------------
(* Properties. *)

Part == Senders \X (1..Parts)
TypeOK ==
    /\ ctx \in [Senders -> {"live", "canceled"}]
    /\ call \in [Senders -> {"idle", "queued", "writing", "returned"}]
    /\ left \in [Senders -> 1..(Parts + 1)]
    /\ after \in [Senders -> {"none", "armed", "stopped", "run"}]
    /\ result \in [Senders -> {"none", "nil", "canceled", "closed"}]
    /\ lock \in Senders \cup {NoOne}
    /\ pipe \in {"open", "sender", "relay"}
    /\ launchCtx \in {"live", "canceled"}
    /\ payload \in {"coming", "opening", "reading", "exited"}
    /\ relay \in {"opening", "copying", "done"}
    /\ chunk \in Part \cup {Nothing}
    /\ wire \in Seq(Part)
    /\ taken \in 0..Len(wire)

\* Send: "half a value has already reached the payload and cannot be taken back".
\* Nothing follows a value that was cut: every part but the last is followed by the
\* next of its own value, whatever calls are canceled around it.
CutValueEndsInput ==
    \A i \in 1..Len(wire) :
        /\ i = 1 => wire[i][2] = 1
        /\ i < Len(wire) =>
            IF wire[i][2] < Parts THEN wire[i + 1] = <<wire[i][1], wire[i][2] + 1>>
                                  ELSE wire[i + 1][2] = 1

\* A Send without an error handed its whole value to the relay: every part of it is on
\* the wire, or is the one the relay was holding.
SentIsRelayed ==
    \A s \in Senders : result[s] = "nil" =>
        \A p \in 1..Parts : chunk = <<s, p>> \/ \E i \in 1..Len(wire) : wire[i] = <<s, p>>

\* A send that is writing comes back when its own context is canceled, and when the
\* launch's is, whether or not the payload ever opens or reads its stdin.
CanceledSendReturns ==
    \A s \in Senders :
        (call[s] = "writing" /\ (ctx[s] = "canceled" \/ launchCtx = "canceled"))
            ~> (call[s] = "returned")

------------------------------------------------------------------------------
(* What the callers and the payload are promised: the specification of ValueInput. *)

acceptedValues == {s \in Senders : left[s] > Parts}
begunValues    == {s \in Senders : \E i \in 1..Len(wire) : wire[i][1] = s}
wholeValues    == {s \in Senders : \E i \in 1..Len(wire) : wire[i] = <<s, Parts>>}

Input == INSTANCE ValueInput WITH
    accepted <- acceptedValues,
    begun    <- begunValues,
    whole    <- wholeValues,
    ended    <- (relay = "done"),
    answer   <- result

\* Values reach the payload one at a time, in the order they were taken, and none after a
\* cut one; a call's answer says whether its value was taken, and one whose call has been
\* answered with an error never is.
KeepsInput == Input!InputSpec
==============================================================================
