---------------------------- MODULE JsonSendProofs ----------------------------
(***************************************************************************)
(* The safety of JsonSend, for every set of calls, however many pieces a   *)
(* value travels in and however small the FIFO.                            *)
(*                                                                         *)
(* IInv is the inductive invariant.  As long as the pipe is open the last  *)
(* piece read off it tells who holds the lock and how far that call is     *)
(* (Frontier); once it is closed nothing is read any more, so that a value *)
(* cut between two pieces stays the last one on the wire (WireFacts).      *)
(***************************************************************************)
EXTENDS JsonSend, SequenceTheorems, TLAPS

\* Piece b may follow the pieces of w.
Follows(b, w) ==
    IF w = <<>> THEN b[2] = 1
    ELSE IF w[Len(w)][2] < Parts THEN b = <<w[Len(w)][1], w[Len(w)][2] + 1>>
    ELSE b[2] = 1

\* The last piece the relay read.
LastRead == IF chunk # Nothing THEN chunk
            ELSE IF wire # <<>> THEN wire[Len(wire)]
            ELSE Nothing

LockFacts ==
    \A s \in Senders :
        /\ call[s] = "writing" => lock = s
        /\ call[s] \in {"idle", "queued"} => left[s] = 1
        /\ result[s] = "nil" => left[s] = Parts + 1

Frontier ==
    pipe = "open" =>
        /\ LastRead # Nothing =>
            \/ LastRead[2] = Parts
            \/ /\ call[LastRead[1]] = "writing"
               /\ left[LastRead[1]] = LastRead[2] + 1
        /\ \A s \in Senders : call[s] = "writing" /\ left[s] > 1 =>
            LastRead = <<s, left[s] - 1>>

WireFacts ==
    /\ CutValueEndsInput
    /\ chunk # Nothing => Follows(chunk, wire)

\* Every piece read is on the wire, or in the relay's hand.
ReadFacts ==
    \A s \in Senders : \A p \in 1..Parts : p < left[s] =>
        chunk = <<s, p>> \/ \E i \in 1..Len(wire) : wire[i] = <<s, p>>

IInv ==
    /\ TypeOK
    /\ LockFacts
    /\ Frontier
    /\ WireFacts
    /\ ReadFacts

------------------------------------------------------------------------------
\* Appending a piece keeps those there were and adds one.
LEMMA AppendFacts ==
    ASSUME NEW w \in Seq(Part), NEW b \in Part
    PROVE  /\ Append(w, b) \in Seq(Part)
           /\ Len(w) \in Nat
           /\ Len(Append(w, b)) = Len(w) + 1
           /\ \A i \in 1..Len(w) : Append(w, b)[i] = w[i]
           /\ Append(w, b)[Len(w) + 1] = b
           /\ Append(w, b) # <<>>
  BY AppendProperties, LenProperties

\* The pieces on the wire are pieces, and an empty wire has none.
LEMMA WireIsSeq ==
    ASSUME NEW w \in Seq(Part)
    PROVE  /\ Len(w) \in Nat
           /\ w = <<>> <=> Len(w) = 0
           /\ \A i \in 1..Len(w) : w[i] \in Part
<1>1. \A i \in 1..Len(w) : w[i] \in Part
  BY ElementOfSeq
<1>2. Len(w) \in Nat /\ (w = <<>> <=> Len(w) = 0)
  BY EmptySeq, LenProperties
<1>3. QED
  BY <1>1, <1>2

\* A part is a pair, and is told from no part at all.
LEMMA PieceFacts ==
    ASSUME NEW b \in Part
    PROVE  /\ b # Nothing /\ b = <<b[1], b[2]>> /\ b[1] \in Senders /\ b[2] \in 1..Parts
  BY DEF Part, Nothing

\* An exchange starts in the invariant.
LEMMA InitHolds == Init => IInv
<1> SUFFICES ASSUME Init PROVE IInv
  OBVIOUS
<1>1. wire \in Seq(Part) /\ Len(wire) = 0
  BY EmptySeq DEF Init
<1>2. TypeOK
  BY <1>1, SendAssumption DEF Init, TypeOK
<1>3. LockFacts /\ Frontier
  BY DEF Init, LockFacts, Frontier, LastRead
<1>4. WireFacts /\ ReadFacts
  BY <1>1, SendAssumption DEF Init, WireFacts, CutValueEndsInput, ReadFacts
<1>5. QED
  BY <1>2, <1>3, <1>4 DEF IInv

\* A piece read off the pipe is the next one.
LEMMA ReadsFollow ==
    ASSUME IInv, NEW s \in Senders, RelayReads(s)
    PROVE  Follows(<<s, left[s]>>, wire)
<1>1. /\ LastRead = IF wire # <<>> THEN wire[Len(wire)] ELSE Nothing
      /\ pipe = "open" /\ call[s] = "writing" /\ left[s] \in 1..Parts
  BY SendAssumption DEF RelayReads, LastRead, IInv, TypeOK
<1>2. CASE wire = <<>>
  <2>1. ~(left[s] > 1)
    BY <1>1, <1>2, SendAssumption, PieceFacts DEF IInv, Frontier, Part, TypeOK
  <2>2. QED
    BY <1>1, <1>2, <2>1 DEF Follows
<1>3. CASE wire # <<>>
  <2> DEFINE b == wire[Len(wire)]
  <2>1. b \in Part /\ LastRead = b /\ b # Nothing
    BY <1>1, <1>3, WireIsSeq, PieceFacts DEF IInv, TypeOK
  <2>2. \/ b[2] = Parts
        \/ b[1] = s /\ left[s] = b[2] + 1
    BY <1>1, <2>1, PieceFacts DEF IInv, Frontier, LockFacts
  <2>3. left[s] > 1 => b = <<s, left[s] - 1>>
    BY <1>1, <2>1 DEF IInv, Frontier
  <2>4. b = <<b[1], b[2]>> /\ b[2] \in 1..Parts
    BY <2>1, PieceFacts
  <2>5. CASE b[2] < Parts
    <3>1. left[s] = b[2] + 1 /\ b[1] = s
      BY <2>2, <2>4, <2>5, SendAssumption
    <3>2. QED
      BY <1>3, <2>5, <3>1 DEF Follows
  <2>6. CASE b[2] = Parts
    <3>1. left[s] = 1
      BY <1>1, <2>3, <2>6, SendAssumption
    <3>2. QED
      BY <1>3, <2>6, <3>1, SendAssumption DEF Follows
  <2>7. QED
    BY <2>4, <2>5, <2>6, SendAssumption
<1>4. QED
  BY <1>2, <1>3

\* Steps that read nothing and write nothing leave the pieces as they are.
LEMMA QuietStep ==
    ASSUME IInv, TypeOK', LockFacts',
           UNCHANGED <<left, chunk, wire>>,
           pipe' = "open" => pipe = "open",
           \A s \in Senders : call'[s] # call[s] /\ pipe' = "open" =>
               left[s] = 1 \/ (left[s] = Parts + 1 /\ call'[s] # "writing")
    PROVE  IInv'
<1>1. LastRead' = LastRead
  BY DEF LastRead
<1>2. LastRead # Nothing => LastRead[1] \in Senders /\ LastRead[2] \in 1..Parts
  BY WireIsSeq, PieceFacts DEF LastRead, IInv, TypeOK
<1>3. Frontier'
  <2> SUFFICES ASSUME pipe' = "open"
               PROVE  /\ LastRead # Nothing =>
                          \/ LastRead[2] = Parts
                          \/ /\ call'[LastRead[1]] = "writing"
                             /\ left[LastRead[1]] = LastRead[2] + 1
                      /\ \A s \in Senders : call'[s] = "writing" /\ left[s] > 1 =>
                          LastRead = <<s, left[s] - 1>>
    BY <1>1 DEF Frontier
  <2>1. ASSUME LastRead # Nothing, LastRead[2] # Parts
        PROVE  call'[LastRead[1]] = "writing" /\ left[LastRead[1]] = LastRead[2] + 1
    <3>1. call[LastRead[1]] = "writing" /\ left[LastRead[1]] = LastRead[2] + 1
      BY <2>1 DEF IInv, Frontier
    <3>2. call'[LastRead[1]] = call[LastRead[1]]
      BY <1>2, <2>1, <3>1, SendAssumption
    <3>3. QED
      BY <3>1, <3>2
  <2>2. ASSUME NEW s \in Senders, call'[s] = "writing", left[s] > 1
        PROVE  LastRead = <<s, left[s] - 1>>
    <3>1. call[s] = "writing"
      BY <2>2
    <3>2. QED
      BY <2>2, <3>1 DEF IInv, Frontier
  <2>3. QED
    BY <2>1, <2>2
<1>4. WireFacts' /\ ReadFacts'
  BY DEF IInv, WireFacts, CutValueEndsInput, Follows, ReadFacts
<1>5. QED
  BY <1>3, <1>4 DEF IInv

\* A step of one call keeps the invariant.
LEMMA SendStepHolds ==
    ASSUME IInv, NEW s \in Senders,
           CallSend(s) \/ CancelSend(s) \/ AfterSend(s) \/ SendStep(s)
    PROVE  IInv'
<1> USE SendAssumption DEF IInv, TypeOK, LockFacts, callVars, relayVars, ClosePipe, SendReturns
<1>1. CASE CallSend(s)
  <2>1. TypeOK' /\ LockFacts'
    BY <1>1 DEF CallSend
  <2>2. /\ UNCHANGED <<left, chunk, wire>>
        /\ pipe' = "open" => pipe = "open"
        /\ \A k \in Senders : call'[k] # call[k] /\ pipe' = "open" =>
               left[k] = 1 \/ (left[k] = Parts + 1 /\ call'[k] # "writing")
    BY <1>1 DEF CallSend
  <2>3. QED
    BY <2>1, <2>2, QuietStep
<1>2. CASE LockSend(s)
  <2>1. TypeOK' /\ LockFacts'
    BY <1>2 DEF LockSend
  <2>2. /\ UNCHANGED <<left, chunk, wire>>
        /\ pipe' = "open" => pipe = "open"
        /\ \A k \in Senders : call'[k] # call[k] /\ pipe' = "open" =>
               left[k] = 1 \/ (left[k] = Parts + 1 /\ call'[k] # "writing")
    BY <1>2 DEF LockSend
  <2>3. QED
    BY <2>1, <2>2, QuietStep
<1>3. CASE CancelSend(s)
  <2>1. TypeOK' /\ LockFacts'
    BY <1>3 DEF CancelSend
  <2>2. /\ UNCHANGED <<left, chunk, wire>>
        /\ pipe' = "open" => pipe = "open"
        /\ \A k \in Senders : call'[k] # call[k] /\ pipe' = "open" =>
               left[k] = 1 \/ (left[k] = Parts + 1 /\ call'[k] # "writing")
    BY <1>3 DEF CancelSend
  <2>3. QED
    BY <2>1, <2>2, QuietStep
<1>4. CASE AfterSend(s)
  <2>1. TypeOK' /\ LockFacts'
    BY <1>4 DEF AfterSend
  <2>2. /\ UNCHANGED <<left, chunk, wire>>
        /\ pipe' = "open" => pipe = "open"
        /\ \A k \in Senders : call'[k] # call[k] /\ pipe' = "open" =>
               left[k] = 1 \/ (left[k] = Parts + 1 /\ call'[k] # "writing")
    BY <1>4 DEF AfterSend
  <2>3. QED
    BY <2>1, <2>2, QuietStep
<1>5. CASE SendEnds(s)
  <2>1. TypeOK' /\ LockFacts'
    BY <1>5 DEF SendEnds
  <2>2. /\ UNCHANGED <<left, chunk, wire>>
        /\ pipe' = "open" => pipe = "open"
        /\ \A k \in Senders : call'[k] # call[k] /\ pipe' = "open" =>
               left[k] = 1 \/ (left[k] = Parts + 1 /\ call'[k] # "writing")
    BY <1>5 DEF SendEnds
  <2>3. QED
    BY <2>1, <2>2, QuietStep
<1>6. CASE SendFails(s)
  <2>1. TypeOK' /\ LockFacts'
    BY <1>6 DEF SendFails
  <2>2. /\ UNCHANGED <<left, chunk, wire>>
        /\ pipe' = "open" => pipe = "open"
        /\ \A k \in Senders : call'[k] # call[k] /\ pipe' = "open" =>
               left[k] = 1 \/ (left[k] = Parts + 1 /\ call'[k] # "writing")
    BY <1>6 DEF SendFails
  <2>3. QED
    BY <2>1, <2>2, QuietStep
<1>7. QED
  BY <1>1, <1>2, <1>3, <1>4, <1>5, <1>6 DEF SendStep

\* A step of the launch, the payload or the relay that moves no piece keeps it as well.
LEMMA OtherStepHolds ==
    ASSUME IInv,
           \/ CancelLaunch \/ PayloadOpens \/ PayloadReads \/ PayloadExits
           \/ OpenWriter \/ OpenWriterGivesUp \/ RelayWriteFails \/ RelaySourceEnds
    PROVE  IInv'
<1> USE SendAssumption, WireIsSeq DEF IInv, TypeOK, LockFacts, callVars, relayVars, ClosePipe, RelayReturns
<1>1. CASE CancelLaunch
  <2>1. TypeOK' /\ LockFacts'
    BY <1>1 DEF CancelLaunch
  <2>2. UNCHANGED <<left, chunk, wire, call>> /\ (pipe' = "open" => pipe = "open")
    BY <1>1 DEF CancelLaunch
  <2>3. QED
    BY <2>1, <2>2, QuietStep
<1>2. CASE PayloadOpens
  <2>1. TypeOK' /\ LockFacts'
    BY <1>2 DEF PayloadOpens
  <2>2. UNCHANGED <<left, chunk, wire, call>> /\ (pipe' = "open" => pipe = "open")
    BY <1>2 DEF PayloadOpens
  <2>3. QED
    BY <2>1, <2>2, QuietStep
<1>3. CASE PayloadReads
  <2>1. TypeOK' /\ LockFacts'
    BY <1>3 DEF PayloadReads
  <2>2. UNCHANGED <<left, chunk, wire, call>> /\ (pipe' = "open" => pipe = "open")
    BY <1>3 DEF PayloadReads
  <2>3. QED
    BY <2>1, <2>2, QuietStep
<1>4. CASE PayloadExits
  <2>1. TypeOK' /\ LockFacts'
    BY <1>4 DEF PayloadExits
  <2>2. UNCHANGED <<left, chunk, wire, call>> /\ (pipe' = "open" => pipe = "open")
    BY <1>4 DEF PayloadExits
  <2>3. QED
    BY <2>1, <2>2, QuietStep
<1>5. CASE OpenWriter
  <2>1. TypeOK' /\ LockFacts'
    BY <1>5 DEF OpenWriter
  <2>2. UNCHANGED <<left, chunk, wire, call>> /\ (pipe' = "open" => pipe = "open")
    BY <1>5 DEF OpenWriter
  <2>3. QED
    BY <2>1, <2>2, QuietStep
<1>6. CASE OpenWriterGivesUp
  <2>1. TypeOK' /\ LockFacts'
    BY <1>6 DEF OpenWriterGivesUp
  <2>2. UNCHANGED <<left, chunk, wire, call>> /\ (pipe' = "open" => pipe = "open")
    BY <1>6 DEF OpenWriterGivesUp
  <2>3. QED
    BY <2>1, <2>2, QuietStep
<1>7. CASE RelayWriteFails
  <2>1. TypeOK' /\ LockFacts'
    BY <1>7 DEF RelayWriteFails
  <2>2. UNCHANGED <<left, chunk, wire, call>> /\ (pipe' = "open" => pipe = "open")
    BY <1>7 DEF RelayWriteFails
  <2>3. QED
    BY <2>1, <2>2, QuietStep
<1>8. CASE RelaySourceEnds
  <2>1. TypeOK' /\ LockFacts'
    BY <1>8 DEF RelaySourceEnds
  <2>2. UNCHANGED <<left, chunk, wire, call>> /\ (pipe' = "open" => pipe = "open")
    BY <1>8 DEF RelaySourceEnds
  <2>3. QED
    BY <2>1, <2>2, QuietStep
<1>9. QED
  BY <1>1, <1>2, <1>3, <1>4, <1>5, <1>6, <1>7, <1>8

\* The relay taking a piece off the pipe keeps it: the piece follows what was read.
LEMMA ReadHolds ==
    ASSUME IInv, NEW s \in Senders, RelayReads(s)
    PROVE  IInv'
<1>1. /\ chunk = Nothing /\ chunk' = <<s, left[s]>> /\ left[s] \in 1..Parts
      /\ left' = [left EXCEPT ![s] = left[s] + 1]
      /\ call[s] = "writing" /\ pipe = "open"
      /\ UNCHANGED <<ctx, call, after, result, lock, pipe, launchCtx, payload, relay, wire, taken>>
  BY SendAssumption DEF RelayReads, IInv, TypeOK
<1>2. chunk' \in Part /\ chunk' # Nothing /\ LastRead' = chunk'
  BY <1>1, PieceFacts DEF Part, LastRead
<1>3. TypeOK'
  BY <1>1, <1>2, SendAssumption DEF IInv, TypeOK
<1>4. LockFacts'
  BY <1>1, SendAssumption DEF IInv, TypeOK, LockFacts
<1>5. Frontier'
  <2>1. \A k \in Senders : call[k] = "writing" => k = s
    BY <1>1 DEF IInv, LockFacts
  <2>2. left'[s] = left[s] + 1 /\ LastRead'[1] = s /\ LastRead'[2] = left[s]
    BY <1>1, <1>2 DEF IInv, TypeOK
  <2>3. QED
    BY <1>1, <1>2, <2>1, <2>2, SendAssumption DEF Frontier
<1>6. WireFacts'
  BY <1>1, ReadsFollow DEF IInv, WireFacts, CutValueEndsInput, Follows
<1>7. ReadFacts'
  <2> SUFFICES ASSUME NEW k \in Senders, NEW p \in 1..Parts, p < left'[k]
               PROVE  chunk' = <<k, p>> \/ \E i \in 1..Len(wire) : wire[i] = <<k, p>>
    BY <1>1 DEF ReadFacts
  <2>1. <<k, p>> # chunk
    BY <1>1, PieceFacts DEF Part
  <2>2. CASE p < left[k]
    BY <2>1, <2>2 DEF IInv, ReadFacts
  <2>3. CASE ~(p < left[k])
    <3>1. k = s /\ p = left[s]
      BY <1>1, <2>3, SendAssumption DEF IInv, TypeOK
    <3>2. QED
      BY <1>1, <3>1
  <2>4. QED
    BY <2>2, <2>3
<1>8. QED
  BY <1>3, <1>4, <1>5, <1>6, <1>7 DEF IInv

\* So does its putting the piece on the wire.
LEMMA WriteHolds ==
    ASSUME IInv, RelayWrites
    PROVE  IInv'
<1>1. /\ chunk \in Part /\ chunk # Nothing /\ chunk' = Nothing /\ wire' = Append(wire, chunk)
      /\ UNCHANGED <<ctx, call, left, after, result, lock, pipe, launchCtx, payload, relay, taken>>
  BY DEF RelayWrites, callVars, IInv, TypeOK
<1>2. /\ wire \in Seq(Part) /\ wire' \in Seq(Part) /\ Len(wire) \in Nat
      /\ Len(wire') = Len(wire) + 1 /\ wire' # <<>>
      /\ \A i \in 1..Len(wire) : wire'[i] = wire[i]
      /\ wire'[Len(wire) + 1] = chunk
  BY <1>1, AppendFacts DEF IInv, TypeOK
<1>3. TypeOK'
  BY <1>1, <1>2 DEF IInv, TypeOK
<1>4. LockFacts'
  BY <1>1 DEF IInv, LockFacts
<1>5. Frontier'
  <2>1. LastRead' = LastRead
    BY <1>1, <1>2 DEF LastRead
  <2>2. QED
    BY <1>1, <2>1 DEF IInv, Frontier
<1>6. WireFacts'
  <2>1. Follows(chunk, wire) /\ CutValueEndsInput
    BY <1>1 DEF IInv, WireFacts
  <2>2. wire = <<>> <=> Len(wire) = 0
    BY <1>2, WireIsSeq
  <2>3. ASSUME NEW i \in 1..Len(wire')
        PROVE  /\ i = 1 => wire'[i][2] = 1
               /\ i < Len(wire') =>
                   IF wire'[i][2] < Parts THEN wire'[i + 1] = <<wire'[i][1], wire'[i][2] + 1>>
                                          ELSE wire'[i + 1][2] = 1
    <3>1. CASE i < Len(wire)
      BY <1>2, <2>1, <3>1 DEF CutValueEndsInput
    <3>2. CASE i = Len(wire)
      BY <1>2, <2>1, <2>2, <3>2 DEF CutValueEndsInput, Follows
    <3>3. CASE i = Len(wire) + 1
      BY <1>2, <2>1, <2>2, <3>3 DEF Follows
    <3>4. QED
      BY <1>2, <3>1, <3>2, <3>3
  <2>4. QED
    BY <1>1, <2>3 DEF WireFacts, CutValueEndsInput
<1>7. ReadFacts'
  <2> SUFFICES ASSUME NEW s \in Senders, NEW p \in 1..Parts, p < left[s]
               PROVE  \E i \in 1..Len(wire') : wire'[i] = <<s, p>>
    BY <1>1 DEF ReadFacts
  <2>1. CASE chunk = <<s, p>>
    BY <1>2, <2>1
  <2>2. CASE \E i \in 1..Len(wire) : wire[i] = <<s, p>>
    BY <1>2, <2>2
  <2>3. QED
    BY <2>1, <2>2 DEF IInv, ReadFacts
<1>8. QED
  BY <1>3, <1>4, <1>5, <1>6, <1>7 DEF IInv

\* Every action keeps the invariant.
LEMMA NextHolds == IInv /\ [Next]_vars => IInv'
<1> SUFFICES ASSUME IInv, [Next]_vars PROVE IInv'
  OBVIOUS
<1>1. CASE Next
  BY <1>1, SendStepHolds, OtherStepHolds, ReadHolds, WriteHolds DEF Next, RelayStep
<1>2. CASE UNCHANGED vars
  <2>1. TypeOK' /\ LockFacts'
    BY <1>2 DEF vars, callVars, relayVars, IInv, TypeOK, LockFacts
  <2>2. QED
    BY <1>2, <2>1, QuietStep DEF vars, callVars, relayVars
<1>3. QED
  BY <1>1, <1>2

\* IInv holds in every state of every exchange.
LEMMA Invariance == Spec => []IInv
<1>1. QED
  BY InitHolds, NextHolds, PTL DEF Spec

\* Every variable of the input side has its type.
THEOREM TypesHold == Spec => []TypeOK
<1>1. IInv => TypeOK
  BY DEF IInv
<1>2. QED
  BY <1>1, Invariance, PTL

\* Values never run into each other: a value is cut only by the end of the stream, for
\* every set of calls and every place they are canceled at.
THEOREM CutEndsInput == Spec => []CutValueEndsInput
<1>1. IInv => CutValueEndsInput
  BY DEF IInv, WireFacts
<1>2. QED
  BY <1>1, Invariance, PTL

\* A Send that returned nil handed over its whole value.
THEOREM SentAreRelayed == Spec => []SentIsRelayed
<1>1. IInv => SentIsRelayed
  <2> SUFFICES ASSUME IInv, NEW s \in Senders, result[s] = "nil", NEW p \in 1..Parts
               PROVE  chunk = <<s, p>> \/ \E i \in 1..Len(wire) : wire[i] = <<s, p>>
    BY DEF SentIsRelayed
  <2>1. p < left[s]
    BY SendAssumption DEF IInv, LockFacts
  <2>2. QED
    BY <2>1 DEF IInv, ReadFacts
<1>2. QED
  BY <1>1, Invariance, PTL

------------------------------------------------------------------------------
(* The refinement of ValueInput. *)

\* What an answer says of the value, and of the call.
AnswerFacts ==
    \A s \in Senders :
        /\ result[s] # "none" <=> call[s] = "returned"
        /\ result[s] \in {"canceled", "closed"} => left[s] <= Parts

\* A piece is read and written once: no piece on the wire is one the call, or the relay,
\* still has to pass on.
OnceFacts ==
    /\ \A i \in 1..Len(wire) : wire[i][2] < left[wire[i][1]]
    /\ chunk # Nothing =>
        /\ left[chunk[1]] = chunk[2] + 1
        /\ \A i \in 1..Len(wire) : wire[i][1] = chunk[1] => wire[i][2] < chunk[2]

\* Only the last value on the wire may not be whole.
BegunFacts ==
    \A i \in 1..Len(wire) : wire[i][1] \in wholeValues \cup {wire[Len(wire)][1]}

InputFacts == AnswerFacts /\ OnceFacts /\ BegunFacts

\* The relay taking a piece off the pipe keeps them.
LEMMA ReadKeepsInput ==
    ASSUME IInv, InputFacts, NEW s \in Senders, RelayReads(s)
    PROVE  InputFacts'
<1>1. /\ chunk' = <<s, left[s]>> /\ left[s] \in 1..Parts
      /\ left' = [left EXCEPT ![s] = left[s] + 1]
      /\ call[s] = "writing"
      /\ UNCHANGED <<call, result, wire>>
  BY SendAssumption DEF RelayReads, IInv, TypeOK
<1>2. \A i \in 1..Len(wire) : wire[i][1] \in Senders /\ wire[i][2] \in 1..Parts
  BY WireIsSeq, PieceFacts DEF IInv, TypeOK
<1>3. left \in [Senders -> 1..(Parts + 1)]
  BY DEF IInv, TypeOK
<1>4. AnswerFacts'
  BY <1>1, <1>3, SendAssumption DEF InputFacts, AnswerFacts
<1>5. OnceFacts'
  BY <1>1, <1>2, <1>3, SendAssumption DEF InputFacts, OnceFacts
<1>6. BegunFacts'
  BY <1>1 DEF InputFacts, BegunFacts, wholeValues
<1>7. QED
  BY <1>4, <1>5, <1>6 DEF InputFacts

\* With a piece in the relay's hand, a value that was begun and is not whole is the one
\* that piece is of.
LEMMA OneCut ==
    ASSUME IInv, InputFacts, chunk # Nothing
    PROVE  begunValues \ wholeValues \in SUBSET {chunk[1]}
<1> SUFFICES ASSUME NEW u \in begunValues, u \notin wholeValues
             PROVE  u = chunk[1]
  OBVIOUS
<1>1. PICK i \in 1..Len(wire) : wire[i][1] = u
  BY DEF begunValues
<1> DEFINE b == wire[Len(wire)]
<1>2. wire # <<>> /\ Len(wire) \in 1..Len(wire) /\ b \in Part
  BY <1>1, WireIsSeq DEF IInv, TypeOK
<1>3. b[1] = u
  BY <1>1 DEF InputFacts, BegunFacts
<1>4. b = <<b[1], b[2]>> /\ b[2] \in 1..Parts /\ b[1] \in Senders
  BY <1>2, PieceFacts
<1>5. b[2] # Parts
  BY <1>2, <1>3, <1>4 DEF wholeValues
<1>6. chunk = <<b[1], b[2] + 1>>
  BY <1>2, <1>4, <1>5, SendAssumption DEF IInv, WireFacts, Follows
<1>7. QED
  BY <1>3, <1>6

\* What a piece put on the wire does to the values there.
LEMMA WriteAdds ==
    ASSUME IInv, RelayWrites
    PROVE  /\ begunValues' = begunValues \cup {chunk[1]}
           /\ wholeValues' = wholeValues \cup (IF chunk[2] = Parts THEN {chunk[1]} ELSE {})
<1>1. wire \in Seq(Part) /\ chunk \in Part /\ wire' = Append(wire, chunk)
  BY DEF RelayWrites, IInv, TypeOK
<1>2. /\ Len(wire) \in Nat /\ Len(wire') = Len(wire) + 1
      /\ \A i \in 1..Len(wire) : wire'[i] = wire[i]
      /\ wire'[Len(wire) + 1] = chunk
  BY <1>1, AppendFacts
<1>3. chunk = <<chunk[1], chunk[2]>> /\ chunk[1] \in Senders
  BY <1>1, PieceFacts
<1>4. \A i \in 1..Len(wire') : i \in 1..Len(wire) \/ i = Len(wire) + 1
  BY <1>2
<1>5. \A i \in 1..Len(wire) : i \in 1..Len(wire')
  BY <1>2
<1>6. Len(wire) + 1 \in 1..Len(wire')
  BY <1>2
<1>7. begunValues' = begunValues \cup {chunk[1]}
  BY <1>2, <1>3, <1>4, <1>5, <1>6 DEF begunValues
<1>8. ASSUME NEW k \in Senders
      PROVE  k \in wholeValues' <=> k \in wholeValues \/ chunk = <<k, Parts>>
  BY <1>2, <1>4, <1>5, <1>6 DEF wholeValues
<1>9. \A k \in Senders : chunk = <<k, Parts>> <=> k = chunk[1] /\ chunk[2] = Parts
  BY <1>3
<1>10. wholeValues \subseteq Senders /\ wholeValues' \subseteq Senders
  BY DEF wholeValues
<1>11. wholeValues' = wholeValues \cup (IF chunk[2] = Parts THEN {chunk[1]} ELSE {})
  BY <1>3, <1>8, <1>9, <1>10
<1>12. QED
  BY <1>7, <1>11

\* Putting a piece on the wire keeps the facts.
LEMMA WriteKeepsInput ==
    ASSUME IInv, InputFacts, RelayWrites
    PROVE  InputFacts'
<1>1. /\ chunk \in Part /\ chunk # Nothing /\ chunk' = Nothing /\ wire' = Append(wire, chunk)
      /\ UNCHANGED <<call, left, result>>
  BY DEF RelayWrites, callVars, IInv, TypeOK
<1>2. /\ wire \in Seq(Part) /\ Len(wire) \in Nat
      /\ Len(wire') = Len(wire) + 1
      /\ \A i \in 1..Len(wire) : wire'[i] = wire[i]
      /\ wire'[Len(wire) + 1] = chunk
  BY <1>1, AppendFacts DEF IInv, TypeOK
<1>3. AnswerFacts'
  BY <1>1 DEF InputFacts, AnswerFacts
<1>4. OnceFacts'
  <2>1. chunk[2] < left[chunk[1]]
    BY <1>1, PieceFacts DEF InputFacts, OnceFacts
  <2>2. QED
    BY <1>1, <1>2, <2>1 DEF InputFacts, OnceFacts
<1>5. BegunFacts'
  <2> SUFFICES ASSUME NEW i \in 1..Len(wire')
               PROVE  wire'[i][1] \in wholeValues' \cup {chunk[1]}
    BY <1>2 DEF BegunFacts
  <2>1. wholeValues \subseteq wholeValues'
    BY WriteAdds
  <2>2. CASE i \in 1..Len(wire)
    <3>1. wire[i] \in Part /\ wire[i][1] \in Senders
      BY <1>2, <2>2, WireIsSeq, PieceFacts
    <3>2. wire[i][1] \in begunValues
      BY <2>2, <3>1 DEF begunValues
    <3>3. wire[i][1] \in wholeValues \/ wire[i][1] = chunk[1]
      BY <1>1, <3>2, OneCut
    <3>4. QED
      BY <1>2, <2>1, <2>2, <3>3
  <2>3. CASE i = Len(wire) + 1
    BY <1>2, <2>3
  <2>4. QED
    BY <1>2, <2>2, <2>3
<1>6. QED
  BY <1>3, <1>4, <1>5 DEF InputFacts

\* And so does every step.
LEMMA StepKeepsInput == IInv /\ InputFacts /\ [Next]_vars => InputFacts'
<1> SUFFICES ASSUME IInv, InputFacts, [Next]_vars PROVE InputFacts'
  OBVIOUS
<1> DEFINE Moves == RelayWrites \/ \E s \in Senders : RelayReads(s)
<1>1. CASE Moves
  BY <1>1, ReadKeepsInput, WriteKeepsInput
<1>2. CASE ~Moves
  <2>1. UNCHANGED <<left, chunk, wire>>
    BY <1>2 DEF Next, SendStep, RelayStep, CallSend, LockSend, CancelSend, AfterSend, SendEnds,
       SendFails, CancelLaunch, PayloadOpens, PayloadReads, PayloadExits, OpenWriter,
       OpenWriterGivesUp, RelayWriteFails, RelaySourceEnds, SendReturns, callVars, relayVars, vars
  <2>2. OnceFacts' /\ BegunFacts'
    BY <2>1 DEF InputFacts, OnceFacts, BegunFacts, wholeValues
  <2>3. CASE UNCHANGED <<call, result>>
    BY <2>1, <2>2, <2>3 DEF InputFacts, AnswerFacts
  <2>4. CASE \E s \in Senders : CallSend(s) \/ LockSend(s)
    <3>1. PICK s \in Senders : CallSend(s) \/ LockSend(s)
      BY <2>4
    <3>2. /\ call[s] # "returned" /\ result' = result
          /\ \E c \in {"queued", "writing"} : call' = [call EXCEPT ![s] = c]
      BY <3>1 DEF CallSend, LockSend
    <3>3. AnswerFacts'
      BY <2>1, <3>2 DEF InputFacts, AnswerFacts, IInv, TypeOK
    <3>4. QED
      BY <2>2, <3>3 DEF InputFacts
  <2>5. CASE \E s \in Senders : SendEnds(s) \/ SendFails(s)
    <3>1. PICK s \in Senders : SendEnds(s) \/ SendFails(s)
      BY <2>5
    <3>2. /\ call' = [call EXCEPT ![s] = "returned"]
          /\ \E r \in {"nil", "canceled", "closed"} :
              /\ result' = [result EXCEPT ![s] = r]
              /\ r # "nil" => left[s] <= Parts
      BY <3>1 DEF SendEnds, SendFails, SendReturns
    <3>3. AnswerFacts'
      BY <2>1, <3>2 DEF InputFacts, AnswerFacts, IInv, TypeOK
    <3>4. QED
      BY <2>2, <3>3 DEF InputFacts
  <2>6. QED
    BY <1>2, <2>3, <2>4, <2>5 DEF Next, SendStep, RelayStep, CancelSend, AfterSend, CancelLaunch,
       PayloadOpens, PayloadReads, PayloadExits, OpenWriter, OpenWriterGivesUp, RelayWriteFails,
       RelaySourceEnds, callVars, relayVars, vars
<1>3. QED
  BY <1>1, <1>2

\* A fresh exchange promises what ValueInput does at its start.
LEMMA InputStarts == Init => InputFacts /\ Input!InputInit
<1> SUFFICES ASSUME Init PROVE InputFacts /\ Input!InputInit
  OBVIOUS
<1>1. Len(wire) = 0 /\ 1..Len(wire) = {}
  BY EmptySeq DEF Init
<1>2. InputFacts
  BY <1>1 DEF Init, InputFacts, AnswerFacts, OnceFacts, BegunFacts
<1>3. acceptedValues = {} /\ begunValues = {} /\ wholeValues = {}
  BY <1>1, SendAssumption DEF Init, acceptedValues, begunValues, wholeValues
<1>4. QED
  BY <1>2, <1>3 DEF Init, Input!InputInit

\* The relay reading a value's last part takes the value; another part is its own affair.
LEMMA ReadAccepts ==
    ASSUME IInv, InputFacts, NEW s \in Senders, RelayReads(s)
    PROVE  Input!Accept(s) \/ UNCHANGED Input!inputVars
<1>1. /\ relay = "copying" /\ chunk = Nothing /\ call[s] = "writing" /\ left[s] \in 1..Parts
      /\ left' = [left EXCEPT ![s] = left[s] + 1]
      /\ UNCHANGED <<result, relay, wire>>
  BY SendAssumption DEF RelayReads, IInv, TypeOK
<1>2. begunValues' = begunValues /\ wholeValues' = wholeValues
  BY <1>1 DEF begunValues, wholeValues
<1>3. left \in [Senders -> 1..(Parts + 1)]
  BY DEF IInv, TypeOK
<1>4. CASE left[s] = Parts
  <2>1. acceptedValues' = acceptedValues \cup {s} /\ s \notin acceptedValues
    BY <1>1, <1>3, <1>4, SendAssumption DEF acceptedValues
  <2>2. acceptedValues = wholeValues
    <3>1. ASSUME NEW k \in acceptedValues PROVE k \in wholeValues
      <4>1. k \in Senders /\ Parts < left[k]
        BY <1>3, SendAssumption DEF acceptedValues
      <4>2. Parts \in 1..Parts /\ <<k, Parts>> # Nothing
        BY SendAssumption DEF Nothing
      <4>3. \E i \in 1..Len(wire) : wire[i] = <<k, Parts>>
        BY <1>1, <4>1, <4>2 DEF IInv, ReadFacts
      <4>4. QED
        BY <4>1, <4>3 DEF wholeValues
    <3>2. ASSUME NEW k \in wholeValues PROVE k \in acceptedValues
      <4>1. k \in Senders /\ \E i \in 1..Len(wire) : wire[i] = <<k, Parts>>
        BY DEF wholeValues
      <4>2. QED
        BY <4>1 DEF InputFacts, OnceFacts, acceptedValues
    <3>3. QED
      BY <3>1, <3>2
  <2>3. result[s] = "none"
    BY <1>1 DEF InputFacts, AnswerFacts
  <2>4. QED
    BY <1>1, <1>2, <2>1, <2>2, <2>3 DEF Input!Accept
<1>5. CASE left[s] # Parts
  <2>1. acceptedValues' = acceptedValues
    BY <1>1, <1>3, <1>5, SendAssumption DEF acceptedValues
  <2>2. QED
    BY <1>1, <1>2, <2>1 DEF Input!inputVars
<1>6. QED
  BY <1>4, <1>5

\* A part on the wire begins a value, or delivers one, or is one of those between.
LEMMA WriteDelivers ==
    ASSUME IInv, InputFacts, RelayWrites
    PROVE  \/ Input!Begin(chunk[1]) \/ Input!Deliver(chunk[1])
           \/ UNCHANGED Input!inputVars
<1> DEFINE s == chunk[1]
<1>1. /\ chunk \in Part /\ chunk # Nothing /\ relay = "copying"
      /\ UNCHANGED <<left, result, relay>>
  BY DEF RelayWrites, callVars, IInv, TypeOK
<1>2. s \in Senders /\ chunk[2] \in 1..Parts /\ left[s] = chunk[2] + 1
  BY <1>1, PieceFacts DEF InputFacts, OnceFacts
<1>3. acceptedValues' = acceptedValues
  BY <1>1 DEF acceptedValues
<1>4. begunValues \ wholeValues \in SUBSET {s}
  BY <1>1, OneCut
<1>5. wholeValues \subseteq begunValues
  BY DEF wholeValues, begunValues
<1>6. CASE chunk[2] = Parts
  <2>1. s \in acceptedValues
    BY <1>2, <1>6, SendAssumption DEF acceptedValues
  <2>2. s \notin wholeValues
    <3> SUFFICES ASSUME NEW i \in 1..Len(wire), wire[i] = <<s, Parts>> PROVE FALSE
      BY DEF wholeValues
    <3>1. Parts < chunk[2]
      BY <1>1 DEF InputFacts, OnceFacts
    <3>2. QED
      BY <1>6, <3>1, SendAssumption
  <2>3. begunValues' = begunValues \cup {s} /\ wholeValues' = wholeValues \cup {s}
    BY <1>6, WriteAdds
  <2>4. Input!Deliver(s)
    BY <1>1, <1>3, <1>4, <2>1, <2>2, <2>3 DEF Input!Deliver
  <2>5. QED
    BY <2>4
<1>7. CASE chunk[2] # Parts
  <2>1. begunValues' = begunValues \cup {s} /\ wholeValues' = wholeValues
    BY <1>7, WriteAdds
  <2>2. CASE s \in begunValues
    BY <1>1, <1>3, <2>1, <2>2 DEF Input!inputVars
  <2>3. CASE s \notin begunValues
    <3>1. begunValues = wholeValues
      BY <1>4, <1>5, <2>3
    <3>2. Input!Begin(s)
      BY <1>1, <1>3, <2>1, <2>3, <3>1 DEF Input!Begin
    <3>3. QED
      BY <3>2
  <2>4. QED
    BY <2>2, <2>3
<1>8. QED
  BY <1>6, <1>7

\* A call returns nil for a value the relay has whole, and an error for any other.
LEMMA ReturnAnswers ==
    ASSUME IInv, InputFacts, NEW s \in Senders, SendEnds(s) \/ SendFails(s)
    PROVE  \E r \in {"nil", "canceled", "closed"} : Input!Answer(s, r)
<1>1. /\ call[s] = "writing"
      /\ UNCHANGED <<left, wire, relay>>
  BY DEF SendEnds, SendFails, relayVars
<1>2. PICK r \in {"nil", "canceled", "closed"} :
        /\ result' = [result EXCEPT ![s] = r]
        /\ r = "nil" <=> left[s] > Parts
  BY SendAssumption DEF SendEnds, SendFails, SendReturns, IInv, TypeOK
<1>3. /\ acceptedValues' = acceptedValues
      /\ begunValues' = begunValues /\ wholeValues' = wholeValues
  BY <1>1 DEF acceptedValues, begunValues, wholeValues
<1>4. s \in acceptedValues <=> left[s] > Parts
  BY DEF acceptedValues
<1>5. result[s] = "none"
  BY <1>1 DEF InputFacts, AnswerFacts
<1>6. Input!Answer(s, r)
  BY <1>1, <1>2, <1>3, <1>4, <1>5 DEF Input!Answer
<1>7. QED
  BY <1>2, <1>6

\* Every step is one of ValueInput's, or none.
LEMMA InputStep ==
    ASSUME IInv, InputFacts, [Next]_vars
    PROVE  Input!InputNext \/ UNCHANGED Input!inputVars
<1> DEFINE RelayEnds == OpenWriterGivesUp \/ RelayWriteFails \/ RelaySourceEnds
           SendReturned == \E s \in Senders : SendEnds(s) \/ SendFails(s)
<1>1. CASE \E s \in Senders : RelayReads(s)
  BY <1>1, ReadAccepts DEF Input!InputNext
<1>2. CASE RelayWrites
  <2>1. chunk[1] \in Senders
    BY <1>2, PieceFacts DEF RelayWrites, IInv, TypeOK
  <2>2. QED
    BY <1>2, <2>1, WriteDelivers DEF Input!InputNext
<1>3. CASE SendReturned
  BY <1>3, ReturnAnswers DEF Input!InputNext
<1>4. CASE RelayEnds
  <2>1. /\ relay \in {"opening", "copying"} /\ relay' = "done"
        /\ UNCHANGED <<left, result, wire>>
    BY <1>4 DEF OpenWriterGivesUp, RelayWriteFails, RelaySourceEnds, RelayReturns, callVars
  <2>2. Input!EndInput
    BY <2>1 DEF Input!EndInput, acceptedValues, begunValues, wholeValues
  <2>3. QED
    BY <2>2 DEF Input!InputNext
<1>5. CASE OpenWriter
  <2>1. /\ relay = "opening" /\ relay' = "copying"
        /\ UNCHANGED <<left, result, wire>>
    BY <1>5 DEF OpenWriter, callVars
  <2>2. QED
    BY <2>1 DEF Input!inputVars, acceptedValues, begunValues, wholeValues
<1>6. CASE UNCHANGED <<left, result, relay, wire>>
  BY <1>6 DEF Input!inputVars, acceptedValues, begunValues, wholeValues
<1>7. QED
  BY <1>1, <1>2, <1>3, <1>4, <1>5, <1>6 DEF Next, SendStep, RelayStep, CallSend, LockSend,
     CancelSend, AfterSend, CancelLaunch, PayloadOpens, PayloadReads, PayloadExits, callVars,
     relayVars, vars

\* Concurrent sends, a pipe and a relay that may stop anywhere amount to values that are
\* taken and delivered one at a time, with answers that tell the truth: JsonSend
\* implements ValueInput, for every set of calls, every size of a value and of the FIFO.
THEOREM InputKept == Spec => KeepsInput
<1>1. Init => InputFacts /\ Input!InputInit
  BY InputStarts
<1>2. IInv /\ InputFacts /\ [Next]_vars => InputFacts' /\ [Input!InputNext]_(Input!inputVars)
  BY StepKeepsInput, InputStep
<1>3. QED
  BY <1>1, <1>2, Invariance, PTL DEF Spec, KeepsInput, Input!InputSpec

------------------------------------------------------------------------------
(* Why a canceled send comes back: what CanceledSendReturns rests on.  Until the call     *)
(* returns, one of the steps that are fair can be taken, and stays possible until it is   *)
(* taken or another of them has been (SendCanMove); each of them but the return itself    *)
(* brings SendRank down, and no step ever raises it (SendGetsCloser).                     *)

Pending(s) == call[s] = "writing" /\ (ctx[s] = "canceled" \/ launchCtx = "canceled")

\* The guards of AfterSend, SendEnds and SendFails, OpenWriterGivesUp, and of RelayReads and
\* RelayWriteFails.
CanMove(s) ==
    \/ ctx[s] = "canceled" /\ after[s] = "armed"
    \/ left[s] > Parts \/ pipe # "open"
    \/ launchCtx = "canceled" /\ relay = "opening"
    \/ launchCtx = "canceled" /\ relay = "copying"

SendCanMove == \A s \in Senders : Pending(s) => CanMove(s)

\* The relay's way to its end, the parts it has still to read of the value, the one it
\* holds, and the call's AfterFunc.
SendRank(s) ==
    (CASE relay = "opening" -> 2 [] relay = "copying" -> 1 [] OTHER -> 0)
    + 2 * (Parts + 1 - left[s])
    + (IF chunk # Nothing THEN 1 ELSE 0)
    + (IF after[s] = "armed" THEN 1 ELSE 0)

SendGetsCloser ==
    [][\A s \in Senders : Pending(s) =>
        /\ call'[s] = "returned" \/ Pending(s)'
        /\ SendRank(s)' <= SendRank(s)
        /\ RelayStep \/ OpenWriterGivesUp \/ AfterSend(s) => SendRank(s)' < SendRank(s)]_vars

\* The AfterFunc of a call that writes is armed, or has closed the pipe; a relay that is
\* done has closed it as well.
PipeFacts ==
    /\ \A s \in Senders : call[s] = "writing" => after[s] \in {"armed", "run"}
    /\ \A s \in Senders : after[s] = "run" => pipe # "open"
    /\ relay = "done" => pipe # "open"

\* Every step keeps them.
LEMMA StepKeepsPipe == IInv /\ PipeFacts /\ [Next]_vars => PipeFacts'
<1> SUFFICES ASSUME IInv, PipeFacts, [Next]_vars PROVE PipeFacts'
  OBVIOUS
<1> USE DEF PipeFacts, ClosePipe, callVars, relayVars
<1>1. ASSUME NEW s \in Senders, CallSend(s) \/ LockSend(s) \/ CancelSend(s) \/ AfterSend(s)
      PROVE  PipeFacts'
  BY <1>1 DEF CallSend, LockSend, CancelSend, AfterSend, IInv, TypeOK
<1>2. ASSUME NEW s \in Senders, SendEnds(s) \/ SendFails(s)
      PROVE  PipeFacts'
  <2>1. /\ UNCHANGED <<pipe, relay>>
        /\ call' = [call EXCEPT ![s] = "returned"]
        /\ after' = after \/ after' = [after EXCEPT ![s] = "stopped"]
    BY <1>2 DEF SendEnds, SendFails, SendReturns
  <2>2. QED
    BY <2>1 DEF IInv, TypeOK
<1>3. CASE CancelLaunch \/ PayloadOpens \/ PayloadReads \/ PayloadExits \/ OpenWriter
  BY <1>3 DEF CancelLaunch, PayloadOpens, PayloadReads, PayloadExits, OpenWriter
<1>4. CASE OpenWriterGivesUp \/ RelayWriteFails \/ RelaySourceEnds
  BY <1>4 DEF OpenWriterGivesUp, RelayWriteFails, RelaySourceEnds, RelayReturns
<1>5. CASE RelayWrites \/ \E s \in Senders : RelayReads(s)
  BY <1>5 DEF RelayWrites, RelayReads
<1>6. CASE UNCHANGED vars
  BY <1>6 DEF vars
<1>7. QED
  BY <1>1, <1>2, <1>3, <1>4, <1>5, <1>6 DEF Next, SendStep, RelayStep

\* A canceled send always has a step to wait for that is fair, for every number of other
\* calls, whatever the payload does.
THEOREM SendNeverStuck == Spec => []SendCanMove
<1>1. Init => PipeFacts
  BY DEF Init, PipeFacts
<1>2. IInv /\ PipeFacts => SendCanMove
  BY DEF IInv, TypeOK, PipeFacts, SendCanMove, Pending, CanMove
<1>3. QED
  BY <1>1, <1>2, Invariance, StepKeepsPipe, PTL DEF Spec

\* The rank is a number, and what it is made of.
LEMMA RankIsNat ==
    ASSUME TypeOK, NEW s \in Senders
    PROVE  SendRank(s) \in Nat
<1>1. left[s] \in 1..(Parts + 1) /\ Parts \in Nat
  BY SendAssumption DEF TypeOK
<1>2. Parts + 1 - left[s] \in Nat
  BY <1>1
<1>3. QED
  BY <1>2 DEF SendRank

\* It is brought down by every fair step that is not the return.
THEOREM SendDescends == Spec => SendGetsCloser
<1> DEFINE Stays(s) == call'[s] = "returned" \/ Pending(s)'
           Fair(s) == RelayStep \/ OpenWriterGivesUp \/ AfterSend(s)
<1> USE SendAssumption DEF Pending, callVars, relayVars
<1>1. ASSUME IInv, NEW s \in Senders, Pending(s)
      PROVE  /\ left \in [Senders -> 1..(Parts + 1)]
             /\ after \in [Senders -> {"none", "armed", "stopped", "run"}]
             /\ call \in [Senders -> {"idle", "queued", "writing", "returned"}]
             /\ ctx \in [Senders -> {"live", "canceled"}]
             /\ call[s] = "writing" /\ lock = s
             /\ \A k \in Senders : call[k] = "writing" => k = s
             /\ Parts + 1 - left[s] \in Nat
  BY <1>1 DEF IInv, TypeOK, LockFacts
<1>2. ASSUME IInv, Next, NEW s \in Senders, Pending(s), Fair(s)
      PROVE  Stays(s) /\ SendRank(s)' < SendRank(s)
  <2>1. CASE OpenWriter
    BY <1>1, <1>2, <2>1 DEF OpenWriter, SendRank
  <2>2. CASE OpenWriterGivesUp \/ RelayWriteFails \/ RelaySourceEnds
    BY <1>1, <1>2, <2>2 DEF OpenWriterGivesUp, RelayWriteFails, RelaySourceEnds, RelayReturns,
       SendRank
  <2>3. CASE RelayWrites
    BY <1>1, <1>2, <2>3 DEF RelayWrites, SendRank
  <2>4. CASE \E k \in Senders : RelayReads(k)
    <3>1. RelayReads(s)
      BY <1>1, <1>2, <2>4 DEF RelayReads
    <3>2. /\ left' = [left EXCEPT ![s] = left[s] + 1] /\ chunk = Nothing
          /\ UNCHANGED <<ctx, call, after, launchCtx, relay>>
      BY <3>1 DEF RelayReads
    <3>3. left'[s] = left[s] + 1
      BY <1>1, <1>2, <3>2
    <3>4. QED
      BY <1>1, <1>2, <3>2, <3>3 DEF SendRank
  <2>5. CASE AfterSend(s)
    <3>1. /\ after[s] = "armed" /\ after' = [after EXCEPT ![s] = "run"]
          /\ UNCHANGED <<ctx, call, left, launchCtx, relay, chunk>>
      BY <2>5 DEF AfterSend
    <3>2. QED
      BY <1>1, <1>2, <3>1 DEF SendRank
  <2>6. QED
    BY <1>2, <2>1, <2>2, <2>3, <2>4, <2>5 DEF RelayStep
<1>3. ASSUME IInv, Next, NEW s \in Senders, Pending(s), ~Fair(s)
      PROVE  Stays(s) /\ SendRank(s)' <= SendRank(s)
  <2>1. UNCHANGED <<left, relay, chunk>>
    BY <1>3 DEF Next, SendStep, CallSend, LockSend, CancelSend, AfterSend, SendEnds, SendFails,
       SendReturns, CancelLaunch, PayloadOpens, PayloadReads, PayloadExits
  <2>2. (launchCtx = "canceled" => launchCtx' = "canceled")
    BY <1>3 DEF Next, SendStep, CallSend, LockSend, CancelSend, AfterSend, SendEnds, SendFails,
       CancelLaunch, PayloadOpens, PayloadReads, PayloadExits
  <2>3. ctx[s] = "canceled" => ctx'[s] = "canceled"
    BY <1>1, <1>3 DEF Next, SendStep, CallSend, LockSend, CancelSend, AfterSend, SendEnds,
       SendFails, CancelLaunch, PayloadOpens, PayloadReads, PayloadExits
  <2>4. call'[s] \in {"writing", "returned"} /\ (after'[s] = "armed" => after[s] = "armed")
    <3>1. CASE \E k \in Senders : CallSend(k) \/ LockSend(k) \/ CancelSend(k)
      BY <1>1, <1>3, <3>1 DEF CallSend, LockSend, CancelSend
    <3>2. CASE \E k \in Senders : AfterSend(k)
      BY <1>1, <1>3, <3>2 DEF AfterSend
    <3>3. CASE \E k \in Senders : SendEnds(k) \/ SendFails(k)
      <4>1. SendEnds(s) \/ SendFails(s)
        BY <1>1, <1>3, <3>3 DEF SendEnds, SendFails
      <4>2. /\ call' = [call EXCEPT ![s] = "returned"]
            /\ after' = after \/ after' = [after EXCEPT ![s] = "stopped"]
        BY <4>1 DEF SendEnds, SendFails, SendReturns
      <4>3. QED
        BY <1>1, <1>3, <4>2
    <3>4. CASE CancelLaunch \/ PayloadOpens \/ PayloadReads \/ PayloadExits
      BY <1>1, <1>3, <3>4 DEF CancelLaunch, PayloadOpens, PayloadReads, PayloadExits
    <3>5. QED
      BY <1>3, <3>1, <3>2, <3>3, <3>4 DEF Next, SendStep
  <2>5. QED
    BY <1>1, <1>3, <2>1, <2>2, <2>3, <2>4 DEF SendRank
<1>4. ASSUME IInv, UNCHANGED vars, NEW s \in Senders, Pending(s)
      PROVE  Stays(s) /\ SendRank(s)' = SendRank(s)
  BY <1>4 DEF vars, SendRank
<1>5. IInv /\ [Next]_vars =>
        [\A s \in Senders : Pending(s) =>
            /\ call'[s] = "returned" \/ Pending(s)'
            /\ SendRank(s)' <= SendRank(s)
            /\ RelayStep \/ OpenWriterGivesUp \/ AfterSend(s) => SendRank(s)' < SendRank(s)]_vars
  <2> SUFFICES ASSUME IInv, Next, NEW s \in Senders, Pending(s)
               PROVE  /\ Stays(s)
                      /\ SendRank(s)' <= SendRank(s)
                      /\ Fair(s) => SendRank(s)' < SendRank(s)
    BY Zenon
  <2>1. CASE Fair(s)
    <3>1. Stays(s) /\ SendRank(s)' < SendRank(s)
      BY <1>2, <2>1
    <3>2. SendRank(s) \in Nat
      BY RankIsNat DEF IInv
    <3>3. TypeOK'
      BY NextHolds DEF IInv
    <3>4. Parts + 1 - left'[s] \in Nat
      BY <3>3 DEF TypeOK
    <3>5. SendRank(s)' \in Nat
      BY <3>4 DEF SendRank
    <3>6. QED
      BY <3>1, <3>2, <3>5
  <2>2. CASE ~Fair(s)
    BY <1>3, <2>2
  <2>3. QED
    BY <2>1, <2>2
<1>6. QED
  BY <1>5, Invariance, PTL DEF Spec, SendGetsCloser
=============================================================================
