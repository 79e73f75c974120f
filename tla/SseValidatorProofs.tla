------------------------- MODULE SseValidatorProofs -------------------------
(***************************************************************************)
(* The validator's safety properties, and that it implements               *)
(* TerminalStream, for every set of lines, chunks and bounds.              *)
(***************************************************************************)
EXTENDS SseValidator, TLAPS, WellFoundedInduction, SequenceTheorems

Verdicts == [verdict : {"keep", "drop", "reject"}, event : Events]

(* A non-empty set of naturals has a least element, and Min names it.      *)
LEMMA MinOfNat ==
  ASSUME NEW S \in SUBSET Nat, S # {}
  PROVE  Min(S) \in S /\ \A y \in S : Min(S) <= y
<1> DEFINE R == {ss \in Nat \X Nat : ss[1] < ss[2]}
<1>1. PICK x \in S : \A y \in S : ~(<<y, x>> \in R)
  <2>1. IsWellFoundedOn(R, Nat)
    BY NatLessThanWellFounded DEF OpToRel
  <2> HIDE DEF R
  <2> QED BY <2>1, WFMin
<1>2. \A y \in S : x <= y
  <2> SUFFICES ASSUME NEW y \in S, y < x PROVE FALSE
    OBVIOUS
  <2>1. <<y, x>> \in Nat \X Nat /\ <<y, x>>[1] = y /\ <<y, x>>[2] = x
    OBVIOUS
  <2>2. <<y, x>> \in R
    BY <2>1
  <2> QED BY <2>2, <1>1
<1> QED BY <1>2 DEF Min

(* The gateway's scanner never claims more than the buffer holds.          *)
LEMMA FrameLenType ==
  ASSUME NEW S, NEW b \in Seq(S), NEW tail \in {0, 1}
  PROVE  FrameLen(b, tail) \in 0..Len(b)
<1> DEFINE B == BlankLines(b, tail)
<1>1. CASE B = {}
  BY <1>1 DEF FrameLen
<1>2. CASE B # {}
  <2>1. B \in SUBSET Nat
    BY DEF BlankLines
  <2>2. Min(B) \in B
    BY <1>2, <2>1, MinOfNat
  <2>3. Min(B) \in 1..Len(b) /\ BreakLen(b, Min(B), tail) > 0
    BY <2>2 DEF BlankLines
  <2>4. /\ BreakLen(b, Min(B), tail) \in {1, 2}
        /\ Min(B) + BreakLen(b, Min(B), tail) - 1 <= Len(b)
    BY <2>3 DEF BreakLen
  <2>5. FrameLen(b, tail) = Min(B) + BreakLen(b, Min(B), tail) - 1
    BY <1>2 DEF FrameLen
  <2> QED BY <2>3, <2>4, <2>5
<1> QED BY <1>1, <1>2

(* What inspect_frame returns: an event of the wire, or none; a kept event *)
(* is of a known kind and well shaped, and its sequence number is a u64.   *)
LEMMA InspectType ==
  ASSUME NEW frame \in Seq(Tokens)
  PROVE  /\ InspectFrame(frame) \in Verdicts
         /\ InspectFrame(frame).verdict # "reject" =>
              InspectFrame(frame).event.seq \in 0..MaxSeq \cup {NoSeq}
         /\ InspectFrame(frame).verdict = "keep" =>
              InspectFrame(frame).event.kind \in KnownKinds
<1> DEFINE data == FieldLines(frame, "data")
           e == Parse[frame[CHOOSE i \in data : TRUE]].event
<1>1. NullEvent \in Events
  BY ConstantsAssumption DEF NullEvent, Events, Kinds, KnownKinds, IdFields, NoSeq, BadSeq
<1>2. CASE InspectFrame(frame) = Reject
  BY <1>1, <1>2 DEF Reject, Verdicts
<1>3. CASE InspectFrame(frame) = Drop(NullEvent)
  BY <1>1, <1>3 DEF Drop, Verdicts, NullEvent
<1>4. CASE data # {} /\ ValidEvent(e) /\ InspectFrame(frame) \in {Keep(e), Drop(e)}
              /\ (InspectFrame(frame) = Keep(e) => e.kind \notin MetadataKinds)
  <2>1. e \in Events
    <3>1. PICK i \in DOMAIN frame : i = (CHOOSE j \in data : TRUE) /\ frame[i] \in Lines
      BY <1>4 DEF FieldLines, LinesOf
    <3>2. Parse[frame[i]] \in LineContents
      BY <3>1, ConstantsAssumption
    <3> QED BY <3>1, <3>2 DEF LineContents
  <2>2. e.seq \in 0..MaxSeq \cup {NoSeq} /\ e.kind \in KnownKinds \cup MetadataKinds
    BY <1>4, <2>1 DEF ValidEvent, Events
  <2> QED BY <1>4, <2>1, <2>2 DEF Keep, Drop, Verdicts
<1>5. \/ InspectFrame(frame) = Reject
      \/ InspectFrame(frame) = Drop(NullEvent)
      \/ data # {} /\ ValidEvent(e) /\ InspectFrame(frame) \in {Keep(e), Drop(e)}
           /\ (InspectFrame(frame) = Keep(e) => e.kind \notin MetadataKinds)
  BY DEF InspectFrame, Keep, Drop
<1> QED BY <1>2, <1>3, <1>4, <1>5

(* The frames the validator makes are frames.                              *)
LEMMA FailureFrameType ==
  ASSUME TypeOK, NEW id \in IdFields, NEW m \in IdFields, NEW seq \in 0..MaxSeq,
         NEW origin \in {"provider"} \cup Reasons
  PROVE  /\ FailureFrame(id, m, seq, origin) \in Frames
         /\ IsTerminal(FailureFrame(id, m, seq, origin))
         /\ FailureFrame(id, m, seq, origin).origin # "upstream"
BY DEF FailureFrame, Frames, IsTerminal, TerminalKinds, Kinds, KnownKinds, Reasons, Safe, IdFields

(* A frame forwarded as it came (inspect_frame's keep) is a frame.         *)
LEMMA RawFrameType ==
  ASSUME NEW e \in Events, e.seq \in 0..MaxSeq \cup {NoSeq}
  PROVE  RawFrame(e) \in Frames /\ RawFrame(e).kind = e.kind
BY DEF RawFrame, Frames, Events

(* What observing an event does to the identity and the sequence number.   *)
LEMMA ObservedType ==
  ASSUME TypeOK, NEW e \in Events, e.seq \in 0..MaxSeq \cup {NoSeq}
  PROVE  /\ ObservedSeq(e) \in 0..MaxSeq
         /\ ObservedSeq(e) >= lastSequence /\ ObservedSeq(e) >= e.seq
         /\ Observed(responseId, e.respId, e.topId) \in Ids \cup {Absent}
         /\ Observed(model, e.respModel, e.headerModel) \in Ids \cup {Absent}
<1> USE ConstantsAssumption
<1>1. ObservedSeq(e) \in 0..MaxSeq /\ ObservedSeq(e) >= lastSequence /\ ObservedSeq(e) >= e.seq
  BY DEF TypeOK, ObservedSeq, NoSeq
<1>2. /\ Observed(responseId, e.respId, e.topId) \in Ids \cup {Absent}
      /\ Observed(model, e.respModel, e.headerModel) \in Ids \cup {Absent}
  BY DEF TypeOK, Observed, Safe
<1> QED BY <1>1, <1>2

(* A protocol failure, from any point of the poll function.                *)
LEMMA FailPreserves ==
  ASSUME IInv, ~finished, NEW r \in Reasons, Fail(r), UNCHANGED <<sent, wire>>,
         pc' \in {"top", "drain", "received"}
  PROVE  IInv'
<1> USE ConstantsAssumption
<1>1. SaturatingAdd(lastSequence) \in 0..MaxSeq /\ SaturatingAdd(lastSequence) >= lastSequence
  BY DEF IInv, TypeOK, SaturatingAdd
<1>2. PICK f \in Frames :
        /\ f = FailureFrame(responseId, model, SaturatingAdd(lastSequence), r)
        /\ IsTerminal(f) /\ f.origin # "upstream"
  BY <1>1, FailureFrameType DEF IInv, TypeOK, IdFields
<1>3. /\ f.kind = "failed" /\ f.origin \in Reasons
      /\ f.seq = SaturatingAdd(lastSequence)
      /\ f.id = LaterOf(DefaultId, responseId) /\ f.model = LaterOf(DefaultModel, model)
  BY <1>2 DEF FailureFrame, LaterOf, Safe, IInv, TypeOK
<1>4. /\ pending' = Append(pending, f) /\ finished' = TRUE /\ buffer' = <<>>
      /\ UNCHANGED <<responseId, model, lastSequence, sent, wire>>
  BY <1>2 DEF Fail
<1>5. TypeOK'
  BY <1>2, <1>4 DEF IInv, TypeOK
<1>6. TerminalLast'
  <2>1. pending \in Seq(Frames) /\ sent \in Seq(Frames)
    BY DEF IInv, TypeOK
  <2>2. /\ \A i \in DOMAIN sent : ~IsTerminal(sent[i])
        /\ \A i \in DOMAIN pending : ~IsTerminal(pending[i])
    BY DEF IInv, TerminalLast
  <2>3. /\ pending' # <<>> /\ pending'[Len(pending')] = f
        /\ \A i \in DOMAIN pending' : i # Len(pending') => pending'[i] = pending[i] /\ i \in DOMAIN pending
    BY <1>4, <2>1
  <2> QED BY <1>2, <1>4, <2>2, <2>3 DEF TerminalLast, IsTerminal
<1>7. BoundedBuffer' /\ Control'
  BY <1>4 DEF BoundedBuffer, Control
<1>8. FramesAccounted'
  BY <1>1, <1>2, <1>3, <1>4 DEF IInv, TypeOK, FramesAccounted, Accounted, SaturatingAdd
<1> QED BY <1>5, <1>6, <1>7, <1>8 DEF IInv

(* Cutting the first frame off leaves sequences of tokens, no longer.      *)
LEMMA CutType ==
  ASSUME TypeOK
  PROVE  /\ FirstFrame \in Seq(Tokens)
         /\ Rest \in Seq(Tokens) /\ Len(Rest) <= Len(buffer)
<1>1. buffer \in Seq(Tokens)
  BY DEF TypeOK
<1>2. CompleteFrameLen(buffer) \in 0..Len(buffer)
  BY <1>1, FrameLenType DEF CompleteFrameLen
<1> QED BY <1>1, <1>2 DEF FirstFrame, Rest

(* Observing an event leaves the frames already produced accounted for.    *)
LEMMA ObserveKeepsFrames ==
  ASSUME IInv, ~finished,
         lastSequence' \in 0..MaxSeq, lastSequence' >= lastSequence
  PROVE  /\ \A i \in DOMAIN sent : sent[i].origin = "upstream" /\ sent[i].seq <= lastSequence'
         /\ \A i \in DOMAIN pending : pending[i].origin = "upstream" /\ pending[i].seq <= lastSequence'
<1>1. ASSUME NEW g \in Frames, Accounted(g)
      PROVE  g.origin = "upstream" /\ g.seq <= lastSequence'
  <2>1. g.seq \in Int /\ lastSequence \in Int /\ lastSequence' \in Int
    BY ConstantsAssumption DEF IInv, TypeOK, Frames, NoSeq
  <2> QED BY <1>1, <2>1 DEF Accounted
<1>2. /\ \A i \in DOMAIN sent : sent[i] \in Frames /\ Accounted(sent[i])
      /\ \A i \in DOMAIN pending : pending[i] \in Frames /\ Accounted(pending[i])
  BY DEF IInv, TypeOK, FramesAccounted
<1> QED BY <1>1, <1>2

(* Metadata is observed and not forwarded.                                 *)
LEMMA DropPreserves ==
  ASSUME IInv, DrainDrop
  PROVE  IInv'
<1> USE ConstantsAssumption
<1>1. TypeOK
  BY DEF IInv
<1>2. PICK e \in Events : /\ e = InspectFrame(FirstFrame).event
                         /\ e.seq \in 0..MaxSeq \cup {NoSeq}
  BY <1>1, CutType, InspectType DEF DrainDrop, Verdicts
<1>3. /\ lastSequence' = ObservedSeq(e)
      /\ responseId' = Observed(responseId, e.respId, e.topId)
      /\ model' = Observed(model, e.respModel, e.headerModel)
      /\ buffer' = Rest /\ UNCHANGED <<pc, pending, finished, sent, wire>>
      /\ pc \in {"drain", "received"} /\ ~finished
  BY <1>2 DEF DrainDrop, Observe, FrameReady
<1>4. /\ lastSequence' \in 0..MaxSeq /\ lastSequence' >= lastSequence
      /\ responseId' \in Ids \cup {Absent} /\ model' \in Ids \cup {Absent}
  BY <1>1, <1>2, <1>3, ObservedType
<1>5. TypeOK' /\ BoundedBuffer'
  BY <1>1, <1>3, <1>4, CutType DEF IInv, TypeOK, BoundedBuffer
<1>6. TerminalLast' /\ Control'
  BY <1>3 DEF IInv, TerminalLast, Control
<1>7. FramesAccounted'
  BY <1>3, <1>4, ObserveKeepsFrames DEF FramesAccounted, Accounted, Safe
<1> QED BY <1>5, <1>6, <1>7 DEF IInv

(* A kept event: forwarded, or replaced if it reports a failure.           *)
LEMMA KeepPreserves ==
  ASSUME IInv, DrainKeep
  PROVE  IInv'
<1> USE ConstantsAssumption
<1>1. TypeOK /\ ~finished
  BY DEF IInv, DrainKeep, FrameReady
<1>2. PICK e \in Events : /\ e = InspectFrame(FirstFrame).event
                         /\ e.seq \in 0..MaxSeq \cup {NoSeq}
                         /\ e.kind \in KnownKinds
  BY <1>1, CutType, InspectType DEF DrainKeep, Verdicts
<1>3. PICK f : f = IF e.kind \in FailureKinds THEN Replacement(e) ELSE RawFrame(e)
  OBVIOUS
<1>4. /\ lastSequence' = ObservedSeq(e)
      /\ responseId' = Observed(responseId, e.respId, e.topId)
      /\ model' = Observed(model, e.respModel, e.headerModel)
      /\ pending' = Append(pending, f)
      /\ finished' = (e.kind \in FailureKinds \cup TerminalKinds)
      /\ buffer' = IF finished' THEN <<>> ELSE Rest
      /\ UNCHANGED <<pc, sent, wire>> /\ pc \in {"drain", "received"}
  BY <1>2, <1>3 DEF DrainKeep, Observe
<1>5. /\ lastSequence' \in 0..MaxSeq /\ lastSequence' >= lastSequence /\ lastSequence' >= e.seq
      /\ responseId' \in Ids \cup {Absent} /\ model' \in Ids \cup {Absent}
  BY <1>1, <1>2, <1>4, ObservedType
<1>6. CASE e.kind \in FailureKinds
  <2>1. f = FailureFrame(responseId', model', lastSequence', "provider")
    BY <1>3, <1>4, <1>6 DEF Replacement
  <2>2. f \in Frames /\ IsTerminal(f) /\ f.origin = "provider" /\ f.kind = "failed"
        /\ f.seq = lastSequence'
        /\ f.id = LaterOf(DefaultId, responseId') /\ f.model = LaterOf(DefaultModel, model')
    BY <1>5, <2>1 DEF FailureFrame, LaterOf, Frames, IsTerminal, TerminalKinds, Kinds, KnownKinds, Safe, IdFields
  <2>3. finished' = TRUE /\ buffer' = <<>>
    BY <1>4, <1>6
  <2>4. TypeOK' /\ BoundedBuffer'
    BY <1>1, <1>4, <1>5, <2>2, <2>3 DEF TypeOK, BoundedBuffer
  <2>5. FramesAccounted'
    BY <1>1, <1>4, <1>5, <2>2, <2>3, ObserveKeepsFrames
    DEF TypeOK, FramesAccounted, Accounted, Reasons, Safe
  <2>6. TerminalLast' /\ Control'
    BY <1>1, <1>4, <2>2, <2>3 DEF IInv, TypeOK, TerminalLast, Control
  <2> QED BY <2>4, <2>5, <2>6 DEF IInv
<1>7. CASE e.kind \notin FailureKinds
  <2>1. f \in Frames /\ f.origin = "upstream" /\ f.seq = e.seq /\ f.id = e.respId
        /\ f.kind = e.kind
    BY <1>2, <1>3, <1>7, RawFrameType DEF RawFrame
  <2>2. finished' = IsTerminal(f) /\ finished' \in BOOLEAN
    BY <1>4, <1>7, <2>1 DEF IsTerminal
  <2>3. buffer' \in Seq(Tokens) /\ Len(buffer') <= Len(buffer)
    BY <1>1, <1>4, CutType DEF TypeOK
  <2>4. TypeOK' /\ BoundedBuffer'
    BY <1>1, <1>4, <1>5, <2>1, <2>2, <2>3 DEF IInv, TypeOK, BoundedBuffer
  <2>5. FramesAccounted'
    BY <1>1, <1>4, <1>5, <2>1, ObserveKeepsFrames
    DEF TypeOK, FramesAccounted, Accounted, Safe
  <2>6. Control'
    BY <1>4 DEF Control
  <2>7. TerminalLast'
    <3>1. /\ \A i \in DOMAIN sent : ~IsTerminal(sent[i])
          /\ \A i \in DOMAIN pending : ~IsTerminal(pending[i])
      BY <1>1 DEF IInv, TerminalLast
    <3>2. /\ pending' # <<>> /\ pending'[Len(pending')] = f
          /\ \A i \in DOMAIN pending' :
               i # Len(pending') => pending'[i] = pending[i] /\ i \in DOMAIN pending
      BY <1>1, <1>4, <2>1 DEF TypeOK
    <3> QED BY <1>4, <2>2, <3>1, <3>2 DEF TerminalLast, IsTerminal
  <2> QED BY <2>4, <2>5, <2>6, <2>7 DEF IInv
<1> QED BY <1>6, <1>7

(* A frame leaves the queue for the client.                                *)
LEMMA YieldPreserves ==
  ASSUME IInv, Yield
  PROVE  IInv'
<1>1. /\ sent' = Append(sent, Head(pending)) /\ pending' = Tail(pending)
      /\ pc' = "idle" /\ pending # <<>> /\ pending \in Seq(Frames) /\ sent \in Seq(Frames)
      /\ UNCHANGED <<buffer, finished, responseId, model, lastSequence, wire>>
  BY DEF IInv, TypeOK, Yield, validator
<1>2. /\ Head(pending) \in Frames /\ Head(pending) = pending[1]
      /\ Tail(pending) \in Seq(Frames) /\ Len(Tail(pending)) = Len(pending) - 1
      /\ \A i \in DOMAIN Tail(pending) : i + 1 \in DOMAIN pending /\ Tail(pending)[i] = pending[i + 1]
  BY <1>1
<1>3. TypeOK' /\ BoundedBuffer' /\ Control'
  BY <1>1, <1>2 DEF IInv, TypeOK, BoundedBuffer, Yield, Control
<1>4. FramesAccounted'
  BY <1>1, <1>2 DEF IInv, FramesAccounted, Accounted, SaturatingAdd
<1>5. TerminalLast'
  BY <1>1, <1>2 DEF IInv, TerminalLast, IsTerminal
<1> QED BY <1>3, <1>4, <1>5 DEF IInv

(* Every step of the validator, its upstream and its client preserves the  *)
(* inductive invariant.                                                    *)
LEMMA StepPreserves ==
  ASSUME IInv, [Next]_vars
  PROVE  IInv'
<1> USE ConstantsAssumption
<1>1. CASE Yield
  BY <1>1, YieldPreserves
<1>2. CASE End
  BY <1>2 DEF IInv, TypeOK, TerminalLast, BoundedBuffer, FramesAccounted, Accounted,
              SaturatingAdd, Control, End, validator
<1>3. CASE StartDrain
  BY <1>3 DEF IInv, TypeOK, TerminalLast, BoundedBuffer, FramesAccounted, Accounted,
              SaturatingAdd, Control, StartDrain, validator
<1>4. CASE DrainOversized
  BY <1>4, FailPreserves DEF DrainOversized, FrameReady, Reasons
<1>5. CASE DrainReject
  BY <1>5, FailPreserves DEF DrainReject, FrameReady, Reasons
<1>6. CASE DrainDrop
  BY <1>6, DropPreserves
<1>7. CASE DrainKeep
  BY <1>7, KeepPreserves
<1>8. CASE DrainDone
  BY <1>8 DEF IInv, TypeOK, TerminalLast, BoundedBuffer, FramesAccounted, Accounted,
              SaturatingAdd, Control, DrainDone, validator
<1>9. CASE ChunkDone
  <2>1. CASE ~finished /\ Len(buffer) > MaxEventBytes
    BY <1>9, <2>1, FailPreserves DEF ChunkDone, Reasons
  <2>2. CASE ~(~finished /\ Len(buffer) > MaxEventBytes)
    <3>1. /\ UNCHANGED <<buffer, finished, responseId, model, lastSequence, pending, sent, wire>>
          /\ pc' = "top"
      BY <1>9, <2>2 DEF ChunkDone, validator
    <3>2. finished => Len(buffer) <= MaxEventBytes
      BY DEF IInv, Control, TypeOK
    <3> QED BY <2>2, <3>1, <3>2
            DEF IInv, TypeOK, TerminalLast, BoundedBuffer, FramesAccounted, Accounted,
                SaturatingAdd, Control
  <2> QED BY <2>1, <2>2
<1>10. ASSUME NEW c \in Chunks, ReceiveChunk(c) PROVE IInv'
  BY <1>10 DEF IInv, TypeOK, TerminalLast, BoundedBuffer, FramesAccounted, Accounted,
               SaturatingAdd, Control, ReceiveChunk, Tokens
<1>11. CASE BodyError \/ BodyEnd \/ IdleTimeout
  <2>1. ~finished /\ pc' = "top" /\ UNCHANGED <<sent, wire>>
    BY <1>11 DEF IInv, Control, BodyError, BodyEnd, IdleTimeout
  <2>2. PICK r \in Reasons : Fail(r)
    BY <1>11 DEF BodyError, BodyEnd, IdleTimeout, Reasons
  <2> QED BY <2>1, <2>2, FailPreserves
<1>12. CASE Cancel
  BY <1>12 DEF IInv, TypeOK, TerminalLast, BoundedBuffer, FramesAccounted, Accounted,
               SaturatingAdd, Control, Cancel, validator
<1>13. CASE UNCHANGED vars
  BY <1>13 DEF IInv, TypeOK, TerminalLast, BoundedBuffer, FramesAccounted, Accounted,
               SaturatingAdd, Control, vars
<1> QED
  BY <1>1, <1>2, <1>3, <1>4, <1>5, <1>6, <1>7, <1>8, <1>9, <1>10, <1>11, <1>12, <1>13
  DEF Next, Step, Upstream, Stopped

(* The validator starts in the invariant.                                  *)
LEMMA InitInv == Init => IInv
<1> SUFFICES ASSUME Init PROVE IInv
  OBVIOUS
<1> USE DEF Init
<1>1. TypeOK
  <2>1. lastSequence \in 0..MaxSeq
    BY ConstantsAssumption
  <2>2. <<>> \in Seq(Tokens) /\ <<>> \in Seq(Frames)
    OBVIOUS
  <2> QED BY <2>1, <2>2 DEF TypeOK
<1>2. TerminalLast /\ FramesAccounted
  BY DEF TerminalLast, FramesAccounted
<1>3. BoundedBuffer /\ Control
  BY ConstantsAssumption DEF BoundedBuffer, Control
<1> QED BY <1>1, <1>2, <1>3 DEF IInv

(* The inductive invariant holds in every reachable state.                 *)
THEOREM Invariance == Spec => []IInv
<1>1. IInv /\ [Next]_vars => IInv'
  BY StepPreserves
<1> QED BY InitInv, <1>1, PTL DEF Spec

(* Type correctness.                                                       *)
THEOREM TypeCorrect == Spec => []TypeOK
<1>1. IInv => TypeOK
  BY DEF IInv
<1> QED BY Invariance, <1>1, PTL

(* The client sees at most one terminal event, and nothing after it.       *)
THEOREM OneTerminal == Spec => []TerminalLast
<1>1. IInv => TerminalLast
  BY DEF IInv
<1> QED BY Invariance, <1>1, PTL

(* No response ends without a terminal event.                              *)
THEOREM NeverBareEof == Spec => []NoBareEof
<1>1. IInv => NoBareEof
  BY DEF IInv, TerminalLast, Control, NoBareEof
<1> QED BY Invariance, <1>1, PTL

(* Between two reads of the body the buffer respects the event limit.      *)
THEOREM BufferBounded == Spec => []BoundedBuffer
<1>1. IInv => BoundedBuffer
  BY DEF IInv
<1> QED BY Invariance, <1>1, PTL

(* Every frame of Out is accounted for.                                    *)
LEMMA OutAccounted ==
  ASSUME IInv
  PROVE  \A i \in DOMAIN Out : Out[i] \in Frames /\ Accounted(Out[i])
<1>1. sent \in Seq(Frames) /\ pending \in Seq(Frames)
  BY DEF IInv, TypeOK
<1>2. SUFFICES ASSUME NEW i \in 1..(Len(sent) + Len(pending))
               PROVE  Out[i] \in Frames /\ Accounted(Out[i])
  BY <1>1 DEF Out
<1>3. CASE i <= Len(sent)
  <2>1. Out[i] = sent[i] /\ i \in DOMAIN sent
    BY <1>1, <1>3 DEF Out
  <2> QED BY <1>1, <2>1 DEF IInv, FramesAccounted
<1>4. CASE i > Len(sent)
  <2>1. Out[i] = pending[i - Len(sent)] /\ i - Len(sent) \in DOMAIN pending
    BY <1>1, <1>4 DEF Out
  <2> QED BY <1>1, <2>1 DEF IInv, FramesAccounted
<1> QED BY <1>1, <1>3, <1>4

(* The failure a client is given is numbered after everything it was sent, *)
(* saturation apart.                                                       *)
THEOREM FailureNumbered == Spec => []FailureSequence
<1>1. ASSUME IInv PROVE FailureSequence
  <2> SUFFICES ASSUME NEW i \in DOMAIN Out, NEW j \in DOMAIN Out,
                      Out[i].origin = "upstream", Out[j].origin # "upstream"
               PROVE  /\ Out[i].seq <= Out[j].seq
                      /\ Out[j].origin \in Reasons =>
                           Out[i].seq < Out[j].seq \/ Out[j].seq = MaxSeq
    BY DEF FailureSequence
  <2>1. /\ Out[i].seq \in Int /\ Out[j].seq \in Int /\ lastSequence \in Int /\ MaxSeq \in Int
        /\ Out[i].seq <= lastSequence /\ lastSequence <= Out[j].seq
        /\ Out[j].origin \in Reasons => Out[j].seq = SaturatingAdd(lastSequence)
    BY <1>1, OutAccounted, ConstantsAssumption DEF Accounted, Frames, IInv, TypeOK, NoSeq
  <2> QED BY <2>1 DEF SaturatingAdd
<1> QED BY Invariance, <1>1, PTL

-----------------------------------------------------------------------------
(* The refinement: each step of the validator is a step of TerminalStream  *)
(* or leaves the client's view alone.                                      *)

(* Its initial state is the abstract stream's.                             *)
LEMMA RefinesInit == Init => Stream!Init
BY DEF Init, Stream!Init, Status

(* Giving a pending frame is the abstract stream's Give.                   *)
LEMMA RefinesYield ==
  ASSUME IInv, Yield
  PROVE  Stream!Give
<1>1. /\ sent' = Append(sent, Head(pending)) /\ pc' = "idle" /\ pc \in {"idle", "top"}
      /\ pending # <<>> /\ pending \in Seq(Frames) /\ sent \in Seq(Frames)
  BY DEF IInv, TypeOK, Yield
<1>2. Head(pending) \in Frames /\ sent' # <<>> /\ sent'[Len(sent')] = Head(pending)
  BY <1>1
<1>3. Status = "open"
  BY <1>1 DEF Status, IInv, TerminalLast
<1>4. Status' = IF IsTerminal(sent'[Len(sent')]) THEN "complete" ELSE "open"
  BY <1>1, <1>2 DEF Status, IsTerminal
<1> QED BY <1>1, <1>2, <1>3, <1>4 DEF Stream!Give

(* Every step is a step of the abstract stream or a stutter.               *)
LEMMA RefinesStep ==
  ASSUME IInv, [Next]_vars
  PROVE  [Stream!Next]_<<sent, Status>>
<1>1. CASE Yield
  BY <1>1, RefinesYield DEF Stream!Next
<1>2. CASE End
  BY <1>2 DEF End, IInv, TerminalLast, Status, Stream!Next, Stream!Close
<1>3. CASE Cancel
  BY <1>3 DEF Cancel, Status, Stream!Next, Stream!Leave
<1>4. CASE \/ StartDrain \/ DrainOversized \/ DrainReject \/ DrainDrop \/ DrainKeep \/ DrainDone
           \/ ChunkDone \/ (\E c \in Chunks : ReceiveChunk(c)) \/ BodyError \/ BodyEnd \/ IdleTimeout
  <2>1. /\ sent' = sent
        /\ pc \notin {"ended", "cancelled"} /\ pc' \notin {"ended", "cancelled"}
    BY <1>4 DEF StartDrain, DrainOversized, DrainReject, DrainDrop, DrainKeep, DrainDone,
                ChunkDone, ReceiveChunk, BodyError, BodyEnd, IdleTimeout
  <2> QED BY <2>1 DEF Status, IsTerminal
<1>5. CASE UNCHANGED vars
  BY <1>5 DEF vars, Status, IsTerminal
<1> QED BY <1>1, <1>2, <1>3, <1>4, <1>5 DEF Next, Step, Upstream, Stopped

(* The validator implements TerminalStream.                                *)
THEOREM Refinement == Spec => KeepsPromise
<1>1. IInv /\ [Next]_vars => [Stream!Next]_<<sent, Status>>
  BY RefinesStep
<1> QED BY RefinesInit, Invariance, <1>1, PTL DEF Spec, KeepsPromise, Stream!Spec
-----------------------------------------------------------------------------
(* Induction over the natural numbers, for a set.                          *)
LEMMA SetInduction ==
  ASSUME NEW S, 0 \in S, \A n \in Nat : n \in S => n + 1 \in S
  PROVE  Nat \subseteq S
<1> DEFINE B == {n \in Nat : n \notin S}
<1> SUFFICES ASSUME B # {} PROVE FALSE
  OBVIOUS
<1>1. PICK m \in B : \A y \in B : m <= y
  BY MinOfNat
<1>2. m \in Nat /\ m \notin S /\ m # 0
  OBVIOUS
<1>3. m - 1 \in Nat /\ m - 1 \notin B
  BY <1>1, <1>2
<1>4. m - 1 \in S /\ (m - 1) + 1 = m
  BY <1>2, <1>3
<1> QED BY <1>2, <1>3, <1>4

-----------------------------------------------------------------------------
(* What the reference computes.  Reading is a recursive function on        *)
(* sequences of tokens: it exists because what follows a frame is shorter  *)
(* than what it is cut from.                                               *)

RestOf(w) == SubSeq(w, CompleteFrameLen(w) + 1, Len(w))

(* One turn of the reference, its recursive call being a call of f.        *)
Turn(f, w) ==
  LET n == CompleteFrameLen(w)
      v == InspectFrame(SubSeq(w, 1, n))
  IN IF n = 0 \/ n > MaxEventBytes \/ v.verdict = "reject" THEN NothingRead
     ELSE IF Ends(v) THEN ReadFirst(v, NothingRead)
     ELSE ReadFirst(v, f[SubSeq(w, n + 1, Len(w))])

Wires(n) == {w \in Seq(Tokens) : Len(w) <= n}
IsRun(f, n) == f = [w \in Wires(n) |-> Turn(f, w)]

(* What follows a complete frame is a shorter sequence of tokens.          *)
LEMMA RestShorter ==
  ASSUME NEW w \in Seq(Tokens), CompleteFrameLen(w) # 0
  PROVE  /\ RestOf(w) \in Seq(Tokens) /\ Len(RestOf(w)) < Len(w)
         /\ SubSeq(w, 1, CompleteFrameLen(w)) \in Seq(Tokens)
<1>1. PICK n \in 0..Len(w) : n = CompleteFrameLen(w)
  BY FrameLenType DEF CompleteFrameLen
<1>2. /\ SubSeq(w, n + 1, Len(w)) \in Seq(Tokens) /\ Len(SubSeq(w, n + 1, Len(w))) < Len(w)
      /\ SubSeq(w, 1, n) \in Seq(Tokens)
  BY <1>1
<1> QED BY <1>1, <1>2 DEF RestOf

(* A turn depends on f only at what follows the frame.                     *)
LEMMA TurnLocal ==
  ASSUME NEW f, NEW g, NEW w, CompleteFrameLen(w) # 0 => f[RestOf(w)] = g[RestOf(w)]
  PROVE  Turn(f, w) = Turn(g, w)
<1>1. CASE CompleteFrameLen(w) = 0
  BY <1>1 DEF Turn
<1>2. CASE CompleteFrameLen(w) # 0
  BY <1>2 DEF Turn, RestOf
<1> QED BY <1>1, <1>2

(* A run answers every wire of its length by a turn.                       *)
LEMMA RunTurn ==
  ASSUME NEW f, NEW n \in Nat, IsRun(f, n), NEW w \in Seq(Tokens), Len(w) <= n
  PROVE  f[w] = Turn(f, w)
<1>1. w \in Wires(n)
  BY DEF Wires
<1> DEFINE g == [x \in Wires(n) |-> Turn(f, x)]
<1>2. f = g
  BY DEF IsRun
<1>3. g[w] = Turn(f, w)
  BY <1>1
<1> HIDE DEF g
<1> QED BY <1>2, <1>3

(* Two runs agree on the wires they have in common.                        *)
LEMMA RunsAgree ==
  ASSUME NEW f, NEW g, NEW n \in Nat, NEW m \in Nat, IsRun(f, n), IsRun(g, m)
  PROVE  \A w \in Seq(Tokens) : Len(w) <= n /\ Len(w) <= m => f[w] = g[w]
<1> DEFINE S == {k \in Nat : \A w \in Seq(Tokens) :
                   Len(w) <= k /\ Len(w) <= n /\ Len(w) <= m => f[w] = g[w]}
<1>1. ASSUME NEW k \in Nat, NEW w \in Seq(Tokens), Len(w) <= k, Len(w) <= n, Len(w) <= m,
             \A x \in Seq(Tokens) : Len(x) < k /\ Len(x) <= n /\ Len(x) <= m => f[x] = g[x]
      PROVE  f[w] = g[w]
  <2>1. f[w] = Turn(f, w)
    BY <1>1, RunTurn
  <2>2. g[w] = Turn(g, w)
    BY <1>1, RunTurn
  <2>3. CompleteFrameLen(w) # 0 => f[RestOf(w)] = g[RestOf(w)]
    <3> SUFFICES ASSUME CompleteFrameLen(w) # 0 PROVE f[RestOf(w)] = g[RestOf(w)]
      OBVIOUS
    <3>1. PICK x \in Seq(Tokens) : x = RestOf(w) /\ Len(x) < Len(w)
      BY RestShorter
    <3>2. Len(x) \in Nat /\ Len(w) \in Nat
      OBVIOUS
    <3>3. Len(x) < k /\ Len(x) <= n /\ Len(x) <= m
      BY <1>1, <3>1, <3>2
    <3> QED BY <1>1, <3>1, <3>3
  <2>4. Turn(f, w) = Turn(g, w)
    BY <2>3, TurnLocal
  <2> QED BY <2>1, <2>2, <2>4
<1>2. 0 \in S
  <2>1. ASSUME NEW w \in Seq(Tokens), Len(w) <= 0, Len(w) <= n, Len(w) <= m PROVE f[w] = g[w]
    <3>1. \A x \in Seq(Tokens) : ~(Len(x) < 0)
      OBVIOUS
    <3> QED BY <1>1, <2>1, <3>1
  <2> QED BY <2>1
<1>3. ASSUME NEW k \in Nat, k \in S PROVE k + 1 \in S
  <2>1. \A x \in Seq(Tokens) : Len(x) < k + 1 /\ Len(x) <= n /\ Len(x) <= m => f[x] = g[x]
    <3> SUFFICES ASSUME NEW x \in Seq(Tokens), Len(x) < k + 1, Len(x) <= n, Len(x) <= m
                 PROVE  f[x] = g[x]
      OBVIOUS
    <3>1. Len(x) <= k
      OBVIOUS
    <3> QED BY <1>3, <3>1
  <2>2. ASSUME NEW w \in Seq(Tokens), Len(w) <= k + 1, Len(w) <= n, Len(w) <= m PROVE f[w] = g[w]
    <3>1. k + 1 \in Nat
      OBVIOUS
    <3> QED BY <1>1, <2>1, <2>2, <3>1
  <2> QED BY <2>2
<1>4. Nat \subseteq S
  <2> HIDE DEF S
  <2> QED BY <1>2, <1>3, SetInduction
<1> QED BY <1>4

(* There are runs of every length.                                         *)
LEMMA RunExists == \A n \in Nat : \E f : IsRun(f, n)
<1> DEFINE E == {n \in Nat : \E f : IsRun(f, n)}
<1>1. ASSUME NEW n \in Nat, NEW f, NEW h,
             h = [w \in Wires(n) |-> Turn(f, w)],
             \A w \in Seq(Tokens) : Len(w) < n => f[w] = Turn(f, w)
      PROVE  IsRun(h, n)
  <2>1. ASSUME NEW w \in Wires(n) PROVE h[w] = Turn(h, w)
    <3>1. h[w] = Turn(f, w)
      BY <1>1
    <3>2. CompleteFrameLen(w) # 0 => f[RestOf(w)] = h[RestOf(w)]
      <4> SUFFICES ASSUME CompleteFrameLen(w) # 0 PROVE f[RestOf(w)] = h[RestOf(w)]
        OBVIOUS
      <4>0. w \in Seq(Tokens) /\ Len(w) <= n /\ Len(w) \in Nat
        BY DEF Wires
      <4>1. PICK x \in Seq(Tokens) : x = RestOf(w) /\ Len(x) < Len(w)
        BY <4>0, RestShorter
      <4>2. Len(x) \in Nat
        OBVIOUS
      <4>3. Len(x) < n /\ Len(x) <= n
        BY <4>0, <4>1, <4>2
      <4>4. x \in Wires(n)
        BY <4>3 DEF Wires
      <4>5. h[x] = Turn(f, x)
        BY <1>1, <4>4
      <4>6. f[x] = Turn(f, x)
        BY <1>1, <4>3
      <4> QED BY <4>1, <4>5, <4>6
    <3> QED BY <3>1, <3>2, TurnLocal
  <2>2. h = [w \in Wires(n) |-> h[w]]
    BY <1>1
  <2>3. [w \in Wires(n) |-> h[w]] = [w \in Wires(n) |-> Turn(h, w)]
    BY <2>1
  <2> QED BY <2>2, <2>3 DEF IsRun
<1>2. 0 \in E
  <2>1. PICK h : h = [w \in Wires(0) |-> Turn(<<>>, w)]
    OBVIOUS
  <2>2. \A w \in Seq(Tokens) : Len(w) < 0 => <<>>[w] = Turn(<<>>, w)
    OBVIOUS
  <2>3. IsRun(h, 0)
    BY <1>1, <2>1, <2>2
  <2> QED BY <2>3
<1>3. ASSUME NEW n \in Nat, n \in E PROVE n + 1 \in E
  <2>1. PICK f : IsRun(f, n)
    BY <1>3
  <2>2. PICK h : h = [w \in Wires(n + 1) |-> Turn(f, w)]
    OBVIOUS
  <2>3. \A w \in Seq(Tokens) : Len(w) < n + 1 => f[w] = Turn(f, w)
    <3> SUFFICES ASSUME NEW w \in Seq(Tokens), Len(w) < n + 1 PROVE f[w] = Turn(f, w)
      OBVIOUS
    <3>1. Len(w) <= n
      OBVIOUS
    <3> QED BY <2>1, <3>1, RunTurn
  <2>4. n + 1 \in Nat
    OBVIOUS
  <2>5. IsRun(h, n + 1)
    BY <1>1, <2>2, <2>3, <2>4
  <2> QED BY <2>4, <2>5
<1>4. Nat \subseteq E
  <2> HIDE DEF E
  <2> QED BY <1>2, <1>3, SetInduction
<1> QED BY <1>4

(* So the reference is what its definition says, on every wire.            *)
LEMMA ReadingTurn ==
  ASSUME NEW w \in Seq(Tokens)
  PROVE  Reading[w] = Turn(Reading, w)
<1> DEFINE run(n) == CHOOSE f : IsRun(f, n)
<1>1. \A n \in Nat : IsRun(run(n), n)
  BY RunExists
<1> HIDE DEF run
<1>2. PICK G : G = [x \in Seq(Tokens) |-> run(Len(x))[x]]
  OBVIOUS
<1>3. ASSUME NEW x \in Seq(Tokens) PROVE G[x] = Turn(G, x)
  <2>1. PICK n \in Nat : n = Len(x)
    OBVIOUS
  <2>2. G[x] = run(n)[x]
    BY <1>2, <2>1
  <2>3. run(n)[x] = Turn(run(n), x)
    BY <1>1, <2>1, RunTurn
  <2>4. CompleteFrameLen(x) # 0 => run(n)[RestOf(x)] = G[RestOf(x)]
    <3> SUFFICES ASSUME CompleteFrameLen(x) # 0 PROVE run(n)[RestOf(x)] = G[RestOf(x)]
      OBVIOUS
    <3>1. PICK y \in Seq(Tokens) : y = RestOf(x) /\ Len(y) < Len(x)
      BY RestShorter
    <3>2. PICK m \in Nat : m = Len(y)
      OBVIOUS
    <3>3. G[y] = run(m)[y]
      BY <1>2, <3>2
    <3>4. m <= n /\ Len(y) <= n /\ Len(y) <= m
      BY <2>1, <3>1, <3>2
    <3>5. PICK f, g : f = run(n) /\ g = run(m)
      OBVIOUS
    <3>6. IsRun(f, n) /\ IsRun(g, m)
      BY <1>1, <3>5
    <3>7. f[y] = g[y]
      BY <3>4, <3>6, RunsAgree
    <3> QED BY <3>1, <3>3, <3>5, <3>7
  <2> QED BY <2>2, <2>3, <2>4, TurnLocal
<1>4. G = [x \in Seq(Tokens) |-> Turn(G, x)]
  <2>1. [x \in Seq(Tokens) |-> G[x]] = [x \in Seq(Tokens) |-> Turn(G, x)]
    BY <1>3
  <2>2. G = [x \in Seq(Tokens) |-> G[x]]
    BY <1>2
  <2> QED BY <2>1, <2>2
<1>5. Reading = [x \in Seq(Tokens) |-> Turn(Reading, x)]
  <2>1. Reading = CHOOSE f : f = [x \in Seq(Tokens) |-> Turn(f, x)]
    BY DEF Reading, Turn
  <2> QED BY <1>4, <2>1
<1> DEFINE H == [x \in Seq(Tokens) |-> Turn(Reading, x)]
<1>6. H[w] = Turn(Reading, w)
  OBVIOUS
<1> HIDE DEF H
<1>7. Reading = H
  BY <1>5 DEF H
<1> QED BY <1>6, <1>7

(* The reference gives frames and an identity.                             *)
Readings == [frames : Seq(Frames), id : Ids \cup {Absent}, model : Ids \cup {Absent}]

LEMMA ReadFirstType ==
  ASSUME NEW v \in Verdicts, v.event.seq \in 0..MaxSeq \cup {NoSeq}, NEW r \in Readings
  PROVE  ReadFirst(v, r) \in Readings
<1>1. PICK e \in Events : e = v.event /\ e.seq \in 0..MaxSeq \cup {NoSeq}
  BY DEF Verdicts
<1>2. PICK f \in Frames : f = RawFrame(e)
  BY <1>1, RawFrameType
<1>3. PICK fs \in Seq(Frames) : fs = r.frames
  BY DEF Readings
<1>4. <<f>> \o fs \in Seq(Frames)
  OBVIOUS
<1>5. /\ LaterOf(Usable(e.respId, e.topId), r.id) \in Ids \cup {Absent}
      /\ LaterOf(Usable(e.respModel, e.headerModel), r.model) \in Ids \cup {Absent}
  BY DEF LaterOf, Usable, Safe, Readings
<1> QED BY <1>1, <1>2, <1>3, <1>4, <1>5 DEF ReadFirst, Readings

LEMMA ReadingType ==
  ASSUME NEW w \in Seq(Tokens)
  PROVE  Reading[w] \in Readings
<1> DEFINE S == {k \in Nat : \A x \in Seq(Tokens) : Len(x) <= k => Reading[x] \in Readings}
<1>1. ASSUME NEW x \in Seq(Tokens),
             \A y \in Seq(Tokens) : Len(y) < Len(x) => Reading[y] \in Readings
      PROVE  Reading[x] \in Readings
  <2>1. Reading[x] = Turn(Reading, x)
    BY ReadingTurn
  <2>2. NothingRead \in Readings
    BY DEF NothingRead, Readings
  <2>3. CASE CompleteFrameLen(x) = 0
    BY <2>1, <2>2, <2>3 DEF Turn
  <2>4. CASE CompleteFrameLen(x) # 0
    <3>1. Reading[RestOf(x)] \in Readings
      BY <1>1, <2>4, RestShorter
    <3>2. PICK v \in Verdicts :
            /\ v = InspectFrame(SubSeq(x, 1, CompleteFrameLen(x)))
            /\ v.verdict # "reject" => v.event.seq \in 0..MaxSeq \cup {NoSeq}
      BY <2>4, RestShorter, InspectType
    <3>3. v.verdict # "reject" =>
            ReadFirst(v, NothingRead) \in Readings /\ ReadFirst(v, Reading[RestOf(x)]) \in Readings
      BY <2>2, <3>1, <3>2, ReadFirstType
    <3>4. \/ Turn(Reading, x) = NothingRead
          \/ v.verdict # "reject" /\ Turn(Reading, x) = ReadFirst(v, NothingRead)
          \/ v.verdict # "reject" /\ Turn(Reading, x) = ReadFirst(v, Reading[RestOf(x)])
      BY <2>4, <3>2 DEF Turn, RestOf
    <3> QED BY <2>1, <2>2, <3>3, <3>4
  <2> QED BY <2>3, <2>4
<1>2. 0 \in S
  <2>1. ASSUME NEW x \in Seq(Tokens), Len(x) <= 0 PROVE Reading[x] \in Readings
    <3>1. \A y \in Seq(Tokens) : ~(Len(y) < Len(x))
      BY <2>1
    <3> QED BY <1>1, <3>1
  <2> QED BY <2>1
<1>3. ASSUME NEW k \in Nat, k \in S PROVE k + 1 \in S
  <2>1. ASSUME NEW x \in Seq(Tokens), Len(x) <= k + 1 PROVE Reading[x] \in Readings
    <3>1. \A y \in Seq(Tokens) : Len(y) < Len(x) => Len(y) <= k
      BY <2>1
    <3>2. \A y \in Seq(Tokens) : Len(y) < Len(x) => Reading[y] \in Readings
      BY <1>3, <3>1
    <3> QED BY <1>1, <3>2
  <2> QED BY <2>1
<1>4. Nat \subseteq S
  <2> HIDE DEF S
  <2> QED BY <1>2, <1>3, SetInduction
<1>5. Len(w) \in Nat
  OBVIOUS
<1> QED BY <1>4, <1>5

LEMMA ForwardableType ==
  ASSUME NEW w \in Seq(Tokens)
  PROVE  Forwardable(w) \in Seq(Frames)
BY ReadingType DEF Forwardable, Readings
-----------------------------------------------------------------------------
(* The first blank line, where the scanner finds one.                      *)
LEMMA FirstBlank ==
  ASSUME NEW S, NEW b \in Seq(S), NEW tail \in {0, 1}, BlankLines(b, tail) # {}
  PROVE  LET i == Min(BlankLines(b, tail)) IN
           /\ i \in BlankLines(b, tail) /\ i \in 1..Len(b)
           /\ \A j \in BlankLines(b, tail) : i <= j
           /\ BreakLen(b, i, tail) \in {1, 2}
           /\ FrameLen(b, tail) = i + BreakLen(b, i, tail) - 1
           /\ FrameLen(b, tail) <= Len(b)
<1> DEFINE B == BlankLines(b, tail)
<1>1. B \in SUBSET Nat
  BY DEF BlankLines
<1>2. Min(B) \in B /\ \A j \in B : Min(B) <= j
  BY <1>1, MinOfNat
<1>3. Min(B) \in 1..Len(b) /\ BreakLen(b, Min(B), tail) > 0
  BY <1>2 DEF BlankLines
<1>4. /\ BreakLen(b, Min(B), tail) \in {1, 2}
      /\ Min(B) + BreakLen(b, Min(B), tail) - 1 <= Len(b)
  BY <1>3 DEF BreakLen
<1>5. FrameLen(b, tail) = Min(B) + BreakLen(b, Min(B), tail) - 1
  BY DEF FrameLen
<1> QED BY <1>2, <1>3, <1>4, <1>5

(* Where a line starts, and how long a decided break is, depend on the     *)
(* bytes already there.                                                    *)
LEMMA LocalBreaks ==
  ASSUME NEW S, NEW b \in Seq(S), NEW d \in Seq(S), Len(b) <= Len(d),
         \A k \in 1..Len(b) : d[k] = b[k],
         NEW j \in 1..Len(b)
  PROVE  /\ LineStart(d, j) <=> LineStart(b, j)
         /\ BreakLen(b, j, 0) > 0 => BreakLen(d, j, 0) = BreakLen(b, j, 0)
         /\ BreakLen(d, j, 0) > 0 /\ j < Len(b) => BreakLen(b, j, 0) > 0
<1>1. d[j] = b[j] /\ (j > 1 => d[j - 1] = b[j - 1]) /\ (j < Len(b) => d[j + 1] = b[j + 1])
  BY SMTT(30)
<1>2. LineStart(d, j) <=> LineStart(b, j)
  BY <1>1 DEF LineStart
<1>3. BreakLen(b, j, 0) > 0 => BreakLen(d, j, 0) = BreakLen(b, j, 0)
  BY <1>1 DEF BreakLen
<1>4. BreakLen(d, j, 0) > 0 /\ j < Len(b) => BreakLen(b, j, 0) > 0
  BY <1>1 DEF BreakLen
<1> QED BY <1>2, <1>3, <1>4

(* When the end of line k is a blank line of the buffer (the test of the   *)
(* scanners' loops).                                                       *)
LEMMA InBlankLines ==
  ASSUME NEW S, NEW b \in Seq(S), NEW tail \in {0, 1}, NEW k \in 1..Len(b)
  PROVE  k \in BlankLines(b, tail) <=> LineStart(b, k) /\ BreakLen(b, k, tail) > 0
BY DEF BlankLines

(* The gateway's scanner is indifferent to chunking: a frame it has found  *)
(* ends at the same place whatever bytes arrive later.                     *)
LEMMA ScanStable ==
  ASSUME NEW S, NEW b \in Seq(S), NEW c \in Seq(S), CompleteFrameLen(b) > 0
  PROVE  CompleteFrameLen(b \o c) = CompleteFrameLen(b)
<1>1. PICK d \in Seq(S) : /\ d = b \o c /\ Len(b) <= Len(d)
                         /\ \A k \in 1..Len(b) : d[k] = b[k]
  <2>1. /\ b \o c \in Seq(S) /\ Len(b) <= Len(b \o c)
        /\ \A k \in 1..Len(b) : (b \o c)[k] = b[k]
    OBVIOUS
  <2> QED BY <2>1
<1>2. BlankLines(b, 0) # {}
  <2>1. BlankLines(b, 0) = {} => CompleteFrameLen(b) = 0
    BY DEF CompleteFrameLen, FrameLen
  <2>2. CompleteFrameLen(b) \in Nat
    BY FrameLenType DEF CompleteFrameLen
  <2> QED BY <2>1, <2>2
<1>3. PICK i \in 1..Len(b) :
        /\ i = Min(BlankLines(b, 0)) /\ i \in BlankLines(b, 0)
        /\ \A j \in 1..Len(b) : j \in BlankLines(b, 0) => i <= j
        /\ CompleteFrameLen(b) = i + BreakLen(b, i, 0) - 1
  BY <1>2, FirstBlank DEF CompleteFrameLen
<1>4. BreakLen(d, i, 0) = BreakLen(b, i, 0) /\ i \in BlankLines(d, 0)
  <2>1. LineStart(b, i) /\ BreakLen(b, i, 0) > 0
    BY <1>3, InBlankLines
  <2>2. LineStart(d, i) /\ BreakLen(d, i, 0) = BreakLen(b, i, 0)
    BY <1>1, <2>1, LocalBreaks, ZenonT(40)
  <2>3. i \in 1..Len(d)
    BY <1>1
  <2> QED BY <2>1, <2>2, <2>3, InBlankLines
<1>5. PICK m \in 1..Len(d) :
        /\ m = Min(BlankLines(d, 0)) /\ m \in BlankLines(d, 0)
        /\ \A j \in 1..Len(d) : j \in BlankLines(d, 0) => m <= j
        /\ CompleteFrameLen(d) = m + BreakLen(d, m, 0) - 1
  BY <1>4, FirstBlank DEF CompleteFrameLen
<1>6. m = i
  <2>1. m <= i
    BY <1>1, <1>4, <1>5
  <2>2. SUFFICES ASSUME m < i PROVE FALSE
    BY <2>1
  <2>3. LineStart(d, m) /\ BreakLen(d, m, 0) > 0
    BY <1>5, InBlankLines
  <2>4. m \in 1..Len(b) /\ m < Len(b)
    BY <2>2
  <2>5. LineStart(b, m) /\ BreakLen(b, m, 0) > 0
    BY <1>1, <2>3, <2>4, LocalBreaks
  <2>6. m \in BlankLines(b, 0)
    BY <2>4, <2>5, InBlankLines
  <2> QED BY <1>3, <2>2, <2>4, <2>6
<1> QED BY <1>1, <1>3, <1>4, <1>5, <1>6

(* What is left of a sequence when its first elements are cut off.         *)
LEMMA Dropped ==
  ASSUME NEW S, NEW s \in Seq(S), NEW n \in 0..Len(s)
  PROVE  /\ SubSeq(s, n + 1, Len(s)) \in Seq(S)
         /\ Len(SubSeq(s, n + 1, Len(s))) = Len(s) - n
         /\ \A i \in 1..Len(s) - n : SubSeq(s, n + 1, Len(s))[i] = s[i + n]
<1>1. n + 1 \in 1..Len(s) + 1 /\ Len(s) \in (n + 1) - 1..Len(s)
  OBVIOUS
<1> DEFINE x == SubSeq(s, n + 1, Len(s))
<1>2. x \in Seq(S) /\ Len(x) = Len(s) - (n + 1) + 1
      /\ \A i \in 1..Len(s) - (n + 1) + 1 : x[i] = s[(n + 1) + i - 1]
  BY <1>1, SubSeqProperties
<1>3. Len(s) - (n + 1) + 1 = Len(s) - n /\ \A i \in 1..Len(s) - n : (n + 1) + i - 1 = i + n
  OBVIOUS
<1> HIDE DEF x
<1>4. Len(x) = Len(s) - n /\ \A i \in 1..Len(s) - n : x[i] = s[i + n]
  BY <1>2, <1>3
<1> QED BY <1>2, <1>4 DEF x

(* Cutting commutes with what is appended later.                           *)
LEMMA DropConcat ==
  ASSUME NEW S, NEW b \in Seq(S), NEW t \in Seq(S), NEW n \in 0..Len(b)
  PROVE  SubSeq(b \o t, n + 1, Len(b \o t)) = SubSeq(b, n + 1, Len(b)) \o t
<1>1. PICK lb \in Nat, lt \in Nat : lb = Len(b) /\ lt = Len(t)
  OBVIOUS
<1>2. PICK d \in Seq(S) :
        /\ d = b \o t /\ Len(d) = lb + lt
        /\ \A i \in 1..lb + lt : d[i] = IF i <= lb THEN b[i] ELSE t[i - lb]
  <2>1. /\ b \o t \in Seq(S) /\ Len(b \o t) = lb + lt
        /\ \A i \in 1..lb + lt : (b \o t)[i] = IF i <= lb THEN b[i] ELSE t[i - lb]
    BY <1>1, ConcatProperties
  <2> QED BY <2>1
<1>3. n \in 0..Len(d) /\ n \in 0..lb
  BY <1>1, <1>2
<1>4. PICK x \in Seq(S) : /\ x = SubSeq(d, n + 1, Len(d)) /\ Len(x) = Len(d) - n
                          /\ \A i \in 1..Len(d) - n : x[i] = d[i + n]
  <2>1. /\ SubSeq(d, n + 1, Len(d)) \in Seq(S)
        /\ Len(SubSeq(d, n + 1, Len(d))) = Len(d) - n
        /\ \A i \in 1..Len(d) - n : SubSeq(d, n + 1, Len(d))[i] = d[i + n]
    BY <1>3, Dropped
  <2> QED BY <2>1, Zenon
<1>5. PICK y \in Seq(S) : /\ y = SubSeq(b, n + 1, Len(b)) /\ Len(y) = Len(b) - n
                          /\ \A i \in 1..Len(b) - n : y[i] = b[i + n]
  <2>1. /\ SubSeq(b, n + 1, Len(b)) \in Seq(S)
        /\ Len(SubSeq(b, n + 1, Len(b))) = Len(b) - n
        /\ \A i \in 1..Len(b) - n : SubSeq(b, n + 1, Len(b))[i] = b[i + n]
    BY Dropped
  <2> QED BY <2>1, Zenon
<1>6. PICK ly \in Nat : ly = Len(y) /\ ly = lb - n
  <2>1. Len(y) = lb - n
    BY <1>1, <1>5
  <2>2. lb - n \in Nat
    BY <1>3
  <2> QED BY <2>1, <2>2
<1>7. PICK z \in Seq(S) :
        /\ z = y \o t /\ Len(z) = ly + lt
        /\ \A i \in 1..ly + lt : z[i] = IF i <= ly THEN y[i] ELSE t[i - ly]
  <2>1. /\ y \o t \in Seq(S) /\ Len(y \o t) = ly + lt
        /\ \A i \in 1..ly + lt : (y \o t)[i] = IF i <= ly THEN y[i] ELSE t[i - ly]
    <3>1. /\ y \o t \in Seq(S) /\ Len(y \o t) = Len(y) + Len(t)
          /\ \A i \in 1..Len(y) + Len(t) : (y \o t)[i] = IF i <= Len(y) THEN y[i] ELSE t[i - Len(y)]
      BY ConcatProperties
    <3> QED BY <1>1, <1>6, <3>1
  <2> QED BY <2>1
<1>8. Len(x) = (lb + lt) - n
  BY <1>2, <1>4
<1>9. (lb + lt) - n = ly + lt
  BY <1>3, <1>6
<1>10. Len(x) = ly + lt /\ Len(z) = ly + lt
  BY <1>7, <1>8, <1>9
<1>11. ASSUME NEW i \in 1..ly + lt PROVE x[i] = z[i]
  <2>1. x[i] = d[i + n]
    BY <1>2, <1>4, <1>9
  <2>2. i + n \in 1..lb + lt /\ (i <= ly <=> i + n <= lb) /\ (i + n) - lb = i - ly
    BY <1>3, <1>6
  <2>3. d[i + n] = IF i <= ly THEN b[i + n] ELSE t[i - ly]
    BY <1>2, <2>2
  <2>4. i <= ly => y[i] = b[i + n]
    BY <1>1, <1>5, <1>6
  <2>5. z[i] = IF i <= ly THEN y[i] ELSE t[i - ly]
    BY <1>7
  <2> QED BY <2>1, <2>3, <2>4, <2>5
<1>12. x = z
  BY <1>10, <1>11, SeqEqual
<1> QED BY <1>2, <1>4, <1>5, <1>7, <1>12

(* The frame the validator cuts from its buffer is the one the reference   *)
(* cuts from the buffer and anything that may follow it.                   *)
LEMMA CutStable ==
  ASSUME TypeOK, CompleteFrameLen(buffer) > 0, NEW t \in Seq(Tokens)
  PROVE  /\ buffer \o t \in Seq(Tokens)
         /\ CompleteFrameLen(buffer \o t) # 0
         /\ CompleteFrameLen(buffer \o t) = CompleteFrameLen(buffer)
         /\ SubSeq(buffer \o t, 1, CompleteFrameLen(buffer \o t)) = FirstFrame
         /\ RestOf(buffer \o t) = Rest \o t
<1>1. PICK b \in Seq(Tokens) : b = buffer
  BY DEF TypeOK
<1>2. PICK n \in 1..Len(b) : n = CompleteFrameLen(b)
  <2>1. CompleteFrameLen(b) \in 0..Len(b)
    BY FrameLenType DEF CompleteFrameLen
  <2> QED BY <1>1, <2>1
<1>3. PICK d \in Seq(Tokens) :
        /\ d = b \o t /\ Len(d) = Len(b) + Len(t)
        /\ \A i \in 1..Len(b) : d[i] = b[i]
        /\ \A i \in 1..Len(t) : d[Len(b) + i] = t[i]
  <2>1. /\ b \o t \in Seq(Tokens) /\ Len(b \o t) = Len(b) + Len(t)
        /\ \A i \in 1..Len(b) : (b \o t)[i] = b[i]
        /\ \A i \in 1..Len(t) : (b \o t)[Len(b) + i] = t[i]
    OBVIOUS
  <2> QED BY <2>1
<1>4. CompleteFrameLen(d) = n
  BY <1>2, <1>3, ScanStable
<1>5. SubSeq(d, 1, n) = SubSeq(b, 1, n)
  <2>1. /\ SubSeq(d, 1, n) \in Seq(Tokens) /\ SubSeq(b, 1, n) \in Seq(Tokens)
        /\ Len(SubSeq(d, 1, n)) = n /\ Len(SubSeq(b, 1, n)) = n
        /\ \A i \in 1..n : SubSeq(d, 1, n)[i] = SubSeq(b, 1, n)[i]
    BY <1>3
  <2> QED BY <2>1, SeqEqual
<1>6. SubSeq(d, n + 1, Len(d)) = SubSeq(b, n + 1, Len(b)) \o t
  <2>1. n \in 0..Len(b)
    OBVIOUS
  <2> QED BY <1>3, <2>1, DropConcat
<1>7. FirstFrame = SubSeq(b, 1, n) /\ Rest = SubSeq(b, n + 1, Len(b))
  BY <1>1, <1>2 DEF FirstFrame, Rest
<1>8. RestOf(d) = SubSeq(d, n + 1, Len(d)) /\ SubSeq(d, 1, CompleteFrameLen(d)) = SubSeq(d, 1, n)
  BY <1>4 DEF RestOf
<1>9. /\ CompleteFrameLen(d) # 0 /\ SubSeq(d, 1, CompleteFrameLen(d)) = FirstFrame
      /\ RestOf(d) = Rest \o t
  <2>1. n # 0
    OBVIOUS
  <2> QED BY <1>4, <1>5, <1>6, <1>7, <1>8, <2>1
<1> QED BY <1>1, <1>2, <1>3, <1>4, <1>9

(* What the reference says of the buffer and any continuation, by what the *)
(* validator does with the first frame.                                    *)
LEMMA ReadingCut ==
  ASSUME TypeOK, CompleteFrameLen(buffer) > 0, NEW t \in Seq(Tokens),
         NEW v, v = InspectFrame(FirstFrame)
  PROVE  Reading[buffer \o t] =
           IF CompleteFrameLen(buffer) > MaxEventBytes \/ v.verdict = "reject" THEN NothingRead
           ELSE IF Ends(v) THEN ReadFirst(v, NothingRead)
           ELSE ReadFirst(v, Reading[Rest \o t])
<1>1. PICK d : d = buffer \o t
  OBVIOUS
<1>2. /\ d \in Seq(Tokens) /\ CompleteFrameLen(d) # 0
      /\ CompleteFrameLen(d) = CompleteFrameLen(buffer)
      /\ SubSeq(d, 1, CompleteFrameLen(d)) = FirstFrame /\ RestOf(d) = Rest \o t
  BY <1>1, CutStable
<1>3. Reading[d] = Turn(Reading, d)
  BY <1>2, ReadingTurn
<1>4. Turn(Reading, d) =
        IF CompleteFrameLen(buffer) > MaxEventBytes \/ v.verdict = "reject" THEN NothingRead
        ELSE IF Ends(v) THEN ReadFirst(v, NothingRead)
        ELSE ReadFirst(v, Reading[Rest \o t])
  BY <1>2 DEF Turn, RestOf
<1> QED BY <1>1, <1>3, <1>4

(* Metadata names none of the failures.                                    *)
LEMMA DroppedKind ==
  ASSUME NEW frame, InspectFrame(frame).verdict = "drop"
  PROVE  InspectFrame(frame).event.kind \notin FailureKinds \cup TerminalKinds
BY DEF InspectFrame, Drop, Keep, Reject, NullEvent, MetadataKinds, FailureKinds, TerminalKinds

LEMMA ForwardableCut ==
  ASSUME TypeOK, CompleteFrameLen(buffer) > 0, ~(CompleteFrameLen(buffer) > MaxEventBytes),
         NEW t \in Seq(Tokens), NEW v, v = InspectFrame(FirstFrame)
  PROVE  /\ v.verdict = "drop" => Forwardable(buffer \o t) = Forwardable(Rest \o t)
         /\ v.verdict = "keep" =>
              /\ v.event.kind \in FailureKinds => Forwardable(buffer \o t) = <<>>
              /\ v.event.kind \in TerminalKinds \ FailureKinds =>
                   Forwardable(buffer \o t) = <<RawFrame(v.event)>>
              /\ v.event.kind \notin TerminalKinds \cup FailureKinds =>
                   Forwardable(buffer \o t) = <<RawFrame(v.event)>> \o Forwardable(Rest \o t)
<1>1. Reading[buffer \o t] =
        IF v.verdict = "reject" THEN NothingRead
        ELSE IF Ends(v) THEN ReadFirst(v, NothingRead)
        ELSE ReadFirst(v, Reading[Rest \o t])
  BY ReadingCut
<1>2. NothingRead.frames = <<>> /\ <<RawFrame(v.event)>> \o <<>> = <<RawFrame(v.event)>>
  BY DEF NothingRead
<1>3. CASE v.verdict = "drop"
  <2>1. v.event.kind \notin FailureKinds \cup TerminalKinds
    BY <1>3, DroppedKind
  <2>2. Reading[buffer \o t] = ReadFirst(v, Reading[Rest \o t])
    BY <1>1, <1>3 DEF Ends
  <2> QED BY <1>3, <2>1, <2>2 DEF ReadFirst, Forwardable
<1>4. CASE v.verdict = "keep"
  <2>1. CASE v.event.kind \in FailureKinds \cup TerminalKinds
    <3>1. Reading[buffer \o t] = ReadFirst(v, NothingRead)
      BY <1>1, <1>4, <2>1 DEF Ends
    <3> QED BY <1>2, <1>4, <2>1, <3>1 DEF ReadFirst, Forwardable
  <2>2. CASE v.event.kind \notin FailureKinds \cup TerminalKinds
    <3>1. Reading[buffer \o t] = ReadFirst(v, Reading[Rest \o t])
      BY <1>1, <1>4, <2>2 DEF Ends
    <3> QED BY <1>4, <2>2, <3>1 DEF ReadFirst, Forwardable
  <2> QED BY <2>1, <2>2
<1> QED BY <1>3, <1>4

(* A frame within the limit is not over it.                                *)
LEMMA CutFits ==
  ASSUME TypeOK, CompleteFrameLen(buffer) <= MaxEventBytes
  PROVE  ~(CompleteFrameLen(buffer) > MaxEventBytes)
<1>1. CompleteFrameLen(buffer) \in 0..Len(buffer) /\ Len(buffer) \in Nat
  BY FrameLenType DEF CompleteFrameLen, TypeOK
<1> QED BY <1>1, ConstantsAssumption

(* Where no frame is complete, nothing more can be read.                   *)
LEMMA ReadingNone ==
  ASSUME NEW w \in Seq(Tokens), CompleteFrameLen(w) = 0
  PROVE  Reading[w] = NothingRead /\ Forwardable(w) = <<>>
<1>1. Reading[w] = Turn(Reading, w)
  BY ReadingTurn
<1> QED BY <1>1 DEF Turn, Forwardable, NothingRead

(* What the validator has produced is a sequence of frames.                *)
LEMMA OutType == TypeOK => Out \in Seq(Frames)
BY DEF TypeOK, Out

(* Before the stream is finished what was produced is a prefix of what the *)
(* body so far gives.                                                      *)
LEMMA ProducedPrefix ==
  ASSUME IInv, WireInv, ~finished
  PROVE  /\ Forwardable(wire) = Out \o Forwardable(buffer)
         /\ \A i \in DOMAIN Out : i \in DOMAIN Forwardable(wire) /\ Out[i] = Forwardable(wire)[i]
<1>1. <<>> \in Seq(Tokens) /\ wire \o <<>> = wire /\ buffer \o <<>> = buffer
  BY DEF IInv, TypeOK
<1>2. Forwardable(wire) = Out \o Forwardable(buffer)
  BY <1>1 DEF WireInv, Resumable
<1>3. PICK o \in Seq(Frames), r \in Seq(Frames) : o = Out /\ r = Forwardable(buffer)
  <2>1. Out \in Seq(Frames)
    BY DEF IInv, TypeOK, Out
  <2>2. Forwardable(buffer) \in Seq(Frames)
    BY ForwardableType DEF IInv, TypeOK
  <2> QED BY <2>1, <2>2
<1>4. \A i \in DOMAIN o : i \in DOMAIN (o \o r) /\ o[i] = (o \o r)[i]
  OBVIOUS
<1> QED BY <1>2, <1>3, <1>4

(* A frame pushed on the queue is the last of what was produced.           *)
LEMMA OutAppend ==
  ASSUME NEW p \in Seq(Frames), NEW q \in Seq(Frames), NEW f \in Frames
  PROVE  p \o Append(q, f) = Append(p \o q, f)
<1>1. Append(q, f) = q \o <<f>> /\ <<f>> \in Seq(Frames)
  BY AppendIsConcat
<1>2. p \o q \in Seq(Frames) /\ Append(p \o q, f) = (p \o q) \o <<f>>
  BY AppendIsConcat
<1>3. (p \o q) \o <<f>> = p \o (q \o <<f>>)
  BY <1>1, ConcatAssociative
<1> QED BY <1>1, <1>2, <1>3

(* The stream is finished by a frame that is not an upstream one.          *)
LEMMA FailureKeepsWire ==
  ASSUME IInv, WireInv, ~finished, NEW f \in Frames, f.origin # "upstream",
         pending' = Append(pending, f), finished', UNCHANGED <<sent, wire>>, pc' # "await"
  PROVE  WireInv'
<1>1. PICK o \in Seq(Frames) : o = Out
  BY OutType DEF IInv
<1>2. Out' = Append(o, f)
  BY <1>1, OutAppend DEF IInv, TypeOK, Out
<1>3. PICK F : F = Forwardable(wire) /\ Forwardable(wire') = F
  OBVIOUS
<1>4. \A i \in DOMAIN o : i \in DOMAIN F /\ o[i] = F[i]
  BY <1>1, <1>3, ProducedPrefix
<1>5. \A i \in DOMAIN Append(o, f) :
        \/ i \in DOMAIN o /\ Append(o, f)[i] = o[i]
        \/ Append(o, f)[i] = f
  OBVIOUS
<1>6. \A i \in DOMAIN Out' : Out'[i].origin = "upstream" => i \in DOMAIN F /\ Out'[i] = F[i]
  BY <1>2, <1>4, <1>5
<1> QED BY <1>3, <1>6 DEF WireInv, Resumable, Drained, ForwardedMatchesWire

(* A protocol failure (fail).                                              *)
LEMMA FailKeepsWire ==
  ASSUME IInv, WireInv, ~finished, NEW r \in Reasons, Fail(r), UNCHANGED <<sent, wire>>,
         pc' # "await"
  PROVE  WireInv'
<1>1. SaturatingAdd(lastSequence) \in 0..MaxSeq
  BY ConstantsAssumption DEF IInv, TypeOK, SaturatingAdd
<1>2. PICK f \in Frames : /\ f = FailureFrame(responseId, model, SaturatingAdd(lastSequence), r)
                         /\ f.origin # "upstream"
  BY <1>1, FailureFrameType DEF IInv, TypeOK, IdFields
<1>3. pending' = Append(pending, f) /\ finished'
  BY <1>2 DEF Fail
<1> QED BY <1>2, <1>3, FailureKeepsWire

(* What has been produced moves from the queue to the client, or stays.    *)
LEMMA QuietKeepsWire ==
  ASSUME WireInv, Out' = Out, UNCHANGED <<buffer, finished, wire>>, pc' = "await" => pc = "await"
  PROVE  WireInv'
<1>1. \A t \in Seq(Tokens) : Resumable(t)'
  BY DEF WireInv, Resumable
<1> QED BY <1>1 DEF WireInv, Drained, ForwardedMatchesWire

(* The next frame of the queue goes to the client.                         *)
LEMMA YieldKeepsWire ==
  ASSUME IInv, WireInv, Yield
  PROVE  WireInv'
<1>1. /\ sent' = Append(sent, Head(pending)) /\ pending' = Tail(pending) /\ pc' = "idle"
      /\ pending # <<>> /\ UNCHANGED <<buffer, finished, wire>>
  BY DEF Yield, validator
<1>2. PICK p \in Seq(Frames), q \in Seq(Frames) : p = sent /\ q = pending
  BY DEF IInv, TypeOK
<1>3. Append(p, Head(q)) \o Tail(q) = p \o q
  <2>1. Head(q) \in Frames /\ Tail(q) \in Seq(Frames) /\ <<Head(q)>> \in Seq(Frames)
        /\ <<Head(q)>> \o Tail(q) = q
    BY <1>1, <1>2
  <2>2. Append(p, Head(q)) = p \o <<Head(q)>>
    BY <2>1, AppendIsConcat
  <2>3. (p \o <<Head(q)>>) \o Tail(q) = p \o (<<Head(q)>> \o Tail(q))
    BY <2>1, ConcatAssociative
  <2> QED BY <2>1, <2>2, <2>3
<1>4. Out' = Out
  BY <1>1, <1>2, <1>3 DEF Out
<1> QED BY <1>1, <1>4, QuietKeepsWire

(* Metadata is dropped, by the validator as by the reference.              *)
LEMMA DropKeepsWire ==
  ASSUME IInv, WireInv, DrainDrop
  PROVE  WireInv'
<1>1. /\ CompleteFrameLen(buffer) > 0 /\ ~finished /\ pc' # "await"
      /\ ~(CompleteFrameLen(buffer) > MaxEventBytes)
      /\ InspectFrame(FirstFrame).verdict = "drop"
      /\ buffer' = Rest /\ UNCHANGED <<pc, pending, finished, sent, wire>>
  BY CutFits DEF IInv, DrainDrop, FrameReady
<1>2. Out' = Out
  BY <1>1 DEF Out
<1>3. ASSUME NEW t \in Seq(Tokens) PROVE Resumable(t)'
  <2>1. Forwardable(wire \o t) = Out \o Forwardable(buffer \o t)
    BY <1>1 DEF WireInv, Resumable
  <2>2. Forwardable(buffer \o t) = Forwardable(Rest \o t)
    BY <1>1, ForwardableCut DEF IInv
  <2> QED BY <1>1, <1>2, <2>1, <2>2 DEF Resumable
<1>4. ForwardedMatchesWire'
  BY <1>1, <1>2 DEF WireInv, ForwardedMatchesWire
<1> QED BY <1>1, <1>3, <1>4 DEF WireInv, Drained

(* A kept frame is forwarded, replaced or the last, by both.               *)
LEMMA KeepKeepsWire ==
  ASSUME IInv, WireInv, DrainKeep
  PROVE  WireInv'
<1>1. /\ CompleteFrameLen(buffer) > 0 /\ ~finished /\ TypeOK /\ pc' # "await"
      /\ ~(CompleteFrameLen(buffer) > MaxEventBytes)
      /\ InspectFrame(FirstFrame).verdict = "keep"
  BY CutFits DEF IInv, DrainKeep, FrameReady
<1>2. PICK e \in Events : /\ e = InspectFrame(FirstFrame).event
                         /\ e.seq \in 0..MaxSeq \cup {NoSeq}
  BY <1>1, CutType, InspectType DEF Verdicts
<1>3. /\ pending' = Append(pending, IF e.kind \in FailureKinds THEN Replacement(e) ELSE RawFrame(e))
      /\ finished' = (e.kind \in FailureKinds \cup TerminalKinds)
      /\ buffer' = IF finished' THEN <<>> ELSE Rest
      /\ UNCHANGED <<sent, wire>>
  BY <1>2 DEF DrainKeep
<1>4. CASE e.kind \in FailureKinds
  <2>1. Replacement(e) \in Frames /\ Replacement(e).origin # "upstream"
    BY <1>1, <1>2, ObservedType, FailureFrameType DEF Replacement, IdFields
  <2>2. pending' = Append(pending, Replacement(e)) /\ finished'
    BY <1>3, <1>4
  <2> QED BY <1>1, <1>3, <2>1, <2>2, FailureKeepsWire
<1>5. CASE e.kind \notin FailureKinds
  <2>1. PICK f \in Frames : f = RawFrame(e)
    BY <1>2, RawFrameType
  <2>2. PICK o \in Seq(Frames) : o = Out
    BY <1>1, OutType
  <2>3. Out' = o \o <<f>>
    <3>1. pending' = Append(pending, f)
      BY <1>3, <1>5, <2>1
    <3>2. Out' = Append(o, f)
      BY <1>3, <2>2, <3>1, OutAppend DEF TypeOK, Out
    <3> QED BY <3>2, AppendIsConcat
  <2>4. CASE e.kind \in TerminalKinds
    <3>1. Forwardable(buffer \o <<>>) = <<f>> /\ buffer \o <<>> = buffer
      <4>1. <<>> \in Seq(Tokens) /\ buffer \o <<>> = buffer
        BY <1>1 DEF TypeOK
      <4>2. e.kind \in TerminalKinds \ FailureKinds
        BY <1>5, <2>4
      <4> QED BY <1>1, <1>2, <2>1, <4>1, <4>2, ForwardableCut
    <3>2. Forwardable(wire) = o \o <<f>>
      BY <1>1, <2>2, <3>1, ProducedPrefix
    <3>3. finished' /\ wire' = wire
      BY <1>3, <2>4
    <3>4. Out' = Forwardable(wire')
      BY <2>3, <3>2, <3>3
    <3> QED BY <1>1, <3>3, <3>4 DEF WireInv, Resumable, Drained, ForwardedMatchesWire
  <2>5. CASE e.kind \notin TerminalKinds
    <3>1. buffer' = Rest /\ ~finished' /\ wire' = wire
      BY <1>3, <1>5, <2>5
    <3>2. ASSUME NEW t \in Seq(Tokens)
          PROVE  Forwardable(wire \o t) = (o \o <<f>>) \o Forwardable(Rest \o t)
      <4>1. Forwardable(wire \o t) = o \o Forwardable(buffer \o t)
        BY <1>1, <2>2 DEF WireInv, Resumable
      <4>2. Forwardable(buffer \o t) = <<f>> \o Forwardable(Rest \o t)
        <5>1. e.kind \notin TerminalKinds \cup FailureKinds
          BY <1>5, <2>5
        <5> QED BY <1>1, <1>2, <2>1, <5>1, ForwardableCut
      <4>3. PICK r \in Seq(Frames) : r = Forwardable(Rest \o t)
        <5>1. Rest \o t \in Seq(Tokens)
          BY <1>1, CutType
        <5> QED BY <5>1, ForwardableType
      <4>4. <<f>> \in Seq(Frames)
        OBVIOUS
      <4>5. (o \o <<f>>) \o r = o \o (<<f>> \o r)
        BY <4>4, ConcatAssociative
      <4> QED BY <4>1, <4>2, <4>3, <4>5
    <3>3. ASSUME NEW t \in Seq(Tokens) PROVE Resumable(t)'
      BY <2>3, <3>1, <3>2 DEF Resumable
    <3>4. PICK r \in Seq(Frames) : Forwardable(wire) = (o \o <<f>>) \o r
      <4>1. <<>> \in Seq(Tokens) /\ wire \o <<>> = wire
        BY <1>1 DEF TypeOK
      <4>2. Forwardable(Rest \o <<>>) \in Seq(Frames)
        <5>1. Rest \o <<>> \in Seq(Tokens)
          BY <1>1, CutType
        <5> QED BY <5>1, ForwardableType
      <4> QED BY <3>2, <4>1, <4>2
    <3>5. PICK p \in Seq(Frames) : p = o \o <<f>>
      <4>1. o \o <<f>> \in Seq(Frames)
        OBVIOUS
      <4> QED BY <4>1
    <3>6. \A i \in DOMAIN p : i \in DOMAIN (p \o r) /\ p[i] = (p \o r)[i]
      OBVIOUS
    <3>7. ForwardedMatchesWire'
      BY <1>1, <2>3, <3>1, <3>4, <3>5, <3>6 DEF ForwardedMatchesWire
    <3> QED BY <1>1, <3>3, <3>7 DEF WireInv, Drained
  <2> QED BY <2>4, <2>5
<1> QED BY <1>4, <1>5

(* A chunk continues the body as the invariant foresees.                   *)
LEMMA ChunkKeepsWire ==
  ASSUME IInv, WireInv, NEW c \in Chunks, ReceiveChunk(c)
  PROVE  WireInv'
<1>1. /\ c \in Seq(Tokens) /\ wire \in Seq(Tokens) /\ buffer \in Seq(Tokens)
      /\ Out' = Out /\ ~finished /\ ~finished' /\ pc = "await" /\ pc' # "await"
      /\ buffer' = buffer \o c /\ wire' = wire \o c
  BY ConstantsAssumption DEF IInv, TypeOK, Control, ReceiveChunk, Tokens, Out
<1>2. ASSUME NEW t \in Seq(Tokens)
      PROVE  Forwardable(wire' \o t) = Out \o Forwardable(buffer' \o t)
  <2>1. c \o t \in Seq(Tokens)
    BY <1>1
  <2>2. Forwardable(wire \o (c \o t)) = Out \o Forwardable(buffer \o (c \o t))
    BY <1>1, <2>1 DEF WireInv, Resumable
  <2>3. ASSUME NEW s \in Seq(Tokens) PROVE (s \o c) \o t = s \o (c \o t)
    <3>1. c \in Seq(Tokens)
      BY <1>1
    <3> QED BY <3>1, ConcatAssociative
  <2> QED BY <1>1, <2>2, <2>3
<1>3. ASSUME NEW t \in Seq(Tokens) PROVE Resumable(t)'
  BY <1>1, <1>2 DEF Resumable
<1>4. PICK o \in Seq(Frames), r \in Seq(Frames) : o = Out /\ Forwardable(wire') = o \o r
  <2>1. PICK b \in Seq(Tokens), w \in Seq(Tokens) : b = buffer' /\ w = wire'
    <3>1. ASSUME NEW s \in Seq(Tokens) PROVE s \o c \in Seq(Tokens)
      BY <1>1
    <3> QED BY <1>1, <3>1
  <2>2. <<>> \in Seq(Tokens) /\ b \o <<>> = b /\ w \o <<>> = w
    OBVIOUS
  <2>3. Forwardable(w) = Out \o Forwardable(b)
    BY <1>2, <2>1, <2>2
  <2>4. Out \in Seq(Frames)
    BY DEF IInv, TypeOK, Out
  <2>5. Forwardable(b) \in Seq(Frames)
    BY ForwardableType
  <2> QED BY <2>1, <2>3, <2>4, <2>5
<1>5. \A i \in DOMAIN o : i \in DOMAIN (o \o r) /\ o[i] = (o \o r)[i]
  OBVIOUS
<1>6. ForwardedMatchesWire'
  BY <1>1, <1>4, <1>5 DEF ForwardedMatchesWire
<1> QED BY <1>1, <1>3, <1>6 DEF WireInv, Drained

(* The drain ends with no complete frame left, or with frames to yield.    *)
LEMMA DoneKeepsWire ==
  ASSUME IInv, WireInv, DrainDone
  PROVE  WireInv'
<1>1. /\ Out' = Out /\ UNCHANGED <<buffer, finished, wire>>
      /\ pc' = IF pending # <<>> \/ finished THEN "top" ELSE "await"
  BY DEF DrainDone, validator, Out
<1>2. CASE pc' # "await"
  BY <1>1, <1>2, QuietKeepsWire
<1>3. CASE pc' = "await"
  <2>1. ~finished /\ CompleteFrameLen(buffer) = 0 /\ buffer \in Seq(Tokens)
    <3>1. ~finished /\ ~(CompleteFrameLen(buffer) > 0) /\ buffer \in Seq(Tokens)
      BY <1>1, <1>3 DEF DrainDone, FrameReady, IInv, TypeOK
    <3>2. CompleteFrameLen(buffer) \in 0..Len(buffer)
      BY <3>1, FrameLenType DEF CompleteFrameLen
    <3> QED BY <3>1, <3>2
  <2>2. Out \in Seq(Frames) /\ Forwardable(buffer) = <<>>
    BY <2>1, ReadingNone DEF IInv, TypeOK, Out
  <2>3. Forwardable(wire) = Out
    <3>1. Forwardable(wire) = Out \o <<>>
      BY <2>1, <2>2, ProducedPrefix
    <3> QED BY <2>2, <3>1
  <2>4. ForwardedMatchesWire'
    BY <1>1, <2>3 DEF ForwardedMatchesWire
  <2>5. \A t \in Seq(Tokens) : Resumable(t)'
    BY <1>1 DEF WireInv, Resumable
  <2> QED BY <1>1, <2>1, <2>4, <2>5 DEF WireInv, Drained
<1> QED BY <1>2, <1>3

(* Every step keeps what was forwarded in step with the wire.              *)
LEMMA StepKeepsWire ==
  ASSUME IInv, WireInv, [Next]_vars
  PROVE  WireInv'
<1>1. CASE Yield
  BY <1>1, YieldKeepsWire
<1>2. CASE End \/ StartDrain \/ Cancel
  <2>1. Out' = Out /\ UNCHANGED <<buffer, finished, wire>> /\ pc' # "await"
    BY <1>2 DEF End, StartDrain, Cancel, validator, Out
  <2> QED BY <2>1, QuietKeepsWire
<1>3. CASE DrainOversized
  BY <1>3, FailKeepsWire DEF DrainOversized, FrameReady, Reasons
<1>4. CASE DrainReject
  BY <1>4, FailKeepsWire DEF DrainReject, FrameReady, Reasons
<1>5. CASE DrainDrop
  BY <1>5, DropKeepsWire
<1>6. CASE DrainKeep
  BY <1>6, KeepKeepsWire
<1>7. CASE DrainDone
  BY <1>7, DoneKeepsWire
<1>8. CASE ChunkDone
  <2>1. CASE ~finished /\ Len(buffer) > MaxEventBytes
    BY <1>8, <2>1, FailKeepsWire DEF ChunkDone, Reasons
  <2>2. CASE ~(~finished /\ Len(buffer) > MaxEventBytes)
    <3>1. Out' = Out /\ UNCHANGED <<buffer, finished, wire>> /\ pc' # "await"
      BY <1>8, <2>2 DEF ChunkDone, validator, Out
    <3> QED BY <3>1, QuietKeepsWire
  <2> QED BY <2>1, <2>2
<1>9. ASSUME NEW c \in Chunks, ReceiveChunk(c) PROVE WireInv'
  BY <1>9, ChunkKeepsWire
<1>10. CASE BodyError \/ BodyEnd \/ IdleTimeout
  <2>1. ~finished /\ pc' # "await" /\ UNCHANGED <<sent, wire>>
    BY <1>10 DEF IInv, Control, BodyError, BodyEnd, IdleTimeout
  <2>2. PICK r \in Reasons : Fail(r)
    BY <1>10 DEF BodyError, BodyEnd, IdleTimeout, Reasons
  <2> QED BY <2>1, <2>2, FailKeepsWire
<1>11. CASE UNCHANGED vars
  <2>1. Out' = Out /\ UNCHANGED <<buffer, finished, wire, pc>>
    BY <1>11 DEF vars, Out
  <2> QED BY <2>1, QuietKeepsWire
<1> QED
  BY <1>1, <1>2, <1>3, <1>4, <1>5, <1>6, <1>7, <1>8, <1>9, <1>10, <1>11
  DEF Next, Step, Upstream, Stopped

(* It starts in step.                                                      *)
LEMMA InitWire == Init => WireInv
<1> SUFFICES ASSUME Init PROVE WireInv
  OBVIOUS
<1>1. Out = <<>> /\ wire = <<>> /\ buffer = <<>> /\ pc # "await"
  BY DEF Init, Out
<1>2. ASSUME NEW t \in Seq(Tokens) PROVE Resumable(t)
  <2>1. <<>> \o t = t /\ Forwardable(t) \in Seq(Frames)
    BY ForwardableType
  <2>2. <<>> \o Forwardable(t) = Forwardable(t)
    BY <2>1
  <2> QED BY <1>1, <2>1, <2>2 DEF Resumable
<1> QED BY <1>1, <1>2 DEF WireInv, Drained, ForwardedMatchesWire

(* What the client gets depends on the bytes of the body, not on how they  *)
(* were split into chunks, for wires and chunks of every length: the       *)
(* upstream frames passed on are the first of those the whole body gives,  *)
(* and all of them whenever the validator waits for more.                  *)
THEOREM ForwardsWire == Spec => []ForwardedMatchesWire
<1>1. IInv /\ WireInv /\ [Next]_vars => WireInv'
  BY StepKeepsWire
<1>2. WireInv => ForwardedMatchesWire
  BY DEF WireInv
<1> QED BY Invariance, InitWire, <1>1, <1>2, PTL DEF Spec
-----------------------------------------------------------------------------
(* The identity.  Observing an event is taking the later of what was known *)
(* and what the event says, and taking the later is associative.           *)
LEMMA ObservedLater ==
  ASSUME NEW old, NEW first, NEW second, Absent \notin Ids
  PROVE  /\ Observed(old, first, second) = LaterOf(old, Usable(first, second))
         /\ \A new : LaterOf(old, LaterOf(first, new)) = LaterOf(LaterOf(old, first), new)
         /\ LaterOf(old, Absent) = old
BY DEF Observed, LaterOf, Usable, Safe

(* Before the stream is finished, the identity known is that of the wire   *)
(* up to the buffer.                                                       *)
LEMMA IdentityNow ==
  ASSUME IInv, IdentityInv, ~finished
  PROVE  /\ Reading[wire].id = LaterOf(responseId, Reading[buffer].id)
         /\ Reading[wire].model = LaterOf(model, Reading[buffer].model)
<1>1. <<>> \in Seq(Tokens) /\ wire \o <<>> = wire /\ buffer \o <<>> = buffer
  BY DEF IInv, TypeOK
<1> QED BY <1>1 DEF IdentityInv, IdentityResumable

(* A protocol failure settles the identity: nothing is left to be read.    *)
LEMMA FailSettles ==
  ASSUME IInv, IdentityInv, ~finished, NEW r, Fail(r), wire' = wire,
         Reading[buffer] = NothingRead
  PROVE  IdentityInv'
<1>1. finished' /\ responseId' = responseId /\ model' = model
  BY DEF Fail
<1>2. Reading[wire].id = responseId /\ Reading[wire].model = model
  <2>1. NothingRead.id = Absent /\ NothingRead.model = Absent
    BY DEF NothingRead
  <2>2. Reading[wire].id = LaterOf(responseId, Absent) /\ Reading[wire].model = LaterOf(model, Absent)
    BY <2>1, IdentityNow
  <2> QED BY <2>2 DEF LaterOf
<1> QED BY <1>1, <1>2 DEF IdentityInv, IdentityResumable, IdentitySettled

(* A frame that is read: its identity is observed, before what follows.    *)
LEMMA FrameObserved ==
  ASSUME IInv, IdentityInv, ~finished, CompleteFrameLen(buffer) > 0,
         ~(CompleteFrameLen(buffer) > MaxEventBytes), wire' = wire,
         NEW v, v = InspectFrame(FirstFrame), v.verdict # "reject", Observe(v.event),
         finished' = Ends(v), ~finished' => buffer' = Rest
  PROVE  IdentityInv'
<1>1. /\ responseId' = LaterOf(responseId, Usable(v.event.respId, v.event.topId))
      /\ model' = LaterOf(model, Usable(v.event.respModel, v.event.headerModel))
  BY ObservedLater, ConstantsAssumption DEF Observe
<1>2. ASSUME NEW r
      PROVE  /\ LaterOf(responseId, ReadFirst(v, r).id) = LaterOf(responseId', r.id)
             /\ LaterOf(model, ReadFirst(v, r).model) = LaterOf(model', r.model)
  <2>1. /\ ReadFirst(v, r).id = LaterOf(Usable(v.event.respId, v.event.topId), r.id)
        /\ ReadFirst(v, r).model = LaterOf(Usable(v.event.respModel, v.event.headerModel), r.model)
    BY DEF ReadFirst
  <2> QED BY <1>1, <2>1 DEF LaterOf
<1>3. ASSUME NEW t \in Seq(Tokens)
      PROVE  Reading[buffer \o t] = IF Ends(v) THEN ReadFirst(v, NothingRead)
                                    ELSE ReadFirst(v, Reading[Rest \o t])
  BY ReadingCut DEF IInv
<1>4. ASSUME NEW t \in Seq(Tokens)
      PROVE  /\ Reading[wire \o t].id = LaterOf(responseId, Reading[buffer \o t].id)
             /\ Reading[wire \o t].model = LaterOf(model, Reading[buffer \o t].model)
  BY <1>4 DEF IdentityInv, IdentityResumable
<1>5. CASE Ends(v)
  <2>1. finished' /\ <<>> \in Seq(Tokens) /\ wire \o <<>> = wire
    BY <1>5 DEF IInv, TypeOK
  <2>2. /\ Reading[wire].id = LaterOf(responseId', Absent)
        /\ Reading[wire].model = LaterOf(model', Absent)
    <3>1. NothingRead.id = Absent /\ NothingRead.model = Absent
      BY DEF NothingRead
    <3>2. Reading[buffer \o <<>>] = ReadFirst(v, NothingRead)
      BY <1>3, <1>5, <2>1
    <3>3. /\ Reading[wire].id = LaterOf(responseId, Reading[buffer \o <<>>].id)
          /\ Reading[wire].model = LaterOf(model, Reading[buffer \o <<>>].model)
      BY <1>4, <2>1
    <3> QED BY <1>2, <3>1, <3>2, <3>3
  <2> QED BY <2>1, <2>2, ObservedLater, ConstantsAssumption
          DEF IdentityInv, IdentityResumable, IdentitySettled
<1>6. CASE ~Ends(v)
  <2>1. ~finished' /\ buffer' = Rest
    BY <1>6
  <2>2. ASSUME NEW t \in Seq(Tokens)
        PROVE  /\ Reading[wire \o t].id = LaterOf(responseId', Reading[Rest \o t].id)
               /\ Reading[wire \o t].model = LaterOf(model', Reading[Rest \o t].model)
    BY <1>2, <1>3, <1>4, <1>6, <2>2
  <2> QED BY <2>1, <2>2 DEF IdentityInv, IdentityResumable, IdentitySettled
<1> QED BY <1>5, <1>6

(* A chunk continues the body as the invariant foresees.                   *)
LEMMA ChunkKeepsIdentity ==
  ASSUME IInv, IdentityInv, NEW c \in Chunks, ReceiveChunk(c)
  PROVE  IdentityInv'
<1>1. /\ c \in Seq(Tokens) /\ wire \in Seq(Tokens) /\ buffer \in Seq(Tokens)
      /\ ~finished /\ ~finished' /\ responseId' = responseId /\ model' = model
      /\ buffer' = buffer \o c /\ wire' = wire \o c
  BY ConstantsAssumption DEF IInv, TypeOK, Control, ReceiveChunk, Tokens
<1>2. ASSUME NEW t \in Seq(Tokens) PROVE IdentityResumable(t)'
  <2>1. c \o t \in Seq(Tokens)
    BY <1>1
  <2>2. ASSUME NEW s \in Seq(Tokens) PROVE (s \o c) \o t = s \o (c \o t)
    <3>1. c \in Seq(Tokens)
      BY <1>1
    <3> QED BY <3>1, ConcatAssociative
  <2>3. wire' \o t = wire \o (c \o t) /\ buffer' \o t = buffer \o (c \o t)
    BY <1>1, <2>2
  <2>4. /\ Reading[wire \o (c \o t)].id = LaterOf(responseId, Reading[buffer \o (c \o t)].id)
        /\ Reading[wire \o (c \o t)].model = LaterOf(model, Reading[buffer \o (c \o t)].model)
    BY <1>1, <2>1 DEF IdentityInv, IdentityResumable
  <2> QED BY <1>1, <2>3, <2>4 DEF IdentityResumable
<1> QED BY <1>1, <1>2 DEF IdentityInv, IdentitySettled

(* Every step keeps the identity in step with the wire.                    *)
LEMMA StepKeepsIdentity ==
  ASSUME IInv, WireInv, IdentityInv, [Next]_vars
  PROVE  IdentityInv'
<1>0. buffer \in Seq(Tokens) /\ TypeOK
  BY DEF IInv, TypeOK
<1>1. CASE UNCHANGED <<validator, wire>>
  <2>1. ASSUME NEW t \in Seq(Tokens) PROVE IdentityResumable(t)'
    BY <1>1 DEF IdentityInv, IdentityResumable, validator
  <2> QED BY <1>1, <2>1 DEF IdentityInv, IdentitySettled, validator
<1>2. CASE DrainOversized \/ DrainReject
  <2>1. /\ ~finished /\ CompleteFrameLen(buffer) > 0 /\ wire' = wire
        /\ \/ CompleteFrameLen(buffer) > MaxEventBytes
           \/ InspectFrame(FirstFrame).verdict = "reject"
    BY <1>2 DEF DrainOversized, DrainReject, FrameReady
  <2>2. PICK r : Fail(r)
    BY <1>2 DEF DrainOversized, DrainReject
  <2>3. <<>> \in Seq(Tokens) /\ buffer \o <<>> = buffer
    BY <1>0
  <2>4. Reading[buffer] = NothingRead
    BY <1>0, <2>1, <2>3, ReadingCut
  <2> QED BY <2>1, <2>2, <2>4, FailSettles
<1>3. CASE DrainDrop
  <2>1. PICK v : v = InspectFrame(FirstFrame)
    OBVIOUS
  <2>2. /\ ~finished /\ CompleteFrameLen(buffer) > 0 /\ wire' = wire /\ v.verdict = "drop"
        /\ ~(CompleteFrameLen(buffer) > MaxEventBytes)
        /\ Observe(v.event) /\ buffer' = Rest /\ finished' = FALSE
    BY <1>0, <1>3, <2>1, CutFits DEF DrainDrop, FrameReady, IInv, TypeOK
  <2>3. finished' = Ends(v) /\ v.verdict # "reject"
    BY <2>2 DEF Ends
  <2> QED BY <2>1, <2>2, <2>3, FrameObserved
<1>4. CASE DrainKeep
  <2>1. PICK v : v = InspectFrame(FirstFrame)
    OBVIOUS
  <2>2. /\ ~finished /\ CompleteFrameLen(buffer) > 0 /\ wire' = wire /\ v.verdict = "keep"
        /\ ~(CompleteFrameLen(buffer) > MaxEventBytes)
        /\ Observe(v.event)
        /\ finished' = (v.event.kind \in FailureKinds \cup TerminalKinds)
        /\ buffer' = IF finished' THEN <<>> ELSE Rest
    BY <1>0, <1>4, <2>1, CutFits DEF DrainKeep, FrameReady
  <2>3. finished' = Ends(v) /\ v.verdict # "reject"
    BY <2>2 DEF Ends
  <2> QED BY <2>1, <2>2, <2>3, FrameObserved
<1>5. CASE ChunkDone
  <2>1. CASE ~finished /\ Len(buffer) > MaxEventBytes
    <3>1. ~(CompleteFrameLen(buffer) > 0) /\ Fail("oversized") /\ wire' = wire
      BY <1>5, <2>1 DEF ChunkDone, FrameReady
    <3>2. CompleteFrameLen(buffer) \in 0..Len(buffer)
      BY <1>0, FrameLenType DEF CompleteFrameLen
    <3>3. CompleteFrameLen(buffer) = 0
      BY <3>1, <3>2
    <3> QED BY <1>0, <2>1, <3>1, <3>3, ReadingNone, FailSettles
  <2>2. CASE ~(~finished /\ Len(buffer) > MaxEventBytes)
    BY <1>1, <1>5, <2>2 DEF ChunkDone
  <2> QED BY <2>1, <2>2
<1>6. ASSUME NEW c \in Chunks, ReceiveChunk(c) PROVE IdentityInv'
  BY <1>6, ChunkKeepsIdentity
<1>7. CASE BodyError \/ BodyEnd \/ IdleTimeout
  <2>1. ~finished /\ pc = "await" /\ wire' = wire
    BY <1>7 DEF IInv, Control, BodyError, BodyEnd, IdleTimeout
  <2>2. PICK r : Fail(r)
    BY <1>7 DEF BodyError, BodyEnd, IdleTimeout
  <2>3. Reading[buffer] = NothingRead
    BY <1>0, <2>1, ReadingNone DEF WireInv, Drained
  <2> QED BY <2>1, <2>2, <2>3, FailSettles
<1>8. CASE Yield \/ End \/ StartDrain \/ DrainDone \/ Cancel \/ UNCHANGED vars
  BY <1>1, <1>8 DEF Yield, End, StartDrain, DrainDone, Cancel, vars, validator
<1> QED
  BY <1>2, <1>3, <1>4, <1>5, <1>6, <1>7, <1>8 DEF Next, Step, Upstream, Stopped

(* A failure carries the last usable identity of the whole body before it, *)
(* for bodies and chunks of every length: one that comes with a later      *)
(* chunk, or without an identity of its own, never costs the client the    *)
(* one that was known.                                                     *)
THEOREM FailureIdentified == Spec => []FailureIdentity
<1>1. Init => IdentityInv
  <2> SUFFICES ASSUME Init PROVE IdentityInv
    OBVIOUS
  <2>1. ~finished /\ wire = <<>> /\ buffer = <<>> /\ responseId = Absent /\ model = Absent
    BY DEF Init
  <2>2. ASSUME NEW x PROVE LaterOf(Absent, x) = x
    BY DEF LaterOf
  <2> QED BY <2>1, <2>2 DEF IdentityInv, IdentityResumable, IdentitySettled
<1>2. IInv /\ WireInv /\ IdentityInv /\ [Next]_vars => IdentityInv'
  BY StepKeepsIdentity
<1>3. IInv /\ WireInv /\ [Next]_vars => WireInv'
  BY StepKeepsWire
<1>4. ASSUME IInv, IdentityInv PROVE FailureIdentity
  <2> SUFFICES ASSUME NEW i \in DOMAIN Out, Out[i].origin # "upstream"
               PROVE  /\ Out[i].id = LaterOf(DefaultId, Reading[wire].id)
                      /\ Out[i].model = LaterOf(DefaultModel, Reading[wire].model)
    BY DEF FailureIdentity
  <2>1. /\ finished
        /\ Out[i].id = LaterOf(DefaultId, responseId)
        /\ Out[i].model = LaterOf(DefaultModel, model)
    BY <1>4, OutAccounted DEF Accounted
  <2> QED BY <1>4, <2>1 DEF IdentityInv, IdentitySettled
<1> QED BY Invariance, InitWire, <1>1, <1>2, <1>3, <1>4, PTL DEF Spec
=============================================================================
