---------------------------- MODULE SseValidator ----------------------------
(***************************************************************************)
(* The gateway's validator of an upstream Responses stream                 *)
(* (crates/muse-codex-gateway/src/sse.rs).                                 *)
(*                                                                         *)
(* Three actors: the upstream body, which delivers chunks that may split a *)
(* frame anywhere, fails, ends or falls silent; the validator, a stream    *)
(* whose poll function scans, inspects and re-emits frames; and the client *)
(* connection, which polls the stream and may drop it.  The poll function  *)
(* suspends only while it waits for the body, and the stream is also idle  *)
(* between two polls: those are the points ("await", "idle") where the     *)
(* client can drop it.                                                     *)
(*                                                                         *)
(* The wire is a sequence of tokens: LF, CR, or a whole line of text.  A   *)
(* token is the unit in which MaxEventBytes is counted.  What a line says  *)
(* is given by the constant Parse; the line breaks are scanned for real.   *)
(***************************************************************************)
EXTENDS FrameScan, ResponsesEvents, Integers, Sequences

CONSTANTS
  Lines,          \* line tokens
  Parse,          \* what inspect_frame reads on each line
  Chunks,         \* what one body.next() may deliver
  MaxEventBytes,  \* MAX_EVENT_BYTES, in tokens
  MaxWire         \* bound: tokens the upstream sends in one response

DefaultId == "resp_muse_codex_protocol_error"
DefaultModel == "muse-codex"

(* A line: a comment, id, retry or unknown field ("ignored"), an event     *)
(* name, a data line, or bytes that are not UTF-8.                         *)
LineContents == [field : {"ignored", "event", "data", "binary"},
                 name : Kinds \cup {"message"}, event : Events]

ASSUME ConstantsAssumption ==
  /\ LF \notin Lines /\ CR \notin Lines
  /\ Parse \in [Lines -> LineContents]
  /\ Chunks \subseteq Seq(Lines \cup {LF, CR})
  /\ Absent \notin Ids /\ Unsafe \notin Ids
  /\ MaxEventBytes \in Nat /\ MaxSeq \in Nat /\ MaxWire \in Nat

VARIABLES
  pc,            \* "idle" | "top" | "drain" | "await" | "received" | "ended" | "cancelled"
  buffer,        \* State.buffer
  pending,       \* State.pending
  finished,      \* State.finished
  responseId,    \* State.response_id
  model,         \* State.model
  lastSequence,  \* State.last_sequence
  sent,          \* history: frames the client has been given
  wire           \* history: everything the body has delivered

vars == <<pc, buffer, pending, finished, responseId, model, lastSequence, sent, wire>>
-----------------------------------------------------------------------------
Tokens == Lines \cup {LF, CR}

(* Why a protocol failure ended the stream.                                *)
Reasons == {"oversized", "rejected", "interrupted", "ended", "incomplete", "idle"}

(* A frame given to the client: an upstream frame byte for byte, or a      *)
(* synthesized response.failed, in place of a failure the provider         *)
(* reported or for a protocol failure.                                     *)
Frames == [kind : Kinds, seq : 0..MaxSeq \cup {NoSeq},
           id : IdFields \cup {DefaultId}, model : IdFields \cup {DefaultModel},
           origin : {"upstream", "provider"} \cup Reasons]

IsTerminal(f) == f.kind \in TerminalKinds

-----------------------------------------------------------------------------
(* inspect_frame                                                           *)

NullEvent == [kind |-> "plain", seq |-> NoSeq, respId |-> Absent, topId |-> Absent,
              respModel |-> Absent, headerModel |-> Absent, shaped |-> TRUE]

LinesOf(frame) == {i \in DOMAIN frame : frame[i] \in Lines}
FieldLines(frame, field) == {i \in LinesOf(frame) : Parse[frame[i]].field = field}

(* The last event: line names the frame; "message" names any kind.         *)
NameMatches(frame, kind) ==
  \A i \in FieldLines(frame, "event") :
    \/ \E j \in FieldLines(frame, "event") : j > i
    \/ Parse[frame[i]].name \in {"message", kind}

Reject == [verdict |-> "reject", event |-> NullEvent]
Drop(e) == [verdict |-> "drop", event |-> e]
Keep(e) == [verdict |-> "keep", event |-> e]

(* Two data lines join into one payload of two JSON documents, which       *)
(* serde_json refuses; a document written over several lines is one token. *)
InspectFrame(frame) ==
  LET data == FieldLines(frame, "data") IN
  IF FieldLines(frame, "binary") # {} THEN Reject
  ELSE IF data = {}
  THEN IF FieldLines(frame, "event") = {} THEN Drop(NullEvent) ELSE Reject
  ELSE LET e == Parse[frame[CHOOSE i \in data : TRUE]].event IN
       IF (\E i, j \in data : i # j) \/ ~NameMatches(frame, e.kind) \/ ~ValidEvent(e)
       THEN Reject
       ELSE IF e.kind \in MetadataKinds THEN Drop(e) ELSE Keep(e)
-----------------------------------------------------------------------------
(* observe: a later source of the same field overrides an earlier one.     *)

(* Mutants of this module are named ..._Mutant: a plausible slip in the    *)
(* definition that follows, with the property it would break.              *)
ObservedSeq_Mutant(e) == IF e.seq # NoSeq THEN e.seq ELSE lastSequence  \* FailureSequence
ObservedSeq(e) == IF e.seq > lastSequence THEN e.seq ELSE lastSequence
Observed_Mutant(old, first, second) == IF Safe(second) THEN second ELSE first  \* FailureIdentity
Observed(old, first, second) ==
  IF Safe(second) THEN second ELSE IF Safe(first) THEN first ELSE old

Observe(e) ==
  /\ lastSequence' = ObservedSeq(e)
  /\ responseId' = Observed(responseId, e.respId, e.topId)
  /\ model' = Observed(model, e.respModel, e.headerModel)

RawFrame(e) ==
  [kind |-> e.kind, seq |-> e.seq, id |-> e.respId, model |-> e.respModel,
   origin |-> "upstream"]

FailureFrame(id, m, seq, origin) ==
  [kind |-> "failed", seq |-> seq,
   id |-> IF Safe(id) THEN id ELSE DefaultId,
   model |-> IF Safe(m) THEN m ELSE DefaultModel,
   origin |-> origin]

SaturatingAdd_Mutant(n) == n + 1  \* TypeOK
SaturatingAdd(n) == IF n < MaxSeq THEN n + 1 ELSE MaxSeq

(* fail: a protocol failure ends the stream, unless it already ended.      *)
Fail(reason) ==
  /\ IF finished
     THEN UNCHANGED <<pending, finished, buffer>>
     ELSE /\ pending' = Append(pending,
               FailureFrame(responseId, model, SaturatingAdd(lastSequence), reason))
          /\ finished' = TRUE
          /\ buffer' = <<>>
  /\ UNCHANGED <<responseId, model, lastSequence>>

-----------------------------------------------------------------------------
Init ==
  /\ pc = "idle"
  /\ buffer = <<>> /\ pending = <<>> /\ finished = FALSE
  /\ responseId = Absent /\ model = Absent /\ lastSequence = 0
  /\ sent = <<>> /\ wire = <<>>

validator == <<buffer, finished, responseId, model, lastSequence>>

(* The client polls and a frame is ready: pop_front and return it.         *)
Yield ==
  /\ pc \in {"idle", "top"} /\ pending # <<>>
  /\ sent' = Append(sent, Head(pending))
  /\ pending' = Tail(pending)
  /\ pc' = "idle"
  /\ UNCHANGED <<validator, wire>>

End_Mutant ==  \* KeepsPromise: `finished` is tested before the queue
  /\ pc \in {"idle", "top"} /\ finished
  /\ pc' = "ended"
  /\ UNCHANGED <<validator, pending, sent, wire>>

(* The client polls a finished stream: the poll returns None.              *)
End ==
  /\ pc \in {"idle", "top"} /\ pending = <<>> /\ finished
  /\ pc' = "ended"
  /\ UNCHANGED <<validator, pending, sent, wire>>

StartDrain ==
  /\ pc \in {"idle", "top"} /\ pending = <<>> /\ ~finished
  /\ pc' = "drain"
  /\ UNCHANGED <<validator, pending, sent, wire>>

(* One turn of the loop of drain_complete_frames.                          *)
FrameReady == ~finished /\ CompleteFrameLen(buffer) > 0

DrainOversized ==
  /\ pc \in {"drain", "received"} /\ FrameReady
  /\ CompleteFrameLen(buffer) > MaxEventBytes
  /\ Fail("oversized")
  /\ UNCHANGED <<pc, sent, wire>>

FirstFrame == SubSeq(buffer, 1, CompleteFrameLen(buffer))
Rest_Mutant == <<>>  \* ForwardedMatchesWire: what follows a frame is thrown away
Rest == SubSeq(buffer, CompleteFrameLen(buffer) + 1, Len(buffer))

DrainReject ==
  /\ pc \in {"drain", "received"} /\ FrameReady
  /\ CompleteFrameLen(buffer) <= MaxEventBytes
  /\ InspectFrame(FirstFrame).verdict = "reject"
  /\ Fail("rejected")
  /\ UNCHANGED <<pc, sent, wire>>

DrainDrop ==
  /\ pc \in {"drain", "received"} /\ FrameReady
  /\ CompleteFrameLen(buffer) <= MaxEventBytes
  /\ InspectFrame(FirstFrame).verdict = "drop"
  /\ Observe(InspectFrame(FirstFrame).event)
  /\ buffer' = Rest
  /\ UNCHANGED <<pc, pending, finished, sent, wire>>

(* A failure the provider reports is replaced by a static one, under the   *)
(* identity and sequence number observed so far, its own included.         *)
Replacement(e) ==
  FailureFrame(Observed(responseId, e.respId, e.topId),
               Observed(model, e.respModel, e.headerModel),
               ObservedSeq(e), "provider")

DrainKeep ==
  /\ pc \in {"drain", "received"} /\ FrameReady
  /\ CompleteFrameLen(buffer) <= MaxEventBytes
  /\ InspectFrame(FirstFrame).verdict = "keep"
  /\ LET e == InspectFrame(FirstFrame).event IN
       /\ Observe(e)
       /\ pending' = Append(pending, IF e.kind \in FailureKinds THEN Replacement(e) ELSE RawFrame(e))
       /\ finished' = (e.kind \in FailureKinds \cup TerminalKinds)
       /\ buffer' = IF finished' THEN <<>> ELSE Rest
  /\ UNCHANGED <<pc, sent, wire>>

(* The drain of a poll is over: return a frame, end, or wait for the body. *)
DrainDone ==
  /\ pc = "drain" /\ ~FrameReady
  /\ pc' = IF pending # <<>> \/ finished THEN "top" ELSE "await"
  /\ UNCHANGED <<validator, pending, sent, wire>>

(* body.next() under the idle timeout: its four outcomes.                  *)
ReceiveChunk(c) ==
  /\ pc = "await"
  /\ Len(wire) + Len(c) <= MaxWire
  /\ buffer' = buffer \o c
  /\ wire' = wire \o c
  /\ pc' = "received"
  /\ UNCHANGED <<pending, finished, responseId, model, lastSequence, sent>>

BodyError ==
  /\ pc = "await"
  /\ Fail("interrupted")
  /\ pc' = "top"
  /\ UNCHANGED <<sent, wire>>

BodyEnd ==
  /\ pc = "await"
  /\ Fail(IF \A i \in DOMAIN buffer : buffer[i] \in {LF, CR}
          THEN "ended" ELSE "incomplete")
  /\ pc' = "top"
  /\ UNCHANGED <<sent, wire>>

IdleTimeout_Mutant ==  \* Terminates: no timeout once part of a frame is buffered
  /\ pc = "await" /\ buffer = <<>>
  /\ Fail("idle")
  /\ pc' = "top"
  /\ UNCHANGED <<sent, wire>>

IdleTimeout ==
  /\ pc = "await"
  /\ Fail("idle")
  /\ pc' = "top"
  /\ UNCHANGED <<sent, wire>>

(* The drain after a chunk is over: what is left must be within the limit. *)
ChunkDone ==
  /\ pc = "received" /\ ~FrameReady
  /\ pc' = "top"
  /\ IF ~finished /\ Len(buffer) > MaxEventBytes
     THEN Fail("oversized")
     ELSE UNCHANGED <<validator, pending>>
  /\ UNCHANGED <<sent, wire>>

(* The client goes away: the stream, and the upstream body in it, drop.    *)
Cancel ==
  /\ pc \in {"idle", "await"}
  /\ pc' = "cancelled"
  /\ UNCHANGED <<validator, pending, sent, wire>>

Stopped ==
  /\ pc \in {"ended", "cancelled"}
  /\ UNCHANGED vars

Step ==
  \/ Yield \/ End \/ StartDrain
  \/ DrainOversized \/ DrainReject \/ DrainDrop \/ DrainKeep \/ DrainDone
  \/ ChunkDone

Upstream == (\E c \in Chunks : ReceiveChunk(c)) \/ BodyError \/ BodyEnd

Next == Step \/ Upstream \/ IdleTimeout \/ Cancel \/ Stopped

Spec == Init /\ [][Next]_vars

(* The runtime keeps running a task that is ready and the connection keeps *)
(* polling until it is dropped; the timer fires if the body stays silent.  *)
(* The upstream owes nothing.                                              *)
FairSpec == Spec /\ WF_vars(Step) /\ WF_vars(IdleTimeout)
-----------------------------------------------------------------------------
TypeOK ==
  /\ pc \in {"idle", "top", "drain", "await", "received", "ended", "cancelled"}
  /\ buffer \in Seq(Tokens)
  /\ wire \in Seq(Tokens)
  /\ pending \in Seq(Frames)
  /\ sent \in Seq(Frames)
  /\ finished \in BOOLEAN
  /\ responseId \in Ids \cup {Absent}
  /\ model \in Ids \cup {Absent}
  /\ lastSequence \in 0..MaxSeq

(* Everything the validator has produced, delivered or not.                *)
Out == sent \o pending

(* The client sees at most one terminal event and nothing after it, and    *)
(* a stream that is finished has one: the frame that set `finished` is the *)
(* last ever pushed, whatever else the same chunk or a later one holds.    *)
TerminalLast ==
  /\ \A i \in DOMAIN sent :
       IsTerminal(sent[i]) => finished /\ i = Len(sent) /\ pending = <<>>
  /\ \A i \in DOMAIN pending :
       IsTerminal(pending[i]) => finished /\ i = Len(pending)
  /\ finished => \/ pending # <<>> /\ IsTerminal(pending[Len(pending)])
                 \/ pending = <<>> /\ sent # <<>> /\ IsTerminal(sent[Len(sent)])

(* The stream never just ends: when the poll function returns None the     *)
(* last frame the client was given is terminal.  (Stock Muse retries a     *)
(* bare end of stream even after observable output.)                       *)
NoBareEof ==
  pc = "ended" => sent # <<>> /\ IsTerminal(sent[Len(sent)])

(* The sequence number of the failure the client gets is at least that of  *)
(* every upstream frame it got, and larger for a protocol failure unless   *)
(* the counter is saturated: a failure never appears to precede output.    *)
FailureSequence ==
  \A i \in DOMAIN Out, j \in DOMAIN Out :
    Out[i].origin = "upstream" /\ Out[j].origin # "upstream" =>
      /\ Out[i].seq <= Out[j].seq
      /\ Out[j].origin \in Reasons => Out[i].seq < Out[j].seq \/ Out[j].seq = MaxSeq

(* Between two reads of the body the buffer is within the event limit,     *)
(* whether the excess is one oversized frame or a frame that never ends.   *)
BoundedBuffer ==
  pc # "received" => Len(buffer) <= MaxEventBytes

(* The reference, over the whole body at once: the frames up to the first  *)
(* that is terminal, refused or too large, what each adds to the upstream  *)
(* frames a client must be given, and the last usable identity in them.    *)
Usable(first, second) ==
  IF Safe(second) THEN second ELSE IF Safe(first) THEN first ELSE Absent
LaterOf(old, new) == IF new = Absent THEN old ELSE new

NothingRead == [frames |-> <<>>, id |-> Absent, model |-> Absent]
Ends(v) == v.verdict = "keep" /\ v.event.kind \in FailureKinds \cup TerminalKinds
ReadFirst(v, rest) ==
  [frames |-> IF v.verdict = "drop" \/ v.event.kind \in FailureKinds THEN rest.frames
              ELSE <<RawFrame(v.event)>> \o rest.frames,
   id |-> LaterOf(Usable(v.event.respId, v.event.topId), rest.id),
   model |-> LaterOf(Usable(v.event.respModel, v.event.headerModel), rest.model)]

Reading[w \in Seq(Tokens)] ==
  LET n == CompleteFrameLen(w)
      v == InspectFrame(SubSeq(w, 1, n))
  IN IF n = 0 \/ n > MaxEventBytes \/ v.verdict = "reject" THEN NothingRead
     ELSE IF Ends(v) THEN ReadFirst(v, NothingRead)
     ELSE ReadFirst(v, Reading[SubSeq(w, n + 1, Len(w))])

Forwardable(w) == Reading[w].frames

(* What the client gets depends on the bytes of the body and not on how    *)
(* they were split into chunks: the i-th upstream frame passed on is the   *)
(* i-th of the whole wire, and all of them have been passed on whenever    *)
(* the validator waits for more, so no complete frame is held back, lost,  *)
(* repeated or overtaken by a synthesized one.                             *)
ForwardedMatchesWire ==
  /\ \A i \in DOMAIN Out : Out[i].origin = "upstream" =>
       i \in DOMAIN Forwardable(wire) /\ Out[i] = Forwardable(wire)[i]
  /\ pc = "await" => Out = Forwardable(wire)

(* A failure carries the last usable response id and model name the body   *)
(* gave before it, the default ones only if it gave none: no frame without *)
(* an identity erases them, whatever the chunking, and what is refused or  *)
(* comes after the end names nothing.  The identity of a dropped metadata  *)
(* frame counts, so it need not be one the client has seen.                *)
FailureIdentity ==
  \A i \in DOMAIN Out : Out[i].origin # "upstream" =>
    /\ Out[i].id = LaterOf(DefaultId, Reading[wire].id)
    /\ Out[i].model = LaterOf(DefaultModel, Reading[wire].model)

(* The stream ends, or its client has left, unless the upstream sends for  *)
(* ever: the idle timer starts again at every chunk, an empty one and one  *)
(* of comments included, and nothing bounds the length of a response.      *)
SendsForever == []<><<\E c \in Chunks : ReceiveChunk(c)>>_vars
Terminates == SendsForever \/ <>(pc \in {"ended", "cancelled"})
-----------------------------------------------------------------------------
(* The inductive invariant: the type, the safety properties above, and     *)
(* what a frame says about the state that produced it.  A synthesized      *)
(* frame exists only once the stream is finished, when the sequence number *)
(* and the identity it was made from no longer change.                     *)

Accounted(f) ==
  IF f.origin = "upstream"
  THEN f.seq <= lastSequence
  ELSE /\ finished /\ f.kind = "failed"
       /\ f.seq >= lastSequence
       /\ f.origin \in Reasons => f.seq = SaturatingAdd(lastSequence)
       /\ f.id = LaterOf(DefaultId, responseId)
       /\ f.model = LaterOf(DefaultModel, model)

FramesAccounted ==
  /\ \A i \in DOMAIN sent : Accounted(sent[i])
  /\ \A i \in DOMAIN pending : Accounted(pending[i])

Control ==
  /\ pc = "await" => pending = <<>> /\ ~finished
  /\ pc = "ended" => pending = <<>> /\ finished
  /\ finished => buffer = <<>>

(* Inductive: it implies TerminalLast, NoBareEof, FailureSequence and      *)
(* BoundedBuffer, and every step preserves it.                             *)
IInv == TypeOK /\ TerminalLast /\ BoundedBuffer /\ FramesAccounted /\ Control

(* The same at every point of the poll function and for every continuation *)
(* of the body: what was produced, then what the buffer and the rest of    *)
(* the body would give, is what the whole body gives; likewise for the     *)
(* identity, which is settled once the stream is finished.  A validator    *)
(* that waits has no complete frame left.                                  *)
Resumable(t) ==
  ~finished => Forwardable(wire \o t) = Out \o Forwardable(buffer \o t)
IdentityResumable(t) ==
  ~finished => /\ Reading[wire \o t].id = LaterOf(responseId, Reading[buffer \o t].id)
               /\ Reading[wire \o t].model = LaterOf(model, Reading[buffer \o t].model)
IdentitySettled ==
  finished => responseId = Reading[wire].id /\ model = Reading[wire].model
Drained == pc = "await" => CompleteFrameLen(buffer) = 0
WireInv ==
  /\ \A t \in Seq(Tokens) : Resumable(t)
  /\ Drained
  /\ ForwardedMatchesWire
IdentityInv ==
  /\ \A t \in Seq(Tokens) : IdentityResumable(t)
  /\ IdentitySettled
-----------------------------------------------------------------------------
(* The client's view of the stream.                                        *)
Status ==
  CASE pc = "ended" -> "closed"
    [] pc = "cancelled" -> "cancelled"
    [] OTHER -> IF sent # <<>> /\ IsTerminal(sent[Len(sent)])
                THEN "complete" ELSE "open"

Stream == INSTANCE TerminalStream
            WITH Terminal <- IsTerminal, seen <- sent, status <- Status

(* The validator keeps the gateway's promise about a stream: events, one   *)
(* terminal event, then the end, whatever arrives and whenever it stops.   *)
KeepsPromise == Stream!Spec

=============================================================================
