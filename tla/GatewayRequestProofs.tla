------------------------ MODULE GatewayRequestProofs ------------------------
(***************************************************************************)
(* A turn is answered as TerminalStream promises, and its failure told     *)
(* truly, for every request, catalog, upstream and size limit.             *)
(***************************************************************************)
EXTENDS GatewayRequest, TLAPS

(* What Muse may be given: an event of a stream, or one failure.           *)
Params == {None} \cup {d.param : d \in Documents \ {None}}
Told == [type : {"plain"} \cup Terminals] \cup {Failed(c, p) : c \in FailureCodes, p \in Params}

Phases == {"idle", "validate", "send", "stream", "inspect", "canonical", "ending", "relay", "done",
           "gone"}
Serving == {"validate", "send", "stream", "inspect", "canonical", "ending", "relay"}
Answering == {"stream", "inspect", "canonical", "ending"}

TypeInv ==
  /\ phase \in Phases /\ frames \in Seq(Told) /\ captured \in Nat
  /\ phase = "idle" => request = None
  /\ phase # "idle" => request \in Requests

(* An admitted request, and what the handler knows of it where it stands.  *)
RouteInv ==
  /\ phase \in Serving => LocalAnswer(request) = None
  /\ phase \in Answering => request.route = "responses"
  /\ phase = "relay" => request.route # "responses"
  /\ phase = "send" /\ ~Codex => request.route = "responses"

(* A failed turn is read before anything is told.                          *)
ReadInv ==
  /\ phase \in {"idle", "validate", "send"} =>
       upstream = None /\ frames = <<>> /\ captured = 0 /\ body = "flowing"
  /\ phase \in {"canonical", "inspect"} =>
       /\ frames = <<>> /\ body \in {"flowing", "stalled"}
       /\ upstream.status \in Statuses /\ ~IsSuccess(upstream.status)
       /\ upstream.document \in Documents \cup {None}
  /\ phase = "inspect" => Codex /\ captured <= MaxErrorBytes
  /\ phase = "canonical" => ~Codex
  /\ phase \in {"stream", "relay"} => IsSuccess(upstream.status)

IInv == TypeInv /\ RouteInv /\ ReadInv /\ FailureTruthful
-----------------------------------------------------------------------------
(* The codes of the upstream that Muse knows, each under its own name but  *)
(* one (the table of sanitize_upstream_failure).                           *)
LEMMA Codes ==
  /\ DOMAIN UpstreamCodes = FailureCodes \cup {"usage_limit_reached"}
  /\ \A c \in FailureCodes : UpstreamCodes[c] = c
  /\ \A c \in DOMAIN UpstreamCodes : UpstreamCodes[c] \in FailureCodes
BY DEF UpstreamCodes, FailureCodes

(* Z.ai's codes become codes Muse knows (classify_failure).                *)
LEMMA ZaiCodesKnown == \A c \in DOMAIN ZaiCodes : ZaiCodes[c] \in FailureCodes
BY DEF ZaiCodes, FailureCodes

(* So do the statuses.                                                     *)
LEMMA StatusKnown == \A status : ByStatus(status) \in FailureCodes
BY DEF ByStatus, FailureCodes

(* What sanitize_upstream_failure makes of a status and a document.        *)
LEMMA Sanitized ==
  ASSUME NEW st, NEW d, d # None => d \in Documents \/ d.param = None
  PROVE  LET f == SanitizeUpstreamFailure(st, d) IN
         /\ f \in Told /\ f.type = "response.failed"
         /\ f.code = IF d # None /\ d.code \in DOMAIN UpstreamCodes THEN UpstreamCodes[d.code]
                     ELSE ByStatus(st)
         /\ f.param = IF d # None /\ SafeErrorParameter(d.param) THEN d.param ELSE None
<1> DEFINE code == IF d # None /\ d.code \in DOMAIN UpstreamCodes THEN UpstreamCodes[d.code]
                   ELSE ByStatus(st)
           param == IF d # None /\ SafeErrorParameter(d.param) THEN d.param ELSE None
<1>1. code \in FailureCodes
  BY Codes, StatusKnown
<1>2. param \in Params
  BY DEF Params, SafeErrorParameter
<1>3. SanitizeUpstreamFailure(st, d) = Failed(code, param)
  BY DEF SanitizeUpstreamFailure
<1> HIDE DEF code, param
<1>4. Failed(code, param) \in Told
  BY <1>1, <1>2 DEF Told
<1>5. /\ Failed(code, param).type = "response.failed" /\ Failed(code, param).code = code
      /\ Failed(code, param).param = param
  BY DEF Failed
<1> QED BY <1>3, <1>4, <1>5 DEF code, param

(* A single event after none.                                              *)
LEMMA FirstEvent ==
  ASSUME NEW f \in Told, NEW s \in Seq(Told)
  PROVE  /\ Append(s, f) \in Seq(Told) /\ Len(Append(s, f)) = Len(s) + 1 /\ Append(s, f) # <<>>
         /\ Append(s, f)[Len(Append(s, f))] = f
         /\ s = <<>> => Len(Append(s, f)) = 1 /\ Append(s, f)[1] = f
OBVIOUS

(* A turn that fails before the upstream answers is told so in one event;  *)
(* anything else gets an HTTP error.                                       *)
LEMMA ErrorStep ==
  ASSUME IInv, phase \in {"validate", "send"}, NEW error, AnswerError(error),
         UNCHANGED <<config, request, upstream, captured, body>>
  PROVE  IInv'
<1>1. Failed("invalid_request", None) \in Told
  BY DEF Told, Params, FailureCodes
<1>2. frames \in Seq(Told) /\ frames = <<>> /\ upstream = None /\ request \in Requests
      /\ LocalAnswer(request) = None
  BY DEF IInv, TypeInv, ReadInv, RouteInv, Serving
<1>3. frames' \in Seq(Told)
  <2>1. frames' = Append(frames, Failed("invalid_request", None)) \/ frames' = frames
    BY DEF AnswerError
  <2>2. Append(frames, Failed("invalid_request", None)) \in Seq(Told)
    BY <1>1, <1>2, FirstEvent
  <2> QED BY <1>2, <2>1, <2>2
<1>4. phase' \in {"ending", "done"} /\ (phase' = "ending" => request.route = "responses")
  BY DEF AnswerError
<1>5. TypeInv'
  BY <1>2, <1>3, <1>4 DEF IInv, TypeInv, Phases
<1>6. RouteInv'
  BY <1>2, <1>4 DEF RouteInv, Serving, Answering
<1>7. ReadInv'
  BY <1>4 DEF ReadInv
<1>8. FailureTruthful'
  BY <1>2 DEF FailureTruthful
<1> QED BY <1>5, <1>6, <1>7, <1>8 DEF IInv

(* The body of a failed turn is done with: one failure is told, and truly. *)
LEMMA FailStep ==
  ASSUME IInv, phase \in {"canonical", "inspect"}, NEW d,
         d # None => d \in Documents \/ d.param = None, Fail(d),
         UNCHANGED <<config, request, upstream>>, captured' \in Nat,
         LET code == IF d # None /\ d.code \in DOMAIN UpstreamCodes THEN UpstreamCodes[d.code]
                     ELSE ByStatus(upstream.status)
             param == IF d # None /\ SafeErrorParameter(d.param) THEN d.param ELSE None
         IN /\ code = IF Understood' /\ Meaning(upstream.document) # None THEN Meaning(upstream.document)
                      ELSE IF ~Codex /\ upstream.status = 404 THEN "model_not_found"
                      ELSE ByStatus(upstream.status)
            /\ param # None => Codex /\ Understood' /\ param = upstream.document.param
  PROVE  IInv'
<1> DEFINE f == SanitizeUpstreamFailure(upstream.status, d)
<1>1. /\ f \in Told
      /\ f.code = IF d # None /\ d.code \in DOMAIN UpstreamCodes THEN UpstreamCodes[d.code]
                  ELSE ByStatus(upstream.status)
      /\ f.param = IF d # None /\ SafeErrorParameter(d.param) THEN d.param ELSE None
  BY Sanitized
<1>2. /\ frames = <<>> /\ frames \in Seq(Told) /\ request \in Requests
      /\ LocalAnswer(request) = None /\ request.route = "responses"
  BY DEF IInv, TypeInv, ReadInv, RouteInv, Serving, Answering
<1>3. frames' = Append(frames, f) /\ phase' = "ending"
  BY DEF Fail
<1> HIDE DEF f
<1>4. frames' \in Seq(Told) /\ Len(frames') = 1 /\ frames'[1] = f
  BY <1>1, <1>2, <1>3, FirstEvent
<1>5. TypeInv'
  BY <1>2, <1>3, <1>4 DEF IInv, TypeInv, Phases
<1>6. RouteInv'
  BY <1>2, <1>3 DEF RouteInv, Serving, Answering
<1>7. ReadInv'
  BY <1>3 DEF ReadInv
<1>8. /\ f.code = IF Understood' /\ Meaning(upstream.document) # None THEN Meaning(upstream.document)
                  ELSE IF ~Codex /\ upstream.status = 404 THEN "model_not_found"
                  ELSE ByStatus(upstream.status)
      /\ f.param # None => Codex /\ Understood' /\ f.param = upstream.document.param
  BY <1>1
<1>9. f.param # None => f.param.plain /\ f.param.length \in 1..128
  BY <1>1 DEF SafeErrorParameter
<1>10. Meaning(upstream.document)' = Meaning(upstream.document) /\ (Codex' <=> Codex)
  BY DEF Meaning, Codex
<1>11. FailureTruthful'
  BY <1>4, <1>8, <1>9, <1>10 DEF FailureTruthful
<1> QED BY <1>5, <1>6, <1>7, <1>11 DEF IInv

(* canonical_failure: Z.ai's failure is classified by Z.ai's codes, and    *)
(* survives the gateway's own reading of it.                               *)
LEMMA CanonicalStep ==
  ASSUME IInv, phase = "canonical", NEW d, CanonicalFailure(d),
         UNCHANGED <<config, request, upstream>>, captured' \in Nat,
         \/ d = upstream.document /\ Understood'
         \/ d = None /\ ~Understood'
  PROVE  IInv'
<1> DEFINE code == ClassifyFailure(upstream.status, d)
           st == upstream.status
<1>1. code \in FailureCodes
  BY ZaiCodesKnown, StatusKnown DEF ClassifyFailure, FailureCodes
<1>2. /\ Canonical(code) # None /\ Canonical(code).code = code /\ Canonical(code).param = None
  BY <1>1, ConstantsAssumption DEF Canonical
<1>3. code \in DOMAIN UpstreamCodes /\ UpstreamCodes[code] = code
  BY <1>1, Codes
<1>4. ~Codex /\ None \notin FailureCodes
  BY ConstantsAssumption DEF IInv, ReadInv
<1>5. code = IF Understood' /\ Meaning(upstream.document) # None THEN Meaning(upstream.document)
             ELSE IF ~Codex /\ st = 404 THEN "model_not_found"
             ELSE ByStatus(st)
  <2>1. "context_length_exceeded" # None
    BY <1>4 DEF FailureCodes
  <2>2. \A c \in DOMAIN ZaiCodes : ZaiCodes[c] # None
    BY <1>4, ZaiCodesKnown
  <2>3. CASE d = upstream.document /\ Understood'
    BY <1>4, <2>1, <2>2, <2>3 DEF ClassifyFailure, Meaning
  <2>4. CASE d = None /\ ~Understood'
    BY <1>4, <2>4 DEF ClassifyFailure
  <2> QED BY <2>3, <2>4
<1>6. Fail(Canonical(code))
  BY DEF CanonicalFailure
<1>7. ~SafeErrorParameter(Canonical(code).param)
  BY <1>2 DEF SafeErrorParameter
<1> HIDE DEF code
<1> QED BY <1>2, <1>3, <1>5, <1>6, <1>7, FailStep

(* What is read of a successful stream without giving Muse an event.       *)
LEMMA StreamRest ==
  ASSUME IInv, phase = "stream", captured' \in Nat,
         UNCHANGED <<config, request, phase, head, frames, upstream>>
  PROVE  IInv'
<1>1. TypeInv' /\ RouteInv' /\ ReadInv'
  BY DEF IInv, TypeInv, RouteInv, ReadInv, Codex, LocalAnswer
<1>2. FailureTruthful'
  BY DEF FailureTruthful, IInv, ReadInv
<1> QED BY <1>1, <1>2 DEF IInv

(* Reading the body of a failed turn.                                      *)
LEMMA BodyStep ==
  ASSUME IInv, \/ \E n \in ChunkSizes : BodyChunk(n)
               \/ BodyEnds \/ BodyBreaks \/ Stall \/ InspectTimesOut
  PROVE  IInv'
<1>0. CASE phase = "stream"
  <2>1. UNCHANGED <<config, request, phase, head, frames, upstream, captured>>
    BY <1>0 DEF BodyChunk, BodyEnds, BodyBreaks, Stall, InspectTimesOut, Reading
  <2> QED BY <1>0, <2>1, StreamRest DEF IInv, TypeInv
<1> SUFFICES ASSUME phase # "stream" PROVE IInv'
  BY <1>0
<1>1. phase \in {"canonical", "inspect"} /\ body \in {"flowing", "stalled"}
  BY DEF BodyChunk, BodyEnds, BodyBreaks, Stall, InspectTimesOut, Reading, IInv, ReadInv
<1>2. captured \in Nat /\ MaxErrorBytes \in Nat /\ ChunkSizes \subseteq Nat \ {0}
  BY ConstantsAssumption DEF IInv, TypeInv
<1>3. phase = "inspect" => Codex /\ captured <= MaxErrorBytes
  BY DEF IInv, ReadInv
<1>4. ASSUME phase = "inspect", Fail(None), UNCHANGED <<config, request, upstream>>, captured' \in Nat,
             body' # "whole"
      PROVE  IInv'
  BY <1>3, <1>4, FailStep DEF Understood
<1>5. ASSUME NEW n \in ChunkSizes, BodyChunk(n) PROVE IInv'
  <2>1. captured' \in Nat /\ captured' = Capture(n)
    BY <1>2, <1>5 DEF BodyChunk, Capture
  <2>2. CASE phase = "inspect" /\ captured + n > MaxErrorBytes
    BY <1>4, <1>5, <2>1, <2>2 DEF BodyChunk
  <2>3. CASE ~(phase = "inspect" /\ captured + n > MaxErrorBytes)
    <3>1. UNCHANGED <<config, request, phase, head, frames, upstream, body>>
      BY <1>5, <2>3 DEF BodyChunk
    <3>2. phase = "inspect" => captured' <= MaxErrorBytes
      BY <1>2, <2>1, <2>3 DEF Capture
    <3>3. TypeInv' /\ RouteInv' /\ ReadInv'
      BY <1>1, <2>1, <3>1, <3>2 DEF IInv, TypeInv, RouteInv, ReadInv, Codex, LocalAnswer
    <3>4. FailureTruthful'
      BY <1>1, <3>1 DEF FailureTruthful, IInv, ReadInv
    <3> QED BY <3>3, <3>4 DEF IInv
  <2> QED BY <2>2, <2>3
<1>6. CASE BodyEnds
  <2>1. UNCHANGED <<config, request, upstream, captured>> /\ body' = "whole"
    BY <1>6 DEF BodyEnds
  <2>2. CASE phase = "inspect"
    <3>1. Fail(upstream.document) /\ Understood' /\ Codex
      BY <1>3, <1>6, <2>1, <2>2 DEF BodyEnds, Understood
    <3>2. upstream.document # None => upstream.document \in Documents
      BY <2>2 DEF IInv, ReadInv
    <3>3. \A c \in DOMAIN UpstreamCodes : UpstreamCodes[c] # None
      BY Codes, ConstantsAssumption
    <3> QED BY <1>2, <2>1, <2>2, <3>1, <3>2, <3>3, FailStep DEF Meaning
  <2>3. CASE phase = "canonical"
    <3>1. CanonicalFailure(IF captured <= MaxErrorBytes THEN upstream.document ELSE None)
      BY <1>6, <2>3 DEF BodyEnds
    <3>2. Understood' <=> captured <= MaxErrorBytes
      BY <2>1 DEF Understood
    <3> QED BY <1>2, <2>1, <2>3, <3>1, <3>2, CanonicalStep
  <2> QED BY <1>1, <2>2, <2>3
<1>7. CASE BodyBreaks
  <2>1. UNCHANGED <<config, request, upstream, captured>> /\ body' = "broken"
    BY <1>7 DEF BodyBreaks
  <2>2. CASE phase = "inspect"
    BY <1>2, <1>4, <1>7, <2>1, <2>2 DEF BodyBreaks
  <2>3. CASE phase = "canonical"
    <3>1. CanonicalFailure(None) /\ ~Understood'
      BY <1>7, <2>1, <2>3 DEF BodyBreaks, Understood
    <3> QED BY <1>2, <2>1, <2>3, <3>1, CanonicalStep
  <2> QED BY <1>1, <2>2, <2>3
<1>8. CASE Stall
  <2>1. UNCHANGED <<config, request, phase, head, frames, upstream, captured>> /\ body' = "stalled"
    BY <1>8 DEF Stall
  <2>2. TypeInv' /\ RouteInv' /\ ReadInv'
    BY <1>1, <2>1 DEF IInv, TypeInv, RouteInv, ReadInv, Codex, LocalAnswer
  <2>3. FailureTruthful'
    BY <1>1, <2>1 DEF FailureTruthful, IInv, ReadInv
  <2> QED BY <2>2, <2>3 DEF IInv
<1>9. CASE InspectTimesOut
  BY <1>1, <1>2, <1>4, <1>9 DEF InspectTimesOut
<1> QED BY <1>5, <1>6, <1>7, <1>8, <1>9

(* A handler starts with nothing asked and nothing told.                   *)
LEMMA InitInv == Init => IInv
<1> SUFFICES ASSUME Init PROVE IInv
  OBVIOUS
<1>1. TypeInv /\ RouteInv /\ ReadInv
  BY DEF Init, TypeInv, RouteInv, ReadInv, Phases, Serving, Answering
<1>2. FailureTruthful
  BY DEF Init, FailureTruthful
<1> QED BY <1>1, <1>2 DEF IInv

(* Every step of the handler, the upstream and Muse keeps the invariant.   *)
LEMMA StepInv ==
  ASSUME IInv, [Next]_vars
  PROVE  IInv'
<1>1. ASSUME NEW r \in Requests, Receive(r) PROVE IInv'
  <2>1. /\ request' = r /\ UNCHANGED <<config, frames, upstream, captured, body>>
        /\ upstream = None /\ frames = <<>> /\ captured = 0 /\ body = "flowing" /\ phase' \in {"validate", "done"}
        /\ phase' = "validate" => LocalAnswer(r) = None
    BY <1>1 DEF Receive, IInv, ReadInv
  <2>2. TypeInv' /\ RouteInv' /\ ReadInv'
    BY <2>1 DEF IInv, TypeInv, RouteInv, ReadInv, Phases, Serving, Answering
  <2>3. FailureTruthful'
    BY <2>1 DEF FailureTruthful
  <2> QED BY <2>2, <2>3 DEF IInv
<1>2. CASE Validate
  <2>1. CASE Refusal(request) = None
    <3>1. /\ UNCHANGED <<config, request, frames, upstream, captured, body>>
          /\ phase = "validate" /\ phase' = "send"
      BY <1>2, <2>1 DEF Validate
    <3>2. ~Codex => request.route = "responses"
      <4>1. "ProviderUnsupported" # None \/ request.route = "responses"
        BY ConstantsAssumption
      <4> QED BY <2>1, <4>1 DEF Refusal, ZaiRefusal
    <3>3. TypeInv' /\ RouteInv' /\ ReadInv'
      BY <3>1, <3>2 DEF IInv, TypeInv, RouteInv, ReadInv, Phases, Serving, Answering, Codex
    <3>4. FailureTruthful'
      BY <3>1 DEF FailureTruthful, IInv, ReadInv
    <3> QED BY <3>3, <3>4 DEF IInv
  <2>2. CASE Refusal(request) # None
    BY <1>2, <2>2, ErrorStep DEF Validate
  <2> QED BY <2>1, <2>2
<1>3. CASE CallFails
  BY <1>3, ErrorStep DEF CallFails
<1>4. ASSUME NEW status \in Statuses, NEW d \in Documents, UpstreamAnswers(status, d) PROVE IInv'
  <2>1. /\ upstream' = [status |-> status, document |-> d] /\ frames = <<>> /\ frames' = frames
        /\ UNCHANGED <<config, request, captured, body>> /\ phase = "send"
    BY <1>4 DEF UpstreamAnswers, IInv, ReadInv
  <2>2. upstream'.status = status /\ upstream'.document = d
    BY <2>1
  <2>3. /\ phase' \in {"canonical", "stream", "inspect", "relay", "done"}
        /\ phase' = "canonical" => ~Codex /\ ~IsSuccess(status)
        /\ phase' = "inspect" => Codex /\ ~IsSuccess(status) /\ request.route = "responses"
        /\ phase' = "stream" => IsSuccess(status) /\ request.route = "responses"
        /\ phase' = "relay" => IsSuccess(status) /\ request.route # "responses"
    BY <1>4 DEF UpstreamAnswers, ProxySseResponse, ProxyAuxiliaryResponse
  <2>4. ~Codex => request.route = "responses"
    BY <2>1 DEF IInv, RouteInv
  <2>5. captured <= MaxErrorBytes /\ body = "flowing"
    BY <2>1, ConstantsAssumption DEF IInv, ReadInv
  <2>6. TypeInv' /\ RouteInv'
    BY <2>1, <2>3, <2>4 DEF IInv, TypeInv, RouteInv, Phases, Serving, Answering, Codex
  <2>7. ReadInv'
    BY <2>1, <2>2, <2>3, <2>5 DEF ReadInv, Codex
  <2>8. FailureTruthful'
    BY <2>1 DEF FailureTruthful
  <2> QED BY <2>6, <2>7, <2>8 DEF IInv
<1>5. CASE \/ \E n \in ChunkSizes : BodyChunk(n)
           \/ BodyEnds \/ BodyBreaks \/ Stall \/ InspectTimesOut
  BY <1>5, BodyStep
<1>6. ASSUME NEW type \in {"plain"} \cup Terminals,
             StreamEvent(type) \/ (StreamFails /\ type = "response.failed")
      PROVE  IInv'
  <2>1. /\ phase = "stream" /\ phase' \in {"stream", "ending"}
        /\ frames' = Append(frames, [type |-> type]) /\ frames \in Seq(Told)
        /\ UNCHANGED <<config, request, upstream, captured>> /\ IsSuccess(upstream.status)
    BY <1>6 DEF StreamEvent, StreamFails, IInv, TypeInv, ReadInv
  <2>2. [type |-> type] \in Told
    BY DEF Told
  <2>3. frames' \in Seq(Told)
    BY <2>1, <2>2, FirstEvent
  <2>4. TypeInv' /\ RouteInv' /\ ReadInv'
    BY <2>1, <2>3 DEF IInv, TypeInv, RouteInv, ReadInv, Phases, Serving, Answering
  <2>5. FailureTruthful'
    BY <2>1 DEF FailureTruthful, IsSuccess
  <2> QED BY <2>4, <2>5 DEF IInv
<1>7. CASE Close \/ ClientLeaves
  <2>1. /\ UNCHANGED <<config, request, frames, upstream, captured, body>>
        /\ phase' \in {"done", "gone"} /\ phase # "idle"
    BY <1>7 DEF Close, ClientLeaves
  <2>2. TypeInv' /\ RouteInv' /\ ReadInv'
    BY <2>1 DEF IInv, TypeInv, RouteInv, ReadInv, Phases, Serving, Answering
  <2>3. FailureTruthful'
    BY <2>1 DEF IInv, FailureTruthful, Understood, Meaning, Codex
  <2> QED BY <2>2, <2>3 DEF IInv
<1>8. CASE UNCHANGED vars
  <2>1. TypeInv' /\ RouteInv' /\ ReadInv'
    BY <1>8 DEF vars, IInv, TypeInv, RouteInv, ReadInv, Codex
  <2>2. FailureTruthful'
    BY <1>8 DEF vars, IInv, FailureTruthful, Understood, Meaning, Codex
  <2> QED BY <2>1, <2>2 DEF IInv
<1>9. ASSUME NEW n \in ChunkSizes, StreamChunk(n) PROVE IInv'
  <2>1. captured' \in Nat
    BY <1>9, ConstantsAssumption DEF StreamChunk, Capture, IInv, TypeInv
  <2> QED BY <1>9, <2>1, StreamRest DEF StreamChunk
<1>10. CASE StreamFails
  BY <1>6, <1>10 DEF Terminals
<1> QED BY <1>1, <1>2, <1>3, <1>4, <1>5, <1>6, <1>7, <1>8, <1>9, <1>10 DEF Next, Over

(* The invariant of the handler.                                           *)
LEMMA Invariance == Spec => []IInv
<1>1. IInv /\ [Next]_vars => IInv'
  BY StepInv
<1> QED BY InitInv, <1>1, PTL DEF Spec

(* The code a failed turn reports is the meaning of the document that was  *)
(* read whole and within its limits, through both of Z.ai's translations,  *)
(* and otherwise the status's (sanitize_upstream_failure).                 *)
THEOREM FailuresTold == Spec => []FailureTruthful
<1>1. IInv => FailureTruthful
  BY DEF IInv
<1> QED BY Invariance, <1>1, PTL
-----------------------------------------------------------------------------
(* The refinement: to Muse, an admitted turn is a TerminalStream.          *)

(* No turn is being served at the start.                                   *)
LEMMA RefinesInit == Init => Promise!Init
BY DEF Init, Promise!Init, StreamStatus, Turn

(* A step that gives a turn an event.                                      *)
LEMMA RefinesGive ==
  ASSUME IInv, phase \in Serving \ {"ending", "relay"}, request.route = "responses",
         NEW f \in Told, frames' = Append(frames, f), UNCHANGED request,
         phase' = IF IsTerminal(f) THEN "ending" ELSE "stream"
  PROVE  Promise!Next
<1>1. Turn /\ Turn'
  BY ConstantsAssumption DEF Turn, IInv, TypeInv, RouteInv, Serving
<1>2. frames' # <<>> /\ frames'[Len(frames')] = f
  BY FirstEvent DEF IInv, TypeInv
<1>3. StreamStatus = "open" /\ StreamStatus' = IF IsTerminal(f) THEN "complete" ELSE "open"
  BY <1>1 DEF StreamStatus, Serving
<1> QED BY <1>2, <1>3 DEF Promise!Next, Promise!Give

(* A failed turn's one event is a terminal event.                          *)
LEMMA FailedTerminal ==
  ASSUME NEW f, f.type = "response.failed"
  PROVE  IsTerminal(f)
BY DEF IsTerminal, Terminals

(* Telling a failure of the upstream is the abstract stream's last Give.   *)
LEMMA RefinesFail ==
  ASSUME IInv, phase \in {"canonical", "inspect"}, NEW d,
         d # None => d \in Documents \/ d.param = None, Fail(d), UNCHANGED request
  PROVE  Promise!Next
<1> DEFINE f == SanitizeUpstreamFailure(upstream.status, d)
<1>1. f \in Told /\ f.type = "response.failed"
  BY Sanitized
<1>2. frames' = Append(frames, f) /\ phase' = "ending"
  BY DEF Fail
<1> HIDE DEF f
<1>3. IsTerminal(f)
  BY <1>1, FailedTerminal
<1>4. request.route = "responses" /\ phase \in Serving \ {"ending", "relay"}
  BY DEF IInv, RouteInv, Answering, Serving
<1> QED BY <1>1, <1>2, <1>3, <1>4, RefinesGive

(* So is telling an error of the transport; for any other request nothing  *)
(* is promised.                                                            *)
LEMMA RefinesError ==
  ASSUME IInv, phase \in {"validate", "send"}, NEW error, AnswerError(error), UNCHANGED request
  PROVE  [Promise!Next]_<<frames, StreamStatus>>
<1>1. CASE request.route = "responses"
  <2> DEFINE f == Failed("invalid_request", None)
  <2>1. f \in Told /\ f.type = "response.failed"
    <3>1. f \in Told
      BY DEF Told, Params, FailureCodes
    <3>2. f.type = "response.failed"
      BY DEF Failed
    <3> QED BY <3>1, <3>2
  <2>2. frames' = Append(frames, f) /\ phase' = "ending"
    BY <1>1 DEF AnswerError
  <2> HIDE DEF f
  <2>3. IsTerminal(f)
    BY <2>1, FailedTerminal
  <2> QED BY <1>1, <2>1, <2>2, <2>3, RefinesGive DEF Serving
<1>2. CASE request.route # "responses"
  BY <1>2 DEF AnswerError, StreamStatus, Turn
<1> QED BY <1>1, <1>2

(* A step that gives Muse nothing and ends nothing.                        *)
LEMMA RefinesQuiet ==
  ASSUME UNCHANGED <<request, frames>>, {phase, phase'} \cap {"ending", "done", "gone"} = {}
  PROVE  UNCHANGED <<frames, StreamStatus>>
BY DEF StreamStatus, Turn

(* Every step is a step of the abstract stream or a stutter.               *)
LEMMA RefinesStep ==
  ASSUME IInv, [Next]_vars
  PROVE  [Promise!Next]_<<frames, StreamStatus>>
<1>1. ASSUME NEW r \in Requests, Receive(r) PROVE UNCHANGED <<frames, StreamStatus>>
  <2>1. frames' = frames /\ request' = r /\ request = None /\ phase = "idle"
    BY <1>1 DEF Receive, IInv, TypeInv
  <2>2. Turn' => phase' = "validate"
    BY <1>1 DEF Turn, Receive
  <2> QED BY <2>1, <2>2 DEF StreamStatus, Turn
<1>2. CASE Validate
  <2>1. CASE Refusal(request) = None
    BY <1>2, <2>1, RefinesQuiet DEF Validate
  <2>2. CASE Refusal(request) # None
    BY <1>2, <2>2, RefinesError DEF Validate
  <2> QED BY <2>1, <2>2
<1>3. CASE CallFails
  BY <1>3, RefinesError DEF CallFails
<1>4. ASSUME NEW status \in Statuses, NEW d \in Documents, UpstreamAnswers(status, d)
      PROVE  UNCHANGED <<frames, StreamStatus>>
  <2>1. CASE phase' # "done"
    <3>1. phase' \in {"canonical", "stream", "inspect", "relay"}
      BY <1>4, <2>1 DEF UpstreamAnswers, ProxySseResponse, ProxyAuxiliaryResponse
    <3> QED BY <1>4, <3>1, RefinesQuiet DEF UpstreamAnswers
  <2>2. CASE phase' = "done"
    <3>1. request.route # "responses"
      BY <1>4, <2>2 DEF UpstreamAnswers, ProxySseResponse, ProxyAuxiliaryResponse
    <3> QED BY <1>4, <3>1 DEF UpstreamAnswers, StreamStatus, Turn
  <2> QED BY <2>1, <2>2
<1>5. ASSUME NEW n \in ChunkSizes, BodyChunk(n) PROVE [Promise!Next]_<<frames, StreamStatus>>
  <2>1. CASE phase = "inspect" /\ captured + n > MaxErrorBytes
    BY <1>5, <2>1, RefinesFail DEF BodyChunk
  <2>2. CASE ~(phase = "inspect" /\ captured + n > MaxErrorBytes)
    BY <1>5, <2>2, RefinesQuiet DEF BodyChunk, Reading
  <2> QED BY <2>1, <2>2
<1>6. ASSUME NEW d, d = None \/ d = upstream.document, phase \in {"canonical", "inspect"},
             (phase = "inspect" /\ Fail(d)) \/ (phase = "canonical" /\ CanonicalFailure(d)),
             UNCHANGED request
      PROVE  Promise!Next
  <2>1. CASE phase = "inspect" /\ Fail(d)
    <3>1. d # None => d \in Documents
      BY <1>6 DEF IInv, ReadInv
    <3> QED BY <1>6, <2>1, <3>1, RefinesFail
  <2>2. CASE phase = "canonical" /\ CanonicalFailure(d)
    <3>1. Fail(Canonical(ClassifyFailure(upstream.status, d)))
      BY <2>2 DEF CanonicalFailure
    <3>2. Canonical(ClassifyFailure(upstream.status, d)).param = None
      BY DEF Canonical
    <3> QED BY <1>6, <3>1, <3>2, RefinesFail
  <2> QED BY <1>6, <2>1, <2>2
<1>7. CASE BodyEnds
  BY <1>6, <1>7 DEF BodyEnds, Reading
<1>8. CASE BodyBreaks
  BY <1>6, <1>8 DEF BodyBreaks, Reading
<1>9. CASE Stall
  BY <1>9, RefinesQuiet DEF Stall, Reading
<1>10. CASE InspectTimesOut
  BY <1>10, RefinesFail DEF InspectTimesOut
<1>11. ASSUME NEW type \in {"plain"} \cup Terminals,
              StreamEvent(type) \/ (StreamFails /\ type = "response.failed")
       PROVE  Promise!Next
  <2>1. [type |-> type] \in Told /\ (IsTerminal([type |-> type]) <=> type # "plain")
    BY DEF Told, IsTerminal, Terminals
  <2>2. request.route = "responses" /\ phase = "stream"
    BY <1>11 DEF IInv, RouteInv, Answering, StreamEvent, StreamFails
  <2> QED BY <1>11, <2>1, <2>2, RefinesGive DEF StreamEvent, StreamFails, Serving
<1>12. CASE Close
  <2>1. CASE phase = "ending"
    <3>1. Turn /\ Turn'
      BY <1>12, <2>1, ConstantsAssumption DEF Close, Turn, IInv, TypeInv, RouteInv, Serving, Answering
    <3> QED BY <1>12, <2>1, <3>1 DEF Close, StreamStatus, Promise!Next, Promise!Close
  <2>2. CASE phase = "relay"
    BY <1>12, <2>2 DEF Close, StreamStatus, Turn, IInv, RouteInv
  <2> QED BY <1>12, <2>1, <2>2 DEF Close
<1>13. CASE ClientLeaves
  <2>1. CASE Turn
    BY <1>13, <2>1 DEF ClientLeaves, StreamStatus, Turn, Promise!Next, Promise!Leave
  <2>2. CASE ~Turn
    BY <1>13, <2>2 DEF ClientLeaves, StreamStatus, Turn
  <2> QED BY <2>1, <2>2
<1>14. CASE UNCHANGED vars
  BY <1>14 DEF vars, StreamStatus, Turn
<1>15. ASSUME NEW n \in ChunkSizes, StreamChunk(n) PROVE UNCHANGED <<frames, StreamStatus>>
  BY <1>15, RefinesQuiet DEF StreamChunk
<1>16. CASE StreamFails
  BY <1>11, <1>16 DEF Terminals
<1> QED BY <1>1, <1>2, <1>3, <1>4, <1>5, <1>7, <1>8, <1>9, <1>10, <1>11, <1>12, <1>13, <1>14, <1>15,
           <1>16
        DEF Next, Over

(* Whatever fails after a turn was admitted, Muse gets events, one         *)
(* terminal event and the end of the stream, never a bare HTTP error.      *)
THEOREM TurnsKeepPromise == Spec => KeepsPromise
<1>1. IInv /\ [Next]_vars => [Promise!Next]_<<frames, StreamStatus>>
  BY RefinesStep
<1> QED BY RefinesInit, Invariance, <1>1, PTL DEF Spec, KeepsPromise, Promise!Spec
=============================================================================
