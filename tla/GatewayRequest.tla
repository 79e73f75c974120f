--------------------------- MODULE GatewayRequest ---------------------------
(***************************************************************************)
(* One request of Muse through the private gateway: admission (bearer      *)
(* token, JSON body, streaming form), the provider's checks of the model,  *)
(* the upstream call, and the answer.  A turn that was accepted is always  *)
(* answered 200 with an event stream, because stock Muse retries a bare    *)
(* HTTP error; an upstream failure is read, within 64 KiB and five         *)
(* seconds, and becomes one sanitized response.failed event.               *)
(*                                                                         *)
(* The requests of a process share nothing but the credential lock, which  *)
(* CredentialRefresh models, so one request is enough.  The retries of the *)
(* upstream call are that module's too: here the call fails or gives its   *)
(* last response.  A successful stream goes through SseValidator, of which *)
(* only the promise is used: known events, one terminal event, and a       *)
(* failure of its own for a body that ends, breaks or falls silent.        *)
(***************************************************************************)
EXTENDS Naturals, Sequences, TLC

CONSTANTS
  None,
  Requests,    \* requests Muse may send: see RequestShape
  Catalog,     \* a function from the listed models to their capabilities
  Statuses,    \* HTTP statuses of the upstream
  Documents,   \* error documents of the upstream, None when it is not JSON
  MaxErrorBytes, ChunkSizes,  \* 64 KiB and the sizes of error-body chunks, scaled
  MaxEvents    \* bound on the events recorded of a successful stream before its last

(* The failures Muse can be told of, by their codes.                       *)
FailureCodes ==
  {"context_length_exceeded", "rate_limit_exceeded", "invalid_api_key", "model_not_found",
   "insufficient_quota", "invalid_request"}

(* The document Z.ai's transport makes of a failure.                       *)
Canonical(code) == [code |-> code, param |-> None, contextMessage |-> FALSE]

ASSUME ConstantsAssumption ==
  /\ None \notin Requests /\ None \notin FailureCodes /\ None # "ProviderUnsupported"
  /\ \A c \in FailureCodes : Canonical(c) # None
  /\ Statuses \subseteq 200..599
  /\ MaxErrorBytes \in Nat /\ ChunkSizes \subseteq Nat \ {0} /\ MaxEvents \in Nat

VARIABLES
  config,    \* the launch: [provider, apiKey, fast, customUrl], never changed
  request,   \* the request being served
  phase,     \* where its handler stands
  head,      \* the HTTP status given to Muse, None before
  frames,    \* the events given to Muse
  upstream,  \* the upstream's answer: [status, document], None before
  captured,  \* bytes of the body that gave Muse no event, see Capture
  body       \* "flowing" | "stalled" | "whole" | "broken"

vars == <<config, request, phase, head, frames, upstream, captured, body>>

Configs ==
  {c \in [provider : {"codex", "zai"}, apiKey : BOOLEAN, fast : BOOLEAN, customUrl : BOOLEAN] :
     /\ c.provider = "zai" => c.apiKey /\ ~c.fast
     /\ c.customUrl => c.apiKey}

Codex == config.provider = "codex"
IsSuccess(status) == status \in 200..299
-----------------------------------------------------------------------------
(* Admission.  The answer of the gateway itself, None for a request that   *)
(* goes on to the provider.                                                *)
BearerMatches(r) == r.authorized

RejectionStatus == ("tooLarge" :> 413) @@ ("wrongType" :> 415) @@ ("malformed" :> 400)

PrepareResponsesRequest(r) ==  \* whether the turn has a form the gateway serves
  r.object /\ r.stream # "false" /\ ~r.background

StaticAnswer == ("healthz" :> 200) @@ ("models" :> 304) @@ ("feedback" :> 204)

LocalAnswer(r) ==
  IF ~BearerMatches(r) THEN 401
  ELSE IF r.route \in DOMAIN StaticAnswer THEN StaticAnswer[r.route]
  ELSE IF r.payload \in DOMAIN RejectionStatus THEN RejectionStatus[r.payload]
  ELSE IF r.route = "responses" /\ ~PrepareResponsesRequest(r) THEN 400
  ELSE None
-----------------------------------------------------------------------------
(* The provider's checks: the error that ends the call before anything is  *)
(* sent, None when there is none.                                          *)
ValidateModelRequest(r) ==
  IF r.model \notin DOMAIN Catalog
  THEN r.model # None /\ config.apiKey
  ELSE LET c == Catalog[r.model] IN
       /\ c.visible
       /\ c.codeModeOnly => c.lite
       /\ r.image => c.image
       /\ r.effort = None \/ c.efforts = {} \/ r.effort \in c.efforts

ValidateFastModeAvailability(r) ==
  ~config.fast \/ config.customUrl \/ r.model \notin DOMAIN Catalog \/ Catalog[r.model].fast

CodexRefusal(r) ==
  IF r.route = "responses" /\ ~ValidateModelRequest(r) THEN "InvalidRequest"
  ELSE IF r.route = "responses" /\ ~ValidateFastModeAvailability(r) THEN "FastModeUnavailable"
  ELSE IF ~r.wellFormed THEN "InvalidRequest"
  ELSE None

ZaiRefusal(r) ==  \* of a listed model only its modalities matter to Z.ai
  IF r.route # "responses" THEN "ProviderUnsupported"
  ELSE IF \/ r.model \notin DOMAIN Catalog
          \/ r.image /\ ~Catalog[r.model].image
          \/ ~r.wellFormed
       THEN "InvalidRequest"
       ELSE None

Refusal(r) == IF Codex THEN CodexRefusal(r) ELSE ZaiRefusal(r)
-----------------------------------------------------------------------------
(* The failures Muse is told of.                                           *)
Failed(code, param) == [type |-> "response.failed", code |-> code, param |-> param]

ByStatus(status) ==
  IF status = 429 THEN "rate_limit_exceeded"
  ELSE IF status \in {401, 403} THEN "invalid_api_key"
  ELSE "invalid_request"

SafeErrorParameter(p) == p # None /\ p.length \in 1..128 /\ p.plain

UpstreamCodes ==
  [c \in FailureCodes \cup {"usage_limit_reached"} |->
     IF c = "usage_limit_reached" THEN "rate_limit_exceeded" ELSE c]

SanitizeUpstreamFailure_Mutant(status, d) ==  \* FailureTruthful: the code is passed on
  Failed(IF d # None THEN d.code ELSE ByStatus(status),
         IF d # None /\ SafeErrorParameter(d.param) THEN d.param ELSE None)

SanitizeUpstreamFailure(status, d) ==
  Failed(IF d # None /\ d.code \in DOMAIN UpstreamCodes THEN UpstreamCodes[d.code]
         ELSE ByStatus(status),
         IF d # None /\ SafeErrorParameter(d.param) THEN d.param ELSE None)

ZaiCodes ==
  LET keys == {"1000", "1001", "1002", "1003", "1004"}
      quota == {"1110", "1112", "1113"}
      models == {"1211", "1212"}
      rates == {"1302", "1303", "1304", "1305"}
  IN [c \in keys \cup quota \cup models \cup rates \cup {"1261"} |->
        IF c \in keys THEN "invalid_api_key"
        ELSE IF c \in quota THEN "insufficient_quota"
        ELSE IF c \in models THEN "model_not_found"
        ELSE IF c \in rates THEN "rate_limit_exceeded"
        ELSE "context_length_exceeded"]

ClassifyFailure(status, d) ==
  IF d # None /\ d.contextMessage THEN "context_length_exceeded"
  ELSE IF d # None /\ d.code \in DOMAIN ZaiCodes THEN ZaiCodes[d.code]
  ELSE IF status = 404 THEN "model_not_found"
  ELSE ByStatus(status)
-----------------------------------------------------------------------------
Init ==
  /\ config \in Configs
  /\ request = None /\ phase = "idle" /\ head = None /\ frames = <<>>
  /\ upstream = None /\ captured = 0 /\ body = "flowing"

(* require_authorization, extract_json, prepare_responses_request and the  *)
(* routes that need no upstream, up to the first await of the handler.     *)
Receive(r) ==
  /\ phase = "idle"
  /\ request' = r
  /\ head' = LocalAnswer(r)
  /\ phase' = IF LocalAnswer(r) = None THEN "validate" ELSE "done"
  /\ UNCHANGED <<config, frames, upstream, captured, body>>

(* How a handler answers an error of the transport: a turn gets one failed *)
(* event, search and browser_open an HTTP error.                           *)
AnswerError_Mutant(error) ==  \* KeepsPromise: a turn is answered as a search is
  /\ head' = IF error = "InvalidRequest" THEN 400
             ELSE IF error = "ProviderUnsupported" THEN 501
             ELSE 502
  /\ frames' = frames /\ phase' = "done"

AnswerError(error) ==
  IF request.route = "responses"
  THEN /\ head' = 200 /\ frames' = Append(frames, Failed("invalid_request", None))
       /\ phase' = "ending"
  ELSE /\ head' = IF error = "InvalidRequest" THEN 400
                  ELSE IF error = "ProviderUnsupported" THEN 501
                  ELSE 502
       /\ frames' = frames /\ phase' = "done"

Validate ==
  /\ phase = "validate"
  /\ IF Refusal(request) = None
     THEN phase' = "send" /\ UNCHANGED <<head, frames>>
     ELSE AnswerError(Refusal(request))
  /\ UNCHANGED <<config, request, upstream, captured, body>>

(* resolve_auth, the credential recovery or the send fails.                *)
CallFails ==
  /\ phase = "send" \/ (phase = "validate" /\ Codex /\ request.route = "responses")
  /\ AnswerError("Other")
  /\ UNCHANGED <<config, request, upstream, captured, body>>

(* The last response of the upstream call.  Z.ai's transport reads a       *)
(* failed body itself before it returns; the gateway's handlers answer a   *)
(* turn with the head of an event stream whatever the status was, and drop *)
(* the body of a failed search.                                            *)
ProxySseResponse(status) ==
  /\ head' = 200
  /\ phase' = IF IsSuccess(status) THEN "stream" ELSE "inspect"

ProxyAuxiliaryResponse(status) ==
  /\ head' = status
  /\ phase' = IF IsSuccess(status) THEN "relay" ELSE "done"

UpstreamAnswers(status, document) ==
  /\ phase = "send"
  /\ upstream' = [status |-> status, document |-> document]
  /\ IF ~Codex /\ ~IsSuccess(status) THEN phase' = "canonical" /\ UNCHANGED head
     ELSE IF request.route = "responses" THEN ProxySseResponse(status)
     ELSE ProxyAuxiliaryResponse(status)
  /\ UNCHANGED <<config, request, frames, captured, body>>
-----------------------------------------------------------------------------
(* The body of a failed turn.                                              *)
Reading == phase \in {"canonical", "inspect"} /\ body \in {"flowing", "stalled"}

Fail(d) ==
  /\ frames' = Append(frames, SanitizeUpstreamFailure(upstream.status, d))
  /\ phase' = "ending"

(* canonical_failure: Z.ai's error becomes a document of one code, which   *)
(* the gateway's inspection then reads at once, without waiting.           *)
CanonicalFailure(d) ==
  /\ head' = 200
  /\ Fail(Canonical(ClassifyFailure(upstream.status, d)))

(* A chunk of the body.  The gateway stops at its limit; Z.ai's transport  *)
(* reads on, and looks at the size when the body is complete.              *)
Capture(n) ==  \* past the limit the count goes to and fro, so that reading on is a step
  IF captured + n <= MaxErrorBytes THEN captured + n
  ELSE IF captured = MaxErrorBytes + 1 THEN MaxErrorBytes + 2
  ELSE MaxErrorBytes + 1

BodyChunk(n) ==
  /\ Reading /\ body = "flowing"
  /\ captured' = Capture(n)
  /\ IF phase = "inspect" /\ captured + n > MaxErrorBytes THEN Fail(None)
     ELSE UNCHANGED <<frames, phase>>
  /\ UNCHANGED <<config, request, head, upstream, body>>

BodyEnds ==
  /\ Reading /\ body = "flowing"
  /\ body' = "whole"
  /\ IF phase = "inspect" THEN Fail(upstream.document) /\ UNCHANGED head
     ELSE CanonicalFailure(IF captured <= MaxErrorBytes THEN upstream.document ELSE None)
  /\ UNCHANGED <<config, request, upstream, captured>>

(* The connection fails, or the client's read timeout ends a silent one.   *)
BodyBreaks_Mutant ==  \* Answered: Z.ai's transport waits for more
  /\ Reading
  /\ body' = "broken"
  /\ IF phase = "inspect" THEN Fail(None) ELSE UNCHANGED <<frames, phase>>
  /\ UNCHANGED <<config, request, head, upstream, captured>>

BodyBreaks ==
  /\ Reading
  /\ body' = "broken"
  /\ IF phase = "inspect" THEN Fail(None) /\ UNCHANGED head ELSE CanonicalFailure(None)
  /\ UNCHANGED <<config, request, upstream, captured>>

(* The upstream stops sending, for good.                                   *)
Stall ==
  /\ Reading \/ phase = "stream"
  /\ body = "flowing"
  /\ body' = "stalled"
  /\ UNCHANGED <<config, request, phase, head, frames, upstream, captured>>

(* UPSTREAM_ERROR_BODY_TIMEOUT, of the gateway's inspection only.          *)
InspectTimesOut ==
  /\ phase = "inspect"
  /\ Fail(None)
  /\ UNCHANGED <<config, request, head, upstream, captured, body>>
-----------------------------------------------------------------------------
(* A successful turn: what the validator lets through, and the upstream's  *)
(* terminal event.                                                         *)
StreamEvent(type) ==
  /\ phase = "stream" /\ body = "flowing"
  /\ type = "plain" => Len(frames) < MaxEvents
  /\ frames' = Append(frames, [type |-> type])
  /\ phase' = IF type = "plain" THEN "stream" ELSE "ending"
  /\ UNCHANGED <<config, request, head, upstream, captured, body>>

(* A chunk that gives Muse no event: a comment, metadata, or part of a     *)
(* frame.  It restarts the idle timer, and nothing bounds how many come.   *)
StreamChunk(n) ==
  /\ phase = "stream" /\ body = "flowing"
  /\ captured' = Capture(n)
  /\ UNCHANGED <<config, request, phase, head, frames, upstream, body>>

(* The validator fails the turn: a frame is refused, the body ends without *)
(* a terminal event or breaks, or the idle timer ends a silent one.        *)
StreamFails ==
  /\ phase = "stream"
  /\ body' = "broken"
  /\ frames' = Append(frames, [type |-> "response.failed"])
  /\ phase' = "ending"
  /\ UNCHANGED <<config, request, head, upstream, captured>>

Terminals == {"response.completed", "response.incomplete", "response.cancelled",
              "response.failed", "error"}
IsTerminal(f) == f.type \in Terminals

(* The stream of a turn ends; so does a search result, whole or cut.       *)
Close ==
  /\ phase \in {"ending", "relay"}
  /\ phase' = "done"
  /\ UNCHANGED <<config, request, head, frames, upstream, captured, body>>

(* Muse leaves: the handler and its body are dropped where they stand.     *)
ClientLeaves ==
  /\ phase \notin {"idle", "done", "gone"}
  /\ phase' = "gone"
  /\ UNCHANGED <<config, request, head, frames, upstream, captured, body>>

Over == phase \in {"done", "gone"} /\ UNCHANGED vars

Next ==
  \/ \E r \in Requests : Receive(r)
  \/ Validate \/ CallFails
  \/ \E status \in Statuses, d \in Documents : UpstreamAnswers(status, d)
  \/ \E n \in ChunkSizes : BodyChunk(n)
  \/ BodyEnds \/ BodyBreaks \/ Stall \/ InspectTimesOut
  \/ \E type \in {"plain"} \cup Terminals : StreamEvent(type)
  \/ \E n \in ChunkSizes : StreamChunk(n)
  \/ StreamFails
  \/ Close \/ ClientLeaves \/ Over

Spec == Init /\ [][Next]_vars

(* The handler runs and its timers fire.  The call returns                 *)
(* (CredentialRefresh's OnlyAuthorityBlocks is about when it does), and a  *)
(* body does something: it goes on, ends, breaks or falls silent, and a    *)
(* silent one is ended by the read timeout or the validator's idle timer.  *)
(* No body is bound to end.                                                *)
FairSpec ==
  /\ Spec
  /\ WF_vars(Validate) /\ WF_vars(InspectTimesOut) /\ WF_vars(Close)
  /\ WF_vars(CallFails \/ \E status \in Statuses, d \in Documents : UpstreamAnswers(status, d))
  /\ WF_vars(Reading /\ (BodyEnds \/ BodyBreaks \/ Stall \/ \E n \in ChunkSizes : BodyChunk(n)))
  /\ WF_vars(body = "stalled" /\ (BodyBreaks \/ StreamFails))
  /\ WF_vars(phase = "stream" /\ (\/ \E type \in {"plain"} \cup Terminals : StreamEvent(type)
                                  \/ \E n \in ChunkSizes : StreamChunk(n)
                                  \/ StreamFails \/ Stall))
-----------------------------------------------------------------------------
(* A turn the gateway has admitted: from here on Muse is owed a stream.    *)
Turn == request # None /\ request.route = "responses" /\ LocalAnswer(request) = None

(* The stream of a turn as the client knows it; an HTTP error is a stream  *)
(* that closed without a terminal event.                                   *)
StreamStatus ==
  IF ~Turn THEN "open"
  ELSE IF phase = "gone" THEN "cancelled"
  ELSE IF phase = "done" THEN "closed"
  ELSE IF phase = "ending" THEN "complete"
  ELSE "open"

Promise ==
  INSTANCE TerminalStream
    WITH Terminal <- IsTerminal, seen <- frames, status <- StreamStatus

(* "A final upstream HTTP failure is also translated into a terminal       *)
(* failure: stock Muse otherwise retries even rejected HTTP 400 requests"  *)
(* (docs/PROTOCOL.md): whatever fails after a turn was admitted, Muse gets *)
(* events, one terminal event and the end, never a bare HTTP error.        *)
KeepsPromise == Promise!Spec

(* What an error document means to its provider, None when nothing.        *)
Meaning(d) ==
  IF d = None THEN None
  ELSE IF Codex THEN IF d.code \in DOMAIN UpstreamCodes THEN UpstreamCodes[d.code] ELSE None
  ELSE IF d.contextMessage THEN "context_length_exceeded"
  ELSE IF d.code \in DOMAIN ZaiCodes THEN ZaiCodes[d.code]
  ELSE None

Understood == body = "whole" /\ captured <= MaxErrorBytes

(* "Only the small semantic allowlist above crosses the trust boundary"    *)
(* (sanitize_upstream_failure): the code a failed turn reports is the      *)
(* document's meaning when the whole document was read within its limits,  *)
(* through both of Z.ai's translations, and otherwise the status's alone;  *)
(* a parameter is a safe one, of a document Codex sent whole.              *)
FailureTruthful ==
  upstream # None /\ ~IsSuccess(upstream.status) /\ frames # <<>> =>
    LET d == upstream.document
        told == frames[1]
    IN /\ Len(frames) = 1
       /\ told.code = IF Understood /\ Meaning(d) # None THEN Meaning(d)
                      ELSE IF ~Codex /\ upstream.status = 404 THEN "model_not_found"
                      ELSE ByStatus(upstream.status)
       /\ told.param # None =>
            /\ Codex /\ Understood /\ told.param = d.param
            /\ told.param.plain /\ told.param.length \in 1..128

(* Every admitted request is answered, a turn with its terminal event and  *)
(* a search with its status, unless the upstream sends for ever.  Two      *)
(* bodies can be endless: the error body Z.ai's canonical_failure reads,   *)
(* for which neither of the gateway's limits is in force, and a successful *)
(* stream, whose idle timer every chunk restarts.  An endless error body   *)
(* that the gateway inspects itself keeps nobody waiting.                  *)
Waiting == phase \notin {"idle", "relay", "done", "gone"}
EndlessBody ==
  []<><<phase \in {"canonical", "stream"} /\ \E n \in ChunkSizes : BodyChunk(n) \/ StreamChunk(n)>>_vars
Answered == EndlessBody \/ [](Waiting => <>(~Waiting))
=============================================================================
