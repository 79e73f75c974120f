------------------------------ MODULE MspRelay ------------------------------
(***************************************************************************)
(* The Muse Session Protocol relay (crates/muse-codex/src/msp.rs) between  *)
(* an MSP client on the launcher's stdio and a piped stock Muse host, with *)
(* the part of the launcher that waits for the host                        *)
(* (crates/muse-codex/src/lib.rs, run_stock_muse).                         *)
(*                                                                         *)
(* Four actors share the pending-request map and the client's stdout: the  *)
(* input thread (client to host), the output thread (host to client), the  *)
(* host and the launcher's main thread.  A thread's step from taking a     *)
(* frame to having it adapted is one action (the map is locked once in     *)
(* it); writing the adapted frame is another, so the other thread can run  *)
(* in between.                                                             *)
(*                                                                         *)
(* The client and the stock host are external: they are modelled from what *)
(* msp.rs accepts of them.  Client frames are numbered as they are read;   *)
(* the number of the frame an answer belongs to travels with it, as a      *)
(* ghost that no guard of the relay reads.                                 *)
(***************************************************************************)
EXTENDS Integers, Sequences, FiniteSets

CONSTANTS
  Ids,           \* request ids: strings and numbers, by their rpc_id_key
  Capacities,    \* values of MAX_PENDING_REQUESTS
  ClientFrames,  \* what the client may send
  RogueFrames,   \* what the host may emit against the protocol
  MaxFrames,     \* bound: frames the client sends
  MaxNotices     \* bound: frames the host emits on its own

Null == "null"      \* the JSON null id, which rpc_id_key accepts
NoId == "none"      \* no id field
BadId == "bad"      \* an id that is not a string, number or null
Keys == Ids \cup {Null}

(* The methods, by what the schema says of their provider fields: in the   *)
(* request (session/start, session/setModel), in the result (session/start *)
(* /resume/fork/read/list, model/list, view/page), or nowhere.             *)
ProviderInRequest == {"start", "setModel"}
ProviderInResult == {"start", "read"}
Methods == ProviderInRequest \cup ProviderInResult \cup {"other"}
None == "untracked"

(* A client frame is a call or notification, or opaque: no JSON object     *)
(* with a string method.  "absent" also stands for an empty provider or    *)
(* one that is not a string.  An oversized frame is refused by read_frame. *)
ClientFrame ==
  [kind : {"call", "opaque", "oversized"}, id : Keys \cup {NoId, BadId},
   method : Methods, provider : {"absent", "public", "other"}]

(* A frame for the client: a response, a notification (or a request of the *)
(* host), an object that is neither ("bare"), or no JSON object of at most *)
(* MAX_FRAME_BYTES ("malformed": a cut or an oversized line too).          *)
ServerFrame ==
  [kind : {"response", "notice", "bare", "malformed"},
   id : Keys \cup {NoId, BadId},
   body : {"result", "error", "both", "neither"},
   provider : {"none", "meta", "public", "other"},
   schema : BOOLEAN,          \* ghost: the provider is in a field of the schema
   src : {"host", "adapter"}, \* ghost: who made it
   no : 0..MaxFrames]         \* ghost: the client frame it answers, 0 for none

ASSUME ConstantsAssumption ==
  /\ Null \notin Ids /\ NoId \notin Keys /\ BadId \notin Keys
  /\ Capacities \subseteq Nat /\ MaxFrames \in Nat /\ MaxNotices \in Nat
  /\ ClientFrames \subseteq ClientFrame
  /\ RogueFrames \subseteq {f \in ServerFrame : f.src = "host" /\ f.no = 0}

VARIABLES
  maxPending,       \* MAX_PENDING_REQUESTS; never changes
  inPc, inFrame,    \* input thread: "read" | "forward" | "reject" | "done" | "failed"
  outPc, outFrame,  \* output thread: "read" | "write" | "done" | "failed"
  pending,          \* PendingRequests
  toHost, fromHost, \* the pipes
  hostOpen,         \* calls the host has read and not answered
  host,             \* "running" | "exited" | "reaped"
  client,           \* "open" | "eof" (stdin closed) | "gone" (stdout closed too)
  signalled,        \* terminate_child was called
  launcher,         \* "wait" | "join" | "check" | "drop" (the gateway) | "done"
  status,           \* what finish returns: "none" | "ok" | "error"
  received,         \* history: what the client was given
  accepted,         \* history: how many requests of each id went in the map
  emitted,          \* history: how many frames the host wrote
  count, notices,   \* client frames read, host frames emitted unasked
  rogue             \* history: the host has broken the protocol

relay == <<inPc, inFrame, outPc, outFrame, pending, signalled>>
vars == <<maxPending, inPc, inFrame, outPc, outFrame, pending, toHost, fromHost, hostOpen, host,
          client, signalled, launcher, status, received, accepted, emitted, count, notices, rogue>>
-----------------------------------------------------------------------------
NoFrame == [kind |-> "bare", id |-> NoId, body |-> "neither", provider |-> "none",
            schema |-> FALSE, src |-> "host", no |-> 0]

ErrorFor(src, id, no) ==
  [kind |-> "response", id |-> id, body |-> "error", provider |-> "none", schema |-> FALSE,
   src |-> src, no |-> no]

Tracked == {k \in Keys : pending[k] # None}

(* What reaches the host: the provider named by the client is mapped to    *)
(* the internal one, in the two fields of the schema only.                 *)
Adapted(f, no) ==
  [no |-> no, id |-> f.id, kind |-> f.kind, method |-> f.method,
   provider |-> IF f.method \in ProviderInRequest /\ f.provider = "public"
                THEN "meta" ELSE f.provider]

WrongProvider_Mutant(f) == f.kind = "call" /\ f.method = "start" /\ f.provider = "other"

WrongProvider(f) ==
  f.kind = "call" /\ f.method \in ProviderInRequest /\ f.provider = "other"

(* read_frame's limit                                                      *)
Oversize(f) == f.kind = "oversized"

(* adapt_client_frame, by its verdicts                                     *)
Dropped(f) == WrongProvider(f) /\ f.id = NoId
Duplicate_Mutant(f) == f.id \in Tracked /\ pending[f.id] = f.method
Duplicate(f) == f.id \in Tracked
Overloaded == Cardinality(Tracked) >= maxPending
IsRequest(f) == f.kind = "call" /\ f.id \in Keys
Rejected(f) ==
  \/ WrongProvider(f) /\ f.id # NoId
  \/ IsRequest(f) /\ (Duplicate(f) \/ Overloaded)

Init ==
  /\ maxPending \in Capacities
  /\ inPc = "read" /\ inFrame = NoFrame
  /\ outPc = "read" /\ outFrame = NoFrame
  /\ pending = [k \in Keys |-> None]
  /\ toHost = <<>> /\ fromHost = <<>> /\ hostOpen = {}
  /\ host = "running" /\ client = "open" /\ signalled = FALSE
  /\ launcher = "wait" /\ status = "none"
  /\ received = <<>> /\ accepted = [k \in Keys |-> 0] /\ emitted = 0
  /\ count = 0 /\ notices = 0 /\ rogue = FALSE

-----------------------------------------------------------------------------
(* The input thread.                                                       *)

Reads ==
  /\ launcher # "done" /\ inPc = "read" /\ client = "open"
  /\ count < MaxFrames /\ count' = count + 1

main == <<launcher, status, maxPending>>
pipes == <<toHost, fromHost, hostOpen, host, emitted, notices, rogue>>

InDrop(f) ==
  /\ Reads /\ ~Oversize(f) /\ Dropped(f)
  /\ UNCHANGED <<relay, received, accepted, client, main, pipes>>

InReject(f) ==
  /\ Reads /\ ~Oversize(f) /\ Rejected(f)
  /\ inPc' = "reject"
  /\ inFrame' = ErrorFor("adapter", IF f.id \in Keys THEN f.id ELSE Null, count + 1)
  /\ UNCHANGED <<outPc, outFrame, pending, signalled, received, accepted, client, main, pipes>>

InAccept_Mutant(f) ==
  /\ Reads /\ ~Oversize(f) /\ ~Dropped(f) /\ ~Rejected(f)
  /\ inPc' = "forward" /\ inFrame' = Adapted(f, count + 1)
  /\ pending' = IF IsRequest(f) /\ f.method \in ProviderInResult
                THEN [pending EXCEPT ![f.id] = f.method] ELSE pending
  /\ accepted' = IF IsRequest(f) THEN [accepted EXCEPT ![f.id] = @ + 1] ELSE accepted
  /\ UNCHANGED <<outPc, outFrame, signalled, received, client, main, pipes>>

(* The request is in the map before the host can see it.                   *)
InAccept(f) ==
  /\ Reads /\ ~Oversize(f) /\ ~Dropped(f) /\ ~Rejected(f)
  /\ inPc' = "forward" /\ inFrame' = Adapted(f, count + 1)
  /\ pending' = IF IsRequest(f) THEN [pending EXCEPT ![f.id] = f.method] ELSE pending
  /\ accepted' = IF IsRequest(f) THEN [accepted EXCEPT ![f.id] = @ + 1] ELSE accepted
  /\ UNCHANGED <<outPc, outFrame, signalled, received, client, main, pipes>>

(* An error ends the thread, which terminates the host on its way out.     *)
InOversized(f) ==
  /\ Reads /\ Oversize(f)
  /\ inPc' = "failed" /\ signalled' = TRUE
  /\ UNCHANGED <<inFrame, outPc, outFrame, pending, received, accepted, client, main, pipes>>

InForward ==
  /\ launcher # "done" /\ inPc = "forward"
  /\ IF host = "running"
     THEN /\ toHost' = Append(toHost, inFrame)
          /\ inPc' = "read" /\ UNCHANGED signalled
     ELSE /\ inPc' = "failed" /\ signalled' = TRUE    \* EPIPE
          /\ UNCHANGED toHost
  /\ inFrame' = NoFrame
  /\ UNCHANGED <<outPc, outFrame, pending, fromHost, hostOpen, host, emitted, notices, rogue,
                 received, accepted, client, main, count>>

InWriteRejection ==
  /\ launcher # "done" /\ inPc = "reject"
  /\ IF client # "gone"
     THEN /\ received' = Append(received, inFrame)
          /\ inPc' = "read" /\ UNCHANGED signalled
     ELSE /\ inPc' = "failed" /\ signalled' = TRUE
          /\ UNCHANGED received
  /\ inFrame' = NoFrame
  /\ UNCHANGED <<outPc, outFrame, pending, accepted, count, client, main, pipes>>

(* The client closed its end: the thread returns and drops the host's      *)
(* stdin.                                                                  *)
InEof ==
  /\ launcher # "done" /\ inPc = "read" /\ client # "open"
  /\ inPc' = "done"
  /\ UNCHANGED <<inFrame, outPc, outFrame, pending, signalled, received, accepted, count,
                 client, main, pipes>>
-----------------------------------------------------------------------------
(* The output thread.                                                      *)

(* adapt_provider on the fields the schema names for this frame.           *)
BadProvider(f) == f.provider = "other"
Mapped(f) == [f EXCEPT !.provider = IF f.provider = "meta" THEN "public" ELSE f.provider]

IsAnswer(f) == f.kind = "response" /\ f.id \in Keys

Invalid_Mutant(f) ==
  \/ f.kind = "malformed"
  \/ f.kind = "notice" /\ f.schema /\ BadProvider(f)
  \/ f.kind = "response" /\ f.id \notin Keys
  \/ IsAnswer(f) /\ f.body \in {"both", "neither"}
  \/ IsAnswer(f) /\ f.id \notin Tracked
  \/ IsAnswer(f) /\ f.body = "result" /\ pending[f.id] \in ProviderInResult /\ BadProvider(f)

(* adapt_server_frame bails out.                                           *)
Invalid(f) ==
  \/ f.kind = "malformed"
  \/ f.kind = "notice" /\ f.schema /\ BadProvider(f)
  \/ f.kind = "response" /\ f.id \notin Keys
  \/ IsAnswer(f) /\ f.body \in {"both", "neither"}
  \/ IsAnswer(f) /\ f.body = "result" /\ f.id \notin Tracked
  \/ IsAnswer(f) /\ f.body = "result" /\ pending[f.id] \in ProviderInResult /\ BadProvider(f)

AdaptServer(f) ==
  IF \/ f.kind = "notice" /\ f.schema
     \/ IsAnswer(f) /\ f.body = "result" /\ pending[f.id] \in ProviderInResult
  THEN Mapped(f) ELSE f

Resolve_Mutant(f) ==
  pending' = IF IsAnswer(f) /\ f.body = "error"
             THEN [pending EXCEPT ![f.id] = None] ELSE pending

(* The entry is removed once the envelope is valid, whatever follows.      *)
Resolve(f) ==
  pending' = IF IsAnswer(f) /\ f.body \in {"result", "error"}
             THEN [pending EXCEPT ![f.id] = None] ELSE pending

OutAdapt ==
  /\ launcher # "done" /\ outPc = "read" /\ fromHost # <<>>
  /\ LET f == Head(fromHost) IN
       /\ ~Invalid(f)
       /\ Resolve(f)
       /\ outFrame' = AdaptServer(f)
  /\ outPc' = "write"
  /\ fromHost' = Tail(fromHost)
  /\ UNCHANGED <<inPc, inFrame, signalled, toHost, hostOpen, host, emitted, notices, rogue,
                 received, accepted, count, client, main>>

OutRefuse ==
  /\ launcher # "done" /\ outPc = "read" /\ fromHost # <<>>
  /\ LET f == Head(fromHost) IN Invalid(f) /\ Resolve(f)
  /\ outPc' = "failed" /\ signalled' = TRUE
  /\ fromHost' = Tail(fromHost)
  /\ UNCHANGED <<inPc, inFrame, outFrame, toHost, hostOpen, host, emitted, notices, rogue,
                 received, accepted, count, client, main>>

OutWrite ==
  /\ launcher # "done" /\ outPc = "write"
  /\ IF client # "gone"
     THEN /\ received' = Append(received, outFrame)
          /\ outPc' = "read" /\ UNCHANGED signalled
     ELSE /\ outPc' = "failed" /\ signalled' = TRUE
          /\ UNCHANGED received
  /\ outFrame' = NoFrame
  /\ UNCHANGED <<inPc, inFrame, pending, accepted, count, client, main, pipes>>

OutEof ==
  /\ launcher # "done" /\ outPc = "read" /\ fromHost = <<>> /\ host # "running"
  /\ outPc' = "done"
  /\ UNCHANGED <<inPc, inFrame, outFrame, pending, signalled, received, accepted, count,
                 client, main, pipes>>
-----------------------------------------------------------------------------
(* The launcher: wait for the host, then MspRelay::finish.                 *)

session == <<relay, received, accepted, count, client, maxPending>>

Reap ==
  /\ launcher = "wait" /\ host = "exited"
  /\ host' = "reaped" /\ launcher' = "join"
  /\ UNCHANGED <<session, status, toHost, fromHost, hostOpen, emitted, notices, rogue>>

JoinOutput_Mutant ==
  /\ launcher = "join"
  /\ launcher' = "check"
  /\ UNCHANGED <<session, status, pipes>>

JoinOutput ==
  /\ launcher = "join" /\ outPc \in {"done", "failed"}
  /\ launcher' = "check"
  /\ UNCHANGED <<session, status, pipes>>

JoinInput_Mutant ==
  /\ launcher = "check" /\ inPc \in {"done", "failed"}
  /\ launcher' = "drop"
  /\ status' = IF outPc = "failed" \/ inPc = "failed" THEN "error" ELSE "ok"
  /\ UNCHANGED <<session, pipes>>

(* The input thread is joined only if it has finished.                     *)
JoinInput ==
  /\ launcher = "check"
  /\ launcher' = "drop"
  /\ status' = IF outPc = "failed" \/ inPc = "failed" THEN "error" ELSE "ok"
  /\ UNCHANGED <<session, pipes>>

(* The gateway is dropped, which takes a while, and the process returns.   *)
Return ==
  /\ launcher = "drop" /\ launcher' = "done"
  /\ UNCHANGED <<session, status, pipes>>
-----------------------------------------------------------------------------
(* The client and the host (external).                                     *)

ClientCloses ==
  /\ launcher # "done" /\ client = "open" /\ client' = "eof"
  /\ UNCHANGED <<relay, received, accepted, count, main, pipes>>

ClientLeaves ==
  /\ launcher # "done" /\ client # "gone" /\ client' = "gone"
  /\ UNCHANGED <<relay, received, accepted, count, main, pipes>>

Emits(f) == fromHost' = Append(fromHost, f) /\ emitted' = emitted + 1

(* The host reads a frame: it takes on a request, and may answer what is   *)
(* none with an error that has no request to name.                         *)
HostRead ==
  /\ host = "running" /\ toHost # <<>>
  /\ LET f == Head(toHost) IN
       \/ /\ f.kind = "call" /\ f.id \in Keys
          /\ hostOpen' = hostOpen \cup {f} /\ UNCHANGED <<fromHost, emitted>>
       \/ /\ f.kind = "call" /\ f.id = NoId /\ UNCHANGED <<hostOpen, fromHost, emitted>>
       \/ /\ f.kind = "opaque" \/ f.id = BadId
          /\ Emits(ErrorFor("host", Null, 0)) \/ UNCHANGED <<fromHost, emitted>>
          /\ UNCHANGED hostOpen
  /\ toHost' = Tail(toHost)
  /\ UNCHANGED <<session, main, host, notices, rogue>>

(* It answers the requests in any order; a result names the provider the   *)
(* host knows, "meta", where the schema has it.                            *)
Answer(q, body) ==
  [kind |-> "response", id |-> q.id, body |-> body,
   provider |-> IF body = "result" /\ q.method \in ProviderInResult THEN "meta" ELSE "none",
   schema |-> body = "result" /\ q.method \in ProviderInResult, src |-> "host", no |-> q.no]

HostAnswer(q) ==
  /\ host = "running"
  /\ \E body \in {"result", "error"} : Emits(Answer(q, body))
  /\ hostOpen' = hostOpen \ {q}
  /\ UNCHANGED <<session, main, toHost, host, notices, rogue>>

Notice == [kind |-> "notice", id |-> NoId, body |-> "neither", provider |-> "meta",
           schema |-> TRUE, src |-> "host", no |-> 0]

HostNotifies ==
  /\ host = "running" /\ notices < MaxNotices
  /\ Emits(Notice)
  /\ notices' = notices + 1
  /\ UNCHANGED <<session, main, toHost, hostOpen, host, rogue>>

HostMisbehaves ==
  /\ host = "running" /\ notices < MaxNotices
  /\ \E f \in RogueFrames : Emits(f)
  /\ notices' = notices + 1 /\ rogue' = TRUE
  /\ UNCHANGED <<session, main, toHost, hostOpen, host>>

(* It stops when its stdin is closed and read, or on SIGTERM; it may also  *)
(* crash, in the middle of a line too, or be signalled from outside.       *)
HostGone == host' = "exited" /\ hostOpen' = {} /\ toHost' = <<>>

HostStops ==
  /\ host = "running"
  /\ signalled \/ (inPc \in {"done", "failed"} /\ toHost = <<>> /\ hostOpen = {})
  /\ HostGone
  /\ UNCHANGED <<session, main, fromHost, emitted, notices, rogue>>

CutLine == [kind |-> "malformed", id |-> NoId, body |-> "neither", provider |-> "none",
            schema |-> FALSE, src |-> "host", no |-> 0]

HostCrashes ==
  /\ host = "running" /\ HostGone
  /\ Emits(CutLine) \/ UNCHANGED <<fromHost, emitted>>
  /\ UNCHANGED <<session, main, notices, rogue>>

Finished == launcher = "done" /\ UNCHANGED vars

Input == \E f \in ClientFrames : InDrop(f) \/ InReject(f) \/ InAccept(f) \/ InOversized(f)

Next ==
  \/ Input \/ InForward \/ InWriteRejection \/ InEof
  \/ OutAdapt \/ OutRefuse \/ OutWrite \/ OutEof
  \/ Reap \/ JoinOutput \/ JoinInput \/ Return
  \/ HostRead \/ (\E q \in hostOpen : HostAnswer(q)) \/ HostNotifies \/ HostMisbehaves
  \/ HostStops \/ HostCrashes
  \/ ClientCloses \/ ClientLeaves
  \/ Finished

Spec == Init /\ [][Next]_vars

(* Threads run; the host reads its stdin, answers what it took on, and     *)
(* stops when told.  Nothing makes the client send, close or leave.        *)
FairSpec ==
  /\ Spec
  /\ WF_vars(InForward \/ InWriteRejection \/ InEof)
  /\ WF_vars(OutAdapt \/ OutRefuse \/ OutWrite \/ OutEof)
  /\ WF_vars(Reap \/ JoinOutput \/ JoinInput \/ Return)
  /\ WF_vars(HostRead) /\ WF_vars(HostStops)
  /\ WF_vars(\E q \in hostOpen : HostAnswer(q))
-----------------------------------------------------------------------------
(* The internal provider name stays inside: no field the schema names      *)
(* reaches the client with "meta" or a provider this launch does not       *)
(* serve, in any notification, nor in any answer until the host breaks the *)
(* protocol (an answer given twice can meet a later request of its id and  *)
(* be read by the schema of that one); and the host is never asked for a   *)
(* provider other than its own.                                            *)
ProviderBoundary ==
  /\ \A i \in DOMAIN received :
       received[i].schema /\ (received[i].kind = "notice" \/ ~rogue) =>
         received[i].provider \in {"none", "public"}
  /\ \A c \in hostOpen \cup {toHost[i] : i \in DOMAIN toHost} :
       c.kind = "call" /\ c.method \in ProviderInRequest => c.provider \in {"absent", "meta"}

(* Every result is paired with a request: over the whole session a client  *)
(* gets no more results for an id than it had requests of that id taken,   *)
(* whatever the host emits and however ids are reused.                     *)
ResultsPaired ==
  \A k \in Keys :
    Cardinality({i \in DOMAIN received :
                   received[i].kind = "response" /\ received[i].id = k
                     /\ received[i].body = "result"}) <= accepted[k]

(* The calls on their way: with the input thread, in the pipe, with the    *)
(* host, or answered in the pipe back.                                     *)
InFlight(k) ==
  (IF inPc = "forward" /\ inFrame.kind = "call" /\ inFrame.id = k THEN {inFrame.no} ELSE {})
  \cup {toHost[i].no : i \in {j \in DOMAIN toHost : toHost[j].kind = "call" /\ toHost[j].id = k}}
  \cup {c.no : c \in {d \in hostOpen : d.id = k}}
  \cup {fromHost[i].no : i \in {j \in DOMAIN fromHost : fromHost[j].no # 0 /\ fromHost[j].id = k}}

(* The map never holds more than MAX_PENDING_REQUESTS ids; and while the  *)
(* host runs by the protocol it holds an id exactly as long as one call    *)
(* with it is on its way to, at or back from the host, and never two: no   *)
(* entry leaks and none is gone before its answer is read.                 *)
PendingExact ==
  /\ Cardinality(Tracked) <= maxPending
  /\ host = "running" /\ ~rogue =>
       \A k \in Keys : Cardinality(InFlight(k)) = IF k \in Tracked THEN 1 ELSE 0

(* "A successful result with no tracked request is never legitimate"       *)
(* (adapt_server_frame): no answer of the host to a request the relay      *)
(* forwarded is refused, as long as the host keeps to the protocol.        *)
AnswersPass ==
  ~rogue /\ outPc = "read" /\ fromHost # <<>> /\ Head(fromHost).no # 0
    => ~Invalid(Head(fromHost))

(* "all provider-mapped output is flushed before the launcher returns"     *)
(* (MspRelay): when the launcher reports success, the client was given     *)
(* every frame the host ever wrote.                                        *)
FlushedBeforeReturn ==
  status = "ok" =>
    Cardinality({i \in DOMAIN received : received[i].src = "host"}) = emitted

(* Shutdown never waits for the client: once the host is gone, or a thread *)
(* has ended, the launcher returns, though the input thread may be blocked *)
(* reading a stdin that stays open.                                        *)
ShutsDown ==
  (inPc \in {"done", "failed"} \/ outPc = "failed" \/ host # "running") ~> launcher = "done"

Taken(n) == inPc = "forward" /\ inFrame.no = n /\ inFrame.kind = "call" /\ inFrame.id \in Keys
Answered(n) == \E i \in DOMAIN received : received[i].no = n

(* A request taken while the host runs is answered, unless the client      *)
(* goes, the input ends in an error, the host breaks the protocol, or it   *)
(* dies of something else than the relay.                                  *)
EveryRequestAnswered ==
  \A n \in 1..MaxFrames :
    (Taken(n) /\ host = "running" /\ ~signalled)
      ~> Answered(n) \/ client = "gone" \/ inPc = "failed" \/ rogue
         \/ (host # "running" /\ ~signalled)
=============================================================================
