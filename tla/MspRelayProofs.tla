--------------------------- MODULE MspRelayProofs ---------------------------
(***************************************************************************)
(* The safety of the MSP relay, for every set of ids, every capacity, any  *)
(* number of frames, and a host that may break the protocol or die.        *)
(***************************************************************************)
EXTENDS MspRelay, FiniteSetTheorems, TLAPS

(* The relay cannot tell the host's error without an id from one for the   *)
(* request with the id null, so what is exact about the map is exact for   *)
(* clients that do not use null as an id.                                  *)
NoNullIds == \A f \in ClientFrames : f.id # Null

HostFrame ==
  [no : 1..MaxFrames, id : Keys \cup {NoId, BadId}, kind : {"call", "opaque"},
   method : Methods, provider : {"absent", "public", "other", "meta"}]

IsCall(f) == f.kind = "call" /\ f.id \in Keys
Forwarding == inPc = "forward" /\ IsCall(inFrame)

TypeInv ==
  /\ maxPending \in Nat /\ count \in 0..MaxFrames
  /\ inPc \in {"read", "forward", "reject", "done", "failed"}
  /\ inPc = "forward" => inFrame \in HostFrame
  /\ inPc = "reject" => inFrame \in ServerFrame
  /\ outPc \in {"read", "write", "done", "failed"} /\ outFrame \in ServerFrame
  /\ pending \in [Keys -> Methods \cup {None}]
  /\ toHost \in Seq(HostFrame) /\ \A q \in hostOpen : q \in HostFrame /\ IsCall(q)
  /\ fromHost \in Seq(ServerFrame) /\ received \in Seq(ServerFrame)
  /\ accepted \in [Keys -> Nat] /\ emitted \in Nat
  /\ rogue \in BOOLEAN

(* The map is finite and within its capacity.                              *)
MapInv == IsFiniteSet(Tracked) /\ Cardinality(Tracked) <= maxPending

(* What goes to the host names no provider but its own.                    *)
Asks(f) == f.kind = "call" /\ f.method \in ProviderInRequest => f.provider \in {"absent", "meta"}
AskInv ==
  /\ inPc = "forward" => Asks(inFrame)
  /\ \A i \in DOMAIN toHost : Asks(toHost[i])
  /\ \A q \in hostOpen : Asks(q)

(* A frame of the host: an answer to a call, or nothing with a result.     *)
Sound(f) ==
  \/ /\ f.no # 0 /\ f.kind = "response" /\ f.id \in Keys /\ f.body \in {"result", "error"}
     /\ f.provider \in {"none", "meta"}
     /\ f.schema => f.body = "result" /\ pending[f.id] \in ProviderInResult
  \/ /\ f.no = 0
     /\ f.schema => f.kind = "notice"
     /\ f.kind = "response" => f.id = Null

(* Every call on its way is in the map, under its method, and it is the    *)
(* only one on its way with its id: with the input thread, in the pipe, at *)
(* the host, or answered in the pipe back.                                 *)
InIn == Forwarding => pending[inFrame.id] = inFrame.method
ToIn ==
  \A i \in DOMAIN toHost : IsCall(toHost[i]) =>
    /\ pending[toHost[i].id] = toHost[i].method
    /\ Forwarding => toHost[i].id # inFrame.id
    /\ \A j \in DOMAIN toHost : IsCall(toHost[j]) /\ toHost[j].id = toHost[i].id => j = i
OpenIn ==
  \A q \in hostOpen :
    /\ pending[q.id] = q.method
    /\ Forwarding => q.id # inFrame.id
    /\ \A j \in DOMAIN toHost : IsCall(toHost[j]) => toHost[j].id # q.id
    /\ \A p \in hostOpen : p.id = q.id => p = q
BackIn ==
  \A i \in DOMAIN fromHost : fromHost[i].no # 0 =>
    /\ pending[fromHost[i].id] # None
    /\ Forwarding => fromHost[i].id # inFrame.id
    /\ \A j \in DOMAIN toHost : IsCall(toHost[j]) => toHost[j].id # fromHost[i].id
    /\ \A q \in hostOpen : q.id # fromHost[i].id
    /\ \A j \in DOMAIN fromHost : fromHost[j].no # 0 /\ fromHost[j].id = fromHost[i].id => j = i
SoundIn == \A i \in DOMAIN fromHost : Sound(fromHost[i])

(* And while the host runs, what is in the map is on its way.              *)
OnWay(k) ==
  \/ Forwarding /\ inFrame.id = k
  \/ \E i \in DOMAIN toHost : IsCall(toHost[i]) /\ toHost[i].id = k
  \/ \E q \in hostOpen : q.id = k
  \/ \E i \in DOMAIN fromHost : fromHost[i].no # 0 /\ fromHost[i].id = k
WayIn == host = "running" => \A k \in Tracked : OnWay(k)

Paired == InIn /\ ToIn /\ OpenIn /\ BackIn /\ SoundIn /\ WayIn /\ pending[Null] = None
PairInv == ~rogue => Paired

(* Nothing the client gets names a provider it should not see.             *)
Clean(f) == f.schema /\ (f.kind = "notice" \/ ~rogue) => f.provider \in {"none", "public"}
CleanInv ==
  /\ inPc = "reject" => ~inFrame.schema
  /\ outPc = "write" => Clean(outFrame)
  /\ \A i \in DOMAIN received : Clean(received[i])

(* The results for an id: given to the client, about to be, or owed.       *)
IsResult(f, k) == f.kind = "response" /\ f.id = k /\ f.body = "result"
Results(k) == {i \in DOMAIN received : IsResult(received[i], k)}
Due(k) == IF outPc = "write" /\ IsResult(outFrame, k) THEN 1 ELSE 0
Owed(k) == IF k \in Tracked THEN 1 ELSE 0
ResultInv ==
  /\ inPc = "reject" => inFrame.body = "error"
  /\ \A k \in Keys : Cardinality(Results(k)) + Due(k) + Owed(k) <= accepted[k]

(* The host's frames: given to the client, about to be, or in the pipe.    *)
Given == {i \in DOMAIN received : received[i].src = "host"}
InHand == IF outPc = "write" THEN 1 ELSE 0
FlushInv ==
  /\ inPc = "reject" => inFrame.src = "adapter"
  /\ outPc = "write" => outFrame.src = "host"
  /\ \A i \in DOMAIN fromHost : fromHost[i].src = "host"
  /\ outPc # "failed" => Cardinality(Given) + InHand + Len(fromHost) = emitted
  /\ outPc = "done" => fromHost = <<>> /\ host # "running"
  /\ launcher \in {"check", "drop", "done"} => outPc \in {"done", "failed"}
  /\ status = "ok" => outPc = "done"
-----------------------------------------------------------------------------
(* The frames the relay and the host make (rejection_frame and the answers *)
(* of the host) are frames.                                                *)
LEMMA ErrorType ==
  ASSUME NEW src \in {"host", "adapter"}, NEW id \in Keys, NEW no \in 0..MaxFrames
  PROVE  /\ ErrorFor(src, id, no) \in ServerFrame
         /\ ErrorFor(src, id, no).kind = "response" /\ ErrorFor(src, id, no).id = id
         /\ ErrorFor(src, id, no).body = "error" /\ ~ErrorFor(src, id, no).schema
         /\ ErrorFor(src, id, no).src = src /\ ErrorFor(src, id, no).no = no
BY DEF ErrorFor, ServerFrame

(* Notifications and cut lines of the host are frames.                     *)
LEMMA NoticeType ==
  /\ Notice \in ServerFrame /\ Notice.kind = "notice" /\ Notice.src = "host" /\ Notice.no = 0
  /\ CutLine \in ServerFrame /\ CutLine.kind = "malformed" /\ CutLine.src = "host"
  /\ CutLine.no = 0 /\ ~CutLine.schema
  /\ NoFrame \in ServerFrame
<1>1. MaxFrames \in Nat
  BY ConstantsAssumption
<1> QED BY <1>1 DEF ServerFrame, Notice, CutLine, NoFrame

(* An answer of the host to a call it took on.                             *)
LEMMA AnswerType ==
  ASSUME NEW q \in HostFrame, IsCall(q), NEW body \in {"result", "error"}
  PROVE  /\ Answer(q, body) \in ServerFrame
         /\ Answer(q, body).kind = "response" /\ Answer(q, body).id = q.id
         /\ Answer(q, body).body = body /\ Answer(q, body).no = q.no
         /\ Answer(q, body).src = "host" /\ Answer(q, body).provider \in {"none", "meta"}
         /\ Answer(q, body).schema => body = "result" /\ q.method \in ProviderInResult
<1>1. q.no \in 0..MaxFrames /\ q.id \in Keys
  BY DEF HostFrame, IsCall
<1>2. (body = "result" /\ q.method \in ProviderInResult) \in BOOLEAN
  OBVIOUS
<1> QED BY <1>1, <1>2 DEF Answer, ServerFrame

(* Mapping the provider of a frame (adapt_provider) changes nothing else.  *)
LEMMA AdaptType ==
  ASSUME NEW f \in ServerFrame
  PROVE  /\ AdaptServer(f) \in ServerFrame
         /\ AdaptServer(f).kind = f.kind /\ AdaptServer(f).id = f.id
         /\ AdaptServer(f).body = f.body /\ AdaptServer(f).src = f.src
         /\ AdaptServer(f).schema = f.schema
         /\ AdaptServer(f).provider \in {f.provider, "public"}
         /\ \/ f.kind = "notice" /\ f.schema
            \/ IsAnswer(f) /\ f.body = "result" /\ pending[f.id] \in ProviderInResult
            => AdaptServer(f).provider = IF f.provider = "meta" THEN "public" ELSE f.provider
<1>1. /\ Mapped(f) \in ServerFrame
      /\ Mapped(f).kind = f.kind /\ Mapped(f).id = f.id
      /\ Mapped(f).body = f.body /\ Mapped(f).src = f.src /\ Mapped(f).schema = f.schema
      /\ Mapped(f).provider = IF f.provider = "meta" THEN "public" ELSE f.provider
  BY DEF Mapped, ServerFrame
<1> QED BY <1>1 DEF AdaptServer

(* What adapt_client_frame sends on is a frame for the host, which asks    *)
(* for no provider but its own.                                            *)
LEMMA AdaptedType ==
  ASSUME NEW f \in ClientFrame, NEW no \in 1..MaxFrames, ~Oversize(f), ~WrongProvider(f)
  PROVE  /\ Adapted(f, no) \in HostFrame /\ Asks(Adapted(f, no))
         /\ Adapted(f, no).kind = f.kind /\ Adapted(f, no).id = f.id
         /\ Adapted(f, no).method = f.method
BY DEF Adapted, HostFrame, ClientFrame, Oversize, WrongProvider, Asks

(* Pipes: what a write and a read do to a sequence.                        *)
LEMMA AppendFacts ==
  ASSUME NEW S, NEW s \in Seq(S), NEW x \in S
  PROVE  /\ Append(s, x) \in Seq(S) /\ Len(Append(s, x)) = Len(s) + 1 /\ Len(s) \in Nat
         /\ DOMAIN Append(s, x) = DOMAIN s \cup {Len(s) + 1} /\ Len(s) + 1 \notin DOMAIN s
         /\ Append(s, x)[Len(s) + 1] = x
         /\ \A i \in DOMAIN s : Append(s, x)[i] = s[i]
OBVIOUS

(* And what a read leaves of it.                                           *)
LEMMA TailFacts ==
  ASSUME NEW S, NEW s \in Seq(S), s # <<>>
  PROVE  /\ Tail(s) \in Seq(S) /\ Len(Tail(s)) = Len(s) - 1 /\ Len(s) \in Nat
         /\ Head(s) = s[1] /\ 1 \in DOMAIN s /\ Head(s) \in S
         /\ \A i \in DOMAIN Tail(s) : i + 1 \in DOMAIN s /\ i + 1 # 1 /\ Tail(s)[i] = s[i + 1]
         /\ \A i \in DOMAIN s : i # 1 => i - 1 \in DOMAIN Tail(s) /\ Tail(s)[i - 1] = s[i]
         /\ \A i \in DOMAIN Tail(s) : i \in Nat
         /\ \A i \in DOMAIN s : i \in Nat
OBVIOUS

(* What the host writes comes last in its pipe and is counted.             *)
LEMMA EmitFacts ==
  ASSUME TypeInv, NEW f \in ServerFrame, Emits(f)
  PROVE  /\ fromHost' \in Seq(ServerFrame) /\ emitted' \in Nat /\ emitted' = emitted + 1
         /\ Len(fromHost') = Len(fromHost) + 1 /\ Len(fromHost) \in Nat
         /\ DOMAIN fromHost' = DOMAIN fromHost \cup {Len(fromHost) + 1}
         /\ Len(fromHost) + 1 \notin DOMAIN fromHost
         /\ fromHost'[Len(fromHost) + 1] = f
         /\ \A i \in DOMAIN fromHost : fromHost'[i] = fromHost[i]
<1>1. fromHost' = Append(fromHost, f) /\ emitted' = emitted + 1
  BY DEF Emits
<1>2. fromHost \in Seq(ServerFrame) /\ emitted \in Nat
  BY DEF TypeInv
<1> QED BY <1>1, <1>2, AppendFacts
-----------------------------------------------------------------------------
(* The relay starts well typed.                                            *)
LEMMA TypeInit == Init => TypeInv
<1> SUFFICES ASSUME Init PROVE TypeInv
  OBVIOUS
<1>1. maxPending \in Nat /\ count \in 0..MaxFrames
  BY ConstantsAssumption DEF Init
<1>2. pending \in [Keys -> Methods \cup {None}] /\ accepted \in [Keys -> Nat]
  BY DEF Init
<1>3. /\ toHost \in Seq(HostFrame) /\ fromHost \in Seq(ServerFrame)
      /\ received \in Seq(ServerFrame) /\ outFrame \in ServerFrame
  BY NoticeType DEF Init
<1> QED BY <1>1, <1>2, <1>3 DEF Init, TypeInv

(* Every step of the threads, the launcher, the client and the host keeps  *)
(* the types.                                                              *)
LEMMA TypeStep ==
  ASSUME TypeInv, [Next]_vars
  PROVE  TypeInv'
<1> USE DEF TypeInv
<1>1. CASE Input
  <2>1. PICK f \in ClientFrames : InDrop(f) \/ InReject(f) \/ InAccept(f) \/ InOversized(f)
    BY <1>1 DEF Input
  <2>2. f \in ClientFrame /\ MaxFrames \in Nat
    BY ConstantsAssumption
  <2>3. count' = count + 1 /\ count' \in 0..MaxFrames /\ count + 1 \in 1..MaxFrames
    BY <2>1, <2>2 DEF InDrop, InReject, InAccept, InOversized, Reads
  <2>4. CASE InDrop(f) \/ InOversized(f)
    BY <2>3, <2>4 DEF InDrop, InOversized, Reads, relay, main, pipes
  <2>5. CASE InReject(f)
    <3>1. ErrorFor("adapter", IF f.id \in Keys THEN f.id ELSE Null, count + 1) \in ServerFrame
      BY <2>3, ErrorType DEF Keys
    <3> QED BY <2>3, <2>5, <3>1 DEF InReject, main, pipes
  <2>6. CASE InAccept(f)
    <3>1. Adapted(f, count + 1) \in HostFrame
      BY <2>2, <2>3, <2>6, AdaptedType DEF InAccept, Dropped, Rejected
    <3>2. pending' \in [Keys -> Methods \cup {None}] /\ accepted' \in [Keys -> Nat]
      BY <2>2, <2>6 DEF InAccept, IsRequest, ClientFrame
    <3> QED BY <2>3, <2>6, <3>1, <3>2 DEF InAccept, main, pipes
  <2> QED BY <2>1, <2>4, <2>5, <2>6
<1>2. CASE InForward
  <2>1. CASE host = "running"
    <3>1. toHost' = Append(toHost, inFrame) /\ inFrame \in HostFrame
      BY <1>2, <2>1 DEF InForward
    <3>2. toHost' \in Seq(HostFrame)
      BY <3>1, AppendFacts
    <3> QED BY <1>2, <2>1, <3>2 DEF InForward, main
  <2>2. CASE host # "running"
    BY <1>2, <2>2 DEF InForward, main
  <2> QED BY <2>1, <2>2
<1>3. CASE InWriteRejection
  <2>1. CASE client # "gone"
    <3>1. received' = Append(received, inFrame) /\ inFrame \in ServerFrame
      BY <1>3, <2>1 DEF InWriteRejection
    <3>2. received' \in Seq(ServerFrame)
      BY <3>1, AppendFacts
    <3> QED BY <1>3, <2>1, <3>2 DEF InWriteRejection, main, pipes
  <2>2. CASE client = "gone"
    BY <1>3, <2>2 DEF InWriteRejection, main, pipes
  <2> QED BY <2>1, <2>2
<1>4. CASE InEof \/ OutEof
  BY <1>4 DEF InEof, OutEof, main, pipes
<1>5. CASE OutAdapt
  <2>1. Head(fromHost) \in ServerFrame /\ Tail(fromHost) \in Seq(ServerFrame)
    BY <1>5, TailFacts DEF OutAdapt
  <2>2. AdaptServer(Head(fromHost)) \in ServerFrame
    BY <2>1, AdaptType
  <2> QED BY <1>5, <2>1, <2>2 DEF OutAdapt, Resolve, main
<1>6. CASE OutRefuse
  BY <1>6, TailFacts DEF OutRefuse, Resolve, main
<1>7. CASE OutWrite
  <2>1. CASE client # "gone"
    <3>1. received' = Append(received, outFrame)
      BY <1>7, <2>1 DEF OutWrite
    <3>2. received' \in Seq(ServerFrame)
      BY <3>1, AppendFacts
    <3> QED BY <1>7, <2>1, <3>2, NoticeType DEF OutWrite, main, pipes
  <2>2. CASE client = "gone"
    BY <1>7, <2>2, NoticeType DEF OutWrite, main, pipes
  <2> QED BY <2>1, <2>2
<1>8. CASE Reap \/ JoinOutput \/ JoinInput \/ Return
  BY <1>8 DEF Reap, JoinOutput, JoinInput, Return, session, relay, pipes
<1>9. CASE HostRead
  <2>1. Head(toHost) \in HostFrame /\ Tail(toHost) \in Seq(HostFrame)
    BY <1>9, TailFacts DEF HostRead
  <2>2. ErrorFor("host", Null, 0) \in ServerFrame
    BY ConstantsAssumption, ErrorType DEF Keys
  <2>3. fromHost' \in Seq(ServerFrame) /\ emitted' \in Nat
    <3>1. CASE Emits(ErrorFor("host", Null, 0))
      BY <2>2, <3>1, EmitFacts
    <3>2. CASE UNCHANGED <<fromHost, emitted>>
      BY <3>2
    <3> QED BY <1>9, <3>1, <3>2 DEF HostRead
  <2>4. \A q \in hostOpen' : q \in HostFrame /\ IsCall(q)
    BY <1>9, <2>1 DEF HostRead, Emits, IsCall
  <2> QED BY <1>9, <2>1, <2>3, <2>4 DEF HostRead, session, relay, main
<1>10. ASSUME NEW q \in hostOpen, HostAnswer(q) PROVE TypeInv'
  BY <1>10, AnswerType DEF HostAnswer, Emits, session, relay, main
<1>11. CASE HostNotifies
  BY <1>11, NoticeType DEF HostNotifies, Emits, session, relay, main
<1>12. CASE HostMisbehaves
  <2>1. PICK f \in RogueFrames : Emits(f)
    BY <1>12 DEF HostMisbehaves
  <2>2. f \in ServerFrame
    BY ConstantsAssumption
  <2> QED BY <1>12, <2>1, <2>2 DEF HostMisbehaves, Emits, session, relay, main
<1>13. CASE HostStops
  BY <1>13 DEF HostStops, HostGone, session, relay, main
<1>14. CASE HostCrashes
  <2>1. fromHost' \in Seq(ServerFrame) /\ emitted' \in Nat
    <3>1. CASE Emits(CutLine)
      BY <3>1, NoticeType, EmitFacts
    <3>2. CASE UNCHANGED <<fromHost, emitted>>
      BY <3>2
    <3> QED BY <1>14, <3>1, <3>2 DEF HostCrashes
  <2> QED BY <1>14, <2>1 DEF HostCrashes, HostGone, session, relay, main
<1>15. CASE ClientCloses \/ ClientLeaves
  BY <1>15 DEF ClientCloses, ClientLeaves, relay, main, pipes
<1>16. CASE UNCHANGED vars
  BY <1>16 DEF vars
<1> QED
  BY <1>1, <1>2, <1>3, <1>4, <1>5, <1>6, <1>7, <1>8, <1>9, <1>10, <1>11, <1>12, <1>13, <1>14,
     <1>15, <1>16 DEF Next, Finished
-----------------------------------------------------------------------------
(* PendingRequests changes where a request is accepted and where its       *)
(* answer is read, and nowhere else.                                       *)
LEMMA PendingMoves ==
  ASSUME TypeInv, [Next]_vars
  PROVE  /\ maxPending' = maxPending
         /\ \/ pending' = pending
            \/ \E f \in ClientFrames : InAccept(f) /\ IsRequest(f)
            \/ \E k \in Keys : /\ OutAdapt \/ OutRefuse
                              /\ pending' = [pending EXCEPT ![k] = None]
<1>1. CASE Input
  <2>1. PICK f \in ClientFrames : InDrop(f) \/ InReject(f) \/ InAccept(f) \/ InOversized(f)
    BY <1>1 DEF Input
  <2>2. CASE InAccept(f)
    BY <2>2 DEF InAccept, main
  <2>3. CASE InDrop(f) \/ InReject(f) \/ InOversized(f)
    BY <2>3 DEF InDrop, InReject, InOversized, relay, main
  <2> QED BY <2>1, <2>2, <2>3
<1>2. CASE OutAdapt
  BY <1>2 DEF OutAdapt, Resolve, IsAnswer, main
<1>3. CASE OutRefuse
  BY <1>3 DEF OutRefuse, Resolve, IsAnswer, main
<1>4. CASE \/ InForward \/ InWriteRejection \/ InEof \/ OutWrite \/ OutEof
  BY <1>4 DEF InForward, InWriteRejection, InEof, OutWrite, OutEof, main
<1>5. CASE Reap \/ JoinOutput \/ JoinInput \/ Return
  BY <1>5 DEF Reap, JoinOutput, JoinInput, Return, session, relay
<1>6. CASE HostRead \/ (\E q \in hostOpen : HostAnswer(q)) \/ HostNotifies \/ HostMisbehaves
  BY <1>6 DEF HostRead, HostAnswer, HostNotifies, HostMisbehaves, session, relay
<1>7. CASE HostStops \/ HostCrashes \/ ClientCloses \/ ClientLeaves
  BY <1>7 DEF HostStops, HostCrashes, ClientCloses, ClientLeaves, session, relay, main
<1>8. CASE UNCHANGED vars
  BY <1>8 DEF vars
<1> QED BY <1>1, <1>2, <1>3, <1>4, <1>5, <1>6, <1>7, <1>8 DEF Next, Finished

(* The map starts empty.                                                   *)
LEMMA MapInit == Init => MapInv
<1> SUFFICES ASSUME Init PROVE MapInv
  OBVIOUS
<1>1. Tracked = {}
  BY DEF Init, Tracked
<1>2. maxPending \in Nat
  BY ConstantsAssumption DEF Init
<1> QED BY <1>1, <1>2, FS_EmptySet DEF MapInv

(* adapt_client_frame refuses a request when the map is full, so the map   *)
(* never outgrows MAX_PENDING_REQUESTS.                                    *)
LEMMA MapStep ==
  ASSUME TypeInv, MapInv, [Next]_vars
  PROVE  MapInv'
<1>0. maxPending' = maxPending /\ pending \in [Keys -> Methods \cup {None}] /\ maxPending \in Nat
  BY PendingMoves DEF TypeInv
<1>1. CASE pending' = pending
  <2>1. Tracked' = Tracked
    BY <1>1 DEF Tracked
  <2> QED BY <1>0, <2>1 DEF MapInv
<1>2. CASE \E f \in ClientFrames : InAccept(f) /\ IsRequest(f)
  <2>1. PICK f \in ClientFrames : InAccept(f) /\ IsRequest(f)
    BY <1>2
  <2>2. f \in ClientFrame
    BY ConstantsAssumption
  <2>3. Tracked' = Tracked \cup {f.id}
    BY <1>0, <2>1, <2>2 DEF InAccept, IsRequest, Tracked, ClientFrame, Methods, None,
       ProviderInRequest, ProviderInResult
  <2>4. f.id \notin Tracked /\ ~(Cardinality(Tracked) >= maxPending)
    BY <2>1 DEF InAccept, Rejected, Duplicate, Overloaded
  <2>5. IsFiniteSet(Tracked') /\ Cardinality(Tracked') = Cardinality(Tracked) + 1
    BY <2>3, <2>4, FS_AddElement DEF MapInv
  <2>6. Cardinality(Tracked) \in Nat
    BY FS_CardinalityType DEF MapInv
  <2> QED BY <1>0, <2>4, <2>5, <2>6 DEF MapInv
<1>3. CASE \E k \in Keys : pending' = [pending EXCEPT ![k] = None]
  <2>1. Tracked' \subseteq Tracked
    BY <1>0, <1>3 DEF Tracked
  <2>2. /\ IsFiniteSet(Tracked') /\ Cardinality(Tracked') <= Cardinality(Tracked)
        /\ Cardinality(Tracked) \in Nat /\ Cardinality(Tracked') \in Nat
    BY <2>1, FS_Subset, FS_CardinalityType DEF MapInv
  <2> QED BY <1>0, <2>2 DEF MapInv
<1> QED BY PendingMoves, <1>1, <1>2, <1>3

(* What is forwarded to the host asks for its own provider or none         *)
(* (adapt_client_frame rejects the rest).                                  *)
LEMMA AskStep ==
  ASSUME TypeInv, AskInv, [Next]_vars
  PROVE  AskInv'
<1>1. CASE Input
  <2>1. PICK f \in ClientFrames : InDrop(f) \/ InReject(f) \/ InAccept(f) \/ InOversized(f)
    BY <1>1 DEF Input
  <2>2. f \in ClientFrame /\ count + 1 \in 1..MaxFrames
    BY <2>1, ConstantsAssumption DEF InDrop, InReject, InAccept, InOversized, Reads, TypeInv
  <2>3. toHost' = toHost /\ hostOpen' = hostOpen
    BY <2>1 DEF InDrop, InReject, InAccept, InOversized, pipes
  <2>4. inPc' = "forward" => Asks(inFrame')
    <3>1. CASE InAccept(f)
      BY <2>2, <3>1, AdaptedType DEF InAccept, Dropped, Rejected
    <3>2. CASE InDrop(f) \/ InReject(f) \/ InOversized(f)
      BY <3>2 DEF InDrop, InReject, InOversized, relay, Reads
    <3> QED BY <2>1, <3>1, <3>2
  <2> QED BY <2>3, <2>4 DEF AskInv, Asks
<1>2. CASE InForward
  <2>1. inPc' # "forward" /\ hostOpen' = hostOpen
    BY <1>2 DEF InForward
  <2>2. CASE host = "running"
    <3>1. toHost' = Append(toHost, inFrame) /\ inFrame \in HostFrame /\ Asks(inFrame)
      BY <1>2, <2>2 DEF InForward, TypeInv, AskInv
    <3>2. toHost \in Seq(HostFrame)
      BY DEF TypeInv
    <3>3. \A i \in DOMAIN toHost' : Asks(toHost'[i])
      BY <3>1, <3>2, AppendFacts DEF AskInv
    <3> QED BY <2>1, <3>3 DEF AskInv, Asks
  <2>3. CASE host # "running"
    BY <1>2, <2>1, <2>3 DEF InForward, AskInv, Asks
  <2> QED BY <2>2, <2>3
<1>3. CASE HostRead
  <2>1. toHost \in Seq(HostFrame) /\ toHost # <<>> /\ toHost' = Tail(toHost)
    BY <1>3 DEF HostRead, TypeInv
  <2>2. \A i \in DOMAIN toHost' : Asks(toHost'[i])
    BY <2>1, TailFacts DEF AskInv
  <2>3. Asks(Head(toHost))
    BY <2>1, TailFacts DEF AskInv
  <2>4. hostOpen' \subseteq hostOpen \cup {Head(toHost)}
    BY <1>3 DEF HostRead
  <2>5. UNCHANGED <<inPc, inFrame>>
    BY <1>3 DEF HostRead, session, relay
  <2> QED BY <2>2, <2>3, <2>4, <2>5 DEF AskInv, Asks
<1>4. CASE HostStops \/ HostCrashes
  <2>1. toHost' = <<>> /\ hostOpen' = {} /\ UNCHANGED <<inPc, inFrame>>
    BY <1>4 DEF HostStops, HostCrashes, HostGone, session, relay
  <2> QED BY <2>1 DEF AskInv, Asks
<1>5. CASE InWriteRejection \/ InEof
  BY <1>5 DEF InWriteRejection, InEof, pipes, AskInv, Asks
<1>6. CASE OutAdapt \/ OutRefuse \/ OutWrite \/ OutEof
  BY <1>6 DEF OutAdapt, OutRefuse, OutWrite, OutEof, pipes, AskInv, Asks
<1>7. CASE Reap \/ JoinOutput \/ JoinInput \/ Return \/ ClientCloses \/ ClientLeaves
  BY <1>7 DEF Reap, JoinOutput, JoinInput, Return, ClientCloses, ClientLeaves, session, relay,
     pipes, AskInv, Asks
<1>8. CASE (\E q \in hostOpen : HostAnswer(q)) \/ HostNotifies \/ HostMisbehaves
  <2>1. toHost' = toHost /\ hostOpen' \subseteq hostOpen /\ UNCHANGED <<inPc, inFrame>>
    BY <1>8 DEF HostAnswer, HostNotifies, HostMisbehaves, session, relay
  <2> QED BY <2>1 DEF AskInv, Asks
<1>9. CASE UNCHANGED vars
  BY <1>9 DEF vars, AskInv, Asks
<1> QED BY <1>1, <1>2, <1>3, <1>4, <1>5, <1>6, <1>7, <1>8, <1>9 DEF Next, Finished
-----------------------------------------------------------------------------
(* The frames the client was given can be counted, and a frame it is given *)
(* now is counted once.                                                    *)
LEMMA Counting ==
  ASSUME TypeInv, NEW f \in ServerFrame, received' = Append(received, f), NEW k \in Keys
  PROVE  /\ IsFiniteSet(Results(k)) /\ Cardinality(Results(k)) \in Nat
         /\ IsResult(f, k) => Cardinality(Results(k)') = Cardinality(Results(k)) + 1
         /\ ~IsResult(f, k) => Results(k)' = Results(k)
<1>1. received \in Seq(ServerFrame)
  BY DEF TypeInv
<1>2. Len(received) \in Nat /\ DOMAIN received = 1..Len(received)
  BY <1>1
<1>3. Results(k) \subseteq 1..Len(received)
  BY <1>2 DEF Results
<1>4. IsFiniteSet(1..Len(received))
  BY <1>2, FS_Interval
<1>5. IsFiniteSet(Results(k)) /\ Cardinality(Results(k)) \in Nat
  BY <1>3, <1>4, FS_Subset, FS_CardinalityType
<1>6. /\ DOMAIN received' = DOMAIN received \cup {Len(received) + 1}
      /\ Len(received) + 1 \notin DOMAIN received
      /\ received'[Len(received) + 1] = f
      /\ \A i \in DOMAIN received : received'[i] = received[i]
  BY <1>1, AppendFacts
<1>7. ~IsResult(f, k) => Results(k)' = Results(k)
  BY <1>6 DEF Results, IsResult
<1>8. IsResult(f, k) => Results(k)' = Results(k) \cup {Len(received) + 1}
  BY <1>6 DEF Results, IsResult
<1>9. Len(received) + 1 \notin Results(k)
  BY <1>6 DEF Results
<1> QED BY <1>5, <1>7, <1>8, <1>9, FS_AddElement

(* The count of the results given to the client is a number.               *)
LEMMA ResultsFinite ==
  ASSUME TypeInv, NEW k \in Keys
  PROVE  Cardinality(Results(k)) \in Nat
<1>1. received \in Seq(ServerFrame)
  BY DEF TypeInv
<1>2. Len(received) \in Nat /\ DOMAIN received = 1..Len(received)
  BY <1>1
<1>3. Results(k) \subseteq 1..Len(received) /\ IsFiniteSet(1..Len(received))
  BY <1>2, FS_Interval DEF Results
<1> QED BY <1>3, FS_Subset, FS_CardinalityType

(* At the start nothing is owed and nothing was given.                     *)
LEMMA ResultInit == Init => ResultInv
<1> SUFFICES ASSUME Init PROVE ResultInv
  OBVIOUS
<1>1. ASSUME NEW k \in Keys PROVE Cardinality(Results(k)) + Due(k) + Owed(k) <= accepted[k]
  <2>1. Results(k) = {} /\ Due(k) = 0 /\ Owed(k) = 0 /\ accepted[k] = 0
    BY DEF Init, Results, Due, Owed, Tracked
  <2> QED BY <2>1, FS_EmptySet
<1> QED BY <1>1 DEF Init, ResultInv

(* An entry of the map is spent by the one result it lets pass.            *)
LEMMA ResultStep ==
  ASSUME TypeInv, ResultInv, [Next]_vars
  PROVE  ResultInv'
<1> DEFINE Balance(k) == Cardinality(Results(k)) + Due(k) + Owed(k) <= accepted[k]
<1>0. ASSUME NEW k \in Keys
      PROVE  /\ Balance(k) /\ accepted[k] \in Nat /\ Cardinality(Results(k)) \in Nat
             /\ Due(k) \in {0, 1} /\ Owed(k) \in {0, 1}
  BY ResultsFinite DEF ResultInv, TypeInv, Due, Owed
<1>1. CASE Input
  <2>1. PICK f \in ClientFrames : InDrop(f) \/ InReject(f) \/ InAccept(f) \/ InOversized(f)
    BY <1>1 DEF Input
  <2>2. f \in ClientFrame
    BY ConstantsAssumption
  <2>3. UNCHANGED <<received, outPc, outFrame>>
    BY <2>1 DEF InDrop, InReject, InAccept, InOversized, relay
  <2>4. inPc' = "reject" => inFrame'.body = "error"
    BY <2>1 DEF InDrop, InReject, InAccept, InOversized, relay, Reads, ErrorFor, ResultInv
  <2>5. ASSUME NEW k \in Keys PROVE Balance(k)'
    <3>1. Results(k)' = Results(k) /\ Due(k)' = Due(k)
      BY <2>3 DEF Results, Due, IsResult
    <3>2. CASE InAccept(f) /\ IsRequest(f) /\ f.id = k
      <4>1. k \notin Tracked
        BY <3>2 DEF InAccept, Rejected, Duplicate
      <4>2. Owed(k) = 0
        BY <4>1 DEF Owed
      <4>3. accepted'[k] = accepted[k] + 1
        BY <3>2 DEF InAccept, TypeInv
      <4>4. Owed(k)' \in {0, 1}
        BY DEF Owed
      <4> QED BY <1>0, <3>1, <4>2, <4>3, <4>4
    <3>3. CASE ~(InAccept(f) /\ IsRequest(f) /\ f.id = k)
      <4>1. pending'[k] = pending[k] /\ accepted'[k] = accepted[k]
        BY <2>1, <3>3 DEF InDrop, InReject, InAccept, InOversized, relay, TypeInv
      <4>2. Owed(k)' = Owed(k)
        BY <4>1 DEF Owed, Tracked
      <4> QED BY <1>0, <3>1, <4>1, <4>2
    <3> QED BY <3>2, <3>3
  <2> QED BY <2>4, <2>5 DEF ResultInv
<1>2. CASE OutAdapt
  <2> DEFINE f == Head(fromHost)
  <2>1. f \in ServerFrame /\ outPc = "read" /\ outPc' = "write" /\ outFrame' = AdaptServer(f)
    BY <1>2, TailFacts DEF OutAdapt, TypeInv
  <2>2. /\ UNCHANGED <<received, accepted, inPc, inFrame>>
        /\ ~Invalid(f) /\ Resolve(f)
    BY <1>2 DEF OutAdapt
  <2>3. ASSUME NEW k \in Keys PROVE Balance(k)'
    <3>1. Results(k)' = Results(k) /\ Due(k) = 0 /\ accepted'[k] = accepted[k]
      BY <2>1, <2>2 DEF Results, Due, IsResult
    <3>2. CASE IsResult(f, k)
      <4>1. k \in Tracked
        BY <2>2, <3>2 DEF IsResult, Invalid, IsAnswer
      <4>2. pending'[k] = None
        BY <2>2, <3>2 DEF Resolve, IsResult, IsAnswer, TypeInv
      <4>3. Owed(k) = 1 /\ Owed(k)' = 0 /\ Due(k)' \in {0, 1}
        BY <4>1, <4>2 DEF Owed, Tracked, Due
      <4> QED BY <1>0, <3>1, <4>3
    <3>3. CASE ~IsResult(f, k)
      <4>1. ~IsResult(outFrame', k)
        BY <2>1, <3>3, AdaptType DEF IsResult
      <4>2. Due(k)' = 0
        BY <4>1 DEF Due, IsResult
      <4>3. pending'[k] \in {pending[k], None}
        BY <2>2 DEF Resolve, TypeInv
      <4>4. Owed(k)' <= Owed(k) /\ Owed(k)' \in {0, 1}
        BY <4>3 DEF Owed, Tracked
      <4> QED BY <1>0, <3>1, <4>2, <4>4
    <3> QED BY <3>2, <3>3
  <2> QED BY <2>2, <2>3 DEF ResultInv
<1>3. CASE OutRefuse
  <2>1. /\ UNCHANGED <<received, accepted, inPc, inFrame>>
        /\ outPc' = "failed" /\ outPc = "read" /\ Resolve(Head(fromHost))
    BY <1>3 DEF OutRefuse
  <2>2. ASSUME NEW k \in Keys PROVE Balance(k)'
    <3>1. Results(k)' = Results(k) /\ Due(k)' = 0 /\ accepted'[k] = accepted[k]
      BY <2>1 DEF Results, Due, IsResult
    <3>2. pending'[k] \in {pending[k], None}
      BY <2>1 DEF Resolve, TypeInv
    <3>3. Owed(k)' <= Owed(k) /\ Owed(k)' \in {0, 1}
      BY <3>2 DEF Owed, Tracked
    <3> QED BY <1>0, <3>1, <3>3
  <2> QED BY <2>1, <2>2 DEF ResultInv
<1>4. CASE OutWrite
  <2>1. /\ UNCHANGED <<pending, accepted, inPc, inFrame>>
        /\ outPc' # "write" /\ outPc = "write" /\ outFrame \in ServerFrame
    BY <1>4 DEF OutWrite, TypeInv
  <2>2. ASSUME NEW k \in Keys PROVE Balance(k)'
    <3>1. Owed(k)' = Owed(k) /\ Due(k)' = 0 /\ accepted'[k] = accepted[k]
      BY <2>1 DEF Owed, Tracked, Due
    <3>2. CASE client # "gone"
      <4>1. received' = Append(received, outFrame)
        BY <1>4, <3>2 DEF OutWrite
      <4>2. CASE IsResult(outFrame, k)
        <5>1. Cardinality(Results(k)') = Cardinality(Results(k)) + 1 /\ Due(k) = 1
          BY <2>1, <4>1, <4>2, Counting DEF Due
        <5> QED BY <1>0, <3>1, <5>1
      <4>3. CASE ~IsResult(outFrame, k)
        <5>1. Results(k)' = Results(k)
          BY <2>1, <4>1, <4>3, Counting
        <5> QED BY <1>0, <3>1, <5>1
      <4> QED BY <4>2, <4>3
    <3>3. CASE client = "gone"
      <4>1. Results(k)' = Results(k)
        BY <1>4, <3>3 DEF OutWrite, Results, IsResult
      <4> QED BY <1>0, <3>1, <4>1
    <3> QED BY <3>2, <3>3
  <2> QED BY <2>1, <2>2 DEF ResultInv
<1>5. CASE InWriteRejection
  <2>1. UNCHANGED <<pending, accepted, outPc, outFrame>> /\ inPc' # "reject"
    BY <1>5 DEF InWriteRejection
  <2>2. inFrame \in ServerFrame /\ inFrame.body = "error"
    BY <1>5 DEF InWriteRejection, TypeInv, ResultInv
  <2>3. ASSUME NEW k \in Keys PROVE Balance(k)'
    <3>1. Owed(k)' = Owed(k) /\ Due(k)' = Due(k) /\ accepted'[k] = accepted[k]
      BY <2>1 DEF Owed, Tracked, Due, IsResult
    <3>2. Results(k)' = Results(k)
      <4>1. CASE client # "gone"
        <5>1. received' = Append(received, inFrame) /\ ~IsResult(inFrame, k)
          BY <1>5, <2>2, <4>1 DEF InWriteRejection, IsResult
        <5> QED BY <2>2, <5>1, Counting
      <4>2. CASE client = "gone"
        BY <1>5, <4>2 DEF InWriteRejection, Results, IsResult
      <4> QED BY <4>1, <4>2
    <3> QED BY <1>0, <3>1, <3>2
  <2> QED BY <2>1, <2>3 DEF ResultInv
<1>6. ASSUME UNCHANGED <<pending, accepted, outPc, outFrame, received>>,
             (inPc' = inPc /\ inFrame' = inFrame) \/ inPc' # "reject"
      PROVE  ResultInv'
  BY <1>6 DEF ResultInv, Results, Due, Owed, Tracked, IsResult
<1>7. CASE InForward \/ InEof
  BY <1>6, <1>7 DEF InForward, InEof
<1>8. CASE OutEof
  <2>1. UNCHANGED <<pending, accepted, received, inPc, inFrame>> /\ outPc = "read" /\ outPc' = "done"
    BY <1>8 DEF OutEof
  <2> QED BY <2>1 DEF ResultInv, Results, Due, Owed, Tracked, IsResult
<1>9. CASE Reap \/ JoinOutput \/ JoinInput \/ Return
  BY <1>6, <1>9 DEF Reap, JoinOutput, JoinInput, Return, session, relay
<1>10. CASE HostRead \/ (\E q \in hostOpen : HostAnswer(q)) \/ HostNotifies \/ HostMisbehaves
  BY <1>6, <1>10 DEF HostRead, HostAnswer, HostNotifies, HostMisbehaves, session, relay
<1>11. CASE HostStops \/ HostCrashes \/ ClientCloses \/ ClientLeaves
  BY <1>6, <1>11 DEF HostStops, HostCrashes, ClientCloses, ClientLeaves, session, relay
<1>12. CASE UNCHANGED vars
  BY <1>6, <1>12 DEF vars
<1> QED BY <1>1, <1>2, <1>3, <1>4, <1>5, <1>7, <1>8, <1>9, <1>10, <1>11, <1>12 DEF Next, Finished
-----------------------------------------------------------------------------
(* The frames of the host that the client was given can be counted.        *)
LEMMA GivenFinite ==
  ASSUME TypeInv
  PROVE  IsFiniteSet(Given) /\ Cardinality(Given) \in Nat
<1>1. received \in Seq(ServerFrame)
  BY DEF TypeInv
<1>2. Len(received) \in Nat /\ DOMAIN received = 1..Len(received)
  BY <1>1
<1>3. Given \subseteq 1..Len(received) /\ IsFiniteSet(1..Len(received))
  BY <1>2, FS_Interval DEF Given
<1> QED BY <1>3, FS_Subset, FS_CardinalityType

(* A frame the client is given counts once if it is the host's.            *)
LEMMA GivenGrows ==
  ASSUME TypeInv, NEW f \in ServerFrame, received' = Append(received, f)
  PROVE  /\ f.src = "host" => Cardinality(Given') = Cardinality(Given) + 1
         /\ f.src # "host" => Given' = Given
<1>1. received \in Seq(ServerFrame)
  BY DEF TypeInv
<1>2. /\ DOMAIN received' = DOMAIN received \cup {Len(received) + 1}
      /\ Len(received) + 1 \notin DOMAIN received
      /\ received'[Len(received) + 1] = f
      /\ \A i \in DOMAIN received : received'[i] = received[i]
  BY <1>1, AppendFacts
<1>3. f.src # "host" => Given' = Given
  BY <1>2 DEF Given
<1>4. f.src = "host" => Given' = Given \cup {Len(received) + 1}
  BY <1>2 DEF Given
<1>5. Len(received) + 1 \notin Given
  BY <1>2 DEF Given
<1> QED BY <1>3, <1>4, <1>5, GivenFinite, FS_AddElement

(* At the start the host has written nothing.                              *)
LEMMA FlushInit == Init => FlushInv
<1> SUFFICES ASSUME Init PROVE FlushInv
  OBVIOUS
<1>1. Given = {} /\ InHand = 0 /\ fromHost = <<>> /\ emitted = 0
  BY DEF Init, Given, InHand
<1>2. Cardinality(Given) + InHand + Len(fromHost) = emitted
  BY <1>1, FS_EmptySet
<1> QED BY <1>2 DEF Init, FlushInv

(* A frame the host writes while it runs is one more in the pipe.          *)
LEMMA FlushEmit ==
  ASSUME TypeInv, FlushInv, host = "running", NEW f \in ServerFrame, f.src = "host", Emits(f),
         UNCHANGED <<inPc, inFrame, outPc, outFrame, received, launcher, status>>
  PROVE  FlushInv'
<1>1. /\ emitted' = emitted + 1 /\ Len(fromHost') = Len(fromHost) + 1 /\ Len(fromHost) \in Nat
      /\ DOMAIN fromHost' = DOMAIN fromHost \cup {Len(fromHost) + 1}
      /\ fromHost'[Len(fromHost) + 1] = f
      /\ \A i \in DOMAIN fromHost : fromHost'[i] = fromHost[i]
  BY EmitFacts
<1>2. \A i \in DOMAIN fromHost' : fromHost'[i].src = "host"
  BY <1>1 DEF FlushInv
<1>3. Given' = Given /\ InHand' = InHand /\ outPc # "done"
  BY DEF Given, InHand, FlushInv
<1>4. emitted \in Nat /\ Cardinality(Given) \in Nat /\ InHand \in {0, 1}
  BY GivenFinite DEF TypeInv, InHand
<1>5. outPc' # "failed" => Cardinality(Given') + InHand' + Len(fromHost') = emitted'
  BY <1>1, <1>3, <1>4 DEF FlushInv
<1> QED BY <1>2, <1>3, <1>5 DEF FlushInv

(* Every frame of the host is in the pipe, in the output thread's hand or  *)
(* with the client, until the thread fails.                                *)
LEMMA FlushStep ==
  ASSUME TypeInv, FlushInv, [Next]_vars
  PROVE  FlushInv'
<1>0. /\ emitted \in Nat /\ Cardinality(Given) \in Nat /\ InHand \in {0, 1}
      /\ Len(fromHost) \in Nat
  BY GivenFinite DEF TypeInv, InHand
<1>1. CASE Input
  <2>1. PICK f \in ClientFrames : InDrop(f) \/ InReject(f) \/ InAccept(f) \/ InOversized(f)
    BY <1>1 DEF Input
  <2>2. UNCHANGED <<received, outPc, outFrame, fromHost, emitted, host, launcher, status>>
    BY <2>1 DEF InDrop, InReject, InAccept, InOversized, relay, pipes, main
  <2>3. inPc' = "reject" => inFrame'.src = "adapter"
    BY <2>1 DEF InDrop, InReject, InAccept, InOversized, relay, Reads, ErrorFor, FlushInv
  <2> QED BY <2>2, <2>3 DEF FlushInv, Given, InHand
<1>2. CASE OutAdapt
  <2> DEFINE f == Head(fromHost)
  <2>1. /\ fromHost \in Seq(ServerFrame) /\ fromHost # <<>> /\ fromHost' = Tail(fromHost)
        /\ outPc = "read" /\ outPc' = "write" /\ outFrame' = AdaptServer(f)
        /\ UNCHANGED <<received, emitted, host, launcher, status, inPc, inFrame>>
    BY <1>2 DEF OutAdapt, TypeInv, main
  <2>2. /\ f \in ServerFrame /\ f.src = "host" /\ Len(fromHost') = Len(fromHost) - 1
        /\ \A i \in DOMAIN fromHost' : fromHost'[i].src = "host"
    BY <2>1, TailFacts DEF FlushInv
  <2>3. outFrame'.src = "host"
    BY <2>1, <2>2, AdaptType
  <2>4. Given' = Given /\ InHand = 0 /\ InHand' = 1
    BY <2>1 DEF Given, InHand
  <2>5. Cardinality(Given') + InHand' + Len(fromHost') = emitted'
    BY <1>0, <2>1, <2>2, <2>4 DEF FlushInv
  <2> QED BY <2>1, <2>2, <2>3, <2>5 DEF FlushInv
<1>3. CASE OutRefuse
  <2>1. /\ fromHost \in Seq(ServerFrame) /\ fromHost # <<>> /\ fromHost' = Tail(fromHost)
        /\ outPc = "read" /\ outPc' = "failed"
        /\ UNCHANGED <<received, emitted, host, launcher, status, inPc, inFrame>>
    BY <1>3 DEF OutRefuse, TypeInv, main
  <2>2. \A i \in DOMAIN fromHost' : fromHost'[i].src = "host"
    BY <2>1, TailFacts DEF FlushInv
  <2> QED BY <2>1, <2>2 DEF FlushInv
<1>4. CASE OutWrite
  <2>1. /\ outPc = "write" /\ outFrame \in ServerFrame /\ outFrame.src = "host"
        /\ UNCHANGED <<fromHost, emitted, host, launcher, status, inPc, inFrame>>
    BY <1>4 DEF OutWrite, TypeInv, FlushInv, pipes, main
  <2>2. CASE client # "gone"
    <3>1. outPc' = "read" /\ received' = Append(received, outFrame)
      BY <1>4, <2>2 DEF OutWrite
    <3>2. Cardinality(Given') = Cardinality(Given) + 1 /\ InHand = 1 /\ InHand' = 0
      BY <2>1, <3>1, GivenGrows DEF InHand
    <3>3. Cardinality(Given') + InHand' + Len(fromHost') = emitted'
      BY <1>0, <2>1, <3>2 DEF FlushInv
    <3> QED BY <2>1, <3>1, <3>3 DEF FlushInv
  <2>3. CASE client = "gone"
    <3>1. outPc' = "failed"
      BY <1>4, <2>3 DEF OutWrite
    <3> QED BY <2>1, <3>1 DEF FlushInv
  <2> QED BY <2>2, <2>3
<1>5. CASE InWriteRejection
  <2>1. /\ inFrame \in ServerFrame /\ inFrame.src = "adapter" /\ inPc' # "reject"
        /\ UNCHANGED <<fromHost, emitted, host, launcher, status, outPc, outFrame>>
    BY <1>5 DEF InWriteRejection, TypeInv, FlushInv, pipes, main
  <2>2. Given' = Given
    <3>1. CASE client # "gone"
      <4>1. received' = Append(received, inFrame)
        BY <1>5, <3>1 DEF InWriteRejection
      <4> QED BY <2>1, <4>1, GivenGrows
    <3>2. CASE client = "gone"
      BY <1>5, <3>2 DEF InWriteRejection, Given
    <3> QED BY <3>1, <3>2
  <2> QED BY <2>1, <2>2 DEF FlushInv, InHand
<1>6. CASE OutEof
  <2>1. /\ outPc = "read" /\ outPc' = "done" /\ fromHost = <<>> /\ host # "running"
        /\ UNCHANGED <<received, fromHost, emitted, host, launcher, status, inPc, inFrame>>
    BY <1>6 DEF OutEof, pipes, main
  <2>2. Given' = Given /\ InHand' = 0 /\ InHand = 0
    BY <2>1 DEF Given, InHand
  <2> QED BY <2>1, <2>2 DEF FlushInv
<1>7. CASE Reap \/ JoinOutput \/ JoinInput \/ Return
  <2>1. UNCHANGED <<received, fromHost, emitted, inPc, inFrame, outPc, outFrame>>
    BY <1>7 DEF Reap, JoinOutput, JoinInput, Return, session, relay, pipes
  <2>2. host # "running" => host' # "running"
    BY <1>7 DEF Reap, JoinOutput, JoinInput, Return, pipes
  <2>3. launcher' \in {"check", "drop", "done"} => outPc' \in {"done", "failed"}
    BY <1>7, <2>1 DEF Reap, JoinOutput, JoinInput, Return, FlushInv
  <2>4. status' = "ok" => outPc' = "done"
    BY <1>7, <2>1 DEF Reap, JoinOutput, JoinInput, Return, FlushInv
  <2> QED BY <2>1, <2>2, <2>3, <2>4 DEF FlushInv, Given, InHand
<1>8. CASE HostRead
  <2>1. UNCHANGED <<inPc, inFrame, outPc, outFrame, received, launcher, status, host>>
    BY <1>8 DEF HostRead, session, relay, main
  <2>2. CASE Emits(ErrorFor("host", Null, 0))
    <3>1. ErrorFor("host", Null, 0) \in ServerFrame /\ ErrorFor("host", Null, 0).src = "host"
      BY ConstantsAssumption, ErrorType DEF Keys
    <3> QED BY <1>8, <2>1, <2>2, <3>1, FlushEmit DEF HostRead
  <2>3. CASE UNCHANGED <<fromHost, emitted>>
    BY <2>1, <2>3 DEF FlushInv, Given, InHand
  <2> QED BY <1>8, <2>2, <2>3 DEF HostRead
<1>9. ASSUME NEW q \in hostOpen, HostAnswer(q) PROVE FlushInv'
  <2>1. PICK body \in {"result", "error"} : Emits(Answer(q, body))
    BY <1>9 DEF HostAnswer
  <2>2. Answer(q, body) \in ServerFrame /\ Answer(q, body).src = "host"
    BY AnswerType DEF TypeInv
  <2>3. UNCHANGED <<inPc, inFrame, outPc, outFrame, received, launcher, status>> /\ host = "running"
    BY <1>9 DEF HostAnswer, session, relay, main
  <2> QED BY <2>1, <2>2, <2>3, FlushEmit
<1>10. CASE HostNotifies
  BY <1>10, NoticeType, FlushEmit DEF HostNotifies, session, relay, main
<1>11. CASE HostMisbehaves
  <2>1. PICK f \in RogueFrames : Emits(f)
    BY <1>11 DEF HostMisbehaves
  <2>2. f \in ServerFrame /\ f.src = "host"
    BY ConstantsAssumption
  <2> QED BY <1>11, <2>1, <2>2, FlushEmit DEF HostMisbehaves, session, relay, main
<1>12. CASE HostCrashes
  <2>1. UNCHANGED <<inPc, inFrame, outPc, outFrame, received, launcher, status>>
    BY <1>12 DEF HostCrashes, session, relay, main
  <2>2. CASE Emits(CutLine)
    BY <1>12, <2>1, <2>2, NoticeType, FlushEmit DEF HostCrashes
  <2>3. CASE UNCHANGED <<fromHost, emitted>>
    BY <1>12, <2>1, <2>3 DEF HostCrashes, HostGone, FlushInv, Given, InHand
  <2> QED BY <1>12, <2>2, <2>3 DEF HostCrashes
<1>13. CASE HostStops
  BY <1>13 DEF HostStops, HostGone, session, relay, main, FlushInv, Given, InHand
<1>14. CASE InForward \/ InEof \/ ClientCloses \/ ClientLeaves
  BY <1>14 DEF InForward, InEof, ClientCloses, ClientLeaves, relay, pipes, main, FlushInv, Given,
     InHand
<1>15. CASE UNCHANGED vars
  BY <1>15 DEF vars, FlushInv, Given, InHand
<1> QED BY <1>1, <1>2, <1>3, <1>4, <1>5, <1>6, <1>7, <1>8, <1>9, <1>10, <1>11, <1>12, <1>13, <1>14,
           <1>15 DEF Next, Finished

-----------------------------------------------------------------------------
(* A step that leaves the map, the pipes and the calls alone.              *)
LEMMA PairQuiet ==
  ASSUME Paired, UNCHANGED <<pending, toHost, fromHost, hostOpen>>,
         host' = "running" => host = "running",
         Forwarding' => Forwarding /\ inFrame' = inFrame,
         host' = "running" => (Forwarding => Forwarding')
  PROVE  Paired'
<1>1. Tracked' = Tracked
  BY DEF Tracked
<1>2. InIn'
  BY DEF Paired, InIn
<1>3. ToIn'
  BY DEF Paired, ToIn, IsCall
<1>4. OpenIn'
  BY DEF Paired, OpenIn, IsCall
<1>5. BackIn'
  BY DEF Paired, BackIn, IsCall
<1>6. SoundIn'
  BY DEF Paired, SoundIn, Sound
<1>7. WayIn'
  BY <1>1 DEF Paired, WayIn, OnWay, IsCall
<1> QED BY <1>2, <1>3, <1>4, <1>5, <1>6, <1>7 DEF Paired

(* A request is accepted: its id was free, so no call on its way has it.   *)
LEMMA PairAccept ==
  ASSUME NoNullIds, TypeInv, Paired, NEW f \in ClientFrames, InAccept(f)
  PROVE  Paired'
<1>1. f \in ClientFrame /\ count + 1 \in 1..MaxFrames
  BY ConstantsAssumption DEF InAccept, Reads, TypeInv
<1>2. /\ inFrame'.kind = f.kind /\ inFrame'.id = f.id /\ inFrame'.method = f.method
      /\ inPc = "read" /\ inPc' = "forward"
  BY <1>1, AdaptedType DEF InAccept, Reads, Dropped, Rejected
<1>3. UNCHANGED <<toHost, fromHost, hostOpen, host>>
  BY DEF InAccept, pipes
<1>4. ~Forwarding /\ (Forwarding' <=> IsRequest(f))
  BY <1>2 DEF Forwarding, IsCall, IsRequest
<1>5. CASE ~IsRequest(f)
  BY <1>3, <1>4, <1>5, PairQuiet DEF InAccept
<1>6. CASE IsRequest(f)
  <2>1. /\ pending[f.id] = None /\ f.id \in Keys /\ f.id # Null /\ f.method \in Methods
        /\ None \notin Methods
    BY <1>1, <1>6 DEF InAccept, Rejected, Duplicate, Tracked, IsRequest, NoNullIds, ClientFrame,
       Methods, None, ProviderInRequest, ProviderInResult
  <2>2. /\ pending' = [pending EXCEPT ![f.id] = f.method] /\ pending \in [Keys -> Methods \cup {None}]
    BY <1>6 DEF InAccept, TypeInv
  <2>3. pending'[f.id] = f.method /\ \A k \in Keys : k # f.id => pending'[k] = pending[k]
    BY <2>1, <2>2
  <2>4. Null \in Keys
    BY DEF Keys
  <2>5. \A i \in DOMAIN toHost : IsCall(toHost[i]) => toHost[i].id \in Keys /\ toHost[i].id # f.id
    <3>1. \A i \in DOMAIN toHost : toHost[i] \in HostFrame
      BY DEF TypeInv
    <3> QED BY <2>1, <3>1 DEF Paired, ToIn, IsCall, HostFrame
  <2>6. \A q \in hostOpen : q.id \in Keys /\ q.id # f.id
    <3>1. \A q \in hostOpen : q \in HostFrame /\ IsCall(q)
      BY DEF TypeInv
    <3> QED BY <2>1, <3>1 DEF Paired, OpenIn, IsCall, HostFrame
  <2>7. \A i \in DOMAIN fromHost : fromHost[i].no # 0 => fromHost[i].id \in Keys /\ fromHost[i].id # f.id
    BY <2>1 DEF Paired, BackIn, SoundIn, Sound
  <2>8. InIn'
    BY <1>2, <2>3 DEF InIn
  <2>9. ToIn'
    BY <1>2, <1>3, <2>3, <2>5 DEF Paired, ToIn, IsCall
  <2>10. OpenIn'
    BY <1>2, <1>3, <2>3, <2>6, <2>5 DEF Paired, OpenIn, IsCall
  <2>11. BackIn'
    BY <1>2, <1>3, <2>3, <2>7, <2>5 DEF Paired, BackIn, IsCall
  <2>12. SoundIn'
    BY <1>3, <2>3, <2>7 DEF Paired, SoundIn, Sound
  <2>13. WayIn'
    <3>1. \A k \in Tracked' : k = f.id \/ k \in Tracked
      BY <2>3 DEF Tracked
    <3> QED BY <1>2, <1>3, <1>4, <1>6, <3>1 DEF Paired, WayIn, OnWay, IsCall
  <2> QED BY <2>1, <2>3, <2>4, <2>8, <2>9, <2>10, <2>11, <2>12, <2>13 DEF Paired
<1> QED BY <1>5, <1>6

(* The frame moves from the input thread to the pipe.                      *)
LEMMA PairForward ==
  ASSUME TypeInv, Paired, InForward
  PROVE  Paired'
<1>1. ~Forwarding' /\ UNCHANGED <<pending, fromHost, hostOpen, host>> /\ inPc = "forward"
  BY DEF InForward, Forwarding
<1>2. CASE host # "running"
  BY <1>1, <1>2, PairQuiet DEF InForward
<1>3. CASE host = "running"
  <2>1. toHost \in Seq(HostFrame) /\ inFrame \in HostFrame /\ toHost' = Append(toHost, inFrame)
    BY <1>1, <1>3 DEF InForward, TypeInv
  <2> DEFINE n == Len(toHost) + 1
  <2>2. /\ DOMAIN toHost' = DOMAIN toHost \cup {n} /\ n \notin DOMAIN toHost /\ toHost'[n] = inFrame
        /\ \A i \in DOMAIN toHost : toHost'[i] = toHost[i]
    BY <2>1, AppendFacts
  <2> HIDE DEF n
  <2>3. Forwarding <=> IsCall(inFrame)
    BY <1>1 DEF Forwarding
  <2>4. InIn'
    BY <1>1 DEF InIn
  <2>5. ToIn'
    BY <1>1, <2>2, <2>3 DEF Paired, ToIn, InIn, IsCall
  <2>6. OpenIn'
    BY <1>1, <2>2, <2>3 DEF Paired, OpenIn, IsCall
  <2>7. BackIn'
    BY <1>1, <2>2, <2>3 DEF Paired, BackIn, IsCall
  <2>8. SoundIn'
    BY <1>1 DEF Paired, SoundIn, Sound
  <2>9. WayIn'
    BY <1>1, <1>3, <2>2, <2>3 DEF Paired, WayIn, OnWay, Tracked, IsCall
  <2> QED BY <1>1, <2>4, <2>5, <2>6, <2>7, <2>8, <2>9 DEF Paired
<1> QED BY <1>2, <1>3

(* The output thread reads the head of the pipe: an answer takes its entry *)
(* out of the map, anything else leaves the map as it is.                  *)
LEMMA PairOut ==
  ASSUME TypeInv, Paired, OutAdapt \/ OutRefuse
  PROVE  Paired'
<1> DEFINE g == Head(fromHost)
<1>1. /\ fromHost \in Seq(ServerFrame) /\ fromHost # <<>> /\ fromHost' = Tail(fromHost)
      /\ Resolve(g) /\ UNCHANGED <<inPc, inFrame, toHost, hostOpen, host>>
  BY DEF OutAdapt, OutRefuse, TypeInv
<1>2. /\ g = fromHost[1] /\ 1 \in DOMAIN fromHost
      /\ \A i \in DOMAIN fromHost' : i + 1 \in DOMAIN fromHost /\ i + 1 # 1 /\ fromHost'[i] = fromHost[i + 1]
      /\ \A i \in DOMAIN fromHost : i # 1 => i - 1 \in DOMAIN fromHost' /\ fromHost'[i - 1] = fromHost[i]
      /\ \A i \in DOMAIN fromHost' : i \in Nat
  BY <1>1, TailFacts
<1>3. Sound(g) /\ pending \in [Keys -> Methods \cup {None}]
  BY <1>2 DEF Paired, SoundIn, TypeInv
<1>4. Forwarding' <=> Forwarding
  BY <1>1 DEF Forwarding, IsCall
<1>5. /\ \A k \in Keys : g.no # 0 /\ k = g.id => pending'[k] = None
      /\ \A k \in Keys : ~(g.no # 0 /\ k = g.id) => pending'[k] = pending[k]
  BY <1>1, <1>3 DEF Resolve, IsAnswer, Sound, Paired
<1> HIDE DEF g
<1>6. \A i \in DOMAIN fromHost : fromHost[i].no # 0 => fromHost[i].id \in Keys
  BY DEF Paired, SoundIn, Sound
<1>7. g.no # 0 => \A i \in DOMAIN fromHost : i # 1 /\ fromHost[i].no # 0 => fromHost[i].id # g.id
  BY <1>2 DEF Paired, BackIn
<1>8. InIn'
  BY <1>1, <1>2, <1>4, <1>5 DEF Paired, InIn, BackIn, Forwarding, IsCall
<1>9. ToIn'
  BY <1>1, <1>2, <1>4, <1>5 DEF Paired, ToIn, BackIn, IsCall
<1>10. OpenIn'
  <2>1. \A q \in hostOpen : q.id \in Keys
    BY DEF TypeInv, IsCall
  <2> QED BY <1>1, <1>2, <1>4, <1>5, <2>1 DEF Paired, OpenIn, BackIn, IsCall
<1>11. BackIn'
  BY <1>1, <1>2, <1>4, <1>5, <1>6, <1>7 DEF Paired, BackIn, IsCall
<1>12. SoundIn'
  BY <1>2, <1>5, <1>6, <1>7 DEF Paired, SoundIn, Sound
<1>13. WayIn'
  <2> SUFFICES ASSUME host = "running", NEW k \in Tracked' PROVE OnWay(k)'
    BY <1>1 DEF WayIn
  <2>1. k \in Keys /\ k \in Tracked /\ ~(g.no # 0 /\ g.id = k)
    BY <1>5 DEF Tracked
  <2>2. OnWay(k)
    BY <2>1 DEF Paired, WayIn
  <2>3. CASE Forwarding /\ inFrame.id = k
    BY <1>1, <1>4, <2>3 DEF OnWay
  <2>4. CASE \E i \in DOMAIN toHost : IsCall(toHost[i]) /\ toHost[i].id = k
    BY <1>1, <2>4 DEF OnWay, IsCall
  <2>5. CASE \E q \in hostOpen : q.id = k
    BY <1>1, <2>5 DEF OnWay
  <2>6. CASE \E i \in DOMAIN fromHost : fromHost[i].no # 0 /\ fromHost[i].id = k
    <3>1. PICK i \in DOMAIN fromHost : fromHost[i].no # 0 /\ fromHost[i].id = k
      BY <2>6
    <3>2. i # 1
      BY <1>2, <2>1, <3>1
    <3>3. i - 1 \in DOMAIN fromHost' /\ fromHost'[i - 1] = fromHost[i]
      BY <1>2, <3>2
    <3> QED BY <3>1, <3>3 DEF OnWay
  <2> QED BY <2>2, <2>3, <2>4, <2>5, <2>6 DEF OnWay
<1>14. pending'[Null] = None
  BY <1>5 DEF Paired, Keys
<1> QED BY <1>8, <1>9, <1>10, <1>11, <1>12, <1>13, <1>14 DEF Paired

(* The host emits a frame that answers nothing.                            *)
LEMMA PairEmit ==
  ASSUME TypeInv, Paired, NEW f \in ServerFrame, f.no = 0, Emits(f),
         f.schema => f.kind = "notice", f.kind = "response" => f.id = Null,
         UNCHANGED <<pending, toHost, hostOpen, inPc, inFrame>>,
         host' = "running" => host = "running"
  PROVE  Paired'
<1> DEFINE n == Len(fromHost) + 1
<1>1. /\ DOMAIN fromHost' = DOMAIN fromHost \cup {n} /\ n \notin DOMAIN fromHost
      /\ fromHost'[n] = f /\ \A i \in DOMAIN fromHost : fromHost'[i] = fromHost[i]
  BY EmitFacts
<1> HIDE DEF n
<1>2. Forwarding' <=> Forwarding
  BY DEF Forwarding, IsCall
<1>3. InIn'
  BY <1>2 DEF Paired, InIn
<1>4. ToIn'
  BY <1>2 DEF Paired, ToIn, IsCall
<1>5. OpenIn'
  BY <1>2 DEF Paired, OpenIn, IsCall
<1>6. BackIn'
  BY <1>1, <1>2 DEF Paired, BackIn, IsCall
<1>7. SoundIn'
  BY <1>1 DEF Paired, SoundIn, Sound
<1>8. WayIn'
  BY <1>1, <1>2 DEF Paired, WayIn, OnWay, Tracked, IsCall
<1> QED BY <1>3, <1>4, <1>5, <1>6, <1>7, <1>8 DEF Paired

(* The host takes the head of its pipe: a call stays on its way.           *)
LEMMA PairRead ==
  ASSUME TypeInv, Paired, UNCHANGED <<pending, inPc, inFrame, host>>,
         Emits(ErrorFor("host", Null, 0)) \/ UNCHANGED fromHost,
         toHost # <<>>, toHost' = Tail(toHost),
         IsCall(Head(toHost)) => hostOpen' = hostOpen \cup {Head(toHost)},
         ~IsCall(Head(toHost)) => hostOpen' = hostOpen
  PROVE  Paired'
<1> DEFINE g == Head(toHost)
<1>1. toHost \in Seq(HostFrame)
  BY DEF TypeInv
<1>2. /\ g = toHost[1] /\ 1 \in DOMAIN toHost
      /\ \A i \in DOMAIN toHost' : i + 1 \in DOMAIN toHost /\ i + 1 # 1 /\ toHost'[i] = toHost[i + 1]
      /\ \A i \in DOMAIN toHost : i # 1 => i - 1 \in DOMAIN toHost' /\ toHost'[i - 1] = toHost[i]
      /\ \A i \in DOMAIN toHost' : i \in Nat
  BY <1>1, TailFacts
<1> HIDE DEF g
<1>3. Forwarding' <=> Forwarding
  BY DEF Forwarding, IsCall
<1>4. /\ \A q \in hostOpen' : q \in hostOpen \/ (q = g /\ IsCall(g))
      /\ \A q \in hostOpen : q \in hostOpen'
      /\ IsCall(g) => g \in hostOpen'
  BY DEF g
<1>5. \A j \in DOMAIN toHost' : IsCall(toHost'[j]) /\ IsCall(g) => toHost'[j].id # g.id
  BY <1>2 DEF Paired, ToIn
<1>6. InIn'
  BY <1>3 DEF Paired, InIn
<1>7. ToIn'
  BY <1>2, <1>3 DEF Paired, ToIn, IsCall
<1>8. OpenIn'
  <2> SUFFICES ASSUME NEW q \in hostOpen'
               PROVE  /\ pending[q.id] = q.method
                      /\ Forwarding => q.id # inFrame.id
                      /\ \A j \in DOMAIN toHost' : IsCall(toHost'[j]) => toHost'[j].id # q.id
                      /\ \A p \in hostOpen' : p.id = q.id => p = q
    BY <1>3 DEF OpenIn, IsCall
  <2>1. CASE q = g /\ IsCall(g)
    BY <1>2, <1>4, <1>5, <2>1 DEF Paired, OpenIn, ToIn
  <2>2. CASE q \in hostOpen
    BY <1>2, <1>4, <2>2 DEF Paired, OpenIn
  <2> QED BY <1>4, <2>1, <2>2
<1>0. /\ \A i \in DOMAIN fromHost : i \in DOMAIN fromHost' /\ fromHost'[i] = fromHost[i]
      /\ \A i \in DOMAIN fromHost' :
           i \in DOMAIN fromHost \/ fromHost'[i] = ErrorFor("host", Null, 0)
  <2>1. CASE Emits(ErrorFor("host", Null, 0))
    <3>1. ErrorFor("host", Null, 0) \in ServerFrame
      BY ConstantsAssumption, ErrorType DEF Keys
    <3> QED BY <2>1, <3>1, EmitFacts
  <2>2. CASE UNCHANGED fromHost
    BY <2>2
  <2> QED BY <2>1, <2>2
<1>12. LET e == ErrorFor("host", Null, 0)
       IN  e.no = 0 /\ e.schema = FALSE /\ e.kind = "response" /\ e.id = Null
  BY DEF ErrorFor
<1>9. BackIn'
  BY <1>0, <1>2, <1>3, <1>4, <1>12 DEF Paired, BackIn, IsCall
<1>10. SoundIn'
  BY <1>0, <1>12 DEF Paired, SoundIn, Sound
<1>11. WayIn'
  <2> SUFFICES ASSUME host = "running", NEW k \in Tracked PROVE OnWay(k)'
    BY DEF WayIn, Tracked
  <2>1. OnWay(k)
    BY DEF Paired, WayIn
  <2>2. ASSUME NEW i \in DOMAIN toHost, IsCall(toHost[i]), toHost[i].id = k PROVE OnWay(k)'
    <3>1. CASE i = 1
      BY <1>2, <1>4, <2>2, <3>1 DEF OnWay
    <3>2. CASE i # 1
      BY <1>2, <2>2, <3>2 DEF OnWay, IsCall
    <3> QED BY <3>1, <3>2
  <2> QED BY <1>0, <1>3, <1>4, <2>1, <2>2 DEF OnWay
<1> QED BY <1>6, <1>7, <1>8, <1>9, <1>10, <1>11 DEF Paired

(* The host answers a call it took on: the call moves to the pipe back.    *)
LEMMA PairAnswer ==
  ASSUME TypeInv, Paired, NEW q \in hostOpen, HostAnswer(q)
  PROVE  Paired'
<1>1. PICK body \in {"result", "error"} : Emits(Answer(q, body))
  BY DEF HostAnswer
<1> DEFINE f == Answer(q, body)
           n == Len(fromHost) + 1
<1>2. q \in HostFrame /\ IsCall(q)
  BY DEF TypeInv
<1>3. /\ f \in ServerFrame /\ f.kind = "response" /\ f.id = q.id /\ f.body = body /\ f.no = q.no
      /\ f.provider \in {"none", "meta"}
      /\ f.schema => body = "result" /\ q.method \in ProviderInResult
  BY <1>2, AnswerType
<1>4. q.no # 0 /\ q.id \in Keys /\ q.method \in Methods /\ None \notin Methods
  BY <1>2, ConstantsAssumption DEF HostFrame, IsCall, Methods, None, ProviderInRequest, ProviderInResult
<1>5. /\ DOMAIN fromHost' = DOMAIN fromHost \cup {n} /\ n \notin DOMAIN fromHost
      /\ fromHost'[n] = f /\ \A i \in DOMAIN fromHost : fromHost'[i] = fromHost[i]
  BY <1>1, <1>3, EmitFacts
<1> HIDE DEF f, n
<1>6. UNCHANGED <<pending, inPc, inFrame, toHost, host>> /\ hostOpen' = hostOpen \ {q}
  BY DEF HostAnswer, session, relay
<1>7. Forwarding' <=> Forwarding
  BY <1>6 DEF Forwarding, IsCall
<1>8. InIn'
  BY <1>6, <1>7 DEF Paired, InIn
<1>9. ToIn'
  BY <1>6, <1>7 DEF Paired, ToIn, IsCall
<1>10. OpenIn'
  BY <1>6, <1>7 DEF Paired, OpenIn, IsCall
<1>11. pending[q.id] = q.method /\ (Forwarding => q.id # inFrame.id)
  BY DEF Paired, OpenIn
<1>12. BackIn'
  <2> SUFFICES ASSUME NEW i \in DOMAIN fromHost', fromHost'[i].no # 0
               PROVE  /\ pending[fromHost'[i].id] # None
                      /\ Forwarding => fromHost'[i].id # inFrame.id
                      /\ \A j \in DOMAIN toHost : IsCall(toHost[j]) => toHost[j].id # fromHost'[i].id
                      /\ \A p \in hostOpen' : p.id # fromHost'[i].id
                      /\ \A j \in DOMAIN fromHost' :
                           fromHost'[j].no # 0 /\ fromHost'[j].id = fromHost'[i].id => j = i
    BY <1>6, <1>7 DEF BackIn, IsCall
  <2>1. CASE i = n
    BY <1>3, <1>4, <1>5, <1>6, <1>11, <2>1 DEF Paired, BackIn, OpenIn
  <2>2. CASE i # n
    BY <1>3, <1>5, <1>6, <2>2 DEF Paired, BackIn
  <2> QED BY <2>1, <2>2
<1>13. SoundIn'
  <2>1. f.schema => f.body = "result" /\ pending'[f.id] \in ProviderInResult
    <3> HAVE f.schema
    <3>1. body = "result" /\ q.method \in ProviderInResult
      BY <1>3
    <3> QED BY <1>3, <1>6, <1>11, <3>1
  <2>2. \A i \in DOMAIN fromHost : Sound(fromHost[i])'
    BY <1>5, <1>6 DEF Paired, SoundIn, Sound
  <2> QED BY <1>3, <1>4, <1>5, <2>1, <2>2 DEF SoundIn, Sound
<1>14. WayIn'
  <2> SUFFICES ASSUME host = "running", NEW k \in Tracked PROVE OnWay(k)'
    BY <1>6 DEF WayIn, Tracked
  <2>1. OnWay(k)
    BY DEF Paired, WayIn
  <2>2. CASE k = q.id
    BY <1>3, <1>4, <1>5, <2>2 DEF OnWay
  <2>3. CASE k # q.id
    BY <1>5, <1>6, <1>7, <2>1, <2>3 DEF OnWay, IsCall
  <2> QED BY <2>2, <2>3
<1> QED BY <1>6, <1>8, <1>9, <1>10, <1>12, <1>13, <1>14 DEF Paired

(* The host dies with what it had taken on and what it had not read.       *)
LEMMA PairGone ==
  ASSUME TypeInv, Paired, HostStops \/ HostCrashes
  PROVE  Paired'
<1>1. /\ host' = "exited" /\ hostOpen' = {} /\ toHost' = <<>>
      /\ UNCHANGED <<pending, inPc, inFrame>>
      /\ Emits(CutLine) \/ UNCHANGED fromHost
  BY DEF HostStops, HostCrashes, HostGone, session, relay
<1>2. DOMAIN toHost' = {}
  BY <1>1
<1>3. Forwarding' <=> Forwarding
  BY <1>1 DEF Forwarding, IsCall
<1>4. InIn' /\ ToIn' /\ OpenIn' /\ WayIn'
  BY <1>1, <1>2, <1>3 DEF Paired, InIn, ToIn, OpenIn, WayIn
<1>5. CASE Emits(CutLine)
  <2> DEFINE n == Len(fromHost) + 1
  <2>1. /\ DOMAIN fromHost' = DOMAIN fromHost \cup {n} /\ n \notin DOMAIN fromHost
        /\ fromHost'[n] = CutLine /\ \A i \in DOMAIN fromHost : fromHost'[i] = fromHost[i]
    BY <1>5, EmitFacts, NoticeType
  <2> HIDE DEF n
  <2>2. BackIn'
    BY <1>1, <1>2, <1>3, <2>1, NoticeType DEF Paired, BackIn
  <2>3. SoundIn'
    BY <1>1, <2>1, NoticeType DEF Paired, SoundIn, Sound
  <2> QED BY <1>1, <1>4, <2>2, <2>3 DEF Paired
<1>6. CASE UNCHANGED fromHost
  <2>1. BackIn' /\ SoundIn'
    BY <1>1, <1>2, <1>3, <1>6 DEF Paired, BackIn, SoundIn, Sound
  <2> QED BY <1>1, <1>4, <2>1 DEF Paired
<1> QED BY <1>1, <1>5, <1>6

(* Every step of a host that keeps to the protocol keeps calls and map     *)
(* paired.                                                                 *)
LEMMA PairStep ==
  ASSUME NoNullIds, TypeInv, PairInv, [Next]_vars
  PROVE  PairInv'
<1> SUFFICES ASSUME ~rogue' PROVE Paired'
  BY DEF PairInv
<1>0. CASE HostMisbehaves
  BY <1>0 DEF HostMisbehaves
<1>1. ASSUME ~rogue PROVE Paired
  BY <1>1 DEF PairInv
<1>2. CASE Input
  <2>1. PICK f \in ClientFrames : InDrop(f) \/ InReject(f) \/ InAccept(f) \/ InOversized(f)
    BY <1>2 DEF Input
  <2>2. ~rogue
    BY <2>1 DEF InDrop, InReject, InAccept, InOversized, pipes
  <2>3. CASE InAccept(f)
    BY <1>1, <2>2, <2>3, PairAccept
  <2>4. CASE InDrop(f) \/ InReject(f) \/ InOversized(f)
    BY <1>1, <2>2, <2>4, PairQuiet DEF InDrop, InReject, InOversized, Reads, relay, pipes, Forwarding
  <2> QED BY <2>1, <2>3, <2>4
<1>3. CASE InForward
  BY <1>1, <1>3, PairForward DEF InForward
<1>4. CASE InWriteRejection \/ InEof
  BY <1>1, <1>4, PairQuiet DEF InWriteRejection, InEof, pipes, Forwarding
<1>5. CASE OutAdapt \/ OutRefuse
  BY <1>1, <1>5, PairOut DEF OutAdapt, OutRefuse
<1>6. CASE OutWrite \/ OutEof
  BY <1>1, <1>6, PairQuiet DEF OutWrite, OutEof, pipes, Forwarding, IsCall
<1>7. CASE Reap \/ JoinOutput \/ JoinInput \/ Return
  BY <1>1, <1>7, PairQuiet DEF Reap, JoinOutput, JoinInput, Return, session, relay, pipes,
     Forwarding, IsCall
<1>8. CASE HostRead
  <2>1. /\ UNCHANGED <<pending, inPc, inFrame, host, rogue>> /\ toHost # <<>>
        /\ toHost' = Tail(toHost)
    BY <1>8 DEF HostRead, session, relay
  <2>2. Head(toHost) \in HostFrame
    BY <2>1, TailFacts DEF TypeInv
  <2>3. /\ IsCall(Head(toHost)) => hostOpen' = hostOpen \cup {Head(toHost)}
        /\ ~IsCall(Head(toHost)) => hostOpen' = hostOpen
        /\ Emits(ErrorFor("host", Null, 0)) \/ UNCHANGED fromHost
    BY <1>8, <2>2, ConstantsAssumption DEF HostRead, IsCall, HostFrame
  <2> QED BY <1>1, <2>1, <2>3, PairRead
<1>9. ASSUME NEW q \in hostOpen, HostAnswer(q) PROVE Paired'
  BY <1>1, <1>9, PairAnswer DEF HostAnswer
<1>10. CASE HostNotifies
  <2>1. UNCHANGED <<pending, toHost, hostOpen, inPc, inFrame, host, rogue>> /\ Emits(Notice)
    BY <1>10 DEF HostNotifies, session, relay
  <2> QED BY <1>1, <2>1, NoticeType, PairEmit
<1>11. CASE HostStops \/ HostCrashes
  BY <1>1, <1>11, PairGone DEF HostStops, HostCrashes
<1>12. CASE ClientCloses \/ ClientLeaves
  BY <1>1, <1>12, PairQuiet DEF ClientCloses, ClientLeaves, relay, pipes, Forwarding, IsCall
<1>13. CASE UNCHANGED vars
  BY <1>1, <1>13, PairQuiet DEF vars, Forwarding, IsCall
<1> QED BY <1>0, <1>2, <1>3, <1>4, <1>5, <1>6, <1>7, <1>8, <1>9, <1>10, <1>11, <1>12, <1>13
        DEF Next, Finished

(* Nothing is on its way at the start, and nothing was asked or shown.     *)
LEMMA PairInit == Init => PairInv /\ AskInv /\ CleanInv
<1> SUFFICES ASSUME Init PROVE PairInv /\ AskInv /\ CleanInv
  OBVIOUS
<1>1. /\ ~Forwarding /\ inPc = "read" /\ outPc = "read" /\ hostOpen = {} /\ DOMAIN toHost = {}
      /\ DOMAIN fromHost = {} /\ DOMAIN received = {} /\ Tracked = {}
      /\ pending[Null] = None
  BY DEF Init, Forwarding, Tracked, Keys
<1>2. InIn /\ ToIn /\ OpenIn /\ BackIn /\ SoundIn /\ WayIn
  BY <1>1 DEF InIn, ToIn, OpenIn, BackIn, SoundIn, WayIn
<1> QED BY <1>1, <1>2 DEF Paired, PairInv, AskInv, CleanInv
-----------------------------------------------------------------------------
(* adapt_server_frame leaves no provider the client should not see in a    *)
(* field of the schema.                                                    *)
LEMMA CleanAdapt ==
  ASSUME TypeInv, PairInv, NEW g \in ServerFrame, ~rogue => Sound(g), ~Invalid(g)
  PROVE  Clean(AdaptServer(g))
<1> SUFFICES ASSUME AdaptServer(g).schema, AdaptServer(g).kind = "notice" \/ ~rogue
             PROVE  AdaptServer(g).provider \in {"none", "public"}
  BY DEF Clean
<1>1. g.schema /\ (g.kind = "notice" \/ ~rogue)
  BY AdaptType
<1>2. CASE g.kind = "notice"
  <2>1. g.provider # "other"
    BY <1>1, <1>2 DEF Invalid, BadProvider
  <2>2. AdaptServer(g).provider = IF g.provider = "meta" THEN "public" ELSE g.provider
    BY <1>1, <1>2, AdaptType
  <2> QED BY <2>1, <2>2 DEF ServerFrame
<1>3. CASE g.kind # "notice"
  <2>1. /\ g.kind = "response" /\ g.id \in Keys /\ g.provider \in {"none", "meta"}
        /\ g.body = "result" /\ pending[g.id] \in ProviderInResult
    BY <1>1, <1>3 DEF Sound
  <2>2. AdaptServer(g).provider = IF g.provider = "meta" THEN "public" ELSE g.provider
    BY <2>1, AdaptType DEF IsAnswer
  <2> QED BY <2>1, <2>2
<1> QED BY <1>2, <1>3

(* Nothing written to the client names such a provider.                    *)
LEMMA CleanStep ==
  ASSUME TypeInv, PairInv, CleanInv, [Next]_vars
  PROVE  CleanInv'
<1>1. ASSUME rogue => rogue', UNCHANGED received, outPc' = "write" => outPc = "write" /\ outFrame' = outFrame,
             inPc' = "reject" => ~inFrame'.schema
      PROVE  CleanInv'
  BY <1>1 DEF CleanInv, Clean
<1>2. ASSUME NEW f \in ServerFrame, Clean(f), received' = Append(received, f), rogue' = rogue,
             outPc' = "write" => outPc = "write" /\ outFrame' = outFrame,
             inPc' = "reject" => ~inFrame'.schema
      PROVE  CleanInv'
  <2>1. received \in Seq(ServerFrame)
    BY DEF TypeInv
  <2>2. /\ DOMAIN received' = DOMAIN received \cup {Len(received) + 1}
        /\ received'[Len(received) + 1] = f
        /\ \A i \in DOMAIN received : received'[i] = received[i]
    BY <1>2, <2>1, AppendFacts
  <2>3. \A i \in DOMAIN received' : Clean(received'[i])
    BY <1>2, <2>2 DEF CleanInv
  <2> QED BY <1>2, <2>3 DEF CleanInv, Clean
<1>3. CASE Input
  <2>1. PICK f \in ClientFrames : InDrop(f) \/ InReject(f) \/ InAccept(f) \/ InOversized(f)
    BY <1>3 DEF Input
  <2>2. UNCHANGED <<received, outPc, outFrame, rogue>>
    BY <2>1 DEF InDrop, InReject, InAccept, InOversized, relay, pipes
  <2>3. inPc' = "reject" => ~inFrame'.schema
    BY <2>1 DEF InDrop, InReject, InAccept, InOversized, relay, Reads, ErrorFor
  <2> QED BY <1>1, <2>2, <2>3
<1>4. CASE InWriteRejection
  <2>1. inFrame \in ServerFrame /\ ~inFrame.schema
    BY <1>4 DEF InWriteRejection, TypeInv, CleanInv
  <2>2. Clean(inFrame)
    BY <2>1 DEF Clean
  <2>3. inPc' # "reject" /\ UNCHANGED <<outPc, outFrame, rogue>>
    BY <1>4 DEF InWriteRejection, pipes
  <2>4. CASE client # "gone"
    BY <1>2, <1>4, <2>1, <2>2, <2>3, <2>4 DEF InWriteRejection
  <2>5. CASE client = "gone"
    BY <1>1, <1>4, <2>3, <2>5 DEF InWriteRejection
  <2> QED BY <2>4, <2>5
<1>5. CASE OutAdapt
  <2>1. /\ fromHost \in Seq(ServerFrame) /\ fromHost # <<>>
        /\ ~Invalid(Head(fromHost)) /\ outFrame' = AdaptServer(Head(fromHost))
        /\ UNCHANGED <<received, rogue, inPc, inFrame>>
    BY <1>5 DEF OutAdapt, TypeInv
  <2>2. Head(fromHost) \in ServerFrame /\ (~rogue => Sound(Head(fromHost)))
    BY <2>1, TailFacts DEF PairInv, Paired, SoundIn
  <2>3. Clean(outFrame')
    BY <2>1, <2>2, CleanAdapt
  <2> QED BY <2>1, <2>3 DEF CleanInv, Clean
<1>6. CASE OutWrite
  <2>1. outFrame \in ServerFrame /\ Clean(outFrame) /\ outPc' # "write" /\ UNCHANGED <<inPc, inFrame, rogue>>
    BY <1>6 DEF OutWrite, TypeInv, CleanInv, pipes
  <2>2. inPc' = "reject" => ~inFrame'.schema
    BY <2>1 DEF CleanInv
  <2>3. CASE client # "gone"
    BY <1>2, <1>6, <2>1, <2>2, <2>3 DEF OutWrite
  <2>4. CASE client = "gone"
    BY <1>1, <1>6, <2>1, <2>2, <2>4 DEF OutWrite
  <2> QED BY <2>3, <2>4
<1>7. CASE InForward \/ InEof \/ OutRefuse \/ OutEof
  BY <1>1, <1>7 DEF InForward, InEof, OutRefuse, OutEof, pipes, CleanInv
<1>8. CASE Reap \/ JoinOutput \/ JoinInput \/ Return
  BY <1>1, <1>8 DEF Reap, JoinOutput, JoinInput, Return, session, relay, pipes, CleanInv
<1>9. CASE HostRead \/ (\E q \in hostOpen : HostAnswer(q)) \/ HostNotifies \/ HostMisbehaves
  BY <1>1, <1>9 DEF HostRead, HostAnswer, HostNotifies, HostMisbehaves, session, relay, CleanInv
<1>10. CASE HostStops \/ HostCrashes \/ ClientCloses \/ ClientLeaves
  BY <1>1, <1>10 DEF HostStops, HostCrashes, ClientCloses, ClientLeaves, session, relay, pipes, CleanInv
<1>11. CASE UNCHANGED vars
  BY <1>1, <1>11 DEF vars, CleanInv
<1> QED BY <1>3, <1>4, <1>5, <1>6, <1>7, <1>8, <1>9, <1>10, <1>11 DEF Next, Finished
-----------------------------------------------------------------------------
(* An id in the map stands for exactly one call on its way.                *)
LEMMA FlightOne ==
  ASSUME TypeInv, Paired, host = "running", NEW k \in Tracked
  PROVE  Cardinality(InFlight(k)) = 1
<1>1. k \in Keys /\ OnWay(k)
  BY DEF Paired, WayIn, Tracked
<1>2. \A q \in hostOpen : IsCall(q)
  BY DEF TypeInv
<1>3. \E n : InFlight(k) = {n}
  <2>1. CASE Forwarding /\ inFrame.id = k
    <3>1. InFlight(k) = {inFrame.no}
      BY <1>1, <2>1 DEF Paired, ToIn, OpenIn, BackIn, InFlight, Forwarding, IsCall
    <3> QED BY <3>1
  <2>2. ASSUME NEW i \in DOMAIN toHost, IsCall(toHost[i]), toHost[i].id = k
        PROVE  \E n : InFlight(k) = {n}
    <3>1. InFlight(k) = {toHost[i].no}
      BY <1>1, <2>2 DEF Paired, ToIn, OpenIn, BackIn, InFlight, Forwarding, IsCall
    <3> QED BY <3>1
  <2>3. ASSUME NEW q \in hostOpen, q.id = k
        PROVE  \E n : InFlight(k) = {n}
    <3>1. InFlight(k) = {q.no}
      BY <1>1, <2>3 DEF Paired, ToIn, OpenIn, BackIn, InFlight, Forwarding, IsCall
    <3> QED BY <3>1
  <2>4. ASSUME NEW i \in DOMAIN fromHost, fromHost[i].no # 0, fromHost[i].id = k
        PROVE  \E n : InFlight(k) = {n}
    <3>1. InFlight(k) = {fromHost[i].no}
      BY <1>1, <2>4 DEF Paired, ToIn, OpenIn, BackIn, InFlight, Forwarding, IsCall
    <3> QED BY <3>1
  <2> QED BY <1>1, <2>1, <2>2, <2>3, <2>4 DEF OnWay
<1> QED BY <1>3, FS_Singleton

(* And an id that is not in the map stands for none.                       *)
LEMMA FlightNone ==
  ASSUME TypeInv, Paired, NEW k \in Keys, k \notin Tracked
  PROVE  Cardinality(InFlight(k)) = 0
<1>1. pending[k] = None /\ None \notin Methods
  BY DEF Tracked, Methods, None, ProviderInRequest, ProviderInResult
<1>2. ~(inPc = "forward" /\ inFrame.kind = "call" /\ inFrame.id = k)
  BY <1>1 DEF Paired, InIn, Forwarding, IsCall, TypeInv, HostFrame
<1>3. \A i \in DOMAIN toHost : ~(toHost[i].kind = "call" /\ toHost[i].id = k)
  <2>1. \A i \in DOMAIN toHost : toHost[i] \in HostFrame
    BY DEF TypeInv
  <2> QED BY <1>1, <2>1 DEF Paired, ToIn, IsCall, HostFrame
<1>4. \A q \in hostOpen : q.id # k
  BY <1>1 DEF Paired, OpenIn, TypeInv, HostFrame
<1>5. \A i \in DOMAIN fromHost : ~(fromHost[i].no # 0 /\ fromHost[i].id = k)
  BY <1>1 DEF Paired, BackIn
<1>6. InFlight(k) = {}
  BY <1>2, <1>3, <1>4, <1>5 DEF InFlight
<1> QED BY <1>6, FS_EmptySet
-----------------------------------------------------------------------------
(* The relay's state is well typed, whatever the client and the host do.   *)
THEOREM TypeCorrect == Spec => []TypeInv
<1>1. TypeInv /\ [Next]_vars => TypeInv'
  BY TypeStep
<1> QED BY TypeInit, <1>1, PTL DEF Spec

(* A client gets no more results for an id than requests it had taken,     *)
(* whatever the host emits (adapt_server_frame takes the entry out of the  *)
(* map with the result).                                                   *)
THEOREM ResultsArePaired == Spec => []ResultsPaired
<1> DEFINE Ind == TypeInv /\ ResultInv
<1>1. Init => Ind
  BY TypeInit, ResultInit
<1>2. Ind /\ [Next]_vars => Ind'
  BY TypeStep, ResultStep
<1>3. Ind => ResultsPaired
  <2> SUFFICES ASSUME Ind, NEW k \in Keys PROVE Cardinality(Results(k)) <= accepted[k]
    BY DEF ResultsPaired, Results, IsResult
  <2>1. Cardinality(Results(k)) \in Nat /\ Due(k) \in {0, 1} /\ Owed(k) \in {0, 1} /\ accepted[k] \in Nat
    BY ResultsFinite DEF Due, Owed, TypeInv
  <2> QED BY <2>1 DEF ResultInv
<1> QED BY <1>1, <1>2, <1>3, PTL DEF Spec

(* When run_stock_muse reports success the client was given every frame    *)
(* the host ever wrote: MspRelay::finish joins the output thread first.    *)
THEOREM OutputFlushed == Spec => []FlushedBeforeReturn
<1> DEFINE Ind == TypeInv /\ FlushInv
<1>1. Init => Ind
  BY TypeInit, FlushInit
<1>2. Ind /\ [Next]_vars => Ind'
  BY TypeStep, FlushStep
<1>3. Ind => FlushedBeforeReturn
  <2> SUFFICES ASSUME Ind, status = "ok" PROVE Cardinality(Given) = emitted
    BY DEF FlushedBeforeReturn, Given
  <2>1. outPc = "done" /\ fromHost = <<>> /\ InHand = 0
    BY DEF FlushInv, InHand
  <2>2. Cardinality(Given) \in Nat /\ Len(fromHost) = 0
    BY <2>1, GivenFinite
  <2> QED BY <2>1, <2>2 DEF FlushInv
<1> QED BY <1>1, <1>2, <1>3, PTL DEF Spec

(* The map never holds more than MAX_PENDING_REQUESTS ids, whatever the    *)
(* client and the host do.                                                 *)
THEOREM MapBounded == Spec => [](Cardinality(Tracked) <= maxPending)
<1> DEFINE Ind == TypeInv /\ MapInv
<1>1. Init => Ind
  BY TypeInit, MapInit
<1>2. Ind /\ [Next]_vars => Ind'
  BY TypeStep, MapStep
<1>3. Ind => Cardinality(Tracked) <= maxPending
  BY DEF MapInv
<1> QED BY <1>1, <1>2, <1>3, PTL DEF Spec

(* While the host keeps to the protocol and no client uses the id null, an *)
(* id is in the map exactly as long as its one call is on its way.         *)
THEOREM MapExact ==
  ASSUME NoNullIds
  PROVE  Spec => []PendingExact
<1> DEFINE Ind == TypeInv /\ MapInv /\ PairInv
<1>1. Init => Ind
  BY TypeInit, MapInit, PairInit
<1>2. Ind /\ [Next]_vars => Ind'
  BY TypeStep, MapStep, PairStep
<1>3. Ind => PendingExact
  <2> SUFFICES ASSUME Ind PROVE PendingExact
    OBVIOUS
  <2>1. ASSUME host = "running", ~rogue, NEW k \in Keys
        PROVE  Cardinality(InFlight(k)) = IF k \in Tracked THEN 1 ELSE 0
    <3>1. Paired
      BY <2>1 DEF PairInv
    <3>2. CASE k \in Tracked
      BY <2>1, <3>1, <3>2, FlightOne
    <3>3. CASE k \notin Tracked
      BY <3>1, <3>3, FlightNone
    <3> QED BY <3>2, <3>3
  <2> QED BY <2>1 DEF PendingExact, MapInv
<1> QED BY <1>1, <1>2, <1>3, PTL DEF Spec

(* No answer to a forwarded request is refused by adapt_server_frame while *)
(* the host keeps to the protocol and no client uses the id null.          *)
THEOREM AnswersArePassed ==
  ASSUME NoNullIds
  PROVE  Spec => []AnswersPass
<1> DEFINE Ind == TypeInv /\ PairInv
<1>1. Init => Ind
  BY TypeInit, PairInit
<1>2. Ind /\ [Next]_vars => Ind'
  BY TypeStep, PairStep
<1>3. Ind => AnswersPass
  <2> SUFFICES ASSUME Ind, ~rogue, fromHost # <<>>, Head(fromHost).no # 0
               PROVE  ~Invalid(Head(fromHost))
    BY DEF AnswersPass
  <2>1. Head(fromHost) = fromHost[1] /\ 1 \in DOMAIN fromHost
    BY TailFacts DEF TypeInv
  <2>2. Sound(Head(fromHost)) /\ pending[Head(fromHost).id] # None
    BY <2>1 DEF PairInv, Paired, SoundIn, BackIn
  <2> QED BY <2>2 DEF Sound, Invalid, IsAnswer, Tracked, BadProvider
<1> QED BY <1>1, <1>2, <1>3, PTL DEF Spec

(* The internal provider name stays inside the relay and no other one gets *)
(* in, for clients that do not use the id null.                            *)
THEOREM ProviderStaysInside ==
  ASSUME NoNullIds
  PROVE  Spec => []ProviderBoundary
<1> DEFINE Ind == TypeInv /\ PairInv /\ AskInv /\ CleanInv
<1>1. Init => Ind
  BY TypeInit, PairInit
<1>2. Ind /\ [Next]_vars => Ind'
  BY TypeStep, PairStep, AskStep, CleanStep
<1>3. Ind => ProviderBoundary
  <2> SUFFICES ASSUME Ind PROVE ProviderBoundary
    OBVIOUS
  <2>1. \A i \in DOMAIN received :
          received[i].schema /\ (received[i].kind = "notice" \/ ~rogue) =>
            received[i].provider \in {"none", "public"}
    BY DEF CleanInv, Clean
  <2>2. \A c \in hostOpen \cup {toHost[i] : i \in DOMAIN toHost} : Asks(c)
    BY DEF AskInv
  <2> QED BY <2>1, <2>2 DEF ProviderBoundary, Asks
<1> QED BY <1>1, <1>2, <1>3, PTL DEF Spec
=============================================================================
