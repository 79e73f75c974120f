------------------------------ MODULE ZaiStream ------------------------------
(***************************************************************************)
(* The synthesizer of a Responses event stream from a Z.ai chat-completions *)
(* stream (crates/codex-transport/src/zai/stream.rs).                      *)
(*                                                                         *)
(* Three actors: the upstream body, which cuts its bytes into chunks        *)
(* anywhere, fails or ends; the synthesizer; and the gateway, which polls   *)
(* it and may drop it.  Reasoning, text and the fragments of several tool   *)
(* calls arrive interleaved, and each becomes a Responses item: announced, *)
(* streamed, closed, and listed in the response that ends the stream.      *)
(*                                                                         *)
(* The variable `state` is the code's struct State, and its methods are    *)
(* operators from state to state.  The wire is a sequence of tokens: a      *)
(* frame, which stands for the bytes that complete it, or Part, bytes that *)
(* complete none (how frames are found in the bytes is module FrameScan).  *)
(* Text and arguments are sequences of fragments.                          *)
(***************************************************************************)
EXTENDS Integers, SequencesExt, ToolNames, ProviderIds

CONSTANTS
  None,                \* an absent value
  Chunks,              \* what one upstream.next() may deliver
  Chars, Words,        \* what identifiers, and texts and arguments, are made of
  RequestKey,          \* the caller's identifier, if Z.ai sends none
  Tools,               \* the names the request's tools were recorded under
  FreeformTools,       \* those of them that take a freeform input
  MaxBufferedBytes,    \* MAX_BUFFERED_BYTES, in tokens
  MaxU64,              \* u64::MAX
  MaxWire              \* bound: tokens the upstream sends in one response

Part == [kind |-> "part"]
OwnMessage == <<"own">>         \* an error message written in this file
EmptyObject == <<"{}">>         \* the arguments of a call that has none
Opening == "{input:"            \* the fragments that wrap a freeform input
Closing == "}"

(* What the upstream may send.  An empty identifier, name or text is one    *)
(* that is missing.                                                        *)
Frames == UNION {ToSet(c) : c \in Chunks}
CallDeltas == [index : Nat, id : Seq(Chars), name : Names, arguments : Seq(Words)]
WellFormed(f) ==
  f.kind = "chunk" =>
    /\ f.id \in Seq(Chars) /\ f.reasoning \in Seq(Words) /\ f.content \in Seq(Words)
    /\ f.calls \in Seq(CallDeltas)

TextKinds == {"reasoning", "message"}
Identifiers == Seq(SafeChars \cup {"unknown"}) \ {<<>>}
ItemIds == (TextKinds \cup {"call"}) \X Identifiers \X Nat
TextItems == [id : ItemIds, index : Nat, text : Seq(Words)]

ASSUME ConstantsAssumption ==
  /\ Chunks \subseteq Seq(Frames) /\ \A f \in Frames : WellFormed(f)
  /\ RequestKey \in Seq(Chars)
  /\ Tools \subseteq Names /\ Recordable(Tools) /\ FreeformTools \subseteq Tools
  /\ None \notin TextItems /\ None \notin Nat
  /\ {MaxBufferedBytes, MaxU64, MaxWire} \subseteq Nat

TextEvents ==
  [reasoning |-> [added |-> "reasoning_summary_part.added",
                  delta |-> "reasoning_summary_text.delta",
                  text |-> "reasoning_summary_text.done",
                  part |-> "reasoning_summary_part.done"],
   message |-> [added |-> "content_part.added", delta |-> "output_text.delta",
                text |-> "output_text.done", part |-> "content_part.done"]]

VARIABLES
  pc,     \* "idle" | "top" | "await" | "drain" | "ended" | "cancelled"
  state,  \* struct State
  sent,   \* history: events the gateway has been given
  taken,  \* history: frames handled, in order
  wired   \* tokens received so far

vars == <<pc, state, sent, taken, wired>>
-----------------------------------------------------------------------------
IsFreeform(encoded) == \E name \in FreeformTools : EncodedName(name) = encoded

FreeformInput(arguments) ==
  IF Len(arguments) >= 2 /\ Head(arguments) = Opening /\ Last(arguments) = Closing
  THEN SubSeq(arguments, 2, Len(arguments) - 1)
  ELSE arguments

(* A count Z.ai does not report is None; the sum is a u64 sum, which the   *)
(* release build wraps.                                                    *)
Count(n) == IF n = None THEN 0 ELSE n
MapUsage(usage) ==
  [usage EXCEPT !.total =
     IF @ # None THEN @ ELSE (Count(usage.input) + Count(usage.output)) % (MaxU64 + 1)]
-----------------------------------------------------------------------------
(* emit: number the event and queue it.  An event carries the output index *)
(* of its item (None for the events of the response) and its payload.      *)
Event(type, index, body) == [type |-> type, index |-> index, body |-> body]

Numbered(e, n) == [type |-> e.type, index |-> e.index, body |-> e.body, seq |-> n]

EmitAll(s, es) ==
  [s EXCEPT !.pending = @ \o [i \in 1..Len(es) |-> Numbered(es[i], s.sequence + i - 1)],
            !.sequence = @ + Len(es)]
Emit(s, e) == EmitAll(s, <<e>>)

ResponseEnvelope(s, status, output) ==
  [id |-> s.responseId, status |-> status, model |-> s.model,
   output |-> output, usage |-> s.usage]

Fail(s, message) ==
  IF s.terminated THEN [s EXCEPT !.finished = TRUE]
  ELSE [Emit(s, Event("error", None, [message |-> message, id |-> s.responseId]))
          EXCEPT !.terminated = TRUE, !.finished = TRUE]

Start_Mutant(s, f) ==  \* OutputAccepted: Z.ai's identifier is used as it is
  IF s.started THEN s
  ELSE LET stem == IF f.id # <<>> THEN f.id ELSE RequestKey
           named == [s EXCEPT !.started = TRUE, !.stem = stem,
                              !.responseId = <<"resp", stem>>,
                              !.model = IF f.model # None THEN f.model ELSE @]
           response == ResponseEnvelope(named, "in_progress", <<>>)
       IN EmitAll(named, <<Event("created", None, response),
                           Event("in_progress", None, response)>>)

(* start: the first chunk, whatever it holds, opens the response.          *)
Start(s, f) ==
  IF s.started THEN s
  ELSE LET stem == SanitizeIdentifier(IF f.id # <<>> THEN f.id ELSE RequestKey)
           named == [s EXCEPT !.started = TRUE, !.stem = stem,
                              !.responseId = <<"resp", stem>>,
                              !.model = IF f.model # None THEN f.model ELSE @]
           response == ResponseEnvelope(named, "in_progress", <<>>)
       IN EmitAll(named, <<Event("created", None, response),
                           Event("in_progress", None, response)>>)

ItemId(s, kind, index) == <<kind, s.stem, index>>
-----------------------------------------------------------------------------
(* close_reasoning and close_message                                       *)
CloseText_Mutant(s, k) ==  \* ItemsBracketed: the item is not taken
  IF s.open[k] = None THEN s
  ELSE LET t == s.open[k]
           item == [type |-> k, id |-> t.id, text |-> t.text]
       IN [EmitAll(s, <<Event(TextEvents[k].text, t.index, t.text),
                        Event(TextEvents[k].part, t.index, t.text),
                        Event("item.done", t.index, item)>>)
             EXCEPT !.output = Append(@, item)]

CloseText(s, k) ==
  IF s.open[k] = None THEN s
  ELSE LET t == s.open[k]
           item == [type |-> k, id |-> t.id, text |-> t.text]
       IN [EmitAll(s, <<Event(TextEvents[k].text, t.index, t.text),
                        Event(TextEvents[k].part, t.index, t.text),
                        Event("item.done", t.index, item)>>)
             EXCEPT !.open[k] = None, !.output = Append(@, item)]

CloseReasoning(s) == CloseText(s, "reasoning")
CloseMessage(s) == CloseText(s, "message")

(* The first fragment of a text announces its item.                        *)
OpenText(s, k) ==
  IF s.open[k] # None THEN s
  ELSE LET index == s.nextIndex
           id == ItemId(s, k, index)
       IN [EmitAll(s, <<Event("item.added", index, [type |-> k, id |-> id, text |-> <<>>]),
                        Event(TextEvents[k].added, index, <<>>)>>)
             EXCEPT !.nextIndex = @ + 1,
                    !.open[k] = [id |-> id, index |-> index, text |-> <<>>]]

AppendText_Mutant(s, k, delta) ==  \* ItemsMatchDeltas: the text is replaced
  Emit([s EXCEPT !.open[k].text = delta],
       Event(TextEvents[k].delta, s.open[k].index, delta))

AppendText(s, k, delta) ==
  Emit([s EXCEPT !.open[k].text = @ \o delta],
       Event(TextEvents[k].delta, s.open[k].index, delta))

PushReasoning_Mutant(s, delta) ==  \* NothingUnsaid: no reasoning after text
  IF s.open["message"] # None THEN CloseMessage(s)
  ELSE AppendText(OpenText(s, "reasoning"), "reasoning", delta)

PushReasoning(s, delta) ==
  AppendText(OpenText(CloseMessage(s), "reasoning"), "reasoning", delta)

PushText(s, delta) ==
  AppendText(OpenText(CloseReasoning(s), "message"), "message", delta)
-----------------------------------------------------------------------------
(* push_tool_call, in the order of its steps.                              *)
DefaultCall ==
  [id |-> <<>>, index |-> 0, callId |-> <<>>, encodedName |-> <<>>, name |-> <<>>,
   arguments |-> <<>>, freeform |-> FALSE, announced |-> FALSE]

Grow(calls, n) ==
  IF n <= Len(calls) THEN calls
  ELSE calls \o [i \in 1..(n - Len(calls)) |-> DefaultCall]

Reserve(s, i) ==
  IF s.calls[i].id # <<>> THEN s
  ELSE [s EXCEPT !.calls[i] = [@ EXCEPT !.index = s.nextIndex,
                                        !.id = ItemId(s, "call", s.nextIndex)],
                 !.nextIndex = @ + 1]

(* The first identifier and the first name a call is given stay its own.   *)
Identify_Mutant(call, f) ==  \* CallsDelivered: a later identifier replaces it
  [call EXCEPT
     !.callId = IF f.id # <<>> THEN SanitizeIdentifier(f.id) ELSE @,
     !.encodedName = IF f.name # <<>> /\ @ = <<>> THEN f.name ELSE @,
     !.name = IF f.name # <<>> /\ call.encodedName = <<>> THEN Decode(Tools, f.name) ELSE @,
     !.freeform = IF f.name # <<>> /\ call.encodedName = <<>> THEN IsFreeform(f.name) ELSE @]

Identify(call, f) ==
  [call EXCEPT
     !.callId = IF f.id # <<>> /\ @ = <<>> THEN SanitizeIdentifier(f.id) ELSE @,
     !.encodedName = IF f.name # <<>> /\ @ = <<>> THEN f.name ELSE @,
     !.name = IF f.name # <<>> /\ call.encodedName = <<>> THEN Decode(Tools, f.name) ELSE @,
     !.freeform = IF f.name # <<>> /\ call.encodedName = <<>> THEN IsFreeform(f.name) ELSE @]

CallItem(call, payload) ==
  [type |-> IF call.freeform THEN "custom_tool_call" ELSE "function_call",
   id |-> call.id, callId |-> call.callId, name |-> call.name, payload |-> payload]

Announce(s, i) ==
  LET call == s.calls[i] IN
  IF call.announced \/ call.encodedName = <<>> \/ call.callId = <<>> THEN s
  ELSE Emit([s EXCEPT !.calls[i].announced = TRUE],
            Event("item.added", call.index, CallItem(call, <<>>)))

AddArguments(s, i, fragment) ==
  LET call == s.calls[i]
      longer == [s EXCEPT !.calls[i].arguments = @ \o fragment]
  IN IF fragment = <<>> THEN s
     ELSE IF call.freeform \/ ~call.announced THEN longer
     ELSE Emit(longer, Event("arguments.delta", call.index, fragment))

PushToolCall(s, f) ==
  LET i == f.index + 1
      closed == CloseMessage(CloseReasoning(s))
      reserved == Reserve([closed EXCEPT !.calls = Grow(@, i)], i)
      identified == [reserved EXCEPT !.calls[i] = Identify(@, f)]
  IN AddArguments(Announce(identified, i), i, f.arguments)

PushToolCalls(s, calls) ==
  LET pushed[n \in 0..Len(calls)] ==
        IF n = 0 THEN s ELSE PushToolCall(pushed[n - 1], calls[n])
  IN pushed[Len(calls)]
-----------------------------------------------------------------------------
(* close_tool_calls: only the calls that were announced.                   *)
CloseCall_Mutant(s, call) ==  \* OutputExact: a freeform call is not listed
  LET payload == IF call.freeform THEN FreeformInput(call.arguments)
                 ELSE IF call.arguments = <<>> THEN EmptyObject
                 ELSE call.arguments
      item == CallItem(call, payload)
      events == IF call.freeform
                THEN <<Event("input.delta", call.index, payload),
                       Event("input.done", call.index, payload),
                       Event("item.done", call.index, item)>>
                ELSE <<Event("arguments.done", call.index, payload),
                       Event("item.done", call.index, item)>>
  IN [EmitAll(s, events) EXCEPT !.output = IF call.freeform THEN @ ELSE Append(@, item)]

CloseCall(s, call) ==
  LET payload == IF call.freeform THEN FreeformInput(call.arguments)
                 ELSE IF call.arguments = <<>> THEN EmptyObject
                 ELSE call.arguments
      item == CallItem(call, payload)
      events == IF call.freeform
                THEN <<Event("input.delta", call.index, payload),
                       Event("input.done", call.index, payload),
                       Event("item.done", call.index, item)>>
                ELSE <<Event("arguments.done", call.index, payload),
                       Event("item.done", call.index, item)>>
  IN [EmitAll(s, events) EXCEPT !.output = Append(@, item)]

CloseToolCalls(s) ==
  LET closed[n \in 0..Len(s.calls)] ==
        IF n = 0 THEN [s EXCEPT !.calls = <<>>]
        ELSE IF s.calls[n].announced THEN CloseCall(closed[n - 1], s.calls[n])
        ELSE closed[n - 1]
  IN closed[Len(s.calls)]

Complete(s, reason) ==
  IF s.terminated THEN s
  ELSE IF ~s.started THEN Fail(s, OwnMessage)
  ELSE LET closed == CloseToolCalls(CloseMessage(CloseReasoning(s)))
           status == IF reason = "length" THEN "incomplete" ELSE "completed"
       IN [Emit(closed, Event(status, None, ResponseEnvelope(closed, status, closed.output)))
             EXCEPT !.terminated = TRUE, !.finished = TRUE]
-----------------------------------------------------------------------------
(* handle_chunk                                                            *)
HandleDelta(s, f) ==
  LET reasoned == IF f.reasoning = <<>> THEN s ELSE PushReasoning(s, f.reasoning)
      worded == IF f.content = <<>> THEN reasoned ELSE PushText(reasoned, f.content)
  IN PushToolCalls(worded, f.calls)

HandleChunk(s, f) ==
  LET started == Start(s, f)
      counted == [started EXCEPT !.usage = IF f.usage = None THEN @ ELSE MapUsage(f.usage)]
      said == HandleDelta(counted, f)
  IN IF ~f.choice THEN counted
     ELSE IF f.finish = None THEN said
     ELSE Complete(said, f.finish)

(* handle_frame, with the failure its caller makes of an Err: bytes that   *)
(* are not UTF-8, or data that is not JSON.                                *)
HandleFrame(s, f) ==
  IF f.kind = "chunk" THEN HandleChunk(s, f)
  ELSE IF f.kind = "error" THEN Fail(s, IF f.message = None THEN OwnMessage ELSE f.message)
  ELSE IF f.kind = "malformed" THEN Fail(s, OwnMessage)
  ELSE IF f.kind = "done"
       THEN [(IF s.started THEN Complete(s, None) ELSE Fail(s, OwnMessage)) EXCEPT !.finished = TRUE]
       ELSE s
-----------------------------------------------------------------------------
Init ==
  /\ pc = "idle"
  /\ state = [responseId |-> <<>>, stem |-> <<>>, model |-> "requested",
              buffer |-> <<>>, pending |-> <<>>, output |-> <<>>, calls |-> <<>>,
              open |-> [k \in TextKinds |-> None], usage |-> None,
              nextIndex |-> 0, sequence |-> 0,
              started |-> FALSE, finished |-> FALSE, terminated |-> FALSE]
  /\ sent = <<>> /\ taken = <<>> /\ wired = 0

(* One turn of the poll function: return a queued event, end, or wait.     *)
Yield ==
  /\ pc \in {"idle", "top"} /\ state.pending # <<>>
  /\ sent' = Append(sent, Head(state.pending))
  /\ state' = [state EXCEPT !.pending = Tail(@)]
  /\ pc' = "idle"
  /\ UNCHANGED <<taken, wired>>

End ==
  /\ pc \in {"idle", "top"} /\ state.pending = <<>> /\ state.finished
  /\ pc' = "ended"
  /\ UNCHANGED <<state, sent, taken, wired>>

Await ==
  /\ pc \in {"idle", "top"} /\ state.pending = <<>> /\ ~state.finished
  /\ pc' = "await"
  /\ UNCHANGED <<state, sent, taken, wired>>

(* push: a chunk that does not fit fails the stream before it is scanned.  *)
Overflow(c) ==
  /\ pc = "await" /\ wired + Len(c) <= MaxWire
  /\ Len(state.buffer) + Len(c) > MaxBufferedBytes
  /\ state' = Fail(state, OwnMessage)
  /\ wired' = wired + Len(c)
  /\ pc' = "top"
  /\ UNCHANGED <<sent, taken>>

Receive(c) ==
  /\ pc = "await" /\ wired + Len(c) <= MaxWire
  /\ Len(state.buffer) + Len(c) <= MaxBufferedBytes
  /\ state' = [state EXCEPT !.buffer = @ \o c]
  /\ wired' = wired + Len(c)
  /\ pc' = "drain"
  /\ UNCHANGED <<sent, taken>>

FrameEnds == {i \in DOMAIN state.buffer : state.buffer[i].kind # "part"}
FrameReady == ~state.terminated /\ FrameEnds # {}

HandleNext ==
  /\ pc = "drain" /\ FrameReady
  /\ LET n == CHOOSE i \in FrameEnds : \A j \in FrameEnds : i <= j
         frame == state.buffer[n]
     IN /\ state' = HandleFrame([state EXCEPT !.buffer = SubSeq(@, n + 1, Len(@))], frame)
        /\ taken' = Append(taken, frame)
  /\ UNCHANGED <<pc, sent, wired>>

Drained ==
  /\ pc = "drain" /\ ~FrameReady
  /\ pc' = "top"
  /\ UNCHANGED <<state, sent, taken, wired>>

BodyError ==
  /\ pc = "await"
  /\ state' = Fail(state, OwnMessage)
  /\ pc' = "top"
  /\ UNCHANGED <<sent, taken, wired>>

BodyEnd_Mutant ==  \* KeepsPromise: the end of the body is passed on
  /\ pc = "await"
  /\ state' = [state EXCEPT !.finished = TRUE]
  /\ pc' = "top"
  /\ UNCHANGED <<sent, taken, wired>>

(* end_of_stream                                                           *)
BodyEnd ==
  /\ pc = "await"
  /\ state' = [Fail(state, OwnMessage) EXCEPT !.finished = TRUE]
  /\ pc' = "top"
  /\ UNCHANGED <<sent, taken, wired>>

(* The gateway drops the stream, between two polls or while it waits.      *)
Cancel ==
  /\ pc \in {"idle", "await"}
  /\ pc' = "cancelled"
  /\ UNCHANGED <<state, sent, taken, wired>>

Stopped ==
  /\ pc \in {"ended", "cancelled"}
  /\ UNCHANGED vars

Next ==
  \/ Yield \/ End \/ Await
  \/ \E c \in Chunks : Overflow(c) \/ Receive(c)
  \/ HandleNext \/ Drained
  \/ BodyError \/ BodyEnd \/ Cancel \/ Stopped

Spec == Init /\ [][Next]_vars
-----------------------------------------------------------------------------
(* Everything the synthesizer has produced, delivered or not.              *)
Out == sent \o state.pending

TerminalTypes == {"completed", "incomplete", "error"}
IsTerminal(e) == e.type \in TerminalTypes
DeltaTypes == {TextEvents[k].delta : k \in TextKinds} \cup {"arguments.delta", "input.delta"}
DoneTypes == {TextEvents[k].text : k \in TextKinds} \cup {"arguments.done", "input.done"}
PartTypes == {TextEvents[k].added : k \in TextKinds} \cup {TextEvents[k].part : k \in TextKinds}
-----------------------------------------------------------------------------
(* The items of the stream.                                                *)
AddedAt(i) == {p \in DOMAIN Out : Out[p].type = "item.added" /\ Out[p].index = i}
DoneAt(i) == {p \in DOMAIN Out : Out[p].type = "item.done" /\ Out[p].index = i}
Streamed(p) == Out[p].type \in DeltaTypes \cup DoneTypes \cup PartTypes
Succeeded == Out # <<>> /\ Last(Out).type \in {"completed", "incomplete"}

(* However reasoning, text and tool calls interleave, the client sees each *)
(* item as one bracket: announced once under an output index of its own,   *)
(* streamed, closed at most once, and closed with the name it was announced *)
(* under; no two text items are open at once; and a response that          *)
(* completes leaves no item open.                                          *)
ItemsBracketed ==
  /\ \A p \in DOMAIN Out : Streamed(p) =>
       /\ \E q \in AddedAt(Out[p].index) : q < p
       /\ \A q \in DoneAt(Out[p].index) : p < q
  /\ \A i \in 0..state.nextIndex :
       /\ \A p, q \in AddedAt(i) : p = q
       /\ \A p, q \in DoneAt(i) : p = q
       /\ \A q \in DoneAt(i) : \E p \in AddedAt(i) :
            p < q /\ Out[p].body.type = Out[q].body.type /\ Out[p].body.id = Out[q].body.id
       /\ Succeeded => (AddedAt(i) # {} => DoneAt(i) # {})
  /\ \E k \in TextKinds : state.open[k] = None

(* What the deltas of item i add up to, in a sequence of events.           *)
StreamedTo(q, i) ==
  FlattenSeq([p \in 1..Len(q) |->
                IF q[p].type \in DeltaTypes /\ q[p].index = i THEN q[p].body ELSE <<>>])

(* What an item is closed with is what was streamed: the text is the       *)
(* concatenation of its deltas, and the deltas of a function call end its  *)
(* arguments (they are all of them when the first fragment names the call).*)
ItemsMatchDeltas ==
  \A p \in DOMAIN Out : Out[p].type = "item.done" =>
    LET item == Out[p].body
        streamed == StreamedTo(Out, Out[p].index)
    IN IF item.type = "function_call"
       THEN IsSuffix(streamed, item.payload)
       ELSE streamed = (IF item.type \in TextKinds THEN item.text ELSE item.payload)

(* The item that closes as the n-th is the n-th of the output.             *)
ClosedIn(q) == {p \in 1..Len(q) : q[p].type = "item.done"}
Lists(output, q) ==
  /\ Len(output) = Cardinality(ClosedIn(q))
  /\ \A p \in ClosedIn(q) :
       output[Cardinality({r \in ClosedIn(q) : r <= p})] = q[p].body

(* The response that ends the stream lists the items the client saw close, *)
(* each once, as it was closed and in that order, and no other.            *)
OutputExact == Succeeded => Lists(Last(Out).body.output, Out)
-----------------------------------------------------------------------------
(* What the upstream said, read off the frames themselves.                 *)
HasDelta(f) == f.kind = "chunk" /\ f.choice
SaidBy(f, k) ==
  IF ~HasDelta(f) THEN <<>> ELSE IF k = "reasoning" THEN f.reasoning ELSE f.content
SaidIn(frames, k) == FlattenSeq([i \in 1..Len(frames) |-> SaidBy(frames[i], k)])
HeardIn(q, k) ==
  FlattenSeq([p \in 1..Len(q) |->
                IF q[p].type = TextEvents[k].delta THEN q[p].body ELSE <<>>])

(* No word is lost, repeated or reordered, wherever the stream stands: the *)
(* reasoning deltas are the upstream's reasoning and the text deltas its   *)
(* content, across every item the interleaving cut them into.              *)
NothingUnsaid == \A k \in TextKinds : HeardIn(Out, k) = SaidIn(taken, k)

(* The fragments of tool calls the upstream sent, and of those of its call *)
(* n the ones with an identifier, the ones with a name, and the arguments. *)
CallsBy(f) == IF HasDelta(f) THEN f.calls ELSE <<>>
CallsIn(frames) == FlattenSeq([i \in 1..Len(frames) |-> CallsBy(frames[i])])
WithId(fs, n) == {i \in 1..Len(fs) : fs[i].index = n /\ fs[i].id # <<>>}
WithName(fs, n) == {i \in 1..Len(fs) : fs[i].index = n /\ fs[i].name # <<>>}
ArgumentsIn(fs, n) ==
  FlattenSeq([i \in 1..Len(fs) |-> IF fs[i].index = n THEN fs[i].arguments ELSE <<>>])

(* The calls that were given both, and the item such a call must become.   *)
Owed(fs) ==
  {n \in {fs[i].index : i \in 1..Len(fs)} : WithId(fs, n) # {} /\ WithName(fs, n) # {}}
Delivered(fs, n, item) ==
  LET name == fs[Min(WithName(fs, n))].name
      arguments == ArgumentsIn(fs, n)
  IN /\ item.type = IF IsFreeform(name) THEN "custom_tool_call" ELSE "function_call"
     /\ item.callId = SanitizeIdentifier(fs[Min(WithId(fs, n))].id)
     /\ item.name = Decode(Tools, name)
     /\ item.payload = IF IsFreeform(name) THEN FreeformInput(arguments)
                       ELSE IF arguments = <<>> THEN EmptyObject ELSE arguments

(* An output with exactly the calls owed, in the order of their indexes.   *)
CallItems(output) == {p \in 1..Len(output) : output[p].type \notin TextKinds}
Delivers(output, fs) ==
  \E owner \in [CallItems(output) -> Owed(fs)] :
    /\ \A p \in CallItems(output) : Delivered(fs, owner[p], output[p])
    /\ \A p, q \in CallItems(output) : p < q => owner[p] < owner[q]
    /\ \A n \in Owed(fs) : \E p \in CallItems(output) : owner[p] = n

(* Every tool call that was ever given an identifier and a name, in one    *)
(* fragment or in several, is in the response that ends the stream exactly *)
(* once, with all of its arguments and in the upstream's order, and        *)
(* nothing else is there as a call.                                        *)
CallsDelivered == Succeeded => Delivers(Last(Out).body.output, CallsIn(taken))
-----------------------------------------------------------------------------
(* The gateway's view of the stream.                                       *)
Status ==
  IF pc = "ended" THEN "closed"
  ELSE IF pc = "cancelled" THEN "cancelled"
  ELSE IF sent # <<>> /\ IsTerminal(Last(sent)) THEN "complete"
  ELSE "open"

Stream == INSTANCE TerminalStream
            WITH Terminal <- IsTerminal, seen <- sent, status <- Status

(* Whatever the upstream sends and wherever it stops, the synthesized      *)
(* stream is events, one terminal event, then the end: never a bare end,   *)
(* never a completion after an error.                                      *)
KeepsPromise == Stream!Spec

(* The events as the gateway's validator reads them.                       *)
Gateway == INSTANCE ResponsesEvents WITH Ids <- {"safe"}, MaxSeq <- MaxU64
SafeResponse(id) == IF id # <<>> /\ id[2] \in Identifiers THEN "safe" ELSE "unsafe"
ResponseTypes == {"created", "in_progress", "completed", "incomplete"}
AsRead(e) ==
  [kind |-> IF e.type \in {"created", "completed", "incomplete", "error"} THEN e.type
            ELSE IF e.type \in DeltaTypes THEN "delta"
            ELSE IF e.type \in {"item.added", "item.done"} THEN "item"
            ELSE "plain",
   seq |-> e.seq,
   respId |-> IF e.type \in ResponseTypes THEN SafeResponse(e.body.id) ELSE "absent",
   topId |-> IF e.type = "error" /\ e.body.id # <<>> THEN SafeResponse(e.body.id) ELSE "absent",
   shaped |-> e.type = "error" => e.body.message # <<>>]

(* The gateway's validator accepts every event but an error, whatever the  *)
(* upstream calls its response: no synthesized turn is refused half way.   *)
(* The events are numbered from 0 without a gap, the last of several       *)
(* flushed together included.                                              *)
OutputAccepted ==
  \A p \in DOMAIN Out :
    /\ Out[p].seq = p - 1
    /\ Out[p].type # "error" => Gateway!ValidEvent(AsRead(Out[p]))
=============================================================================
