---------------------------- MODULE MuseSession ----------------------------
(***************************************************************************)
(* A session of stock Muse through the adapter.  Muse keeps the history    *)
(* and sends all of it with every request; the adapter translates it for   *)
(* the provider and keeps nothing but the tool names of the one request;   *)
(* the provider answers with text, reasoning and tool calls, some of them  *)
(* of tools nobody declared; Muse records the calls under its own names,   *)
(* runs them and sends the whole history again.                            *)
(*                                                                         *)
(* What must hold is about the loop, not about one translation: a name     *)
(* goes out as a declaration, comes back in a call, is recorded flattened, *)
(* and goes out once more in the history.                                  *)
(***************************************************************************)
EXTENDS ZaiRequest, ProviderIds

CONSTANTS
  None,
  Launches,       \* [provider, apiKey, customUrl, fast, requestId, capabilities]:
                  \* the last, what the catalog says of the listed model
  Sessions,       \* [ask, tools, opening, ids, changes]: the other fields of
                  \* its requests, its tools, its first message, the
                  \* identifiers the provider gives its calls, one after the
                  \* other, and a bound on changes of the tools
  ToolLists,      \* tool lists Muse may change to; a name keeps its kind
  UnknownCalls,   \* calls of tools the request did not declare
  Outputs,        \* results of tools
  MaxTurns, MaxParallel

(* Identifiers the adapter would make one are outside the model.           *)
ASSUME IdsAssumption ==
  \A s \in Sessions : \A i, j \in DOMAIN s.ids :
    i # j => SanitizeIdentifier(s.ids[i]) # SanitizeIdentifier(s.ids[j])

VARIABLES
  launch,   \* the launch, never changed
  session,  \* the session, never changed
  tools,    \* the tools Muse declares
  history,  \* the items Muse keeps
  wire,     \* the request the provider has, None when there is none
  said,     \* the calls the provider made, as it made them
  phase,    \* "idle" | "ready" | "sent" | "acting" | "refused"
  turns, sent, changes

vars == <<launch, session, tools, history, wire, said, phase, turns, sent, changes>>
-----------------------------------------------------------------------------
Zai == launch.provider = "zai"

(* Responses Lite is a property of the models the catalog lists.           *)
Model == launch.capabilities
Lite == Model.lite /\ session.ask.model = "listed"

Request ==
  [session.ask EXCEPT !.tools = tools,
     !.input = IF @ = "history" \/ sent > 0 THEN [form |-> "items", items |-> history]
               ELSE IF @ = "string" THEN [form |-> "string", items |-> <<>>]
               ELSE @]

(* What the catalog of a Codex launch allows; an empty list of efforts     *)
(* allows any.                                                             *)
ModelAllows(r) ==
  \/ r.model = "unlisted" /\ launch.apiKey
  \/ /\ r.model = "listed"
     /\ Model.visible
     /\ Model.codeModeOnly => Model.lite
     /\ RequestContainsImage(r.input) => Model.images
     /\ Effort(r.reasoning) \in {Absent, Null, Bad} \/ Model.efforts = {}
          \/ Effort(r.reasoning) \in Model.efforts

FastModeAvailable(r) ==
  launch.fast /\ ~launch.customUrl /\ r.model = "listed" => Model.fastMode

Accepts(r) ==
  IF Zai THEN ZaiRequestOK(r, Model.images)
  ELSE ModelAllows(r) /\ FastModeAvailable(r) /\ RequestOK(r, launch.apiKey, Lite)

Translated(r) ==
  IF Zai THEN ZaiTranslate(r)
  ELSE Normalize(r, launch.apiKey, Lite, launch.fast,
                 LiteRequestNamespace(launch.requestId, sent))

(* The names the current request recorded.  Muse's history does not change *)
(* between a request and its answer.                                       *)
Recorded == RecordedNames(ZaiToolArray(Request.tools), ZaiInput(Request.input))
Freeform == FreeformNames(ZaiToolArray(Request.tools), ZaiInput(Request.input))

(* The tools as the provider sees them: [namespace, name, freeform].  The  *)
(* "functions" namespace of Responses Lite is its default one.             *)
Visible(ts, default) ==
  FlattenSeq([i \in DOMAIN ts |->
    IF ts[i].type = "namespace"
    THEN LET members == ToolsOf(ts[i])
         IN [j \in DOMAIN members |->
               [namespace |-> IF ts[i].name = default THEN Absent ELSE ts[i].name,
                name |-> members[j].name, freeform |-> members[j].type = "custom"]]
    ELSE IF ts[i].type \in HostedTools THEN <<>>
    ELSE <<[namespace |-> Absent, name |-> ts[i].name, freeform |-> ts[i].type = "custom"]>>])

WireTools ==
  IF Zai THEN [i \in DOMAIN wire.tools |->
                 [namespace |-> Absent, name |-> wire.tools[i], freeform |-> FALSE]]
  ELSE IF Lite THEN Visible(wire.input[1].payload, Functions)
  ELSE Visible(wire.tools, None)

(* What Muse is given for a call and records: stock Muse flattens a        *)
(* namespace, the Z.ai synthesizer decodes the name and unwraps the input  *)
(* of a freeform tool.                                                     *)
Delivered(call) ==
  IF Zai
  THEN LET freeform == call.name \in Freeform
       IN [type |-> IF freeform THEN "custom_tool_call" ELSE "function_call",
           name |-> Decode(Recorded, call.name),
           payload |-> IF freeform THEN SubSeq(call.arguments, 2, Len(call.arguments) - 1)
                       ELSE call.arguments]
  ELSE [type |-> IF call.freeform THEN "custom_tool_call" ELSE "function_call",
        name |-> IF call.namespace = Absent THEN call.name
                 ELSE Flatten(call.namespace, call.name),
        payload |-> call.arguments]

Arguments(tool) ==  \* a model calls a wrapped freeform tool with the wrapper
  IF Zai THEN Wrap(<<"x">>) ELSE <<"x">>
CallOf(tool) == [namespace |-> tool.namespace, name |-> tool.name,
                 freeform |-> tool.freeform, arguments |-> Arguments(tool)]
-----------------------------------------------------------------------------
Init ==
  /\ launch \in Launches
  /\ session \in Sessions /\ tools = session.tools
  /\ history = <<>> /\ wire = None /\ said = <<>>
  /\ phase = "idle" /\ turns = 0 /\ sent = 0 /\ changes = 0

(* The user's next message; the later ones are plain text.                 *)
Compose ==
  /\ phase = "idle" /\ turns < MaxTurns
  /\ history' = Append(history,
       IF turns = 0 THEN session.opening
       ELSE [Item("message") EXCEPT !.role = "user", !.content = StringContent("more")])
  /\ turns' = turns + 1
  /\ phase' = "ready"
  /\ UNCHANGED <<launch, session, tools, wire, said, sent, changes>>

(* Muse declares other tools, between two turns.                           *)
ChangeTools ==
  /\ phase = "idle" /\ sent > 0 /\ turns < MaxTurns /\ changes < session.changes
  /\ \E list \in ToolLists \ {tools} : tools' = list
  /\ changes' = changes + 1
  /\ UNCHANGED <<launch, session, history, wire, said, phase, turns, sent>>

(* stream_responses sends the translated request, or refuses it before     *)
(* anything is sent.                                                       *)
Send ==
  /\ phase = "ready" /\ Accepts(Request)
  /\ wire' = Translated(Request)
  /\ sent' = sent + 1
  /\ phase' = "sent"
  /\ UNCHANGED <<launch, session, tools, history, said, turns, changes>>

Refuse ==
  /\ phase = "ready" /\ ~Accepts(Request)
  /\ wire' = None
  /\ phase' = "refused"
  /\ UNCHANGED <<launch, session, tools, history, said, turns, sent, changes>>

(* After a refusal the history is what it was.                             *)
GiveUp ==
  /\ phase = "refused"
  /\ phase' = "idle"
  /\ UNCHANGED <<launch, session, tools, history, wire, said, turns, sent, changes>>

AnswerText ==
  /\ phase = "sent"
  /\ history' = history \o
       <<Item("reasoning"),
         [Item("message") EXCEPT !.role = "assistant", !.id = PrefixedId,
                                 !.content = StringContent("answer")]>>
  /\ phase' = "idle" /\ wire' = None
  /\ UNCHANGED <<launch, session, tools, said, turns, sent, changes>>

(* The identifier Muse is given for a call: the Z.ai synthesizer hands on  *)
(* its safe form, Codex's stream is passed as it is.                       *)
DeliveredId(id) == IF Zai THEN SanitizeIdentifier(id) ELSE id

(* The provider calls tools, in parallel; Muse records the calls as        *)
(* consecutive items.                                                      *)
AnswerCalls ==
  /\ phase = "sent"
  /\ \E n \in 1..MaxParallel :
     \E calls \in [1..n -> {CallOf(t) : t \in ToSet(WireTools)} \cup
                          {c \in UnknownCalls : Zai => c.namespace = Absent}] :
       /\ Len(said) + n <= Len(session.ids)
       /\ said' = said \o [i \in 1..n |-> calls[i] @@ ("id" :> session.ids[Len(said) + i])]
       /\ history' = history \o <<Item("reasoning")>> \o
            [i \in 1..n |-> Delivered(calls[i])
                              @@ ("call_id" :> DeliveredId(session.ids[Len(said) + i]))
                              @@ ("id" :> LegacyId) @@ Item("call")]
  /\ phase' = "acting" /\ wire' = None
  /\ UNCHANGED <<launch, session, tools, turns, sent, changes>>

Answers(id) == {i \in DOMAIN history : history[i].type \in OutputTypes /\ history[i].call_id = id}
Unanswered == {c \in ToSet(Calls(history)) : Answers(c.call_id) = {}}

(* A call is done, in any order: an unknown tool is answered with Muse's   *)
(* own error.  A result may hold an image whatever the model takes.  The   *)
(* last result starts the next request.                                    *)
ToolDone ==
  /\ phase = "acting"
  /\ \E c \in Unanswered, output \in Outputs :
     history' = Append(history,
          [Item(IF c.type = "function_call" THEN "function_call_output"
                ELSE "custom_tool_call_output")
             EXCEPT !.call_id = c.call_id, !.name = c.name, !.content = output])
  /\ phase' = IF Cardinality(Unanswered) = 1 THEN "ready" ELSE "acting"
  /\ UNCHANGED <<launch, session, tools, wire, said, turns, sent, changes>>

Next ==
  \/ Compose \/ ChangeTools \/ Send \/ Refuse \/ GiveUp
  \/ AnswerText \/ AnswerCalls \/ ToolDone

Spec == Init /\ [][Next]_vars
-----------------------------------------------------------------------------
(* Reading the request the provider has.                                   *)
Body == SubSeq(wire.input, 1 + Len(wire.input) - Len(history), Len(wire.input))
Prefix == SubSeq(wire.input, 1, Len(wire.input) - Len(history))

WireCalls ==
  IF Zai THEN FlattenSeq([i \in DOMAIN wire.messages |-> wire.messages[i].calls])
  ELSE LET calls == Calls(wire.input)
       IN [i \in DOMAIN calls |-> [id |-> calls[i].call_id, namespace |-> calls[i].namespace,
                                   name |-> calls[i].name, arguments |-> calls[i].payload]]

Advertised(call) ==
  \E t \in ToSet(WireTools) : t.namespace = call.namespace /\ t.name = call.name

SameCall(a, b) ==
  /\ a.name = b.name /\ a.arguments = b.arguments
  /\ ~Zai => a.namespace = b.namespace

(* Every request gives the provider back the calls it made: all of them    *)
(* and in its order; under the identifiers it used, but for those of Z.ai  *)
(* that are not safe, whose place their safe form takes in every request;  *)
(* and a call of a tool the request still declares under the name, the     *)
(* namespace and the arguments the provider used.                          *)
(* (collect_namespace_calls splits function calls only: a freeform tool of *)
(* a namespace is excepted.)                                               *)
CallsReplayed ==
  phase = "sent" =>
    /\ Len(WireCalls) = Len(said)
    /\ \A i \in DOMAIN said :
         /\ WireCalls[i].id = IF Zai /\ ~SafeIdentifier(said[i].id)
                              THEN SanitizeIdentifier(said[i].id) ELSE said[i].id
         /\ Advertised(said[i]) /\ ~(said[i].freeform /\ said[i].namespace # Absent)
              => SameCall(WireCalls[i], said[i])

(* Results go with their calls.  In the chat form each assistant message   *)
(* with calls is followed at once by one result for each of them, and no   *)
(* result stands anywhere else; in the Responses form each call has one    *)
(* later result, which carries no tool name.                               *)
ResultsFollowCalls ==
  phase = "sent" =>
    IF Zai
    THEN LET m == wire.messages
             Follows(i) == {k \in DOMAIN m : k > i /\ k <= i + Len(m[i].calls)}
         IN /\ \A i \in DOMAIN m : m[i].calls # <<>> =>
                 /\ Cardinality(Follows(i)) = Len(m[i].calls)
                 /\ {m[k].call_id : k \in Follows(i)} = {c.id : c \in ToSet(m[i].calls)}
            /\ \A k \in DOMAIN m : m[k].role = "tool" =>
                 \E i \in DOMAIN m : m[i].calls # <<>> /\ k \in Follows(i)
    ELSE LET in == wire.input
             Result(k) == in[k].type \in OutputTypes
         IN /\ \A i \in DOMAIN in : in[i].type \in CallTypes =>
                 \E k \in DOMAIN in : k > i /\ Result(k) /\ in[k].call_id = in[i].call_id
            /\ \A k, l \in DOMAIN in : Result(k) =>
                 in[k].name = Absent /\ (Result(l) /\ in[l].call_id = in[k].call_id => k = l)

Images(item) == Cardinality({i \in DOMAIN Parts(item) :
                               Parts(item)[i].type \in {"input_image", "image_url"}})

(* A session that was accepted once goes on: no answer of the provider     *)
(* makes the adapter refuse the history that records it, unless Muse       *)
(* changed its tools, or Z.ai's model used a name outside Z.ai's own       *)
(* grammar (which passes ToolNames unchanged), or a tool's result for a    *)
(* listed Codex model that takes no images holds one (which                *)
(* request_contains_image finds in every later request).                   *)
SessionContinues ==
  phase = "refused" /\ sent > 0 /\ changes = 0 =>
    \/ Zai /\ \E i \in DOMAIN said : ~WireSafe(said[i].name)
    \/ /\ ~Zai /\ session.ask.model = "listed" /\ ~Model.images
       /\ \E i \in DOMAIN history : history[i].type \in OutputTypes /\ Images(history[i]) > 0

Declared == Qualified(SelectSeq(ZaiToolArray(tools), LAMBDA t : t.type \notin HostedTools))

NamesOf(list) == [i \in DOMAIN list |-> list[i].name]
GroupedWithFunctions ==
  ~Zai /\ Lite /\ \E t \in ToSet(ToolArray(tools)) : IsFunctionNamespace(t)

(* Every tool Muse declares for itself to run is on the wire exactly once, *)
(* and calling it reaches Muse as that tool, of its kind, and as no other. *)
(* Two cases are left out: tools that already have one name for Muse, on   *)
(* Z.ai (see WireNamesDistinct), and direct tools grouped with an explicit *)
(* "functions" namespace for Responses Lite, of which only the number can  *)
(* be told.                                                                *)
ToolsReachable ==
  phase = "sent" /\ (Zai => IsInjective(NamesOf(Declared))) =>
    /\ Len(WireTools) = Len(Declared)
    /\ ~GroupedWithFunctions =>
         \A i \in DOMAIN Declared :
           \E j \in DOMAIN WireTools :
             LET given == Delivered(CallOf(WireTools[j]))
             IN /\ given.name = Declared[i].name
                /\ (given.type = "custom_tool_call") = Declared[i].freeform
                /\ \A k \in DOMAIN WireTools :
                     Delivered(CallOf(WireTools[k])) = given => k = j

(* No two tools of a Z.ai request have one wire name.                      *)
WireNamesDistinct == phase = "sent" /\ Zai => IsInjective(wire.tools)

Instructions == IF session.ask.instructions \in {Absent, Null, Bad, ""} THEN <<>> ELSE <<session.ask.instructions>>

(* Nothing Muse said is lost, repeated or reordered on the way: the        *)
(* instructions once and first, then every text of the history in order,   *)
(* every image of a user's message, and no image for a model that takes    *)
(* none.  (Z.ai's translation drops reasoning, and images of other roles.) *)
NothingLost ==
  phase = "sent" /\ (session.ask.input = "history" \/ sent > 1) =>
    IF Zai
    THEN /\ FlattenSeq([i \in DOMAIN wire.messages |-> wire.messages[i].text]) =
              Instructions \o FlattenSeq([i \in DOMAIN history |-> Texts(Parts(history[i]))])
         /\ LET users(s) == SelectSeq(s, LAMBDA m : m.role = "user")
                sentTo == users(wire.messages)
                asked == users(history)
            IN /\ Len(sentTo) = Len(asked)
               /\ \A i \in DOMAIN asked :
                    /\ sentTo[i].images = Images(asked[i])
                    /\ sentTo[i].images > 0 => Model.images
    ELSE /\ Len(wire.input) >= Len(history)
         /\ \A i \in DOMAIN history :
              /\ Body[i].type = history[i].type /\ Body[i].role = history[i].role
              /\ Texts(Parts(Body[i])) = Texts(Parts(history[i]))
              /\ Images(Body[i]) = Images(history[i])
              /\ Images(Body[i]) > 0 /\ wire.model = "listed" => Model.images
         /\ (IF Lite
             THEN FlattenSeq([i \in DOMAIN Prefix |-> Texts(Parts(Prefix[i]))])
             ELSE IF wire.instructions = "" THEN <<>> ELSE <<wire.instructions>>) = Instructions
=============================================================================
