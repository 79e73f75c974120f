-------------------------- MODULE ResponsesRequest --------------------------
(***************************************************************************)
(* A turn's request as Muse writes it, and what CodexTransport makes of it *)
(* (normalize_responses_request): the checks that refuse it, the items of  *)
(* the history in the pinned client's types, and the Responses Lite form.  *)
(*                                                                         *)
(* Every check of the code refuses with the same error, so the checks are  *)
(* one predicate, RequestOK, and the result one operator, Normalize.       *)
(* A field that is missing is Absent; Bad is a JSON value of a type the    *)
(* field does not take.                                                    *)
(***************************************************************************)
EXTENDS ToolNames, SequencesExt

CONSTANTS Absent, Null, Bad

(* The "functions" namespace, a name of one atom.                          *)
Functions == <<"functions">>

(* An item of the history.  content is the message's or the result's:      *)
(* [form : {"string", "parts"}, parts : Seq(part)]; payload is a call's    *)
(* arguments or input.                                                     *)
Item(type) ==
  [type |-> type, id |-> Absent, role |-> Absent, content |-> Absent,
   call_id |-> Absent, namespace |-> Absent, name |-> Absent, payload |-> Absent]

(* Identifiers of items: with a type prefix and a suffix, or without.       *)
PrefixedId == <<"prefixed">>
LegacyId == <<"legacy">>

Part(type) == [type |-> type, text |-> Absent, image |-> Absent, detail |-> Absent]
TextPart(type, text) == [Part(type) EXCEPT !.text = text]
StringContent(text) == [form |-> "string", parts |-> <<TextPart("text", text)>>]
Parts(item) == IF item.content \in {Absent, Bad} THEN <<>> ELSE item.content.parts

(* The texts of some parts, in order.                                      *)
Texts(parts) ==
  LET texts == SelectSeq(parts, LAMBDA p : p.text # Absent)
  IN [i \in DOMAIN texts |-> texts[i].text]

CallTypes == {"function_call", "custom_tool_call"}
OutputTypes == {"function_call_output", "custom_tool_call_output"}
TextTypes == {"text", "input_text", "output_text"}
Roles == {"assistant", "developer", "system", "user"}
KnownItemTypes ==
  CallTypes \cup OutputTypes \cup
  {"message", "reasoning", "local_shell_call", "tool_search_call", "tool_search_output",
   "web_search_call", "image_generation_call", "compaction", "compaction_summary",
   "compaction_trigger", "context_compaction"}
-----------------------------------------------------------------------------
(* Tools: [type, name, tools], tools only for a namespace.                 *)
ToolArray(tools) == IF tools = Absent THEN <<>> ELSE tools
ToolsOf(t) == IF t.tools \in {Absent, Bad} THEN <<>> ELSE t.tools
NamedFunctions(t) == {m \in ToSet(ToolsOf(t)) : m.type = "function" /\ m.name # Absent}

StandaloneNames(tools) == {t.name : t \in {u \in ToSet(tools) : u.type = "function"}}

(* The pairs <<namespace, name>> of the advertised namespaced functions.   *)
NamespaceFunctions(tools) ==
  UNION {{<<t.name, m.name>> : m \in NamedFunctions(t)} :
         t \in {u \in ToSet(tools) : u.type = "namespace" /\ u.name # Absent}}

AmbiguousTools(tools) ==
  \E p \in NamespaceFunctions(tools) :
    \/ Flatten(p[1], p[2]) \in StandaloneNames(tools)
    \/ \E q \in NamespaceFunctions(tools) : p # q /\ Flatten(p[1], p[2]) = Flatten(q[1], q[2])

(* collect_namespace_calls: flattened name to its split.                   *)
NamespaceCalls(tools) ==
  [flat \in {Flatten(p[1], p[2]) : p \in NamespaceFunctions(tools)} |->
     CHOOSE p \in NamespaceFunctions(tools) : Flatten(p[1], p[2]) = flat]
-----------------------------------------------------------------------------
(* Message content.  image is [form : {"string", "object"}, url, detail].  *)
PartOK(p, assistant) ==
  \/ p.type \in TextTypes /\ p.text # Absent
  \/ p.type = "image_url" /\ p.image \notin {Absent, Bad} /\ p.image.url # Absent
  \/ p.type = "input_image" /\ ~assistant
     /\ p.image \notin {Absent, Bad} /\ p.image.form = "string"

NormalizeContentPart(p, assistant) ==
  IF p.type \in TextTypes
  THEN [p EXCEPT !.type = IF assistant THEN "output_text" ELSE "input_text"]
  ELSE IF p.type = "image_url"
  THEN [p EXCEPT !.type = "input_image",
                 !.image = [form |-> "string", url |-> p.image.url, detail |-> Absent],
                 !.detail = IF p.image.detail # Absent THEN p.image.detail ELSE @]
  ELSE p

MessageOK(item) ==
  /\ item.role \in Roles
  /\ item.content \notin {Absent, Bad}
  /\ \A p \in ToSet(Parts(item)) : PartOK(p, item.role = "assistant")

NormalizeMessageItem(item) ==
  [item EXCEPT !.content =
     [form |-> "parts",
      parts |-> [i \in DOMAIN @.parts |->
                   NormalizeContentPart(@.parts[i], item.role = "assistant")]]]

(* The pinned crate's parser wants the fields of a call.                   *)
ItemOK(item) ==
  /\ item.type \in KnownItemTypes
  /\ item.type = "message" => MessageOK(item)
  /\ item.type \in CallTypes => Absent \notin {item.name, item.call_id, item.payload}
  /\ item.type = "custom_tool_call_output" => item.call_id # Absent

NormalizeResponseItem_Mutant(item, calls) ==  \* CallsReplayed: the dotted name is sent back
  [(IF item.type = "message" THEN NormalizeMessageItem(item) ELSE item)
     EXCEPT !.id = IF @ = LegacyId THEN Absent ELSE @,
            !.name = IF item.type \in OutputTypes THEN Absent ELSE @]

(* normalize_response_item: an identifier without a type prefix is not     *)
(* forwarded, an exact alias of an advertised namespaced function gets its *)
(* split back, and a result keeps no name.                                 *)
NormalizeResponseItem(item, calls) ==
  LET parsed == [(IF item.type = "message" THEN NormalizeMessageItem(item) ELSE item)
                   EXCEPT !.id = IF @ = LegacyId THEN Absent ELSE @]
  IN IF /\ item.type = "function_call"
        /\ item.namespace = Absent
        /\ item.name \in DOMAIN calls
     THEN [parsed EXCEPT !.namespace = calls[item.name][1], !.name = calls[item.name][2]]
     ELSE IF item.type \in OutputTypes THEN [parsed EXCEPT !.name = Absent]
     ELSE parsed

(* The input is the history, or a string, which is one user message.       *)
InputItems(input) ==
  IF input.form = "string" THEN <<[Item("message") EXCEPT !.role = "user",
                                     !.content = StringContent("prompt")]>>
  ELSE input.items

InputOK(input) ==
  /\ input \notin {Absent, Bad}
  /\ InputItems(input) # <<>>
  /\ \A item \in ToSet(InputItems(input)) : ItemOK(item)

RequestContainsImage(input) ==
  /\ input \notin {Absent, Bad}
  /\ \E item \in ToSet(input.items) : \E p \in ToSet(Parts(item)) :
       item.content.form = "parts" /\ p.type \in {"input_image", "image_url"}
-----------------------------------------------------------------------------
Efforts == {"none", "minimal", "low", "medium", "high", "xhigh", "max", "ultra"}
Summaries == {"auto", "concise", "detailed", "none"}
EncryptedReasoning == "reasoning.encrypted_content"

ReasoningOK(reasoning) ==
  reasoning \notin {Absent, Null} =>
    /\ reasoning # Bad
    /\ reasoning.effort \in Efforts \cup {Absent, Null}
    /\ reasoning.summary \in Summaries \cup {Absent, Null}

NormalizeReasoning(reasoning, apiKey) ==
  IF apiKey \/ reasoning \in {Absent, Null} THEN reasoning
  ELSE [reasoning EXCEPT !.extra = FALSE, !.summary = IF @ = "none" THEN Absent ELSE @]

NormalizeInclude(include) ==
  LET asked == IF include = Absent THEN <<>> ELSE include
      AddNew(seen, v) == IF Contains(seen, v) THEN seen ELSE Append(seen, v)
  IN AddNew(FoldLeft(AddNew, <<>>, asked), EncryptedReasoning)

(* The launcher's choice replaces whatever tier the request names.         *)
ServiceTier(fast) == IF fast THEN "priority" ELSE Absent
-----------------------------------------------------------------------------
(* Responses Lite.                                                         *)
HostedTools ==
  {"web_search", "web_search_preview", "file_search", "computer_use",
   "computer_use_preview", "code_interpreter", "image_generation"}

Client(tools) == SelectSeq(tools, LAMBDA t : t.type \notin HostedTools)
IsFunctionNamespace(t) == t.type = "namespace" /\ t.name = Functions
InFunctions(t) == t.type \in {"function", "custom"} \/ IsFunctionNamespace(t)

(* group_responses_lite_tools: the direct tools and those of an explicit   *)
(* "functions" namespace, in order, where the first of them stood.         *)
GroupLiteTools(tools) ==
  LET client == Client(tools)
      direct == SelectSeq(client, InFunctions)
      grouped == FlattenSeq([i \in DOMAIN direct |->
                   IF IsFunctionNamespace(direct[i]) THEN direct[i].tools ELSE <<direct[i]>>])
      others == SelectSeq(client, LAMBDA t : ~InFunctions(t))
      first == SelectInSeq(client, InFunctions)
  IN IF grouped = <<>> THEN others
     ELSE InsertAt(others, first,
                   [type |-> "namespace", name |-> Functions, tools |-> grouped])

LiteToolsOK(tools) ==
  \A t \in ToSet(Client(tools)) : IsFunctionNamespace(t) => t.tools \notin {Absent, Bad}

StripImageDetails(item) ==
  IF item.type \in OutputTypes \cup {"message"} /\ item.content \notin {Absent, Bad}
  THEN [item EXCEPT !.content.parts =
          [i \in DOMAIN @ |-> IF @[i].type = "input_image" THEN [@[i] EXCEPT !.detail = Absent]
                              ELSE @[i]]]
  ELSE item

(* The digest of a value under the request's namespace tells them apart.   *)
StablePrefixItemId(prefix, namespace, value) == <<prefix, namespace, value>>

LiteRequestNamespace(requestId, sequence) ==
  IF requestId # Absent THEN <<"request", requestId>> ELSE <<"process", sequence>>

LitePrefix(tools, instructions, namespace) ==
  <<[Item("additional_tools") EXCEPT !.role = "developer", !.payload = tools,
       !.id = StablePrefixItemId("at", namespace, tools)]>> \o
  (IF instructions = "" THEN <<>>
   ELSE <<[Item("message") EXCEPT !.role = "developer",
             !.id = StablePrefixItemId("msg", namespace, instructions),
             !.content = [form |-> "parts",
                          parts |-> <<TextPart("input_text", instructions)>>]]>>)

(* normalize_responses_lite_request, on the request normalized so far.     *)
LiteForm(r, namespace) ==
  LET reasoning == IF r.reasoning = Absent
                   THEN [effort |-> Absent, summary |-> Absent, extra |-> FALSE, context |-> Absent]
                   ELSE r.reasoning
  IN [r EXCEPT !.instructions = Absent, !.tools = Absent,
               !.input = LitePrefix(GroupLiteTools(r.tools), r.instructions, namespace) \o
                         [i \in DOMAIN @ |-> StripImageDetails(@[i])],
               !.parallel_tool_calls = FALSE,
               !.reasoning = [reasoning EXCEPT !.context = "all_turns"]]
-----------------------------------------------------------------------------
(* normalize_responses_request, after validate_model_request.  A model     *)
(* identifier that is no string, or no identifier, is Bad.  A lone         *)
(* reasoning: null is refused by the Lite form, which wants an object.     *)
RequestOK(r, apiKey, lite) ==
  /\ r.model \notin {Absent, Bad}
  /\ r.instructions \notin {Bad, Null}
  /\ {r.previous_response_id, r.conversation} \subseteq {Absent, Null}
  /\ r.tools \notin {Bad, Null} /\ \A t \in ToSet(ToolArray(r.tools)) : t.type # Absent
  /\ ~AmbiguousTools(ToolArray(r.tools))
  /\ InputOK(r.input)
  /\ r.tool_choice \in {Absent, "string"} \/ (r.tool_choice = "object" /\ apiKey)
  /\ r.parallel_tool_calls \in {Absent, TRUE, FALSE}
  /\ ReasoningOK(r.reasoning)
  /\ r.include \notin {Bad, Null}
  /\ apiKey => r.max_output_tokens \notin {Bad, 0}
  /\ lite => LiteToolsOK(ToolArray(r.tools)) /\ r.reasoning # Null

Normalize(r, apiKey, lite, fast, namespace) ==
  LET tools == ToolArray(r.tools)
      items == InputItems(r.input)
      standard ==
        [model |-> r.model,
         instructions |-> IF r.instructions = Absent THEN "" ELSE r.instructions,
         tools |-> tools,
         input |-> [i \in DOMAIN items |->
                      NormalizeResponseItem(items[i], NamespaceCalls(tools))],
         tool_choice |-> IF r.tool_choice = Absent THEN "auto" ELSE r.tool_choice,
         parallel_tool_calls |->
           IF r.parallel_tool_calls = Absent THEN TRUE ELSE r.parallel_tool_calls,
         reasoning |-> NormalizeReasoning(r.reasoning, apiKey),
         include |-> NormalizeInclude(r.include),
         max_output_tokens |-> IF apiKey THEN r.max_output_tokens ELSE Absent,
         metadata |-> IF apiKey THEN r.metadata ELSE Absent,
         service_tier |-> ServiceTier(fast),
         store |-> FALSE, stream |-> TRUE]
  IN IF lite THEN LiteForm(standard, namespace) ELSE standard
=============================================================================
