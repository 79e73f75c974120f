----------------------------- MODULE ZaiRequest -----------------------------
(***************************************************************************)
(* A turn's request translated for Z.ai's chat-completions endpoint        *)
(* (zai/request.rs): tools flattened and encoded, the history as chat      *)
(* messages, consecutive calls in one assistant message.  As for the       *)
(* Responses form, the checks are one predicate and the body one operator. *)
(***************************************************************************)
EXTENDS ResponsesRequest

CONSTANTS MaxOutputTokens  \* the limit of the pinned catalog

ASSUME LimitAssumption == MaxOutputTokens \in Nat \ {0}

(* Arguments are sequences; wrapping freeform input in one string property *)
(* brackets it.                                                            *)
Wrap(input) == <<"{">> \o input \o <<"}">>
EmptyObject == <<"{", "}">>

ZaiEffort ==
  ("minimal" :> "minimal") @@ ("low" :> "low") @@ ("medium" :> "medium") @@
  ("high" :> "high") @@ ("xhigh" :> "xhigh") @@ ("max" :> "xhigh") @@ ("ultra" :> "xhigh")
-----------------------------------------------------------------------------
(* Tools.                                                                  *)
ZaiToolArray(tools) == IF tools \in {Absent, Null} THEN <<>> ELSE tools

Callable(t) == t.type \in {"function", "custom"}
HasName(t) == t.name \notin {Absent, <<>>}

ZaiToolsOK(tools) ==
  /\ tools # Bad
  /\ \A t \in ToSet(ZaiToolArray(tools)) :
       /\ HasName(t)
       /\ Callable(t) \/ /\ t.type = "namespace" /\ t.tools \notin {Absent, Bad}
                         /\ \A m \in ToSet(t.tools) : Callable(m) /\ HasName(m)

(* The callable tools in order, under Muse's names.                        *)
Qualified(tools) ==
  FlattenSeq([i \in DOMAIN tools |->
    IF tools[i].type # "namespace"
    THEN <<[name |-> tools[i].name, freeform |-> tools[i].type = "custom"]>>
    ELSE LET members == ToolsOf(tools[i])
         IN [j \in DOMAIN members |-> [name |-> Flatten(tools[i].name, members[j].name),
                                       freeform |-> members[j].type = "custom"]]])

Calls(items) == SelectSeq(items, LAMBDA item : item.type \in CallTypes)

(* The names the request records: of its tools, then of the calls in its   *)
(* history.                                                                *)
RecordedNames(tools, items) ==
  {t.name : t \in ToSet(Qualified(tools))} \cup {c.name : c \in ToSet(Calls(items))}

FreeformNames(tools, items) ==
  {EncodedName(t.name) : t \in {u \in ToSet(Qualified(tools)) : u.freeform}} \cup
  {EncodedName(c.name) : c \in {d \in ToSet(Calls(items)) : d.type = "custom_tool_call"}}
-----------------------------------------------------------------------------
(* Messages: [role, text, images, calls, call_id].  The text is the        *)
(* sequence of the texts that are joined.                                  *)
Message(role) == [role |-> role, text |-> <<>>, images |-> 0, calls |-> <<>>, call_id |-> Absent]
ZaiRole(role) == IF role \in {"developer", "system"} THEN "system" ELSE role

ZaiTextTypes == TextTypes \cup {"summary_text", "refusal"}

ZaiPartOK(p, images) ==
  \/ p.type \in ZaiTextTypes
  \/ p.type = "input_image" /\ images /\ p.image \notin {Absent, Bad} /\ p.image.form = "string"

ZaiItemOK_Mutant(item, images) ==  \* SessionContinues: reasoning is refused, not dropped
  \/ item.type = "message" /\ \A p \in ToSet(Parts(item)) : ZaiPartOK(p, images)
  \/ item.type \in CallTypes \cup OutputTypes /\ item.call_id # Absent

ZaiItemOK(item, images) ==
  \/ /\ item.type = "message"
     /\ item.role \in Roles /\ item.content # Bad
     /\ \A p \in ToSet(Parts(item)) : ZaiPartOK(p, images)
  \/ item.type = "reasoning"
  \/ item.type \in CallTypes /\ item.call_id # Absent /\ item.name \notin {Absent, <<>>}
  \/ item.type \in OutputTypes /\ item.call_id # Absent

TranslateMessage_Mutant(item) ==  \* NothingLost: a message is its text
  [Message(ZaiRole(item.role)) EXCEPT !.text = Texts(Parts(item))]

(* translate_content_parts: only a user's message keeps its images.        *)
TranslateMessage(item) ==
  LET texts == SelectSeq(Parts(item), LAMBDA p : p.type \in ZaiTextTypes)
      pictures == SelectSeq(Parts(item), LAMBDA p : p.type = "input_image")
      role == ZaiRole(item.role)
  IN [Message(role) EXCEPT !.text = Texts(texts),
                           !.images = IF role = "user" THEN Len(pictures) ELSE 0]

ToolCall(item) ==
  [id |-> item.call_id, name |-> EncodedName(item.name),
   arguments |-> IF item.type = "custom_tool_call" THEN Wrap(item.payload)
                 ELSE IF item.payload \in {Absent, <<>>} THEN EmptyObject ELSE item.payload]

PushToolCall_Mutant(messages, call) ==  \* ResultsFollowCalls: one message per call
  Append(messages, [Message("assistant") EXCEPT !.calls = <<call>>])

PushToolCall(messages, call) ==
  IF messages # <<>> /\ Last(messages).calls # <<>>
  THEN [messages EXCEPT ![Len(messages)].calls = Append(@, call)]
  ELSE Append(messages, [Message("assistant") EXCEPT !.calls = <<call>>])

(* A result that is not a string is sent as its JSON text.                 *)
ToolResult(item) ==
  [Message("tool") EXCEPT !.call_id = item.call_id, !.text = Texts(Parts(item))]

TranslateItem(messages, item) ==
  IF item.type = "message" THEN Append(messages, TranslateMessage(item))
  ELSE IF item.type \in CallTypes THEN PushToolCall(messages, ToolCall(item))
  ELSE IF item.type \in OutputTypes THEN Append(messages, ToolResult(item))
  ELSE messages  \* reasoning is the provider's own

TranslateMessages(instructions, items) ==
  FoldLeft(TranslateItem,
           IF instructions \in {Absent, Null, Bad, ""} THEN <<>>
           ELSE <<[Message("system") EXCEPT !.text = <<instructions>>]>>,
           items)
-----------------------------------------------------------------------------
ZaiInput(input) == IF input \in {Absent, Null} THEN <<>> ELSE input.items
Effort(reasoning) == IF reasoning \in {Absent, Null, Bad} THEN Absent ELSE reasoning.effort

(* stream_responses wants a model of the pinned catalog; translate refuses *)
(* what it cannot express.                                                 *)
ZaiRequestOK(r, images) ==
  /\ r.model = "listed"
  /\ {r.previous_response_id, r.conversation} \subseteq {Absent, Null}
  /\ ZaiToolsOK(r.tools)
  /\ r.input \notin {Absent, Null} => r.input # Bad /\ r.input.form = "items"
  /\ \A item \in ToSet(ZaiInput(r.input)) : ZaiItemOK(item, images)
  /\ Recordable(RecordedNames(ZaiToolArray(r.tools), ZaiInput(r.input)))
  /\ Effort(r.reasoning) \in DOMAIN ZaiEffort \cup {Absent, Null, Bad, "none"}

Clamp(n) == IF n < 1 THEN 1 ELSE IF n > MaxOutputTokens THEN MaxOutputTokens ELSE n

ZaiTranslate(r) ==
  LET tools == Qualified(ZaiToolArray(r.tools))
      effort == Effort(r.reasoning)
  IN [model |-> r.model,
      messages |-> TranslateMessages(r.instructions, ZaiInput(r.input)),
      tools |-> [i \in DOMAIN tools |-> EncodedName(tools[i].name)],
      tool_choice |-> IF tools = <<>> THEN Absent ELSE "auto",
      effort |-> IF effort \in DOMAIN ZaiEffort THEN ZaiEffort[effort] ELSE Absent,
      thinking |-> effort # "none",
      max_tokens |-> IF r.max_output_tokens \in {Absent, Null, Bad} THEN Absent
                     ELSE Clamp(r.max_output_tokens),
      stream |-> TRUE]
=============================================================================
