--------------------------- MODULE MCMuseSession ---------------------------
(* Instances of MuseSession for TLC.                                       *)
EXTENDS MuseSession

Fn(name) == [type |-> "function", name |-> name, tools |-> Absent]
Custom(name) == [type |-> "custom", name |-> name, tools |-> Absent]
Namespace(name, list) == [type |-> "namespace", name |-> name, tools |-> list]
Hosted == [type |-> "web_search", name |-> Absent, tools |-> Absent]
T == <<"t">>
P == <<"p">>
N == <<"n">>

(* Launches that are accepted, in each form of request, and one for each   *)
(* refusal that is about the model alone.                                  *)
Capabilities ==
  [visible |-> TRUE, lite |-> FALSE, codeModeOnly |-> FALSE, images |-> TRUE,
   efforts |-> {}, fastMode |-> FALSE]
LiteModel == [Capabilities EXCEPT !.lite = TRUE, !.codeModeOnly = TRUE]
Codex(apiKey, capabilities) ==
  [provider |-> "codex", apiKey |-> apiKey, customUrl |-> FALSE, fast |-> FALSE,
   requestId |-> Absent, capabilities |-> capabilities]
MCLaunches ==
  {[Codex(FALSE, [Capabilities EXCEPT !.fastMode = TRUE, !.efforts = {"low", "medium", "none"}])
      EXCEPT !.fast = TRUE],
   [Codex(TRUE, [Capabilities EXCEPT !.images = FALSE]) EXCEPT !.fast = TRUE, !.customUrl = TRUE],
   Codex(FALSE, LiteModel),
   [Codex(TRUE, LiteModel) EXCEPT !.requestId = "r"],
   Codex(FALSE, [Capabilities EXCEPT !.visible = FALSE]),
   Codex(FALSE, [Capabilities EXCEPT !.codeModeOnly = TRUE]),
   [Codex(TRUE, Capabilities) EXCEPT !.fast = TRUE]} \cup
  {[Codex(TRUE, [Capabilities EXCEPT !.images = images]) EXCEPT !.provider = "zai"] :
     images \in BOOLEAN}

(* Namespaced, direct and freeform tools, and the aliases between them:    *)
(* n.t against n__t on Z.ai's wire, against a function n.t, against the    *)
(* namespace n.p; a name that only its encoding makes too long.            *)
C == <<"c">>
Dotted == <<"n", ".", "t">>
Wired == <<"n", "__", "t">>
PlainTools == <<Namespace(N, <<Fn(T), Custom(P)>>), Custom(C), Fn(<<"n", "__", "u">>)>>
OtherTools == <<Fn(T), Namespace(N, <<Custom(P)>>)>>
WiredTools == <<Fn(Wired), Fn(T)>>
MCToolLists == {PlainTools, OtherTools, WiredTools}
AliasTools ==
  {<<Namespace(N, <<Custom(P)>>), Hosted, Fn(T), Namespace(Functions, <<Fn(T)>>)>>,
   <<Fn(Dotted), Fn(T)>>,
   <<Namespace(N, <<Fn(T)>>), Fn(Dotted)>>,
   <<Namespace(N, <<Fn(T)>>), Fn(Wired)>>,
   <<Namespace(N, <<Fn(<<"p", ".", "t">>)>>), Namespace(<<"n", ".", "p">>, <<Fn(T)>>)>>,
   <<Fn(<<"n", ".", "p", ".", "t">>)>>}
OddTools ==
  {Absent, Null, Bad, <<>>, <<[Fn(T) EXCEPT !.type = Absent]>>, <<Hosted, Custom(P)>>,
   <<Namespace(Functions, <<>>)>>, <<Namespace(Functions, Bad), Fn(T)>>,
   <<Fn(<<"t", "!">>)>>}

Plain ==
  [model |-> "listed", instructions |-> "system", previous_response_id |-> Null,
   conversation |-> Absent, tools |-> Absent, input |-> "history", tool_choice |-> Absent,
   parallel_tool_calls |-> Absent,
   reasoning |-> [effort |-> "medium", summary |-> "auto", extra |-> TRUE, context |-> Absent],
   include |-> Absent, max_output_tokens |-> 2, metadata |-> "given", service_tier |-> "flex"]

(* One field at a time away from the plain request.                        *)
Reasoning(effort, summary) ==
  [effort |-> effort, summary |-> summary, extra |-> TRUE, context |-> Absent]
MCAsks ==
  {Plain} \cup
  {[Plain EXCEPT !.model = m] : m \in {Absent, Bad, "unlisted"}} \cup
  {[Plain EXCEPT !.instructions = i] : i \in {Absent, Null, Bad, ""}} \cup
  {[Plain EXCEPT !.previous_response_id = "stored"], [Plain EXCEPT !.conversation = "stored"]} \cup
  {[Plain EXCEPT !.input = i] : i \in {"string", Absent, Bad}} \cup
  {[Plain EXCEPT !.tool_choice = c] : c \in {"string", "object", Bad}} \cup
  {[Plain EXCEPT !.parallel_tool_calls = c] : c \in {TRUE, FALSE, Bad}} \cup
  {[Plain EXCEPT !.reasoning = r] : r \in {Absent, Null, Bad}} \cup
  {[Plain EXCEPT !.reasoning = Reasoning(e, s)] :
     e \in {Absent, Null, "none", "high", "ultra", "extreme"}, s \in {Absent, "none", "other"}} \cup
  {[Plain EXCEPT !.include = i] :
     i \in {Bad, <<"a", "b", "a">>, <<"a", EncryptedReasoning, EncryptedReasoning>>}} \cup
  {[Plain EXCEPT !.max_output_tokens = n] : n \in {Absent, Null, Bad, 0, 1, 9}}

UserText == [Item("message") EXCEPT !.role = "user", !.content = StringContent("prompt")]
Picture(type, form, inner, outer) ==
  [Part(type) EXCEPT !.image = [form |-> form, url |-> "url", detail |-> inner], !.detail = outer]
WithParts(role, parts) ==
  [Item("message") EXCEPT !.role = role, !.content = [form |-> "parts", parts |-> parts]]
MCOpenings ==
  {[UserText EXCEPT !.role = "stranger"], [UserText EXCEPT !.content = Bad],
   [UserText EXCEPT !.content = Absent], [UserText EXCEPT !.id = LegacyId],
   Item("compaction"), Item("unheard_of"), [Item("function_call") EXCEPT !.name = T]} \cup
  {WithParts(role, <<TextPart(type, "one"), TextPart("text", "two")>>) :
     role \in {"user", "developer", "assistant"}, type \in {"output_text", "refusal", "summary_text"}} \cup
  {WithParts(role, <<TextPart("input_text", "look"), p>>) :
     role \in {"user", "assistant"},
     p \in {Picture("input_image", "string", Absent, "high"), Picture("image_url", "object", "low", Absent),
            Picture("image_url", "string", Absent, "high"), Part("image_url"), Part("input_image"),
            Part("input_text"), Part("input_audio")}}

(* Identifiers of two calls: safe ones, ones with a character that is not,  *)
(* and one longer than the limit beside one of which nothing is left.      *)
SafeIds == <<<<"a">>, <<"b">>>>
MarkedIds == <<<<"!", "a">>, <<"b", "!", "a">>>>
LostIds == <<<<"a", "b", "a">>, <<"!">>>>

(* Long sessions with the tools that matter, short ones with the others.   *)
Session(a, list, first, ids, changes_) ==
  [ask |-> a, tools |-> list, opening |-> first, ids |-> ids, changes |-> changes_]
MCSessions ==
  LET one == SubSeq(SafeIds, 1, 1)
  IN {Session(Plain, list, UserText, SafeIds, 1) : list \in MCToolLists} \cup
     {Session(Plain, OtherTools, UserText, ids, 0) : ids \in {MarkedIds, LostIds}} \cup
     {Session(Plain, list, UserText, SafeIds, 0) : list \in AliasTools} \cup
     {Session(Plain, list, UserText, one, 0) : list \in OddTools} \cup
     {Session(a, PlainTools, UserText, one, 0) : a \in MCAsks} \cup
     {Session(Plain, PlainTools, m, one, 0) : m \in MCOpenings}

MCUnknownCalls ==
  {[namespace |-> c[1], name |-> c[2], freeform |-> FALSE, arguments |-> Wrap(<<"x">>)] :
     c \in {<<Absent, <<"u">>>>, <<N, <<"u">>>>, <<Absent, <<"n", ".", "t">>>>,
            <<Absent, <<"n", ".", "u">>>>, <<Absent, <<"u", "!">>>>}}

MCOutputs ==
  {StringContent("result"),
   [form |-> "parts", parts |-> <<TextPart("input_text", "seen"),
                                  Picture("input_image", "string", Absent, "high")>>]}
=============================================================================
