---------------------------- MODULE CommandLine ----------------------------
(***************************************************************************)
(* The launcher's reading of its command line, and the command line it     *)
(* gives stock Muse.  Arguments are sequences of tokens.                   *)
(*                                                                         *)
(* Every loop of the code steps over an option and its value together and  *)
(* stops at "--".  Units is that step: a command line as a sequence of     *)
(* units, each one token, an option with its value, or "--" with           *)
(* everything after it.                                                    *)
(***************************************************************************)
EXTENDS Naturals, SequencesExt

CONSTANTS OtherOptions  \* further tokens that begin with "-"

Default == "codex"
PublicProviders == {"codex", "zai"}

(* The forms with "=", by their values.                                    *)
InlineProvider ==
  [form \in {"--provider=codex", "--provider=zai", "--provider=meta"} |->
     IF form = "--provider=codex" THEN "codex" ELSE IF form = "--provider=zai" THEN "zai" ELSE "meta"]
InlineUrl ==
  [form \in {"--base-url=u1", "--base-url=u2", "--base-url="} |->
     IF form = "--base-url=u1" THEN "u1" ELSE IF form = "--base-url=u2" THEN "u2" ELSE ""]

ValueOptions ==
  {"--provider", "--base-url", "--agents", "--preset", "--model", "--reasoning-effort",
   "--image", "--workspace", "--worktree-base", "--worktree-existing", "--approval-mode",
   "--permission-profile", "--approval-judge", "--echo-delay-ms", "--sandbox-network",
   "--prompt-file", "--context-compaction-strategy", "--context-compaction-soft-threshold",
   "--context-compaction-hard-threshold", "--max-model-steps", "--max-tool-output-bytes",
   "--session-id", "--out", "--format"}
InformationFlags == {"-h", "--help", "-V", "--version"}
Worktree == {"-w", "--worktree"}
WorktreeModes == {"off", "create", "existing"}
LocalCommands ==
  {"config", "export", "trace", "skills", "sandbox", "schema", "session-message", "init"}
AuthCommands == {"auth", "login", "logout"}
StockSubcommands == LocalCommands \cup AuthCommands \cup {"exec", "serve", "resume"}

ASSUME OptionsAssumption ==  \* none of them is a word
  OtherOptions \cap ({"meta"} \cup PublicProviders \cup WorktreeModes \cup StockSubcommands) = {}

OptionLike(token) ==
  token \in ValueOptions \cup InformationFlags \cup Worktree \cup OtherOptions \cup
            DOMAIN InlineProvider \cup DOMAIN InlineUrl \cup
            {"--", "--fast", "--api-key-stdin", "--no-session-log", "--device-auth"}
-----------------------------------------------------------------------------
AddToken(units, token) ==
  IF /\ units # <<>>
     /\ \/ Last(units)[1] = "--"
        \/ Len(Last(units)) = 1 /\ Last(units)[1] \in ValueOptions
  THEN [units EXCEPT ![Len(units)] = Append(@, token)]
  ELSE Append(units, <<token>>)

Units(args) ==
  LET read[n \in 0..Len(args)] == IF n = 0 THEN <<>> ELSE AddToken(read[n - 1], args[n])
  IN read[Len(args)]
Heads(args) == {u[1] : u \in ToSet(Units(args))} \ {"--"}

(* The units that are in a set, in their order, and the arguments without  *)
(* those that are.                                                         *)
Kept(units, set) ==
  FlattenSeq([i \in 1..Len(units) |-> IF units[i] \in set THEN <<units[i]>> ELSE <<>>])
Without(args, dropped) == FlattenSeq(Kept(Units(args), ToSet(Units(args)) \ dropped))

(* Where the first argument that is no option stands, among the units, and *)
(* 0 when it is no subcommand: the mode of a worktree flag is not one.     *)
StockSubcommand(args) ==
  LET units == Units(args)
      Mode(i) == i > 1 /\ units[i][1] \in WorktreeModes /\ units[i - 1][1] \in Worktree
      free == {i \in 1..Len(units) : ~OptionLike(units[i][1]) /\ ~Mode(i)}
  IN IF free # {} /\ units[Min(free)][1] \in StockSubcommands THEN Min(free) ELSE 0

SubcommandOf(args) ==
  IF StockSubcommand(args) = 0 THEN "none" ELSE Units(args)[StockSubcommand(args)][1]

(* Muse dispatches on its first argument only.                             *)
SubcommandFirst(args) ==
  LET i == StockSubcommand(args)
  IN IF i = 0 THEN args
     ELSE FlattenSeq(<<Units(args)[i]>> \o RemoveAt(Units(args), i))
-----------------------------------------------------------------------------
(* The provider.                                                           *)
IsProvider(unit) == unit[1] \in DOMAIN InlineProvider \cup {"--provider"}
ProviderValue(unit) ==
  IF unit[1] \in DOMAIN InlineProvider THEN InlineProvider[unit[1]]
  ELSE IF Len(unit) = 2 THEN unit[2] ELSE "missing"

ProviderValues(args) ==
  {ProviderValue(u) : u \in {v \in ToSet(Units(args)) : IsProvider(v)}}
ProviderOK(args) ==
  /\ ProviderValues(args) \subseteq PublicProviders
  /\ \A p, q \in ProviderValues(args) : p = q
SelectedProvider(args) ==
  IF ProviderValues(args) = {} THEN Default ELSE CHOOSE p \in ProviderValues(args) : TRUE
StripProvider(args) == Without(args, {u \in ToSet(Units(args)) : IsProvider(u)})

(* The upstream's address, of the command line or of the environment.      *)
IsBaseUrl(unit) == unit[1] \in DOMAIN InlineUrl \cup {"--base-url"}
UrlValue(unit) ==
  IF unit[1] \in DOMAIN InlineUrl THEN InlineUrl[unit[1]]
  ELSE IF Len(unit) = 2 /\ ~OptionLike(unit[2]) THEN unit[2] ELSE ""
UpstreamUrls(args, environment) ==
  {UrlValue(u) : u \in {v \in ToSet(Units(args)) : IsBaseUrl(v)}} \cup
  (IF environment = "" THEN {} ELSE {environment})
UpstreamOK(args, environment) ==
  /\ \A u \in ToSet(Units(args)) : IsBaseUrl(u) => UrlValue(u) # ""
  /\ \A a, b \in UpstreamUrls(args, environment) : a = b
-----------------------------------------------------------------------------
IsInformational(args) == Heads(args) \cap InformationFlags # {}
IsLocal(args) == SubcommandOf(args) \in LocalCommands
MspOptionsOK(args) == ~(SubcommandOf(args) = "serve" /\ "--no-session-log" \in Heads(args))

TakeExecApiKeyStdin(args) ==
  IF SubcommandOf(args) = "exec" THEN Without(args, {<<"--api-key-stdin">>})
  ELSE args
TakeFastMode(args) == Without(args, {<<"--fast">>})

Removable(unit) ==
  \/ unit[1] \in DOMAIN InlineProvider \cup DOMAIN InlineUrl
  \/ unit[1] \in {"--provider", "--base-url"} /\ Len(unit) = 2 /\ ~OptionLike(unit[2])
WithoutRouting(args) == Without(args, {u \in ToSet(Units(args)) : Removable(u)})

RewriteMuseArgs_Mutant(args, url) ==  \* Routed: flags before the subcommand
  <<"--provider", "meta", "--base-url", url>> \o WithoutRouting(args)

RewriteMuseArgs(args, url) ==
  LET rewritten == SubcommandFirst(WithoutRouting(args))
      routing == <<"--provider", "meta", "--base-url", url>>
  IN IF SubcommandOf(rewritten) = "none" THEN routing \o rewritten
     ELSE IF rewritten[1] \in {"exec", "resume"} THEN <<rewritten[1]>> \o routing \o Tail(rewritten)
     ELSE rewritten

(* What the auth commands' own parser accepts.                             *)
AuthForms ==
  LET both == {<<"login">>, <<"login", "--device-auth">>, <<"logout">>}
  IN both \cup {<<"auth">> \o f : f \in both \cup {<<"status">>, <<"set", "--api-key-stdin">>}}

(* run and classify_invocation: what kind of launch a command line is.     *)
Classify(args) ==
  LET bare == StripProvider(args)
  IN IF ~ProviderOK(args) THEN "refused"
     ELSE IF bare = <<"self-test">> THEN "self-test"
     ELSE IF SubcommandOf(bare) \in AuthCommands
     THEN IF bare \in AuthForms THEN "auth" ELSE "refused"
     ELSE IF IsInformational(args) \/ IsLocal(args) THEN "information"
     ELSE "session"

(* The checks of run_stock_muse before it starts anything.                 *)
SessionOK(args, environment) ==
  /\ MspOptionsOK(args)
  /\ ~(SelectedProvider(args) = "zai" /\ "--fast" \in Heads(TakeExecApiKeyStdin(args)))
  /\ UpstreamOK(TakeFastMode(TakeExecApiKeyStdin(args)), environment)

SessionArgs(args) == TakeFastMode(TakeExecApiKeyStdin(args))
InformationArgs(args) == SubcommandFirst(TakeFastMode(StripProvider(args)))
=============================================================================
