----------------------------- MODULE MCLaunches -----------------------------
(* Instances of Launches for TLC.                                          *)
EXTENDS Launches, TLC

CONSTANTS Tokens, MaxArgs, L1, L2, L3

Line(args, environment) == [args |-> args, environment |-> environment]

(* One launch with every short command line, and with longer ones where    *)
(* options stand between a flag and its value or look like one another.    *)
LongArgs ==
  {<<"--model", "--fast", "exec", "--", "--fast">>,
   <<"--model", "serve", "exec", "--base-url", "u1", "x">>,
   <<"--model", "--", "exec", "--base-url", "u1">>,
   <<"-w", "off", "exec", "--api-key-stdin", "--", "--api-key-stdin">>,
   <<"-w", "--fast", "off", "exec", "--api-key-stdin">>,
   <<"-w", "--base-url", "u1", "off", "serve">>,
   <<"-w", "--provider", "zai", "off", "config">>,
   <<"--base-url", "u1", "--base-url=u1", "resume", "--", "--base-url", "u2">>,
   <<"--base-url", "u1", "--base-url=u2", "resume">>,
   <<"auth", "set", "--api-key-stdin", "--provider", "zai">>,
   <<"--provider", "zai", "--fast", "serve">>, <<"serve", "--no-session-log">>,
   <<"config", "--fast", "x">>, <<"exec", "--api-key-stdin", "x">>,
   <<"exec", "exec", "--api-key-stdin", "x", "serve">>, <<"serve", "--api-key-stdin", "x">>,
   <<"-w", "--fast", "off", "x", "exec">>}
Alone ==
  {L1 :> Line(args, "") : args \in SeqOf(Tokens, MaxArgs) \cup LongArgs} \cup
  {L1 :> Line(args, "u1") : args \in SeqOf(Tokens, MaxArgs - 1) \cup LongArgs}

(* Sessions, servers and local commands at once, each pair in one order.   *)
Kinds == << <<>>, <<"serve">>, <<"serve", "--provider=zai">>, <<"config">> >>
Pairs == {p \in (1..4) \X (1..4) : p[1] <= p[2]}
Together ==
  {(L1 :> Line(Kinds[p[1]], "")) @@ (L2 :> Line(Kinds[p[2]], "")) : p \in Pairs} \cup
  {(L1 :> Line(<<"serve">>, "")) @@ (L2 :> Line(<<"serve">>, "")) @@
   (L3 :> Line(<<"config">>, ""))}

MCCommands == Alone \cup Together
MCProfiles ==
  {[directory |-> "absent", settings |-> None], [directory |-> "foreign", settings |-> None],
   [directory |-> "private", settings |-> Unpinned], [directory |-> "private", settings |-> Broken]}

(* Authentication commands with the launcher's own options among them.     *)
MCAuthCommands ==
  {L1 :> Line(args, "") :
     args \in {<<"login">>, <<"--provider", "zai", "login">>, <<"--fast", "login">>,
               <<"-w", "off", "login">>, <<"-w", "--fast", "off", "login">>}}
=============================================================================
