---------------------------- MODULE MCZaiStream ----------------------------
(***************************************************************************)
(* Instances of ZaiStream for TLC.                                         *)
(***************************************************************************)
EXTENDS ZaiStream

NoChunk ==
  [kind |-> "chunk", id |-> <<>>, model |-> None, usage |-> None, choice |-> TRUE,
   reasoning |-> <<>>, content |-> <<>>, calls |-> <<>>, finish |-> None]
Call(index, id, name, arguments) ==
  [index |-> index, id |-> id, name |-> name, arguments |-> arguments]
MuseName(tool) == <<"muse", ".", tool>>
Encoded(tool) == EncodedName(MuseName(tool))

Reasoning == [NoChunk EXCEPT !.reasoning = <<"r">>, !.id = <<"/">>]
Text == [NoChunk EXCEPT !.content = <<"t">>, !.model = "reported"]
(* A call whole, continued under a second identifier and name, named late.  *)
Whole == [NoChunk EXCEPT !.calls = <<Call(0, <<"a">>, Encoded("read"), <<"x">>)>>]
More == [NoChunk EXCEPT !.calls = <<Call(0, <<"b">>, Encoded("patch"), <<"y">>)>>]
NoName == [NoChunk EXCEPT !.calls = <<Call(1, <<"b", "b", "b">>, <<>>, <<Opening>>)>>]
Freeform == [NoChunk EXCEPT !.calls = <<Call(1, <<>>, Encoded("patch"), <<"z">>), Call(1, <<>>, <<>>, <<Closing>>)>>]
Parallel == [NoChunk EXCEPT !.content = <<"v">>,
               !.calls = <<Call(1, <<"/">>, Encoded("patch"), <<"w">>), Call(0, <<"a">>, <<"guess">>, <<>>)>>]
Usage == [NoChunk EXCEPT !.choice = FALSE, !.usage = [input |-> 2, output |-> 2, total |-> None]]
Stop == [NoChunk EXCEPT !.finish = "stop"]
Length == [NoChunk EXCEPT !.reasoning = <<"m">>, !.content = <<"l">>, !.finish = "length"]
DoneFrame == [kind |-> "done"]
ErrorFrame == [kind |-> "error", message |-> <<"upstream">>]
ErrorEmpty == [kind |-> "error", message |-> <<>>]
ErrorBare == [kind |-> "error", message |-> None]
Malformed == [kind |-> "malformed"]
Ignored == [kind |-> "ignored"]

Saying == {Reasoning, Text, Whole, More, NoName, Freeform, Parallel}
Ending == {Stop, Length, ErrorFrame}

(* One frame a chunk.                                                      *)
ItemChunks == {<<f>> : f \in Saying \cup Ending}

(* Chunking: frames that share a chunk, and chunks that complete none.     *)
CutChunks ==
  {<<Part>>, <<Part, Part>>, <<Part, Text>>, <<Reasoning, Part>>, <<Whole, Usage>>,
   <<Ignored>>, <<Malformed>>, <<ErrorBare>>, <<ErrorEmpty>>}
  \cup {<<f, g>> : f \in {Text, Stop, DoneFrame, ErrorFrame, Length},
                   g \in {Text, Stop, DoneFrame, Malformed}}

AllChunks == ItemChunks \cup CutChunks

AllTools == {MuseName("read"), MuseName("patch")}
Freeforms == {MuseName("patch")}
Key == <<"k", ":", "k">>
=============================================================================
