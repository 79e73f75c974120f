--------------------------- MODULE MCSseValidator ---------------------------
(***************************************************************************)
(* An instance of SseValidator for TLC.                                    *)
(***************************************************************************)
EXTENDS SseValidator

Event(kind, seq, respId, topId, respModel, headerModel, shaped) ==
  [kind |-> kind, seq |-> seq, respId |-> respId, topId |-> topId,
   respModel |-> respModel, headerModel |-> headerModel, shaped |-> shaped]
Plain(kind, seq) == Event(kind, seq, Absent, Absent, Absent, Absent, TRUE)
DataLine(e) == [field |-> "data", name |-> "message", event |-> e]
NameLine(k) == [field |-> "event", name |-> k, event |-> NullEvent]
OtherLine(f) == [field |-> f, name |-> "message", event |-> NullEvent]

(* Every disposition of inspect_frame.                                     *)
LineParse ==
  [created    |-> DataLine(Event("created", 1, "r1", Absent, "m1", Absent, TRUE)),
   createdBad |-> DataLine(Event("created", 1, Unsafe, "r1", Absent, Absent, TRUE)),
   delta      |-> DataLine(Event("delta", 2, Absent, Absent, Absent, Absent, TRUE)),
   deltaBad   |-> DataLine(Event("delta", 2, Absent, Absent, Absent, Absent, FALSE)),
   last       |-> DataLine(Plain("plain", 3)),
   badSeq     |-> DataLine(Plain("plain", BadSeq)),
   meta       |-> DataLine(Event("metadata", 2, Absent, "r2", Absent, "m2", TRUE)),
   completed  |-> DataLine(Event("completed", 2, "r1", Absent, "m1", Absent, TRUE)),
   failed     |-> DataLine(Event("failed", 2, "r1", Absent, Absent, Absent, TRUE)),
   cancelled  |-> DataLine(Event("cancelled", NoSeq, Absent, "r2", Absent, Absent, TRUE)),
   cancelBad  |-> DataLine(Event("cancelled", 1, Unsafe, "r2", Absent, Absent, TRUE)),
   error      |-> DataLine(Plain("error", NoSeq)),
   done       |-> DataLine(Plain("done", NoSeq)),
   unknown    |-> DataLine(Plain("unknown", 1)),
   comment    |-> OtherLine("ignored"),
   binary     |-> OtherLine("binary"),
   nameDelta  |-> NameLine("delta"),
   nameAny    |-> NameLine("message")]
AllLines == DOMAIN LineParse

(* Whole frames of every disposition, frames that share a chunk, two lines *)
(* broken and split in every way, and the empty chunk, which only restarts *)
(* the idle timer: an upstream may send it for ever.                       *)
WholeFrames == {<<l, LF, LF>> : l \in AllLines}
SharedChunks ==
  {<<"nameDelta", LF>>, <<"nameAny", LF>>, <<"delta", LF>>,
   <<"completed", LF, LF, "last", LF, LF>>, <<"error", LF, LF, "completed", LF, LF>>}
Pieces == {"created", "completed", LF, CR}
SplitChunks == {<<s>> : s \in Pieces} \cup {<<s, t>> : s, t \in Pieces}
AllChunks == {<<>>} \cup WholeFrames \cup SharedChunks \cup SplitChunks
=============================================================================
