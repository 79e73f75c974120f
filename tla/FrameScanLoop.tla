--------------------------- MODULE FrameScanLoop ---------------------------
(***************************************************************************)
(* The two complete_frame_len loops, one step per iteration: the gateway's *)
(* (muse-codex-gateway/src/sse.rs) and the Z.ai synthesizer's              *)
(* (codex-transport/src/zai/stream.rs).  Indices count from 1 here, so an  *)
(* index one past the break is the code's length plus 1.                   *)
(***************************************************************************)
EXTENDS FrameScan, Integers

CONSTANTS
  Bytes,     \* what a buffer is made of
  Buffers    \* the buffers scanned

ASSUME BuffersAssumption == Buffers \subseteq Seq(Bytes)

VARIABLES
  scanner,    \* "gateway" | "zai"
  buffer,
  index,
  lineStart,
  result      \* -1 while the loop runs, then the length, 0 for None

vars == <<scanner, buffer, index, lineStart, result>>

Running == -1

Init ==
  /\ scanner \in {"gateway", "zai"}
  /\ buffer \in Buffers
  /\ index = 1 /\ lineStart = 1 /\ result = Running

InLoop == result = Running /\ index <= Len(buffer)

LineEnd_Mutant ==  \* Correct: a lone CR is taken for half a break
  IF buffer[index] = CR THEN index + 2 ELSE index + 1

(* Where the break at index ends.                                          *)
LineEnd ==
  IF buffer[index] = CR /\ index < Len(buffer) /\ buffer[index + 1] = LF
  THEN index + 2 ELSE index + 1

(* Only the gateway's scanner leaves a final CR undecided.                 *)
UndecidedCr == scanner = "gateway" /\ buffer[index] = CR /\ index = Len(buffer)

SkipByte ==
  /\ InLoop /\ buffer[index] \notin {LF, CR}
  /\ index' = index + 1
  /\ UNCHANGED <<scanner, buffer, lineStart, result>>

GiveUp ==
  /\ InLoop /\ UndecidedCr
  /\ result' = 0
  /\ UNCHANGED <<scanner, buffer, index, lineStart>>

FoundBlank ==
  /\ InLoop /\ buffer[index] \in {LF, CR} /\ ~UndecidedCr
  /\ index = lineStart
  /\ result' = LineEnd - 1
  /\ UNCHANGED <<scanner, buffer, index, lineStart>>

NextLine ==
  /\ InLoop /\ buffer[index] \in {LF, CR} /\ ~UndecidedCr
  /\ index # lineStart
  /\ lineStart' = LineEnd /\ index' = LineEnd
  /\ UNCHANGED <<scanner, buffer, result>>

Exhausted ==
  /\ result = Running /\ index > Len(buffer)
  /\ result' = 0
  /\ UNCHANGED <<scanner, buffer, index, lineStart>>

Returned == result # Running /\ UNCHANGED vars

Next == SkipByte \/ GiveUp \/ FoundBlank \/ NextLine \/ Exhausted \/ Returned

Spec == Init /\ [][Next]_vars
-----------------------------------------------------------------------------
(* What a final CR counts for in FrameLen.                                 *)
FinalCr == IF scanner = "gateway" THEN 0 ELSE 1

(* What the loop has established: it stands on the first line that could   *)
(* be blank, and everything from lineStart to index is text.               *)
LoopInvariant ==
  /\ scanner \in {"gateway", "zai"} /\ buffer \in Seq(Bytes)
  /\ lineStart \in 1..(Len(buffer) + 1) /\ index \in lineStart..(Len(buffer) + 1)
  /\ lineStart <= Len(buffer) => LineStart(buffer, lineStart)
  /\ \A i \in lineStart..(index - 1) : buffer[i] \notin {LF, CR}
  /\ \A i \in 1..(index - 1) : i \notin BlankLines(buffer, FinalCr)

(* The loop returns the length through the first blank line, as FrameLen   *)
(* defines it, or nothing when there is none.                              *)
Correct == result # Running => result = FrameLen(buffer, FinalCr)
=============================================================================
