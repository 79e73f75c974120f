----------------------------- MODULE FrameScan -----------------------------
(***************************************************************************)
(* Where the first server-sent-event frame of a byte buffer ends.          *)
(*                                                                         *)
(* A frame runs through the first blank line.  A line break is LF, CR LF   *)
(* or a lone CR, so a CR at the very end of the buffer is ambiguous: its   *)
(* LF may be in the next chunk.  The two scanners of the repository answer *)
(* that differently, and that is the only difference between them:         *)
(*   - the gateway's (muse-codex-gateway/src/sse.rs) gives up until the    *)
(*     next byte has arrived;                                              *)
(*   - the Z.ai synthesizer's (codex-transport/src/zai/stream.rs) takes    *)
(*     the CR as a complete break.                                         *)
(*                                                                         *)
(* Both are stated here by what they compute; module FrameScanLoop has the *)
(* two loops as they are written and TLC compares them with these.         *)
(***************************************************************************)
EXTENDS Naturals, Sequences, FiniteSetsExt

CONSTANTS LF, CR

ASSUME BreaksDiffer == LF # CR

(* A line begins at i: at the start, or right after a whole line break.    *)
LineStart(b, i) ==
  \/ i = 1
  \/ b[i - 1] = LF
  \/ b[i - 1] = CR /\ b[i] # LF

(* The length of the line break at i, 0 if there is none.  A final CR      *)
(* counts for `tail`: 0 if the scanner will not decide it yet, 1 if it is  *)
(* taken as a break.                                                       *)
BreakLen(b, i, tail) ==
  IF b[i] = LF THEN 1
  ELSE IF b[i] # CR THEN 0
  ELSE IF i = Len(b) THEN tail
  ELSE IF b[i + 1] = LF THEN 2 ELSE 1

BlankLines(b, tail) ==
  {i \in 1..Len(b) : LineStart(b, i) /\ BreakLen(b, i, tail) > 0}

(* The length through the first blank line; 0 stands for the code's None.  *)
FrameLen(b, tail) ==
  IF BlankLines(b, tail) = {}
  THEN 0
  ELSE LET i == Min(BlankLines(b, tail)) IN i + BreakLen(b, i, tail) - 1

CompleteFrameLen(b) == FrameLen(b, 0)
=============================================================================
