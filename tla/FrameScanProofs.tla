-------------------------- MODULE FrameScanProofs --------------------------
(***************************************************************************)
(* Facts about the frame scanners, for every buffer: what they find, and   *)
(* that their loops find it.                                               *)
(***************************************************************************)
EXTENDS FrameScanLoop, TLAPS, WellFoundedInduction, SequenceTheorems

(* A non-empty set of naturals has a least element, and Min names it.      *)
LEMMA MinOfNat ==
  ASSUME NEW S \in SUBSET Nat, S # {}
  PROVE  Min(S) \in S /\ \A y \in S : Min(S) <= y
<1> DEFINE R == {ss \in Nat \X Nat : ss[1] < ss[2]}
<1>1. PICK x \in S : \A y \in S : ~(<<y, x>> \in R)
  <2>1. IsWellFoundedOn(R, Nat)
    BY NatLessThanWellFounded DEF OpToRel
  <2> HIDE DEF R
  <2> QED BY <2>1, WFMin
<1>2. \A y \in S : x <= y
  <2> SUFFICES ASSUME NEW y \in S, y < x PROVE FALSE
    OBVIOUS
  <2>1. <<y, x>> \in Nat \X Nat /\ <<y, x>>[1] = y /\ <<y, x>>[2] = x
    OBVIOUS
  <2>2. <<y, x>> \in R
    BY <2>1
  <2> QED BY <2>2, <1>1
<1> QED BY <1>2 DEF Min

(* The first blank line, where the scanner finds one.                      *)
LEMMA FirstBlank ==
  ASSUME NEW S, NEW b \in Seq(S), NEW tail \in {0, 1}, BlankLines(b, tail) # {}
  PROVE  LET i == Min(BlankLines(b, tail)) IN
           /\ i \in BlankLines(b, tail) /\ i \in 1..Len(b)
           /\ \A j \in BlankLines(b, tail) : i <= j
           /\ BreakLen(b, i, tail) \in {1, 2}
           /\ FrameLen(b, tail) = i + BreakLen(b, i, tail) - 1
           /\ FrameLen(b, tail) <= Len(b)
<1> DEFINE B == BlankLines(b, tail)
<1>1. B \in SUBSET Nat
  BY DEF BlankLines
<1>2. Min(B) \in B /\ \A j \in B : Min(B) <= j
  BY <1>1, MinOfNat
<1>3. Min(B) \in 1..Len(b) /\ BreakLen(b, Min(B), tail) > 0
  BY <1>2 DEF BlankLines
<1>4. /\ BreakLen(b, Min(B), tail) \in {1, 2}
      /\ Min(B) + BreakLen(b, Min(B), tail) - 1 <= Len(b)
  BY <1>3 DEF BreakLen
<1>5. FrameLen(b, tail) = Min(B) + BreakLen(b, Min(B), tail) - 1
  BY DEF FrameLen
<1> QED BY <1>2, <1>3, <1>4, <1>5

(* A scanner never claims more than the buffer holds.                      *)
LEMMA FrameLenType ==
  ASSUME NEW S, NEW b \in Seq(S), NEW tail \in {0, 1}
  PROVE  FrameLen(b, tail) \in 0..Len(b)
<1>1. CASE BlankLines(b, tail) = {}
  BY <1>1 DEF FrameLen
<1>2. CASE BlankLines(b, tail) # {}
  BY <1>2, FirstBlank
<1> QED BY <1>1, <1>2

(* Where a line starts, and how long a decided break is, depend on the     *)
(* bytes already there.                                                    *)
LEMMA LocalBreaks ==
  ASSUME NEW S, NEW b \in Seq(S), NEW d \in Seq(S), Len(b) <= Len(d),
         \A k \in 1..Len(b) : d[k] = b[k],
         NEW j \in 1..Len(b)
  PROVE  /\ LineStart(d, j) <=> LineStart(b, j)
         /\ BreakLen(b, j, 0) > 0 => BreakLen(d, j, 0) = BreakLen(b, j, 0)
         /\ BreakLen(d, j, 0) > 0 /\ j < Len(b) => BreakLen(b, j, 0) > 0
<1>1. d[j] = b[j] /\ (j > 1 => d[j - 1] = b[j - 1]) /\ (j < Len(b) => d[j + 1] = b[j + 1])
  BY SMTT(30)
<1>2. LineStart(d, j) <=> LineStart(b, j)
  BY <1>1 DEF LineStart
<1>3. BreakLen(b, j, 0) > 0 => BreakLen(d, j, 0) = BreakLen(b, j, 0)
  BY <1>1 DEF BreakLen
<1>4. BreakLen(d, j, 0) > 0 /\ j < Len(b) => BreakLen(b, j, 0) > 0
  BY <1>1 DEF BreakLen
<1> QED BY <1>2, <1>3, <1>4

(* When the end of line k is a blank line of the buffer (the test of the   *)
(* scanners' loops).                                                       *)
LEMMA InBlankLines ==
  ASSUME NEW S, NEW b \in Seq(S), NEW tail \in {0, 1}, NEW k \in 1..Len(b)
  PROVE  k \in BlankLines(b, tail) <=> LineStart(b, k) /\ BreakLen(b, k, tail) > 0
BY DEF BlankLines

(* The gateway's scanner is indifferent to chunking: a frame it has found  *)
(* ends at the same place whatever bytes arrive later.                     *)
THEOREM ScanStable ==
  ASSUME NEW S, NEW b \in Seq(S), NEW c \in Seq(S), CompleteFrameLen(b) > 0
  PROVE  CompleteFrameLen(b \o c) = CompleteFrameLen(b)
<1>1. PICK d \in Seq(S) : /\ d = b \o c /\ Len(b) <= Len(d)
                         /\ \A k \in 1..Len(b) : d[k] = b[k]
  <2>1. /\ b \o c \in Seq(S) /\ Len(b) <= Len(b \o c)
        /\ \A k \in 1..Len(b) : (b \o c)[k] = b[k]
    OBVIOUS
  <2> QED BY <2>1
<1>2. BlankLines(b, 0) # {}
  <2>1. BlankLines(b, 0) = {} => CompleteFrameLen(b) = 0
    BY DEF CompleteFrameLen, FrameLen
  <2>2. CompleteFrameLen(b) \in Nat
    BY FrameLenType DEF CompleteFrameLen
  <2> QED BY <2>1, <2>2
<1>3. PICK i \in 1..Len(b) :
        /\ i = Min(BlankLines(b, 0)) /\ i \in BlankLines(b, 0)
        /\ \A j \in 1..Len(b) : j \in BlankLines(b, 0) => i <= j
        /\ CompleteFrameLen(b) = i + BreakLen(b, i, 0) - 1
  BY <1>2, FirstBlank DEF CompleteFrameLen
<1>4. BreakLen(d, i, 0) = BreakLen(b, i, 0) /\ i \in BlankLines(d, 0)
  <2>1. LineStart(b, i) /\ BreakLen(b, i, 0) > 0
    BY <1>3, InBlankLines
  <2>2. LineStart(d, i) /\ BreakLen(d, i, 0) = BreakLen(b, i, 0)
    BY <1>1, <2>1, LocalBreaks, ZenonT(40)
  <2>3. i \in 1..Len(d)
    BY <1>1
  <2> QED BY <2>1, <2>2, <2>3, InBlankLines
<1>5. PICK m \in 1..Len(d) :
        /\ m = Min(BlankLines(d, 0)) /\ m \in BlankLines(d, 0)
        /\ \A j \in 1..Len(d) : j \in BlankLines(d, 0) => m <= j
        /\ CompleteFrameLen(d) = m + BreakLen(d, m, 0) - 1
  BY <1>4, FirstBlank DEF CompleteFrameLen
<1>6. m = i
  <2>1. m <= i
    BY <1>1, <1>4, <1>5
  <2>2. SUFFICES ASSUME m < i PROVE FALSE
    BY <2>1
  <2>3. LineStart(d, m) /\ BreakLen(d, m, 0) > 0
    BY <1>5, InBlankLines
  <2>4. m \in 1..Len(b) /\ m < Len(b)
    BY <2>2
  <2>5. LineStart(b, m) /\ BreakLen(b, m, 0) > 0
    BY <1>1, <2>3, <2>4, LocalBreaks
  <2>6. m \in BlankLines(b, 0)
    BY <2>4, <2>5, InBlankLines
  <2> QED BY <1>3, <2>2, <2>4, <2>6
<1> QED BY <1>1, <1>3, <1>4, <1>5, <1>6
-----------------------------------------------------------------------------

LInv == LoopInvariant /\ Correct

(* A break that ends a line of text: the next line starts at its end, and  *)
(* no blank line lies in between.                                          *)
LEMMA NextLinePreserves ==
  ASSUME LInv, NextLine
  PROVE  LInv'
<1>1. /\ scanner \in {"gateway", "zai"} /\ buffer \in Seq(Bytes) /\ Len(buffer) \in Nat
      /\ index \in 1..Len(buffer) /\ lineStart \in 1..Len(buffer) /\ lineStart < index
      /\ \A i \in lineStart..(index - 1) : buffer[i] \notin {LF, CR}
      /\ \A i \in 1..(index - 1) : i \notin BlankLines(buffer, FinalCr)
      /\ buffer[index] \in {LF, CR} /\ FinalCr \in {0, 1}
  BY DEF LInv, LoopInvariant, NextLine, InLoop, FinalCr
<1>2. /\ UNCHANGED <<scanner, buffer, result>> /\ result = Running
      /\ lineStart' = LineEnd /\ index' = LineEnd /\ FinalCr' = FinalCr
  BY DEF NextLine, InLoop, FinalCr
<1>3. LineEnd \in {index + 1, index + 2} /\ LineEnd <= Len(buffer) + 1
  BY <1>1 DEF LineEnd
<1>4. LineEnd <= Len(buffer) => LineStart(buffer, LineEnd)
  BY <1>1, BreaksDiffer DEF LineEnd, LineStart
<1>5. buffer[index - 1] \notin {LF, CR}
  BY <1>1
<1>6. index \notin BlankLines(buffer, FinalCr)
  <2>1. ~LineStart(buffer, index)
    BY <1>1, <1>5 DEF LineStart
  <2> QED BY <1>1, <2>1, InBlankLines
<1>7. LineEnd = index + 2 => index + 1 \notin BlankLines(buffer, FinalCr)
  <2> SUFFICES ASSUME LineEnd = index + 2 PROVE index + 1 \notin BlankLines(buffer, FinalCr)
    OBVIOUS
  <2>1. buffer[index] = CR /\ buffer[index + 1] = LF /\ index + 1 \in 1..Len(buffer)
    BY <1>1 DEF LineEnd
  <2>2. ~LineStart(buffer, index + 1)
    BY <1>1, <2>1, BreaksDiffer DEF LineStart
  <2> QED BY <1>1, <2>1, <2>2, InBlankLines
<1>8. \A i \in 1..(LineEnd - 1) : i \notin BlankLines(buffer, FinalCr)
  BY <1>1, <1>3, <1>6, <1>7
<1>9. LoopInvariant'
  BY <1>1, <1>2, <1>3, <1>4, <1>8 DEF LoopInvariant
<1> QED BY <1>2, <1>9 DEF LInv, Correct

(* A break at the start of a line is the first blank line.                 *)
LEMMA FoundBlankPreserves ==
  ASSUME LInv, FoundBlank
  PROVE  LInv'
<1>1. /\ scanner \in {"gateway", "zai"} /\ buffer \in Seq(Bytes) /\ Len(buffer) \in Nat
      /\ index \in 1..Len(buffer) /\ LineStart(buffer, index)
      /\ \A i \in 1..(index - 1) : i \notin BlankLines(buffer, FinalCr)
      /\ buffer[index] \in {LF, CR} /\ FinalCr \in {0, 1} /\ ~UndecidedCr
  BY DEF LInv, LoopInvariant, FoundBlank, InLoop, FinalCr
<1>2. UNCHANGED <<scanner, buffer, index, lineStart>> /\ result' = LineEnd - 1 /\ FinalCr' = FinalCr
  BY DEF FoundBlank, FinalCr
<1>3. /\ BreakLen(buffer, index, FinalCr) = LineEnd - index
      /\ BreakLen(buffer, index, FinalCr) \in {1, 2}
  BY <1>1, BreaksDiffer DEF BreakLen, LineEnd, UndecidedCr, FinalCr
<1>4. index \in BlankLines(buffer, FinalCr)
  BY <1>1, <1>3, InBlankLines
<1>5. PICK m \in 1..Len(buffer) :
        /\ m \in BlankLines(buffer, FinalCr)
        /\ \A j \in 1..Len(buffer) : j \in BlankLines(buffer, FinalCr) => m <= j
        /\ FrameLen(buffer, FinalCr) = m + BreakLen(buffer, m, FinalCr) - 1
  BY <1>1, <1>4, FirstBlank
<1>6. m = index
  BY <1>1, <1>4, <1>5
<1>7. LineEnd \in Int
  BY <1>1 DEF LineEnd
<1>8. result' = FrameLen(buffer, FinalCr)
  BY <1>1, <1>2, <1>3, <1>5, <1>6, <1>7
<1>9. LoopInvariant'
  BY <1>2 DEF LInv, LoopInvariant
<1> QED BY <1>2, <1>8, <1>9 DEF LInv, Correct

(* The loop ends without a blank line only if there is none.               *)
LEMMA NonePreserves ==
  ASSUME LInv, GiveUp \/ Exhausted
  PROVE  LInv'
<1>1. /\ scanner \in {"gateway", "zai"} /\ buffer \in Seq(Bytes) /\ Len(buffer) \in Nat
      /\ index \in 1..(Len(buffer) + 1) /\ FinalCr \in {0, 1}
      /\ \A i \in 1..(index - 1) : i \notin BlankLines(buffer, FinalCr)
  BY DEF LInv, LoopInvariant, FinalCr
<1>2. UNCHANGED <<scanner, buffer, index, lineStart>> /\ result' = 0 /\ FinalCr' = FinalCr
  BY DEF GiveUp, Exhausted, FinalCr
<1>3. \A i \in 1..Len(buffer) : i \notin BlankLines(buffer, FinalCr)
  <2>1. CASE Exhausted
    BY <1>1, <2>1 DEF Exhausted
  <2>2. CASE GiveUp
    <3>1. index = Len(buffer) /\ buffer[index] = CR /\ FinalCr = 0
      BY <2>2 DEF GiveUp, UndecidedCr, FinalCr
    <3>2. ~(BreakLen(buffer, index, FinalCr) > 0)
      BY <1>1, <3>1, BreaksDiffer DEF BreakLen
    <3>3. index \in 1..Len(buffer) => index \notin BlankLines(buffer, FinalCr)
      BY <1>1, <3>2, InBlankLines
    <3> QED BY <1>1, <3>1, <3>3
  <2> QED BY <2>1, <2>2
<1>4. BlankLines(buffer, FinalCr) = {}
  BY <1>3 DEF BlankLines
<1>5. result' = FrameLen(buffer, FinalCr)
  BY <1>2, <1>4 DEF FrameLen
<1>6. LoopInvariant'
  BY <1>2 DEF LInv, LoopInvariant
<1> QED BY <1>2, <1>5, <1>6 DEF LInv, Correct

(* A byte of text.                                                         *)
LEMMA SkipPreserves ==
  ASSUME LInv, SkipByte
  PROVE  LInv'
<1>1. /\ scanner \in {"gateway", "zai"} /\ buffer \in Seq(Bytes) /\ Len(buffer) \in Nat
      /\ index \in 1..Len(buffer) /\ FinalCr \in {0, 1} /\ buffer[index] \notin {LF, CR}
  BY DEF LInv, LoopInvariant, SkipByte, InLoop, FinalCr
<1>2. /\ UNCHANGED <<scanner, buffer, lineStart, result>> /\ index' = index + 1
      /\ result = Running /\ FinalCr' = FinalCr
  BY DEF SkipByte, InLoop, FinalCr
<1>3. ~(BreakLen(buffer, index, FinalCr) > 0)
  BY <1>1 DEF BreakLen
<1>4. index \notin BlankLines(buffer, FinalCr)
  BY <1>1, <1>3, InBlankLines
<1>5. LoopInvariant'
  BY <1>1, <1>2, <1>4 DEF LInv, LoopInvariant
<1> QED BY <1>2, <1>5 DEF LInv, Correct

(* Both complete_frame_len loops return what FrameLen defines.             *)
THEOREM ScannersCorrect == Spec => []Correct
<1>1. Init => LInv
  BY BuffersAssumption DEF Init, LInv, LoopInvariant, Correct, LineStart
<1>2. LInv /\ [Next]_vars => LInv'
  <2> SUFFICES ASSUME LInv, [Next]_vars PROVE LInv'
    OBVIOUS
  <2>1. CASE UNCHANGED vars
    BY <2>1 DEF LInv, LoopInvariant, Correct, FinalCr, vars
  <2> QED BY <2>1, SkipPreserves, NonePreserves, FoundBlankPreserves, NextLinePreserves
          DEF Next, Returned
<1>3. LInv => Correct
  BY DEF LInv
<1> QED BY <1>1, <1>2, <1>3, PTL DEF Spec
=============================================================================
