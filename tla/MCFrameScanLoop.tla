-------------------------- MODULE MCFrameScanLoop --------------------------
EXTENDS FrameScanLoop, SequencesExt
CONSTANT MaxLen   \* bound: bytes in a buffer

(* Every buffer of at most MaxLen bytes.                                   *)
AllBuffers == BoundedSeq(Bytes, MaxLen)
=============================================================================
