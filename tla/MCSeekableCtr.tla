--------------------------- MODULE MCSeekableCtr ---------------------------
(***************************************************************************)
(* TLC instance of SeekableCtr: slices that start and end inside, at the   *)
(* edge of and beyond every block.                                         *)
(***************************************************************************)
EXTENDS SeekableCtr

MCCounts  == -1 .. 3 * BLOCK_SIZE + 1
MCOffsets == -1 .. Span + 1
=============================================================================
