-------------------------- MODULE MCCDInterface_MT --------------------------
(***************************************************************************)
(* A disc of four sectors (LBAs -1 to 2), one of them bad, one that fails  *)
(* now and then, one whose subchannel data need no read; a read beyond the *)
(* last sector, which is refused, and a hint for the same sector, which is *)
(* not.  A ring of two buffers and at most one sector of read-ahead: the   *)
(* least ring the assumptions allow, so that every sector stored may evict *)
(* a needed one, and a read-ahead that two reads in a row bring to its     *)
(* limit.                                                                  *)
(***************************************************************************)
EXTENDS CDInterface_MT

MCMinimum == -1
MCMaximum == 2
MCRequests == -1 .. 3
MCHints == {3}
MCFlaky == {0}
MCBad == {1}
MCFastPW == {2}
=============================================================================
