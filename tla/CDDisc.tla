------------------------------- MODULE CDDisc -------------------------------
(***************************************************************************)
(* A disc image as the two disc readers see it: which sectors exist, what  *)
(* one Read_Raw_Sector() of a sector may do, and what a caller is told.    *)
(*                                                                         *)
(* A sector's 2352+96 bytes are abstracted to the set {lba}: the contents  *)
(* of the disc at lba; the zeroed buffer is the empty set.                 *)
(***************************************************************************)
EXTENDS Integers

CONSTANTS
  LBA_Read_Minimum, (* -150 in CDInterface.h                               *)
  LBA_Read_Maximum, (* 449849 in CDInterface.h                             *)
  Requests,         (* the LBAs the emulated drive asks for                *)
  BadSectors,       (* sectors the disc image can never deliver            *)
  FlakySectors,     (* sectors whose read may throw or succeed, every time *)
  FastPW            (* sectors for which Fast_Read_Raw_PW_TSRE() is true   *)

ASSUME LBAAssumption ==
  /\ LBA_Read_Minimum \in Int
  /\ LBA_Read_Maximum \in Int
  /\ LBA_Read_Minimum <= 0
  /\ 0 <= LBA_Read_Maximum

ASSUME DiscAssumption ==
  /\ Requests \subseteq Int
  /\ BadSectors \subseteq Int
  /\ FlakySectors \subseteq Int
  /\ FastPW \subseteq Int

LBAs == LBA_Read_Minimum .. LBA_Read_Maximum
NoLBA == LBA_Read_Minimum - 1

Zeroed == {}
DiscData(lba) == {lba}

(* What a call returns: whether it succeeded, and the caller's buffer.      *)
Answer(lba, ok, data) == [lba |-> lba, ok |-> ok, data |-> data]
NoAnswer == Answer(NoLBA, FALSE, Zeroed)
Answers == [lba : Int, ok : BOOLEAN, data : SUBSET Int]

(* The possible values of "the read threw" for one read of a sector.        *)
ReadErrors(lba) == IF lba \in BadSectors THEN {TRUE}
                   ELSE IF lba \in FlakySectors THEN BOOLEAN ELSE {FALSE}

(* A read that threw leaves the buffer zeroed.                              *)
Contents(lba, error) == IF error THEN Zeroed ELSE DiscData(lba)
=============================================================================
