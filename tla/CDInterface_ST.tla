--------------------------- MODULE CDInterface_ST ---------------------------
(***************************************************************************)
(* The single-threaded disc reader (cdrom/CDInterface_ST.cpp).  It is also *)
(* what every user of a CDInterface may rely on: a request for a sector is *)
(* answered with the disc's data for that sector, or with zeroed data and  *)
(* a failure.  CDInterface_MT is shown to implement this module.           *)
(***************************************************************************)
EXTENDS CDDisc

VARIABLES
  phase,  (* of the object: "opening", "open", "failed" or "closed"     *)
  call,   (* the LBA a ReadRawSector() in progress asks for, or NoLBA   *)
  answer  (* what the last finished call returned                       *)

vars == <<phase, call, answer>>
-----------------------------------------------------------------------------
TypeOK ==
  /\ phase \in {"opening", "open", "failed", "closed"}
  /\ call \in LBAs \cup {NoLBA}
  /\ answer \in Answers
-----------------------------------------------------------------------------
Init ==
  /\ phase = "opening"
  /\ call = NoLBA
  /\ answer = NoAnswer

(* The constructor reads and validates the table of contents; either may    *)
(* throw, and there is no object then.                                      *)
Open ==
  /\ phase = "opening"
  /\ phase' \in {"open", "failed"}
  /\ UNCHANGED <<call, answer>>

Idle == phase = "open" /\ call = NoLBA

OutOfBounds(lba) ==
  /\ lba \notin LBAs
  /\ answer' = Answer(lba, FALSE, Zeroed)
  /\ UNCHANGED <<phase, call>>

BeginRead(lba) ==
  /\ lba \in LBAs
  /\ call' = lba
  /\ answer' = NoAnswer
  /\ UNCHANGED phase

ReadRawSector(lba) == Idle /\ (OutOfBounds(lba) \/ BeginRead(lba))

ReturnSector ==
  /\ phase = "open"
  /\ call # NoLBA
  /\ \E error \in ReadErrors(call) :
       answer' = Answer(call, ~error, Contents(call, error))
  /\ call' = NoLBA
  /\ UNCHANGED phase

ReadRawSectorPWOnly(lba) ==
  /\ Idle
  /\ \/ OutOfBounds(lba)
     \/ /\ lba \in FastPW \cap LBAs
        /\ answer' = Answer(lba, TRUE, DiscData(lba))
        /\ UNCHANGED <<phase, call>>
     \/ lba \notin FastPW /\ BeginRead(lba)

Close ==
  /\ Idle
  /\ phase' = "closed"
  /\ UNCHANGED <<call, answer>>

(* A closed reader, or one that could not be opened, is gone for good.      *)
Gone == phase \in {"closed", "failed"} /\ UNCHANGED vars

Next ==
  \/ Open
  \/ \E lba \in Requests : ReadRawSector(lba) \/ ReadRawSectorPWOnly(lba)
  \/ ReturnSector
  \/ Close
  \/ Gone

Spec == Init /\ [][Next]_vars
LiveSpec == Spec /\ WF_vars(Open) /\ WF_vars(ReturnSector)
=============================================================================
