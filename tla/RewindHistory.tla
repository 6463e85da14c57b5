--------------------------- MODULE RewindHistory ---------------------------
(***************************************************************************)
(* What state rewinding promises: the machine states of the last frames,   *)
(* taken back one by one; the oldest one is kept and loaded again and      *)
(* again.  A failure ends it, and nothing of the history is left.          *)
(***************************************************************************)
EXTENDS RewindData, SequencesExt

VARIABLES machine,   \* the state of the emulated machine
          active, history, reverse
vars == <<machine, active, history, reverse>>

Capacity == Slots + 1

Init ==
  /\ machine \in Snapshots
  /\ active = FALSE /\ history = <<>> /\ reverse = FALSE

Begin ==
  /\ active' = TRUE
  /\ history' = IF active THEN history ELSE <<>>
  /\ UNCHANGED <<machine, reverse>>
End ==
  /\ active' = FALSE /\ history' = <<>>
  /\ UNCHANGED <<machine, reverse>>

Record ==
  /\ active
  /\ history' = LET h == Append(history, machine)
                IN  IF Len(h) > Capacity THEN Tail(h) ELSE h
  /\ reverse' = FALSE
  /\ UNCHANGED <<machine, active>>
Rewind ==
  /\ active
  /\ IF history = <<>>
     THEN UNCHANGED <<machine, history>> /\ reverse' = FALSE
     ELSE /\ machine' = Last(history) /\ reverse' = TRUE
          /\ history' = IF Len(history) > 1 THEN Front(history) ELSE history
  /\ UNCHANGED active
Fail ==
  /\ active /\ active' = FALSE /\ history' = <<>>
  /\ machine' \in Snapshots /\ reverse' = FALSE
Idle == ~active /\ reverse' = FALSE /\ UNCHANGED <<machine, active, history>>
Emulate == machine' \in Snapshots /\ UNCHANGED <<active, history, reverse>>

Next == Begin \/ End \/ Record \/ Rewind \/ Fail \/ Idle \/ Emulate
Spec == Init /\ [][Next]_vars
=============================================================================
