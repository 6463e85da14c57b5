----------------------------- MODULE RewindData -----------------------------
(***************************************************************************)
(* The states that are saved for rewinding, and how many of them.          *)
(***************************************************************************)
EXTENDS Integers, Sequences

CONSTANTS Snapshots,  \* what MDFNSS_SaveSM() may write, as sequences of bits
          srwframes,  \* the setting
          Fails       \* saving, loading, memory may fail
ASSUME RewindAssumption ==
  /\ Snapshots \subseteq Seq({0, 1}) /\ <<>> \notin Snapshots
  /\ srwframes \in Nat /\ Fails \in BOOLEAN

Slots == (IF srwframes < 3 THEN 3 ELSE srwframes) - 1
=============================================================================
