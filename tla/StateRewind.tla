---------------------------- MODULE StateRewind ----------------------------
(***************************************************************************)
(* state_rewind.cpp.  Only the most recent state, ss_prev, is kept as it   *)
(* is; the ones before are in the ring bcs, each as the compressed         *)
(* difference (XOR) to the one after it.  A state is the sequence of its   *)
(* bytes, of any length: what a machine saves can get longer and shorter.  *)
(***************************************************************************)
EXTENDS RewindData, SequencesExt, FiniteSets

VARIABLES machine,    \* the emulated machine
          Enabled, Active,
          bcs, bcs_pos, ss_prev,
          reverse     \* espec->NeedSoundReverse
ringVars == <<bcs, bcs_pos, ss_prev>>
vars == <<machine, Enabled, Active, ringVars, reverse>>

NoData == <<>>             \* a null pointer
Before(pos) == (pos + Slots - 1) % Slots

(* MDFN_FastMemXOR() over the bytes both have; the result replaces a.       *)
XORFilter(a, b) ==
  [i \in 1..Len(a) |-> IF i <= Len(b) THEN (a[i] + b[i]) % 2 ELSE a[i]]
Compress(d) == [compressed |-> d, uncompressed_len |-> Len(d)]
Decompress(p) == SubSeq(p.compressed, 1, p.uncompressed_len)

Init ==
  /\ machine \in Snapshots
  /\ Enabled = FALSE /\ Active = FALSE
  /\ bcs = <<>> /\ bcs_pos = 0 /\ ss_prev = NoData
  /\ reverse = FALSE

Cleanup == bcs' = <<>> /\ ss_prev' = NoData
Begin ==
  /\ Active' = TRUE
  /\ IF Active
     THEN UNCHANGED ringVars
     ELSE /\ bcs' = [i \in 0 .. Slots - 1 |-> NoData] /\ bcs_pos' = 0
          /\ UNCHANGED ss_prev
End ==
  /\ Active' = FALSE
  /\ IF Active THEN Cleanup /\ UNCHANGED bcs_pos ELSE UNCHANGED ringVars

(* MDFNI_EnableStateRewind(), or a game that is loaded or closed.           *)
Enable == Enabled' = TRUE /\ Begin /\ UNCHANGED <<machine, reverse>>
BeginFails ==
  /\ Fails /\ ~Active
  /\ Enabled' = TRUE /\ Cleanup
  /\ UNCHANGED <<machine, Active, bcs_pos, reverse>>
Disable == Enabled' = FALSE /\ End /\ UNCHANGED <<machine, reverse>>
CloseGame == Active /\ End /\ UNCHANGED <<machine, Enabled, reverse>>
LoadGame == Enabled /\ Begin /\ UNCHANGED <<machine, Enabled, reverse>>

(* Mutation: the difference is taken the other way round.                   *)
DoRecord_CurSize ==
  /\ Active
  /\ ss_prev' = machine
  /\ IF ss_prev = NoData
     THEN UNCHANGED <<bcs, bcs_pos>>
     ELSE /\ bcs' = [bcs EXCEPT ![bcs_pos] =
                       Compress(XORFilter(machine, ss_prev))]
          /\ bcs_pos' = (bcs_pos + 1) % Slots
  /\ reverse' = FALSE
  /\ UNCHANGED <<machine, Enabled, Active>>
DoRecord ==
  /\ Active
  /\ ss_prev' = machine
  /\ IF ss_prev = NoData
     THEN UNCHANGED <<bcs, bcs_pos>>
     ELSE /\ bcs' = [bcs EXCEPT ![bcs_pos] =
                       Compress(XORFilter(ss_prev, machine))]
          /\ bcs_pos' = (bcs_pos + 1) % Slots
  /\ reverse' = FALSE
  /\ UNCHANGED <<machine, Enabled, Active>>

(* Mutation: the slot that was used is not emptied.                         *)
DoRewind_KeepSlot ==
  /\ Active
  /\ reverse' = (ss_prev # NoData)
  /\ machine' = IF ss_prev = NoData THEN machine ELSE ss_prev
  /\ LET p == Before(bcs_pos)
     IN  IF ss_prev = NoData \/ bcs[p] = NoData
         THEN UNCHANGED ringVars
         ELSE /\ ss_prev' = XORFilter(Decompress(bcs[p]), ss_prev)
              /\ bcs_pos' = p /\ UNCHANGED bcs
  /\ UNCHANGED <<Enabled, Active>>
DoRewind ==
  /\ Active
  /\ reverse' = (ss_prev # NoData)
  /\ machine' = IF ss_prev = NoData THEN machine ELSE ss_prev
  /\ LET p == Before(bcs_pos)
     IN  IF ss_prev = NoData \/ bcs[p] = NoData
         THEN UNCHANGED ringVars
         ELSE /\ ss_prev' = XORFilter(Decompress(bcs[p]), ss_prev)
              /\ bcs' = [bcs EXCEPT ![p] = NoData] /\ bcs_pos' = p
  /\ UNCHANGED <<Enabled, Active>>

(* An exception on the way: a state may be loaded in part.                  *)
FrameFails ==
  /\ Fails /\ Active
  /\ End /\ reverse' = FALSE
  /\ machine' \in Snapshots
  /\ UNCHANGED Enabled
Frame ==
  \/ DoRecord \/ DoRewind \/ FrameFails
  \/ ~Active /\ reverse' = FALSE
     /\ UNCHANGED <<machine, Enabled, Active, ringVars>>

Emulate ==
  /\ machine' \in Snapshots
  /\ UNCHANGED <<Enabled, Active, ringVars, reverse>>

Next == Enable \/ BeginFails \/ Disable \/ CloseGame \/ LoadGame \/ Frame
        \/ Emulate
Spec == Init /\ [][Next]_vars
-----------------------------------------------------------------------------
Packets == [compressed : Seq({0, 1}), uncompressed_len : Nat]
TypeOK ==
  /\ machine \in Snapshots
  /\ Enabled \in BOOLEAN /\ Active \in BOOLEAN /\ reverse \in BOOLEAN
  /\ bcs_pos \in 0 .. Slots - 1
  /\ ss_prev \in Snapshots \cup {NoData}
  /\ Active => /\ DOMAIN bcs = 0 .. Slots - 1
               /\ \A i \in DOMAIN bcs : bcs[i] = NoData \/ bcs[i] \in Packets

(* The differences are the ones right before bcs_pos, without a gap, and    *)
(* there are none without a state to apply them to; what is inactive holds  *)
(* no memory.                                                               *)
SlotBack(k) == bcs[(bcs_pos + Slots - k) % Slots]   \* k = 1: the latest
Used == {k \in 1..Slots : \A j \in 1..k : SlotBack(j) # NoData}
NoGap ==
  /\ Active => LET used == {(bcs_pos + Slots - k) % Slots : k \in Used}
               IN  /\ \A i \in DOMAIN bcs : (bcs[i] # NoData) = (i \in used)
                   /\ used # {} => ss_prev # NoData
  /\ ~Active => bcs = <<>> /\ ss_prev = NoData

(* The states that can be taken back to, most recent last: every difference *)
(* gives back exactly the state it was made from, whatever the lengths.     *)
Undone[k \in 0..Slots] ==
  IF k = 0 \/ SlotBack(k) = NoData THEN ss_prev
  ELSE XORFilter(Decompress(SlotBack(k)), Undone[k - 1])
Decoded ==
  IF ~Active \/ ss_prev = NoData THEN <<>>
  ELSE Reverse([i \in 1 .. Cardinality(Used) + 1 |-> Undone[i - 1]])
History == INSTANCE RewindHistory WITH
  active <- Active, history <- Decoded
ImplementsHistory == History!Spec
=============================================================================
