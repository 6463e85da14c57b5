-------------------------- MODULE StateRewind_proofs --------------------------
(***************************************************************************)
(* Theorems about StateRewind, for every number of slots and all states of *)
(* any lengths.                                                            *)
(***************************************************************************)
EXTENDS StateRewind, FiniteSetTheorems, WellFoundedInduction, TLAPS

Bits == Seq({0, 1})
Ring == 0 .. Slots - 1
SlotAt(pos, k) == (pos + Slots - k) % Slots

-----------------------------------------------------------------------------
(* There are at least two slots.                                            *)
LEMMA SlotsType == Slots \in Nat /\ Slots >= 2
  BY RewindAssumption DEF Slots

(* Positions are counted back around the ring.                              *)
LEMMA SlotAtValue ==
  ASSUME NEW pos \in Ring, NEW k \in 1..Slots
  PROVE  SlotAt(pos, k) = IF k <= pos THEN pos - k ELSE pos + Slots - k
  BY SlotsType DEF SlotAt, Ring

LEMMA SlotAtType ==
  ASSUME NEW pos \in Ring, NEW k \in 1..Slots
  PROVE  SlotAt(pos, k) \in Ring
  BY SlotsType, SlotAtValue DEF Ring

(* Every slot is one of those before the position, and only one.            *)
LEMMA SlotAtOnto ==
  ASSUME NEW pos \in Ring, NEW i \in Ring
  PROVE  \E k \in 1..Slots : SlotAt(pos, k) = i
  <1> DEFINE k == IF i < pos THEN pos - i ELSE pos + Slots - i
  <1>1. k \in 1..Slots
    BY SlotsType DEF Ring
  <1>2. SlotAt(pos, k) = IF k <= pos THEN pos - k ELSE pos + Slots - k
    BY <1>1, SlotAtValue
  <1>3. SlotAt(pos, k) = i
    BY <1>2, SlotsType DEF Ring
  <1> QED BY <1>1, <1>3
LEMMA SlotAtOnce ==
  ASSUME NEW pos \in Ring, NEW j \in 1..Slots, NEW k \in 1..Slots,
         SlotAt(pos, j) = SlotAt(pos, k)
  PROVE  j = k
  BY SlotsType, SlotAtValue DEF Ring

(* The position moves to the next slot; what was k slots back is now k + 1  *)
(* back, and the slot that was the position is the latest.                  *)
LEMMA NextSlot ==
  ASSUME NEW pos \in Ring
  PROVE  /\ (pos + 1) % Slots \in Ring
         /\ (pos + 1) % Slots = IF pos + 1 = Slots THEN 0 ELSE pos + 1
  BY SlotsType DEF Ring
LEMMA SlotAtNext ==
  ASSUME NEW pos \in Ring, NEW next \in Ring,
         next = IF pos + 1 = Slots THEN 0 ELSE pos + 1
  PROVE  /\ SlotAt(next, 1) = pos
         /\ \A k \in 2..Slots : /\ SlotAt(next, k) = SlotAt(pos, k - 1)
                                /\ SlotAt(next, k) # pos
  <1>1. SlotAt(next, 1) = pos
    BY SlotsType, SlotAtValue DEF Ring
  <1>2. ASSUME NEW k \in 2..Slots
        PROVE  SlotAt(next, k) = SlotAt(pos, k - 1) /\ SlotAt(next, k) # pos
    <2>1. k \in 1..Slots /\ k - 1 \in 1..Slots
      BY SlotsType
    <2>2. SlotAt(next, k) = IF k <= next THEN next - k ELSE next + Slots - k
      BY <2>1, SlotAtValue
    <2>3. SlotAt(pos, k - 1) = IF k - 1 <= pos THEN pos - (k - 1)
                               ELSE pos + Slots - (k - 1)
      BY <2>1, SlotAtValue
    <2> QED BY <2>2, <2>3, SlotsType DEF Ring
  <1> QED BY <1>1, <1>2
-----------------------------------------------------------------------------
(* The XOR filter keeps the length of the first state and undoes itself,    *)
(* whichever of the two is longer.                                          *)
LEMMA XORType ==
  ASSUME NEW a \in Bits, NEW b \in Bits
  PROVE  XORFilter(a, b) \in Bits /\ Len(XORFilter(a, b)) = Len(a)
  <1>1. \A i \in 1..Len(a) :
          (IF i <= Len(b) THEN (a[i] + b[i]) % 2 ELSE a[i]) \in {0, 1}
    <2> TAKE i \in 1..Len(a)
    <2>1. a[i] \in {0, 1}
      BY DEF Bits
    <2>2. i <= Len(b) => b[i] \in {0, 1}
      BY DEF Bits
    <2> QED BY <2>1, <2>2
  <1> QED BY <1>1 DEF XORFilter, Bits
LEMMA XORUndone ==
  ASSUME NEW a \in Bits, NEW b \in Bits
  PROVE  XORFilter(XORFilter(a, b), b) = a
  <1> DEFINE x == XORFilter(a, b)
  <1>1. x \in Bits /\ Len(x) = Len(a)
    BY XORType
  <1>2. \A i \in 1..Len(a) :
          x[i] = IF i <= Len(b) THEN (a[i] + b[i]) % 2 ELSE a[i]
    BY DEF XORFilter
  <1>3. \A i \in 1..Len(a) : XORFilter(x, b)[i] = a[i]
    <2> TAKE i \in 1..Len(a)
    <2>1. a[i] \in {0, 1} /\ (i <= Len(b) => b[i] \in {0, 1})
      BY DEF Bits
    <2>2. XORFilter(x, b)[i] = IF i <= Len(b) THEN (x[i] + b[i]) % 2 ELSE x[i]
      BY <1>1 DEF XORFilter
    <2>3. CASE i <= Len(b)
      BY <2>1, <2>2, <2>3, <1>2
    <2>4. CASE ~(i <= Len(b))
      BY <2>2, <2>4, <1>2
    <2> QED BY <2>3, <2>4
  <1>4. XORFilter(x, b) \in Bits /\ Len(XORFilter(x, b)) = Len(a)
    BY <1>1, XORType
  <1> QED BY <1>3, <1>4 DEF Bits

(* A packet is what was packed, and never a null pointer.                   *)
LEMMA PacketType ==
  ASSUME NEW d \in Bits
  PROVE  Compress(d) \in Packets /\ Compress(d) # NoData
  <1>1. Len(d) \in Nat
    BY DEF Bits
  <1>2. Compress(d) \in Packets
    BY <1>1 DEF Compress, Packets, Bits
  <1>3. DOMAIN Compress(d) = {"compressed", "uncompressed_len"}
    BY DEF Compress
  <1>4. DOMAIN NoData = {}
    BY DEF NoData
  <1> QED BY <1>2, <1>3, <1>4
LEMMA PacketUndone ==
  ASSUME NEW d \in Bits
  PROVE  Decompress(Compress(d)) = d
  <1>1. Decompress(Compress(d)) = SubSeq(d, 1, Len(d))
    BY DEF Compress, Decompress
  <1> QED BY <1>1 DEF Bits

(* What is decompressed and filtered is the state that was recorded.        *)
THEOREM RecordedComesBack ==
  ASSUME NEW a \in Snapshots, NEW b \in Snapshots
  PROVE  XORFilter(Decompress(Compress(XORFilter(a, b))), b) = a
  <1>1. a \in Bits /\ b \in Bits
    BY RewindAssumption DEF Bits
  <1>2. XORFilter(a, b) \in Bits
    BY <1>1, XORType
  <1> QED BY <1>1, <1>2, PacketUndone, XORUndone
-----------------------------------------------------------------------------
(* The ring stands for the machine states h[0], h[1], ..., h[n], newest     *)
(* first: ss_prev is the newest, the slot k back holds the difference of    *)
(* h[k] to h[k - 1], and the slots further back are empty.                  *)
StandsFor(n, h) ==
  /\ n \in 0..Slots
  /\ h \in [0..n -> Snapshots]
  /\ ss_prev = h[0]
  /\ \A k \in 1..n : bcs[SlotAt(bcs_pos, k)] = Compress(XORFilter(h[k], h[k - 1]))
  /\ \A k \in n + 1 .. Slots : bcs[SlotAt(bcs_pos, k)] = NoData

RingOK == bcs \in [Ring -> Packets \cup {NoData}]
HistoryOK ==
  IF ss_prev = NoData THEN \A i \in Ring : bcs[i] = NoData
                      ELSE \E n, h : StandsFor(n, h)
IInv ==
  /\ machine \in Snapshots
  /\ Enabled \in BOOLEAN /\ Active \in BOOLEAN /\ reverse \in BOOLEAN
  /\ bcs_pos \in Ring
  /\ Active => RingOK /\ HistoryOK
  /\ ~Active => bcs = <<>> /\ ss_prev = NoData

LEMMA SnapshotType == \A s \in Snapshots : s \in Bits /\ s # NoData
  BY RewindAssumption DEF Bits, NoData

(* Of recorded states the differences are packets.                          *)
LEMMA DifferenceType ==
  ASSUME NEW a \in Snapshots, NEW b \in Snapshots
  PROVE  /\ Compress(XORFilter(a, b)) \in Packets
         /\ Compress(XORFilter(a, b)) # NoData
  BY SnapshotType, XORType, PacketType

LEMMA InitInv == Init => IInv
  <1> SUFFICES ASSUME Init PROVE IInv
    OBVIOUS
  <1>1. machine \in Snapshots /\ bcs = <<>> /\ ss_prev = NoData
    BY DEF Init
  <1>2. Enabled \in BOOLEAN /\ Active \in BOOLEAN /\ reverse \in BOOLEAN /\ ~Active
    BY DEF Init
  <1>3. bcs_pos \in Ring
    BY SlotsType DEF Init, Ring
  <1> QED BY <1>1, <1>2, <1>3 DEF IInv

(* Beginning empties the ring, ending and failing give it up.               *)
LEMMA BeginInv ==
  ASSUME IInv, Begin, Enabled' \in BOOLEAN, UNCHANGED <<machine, reverse>>
  PROVE  IInv'
  <1>1. CASE Active
    BY <1>1 DEF IInv, Begin, ringVars, RingOK, HistoryOK, StandsFor
  <1>2. CASE ~Active
    <2>1. bcs' \in [Ring -> Packets \cup {NoData}] /\ bcs_pos' \in Ring
      BY <1>2, SlotsType DEF Begin, Ring
    <2>2. ss_prev' = NoData /\ \A i \in Ring : bcs'[i] = NoData
      BY <1>2 DEF Begin, IInv, Ring
    <2> QED BY <1>2, <2>1, <2>2 DEF IInv, Begin, RingOK, HistoryOK
  <1> QED BY <1>1, <1>2 DEF IInv
LEMMA EndInv ==
  ASSUME IInv, End, Enabled' \in BOOLEAN, machine' \in Snapshots,
         reverse' \in BOOLEAN
  PROVE  IInv'
  BY DEF IInv, End, Cleanup, ringVars, NoData
LEMMA CleanupInv ==
  ASSUME IInv, BeginFails
  PROVE  IInv'
  BY DEF IInv, BeginFails, Cleanup, NoData

(* What the ring stands for does not depend on the other variables.         *)
LEMMA KeptInv ==
  ASSUME IInv, machine' \in Snapshots, reverse' \in BOOLEAN,
         UNCHANGED <<Enabled, Active, ringVars>>
  PROVE  IInv'
  BY DEF IInv, ringVars, RingOK, HistoryOK, StandsFor

(* Recording moves every state one slot back; the oldest of a full ring is  *)
(* no longer stood for.                                                     *)
Longer(n) == IF n < Slots THEN n + 1 ELSE Slots
Recorded(n, h, newest) == [k \in 0..n |-> IF k = 0 THEN newest ELSE h[k - 1]]
LEMMA RecordFirst ==
  ASSUME IInv, DoRecord, ss_prev = NoData, NEW newest, newest = machine
  PROVE  RingOK' /\ StandsFor(0, [k \in 0..0 |-> newest])'
  <1> DEFINE h == [k \in 0..0 |-> newest]
  <1>1. bcs' = bcs /\ bcs_pos' = bcs_pos /\ ss_prev' = machine /\ machine \in Snapshots
    BY DEF DoRecord, IInv
  <1>2. \A i \in Ring : bcs[i] = NoData
    BY DEF DoRecord, IInv, HistoryOK
  <1>3. \A k \in 1..Slots : bcs'[SlotAt(bcs_pos', k)] = NoData
    BY <1>1, <1>2, SlotAtType DEF IInv
  <1>4. h \in [0..0 -> Snapshots] /\ ss_prev' = h[0]
    BY <1>1
  <1>5. StandsFor(0, h)'
    BY <1>3, <1>4, SlotsType DEF StandsFor
  <1>6. RingOK'
    BY <1>1 DEF DoRecord, IInv, RingOK
  <1> QED BY <1>5, <1>6

LEMMA RecordMore ==
  ASSUME IInv, DoRecord, ss_prev # NoData, NEW newest, newest = machine,
         NEW n, NEW h, StandsFor(n, h)
  PROVE  RingOK' /\ StandsFor(Longer(n), Recorded(Longer(n), h, newest))'
  <1> DEFINE m == Longer(n)
             g == Recorded(m, h, newest)
  <1>1. Active /\ ss_prev' = machine /\ machine \in Snapshots
    BY DEF DoRecord, IInv
  <1>2. n \in 0..Slots /\ h \in [0..n -> Snapshots] /\ ss_prev = h[0]
    BY DEF StandsFor
  <1>3. m \in 1..Slots /\ m <= n + 1 /\ (m = n + 1 \/ m = Slots)
    BY <1>2, SlotsType DEF Longer
  <1> HIDE DEF m
  <1>4. /\ g \in [0..m -> Snapshots] /\ g[0] = newest
        /\ \A k \in 1..m : g[k] = h[k - 1]
    <2>1. ASSUME NEW k \in 0..m, k # 0
          PROVE  h[k - 1] \in Snapshots
      BY <2>1, <1>2, <1>3, SlotsType
    <2> QED BY <2>1, <1>1, <1>3, SlotsType DEF Recorded
  <1> HIDE DEF g
  <1>5. bcs_pos \in Ring /\ bcs \in [Ring -> Packets \cup {NoData}]
    BY <1>1 DEF IInv, RingOK
  <1>6. /\ bcs_pos' \in Ring
        /\ bcs_pos' = IF bcs_pos + 1 = Slots THEN 0 ELSE bcs_pos + 1
    BY <1>5, NextSlot DEF DoRecord
  <1>7. bcs' = [bcs EXCEPT ![bcs_pos] = Compress(XORFilter(h[0], newest))]
    BY <1>2 DEF DoRecord
  <1>8. Compress(XORFilter(h[0], newest)) \in Packets
    BY <1>1, <1>2, DifferenceType, SlotsType
  <1>9. RingOK'
    BY <1>5, <1>7, <1>8 DEF RingOK
  <1>10. /\ SlotAt(bcs_pos', 1) = bcs_pos
         /\ \A k \in 2..Slots : /\ SlotAt(bcs_pos', k) = SlotAt(bcs_pos, k - 1)
                                /\ SlotAt(bcs_pos', k) # bcs_pos
    BY <1>5, <1>6, SlotAtNext
  <1>11. \A k \in 2..Slots : bcs'[SlotAt(bcs_pos', k)] = bcs[SlotAt(bcs_pos, k - 1)]
    <2> TAKE k \in 2..Slots
    <2>1. SlotAt(bcs_pos, k - 1) \in Ring
      BY <1>5, SlotAtType, SlotsType
    <2> QED BY <1>5, <1>7, <1>10, <2>1
  <1>12. ASSUME NEW k \in 1..m
         PROVE  bcs'[SlotAt(bcs_pos', k)] = Compress(XORFilter(g[k], g[k - 1]))
    <2>1. CASE k = 1
      BY <2>1, <1>3, <1>4, <1>5, <1>7, <1>10
    <2>2. CASE k # 1
      <3>1. k \in 2..Slots /\ k - 1 \in 1..n /\ k - 1 \in 1..m
        BY <2>2, <1>2, <1>3, SlotsType
      <3>2. g[k] = h[k - 1] /\ g[k - 1] = h[(k - 1) - 1]
        BY <3>1, <1>4
      <3>3. bcs[SlotAt(bcs_pos, k - 1)]
            = Compress(XORFilter(h[k - 1], h[(k - 1) - 1]))
        BY <3>1 DEF StandsFor
      <3> QED BY <3>1, <3>2, <3>3, <1>11
    <2> QED BY <2>1, <2>2
  <1>13. ASSUME NEW k \in m + 1 .. Slots
         PROVE  bcs'[SlotAt(bcs_pos', k)] = NoData
    <2>1. k \in 2..Slots /\ k - 1 \in n + 1 .. Slots
      BY <1>2, <1>3, SlotsType
    <2>2. bcs[SlotAt(bcs_pos, k - 1)] = NoData
      BY <2>1 DEF StandsFor
    <2> QED BY <2>1, <2>2, <1>11
  <1>14. StandsFor(m, g)'
    BY <1>1, <1>3, <1>4, <1>12, <1>13 DEF StandsFor
  <1> QED BY <1>9, <1>14 DEF m, g

LEMMA RecordInv ==
  ASSUME IInv, DoRecord
  PROVE  IInv'
  <1> PICK newest : newest = machine
    OBVIOUS
  <1>1. Active /\ ss_prev' # NoData
    BY SnapshotType DEF DoRecord, IInv
  <1>2. RingOK' /\ \E n, h : StandsFor(n, h)'
    <2>1. CASE ss_prev = NoData
      BY <2>1, RecordFirst
    <2>2. CASE ss_prev # NoData
      <3>1. PICK n, h : StandsFor(n, h)
        BY <1>1, <2>2 DEF IInv, HistoryOK
      <3> QED BY <2>2, <3>1, RecordMore
    <2> QED BY <2>1, <2>2
  <1>3. bcs_pos' \in Ring
    BY NextSlot DEF IInv, DoRecord
  <1> QED BY <1>1, <1>2, <1>3 DEF IInv, DoRecord, HistoryOK

(* Rewinding takes the newest state off, as long as there is another.       *)
Older(n, h) == [k \in 0..n |-> h[k + 1]]
LEMMA RewindMore ==
  ASSUME IInv, DoRewind, ss_prev # NoData, NEW n, NEW h, StandsFor(n, h), n # 0
  PROVE  /\ bcs_pos' \in Ring /\ RingOK' /\ ss_prev' # NoData
         /\ StandsFor(n - 1, Older(n - 1, h))'
  <1> DEFINE p == Before(bcs_pos)
             g == Older(n - 1, h)
  <1>1. Active /\ RingOK /\ bcs_pos \in Ring
    BY DEF IInv, DoRewind
  <1>2. n \in 1..Slots /\ h \in [0..n -> Snapshots] /\ ss_prev = h[0]
    BY SlotsType DEF StandsFor
  <1>3. p = SlotAt(bcs_pos, 1) /\ p \in Ring
    <2>1. 1 \in 1..Slots
      BY SlotsType
    <2>2. p = SlotAt(bcs_pos, 1)
      BY DEF Before, SlotAt
    <2> HIDE DEF p
    <2> QED BY <1>1, <2>1, <2>2, SlotAtType
  <1>4. bcs[p] = Compress(XORFilter(h[1], h[0])) /\ bcs[p] # NoData
    <2> HIDE DEF p
    <2>1. bcs[p] = Compress(XORFilter(h[1], h[1 - 1])) /\ 1 - 1 = 0
      BY <1>2, <1>3 DEF StandsFor
    <2>2. h[1] \in Snapshots /\ h[0] \in Snapshots
      BY <1>2, SlotsType
    <2> QED BY <2>1, <2>2, DifferenceType
  <1>5. /\ ss_prev' = XORFilter(Decompress(bcs[p]), ss_prev)
        /\ bcs' = [bcs EXCEPT ![p] = NoData] /\ bcs_pos' = p
    BY <1>4 DEF DoRewind
  <1> HIDE DEF p
  <1>6. g \in [0 .. n - 1 -> Snapshots] /\ \A k \in 0 .. n - 1 : g[k] = h[k + 1]
    BY <1>2, SlotsType DEF Older
  <1> HIDE DEF g
  <1>7. ss_prev' = g[0] /\ g[0] \in Snapshots
    <2>1. h[1] \in Snapshots /\ h[0] \in Snapshots /\ g[0] = h[1]
      BY <1>2, <1>6
    <2> QED BY <2>1, <1>2, <1>4, <1>5, RecordedComesBack
  <1>8. bcs_pos = IF p + 1 = Slots THEN 0 ELSE p + 1
    <2>1. p = IF 1 <= bcs_pos THEN bcs_pos - 1 ELSE bcs_pos + Slots - 1
      BY <1>1, <1>3, SlotAtValue, SlotsType
    <2> QED BY <1>1, <2>1, SlotsType DEF Ring
  <1>9. \A k \in 2..Slots : /\ SlotAt(bcs_pos, k) = SlotAt(p, k - 1)
                            /\ SlotAt(bcs_pos, k) # p
    BY <1>1, <1>3, <1>8, SlotAtNext
  <1>10. \A k \in 1 .. Slots - 1 : bcs'[SlotAt(p, k)] = bcs[SlotAt(bcs_pos, k + 1)]
    <2> TAKE k \in 1 .. Slots - 1
    <2>1. k + 1 \in 2..Slots /\ k + 1 \in 1..Slots /\ (k + 1) - 1 = k
      BY SlotsType
    <2>2. SlotAt(bcs_pos, k + 1) \in Ring
      BY <1>1, <2>1, SlotAtType
    <2>3. SlotAt(bcs_pos, k + 1) = SlotAt(p, k) /\ SlotAt(bcs_pos, k + 1) # p
      BY <1>9, <2>1
    <2> QED BY <1>1, <1>5, <2>2, <2>3 DEF RingOK
  <1>11. bcs'[SlotAt(p, Slots)] = NoData
    <2>1. SlotAt(p, Slots) = p
      BY <1>3, SlotAtValue, SlotsType DEF Ring
    <2> QED BY <1>1, <1>3, <1>5, <2>1 DEF RingOK
  <1>12. ASSUME NEW k \in 1 .. n - 1
         PROVE  bcs'[SlotAt(p, k)] = Compress(XORFilter(g[k], g[k - 1]))
    <2>1. k \in 1 .. Slots - 1 /\ k + 1 \in 1..n
      BY <1>2, SlotsType
    <2>2. g[k] = h[k + 1] /\ g[k - 1] = h[(k + 1) - 1]
      BY <1>2, <1>6
    <2>3. bcs[SlotAt(bcs_pos, k + 1)] = Compress(XORFilter(h[k + 1], h[(k + 1) - 1]))
      BY <2>1 DEF StandsFor
    <2> QED BY <2>1, <2>2, <2>3, <1>10
  <1>13. ASSUME NEW k \in (n - 1) + 1 .. Slots
         PROVE  bcs'[SlotAt(p, k)] = NoData
    <2>1. CASE k = Slots
      BY <2>1, <1>11
    <2>2. CASE k # Slots
      <3>1. k \in 1 .. Slots - 1 /\ k + 1 \in n + 1 .. Slots
        BY <2>2, <1>2, SlotsType
      <3>2. bcs[SlotAt(bcs_pos, k + 1)] = NoData
        BY <3>1 DEF StandsFor
      <3> QED BY <3>1, <3>2, <1>10
    <2> QED BY <2>1, <2>2
  <1>14. StandsFor(n - 1, g)'
    <2>1. n - 1 \in 0..Slots
      BY <1>2, SlotsType
    <2> QED BY <2>1, <1>5, <1>6, <1>7, <1>12, <1>13 DEF StandsFor
  <1>15. RingOK'
    BY <1>1, <1>3, <1>5 DEF RingOK
  <1> QED BY <1>3, <1>5, <1>7, <1>14, <1>15, SnapshotType DEF g

(* The state a rewinding begins with is loaded; nothing changes in the ring *)
(* when it is the only one, or there is none.                               *)
LEMMA RewindLast ==
  ASSUME IInv, DoRewind,
         ss_prev = NoData \/ \E h : StandsFor(0, h)
  PROVE  UNCHANGED <<Enabled, Active, ringVars>>
  <1>1. CASE ss_prev = NoData
    BY <1>1 DEF DoRewind
  <1>2. ASSUME NEW h, StandsFor(0, h) PROVE bcs[Before(bcs_pos)] = NoData
    <2>1. bcs[SlotAt(bcs_pos, 1)] = NoData
      BY <1>2, SlotsType DEF StandsFor
    <2> QED BY <2>1 DEF Before, SlotAt
  <1> QED BY <1>1, <1>2 DEF DoRewind
LEMMA RewindInv ==
  ASSUME IInv, DoRewind
  PROVE  IInv'
  <1>1. Active /\ HistoryOK /\ reverse' \in BOOLEAN
    BY DEF IInv, DoRewind
  <1>2. CASE ss_prev = NoData
    <2>1. machine' = machine
      BY <1>2 DEF DoRewind
    <2> QED BY <1>1, <1>2, <2>1, RewindLast, KeptInv DEF IInv
  <1>3. CASE ss_prev # NoData
    <2>1. PICK n, h : StandsFor(n, h)
      BY <1>1, <1>3 DEF HistoryOK
    <2>2. machine' \in Snapshots
      BY <1>3, <2>1, SlotsType DEF DoRewind, StandsFor
    <2>3. CASE n = 0
      BY <1>1, <2>1, <2>2, <2>3, RewindLast, KeptInv
    <2>4. CASE n # 0
      <3>1. /\ bcs_pos' \in Ring /\ RingOK' /\ ss_prev' # NoData
            /\ StandsFor(n - 1, Older(n - 1, h))'
        BY <1>3, <2>1, <2>4, RewindMore
      <3> QED BY <1>1, <2>2, <3>1 DEF IInv, DoRewind, HistoryOK
    <2> QED BY <2>3, <2>4
  <1> QED BY <1>2, <1>3

LEMMA NextInv == IInv /\ [Next]_vars => IInv'
  <1> SUFFICES ASSUME IInv, [Next]_vars PROVE IInv'
    OBVIOUS
  <1>1. CASE Enable
    BY <1>1, BeginInv DEF Enable
  <1>2. CASE BeginFails
    BY <1>2, CleanupInv
  <1>3. CASE Disable
    BY <1>3, EndInv DEF Disable, IInv
  <1>4. CASE CloseGame
    BY <1>4, EndInv DEF CloseGame, IInv
  <1>5. CASE LoadGame
    BY <1>5, BeginInv DEF LoadGame, IInv
  <1>6. CASE Frame
    <2>1. CASE DoRecord
      BY <2>1, RecordInv
    <2>2. CASE DoRewind
      BY <2>2, RewindInv
    <2>3. CASE FrameFails
      BY <2>3, EndInv DEF FrameFails, IInv
    <2>4. CASE /\ ~Active /\ reverse' = FALSE
               /\ UNCHANGED <<machine, Enabled, Active, ringVars>>
      BY <2>4, KeptInv DEF IInv
    <2> QED BY <1>6, <2>1, <2>2, <2>3, <2>4 DEF Frame
  <1>7. CASE Emulate
    BY <1>7, KeptInv DEF Emulate, IInv
  <1>8. CASE UNCHANGED vars
    BY <1>8, KeptInv DEF vars, IInv
  <1> QED BY <1>1, <1>2, <1>3, <1>4, <1>5, <1>6, <1>7, <1>8 DEF Next

LEMMA Invariance == Spec => []IInv
  BY InitInv, NextInv, PTL DEF Spec
-----------------------------------------------------------------------------
(* The types; in particular, whatever is rewound to is a state the machine  *)
(* was in.                                                                  *)
LEMMA TypeInv == IInv => TypeOK
  <1> SUFFICES ASSUME IInv PROVE TypeOK
    OBVIOUS
  <1>1. ss_prev \in Snapshots \cup {NoData}
    <2>1. CASE ss_prev = NoData
      BY <2>1
    <2>2. CASE ss_prev # NoData
      <3>1. PICK n, h : StandsFor(n, h)
        BY <2>2 DEF IInv, HistoryOK
      <3> QED BY <3>1, SlotsType DEF StandsFor
    <2> QED BY <2>1, <2>2
  <1>2. Active => /\ DOMAIN bcs = 0 .. Slots - 1
                  /\ \A i \in DOMAIN bcs : bcs[i] = NoData \/ bcs[i] \in Packets
    BY DEF IInv, RingOK, Ring
  <1> QED BY <1>1, <1>2 DEF TypeOK, IInv, Ring
THEOREM TypeCorrect == Spec => []TypeOK
  BY Invariance, TypeInv, PTL

(* The differences kept are those right before the position, and none is    *)
(* kept without a state it can be applied to.                               *)
LEMMA NoGapInv == IInv => NoGap
  <1> SUFFICES ASSUME IInv PROVE NoGap
    OBVIOUS
  <1> DEFINE used == {SlotAt(bcs_pos, k) : k \in Used}
  <1>1. ASSUME Active
        PROVE  /\ \A i \in DOMAIN bcs : (bcs[i] # NoData) <=> (i \in used)
               /\ used # {} => ss_prev # NoData
    <2>1. RingOK /\ HistoryOK /\ bcs_pos \in Ring
      BY <1>1 DEF IInv
    <2>2. CASE ss_prev = NoData
      <3>1. \A i \in Ring : bcs[i] = NoData
        BY <2>1, <2>2 DEF HistoryOK
      <3>2. \A k \in 1..Slots : bcs[SlotAt(bcs_pos, k)] = NoData
        BY <2>1, <3>1, SlotAtType
      <3>3. Used = {}
        BY <3>2, SlotsType DEF Used, SlotBack, SlotAt
      <3> QED BY <2>1, <3>1, <3>3 DEF RingOK
    <2>3. CASE ss_prev # NoData
      <3>1. PICK n, h : StandsFor(n, h)
        BY <2>1, <2>3 DEF HistoryOK
      <3>2. n \in 0..Slots /\ h \in [0..n -> Snapshots]
        BY <3>1 DEF StandsFor
      <3>3. \A k \in 1..n : bcs[SlotAt(bcs_pos, k)] # NoData
        <4> TAKE k \in 1..n
        <4>1. h[k] \in Snapshots /\ h[k - 1] \in Snapshots
          BY <3>2
        <4> QED BY <3>1, <4>1, DifferenceType DEF StandsFor
      <3>4. \A k \in n + 1 .. Slots : bcs[SlotAt(bcs_pos, k)] = NoData
        BY <3>1 DEF StandsFor
      <3>5. Used = 1..n
        <4>1. ASSUME NEW k \in Used PROVE k \in 1..n
          <5>1. k \in 1..Slots /\ bcs[SlotAt(bcs_pos, k)] # NoData
            BY SlotsType DEF Used, SlotBack, SlotAt
          <5> QED BY <5>1, <3>2, <3>4
        <4>2. ASSUME NEW k \in 1..n PROVE k \in Used
          <5>1. k \in 1..Slots /\ \A j \in 1..k : j \in 1..n
            BY <3>2, SlotsType
          <5>2. \A j \in 1..k : bcs[SlotAt(bcs_pos, j)] # NoData
            BY <5>1, <3>3
          <5> QED BY <5>1, <5>2 DEF Used, SlotBack, SlotAt
        <4> QED BY <4>1, <4>2
      <3>6. ASSUME NEW i \in Ring
            PROVE  (bcs[i] # NoData) <=> (i \in used)
        <4>1. PICK k \in 1..Slots : SlotAt(bcs_pos, k) = i
          BY <2>1, SlotAtOnto
        <4>2. CASE k \in 1..n
          BY <3>3, <3>5, <4>1, <4>2
        <4>3. CASE k \notin 1..n
          <5>1. k \in n + 1 .. Slots
            BY <3>2, <4>3
          <5>2. bcs[i] = NoData
            BY <3>4, <4>1, <5>1
          <5>3. i \notin used
            <6> SUFFICES ASSUME NEW j \in 1..n, SlotAt(bcs_pos, j) = i
                         PROVE  FALSE
              BY <3>5
            <6> QED BY <3>3, <5>2
          <5> QED BY <5>2, <5>3
        <4> QED BY <4>2, <4>3
      <3> QED BY <2>1, <2>3, <3>6 DEF RingOK
    <2> QED BY <2>2, <2>3
  <1>2. used = {(bcs_pos + Slots - k) % Slots : k \in Used}
    BY DEF SlotAt
  <1>3. ~Active => bcs = <<>> /\ ss_prev = NoData
    BY DEF IInv
  <1> HIDE DEF used
  <1> QED BY <1>1, <1>2, <1>3 DEF NoGap
THEOREM NothingMissing == Spec => []NoGap
  BY Invariance, NoGapInv, PTL
-----------------------------------------------------------------------------
(* A set of natural numbers has a least one; with this, what a recursive    *)
(* function is at every k follows from what it is at k - 1.                 *)
LEMMA LeastNatural ==
  ASSUME NEW T, T \subseteq Nat, T # {}
  PROVE  \E x \in T : \A y \in T : x <= y
  <1> DEFINE R == {ss \in Nat \X Nat : ss[1] < ss[2]}
  <1>1. IsWellFoundedOn(R, Nat)
    BY NatLessThanWellFounded DEF OpToRel
  <1>2. PICK x \in T : \A y \in T : ~ (<<y, x>> \in R)
    <2> HIDE DEF R
    <2> QED BY <1>1, WFMin
  <1>3. \A y \in T : ~(y < x)
    BY <1>2
  <1> QED BY <1>3

(* The differences are applied in turn, and give the states stood for.      *)
LEMMA UndoneValue ==
  ASSUME NEW n, NEW h, StandsFor(n, h)
  PROVE  \A k \in 0..n : Undone[k] = h[k]
  <1> DEFINE Step(g) == [k \in 0..Slots |->
                IF k = 0 \/ SlotBack(k) = NoData THEN ss_prev
                ELSE XORFilter(Decompress(SlotBack(k)), g[k - 1])]
             g == [k \in 0..Slots |-> IF k <= n THEN h[k] ELSE ss_prev]
  <1>1. n \in 0..Slots /\ h \in [0..n -> Snapshots] /\ ss_prev = h[0]
    BY DEF StandsFor
  <1>2. \A k \in 1..n :
          SlotBack(k) # NoData
          /\ XORFilter(Decompress(SlotBack(k)), h[k - 1]) = h[k]
    <2> TAKE k \in 1..n
    <2>1. h[k] \in Snapshots /\ h[k - 1] \in Snapshots
      BY <1>1, SlotsType
    <2>2. SlotBack(k) = Compress(XORFilter(h[k], h[k - 1]))
      BY DEF StandsFor, SlotBack, SlotAt
    <2> QED BY <2>1, <2>2, DifferenceType, RecordedComesBack
  <1>3. \A k \in n + 1 .. Slots : SlotBack(k) = NoData
    BY DEF StandsFor, SlotBack, SlotAt
  <1>4. g = Step(g)
    <2>1. ASSUME NEW k \in 0..Slots
          PROVE  g[k] = IF k = 0 \/ SlotBack(k) = NoData THEN ss_prev
                        ELSE XORFilter(Decompress(SlotBack(k)), g[k - 1])
      <3>1. CASE k = 0
        BY <3>1, <1>1
      <3>2. CASE k \in 1..n
        <4>1. g[k] = h[k] /\ g[k - 1] = h[k - 1]
          BY <3>2, <1>1, SlotsType
        <4> QED BY <3>2, <4>1, <1>2
      <3>3. CASE k \in n + 1 .. Slots
        BY <3>3, <1>1, <1>3, SlotsType
      <3> QED BY <3>1, <3>2, <3>3, <1>1, SlotsType
    <2>2. g = [k \in 0..Slots |-> g[k]]
      OBVIOUS
    <2> HIDE DEF g
    <2> QED BY <2>1, <2>2
  <1> HIDE DEF g
  <1>5. Undone = Step(Undone)
    BY <1>4, Zenon DEF Undone
  <1>6. /\ Undone[0] = h[0]
        /\ \A k \in 1..n : Undone[k] = XORFilter(Decompress(SlotBack(k)), Undone[k - 1])
    <2>1. \A k \in 0..Slots :
            Undone[k] = IF k = 0 \/ SlotBack(k) = NoData THEN ss_prev
                        ELSE XORFilter(Decompress(SlotBack(k)), Undone[k - 1])
      BY <1>5, Zenon
    <2> QED BY <2>1, <1>1, <1>2, SlotsType
  <1> DEFINE Wrong == {k \in 0..n : Undone[k] # h[k]}
  <1>7. Wrong = {}
    <2> SUFFICES ASSUME Wrong # {} PROVE FALSE
      OBVIOUS
    <2>1. PICK k \in Wrong : \A j \in Wrong : k <= j
      <3>1. Wrong \subseteq Nat
        BY <1>1, SlotsType
      <3> HIDE DEF Wrong
      <3> QED BY <3>1, LeastNatural
    <2>2. k \in 1..n
      BY <1>1, <1>6, SlotsType
    <2>3. k - 1 \in 0..n /\ k - 1 \notin Wrong
      BY <2>1, <2>2, <1>1, SlotsType
    <2>4. Undone[k - 1] = h[k - 1]
      BY <2>3
    <2> QED BY <1>2, <1>6, <2>2, <2>4
  <1> QED BY <1>7

(* The list of RewindHistory, with the newest state last.                   *)
Listed(n, h) == [i \in 1 .. n + 1 |-> h[n + 1 - i]]
LEMMA DecodedValue ==
  ASSUME NEW n, NEW h, StandsFor(n, h), Active
  PROVE  Decoded = Listed(n, h)
  <1>1. n \in 0..Slots /\ h \in [0..n -> Snapshots] /\ ss_prev = h[0]
    BY DEF StandsFor
  <1>2. ss_prev # NoData
    BY <1>1, SnapshotType, SlotsType
  <1>3. Used = 1..n
    <2>1. \A k \in 1..n : SlotBack(k) # NoData
      <3> TAKE k \in 1..n
      <3>1. h[k] \in Snapshots /\ h[k - 1] \in Snapshots
        BY <1>1, SlotsType
      <3> QED BY <3>1, DifferenceType DEF StandsFor, SlotBack, SlotAt
    <2>2. \A k \in n + 1 .. Slots : SlotBack(k) = NoData
      BY DEF StandsFor, SlotBack, SlotAt
    <2> HIDE DEF SlotBack
    <2>3. ASSUME NEW k \in Used PROVE k \in 1..n
      <3>1. k \in 1..Slots /\ SlotBack(k) # NoData
        BY SlotsType DEF Used
      <3> QED BY <3>1, <2>2, <1>1
    <2>4. ASSUME NEW k \in 1..n PROVE k \in Used
      <3>1. k \in 1..Slots /\ \A j \in 1..k : j \in 1..n
        BY <1>1, SlotsType
      <3> QED BY <3>1, <2>1 DEF Used
    <2> QED BY <2>3, <2>4
  <1>4. Cardinality(Used) = n
    BY <1>1, <1>3, FS_Interval, SlotsType
  <1> DEFINE s == [i \in 1 .. n + 1 |-> Undone[i - 1]]
  <1>5. s = [i \in 1 .. n + 1 |-> h[i - 1]]
    <2>1. \A i \in 1 .. n + 1 : Undone[i - 1] = h[i - 1]
      BY UndoneValue, <1>1, SlotsType
    <2> QED BY <2>1
  <1>6. Decoded = Reverse(s)
    BY <1>2, <1>4 DEF Decoded
  <1> HIDE DEF s
  <1>7. Len(s) = n + 1
    BY <1>1, <1>5, SlotsType
  <1>8. Reverse(s) = [i \in 1 .. n + 1 |-> s[(n + 1 - i) + 1]]
    <2>1. Reverse(s) = [i \in 1..Len(s) |-> s[(Len(s) - i) + 1]]
      BY DEF Reverse
    <2>2. \A i \in 1 .. n + 1 : (Len(s) - i) + 1 = (n + 1 - i) + 1
      BY <1>1, <1>7, SlotsType
    <2>3. 1..Len(s) = 1 .. n + 1
      BY <1>7
    <2> QED BY <2>1, <2>2, <2>3
  <1>9. \A i \in 1 .. n + 1 : s[(n + 1 - i) + 1] = h[n + 1 - i]
    BY <1>1, <1>5, SlotsType
  <1> QED BY <1>6, <1>8, <1>9 DEF Listed
LEMMA DecodedAlways == \A n, h : StandsFor(n, h) /\ Active => Decoded = Listed(n, h)
  BY DecodedValue
LEMMA DecodedNext == (\A n, h : StandsFor(n, h) /\ Active => Decoded = Listed(n, h))'
  BY DecodedAlways, PTL
LEMMA NothingDecoded == ~Active \/ ss_prev = NoData => Decoded = <<>>
  BY DEF Decoded
LEMMA NothingDecodedNext == (~Active \/ ss_prev = NoData => Decoded = <<>>)'
  BY NothingDecoded, PTL
-----------------------------------------------------------------------------
(* Recording appends to the list and rewinding takes from its end.          *)
LEMMA ListedType ==
  ASSUME NEW n \in Nat, NEW h \in [0..n -> Snapshots]
  PROVE  /\ Listed(n, h) \in Seq(Snapshots) /\ Len(Listed(n, h)) = n + 1
         /\ Listed(n, h) # <<>>
         /\ \A i \in 1 .. n + 1 : Listed(n, h)[i] = h[n + 1 - i]
         /\ Last(Listed(n, h)) = h[0]
  <1>1. \A i \in 1 .. n + 1 : h[n + 1 - i] \in Snapshots
    OBVIOUS
  <1>2. Listed(n, h) \in Seq(Snapshots) /\ Len(Listed(n, h)) = n + 1
    BY <1>1 DEF Listed
  <1>3. \A i \in 1 .. n + 1 : Listed(n, h)[i] = h[n + 1 - i]
    BY DEF Listed
  <1>4. Last(Listed(n, h)) = h[0]
    BY <1>2, <1>3 DEF Last
  <1> QED BY <1>2, <1>3, <1>4
LEMMA ListedEqual ==
  ASSUME NEW n \in Nat, NEW h \in [0..n -> Snapshots], NEW s \in Seq(Snapshots),
         Len(s) = n + 1, \A i \in 1 .. n + 1 : s[i] = h[n + 1 - i]
  PROVE  s = Listed(n, h)
  BY ListedType
LEMMA AppendListed ==
  ASSUME NEW n \in Nat, NEW h \in [0..n -> Snapshots], NEW m \in Snapshots
  PROVE  Append(Listed(n, h), m) = Listed(n + 1, Recorded(n + 1, h, m))
  <1> DEFINE g == Recorded(n + 1, h, m)
             s == Append(Listed(n, h), m)
  <1>1. g \in [0 .. n + 1 -> Snapshots]
    BY DEF Recorded
  <1>2. s \in Seq(Snapshots) /\ Len(s) = (n + 1) + 1
    BY ListedType
  <1>3. \A i \in 1 .. (n + 1) + 1 : s[i] = g[(n + 1) + 1 - i]
    <2> TAKE i \in 1 .. (n + 1) + 1
    <2>1. CASE i = n + 2
      BY <2>1, ListedType DEF Recorded
    <2>2. CASE i # n + 2
      <3>1. i \in 1 .. n + 1 /\ s[i] = Listed(n, h)[i]
        BY <2>2, ListedType
      <3>2. g[(n + 1) + 1 - i] = h[n + 1 - i]
        BY <3>1 DEF Recorded
      <3> QED BY <3>1, <3>2, ListedType
    <2> QED BY <2>1, <2>2
  <1> HIDE DEF g, s
  <1>4. s = Listed(n + 1, g)
    BY <1>1, <1>2, <1>3, ListedEqual
  <1> QED BY <1>4 DEF s, g
LEMMA TailListed ==
  ASSUME NEW n \in Nat, NEW h \in [0..n -> Snapshots], NEW m \in Snapshots
  PROVE  Tail(Append(Listed(n, h), m)) = Listed(n, Recorded(n, h, m))
  <1> DEFINE g == Recorded(n, h, m)
             long == Recorded(n + 1, h, m)
             s == Listed(n + 1, long)
  <1>1. g \in [0..n -> Snapshots] /\ long \in [0 .. n + 1 -> Snapshots]
    BY DEF Recorded
  <1>2. \A k \in 0..n : g[k] = long[k]
    BY DEF Recorded
  <1>3. s = Append(Listed(n, h), m)
    BY AppendListed
  <1> HIDE DEF g, long
  <1>4. /\ s \in Seq(Snapshots) /\ Len(s) = (n + 1) + 1
        /\ \A i \in 1 .. (n + 1) + 1 : s[i] = long[(n + 1) + 1 - i]
    BY <1>1, ListedType
  <1> HIDE DEF s
  <1>5. Tail(s) \in Seq(Snapshots) /\ Len(Tail(s)) = n + 1
    BY <1>4
  <1>6. \A i \in 1 .. n + 1 : Tail(s)[i] = g[n + 1 - i]
    <2> TAKE i \in 1 .. n + 1
    <2>1. Tail(s)[i] = s[i + 1]
      BY <1>4
    <2>2. s[i + 1] = long[(n + 1) + 1 - (i + 1)]
      BY <1>4
    <2>3. (n + 1) + 1 - (i + 1) = n + 1 - i /\ n + 1 - i \in 0..n
      OBVIOUS
    <2> QED BY <1>2, <2>1, <2>2, <2>3
  <1>7. Tail(s) = Listed(n, g)
    BY <1>1, <1>5, <1>6, ListedEqual
  <1> QED BY <1>3, <1>7 DEF g
LEMMA FrontListed ==
  ASSUME NEW n \in Nat \ {0}, NEW h \in [0..n -> Snapshots]
  PROVE  Front(Listed(n, h)) = Listed(n - 1, Older(n - 1, h))
  <1> DEFINE g == Older(n - 1, h)
             s == Listed(n, h)
  <1>1. n - 1 \in Nat /\ g \in [0 .. n - 1 -> Snapshots]
    BY DEF Older
  <1>2. \A k \in 0 .. n - 1 : g[k] = h[k + 1]
    BY DEF Older
  <1>3. /\ s \in Seq(Snapshots) /\ Len(s) = n + 1
        /\ \A i \in 1 .. n + 1 : s[i] = h[n + 1 - i]
    BY ListedType
  <1> HIDE DEF g, s
  <1>4. Front(s) = SubSeq(s, 1, n)
    BY <1>3 DEF Front
  <1>5. /\ Front(s) \in Seq(Snapshots) /\ Len(Front(s)) = (n - 1) + 1
        /\ \A i \in 1 .. (n - 1) + 1 : Front(s)[i] = s[i]
    BY <1>3, <1>4
  <1>6. \A i \in 1 .. (n - 1) + 1 : Front(s)[i] = g[(n - 1) + 1 - i]
    <2> TAKE i \in 1 .. (n - 1) + 1
    <2>1. s[i] = h[n + 1 - i]
      BY <1>3
    <2>2. g[(n - 1) + 1 - i] = h[((n - 1) + 1 - i) + 1]
      BY <1>2
    <2>3. ((n - 1) + 1 - i) + 1 = n + 1 - i
      OBVIOUS
    <2> QED BY <1>5, <2>1, <2>2, <2>3
  <1>7. Front(s) = Listed(n - 1, g)
    BY <1>1, <1>5, <1>6, ListedEqual
  <1> QED BY <1>7 DEF g, s
-----------------------------------------------------------------------------
(* Every step is a step of RewindHistory.                                   *)
LEMMA RecordSim ==
  ASSUME IInv, DoRecord
  PROVE  History!Record
  <1> PICK newest : newest = machine
    OBVIOUS
  <1>1. /\ Active /\ Active' = Active /\ machine' = machine /\ reverse' = FALSE
        /\ newest \in Snapshots
    BY DEF DoRecord, IInv
  <1>2. Decoded' = LET s == Append(Decoded, newest)
                   IN  IF Len(s) > Slots + 1 THEN Tail(s) ELSE s
    <2>1. CASE ss_prev = NoData
      <3> DEFINE h == [k \in 0..0 |-> newest]
      <3>1. StandsFor(0, h)'
        BY <2>1, RecordFirst
      <3> HIDE DEF h
      <3>2. Decoded' = Listed(0, h)
        BY <1>1, <3>1, DecodedNext
      <3>3. Listed(0, h) = <<newest>>
        BY <1>1 DEF Listed, h
      <3>4. Append(Decoded, newest) = <<newest>> /\ Len(<<newest>>) = 1
        BY <2>1, NothingDecoded
      <3> QED BY <3>2, <3>3, <3>4, SlotsType
    <2>2. CASE ss_prev # NoData
      <3>1. PICK n, h : StandsFor(n, h)
        BY <1>1, <2>2 DEF IInv, HistoryOK
      <3>2. n \in 0..Slots /\ n \in Nat /\ h \in [0..n -> Snapshots]
        BY <3>1, SlotsType DEF StandsFor
      <3>3. Decoded = Listed(n, h)
        BY <1>1, <3>1, DecodedAlways
      <3>4. StandsFor(Longer(n), Recorded(Longer(n), h, newest))'
        BY <2>2, <3>1, RecordMore
      <3>5. Decoded' = Listed(Longer(n), Recorded(Longer(n), h, newest))
        BY <1>1, <3>4, DecodedNext
      <3>6. Len(Append(Decoded, newest)) = n + 2
        BY <1>1, <3>2, <3>3, ListedType
      <3>7. CASE n < Slots
        <4>1. Longer(n) = n + 1 /\ ~(n + 2 > Slots + 1)
          BY <3>2, <3>7, SlotsType DEF Longer
        <4>2. Append(Decoded, newest) = Listed(n + 1, Recorded(n + 1, h, newest))
          BY <1>1, <3>2, <3>3, AppendListed
        <4>3. Decoded' = Append(Decoded, newest)
          BY <3>5, <4>1, <4>2
        <4> QED BY <3>6, <4>1, <4>3
      <3>8. CASE n = Slots
        <4>1. Longer(n) = n
          BY <3>8, SlotsType DEF Longer
        <4>2. Tail(Append(Decoded, newest)) = Listed(n, Recorded(n, h, newest))
          BY <1>1, <3>2, <3>3, TailListed
        <4> QED BY <3>5, <3>6, <3>8, <4>1, <4>2, SlotsType
      <3> QED BY <3>2, <3>7, <3>8, SlotsType
    <2> QED BY <2>1, <2>2
  <1>3. History!Capacity = Slots + 1
    BY DEF History!Capacity, History!Slots, Slots
  <1> QED BY <1>1, <1>2, <1>3 DEF History!Record

LEMMA RewindSim ==
  ASSUME IInv, DoRewind
  PROVE  History!Rewind
  <1>1. Active /\ Active' = Active
    BY DEF DoRewind
  <1>2. CASE ss_prev = NoData
    <2>1. Decoded = <<>> /\ machine' = machine /\ reverse' = FALSE
      BY <1>2, NothingDecoded DEF DoRewind
    <2>2. ss_prev' = NoData
      BY <1>2, RewindLast DEF ringVars
    <2> QED BY <1>1, <2>1, <2>2, NothingDecodedNext DEF History!Rewind
  <1>3. CASE ss_prev # NoData
    <2>1. PICK n, h : StandsFor(n, h)
      BY <1>1, <1>3 DEF IInv, HistoryOK
    <2>2. n \in Nat /\ h \in [0..n -> Snapshots] /\ ss_prev = h[0]
      BY <2>1, SlotsType DEF StandsFor
    <2>3. Decoded = Listed(n, h)
      BY <1>1, <2>1, DecodedAlways
    <2>4. /\ Decoded # <<>> /\ Len(Decoded) = n + 1
          /\ machine' = Last(Decoded) /\ reverse' = TRUE
      BY <1>3, <2>2, <2>3, ListedType DEF DoRewind
    <2>5. CASE n = 0
      <3>1. UNCHANGED <<Enabled, Active, ringVars>>
        BY <2>1, <2>5, RewindLast
      <3>2. StandsFor(n, h)'
        BY <2>1, <3>1 DEF StandsFor, ringVars
      <3>3. Decoded' = Listed(n, h)
        BY <1>1, <3>2, DecodedNext
      <3>4. Decoded' = Decoded /\ ~(Len(Decoded) > 1)
        BY <2>3, <2>4, <2>5, <3>3
      <3> QED BY <1>1, <2>4, <3>4 DEF History!Rewind, History!Last, Last
    <2>6. CASE n # 0
      <3>1. StandsFor(n - 1, Older(n - 1, h))'
        BY <1>3, <2>1, <2>6, RewindMore
      <3>2. Decoded' = Listed(n - 1, Older(n - 1, h))
        BY <1>1, <3>1, DecodedNext
      <3>3. Decoded' = Front(Decoded)
        BY <2>2, <2>3, <2>6, <3>2, FrontListed
      <3>4. Len(Decoded) > 1
        BY <2>2, <2>4, <2>6
      <3> QED BY <1>1, <2>4, <3>3, <3>4
              DEF History!Rewind, History!Last, History!Front, Last, Front
    <2> QED BY <2>5, <2>6
  <1> QED BY <1>2, <1>3

(* What the ring stands for is the same when it and Active are.             *)
LEMMA SameDecoded ==
  ASSUME IInv, UNCHANGED <<Active, ringVars>>
  PROVE  Decoded' = Decoded
  <1>1. CASE ~Active \/ ss_prev = NoData
    <2>1. ~Active' \/ ss_prev' = NoData
      BY <1>1 DEF ringVars
    <2> QED BY <1>1, <2>1, NothingDecoded, NothingDecodedNext
  <1>2. CASE Active /\ ss_prev # NoData
    <2>1. PICK n, h : StandsFor(n, h)
      BY <1>2 DEF IInv, HistoryOK
    <2>2. Decoded = Listed(n, h)
      BY <1>2, <2>1, DecodedAlways
    <2>3. StandsFor(n, h)' /\ Active'
      BY <1>2, <2>1 DEF StandsFor, ringVars
    <2> QED BY <2>2, <2>3, DecodedNext
  <1> QED BY <1>1, <1>2

LEMMA BeginSim ==
  ASSUME IInv, Begin, UNCHANGED <<machine, reverse>>
  PROVE  History!Begin
  <1>1. CASE Active
    <2>1. UNCHANGED <<Active, ringVars>>
      BY <1>1 DEF Begin, IInv
    <2> QED BY <1>1, <2>1, SameDecoded DEF Begin, History!Begin
  <1>2. CASE ~Active
    <2>1. ss_prev' = NoData
      BY <1>2 DEF Begin, IInv
    <2> QED BY <1>2, <2>1, NothingDecodedNext DEF Begin, History!Begin
  <1> QED BY <1>1, <1>2 DEF IInv
LEMMA EndSim ==
  ASSUME End
  PROVE  Active' = FALSE /\ Decoded' = <<>>
  BY NothingDecodedNext DEF End

LEMMA StepSim ==
  IInv /\ [Next]_vars => [History!Next]_(History!vars)
  <1> SUFFICES ASSUME IInv, [Next]_vars PROVE [History!Next]_(History!vars)
    OBVIOUS
  <1>1. CASE Enable
    BY <1>1, BeginSim DEF Enable, History!Next
  <1>2. CASE BeginFails
    <2>1. Decoded = <<>> /\ Decoded' = <<>>
      BY <1>2, NothingDecoded, NothingDecodedNext DEF BeginFails
    <2> QED BY <1>2, <2>1 DEF BeginFails, History!vars
  <1>3. CASE Disable
    BY <1>3, EndSim DEF Disable, History!Next, History!End
  <1>4. CASE CloseGame
    BY <1>4, EndSim DEF CloseGame, History!Next, History!End
  <1>5. CASE LoadGame
    BY <1>5, BeginSim DEF LoadGame, History!Next
  <1>6. CASE Frame
    <2>1. CASE DoRecord
      BY <2>1, RecordSim DEF History!Next
    <2>2. CASE DoRewind
      BY <2>2, RewindSim DEF History!Next
    <2>3. CASE FrameFails
      BY <2>3, EndSim DEF FrameFails, History!Next, History!Fail
    <2>4. CASE /\ ~Active /\ reverse' = FALSE
               /\ UNCHANGED <<machine, Enabled, Active, ringVars>>
      BY <2>4, SameDecoded DEF History!Next, History!Idle
    <2> QED BY <1>6, <2>1, <2>2, <2>3, <2>4 DEF Frame
  <1>7. CASE Emulate
    BY <1>7, SameDecoded DEF Emulate, History!Next, History!Emulate
  <1>8. CASE UNCHANGED vars
    BY <1>8, SameDecoded DEF vars, History!vars
  <1> QED BY <1>1, <1>2, <1>3, <1>4, <1>5, <1>6, <1>7, <1>8 DEF Next

(* The ring implements the list of states: whatever is recorded comes back, *)
(* newest first, until the list is at its end, which stays.                 *)
THEOREM Implementation == Spec => ImplementsHistory
  <1>1. Init => History!Init
    BY NothingDecoded DEF Init, History!Init
  <1> QED BY <1>1, Invariance, StepSim, PTL DEF Spec, ImplementsHistory, History!Spec
===============================================================================
