------------------------------ MODULE CDB_proofs ------------------------------
(***************************************************************************)
(* Theorems about the CD block.  About the filters: for every number of    *)
(* them and whatever sequence of commands and file operations, no filter   *)
(* has two inputs.  About the sector buffers: however many there are, each *)
(* is in one partition or free and the counts agree, and the linked        *)
(* partitions are the queues of SectorPool.  About the drive: for every    *)
(* disc, every number of buffers and every end and number of repeats a     *)
(* PLAY may be given, no sector is lost.                                   *)
(***************************************************************************)
EXTENDS CDBDrive, CDBBuffers, SequenceTheorems, FiniteSetTheorems,
        WellFoundedInduction, TLAPS

(* The filters.                                                             *)
(* The record of the connections, field by field.                           *)
ConnRecord ==
  [CDDevConn : Connectors, TrueConn : [Selectors -> Connectors],
   FalseConn : [Selectors -> Connectors], selective : [Selectors -> BOOLEAN]]

Sourced(c) ==
  /\ \A f, g \in Selectors :
       c.FalseConn[f] = c.FalseConn[g] /\ c.FalseConn[f] # FF => f = g
  /\ c.CDDevConn # FF => \A f \in Selectors : c.FalseConn[f] # c.CDDevConn
Sound(c) == c \in ConnRecord /\ Sourced(c)

LEMMA FFNoSelector == FF \notin Selectors /\ FF \in Connectors
  BY SelectorsAssumption DEF FF, Selectors, Connectors

(* The states the operators return are sound when they are given sound      *)
(* ones.                                                                    *)
LEMMA ResetSound == Sound(SWReset_Conn)
  BY FFNoSelector DEF Sound, Sourced, ConnRecord, SWReset_Conn, Connectors

LEMMA DisconnectSound ==
  ASSUME NEW c, Sound(c), NEW f \in Connectors
  PROVE  /\ Sound(Filter_DisconnectInput(c, f))
         /\ f # FF => /\ Filter_DisconnectInput(c, f).CDDevConn # f
                      /\ \A g \in Selectors :
                           Filter_DisconnectInput(c, f).FalseConn[g] # f
<1>1. CASE f = FF
  BY <1>1 DEF Filter_DisconnectInput
<1>2. CASE f # FF
  BY <1>2, FFNoSelector
  DEF Filter_DisconnectInput, NoFalseConnTo, Sound, Sourced, ConnRecord,
      Connectors
<1> QED BY <1>1, <1>2

LEMMA DeviceSound ==
  ASSUME NEW c, Sound(c), NEW f \in Connectors
  PROVE  Sound(SetCDDeviceConn(c, f))
BY FFNoSelector
DEF SetCDDeviceConn, NoFalseConnTo, Sound, Sourced, ConnRecord, Connectors

LEMMA FalseSound ==
  ASSUME NEW c, Sound(c), NEW f \in Selectors, NEW to \in Connectors
  PROVE  Sound(Filter_SetFalseConn(c, f, to))
<1> DEFINE d == Filter_DisconnectInput(c, to)
<1>1. Sound(d) /\ (to # FF => d.CDDevConn # to
                              /\ \A g \in Selectors : d.FalseConn[g] # to)
  BY DisconnectSound
<1>2. Filter_SetFalseConn(c, f, to)
      = [d EXCEPT !.FalseConn = [d.FalseConn EXCEPT ![f] = to]]
  BY DEF Filter_SetFalseConn
<1> HIDE DEF d
<1> DEFINE e == Filter_SetFalseConn(c, f, to)
<1>3. d \in ConnRecord /\ Sourced(d)
  BY <1>1 DEF Sound
<1>4. d.FalseConn \in [Selectors -> Connectors]
  BY <1>3 DEF ConnRecord
<1>5. /\ e.CDDevConn = d.CDDevConn
      /\ e.FalseConn = [d.FalseConn EXCEPT ![f] = to]
      /\ e \in ConnRecord
  <2>1. [d.FalseConn EXCEPT ![f] = to] \in [Selectors -> Connectors]
    BY <1>4
  <2> QED BY <1>2, <1>3, <2>1 DEF ConnRecord
<1> HIDE DEF e
<1>6. ASSUME NEW g \in Selectors, NEW h \in Selectors,
             e.FalseConn[g] = e.FalseConn[h], e.FalseConn[g] # FF
      PROVE  g = h
  <2>1. CASE g = f \/ h = f
    BY <1>1, <1>4, <1>5, <1>6, <2>1
  <2>2. CASE g # f /\ h # f
    <3>1. d.FalseConn[g] = d.FalseConn[h] /\ d.FalseConn[g] # FF
      BY <1>4, <1>5, <1>6, <2>2
    <3> QED BY <1>3, <3>1 DEF Sourced
  <2> QED BY <2>1, <2>2
<1>7. ASSUME NEW g \in Selectors, e.CDDevConn # FF
      PROVE  e.FalseConn[g] # e.CDDevConn
  <2>1. d.FalseConn[g] # d.CDDevConn
    BY <1>3, <1>5, <1>7 DEF Sourced
  <2> QED BY <1>1, <1>4, <1>5, <1>7, <2>1
<1>8. Sourced(e)
  BY <1>6, <1>7 DEF Sourced
<1> QED
  BY <1>5, <1>8 DEF Sound, e

LEMMA TrueSound ==
  ASSUME NEW c, Sound(c), NEW f \in Selectors, NEW to \in Connectors
  PROVE  Sound(Filter_SetTrueConn(c, f, to))
BY DEF Filter_SetTrueConn, Sound, Sourced, ConnRecord

LEMMA ModeSound ==
  ASSUME NEW c, Sound(c), NEW f \in Selectors, NEW b \in BOOLEAN
  PROVE  Sound(Filter_SetMode(c, f, b))
BY DEF Filter_SetMode, Sound, Sourced, ConnRecord

LEMMA RoutedSound ==
  ASSUME NEW c, Sound(c), NEW f \in Selectors, NEW b \in BOOLEAN
  PROVE  Sound(Routed(c, f, b))
<1> DEFINE device == SetCDDeviceConn(c, f)
           straight == Filter_SetTrueConn(device, f, f)
           closed == Filter_SetFalseConn(straight, f, FF)
<1>1. f \in Connectors /\ FF \in Connectors
  BY FFNoSelector DEF Connectors
<1>2. Sound(device)
  BY <1>1, DeviceSound
<1>3. Sound(straight)
  <2> HIDE DEF device
  <2> QED BY <1>1, <1>2, TrueSound
<1>4. Sound(closed)
  <2> HIDE DEF straight
  <2> QED BY <1>1, <1>3, FalseSound
<1>5. Routed(c, f, b) = Filter_SetMode(closed, f, b)
  BY DEF Routed
<1> HIDE DEF closed
<1> QED BY <1>4, <1>5, ModeSound

LEMMA ResetSelSound ==
  ASSUME NEW c, Sound(c), NEW flags \in SUBSET ResetFlags
  PROVE  Sound(ResetSel(c, flags))
BY FFNoSelector DEF ResetSel, Sound, Sourced, ConnRecord, Connectors
-----------------------------------------------------------------------------
ConnInv == Sound(conn)

LEMMA InvIsSound == ConnInv <=> ConnTypeOK /\ OneSource
  BY DEF ConnInv, Sound, Sourced, ConnRecord, ConnTypeOK, OneSource

LEMMA Preserved == ConnInv /\ [ConnNext]_conn => ConnInv'
<1> SUFFICES ASSUME Sound(conn), [ConnNext]_conn PROVE Sound(conn')
  BY DEF ConnInv
<1>1. CASE SetDevice
  BY <1>1, DeviceSound DEF SetDevice
<1>2. CASE SetFalse
  BY <1>2, FalseSound DEF SetFalse
<1>3. CASE SetTrue
  BY <1>3, TrueSound DEF SetTrue
<1>4. CASE SetMode
  BY <1>4, ModeSound DEF SetMode
<1>5. CASE TakeInput
  BY <1>5, DisconnectSound DEF TakeInput, Connectors
<1>6. CASE Route
  BY <1>6, RoutedSound DEF Route
<1>7. CASE Reset
  BY <1>7, ResetSelSound DEF Reset
<1>8. CASE SWReset
  BY <1>8, ResetSound DEF SWReset
<1>9. CASE UNCHANGED conn
  BY <1>9
<1> QED
  BY <1>1, <1>2, <1>3, <1>4, <1>5, <1>6, <1>7, <1>8, <1>9 DEF ConnNext

(* No sequence of commands, file operations and resets gives a filter two   *)
(* inputs (SetCDDeviceConn, Filter_DisconnectInput, Filter_SetFalseConn).   *)
THEOREM FiltersOneSource == ConnSpec => []OneSource
<1>1. ConnInit => ConnInv
  BY ResetSound DEF ConnInit, ConnInv
<1>2. ConnInv => OneSource
  BY InvIsSound
<1> QED
  BY <1>1, <1>2, Preserved, PTL DEF ConnSpec
-----------------------------------------------------------------------------
(* The sector buffers.                                                      *)

(* Every set of numbers that is not empty has a least one.                  *)
LEMMA Least ==
  ASSUME NEW S, S \subseteq Nat, S # {}
  PROVE  \E n \in S : \A m \in S : n <= m
<1>1. PICK n \in S : \A m \in S : ~(<<m, n>> \in OpToRel(<, Nat))
  BY NatLessThanWellFounded, WFMin, Zenon
<1>2. ASSUME NEW m \in S, m < n PROVE FALSE
  <2>1. <<m, n>> \in OpToRel(<, Nat)
    BY <1>2 DEF OpToRel
  <2> QED BY <1>1, <1>2, <2>1
<1> QED BY <1>2

(* What holds of 0 and is handed on holds all the way.                      *)
LEMMA Along ==
  ASSUME NEW n \in Nat, NEW S, 0 \in S,
         \A i \in 0 .. n - 1 : i \in S => i + 1 \in S
  PROVE  \A i \in 0..n : i \in S
<1> DEFINE T == {k \in Nat : k <= n /\ k \notin S}
<1> SUFFICES ASSUME T # {} PROVE FALSE
  OBVIOUS
<1>1. T \subseteq Nat
  OBVIOUS
<1>2. PICK k \in T : \A m \in T : k <= m
  BY <1>1, Least
<1>3. k \in Nat /\ k <= n /\ k \notin S /\ k # 0
  BY <1>2
<1>4. k - 1 \in 0 .. n - 1 /\ (k - 1) + 1 = k /\ k - 1 \notin T
  BY <1>2, <1>3
<1> QED BY <1>3, <1>4

(* A loop whose body F stays in P.                                          *)
IsLoop(at, F, s, n) ==
  at = [i \in 0..n |-> IF i = 0 THEN s ELSE F[<<at[i - 1], i>>]]

LEMMA LoopExists ==
  ASSUME NEW P, NEW s \in P, NEW n \in Nat, NEW F \in [P \X (1..n) -> P]
  PROVE  \E at : IsLoop(at, F, s, n) /\ at \in [0..n -> P]
<1> DEFINE Has(k) == \E at : IsLoop(at, F, s, k) /\ at \in [0..k -> P]
           S == {k \in Nat : Has(k)}
<1>1. 0 \in S
  <2> DEFINE at == [i \in 0..0 |-> s]
  <2>1. at = [i \in 0..0 |-> IF i = 0 THEN s ELSE F[<<at[i - 1], i>>]]
    OBVIOUS
  <2>2. at \in [0..0 -> P]
    OBVIOUS
  <2> HIDE DEF at
  <2>3. IsLoop(at, F, s, 0)
    BY <2>1 DEF IsLoop
  <2> QED BY <2>2, <2>3
<1>2. ASSUME NEW k \in 0 .. n - 1, k \in S PROVE k + 1 \in S
  <2>1. PICK at : IsLoop(at, F, s, k) /\ at \in [0..k -> P]
    BY <1>2
  <2> DEFINE b == [i \in 0 .. k + 1 |-> IF i = k + 1 THEN F[<<at[k], k + 1>>]
                                        ELSE at[i]]
  <2>2. F[<<at[k], k + 1>>] \in P
    BY <2>1
  <2>3. b \in [0 .. k + 1 -> P]
    BY <2>1, <2>2
  <2>4. ASSUME NEW i \in 0 .. k + 1
        PROVE  b[i] = IF i = 0 THEN s ELSE F[<<b[i - 1], i>>]
    <3>1. CASE i = k + 1
      <4>1. b[i] = F[<<at[k], k + 1>>] /\ i # 0 /\ i - 1 = k /\ b[k] = at[k]
        BY <3>1
      <4> QED BY <3>1, <4>1
    <3>2. CASE i # k + 1
      <4>1. i \in 0..k /\ (i # 0 => i - 1 \in 0..k /\ i - 1 # k + 1)
        BY <3>2
      <4>2. b[i] = at[i] /\ (i # 0 => b[i - 1] = at[i - 1])
        BY <3>2, <4>1
      <4>3. at[i] = IF i = 0 THEN s ELSE F[<<at[i - 1], i>>]
        BY <2>1, <4>1 DEF IsLoop
      <4> QED BY <4>1, <4>2, <4>3
    <3> QED BY <3>1, <3>2
  <2>5. b = [i \in 0 .. k + 1 |-> b[i]]
    OBVIOUS
  <2> HIDE DEF b
  <2>6. b = [i \in 0 .. k + 1 |-> IF i = 0 THEN s ELSE F[<<b[i - 1], i>>]]
    BY <2>4, <2>5
  <2>7. IsLoop(b, F, s, k + 1)
    BY <2>6 DEF IsLoop
  <2> QED BY <2>3, <2>7
<1> HIDE DEF S
<1>3. \A k \in 0..n : k \in S
  BY <1>1, <1>2, Along
<1>4. n \in S
  BY <1>3
<1> QED BY <1>4 DEF S


Pools == [Prev : [Buffers -> Links], Next : [Buffers -> Links],
          FirstBuf : [Selectors -> Links], LastBuf : [Selectors -> Links],
          Count : [Selectors -> Int], FirstFreeBuf : Links,
          FreeBufferCount : Int, ok : BOOLEAN]


LEMMA FFNoBuffer == FF \notin Buffers /\ FF \in Links
  BY BuffersAssumption DEF FF, Buffers, Links

LEMMA SplicedTyped ==
  ASSUME NEW s \in Pools, NEW b \in Buffers
  PROVE  /\ Spliced(s, b) \in Pools
         /\ Spliced(s, b).Next = [x \in Buffers |-> IF x = b THEN FF
                                   ELSE IF x = s.Prev[b] THEN s.Next[b]
                                   ELSE s.Next[x]]
         /\ Spliced(s, b).Prev = [x \in Buffers |-> IF x = b THEN FF
                                   ELSE IF x = s.Next[b] THEN s.Prev[b]
                                   ELSE s.Prev[x]]
         /\ Spliced(s, b).FirstBuf = s.FirstBuf
         /\ Spliced(s, b).LastBuf = s.LastBuf
         /\ Spliced(s, b).Count = s.Count
         /\ Spliced(s, b).FirstFreeBuf = s.FirstFreeBuf
         /\ Spliced(s, b).FreeBufferCount = s.FreeBufferCount
         /\ Spliced(s, b).ok = s.ok
  BY FFNoBuffer DEF Pools, Spliced

LEMMA AllocateTyped ==
  ASSUME NEW s \in Pools
  PROVE  /\ Buffer_Allocate(s) \in Pools
         /\ LET b == s.FirstFreeBuf
                t == Buffer_Allocate(s)
            IN  b # FF =>
                  /\ t.ok <=> s.ok /\ s.FreeBufferCount > 0 /\ s.Prev[b] = FF
                  /\ t.Next = Spliced(s, b).Next /\ t.Prev = Spliced(s, b).Prev
                  /\ t.FirstBuf = s.FirstBuf /\ t.LastBuf = s.LastBuf
                  /\ t.Count = s.Count /\ t.FirstFreeBuf = s.Next[b]
                  /\ t.FreeBufferCount = s.FreeBufferCount - 1
<1> DEFINE b == s.FirstFreeBuf
<1>1. CASE b = FF
  BY <1>1 DEF Buffer_Allocate, Pools
<1>2. CASE b # FF
  <2>1. b \in Buffers
    BY <1>2 DEF Pools, Links
  <2> DEFINE t == Spliced(s, b)
             k == s.ok /\ s.FreeBufferCount > 0 /\ s.Prev[b] = FF
  <2>2. t \in Pools /\ s.Next[b] \in Links /\ s.FreeBufferCount - 1 \in Int
    <3>1. t \in Pools
      BY <2>1, SplicedTyped
    <3> HIDE DEF t
    <3> QED BY <2>1, <3>1 DEF Pools
  <2>3. k \in BOOLEAN
    BY Zenon
  <2>4. Buffer_Allocate(s) = [t EXCEPT !.FirstFreeBuf = s.Next[b],
                        !.FreeBufferCount = s.FreeBufferCount - 1, !.ok = k]
    BY <1>2, Zenon DEF Buffer_Allocate
  <2>5. t.FirstBuf = s.FirstBuf /\ t.LastBuf = s.LastBuf /\ t.Count = s.Count
    BY <2>1, SplicedTyped
  <2> DEFINE u == Buffer_Allocate(s)
             m == s.FreeBufferCount - 1
  <2>6. /\ u \in Pools /\ u.ok = k /\ u.Next = t.Next /\ u.Prev = t.Prev
        /\ u.FirstBuf = t.FirstBuf /\ u.LastBuf = t.LastBuf
        /\ u.Count = t.Count /\ u.FirstFreeBuf = s.Next[b]
        /\ u.FreeBufferCount = m
    <3> HIDE DEF t, k, b, m
    <3> QED BY <2>2, <2>3, <2>4 DEF Pools, m
  <2>7. u.ok <=> k
    BY <2>6, Zenon
  <2> QED BY <1>2, <2>5, <2>6, <2>7, Zenon
<1> QED BY <1>1, <1>2

LEMMA FreeTyped ==
  ASSUME NEW s \in Pools, NEW b \in Buffers
  PROVE  LET head == s.FirstFreeBuf
             t == Buffer_Free(s, b)
         IN  /\ t \in Pools
             /\ t.ok <=> /\ s.ok /\ Loose(s, b)
                         /\ (head = FF) = (s.FreeBufferCount = 0)
                         /\ head # FF => s.Prev[head] = FF
             /\ t.Next = [s.Next EXCEPT ![b] = head]
             /\ t.Prev = IF head = FF THEN s.Prev
                         ELSE [s.Prev EXCEPT ![head] = b]
             /\ t.FirstBuf = s.FirstBuf /\ t.LastBuf = s.LastBuf
             /\ t.Count = s.Count /\ t.FirstFreeBuf = b
             /\ t.FreeBufferCount = s.FreeBufferCount + 1
<1> DEFINE head == s.FirstFreeBuf
           k == /\ s.ok /\ Loose(s, b)
                /\ (head = FF) = (s.FreeBufferCount = 0)
                /\ head # FF => s.Prev[head] = FF
           nx == [s.Next EXCEPT ![b] = head]
           pv == IF head = FF THEN s.Prev ELSE [s.Prev EXCEPT ![head] = b]
<1>1. k \in BOOLEAN
  BY Zenon
<1>2. /\ head \in Links /\ b \in Links /\ s.Next \in [Buffers -> Links]
      /\ s.Prev \in [Buffers -> Links]
  BY DEF Pools, Links
<1>3. nx \in [Buffers -> Links] /\ pv \in [Buffers -> Links]
  BY <1>2
<1> DEFINE m == s.FreeBufferCount + 1
<1>4. Buffer_Free(s, b) = [s EXCEPT !.ok = k, !.Next = nx, !.Prev = pv,
                             !.FreeBufferCount = m, !.FirstFreeBuf = b]
  BY Zenon DEF Buffer_Free
<1>5. m \in Int
  BY DEF Pools
<1> DEFINE t == Buffer_Free(s, b)
<1>6. /\ t \in Pools /\ t.ok = k /\ t.Next = nx /\ t.Prev = pv
      /\ t.FirstBuf = s.FirstBuf /\ t.LastBuf = s.LastBuf
      /\ t.Count = s.Count /\ t.FirstFreeBuf = b /\ t.FreeBufferCount = m
  <2> HIDE DEF k, nx, pv, head, m
  <2> QED BY <1>1, <1>2, <1>3, <1>4, <1>5 DEF Pools
<1>7. t.ok <=> k
  BY <1>6, Zenon
<1> QED BY <1>6, <1>7, Zenon

(* What Partition_LinkBuffer() makes of s.                                  *)
LinksTo(s, p, b, t) ==
  LET last == s.LastBuf[p]
  IN  /\ t \in Pools
      /\ t.ok <=> /\ s.ok /\ Loose(s, b)
                  /\ (s.FirstBuf[p] = FF) = (last = FF)
      /\ t.Next = IF last = FF THEN s.Next ELSE [s.Next EXCEPT ![last] = b]
      /\ t.Prev = [s.Prev EXCEPT ![b] = last]
      /\ t.FirstBuf = [s.FirstBuf EXCEPT ![p] =
                         IF last = FF THEN b ELSE s.FirstBuf[p]]
      /\ t.LastBuf = [s.LastBuf EXCEPT ![p] = b]
      /\ t.Count = [s.Count EXCEPT ![p] = s.Count[p] + 1]
      /\ t.FirstFreeBuf = s.FirstFreeBuf
      /\ t.FreeBufferCount = s.FreeBufferCount

LEMMA LinkTyped ==
  ASSUME NEW s \in Pools, NEW p \in Selectors, NEW b \in Buffers
  PROVE  LinksTo(s, p, b, Partition_LinkBuffer(s, p, b))
<1> DEFINE last == s.LastBuf[p]
           k == s.ok /\ Loose(s, b) /\ (s.FirstBuf[p] = FF) = (last = FF)
           fst == [s.FirstBuf EXCEPT ![p] = IF last = FF THEN b
                                            ELSE s.FirstBuf[p]]
           lst == [s.LastBuf EXCEPT ![p] = b]
           cnt == [s.Count EXCEPT ![p] = s.Count[p] + 1]
           nx == IF last = FF THEN s.Next ELSE [s.Next EXCEPT ![last] = b]
           pv == [s.Prev EXCEPT ![b] = last]
<1>1. k \in BOOLEAN
  BY Zenon
<1>2. /\ last \in Links /\ b \in Links /\ s.FirstBuf[p] \in Links
      /\ s.Next \in [Buffers -> Links] /\ s.Prev \in [Buffers -> Links]
      /\ s.FirstBuf \in [Selectors -> Links] /\ s.Count \in [Selectors -> Int]
      /\ s.LastBuf \in [Selectors -> Links] /\ s.Count[p] \in Int
  BY DEF Pools, Links
<1>3. /\ nx \in [Buffers -> Links] /\ pv \in [Buffers -> Links]
      /\ fst \in [Selectors -> Links] /\ lst \in [Selectors -> Links]
      /\ cnt \in [Selectors -> Int]
  <2>1. nx \in [Buffers -> Links]
    BY <1>2
  <2>2. pv \in [Buffers -> Links]
    BY <1>2
  <2>3. fst \in [Selectors -> Links]
    BY <1>2
  <2>4. lst \in [Selectors -> Links]
    BY <1>2
  <2>5. cnt \in [Selectors -> Int]
    BY <1>2
  <2> QED BY <2>1, <2>2, <2>3, <2>4, <2>5
<1>4. Partition_LinkBuffer(s, p, b)
        = [s EXCEPT !.ok = k, !.FirstBuf = fst, !.Next = nx, !.Prev = pv,
                    !.LastBuf = lst, !.Count = cnt]
  BY DEF Partition_LinkBuffer, Pools
<1> DEFINE t == Partition_LinkBuffer(s, p, b)
<1>5. /\ t \in Pools /\ t.ok = k /\ t.Next = nx /\ t.Prev = pv
      /\ t.FirstBuf = fst /\ t.LastBuf = lst /\ t.Count = cnt
      /\ t.FirstFreeBuf = s.FirstFreeBuf
      /\ t.FreeBufferCount = s.FreeBufferCount
  <2> HIDE DEF k, nx, pv, last, fst, lst, cnt
  <2> QED BY <1>1, <1>2, <1>3, <1>4 DEF Pools
<1>6. t.ok <=> k
  BY <1>5, Zenon
<1> QED BY <1>5, <1>6, Zenon DEF LinksTo

LEMMA UnlinkTyped ==
  ASSUME NEW s \in Pools, NEW p \in Selectors, NEW b \in Buffers
  PROVE  LET t == Partition_UnlinkBuffer(s, p, b)
         IN  /\ t \in Pools
             /\ t.ok <=> /\ s.ok /\ s.Count[p] > 0
                         /\ (s.Prev[b] = FF) = (s.FirstBuf[p] = b)
                         /\ (s.Next[b] = FF) = (s.LastBuf[p] = b)
             /\ t.Next = Spliced(s, b).Next /\ t.Prev = Spliced(s, b).Prev
             /\ t.FirstBuf = [s.FirstBuf EXCEPT ![p] = IF s.Prev[b] = FF
                                THEN s.Next[b] ELSE s.FirstBuf[p]]
             /\ t.LastBuf = [s.LastBuf EXCEPT ![p] = IF s.Next[b] = FF
                               THEN s.Prev[b] ELSE s.LastBuf[p]]
             /\ t.Count = [s.Count EXCEPT ![p] = s.Count[p] - 1]
             /\ t.FirstFreeBuf = s.FirstFreeBuf
             /\ t.FreeBufferCount = s.FreeBufferCount
<1> DEFINE t == Spliced(s, b)
           k == /\ s.ok /\ s.Count[p] > 0
                /\ (s.Prev[b] = FF) = (s.FirstBuf[p] = b)
                /\ (s.Next[b] = FF) = (s.LastBuf[p] = b)
           fst == [s.FirstBuf EXCEPT ![p] = IF s.Prev[b] = FF THEN s.Next[b]
                                            ELSE s.FirstBuf[p]]
           lst == [s.LastBuf EXCEPT ![p] = IF s.Next[b] = FF THEN s.Prev[b]
                                           ELSE s.LastBuf[p]]
           cnt == [s.Count EXCEPT ![p] = s.Count[p] - 1]
<1>1. k \in BOOLEAN
  BY Zenon
<1>2. /\ s.FirstBuf \in [Selectors -> Links] /\ s.Count \in [Selectors -> Int]
      /\ s.LastBuf \in [Selectors -> Links] /\ s.Count[p] \in Int
      /\ s.Next[b] \in Links /\ s.Prev[b] \in Links
      /\ s.FirstBuf[p] \in Links /\ s.LastBuf[p] \in Links
  BY DEF Pools, Links
<1>3. /\ fst \in [Selectors -> Links] /\ lst \in [Selectors -> Links]
      /\ cnt \in [Selectors -> Int] /\ t \in Pools
  <2>1. t \in Pools
    BY SplicedTyped
  <2> HIDE DEF t
  <2>2. fst \in [Selectors -> Links] /\ lst \in [Selectors -> Links]
    BY <1>2
  <2>3. cnt \in [Selectors -> Int]
    BY <1>2
  <2> QED BY <2>1, <2>2, <2>3
<1>4. t.FirstBuf = s.FirstBuf /\ t.LastBuf = s.LastBuf /\ t.Count = s.Count
  BY SplicedTyped
<1>5. Partition_UnlinkBuffer(s, p, b)
        = [t EXCEPT !.ok = k, !.FirstBuf = fst, !.LastBuf = lst, !.Count = cnt]
  <2>1. /\ fst = [t.FirstBuf EXCEPT ![p] = IF s.Prev[b] = FF THEN s.Next[b]
                                            ELSE s.FirstBuf[p]]
        /\ lst = [t.LastBuf EXCEPT ![p] = IF s.Next[b] = FF THEN s.Prev[b]
                                           ELSE s.LastBuf[p]]
        /\ cnt = [t.Count EXCEPT ![p] = s.Count[p] - 1]
    <3> HIDE DEF t
    <3> QED BY <1>4
  <2>2. Partition_UnlinkBuffer(s, p, b) = [t EXCEPT
          !.ok = k,
          !.FirstBuf = [t.FirstBuf EXCEPT ![p] = IF s.Prev[b] = FF
                          THEN s.Next[b] ELSE s.FirstBuf[p]],
          !.LastBuf = [t.LastBuf EXCEPT ![p] = IF s.Next[b] = FF
                          THEN s.Prev[b] ELSE s.LastBuf[p]],
          !.Count = [t.Count EXCEPT ![p] = s.Count[p] - 1]]
    <3>1. Partition_UnlinkBuffer(s, p, b) = [t EXCEPT
            !.ok = k, !.Count[p] = s.Count[p] - 1,
            !.FirstBuf[p] = IF s.Prev[b] = FF THEN s.Next[b]
                            ELSE s.FirstBuf[p],
            !.LastBuf[p] = IF s.Next[b] = FF THEN s.Prev[b]
                           ELSE s.LastBuf[p]]
      BY Zenon DEF Partition_UnlinkBuffer
    <3> HIDE DEF t, k
    <3> QED BY <1>3, <3>1 DEF Pools
  <2> HIDE DEF t, k, fst, lst, cnt
  <2> QED BY <2>1, <2>2
<1> DEFINE u == Partition_UnlinkBuffer(s, p, b)
<1>6. /\ u \in Pools /\ u.ok = k /\ u.Next = t.Next /\ u.Prev = t.Prev
      /\ u.FirstBuf = fst /\ u.LastBuf = lst /\ u.Count = cnt
      /\ u.FirstFreeBuf = t.FirstFreeBuf
      /\ u.FreeBufferCount = t.FreeBufferCount
  <2> HIDE DEF k, t, fst, lst, cnt
  <2> QED BY <1>1, <1>3, <1>5 DEF Pools
<1>7. u.ok <=> k
  BY <1>6, Zenon
<1>8. /\ t.FirstFreeBuf = s.FirstFreeBuf
      /\ t.FreeBufferCount = s.FreeBufferCount
  BY SplicedTyped
<1> QED BY <1>6, <1>7, <1>8, Zenon
-----------------------------------------------------------------------------
(* The lists: of each partition its buffers, of FF those that are free.     *)
Families == [Connectors -> Seq(Buffers)]
At(l, i) == IF i \in 1..Len(l) THEN l[i] ELSE FF
Placed(L, b) == \E p \in Connectors : \E i \in 1..Len(L[p]) : L[p][i] = b
Apart(L) ==
  \A p, r \in Connectors : \A i \in 1..Len(L[p]), j \in 1..Len(L[r]) :
    L[p][i] = L[r][j] => p = r /\ i = j
Chained(s, L) ==
  \A p \in Connectors : \A i \in 1..Len(L[p]) :
    s.Next[L[p][i]] = At(L[p], i + 1) /\ s.Prev[L[p][i]] = At(L[p], i - 1)
AllLoose(s, L) == \A b \in Buffers : ~Placed(L, b) => Loose(s, b)
Counted(s, L) ==
  /\ \A p \in Selectors : /\ s.FirstBuf[p] = At(L[p], 1)
                          /\ s.LastBuf[p] = At(L[p], Len(L[p]))
                          /\ s.Count[p] = Len(L[p])
  /\ s.FirstFreeBuf = At(L[FF], 1) /\ s.FreeBufferCount = Len(L[FF])
Shape(s, L) == /\ s \in Pools /\ L \in Families /\ s.ok
               /\ Apart(L) /\ Chained(s, L) /\ AllLoose(s, L) /\ Counted(s, L)

(* A list without its k-th buffer.                                          *)
Dropped(l, k) == [i \in 1 .. Len(l) - 1 |-> IF i < k THEN l[i] ELSE l[i + 1]]

LEMMA FamilyTyped ==
  ASSUME NEW L \in Families, NEW p \in Connectors
  PROVE  /\ L[p] \in Seq(Buffers) /\ Len(L[p]) \in Nat
         /\ \A i \in 1..Len(L[p]) : L[p][i] \in Buffers /\ L[p][i] # FF
<1>1. L[p] \in Seq(Buffers)
  BY DEF Families
<1> QED BY <1>1, FFNoBuffer

LEMMA DroppedTyped ==
  ASSUME NEW l \in Seq(Buffers), NEW k \in 1..Len(l)
  PROVE  /\ Dropped(l, k) \in Seq(Buffers)
         /\ Len(Dropped(l, k)) = Len(l) - 1 /\ Len(l) \in Nat \ {0}
         /\ \A i \in 1 .. Len(l) - 1 :
              Dropped(l, k)[i] = IF i < k THEN l[i] ELSE l[i + 1]
<1>1. \A i \in 1 .. Len(l) - 1 : (IF i < k THEN l[i] ELSE l[i + 1]) \in Buffers
  OBVIOUS
<1>2. Len(l) - 1 \in Nat
  OBVIOUS
<1> QED BY <1>1, <1>2 DEF Dropped

Drop(L, p, k) == [L EXCEPT ![p] = Dropped(L[p], k)]

LEMMA DropIs ==
  ASSUME NEW L \in Families, NEW p \in Connectors, NEW k \in 1..Len(L[p])
  PROVE  /\ Drop(L, p, k) \in Families
         /\ \A r \in Connectors : r # p => Drop(L, p, k)[r] = L[r]
         /\ Drop(L, p, k)[p] = Dropped(L[p], k)
         /\ Len(L[p]) \in Nat \ {0}
         /\ Len(Drop(L, p, k)[p]) = Len(L[p]) - 1
         /\ \A i \in 1 .. Len(L[p]) - 1 :
              Drop(L, p, k)[p][i] = IF i < k THEN L[p][i] ELSE L[p][i + 1]
<1>1. L[p] \in Seq(Buffers)
  BY FamilyTyped
<1>2. /\ Dropped(L[p], k) \in Seq(Buffers)
      /\ Len(Dropped(L[p], k)) = Len(L[p]) - 1 /\ Len(L[p]) \in Nat \ {0}
      /\ \A i \in 1 .. Len(L[p]) - 1 :
           Dropped(L[p], k)[i] = IF i < k THEN L[p][i] ELSE L[p][i + 1]
  BY <1>1, DroppedTyped
<1>3. /\ Drop(L, p, k) \in Families /\ Drop(L, p, k)[p] = Dropped(L[p], k)
      /\ \A r \in Connectors : r # p => Drop(L, p, k)[r] = L[r]
  BY <1>2 DEF Families, Drop
<1> QED BY <1>2, <1>3

(* A buffer taken out of a list: where the others were before.              *)
Was(p, k, r, i) == IF r = p /\ i >= k THEN i + 1 ELSE i

LEMMA DropPlaces ==
  ASSUME NEW L \in Families, NEW p \in Connectors, NEW k \in 1..Len(L[p]),
         NEW r \in Connectors, NEW i \in 1..Len(Drop(L, p, k)[r])
  PROVE  /\ Was(p, k, r, i) \in 1..Len(L[r])
         /\ Drop(L, p, k)[r][i] = L[r][Was(p, k, r, i)]
         /\ r = p => Was(p, k, r, i) # k
<1>1. CASE r = p
  <2>1. i \in 1 .. Len(L[p]) - 1 /\ Len(L[p]) \in Nat \ {0} /\ k \in Nat
    BY <1>1, DropIs
  <2>2. Drop(L, p, k)[p][i] = IF i < k THEN L[p][i] ELSE L[p][i + 1]
    BY <2>1, DropIs
  <2> QED BY <1>1, <2>1, <2>2 DEF Was
<1>2. CASE r # p
  <2>1. Drop(L, p, k)[r] = L[r]
    BY <1>2, DropIs
  <2> QED BY <1>2, <2>1 DEF Was
<1> QED BY <1>1, <1>2

LEMMA DropFamily ==
  ASSUME NEW L \in Families, NEW p \in Connectors, NEW k \in 1..Len(L[p]),
         Apart(L)
  PROVE  /\ Apart(Drop(L, p, k))
         /\ \A x : Placed(Drop(L, p, k), x) <=> Placed(L, x) /\ x # L[p][k]
<1> DEFINE M == Drop(L, p, k)
<1>1. /\ \A r \in Connectors : Len(M[r]) \in Nat
      /\ Len(L[p]) \in Nat
  BY DropIs, FamilyTyped
<1>2. \A r \in Connectors : \A i \in 1..Len(M[r]) :
         /\ Was(p, k, r, i) \in 1..Len(L[r])
         /\ M[r][i] = L[r][Was(p, k, r, i)]
         /\ r = p => Was(p, k, r, i) # k
  BY DropPlaces
<1>3. Apart(M)
  <2> SUFFICES ASSUME NEW r \in Connectors, NEW q \in Connectors,
                      NEW i \in 1..Len(M[r]), NEW h \in 1..Len(M[q]),
                      M[r][i] = M[q][h]
               PROVE  r = q /\ i = h
    BY DEF Apart
  <2> HIDE DEF M
  <2>1. /\ Was(p, k, r, i) \in 1..Len(L[r]) /\ Was(p, k, q, h) \in 1..Len(L[q])
        /\ L[r][Was(p, k, r, i)] = L[q][Was(p, k, q, h)]
        /\ r = p => Was(p, k, r, i) # k
        /\ q = p => Was(p, k, q, h) # k
    BY <1>2
  <2>3. r = q /\ Was(p, k, r, i) = Was(p, k, q, h)
    BY <2>1 DEF Apart
  <2> QED BY <1>1, <2>3 DEF Was
<1>4. ASSUME NEW x, Placed(M, x)
      PROVE  Placed(L, x) /\ x # L[p][k]
  <2> HIDE DEF M
  <2>1. PICK r \in Connectors : \E i \in 1..Len(M[r]) : M[r][i] = x
    BY <1>4 DEF Placed
  <2>2. PICK i \in 1..Len(M[r]) : M[r][i] = x
    BY <2>1
  <2>3. /\ Was(p, k, r, i) \in 1..Len(L[r])
        /\ x = L[r][Was(p, k, r, i)] /\ (r = p => Was(p, k, r, i) # k)
    BY <1>2, <2>2
  <2>4. x # L[p][k]
    BY <2>3 DEF Apart
  <2> QED BY <2>3, <2>4 DEF Placed
<1>5. ASSUME NEW x, Placed(L, x), x # L[p][k]
      PROVE  Placed(M, x)
  <2>1. PICK r \in Connectors : \E j \in 1..Len(L[r]) : L[r][j] = x
    BY <1>5 DEF Placed
  <2>2. PICK j \in 1..Len(L[r]) : L[r][j] = x
    BY <2>1
  <2>3. CASE r = p
    <3>1. j # k /\ j \in 1..Len(L[p]) /\ L[p][j] = x
      BY <1>5, <2>2, <2>3
    <3> DEFINE i == IF j < k THEN j ELSE j - 1
    <3>2. i \in 1 .. Len(L[p]) - 1 /\ (i < k <=> j < k)
          /\ (j >= k => i + 1 = j) /\ (j < k => i = j)
      BY <1>1, <3>1
    <3> HIDE DEF i
    <3>3. /\ Len(M[p]) = Len(L[p]) - 1
          /\ M[p][i] = IF i < k THEN L[p][i] ELSE L[p][i + 1]
      BY <3>2, DropIs
    <3> HIDE DEF M
    <3>4. M[p][i] = x
      BY <3>1, <3>2, <3>3
    <3> QED BY <3>2, <3>3, <3>4 DEF Placed
  <2>4. CASE r # p
    <3>1. M[r] = L[r]
      BY <2>4, DropIs
    <3> HIDE DEF M
    <3> QED BY <2>2, <3>1 DEF Placed
  <2> QED BY <2>3, <2>4
<1> QED BY <1>3, <1>4, <1>5
-----------------------------------------------------------------------------
LEMMA AtDrop ==
  ASSUME NEW L \in Families, NEW p \in Connectors, NEW k \in 1..Len(L[p]),
         NEW m \in Int
  PROVE  At(Drop(L, p, k)[p], m) = IF m < k THEN At(L[p], m) ELSE At(L[p], m + 1)
<1>1. /\ Len(L[p]) \in Nat \ {0} /\ Len(Drop(L, p, k)[p]) = Len(L[p]) - 1
      /\ m \in 1 .. Len(L[p]) - 1 =>
           Drop(L, p, k)[p][m] = IF m < k THEN L[p][m] ELSE L[p][m + 1]
  BY DropIs
<1> QED BY <1>1 DEF At

LEMMA SplicedChain ==
  ASSUME NEW s \in Pools, NEW L \in Families, NEW p \in Connectors,
         NEW k \in 1..Len(L[p]), Apart(L), Chained(s, L), AllLoose(s, L)
  PROVE  /\ Chained(Spliced(s, L[p][k]), Drop(L, p, k))
         /\ AllLoose(Spliced(s, L[p][k]), Drop(L, p, k))
<1> DEFINE b == L[p][k]
           t == Spliced(s, b)
           M == Drop(L, p, k)
<1>1. /\ b \in Buffers /\ b # FF /\ Len(L[p]) \in Nat
      /\ \A r \in Connectors : \A i \in 1..Len(L[r]) :
           L[r][i] \in Buffers /\ L[r][i] # FF
  BY FamilyTyped
<1>2. s.Next[b] = At(L[p], k + 1) /\ s.Prev[b] = At(L[p], k - 1)
  BY DEF Chained
<1>3. \A x \in Buffers :
        /\ t.Next[x] = IF x = b THEN FF ELSE IF x = s.Prev[b] THEN s.Next[b]
                       ELSE s.Next[x]
        /\ t.Prev[x] = IF x = b THEN FF ELSE IF x = s.Next[b] THEN s.Prev[b]
                       ELSE s.Prev[x]
  <2>1. /\ t.Next = [x \in Buffers |-> IF x = b THEN FF
                                       ELSE IF x = s.Prev[b] THEN s.Next[b]
                                       ELSE s.Next[x]]
        /\ t.Prev = [x \in Buffers |-> IF x = b THEN FF
                                       ELSE IF x = s.Next[b] THEN s.Prev[b]
                                       ELSE s.Prev[x]]
    <3>1. b \in Buffers
      BY <1>1
    <3> HIDE DEF b
    <3> QED BY <3>1, SplicedTyped
  <2> HIDE DEF t, b
  <2> QED BY <2>1
<1>4. ASSUME NEW r \in Connectors, NEW i \in 1..Len(M[r])
      PROVE  /\ t.Next[M[r][i]] = At(M[r], i + 1)
             /\ t.Prev[M[r][i]] = At(M[r], i - 1)
  <2> DEFINE j == Was(p, k, r, i)
             x == L[r][j]
  <2>1. /\ j \in 1..Len(L[r]) /\ M[r][i] = x /\ (r = p => j # k)
        /\ Len(L[r]) \in Nat /\ Len(M[r]) \in Nat
    <3>1. M \in Families
      BY DropIs
    <3>2. j \in 1..Len(L[r]) /\ M[r][i] = x /\ (r = p => j # k)
      BY DropPlaces
    <3> HIDE DEF M, j, x
    <3> QED BY <3>1, <3>2, FamilyTyped
  <2>2. x \in Buffers /\ x # b /\ x # FF
    BY <1>1, <2>1 DEF Apart
  <2>3. x = At(L[p], k - 1) <=> r = p /\ j = k - 1
    <3> HIDE DEF j
    <3> QED BY <1>1, <2>1, <2>2 DEF At, Apart
  <2>4. x = At(L[p], k + 1) <=> r = p /\ j = k + 1
    <3> HIDE DEF j
    <3> QED BY <1>1, <2>1, <2>2 DEF At, Apart
  <2>5. s.Next[x] = At(L[r], j + 1) /\ s.Prev[x] = At(L[r], j - 1)
    BY <2>1 DEF Chained
  <2>6. t.Next[x] = IF r = p /\ j = k - 1 THEN At(L[p], k + 1)
                    ELSE At(L[r], j + 1)
    BY <1>2, <1>3, <2>2, <2>3, <2>5
  <2>7. t.Prev[x] = IF r = p /\ j = k + 1 THEN At(L[p], k - 1)
                    ELSE At(L[r], j - 1)
    BY <1>2, <1>3, <2>2, <2>4, <2>5
  <2>8. CASE r # p
    <3>1. M[r] = L[r] /\ j = i
      BY <2>8, DropIs DEF Was
    <3> QED BY <2>1, <2>6, <2>7, <2>8, <3>1
  <2>9. CASE r = p
    <3>1. /\ At(M[p], i + 1) = IF i + 1 < k THEN At(L[p], i + 1)
                               ELSE At(L[p], (i + 1) + 1)
          /\ At(M[p], i - 1) = IF i - 1 < k THEN At(L[p], i - 1)
                               ELSE At(L[p], (i - 1) + 1)
      <4>1. i + 1 \in Int /\ i - 1 \in Int
        BY <2>1
      <4> QED BY <4>1, AtDrop
    <3>2. j = IF i >= k THEN i + 1 ELSE i
      BY <2>9 DEF Was
    <3>3. i \in Nat /\ k \in Nat
      BY <1>1, <2>1
    <3> HIDE DEF j, M, t, x
    <3>4. t.Next[x] = At(M[p], i + 1)
      <4>1. CASE i >= k
        <5>1. j = i + 1 /\ j # k - 1 /\ ~(i + 1 < k) /\ j + 1 = (i + 1) + 1
          BY <3>2, <3>3, <4>1
        <5> QED BY <2>6, <2>9, <3>1, <5>1
      <4>2. CASE i = k - 1
        <5>1. j = k - 1 /\ ~(i + 1 < k) /\ k + 1 = (i + 1) + 1
          BY <3>2, <3>3, <4>2
        <5> QED BY <2>6, <2>9, <3>1, <5>1
      <4>3. CASE i < k - 1
        <5>1. j = i /\ j # k - 1 /\ i + 1 < k
          BY <3>2, <3>3, <4>3
        <5> QED BY <2>6, <2>9, <3>1, <5>1
      <4> QED BY <3>3, <4>1, <4>2, <4>3
    <3>5. t.Prev[x] = At(M[p], i - 1)
      <4>1. CASE i > k
        <5>1. j = i + 1 /\ j # k + 1 /\ ~(i - 1 < k) /\ j - 1 = (i - 1) + 1
          BY <3>2, <3>3, <4>1
        <5> QED BY <2>7, <2>9, <3>1, <5>1
      <4>2. CASE i = k
        <5>1. j = k + 1 /\ i - 1 < k /\ k - 1 = i - 1
          BY <3>2, <3>3, <4>2
        <5> QED BY <2>7, <2>9, <3>1, <5>1
      <4>3. CASE i < k
        <5>1. j = i /\ j # k + 1 /\ i - 1 < k
          BY <3>2, <3>3, <4>3
        <5> QED BY <2>7, <2>9, <3>1, <5>1
      <4> QED BY <3>3, <4>1, <4>2, <4>3
    <3> QED BY <2>1, <2>9, <3>4, <3>5
  <2> QED BY <2>8, <2>9
<1>5. Chained(t, M)
  BY <1>4 DEF Chained
<1>6. ASSUME NEW y \in Buffers, ~Placed(M, y) PROVE Loose(t, y)
  <2>1. CASE y = b
    BY <1>3, <2>1 DEF Loose
  <2>2. CASE y # b
    <3>1. ~Placed(L, y)
      BY <1>6, <2>2, DropFamily
    <3>2. s.Next[y] = FF /\ s.Prev[y] = FF
      BY <3>1 DEF AllLoose, Loose
    <3>3. \A m \in Int : y # At(L[p], m)
      <4>1. y # FF
        BY FFNoBuffer
      <4> QED BY <3>1, <4>1 DEF At, Placed
    <3>4. y # s.Prev[b] /\ y # s.Next[b]
      BY <1>1, <1>2, <3>3
    <3>5. t.Next[y] = s.Next[y] /\ t.Prev[y] = s.Prev[y]
      BY <1>3, <2>2, <3>4
    <3> HIDE DEF t
    <3> QED BY <3>2, <3>5 DEF Loose
  <2> QED BY <2>1, <2>2
<1> QED BY <1>5, <1>6 DEF AllLoose
-----------------------------------------------------------------------------
LEMMA AllocateShape ==
  ASSUME NEW s, NEW L, Shape(s, L), L[FF] # <<>>
  PROVE  /\ s.FirstFreeBuf = L[FF][1] /\ 1 \in 1..Len(L[FF])
         /\ Shape(Buffer_Allocate(s), Drop(L, FF, 1))
<1> DEFINE b == s.FirstFreeBuf
           t == Buffer_Allocate(s)
           M == Drop(L, FF, 1)
<1>0. FF \in Connectors /\ FF \notin Selectors
  BY FFNoSelector
<1>1. /\ s \in Pools /\ L \in Families /\ s.ok /\ Apart(L) /\ Chained(s, L)
      /\ AllLoose(s, L) /\ Counted(s, L)
  BY DEF Shape
<1>2. /\ L[FF] \in Seq(Buffers) /\ 1 \in 1..Len(L[FF]) /\ b = L[FF][1]
      /\ b \in Buffers /\ b # FF /\ Len(L[FF]) \in Nat
  <2>1. L[FF] \in Seq(Buffers) /\ 1 \in 1..Len(L[FF]) /\ Len(L[FF]) \in Nat
    BY <1>0, <1>1, FamilyTyped
  <2>2. b = L[FF][1]
    BY <1>1, <2>1 DEF Counted, At
  <2> HIDE DEF b
  <2> QED BY <1>0, <1>1, <2>1, <2>2, FamilyTyped
<1>3. s.Prev[b] = FF /\ s.Next[b] = At(L[FF], 2)
  <2>1. s.Prev[L[FF][1]] = At(L[FF], 1 - 1) /\ s.Next[L[FF][1]] = At(L[FF], 1 + 1)
    BY <1>0, <1>1, <1>2 DEF Chained
  <2> HIDE DEF b
  <2> QED BY <1>2, <2>1 DEF At
<1>4. /\ t \in Pools
      /\ t.ok <=> s.ok /\ s.FreeBufferCount > 0 /\ s.Prev[b] = FF
      /\ t.Next = Spliced(s, b).Next /\ t.Prev = Spliced(s, b).Prev
      /\ t.FirstBuf = s.FirstBuf /\ t.LastBuf = s.LastBuf
      /\ t.Count = s.Count /\ t.FirstFreeBuf = s.Next[b]
      /\ t.FreeBufferCount = s.FreeBufferCount - 1
  BY <1>1, <1>2, AllocateTyped
<1>5. Chained(Spliced(s, b), M) /\ AllLoose(Spliced(s, b), M)
  <2> HIDE DEF b
  <2> QED BY <1>0, <1>1, <1>2, SplicedChain
<1>6. M \in Families /\ Apart(M) /\ Len(M[FF]) = Len(L[FF]) - 1
      /\ \A r \in Selectors : M[r] = L[r]
  BY <1>0, <1>1, <1>2, DropIs, DropFamily DEF Connectors
<1>7. At(M[FF], 1) = At(L[FF], 2)
  <2> DEFINE k == 1
             m == 1
  <2>1. k \in 1..Len(L[FF]) /\ m \in Int /\ ~(m < k) /\ m + 1 = 2 /\ M = Drop(L, FF, k)
    BY <1>2
  <2> HIDE DEF k, M
  <2>2. At(M[FF], m) = At(L[FF], m + 1)
    <3> HIDE DEF m
    <3> QED BY ONLY <1>0, <1>1, <2>1, AtDrop
  <2> QED BY <2>1, <2>2
<1>8. Chained(t, M) /\ AllLoose(t, M)
  <2> HIDE DEF t, M, b
  <2> QED BY <1>4, <1>5 DEF Chained, AllLoose, Loose
<1>9. s.FreeBufferCount = Len(L[FF])
  BY <1>1 DEF Counted
<1>10. t.ok
  BY <1>1, <1>2, <1>3, <1>4, <1>9
<1>11. Counted(t, M)
  <2> HIDE DEF t, M, b
  <2> QED BY <1>1, <1>3, <1>4, <1>6, <1>7, <1>9 DEF Counted
<1> QED BY <1>2, <1>4, <1>6, <1>8, <1>10, <1>11 DEF Shape

LEMMA UnlinkShape ==
  ASSUME NEW s, NEW L, Shape(s, L), NEW p \in Selectors, NEW k \in 1..Len(L[p])
  PROVE  Shape(Partition_UnlinkBuffer(s, p, L[p][k]), Drop(L, p, k))
<1> DEFINE b == L[p][k]
           t == Partition_UnlinkBuffer(s, p, b)
           M == Drop(L, p, k)
           n == Len(L[p])
<1>0. p \in Connectors /\ p # FF /\ FF \in Connectors
  BY FFNoSelector DEF Connectors
<1>1. /\ s \in Pools /\ L \in Families /\ s.ok /\ Apart(L) /\ Chained(s, L)
      /\ AllLoose(s, L) /\ Counted(s, L)
  BY DEF Shape
<1>2. /\ n \in Nat /\ k \in Nat /\ 1 <= k /\ k <= n /\ b \in Buffers
      /\ \A i \in 1..n : L[p][i] # FF
  BY <1>0, <1>1, FamilyTyped
<1>3. s.Prev[b] = At(L[p], k - 1) /\ s.Next[b] = At(L[p], k + 1)
  BY <1>0, <1>1 DEF Chained
<1>4. /\ s.FirstBuf[p] = At(L[p], 1) /\ s.LastBuf[p] = At(L[p], n)
      /\ s.Count[p] = n
  BY <1>1 DEF Counted
<1>5. /\ s.Prev[b] = FF <=> k = 1
      /\ s.Next[b] = FF <=> k = n
  BY <1>2, <1>3 DEF At
<1>6. /\ s.FirstBuf[p] = b <=> k = 1
      /\ s.LastBuf[p] = b <=> k = n
  <2>1. 1 \in 1..n /\ n \in 1..n /\ k \in 1..n
    BY <1>2
  <2>2. At(L[p], 1) = L[p][1] /\ At(L[p], n) = L[p][n]
    BY <2>1 DEF At
  <2> QED BY <1>0, <1>1, <1>4, <2>1, <2>2 DEF Apart
<1>7. /\ t \in Pools
      /\ t.ok <=> /\ s.ok /\ s.Count[p] > 0
                  /\ (s.Prev[b] = FF) = (s.FirstBuf[p] = b)
                  /\ (s.Next[b] = FF) = (s.LastBuf[p] = b)
      /\ t.Next = Spliced(s, b).Next /\ t.Prev = Spliced(s, b).Prev
      /\ t.FirstBuf = [s.FirstBuf EXCEPT ![p] = IF s.Prev[b] = FF
                         THEN s.Next[b] ELSE s.FirstBuf[p]]
      /\ t.LastBuf = [s.LastBuf EXCEPT ![p] = IF s.Next[b] = FF
                        THEN s.Prev[b] ELSE s.LastBuf[p]]
      /\ t.Count = [s.Count EXCEPT ![p] = s.Count[p] - 1]
      /\ t.FirstFreeBuf = s.FirstFreeBuf
      /\ t.FreeBufferCount = s.FreeBufferCount
  <2>1. b \in Buffers
    BY <1>2
  <2> HIDE DEF b
  <2> QED BY <1>1, <2>1, UnlinkTyped
<1>8. Chained(Spliced(s, b), M) /\ AllLoose(Spliced(s, b), M)
  BY <1>0, <1>1, SplicedChain
<1>9. /\ M \in Families /\ Apart(M) /\ Len(M[p]) = n - 1
      /\ \A r \in Connectors : r # p => M[r] = L[r]
  BY <1>0, <1>1, DropIs, DropFamily
<1>10. /\ At(M[p], 1) = IF 1 < k THEN At(L[p], 1) ELSE At(L[p], 1 + 1)
       /\ At(M[p], n - 1) = IF n - 1 < k THEN At(L[p], n - 1)
                            ELSE At(L[p], (n - 1) + 1)
  <2>1. 1 \in Int /\ n - 1 \in Int
    BY <1>2
  <2> QED BY <1>0, <1>1, <2>1, AtDrop
<1> HIDE DEF t, M, b
<1>11. Chained(t, M) /\ AllLoose(t, M)
  BY <1>7, <1>8 DEF Chained, AllLoose, Loose
<1>12. t.ok
  <2>1. s.Count[p] > 0
    BY <1>2, <1>4
  <2>2. (s.Prev[b] = FF) = (s.FirstBuf[p] = b)
    BY <1>5, <1>6
  <2>3. (s.Next[b] = FF) = (s.LastBuf[p] = b)
    BY <1>5, <1>6
  <2> QED BY <1>1, <1>7, <2>1, <2>2, <2>3
<1>13. /\ t.FirstBuf[p] = At(M[p], 1) /\ t.LastBuf[p] = At(M[p], Len(M[p]))
       /\ t.Count[p] = Len(M[p])
  <2>1. /\ s.FirstBuf \in [Selectors -> Links] /\ s.Count \in [Selectors -> Int]
        /\ s.LastBuf \in [Selectors -> Links]
    BY <1>1 DEF Pools
  <2>2. /\ t.FirstBuf[p] = IF s.Prev[b] = FF THEN s.Next[b] ELSE s.FirstBuf[p]
        /\ t.LastBuf[p] = IF s.Next[b] = FF THEN s.Prev[b] ELSE s.LastBuf[p]
        /\ t.Count[p] = n - 1
    BY <1>4, <1>7, <2>1
  <2>3. t.FirstBuf[p] = At(M[p], 1)
    <3>1. CASE k = 1
      <4>1. t.FirstBuf[p] = At(L[p], 1 + 1)
        BY <1>3, <1>5, <2>2, <3>1
      <4> QED BY <1>10, <3>1, <4>1
    <3>2. CASE k # 1
      <4>1. 1 < k
        BY <1>2, <3>2
      <4> QED BY <1>4, <1>5, <1>10, <2>2, <3>2, <4>1
    <3> QED BY <3>1, <3>2
  <2>4. t.LastBuf[p] = At(M[p], n - 1)
    <3>1. CASE k = n
      <4>1. n - 1 < k
        BY <1>2, <3>1
      <4> QED BY <1>3, <1>5, <1>10, <2>2, <3>1, <4>1
    <3>2. CASE k # n
      <4>1. ~(n - 1 < k) /\ (n - 1) + 1 = n
        BY <1>2, <3>2
      <4> QED BY <1>4, <1>5, <1>10, <2>2, <3>2, <4>1
    <3> QED BY <3>1, <3>2
  <2> QED BY <1>9, <2>2, <2>3, <2>4
<1>14. Counted(t, M)
  <2>1. ASSUME NEW r \in Selectors, r # p
        PROVE  /\ t.FirstBuf[r] = At(M[r], 1) /\ t.Count[r] = Len(M[r])
               /\ t.LastBuf[r] = At(M[r], Len(M[r]))
    <3>1. M[r] = L[r]
      BY <1>9, <2>1 DEF Connectors
    <3>2. /\ t.FirstBuf[r] = s.FirstBuf[r] /\ t.LastBuf[r] = s.LastBuf[r]
          /\ t.Count[r] = s.Count[r]
      <4>1. /\ s.FirstBuf \in [Selectors -> Links]
            /\ s.Count \in [Selectors -> Int]
            /\ s.LastBuf \in [Selectors -> Links]
        BY <1>1 DEF Pools
      <4> QED BY <1>7, <2>1, <4>1
    <3> QED BY <1>1, <3>1, <3>2 DEF Counted
  <2>2. M[FF] = L[FF]
    BY <1>0, <1>9
  <2> QED BY <1>1, <1>7, <1>13, <2>1, <2>2 DEF Counted
<1>15. Shape(t, M)
  BY <1>7, <1>9, <1>11, <1>12, <1>14 DEF Shape
<1> QED BY <1>15 DEF t, M, b
-----------------------------------------------------------------------------
(* A list with b as its k-th buffer.                                        *)
Inserted(l, k, b) ==
  [i \in 1 .. Len(l) + 1 |-> IF i < k THEN l[i] ELSE IF i = k THEN b
                             ELSE l[i - 1]]
Insert(L, p, k, b) == [L EXCEPT ![p] = Inserted(L[p], k, b)]

LEMMA InsertIs ==
  ASSUME NEW L \in Families, NEW p \in Connectors, NEW k \in 1 .. Len(L[p]) + 1,
         NEW b \in Buffers
  PROVE  /\ Insert(L, p, k, b) \in Families
         /\ \A r \in Connectors : r # p => Insert(L, p, k, b)[r] = L[r]
         /\ Len(L[p]) \in Nat
         /\ Len(Insert(L, p, k, b)[p]) = Len(L[p]) + 1
         /\ \A i \in 1 .. Len(L[p]) + 1 :
              Insert(L, p, k, b)[p][i] = IF i < k THEN L[p][i]
                                         ELSE IF i = k THEN b ELSE L[p][i - 1]
<1> DEFINE l == L[p]
<1>1. l \in Seq(Buffers) /\ Len(l) \in Nat
  BY FamilyTyped
<1>2. \A i \in 1 .. Len(l) + 1 :
        (IF i < k THEN l[i] ELSE IF i = k THEN b ELSE l[i - 1]) \in Buffers
  <2>0. k \in 1 .. Len(l) + 1
    OBVIOUS
  <2> HIDE DEF l
  <2>1. ASSUME NEW i \in 1 .. Len(l) + 1, i < k PROVE i \in 1..Len(l)
    BY <1>1, <2>0, <2>1
  <2>2. ASSUME NEW i \in 1 .. Len(l) + 1, ~(i < k), i # k
        PROVE  i - 1 \in 1..Len(l)
    BY <1>1, <2>0, <2>2
  <2> QED BY <1>1, <2>1, <2>2
<1>3. Inserted(l, k, b) \in Seq(Buffers) /\ Len(Inserted(l, k, b)) = Len(l) + 1
  <2> HIDE DEF l
  <2> QED BY <1>1, <1>2 DEF Inserted
<1>4. /\ Insert(L, p, k, b) \in Families
      /\ \A r \in Connectors : r # p => Insert(L, p, k, b)[r] = L[r]
      /\ Insert(L, p, k, b)[p] = Inserted(l, k, b)
  BY <1>3 DEF Families, Insert
<1> QED BY <1>1, <1>3, <1>4 DEF Inserted

LEMMA AtInsert ==
  ASSUME NEW L \in Families, NEW p \in Connectors, NEW k \in 1 .. Len(L[p]) + 1,
         NEW b \in Buffers, NEW m \in Int
  PROVE  At(Insert(L, p, k, b)[p], m) = IF m < k THEN At(L[p], m)
                                        ELSE IF m = k THEN b
                                        ELSE At(L[p], m - 1)
<1>1. /\ Len(L[p]) \in Nat /\ Len(Insert(L, p, k, b)[p]) = Len(L[p]) + 1
      /\ m \in 1 .. Len(L[p]) + 1 =>
           Insert(L, p, k, b)[p][m] = IF m < k THEN L[p][m]
                                      ELSE IF m = k THEN b ELSE L[p][m - 1]
  BY InsertIs
<1> QED BY <1>1 DEF At

(* Where the buffers come from.                                             *)
From(p, k, r, i) == IF r = p /\ i > k THEN i - 1 ELSE i

LEMMA InsertPlaces ==
  ASSUME NEW L \in Families, NEW p \in Connectors, NEW k \in 1 .. Len(L[p]) + 1,
         NEW b \in Buffers,
         NEW r \in Connectors, NEW i \in 1..Len(Insert(L, p, k, b)[r])
  PROVE  \/ r = p /\ i = k /\ Insert(L, p, k, b)[r][i] = b
         \/ /\ ~(r = p /\ i = k) /\ From(p, k, r, i) \in 1..Len(L[r])
            /\ Insert(L, p, k, b)[r][i] = L[r][From(p, k, r, i)]
<1>1. CASE r = p
  <2>1. i \in 1 .. Len(L[p]) + 1 /\ Len(L[p]) \in Nat /\ k \in Nat
    BY <1>1, InsertIs
  <2>2. Insert(L, p, k, b)[p][i] = IF i < k THEN L[p][i]
                                   ELSE IF i = k THEN b ELSE L[p][i - 1]
    BY <2>1, InsertIs
  <2> QED BY <1>1, <2>1, <2>2 DEF From
<1>2. CASE r # p
  <2>1. Insert(L, p, k, b)[r] = L[r]
    BY <1>2, InsertIs
  <2> QED BY <1>2, <2>1 DEF From
<1> QED BY <1>1, <1>2

LEMMA InsertFamily ==
  ASSUME NEW L \in Families, NEW p \in Connectors, NEW k \in 1 .. Len(L[p]) + 1,
         NEW b \in Buffers, Apart(L), ~Placed(L, b)
  PROVE  /\ Apart(Insert(L, p, k, b))
         /\ \A x : Placed(Insert(L, p, k, b), x) <=> Placed(L, x) \/ x = b
<1> DEFINE M == Insert(L, p, k, b)
<1>1. /\ \A r \in Connectors : Len(M[r]) \in Nat /\ Len(L[r]) \in Nat
      /\ k \in Nat
  BY InsertIs, FamilyTyped
<1>2. \A r \in Connectors : \A i \in 1..Len(M[r]) :
         \/ r = p /\ i = k /\ M[r][i] = b
         \/ /\ ~(r = p /\ i = k) /\ From(p, k, r, i) \in 1..Len(L[r])
            /\ M[r][i] = L[r][From(p, k, r, i)]
  BY InsertPlaces
<1>3. \A r \in Connectors : \A j \in 1..Len(L[r]) : L[r][j] # b
  BY DEF Placed
<1>4. Apart(M)
  <2> SUFFICES ASSUME NEW r \in Connectors, NEW q \in Connectors,
                      NEW i \in 1..Len(M[r]), NEW h \in 1..Len(M[q]),
                      M[r][i] = M[q][h]
               PROVE  r = q /\ i = h
    BY DEF Apart
  <2> HIDE DEF M
  <2>1. CASE M[r][i] = b
    <3>1. r = p /\ i = k
      BY <1>2, <1>3, <2>1
    <3>2. q = p /\ h = k
      <4>1. M[q][h] = b
        BY <2>1
      <4> QED BY <1>2, <1>3, <4>1
    <3> QED BY <3>1, <3>2
  <2>2. CASE M[r][i] # b
    <3>1. /\ ~(r = p /\ i = k) /\ From(p, k, r, i) \in 1..Len(L[r])
          /\ ~(q = p /\ h = k) /\ From(p, k, q, h) \in 1..Len(L[q])
          /\ L[r][From(p, k, r, i)] = L[q][From(p, k, q, h)]
      BY <1>2, <2>2
    <3>2. r = q /\ From(p, k, r, i) = From(p, k, q, h)
      BY <3>1 DEF Apart
    <3> QED BY <1>1, <3>1, <3>2 DEF From
  <2> QED BY <2>1, <2>2
<1>5. ASSUME NEW x, Placed(M, x)
      PROVE  Placed(L, x) \/ x = b
  <2> HIDE DEF M
  <2>1. PICK r \in Connectors : \E i \in 1..Len(M[r]) : M[r][i] = x
    BY <1>5 DEF Placed
  <2>2. PICK i \in 1..Len(M[r]) : M[r][i] = x
    BY <2>1
  <2> QED BY <1>2, <2>2 DEF Placed
<1>6. Placed(M, b)
  <2>1. k \in 1..Len(M[p]) /\ M[p][k] = b
    BY <1>1, InsertIs
  <2> HIDE DEF M
  <2> QED BY <2>1 DEF Placed
<1>7. ASSUME NEW x, Placed(L, x)
      PROVE  Placed(M, x)
  <2>1. PICK r \in Connectors : \E j \in 1..Len(L[r]) : L[r][j] = x
    BY <1>7 DEF Placed
  <2>2. PICK j \in 1..Len(L[r]) : L[r][j] = x
    BY <2>1
  <2>3. CASE r = p
    <3> DEFINE i == IF j < k THEN j ELSE j + 1
    <3>1. /\ i \in 1 .. Len(L[p]) + 1 /\ i # k /\ (i < k <=> j < k)
          /\ (j >= k => i - 1 = j) /\ (j < k => i = j)
      BY <1>1, <2>2, <2>3
    <3> HIDE DEF i
    <3>2. /\ Len(M[p]) = Len(L[p]) + 1
          /\ M[p][i] = IF i < k THEN L[p][i] ELSE IF i = k THEN b
                       ELSE L[p][i - 1]
      BY <3>1, InsertIs
    <3> HIDE DEF M
    <3>3. M[p][i] = x
      BY <1>1, <2>2, <2>3, <3>1, <3>2
    <3> QED BY <3>1, <3>2, <3>3 DEF Placed
  <2>4. CASE r # p
    <3>1. M[r] = L[r]
      BY <2>4, InsertIs
    <3> HIDE DEF M
    <3> QED BY <2>2, <3>1 DEF Placed
  <2> QED BY <2>3, <2>4
<1> QED BY <1>4, <1>5, <1>6, <1>7

(* The links around the new buffer are the only ones that change.           *)
LEMMA InsertChain ==
  ASSUME NEW s, NEW t, NEW L \in Families, NEW p \in Connectors,
         NEW k \in 1 .. Len(L[p]) + 1, NEW b \in Buffers,
         Apart(L), Chained(s, L), AllLoose(s, L), ~Placed(L, b),
         \A x \in Buffers :
           /\ t.Next[x] = IF x = b THEN At(L[p], k)
                          ELSE IF x = At(L[p], k - 1) THEN b ELSE s.Next[x]
           /\ t.Prev[x] = IF x = b THEN At(L[p], k - 1)
                          ELSE IF x = At(L[p], k) THEN b ELSE s.Prev[x]
  PROVE  Chained(t, Insert(L, p, k, b)) /\ AllLoose(t, Insert(L, p, k, b))
<1> DEFINE M == Insert(L, p, k, b)
<1>1. /\ Len(L[p]) \in Nat /\ k \in Nat
      /\ \A r \in Connectors : \A i \in 1..Len(L[r]) :
           L[r][i] \in Buffers /\ L[r][i] # FF /\ L[r][i] # b
  BY FamilyTyped DEF Placed
<1>2. ASSUME NEW r \in Connectors, NEW i \in 1..Len(M[r])
      PROVE  /\ t.Next[M[r][i]] = At(M[r], i + 1)
             /\ t.Prev[M[r][i]] = At(M[r], i - 1)
  <2>0. Len(M[r]) \in Nat /\ Len(L[r]) \in Nat /\ i \in Nat
    BY InsertIs, FamilyTyped
  <2>1. r = p =>
          /\ At(M[p], i + 1) = IF i + 1 < k THEN At(L[p], i + 1)
                               ELSE IF i + 1 = k THEN b
                               ELSE At(L[p], (i + 1) - 1)
          /\ At(M[p], i - 1) = IF i - 1 < k THEN At(L[p], i - 1)
                               ELSE IF i - 1 = k THEN b
                               ELSE At(L[p], (i - 1) - 1)
    <3>1. i + 1 \in Int /\ i - 1 \in Int
      BY <2>0
    <3> QED BY <3>1, AtInsert
  <2>2. CASE r = p /\ i = k
    <3>1. M[r][i] = b
      BY <1>1, <2>2, InsertIs
    <3>2. At(M[p], i + 1) = At(L[p], k) /\ At(M[p], i - 1) = At(L[p], k - 1)
      BY <1>1, <2>1, <2>2
    <3> HIDE DEF M
    <3> QED BY <2>2, <3>1, <3>2
  <2>3. CASE ~(r = p /\ i = k)
    <3> DEFINE j == From(p, k, r, i)
               x == L[r][j]
    <3>1. j \in 1..Len(L[r]) /\ M[r][i] = x
      BY <2>3, InsertPlaces
    <3> HIDE DEF j, M
    <3>2. x \in Buffers /\ x # b /\ x # FF
      BY <1>1, <3>1
    <3>3. x = At(L[p], k - 1) <=> r = p /\ j = k - 1
      BY <1>1, <2>0, <3>1, <3>2 DEF At, Apart
    <3>4. x = At(L[p], k) <=> r = p /\ j = k
      BY <1>1, <2>0, <3>1, <3>2 DEF At, Apart
    <3>5. s.Next[x] = At(L[r], j + 1) /\ s.Prev[x] = At(L[r], j - 1)
      BY <3>1 DEF Chained
    <3>6. /\ t.Next[x] = IF r = p /\ j = k - 1 THEN b ELSE At(L[r], j + 1)
          /\ t.Prev[x] = IF r = p /\ j = k THEN b ELSE At(L[r], j - 1)
      BY <3>2, <3>3, <3>4, <3>5
    <3>7. CASE r # p
      <4>1. M[r] = L[r]
        BY <3>7, InsertIs DEF M
      <4>2. j = i
        BY <3>7 DEF From, j
      <4> QED BY <3>1, <3>6, <3>7, <4>1, <4>2
    <3>8. CASE r = p
      <4>1. i # k /\ j = IF i > k THEN i - 1 ELSE i
        BY <2>3, <3>8 DEF From, j
      <4> HIDE DEF x
      <4>2. CASE i > k
        <5>1. /\ j = i - 1 /\ j # k - 1 /\ j + 1 = (i + 1) - 1
              /\ ~(i + 1 < k) /\ i + 1 # k /\ ~(i - 1 < k)
              /\ (i - 1 = k <=> j = k) /\ j - 1 = (i - 1) - 1
          BY <1>1, <2>0, <4>1, <4>2
        <5>2. t.Next[x] = At(M[p], i + 1)
          BY <2>1, <3>6, <3>8, <5>1
        <5>3. t.Prev[x] = At(M[p], i - 1)
          BY <2>1, <3>6, <3>8, <5>1
        <5> QED BY <3>1, <3>8, <5>2, <5>3
      <4>3. CASE i < k
        <5>1. /\ j = i /\ j # k /\ i - 1 < k /\ ~(i + 1 > k)
              /\ (j = k - 1 <=> i + 1 = k) /\ (i + 1 < k <=> i + 1 # k)
          BY <1>1, <2>0, <4>1, <4>3
        <5>2. t.Next[x] = At(M[p], i + 1)
          BY <2>1, <3>6, <3>8, <5>1
        <5>3. t.Prev[x] = At(M[p], i - 1)
          BY <2>1, <3>6, <3>8, <5>1
        <5> QED BY <3>1, <3>8, <5>2, <5>3
      <4> QED BY <1>1, <2>0, <4>1, <4>2, <4>3
    <3> QED BY <3>7, <3>8
  <2> QED BY <2>2, <2>3
<1>3. Chained(t, M)
  BY <1>2 DEF Chained
<1>4. ASSUME NEW y \in Buffers, ~Placed(M, y) PROVE Loose(t, y)
  <2>1. y # b /\ ~Placed(L, y)
    BY <1>4, InsertFamily
  <2>2. s.Next[y] = FF /\ s.Prev[y] = FF
    BY <2>1 DEF AllLoose, Loose
  <2>3. \A m \in Int : y # At(L[p], m)
    <3>1. y # FF
      BY FFNoBuffer
    <3> QED BY <2>1, <3>1 DEF At, Placed
  <2>4. y # At(L[p], k - 1) /\ y # At(L[p], k)
    BY <1>1, <2>3
  <2>5. t.Next[y] = s.Next[y] /\ t.Prev[y] = s.Prev[y]
    BY <2>1, <2>4
  <2> QED BY <2>2, <2>5 DEF Loose
<1> QED BY <1>3, <1>4 DEF AllLoose
-----------------------------------------------------------------------------
LEMMA LinkShape ==
  ASSUME NEW s, NEW L, Shape(s, L), NEW p \in Selectors, NEW b \in Buffers,
         ~Placed(L, b)
  PROVE  /\ Len(L[p]) + 1 \in 1 .. Len(L[p]) + 1
         /\ Shape(Partition_LinkBuffer(s, p, b),
                  Insert(L, p, Len(L[p]) + 1, b))
<1> DEFINE t == Partition_LinkBuffer(s, p, b)
           n == Len(L[p])
           k == n + 1
           M == Insert(L, p, k, b)
           last == s.LastBuf[p]
<1>0. p \in Connectors /\ p # FF /\ FF \in Connectors /\ b # FF
  BY FFNoSelector, FFNoBuffer DEF Connectors
<1>1. /\ s \in Pools /\ L \in Families /\ s.ok /\ Apart(L) /\ Chained(s, L)
      /\ AllLoose(s, L) /\ Counted(s, L)
  BY DEF Shape
<1>2. n \in Nat /\ k \in 1 .. n + 1 /\ \A i \in 1..n : L[p][i] # FF
  BY <1>0, <1>1, FamilyTyped
<1>3. /\ s.FirstBuf[p] = At(L[p], 1) /\ last = At(L[p], n) /\ s.Count[p] = n
  BY <1>1 DEF Counted
<1>4. /\ last = At(L[p], k - 1) /\ At(L[p], k) = FF
      /\ last = FF <=> n = 0
      /\ s.FirstBuf[p] = FF <=> n = 0
      /\ last \in Buffers \/ last = FF
  <2>1. n # 0 => 1 \in 1..n /\ n \in 1..n
    BY <1>2
  <2>2. \A i \in 1..n : L[p][i] \in Buffers
    BY <1>0, <1>1, FamilyTyped
  <2>3. k - 1 = n /\ k \notin 1..n
    BY <1>2
  <2>4. n = 0 => 1 \notin 1..n /\ n \notin 1..n
    BY <1>2
  <2> HIDE DEF n, k, last
  <2> QED BY <1>2, <1>3, <2>1, <2>2, <2>3, <2>4 DEF At, n
<1>5. /\ t \in Pools
      /\ t.ok <=> /\ s.ok /\ Loose(s, b)
                  /\ (s.FirstBuf[p] = FF) = (last = FF)
      /\ t.Next = IF last = FF THEN s.Next ELSE [s.Next EXCEPT ![last] = b]
      /\ t.Prev = [s.Prev EXCEPT ![b] = last]
      /\ t.FirstBuf = [s.FirstBuf EXCEPT ![p] =
                         IF last = FF THEN b ELSE s.FirstBuf[p]]
      /\ t.LastBuf = [s.LastBuf EXCEPT ![p] = b]
      /\ t.Count = [s.Count EXCEPT ![p] = s.Count[p] + 1]
      /\ t.FirstFreeBuf = s.FirstFreeBuf
      /\ t.FreeBufferCount = s.FreeBufferCount
  <2>1. s \in Pools
    BY <1>1
  <2>2. LinksTo(s, p, b, t)
    BY <2>1, LinkTyped
  <2> HIDE DEF t
  <2> QED BY <2>2, Zenon DEF LinksTo
<1>6. s.Next[b] = FF /\ s.Prev[b] = FF
  BY <1>1 DEF AllLoose, Loose
<1> HIDE DEF t, n, k, M, last
<1>7. t.ok
  <2>1. (s.FirstBuf[p] = FF) = (last = FF)
    BY <1>4
  <2> QED BY <1>1, <1>5, <1>6, <2>1 DEF Loose
<1>8. \A x \in Buffers :
        /\ t.Next[x] = IF x = b THEN At(L[p], k)
                       ELSE IF x = At(L[p], k - 1) THEN b ELSE s.Next[x]
        /\ t.Prev[x] = IF x = b THEN At(L[p], k - 1)
                       ELSE IF x = At(L[p], k) THEN b ELSE s.Prev[x]
  <2>1. /\ s.Next \in [Buffers -> Links] /\ s.Prev \in [Buffers -> Links]
        /\ FF \notin Buffers
    BY <1>1, FFNoBuffer DEF Pools
  <2>2. last # b
    <3>1. n # 0 => n \in 1..n
      BY <1>2
    <3> QED BY <1>0, <1>2, <1>3, <3>1 DEF Placed, At, n
  <2> QED BY <1>4, <1>5, <1>6, <2>1, <2>2
<1>9. Chained(t, M) /\ AllLoose(t, M)
  BY <1>0, <1>1, <1>2, <1>8, InsertChain DEF M, n
<1>10. M \in Families /\ Apart(M)
  BY <1>0, <1>1, <1>2, InsertIs, InsertFamily DEF M, n
<1>11. /\ Len(M[p]) = n + 1
       /\ \A r \in Connectors : r # p => M[r] = L[r]
  BY <1>0, <1>1, <1>2, InsertIs DEF M, n
<1>12. /\ At(M[p], 1) = IF n = 0 THEN b ELSE At(L[p], 1)
       /\ At(M[p], k) = b
  <2>1. 1 \in Int /\ k \in Int /\ (1 < k <=> n # 0) /\ (n = 0 => k = 1)
    BY <1>2 DEF k
  <2>2. /\ At(M[p], 1) = IF 1 < k THEN At(L[p], 1) ELSE IF 1 = k THEN b
                         ELSE At(L[p], 1 - 1)
        /\ At(M[p], k) = IF k < k THEN At(L[p], k) ELSE IF k = k THEN b
                         ELSE At(L[p], k - 1)
    BY <1>0, <1>1, <1>2, <2>1, AtInsert DEF M, n
  <2> QED BY <2>1, <2>2
<1>13. /\ t.FirstBuf[p] = At(M[p], 1) /\ t.LastBuf[p] = At(M[p], Len(M[p]))
       /\ t.Count[p] = Len(M[p])
  <2>1. /\ s.FirstBuf \in [Selectors -> Links] /\ s.Count \in [Selectors -> Int]
        /\ s.LastBuf \in [Selectors -> Links]
    BY <1>1 DEF Pools
  <2>2. /\ t.FirstBuf[p] = IF last = FF THEN b ELSE s.FirstBuf[p]
        /\ t.LastBuf[p] = b /\ t.Count[p] = n + 1
    BY <1>3, <1>5, <2>1
  <2> QED BY <1>3, <1>4, <1>11, <1>12, <2>2 DEF k
<1>14. Counted(t, M)
  <2>1. ASSUME NEW r \in Selectors, r # p
        PROVE  /\ t.FirstBuf[r] = At(M[r], 1) /\ t.Count[r] = Len(M[r])
               /\ t.LastBuf[r] = At(M[r], Len(M[r]))
    <3>1. M[r] = L[r]
      BY <1>11, <2>1 DEF Connectors
    <3>2. /\ t.FirstBuf[r] = s.FirstBuf[r] /\ t.LastBuf[r] = s.LastBuf[r]
          /\ t.Count[r] = s.Count[r]
      <4>1. /\ s.FirstBuf \in [Selectors -> Links]
            /\ s.Count \in [Selectors -> Int]
            /\ s.LastBuf \in [Selectors -> Links]
        BY <1>1 DEF Pools
      <4> QED BY <1>5, <2>1, <4>1
    <3> QED BY <1>1, <3>1, <3>2 DEF Counted
  <2>2. M[FF] = L[FF]
    BY <1>0, <1>11
  <2> QED BY <1>1, <1>5, <1>13, <2>1, <2>2 DEF Counted
<1>15. Shape(t, M)
  BY <1>5, <1>7, <1>9, <1>10, <1>14 DEF Shape
<1> QED BY <1>2, <1>15 DEF t, M, k, n

LEMMA FreeShape ==
  ASSUME NEW s, NEW L, Shape(s, L), NEW b \in Buffers, ~Placed(L, b)
  PROVE  /\ 1 \in 1 .. Len(L[FF]) + 1
         /\ Shape(Buffer_Free(s, b), Insert(L, FF, 1, b))
<1> DEFINE t == Buffer_Free(s, b)
           n == Len(L[FF])
           k == 1
           M == Insert(L, FF, k, b)
           head == s.FirstFreeBuf
<1>0. FF \in Connectors /\ b # FF /\ FF \notin Selectors
  BY FFNoSelector, FFNoBuffer
<1>1. /\ s \in Pools /\ L \in Families /\ s.ok /\ Apart(L) /\ Chained(s, L)
      /\ AllLoose(s, L) /\ Counted(s, L)
  BY DEF Shape
<1>2. n \in Nat /\ k \in 1 .. n + 1 /\ \A i \in 1..n : L[FF][i] # FF
  BY <1>0, <1>1, FamilyTyped
<1>3. head = At(L[FF], 1) /\ s.FreeBufferCount = n
  BY <1>1 DEF Counted
<1>4. /\ At(L[FF], 0) = FF
      /\ head = FF <=> n = 0
      /\ head \in Buffers \/ head = FF
      /\ head # FF => s.Prev[head] = FF
  <2>1. n # 0 => 1 \in 1..n
    BY <1>2
  <2>2. \A i \in 1..n : L[FF][i] \in Buffers
    BY <1>0, <1>1, FamilyTyped
  <2>3. At(L[FF], 0) = FF
    BY DEF At
  <2>4. n = 0 => 1 \notin 1..n
    BY <1>2
  <2>5. ASSUME n # 0 PROVE s.Prev[head] = FF
    <3>1. s.Prev[L[FF][1]] = At(L[FF], 1 - 1)
      BY <1>0, <1>1, <2>1, <2>5 DEF Chained
    <3>2. head = L[FF][1]
      BY <1>3, <2>1, <2>5 DEF At
    <3> QED BY <2>3, <3>1, <3>2
  <2> HIDE DEF n, head
  <2> QED BY <1>2, <1>3, <2>1, <2>2, <2>3, <2>4, <2>5 DEF At, n
<1>5. /\ t \in Pools
      /\ t.ok <=> /\ s.ok /\ Loose(s, b)
                  /\ (head = FF) = (s.FreeBufferCount = 0)
                  /\ head # FF => s.Prev[head] = FF
      /\ t.Next = [s.Next EXCEPT ![b] = head]
      /\ t.Prev = IF head = FF THEN s.Prev ELSE [s.Prev EXCEPT ![head] = b]
      /\ t.FirstBuf = s.FirstBuf /\ t.LastBuf = s.LastBuf
      /\ t.Count = s.Count /\ t.FirstFreeBuf = b
      /\ t.FreeBufferCount = s.FreeBufferCount + 1
  BY <1>1, FreeTyped
<1>6. s.Next[b] = FF /\ s.Prev[b] = FF
  BY <1>1 DEF AllLoose, Loose
<1> HIDE DEF t, n, k, M, head
<1>7. t.ok
  <2>1. (head = FF) = (s.FreeBufferCount = 0)
    BY <1>3, <1>4
  <2> QED BY <1>1, <1>4, <1>5, <1>6, <2>1 DEF Loose
<1>8. \A x \in Buffers :
        /\ t.Next[x] = IF x = b THEN At(L[FF], k)
                       ELSE IF x = At(L[FF], k - 1) THEN b ELSE s.Next[x]
        /\ t.Prev[x] = IF x = b THEN At(L[FF], k - 1)
                       ELSE IF x = At(L[FF], k) THEN b ELSE s.Prev[x]
  <2>1. /\ s.Next \in [Buffers -> Links] /\ s.Prev \in [Buffers -> Links]
        /\ FF \notin Buffers
    BY <1>1, FFNoBuffer DEF Pools
  <2>2. head # b
    <3>1. n # 0 => 1 \in 1..n
      BY <1>2
    <3> QED BY <1>0, <1>2, <1>3, <3>1 DEF Placed, At, n
  <2>3. At(L[FF], k - 1) = FF /\ k = 1
    BY <1>4 DEF k
  <2> QED BY <1>3, <1>4, <1>5, <1>6, <2>1, <2>2, <2>3
<1>9. Chained(t, M) /\ AllLoose(t, M)
  BY <1>0, <1>1, <1>2, <1>8, InsertChain DEF M, n
<1>10. M \in Families /\ Apart(M)
  BY <1>0, <1>1, <1>2, InsertIs, InsertFamily DEF M, n
<1>11. /\ Len(M[FF]) = n + 1
       /\ \A r \in Connectors : r # FF => M[r] = L[r]
  BY <1>0, <1>1, <1>2, InsertIs DEF M, n
<1>12. At(M[FF], 1) = b
  <2>1. k \in Int
    BY DEF k
  <2>2. At(M[FF], k) = IF k < k THEN At(L[FF], k) ELSE IF k = k THEN b
                       ELSE At(L[FF], k - 1)
    BY <1>0, <1>1, <1>2, <2>1, AtInsert DEF M, n
  <2> QED BY <2>2 DEF k
<1>14. Counted(t, M)
  <2>1. \A r \in Selectors : M[r] = L[r]
    BY <1>0, <1>11 DEF Connectors
  <2> QED BY <1>1, <1>3, <1>5, <1>11, <1>12, <2>1 DEF Counted
<1>15. Shape(t, M)
  BY <1>5, <1>7, <1>9, <1>10, <1>14 DEF Shape
<1> QED BY <1>2, <1>15 DEF t, M, k, n

(* A buffer given to a list: first of those that are free, last of a        *)
(* partition.                                                               *)
Place(L, p) == IF p = FF THEN 1 ELSE Len(L[p]) + 1
Given(L, p, b) == Insert(L, p, Place(L, p), b)

LEMMA FilterShape ==
  ASSUME NEW s, NEW L, Shape(s, L), NEW b \in Buffers, ~Placed(L, b),
         NEW to \in Connectors
  PROVE  /\ Place(L, to) \in 1 .. Len(L[to]) + 1
         /\ Shape(FilterBuf(s, b, to), Given(L, to, b))
<1>1. CASE to = FF
  <2>1. FilterBuf(s, b, to) = Buffer_Free(s, b)
    BY <1>1 DEF FilterBuf
  <2>2. Place(L, to) = 1
    BY <1>1 DEF Place
  <2> QED BY <1>1, <2>1, <2>2, FreeShape DEF Given
<1>2. CASE to \in Selectors
  <2>1. FilterBuf(s, b, to) = Partition_LinkBuffer(s, to, b)
    BY <1>2, FFNoSelector DEF FilterBuf
  <2>2. Place(L, to) = Len(L[to]) + 1
    BY <1>2, FFNoSelector DEF Place
  <2> QED BY <1>2, <2>1, <2>2, LinkShape DEF Given
<1> QED BY <1>1, <1>2 DEF Connectors
-----------------------------------------------------------------------------
(* n buffers of a list from the o-th on, and the list without them.         *)
Piece(l, o, n) == [i \in 1..n |-> l[o + i]]
Cut(l, o, n) == [j \in 1 .. Len(l) - n |-> IF j <= o THEN l[j] ELSE l[j + n]]

LEMMA PieceIs ==
  ASSUME NEW l \in Seq(Buffers), NEW o \in Nat, NEW n \in Nat, o + n <= Len(l)
  PROVE  /\ Piece(l, o, n) \in Seq(Buffers) /\ Len(Piece(l, o, n)) = n
         /\ \A i \in 1..n : Piece(l, o, n)[i] = l[o + i] /\ o + i \in 1..Len(l)
         /\ SubSeq(l, o + 1, o + n) = Piece(l, o, n)
<1>1. \A i \in 1..n : o + i \in 1..Len(l) /\ l[o + i] \in Buffers
  OBVIOUS
<1>2. Piece(l, o, n) \in Seq(Buffers) /\ Len(Piece(l, o, n)) = n
  BY <1>1 DEF Piece
<1> DEFINE t == SubSeq(l, o + 1, o + n)
           u == Piece(l, o, n)
<1>3. t \in Seq(Buffers) /\ Len(t) = n /\ \A i \in 1..n : t[i] = l[o + i]
  OBVIOUS
<1>4. \A i \in 1..n : u[i] = l[o + i]
  BY DEF Piece
<1> HIDE DEF t, u
<1>5. t = u
  <2>1. t = [i \in 1..n |-> t[i]] /\ u = [i \in 1..n |-> u[i]]
    BY <1>2, <1>3 DEF u
  <2> QED BY <1>3, <1>4, <2>1
<1> QED BY <1>1, <1>2, <1>4, <1>5 DEF t, u

LEMMA CutTyped ==
  ASSUME NEW l \in Seq(Buffers), NEW o \in Nat, NEW n \in Nat, o + n <= Len(l)
  PROVE  /\ Cut(l, o, n) \in Seq(Buffers) /\ Len(Cut(l, o, n)) = Len(l) - n
         /\ Len(l) \in Nat
         /\ \A j \in 1 .. Len(l) - n :
              /\ j <= o => Cut(l, o, n)[j] = l[j]
              /\ o < j => Cut(l, o, n)[j] = l[j + n]
<1>1. \A j \in 1 .. Len(l) - n : (IF j <= o THEN l[j] ELSE l[j + n]) \in Buffers
  <2>1. ASSUME NEW j \in 1 .. Len(l) - n
        PROVE  j \in 1..Len(l) /\ j + n \in 1..Len(l)
    OBVIOUS
  <2> QED BY <2>1
<1>2. Len(l) - n \in Nat
  OBVIOUS
<1> QED BY <1>1, <1>2 DEF Cut

LEMMA CutIs ==
  ASSUME NEW l \in Seq(Buffers), NEW o \in Nat, NEW n \in Nat, o + n <= Len(l)
  PROVE  SubSeq(l, 1, o) \o SubSeq(l, (o + 1) + n, Len(l)) = Cut(l, o, n)
<1> DEFINE x == SubSeq(l, 1, o)
           y == SubSeq(l, (o + 1) + n, Len(l))
           c == Cut(l, o, n)
<1>1. x \in Seq(Buffers) /\ Len(x) = o /\ \A i \in 1..o : x[i] = l[i]
  OBVIOUS
<1>2. /\ y \in Seq(Buffers) /\ Len(y) = Len(l) - (o + n)
      /\ \A i \in 1 .. Len(l) - (o + n) : y[i] = l[o + n + i]
  OBVIOUS
<1>3. /\ c \in Seq(Buffers) /\ Len(c) = Len(l) - n /\ Len(l) \in Nat
      /\ \A j \in 1 .. Len(l) - n : /\ j <= o => c[j] = l[j]
                                    /\ o < j => c[j] = l[j + n]
  BY CutTyped, Zenon
<1> HIDE DEF x, y, c
<1>4. x \o y \in Seq(Buffers) /\ Len(x \o y) = Len(l) - n
  <2>1. x \o y \in Seq(Buffers) /\ Len(x \o y) = Len(x) + Len(y)
    BY <1>1, <1>2
  <2>2. o + (Len(l) - (o + n)) = Len(l) - n
    BY <1>3
  <2> QED BY <1>1, <1>2, <2>1, <2>2
<1>5. \A i \in 1 .. Len(x) + Len(y) :
         (x \o y)[i] = IF i <= Len(x) THEN x[i] ELSE y[i - Len(x)]
  BY ONLY <1>1, <1>2, ConcatProperties, Zenon
<1>6. ASSUME NEW j \in 1 .. Len(l) - n PROVE (x \o y)[j] = c[j]
  <2>1. CASE j <= o
    <3>1. j \in 1 .. Len(x) + Len(y) /\ j <= Len(x) /\ j \in 1..o
      BY <1>1, <1>2, <1>3, <2>1
    <3>2. (x \o y)[j] = x[j]
      BY ONLY <1>5, <3>1, Zenon
    <3> QED BY <1>1, <1>3, <2>1, <3>1, <3>2
  <2>2. CASE o < j
    <3>1. j - o \in 1 .. Len(l) - (o + n) /\ o + n + (j - o) = j + n
      BY <1>3, <2>2
    <3>2. (x \o y)[j] = y[j - o]
      <4>1. j \in 1 .. Len(x) + Len(y) /\ ~(j <= Len(x))
        BY <1>1, <1>2, <1>3, <2>2
      <4>2. (x \o y)[j] = y[j - Len(x)]
        BY ONLY <1>5, <4>1, Zenon
      <4> QED BY <1>1, <4>2
    <3> QED BY <1>2, <1>3, <2>2, <3>1, <3>2
  <2>3. j <= o \/ o < j
    BY <1>3
  <2> QED BY <2>1, <2>2, <2>3
<1>7. x \o y = c
  <2> DEFINE z == x \o y
  <2>1. z \in Seq(Buffers) /\ Len(z) = Len(c)
    BY <1>3, <1>4
  <2>2. \A j \in 1..Len(c) : z[j] = c[j]
    BY <1>3, <1>6
  <2> HIDE DEF z
  <2>3. z = c
    BY <1>3, <2>1, <2>2, SeqEqual
  <2> QED BY <2>3 DEF z
<1> QED BY <1>7 DEF x, y, c

LEMMA CutMore ==
  ASSUME NEW l \in Seq(Buffers), NEW o \in Nat, NEW n \in Nat,
         o + n + 1 <= Len(l)
  PROVE  /\ n + 1 \in Nat /\ o + (n + 1) <= Len(l) /\ 1 <= Len(Cut(l, o, n)) - o
         /\ Cut(Cut(l, o, n), o, 1) = Cut(l, o, n + 1)
         /\ Cut(l, o, n)[o + 1] = l[o + (n + 1)]
<1> DEFINE c == Cut(l, o, n)
           d == Cut(c, o, 1)
           e == Cut(l, o, n + 1)
<1>1. /\ c \in Seq(Buffers) /\ Len(c) = Len(l) - n /\ Len(l) \in Nat
      /\ \A j \in 1 .. Len(l) - n : /\ j <= o => c[j] = l[j]
                                    /\ o < j => c[j] = l[j + n]
  BY CutTyped, n \in Nat, o + n <= Len(l), Zenon
<1>2. n + 1 \in Nat /\ o + (n + 1) <= Len(l)
  OBVIOUS
<1>3. /\ e \in Seq(Buffers) /\ Len(e) = Len(l) - (n + 1)
      /\ \A j \in 1 .. Len(l) - (n + 1) :
           /\ j <= o => e[j] = l[j]
           /\ o < j => e[j] = l[j + (n + 1)]
  BY <1>2, CutTyped
<1> HIDE DEF c, e
<1>4. o + 1 <= Len(c) /\ Len(c) \in Nat
  BY <1>1
<1>5. /\ d \in Seq(Buffers) /\ Len(d) = Len(c) - 1
      /\ \A j \in 1 .. Len(c) - 1 : /\ j <= o => d[j] = c[j]
                                    /\ o < j => d[j] = c[j + 1]
  <2> DEFINE m == 1
  <2>1. m \in Nat /\ o + m <= Len(c) /\ c \in Seq(Buffers)
    BY <1>1, <1>4
  <2>2. /\ Cut(c, o, m) \in Seq(Buffers) /\ Len(Cut(c, o, m)) = Len(c) - m
        /\ \A j \in 1 .. Len(c) - m :
             /\ j <= o => Cut(c, o, m)[j] = c[j]
             /\ o < j => Cut(c, o, m)[j] = c[j + m]
    <3> HIDE DEF m
    <3> QED BY <2>1, CutTyped
  <2> QED BY <2>2
<1> HIDE DEF d
<1>6. \A j \in 1..Len(e) : d[j] = e[j]
  <2> SUFFICES ASSUME NEW j \in 1..Len(e) PROVE d[j] = e[j]
    OBVIOUS
  <2>1. /\ j \in 1 .. Len(c) - 1 /\ j \in 1 .. Len(l) - (n + 1)
        /\ j \in 1 .. Len(l) - n /\ j + 1 \in 1 .. Len(l) - n
        /\ (j + 1) + n = j + (n + 1)
    BY <1>1, <1>3
  <2>2. CASE j <= o
    BY <1>1, <1>3, <1>5, <2>1, <2>2
  <2>3. CASE o < j
    <3>1. o < j + 1
      BY <2>1, <2>3
    <3>2. d[j] = c[j + 1]
      BY <1>5, <2>1, <2>3
    <3>3. c[j + 1] = l[(j + 1) + n]
      BY <1>1, <2>1, <3>1
    <3>4. e[j] = l[j + (n + 1)]
      BY <1>3, <2>1, <2>3
    <3> QED BY <2>1, <3>2, <3>3, <3>4
  <2> QED BY <1>3, <2>2, <2>3
<1>7. d = e
  <2>1. Len(d) = Len(e)
    BY <1>1, <1>3, <1>5
  <2> QED BY <1>3, <1>5, <1>6, <2>1, SeqEqual
<1>8. o + 1 \in 1 .. Len(l) - n /\ o < o + 1 /\ (o + 1) + n = o + (n + 1)
  BY <1>1
<1>9. c[o + 1] = l[o + (n + 1)]
  BY <1>1, <1>8
<1> QED BY <1>1, <1>2, <1>4, <1>7, <1>9 DEF c, d, e

LEMMA CutNone ==
  ASSUME NEW l \in Seq(Buffers), NEW o \in Nat, o <= Len(l)
  PROVE  Cut(l, o, 0) = l
<1>1. /\ Cut(l, o, 0) \in Seq(Buffers) /\ Len(Cut(l, o, 0)) = Len(l) - 0
      /\ Len(l) \in Nat
      /\ \A j \in 1 .. Len(l) - 0 :
           /\ j <= o => Cut(l, o, 0)[j] = l[j]
           /\ o < j => Cut(l, o, 0)[j] = l[j + 0]
  BY CutTyped
<1> QED BY <1>1, SeqEqual

LEMMA DroppedCut ==
  ASSUME NEW l \in Seq(Buffers), NEW o \in Nat, o + 1 <= Len(l)
  PROVE  Dropped(l, o + 1) = Cut(l, o, 1)
<1>1. \A i \in 1 .. Len(l) - 1 : i < o + 1 <=> i <= o
  OBVIOUS
<1> QED BY <1>1 DEF Dropped, Cut

(* What the links lead to.                                                  *)
LEMMA FollowingIs ==
  ASSUME NEW s, NEW l \in Seq(Buffers), NEW n \in 0..Len(l),
         \A i \in 1..Len(l) : s.Next[l[i]] = At(l, i + 1)
  PROVE  Following(s, At(l, 1), n) = Piece(l, 0, n)
<1> DEFINE b == At(l, 1)
           w == [i \in 1..n |-> l[i]]
           at == CHOOSE a : a = [i \in 1..n |-> IF i = 1 THEN b
                                  ELSE IF a[i - 1] = FF THEN FF
                                  ELSE s.Next[a[i - 1]]]
<1>1. w = [i \in 1..n |-> IF i = 1 THEN b ELSE IF w[i - 1] = FF THEN FF
                          ELSE s.Next[w[i - 1]]]
  <2>1. ASSUME NEW i \in 1..n
        PROVE  l[i] = IF i = 1 THEN b ELSE IF w[i - 1] = FF THEN FF
                      ELSE s.Next[w[i - 1]]
    <3>1. i \in 1..Len(l)
      OBVIOUS
    <3>2. CASE i = 1
      BY <3>1, <3>2 DEF At
    <3>3. CASE i # 1
      <4>1. i - 1 \in 1..n /\ i - 1 \in 1..Len(l) /\ (i - 1) + 1 = i
        BY <3>1, <3>3
      <4>2. w[i - 1] = l[i - 1] /\ l[i - 1] \in Buffers
        BY <4>1
      <4>3. s.Next[l[i - 1]] = At(l, (i - 1) + 1)
        BY <4>1
      <4>4. At(l, (i - 1) + 1) = l[i]
        BY <3>1, <4>1 DEF At
      <4> HIDE DEF w, b
      <4> QED BY <3>3, <4>2, <4>3, <4>4, FFNoBuffer
    <3> QED BY <3>2, <3>3
  <2> QED BY <2>1
<1>2. at = [i \in 1..n |-> IF i = 1 THEN b ELSE IF at[i - 1] = FF THEN FF
                           ELSE s.Next[at[i - 1]]]
  <2> HIDE DEF w, b
  <2> QED BY <1>1, Zenon
<1>3. Following(s, b, n) = [i \in 1..n |-> at[i]]
  BY Zenon DEF Following
<1> HIDE DEF at, b
<1> DEFINE S == {k \in 0..n : k # 0 => at[k] = l[k]}
<1>4. n \in Nat /\ n <= Len(l)
  OBVIOUS
<1>5. ASSUME NEW i \in 0 .. n - 1, i \in S PROVE i + 1 \in S
  <2>1. i + 1 \in 1..n
    BY <1>4
  <2>2. at[i + 1] = IF i + 1 = 1 THEN b ELSE IF at[i] = FF THEN FF
                    ELSE s.Next[at[i]]
    <3>1. (i + 1) - 1 = i
      OBVIOUS
    <3> QED BY <1>2, <2>1, <3>1
  <2>3. l[i + 1] = IF i + 1 = 1 THEN b ELSE IF w[i] = FF THEN FF
                   ELSE s.Next[w[i]]
    <3>1. (i + 1) - 1 = i
      OBVIOUS
    <3>2. w[i + 1] = l[i + 1]
      BY <2>1
    <3> HIDE DEF w
    <3> QED BY <1>1, <2>1, <3>1, <3>2
  <2>4. i # 0 => at[i] = w[i]
    <3>1. i # 0 => i \in 1..n /\ at[i] = l[i]
      BY <1>5, <1>4
    <3> QED BY <3>1
  <2>5. at[i + 1] = l[i + 1]
    BY <2>2, <2>3, <2>4
  <2> QED BY <2>1, <2>5
<1>6. 0 \in S
  BY <1>4
<1> HIDE DEF S
<1>7. \A i \in 0..n : i \in S
  BY <1>4, <1>5, <1>6, Along
<1>8. \A i \in 1..n : at[i] = l[i]
  BY <1>7 DEF S
<1>9. [i \in 1..n |-> at[i]] = Piece(l, 0, n)
  <2>1. \A i \in 1..n : 0 + i = i
    OBVIOUS
  <2> QED BY <1>8, <2>1 DEF Piece
<1> QED BY <1>3, <1>9 DEF b

LEMMA PieceAll ==
  ASSUME NEW l \in Seq(Buffers) PROVE Piece(l, 0, Len(l)) = l
<1>1. /\ Piece(l, 0, Len(l)) \in Seq(Buffers) /\ Len(Piece(l, 0, Len(l))) = Len(l)
      /\ \A i \in 1..Len(l) : Piece(l, 0, Len(l))[i] = l[0 + i]
  <2>1. 0 \in Nat /\ Len(l) \in Nat /\ 0 + Len(l) <= Len(l)
    OBVIOUS
  <2> QED BY <2>1, PieceIs, Zenon
<1>2. \A i \in 1..Len(l) : 0 + i = i
  OBVIOUS
<1> QED BY <1>1, <1>2, SeqEqual

LEMMA ContentsAre ==
  ASSUME NEW s, NEW L, Shape(s, L)
  PROVE  /\ \A n \in 0..Len(L[FF]) :
              Following(s, s.FirstFreeBuf, n) = Piece(L[FF], 0, n)
         /\ Following(s, s.FirstFreeBuf, s.FreeBufferCount) = L[FF]
         /\ \A p \in Selectors : Contents(s, p) = L[p]
<1>1. L \in Families /\ Chained(s, L) /\ Counted(s, L) /\ FF \in Connectors
  BY FFNoSelector DEF Shape
<1>2. \A p \in Connectors :
        /\ L[p] \in Seq(Buffers) /\ Len(L[p]) \in Nat
        /\ \A i \in 1..Len(L[p]) : s.Next[L[p][i]] = At(L[p], i + 1)
  BY <1>1, FamilyTyped DEF Chained
<1>3. \A p \in Connectors : \A n \in 0..Len(L[p]) :
        Following(s, At(L[p], 1), n) = Piece(L[p], 0, n)
  BY <1>2, FollowingIs
<1>4. \A p \in Connectors : Following(s, At(L[p], 1), Len(L[p])) = L[p]
  <2> SUFFICES ASSUME NEW p \in Connectors
               PROVE  Following(s, At(L[p], 1), Len(L[p])) = L[p]
    OBVIOUS
  <2>1. Len(L[p]) \in 0..Len(L[p]) /\ L[p] \in Seq(Buffers)
    BY <1>2
  <2> QED BY <1>3, <2>1, PieceAll
<1>5. s.FirstFreeBuf = At(L[FF], 1) /\ s.FreeBufferCount = Len(L[FF])
  BY <1>1 DEF Counted
<1>6. ASSUME NEW p \in Selectors PROVE Contents(s, p) = L[p]
  <2>1. s.FirstBuf[p] = At(L[p], 1) /\ s.Count[p] = Len(L[p]) /\ p \in Connectors
    BY <1>1 DEF Counted, Connectors
  <2> QED BY <1>4, <2>1 DEF Contents
<1> QED BY <1>1, <1>3, <1>4, <1>5, <1>6
-----------------------------------------------------------------------------
(* One turn of each of the loops.                                           *)
Turn(kind, t, p, list, to, i) ==
  IF kind = "take" THEN Partition_UnlinkBuffer(t, p, list[i])
  ELSE IF kind = "discard" THEN Discard(t, p, list[i])
  ELSE IF kind = "free" THEN Buffer_Free(t, list[i])
  ELSE IF kind = "give" THEN FilterBuf(t, list[i], to[i])
  ELSE IF kind = "move"
       THEN FilterBuf(Partition_UnlinkBuffer(t, p, list[i]), list[i], to[i])
  ELSE IF kind = "allocate" THEN Buffer_Allocate(t)
  ELSE IF kind = "copy"
       THEN FilterBuf(Buffer_Allocate(t), t.FirstFreeBuf, to[i])
  ELSE Partition_Clear(t, i - 1)
IsRun(at, kind, s, p, list, to, n) ==
  at = [i \in 0..n |-> IF i = 0 THEN s
                       ELSE Turn(kind, at[i - 1], p, list, to, i)]

LEMMA RunExists ==
  ASSUME NEW kind, NEW s, NEW p, NEW list, NEW to, NEW n \in Nat
  PROVE  \E at : IsRun(at, kind, s, p, list, to, n)
<1> DEFINE Has(k) == \E at : IsRun(at, kind, s, p, list, to, k)
           S == {k \in Nat : Has(k)}
<1>1. 0 \in S
  <2> DEFINE at == [i \in 0..0 |-> s]
  <2>1. at = [i \in 0..0 |-> IF i = 0 THEN s
                             ELSE Turn(kind, at[i - 1], p, list, to, i)]
    OBVIOUS
  <2> HIDE DEF at
  <2>2. IsRun(at, kind, s, p, list, to, 0)
    BY <2>1 DEF IsRun
  <2> QED BY <2>2
<1>2. ASSUME NEW k \in 0 .. n - 1, k \in S PROVE k + 1 \in S
  <2>1. PICK at : IsRun(at, kind, s, p, list, to, k)
    BY <1>2
  <2> DEFINE b == [i \in 0 .. k + 1 |->
                     IF i = k + 1 THEN Turn(kind, at[k], p, list, to, k + 1)
                     ELSE at[i]]
  <2>2. ASSUME NEW i \in 0 .. k + 1
        PROVE  b[i] = IF i = 0 THEN s ELSE Turn(kind, b[i - 1], p, list, to, i)
    <3>1. CASE i = k + 1
      <4>1. /\ b[i] = Turn(kind, at[k], p, list, to, k + 1)
            /\ i # 0 /\ i - 1 = k /\ b[k] = at[k]
        BY <3>1
      <4> QED BY <3>1, <4>1
    <3>2. CASE i # k + 1
      <4>1. i \in 0..k /\ (i # 0 => i - 1 \in 0..k /\ i - 1 # k + 1)
        BY <3>2
      <4>2. b[i] = at[i] /\ (i # 0 => b[i - 1] = at[i - 1])
        BY <3>2, <4>1
      <4>3. at[i] = IF i = 0 THEN s ELSE Turn(kind, at[i - 1], p, list, to, i)
        BY <2>1, <4>1 DEF IsRun
      <4> QED BY <4>1, <4>2, <4>3
    <3> QED BY <3>1, <3>2
  <2>3. b = [i \in 0 .. k + 1 |-> b[i]]
    OBVIOUS
  <2> HIDE DEF b
  <2>4. b = [i \in 0 .. k + 1 |-> IF i = 0 THEN s
                                  ELSE Turn(kind, b[i - 1], p, list, to, i)]
    BY <2>2, <2>3
  <2>5. IsRun(b, kind, s, p, list, to, k + 1)
    BY <2>4 DEF IsRun
  <2> QED BY <2>5
<1> HIDE DEF S
<1>3. \A k \in 0..n : k \in S
  BY <1>1, <1>2, Along
<1>4. n \in S
  BY <1>3
<1> QED BY <1>4 DEF S

LEMMA RunSteps ==
  ASSUME NEW kind, NEW s, NEW p, NEW list, NEW to, NEW n \in Nat, NEW at,
         IsRun(at, kind, s, p, list, to, n)
  PROVE  /\ at[0] = s
         /\ \A i \in 1..n : at[i] = Turn(kind, at[i - 1], p, list, to, i)
  BY DEF IsRun

LEMMA UnlinkedRuns ==
  ASSUME NEW s, NEW p, NEW list, Len(list) \in Nat
  PROVE  \E at : /\ IsRun(at, "take", s, p, list, <<>>, Len(list))
                /\ Unlinked(s, p, list) = at[Len(list)]
<1> DEFINE at == CHOOSE a : a = [i \in 0..Len(list) |-> IF i = 0 THEN s ELSE
                   Partition_UnlinkBuffer(a[i - 1], p, list[i])]
<1>1. PICK a : IsRun(a, "take", s, p, list, <<>>, Len(list))
  BY RunExists
<1>2. a = [i \in 0..Len(list) |-> IF i = 0 THEN s ELSE
             Partition_UnlinkBuffer(a[i - 1], p, list[i])]
  BY <1>1 DEF IsRun, Turn
<1>3. at = [i \in 0..Len(list) |-> IF i = 0 THEN s ELSE
              Partition_UnlinkBuffer(at[i - 1], p, list[i])]
  BY <1>2, Zenon
<1>4. Unlinked(s, p, list) = at[Len(list)]
  BY Zenon DEF Unlinked, Looped
<1> HIDE DEF at
<1>5. IsRun(at, "take", s, p, list, <<>>, Len(list))
  BY <1>3 DEF IsRun, Turn
<1> QED BY <1>4, <1>5

LEMMA DeletedRuns ==
  ASSUME NEW s, NEW p, NEW list, Len(list) \in Nat
  PROVE  \E at : /\ IsRun(at, "discard", s, p, list, <<>>, Len(list))
                /\ Deleted(s, p, list) = at[Len(list)]
<1> DEFINE at == CHOOSE a : a = [i \in 0..Len(list) |-> IF i = 0 THEN s ELSE
                   Discard(a[i - 1], p, list[i])]
<1>1. PICK a : IsRun(a, "discard", s, p, list, <<>>, Len(list))
  BY RunExists
<1>2. a = [i \in 0..Len(list) |-> IF i = 0 THEN s ELSE
             Discard(a[i - 1], p, list[i])]
  BY <1>1 DEF IsRun, Turn
<1>3. at = [i \in 0..Len(list) |-> IF i = 0 THEN s ELSE
              Discard(at[i - 1], p, list[i])]
  BY <1>2, Zenon
<1>4. Deleted(s, p, list) = at[Len(list)]
  BY Zenon DEF Deleted, Looped
<1> HIDE DEF at
<1>5. IsRun(at, "discard", s, p, list, <<>>, Len(list))
  BY <1>3 DEF IsRun, Turn
<1> QED BY <1>4, <1>5

LEMMA FreedRuns ==
  ASSUME NEW s, NEW list, Len(list) \in Nat
  PROVE  \E at : /\ IsRun(at, "free", s, FF, list, <<>>, Len(list))
                /\ Freed(s, list) = at[Len(list)]
<1> DEFINE at == CHOOSE a : a = [i \in 0..Len(list) |-> IF i = 0 THEN s ELSE
                   Buffer_Free(a[i - 1], list[i])]
<1>1. PICK a : IsRun(a, "free", s, FF, list, <<>>, Len(list))
  BY RunExists
<1>2. a = [i \in 0..Len(list) |-> IF i = 0 THEN s ELSE
             Buffer_Free(a[i - 1], list[i])]
  BY <1>1 DEF IsRun, Turn
<1>3. at = [i \in 0..Len(list) |-> IF i = 0 THEN s ELSE
              Buffer_Free(at[i - 1], list[i])]
  BY <1>2, Zenon
<1>4. Freed(s, list) = at[Len(list)]
  BY Zenon DEF Freed, Looped
<1> HIDE DEF at
<1>5. IsRun(at, "free", s, FF, list, <<>>, Len(list))
  BY <1>3 DEF IsRun, Turn
<1> QED BY <1>4, <1>5

LEMMA FilteredToRuns ==
  ASSUME NEW s, NEW list, NEW to, Len(list) \in Nat
  PROVE  \E at : /\ IsRun(at, "give", s, FF, list, to, Len(list))
                /\ FilteredTo(s, list, to) = at[Len(list)]
<1> DEFINE at == CHOOSE a : a = [i \in 0..Len(list) |-> IF i = 0 THEN s ELSE
                   FilterBuf(a[i - 1], list[i], to[i])]
<1>1. PICK a : IsRun(a, "give", s, FF, list, to, Len(list))
  BY RunExists
<1>2. a = [i \in 0..Len(list) |-> IF i = 0 THEN s ELSE
             FilterBuf(a[i - 1], list[i], to[i])]
  BY <1>1 DEF IsRun, Turn
<1>3. at = [i \in 0..Len(list) |-> IF i = 0 THEN s ELSE
              FilterBuf(at[i - 1], list[i], to[i])]
  BY <1>2, Zenon
<1>4. FilteredTo(s, list, to) = at[Len(list)]
  BY Zenon DEF FilteredTo, Looped
<1> HIDE DEF at
<1>5. IsRun(at, "give", s, FF, list, to, Len(list))
  BY <1>3 DEF IsRun, Turn
<1> QED BY <1>4, <1>5

LEMMA MovedRuns ==
  ASSUME NEW s, NEW p, NEW list, NEW to, Len(list) \in Nat
  PROVE  \E at : /\ IsRun(at, "move", s, p, list, to, Len(list))
                /\ Moved(s, p, list, to) = at[Len(list)]
<1> DEFINE at == CHOOSE a : a = [i \in 0..Len(list) |-> IF i = 0 THEN s ELSE
                   FilterBuf(Partition_UnlinkBuffer(a[i - 1], p, list[i]), list[i], to[i])]
<1>1. PICK a : IsRun(a, "move", s, p, list, to, Len(list))
  BY RunExists
<1>2. a = [i \in 0..Len(list) |-> IF i = 0 THEN s ELSE
             FilterBuf(Partition_UnlinkBuffer(a[i - 1], p, list[i]), list[i], to[i])]
  BY <1>1 DEF IsRun, Turn
<1>3. at = [i \in 0..Len(list) |-> IF i = 0 THEN s ELSE
              FilterBuf(Partition_UnlinkBuffer(at[i - 1], p, list[i]), list[i], to[i])]
  BY <1>2, Zenon
<1>4. Moved(s, p, list, to) = at[Len(list)]
  BY Zenon DEF Moved, Looped
<1> HIDE DEF at
<1>5. IsRun(at, "move", s, p, list, to, Len(list))
  BY <1>3 DEF IsRun, Turn
<1> QED BY <1>4, <1>5

LEMMA AllocatedRuns ==
  ASSUME NEW s, NEW n \in Nat
  PROVE  \E at : /\ IsRun(at, "allocate", s, FF, <<>>, <<>>, n)
                /\ Allocated(s, n) = at[n]
<1> DEFINE at == CHOOSE a : a = [i \in 0..n |-> IF i = 0 THEN s ELSE
                   Buffer_Allocate(a[i - 1])]
<1>1. PICK a : IsRun(a, "allocate", s, FF, <<>>, <<>>, n)
  BY RunExists
<1>2. a = [i \in 0..n |-> IF i = 0 THEN s ELSE
             Buffer_Allocate(a[i - 1])]
  BY <1>1 DEF IsRun, Turn
<1>3. at = [i \in 0..n |-> IF i = 0 THEN s ELSE
              Buffer_Allocate(at[i - 1])]
  BY <1>2, Zenon
<1>4. Allocated(s, n) = at[n]
  BY Zenon DEF Allocated, Looped
<1> HIDE DEF at
<1>5. IsRun(at, "allocate", s, FF, <<>>, <<>>, n)
  BY <1>3 DEF IsRun, Turn
<1> QED BY <1>4, <1>5

LEMMA CopiedRuns ==
  ASSUME NEW s, NEW n \in Nat, NEW to
  PROVE  \E at : /\ IsRun(at, "copy", s, FF, <<>>, to, n)
                /\ Copied(s, n, to) = at[n]
<1> DEFINE at == CHOOSE a : a = [i \in 0..n |-> IF i = 0 THEN s ELSE
                   FilterBuf(Buffer_Allocate(a[i - 1]), a[i - 1].FirstFreeBuf, to[i])]
<1>1. PICK a : IsRun(a, "copy", s, FF, <<>>, to, n)
  BY RunExists
<1>2. a = [i \in 0..n |-> IF i = 0 THEN s ELSE
             FilterBuf(Buffer_Allocate(a[i - 1]), a[i - 1].FirstFreeBuf, to[i])]
  BY <1>1 DEF IsRun, Turn
<1>3. at = [i \in 0..n |-> IF i = 0 THEN s ELSE
              FilterBuf(Buffer_Allocate(at[i - 1]), at[i - 1].FirstFreeBuf, to[i])]
  BY <1>2, Zenon
<1>4. Copied(s, n, to) = at[n]
  BY Zenon DEF Copied, Looped
<1> HIDE DEF at
<1>5. IsRun(at, "copy", s, FF, <<>>, to, n)
  BY <1>3 DEF IsRun, Turn
<1> QED BY <1>4, <1>5

LEMMA AllClearedRuns ==
  ASSUME NEW s
  PROVE  \E at : /\ IsRun(at, "clear", s, FF, <<>>, <<>>, NumSelectors)
                /\ AllCleared(s) = at[NumSelectors]
<1> DEFINE at == CHOOSE a : a = [i \in 0..NumSelectors |-> IF i = 0 THEN s ELSE
                   Partition_Clear(a[i - 1], i - 1)]
<1>1. PICK a : IsRun(a, "clear", s, FF, <<>>, <<>>, NumSelectors)
  BY RunExists, SelectorsAssumption
<1>2. a = [i \in 0..NumSelectors |-> IF i = 0 THEN s ELSE
             Partition_Clear(a[i - 1], i - 1)]
  BY <1>1 DEF IsRun, Turn
<1>3. at = [i \in 0..NumSelectors |-> IF i = 0 THEN s ELSE
              Partition_Clear(at[i - 1], i - 1)]
  BY <1>2, Zenon
<1>4. AllCleared(s) = at[NumSelectors]
  BY Zenon DEF AllCleared, Looped
<1> HIDE DEF at
<1>5. IsRun(at, "clear", s, FF, <<>>, <<>>, NumSelectors)
  BY <1>3 DEF IsRun, Turn
<1> QED BY <1>4, <1>5
-----------------------------------------------------------------------------
LEMMA CutFirst ==
  ASSUME NEW l \in Seq(Buffers), NEW o \in Nat, NEW m \in Nat,
         o + m + 1 <= Len(l)
  PROVE  /\ Cut(l, o, 1) \in Seq(Buffers) /\ Len(Cut(l, o, 1)) = Len(l) - 1
         /\ \A j \in 1..m : Cut(l, o, 1)[o + j] = l[o + (j + 1)]
         /\ m + 1 \in Nat /\ Cut(Cut(l, o, 1), o, m) = Cut(l, o, m + 1)
<1> DEFINE one == 1
           c == Cut(l, o, one)
           d == Cut(c, o, m)
           k == m + 1
           e == Cut(l, o, k)
<1>1. /\ one \in Nat /\ o + one <= Len(l) /\ Len(l) \in Nat
      /\ k \in Nat /\ o + k <= Len(l)
  OBVIOUS
<1>2. /\ c \in Seq(Buffers) /\ Len(c) = Len(l) - one
      /\ \A j \in 1 .. Len(l) - one : /\ j <= o => c[j] = l[j]
                                      /\ o < j => c[j] = l[j + one]
  <2> HIDE DEF one
  <2> QED BY <1>1, CutTyped
<1>3. /\ e \in Seq(Buffers) /\ Len(e) = Len(l) - k
      /\ \A j \in 1 .. Len(l) - k : /\ j <= o => e[j] = l[j]
                                    /\ o < j => e[j] = l[j + k]
  <2> HIDE DEF k
  <2> QED BY <1>1, CutTyped
<1> HIDE DEF c, e
<1>4. o + m <= Len(c) /\ Len(c) \in Nat
  BY <1>1, <1>2
<1>5. /\ d \in Seq(Buffers) /\ Len(d) = Len(c) - m
      /\ \A j \in 1 .. Len(c) - m : /\ j <= o => d[j] = c[j]
                                    /\ o < j => d[j] = c[j + m]
  BY <1>2, <1>4, CutTyped
<1> HIDE DEF d
<1>6. \A j \in 1..Len(e) : d[j] = e[j]
  <2> SUFFICES ASSUME NEW j \in 1..Len(e) PROVE d[j] = e[j]
    OBVIOUS
  <2>1. /\ j \in 1 .. Len(c) - m /\ j \in 1 .. Len(l) - k
        /\ j \in 1 .. Len(l) - one /\ j + m \in 1 .. Len(l) - one
        /\ (j + m) + one = j + k
    <3>1. j \in 1 .. Len(l) - k /\ Len(l) \in Nat
      BY <1>1, <1>3
    <3>2. j \in 1 .. Len(c) - m
      BY <1>2, <3>1
    <3> QED BY <3>1, <3>2
  <2>2. CASE j <= o
    BY <1>2, <1>3, <1>5, <2>1, <2>2
  <2>3. CASE o < j
    <3>1. o < j + m
      BY <2>1, <2>3
    <3>2. d[j] = c[j + m]
      BY <1>5, <2>1, <2>3
    <3>3. c[j + m] = l[(j + m) + one]
      BY <1>2, <2>1, <3>1
    <3>4. e[j] = l[j + k]
      BY <1>3, <2>1, <2>3
    <3> QED BY <2>1, <3>2, <3>3, <3>4
  <2>4. j <= o \/ o < j
    BY <2>1
  <2> QED BY <2>2, <2>3, <2>4
<1>7. d = e
  <2>1. Len(d) = Len(e)
    BY <1>1, <1>2, <1>3, <1>5
  <2> QED BY <1>3, <1>5, <1>6, <2>1, SeqEqual
<1>8. \A j \in 1..m : c[o + j] = l[o + (j + 1)]
  <2> SUFFICES ASSUME NEW j \in 1..m PROVE c[o + j] = l[o + (j + 1)]
    OBVIOUS
  <2>1. /\ o + j \in 1 .. Len(l) - one /\ o < o + j
        /\ (o + j) + one = o + (j + 1)
    BY <1>1
  <2> QED BY <1>2, <2>1
<1> QED BY <1>1, <1>2, <1>7, <1>8 DEF c, d, e

LEMMA CutAppend ==
  ASSUME NEW l \in Seq(Buffers), NEW o \in Nat, NEW m \in Nat, o + m <= Len(l),
         NEW b \in Buffers
  PROVE  Cut(Append(l, b), o, m) = Append(Cut(l, o, m), b)
<1> DEFINE a == Append(l, b)
           c == Cut(l, o, m)
           d == Cut(a, o, m)
           e == Append(c, b)
<1>1. /\ a \in Seq(Buffers) /\ Len(a) = Len(l) + 1 /\ Len(l) \in Nat
      /\ \A j \in 1..Len(l) : a[j] = l[j]
      /\ a[Len(l) + 1] = b
  OBVIOUS
<1>2. /\ c \in Seq(Buffers) /\ Len(c) = Len(l) - m
      /\ \A j \in 1 .. Len(l) - m : /\ j <= o => c[j] = l[j]
                                    /\ o < j => c[j] = l[j + m]
  BY CutTyped
<1> HIDE DEF a, c
<1>3. o + m <= Len(a)
  BY <1>1
<1>4. /\ d \in Seq(Buffers) /\ Len(d) = Len(a) - m
      /\ \A j \in 1 .. Len(a) - m : /\ j <= o => d[j] = a[j]
                                    /\ o < j => d[j] = a[j + m]
  BY <1>1, <1>3, CutTyped
<1>5. /\ e \in Seq(Buffers) /\ Len(e) = Len(c) + 1 /\ Len(c) \in Nat
      /\ \A j \in 1..Len(c) : e[j] = c[j]
      /\ e[Len(c) + 1] = b
  BY <1>2
<1> HIDE DEF d, e
<1>6. Len(d) = Len(e)
  BY <1>1, <1>2, <1>4, <1>5
<1>7. \A j \in 1..Len(e) : d[j] = e[j]
  <2> SUFFICES ASSUME NEW j \in 1..Len(e) PROVE d[j] = e[j]
    OBVIOUS
  <2>1. j \in 1 .. Len(a) - m
    BY <1>4, <1>6
  <2>2. CASE j = Len(c) + 1
    <3>1. o < j /\ j + m = Len(l) + 1
      BY <1>1, <1>2, <2>2
    <3>2. d[j] = b
      BY <1>1, <1>4, <2>1, <3>1
    <3> QED BY <1>5, <2>2, <3>2
  <2>3. CASE j # Len(c) + 1
    <3>1. j \in 1..Len(c) /\ j \in 1 .. Len(l) - m /\ j \in 1..Len(l)
      BY <1>2, <1>5, <2>3
    <3>2. e[j] = c[j]
      BY <1>5, <3>1
    <3>3. CASE j <= o
      BY <1>1, <1>2, <1>4, <2>1, <3>1, <3>2, <3>3
    <3>4. CASE o < j
      <4>1. j + m \in 1..Len(l)
        BY <3>1
      <4>2. d[j] = a[j + m]
        BY <1>4, <2>1, <3>4
      <4>3. c[j] = l[j + m]
        BY <1>2, <3>1, <3>4
      <4> QED BY <1>1, <3>2, <4>1, <4>2, <4>3
    <3>5. j <= o \/ o < j
      BY <3>1
    <3> QED BY <3>3, <3>4, <3>5
  <2> QED BY <2>2, <2>3
<1>8. d = e
  BY <1>4, <1>5, <1>6, <1>7, SeqEqual
<1> QED BY <1>8 DEF a, c, d, e

LEMMA GivenIs ==
  ASSUME NEW L \in Families, Apart(L), NEW p \in Connectors, NEW b \in Buffers,
         ~Placed(L, b)
  PROVE  /\ \A r \in Selectors :
              Given(L, p, b)[r] = IF r = p THEN Append(L[r], b) ELSE L[r]
         /\ \A x : Placed(Given(L, p, b), x) <=> Placed(L, x) \/ x = b
         /\ p # FF => Given(L, p, b)[FF] = L[FF]
         /\ p = FF => /\ Len(Given(L, p, b)[FF]) = Len(L[FF]) + 1
                      /\ \A i \in 1 .. Len(L[FF]) + 1 :
                           Given(L, p, b)[FF][i] = IF i = 1 THEN b
                                                   ELSE L[FF][i - 1]
<1> DEFINE k == Place(L, p)
           M == Insert(L, p, k, b)
<1>0. FF \in Connectors /\ FF \notin Selectors
  BY FFNoSelector
<1>1. L[p] \in Seq(Buffers) /\ Len(L[p]) \in Nat /\ k \in 1 .. Len(L[p]) + 1
  <2>1. L[p] \in Seq(Buffers) /\ Len(L[p]) \in Nat
    BY FamilyTyped
  <2> QED BY <2>1 DEF Place
<1> HIDE DEF k
<1>2. /\ M \in Families
      /\ \A r \in Connectors : r # p => M[r] = L[r]
      /\ Len(M[p]) = Len(L[p]) + 1
      /\ \A i \in 1 .. Len(L[p]) + 1 :
           M[p][i] = IF i < k THEN L[p][i] ELSE IF i = k THEN b ELSE L[p][i - 1]
  BY <1>1, InsertIs
<1>3. \A x : Placed(M, x) <=> Placed(L, x) \/ x = b
  BY <1>1, InsertFamily
<1> HIDE DEF M
<1>4. ASSUME p \in Selectors PROVE M[p] = Append(L[p], b)
  <2>1. k = Len(L[p]) + 1
    BY <1>0, <1>4 DEF k, Place
  <2>2. M[p] \in Seq(Buffers) /\ Append(L[p], b) \in Seq(Buffers)
    BY <1>1, <1>2, FamilyTyped
  <2>3. /\ Len(Append(L[p], b)) = Len(L[p]) + 1
        /\ \A i \in 1..Len(L[p]) : Append(L[p], b)[i] = L[p][i]
        /\ Append(L[p], b)[Len(L[p]) + 1] = b
    BY <1>1
  <2> DEFINE a == Append(L[p], b)
  <2>4. \A i \in 1..Len(a) : M[p][i] = a[i]
    <3> SUFFICES ASSUME NEW i \in 1..Len(a) PROVE M[p][i] = a[i]
      OBVIOUS
    <3>1. i \in 1 .. Len(L[p]) + 1
      BY <2>3
    <3> HIDE DEF a
    <3>2. CASE i = k
      BY <1>1, <1>2, <2>1, <2>3, <3>1, <3>2 DEF a
    <3>3. CASE i # k
      <4>1. i < k /\ i \in 1..Len(L[p])
        BY <1>1, <2>1, <3>1, <3>3
      <4> QED BY <1>2, <2>3, <3>1, <4>1 DEF a
    <3> QED BY <3>2, <3>3
  <2>5. M[p] = a
    BY <1>2, <2>2, <2>3, <2>4, SeqEqual
  <2> QED BY <2>5
<1>5. \A r \in Selectors : M[r] = IF r = p THEN Append(L[r], b) ELSE L[r]
  BY <1>2, <1>4 DEF Connectors
<1>6. p # FF => M[FF] = L[FF]
  BY <1>0, <1>2
<1>7. ASSUME p = FF
      PROVE  /\ Len(M[FF]) = Len(L[FF]) + 1
             /\ \A i \in 1 .. Len(L[FF]) + 1 :
                  M[FF][i] = IF i = 1 THEN b ELSE L[FF][i - 1]
  <2>1. k = 1
    BY <1>7 DEF k, Place
  <2> QED BY <1>2, <1>7, <2>1
<1>8. M = Given(L, p, b)
  BY DEF M, k, Given
<1> QED BY <1>3, <1>5, <1>6, <1>7, <1>8

(* The queues of SectorPool.                                                *)
Queues == [Selectors -> Seq(Buffers)]
QueuesOf(L) == [p \in Selectors |-> L[p]]
IsSending(W, q, list, to) ==
  /\ W \in [0..Len(list) -> Queues] /\ W[0] = q
  /\ \A i \in 1..Len(list) :
       W[i] = [r \in Selectors |-> IF r = to[i] THEN Append(W[i - 1][r], list[i])
                                   ELSE W[i - 1][r]]

LEMMA SentIs ==
  ASSUME NEW q \in Queues, NEW list \in Seq(Buffers), NEW to
  PROVE  \E W : IsSending(W, q, list, to) /\ SP!Sent(q, list, to) = W[Len(list)]
<1> DEFINE n == Len(list)
           F == [x \in Queues \X (1..n) |->
                   [r \in Selectors |-> IF r = to[x[2]]
                                        THEN Append(x[1][r], list[x[2]])
                                        ELSE x[1][r]]]
           at == CHOOSE a : a = [i \in 0..n |-> IF i = 0 THEN q ELSE
                   [p \in Selectors |-> IF p = to[i]
                                        THEN Append(a[i - 1][p], list[i])
                                        ELSE a[i - 1][p]]]
<1>1. n \in Nat /\ \A i \in 1..n : list[i] \in Buffers
  OBVIOUS
<1>2. F \in [Queues \X (1..n) -> Queues]
  <2>1. ASSUME NEW x \in Queues \X (1..n)
        PROVE  [r \in Selectors |-> IF r = to[x[2]] THEN Append(x[1][r], list[x[2]])
                                    ELSE x[1][r]] \in Queues
    <3>1. x[1] \in [Selectors -> Seq(Buffers)] /\ list[x[2]] \in Buffers
      BY <1>1 DEF Queues
    <3> QED BY <3>1 DEF Queues
  <2> QED BY <2>1
<1>3. PICK a : IsLoop(a, F, q, n) /\ a \in [0..n -> Queues]
  <2> HIDE DEF F, n
  <2> QED BY <1>1, <1>2, LoopExists
<1>4. a = [i \in 0..n |-> IF i = 0 THEN q ELSE
             [p \in Selectors |-> IF p = to[i] THEN Append(a[i - 1][p], list[i])
                                  ELSE a[i - 1][p]]]
  <2>1. ASSUME NEW i \in 0..n, i # 0
        PROVE  F[<<a[i - 1], i>>] =
                 [p \in Selectors |-> IF p = to[i]
                                      THEN Append(a[i - 1][p], list[i])
                                      ELSE a[i - 1][p]]
    <3>1. i \in 1..n /\ i - 1 \in 0..n
      BY <1>1, <2>1
    <3>2. a[i - 1] \in Queues
      BY <1>3, <3>1
    <3> QED BY <3>1, <3>2
  <2> HIDE DEF F, n
  <2> QED BY <1>3, <2>1 DEF IsLoop
<1>5. at = [i \in 0..n |-> IF i = 0 THEN q ELSE
              [p \in Selectors |-> IF p = to[i] THEN Append(at[i - 1][p], list[i])
                                   ELSE at[i - 1][p]]]
  <2> HIDE DEF n
  <2> QED BY <1>4, Zenon
<1>6. SP!Sent(q, list, to) = at[n]
  BY Zenon DEF SP!Sent
<1> HIDE DEF at, F
<1> DEFINE S == {i \in 0..n : at[i] \in Queues}
<1>7. at[0] = q /\ 0 \in S
  BY <1>1, <1>5
<1>8. ASSUME NEW i \in 0 .. n - 1, i \in S PROVE i + 1 \in S
  <2>1. i + 1 \in 1..n /\ i + 1 \in 0..n /\ (i + 1) - 1 = i
    BY <1>1
  <2>2. at[i] \in [Selectors -> Seq(Buffers)] /\ list[i + 1] \in Buffers
    BY <1>1, <1>8, <2>1 DEF Queues
  <2>3. at[i + 1] = [p \in Selectors |-> IF p = to[i + 1]
                                         THEN Append(at[i][p], list[i + 1])
                                         ELSE at[i][p]]
    <3> DEFINE j == i + 1
    <3>1. j \in 0..n /\ j # 0 /\ j - 1 = i
      BY <2>1
    <3> HIDE DEF j
    <3>2. at[j] = [p \in Selectors |-> IF p = to[j]
                                       THEN Append(at[j - 1][p], list[j])
                                       ELSE at[j - 1][p]]
      BY <1>5, <3>1
    <3> QED BY <3>1, <3>2 DEF j
  <2>4. at[i + 1] \in Queues
    BY <2>2, <2>3 DEF Queues
  <2> QED BY <2>1, <2>4
<1> HIDE DEF S
<1>9. \A i \in 0..n : i \in S
  BY <1>1, <1>7, <1>8, Along
<1>10. at \in [0..n -> Queues]
  BY <1>5, <1>9 DEF S
<1>11. \A i \in 1..n : at[i] = [r \in Selectors |->
           IF r = to[i] THEN Append(at[i - 1][r], list[i]) ELSE at[i - 1][r]]
  <2> SUFFICES ASSUME NEW i \in 1..n
               PROVE  at[i] = [r \in Selectors |->
                        IF r = to[i] THEN Append(at[i - 1][r], list[i])
                        ELSE at[i - 1][r]]
    OBVIOUS
  <2>1. i \in 0..n /\ i # 0
    OBVIOUS
  <2> QED BY <1>5, <2>1
<1>12. IsSending(at, q, list, to)
  BY <1>7, <1>10, <1>11 DEF IsSending
<1> QED BY <1>6, <1>12
-----------------------------------------------------------------------------
Distinct(list) == \A i, j \in 1..Len(list) : list[i] = list[j] => i = j
Outside(L, list) == \A i \in 1..Len(list) : ~Placed(L, list[i])
Among(x, list, n) == \E j \in 1..n : list[j] = x

(* Buffers that are in no list are given out one after the other.           *)
Gives(at, list, to) ==
  \A i \in 1..Len(list) : at[i] = FilterBuf(at[i - 1], list[i], to[i])
GivenOut(t, q, M, L, list, n) ==
  /\ Shape(t, M) /\ QueuesOf(M) = q
  /\ \A x : Placed(M, x) <=> Placed(L, x) \/ Among(x, list, n)

LEMMA QueuesTyped ==
  ASSUME NEW L \in Families PROVE QueuesOf(L) \in Queues
  BY FamilyTyped DEF QueuesOf, Queues, Connectors

LEMMA StoreOne ==
  ASSUME NEW t, NEW q, NEW M, NEW L, NEW list \in Seq(Buffers),
         NEW i \in Nat, i + 1 <= Len(list), GivenOut(t, q, M, L, list, i),
         Distinct(list), Outside(L, list), NEW to \in Connectors
  PROVE  GivenOut(FilterBuf(t, list[i + 1], to),
                [r \in Selectors |-> IF r = to THEN Append(q[r], list[i + 1])
                                     ELSE q[r]],
                Given(M, to, list[i + 1]), L, list, i + 1)
<1> DEFINE b == list[i + 1]
           N == Given(M, to, b)
<1>1. Shape(t, M) /\ M \in Families /\ Apart(M) /\ QueuesOf(M) = q
  BY DEF GivenOut, Shape
<1>2. /\ \A x : Placed(M, x) <=> Placed(L, x) \/ Among(x, list, i)
      /\ Len(list) \in Nat /\ i + 1 \in 1..Len(list) /\ b \in Buffers
  BY DEF GivenOut
<1>3. ~Placed(M, b)
  <2>1. ~Placed(L, b)
    BY <1>2 DEF Outside
  <2>2. ~Among(b, list, i)
    <3> SUFFICES ASSUME NEW j \in 1..i, list[j] = b PROVE FALSE
      BY DEF Among
    <3>1. j \in 1..Len(list) /\ j # i + 1
      BY <1>2
    <3> QED BY <1>2, <3>1 DEF Distinct
  <2> QED BY <1>2, <2>1, <2>2
<1> HIDE DEF b
<1>4. Shape(FilterBuf(t, b, to), N)
  BY <1>1, <1>2, <1>3, FilterShape
<1>5. /\ \A r \in Selectors : N[r] = IF r = to THEN Append(M[r], b) ELSE M[r]
      /\ \A x : Placed(N, x) <=> Placed(M, x) \/ x = b
  BY <1>1, <1>2, <1>3, GivenIs
<1> HIDE DEF N
<1>6. QueuesOf(N) = [r \in Selectors |-> IF r = to THEN Append(q[r], b) ELSE q[r]]
  <2>1. \A r \in Selectors : q[r] = M[r]
    BY <1>1 DEF QueuesOf
  <2> QED BY <1>5, <2>1 DEF QueuesOf
<1>7. \A x : Among(x, list, i + 1) <=> Among(x, list, i) \/ x = b
  <2>1. \A j \in 1 .. i + 1 : j \in 1..i \/ j = i + 1
    OBVIOUS
  <2>2. \A j \in 1..i : j \in 1 .. i + 1
    OBVIOUS
  <2>3. i + 1 \in 1 .. i + 1
    OBVIOUS
  <2> QED BY <2>1, <2>2, <2>3, Zenon DEF Among, b
<1>8. \A x : Placed(N, x) <=> Placed(L, x) \/ Among(x, list, i + 1)
  BY <1>2, <1>5, <1>7
<1>9. GivenOut(FilterBuf(t, b, to),
             [r \in Selectors |-> IF r = to THEN Append(q[r], b) ELSE q[r]],
             N, L, list, i + 1)
  BY <1>4, <1>6, <1>8 DEF GivenOut
<1> QED BY <1>9 DEF N, b

LEMMA GivesShape ==
  ASSUME NEW L, NEW list \in Seq(Buffers),
         NEW to \in [1..Len(list) -> Connectors], NEW at, NEW W,
         Shape(at[0], L), Gives(at, list, to),
         IsSending(W, QueuesOf(L), list, to), Distinct(list), Outside(L, list)
  PROVE  \E M : GivenOut(at[Len(list)], W[Len(list)], M, L, list, Len(list))
<1> DEFINE n == Len(list)
           S == {i \in 0..n : \E M : GivenOut(at[i], W[i], M, L, list, i)}
<1>1. n \in Nat
  OBVIOUS
<1>2. 0 \in S
  <2>1. GivenOut(at[0], W[0], L, L, list, 0)
    BY DEF GivenOut, IsSending, Among
  <2> QED BY <1>1, <2>1
<1>3. ASSUME NEW i \in 0 .. n - 1, i \in S PROVE i + 1 \in S
  <2>1. PICK M : GivenOut(at[i], W[i], M, L, list, i)
    BY <1>3
  <2>2. /\ i \in Nat /\ i + 1 <= Len(list) /\ i + 1 \in 1..Len(list)
        /\ (i + 1) - 1 = i
    BY <1>1
  <2> DEFINE j == i + 1
  <2>3. to[j] \in Connectors
    BY <2>2
  <2>4. GivenOut(FilterBuf(at[i], list[i + 1], to[j]),
               [r \in Selectors |-> IF r = to[j] THEN Append(W[i][r], list[i + 1])
                                    ELSE W[i][r]],
               Given(M, to[j], list[i + 1]), L, list, i + 1)
    <3> HIDE DEF j
    <3> QED BY <2>1, <2>2, <2>3, StoreOne
  <2>5. j \in 1..Len(list) /\ j - 1 = i
    BY <2>2
  <2> HIDE DEF j
  <2>6. /\ at[j] = FilterBuf(at[i], list[j], to[j])
        /\ W[j] = [r \in Selectors |-> IF r = to[j] THEN Append(W[i][r], list[j])
                                       ELSE W[i][r]]
    BY <2>5 DEF Gives, IsSending
  <2>7. GivenOut(at[i + 1], W[i + 1], Given(M, to[j], list[i + 1]), L, list, i + 1)
    BY <2>4, <2>6 DEF j
  <2> QED BY <2>2, <2>7
<1> HIDE DEF S
<1>4. \A i \in 0..n : i \in S
  BY <1>1, <1>2, <1>3, Along
<1>5. n \in S
  BY <1>1, <1>4
<1> QED BY <1>5 DEF S

(* Buffers are taken out of a list, one after the other in the same place.  *)
Taken(t, M, L, p, o, n) ==
  /\ Shape(t, M) /\ M[p] = Cut(L[p], o, n)
  /\ \A r \in Connectors : r # p => M[r] = L[r]
  /\ \A x : Placed(M, x) <=> Placed(L, x) /\ ~Among(x, Piece(L[p], o, n), n)
Takes(at, L, p, o, n) ==
  \A i \in 0 .. n - 1 : \A M :
    Taken(at[i], M, L, p, o, i) => Shape(at[i + 1], Drop(M, p, o + 1))

LEMMA TakeOne ==
  ASSUME NEW t, NEW u, NEW M, NEW L \in Families, NEW p \in Connectors,
         NEW o \in Nat, NEW i \in Nat, o + i + 1 <= Len(L[p]),
         Taken(t, M, L, p, o, i), Shape(u, Drop(M, p, o + 1))
  PROVE  Taken(u, Drop(M, p, o + 1), L, p, o, i + 1)
<1> DEFINE N == Drop(M, p, o + 1)
<1>1. Shape(t, M) /\ M \in Families /\ Apart(M) /\ M[p] = Cut(L[p], o, i)
  BY DEF Taken, Shape
<1>2. L[p] \in Seq(Buffers) /\ M[p] \in Seq(Buffers) /\ Len(M[p]) \in Nat
  BY <1>1, FamilyTyped
<1>3. /\ i + 1 \in Nat /\ o + (i + 1) <= Len(L[p]) /\ 1 <= Len(M[p]) - o
      /\ Cut(M[p], o, 1) = Cut(L[p], o, i + 1)
      /\ M[p][o + 1] = L[p][o + (i + 1)]
  BY <1>1, <1>2, CutMore
<1>4. o + 1 \in 1..Len(M[p]) /\ o + 1 <= Len(M[p])
  BY <1>2, <1>3
<1>5. /\ \A r \in Connectors : r # p => N[r] = M[r]
      /\ N[p] = Dropped(M[p], o + 1)
  BY <1>1, <1>4, DropIs
<1>6. \A x : Placed(N, x) <=> Placed(M, x) /\ x # M[p][o + 1]
  BY <1>1, <1>4, DropFamily
<1>7. N[p] = Cut(L[p], o, i + 1)
  BY <1>2, <1>3, <1>4, <1>5, DroppedCut
<1>8. \A r \in Connectors : r # p => N[r] = L[r]
  BY <1>5 DEF Taken
<1>9. \A x : Among(x, Piece(L[p], o, i + 1), i + 1)
               <=> Among(x, Piece(L[p], o, i), i) \/ x = L[p][o + (i + 1)]
  <2>1. \A j \in 1 .. i + 1 : j \in 1..i \/ j = i + 1
    OBVIOUS
  <2>2. \A j \in 1..i : j \in 1 .. i + 1
    OBVIOUS
  <2>3. i + 1 \in 1 .. i + 1
    OBVIOUS
  <2>4. \A j \in 1 .. i + 1 : Piece(L[p], o, i + 1)[j] = L[p][o + j]
    BY DEF Piece
  <2>5. \A j \in 1..i : Piece(L[p], o, i)[j] = L[p][o + j]
    BY DEF Piece
  <2> QED BY <2>1, <2>2, <2>3, <2>4, <2>5, Zenon DEF Among
<1>10. \A x : Placed(M, x) <=> Placed(L, x) /\ ~Among(x, Piece(L[p], o, i), i)
  BY DEF Taken
<1>11. \A x : Placed(N, x)
               <=> Placed(L, x) /\ ~Among(x, Piece(L[p], o, i + 1), i + 1)
  BY <1>3, <1>6, <1>9, <1>10
<1> HIDE DEF N
<1>12. Taken(u, N, L, p, o, i + 1)
  <2>1. Shape(u, N)
    BY DEF N
  <2> QED BY <1>7, <1>8, <1>11, <2>1 DEF Taken
<1> QED BY <1>12 DEF N

LEMMA TakesShape ==
  ASSUME NEW L, NEW p \in Connectors, NEW o \in Nat, NEW n \in Nat, NEW at,
         o + n <= Len(L[p]), Shape(at[0], L), Takes(at, L, p, o, n)
  PROVE  \E M : Taken(at[n], M, L, p, o, n)
<1> DEFINE S == {i \in 0..n : \E M : Taken(at[i], M, L, p, o, i)}
<1>0. L \in Families /\ L[p] \in Seq(Buffers) /\ Len(L[p]) \in Nat
  BY FamilyTyped DEF Shape
<1>1. 0 \in S
  <2>1. Cut(L[p], o, 0) = L[p]
    BY <1>0, CutNone
  <2>2. Taken(at[0], L, L, p, o, 0)
    BY <2>1 DEF Taken, Among
  <2> QED BY <2>2
<1>2. ASSUME NEW i \in 0 .. n - 1, i \in S PROVE i + 1 \in S
  <2>1. PICK M : Taken(at[i], M, L, p, o, i)
    BY <1>2
  <2>2. Shape(at[i + 1], Drop(M, p, o + 1))
    BY <2>1 DEF Takes
  <2>3. i \in Nat /\ o + i + 1 <= Len(L[p]) /\ i + 1 \in 0..n
    BY <1>0
  <2>4. Taken(at[i + 1], Drop(M, p, o + 1), L, p, o, i + 1)
    BY <1>0, <2>1, <2>2, <2>3, TakeOne
  <2> QED BY <2>3, <2>4
<1> HIDE DEF S
<1>3. \A i \in 0..n : i \in S
  BY <1>1, <1>2, Along
<1>4. n \in S
  BY <1>3
<1> QED BY <1>4 DEF S
-----------------------------------------------------------------------------
(* Buffers of a partition are given out one after the other.  While m are   *)
(* left, they are those from o on; without them it is q.                    *)
MidMove(t, q, M, L, p, o, m, i) ==
  /\ Shape(t, M) /\ o + m <= Len(M[p])
  /\ \A j \in 1..m : M[p][o + j] = L[p][o + (i + j)]
  /\ \A r \in Selectors : q[r] = IF r = p THEN Cut(M[p], o, m) ELSE M[r]
  /\ \A x : Placed(M, x) <=> Placed(L, x)
Moves(at, p, list, to) ==
  \A i \in 1..Len(list) :
    at[i] = FilterBuf(Partition_UnlinkBuffer(at[i - 1], p, list[i]), list[i], to[i])

LEMMA MoveOne ==
  ASSUME NEW t, NEW q, NEW M, NEW L, NEW p \in Selectors, NEW o \in Nat,
         NEW m \in Nat, NEW i \in Nat, MidMove(t, q, M, L, p, o, m + 1, i),
         NEW to \in Connectors, NEW b, b = L[p][o + (i + 1)]
  PROVE  MidMove(FilterBuf(Partition_UnlinkBuffer(t, p, b), b, to),
                [r \in Selectors |-> IF r = to THEN Append(q[r], b) ELSE q[r]],
                Given(Drop(M, p, o + 1), to, b), L, p, o, m, i + 1)
<1> DEFINE D == Drop(M, p, o + 1)
           u == Partition_UnlinkBuffer(t, p, b)
           N == Given(D, to, b)
           v == FilterBuf(u, b, to)
<1>0. p \in Connectors /\ p # FF
  BY FFNoSelector DEF Connectors
<1>1. /\ Shape(t, M) /\ M \in Families /\ Apart(M) /\ o + (m + 1) <= Len(M[p])
      /\ \A j \in 1 .. m + 1 : M[p][o + j] = L[p][o + (i + j)]
      /\ \A r \in Selectors : q[r] = IF r = p THEN Cut(M[p], o, m + 1) ELSE M[r]
      /\ \A x : Placed(M, x) <=> Placed(L, x)
  BY DEF MidMove, Shape
<1>2. /\ M[p] \in Seq(Buffers) /\ Len(M[p]) \in Nat
      /\ o + m + 1 <= Len(M[p]) /\ o + 1 <= Len(M[p])
  BY <1>0, <1>1, FamilyTyped
<1>3. o + 1 \in 1..Len(M[p]) /\ M[p][o + 1] = b /\ b \in Buffers
  <2>1. 1 \in 1 .. m + 1
    OBVIOUS
  <2>2. o + 1 \in 1..Len(M[p])
    BY <1>2
  <2>3. M[p][o + 1] = b
    BY <1>1, <2>1
  <2> QED BY <1>0, <1>1, <2>2, <2>3, FamilyTyped
<1>4. /\ D \in Families /\ D[p] = Dropped(M[p], o + 1)
      /\ \A r \in Connectors : r # p => D[r] = M[r]
  BY <1>0, <1>1, <1>3, DropIs
<1>5. /\ Apart(D) /\ \A x : Placed(D, x) <=> Placed(M, x) /\ x # b
  BY <1>0, <1>1, <1>3, DropFamily
<1>6. Shape(u, D)
  <2>1. Shape(Partition_UnlinkBuffer(t, p, M[p][o + 1]), D)
    BY <1>0, <1>1, <1>3, UnlinkShape
  <2> QED BY <1>3, <2>1
<1>7. D[p] = Cut(M[p], o, 1)
  BY <1>2, <1>4, DroppedCut
<1> HIDE DEF D, u
<1>8. ~Placed(D, b)
  BY <1>5
<1>9. Shape(v, N)
  BY <1>3, <1>6, <1>8, FilterShape
<1>10. /\ \A r \in Selectors : N[r] = IF r = to THEN Append(D[r], b) ELSE D[r]
       /\ \A x : Placed(N, x) <=> Placed(D, x) \/ x = b
  BY <1>3, <1>4, <1>5, <1>8, GivenIs
<1> HIDE DEF N, v
<1>11. /\ D[p] \in Seq(Buffers) /\ Len(D[p]) = Len(M[p]) - 1
       /\ \A j \in 1..m : D[p][o + j] = M[p][o + (j + 1)]
       /\ Cut(D[p], o, m) = Cut(M[p], o, m + 1)
  <2>1. /\ Cut(M[p], o, 1) \in Seq(Buffers)
        /\ Len(Cut(M[p], o, 1)) = Len(M[p]) - 1
        /\ \A j \in 1..m : Cut(M[p], o, 1)[o + j] = M[p][o + (j + 1)]
        /\ m + 1 \in Nat /\ Cut(Cut(M[p], o, 1), o, m) = Cut(M[p], o, m + 1)
    <3> DEFINE l == M[p]
    <3>1. l \in Seq(Buffers) /\ o + m + 1 <= Len(l)
      BY <1>2
    <3> HIDE DEF l
    <3>2. /\ Cut(l, o, 1) \in Seq(Buffers) /\ Len(Cut(l, o, 1)) = Len(l) - 1
          /\ \A j \in 1..m : Cut(l, o, 1)[o + j] = l[o + (j + 1)]
          /\ m + 1 \in Nat /\ Cut(Cut(l, o, 1), o, m) = Cut(l, o, m + 1)
      BY <3>1, CutFirst
    <3> QED BY <3>2 DEF l
  <2> QED BY <1>7, <2>1
<1>12. o + m <= Len(D[p]) /\ Len(D[p]) \in Nat
  BY <1>2, <1>11
<1>13. /\ o + m <= Len(N[p]) /\ Len(N[p]) \in Nat
       /\ \A j \in 1..m : N[p][o + j] = D[p][o + j]
       /\ Cut(N[p], o, m) = IF p = to THEN Append(Cut(D[p], o, m), b)
                            ELSE Cut(D[p], o, m)
  <2>1. CASE p = to
    <3>1. N[p] = Append(D[p], b)
      BY <1>10, <2>1
    <3>2. Cut(N[p], o, m) = Append(Cut(D[p], o, m), b)
      <4> DEFINE l == D[p]
      <4>1. l \in Seq(Buffers) /\ o + m <= Len(l)
        BY <1>11, <1>12
      <4> HIDE DEF l
      <4>2. Cut(Append(l, b), o, m) = Append(Cut(l, o, m), b)
        BY <1>3, <4>1, CutAppend
      <4> QED BY <3>1, <4>2 DEF l
    <3>3. /\ Len(N[p]) = Len(D[p]) + 1
          /\ \A j \in 1..Len(D[p]) : N[p][j] = D[p][j]
      BY <1>3, <1>11, <3>1
    <3>4. \A j \in 1..m : o + j \in 1..Len(D[p])
      BY <1>12
    <3>5. \A j \in 1..m : N[p][o + j] = D[p][o + j]
      BY <3>3, <3>4
    <3>6. o + m <= Len(N[p]) /\ Len(N[p]) \in Nat
      BY <1>12, <3>3
    <3> HIDE DEF N, D
    <3> QED BY <2>1, <3>2, <3>5, <3>6, Zenon
  <2>2. CASE p # to
    <3>1. N[p] = D[p]
      BY <1>10, <2>2
    <3> QED BY <1>12, <2>2, <3>1
  <2> QED BY <2>1, <2>2
<1>14. \A j \in 1..m : N[p][o + j] = L[p][o + ((i + 1) + j)]
  <2> SUFFICES ASSUME NEW j \in 1..m
               PROVE  N[p][o + j] = L[p][o + ((i + 1) + j)]
    OBVIOUS
  <2>1. j + 1 \in 1 .. m + 1 /\ o + (i + (j + 1)) = o + ((i + 1) + j)
    OBVIOUS
  <2>2. M[p][o + (j + 1)] = L[p][o + (i + (j + 1))]
    BY <1>1, <2>1
  <2> QED BY <1>11, <1>13, <2>1, <2>2
<1> DEFINE z == [r \in Selectors |-> IF r = to THEN Append(q[r], b) ELSE q[r]]
<1>15. \A r \in Selectors : z[r] = IF r = p THEN Cut(N[p], o, m) ELSE N[r]
  <2> SUFFICES ASSUME NEW r \in Selectors
               PROVE  z[r] = IF r = p THEN Cut(N[p], o, m) ELSE N[r]
    OBVIOUS
  <2>1. z[r] = IF r = to THEN Append(q[r], b) ELSE q[r]
    OBVIOUS
  <2> HIDE DEF z
  <2>2. CASE r = p
    <3>1. q[r] = Cut(D[p], o, m)
      BY <1>1, <1>11, <2>2
    <3> QED BY <1>13, <2>1, <2>2, <3>1
  <2>3. CASE r # p
    <3>1. q[r] = M[r] /\ D[r] = M[r]
      BY <1>1, <1>4, <2>3 DEF Connectors
    <3> QED BY <1>10, <2>1, <2>3, <3>1
  <2> QED BY <2>2, <2>3
<1>16. \A x : Placed(N, x) <=> Placed(L, x)
  <2>1. Placed(M, b)
    BY <1>0, <1>3 DEF Placed
  <2> QED BY <1>1, <1>5, <1>10, <2>1
<1> HIDE DEF z
<1>17. MidMove(v, z, N, L, p, o, m, i + 1)
  BY <1>9, <1>13, <1>14, <1>15, <1>16 DEF MidMove
<1> QED BY <1>17 DEF v, u, z, N, D

Without(L, p, o, n) ==
  [r \in Selectors |-> IF r = p THEN Cut(L[p], o, n) ELSE L[r]]
Rearranged(t, q, M, L) ==
  /\ Shape(t, M) /\ QueuesOf(M) = q
  /\ \A x : Placed(M, x) <=> Placed(L, x)

LEMMA MovesShape ==
  ASSUME NEW L, NEW p \in Selectors, NEW o \in Nat, NEW n \in Nat,
         o + n <= Len(L[p]), NEW to \in [1..n -> Connectors],
         NEW at, NEW W, Shape(at[0], L), Moves(at, p, Piece(L[p], o, n), to),
         IsSending(W, Without(L, p, o, n), Piece(L[p], o, n), to)
  PROVE  \E M : Rearranged(at[n], W[n], M, L)
<1> DEFINE list == Piece(L[p], o, n)
           S == {i \in 0..n : \E M : MidMove(at[i], W[i], M, L, p, o, n - i, i)}
<1>0. /\ L \in Families /\ p \in Connectors
      /\ L[p] \in Seq(Buffers) /\ Len(L[p]) \in Nat
  BY FamilyTyped DEF Shape, Connectors
<1>1. /\ Len(list) = n /\ list \in Seq(Buffers)
      /\ \A i \in 1..n : list[i] = L[p][o + i]
  <2>1. /\ Piece(L[p], o, n) \in Seq(Buffers) /\ Len(Piece(L[p], o, n)) = n
        /\ \A i \in 1..n : Piece(L[p], o, n)[i] = L[p][o + i]
    BY <1>0, PieceIs
  <2> QED BY <2>1
<1>2. 0 \in S
  <2>1. W[0] = Without(L, p, o, n)
    BY DEF IsSending
  <2>2. \A j \in 1..n : o + (0 + j) = o + j
    OBVIOUS
  <2>3. \A r \in Selectors : W[0][r] = IF r = p THEN Cut(L[p], o, n) ELSE L[r]
    BY <2>1 DEF Without
  <2>4. n - 0 = n
    OBVIOUS
  <2>5. MidMove(at[0], W[0], L, L, p, o, n - 0, 0)
    BY <2>2, <2>3, <2>4 DEF MidMove
  <2> QED BY <2>5
<1> HIDE DEF list
<1>3. ASSUME NEW i \in 0 .. n - 1, i \in S PROVE i + 1 \in S
  <2>1. PICK M : MidMove(at[i], W[i], M, L, p, o, n - i, i)
    BY <1>3
  <2> DEFINE j == i + 1
             m == n - j
             b == list[j]
  <2>2. j \in 1..n /\ j - 1 = i /\ m \in Nat /\ n - i = m + 1 /\ i \in Nat
    OBVIOUS
  <2>3. b = L[p][o + (i + 1)] /\ to[j] \in Connectors
    BY <1>1, <2>2
  <2>4. MidMove(FilterBuf(Partition_UnlinkBuffer(at[i], p, b), b, to[j]),
               [r \in Selectors |-> IF r = to[j] THEN Append(W[i][r], b)
                                    ELSE W[i][r]],
               Given(Drop(M, p, o + 1), to[j], b), L, p, o, m, i + 1)
    <3>1. MidMove(at[i], W[i], M, L, p, o, m + 1, i)
      BY <2>1, <2>2
    <3>2. m \in Nat /\ i \in Nat /\ b = L[p][o + (i + 1)] /\ to[j] \in Connectors
      BY <2>2, <2>3
    <3> HIDE DEF j, m, b
    <3> QED BY ONLY <3>1, <3>2, p \in Selectors, o \in Nat, MoveOne, SMTT(30)
  <2> HIDE DEF j, m, b
  <2>5. /\ at[j] = FilterBuf(Partition_UnlinkBuffer(at[i], p, b), b, to[j])
        /\ W[j] = [r \in Selectors |-> IF r = to[j] THEN Append(W[i][r], b)
                                       ELSE W[i][r]]
    BY <1>1, <2>2 DEF Moves, IsSending, list, b
  <2>6. MidMove(at[j], W[j], Given(Drop(M, p, o + 1), to[j], b), L, p, o, n - j, j)
    BY <2>4, <2>5 DEF j, m
  <2>7. j \in S
    BY <2>2, <2>6
  <2> QED BY <2>7 DEF j
<1> HIDE DEF S
<1>4. \A i \in 0..n : i \in S
  BY <1>2, <1>3, Along
<1>5. PICK M : MidMove(at[n], W[n], M, L, p, o, n - n, n)
  <2>1. n \in S
    BY <1>4
  <2> QED BY <2>1 DEF S
<1>6. n - n = 0
  OBVIOUS
<1>7. /\ Shape(at[n], M) /\ o <= Len(M[p])
      /\ \A r \in Selectors : W[n][r] = IF r = p THEN Cut(M[p], o, 0) ELSE M[r]
      /\ \A x : Placed(M, x) <=> Placed(L, x)
  BY <1>5, <1>6 DEF MidMove
<1>8. M[p] \in Seq(Buffers)
  BY <1>0, <1>7, FamilyTyped DEF Shape
<1>9. Cut(M[p], o, 0) = M[p]
  BY <1>7, <1>8, CutNone
<1>10. W[n] \in Queues
  BY <1>1 DEF IsSending, list
<1>11. QueuesOf(M) = W[n]
  <2>1. \A r \in Selectors : W[n][r] = M[r]
    BY <1>7, <1>9
  <2> QED BY <1>10, <2>1 DEF QueuesOf, Queues
<1> QED BY <1>7, <1>11 DEF Rearranged
-----------------------------------------------------------------------------
LEMMA UnlinkedShape ==
  ASSUME NEW s, NEW L, Shape(s, L), NEW p \in Selectors, NEW o \in Nat,
         NEW n \in Nat, o + n <= Len(L[p])
  PROVE  \E M : Taken(Unlinked(s, p, Piece(L[p], o, n)), M, L, p, o, n)
<1> DEFINE list == Piece(L[p], o, n)
<1>0. /\ L \in Families /\ p \in Connectors
      /\ L[p] \in Seq(Buffers) /\ Len(L[p]) \in Nat
  BY FamilyTyped DEF Shape, Connectors
<1>1. Len(list) = n /\ \A i \in 1..n : list[i] = L[p][o + i]
  <2>1. /\ Len(Piece(L[p], o, n)) = n
        /\ \A i \in 1..n : Piece(L[p], o, n)[i] = L[p][o + i]
    BY <1>0, PieceIs
  <2> QED BY <2>1
<1> HIDE DEF list
<1>2. PICK at : /\ IsRun(at, "take", s, p, list, <<>>, n)
                /\ Unlinked(s, p, list) = at[n]
  <2>1. Len(list) \in Nat
    BY <1>1
  <2>2. \E at : /\ IsRun(at, "take", s, p, list, <<>>, Len(list))
                /\ Unlinked(s, p, list) = at[Len(list)]
    BY <2>1, UnlinkedRuns
  <2> QED BY <1>1, <2>2
<1>3. /\ at[0] = s
      /\ \A i \in 1..n : at[i] = Turn("take", at[i - 1], p, list, <<>>, i)
  BY <1>2 DEF IsRun
<1>4. Takes(at, L, p, o, n)
  <2> SUFFICES ASSUME NEW i \in 0 .. n - 1, NEW M, Taken(at[i], M, L, p, o, i)
               PROVE  Shape(at[i + 1], Drop(M, p, o + 1))
    BY DEF Takes
  <2>1. /\ Shape(at[i], M) /\ M[p] = Cut(L[p], o, i)
    BY DEF Taken
  <2>2. i + 1 \in 1..n /\ (i + 1) - 1 = i /\ i \in Nat /\ o + i + 1 <= Len(L[p])
    BY <1>0
  <2>3. at[i + 1] = Partition_UnlinkBuffer(at[i], p, list[i + 1])
    <3> DEFINE j == i + 1
    <3>1. j \in 1..n /\ j - 1 = i
      BY <2>2
    <3> HIDE DEF j
    <3>2. at[j] = Partition_UnlinkBuffer(at[i], p, list[j])
      BY <1>3, <3>1 DEF Turn
    <3> QED BY <3>2 DEF j
  <2>4. /\ 1 <= Len(Cut(L[p], o, i)) - o
        /\ Cut(L[p], o, i)[o + 1] = L[p][o + (i + 1)]
    BY <1>0, <2>2, CutMore
  <2>5. M[p] \in Seq(Buffers) /\ Len(M[p]) \in Nat
    BY <1>0, <2>1, FamilyTyped DEF Shape
  <2>6. o + 1 \in 1..Len(M[p]) /\ M[p][o + 1] = list[i + 1]
    BY <1>1, <2>1, <2>2, <2>4, <2>5
  <2>7. Shape(Partition_UnlinkBuffer(at[i], p, M[p][o + 1]), Drop(M, p, o + 1))
    BY <2>1, <2>6, UnlinkShape
  <2> QED BY <2>3, <2>6, <2>7
<1>5. \E M : Taken(at[n], M, L, p, o, n)
  BY <1>0, <1>3, <1>4, TakesShape
<1> QED BY <1>1, <1>2, <1>5 DEF list

LEMMA AllocatedShape ==
  ASSUME NEW s, NEW L, Shape(s, L), NEW n \in Nat, n <= Len(L[FF])
  PROVE  \E M : Taken(Allocated(s, n), M, L, FF, 0, n)
<1>0. /\ L \in Families /\ FF \in Connectors
      /\ L[FF] \in Seq(Buffers) /\ Len(L[FF]) \in Nat
  BY FamilyTyped, FFNoSelector DEF Shape
<1>1. PICK at : /\ IsRun(at, "allocate", s, FF, <<>>, <<>>, n)
                /\ Allocated(s, n) = at[n]
  BY AllocatedRuns
<1>2. /\ at[0] = s
      /\ \A i \in 1..n : at[i] = Turn("allocate", at[i - 1], FF, <<>>, <<>>, i)
  BY <1>1 DEF IsRun
<1>3. Takes(at, L, FF, 0, n)
  <2> SUFFICES ASSUME NEW i \in 0 .. n - 1, NEW M, Taken(at[i], M, L, FF, 0, i)
               PROVE  Shape(at[i + 1], Drop(M, FF, 0 + 1))
    BY DEF Takes
  <2>1. /\ Shape(at[i], M) /\ M[FF] = Cut(L[FF], 0, i)
    BY DEF Taken
  <2>2. /\ i \in Nat /\ 0 \in Nat /\ 0 + i + 1 <= Len(L[FF])
        /\ 0 + i <= Len(L[FF]) /\ 0 + 1 = 1
    BY <1>0
  <2>3. at[i + 1] = Buffer_Allocate(at[i])
    <3> DEFINE j == i + 1
    <3>1. j \in 1..n /\ j - 1 = i
      OBVIOUS
    <3> HIDE DEF j
    <3>2. at[j] = Buffer_Allocate(at[i])
      BY <1>2, <3>1 DEF Turn
    <3> QED BY <3>2 DEF j
  <2>4. Len(Cut(L[FF], 0, i)) = Len(L[FF]) - i
    BY <1>0, <2>2, CutTyped
  <2>5. M[FF] # <<>>
    BY <1>0, <2>1, <2>2, <2>4
  <2>6. Shape(Buffer_Allocate(at[i]), Drop(M, FF, 1))
    BY <2>1, <2>5, AllocateShape
  <2> QED BY <2>2, <2>3, <2>6
<1>4. \E M : Taken(at[n], M, L, FF, 0, n)
  <2>1. 0 \in Nat /\ 0 + n <= Len(L[FF])
    BY <1>0
  <2> QED BY <1>0, <1>2, <1>3, <2>1, TakesShape
<1> QED BY <1>1, <1>4

LEMMA FilteredShape ==
  ASSUME NEW s, NEW L, Shape(s, L), NEW list \in Seq(Buffers), Distinct(list),
         Outside(L, list), NEW to \in [1..Len(list) -> Connectors]
  PROVE  \E M : GivenOut(FilteredTo(s, list, to), SP!Sent(QueuesOf(L), list, to),
                       M, L, list, Len(list))
<1> DEFINE n == Len(list)
<1>0. L \in Families /\ n \in Nat
  BY DEF Shape
<1>1. PICK at : /\ IsRun(at, "give", s, FF, list, to, n)
                /\ FilteredTo(s, list, to) = at[n]
  BY <1>0, FilteredToRuns
<1>2. /\ at[0] = s
      /\ \A i \in 1..n : at[i] = Turn("give", at[i - 1], FF, list, to, i)
  <2> HIDE DEF n
  <2> QED BY <1>0, <1>1 DEF IsRun
<1>3. Gives(at, list, to)
  BY <1>2 DEF Gives, Turn
<1>4. PICK W : /\ IsSending(W, QueuesOf(L), list, to)
               /\ SP!Sent(QueuesOf(L), list, to) = W[n]
  BY <1>0, QueuesTyped, SentIs
<1>5. \E M : GivenOut(at[n], W[n], M, L, list, n)
  BY <1>2, <1>3, <1>4, GivesShape
<1> QED BY <1>1, <1>4, <1>5

LEMMA NothingSent ==
  ASSUME NEW q \in Queues, NEW list \in Seq(Buffers), NEW W,
         IsSending(W, q, list, [i \in 1..Len(list) |-> FF])
  PROVE  W[Len(list)] = q
<1> DEFINE n == Len(list)
           S == {i \in 0..n : W[i] = q}
<1>0. n \in Nat
  OBVIOUS
<1>1. 0 \in S
  BY DEF IsSending
<1>2. ASSUME NEW i \in 0 .. n - 1, i \in S PROVE i + 1 \in S
  <2> DEFINE j == i + 1
  <2>1. j \in 1..n /\ j - 1 = i /\ j \in 0..n
    BY <1>0
  <2> HIDE DEF j
  <2>2. W[j] = [r \in Selectors |-> IF r = FF THEN Append(W[i][r], list[j])
                                    ELSE W[i][r]]
    BY <2>1 DEF IsSending
  <2>3. W[j] = q
    <3>1. W[i] = q
      BY <1>2
    <3>2. \A r \in Selectors : r # FF
      BY FFNoSelector
    <3> QED BY <2>2, <3>1, <3>2 DEF Queues
  <2> QED BY <2>1, <2>3 DEF j
<1> HIDE DEF S
<1>3. \A i \in 0..n : i \in S
  BY <1>0, <1>1, <1>2, Along
<1> QED BY <1>0, <1>3 DEF S

LEMMA FreedShape ==
  ASSUME NEW s, NEW L, Shape(s, L), NEW list \in Seq(Buffers), Distinct(list),
         Outside(L, list)
  PROVE  \E M : GivenOut(Freed(s, list), QueuesOf(L), M, L, list, Len(list))
<1> DEFINE n == Len(list)
           to == [i \in 1..n |-> FF]
<1>0. /\ L \in Families /\ n \in Nat /\ QueuesOf(L) \in Queues
      /\ to \in [1..n -> Connectors]
  BY QueuesTyped, FFNoSelector DEF Shape
<1>1. PICK at : /\ IsRun(at, "free", s, FF, list, <<>>, n)
                /\ Freed(s, list) = at[n]
  BY <1>0, FreedRuns
<1>2. /\ at[0] = s
      /\ \A i \in 1..n : at[i] = Turn("free", at[i - 1], FF, list, <<>>, i)
  BY <1>0, <1>1, RunSteps
<1>3. Gives(at, list, to)
  <2>1. \A i \in 1..n : to[i] = FF
    OBVIOUS
  <2> HIDE DEF to
  <2> QED BY <1>2, <2>1 DEF Gives, Turn, FilterBuf
<1>4. PICK W : IsSending(W, QueuesOf(L), list, to)
  BY <1>0, SentIs
<1>5. W[n] = QueuesOf(L)
  BY <1>0, <1>4, NothingSent
<1>6. \E M : GivenOut(at[n], W[n], M, L, list, n)
  <2> HIDE DEF to
  <2> QED BY <1>0, <1>2, <1>3, <1>4, GivesShape
<1> QED BY <1>1, <1>5, <1>6

LEMMA WithoutTyped ==
  ASSUME NEW L \in Families, NEW p \in Selectors, NEW o \in Nat, NEW n \in Nat,
         o + n <= Len(L[p])
  PROVE  Without(L, p, o, n) \in Queues
<1>1. \A r \in Selectors : L[r] \in Seq(Buffers)
  BY FamilyTyped DEF Connectors
<1>2. Cut(L[p], o, n) \in Seq(Buffers)
  BY <1>1, CutTyped
<1> QED BY <1>1, <1>2 DEF Without, Queues

LEMMA MovedShape ==
  ASSUME NEW s, NEW L, Shape(s, L), NEW p \in Selectors, NEW o \in Nat,
         NEW n \in Nat, o + n <= Len(L[p]), NEW to \in [1..n -> Connectors]
  PROVE  \E M : Rearranged(Moved(s, p, Piece(L[p], o, n), to),
                  SP!Sent(Without(L, p, o, n), Piece(L[p], o, n), to), M, L)
<1> DEFINE list == Piece(L[p], o, n)
           q == Without(L, p, o, n)
<1>0. /\ L \in Families /\ q \in Queues /\ list \in Seq(Buffers)
      /\ Len(list) = n
  <2>1. L \in Families /\ L[p] \in Seq(Buffers)
    BY FamilyTyped DEF Shape, Connectors
  <2>2. Piece(L[p], o, n) \in Seq(Buffers) /\ Len(Piece(L[p], o, n)) = n
    BY <2>1, PieceIs
  <2> QED BY <2>1, <2>2, WithoutTyped
<1> HIDE DEF list, q
<1>1. PICK at : /\ IsRun(at, "move", s, p, list, to, n)
                /\ Moved(s, p, list, to) = at[n]
  <2>1. Len(list) \in Nat
    BY <1>0
  <2>2. \E at : /\ IsRun(at, "move", s, p, list, to, Len(list))
                /\ Moved(s, p, list, to) = at[Len(list)]
    BY <2>1, MovedRuns
  <2> QED BY <1>0, <2>2
<1>2. /\ at[0] = s
      /\ \A i \in 1..n : at[i] = Turn("move", at[i - 1], p, list, to, i)
  BY <1>1, RunSteps
<1>3. Moves(at, p, list, to)
  BY <1>0, <1>2 DEF Moves, Turn
<1>4. PICK W : /\ IsSending(W, q, list, to) /\ SP!Sent(q, list, to) = W[n]
  BY <1>0, SentIs
<1>5. \E M : Rearranged(at[n], W[n], M, L)
  BY <1>2, <1>3, <1>4, MovesShape DEF list, q
<1> QED BY <1>1, <1>4, <1>5 DEF list, q

LEMMA DeletedShape ==
  ASSUME NEW s, NEW L, Shape(s, L), NEW p \in Selectors, NEW o \in Nat,
         NEW n \in Nat, o + n <= Len(L[p])
  PROVE  \E M : Rearranged(Deleted(s, p, Piece(L[p], o, n)),
                           Without(L, p, o, n), M, L)
<1> DEFINE list == Piece(L[p], o, n)
           q == Without(L, p, o, n)
           to == [i \in 1..n |-> FF]
<1>0. /\ L \in Families /\ q \in Queues /\ list \in Seq(Buffers)
      /\ Len(list) = n
  <2>1. L \in Families /\ L[p] \in Seq(Buffers)
    BY FamilyTyped DEF Shape, Connectors
  <2>2. Piece(L[p], o, n) \in Seq(Buffers) /\ Len(Piece(L[p], o, n)) = n
    BY <2>1, PieceIs
  <2> QED BY <2>1, <2>2, WithoutTyped
<1> HIDE DEF list, q
<1>1. PICK at : /\ IsRun(at, "discard", s, p, list, <<>>, n)
                /\ Deleted(s, p, list) = at[n]
  <2>1. Len(list) \in Nat
    BY <1>0
  <2>2. \E at : /\ IsRun(at, "discard", s, p, list, <<>>, Len(list))
                /\ Deleted(s, p, list) = at[Len(list)]
    BY <2>1, DeletedRuns
  <2> QED BY <1>0, <2>2
<1>2. /\ at[0] = s
      /\ \A i \in 1..n : at[i] = Turn("discard", at[i - 1], p, list, <<>>, i)
  BY <1>1, RunSteps
<1>3. Moves(at, p, list, to)
  <2>1. \A i \in 1..n : to[i] = FF
    OBVIOUS
  <2> HIDE DEF to
  <2> QED BY <1>0, <1>2, <2>1 DEF Moves, Turn, FilterBuf, Discard
<1>4. PICK W : IsSending(W, q, list, to)
  BY <1>0, SentIs
<1>5. W[n] = q
  BY <1>0, <1>4, NothingSent
<1>6. \E M : Rearranged(at[n], W[n], M, L)
  <2>1. to \in [1..n -> Connectors]
    BY FFNoSelector
  <2> HIDE DEF to
  <2> QED BY <1>2, <1>3, <1>4, <2>1, MovesShape DEF list, q
<1> QED BY <1>1, <1>5, <1>6 DEF list, q
-----------------------------------------------------------------------------
LEMMA ClearShape ==
  ASSUME NEW s, NEW L, Shape(s, L), NEW p \in Selectors
  PROVE  /\ Partition_Clear(s, p) = Deleted(s, p, Piece(L[p], 0, Len(L[p])))
         /\ Without(L, p, 0, Len(L[p])) =
              [r \in Selectors |-> IF r = p THEN <<>> ELSE L[r]]
         /\ \E M : Rearranged(Partition_Clear(s, p),
                     [r \in Selectors |-> IF r = p THEN <<>> ELSE L[r]], M, L)
<1> DEFINE n == Len(L[p])
<1>1. L[p] \in Seq(Buffers) /\ n \in Nat /\ 0 \in Nat /\ 0 + n <= n
  <2>1. L[p] \in Seq(Buffers) /\ n \in Nat
    BY FamilyTyped DEF Shape, Connectors
  <2> QED BY <2>1
<1>2. Contents(s, p) = L[p] /\ Piece(L[p], 0, n) = L[p]
  BY <1>1, ContentsAre, PieceAll
<1>3. Partition_Clear(s, p) = Deleted(s, p, Piece(L[p], 0, n))
  BY <1>2 DEF Partition_Clear
<1>4. Cut(L[p], 0, n) = <<>>
  <2>1. Cut(L[p], 0, n) \in Seq(Buffers) /\ Len(Cut(L[p], 0, n)) = n - n
    <3> DEFINE z == 0
               l == L[p]
    <3>1. l \in Seq(Buffers) /\ z \in Nat /\ n \in Nat /\ z + n <= Len(l) /\ Len(l) = n
      BY <1>1
    <3> HIDE DEF z, l, n
    <3>2. Cut(l, z, n) \in Seq(Buffers) /\ Len(Cut(l, z, n)) = Len(l) - n
      BY <3>1, CutTyped
    <3> QED BY <3>1, <3>2 DEF z, l
  <2>2. n - n = 0
    BY <1>1
  <2> HIDE DEF n
  <2> QED BY <2>1, <2>2, EmptySeq
<1>5. Without(L, p, 0, n) = [r \in Selectors |-> IF r = p THEN <<>> ELSE L[r]]
  BY <1>4 DEF Without
<1>6. \E M : Rearranged(Deleted(s, p, Piece(L[p], 0, n)), Without(L, p, 0, n), M, L)
  BY <1>1, DeletedShape
<1> QED BY <1>3, <1>5, <1>6

LEMMA AllClearedShape ==
  ASSUME NEW s, NEW L, Shape(s, L)
  PROVE  \E M : Rearranged(AllCleared(s), [r \in Selectors |-> <<>>], M, L)
<1> DEFINE n == NumSelectors
           q(i) == [r \in Selectors |-> IF r < i THEN <<>> ELSE L[r]]
<1>0. n \in Nat /\ L \in Families
  BY SelectorsAssumption DEF Shape
<1>1. PICK at : /\ IsRun(at, "clear", s, FF, <<>>, <<>>, n)
                /\ AllCleared(s) = at[n]
  BY AllClearedRuns
<1>2. /\ at[0] = s
      /\ \A i \in 1..n : at[i] = Partition_Clear(at[i - 1], i - 1)
  <2> HIDE DEF n
  <2> QED BY <1>0, <1>1 DEF IsRun, Turn
<1> DEFINE T == {i \in 0..n : \E M : Rearranged(at[i], q(i), M, L)}
<1>3. 0 \in T
  <2>1. q(0) = QueuesOf(L)
    BY DEF QueuesOf, Selectors
  <2>2. Rearranged(at[0], q(0), L, L)
    BY <1>2, <2>1 DEF Rearranged
  <2> QED BY <1>0, <2>2
<1>4. ASSUME NEW i \in 0 .. n - 1, i \in T PROVE i + 1 \in T
  <2>1. PICK M : Rearranged(at[i], q(i), M, L)
    BY <1>4
  <2>2. /\ Shape(at[i], M) /\ QueuesOf(M) = q(i)
        /\ \A x : Placed(M, x) <=> Placed(L, x)
    BY <2>1 DEF Rearranged
  <2>3. i \in Selectors
    BY DEF Selectors
  <2>4. PICK O : Rearranged(Partition_Clear(at[i], i),
                   [r \in Selectors |-> IF r = i THEN <<>> ELSE M[r]], O, M)
    BY <2>2, <2>3, ClearShape
  <2> DEFINE j == i + 1
  <2>5. j \in 1..n /\ j - 1 = i /\ j \in 0..n
    BY <1>0
  <2>6. at[j] = Partition_Clear(at[i], i)
    <3> HIDE DEF j, n
    <3> QED BY <1>2, <2>5
  <2>7. [r \in Selectors |-> IF r = i THEN <<>> ELSE M[r]] = q(j)
    <3>1. \A r \in Selectors : M[r] = IF r < i THEN <<>> ELSE L[r]
      BY <2>2 DEF QueuesOf
    <3>2. \A r \in Selectors : (r < i \/ r = i) <=> r < j
      BY DEF Selectors
    <3>3. \A r \in Selectors : (IF r = i THEN <<>> ELSE M[r])
                                 = IF r < j THEN <<>> ELSE L[r]
      BY <3>1, <3>2
    <3> QED BY <3>3
  <2> HIDE DEF j
  <2>8. Rearranged(at[j], q(j), O, L)
    BY <2>2, <2>4, <2>6, <2>7 DEF Rearranged
  <2>9. j \in T
    BY <2>5, <2>8
  <2> QED BY <2>9 DEF j
<1> HIDE DEF T
<1>5. \A i \in 0..n : i \in T
  BY <1>0, <1>3, <1>4, Along
<1>6. n \in T
  BY <1>0, <1>5
<1>7. PICK M : Rearranged(at[n], q(n), M, L)
  BY <1>6 DEF T
<1>8. q(n) = [r \in Selectors |-> <<>>]
  <2>1. \A r \in Selectors : r < n
    BY <1>0 DEF Selectors
  <2> QED BY <2>1
<1> QED BY <1>1, <1>7, <1>8

LEMMA SentMore ==
  ASSUME NEW q \in Queues, NEW s \in Seq(Buffers), NEW d \in Seq(Selectors),
         Len(d) = Len(s), NEW b \in Buffers, NEW p \in Selectors
  PROVE  /\ SP!Sent(q, s, d) \in Queues
         /\ SP!Sent(q, Append(s, b), Append(d, p)) =
              [r \in Selectors |-> IF r = p THEN Append(SP!Sent(q, s, d)[r], b)
                                   ELSE SP!Sent(q, s, d)[r]]
<1> DEFINE n == Len(s)
           u == Append(s, b)
           e == Append(d, p)
<1>1. /\ n \in Nat /\ u \in Seq(Buffers) /\ Len(u) = n + 1
      /\ \A i \in 1..n : u[i] = s[i] /\ e[i] = d[i]
      /\ u[n + 1] = b /\ e[n + 1] = p
  OBVIOUS
<1> HIDE DEF u, e
<1>2. PICK W : IsSending(W, q, s, d) /\ SP!Sent(q, s, d) = W[n]
  BY SentIs
<1>3. PICK V : IsSending(V, q, u, e) /\ SP!Sent(q, u, e) = V[Len(u)]
  BY <1>1, SentIs
<1> DEFINE S == {i \in 0..n : W[i] = V[i]}
<1> HIDE DEF n
<1>4. 0 \in S
  BY <1>1, <1>2, <1>3 DEF IsSending
<1>5. ASSUME NEW i \in 0 .. n - 1, i \in S PROVE i + 1 \in S
  <2> DEFINE j == i + 1
  <2>1. j \in 1..n /\ j - 1 = i /\ j \in 0..n /\ j \in 1..Len(u)
    BY <1>1
  <2> HIDE DEF j
  <2>2. W[j] = [r \in Selectors |-> IF r = d[j] THEN Append(W[i][r], s[j])
                                    ELSE W[i][r]]
    BY <1>2, <2>1 DEF IsSending, n
  <2>3. V[j] = [r \in Selectors |-> IF r = e[j] THEN Append(V[i][r], u[j])
                                    ELSE V[i][r]]
    BY <1>3, <2>1 DEF IsSending
  <2>4. W[i] = V[i] /\ u[j] = s[j] /\ e[j] = d[j]
    BY <1>1, <1>5, <2>1
  <2>5. j \in S
    BY <2>1, <2>2, <2>3, <2>4
  <2> QED BY <2>5 DEF j
<1> HIDE DEF S
<1>6. \A i \in 0..n : i \in S
  BY <1>1, <1>4, <1>5, Along
<1>7. W[n] = V[n] /\ W[n] \in Queues
  <2>1. n \in 0..n
    BY <1>1
  <2> QED BY <1>2, <1>6, <2>1 DEF S, IsSending, n
<1> DEFINE m == n + 1
<1>8. m \in 1..Len(u) /\ m - 1 = n /\ Len(u) = m
  BY <1>1
<1>9. V[m] = [r \in Selectors |-> IF r = e[m] THEN Append(V[n][r], u[m])
                                  ELSE V[n][r]]
  <2> HIDE DEF m
  <2> QED BY <1>3, <1>8 DEF IsSending
<1>10. e[m] = p /\ u[m] = b
  BY <1>1
<1> QED BY <1>2, <1>3, <1>7, <1>8, <1>9, <1>10 DEF u, e
-----------------------------------------------------------------------------
Inside(x, l) == Among(x, l, Len(l))
(* Copies: the buffers of s, that were free, have been sent to d.  Those of *)
(* copies nobody wants are free again.                                      *)
Copying(t, M, L, s, d) ==
  /\ Shape(t, M) /\ s \in Seq(Buffers) /\ d \in Seq(Selectors) /\ Len(d) = Len(s)
  /\ Distinct(s) /\ QueuesOf(M) = SP!Sent(QueuesOf(L), s, d)
  /\ Len(M[FF]) + Len(s) = Len(L[FF])
  /\ \A x : Placed(M, x) <=> Placed(L, x)
  /\ \A x : Inside(x, M[FF]) <=> Inside(x, L[FF]) /\ ~Inside(x, s)
  /\ \A x : Inside(x, s) => Inside(x, L[FF])

LEMMA InsideAppend ==
  ASSUME NEW s \in Seq(Buffers), NEW b \in Buffers
  PROVE  \A x : Inside(x, Append(s, b)) <=> Inside(x, s) \/ x = b
<1> DEFINE u == Append(s, b)
           n == Len(s)
<1>1. /\ n \in Nat /\ Len(u) = n + 1 /\ u[n + 1] = b
      /\ \A i \in 1..n : u[i] = s[i]
  OBVIOUS
<1>2. /\ \A j \in 1 .. n + 1 : j \in 1..n \/ j = n + 1
      /\ \A j \in 1..n : j \in 1 .. n + 1
      /\ n + 1 \in 1 .. n + 1
  BY <1>1
<1> HIDE DEF u
<1>3. \A x : Inside(x, u) <=> Inside(x, s) \/ x = b
  BY <1>1, <1>2 DEF Inside, Among
<1> QED BY <1>3 DEF u

LEMMA CopyOne ==
  ASSUME NEW t, NEW M, NEW L \in Families, NEW s, NEW d,
         Copying(t, M, L, s, d), 0 < Len(M[FF]), NEW to \in Connectors
  PROVE  \E N, k, e :
           /\ Copying(FilterBuf(Buffer_Allocate(t), t.FirstFreeBuf, to), N, L, k, e)
           /\ Len(k) <= Len(s) + 1
<1> DEFINE b == t.FirstFreeBuf
           D == Drop(M, FF, 1)
           N == Given(D, to, b)
           l == M[FF]
           n == Len(l)
<1>0. FF \in Connectors /\ FF \notin Selectors
  BY FFNoSelector
<1>1. /\ Shape(t, M) /\ M \in Families /\ Apart(M)
      /\ s \in Seq(Buffers) /\ d \in Seq(Selectors) /\ Len(d) = Len(s)
      /\ Distinct(s) /\ QueuesOf(M) = SP!Sent(QueuesOf(L), s, d)
      /\ n + Len(s) = Len(L[FF])
      /\ \A x : Placed(M, x) <=> Placed(L, x)
      /\ \A x : Inside(x, l) <=> Inside(x, L[FF]) /\ ~Inside(x, s)
      /\ \A x : Inside(x, s) => Inside(x, L[FF])
  BY DEF Copying, Shape
<1>2. l \in Seq(Buffers) /\ n \in Nat /\ n > 0 /\ l # <<>> /\ Len(s) \in Nat
  <2>1. l \in Seq(Buffers) /\ n \in Nat
    BY <1>0, <1>1, FamilyTyped
  <2> QED BY <1>1, <2>1
<1>3. b = l[1] /\ 1 \in 1..n /\ Shape(Buffer_Allocate(t), D)
  BY <1>1, <1>2, AllocateShape
<1>4. b \in Buffers
  BY <1>2, <1>3
<1>5. /\ D \in Families /\ Len(D[FF]) = n - 1
      /\ \A r \in Connectors : r # FF => D[r] = M[r]
      /\ \A i \in 1 .. n - 1 : D[FF][i] = l[i + 1]
  <2>1. /\ D \in Families /\ Len(D[FF]) = n - 1
        /\ \A r \in Connectors : r # FF => D[r] = M[r]
        /\ \A i \in 1 .. n - 1 : D[FF][i] = IF i < 1 THEN l[i] ELSE l[i + 1]
    BY <1>0, <1>1, <1>3, DropIs
  <2>2. \A i \in 1 .. n - 1 : ~(i < 1)
    OBVIOUS
  <2> HIDE DEF D, l, n
  <2> QED BY <2>1, <2>2
<1>6. Apart(D) /\ \A x : Placed(D, x) <=> Placed(M, x) /\ x # b
  <2>1. Apart(D) /\ \A x : Placed(D, x) <=> Placed(M, x) /\ x # M[FF][1]
    BY <1>0, <1>1, <1>3, DropFamily
  <2> QED BY <1>3, <2>1
<1> HIDE DEF D, b
<1>7. Placed(M, b) /\ Inside(b, l)
  BY <1>0, <1>3 DEF Placed, Inside, Among
<1>8. \A x : Inside(x, D[FF]) <=> Inside(x, l) /\ x # b
  <2>1. ASSUME NEW x, Inside(x, D[FF]) PROVE Inside(x, l) /\ x # b
    <3>1. PICK i \in 1 .. n - 1 : D[FF][i] = x
      BY <1>5, <2>1 DEF Inside, Among
    <3>2. i + 1 \in 1..n /\ l[i + 1] = x /\ i + 1 # 1
      BY <1>2, <1>5, <3>1
    <3>3. x # b
      BY <1>0, <1>1, <1>3, <3>2 DEF Apart
    <3> QED BY <3>2, <3>3 DEF Inside, Among
  <2>2. ASSUME NEW x, Inside(x, l), x # b PROVE Inside(x, D[FF])
    <3>1. PICK j \in 1..n : l[j] = x
      BY <2>2 DEF Inside, Among
    <3>2. j # 1
      BY <1>3, <2>2, <3>1
    <3>3. j - 1 \in 1 .. n - 1 /\ (j - 1) + 1 = j
      BY <1>2, <3>1, <3>2
    <3>4. D[FF][j - 1] = x
      BY <1>5, <3>1, <3>3
    <3> QED BY <1>5, <3>3, <3>4 DEF Inside, Among
  <2> QED BY <2>1, <2>2
<1>9. ~Placed(D, b) /\ ~Inside(b, s)
  BY <1>1, <1>6, <1>7
<1>10. Shape(FilterBuf(Buffer_Allocate(t), b, to), N)
  BY <1>3, <1>4, <1>9, FilterShape
<1>11. /\ \A r \in Selectors :
            N[r] = IF r = to THEN Append(D[r], b) ELSE D[r]
       /\ \A x : Placed(N, x) <=> Placed(D, x) \/ x = b
       /\ to # FF => N[FF] = D[FF]
       /\ to = FF => /\ Len(N[FF]) = Len(D[FF]) + 1
                     /\ \A i \in 1 .. Len(D[FF]) + 1 :
                          N[FF][i] = IF i = 1 THEN b ELSE D[FF][i - 1]
  BY <1>4, <1>5, <1>6, <1>9, GivenIs
<1> HIDE DEF N
<1>12. \A x : Placed(N, x) <=> Placed(L, x)
  BY <1>1, <1>6, <1>7, <1>11
<1>13. \A r \in Selectors : D[r] = M[r]
  BY <1>0, <1>5 DEF Connectors
<1>14. CASE to = FF
  <2>1. Len(N[FF]) = n
    BY <1>2, <1>5, <1>11, <1>14
  <2>2. \A x : Inside(x, N[FF]) <=> Inside(x, D[FF]) \/ x = b
    <3>1. /\ Len(N[FF]) = n /\ Len(D[FF]) = n - 1 /\ N[FF][1] = b
          /\ \A i \in 2..n : N[FF][i] = D[FF][i - 1]
      <4>1. /\ \A i \in 1..n : N[FF][i] = IF i = 1 THEN b ELSE D[FF][i - 1]
        <5>1. Len(D[FF]) + 1 = n
          BY <1>2, <1>5
        <5> QED BY <1>11, <1>14, <5>1
      <4>2. 1 \in 1..n /\ \A i \in 2..n : i \in 1..n /\ i # 1
        BY <1>2
      <4> HIDE DEF n
      <4> QED BY <1>5, <2>1, <4>1, <4>2
    <3>2. ASSUME NEW x, Inside(x, N[FF]) PROVE Inside(x, D[FF]) \/ x = b
      <4>1. PICK i \in 1..n : N[FF][i] = x
        BY <3>1, <3>2 DEF Inside, Among
      <4>2. i # 1 => i \in 2..n /\ i - 1 \in 1 .. n - 1
        BY <4>1
      <4> QED BY <3>1, <4>1, <4>2 DEF Inside, Among
    <3>3. ASSUME NEW x, Inside(x, D[FF]) PROVE Inside(x, N[FF])
      <4>1. PICK i \in 1 .. n - 1 : D[FF][i] = x
        BY <3>1, <3>3 DEF Inside, Among
      <4> DEFINE j == i + 1
      <4>2. j \in 2..n /\ j \in 1..n /\ j - 1 = i
        BY <4>1
      <4> HIDE DEF j, n
      <4>3. N[FF][j] = x
        BY <3>1, <4>1, <4>2
      <4> QED BY <3>1, <4>2, <4>3 DEF Inside, Among
    <3>4. Inside(b, N[FF])
      BY <1>3, <3>1 DEF Inside, Among
    <3> QED BY <3>2, <3>3, <3>4
  <2>3. \A x : Inside(x, N[FF]) <=> Inside(x, L[FF]) /\ ~Inside(x, s)
    BY <1>1, <1>7, <1>8, <2>2
  <2>4. QueuesOf(N) = QueuesOf(M)
    <3>1. \A r \in Selectors : N[r] = M[r]
      BY <1>0, <1>11, <1>13, <1>14
    <3> QED BY <3>1 DEF QueuesOf
  <2>5. Copying(FilterBuf(Buffer_Allocate(t), b, to), N, L, s, d)
    BY <1>1, <1>10, <1>12, <2>1, <2>3, <2>4 DEF Copying
  <2>6. Len(s) <= Len(s) + 1
    BY <1>2
  <2> QED BY <2>5, <2>6 DEF b
<1>15. CASE to \in Selectors
  <2> DEFINE k == Append(s, b)
             e == Append(d, to)
  <2>1. /\ k \in Seq(Buffers) /\ e \in Seq(Selectors) /\ Len(k) = Len(e)
        /\ Len(k) = Len(s) + 1
    BY <1>1, <1>4, <1>15
  <2>2. \A x : Inside(x, k) <=> Inside(x, s) \/ x = b
    BY <1>1, <1>4, InsideAppend
  <2>3. Distinct(k)
    <3>1. /\ \A i \in 1..Len(s) : k[i] = s[i] /\ k[i] # b
          /\ k[Len(s) + 1] = b
      <4>1. \A i \in 1..Len(s) : s[i] # b
        BY <1>9 DEF Inside, Among
      <4> QED BY <1>1, <1>4, <4>1
    <3>2. \A i \in 1..Len(k) : i \in 1..Len(s) \/ i = Len(s) + 1
      BY <1>2, <2>1
    <3> HIDE DEF k
    <3> QED BY <1>1, <3>1, <3>2 DEF Distinct
  <2>4. QueuesOf(N) = SP!Sent(QueuesOf(L), k, e)
    <3>1. SP!Sent(QueuesOf(L), k, e) =
            [r \in Selectors |-> IF r = to
               THEN Append(SP!Sent(QueuesOf(L), s, d)[r], b)
               ELSE SP!Sent(QueuesOf(L), s, d)[r]]
      BY <1>1, <1>4, <1>15, QueuesTyped, SentMore
    <3>2. \A r \in Selectors : SP!Sent(QueuesOf(L), s, d)[r] = M[r]
      <4>1. \A r \in Selectors : QueuesOf(M)[r] = M[r]
        BY DEF QueuesOf
      <4> QED BY <1>1, <4>1
    <3>3. \A r \in Selectors : N[r] = IF r = to THEN Append(M[r], b) ELSE M[r]
      BY <1>11, <1>13
    <3> QED BY <3>1, <3>2, <3>3 DEF QueuesOf
  <2>5. N[FF] = D[FF]
    BY <1>0, <1>11, <1>15
  <2>6. /\ \A x : Inside(x, N[FF]) <=> Inside(x, L[FF]) /\ ~Inside(x, k)
        /\ \A x : Inside(x, k) => Inside(x, L[FF])
    BY <1>1, <1>7, <1>8, <2>2, <2>5
  <2>7. Len(N[FF]) + Len(k) = Len(L[FF])
    <3>1. /\ Len(N[FF]) = n - 1 /\ Len(k) = Len(s) + 1
          /\ n \in Nat /\ Len(s) \in Nat /\ n + Len(s) = Len(L[FF])
      BY <1>1, <1>2, <1>5, <2>1, <2>5
    <3>2. \A x, y \in Nat : (x - 1) + (y + 1) = x + y
      OBVIOUS
    <3> HIDE DEF n, k
    <3>3. (n - 1) + (Len(s) + 1) = n + Len(s)
      BY <3>1, <3>2
    <3> QED BY <3>1, <3>3
  <2> HIDE DEF k, e
  <2>8. Copying(FilterBuf(Buffer_Allocate(t), b, to), N, L, k, e)
    BY <1>10, <1>12, <2>1, <2>3, <2>4, <2>6, <2>7 DEF Copying
  <2>9. Len(k) <= Len(s) + 1
    BY <1>2, <2>1
  <2> QED BY <2>8, <2>9 DEF b
<1> QED BY <1>14, <1>15 DEF Connectors

LEMMA CopiedShape ==
  ASSUME NEW s, NEW L, Shape(s, L), NEW n \in Nat, n <= Len(L[FF]),
         NEW to \in [1..n -> Connectors]
  PROVE  \E M, k, d : Copying(Copied(s, n, to), M, L, k, d)
<1>0. L \in Families /\ QueuesOf(L) \in Queues /\ Len(L[FF]) \in Nat
  BY QueuesTyped, FamilyTyped, FFNoSelector DEF Shape
<1>1. PICK at : /\ IsRun(at, "copy", s, FF, <<>>, to, n)
                /\ Copied(s, n, to) = at[n]
  BY CopiedRuns
<1>2. /\ at[0] = s
      /\ \A i \in 1..n : at[i] = FilterBuf(Buffer_Allocate(at[i - 1]),
                                           at[i - 1].FirstFreeBuf, to[i])
  BY <1>1 DEF IsRun, Turn
<1> DEFINE S == {i \in 0..n : \E M, k, d : /\ Copying(at[i], M, L, k, d)
                                           /\ Len(k) <= i}
<1>3. 0 \in S
  <2>1. SP!Sent(QueuesOf(L), <<>>, <<>>) = QueuesOf(L)
    <3>1. <<>> \in Seq(Buffers) /\ Len(<<>>) = 0
      OBVIOUS
    <3>2. PICK W : /\ IsSending(W, QueuesOf(L), <<>>, <<>>)
                   /\ SP!Sent(QueuesOf(L), <<>>, <<>>) = W[Len(<<>>)]
      BY <1>0, <3>1, SentIs
    <3> QED BY <3>1, <3>2 DEF IsSending
  <2>2. \A x : ~Inside(x, <<>>)
    BY DEF Inside, Among
  <2>3. Distinct(<<>>)
    BY DEF Distinct
  <2>4. Copying(at[0], L, L, <<>>, <<>>)
    BY <1>0, <1>2, <2>1, <2>2, <2>3 DEF Copying
  <2>5. Len(<<>>) <= 0
    OBVIOUS
  <2> QED BY <2>4, <2>5
<1>4. ASSUME NEW i \in 0 .. n - 1, i \in S PROVE i + 1 \in S
  <2>1. PICK M, k, d : Copying(at[i], M, L, k, d) /\ Len(k) <= i
    BY <1>4
  <2>2. 0 < Len(M[FF])
    <3>1. Len(M[FF]) + Len(k) = Len(L[FF]) /\ Len(k) \in Nat
      BY <2>1 DEF Copying
    <3>2. Len(M[FF]) \in Nat
      BY <2>1, FamilyTyped, FFNoSelector DEF Copying, Shape
    <3> QED BY <1>0, <2>1, <3>1, <3>2
  <2> DEFINE j == i + 1
  <2>3. j \in 1..n /\ j - 1 = i /\ j \in 0..n
    OBVIOUS
  <2> HIDE DEF j
  <2>4. to[j] \in Connectors
    BY <2>3
  <2>5. at[j] = FilterBuf(Buffer_Allocate(at[i]), at[i].FirstFreeBuf, to[j])
    BY <1>2, <2>3
  <2>6. PICK N, m, e : Copying(at[j], N, L, m, e) /\ Len(m) <= Len(k) + 1
    BY <1>0, <2>1, <2>2, <2>4, <2>5, CopyOne
  <2>7. Len(m) <= j
    <3>1. Len(m) \in Nat /\ Len(k) \in Nat
      BY <2>1, <2>6 DEF Copying
    <3> QED BY <2>1, <2>6, <3>1 DEF j
  <2>8. j \in S
    BY <2>3, <2>6, <2>7
  <2> QED BY <2>8 DEF j
<1> HIDE DEF S
<1>5. \A i \in 0..n : i \in S
  BY <1>3, <1>4, Along
<1>6. n \in S
  BY <1>5
<1> QED BY <1>1, <1>6 DEF S
-----------------------------------------------------------------------------
LEMMA QueueIs ==
  ASSUME NEW s, NEW L, Shape(s, L)
  PROVE  [p \in Selectors |-> Contents(s, p)] = QueuesOf(L)
<1>1. \A p \in Selectors : Contents(s, p) = L[p]
  BY ContentsAre
<1> QED BY <1>1 DEF QueuesOf

LEMMA SpanIs ==
  ASSUME NEW L, Shape(pool, L), NEW p \in Selectors, NEW offs, NEW n \in 1..NumBuffers,
         InPartition(p, offs, n)
  PROVE  /\ offs \in Nat /\ n \in Nat /\ n # 0 /\ offs + n <= Len(L[p])
         /\ L[p] \in Seq(Buffers) /\ Len(L[p]) \in Nat
         /\ Partition_GetBuffers(pool, p, offs, n) = Piece(L[p], offs, n)
<1>1. pool.Count[p] = Len(L[p]) /\ Contents(pool, p) = L[p]
  BY ContentsAre DEF Shape, Counted
<1>2. L[p] \in Seq(Buffers) /\ Len(L[p]) \in Nat
  BY FamilyTyped DEF Shape, Connectors
<1>3. /\ offs \in Nat /\ n \in Nat /\ n # 0 /\ offs + n <= Len(L[p])
  BY <1>1, <1>2, BuffersAssumption DEF InPartition
<1>4. SubSeq(L[p], offs + 1, offs + n) = Piece(L[p], offs, n)
  BY <1>2, <1>3, PieceIs
<1> QED BY <1>1, <1>2, <1>3, <1>4 DEF Partition_GetBuffers

LEMMA TestedTyped ==
  ASSUME NEW c, Sound(c), NEW f \in Selectors
  PROVE  Tested(c, f) \in [0..NumSelectors -> Connectors]
<1> DEFINE n == NumSelectors
           F == [x \in Connectors \X (1..n) |->
                   IF x[1] = FF THEN FF ELSE c.FalseConn[x[1]]]
           at == CHOOSE a : a = [i \in 0..n |-> IF i = 0 THEN f
                   ELSE IF a[i - 1] = FF THEN FF ELSE c.FalseConn[a[i - 1]]]
<1>1. /\ n \in Nat /\ f \in Connectors /\ FF \in Connectors
      /\ c.FalseConn \in [Selectors -> Connectors]
  BY SelectorsAssumption, FFNoSelector DEF Connectors, Sound, ConnRecord
<1>2. F \in [Connectors \X (1..n) -> Connectors]
  <2>1. ASSUME NEW x \in Connectors \X (1..n)
        PROVE  (IF x[1] = FF THEN FF ELSE c.FalseConn[x[1]]) \in Connectors
    <3>1. x[1] # FF => x[1] \in Selectors
      BY DEF Connectors
    <3> QED BY <1>1, <3>1
  <2> QED BY <2>1
<1>3. PICK a : IsLoop(a, F, f, n) /\ a \in [0..n -> Connectors]
  <2> HIDE DEF F, n
  <2> QED BY <1>1, <1>2, LoopExists
<1>4. a = [i \in 0..n |-> IF i = 0 THEN f
             ELSE IF a[i - 1] = FF THEN FF ELSE c.FalseConn[a[i - 1]]]
  <2>1. ASSUME NEW i \in 0..n, i # 0
        PROVE  F[<<a[i - 1], i>>] = IF a[i - 1] = FF THEN FF
                                    ELSE c.FalseConn[a[i - 1]]
    <3>1. a[i - 1] \in Connectors /\ i \in 1..n
      BY <1>1, <1>3, <2>1
    <3> QED BY <3>1
  <2> HIDE DEF F, n
  <2> QED BY <1>3, <2>1 DEF IsLoop
<1>5. at = [i \in 0..n |-> IF i = 0 THEN f
              ELSE IF at[i - 1] = FF THEN FF ELSE c.FalseConn[at[i - 1]]]
  <2> HIDE DEF n
  <2> QED BY <1>4, Zenon
<1>6. Tested(c, f) = at
  BY Zenon DEF Tested
<1> HIDE DEF at, F
<1> DEFINE S == {i \in 0..n : at[i] \in Connectors}
<1>7. 0 \in S
  BY <1>1, <1>5
<1>8. ASSUME NEW i \in 0 .. n - 1, i \in S PROVE i + 1 \in S
  <2> DEFINE j == i + 1
  <2>1. j \in 0..n /\ j # 0 /\ j - 1 = i
    BY <1>1
  <2> HIDE DEF j, n
  <2>2. at[j] = IF at[i] = FF THEN FF ELSE c.FalseConn[at[i]]
    BY <1>5, <2>1
  <2>3. at[i] \in Connectors /\ (at[i] # FF => at[i] \in Selectors)
    BY <1>8 DEF Connectors
  <2>4. j \in S
    BY <1>1, <2>1, <2>2, <2>3
  <2> QED BY <2>4 DEF j
<1> HIDE DEF S
<1>9. \A i \in 0..n : i \in S
  BY <1>1, <1>7, <1>8, Along
<1>10. at \in [0..n -> Connectors]
  BY <1>5, <1>9 DEF S
<1> QED BY <1>6, <1>10

LEMMA DestinationsTyped ==
  ASSUME NEW c, Sound(c), NEW f \in Selectors
  PROVE  Destinations(c, f) \subseteq Connectors
<1> DEFINE at == Tested(c, f)
<1>1. at \in [0..NumSelectors -> Connectors]
  BY TestedTyped
<1>2. c.TrueConn \in [Selectors -> Connectors] /\ FF \in Connectors
  BY FFNoSelector DEF Sound, ConnRecord
<1> HIDE DEF at
<1>3. \A i \in 0..NumSelectors :
        (IF at[i] = FF \/ i = NumSelectors THEN FF ELSE c.TrueConn[at[i]])
          \in Connectors
  <2> SUFFICES ASSUME NEW i \in 0..NumSelectors, at[i] # FF
               PROVE  c.TrueConn[at[i]] \in Connectors
    BY <1>2
  <2>1. at[i] \in Selectors
    BY <1>1 DEF Connectors
  <2> QED BY <1>2, <2>1
<1> QED BY <1>3 DEF Destinations, at
-----------------------------------------------------------------------------
(* Where every buffer is: in one of the lists L or with the host.           *)
Holds(s, L, list) ==
  /\ Shape(s, L) /\ list \in Seq(Buffers) /\ Distinct(list)
  /\ \A b \in Buffers : Placed(L, b) <=> ~Inside(b, list)
Hosted(d) ==
  /\ d \in [Active : BOOLEAN, Writing : BOOLEAN, FNum : Selectors,
            BufList : Seq(Buffers)]
  /\ ~d.Active => d.BufList = <<>>
PoolInv == Sound(conn) /\ Hosted(DT) /\ \E L : Holds(pool, L, DT.BufList)

LEMMA StillHolds ==
  ASSUME NEW s, NEW L, NEW list, Holds(s, L, list), NEW t, NEW M, Shape(t, M),
         \A x : Placed(M, x) <=> Placed(L, x)
  PROVE  Holds(t, M, list)
  BY DEF Holds

LEMMA HostedNone == Hosted(NoTransfer) /\ NoTransfer.BufList = <<>>
<1>1. 0 \in Selectors
  BY SelectorsAssumption DEF Selectors
<1> QED BY <1>1 DEF Hosted, NoTransfer

LEMMA HostedList ==
  ASSUME NEW list \in Seq(Buffers)
  PROVE  Hosted(Transfer(list)) /\ Transfer(list).BufList = list
<1>1. 0 \in Selectors
  BY SelectorsAssumption DEF Selectors
<1> QED BY <1>1 DEF Hosted, NoTransfer, Transfer

LEMMA DiscardShape ==
  ASSUME NEW s, NEW L, Shape(s, L), NEW p \in Selectors, s.Count[p] > 0
  PROVE  /\ 1 <= Len(L[p])
         /\ \E M : Rearranged(Discard(s, p, s.FirstBuf[p]), Without(L, p, 0, 1), M, L)
<1> DEFINE b == s.FirstBuf[p]
           n == 1
           o == 0
           list == Piece(L[p], o, n)
           to == [i \in 1..n |-> FF]
           q == Without(L, p, o, n)
           at == [i \in 0..n |-> IF i = 0 THEN s ELSE Discard(s, p, b)]
<1>1. /\ L \in Families /\ L[p] \in Seq(Buffers) /\ Len(L[p]) \in Nat
      /\ s.Count[p] = Len(L[p]) /\ b = At(L[p], 1)
  BY FamilyTyped DEF Shape, Connectors, Counted
<1>2. /\ n \in Nat /\ o \in Nat /\ o + n <= Len(L[p]) /\ b = L[p][1]
      /\ 1 <= Len(L[p])
  BY <1>1 DEF At
<1>3. list \in Seq(Buffers) /\ Len(list) = n /\ list[1] = b
  <2>1. /\ list \in Seq(Buffers) /\ Len(list) = n
        /\ \A i \in 1..n : list[i] = L[p][o + i]
    <3> HIDE DEF n, o
    <3> QED BY <1>1, <1>2, PieceIs
  <2> HIDE DEF list
  <2> QED BY <1>2, <2>1
<1>4. to \in [1..n -> Connectors] /\ to[1] = FF
  BY FFNoSelector
<1>5. at[0] = s /\ at[1] = Discard(s, p, b)
  OBVIOUS
<1> HIDE DEF list, to, at
<1>6. Moves(at, p, list, to)
  <2>1. \A i \in 1..Len(list) : i = 1 /\ i - 1 = 0
    BY <1>3
  <2>2. at[1] = FilterBuf(Partition_UnlinkBuffer(at[0], p, list[1]), list[1], to[1])
    BY <1>3, <1>4, <1>5 DEF Discard, FilterBuf
  <2> QED BY <2>1, <2>2 DEF Moves
<1>7. PICK W : IsSending(W, q, list, to)
  <2>1. q \in Queues
    <3> HIDE DEF n, o
    <3> QED BY <1>1, <1>2, WithoutTyped
  <2> QED BY <1>3, <2>1, SentIs
<1>8. W[n] = q
  <2>1. q \in Queues
    <3> HIDE DEF n, o
    <3> QED BY <1>1, <1>2, WithoutTyped
  <2>2. W[Len(list)] = q
    <3>1. to = [i \in 1..Len(list) |-> FF]
      BY <1>3 DEF to
    <3> HIDE DEF q
    <3> QED BY <1>3, <1>7, <2>1, <3>1, NothingSent
  <2> QED BY <1>3, <2>2
<1>9. \E M : Rearranged(at[n], W[n], M, L)
  <2>1. Shape(at[0], L)
    BY <1>5
  <2> HIDE DEF n, o
  <2> QED BY <1>2, <1>4, <1>6, <1>7, <2>1, MovesShape DEF list, q
<1> QED BY <1>2, <1>5, <1>8, <1>9
-----------------------------------------------------------------------------
(* The steps of SectorPool.                                                 *)
LeftOut(p, i, n) ==
  [[x \in Selectors |-> Contents(pool, x)] EXCEPT ![p] = SP!Without(p, i, n)]
LEMMA SpanStep ==
  ASSUME NEW L, Shape(pool, L), NEW p \in Selectors, NEW o \in Nat, NEW n \in Nat,
         n # 0, o + n <= Len(L[p])
  PROVE  /\ <<o + 1, n>> \in SP!Spans(p)
         /\ SP!Span(p, o + 1, n) = Piece(L[p], o, n)
         /\ LeftOut(p, o + 1, n) = Without(L, p, o, n)
<1> DEFINE q == [x \in Selectors |-> Contents(pool, x)]
           l == L[p]
<1>1. q = QueuesOf(L) /\ q[p] = l
  <2>1. q = QueuesOf(L)
    BY QueueIs
  <2> HIDE DEF q
  <2> QED BY <2>1 DEF QueuesOf
<1>2. l \in Seq(Buffers) /\ Len(l) \in Nat
  BY FamilyTyped DEF Shape, Connectors
<1> HIDE DEF q, l
<1>3. /\ o + 1 \in 1..Len(l) /\ n \in 1..Len(l) /\ (o + 1) + n - 1 <= Len(l)
      /\ (o + 1) - 1 = o /\ (o + 1) + n - 1 = o + n /\ o + n <= Len(l)
  BY <1>2 DEF l
<1>4. <<o + 1, n>> \in SP!Spans(p)
  <2>1. <<o + 1, n>> \in {r \in (1..Len(q[p])) \X (1..Len(q[p])) :
                            r[1] + r[2] - 1 <= Len(q[p])}
    BY <1>1, <1>3
  <2> QED BY <2>1 DEF SP!Spans, q
<1>5. SP!Span(p, o + 1, n) = Piece(l, o, n)
  <2>1. SP!Span(p, o + 1, n) = SubSeq(q[p], o + 1, (o + 1) + n - 1)
    BY Zenon DEF SP!Span, q
  <2>2. SubSeq(l, o + 1, o + n) = Piece(l, o, n)
    BY <1>2, <1>3, PieceIs
  <2> QED BY <1>1, <1>3, <2>1, <2>2
<1>6. SP!Without(p, o + 1, n) = Cut(l, o, n)
  <2>1. SP!Without(p, o + 1, n) = SubSeq(q[p], 1, (o + 1) - 1)
                                  \o SubSeq(q[p], (o + 1) + n, Len(q[p]))
    BY Zenon DEF SP!Without, q
  <2>2. SubSeq(l, 1, o) \o SubSeq(l, (o + 1) + n, Len(l)) = Cut(l, o, n)
    BY <1>2, <1>3, CutIs
  <2> QED BY <1>1, <1>3, <2>1, <2>2
<1>7. [q EXCEPT ![p] = Cut(l, o, n)] = Without(L, p, o, n)
  BY <1>1 DEF QueuesOf, Without, l
<1>8. LeftOut(p, o + 1, n) = [q EXCEPT ![p] = Cut(l, o, n)]
  BY <1>6, Zenon DEF LeftOut, q
<1> QED BY <1>4, <1>5, <1>7, <1>8 DEF l

PoolActions == SP!Delete \/ SP!Take \/ SP!ClearAll \/ SP!Reserve \/ SP!Finish
               \/ SP!Arrive \/ SP!Move
PoolStep == [SP!Next]_(SP!vars)

LEMMA ActionSteps == PoolActions => PoolStep
  BY DEF PoolActions, PoolStep, SP!Next

LEMMA SameSteps ==
  ASSUME NEW L, NEW M, Shape(pool, L), Shape(pool', M),
         QueuesOf(M) = QueuesOf(L), DT'.BufList = DT.BufList
  PROVE  PoolStep
<1>1. [p \in Selectors |-> Contents(pool', p)] = [p \in Selectors |-> Contents(pool, p)]
  BY QueueIs
<1>2. UNCHANGED SP!vars
  BY <1>1 DEF SP!vars
<1> QED BY <1>2 DEF PoolStep

LEMMA DeleteStep ==
  ASSUME NEW L, NEW M, Shape(pool, L), Shape(pool', M), NEW p \in Selectors,
         NEW o \in Nat, NEW n \in Nat, n # 0, o + n <= Len(L[p]),
         QueuesOf(M) = Without(L, p, o, n), DT'.BufList = DT.BufList
  PROVE  PoolStep
<1> DEFINE r == <<o + 1, n>>
<1>1. [x \in Selectors |-> Contents(pool', x)] = Without(L, p, o, n)
  BY QueueIs
<1>2. r \in SP!Spans(p) /\ r[1] = o + 1 /\ r[2] = n
  BY SpanStep
<1>3. LeftOut(p, o + 1, n) = Without(L, p, o, n)
  BY SpanStep
<1> HIDE DEF r
<1>4. [x \in Selectors |-> Contents(pool', x)]
        = LeftOut(p, r[1], r[2])
  BY <1>1, <1>2, <1>3
<1>5. SP!Delete
  BY <1>2, <1>4, Zenon DEF SP!Delete, LeftOut
<1> QED BY <1>5, ActionSteps DEF PoolActions

LEMMA MoveStep ==
  ASSUME NEW L, NEW M, Shape(pool, L), Shape(pool', M), NEW p \in Selectors,
         NEW o \in Nat, NEW n \in Nat, n # 0, o + n <= Len(L[p]),
         NEW to \in [1..n -> Connectors],
         QueuesOf(M) = SP!Sent(Without(L, p, o, n), Piece(L[p], o, n), to),
         DT'.BufList = DT.BufList
  PROVE  PoolStep
<1> DEFINE r == <<o + 1, n>>
<1>1. [x \in Selectors |-> Contents(pool', x)]
        = SP!Sent(Without(L, p, o, n), Piece(L[p], o, n), to)
  BY QueueIs
<1>2. r \in SP!Spans(p) /\ r[1] = o + 1 /\ r[2] = n
  BY SpanStep
<1>3. /\ LeftOut(p, o + 1, n) = Without(L, p, o, n)
      /\ SP!Span(p, o + 1, n) = Piece(L[p], o, n)
  BY SpanStep
<1> HIDE DEF r
<1>4. [x \in Selectors |-> Contents(pool', x)]
        = SP!Sent(LeftOut(p, r[1], r[2]),
                  SP!Span(p, r[1], r[2]), to)
  BY <1>1, <1>2, <1>3
<1>5. to \in SP!Destinations(r[2])
  BY <1>2 DEF SP!Destinations, Connectors
<1>6. SP!Move
  BY <1>2, <1>4, <1>5, Zenon DEF SP!Move, LeftOut
<1> QED BY <1>6, ActionSteps DEF PoolActions

LEMMA TakeStep ==
  ASSUME NEW L, NEW M, Shape(pool, L), Shape(pool', M), NEW p \in Selectors,
         NEW o \in Nat, NEW n \in Nat, n # 0, o + n <= Len(L[p]),
         QueuesOf(M) = Without(L, p, o, n), DT.BufList = <<>>,
         DT'.BufList = Piece(L[p], o, n)
  PROVE  PoolStep
<1> DEFINE r == <<o + 1, n>>
<1>1. [x \in Selectors |-> Contents(pool', x)] = Without(L, p, o, n)
  BY QueueIs
<1>2. r \in SP!Spans(p) /\ r[1] = o + 1 /\ r[2] = n
  BY SpanStep
<1>3. /\ LeftOut(p, o + 1, n) = Without(L, p, o, n)
      /\ SP!Span(p, o + 1, n) = Piece(L[p], o, n)
  BY SpanStep
<1> HIDE DEF r
<1>4. /\ [x \in Selectors |-> Contents(pool', x)]
           = LeftOut(p, r[1], r[2])
      /\ DT'.BufList = SP!Span(p, r[1], r[2])
  BY <1>1, <1>2, <1>3
<1>5. SP!Take
  BY <1>2, <1>4, Zenon DEF SP!Take, LeftOut
<1> QED BY <1>5, ActionSteps DEF PoolActions

LEMMA ClearStep ==
  ASSUME NEW M, Shape(pool', M), QueuesOf(M) = [r \in Selectors |-> <<>>],
         DT'.BufList = DT.BufList \/ DT'.BufList = <<>>
  PROVE  PoolStep
<1>1. [x \in Selectors |-> Contents(pool', x)] = [r \in Selectors |-> <<>>]
  BY QueueIs
<1>2. SP!ClearAll
  BY <1>1 DEF SP!ClearAll
<1> QED BY <1>2, ActionSteps DEF PoolActions

(* Free buffers, and lists of them.                                         *)
LEMMA SameOperators ==
  /\ \A S : SP!Cardinality(S) = Cardinality(S)
  /\ \A l : SP!ToSet(l) = ToSet(l)
<1>1. \A S : SP!Cardinality(S) = Cardinality(S)
  BY Zenon DEF SP!Cardinality, Cardinality
<1>2. \A l : SP!ToSet(l) = ToSet(l)
  BY Zenon DEF SP!ToSet, ToSet
<1> QED BY <1>1, <1>2

LEMMA FreeIs ==
  ASSUME NEW L, Holds(pool, L, DT.BufList)
  PROVE  /\ IsFiniteSet(SP!Free)
         /\ \A x : Inside(x, L[FF]) => x \in SP!Free
<1>1. IsFiniteSet(Buffers)
  BY BuffersAssumption, FS_Interval DEF Buffers
<1>2. SP!Free \subseteq Buffers
  BY DEF SP!Free
<1>3. IsFiniteSet(SP!Free)
  BY <1>1, <1>2, FS_Subset
<1>4. /\ L \in Families /\ Apart(L) /\ FF \in Connectors /\ FF \notin Selectors
      /\ \A p \in Selectors : Contents(pool, p) = L[p]
      /\ \A b \in Buffers : Placed(L, b) <=> ~Inside(b, DT.BufList)
      /\ DT.BufList \in Seq(Buffers)
  BY ContentsAre, FFNoSelector DEF Holds, Shape
<1>5. ASSUME NEW x, Inside(x, L[FF]) PROVE x \in SP!Free
  <2>1. PICK i \in 1..Len(L[FF]) : L[FF][i] = x
    BY <1>5 DEF Inside, Among
  <2>2. x \in Buffers /\ Placed(L, x)
    BY <1>4, <2>1, FamilyTyped DEF Placed
  <2>3. x \notin ToSet(DT.BufList)
    BY <1>4, <2>2 DEF ToSet, Inside, Among
  <2>4. ASSUME NEW p \in Selectors, x \in ToSet(Contents(pool, p)) PROVE FALSE
    <3>1. p \in Connectors /\ p # FF /\ Contents(pool, p) = L[p]
      BY <1>4 DEF Connectors
    <3>2. L[p] \in Seq(Buffers)
      BY <1>4, <3>1, FamilyTyped
    <3>3. PICK j \in 1..Len(L[p]) : L[p][j] = x
      BY <2>4, <3>1, <3>2 DEF ToSet
    <3> QED BY <1>4, <2>1, <3>1, <3>3 DEF Apart
  <2>5. x \notin SP!Used
    <3> DEFINE q == [y \in Selectors |-> Contents(pool, y)]
    <3>1. \A y \in Selectors : q[y] = Contents(pool, y)
      OBVIOUS
    <3>2. SP!Used = SP!ToSet(DT.BufList) \cup UNION {SP!ToSet(q[y]) : y \in Selectors}
      BY Zenon DEF SP!Used
    <3> HIDE DEF q
    <3>3. x \notin SP!ToSet(DT.BufList) /\ \A y \in Selectors : x \notin SP!ToSet(q[y])
      BY <2>3, <2>4, <3>1, SameOperators
    <3> QED BY <3>2, <3>3
  <2> QED BY <2>2, <2>5 DEF SP!Free
<1> QED BY <1>3, <1>5

LEMMA FreeLists ==
  ASSUME NEW L, Holds(pool, L, DT.BufList), NEW k \in Seq(Buffers), Distinct(k),
         \A x : Inside(x, k) => Inside(x, L[FF]), k # <<>>
  PROVE  /\ Len(k) \in 1..Cardinality(SP!Free)
         /\ k \in SP!Lists(Len(k)) /\ ToSet(k) \subseteq SP!Free
<1> DEFINE n == Len(k)
<1>1. n \in Nat /\ n # 0 /\ k \in [1..n -> Buffers] /\ DOMAIN k = 1..n
  BY EmptySeq
<1>2. \A i \in 1..n : k[i] \in SP!Free
  BY FreeIs DEF Inside, Among
<1>3. k \in [1..n -> SP!Free]
  BY <1>1, <1>2
<1>4. IsInjective(k)
  BY <1>1 DEF IsInjective, Distinct
<1>5. IsFiniteSet(SP!Free)
  BY FreeIs
<1>6. k \in Injection(1..n, SP!Free)
  BY <1>3, <1>4 DEF Injection
<1>7. Cardinality(1..n) <= Cardinality(SP!Free)
  <2> HIDE DEF n
  <2> QED BY <1>5, <1>6, FS_Injection
<1>8. Cardinality(1..n) = n
  <2>1. 1 \in Int /\ n \in Int
    BY <1>1
  <2>2. Cardinality(1..n) = IF 1 > n THEN 0 ELSE n - 1 + 1
    BY <2>1, FS_Interval
  <2> QED BY <1>1, <2>2
<1>9. Cardinality(SP!Free) \in Nat
  BY <1>5, FS_CardinalityType
<1>10. n \in 1..Cardinality(SP!Free)
  BY <1>1, <1>7, <1>8, <1>9
<1>11. k \in SP!Lists(n)
  <2>1. SP!IsInjective(k)
    BY <1>4 DEF SP!IsInjective, IsInjective
  <2> HIDE DEF n
  <2> QED BY <1>1, <2>1, Zenon DEF SP!Lists
<1>12. ToSet(k) \subseteq SP!Free
  BY <1>1, <1>2 DEF ToSet
<1> QED BY <1>10, <1>11, <1>12

LEMMA ArriveStep ==
  ASSUME NEW L, NEW M, NEW k, NEW d, Holds(pool, L, DT.BufList),
         Copying(pool', M, L, k, d), DT'.BufList = DT.BufList
  PROVE  PoolStep
<1>1. /\ Shape(pool, L) /\ L \in Families /\ Shape(pool', M)
      /\ k \in Seq(Buffers) /\ d \in Seq(Selectors) /\ Len(d) = Len(k)
      /\ Distinct(k) /\ QueuesOf(M) = SP!Sent(QueuesOf(L), k, d)
      /\ \A x : Inside(x, k) => Inside(x, L[FF])
  BY DEF Copying, Holds, Shape
<1>2. CASE k = <<>>
  <2>1. PICK W : /\ IsSending(W, QueuesOf(L), k, d)
                 /\ SP!Sent(QueuesOf(L), k, d) = W[Len(k)]
    BY <1>1, QueuesTyped, SentIs
  <2>2. W[Len(k)] = QueuesOf(L)
    BY <1>2, <2>1 DEF IsSending
  <2> QED BY <1>1, <2>1, <2>2, SameSteps
<1>3. CASE k # <<>>
  <2>1. /\ Len(k) \in 1..Cardinality(SP!Free)
        /\ k \in SP!Lists(Len(k)) /\ ToSet(k) \subseteq SP!Free
    BY <1>1, <1>3, FreeLists
  <2>2. d \in SP!Destinations(Len(k))
    <3>1. d \in [1..Len(k) -> Selectors]
      BY <1>1
    <3> QED BY <3>1 DEF SP!Destinations
  <2>3. [x \in Selectors |-> Contents(pool', x)]
          = SP!Sent([x \in Selectors |-> Contents(pool, x)], k, d)
    BY <1>1, QueueIs
  <2>4. SP!Arrive
    <3> DEFINE n == Len(k)
    <3>1. n \in 1..SP!Cardinality(SP!Free) /\ SP!ToSet(k) \subseteq SP!Free
      BY <2>1, SameOperators
    <3>2. k \in SP!Lists(n) /\ d \in SP!Destinations(n)
      BY <2>1, <2>2
    <3> HIDE DEF n
    <3> QED BY <2>3, <3>1, <3>2, Zenon DEF SP!Arrive
  <2> QED BY <2>4, ActionSteps DEF PoolActions
<1> QED BY <1>2, <1>3

LEMMA ReserveStep ==
  ASSUME NEW L, NEW M, Holds(pool, L, DT.BufList), Shape(pool', M),
         QueuesOf(M) = QueuesOf(L), DT.BufList = <<>>, NEW k \in Seq(Buffers),
         Distinct(k), \A x : Inside(x, k) => Inside(x, L[FF]), k # <<>>,
         DT'.BufList = k
  PROVE  PoolStep
<1>1. /\ Len(k) \in 1..Cardinality(SP!Free)
      /\ k \in SP!Lists(Len(k)) /\ ToSet(k) \subseteq SP!Free
  BY FreeLists
<1>2. [x \in Selectors |-> Contents(pool', x)] = [x \in Selectors |-> Contents(pool, x)]
  BY QueueIs DEF Holds
<1>3. SP!Reserve
  <2> DEFINE n == Len(k)
  <2>1. n \in 1..SP!Cardinality(SP!Free) /\ SP!ToSet(k) \subseteq SP!Free
    BY <1>1, SameOperators
  <2>2. k \in SP!Lists(n)
    BY <1>1
  <2> HIDE DEF n
  <2> QED BY <1>2, <2>1, <2>2, Zenon DEF SP!Reserve
<1> QED BY <1>3, ActionSteps DEF PoolActions

LEMMA FinishStep ==
  ASSUME NEW L, NEW M, Holds(pool, L, DT.BufList), Shape(pool', M),
         NEW to \in [1..Len(DT.BufList) -> Connectors],
         QueuesOf(M) = SP!Sent(QueuesOf(L), DT.BufList, to), DT'.BufList = <<>>
  PROVE  PoolStep
<1> DEFINE k == DT.BufList
<1>1. /\ Shape(pool, L) /\ L \in Families /\ k \in Seq(Buffers)
  BY DEF Holds, Shape
<1>2. CASE k = <<>>
  <2>1. PICK W : /\ IsSending(W, QueuesOf(L), k, to)
                 /\ SP!Sent(QueuesOf(L), k, to) = W[Len(k)]
    BY <1>1, QueuesTyped, SentIs
  <2>2. W[Len(k)] = QueuesOf(L)
    BY <1>2, <2>1 DEF IsSending
  <2> QED BY <1>1, <1>2, <2>1, <2>2, SameSteps
<1>3. CASE k # <<>>
  <2>1. to \in SP!Destinations(Len(DT.BufList))
    BY DEF SP!Destinations, Connectors
  <2>2. [x \in Selectors |-> Contents(pool', x)]
          = SP!Sent([x \in Selectors |-> Contents(pool, x)], DT.BufList, to)
    BY <1>1, QueueIs
  <2>3. SP!Finish
    BY <1>3, <2>1, <2>2, Zenon DEF SP!Finish
  <2> QED BY <2>3, ActionSteps DEF PoolActions
<1> QED BY <1>2, <1>3
-----------------------------------------------------------------------------
Kept == PoolInv' /\ PoolStep

LEMMA NextHolds ==
  ASSUME Sound(conn'), Hosted(DT'), NEW M, Holds(pool', M, DT'.BufList)
  PROVE  PoolInv'
  BY DEF PoolInv

LEMMA NothingMoves ==
  ASSUME PoolInv, pool' = pool, Sound(conn'), Hosted(DT'),
         DT'.BufList = DT.BufList
  PROVE  Kept
<1>1. PICK L : Holds(pool, L, DT.BufList)
  BY DEF PoolInv
<1>2. PoolInv'
  BY <1>1, NextHolds
<1>3. PoolStep
  BY <1>1, SameSteps DEF Holds
<1> QED BY <1>2, <1>3 DEF Kept

LEMMA RearrangedKept ==
  ASSUME PoolInv, NEW L, Holds(pool, L, DT.BufList), NEW M, NEW q,
         Rearranged(pool', q, M, L), UNCHANGED DT, Sound(conn')
  PROVE  PoolInv'
<1>1. Hosted(DT')
  BY DEF PoolInv
<1>2. Holds(pool', M, DT'.BufList)
  BY StillHolds DEF Rearranged
<1> QED BY <1>1, <1>2, NextHolds

(* The sectors n from o on leave the partition p, and are free.             *)
LEMMA LeaveKept ==
  ASSUME PoolInv, NEW L, Holds(pool, L, DT.BufList), NEW p \in Selectors,
         NEW o \in Nat, NEW n \in Nat, n # 0, o + n <= Len(L[p]), NEW M,
         Rearranged(pool', Without(L, p, o, n), M, L), UNCHANGED DT, Sound(conn')
  PROVE  Kept
<1>1. PoolInv'
  BY RearrangedKept
<1>2. /\ Shape(pool, L) /\ Shape(pool', M) /\ QueuesOf(M) = Without(L, p, o, n)
      /\ DT'.BufList = DT.BufList
  BY DEF Holds, Rearranged
<1>3. PoolStep
  BY <1>2, DeleteStep
<1> QED BY <1>1, <1>3 DEF Kept

LEMMA ClearKept ==
  ASSUME PoolInv, NEW p \in Selectors, pool' = Partition_Clear(pool, p),
         UNCHANGED DT, Sound(conn')
  PROVE  Kept
<1>1. PICK L : Holds(pool, L, DT.BufList)
  BY DEF PoolInv
<1> DEFINE n == Len(L[p])
           z == 0
           q == [r \in Selectors |-> IF r = p THEN <<>> ELSE L[r]]
<1>2. /\ Shape(pool, L) /\ L[p] \in Seq(Buffers) /\ n \in Nat /\ p \in Connectors
      /\ z \in Nat /\ z + n <= n
  BY <1>1, FamilyTyped DEF Holds, Shape, Connectors
<1>3. PICK M : Rearranged(pool', q, M, L)
  BY <1>2, ClearShape
<1>4. Without(L, p, z, n) = q
  BY <1>2, ClearShape
<1>5. CASE n = 0
  <2>1. q = QueuesOf(L)
    <3>1. L[p] = <<>>
      BY <1>2, <1>5
    <3> QED BY <3>1 DEF QueuesOf
  <2> HIDE DEF q
  <2>2. PoolInv'
    BY <1>1, <1>3, RearrangedKept
  <2>3. PoolStep
    BY <1>2, <1>3, <2>1, SameSteps DEF Rearranged
  <2> QED BY <2>2, <2>3 DEF Kept
<1>6. CASE n # 0
  <2> HIDE DEF q, z, n
  <2>1. Rearranged(pool', Without(L, p, z, n), M, L)
    BY <1>3, <1>4
  <2>2. z + n <= Len(L[p])
    BY <1>2 DEF n
  <2> QED BY <1>1, <1>2, <1>6, <2>1, <2>2, LeaveKept
<1> QED BY <1>5, <1>6
-----------------------------------------------------------------------------
LEMMA CopyNone ==
  ASSUME NEW s, NEW L, Shape(s, L) PROVE Copying(s, L, L, <<>>, <<>>)
<1> DEFINE e == <<>>
<1>1. /\ e \in Seq(Buffers) /\ e \in Seq(Selectors) /\ Len(e) = 0
      /\ \A x : ~Inside(x, e)
  BY DEF Inside, Among
<1>2. L \in Families /\ FF \in Connectors /\ Len(L[FF]) \in Nat
  BY FamilyTyped, FFNoSelector DEF Shape
<1>3. PICK W : /\ IsSending(W, QueuesOf(L), e, e)
               /\ SP!Sent(QueuesOf(L), e, e) = W[Len(e)]
  BY <1>1, <1>2, QueuesTyped, SentIs
<1>4. W[Len(e)] = QueuesOf(L)
  BY <1>1, <1>3 DEF IsSending
<1>5. Distinct(e)
  BY <1>1 DEF Distinct
<1> HIDE DEF e
<1>6. Copying(s, L, L, e, e)
  BY <1>1, <1>2, <1>3, <1>4, <1>5 DEF Copying
<1> QED BY <1>6 DEF e

LEMMA CopyingKept ==
  ASSUME PoolInv, NEW L, Holds(pool, L, DT.BufList), NEW M, NEW k, NEW d,
         Copying(pool', M, L, k, d), UNCHANGED DT, Sound(conn')
  PROVE  Kept
<1>1. Hosted(DT') /\ DT'.BufList = DT.BufList
  BY DEF PoolInv
<1>2. Holds(pool', M, DT'.BufList)
  BY StillHolds DEF Copying
<1>3. PoolInv'
  BY <1>1, <1>2, NextHolds
<1>4. PoolStep
  BY <1>1, ArriveStep
<1> QED BY <1>3, <1>4 DEF Kept

LEMMA StoreKept == PoolInv /\ StoreSector => Kept
<1> SUFFICES ASSUME PoolInv, StoreSector PROVE Kept
  OBVIOUS
<1>1. PICK L : Holds(pool, L, DT.BufList)
  BY DEF PoolInv
<1>2. Sound(conn) /\ Sound(conn') /\ UNCHANGED DT
  BY DEF PoolInv, StoreSector
<1>3. PICK to \in Connectors :
        pool' = FilterBuf(Buffer_Allocate(pool), pool.FirstFreeBuf, to)
  <2>1. PICK to \in IF conn.CDDevConn = FF THEN {FF}
                    ELSE Destinations(conn, conn.CDDevConn) :
          pool' = FilterBuf(Buffer_Allocate(pool), pool.FirstFreeBuf, to)
    BY DEF StoreSector
  <2>2. CASE conn.CDDevConn = FF
    BY <2>1, <2>2, FFNoSelector
  <2>3. CASE conn.CDDevConn # FF
    <3>1. conn.CDDevConn \in Selectors
      BY <1>2, <2>3 DEF Sound, ConnRecord, Connectors
    <3>2. to \in Connectors
      BY <1>2, <2>1, <2>3, <3>1, DestinationsTyped
    <3> QED BY <2>1, <3>2
  <2> QED BY <2>2, <2>3
<1>4. Shape(pool, L) /\ L \in Families /\ 0 < Len(L[FF])
  BY <1>1 DEF Holds, Shape, Counted, StoreSector
<1>5. Copying(pool, L, L, <<>>, <<>>)
  BY <1>4, CopyNone
<1>6. PICK N, k, e : Copying(pool', N, L, k, e)
  <2>1. \E N, k, e :
           /\ Copying(FilterBuf(Buffer_Allocate(pool), pool.FirstFreeBuf, to), N, L, k, e)
           /\ Len(k) <= Len(<<>>) + 1
    BY ONLY <1>4, <1>5, to \in Connectors, CopyOne
  <2> QED BY <1>3, <2>1
<1> QED BY <1>1, <1>2, <1>6, CopyingKept

LEMMA GrabKept == PoolInv /\ FLS_Grab => Kept
<1> SUFFICES ASSUME PoolInv, FLS_Grab PROVE Kept
  OBVIOUS
<1>1. PICK L : Holds(pool, L, DT.BufList)
  BY DEF PoolInv
<1>2. Sound(conn') /\ UNCHANGED DT
  BY DEF PoolInv, FLS_Grab
<1>3. PICK p \in Selectors : pool.Count[p] > 0
                             /\ pool' = Discard(pool, p, pool.FirstBuf[p])
  BY DEF FLS_Grab
<1> DEFINE z == 0
           one == 1
<1>4. /\ z \in Nat /\ one \in Nat /\ one # 0 /\ z + one <= Len(L[p])
      /\ \E M : Rearranged(pool', Without(L, p, z, one), M, L)
  BY <1>1, <1>3, DiscardShape DEF Holds
<1> HIDE DEF z, one
<1>5. PICK M : Rearranged(pool', Without(L, p, z, one), M, L)
  BY <1>4
<1> QED BY <1>1, <1>2, <1>4, <1>5, LeaveKept

LEMMA ResetSelectorsKept ==
  ASSUME PoolInv, NEW flags \in Resets, ResetSelectors(flags) PROVE Kept
<1>1. PICK L : Holds(pool, L, DT.BufList)
  BY DEF PoolInv
<1>2. Sound(conn') /\ UNCHANGED DT /\ Hosted(DT')
  <2>1. flags \in SUBSET ResetFlags /\ Sound(conn) /\ Hosted(DT)
    BY BuffersAssumption DEF PoolInv
  <2> QED BY <2>1, ResetSelSound DEF ResetSelectors
<1>3. CASE "partitions" \notin flags
  <2>1. pool' = pool
    BY <1>3 DEF ResetSelectors
  <2> QED BY <1>2, <2>1, NothingMoves
<1>4. CASE "partitions" \in flags
  <2> DEFINE q == [r \in Selectors |-> <<>>]
  <2>1. pool' = AllCleared(pool)
    BY <1>4 DEF ResetSelectors
  <2>2. PICK M : Rearranged(pool', q, M, L)
    BY <1>1, <2>1, AllClearedShape DEF Holds
  <2>3. PoolInv'
    <3> HIDE DEF q
    <3> QED BY <1>1, <1>2, <2>2, RearrangedKept
  <2>4. PoolStep
    BY <1>2, <2>2, ClearStep DEF Rearranged
  <2> QED BY <2>3, <2>4 DEF Kept
<1> QED BY <1>3, <1>4
-----------------------------------------------------------------------------
LEMMA ConnectionsKept ==
  ASSUME PoolInv,
         FLS_Connect \/ SetConnections
         \/ GetOtherData
         \/ \E p, offs, n : GetSectorData(p, offs, n)
  PROVE  Kept
<1>1. Sound(conn) /\ Hosted(DT)
  BY DEF PoolInv
<1>2. CASE FLS_Connect
  <2>1. Sound(conn')
    BY <1>1, <1>2, RoutedSound DEF FLS_Connect
  <2> QED BY <1>1, <1>2, <2>1, NothingMoves DEF FLS_Connect
<1>3. CASE SetConnections
  <2>1. Sound(conn')
    <3>1. SetDevice => Sound(conn')
      BY <1>1, DeviceSound DEF SetDevice
    <3>2. SetFalse => Sound(conn')
      BY <1>1, FalseSound DEF SetFalse
    <3>3. SetTrue => Sound(conn')
      BY <1>1, TrueSound DEF SetTrue
    <3>4. SetMode => Sound(conn')
      BY <1>1, ModeSound DEF SetMode
    <3> QED BY <1>3, <3>1, <3>2, <3>3, <3>4 DEF SetConnections
  <2> QED BY <1>1, <1>3, <2>1, NothingMoves DEF SetConnections
<1>4. CASE GetOtherData \/ \E p, offs, n : GetSectorData(p, offs, n)
  <2>1. ~DT.Active /\ DT' = Transfer(<<>>) /\ UNCHANGED <<conn, pool>>
    BY <1>4 DEF GetOtherData, GetSectorData
  <2>2. Hosted(DT') /\ DT'.BufList = <<>>
    <3>1. <<>> \in Seq(Buffers)
      OBVIOUS
    <3> QED BY <2>1, <3>1, HostedList
  <2>3. DT.BufList = <<>>
    BY <1>1, <2>1 DEF Hosted
  <2> QED BY <1>1, <2>1, <2>2, <2>3, NothingMoves
<1> QED BY <1>2, <1>3, <1>4

LEMMA DeleteKept ==
  ASSUME PoolInv, NEW p \in Selectors, NEW offs, NEW n \in 1..NumBuffers,
         DeleteSectorData(p, offs, n)
  PROVE  Kept
<1>1. PICK L : Holds(pool, L, DT.BufList)
  BY DEF PoolInv
<1>2. Sound(conn') /\ UNCHANGED DT /\ InPartition(p, offs, n) /\ Shape(pool, L)
  BY <1>1 DEF PoolInv, DeleteSectorData, Holds
<1>3. /\ offs \in Nat /\ n \in Nat /\ n # 0 /\ offs + n <= Len(L[p])
      /\ Partition_GetBuffers(pool, p, offs, n) = Piece(L[p], offs, n)
  BY <1>2, SpanIs
<1>4. pool' = Deleted(pool, p, Piece(L[p], offs, n))
  BY <1>3 DEF DeleteSectorData
<1>5. PICK M : Rearranged(pool', Without(L, p, offs, n), M, L)
  BY <1>2, <1>3, <1>4, DeletedShape
<1> QED BY <1>1, <1>2, <1>3, <1>5, LeaveKept

LEMMA InputSound ==
  ASSUME PoolInv, NEW f \in Selectors, conn' = Filter_DisconnectInput(conn, f)
  PROVE  Sound(conn') /\ Destinations(conn', f) \subseteq Connectors
<1>1. Sound(conn')
  BY DisconnectSound DEF PoolInv, Connectors
<1>2. Destinations(conn', f) \subseteq Connectors
  BY <1>1, DestinationsTyped
<1> QED BY <1>1, <1>2

LEMMA MoveKept ==
  ASSUME PoolInv, NEW f \in Selectors, NEW p \in Selectors, NEW offs,
         NEW n \in 1..NumBuffers, MoveSectorData(f, p, offs, n)
  PROVE  Kept
<1>1. PICK L : Holds(pool, L, DT.BufList)
  BY DEF PoolInv
<1>2. /\ UNCHANGED DT /\ InPartition(p, offs, n) /\ Shape(pool, L)
      /\ conn' = Filter_DisconnectInput(conn, f)
  BY <1>1 DEF MoveSectorData, Holds
<1>3. Sound(conn') /\ Destinations(conn', f) \subseteq Connectors
  BY <1>2, InputSound
<1>4. /\ offs \in Nat /\ n \in Nat /\ n # 0 /\ offs + n <= Len(L[p])
      /\ Partition_GetBuffers(pool, p, offs, n) = Piece(L[p], offs, n)
  BY <1>2, SpanIs
<1>5. PICK to \in [1..n -> Destinations(conn', f)] :
        pool' = Moved(pool, p, Piece(L[p], offs, n), to)
  BY <1>4 DEF MoveSectorData
<1>6. to \in [1..n -> Connectors]
  BY <1>3, <1>5
<1> DEFINE q == SP!Sent(Without(L, p, offs, n), Piece(L[p], offs, n), to)
<1>7. PICK M : Rearranged(pool', q, M, L)
  BY <1>2, <1>4, <1>5, <1>6, MovedShape
<1>8. PoolInv'
  <2> HIDE DEF q
  <2> QED BY <1>1, <1>2, <1>3, <1>7, RearrangedKept
<1>9. PoolStep
  <2>1. Shape(pool', M) /\ QueuesOf(M) = q
    BY <1>7 DEF Rearranged
  <2> QED BY <1>2, <1>4, <1>6, <2>1, MoveStep
<1> QED BY <1>8, <1>9 DEF Kept

LEMMA CopyKept ==
  ASSUME PoolInv, NEW f \in Selectors, NEW p \in Selectors, NEW offs,
         NEW n \in 1..NumBuffers, CopySectorData(f, p, offs, n)
  PROVE  Kept
<1>1. PICK L : Holds(pool, L, DT.BufList)
  BY DEF PoolInv
<1>2. /\ UNCHANGED DT /\ Shape(pool, L) /\ n <= pool.FreeBufferCount
      /\ conn' = Filter_DisconnectInput(conn, f)
  BY <1>1 DEF CopySectorData, Holds
<1>3. Sound(conn') /\ Destinations(conn', f) \subseteq Connectors
  BY <1>2, InputSound
<1>4. n \in Nat /\ n <= Len(L[FF])
  BY <1>2, BuffersAssumption DEF Shape, Counted
<1>5. PICK to \in [1..n -> Destinations(conn', f)] : pool' = Copied(pool, n, to)
  BY DEF CopySectorData
<1>6. to \in [1..n -> Connectors]
  BY <1>3, <1>5
<1>7. PICK M, k, d : Copying(pool', M, L, k, d)
  BY <1>2, <1>4, <1>5, <1>6, CopiedShape
<1> QED BY <1>1, <1>2, <1>3, <1>7, CopyingKept
-----------------------------------------------------------------------------
(* Buffers that leave a list are the host's.                                *)
Hosts(t, M, k, l, n) ==
  /\ k \in Seq(Buffers) /\ Len(k) = n /\ Distinct(k) /\ Holds(t, M, k)
  /\ \A x : Inside(x, k) => Inside(x, l)
LEMMA TakenHolds ==
  ASSUME NEW s, NEW L, Holds(s, L, <<>>), NEW p \in Connectors, NEW o \in Nat,
         NEW n \in Nat, o + n <= Len(L[p]), NEW t, NEW M, Taken(t, M, L, p, o, n)
  PROVE  Hosts(t, M, Piece(L[p], o, n), L[p], n)
<1> DEFINE k == Piece(L[p], o, n)
<1>1. /\ Shape(s, L) /\ L \in Families /\ Apart(L) /\ L[p] \in Seq(Buffers)
      /\ Len(L[p]) \in Nat
  BY FamilyTyped DEF Holds, Shape
<1>2. /\ k \in Seq(Buffers) /\ Len(k) = n
      /\ \A i \in 1..n : k[i] = L[p][o + i] /\ o + i \in 1..Len(L[p])
  BY <1>1, PieceIs
<1> HIDE DEF k
<1>3. Distinct(k)
  <2> SUFFICES ASSUME NEW i \in 1..n, NEW j \in 1..n, k[i] = k[j] PROVE i = j
    BY <1>2 DEF Distinct
  <2>1. /\ o + i \in 1..Len(L[p]) /\ o + j \in 1..Len(L[p])
        /\ L[p][o + i] = L[p][o + j]
    BY <1>2
  <2>2. o + i = o + j
    BY <1>1, <2>1 DEF Apart
  <2> QED BY <2>2
<1>4. \A x : Inside(x, k) => Inside(x, L[p])
  BY <1>2 DEF Inside, Among
<1>5. \A b \in Buffers : Placed(M, b) <=> ~Inside(b, k)
  <2>1. \A b : Inside(b, k) <=> Among(b, k, n)
    BY <1>2 DEF Inside
  <2>2. \A b \in Buffers : Placed(L, b)
    BY DEF Holds, Inside, Among
  <2> QED BY <2>1, <2>2 DEF Taken, k
<1>6. Holds(t, M, k)
  BY <1>2, <1>3, <1>5 DEF Holds, Taken
<1> QED BY <1>2, <1>3, <1>4, <1>6 DEF k, Hosts

LEMMA TakeKept ==
  ASSUME PoolInv, NEW p \in Selectors, NEW offs, NEW n \in 1..NumBuffers,
         GetThenDeleteSectorData(p, offs, n)
  PROVE  Kept
<1>1. PICK L : Holds(pool, L, DT.BufList)
  BY DEF PoolInv
<1>2. DT.BufList = <<>> /\ Sound(conn') /\ InPartition(p, offs, n)
  BY DEF PoolInv, Hosted, GetThenDeleteSectorData
<1>3. Shape(pool, L) /\ Holds(pool, L, <<>>) /\ p \in Connectors
  BY <1>1, <1>2 DEF Holds, Connectors
<1>4. /\ offs \in Nat /\ n \in Nat /\ n # 0 /\ offs + n <= Len(L[p])
      /\ Partition_GetBuffers(pool, p, offs, n) = Piece(L[p], offs, n)
  BY <1>2, <1>3, SpanIs
<1> DEFINE k == Piece(L[p], offs, n)
<1>5. DT' = Transfer(k) /\ pool' = Unlinked(pool, p, k)
  BY <1>4 DEF GetThenDeleteSectorData
<1>6. PICK M : Taken(pool', M, L, p, offs, n)
  BY <1>3, <1>4, <1>5, UnlinkedShape
<1>7. k \in Seq(Buffers) /\ Holds(pool', M, k)
  BY <1>3, <1>4, <1>6, TakenHolds DEF Hosts
<1>8. Hosted(DT') /\ DT'.BufList = k
  <2> HIDE DEF k
  <2> QED BY <1>5, <1>7, HostedList
<1>9. PoolInv'
  BY <1>2, <1>7, <1>8, NextHolds
<1>10. Shape(pool', M) /\ QueuesOf(M) = Without(L, p, offs, n)
  <2>1. /\ Shape(pool', M) /\ M[p] = Cut(L[p], offs, n)
        /\ \A r \in Selectors : r # p => M[r] = L[r]
    BY <1>6 DEF Taken, Connectors
  <2> QED BY <2>1 DEF QueuesOf, Without
<1>11. PoolStep
  BY <1>2, <1>3, <1>4, <1>8, <1>10, TakeStep
<1> QED BY <1>9, <1>11 DEF Kept

LEMMA PutKept ==
  ASSUME PoolInv, NEW f \in Selectors, NEW n \in 1..NumBuffers,
         PutSectorData(f, n)
  PROVE  Kept
<1>1. PICK L : Holds(pool, L, DT.BufList)
  BY DEF PoolInv
<1>2. /\ DT.BufList = <<>> /\ n <= pool.FreeBufferCount
      /\ conn' = Filter_DisconnectInput(conn, f)
      /\ pool' = Allocated(pool, n)
  BY DEF PoolInv, Hosted, PutSectorData
<1>3. Sound(conn')
  BY <1>2, InputSound
<1>4. Shape(pool, L) /\ Holds(pool, L, <<>>) /\ FF \in Connectors
  BY <1>1, <1>2, FFNoSelector DEF Holds
<1> DEFINE z == 0
           k == Piece(L[FF], z, n)
<1>5. /\ n \in Nat /\ n # 0 /\ n <= Len(L[FF]) /\ Len(L[FF]) \in Nat
      /\ z \in Nat /\ z + n <= Len(L[FF])
  BY <1>2, <1>4, FamilyTyped, BuffersAssumption DEF Shape, Counted
<1>6. AllocatedList(n) = k
  BY <1>4, <1>5, ContentsAre DEF AllocatedList
<1>7. PICK M : Taken(pool', M, L, FF, z, n)
  BY <1>2, <1>4, <1>5, AllocatedShape
<1>8. DT' = [Active |-> TRUE, Writing |-> TRUE, FNum |-> f, BufList |-> k]
  BY <1>6 DEF PutSectorData
<1> HIDE DEF z
<1>9. /\ k \in Seq(Buffers) /\ Len(k) = n /\ Distinct(k) /\ Holds(pool', M, k)
      /\ \A x : Inside(x, k) => Inside(x, L[FF])
  <2>1. Hosts(pool', M, Piece(L[FF], z, n), L[FF], n)
    BY ONLY <1>4, <1>5, <1>7, TakenHolds, SMTT(30)
  <2> QED BY <2>1, Zenon DEF Hosts, k
<1> HIDE DEF k
<1>10. Hosted(DT') /\ DT'.BufList = k
  BY <1>8, <1>9 DEF Hosted
<1>11. PoolInv'
  BY <1>3, <1>9, <1>10, NextHolds
<1>12. Shape(pool', M) /\ QueuesOf(M) = QueuesOf(L)
  <2>1. /\ Shape(pool', M) /\ \A r \in Selectors : M[r] = L[r]
    BY <1>7, FFNoSelector DEF Taken, Connectors
  <2> QED BY <2>1 DEF QueuesOf
<1>13. k # <<>>
  BY <1>5, <1>9
<1>14. PoolStep
  BY <1>1, <1>2, <1>9, <1>10, <1>12, <1>13, ReserveStep
<1> QED BY <1>11, <1>14 DEF Kept

(* The host's buffers are given out.                                        *)
LEMMA StoredHolds ==
  ASSUME NEW s, NEW L, NEW list, Holds(s, L, list), NEW t, NEW q, NEW M,
         GivenOut(t, q, M, L, list, Len(list))
  PROVE  Holds(t, M, <<>>)
<1>1. \A b \in Buffers : Placed(M, b)
  BY DEF Holds, GivenOut, Inside
<1>2. <<>> \in Seq(Buffers) /\ Distinct(<<>>) /\ \A b : ~Inside(b, <<>>)
  BY DEF Distinct, Inside, Among
<1> QED BY <1>1, <1>2 DEF Holds, GivenOut

LEMMA EndKept == PoolInv /\ EndDataTransfer => Kept
<1> SUFFICES ASSUME PoolInv, EndDataTransfer PROVE Kept
  OBVIOUS
<1>1. PICK L : Holds(pool, L, DT.BufList)
  BY DEF PoolInv
<1> DEFINE k == DT.BufList
           n == Len(k)
<1>2. Hosted(DT') /\ DT'.BufList = <<>>
  BY HostedNone DEF EndDataTransfer
<1>3. /\ Shape(pool, L) /\ L \in Families /\ k \in Seq(Buffers) /\ Distinct(k)
      /\ n \in Nat /\ DOMAIN k = 1..n
  BY <1>1 DEF Holds, Shape
<1>4. Outside(L, k)
  <2> SUFFICES ASSUME NEW i \in 1..n PROVE ~Placed(L, k[i])
    BY DEF Outside
  <2>1. k[i] \in Buffers /\ Inside(k[i], k)
    BY <1>3 DEF Inside, Among
  <2> QED BY <1>1, <2>1 DEF Holds
<1>5. \E M : \E to \in [1..n -> Connectors] :
        GivenOut(pool', SP!Sent(QueuesOf(L), k, to), M, L, k, n) /\ Sound(conn')
  <2>1. CASE DT.Writing
    <3>1. /\ conn' = Filter_DisconnectInput(conn, DT.FNum)
          /\ DT.FNum \in Selectors
      BY <2>1 DEF EndDataTransfer, PoolInv, Hosted
    <3>2. Sound(conn') /\ Destinations(conn', DT.FNum) \subseteq Connectors
      BY <3>1, InputSound
    <3>3. PICK to \in [DOMAIN DT.BufList -> Destinations(conn', DT.FNum)] :
            pool' = FilteredTo(pool, DT.BufList, to)
      BY <2>1 DEF EndDataTransfer
    <3>4. to \in [1..n -> Connectors]
      BY <1>3, <3>2, <3>3
    <3>5. \E M : GivenOut(pool', SP!Sent(QueuesOf(L), k, to), M, L, k, n)
      BY <1>3, <1>4, <3>3, <3>4, FilteredShape
    <3> QED BY <3>2, <3>4, <3>5
  <2>2. CASE ~DT.Writing
    <3> DEFINE to == [i \in 1..n |-> FF]
    <3>1. pool' = Freed(pool, k) /\ Sound(conn')
      BY <2>2 DEF EndDataTransfer, PoolInv
    <3>2. PICK M : GivenOut(pool', QueuesOf(L), M, L, k, n)
      BY <1>3, <1>4, <3>1, FreedShape
    <3>3. to \in [1..n -> Connectors] /\ QueuesOf(L) \in Queues
      BY <1>3, FFNoSelector, QueuesTyped
    <3>4. PICK W : /\ IsSending(W, QueuesOf(L), k, to)
                   /\ SP!Sent(QueuesOf(L), k, to) = W[Len(k)]
      <4> HIDE DEF to
      <4> QED BY <1>3, <3>3, SentIs
    <3>5. SP!Sent(QueuesOf(L), k, to) = QueuesOf(L)
      <4> HIDE DEF k
      <4> QED BY <1>3, <3>3, <3>4, NothingSent
    <3> HIDE DEF to, k, n
    <3> QED BY <3>1, <3>2, <3>3, <3>5
  <2> QED BY <2>1, <2>2 DEF PoolInv, Hosted
<1>6. PICK M : \E to \in [1..n -> Connectors] :
        GivenOut(pool', SP!Sent(QueuesOf(L), k, to), M, L, k, n) /\ Sound(conn')
  BY <1>5
<1>7. PICK to \in [1..n -> Connectors] :
        GivenOut(pool', SP!Sent(QueuesOf(L), k, to), M, L, k, n) /\ Sound(conn')
  BY <1>6
<1>8. PoolInv'
  <2>1. Holds(pool', M, <<>>)
    BY <1>1, <1>7, StoredHolds
  <2> QED BY <1>2, <1>7, <2>1, NextHolds
<1>9. PoolStep
  <2>1. /\ Shape(pool', M)
        /\ QueuesOf(M) = SP!Sent(QueuesOf(L), DT.BufList, to)
    BY <1>7 DEF GivenOut
  <2> QED BY <1>1, <1>2, <1>7, <2>1, FinishStep
<1> QED BY <1>8, <1>9 DEF Kept
-----------------------------------------------------------------------------
(* All buffers are free.                                                    *)
AllFree == [p \in Connectors |-> IF p = FF THEN [i \in 1..NumBuffers |-> i - 1]
                                 ELSE <<>>]

LEMMA ResetShape ==
  /\ Holds(ResetBuffers, AllFree, <<>>)
  /\ QueuesOf(AllFree) = [p \in Selectors |-> <<>>]
<1> DEFINE s == ResetBuffers
           L == AllFree
           n == NumBuffers
<1>1. /\ n \in 1..200 /\ n \in Nat /\ 0 \in Buffers
      /\ \A i \in 1..n : i - 1 \in Buffers
      /\ \A b \in Buffers : b \in Nat /\ b < n /\ b # FF
      /\ FF \in Links /\ FF \notin Selectors /\ FF \in Connectors
      /\ \A b \in Buffers : b \in Links
  BY BuffersAssumption, FFNoBuffer, FFNoSelector DEF Buffers, Links
<1>2. /\ L[FF] = [i \in 1..n |-> i - 1] /\ \A p \in Selectors : L[p] = <<>>
      /\ \A p \in Connectors : p # FF => p \in Selectors
  BY <1>1 DEF AllFree, Connectors
<1>3. /\ L[FF] \in Seq(Buffers) /\ Len(L[FF]) = n
      /\ \A i \in 1..n : L[FF][i] = i - 1
  <2> HIDE DEF n, L
  <2> QED BY <1>1, <1>2
<1>4. L \in Families
  <2>1. \A p \in Connectors : (IF p = FF THEN [i \in 1..n |-> i - 1] ELSE <<>>)
                                \in Seq(Buffers)
    BY <1>2, <1>3
  <2> QED BY <2>1 DEF AllFree, Families
<1>5. s \in Pools
  <2> DEFINE u == [b \in Buffers |-> IF b = 0 THEN FF ELSE b - 1]
             v == [b \in Buffers |-> IF b = n - 1 THEN FF ELSE b + 1]
             e == [p \in Selectors |-> FF]
             z == [p \in Selectors |-> 0]
  <2>1. u \in [Buffers -> Links] /\ v \in [Buffers -> Links]
    <3>1. ASSUME NEW b \in Buffers
          PROVE  /\ (IF b = 0 THEN FF ELSE b - 1) \in Links
                 /\ (IF b = n - 1 THEN FF ELSE b + 1) \in Links
      <4>1. b # 0 => b - 1 \in Buffers
        BY <1>1 DEF Buffers
      <4>2. b # n - 1 => b + 1 \in Buffers
        BY <1>1 DEF Buffers
      <4> QED BY <1>1, <4>1, <4>2
    <3> QED BY <3>1
  <2>2. e \in [Selectors -> Links] /\ z \in [Selectors -> Int]
    BY <1>1
  <2>3. 0 \in Links /\ n \in Int
    BY <1>1
  <2>4. s = [Prev |-> u, Next |-> v, FirstBuf |-> e, LastBuf |-> e, Count |-> z,
             FirstFreeBuf |-> 0, FreeBufferCount |-> n, ok |-> TRUE]
    BY DEF ResetBuffers
  <2> HIDE DEF u, v, e, z, s, n
  <2> QED BY <2>1, <2>2, <2>3, <2>4 DEF Pools
<1>6. Apart(L)
  <2> SUFFICES ASSUME NEW p \in Connectors, NEW r \in Connectors,
                      NEW i \in 1..Len(L[p]), NEW j \in 1..Len(L[r]),
                      L[p][i] = L[r][j]
               PROVE  p = r /\ i = j
    BY DEF Apart
  <2>1. p = FF /\ r = FF
    <3>1. \A x \in Selectors : Len(L[x]) = 0
      BY <1>2
    <3> QED BY <1>2, <3>1
  <2> HIDE DEF L, n
  <2>2. n \in Nat /\ i \in 1..n /\ j \in 1..n /\ L[FF][i] = L[FF][j]
    BY <1>1, <1>3, <2>1
  <2>3. i - 1 = j - 1
    BY <1>3, <2>2
  <2> QED BY <2>1, <2>2, <2>3
<1>7. Chained(s, L)
  <2> SUFFICES ASSUME NEW p \in Connectors, NEW i \in 1..Len(L[p])
               PROVE  /\ s.Next[L[p][i]] = At(L[p], i + 1)
                      /\ s.Prev[L[p][i]] = At(L[p], i - 1)
    BY DEF Chained
  <2>1. p = FF /\ i \in 1..n
    <3>1. \A x \in Selectors : Len(L[x]) = 0
      BY <1>2
    <3>2. p = FF
      BY <1>2, <3>1
    <3> HIDE DEF L
    <3> QED BY <1>3, <3>2
  <2> DEFINE b == i - 1
  <2>2. b \in Buffers /\ L[p][i] = b /\ i = b + 1
    BY <1>1, <1>3, <2>1
  <2>3. /\ s.Next[b] = IF b = n - 1 THEN FF ELSE b + 1
        /\ s.Prev[b] = IF b = 0 THEN FF ELSE b - 1
    <3> HIDE DEF b
    <3> QED BY <2>2 DEF ResetBuffers
  <2>4. At(L[p], i + 1) = IF b = n - 1 THEN FF ELSE b + 1
    <3> DEFINE k == i + 1
    <3>1. /\ k \in Int /\ (k \in 1..n => L[FF][k] = k - 1)
          /\ (k \in 1..n <=> b # n - 1) /\ k - 1 = b + 1
      <4> HIDE DEF L, n
      <4> QED BY <1>1, <1>3, <2>1
    <3> HIDE DEF L, b, n, k
    <3>2. At(L[p], k) = IF k \in 1..n THEN k - 1 ELSE FF
      BY <1>3, <2>1, <3>1 DEF At
    <3> QED BY <3>1, <3>2 DEF k
  <2>5. At(L[p], i - 1) = IF b = 0 THEN FF ELSE b - 1
    <3> DEFINE k == i - 1
    <3>1. /\ k \in Int /\ (k \in 1..n => L[FF][k] = k - 1)
          /\ (k \in 1..n <=> b # 0) /\ k - 1 = b - 1
      <4> HIDE DEF L, n
      <4> QED BY <1>1, <1>3, <2>1
    <3> HIDE DEF L, b, n, k
    <3>2. At(L[p], k) = IF k \in 1..n THEN k - 1 ELSE FF
      BY <1>3, <2>1, <3>1 DEF At
    <3> QED BY <3>1, <3>2 DEF k
  <2> HIDE DEF b, L, s
  <2> QED BY <2>2, <2>3, <2>4, <2>5
<1>8. \A b \in Buffers : Placed(L, b)
  <2> SUFFICES ASSUME NEW b \in Buffers PROVE Placed(L, b)
    OBVIOUS
  <2>1. b + 1 \in 1..Len(L[FF]) /\ L[FF][b + 1] = b
    <3> HIDE DEF L, n
    <3> QED BY <1>1, <1>3
  <2> QED BY <1>1, <2>1 DEF Placed
<1>9. Counted(s, L) /\ s.ok
  <2>1. \A p \in Selectors : /\ s.FirstBuf[p] = FF /\ s.LastBuf[p] = FF
                             /\ s.Count[p] = 0
    BY DEF ResetBuffers
  <2>2. s.FirstFreeBuf = 0 /\ s.FreeBufferCount = n /\ s.ok
    BY DEF ResetBuffers
  <2>3. At(L[FF], 1) = 0
    <3> HIDE DEF L, n
    <3> QED BY <1>1, <1>3 DEF At
  <2>4. \A p \in Selectors : /\ At(L[p], 1) = FF /\ At(L[p], Len(L[p])) = FF
                             /\ Len(L[p]) = 0
    BY <1>2 DEF At
  <2> HIDE DEF L, s, n
  <2> QED BY <1>3, <2>1, <2>2, <2>3, <2>4 DEF Counted
<1>10. Shape(s, L)
  BY <1>4, <1>5, <1>6, <1>7, <1>8, <1>9 DEF Shape, AllLoose
<1>11. Holds(s, L, <<>>)
  <2>1. <<>> \in Seq(Buffers) /\ Distinct(<<>>) /\ \A b : ~Inside(b, <<>>)
    BY DEF Distinct, Inside, Among
  <2> HIDE DEF L, s
  <2> QED BY <1>8, <1>10, <2>1 DEF Holds
<1>12. QueuesOf(L) = [p \in Selectors |-> <<>>]
  <2> HIDE DEF L
  <2> QED BY <1>2 DEF QueuesOf
<1> QED BY <1>11, <1>12

LEMMA SoftResetKept == PoolInv /\ SoftReset => Kept
<1> SUFFICES ASSUME PoolInv, SoftReset PROVE Kept
  OBVIOUS
<1>1. /\ Sound(conn') /\ Hosted(DT') /\ DT'.BufList = <<>>
      /\ Holds(pool', AllFree, <<>>)
  BY ResetSound, HostedNone, ResetShape DEF SoftReset
<1>2. PoolInv'
  BY <1>1, NextHolds
<1>3. PoolStep
  BY <1>1, ResetShape, ClearStep DEF Holds
<1> QED BY <1>2, <1>3 DEF Kept

LEMMA PoolBegins == CDBInit => PoolInv /\ SP!Init
<1> SUFFICES ASSUME CDBInit PROVE PoolInv /\ SP!Init
  OBVIOUS
<1>1. /\ Sound(conn) /\ Hosted(DT) /\ DT.BufList = <<>>
      /\ Holds(pool, AllFree, <<>>)
  BY ResetSound, HostedNone, ResetShape DEF CDBInit
<1>2. PoolInv
  BY <1>1 DEF PoolInv
<1>3. [p \in Selectors |-> Contents(pool, p)] = [p \in Selectors |-> <<>>]
  BY <1>1, ResetShape, QueueIs DEF Holds
<1>4. SP!Init
  BY <1>1, <1>3 DEF SP!Init
<1> QED BY <1>2, <1>4

LEMMA PoolKept == PoolInv /\ [CDBNext]_bufferVars => Kept
<1> SUFFICES ASSUME PoolInv, [CDBNext]_bufferVars PROVE Kept
  OBVIOUS
<1>1. CASE StoreSector
  BY <1>1, StoreKept
<1>2. CASE FLS_Connect \/ SetConnections \/ GetOtherData
  BY <1>2, ConnectionsKept
<1>3. CASE FLS_Grab
  BY <1>3, GrabKept
<1>4. CASE ReadFile
  <2>1. PICK p \in Selectors : /\ pool' = Partition_Clear(pool, p)
                               /\ conn' = Routed(conn, p, TRUE)
    BY <1>4 DEF ReadFile
  <2>2. Sound(conn')
    BY <2>1, RoutedSound DEF PoolInv
  <2> QED BY <1>4, <2>1, <2>2, ClearKept DEF ReadFile
<1>5. CASE SoftReset
  BY <1>5, SoftResetKept
<1>6. CASE EndDataTransfer
  BY <1>6, EndKept
<1>7. ASSUME NEW flags \in Resets, ResetSelectors(flags) PROVE Kept
  BY <1>7, ResetSelectorsKept
<1>8. ASSUME NEW p \in Selectors, ResetPartition(p) PROVE Kept
  <2>1. Sound(conn')
    BY <1>8 DEF ResetPartition, PoolInv
  <2> QED BY <1>8, <2>1, ClearKept DEF ResetPartition
<1>9. ASSUME NEW p \in Selectors, NEW n \in 1..NumBuffers, PutSectorData(p, n)
      PROVE  Kept
  BY <1>9, PutKept
<1>10. ASSUME NEW p \in Selectors, NEW n \in 1..NumBuffers, NEW offs,
              \/ GetSectorData(p, offs, n) \/ GetThenDeleteSectorData(p, offs, n)
              \/ DeleteSectorData(p, offs, n)
       PROVE  Kept
  BY <1>10, ConnectionsKept, TakeKept, DeleteKept
<1>11. ASSUME NEW p \in Selectors, NEW n \in 1..NumBuffers, NEW offs,
              NEW f \in Selectors,
              CopySectorData(f, p, offs, n) \/ MoveSectorData(f, p, offs, n)
       PROVE  Kept
  BY <1>11, CopyKept, MoveKept
<1>12. CASE UNCHANGED bufferVars
  <2>1. pool' = pool /\ conn' = conn /\ DT' = DT
    BY <1>12 DEF bufferVars
  <2> QED BY <2>1, NothingMoves DEF PoolInv
<1> QED
  BY <1>1, <1>2, <1>3, <1>4, <1>5, <1>6, <1>7, <1>8, <1>9, <1>10, <1>11, <1>12
  DEF CDBNext
-----------------------------------------------------------------------------
LEMMA ShortList ==
  ASSUME NEW l \in Seq(Buffers), Distinct(l)
  PROVE  Len(l) \in 0..NumBuffers /\ l \in BoundedSeq(Buffers, NumBuffers)
<1> DEFINE n == Len(l)
<1>1. n \in Nat /\ l \in [1..n -> Buffers] /\ NumBuffers \in Nat /\ NumBuffers > 0
  BY BuffersAssumption
<1>2. l \in Injection(1..n, Buffers)
  BY <1>1 DEF Injection, IsInjective, Distinct
<1> HIDE DEF n
<1>3. IsFiniteSet(Buffers) /\ Cardinality(Buffers) = NumBuffers
  <2>1. 0 \in Int /\ NumBuffers - 1 \in Int /\ ~(0 > NumBuffers - 1)
        /\ NumBuffers - 1 - 0 + 1 = NumBuffers
    BY <1>1
  <2> QED BY <2>1, FS_Interval DEF Buffers
<1>4. Cardinality(1..n) = n
  <2>1. Cardinality(1..n) = IF 1 > n THEN 0 ELSE n - 1 + 1
    BY <1>1, FS_Interval
  <2> QED BY <1>1, <2>1
<1>5. Cardinality(1..n) <= Cardinality(Buffers)
  BY <1>2, <1>3, FS_Injection
<1>6. n \in 0..NumBuffers
  BY <1>1, <1>3, <1>4, <1>5
<1>7. l \in UNION {[1..m -> Buffers] : m \in 0..NumBuffers}
  BY <1>1, <1>6
<1> QED BY <1>6, <1>7 DEF BoundedSeq, SeqOf, n

LEMMA PoolTyped == PoolInv => PoolTypeOK
<1> SUFFICES ASSUME PoolInv PROVE PoolTypeOK
  OBVIOUS
<1>1. PICK L : Holds(pool, L, DT.BufList)
  BY DEF PoolInv
<1>2. /\ pool \in Pools /\ Apart(L) /\ Counted(pool, L) /\ L \in Families
      /\ DT.BufList \in Seq(Buffers) /\ Distinct(DT.BufList)
  BY <1>1 DEF Holds, Shape
<1>3. \A p \in Connectors : Len(L[p]) \in 0..NumBuffers
  <2> SUFFICES ASSUME NEW p \in Connectors PROVE Len(L[p]) \in 0..NumBuffers
    OBVIOUS
  <2>1. L[p] \in Seq(Buffers) /\ Distinct(L[p])
    BY <1>2, FamilyTyped DEF Apart, Distinct
  <2> QED BY <2>1, ShortList
<1>4. /\ \A p \in Selectors : pool.Count[p] \in 0..NumBuffers
      /\ pool.FreeBufferCount \in 0..NumBuffers
  BY <1>2, <1>3, FFNoSelector DEF Counted, Connectors
<1>5. pool.Count \in [Selectors -> 0..NumBuffers]
  BY <1>2, <1>4 DEF Pools
<1>6. pool \in [Prev : [Buffers -> Links], Next : [Buffers -> Links],
                FirstBuf : [Selectors -> Links], LastBuf : [Selectors -> Links],
                Count : [Selectors -> 0..NumBuffers], FirstFreeBuf : Links,
                FreeBufferCount : 0..NumBuffers, ok : BOOLEAN]
  BY <1>2, <1>4, <1>5 DEF Pools
<1>7. ConnTypeOK
  BY DEF PoolInv, Sound, ConnRecord, ConnTypeOK
<1>8. DT.BufList \in BoundedSeq(Buffers, NumBuffers)
  BY <1>2, ShortList
<1> QED BY <1>6, <1>7, <1>8 DEF PoolTypeOK, PoolInv, Hosted

LEMMA ChainLinked ==
  ASSUME NEW L, Shape(pool, L), NEW p \in Connectors
  PROVE  Linked(L[p])
<1>1. L[p] \in Seq(Buffers) /\ Len(L[p]) \in Nat
  BY FamilyTyped DEF Shape
<1>2. \A i \in 1..Len(L[p]) : /\ pool.Next[L[p][i]] = At(L[p], i + 1)
                              /\ pool.Prev[L[p][i]] = At(L[p], i - 1)
  BY DEF Shape, Chained
<1> DEFINE l == L[p]
<1> HIDE DEF l
<1>3. \A i \in 1 .. Len(l) - 1 : pool.Next[l[i]] = l[i + 1] /\ pool.Prev[l[i + 1]] = l[i]
  <2> SUFFICES ASSUME NEW i \in 1 .. Len(l) - 1
               PROVE  pool.Next[l[i]] = l[i + 1] /\ pool.Prev[l[i + 1]] = l[i]
    OBVIOUS
  <2>1. /\ i \in 1..Len(l) /\ i + 1 \in 1..Len(l) /\ (i + 1) - 1 = i
    BY <1>1 DEF l
  <2>2. At(l, i + 1) = l[i + 1] /\ At(l, (i + 1) - 1) = l[i]
    BY <2>1 DEF At
  <2> QED BY <1>2, <2>1, <2>2 DEF l
<1>4. l # <<>> => pool.Prev[l[1]] = FF /\ pool.Next[l[Len(l)]] = FF
  <2> SUFFICES ASSUME l # <<>> PROVE pool.Prev[l[1]] = FF /\ pool.Next[l[Len(l)]] = FF
    OBVIOUS
  <2>1. /\ 1 \in 1..Len(l) /\ Len(l) \in 1..Len(l)
        /\ 1 - 1 \notin 1..Len(l) /\ Len(l) + 1 \notin 1..Len(l)
    BY <1>1 DEF l
  <2>2. At(l, 1 - 1) = FF /\ At(l, Len(l) + 1) = FF
    BY <2>1 DEF At
  <2> QED BY <1>2, <2>1, <2>2 DEF l
<1> QED BY <1>3, <1>4, Zenon DEF Linked, l
-----------------------------------------------------------------------------
(* The list a place is: 1 the free list, 3 and so on the partitions; the    *)
(* host's is 2.                                                             *)
ListOf(i) == IF i = 1 THEN FF ELSE i - 3

LEMMA PlacesAre ==
  ASSUME NEW L, Shape(pool, L)
  PROVE  /\ DOMAIN Places = 1 .. NumSelectors + 2
         /\ Places[2] = DT.BufList
         /\ \A i \in DOMAIN Places \ {2} : /\ ListOf(i) \in Connectors
                                           /\ Places[i] = L[ListOf(i)]
<1> DEFINE a == <<FreeList, DT.BufList>>
           b == [i \in 1..NumSelectors |-> Contents(pool, i - 1)]
           n == NumSelectors
           Lists == {FreeList, DT.BufList}
                    \cup {Contents(pool, i - 1) : i \in 1..NumSelectors}
<1>1. n \in Nat /\ n \in 1..24
  BY SelectorsAssumption
<1>2. Len(a) = 2 /\ a[1] = FreeList /\ a[2] = DT.BufList
  OBVIOUS
<1>3. b = [i \in 1..n |-> b[i]] /\ \A i \in 1..n : b[i] = Contents(pool, i - 1)
  OBVIOUS
<1>4. Len(b) = n /\ DOMAIN b = 1..n
  <2> HIDE DEF b, n
  <2> QED BY <1>1, <1>3
<1> HIDE DEF a, b
<1>5. Places = a \o b
  BY Zenon DEF Places, a, b
<1>6. /\ Places \in Seq(Lists) /\ Len(Places) = 2 + n
      /\ \A i \in 1 .. 2 + n : Places[i] = IF i <= 2 THEN a[i] ELSE b[i - 2]
  <2>1. a \in Seq(Lists) /\ b \in Seq(Lists)
    <3> HIDE DEF n
    <3>1. FreeList \in Lists /\ DT.BufList \in Lists /\ \A i \in 1..n : b[i] \in Lists
      BY <1>3, Zenon DEF n
    <3>2. b \in [1..n -> Lists]
      BY <1>3, <3>1
    <3> HIDE DEF Lists
    <3> QED BY <1>1, <3>1, <3>2 DEF a
  <2> HIDE DEF n, Lists
  <2>2. /\ a \o b \in Seq(Lists) /\ Len(a \o b) = Len(a) + Len(b)
        /\ \A i \in 1 .. Len(a) + Len(b) :
             (a \o b)[i] = IF i <= Len(a) THEN a[i] ELSE b[i - Len(a)]
    BY <2>1, ConcatProperties, Zenon
  <2> QED BY <1>2, <1>4, <1>5, <2>2
<1>7. /\ DOMAIN Places = 1 .. n + 2
      /\ \A i \in 1 .. n + 2 : Places[i] = IF i <= 2 THEN a[i] ELSE b[i - 2]
  <2> HIDE DEF n, Lists
  <2>1. DOMAIN Places = 1 .. 2 + n
    BY <1>6
  <2>2. 2 + n = n + 2
    BY <1>1
  <2> QED BY <1>6, <2>1, <2>2
<1>8. Places[2] = DT.BufList
  <2> HIDE DEF n
  <2> QED BY <1>1, <1>2, <1>7
<1>9. ASSUME NEW i \in 1 .. n + 2, i # 2
      PROVE  ListOf(i) \in Connectors /\ Places[i] = L[ListOf(i)]
  <2>1. CASE i = 1
    <3>1. Places[i] = FreeList
      <4> HIDE DEF n
      <4> QED BY <1>1, <1>2, <1>7, <2>1
    <3>2. FreeList = L[FF]
      BY ContentsAre DEF FreeList
    <3> QED BY <2>1, <3>1, <3>2, FFNoSelector DEF ListOf
  <2>2. CASE i # 1
    <3> DEFINE k == i - 2
    <3>1. k \in 1..n /\ ~(i <= 2) /\ k - 1 = i - 3 /\ i - 3 \in 0 .. n - 1
      BY <1>1, <1>9, <2>2
    <3>2. Places[i] = b[k]
      BY <1>7, <3>1
    <3> HIDE DEF k
    <3>3. Places[i] = Contents(pool, i - 3)
      BY <1>3, <3>1, <3>2
    <3>4. i - 3 \in Selectors
      BY <3>1 DEF Selectors
    <3> QED BY <2>2, <3>3, <3>4, ContentsAre DEF ListOf, Connectors
  <2> QED BY <2>1, <2>2
<1> QED BY <1>7, <1>8, <1>9

LEMMA PoolConserved == PoolInv => BuffersConserved
<1> SUFFICES ASSUME PoolInv PROVE BuffersConserved
  OBVIOUS
<1>1. PICK L : Holds(pool, L, DT.BufList)
  BY DEF PoolInv
<1> DEFINE k == DT.BufList
           D == DOMAIN Places
<1>2. /\ Shape(pool, L) /\ L \in Families /\ Apart(L) /\ pool.ok
      /\ k \in Seq(Buffers) /\ Distinct(k) /\ AllLoose(pool, L)
      /\ \A b \in Buffers : Placed(L, b) <=> ~Inside(b, k)
  BY <1>1 DEF Holds, Shape
<1>3. /\ D = 1 .. NumSelectors + 2 /\ NumSelectors \in 1..24
      /\ Places[2] = k
      /\ \A i \in D \ {2} : ListOf(i) \in Connectors /\ Places[i] = L[ListOf(i)]
  BY <1>2, PlacesAre, SelectorsAssumption
<1> HIDE DEF k, D
<1>4. \A b, l : l \in Seq(Buffers) => (b \in ToSet(l) <=> Inside(b, l))
  <2> SUFFICES ASSUME NEW b, NEW l \in Seq(Buffers)
               PROVE  b \in ToSet(l) <=> Inside(b, l)
    OBVIOUS
  <2>1. DOMAIN l = 1..Len(l)
    OBVIOUS
  <2> QED BY <2>1 DEF ToSet, Inside, Among
<1>5. \A p \in Connectors : /\ L[p] \in Seq(Buffers) /\ Distinct(L[p])
                            /\ \A b : Inside(b, L[p]) => Placed(L, b)
  <2> SUFFICES ASSUME NEW p \in Connectors
               PROVE  /\ L[p] \in Seq(Buffers) /\ Distinct(L[p])
                      /\ \A b : Inside(b, L[p]) => Placed(L, b)
    OBVIOUS
  <2>1. L[p] \in Seq(Buffers)
    BY <1>2, FamilyTyped
  <2>2. Distinct(L[p])
    BY <1>2 DEF Apart, Distinct
  <2>3. \A b : Inside(b, L[p]) => Placed(L, b)
    BY DEF Inside, Among, Placed
  <2> QED BY <2>1, <2>2, <2>3
<1>6. \A i, j \in D \ {2} : ListOf(i) = ListOf(j) => i = j
  <2> SUFFICES ASSUME NEW i \in D \ {2}, NEW j \in D \ {2},
                      (IF i = 1 THEN 255 ELSE i - 3) = (IF j = 1 THEN 255 ELSE j - 3)
               PROVE  i = j
    BY Zenon DEF ListOf, FF
  <2>1. i \in 1..26 /\ j \in 1..26
    BY <1>3
  <2> QED BY <2>1
<1>7. \A i \in D : Places[i] \in Seq(Buffers) /\ Distinct(Places[i])
  BY <1>2, <1>3, <1>5
<1>8. ASSUME NEW b \in Buffers
      PROVE  Cardinality({i \in D : b \in ToSet(Places[i])}) = 1
  <2> DEFINE S == {i \in D : b \in ToSet(Places[i])}
  <2>1. \A i \in D : i \in S <=> Inside(b, Places[i])
    BY <1>4, <1>7
  <2>2. \E i : S = {i}
    <3>1. CASE Inside(b, k)
      <4>1. 2 \in D
        BY <1>3
      <4>2. 2 \in S
        BY <1>3, <2>1, <3>1, <4>1
      <4>3. ASSUME NEW i \in S, i # 2 PROVE FALSE
        <5>1. i \in D \ {2} /\ Inside(b, Places[i])
          BY <2>1, <4>3
        <5>2. Placed(L, b)
          BY <1>3, <1>5, <5>1
        <5> QED BY <1>2, <3>1, <5>2
      <4> HIDE DEF S
      <4> QED BY <4>2, <4>3
    <3>2. CASE ~Inside(b, k)
      <4>1. PICK p \in Connectors : Inside(b, L[p])
        BY <1>2, <3>2 DEF Placed, Inside, Among
      <4>2. PICK i \in D \ {2} : ListOf(i) = p
        <5> DEFINE i == IF p = FF THEN 1 ELSE p + 3
        <5>1. p # FF => p \in 0 .. NumSelectors - 1
          BY DEF Connectors, Selectors
        <5>2. i \in D \ {2}
          BY <1>3, <5>1
        <5>3. ListOf(i) = p
          BY <1>3, <5>1 DEF ListOf
        <5> QED BY <5>2, <5>3
      <4>3. i \in S
        BY <1>3, <2>1, <4>1, <4>2
      <4>4. ASSUME NEW j \in S PROVE j = i
        <5>1. j \in D /\ Inside(b, Places[j])
          BY <2>1, <4>4
        <5>2. j # 2
          BY <1>3, <3>2, <5>1
        <5>3. ListOf(j) \in Connectors /\ Inside(b, L[ListOf(j)])
          BY <1>3, <5>1, <5>2
        <5>4. ListOf(j) = p
          BY <1>2, <4>1, <5>3 DEF Apart, Inside, Among
        <5> QED BY <1>6, <4>2, <5>1, <5>2, <5>4
      <4> HIDE DEF S
      <4> QED BY <4>3, <4>4
    <3> QED BY <3>1, <3>2
  <2> QED BY <2>2, FS_Singleton
<1>9. ASSUME NEW l \in ToSet(Places) PROVE ToSet(l) \subseteq Buffers /\ IsInjective(l)
  <2>1. PICK i \in D : l = Places[i]
    BY <1>9 DEF ToSet, D
  <2>2. l \in Seq(Buffers) /\ Distinct(l)
    BY <1>7, <2>1
  <2> QED BY <2>2 DEF ToSet, IsInjective, Distinct
<1>10. Linked(FreeList) /\ \A p \in Selectors : Linked(Contents(pool, p))
  <2>1. FreeList = L[FF] /\ \A p \in Selectors : Contents(pool, p) = L[p]
    BY <1>2, ContentsAre DEF FreeList
  <2>2. \A p \in Connectors : Linked(L[p])
    BY <1>2, ChainLinked
  <2> QED BY <2>1, <2>2, FFNoSelector DEF Connectors
<1>11. ASSUME NEW b \in ToSet(k) PROVE Loose(pool, b)
  <2>1. b \in Buffers /\ Inside(b, k)
    BY <1>2, <1>4, <1>11 DEF ToSet
  <2> QED BY <1>2, <2>1 DEF AllLoose
<1> QED BY <1>2, <1>8, <1>9, <1>10, <1>11 DEF BuffersConserved, D, k
-----------------------------------------------------------------------------
LEMMA PoolInvariance == CDBSpec => []PoolInv
<1>1. CDBInit => PoolInv
  BY PoolBegins
<1>2. PoolInv /\ [CDBNext]_bufferVars => PoolInv'
  BY PoolKept DEF Kept
<1> QED BY <1>1, <1>2, PTL DEF CDBSpec

(* Links, counts and the transfer's list have their types: no list gets     *)
(* longer than there are buffers (Count and FreeBufferCount are bytes).     *)
THEOREM PoolTypeCorrect == CDBSpec => []PoolTypeOK
BY PoolInvariance, PoolTyped, PTL

(* Whatever commands, sectors of the drive and transfers follow each other, *)
(* no assertion on the lists fails, and no buffer is lost, in two lists, or *)
(* in a partition while the host has it.                                    *)
THEOREM BuffersAccounted == CDBSpec => []BuffersConserved
BY PoolInvariance, PoolConserved, PTL

(* The same of all these for the filters' inputs.                           *)
THEOREM CommandsOneSource == CDBSpec => []OneSource
<1>1. PoolInv => OneSource
  BY DEF PoolInv, Sound, Sourced, OneSource
<1> QED BY <1>1, PoolInvariance, PTL

(* The linked lists are the queues of SectorPool.                           *)
THEOREM PartitionsAreQueues == CDBSpec => ImplementsPool
<1>1. CDBInit => SP!Init
  BY PoolBegins
<1>2. PoolInv /\ [CDBNext]_bufferVars => [SP!Next]_(SP!vars)
  BY PoolKept, Zenon DEF Kept, PoolStep
<1> QED BY <1>1, <1>2, PoolInvariance, PTL DEF CDBSpec, ImplementsPool, SP!Spec
-----------------------------------------------------------------------------
(* The drive.                                                               *)

(* Where the pickup is: at the sector to be delivered next, or nowhere; a   *)
(* sector read ahead is that sector, and a drive that plays or pauses, as   *)
(* well as the end of a seek, reads it.                                     *)
Positioned(d) ==
  /\ d.fad = Nowhere \/ d.fad = d.wanted
  /\ d.SecPreBuf_In # 0 => d.SecPreBuf = d.wanted /\ d.DrivePhase # "start1"
  /\ d.DrivePhase \in {"play", "pause"} => d.CurSector = d.wanted /\ d.fad = d.wanted
  /\ d.DrivePhase = "seek" => d.CurSector = d.fad
Good(d) == d \in Drives /\ Positioned(d)
IInv ==
  /\ Good(drv)
  /\ disc \in BOOLEAN /\ AuthDiscType \in BOOLEAN
  /\ FLS \in {"off", "auth", "volume", "dir"}
  /\ bufs \in Held
-----------------------------------------------------------------------------
LEMMA PositionTypes ==
  /\ 0 \in Positions /\ Nowhere \in Positions /\ NoEnd \in Positions
  /\ Sectors \subseteq Positions /\ Ends \subseteq Positions
  /\ 0 \in Sectors /\ VolumeDescriptor \in Sectors
  /\ AtOnce \in Positions /\ 0 \in 0..MaxRepeat
  BY DriveAssumption DEF Positions, Nowhere, NoEnd, Sectors, VolumeDescriptor,
     AtOnce
LEMMA FirstPosition ==
  0 \in Positions /\ 0 \in -1..1 /\ "any" \in {"any", "step", "check"}
  BY PositionTypes
LEMMA NextPositions ==
  /\ \A p \in Positions : Min2(p + 1, Beyond) \in Positions
  /\ \A n \in 0..14 : Min2(n + 1, 14) \in 0..14
  BY DriveAssumption DEF Positions, Nowhere, Beyond, Min2

LEMMA RestartedGood ==
  ASSUME NEW d \in Drives, NEW phase \in Phases \ {"play", "pause", "seek"},
         d.fad = Nowhere \/ d.fad = d.wanted,
         d.SecPreBuf_In # 0 => d.SecPreBuf = d.wanted /\ phase # "start1"
  PROVE  Good(Restarted(d, phase))
  <1>1. Restarted(d, phase) \in Drives
    <2>1. phase \in Phases
      OBVIOUS
    <2> HIDE DEF Phases
    <2> QED BY <2>1, FirstPosition DEF Restarted, Drives
  <1>2. Positioned(Restarted(d, phase))
    BY DEF Restarted, Positioned, Drives, Phases
  <1> QED BY <1>1, <1>2 DEF Good
LEMMA EmptiedGood ==
  ASSUME NEW d, Good(d)
  PROVE  /\ Good(Emptied(d)) /\ Emptied(d).SecPreBuf_In = 0
         /\ Emptied(d).DrivePhase = d.DrivePhase /\ Emptied(d).fad = d.fad
         /\ Emptied(d).wanted = d.wanted /\ Emptied(d).CurSector = d.CurSector
  <1>1. d \in Drives /\ Positioned(d)
    BY DEF Good
  <1>2. Emptied(d) \in Drives
    BY <1>1, FirstPosition DEF Emptied, Drives
  <1>3. /\ Emptied(d).SecPreBuf_In = 0 /\ Emptied(d).DrivePhase = d.DrivePhase
        /\ Emptied(d).fad = d.fad /\ Emptied(d).wanted = d.wanted
        /\ Emptied(d).CurSector = d.CurSector
    BY <1>1 DEF Emptied, Drives
  <1>4. Positioned(Emptied(d))
    BY <1>1, <1>3 DEF Positioned
  <1> QED BY <1>2, <1>3, <1>4 DEF Good

(* The beginning of a seek: the pickup is sent to the start of the play, or *)
(* left where it is.                                                        *)
LEMMA SeekStart1Good ==
  ASSUME NEW d \in Drives, d.SecPreBuf_In = 0
  PROVE  /\ SeekStart1(d) \in Drives /\ SeekStart1(d).fad = SeekStart1(d).wanted
         /\ SeekStart1(d).SecPreBuf_In = 0
  <1>1. SeekStart1(d) \in Drives
    BY PositionTypes DEF SeekStart1, Drives
  <1> QED BY <1>1 DEF SeekStart1, Drives
LEMMA SeekStart2Good ==
  ASSUME NEW d \in Drives, d.fad = Nowhere \/ d.fad = d.wanted,
         d.SecPreBuf_In # 0 => d.SecPreBuf = d.wanted
  PROVE  Good(SeekStart2(d))
  BY RestartedGood DEF SeekStart2, Phases
LEMMA ForceCompleteGood ==
  ASSUME NEW d, Good(d)
  PROVE  Good(ForceCompletePendingSeekStartup(d))
  <1>1. d \in Drives /\ Positioned(d)
    BY DEF Good
  <1>2. CASE d.DrivePhase = "start1"
    <2>1. d.SecPreBuf_In = 0
      BY <1>1, <1>2 DEF Positioned
    <2>2. /\ SeekStart1(d) \in Drives /\ SeekStart1(d).fad = SeekStart1(d).wanted
          /\ SeekStart1(d).SecPreBuf_In = 0
      BY <1>1, <1>2, <2>1, SeekStart1Good
    <2>3. Good(SeekStart2(SeekStart1(d)))
      BY <2>2, SeekStart2Good
    <2> QED BY <1>2, <2>3 DEF ForceCompletePendingSeekStartup
  <1>3. CASE d.DrivePhase = "start2"
    <2>1. Good(SeekStart2(d))
      BY <1>1, SeekStart2Good DEF Positioned
    <2> QED BY <1>3, <2>1 DEF ForceCompletePendingSeekStartup
  <1>4. CASE d.DrivePhase \notin {"start1", "start2"}
    BY <1>4 DEF ForceCompletePendingSeekStartup
  <1> QED BY <1>2, <1>3, <1>4
LEMMA ClearPendingGood ==
  ASSUME NEW d, Good(d)
  PROVE  Good(ClearPendingSec(d)) /\ ClearPendingSec(d).SecPreBuf_In = 0
  <1> DEFINE e == Emptied(d)
  <1>1. Good(e) /\ e.SecPreBuf_In = 0
    BY EmptiedGood
  <1>2. ClearPendingSec(d) = [e EXCEPT !.PlayEndIRQType = FALSE]
    BY DEF ClearPendingSec
  <1> HIDE DEF e
  <1>3. [e EXCEPT !.PlayEndIRQType = FALSE] \in Drives
    <2>1. e \in Drives
      BY <1>1 DEF Good
    <2> QED BY ONLY <2>1 DEF Drives
  <1>4. /\ Positioned([e EXCEPT !.PlayEndIRQType = FALSE])
        /\ [e EXCEPT !.PlayEndIRQType = FALSE].SecPreBuf_In = 0
    BY <1>1 DEF Good, Drives, Positioned
  <1> QED BY <1>2, <1>3, <1>4 DEF Good

LEMMA StartSeekGood ==
  ASSUME NEW d, Good(d), NEW target \in Sectors, NEW end \in Positions,
         NEW repeat \in 0..MaxRepeat, NEW irq \in BOOLEAN, NEW keep \in BOOLEAN
  PROVE  Good(StartSeek(d, target, end, repeat, irq, keep))
  <1> DEFINE f == ForceCompletePendingSeekStartup(d)
             c == IF keep THEN f ELSE ClearPendingSec(f)
             s == [c EXCEPT !.PlayRepeatCounter = 0, !.repeated = FALSE,
                            !.CurPlayStart = target, !.CurPlayEnd = end,
                            !.CurPlayRepeat = repeat, !.PlayEndIRQType = irq]
  <1>1. Good(f)
    BY ForceCompleteGood
  <1>2. Good(c) /\ (~keep => c.SecPreBuf_In = 0)
    <2> HIDE DEF f
    <2> QED BY <1>1, ClearPendingGood
  <1>3. /\ s \in Drives /\ s.DrivePhase = c.DrivePhase /\ s.fad = c.fad
        /\ s.wanted = c.wanted /\ s.SecPreBuf_In = c.SecPreBuf_In
        /\ s.SecPreBuf = c.SecPreBuf /\ s.CurSector = c.CurSector
    <2> HIDE DEF c
    <2>1. c \in Drives
      BY <1>2 DEF Good
    <2>2. s \in Drives
      <3>1. 0 \in 0..14 /\ FALSE \in BOOLEAN
        OBVIOUS
      <3> QED BY <2>1, <3>1 DEF Drives
    <2>3. /\ s.DrivePhase = c.DrivePhase /\ s.fad = c.fad
          /\ s.wanted = c.wanted /\ s.SecPreBuf_In = c.SecPreBuf_In
          /\ s.SecPreBuf = c.SecPreBuf /\ s.CurSector = c.CurSector
      BY <2>1 DEF Drives
    <2> QED BY <2>2, <2>3
  <1>4. StartSeek(d, target, end, repeat, irq, keep)
        = IF ~disc THEN d
          ELSE IF ~keep THEN Restarted(s, "start1")
          ELSE IF s.DrivePhase = "play" THEN s
          ELSE Restarted(s, "start2")
    BY DEF StartSeek
  <1> HIDE DEF f, c, s
  <1>5. Good(s)
    BY <1>2, <1>3 DEF Good, Positioned
  <1>6. ~keep => Good(Restarted(s, "start1"))
    BY <1>2, <1>3, <1>5, RestartedGood DEF Good, Positioned, Phases
  <1>7. Good(Restarted(s, "start2"))
    BY <1>5, RestartedGood DEF Good, Positioned, Phases
  <1> QED BY <1>4, <1>5, <1>6, <1>7
LEMMA SeekToGood ==
  ASSUME NEW d, Good(d), NEW target \in Sectors
  PROVE  Good(SeekTo(d, target))
  BY StartSeekGood, PositionTypes DEF SeekTo
LEMMA PlayFromGood ==
  ASSUME NEW d, Good(d), NEW target \in Sectors
  PROVE  Good(PlayFrom(d, target))
  BY StartSeekGood, PositionTypes DEF PlayFrom
LEMMA PausingGood ==
  ASSUME NEW d, Good(d)
  PROVE  Good(Pausing(d))
  <1>1. d \in Drives /\ Positioned(d)
    BY DEF Good
  <1>2. Pausing(d) \in Drives
    BY <1>1, PositionTypes DEF Pausing, Drives
  <1>3. Positioned(Pausing(d))
    BY <1>1 DEF Pausing, Drives, Positioned
  <1> QED BY <1>2, <1>3 DEF Good
LEMMA ResumeGood ==
  ASSUME NEW d, Good(d), NEW free
  PROVE  Good(CheckBufPauseResume(d, free))
  <1>1. Good(Emptied(d)) /\ Emptied(d).SecPreBuf_In = 0
    BY EmptiedGood
  <1>2. Good(Restarted(Emptied(d), "start2"))
    BY <1>1, RestartedGood DEF Good, Positioned, Phases
  <1> QED BY <1>2 DEF CheckBufPauseResume
-----------------------------------------------------------------------------
(* The steps of the drive.                                                  *)
LEMMA InitInv == Init => IInv
  <1> SUFFICES ASSUME Init PROVE IInv
    OBVIOUS
  <1>1. drv \in Drives
    BY PositionTypes, FirstPosition, DriveAssumption DEF Init, Drives, Phases
  <1>2. Positioned(drv)
    BY DEF Init, Positioned
  <1>3. bufs \in Held
    BY DriveAssumption DEF Init, Held
  <1>4. AuthDiscType \in BOOLEAN
    BY DEF Init
  <1> QED BY <1>1, <1>2, <1>3, <1>4 DEF Init, IInv, Good

LEMMA EjectedInv ==
  ASSUME IInv, Ejected
  PROVE  Good(drv')
  <1>1. drv \in Drives /\ Positioned(drv)
    BY DEF IInv, Good
  <1>2. drv' = [drv EXCEPT !.DrivePhase = "ejected", !.fad = Nowhere]
    BY DEF Ejected
  <1>3. drv' \in Drives
    BY <1>1, <1>2, PositionTypes DEF Drives, Phases
  <1>4. Positioned(drv')
    BY <1>1, <1>2 DEF Drives, Positioned
  <1> QED BY <1>3, <1>4 DEF Good

(* A step of the drive to another phase.                                    *)
LEMMA MovedTo ==
  ASSUME NEW d, Good(d), NEW phase \in Phases \ {"play", "pause", "seek", "start1"}
  PROVE  Good([d EXCEPT !.DrivePhase = phase])
  <1>1. d \in Drives /\ Positioned(d)
    BY DEF Good
  <1>2. [d EXCEPT !.DrivePhase = phase] \in Drives
    BY <1>1 DEF Drives
  <1>3. Positioned([d EXCEPT !.DrivePhase = phase])
    BY <1>1 DEF Drives, Positioned
  <1> QED BY <1>2, <1>3 DEF Good
LEMMA MovingInv ==
  ASSUME IInv, Moving
  PROVE  Good(drv')
  <1>1. Good(drv) /\ drv \in Drives /\ Positioned(drv)
    BY DEF IInv, Good
  <1>2. CASE drv' = [drv EXCEPT !.DrivePhase = "startup"]
    BY <1>1, <1>2, MovedTo DEF Phases
  <1>3. CASE drv' = SeekTo(drv, 0)
    BY <1>1, <1>3, SeekToGood, PositionTypes
  <1>4. CASE drv' = ForceCompletePendingSeekStartup(drv)
    BY <1>1, <1>4, ForceCompleteGood
  <1>5. CASE /\ drv.DrivePhase = "start3"
             /\ drv' = [drv EXCEPT !.DrivePhase = "seek", !.CurSector = drv.fad]
    <2>1. drv' \in Drives
      BY <1>1, <1>5 DEF Drives, Phases
    <2>2. Positioned(drv')
      BY <1>1, <1>5 DEF Drives, Positioned
    <2> QED BY <2>1, <2>2 DEF Good
  <1>6. CASE /\ drv.DrivePhase = "seek" /\ drv.fad # Nowhere
             /\ drv' = [drv EXCEPT !.DrivePhase = "play"]
    <2>1. drv' \in Drives
      BY <1>1, <1>6 DEF Drives, Phases
    <2>2. Positioned(drv')
      BY <1>1, <1>6 DEF Drives, Positioned
    <2> QED BY <2>1, <2>2 DEF Good
  <1> QED BY <1>2, <1>3, <1>4, <1>5, <1>6 DEF Moving

LEMMA ReadAheadType ==
  ASSUME NEW d \in Drives
  PROVE  ReadAhead(d) \in Drives
  <1>1. 1 \in -1..1 /\ "check" \in {"any", "step", "check"}
    OBVIOUS
  <1>2. [d EXCEPT !.due = "check"] \in Drives
    BY <1>1 DEF Drives
  <1>3. d.CurSector \in Positions
    BY DEF Drives
  <1>4. [d EXCEPT !.SecPreBuf = d.CurSector, !.SecPreBuf_In = 1,
                  !.fad = d.CurSector, !.due = "check"] \in Drives
    BY <1>1, <1>3 DEF Drives
  <1> QED BY <1>2, <1>4 DEF ReadAhead
LEMMA ReadAheadGood ==
  ASSUME NEW d, Good(d), d.DrivePhase \in {"play", "pause"}
  PROVE  Good(ReadAhead(d))
  <1>1. d \in Drives /\ Positioned(d)
    BY DEF Good
  <1>2. ReadAhead(d) \in Drives
    BY <1>1, ReadAheadType
  <1>3. Positioned(ReadAhead(d))
    BY <1>1 DEF ReadAhead, Drives, Positioned
  <1> QED BY <1>2, <1>3 DEF Good
(* A sector delivered is followed by the next one; until that is read the   *)
(* pickup is a sector behind.                                               *)
LEMMA DeliveredGood ==
  ASSUME NEW d, Good(d), d.DrivePhase = "play"
  PROVE  Good(ReadAhead(Delivered(d)))
  <1>1. d \in Drives /\ Positioned(d)
    BY DEF Good
  <1> DEFINE e == Emptied(d)
             n == Delivered(d)
  <1>2. /\ e \in Drives /\ e.SecPreBuf_In = 0 /\ e.DrivePhase = "play"
        /\ e.CurSector = d.CurSector /\ e.wanted = d.wanted
    BY EmptiedGood DEF Good
  <1>3. n = [e EXCEPT !.CurSector = Min2(d.CurSector + 1, Beyond),
                      !.wanted = Min2(d.wanted + 1, Beyond)]
    BY DEF Delivered
  <1> HIDE DEF e, n
  <1>4. d.CurSector = d.wanted /\ d.wanted \in Positions
    BY <1>1 DEF Positioned, Drives
  <1>5. PICK next \in Positions : next = Min2(d.wanted + 1, Beyond)
    BY <1>4, NextPositions
  <1>6. n = [e EXCEPT !.CurSector = next, !.wanted = next]
    BY <1>3, <1>4, <1>5
  <1>7. n \in Drives
    BY <1>2, <1>6 DEF Drives
  <1>8. n.SecPreBuf_In = 0 /\ n.CurSector = next /\ n.wanted = next /\ n.DrivePhase = "play"
    BY <1>2, <1>6 DEF Drives
  <1>9. ReadAhead(n) = [n EXCEPT !.SecPreBuf = n.CurSector, !.SecPreBuf_In = 1,
                                 !.fad = n.CurSector, !.due = "check"]
    BY <1>8 DEF ReadAhead
  <1>10. ReadAhead(n) \in Drives
    BY <1>7, ReadAheadType
  <1>11. Positioned(ReadAhead(n))
    BY <1>7, <1>8, <1>9 DEF Drives, Positioned
  <1> QED BY <1>10, <1>11 DEF Good, n
LEMMA StoredHeld ==
  ASSUME bufs \in Held, Free > 0, NEW b \in Stored
  PROVE  b \in Held
  <1>1. /\ [bufs EXCEPT !.mine = bufs.mine + 1] \in Held
        /\ [bufs EXCEPT !.other = bufs.other + 1] \in Held
    BY DriveAssumption DEF Held, Free
  <1> QED BY <1>1 DEF Stored
LEMMA PlayInv ==
  ASSUME IInv, Play
  PROVE  Good(drv') /\ bufs' \in Held
  <1>1. CASE drv.SecPreBuf_In = 1 /\ Free > 0
    BY <1>1, DeliveredGood, StoredHeld DEF Play, IInv
  <1>2. CASE ~(drv.SecPreBuf_In = 1 /\ Free > 0)
    BY <1>2, ReadAheadGood DEF Play, IInv
  <1> QED BY <1>1, <1>2
LEMMA PausedInv ==
  ASSUME IInv, Paused
  PROVE  Good(drv')
  BY ReadAheadGood DEF Paused, IInv

(* The periodic check: what has been read ahead is dropped unless the drive *)
(* plays on, and is read again from where the pickup is.                    *)
LEMMA DueGood ==
  ASSUME NEW d, Good(d)
  PROVE  Good([d EXCEPT !.due = "step"])
  <1>1. d \in Drives /\ Positioned(d)
    BY DEF Good
  <1>2. [d EXCEPT !.due = "step"] \in Drives
    BY <1>1 DEF Drives
  <1>3. Positioned([d EXCEPT !.due = "step"])
    BY <1>1 DEF Drives, Positioned
  <1> QED BY <1>2, <1>3 DEF Good
LEMMA DroppedGood ==
  ASSUME NEW d, Good(d)
  PROVE  LET p == [Emptied(d) EXCEPT !.due = "step"]
         IN  /\ Good(p) /\ p.SecPreBuf_In = 0 /\ p.DrivePhase = d.DrivePhase
             /\ p.fad = d.fad /\ p.wanted = d.wanted /\ p.CurSector = d.CurSector
  <1> DEFINE e == Emptied(d)
             p == [e EXCEPT !.due = "step"]
  <1>1. /\ Good(e) /\ e.SecPreBuf_In = 0 /\ e.DrivePhase = d.DrivePhase
        /\ e.fad = d.fad /\ e.wanted = d.wanted /\ e.CurSector = d.CurSector
    BY EmptiedGood
  <1> HIDE DEF e
  <1>2. Good(p)
    BY <1>1, DueGood
  <1>3. /\ p.SecPreBuf_In = 0 /\ p.DrivePhase = d.DrivePhase
        /\ p.fad = d.fad /\ p.wanted = d.wanted /\ p.CurSector = d.CurSector
    BY <1>1 DEF Good, Drives
  <1> QED BY <1>2, <1>3 DEF e
LEMMA CheckPausedGood ==
  ASSUME NEW d, Good(d), d.DrivePhase = "pause"
  PROVE  Good(CheckPaused(d))
  <1> DEFINE p == [Emptied(d) EXCEPT !.due = "step"]
             irq == d.PlayEndIRQType /\ ~CheckEndMet(d)
             again == [p EXCEPT !.PauseCounter = -1, !.PlayEndIRQType = irq]
             later == [p EXCEPT !.PauseCounter = 1]
  <1>1. Good(p) /\ p.SecPreBuf_In = 0
    BY DroppedGood
  <1>2. d.PauseCounter \in {1, 0, -1} /\ irq \in BOOLEAN
    BY DEF Good, Drives
  <1>3. CheckPaused(d) = CASE d.PauseCounter = 1 -> again
                           [] d.PauseCounter = 0 -> later
                           [] d.PauseCounter = -1 ->
                                IF Resumes(d) THEN Restarted(p, "start2") ELSE p
    BY DEF CheckPaused
  <1>4. CheckPaused(d) \in {again, later, Restarted(p, "start2"), p}
    <2> HIDE DEF p, again, later
    <2> QED BY <1>2, <1>3
  <1> HIDE DEF p, irq
  <1>5. Good(again)
    <2>1. p \in Drives /\ -1 \in -1..1
      BY <1>1 DEF Good
    <2>2. again \in Drives
      BY <1>2, <2>1 DEF Drives
    <2>3. Positioned(again)
      BY <1>1, <2>1 DEF Drives, Positioned, Good
    <2> QED BY <2>2, <2>3 DEF Good
  <1>6. Good(later)
    <2>1. p \in Drives /\ 1 \in -1..1
      BY <1>1 DEF Good
    <2>2. later \in Drives
      BY <2>1 DEF Drives
    <2>3. Positioned(later)
      BY <1>1, <2>1 DEF Drives, Positioned, Good
    <2> QED BY <2>2, <2>3 DEF Good
  <1>7. Good(Restarted(p, "start2"))
    BY <1>1, RestartedGood DEF Good, Positioned, Phases
  <1> QED BY <1>1, <1>4, <1>5, <1>6, <1>7
LEMMA PausedNow ==
  ASSUME NEW p, Good(p), p.SecPreBuf_In = 0, p.fad = p.wanted,
         NEW sector, sector = p.wanted, NEW count \in {0, 1}
  PROVE  Good([p EXCEPT !.CurSector = sector, !.DrivePhase = "pause",
                        !.PauseCounter = count])
  <1> DEFINE q == [p EXCEPT !.CurSector = sector, !.DrivePhase = "pause",
                            !.PauseCounter = count]
  <1>1. p \in Drives /\ sector \in Positions /\ count \in -1..1 /\ "pause" \in Phases
    BY DEF Good, Drives, Phases
  <1>2. q \in Drives
    BY <1>1 DEF Drives
  <1>3. Positioned(q)
    BY <1>1 DEF Drives, Positioned
  <1> QED BY <1>2, <1>3 DEF Good
LEMMA CheckPlayingGood ==
  ASSUME NEW d, Good(d), d.DrivePhase = "play"
  PROVE  Good(CheckPlaying(d))
  <1> DEFINE p == [Emptied(d) EXCEPT !.due = "step"]
             count == IF d.PlayEndIRQType THEN 0 ELSE 1
             more == Min2(d.PlayRepeatCounter + 1, 14)
             ended == [p EXCEPT !.CurSector = d.fad, !.DrivePhase = "pause",
                                !.PauseCounter = count]
             repeat == [p EXCEPT !.PlayRepeatCounter = more, !.repeated = TRUE]
             full == [p EXCEPT !.DrivePhase = "pause", !.PauseCounter = 0]
             on == [d EXCEPT !.repeated = FALSE, !.due = "step"]
  <1>1. d \in Drives /\ Positioned(d)
    BY DEF Good
  <1>2. /\ Good(p) /\ p.SecPreBuf_In = 0 /\ p.fad = d.fad /\ p.wanted = d.wanted
        /\ p.CurSector = d.CurSector
    BY DroppedGood
  <1>3. d.fad = d.wanted /\ d.CurSector = d.wanted /\ count \in {0, 1}
    BY <1>1 DEF Positioned
  <1>4. more \in 0..14
    BY <1>1, NextPositions DEF Drives
  <1>5. CheckPlaying(d) \in {ended, SeekStart2(SeekStart1(repeat)), full, on}
    BY DEF CheckPlaying, BufferFullPause
  <1> HIDE DEF p, count, more
  <1>6. p \in Drives
    BY <1>2 DEF Good
  <1>7. Good(ended)
    BY <1>2, <1>3, PausedNow
  <1>8. Good(SeekStart2(SeekStart1(repeat)))
    <2>1. repeat \in Drives /\ repeat.SecPreBuf_In = 0
      BY <1>2, <1>4, <1>6 DEF Drives
    <2> HIDE DEF repeat
    <2> QED BY <2>1, SeekStart1Good, SeekStart2Good
  <1>9. Good(full)
    <2>1. "pause" \in Phases /\ 0 \in -1..1
      BY DEF Phases
    <2>2. full \in Drives
      BY <1>6, <2>1 DEF Drives
    <2>3. Positioned(full)
      BY <1>2, <1>3, <1>6 DEF Drives, Positioned
    <2> QED BY <2>2, <2>3 DEF Good
  <1>10. Good(on)
    <2>1. on \in Drives
      BY <1>1 DEF Drives
    <2>2. Positioned(on)
      BY <1>1 DEF Drives, Positioned
    <2> QED BY <2>1, <2>2 DEF Good
  <1> QED BY <1>5, <1>7, <1>8, <1>9, <1>10
LEMMA PeriodicInv ==
  ASSUME IInv, Periodic
  PROVE  Good(drv')
  BY DueGood, CheckPausedGood, CheckPlayingGood DEF Periodic, IInv
-----------------------------------------------------------------------------
(* The file system's turns and the commands.                                *)
LEMMA FewerHeld == bufs \in Held => Fewer \subseteq Held
  BY DriveAssumption DEF Held, Fewer
LEMMA TakenHeld ==
  ASSUME bufs \in Held
  PROVE  /\ [bufs EXCEPT !.mine = 0] \in Held
         /\ bufs.mine > 0 => [bufs EXCEPT !.mine = bufs.mine - 1] \in Held
         /\ [mine |-> 0, other |-> 0] \in Held
  BY DriveAssumption DEF Held
LEMMA FLS_AuthInv ==
  ASSUME IInv, FLS_Auth
  PROVE  Good(drv') /\ bufs' \in Held
  BY ResumeGood, SeekToGood, PausingGood, TakenHeld, PositionTypes
     DEF FLS_Auth, Grabbed, IInv
LEMMA FLS_ReadInv ==
  ASSUME IInv, FLS_Read
  PROVE  Good(drv') /\ bufs' \in Held /\ FLS' \in {"off", "auth", "volume", "dir"}
  <1>1. Good(Grabbed) /\ bufs \in Held /\ bufs.mine > 0
    BY ResumeGood DEF Grabbed, IInv, FLS_Read
  <1>2. CASE /\ UNCHANGED FLS /\ drv' = Grabbed
             /\ bufs' = [bufs EXCEPT !.mine = bufs.mine - 1]
    BY <1>1, <1>2, TakenHeld DEF IInv
  <1>3. CASE ReadDir(Grabbed)
    BY <1>1, <1>3, TakenHeld, PlayFromGood DEF ReadDir
  <1>4. CASE /\ FLS' = "off" /\ drv' = Pausing(Grabbed)
             /\ bufs' = [bufs EXCEPT !.mine = 0]
    BY <1>1, <1>4, TakenHeld, PausingGood
  <1> QED BY <1>2, <1>3, <1>4 DEF FLS_Read
LEMMA StopInv ==
  ASSUME IInv, Command_Stop
  PROVE  Good(drv')
  <1> DEFINE c == ClearPendingSec(drv)
             r == Restarted(c, "stopped")
  <1>1. Good(c) /\ c.SecPreBuf_In = 0
    BY ClearPendingGood DEF IInv
  <1> HIDE DEF c
  <1>2. Good(r) /\ r.DrivePhase = "stopped" /\ r.SecPreBuf_In = 0
    <2>1. Good(r)
      BY <1>1, RestartedGood DEF Good, Positioned, Phases
    <2> QED BY <1>1, <2>1 DEF Good, Drives, Restarted
  <1>3. drv' = [r EXCEPT !.fad = Nowhere]
    BY DEF Command_Stop, c
  <1> HIDE DEF r
  <1>4. r \in Drives
    BY <1>2 DEF Good
  <1>5. drv' \in Drives
    BY <1>3, <1>4, PositionTypes DEF Drives
  <1>6. Positioned(drv')
    BY <1>2, <1>3, <1>4 DEF Drives, Positioned
  <1> QED BY <1>5, <1>6 DEF Good
LEMMA PauseInv ==
  ASSUME IInv, Command_Pause
  PROVE  Good(drv')
  <1> DEFINE d == IF drv.DrivePhase = "stopped" THEN SeekTo(drv, 0) ELSE drv
             p == Pausing(d)
             held == IF d.SecPreBuf_In # 0 THEN -1 ELSE 0
  <1>1. Good(d)
    BY SeekToGood, PositionTypes DEF IInv
  <1> HIDE DEF d
  <1>2. Good(p) /\ p.SecPreBuf_In = d.SecPreBuf_In
    <2>1. Good(p)
      BY <1>1, PausingGood
    <2> QED BY <1>1, <2>1 DEF Good, Drives, Pausing
  <1>3. drv' = [p EXCEPT !.SecPreBuf_In = IF d.SecPreBuf_In # 0 THEN -1 ELSE 0]
    BY DEF Command_Pause, d
  <1>4. held \in -1..1 /\ (held # 0 => d.SecPreBuf_In # 0)
    OBVIOUS
  <1> HIDE DEF p
  <1>5. p \in Drives
    BY <1>2 DEF Good
  <1>6. drv' = [p EXCEPT !.SecPreBuf_In = held]
    BY <1>3
  <1> HIDE DEF held
  <1>7. drv' \in Drives
    BY <1>4, <1>5, <1>6 DEF Drives
  <1>8. Positioned(drv')
    BY <1>2, <1>4, <1>5, <1>6 DEF Drives, Positioned, Good
  <1> QED BY <1>7, <1>8 DEF Good

LEMMA SameHeldHeld == SameHeld \subseteq Held
  BY DEF SameHeld
LEMMA CommandInv ==
  ASSUME IInv, Command
  PROVE  /\ Good(drv') /\ bufs' \in Held
         /\ FLS' \in {"off", "auth", "volume", "dir"}
         /\ disc' = disc /\ AuthDiscType' \in BOOLEAN
  <1>1. Good(drv) /\ bufs \in Held
    BY DEF IInv
  <1>2. CASE Command_Play
    <2>1. PICK start \in Sectors, end \in Ends, repeat \in 0..MaxRepeat, keep \in BOOLEAN :
            drv' = StartSeek(drv, start, end, repeat, TRUE, keep)
      BY <1>2 DEF Command_Play
    <2>2. Good(drv')
      BY <1>1, <2>1, StartSeekGood, PositionTypes
    <2> QED BY <1>2, <2>2 DEF Command_Play, IInv
  <1>3. CASE Command_Seek
    BY <1>1, <1>3, SeekToGood DEF Command_Seek, IInv
  <1>4. CASE Command_Stop
    BY <1>4, StopInv DEF Command_Stop, IInv
  <1>5. CASE Command_Pause
    BY <1>5, PauseInv DEF Command_Pause, IInv
  <1>6. CASE Command_Init
    <2>1. Good(drv')
      BY <1>1, <1>6, ClearPendingGood, PausingGood DEF Command_Init
    <2> QED BY <1>1, <1>6, <2>1, TakenHeld DEF Command_Init, IInv
  <1>7. CASE Command_Free
    BY <1>1, <1>7, ResumeGood, FewerHeld DEF Command_Free, IInv
  <1>8. CASE Command_Use
    BY <1>1, <1>8 DEF Command_Use, IInv
  <1>9. CASE Command_ReadFile
    <2>1. PICK start \in Sectors, end \in Sectors :
            drv' = StartSeek(drv, start, end, 0, TRUE, FALSE)
      BY <1>9 DEF Command_ReadFile
    <2>2. Good(drv')
      BY <1>1, <2>1, StartSeekGood, PositionTypes
    <2> QED BY <1>1, <1>9, <2>2, FewerHeld DEF Command_ReadFile, IInv
  <1>10. CASE Command_AuthDevice
    BY <1>1, <1>10, PlayFromGood, PositionTypes, SameHeldHeld
       DEF Command_AuthDevice
  <1>11. CASE Command_ReadDir
    <2>1. CASE /\ FLS' = "volume" /\ bufs' \in SameHeld
               /\ drv' = PlayFrom(drv, VolumeDescriptor)
      BY <1>1, <1>11, <2>1, PlayFromGood, PositionTypes, SameHeldHeld
         DEF Command_ReadDir, IInv
    <2>2. ASSUME NEW b \in SameHeld, NEW s \in Sectors,
                 FLS' = "dir", bufs' = [b EXCEPT !.mine = 0], drv' = PlayFrom(drv, s)
          PROVE  Good(drv') /\ bufs' \in Held /\ FLS' = "dir"
      <3>1. [b EXCEPT !.mine = 0] \in Held
        BY SameHeldHeld, DriveAssumption DEF Held
      <3> QED BY <1>1, <2>2, <3>1, PlayFromGood
    <2> QED BY <1>11, <2>1, <2>2 DEF Command_ReadDir, IInv
  <1>12. CASE Command_AbortFile
    BY <1>1, <1>12, PausingGood DEF Command_AbortFile, IInv
  <1> QED BY <1>2, <1>3, <1>4, <1>5, <1>6, <1>7, <1>8, <1>9, <1>10, <1>11, <1>12
          DEF Command

LEMMA NextInv == IInv /\ [Next]_vars => IInv'
  <1> SUFFICES ASSUME IInv, [Next]_vars PROVE IInv'
    OBVIOUS
  <1>1. CASE Ejected
    BY <1>1, EjectedInv DEF Ejected, IInv
  <1>2. CASE Moving
    BY <1>2, MovingInv DEF Moving, IInv
  <1>3. CASE Play
    BY <1>3, PlayInv DEF Play, IInv
  <1>4. CASE Paused
    BY <1>4, PausedInv DEF Paused, IInv
  <1>5. CASE Periodic
    BY <1>5, PeriodicInv DEF Periodic, IInv
  <1>6. CASE FLS_Auth
    BY <1>6, FLS_AuthInv DEF FLS_Auth, IInv
  <1>7. CASE FLS_Read
    BY <1>7, FLS_ReadInv DEF FLS_Read, IInv
  <1>8. CASE Command
    BY <1>8, CommandInv DEF IInv
  <1>9. CASE OpenTray
    <2>1. Good(Restarted(drv, "ejected0"))
      BY RestartedGood DEF IInv, Good, Positioned, Phases
    <2> QED BY <1>9, <2>1 DEF OpenTray, IInv
  <1>10. CASE CloseTray
    BY <1>10 DEF CloseTray, IInv
  <1>11. CASE UNCHANGED vars
    BY <1>11 DEF vars, IInv
  <1> QED BY <1>1, <1>2, <1>3, <1>4, <1>5, <1>6, <1>7, <1>8, <1>9, <1>10, <1>11
          DEF Next, Drive, FileSystem

LEMMA Invariance == Spec => []IInv
  BY InitInv, NextInv, PTL DEF Spec
-----------------------------------------------------------------------------
(* The types, and that the file system and the partitions never hold more   *)
(* buffers than there are.                                                  *)
THEOREM TypeCorrect == Spec => []TypeOK
  <1>1. IInv => TypeOK
    BY DEF IInv, Good, TypeOK
  <1> QED BY <1>1, Invariance, PTL

(* Between two changes of position every sector is delivered, in order and  *)
(* once, whatever pauses and commands come in between.                      *)
THEOREM EverySectorDelivered == Spec => []NoSectorLost
  <1>1. IInv => NoSectorLost
    BY DEF IInv, Good, Positioned, NoSectorLost
  <1> QED BY <1>1, Invariance, PTL
===============================================================================
