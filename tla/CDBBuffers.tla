----------------------------- MODULE CDBBuffers -----------------------------
(***************************************************************************)
(* The CD block's sector buffers, ss/cdb.cpp: doubly linked lists through  *)
(* Buffers[], one of the free buffers and one for each partition, and the  *)
(* host's data transfer.  The drive and the file system (FLS_Run()) use    *)
(* them between the commands of the emulated program; when they do is      *)
(* CDBDrive's, here they may at any time.  A sector's data are left out:   *)
(* a filter with conditions may pass or refuse any sector.                 *)
(***************************************************************************)
EXTENDS CDBFilters, Sequences, SequencesExt

CONSTANTS NumBuffers,      \* 0xC8
          Resets           \* the sets of flags that COMMAND_RESET_SEL is
                           \* given
ASSUME BuffersAssumption == /\ NumBuffers \in 1..200
                            /\ Resets \subseteq SUBSET ResetFlags

Buffers == 0 .. NumBuffers - 1

VARIABLES pool,  \* Buffers[].Prev and .Next, Partitions[], FirstFreeBuf,
                 \* FreeBufferCount; ok: no assertion has failed
          DT     \* the host's transfer; BufList are the buffers that are the
                 \* transfer's own (Writing or NeedBufFree)
bufferVars == <<conn, pool, DT>>
-----------------------------------------------------------------------------
(* Lists of buffers.                                                        *)
ResetBuffers ==
  [Prev |-> [b \in Buffers |-> IF b = 0 THEN FF ELSE b - 1],
   Next |-> [b \in Buffers |-> IF b = NumBuffers - 1 THEN FF ELSE b + 1],
   FirstBuf |-> [p \in Selectors |-> FF],
   LastBuf |-> [p \in Selectors |-> FF],
   Count |-> [p \in Selectors |-> 0],
   FirstFreeBuf |-> 0, FreeBufferCount |-> NumBuffers, ok |-> TRUE]

(* A loop: from s on, Do(t, 1), Do(t, 2), ... to Do(t, n).                  *)
Looped(Do(_, _), s, n) ==
  LET at[i \in 0..n] == IF i = 0 THEN s ELSE Do(at[i - 1], i) IN at[n]

Loose(s, b) == s.Next[b] = FF /\ s.Prev[b] = FF
(* The list around b is closed, and b is on its own.                        *)
Spliced(s, b) ==
  [s EXCEPT
    !.Next = [x \in Buffers |-> IF x = b THEN FF
                                ELSE IF x = s.Prev[b] THEN s.Next[b]
                                ELSE s.Next[x]],
    !.Prev = [x \in Buffers |-> IF x = b THEN FF
                                ELSE IF x = s.Next[b] THEN s.Prev[b]
                                ELSE s.Prev[x]]]

(* It takes FirstFreeBuf; the caller has looked that there is one.          *)
Buffer_Allocate(s) ==
  LET b == s.FirstFreeBuf
  IN  IF b = FF THEN [s EXCEPT !.ok = FALSE]
      ELSE [Spliced(s, b) EXCEPT !.FirstFreeBuf = s.Next[b],
                                 !.FreeBufferCount = s.FreeBufferCount - 1,
                                 !.ok = s.ok /\ s.FreeBufferCount > 0
                                        /\ s.Prev[b] = FF]

Buffer_Free(s, b) ==
  LET head == s.FirstFreeBuf
  IN  [s EXCEPT
        !.ok = /\ s.ok /\ Loose(s, b)
               /\ (head = FF) = (s.FreeBufferCount = 0)
               /\ head # FF => s.Prev[head] = FF,
        !.Next = [s.Next EXCEPT ![b] = head],
        !.Prev = IF head = FF THEN s.Prev ELSE [s.Prev EXCEPT ![head] = b],
        !.FreeBufferCount = s.FreeBufferCount + 1,
        !.FirstFreeBuf = b]

(* Mutation: the new buffer does not point back.                            *)
Partition_LinkBuffer_OneWay(s, p, b) ==
  LET last == s.LastBuf[p]
  IN  [s EXCEPT
        !.ok = s.ok /\ Loose(s, b) /\ (s.FirstBuf[p] = FF) = (last = FF),
        !.FirstBuf[p] = IF last = FF THEN b ELSE s.FirstBuf[p],
        !.Next = IF last = FF THEN s.Next ELSE [s.Next EXCEPT ![last] = b],
        !.LastBuf[p] = b, !.Count[p] = s.Count[p] + 1]
Partition_LinkBuffer(s, p, b) ==
  LET last == s.LastBuf[p]
  IN  [s EXCEPT
        !.ok = s.ok /\ Loose(s, b) /\ (s.FirstBuf[p] = FF) = (last = FF),
        !.FirstBuf[p] = IF last = FF THEN b ELSE s.FirstBuf[p],
        !.Next = IF last = FF THEN s.Next ELSE [s.Next EXCEPT ![last] = b],
        !.Prev = [s.Prev EXCEPT ![b] = last],
        !.LastBuf[p] = b, !.Count[p] = s.Count[p] + 1]

Partition_UnlinkBuffer(s, p, b) ==
  [Spliced(s, b) EXCEPT
    !.ok = /\ s.ok /\ s.Count[p] > 0
           /\ (s.Prev[b] = FF) = (s.FirstBuf[p] = b)
           /\ (s.Next[b] = FF) = (s.LastBuf[p] = b),
    !.Count[p] = s.Count[p] - 1,
    !.FirstBuf[p] = IF s.Prev[b] = FF THEN s.Next[b] ELSE s.FirstBuf[p],
    !.LastBuf[p] = IF s.Next[b] = FF THEN s.Prev[b] ELSE s.LastBuf[p]]

(* The n buffers from b on, by their links.                                 *)
Following(s, b, n) ==
  LET at[i \in 1..n] == IF i = 1 THEN b
                        ELSE IF at[i - 1] = FF THEN FF ELSE s.Next[at[i - 1]]
  IN  [i \in 1..n |-> at[i]]
Contents(s, p) == Following(s, s.FirstBuf[p], s.Count[p])
(* Partition_GetBuffer() and the n - 1 buffers after it.                    *)
Partition_GetBuffers(s, p, offs, n) == SubSeq(Contents(s, p), offs + 1, offs + n)

Unlinked(s, p, list) ==
  Looped(LAMBDA t, i : Partition_UnlinkBuffer(t, p, list[i]), s, Len(list))
Freed(s, list) == Looped(LAMBDA t, i : Buffer_Free(t, list[i]), s, Len(list))
Discard(s, p, b) == Buffer_Free(Partition_UnlinkBuffer(s, p, b), b)
Deleted(s, p, list) ==
  Looped(LAMBDA t, i : Discard(t, p, list[i]), s, Len(list))
Partition_Clear(s, p) == Deleted(s, p, Contents(s, p))
AllCleared(s) == Looped(LAMBDA t, i : Partition_Clear(t, i - 1), s, NumSelectors)
-----------------------------------------------------------------------------
(* FilterBuf().  Tested(c, f) are the filters a sector is put to one after  *)
(* the other as long as it is refused; FF in the end: nobody wants it.      *)
Tested(c, f) ==
  LET at[i \in 0..NumSelectors] ==
        IF i = 0 THEN f
        ELSE IF at[i - 1] = FF THEN FF ELSE c.FalseConn[at[i - 1]]
  IN  at
Destinations(c, f) ==
  LET at == Tested(c, f)
      reached == {i \in 0..NumSelectors :
                    \A j \in 0 .. i - 1 : at[j] # FF /\ c.selective[at[j]]}
  IN  {IF at[i] = FF \/ i = NumSelectors THEN FF ELSE c.TrueConn[at[i]] :
         i \in reached}
FilterBuf(s, b, to) ==
  IF to = FF THEN Buffer_Free(s, b) ELSE Partition_LinkBuffer(s, to, b)

(* Buffers of a list, each to a destination that its sector may have; those *)
(* of a partition; new ones.                                                *)
FilteredTo(s, list, to) ==
  Looped(LAMBDA t, i : FilterBuf(t, list[i], to[i]), s, Len(list))
Moved(s, p, list, to) ==
  Looped(LAMBDA t, i : FilterBuf(Partition_UnlinkBuffer(t, p, list[i]),
                                 list[i], to[i]), s, Len(list))
Copied(s, n, to) ==
  Looped(LAMBDA t, i : FilterBuf(Buffer_Allocate(t), t.FirstFreeBuf, to[i]),
         s, n)
-----------------------------------------------------------------------------

NoTransfer == [Active |-> FALSE, Writing |-> FALSE, FNum |-> 0, BufList |-> <<>>]
Transfer(list) == [NoTransfer EXCEPT !.Active = TRUE, !.BufList = list]

CDBInit == conn = SWReset_Conn /\ pool = ResetBuffers /\ DT = NoTransfer

(* A sector of the drive, in DRIVEPHASE_PLAY.                               *)
StoreSector ==
  /\ pool.FreeBufferCount > 0
  /\ \E to \in IF conn.CDDevConn = FF THEN {FF}
               ELSE Destinations(conn, conn.CDDevConn) :
       pool' = FilterBuf(Buffer_Allocate(pool), pool.FirstFreeBuf, to)
  /\ UNCHANGED <<conn, DT>>

(* FLS_Run(): its partition is connected to the drive, sectors are taken    *)
(* out of it (it is also cleared, and the drive disconnected at the end of  *)
(* an authentication, as by commands).  COMMAND_READ_FILE clears and        *)
(* connects a partition too.                                                *)
FLS_Connect ==
  /\ \E f \in Selectors, selects \in BOOLEAN : conn' = Routed(conn, f, selects)
  /\ UNCHANGED <<pool, DT>>
FLS_Grab ==
  /\ \E p \in Selectors : /\ pool.Count[p] > 0
                          /\ pool' = Discard(pool, p, pool.FirstBuf[p])
  /\ UNCHANGED <<conn, DT>>
ReadFile ==
  /\ \E p \in Selectors : /\ pool' = Partition_Clear(pool, p)
                          /\ conn' = Routed(conn, p, TRUE)
  /\ UNCHANGED DT
-----------------------------------------------------------------------------
(* Commands that change the connections.                                    *)
SetConnections ==
  /\ SetDevice \/ SetFalse \/ SetTrue \/ SetMode
  /\ UNCHANGED <<pool, DT>>

(* COMMAND_RESET_SEL for one partition; for all of them, by flags.          *)
ResetPartition(p) ==
  /\ pool' = Partition_Clear(pool, p)
  /\ UNCHANGED <<conn, DT>>
ResetSelectors(flags) ==
  /\ pool' = IF "partitions" \in flags
             THEN AllCleared(pool) ELSE pool
  /\ conn' = ResetSel(conn, flags)
  /\ UNCHANGED DT
(* SWReset(), by COMMAND_INIT or when the CD block is switched on.          *)
SoftReset == conn' = SWReset_Conn /\ pool' = ResetBuffers /\ DT' = NoTransfer

InPartition(p, offs, n) == offs \in 0 .. pool.Count[p] - 1 /\ offs + n <= pool.Count[p]

GetSectorData(p, offs, n) ==
  /\ ~DT.Active /\ InPartition(p, offs, n)
  /\ DT' = Transfer(<<>>)
  /\ UNCHANGED <<conn, pool>>
(* Mutation: whether a transfer is going on is not asked.                   *)
GetThenDeleteSectorData_Busy(p, offs, n) ==
  /\ InPartition(p, offs, n)
  /\ LET list == Partition_GetBuffers(pool, p, offs, n)
     IN  /\ DT' = Transfer(list)
         /\ pool' = Unlinked(pool, p, list)
  /\ UNCHANGED conn
GetThenDeleteSectorData(p, offs, n) ==
  /\ ~DT.Active /\ InPartition(p, offs, n)
  /\ LET list == Partition_GetBuffers(pool, p, offs, n)
     IN  /\ DT' = Transfer(list)
         /\ pool' = Unlinked(pool, p, list)
  /\ UNCHANGED conn
DeleteSectorData(p, offs, n) ==
  /\ InPartition(p, offs, n)
  /\ pool' = Deleted(pool, p, Partition_GetBuffers(pool, p, offs, n))
  /\ UNCHANGED <<conn, DT>>

(* COMMAND_GET_TOC, GET_SUBCODE, GET_FINFO: no sectors.                     *)
GetOtherData ==
  /\ ~DT.Active /\ DT' = Transfer(<<>>)
  /\ UNCHANGED <<conn, pool>>

Allocated(s, n) == Looped(LAMBDA t, i : Buffer_Allocate(t), s, n)
(* The buffers that n calls of Buffer_Allocate() return.                    *)
AllocatedList(n) == Following(pool, pool.FirstFreeBuf, n)

PutSectorData(f, n) ==
  /\ ~DT.Active /\ n <= pool.FreeBufferCount
  /\ conn' = Filter_DisconnectInput(conn, f)
  /\ pool' = Allocated(pool, n)
  /\ DT' = [Active |-> TRUE, Writing |-> TRUE,
            FNum |-> f, BufList |-> AllocatedList(n)]

(* Mutation: the transfer stays active.                                     *)
EndDataTransfer_Again ==
  /\ DT.Active /\ UNCHANGED <<conn, DT>>
  /\ pool' = Freed(pool, DT.BufList)
EndDataTransfer ==
  /\ DT.Active /\ DT' = NoTransfer
  /\ IF DT.Writing
     THEN /\ conn' = Filter_DisconnectInput(conn, DT.FNum)
          /\ \E to \in [DOMAIN DT.BufList -> Destinations(conn', DT.FNum)] :
               pool' = FilteredTo(pool, DT.BufList, to)
     ELSE /\ pool' = Freed(pool, DT.BufList)
          /\ UNCHANGED conn

(* Sectors of a partition, or copies of them, are put to a filter as if     *)
(* they came from the drive; copies one by one.                             *)
CopySectorData(f, p, offs, n) ==
  /\ ~DT.Active /\ InPartition(p, offs, n) /\ n <= pool.FreeBufferCount
  /\ conn' = Filter_DisconnectInput(conn, f)
  /\ \E to \in [1..n -> Destinations(conn', f)] :
       pool' = Copied(pool, n, to)
  /\ UNCHANGED DT
MoveSectorData(f, p, offs, n) ==
  /\ ~DT.Active /\ InPartition(p, offs, n)
  /\ conn' = Filter_DisconnectInput(conn, f)
  /\ LET list == Partition_GetBuffers(pool, p, offs, n)
     IN  \E to \in [1..n -> Destinations(conn', f)] :
           pool' = Moved(pool, p, list, to)
  /\ UNCHANGED DT
-----------------------------------------------------------------------------
CDBNext ==
  \/ StoreSector \/ FLS_Connect \/ FLS_Grab \/ ReadFile
  \/ SetConnections \/ SoftReset \/ GetOtherData \/ EndDataTransfer
  \/ \E flags \in Resets : ResetSelectors(flags)
  \/ \E p \in Selectors : ResetPartition(p)
  \/ \E p \in Selectors, n \in 1..NumBuffers :
       \/ PutSectorData(p, n)
       \/ \E offs \in 0 .. NumBuffers - 1 :
            \/ GetSectorData(p, offs, n) \/ GetThenDeleteSectorData(p, offs, n)
            \/ DeleteSectorData(p, offs, n)
            \/ \E f \in Selectors : \/ CopySectorData(f, p, offs, n)
                                    \/ MoveSectorData(f, p, offs, n)
CDBSpec == CDBInit /\ [][CDBNext]_bufferVars
-----------------------------------------------------------------------------
Links == Buffers \cup {FF}
PoolTypeOK ==
  /\ ConnTypeOK
  /\ pool \in [Prev : [Buffers -> Links], Next : [Buffers -> Links],
               FirstBuf : [Selectors -> Links], LastBuf : [Selectors -> Links],
               Count : [Selectors -> 0..NumBuffers], FirstFreeBuf : Links,
               FreeBufferCount : 0..NumBuffers, ok : BOOLEAN]
  /\ DT.Active \in BOOLEAN /\ DT.Writing \in BOOLEAN
  /\ DT.FNum \in Selectors
  /\ DT.BufList \in BoundedSeq(Buffers, NumBuffers)

(* No assertion of cdb.cpp fails, and every buffer is in exactly one place: *)
(* the free list, one partition, or the host's transfer, whose sectors      *)
(* nobody else can reach until it ends.  The counts are those of the lists, *)
(* whose links agree in both directions.                                    *)
FreeList == Following(pool, pool.FirstFreeBuf, pool.FreeBufferCount)
Places == <<FreeList, DT.BufList>> \o [i \in 1..NumSelectors |-> Contents(pool, i - 1)]
Linked(l) ==
  /\ \A i \in 1 .. Len(l) - 1 : pool.Next[l[i]] = l[i + 1] /\ pool.Prev[l[i + 1]] = l[i]
  /\ l # <<>> => pool.Prev[l[1]] = FF /\ pool.Next[l[Len(l)]] = FF
BuffersConserved ==
  /\ pool.ok
  /\ \A b \in Buffers :
       Cardinality({i \in DOMAIN Places : b \in ToSet(Places[i])}) = 1
  /\ \A l \in ToSet(Places) : ToSet(l) \subseteq Buffers /\ IsInjective(l)
  /\ Linked(FreeList) /\ \A p \in Selectors : Linked(Contents(pool, p))
  /\ \A b \in ToSet(DT.BufList) : Loose(pool, b)

(* The lists are queues, and do what SectorPool says.                       *)
SP == INSTANCE SectorPool WITH
        Partitions <- Selectors, Discarded <- FF,
        queue <- [p \in Selectors |-> Contents(pool, p)], host <- DT.BufList
ImplementsPool == SP!Spec
=============================================================================
