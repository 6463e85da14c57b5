------------------------ MODULE CDInterface_MT_proofs ------------------------
(***************************************************************************)
(* Safety of the multi-threaded disc reader, for every disc, every ring    *)
(* size and every read-ahead distance that ReadAheadAssumption allows.     *)
(***************************************************************************)
EXTENDS CDInterface_MT, SequenceTheorems, TLAPS

(* The slot written k sectors ago.                                          *)
Back(k) == IF k <= SBWritePos THEN SBWritePos - k ELSE SBWritePos - k + SBSize

(* WindowInRing with a witness: the window's sectors are the ones stored    *)
(* last, in order, right behind the write position.                         *)
RingInv ==
  \A k \in 1 .. SBSize :
    k <= ra_lba - last_read_lba =>
      SectorBuffers[Back(k)].valid /\ SectorBuffers[Back(k)].lba = ra_lba - k

Bound == ra_lba + ra_count <= last_read_lba + 1 + max_ra /\ ra_count <= speedmult_ra

(* The read thread never lags behind the last request once it is done with  *)
(* an iteration of its loop.                                                *)
ProgressInv ==
  /\ rt \in {"none", "start"} => last_read_lba = NoRead
  /\ rt \in {"loop", "msgwait"} /\ last_read_lba <= LBA_Read_Maximum =>
       last_read_lba < ra_lba
  /\ rt = "store" =>
       /\ last_read_lba <= LBA_Read_Maximum => last_read_lba <= ra_lba
       /\ tmpbuf.valid /\ tmpbuf.lba = ra_lba /\ ra_count > 0

(* Which states of the two threads go together.                             *)
Requesting ==
  \A i \in 1 .. Len(ReadThreadQueue) : ReadThreadQueue[i].message = "READ_SECTOR"

PhaseInv ==
  /\ emu = "construct" => rt = "none" /\ EmuThreadQueue = <<>>
  /\ emu \in {"construct", "status", "statuswait", "idle", "scan", "sectorwait"} =>
       Running /\ Requesting
  /\ emu \in {"construct", "status", "statuswait"} =>
       ReadThreadQueue = <<>> /\ ra_count = 0
  /\ emu \in {"status", "statuswait"} =>
       \/ rt = "start" /\ EmuThreadQueue = <<>>
       \/ rt \in {"loop", "msgwait"} /\ EmuThreadQueue = <<"DONE">>
       \/ rt = "exited" /\ EmuThreadQueue = <<"FATAL_ERROR">>
  /\ emu \in {"idle", "scan", "sectorwait"} => rt \in {"loop", "msgwait", "store"}
  /\ emu \in {"scan", "sectorwait"} => req \in LBAs
  /\ emu \in {"join", "abandon", "closed", "failed"} => rt \notin {"none", "start"}

IInv ==
  /\ TypeOK /\ RingInv /\ Bound /\ ProgressInv /\ PhaseInv
  /\ RequestPending /\ NoLostWakeup
-----------------------------------------------------------------------------
USE LBAAssumption, DiscAssumption, HintsAssumption, ReadAheadAssumption

(* (SBWritePos + 1) % SBSize wraps to 0 and is a slot again.                *)
LEMMA NextWritePosWraps ==
  ASSUME SBWritePos \in Slots
  PROVE  /\ NextWritePos = IF SBWritePos + 1 = SBSize THEN 0 ELSE SBWritePos + 1
         /\ NextWritePos \in Slots
  BY DEF NextWritePos, Slots

LEMMA SectorTyped ==
  ASSUME NEW lba \in Int, NEW error \in BOOLEAN
  PROVE  Sector(lba, error) \in SectorType
  BY DEF Sector, SectorType, Contents, Zeroed, DiscData

LEMMA AnswerTyped ==
  ASSUME NEW lba \in Int, NEW ok \in BOOLEAN, NEW data \in SUBSET Int
  PROVE  Answer(lba, ok, data) \in Answers
  BY DEF Answer, Answers

LEMMA AnswersTyped ==
  /\ NoAnswer \in Answers
  /\ \A lba \in Int, ok \in BOOLEAN :
       /\ Answer(lba, ok, Zeroed) \in Answers
       /\ Answer(lba, ok, DiscData(lba)) \in Answers
  BY DEF NoAnswer, NoLBA, Zeroed, DiscData, Answer, Answers

LEMMA InitTypeOK == Init => TypeOK
  BY AnswersTyped DEF Init, TypeOK, EmptySector, SectorType, Slots, NoRead,
         NoLBA, Zeroed

(* Every value of Schedule() has the type ReadSector() expects.             *)
LEMMA ScheduleTyped ==
  ASSUME TypeOK, NEW lba \in Int
  PROVE  Schedule(lba).lba \in Int /\ Schedule(lba).count \in Int
  BY DEF TypeOK, Schedule, SequentialCount, SmallerOf, how_far_ahead

-----------------------------------------------------------------------------
(* A message posted keeps the queue a queue of messages.                    *)
LEMMA PostTyped ==
  ASSUME TypeOK, NEW msg \in Messages,
         WriteToReadThread(msg)
  PROVE  /\ ReadThreadQueue' \in Seq(Messages)
         /\ rt' \in {"none", "start", "loop", "msgwait", "store", "exited"}
  BY DEF TypeOK, WriteToReadThread, Signaled

LEMMA DieTyped == DieMsg \in Messages
  BY DEF DieMsg, Messages

(* A nonempty queue yields a message and leaves a queue.                    *)
LEMMA TakeTyped ==
  ASSUME NEW S, NEW q \in Seq(S), q # <<>>
  PROVE  Head(q) \in S /\ Tail(q) \in Seq(S)
  OBVIOUS

LEMMA BeginTyped ==
  ASSUME TypeOK, NEW lba \in Int, BeginRead(lba)
  PROVE  /\ emu' = "scan" /\ req' \in LBAs /\ answer' \in Answers
         /\ ReadThreadQueue' \in Seq(Messages)
         /\ rt' \in {"none", "start", "loop", "msgwait", "store", "exited"}
<1>1. ReadSectorMsg(lba) \in Messages
  BY DEF ReadSectorMsg, Messages
<1>2. QED
  BY <1>1, PostTyped, AnswersTyped DEF BeginRead

(* The outcome of ReadSector() has the right type.                          *)
LEMMA ReadSectorTyped ==
  ASSUME TypeOK, NEW lba \in Int, NEW count \in Int, ReadSector(lba, count)
  PROVE  /\ ra_lba' \in Int /\ ra_count' \in Nat
         /\ tmpbuf' \in SectorType
         /\ rt' \in {"loop", "store", "exited"}
<1>1. \A error \in ReadErrors(lba) : error \in BOOLEAN
  BY DEF ReadErrors
<1>2. QED
  BY <1>1, SectorTyped DEF TypeOK, ReadSector

(* TypeOK is preserved; ra_count stays natural because a sector is stored   *)
(* only while ra_count > 0.                                                 *)
LEMMA NextTypeOK ==
  ASSUME TypeOK, ProgressInv, [Next]_vars
  PROVE  TypeOK'
<1> USE DEF TypeOK
<1>1. ASSUME NEW lba \in Requests, ReadRawSector(lba)
      PROVE  TypeOK'
  <2>1. lba \in Int
    OBVIOUS
  <2>2. CASE OutOfBounds(lba)
    BY <1>1, <2>1, <2>2, AnswersTyped
       DEF ReadRawSector, OutOfBounds, raVars, ringVars
  <2>3. CASE BeginRead(lba)
    BY <1>1, <2>1, <2>3, BeginTyped DEF ReadRawSector, raVars, ringVars
  <2>4. QED
    BY <1>1, <2>2, <2>3 DEF ReadRawSector
<1>2. ASSUME NEW lba \in Requests, NEW hint \in BOOLEAN,
             ReadRawSectorPWOnly(lba, hint)
      PROVE  TypeOK'
  <2>1. lba \in Int
    OBVIOUS
  <2>2. CASE OutOfBounds(lba)
    BY <1>2, <2>1, <2>2, AnswersTyped
       DEF ReadRawSectorPWOnly, OutOfBounds, raVars, ringVars
  <2>3. CASE BeginRead(lba)
    BY <1>2, <2>1, <2>3, BeginTyped DEF ReadRawSectorPWOnly, raVars, ringVars
  <2>4. CASE /\ answer' = Answer(lba, TRUE, DiscData(lba))
             /\ \/ WriteToReadThread(ReadSectorMsg(lba))
                \/ UNCHANGED <<rt, ReadThreadQueue>>
             /\ UNCHANGED <<emu, req>>
    <3>1. ReadSectorMsg(lba) \in Messages
      BY <2>1 DEF ReadSectorMsg, Messages
    <3>2. /\ ReadThreadQueue' \in Seq(Messages)
          /\ rt' \in {"none", "start", "loop", "msgwait", "store", "exited"}
      BY <2>4, <3>1, PostTyped
    <3>3. answer' \in Answers
      BY <2>1, <2>4, AnswersTyped
    <3>4. QED
      BY <1>2, <2>4, <3>2, <3>3 DEF ReadRawSectorPWOnly, raVars, ringVars
  <2>5. QED
    BY <1>2, <2>2, <2>3, <2>4 DEF ReadRawSectorPWOnly
<1>3. ASSUME NEW lba \in Hints, HintReadSector(lba)
      PROVE  TypeOK'
  <2>1. ReadSectorMsg(lba) \in Messages
    BY DEF ReadSectorMsg, Messages
  <2>2. QED
    BY <1>3, <2>1, PostTyped DEF HintReadSector, emuVars, raVars, ringVars
<1>4. CASE Destroy
  BY <1>4, PostTyped, DieTyped DEF Destroy, raVars, ringVars
<1>5. CASE CreateThread \/ WaitStatus \/ ThreadWait \/ WaitSector
  BY <1>5 DEF CreateThread, WaitStatus, ThreadWait, WaitSector, raVars, ringVars
<1>6. CASE StatusDone
  BY <1>6, TakeTyped DEF StatusDone, raVars, ringVars
<1>7. CASE ConstructFails
  <2>1. EmuThreadQueue' \in Seq(Statuses)
    BY <1>7, TakeTyped DEF ConstructFails
  <2>2. QED
    BY <1>7, <2>1, PostTyped, DieTyped DEF ConstructFails, raVars, ringVars
<1>8. CASE FoundSector
  <2>1. PICK i \in Slots :
          answer' = Answer(req, ~SectorBuffers[i].error, SectorBuffers[i].data)
    BY <1>8 DEF FoundSector, Holders
  <2>2. answer' \in Answers
    <3>1. SectorBuffers[i] \in SectorType /\ req \in Int
      BY DEF LBAs, NoLBA
    <3>2. SectorBuffers[i].data \in SUBSET Int
      BY <3>1 DEF SectorType
    <3>3. (~SectorBuffers[i].error) \in BOOLEAN
      OBVIOUS
    <3>4. QED
      BY <2>1, <3>1, <3>2, <3>3, AnswerTyped
  <2>3. QED
    BY <1>8, <2>2 DEF FoundSector, raVars, ringVars
<1>9. CASE ReadTOC
  <2>1. PICK status \in Statuses : EmuThreadQueue' = Append(EmuThreadQueue, status)
    BY <1>9 DEF ReadTOC, WriteToEmuThread, Statuses
  <2>2. EmuThreadQueue' \in Seq(Statuses)
    BY <2>1
  <2>3. QED
    BY <1>9, <2>2 DEF ReadTOC, WriteToEmuThread, Signaled, raVars, ringVars
<1>10. CASE WaitMessage
  BY <1>10 DEF WaitMessage, emuVars, raVars, ringVars
<1>11. CASE HandleReadSector
  <2> DEFINE lba == Head(ReadThreadQueue).lba
  <2>0. Head(ReadThreadQueue) \in Messages /\ Tail(ReadThreadQueue) \in Seq(Messages)
    BY <1>11, TakeTyped DEF HandleReadSector
  <2>1. lba \in Int /\ Running \in BOOLEAN
    BY <2>0 DEF Messages
  <2>2. ReadSector(Schedule(lba).lba, Schedule(lba).count)
    BY <1>11 DEF HandleReadSector
  <2>3. /\ ra_lba' \in Int /\ ra_count' \in Nat /\ tmpbuf' \in SectorType
        /\ rt' \in {"loop", "store", "exited"}
    <3> HIDE DEF lba
    <3>1. Schedule(lba).lba \in Int /\ Schedule(lba).count \in Int
      BY <2>1, ScheduleTyped
    <3>2. QED
      BY <2>1, <2>2, <3>1, ReadSectorTyped
  <2>4. QED
    BY <1>11, <2>0, <2>1, <2>3 DEF HandleReadSector, emuVars, ringVars
<1>12. CASE HandleDie
  <2>1. ReadSector(ra_lba, ra_count)
    BY <1>12 DEF HandleDie
  <2>2. /\ ra_lba' \in Int /\ ra_count' \in Nat /\ tmpbuf' \in SectorType
        /\ rt' \in {"loop", "store", "exited"}
    BY <2>1, ReadSectorTyped
  <2>3. QED
    <3>1. Tail(ReadThreadQueue) \in Seq(Messages)
      BY <1>12, TakeTyped DEF HandleDie
    <3>2. QED
      BY <1>12, <2>2, <3>1 DEF HandleDie, emuVars, ringVars
<1>13. CASE ReadAhead
  <2>1. ReadSector(ra_lba, ra_count)
    BY <1>13 DEF ReadAhead
  <2>2. /\ ra_lba' \in Int /\ ra_count' \in Nat /\ tmpbuf' \in SectorType
        /\ rt' \in {"loop", "store", "exited"}
    BY <2>1, ReadSectorTyped
  <2>3. QED
    BY <1>13, <2>2 DEF ReadAhead, emuVars, ringVars
<1>14. CASE StoreSector
  BY <1>14, NextWritePosWraps DEF StoreSector, ProgressInv, Signaled
<1>15. CASE SpuriousWakeup
  BY <1>15 DEF SpuriousWakeup, emuVars, raVars, ringVars
<1>16. CASE Gone \/ UNCHANGED vars
  BY <1>16 DEF Gone, vars, emuVars, raVars, ringVars
<1>17. QED
  BY <1>1, <1>2, <1>3, <1>4, <1>5, <1>6, <1>7, <1>8, <1>9, <1>10, <1>11,
     <1>12, <1>13, <1>14, <1>15, <1>16
     DEF Next, EmuCall, EmuStep, ReadThread
-----------------------------------------------------------------------------
(* Only the read thread moves the read-ahead window and the ring.           *)
LEMMA OthersKeepRing ==
  ASSUME EmuCall \/ EmuStep \/ SpuriousWakeup \/ Gone \/ UNCHANGED vars
         \/ ReadTOC \/ WaitMessage
  PROVE  UNCHANGED <<ra_lba, ra_count, last_read_lba, tmpbuf, SBWritePos,
                     SectorBuffers, Running>>
  BY DEF EmuCall, EmuStep, SpuriousWakeup, Gone, vars, raVars, ringVars,
         ReadRawSector, ReadRawSectorPWOnly, HintReadSector, Destroy,
         CreateThread, WaitStatus, StatusDone, ConstructFails, FoundSector,
         WaitSector, ThreadWait, ReadTOC, WaitMessage

(* What a request does to the window: it stays or shrinks, or is emptied by *)
(* a seek; it stays bounded; and it is about to hold the sector requested.  *)
LEMMA ScheduleWindow ==
  ASSUME TypeOK, Bound, ProgressInv, rt = "loop", NEW lba \in Int
  PROVE  LET next == Schedule(lba)
         IN  /\ next.lba \in Int /\ next.count \in Nat
             /\ next.lba + next.count <= lba + 1 + max_ra
             /\ next.count <= speedmult_ra
             /\ \/ next.lba = ra_lba /\ ra_lba - lba <= ra_lba - last_read_lba
                \/ next.lba - lba <= 0
             /\ lba <= LBA_Read_Maximum =>
                  lba < next.lba \/ (lba = next.lba /\ next.count > 0)
<1>1. how_far_ahead(lba) \in Int /\ how_far_ahead(lba) = ra_lba - lba
  BY DEF TypeOK, how_far_ahead
<1>2. CASE lba = last_read_lba + 1
  <2>1. how_far_ahead(lba) <= max_ra
    BY <1>1, <1>2 DEF TypeOK, Bound
  <2>2. SequentialCount(lba) = SmallerOf(speedmult_ra, 1 + max_ra - how_far_ahead(lba))
    BY <2>1 DEF SequentialCount
  <2>3. /\ SequentialCount(lba) \in Nat /\ SequentialCount(lba) > 0
        /\ SequentialCount(lba) <= speedmult_ra
        /\ SequentialCount(lba) <= 1 + max_ra - (ra_lba - lba)
    BY <1>1, <2>1, <2>2 DEF SmallerOf
  <2>4. Schedule(lba) = [lba |-> ra_lba, count |-> SequentialCount(lba)]
    BY <1>2 DEF Schedule
  <2>5. lba <= LBA_Read_Maximum => lba <= ra_lba
    BY <1>2 DEF TypeOK, ProgressInv
  <2>6. QED
    BY <1>2, <2>3, <2>4, <2>5 DEF TypeOK
<1>3. CASE lba = last_read_lba
  <2>1. last_read_lba # last_read_lba + 1
    BY DEF TypeOK
  <2>2. Schedule(lba) = [lba |-> ra_lba, count |-> ra_count]
    BY <1>3, <2>1 DEF Schedule
  <2>3. lba <= LBA_Read_Maximum => lba < ra_lba
    BY <1>3 DEF ProgressInv
  <2>4. /\ ra_lba \in Int /\ ra_count \in Nat /\ ra_count <= speedmult_ra
        /\ last_read_lba \in Int
        /\ ra_lba + ra_count <= lba + 1 + max_ra
        /\ ra_lba - lba <= ra_lba - last_read_lba
    BY <1>3 DEF TypeOK, Bound
  <2>5. QED
    BY <2>2, <2>3, <2>4
<1>4. CASE lba # last_read_lba /\ lba # last_read_lba + 1
  BY <1>4 DEF Schedule, TypeOK, Bound
<1>5. QED
  BY <1>2, <1>3, <1>4

(* What one message does, in the terms of ScheduleWindow.                   *)
LEMMA HandleWindow ==
  ASSUME TypeOK, Bound, ProgressInv, HandleReadSector
  PROVE  /\ last_read_lba' \in Int
         /\ \/ ra_lba' = ra_lba /\ ra_lba' - last_read_lba' <= ra_lba - last_read_lba
            \/ ra_lba' - last_read_lba' <= 0
         /\ ra_lba' + ra_count' <= last_read_lba' + 1 + max_ra
         /\ ra_count' <= speedmult_ra
         /\ \/ rt' = "store" /\ ra_count' > 0
               /\ (last_read_lba' <= LBA_Read_Maximum => last_read_lba' <= ra_lba')
               /\ tmpbuf'.valid /\ tmpbuf'.lba = ra_lba'
            \/ rt' \in {"loop", "exited"} /\ ra_count' = 0
               /\ (last_read_lba' <= LBA_Read_Maximum => last_read_lba' < ra_lba')
<1> DEFINE lba == Head(ReadThreadQueue).lba
           next == Schedule(lba)
<1>1. lba \in Int /\ rt = "loop"
  <2>1. Head(ReadThreadQueue) \in Messages
    BY TakeTyped DEF HandleReadSector, TypeOK
  <2>2. QED
    BY <2>1 DEF HandleReadSector, Messages
<1>2. last_read_lba' = lba /\ ReadSector(next.lba, next.count)
  BY DEF HandleReadSector
<1> HIDE DEF lba
<1>3. /\ next.lba \in Int /\ next.count \in Nat
      /\ next.lba + next.count <= lba + 1 + max_ra
      /\ next.count <= speedmult_ra
      /\ \/ next.lba = ra_lba /\ ra_lba - lba <= ra_lba - last_read_lba
         \/ next.lba - lba <= 0
      /\ lba <= LBA_Read_Maximum =>
           lba < next.lba \/ (lba = next.lba /\ next.count > 0)
  BY <1>1, ScheduleWindow
<1> HIDE DEF next
<1>4. ra_lba' = next.lba
  BY <1>2 DEF ReadSector
<1>5. CASE next.count > 0 /\ next.lba <= LBA_Read_Maximum
  <2>1. /\ rt' = "store" /\ ra_count' = next.count
        /\ tmpbuf'.valid /\ tmpbuf'.lba = next.lba
    BY <1>2, <1>5 DEF ReadSector, Sector
  <2>2. QED
    BY <1>1, <1>2, <1>3, <1>4, <1>5, <2>1
<1>6. CASE ~(next.count > 0 /\ next.lba <= LBA_Read_Maximum)
  <2>1. rt' \in {"loop", "exited"} /\ ra_count' = 0
    BY <1>2, <1>6 DEF ReadSector
  <2>2. QED
    BY <1>1, <1>2, <1>3, <1>4, <1>6, <2>1
<1>7. QED
  BY <1>5, <1>6

(* Reading ahead, and the last sector after DIEDIEDIE.                      *)
LEMMA ContinueWindow ==
  ASSUME TypeOK, Bound, ProgressInv, ReadAhead \/ HandleDie
  PROVE  /\ last_read_lba' = last_read_lba /\ ra_lba' = ra_lba
         /\ \/ rt' = "store" /\ ra_count' = ra_count /\ ra_count > 0
               /\ tmpbuf'.valid /\ tmpbuf'.lba = ra_lba
            \/ rt' \in {"loop", "exited"} /\ ra_count' = 0
         /\ rt = "loop"
<1>1. ReadSector(ra_lba, ra_count) /\ rt = "loop" /\ last_read_lba' = last_read_lba
  BY DEF ReadAhead, HandleDie
<1>2. QED
  BY <1>1 DEF ReadSector, Sector

LEMMA NextBound ==
  ASSUME TypeOK, Bound, ProgressInv, [Next]_vars
  PROVE  Bound'
<1>1. CASE HandleReadSector
  BY <1>1, HandleWindow DEF Bound
<1>2. CASE ReadAhead \/ HandleDie
  BY <1>2, ContinueWindow DEF Bound, TypeOK
<1>3. CASE StoreSector
  BY <1>3 DEF StoreSector, Bound, TypeOK
<1>4. CASE UNCHANGED <<ra_lba, ra_count, last_read_lba>>
  BY <1>4 DEF Bound
<1>5. QED
  BY <1>1, <1>2, <1>3, <1>4, OthersKeepRing DEF Next, ReadThread

(* The slot stored becomes the one behind the write position, and the ones  *)
(* behind it move one further back; none of the window is overwritten,      *)
(* since the window is shorter than the ring.                               *)
LEMMA NextRing ==
  ASSUME TypeOK, Bound, ProgressInv, RingInv, [Next]_vars
  PROVE  RingInv'
<1>1. CASE StoreSector
  <2> SUFFICES ASSUME NEW k \in 1 .. SBSize, k <= ra_lba' - last_read_lba'
               PROVE  /\ SectorBuffers'[Back(k)'].valid
                      /\ SectorBuffers'[Back(k)'].lba = ra_lba' - k
    BY DEF RingInv
  <2>1. /\ SBWritePos \in Slots
        /\ SBWritePos' = IF SBWritePos + 1 = SBSize THEN 0 ELSE SBWritePos + 1
    BY <1>1, NextWritePosWraps DEF StoreSector, TypeOK
  <2>2. /\ SectorBuffers' = [SectorBuffers EXCEPT ![SBWritePos] = tmpbuf]
        /\ SectorBuffers \in [Slots -> SectorType]
        /\ tmpbuf.valid /\ tmpbuf.lba = ra_lba
        /\ ra_lba' = ra_lba + 1 /\ last_read_lba' = last_read_lba
        /\ ra_lba \in Int /\ last_read_lba \in Int
    BY <1>1 DEF StoreSector, ProgressInv, TypeOK
  <2>3. CASE k = 1
    <3>1. Back(k)' = SBWritePos
      BY <2>1, <2>3 DEF Back, Slots
    <3>2. QED
      BY <2>1, <2>2, <2>3, <3>1
  <2>4. CASE k > 1
    <3>1. k - 1 \in 1 .. SBSize /\ k - 1 <= ra_lba - last_read_lba
      BY <2>2, <2>4
    <3>2. Back(k)' = Back(k - 1) /\ Back(k - 1) \in Slots /\ Back(k - 1) # SBWritePos
      BY <2>1, <2>4 DEF Back, Slots
    <3>3. /\ SectorBuffers[Back(k - 1)].valid
          /\ SectorBuffers[Back(k - 1)].lba = ra_lba - (k - 1)
      BY <3>1 DEF RingInv
    <3>4. SectorBuffers'[Back(k)'] = SectorBuffers[Back(k - 1)]
      BY <2>2, <3>2
    <3>5. ra_lba - (k - 1) = ra_lba' - k
      BY <2>2
    <3>6. QED
      BY <3>3, <3>4, <3>5
  <2>5. QED
    BY <2>3, <2>4
<1>2. CASE HandleReadSector
  <2>1. UNCHANGED <<SBWritePos, SectorBuffers>>
    BY <1>2 DEF HandleReadSector, ringVars
  <2>2. /\ last_read_lba' \in Int
        /\ \/ ra_lba' = ra_lba /\ ra_lba' - last_read_lba' <= ra_lba - last_read_lba
           \/ ra_lba' - last_read_lba' <= 0
    BY <1>2, HandleWindow
  <2>3. SUFFICES ASSUME NEW k \in 1 .. SBSize, k <= ra_lba' - last_read_lba'
                 PROVE  /\ SectorBuffers'[Back(k)'].valid
                        /\ SectorBuffers'[Back(k)'].lba = ra_lba' - k
    BY DEF RingInv
  <2>4. ra_lba' \in Int /\ ra_lba' - last_read_lba' \in Int
    BY <1>2, <2>2, NextTypeOK DEF TypeOK
  <2>5. ra_lba' = ra_lba /\ k <= ra_lba - last_read_lba
    <3>1. k \in Nat /\ k >= 1 /\ ra_lba \in Int /\ last_read_lba \in Int
      BY <2>3 DEF TypeOK
    <3>2. ~(ra_lba' - last_read_lba' <= 0)
      BY <2>3, <2>4, <3>1
    <3>3. ra_lba' = ra_lba /\ ra_lba' - last_read_lba' <= ra_lba - last_read_lba
      BY <2>2, <3>2
    <3>4. QED
      BY <2>3, <2>4, <3>1, <3>3
  <2>6. Back(k)' = Back(k)
    BY <2>1 DEF Back
  <2>7. QED
    BY <2>1, <2>5, <2>6 DEF RingInv
<1>3. CASE UNCHANGED <<ra_lba, last_read_lba, SBWritePos, SectorBuffers>>
  BY <1>3 DEF RingInv, Back
<1>4. QED
  BY <1>1, <1>2, <1>3, OthersKeepRing
     DEF Next, ReadThread, HandleDie, ReadAhead, ReadSector, ringVars

LEMMA NextProgress ==
  ASSUME TypeOK, Bound, ProgressInv, PhaseInv, [Next]_vars
  PROVE  ProgressInv'
<1>1. CASE HandleReadSector
  BY <1>1, HandleWindow DEF ProgressInv
<1>2. CASE ReadAhead \/ HandleDie
  BY <1>2, ContinueWindow DEF ProgressInv, TypeOK
<1>3. CASE StoreSector
  BY <1>3 DEF StoreSector, ProgressInv, TypeOK
<1>4. CASE ReadTOC
  BY <1>4, OthersKeepRing DEF ReadTOC, ProgressInv, NoRead
<1>5. CASE WaitMessage
  BY <1>5, OthersKeepRing DEF WaitMessage, ProgressInv
<1>6. CASE EmuCall \/ EmuStep \/ SpuriousWakeup \/ Gone \/ UNCHANGED vars
  <2>1. UNCHANGED <<ra_lba, ra_count, last_read_lba, tmpbuf>>
    BY <1>6, OthersKeepRing
  <2>2. \/ rt' = rt
        \/ rt = "none" /\ rt' = "start"
        \/ rt = "msgwait" /\ rt' = "loop"
    <3>1. ASSUME NEW msg, WriteToReadThread(msg)
          PROVE  rt' = rt \/ (rt = "msgwait" /\ rt' = "loop")
      BY <3>1 DEF WriteToReadThread, Signaled
    <3>2. CASE EmuCall
      BY <3>1, <3>2 DEF EmuCall, ReadRawSector, ReadRawSectorPWOnly, OutOfBounds,
           BeginRead, HintReadSector, Destroy
    <3>3. CASE EmuStep
      BY <3>1, <3>3 DEF EmuStep, CreateThread, WaitStatus, StatusDone, ConstructFails,
           FoundSector, WaitSector, ThreadWait, PhaseInv
    <3>4. CASE SpuriousWakeup \/ Gone \/ UNCHANGED vars
      BY <3>4 DEF SpuriousWakeup, Gone, vars
    <3>5. QED
      BY <1>6, <3>2, <3>3, <3>4
  <2>3. QED
    BY <2>1, <2>2 DEF ProgressInv
<1>7. QED
  BY <1>1, <1>2, <1>3, <1>4, <1>5, <1>6 DEF Next, ReadThread
-----------------------------------------------------------------------------
(* Posting appends to the queue and wakes the read thread.                  *)
LEMMA PostFacts ==
  ASSUME TypeOK, NEW msg \in Messages, WriteToReadThread(msg)
  PROVE  /\ ReadThreadQueue' # <<>>
         /\ ReadThreadQueue'[Len(ReadThreadQueue')] = msg
         /\ (Requesting /\ msg.message = "READ_SECTOR") => Requesting'
         /\ rt' # "msgwait"
         /\ rt' = rt \/ (rt = "msgwait" /\ rt' = "loop")
<1>1. /\ ReadThreadQueue \in Seq(Messages)
      /\ ReadThreadQueue' = Append(ReadThreadQueue, msg)
  BY DEF WriteToReadThread, TypeOK
<1>2. /\ Len(ReadThreadQueue') = Len(ReadThreadQueue) + 1
      /\ Len(ReadThreadQueue) \in Nat
      /\ ReadThreadQueue'[Len(ReadThreadQueue')] = msg
      /\ \A i \in 1 .. Len(ReadThreadQueue) : ReadThreadQueue'[i] = ReadThreadQueue[i]
  BY <1>1
<1>3. ReadThreadQueue' # <<>>
  BY <1>1, <1>2
<1>4. (Requesting /\ msg.message = "READ_SECTOR") => Requesting'
  BY <1>2 DEF Requesting
<1>5. rt' # "msgwait" /\ (rt' = rt \/ (rt = "msgwait" /\ rt' = "loop"))
  BY DEF WriteToReadThread, Signaled
<1>6. QED
  BY <1>2, <1>3, <1>4, <1>5

(* Taking the head keeps the rest, and the last message unless it is it.    *)
LEMMA TakeFacts ==
  ASSUME NEW q \in Seq(Messages), q # <<>>
  PROVE  /\ \A i \in 1 .. Len(Tail(q)) : i + 1 \in 1 .. Len(q) /\ Tail(q)[i] = q[i + 1]
         /\ Tail(q) # <<>> => Tail(q)[Len(Tail(q))] = q[Len(q)]
         /\ Tail(q) = <<>> => Head(q) = q[Len(q)]
         /\ Head(q) = q[1] /\ 1 \in 1 .. Len(q)
<1>1. /\ Len(q) \in Nat /\ Len(q) > 0 /\ Len(Tail(q)) = Len(q) - 1
      /\ \A i \in 1 .. Len(q) - 1 : Tail(q)[i] = q[i + 1]
      /\ Head(q) = q[1]
      /\ Tail(q) \in Seq(Messages)
  OBVIOUS
<1>2. Tail(q) = <<>> => Len(q) = 1
  BY <1>1, EmptySeq
<1>3. Tail(q) # <<>> => Len(q) - 1 > 0
  BY <1>1
<1>4. QED
  BY <1>1, <1>2, <1>3

LEMMA NextPhase ==
  ASSUME TypeOK, ProgressInv, PhaseInv, NoLostWakeup, [Next]_vars
  PROVE  PhaseInv'
<1>1. ASSUME NEW lba \in Int, BeginRead(lba), emu = "idle",
             UNCHANGED <<EmuThreadQueue, Running>>
      PROVE  PhaseInv'
  <2>1. ReadSectorMsg(lba) \in Messages /\ ReadSectorMsg(lba).message = "READ_SECTOR"
    BY DEF ReadSectorMsg, Messages
  <2>2. QED
    BY <1>1, <2>1, PostFacts DEF BeginRead, PhaseInv
<1>2. ASSUME NEW lba \in Int, WriteToReadThread(ReadSectorMsg(lba)), emu = "idle",
             UNCHANGED <<emu, req, EmuThreadQueue, Running>>
      PROVE  PhaseInv'
  <2>1. ReadSectorMsg(lba) \in Messages /\ ReadSectorMsg(lba).message = "READ_SECTOR"
    BY DEF ReadSectorMsg, Messages
  <2>2. QED
    BY <1>2, <2>1, PostFacts DEF PhaseInv
<1>3. CASE UNCHANGED <<emu, req, rt, EmuThreadQueue, ReadThreadQueue, ra_count, Running>>
  BY <1>3 DEF PhaseInv, Requesting
<1>4. CASE EmuCall
  <2>1. ASSUME NEW lba \in Requests, ReadRawSector(lba)
        PROVE  PhaseInv'
    BY <1>1, <1>3, <2>1 DEF ReadRawSector, OutOfBounds, Ready, raVars
  <2>2. ASSUME NEW lba \in Requests, NEW hint \in BOOLEAN,
               ReadRawSectorPWOnly(lba, hint)
        PROVE  PhaseInv'
    <3>1. lba \in Int
      OBVIOUS
    <3>2. emu = "idle" /\ UNCHANGED <<EmuThreadQueue, ra_count, Running>>
      BY <2>2 DEF ReadRawSectorPWOnly, Ready, raVars
    <3>3. \/ BeginRead(lba)
          \/ WriteToReadThread(ReadSectorMsg(lba)) /\ UNCHANGED <<emu, req>>
          \/ UNCHANGED <<emu, req, rt, ReadThreadQueue>>
      BY <2>2 DEF ReadRawSectorPWOnly, OutOfBounds
    <3>4. QED
      BY <1>1, <1>2, <1>3, <3>1, <3>2, <3>3
  <2>3. ASSUME NEW lba \in Hints, HintReadSector(lba)
        PROVE  PhaseInv'
    BY <1>2, <2>3 DEF HintReadSector, Ready, emuVars
  <2>4. CASE Destroy
    BY <2>4, PostFacts, DieTyped DEF Destroy, PhaseInv
  <2>5. QED
    BY <1>4, <2>1, <2>2, <2>3, <2>4 DEF EmuCall
<1>5. CASE StatusDone
  BY <1>5 DEF StatusDone, raVars, PhaseInv, Requesting
<1>6. CASE ConstructFails
  BY <1>6, PostFacts, DieTyped DEF ConstructFails, PhaseInv
<1>7. CASE CreateThread
  BY <1>7 DEF CreateThread, raVars, PhaseInv, Requesting
<1>8. CASE WaitStatus \/ WaitSector \/ ThreadWait
  BY <1>8 DEF WaitStatus, WaitSector, ThreadWait, raVars, PhaseInv, Requesting
<1>9. CASE FoundSector
  BY <1>9 DEF FoundSector, raVars, PhaseInv, Requesting
<1>10. CASE ReadTOC
  <2>1. /\ rt = "start" /\ UNCHANGED <<req, ReadThreadQueue, ra_count, Running>>
        /\ \/ rt' = "loop" /\ EmuThreadQueue' = Append(EmuThreadQueue, "DONE")
           \/ rt' = "exited" /\ EmuThreadQueue' = Append(EmuThreadQueue, "FATAL_ERROR")
        /\ emu' = emu \/ (emu = "statuswait" /\ emu' = "status")
    BY <1>10 DEF ReadTOC, WriteToEmuThread, Signaled, raVars
  <2>2. emu \in {"status", "statuswait"} => EmuThreadQueue = <<>>
    BY <2>1 DEF PhaseInv
  <2>3. emu \in {"status", "statuswait"} =>
          \/ rt' = "loop" /\ EmuThreadQueue' = <<"DONE">>
          \/ rt' = "exited" /\ EmuThreadQueue' = <<"FATAL_ERROR">>
    <3>1. \A status : Append(<<>>, status) = <<status>>
      OBVIOUS
    <3>2. QED
      BY <2>1, <2>2, <3>1
  <2>4. QED
    BY <2>1, <2>3 DEF PhaseInv, Requesting
<1>11. CASE WaitMessage
  BY <1>11 DEF WaitMessage, emuVars, raVars, PhaseInv, Requesting
<1>12. CASE HandleReadSector
  <2>1. UNCHANGED <<emu, req, EmuThreadQueue, Running>> /\ rt = "loop"
        /\ rt' \in {"store", "loop", "exited"} /\ (Running => rt' # "exited")
    BY <1>12 DEF HandleReadSector, emuVars, ReadSector
  <2>2. Requesting => Requesting'
    BY <1>12, TakeFacts DEF HandleReadSector, Requesting, TypeOK
  <2>3. ReadThreadQueue # <<>>
    BY <1>12 DEF HandleReadSector
  <2>4. QED
    BY <2>1, <2>2, <2>3 DEF PhaseInv
<1>13. CASE HandleDie
  <2>1. /\ UNCHANGED <<emu, req, EmuThreadQueue>> /\ rt = "loop"
        /\ rt' \in {"store", "loop", "exited"}
    BY <1>13 DEF HandleDie, emuVars, ReadSector
  <2>2. ~Requesting
    BY <1>13, TakeFacts DEF HandleDie, Requesting, TypeOK
  <2>3. QED
    BY <2>1, <2>2 DEF PhaseInv, TypeOK
<1>14. CASE ReadAhead
  <2>1. UNCHANGED <<emu, req, EmuThreadQueue, ReadThreadQueue, Running>>
        /\ rt = "loop" /\ rt' \in {"store", "loop", "exited"}
        /\ (Running => rt' # "exited")
    BY <1>14 DEF ReadAhead, emuVars, ReadSector
  <2>2. ra_count > 0
    BY <1>14 DEF ReadAhead
  <2>3. QED
    BY <2>1, <2>2 DEF PhaseInv, Requesting
<1>15. CASE StoreSector
  BY <1>15 DEF StoreSector, Signaled, PhaseInv, Requesting
<1>16. CASE SpuriousWakeup
  BY <1>16 DEF SpuriousWakeup, emuVars, raVars, PhaseInv, Requesting
<1>17. CASE Gone \/ UNCHANGED vars
  BY <1>3, <1>17 DEF Gone, vars, emuVars, raVars
<1>18. QED
  BY <1>4, <1>5, <1>6, <1>7, <1>8, <1>9, <1>10, <1>11, <1>12, <1>13, <1>14,
     <1>15, <1>16, <1>17 DEF Next, EmuStep, ReadThread
-----------------------------------------------------------------------------
(* The window is in the ring: RingInv names the slot of each of its sectors. *)
LEMMA WindowHeld ==
  ASSUME TypeOK, RingInv, Bound, NEW lba \in Int, Window(lba)
  PROVE  Holders(lba) # {}
<1> DEFINE k == ra_lba - lba
<1>1. k \in 1 .. SBSize /\ k <= ra_lba - last_read_lba /\ ra_lba - k = lba
  BY DEF TypeOK, Bound, Window
<1> HIDE DEF k
<1>2. Back(k) \in Slots
  BY <1>1 DEF TypeOK, Back, Slots
<1>3. SectorBuffers[Back(k)].valid /\ SectorBuffers[Back(k)].lba = lba
  BY <1>1 DEF RingInv
<1>4. QED
  BY <1>2, <1>3 DEF Holders

LEMMA NextPending ==
  ASSUME TypeOK, Bound, ProgressInv, PhaseInv, RequestPending, [Next]_vars
  PROVE  RequestPending'
<1>1. ASSUME NEW lba \in Int, BeginRead(lba)
      PROVE  RequestPending'
  <2>1. ReadSectorMsg(lba) \in Messages
    BY DEF ReadSectorMsg, Messages
  <2>2. req' = lba /\ WriteToReadThread(ReadSectorMsg(lba))
    BY <1>1 DEF BeginRead
  <2>3. ReadThreadQueue' # <<>> /\
        ReadThreadQueue'[Len(ReadThreadQueue')] = ReadSectorMsg(lba)
    BY <2>1, <2>2, PostFacts
  <2>4. QED
    BY <2>2, <2>3 DEF RequestPending, ReadSectorMsg
<1>2. CASE emu' \notin {"scan", "sectorwait"}
  BY <1>2 DEF RequestPending
<1>3. CASE /\ emu \in {"scan", "sectorwait"}
           /\ UNCHANGED <<req, rt, ReadThreadQueue, last_read_lba, ra_lba>>
  BY <1>3 DEF RequestPending, Window, ReadSectorMsg
<1>4. CASE EmuCall
  <2>1. ASSUME NEW lba \in Requests, ReadRawSector(lba)
        PROVE  RequestPending'
    BY <1>1, <1>2, <2>1 DEF ReadRawSector, OutOfBounds, Ready
  <2>2. ASSUME NEW lba \in Requests, NEW hint \in BOOLEAN,
               ReadRawSectorPWOnly(lba, hint)
        PROVE  RequestPending'
    BY <1>1, <1>2, <2>2 DEF ReadRawSectorPWOnly, OutOfBounds, Ready
  <2>3. CASE Destroy \/ \E lba \in Hints : HintReadSector(lba)
    BY <1>2, <2>3 DEF Destroy, HintReadSector, Ready, emuVars
  <2>4. QED
    BY <1>4, <2>1, <2>2, <2>3 DEF EmuCall
<1>5. CASE EmuStep \/ SpuriousWakeup \/ Gone \/ UNCHANGED vars
  <2>1. UNCHANGED <<last_read_lba, ra_lba>>
    BY <1>5, OthersKeepRing
  <2>2. \/ emu' \notin {"scan", "sectorwait"}
        \/ /\ emu \in {"scan", "sectorwait"}
           /\ UNCHANGED <<req, ReadThreadQueue>>
           /\ rt' = rt \/ (rt = "msgwait" /\ rt' = "loop")
        \/ emu = "construct"
    BY <1>5 DEF EmuStep, CreateThread, WaitStatus, StatusDone, ConstructFails,
         FoundSector, WaitSector, ThreadWait, SpuriousWakeup, Gone, vars, emuVars
  <2>3. emu = "construct" => emu' \notin {"scan", "sectorwait"}
    BY <1>5 DEF EmuStep, CreateThread, WaitStatus, StatusDone, ConstructFails,
         FoundSector, WaitSector, ThreadWait, SpuriousWakeup, Gone, vars, emuVars
  <2>4. QED
    BY <2>1, <2>2, <2>3 DEF RequestPending, Window, ReadSectorMsg
<1>6. CASE ReadTOC
  BY <1>2, <1>6 DEF ReadTOC, PhaseInv, WriteToEmuThread, Signaled
<1>7. CASE WaitMessage
  BY <1>7 DEF WaitMessage, emuVars, raVars, RequestPending, Window, ReadSectorMsg
<1>8. CASE HandleReadSector
  <2> SUFFICES ASSUME emu \in {"scan", "sectorwait"}
               PROVE  RequestPending'
    BY <1>2, <1>8 DEF HandleReadSector, emuVars
  <2>1. /\ UNCHANGED <<emu, req>> /\ ReadThreadQueue # <<>>
        /\ ReadThreadQueue \in Seq(Messages)
        /\ ReadThreadQueue' = Tail(ReadThreadQueue)
        /\ last_read_lba' = Head(ReadThreadQueue).lba
    BY <1>8 DEF HandleReadSector, emuVars, TypeOK
  <2>2. ReadThreadQueue[Len(ReadThreadQueue)] = ReadSectorMsg(req)
    BY <2>1 DEF RequestPending
  <2>3. CASE ReadThreadQueue' # <<>>
    BY <2>1, <2>2, <2>3, TakeFacts DEF RequestPending, ReadSectorMsg
  <2>4. CASE ReadThreadQueue' = <<>>
    <3>1. last_read_lba' = req
      BY <2>1, <2>2, <2>4, TakeFacts DEF ReadSectorMsg
    <3>2. req <= LBA_Read_Maximum /\ req \in Int /\ ra_lba' \in Int
      BY <1>8, NextTypeOK DEF PhaseInv, LBAs, TypeOK
    <3>3. req < ra_lba' \/ (req = ra_lba' /\ rt' = "store")
      BY <1>8, <3>1, <3>2, HandleWindow
    <3>4. QED
      BY <2>1, <2>4, <3>1, <3>2, <3>3 DEF RequestPending, Window
  <2>5. QED
    BY <2>3, <2>4
<1>9. CASE HandleDie
  <2>1. ~Requesting
    BY <1>9, TakeFacts DEF HandleDie, Requesting, TypeOK
  <2>2. QED
    BY <1>2, <1>9, <2>1 DEF HandleDie, emuVars, PhaseInv, TypeOK
<1>10. CASE ReadAhead
  <2>1. last_read_lba' = last_read_lba /\ ra_lba' = ra_lba /\ rt = "loop"
    BY <1>10, ContinueWindow
  <2>2. QED
    BY <1>10, <2>1 DEF ReadAhead, emuVars, RequestPending, Window, ReadSectorMsg
<1>11. CASE StoreSector
  <2>1. /\ UNCHANGED <<req, ReadThreadQueue, last_read_lba>>
        /\ ra_lba' = ra_lba + 1 /\ ra_lba \in Int /\ last_read_lba \in Int
        /\ emu' \in {"scan", "sectorwait"} => emu \in {"scan", "sectorwait"}
        /\ req \in Int
    BY <1>11 DEF StoreSector, TypeOK, Signaled, LBAs, NoLBA
  <2>2. QED
    BY <2>1 DEF RequestPending, Window, ReadSectorMsg
<1>12. QED
  BY <1>4, <1>5, <1>6, <1>7, <1>8, <1>9, <1>10, <1>11 DEF Next, ReadThread

(* A read thread with nothing left to do has the requested sector in the    *)
(* ring: the emulation thread does not begin, nor go on, to wait for it.    *)
LEMMA RestingServed ==
  ASSUME TypeOK, RingInv, Bound, PhaseInv, RequestPending,
         emu \in {"scan", "sectorwait"}, ReadThreadQueue = <<>>, rt # "store"
  PROVE  Holders(req) # {}
<1>1. Window(req) /\ req \in Int
  BY DEF RequestPending, PhaseInv, LBAs
<1>2. QED
  BY <1>1, WindowHeld

LEMMA NextWakeup ==
  ASSUME TypeOK, RingInv, Bound, ProgressInv, PhaseInv, RequestPending,
         NoLostWakeup, [Next]_vars
  PROVE  NoLostWakeup'
<1>1. rt' = "msgwait" => ReadThreadQueue' = <<>> /\ ra_count' = 0
  <2>1. ASSUME NEW msg \in Messages, WriteToReadThread(msg)
        PROVE  rt' # "msgwait"
    BY <2>1, PostFacts
  <2>2. \A lba \in Int : ReadSectorMsg(lba) \in Messages
    BY DEF ReadSectorMsg, Messages
  <2>3. CASE EmuCall
    <3>1. rt' # "msgwait" \/ UNCHANGED <<rt, ReadThreadQueue, ra_count>>
      BY <2>1, <2>2, <2>3, DieTyped
         DEF EmuCall, ReadRawSector, ReadRawSectorPWOnly, OutOfBounds, BeginRead,
             HintReadSector, Destroy, raVars
    <3>2. QED
      BY <3>1 DEF NoLostWakeup
  <2>4. CASE EmuStep \/ SpuriousWakeup \/ Gone \/ UNCHANGED vars
    <3>1. rt' # "msgwait" \/ UNCHANGED <<rt, ReadThreadQueue, ra_count>>
      BY <2>1, <2>4, DieTyped
         DEF EmuStep, CreateThread, WaitStatus, StatusDone, ConstructFails,
             FoundSector, WaitSector, ThreadWait, SpuriousWakeup, Gone, vars,
             raVars
    <3>2. QED
      BY <3>1 DEF NoLostWakeup
  <2>5. CASE ReadThread
    BY <2>5 DEF ReadThread, ReadTOC, WaitMessage, HandleReadSector, HandleDie,
         ReadAhead, ReadSector, StoreSector, raVars
  <2>6. QED
    BY <2>3, <2>4, <2>5 DEF Next
<1>2. emu' = "sectorwait" =>
        Holders(req)' = {} /\ rt' \notin {"msgwait", "exited"}
  <2> SUFFICES ASSUME emu' = "sectorwait"
               PROVE  Holders(req)' = {} /\ rt' \notin {"msgwait", "exited"}
    OBVIOUS
  <2>1. CASE WaitSector
    <3>1. UNCHANGED <<req, rt, SectorBuffers>> /\ emu = "scan" /\ Holders(req) = {}
      BY <2>1 DEF WaitSector, ringVars
    <3>2. Holders(req)' = {}
      BY <3>1 DEF Holders
    <3>3. rt # "msgwait"
      BY <3>1, RestingServed DEF NoLostWakeup
    <3>4. rt # "exited"
      BY <3>1 DEF PhaseInv
    <3>5. QED
      BY <3>1, <3>2, <3>3, <3>4
  <2>2. CASE emu = "sectorwait" /\ UNCHANGED <<req, SectorBuffers>>
    <3>1. Holders(req)' = {}
      BY <2>2 DEF NoLostWakeup, Holders
    <3>2. rt' # "exited"
      BY NextPhase DEF PhaseInv
    <3>3. rt' = "msgwait" => WaitMessage \/ rt = "msgwait"
      BY DEF Next, EmuCall, EmuStep, ReadThread, SpuriousWakeup, Gone, vars,
             ReadRawSector, ReadRawSectorPWOnly, OutOfBounds, BeginRead,
             HintReadSector, Destroy, CreateThread, WaitStatus, StatusDone,
             ConstructFails, FoundSector, WaitSector, ThreadWait, WriteToReadThread,
             Signaled, ReadTOC, HandleReadSector, HandleDie, ReadAhead,
             ReadSector, StoreSector
    <3>4. ~WaitMessage
      BY <2>2, <3>1, RestingServed DEF WaitMessage, NoLostWakeup
    <3>5. QED
      BY <2>2, <3>1, <3>2, <3>3, <3>4 DEF NoLostWakeup
  <2>3. WaitSector \/ (emu = "sectorwait" /\ UNCHANGED <<req, SectorBuffers>>)
    <3>1. CASE EmuCall
      BY <3>1 DEF EmuCall, ReadRawSector, ReadRawSectorPWOnly, OutOfBounds,
           BeginRead, HintReadSector, Destroy, Ready, emuVars
    <3>2. CASE EmuStep
      BY <3>2 DEF EmuStep, CreateThread, WaitStatus, StatusDone, ConstructFails,
           FoundSector, ThreadWait
    <3>3. CASE ReadThread
      BY <3>3 DEF ReadThread, ReadTOC, WriteToEmuThread, Signaled, WaitMessage,
           HandleReadSector, HandleDie, ReadAhead, StoreSector, emuVars, ringVars
    <3>4. CASE SpuriousWakeup \/ Gone \/ UNCHANGED vars
      BY <3>4 DEF SpuriousWakeup, Gone, vars, emuVars, ringVars
    <3>5. QED
      BY <3>1, <3>2, <3>3, <3>4 DEF Next
  <2>4. QED
    BY <2>1, <2>2, <2>3
<1>3. emu' = "statuswait" => EmuThreadQueue' = <<>>
  <2>1. CASE EmuCall \/ SpuriousWakeup \/ Gone \/ UNCHANGED vars
    BY <2>1 DEF EmuCall, ReadRawSector, ReadRawSectorPWOnly, OutOfBounds,
         BeginRead, HintReadSector, Destroy, Ready, emuVars, SpuriousWakeup,
         Gone, vars, NoLostWakeup
  <2>2. CASE EmuStep
    BY <2>2 DEF EmuStep, CreateThread, WaitStatus, StatusDone, ConstructFails,
         FoundSector, WaitSector, ThreadWait
  <2>3. CASE ReadThread
    BY <2>3 DEF ReadThread, ReadTOC, WriteToEmuThread, Signaled, WaitMessage,
         HandleReadSector, HandleDie, ReadAhead, StoreSector, emuVars,
         NoLostWakeup
  <2>4. QED
    BY <2>1, <2>2, <2>3 DEF Next
<1>4. QED
  BY <1>1, <1>2, <1>3 DEF NoLostWakeup
-----------------------------------------------------------------------------
LEMMA InitIInv == Init => IInv
<1> SUFFICES ASSUME Init
             PROVE  IInv
  OBVIOUS
<1>1. TypeOK
  BY InitTypeOK
<1>2. RingInv /\ Bound /\ ProgressInv
  BY DEF Init, RingInv, Bound, ProgressInv, NoRead
<1>3. PhaseInv /\ RequestPending /\ NoLostWakeup
  <2>1. Len(<<>>) = 0
    BY EmptySeq
  <2>2. QED
    BY <2>1 DEF Init, PhaseInv, RequestPending, NoLostWakeup, Requesting
<1>4. QED
  BY <1>1, <1>2, <1>3 DEF IInv

(* IInv is inductive: whatever the two threads do, in any order.            *)
THEOREM Invariance == Spec => []IInv
<1>1. IInv /\ [Next]_vars => IInv'
  BY NextTypeOK, NextRing, NextBound, NextProgress, NextPhase, NextPending,
     NextWakeup DEF IInv
<1>2. QED
  BY <1>1, InitIInv, PTL DEF Spec

(* The variables of the reader keep their types: the write position stays   *)
(* in the ring, ra_count never drops below 0.                               *)
THEOREM TypeCorrect == Spec => []TypeOK
<1>1. IInv => TypeOK
  BY DEF IInv
<1>2. QED
  BY <1>1, Invariance, PTL

(* The sectors from the last request to the read-ahead position are never   *)
(* evicted, for every ring larger than max_ra.                              *)
THEOREM WindowNeverEvicted == Spec => []WindowInRing
<1>1. IInv => WindowInRing
  <2>1. LBAs \subseteq Int
    BY DEF LBAs
  <2>2. QED
    BY <2>1, WindowHeld DEF IInv, WindowInRing
<1>2. QED
  BY <1>1, Invariance, PTL

(* ReadThreadStart never commits beyond max_ra sectors of the last request. *)
THEOREM ReadAheadStaysBounded == Spec => []ReadAheadBounded
<1>1. IInv => ReadAheadBounded
  BY DEF IInv, Bound, ReadAheadBounded
<1>2. QED
  BY <1>1, Invariance, PTL

(* No wakeup is lost and the two threads never wait for each other: the     *)
(* emulation thread is not inside Cond_Wait() while what it waits for is    *)
(* there.                                                                   *)
THEOREM NeverStuck == Spec => []NoLostWakeup
<1>1. IInv => NoLostWakeup
  BY DEF IInv
<1>2. QED
  BY <1>1, Invariance, PTL

(* A sector the emulation thread waits for is never forgotten: its message  *)
(* is in the queue, or the read thread is on its way to it, or it is in the *)
(* ring.                                                                    *)
THEOREM RequestNeverForgotten == Spec => []RequestPending
<1>1. IInv => RequestPending
  BY DEF IInv
<1>2. QED
  BY <1>1, Invariance, PTL
-----------------------------------------------------------------------------
(***************************************************************************)
(* CDInterface_MT implements CDInterface_ST.                               *)
(***************************************************************************)

(* What is buffered is what reading the sector gave.                        *)
Faithful(sector) ==
  sector.valid => /\ sector.error \in ReadErrors(sector.lba)
                  /\ sector.data = Contents(sector.lba, sector.error)

DataInv ==
  /\ Faithful(tmpbuf)
  /\ \A i \in Slots : Faithful(SectorBuffers[i])
  /\ emu \notin {"scan", "sectorwait"} => req = NoLBA

LEMMA NextData ==
  ASSUME TypeOK, PhaseInv, DataInv, [Next]_vars
  PROVE  DataInv'
<1>1. Faithful(tmpbuf') /\ \A i \in Slots : Faithful(SectorBuffers'[i])
  <2>1. ASSUME NEW lba \in Int, NEW count \in Int, ReadSector(lba, count)
        PROVE  Faithful(tmpbuf')
    <3>1. CASE UNCHANGED tmpbuf
      BY <3>1 DEF DataInv
    <3>2. ASSUME NEW error \in ReadErrors(lba), tmpbuf' = Sector(lba, error)
          PROVE  Faithful(tmpbuf')
      BY <3>2 DEF Faithful, Sector
    <3>3. QED
      BY <2>1, <3>1, <3>2 DEF ReadSector
  <2>2. CASE HandleReadSector \/ HandleDie \/ ReadAhead
    <3>1. \E lba \in Int, count \in Int : ReadSector(lba, count)
      <4>1. CASE HandleReadSector
        <5>1. Head(ReadThreadQueue) \in Messages
          BY <4>1, TakeTyped DEF HandleReadSector, TypeOK
        <5>2. Head(ReadThreadQueue).lba \in Int
          BY <5>1 DEF Messages
        <5>3. QED
          BY <4>1, <5>2, ScheduleTyped DEF HandleReadSector
      <4>2. CASE HandleDie \/ ReadAhead
        BY <4>2 DEF HandleDie, ReadAhead, TypeOK
      <4>3. QED
        BY <2>2, <4>1, <4>2
    <3>2. UNCHANGED SectorBuffers
      BY <2>2 DEF HandleReadSector, HandleDie, ReadAhead, ringVars
    <3>3. QED
      BY <2>1, <3>1, <3>2 DEF DataInv
  <2>3. CASE StoreSector
    BY <2>3 DEF StoreSector, DataInv, TypeOK
  <2>4. CASE UNCHANGED <<tmpbuf, SectorBuffers>>
    BY <2>4 DEF DataInv
  <2>5. QED
    BY <2>2, <2>3, <2>4, OthersKeepRing DEF Next, ReadThread
<1>2. emu' \notin {"scan", "sectorwait"} => req' = NoLBA
  <2>1. CASE EmuCall
    BY <2>1 DEF EmuCall, ReadRawSector, ReadRawSectorPWOnly, OutOfBounds,
         BeginRead, HintReadSector, Destroy, Ready, emuVars, DataInv
  <2>2. CASE EmuStep
    BY <2>2 DEF EmuStep, CreateThread, WaitStatus, StatusDone, ConstructFails,
         FoundSector, WaitSector, ThreadWait, DataInv
  <2>3. CASE ReadThread
    BY <2>3 DEF ReadThread, ReadTOC, WriteToEmuThread, Signaled, WaitMessage,
         HandleReadSector, HandleDie, ReadAhead, StoreSector, emuVars, DataInv
  <2>4. CASE SpuriousWakeup \/ Gone \/ UNCHANGED vars
    BY <2>4 DEF SpuriousWakeup, Gone, vars, emuVars, DataInv
  <2>5. QED
    BY <2>1, <2>2, <2>3, <2>4 DEF Next
<1>3. QED
  BY <1>1, <1>2 DEF DataInv

LEMMA DataInvariance == Spec => []DataInv
<1>1. Init => DataInv
  BY DEF Init, DataInv, Faithful, EmptySector
<1>2. IInv /\ DataInv /\ [Next]_vars => DataInv'
  BY NextData DEF IInv
<1>3. QED
  BY <1>1, <1>2, Invariance, PTL DEF Spec

(* Both readers read the same disc.                                         *)
LEMMA SameDisc ==
  /\ ST!LBAs = LBAs /\ ST!NoLBA = NoLBA /\ ST!NoAnswer = NoAnswer
  /\ ST!Zeroed = Zeroed
  /\ \A lba : ST!DiscData(lba) = DiscData(lba) /\ ST!ReadErrors(lba) = ReadErrors(lba)
  /\ \A lba, error : ST!Contents(lba, error) = Contents(lba, error)
  /\ \A lba, ok, data : ST!Answer(lba, ok, data) = Answer(lba, ok, data)
  BY DEF ST!LBAs, LBAs, ST!NoLBA, NoLBA, ST!NoAnswer, NoAnswer, ST!Zeroed, Zeroed,
     ST!DiscData, DiscData, ST!ReadErrors, ReadErrors, ST!Contents, Contents,
     ST!Answer, Answer

LEMMA OpenWhen ==
  ASSUME TypeOK
  PROVE  /\ Phase = "open" <=> emu \in {"idle", "scan", "sectorwait"}
         /\ Phase = "opening" <=> emu \in {"construct", "status", "statuswait", "abandon"}
         /\ Phase = "closed" <=> emu \in {"join", "closed"}
         /\ Phase = "failed" <=> emu = "failed"
  BY DEF Phase, TypeOK

(* Each step of the two threads is a step of the single-threaded reader, or *)
(* invisible to its user.                                                   *)
LEMMA StepSimulation ==
  ASSUME IInv, DataInv, IInv', [Next]_vars
  PROVE  [ST!Next]_(ST!vars)
<1>0. TypeOK /\ TypeOK' /\ PhaseInv
  BY DEF IInv
<1>1. ASSUME NEW lba \in Requests, ReadRawSector(lba)
      PROVE  ST!Next
  <2>1. Phase = "open" /\ req = NoLBA /\ Phase' = Phase
    <3>1. emu = "idle" /\ emu' \in {"idle", "scan"}
      BY <1>1 DEF ReadRawSector, Ready, OutOfBounds, BeginRead
    <3>2. QED
      BY <1>0, <3>1, OpenWhen DEF DataInv, Phase
  <2>2. ST!ReadRawSector(lba)
    BY <1>1, <2>1, SameDisc DEF ReadRawSector, OutOfBounds, BeginRead, ST!ReadRawSector,
       ST!Idle, ST!OutOfBounds, ST!BeginRead
  <2>3. QED
    BY <2>2 DEF ST!Next
<1>2. ASSUME NEW lba \in Requests, NEW hint \in BOOLEAN,
             ReadRawSectorPWOnly(lba, hint)
      PROVE  ST!Next
  <2>1. Phase = "open" /\ req = NoLBA /\ Phase' = Phase
    <3>1. emu = "idle" /\ emu' \in {"idle", "scan"}
      BY <1>2 DEF ReadRawSectorPWOnly, Ready, OutOfBounds, BeginRead
    <3>2. QED
      BY <1>0, <3>1, OpenWhen DEF DataInv, Phase
  <2>2. ST!ReadRawSectorPWOnly(lba)
    BY <1>2, <2>1, SameDisc DEF ReadRawSectorPWOnly, OutOfBounds, BeginRead,
       ST!ReadRawSectorPWOnly, ST!Idle, ST!OutOfBounds, ST!BeginRead
  <2>3. QED
    BY <2>2 DEF ST!Next
<1>3. CASE Destroy
  <2>1. emu = "idle" /\ emu' = "join" /\ UNCHANGED <<req, answer>>
    BY <1>3 DEF Destroy
  <2>2. Phase = "open" /\ Phase' = "closed" /\ req = NoLBA
    BY <2>1 DEF Phase, DataInv
  <2>3. QED
    BY <2>1, <2>2, SameDisc DEF ST!Next, ST!Close, ST!Idle
<1>4. CASE StatusDone
  <2>1. emu = "status" /\ emu' = "idle" /\ UNCHANGED <<req, answer>>
    BY <1>4 DEF StatusDone
  <2>2. Phase = "opening" /\ Phase' = "open"
    BY <2>1 DEF Phase
  <2>3. QED
    BY <2>1, <2>2 DEF ST!Next, ST!Open
<1>5. CASE ThreadWait
  <2>1. UNCHANGED <<req, answer>>
    BY <1>5 DEF ThreadWait
  <2>2. \/ Phase' = Phase
        \/ Phase = "opening" /\ Phase' = "failed"
    BY <1>5 DEF ThreadWait, Phase
  <2>3. QED
    BY <2>1, <2>2 DEF ST!Next, ST!Open, ST!vars
<1>6. CASE FoundSector
  <2>1. emu = "scan" /\ emu' = "idle" /\ req' = NoLBA
    BY <1>6 DEF FoundSector
  <2>2. Phase = "open" /\ Phase' = "open" /\ req # NoLBA
    BY <1>0, <2>1 DEF Phase, PhaseInv, LBAs, NoLBA
  <2>3. PICK i \in Slots :
          /\ SectorBuffers[i].valid /\ SectorBuffers[i].lba = req
          /\ answer' = Answer(req, ~SectorBuffers[i].error, SectorBuffers[i].data)
    BY <1>6 DEF FoundSector, Holders
  <2>4. /\ SectorBuffers[i].error \in ReadErrors(req)
        /\ SectorBuffers[i].data = Contents(req, SectorBuffers[i].error)
    BY <2>3 DEF DataInv, Faithful
  <2>5. ST!ReturnSector
    BY <2>1, <2>2, <2>3, <2>4, SameDisc DEF ST!ReturnSector
  <2>6. QED
    BY <2>5 DEF ST!Next
<1>7. CASE UNCHANGED <<req, answer>> /\ Phase' = Phase
  BY <1>7 DEF ST!vars
<1>8. ASSUME UNCHANGED <<emu, req, answer>>
      PROVE  UNCHANGED <<req, answer>> /\ Phase' = Phase
  BY <1>8 DEF Phase
<1>9. CASE \E lba \in Hints : HintReadSector(lba)
  BY <1>7, <1>8, <1>9 DEF HintReadSector, emuVars
<1>10. CASE CreateThread \/ WaitStatus \/ ConstructFails \/ WaitSector
  <2>1. /\ UNCHANGED <<req, answer>>
        /\ \/ emu = "construct" /\ emu' = "status"
           \/ emu = "status" /\ emu' \in {"statuswait", "abandon"}
           \/ emu = "scan" /\ emu' = "sectorwait"
    BY <1>10 DEF CreateThread, WaitStatus, ConstructFails, WaitSector
  <2>2. Phase' = Phase
    BY <2>1 DEF Phase
  <2>3. QED
    BY <1>7, <2>1, <2>2
<1>11. CASE ReadThread
  <2>1. /\ UNCHANGED <<req, answer>>
        /\ \/ emu' = emu
           \/ emu = "statuswait" /\ emu' = "status"
           \/ emu = "sectorwait" /\ emu' = "scan"
    BY <1>11 DEF ReadThread, ReadTOC, WriteToEmuThread, Signaled, WaitMessage,
       HandleReadSector, HandleDie, ReadAhead, StoreSector, emuVars
  <2>2. Phase' = Phase
    BY <2>1 DEF Phase
  <2>3. QED
    BY <1>7, <2>1, <2>2
<1>12. CASE SpuriousWakeup \/ Gone \/ UNCHANGED vars
  <2>1. /\ UNCHANGED <<req, answer>>
        /\ \/ emu' = emu
           \/ emu = "statuswait" /\ emu' = "status"
           \/ emu = "sectorwait" /\ emu' = "scan"
    BY <1>12 DEF SpuriousWakeup, Gone, vars, emuVars
  <2>2. Phase' = Phase
    BY <2>1 DEF Phase
  <2>3. QED
    BY <1>7, <2>1, <2>2
<1>13. QED
  BY <1>1, <1>2, <1>3, <1>4, <1>5, <1>6, <1>9, <1>10, <1>11, <1>12
     DEF Next, EmuCall, EmuStep

(* Every behaviour of the two threads is one the single-threaded reader     *)
(* could have shown to the emulated drive.                                  *)
THEOREM Implementation == Spec => ImplementsST
<1>1. Init => ST!Init
  BY SameDisc DEF Init, Phase, ST!Init
<1>2. IInv /\ DataInv /\ IInv' /\ [Next]_vars => [ST!Next]_(ST!vars)
  BY StepSimulation
<1>3. QED
  BY <1>1, <1>2, Invariance, DataInvariance, PTL DEF Spec, ImplementsST, ST!Spec
=============================================================================
