--------------------------- MODULE CDInterface_MT ---------------------------
(***************************************************************************)
(* The multi-threaded disc reader (cdrom/CDInterface_MT.cpp): the          *)
(* emulation thread posts sector requests and hints to a read thread,      *)
(* which reads ahead into a ring of SBSize sector buffers; a request is    *)
(* answered from the ring.                                                 *)
(*                                                                         *)
(* Every critical section (of a message queue, of SBMutex) is one action;  *)
(* a thread blocked in Cond_Wait() has a pc of its own, which only a       *)
(* Cond_Signal() of the other thread (or a spurious wakeup) leaves.  What  *)
(* the read thread does between two critical sections touches only its own *)
(* state and the immutable disc, and is part of the action before it.      *)
(***************************************************************************)
EXTENDS CDDisc, Sequences

CONSTANTS
  Hints,            (* the LBAs HintReadSector() is given; unchecked       *)
  SBSize,           (* sector buffers in the ring: 256                     *)
  max_ra,           (* how far to read ahead of the last request: 16       *)
  speedmult_ra,     (* sectors read per sequential request: 2              *)
  MaxQueue          (* bound: messages the emulation thread runs ahead by  *)

ASSUME HintsAssumption == Hints \subseteq Int

(* The code asserts max_ra < SBSize / 4; this much is enough.               *)
ASSUME ReadAheadAssumption ==
  /\ SBSize \in Nat
  /\ max_ra \in Nat
  /\ max_ra + 1 <= SBSize
  /\ speedmult_ra \in Nat \ {0}
  /\ MaxQueue \in Nat

VARIABLES
  emu,            (* pc of the emulation thread                            *)
  req,            (* the LBA its ReadRawSector() waits for, or NoLBA       *)
  answer,         (* what its last finished call returned                  *)
  EmuThreadQueue,
  rt,             (* pc of the read thread                                 *)
  ReadThreadQueue,
  ra_lba, ra_count, last_read_lba,
  tmpbuf,         (* the sector just read, not yet in the ring             *)
  SBWritePos, SectorBuffers,
  Running

emuVars == <<emu, req, answer>>
raVars == <<ra_lba, ra_count, last_read_lba>>
ringVars == <<SBWritePos, SectorBuffers>>
vars == <<emuVars, EmuThreadQueue, rt, ReadThreadQueue, raVars, tmpbuf,
          ringVars, Running>>
-----------------------------------------------------------------------------
NoRead == LBA_Read_Maximum + 1   \* last_read_lba before the first request

Slots == 0 .. SBSize - 1
(* Mutation: the buffer is not cleared after a failed read.                 *)
Sector_NotZeroed(lba, error) == [valid |-> TRUE, error |-> error, lba |-> lba,
                                 data |-> DiscData(lba)]
Sector(lba, error) == [valid |-> TRUE, error |-> error, lba |-> lba,
                       data |-> Contents(lba, error)]
EmptySector == [valid |-> FALSE, error |-> FALSE, lba |-> 0, data |-> Zeroed]

ReadSectorMsg(lba) == [message |-> "READ_SECTOR", lba |-> lba]
DieMsg == [message |-> "DIEDIEDIE", lba |-> 0]

(* Mutation: nobody is signalled.                                           *)
Signaled_Never(pc, from, to) == pc
(* CDInterface_Queue::Write(): push and signal under the queue's mutex.     *)
Signaled(pc, from, to) == IF pc = from THEN to ELSE pc
(* Mutation: the newest message first.                                      *)
WriteToReadThread_Newest(msg) ==
  /\ ReadThreadQueue' = <<msg>> \o ReadThreadQueue
  /\ rt' = Signaled(rt, "msgwait", "loop")
WriteToReadThread(msg) ==
  /\ ReadThreadQueue' = Append(ReadThreadQueue, msg)
  /\ rt' = Signaled(rt, "msgwait", "loop")
WriteToEmuThread(status) ==
  /\ EmuThreadQueue' = Append(EmuThreadQueue, status)
  /\ emu' = Signaled(emu, "statuswait", "status")
-----------------------------------------------------------------------------
Init ==
  /\ emu = "construct" /\ req = NoLBA /\ answer = NoAnswer
  /\ EmuThreadQueue = <<>> /\ ReadThreadQueue = <<>>
  /\ rt = "none" /\ Running = TRUE
  /\ ra_lba = 0 /\ ra_count = 0 /\ last_read_lba = NoRead
  /\ tmpbuf = EmptySector
  /\ SBWritePos = 0 /\ SectorBuffers = [i \in Slots |-> EmptySector]

(* The constructor starts the read thread and blocks for its status.        *)
CreateThread ==
  /\ emu = "construct"
  /\ emu' = "status" /\ rt' = "start"
  /\ UNCHANGED <<req, answer, EmuThreadQueue, ReadThreadQueue, raVars, tmpbuf,
                 ringVars, Running>>

WaitStatus ==
  /\ emu = "status" /\ EmuThreadQueue = <<>>
  /\ emu' = "statuswait"
  /\ UNCHANGED <<req, answer, EmuThreadQueue, rt, ReadThreadQueue, raVars,
                 tmpbuf, ringVars, Running>>

StatusDone ==
  /\ emu = "status" /\ EmuThreadQueue # <<>>
  /\ Head(EmuThreadQueue) = "DONE"
  /\ EmuThreadQueue' = Tail(EmuThreadQueue)
  /\ emu' = "idle"
  /\ UNCHANGED <<req, answer, rt, ReadThreadQueue, raVars, tmpbuf, ringVars,
                 Running>>

(* Queue::Read() throws on FATAL_ERROR, and after DONE setting the read     *)
(* thread's affinity may throw: the constructor runs Cleanup(), which posts *)
(* DIEDIEDIE to a thread that has ended, or to one that runs, and rethrows. *)
ConstructFails ==
  /\ emu = "status" /\ EmuThreadQueue # <<>>
  /\ EmuThreadQueue' = Tail(EmuThreadQueue)
  /\ emu' = "abandon"
  /\ WriteToReadThread(DieMsg)
  /\ UNCHANGED <<req, answer, raVars, tmpbuf, ringVars, Running>>
-----------------------------------------------------------------------------
(* Requests of the emulation thread.                                        *)

Ready == emu = "idle" /\ Len(ReadThreadQueue) < MaxQueue

OutOfBounds(lba) ==
  /\ lba \notin LBAs
  /\ answer' = Answer(lba, FALSE, Zeroed)
  /\ UNCHANGED <<emu, req, rt, ReadThreadQueue>>

BeginRead(lba) ==
  /\ lba \in LBAs
  /\ WriteToReadThread(ReadSectorMsg(lba))
  /\ emu' = "scan" /\ req' = lba /\ answer' = NoAnswer

ReadRawSector(lba) ==
  /\ Ready
  /\ OutOfBounds(lba) \/ BeginRead(lba)
  /\ UNCHANGED <<EmuThreadQueue, raVars, tmpbuf, ringVars, Running>>

(* The ring is searched to its end: of several buffers that hold the        *)
(* sector, the one with the highest index wins, not the newest.             *)
Holders(lba) == {i \in Slots : SectorBuffers[i].valid /\ SectorBuffers[i].lba = lba}

FoundSector ==
  /\ emu = "scan"
  /\ \E i \in Holders(req) :
       /\ \A j \in Holders(req) : j <= i
       /\ answer' = Answer(req, ~SectorBuffers[i].error, SectorBuffers[i].data)
  /\ emu' = "idle" /\ req' = NoLBA
  /\ UNCHANGED <<EmuThreadQueue, rt, ReadThreadQueue, raVars, tmpbuf, ringVars,
                 Running>>

WaitSector ==
  /\ emu = "scan" /\ Holders(req) = {}
  /\ emu' = "sectorwait"
  /\ UNCHANGED <<req, answer, EmuThreadQueue, rt, ReadThreadQueue, raVars,
                 tmpbuf, ringVars, Running>>

HintReadSector(lba) ==
  /\ Ready
  /\ WriteToReadThread(ReadSectorMsg(lba))
  /\ UNCHANGED <<emuVars, EmuThreadQueue, raVars, tmpbuf, ringVars, Running>>

ReadRawSectorPWOnly(lba, hint_fullread) ==
  /\ Ready
  /\ \/ OutOfBounds(lba)
     \/ /\ lba \in FastPW \cap LBAs
        /\ answer' = Answer(lba, TRUE, DiscData(lba))
        /\ IF hint_fullread THEN WriteToReadThread(ReadSectorMsg(lba))
                            ELSE UNCHANGED <<rt, ReadThreadQueue>>
        /\ UNCHANGED <<emu, req>>
     \/ lba \notin FastPW /\ BeginRead(lba)
  /\ UNCHANGED <<EmuThreadQueue, raVars, tmpbuf, ringVars, Running>>

(* The destructor: Cleanup() posts DIEDIEDIE and joins the read thread.     *)
Destroy ==
  /\ emu = "idle"
  /\ WriteToReadThread(DieMsg)
  /\ emu' = "join"
  /\ UNCHANGED <<req, answer, EmuThreadQueue, raVars, tmpbuf, ringVars, Running>>

ThreadWait ==
  /\ rt = "exited"
  /\ \/ emu = "join" /\ emu' = "closed"
     \/ emu = "abandon" /\ emu' = "failed"
  /\ UNCHANGED <<req, answer, EmuThreadQueue, rt, ReadThreadQueue, raVars,
                 tmpbuf, ringVars, Running>>
-----------------------------------------------------------------------------
(* The read thread.                                                         *)

ReadTOC ==
  /\ rt = "start"
  /\ \/ WriteToEmuThread("DONE") /\ rt' = "loop"
     \/ WriteToEmuThread("FATAL_ERROR") /\ rt' = "exited"
  /\ UNCHANGED <<req, answer, ReadThreadQueue, raVars, tmpbuf, ringVars, Running>>

(* It blocks for a message only when there is nothing to read ahead.        *)
WaitMessage ==
  /\ rt = "loop" /\ ReadThreadQueue = <<>> /\ ra_count = 0
  /\ rt' = "msgwait"
  /\ UNCHANGED <<emuVars, EmuThreadQueue, ReadThreadQueue, raVars, tmpbuf,
                 ringVars, Running>>

SmallerOf(a, b) == IF a <= b THEN a ELSE b

(* What a READ_SECTOR for new_lba makes of the read-ahead state.            *)
how_far_ahead(new_lba) == ra_lba - new_lba
(* Mutation: off by one in the distance allowed.                            *)
SequentialCount_OneMore(new_lba) ==
  IF how_far_ahead(new_lba) <= max_ra
  THEN SmallerOf(speedmult_ra, 2 + max_ra - how_far_ahead(new_lba))
  ELSE ra_count + 1
SequentialCount(new_lba) ==
  IF how_far_ahead(new_lba) <= max_ra
  THEN SmallerOf(speedmult_ra, 1 + max_ra - how_far_ahead(new_lba))
  ELSE ra_count + 1
(* Mutations: a seek back within what was read is not a seek; a seek does   *)
(* not schedule the sector.                                                 *)
Schedule_NoSeekBack(new_lba) ==
  IF new_lba = last_read_lba + 1
  THEN [lba |-> ra_lba, count |-> SequentialCount(new_lba)]
  ELSE IF new_lba > last_read_lba
       THEN [lba |-> new_lba, count |-> 1]
       ELSE [lba |-> ra_lba, count |-> ra_count]
Schedule_NoCount(new_lba) ==
  IF new_lba = last_read_lba + 1
  THEN [lba |-> ra_lba, count |-> SequentialCount(new_lba)]
  ELSE IF new_lba # last_read_lba
       THEN [lba |-> new_lba, count |-> ra_count]
       ELSE [lba |-> ra_lba, count |-> ra_count]
Schedule(new_lba) ==
  IF new_lba = last_read_lba + 1
  THEN [lba |-> ra_lba, count |-> SequentialCount(new_lba)]
  ELSE IF new_lba # last_read_lba
       THEN [lba |-> new_lba, count |-> 1]
       ELSE [lba |-> ra_lba, count |-> ra_count]

(* The rest of an iteration: nothing beyond the disc is read; the sector is *)
(* read without a lock.  Without a sector to read the loop ends or repeats. *)
(* Mutation: DIEDIEDIE is noticed only while there are sectors to read.     *)
ReadSector_NoExit(lba, count) ==
  /\ ra_lba' = lba
  /\ IF count > 0 /\ lba <= LBA_Read_Maximum
     THEN /\ ra_count' = count
          /\ rt' = "store"
          /\ \E error \in ReadErrors(lba) : tmpbuf' = Sector(lba, error)
     ELSE ra_count' = 0 /\ rt' = "loop" /\ UNCHANGED tmpbuf
ReadSector(lba, count) ==
  /\ ra_lba' = lba
  /\ IF count > 0 /\ lba <= LBA_Read_Maximum
     THEN /\ ra_count' = count
          /\ rt' = "store"
          /\ \E error \in ReadErrors(lba) : tmpbuf' = Sector(lba, error)
     ELSE /\ ra_count' = 0
          /\ rt' = IF Running' THEN "loop" ELSE "exited"
          /\ UNCHANGED tmpbuf

HandleReadSector ==
  /\ rt = "loop" /\ ReadThreadQueue # <<>>
  /\ LET msg == Head(ReadThreadQueue)
         next == Schedule(msg.lba)
     IN  /\ msg.message = "READ_SECTOR"
         /\ last_read_lba' = msg.lba
         /\ UNCHANGED Running
         /\ ReadSector(next.lba, next.count)
  /\ ReadThreadQueue' = Tail(ReadThreadQueue)
  /\ UNCHANGED <<emuVars, EmuThreadQueue, ringVars>>

HandleDie ==
  /\ rt = "loop" /\ ReadThreadQueue # <<>>
  /\ Head(ReadThreadQueue).message = "DIEDIEDIE"
  /\ Running' = FALSE
  /\ ReadSector(ra_lba, ra_count)
  /\ ReadThreadQueue' = Tail(ReadThreadQueue)
  /\ UNCHANGED <<emuVars, EmuThreadQueue, last_read_lba, ringVars>>

ReadAhead ==
  /\ rt = "loop" /\ ReadThreadQueue = <<>> /\ ra_count > 0
  /\ UNCHANGED Running
  /\ ReadSector(ra_lba, ra_count)
  /\ UNCHANGED <<emuVars, EmuThreadQueue, ReadThreadQueue, last_read_lba,
                 ringVars>>

NextWritePos == (SBWritePos + 1) % SBSize

(* Mutation: a sector that failed is tried again.                           *)
StoreSector_Retry ==
  /\ rt = "store"
  /\ SectorBuffers' = [SectorBuffers EXCEPT ![SBWritePos] = tmpbuf]
  /\ SBWritePos' = NextWritePos
  /\ emu' = Signaled(emu, "sectorwait", "scan")
  /\ IF tmpbuf.error THEN UNCHANGED <<ra_lba, ra_count>>
                     ELSE ra_lba' = ra_lba + 1 /\ ra_count' = ra_count - 1
  /\ rt' = IF Running THEN "loop" ELSE "exited"
  /\ UNCHANGED <<req, answer, EmuThreadQueue, ReadThreadQueue, last_read_lba,
                 tmpbuf, Running>>
StoreSector ==
  /\ rt = "store"
  /\ SectorBuffers' = [SectorBuffers EXCEPT ![SBWritePos] = tmpbuf]
  /\ SBWritePos' = NextWritePos
  /\ emu' = Signaled(emu, "sectorwait", "scan")
  /\ ra_lba' = ra_lba + 1 /\ ra_count' = ra_count - 1
  /\ rt' = IF Running THEN "loop" ELSE "exited"
  /\ UNCHANGED <<req, answer, EmuThreadQueue, ReadThreadQueue, last_read_lba,
                 tmpbuf, Running>>
-----------------------------------------------------------------------------
(* Cond_Wait() may return without a signal.                                 *)
SpuriousWakeup ==
  \/ /\ emu = "sectorwait" /\ emu' = "scan"
     /\ UNCHANGED <<req, answer, EmuThreadQueue, rt, ReadThreadQueue, raVars,
                    tmpbuf, ringVars, Running>>
  \/ /\ emu = "statuswait" /\ emu' = "status"
     /\ UNCHANGED <<req, answer, EmuThreadQueue, rt, ReadThreadQueue, raVars,
                    tmpbuf, ringVars, Running>>
  \/ /\ rt = "msgwait" /\ rt' = "loop"
     /\ UNCHANGED <<emuVars, EmuThreadQueue, ReadThreadQueue, raVars, tmpbuf,
                    ringVars, Running>>

Gone == emu \in {"closed", "failed"} /\ UNCHANGED vars

EmuCall ==
  \/ \E lba \in Requests : ReadRawSector(lba)
  \/ \E lba \in Requests, hint \in BOOLEAN : ReadRawSectorPWOnly(lba, hint)
  \/ \E lba \in Hints : HintReadSector(lba)
  \/ Destroy

EmuStep ==
  CreateThread \/ WaitStatus \/ StatusDone \/ ConstructFails
  \/ FoundSector \/ WaitSector \/ ThreadWait

ReadThread ==
  ReadTOC \/ WaitMessage \/ HandleReadSector \/ HandleDie \/ ReadAhead
  \/ StoreSector

Next == EmuCall \/ EmuStep \/ ReadThread \/ SpuriousWakeup \/ Gone

Spec == Init /\ [][Next]_vars

(* The threads are scheduled fairly; the emulated machine need not ever ask *)
(* for a sector.                                                            *)
LiveSpec == Spec /\ WF_vars(EmuStep) /\ WF_vars(ReadThread)
-----------------------------------------------------------------------------
Statuses == {"DONE", "FATAL_ERROR"}
Messages == [message : {"READ_SECTOR", "DIEDIEDIE"}, lba : Int]
SectorType == [valid : BOOLEAN, error : BOOLEAN, lba : Int, data : SUBSET Int]

TypeOK ==
  /\ emu \in {"construct", "status", "statuswait", "idle", "scan",
              "sectorwait", "join", "abandon", "closed", "failed"}
  /\ req \in LBAs \cup {NoLBA}
  /\ answer \in Answers
  /\ EmuThreadQueue \in Seq(Statuses)
  /\ rt \in {"none", "start", "loop", "msgwait", "store", "exited"}
  /\ ReadThreadQueue \in Seq(Messages)
  /\ ra_lba \in Int /\ ra_count \in Nat /\ last_read_lba \in Int
  /\ tmpbuf \in SectorType
  /\ SBWritePos \in Slots
  /\ SectorBuffers \in [Slots -> SectorType]
  /\ Running \in BOOLEAN
-----------------------------------------------------------------------------
(* The read-ahead window [last_read_lba, ra_lba) is what the last request   *)
(* and the read-ahead after it brought in (ReadThreadStart, 179-198).       *)
Window(lba) == last_read_lba <= lba /\ lba < ra_lba

(* Every sector of the window is still in the ring: wrapping SBWritePos     *)
(* never evicts the sector asked for, nor one read ahead of it, before the  *)
(* next request moves the window.                                           *)
WindowInRing == \A lba \in LBAs : Window(lba) => Holders(lba) # {}

(* However requests and hints interleave with the reading, the read thread  *)
(* never commits to more than max_ra sectors beyond the last request; so    *)
(* how_far_ahead <= max_ra always holds, and the branch that just           *)
(* increments ra_count is dead code.                                        *)
ReadAheadBounded ==
  /\ ra_lba + ra_count <= last_read_lba + 1 + max_ra
  /\ ra_count <= speedmult_ra

(* While the emulation thread waits for a sector, its request is the last   *)
(* message of the queue, or the read thread has it in its window or in hand *)
(* and has yet to store it.                                                 *)
RequestPending ==
  emu \in {"scan", "sectorwait"} =>
    IF ReadThreadQueue # <<>>
    THEN ReadThreadQueue[Len(ReadThreadQueue)] = ReadSectorMsg(req)
    ELSE /\ last_read_lba = req
         /\ Window(req) \/ (rt = "store" /\ ra_lba = req)

(* No wakeup is lost: a thread waits on a condition only while what it      *)
(* waits for is missing, and never both wait for each other.                *)
NoLostWakeup ==
  /\ rt = "msgwait" => ReadThreadQueue = <<>> /\ ra_count = 0
  /\ emu = "sectorwait" => Holders(req) = {} /\ rt \notin {"msgwait", "exited"}
  /\ emu = "statuswait" => EmuThreadQueue = <<>>

(* The multi-threaded reader gives the answers the single-threaded one      *)
(* could have given: right sector, right data, a failure with zeroed data   *)
(* only for a sector whose reading may fail.                                *)
Phase ==
  CASE emu \in {"construct", "status", "statuswait", "abandon"} -> "opening"
    [] emu \in {"idle", "scan", "sectorwait"} -> "open"
    [] emu \in {"join", "closed"} -> "closed"
    [] emu = "failed" -> "failed"

ST == INSTANCE CDInterface_ST WITH phase <- Phase, call <- req

ImplementsST == ST!Spec

(* The emulation thread is never left waiting: the constructor, every       *)
(* ReadRawSector() and the destructor return, whatever the read thread was  *)
(* doing; after a fatal error too, when nobody reads DIEDIEDIE.             *)
CallsReturn ==
  /\ <>(emu \in {"idle", "failed"})
  /\ emu = "scan" ~> emu = "idle"
  /\ emu = "join" ~> emu = "closed"

(* Reading ahead comes to rest by itself: once the emulation thread makes   *)
(* no more calls, the read thread blocks for a message (ReadThreadStart     *)
(* blocks only when ra_count is 0, and every sector read lowers it).        *)
ReadAheadRests ==
  []<><<EmuCall>>_vars \/ []<>(emu # "idle" \/ rt = "msgwait")
=============================================================================
