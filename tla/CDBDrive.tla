------------------------------ MODULE CDBDrive ------------------------------
(***************************************************************************)
(* The drive of the CD block, ss/cdb.cpp: Drive_Run(), the commands that   *)
(* move it, and the file system FLS_Run(), which authenticates a disc and  *)
(* reads directories with it.  All run in the emulation's thread, but in   *)
(* the emulated time in any order: a command comes between any two steps.  *)
(* Of the sector buffers (CDBBuffers) only their number counts here.  The  *)
(* disc is one data track and its lead-out; scanning, CD audio, and        *)
(* positions given by track and index are left out.                        *)
(***************************************************************************)
EXTENDS Integers

CONSTANTS Leadout,         \* the number of sectors, and the position of the
                           \* lead-out
          TotalBuffers,    \* 0xC8
          Ends,            \* the ends that PLAY is given
          MaxRepeat        \* PlayCmdRepCnt is at most that
ASSUME DriveAssumption ==
  /\ Leadout \in Nat \ {0} /\ TotalBuffers \in Nat \ {0} /\ MaxRepeat \in 0..14
  /\ Ends \subseteq 0 .. Leadout + 2

VARIABLES drv,   \* the drive, CurPos*, CurPlay*
          disc,  \* Cur_CDIF: there is a disc and the tray is closed
          AuthDiscType,  \* it is not 0: sectors may be read
          FLS,   \* what the file system is at: an authentication, looking
                 \* for the root directory, reading a directory, or nothing
          bufs   \* the buffers that are not free: mine, in the file system's
                 \* partition, and all others
vars == <<drv, disc, AuthDiscType, FLS, bufs>>

Sectors == 0 .. Leadout
Beyond == Leadout + 1      \* CurSector stops here
Nowhere == Leadout + 2     \* fad 0xFFFFFF
NoEnd == Leadout + 2       \* CurPlayEnd = 0, or past the lead-out
AtOnce == 0                \* CurPlayEnd = 0x800000
VolumeDescriptor == 1      \* 0xA6
Free == TotalBuffers - bufs.mine - bufs.other
Min2(a, b) == IF a <= b THEN a ELSE b
-----------------------------------------------------------------------------
(* Of drv: SecPreBuf is the sector read ahead, SecPreBuf_In whether there   *)
(* is one (-1: a command has paused the drive since).  repeated is the bit  *)
(* 0x80 of PlayRepeatCounter.  due: every step of the drive in PLAY or      *)
(* PAUSE sets PeriodicIdleCounter so that one periodic check comes before   *)
(* the next step.  wanted, a history variable: the sector to deliver next.  *)
(* CurSector then only tells how long a seek takes, PauseCounter nothing.   *)
Restarted(d, phase) ==
  [d EXCEPT !.DrivePhase = phase, !.due = "any", !.CurSector = 0, !.PauseCounter = 0]
Emptied(d) == [d EXCEPT !.SecPreBuf_In = 0, !.SecPreBuf = 0]
SeekStart1(d) == [d EXCEPT !.fad = d.CurPlayStart, !.wanted = d.CurPlayStart]
SeekStart2(d) == Restarted(d, "start3")
ForceCompletePendingSeekStartup(d) ==
  CASE d.DrivePhase = "start1" -> SeekStart2(SeekStart1(d))
    [] d.DrivePhase = "start2" -> SeekStart2(d)
    [] OTHER -> d
ClearPendingSec(d) == [Emptied(d) EXCEPT !.PlayEndIRQType = FALSE]

StartSeek(d, target, end, repeat, irq, no_pickup_change) ==
  LET f == ForceCompletePendingSeekStartup(d)
      c == IF no_pickup_change THEN f ELSE ClearPendingSec(f)
      s == [c EXCEPT !.PlayRepeatCounter = 0, !.repeated = FALSE,
                     !.CurPlayStart = target, !.CurPlayEnd = end,
                     !.CurPlayRepeat = repeat, !.PlayEndIRQType = irq]
  IN  IF ~disc THEN d
      ELSE IF ~no_pickup_change THEN Restarted(s, "start1")
      ELSE IF s.DrivePhase = "play" THEN s
      ELSE Restarted(s, "start2")
SeekTo(d, target) == StartSeek(d, target, AtOnce, 0, FALSE, FALSE)
(* FLS_Run() plays on and on.                                               *)
PlayFrom(d, target) == StartSeek(d, target, NoEnd, 0, FALSE, FALSE)

CheckEndMet(d) ==
  d.fad >= Leadout \/ d.fad >= d.CurPlayEnd \/ d.fad < d.CurPlayStart

(* free: the number of buffers at the time of the call.                     *)
CheckBufPauseResume(d, free) ==
  IF d.DrivePhase = "pause" /\ ~CheckEndMet(d) /\ free > 0
  THEN Restarted(Emptied(d), "start2")
  ELSE d
-----------------------------------------------------------------------------
Init ==
  /\ drv = [DrivePhase |-> "ejected", CurSector |-> 0, fad |-> Nowhere,
            SecPreBuf |-> 0, SecPreBuf_In |-> 0, CurPlayStart |-> 0,
            CurPlayEnd |-> AtOnce, CurPlayRepeat |-> 0,
            PlayRepeatCounter |-> 0, repeated |-> FALSE,
            PlayEndIRQType |-> FALSE, PauseCounter |-> 0,
            due |-> "any", wanted |-> 0]
  /\ disc \in BOOLEAN
  /\ AuthDiscType = FALSE
  /\ FLS = "off"
  /\ bufs = [mine |-> 0, other |-> 0]

(* CDB_SetDisc().                                                           *)
OpenTray ==
  /\ disc' = FALSE /\ AuthDiscType' = FALSE
  /\ drv' = Restarted(drv, "ejected0")
  /\ UNCHANGED <<FLS, bufs>>
CloseTray ==
  /\ ~disc /\ disc' = TRUE
  /\ UNCHANGED <<drv, AuthDiscType, FLS, bufs>>
-----------------------------------------------------------------------------
(* Drive_Run().                                                             *)
Ejected ==
  /\ drv.DrivePhase = "ejected0"
  /\ drv' = [drv EXCEPT !.DrivePhase = "ejected", !.fad = Nowhere]
  /\ AuthDiscType' = FALSE
  /\ UNCHANGED <<disc, FLS, bufs>>

Moving ==
  /\ \/ /\ drv.DrivePhase = "ejected" /\ disc
        /\ drv' = [drv EXCEPT !.DrivePhase = "startup"]
     \/ /\ drv.DrivePhase = "startup"
        /\ drv' = SeekTo(drv, 0)
     \/ /\ drv.DrivePhase \in {"start1", "start2"}
        /\ drv' = ForceCompletePendingSeekStartup(drv)
     \/ /\ drv.DrivePhase = "start3"
        /\ drv' = [drv EXCEPT !.DrivePhase = "seek", !.CurSector = drv.fad]
     \/ /\ drv.DrivePhase = "seek" /\ drv.fad # Nowhere
        /\ drv' = [drv EXCEPT !.DrivePhase = "play"]
  /\ UNCHANGED <<disc, AuthDiscType, FLS, bufs>>

(* The sector at CurSector is read ahead, unless there is still one.        *)
ReadAhead(d) ==
  IF d.SecPreBuf_In # 0 THEN [d EXCEPT !.due = "check"]
  ELSE [d EXCEPT !.SecPreBuf = d.CurSector, !.SecPreBuf_In = 1,
                 !.fad = d.CurSector, !.due = "check"]
Delivered(d) ==
  [Emptied(d) EXCEPT !.CurSector = Min2(d.CurSector + 1, Beyond),
                     !.wanted = Min2(d.wanted + 1, Beyond)]
(* Mutation: an authentication does not connect the drive.                  *)
Stored_Unconnected ==
  IF ~AuthDiscType THEN {bufs}
  ELSE {bufs, [bufs EXCEPT !.mine = bufs.mine + 1], [bufs EXCEPT !.other = bufs.other + 1]}
(* Where FilterBuf() may put it; for an authentication the drive is         *)
(* connected to the file system's partition.                                *)
Stored ==
  LET into == {[bufs EXCEPT !.mine = bufs.mine + 1]}
      elsewhere == {bufs, [bufs EXCEPT !.other = bufs.other + 1]}
  IN  IF ~AuthDiscType THEN {bufs}
      ELSE IF FLS = "auth" THEN into ELSE into \cup elsewhere

(* Mutation: it is not asked whether there is a buffer.                     *)
Play_Unasked ==
  /\ drv.DrivePhase = "play" /\ drv.due # "check"
  /\ IF drv.SecPreBuf_In = 1
     THEN drv' = ReadAhead(Delivered(drv)) /\ bufs' \in Stored
     ELSE drv' = ReadAhead(drv) /\ UNCHANGED bufs
  /\ UNCHANGED <<disc, AuthDiscType, FLS>>
Play ==
  /\ drv.DrivePhase = "play" /\ drv.due # "check"
  /\ IF drv.SecPreBuf_In = 1 /\ Free > 0
     THEN drv' = ReadAhead(Delivered(drv)) /\ bufs' \in Stored
     ELSE drv' = ReadAhead(drv) /\ UNCHANGED bufs
  /\ UNCHANGED <<disc, AuthDiscType, FLS>>
Paused ==
  /\ drv.DrivePhase = "pause" /\ drv.due # "check"
  /\ drv' = ReadAhead(drv)
  /\ UNCHANGED <<disc, AuthDiscType, FLS, bufs>>

(* The periodic check.                                                      *)
(* Mutation: only commands that free buffers let the drive go on.           *)
Resumes_Never(d) == FALSE
Resumes(d) == ~CheckEndMet(d) /\ Free > 0
CheckPaused(d) ==
  LET p == [Emptied(d) EXCEPT !.due = "step"]
  IN  CASE d.PauseCounter = 1 ->
             [p EXCEPT !.PauseCounter = -1,
                       !.PlayEndIRQType = d.PlayEndIRQType /\ ~CheckEndMet(d)]
        [] d.PauseCounter = 0 -> [p EXCEPT !.PauseCounter = 1]
        [] d.PauseCounter = -1 ->
             IF Resumes(d) THEN Restarted(p, "start2") ELSE p
(* Mutation: the sector that found no buffer is not read again.             *)
BufferFullPause_Skip(p) ==
  [p EXCEPT !.DrivePhase = "pause", !.PauseCounter = 0, !.CurSector = p.CurSector + 1]
BufferFullPause(p) == [p EXCEPT !.DrivePhase = "pause", !.PauseCounter = 0]
CheckPlaying(d) ==
  LET p == [Emptied(d) EXCEPT !.due = "step"]
      over == d.repeated \/ d.PlayRepeatCounter >= d.CurPlayRepeat
  IN  CASE CheckEndMet(d) /\ over ->
             [p EXCEPT !.CurSector = d.fad, !.DrivePhase = "pause",
                       !.PauseCounter = IF d.PlayEndIRQType THEN 0 ELSE 1]
        [] CheckEndMet(d) /\ ~over ->
             SeekStart2(SeekStart1(
               [p EXCEPT !.PlayRepeatCounter = Min2(d.PlayRepeatCounter + 1, 14),
                         !.repeated = TRUE]))
        [] ~CheckEndMet(d) /\ Free = 0 -> BufferFullPause(p)
        [] OTHER -> [d EXCEPT !.repeated = FALSE, !.due = "step"]
Periodic ==
  /\ drv.DrivePhase \in {"play", "pause"} /\ drv.due # "step"
  /\ drv' = IF drv.SecPreBuf_In = 0 THEN [drv EXCEPT !.due = "step"]
            ELSE IF drv.DrivePhase = "pause" THEN CheckPaused(drv)
            ELSE CheckPlaying(drv)
  /\ UNCHANGED <<disc, AuthDiscType, FLS, bufs>>
-----------------------------------------------------------------------------
(* FLS_Run(), which waits for a sector in its partition.  Whether the root  *)
(* directory is known already is left open.                                 *)
Pausing(d) == [d EXCEPT !.PlayEndIRQType = FALSE, !.CurPlayEnd = AtOnce,
                        !.CurPlayRepeat = 0]
ReadDir(d) == /\ FLS' = "dir"
              /\ bufs' = [bufs EXCEPT !.mine = 0]
              /\ \E s \in Sectors : drv' = PlayFrom(d, s)

Grabbed == CheckBufPauseResume(drv, Free + 1)
FLS_Auth ==
  /\ FLS = "auth" /\ bufs.mine > 0
  /\ FLS' = "off" /\ bufs' = [bufs EXCEPT !.mine = 0]
  /\ AuthDiscType' = TRUE
  /\ drv' = Pausing(SeekTo(Grabbed, 0))
  /\ UNCHANGED disc
FLS_Read ==
  /\ FLS \in {"volume", "dir"} /\ bufs.mine > 0
  /\ \/ /\ UNCHANGED FLS /\ drv' = Grabbed
        /\ bufs' = [bufs EXCEPT !.mine = bufs.mine - 1]
     \/ FLS = "volume" /\ ReadDir(Grabbed)
     \/ /\ FLS' = "off" /\ drv' = Pausing(Grabbed)
        /\ bufs' = [bufs EXCEPT !.mine = 0]
  /\ UNCHANGED <<disc, AuthDiscType>>
-----------------------------------------------------------------------------
(* Commands; all are refused during an authentication.                      *)
Authenticating == FLS = "auth"
Active == FLS # "off"

Command_Play ==
  /\ ~Authenticating
  /\ \E start \in Sectors, end \in Ends,
        repeat \in 0..MaxRepeat, keep \in BOOLEAN :
       drv' = StartSeek(drv, start, end, repeat, TRUE, keep)
  /\ UNCHANGED <<disc, AuthDiscType, FLS, bufs>>

(* COMMAND_SEEK: to a sector, stop, or pause.                               *)
Command_Seek ==
  /\ ~Authenticating
  /\ \E s \in Sectors : drv' = SeekTo(drv, s)
  /\ UNCHANGED <<disc, AuthDiscType, FLS, bufs>>
Command_Stop ==
  /\ ~Authenticating
  /\ drv' = [Restarted(ClearPendingSec(drv), "stopped") EXCEPT !.fad = Nowhere]
  /\ UNCHANGED <<disc, AuthDiscType, FLS, bufs>>
Command_Pause ==
  /\ ~Authenticating
  /\ LET d == IF drv.DrivePhase = "stopped" THEN SeekTo(drv, 0) ELSE drv
     IN  drv' = [Pausing(d) EXCEPT
                   !.SecPreBuf_In = IF d.SecPreBuf_In # 0 THEN -1 ELSE 0]
  /\ UNCHANGED <<disc, AuthDiscType, FLS, bufs>>

(* COMMAND_INIT, without and with a software reset.                         *)
Command_Init ==
  /\ ~Authenticating
  /\ drv' = Pausing(ClearPendingSec(drv))
  /\ \/ UNCHANGED <<FLS, bufs>>
     \/ FLS' = "off" /\ bufs' = [mine |-> 0, other |-> 0]
  /\ UNCHANGED <<disc, AuthDiscType>>

Fewer == {b \in [mine : 0 .. bufs.mine, other : 0 .. bufs.other] : TRUE}
Held == {b \in [mine : 0..TotalBuffers, other : 0..TotalBuffers] :
           b.mine + b.other <= TotalBuffers}
SameHeld == {b \in Held : b.mine + b.other = bufs.mine + bufs.other}
(* Commands that end a transfer, or delete or reset partitions.             *)
Command_Free ==
  /\ ~Authenticating /\ bufs' \in Fewer
  /\ drv' = CheckBufPauseResume(drv, Free')
  /\ UNCHANGED <<disc, AuthDiscType, FLS>>
(* Commands that put, take, copy or move sectors; a filter may discard them.*)
Command_Use ==
  /\ ~Authenticating /\ bufs' \in Held
  /\ UNCHANGED <<drv, disc, AuthDiscType, FLS>>
Command_ReadFile ==
  /\ ~Active /\ bufs' \in Fewer
  /\ \E start \in Sectors, end \in Sectors :
       drv' = StartSeek(drv, start, end, 0, TRUE, FALSE)
  /\ UNCHANGED <<disc, AuthDiscType, FLS>>

(* The file system begins, with any partition, or is stopped; FLS_Run() has *)
(* its turn before the emulated program has another.                        *)
Command_AuthDevice ==
  /\ ~Active
  /\ FLS' = "auth" /\ AuthDiscType' = TRUE
  /\ bufs' \in SameHeld
  /\ drv' = PlayFrom(drv, 0)
  /\ UNCHANGED disc
Command_ReadDir ==
  /\ ~Active
  /\ \/ /\ FLS' = "volume" /\ bufs' \in SameHeld
        /\ drv' = PlayFrom(drv, VolumeDescriptor)
     \/ \E b \in SameHeld :
          /\ FLS' = "dir" /\ bufs' = [b EXCEPT !.mine = 0]
          /\ \E s \in Sectors : drv' = PlayFrom(drv, s)
  /\ UNCHANGED <<disc, AuthDiscType>>
Command_AbortFile ==
  /\ ~Authenticating
  /\ FLS' = "off" /\ drv' = Pausing(drv)
  /\ UNCHANGED <<disc, AuthDiscType, bufs>>
-----------------------------------------------------------------------------
Drive == Ejected \/ Moving \/ Play \/ Paused
FileSystem == FLS_Auth \/ FLS_Read
Command == \/ Command_Play \/ Command_Seek \/ Command_Stop \/ Command_Pause
           \/ Command_Init \/ Command_Free \/ Command_Use \/ Command_ReadFile
           \/ Command_AuthDevice \/ Command_ReadDir \/ Command_AbortFile
Next == Drive \/ Periodic \/ FileSystem \/ Command \/ OpenTray \/ CloseTray

Spec == Init /\ [][Next]_vars
(* CDB_Update() runs the drive whenever its time has come, and the file     *)
(* system whenever there is no command.                                     *)
FairSpec == Spec /\ WF_vars(Drive) /\ WF_vars(Periodic) /\ WF_vars(FileSystem)
-----------------------------------------------------------------------------
Positions == 0 .. Nowhere
Phases == {"ejected0", "ejected", "startup", "stopped", "start1", "start2",
           "start3", "seek", "play", "pause"}
Drives == [DrivePhase : Phases, CurSector : Positions, fad : Positions,
           SecPreBuf : Positions, SecPreBuf_In : -1..1, CurPlayStart : Sectors,
           CurPlayEnd : Positions, CurPlayRepeat : 0..MaxRepeat,
           PlayRepeatCounter : 0..14, repeated : BOOLEAN,
           PlayEndIRQType : BOOLEAN, PauseCounter : -1..1,
           due : {"any", "step", "check"}, wanted : Positions]
TypeOK ==
  /\ drv \in Drives
  /\ disc \in BOOLEAN /\ AuthDiscType \in BOOLEAN
  /\ FLS \in {"off", "auth", "volume", "dir"}
  /\ bufs \in Held

(* Between two changes of position the sectors are delivered in order, none *)
(* twice and none left out: not at a pause because all buffers are full, at *)
(* a pause by command that is continued, nor when playing is told to go on  *)
(* from where the pickup is.                                                *)
NoSectorLost ==
  drv.DrivePhase = "play"
  => drv.wanted = IF drv.SecPreBuf_In # 0 THEN drv.SecPreBuf ELSE drv.CurSector

(* A PLAY or READ_FILE ends, and says so (PlayEndIRQType), if the program   *)
(* does no more than read and free sectors, and from some time on there is  *)
(* a free buffer: a drive that pauses because the buffers are full goes on  *)
(* when one is free.  Not when it was told to play on from nowhere (after a *)
(* stop), nor when a pause by command is undone before it has begun.        *)
LeftAlone == <>[][Drive \/ Periodic \/ FileSystem \/ Command_Free \/ Command_Use]_vars
Owes == /\ drv.PlayEndIRQType /\ disc /\ Free > 0
        /\ drv.DrivePhase # "stopped" /\ drv.fad # Nowhere
HeldBack == drv.SecPreBuf_In = -1 /\ ~CheckEndMet(drv)
PlayEnds == LeftAlone => ~<>[](Owes /\ ~HeldBack)

(* An authentication ends once the drive plays for it, if the program's     *)
(* sectors leave a buffer for its sector and the tray stays closed.         *)
PlaysForAuth ==
  /\ FLS = "auth" /\ AuthDiscType /\ drv.CurPlayEnd = NoEnd
  /\ drv.DrivePhase \in {"start1", "start2", "start3", "seek", "play", "pause"}
  /\ bufs.mine > 0 \/ Free > 0
AuthEnds == PlaysForAuth ~> (FLS # "auth" \/ ~disc)
=============================================================================
