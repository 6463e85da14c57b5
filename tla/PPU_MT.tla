------------------------------- MODULE PPU_MT -------------------------------
(***************************************************************************)
(* snes_faust/ppu_mtrender: the SNES picture drawn by a thread of its own. *)
(* The emulation puts commands into the ring WQ without asking, and        *)
(* publishes them in batches: with the lines to draw, at the end of a      *)
(* skipped frame, when the ring is full, and at the end of Emulate(), when *)
(* it also waits for the renderer.  The renderer executes all that was     *)
(* published, then says so.  Its state is not locked: the emulation writes *)
(* to it itself at the beginning of a frame, when it loads a state and on  *)
(* a reset.                                                                *)
(*                                                                         *)
(* With speculative execution (SpecEx) Emulate() runs a frame without      *)
(* picture, saves the state, runs the frame to be shown and goes back.     *)
(* The two frames follow each other without waiting for the renderer.      *)
(*                                                                         *)
(* Both threads wait for a millisecond at most at a time and then look     *)
(* again: the semaphores make that shorter and are left out.               *)
(***************************************************************************)
EXTENDS PPUData

CONSTANTS WQ_Size,      \* 65536
          FrameSkip     \* what MDFNI_Emulate() may ask for

ASSUME RingAssumption ==
  WQ_Size \in Nat \ {0, 1} /\ FrameSkip \subseteq BOOLEAN /\ FrameSkip # {}

LastLine == Height + 1      \* always in the vertical blanking
NotSaved == [reg |-> None, scanline |-> 0, VBlank |-> FALSE]

VARIABLES
  SpecEx, FrameBeginVBlank,   \* settings
  emu,           \* the emulation thread
  hand, ret,     \* WWQ()'s argument, and where the call returns to
  frame,         \* which frame is emulated
  scanline, LinePhase, VBlank, SkipFrame,
  raw,           \* the emulation's own copy of the registers
  saved,         \* the state to go back to, when there is one
  WQ, WritePos, ReadPos, TMP_WritePos, TMP_ReadPos,
  rt, rtRead, rtWrite,   \* the render thread and its copies of the positions
  rend           \* the renderer's state
settings == <<SpecEx, FrameBeginVBlank>>
call == <<emu, hand, ret>>
line == <<scanline, LinePhase, VBlank, SkipFrame>>
machine == <<raw, saved>>
published == <<TMP_WritePos, TMP_ReadPos>>
ring == <<WQ, WritePos, ReadPos, published>>
thread == <<rt, rtRead, rtWrite>>
vars == <<settings, call, frame, line, machine, ring, thread, rend>>

Init ==
  /\ SpecEx \in BOOLEAN /\ FrameBeginVBlank \in BOOLEAN
  /\ emu = "idle" /\ hand = NoCmd /\ ret = "run" /\ frame = "none"
  /\ scanline = LastLine /\ LinePhase = 0 /\ VBlank = FALSE /\ SkipFrame = FALSE
  /\ raw \in Values /\ saved = NotSaved
  /\ WQ = [i \in 0 .. WQ_Size - 1 |-> NoCmd]
  /\ WritePos = 0 /\ ReadPos = 0 /\ TMP_WritePos = 0 /\ TMP_ReadPos = 0
  /\ rt = "store" /\ rtRead = 0 /\ rtWrite = 0
  /\ rend = [reg |-> raw, sprites |-> None, LineTarget |-> 0,
             es |-> "none", picture |-> Blank]
-----------------------------------------------------------------------------
(* WWQ(): the entry is written, then room is made for the next; what is     *)
(* published meanwhile does not include it.                                 *)
Call(e, to) == emu' = "put" /\ hand' = e /\ ret' = to
Go(to) == emu' = to /\ UNCHANGED <<hand, ret>>
Wakes(e) == e.cmd \in {"render", "exit"} \/ e = VBlankCmd(TRUE)
(* Mutation: the ring does not wrap around.                                 *)
NextPos_NoWrap == WritePos + 1
NextPos == (WritePos + 1) % WQ_Size
Advance ==
  /\ WritePos' = NextPos
  /\ IF Wakes(hand) THEN Go("publish") ELSE emu' = ret /\ hand' = NoCmd /\ ret' = "run"

Put ==
  /\ emu = "put"
  /\ WQ' = [WQ EXCEPT ![WritePos] = hand]
  /\ IF NextPos = ReadPos THEN Go("full") /\ UNCHANGED WritePos ELSE Advance
  /\ UNCHANGED <<settings, frame, line, machine, ReadPos, published, thread, rend>>

(* Wakeup(), with and without waiting.                                      *)
(* Mutation: what fills the ring is not published.                          *)
Publish_NotFull ==
  /\ emu \in {"full", "publish", "sync"}
  /\ TMP_WritePos' = (IF emu = "full" THEN TMP_WritePos ELSE WritePos)
  /\ Go(CASE emu = "full" -> "room" [] emu = "publish" -> "refresh"
          [] OTHER -> "drain")
  /\ UNCHANGED <<settings, frame, line, machine, WQ, WritePos, ReadPos,
                 TMP_ReadPos, thread, rend>>
Publish ==
  /\ emu \in {"full", "publish", "sync"}
  /\ TMP_WritePos' = WritePos
  /\ Go(CASE emu = "full" -> "room" [] emu = "publish" -> "refresh"
          [] OTHER -> "drain")
  /\ UNCHANGED <<settings, frame, line, machine, WQ, WritePos, ReadPos,
                 TMP_ReadPos, thread, rend>>
Refresh ==
  /\ emu = "refresh" /\ ReadPos' = TMP_ReadPos
  /\ emu' = ret /\ hand' = NoCmd /\ ret' = "run"
  /\ UNCHANGED <<settings, frame, line, machine, WQ, WritePos, published,
                 thread, rend>>
Room ==
  /\ emu = "room" /\ TMP_ReadPos = WritePos
  /\ ReadPos' = TMP_ReadPos /\ Advance
  /\ UNCHANGED <<settings, frame, line, machine, WQ, published, thread, rend>>
-----------------------------------------------------------------------------
(* The emulated program: MTIF_Write() and MTIF_Read().  An instruction that *)
(* is under way when the frame ends is finished.                            *)
Write ==
  /\ emu \in {"run", "ended"}
  /\ \E v \in Values : raw' = v /\ Call(WriteCmd(v), emu)
  /\ UNCHANGED <<settings, frame, line, saved, ring, thread, rend>>

(* PPU_Update(), when a line begins.  Which line the blanking begins at     *)
(* depends on a register.  A frame ends there or at line 0.                 *)
LineBegins ==
  /\ emu = "run" /\ LinePhase = 0 /\ LinePhase' = 1
  /\ scanline' = (scanline + 1) % (LastLine + 1) /\ UNCHANGED SkipFrame
  /\ \/ /\ scanline' = 0 /\ VBlank' = FALSE
        /\ Go(IF FrameBeginVBlank THEN "run" ELSE "ended")
     \/ /\ scanline' > MinHeight /\ ~VBlank /\ VBlank' = TRUE
        /\ Call(VBlankCmd(SkipFrame), IF FrameBeginVBlank THEN "ended" ELSE "run")
     \/ /\ scanline' \in Drawable \/ (VBlank /\ scanline' = LastLine)
        /\ UNCHANGED <<call, VBlank>>
  /\ UNCHANGED <<settings, frame, machine, ring, thread, rend>>

(* The picture of the line; on line 1 it is settled whether the frame has   *)
(* one.                                                                     *)
(* Mutation: the frame emulated ahead is drawn as well.                     *)
FirstLine_Ahead ==
  /\ emu = "run" /\ LinePhase = 1 /\ scanline = 1
  /\ SkipFrame' \in FrameSkip
  /\ IF SkipFrame' THEN LinePhase' = 3 /\ UNCHANGED call
     ELSE Call(TargetCmd, "line1") /\ UNCHANGED LinePhase
  /\ UNCHANGED <<settings, frame, scanline, VBlank, machine, ring, thread, rend>>
FirstLine ==
  /\ emu = "run" /\ LinePhase = 1 /\ scanline = 1
  /\ SkipFrame' \in (IF frame = "tmp" THEN {TRUE} ELSE FrameSkip)
  /\ IF SkipFrame' THEN LinePhase' = 3 /\ UNCHANGED call
     ELSE Call(TargetCmd, "line1") /\ UNCHANGED LinePhase
  /\ UNCHANGED <<settings, frame, scanline, VBlank, machine, ring, thread, rend>>
LinePicture ==
  /\ \/ emu = "line1"
     \/ emu = "run" /\ LinePhase = 1 /\ scanline # 1
  /\ LinePhase' = 3
  /\ IF ~VBlank /\ scanline \in Drawable /\ ~SkipFrame
     THEN Call(RenderCmd(scanline), "run") ELSE Go("run")
  /\ UNCHANGED <<settings, frame, scanline, VBlank, SkipFrame, machine, ring,
                 thread, rend>>
(* The sprites of the next line.                                            *)
LineEnds ==
  /\ emu = "run" /\ LinePhase = 3 /\ LinePhase' = 0
  /\ IF ~VBlank /\ ~SkipFrame THEN Call(FetchCmd(scanline), "run") ELSE Go("run")
  /\ UNCHANGED <<settings, frame, scanline, VBlank, SkipFrame, machine, ring,
                 thread, rend>>
-----------------------------------------------------------------------------
(* Emulate(): PPU_StartFrame() tells the renderer which frame it draws, as  *)
(* it does again for the second frame, while the renderer may still be busy *)
(* with the first.                                                          *)
Emulate ==
  /\ emu = "idle" /\ Go("run")
  /\ frame' = (IF SpecEx THEN "tmp" ELSE "espec")
  /\ rend' = [rend EXCEPT !.es = frame']
  /\ UNCHANGED <<settings, line, machine, ring, thread>>
Ahead ==
  /\ emu = "ended" /\ frame = "tmp" /\ Go("run")
  /\ saved' = [reg |-> raw, scanline |-> scanline, VBlank |-> VBlank]
  /\ frame' = "espec" /\ rend' = [rend EXCEPT !.es = frame']
  /\ UNCHANGED <<settings, line, raw, ring, thread>>
PPU_SyncMT ==
  /\ emu = "ended" /\ frame = "espec" /\ Go("sync")
  /\ UNCHANGED <<settings, frame, line, machine, ring, thread, rend>>

(* CopyStateToRenderer(), and the state it comes from.                      *)
Load(reg, at, blank) ==
  /\ raw' = reg /\ rend' = [rend EXCEPT !.reg = reg, !.picture = Blank]
  /\ scanline' = at /\ VBlank' = blank /\ UNCHANGED SkipFrame
(* The picture goes to the front end, and the state is loaded back.         *)
(* Mutation: the renderer is not waited for.                                *)
Synced_NoWait ==
  /\ emu = "drain" /\ ReadPos' = TMP_ReadPos
  /\ Go("idle") /\ frame' = "none" /\ saved' = NotSaved /\ LinePhase' = LinePhase
  /\ IF SpecEx THEN Load(saved.reg, saved.scanline, saved.VBlank)
     ELSE /\ rend' = [rend EXCEPT !.picture = Blank]
          /\ UNCHANGED <<raw, scanline, VBlank, SkipFrame>>
  /\ UNCHANGED <<settings, WQ, WritePos, published, thread>>
(* Mutation: the renderer keeps the state of the frame emulated ahead.      *)
Synced_KeepsAhead ==
  /\ emu = "drain" /\ TMP_ReadPos = WritePos /\ ReadPos' = TMP_ReadPos
  /\ Go("idle") /\ frame' = "none" /\ saved' = NotSaved /\ LinePhase' = LinePhase
  /\ IF SpecEx THEN /\ raw' = saved.reg /\ scanline' = saved.scanline
                    /\ VBlank' = saved.VBlank /\ UNCHANGED SkipFrame
     ELSE UNCHANGED <<raw, scanline, VBlank, SkipFrame>>
  /\ rend' = [rend EXCEPT !.picture = Blank]
  /\ UNCHANGED <<settings, WQ, WritePos, published, thread>>
Synced ==
  /\ emu = "drain" /\ TMP_ReadPos = WritePos /\ ReadPos' = TMP_ReadPos
  /\ Go("idle") /\ frame' = "none" /\ saved' = NotSaved /\ LinePhase' = LinePhase
  /\ IF SpecEx THEN Load(saved.reg, saved.scanline, saved.VBlank)
     ELSE /\ rend' = [rend EXCEPT !.picture = Blank]
          /\ UNCHANGED <<raw, scanline, VBlank, SkipFrame>>
  /\ UNCHANGED <<settings, WQ, WritePos, published, thread>>

(* Between frames.  States are saved there too, with either setting of      *)
(* FrameBeginVBlank.                                                        *)
LoadState ==
  /\ emu = "idle" /\ LinePhase' = 1
  /\ \E v \in Values, blank \in BOOLEAN :
       Load(v, IF blank THEN LastLine ELSE 0, blank)
  /\ UNCHANGED <<settings, call, frame, saved, ring, thread>>
Reset ==
  /\ emu = "idle" /\ LinePhase' = 0
  /\ scanline' = LastLine /\ VBlank' = FALSE /\ UNCHANGED SkipFrame
  /\ \E v \in Values :
       /\ raw' = v
       /\ rend' = [rend EXCEPT !.reg = v, !.sprites = None]
  /\ UNCHANGED <<settings, call, frame, saved, ring, thread>>
MTIF_Kill ==
  /\ emu = "idle" /\ Call(ExitCmd, "join")
  /\ UNCHANGED <<settings, frame, line, machine, ring, thread, rend>>
Joined ==
  /\ emu = "join" /\ rt = "exited" /\ Go("killed")
  /\ UNCHANGED <<settings, frame, line, machine, ring, thread, rend>>
-----------------------------------------------------------------------------
(* RThreadEntry().                                                          *)
emulation == <<settings, call, frame, line, machine>>
Store ==
  /\ rt = "store" /\ rt' = "look" /\ TMP_ReadPos' = rtRead
  /\ UNCHANGED <<emulation, WQ, WritePos, ReadPos, TMP_WritePos, rtRead, rtWrite,
                 rend>>
Look ==
  /\ rt = "look" /\ TMP_WritePos # rtRead
  /\ rt' = "batch" /\ rtWrite' = TMP_WritePos
  /\ UNCHANGED <<emulation, ring, rtRead, rend>>
(* Nothing was published within a millisecond.                              *)
TimesOut == rt = "look" /\ TMP_WritePos = rtRead /\ UNCHANGED vars
(* An entry has no use any more once it is executed; the model forgets it.  *)
(* The last one is EXIT, if any is.                                         *)
Execute ==
  /\ rt = "batch" /\ rtRead' = (rtRead + 1) % WQ_Size
  /\ rend' = Executed(rend, WQ[rtRead])
  /\ WQ' = [WQ EXCEPT ![rtRead] = NoCmd]
  /\ rt' = (IF rtRead' # rtWrite THEN "batch"
            ELSE IF WQ[rtRead].cmd = "exit" THEN "exited" ELSE "store")
  /\ UNCHANGED <<emulation, WritePos, ReadPos, published, rtWrite>>
-----------------------------------------------------------------------------
EmuWaits == Room \/ Synced \/ Joined
EmuCalls == Put \/ Publish \/ Refresh \/ Ahead \/ PPU_SyncMT
EmuRuns == Write \/ LineBegins \/ FirstLine \/ LinePicture \/ LineEnds
           \/ Emulate \/ LoadState \/ Reset \/ MTIF_Kill
RenderThread == Store \/ Look \/ Execute
Terminated == emu = "killed" /\ UNCHANGED vars
Next == EmuWaits \/ EmuCalls \/ EmuRuns \/ RenderThread \/ TimesOut \/ Terminated
(* Both threads are scheduled; the emulated program need not go on.         *)
Spec == Init /\ [][Next]_vars /\ WF_vars(RenderThread) /\ WF_vars(EmuWaits \/ EmuCalls)
-----------------------------------------------------------------------------
Positions == 0 .. WQ_Size - 1
TypeOK ==
  /\ emu \in {"idle", "run", "line1", "ended", "put", "full", "room", "publish",
              "refresh", "sync", "drain", "join", "killed"}
  /\ hand \in Commands /\ ret \in {"run", "line1", "ended", "join"}
  /\ frame \in Specs /\ scanline \in 0..LastLine /\ LinePhase \in {0, 1, 3}
  /\ VBlank \in BOOLEAN /\ SkipFrame \in BOOLEAN /\ raw \in Values
  /\ saved \in [reg : Values \cup {None}, scanline : 0..LastLine, VBlank : BOOLEAN]
  /\ WQ \in [Positions -> Commands]
  /\ {WritePos, ReadPos, TMP_WritePos, TMP_ReadPos, rtRead, rtWrite}
       \subseteq Positions
  /\ rt \in {"store", "look", "batch", "exited"}
  /\ rend.reg \in Values /\ rend.sprites \in 0..Height \cup {None}
  /\ rend.LineTarget \in 0..Height /\ rend.es \in Specs

(* Whenever the emulation is between two frames, or goes back to the state  *)
(* saved, all commands have been executed and the renderer does not touch   *)
(* its state: the state may be overwritten, and the surface be shown.       *)
RendererRests ==
  emu = "idle" => rtRead = WritePos /\ rt \in {"store", "look"}

(* What is in the ring, published or not, and what the renderer's state will *)
(* be after the first i commands of it.                                     *)
Queued == (WritePos - rtRead) % WQ_Size
Entry(i) == WQ[(rtRead + i) % WQ_Size]
After[i \in 0..Queued] ==
  IF i = 0 THEN rend ELSE Executed(After[i - 1], Entry(i - 1))
Eventual == After[Queued]

(* The two copies of the registers agree once the renderer is through, with *)
(* the write that is being put into the ring.                               *)
SameRegisters ==
  Executed(Eventual, IF emu \in {"put", "full", "room"} THEN hand ELSE NoCmd).reg = raw

(* The picture is the one drawn without a thread, whenever the commands are *)
(* published.                                                               *)
ST == INSTANCE PPU_ST WITH
  r <- Eventual, open <- emu \notin {"idle", "join", "killed"} /\ hand.cmd # "exit"
ImplementsST == ST!Spec

(* The calls that wait for the renderer return.                             *)
Waiting == {"room", "drain", "join"}
CallsReturn == emu \in Waiting ~> emu \notin Waiting
=============================================================================
