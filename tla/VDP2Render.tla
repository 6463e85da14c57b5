----------------------------- MODULE VDP2Render -----------------------------
(***************************************************************************)
(* ss/vdp2_render.cpp: the Saturn's VDP2 is drawn by a thread of its own.  *)
(* The emulation thread puts register and memory writes and the lines to   *)
(* draw into the ring WQ; the render thread executes them in order.  What  *)
(* the threads share besides is not locked: espec, the surface and the     *)
(* line input table LIB are the emulation's while DrawCounter is zero, the *)
(* renderer's registers and memory while WQ_InCount is zero.               *)
(*                                                                         *)
(* The emulated side, ss/vdp2.cpp, may issue its calls at any point, in    *)
(* the order in which VDP2::Update() can issue them.                       *)
(***************************************************************************)
EXTENDS VDP2Data

CONSTANTS StateActions, \* what is done to states: {}, {"save", "load"}
          WQ_Size,
          BusyMargin,   \* 48: lines before the last at which to stop sleeping
          WakeDepth,    \* 64: lines waiting at which a sleeper is woken
          SemBound      \* bound on the semaphore's count, which a wait with
                        \* a timeout cannot tell from a larger one

ASSUME QueueAssumption ==
  /\ StateActions \subseteq {"save", "load"}
  /\ WQ_Size \in Nat \ {0} /\ BusyMargin \in 0..VisibleLines
  /\ WakeDepth \in Nat \ {0} /\ SemBound \in Nat \ {0}

VARIABLES
  emu,           \* the emulation thread
  hand,          \* WWQ()'s argument
  ret,           \* where WWQ() returns to
  crt,           \* CRTLineCounter
  vline,         \* VCounter in the active display
  blank,         \* InternalVB
  wdcq,          \* the value of DrawCounter that DrawLine() incremented
  raw,           \* RawRegs: the emulation's own copy of the registers
  saved,         \* the last state saved
  NextOutLine, DoWakeupIfNecessary,
  espec,         \* not NULL
  LIB,
  WQ, WQ_ReadPos, WQ_WritePos, WQ_InCount, DrawCounter,
  WakeupSem,
  rt,            \* the render thread
  DoBusyWait,
  rend           \* the renderer's registers, memory and counters, and the
                 \* surface of the frame
callVars == <<hand, ret>>
lineVars == <<crt, vline, blank, wdcq, NextOutLine, DoWakeupIfNecessary>>
stateVars == <<raw, saved>>
ringVars == <<WQ, WQ_ReadPos, WQ_WritePos, WQ_InCount>>
rendVars == <<rt, DoBusyWait, rend>>
vars == <<emu, callVars, lineVars, stateVars, espec, LIB, ringVars,
          DrawCounter, WakeupSem, rendVars>>

bwthresh == VisibleLines - BusyMargin
NoCmd == BusyCmd(0)
-----------------------------------------------------------------------------
Init ==
  /\ emu = "run" /\ hand = NoCmd /\ ret = "run"
  /\ crt = VisibleLines /\ vline = 0 /\ blank = TRUE /\ wdcq = 0
  /\ raw = 0 /\ saved = [reg |-> 0, acc |-> 0]
  /\ NextOutLine = 0 /\ DoWakeupIfNecessary = FALSE
  /\ espec = FALSE /\ LIB = [l \in Active |-> 0]
  /\ WQ = [i \in 0 .. WQ_Size - 1 |-> NoCmd]
  /\ WQ_ReadPos = 0 /\ WQ_WritePos = 0 /\ WQ_InCount = 0 /\ DrawCounter = 0
  /\ WakeupSem = 0
  /\ rt = "test" /\ DoBusyWait = FALSE
  /\ rend = [reg |-> 0, acc |-> 0, surface |-> AllLines(Stale)]

(* A call of WWQ(): the entry is written, and only then counted in.         *)
Call(e, returnTo) == emu' = "room" /\ hand' = e /\ ret' = returnTo

(* Mutation: no test for room.                                              *)
WWQ_Room_Unchecked ==
  /\ emu = "room"
  /\ WQ' = [WQ EXCEPT ![WQ_WritePos] = hand]
  /\ WQ_WritePos' = (WQ_WritePos + 1) % WQ_Size
  /\ emu' = "publish"
  /\ UNCHANGED <<callVars, lineVars, stateVars, espec, LIB, WQ_ReadPos,
                 WQ_InCount, DrawCounter, WakeupSem, rendVars>>
WWQ_Room ==
  /\ emu = "room" /\ WQ_InCount # WQ_Size
  /\ WQ' = [WQ EXCEPT ![WQ_WritePos] = hand]
  /\ WQ_WritePos' = (WQ_WritePos + 1) % WQ_Size
  /\ emu' = "publish"
  /\ UNCHANGED <<callVars, lineVars, stateVars, espec, LIB, WQ_ReadPos,
                 WQ_InCount, DrawCounter, WakeupSem, rendVars>>
WWQ_Publish ==
  /\ emu = "publish"
  /\ WQ_InCount' = WQ_InCount + 1
  /\ emu' = ret /\ hand' = NoCmd /\ ret' = "run"
  /\ UNCHANGED <<lineVars, stateVars, espec, LIB, WQ, WQ_ReadPos,
                 WQ_WritePos, DrawCounter, WakeupSem, rendVars>>

(* VDP2::Write16_DB() and its like, at any time of the frame.               *)
Write ==
  /\ emu = "run"
  /\ \E v \in Values : Call(WriteCmd(v), "run") /\ raw' = v
  /\ UNCHANGED <<lineVars, saved, espec, LIB, ringVars, DrawCounter,
                 WakeupSem, rendVars>>

(* VDP2::Reset(): between frames, or within one when the emulated program   *)
(* changes the clock (SMPC command CKCHG).  The vertical counter starts     *)
(* over, CRTLineCounter does not.                                           *)
Reset ==
  /\ emu = "run"
  /\ Call(ResetCmd, "run")
  /\ raw' = 0 /\ vline' = 0 /\ blank' = TRUE
  /\ UNCHANGED <<crt, wdcq, NextOutLine, DoWakeupIfNecessary, saved, espec,
                 LIB, ringVars, DrawCounter, WakeupSem, rendVars>>

(* The game thread hands in a surface with anything on it.                  *)
StartFrame ==
  /\ emu = "run" /\ ~espec
  /\ espec' = TRUE /\ NextOutLine' = 0
  /\ crt' = 0 /\ vline' = 0 /\ blank' \in BOOLEAN
  /\ rend' = [rend EXCEPT !.surface = AllLines(Stale)]
  /\ UNCHANGED <<emu, callVars, wdcq, DoWakeupIfNecessary, stateVars, LIB,
                 ringVars, DrawCounter, WakeupSem, rt, DoBusyWait>>

(* A line of the active display: its input goes into LIB.                   *)
LineInput ==
  /\ emu = "run" /\ espec /\ vline < ActiveLines
  /\ \E x \in Inputs : LIB' = [LIB EXCEPT ![vline] = x]
  /\ emu' = "line"
  /\ UNCHANGED <<callVars, lineVars, stateVars, espec, ringVars, DrawCounter,
                 WakeupSem, rendVars>>

(* VDP2REND_DrawLine(): lines beyond the surface are not drawn.             *)
Count(line) ==
  IF crt < VisibleLines
  THEN /\ wdcq' = DrawCounter /\ DrawCounter' = DrawCounter + 1
       /\ Call(LineCmd(line, crt), "drawn") /\ crt' = crt
  ELSE /\ crt' = crt /\ emu' = "run"
       /\ UNCHANGED <<wdcq, DrawCounter, callVars>>
ActiveLine ==
  /\ emu = "line"
  /\ Count(IF blank THEN Border ELSE vline)
  /\ vline' = vline + 1
  /\ UNCHANGED <<blank, NextOutLine, DoWakeupIfNecessary, stateVars, espec,
                 LIB, ringVars, WakeupSem, rendVars>>
BorderLine ==
  /\ emu = "run" /\ espec /\ crt < VisibleLines
  /\ Count(Border)
  /\ UNCHANGED <<vline, blank, NextOutLine, DoWakeupIfNecessary, stateVars,
                 espec, LIB, ringVars, WakeupSem, rendVars>>

(* After the line is in the queue: from line bwthresh on the renderer shall *)
(* not sleep, before it a sleeper is woken when enough lines wait.          *)
Drawn ==
  /\ emu = "drawn"
  /\ CASE crt = bwthresh ->
            /\ Call(BusyCmd(1), "post")
            /\ UNCHANGED <<crt, NextOutLine, DoWakeupIfNecessary>>
       [] crt < bwthresh /\ wdcq # 0 /\ wdcq + 1 >= WakeDepth
          /\ DoWakeupIfNecessary ->
            /\ emu' = "post" /\ DoWakeupIfNecessary' = FALSE
            /\ UNCHANGED <<callVars, crt, NextOutLine>>
       [] OTHER ->
            /\ DoWakeupIfNecessary' =
                 (DoWakeupIfNecessary \/ (crt < bwthresh /\ wdcq = 0))
            /\ NextOutLine' = crt + 1 /\ crt' = crt + 1
            /\ emu' = "run" /\ UNCHANGED callVars
  /\ wdcq' = 0
  /\ UNCHANGED <<vline, blank, stateVars, espec, LIB, ringVars,
                 DrawCounter, WakeupSem, rendVars>>
Post ==
  /\ emu = "post"
  /\ WakeupSem' = IF WakeupSem < SemBound THEN WakeupSem + 1 ELSE WakeupSem
  /\ NextOutLine' = crt + 1 /\ crt' = crt + 1
  /\ emu' = "run"
  /\ UNCHANGED <<callVars, vline, blank, wdcq, DoWakeupIfNecessary, stateVars,
                 espec, LIB, ringVars, DrawCounter, rendVars>>
-----------------------------------------------------------------------------
(* VDP2REND_EndFrame(): spin until the lines are drawn.  It is called at    *)
(* the end of the vertical blanking, which has set CRTLineCounter to a      *)
(* number beyond all lines.                                                 *)
EndFrame ==
  /\ emu = "run" /\ espec
  /\ emu' = "drain"
  /\ crt' = VisibleLines /\ vline' = ActiveLines /\ blank' = TRUE
  /\ UNCHANGED <<callVars, wdcq, NextOutLine, DoWakeupIfNecessary, stateVars,
                 espec, LIB, ringVars, DrawCounter, WakeupSem, rendVars>>
(* Mutation: the lines still in the queue are not waited for.               *)
Drained_NoWait ==
  /\ emu = "drain"
  /\ Call(BusyCmd(0), "fill")
  /\ UNCHANGED <<lineVars, stateVars, espec, LIB, ringVars, DrawCounter,
                 WakeupSem, rendVars>>
Drained ==
  /\ emu = "drain" /\ DrawCounter = 0
  /\ Call(BusyCmd(0), "fill")
  /\ UNCHANGED <<lineVars, stateVars, espec, LIB, ringVars, DrawCounter,
                 WakeupSem, rendVars>>
(* Mutation: filling starts at the last line drawn.                         *)
Fill_OverLast ==
  /\ emu = "fill"
  /\ rend' = [rend EXCEPT !.surface =
                [l \in Lines |-> IF l < NextOutLine - 1 THEN rend.surface[l]
                                 ELSE Black]]
  /\ NextOutLine' = IF NextOutLine < VisibleLines THEN VisibleLines
                    ELSE NextOutLine
  /\ espec' = FALSE /\ emu' = "run"
  /\ UNCHANGED <<callVars, crt, vline, blank, wdcq, DoWakeupIfNecessary,
                 stateVars, LIB, ringVars, DrawCounter, WakeupSem, rt,
                 DoBusyWait>>
Fill ==
  /\ emu = "fill"
  /\ rend' = [rend EXCEPT !.surface =
                [l \in Lines |-> IF l < NextOutLine THEN rend.surface[l]
                                 ELSE Black]]
  /\ NextOutLine' = IF NextOutLine < VisibleLines THEN VisibleLines
                    ELSE NextOutLine
  /\ espec' = FALSE /\ emu' = "run"
  /\ UNCHANGED <<callVars, crt, vline, blank, wdcq, DoWakeupIfNecessary,
                 stateVars, LIB, ringVars, DrawCounter, WakeupSem, rt,
                 DoBusyWait>>

(* VDP2REND_StateAction(), between frames: the emulation thread reads or    *)
(* writes the renderer's state itself, once the queue is empty.  (The       *)
(* debugger, stepping, can ask for one within a frame; it is left out.)     *)
StateAction ==
  /\ emu = "run" /\ ~espec
  /\ emu' \in StateActions
  /\ UNCHANGED <<callVars, lineVars, stateVars, espec, LIB, ringVars,
                 DrawCounter, WakeupSem, rendVars>>
Save ==
  /\ emu = "save" /\ WQ_InCount = 0
  /\ saved' = [reg |-> raw, acc |-> rend.acc]
  /\ emu' = "run"
  /\ UNCHANGED <<callVars, lineVars, raw, espec, LIB, ringVars, DrawCounter,
                 WakeupSem, rendVars>>
(* Mutation: a load does not wait.                                          *)
Load_NoWait ==
  /\ emu = "load"
  /\ raw' = saved.reg
  /\ rend' = [reg |-> saved.reg, acc |-> saved.acc, surface |-> rend.surface]
  /\ emu' = "run"
  /\ UNCHANGED <<callVars, lineVars, saved, espec, LIB, ringVars, DrawCounter,
                 WakeupSem, rt, DoBusyWait>>
Load ==
  /\ emu = "load" /\ WQ_InCount = 0
  /\ raw' = saved.reg
  /\ rend' = [reg |-> saved.reg, acc |-> saved.acc, surface |-> rend.surface]
  /\ emu' = "run"
  /\ UNCHANGED <<callVars, lineVars, saved, espec, LIB, ringVars, DrawCounter,
                 WakeupSem, rt, DoBusyWait>>

(* VDP2REND_Kill(), also when loading the game fails later on.              *)
Kill ==
  /\ emu = "run" /\ ~espec
  /\ Call(ExitCmd, "join")
  /\ UNCHANGED <<lineVars, stateVars, espec, LIB, ringVars, DrawCounter,
                 WakeupSem, rendVars>>
Joined ==
  /\ emu = "join" /\ rt = "exited"
  /\ emu' = "killed"
  /\ UNCHANGED <<callVars, lineVars, stateVars, espec, LIB, ringVars,
                 DrawCounter, WakeupSem, rendVars>>
-----------------------------------------------------------------------------
emuVars == <<emu, callVars, lineVars, stateVars, espec, LIB>>

(* RThreadEntry(): with nothing to do, sleep for a while or busy wait.       *)
Sleep ==
  /\ rt = "test" /\ WQ_InCount = 0 /\ ~DoBusyWait
  /\ rt' = "sleep"
  /\ UNCHANGED <<emuVars, ringVars, DrawCounter, WakeupSem, DoBusyWait, rend>>
Spin ==
  /\ rt = "test" /\ WQ_InCount = 0 /\ DoBusyWait
  /\ UNCHANGED vars
Awake ==
  /\ rt = "sleep" /\ rt' = "test"
  /\ \/ WakeupSem > 0 /\ WakeupSem' = WakeupSem - 1
     \/ UNCHANGED WakeupSem              \* a millisecond has passed
  /\ UNCHANGED <<emuVars, ringVars, DrawCounter, DoBusyWait, rend>>

Entry == WQ[WQ_ReadPos]
(* Mutation: a line without picture is not counted off.                     *)
Execute_BorderReturns ==
  /\ rt = "test" /\ WQ_InCount # 0
  /\ rend' = Executed(rend, Entry, LIB)
  /\ DoBusyWait' = IF Entry.cmd = "busy" THEN Entry.val = 1 ELSE DoBusyWait
  /\ rt' = IF Entry.cmd = "draw" /\ Entry.line # Border THEN "uncount"
           ELSE "pop"
  /\ UNCHANGED <<emuVars, ringVars, DrawCounter, WakeupSem>>
Execute ==
  /\ rt = "test" /\ WQ_InCount # 0
  /\ rend' = IF Entry.cmd = "draw" /\ ~espec
             THEN [rend EXCEPT !.surface = [@ EXCEPT ![Entry.out] = Crash]]
             ELSE Executed(rend, Entry, LIB)
  /\ DoBusyWait' = IF Entry.cmd = "busy" THEN Entry.val = 1 ELSE DoBusyWait
  /\ rt' = IF Entry.cmd = "draw" THEN "uncount" ELSE "pop"
  /\ UNCHANGED <<emuVars, ringVars, DrawCounter, WakeupSem>>

Uncount ==
  /\ rt = "uncount" /\ rt' = "pop"
  /\ DrawCounter' = DrawCounter - 1
  /\ UNCHANGED <<emuVars, ringVars, WakeupSem, DoBusyWait, rend>>
(* The entry has no use any more; the model forgets it.                     *)
Pop ==
  /\ rt = "pop"
  /\ WQ' = [WQ EXCEPT ![WQ_ReadPos] = NoCmd]
  /\ WQ_ReadPos' = (WQ_ReadPos + 1) % WQ_Size
  /\ WQ_InCount' = WQ_InCount - 1
  /\ rt' = IF Entry.cmd = "exit" THEN "exited" ELSE "test"
  /\ UNCHANGED <<emuVars, WQ_WritePos, DrawCounter, WakeupSem, DoBusyWait, rend>>
-----------------------------------------------------------------------------
Emulation ==
  \/ WWQ_Room \/ WWQ_Publish \/ Write \/ Reset
  \/ StartFrame \/ LineInput \/ ActiveLine \/ BorderLine \/ Drawn \/ Post
  \/ EndFrame \/ Drained \/ Fill
  \/ StateAction \/ Save \/ Load \/ Kill \/ Joined
RenderThread == Sleep \/ Spin \/ Awake \/ Execute \/ Uncount \/ Pop
Terminated == emu = "killed" /\ UNCHANGED vars
Next == Emulation \/ RenderThread \/ Terminated
Spec == Init /\ [][Next]_vars

(* Both threads are scheduled; the emulation need not begin another call.   *)
LiveSpec ==
  /\ Spec /\ WF_vars(RenderThread)
  /\ WF_vars(WWQ_Room \/ WWQ_Publish \/ ActiveLine \/ Drawn \/ Post \/ Drained
             \/ Fill \/ Save \/ Load \/ Joined)
-----------------------------------------------------------------------------
TypeOK ==
  /\ emu \in {"run", "room", "publish", "line", "drawn", "post", "drain",
              "fill", "save", "load", "join", "killed"}
  /\ hand \in Commands /\ ret \in {"run", "drawn", "post", "fill", "join"}
  /\ crt \in 0..VisibleLines /\ vline \in 0..ActiveLines
  /\ blank \in BOOLEAN /\ wdcq \in 0..WQ_Size + 1
  /\ raw \in Bit /\ saved \in [reg : Bit, acc : Bit]
  /\ NextOutLine \in 0..VisibleLines /\ DoWakeupIfNecessary \in BOOLEAN
  /\ espec \in BOOLEAN /\ LIB \in [Active -> Bit]
  /\ WQ \in [0 .. WQ_Size - 1 -> Commands]
  /\ WQ_ReadPos \in 0 .. WQ_Size - 1 /\ WQ_WritePos \in 0 .. WQ_Size - 1
  /\ WQ_InCount \in 0..WQ_Size /\ DrawCounter \in 0..WQ_Size + 1
  /\ WakeupSem \in 0..SemBound
  /\ rt \in {"test", "sleep", "uncount", "pop", "exited"}
  /\ DoBusyWait \in BOOLEAN
  /\ rend.reg \in Bit /\ rend.acc \in Bit

(* While the emulation thread uses the renderer's state, espec and the      *)
(* surface itself, no line is being or going to be drawn.                   *)
SurfaceReturned ==
  ~espec \/ emu = "fill" =>
    /\ DrawCounter = 0 /\ rt # "uncount"
    /\ \A i \in 0 .. WQ_InCount - 1 :
         WQ[(WQ_ReadPos + i) % WQ_Size].cmd = "draw" => i = 0 /\ rt = "pop"

(* The picture is the one a renderer without a thread would have drawn: a   *)
(* command has taken effect when it is counted in, if everything still in   *)
(* the queue is executed.                                                   *)
Done == IF rt \in {"uncount", "pop"} THEN 1 ELSE 0
Queued == WQ_InCount - Done
Queue == [i \in 0 .. Queued - 1 |-> WQ[(WQ_ReadPos + Done + i) % WQ_Size]]
After[i \in 0..Queued] ==
  IF i = 0 THEN rend ELSE Executed(After[i - 1], Queue[i - 1], LIB)
Eventual == After[Queued]
LineIssued ==
  \/ emu \in {"drawn", "post"}
  \/ emu \in {"room", "publish"} /\ ret = "post"
Sync == INSTANCE VDP2Sync WITH
  r <- Eventual, lib <- LIB, inFrame <- espec,
  next <- IF LineIssued THEN crt + 1 ELSE NextOutLine
ImplementsSync == Sync!Spec

(* The calls that wait for the render thread return.                        *)
CallsReturn == emu \in {"room", "drain", "save", "load", "join"}
               ~> emu \in {"run", "killed"}
=============================================================================
