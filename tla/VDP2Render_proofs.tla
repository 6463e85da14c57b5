-------------------------- MODULE VDP2Render_proofs --------------------------
(***************************************************************************)
(* The VDP2 render thread for every size of the queue and of the picture:  *)
(* DrawCounter counts the lines that are still to be drawn, so that the    *)
(* surface, espec and the renderer's state are free when it is zero; and   *)
(* the state that the commands in the queue lead to is, at every step,     *)
(* that of a renderer without a thread (VDP2Sync).                         *)
(***************************************************************************)
EXTENDS VDP2Render, FiniteSetTheorems, WellFoundedInduction, TLAPS

Slots == 0 .. WQ_Size - 1
Slot(k) == (WQ_ReadPos + k) % WQ_Size
Written == IF emu = "publish" THEN 1 ELSE 0

FlagsOK ==
  /\ blank \in BOOLEAN /\ DoWakeupIfNecessary \in BOOLEAN
  /\ espec \in BOOLEAN /\ DoBusyWait \in BOOLEAN

(* The emulation thread: where it is in its calls.                          *)
InCall(to) == emu = to \/ (emu \in {"room", "publish"} /\ ret = to)
EmuOK ==
  /\ emu \in {"run", "room", "publish", "line", "drawn", "post", "drain",
              "fill", "save", "load", "join", "killed"}
  /\ hand \in Commands /\ ret \in {"run", "drawn", "post", "fill", "join"}
  /\ crt \in 0..VisibleLines /\ vline \in 0..ActiveLines
  /\ NextOutLine \in 0..VisibleLines
  /\ raw \in Bit /\ LIB \in [Active -> Bit] /\ WakeupSem \in 0..SemBound
  /\ emu = "line" => vline < ActiveLines
  /\ InCall("drawn") \/ InCall("post") => crt < VisibleLines

(* The ring: an entry is written before it is counted in, and a slot that   *)
(* is not in use is empty.                                                  *)
RingOK ==
  /\ WQ \in [Slots -> Commands]
  /\ WQ_ReadPos \in Slots
  /\ WQ_InCount \in 0..WQ_Size /\ WQ_InCount + Written <= WQ_Size
  /\ WQ_WritePos = Slot(WQ_InCount + Written)
  /\ \A k \in Slots : k >= WQ_InCount + Written => WQ[Slot(k)] = NoCmd
  /\ rt \in {"test", "sleep", "uncount", "pop", "exited"}
  /\ rt \in {"uncount", "pop"} => WQ_InCount > 0
  /\ rt = "uncount" => Entry.cmd = "draw"

(* DrawCounter is the number of lines in the ring that are still to be      *)
(* drawn, and of the line about to be put there.                            *)
ToDraw == {p \in Slots : /\ WQ[p].cmd = "draw"
                         /\ ~(rt = "pop" /\ p = WQ_ReadPos)}
Coming == IF emu = "room" /\ hand.cmd = "draw" THEN 1 ELSE 0
Returned == ~espec \/ InCall("fill")
CountOK ==
  /\ DrawCounter = Cardinality(ToDraw) + Coming
  /\ wdcq \in 0..WQ_Size + 1
  /\ Returned => DrawCounter = 0
  /\ emu = "line" => espec

Rend == [reg : Bit, acc : Bit,
         surface : [Lines -> [line : Int, reg : Bit, acc : Bit, input : Bit]]]
RendOK == rend \in Rend /\ saved \in [reg : Bit, acc : Bit]

IInv == FlagsOK /\ EmuOK /\ RingOK /\ CountOK /\ RendOK
-----------------------------------------------------------------------------
USE LinesAssumption, QueueAssumption

LEMMA CommandsTyped ==
  /\ \A v \in Bit : WriteCmd(v) \in Commands /\ BusyCmd(v) \in Commands
  /\ ResetCmd \in Commands /\ ExitCmd \in Commands /\ NoCmd \in Commands
  /\ \A line \in Active \cup {Border}, out \in Lines :
       LineCmd(line, out) \in Commands
  BY DEF Commands, WriteCmd, BusyCmd, ResetCmd, ExitCmd, NoCmd, LineCmd, Bit,
         Lines

LEMMA SlotIs ==
  ASSUME WQ_ReadPos \in Slots, NEW k \in 0..WQ_Size
  PROVE  /\ Slot(k) = IF WQ_ReadPos + k >= WQ_Size
                      THEN WQ_ReadPos + k - WQ_Size ELSE WQ_ReadPos + k
         /\ Slot(k) \in Slots
  BY DEF Slots, Slot

LEMMA NextSlot ==
  ASSUME NEW p \in Slots
  PROVE  /\ (p + 1) % WQ_Size = IF p = WQ_Size - 1 THEN 0 ELSE p + 1
         /\ (p + 1) % WQ_Size \in Slots
<1>1. CASE p = WQ_Size - 1
  BY <1>1 DEF Slots
<1>2. CASE p < WQ_Size - 1
  BY <1>2 DEF Slots
<1>3. QED
  BY <1>1, <1>2 DEF Slots

LEMMA SlotFollows ==
  ASSUME WQ_ReadPos \in Slots, NEW k \in Slots
  PROVE  /\ (Slot(k) + 1) % WQ_Size = Slot(k + 1)
         /\ (((WQ_ReadPos + 1) % WQ_Size) + k) % WQ_Size = Slot(k + 1)
<1>1. k \in 0..WQ_Size /\ k + 1 \in 0..WQ_Size
  BY DEF Slots
<1>2. /\ Slot(k) \in Slots
      /\ Slot(k) = IF WQ_ReadPos + k >= WQ_Size
                   THEN WQ_ReadPos + k - WQ_Size ELSE WQ_ReadPos + k
  BY <1>1, SlotIs
<1>3. Slot(k + 1) = IF WQ_ReadPos + (k + 1) >= WQ_Size
                    THEN WQ_ReadPos + (k + 1) - WQ_Size
                    ELSE WQ_ReadPos + (k + 1)
  BY <1>1, SlotIs
<1>4. (Slot(k) + 1) % WQ_Size = Slot(k + 1)
  <2>1. (Slot(k) + 1) % WQ_Size
          = IF Slot(k) = WQ_Size - 1 THEN 0 ELSE Slot(k) + 1
    BY <1>2, NextSlot
  <2>2. QED
    BY <1>2, <1>3, <2>1 DEF Slots
<1>5. PICK p \in Slots : p = (WQ_ReadPos + 1) % WQ_Size
  BY NextSlot
<1>6. p = IF WQ_ReadPos = WQ_Size - 1 THEN 0 ELSE WQ_ReadPos + 1
  BY <1>5, NextSlot
<1>7. (p + k) % WQ_Size = IF p + k >= WQ_Size THEN p + k - WQ_Size ELSE p + k
  BY <1>1 DEF Slots
<1>8. (p + k) % WQ_Size = Slot(k + 1)
  BY <1>3, <1>6, <1>7 DEF Slots
<1>9. QED
  BY <1>4, <1>5, <1>8

LEMMA SlotsDiffer ==
  ASSUME WQ_ReadPos \in Slots
  PROVE  /\ Slot(0) = WQ_ReadPos /\ Slot(WQ_Size) = WQ_ReadPos
         /\ \A k, m \in Slots : k # m => Slot(k) # Slot(m)
<1>1. Slot(0) = WQ_ReadPos /\ Slot(WQ_Size) = WQ_ReadPos
  BY SlotIs DEF Slots
<1>2. ASSUME NEW k \in Slots, NEW m \in Slots, k # m
      PROVE  Slot(k) # Slot(m)
  <2>1. k \in 0..WQ_Size /\ m \in 0..WQ_Size
    BY DEF Slots
  <2>2. Slot(k) = IF WQ_ReadPos + k >= WQ_Size
                  THEN WQ_ReadPos + k - WQ_Size ELSE WQ_ReadPos + k
    BY <2>1, SlotIs
  <2>3. Slot(m) = IF WQ_ReadPos + m >= WQ_Size
                  THEN WQ_ReadPos + m - WQ_Size ELSE WQ_ReadPos + m
    BY <2>1, SlotIs
  <2>4. QED
    BY <1>2, <2>2, <2>3 DEF Slots
<1>3. QED
  BY <1>1, <1>2

LEMMA ToDrawFinite ==
  /\ IsFiniteSet(Slots) /\ Cardinality(Slots) = WQ_Size
  /\ IsFiniteSet(ToDraw) /\ Cardinality(ToDraw) \in 0..WQ_Size
<1>1. IsFiniteSet(Slots) /\ Cardinality(Slots) = WQ_Size
  BY FS_Interval DEF Slots
<1>2. ToDraw \subseteq Slots
  BY DEF ToDraw
<1>3. IsFiniteSet(ToDraw) /\ Cardinality(ToDraw) <= WQ_Size
  BY <1>1, <1>2, FS_Subset
<1>4. QED
  BY <1>1, <1>3, FS_CardinalityType
-----------------------------------------------------------------------------
LEMMA InitIInv == Init => IInv
<1> SUFFICES ASSUME Init PROVE IInv
  OBVIOUS
<1> USE DEF Init
<1>1. FlagsOK
  BY Zenon DEF FlagsOK
<1>2. EmuOK
  BY CommandsTyped DEF EmuOK, InCall, Bit
<1>3. \A k \in Slots : Slot(k) \in Slots
  BY SlotIs DEF Slots
<1>4. Slot(0) = 0 /\ 0 \in Slots
  BY DEF Slot, Slots
<1>5. RingOK
  <2>1. WQ \in [Slots -> Commands] /\ \A p \in Slots : WQ[p] = NoCmd
    BY CommandsTyped DEF Slots
  <2>2. QED
    BY <1>3, <1>4, <2>1 DEF RingOK, Written
<1>6. CountOK
  <2>1. ToDraw = {}
    BY DEF ToDraw, Slots, NoCmd, BusyCmd
  <2>2. Cardinality(ToDraw) = 0
    BY <2>1, FS_EmptySet
  <2>3. QED
    BY <2>2 DEF CountOK, Coming
<1>7. RendOK
  BY DEF RendOK, Rend, AllLines, Stale, Pixels, Bit
<1>8. QED
  BY <1>1, <1>2, <1>5, <1>6, <1>7 DEF IInv
-----------------------------------------------------------------------------
(* Steps that do not touch the ring.                                        *)
Aside == StartFrame \/ LineInput \/ Post \/ EndFrame \/ Fill \/ StateAction
         \/ Save \/ Load \/ Joined \/ Terminated
(* Steps that may begin a call of WWQ().                                    *)
Calling == Write \/ Reset \/ ActiveLine \/ BorderLine \/ Drawn \/ Drained
           \/ Kill

LEMMA NextIs ==
  Next => \/ Aside \/ Calling \/ WWQ_Room \/ WWQ_Publish
          \/ Sleep \/ Spin \/ Awake \/ Execute \/ Uncount \/ Pop
  BY DEF Next, Emulation, RenderThread, Aside, Calling

LEMMA FlagsKept == FlagsOK /\ Next => FlagsOK'
<1> SUFFICES ASSUME FlagsOK, Next PROVE FlagsOK'
  OBVIOUS
<1> USE DEF FlagsOK
<1>1. CASE Aside
  BY <1>1, Zenon DEF Aside, StartFrame, LineInput, Post, EndFrame, Fill,
    StateAction, Save, Load, Joined, Terminated, vars, lineVars, rendVars
<1>2. CASE Calling
  BY <1>2, Zenon DEF Calling, Write, Reset, ActiveLine, BorderLine, Drawn,
    Drained, Kill, lineVars, rendVars
<1>3. CASE WWQ_Room \/ WWQ_Publish
  BY <1>3, Zenon DEF WWQ_Room, WWQ_Publish, lineVars, rendVars
<1>4. CASE Sleep \/ Spin \/ Awake \/ Execute \/ Uncount \/ Pop
  BY <1>4, Zenon DEF Sleep, Spin, Awake, Execute, Uncount, Pop, vars, emuVars,
    lineVars, rendVars
<1>5. QED
  BY <1>1, <1>2, <1>3, <1>4, NextIs
-----------------------------------------------------------------------------
(* Where the emulation thread is, and how far it has come.                  *)
LEMMA CountTyped ==
  ASSUME EmuOK, NEW line \in Active \cup {Border}, Count(line)
  PROVE  /\ hand' \in Commands /\ crt' = crt
         /\ \/ emu' = "room" /\ ret' = "drawn" /\ crt < VisibleLines
            \/ emu' = "run" /\ ret' = ret
<1>1. CASE crt < VisibleLines
  <2>1. crt \in Lines
    BY <1>1 DEF EmuOK, Lines
  <2>2. QED
    BY <1>1, <2>1, CommandsTyped DEF Count, Call
<1>2. CASE ~(crt < VisibleLines)
  BY <1>2 DEF Count, callVars, EmuOK
<1>3. QED
  BY <1>1, <1>2

LEMMA EmuKept == FlagsOK /\ EmuOK /\ RendOK /\ Next => EmuOK'
<1> SUFFICES ASSUME FlagsOK, EmuOK, RendOK, Next PROVE EmuOK'
  OBVIOUS
<1> USE DEF EmuOK, InCall
<1>1. CASE Write
  <2>1. \A v \in Values : v \in Bit
    BY DEF Bit
  <2>2. QED
    BY <1>1, <2>1, CommandsTyped DEF Write, Call, lineVars
<1>2. CASE Reset
  BY <1>2, CommandsTyped DEF Reset, Call, Bit
<1>3. CASE ActiveLine
  <2>1. (IF blank THEN Border ELSE vline) \in Active \cup {Border}
    BY <1>3 DEF ActiveLine, Active
  <2>2. vline' \in 0..ActiveLines
    BY <1>3 DEF ActiveLine
  <2>3. QED
    BY <1>3, <2>1, <2>2, CountTyped DEF ActiveLine, stateVars
<1>4. CASE BorderLine
  BY <1>4, CountTyped DEF BorderLine, stateVars
<1>5. CASE Drawn
  <2>1. crt < VisibleLines
    BY <1>5 DEF Drawn
  <2>2. /\ hand' \in Commands
        /\ ret' \in {"run", "drawn", "post", "fill", "join"}
        /\ crt' \in 0..VisibleLines /\ NextOutLine' \in 0..VisibleLines
        /\ \/ emu' = "room" /\ ret' = "post" /\ crt' = crt
           \/ emu' = "post" /\ crt' = crt
           \/ emu' = "run"
    BY <1>5, <2>1, CommandsTyped DEF Drawn, Call, callVars, Bit
  <2>3. QED
    BY <1>5, <2>1, <2>2 DEF Drawn, stateVars
<1>6. CASE Drained \/ Kill
  BY <1>6, CommandsTyped DEF Drained, Kill, Call, lineVars, stateVars, Bit
<1>7. CASE WWQ_Room
  BY <1>7 DEF WWQ_Room, callVars, lineVars, stateVars
<1>8. CASE WWQ_Publish
  BY <1>8, CommandsTyped DEF WWQ_Publish, lineVars, stateVars
<1>9. CASE StartFrame
  BY <1>9 DEF StartFrame, callVars, stateVars
<1>10. CASE LineInput
  <2>1. \A x \in Inputs : x \in Bit
    BY DEF Bit
  <2>2. LIB' \in [Active -> Bit]
    BY <1>10, <2>1 DEF LineInput
  <2>3. QED
    BY <1>10, <2>2 DEF LineInput, callVars, lineVars, stateVars
<1>11. CASE Post
  <2>1. crt < VisibleLines
    BY <1>11 DEF Post
  <2>2. WakeupSem' \in 0..SemBound
    BY <1>11 DEF Post
  <2>3. QED
    BY <1>11, <2>1, <2>2 DEF Post, callVars, stateVars
<1>12. CASE EndFrame
  BY <1>12 DEF EndFrame, callVars, stateVars
<1>13. CASE Fill
  BY <1>13 DEF Fill, callVars, stateVars
<1>14. CASE StateAction
  BY <1>14 DEF StateAction, callVars, lineVars, stateVars
<1>15. CASE Save \/ Load
  BY <1>15 DEF Save, Load, callVars, lineVars, RendOK
<1>16. CASE Joined \/ Terminated
  BY <1>16 DEF Joined, Terminated, vars, callVars, lineVars, stateVars
<1>17. CASE Sleep \/ Spin \/ Execute \/ Uncount \/ Pop
  BY <1>17 DEF Sleep, Spin, Execute, Uncount, Pop, vars, emuVars, callVars,
               lineVars, stateVars
<1>18. CASE Awake
  <2>1. WakeupSem' \in 0..SemBound
    BY <1>18 DEF Awake
  <2>2. QED
    BY <1>18, <2>1 DEF Awake, emuVars, callVars, lineVars, stateVars
<1>19. QED
  BY <1>1, <1>2, <1>3, <1>4, <1>5, <1>6, <1>7, <1>8, <1>9, <1>10, <1>11, <1>12,
     <1>13, <1>14, <1>15, <1>16, <1>17, <1>18, NextIs DEF Aside, Calling
-----------------------------------------------------------------------------
LEMMA RendKept == EmuOK /\ RingOK /\ RendOK /\ Next => RendOK'
<1> SUFFICES ASSUME EmuOK, RingOK, RendOK, Next PROVE RendOK'
  OBVIOUS
<1> DEFINE Surfaces ==
      [Lines -> [line : Int, reg : Bit, acc : Bit, input : Bit]]
<1>1. /\ rend.reg \in Bit /\ rend.acc \in Bit /\ rend.surface \in Surfaces
      /\ rend \in Rend
  BY DEF RendOK, Rend
<1>2. \A s \in Surfaces : [rend EXCEPT !.surface = s] \in Rend
  BY <1>1 DEF Rend
<1>3. /\ Black \in [line : Int, reg : Bit, acc : Bit, input : Bit]
      /\ Stale \in [line : Int, reg : Bit, acc : Bit, input : Bit]
      /\ Crash \in [line : Int, reg : Bit, acc : Bit, input : Bit]
  BY DEF Black, Stale, Crash, Pixels, Bit
<1>4. CASE StartFrame
  <2>1. AllLines(Stale) \in Surfaces
    BY <1>3 DEF AllLines
  <2>2. QED
    BY <1>2, <1>4, <2>1 DEF StartFrame, stateVars, RendOK
<1>5. CASE Fill
  <2>1. [l \in Lines |-> IF l < NextOutLine THEN rend.surface[l] ELSE Black]
          \in Surfaces
    BY <1>1, <1>3
  <2>2. QED
    BY <1>2, <1>5, <2>1 DEF Fill, stateVars, RendOK
<1>6. CASE Save
  BY <1>1, <1>6 DEF Save, RendOK, rendVars, EmuOK
<1>7. CASE Load
  BY <1>1, <1>7 DEF Load, RendOK, Rend
<1>8. CASE \/ LineInput \/ Post \/ EndFrame \/ StateAction \/ Joined
           \/ Terminated \/ Calling \/ WWQ_Room \/ WWQ_Publish
           \/ Sleep \/ Spin \/ Awake \/ Uncount \/ Pop
  <2>1. rend' = rend /\ saved' = saved
    BY <1>8 DEF LineInput, Post, EndFrame, StateAction, Joined, Terminated,
      Calling, Write, Reset, ActiveLine, BorderLine, Drawn, Drained, Kill,
      WWQ_Room, WWQ_Publish, Sleep, Spin, Awake, Uncount, Pop, vars, emuVars,
      stateVars, rendVars
  <2>2. QED
    BY <2>1 DEF RendOK
<1>9. CASE Execute
  <2>1. Entry \in Commands
    BY DEF RingOK, Entry
  <2>2. /\ Entry.val \in Bit /\ Entry.line \in Active \cup {Border}
        /\ Entry.out \in Lines
    BY <2>1 DEF Commands
  <2>3. LIB \in [Active -> Bit]
    BY DEF EmuOK
  <2>4. [rend.surface EXCEPT ![Entry.out] = Crash] \in Surfaces
    BY <1>1, <1>3
  <2>5. DrawnLine(rend, Entry.line, Entry.out, LIB) \in Rend
    <3>1. CASE Entry.line = Border
      <4>1. Pixels(Border, rend.reg, 0, 0)
              \in [line : Int, reg : Bit, acc : Bit, input : Bit]
        BY <1>1 DEF Pixels, Border, Bit
      <4>2. [rend.surface EXCEPT ![Entry.out] = Pixels(Border, rend.reg, 0, 0)]
              \in Surfaces
        BY <1>1, <4>1
      <4>3. QED
        BY <1>2, <3>1, <4>2 DEF DrawnLine
    <3>2. CASE Entry.line # Border
      <4>1. Entry.line \in Active /\ LIB[Entry.line] \in Bit
        BY <2>2, <2>3, <3>2
      <4> DEFINE acc == IF Entry.line = 0 THEN 0 ELSE rend.acc
      <4>2. acc \in Bit /\ (acc + rend.reg) % 2 \in Bit
        BY <1>1 DEF Bit
      <4> HIDE DEF acc
      <4>3. Pixels(Entry.line, rend.reg, acc, LIB[Entry.line])
              \in [line : Int, reg : Bit, acc : Bit, input : Bit]
        BY <1>1, <4>1, <4>2 DEF Pixels, Active
      <4>4. [rend.surface EXCEPT
               ![Entry.out] = Pixels(Entry.line, rend.reg, acc,
                                     LIB[Entry.line])] \in Surfaces
        BY <1>1, <4>3
      <4>5. DrawnLine(rend, Entry.line, Entry.out, LIB)
              = [reg |-> rend.reg, acc |-> (acc + rend.reg) % 2,
                 surface |-> [rend.surface EXCEPT
                   ![Entry.out] = Pixels(Entry.line, rend.reg, acc,
                                         LIB[Entry.line])]]
        BY <3>2 DEF DrawnLine, acc
      <4>6. QED
        BY <1>1, <4>2, <4>4, <4>5 DEF Rend
    <3>3. QED
      BY <3>1, <3>2
  <2>6. /\ [rend EXCEPT !.reg = Entry.val] \in Rend
        /\ [reg |-> 0, acc |-> 0, surface |-> rend.surface] \in Rend
    BY <1>1, <2>2 DEF Rend, Bit
  <2>7. Executed(rend, Entry, LIB) \in Rend
    BY <1>1, <2>5, <2>6 DEF Executed
  <2>8. [rend EXCEPT !.surface = [@ EXCEPT ![Entry.out] = Crash]] \in Rend
    BY <1>2, <2>4
  <2>9. rend' \in Rend
    BY <1>9, <2>7, <2>8 DEF Execute
  <2>10. QED
    BY <1>9, <2>9 DEF Execute, emuVars, stateVars, RendOK
<1>10. QED
  BY <1>4, <1>5, <1>6, <1>7, <1>8, <1>9, NextIs DEF Aside
-----------------------------------------------------------------------------
(* A call of WWQ() begins; the ring is as it was.                           *)
LEMMA RingAside ==
  ASSUME RingOK, Aside \/ Calling
  PROVE  /\ ringVars' = ringVars /\ rt' = rt
         /\ emu # "publish" /\ emu' # "publish"
<1>1. ringVars' = ringVars /\ rt' = rt
  BY DEF Aside, StartFrame, LineInput, Post, EndFrame, Fill, StateAction,
    Save, Load, Joined, Terminated, Calling, Write, Reset, ActiveLine,
    BorderLine, Drawn, Drained, Kill, vars, rendVars, ringVars
<1>2. emu # "publish" /\ emu' # "publish"
  BY QueueAssumption DEF Aside, StartFrame, LineInput, Post, EndFrame, Fill,
    StateAction, Save, Load, Joined, Terminated, Calling, Write, Reset,
    ActiveLine, BorderLine, Drawn, Drained, Kill, vars, Call, Count
<1>3. QED
  BY <1>1, <1>2

LEMMA RingKept == EmuOK /\ RingOK /\ Next => RingOK'
<1> SUFFICES ASSUME EmuOK, RingOK, Next PROVE RingOK'
  OBVIOUS
<1>0. /\ WQ \in [Slots -> Commands] /\ WQ_ReadPos \in Slots
      /\ WQ_InCount \in 0..WQ_Size /\ WQ_InCount + Written <= WQ_Size
      /\ WQ_WritePos = Slot(WQ_InCount + Written) /\ Written \in 0..1
      /\ \A k \in Slots : k >= WQ_InCount + Written => WQ[Slot(k)] = NoCmd
      /\ rt \in {"test", "sleep", "uncount", "pop", "exited"}
      /\ rt \in {"uncount", "pop"} => WQ_InCount > 0
      /\ rt = "uncount" => Entry.cmd = "draw"
  BY DEF RingOK, Written
<1>1. CASE Aside \/ Calling
  <2>1. ringVars' = ringVars /\ rt' = rt /\ Written' = Written
    BY <1>1, RingAside DEF Written
  <2>2. QED
    BY <2>1 DEF RingOK, ringVars, Entry, Slot
<1>2. CASE WWQ_Room
  <2>1. /\ WQ_InCount < WQ_Size /\ Written = 0 /\ Written' = 1
        /\ WQ_InCount' = WQ_InCount /\ WQ_ReadPos' = WQ_ReadPos /\ rt' = rt
        /\ WQ' = [WQ EXCEPT ![WQ_WritePos] = hand]
        /\ WQ_WritePos' = (WQ_WritePos + 1) % WQ_Size
    BY <1>0, <1>2 DEF WWQ_Room, Written, rendVars
  <2>2. WQ_WritePos = Slot(WQ_InCount)
    BY <1>0, <2>1
  <2>3. WQ' \in [Slots -> Commands]
    BY <1>0, <2>1 DEF EmuOK
  <2>4. /\ \A k \in 0..WQ_Size : Slot(k)' = Slot(k)
        /\ WQ_WritePos \in Slots
    BY <1>0, <2>1, <2>2, SlotIs DEF Slot
  <2> WQ_InCount \in Slots
    BY <1>0, <2>1 DEF Slots
  <2>5. WQ_WritePos' = Slot(WQ_InCount + 1)
    BY <1>0, <2>1, <2>2, SlotFollows
  <2>6. \A k \in Slots : k >= WQ_InCount + 1 => WQ'[Slot(k)] = NoCmd
    <3>1. ASSUME NEW k \in Slots, k >= WQ_InCount + 1
          PROVE  Slot(k) # Slot(WQ_InCount) /\ Slot(k) \in Slots
      <4>1. k # WQ_InCount /\ k \in 0..WQ_Size
        BY <1>0, <3>1 DEF Slots
      <4>2. QED
        BY <1>0, <4>1, SlotIs, SlotsDiffer
    <3>2. ASSUME NEW k \in Slots, k >= WQ_InCount + 1
          PROVE  WQ'[Slot(k)] = NoCmd
      <4>1. WQ'[Slot(k)] = WQ[Slot(k)]
        BY <1>0, <2>1, <2>2, <3>1, <3>2
      <4>2. k >= WQ_InCount + Written
        BY <1>0, <2>1, <3>2 DEF Slots
      <4>3. QED
        BY <1>0, <4>1, <4>2
    <3>3. QED
      BY <3>2
  <2>7. rt' = "uncount" => Entry'.cmd = "draw"
    <3>1. ASSUME rt = "uncount" PROVE WQ_ReadPos # WQ_WritePos
      <4>1. WQ_InCount # 0 /\ 0 \in Slots
        BY <1>0, <3>1 DEF Slots
      <4>2. QED
        BY <1>0, <2>2, <4>1, SlotsDiffer
    <3>2. QED
      BY <1>0, <2>1, <3>1 DEF Entry
  <2>8. \A k \in Slots : k \in 0..WQ_Size
    BY DEF Slots
  <2>9. WQ_InCount' + Written' = WQ_InCount + 1 /\ WQ_InCount + 1 \in 0..WQ_Size
    BY <1>0, <2>1
  <2>10. /\ WQ_WritePos' = Slot(WQ_InCount + Written)'
         /\ (\A k \in Slots : k >= WQ_InCount + Written => WQ[Slot(k)] = NoCmd)'
    BY <2>1, <2>4, <2>5, <2>6, <2>8, <2>9 DEF Slot
  <2>11. QED
    BY <1>0, <2>1, <2>3, <2>7, <2>9, <2>10 DEF RingOK
<1>3. CASE WWQ_Publish
  <2>1. /\ WQ_InCount' = WQ_InCount + 1 /\ Written = 1 /\ Written' = 0
        /\ WQ' = WQ /\ WQ_ReadPos' = WQ_ReadPos
        /\ WQ_WritePos' = WQ_WritePos /\ rt' = rt
    BY <1>3 DEF WWQ_Publish, Written, rendVars, EmuOK
  <2>2. WQ_InCount' + Written' = WQ_InCount + Written
    BY <1>0, <2>1
  <2>3. \A k : Slot(k)' = Slot(k)
    BY <2>1 DEF Slot
  <2>4. WQ_InCount' \in 0..WQ_Size /\ (rt' \in {"uncount", "pop"} => WQ_InCount' > 0)
    BY <1>0, <2>1
  <2>5. QED
    BY <1>0, <2>1, <2>2, <2>3, <2>4 DEF RingOK, Entry, Slot
<1>4. CASE Sleep \/ Spin \/ Awake \/ Execute \/ Uncount
  <2>1. ringVars' = ringVars /\ emu' = emu
    BY <1>4 DEF Sleep, Spin, Awake, Execute, Uncount, vars, emuVars
  <2>2. /\ rt' \in {"test", "sleep", "uncount", "pop", "exited"}
        /\ rt' \in {"uncount", "pop"} => WQ_InCount > 0
        /\ rt' = "uncount" => Entry.cmd = "draw"
    BY <1>0, <1>4 DEF Sleep, Spin, Awake, Execute, Uncount, vars, rendVars
  <2>3. QED
    BY <2>1, <2>2 DEF RingOK, ringVars, Written, Slot, Entry
<1>5. CASE Pop
  <2>1. /\ WQ' = [WQ EXCEPT ![WQ_ReadPos] = NoCmd]
        /\ WQ_ReadPos' = (WQ_ReadPos + 1) % WQ_Size
        /\ WQ_InCount' = WQ_InCount - 1 /\ WQ_WritePos' = WQ_WritePos
        /\ emu' = emu /\ rt' \in {"exited", "test"} /\ WQ_InCount > 0
        /\ Written' = Written
    BY <1>0, <1>5 DEF Pop, emuVars, Written
  <2>2. WQ_ReadPos' \in Slots
    BY <1>0, <2>1, NextSlot
  <2>3. WQ' \in [Slots -> Commands]
    BY <1>0, <2>1, CommandsTyped
  <2>4. \A k \in Slots : Slot(k)' = Slot(k + 1)
    BY <1>0, <2>1, SlotFollows DEF Slot
  <2>5. WQ_WritePos' = Slot(WQ_InCount + Written)'
    <3>1. WQ_InCount - 1 + Written \in Slots
      BY <1>0, <2>1 DEF Slots
    <3> DEFINE k == WQ_InCount - 1 + Written
    <3>2. k + 1 = WQ_InCount + Written /\ WQ_InCount' + Written' = k
      BY <1>0, <2>1
    <3>3. (WQ_ReadPos' + k) % WQ_Size = Slot(k + 1)
      BY <1>0, <2>1, <3>1, SlotFollows
    <3>4. (WQ_ReadPos' + (WQ_InCount' + Written')) % WQ_Size
            = Slot(WQ_InCount + Written)
      BY <3>2, <3>3
    <3>5. QED
      BY <1>0, <2>1, <3>4 DEF Slot
  <2>6. (\A k \in Slots : k >= WQ_InCount + Written => WQ[Slot(k)] = NoCmd)'
    <3>1. ASSUME NEW k \in Slots, k >= WQ_InCount' + Written'
          PROVE  WQ'[Slot(k + 1)] = NoCmd
      <4>1. CASE k + 1 = WQ_Size
        <5>1. Slot(k + 1) = WQ_ReadPos
          BY <1>0, <4>1, SlotsDiffer
        <5>2. QED
          BY <1>0, <2>1, <5>1
      <4>2. CASE k + 1 < WQ_Size
        <5>1. k + 1 \in Slots /\ k + 1 >= WQ_InCount + Written
          BY <1>0, <2>1, <3>1, <4>2 DEF Slots
        <5>2. WQ[Slot(k + 1)] = NoCmd /\ Slot(k + 1) \in Slots
          BY <1>0, <5>1, SlotIs DEF Slots
        <5>3. QED
          BY <1>0, <2>1, <5>2
      <4>3. QED
        BY <4>1, <4>2 DEF Slots
    <3>2. QED
      BY <2>4, <3>1
  <2>7. /\ WQ_InCount' \in 0..WQ_Size /\ WQ_InCount' + Written' <= WQ_Size
    BY <1>0, <2>1
  <2>8. QED
    BY <2>1, <2>2, <2>3, <2>5, <2>6, <2>7 DEF RingOK
<1>6. QED
  BY <1>1, <1>2, <1>3, <1>4, <1>5, NextIs
-----------------------------------------------------------------------------
(* The count follows the lines: a line is counted before it is put into the *)
(* ring, and counted off after it is drawn.                                 *)
LEMMA NoLineComing ==
  ASSUME CountOK, emu # "room" \/ hand.cmd # "draw"
  PROVE  DrawCounter = Cardinality(ToDraw) /\ DrawCounter \in 0..WQ_Size
  BY ToDrawFinite DEF CountOK, Coming

LEMMA CallingKeepsCount ==
  ASSUME FlagsOK, EmuOK, RingOK, CountOK, Calling
  PROVE  CountOK'
<1>1. ToDraw' = ToDraw /\ emu # "room"
  BY RingAside DEF ringVars, ToDraw, Calling, Write, Reset,
     ActiveLine, BorderLine, Drawn, Drained, Kill
<1>2. DrawCounter = Cardinality(ToDraw) /\ DrawCounter \in 0..WQ_Size
  BY <1>1, NoLineComing
<1>3. ASSUME NEW line \in Active \cup {Border}, Count(line), espec, espec' = espec
      PROVE  CountOK'
  <2>1. CASE crt < VisibleLines
    <3>1. /\ DrawCounter' = DrawCounter + 1 /\ wdcq' = DrawCounter
          /\ emu' = "room" /\ ret' = "drawn" /\ hand'.cmd = "draw"
      BY <1>3, <2>1 DEF Count, Call, LineCmd
    <3>2. Coming' = 1
      BY <3>1 DEF Coming
    <3>3. ~Returned'
      BY <1>3, <3>1 DEF Returned, InCall
    <3>4. DrawCounter' = Cardinality(ToDraw)' + Coming'
      BY <1>1, <1>2, <3>1, <3>2
    <3>5. QED
      BY <1>2, <3>1, <3>3, <3>4 DEF CountOK
  <2>2. CASE ~(crt < VisibleLines)
    <3>1. DrawCounter' = DrawCounter /\ wdcq' = wdcq /\ emu' = "run"
      BY <1>3, <2>2 DEF Count
    <3>2. Coming' = 0 /\ ~Returned'
      BY <1>3, <3>1 DEF Coming, Returned, InCall
    <3>3. QED
      BY <1>1, <1>2, <3>1, <3>2 DEF CountOK
  <2>3. QED
    BY <2>1, <2>2
<1>4. CASE ActiveLine
  <2>1. (IF blank THEN Border ELSE vline) \in Active \cup {Border}
    BY <1>4 DEF ActiveLine, Active, EmuOK
  <2>2. espec /\ espec' = espec
    BY <1>4 DEF ActiveLine, CountOK
  <2>3. QED
    BY <1>3, <1>4, <2>1, <2>2 DEF ActiveLine
<1>5. CASE BorderLine
  BY <1>3, <1>5 DEF BorderLine
<1>6. CASE Write \/ Reset \/ Kill
  <2>1. /\ DrawCounter' = DrawCounter /\ wdcq' = wdcq /\ espec' = espec
        /\ emu = "run" /\ emu' = "room" /\ hand'.cmd # "draw"
        /\ ret' # "fill"
    BY <1>6 DEF Write, Reset, Kill, Call, WriteCmd, ResetCmd, ExitCmd, lineVars
  <2>2. Coming' = 0 /\ (Returned' => Returned)
    BY <2>1 DEF Coming, Returned, InCall
  <2>3. QED
    BY <1>1, <1>2, <2>1, <2>2 DEF CountOK
<1>7. CASE Drawn
  <2>1. /\ DrawCounter' = DrawCounter /\ wdcq' = 0 /\ espec' = espec
        /\ emu = "drawn"
        /\ \/ emu' = "room" /\ hand'.cmd # "draw" /\ ret' = "post"
           \/ emu' = "post" \/ emu' = "run"
    BY <1>7 DEF Drawn, Call, BusyCmd
  <2>2. Coming' = 0 /\ (Returned' => Returned)
    BY <2>1 DEF Coming, Returned, InCall
  <2>3. wdcq' \in 0..WQ_Size + 1
    BY <2>1
  <2>4. QED
    BY <1>1, <1>2, <2>1, <2>2, <2>3 DEF CountOK
<1>8. CASE Drained
  <2>1. /\ DrawCounter' = DrawCounter /\ DrawCounter = 0 /\ wdcq' = wdcq
        /\ emu' = "room" /\ hand'.cmd # "draw"
    BY <1>8 DEF Drained, Call, BusyCmd, lineVars
  <2>2. Coming' = 0
    BY <2>1 DEF Coming
  <2>3. QED
    BY <1>1, <1>2, <2>1, <2>2 DEF CountOK
<1>9. QED
  BY <1>4, <1>5, <1>6, <1>7, <1>8 DEF Calling

LEMMA AsideKeepsCount ==
  ASSUME FlagsOK, EmuOK, RingOK, CountOK, Aside
  PROVE  CountOK'
<1>1. ToDraw' = ToDraw
  BY RingAside DEF ringVars, ToDraw
<1>2. /\ emu # "room" /\ emu' # "room" /\ emu # "publish" /\ emu' # "publish"
      /\ emu' # "fill"
      /\ DrawCounter' = DrawCounter /\ wdcq' = wdcq
      /\ ~espec' => ~espec \/ emu = "fill"
      /\ emu' = "line" => espec'
  BY DEF Aside, StartFrame, LineInput, Post, EndFrame, Fill, StateAction, Save,
     Load, Joined, Terminated, vars, lineVars, CountOK
<1>3. Coming' = 0 /\ Coming = 0 /\ (Returned' => Returned)
  BY <1>2 DEF Coming, Returned, InCall
<1>4. QED
  BY <1>1, <1>2, <1>3 DEF CountOK

LEMMA CountKept == FlagsOK /\ EmuOK /\ RingOK /\ CountOK /\ Next => CountOK'
<1> SUFFICES ASSUME FlagsOK, EmuOK, RingOK, CountOK, Next PROVE CountOK'
  OBVIOUS
<1>0. /\ WQ \in [Slots -> Commands] /\ WQ_ReadPos \in Slots
      /\ NoCmd.cmd # "draw"
      /\ IsFiniteSet(ToDraw) /\ Cardinality(ToDraw) \in 0..WQ_Size
  BY ToDrawFinite DEF RingOK, NoCmd, BusyCmd
<1>1. CASE Aside
  BY <1>1, AsideKeepsCount
<1>2. CASE Calling
  BY <1>2, CallingKeepsCount
<1>3. CASE WWQ_Room
  <2>1. /\ emu = "room" /\ emu' = "publish" /\ WQ_InCount \in Slots
        /\ WQ' = [WQ EXCEPT ![WQ_WritePos] = hand]
        /\ WQ_ReadPos' = WQ_ReadPos /\ rt' = rt /\ ret' = ret /\ espec' = espec
        /\ DrawCounter' = DrawCounter /\ wdcq' = wdcq
    BY <1>3 DEF WWQ_Room, rendVars, callVars, lineVars, RingOK, Slots
  <2>2. /\ WQ_WritePos = Slot(WQ_InCount) /\ WQ[WQ_WritePos] = NoCmd
        /\ WQ_WritePos \in Slots
    <3>1. Written = 0 /\ WQ_InCount + Written = WQ_InCount
      BY <2>1 DEF Written, Slots
    <3>2. Slot(WQ_InCount) \in Slots
      BY <1>0, <2>1, SlotIs DEF Slots
    <3>3. QED
      BY <2>1, <3>1, <3>2 DEF RingOK, Slots
  <2>3. rt = "pop" => WQ_ReadPos # WQ_WritePos
    <3>1. rt = "pop" => WQ_InCount # 0 /\ 0 \in Slots
      BY DEF RingOK, Slots
    <3>2. QED
      BY <1>0, <2>1, <2>2, <3>1, SlotsDiffer
  <2>4. Returned' => Returned
    BY <2>1 DEF Returned, InCall
  <2>5. Coming' = 0
    BY <2>1 DEF Coming
  <2>6. CASE hand.cmd = "draw"
    <3>1. ToDraw' = ToDraw \cup {WQ_WritePos} /\ WQ_WritePos \notin ToDraw
      BY <1>0, <2>1, <2>2, <2>3, <2>6 DEF ToDraw
    <3>2. Cardinality(ToDraw') = Cardinality(ToDraw) + 1
      BY <1>0, <3>1, FS_AddElement
    <3>3. Coming = 1
      BY <2>1, <2>6 DEF Coming
    <3>4. QED
      BY <1>0, <2>1, <2>4, <2>5, <3>2, <3>3 DEF CountOK
  <2>7. CASE hand.cmd # "draw"
    <3>1. ToDraw' = ToDraw
      BY <1>0, <2>1, <2>2, <2>3, <2>7 DEF ToDraw
    <3>2. Coming = 0
      BY <2>7 DEF Coming
    <3>3. QED
      BY <1>0, <2>1, <2>4, <2>5, <3>1, <3>2 DEF CountOK
  <2>8. QED
    BY <2>6, <2>7
<1>4. CASE WWQ_Publish
  <2>1. /\ emu = "publish" /\ emu' = ret /\ espec' = espec
        /\ WQ' = WQ /\ WQ_ReadPos' = WQ_ReadPos /\ rt' = rt
        /\ DrawCounter' = DrawCounter /\ wdcq' = wdcq
    BY <1>4 DEF WWQ_Publish, lineVars, rendVars
  <2>2. ToDraw' = ToDraw
    BY <2>1 DEF ToDraw
  <2>3. emu' # "room" /\ emu' # "publish" /\ emu' # "line"
    BY <2>1 DEF EmuOK
  <2>4. Coming = 0 /\ Coming' = 0 /\ (Returned' => Returned)
    BY <2>1, <2>3 DEF Coming, Returned, InCall
  <2>5. QED
    BY <2>1, <2>2, <2>3, <2>4 DEF CountOK
<1>5. CASE Sleep \/ Spin \/ Awake \/ Execute
  <2>1. /\ emu' = emu /\ hand' = hand /\ ret' = ret /\ espec' = espec
        /\ WQ' = WQ /\ WQ_ReadPos' = WQ_ReadPos
        /\ DrawCounter' = DrawCounter /\ wdcq' = wdcq
    BY <1>5 DEF Sleep, Spin, Awake, Execute, vars, emuVars, callVars, lineVars,
                ringVars
  <2>2. rt' = rt \/ (rt # "pop" /\ (rt' = "pop" => WQ[WQ_ReadPos].cmd # "draw"))
    BY <1>5 DEF Sleep, Spin, Awake, Execute, vars, rendVars, Entry
  <2>3. ToDraw' = ToDraw
    BY <2>1, <2>2 DEF ToDraw
  <2>4. Coming' = Coming /\ Returned' = Returned
    BY <2>1 DEF Coming, Returned, InCall
  <2>5. QED
    BY <2>1, <2>3, <2>4 DEF CountOK
<1>6. CASE Uncount
  <2>1. /\ emu' = emu /\ hand' = hand /\ ret' = ret /\ espec' = espec
        /\ WQ' = WQ /\ WQ_ReadPos' = WQ_ReadPos
        /\ rt = "uncount" /\ rt' = "pop"
        /\ DrawCounter' = DrawCounter - 1 /\ wdcq' = wdcq
    BY <1>6 DEF Uncount, emuVars, callVars, lineVars, ringVars
  <2>2. WQ_ReadPos \in ToDraw
    BY <1>0, <2>1 DEF RingOK, Entry, ToDraw
  <2>3. ToDraw' = ToDraw \ {WQ_ReadPos}
    BY <2>1 DEF ToDraw
  <2>4. Cardinality(ToDraw') = Cardinality(ToDraw) - 1
    BY <1>0, <2>2, <2>3, FS_RemoveElement
  <2>5. Cardinality(ToDraw) # 0
    BY <1>0, <2>2, FS_EmptySet
  <2>6. Coming' = Coming /\ Returned' = Returned /\ Coming \in 0..1
    BY <2>1 DEF Coming, Returned, InCall
  <2>7. QED
    BY <1>0, <2>1, <2>4, <2>5, <2>6 DEF CountOK
<1>7. CASE Pop
  <2>1. /\ emu' = emu /\ hand' = hand /\ ret' = ret /\ espec' = espec
        /\ WQ' = [WQ EXCEPT ![WQ_ReadPos] = NoCmd]
        /\ rt = "pop" /\ rt' # "pop"
        /\ DrawCounter' = DrawCounter /\ wdcq' = wdcq
    BY <1>7 DEF Pop, emuVars, callVars, lineVars
  <2>2. ToDraw' = ToDraw
    BY <1>0, <2>1 DEF ToDraw
  <2>3. Coming' = Coming /\ Returned' = Returned
    BY <2>1 DEF Coming, Returned, InCall
  <2>4. QED
    BY <2>1, <2>2, <2>3 DEF CountOK
<1>8. QED
  BY <1>1, <1>2, <1>3, <1>4, <1>5, <1>6, <1>7, NextIs
-----------------------------------------------------------------------------
(* The invariant is kept by every step of the two threads.                  *)
THEOREM Invariance == Spec => []IInv
<1>1. IInv /\ [Next]_vars => IInv'
  <2> SUFFICES ASSUME IInv, [Next]_vars PROVE IInv'
    OBVIOUS
  <2>1. CASE Next
    BY <2>1, FlagsKept, EmuKept, RingKept, CountKept, RendKept DEF IInv
  <2>2. CASE UNCHANGED vars
    BY <2>2 DEF vars, callVars, lineVars, stateVars, ringVars, rendVars, IInv,
      FlagsOK, EmuOK, InCall, RingOK, Written, Slot, Entry, CountOK, ToDraw,
      Coming, Returned, RendOK
  <2>3. QED
    BY <2>1, <2>2
<1>2. QED
  BY <1>1, InitIInv, PTL DEF Spec

(* Whatever the size of the queue and of the picture, positions and counts  *)
(* stay within the ring and the picture.                                    *)
THEOREM TypeCorrect == Spec => []TypeOK
<1>1. IInv => TypeOK
  <2> SUFFICES ASSUME IInv PROVE TypeOK
    OBVIOUS
  <2>1. DrawCounter \in 0..WQ_Size + 1
    BY ToDrawFinite DEF IInv, CountOK, Coming
  <2>2. WQ_WritePos \in Slots
    BY SlotIs DEF IInv, RingOK, Written
  <2>3. rend.reg \in Bit /\ rend.acc \in Bit
    BY DEF IInv, RendOK, Rend
  <2>4. QED
    BY <2>1, <2>2, <2>3
    DEF IInv, FlagsOK, EmuOK, RingOK, CountOK, RendOK, Slots, TypeOK
<1>2. QED
  BY <1>1, Invariance, PTL

(* While the emulation thread uses the surface or the renderer's state      *)
(* itself, no line is being or going to be drawn.                           *)
THEOREM SurfaceIsReturned == Spec => []SurfaceReturned
<1>1. IInv => SurfaceReturned
  <2> SUFFICES ASSUME IInv, ~espec \/ emu = "fill"
               PROVE  /\ DrawCounter = 0 /\ rt # "uncount"
                      /\ \A i \in 0 .. WQ_InCount - 1 :
                           WQ[(WQ_ReadPos + i) % WQ_Size].cmd = "draw"
                             => i = 0 /\ rt = "pop"
    BY DEF SurfaceReturned
  <2>1. DrawCounter = 0
    BY DEF IInv, CountOK, Returned, InCall
  <2>2. Cardinality(ToDraw) = 0
    BY <2>1, ToDrawFinite DEF IInv, CountOK, Coming
  <2>3. ToDraw = {}
    BY <2>2, ToDrawFinite, FS_EmptySet
  <2>4. WQ_ReadPos \in Slots /\ WQ_InCount \in 0..WQ_Size
    BY DEF IInv, RingOK
  <2>5. rt # "uncount"
    BY <2>3, <2>4 DEF IInv, RingOK, Entry, ToDraw
  <2>6. ASSUME NEW i \in 0 .. WQ_InCount - 1, WQ[Slot(i)].cmd = "draw"
        PROVE  i = 0 /\ rt = "pop"
    <3>1. i \in Slots /\ i \in 0..WQ_Size /\ 0 \in Slots
      BY <2>4 DEF Slots
    <3>2. Slot(i) \in Slots
      BY <2>4, <3>1, SlotIs
    <3>3. rt = "pop" /\ Slot(i) = WQ_ReadPos
      BY <2>3, <2>6, <3>2 DEF ToDraw
    <3>4. QED
      BY <2>4, <3>1, <3>3, SlotsDiffer
  <2>7. QED
    BY <2>1, <2>5, <2>6 DEF Slot
<1>2. QED
  BY <1>1, Invariance, PTL
-----------------------------------------------------------------------------
LEMMA Least ==
  ASSUME NEW S, S \subseteq Nat, S # {}
  PROVE  \E n \in S : \A m \in S : n <= m
<1>1. PICK n \in S : \A m \in S : ~(<<m, n>> \in OpToRel(<, Nat))
  BY NatLessThanWellFounded, WFMin, Zenon
<1>2. ASSUME NEW m \in S, m < n PROVE FALSE
  <2>1. <<m, n>> \in OpToRel(<, Nat)
    BY <1>2 DEF OpToRel
  <2> QED BY <1>1, <1>2, <2>1
<1> QED BY <1>2

(* f is the list of states that the renderer goes through from r on, with   *)
(* the first n commands of q and the line inputs lib.                       *)
IsRun(f, r, q, lib, n) ==
  f = [i \in 0..n |-> IF i = 0 THEN r ELSE Executed(f[i - 1], q[i - 1], lib)]
HasRun(r, q, lib, n) == \E f : IsRun(f, r, q, lib, n)
Steps(f, r, q, lib, n) ==
  /\ f[0] = r
  /\ \A i \in 0 .. n - 1 : f[i + 1] = Executed(f[i], q[i], lib)

LEMMA RunExists ==
  ASSUME NEW r, NEW q, NEW lib, NEW n \in Nat
  PROVE  HasRun(r, q, lib, n)
<1> DEFINE S == {k \in Nat : ~HasRun(r, q, lib, k)}
<1> SUFFICES ASSUME S # {} PROVE FALSE
  OBVIOUS
<1>1. PICK k \in S : \A m \in S : k <= m
  BY Least
<1>2. CASE k = 0
  <2> DEFINE f == [i \in 0..0 |-> r]
  <2>1. f = [i \in 0..k |-> IF i = 0 THEN r ELSE Executed(f[i - 1], q[i - 1], lib)]
    BY <1>2
  <2> HIDE DEF f
  <2>2. IsRun(f, r, q, lib, k)
    BY <2>1 DEF IsRun
  <2> QED BY <2>2 DEF HasRun
<1>3. CASE k # 0
  <2>1. k - 1 \in Nat /\ k - 1 \notin S
    BY <1>1, <1>3
  <2>2. PICK f : IsRun(f, r, q, lib, k - 1)
    BY <2>1 DEF HasRun
  <2> DEFINE g == [i \in 0..k |-> IF i = k THEN Executed(f[k - 1], q[k - 1], lib) ELSE f[i]]
  <2>3. \A i \in 0..k : g[i] = IF i = 0 THEN r ELSE Executed(g[i - 1], q[i - 1], lib)
    <3> SUFFICES ASSUME NEW i \in 0..k
                 PROVE  g[i] = IF i = 0 THEN r ELSE Executed(g[i - 1], q[i - 1], lib)
      OBVIOUS
    <3>1. CASE i = k
      BY <1>3, <2>1, <3>1
    <3>2. CASE i # k
      <4>1. i \in 0 .. k - 1 /\ (i # 0 => i - 1 \in 0 .. k - 1 /\ i - 1 # k)
        BY <2>1, <3>2
      <4>2. g[i] = f[i] /\ (i # 0 => g[i - 1] = f[i - 1])
        BY <4>1, <3>2
      <4>3. f[i] = IF i = 0 THEN r ELSE Executed(f[i - 1], q[i - 1], lib)
        BY <4>1, <2>2 DEF IsRun
      <4> QED BY <4>2, <4>3
    <3> QED BY <3>1, <3>2
  <2>4. g = [i \in 0..k |-> g[i]]
    OBVIOUS
  <2> HIDE DEF g
  <2>5. IsRun(g, r, q, lib, k)
    BY <2>3, <2>4 DEF IsRun
  <2> QED BY <2>5 DEF HasRun
<1> QED BY <1>2, <1>3

LEMMA RunSteps ==
  ASSUME NEW f, NEW r, NEW q, NEW lib, NEW n \in Nat, IsRun(f, r, q, lib, n)
  PROVE  Steps(f, r, q, lib, n)
<1>1. f[0] = r
  BY DEF IsRun
<1>2. ASSUME NEW i \in 0 .. n - 1 PROVE f[i + 1] = Executed(f[i], q[i], lib)
  <2>1. i + 1 \in 0..n /\ i + 1 # 0 /\ (i + 1) - 1 = i
    OBVIOUS
  <2> QED BY <2>1 DEF IsRun
<1> QED BY <1>1, <1>2 DEF Steps

LEMMA QueuedTyped ==
  /\ RingOK => Queued \in Nat /\ Done \in 0..1
  /\ RingOK' => Queued' \in Nat /\ Done' \in 0..1
  BY DEF RingOK, Queued, Done

LEMMA AfterIsRun ==
  /\ RingOK => Steps(After, rend, Queue, LIB, Queued)
  /\ RingOK' => Steps(After', rend', Queue', LIB', Queued')
<1>1. ASSUME RingOK PROVE Steps(After, rend, Queue, LIB, Queued)
  <2>1. HasRun(rend, Queue, LIB, Queued)
    BY <1>1, QueuedTyped, RunExists
  <2>2. PICK f : f = [i \in 0..Queued |->
                        IF i = 0 THEN rend ELSE Executed(f[i - 1], Queue[i - 1], LIB)]
    BY <2>1 DEF HasRun, IsRun
  <2>3. After = CHOOSE g : g = [i \in 0..Queued |->
                        IF i = 0 THEN rend ELSE Executed(g[i - 1], Queue[i - 1], LIB)]
    BY DEF After
  <2>4. IsRun(After, rend, Queue, LIB, Queued)
    BY <2>2, <2>3 DEF IsRun
  <2> QED BY <1>1, <2>4, QueuedTyped, RunSteps
<1>2. ASSUME RingOK' PROVE Steps(After', rend', Queue', LIB', Queued')
  <2>1. HasRun(rend', Queue', LIB', Queued')
    BY <1>2, QueuedTyped, RunExists
  <2>2. PICK f : f = [i \in 0..Queued' |->
                        IF i = 0 THEN rend' ELSE Executed(f[i - 1], Queue'[i - 1], LIB')]
    BY <2>1 DEF HasRun, IsRun
  <2>3. After' = CHOOSE g : g = [i \in 0..Queued' |->
                        IF i = 0 THEN rend' ELSE Executed(g[i - 1], Queue'[i - 1], LIB')]
    BY DEF After
  <2>4. IsRun(After', rend', Queue', LIB', Queued')
    BY <2>2, <2>3 DEF IsRun
  <2> QED BY <1>2, <2>4, QueuedTyped, RunSteps
<1> QED BY <1>1, <1>2

(* The states are those of before when the queue is.                        *)
LEMMA AfterSame ==
  ASSUME rend' = rend, LIB' = LIB, Queued' = Queued, Queue' = Queue
  PROVE  After' = After /\ Eventual' = Eventual
  BY DEF After, Eventual

LEMMA AfterEmpty ==
  /\ RingOK /\ Queued = 0 => Eventual = rend
  /\ RingOK' /\ Queued' = 0 => Eventual' = rend'
  BY AfterIsRun DEF Steps, Eventual
-----------------------------------------------------------------------------
(* What holds at 0 and passes from a number to the next holds up to n.      *)
LEMMA Along ==
  ASSUME NEW n \in Nat, NEW S, 0 \in S,
         \A i \in 0 .. n - 1 : i \in S => i + 1 \in S
  PROVE  \A i \in 0..n : i \in S
<1> DEFINE T == {k \in Nat : k <= n /\ k \notin S}
<1> SUFFICES ASSUME T # {} PROVE FALSE
  OBVIOUS
<1>1. T \subseteq Nat
  OBVIOUS
<1>2. PICK k \in T : \A m \in T : k <= m
  BY <1>1, Least
<1>3. k \in Nat /\ k <= n /\ k \notin S /\ k # 0
  BY <1>2
<1>4. k - 1 \in 0 .. n - 1 /\ (k - 1) + 1 = k /\ k - 1 \notin T
  BY <1>2, <1>3
<1> QED BY <1>3, <1>4

(* A command keeps the renderer's state in its type.                        *)
LEMMA ExecutedTyped ==
  ASSUME NEW r \in Rend, NEW e \in Commands, NEW lib \in [Active -> Bit]
  PROVE  Executed(r, e, lib) \in Rend
<1> DEFINE Line == [line : Int, reg : Bit, acc : Bit, input : Bit]
           Surfaces == [Lines -> Line]
<1>1. r.reg \in Bit /\ r.acc \in Bit /\ r.surface \in Surfaces
  BY DEF Rend
<1>2. \A s \in Surfaces : [r EXCEPT !.surface = s] \in Rend
  BY <1>1 DEF Rend
<1>3. e.val \in Bit /\ e.line \in Active \cup {Border} /\ e.out \in Lines
  BY DEF Commands
<1>4. DrawnLine(r, e.line, e.out, lib) \in Rend
  <2>1. CASE e.line = Border
    <3>1. Pixels(Border, r.reg, 0, 0) \in Line
      BY <1>1 DEF Pixels, Border, Bit
    <3>2. [r.surface EXCEPT ![e.out] = Pixels(Border, r.reg, 0, 0)]
            \in Surfaces
      BY <1>1, <3>1
    <3>3. QED
      BY <1>2, <2>1, <3>2 DEF DrawnLine
  <2>2. CASE e.line # Border
    <3>1. e.line \in Active /\ lib[e.line] \in Bit
      BY <1>3, <2>2
    <3> DEFINE acc == IF e.line = 0 THEN 0 ELSE r.acc
    <3>2. acc \in Bit /\ (acc + r.reg) % 2 \in Bit
      BY <1>1 DEF Bit
    <3> HIDE DEF acc
    <3>3. Pixels(e.line, r.reg, acc, lib[e.line]) \in Line
      BY <1>1, <3>1, <3>2 DEF Pixels, Active
    <3>4. [r.surface EXCEPT
             ![e.out] = Pixels(e.line, r.reg, acc, lib[e.line])] \in Surfaces
      BY <1>1, <3>3
    <3>5. DrawnLine(r, e.line, e.out, lib)
            = [reg |-> r.reg, acc |-> (acc + r.reg) % 2,
               surface |-> [r.surface EXCEPT
                 ![e.out] = Pixels(e.line, r.reg, acc, lib[e.line])]]
      BY <2>2 DEF DrawnLine, acc
    <3>6. QED
      BY <1>1, <3>2, <3>4, <3>5 DEF Rend
  <2>3. QED
    BY <2>1, <2>2
<1>5. /\ [r EXCEPT !.reg = e.val] \in Rend
      /\ [reg |-> 0, acc |-> 0, surface |-> r.surface] \in Rend
  BY <1>1, <1>3 DEF Rend, Bit
<1>6. QED
  BY <1>4, <1>5 DEF Executed

(* The states of a run are of the type.                                     *)
LEMMA RunTyped ==
  ASSUME NEW n \in Nat, NEW r \in Rend, NEW q, NEW lib \in [Active -> Bit],
         \A i \in 0 .. n - 1 : q[i] \in Commands,
         NEW f, Steps(f, r, q, lib, n)
  PROVE  \A i \in 0..n : f[i] \in Rend
<1> DEFINE S == {i \in Nat : f[i] \in Rend}
<1>1. 0 \in S
  BY DEF Steps
<1>2. \A i \in 0 .. n - 1 : i \in S => i + 1 \in S
  BY ExecutedTyped DEF Steps
<1> HIDE DEF S
<1>3. \A i \in 0..n : i \in S
  BY <1>1, <1>2, Along
<1> QED BY <1>3 DEF S

(* A run is determined by where it starts and its commands.                 *)
LEMMA RunsAgree ==
  ASSUME NEW n \in Nat, NEW r, NEW q, NEW p, NEW lib, NEW f, NEW g,
         Steps(f, r, q, lib, n), Steps(g, r, p, lib, n),
         \A i \in 0 .. n - 1 : p[i] = q[i]
  PROVE  g[n] = f[n]
<1> DEFINE S == {i \in Nat : g[i] = f[i]}
<1>1. 0 \in S
  BY DEF Steps
<1>2. \A i \in 0 .. n - 1 : i \in S => i + 1 \in S
  BY DEF Steps
<1> HIDE DEF S
<1>3. \A i \in 0..n : i \in S
  BY <1>1, <1>2, Along
<1> QED BY <1>3 DEF S

(* A command is added at the end of the run.                                *)
LEMMA RunExtended ==
  ASSUME NEW n \in Nat, NEW r, NEW q, NEW p, NEW lib, NEW f, NEW g,
         Steps(f, r, q, lib, n), Steps(g, r, p, lib, n + 1),
         \A i \in 0 .. n - 1 : p[i] = q[i]
  PROVE  g[n + 1] = Executed(f[n], p[n], lib)
<1>1. Steps(g, r, p, lib, n)
  BY DEF Steps
<1>2. g[n] = f[n]
  BY <1>1, RunsAgree
<1>3. g[n + 1] = Executed(g[n], p[n], lib)
  BY DEF Steps
<1> QED BY <1>2, <1>3

(* The first command is executed, and the rest of the run remains.          *)
LEMMA RunBegun ==
  ASSUME NEW n \in Nat, NEW r, NEW q, NEW p, NEW lib, NEW f, NEW g,
         Steps(f, r, q, lib, n + 1),
         Steps(g, Executed(r, q[0], lib), p, lib, n),
         \A i \in 0 .. n - 1 : p[i] = q[i + 1]
  PROVE  g[n] = f[n + 1]
<1> DEFINE S == {i \in Nat : g[i] = f[i + 1]}
<1>1. 0 \in S
  BY DEF Steps
<1>2. ASSUME NEW i \in 0 .. n - 1, i \in S PROVE i + 1 \in S
  <2>1. g[i + 1] = Executed(g[i], p[i], lib)
    BY DEF Steps
  <2>2. i + 1 \in 0 .. (n + 1) - 1 /\ i + 1 \in Nat
    OBVIOUS
  <2>3. f[(i + 1) + 1] = Executed(f[i + 1], q[i + 1], lib)
    BY <2>2 DEF Steps
  <2>4. g[i] = f[i + 1] /\ p[i] = q[i + 1]
    BY <1>2
  <2> QED BY <2>1, <2>2, <2>3, <2>4
<1> HIDE DEF S
<1>3. \A i \in 0..n : i \in S
  BY <1>1, <1>2, Along
<1> QED BY <1>3 DEF S
-----------------------------------------------------------------------------
OnSurface(r, s) == [r EXCEPT !.surface = s]

(* A command that draws nothing does not look at the surface.               *)
LEMMA ExecutedApart ==
  ASSUME NEW r \in Rend, NEW e, e.cmd # "draw", NEW s, NEW lib
  PROVE  /\ Executed(OnSurface(r, s), e, lib)
              = OnSurface(Executed(r, e, lib), s)
         /\ Executed(r, e, lib).surface = r.surface
<1>1. r = [reg |-> r.reg, acc |-> r.acc, surface |-> r.surface]
  BY DEF Rend
<1>2. CASE e.cmd = "write"
  BY <1>1, <1>2 DEF Executed, OnSurface
<1>3. CASE e.cmd = "reset"
  BY <1>1, <1>3 DEF Executed, OnSurface
<1>4. CASE e.cmd \notin {"write", "reset"}
  BY <1>1, <1>4 DEF Executed, OnSurface
<1> QED BY <1>2, <1>3, <1>4

(* Commands that draw nothing may run on another surface.                   *)
LEMMA RunApart ==
  ASSUME NEW n \in Nat, NEW r \in Rend, NEW q, NEW lib \in [Active -> Bit],
         NEW s, NEW f, NEW g,
         \A i \in 0 .. n - 1 : q[i] \in Commands /\ q[i].cmd # "draw",
         Steps(f, r, q, lib, n),
         Steps(g, OnSurface(r, s), q, lib, n)
  PROVE  \A i \in 0..n : /\ f[i].surface = r.surface
                         /\ g[i] = OnSurface(f[i], s)
<1> DEFINE S == {i \in Nat : /\ f[i].surface = r.surface
                             /\ g[i] = OnSurface(f[i], s)}
<1>1. 0 \in S
  BY DEF Steps
<1>2. \A i \in 0..n : f[i] \in Rend
  BY RunTyped, SMTT(30)
<1>3. ASSUME NEW i \in 0 .. n - 1, i \in S PROVE i + 1 \in S
  <2>1. /\ g[i + 1] = Executed(g[i], q[i], lib)
        /\ f[i + 1] = Executed(f[i], q[i], lib)
    BY DEF Steps
  <2>2. f[i] \in Rend /\ q[i].cmd # "draw"
    BY <1>2
  <2>3. /\ f[i].surface = r.surface
        /\ g[i] = OnSurface(f[i], s)
    BY <1>3
  <2>4. /\ Executed(OnSurface(f[i], s), q[i], lib)
              = OnSurface(Executed(f[i], q[i], lib), s)
        /\ Executed(f[i], q[i], lib).surface = f[i].surface
    BY <2>2, ExecutedApart
  <2> QED BY <2>1, <2>3, <2>4
<1> HIDE DEF S
<1>4. \A i \in 0..n : i \in S
  BY <1>1, <1>3, Along
<1> QED BY <1>4 DEF S

(* g is f, but for the input x of some lines of the surface that show l.    *)
Later(f, g, l, x) ==
  /\ g.reg = f.reg /\ g.acc = f.acc
  /\ \A o \in Lines : \/ g.surface[o] = f.surface[o]
                      \/ /\ f.surface[o].line = l
                         /\ g.surface[o] = [f.surface[o] EXCEPT !.input = x]

WithInput(lib, l, x) == [lib EXCEPT ![l] = x]

LEMMA ExecutedLater ==
  ASSUME NEW f \in Rend, NEW g \in Rend, NEW e \in Commands,
         NEW lib \in [Active -> Bit], NEW l \in Active, NEW x \in Bit,
         Later(f, g, l, x)
  PROVE  Later(Executed(f, e, lib), Executed(g, e, WithInput(lib, l, x)),
               l, x)
<1> DEFINE F == Executed(f, e, lib)
           G == Executed(g, e, WithInput(lib, l, x))
           Line == [line : Int, reg : Bit, acc : Bit, input : Bit]
<1>1. /\ f.reg \in Bit /\ f.acc \in Bit /\ f.surface \in [Lines -> Line]
      /\ g.reg \in Bit /\ g.acc \in Bit /\ g.surface \in [Lines -> Line]
      /\ f = [reg |-> f.reg, acc |-> f.acc, surface |-> f.surface]
      /\ g = [reg |-> g.reg, acc |-> g.acc, surface |-> g.surface]
  BY DEF Rend
<1>2. e.val \in Bit /\ e.line \in Active \cup {Border} /\ e.out \in Lines
  BY DEF Commands
<1>3. g.reg = f.reg /\ g.acc = f.acc
  BY DEF Later
<1>4. CASE e.cmd \notin {"draw", "write", "reset"}
  BY <1>4 DEF Executed
<1>5. CASE e.cmd = "write"
  <2>1. F = [f EXCEPT !.reg = e.val] /\ G = [g EXCEPT !.reg = e.val]
    BY <1>5 DEF Executed
  <2>2. /\ F.reg = e.val /\ F.acc = f.acc /\ F.surface = f.surface
        /\ G.reg = e.val /\ G.acc = g.acc /\ G.surface = g.surface
    BY <1>1, <2>1
  <2> HIDE DEF F, G
  <2>3. Later(F, G, l, x)
    BY <2>2, <1>3 DEF Later
  <2> QED BY <2>3 DEF F, G
<1>6. CASE e.cmd = "reset"
  <2>1. /\ F = [reg |-> 0, acc |-> 0, surface |-> f.surface]
        /\ G = [reg |-> 0, acc |-> 0, surface |-> g.surface]
    BY <1>6 DEF Executed
  <2>2. /\ F.reg = 0 /\ F.acc = 0 /\ F.surface = f.surface
        /\ G.reg = 0 /\ G.acc = 0 /\ G.surface = g.surface
    BY <2>1
  <2> HIDE DEF F, G
  <2>3. Later(F, G, l, x)
    BY <2>2 DEF Later
  <2> QED BY <2>3 DEF F, G
<1>7. CASE e.cmd = "draw" /\ e.line = Border
  <2>1. /\ F = [f EXCEPT !.surface = [@ EXCEPT ![e.out] = Pixels(Border, f.reg, 0, 0)]]
        /\ G = [g EXCEPT !.surface = [@ EXCEPT ![e.out] = Pixels(Border, g.reg, 0, 0)]]
    BY <1>7 DEF Executed, DrawnLine
  <2>2. /\ F.reg = f.reg /\ F.acc = f.acc
        /\ F.surface = [f.surface EXCEPT ![e.out] = Pixels(Border, f.reg, 0, 0)]
        /\ G.reg = g.reg /\ G.acc = g.acc
        /\ G.surface = [g.surface EXCEPT ![e.out] = Pixels(Border, g.reg, 0, 0)]
    BY <1>1, <2>1
  <2> HIDE DEF F, G
  <2>3. ASSUME NEW o \in Lines
        PROVE  \/ G.surface[o] = F.surface[o]
               \/ /\ F.surface[o].line = l
                  /\ G.surface[o] = [F.surface[o] EXCEPT !.input = x]
    <3>1. CASE o = e.out
      BY <1>1, <1>3, <2>2, <3>1
    <3>2. CASE o # e.out
      <4>1. F.surface[o] = f.surface[o] /\ G.surface[o] = g.surface[o]
        BY <1>1, <2>2, <3>2
      <4> QED BY <4>1 DEF Later
    <3> QED BY <3>1, <3>2
  <2>4. Later(F, G, l, x)
    BY <1>3, <2>2, <2>3 DEF Later
  <2> QED BY <2>4 DEF F, G
<1>8. CASE e.cmd = "draw" /\ e.line # Border
  <2> DEFINE acc == IF e.line = 0 THEN 0 ELSE f.acc
             P == Pixels(e.line, f.reg, acc, lib[e.line])
             R == Pixels(e.line, f.reg, acc, WithInput(lib, l, x)[e.line])
  <2>1. /\ F = [reg |-> f.reg, acc |-> (acc + f.reg) % 2,
                surface |-> [f.surface EXCEPT ![e.out] = P]]
        /\ G = [reg |-> g.reg, acc |-> (acc + f.reg) % 2,
                surface |-> [g.surface EXCEPT ![e.out] = R]]
    BY <1>3, <1>8 DEF Executed, DrawnLine
  <2>2. R = P \/ (P.line = l /\ R = [P EXCEPT !.input = x])
    BY <1>2, <1>8 DEF Pixels, WithInput
  <2> HIDE DEF acc, P, R, F, G
  <2>3. /\ F.reg = f.reg /\ F.acc = (acc + f.reg) % 2
        /\ F.surface = [f.surface EXCEPT ![e.out] = P]
        /\ G.reg = g.reg /\ G.acc = (acc + f.reg) % 2
        /\ G.surface = [g.surface EXCEPT ![e.out] = R]
    BY <2>1
  <2>4. ASSUME NEW o \in Lines
        PROVE  \/ G.surface[o] = F.surface[o]
               \/ /\ F.surface[o].line = l
                  /\ G.surface[o] = [F.surface[o] EXCEPT !.input = x]
    <3>1. CASE o = e.out
      <4>1. F.surface[o] = P /\ G.surface[o] = R
        BY <1>1, <2>3, <3>1
      <4> QED BY <2>2, <4>1
    <3>2. CASE o # e.out
      <4>1. F.surface[o] = f.surface[o] /\ G.surface[o] = g.surface[o]
        BY <1>1, <2>3, <3>2
      <4> QED BY <4>1 DEF Later
    <3> QED BY <3>1, <3>2
  <2>5. Later(F, G, l, x)
    BY <1>3, <2>3, <2>4 DEF Later
  <2> QED BY <2>5 DEF F, G
<1> QED BY <1>4, <1>5, <1>6, <1>7, <1>8

(* A line's input comes while commands are on their way.                    *)
LEMMA RunLater ==
  ASSUME NEW n \in Nat, NEW r \in Rend, NEW q, NEW lib \in [Active -> Bit],
         \A i \in 0 .. n - 1 : q[i] \in Commands,
         NEW l \in Active, NEW x \in Bit, NEW f, NEW g,
         Steps(f, r, q, lib, n), Steps(g, r, q, WithInput(lib, l, x), n)
  PROVE  Later(f[n], g[n], l, x) /\ g[n] \in Rend
<1> DEFINE S == {i \in Nat : Later(f[i], g[i], l, x)}
<1>1. 0 \in S
  BY DEF Steps, Later
<1>2. \A i \in 0..n : f[i] \in Rend
  BY RunTyped, SMTT(30)
<1>3. WithInput(lib, l, x) \in [Active -> Bit]
  BY DEF WithInput
<1>4. \A i \in 0..n : g[i] \in Rend
  BY <1>3, RunTyped, SMTT(30)
<1>5. ASSUME NEW i \in 0 .. n - 1, i \in S PROVE i + 1 \in S
  <2>1. /\ f[i + 1] = Executed(f[i], q[i], lib)
        /\ g[i + 1] = Executed(g[i], q[i], WithInput(lib, l, x))
    BY DEF Steps
  <2>2. f[i] \in Rend /\ g[i] \in Rend /\ q[i] \in Commands /\ i + 1 \in Nat
    BY <1>2, <1>4
  <2>3. Later(f[i], g[i], l, x)
    BY <1>5
  <2>4. Later(Executed(f[i], q[i], lib),
              Executed(g[i], q[i], WithInput(lib, l, x)), l, x)
    BY <2>2, <2>3, ExecutedLater
  <2> QED BY <2>1, <2>2, <2>4
<1> HIDE DEF S
<1>6. \A i \in 0..n : i \in S
  BY <1>1, <1>5, Along
<1> QED BY <1>4, <1>6 DEF S
-----------------------------------------------------------------------------
(* WWQ() is called for one thing at a time, from the code that ret names.   *)
HandOK ==
  /\ emu \notin {"room", "publish"} => ret = "run"
  /\ emu \in {"room", "publish"} =>
       /\ ret = "drawn" <=> hand.cmd = "draw"
       /\ hand.cmd = "draw" => hand.out = crt
       /\ hand.cmd = "write" => hand.val \in Values
       /\ hand.cmd = "reset" => hand.val = 0
  /\ emu = "publish" => WQ[Slot(WQ_InCount)] = hand
  /\ emu \in {"line", "drain"} \/ InCall("drawn") \/ InCall("post")
       \/ InCall("fill") => espec
  /\ emu \in {"save", "load", "killed"} \/ InCall("join") => ~espec

(* The next line to draw is the one that CRTLineCounter shows.              *)
NextOK == espec /\ crt < VisibleLines => NextOutLine = crt

-----------------------------------------------------------------------------
LEMMA CountIs ==
  ASSUME NEW line, Count(line)
  PROVE  \/ /\ emu' = "room" /\ ret' = "drawn" /\ hand' = LineCmd(line, crt)
            /\ crt' = crt
         \/ /\ emu' = "run" /\ hand' = hand /\ ret' = ret /\ crt' = crt
  BY DEF Count, Call, callVars

LEMMA HandKept == FlagsOK /\ EmuOK /\ RingOK /\ CountOK /\ HandOK /\ Next => HandOK'
<1> SUFFICES ASSUME FlagsOK, EmuOK, RingOK, CountOK, HandOK, Next PROVE HandOK'
  OBVIOUS
<1> USE DEF HandOK, InCall
<1>0. espec \in BOOLEAN
  BY DEF FlagsOK
<1>1. CASE Calling \/ Aside
  <2>1. emu' # "publish"
    BY <1>1, RingAside
  <2>2. CASE ActiveLine
    <3>1. espec /\ espec' = espec /\ emu = "line"
      BY <2>2 DEF ActiveLine, CountOK
    <3> QED
      BY <2>2, <2>1, <3>1, CountIs DEF ActiveLine, LineCmd
  <2>3. CASE BorderLine
    BY <2>3, <2>1, CountIs DEF BorderLine, LineCmd
  <2>4. CASE Write \/ Reset \/ Kill \/ Drained
    <3>1. /\ emu' = "room" /\ espec' = espec /\ hand'.cmd # "draw"
          /\ hand'.cmd = "write" => hand'.val \in Values
          /\ hand'.cmd = "reset" => hand'.val = 0
          /\ ret' \in {"run", "join", "fill"}
      BY <2>4 DEF Write, Reset, Kill, Drained, Call, WriteCmd, ResetCmd,
                  BusyCmd, ExitCmd
    <3>2. /\ ret' = "fill" => emu = "drain"
          /\ ret' = "join" => ~espec
      BY <2>4 DEF Write, Reset, Kill, Drained, Call
    <3>3. ret' = "fill" => espec'
      BY <1>0, <3>1, <3>2
    <3>4. ret' = "join" => ~espec'
      BY <1>0, <3>1, <3>2
    <3> QED BY <3>1, <3>3, <3>4
  <2>5. CASE Drawn
    <3>1. /\ emu = "drawn" /\ espec' = espec
          /\ \/ emu' = "room" /\ hand' = BusyCmd(1) /\ ret' = "post"
             \/ emu' \in {"post", "run"} /\ ret' = ret
      BY <2>5, Zenon DEF Drawn, Call, callVars
    <3>2. espec'
      BY <1>0, <3>1
    <3> QED BY <3>1, <3>2 DEF BusyCmd
  <2>6. CASE StartFrame \/ LineInput \/ Post \/ EndFrame \/ Fill
    BY <2>6, <2>1 DEF StartFrame, LineInput, Post, EndFrame, Fill, callVars
  <2>7. CASE StateAction \/ Save \/ Load \/ Joined \/ Terminated
    BY <2>7, <2>1 DEF StateAction, Save, Load, Joined, Terminated, callVars,
      vars
  <2> QED BY <1>1, <2>2, <2>3, <2>4, <2>5, <2>6, <2>7 DEF Calling, Aside
<1>2. CASE WWQ_Room
  <2>1. /\ emu = "room" /\ emu' = "publish" /\ hand' = hand /\ ret' = ret
        /\ crt' = crt /\ espec' = espec
        /\ WQ' = [WQ EXCEPT ![WQ_WritePos] = hand]
        /\ WQ_ReadPos' = WQ_ReadPos /\ WQ_InCount' = WQ_InCount
    BY <1>2 DEF WWQ_Room, callVars, lineVars
  <2>2. WQ_WritePos = Slot(WQ_InCount) /\ WQ_InCount \in 0..WQ_Size
    BY <2>1 DEF RingOK, Written
  <2>3. Slot(WQ_InCount) \in Slots
    BY <2>2, SlotIs DEF RingOK
  <2>4. WQ'[Slot(WQ_InCount)'] = hand'
    BY <2>1, <2>2, <2>3 DEF RingOK, Slot
  <2> QED BY <2>1, <2>4
<1>3. CASE WWQ_Publish
  <2>1. /\ emu = "publish" /\ emu' = ret /\ ret' = "run" /\ espec' = espec
    BY <1>3 DEF WWQ_Publish
  <2>2. emu' \in {"run", "drawn", "post", "fill", "join"}
    BY <2>1 DEF EmuOK
  <2> QED BY <2>1, <2>2
<1>4. CASE Sleep \/ Spin \/ Awake \/ Execute \/ Uncount
  <2>1. /\ emu' = emu /\ hand' = hand /\ ret' = ret /\ crt' = crt
        /\ espec' = espec /\ WQ' = WQ
        /\ WQ_ReadPos' = WQ_ReadPos /\ WQ_InCount' = WQ_InCount
    BY <1>4 DEF Sleep, Spin, Awake, Execute, Uncount, vars, emuVars, callVars,
      lineVars, ringVars
  <2> QED BY <2>1 DEF Slot
<1>5. CASE Pop
  <2>1. /\ emu' = emu /\ hand' = hand /\ ret' = ret /\ crt' = crt
        /\ espec' = espec /\ WQ' = [WQ EXCEPT ![WQ_ReadPos] = NoCmd]
        /\ WQ_ReadPos' = (WQ_ReadPos + 1) % WQ_Size
        /\ WQ_InCount' = WQ_InCount - 1
    BY <1>5 DEF Pop, emuVars, callVars, lineVars
  <2>2. ASSUME emu = "publish"
        PROVE  WQ'[Slot(WQ_InCount)'] = hand'
    <3>1. Written = 1 /\ WQ_InCount \in Slots /\ WQ_InCount > 0
      BY <2>2, <1>5 DEF Written, RingOK, Slots, Pop
    <3>2. WQ_InCount - 1 \in Slots /\ (WQ_InCount - 1) + 1 = WQ_InCount
      BY <3>1 DEF Slots
    <3>3. Slot(WQ_InCount)' = Slot(WQ_InCount)
      BY <2>1, <3>2, SlotFollows DEF Slot, RingOK
    <3>4. Slot(WQ_InCount) # WQ_ReadPos /\ Slot(WQ_InCount) \in Slots
      <4>1. 0 \in Slots /\ WQ_InCount \in 0..WQ_Size
        BY <3>1 DEF Slots
      <4> QED BY <3>1, <4>1, SlotIs, SlotsDiffer DEF RingOK
    <3>5. WQ[Slot(WQ_InCount)] = hand
      BY <2>2
    <3> QED BY <2>1, <3>3, <3>4, <3>5 DEF RingOK
  <2> QED BY <2>1, <2>2
<1> QED BY <1>1, <1>2, <1>3, <1>4, <1>5, NextIs

LEMMA NextKept == FlagsOK /\ EmuOK /\ HandOK /\ NextOK /\ Next => NextOK'
<1> SUFFICES ASSUME FlagsOK, EmuOK, HandOK, NextOK, Next PROVE NextOK'
  OBVIOUS
<1> USE DEF NextOK
<1>1. CASE ActiveLine
  BY <1>1, CountIs DEF ActiveLine
<1>2. CASE BorderLine
  BY <1>2, CountIs DEF BorderLine
<1>3. CASE Drawn
  BY <1>3, Zenon DEF Drawn, Call
<1>4. CASE Post \/ EndFrame \/ Fill \/ StartFrame
  <2>1. Post \/ EndFrame \/ StartFrame \/ ~espec'
    BY <1>4, Zenon DEF Fill
  <2>2. EndFrame => crt' = VisibleLines
    BY DEF EndFrame
  <2>3. Post \/ StartFrame => NextOutLine' = crt'
    BY DEF Post, StartFrame
  <2> QED BY <1>4, <2>1, <2>2, <2>3
<1>6. CASE Reset
  BY <1>6, Zenon DEF Reset
<1>5. CASE \/ Write \/ Drained \/ Kill \/ LineInput \/ StateAction \/ Save
           \/ Load \/ Joined \/ Terminated \/ WWQ_Room \/ WWQ_Publish
           \/ Sleep \/ Spin \/ Awake \/ Execute \/ Uncount \/ Pop
  BY <1>5, Zenon DEF Write, Drained, Kill, LineInput, StateAction, Save, Load,
     Joined, Terminated, WWQ_Room, WWQ_Publish, Sleep, Spin, Awake, Execute,
     Uncount, Pop, vars, lineVars, emuVars
<1> QED BY <1>1, <1>2, <1>3, <1>4, <1>5, <1>6, NextIs DEF Aside, Calling
-----------------------------------------------------------------------------
(* The commands in the queue, and what a step of either thread does to them.*)
LEMMA QueueIs ==
  ASSUME RingOK
  PROVE  /\ Queued \in Nat /\ Done \in 0..1 /\ Done + Queued = WQ_InCount
         /\ \A i \in 0 .. Queued - 1 :
              /\ Queue[i] = WQ[Slot(Done + i)]
              /\ Done + i \in Slots /\ Done + i < WQ_InCount
              /\ Slot(Done + i) \in Slots
              /\ Queue[i] \in Commands
<1>1. Queued \in Nat /\ Done \in 0..1 /\ Done + Queued = WQ_InCount
  BY QueuedTyped DEF RingOK, Queued
<1>2. ASSUME NEW i \in 0 .. Queued - 1
      PROVE  /\ Queue[i] = WQ[Slot(Done + i)]
             /\ Done + i \in Slots /\ Done + i < WQ_InCount
             /\ Slot(Done + i) \in Slots
             /\ Queue[i] \in Commands
  <2>1. Done + i \in Slots /\ Done + i < WQ_InCount /\ Done + i \in 0..WQ_Size
    BY <1>1 DEF RingOK, Slots
  <2>2. Slot(Done + i) \in Slots
    BY <2>1, SlotIs DEF RingOK
  <2>3. WQ_ReadPos + Done + i = WQ_ReadPos + (Done + i)
    BY <1>1 DEF RingOK, Slots
  <2>4. Queue[i] = WQ[Slot(Done + i)]
    BY <2>3 DEF Queue, Slot
  <2> QED BY <2>1, <2>2, <2>4 DEF RingOK
<1> QED BY <1>1, <1>2

LEMMA QueueIsNext ==
  ASSUME RingOK'
  PROVE  /\ Queued' \in Nat /\ Done' \in 0..1 /\ Done' + Queued' = WQ_InCount'
         /\ Queue' = [i \in 0 .. Queued' - 1 |-> Queue'[i]]
         /\ \A i \in 0 .. Queued' - 1 :
              Queue'[i] = WQ'[(WQ_ReadPos' + (Done' + i)) % WQ_Size]
<1>1. Queued' \in Nat /\ Done' \in 0..1 /\ Done' + Queued' = WQ_InCount'
  BY QueuedTyped DEF RingOK, Queued
<1>2. ASSUME NEW i \in 0 .. Queued' - 1
      PROVE  Queue'[i] = WQ'[(WQ_ReadPos' + (Done' + i)) % WQ_Size]
  <2>1. WQ_ReadPos' + Done' + i = WQ_ReadPos' + (Done' + i)
    BY <1>1 DEF RingOK, Slots
  <2> QED BY <2>1 DEF Queue
<1>3. Queue' = [i \in 0 .. Queued' - 1 |-> Queue'[i]]
  BY DEF Queue
<1> QED BY <1>1, <1>2, <1>3

(* The next state's queue is that of a function of the present one.         *)
SameEntries ==
  \A i \in 0 .. Queued - 1 :
    WQ'[(WQ_ReadPos' + (Done' + i)) % WQ_Size] = WQ[Slot(Done + i)]

LEMMA EntriesKept ==
  ASSUME RingOK, RingOK', Queued' = Queued, SameEntries
  PROVE  Queue' = Queue
<1>1. Queue = [i \in 0 .. Queued - 1 |-> Queue[i]]
  BY DEF Queue
<1>2. \A i \in 0 .. Queued - 1 : Queue'[i] = Queue[i]
  BY QueueIs, QueueIsNext DEF SameEntries
<1>3. Queue' = [i \in 0 .. Queued - 1 |-> Queue'[i]]
  BY QueueIsNext
<1> QED BY <1>1, <1>2, <1>3

LEMMA QueueKept ==
  ASSUME EmuOK, RingOK, RingOK',
         \/ Aside \/ Calling \/ WWQ_Room
         \/ Sleep \/ Spin \/ Awake \/ Uncount \/ Pop
  PROVE  Queued' = Queued /\ Queue' = Queue
<1>1. CASE ringVars' = ringVars /\ Done' = Done
  BY <1>1 DEF ringVars, Queue, Queued
<1>2. CASE Aside \/ Calling
  BY <1>1, <1>2, RingAside DEF Done
<1>3. CASE Sleep \/ Spin \/ Awake \/ Uncount
  <2>1. ringVars' = ringVars
    BY <1>3 DEF Sleep, Spin, Awake, Uncount, vars
  <2>2. Done' = Done
    BY <1>3 DEF Sleep, Spin, Awake, Uncount, vars, rendVars, Done
  <2> QED BY <1>1, <2>1, <2>2
<1>4. CASE WWQ_Room
  <2>1. /\ WQ' = [WQ EXCEPT ![WQ_WritePos] = hand]
        /\ WQ_ReadPos' = WQ_ReadPos /\ WQ_InCount' = WQ_InCount
        /\ Done' = Done
    BY <1>4 DEF WWQ_Room, rendVars, Done
  <2>2. WQ_WritePos = Slot(WQ_InCount) /\ WQ_InCount \in Slots
    BY <1>4 DEF WWQ_Room, RingOK, Written, Slots
  <2>3. ASSUME NEW i \in 0 .. Queued - 1
        PROVE  WQ'[(WQ_ReadPos' + (Done' + i)) % WQ_Size] = WQ[Slot(Done + i)]
    <3>1. PICK k \in Slots : k = Done + i /\ k # WQ_InCount /\ Slot(k) \in Slots
      BY QueueIs, <2>2 DEF Slots
    <3>2. Slot(k) # WQ_WritePos
      BY <2>2, <3>1, SlotsDiffer DEF RingOK
    <3>3. WQ'[Slot(k)] = WQ[Slot(k)]
      BY <2>1, <3>1, <3>2 DEF RingOK
    <3> QED BY <2>1, <3>1, <3>3 DEF Slot
  <2>4. Queued' = Queued
    BY <2>1 DEF Queued
  <2> QED BY <2>3, <2>4, EntriesKept DEF SameEntries
<1>5. CASE Pop
  <2>1. /\ WQ' = [WQ EXCEPT ![WQ_ReadPos] = NoCmd]
        /\ WQ_ReadPos' = (WQ_ReadPos + 1) % WQ_Size
        /\ WQ_InCount' = WQ_InCount - 1
        /\ Done = 1 /\ Done' = 0
    BY <1>5 DEF Pop, Done
  <2>2. Queued' = Queued
    BY <2>1 DEF Queued, RingOK
  <2>3. ASSUME NEW i \in 0 .. Queued - 1
        PROVE  WQ'[(WQ_ReadPos' + (Done' + i)) % WQ_Size] = WQ[Slot(Done + i)]
    <3>1. /\ i + 1 \in Slots /\ Slot(i + 1) \in Slots /\ Done + i = i + 1
          /\ i \in Slots /\ 0 \in Slots /\ i + 1 # 0 /\ Done' + i = i
      BY QueueIs, <2>1 DEF Slots
    <3>2. (WQ_ReadPos' + i) % WQ_Size = Slot(i + 1)
      BY <2>1, <3>1, SlotFollows DEF RingOK
    <3>3. Slot(i + 1) # WQ_ReadPos
      BY <3>1, SlotsDiffer DEF RingOK
    <3>4. WQ'[Slot(i + 1)] = WQ[Slot(i + 1)]
      BY <2>1, <3>1, <3>3 DEF RingOK
    <3> QED BY <3>1, <3>2, <3>4
  <2> QED BY <2>2, <2>3, EntriesKept DEF SameEntries
<1> QED BY <1>2, <1>3, <1>4, <1>5

LEMMA QueuePublished ==
  ASSUME EmuOK, RingOK, HandOK, RingOK', WWQ_Publish
  PROVE  /\ Queued' = Queued + 1
         /\ \A i \in 0 .. Queued - 1 : Queue'[i] = Queue[i]
         /\ Queue'[Queued] = hand
<1>1. /\ WQ_InCount' = WQ_InCount + 1 /\ WQ' = WQ
      /\ WQ_ReadPos' = WQ_ReadPos /\ Done' = Done
  BY DEF WWQ_Publish, rendVars, Done
<1>2. Queued' = Queued + 1 /\ Done + Queued = WQ_InCount /\ Queued \in Nat
  BY <1>1, QueueIs DEF Queued, RingOK
<1>3. \A i \in 0 .. Queued : Queue'[i] = WQ[Slot(Done + i)]
  <2>1. \A i \in 0 .. Queued' - 1 : Queue'[i] = WQ'[(WQ_ReadPos' + (Done' + i)) % WQ_Size]
    BY QueueIsNext
  <2> QED BY <1>1, <1>2, <2>1 DEF Slot
<1>4. \A i \in 0 .. Queued - 1 : Queue'[i] = Queue[i]
  BY <1>2, <1>3, QueueIs
<1>5. Queue'[Queued] = WQ[Slot(WQ_InCount)]
  BY <1>2, <1>3
<1> QED BY <1>2, <1>4, <1>5 DEF HandOK, WWQ_Publish

LEMMA QueueTaken ==
  ASSUME RingOK, RingOK', Execute
  PROVE  /\ Queued' \in Nat /\ Queued' = Queued - 1
         /\ \A i \in 0 .. Queued' - 1 : Queue'[i] = Queue[i + 1]
         /\ Queue[0] = Entry
<1>1. /\ WQ_InCount' = WQ_InCount /\ WQ' = WQ /\ WQ_InCount # 0
      /\ WQ_ReadPos' = WQ_ReadPos /\ Done = 0 /\ Done' = 1
  BY DEF Execute, ringVars, Done
<1>2. /\ Queued' \in Nat /\ Queued' = Queued - 1 /\ Queued = WQ_InCount
      /\ Queued \in Nat
  BY <1>1, QueueIsNext DEF Queued, RingOK
<1>3. ASSUME NEW i \in 0 .. Queued' - 1 PROVE Queue'[i] = Queue[i + 1]
  <2>1. Queue'[i] = WQ'[(WQ_ReadPos' + (Done' + i)) % WQ_Size]
    BY QueueIsNext
  <2>2. /\ i + 1 \in 0 .. Queued - 1
        /\ Done' + i = i + 1
        /\ Done + (i + 1) = i + 1
    <3>1. i + 1 \in 0 .. Queued - 1
      BY <1>2
    <3>2. Done' + i = i + 1
      BY <1>1
    <3>3. Done + (i + 1) = i + 1
      BY <1>1
    <3> QED BY <3>1, <3>2, <3>3
  <2>3. Queue[i + 1] = WQ[Slot(Done + (i + 1))]
    BY <2>2, QueueIs
  <2> QED BY <1>1, <2>1, <2>2, <2>3 DEF Slot
<1>4. Queue[0] = Entry
  <2>1. 0 \in 0 .. Queued - 1
    BY <1>2
  <2>3. Done + 0 = 0
    BY <1>1
  <2>2. Queue[0] = WQ[Slot(0)]
    BY <2>1, <2>3, QueueIs
  <2> QED BY <2>2, SlotsDiffer DEF Entry, RingOK
<1> QED BY <1>2, <1>3, <1>4
-----------------------------------------------------------------------------
(* What the steps do to the state that the queue leads to.                  *)
LEMMA EventualTyped ==
  ASSUME EmuOK, RingOK, RendOK
  PROVE  Eventual \in Rend
<1>1. Queued \in Nat /\ \A i \in 0 .. Queued - 1 : Queue[i] \in Commands
  BY QueueIs
<1>2. Steps(After, rend, Queue, LIB, Queued)
  BY AfterIsRun
<1>3. rend \in Rend /\ LIB \in [Active -> Bit]
  BY DEF RendOK, EmuOK
<1>4. \A i \in 0..Queued : After[i] \in Rend
  BY <1>1, <1>2, <1>3, RunTyped, SMTT(30)
<1> QED BY <1>1, <1>4 DEF Eventual

LEMMA EventualKept ==
  ASSUME EmuOK, RingOK, RingOK', rend' = rend, LIB' = LIB,
         \/ Aside \/ Calling \/ WWQ_Room
         \/ Sleep \/ Spin \/ Awake \/ Uncount \/ Pop
  PROVE  Eventual' = Eventual
<1>1. Queued' = Queued /\ Queue' = Queue
  BY QueueKept
<1> QED BY <1>1, AfterSame

LEMMA EventualPublished ==
  ASSUME EmuOK, RingOK, HandOK, RingOK', WWQ_Publish
  PROVE  Eventual' = Executed(Eventual, hand, LIB)
<1>1. /\ Queued' = Queued + 1
      /\ \A i \in 0 .. Queued - 1 : Queue'[i] = Queue[i]
      /\ Queue'[Queued] = hand
  BY QueuePublished
<1>2. rend' = rend /\ LIB' = LIB /\ Queued \in Nat
  BY QueueIs DEF WWQ_Publish, rendVars
<1>3. Steps(After, rend, Queue, LIB, Queued)
  BY AfterIsRun
<1>4. Steps(After', rend, Queue', LIB, Queued + 1)
  BY <1>1, <1>2, AfterIsRun
<1>5. After'[Queued + 1] = Executed(After[Queued], Queue'[Queued], LIB)
  BY <1>1, <1>2, <1>3, <1>4, RunExtended
<1> QED BY <1>1, <1>5 DEF Eventual

(* While the surface is returned, no line is in the queue.                  *)
LEMMA NoDraws ==
  ASSUME RingOK, CountOK, Returned
  PROVE  /\ \A i \in 0 .. Queued - 1 : Queue[i].cmd # "draw"
         /\ ~(rt = "test" /\ WQ_InCount # 0 /\ Entry.cmd = "draw")
<1>1. ToDraw = {}
  BY ToDrawFinite, FS_EmptySet DEF CountOK, Coming
<1>2. ASSUME NEW i \in 0 .. Queued - 1, Queue[i].cmd = "draw" PROVE FALSE
  <2>1. PICK k \in Slots : /\ k = Done + i /\ Slot(k) \in Slots
                           /\ WQ[Slot(k)].cmd = "draw"
    BY <1>2, QueueIs
  <2>2. rt = "pop" /\ Slot(k) = WQ_ReadPos
    BY <1>1, <2>1 DEF ToDraw
  <2>3. k # 0 /\ 0 \in Slots
    BY <2>1, <2>2 DEF Done, Slots
  <2> QED BY <2>1, <2>2, <2>3, SlotsDiffer DEF RingOK
<1>3. ASSUME rt = "test", Entry.cmd = "draw" PROVE FALSE
  BY <1>1, <1>3 DEF ToDraw, Entry, RingOK
<1> QED BY <1>2, <1>3

LEMMA EventualTaken ==
  ASSUME EmuOK, RingOK, CountOK, RingOK', Execute
  PROVE  Eventual' = Eventual
<1>1. /\ Queued' \in Nat /\ Queued' = Queued - 1 /\ Queued \in Nat
      /\ \A i \in 0 .. Queued' - 1 : Queue'[i] = Queue[i + 1]
      /\ Queue[0] = Entry
  BY QueueTaken, QueueIs
<1>2. LIB' = LIB
  BY DEF Execute, emuVars
<1>3. rend' = Executed(rend, Queue[0], LIB)
  <2>1. ~(Entry.cmd = "draw" /\ ~espec)
    BY NoDraws DEF Returned, Execute
  <2> QED BY <1>1, <2>1 DEF Execute
<1>4. PICK n \in Nat : n = Queued' /\ Queued = n + 1
  BY <1>1
<1>5. Steps(After, rend, Queue, LIB, n + 1)
  BY <1>4, AfterIsRun
<1>6. Steps(After', Executed(rend, Queue[0], LIB), Queue', LIB, n)
  BY <1>2, <1>3, <1>4, AfterIsRun
<1>7. After'[n] = After[n + 1]
  BY <1>1, <1>4, <1>5, <1>6, RunBegun
<1> QED BY <1>4, <1>7 DEF Eventual

LEMMA EventualRepainted ==
  ASSUME EmuOK, RingOK, CountOK, RendOK, RingOK', Returned, Aside,
         NEW s, rend' = OnSurface(rend, s), LIB' = LIB
  PROVE  /\ Eventual' = OnSurface(Eventual, s)
         /\ Eventual.surface = rend.surface
<1>1. Queued' = Queued /\ Queue' = Queue
  BY QueueKept
<1>2. /\ Queued \in Nat
      /\ \A i \in 0 .. Queued - 1 : Queue[i] \in Commands /\ Queue[i].cmd # "draw"
  BY QueueIs, NoDraws
<1>3. Steps(After, rend, Queue, LIB, Queued)
  BY AfterIsRun
<1>4. Steps(After', OnSurface(rend, s), Queue, LIB, Queued)
  BY <1>1, AfterIsRun
<1>5. rend \in Rend /\ LIB \in [Active -> Bit]
  BY DEF RendOK, EmuOK
<1>6. \A i \in 0..Queued : /\ After[i].surface = rend.surface
                           /\ After'[i] = OnSurface(After[i], s)
  BY <1>2, <1>3, <1>4, <1>5, RunApart, SMTT(30)
<1> QED BY <1>1, <1>2, <1>6 DEF Eventual

LEMMA EventualLater ==
  ASSUME EmuOK, RingOK, RendOK, RingOK', Aside,
         NEW l \in Active, NEW x \in Bit,
         rend' = rend, LIB' = WithInput(LIB, l, x)
  PROVE  Later(Eventual, Eventual', l, x) /\ Eventual' \in Rend
<1>1. Queued' = Queued /\ Queue' = Queue
  BY QueueKept
<1>2. /\ Queued \in Nat
      /\ \A i \in 0 .. Queued - 1 : Queue[i] \in Commands
  BY QueueIs
<1>3. Steps(After, rend, Queue, LIB, Queued)
  BY AfterIsRun
<1>4. Steps(After', rend, Queue, WithInput(LIB, l, x), Queued)
  BY <1>1, AfterIsRun
<1>5. rend \in Rend /\ LIB \in [Active -> Bit]
  BY DEF RendOK, EmuOK
<1>6. Later(After[Queued], After'[Queued], l, x) /\ After'[Queued] \in Rend
  BY <1>2, <1>3, <1>4, <1>5, RunLater, SMTT(30)
<1> QED BY <1>1, <1>6 DEF Eventual
-----------------------------------------------------------------------------
(* The registers that the queue leads to, and the write that is about to be *)
(* put there, are those that the emulation has.                             *)
MeantOK ==
  raw = IF emu \in {"room", "publish"} /\ hand.cmd \in {"write", "reset"}
        THEN hand.val ELSE Eventual.reg

LEMMA ExecutedReg ==
  ASSUME NEW r \in Rend, NEW e \in Commands, NEW lib,
         e.cmd = "reset" => e.val = 0
  PROVE  Executed(r, e, lib).reg
           = IF e.cmd \in {"write", "reset"} THEN e.val ELSE r.reg
<1>1. r = [reg |-> r.reg, acc |-> r.acc, surface |-> r.surface]
  BY DEF Rend
<1>2. CASE e.cmd = "draw"
  BY <1>1, <1>2 DEF Executed, DrawnLine
<1>3. CASE e.cmd \in {"write", "reset"}
  BY <1>1, <1>3 DEF Executed
<1>4. CASE e.cmd \notin {"draw", "write", "reset"}
  BY <1>4 DEF Executed
<1> QED BY <1>2, <1>3, <1>4

(* The emulation thread's steps on the renderer's state.                    *)
LEMMA AsideDoes ==
  ASSUME IInv, RingOK', Aside
  PROVE  /\ StartFrame => Eventual' = OnSurface(Eventual, AllLines(Stale))
         /\ Fill => Eventual' = OnSurface(Eventual,
              [l \in Lines |-> IF l < NextOutLine THEN Eventual.surface[l]
                               ELSE Black])
         /\ LineInput => \E x \in Inputs :
              /\ x \in Bit /\ LIB' = WithInput(LIB, vline, x)
              /\ Later(Eventual, Eventual', vline, x)
              /\ Eventual' \in Rend
         /\ Load => Eventual' = [reg |-> saved.reg, acc |-> saved.acc,
                                 surface |-> Eventual.surface]
         /\ Save => Eventual' = Eventual /\ Eventual = rend
         /\ Post \/ EndFrame \/ StateAction \/ Joined \/ Terminated
              => Eventual' = Eventual
<1> USE DEF IInv
<1>1. ASSUME StartFrame
      PROVE  Eventual' = OnSurface(Eventual, AllLines(Stale))
  <2>1. /\ rend' = OnSurface(rend, AllLines(Stale)) /\ LIB' = LIB /\ Returned
    BY <1>1 DEF StartFrame, OnSurface, Returned
  <2> QED BY <2>1, EventualRepainted
<1>2. ASSUME Fill
      PROVE  Eventual' = OnSurface(Eventual,
               [l \in Lines |-> IF l < NextOutLine THEN Eventual.surface[l]
                                ELSE Black])
  <2> DEFINE s == [l \in Lines |-> IF l < NextOutLine THEN rend.surface[l]
                                   ELSE Black]
  <2>1. /\ rend' = OnSurface(rend, s) /\ LIB' = LIB /\ Returned
    BY <1>2 DEF Fill, OnSurface, Returned, InCall
  <2>2. Eventual' = OnSurface(Eventual, s) /\ Eventual.surface = rend.surface
    <3> HIDE DEF s
    <3> QED BY <2>1, EventualRepainted
  <2> QED BY <2>2
<1>3. ASSUME LineInput
      PROVE  \E x \in Inputs : /\ x \in Bit /\ LIB' = WithInput(LIB, vline, x)
                               /\ Later(Eventual, Eventual', vline, x)
                               /\ Eventual' \in Rend
  <2>1. PICK x \in Inputs : LIB' = WithInput(LIB, vline, x)
    BY <1>3 DEF LineInput, WithInput
  <2>2. x \in Bit /\ vline \in Active /\ rend' = rend
    BY <1>3 DEF LineInput, EmuOK, Active, Bit, rendVars
  <2>3. Later(Eventual, Eventual', vline, x) /\ Eventual' \in Rend
    BY <2>1, <2>2, EventualLater
  <2> QED BY <2>1, <2>2, <2>3
<1>4. ASSUME Save \/ Load
      PROVE  /\ Queued = 0 /\ Queued' = 0
             /\ Eventual = rend /\ Eventual' = rend'
  <2>1. Queued = 0 /\ Queued' = 0
    <3>1. WQ_InCount = 0 /\ Done = 0
      BY <1>4 DEF Save, Load, Done, RingOK
    <3>2. Queued = 0
      BY <3>1 DEF Queued
    <3> QED BY <3>2, QueueKept
  <2> QED BY <2>1, AfterEmpty
<1>5. Load => Eventual' = [reg |-> saved.reg, acc |-> saved.acc,
                           surface |-> Eventual.surface]
  BY <1>4 DEF Load
<1>6. Save => rend' = rend
  BY DEF Save, rendVars
<1>7. ASSUME Post \/ EndFrame \/ StateAction \/ Joined \/ Terminated
      PROVE  Eventual' = Eventual
  <2>1. rend' = rend /\ LIB' = LIB
    BY <1>7 DEF Post, EndFrame, StateAction, Joined, Terminated, vars, rendVars
  <2> QED BY <2>1, EventualKept
<1> QED BY <1>1, <1>2, <1>3, <1>4, <1>5, <1>6, <1>7

LEMMA OthersKeep ==
  ASSUME IInv, RingOK',
         Calling \/ WWQ_Room \/ Sleep \/ Spin \/ Awake \/ Execute \/ Uncount \/ Pop
  PROVE  Eventual' = Eventual
<1> USE DEF IInv
<1>1. CASE Execute
  BY <1>1, EventualTaken
<1>2. CASE Calling \/ WWQ_Room \/ Sleep \/ Spin \/ Awake \/ Uncount \/ Pop
  <2>1. rend' = rend /\ LIB' = LIB
    BY <1>2 DEF Calling, Write, Reset, ActiveLine, BorderLine, Drawn, Drained,
      Kill,
       WWQ_Room, Sleep, Spin, Awake, Uncount, Pop, rendVars, emuVars, vars
  <2> QED BY <1>2, <2>1, EventualKept
<1> QED BY <1>1, <1>2

LEMMA MeantKept == IInv /\ IInv' /\ HandOK /\ MeantOK /\ Next => MeantOK'
<1> SUFFICES ASSUME IInv, IInv', HandOK, MeantOK, Next PROVE MeantOK'
  OBVIOUS
<1>0. /\ RingOK' /\ EmuOK /\ Eventual \in Rend
  BY EventualTyped DEF IInv
<1>1. CASE Aside
  <2>1. /\ emu \notin {"room", "publish"} /\ emu' \notin {"room", "publish"}
    BY <1>1 DEF Aside, StartFrame, LineInput, Post, EndFrame, Fill,
       StateAction, Save, Load, Joined, Terminated, vars
  <2>2. \A s : OnSurface(Eventual, s).reg = Eventual.reg
    BY <1>0 DEF OnSurface, Rend
  <2>3. CASE Load
    BY <1>0, <1>1, <2>1, <2>3, AsideDoes DEF MeantOK, Load
  <2>4. CASE ~Load
    <3>1. Eventual'.reg = Eventual.reg
      BY <1>0, <1>1, <2>2, <2>4, AsideDoes DEF Aside, Later
    <3>2. raw' = raw
      BY <1>1, <2>4 DEF Aside, StartFrame, LineInput, Post, EndFrame, Fill,
         StateAction, Save, Joined, Terminated, vars, stateVars
    <3> QED BY <2>1, <3>1, <3>2 DEF MeantOK
  <2> QED BY <2>3, <2>4
<1>2. CASE Calling
  <2>1. Eventual' = Eventual
    BY <1>0, <1>2, OthersKeep
  <2>2. CASE Write \/ Reset
    BY <2>2, <2>1 DEF Write, Reset, Call, WriteCmd, ResetCmd, MeantOK
  <2>3. CASE Drained \/ Kill
    BY <2>3, <2>1 DEF Drained, Kill, Call, BusyCmd, ExitCmd, MeantOK, stateVars
  <2>4. CASE ActiveLine
    BY <2>4, <2>1, CountIs DEF ActiveLine, LineCmd, MeantOK, stateVars
  <2>5. CASE BorderLine
    BY <2>5, <2>1, CountIs DEF BorderLine, LineCmd, MeantOK, stateVars
  <2>6. CASE Drawn
    <3>1. /\ emu = "drawn" /\ raw' = raw
          /\ \/ emu' = "room" /\ hand' = BusyCmd(1)
             \/ emu' \in {"post", "run"}
      BY <2>6, Zenon DEF Drawn, Call, stateVars
    <3> QED BY <2>1, <3>1 DEF BusyCmd, MeantOK
  <2> QED BY <1>2, <2>2, <2>3, <2>4, <2>5, <2>6 DEF Calling
<1>3. CASE WWQ_Publish
  <2>1. Eventual' = Executed(Eventual, hand, LIB)
    BY <1>0, <1>3, EventualPublished DEF IInv
  <2>2. /\ emu = "publish" /\ emu' \notin {"room", "publish"} /\ raw' = raw
        /\ hand \in Commands
    BY <1>0, <1>3 DEF WWQ_Publish, stateVars, EmuOK
  <2>3. hand.cmd = "reset" => hand.val = 0
    BY <2>2 DEF HandOK
  <2>4. Eventual'.reg = IF hand.cmd \in {"write", "reset"} THEN hand.val
                        ELSE Eventual.reg
    BY <1>0, <2>1, <2>2, <2>3, ExecutedReg
  <2> QED BY <2>2, <2>4 DEF MeantOK
<1>4. CASE WWQ_Room \/ Sleep \/ Spin \/ Awake \/ Execute \/ Uncount \/ Pop
  <2>1. Eventual' = Eventual
    BY <1>0, <1>4, OthersKeep
  <2>2. /\ emu \in {"room", "publish"} <=> emu' \in {"room", "publish"}
        /\ raw' = raw /\ hand' = hand
    BY <1>4 DEF WWQ_Room, Sleep, Spin, Awake, Execute, Uncount, Pop, vars,
       emuVars, callVars, stateVars
  <2> QED BY <2>1, <2>2 DEF MeantOK
<1> QED BY <1>1, <1>2, <1>3, <1>4, NextIs
-----------------------------------------------------------------------------
Following == IF LineIssued THEN crt + 1 ELSE NextOutLine

LEMMA SyncIs ==
  /\ \A r, e, lib : Sync!Executed(r, e, lib) = Executed(r, e, lib)
  /\ \A v : Sync!WriteCmd(v) = WriteCmd(v)
  /\ \A l, o : Sync!LineCmd(l, o) = LineCmd(l, o)
  /\ \A p : Sync!AllLines(p) = AllLines(p)
  /\ Sync!ResetCmd = ResetCmd /\ Sync!Black = Black /\ Sync!Stale = Stale
  /\ Sync!Lines = Lines /\ Sync!Active = Active /\ Sync!Border = Border
  BY DEF Sync!Executed, Sync!DrawnLine, Sync!Pixels, Sync!Border, Sync!WriteCmd,
    Sync!LineCmd, Sync!AllLines, Sync!ResetCmd, Sync!Black, Sync!Stale,
    Sync!Lines, Sync!Active, Executed, DrawnLine, Pixels, Border, WriteCmd,
    LineCmd, AllLines, ResetCmd, Black, Stale, Lines, Active

LEMMA SyncVars ==
  UNCHANGED <<Eventual, LIB, espec, Following, saved>> => UNCHANGED Sync!vars
  BY DEF Sync!vars, Following

LEMMA InitEmpty == Init => Eventual = rend
<1>1. ASSUME Init PROVE Eventual = rend
  <2>1. RingOK /\ WQ_InCount = 0 /\ Done = 0
    BY <1>1, InitIInv DEF Init, Done, IInv
  <2>2. Queued = 0
    BY <2>1 DEF Queued
  <2> QED BY <2>1, <2>2, AfterEmpty
<1> QED BY <1>1

LEMMA InitSync == Init => Sync!Init
<1> SUFFICES ASSUME Init PROVE Sync!Init
  OBVIOUS
<1>1. Eventual = rend
  BY InitEmpty
<1>2. ~LineIssued
  BY DEF Init, LineIssued
<1> QED BY <1>1, <1>2, SyncIs DEF Init, Sync!Init

LEMMA PublishSync ==
  ASSUME IInv, IInv', HandOK, NextOK, WWQ_Publish
  PROVE  [Sync!Next]_(Sync!vars)
<1>1. /\ emu = "publish" /\ emu' = ret /\ crt' = crt /\ NextOutLine' = NextOutLine
      /\ LIB' = LIB /\ espec' = espec /\ saved' = saved
      /\ ret \in {"run", "drawn", "post", "fill", "join"} /\ hand \in Commands
  BY DEF WWQ_Publish, lineVars, stateVars, IInv, EmuOK
<1>2. Eventual' = Executed(Eventual, hand, LIB)
  BY EventualPublished DEF IInv
<1>3. hand.cmd # "draw" => Following' = Following
  BY <1>1 DEF Following, LineIssued, HandOK
<1>4. CASE hand.cmd = "write"
  <2>1. hand.val \in Values
    BY <1>1, <1>4 DEF HandOK
  <2>2. Executed(Eventual, hand, LIB) = Executed(Eventual, WriteCmd(hand.val), LIB)
    BY <1>4 DEF Executed, WriteCmd
  <2>3. Sync!Write
    BY <1>1, <1>2, <1>3, <1>4, <2>1, <2>2, SyncIs DEF Sync!Write, Following
  <2> QED BY <2>3 DEF Sync!Next
<1>5. CASE hand.cmd = "reset"
  <2>1. Executed(Eventual, hand, LIB) = Executed(Eventual, ResetCmd, LIB)
    BY <1>5 DEF Executed, ResetCmd
  <2>2. Sync!Reset
    BY <1>1, <1>2, <1>3, <1>5, <2>1, SyncIs DEF Sync!Reset, Following
  <2> QED BY <2>2 DEF Sync!Next
<1>6. CASE hand.cmd = "draw"
  <2>1. /\ ret = "drawn" /\ hand.out = crt /\ espec /\ crt < VisibleLines
        /\ NextOutLine = crt /\ hand.line \in Active \cup {Border}
    BY <1>1, <1>6 DEF HandOK, InCall, NextOK, IInv, EmuOK, Commands
  <2>2. Following = crt /\ Following' = crt + 1
    BY <1>1, <2>1 DEF Following, LineIssued
  <2>3. Executed(Eventual, hand, LIB)
          = Executed(Eventual, LineCmd(hand.line, Following), LIB)
    BY <1>6, <2>1, <2>2 DEF Executed, LineCmd, DrawnLine
  <2>4. Sync!DrawLine
    BY <1>1, <1>2, <2>1, <2>2, <2>3, SyncIs DEF Sync!DrawLine, Following
  <2> QED BY <2>4 DEF Sync!Next
<1>7. CASE hand.cmd \notin {"write", "reset", "draw"}
  <2>1. Executed(Eventual, hand, LIB) = Eventual
    BY <1>7 DEF Executed
  <2> QED BY <1>1, <1>2, <1>3, <1>7, <2>1, SyncVars
<1> QED BY <1>4, <1>5, <1>6, <1>7

LEMMA CallingSync ==
  ASSUME IInv, IInv', HandOK, Calling
  PROVE  UNCHANGED Sync!vars
<1>1. Eventual' = Eventual
  BY OthersKeep DEF IInv
<1>2. LIB' = LIB /\ espec' = espec /\ saved' = saved
  BY DEF Calling, Write, Reset, ActiveLine, BorderLine, Drawn, Drained, Kill,
     stateVars
<1>3. Following' = Following
  <2>1. CASE Drawn
    <3>1. /\ emu = "drawn"
          /\ \/ emu' = "room" /\ ret' = "post" /\ crt' = crt
             \/ emu' = "post" /\ crt' = crt
             \/ emu' = "run" /\ NextOutLine' = crt + 1
      BY <2>1, Zenon DEF Drawn, Call
    <3> QED BY <3>1 DEF Following, LineIssued
  <2>2. CASE Write \/ Reset \/ Drained \/ Kill
    BY <2>2 DEF Write, Reset, Drained, Kill, Call, lineVars, Following,
      LineIssued
  <2>3. CASE ActiveLine
    BY <2>3, CountIs DEF ActiveLine, Following, LineIssued
  <2>4. CASE BorderLine
    BY <2>4, CountIs DEF BorderLine, Following, LineIssued
  <2> QED BY <2>1, <2>2, <2>3, <2>4 DEF Calling
<1> QED BY <1>1, <1>2, <1>3, SyncVars

LEMMA Loaded ==
  ASSUME NEW r \in Rend, NEW reg \in Bit, NEW acc \in Bit
  PROVE  [r EXCEPT !.reg = reg, !.acc = acc]
           = [reg |-> reg, acc |-> acc, surface |-> r.surface]
<1> DEFINE t == [r EXCEPT !.reg = reg]
<1>1. /\ t \in Rend /\ t.reg = reg /\ t.surface = r.surface
  BY DEF Rend
<1>3. [r EXCEPT !.reg = reg, !.acc = acc] = [t EXCEPT !.acc = acc]
  BY Zenon
<1> HIDE DEF t
<1>2. [t EXCEPT !.acc = acc] = [reg |-> t.reg, acc |-> acc, surface |-> t.surface]
  BY <1>1 DEF Rend
<1> QED BY <1>1, <1>2, <1>3

LEMMA AsideSync ==
  ASSUME IInv, IInv', HandOK, MeantOK, Aside
  PROVE  [Sync!Next]_(Sync!vars)
<1>0. RingOK' /\ EmuOK /\ Eventual \in Rend
  BY EventualTyped DEF IInv
<1>1. CASE StartFrame
  <2>1. ~LineIssued /\ ~LineIssued' /\ NextOutLine' = 0
    BY <1>1 DEF StartFrame, LineIssued
  <2>2. Eventual' = [Eventual EXCEPT !.surface = AllLines(Stale)]
    BY <1>0, <1>1, AsideDoes DEF OnSurface
  <2>3. ~espec /\ espec' = TRUE /\ LIB' = LIB /\ saved' = saved
    BY <1>1 DEF StartFrame, stateVars
  <2>4. Sync!StartFrame
    BY <2>1, <2>2, <2>3, SyncIs DEF Sync!StartFrame
  <2> QED BY <2>4 DEF Sync!Next
<1>2. CASE Fill
  <2>1. /\ ~LineIssued /\ ~LineIssued' /\ NextOutLine' = VisibleLines
    BY <1>0, <1>2 DEF Fill, LineIssued, EmuOK
  <2>2. Eventual' = [Eventual EXCEPT !.surface =
          [l \in Lines |-> IF l < NextOutLine THEN Eventual.surface[l] ELSE Black]]
    BY <1>0, <1>2, AsideDoes DEF OnSurface
  <2>3. espec /\ espec' = FALSE /\ LIB' = LIB /\ saved' = saved
    BY <1>2 DEF Fill, stateVars, HandOK, InCall
  <2>4. Sync!EndFrame
    BY <2>1, <2>2, <2>3, SyncIs DEF Sync!EndFrame
  <2> QED BY <2>4 DEF Sync!Next
<1>3. CASE LineInput
  <2>1. /\ ~LineIssued /\ ~LineIssued' /\ NextOutLine' = NextOutLine
        /\ espec' = espec /\ saved' = saved /\ vline \in Active
    BY <1>0, <1>3 DEF LineInput, LineIssued, lineVars, stateVars, EmuOK, Active
  <2>2. espec
    BY <1>3 DEF LineInput
  <2>3. PICK x \in Inputs : /\ x \in Bit /\ LIB' = WithInput(LIB, vline, x)
                            /\ Later(Eventual, Eventual', vline, x)
                            /\ Eventual' \in Rend
    BY <1>0, <1>3, AsideDoes
  <2>4. Eventual' \in Rend
    BY <2>3
  <2> DEFINE late == {o \in Lines : Eventual'.surface[o] # Eventual.surface[o]}
             s == [o \in Lines |-> IF o \in late
                                   THEN [Eventual.surface[o] EXCEPT !.input = x]
                                   ELSE Eventual.surface[o]]
  <2>5. late \in SUBSET {o \in Lines : Eventual.surface[o].line = vline}
    BY <2>3 DEF Later
  <2>6. Eventual'.surface = s
    <3>1. \A o \in Lines : Eventual'.surface[o] = s[o]
      BY <2>3 DEF Later
    <3>2. Eventual'.surface = [o \in Lines |-> Eventual'.surface[o]]
      BY <2>4 DEF Rend
    <3> QED BY <3>1, <3>2
  <2>7. Eventual' = [Eventual EXCEPT !.surface = s]
    <3> HIDE DEF s
    <3>1. Eventual'.reg = Eventual.reg /\ Eventual'.acc = Eventual.acc
      BY <2>3 DEF Later
    <3> QED BY <1>0, <2>4, <2>6, <3>1 DEF Rend
  <2>8. LIB' = [LIB EXCEPT ![vline] = x]
    BY <2>3 DEF WithInput
  <2> HIDE DEF late
  <2>9. \E l \in Sync!Active, y \in Inputs :
          /\ LIB' = [LIB EXCEPT ![l] = y]
          /\ \E d \in SUBSET {o \in Sync!Lines : Eventual.surface[o].line = l} :
               Eventual' = [Eventual EXCEPT !.surface =
                 [o \in Sync!Lines |-> IF o \in d
                                       THEN [Eventual.surface[o] EXCEPT !.input = y]
                                       ELSE Eventual.surface[o]]]
    <3>1. Sync!Lines = Lines /\ vline \in Sync!Active
      BY <2>1, SyncIs
    <3>2. \E d \in SUBSET {o \in Sync!Lines : Eventual.surface[o].line = vline} :
               Eventual' = [Eventual EXCEPT !.surface =
                 [o \in Sync!Lines |-> IF o \in d
                                       THEN [Eventual.surface[o] EXCEPT !.input = x]
                                       ELSE Eventual.surface[o]]]
      <4>1. \E d \in SUBSET {o \in Lines : Eventual.surface[o].line = vline} :
               Eventual' = [Eventual EXCEPT !.surface =
                 [o \in Lines |-> IF o \in d
                                  THEN [Eventual.surface[o] EXCEPT !.input = x]
                                  ELSE Eventual.surface[o]]]
        BY <2>5, <2>7, Zenon
      <4> QED BY <3>1, <4>1
    <3> QED BY <2>8, <3>1, <3>2, Zenon
  <2>10. Sync!LineInput
    BY <2>1, <2>2, <2>9, Zenon DEF Sync!LineInput
  <2> QED BY <2>10 DEF Sync!Next
<1>4. CASE Save
  <2>1. /\ ~LineIssued /\ ~LineIssued' /\ NextOutLine' = NextOutLine
        /\ espec' = espec /\ LIB' = LIB /\ emu = "save"
        /\ saved' = [reg |-> raw, acc |-> rend.acc]
    BY <1>4 DEF Save, LineIssued, lineVars
  <2>2. Eventual' = Eventual /\ Eventual = rend
    BY <1>0, <1>4, AsideDoes
  <2>3. raw = Eventual.reg /\ ~espec
    BY <2>1 DEF MeantOK, HandOK
  <2>4. Sync!Save
    BY <2>1, <2>2, <2>3 DEF Sync!Save
  <2> QED BY <2>4 DEF Sync!Next
<1>5. CASE Load
  <2>1. /\ ~LineIssued /\ ~LineIssued' /\ NextOutLine' = NextOutLine
        /\ espec' = espec /\ LIB' = LIB /\ emu = "load" /\ saved' = saved
    BY <1>5 DEF Load, LineIssued, lineVars
  <2>2. Eventual' = [Eventual EXCEPT !.reg = saved.reg, !.acc = saved.acc]
    BY <1>0, <1>5, AsideDoes, Loaded DEF IInv, RendOK
  <2>3. ~espec
    BY <2>1 DEF HandOK
  <2>4. Sync!Load
    BY <2>1, <2>2, <2>3 DEF Sync!Load
  <2> QED BY <2>4 DEF Sync!Next
<1>6. CASE Post \/ EndFrame \/ StateAction \/ Joined \/ Terminated
  <2>1. Eventual' = Eventual
    BY <1>0, <1>6, AsideDoes
  <2>2. LIB' = LIB /\ espec' = espec /\ saved' = saved
    BY <1>6 DEF Post, EndFrame, StateAction, Joined, Terminated, vars, stateVars
  <2>3. Following' = Following
    BY <1>6 DEF Post, EndFrame, StateAction, Joined, Terminated, vars, callVars,
       lineVars, Following, LineIssued
  <2> QED BY <2>1, <2>2, <2>3, SyncVars
<1> QED BY <1>1, <1>2, <1>3, <1>4, <1>5, <1>6 DEF Aside

LEMMA OtherSync ==
  ASSUME IInv, IInv', WWQ_Room \/ Sleep \/ Spin \/ Awake \/ Execute \/ Uncount \/ Pop
  PROVE  UNCHANGED Sync!vars
<1>1. Eventual' = Eventual
  BY OthersKeep DEF IInv
<1>2. LIB' = LIB /\ espec' = espec /\ saved' = saved
  BY DEF WWQ_Room, Sleep, Spin, Awake, Execute, Uncount, Pop, vars, emuVars,
     stateVars
<1>3. Following' = Following
  BY DEF WWQ_Room, Sleep, Spin, Awake, Execute, Uncount, Pop, vars, emuVars,
     callVars, lineVars, Following, LineIssued
<1> QED BY <1>1, <1>2, <1>3, SyncVars

SInv == IInv /\ HandOK /\ NextOK /\ MeantOK

(* Whatever the interleaving of the two threads, the picture is the one     *)
(* that a renderer without a thread draws: every step of the two is a step  *)
(* of that renderer or leaves its picture, registers and counters alone.    *)
THEOREM DrawsInOrder == Spec => ImplementsSync
<1>1. Init => SInv
  <2> SUFFICES ASSUME Init PROVE SInv
    OBVIOUS
  <2>1. IInv
    BY InitIInv
  <2>2. HandOK /\ NextOK
    BY DEF Init, HandOK, NextOK, InCall
  <2>3. Eventual = rend
    BY InitEmpty
  <2>4. MeantOK
    BY <2>3 DEF Init, MeantOK
  <2> QED BY <2>1, <2>2, <2>4 DEF SInv
<1>2. SInv /\ IInv' /\ [Next]_vars => SInv'
  <2> SUFFICES ASSUME SInv, IInv', [Next]_vars PROVE SInv'
    OBVIOUS
  <2>1. CASE Next
    BY <2>1, HandKept, NextKept, MeantKept DEF SInv, IInv
  <2>2. CASE UNCHANGED vars
    <3>1. Eventual' = Eventual
      BY <2>2 DEF vars, ringVars, rendVars, Eventual, After, Queue, Queued, Done
    <3>2. HandOK' /\ NextOK'
      BY <2>2 DEF SInv, vars, callVars, lineVars, ringVars, HandOK, NextOK,
        InCall, Slot
    <3>3. MeantOK'
      BY <2>2, <3>1 DEF SInv, vars, callVars, stateVars, MeantOK
    <3> QED BY <3>2, <3>3 DEF SInv
  <2> QED BY <2>1, <2>2
<1>3. SInv /\ IInv' /\ [Next]_vars => [Sync!Next]_(Sync!vars)
  <2> SUFFICES ASSUME SInv, IInv', [Next]_vars PROVE [Sync!Next]_(Sync!vars)
    OBVIOUS
  <2>1. CASE UNCHANGED vars
    <3>1. Eventual' = Eventual
      BY <2>1 DEF vars, ringVars, rendVars, Eventual, After, Queue, Queued, Done
    <3>2. UNCHANGED <<LIB, espec, Following, saved>>
      BY <2>1 DEF vars, callVars, lineVars, stateVars, Following, LineIssued
    <3> QED BY <3>1, <3>2, SyncVars
  <2>2. CASE Next
    BY <2>2, NextIs, AsideSync, CallingSync, PublishSync, OtherSync DEF SInv
  <2> QED BY <2>1, <2>2
<1> QED BY <1>1, <1>2, <1>3, InitSync, Invariance, PTL DEF Spec,
  ImplementsSync, Sync!Spec
=============================================================================
