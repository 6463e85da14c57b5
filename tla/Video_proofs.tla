---------------------------- MODULE Video_proofs ----------------------------
(***************************************************************************)
(* The two threads that make a picture.                                    *)
(*                                                                         *)
(* VideoHandoff: the buffers that GameLoop() and MainVideoLoop() pass each *)
(* other, and what VTMutex keeps out of Video_Sync().                      *)
(*                                                                         *)
(* PPU_MT: the commands between the emulation and the renderer.  The       *)
(* recursive function After, the states the renderer goes through, is      *)
(* reasoned about by the least number it could go wrong at (Least).  What  *)
(* is proved of it is how Eventual changes when a command is appended,     *)
(* when one is executed, and when the emulation writes to the renderer's   *)
(* state.  From there on the proofs speak of Meant, the state with the     *)
(* command that is being put into the ring: no step of WWQ() or of the     *)
(* renderer changes it.  PPUInv is inductive and gives the types, the rest *)
(* between frames and the registers; DrawnInv is inductive under it and    *)
(* says how far the picture is on every scanline, which makes each command *)
(* one that the single-threaded renderer would execute then.               *)
(***************************************************************************)
EXTENDS VideoHandoff, PPU_MT, WellFoundedInduction, TLAPS
-----------------------------------------------------------------------------
(* The front end.  InCall: MDFND_Update() is being executed for the frame   *)
(* that was drawn; InFudge: for a repaint out of the middle of a frame.     *)
InCall == gt \in {"blit1", "events", "toggle", "blit2", "updated"}
InFudge == gt \in {"fudge", "fudgeevents", "fudgetoggle", "fudge2"}

(* Unless a frame was repainted, the buffer that is drawn into next waits   *)
(* to be shown only while the call that passed it on has not returned, and  *)
(* that call then leads to the exchange of the buffers.  A skipped frame    *)
(* passes nothing but the other buffer on.                                  *)
BufferInv ==
  /\ ~repainted /\ VTReady = BackBuffer => InCall /\ passed /\ which = BackBuffer
  /\ InCall => /\ passed /\ which = BackBuffer => VTReady # Other(BackBuffer)
               /\ which = NoBuffer => ~passed
               /\ fskip <=> which # BackBuffer
  /\ InFudge => which = Other(BackBuffer)
  /\ gt \in {"emulate", "update"} \/ InCall \/ InFudge => (fskip => ~do_flip)
  /\ gt = "emulate" \/ InFudge => ~do_flip
  /\ mt = "blit" => VTReady # NoBuffer

(* From the beginning of Video_Sync() to the end of the main thread's loop  *)
(* VTMutex keeps requests out.                                              *)
SyncInv ==
  /\ GameThreadRun <=> mt \notin {"join", "closed"}
  /\ mt \in {"sync", "present", "blit", "caught"} => honoured
  /\ SyncHonoured

VideoInv == VideoTypeOK /\ BufferInv /\ SyncInv
-----------------------------------------------------------------------------
(* The types, of the flags and of all else.                                 *)
Flags ==
  /\ fskip \in BOOLEAN /\ passed \in BOOLEAN /\ do_flip \in BOOLEAN
  /\ InFrameAdvance \in BOOLEAN /\ NeedFrameAdvance \in BOOLEAN
  /\ GameLoopPaused \in BOOLEAN
  /\ FirstVideoSync \in BOOLEAN /\ VideoError \in BOOLEAN
  /\ NeedVideoSync \in BOOLEAN /\ NeedExitNow \in BOOLEAN
  /\ GameThreadRun \in BOOLEAN /\ snapshot \in BOOLEAN
  /\ honoured \in BOOLEAN /\ repainted \in BOOLEAN
  /\ sc_blit_timesync \in BOOLEAN
Places ==
  /\ gt \in GameStates
  /\ BackBuffer \in Buffers /\ which \in Buffers \cup {NoBuffer}
  /\ mt \in {"top", "pump", "sync", "present", "blit", "caught", "close",
             "join", "closed"}
  /\ VTReady \in Buffers \cup {NoBuffer}
  /\ vtr = IF mt = "blit" THEN VTReady ELSE NoBuffer
LEMMA TypeParts ==
  /\ VideoTypeOK <=> Flags /\ Places
  /\ (VideoTypeOK <=> Flags /\ Places)'
  BY DEF VideoTypeOK, Flags, Places

LEMMA VideoInitInv == VideoInit => VideoInv
<1> SUFFICES ASSUME VideoInit PROVE VideoInv
  OBVIOUS
<1>1. Flags
  BY Zenon DEF VideoInit, Flags
<1>2. Places
  BY DEF VideoInit, Places, GameStates, Buffers, NoBuffer
<1>3. BufferInv /\ SyncInv
  BY DEF VideoInit, BufferInv, SyncInv, SyncHonoured, Buffers, NoBuffer, InCall,
     InFudge
<1> QED BY <1>1, <1>2, <1>3, TypeParts DEF VideoInv

LEMMA GameFlags ==
  ASSUME VideoInv, GameLoop \/ Command \/ Fudge \/ ToggleFS
  PROVE  Flags'
<1> USE DEF VideoInv, VideoTypeOK, Flags, drawVars, holdVars, mtVars, histVars
<1>1. CASE GameExit
  BY <1>1 DEF GameExit
<1>2. CASE GameTop
  BY <1>2 DEF GameTop
<1>3. CASE BeginFrame
  <2>1. fskip' \in BOOLEAN /\ do_flip' \in BOOLEAN /\ NeedFrameAdvance' \in BOOLEAN
    BY <1>3, Zenon DEF BeginFrame
  <2> QED BY <1>3, <2>1 DEF BeginFrame
<1>4. CASE EndFrame
  BY <1>4 DEF EndFrame
<1>5. CASE CallUpdate
  <2>1. passed' \in BOOLEAN
    BY <1>5, Zenon DEF CallUpdate
  <2> QED BY <1>5, <2>1 DEF CallUpdate
<1>6. CASE Pass
  <2>1. passed' \in BOOLEAN /\ snapshot' \in BOOLEAN
    BY <1>6, Zenon DEF Pass, AtPassBlit, AfterPassBlit
  <2> QED BY <1>6, <2>1 DEF Pass, AtPassBlit, AfterPassBlit
<1>7. CASE DoNotPass
  BY <1>7 DEF DoNotPass, AtPassBlit, AfterPassBlit
<1>8. CASE OtherPosition
  BY <1>8 DEF OtherPosition, AfterPassBlit
<1>9. CASE EventsDone
  BY <1>9 DEF EventsDone
<1>10. CASE Toggled
  BY <1>10 DEF Toggled
<1>11. CASE Updated
  <2>1. do_flip' \in BOOLEAN /\ repainted' \in BOOLEAN
    BY <1>11, Zenon DEF Updated, Flip, Held
  <2> QED BY <1>11, <2>1 DEF Updated, Flip, Held
<1>12. CASE Command
  <2>1. NeedFrameAdvance' \in BOOLEAN /\ InFrameAdvance' \in BOOLEAN /\ GameLoopPaused' \in BOOLEAN /\ snapshot' \in BOOLEAN
    BY <1>12, Zenon DEF Command, DoRunNormal, DoFrameAdvance
  <2> QED BY <1>12, <2>1 DEF Command, DoRunNormal, DoFrameAdvance
<1>13. CASE Fudge
  <2>1. passed' \in BOOLEAN
    BY <1>13, Zenon DEF Fudge
  <2> QED BY <1>13, <2>1 DEF Fudge
<1>14. CASE ToggleFS
  <2>1. NeedVideoSync' \in BOOLEAN /\ honoured' \in BOOLEAN
    BY <1>14, Zenon DEF ToggleFS, MutexFree
  <2> QED BY <1>14, <2>1 DEF ToggleFS, MutexFree
<1> QED
  BY <1>1, <1>2, <1>3, <1>4, <1>5, <1>6, <1>7, <1>8, <1>9, <1>10, <1>11, <1>12, <1>13, <1>14 DEF GameLoop

LEMMA MainFlags ==
  ASSUME VideoInv, MainVideoLoop \/ MainRequestExit
  PROVE  Flags'
<1> USE DEF VideoInv, VideoTypeOK, Flags, drawVars, holdVars, mtVars, histVars
<1>1. CASE MainTop
  <2>1. GameThreadRun' \in BOOLEAN
    BY <1>1, Zenon DEF MainTop
  <2> QED BY <1>1, <2>1 DEF MainTop
<1>2. CASE CloseGame
  BY <1>2 DEF CloseGame
<1>3. CASE Pump
  <2>1. NeedExitNow' \in BOOLEAN /\ VideoError' \in BOOLEAN /\ honoured' \in BOOLEAN
    BY <1>3, Zenon DEF Pump
  <2> QED BY <1>3, <2>1 DEF Pump
<1>4. CASE VideoSynced
  <2>1. NeedExitNow' \in BOOLEAN /\ FirstVideoSync' \in BOOLEAN /\ NeedVideoSync' \in BOOLEAN
    BY <1>4, Zenon DEF VideoSynced
  <2> QED BY <1>4, <2>1 DEF VideoSynced
<1>5. CASE Present
  <2>1. repainted' \in BOOLEAN
    BY <1>5, Zenon DEF Present, Blitting, Taken
  <2> QED BY <1>5, <2>1 DEF Present, Blitting, Taken
<1>6. CASE Blitted
  <2>1. repainted' \in BOOLEAN
    BY <1>6, Zenon DEF Blitted, Taken
  <2> QED BY <1>6, <2>1 DEF Blitted, Taken
<1>7. CASE VideoThrows
  BY <1>7 DEF VideoThrows
<1>8. CASE Caught
  <2>1. VideoError' \in BOOLEAN /\ NeedVideoSync' \in BOOLEAN
    BY <1>8, Zenon DEF Caught
  <2> QED BY <1>8, <2>1 DEF Caught
<1>9. CASE MainRequestExit
  <2>1. NeedExitNow' \in BOOLEAN
    BY <1>9, Zenon DEF MainRequestExit
  <2> QED BY <1>9, <2>1 DEF MainRequestExit
<1> QED
  BY <1>1, <1>2, <1>3, <1>4, <1>5, <1>6, <1>7, <1>8, <1>9 DEF MainVideoLoop

LEMMA GamePlaces ==
  ASSUME VideoInv, GameLoop \/ Command \/ Fudge \/ ToggleFS
  PROVE  Places'
<1> USE DEF VideoInv, VideoTypeOK, Places, GameStates, Buffers, NoBuffer, Other,
      BufferInv, InFudge, drawVars, holdVars, mtVars, histVars
<1>1. CASE GameExit
  BY <1>1 DEF GameExit
<1>2. CASE GameTop
  BY <1>2 DEF GameTop
<1>3. CASE BeginFrame
  BY <1>3 DEF BeginFrame
<1>4. CASE EndFrame
  BY <1>4 DEF EndFrame
<1>5. CASE CallUpdate
  BY <1>5 DEF CallUpdate
<1>6. CASE Pass
  BY <1>6 DEF Pass, AtPassBlit, AfterPassBlit
<1>7. CASE DoNotPass
  BY <1>7 DEF DoNotPass, AtPassBlit, AfterPassBlit
<1>8. CASE OtherPosition
  BY <1>8 DEF OtherPosition, AfterPassBlit
<1>9. CASE EventsDone
  BY <1>9 DEF EventsDone
<1>10. CASE Toggled
  BY <1>10 DEF Toggled
<1>11. CASE Updated
  BY <1>11 DEF Updated, Flip, Held
<1>12. CASE Command
  BY <1>12 DEF Command, DoRunNormal, DoFrameAdvance
<1>13. CASE Fudge
  BY <1>13 DEF Fudge
<1>14. CASE ToggleFS
  BY <1>14 DEF ToggleFS, MutexFree
<1> QED
  BY <1>1, <1>2, <1>3, <1>4, <1>5, <1>6, <1>7, <1>8, <1>9, <1>10, <1>11, <1>12, <1>13, <1>14 DEF GameLoop

LEMMA MainPlaces ==
  ASSUME VideoInv, MainVideoLoop \/ MainRequestExit
  PROVE  Places'
<1> USE DEF VideoInv, VideoTypeOK, Places, GameStates, Buffers, NoBuffer, Other,
      BufferInv, InFudge, drawVars, holdVars, mtVars, histVars
<1>1. CASE MainTop
  BY <1>1 DEF MainTop
<1>2. CASE CloseGame
  BY <1>2 DEF CloseGame
<1>3. CASE Pump
  BY <1>3 DEF Pump
<1>4. CASE VideoSynced
  BY <1>4 DEF VideoSynced
<1>5. CASE Present
  BY <1>5 DEF Present, Blitting, Taken
<1>6. CASE Blitted
  BY <1>6 DEF Blitted, Taken
<1>7. CASE VideoThrows
  BY <1>7 DEF VideoThrows
<1>8. CASE Caught
  BY <1>8 DEF Caught
<1>9. CASE MainRequestExit
  BY <1>9 DEF MainRequestExit
<1> QED
  BY <1>1, <1>2, <1>3, <1>4, <1>5, <1>6, <1>7, <1>8, <1>9 DEF MainVideoLoop

LEMMA GameBuffers ==
  ASSUME VideoInv, GameLoop \/ Command \/ Fudge \/ ToggleFS
  PROVE  BufferInv'
<1> USE DEF VideoInv, VideoTypeOK, Buffers, NoBuffer, Other, BufferInv, InCall, InFudge,
      drawVars, holdVars, mtVars, histVars
<1>1. CASE GameExit
  BY <1>1 DEF GameExit
<1>2. CASE GameTop
  BY <1>2 DEF GameTop
<1>3. CASE BeginFrame
  BY <1>3 DEF BeginFrame
<1>4. CASE EndFrame
  BY <1>4 DEF EndFrame
<1>5. CASE CallUpdate
  BY <1>5 DEF CallUpdate
<1>6. CASE Pass
  BY <1>6 DEF Pass, AtPassBlit, AfterPassBlit
<1>7. CASE DoNotPass
  BY <1>7 DEF DoNotPass, AtPassBlit, AfterPassBlit
<1>8. CASE OtherPosition
  BY <1>8 DEF OtherPosition, AfterPassBlit
<1>9. CASE EventsDone
  BY <1>9 DEF EventsDone
<1>10. CASE Toggled
  BY <1>10 DEF Toggled
<1>11. CASE Updated
  BY <1>11 DEF Updated, Flip, Held
<1>12. CASE Command
  BY <1>12 DEF Command, DoRunNormal, DoFrameAdvance
<1>13. CASE Fudge
  BY <1>13 DEF Fudge
<1>14. CASE ToggleFS
  BY <1>14 DEF ToggleFS, MutexFree
<1> QED
  BY <1>1, <1>2, <1>3, <1>4, <1>5, <1>6, <1>7, <1>8, <1>9, <1>10, <1>11, <1>12, <1>13, <1>14 DEF GameLoop

LEMMA MainBuffers ==
  ASSUME VideoInv, MainVideoLoop \/ MainRequestExit
  PROVE  BufferInv'
<1> USE DEF VideoInv, VideoTypeOK, Buffers, NoBuffer, Other, BufferInv, InCall, InFudge,
      drawVars, holdVars, mtVars, histVars
<1>1. CASE MainTop
  BY <1>1 DEF MainTop
<1>2. CASE CloseGame
  BY <1>2 DEF CloseGame
<1>3. CASE Pump
  BY <1>3 DEF Pump
<1>4. CASE VideoSynced
  BY <1>4 DEF VideoSynced
<1>5. CASE Present
  BY <1>5 DEF Present, Blitting, Taken
<1>6. CASE Blitted
  BY <1>6 DEF Blitted, Taken
<1>7. CASE VideoThrows
  BY <1>7 DEF VideoThrows
<1>8. CASE Caught
  BY <1>8 DEF Caught
<1>9. CASE MainRequestExit
  BY <1>9 DEF MainRequestExit
<1> QED
  BY <1>1, <1>2, <1>3, <1>4, <1>5, <1>6, <1>7, <1>8, <1>9 DEF MainVideoLoop

LEMMA GameSync ==
  ASSUME VideoInv, GameLoop \/ Command \/ Fudge \/ ToggleFS
  PROVE  SyncInv'
<1> USE DEF VideoInv, VideoTypeOK, SyncInv, SyncHonoured, drawVars, holdVars, mtVars, histVars
<1>1. CASE GameExit
  BY <1>1 DEF GameExit
<1>2. CASE GameTop
  BY <1>2 DEF GameTop
<1>3. CASE BeginFrame
  BY <1>3 DEF BeginFrame
<1>4. CASE EndFrame
  BY <1>4 DEF EndFrame
<1>5. CASE CallUpdate
  BY <1>5 DEF CallUpdate
<1>6. CASE Pass
  BY <1>6 DEF Pass, AtPassBlit, AfterPassBlit
<1>7. CASE DoNotPass
  BY <1>7 DEF DoNotPass, AtPassBlit, AfterPassBlit
<1>8. CASE OtherPosition
  BY <1>8 DEF OtherPosition, AfterPassBlit
<1>9. CASE EventsDone
  BY <1>9 DEF EventsDone
<1>10. CASE Toggled
  BY <1>10 DEF Toggled
<1>11. CASE Updated
  BY <1>11 DEF Updated, Flip, Held
<1>12. CASE Command
  BY <1>12 DEF Command, DoRunNormal, DoFrameAdvance
<1>13. CASE Fudge
  BY <1>13 DEF Fudge
<1>14. CASE ToggleFS
  BY <1>14 DEF ToggleFS, MutexFree
<1> QED
  BY <1>1, <1>2, <1>3, <1>4, <1>5, <1>6, <1>7, <1>8, <1>9, <1>10, <1>11, <1>12, <1>13, <1>14 DEF GameLoop

LEMMA MainSync ==
  ASSUME VideoInv, MainVideoLoop \/ MainRequestExit
  PROVE  SyncInv'
<1> USE DEF VideoInv, VideoTypeOK, SyncInv, SyncHonoured, drawVars, holdVars, mtVars, histVars
<1>1. CASE MainTop
  BY <1>1 DEF MainTop
<1>2. CASE CloseGame
  BY <1>2 DEF CloseGame
<1>3. CASE Pump
  BY <1>3 DEF Pump
<1>4. CASE VideoSynced
  BY <1>4 DEF VideoSynced
<1>5. CASE Present
  BY <1>5 DEF Present, Blitting, Taken
<1>6. CASE Blitted
  BY <1>6 DEF Blitted, Taken
<1>7. CASE VideoThrows
  BY <1>7 DEF VideoThrows
<1>8. CASE Caught
  BY <1>8 DEF Caught
<1>9. CASE MainRequestExit
  BY <1>9 DEF MainRequestExit
<1> QED
  BY <1>1, <1>2, <1>3, <1>4, <1>5, <1>6, <1>7, <1>8, <1>9 DEF MainVideoLoop

LEMMA VideoStutter == VideoInv /\ UNCHANGED videoVars => VideoInv'
BY DEF videoVars, drawVars, holdVars, mtVars, histVars, VideoInv, VideoTypeOK,
   BufferInv, SyncInv, SyncHonoured, InCall, InFudge

LEMMA VideoInvariance == VideoSpec => []VideoInv
<1>1. VideoInv /\ [VideoNext]_videoVars => VideoInv'
  <2> SUFFICES ASSUME VideoInv, [VideoNext]_videoVars PROVE VideoInv'
    OBVIOUS
  <2>1. CASE GameLoop \/ Command \/ Fudge \/ ToggleFS
    BY <2>1, GameFlags, GamePlaces, GameBuffers, GameSync, TypeParts DEF VideoInv
  <2>2. CASE MainVideoLoop \/ MainRequestExit
    BY <2>2, MainFlags, MainPlaces, MainBuffers, MainSync, TypeParts DEF VideoInv
  <2>3. CASE Closed \/ UNCHANGED videoVars
    BY <2>3, VideoStutter DEF Closed
  <2> QED
    BY <2>1, <2>2, <2>3 DEF VideoNext
<1> QED
  BY <1>1, VideoInitInv, PTL DEF VideoSpec

(* What the main thread blits is what VTReady names, and both threads' flags *)
(* have their types.                                                        *)
THEOREM HandoffTypeCorrect == VideoSpec => []VideoTypeOK
<1>1. VideoInv => VideoTypeOK
  BY DEF VideoInv
<1> QED BY <1>1, VideoInvariance, PTL

(* GameLoop() does not draw into the buffer MainVideoLoop() blits, unless a *)
(* frame was repainted since the last blit ended.                           *)
THEOREM FramesWhole == VideoSpec => []NoTornFrame
<1>1. VideoInv => NoTornFrame
  BY DEF VideoInv, VideoTypeOK, BufferInv, NoTornFrame, NeverTorn, Emulating,
     InCall
<1> QED BY <1>1, VideoInvariance, PTL

(* NeedVideoSync is cleared only after a Video_Sync() that began when the   *)
(* last request had been made (GT_ToggleFS, GT_ReinitVideo).                *)
THEOREM RequestsHonoured == VideoSpec => []SyncHonoured
<1>1. VideoInv => SyncHonoured
  BY DEF VideoInv, SyncInv
<1> QED BY <1>1, VideoInvariance, PTL
-----------------------------------------------------------------------------
LEMMA Least ==
  ASSUME NEW S, S \subseteq Nat, S # {}
  PROVE  \E n \in S : \A m \in S : n <= m
<1>1. PICK n \in S : \A m \in S : ~(<<m, n>> \in OpToRel(<, Nat))
  BY NatLessThanWellFounded, WFMin, Zenon
<1>2. ASSUME NEW m \in S, m < n PROVE FALSE
  <2>1. <<m, n>> \in OpToRel(<, Nat)
    BY <1>2 DEF OpToRel
  <2> QED BY <1>1, <1>2, <2>1
<1> QED BY <1>2

(* f is the list of states that the renderer goes through from r on, with   *)
(* the first n commands of the ring q from p on.                            *)
IsRun(f, r, q, p, n) ==
  f = [i \in 0..n |-> IF i = 0 THEN r
                      ELSE Executed(f[i - 1], q[(p + (i - 1)) % WQ_Size])]
HasRun(r, q, p, n) == \E f : IsRun(f, r, q, p, n)

LEMMA RunExists ==
  ASSUME NEW r, NEW q, NEW p \in Nat, NEW n \in Nat
  PROVE  HasRun(r, q, p, n)
<1> DEFINE S == {k \in Nat : ~HasRun(r, q, p, k)}
<1> SUFFICES ASSUME S # {} PROVE FALSE
  OBVIOUS
<1>1. PICK k \in S : \A m \in S : k <= m
  BY Least
<1>2. CASE k = 0
  <2> DEFINE f == [i \in 0..0 |-> r]
  <2>1. f = [i \in 0..k |-> IF i = 0 THEN r
                            ELSE Executed(f[i - 1], q[(p + (i - 1)) % WQ_Size])]
    BY <1>2
  <2> HIDE DEF f
  <2>2. IsRun(f, r, q, p, k)
    BY <2>1 DEF IsRun
  <2> QED BY <2>2 DEF HasRun
<1>3. CASE k # 0
  <2>1. k - 1 \in Nat /\ k - 1 \notin S
    BY <1>1, <1>3
  <2>2. PICK f : IsRun(f, r, q, p, k - 1)
    BY <2>1 DEF HasRun
  <2> DEFINE g == [i \in 0..k |->
                     IF i = k THEN Executed(f[k - 1], q[(p + (k - 1)) % WQ_Size])
                     ELSE f[i]]
  <2>3. \A i \in 0..k : g[i] = IF i = 0 THEN r
             ELSE Executed(g[i - 1], q[(p + (i - 1)) % WQ_Size])
    <3> SUFFICES ASSUME NEW i \in 0..k
                 PROVE  g[i] = IF i = 0 THEN r
                               ELSE Executed(g[i - 1], q[(p + (i - 1)) % WQ_Size])
      OBVIOUS
    <3>1. CASE i = k
      BY <1>3, <2>1, <3>1
    <3>2. CASE i # k
      <4>1. i \in 0 .. k - 1 /\ (i # 0 => i - 1 \in 0 .. k - 1 /\ i - 1 # k)
        BY <2>1, <3>2
      <4>2. g[i] = f[i] /\ (i # 0 => g[i - 1] = f[i - 1])
        BY <4>1, <3>2
      <4>3. f[i] = IF i = 0 THEN r
                   ELSE Executed(f[i - 1], q[(p + (i - 1)) % WQ_Size])
        BY <4>1, <2>2 DEF IsRun
      <4> QED BY <4>2, <4>3
    <3> QED BY <3>1, <3>2
  <2>4. g = [i \in 0..k |-> g[i]]
    OBVIOUS
  <2> HIDE DEF g
  <2>5. IsRun(g, r, q, p, k)
    BY <2>3, <2>4 DEF IsRun
  <2> QED BY <2>5 DEF HasRun
<1> QED BY <1>2, <1>3

LEMMA RunEquations ==
  ASSUME NEW f, NEW r, NEW q, NEW p, NEW n \in Nat, IsRun(f, r, q, p, n)
  PROVE  /\ f[0] = r
         /\ \A i \in 0 .. n - 1 : f[i + 1] = Executed(f[i], q[(p + i) % WQ_Size])
<1>1. f[0] = r
  BY DEF IsRun
<1>2. ASSUME NEW i \in 0 .. n - 1
      PROVE  f[i + 1] = Executed(f[i], q[(p + i) % WQ_Size])
  <2>1. i + 1 \in 0..n /\ i + 1 # 0 /\ (i + 1) - 1 = i
    OBVIOUS
  <2> QED BY <2>1 DEF IsRun
<1> QED BY <1>1, <1>2

(* Two runs agree as long as their commands do; f is s commands ahead.      *)
(* The ring v holds from o on what the ring q holds from s places after p.   *)
Moved(v, o, q, p, s, n) ==
  \A j \in 0 .. n - 1 : v[(o + j) % WQ_Size] = q[(p + (s + j)) % WQ_Size]

SameCommands(f, g, q, v, p, o, s, m) ==
  /\ g[0] = f[s]
  /\ \A j \in 0 .. m - 1 :
       /\ g[j + 1] = Executed(g[j], v[(o + j) % WQ_Size])
       /\ f[(s + j) + 1] = Executed(f[s + j], q[(p + (s + j)) % WQ_Size])
       /\ v[(o + j) % WQ_Size] = q[(p + (s + j)) % WQ_Size]

LEMMA RunsAgree ==
  ASSUME NEW f, NEW g, NEW q, NEW v, NEW p, NEW o, NEW s \in Nat, NEW m \in Nat,
         SameCommands(f, g, q, v, p, o, s, m)
  PROVE  \A j \in 0..m : g[j] = f[s + j]
<1> DEFINE S == {j \in 0..m : g[j] # f[s + j]}
<1> SUFFICES ASSUME S # {} PROVE FALSE
  OBVIOUS
<1>1. PICK j \in S : \A i \in S : j <= i
  <2>1. S \subseteq Nat
    OBVIOUS
  <2> QED BY <2>1, Least
<1>2. j # 0
  BY DEF SameCommands
<1>3. PICK i \in 0 .. m - 1 : j = i + 1
  <2>1. j - 1 \in 0 .. m - 1 /\ j = (j - 1) + 1
    BY <1>2
  <2> QED BY <2>1
<1>4. g[i] = f[s + i]
  BY <1>1, <1>3
<1>5. g[i + 1] = f[(s + i) + 1]
  BY <1>3, <1>4 DEF SameCommands
<1>6. (s + i) + 1 = s + (i + 1)
  BY <1>3
<1> QED BY <1>3, <1>5, <1>6

LEMMA RunKept ==
  ASSUME NEW f, NEW g, NEW r, NEW q, NEW v, NEW p, NEW o,
         NEW n \in Nat, NEW k \in Nat, n <= k,
         IsRun(f, r, q, p, n), IsRun(g, r, v, o, k), Moved(v, o, q, p, 0, n)
  PROVE  \A j \in 0..n : g[j] = f[j]
<1>1. g[0] = r /\ \A j \in 0 .. k - 1 : g[j + 1] = Executed(g[j], v[(o + j) % WQ_Size])
  BY RunEquations
<1>2. f[0] = r /\ \A j \in 0 .. n - 1 : f[j + 1] = Executed(f[j], q[(p + j) % WQ_Size])
  BY RunEquations
<1>3. PICK s \in Nat : s = 0
  OBVIOUS
<1>4. g[0] = f[s]
  BY <1>1, <1>2, <1>3
<1>5. ASSUME NEW j \in 0 .. n - 1
      PROVE  /\ g[j + 1] = Executed(g[j], v[(o + j) % WQ_Size])
             /\ f[(s + j) + 1] = Executed(f[s + j], q[(p + (s + j)) % WQ_Size])
             /\ v[(o + j) % WQ_Size] = q[(p + (s + j)) % WQ_Size]
  <2>1. s + j = j /\ j \in 0 .. k - 1
    BY <1>3
  <2> QED BY <1>1, <1>2, <1>3, <2>1 DEF Moved
<1>6. \A j \in 0..n : g[j] = f[s + j]
  <2>1. SameCommands(f, g, q, v, p, o, s, n)
    BY <1>4, <1>5 DEF SameCommands
  <2> QED BY <2>1, RunsAgree
<1> QED BY <1>3, <1>6

LEMMA RunDropped ==
  ASSUME NEW f, NEW g, NEW r, NEW q, NEW v, NEW p, NEW o,
         NEW n \in Nat, n > 0, NEW k \in Nat, k = n - 1,
         IsRun(f, r, q, p, n), IsRun(g, f[1], v, o, k), Moved(v, o, q, p, 1, k)
  PROVE  \A j \in 0 .. k : g[j] = f[1 + j]
<1>1. g[0] = f[1] /\ \A j \in 0 .. k - 1 : g[j + 1] = Executed(g[j], v[(o + j) % WQ_Size])
  BY RunEquations
<1>2. f[0] = r /\ \A j \in 0 .. n - 1 : f[j + 1] = Executed(f[j], q[(p + j) % WQ_Size])
  BY RunEquations
<1>3. PICK s \in Nat : s = 1
  OBVIOUS
<1>4. g[0] = f[s]
  BY <1>1, <1>3
<1>5. ASSUME NEW j \in 0 .. k - 1
      PROVE  /\ g[j + 1] = Executed(g[j], v[(o + j) % WQ_Size])
             /\ f[(s + j) + 1] = Executed(f[s + j], q[(p + (s + j)) % WQ_Size])
             /\ v[(o + j) % WQ_Size] = q[(p + (s + j)) % WQ_Size]
  <2>1. s + j \in 0 .. n - 1 /\ s + j = 1 + j
    BY <1>3
  <2> QED BY <1>1, <1>2, <1>3, <2>1 DEF Moved
<1>6. \A j \in 0 .. k : g[j] = f[s + j]
  <2>1. SameCommands(f, g, q, v, p, o, s, k)
    BY <1>4, <1>5 DEF SameCommands
  <2> QED BY <2>1, RunsAgree
<1> QED BY <1>3, <1>6

Pending == IF emu \in {"put", "full", "room"} THEN hand ELSE NoCmd
InCommand == emu \in {"put", "full", "room", "publish", "refresh"}
Step == IF InCommand THEN ret ELSE emu     \* where the emulation goes on

SpriteLines == (0..Height) \cup {None}
PixelSet == [line : {None} \cup 0..Height, reg : Values \cup {0},
             sprites : SpriteLines, es : Specs]
Renderers == [reg : Values, sprites : SpriteLines, LineTarget : 0..Height,
              es : Specs, picture : [Rows -> PixelSet]]
Dist(a, b) == (b - a) % WQ_Size
Legal(r, e) == e.cmd = "render" => e.arg = r.LineTarget + 1

Types ==
  /\ emu \in {"idle", "run", "line1", "ended", "put", "full", "room", "publish",
              "refresh", "sync", "drain", "join", "killed"}
  /\ hand \in Commands /\ ret \in {"run", "line1", "ended", "join"}
  /\ frame \in Specs /\ scanline \in 0..LastLine /\ LinePhase \in {0, 1, 3}
  /\ VBlank \in BOOLEAN /\ SkipFrame \in BOOLEAN /\ SpecEx \in BOOLEAN
  /\ raw \in Values
  /\ saved \in [reg : Values \cup {None}, scanline : 0..LastLine, VBlank : BOOLEAN]
  /\ WQ \in [Positions -> Commands]
  /\ WritePos \in Positions /\ ReadPos \in Positions
  /\ TMP_WritePos \in Positions /\ TMP_ReadPos \in Positions
  /\ rtRead \in Positions /\ rtWrite \in Positions
  /\ rt \in {"store", "look", "batch", "exited"}

(* Going round the ring from ReadPos on, one comes to TMP_ReadPos, rtRead,  *)
(* rtWrite, TMP_WritePos and WritePos in this order.                        *)
Ordered(R, T, r, w, P, W) ==
  /\ Dist(R, T) <= Dist(R, r)
  /\ Dist(R, r) <= Dist(R, w)
  /\ Dist(R, w) <= Dist(R, P)
  /\ Dist(R, P) <= Dist(R, W)
RingInv ==
  /\ Ordered(ReadPos, TMP_ReadPos, rtRead, rtWrite, TMP_WritePos, WritePos)
  /\ rt = "batch" <=> rtRead # rtWrite
  /\ emu \in {"room", "refresh", "drain", "idle"} => TMP_WritePos = WritePos
  /\ emu \in {"full", "room"} => WQ[WritePos] = hand
  /\ emu = "idle" => TMP_ReadPos = WritePos
ExitInv ==
  /\ rt = "exited" => Step \in {"join", "killed"}
  /\ \A i \in 0 .. Queued - 1 : Entry(i).cmd = "exit" => Step \in {"join", "killed"}
CallInv ==
  /\ ~InCommand => hand = NoCmd /\ ret = "run"
  /\ hand.cmd = "exit" => ret = "join"
  /\ frame = "none" <=> Step \in {"idle", "join", "killed"}
  /\ emu \in {"sync", "drain"} => frame = "espec"
  /\ SpecEx /\ frame = "espec" => saved.reg \in Values
  /\ frame = "tmp" => SpecEx
LineInv ==
  /\ Step \in {"idle", "ended", "sync", "drain"} => scanline \notin Drawable \/ VBlank
  /\ Step \in {"ended", "sync", "drain"} => (scanline = 0 \/ VBlank) /\ LinePhase = 1
  /\ ~VBlank /\ scanline = LastLine => LinePhase = 0
  /\ Step = "line1" => scanline = 1 /\ LinePhase = 1 /\ ~SkipFrame /\ frame # "tmp"
  /\ saved.scanline = 0 \/ saved.VBlank
  /\ frame = "tmp" /\ ~VBlank /\ scanline \in Drawable =>
       SkipFrame \/ (scanline = 1 /\ LinePhase = 1)
Draws(e) == e.cmd = "render" \/ e = VBlankCmd(FALSE)
QueueLegal ==
  /\ \A i \in 0..Queued : After[i] \in Renderers
  /\ \A i \in 0 .. Queued - 1 : Legal(After[i], Entry(i))
Undrawn ==
  frame = "tmp" => (\A i \in 0 .. Queued - 1 : ~Draws(Entry(i))) /\ ~Draws(hand)
QueueInv == QueueLegal /\ Undrawn
Meant == Executed(Eventual, Pending)
MeantInv ==
  /\ Legal(Eventual, Pending)
  /\ Meant.reg = raw
  /\ ~VBlank /\ ~SkipFrame /\ scanline \in Drawable =>
       IF LinePhase = 1
       THEN scanline # 1 \/ Step = "line1" => Meant.LineTarget = scanline - 1
       ELSE Meant.LineTarget = scanline
PPUInv == Types /\ RingInv /\ ExitInv /\ CallInv /\ LineInv /\ QueueInv /\ MeantInv
-----------------------------------------------------------------------------
LEMMA Modulo ==
  ASSUME NEW m \in Nat, m > 0, NEW x \in Int
  PROVE  /\ x % m \in 0 .. m - 1
         /\ 0 <= x /\ x < m => x % m = x
         /\ m <= x /\ x < m + m => x % m = x - m
         /\ x < 0 /\ -m <= x => x % m = x + m
  OBVIOUS

LEMMA Distances ==
  ASSUME NEW a \in Positions, NEW b \in Positions
  PROVE  /\ Dist(a, b) = IF b >= a THEN b - a ELSE b - a + WQ_Size
         /\ Dist(a, b) \in 0 .. WQ_Size - 1
<1>1. WQ_Size \in Nat /\ WQ_Size > 1
  BY RingAssumption
<1>2. PICK x \in Int : x = b - a /\ -WQ_Size <= x /\ x < WQ_Size
  BY <1>1 DEF Positions
<1>3. x % WQ_Size = IF x >= 0 THEN x ELSE x + WQ_Size
  BY <1>1, <1>2, Modulo
<1>4. x % WQ_Size \in 0 .. WQ_Size - 1
  BY <1>1, Modulo
<1>5. x >= 0 <=> b >= a
  BY <1>2 DEF Positions
<1> QED BY <1>2, <1>3, <1>4, <1>5 DEF Dist

LEMMA Wraps ==
  ASSUME NEW x \in 0 .. WQ_Size + WQ_Size - 1
  PROVE  /\ x % WQ_Size = IF x < WQ_Size THEN x ELSE x - WQ_Size
         /\ x % WQ_Size \in Positions
<1>1. WQ_Size \in Nat /\ WQ_Size > 1
  BY RingAssumption
<1> QED BY <1>1, Modulo DEF Positions

(* The place k after a in the ring, and the one after that.                 *)
LEMMA RingPlaces ==
  ASSUME NEW a \in Positions, NEW k \in 0 .. WQ_Size - 1
  PROVE  /\ (a + k) % WQ_Size = IF a + k < WQ_Size THEN a + k ELSE a + k - WQ_Size
         /\ (a + k) % WQ_Size \in Positions
<1>1. WQ_Size \in Nat /\ WQ_Size > 1
  BY RingAssumption
<1>2. PICK x \in 0 .. WQ_Size + WQ_Size - 1 : x = a + k
  BY <1>1 DEF Positions
<1>3. /\ x % WQ_Size = IF x < WQ_Size THEN x ELSE x - WQ_Size
      /\ x % WQ_Size \in Positions
  BY Wraps
<1> QED BY <1>1, <1>2, <1>3 DEF Positions

LEMMA NextPlaces ==
  ASSUME NEW a \in Positions, NEW k \in 0 .. WQ_Size - 2
  PROVE  /\ (a + 1) % WQ_Size = IF a = WQ_Size - 1 THEN 0 ELSE a + 1
         /\ (a + 1) % WQ_Size \in Positions
         /\ (((a + 1) % WQ_Size) + k) % WQ_Size = (a + (1 + k)) % WQ_Size
<1>1. WQ_Size \in Nat /\ WQ_Size > 1
  BY RingAssumption
<1>2. PICK b \in Positions : b = (a + 1) % WQ_Size
  BY <1>1, RingPlaces
<1>3. b = IF a = WQ_Size - 1 THEN 0 ELSE a + 1
  <2>1. 1 \in 0 .. WQ_Size - 1
    BY <1>1
  <2>2. b = IF a + 1 < WQ_Size THEN a + 1 ELSE a + 1 - WQ_Size
    BY <1>2, <2>1, RingPlaces
  <2> QED BY <1>1, <2>2 DEF Positions
<1>4. (b + k) % WQ_Size = IF b + k < WQ_Size THEN b + k ELSE b + k - WQ_Size
  BY <1>1, RingPlaces
<1>5. PICK j \in 0 .. WQ_Size - 1 : j = 1 + k
  BY <1>1
<1>6. (a + j) % WQ_Size = IF a + j < WQ_Size THEN a + j ELSE a + j - WQ_Size
  BY <1>1, RingPlaces
<1>7. (b + k) % WQ_Size = (a + j) % WQ_Size
  BY <1>1, <1>3, <1>4, <1>5, <1>6 DEF Positions
<1> QED BY <1>2, <1>3, <1>5, <1>7

LEMMA SameDistance ==
  ASSUME NEW a \in Positions, NEW b \in Positions, NEW c \in Positions,
         Dist(a, b) = Dist(a, c)
  PROVE  b = c
<1>1. WQ_Size \in Nat /\ a \in Nat /\ b \in Nat /\ c \in Nat
      /\ a < WQ_Size /\ b < WQ_Size /\ c < WQ_Size
  BY RingAssumption DEF Positions
<1>2. Dist(a, b) = (IF b >= a THEN b - a ELSE b - a + WQ_Size)
  BY Distances
<1>3. Dist(a, c) = (IF c >= a THEN c - a ELSE c - a + WQ_Size)
  BY Distances
<1>4. PICK d \in Int : d = Dist(a, b) /\ d = Dist(a, c)
  BY Distances
<1>5. CASE b >= a /\ c >= a
  <2>1. d = b - a /\ d = c - a
    BY <1>2, <1>3, <1>4, <1>5
  <2> QED BY <1>1, <2>1
<1>6. CASE b >= a /\ ~(c >= a)
  <2>1. d = b - a /\ d = c - a + WQ_Size
    BY <1>2, <1>3, <1>4, <1>6
  <2> QED BY <1>1, <2>1
<1>7. CASE ~(b >= a) /\ c >= a
  <2>1. d = b - a + WQ_Size /\ d = c - a
    BY <1>2, <1>3, <1>4, <1>7
  <2> QED BY <1>1, <2>1
<1>8. CASE ~(b >= a) /\ ~(c >= a)
  <2>1. d = b - a + WQ_Size /\ d = c - a + WQ_Size
    BY <1>2, <1>3, <1>4, <1>8
  <2> QED BY <1>1, <2>1
<1> QED BY <1>5, <1>6, <1>7, <1>8

LEMMA NextPlace ==
  ASSUME NEW a \in Positions
  PROVE  (a + 1) % WQ_Size = IF a = WQ_Size - 1 THEN 0 ELSE a + 1
<1>1. 0 \in 0 .. WQ_Size - 2
  BY RingAssumption
<1> QED BY <1>1, NextPlaces

LEMMA Positioned ==
  ASSUME NEW R \in Positions, NEW T \in Positions, NEW r \in Positions,
         NEW w \in Positions, NEW P \in Positions, NEW W \in Positions,
         Ordered(R, T, r, w, P, W)
  PROVE  /\ Ordered(R, T, r, w, W, W)
         /\ Ordered(T, T, r, w, P, W)
         /\ Ordered(R, r, r, w, P, W)
         /\ r = w => Ordered(R, T, r, P, P, W)
         /\ T = W => Ordered(W, W, W, W, W, W) /\ r = W /\ w = W /\ P = W
<1> DEFINE D(a, b) == IF b >= a THEN b - a ELSE b - a + WQ_Size
<1>1. WQ_Size \in Nat /\ WQ_Size > 1
  BY RingAssumption
<1>2. /\ Dist(T, T) = D(T, T) /\ Dist(T, r) = D(T, r) /\ Dist(T, w) = D(T, w)
      /\ Dist(T, P) = D(T, P) /\ Dist(T, W) = D(T, W) /\ Dist(W, W) = D(W, W)
      /\ Dist(R, T) = D(R, T) /\ Dist(R, r) = D(R, r) /\ Dist(R, w) = D(R, w)
      /\ Dist(R, P) = D(R, P) /\ Dist(R, W) = D(R, W)
  BY Distances
<1>3. /\ D(R, T) <= D(R, r) /\ D(R, r) <= D(R, w)
      /\ D(R, w) <= D(R, P) /\ D(R, P) <= D(R, W)
  BY <1>2 DEF Ordered
<1>4. Ordered(R, T, r, w, W, W)
  BY <1>1, <1>2, <1>3 DEF Ordered, Positions
<1>5. Ordered(T, T, r, w, P, W)
  BY <1>1, <1>2, <1>3 DEF Ordered, Positions
<1>6. Ordered(R, r, r, w, P, W)
  BY <1>1, <1>2, <1>3 DEF Ordered, Positions
<1>7. r = w => Ordered(R, T, r, P, P, W)
  BY <1>1, <1>2, <1>3 DEF Ordered, Positions
<1>8. T = W => Ordered(W, W, W, W, W, W) /\ r = W /\ w = W /\ P = W
  BY <1>1, <1>2, <1>3 DEF Ordered, Positions
<1> QED BY <1>4, <1>5, <1>6, <1>7, <1>8

LEMMA DistAdded ==
  ASSUME NEW R \in Positions, NEW T \in Positions, NEW r \in Positions,
         NEW w \in Positions, NEW P \in Positions, NEW W \in Positions,
         Ordered(R, T, r, w, P, W), (W + 1) % WQ_Size # R
  PROVE  /\ Ordered(R, T, r, w, P, (W + 1) % WQ_Size)
         /\ Dist(r, (W + 1) % WQ_Size) = Dist(r, W) + 1
<1> DEFINE D(a, b) == IF b >= a THEN b - a ELSE b - a + WQ_Size
<1>1. WQ_Size \in Nat /\ WQ_Size > 1
  BY RingAssumption
<1>2. PICK X \in Positions : /\ X = (W + 1) % WQ_Size
                             /\ X = IF W = WQ_Size - 1 THEN 0 ELSE W + 1
  BY <1>1, NextPlace DEF Positions
<1>3. /\ Dist(R, T) = D(R, T) /\ Dist(R, r) = D(R, r) /\ Dist(R, w) = D(R, w)
      /\ Dist(R, P) = D(R, P) /\ Dist(R, W) = D(R, W) /\ Dist(R, X) = D(R, X)
      /\ Dist(r, W) = D(r, W) /\ Dist(r, X) = D(r, X)
  BY Distances
<1>4. /\ D(R, T) <= D(R, r) /\ D(R, r) <= D(R, w)
      /\ D(R, w) <= D(R, P) /\ D(R, P) <= D(R, W)
  BY <1>3 DEF Ordered
<1>5. Dist(r, X) = Dist(r, W) + 1
  BY <1>1, <1>2, <1>3, <1>4 DEF Positions
<1>6. Ordered(R, T, r, w, P, X)
  BY <1>1, <1>2, <1>3, <1>4 DEF Ordered, Positions
<1> QED BY <1>2, <1>5, <1>6

LEMMA DistTaken ==
  ASSUME NEW R \in Positions, NEW T \in Positions, NEW r \in Positions,
         NEW w \in Positions, NEW P \in Positions, NEW W \in Positions,
         Ordered(R, T, r, w, P, W), r # w
  PROVE  /\ Ordered(R, T, (r + 1) % WQ_Size, w, P, W)
         /\ Dist(r, W) > 0 /\ Dist((r + 1) % WQ_Size, W) = Dist(r, W) - 1
<1> DEFINE D(a, b) == IF b >= a THEN b - a ELSE b - a + WQ_Size
<1>1. WQ_Size \in Nat /\ WQ_Size > 1
  BY RingAssumption
<1>2. PICK y \in Positions : /\ y = (r + 1) % WQ_Size
                             /\ y = IF r = WQ_Size - 1 THEN 0 ELSE r + 1
  BY <1>1, NextPlace DEF Positions
<1>3. /\ Dist(R, T) = D(R, T) /\ Dist(R, r) = D(R, r) /\ Dist(R, w) = D(R, w)
      /\ Dist(R, P) = D(R, P) /\ Dist(R, W) = D(R, W) /\ Dist(R, y) = D(R, y)
      /\ Dist(r, W) = D(r, W) /\ Dist(y, W) = D(y, W)
  BY Distances
<1>4. /\ D(R, T) <= D(R, r) /\ D(R, r) <= D(R, w)
      /\ D(R, w) <= D(R, P) /\ D(R, P) <= D(R, W)
  BY <1>3 DEF Ordered
<1>5. Dist(r, W) > 0 /\ Dist(y, W) = Dist(r, W) - 1
  BY <1>1, <1>2, <1>3, <1>4 DEF Positions
<1>6. Ordered(R, T, y, w, P, W)
  BY <1>1, <1>2, <1>3, <1>4 DEF Ordered, Positions
<1> QED BY <1>2, <1>5, <1>6

(* What a command does, field by field.                                     *)
LEMMA ExecutedFields ==
  ASSUME NEW r \in Renderers, NEW e \in Commands, Legal(r, e)
  PROVE  /\ Executed(r, e) \in Renderers
         /\ Executed(r, e).reg = IF e.cmd = "write" THEN e.arg ELSE r.reg
         /\ Executed(r, e).es = r.es
         /\ Executed(r, e).sprites = IF e.cmd = "fetch" THEN e.arg ELSE r.sprites
         /\ Executed(r, e).picture =
              IF e.cmd = "render"
              THEN [r.picture EXCEPT ![e.arg - 1] = Pixels(e.arg, r.reg, r.sprites, r.es)]
              ELSE IF e = VBlankCmd(FALSE)
              THEN [row \in Rows |-> IF row < r.LineTarget THEN r.picture[row]
                                     ELSE Black(r.es)]
              ELSE r.picture
         /\ Executed(r, e).LineTarget =
              IF e.cmd = "target" THEN 0
              ELSE IF e.cmd = "render" THEN e.arg
              ELSE IF e = VBlankCmd(FALSE) THEN Height
              ELSE r.LineTarget
<1> USE ScreenAssumption
<1> USE DEF Renderers, SpriteLines, Drawable
<1>2. ASSUME NEW v \in Values, e = WriteCmd(v)
      PROVE  /\ Executed(r, e) = [r EXCEPT !.reg = v]
             /\ e.cmd = "write" /\ e.arg = v
  BY <1>2 DEF Executed, WriteCmd, Cmd
<1>3. ASSUME NEW l \in {0} \cup Drawable, e = FetchCmd(l)
      PROVE  /\ Executed(r, e) = [r EXCEPT !.sprites = l]
             /\ e.cmd = "fetch" /\ e.arg = l
  BY <1>3 DEF Executed, FetchCmd, Cmd
<1>4. ASSUME e = TargetCmd
      PROVE  /\ Executed(r, e) = [r EXCEPT !.LineTarget = 0]
             /\ e.cmd = "target"
  BY <1>4 DEF Executed, TargetCmd, Cmd
<1>5. ASSUME NEW l \in Drawable, e = RenderCmd(l)
      PROVE  /\ Executed(r, e) = [r EXCEPT !.LineTarget = l,
                   !.picture[l - 1] = Pixels(l, r.reg, r.sprites, r.es)]
             /\ e.cmd = "render" /\ e.arg = l
  <2>1. e.cmd = "render" /\ e.arg = l
    BY <1>5 DEF RenderCmd, Cmd
  <2>2. r.LineTarget = l - 1 /\ r.LineTarget \in Nat
    BY <2>1 DEF Legal
  <2>3. Executed(r, e) = RenderLine(r, l)
    BY <2>1 DEF Executed
  <2>4. ~(r.LineTarget > Height) /\ r.LineTarget + 1 = l
    BY <2>2
  <2> QED BY <2>1, <2>2, <2>3, <2>4 DEF RenderLine
<1>6. ASSUME e = VBlankCmd(FALSE)
      PROVE  /\ Executed(r, e) = RenderZero(r)
             /\ e.cmd = "vblank"
  BY <1>6 DEF Executed, VBlankCmd, Cmd
<1>7. \A l \in 0..Height, v \in Values \cup {0}, p \in SpriteLines, s \in Specs :
        Pixels(l, v, p, s) \in PixelSet
  BY DEF Pixels, PixelSet
<1> QED
  <2>1. e \in {NoCmd, TargetCmd, ExitCmd, VBlankCmd(TRUE), VBlankCmd(FALSE)}
        \/ (\E v \in Values : e = WriteCmd(v))
        \/ (\E l \in {0} \cup Drawable : e = FetchCmd(l))
        \/ (\E l \in Drawable : e = RenderCmd(l))
    BY DEF Commands
  <2>2. CASE \E v \in Values : e = WriteCmd(v)
    <3>1. PICK v \in Values : e = WriteCmd(v)
      BY <2>2
    <3>2. e # VBlankCmd(FALSE)
      BY <3>1 DEF WriteCmd, VBlankCmd, Cmd
    <3> QED BY <1>2, <3>1, <3>2
  <2>3. CASE \E l \in {0} \cup Drawable : e = FetchCmd(l)
    <3>1. PICK l \in {0} \cup Drawable : e = FetchCmd(l)
      BY <2>3
    <3>2. e # VBlankCmd(FALSE)
      BY <3>1 DEF FetchCmd, VBlankCmd, Cmd
    <3> QED BY <1>3, <3>1, <3>2
  <2>4. CASE \E l \in Drawable : e = RenderCmd(l)
    <3>1. PICK l \in Drawable : e = RenderCmd(l)
      BY <2>4
    <3>2. e # VBlankCmd(FALSE)
      BY <3>1 DEF RenderCmd, VBlankCmd, Cmd
    <3>3. l \in 0..Height /\ r.reg \in Values \cup {0} /\ l \in Int /\ l - 1 \in Rows
      BY DEF Rows
    <3>4. PICK pix \in PixelSet : pix = Pixels(l, r.reg, r.sprites, r.es)
      BY <1>7, <3>3
    <3>5. Executed(r, e) = [r EXCEPT !.LineTarget = l, !.picture = [r.picture EXCEPT ![l - 1] = pix]]
      BY <1>5, <3>1, <3>4
    <3>6. [r.picture EXCEPT ![l - 1] = pix] \in [Rows -> PixelSet]
      BY <3>3
    <3>7. e.cmd = "render" /\ e.arg = l
      BY <1>5, <3>1
    <3>8. Executed(r, e).picture = [r.picture EXCEPT ![l - 1] = pix]
      BY <3>5
    <3>9. /\ Executed(r, e) \in Renderers
          /\ Executed(r, e).reg = r.reg /\ Executed(r, e).es = r.es
          /\ Executed(r, e).sprites = r.sprites /\ Executed(r, e).LineTarget = l
      BY <3>3, <3>5, <3>6
    <3>10. Executed(r, e).picture
             = [r.picture EXCEPT ![e.arg - 1] = Pixels(e.arg, r.reg, r.sprites, r.es)]
      BY <3>4, <3>7, <3>8
    <3> QED BY <3>7, <3>9, <3>10
  <2>5. CASE e = TargetCmd
    BY <1>4, <2>5 DEF VBlankCmd, TargetCmd, Cmd
  <2>6. CASE e = VBlankCmd(FALSE)
    <3>1. Black(r.es) \in PixelSet
      <4>1. 0 \in 0..Height /\ 0 \in Values \cup {0} /\ None \in SpriteLines
        OBVIOUS
      <4> QED BY <1>7, <4>1 DEF Black
    <3>2. Executed(r, e) = [r EXCEPT !.LineTarget = Height,
            !.picture = [row \in Rows |-> IF row < r.LineTarget THEN r.picture[row]
                                          ELSE Black(r.es)]]
      BY <1>6, <2>6 DEF RenderZero
    <3>3. [row \in Rows |-> IF row < r.LineTarget THEN r.picture[row] ELSE Black(r.es)]
          \in [Rows -> PixelSet]
      BY <3>1
    <3>4. PICK pic \in [Rows -> PixelSet] :
            Executed(r, e) = [r EXCEPT !.LineTarget = Height, !.picture = pic]
      BY <3>2, <3>3
    <3>5. e.cmd = "vblank"
      BY <1>6, <2>6
    <3>6. Executed(r, e) \in Renderers
      <4>1. PICK h \in 0..Height : h = Height
        OBVIOUS
      <4>2. Executed(r, e) = [r EXCEPT !.LineTarget = h, !.picture = pic]
        BY <3>4, <4>1
      <4> QED BY <4>2
    <3>7. Executed(r, e).reg = r.reg /\ Executed(r, e).es = r.es /\ Executed(r, e).LineTarget = Height
          /\ Executed(r, e).sprites = r.sprites
      BY <3>4
    <3>8. Executed(r, e).picture = [row \in Rows |-> IF row < r.LineTarget THEN r.picture[row]
                                                   ELSE Black(r.es)]
      BY <3>2
    <3> QED BY <2>6, <3>5, <3>6, <3>7, <3>8
  <2>7. CASE e \in {NoCmd, ExitCmd, VBlankCmd(TRUE)}
    <3>1. Executed(r, e) = r
      BY <2>7 DEF Executed, NoCmd, ExitCmd, VBlankCmd, Cmd
    <3>2. e.cmd \notin {"write", "target", "render", "fetch"} /\ e # VBlankCmd(FALSE)
      BY <2>7 DEF NoCmd, ExitCmd, VBlankCmd, Cmd
    <3> QED BY <3>1, <3>2
  <2> QED BY <2>1, <2>2, <2>3, <2>4, <2>5, <2>6, <2>7
-----------------------------------------------------------------------------
LEMMA QueuedTyped ==
  /\ Types => Queued \in 0 .. WQ_Size - 1 /\ rtRead \in Nat
  /\ Types' => Queued' \in 0 .. WQ_Size - 1 /\ rtRead' \in Nat
<1>1. WQ_Size \in Nat /\ WQ_Size > 1
  BY RingAssumption
<1>2. Types => Queued \in 0 .. WQ_Size - 1 /\ rtRead \in Nat
  BY <1>1, Modulo DEF Types, Positions, Queued
<1>3. ASSUME Types' PROVE Queued' \in 0 .. WQ_Size - 1 /\ rtRead' \in Nat
  <2>1. WritePos' \in Positions /\ rtRead' \in Positions
    BY <1>3 DEF Types
  <2>2. Queued' = Dist(rtRead', WritePos')
    BY DEF Queued, Dist
  <2> QED BY <1>1, <2>1, <2>2, Distances DEF Positions
<1> QED BY <1>2, <1>3

LEMMA AfterIsRun ==
  /\ Types => IsRun(After, rend, WQ, rtRead, Queued)
  /\ Types' => IsRun(After', rend', WQ', rtRead', Queued')
<1>1. ASSUME Types PROVE IsRun(After, rend, WQ, rtRead, Queued)
  <2>1. HasRun(rend, WQ, rtRead, Queued)
    BY <1>1, QueuedTyped, RunExists
  <2>2. PICK f : f = [i \in 0..Queued |->
                        IF i = 0 THEN rend
                        ELSE Executed(f[i - 1], WQ[(rtRead + (i - 1)) % WQ_Size])]
    BY <2>1 DEF HasRun, IsRun
  <2>3. After = CHOOSE g : g = [i \in 0..Queued |->
                        IF i = 0 THEN rend
                        ELSE Executed(g[i - 1], WQ[(rtRead + (i - 1)) % WQ_Size])]
    BY DEF After, Entry
  <2> QED BY <2>2, <2>3 DEF IsRun
<1>2. ASSUME Types' PROVE IsRun(After', rend', WQ', rtRead', Queued')
  <2>1. HasRun(rend', WQ', rtRead', Queued')
    BY <1>2, QueuedTyped, RunExists
  <2>2. PICK f : f = [i \in 0..Queued' |->
                        IF i = 0 THEN rend'
                        ELSE Executed(f[i - 1], WQ'[(rtRead' + (i - 1)) % WQ_Size])]
    BY <2>1 DEF HasRun, IsRun
  <2>3. After' = CHOOSE g : g = [i \in 0..Queued' |->
                        IF i = 0 THEN rend'
                        ELSE Executed(g[i - 1], WQ'[(rtRead' + (i - 1)) % WQ_Size])]
    BY DEF After, Entry
  <2> QED BY <2>2, <2>3 DEF IsRun
<1> QED BY <1>1, <1>2

(* The states are those of before when the queue is.                        *)
LEMMA AfterSame ==
  ASSUME Types, Types', rtRead' = rtRead, WritePos' = WritePos, rend' = rend,
         \A i \in 0 .. Queued - 1 : Entry(i)' = Entry(i)
  PROVE  /\ Queued' = Queued /\ Eventual' = Eventual
         /\ \A i \in 0..Queued : After'[i] = After[i]
<1>1. Queued' = Queued /\ Queued \in Nat
  BY QueuedTyped DEF Queued
<1>2. IsRun(After, rend, WQ, rtRead, Queued) /\ IsRun(After', rend', WQ', rtRead', Queued')
  BY AfterIsRun
<1>4. Moved(WQ', rtRead', WQ, rtRead, 0, Queued)
  <2>1. ASSUME NEW j \in 0 .. Queued - 1
        PROVE  WQ'[(rtRead' + j) % WQ_Size] = WQ[(rtRead + (0 + j)) % WQ_Size]
    <3>1. 0 + j = j
      OBVIOUS
    <3> QED BY <3>1 DEF Entry
  <2> QED BY <2>1 DEF Moved
<1>5. \A i \in 0..Queued : After'[i] = After[i]
  BY <1>1, <1>2, <1>4, RunKept
<1> QED BY <1>1, <1>5 DEF Eventual

LEMMA AfterEmpty ==
  /\ Types => After[0] = rend
  /\ Types' => After'[0] = rend'
  BY AfterIsRun, QueuedTyped, RunEquations

(* One entry more.                                                          *)
LEMMA AfterAppended ==
  ASSUME Types, Types', rtRead' = rtRead, rend' = rend, NEW e,
         Queued' = Queued + 1,
         \A i \in 0 .. Queued - 1 : Entry(i)' = Entry(i),
         WQ'[(rtRead + Queued) % WQ_Size] = e
  PROVE  /\ \A i \in 0..Queued : After'[i] = After[i]
         /\ Eventual' = Executed(Eventual, e)
<1>1. Queued \in Nat /\ Queued' \in Nat /\ Queued <= Queued'
  BY QueuedTyped
<1>2. IsRun(After, rend, WQ, rtRead, Queued) /\ IsRun(After', rend, WQ', rtRead, Queued')
  BY AfterIsRun
<1>3. Moved(WQ', rtRead, WQ, rtRead, 0, Queued)
  <2>1. ASSUME NEW j \in 0 .. Queued - 1
        PROVE  WQ'[(rtRead + j) % WQ_Size] = WQ[(rtRead + (0 + j)) % WQ_Size]
    <3>1. 0 + j = j
      OBVIOUS
    <3> QED BY <3>1 DEF Entry
  <2> QED BY <2>1 DEF Moved
<1>4. \A i \in 0..Queued : After'[i] = After[i]
  BY <1>1, <1>2, <1>3, RunKept
<1>5. After'[Queued + 1] = Executed(After'[Queued], e)
  <2>1. Queued \in 0 .. Queued' - 1
    BY <1>1
  <2> QED BY <1>1, <1>2, <2>1, RunEquations
<1>6. After'[Queued] = After[Queued]
  BY <1>1, <1>4
<1> QED BY <1>4, <1>5, <1>6 DEF Eventual

(* One entry less.                                                          *)
LEMMA AfterDropped ==
  ASSUME Types, Types', rend' = Executed(rend, WQ[rtRead]), Queued > 0,
         Queued' = Queued - 1,
         \A i \in 0 .. Queued' - 1 : Entry(i)' = Entry(1 + i)
  PROVE  /\ \A i \in 0..Queued' : After'[i] = After[1 + i]
         /\ Eventual' = Eventual
<1>1. Queued \in Nat /\ Queued' \in Nat /\ Queued' = Queued - 1 /\ rtRead \in Positions
  BY QueuedTyped DEF Types
<1>2. IsRun(After, rend, WQ, rtRead, Queued) /\ IsRun(After', rend', WQ', rtRead', Queued')
  BY AfterIsRun
<1>3. rend' = After[1]
  <2>1. 0 \in 0 .. Queued - 1
    BY <1>1
  <2>2. After[0 + 1] = Executed(After[0], WQ[(rtRead + 0) % WQ_Size]) /\ After[0] = rend
    BY <1>1, <1>2, <2>1, RunEquations
  <2>3. (rtRead + 0) % WQ_Size = rtRead
    <3>1. WQ_Size \in Nat /\ WQ_Size > 1
      BY RingAssumption
    <3>2. PICK z \in 0 .. WQ_Size - 1 : z = 0
      BY <3>1
    <3>3. (rtRead + z) % WQ_Size = IF rtRead + z < WQ_Size THEN rtRead + z
                                   ELSE rtRead + z - WQ_Size
      BY <1>1, <3>2, RingPlaces
    <3> QED BY <1>1, <3>1, <3>2, <3>3 DEF Positions
  <2> QED BY <2>2, <2>3
<1>4. Moved(WQ', rtRead', WQ, rtRead, 1, Queued')
  BY DEF Entry, Moved
<1>5. \A i \in 0..Queued' : After'[i] = After[1 + i]
  <2>1. IsRun(After', After[1], WQ', rtRead', Queued')
    BY <1>2, <1>3
  <2> QED BY <1>1, <1>2, <1>4, <2>1, RunDropped
<1>6. After'[Queued'] = After[1 + Queued'] /\ 1 + Queued' = Queued
  BY <1>1, <1>5
<1> QED BY <1>5, <1>6 DEF Eventual

(* The frame's description is changed under the queue, which draws nothing. *)
LEMMA Retagged ==
  ASSUME NEW r \in Renderers, NEW e \in Commands, ~Draws(e), NEW d \in Specs
  PROVE  Executed([r EXCEPT !.es = d], e) = [Executed(r, e) EXCEPT !.es = d]
<1>1. PICK t \in Renderers : t = [r EXCEPT !.es = d]
  BY DEF Renderers
<1>2. /\ t.reg = r.reg /\ t.sprites = r.sprites /\ t.LineTarget = r.LineTarget
      /\ t.es = d /\ t.picture = r.picture
  BY <1>1 DEF Renderers
<1>3. Legal(r, e) /\ Legal(t, e) /\ e.cmd # "render" /\ e # VBlankCmd(FALSE)
  BY DEF Legal, Draws
<1>4. PICK x \in Renderers : x = Executed(r, e)
  BY <1>3, ExecutedFields
<1>5. PICK y \in Renderers : y = Executed(t, e)
  BY <1>3, ExecutedFields
<1>6. /\ x.reg = (IF e.cmd = "write" THEN e.arg ELSE r.reg)
      /\ x.sprites = (IF e.cmd = "fetch" THEN e.arg ELSE r.sprites)
      /\ x.LineTarget = (IF e.cmd = "target" THEN 0 ELSE r.LineTarget)
      /\ x.picture = r.picture
  BY <1>3, <1>4, ExecutedFields
<1>7. /\ y.reg = (IF e.cmd = "write" THEN e.arg ELSE t.reg)
      /\ y.sprites = (IF e.cmd = "fetch" THEN e.arg ELSE t.sprites)
      /\ y.LineTarget = (IF e.cmd = "target" THEN 0 ELSE t.LineTarget)
      /\ y.picture = t.picture /\ y.es = t.es
  BY <1>3, <1>5, ExecutedFields
<1>8. y = [x EXCEPT !.es = d]
  BY <1>2, <1>6, <1>7 DEF Renderers
<1> QED BY <1>1, <1>4, <1>5, <1>8

LEMMA AfterRetagged ==
  ASSUME Types, Types', QueueLegal, Undrawn, frame = "tmp", rtRead' = rtRead,
         WritePos' = WritePos, WQ' = WQ,
         NEW d \in Specs, rend' = [rend EXCEPT !.es = d]
  PROVE  /\ Queued' = Queued
         /\ \A i \in 0..Queued : After'[i] = [After[i] EXCEPT !.es = d]
<1> DEFINE S == {i \in 0..Queued : After'[i] # [After[i] EXCEPT !.es = d]}
<1>1. Queued \in Nat /\ Queued' = Queued /\ rtRead \in Nat
  BY QueuedTyped DEF Queued
<1>2. SUFFICES ASSUME S # {} PROVE FALSE
  BY <1>1
<1>3. PICK j \in S : \A i \in S : j <= i
  <2>1. S \subseteq Nat
    BY <1>1
  <2> QED BY <1>2, <2>1, Least
<1>4. j # 0
  BY AfterEmpty
<1>5. PICK i \in 0 .. Queued - 1 : j = i + 1 /\ i \notin S /\ i \in 0..Queued
  <2>1. j - 1 \in 0 .. Queued - 1 /\ j = (j - 1) + 1 /\ ~(j <= j - 1)
    BY <1>1, <1>3, <1>4
  <2>2. j - 1 \notin S /\ j - 1 \in 0..Queued
    BY <1>1, <1>3, <2>1
  <2> QED BY <2>1, <2>2
<1>6. After'[i] = [After[i] EXCEPT !.es = d]
  BY <1>5
<1>7. After[i + 1] = Executed(After[i], Entry(i)) /\ After'[i + 1] = Executed(After'[i], Entry(i))
  BY <1>1, <1>5, AfterIsRun, RunEquations DEF Entry
<1>8. After[i] \in Renderers /\ Entry(i) \in Commands /\ ~Draws(Entry(i))
  <2>1. i \in 0 .. WQ_Size - 1
    <3>1. WQ_Size \in Nat /\ Queued \in 0 .. WQ_Size - 1 /\ i \in 0 .. Queued - 1
      BY <1>5, QueuedTyped, RingAssumption
    <3> QED BY <3>1
  <2>2. (rtRead + i) % WQ_Size \in Positions
    BY <2>1, RingPlaces DEF Types
  <2> QED BY <1>5, <2>2 DEF QueueLegal, Undrawn, Entry, Types
<1>9. After'[i + 1] = [After[i + 1] EXCEPT !.es = d]
  BY <1>6, <1>7, <1>8, Retagged
<1> QED BY <1>3, <1>5, <1>9
-----------------------------------------------------------------------------
LEMMA Neutral ==
  ASSUME NEW r PROVE Executed(r, NoCmd) = r
  BY DEF Executed, NoCmd, Cmd

LEMMA BlankIsPicture == Blank \in [Rows -> PixelSet]
  BY ScreenAssumption DEF Blank, Stale, Pixels, PixelSet, SpriteLines, Specs

LEMMA CommandKinds ==
  /\ {NoCmd, TargetCmd, ExitCmd, VBlankCmd(TRUE), VBlankCmd(FALSE)} \subseteq Commands
  /\ \A v \in Values : WriteCmd(v) \in Commands
  /\ \A l \in {0} \cup Drawable : FetchCmd(l) \in Commands
  /\ \A l \in Drawable : RenderCmd(l) \in Commands
  BY DEF Commands

LEMMA PPUInitInv == Init => PPUInv
<1> SUFFICES ASSUME Init PROVE PPUInv
  OBVIOUS
<1>1. WQ_Size \in Nat /\ WQ_Size > 1 /\ Height \in Nat /\ Height > 0
  BY RingAssumption, ScreenAssumption
<1>2. 0 \in Positions
  BY <1>1 DEF Positions
<1>3. Types
  <2>1. SpecEx \in BOOLEAN /\ VBlank \in BOOLEAN /\ SkipFrame \in BOOLEAN
    BY Zenon DEF Init
  <2>2. hand \in Commands /\ WQ \in [Positions -> Commands]
    BY CommandKinds DEF Init, Positions
  <2>3. saved \in [reg : Values \cup {None}, scanline : 0..LastLine, VBlank : BOOLEAN]
    BY <1>1 DEF Init, NotSaved, LastLine
  <2> QED BY <1>1, <1>2, <2>1, <2>2, <2>3 DEF Init, Types, Specs, LastLine
<1>4. Dist(0, 0) = 0
  BY <1>2, Distances
<1>5. RingInv
  BY <1>4 DEF Init, RingInv, Ordered
<1>6. Queued = 0 /\ Eventual = rend
  BY <1>3, <1>4, AfterEmpty DEF Init, Queued, Dist, Eventual
<1>7. rend \in Renderers
  BY <1>1, BlankIsPicture DEF Init, Renderers, SpriteLines, Specs
<1>8. ExitInv /\ QueueInv
  BY <1>3, <1>6, <1>7, AfterEmpty DEF Init, ExitInv, QueueInv, QueueLegal, Undrawn
<1>9. CallInv /\ LineInv
  BY <1>1 DEF Init, CallInv, LineInv, InCommand, Step, NoCmd, Cmd, NotSaved,
     Drawable, LastLine
<1>10. MeantInv
  <2>1. Pending = NoCmd
    BY DEF Init, Pending
  <2>2. Meant = rend
    BY <1>6, <2>1, Neutral DEF Meant
  <2>3. Meant.reg = raw /\ scanline \notin Drawable
    BY <1>1, <2>2 DEF Init, Drawable, LastLine
  <2> QED BY <2>1, <2>3 DEF MeantInv, Legal, NoCmd, Cmd
<1> QED BY <1>3, <1>5, <1>8, <1>9, <1>10 DEF PPUInv
-----------------------------------------------------------------------------
(* How WWQ() goes on.                                                       *)
LEMMA AdvanceTypes ==
  ASSUME PPUInv, Advance
  PROVE  /\ WritePos' \in Positions
         /\ emu' \in {"run", "line1", "ended", "join", "publish"}
         /\ hand' \in Commands /\ ret' \in {"run", "line1", "ended", "join"}
<1>1. WritePos' \in Positions
  BY RingAssumption, NextPlaces, NextPlace DEF PPUInv, Types, Advance, NextPos, Positions
<1> QED BY <1>1, CommandKinds DEF PPUInv, Types, Advance, Go

LEMMA TypesNext ==
  ASSUME PPUInv, [Next]_vars PROVE Types'
<1> USE DEF PPUInv, Types, settings, call, line, machine, published, ring, thread,
            emulation, Go, Call
<1>1. CASE Put
  <2>1. WQ' \in [Positions -> Commands]
    BY <1>1 DEF Put
  <2>2. CASE NextPos = ReadPos
    BY <1>1, <2>1, <2>2 DEF Put
  <2>3. CASE NextPos # ReadPos
    BY <1>1, <2>1, <2>3, AdvanceTypes DEF Put
  <2> QED BY <2>2, <2>3
<1>2. CASE Room
  BY <1>2, AdvanceTypes DEF Room
<1>3. CASE Publish
  BY <1>3 DEF Publish
<1>4. CASE Refresh
  BY <1>4, CommandKinds DEF Refresh
<1>5. CASE Write
  BY <1>5, CommandKinds DEF Write
<1>6. CASE LineBegins
  <2>1. scanline' \in 0..LastLine /\ VBlank' \in BOOLEAN
    <3>1. VBlank' \in BOOLEAN
      BY <1>6, Zenon DEF LineBegins
    <3>2. PICK m \in Nat : m = LastLine + 1 /\ m > 0
      BY ScreenAssumption DEF LastLine
    <3>3. scanline' \in 0 .. m - 1
      BY <1>6, <3>2, Modulo DEF LineBegins
    <3> QED BY <3>1, <3>2, <3>3, ScreenAssumption DEF LastLine
  <2>2. hand' \in Commands /\ emu' \in {"run", "put", "ended"} /\ ret' \in {"run", "ended", ret}
    BY <1>6, CommandKinds DEF LineBegins
  <2> QED BY <1>6, <2>1, <2>2 DEF LineBegins
<1>7. CASE FirstLine
  <2>1. SkipFrame' \in BOOLEAN
    <3>1. SkipFrame' \in FrameSkip \cup {TRUE}
      BY <1>7, Zenon DEF FirstLine
    <3> QED BY <3>1, RingAssumption, Zenon
  <2>2. hand' \in Commands
    BY <1>7, CommandKinds DEF FirstLine
  <2> QED BY <1>7, <2>1, <2>2 DEF FirstLine
<1>8. CASE LinePicture
  BY <1>8, CommandKinds DEF LinePicture
<1>9. CASE LineEnds
  <2>1. ~VBlank => scanline \in {0} \cup Drawable
    BY <1>9, ScreenAssumption DEF LineEnds, LineInv, Drawable, LastLine
  <2> QED BY <1>9, <2>1, CommandKinds DEF LineEnds
<1>10. CASE Emulate
  BY <1>10 DEF Emulate, Specs
<1>11. CASE Ahead
  <2>1. saved' \in [reg : Values \cup {None}, scanline : 0..LastLine, VBlank : BOOLEAN]
    BY <1>11 DEF Ahead
  <2> QED BY <1>11, <2>1 DEF Ahead, Specs
<1>12. CASE PPU_SyncMT
  BY <1>12 DEF PPU_SyncMT
<1>13. CASE Synced
  <2>1. saved' \in [reg : Values \cup {None}, scanline : 0..LastLine, VBlank : BOOLEAN]
    BY <1>13, ScreenAssumption DEF Synced, NotSaved, LastLine
  <2>2. CASE SpecEx
    <3>1. saved.reg \in Values
      BY <1>13, <2>2 DEF Synced, CallInv
    <3>2. VBlank' \in BOOLEAN
      BY <1>13, <2>2 DEF Synced, Load
    <3> QED BY <1>13, <2>1, <2>2, <3>1, <3>2 DEF Synced, Load, Specs
  <2>3. CASE ~SpecEx
    BY <1>13, <2>1, <2>3 DEF Synced, Specs
  <2> QED BY <2>2, <2>3
<1>14. CASE LoadState
  <2>1. VBlank' \in BOOLEAN
    BY <1>14, Zenon DEF LoadState, Load
  <2>2. scanline' \in 0..LastLine
    BY <1>14, ScreenAssumption DEF LoadState, Load, LastLine
  <2> QED BY <1>14, <2>1, <2>2 DEF LoadState, Load
<1>15. CASE Reset
  <2>1. VBlank' \in BOOLEAN
    BY <1>15, Zenon DEF Reset
  <2>2. raw' \in Values /\ scanline' \in 0..LastLine
    BY <1>15, ScreenAssumption DEF Reset, LastLine
  <2> QED BY <1>15, <2>1, <2>2 DEF Reset
<1>16. CASE MTIF_Kill
  BY <1>16, CommandKinds DEF MTIF_Kill
<1>17. CASE Joined
  BY <1>17 DEF Joined
<1>18. CASE Store
  BY <1>18 DEF Store
<1>19. CASE Look
  BY <1>19 DEF Look
<1>20. CASE Execute
  <2>1. rtRead' \in Positions
    BY <1>20, RingAssumption, NextPlace DEF Execute, Positions
  <2>2. WQ' \in [Positions -> Commands]
    BY <1>20, CommandKinds DEF Execute
  <2> QED BY <1>20, <2>1, <2>2 DEF Execute
<1>21. CASE TimesOut \/ Terminated \/ UNCHANGED vars
  BY <1>21 DEF TimesOut, Terminated, vars
<1> QED BY <1>1, <1>2, <1>3, <1>4, <1>5, <1>6, <1>7, <1>8, <1>9, <1>10, <1>11, <1>12,
        <1>13, <1>14, <1>15, <1>16, <1>17, <1>18, <1>19, <1>20, <1>21
        DEF Next, EmuWaits, EmuCalls, EmuRuns, RenderThread

-----------------------------------------------------------------------------
(* The positions keep their order.                                          *)
LEMMA RingNext ==
  ASSUME PPUInv, [Next]_vars, Types' PROVE RingInv'
<1> USE DEF settings, call, line, machine, published, ring, thread, emulation, Go, Call
<1>1. /\ ReadPos \in Positions /\ TMP_ReadPos \in Positions /\ rtRead \in Positions
      /\ rtWrite \in Positions /\ TMP_WritePos \in Positions /\ WritePos \in Positions
  BY DEF PPUInv, Types
<1>2. Ordered(ReadPos, TMP_ReadPos, rtRead, rtWrite, TMP_WritePos, WritePos)
  BY DEF PPUInv, RingInv
<1>3. /\ Ordered(ReadPos, TMP_ReadPos, rtRead, rtWrite, WritePos, WritePos)
      /\ Ordered(TMP_ReadPos, TMP_ReadPos, rtRead, rtWrite, TMP_WritePos, WritePos)
      /\ Ordered(ReadPos, rtRead, rtRead, rtWrite, TMP_WritePos, WritePos)
      /\ rtRead = rtWrite =>
           Ordered(ReadPos, TMP_ReadPos, rtRead, TMP_WritePos, TMP_WritePos, WritePos)
      /\ TMP_ReadPos = WritePos =>
           /\ Ordered(WritePos, WritePos, WritePos, WritePos, WritePos, WritePos)
           /\ rtRead = WritePos /\ rtWrite = WritePos /\ TMP_WritePos = WritePos
  BY <1>1, <1>2, Positioned, SMTT(40)
<1>4. NextPos # ReadPos =>
        Ordered(ReadPos, TMP_ReadPos, rtRead, rtWrite, TMP_WritePos, NextPos)
  BY <1>1, <1>2, DistAdded DEF NextPos
<1>5. TMP_ReadPos = WritePos =>
        Ordered(WritePos, WritePos, WritePos, WritePos, WritePos, NextPos)
  <2>1. (WritePos + 1) % WQ_Size # WritePos
    BY <1>1, RingAssumption, NextPlace DEF Positions
  <2> QED BY <1>1, <1>3, <2>1, DistAdded DEF NextPos
<1>6. rtRead # rtWrite =>
        Ordered(ReadPos, TMP_ReadPos, (rtRead + 1) % WQ_Size, rtWrite, TMP_WritePos, WritePos)
  BY <1>1, <1>2, DistTaken
<1> USE DEF PPUInv, RingInv
<1>10. CASE Put
  <2>1. CASE NextPos = ReadPos
    <3>1. WQ'[WritePos] = hand
      BY <1>1, <1>10 DEF Put, Types
    <3> QED BY <1>2, <1>10, <2>1, <3>1 DEF Put
  <2>2. CASE NextPos # ReadPos
    <3>1. WritePos' = NextPos
      BY <1>10, <2>2 DEF Put, Advance
    <3>2. emu' \in {"publish", "run", "line1", "ended", "join"}
      BY <1>10, <2>2 DEF Put, Advance, Types
    <3> QED BY <1>4, <1>10, <2>2, <3>1, <3>2 DEF Put
  <2> QED BY <2>1, <2>2
<1>11. CASE Room
  <2>1. WritePos' = NextPos /\ TMP_ReadPos = WritePos
    BY <1>11 DEF Room, Advance
  <2>2. emu' \in {"publish", "run", "line1", "ended", "join"}
    BY <1>11 DEF Room, Advance, Types
  <2> QED BY <1>3, <1>5, <1>11, <2>1, <2>2 DEF Room
<1>12. CASE Publish
  BY <1>3, <1>12 DEF Publish
<1>13. CASE Refresh
  <2>1. emu' \in {"run", "line1", "ended", "join"}
    BY <1>13 DEF Refresh, Types
  <2> QED BY <1>3, <1>13, <2>1 DEF Refresh
<1>14. CASE Synced
  BY <1>3, <1>14 DEF Synced
<1>15. CASE Store
  <2>1. emu # "idle" \/ rtRead = WritePos
    BY <1>3
  <2> QED BY <1>3, <1>15, <2>1 DEF Store
<1>16. CASE Look
  <2>1. rtRead = rtWrite /\ rtRead # TMP_WritePos
    BY <1>16 DEF Look
  <2> QED BY <1>3, <1>16, <2>1 DEF Look
<1>17. CASE Execute
  <2>1. rtRead # rtWrite /\ rtRead' = (rtRead + 1) % WQ_Size
    BY <1>17 DEF Execute
  <2>2. rt' = "batch" <=> rtRead' # rtWrite
    BY <1>17 DEF Execute
  <2>3. emu \in {"full", "room"} => WQ'[WritePos] = hand
    <3>1. rtRead # WritePos
      <4>1. SUFFICES ASSUME rtRead = WritePos PROVE FALSE
        OBVIOUS
      <4>2. Dist(ReadPos, rtWrite) = Dist(ReadPos, rtRead)
        <5>1. /\ Dist(ReadPos, rtWrite) \in Int /\ Dist(ReadPos, TMP_WritePos) \in Int
              /\ Dist(ReadPos, rtRead) \in Int
          BY <1>1, Distances
        <5> QED BY <1>2, <4>1, <5>1 DEF Ordered
      <4>3. rtWrite = rtRead
        BY <1>1, <4>2, SameDistance
      <4> QED BY <2>1, <4>3
    <3> QED BY <1>1, <1>17, <3>1 DEF Execute, Types
  <2>4. emu # "idle"
    BY <1>3, <2>1
  <2> QED BY <1>6, <1>17, <2>1, <2>2, <2>3, <2>4 DEF Execute
<1>18. CASE LineBegins
  BY <1>2, <1>18 DEF LineBegins
<1>19. CASE Write \/ FirstLine \/ LinePicture \/ LineEnds
  <2>1. /\ UNCHANGED <<ring, thread>>
        /\ emu' \in {"run", "put", "line1", "ended"}
    BY <1>19 DEF Write, FirstLine, LinePicture, LineEnds
  <2> QED BY <1>2, <2>1
<1>20. CASE Emulate \/ Ahead \/ PPU_SyncMT
  BY <1>2, <1>20 DEF Emulate, Ahead, PPU_SyncMT
<1>21. CASE LoadState \/ Reset \/ MTIF_Kill \/ Joined
  BY <1>2, <1>21 DEF LoadState, Reset, MTIF_Kill, Joined
<1>22. CASE TimesOut \/ Terminated \/ UNCHANGED vars
  BY <1>2, <1>22 DEF TimesOut, Terminated, vars
<1> QED BY <1>10, <1>11, <1>12, <1>13, <1>14, <1>15, <1>16, <1>17, <1>18, <1>19,
        <1>20, <1>21, <1>22 DEF Next, EmuWaits, EmuCalls, EmuRuns, RenderThread

-----------------------------------------------------------------------------
(* The emulation's own state.                                               *)
LEMMA CallNext ==
  ASSUME PPUInv, [Next]_vars, Types' PROVE CallInv'
<1> USE DEF settings, call, line, machine, published, ring, thread, emulation, Go, Call,
            PPUInv, CallInv, InCommand, Step, NoCmd, Cmd
<1>1. CASE Put
  <2>1. CASE NextPos = ReadPos
    BY <1>1, <2>1 DEF Put
  <2>2. CASE NextPos # ReadPos
    BY <1>1, <2>2 DEF Put, Advance, Types
  <2> QED BY <2>1, <2>2
<1>2. CASE Room
  BY <1>2 DEF Room, Advance, Types
<1>3. CASE Publish
  BY <1>3 DEF Publish
<1>4. CASE Refresh
  BY <1>4 DEF Refresh, Types
<1>5. CASE Write
  BY <1>5 DEF Write, WriteCmd
<1>6. CASE LineBegins
  BY <1>6 DEF LineBegins, VBlankCmd
<1>7. CASE FirstLine
  BY <1>7 DEF FirstLine, TargetCmd
<1>8. CASE LinePicture
  BY <1>8 DEF LinePicture, RenderCmd
<1>9. CASE LineEnds
  BY <1>9 DEF LineEnds, FetchCmd
<1>10. CASE Emulate
  BY <1>10 DEF Emulate
<1>11. CASE Ahead
  BY <1>11 DEF Ahead, Types
<1>12. CASE PPU_SyncMT
  BY <1>12 DEF PPU_SyncMT
<1>13. CASE Synced
  BY <1>13 DEF Synced, Load
<1>14. CASE LoadState \/ Reset \/ MTIF_Kill \/ Joined
  BY <1>14 DEF LoadState, Reset, MTIF_Kill, Joined, ExitCmd
<1>15. CASE Store \/ Look \/ Execute
  BY <1>15 DEF Store, Look, Execute
<1>16. CASE TimesOut \/ Terminated \/ UNCHANGED vars
  BY <1>16 DEF TimesOut, Terminated, vars
<1> QED BY <1>1, <1>2, <1>3, <1>4, <1>5, <1>6, <1>7, <1>8, <1>9, <1>10, <1>11, <1>12,
        <1>13, <1>14, <1>15, <1>16 DEF Next, EmuWaits, EmuCalls, EmuRuns, RenderThread

LEMMA LineNext ==
  ASSUME PPUInv, [Next]_vars, Types' PROVE LineInv'
<1> USE DEF settings, call, line, machine, published, ring, thread, emulation, Go, Call,
            PPUInv, CallInv, InCommand, Step, LineInv
<1>0. Height \in Nat /\ Height > 0 /\ LastLine = Height + 1
  BY ScreenAssumption DEF LastLine
<1>1. CASE Put
  <2>1. CASE NextPos = ReadPos
    BY <1>1, <2>1 DEF Put
  <2>2. CASE NextPos # ReadPos
    BY <1>1, <2>2 DEF Put, Advance, Types
  <2> QED BY <2>1, <2>2
<1>2. CASE Room
  BY <1>2 DEF Room, Advance, Types
<1>3. CASE Publish
  BY <1>3 DEF Publish
<1>4. CASE Refresh
  BY <1>4 DEF Refresh, Types
<1>5. CASE Write
  BY <1>5 DEF Write, Types
<1>6. CASE LineBegins
  <2>1. PICK m \in Nat, s \in Nat : m = LastLine + 1 /\ s = scanline + 1 /\ m > 0 /\ s <= m
    BY <1>0 DEF Types
  <2>2. scanline' = IF s = m THEN 0 ELSE s
    BY <1>6, <2>1, Modulo DEF LineBegins
  <2>3. scanline' = IF scanline = LastLine THEN 0 ELSE scanline + 1
    BY <1>0, <2>1, <2>2 DEF Types
  <2> QED BY <1>0, <1>6, <2>3, ScreenAssumption DEF LineBegins, Types, Drawable
<1>7. CASE FirstLine
  BY <1>0, <1>7 DEF FirstLine, Types
<1>8. CASE LinePicture
  BY <1>0, <1>8 DEF LinePicture, Types
<1>9. CASE LineEnds
  BY <1>0, <1>9 DEF LineEnds, Types
<1>10. CASE Emulate
  BY <1>0, <1>10 DEF Emulate, Types
<1>11. CASE Ahead
  BY <1>0, <1>11 DEF Ahead, Types
<1>12. CASE PPU_SyncMT
  BY <1>0, <1>12 DEF PPU_SyncMT
<1>13. CASE Synced
  BY <1>0, <1>13 DEF Synced, Load, NotSaved, Types, Drawable
<1>14. CASE LoadState
  BY <1>0, <1>14 DEF LoadState, Load, Drawable
<1>15. CASE Reset
  BY <1>0, <1>15 DEF Reset, Drawable
<1>16. CASE MTIF_Kill \/ Joined
  BY <1>0, <1>16 DEF MTIF_Kill, Joined
<1>17. CASE Store \/ Look \/ Execute
  BY <1>17 DEF Store, Look, Execute
<1>18. CASE TimesOut \/ Terminated \/ UNCHANGED vars
  BY <1>18 DEF TimesOut, Terminated, vars
<1> QED BY <1>1, <1>2, <1>3, <1>4, <1>5, <1>6, <1>7, <1>8, <1>9, <1>10, <1>11, <1>12,
        <1>13, <1>14, <1>15, <1>16, <1>17, <1>18
        DEF Next, EmuWaits, EmuCalls, EmuRuns, RenderThread

-----------------------------------------------------------------------------
(* The queue, and what it leads to.                                         *)
LEMMA QueueFacts ==
  ASSUME PPUInv
  PROVE  /\ Queued \in 0 .. WQ_Size - 1 /\ Queued \in Nat /\ rtRead \in Nat
         /\ Eventual \in Renderers /\ Pending \in Commands /\ Legal(Eventual, Pending)
         /\ Meant \in Renderers
         /\ \A i \in 0 .. Queued - 1 : Entry(i) \in Commands
         /\ ~(emu \in {"put", "full", "room"}) => Meant = Eventual
<1>1. Types /\ WQ_Size \in Nat
  BY RingAssumption DEF PPUInv
<1>2. Queued \in 0 .. WQ_Size - 1 /\ rtRead \in Nat
  BY <1>1, QueuedTyped
<1>3. Eventual \in Renderers
  BY <1>2 DEF PPUInv, QueueInv, QueueLegal, Eventual
<1>4. Pending \in Commands
  BY <1>1, CommandKinds DEF Types, Pending
<1>5. Legal(Eventual, Pending)
  BY DEF PPUInv, MeantInv
<1>6. Meant \in Renderers
  BY <1>3, <1>4, <1>5, ExecutedFields DEF Meant
<1>7. ASSUME NEW i \in 0 .. Queued - 1 PROVE Entry(i) \in Commands
  <2>1. i \in 0 .. WQ_Size - 1
    BY <1>1, <1>2
  <2> QED BY <1>1, <2>1, RingPlaces DEF Types, Entry
<1>8. ~(emu \in {"put", "full", "room"}) => Meant = Eventual
  BY Neutral DEF Pending, Meant
<1> QED BY <1>1, <1>2, <1>3, <1>4, <1>5, <1>6, <1>7, <1>8

LEMMA StaysOut ==
  ASSUME PPUInv, [Next]_vars, Step \in {"join", "killed"} PROVE Step' \in {"join", "killed"}
<1> USE DEF settings, call, line, machine, published, ring, thread, emulation, Go, Call,
            Step, InCommand
<1>1. CASE Put \/ Room
  BY <1>1 DEF Put, Room, Advance
<1>2. CASE Publish \/ Refresh
  BY <1>2 DEF Publish, Refresh
<1>3. CASE Write \/ LineBegins \/ FirstLine \/ LinePicture \/ LineEnds
  BY <1>3 DEF Write, LineBegins, FirstLine, LinePicture, LineEnds
<1>4. CASE Emulate \/ Ahead \/ PPU_SyncMT \/ Synced \/ LoadState \/ Reset
  BY <1>4 DEF Emulate, Ahead, PPU_SyncMT, Synced, LoadState, Reset
<1>5. CASE MTIF_Kill \/ Joined
  BY <1>5 DEF MTIF_Kill, Joined
<1>6. CASE Store \/ Look \/ Execute \/ TimesOut \/ Terminated \/ UNCHANGED vars
  BY <1>6 DEF Store, Look, Execute, TimesOut, Terminated, vars
<1> QED BY <1>1, <1>2, <1>3, <1>4, <1>5, <1>6 DEF Next, EmuWaits, EmuCalls, EmuRuns, RenderThread

(* The ring and the renderer are left alone, up to entries that are not     *)
(* queued.                                                                  *)
LEMMA QueueStays ==
  ASSUME PPUInv, Types', [Next]_vars, rtRead' = rtRead, WritePos' = WritePos, rend' = rend,
         rt' # "exited" \/ rt = "exited",
         \A i \in 0 .. Queued - 1 : Entry(i)' = Entry(i)
  PROVE  /\ Queued' = Queued /\ Eventual' = Eventual
         /\ QueueLegal' /\ ExitInv'
<1>1. Queued' = Queued /\ Eventual' = Eventual /\ \A i \in 0..Queued : After'[i] = After[i]
  BY AfterSame DEF PPUInv
<1>2. QueueLegal'
  <2>1. QueueLegal
    BY DEF PPUInv, QueueInv
  <2>2. \A i \in 0 .. Queued - 1 : i \in 0..Queued
    BY QueueFacts
  <2>3. \A i \in 0..Queued' : After'[i] \in Renderers
    BY <1>1, <2>1 DEF QueueLegal
  <2>4. \A i \in 0 .. Queued' - 1 : Legal(After'[i], Entry(i)')
    BY <1>1, <2>1, <2>2 DEF QueueLegal
  <2> QED BY <2>3, <2>4 DEF QueueLegal, Legal
<1>3. ExitInv'
  BY <1>1, StaysOut DEF PPUInv, ExitInv
<1> QED BY <1>1, <1>2, <1>3

(* An entry is appended.                                                    *)
LEMMA QueueGrows ==
  ASSUME PPUInv, Types', [Next]_vars, rtRead' = rtRead, rend' = rend, rt' = rt,
         Queued' = Queued + 1, Pending = hand,
         emu \in {"put", "room"},
         \A i \in 0 .. Queued - 1 : Entry(i)' = Entry(i),
         WQ'[(rtRead + Queued) % WQ_Size] = hand
  PROVE  /\ Eventual' = Meant
         /\ QueueLegal' /\ ExitInv'
         /\ frame = "tmp" => \A i \in 0 .. Queued' - 1 : ~Draws(Entry(i))'
<1>1. /\ \A i \in 0..Queued : After'[i] = After[i]
      /\ Eventual' = Meant
  BY AfterAppended DEF PPUInv, Meant
<1>2. Queued \in Nat /\ Meant \in Renderers
  BY QueueFacts
<1> PICK n \in Nat : n = Queued
  BY <1>2
<1>3. Entry(n)' = hand
  BY DEF Entry
<1>4. /\ \A i \in 0 .. Queued' : i \in 0..Queued \/ i = Queued'
      /\ \A i \in 0 .. Queued' - 1 : i \in 0 .. Queued - 1 \/ i = n
      /\ \A i \in 0 .. Queued - 1 : i \in 0..Queued
      /\ Queued \in 0..Queued
  BY <1>2
<1>5. QueueLegal'
  <2>1. QueueLegal
    BY DEF PPUInv, QueueInv
  <2>2. \A i \in 0..Queued' : After'[i] \in Renderers
    BY <1>1, <1>2, <1>4, <2>1 DEF QueueLegal, Eventual
  <2>3. Legal(After'[n], Entry(n)')
    <3>1. After'[n] = Eventual /\ Legal(Eventual, hand)
      BY <1>1, <1>4, QueueFacts DEF Eventual
    <3> QED BY <1>3, <3>1
  <2>4. \A i \in 0 .. Queued' - 1 : Legal(After'[i], Entry(i)')
    BY <1>1, <1>4, <2>1, <2>3 DEF QueueLegal
  <2> QED BY <2>2, <2>4 DEF QueueLegal, Legal
<1>6. ExitInv'
  <2>1. hand.cmd = "exit" => Step \in {"join", "killed"}
    BY DEF PPUInv, CallInv, Step, InCommand
  <2> QED BY <1>3, <1>4, <2>1, StaysOut DEF PPUInv, ExitInv
<1>7. frame = "tmp" => \A i \in 0 .. Queued' - 1 : ~Draws(Entry(i))'
  BY <1>3, <1>4 DEF PPUInv, QueueInv, Undrawn, Draws
<1> QED BY <1>1, <1>5, <1>6, <1>7

LEMMA PlaceOf ==
  ASSUME NEW a \in Positions, NEW b \in Positions, NEW k \in 0 .. WQ_Size - 1
  PROVE  (a + k) % WQ_Size = b <=> k = Dist(a, b)
<1>1. WQ_Size \in Nat /\ WQ_Size > 1 /\ a \in 0 .. WQ_Size - 1 /\ b \in 0 .. WQ_Size - 1
  BY RingAssumption DEF Positions
<1>2. Dist(a, b) = (IF b >= a THEN b - a ELSE b - a + WQ_Size)
  BY Distances
<1>3. (a + k) % WQ_Size = (IF a + k < WQ_Size THEN a + k ELSE a + k - WQ_Size)
  BY RingPlaces
<1>4. CASE b >= a
  BY <1>1, <1>2, <1>3, <1>4
<1>5. CASE ~(b >= a)
  BY <1>1, <1>2, <1>3, <1>5
<1> QED BY <1>4, <1>5

(* An entry written at WritePos disturbs none that is queued, and is the    *)
(* next one once WritePos goes on.                                          *)
LEMMA Unqueued ==
  ASSUME Types
  PROVE  /\ (rtRead + Queued) % WQ_Size = WritePos
         /\ \A i \in 0 .. Queued - 1 : (rtRead + i) % WQ_Size # WritePos
<1>1. WQ_Size \in Nat /\ Queued \in 0 .. WQ_Size - 1 /\ Queued = Dist(rtRead, WritePos)
      /\ rtRead \in Positions /\ WritePos \in Positions
  BY RingAssumption, QueuedTyped DEF Types, Queued, Dist
<1>2. \A k \in 0 .. WQ_Size - 1 : (rtRead + k) % WQ_Size = WritePos <=> k = Queued
  BY <1>1, PlaceOf
<1>3. (rtRead + Queued) % WQ_Size = WritePos
  BY <1>1, <1>2
<1>4. ASSUME NEW i \in 0 .. Queued - 1 PROVE (rtRead + i) % WQ_Size # WritePos
  <2>1. i \in 0 .. WQ_Size - 1 /\ i # Queued
    BY <1>1
  <2> QED BY <1>2, <2>1
<1> QED BY <1>3, <1>4

(* The first one is executed.                                               *)
LEMMA QueueShrinks ==
  ASSUME PPUInv, Types', [Next]_vars, Execute
  PROVE  /\ Queued' = Queued - 1 /\ Eventual' = Eventual
         /\ QueueLegal' /\ ExitInv' /\ Undrawn'
<1>1. /\ ReadPos \in Positions /\ TMP_ReadPos \in Positions /\ rtRead \in Positions
      /\ rtWrite \in Positions /\ TMP_WritePos \in Positions /\ WritePos \in Positions
      /\ rtRead' \in Positions /\ rtRead' = (rtRead + 1) % WQ_Size
      /\ WritePos' = WritePos /\ WQ_Size \in Nat /\ WQ_Size > 1
  BY RingAssumption DEF PPUInv, Types, Execute
<1>2. Queued > 0 /\ Queued' = Queued - 1 /\ Queued \in 0 .. WQ_Size - 1
  <2>1. rtRead # rtWrite
    BY DEF PPUInv, RingInv, Execute
  <2>2. Ordered(ReadPos, TMP_ReadPos, rtRead, rtWrite, TMP_WritePos, WritePos)
    BY DEF PPUInv, RingInv
  <2>5. Dist(rtRead, WritePos) > 0 /\ Dist(rtRead', WritePos) = Dist(rtRead, WritePos) - 1
    BY <1>1, <2>1, <2>2, DistTaken, SMTT(40)
  <2>4. Queued' = Dist(rtRead', WritePos') /\ Queued = Dist(rtRead, WritePos)
    BY DEF Queued, Dist
  <2> QED BY <1>1, <2>4, <2>5, QueueFacts
<1>3. ASSUME NEW i \in 0 .. Queued' - 1 PROVE Entry(i)' = Entry(1 + i)
  <2>1. i \in 0 .. WQ_Size - 2 /\ 1 + i \in 0 .. WQ_Size - 1
    BY <1>1, <1>2
  <2>2. (rtRead' + i) % WQ_Size = (rtRead + (1 + i)) % WQ_Size
    BY <1>1, <2>1, NextPlaces
  <2>3. (rtRead + (1 + i)) % WQ_Size \in Positions
    BY <1>1, <2>1, RingPlaces
  <2>4. (rtRead + (1 + i)) % WQ_Size # rtRead
    <3>1. Dist(rtRead, rtRead) = 0
      BY <1>1, Distances DEF Positions
    <3>2. PICK k \in 0 .. WQ_Size - 1 : k = 1 + i /\ k # 0
      BY <2>1
    <3> QED BY <1>1, <3>1, <3>2, PlaceOf
  <2> QED BY <2>2, <2>3, <2>4 DEF Entry, Execute, PPUInv, Types
<1>4. Entry(0) = WQ[rtRead] /\ 0 \in 0 .. Queued - 1
  <2>1. Dist(rtRead, rtRead) = 0 /\ 0 \in 0 .. WQ_Size - 1
    BY <1>1, Distances DEF Positions
  <2>2. (rtRead + 0) % WQ_Size = rtRead
    BY <1>1, <2>1, PlaceOf
  <2> QED BY <1>2, <2>2 DEF Entry
<1>5. /\ \A i \in 0..Queued' : After'[i] = After[1 + i]
      /\ Eventual' = Eventual
  BY <1>2, <1>3, AfterDropped DEF PPUInv, Execute
<1>6. /\ \A i \in 0..Queued' : 1 + i \in 0..Queued
      /\ \A i \in 0 .. Queued' - 1 : i \in 0..Queued' /\ 1 + i \in 0 .. Queued - 1
  BY <1>2
<1>7. QueueLegal'
  <2>1. QueueLegal
    BY DEF PPUInv, QueueInv
  <2>2. \A i \in 0..Queued' : After'[i] \in Renderers
    BY <1>5, <1>6, <2>1 DEF QueueLegal
  <2>3. \A i \in 0 .. Queued' - 1 : Legal(After'[i], Entry(i)')
    BY <1>3, <1>5, <1>6, <2>1 DEF QueueLegal
  <2> QED BY <2>2, <2>3 DEF QueueLegal, Legal
<1>8. ExitInv'
  <2>1. rt' = "exited" => Step \in {"join", "killed"}
    BY <1>4 DEF Execute, PPUInv, ExitInv
  <2>2. \A i \in 0 .. Queued' - 1 : Entry(i)'.cmd = "exit" => Step \in {"join", "killed"}
    BY <1>3, <1>6 DEF PPUInv, ExitInv
  <2> QED BY <2>1, <2>2, StaysOut DEF ExitInv
<1>9. Undrawn'
  <2>1. frame' = frame /\ hand' = hand
    BY DEF Execute, emulation, call
  <2> QED BY <1>3, <1>6, <2>1 DEF PPUInv, QueueInv, Undrawn, Draws
<1> QED BY <1>2, <1>5, <1>7, <1>8, <1>9

(* Nothing is queued: the renderer's state may be replaced.                 *)
LEMMA QueueReplaced ==
  ASSUME PPUInv, Types', [Next]_vars, emu \in {"idle", "drain"}, TMP_ReadPos = WritePos,
         WritePos' = WritePos, rtRead' = rtRead, rt' = rt, rend' \in Renderers,
         ~Draws(hand')
  PROVE  /\ Eventual = rend /\ Eventual' = rend'
         /\ QueueLegal' /\ ExitInv' /\ Undrawn'
<1>1. /\ ReadPos \in Positions /\ TMP_ReadPos \in Positions /\ rtRead \in Positions
      /\ rtWrite \in Positions /\ TMP_WritePos \in Positions /\ WritePos \in Positions
  BY DEF PPUInv, Types
<1>2. rtRead = WritePos
  BY <1>1, Positioned DEF PPUInv, RingInv
<1>3. Queued = 0 /\ Queued' = 0
  <2>1. Dist(WritePos, WritePos) = 0
    BY <1>1, Distances DEF Positions
  <2>2. Queued' = Dist(rtRead', WritePos') /\ Queued = Dist(rtRead, WritePos)
    BY DEF Queued, Dist
  <2> QED BY <1>2, <2>1, <2>2
<1>4. Eventual = rend /\ Eventual' = rend' /\ After'[0] = rend'
  BY <1>3, AfterEmpty DEF Eventual, PPUInv
<1>5. QueueLegal' /\ Undrawn'
  BY <1>3, <1>4 DEF QueueLegal, Undrawn
<1>6. ExitInv'
  BY <1>3, StaysOut DEF PPUInv, ExitInv
<1> QED BY <1>3, <1>4, <1>5, <1>6

-----------------------------------------------------------------------------
(* What the lines of the picture require.                                   *)
LineMeant ==
  ~VBlank /\ ~SkipFrame /\ scanline \in Drawable =>
    IF LinePhase = 1
    THEN scanline # 1 \/ Step = "line1" => Meant.LineTarget = scanline - 1
    ELSE Meant.LineTarget = scanline

(* The steps that do not touch the ring.                                    *)
Calm == Write \/ LineBegins \/ FirstLine \/ LinePicture \/ LineEnds
        \/ PPU_SyncMT \/ MTIF_Kill \/ Joined
LEMMA CalmQueue ==
  ASSUME PPUInv, Types', [Next]_vars, Calm
  PROVE  Queued' = Queued /\ Eventual' = Eventual /\ QueueLegal' /\ ExitInv' /\ Undrawn'
<1> USE DEF settings, call, line, machine, published, ring, thread, emulation, Go, Call
<1>1. UNCHANGED <<ring, thread, rend, frame>>
  BY DEF Calm, Write, LineBegins, FirstLine, LinePicture, LineEnds, PPU_SyncMT,
     MTIF_Kill, Joined
<1>2. \A i \in 0 .. Queued - 1 : Entry(i)' = Entry(i)
  BY <1>1 DEF Entry
<1>3. Queued' = Queued /\ Eventual' = Eventual /\ QueueLegal' /\ ExitInv'
  BY <1>1, <1>2, QueueStays
<1>4. frame = "tmp" => ~Draws(hand')
  <2> USE DEF PPUInv, QueueInv, Undrawn, LineInv, InCommand, Step, Draws, VBlankCmd, Cmd
  <2>1. CASE LineBegins
    <3>1. Height \in Nat /\ MinHeight >= 1 /\ LastLine = Height + 1 /\ scanline \in 0..LastLine
      BY ScreenAssumption DEF PPUInv, Types, LastLine
    <3>2. scanline' = IF scanline = LastLine THEN 0 ELSE scanline + 1
      <4>1. PICK m \in Nat, s \in Nat : m = LastLine + 1 /\ s = scanline + 1 /\ m > 0 /\ s <= m
        BY <3>1
      <4>2. scanline' = IF s = m THEN 0 ELSE s
        BY <2>1, <4>1, Modulo DEF LineBegins
      <4> QED BY <3>1, <4>1, <4>2
    <3>3. hand' = hand \/ (scanline' > MinHeight /\ ~VBlank /\ hand' = VBlankCmd(SkipFrame))
      BY <2>1 DEF LineBegins
    <3>4. scanline' > MinHeight /\ ~VBlank /\ frame = "tmp" => SkipFrame
      <4>1. scanline' > MinHeight => scanline \in Drawable
        BY <3>1, <3>2, ScreenAssumption DEF Drawable
      <4> QED BY <2>1, <4>1 DEF LineBegins
    <3> QED BY <3>3, <3>4
  <2>2. CASE Write
    BY <2>2 DEF Write, WriteCmd
  <2>3. CASE FirstLine
    BY <2>3 DEF FirstLine, TargetCmd
  <2>4. CASE LinePicture
    BY <2>4 DEF LinePicture, RenderCmd
  <2>5. CASE LineEnds
    BY <2>5 DEF LineEnds, FetchCmd
  <2>6. CASE PPU_SyncMT \/ MTIF_Kill \/ Joined
    BY <2>6 DEF PPU_SyncMT, MTIF_Kill, Joined, ExitCmd
  <2> QED BY <2>1, <2>2, <2>3, <2>4, <2>5, <2>6 DEF Calm
<1>5. Undrawn'
  BY <1>1, <1>2, <1>3, <1>4 DEF PPUInv, QueueInv, Undrawn, Draws
<1> QED BY <1>3, <1>5

LEMMA CalmMeant ==
  ASSUME PPUInv, Types', [Next]_vars, Calm PROVE MeantInv'
<1> USE DEF settings, call, line, machine, published, ring, thread, emulation, Go, Call
<1>1. Eventual' = Eventual /\ Eventual \in Renderers
  BY CalmQueue, QueueFacts
<1>2. emu \in {"run", "line1", "ended", "idle", "join"} /\ Eventual = Meant
      /\ Meant.reg = raw /\ LineMeant /\ Step = emu
  <2>1. emu \in {"run", "line1", "ended", "idle", "join"}
    BY DEF Calm, Write, LineBegins, FirstLine, LinePicture, LineEnds, PPU_SyncMT,
       MTIF_Kill, Joined
  <2> QED BY <2>1, QueueFacts DEF PPUInv, MeantInv, LineMeant, Step, InCommand
<1>3. ASSUME NEW e \in Commands, Pending' = e, Legal(Eventual, e)
      PROVE  /\ Legal(Eventual, Pending)'
             /\ Meant'.reg = IF e.cmd = "write" THEN e.arg ELSE raw
             /\ Meant'.LineTarget =
                  IF e.cmd = "target" THEN 0
                  ELSE IF e.cmd = "render" THEN e.arg
                  ELSE IF e = VBlankCmd(FALSE) THEN Height
                  ELSE Eventual.LineTarget
  <2>1. Legal(Eventual, Pending)'
    BY <1>1, <1>3 DEF Legal
  <2>2. Meant' = Executed(Eventual, e)
    BY <1>1, <1>3 DEF Meant
  <2> QED BY <1>1, <1>2, <1>3, <2>1, <2>2, ExecutedFields
<1>4. ASSUME Pending' = NoCmd
      PROVE  /\ Legal(Eventual, Pending)' /\ Meant'.reg = raw
             /\ Meant'.LineTarget = Eventual.LineTarget
  BY <1>1, <1>2, <1>4, Neutral DEF Meant, Legal, NoCmd, Cmd
<1>5. Height \in Nat /\ Height > 0 /\ LastLine = Height + 1
  BY ScreenAssumption DEF LastLine
<1>6. CASE Write
  <2>1. PICK v \in Values : raw' = v /\ Call(WriteCmd(v), emu)
    BY <1>6 DEF Write
  <2>2. Pending' = WriteCmd(v) /\ WriteCmd(v) \in Commands /\ Legal(Eventual, WriteCmd(v))
    BY <2>1, CommandKinds DEF Pending, Legal, WriteCmd, Cmd
  <2>3. WriteCmd(v).cmd = "write" /\ WriteCmd(v).arg = v
    BY DEF WriteCmd, Cmd
  <2>4. Legal(Eventual, Pending)' /\ Meant'.reg = v
        /\ (WriteCmd(v) # VBlankCmd(FALSE) => Meant'.LineTarget = Eventual.LineTarget)
    BY <1>3, <2>2, <2>3
  <2>5. WriteCmd(v) # VBlankCmd(FALSE)
    BY DEF WriteCmd, VBlankCmd, Cmd
  <2>6. Step' = Step /\ UNCHANGED line
    BY <1>2, <1>6, <2>1 DEF Write, Step, InCommand
  <2> QED BY <1>2, <2>1, <2>4, <2>5, <2>6 DEF MeantInv, LineMeant
<1>7. CASE LineBegins
  <2>1. Pending' = NoCmd \/ (Pending' = VBlankCmd(SkipFrame) /\ VBlank')
    BY <1>2, <1>7 DEF LineBegins, Pending
  <2>2. SkipFrame \in BOOLEAN
    BY DEF PPUInv, Types
  <2>3. Legal(Eventual, Pending)' /\ Meant'.reg = raw
        /\ (~VBlank' => Meant'.LineTarget = Eventual.LineTarget)
    <3>1. CASE Pending' = NoCmd
      BY <1>4, <3>1
    <3>2. CASE Pending' = VBlankCmd(SkipFrame) /\ VBlank'
      <4>1. VBlankCmd(SkipFrame) \in Commands /\ VBlankCmd(SkipFrame).cmd = "vblank"
        BY <2>2, CommandKinds DEF VBlankCmd, Cmd
      <4>2. Legal(Eventual, VBlankCmd(SkipFrame))
        BY <4>1 DEF Legal
      <4> QED BY <1>3, <3>2, <4>1, <4>2
    <3> QED BY <2>1, <3>1, <3>2
  <2>4. scanline' = IF scanline = LastLine THEN 0 ELSE scanline + 1
    <3>1. PICK m \in Nat, s \in Nat : m = LastLine + 1 /\ s = scanline + 1 /\ m > 0 /\ s <= m
      BY <1>5 DEF PPUInv, Types
    <3>2. scanline' = IF s = m THEN 0 ELSE s
      BY <1>7, <3>1, Modulo DEF LineBegins
    <3> QED BY <1>5, <3>1, <3>2 DEF PPUInv, Types
  <2>5. raw' = raw /\ LinePhase = 0 /\ LinePhase' = 1 /\ SkipFrame' = SkipFrame /\ emu = "run"
    BY <1>7 DEF LineBegins
  <2>6. ~VBlank' /\ scanline' \in Drawable => ~VBlank /\ Step' = "run"
    BY <1>5, <1>7, <2>4, ScreenAssumption DEF LineBegins, Drawable, Step, InCommand
  <2>7. scanline' \in Drawable /\ scanline' # 1 => scanline \in Drawable /\ scanline' = scanline + 1
    BY <1>5, <2>4 DEF Drawable, PPUInv, Types
  <2>8. LineMeant'
    BY <1>2, <2>3, <2>5, <2>6, <2>7 DEF LineMeant, Drawable
  <2> QED BY <2>3, <2>5, <2>8 DEF MeantInv, LineMeant
<1>8. CASE FirstLine
  <2>1. CASE SkipFrame'
    <3>1. Pending' = NoCmd
      BY <1>2, <1>8, <2>1 DEF FirstLine, Pending
    <3> QED BY <1>4, <1>8, <2>1, <3>1 DEF FirstLine, MeantInv
  <2>2. CASE ~SkipFrame'
    <3>1. Pending' = TargetCmd /\ Step' = "line1"
      BY <1>8, <2>2 DEF FirstLine, Pending, Step, InCommand
    <3>2. TargetCmd \in Commands /\ Legal(Eventual, TargetCmd) /\ TargetCmd.cmd = "target"
      BY CommandKinds DEF TargetCmd, Cmd, Legal
    <3>3. Legal(Eventual, Pending)' /\ Meant'.reg = raw /\ Meant'.LineTarget = 0
      BY <1>3, <3>1, <3>2
    <3>4. raw' = raw /\ scanline' = 1 /\ LinePhase' = 1
      BY <1>8, <2>2 DEF FirstLine
    <3> QED BY <3>3, <3>4 DEF MeantInv
  <2> QED BY <2>1, <2>2
<1>9. CASE LinePicture
  <2>1. UNCHANGED <<scanline, VBlank, SkipFrame, raw>> /\ LinePhase' = 3
    BY <1>9 DEF LinePicture
  <2>2. CASE ~VBlank /\ scanline \in Drawable /\ ~SkipFrame
    <3>1. Pending' = RenderCmd(scanline) /\ RenderCmd(scanline).cmd = "render"
          /\ RenderCmd(scanline).arg = scanline
      BY <1>9, <2>2 DEF LinePicture, Pending, RenderCmd, Cmd
    <3>2. Meant.LineTarget = scanline - 1
      BY <1>2, <1>9, <2>2 DEF LinePicture, LineMeant, PPUInv, LineInv
    <3>3. Legal(Eventual, RenderCmd(scanline)) /\ RenderCmd(scanline) \in Commands
      <4>1. (scanline - 1) + 1 = scanline
        BY <2>2 DEF Drawable
      <4> QED BY <1>2, <2>2, <3>1, <3>2, <4>1, CommandKinds DEF Legal
    <3>4. Legal(Eventual, Pending)' /\ Meant'.reg = raw /\ Meant'.LineTarget = scanline
      BY <1>3, <3>1, <3>3
    <3> QED BY <2>1, <3>4 DEF MeantInv
  <2>3. CASE ~(~VBlank /\ scanline \in Drawable /\ ~SkipFrame)
    <3>1. Pending' = NoCmd
      BY <1>9, <2>3 DEF LinePicture, Pending
    <3> QED BY <1>4, <2>1, <2>3, <3>1 DEF MeantInv
  <2> QED BY <2>2, <2>3
<1>10. CASE LineEnds
  <2>1. UNCHANGED <<scanline, VBlank, SkipFrame, raw>> /\ LinePhase = 3 /\ LinePhase' = 0
    BY <1>10 DEF LineEnds
  <2>2. Legal(Eventual, Pending)' /\ Meant'.reg = raw /\ Meant'.LineTarget = Eventual.LineTarget
    <3>1. CASE ~VBlank /\ ~SkipFrame
      <4>1. scanline \in {0} \cup Drawable
        BY <1>5, <2>1, <3>1 DEF PPUInv, LineInv, Types, Drawable
      <4>2. Pending' = FetchCmd(scanline) /\ FetchCmd(scanline).cmd = "fetch"
            /\ FetchCmd(scanline) \in Commands /\ FetchCmd(scanline) # VBlankCmd(FALSE)
        BY <1>10, <3>1, <4>1, CommandKinds
           DEF LineEnds, Pending, FetchCmd, VBlankCmd, Cmd
      <4>3. Legal(Eventual, FetchCmd(scanline))
        BY <4>2 DEF Legal
      <4> QED BY <1>3, <4>2, <4>3
    <3>2. CASE ~(~VBlank /\ ~SkipFrame)
      <4>1. Pending' = NoCmd
        BY <1>10, <3>2 DEF LineEnds, Pending
      <4> QED BY <1>4, <4>1
    <3> QED BY <3>1, <3>2
  <2> QED BY <1>2, <2>1, <2>2 DEF MeantInv, LineMeant
<1>11. CASE PPU_SyncMT \/ Joined
  <2>1. Pending' = NoCmd /\ UNCHANGED <<line, raw>> /\ emu # "line1" /\ Step' # "line1"
    BY <1>11 DEF PPU_SyncMT, Joined, Pending, Step, InCommand
  <2> QED BY <1>2, <1>4, <2>1 DEF MeantInv, LineMeant
<1>12. CASE MTIF_Kill
  <2>1. Pending' = ExitCmd /\ UNCHANGED <<line, raw>> /\ Step' # "line1"
    BY <1>12 DEF MTIF_Kill, Pending, Step, InCommand
  <2>2. ExitCmd \in Commands /\ Legal(Eventual, ExitCmd) /\ ExitCmd.cmd = "exit"
        /\ ExitCmd # VBlankCmd(FALSE)
    BY CommandKinds DEF ExitCmd, VBlankCmd, Cmd, Legal
  <2>3. Legal(Eventual, Pending)' /\ Meant'.reg = raw /\ Meant'.LineTarget = Eventual.LineTarget
    BY <1>3, <2>1, <2>2
  <2> QED BY <1>2, <2>1, <2>3 DEF MeantInv, LineMeant
<1> QED BY <1>6, <1>7, <1>8, <1>9, <1>10, <1>11, <1>12 DEF Calm

(* WWQ() goes on: the entry counts from now on.                             *)
LEMMA AdvanceQueue ==
  ASSUME PPUInv, Types', [Next]_vars, emu \in {"put", "room"}, Advance,
         UNCHANGED <<frame, line, machine, thread, rend>>,
         NextPos # ReadPos \/ TMP_ReadPos = WritePos,
         WQ' = [WQ EXCEPT ![WritePos] = hand]
  PROVE  /\ Eventual' = Meant /\ Pending' = NoCmd /\ Step' = Step
         /\ ExitInv' /\ QueueInv' /\ MeantInv'
<1> USE DEF line, machine, thread, Go
<1>1. /\ ReadPos \in Positions /\ TMP_ReadPos \in Positions /\ rtRead \in Positions
      /\ rtWrite \in Positions /\ TMP_WritePos \in Positions /\ WritePos \in Positions
      /\ Queued \in Nat /\ WQ \in [Positions -> Commands]
      /\ Ordered(ReadPos, TMP_ReadPos, rtRead, rtWrite, TMP_WritePos, WritePos)
      /\ WQ_Size \in Nat
  BY RingAssumption, QueueFacts DEF PPUInv, Types, RingInv
<1>2. Queued' = Queued + 1
  <2>1. Dist(rtRead, (WritePos + 1) % WQ_Size) = Dist(rtRead, WritePos) + 1
    <3>1. CASE NextPos # ReadPos
      BY <1>1, <3>1, DistAdded, SMTT(40) DEF NextPos
    <3>2. CASE TMP_ReadPos = WritePos
      <4>1. (WritePos + 1) % WQ_Size # WritePos
        BY <1>1, RingAssumption, NextPlace DEF Positions
      <4>2. rtRead = WritePos /\ Ordered(WritePos, WritePos, WritePos, WritePos, WritePos, WritePos)
        BY <1>1, <3>2, Positioned
      <4> QED BY <1>1, <4>1, <4>2, DistAdded
    <3> QED BY <3>1, <3>2
  <2>2. Queued = Dist(rtRead, WritePos) /\ Queued' = Dist(rtRead', WritePos')
    BY DEF Queued, Dist
  <2> QED BY <2>1, <2>2 DEF Advance, NextPos
<1>3. \A i \in 0 .. Queued - 1 : Entry(i)' = Entry(i)
  <2> TAKE i \in 0 .. Queued - 1
  <2>1. (rtRead + i) % WQ_Size # WritePos
    BY Unqueued DEF PPUInv
  <2>2. (rtRead + i) % WQ_Size \in Positions
    <3>1. i \in 0 .. WQ_Size - 1
      BY <1>1, QueueFacts
    <3> QED BY <1>1, <3>1, RingPlaces
  <2> QED BY <1>1, <2>1, <2>2 DEF Entry
<1>4. WQ'[(rtRead + Queued) % WQ_Size] = hand
  <2>1. (rtRead + Queued) % WQ_Size = WritePos
    BY Unqueued DEF PPUInv
  <2> QED BY <1>1, <2>1
<1>5. Pending = hand
  BY DEF Pending
<1>6. /\ Eventual' = Meant /\ QueueLegal' /\ ExitInv'
      /\ frame = "tmp" => \A i \in 0 .. Queued' - 1 : ~Draws(Entry(i))'
  BY <1>2, <1>3, <1>4, <1>5, QueueGrows
<1>7. Undrawn'
  <2>1. hand' = hand \/ hand' = NoCmd
    BY DEF Advance
  <2>2. ~Draws(NoCmd)
    BY DEF Draws, NoCmd, VBlankCmd, Cmd
  <2> QED BY <1>6, <2>1, <2>2 DEF Undrawn, Draws, PPUInv, QueueInv
<1>8. Pending' = NoCmd /\ Step' = Step
  BY DEF Advance, Pending, Step, InCommand, PPUInv, Types
<1>9. Meant' = Meant /\ Legal(Eventual, Pending)'
  BY <1>6, <1>8, Neutral DEF Meant, Legal, NoCmd, Cmd
<1> QED BY <1>6, <1>7, <1>8, <1>9 DEF QueueInv, PPUInv, MeantInv

(* The emulation asks for nothing new, and no entry is appended.            *)
Quiet == (Put /\ NextPos = ReadPos) \/ Publish \/ Refresh \/ Store \/ Look \/ Execute
         \/ UNCHANGED vars
LEMMA QuietQueue ==
  ASSUME PPUInv, Types', [Next]_vars, Quiet
  PROVE  /\ Eventual' = Eventual /\ Pending' = Pending /\ QueueInv' /\ ExitInv'
         /\ UNCHANGED <<frame, line, machine, settings>> /\ hand' \in {hand, NoCmd}
         /\ Step' = Step \/ (Step = "sync" /\ Step' = "drain")
<1> USE DEF settings, call, line, machine, published, ring, thread, emulation, Go, Call
<1>1. QueueInv /\ ~Draws(NoCmd)
  BY DEF PPUInv, Draws, NoCmd, VBlankCmd, Cmd
<1>2. CASE Execute
  <2>1. UNCHANGED <<call, line, machine, frame, settings>>
    BY <1>2 DEF Execute
  <2> QED BY <1>2, <2>1, QueueShrinks DEF QueueInv, Pending, Step, InCommand
<1>3. CASE Quiet /\ ~Execute
  <2>1. /\ UNCHANGED <<frame, line, machine, settings, WritePos, rtRead, rend>>
        /\ Step' = Step \/ (Step = "sync" /\ Step' = "drain")
        /\ Pending' = Pending /\ hand' \in {hand, NoCmd}
        /\ (rt' # "exited" \/ rt = "exited")
        /\ WQ' = WQ \/ WQ' = [WQ EXCEPT ![WritePos] = hand]
    <3>1. CASE Put /\ NextPos = ReadPos
      BY <3>1 DEF Put, Step, InCommand, Pending
    <3>2. CASE Publish
      BY <3>2 DEF Publish, Step, InCommand, Pending
    <3>3. CASE Refresh
      BY <3>3 DEF Refresh, Step, InCommand, Pending, PPUInv, Types
    <3>4. CASE Store \/ Look \/ UNCHANGED vars
      BY <3>4 DEF Store, Look, vars, Step, InCommand, Pending
    <3> QED BY <1>3, <3>1, <3>2, <3>3, <3>4 DEF Quiet
  <2>2. \A i \in 0 .. Queued - 1 : Entry(i)' = Entry(i)
    <3> TAKE i \in 0 .. Queued - 1
    <3>1. (rtRead + i) % WQ_Size # WritePos
      BY Unqueued DEF PPUInv
    <3>2. (rtRead + i) % WQ_Size \in Positions
      <4>1. i \in 0 .. WQ_Size - 1 /\ rtRead \in Positions
        BY RingAssumption, QueueFacts DEF PPUInv, Types
      <4> QED BY <4>1, RingPlaces
    <3> QED BY <2>1, <3>1, <3>2 DEF Entry, PPUInv, Types
  <2>3. Queued' = Queued /\ Eventual' = Eventual /\ QueueLegal' /\ ExitInv'
    BY <2>1, <2>2, QueueStays
  <2> QED BY <1>1, <2>1, <2>2, <2>3 DEF QueueInv, Undrawn, Draws
<1> QED BY <1>2, <1>3

LEMMA AdvanceStep ==
  ASSUME PPUInv, Types', [Next]_vars, (Put /\ NextPos # ReadPos) \/ Room
  PROVE  /\ Eventual' = Meant /\ Pending' = NoCmd /\ Step' = Step /\ Pending = hand
         /\ UNCHANGED <<frame, line, machine, settings>> /\ InCommand
         /\ ExitInv' /\ QueueInv' /\ MeantInv'
<1>1. CASE Put /\ NextPos # ReadPos
  BY <1>1, AdvanceQueue DEF Put, Pending, InCommand
<1>2. CASE Room
  <2>1. WQ' = [WQ EXCEPT ![WritePos] = hand]
    BY <1>2 DEF Room, PPUInv, Types, RingInv
  <2> QED BY <1>2, <2>1, AdvanceQueue DEF Room, Pending, InCommand
<1> QED BY <1>1, <1>2

(* The emulation writes to the renderer's state, while nothing is queued.   *)
Replaces == Emulate \/ Synced \/ LoadState \/ Reset
LEMMA ReplacedQueue ==
  ASSUME PPUInv, Types', [Next]_vars, Replaces
  PROVE  /\ Eventual = rend /\ Eventual' = rend' /\ rend \in Renderers /\ rend' \in Renderers
         /\ Pending = NoCmd /\ Pending' = NoCmd /\ QueueInv' /\ ExitInv'
         /\ rend'.reg = raw'
         /\ scanline' \notin Drawable \/ VBlank'
<1> USE DEF settings, call, line, machine, published, ring, thread, emulation, Go, Call
<1>1. ~Draws(NoCmd)
  BY DEF Draws, NoCmd, VBlankCmd, Cmd
<1>2. /\ emu \in {"idle", "drain"} /\ TMP_ReadPos = WritePos
      /\ UNCHANGED <<WritePos, rtRead, rt>> /\ hand' = NoCmd
      /\ Pending = NoCmd /\ Pending' = NoCmd
  BY DEF Replaces, Emulate, Synced, LoadState, Reset, PPUInv, RingInv, CallInv, InCommand,
     Pending
<1>3. rend \in Renderers
  BY QueueFacts, AfterEmpty DEF PPUInv, QueueInv, QueueLegal
<1>4. /\ rend' \in Renderers
      /\ (rend'.reg = rend.reg /\ raw' = raw) \/ rend'.reg = raw'
      /\ scanline' \notin Drawable \/ VBlank'
  <2>1. CASE Synced
    <3>1. CASE SpecEx
      <4>1. saved.reg \in Values /\ (saved.scanline = 0 \/ saved.VBlank)
        BY <2>1, <3>1 DEF Synced, PPUInv, CallInv, LineInv
      <4>2. rend' = [rend EXCEPT !.reg = saved.reg, !.picture = Blank]
            /\ raw' = saved.reg /\ scanline' = saved.scanline /\ VBlank' = saved.VBlank
        BY <2>1, <3>1 DEF Synced, Load
      <4>3. PICK v \in Values, pic \in [Rows -> PixelSet] : v = saved.reg /\ pic = Blank
        BY <4>1, BlankIsPicture
      <4>4. rend' = [rend EXCEPT !.reg = v, !.picture = pic] /\ raw' = v
        BY <4>2, <4>3
      <4>5. rend' \in Renderers /\ rend'.reg = raw'
        BY <1>3, <4>4 DEF Renderers
      <4> QED BY <4>1, <4>2, <4>5 DEF Drawable
    <3>2. CASE ~SpecEx
      <4>1. rend' = [rend EXCEPT !.picture = Blank] /\ UNCHANGED <<raw, scanline, VBlank>>
        BY <2>1, <3>2 DEF Synced
      <4>2. scanline \notin Drawable \/ VBlank
        BY <2>1 DEF Synced, PPUInv, LineInv, Step, InCommand
      <4> QED BY <1>3, <4>1, <4>2, BlankIsPicture DEF Renderers
    <3> QED BY <3>1, <3>2
  <2>2. CASE LoadState
    <3>1. PICK v \in Values, blank \in BOOLEAN : Load(v, IF blank THEN LastLine ELSE 0, blank)
      BY <2>2 DEF LoadState
    <3>2. rend' = [rend EXCEPT !.reg = v, !.picture = Blank] /\ raw' = v
          /\ scanline' = (IF blank THEN LastLine ELSE 0) /\ VBlank' = blank
      BY <3>1 DEF Load
    <3>3. PICK pic \in [Rows -> PixelSet] : pic = Blank
      BY BlankIsPicture
    <3>4. rend' = [rend EXCEPT !.reg = v, !.picture = pic]
      BY <3>2, <3>3
    <3>5. rend' \in Renderers /\ rend'.reg = raw'
      BY <1>3, <3>2, <3>4 DEF Renderers
    <3>6. scanline' \notin Drawable \/ VBlank'
      BY <3>2, ScreenAssumption DEF Drawable, LastLine
    <3> QED BY <3>5, <3>6
  <2>3. CASE Reset
    <3>1. PICK v \in Values : raw' = v /\ rend' = [rend EXCEPT !.reg = v, !.sprites = None]
      BY <2>3 DEF Reset
    <3>2. scanline' \notin Drawable
      BY <2>3, ScreenAssumption DEF Reset, LastLine, Drawable
    <3> QED BY <1>3, <3>1, <3>2 DEF Renderers, SpriteLines
  <2>4. CASE Emulate
    <3>1. rend' = [rend EXCEPT !.es = frame'] /\ UNCHANGED <<raw, scanline, VBlank>>
          /\ frame' \in Specs
      BY <2>4 DEF Emulate, Specs
    <3>2. scanline \notin Drawable \/ VBlank
      BY <2>4 DEF Emulate, PPUInv, LineInv, Step, InCommand
    <3> QED BY <1>3, <3>1, <3>2 DEF Renderers
  <2> QED BY <2>1, <2>2, <2>3, <2>4 DEF Replaces
<1>5. Eventual = rend /\ Eventual' = rend' /\ QueueLegal' /\ ExitInv' /\ Undrawn'
  BY <1>1, <1>2, <1>4, QueueReplaced
<1>6. rend.reg = raw
  BY <1>2, <1>5, Neutral DEF PPUInv, MeantInv, Meant
<1> QED BY <1>2, <1>3, <1>4, <1>5, <1>6 DEF QueueInv

LEMMA AheadQueue ==
  ASSUME PPUInv, Types', [Next]_vars, Ahead
  PROVE  /\ Eventual' = [Eventual EXCEPT !.es = "espec"]
         /\ Pending = NoCmd /\ Pending' = NoCmd /\ QueueInv' /\ ExitInv'
<1> USE DEF settings, call, line, machine, published, ring, thread, emulation, Go, Call
<1>1. /\ UNCHANGED <<line, raw, WQ, WritePos, rtRead, rt>> /\ Pending' = NoCmd
      /\ frame' = "espec" /\ rend' = [rend EXCEPT !.es = "espec"] /\ emu = "ended"
      /\ Pending = NoCmd
  BY DEF Ahead, Pending
<1>2. /\ Queued' = Queued
      /\ \A i \in 0..Queued : After'[i] = [After[i] EXCEPT !.es = "espec"]
  <2>1. "espec" \in Specs
    BY DEF Specs
  <2>2. frame = "tmp"
    BY DEF Ahead
  <2> QED BY <1>1, <2>1, <2>2, AfterRetagged DEF PPUInv, QueueInv
<1>3. /\ Queued \in 0..Queued
      /\ \A i \in 0 .. Queued - 1 : i \in 0..Queued
  BY QueueFacts
<1>4. ASSUME NEW i \in 0..Queued
      PROVE  After'[i] \in Renderers /\ After'[i].LineTarget = After[i].LineTarget
  <2>1. PICK r \in Renderers : r = After[i]
    BY DEF PPUInv, QueueInv, QueueLegal
  <2>2. After'[i] = [r EXCEPT !.es = "espec"]
    BY <1>2, <2>1
  <2> QED BY <2>1, <2>2 DEF Renderers, Specs
<1>5. QueueLegal'
  <2>1. \A i \in 0..Queued' : After'[i] \in Renderers
    BY <1>2, <1>4
  <2>2. ASSUME NEW i \in 0 .. Queued' - 1 PROVE Legal(After'[i], Entry(i)')
    <3>1. Legal(After[i], Entry(i)) /\ i \in 0..Queued
      BY <1>2, <1>3 DEF PPUInv, QueueInv, QueueLegal
    <3> QED BY <1>1, <1>4, <3>1 DEF Legal, Entry
  <2> QED BY <2>1, <2>2 DEF QueueLegal, Legal
<1>6. ExitInv'
  BY <1>1, <1>2, StaysOut DEF PPUInv, ExitInv, Entry
<1>7. Eventual' = [Eventual EXCEPT !.es = "espec"]
  BY <1>2, <1>3 DEF Eventual
<1> QED BY <1>1, <1>5, <1>6, <1>7 DEF QueueInv, Undrawn

LEMMA QueueNext ==
  ASSUME PPUInv, [Next]_vars, Types' PROVE ExitInv' /\ QueueInv' /\ MeantInv'
<1>1. /\ Eventual \in Renderers /\ MeantInv /\ Legal(Eventual, NoCmd)
  BY QueueFacts DEF PPUInv, NoCmd, Cmd, Legal
<1>2. CASE Calm
  BY <1>2, CalmQueue, CalmMeant DEF QueueInv
<1>3. CASE (Put /\ NextPos # ReadPos) \/ Room
  BY <1>3, AdvanceStep
<1>4. CASE Quiet
  <2>1. Meant' = Meant /\ Legal(Eventual, Pending)'
    BY <1>1, <1>4, QuietQueue DEF Meant, MeantInv, Legal
  <2>2. /\ UNCHANGED <<line, raw>>
        /\ Step' = "line1" <=> Step = "line1"
    BY <1>4, QuietQueue DEF machine
  <2> QED BY <1>1, <1>4, <2>1, <2>2, QuietQueue DEF MeantInv, line
<1>5. CASE Replaces
  <2>1. Meant' = rend' /\ Legal(Eventual, Pending)'
    BY <1>5, ReplacedQueue, Neutral DEF Meant, Legal, NoCmd, Cmd
  <2> QED BY <1>5, <2>1, ReplacedQueue DEF MeantInv
<1>6. CASE Ahead
  <2>1. Meant' = Eventual' /\ Meant = Eventual /\ Legal(Eventual, Pending)'
    BY <1>6, AheadQueue, Neutral DEF Meant, Legal, NoCmd, Cmd
  <2>2. Meant'.reg = raw
    BY <1>1, <1>6, <2>1, AheadQueue DEF MeantInv, Renderers
  <2>3. UNCHANGED <<line, raw>> /\ (scanline \notin Drawable \/ VBlank)
    BY <1>6 DEF Ahead, PPUInv, LineInv, Step, InCommand
  <2> QED BY <1>6, <2>1, <2>2, <2>3, AheadQueue DEF MeantInv, line
<1> QED BY <1>2, <1>3, <1>4, <1>5, <1>6
        DEF Next, EmuWaits, EmuCalls, EmuRuns, RenderThread, Calm, Quiet, Replaces,
            TimesOut, Terminated
-----------------------------------------------------------------------------
LEMMA PPUInvNext == PPUInv /\ [Next]_vars => PPUInv'
<1> SUFFICES ASSUME PPUInv, [Next]_vars PROVE PPUInv'
  OBVIOUS
<1>1. Types'
  BY TypesNext
<1> QED BY <1>1, RingNext, CallNext, LineNext, QueueNext DEF PPUInv

LEMMA PPUInvariance == Spec => []PPUInv
<1> QED BY PPUInitInv, PPUInvNext, PTL DEF Spec

(* PPUInv holds the types, with those of the whole of the renderer's state. *)
THEOREM PPUTypeCorrect == Spec => []TypeOK
<1>1. PPUInv => TypeOK
  <2> SUFFICES ASSUME PPUInv PROVE TypeOK
    OBVIOUS
  <2>1. rend \in Renderers
    BY QueueFacts, AfterEmpty DEF PPUInv, QueueInv, QueueLegal
  <2> QED BY <2>1 DEF PPUInv, Types, TypeOK, Renderers, SpriteLines
<1> QED BY <1>1, PPUInvariance, PTL

(* Between two frames the renderer has executed everything and rests: its   *)
(* positions all lie between TMP_ReadPos and WritePos, which are the same.  *)
THEOREM RendererRestsBetween == Spec => []RendererRests
<1>1. PPUInv => RendererRests
  <2> SUFFICES ASSUME PPUInv, emu = "idle"
               PROVE  rtRead = WritePos /\ rt \in {"store", "look"}
    BY DEF RendererRests
  <2>1. /\ ReadPos \in Positions /\ TMP_ReadPos \in Positions /\ rtRead \in Positions
        /\ rtWrite \in Positions /\ TMP_WritePos \in Positions /\ WritePos \in Positions
    BY DEF PPUInv, Types
  <2>2. rtRead = WritePos /\ rtWrite = WritePos
    BY <2>1, Positioned DEF PPUInv, RingInv
  <2>3. rt # "batch" /\ rt # "exited"
    BY <2>2 DEF PPUInv, RingInv, ExitInv, Step, InCommand
  <2> QED BY <2>2, <2>3 DEF PPUInv, Types
<1> QED BY <1>1, PPUInvariance, PTL

(* The registers of the renderer become those of the emulation, however     *)
(* many writes are on the way.                                              *)
THEOREM RegistersFollow == Spec => []SameRegisters
<1>1. PPUInv => SameRegisters
  BY DEF PPUInv, MeantInv, Meant, Pending, SameRegisters
<1> QED BY <1>1, PPUInvariance, PTL
-----------------------------------------------------------------------------
(* What the single-threaded renderer says of the sprites and of the picture: *)
(* holds of what the renderer's state will be.                              *)
LinesInv ==
  /\ VBlank => scanline > 1
  /\ saved.VBlank => saved.scanline > 1
  /\ ret = "join" => hand.cmd = "exit"
FirstLines == {0, None}
SpriteInv ==
  /\ SkipFrame => Meant.sprites \in FirstLines
  /\ ~SkipFrame /\ scanline = 0 /\ LinePhase = 0 => Meant.sprites = 0
  /\ ~SkipFrame /\ ~VBlank /\ scanline \in Drawable =>
       IF LinePhase = 0 THEN Meant.sprites = scanline
       ELSE Meant.sprites = scanline - 1 \/ (scanline = 1 /\ Meant.sprites = None)
Undone == Meant.picture = Blank
Full == \A row \in Rows : Meant.picture[row] # Stale
Begun == \A row \in Rows : row < Meant.LineTarget => Meant.picture[row] # Stale
Between == ~VBlank /\ ~SkipFrame /\ scanline \in Drawable /\ (scanline # 1 \/ LinePhase # 1)
PictureInv ==
  /\ frame # "none" => Meant.es = frame
  /\ frame # "espec" => Undone
  /\ Step \in {"ended", "sync", "drain"} => Undone \/ Full
  /\ Step = "line1" => Undone
  /\ Step = "run" /\ VBlank => Undone \/ (Full /\ ~FrameBeginVBlank)
  /\ Step = "run" /\ Between => Begun
  /\ Step = "run" /\ ~VBlank /\ ~Between => Undone
AskInv ==
  /\ Pending.cmd = "target" => Eventual.picture = Blank
  /\ Pending.cmd = "render" => \/ Eventual.sprites = Pending.arg - 1
                               \/ Pending.arg = 1 /\ Eventual.sprites = None
  /\ Pending = VBlankCmd(FALSE) => Eventual.picture # Blank
DrawnInv == LinesInv /\ SpriteInv /\ PictureInv /\ AskInv

LEMMA CalmStep ==
  ASSUME PPUInv, PPUInv', [Next]_vars, Calm
  PROVE  /\ Meant \in Renderers /\ Eventual' = Meant /\ Meant' \in Renderers
         /\ Pending = NoCmd /\ Step = emu /\ UNCHANGED <<frame, settings, saved, thread>>
         /\ Meant'.es = Meant.es
         /\ Meant'.sprites = IF Pending'.cmd = "fetch" THEN Pending'.arg ELSE Meant.sprites
         /\ Meant'.LineTarget =
              IF Pending'.cmd = "target" THEN 0
              ELSE IF Pending'.cmd = "render" THEN Pending'.arg
              ELSE IF Pending' = VBlankCmd(FALSE) THEN Height
              ELSE Meant.LineTarget
         /\ Meant'.picture =
              IF Pending'.cmd = "render"
              THEN [Meant.picture EXCEPT ![Pending'.arg - 1] =
                      Pixels(Pending'.arg, Meant.reg, Meant.sprites, Meant.es)]
              ELSE IF Pending' = VBlankCmd(FALSE)
              THEN [row \in Rows |-> IF row < Meant.LineTarget THEN Meant.picture[row]
                                     ELSE Black(Meant.es)]
              ELSE Meant.picture
         /\ Pending'.cmd = "render" => Pending'.arg = Meant.LineTarget + 1
<1>1. /\ emu \in {"run", "line1", "ended", "idle", "join"} /\ Pending = NoCmd /\ Step = emu
      /\ UNCHANGED <<frame, settings, saved, thread>>
  BY DEF Calm, Write, LineBegins, FirstLine, LinePicture, LineEnds, PPU_SyncMT,
     MTIF_Kill, Joined, Pending, Step, InCommand, machine
<1>2. Types' /\ Legal(Eventual, Pending)' /\ Eventual' = Eventual
  BY CalmQueue DEF PPUInv, MeantInv
<1>3. PICK m \in Renderers : m = Meant /\ m = Eventual /\ m = Eventual'
  BY <1>1, <1>2, QueueFacts
<1>4. PICK e \in Commands : e = Pending'
  BY <1>2, CommandKinds DEF Types, Pending
<1>5. Legal(m, e) /\ Meant' = Executed(m, e)
  BY <1>2, <1>3, <1>4 DEF Legal, Meant
<1>6. /\ Executed(m, e) \in Renderers
      /\ Executed(m, e).es = m.es
      /\ Executed(m, e).sprites = IF e.cmd = "fetch" THEN e.arg ELSE m.sprites
      /\ Executed(m, e).LineTarget =
              IF e.cmd = "target" THEN 0
              ELSE IF e.cmd = "render" THEN e.arg
              ELSE IF e = VBlankCmd(FALSE) THEN Height
              ELSE m.LineTarget
      /\ Executed(m, e).picture =
              IF e.cmd = "render"
              THEN [m.picture EXCEPT ![e.arg - 1] = Pixels(e.arg, m.reg, m.sprites, m.es)]
              ELSE IF e = VBlankCmd(FALSE)
              THEN [row \in Rows |-> IF row < m.LineTarget THEN m.picture[row]
                                     ELSE Black(m.es)]
              ELSE m.picture
  BY <1>5, ExecutedFields
<1> QED BY <1>1, <1>3, <1>4, <1>5, <1>6 DEF Legal

(* Which command a step asks for.                                           *)
LEMMA CalmCommands ==
  ASSUME PPUInv, PPUInv', [Next]_vars
  PROVE  /\ Write => Pending'.cmd = "write"
         /\ LineBegins => /\ Pending' = NoCmd
                             \/ (Pending' = VBlankCmd(SkipFrame) /\ VBlank' /\ ~VBlank)
                          /\ VBlank' /\ ~VBlank => Pending' = VBlankCmd(SkipFrame)
         /\ FirstLine => Pending' = IF SkipFrame' THEN NoCmd ELSE TargetCmd
         /\ LinePicture => Pending' = IF ~VBlank /\ scanline \in Drawable /\ ~SkipFrame
                                      THEN RenderCmd(scanline) ELSE NoCmd
         /\ LineEnds => Pending' = IF ~VBlank /\ ~SkipFrame THEN FetchCmd(scanline) ELSE NoCmd
         /\ PPU_SyncMT \/ Joined => Pending' = NoCmd
         /\ MTIF_Kill => Pending' = ExitCmd
<1> USE DEF settings, call, line, Go, Call, Pending
<1>1. Write => Pending'.cmd = "write"
  BY DEF Write, WriteCmd, Cmd
<1>2. LineBegins => /\ Pending' = NoCmd
                       \/ (Pending' = VBlankCmd(SkipFrame) /\ VBlank' /\ ~VBlank)
                    /\ VBlank' /\ ~VBlank => Pending' = VBlankCmd(SkipFrame)
  BY DEF LineBegins
<1>3. FirstLine => Pending' = IF SkipFrame' THEN NoCmd ELSE TargetCmd
  BY DEF FirstLine
<1>4. LinePicture => Pending' = IF ~VBlank /\ scanline \in Drawable /\ ~SkipFrame
                               THEN RenderCmd(scanline) ELSE NoCmd
  BY DEF LinePicture
<1>5. LineEnds => Pending' = IF ~VBlank /\ ~SkipFrame THEN FetchCmd(scanline) ELSE NoCmd
  BY DEF LineEnds
<1>6. PPU_SyncMT \/ Joined => Pending' = NoCmd
  BY DEF PPU_SyncMT, Joined
<1>7. MTIF_Kill => Pending' = ExitCmd
  BY DEF MTIF_Kill
<1> QED BY <1>1, <1>2, <1>3, <1>4, <1>5, <1>6, <1>7

LEMMA NextScanline ==
  ASSUME PPUInv, LineBegins
  PROVE  /\ scanline' = IF scanline = LastLine THEN 0 ELSE scanline + 1
         /\ scanline \in Nat /\ LastLine = Height + 1 /\ Height \in Nat /\ Height > 0
         /\ scanline <= LastLine
<1>1. scanline \in 0..LastLine /\ LastLine = Height + 1 /\ Height \in Nat /\ Height > 0
  BY ScreenAssumption DEF PPUInv, Types, LastLine
<1>2. PICK m \in Nat, x \in Nat : m = LastLine + 1 /\ x = scanline + 1 /\ m > 0 /\ x <= m
  BY <1>1
<1>3. scanline' = IF x = m THEN 0 ELSE x
  BY <1>2, Modulo DEF LineBegins
<1> QED BY <1>1, <1>2, <1>3

LEMMA DrawnInitInv == Init => DrawnInv
<1> SUFFICES ASSUME Init PROVE DrawnInv
  OBVIOUS
<1>1. PPUInv
  BY PPUInitInv
<1>2. Meant = rend /\ Eventual = rend /\ Pending = NoCmd
  <2>1. WritePos = rtRead
    BY DEF Init
  <2>2. Pending = NoCmd /\ Queued = 0
    BY RingAssumption, Modulo DEF Init, Pending, Queued
  <2>3. Eventual = rend
    BY <2>2, <1>1, AfterEmpty DEF Eventual, PPUInv
  <2> QED BY <2>2, <2>3, Neutral DEF Meant
<1>3. LinesInv
  BY DEF Init, LinesInv, NotSaved
<1>4. SpriteInv
  BY <1>2, ScreenAssumption DEF Init, SpriteInv, LastLine, FirstLines, Drawable
<1>5. PictureInv
  BY <1>2, ScreenAssumption
     DEF Init, PictureInv, Undone, Between, LastLine, Drawable, Step, InCommand
<1>6. AskInv
  BY <1>2 DEF AskInv, NoCmd, VBlankCmd, Cmd
<1> QED BY <1>3, <1>4, <1>5, <1>6 DEF DrawnInv

(* The steps that ask for nothing.                                          *)
LEMMA DrawnStays ==
  ASSUME PPUInv, DrawnInv, [Next]_vars,
         UNCHANGED <<frame, line, saved, settings, Meant>>,
         Step' = Step \/ (Step = "sync" /\ Step' = "drain"),
         ret' = "join" => ret = "join" /\ hand' = hand,
         Pending' = NoCmd \/ UNCHANGED <<Eventual, Pending>>
  PROVE  DrawnInv'
<1> USE DEF line, settings
<1>1. LinesInv'
  BY DEF LinesInv, DrawnInv
<1>2. SpriteInv'
  BY DEF SpriteInv, DrawnInv
<1>3. PictureInv'
  <2>1. Undone' = Undone /\ Full' = Full /\ Begun' = Begun /\ Between' = Between
    BY DEF Undone, Full, Begun, Between
  <2> QED BY <2>1 DEF PictureInv, DrawnInv
<1>4. AskInv'
  BY DEF AskInv, DrawnInv, NoCmd, VBlankCmd, Cmd
<1> QED BY <1>1, <1>2, <1>3, <1>4 DEF DrawnInv

LEMMA NextBlanking ==
  ASSUME PPUInv, LineBegins
  PROVE  \/ scanline' = 0 /\ ~VBlank' /\ scanline = LastLine
         \/ /\ VBlank' /\ ~VBlank /\ scanline' = scanline + 1 /\ scanline' > 1
            /\ scanline \in Drawable
         \/ /\ (VBlank' <=> VBlank) /\ scanline' = scanline + 1 /\ UNCHANGED call
            /\ scanline' \in Drawable \/ VBlank
<1>1. /\ scanline' = IF scanline = LastLine THEN 0 ELSE scanline + 1
      /\ scanline \in Nat /\ LastLine = Height + 1 /\ Height \in Nat /\ Height > 0
      /\ scanline <= LastLine /\ MinHeight \in Nat /\ MinHeight >= 1
  BY NextScanline, ScreenAssumption
<1>2. CASE scanline' = 0 /\ VBlank' = FALSE
  BY <1>1, <1>2
<1>3. CASE scanline' > MinHeight /\ ~VBlank /\ VBlank' = TRUE
  <2>1. VBlank'
    BY <1>3, Zenon
  <2>2. scanline' = scanline + 1 /\ scanline' > 1 /\ scanline \in Drawable
    BY <1>1, <1>3 DEF Drawable
  <2> QED BY <1>3, <2>1, <2>2
<1>4. CASE /\ scanline' \in Drawable \/ (VBlank /\ scanline' = LastLine)
           /\ UNCHANGED <<call, VBlank>>
  BY <1>1, <1>4 DEF Drawable, PPUInv, Types
<1> QED BY <1>2, <1>3, <1>4 DEF LineBegins

LEMMA CalmLines ==
  ASSUME PPUInv, PPUInv', DrawnInv, [Next]_vars, Calm PROVE LinesInv'
<1> USE DEF settings, call, line, machine, Go, Call
<1>1. (ret = "join" => hand.cmd = "exit")'
  <2>1. UNCHANGED <<hand, ret>> \/ ret' # "join" \/ hand' = ExitCmd
    <3>1. CASE Write
      BY <3>1 DEF Write
    <3>2. CASE LineBegins
      BY <3>2 DEF LineBegins
    <3>3. CASE FirstLine \/ LinePicture \/ LineEnds
      BY <3>3 DEF FirstLine, LinePicture, LineEnds
    <3>4. CASE PPU_SyncMT \/ MTIF_Kill \/ Joined
      BY <3>4 DEF PPU_SyncMT, MTIF_Kill, Joined
    <3> QED BY <3>1, <3>2, <3>3, <3>4 DEF Calm
  <2> QED BY <2>1 DEF ExitCmd, Cmd, DrawnInv, LinesInv
<1>2. (VBlank => scanline > 1)'
  <2>1. CASE LineBegins
    <3>1. scanline \in Nat
      BY <2>1, NextScanline
    <3> QED BY <2>1, <3>1, NextBlanking DEF DrawnInv, LinesInv
  <2>2. CASE Calm /\ ~LineBegins
    BY <2>2 DEF Calm, Write, FirstLine, LinePicture, LineEnds, PPU_SyncMT,
       MTIF_Kill, Joined, DrawnInv, LinesInv
  <2> QED BY <2>1, <2>2
<1>3. saved' = saved
  BY CalmStep
<1> QED BY <1>1, <1>2, <1>3 DEF LinesInv, DrawnInv

LEMMA CalmSprites ==
  ASSUME PPUInv, PPUInv', DrawnInv, [Next]_vars, Calm PROVE SpriteInv'
<1> USE DEF settings, call, line, machine, Go, Call
<1>1. Meant'.sprites = IF Pending'.cmd = "fetch" THEN Pending'.arg ELSE Meant.sprites
  BY CalmStep
<1>2. SpriteInv /\ (VBlank => scanline > 1) /\ (VBlank' => scanline' > 1)
      /\ scanline \in Int /\ scanline' \in Int
  BY CalmLines DEF DrawnInv, LinesInv, PPUInv, Types
<1>3. Pending'.cmd # "fetch" => Meant'.sprites = Meant.sprites
  BY <1>1
<1>4. CASE Write \/ PPU_SyncMT \/ MTIF_Kill \/ Joined
  <2>1. UNCHANGED line
    BY <1>4 DEF Write, PPU_SyncMT, MTIF_Kill, Joined
  <2>2. Pending'.cmd # "fetch"
    BY <1>4, CalmCommands DEF NoCmd, ExitCmd, Cmd
  <2> QED BY <1>2, <1>3, <2>1, <2>2 DEF SpriteInv
<1>5. CASE LineBegins
  <2>1. /\ scanline' = IF scanline = LastLine THEN 0 ELSE scanline + 1
        /\ scanline \in Nat /\ LastLine = Height + 1 /\ Height \in Nat /\ Height > 0
        /\ scanline <= LastLine
    BY <1>5, NextScanline
  <2>2. Pending'.cmd # "fetch"
    BY <1>5, CalmCommands DEF NoCmd, VBlankCmd, Cmd
  <2>3. UNCHANGED SkipFrame /\ LinePhase = 0 /\ LinePhase' = 1
    BY <1>5 DEF LineBegins
  <2>4. ~VBlank' /\ scanline' \in Drawable => ~VBlank
    BY <1>5, NextBlanking DEF Drawable
  <2> QED BY <1>2, <1>3, <2>1, <2>2, <2>3, <2>4 DEF SpriteInv, Drawable
<1>6. CASE FirstLine
  <2>1. Pending'.cmd # "fetch"
    BY <1>6, CalmCommands DEF NoCmd, TargetCmd, Cmd
  <2>2. scanline = 1 /\ LinePhase = 1 /\ LinePhase' # 0 /\ UNCHANGED <<scanline, VBlank>>
    BY <1>6 DEF FirstLine
  <2>3. ~VBlank /\ scanline \in Drawable
    BY <1>2, <2>2, ScreenAssumption DEF Drawable
  <2>4. Meant.sprites \in FirstLines
    BY <1>2, <2>2, <2>3 DEF SpriteInv, FirstLines
  <2> QED BY <1>3, <2>1, <2>2, <2>4 DEF SpriteInv, FirstLines
<1>7. CASE LinePicture
  <2>1. Pending'.cmd # "fetch"
    BY <1>7, CalmCommands DEF NoCmd, RenderCmd, Cmd
  <2>2. LinePhase # 0 /\ LinePhase' # 0 /\ UNCHANGED <<scanline, VBlank, SkipFrame>>
    BY <1>7 DEF LinePicture, PPUInv, LineInv, Step, InCommand
  <2> QED BY <1>2, <1>3, <2>1, <2>2 DEF SpriteInv
<1>8. CASE LineEnds
  <2>1. UNCHANGED <<scanline, VBlank, SkipFrame>> /\ LinePhase' = 0
    BY <1>8 DEF LineEnds
  <2>2. CASE ~VBlank /\ ~SkipFrame
    <3>1. Meant'.sprites = scanline
      BY <1>1, <1>8, <2>2, CalmCommands DEF FetchCmd, Cmd
    <3> QED BY <2>1, <2>2, <3>1 DEF SpriteInv
  <2>3. CASE ~(~VBlank /\ ~SkipFrame)
    <3>1. Meant'.sprites = Meant.sprites
      BY <1>3, <1>8, <2>3, CalmCommands DEF NoCmd, Cmd
    <3> QED BY <1>2, <2>1, <2>3, <3>1 DEF SpriteInv
  <2> QED BY <2>2, <2>3
<1> QED BY <1>4, <1>5, <1>6, <1>7, <1>8 DEF Calm

LEMMA CalmAsk ==
  ASSUME PPUInv, PPUInv', DrawnInv, [Next]_vars, Calm PROVE AskInv'
<1> USE DEF settings, call, line, machine, Go, Call
<1>1. Eventual' = Meant /\ Meant \in Renderers /\ Step = emu
  BY CalmStep
<1>2. SpriteInv /\ PictureInv /\ (VBlank => scanline > 1) /\ scanline \in Int
  BY DEF DrawnInv, LinesInv, PPUInv, Types
<1> USE DEF NoCmd, WriteCmd, TargetCmd, RenderCmd, FetchCmd, VBlankCmd, ExitCmd, Cmd
<1>3. CASE Write \/ PPU_SyncMT \/ MTIF_Kill \/ Joined \/ LineEnds
  <2>1. Pending'.cmd \in {"write", "exit", "none", "fetch"}
    BY <1>3, CalmCommands
  <2> QED BY <2>1 DEF AskInv
<1>4. CASE LineBegins
  <2>1. Pending'.cmd \in {"none", "vblank"}
    BY <1>4, CalmCommands
  <2>2. ASSUME Pending' = VBlankCmd(FALSE) PROVE Meant.picture # Blank
    <3>1. ~VBlank /\ VBlank' /\ Pending' = VBlankCmd(SkipFrame) /\ ~SkipFrame
      BY <1>4, <2>2, CalmCommands DEF PPUInv, Types
    <3>2. /\ scanline' = IF scanline = LastLine THEN 0 ELSE scanline + 1
          /\ scanline \in Nat /\ LastLine = Height + 1 /\ Height \in Nat /\ Height > 0
          /\ scanline <= LastLine
      BY <1>4, NextScanline
    <3>3. scanline \in Drawable /\ LinePhase = 0 /\ emu = "run"
      BY <1>4, <3>1, NextBlanking DEF LineBegins
    <3>4. Begun /\ Meant.LineTarget = scanline
      BY <1>1, <1>2, <3>1, <3>3 DEF PictureInv, Between, PPUInv, MeantInv
    <3>5. 0 \in Rows /\ 0 < Meant.LineTarget
      BY <3>2, <3>3, <3>4 DEF Rows, Drawable
    <3>6. Meant.picture[0] # Stale /\ Blank[0] = Stale
      BY <3>4, <3>5 DEF Begun, Blank
    <3> QED BY <3>6
  <2> QED BY <1>1, <2>1, <2>2 DEF AskInv
<1>5. CASE FirstLine
  <2>1. Pending'.cmd \in {"none", "target"}
    BY <1>5, CalmCommands
  <2>2. Undone
    BY <1>1, <1>2, <1>5 DEF FirstLine, PictureInv, Between
  <2> QED BY <1>1, <2>1, <2>2 DEF AskInv, Undone
<1>6. CASE LinePicture
  <2>1. Pending' = NoCmd \/ (/\ Pending' = RenderCmd(scanline) /\ ~VBlank /\ ~SkipFrame
                             /\ scanline \in Drawable)
    BY <1>6, CalmCommands
  <2>2. LinePhase # 0
    BY <1>6 DEF LinePicture, PPUInv, LineInv, Step, InCommand
  <2> QED BY <1>1, <1>2, <2>1, <2>2 DEF AskInv, SpriteInv
<1> QED BY <1>3, <1>4, <1>5, <1>6 DEF Calm

LEMMA CalmPicture ==
  ASSUME PPUInv, PPUInv', DrawnInv, [Next]_vars, Calm PROVE PictureInv'
<1> USE DEF settings, call, line, machine, Go, Call
<1>1. /\ Meant \in Renderers /\ Meant' \in Renderers /\ Step = emu
      /\ UNCHANGED <<frame, FrameBeginVBlank>> /\ Meant'.es = Meant.es
  BY CalmStep
<1>2. /\ SpriteInv /\ PictureInv /\ (VBlank => scanline > 1) /\ (VBlank' => scanline' > 1)
      /\ scanline \in Int /\ scanline' \in Int
  BY CalmLines DEF DrawnInv, LinesInv, PPUInv, Types
<1>3. ~Draws(Pending') => /\ Undone' = Undone /\ Full' = Full
                          /\ Meant'.picture = Meant.picture
  BY CalmStep DEF Draws, Undone, Full
<1>4. ~Draws(Pending') /\ Meant'.LineTarget = Meant.LineTarget => Begun' = Begun
  BY <1>3 DEF Begun
<1>5. ~Draws(Pending') /\ Pending'.cmd # "target" => Meant'.LineTarget = Meant.LineTarget
  BY CalmStep DEF Draws
<1>6. frame = "tmp" => ~Draws(Pending')
  BY <1>1 DEF PPUInv, QueueInv, Undrawn, Pending, Draws, NoCmd, VBlankCmd, Cmd
<1>7. frame = "none" => MTIF_Kill \/ Joined
  BY <1>1 DEF PPUInv, CallInv, Calm, Write, LineBegins, FirstLine, LinePicture, LineEnds,
     PPU_SyncMT
<1>8. MTIF_Kill \/ Joined => ~Draws(Pending')
  BY CalmCommands DEF Draws, NoCmd, ExitCmd, VBlankCmd, Cmd
<1>9. /\ frame' # "none" => Meant'.es = frame'
      /\ frame' # "espec" => Undone'
  BY <1>1, <1>2, <1>3, <1>6, <1>7, <1>8 DEF PictureInv, PPUInv, Types, Specs
<1>10. CASE Write
  <2>1. ~Draws(Pending') /\ Pending'.cmd # "target"
    BY <1>10, CalmCommands DEF Draws, VBlankCmd, Cmd
  <2>2. UNCHANGED line /\ Step' = Step
    BY <1>10 DEF Write, Step, InCommand
  <2>3. Between' = Between
    BY <2>2 DEF Between
  <2> QED BY <1>1, <1>2, <1>3, <1>4, <1>5, <1>9, <2>1, <2>2, <2>3 DEF PictureInv
<1>11. CASE FirstLine
  <2>1. ~Draws(Pending')
    BY <1>11, CalmCommands DEF Draws, NoCmd, TargetCmd, VBlankCmd, Cmd
  <2>2. Undone
    BY <1>1, <1>2, <1>11 DEF FirstLine, PictureInv, Between
  <2>3. ~VBlank' /\ ~Between' /\ (Step' = "run" \/ Step' = "line1")
    BY <1>2, <1>11 DEF FirstLine, Between, Step, InCommand
  <2> QED BY <1>3, <1>9, <2>1, <2>2, <2>3 DEF PictureInv
<1>12. CASE LineEnds
  <2>1. ~Draws(Pending') /\ Pending'.cmd # "target"
    BY <1>12, CalmCommands DEF Draws, NoCmd, FetchCmd, VBlankCmd, Cmd
  <2>2. Step = "run" /\ Step' = "run" /\ (VBlank' <=> VBlank)
    BY <1>1, <1>12 DEF LineEnds, Step, InCommand
  <2>3. Between' = Between
    BY <1>12 DEF LineEnds, Between
  <2> QED BY <1>1, <1>2, <1>3, <1>4, <1>5, <1>9, <2>1, <2>2, <2>3 DEF PictureInv
<1>13. CASE PPU_SyncMT \/ MTIF_Kill \/ Joined
  <2>1. ~Draws(Pending')
    BY <1>13, CalmCommands DEF Draws, NoCmd, ExitCmd, VBlankCmd, Cmd
  <2>2. Step' \in {"join", "killed"} \/ (Step' = "sync" /\ Step = "ended")
    BY <1>13 DEF PPU_SyncMT, MTIF_Kill, Joined, Step, InCommand
  <2> QED BY <1>2, <1>3, <1>9, <2>1, <2>2 DEF PictureInv
<1>14. CASE LinePicture
  <2>1. /\ UNCHANGED <<scanline, VBlank, SkipFrame>> /\ LinePhase' = 3 /\ Step' = "run"
        /\ Step = "line1" \/ (Step = "run" /\ scanline # 1)
    BY <1>1, <1>14 DEF LinePicture, Step, InCommand
  <2>2. Step = "line1" => scanline = 1 /\ ~VBlank /\ ~SkipFrame /\ scanline \in Drawable
    BY <1>2, ScreenAssumption DEF PPUInv, LineInv, Drawable
  <2>3. CASE ~VBlank /\ scanline \in Drawable /\ ~SkipFrame
    <3>1. Pending' = RenderCmd(scanline)
      BY <1>14, <2>3, CalmCommands
    <3>2. /\ Meant'.LineTarget = scanline /\ scanline = Meant.LineTarget + 1
          /\ Meant'.picture = [Meant.picture EXCEPT ![scanline - 1] =
                                 Pixels(scanline, Meant.reg, Meant.sprites, Meant.es)]
      BY <3>1, CalmStep DEF RenderCmd, Cmd
    <3>3. \A row \in Rows : row < scanline - 1 => Meant.picture[row] # Stale
      <4>1. CASE Step = "line1"
        BY <2>2, <4>1 DEF Rows
      <4>2. CASE Step = "run" /\ scanline # 1
        <5>1. Begun
          BY <1>2, <2>3, <4>2 DEF PictureInv, Between
        <5> QED BY <1>1, <3>2, <5>1 DEF Begun, Renderers
      <4> QED BY <2>1, <4>1, <4>2
    <3>4. Pixels(scanline, Meant.reg, Meant.sprites, Meant.es) # Stale
      BY <1>2, <2>3 DEF Pixels, Stale, None, Drawable
    <3>5. Begun'
      <4> SUFFICES ASSUME NEW row \in Rows, row < scanline PROVE Meant'.picture[row] # Stale
        BY <3>2 DEF Begun
      <4>1. Meant.picture \in [Rows -> PixelSet]
        BY <1>1 DEF Renderers
      <4>2. row = scanline - 1 \/ row < scanline - 1
        BY <1>2 DEF Rows
      <4> QED BY <3>2, <3>3, <3>4, <4>1, <4>2
    <3>6. Between'
      BY <2>1, <2>3 DEF Between
    <3> QED BY <1>9, <2>1, <2>3, <3>5, <3>6 DEF PictureInv
  <2>4. CASE ~(~VBlank /\ scanline \in Drawable /\ ~SkipFrame)
    <3>1. ~Draws(Pending')
      BY <1>14, <2>4, CalmCommands DEF Draws, NoCmd, VBlankCmd, Cmd
    <3>2. Step = "run" /\ ~Between /\ ~Between'
      BY <2>1, <2>2, <2>4 DEF Between
    <3> QED BY <1>1, <1>2, <1>3, <1>9, <2>1, <3>1, <3>2 DEF PictureInv
  <2> QED BY <2>3, <2>4
<1>15. CASE LineBegins
  <2>1. scanline \in Nat /\ LastLine = Height + 1 /\ Height \in Nat /\ Height > 0
    BY <1>15, NextScanline
  <2>2. /\ UNCHANGED SkipFrame /\ LinePhase = 0 /\ LinePhase' = 1 /\ Step = "run"
    BY <1>1, <1>15 DEF LineBegins
  <2>3. CASE scanline' = 0 /\ ~VBlank' /\ scanline = LastLine
    <3>1. ~Draws(Pending')
      BY <1>15, <2>3, CalmCommands DEF Draws, NoCmd, VBlankCmd, Cmd
    <3>2. ~Between /\ ~Between'
      BY <2>1, <2>3 DEF Between, Drawable
    <3>3. Step' = IF FrameBeginVBlank THEN "run" ELSE "ended"
      BY <1>15, <2>1, <2>3, ScreenAssumption DEF LineBegins, Step, InCommand, Drawable
    <3> QED BY <1>1, <1>2, <1>3, <1>9, <2>2, <2>3, <3>1, <3>2, <3>3 DEF PictureInv
  <2>4. CASE VBlank' /\ ~VBlank /\ scanline' = scanline + 1 /\ scanline' > 1 /\ scanline \in Drawable
    <3>1. Pending' = VBlankCmd(SkipFrame)
      BY <1>15, <2>4, CalmCommands
    <3>2. Step' = IF FrameBeginVBlank THEN "ended" ELSE "run"
      BY <1>15, <2>1, <2>4 DEF LineBegins, Step, InCommand, Drawable
    <3>3. Undone' \/ Full'
      <4>1. CASE SkipFrame
        <5>1. ~Draws(Pending') /\ ~Between
          BY <3>1, <4>1 DEF Draws, VBlankCmd, Cmd, Between
        <5> QED BY <1>2, <1>3, <2>2, <2>4, <5>1 DEF PictureInv
      <4>2. CASE ~SkipFrame
        <5>1. Begun
          BY <1>2, <2>2, <2>4, <4>2 DEF PictureInv, Between
        <5>2. Pending' = VBlankCmd(FALSE) /\ Pending'.cmd # "render"
          BY <3>1, <4>2 DEF VBlankCmd, Cmd
        <5>3. Meant'.picture = [row \in Rows |-> IF row < Meant.LineTarget
                                                 THEN Meant.picture[row] ELSE Black(Meant.es)]
          BY <5>2, CalmStep
        <5>4. Black(Meant.es) # Stale
          BY DEF Black, Stale, Pixels, None
        <5> QED BY <5>1, <5>3, <5>4 DEF Begun, Full
      <4> QED BY <4>1, <4>2
    <3> QED BY <1>1, <1>9, <2>4, <3>2, <3>3 DEF PictureInv, Between
  <2>5. CASE /\ (VBlank' <=> VBlank) /\ scanline' = scanline + 1 /\ UNCHANGED call
             /\ scanline' \in Drawable \/ VBlank
    <3>1. Step' = "run" /\ Pending' = NoCmd
      BY <1>15, <2>5 DEF LineBegins, Step, InCommand, Pending
    <3>2. ~Draws(Pending') /\ Pending'.cmd # "target"
      BY <3>1 DEF Draws, NoCmd, VBlankCmd, Cmd
    <3>3. ~VBlank' => Between' = Between
      BY <2>1, <2>2, <2>5 DEF Between, Drawable
    <3>4. CASE VBlank
      <4>1. (Undone' <=> Undone) /\ (Full' <=> Full)
        BY <1>3, <3>2
      <4>2. Undone \/ (Full /\ ~FrameBeginVBlank)
        BY <1>2, <2>2, <3>4 DEF PictureInv
      <4>3. Undone' \/ (Full' /\ ~FrameBeginVBlank')
        BY <1>1, <4>1, <4>2
      <4>4. VBlank' /\ ~Between'
        BY <2>5, <3>4 DEF Between
      <4> QED BY <1>9, <3>1, <4>3, <4>4 DEF PictureInv
    <3>5. CASE ~VBlank
      <4>1. (Undone' <=> Undone) /\ (Begun' <=> Begun) /\ (Between' <=> Between)
        BY <1>3, <1>4, <1>5, <2>5, <3>2, <3>3, <3>5
      <4> QED BY <1>2, <1>9, <2>2, <2>5, <3>1, <3>5, <4>1 DEF PictureInv
    <3> QED BY <3>4, <3>5
  <2> QED BY <1>15, <2>3, <2>4, <2>5, NextBlanking
<1> QED BY <1>10, <1>11, <1>12, <1>13, <1>14, <1>15 DEF Calm

(* The emulation writes to the renderer's state.                            *)
LEMMA DrawnReplaced ==
  ASSUME PPUInv, PPUInv', DrawnInv, [Next]_vars, Replaces PROVE DrawnInv'
<1> USE DEF settings, call, line, machine, Go, Call
<1>1. /\ Meant = rend /\ Meant' = rend' /\ rend \in Renderers /\ rend' \in Renderers
      /\ Pending' = NoCmd /\ (scanline' \notin Drawable \/ VBlank')
  <2>1. Types'
    BY DEF PPUInv
  <2> QED BY <2>1, ReplacedQueue, Neutral DEF Meant
<1>2. LinesInv'
  <2>1. ret' = ret /\ hand' = hand
    BY DEF Replaces, Emulate, Synced, LoadState, Reset
  <2>2. LastLine > 1
    BY ScreenAssumption DEF LastLine
  <2>3. (VBlank => scanline > 1)'
    <3>1. CASE Synced
      BY <3>1 DEF Synced, Load, DrawnInv, LinesInv
    <3>2. CASE LoadState
      BY <2>2, <3>2 DEF LoadState, Load
    <3>3. CASE Reset \/ Emulate
      BY <3>3 DEF Reset, Emulate, DrawnInv, LinesInv
    <3> QED BY <3>1, <3>2, <3>3 DEF Replaces
  <2>4. saved' = saved \/ saved' = NotSaved
    BY DEF Replaces, Emulate, Synced, LoadState, Reset
  <2> QED BY <2>1, <2>3, <2>4 DEF LinesInv, DrawnInv, NotSaved
<1>3. SkipFrame' = SkipFrame
  BY DEF Replaces, Emulate, Synced, LoadState, Reset, Load
<1>4. /\ Meant'.sprites = Meant.sprites \/ Meant'.sprites = None
      /\ Reset \/ (LinePhase' = LinePhase /\ UNCHANGED <<scanline, Meant.sprites>>)
               \/ LinePhase' = 1
  <2>1. CASE Emulate
    BY <1>1, <2>1 DEF Emulate, Renderers
  <2>2. CASE Synced
    <3>1. LinePhase' = 1
      BY <2>2 DEF Synced, PPUInv, LineInv, Step, InCommand
    <3> QED BY <1>1, <2>2, <3>1 DEF Synced, Load, Renderers
  <2>3. CASE LoadState
    BY <1>1, <2>3 DEF LoadState, Load, Renderers
  <2>4. CASE Reset
    BY <1>1, <2>4 DEF Reset, Renderers
  <2> QED BY <2>1, <2>2, <2>3, <2>4 DEF Replaces
<1>5. SpriteInv'
  <2>1. SkipFrame' => Meant'.sprites \in FirstLines
    BY <1>3, <1>4 DEF DrawnInv, SpriteInv, FirstLines, PPUInv, Types
  <2>2. ~SkipFrame' /\ scanline' = 0 /\ LinePhase' = 0 => Meant'.sprites = 0
    <3>1. Reset => scanline' # 0
      BY ScreenAssumption DEF Reset, LastLine
    <3> QED BY <1>3, <1>4, <3>1 DEF DrawnInv, SpriteInv, PPUInv, Types
  <2> QED BY <1>1, <2>1, <2>2 DEF SpriteInv
<1>6. PictureInv'
  <2>1. ~Between'
    BY <1>1 DEF Between
  <2>2. Undone'
    <3>1. CASE Emulate \/ Reset
      <4>1. Undone
        BY <3>1 DEF Emulate, Reset, DrawnInv, PictureInv, PPUInv, CallInv, Step, InCommand
      <4> QED BY <1>1, <3>1, <4>1 DEF Emulate, Reset, Undone, Renderers
    <3>2. CASE Synced \/ LoadState
      BY <1>1, <3>2 DEF Synced, LoadState, Load, Undone, Renderers
    <3> QED BY <3>1, <3>2 DEF Replaces
  <2>3. frame' # "none" => Meant'.es = frame'
    BY <1>1 DEF Replaces, Emulate, Synced, LoadState, Reset, PPUInv, CallInv, Step,
       InCommand, Renderers
  <2> QED BY <2>1, <2>2, <2>3 DEF PictureInv
<1>7. AskInv'
  BY <1>1 DEF AskInv, NoCmd, VBlankCmd, Cmd
<1> QED BY <1>2, <1>5, <1>6, <1>7 DEF DrawnInv

LEMMA DrawnAhead ==
  ASSUME PPUInv, PPUInv', DrawnInv, [Next]_vars, Ahead PROVE DrawnInv'
<1> USE DEF settings, call, line, machine, Go, Call
<1>1. /\ Meant = Eventual /\ Meant' = [Meant EXCEPT !.es = "espec"]
      /\ Meant \in Renderers /\ Pending' = NoCmd
  <2>1. Types'
    BY DEF PPUInv
  <2> QED BY <2>1, AheadQueue, QueueFacts, Neutral DEF Meant
<1>2. /\ UNCHANGED <<line, hand, ret>> /\ saved'.scanline = scanline
      /\ (saved'.VBlank <=> VBlank) /\ Step' = "run" /\ Step = "ended"
      /\ frame' = "espec" /\ frame = "tmp"
  BY DEF Ahead, Step, InCommand
<1>3. LinesInv'
  BY <1>2 DEF DrawnInv, LinesInv
<1>4. SpriteInv'
  BY <1>1, <1>2 DEF DrawnInv, SpriteInv, Renderers
<1>5. PictureInv'
  <2>1. Undone' /\ Meant'.es = "espec"
    BY <1>1, <1>2 DEF DrawnInv, PictureInv, Undone, Renderers
  <2>2. ~Between'
    BY <1>2 DEF PPUInv, LineInv, Between
  <2> QED BY <1>2, <2>1, <2>2 DEF PictureInv
<1>6. AskInv'
  BY <1>1 DEF AskInv, NoCmd, VBlankCmd, Cmd
<1> QED BY <1>3, <1>4, <1>5, <1>6 DEF DrawnInv

LEMMA DrawnNext == PPUInv /\ PPUInv' /\ DrawnInv /\ [Next]_vars => DrawnInv'
<1> SUFFICES ASSUME PPUInv, PPUInv', DrawnInv, [Next]_vars PROVE DrawnInv'
  OBVIOUS
<1> USE DEF settings, call, line, machine, Go, Call
<1>1. Types'
  BY DEF PPUInv
<1>2. CASE Calm
  BY <1>2, CalmLines, CalmSprites, CalmPicture, CalmAsk DEF DrawnInv
<1>3. CASE (Put /\ NextPos # ReadPos) \/ Room
  <2>1. Meant' = Meant /\ Step' = Step /\ Pending' = NoCmd
        /\ UNCHANGED <<frame, line, machine, settings>>
    BY <1>1, <1>3, AdvanceStep, Neutral DEF Meant
  <2>2. ret' = "join" => ret = "join" /\ hand' = hand
    BY <1>3 DEF Put, Room, Advance
  <2> QED BY <2>1, <2>2, DrawnStays
<1>4. CASE Quiet
  <2>1. /\ Eventual' = Eventual /\ Pending' = Pending
        /\ UNCHANGED <<frame, line, machine, settings>>
        /\ Step' = Step \/ (Step = "sync" /\ Step' = "drain")
    BY <1>1, <1>4, QuietQueue
  <2>2. Meant' = Meant
    BY <2>1 DEF Meant
  <2>3. ret' = "join" => ret = "join" /\ hand' = hand
    BY <1>4 DEF Quiet, Put, Publish, Refresh, Store, Look, Execute, vars, emulation
  <2> QED BY <2>1, <2>2, <2>3, DrawnStays
<1>5. CASE Replaces
  BY <1>5, DrawnReplaced
<1>6. CASE Ahead
  BY <1>6, DrawnAhead
<1> QED BY <1>2, <1>3, <1>4, <1>5, <1>6
        DEF Next, EmuWaits, EmuCalls, EmuRuns, RenderThread, Calm, Quiet, Replaces,
            TimesOut, Terminated

LEMMA DrawnInvariance == Spec => []DrawnInv
<1>1. PPUInv /\ [Next]_vars => PPUInv'
  BY PPUInvNext
<1> QED BY <1>1, DrawnInitInv, DrawnNext, PPUInvariance, PTL DEF Spec
-----------------------------------------------------------------------------
Open == emu \notin {"idle", "join", "killed"} /\ hand.cmd # "exit"

LEMMA SameData ==
  /\ \A l, v, s, e : ST!Pixels(l, v, s, e) = Pixels(l, v, s, e)
  /\ ST!Stale = Stale /\ ST!Blank = Blank /\ ST!Rows = Rows /\ ST!None = None
  /\ ST!Drawable = Drawable
  /\ \A v : ST!WriteCmd(v) = WriteCmd(v) /\ ST!FetchCmd(v) = FetchCmd(v)
            /\ ST!RenderCmd(v) = RenderCmd(v)
  /\ ST!TargetCmd = TargetCmd /\ ST!VBlankCmd(FALSE) = VBlankCmd(FALSE)
<1> USE DEF Pixels, ST!Pixels, Stale, ST!Stale, None, ST!None, Rows, ST!Rows, Blank, ST!Blank,
   Drawable, ST!Drawable, WriteCmd, FetchCmd, RenderCmd, TargetCmd, VBlankCmd,
   ST!WriteCmd, ST!FetchCmd, ST!RenderCmd, ST!TargetCmd, ST!VBlankCmd, Cmd, ST!Cmd
<1> QED OBVIOUS

LEMMA SameExecuted == \A x, e : ST!Executed(x, e) = Executed(x, e)
<1>1. \A x, l : ST!RenderLine(x, l) = RenderLine(x, l)
  BY SameData DEF ST!RenderLine, RenderLine
<1>2. \A x : ST!RenderZero(x) = RenderZero(x)
  BY SameData DEF ST!RenderZero, RenderZero, Black, ST!Black
<1> QED BY <1>1, <1>2 DEF Executed, ST!Executed

LEMMA STInitial == Init => ST!Init
<1> SUFFICES ASSUME Init PROVE ST!Init
  OBVIOUS
<1>1. Eventual = rend
  <2>1. Types /\ Queued = 0
    BY PPUInitInv, RingAssumption, Modulo DEF Init, Queued, PPUInv
  <2> QED BY <2>1, AfterEmpty DEF Eventual
<1>2. rend \in [reg : Values, sprites : {None}, LineTarget : {0},
               es : {"none"}, picture : {Blank}]
  BY DEF Init
<1>3. ~Open
  BY DEF Init, Open
<1> QED BY <1>1, <1>2, <1>3, SameData DEF ST!Init, Open

(* A command comes into the ring: the single-threaded renderer executes it. *)
LEMMA STCommand ==
  ASSUME PPUInv, PPUInv', DrawnInv, [Next]_vars, (Put /\ NextPos # ReadPos) \/ Room
  PROVE  [ST!Next]_(ST!vars)
<1>1. /\ Eventual' = Executed(Eventual, hand) /\ Pending = hand /\ InCommand
      /\ Eventual \in Renderers /\ hand \in Commands /\ Legal(Eventual, hand)
  <2>1. Types'
    BY DEF PPUInv
  <2> QED BY <2>1, AdvanceStep, QueueFacts DEF Meant
<1>2. /\ SpriteInv /\ PictureInv /\ AskInv /\ (hand.cmd = "exit" <=> ret = "join")
  BY DEF DrawnInv, LinesInv, PPUInv, CallInv
<1>3. Open <=> hand.cmd # "exit"
  BY <1>1 DEF Open, InCommand
<1>4. Open' <=> Open
  <2>1. Advance /\ emu \in {"put", "room"}
    BY DEF Put, Room
  <2> QED BY <1>2, <1>3, <2>1 DEF Advance, Go, Open, NoCmd, Cmd, PPUInv, Types
<1>5. ASSUME Draws(hand) PROVE Eventual.es = "espec" /\ Open
  <2>1. hand.cmd # "exit"
    BY <1>5 DEF Draws, VBlankCmd, Cmd
  <2>2. ret # "join" /\ frame # "tmp"
    BY <1>2, <1>5, <2>1 DEF PPUInv, QueueInv, Undrawn
  <2>3. frame = "espec"
    BY <1>1, <2>2 DEF PPUInv, CallInv, Step, Types, Specs
  <2>4. Meant.es = "espec" /\ Meant = Executed(Eventual, hand)
    BY <1>1, <1>2, <2>3 DEF PictureInv, Meant
  <2> QED BY <1>1, <1>3, <2>1, <2>4, ExecutedFields
<1> USE DEF NoCmd, TargetCmd, ExitCmd, WriteCmd, FetchCmd, RenderCmd, VBlankCmd, Cmd
<1>6. CASE hand \in {NoCmd, ExitCmd, VBlankCmd(TRUE)}
  <2>1. Eventual' = Eventual
    BY <1>1, <1>6 DEF Executed
  <2> QED BY <1>4, <2>1 DEF ST!vars, Open
<1>7. CASE hand = TargetCmd
  <2>1. Open /\ Open' /\ Eventual.picture = Blank
    BY <1>1, <1>2, <1>3, <1>4, <1>7 DEF AskInv
  <2> QED BY <1>1, <1>7, <2>1, SameData, SameExecuted DEF ST!Next, ST!Target, Open
<1>8. CASE \E v \in Values : hand = WriteCmd(v)
  <2>1. Open /\ Open'
    BY <1>3, <1>4, <1>8
  <2> QED BY <1>1, <1>8, <2>1, SameData, SameExecuted DEF ST!Next, ST!Write, Open
<1>9. CASE \E l \in {0} \cup Drawable : hand = FetchCmd(l)
  <2>1. Open /\ Open'
    BY <1>3, <1>4, <1>9
  <2> QED BY <1>1, <1>9, <2>1, SameData, SameExecuted DEF ST!Next, ST!Fetch, Open
<1>10. CASE \E l \in Drawable : hand = RenderCmd(l)
  <2>1. PICK l \in Drawable : hand = RenderCmd(l)
    BY <1>10
  <2>2. Open /\ Open' /\ Eventual.es = "espec"
    BY <1>4, <1>5, <2>1 DEF Draws
  <2>3. Eventual.LineTarget = l - 1
    BY <1>1, <2>1 DEF Legal, Drawable, Renderers
  <2>4. Eventual.sprites = l - 1 \/ (l = 1 /\ Eventual.sprites = None)
    BY <1>1, <1>2, <2>1 DEF AskInv
  <2> QED BY <1>1, <2>1, <2>2, <2>3, <2>4, SameData, SameExecuted DEF ST!Next, ST!Render, Open
<1>11. CASE hand = VBlankCmd(FALSE)
  <2>1. Open /\ Open' /\ Eventual.es = "espec"
    BY <1>4, <1>5, <1>11 DEF Draws
  <2>2. Eventual.picture # Blank
    BY <1>1, <1>2, <1>11 DEF AskInv
  <2> QED BY <1>1, <1>11, <2>1, <2>2, SameData, SameExecuted DEF ST!Next, ST!VBlank, Open
<1> QED BY <1>1, <1>6, <1>7, <1>8, <1>9, <1>10, <1>11 DEF Commands

LEMMA STReplaces ==
  ASSUME PPUInv, PPUInv', DrawnInv, DrawnInv', [Next]_vars, Replaces \/ Ahead
  PROVE  [ST!Next]_(ST!vars)
<1> USE DEF settings, call, line, machine, Go, Call
<1>1. Types'
  BY DEF PPUInv
<1>2. Replaces => /\ Eventual = rend /\ Eventual' = rend' /\ rend \in Renderers
                  /\ rend' \in Renderers /\ Meant = rend /\ Meant' = rend'
                  /\ rend'.reg = raw'
  BY <1>1, ReplacedQueue, Neutral DEF Meant
<1>3. ~InCommand => hand.cmd # "exit"
  BY DEF PPUInv, CallInv, NoCmd, Cmd
<1>4. CASE Emulate
  <2>1. ~Open /\ Open'
    BY <1>3, <1>4 DEF Emulate, Open, InCommand
  <2>2. rend' \in {[rend EXCEPT !.es = e] : e \in {"tmp", "espec"}}
    BY <1>4 DEF Emulate
  <2> QED BY <1>2, <1>4, <2>1, <2>2 DEF Replaces, ST!Next, ST!Emulate, Open
<1>5. CASE Ahead
  <2>1. Open /\ Open'
    BY <1>3, <1>5 DEF Ahead, Open, InCommand
  <2>2. Eventual' = [Eventual EXCEPT !.es = "espec"] /\ Meant = Eventual
    BY <1>1, <1>5, AheadQueue, Neutral DEF Meant
  <2>3. Eventual.es = "tmp"
    BY <1>5, <2>2 DEF Ahead, DrawnInv, PictureInv
  <2> QED BY <2>1, <2>2, <2>3 DEF ST!Next, ST!NextFrame, Open
<1>6. CASE Synced
  <2>1. Open /\ ~Open'
    BY <1>3, <1>6 DEF Synced, Open, InCommand
  <2>2. rend.es = "espec"
    BY <1>2, <1>6 DEF Replaces, Synced, PPUInv, CallInv, DrawnInv, PictureInv
  <2>3. rend.picture = Blank \/ \A row \in Rows : rend.picture[row] # Stale
    <3>1. Undone \/ Full
      BY <1>6 DEF Synced, DrawnInv, PictureInv, Step, InCommand
    <3> QED BY <1>2, <1>6, <3>1 DEF Replaces, Undone, Full
  <2>4. \E v \in Values : rend' = [rend EXCEPT !.reg = v, !.picture = Blank]
    <3>1. CASE SpecEx
      <4>1. saved.reg \in Values /\ rend' = [rend EXCEPT !.reg = saved.reg, !.picture = Blank]
        BY <1>6, <3>1 DEF Synced, Load, PPUInv, CallInv
      <4> QED BY <4>1
    <3>2. CASE ~SpecEx
      <4>1. rend' = [rend EXCEPT !.picture = Blank] /\ rend \in Renderers
        BY <1>2, <1>6, <3>2 DEF Synced, Replaces
      <4>2. rend' = [rend EXCEPT !.reg = rend.reg, !.picture = Blank] /\ rend.reg \in Values
        BY <4>1 DEF Renderers
      <4> QED BY <4>2
    <3> QED BY <3>1, <3>2
  <2>5. ST!Blank = Blank /\ ST!Stale = Stale /\ ST!Rows = Rows
    BY SameData
  <2>6. Eventual = rend /\ Eventual' = rend'
    BY <1>2, <1>6 DEF Replaces
  <2>7. ST!Return
    BY <2>1, <2>2, <2>3, <2>4, <2>5, <2>6 DEF ST!Return, Open
  <2> QED BY <2>7 DEF ST!Next
<1>7. CASE LoadState \/ Reset
  <2>1. ~Open /\ ~Open'
    BY <1>7 DEF LoadState, Reset, Open
  <2>2. \E v \in Values, s \in {rend.sprites, None} : rend' = [rend EXCEPT !.reg = v, !.sprites = s]
    <3>1. CASE LoadState
      <4>1. PICK v \in Values, blank \in BOOLEAN : Load(v, IF blank THEN LastLine ELSE 0, blank)
        BY <3>1 DEF LoadState
      <4>2. rend' = [rend EXCEPT !.reg = v, !.picture = Blank]
        BY <4>1 DEF Load
      <4>3. rend.picture = Blank
        BY <1>2, <3>1 DEF Replaces, LoadState, DrawnInv, PictureInv, Undone, PPUInv, CallInv,
           Step, InCommand
      <4>4. rend' = [rend EXCEPT !.reg = v, !.sprites = rend.sprites]
        BY <1>2, <3>1, <4>2, <4>3 DEF Replaces, Renderers
      <4> QED BY <4>4
    <3>2. CASE Reset
      BY <3>2 DEF Reset
    <3> QED BY <1>7, <3>1, <3>2
  <2> QED BY <1>2, <1>7, <2>1, <2>2, SameData DEF Replaces, ST!Next, ST!LoadState, Open
<1> QED BY <1>4, <1>5, <1>6, <1>7 DEF Replaces

LEMMA STStep ==
  ASSUME PPUInv, PPUInv', DrawnInv, DrawnInv', [Next]_vars PROVE [ST!Next]_(ST!vars)
<1> USE DEF settings, call, line, machine, Go, Call
<1>1. Types'
  BY DEF PPUInv
<1>2. CASE Calm
  <2>1. Eventual' = Eventual
    BY <1>1, <1>2, CalmQueue
  <2>2. Open' <=> Open
    <3>1. emu \in {"run", "line1", "ended", "idle", "join"} /\ hand.cmd # "exit"
      BY <1>2 DEF Calm, Write, LineBegins, FirstLine, LinePicture, LineEnds, PPU_SyncMT,
         MTIF_Kill, Joined, PPUInv, CallInv, InCommand, NoCmd, Cmd
    <3>2. CASE MTIF_Kill \/ Joined
      BY <3>2 DEF MTIF_Kill, Joined, Open, ExitCmd, Cmd
    <3>3. CASE ~(MTIF_Kill \/ Joined)
      <4>1. emu \in {"run", "line1", "ended"}
            /\ emu' \in {"run", "line1", "ended", "put", "sync"}
        BY <1>2, <3>3 DEF Calm, Write, LineBegins, FirstLine, LinePicture, LineEnds, PPU_SyncMT
      <4>2. hand'.cmd # "exit"
        <5>1. Pending'.cmd # "exit"
          BY <1>2, <3>3, CalmCommands DEF Calm, NoCmd, VBlankCmd, TargetCmd, RenderCmd,
             FetchCmd, Cmd
        <5>2. emu' = "put" \/ hand' = NoCmd
          BY <4>1 DEF PPUInv, CallInv, InCommand
        <5> QED BY <5>1, <5>2 DEF Pending, NoCmd, Cmd
      <4> QED BY <3>1, <4>1, <4>2 DEF Open
    <3> QED BY <3>2, <3>3
  <2> QED BY <2>1, <2>2 DEF ST!vars, Open
<1>3. CASE (Put /\ NextPos # ReadPos) \/ Room
  BY <1>3, STCommand
<1>4. CASE Quiet
  <2>1. Eventual' = Eventual
    BY <1>1, <1>4, QuietQueue
  <2>2. Open' <=> Open
    <3>1. CASE Refresh
      <4>1. hand.cmd = "exit" <=> ret = "join"
        BY DEF DrawnInv, LinesInv, PPUInv, CallInv
      <4> QED BY <3>1, <4>1 DEF Refresh, Open, PPUInv, Types, NoCmd, Cmd
    <3>2. CASE Quiet /\ ~Refresh
      BY <3>2 DEF Quiet, Put, Publish, Store, Look, Execute, vars, emulation, Open
    <3> QED BY <1>4, <3>1, <3>2
  <2> QED BY <2>1, <2>2 DEF ST!vars, Open
<1>5. CASE Replaces \/ Ahead
  BY <1>5, STReplaces
<1> QED BY <1>2, <1>3, <1>4, <1>5
        DEF Next, EmuWaits, EmuCalls, EmuRuns, RenderThread, Calm, Quiet, Replaces,
            TimesOut, Terminated

THEOREM DrawsAsSingleThreaded == Spec => ImplementsST
<1>1. PPUInv /\ PPUInv' /\ DrawnInv /\ DrawnInv' /\ [Next]_vars => [ST!Next]_(ST!vars)
  BY STStep
<1> QED BY <1>1, STInitial, PPUInvariance, DrawnInvariance, PTL DEF Spec, ImplementsST, ST!Spec
=============================================================================
