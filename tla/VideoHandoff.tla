---------------------------- MODULE VideoHandoff ----------------------------
(***************************************************************************)
(* The two threads of the front end, drivers/main.cpp.  The game thread    *)
(* (GameLoop) emulates a frame into one of two buffers and hands it to the *)
(* main thread through VTReady; the main thread (MainVideoLoop) blits it,  *)
(* owns the window and decides when to exit.  Nothing but the mutex around *)
(* NeedVideoSync is locked: buffers change hands by VTReady alone.         *)
(*                                                                         *)
(* A wait with a timeout or a sleep in a loop is a step that need not be   *)
(* taken; PassBlit()'s look at the clock is a free choice.                 *)
(***************************************************************************)
EXTENDS Integers

VARIABLES
  sc_blit_timesync,  \* a setting, read when the game is started
  gt,            \* the game thread
  BackBuffer,    \* SoftFB_BackBuffer
  fskip,
  InFrameAdvance, NeedFrameAdvance, GameLoopPaused,
  which,         \* the buffer MDFND_Update() was called with, or NoBuffer
  passed,        \* what PassBlit() returned in this call
  do_flip,
  mt,            \* the main thread
  vtr,           \* the buffer being blitted
  FirstVideoSync, VideoError,
  VTReady, NeedVideoSync, NeedExitNow, GameThreadRun,
  snapshot,      \* pending_ssnapshot
  honoured,      \* history: a Video_Sync() began after the last request
  repainted      \* history: the game was held since a blit last ended
holdVars == <<InFrameAdvance, NeedFrameAdvance, GameLoopPaused>>
drawVars == <<BackBuffer, fskip, which, passed, do_flip>>
mtVars == <<mt, vtr, FirstVideoSync, VideoError>>
histVars == <<sc_blit_timesync, honoured, repainted>>
videoVars == <<gt, drawVars, holdVars, mtVars, VTReady, NeedVideoSync, NeedExitNow,
          GameThreadRun, snapshot, histVars>>

NoBuffer == -1
Buffers == {0, 1}
Other(b) == 1 - b
Held == (InFrameAdvance /\ ~NeedFrameAdvance) \/ GameLoopPaused

(* The main thread holds VTMutex from the top of its loop to the end.       *)
MutexFree == mt \notin {"pump", "sync", "present", "blit", "caught"}
-----------------------------------------------------------------------------
VideoInit ==
  /\ sc_blit_timesync \in BOOLEAN
  /\ gt = "top" /\ BackBuffer \in Buffers /\ fskip = FALSE
  /\ InFrameAdvance = FALSE /\ NeedFrameAdvance = FALSE
  /\ GameLoopPaused = FALSE
  /\ which = NoBuffer /\ passed = FALSE /\ do_flip = FALSE
  /\ mt = "top" /\ vtr = NoBuffer /\ FirstVideoSync = TRUE /\ VideoError = FALSE
  /\ VTReady = NoBuffer /\ NeedVideoSync = TRUE /\ NeedExitNow = FALSE
  /\ GameThreadRun = TRUE /\ snapshot = FALSE
  /\ honoured = FALSE /\ repainted = FALSE
-----------------------------------------------------------------------------
(* The game thread.                                                         *)

(* while(GameThreadRun) { while(NeedVideoSync) { if(!GameThreadRun) ...     *)
GameExit ==
  /\ gt \in {"top", "syncwait"} /\ ~GameThreadRun
  /\ gt = "top" \/ NeedVideoSync
  /\ gt' = "exited"
  /\ UNCHANGED <<drawVars, holdVars, mtVars, VTReady, NeedVideoSync, NeedExitNow,
                 GameThreadRun, snapshot, histVars>>
GameTop ==
  /\ gt = "top" /\ GameThreadRun
  /\ gt' = "syncwait"
  /\ UNCHANGED <<drawVars, holdVars, mtVars, VTReady, NeedVideoSync, NeedExitNow,
                 GameThreadRun, snapshot, histVars>>

(* A frame begins: from here on SoftFB[SoftFB_BackBuffer] is written to.    *)
(* Fast-forwarding (NoWaiting) may skip any frame.  do_flip is declared in  *)
(* the block entered after the frame.                                       *)
BeginFrame ==
  /\ gt = "syncwait" /\ ~NeedVideoSync
  /\ gt' = "emulate" /\ fskip' \in BOOLEAN /\ do_flip' = FALSE
  /\ NeedFrameAdvance' = FALSE
  /\ UNCHANGED <<BackBuffer, InFrameAdvance, GameLoopPaused, which, passed,
                 mtVars, VTReady, NeedVideoSync, NeedExitNow, GameThreadRun, snapshot, histVars>>

(* DebuggerFudge(), in the middle of MDFNI_Emulate().                       *)
Fudge ==
  /\ gt = "emulate" /\ GameThreadRun
  /\ gt' = "fudge" /\ which' = Other(BackBuffer) /\ passed' = FALSE
  /\ UNCHANGED <<BackBuffer, fskip, do_flip, holdVars, mtVars, VTReady,
                 NeedVideoSync, NeedExitNow, GameThreadRun, snapshot, histVars>>

EndFrame ==
  /\ gt = "emulate"
  /\ gt' = "update"
  /\ UNCHANGED <<drawVars, holdVars, mtVars, VTReady, NeedVideoSync, NeedExitNow,
                 GameThreadRun, snapshot, histVars>>

(* The call of MDFND_Update() in the do loop.                               *)
CallUpdate ==
  /\ gt = "update"
  /\ gt' = "blit1" /\ passed' = FALSE
  /\ which' = IF fskip THEN IF Held THEN Other(BackBuffer) ELSE NoBuffer
              ELSE BackBuffer
  /\ UNCHANGED <<BackBuffer, fskip, do_flip, holdVars, mtVars, VTReady,
                 NeedVideoSync, NeedExitNow, GameThreadRun, snapshot, histVars>>

(* PassBlit(): before the sound, or after it and the input.                 *)
AtPassBlit == \/ gt \in {"blit1", "fudge"} /\ ~sc_blit_timesync
              \/ gt = "blit2" /\ sc_blit_timesync
              \/ gt = "fudge2" /\ sc_blit_timesync
AfterPassBlit ==
  \/ gt = "blit1" /\ gt' = "events"
  \/ gt = "blit2" /\ gt' = "updated"
  \/ gt = "fudge" /\ gt' = "fudgeevents"
  \/ gt = "fudge2" /\ gt' = "emulate"
Pass ==
  /\ AtPassBlit /\ which # NoBuffer
  /\ VTReady = NoBuffer
  /\ VTReady' = which /\ snapshot' = FALSE /\ passed' = TRUE
  /\ AfterPassBlit
  /\ UNCHANGED <<BackBuffer, fskip, do_flip, which, holdVars, mtVars,
                 NeedVideoSync, NeedExitNow, GameThreadRun, histVars>>
(* Mutation: a pending snapshot is waited for even when the game is to end. *)
MayNotPass_Snapshot == ~snapshot
MayNotPass == ~GameThreadRun \/ ~snapshot
DoNotPass ==
  /\ AtPassBlit
  /\ which = NoBuffer \/ (VTReady # NoBuffer /\ MayNotPass)
  /\ AfterPassBlit
  /\ UNCHANGED <<drawVars, holdVars, mtVars, VTReady, NeedVideoSync, NeedExitNow,
                 GameThreadRun, snapshot, histVars>>
OtherPosition ==
  /\ \/ gt \in {"blit1", "fudge"} /\ sc_blit_timesync
     \/ gt \in {"blit2", "fudge2"} /\ ~sc_blit_timesync
  /\ AfterPassBlit
  /\ UNCHANGED <<drawVars, holdVars, mtVars, VTReady, NeedVideoSync, NeedExitNow,
                 GameThreadRun, snapshot, histVars>>

(* GameThread_HandleEvents() and Input_Update(): the commands that matter   *)
(* here, any number of them, and the end of them.                           *)
DoRunNormal == NeedFrameAdvance' = FALSE /\ InFrameAdvance' = FALSE
DoFrameAdvance == /\ NeedFrameAdvance' = (NeedFrameAdvance \/ InFrameAdvance)
                  /\ InFrameAdvance' = TRUE
Command ==
  /\ gt \in {"events", "fudgeevents"}
  /\ \/ snapshot' = TRUE /\ UNCHANGED holdVars
     \/ /\ \/ DoRunNormal /\ UNCHANGED GameLoopPaused
           \/ DoFrameAdvance /\ UNCHANGED GameLoopPaused
           \/ /\ GameLoopPaused' = ~GameLoopPaused
              /\ UNCHANGED <<InFrameAdvance, NeedFrameAdvance>>
        /\ UNCHANGED snapshot
  /\ UNCHANGED <<gt, drawVars, mtVars, VTReady, NeedVideoSync, NeedExitNow,
                 GameThreadRun, histVars>>
EventsDone ==
  /\ gt \in {"events", "fudgeevents"}
  /\ gt' = IF gt = "events" THEN "blit2" ELSE "fudge2"
  /\ UNCHANGED <<drawVars, holdVars, mtVars, snapshot, VTReady, NeedVideoSync, NeedExitNow,
                 GameThreadRun, histVars>>

(* GT_ToggleFS(), GT_ReinitVideo().                                         *)
(* Mutation: without VTMutex.                                               *)
ToggleFS_NoLock ==
  /\ gt \in {"events", "fudgeevents"}
  /\ gt' = IF gt = "events" THEN "toggle" ELSE "fudgetoggle"
  /\ NeedVideoSync' = TRUE /\ honoured' = FALSE
  /\ UNCHANGED <<drawVars, holdVars, mtVars, VTReady, NeedExitNow, GameThreadRun,
                 snapshot, sc_blit_timesync, repainted>>
ToggleFS ==
  /\ gt \in {"events", "fudgeevents"} /\ MutexFree
  /\ gt' = IF gt = "events" THEN "toggle" ELSE "fudgetoggle"
  /\ NeedVideoSync' = TRUE /\ honoured' = FALSE
  /\ UNCHANGED <<drawVars, holdVars, mtVars, VTReady, NeedExitNow, GameThreadRun,
                 snapshot, sc_blit_timesync, repainted>>
(* Mutation: the end of the game is not looked for.                         *)
Toggled_NoRunCheck ==
  /\ gt \in {"toggle", "fudgetoggle"} /\ ~NeedVideoSync
  /\ gt' = IF gt = "toggle" THEN "events" ELSE "fudgeevents"
  /\ UNCHANGED <<drawVars, holdVars, mtVars, VTReady, NeedVideoSync, NeedExitNow,
                 GameThreadRun, snapshot, histVars>>
Toggled ==
  /\ gt \in {"toggle", "fudgetoggle"} /\ ~(NeedVideoSync /\ GameThreadRun)
  /\ gt' = IF gt = "toggle" THEN "events" ELSE "fudgeevents"
  /\ UNCHANGED <<drawVars, holdVars, mtVars, VTReady, NeedVideoSync, NeedExitNow,
                 GameThreadRun, snapshot, histVars>>

(* MDFND_Update() returned.  Its result is kept for the buffer just drawn,  *)
(* not for a repaint of the other one.  The loop repeats while the game is  *)
(* held; then the buffers are exchanged if the last call passed one on.     *)
(* Mutation: the buffers are exchanged although the frame was not passed.   *)
Flip_Always == IF fskip THEN do_flip ELSE TRUE
Flip == IF which = Other(BackBuffer) THEN do_flip ELSE passed
Updated ==
  /\ gt = "updated"
  /\ do_flip' = Flip
  /\ IF Held /\ GameThreadRun
     THEN gt' = "update" /\ repainted' = TRUE /\ UNCHANGED BackBuffer
     ELSE /\ gt' = "top" /\ UNCHANGED repainted
          /\ BackBuffer' = IF do_flip' THEN Other(BackBuffer) ELSE BackBuffer
  /\ UNCHANGED <<fskip, which, passed, holdVars, mtVars, VTReady, NeedVideoSync,
                 NeedExitNow, GameThreadRun, snapshot, sc_blit_timesync,
                 honoured>>
-----------------------------------------------------------------------------
(* The main thread.                                                         *)
MainTop ==
  /\ mt \in {"top", "close"}
  /\ IF mt = "top" /\ ~NeedExitNow
     THEN mt' = "pump" /\ UNCHANGED GameThreadRun
     ELSE mt' = "join" /\ GameThreadRun' = FALSE
  /\ UNCHANGED <<gt, drawVars, holdVars, vtr, FirstVideoSync, VideoError, VTReady,
                 NeedVideoSync, NeedExitNow, snapshot, histVars>>

CloseGame ==
  /\ mt = "join" /\ gt = "exited"
  /\ mt' = "closed"
  /\ UNCHANGED <<gt, drawVars, holdVars, vtr, FirstVideoSync, VideoError, VTReady,
                 NeedVideoSync, NeedExitNow, GameThreadRun, snapshot, histVars>>

(* PumpWrap() may see a reason to exit; then the mode change, if any.       *)
Pump ==
  /\ mt = "pump"
  /\ NeedExitNow' \in {NeedExitNow, TRUE}
  /\ IF NeedVideoSync
     THEN mt' = "sync" /\ VideoError' = FALSE /\ honoured' = TRUE
     ELSE mt' = "present" /\ UNCHANGED <<VideoError, honoured>>
  /\ UNCHANGED <<gt, drawVars, holdVars, vtr, FirstVideoSync, VTReady, NeedVideoSync,
                 GameThreadRun, snapshot, sc_blit_timesync, repainted>>

VideoSynced ==
  /\ mt = "sync"
  /\ mt' = "present"
  /\ NeedExitNow' \in {NeedExitNow, TRUE}
  /\ FirstVideoSync' = FALSE /\ NeedVideoSync' = FALSE
  /\ UNCHANGED <<gt, drawVars, holdVars, vtr, VideoError, VTReady, GameThreadRun,
                 snapshot, histVars>>

(* VTReady is looked at; without a usable window the frame is dropped.      *)
Blitting == VTReady # NoBuffer /\ ~VideoError
Taken == VTReady' = NoBuffer /\ repainted' = FALSE /\ UNCHANGED <<sc_blit_timesync, honoured>>
(* Mutations: VTReady is given back when the blit begins; without a usable  *)
(* window nobody gives it back.                                             *)
Present_EarlyRelease ==
  /\ mt = "present"
  /\ IF Blitting THEN mt' = "blit" /\ vtr' = VTReady ELSE mt' = "top" /\ vtr' = vtr
  /\ Taken
  /\ UNCHANGED <<gt, drawVars, holdVars, FirstVideoSync, VideoError, NeedVideoSync,
                 NeedExitNow, GameThreadRun, snapshot>>
Present_KeepOnError ==
  /\ mt = "present"
  /\ IF Blitting THEN mt' = "blit" /\ vtr' = VTReady ELSE mt' = "top" /\ vtr' = vtr
  /\ UNCHANGED <<gt, drawVars, holdVars, FirstVideoSync, VideoError, VTReady, NeedVideoSync,
                 NeedExitNow, GameThreadRun, snapshot, histVars>>
Present ==
  /\ mt = "present"
  /\ IF Blitting
     THEN mt' = "blit" /\ vtr' = VTReady /\ UNCHANGED <<VTReady, histVars>>
     ELSE mt' = "top" /\ vtr' = vtr /\ Taken
  /\ UNCHANGED <<gt, drawVars, holdVars, FirstVideoSync, VideoError, NeedVideoSync,
                 NeedExitNow, GameThreadRun, snapshot>>

Blitted ==
  /\ mt = "blit"
  /\ mt' = "top" /\ vtr' = NoBuffer /\ Taken
  /\ UNCHANGED <<gt, drawVars, holdVars, FirstVideoSync, VideoError, NeedVideoSync,
                 NeedExitNow, GameThreadRun, snapshot>>

VideoThrows ==
  /\ mt \in {"sync", "blit"}
  /\ mt' = "caught" /\ vtr' = NoBuffer
  /\ UNCHANGED <<gt, drawVars, holdVars, FirstVideoSync, VideoError, VTReady,
                 NeedVideoSync, NeedExitNow, GameThreadRun, snapshot, histVars>>

(* The first failure of a working window is survived.                       *)
(* Mutation: the request is left standing.                                  *)
Caught_Pending ==
  /\ mt = "caught"
  /\ IF FirstVideoSync \/ VideoError
     THEN mt' = "close" /\ UNCHANGED VideoError
     ELSE mt' = "top" /\ VideoError' = TRUE
  /\ UNCHANGED <<gt, drawVars, holdVars, vtr, FirstVideoSync, VTReady, NeedVideoSync,
                 NeedExitNow, GameThreadRun, snapshot, histVars>>
Caught ==
  /\ mt = "caught"
  /\ IF FirstVideoSync \/ VideoError
     THEN mt' = "close" /\ UNCHANGED <<VideoError, NeedVideoSync>>
     ELSE mt' = "top" /\ VideoError' = TRUE /\ NeedVideoSync' = FALSE
  /\ UNCHANGED <<gt, drawVars, holdVars, vtr, FirstVideoSync, VTReady, NeedExitNow,
                 GameThreadRun, snapshot, histVars>>

(* A signal handler, or a command given to the game thread.                 *)
MainRequestExit ==
  /\ mt # "closed" /\ NeedExitNow' = TRUE
  /\ UNCHANGED <<gt, drawVars, holdVars, mtVars, VTReady, NeedVideoSync,
                 GameThreadRun, snapshot, histVars>>
-----------------------------------------------------------------------------
GameLoop == GameExit \/ GameTop \/ BeginFrame \/ EndFrame \/ CallUpdate
            \/ Pass \/ DoNotPass \/ OtherPosition \/ EventsDone \/ Toggled
            \/ Updated
MainVideoLoop == MainTop \/ CloseGame \/ Pump \/ VideoSynced \/ Present \/ Blitted
                 \/ VideoThrows \/ Caught
Closed == mt = "closed" /\ UNCHANGED videoVars
VideoNext == GameLoop \/ Command \/ Fudge \/ ToggleFS \/ MainVideoLoop \/ MainRequestExit
             \/ Closed
VideoSpec == VideoInit /\ [][VideoNext]_videoVars

(* Both threads run, and the events of one call of MDFND_Update() have an   *)
(* end.  The user need not do anything, and the window system may fail.     *)
LiveSpec ==
  /\ VideoSpec
  /\ WF_videoVars(GameLoop) /\ SF_videoVars(EventsDone)
  /\ WF_videoVars(MainVideoLoop)
-----------------------------------------------------------------------------
GameStates == {"top", "syncwait", "emulate", "fudge", "fudgeevents", "fudge2",
               "fudgetoggle", "update", "blit1", "events", "toggle", "blit2",
               "updated", "exited"}

(* What is being blitted is what VTReady names: only the main thread gives  *)
(* a buffer back, although the game thread decides which one is passed.     *)
VideoTypeOK ==
  /\ gt \in GameStates
  /\ BackBuffer \in Buffers /\ which \in Buffers \cup {NoBuffer}
  /\ fskip \in BOOLEAN /\ passed \in BOOLEAN /\ do_flip \in BOOLEAN
  /\ InFrameAdvance \in BOOLEAN /\ NeedFrameAdvance \in BOOLEAN
  /\ GameLoopPaused \in BOOLEAN
  /\ mt \in {"top", "pump", "sync", "present", "blit", "caught", "close",
             "join", "closed"}
  /\ FirstVideoSync \in BOOLEAN /\ VideoError \in BOOLEAN
  /\ VTReady \in Buffers \cup {NoBuffer}
  /\ vtr = IF mt = "blit" THEN VTReady ELSE NoBuffer
  /\ NeedVideoSync \in BOOLEAN /\ NeedExitNow \in BOOLEAN
  /\ GameThreadRun \in BOOLEAN /\ snapshot \in BOOLEAN
  /\ honoured \in BOOLEAN /\ repainted \in BOOLEAN
  /\ sc_blit_timesync \in BOOLEAN

(* The game thread never draws into the buffer the main thread blits: "Set  *)
(* to -1 after we're done blitting everything", main.cpp:2029.              *)
Emulating == gt \in {"emulate", "fudge", "fudgeevents", "fudge2", "fudgetoggle"}
NeverTorn == Emulating /\ mt = "blit" => vtr # BackBuffer

(* It holds as long as no frame was repainted (frame advance, pause) since  *)
(* the main thread last gave a buffer back, also when the debugger passes   *)
(* the other buffer on in the middle of a frame.                            *)
NoTornFrame == ~repainted => NeverTorn

(* A request for a new video mode is not taken for done by a Video_Sync()   *)
(* that began before it.                                                    *)
SyncHonoured == GameThreadRun /\ ~NeedVideoSync => honoured

(* Once the exit is requested the game ends, wherever the game thread is.   *)
ExitTerminates == NeedExitNow ~> mt = "closed"

(* What the game thread asks for is answered and it goes on, or the window  *)
(* system fails (again): a frame passed on is taken, shown or dropped; a    *)
(* new video mode is set or given up.                                       *)
RequestsAnswered ==
  /\ VTReady # NoBuffer ~> VTReady = NoBuffer \/ ~GameThreadRun \/ mt = "caught"
  /\ NeedVideoSync ~> ~NeedVideoSync \/ ~GameThreadRun
=============================================================================
