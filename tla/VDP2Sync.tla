------------------------------ MODULE VDP2Sync ------------------------------
(***************************************************************************)
(* A VDP2 renderer without a thread: a write, a line or a reset has its    *)
(* effect when the emulation issues it, and the frame is complete when     *)
(* VDP2REND_EndFrame() hands it over.                                      *)
(***************************************************************************)
EXTENDS VDP2Data

VARIABLES r,        \* the renderer's state and the surface
          lib,      \* the line input table
          inFrame,  \* between StartFrame and EndFrame
          next,     \* the first line not drawn in this frame
          saved     \* the state last saved
vars == <<r, lib, inFrame, next, saved>>

Init ==
  /\ r = [reg |-> 0, acc |-> 0, surface |-> AllLines(Stale)]
  /\ lib = [l \in Active |-> 0]
  /\ inFrame = FALSE /\ next = 0
  /\ saved = [reg |-> 0, acc |-> 0]

Write ==
  /\ \E v \in Values : r' = Executed(r, WriteCmd(v), lib)
  /\ UNCHANGED <<lib, inFrame, next, saved>>
Reset ==
  /\ r' = Executed(r, ResetCmd, lib)
  /\ UNCHANGED <<lib, inFrame, next, saved>>

StartFrame ==
  /\ ~inFrame /\ inFrame' = TRUE /\ next' = 0
  /\ r' = [r EXCEPT !.surface = AllLines(Stale)]
  /\ UNCHANGED <<lib, saved>>

(* The emulation prepares the input of a line.  When a reset in the middle  *)
(* of a frame makes it prepare a line again that was drawn already, some of *)
(* the earlier lines may come out with the later input.                     *)
LineInput ==
  /\ inFrame
  /\ \E l \in Active, x \in Inputs :
       /\ lib' = [lib EXCEPT ![l] = x]
       /\ \E late \in SUBSET {o \in Lines : r.surface[o].line = l} :
            r' = [r EXCEPT !.surface =
                    [o \in Lines |-> IF o \in late
                                     THEN [r.surface[o] EXCEPT !.input = x]
                                     ELSE r.surface[o]]]
  /\ UNCHANGED <<inFrame, next, saved>>

DrawLine ==
  /\ inFrame
  /\ next < VisibleLines /\ next' = next + 1
  /\ \E line \in Active \cup {Border} :
       r' = Executed(r, LineCmd(line, next), lib)
  /\ UNCHANGED <<lib, inFrame, saved>>

(* The lines the emulation did not draw are black.                          *)
EndFrame ==
  /\ inFrame /\ inFrame' = FALSE /\ next' = VisibleLines
  /\ r' = [r EXCEPT !.surface =
             [l \in Lines |-> IF l < next THEN r.surface[l] ELSE Black]]
  /\ UNCHANGED <<lib, saved>>

Save ==
  /\ ~inFrame
  /\ saved' = [reg |-> r.reg, acc |-> r.acc]
  /\ UNCHANGED <<r, lib, inFrame, next>>
Load ==
  /\ ~inFrame
  /\ r' = [r EXCEPT !.reg = saved.reg, !.acc = saved.acc]
  /\ UNCHANGED <<lib, inFrame, next, saved>>

Next == Write \/ Reset \/ StartFrame \/ LineInput \/ DrawLine \/ EndFrame
        \/ Save \/ Load
Spec == Init /\ [][Next]_vars
=============================================================================
