------------------------------- MODULE PPU_ST -------------------------------
(***************************************************************************)
(* The picture of a frame as the single-threaded renderer (ppu_st.cpp)     *)
(* draws it: every line in its turn, into the surface of the frame that is *)
(* shown, with the sprites that were looked up on the line before; at the  *)
(* end the lines that are left are black.  A frame that is skipped leaves  *)
(* the surface alone.                                                      *)
(***************************************************************************)
EXTENDS PPUData

VARIABLES r,       \* the renderer's state
          open     \* within Emulate()
vars == <<r, open>>

Init ==
  /\ r \in [reg : Values, sprites : {None}, LineTarget : {0},
            es : {"none"}, picture : {Blank}]
  /\ open = FALSE

Emulate ==
  /\ ~open /\ open' = TRUE
  /\ r' \in {[r EXCEPT !.es = e] : e \in {"tmp", "espec"}}
(* The frame that was emulated ahead is followed by the one to be shown.    *)
NextFrame ==
  /\ open /\ r.es = "tmp" /\ r' = [r EXCEPT !.es = "espec"] /\ UNCHANGED open
Write ==
  /\ open /\ UNCHANGED open
  /\ \E v \in Values : r' = Executed(r, WriteCmd(v))
Fetch ==
  /\ open /\ UNCHANGED open
  /\ \E l \in {0} \cup Drawable : r' = Executed(r, FetchCmd(l))
Target ==
  /\ open /\ UNCHANGED open
  /\ r.picture = Blank /\ r' = Executed(r, TargetCmd)
(* The sprites of the first line may be those of an earlier frame, if some  *)
(* were skipped, or none if the machine was reset in between.               *)
Render ==
  /\ open /\ UNCHANGED open /\ r.es = "espec"
  /\ \E l \in Drawable :
       /\ r.LineTarget = l - 1
       /\ r.sprites = l - 1 \/ (l = 1 /\ r.sprites = None)
       /\ r' = Executed(r, RenderCmd(l))
VBlank ==
  /\ open /\ UNCHANGED open /\ r.es = "espec" /\ r.picture # Blank
  /\ r' = Executed(r, VBlankCmd(FALSE))
(* Emulate() returns the picture; what was emulated ahead is taken back.    *)
Return ==
  /\ open /\ open' = FALSE /\ r.es = "espec"
  /\ r.picture = Blank \/ \A row \in Rows : r.picture[row] # Stale
  /\ \E v \in Values : r' = [r EXCEPT !.reg = v, !.picture = Blank]
(* Between frames: a state is loaded, or the machine reset.                 *)
LoadState ==
  /\ ~open /\ UNCHANGED open
  /\ \E v \in Values, s \in {r.sprites, None} :
       r' = [r EXCEPT !.reg = v, !.sprites = s]

Next == Emulate \/ NextFrame \/ Write \/ Fetch \/ Target \/ Render \/ VBlank
        \/ Return \/ LoadState
Spec == Init /\ [][Next]_vars
=============================================================================
