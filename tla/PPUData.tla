------------------------------ MODULE PPUData ------------------------------
(***************************************************************************)
(* What the SNES PPU renderer draws: its state, and what a command does to *)
(* it.  The registers and memories are one value, reg (reads and the end   *)
(* of the OAM address reset are then writes like any other); the sprites   *)
(* are the line they were looked up on; a line of the picture is what it   *)
(* was drawn from.  Interlacing and the lines above the picture are left   *)
(* out.                                                                    *)
(***************************************************************************)
EXTENDS Integers, Sequences

CONSTANTS Height,       \* 239: lines of the picture
          MinHeight,    \* 224: unless the game chooses the higher screen
          Values        \* of the registers

ASSUME ScreenAssumption ==
  Height \in Nat \ {0} /\ MinHeight \in 1..Height /\ Values # {}

None == -1
Rows == 0 .. Height - 1          \* of the surface
Drawable == 1..Height            \* scanlines
Specs == {"none", "tmp", "espec"}

Pixels(line, reg, sprites, es) ==
  [line |-> line, reg |-> reg, sprites |-> sprites, es |-> es]
Stale == Pixels(None, 0, None, "none")      \* not drawn in this frame
Black(es) == Pixels(0, 0, None, es)
Blank == [row \in Rows |-> Stale]

Cmd(c, arg) == [cmd |-> c, arg |-> arg]
NoCmd == Cmd("none", 0)
WriteCmd(v) == Cmd("write", v)
FetchCmd(line) == Cmd("fetch", line)
TargetCmd == Cmd("target", 0)
RenderCmd(line) == Cmd("render", line)
VBlankCmd(skip) == Cmd("vblank", IF skip THEN 1 ELSE 0)
ExitCmd == Cmd("exit", 0)
Commands == {NoCmd, TargetCmd, ExitCmd} \cup {WriteCmd(v) : v \in Values}
            \cup {FetchCmd(l) : l \in {0} \cup Drawable}
            \cup {RenderCmd(l) : l \in Drawable}
            \cup {VBlankCmd(b) : b \in BOOLEAN}

(* RenderLine() and RenderZero() on the renderer's state.  Row Height is    *)
(* not shown.                                                               *)
RenderLine(r, line) ==
  LET row == IF r.LineTarget > Height THEN Height ELSE r.LineTarget
  IN  [r EXCEPT !.LineTarget = row + 1,
                !.picture[row] = Pixels(line, r.reg, r.sprites, r.es)]
RenderZero(r) ==
  [r EXCEPT !.LineTarget = Height,
            !.picture = [row \in Rows |-> IF row < r.LineTarget THEN r.picture[row]
                                          ELSE Black(r.es)]]

(* Write() and DoCommand().                                                 *)
Executed(r, e) ==
  CASE e.cmd = "write"  -> [r EXCEPT !.reg = e.arg]
    [] e.cmd = "fetch"  -> [r EXCEPT !.sprites = e.arg]
    [] e.cmd = "target" -> [r EXCEPT !.LineTarget = 0]
    [] e.cmd = "render" -> RenderLine(r, e.arg)
    [] e.cmd = "vblank" /\ e.arg = 0 -> RenderZero(r)
    [] OTHER            -> r
=============================================================================
