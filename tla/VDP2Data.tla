------------------------------ MODULE VDP2Data ------------------------------
(***************************************************************************)
(* What the VDP2 renderer draws: the renderer's own state, the commands it *)
(* executes on it, and the surface of the frame.  The registers and video  *)
(* memory are one bit, reg; the counters that DrawLine() carries from line *)
(* to line (YCoordAccum, CurBackTabAddr, ...) are one bit, acc.            *)
(***************************************************************************)
EXTENDS Integers

CONSTANTS VisibleLines,   \* lines of the surface
          ActiveLines,    \* lines with a LIB entry
          Values,         \* written to the registers
          Inputs          \* of a line

ASSUME LinesAssumption ==
  /\ VisibleLines \in Nat \ {0} /\ ActiveLines \in 1..VisibleLines
  /\ Values \subseteq {0, 1} /\ Inputs \subseteq {0, 1}

Lines == 0 .. VisibleLines - 1
Active == 0 .. ActiveLines - 1
Border == -1               \* the vdp2_line of a line without picture
Bit == {0, 1}

(* A line of the surface: what was drawn there, the registers, counters and *)
(* line input it was drawn from.                                            *)
Pixels(line, reg, acc, input) ==
  [line |-> line, reg |-> reg, acc |-> acc, input |-> input]
Black == Pixels(-2, 0, 0, 0)      \* filled by EndFrame
Stale == Pixels(-3, 0, 0, 0)      \* not drawn since StartFrame
Crash == Pixels(-4, 0, 0, 0)      \* drawn through a null espec
AllLines(p) == [l \in Lines |-> p]

WriteCmd(v) == [cmd |-> "write", line |-> Border, out |-> 0, val |-> v]
LineCmd(line, out) == [cmd |-> "draw", line |-> line, out |-> out, val |-> 0]
ResetCmd == [cmd |-> "reset", line |-> Border, out |-> 0, val |-> 0]
BusyCmd(b) == [cmd |-> "busy", line |-> Border, out |-> 0, val |-> b]
ExitCmd == [cmd |-> "exit", line |-> Border, out |-> 0, val |-> 0]
Commands ==
  [cmd : {"write", "draw", "reset", "busy", "exit"},
   line : Active \cup {Border}, out : Lines, val : Bit]

(* DrawLine() on the renderer state r, with the line input table lib.       *)
DrawnLine(r, line, out, lib) ==
  IF line = Border
  THEN [r EXCEPT !.surface = [@ EXCEPT ![out] = Pixels(Border, r.reg, 0, 0)]]
  ELSE LET acc == IF line = 0 THEN 0 ELSE r.acc
       IN  [reg |-> r.reg, acc |-> (acc + r.reg) % 2,
            surface |-> [r.surface EXCEPT
                           ![out] = Pixels(line, r.reg, acc, lib[line])]]

(* What a command does to the renderer state.                               *)
Executed(r, e, lib) ==
  CASE e.cmd = "write" -> [r EXCEPT !.reg = e.val]
    [] e.cmd = "reset" -> [reg |-> 0, acc |-> 0, surface |-> r.surface]
    [] e.cmd = "draw"  -> DrawnLine(r, e.line, e.out, lib)
    [] OTHER           -> r
=============================================================================
