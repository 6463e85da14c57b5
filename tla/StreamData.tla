----------------------------- MODULE StreamData -----------------------------
(***************************************************************************)
(* The streams an MTStreamReader reads: stream s is Size[s] bytes long and *)
(* continues at LoopPos[s] when its end is reached, or with zeros for ever *)
(* when LoopPos[s] = Size[s].  A byte is named by its stream and position. *)
(***************************************************************************)
EXTENDS Integers

CONSTANTS Streams,   \* the indices add_stream() gave out
          Size,
          LoopPos,
          Skips,     \* the arguments of set_active_stream()
          Leads,
          Counts,    \* of get_buffer()
          Advances   \* of advance()

ASSUME StreamAssumption ==
  /\ Streams \subseteq Nat \ {0}
  /\ Size \in [Streams -> Nat] /\ LoopPos \in [Streams -> Nat]
  /\ \A s \in Streams : LoopPos[s] <= Size[s]
  /\ Skips \subseteq Nat /\ Leads \subseteq Nat
  /\ Counts \subseteq Nat /\ Advances \subseteq Nat

NoStream == 0
Zero == [stream |-> NoStream, at |-> 0]

(* Where the byte at offset n of the looped stream is; Size[s] is the end   *)
(* of a stream that does not loop.                                          *)
LoopedPos(s, n) ==
  IF n < Size[s] THEN n
  ELSE IF LoopPos[s] = Size[s] THEN Size[s]
       ELSE LoopPos[s] + ((n - LoopPos[s]) % (Size[s] - LoopPos[s]))

ByteAt(s, p) == IF p = Size[s] THEN Zero ELSE [stream |-> s, at |-> p]
=============================================================================
