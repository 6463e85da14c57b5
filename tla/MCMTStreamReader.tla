-------------------------- MODULE MCMTStreamReader --------------------------
(***************************************************************************)
(* A ring of eight bytes and chunks of two.  The streams: one whose loop   *)
(* is shorter than a chunk, one longer than the ring with a loop longer    *)
(* than a chunk, one that ends for good, an empty one, a loop of three.    *)
(***************************************************************************)
EXTENDS MTStreamReader

MCStreams == 1..5
MCSize == <<3, 11, 5, 0, 4>>
MCLoopPos == <<2, 4, 5, 0, 1>>
MCSkips == {0, 1, 2, 12, 19}
MCLeads == {0, 3, 4}
MCCounts == {2}
MCAdvances == {1, 2}
=============================================================================
