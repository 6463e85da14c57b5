---------------------------- MODULE LoopedStream ----------------------------
(***************************************************************************)
(* What MTStreamReader promises its caller: a position in a stream that    *)
(* loops, preceded by a number of zero bytes, from which bytes can be      *)
(* looked at and consumed.  It is what TestMTStreamReader() in testsexp.cpp *)
(* compares the reader with, byte by byte.                                 *)
(***************************************************************************)
EXTENDS StreamData, Sequences

VARIABLES which,   \* the active stream
          lead,    \* zero bytes still to come before the stream's own
          pos,     \* position in the stream of the byte after them
          got      \* the bytes the caller last looked at
vars == <<which, lead, pos, got>>

Init == which = NoStream /\ lead = 0 /\ pos = 0 /\ got = <<>>

(* The byte k bytes after the next one.                                     *)
Ahead(k) == IF k < lead THEN Zero
            ELSE ByteAt(which, LoopedPos(which, pos + (k - lead)))

set_active_stream ==
  /\ which' \in Streams
  /\ lead' \in Leads
  /\ \E skip \in Skips : pos' = LoopedPos(which', skip)
  /\ got' = <<>>

get_buffer ==
  /\ which # NoStream
  /\ \E count \in Counts : got' = [k \in 1..count |-> Ahead(k - 1)]
  /\ UNCHANGED <<which, lead, pos>>

advance ==
  /\ which # NoStream
  /\ \E count \in Advances :
       IF count <= lead
       THEN lead' = lead - count /\ pos' = pos
       ELSE lead' = 0 /\ pos' = LoopedPos(which, pos + (count - lead))
  /\ got' = <<>> /\ UNCHANGED which

Next == set_active_stream \/ get_buffer \/ advance
Spec == Init /\ [][Next]_vars
=============================================================================
