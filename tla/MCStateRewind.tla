--------------------------- MODULE MCStateRewind ---------------------------
(***************************************************************************)
(* States of one and two bytes of one bit, in a ring of three slots: one   *)
(* more than the smallest the code makes, so that differences follow one   *)
(* another around it.                                                      *)
(***************************************************************************)
EXTENDS StateRewind
MCSnapshots == {<<0>>, <<1>>, <<0, 1>>, <<1, 0>>, <<1, 1>>}
=============================================================================
