--------------------------- MODULE MCMovieSession ---------------------------
(***************************************************************************)
(* Two machine states and two inputs: an input that is lost, replaced or   *)
(* played twice shows in the state.  One save state.                       *)
(***************************************************************************)
EXTENDS MovieSession
MCMachines == {0, 1}
MCInputs == {0, 1}
MCStep == [x \in MCMachines \X MCInputs |-> (x[1] + x[2]) % 2]
MCSaveStates == {[machine |-> 1, input |-> 1]}
MCCommanded == [g \in MCMachines |-> 0]
=============================================================================
