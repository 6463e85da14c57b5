------------------------------ MODULE MCNetplay ------------------------------
(* Two machine states and two inputs, as in MCMovieSession.                 *)
EXTENDS Netplay
MCMachines == {0, 1}
MCInputs == {0, 1}
MCStep == [x \in MCMachines \X MCInputs |-> (x[1] + x[2]) % 2]
MCCommanded == [g \in MCMachines |-> 0]
=============================================================================
