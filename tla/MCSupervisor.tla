--------------------------- MODULE MCSupervisor ---------------------------
(* Two requests beside the start and the stop of the process.               *)
EXTENDS Supervisor

Two == {1, 2}
AllFaults == FaultKinds
===========================================================================
