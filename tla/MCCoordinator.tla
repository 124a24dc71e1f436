--------------------------- MODULE MCCoordinator ---------------------------
(* Instances of Coordinator for TLC.                                       *)
EXTENDS Coordinator

TwoThenOne == <<2, 1>>
NoTests    == {}
FirstTest  == {1}
NoFaults   == {}
AllFaults  == {"worker", "network", "server"}
=============================================================================
