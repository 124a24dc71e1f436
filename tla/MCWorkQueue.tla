---------------------------- MODULE MCWorkQueue ----------------------------
(* Instances of WorkQueue for TLC.                                         *)
EXTENDS WorkQueue

\* Weights from 0 to 3 for two operations, and a mix of all four.
Mixes ==
  {c \in [Op -> 0..3] : c["list"] = 0 /\ c["delete"] = 0 /\ c["read"] + c["write"] > 0}
    \cup {[read |-> 3, write |-> 2, list |-> 1, delete |-> 1]}
=============================================================================
