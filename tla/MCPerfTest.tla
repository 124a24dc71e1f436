----------------------------- MODULE MCPerfTest -----------------------------
(* Instances of PerfTest for TLC.                                          *)
EXTENDS PerfTest

\* Items as fillWorkqueue makes them: objects of their own, but for a read and
\* a write that a distribution gave the same number.
FourItems == <<[op |-> "read", obj |-> 1], [op |-> "delete", obj |-> 2],
               [op |-> "write", obj |-> 1], [op |-> "list", obj |-> 3]>>

\* Every stop criterion, with and without preparation and clean-up; the number
\* of operations is one round of the queue and a half.
AllSettings == [stop : {"runtime", "ops", "oneshot"}, ops : {6},
                skipPrepare : BOOLEAN, cleanAfter : BOOLEAN, clients : {Client}]

\* The same without a client, also with fewer operations than the channel holds.
Clientless == [stop : {"runtime", "ops", "oneshot"}, ops : {3, 6},
               skipPrepare : BOOLEAN, cleanAfter : BOOLEAN, clients : {{}}]

AllAndClientless == AllSettings \cup Clientless
=============================================================================
