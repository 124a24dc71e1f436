--------------------------- MODULE MCHousekeeping ---------------------------
(* Instances of Housekeeping for TLC.                                      *)
EXTENDS Housekeeping, TLC

\* A team of two, then a team of one.
TwoThenOne == <<2, 1>>

\* Bucket 1 has a listed object and one that is deleted, bucket 2 a written one.
ThreeItems == <<[turn |-> 1, op |-> "list", obj |-> 1], [turn |-> 1, op |-> "delete", obj |-> 2],
                [turn |-> 2, op |-> "write", obj |-> 3]>>

\* Both numbers drawn ("sequential"), or the first one twice ("constant").
Both == <<1, 2>>
Same == <<1, 1>>

Setting(share, clean, skip, drawn) == [share |-> share, clean |-> clean, skip |-> skip, drawn |-> drawn]

\* Shared or not, the second test preparing if the first one has cleaned.
AllBenchmarks ==
  {<<Setting(s1, c1, FALSE, Both), Setting(s2, TRUE, ~c1, d)>> :
     s1, s2, c1 \in BOOLEAN, d \in {Both, Same}}

\* The store is empty, or has a bucket of somebody else with a shared bucket's name.
EmptyOrUsed == {<<>>, (<<Shared, 2>> :> {<<Shared, 0>>})}

TwoGateways == <<"h1", "h2">>
ThreeHosts == {"h1", "h2", "h3"}
=============================================================================
