------------------------------ MODULE Compare ------------------------------
(***************************************************************************)
(* The comparison of two reports (compare/main.go): rows are put in nested *)
(* maps by type, size, workers and clients, and for every type, size and   *)
(* number of workers that both have there is a chart with the numbers of   *)
(* clients that both have on its axis.                                     *)
(***************************************************************************)
EXTENDS Integers, Sequences, SequencesExt

\* The place of a row in the maps; and a slip that overlooks the last level.
ClientsForgotten(r) == [group |-> <<r.type, r.size, r.workers>>, clients |-> 1]
Place(r) == [group |-> <<r.type, r.size, r.workers>>, clients |-> r.clients]

\* A later row takes the place of an earlier one.
Table(rows) ==
  [k \in {Place(rows[i]) : i \in DOMAIN rows} |->
     rows[Max({i \in DOMAIN rows : Place(rows[i]) = k})]]

GroupsOf(table) == {k.group : k \in DOMAIN table}

\* Tests that only delete are not compared.
Charted(group) == group[1] # {"delete"}

\* sort.Slice of different numbers
Sorted(S) == CHOOSE s \in SetToSeqs(S) : \A i, j \in DOMAIN s : i < j => s[i] < s[j]

\* The chart of a group: the numbers of clients that both have, and the rows there.
Axis(one, two, g) == Sorted({k.clients : k \in {p \in DOMAIN one \cap DOMAIN two : p.group = g}})
Bars(table, g, axis) == [i \in DOMAIN axis |-> table[[group |-> g, clients |-> axis[i]]]]
Chart(one, two, g) ==
  LET axis == Axis(one, two, g)
  IN  [axis |-> axis, r1 |-> Bars(one, g, axis), r2 |-> Bars(two, g, axis)]

Charts(first, second) ==
  LET one == Table(first)
      two == Table(second)
  IN  {Chart(one, two, g) : g \in {h \in GroupsOf(one) \cap GroupsOf(two) : Charted(h)}}
=============================================================================
