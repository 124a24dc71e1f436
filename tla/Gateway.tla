------------------------------ MODULE Gateway ------------------------------
(***************************************************************************)
(* The S3 endpoint a worker picks (initS3, worker/s3.go): by its number,   *)
(* unless one of the endpoints has the name of the worker's host.          *)
(***************************************************************************)
EXTENDS Integers, Sequences, FiniteSets

\* S3Configs are counted from 0; names holds their names from 1.
Matches(names, host) == {i \in 0..(Len(names) - 1) : names[i + 1] = host}

\* The gateway of the host, or the one next to it; and a slip for the latter.
BesideFirst(i, colocated) == IF colocated THEN i ELSE 1
Beside(i, colocated) == IF colocated THEN i ELSE i + 1

\* The index of the endpoint of worker number id on host.
Endpoint(names, colocated, id, host) ==
  LET found == Matches(names, host)
      first == CHOOSE i \in found : \A j \in found : i <= j
  IN  (IF found = {} THEN id ELSE Beside(first, colocated)) % Len(names)

\* How many of a team's endpoints are i.
LoadOf(i, team, endpoint(_)) == Cardinality({w \in team : endpoint(w) = i})

\* Workers are spread over the n gateways as evenly as they can be.
Spread(n, team, endpoint(_)) ==
  \A i, j \in 0..(n - 1) : LoadOf(i, team, endpoint) <= LoadOf(j, team, endpoint) + 1
=============================================================================
