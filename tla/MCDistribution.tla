--------------------------- MODULE MCDistribution ---------------------------
(* Instances of Distribution for TLC.                                      *)
EXTENDS Distribution

\* Ranges with numbers up to 3: empty ones, ranges of one, and more.
UpTo3 == [min : 1..3, max : 0..3, kind : Kind]

\* A size of every kind, a range of one, and a maximum below the minimum.
SomeSizes == {[min |-> 1, max |-> 2, kind |-> k] : k \in Kind}
               \cup {[min |-> 2, max |-> 2, kind |-> "random"],
                     [min |-> 3, max |-> 1, kind |-> "random"]}

\* A test case that is accepted whatever buckets and objects are taken from UpTo3.
Usual == [payload |-> "random", runtime |-> 1, ops |-> 0, oneshot |-> FALSE,
          weights |-> [read |-> 1, write |-> 0, list |-> 0, delete |-> 0],
          buckets |-> [min |-> 1, max |-> 2, kind |-> "sequential"],
          objects |-> [min |-> 1, max |-> 2, kind |-> "sequential"],
          sizes |-> [min |-> 1, max |-> 2, kind |-> "random"],
          unit |-> "B", options |-> {}]

\* With every range; with sizes in units that overflow three bits, and that do not;
\* and with something that is refused.
Cases ==
  {[Usual EXCEPT !.buckets = b, !.objects = o, !.sizes = s] :
     b \in UpTo3, o \in UpTo3, s \in SomeSizes}
  \cup {[Usual EXCEPT !.sizes = [min |-> i, max |-> j, kind |-> k], !.unit = u] :
          i \in 0..3, j \in 0..3, k \in Kind \cup {""}, u \in {"", "B", "KB", "MB"}}
  \cup {[Usual EXCEPT !.buckets.kind = k, !.objects.kind = l, !.buckets.min = i,
                      !.objects.min = j] :
          k \in Kind \cup {""}, l \in Kind \cup {""}, i \in 0..1, j \in 0..1}
  \cup {[Usual EXCEPT !.payload = p, !.runtime = r, !.ops = n, !.oneshot = b,
                      !.weights["read"] = w] :
          p \in {"", "zero"}, r \in 0..1, n \in 0..1, b \in BOOLEAN, w \in 0..1}
  \cup {[Usual EXCEPT !.options = {[chunk |-> c, unit |-> u]}] :
          c \in 0..3, u \in {"", "B", "KB", "MB"}}
=============================================================================
