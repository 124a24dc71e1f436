------------------------------ MODULE TestCase ------------------------------
(***************************************************************************)
(* What the server refuses of a test case, and what it makes of one that   *)
(* it accepts, before the workers get it (checkTestCase and                *)
(* checkDistribution, common/configFile.go).  A test case is a record      *)
(*   [payload, runtime, ops, oneshot, weights, buckets, objects, sizes,    *)
(*    unit, options]                                                       *)
(* with weights a function, buckets, objects and sizes records [min, max,  *)
(* kind], and options its read_option and write_option, a set of records   *)
(* [chunk, unit].                                                          *)
(***************************************************************************)
EXTENDS Integers

CONSTANTS
  Modulus,  \* numbers wrap here: 2^64
  Kilo      \* bytes in a KB

ASSUME NumberAssumption == Modulus \in Nat \ {0} /\ Kilo \in Nat \ {0}

Number == 0..(Modulus - 1)
Kind   == {"constant", "random", "sequential"}

\* uint64 and int64 arithmetic.
U(n) == n % Modulus
S(n) == IF U(n) < Modulus \div 2 THEN U(n) ELSE U(n) - Modulus

\* byteMultiplicator, for one spelling of each unit.
Multiplicator == [B |-> 1, KB |-> Kilo, MB |-> Kilo * Kilo,
                  GB |-> Kilo * Kilo * Kilo, TB |-> Kilo * Kilo * Kilo * Kilo]
Unit == DOMAIN Multiplicator

Distributed(t) == {t.sizes.kind, t.objects.kind, t.buckets.kind} \subseteq Kind

\* checkTestCase returns no error; and a slip that takes any distribution.
AcceptedElse(t) ==
  /\ t.payload \in {"", "random", "empty"}
  /\ t.runtime # 0 \/ t.ops # 0 \/ t.oneshot
  /\ \E op \in DOMAIN t.weights : t.weights[op] # 0
  /\ t.buckets.min # 0 /\ t.objects.min # 0
  /\ t.sizes.min # 0 /\ t.sizes.max # 0
  /\ t.unit \in Unit
  /\ \A o \in t.options : o.unit \in Unit
Accepted(t) == AcceptedElse(t) /\ Distributed(t)

\* What it leaves of the sizes in bytes; and a slip that forgets the maximum.
InBytes(n, unit) == U(n * Multiplicator[unit])
MinimumOnly(t) == [t EXCEPT !.sizes.min = InBytes(@, t.unit)]
Checked(t) ==
  [t EXCEPT !.sizes.min = InBytes(@, t.unit),
            !.sizes.max = InBytes(@, t.unit),
            !.options = {[o EXCEPT !.chunk = S(@ * Multiplicator[o.unit])] : o \in @}]
=============================================================================
