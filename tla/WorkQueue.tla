----------------------------- MODULE WorkQueue -----------------------------
(***************************************************************************)
(* How a worker process fills its work queue, one test after the other     *)
(* (worker/main.go, fillWorkqueue; worker/workItems.go, GetNextOperation): *)
(* every kind of operation has a value, the least value says what the next *)
(* item does, and doing it adds 1 / weight to the value.  Values are       *)
(* scaled: Scale stands for 1.0.  OperationValues lives as long as the     *)
(* process, and "init" resets Queue only.                                  *)
(***************************************************************************)
EXTENDS Integers, FiniteSets

CONSTANTS
  Configs,   \* the weights a test case may have, per operation
  Scale,     \* a multiple of every weight
  MaxTests,  \* bound on the tests one process works on
  MaxItems   \* bound on the items of a test

Op == {"read", "write", "list", "delete"}

ASSUME ConfigsAssumption ==
  /\ Configs \subseteq [Op -> Nat]
  /\ \A c \in Configs : \E o \in Op : c[o] > 0   \* checkTestCase
ASSUME ScaleAssumption ==
  /\ Scale \in Nat \ {0}
  /\ \A c \in Configs : \A o \in Op : c[o] > 0 => (Scale \div c[o]) \in Nat \ {0} /\ (Scale \div c[o]) * c[o] = Scale
ASSUME BoundsAssumption == MaxTests \in Nat /\ MaxItems \in Nat

VARIABLES
  filling,  \* inside fillWorkqueue?
  test,     \* tests this process was given
  weight,   \* weights of the test at hand
  live,     \* entries of OperationValues: the test that appended it, and its key
  value,    \* their values
  made      \* items in Queue, per operation

vars == <<filling, test, weight, live, value, made>>

Test    == 0..MaxTests
Entry   == Test \X Op
Inf     == -1                                    \* 1 / float64(0)
Leq(x, y)  == y = Inf \/ (x # Inf /\ x <= y)
Plus(x, d) == IF x = Inf \/ d = Inf THEN Inf ELSE x + d

\* The operations with a weight; and all of them.
EveryOp(w)  == Op
Positive(w) == {o \in Op : w[o] > 0}

\* 1 / float64(weight); and a slip that keeps the value for weight 0.
StepOrZero(o) == IF weight[o] = 0 THEN 0 ELSE Scale \div weight[o]
Step(o) == IF weight[o] = 0 THEN Inf ELSE Scale \div weight[o]

\* sort.Slice is not stable, so any least entry may come first; and the
\* comparison turned round.
Greatest == {e \in live : \A f \in live : Leq(value[f], value[e])}
Least == {e \in live : \A f \in live : Leq(value[e], value[f])}

\* The server's "init": Queue is nil, and every weighted operation gets an
\* entry, next to those of earlier tests.
Begin ==
  /\ ~filling
  /\ test < MaxTests
  /\ test' = test + 1
  /\ weight' \in Configs
  /\ live' = live \cup {<<test + 1, o>> : o \in Positive(weight')}
  /\ value' = [e \in Entry |-> IF e[1] = test + 1 THEN 0 ELSE value[e]]
  /\ made' = [o \in Op |-> 0]
  /\ filling' = TRUE

\* One turn of the loop over the objects.  IncreaseOperationValue looks for the
\* first entry with the key, and that is the one GetNextOperation sorted there.
AddItem(e) ==
  /\ filling
  /\ \A o \in Op : made[o] < MaxItems
  /\ e \in Least
  /\ value' = [value EXCEPT ![e] = Plus(@, Step(e[2]))]
  /\ made' = [made EXCEPT ![e[2]] = @ + 1]
  /\ UNCHANGED <<filling, test, weight, live>>

\* The loop ends after any number of objects; the worker prepares, works and
\* dials again.
End ==
  /\ filling
  /\ filling' = FALSE
  /\ UNCHANGED <<test, weight, live, value, made>>

\* A new process starts with an empty OperationValues.
Restart ==
  /\ filling' = FALSE
  /\ live' = {}
  /\ made' = [o \in Op |-> 0]
  /\ UNCHANGED <<test, weight, value>>

Init ==
  /\ filling = FALSE
  /\ test = 0
  /\ weight \in Configs
  /\ live = {}
  /\ value = [e \in Entry |-> 0]
  /\ made = [o \in Op |-> 0]

Next == Begin \/ End \/ Restart \/ \E e \in live : AddItem(e)

Spec == Init /\ [][Next]_vars

-----------------------------------------------------------------------------
(* Properties.                                                             *)

Weighted == {o \in Op : weight[o] > 0}
Own(o)   == value[<<test, o>>]
Stale    == {e \in live : e[1] # test}
StaleOf(o) == {e \in Stale : e[2] = o}
Spent(o)   == {e \in StaleOf(o) : value[e] = Inf}

\* Every variable keeps its type, and while the queue is filled the test's
\* entries are exactly its weighted operations, none of them at infinity.
TypeOK ==
  /\ filling \in BOOLEAN /\ test \in Test /\ weight \in Configs
  /\ live \subseteq Entry /\ \A e \in live : e[1] <= test
  /\ value \in [Entry -> Nat \cup {Inf}]
  /\ made \in [Op -> Nat]
  /\ filling => \A o \in Op : (<<test, o>> \in live <=> o \in Weighted) /\ Own(o) # Inf

\* No operation of a test is ever more than one step of its own ahead of
\* another, whatever earlier tests left in OperationValues.
Spread ==
  filling => \A a, b \in Weighted : Own(a) - Step(a) <= Own(b)

\* In a process that has no entries of earlier tests the queue satisfies the set
\* ratios up to one item, after any number of items.
RatioHolds ==
  filling /\ Stale = {} =>
    /\ \A a, b \in Weighted : (made[a] - 1) * weight[b] <= made[b] * weight[a]
    /\ \A o \in Op \ Weighted : made[o] = 0

\* Entries of earlier tests leak into a test, but an operation without a weight
\* only once for each of them: the first time sends its value to infinity.
StrayOnce ==
  filling => \A o \in Op \ Weighted : made[o] <= Cardinality(StaleOf(o))

\* worker/workItems.go:60: OperationValues decide "which operation should be done
\* next in order to satisfy the set ratios": none without a weight.
OnlyWeighted ==
  filling => \A o \in Op \ Weighted : made[o] = 0

\* Why: values count the items made, and infinity the stray ones.
Counts ==
  filling =>
    /\ Stale = {} => \A o \in Weighted : Own(o) = made[o] * Step(o)
    /\ \A o \in Op \ Weighted : made[o] <= Cardinality(Spent(o))
=============================================================================
