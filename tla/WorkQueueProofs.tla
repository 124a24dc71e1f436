-------------------------- MODULE WorkQueueProofs --------------------------
(***************************************************************************)
(* Proofs about the work queue, for every set of weights, every Scale they *)
(* divide and every number of tests and items.                             *)
(***************************************************************************)
EXTENDS WorkQueue, FiniteSetTheorems, TLAPS

\* What one step of an operation is worth: a positive number of units, and the
\* weight of them make up Scale.
LEMMA StepWorth ==
  ASSUME TypeOK, NEW o \in Weighted
  PROVE  /\ Step(o) \in Nat \ {0} /\ Step(o) # Inf
         /\ weight[o] \in Nat \ {0}
         /\ Step(o) * weight[o] = Scale
BY ScaleAssumption, ConfigsAssumption DEF TypeOK, Weighted, Step, Inf

\* At the start there is no entry and no item.
LEMMA InitTypeOK == Init => TypeOK
<1> SUFFICES ASSUME Init PROVE TypeOK
  OBVIOUS
<1>1. test \in Test
  BY BoundsAssumption DEF Init, Test
<1>2. value \in [Entry -> Nat \cup {Inf}] /\ made \in [Op -> Nat]
  BY DEF Init
<1> QED
  BY <1>1, <1>2 DEF Init, TypeOK

\* A test's own entries start at zero, next to those of earlier tests.
LEMMA BeginTypeOK == TypeOK /\ Begin => TypeOK'
<1> SUFFICES ASSUME TypeOK, Begin PROVE TypeOK'
  OBVIOUS
<1>1. test \in Nat /\ MaxTests \in Nat /\ test' = test + 1 /\ test' \in Test
  BY BoundsAssumption DEF TypeOK, Begin, Test
<1>2. live' \subseteq Entry /\ \A e \in live' : e[1] <= test'
  BY <1>1 DEF TypeOK, Begin, Entry, Positive, Test, Op
<1>3. value' \in [Entry -> Nat \cup {Inf}] /\ made' \in [Op -> Nat] /\ weight' \in Configs /\ filling' \in BOOLEAN
  BY DEF TypeOK, Begin
<1>4. ASSUME NEW o \in Op
      PROVE  (<<test', o>> \in live' <=> o \in Weighted') /\ Own(o)' # Inf
  <2>1. <<test', o>> \notin live
    BY <1>1 DEF TypeOK
  <2>2. <<test', o>> \in Entry
    BY <1>1 DEF Entry
  <2> QED
    BY <1>1, <2>1, <2>2 DEF Begin, Positive, Weighted, Own, Inf
<1> QED
  BY <1>1, <1>2, <1>3, <1>4 DEF TypeOK

\* The chosen entry stays in its type, and the test's own entries stay finite.
LEMMA AddItemTypeOK == ASSUME TypeOK, NEW e \in live, AddItem(e) PROVE TypeOK'
<1>1. e \in Entry /\ e[1] \in Test /\ e[2] \in Op /\ weight \in Configs /\ e = <<e[1], e[2]>>
  BY DEF TypeOK, Entry
<1>2. Step(e[2]) \in Nat \cup {Inf}
  <2>1. CASE weight[e[2]] = 0
    BY <2>1 DEF Step
  <2>2. CASE weight[e[2]] # 0
    <3>1. weight[e[2]] \in Nat
      BY <1>1, ConfigsAssumption
    <3>2. e[2] \in Weighted
      BY <3>1, <2>2, <1>1 DEF Weighted
    <3> QED
      BY <3>2, StepWorth
  <2> QED
    BY <2>1, <2>2
<1>3. Plus(value[e], Step(e[2])) \in Nat \cup {Inf}
  BY <1>1, <1>2 DEF TypeOK, Plus, Inf
<1>4. value' \in [Entry -> Nat \cup {Inf}] /\ made' \in [Op -> Nat]
  BY <1>1, <1>3 DEF TypeOK, AddItem
<1>5. ASSUME NEW o \in Op PROVE Own(o)' # Inf
  <2>1. CASE e = <<test, o>>
    <3>1. o \in Weighted /\ filling /\ Own(o) # Inf
      BY <2>1 DEF TypeOK, AddItem
    <3>2. Step(o) \in Nat /\ value[e] \in Nat
      BY <3>1, <2>1, <1>1, StepWorth DEF TypeOK, Own
    <3> QED
      BY <2>1, <1>1, <3>1, <3>2 DEF TypeOK, AddItem, Plus, Own, Inf
  <2>2. CASE e # <<test, o>>
    BY <2>2 DEF TypeOK, AddItem, Own, Entry
  <2> QED
    BY <2>1, <2>2
<1> QED
  BY <1>4, <1>5 DEF TypeOK, AddItem, Weighted

\* The type invariant, for every set of weights and number of tests.
THEOREM Typed == Spec => []TypeOK
<1>1. TypeOK /\ [Next]_vars => TypeOK'
  <2> SUFFICES ASSUME TypeOK, [Next]_vars PROVE TypeOK'
    OBVIOUS
  <2>0. CASE UNCHANGED vars
    BY <2>0 DEF TypeOK, vars, Weighted, Own
  <2>1. CASE End
    BY <2>1 DEF TypeOK, End
  <2>2. CASE Restart
    <3>1. made' \in [Op -> Nat] /\ live' \subseteq Entry /\ \A e \in live' : e[1] <= test'
      BY <2>2 DEF Restart
    <3> QED
      BY <3>1, <2>2 DEF TypeOK, Restart
  <2> QED
    BY <2>0, <2>1, <2>2, BeginTypeOK, AddItemTypeOK DEF Next
<1> QED
  BY <1>1, InitTypeOK, PTL DEF Spec

-----------------------------------------------------------------------------
(* Spread, the ratios, and the stray items.                                *)

\* There are finitely many entries, so that stale ones can be counted ...
LEMMA StaleFinite ==
  ASSUME TypeOK, NEW o \in Op
  PROVE  IsFiniteSet(StaleOf(o)) /\ Cardinality(StaleOf(o)) \in Nat
<1>1. IsFiniteSet(Op)
  <2>1. Op = ((({} \cup {"read"}) \cup {"write"}) \cup {"list"}) \cup {"delete"}
    BY DEF Op
  <2> QED
    BY <2>1, FS_EmptySet, FS_AddElement
<1>2. IsFiniteSet(Test)
  BY BoundsAssumption, FS_Interval DEF Test
<1>3. IsFiniteSet(Entry)
  BY <1>1, <1>2, FS_Product DEF Entry
<1>4. StaleOf(o) \subseteq Entry
  BY DEF TypeOK, StaleOf, Stale
<1> QED
  BY <1>3, <1>4, FS_Subset, FS_CardinalityType

\* ... and so are the spent ones among them.
LEMMA SpentFinite ==
  ASSUME TypeOK, NEW o \in Op
  PROVE  IsFiniteSet(Spent(o)) /\ Cardinality(Spent(o)) \in Nat
BY StaleFinite, FS_Subset, FS_CardinalityType DEF Spent

\* What a step of the loop does to the value of one of the test's operations.
LEMMA OwnStep ==
  ASSUME TypeOK, NEW e \in live, AddItem(e), NEW o \in Weighted
  PROVE  /\ Own(o) \in Nat
         /\ Own(o)' = IF e = <<test, o>> THEN Own(o) + Step(o) ELSE Own(o)
<1>1. filling /\ <<test, o>> \in Entry /\ <<test, o>> \in live /\ Own(o) # Inf
  BY DEF TypeOK, AddItem, Weighted
<1>2. Own(o) \in Nat
  BY <1>1 DEF TypeOK, Own
<1>3. e \in Entry /\ test' = test
  BY DEF TypeOK, AddItem
<1>4. Step(o) # Inf /\ value \in [Entry -> Nat \cup {Inf}] /\ value' = [value EXCEPT ![e] = Plus(@, Step(e[2]))]
  BY StepWorth DEF TypeOK, AddItem
<1> QED
  BY <1>1, <1>2, <1>3, <1>4 DEF Own, Plus

\* The chosen entry is finite and not above any of the test's own.
LEMMA ChosenLeast ==
  ASSUME TypeOK, NEW e \in live, AddItem(e)
  PROVE  /\ value[e] \in Nat
         /\ \A o \in Weighted : value[e] <= Own(o)
<1>1. \A o \in Weighted : <<test, o>> \in live /\ Own(o) # Inf /\ Leq(value[e], Own(o))
  BY DEF TypeOK, AddItem, Least, Weighted, Own
<1>2. PICK o \in Op : o \in Weighted
  BY ConfigsAssumption DEF TypeOK, Weighted
<1>3. value[e] \in Nat \cup {Inf}
  BY DEF TypeOK
<1>4. value[e] # Inf
  BY <1>1, <1>2 DEF Leq
<1> QED
  BY <1>1, <1>3, <1>4 DEF Leq

\* Only the least entry moves, and by its own step.
LEMMA SpreadStep == ASSUME TypeOK, Spread, NEW e \in live, AddItem(e) PROVE Spread'
<1>1. filling /\ Weighted' = Weighted /\ \A o \in Op : Step(o)' = Step(o)
  BY DEF AddItem, Weighted, Step
<1>2. ASSUME NEW a \in Weighted, NEW b \in Weighted
      PROVE  Own(a)' - Step(a) <= Own(b)'
  <2>1. Step(a) \in Nat /\ Step(b) \in Nat
    BY StepWorth
  <2>2. /\ Own(a) \in Nat /\ Own(a)' = IF e = <<test, a>> THEN Own(a) + Step(a) ELSE Own(a)
        /\ Own(b) \in Nat /\ Own(b)' = IF e = <<test, b>> THEN Own(b) + Step(b) ELSE Own(b)
    BY OwnStep
  <2>3. Own(a) - Step(a) <= Own(b)
    BY <1>1 DEF Spread
  <2>4. e = <<test, a>> => Own(a) <= Own(b)
    BY ChosenLeast DEF Own
  <2> QED
    BY <2>1, <2>2, <2>3, <2>4
<1>3. Weighted \subseteq Op
  BY DEF Weighted
<1> QED
  BY <1>1, <1>2, <1>3 DEF Spread

\* A step of the loop counts: an own value grows with the items made, and a
\* stray item spends the entry it came from.
LEMMA CountsStep == ASSUME TypeOK, Counts, NEW e \in live, AddItem(e) PROVE Counts'
<1>1. /\ filling /\ Weighted' = Weighted /\ Weighted \subseteq Op
      /\ live' = live /\ test' = test /\ Stale' = Stale
      /\ \A o \in Op : Step(o)' = Step(o) /\ StaleOf(o)' = StaleOf(o)
  BY DEF AddItem, Weighted, Step, Stale, StaleOf
<1>2. e \in Entry /\ e[2] \in Op /\ e = <<e[1], e[2]>>
  BY DEF TypeOK, Entry
<1>3. \A o \in Op : made[o] \in Nat /\ made'[o] = IF o = e[2] THEN made[o] + 1 ELSE made[o]
  BY <1>2 DEF TypeOK, AddItem
<1>4. ASSUME Stale = {}, NEW o \in Weighted
      PROVE  Own(o)' = made'[o] * Step(o)
  <2>1. e[1] = test
    BY <1>4 DEF Stale
  <2>2. e = <<test, o>> <=> o = e[2]
    BY <2>1, <1>2
  <2>3. Own(o)' = IF e = <<test, o>> THEN Own(o) + Step(o) ELSE Own(o)
    BY OwnStep
  <2>4. Own(o) = made[o] * Step(o)
    BY <1>1, <1>4 DEF Counts
  <2>5. Step(o) \in Nat /\ made[o] \in Nat /\ o \in Op
    BY <1>1, <1>3, StepWorth
  <2>6. (made[o] + 1) * Step(o) = made[o] * Step(o) + Step(o)
    BY <2>5
  <2> QED
    BY <2>2, <2>3, <2>4, <2>5, <2>6, <1>3
<1>5. ASSUME NEW o \in Op \ Weighted
      PROVE  made'[o] <= Cardinality(Spent(o)')
  <2>1. made[o] <= Cardinality(Spent(o)) /\ made[o] \in Nat
    BY <1>1, <1>3 DEF Counts
  <2>2. IsFiniteSet(Spent(o)) /\ Cardinality(Spent(o)) \in Nat
    BY SpentFinite
  <2>3. value \in [Entry -> Nat \cup {Inf}] /\ value' = [value EXCEPT ![e] = Plus(@, Step(e[2]))]
        /\ StaleOf(o) \subseteq Entry
    BY DEF TypeOK, AddItem, StaleOf, Stale
  <2>4. CASE e[2] = o
    <3>1. weight[o] = 0
      BY <1>1, ConfigsAssumption DEF TypeOK, Weighted
    <3>2. value'[e] = Inf
      BY <2>3, <2>4, <3>1, <1>2 DEF Plus, Step
    <3>3. e \in StaleOf(o)
      BY <2>4, <1>1, <1>2 DEF TypeOK, StaleOf, Stale
    <3>4. e \notin Spent(o)
      BY ChosenLeast DEF Spent, Inf
    <3>5. Spent(o)' = Spent(o) \cup {e}
      BY <1>1, <2>3, <3>2, <3>3 DEF Spent
    <3>6. Cardinality(Spent(o)') = Cardinality(Spent(o)) + 1
      BY <2>2, <3>4, <3>5, FS_AddElement
    <3> QED
      BY <1>3, <2>1, <2>2, <2>4, <3>6
  <2>5. CASE e[2] # o
    <3>1. e \notin StaleOf(o)
      BY <2>5 DEF StaleOf
    <3>2. Spent(o)' = Spent(o)
      BY <1>1, <2>3, <3>1 DEF Spent
    <3> QED
      BY <1>3, <2>1, <2>5, <3>2
  <2> QED
    BY <2>4, <2>5
<1> QED
  BY <1>1, <1>4, <1>5 DEF Counts

\* The same two facts, in the form in which they also hold of the next state.
LEMMA Finite ==
  TypeOK => /\ \A o \in Op : IsFiniteSet(Spent(o)) /\ Cardinality(Spent(o)) \in Nat
            /\ \A o \in Weighted : Step(o) \in Nat
BY SpentFinite, StepWorth

\* A test begins with nothing made and its own values at zero.
LEMMA BeginCounts == TypeOK /\ Begin => Spread' /\ Counts'
<1> SUFFICES ASSUME TypeOK, Begin PROVE Spread' /\ Counts'
  OBVIOUS
<1>1. TypeOK'
  BY BeginTypeOK
<1>2. \A o \in Op : Own(o)' = 0 /\ made'[o] = 0
  <2>1. test' = test + 1 /\ test' \in Test
    BY <1>1 DEF Begin, TypeOK
  <2> QED
    BY <2>1 DEF Begin, Own, Entry
<1>3. (/\ \A o \in Op : IsFiniteSet(Spent(o)) /\ Cardinality(Spent(o)) \in Nat
       /\ \A o \in Weighted : Step(o) \in Nat)'
  BY <1>1, Finite, PTL
<1>4. Weighted' \subseteq Op
  BY DEF Weighted
<1>5. Spread'
  BY <1>2, <1>3, <1>4 DEF Spread
<1>6. Counts'
  BY <1>2, <1>3, <1>4 DEF Counts
<1> QED
  BY <1>5, <1>6

\* The inductive invariant: values and counts agree, whatever is stale.
THEOREM QueueInvariant == Spec => [](TypeOK /\ Spread /\ Counts)
<1>1. Init => Spread /\ Counts
  BY DEF Init, Spread, Counts
<1>2. TypeOK /\ Spread /\ Counts /\ [Next]_vars => Spread' /\ Counts'
  <2> SUFFICES ASSUME TypeOK, Spread, Counts, [Next]_vars PROVE Spread' /\ Counts'
    OBVIOUS
  <2>1. CASE End \/ Restart
    BY <2>1 DEF End, Restart, Spread, Counts
  <2>2. CASE UNCHANGED vars
    BY <2>2 DEF vars, Spread, Counts, Weighted, Own, Step, Stale, StaleOf, Spent
  <2> QED
    BY <2>1, <2>2, BeginCounts, SpreadStep, CountsStep DEF Next
<1> QED
  BY <1>1, <1>2, Typed, PTL DEF Spec

\* Two operations whose values differ by at most a step of the first have made
\* items in the ratio of their weights, up to one item.
LEMMA RatioArithmetic ==
  ASSUME NEW m \in Nat, NEW n \in Nat, NEW s \in Nat, NEW r \in Nat,
         NEW v \in Nat, NEW w \in Nat, NEW u \in Nat \ {0},
         s * v = u, r * w = u, m * s - s <= n * r
  PROVE  (m - 1) * w <= n * v
<1>1. (m - 1) * s <= n * r
  OBVIOUS
<1>2. v * w \in Nat
  OBVIOUS
<1>3. ((m - 1) * s) * (v * w) <= (n * r) * (v * w)
  BY <1>1, <1>2
<1>4. ((m - 1) * s) * (v * w) = ((m - 1) * w) * u
  <2>1. \A k \in Int : (k * s) * (v * w) = (k * w) * (s * v)
    OBVIOUS
  <2> QED
    BY <2>1
<1>5. (n * r) * (v * w) = (n * v) * u
  <2>1. (n * r) * (v * w) = (n * v) * (r * w)
    OBVIOUS
  <2> QED
    BY <2>1
<1>6. ((m - 1) * w) * u <= (n * v) * u
  BY <1>3, <1>4, <1>5
<1> QED
  BY <1>6

\* The set ratios are satisfied up to one item, for all weights and any number
\* of items, in a process without stale entries.
THEOREM Ratio == Spec => []RatioHolds
<1>1. TypeOK /\ Spread /\ Counts => RatioHolds
  <2> SUFFICES ASSUME TypeOK, Spread, Counts, filling, Stale = {} PROVE RatioHolds
    BY DEF RatioHolds
  <2>1. ASSUME NEW a \in Weighted, NEW b \in Weighted
        PROVE  (made[a] - 1) * weight[b] <= made[b] * weight[a]
    <3>1. made[a] \in Nat /\ made[b] \in Nat
      BY DEF TypeOK, Weighted
    <3>2. /\ Step(a) \in Nat /\ weight[a] \in Nat /\ Step(a) * weight[a] = Scale
          /\ Step(b) \in Nat /\ weight[b] \in Nat /\ Step(b) * weight[b] = Scale
      BY StepWorth
    <3>3. made[a] * Step(a) - Step(a) <= made[b] * Step(b)
      BY DEF Spread, Counts
    <3>4. Scale \in Nat \ {0}
      BY ScaleAssumption
    <3> QED
      BY <3>1, <3>2, <3>3, <3>4, RatioArithmetic
  <2>2. ASSUME NEW o \in Op \ Weighted PROVE made[o] = 0
    <3>1. Spent(o) = {}
      BY DEF Spent, StaleOf
    <3>2. made[o] <= Cardinality(Spent(o)) /\ made[o] \in Nat
      BY DEF Counts, TypeOK
    <3> QED
      BY <3>1, <3>2, FS_EmptySet
  <2> QED
    BY <2>1, <2>2 DEF RatioHolds
<1> QED
  BY <1>1, QueueInvariant, PTL

\* A stale entry leaks at most one item of an operation without a weight.
THEOREM Stray == Spec => []StrayOnce
<1>1. TypeOK /\ Counts => StrayOnce
  <2> SUFFICES ASSUME TypeOK, Counts, filling, NEW o \in Op \ Weighted
               PROVE  made[o] <= Cardinality(StaleOf(o))
    BY DEF StrayOnce
  <2>1. made[o] <= Cardinality(Spent(o)) /\ made[o] \in Nat
    BY DEF Counts, TypeOK
  <2>2. IsFiniteSet(StaleOf(o)) /\ Cardinality(StaleOf(o)) \in Nat /\ Cardinality(Spent(o)) \in Nat
    BY StaleFinite, SpentFinite
  <2>3. Cardinality(Spent(o)) <= Cardinality(StaleOf(o))
    BY <2>2, FS_Subset DEF Spent
  <2> QED
    BY <2>1, <2>2, <2>3
<1> QED
  BY <1>1, QueueInvariant, PTL
=============================================================================
