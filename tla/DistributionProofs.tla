------------------------- MODULE DistributionProofs -------------------------
(***************************************************************************)
(* Proofs about the numbers of a test's work items, for every test case    *)
(* that checkTestCase accepts, all ranges and kinds, and every size of the *)
(* numbers and of a KB.                                                    *)
(***************************************************************************)
EXTENDS Distribution, TLAPS

(***************************************************************************)
(* Arithmetic, and the test case as the workers get it.                    *)
(***************************************************************************)

\* Numbers do not wrap as long as they are below the modulus.
LEMMA Wraps ==
  /\ Modulus \in Nat \ {0} /\ Kilo \in Nat \ {0}
  /\ \A n \in Int : U(n) \in Number
  /\ \A n \in Number : U(n) = n /\ n \in Nat
<1>1. Modulus \in Nat \ {0} /\ Kilo \in Nat \ {0}
  BY NumberAssumption
<1>2. \A n \in Int : U(n) \in Number
  BY <1>1 DEF U, Number
<1>3. ASSUME NEW n \in Number PROVE U(n) = n /\ n \in Nat
  <2>1. n \in Nat /\ n < Modulus /\ Modulus \in Nat
    BY <1>1 DEF Number
  <2>2. PICK d \in Int, m \in Int : n = d * Modulus + m /\ m = n % Modulus /\ 0 <= m /\ m < Modulus
    BY <1>1, <2>1
  <2>3. d = 0
    <3>1. ASSUME d >= 1 PROVE FALSE
      <4>1. d * Modulus >= Modulus
        BY <1>1, <2>2, <3>1
      <4> QED
        BY <2>1, <2>2, <4>1
    <3>2. ASSUME d <= -1 PROVE FALSE
      <4>1. d * Modulus <= -Modulus
        BY <1>1, <2>2, <3>2
      <4> QED
        BY <2>1, <2>2, <4>1
    <3> QED
      BY <2>2, <3>1, <3>2
  <2> QED
    BY <2>1, <2>2, <2>3 DEF U
<1> QED
  BY <1>1, <1>2, <1>3

LEMMA Numbers == ASSUME NEW n \in Int PROVE U(n) \in Number /\ U(n) \in Nat
  BY Wraps

\* What the server makes of a test case that it accepts.
LEMMA CheckedCase ==
  ASSUME NEW t, Configurable(t), Accepted(t)
  PROVE  /\ Checked(t).buckets = t.buckets /\ Checked(t).objects = t.objects
         /\ Checked(t).sizes.min = InBytes(t.sizes.min, t.unit)
         /\ Checked(t).sizes.max = InBytes(t.sizes.max, t.unit)
         /\ Checked(t).sizes.kind = t.sizes.kind
         /\ \A d \in {t.buckets, t.objects} :
              d.min \in Number /\ d.min >= 1 /\ d.max + 1 \in Number /\ d.max \in Nat
         /\ {t.buckets.kind, t.objects.kind, t.sizes.kind} \subseteq Kind
         /\ t.unit \in Unit /\ t.sizes.min \in Nat /\ t.sizes.max \in Nat
<1>1. /\ t.buckets \in Distributions /\ t.objects \in Distributions /\ t.sizes \in Distributions
      /\ t.buckets.max + 1 \in Number /\ t.objects.max + 1 \in Number
  BY DEF Configurable
<1>2. \A d \in Distributions : d.min \in Number /\ d.max \in Number
  BY DEF Distributions
<1>3. t.buckets.min # 0 /\ t.objects.min # 0 /\ t.unit \in Unit
      /\ {t.buckets.kind, t.objects.kind, t.sizes.kind} \subseteq Kind
  BY DEF Accepted, AcceptedElse, Distributed
<1>4. \A n \in Number : n \in Nat
  BY Wraps
<1>5. /\ Checked(t).buckets = t.buckets /\ Checked(t).objects = t.objects
      /\ Checked(t).sizes.min = InBytes(t.sizes.min, t.unit)
      /\ Checked(t).sizes.max = InBytes(t.sizes.max, t.unit)
      /\ Checked(t).sizes.kind = t.sizes.kind
  BY DEF Configurable, Checked, Distributions
<1> QED
  BY <1>1, <1>2, <1>3, <1>4, <1>5

\* The units are positive.
LEMMA Units == \A u \in Unit : Multiplicator[u] \in Nat \ {0}
<1>1. \A a, b \in Nat \ {0} : a * b \in Nat \ {0}
  OBVIOUS
<1>2. Kilo * Kilo \in Nat \ {0}
  BY <1>1, Wraps
<1>3. Kilo * Kilo * Kilo \in Nat \ {0}
  BY <1>1, <1>2, Wraps
<1>4. Kilo * Kilo * Kilo * Kilo \in Nat \ {0}
  BY <1>1, <1>3, Wraps
<1> QED
  BY <1>2, <1>3, <1>4, Wraps DEF Unit, Multiplicator

\* A range of numbers with one of the three kinds, as EvaluateDistribution gets it.
Ranged(d) == d.min \in Number /\ d.max \in Number /\ d.kind \in Kind

LEMMA CaseType ==
  ASSUME TypeOK
  PROVE  /\ Ranged(buckets) /\ Ranged(objects) /\ Ranged(sizes)
         /\ \A d \in {buckets, objects} : d.min \in Nat /\ d.min >= 1 /\ d.max \in Nat /\ d.max + 1 \in Number
         /\ \A n \in Number : n \in Nat
<1>1. /\ buckets = asked.buckets /\ objects = asked.objects /\ sizes.kind = asked.sizes.kind
      /\ sizes.min = InBytes(asked.sizes.min, asked.unit)
      /\ sizes.max = InBytes(asked.sizes.max, asked.unit)
      /\ \A d \in {asked.buckets, asked.objects} :
           d.min \in Number /\ d.min >= 1 /\ d.max + 1 \in Number /\ d.max \in Nat
      /\ {asked.buckets.kind, asked.objects.kind, asked.sizes.kind} \subseteq Kind
      /\ asked.unit \in Unit /\ asked.sizes.min \in Nat /\ asked.sizes.max \in Nat
  BY CheckedCase DEF TypeOK, buckets, objects, sizes
<1>2. \A n \in Nat : InBytes(n, asked.unit) \in Number
  BY <1>1, Units, Wraps DEF InBytes
<1>3. \A n \in Nat : n + 1 \in Number => n \in Number
  BY Wraps DEF Number
<1> QED
  BY <1>1, <1>2, <1>3, Wraps DEF Ranged

\* What EvaluateDistribution returns and keeps: a number, and with a span that
\* has any, one of the span.
LEMMA Evaluated ==
  ASSUME NEW d, Ranged(d), NEW prev \in Number, NEW n \in Evaluate(d, prev)
  PROVE  n \in Number /\ (d.min <= d.max => n \in Span(d))
<1>1. /\ d.min \in Nat /\ d.max \in Nat /\ d.min \in Number /\ d.max \in Number /\ d.kind \in Kind
      /\ prev \in Nat /\ Modulus \in Nat
  BY Wraps DEF Ranged
<1>2. CASE d.kind = "constant"
  BY <1>1, <1>2 DEF Evaluate, Span
<1>3. CASE d.kind = "sequential"
  <2>1. n = Following(d, prev)
    BY <1>3 DEF Evaluate
  <2>2. U(prev + 1) \in Number /\ U(prev + 1) \in Nat
    <3>1. prev + 1 \in Int
      BY <1>1
    <3> QED
      BY <3>1, Numbers
  <2> QED
    BY <1>1, <2>1, <2>2 DEF Following, Wrap, Span
<1>4. CASE d.kind = "random"
  <2>1. PICK k \in 0..(U(d.max - d.min) - 1) : n = U(k + d.min)
    BY <1>4 DEF Evaluate, Random
  <2>2. U(d.max - d.min) \in Nat
    <3>1. d.max - d.min \in Int
      BY <1>1
    <3> QED
      BY <3>1, Numbers
  <2>3. n \in Number
    BY <1>1, <2>1, <2>2, Wraps
  <2>4. ASSUME d.min <= d.max PROVE n \in Span(d)
    <3>1. d.max - d.min \in Number
      BY <1>1, <2>4 DEF Number
    <3>2. k \in Nat /\ k < d.max - d.min
      BY <1>1, <2>1, <3>1, Wraps
    <3>3. k + d.min \in Number
      BY <1>1, <3>2 DEF Number
    <3>4. n = k + d.min
      BY <2>1, <3>3, Wraps
    <3> QED
      BY <1>1, <3>2, <3>4 DEF Span
  <2> QED
    BY <2>3, <2>4
<1> QED
  BY <1>1, <1>2, <1>3, <1>4 DEF Kind

LEMMA KeptIn ==
  ASSUME NEW d, Ranged(d), NEW prev \in {0, d.min} \cup Span(d)
  PROVE  prev \in Number /\ Kept(d, prev) \in {0, d.min} \cup Span(d)
<1>1. d.min \in Nat /\ d.max \in Nat /\ d.min \in Number /\ d.max \in Number /\ Modulus \in Nat \ {0}
  BY Wraps DEF Ranged
<1>2. prev \in Number /\ prev \in Nat
  BY <1>1 DEF Span, Number
<1>3. U(prev + 1) \in Nat
  <2>1. prev + 1 \in Int
    BY <1>2
  <2> QED
    BY <2>1, Numbers
<1> QED
  BY <1>1, <1>2, <1>3 DEF Kept, Following, Wrap, Span

(***************************************************************************)
(* Types, ranges and turns.                                                *)
(***************************************************************************)

\* An item is added to the queue.
LEMMA BagAdd ==
  ASSUME NEW b, IsABag(b), NEW x
  PROVE  /\ IsABag(b (+) SetToBag({x})) /\ BagToSet(b (+) SetToBag({x})) = BagToSet(b) \cup {x}
         /\ \A e \in DOMAIN (b (+) SetToBag({x})) :
              (b (+) SetToBag({x}))[e] = (IF e \in DOMAIN b THEN b[e] ELSE 0) + (IF e = x THEN 1 ELSE 0)
<1> DEFINE c == b (+) SetToBag({x})
<1>1. /\ DOMAIN c = DOMAIN b \cup {x}
      /\ c = [e \in DOMAIN b \cup {x} |-> (IF e \in DOMAIN b THEN b[e] ELSE 0) + (IF e = x THEN 1 ELSE 0)]
  BY DEF \oplus, SetToBag
<1> HIDE DEF c
<1>2. \A e \in DOMAIN b : b[e] \in Nat /\ b[e] > 0
  BY DEF IsABag
<1>3. \A e \in DOMAIN c : c[e] = (IF e \in DOMAIN b THEN b[e] ELSE 0) + (IF e = x THEN 1 ELSE 0)
  BY <1>1
<1>4. \A e \in DOMAIN c : c[e] \in {n \in Nat : n > 0}
  BY <1>1, <1>2, <1>3
<1>5. c \in [DOMAIN c -> {n \in Nat : n > 0}]
  BY <1>1, <1>4
<1>6. IsABag(c) /\ BagToSet(c) = BagToSet(b) \cup {x}
  BY <1>1, <1>5 DEF IsABag, BagToSet
<1> QED
  BY <1>3, <1>6 DEF c

\* A turn of the loop over objects: an item more, of numbers that are in range.
LEMMA ObjectStep ==
  ASSUME TypeOK, NextObject
  PROVE  /\ pc = "object" /\ pc' = "object" /\ objectn <= objects.max /\ objectn' = objectn + 1
         /\ \E o \in Evaluate(objects, objectLast) : named' = named (+) SetToBag({<<bucket, o>>}) /\ o \in Number
         /\ \E s \in Evaluate(sizes, sizeLast) : sized' = sized \cup {s} /\ s \in Number
         /\ UNCHANGED <<asked, test, bucketn, bucketLast, bucket>>
         /\ buckets' = buckets /\ objects' = objects /\ sizes' = sizes
         /\ objectLast' = Kept(objects, objectLast) /\ sizeLast' = Kept(sizes, sizeLast)
         /\ length' = length + 1
<1>1. Ranged(objects) /\ Ranged(sizes) /\ objectLast \in Number /\ sizeLast \in Number
  BY CaseType, KeptIn DEF TypeOK
<1>2. PICK o \in Evaluate(objects, objectLast), s \in Evaluate(sizes, sizeLast) :
        named' = named (+) SetToBag({<<bucket, o>>}) /\ sized' = sized \cup {s}
  BY DEF NextObject
<1>3. o \in Number /\ s \in Number
  BY <1>1, Evaluated
<1> QED
  BY <1>2, <1>3 DEF NextObject, config, buckets, objects, sizes

\* A turn of the loop over buckets.
LEMMA BucketStep ==
  ASSUME TypeOK, NextBucket
  PROVE  /\ pc = "bucket" /\ pc' = "object" /\ bucketn <= buckets.max /\ bucketn' = bucketn + 1
         /\ bucket' \in Evaluate(buckets, bucketLast) /\ bucket' \in Number
         /\ buckets.min <= buckets.max => bucket' \in Span(buckets)
         /\ objectn' = objects.min
         /\ UNCHANGED <<asked, test, objectLast, sizeLast, named, sized, length>>
         /\ buckets' = buckets /\ objects' = objects /\ sizes' = sizes
         /\ bucketLast' = Kept(buckets, bucketLast)
<1>1. Ranged(buckets) /\ bucketLast \in Number
  BY CaseType, KeptIn DEF TypeOK
<1>2. bucket' \in Evaluate(buckets, bucketLast)
  BY DEF NextBucket
<1>3. bucket' \in Number /\ (buckets.min <= buckets.max => bucket' \in Span(buckets))
  BY <1>1, <1>2, Evaluated
<1> QED
  BY <1>2, <1>3 DEF NextBucket, config, queue, buckets, objects, sizes

\* The other steps change pc only.
LEMMA OtherStep ==
  ASSUME BucketDone \/ AllDone \/ Panic \/ UNCHANGED vars
  PROVE  /\ UNCHANGED <<asked, test, bucketn, objectn, bucketLast, objectLast, sizeLast, bucket, named, sized, length>>
         /\ buckets' = buckets /\ objects' = objects /\ sizes' = sizes
         /\ \/ pc = "object" /\ objectn > objects.max /\ pc' = "bucket"
            \/ pc = "bucket" /\ bucketn > buckets.max /\ pc' = "done"
            \/ pc' = "panic"
            \/ pc' = pc
  BY DEF BucketDone, AllDone, Panic, vars, config, last, queue, buckets, objects, sizes

LEMMA StepTypeOK == TypeOK /\ [Next]_vars => TypeOK'
<1> SUFFICES ASSUME TypeOK, [Next]_vars PROVE TypeOK'
  OBVIOUS
<1>0. /\ Ranged(buckets) /\ Ranged(objects) /\ Ranged(sizes)
      /\ \A d \in {buckets, objects} : d.min \in Number /\ d.max \in Nat /\ d.max + 1 \in Number
      /\ bucketn \in Nat /\ objectn \in Nat
      /\ \A n \in Nat, m \in Nat : n <= m /\ m + 1 \in Number => n + 1 \in Number
  <2>1. \A n \in Nat, m \in Nat : n <= m /\ m + 1 \in Number => n + 1 \in Number
    BY Wraps DEF Number
  <2> QED
    BY <2>1, CaseType DEF TypeOK, Ranged
<1>1. CASE NextBucket
  <2>1. bucketn' \in Number /\ objectn' \in Number
    BY <1>0, <1>1, BucketStep
  <2>2. bucketLast' \in {0, buckets.min} \cup Span(buckets)
    BY <1>0, <1>1, BucketStep, KeptIn DEF TypeOK
  <2>3. bucketLast' \in ({0, buckets.min} \cup Span(buckets))'
    BY <1>1, <2>2, BucketStep DEF Span
  <2>4. /\ objectLast' \in ({0, objects.min} \cup Span(objects))'
        /\ sizeLast' \in ({0, sizes.min} \cup Span(sizes))'
    BY <1>1, BucketStep DEF Span, TypeOK
  <2> QED
    BY <1>1, <2>1, <2>3, <2>4, BucketStep DEF TypeOK
<1>2. CASE NextObject
  <2>1. objectn' \in Number
    BY <1>0, <1>2, ObjectStep
  <2>2. objectLast' \in {0, objects.min} \cup Span(objects) /\ sizeLast' \in {0, sizes.min} \cup Span(sizes)
    BY <1>0, <1>2, ObjectStep, KeptIn DEF TypeOK
  <2>3. /\ objectLast' \in ({0, objects.min} \cup Span(objects))'
        /\ sizeLast' \in ({0, sizes.min} \cup Span(sizes))'
        /\ bucketLast' \in ({0, buckets.min} \cup Span(buckets))'
    BY <1>2, <2>2, ObjectStep DEF Span, TypeOK
  <2>4. IsABag(named') /\ BagToSet(named') \subseteq Number \X Number
    <3>1. PICK o \in Number : named' = named (+) SetToBag({<<bucket, o>>})
      BY <1>2, ObjectStep
    <3>2. IsABag(named') /\ BagToSet(named') = BagToSet(named) \cup {<<bucket, o>>}
      BY <3>1, BagAdd DEF TypeOK
    <3> QED
      BY <3>2 DEF TypeOK
  <2>5. sized' \subseteq Number
    BY <1>2, ObjectStep DEF TypeOK
  <2> QED
    BY <1>2, <2>1, <2>3, <2>4, <2>5, ObjectStep DEF TypeOK
<1>3. CASE BucketDone \/ AllDone \/ Panic \/ UNCHANGED vars
  <2>1. pc' \in {"bucket", "object", "done", "panic"}
    BY <1>3, OtherStep DEF TypeOK
  <2> QED
    BY <1>3, <2>1, OtherStep DEF TypeOK, Span
<1> QED
  BY <1>1, <1>2, <1>3 DEF Next

LEMMA InitTypeOK == Init => TypeOK
<1> SUFFICES ASSUME Init PROVE TypeOK
  OBVIOUS
<1>1. buckets.min \in Number /\ objects.min \in Number
  BY CheckedCase, TestCasesAssumption DEF Init, buckets, objects
<1>2. 0 \in Number
  BY Wraps DEF Number
<1>3. named = EmptyBag /\ IsABag(EmptyBag) /\ BagToSet(EmptyBag) = {}
  BY DEF Init, EmptyBag, IsABag, BagToSet, SetToBag
<1> QED
  BY TestCasesAssumption, <1>1, <1>2, <1>3 DEF Init, TypeOK

\* The numbers of fillWorkqueue and those EvaluateDistribution keeps have their types.
THEOREM Typed == Spec => []TypeOK
  BY InitTypeOK, StepTypeOK, PTL DEF Spec

\* A loop that is over has taken its turns.
LEMMA LoopOver ==
  ASSUME NEW d, d.min \in Nat, d.max \in Nat, NEW n \in Nat, Within(d, n), n > d.max
  PROVE  n - d.min = Turns(d)
  BY DEF Within, Turns

LEMMA TurnsType == ASSUME NEW d, d.min \in Nat, d.max \in Nat PROVE Turns(d) \in Nat
  BY DEF Turns

\* Another round of turns.
LEMMA OneMore == ASSUME NEW k \in Nat, NEW t \in Nat PROVE k * t + t = (k + 1) * t /\ k * t \in Nat
  OBVIOUS

LEMMA LoopTypes ==
  ASSUME TypeOK
  PROVE  /\ bucketn \in Nat /\ objectn \in Nat /\ length \in Nat
         /\ buckets.min \in Nat /\ buckets.min >= 1 /\ buckets.max \in Nat
         /\ objects.min \in Nat /\ objects.min >= 1 /\ objects.max \in Nat
         /\ Turns(objects) \in Nat /\ Turns(buckets) \in Nat
         /\ pc \in {"bucket", "object", "done", "panic"}
<1>1. /\ bucketn \in Nat /\ objectn \in Nat /\ length \in Nat
      /\ buckets.min \in Nat /\ buckets.min >= 1 /\ buckets.max \in Nat
      /\ objects.min \in Nat /\ objects.min >= 1 /\ objects.max \in Nat
      /\ pc \in {"bucket", "object", "done", "panic"}
  BY CaseType DEF TypeOK
<1> QED
  BY <1>1, TurnsType

LEMMA StepLoop == TypeOK /\ LoopInv /\ [Next]_vars => LoopInv'
<1> SUFFICES ASSUME TypeOK, LoopInv, [Next]_vars PROVE LoopInv'
  OBVIOUS
<1> DEFINE t == Turns(objects)
<1>0. /\ bucketn \in Nat /\ objectn \in Nat /\ length \in Nat /\ t \in Nat
      /\ buckets.min \in Nat /\ buckets.max \in Nat /\ objects.min \in Nat /\ objects.max \in Nat
  BY LoopTypes
<1>1. CASE NextBucket
  <2>1. /\ Within(buckets, bucketn + 1) /\ Within(objects, objects.min) /\ buckets.min <= buckets.max
        /\ buckets.min < bucketn + 1
    BY <1>0, <1>1, BucketStep DEF LoopInv, Within
  <2>2. BucketsOver' = BucketsOver /\ ObjectsOver = 0 /\ ObjectsOver' = 0
    BY <1>0, <1>1, BucketStep DEF BucketsOver, ObjectsOver
  <2>3. length' = BucketsOver' * Turns(objects)' + ObjectsOver'
    BY <1>1, <2>2, BucketStep DEF LoopInv, Turns
  <2>4. Within(buckets, bucketn)' /\ Within(objects, objectn)' /\ bucket' \in Span(buckets)'
        /\ (BagToSet(named) \subseteq Span(buckets) \X Span(objects))'
    BY <1>1, <2>1, BucketStep DEF LoopInv, Within, Span
  <2> QED
    BY <1>1, <2>1, <2>3, <2>4, BucketStep DEF LoopInv
<1>2. CASE NextObject
  <2>0. /\ pc = "object" /\ pc' = "object" /\ objectn <= objects.max /\ objectn' = objectn + 1
        /\ UNCHANGED <<bucketn, bucket>> /\ buckets' = buckets /\ objects' = objects /\ length' = length + 1
    BY <1>2, ObjectStep
  <2>1. Within(objects, objectn + 1) /\ objects.min <= objects.max
    BY <1>0, <2>0 DEF LoopInv, Within
  <2>2. BucketsOver' = BucketsOver /\ ObjectsOver' = ObjectsOver + 1 /\ BucketsOver \in Int /\ ObjectsOver \in Int
    BY <1>0, <2>0 DEF BucketsOver, ObjectsOver
  <2>3. length' = BucketsOver' * Turns(objects)' + ObjectsOver'
    <3>1. length = BucketsOver * t + ObjectsOver
      BY <2>0 DEF LoopInv
    <3>2. BucketsOver * t \in Int
      BY <1>0, <2>2
    <3>3. Turns(objects)' = t
      BY <2>0 DEF Turns
    <3> QED
      BY <2>0, <2>2, <3>1, <3>2, <3>3
  <2>4. PICK o \in Evaluate(objects, objectLast) : named' = named (+) SetToBag({<<bucket, o>>})
    BY <1>2, ObjectStep
  <2>5. o \in Span(objects)
    <3>1. Ranged(objects) /\ objectLast \in Number
      BY CaseType, KeptIn DEF TypeOK
    <3> QED
      BY <2>1, <3>1, Evaluated
  <2>6. BagToSet(named') = BagToSet(named) \cup {<<bucket, o>>}
    BY <2>4, BagAdd DEF TypeOK
  <2>7. BagToSet(named') \subseteq Span(buckets)' \X Span(objects)'
    BY <2>0, <2>5, <2>6 DEF LoopInv, Span
  <2> QED
    BY <2>0, <2>1, <2>3, <2>7 DEF LoopInv, Within, Span
<1>3. CASE BucketDone \/ AllDone \/ Panic \/ UNCHANGED vars
  <2>0. /\ UNCHANGED <<bucketn, objectn, bucket, named, length>> /\ buckets' = buckets /\ objects' = objects
        /\ \/ pc = "object" /\ objectn > objects.max /\ pc' = "bucket"
           \/ pc = "bucket" /\ bucketn > buckets.max /\ pc' = "done"
           \/ pc' = "panic"
           \/ pc' = pc
    BY <1>3, OtherStep
  <2>1. /\ Within(buckets, bucketn)' /\ Within(objects, objectn)'
        /\ (pc = "object" => buckets.min < bucketn /\ bucket \in Span(buckets))'
        /\ (pc = "done" => bucketn > buckets.max)'
        /\ (BagToSet(named) \subseteq Span(buckets) \X Span(objects))'
    BY <2>0 DEF LoopInv, Within, Span
  <2>2. ASSUME pc' # "panic" PROVE (length = BucketsOver * Turns(objects) + ObjectsOver)'
    <3>1. Turns(objects)' = t
      BY <2>0 DEF Turns
    <3>2. CASE pc = "object" /\ objectn > objects.max /\ pc' = "bucket"
      <4>1. ObjectsOver = t
        BY <1>0, <3>2, LoopOver DEF ObjectsOver, LoopInv
      <4>2. BucketsOver \in Nat /\ BucketsOver' = BucketsOver + 1 /\ ObjectsOver' = 0
        BY <1>0, <2>0, <3>2 DEF BucketsOver, ObjectsOver, LoopInv
      <4>3. length = BucketsOver * t + t
        BY <3>2, <4>1 DEF LoopInv
      <4>4. length = (BucketsOver + 1) * t
        BY <1>0, <4>2, <4>3, OneMore
      <4>5. (BucketsOver + 1) * t \in Int
        BY <1>0, <4>4
      <4> QED
        BY <2>0, <3>1, <4>2, <4>4, <4>5
    <3>3. CASE pc = "bucket" /\ bucketn > buckets.max /\ pc' = "done"
      BY <2>0, <3>1, <3>3 DEF LoopInv, BucketsOver, ObjectsOver
    <3>4. CASE pc' = pc
      BY <2>0, <2>2, <3>1, <3>4 DEF LoopInv, BucketsOver, ObjectsOver
    <3> QED
      BY <2>0, <2>2, <3>2, <3>3, <3>4
  <2> QED
    BY <2>1, <2>2 DEF LoopInv
<1> QED
  BY <1>1, <1>2, <1>3 DEF Next

LEMMA InitLoop == Init => LoopInv
<1> SUFFICES ASSUME Init PROVE LoopInv
  OBVIOUS
<1>1. /\ bucketn = buckets.min /\ objectn = objects.min /\ pc = "bucket" /\ length = 0
      /\ BagToSet(named) = {}
  BY DEF Init, EmptyBag, BagToSet, SetToBag
<1>2. buckets.min \in Nat /\ objects.min \in Nat /\ Turns(objects) \in Nat
  BY InitTypeOK, LoopTypes
<1>3. BucketsOver = 0 /\ ObjectsOver = 0 /\ 0 * Turns(objects) = 0
  BY <1>1, <1>2 DEF BucketsOver, ObjectsOver
<1> QED
  BY <1>1, <1>2, <1>3 DEF LoopInv, Within

THEOREM LoopInvariant == Spec => [](TypeOK /\ LoopInv)
  BY InitTypeOK, StepTypeOK, InitLoop, StepLoop, PTL DEF Spec

\* Bucket and object numbers are in range whatever is accepted, and there is an
\* item for every turn (worker/main.go:335-410, EvaluateDistribution).
THEOREM NumbersInRange == Spec => []InRange
<1>1. TypeOK /\ LoopInv => InRange
  <2> SUFFICES ASSUME TypeOK, LoopInv PROVE InRange
    OBVIOUS
  <2>1. ASSUME pc = "done" PROVE length = Turns(buckets) * Turns(objects)
    <3>1. bucketn - buckets.min = Turns(buckets)
      BY <2>1, LoopTypes, LoopOver DEF LoopInv
    <3>2. length = Turns(buckets) * Turns(objects) + 0
      BY <2>1, <3>1 DEF LoopInv, BucketsOver, ObjectsOver
    <3>3. Turns(buckets) * Turns(objects) \in Nat
      BY LoopTypes, OneMore
    <3> QED
      BY <3>2, <3>3
  <2> QED
    BY <2>1 DEF InRange, LoopInv
<1> QED
  BY <1>1, LoopInvariant, PTL

(***************************************************************************)
(* Sizes.                                                                  *)
(***************************************************************************)

\* Sizes lie between the configured ones in their unit, unless the conversion to
\* bytes in checkTestCase wraps or the maximum is below the minimum.
THEOREM Sizes == Spec => []SizesAsConfigured
<1> DEFINE lower == asked.sizes.min * Multiplicator[asked.unit]
           upper == asked.sizes.max * Multiplicator[asked.unit]
<1>1. Init => SizesAsConfigured
  BY DEF Init, SizesAsConfigured
<1>2. TypeOK /\ SizesAsConfigured /\ [Next]_vars => SizesAsConfigured'
  <2> SUFFICES ASSUME TypeOK, SizesAsConfigured, [Next]_vars, lower \in Number, upper \in Number, lower <= upper,
                      asked' = asked
               PROVE  sized' \subseteq lower..upper
    BY ObjectStep, BucketStep, OtherStep DEF SizesAsConfigured, Next
  <2>1. sizes.min = lower /\ sizes.max = upper /\ lower \in Nat /\ upper \in Nat
    <3>1. sizes.min = InBytes(asked.sizes.min, asked.unit) /\ sizes.max = InBytes(asked.sizes.max, asked.unit)
      BY CheckedCase DEF TypeOK, sizes
    <3> QED
      BY <3>1, Wraps DEF InBytes
  <2>2. sized \subseteq lower..upper
    BY DEF SizesAsConfigured
  <2> HIDE DEF lower, upper
  <2>3. ASSUME NextObject PROVE sized' \subseteq lower..upper
    <3>1. PICK s \in Evaluate(sizes, sizeLast) : sized' = sized \cup {s}
      BY <2>3, ObjectStep
    <3>2. Ranged(sizes) /\ sizeLast \in Number
      BY CaseType, KeptIn DEF TypeOK
    <3>3. s \in Span(sizes)
      BY <2>1, <3>2, Evaluated
    <3> QED
      BY <2>1, <2>2, <3>1, <3>3 DEF Span
  <2>4. ~NextObject => sized' = sized
    BY BucketStep, OtherStep DEF Next
  <2> QED
    BY <2>2, <2>3, <2>4
<1> QED
  BY <1>1, <1>2, Typed, PTL DEF Spec

(***************************************************************************)
(* Sequential numbers.                                                     *)
(***************************************************************************)

\* What follows the number kept: the minimum, or the number after it.
LEMMA FollowingIs ==
  ASSUME NEW d, Ranged(d), d.kind = "sequential", d.min >= 1, d.max + 1 \in Number, NEW n \in Span(d),
         NEW prev \in Nat, \/ prev = n - 1
                           \/ prev \in {0, d.max} /\ n = d.min
  PROVE  Evaluate(d, prev) = {n} /\ Kept(d, prev) = n
<1>1. d.min \in Nat /\ d.max \in Nat /\ n \in Nat /\ d.min <= n /\ n <= d.max
  BY Wraps DEF Ranged, Span
<1>2. n \in Number /\ 1 \in Number
  BY <1>1, Wraps DEF Number
<1>3. U(prev + 1) = prev + 1
  <2>1. prev + 1 \in {n, 1, d.max + 1}
    BY <1>1
  <2> QED
    BY <1>2, <2>1, Wraps
<1>4. Following(d, prev) = n
  BY <1>1, <1>3 DEF Following, Wrap
<1> QED
  BY <1>4 DEF Evaluate, Kept

\* An item that was not there makes the set larger by one.
LEMMA BagInsert ==
  ASSUME NEW A, NEW x, x \notin A
  PROVE  SetToBag(A) (+) SetToBag({x}) = SetToBag(A \cup {x})
  BY DEF \oplus, SetToBag

LEMMA StepSequential == TypeOK /\ LoopInv /\ SequentialInv /\ [Next]_vars => SequentialInv'
<1> SUFFICES ASSUME TypeOK, LoopInv, SequentialInv, [Next]_vars,
                    buckets' = buckets, objects' = objects,
                    buckets.kind = "sequential", objects.kind = "sequential", pc' # "panic"
             PROVE  SequentialInv'
  BY ObjectStep, BucketStep, OtherStep DEF Next, SequentialInv
<1>0. /\ bucketn \in Nat /\ objectn \in Nat
      /\ buckets.min \in Nat /\ buckets.max \in Nat /\ objects.min \in Nat /\ objects.max \in Nat
      /\ buckets.min >= 1 /\ objects.min >= 1
      /\ Within(buckets, bucketn) /\ Within(objects, objectn)
  BY LoopTypes DEF LoopInv
<1>1. CASE NextBucket
  <2>0. /\ pc = "bucket" /\ pc' = "object" /\ bucketn' = bucketn + 1 /\ bucketn \in Span(buckets)
        /\ UNCHANGED <<objectLast, named>> /\ objectn' = objects.min
        /\ bucket' \in Evaluate(buckets, bucketLast) /\ bucketLast' = Kept(buckets, bucketLast)
    BY <1>0, <1>1, BucketStep DEF Within, Span
  <2>1. bucketLast = IF bucketn = buckets.min THEN 0 ELSE bucketn - 1
    BY <2>0 DEF SequentialInv
  <2>2. bucket' = bucketn /\ bucketLast' = bucketn
    <3>1. bucketLast \in Nat /\ (bucketLast = bucketn - 1 \/ (bucketLast \in {0, buckets.max} /\ bucketn = buckets.min))
      BY <1>0, <2>0, <2>1 DEF Within
    <3>2. Evaluate(buckets, bucketLast) = {bucketn} /\ Kept(buckets, bucketLast) = bucketn
      BY <1>0, <2>0, <3>1, FollowingIs, CaseType
    <3> QED
      BY <2>0, <3>2
  <2>3. BucketsOver' = BucketsOver /\ ObjectsOver = 0 /\ ObjectsOver' = 0
    BY <1>0, <2>0 DEF BucketsOver, ObjectsOver
  <2>4. Visited' = Visited
    BY <2>3 DEF Visited, Span
  <2>5. objectLast \in {0, objects.max} /\ named = SetToBag(Visited)
    BY <2>0, <2>3 DEF SequentialInv
  <2> QED
    BY <1>0, <2>0, <2>2, <2>3, <2>4, <2>5 DEF SequentialInv, Span
<1>2. CASE NextObject
  <2>0. /\ pc = "object" /\ pc' = "object" /\ objectn <= objects.max /\ objectn' = objectn + 1
        /\ objectn \in Span(objects)
        /\ UNCHANGED <<bucketn, bucketLast, bucket>> /\ objectLast' = Kept(objects, objectLast)
    BY <1>0, <1>2, ObjectStep DEF Within, Span
  <2>1. /\ bucketLast = IF bucketn = buckets.min THEN 0 ELSE bucketn - 1
        /\ IF ObjectsOver = 0 THEN objectLast \in {0, objects.max} ELSE objectLast = objectn - 1
        /\ bucket = bucketn - 1 /\ named = SetToBag(Visited)
    BY <2>0 DEF SequentialInv
  <2>2. Evaluate(objects, objectLast) = {objectn} /\ Kept(objects, objectLast) = objectn
    <3>1. objectLast \in Nat /\ (objectLast = objectn - 1 \/ (objectLast \in {0, objects.max} /\ objectn = objects.min))
      BY <1>0, <2>0, <2>1 DEF ObjectsOver, Within
    <3> QED
      BY <1>0, <2>0, <3>1, FollowingIs, CaseType
  <2>3. named' = named (+) SetToBag({<<bucket, objectn>>})
    BY <1>2, <2>2, ObjectStep
  <2>4. /\ BucketsOver' = BucketsOver /\ ObjectsOver' = ObjectsOver + 1 /\ ObjectsOver = objectn - objects.min
        /\ buckets.min + BucketsOver = bucket /\ objects.min + ObjectsOver = objectn
        /\ objects.min + ObjectsOver' = objectn + 1 /\ ObjectsOver' # 0
    BY <1>0, <2>0, <2>1 DEF BucketsOver, ObjectsOver, Within
  <2>5. Visited = {n \in Span(buckets) \X Span(objects) : n[1] < bucket \/ (n[1] = bucket /\ n[2] < objectn)}
    BY <2>4 DEF Visited
  <2>6. Visited' = {n \in Span(buckets) \X Span(objects) : n[1] < bucket \/ (n[1] = bucket /\ n[2] < objectn + 1)}
    BY <2>4 DEF Visited, Span
  <2>7. bucket \in Span(buckets) /\ <<bucket, objectn>> \notin Visited
    <3>1. bucket \in Span(buckets) /\ bucket \in Nat
      BY <1>0, <2>0 DEF LoopInv, Span
    <3>2. ~(bucket < bucket) /\ ~(objectn < objectn)
      BY <1>0, <3>1
    <3> QED
      BY <2>5, <3>1, <3>2
  <2>8. Visited' = Visited \cup {<<bucket, objectn>>}
    <3>1. \A n \in Span(buckets) \X Span(objects) :
            n[2] < objectn + 1 <=> n[2] < objectn \/ n[2] = objectn
      BY <1>0 DEF Span
    <3>2. \A n \in Span(buckets) \X Span(objects) : n = <<n[1], n[2]>>
      OBVIOUS
    <3>3. <<bucket, objectn>> \in Span(buckets) \X Span(objects) /\ ~(bucket < bucket)
      BY <1>0, <2>0, <2>7 DEF Span
    <3> QED
      BY <2>5, <2>6, <3>1, <3>2, <3>3
  <2>9. named' = SetToBag(Visited')
    BY <2>1, <2>3, <2>7, <2>8, BagInsert
  <2> QED
    BY <1>0, <2>0, <2>1, <2>2, <2>4, <2>9 DEF SequentialInv
<1>3. CASE BucketDone \/ AllDone \/ Panic \/ UNCHANGED vars
  <2>0. /\ UNCHANGED <<bucketn, objectn, bucketLast, objectLast, bucket, named>>
        /\ \/ pc = "object" /\ objectn > objects.max /\ pc' = "bucket"
           \/ pc = "bucket" /\ bucketn > buckets.max /\ pc' = "done"
           \/ pc' = pc
    BY <1>3, OtherStep
  <2>1. pc # "panic"
    BY <2>0
  <2>2. CASE pc = "object" /\ objectn > objects.max /\ pc' = "bucket"
    <3>1. /\ IF ObjectsOver = 0 THEN objectLast \in {0, objects.max} ELSE objectLast = objectn - 1
          /\ bucketLast = IF bucketn = buckets.min THEN 0 ELSE bucketn - 1
          /\ named = SetToBag(Visited)
      BY <2>1 DEF SequentialInv
    <3>2. /\ ObjectsOver = objectn - objects.min /\ ObjectsOver' = 0
          /\ buckets.min + BucketsOver = bucketn - 1 /\ buckets.min + BucketsOver' = bucketn
          /\ objects.min + ObjectsOver = objectn /\ objects.min + ObjectsOver' = objects.min
      BY <1>0, <2>0, <2>2 DEF BucketsOver, ObjectsOver
    <3>3. objectLast \in {0, objects.max}
      BY <1>0, <2>2, <3>1, <3>2 DEF Within
    <3>4. Visited' = Visited
      <4>1. Visited = {n \in Span(buckets) \X Span(objects) : n[1] < bucketn - 1 \/ (n[1] = bucketn - 1 /\ n[2] < objectn)}
        BY <3>2 DEF Visited
      <4>2. Visited' = {n \in Span(buckets) \X Span(objects) : n[1] < bucketn \/ (n[1] = bucketn /\ n[2] < objects.min)}
        BY <3>2 DEF Visited, Span
      <4>3. \A n \in Span(buckets) \X Span(objects) :
              /\ n[1] < bucketn <=> n[1] < bucketn - 1 \/ n[1] = bucketn - 1
              /\ n[2] < objectn /\ ~(n[2] < objects.min)
        BY <1>0, <2>2 DEF Span
      <4> QED
        BY <4>1, <4>2, <4>3
    <3> QED
      BY <2>0, <2>2, <3>1, <3>2, <3>3, <3>4 DEF SequentialInv
  <2>3. CASE (pc = "bucket" /\ pc' = "done") \/ pc' = pc
    <3>1. BucketsOver' = BucketsOver /\ ObjectsOver' = ObjectsOver
      BY <2>0, <2>3 DEF BucketsOver, ObjectsOver
    <3>2. Visited' = Visited
      BY <3>1 DEF Visited, Span
    <3> QED
      BY <2>0, <2>1, <2>3, <3>1, <3>2 DEF SequentialInv
  <2> QED
    BY <2>0, <2>2, <2>3
<1> QED
  BY <1>1, <1>2, <1>3 DEF Next

LEMMA InitSequential == Init => SequentialInv
<1> SUFFICES ASSUME Init PROVE SequentialInv
  OBVIOUS
<1>1. /\ bucketn = buckets.min /\ objectn = objects.min /\ pc = "bucket"
      /\ bucketLast = 0 /\ objectLast = 0 /\ named = EmptyBag
  BY DEF Init
<1>2. /\ buckets.min \in Nat /\ buckets.max \in Nat /\ objects.min \in Nat /\ objects.max \in Nat
  BY InitTypeOK, LoopTypes
<1>3. BucketsOver = 0 /\ ObjectsOver = 0
  BY <1>1, <1>2 DEF BucketsOver, ObjectsOver
<1>4. Visited = {}
  BY <1>2, <1>3 DEF Visited, Span
<1> QED
  BY <1>1, <1>3, <1>4 DEF SequentialInv, EmptyBag

\* With sequential numbers the queue has every object of every bucket once
\* (EvaluateDistribution keeps the object number from one bucket to the next).
THEOREM SequentialNumbers == Spec => []SequentialCovers
<1>1. TypeOK /\ LoopInv /\ SequentialInv => SequentialCovers
  <2> SUFFICES ASSUME TypeOK, LoopInv, SequentialInv, pc = "done",
                      buckets.kind = "sequential", objects.kind = "sequential"
               PROVE  named = SetToBag(Span(buckets) \X Span(objects))
    BY DEF SequentialCovers
  <2>1. named = SetToBag(Visited)
    BY DEF SequentialInv
  <2>2. buckets.min + BucketsOver = bucketn /\ bucketn > buckets.max /\ bucketn \in Nat /\ buckets.max \in Nat
    BY LoopTypes DEF BucketsOver, LoopInv
  <2>3. Visited = Span(buckets) \X Span(objects)
    <3>1. \A n \in Span(buckets) \X Span(objects) : n[1] < bucketn
      BY <2>2, LoopTypes DEF Span
    <3> QED
      BY <2>2, <3>1 DEF Visited
  <2> QED
    BY <2>1, <2>3
<1>2. TypeOK /\ LoopInv /\ SequentialInv /\ [Next]_vars => SequentialInv'
  BY StepSequential
<1> QED
  BY <1>1, <1>2, InitSequential, LoopInvariant, PTL DEF Spec
=============================================================================
