---------------------------- MODULE Distribution ----------------------------
(***************************************************************************)
(* The buckets, objects and sizes of a test's work items: the two nested   *)
(* loops of fillWorkqueue (worker/main.go) around EvaluateDistribution     *)
(* (common/configFile.go), whose "sequential" keeps its last number in the *)
(* test case, across all the turns of both loops.  Numbers are uint64 in   *)
(* the code and wrap at Modulus here.  The test case is what checkTestCase *)
(* (TestCase) makes of the one in the configuration file.                  *)
(***************************************************************************)
EXTENDS TestCase, Bags

CONSTANT TestCases  \* what may be configured

Distributions == [min : Number, max : Number, kind : STRING]

\* A configuration file may have it, and the loop counters do not wrap.
Configurable(t) ==
  /\ t \in [payload : STRING, runtime : Int, ops : Nat, oneshot : BOOLEAN,
            weights : [{"read", "write", "list", "delete"} -> Int],
            buckets : Distributions, objects : Distributions, sizes : Distributions,
            unit : STRING, options : SUBSET [chunk : Int, unit : STRING]]
  /\ t.buckets.max + 1 \in Number /\ t.objects.max + 1 \in Number

ASSUME TestCasesAssumption == \A t \in TestCases : Configurable(t)

VARIABLES
  pc,                        \* "bucket", "object", "done", or "panic"
  asked,                     \* the test case in the configuration file
  test,                      \* ... and as the workers get it
  bucketn, objectn,          \* the loop counters
  bucketLast, objectLast, sizeLast,  \* NumberLast, NumberLast and SizeLast
  bucket,                    \* the bucket at hand
  named,                     \* Queue: the bag of its bucket and object numbers,
  sized,                     \* the object sizes in it,
  length                     \* and the number of its items

buckets == test.buckets
objects == test.objects
sizes   == test.sizes

config == <<asked, test>>
last   == <<bucketLast, objectLast, sizeLast>>
queue  == <<named, sized, length>>
vars == <<pc, config, bucketn, objectn, last, bucket, queue>>

\* "sequential", and a slip that wraps at the maximum.
EarlyWrap(d, n)  == IF d.max <= n \/ n < d.min THEN d.min ELSE n
Wrap(d, n) == IF d.max < n \/ n < d.min THEN d.min ELSE n
Following(d, prev) == Wrap(d, U(prev + 1))

\* "random".  There is no number at all when max = min: the code divides by zero.
Random(d) == {U(k + d.min) : k \in 0..(U(d.max - d.min) - 1)}

\* EvaluateDistribution with increment 1: the numbers it may return ...
Evaluate(d, prev) ==
  CASE d.kind = "constant"   -> {d.min}
    [] d.kind = "random"     -> Random(d)
    [] d.kind = "sequential" -> {Following(d, prev)}
    [] OTHER                 -> {0}

\* ... and the last number it keeps; and a slip that keeps it before the wrap.
KeptUnwrapped(d, prev) == prev + 1
Kept(d, prev) == IF d.kind = "sequential" THEN Following(d, prev) ELSE prev

Panics(d) == Evaluate(d, 0) = {}

NextBucket ==
  /\ pc = "bucket"
  /\ bucketn <= buckets.max
  /\ bucket' \in Evaluate(buckets, bucketLast)
  /\ bucketLast' = Kept(buckets, bucketLast)
  /\ bucketn' = bucketn + 1
  /\ objectn' = objects.min
  /\ pc' = "object"
  /\ UNCHANGED <<config, objectLast, sizeLast, queue>>

NextObject ==
  /\ pc = "object"
  /\ objectn <= objects.max
  /\ \E o \in Evaluate(objects, objectLast), s \in Evaluate(sizes, sizeLast) :
       /\ named' = named (+) SetToBag({<<bucket, o>>})
       /\ sized' = sized \cup {s}
  /\ length' = length + 1
  /\ objectLast' = Kept(objects, objectLast)
  /\ sizeLast' = Kept(sizes, sizeLast)
  /\ objectn' = objectn + 1
  /\ UNCHANGED <<pc, config, bucketn, bucketLast, bucket>>

BucketDone ==
  /\ pc = "object"
  /\ objectn > objects.max
  /\ pc' = "bucket"
  /\ UNCHANGED <<config, bucketn, objectn, last, bucket, queue>>

AllDone ==
  /\ pc = "bucket"
  /\ bucketn > buckets.max
  /\ pc' = "done"
  /\ UNCHANGED <<config, bucketn, objectn, last, bucket, queue>>

Panic ==
  /\ \/ pc = "bucket" /\ bucketn <= buckets.max /\ Panics(buckets)
     \/ pc = "object" /\ objectn <= objects.max /\ (Panics(objects) \/ Panics(sizes))
  /\ pc' = "panic"
  /\ UNCHANGED <<config, bucketn, objectn, last, bucket, queue>>

Init ==
  /\ pc = "bucket"
  /\ asked \in TestCases /\ Accepted(asked)
  /\ test = Checked(asked)
  /\ bucketn = buckets.min /\ objectn = objects.min
  /\ bucketLast = 0 /\ objectLast = 0 /\ sizeLast = 0
  /\ bucket = 0
  /\ named = EmptyBag /\ sized = {} /\ length = 0

Next == NextBucket \/ NextObject \/ BucketDone \/ AllDone \/ Panic

Spec == Init /\ [][Next]_vars

-----------------------------------------------------------------------------
(* Properties.                                                             *)

Span(d) == d.min..d.max

\* Every variable keeps its type: the numbers kept between calls, buckets and
\* tests stay 0 or inside their own range, so they never near the width.
TypeOK ==
  /\ pc \in {"bucket", "object", "done", "panic"}
  /\ Configurable(asked) /\ Accepted(asked) /\ test = Checked(asked)
  /\ bucketn \in Number /\ objectn \in Number /\ bucket \in Number
  /\ bucketLast \in {0, buckets.min} \cup Span(buckets)
  /\ objectLast \in {0, objects.min} \cup Span(objects)
  /\ sizeLast \in {0, sizes.min} \cup Span(sizes)
  /\ IsABag(named) /\ BagToSet(named) \subseteq Number \X Number /\ sized \subseteq Number
  /\ length \in Nat

Turns(d) == IF d.max < d.min THEN 0 ELSE d.max - d.min + 1

\* Every bucket and object number lies between its minimum and maximum whatever
\* test case is accepted, and the loops make one item per turn.
InRange ==
  /\ BagToSet(named) \subseteq Span(buckets) \X Span(objects)
  /\ pc = "done" => length = Turns(buckets) * Turns(objects)

\* Every size lies between the configured minimum and maximum in the configured
\* unit, unless the unit takes one of them beyond a number's width; nothing checks
\* that, nor that size_max is not below size_min.
SizesAsConfigured ==
  LET lower == asked.sizes.min * Multiplicator[asked.unit]
      upper == asked.sizes.max * Multiplicator[asked.unit]
  IN  lower \in Number /\ upper \in Number /\ lower <= upper => sized \subseteq lower..upper

\* With sequential numbers every object of every bucket gets exactly one item,
\* though the object number is not reset from one bucket to the next.
SequentialCovers ==
  pc = "done" /\ buckets.kind = "sequential" /\ objects.kind = "sequential" =>
    named = SetToBag(Span(buckets) \X Span(objects))

-----------------------------------------------------------------------------
(* Why: where the loops are, and what sequential numbers do meanwhile.     *)

\* A loop that starts at the minimum has not passed the maximum by more than one,
\* and takes no turn if the maximum is below the minimum.
Within(d, n) == d.min <= n /\ (n <= d.max + 1 \/ n = d.min)

\* Turns of the loop over buckets that are over, and those of the loop over
\* objects in the one at hand.
BucketsOver == (IF pc = "object" THEN bucketn - 1 ELSE bucketn) - buckets.min
ObjectsOver == IF pc = "object" THEN objectn - objects.min ELSE 0

LoopInv ==
  /\ Within(buckets, bucketn) /\ Within(objects, objectn)
  /\ pc = "object" => buckets.min < bucketn /\ bucket \in Span(buckets)
  /\ pc = "done" => bucketn > buckets.max
  /\ BagToSet(named) \subseteq Span(buckets) \X Span(objects)
  /\ pc # "panic" => length = BucketsOver * Turns(objects) + ObjectsOver

\* The numbers of the turns that are over.
Visited ==
  {n \in Span(buckets) \X Span(objects) :
     \/ n[1] < buckets.min + BucketsOver
     \/ n[1] = buckets.min + BucketsOver /\ n[2] < objects.min + ObjectsOver}

\* Sequential numbers are the loop counters: the number kept is the one before,
\* and at the start of a loop over objects 0 or the maximum, which both lead to
\* the minimum.
SequentialInv ==
  buckets.kind = "sequential" /\ objects.kind = "sequential" /\ pc # "panic" =>
    /\ bucketLast = IF bucketn = buckets.min THEN 0 ELSE bucketn - 1
    /\ IF ObjectsOver = 0 THEN objectLast \in {0, objects.max} ELSE objectLast = objectn - 1
    /\ pc = "object" => bucket = bucketn - 1
    /\ named = SetToBag(Visited)
=============================================================================
