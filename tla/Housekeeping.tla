---------------------------- MODULE Housekeeping ----------------------------
(***************************************************************************)
(* The buckets of the store under a team of workers: fillWorkqueue creates *)
(* them, the preparation and the load use them, and with clean_after every *)
(* worker deletes them at the end of its own load (worker/main.go,         *)
(* worker/s3.go), while others of the team may still be working.  A call   *)
(* to the store is a step; it fails only for what it finds there.          *)
(***************************************************************************)
EXTENDS Workers, Sequences, Functions, Gateway

CONSTANTS
  Queue,        \* the items of a test in the order of the work queue: records
                \* [turn, op, obj], turn being that of the loop over buckets
  MinBucket, MaxBucket,
  Settings,     \* the benchmarks: sequences of tests [share, clean, skip, drawn],
                \* drawn being the bucket number of each turn
  Found,        \* the stores that may be found at the start
  DeleteLimit,  \* keys that DeleteObjects takes at most, 1000
  Gateways, Hosts  \* names of the S3 configurations; hosts workers may run on

Item  == 1..Len(Queue)
Turns == MaxBucket - MinBucket + 1

ASSUME HousekeepingAssumption ==
  /\ MinBucket \in Nat \ {0} /\ MaxBucket \in Nat /\ Turns \in Nat \ {0}
  /\ DeleteLimit \in Nat /\ Len(Queue) \in Nat \ {0} /\ Len(Gateways) \in Nat \ {0}
  /\ \A b \in Found : IsFiniteSet(DOMAIN b)
  /\ \A s \in Settings : s \in [1..NumTests ->
       [share : BOOLEAN, clean : BOOLEAN, skip : BOOLEAN, drawn : [1..Turns -> MinBucket..MaxBucket]]]
  /\ \A i \in Item : Queue[i].turn \in 1..Turns /\ Queue[i].op \in {"read", "write", "list", "delete"}

VARIABLES
  tests,    \* the configuration
  buckets,  \* the objects in each bucket there is
  step,     \* what a process is doing in its preparation or performance test
  idx,      \* where its loop is
  listed,   \* objectsToDelete
  crowded   \* history: buckets that deleteBucket found with too many objects

store == <<buckets, listed, crowded>>
vars == <<workers, tests, store, step, idx>>

Test(p) == tests[task[p]]

\* Bucket n of p's test
Shared == -1
Name(p, n) == <<IF Test(p).share THEN Shared ELSE id[p], n>>
Bucket(p, i) == Name(p, Test(p).drawn[Queue[i].turn])
Key(p, i) == <<id[p], Queue[i].obj>>

-----------------------------------------------------------------------------
(* The calls to the store.                                                 *)

Exists(b) == b \in DOMAIN buckets

CreateBucket(b) ==
  buckets' = [c \in DOMAIN buckets \cup {b} |-> IF Exists(c) THEN buckets[c] ELSE {}]

PutObject(b, k) ==
  buckets' = IF Exists(b) THEN [buckets EXCEPT ![b] = @ \cup {k}] ELSE buckets

DeleteObjects(b, keys) ==
  buckets' = IF Exists(b) THEN [buckets EXCEPT ![b] = @ \ keys] ELSE buckets

\* Only an empty bucket can be deleted.
DropBucket(b) ==
  buckets' = IF Exists(b) /\ buckets[b] = {} THEN Restrict(buckets, DOMAIN buckets \ {b})
                                             ELSE buckets

-----------------------------------------------------------------------------
Walk(p, place, n) == step' = [step EXCEPT ![p] = place] /\ idx' = [idx EXCEPT ![p] = n]

\* A loop up to last: on to the next turn, or out to a place.
Loop(p, last, place, first) ==
  IF idx[p] < last THEN Walk(p, step[p], idx[p] + 1) ELSE Walk(p, place, first)

Take(p) == Join(p) /\ Walk(p, "fill", 1) /\ UNCHANGED <<tests, store>>

\* fillWorkqueue
Fill(p) ==
  /\ step[p] = "fill"
  /\ CreateBucket(Name(p, Test(p).drawn[idx[p]]))
  /\ Loop(p, Turns, IF Test(p).skip THEN "ready" ELSE "put", 1)
  /\ UNCHANGED <<workers, tests, listed, crowded>>

\* work.Prepare: an object that is there already may be spared the put.
Put(p) ==
  /\ step[p] = "put"
  /\ IF Queue[idx[p]].op \in {"list", "delete"}
       THEN PutObject(Bucket(p, idx[p]), Key(p, idx[p]))
       ELSE UNCHANGED buckets
  /\ Loop(p, Len(Queue), "ready", 1)
  /\ UNCHANGED <<workers, tests, listed, crowded>>

Resume(p, place) == step' = [step EXCEPT ![p] = IF at'[p] = "idle" THEN "end" ELSE place]

Prepared(p) ==
  step[p] = "ready" /\ PreparationsDone(p) /\ Resume(p, "load") /\ UNCHANGED <<tests, store, idx>>

Start(p) == Begin(p) /\ Resume(p, "load") /\ UNCHANGED <<tests, store, idx>>

\* work.Do of any item, by any client, again and again
Do(p) ==
  /\ at[p] = "load" /\ step[p] = "load"
  /\ \E i \in Item :
       CASE Queue[i].op = "write"  -> PutObject(Bucket(p, i), Key(p, i))
         [] Queue[i].op = "delete" -> DeleteObjects(Bucket(p, i), {Key(p, i)})
         [] OTHER                  -> UNCHANGED buckets
  /\ UNCHANGED <<workers, tests, listed, crowded, step, idx>>

\* workUntilTimeout and workUntilOps prepare what is deleted anew, each time
\* round the queue, while the clients go on.
Reprepare(p) ==
  /\ at[p] = "load" /\ step[p] = "load"
  /\ ~Test(p).skip
  /\ \E i \in Item : Queue[i].op = "delete" /\ PutObject(Bucket(p, i), Key(p, i))
  /\ UNCHANGED <<workers, tests, listed, crowded, step, idx>>

\* All clients have stopped.
Stop(p) ==
  /\ at[p] = "load" /\ step[p] = "load"
  /\ Walk(p, IF Test(p).clean THEN "clean" ELSE "end", 1)
  /\ UNCHANGED <<workers, tests, store>>

\* work.Clean
Clean(p) ==
  /\ step[p] = "clean"
  /\ IF Queue[idx[p]].op = "delete"
       THEN UNCHANGED buckets
       ELSE DeleteObjects(Bucket(p, idx[p]), {Key(p, idx[p])})
  /\ Loop(p, Len(Queue), "list", MinBucket)
  /\ UNCHANGED <<workers, tests, listed, crowded>>

\* deleteBucket of the buckets with the numbers MinBucket to MaxBucket, drawn or
\* not; and a slip that leaves out the last.
AllButLast == MaxBucket - 1
LastBucket == MaxBucket

NextBucket(p) ==
  IF idx[p] < LastBucket THEN Walk(p, "list", idx[p] + 1) ELSE Walk(p, "end", 1)

\* ListObjectsV2, page after page
List(p) ==
  /\ step[p] = "list"
  /\ LET b == Name(p, idx[p]) IN
       IF ~Exists(b)
         THEN NextBucket(p) /\ UNCHANGED <<listed, crowded>>
         ELSE /\ listed' = [listed EXCEPT ![p] = buckets[b]]
              /\ crowded' = IF Cardinality(buckets[b]) > DeleteLimit THEN crowded \cup {b} ELSE crowded
              /\ Walk(p, IF buckets[b] = {} THEN "drop" ELSE "empty", idx[p])
  /\ UNCHANGED <<workers, tests, buckets>>

\* DeleteObjects: an error leaves the bucket.
Empty(p) ==
  /\ step[p] = "empty"
  /\ IF Cardinality(listed[p]) > DeleteLimit \/ ~Exists(Name(p, idx[p]))
       THEN NextBucket(p) /\ UNCHANGED buckets
       ELSE Walk(p, "drop", idx[p]) /\ DeleteObjects(Name(p, idx[p]), listed[p])
  /\ listed' = [listed EXCEPT ![p] = {}]
  /\ UNCHANGED <<workers, tests, crowded>>

\* DeleteBucket
Drop(p) ==
  /\ step[p] = "drop"
  /\ DropBucket(Name(p, idx[p]))
  /\ NextBucket(p)
  /\ UNCHANGED <<workers, tests, listed, crowded>>

\* May the process answer "work done"?  And a slip: before the clean-up.
LoadOver(p) == step[p] # "load"
TestOver(p) == step[p] = "end"

Finish(p) == TestOver(p) /\ WorkDone(p) /\ UNCHANGED <<tests, store, step, idx>>

ServerStep ==
  /\ \/ StartWork /\ UNCHANGED crowded
     \/ (Advance \/ Restart) /\ crowded' = {}
  /\ UNCHANGED <<tests, buckets, listed, step, idx>>

ProcessStep(p) ==
  \/ Take(p)
  \/ Fill(p)
  \/ Put(p)
  \/ Prepared(p)
  \/ Start(p)
  \/ Do(p)
  \/ Reprepare(p)
  \/ Stop(p)
  \/ Clean(p)
  \/ List(p)
  \/ Empty(p)
  \/ Drop(p)
  \/ Finish(p)

Init ==
  /\ WorkersInit
  /\ tests \in Settings
  /\ buckets \in Found
  /\ step = [p \in Proc |-> "end"]
  /\ idx = [p \in Proc |-> 1]
  /\ listed = [p \in Proc |-> {}]
  /\ crowded = {}

Next == ServerStep \/ \E p \in Proc : ProcessStep(p)

Spec == Init /\ [][Next]_vars

-----------------------------------------------------------------------------
(* Properties.                                                             *)

Places == {"fill", "put", "ready", "load", "clean", "list", "empty", "drop", "end"}

\* Processes keep their types, and numbers from w0 on without a gap or a
\* repetition in every team (server/main.go:147), on which all names rest.
TypeOK ==
  /\ WorkersOK
  /\ tests \in Settings
  /\ IsFiniteSet(DOMAIN buckets)
  /\ step \in [Proc -> Places] /\ idx \in [Proc -> 1..(Len(Queue) + MaxBucket)]
  /\ DOMAIN listed = Proc /\ \A p \in Proc : listed[p] # {} => step[p] = "empty"

Cleaning(p) == step[p] \in {"clean", "list", "empty", "drop"}

\* No preparation and no load misses a bucket it created, though every worker
\* deletes buckets, until one that shares them is through with its load: an
\* earlier test has ended its clean-up when the next begins.  Only workers of a
\* server that was restarted can break this.
BucketsThere ==
  ~troubled =>
    \A p \in Team :
      /\ step[p] \in {"put", "ready", "load"}
      /\ Test(p).share /\ Test(p).clean => \A q \in Team : step[q] \in {"fill", "put", "ready", "load"}
      => \A n \in Range(Test(p).drawn) : Exists(Name(p, n))

\* The objects of p's work items in its buckets, with their bucket's number.
Own(p) ==
  {<<n, k[2]>> : n \in {m \in MinBucket..MaxBucket : Exists(Name(p, m))},
                 k \in {<<id[p], Queue[i].obj>> : i \in Item}}
OwnPresent(p) == {o \in Own(p) : <<id[p], o[2]>> \in buckets[Name(p, o[1])]}

PhaseOf(p) ==
  CASE step[p] \in {"fill", "put", "ready"} -> "prepare"
    [] step[p] = "load"                     -> "load"
    [] Cleaning(p)                          -> "clean"
    [] OTHER                                -> "idle"

L(p) == INSTANCE Load WITH
  Deletable <- {<<n, Queue[i].obj>> : n \in MinBucket..MaxBucket, i \in {j \in Item : Queue[j].op = "delete"}},
  phase <- PhaseOf(p), objs <- OwnPresent(p)

\* A busy process that has p's buckets, and has p's names for objects as well or
\* is deleting the buckets: a worker of an earlier server with the same number, or
\* one that shares the buckets and cleans up.
Rival(q, p) ==
  /\ q # p /\ at[q] # "idle"
  /\ Name(q, MinBucket) = Name(p, MinBucket)
  /\ id[q] = id[p] \/ Cleaning(q)

\* As long as a worker has no rival its objects change only in steps of its own,
\* and there as Load says: PerfTest, which knows of one worker only, then says
\* what happens to them, whoever else is busy, of its own team or of an earlier
\* server.
Isolated ==
  [][\A p \in Team : (\A q \in Proc : ~Rival(q, p)) =>
       UNCHANGED L(p)!vars \/ (ProcessStep(p) /\ L(p)!Next)]_vars

\* When all of a team have finished a test with clean_after, every bucket in its
\* range of numbers is gone, also one that it did not generate and what it did
\* not put there, whoever deleted it and whatever the others did meanwhile;
\* unless it once held more than DeleteObjects takes.  A round that began while a
\* worker of an earlier server was still busy is exempt: that worker may put
\* buckets and objects back behind the clean-up.
CleanedUp ==
  RoundOver /\ ~troubled =>
    \A p \in Team : Test(p).clean =>
      \A n \in MinBucket..MaxBucket : Exists(Name(p, n)) => Name(p, n) \in crowded

\* examples/example_config.yaml:71, "Remove all generated buckets and its content
\* after run".
GeneratedRemoved ==
  RoundOver /\ ~troubled =>
    \A p \in Team : Test(p).clean => \A n \in Range(Test(p).drawn) : ~Exists(Name(p, n))

\* The workers of a team, who are numbered as they come, use the gateways evenly,
\* if none of them runs on the host of a gateway or each on that of another.  It
\* says nothing of mixed teams and of workers that share a host: these may crowd on
\* one gateway (worker/s3.go:48).
GatewaysEven ==
  RoundOver =>
    \A host \in [Team -> Hosts], colocated \in BOOLEAN :
      \/ \A p \in Team : Matches(Gateways, host[p]) = {}
      \/ IsInjective(host) /\ \A p \in Team : Matches(Gateways, host[p]) # {}
      => Spread(Len(Gateways), Team, LAMBDA p : Endpoint(Gateways, colocated, id[p], host[p]))

-----------------------------------------------------------------------------
(* Why: where the processes are, and what is left to them to clean up.     *)

Early == {"fill", "put", "ready", "load"}

\* A process is where its last message left it, and its loops are in their ranges.
PlaceInv(p) ==
  /\ at[p] = "idle"    => step[p] = "end"
  /\ at[p] = "prepare" => step[p] \in {"fill", "put", "ready"}
  /\ at[p] \in {"wait", "told"} => step[p] = "load"
  /\ at[p] = "load"    => step[p] = "load" \/ Cleaning(p) \/ step[p] = "end"
  /\ step[p] = "fill"  => idx[p] \in 1..Turns
  /\ step[p] \in {"put", "clean"} => idx[p] \in Item
  /\ step[p] \in {"list", "empty", "drop"} => idx[p] \in MinBucket..MaxBucket
  /\ Cleaning(p) => Test(p).clean
PlacesInv == \A p \in Proc : PlaceInv(p)

\* As long as nobody of a team that shares and cleans has come to the clean-up.
Undisturbed(p) == Test(p).share /\ Test(p).clean => \A q \in Team : step[q] \in Early

\* The buckets of the turns that are over are there.
FilledInv ==
  ~troubled =>
    \A p \in Team : Undisturbed(p) =>
      \A k \in 1..Turns :
        step[p] \in {"put", "ready", "load"} \/ (step[p] = "fill" /\ k < idx[p])
          => Exists(Name(p, Test(p).drawn[k]))

\* The clean-up of q has yet to come to bucket n, or has begun and nobody has put
\* anything there meanwhile.
Pending(q, n) ==
  \/ step[q] \in Early \cup {"clean"}
  \/ step[q] = "list" /\ idx[q] <= n
  \/ step[q] \in {"empty", "drop"} /\ idx[q] < n
  \/ step[q] = "empty" /\ idx[q] = n /\ buckets[Name(q, n)] \subseteq listed[q]
  \/ step[q] = "drop" /\ idx[q] = n /\ buckets[Name(q, n)] = {}

\* A bucket that is there has somebody left who will delete it: the last one to
\* put something there, if nobody else.
CleanInv ==
  ~troubled =>
    /\ \A p \in Team : Test(p).clean => \A n \in MinBucket..MaxBucket :
         Exists(Name(p, n)) /\ Name(p, n) \notin crowded =>
           \E q \in Team : Name(q, n) = Name(p, n) /\ Pending(q, n)
    /\ \A q \in Team : step[q] = "empty" /\ Cardinality(listed[q]) > DeleteLimit =>
         Name(q, idx[q]) \in crowded
=============================================================================
