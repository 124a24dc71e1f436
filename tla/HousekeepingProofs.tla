------------------------- MODULE HousekeepingProofs -------------------------
(***************************************************************************)
(* Proofs about the buckets under a team of workers, for any numbers of    *)
(* processes, tests, buckets and restarts.  In rounds that did not begin   *)
(* beside busy workers of an earlier server nobody misses a bucket it      *)
(* created, until a clean-up of shared buckets has begun, and no bucket    *)
(* that one call can empty outlives a test that cleans up, however the     *)
(* clean-ups of the workers interleave with each other and with the load   *)
(* of the others.  Teams that run apart from the gateways, or each beside  *)
(* another one, use them evenly.  And a worker without a rival keeps to    *)
(* Load, in steps of its own.                                              *)
(***************************************************************************)
EXTENDS Housekeeping, WorkersProofs

(***************************************************************************)
(* The calls to the store.                                                 *)
(***************************************************************************)

LEMMA Created ==
  ASSUME NEW b, CreateBucket(b)
  PROVE  DOMAIN buckets' = DOMAIN buckets \cup {b} /\ \A c \in DOMAIN buckets : buckets'[c] = buckets[c]
  BY DEF CreateBucket, Exists

LEMMA Stored ==
  ASSUME NEW b, NEW k, PutObject(b, k)
  PROVE  DOMAIN buckets' = DOMAIN buckets /\ \A c \in DOMAIN buckets : c # b => buckets'[c] = buckets[c]
  BY DEF PutObject, Exists

LEMMA Deleted ==
  ASSUME NEW b, NEW keys, DeleteObjects(b, keys)
  PROVE  /\ DOMAIN buckets' = DOMAIN buckets /\ \A c \in DOMAIN buckets : buckets'[c] \subseteq buckets[c]
         /\ Exists(b) => buckets'[b] = buckets[b] \ keys
  BY DEF DeleteObjects, Exists

LEMMA Dropped ==
  ASSUME NEW b, DropBucket(b)
  PROVE  /\ DOMAIN buckets' \subseteq DOMAIN buckets
         /\ \A c \in DOMAIN buckets : c # b \/ buckets[c] # {} => c \in DOMAIN buckets'
         /\ \A c \in DOMAIN buckets' : buckets'[c] = buckets[c]
         /\ Exists(b) /\ buckets[b] = {} => b \notin DOMAIN buckets'
  BY DEF DropBucket, Exists, Restrict

(***************************************************************************)
(* Types and places.                                                       *)
(***************************************************************************)

LEMMA Bounds ==
  /\ MinBucket \in Nat /\ MinBucket >= 1 /\ MaxBucket \in Nat /\ MinBucket <= MaxBucket
  /\ Turns \in Nat /\ Turns >= 1 /\ Turns = MaxBucket - MinBucket + 1 /\ Turns <= MaxBucket
  /\ Len(Queue) \in Nat /\ Len(Queue) >= 1 /\ Item = 1..Len(Queue)
  BY HousekeepingAssumption DEF Turns, Item

\* A test as the worker got it.
LEMMA TestType ==
  ASSUME TypeOK, NEW p \in Proc
  PROVE  /\ Test(p) \in [share : BOOLEAN, clean : BOOLEAN, skip : BOOLEAN,
                         drawn : [1..Turns -> MinBucket..MaxBucket]]
         /\ \A k \in 1..Turns : Test(p).drawn[k] \in MinBucket..MaxBucket
<1>1. tests \in [1..NumTests -> [share : BOOLEAN, clean : BOOLEAN, skip : BOOLEAN,
                                drawn : [1..Turns -> MinBucket..MaxBucket]]]
  BY HousekeepingAssumption DEF TypeOK
<1>2. task[p] \in 1..NumTests
  BY DEF TypeOK, WorkersOK
<1>3. Test(p) \in [share : BOOLEAN, clean : BOOLEAN, skip : BOOLEAN,
                  drawn : [1..Turns -> MinBucket..MaxBucket]]
  BY <1>1, <1>2 DEF Test
<1> QED
  BY <1>3

LEMMA Types ==
  ASSUME TypeOK
  PROVE  /\ step \in [Proc -> Places] /\ idx \in [Proc -> 1..(Len(Queue) + MaxBucket)] /\ DOMAIN listed = Proc
         /\ at \in [Proc -> {"idle", "prepare", "wait", "told", "load"}] /\ id \in [Proc -> Nat]
         /\ task \in [Proc -> 1..NumTests]
         /\ \A p \in Proc : idx[p] \in Nat
  BY Bounds DEF TypeOK, WorkersOK

\* Every step is one that Workers knows.
LEMMA NextWorkers == [Next]_vars => WorkersStep
<1>1. ASSUME NEW p \in Proc, ProcessStep(p) PROVE WorkersStep
  BY <1>1 DEF ProcessStep, Take, Fill, Put, Prepared, Start, Do, Reprepare, Stop, Clean, List, Empty, Drop, Finish, WorkersStep
<1>2. ServerStep => WorkersStep
  BY DEF ServerStep, WorkersStep
<1> QED
  BY <1>1, <1>2 DEF Next, vars, WorkersStep

\* What a process leaves alone while it is on its way: the other processes, and
\* apart from joining and finishing, its number and its test.
LEMMA OneMoves ==
  ASSUME TypeOK, NEW p \in Proc, ProcessStep(p)
  PROVE  /\ \A q \in Proc : q # p =>
              /\ at'[q] = at[q] /\ id'[q] = id[q] /\ task'[q] = task[q]
              /\ step'[q] = step[q] /\ idx'[q] = idx[q] /\ listed'[q] = listed[q]
         /\ UNCHANGED <<tests, troubled>>
         /\ step' = [step EXCEPT ![p] = step'[p]] /\ idx' = [idx EXCEPT ![p] = idx'[p]]
         /\ DOMAIN listed' = Proc
         /\ ~Take(p) => UNCHANGED <<id, task>>
<1> USE Types
<1>1. CASE Take(p)
  BY <1>1 DEF Take, Join, Walk, store
<1>2. CASE Fill(p) \/ Put(p) \/ Stop(p) \/ Clean(p)
  BY <1>2 DEF Fill, Put, Stop, Clean, Loop, Walk, workers, process, store
<1>3. CASE Prepared(p) \/ Start(p) \/ Finish(p)
  BY <1>3 DEF Prepared, Start, Finish, PreparationsDone, Begin, WorkDone, Goto, Resume, store
<1>4. CASE Do(p) \/ Reprepare(p)
  BY <1>4 DEF Do, Reprepare, workers, process
<1>5. CASE List(p) \/ Empty(p) \/ Drop(p)
  BY <1>5 DEF List, Empty, Drop, NextBucket, Walk, workers, process
<1> QED
  BY <1>1, <1>2, <1>3, <1>4, <1>5 DEF ProcessStep

\* A loop that is inside its bounds stays inside.
LEMMA LoopStep ==
  ASSUME TypeOK, NEW p \in Proc, NEW last \in Nat, NEW place \in Places, NEW first, Loop(p, last, place, first)
  PROVE  \/ idx[p] < last /\ step'[p] = step[p] /\ idx'[p] = idx[p] + 1
         \/ idx[p] >= last /\ step'[p] = place /\ idx'[p] = first
  BY Types DEF Loop, Walk

LEMMA NextBucketStep ==
  ASSUME TypeOK, NEW p \in Proc, NextBucket(p)
  PROVE  \/ idx[p] < MaxBucket /\ step'[p] = "list" /\ idx'[p] = idx[p] + 1
         \/ idx[p] >= MaxBucket /\ step'[p] = "end" /\ idx'[p] = 1
  BY Types, Bounds DEF NextBucket, Walk, LastBucket

\* The process that moves stays in its place and its ranges.
LEMMA Moves ==
  ASSUME TypeOK, PlacesInv, NEW p \in Proc, ProcessStep(p)
  PROVE  /\ PlaceInv(p)'
         /\ step'[p] \in Places /\ idx'[p] \in 1..(Len(Queue) + MaxBucket)
         /\ listed'[p] # {} => step'[p] = "empty"
<1> USE DEF Places
<1>0. /\ PlaceInv(p) /\ step[p] \in Places /\ idx[p] \in 1..(Len(Queue) + MaxBucket)
      /\ at[p] \in {"idle", "prepare", "wait", "told", "load"}
      /\ step \in [Proc -> Places] /\ idx \in [Proc -> 1..(Len(Queue) + MaxBucket)]
      /\ DOMAIN listed = Proc /\ (listed[p] # {} => step[p] = "empty")
      /\ at \in [Proc -> {"idle", "prepare", "wait", "told", "load"}]
  BY Types DEF PlacesInv, TypeOK
<1>1. CASE Take(p)
  <2>1. /\ at[p] = "idle" /\ at'[p] = "prepare" /\ step'[p] = "fill" /\ idx'[p] = 1 /\ listed' = listed
    BY <1>0, <1>1 DEF Take, Join, Walk, store
  <2> QED
    BY <1>0, <2>1, Bounds DEF PlaceInv, Cleaning
<1>2. CASE Fill(p)
  <2>1. step[p] = "fill" /\ at' = at /\ listed' = listed /\ at[p] = "prepare" /\ idx[p] \in 1..Turns
    BY <1>0, <1>2 DEF Fill, workers, process, PlaceInv, Cleaning
  <2>2. \/ idx[p] < Turns /\ step'[p] = "fill" /\ idx'[p] = idx[p] + 1
        \/ step'[p] \in {"ready", "put"} /\ idx'[p] = 1
    BY <1>2, <2>1, LoopStep, Bounds DEF Fill
  <2> QED
    BY <1>0, <2>1, <2>2, Bounds DEF PlaceInv, Cleaning
<1>3. CASE Put(p)
  <2>1. step[p] = "put" /\ at' = at /\ listed' = listed /\ at[p] = "prepare"
    BY <1>0, <1>3 DEF Put, workers, process, PlaceInv, Cleaning
  <2>2. \/ idx[p] < Len(Queue) /\ step'[p] = "put" /\ idx'[p] = idx[p] + 1
        \/ step'[p] = "ready" /\ idx'[p] = 1
    BY <1>3, <2>1, LoopStep, Bounds DEF Put
  <2> QED
    BY <1>0, <2>1, <2>2, Bounds DEF PlaceInv, Cleaning
<1>4. CASE Prepared(p)
  <2>1. /\ step[p] = "ready" /\ UNCHANGED <<listed, idx>> /\ at'[p] \in {"idle", "wait"}
        /\ step'[p] = IF at'[p] = "idle" THEN "end" ELSE "load"
    BY <1>0, <1>4 DEF Prepared, PreparationsDone, Goto, Resume, store
  <2> QED
    BY <1>0, <2>1 DEF PlaceInv, Cleaning
<1>5. CASE Start(p)
  <2>1. /\ at[p] \in {"wait", "told"} /\ UNCHANGED <<listed, idx>> /\ at'[p] \in {"idle", "load"}
        /\ step'[p] = IF at'[p] = "idle" THEN "end" ELSE "load"
    BY <1>0, <1>5 DEF Start, Begin, Goto, Resume, store
  <2> QED
    BY <1>0, <2>1 DEF PlaceInv, Cleaning
<1>6. CASE Do(p) \/ Reprepare(p)
  BY <1>0, <1>6 DEF Do, Reprepare, workers, process, PlaceInv, Cleaning, Test
<1>7. CASE Stop(p)
  <2>1. /\ at[p] = "load" /\ step[p] = "load" /\ UNCHANGED <<at, task, tests, listed>> /\ idx'[p] = 1
        /\ step'[p] = IF Test(p).clean THEN "clean" ELSE "end"
    BY <1>0, <1>7 DEF Stop, Walk, workers, process, store
  <2> QED
    BY <1>0, <2>1, Bounds DEF PlaceInv, Cleaning, Test
<1>8. CASE Clean(p)
  <2>1. /\ step[p] = "clean" /\ UNCHANGED <<at, task, tests, listed>> /\ at[p] = "load" /\ Test(p).clean
    BY <1>0, <1>8 DEF Clean, workers, process, PlaceInv, Cleaning
  <2>2. \/ idx[p] < Len(Queue) /\ step'[p] = "clean" /\ idx'[p] = idx[p] + 1
        \/ step'[p] = "list" /\ idx'[p] = MinBucket
    BY <1>8, <2>1, LoopStep, Bounds DEF Clean
  <2> QED
    BY <1>0, <2>1, <2>2, Bounds DEF PlaceInv, Cleaning, Test
<1>9. ASSUME step[p] \in {"list", "empty", "drop"}, UNCHANGED <<at, task, tests>>,
             listed'[p] # {} => step'[p] = "empty",
             \/ step'[p] \in {"drop", "empty"} /\ idx'[p] = idx[p]
             \/ NextBucket(p)
      PROVE  /\ PlaceInv(p)' /\ step'[p] \in Places /\ idx'[p] \in 1..(Len(Queue) + MaxBucket)
  <2>1. at[p] = "load" /\ Test(p).clean /\ idx[p] \in MinBucket..MaxBucket
    BY <1>0, <1>9 DEF PlaceInv, Cleaning
  <2>2. \/ idx'[p] \in MinBucket..MaxBucket /\ step'[p] \in {"list", "empty", "drop"}
        \/ step'[p] = "end" /\ idx'[p] = 1
    BY <1>9, <2>1, NextBucketStep, Bounds
  <2>3. Test(p)'.clean
    BY <1>9, <2>1 DEF Test
  <2>4. CASE idx'[p] \in MinBucket..MaxBucket /\ step'[p] \in {"list", "empty", "drop"}
    BY <1>9, <2>1, <2>3, <2>4, Bounds DEF PlaceInv, Cleaning
  <2>5. CASE step'[p] = "end" /\ idx'[p] = 1
    BY <1>9, <2>1, <2>5, Bounds DEF PlaceInv, Cleaning
  <2> QED
    BY <2>2, <2>4, <2>5
<1>10. CASE List(p)
  <2>1. step[p] = "list" /\ UNCHANGED <<at, task, tests>> /\ listed[p] = {}
    BY <1>0, <1>10 DEF List, workers, process
  <2>2. /\ listed'[p] # {} => step'[p] = "empty"
        /\ \/ step'[p] \in {"drop", "empty"} /\ idx'[p] = idx[p]
           \/ NextBucket(p)
    BY <1>0, <1>10, <2>1 DEF List, Walk
  <2> QED
    BY <1>9, <2>1, <2>2
<1>11. CASE Empty(p)
  <2>1. step[p] = "empty" /\ UNCHANGED <<at, task, tests>> /\ listed'[p] = {}
    BY <1>0, <1>11 DEF Empty, workers, process
  <2>2. \/ step'[p] \in {"drop", "empty"} /\ idx'[p] = idx[p]
        \/ NextBucket(p)
    BY <1>0, <1>11, <2>1 DEF Empty, Walk
  <2> QED
    BY <1>9, <2>1, <2>2
<1>12. CASE Drop(p)
  BY <1>0, <1>9, <1>12 DEF Drop, workers, process
<1>13. CASE Finish(p)
  BY <1>0, <1>13 DEF Finish, WorkDone, Goto, TestOver, PlaceInv, Cleaning, store
<1> QED
  BY <1>1, <1>2, <1>3, <1>4, <1>5, <1>6, <1>7, <1>8, <1>10, <1>11, <1>12, <1>13 DEF ProcessStep

\* What a process does to the buckets: one may be created or dropped, and what is
\* in others is put there or deleted by the call it makes.
LEMMA StoreSteps ==
  ASSUME TypeOK, PlacesInv, NEW p \in Proc, ProcessStep(p)
  PROVE  \/ buckets' = buckets
         \/ step[p] = "fill" /\ CreateBucket(Name(p, Test(p).drawn[idx[p]]))
         \/ step[p] \in {"put", "load"} /\ \E i \in Item : PutObject(Bucket(p, i), Key(p, i))
         \/ \E b, keys : DeleteObjects(b, keys)
         \/ step[p] = "drop" /\ DropBucket(Name(p, idx[p]))
<1>1. CASE Take(p) \/ Prepared(p) \/ Start(p) \/ Stop(p) \/ List(p) \/ Finish(p)
  BY <1>1 DEF Take, Prepared, Start, Stop, List, Finish, store
<1>2. CASE Fill(p)
  BY <1>2 DEF Fill
<1>3. CASE Put(p)
  BY <1>3 DEF Put, PlacesInv, PlaceInv
<1>4. CASE Do(p) \/ Reprepare(p)
  BY <1>4 DEF Do, Reprepare
<1>5. CASE Clean(p) \/ Empty(p)
  BY <1>5 DEF Clean, Empty
<1>6. CASE Drop(p)
  BY <1>6 DEF Drop
<1> QED
  BY <1>1, <1>2, <1>3, <1>4, <1>5, <1>6 DEF ProcessStep

LEMMA StepTypeOK == TypeOK /\ PlacesInv /\ TeamInv /\ [Next]_vars => TypeOK' /\ PlacesInv' /\ TeamInv'
<1> SUFFICES ASSUME TypeOK, PlacesInv, TeamInv, [Next]_vars PROVE TypeOK' /\ PlacesInv' /\ TeamInv'
  OBVIOUS
<1>1. WorkersOK' /\ TeamInv'
  BY NextWorkers, WorkersStepOK DEF TypeOK
<1>2. ASSUME NEW p \in Proc, ProcessStep(p) PROVE TypeOK' /\ PlacesInv'
  <2>1. /\ tests' \in Settings /\ DOMAIN listed' = Proc
        /\ step' \in [Proc -> Places] /\ idx' \in [Proc -> 1..(Len(Queue) + MaxBucket)]
        /\ \A q \in Proc : listed'[q] # {} => step'[q] = "empty"
    <3>1. \A q \in Proc : /\ step'[q] \in Places /\ idx'[q] \in 1..(Len(Queue) + MaxBucket)
                          /\ listed'[q] # {} => step'[q] = "empty"
      BY <1>2, Moves, OneMoves DEF TypeOK
    <3>2. /\ step' = [step EXCEPT ![p] = step'[p]] /\ idx' = [idx EXCEPT ![p] = idx'[p]]
          /\ DOMAIN listed' = Proc /\ tests' = tests
      BY <1>2, OneMoves
    <3>3. step' \in [Proc -> Places] /\ idx' \in [Proc -> 1..(Len(Queue) + MaxBucket)]
      BY <3>1, <3>2, Types
    <3> QED
      BY <3>1, <3>2, <3>3 DEF TypeOK
  <2>2. IsFiniteSet(DOMAIN buckets')
    <3>1. IsFiniteSet(DOMAIN buckets)
      BY DEF TypeOK
    <3>2. \/ DOMAIN buckets' \subseteq DOMAIN buckets
          \/ \E b : DOMAIN buckets' = DOMAIN buckets \cup {b}
      BY <1>2, StoreSteps, Created, Stored, Deleted, Dropped
    <3> QED
      BY <3>1, <3>2, FS_Subset, FS_AddElement
  <2>3. PlacesInv'
    <3>1. \A q \in Proc : q # p => PlaceInv(q)'
      BY <1>2, OneMoves DEF PlacesInv, PlaceInv, Cleaning, Test
    <3> QED
      BY <1>2, <3>1, Moves DEF PlacesInv
  <2> QED
    BY <1>1, <2>1, <2>2, <2>3 DEF TypeOK
<1>3. CASE ServerStep \/ UNCHANGED vars
  <2>1. UNCHANGED <<tests, buckets, listed, step, idx, task>>
    BY <1>3 DEF ServerStep, vars, store, workers, process, StartWork, Advance, Restart
  <2>2. \A p \in Proc : at'[p] = at[p] \/ (at[p] = "wait" /\ at'[p] = "told")
    <3>1. CASE Restart
      BY <3>1, RestartPlaces DEF TypeOK
    <3>2. CASE ~Restart
      BY <1>3, <3>2 DEF ServerStep, vars, workers, process, StartWork, Advance
    <3> QED
      BY <3>1, <3>2
  <2>3. TypeOK'
    BY <1>1, <2>1 DEF TypeOK
  <2>4. ASSUME NEW p \in Proc PROVE PlaceInv(p)'
    <3>1. PlaceInv(p) /\ UNCHANGED <<step, idx, tests, task>>
      BY <2>1 DEF PlacesInv
    <3>2. at'[p] = at[p] \/ (at[p] = "wait" /\ at'[p] = "told")
      BY <2>2
    <3> QED
      BY <3>1, <3>2 DEF PlaceInv, Cleaning, Test
  <2> QED
    BY <1>1, <2>3, <2>4 DEF PlacesInv
<1> QED
  BY <1>1, <1>2, <1>3 DEF Next

LEMMA InitTypeOK == Init => TypeOK /\ PlacesInv /\ TeamInv /\ Team = {}
<1> SUFFICES ASSUME Init PROVE TypeOK /\ PlacesInv /\ TeamInv /\ Team = {}
  OBVIOUS
<1>1. WorkersOK /\ TeamInv /\ Team = {} /\ at = [p \in Proc |-> "idle"]
  BY WorkersInitOK DEF Init, WorkersInit
<1>2. /\ tests \in Settings /\ IsFiniteSet(DOMAIN buckets)
      /\ step = [p \in Proc |-> "end"] /\ idx = [p \in Proc |-> 1] /\ listed = [p \in Proc |-> {}]
  BY HousekeepingAssumption DEF Init
<1>3. 1 \in 1..(Len(Queue) + MaxBucket)
  BY Bounds
<1>4. TypeOK
  BY <1>1, <1>2, <1>3 DEF TypeOK, Places
<1>5. PlacesInv
  BY <1>1, <1>2 DEF PlacesInv, PlaceInv, Cleaning
<1> QED
  BY <1>1, <1>4, <1>5

\* The processes keep their types and the numbers of a team are w0, w1, ...
\* without a gap or a repetition; every process is in the loop that its last
\* message allows, and inside that loop's bounds.
THEOREM Typed == Spec => [](TypeOK /\ PlacesInv /\ TeamInv)
<1>1. Init => TypeOK /\ PlacesInv /\ TeamInv
  BY InitTypeOK
<1> QED
  BY <1>1, StepTypeOK, PTL DEF Spec

(***************************************************************************)
(* Names: workers of a team have a bucket in common only if their test     *)
(* shares the buckets.                                                     *)
(***************************************************************************)

LEMMA SameName ==
  ASSUME TypeOK, TeamInv, NEW q \in Team, NEW r \in Team, NEW m, NEW n, Name(q, m) = Name(r, n)
  PROVE  /\ m = n /\ Test(q) = Test(r)
         /\ q = r \/ Test(q).share
         /\ \A k : Name(q, k) = Name(r, k)
<1>1. Test(q) = Test(r)
  BY DEF Test, TeamInv
<1>2. m = n /\ (Test(q).share \/ id[q] = id[r])
  BY <1>1 DEF Name
<1>3. id[q] = id[r] => q = r
  BY DEF TeamInv
<1> QED
  BY <1>1, <1>2, <1>3 DEF Name

\* Whoever moves without joining is in the team, and keeps its name.
LEMMA Member ==
  ASSUME TypeOK, PlacesInv, TeamInv, ~troubled, NEW p \in Proc, ProcessStep(p), ~Take(p)
  PROVE  /\ p \in Team /\ at[p] # "idle" /\ Current(p) /\ Team' = Team
         /\ \A q \in Proc : Test(q)' = Test(q) /\ \A n : Name(q, n)' = Name(q, n)
<1>1. at[p] # "idle"
  BY DEF ProcessStep, Fill, Put, Prepared, Start, Do, Reprepare, Stop, Clean, List, Empty, Drop, Finish,
         PreparationsDone, Begin, WorkDone, PlacesInv, PlaceInv
<1>2. p \in Team /\ Current(p)
  BY <1>1, NoStranger, BusyMember DEF TypeOK
<1>3. Team' = Team
  <2>1. CASE Prepared(p) \/ Start(p) \/ Finish(p)
    BY <2>1, PreparationsDoneOK, BeginOK, WorkDoneOK DEF Prepared, Start, Finish, TypeOK
  <2>2. CASE UNCHANGED workers
    BY <2>2 DEF workers, rounds, Team
  <2> QED
    BY <2>1, <2>2 DEF ProcessStep, Fill, Put, Do, Reprepare, Stop, Clean, List, Empty, Drop
<1>4. UNCHANGED <<id, task, tests>>
  BY OneMoves
<1> QED
  BY <1>1, <1>2, <1>3, <1>4 DEF Test, Name

LEMMA Newcomer ==
  ASSUME TypeOK, TeamInv, NEW p \in Proc, Take(p)
  PROVE  /\ p \notin Team /\ Team' = Team \cup {p} /\ UNCHANGED store
         /\ step'[p] = "fill" /\ idx'[p] = 1
         /\ \A q \in Proc : q # p => Test(q)' = Test(q) /\ \A n : Name(q, n)' = Name(q, n)
<1>1. p \notin Team /\ Team' = Team \cup {p} /\ UNCHANGED store
  BY JoinStep DEF Take, TypeOK
<1>2. step'[p] = "fill" /\ idx'[p] = 1
  BY Types DEF Take, Walk
<1>3. \A q \in Proc : q # p => id'[q] = id[q] /\ task'[q] = task[q]
  BY OneMoves DEF ProcessStep
<1> QED
  BY <1>1, <1>2, <1>3 DEF Take, Test, Name

\* A member does not go back before its load, and does not leave out the clean-up.
LEMMA Onward ==
  ASSUME TypeOK, PlacesInv, TeamInv, ~troubled, NEW p \in Proc, ProcessStep(p), ~Take(p)
  PROVE  /\ step'[p] \in Early => step[p] \in Early
         /\ step[p] \in Early /\ Test(p).clean => step'[p] \in Early \cup {"clean"}
         /\ step'[p] \in {"put", "ready", "load"} => step[p] \in {"fill", "put", "ready", "load"}
         /\ step'[p] = "fill" => step[p] = "fill"
         /\ step[p] = "fill" => Fill(p)
         /\ step[p] \in {"put", "load"} => step'[p] = step[p] \/ UNCHANGED buckets \/ step'[p] = "ready"
<1> USE DEF Early
<1>0. p \in Team /\ Current(p) /\ PlaceInv(p) /\ step \in [Proc -> Places]
      /\ at \in [Proc -> {"idle", "prepare", "wait", "told", "load"}] /\ at[p] # "told"
  BY Member, Types DEF PlacesInv, TeamInv
<1>1. CASE Fill(p)
  <2>1. step[p] = "fill" /\ step'[p] \in {"fill", "ready", "put"}
    <3>1. (IF Test(p).skip THEN "ready" ELSE "put") \in Places
      BY DEF Places
    <3> QED
      BY <1>1, <3>1, LoopStep, Bounds DEF Fill
  <2> QED
    BY <1>1, <2>1
<1>2. CASE Put(p)
  <2>1. step[p] = "put" /\ step'[p] \in {"put", "ready"}
    BY <1>2, LoopStep, Bounds DEF Put, Places
  <2> QED
    BY <2>1
<1>3. CASE Prepared(p)
  <2>1. step[p] = "ready" /\ step'[p] = "load"
    BY <1>0, <1>3 DEF Prepared, PreparationsDone, Goto, Resume
  <2> QED
    BY <2>1
<1>4. CASE Start(p)
  <2>1. step[p] = "load" /\ step'[p] = "load"
    BY <1>0, <1>4 DEF Start, Begin, Goto, Resume, PlaceInv
  <2> QED
    BY <2>1
<1>5. CASE Do(p) \/ Reprepare(p)
  BY <1>5 DEF Do, Reprepare
<1>6. CASE Stop(p)
  <2>1. /\ step[p] = "load" /\ step'[p] = (IF Test(p).clean THEN "clean" ELSE "end") /\ UNCHANGED buckets
    BY <1>0, <1>6 DEF Stop, Walk, store
  <2> QED
    BY <2>1
<1>7. CASE Clean(p)
  <2>1. step[p] = "clean" /\ step'[p] \in {"clean", "list"}
    BY <1>7, LoopStep, Bounds DEF Clean, Places
  <2> QED
    BY <2>1
<1>8. CASE List(p) \/ Empty(p) \/ Drop(p)
  <2>1. step[p] \in {"list", "empty", "drop"} /\ step'[p] \in {"list", "empty", "drop", "end"}
    BY <1>0, <1>8, NextBucketStep DEF List, Empty, Drop, Walk
  <2> QED
    BY <2>1
<1>9. CASE Finish(p)
  BY <1>9 DEF Finish, TestOver
<1> QED
  BY <1>1, <1>2, <1>3, <1>4, <1>5, <1>6, <1>7, <1>8, <1>9 DEF ProcessStep

(***************************************************************************)
(* Nobody misses a bucket it created.                                      *)
(***************************************************************************)

\* A bucket goes only in the step of a worker that drops it.
LEMMA StillThere ==
  ASSUME TypeOK, PlacesInv, NEW p \in Proc, ProcessStep(p), NEW b, Exists(b), ~Exists(b)'
  PROVE  step[p] = "drop" /\ b = Name(p, idx[p])
  BY StoreSteps, Created, Stored, Deleted, Dropped DEF Exists

\* A member of a team that no clean-up has disturbed has not been disturbed before.
LEMMA UndisturbedBefore ==
  ASSUME TypeOK, PlacesInv, TeamInv, ~troubled, NEW p \in Proc, ProcessStep(p), NEW r \in Team,
         Undisturbed(r)'
  PROVE  Undisturbed(r)
<1>1. Team \subseteq Team' /\ Team \subseteq Proc
  BY Member, Newcomer, TeamType DEF TypeOK
<1>2. Test(r)' = Test(r)
  BY <1>1, Member, Newcomer
<1>3. ASSUME NEW q \in Team, step'[q] \in Early PROVE step[q] \in Early
  BY <1>1, <1>3, Onward, Newcomer, OneMoves
<1> QED
  BY <1>1, <1>2, <1>3 DEF Undisturbed

\* A member that drops a bucket disturbs everyone who has it.
LEMMA DropDisturbs ==
  ASSUME TypeOK, PlacesInv, TeamInv, NEW p \in Team, step[p] = "drop", NEW r \in Team, NEW n,
         Name(r, n) = Name(p, idx[p]), step[r] \in Early
  PROVE  ~Undisturbed(r)
<1>1. p # r
  BY DEF Early
<1>2. Test(r).share /\ Test(r) = Test(p)
  BY <1>1, SameName
<1>3. Test(p).clean
  BY TeamType DEF PlacesInv, PlaceInv, Cleaning, TypeOK
<1> QED
  BY <1>2, <1>3 DEF Undisturbed, Early

LEMMA StepFilled ==
  TypeOK /\ PlacesInv /\ TeamInv /\ FilledInv /\ [Next]_vars => FilledInv'
<1> SUFFICES ASSUME TypeOK, PlacesInv, TeamInv, FilledInv, [Next]_vars PROVE FilledInv'
  OBVIOUS
<1>1. ASSUME NEW p \in Proc, ProcessStep(p) PROVE FilledInv'
  <2> SUFFICES ASSUME ~troubled', NEW r \in Team', Undisturbed(r)', NEW k \in 1..Turns,
                      step'[r] \in {"put", "ready", "load"} \/ (step'[r] = "fill" /\ k < idx'[r])
               PROVE  Exists(Name(r, Test(r).drawn[k]))'
    BY DEF FilledInv
  <2>1. ~troubled
    BY <1>1, OneMoves
  <2>2. r \in Team
    <3>1. CASE Take(p)
      <4>1. r # p
        BY <3>1, Newcomer, Bounds
      <4> QED
        BY <3>1, <4>1, Newcomer
    <3> QED
      BY <1>1, <2>1, <3>1, Member
  <2>3. r \in Proc /\ Team \subseteq Proc
    BY <2>2, TeamType DEF TypeOK
  <2>4. Undisturbed(r)
    BY <1>1, <2>1, <2>2, UndisturbedBefore
  <2>5. /\ Name(r, Test(r).drawn[k])' = Name(r, Test(r).drawn[k])
        /\ Test(r)' = Test(r)
    BY <1>1, <2>1, <2>2, <2>3, Member, Newcomer
  <2>6. \/ Exists(Name(r, Test(r).drawn[k])) /\ step[r] \in Early
        \/ r = p /\ Fill(p) /\ k = idx[p]
    <3>1. CASE r # p
      <4>1. step'[r] = step[r] /\ idx'[r] = idx[r]
        BY <1>1, <2>3, <3>1, OneMoves
      <4> QED
        BY <2>1, <2>2, <2>4, <4>1 DEF FilledInv, Early
    <3>2. CASE r = p /\ step[p] # "fill"
      <4>1. step[p] \in {"put", "ready", "load"}
        BY <1>1, <2>1, <2>2, <3>2, Onward, Newcomer
      <4> QED
        BY <2>1, <2>2, <2>4, <3>2, <4>1 DEF FilledInv, Early
    <3>3. CASE r = p /\ step[p] = "fill"
      <4>1. Fill(p)
        BY <1>1, <2>1, <2>2, <3>3, Onward, Newcomer
      <4>2. (IF Test(p).skip THEN "ready" ELSE "put") \in Places
        BY DEF Places
      <4>3. \/ idx[p] < Turns /\ step'[p] = step[p] /\ idx'[p] = idx[p] + 1
            \/ idx[p] >= Turns
        BY <4>1, <4>2, LoopStep, Bounds DEF Fill
      <4>4. k <= idx[p]
        BY <3>3, <4>3, Types, Bounds
      <4>5. k < idx[p] \/ k = idx[p]
        BY <4>4, Types
      <4> QED
        BY <2>1, <2>2, <2>4, <3>3, <4>1, <4>5 DEF FilledInv, Early
    <3> QED
      BY <3>1, <3>2, <3>3
  <2>7. CASE Exists(Name(r, Test(r).drawn[k])) /\ step[r] \in Early
    <3>1. SUFFICES ASSUME ~Exists(Name(r, Test(r).drawn[k]))' PROVE FALSE
      OBVIOUS
    <3>2. step[p] = "drop" /\ Name(r, Test(r).drawn[k]) = Name(p, idx[p])
      BY <1>1, <2>5, <2>7, <3>1, StillThere DEF Exists
    <3>3. p \in Team
      <4>1. at[p] # "idle"
        BY <3>2 DEF PlacesInv, PlaceInv
      <4> QED
        BY <2>1, <4>1, NoStranger DEF TypeOK
    <3> QED
      BY <2>2, <2>4, <2>7, <3>2, <3>3, DropDisturbs
  <2>8. CASE r = p /\ Fill(p) /\ k = idx[p]
    <3>1. CreateBucket(Name(r, Test(r).drawn[k]))
      BY <2>8 DEF Fill
    <3> QED
      BY <2>5, <3>1, Created, ZenonT(40) DEF Exists
  <2> QED
    BY <2>6, <2>7, <2>8
<1>2. CASE Advance \/ Restart
  BY <1>2, AdvanceOK, RestartOK DEF FilledInv, TypeOK
<1>3. CASE (StartWork /\ UNCHANGED <<tests, buckets, step, idx>>) \/ UNCHANGED vars
  <2>1. UNCHANGED <<tests, buckets, step, idx, id, task, troubled>> /\ Team' = Team
    BY <1>3, StartWorkOK DEF StartWork, vars, store, workers, rounds, process, Team, TypeOK
  <2> QED
    BY <2>1 DEF FilledInv, Undisturbed, Exists, Name, Test
<1> QED
  BY <1>1, <1>2, <1>3 DEF Next, ServerStep

\* In a round that did not begin beside busy workers of an earlier server no
\* preparation and no load misses a bucket its worker created, however the workers'
\* loops over the buckets and their clean-ups interleave; where the team shares its
\* buckets and cleans up, this ends when the first of them is through with its load.
THEOREM BucketsStay == Spec => []BucketsThere
<1>1. Init => TypeOK /\ PlacesInv /\ TeamInv /\ FilledInv
  BY InitTypeOK DEF FilledInv
<1>2. TypeOK /\ TeamInv /\ FilledInv => BucketsThere
  <2> SUFFICES ASSUME TypeOK, TeamInv, FilledInv, ~troubled, NEW p \in Team,
                      step[p] \in {"put", "ready", "load"}, Undisturbed(p), NEW n \in Range(Test(p).drawn)
               PROVE  Exists(Name(p, n))
    BY DEF BucketsThere, Undisturbed, Early
  <2>1. p \in Proc
    BY TeamType DEF TypeOK
  <2>2. DOMAIN Test(p).drawn = 1..Turns
    BY <2>1, TestType
  <2>3. PICK k \in 1..Turns : n = Test(p).drawn[k]
    BY <2>2 DEF Range
  <2> QED
    BY <2>3 DEF FilledInv
<1> QED
  BY <1>1, <1>2, StepTypeOK, StepFilled, PTL DEF Spec

(***************************************************************************)
(* No bucket outlives a test that cleans up.                               *)
(***************************************************************************)

\* What was found too full stays on record during the round.
LEMMA CrowdedGrows ==
  ASSUME NEW p \in Proc, ProcessStep(p)
  PROVE  crowded \subseteq crowded'
  BY DEF ProcessStep, Take, Fill, Put, Prepared, Start, Do, Reprepare, Stop, Clean, List, Empty, Drop, Finish, store

\* Only a step that creates the bucket or puts something there adds to it; and
\* whoever makes one has its clean-up before it.
LEMMA WriterCleans ==
  ASSUME TypeOK, PlacesInv, TeamInv, ~troubled, NEW p \in Proc, ProcessStep(p), NEW b, Exists(b)',
         ~(Exists(b) /\ buckets'[b] \subseteq buckets[b])
  PROVE  step'[p] \in Early /\ step[p] \in Early /\ ~Take(p) /\ \E n : b = Name(p, n)
<1>1. \/ step[p] = "fill" /\ CreateBucket(Name(p, Test(p).drawn[idx[p]]))
      \/ step[p] \in {"put", "load"} /\ \E i \in Item : PutObject(Bucket(p, i), Key(p, i))
  BY StoreSteps, Deleted, Dropped DEF Exists
<1>2. b \in DOMAIN buckets'
  BY DEF Exists
<1>3. ~(b \in DOMAIN buckets /\ buckets'[b] = buckets[b])
  BY DEF Exists
<1>4. \E n : b = Name(p, n)
  <2>1. ASSUME CreateBucket(Name(p, Test(p).drawn[idx[p]])) PROVE b = Name(p, Test(p).drawn[idx[p]])
    BY <1>2, <1>3, <2>1, Created
  <2>2. ASSUME NEW i \in Item, PutObject(Bucket(p, i), Key(p, i)) PROVE b = Bucket(p, i)
    BY <1>2, <1>3, <2>2, Stored
  <2> QED
    BY <1>1, <2>1, <2>2 DEF Bucket
<1>5. ~Take(p)
  <2>1. CASE Take(p)
    <3>1. buckets' = buckets
      BY <2>1, Newcomer DEF store
    <3> QED
      BY <1>2, <1>3, <3>1
  <2> QED
    BY <2>1
<1>6. step'[p] \in Early
  <2>1. CASE step[p] = "fill"
    <3>1. Fill(p)
      BY <1>5, <2>1, Onward
    <3>2. (IF Test(p).skip THEN "ready" ELSE "put") \in Places
      BY DEF Places
    <3> QED
      BY <2>1, <3>1, <3>2, LoopStep, Bounds DEF Fill, Early
  <2>2. CASE step[p] \in {"put", "load"}
    <3>1. buckets' # buckets
      BY <1>2, <1>3
    <3> QED
      BY <1>5, <2>2, <3>1, Onward DEF Early
  <2> QED
    BY <1>1, <2>1, <2>2
<1> QED
  BY <1>1, <1>4, <1>5, <1>6 DEF Early

\* One who has bucket n left to delete still has after a step of its own, unless
\* the bucket is gone then or was found too full.
LEMMA PendingMoves ==
  ASSUME TypeOK, PlacesInv, TeamInv, CleanInv, ~troubled, NEW p \in Proc, ProcessStep(p), ~Take(p),
         NEW n \in MinBucket..MaxBucket, Pending(p, n), Test(p).clean,
         Exists(Name(p, n)), Exists(Name(p, n))', Name(p, n) \notin crowded
  PROVE  Pending(p, n)'
<1>0. /\ Name(p, n)' = Name(p, n) /\ p \in Team
      /\ idx[p] \in Nat /\ n \in Nat /\ n <= MaxBucket /\ MinBucket <= n /\ MaxBucket \in Nat
  BY Member, Types, Bounds
<1>1. CASE step[p] \in Early
  BY <1>1, Onward DEF Pending
<1>2. CASE Clean(p)
  <2>1. step[p] = "clean"
    BY <1>2 DEF Clean
  <2>2. \/ step'[p] = "clean"
        \/ step'[p] = "list" /\ idx'[p] = MinBucket
    BY <1>2, <2>1, LoopStep, Bounds DEF Clean, Places
  <2> QED
    BY <1>0, <2>2 DEF Pending
<1>3. ASSUME NextBucket(p), idx[p] < n PROVE Pending(p, n)'
  <2>1. step'[p] = "list" /\ idx'[p] = idx[p] + 1
    BY <1>0, <1>3, NextBucketStep
  <2> QED
    BY <1>0, <1>3, <2>1 DEF Pending
<1>4. CASE List(p)
  <2>1. step[p] = "list" /\ idx[p] <= n /\ buckets' = buckets
    BY <1>4 DEF List, Pending, Early
  <2>2. CASE ~Exists(Name(p, idx[p]))
    <3>1. NextBucket(p) /\ idx[p] # n
      BY <1>4, <2>2 DEF List
    <3> QED
      BY <1>0, <1>3, <2>1, <3>1
  <2>3. CASE Exists(Name(p, idx[p]))
    <3>1. /\ listed'[p] = buckets[Name(p, idx[p])] /\ idx'[p] = idx[p]
          /\ step'[p] = IF buckets[Name(p, idx[p])] = {} THEN "drop" ELSE "empty"
      BY <1>4, <2>3, Types DEF List, Walk
    <3> QED
      BY <1>0, <2>1, <3>1 DEF Pending
  <2> QED
    BY <2>2, <2>3
<1>5. CASE Empty(p)
  <2>1. /\ step[p] = "empty"
        /\ idx[p] < n \/ (idx[p] = n /\ buckets[Name(p, n)] \subseteq listed[p])
    BY <1>5 DEF Empty, Pending, Early
  <2>2. CASE NextBucket(p)
    <3>1. CASE idx[p] = n
      <4>1. ~(Cardinality(listed[p]) > DeleteLimit)
        BY <1>0, <2>1, <3>1 DEF CleanInv
      <4>2. Walk(p, "drop", idx[p])
        BY <1>5, <3>1, <4>1 DEF Empty
      <4>3. step'[p] = "drop"
        BY <4>2, Types DEF Walk
      <4> QED
        BY <2>2, <4>3, NextBucketStep
    <3> QED
      BY <1>3, <2>1, <2>2, <3>1
  <2>3. CASE ~NextBucket(p)
    <3>1. step'[p] = "drop" /\ idx'[p] = idx[p] /\ DeleteObjects(Name(p, idx[p]), listed[p])
      BY <1>5, <2>3, Types DEF Empty, Walk
    <3>2. CASE idx[p] < n
      BY <3>1, <3>2 DEF Pending
    <3>3. CASE idx[p] = n /\ buckets[Name(p, n)] \subseteq listed[p]
      <4>1. buckets'[Name(p, n)] = {}
        BY <3>1, <3>3, Deleted
      <4> QED
        BY <1>0, <3>1, <3>3, <4>1 DEF Pending
    <3> QED
      BY <2>1, <3>2, <3>3
  <2> QED
    BY <2>2, <2>3
<1>6. CASE Drop(p)
  <2>1. step[p] = "drop" /\ NextBucket(p) /\ DropBucket(Name(p, idx[p]))
    BY <1>6 DEF Drop
  <2>2. idx[p] < n \/ (idx[p] = n /\ buckets[Name(p, n)] = {})
    BY <2>1 DEF Pending, Early
  <2>3. CASE idx[p] = n /\ buckets[Name(p, n)] = {}
    BY <1>0, <2>1, <2>3, Dropped DEF Exists
  <2> QED
    BY <1>3, <2>1, <2>2, <2>3
<1>7. CASE Finish(p)
  BY <1>7 DEF Finish, TestOver, Pending, Early
<1>8. step[p] \in Early \/ Clean(p) \/ List(p) \/ Empty(p) \/ Drop(p) \/ Finish(p)
  <2>1. Start(p) => step[p] = "load"
    BY DEF Start, Begin, PlacesInv, PlaceInv
  <2> QED
    BY <2>1 DEF ProcessStep, Fill, Put, Prepared, Do, Reprepare, Stop, Early
<1> QED
  BY <1>1, <1>2, <1>4, <1>5, <1>6, <1>7, <1>8

\* And after a step of another one, unless that one puts something there.
LEMMA PendingStays ==
  ASSUME TypeOK, NEW p \in Proc, ProcessStep(p), NEW q \in Proc, q # p, NEW n, Pending(q, n),
         Name(q, n)' = Name(q, n), buckets'[Name(q, n)] \subseteq buckets[Name(q, n)]
  PROVE  Pending(q, n)'
<1>1. step'[q] = step[q] /\ idx'[q] = idx[q] /\ listed'[q] = listed[q]
  BY OneMoves
<1> QED
  BY <1>1 DEF Pending

LEMMA StepClean ==
  TypeOK /\ PlacesInv /\ TeamInv /\ CleanInv /\ [Next]_vars => CleanInv'
<1> SUFFICES ASSUME TypeOK, PlacesInv, TeamInv, CleanInv, [Next]_vars PROVE CleanInv'
  OBVIOUS
<1>1. ASSUME NEW p \in Proc, ProcessStep(p), ~troubled,
             NEW r \in Team', Test(r)'.clean, NEW n \in MinBucket..MaxBucket,
             Exists(Name(r, n))', Name(r, n)' \notin crowded'
      PROVE  \E q \in Team' : Name(q, n)' = Name(r, n)' /\ Pending(q, n)'
  <2>1. CASE r \notin Team
    <3>1. Take(p) /\ r = p
      BY <1>1, <2>1, Member, Newcomer
    <3>2. step'[r] = "fill"
      BY <3>1, Newcomer
    <3> QED
      BY <3>2 DEF Pending, Early
  <2>2. CASE r \in Team
    <3>0. Team \subseteq Team' /\ Team \subseteq Proc
      BY <1>1, Member, Newcomer, TeamType DEF TypeOK
    <3>1. \A q \in Team : Name(q, n)' = Name(q, n) /\ Test(q)' = Test(q)
      BY <1>1, <3>0, Member, Newcomer
    <3>2. CASE ~(Exists(Name(r, n)) /\ buckets'[Name(r, n)] \subseteq buckets[Name(r, n)])
      <4>1. Exists(Name(r, n))'
        BY <1>1
      <4>2. Name(r, n) \in DOMAIN buckets'
        BY <1>1, <2>2, <3>1 DEF Exists
      <4>3. /\ step'[p] \in Early /\ ~Take(p) /\ \E m : Name(r, n) = Name(p, m)
        <5> DEFINE b == Name(r, n)
        <5>1. \A c : c \in DOMAIN buckets' /\ ~(Exists(c) /\ buckets'[c] \subseteq buckets[c])
                => step'[p] \in Early /\ ~Take(p) /\ \E m : c = Name(p, m)
          BY <1>1, WriterCleans DEF Exists
        <5> QED
          BY <3>2, <4>2, <5>1
      <4>4. p \in Team
        BY <1>1, <4>3, Member
      <4>5. Name(p, n) = Name(r, n)
        BY <2>2, <4>3, <4>4, SameName
      <4> QED
        BY <2>2, <3>0, <3>1, <4>3, <4>4, <4>5 DEF Pending
    <3>3. CASE Exists(Name(r, n)) /\ buckets'[Name(r, n)] \subseteq buckets[Name(r, n)]
      <4>1. Test(r).clean /\ Name(r, n) \notin crowded
        BY <1>1, <2>2, <3>1, CrowdedGrows
      <4>2. PICK q \in Team : Name(q, n) = Name(r, n) /\ Pending(q, n)
        BY <1>1, <2>2, <3>3, <4>1 DEF CleanInv
      <4>3. CASE q # p
        BY <1>1, <2>2, <3>0, <3>1, <3>3, <4>2, <4>3, PendingStays
      <4>4. CASE q = p
        <5>1. ~Take(p)
          BY <4>2, <4>4, Newcomer
        <5>2. Test(p).clean
          BY <2>2, <4>1, <4>2, <4>4, SameName
        <5>3. Name(p, n)' = Name(r, n)' /\ Exists(Name(p, n))'
          BY <1>1, <2>2, <3>1, <4>2, <4>4 DEF Exists
        <5>4. Pending(p, n)'
          BY <1>1, <3>3, <4>1, <4>2, <4>4, <5>1, <5>2, <5>3, PendingMoves DEF Exists
        <5> QED
          BY <3>0, <4>2, <4>4, <5>3, <5>4
      <4> QED
        BY <4>3, <4>4
    <3> QED
      BY <3>2, <3>3
  <2> QED
    BY <2>1, <2>2
<1>2. ASSUME NEW p \in Proc, ProcessStep(p), ~troubled,
             NEW q \in Team', step'[q] = "empty", Cardinality(listed'[q]) > DeleteLimit
      PROVE  Name(q, idx[q])' \in crowded'
  <2>1. CASE q # p
    <3>1. q \in Team /\ q \in Proc
      BY <1>2, <2>1, Member, Newcomer, TeamType DEF TypeOK
    <3>2. step[q] = "empty" /\ listed'[q] = listed[q] /\ idx'[q] = idx[q] /\ UNCHANGED tests
          /\ id'[q] = id[q] /\ task'[q] = task[q]
      BY <1>2, <2>1, <3>1, OneMoves
    <3>3. Name(q, idx[q]) \in crowded
      BY <1>2, <3>1, <3>2 DEF CleanInv
    <3> QED
      BY <1>2, <3>2, <3>3, CrowdedGrows DEF Name, Test
  <2>2. CASE q = p
    <3>0. /\ step \in [Proc -> Places] /\ PlaceInv(p) /\ step'[p] = "empty" /\ ~Take(p)
      BY <1>2, <2>2, Types, Newcomer DEF PlacesInv
    <3>1. List(p)
      <4>1. ~Fill(p) /\ ~Put(p) /\ ~Clean(p)
        BY <3>0, LoopStep, Bounds DEF Fill, Put, Clean, Places
      <4>2. ~Prepared(p) /\ ~Start(p) /\ ~Stop(p)
        BY <3>0 DEF Prepared, Start, Resume, Stop, Walk
      <4>3. ~Do(p) /\ ~Reprepare(p) /\ ~Finish(p)
        BY <3>0 DEF Do, Reprepare, Finish, TestOver
      <4>4. ~Empty(p) /\ ~Drop(p)
        BY <3>0, NextBucketStep DEF Empty, Drop, Walk
      <4> QED
        BY <1>2, <3>0, <4>1, <4>2, <4>3, <4>4 DEF ProcessStep
    <3>2. /\ idx'[p] = idx[p] /\ listed'[p] = buckets[Name(p, idx[p])]
          /\ Cardinality(buckets[Name(p, idx[p])]) > DeleteLimit => Name(p, idx[p]) \in crowded'
      BY <1>2, <2>2, <3>1, NextBucketStep, Types DEF List, Walk
    <3>3. UNCHANGED <<id, task, tests>>
      BY <1>2, <3>1 DEF List, workers, process
    <3> QED
      BY <1>2, <2>2, <3>2, <3>3 DEF Name, Test
  <2> QED
    BY <2>1, <2>2
<1>3. ASSUME NEW p \in Proc, ProcessStep(p) PROVE CleanInv'
  <2>1. troubled' = troubled
    BY <1>3, OneMoves
  <2> QED
    BY <1>1, <1>2, <1>3, <2>1 DEF CleanInv
<1>4. CASE Advance \/ Restart
  BY <1>4, AdvanceOK, RestartOK DEF CleanInv, TypeOK
<1>5. CASE (StartWork /\ UNCHANGED <<tests, buckets, listed, crowded, step, idx>>) \/ UNCHANGED vars
  <2>1. UNCHANGED <<tests, buckets, listed, crowded, step, idx, id, task, troubled>> /\ Team' = Team
    BY <1>5, StartWorkOK DEF StartWork, vars, store, workers, rounds, process, Team, TypeOK
  <2> QED
    BY <2>1 DEF CleanInv, Pending, Exists, Name, Test
<1> QED
  BY <1>3, <1>4, <1>5 DEF Next, ServerStep

\* When a team has finished a test with clean_after, in a round that did not begin
\* beside busy workers of an earlier server, every bucket in the range of numbers is
\* gone, unless it held more than one call deletes, however the workers' loads,
\* listings and deletions interleave on shared buckets.
THEOREM NothingIsLeft == Spec => []CleanedUp
<1>1. Init => TypeOK /\ PlacesInv /\ TeamInv /\ CleanInv
  BY InitTypeOK DEF CleanInv
<1>2. TypeOK /\ PlacesInv /\ TeamInv /\ CleanInv => CleanedUp
  <2> SUFFICES ASSUME TypeOK, PlacesInv, TeamInv, CleanInv, RoundOver, ~troubled, NEW p \in Team, Test(p).clean,
                      NEW n \in MinBucket..MaxBucket, Exists(Name(p, n)), Name(p, n) \notin crowded
               PROVE  FALSE
    BY DEF CleanedUp
  <2>1. PICK q \in Team : Pending(q, n)
    BY DEF CleanInv
  <2>2. q \in Proc /\ <<round, q>> \in done
    BY TeamType DEF RoundOver, TypeOK
  <2>3. step[q] = "end"
    BY <2>2 DEF TeamInv, PlacesInv, PlaceInv
  <2> QED
    BY <2>1, <2>3 DEF Pending, Early
<1> QED
  BY <1>1, <1>2, StepTypeOK, StepClean, PTL DEF Spec

(***************************************************************************)
(* The gateways of a team.                                                 *)
(***************************************************************************)

LEMMA NoMore ==
  ASSUME NEW S, NEW T, IsFiniteSet(T), NEW f \in [S -> T], \A x, y \in S : f[x] = f[y] => x = y
  PROVE  IsFiniteSet(S) /\ Cardinality(S) <= Cardinality(T)
<1>1. f \in Injection(S, T)
  BY DEF Injection, IsInjective
<1> QED
  BY <1>1, FS_Injection

\* Next to a number that leaves the remainder i there is one that leaves j.
LEMMA Remainder ==
  ASSUME NEW n \in Nat \ {0}, NEW a \in Nat, NEW i \in 0..(n - 1), NEW j \in 0..(n - 1), a % n = i
  PROVE  /\ j <= i => (a - i + j) \in Nat /\ (a - i + j) % n = j
         /\ a # i => (a - i + j - n) \in Nat /\ (a - i + j - n) % n = j
<1>1. PICK q \in Nat : a = n * q + i
  <2>1. a = n * (a \div n) + (a % n) /\ (a \div n) \in Nat
    OBVIOUS
  <2> QED
    BY <2>1
<1>2. n * q \in Nat /\ (n * q + j) % n = j
  OBVIOUS
<1>3. a - i + j = n * q + j
  BY <1>1, <1>2
<1>4. ASSUME a # i PROVE (a - i + j - n) \in Nat /\ (a - i + j - n) % n = j
  <2>1. q # 0
    BY <1>1, <1>4
  <2>2. q - 1 \in Nat /\ n * q = n * (q - 1) + n
    BY <2>1
  <2>3. n * (q - 1) \in Nat /\ (n * (q - 1) + j) % n = j
    BY <2>2
  <2>4. a - i + j - n = n * (q - 1) + j
    BY <1>2, <1>3, <2>2, <2>3
  <2> QED
    BY <2>3, <2>4
<1> QED
  BY <1>2, <1>3, <1>4

\* Numbers from 0 on without a gap leave every remainder as often as they can.
LEMMA NumbersEven ==
  ASSUME WorkersOK, TeamInv, NEW n \in Nat \ {0}, NEW i \in 0..(n - 1), NEW j \in 0..(n - 1)
  PROVE  Cardinality({p \in Team : id[p] % n = i}) <= Cardinality({p \in Team : id[p] % n = j}) + 1
<1> DEFINE S == {p \in Team : id[p] % n = i}
           T == {p \in Team : id[p] % n = j}
           Less(p) == IF j <= i THEN id[p] - i + j ELSE id[p] - i + j - n
           M == {p \in S : j <= i \/ id[p] # i}
<1>1. Team \subseteq Proc /\ IsFiniteSet(Team) /\ Cardinality(Team) \in Nat /\ id \in [Proc -> Nat]
  BY TeamType DEF WorkersOK
<1>2. IsFiniteSet(S) /\ IsFiniteSet(T) /\ Cardinality(S) \in Nat /\ Cardinality(T) \in Nat
  BY <1>1, FS_Subset, FS_CardinalityType
<1>3. ASSUME NEW p \in M PROVE Less(p) \in Nat /\ Less(p) % n = j /\ Less(p) <= id[p]
  <2>1. id[p] \in Nat /\ id[p] % n = i /\ (j <= i \/ id[p] # i)
    BY <1>1
  <2>2. /\ j <= i => (id[p] - i + j) \in Nat /\ (id[p] - i + j) % n = j
        /\ id[p] # i => (id[p] - i + j - n) \in Nat /\ (id[p] - i + j - n) % n = j
    BY <2>1, Remainder
  <2>3. id[p] - i + j <= id[p] \/ ~(j <= i)
    BY <2>1
  <2>4. id[p] - i + j - n <= id[p]
    BY <2>1
  <2>5. CASE j <= i
    BY <2>2, <2>3, <2>5
  <2>6. CASE ~(j <= i)
    BY <2>1, <2>2, <2>4, <2>6
  <2> QED
    BY <2>5, <2>6
<1>4. \A p \in M : \E q \in T : id[q] = Less(p)
  <2> SUFFICES ASSUME NEW p \in M PROVE \E q \in T : id[q] = Less(p)
    OBVIOUS
  <2>1. {id[q] : q \in Team} = 0..(Cardinality(Team) - 1)
    BY DEF WorkersOK
  <2>2. id[p] \in 0..(Cardinality(Team) - 1)
    BY <2>1
  <2>3. Less(p) \in 0..(Cardinality(Team) - 1)
    <3> HIDE DEF Less
    <3> QED
      BY <1>1, <1>3, <2>2
  <2>4. PICK q \in Team : id[q] = Less(p)
    <3> HIDE DEF Less
    <3> QED
      BY <2>1, <2>3
  <2> QED
    BY <1>3, <2>4
<1>5. Cardinality(M) <= Cardinality(T)
  <2> DEFINE f == [p \in M |-> CHOOSE q \in T : id[q] = Less(p)]
  <2>1. \A p \in M : f[p] \in T /\ id[f[p]] = Less(p)
    <3> HIDE DEF Less, T, M
    <3> QED
      BY <1>4
  <2>2. \A p, q \in M : Less(p) = Less(q) => p = q
    <3>1. \A p, q \in M : Less(p) = Less(q) => id[p] = id[q]
      <4>1. \A p \in M : id[p] \in Nat
        BY <1>1
      <4>2. \A a, b \in Nat : a - i + j = b - i + j => a = b
        OBVIOUS
      <4>3. \A a, b \in Nat : a - i + j - n = b - i + j - n => a = b
        OBVIOUS
      <4>4. CASE j <= i
        BY <4>1, <4>2, <4>4
      <4>5. CASE ~(j <= i)
        BY <4>1, <4>3, <4>5
      <4> QED
        BY <4>4, <4>5
    <3> QED
      BY <3>1 DEF TeamInv
  <2>3. f \in [M -> T] /\ \A p, q \in M : f[p] = f[q] => p = q
    <3> HIDE DEF Less, T, M
    <3> QED
      BY <2>1, <2>2
  <2> HIDE DEF f, M, T
  <2> QED
    BY <1>2, <2>3, NoMore
<1>6. Cardinality(S) <= Cardinality(M) + 1
  <2>1. CASE \E p \in S : p \notin M
    <3>1. PICK p \in S : p \notin M
      BY <2>1
    <3>2. id[p] = i /\ ~(j <= i)
      BY <3>1
    <3>3. \A q \in S : id[q] = i => q = p
      BY <3>2 DEF TeamInv
    <3>4. M = S \ {p}
      BY <3>2, <3>3
    <3>5. Cardinality(S \ {p}) = Cardinality(S) - 1
      BY <1>2, FS_RemoveElement
    <3> HIDE DEF S, M
    <3> QED
      BY <1>2, <3>4, <3>5
  <2>2. CASE ~\E p \in S : p \notin M
    <3>1. M = S
      BY <2>2
    <3> QED
      BY <1>2, <3>1
  <2> QED
    BY <2>1, <2>2
<1>7. Cardinality(M) \in Nat
  BY <1>2, FS_Subset, FS_CardinalityType
<1> HIDE DEF S, T, M
<1>8. Cardinality(S) <= Cardinality(T) + 1
  BY <1>2, <1>5, <1>6, <1>7
<1> QED
  BY <1>8 DEF S, T

\* Workers on hosts of their own that have the names of gateways get gateways of
\* their own.
LEMMA HostsApart ==
  ASSUME NEW host, NEW colocated \in BOOLEAN, DOMAIN host = Team, IsInjective(host),
         \A p \in Team : Matches(Gateways, host[p]) # {},
         NEW p \in Team, NEW q \in Team,
         Endpoint(Gateways, colocated, id[p], host[p]) = Endpoint(Gateways, colocated, id[q], host[q])
  PROVE  p = q
<1> DEFINE n == Len(Gateways)
           First(r) == CHOOSE i \in Matches(Gateways, host[r]) : \A j \in Matches(Gateways, host[r]) : i <= j
<1>0. n \in Nat /\ n >= 1
  BY HousekeepingAssumption
<1>1. ASSUME NEW r \in Team
      PROVE  /\ First(r) \in 0..(n - 1) /\ Gateways[First(r) + 1] = host[r]
             /\ Endpoint(Gateways, colocated, id[r], host[r]) = (IF colocated THEN First(r) ELSE First(r) + 1) % n
  <2>1. Matches(Gateways, host[r]) \subseteq Nat /\ Matches(Gateways, host[r]) # {}
    BY DEF Matches
  <2>2. \E i \in Matches(Gateways, host[r]) : \A j \in Matches(Gateways, host[r]) : i <= j
    BY <2>1, LeastOf
  <2>3. First(r) \in Matches(Gateways, host[r])
    BY <2>2
  <2>4. First(r) \in 0..(n - 1) /\ Gateways[First(r) + 1] = host[r]
    BY <2>3 DEF Matches
  <2> QED
    BY <2>1, <2>4 DEF Endpoint, Beside
<1> HIDE DEF First
<1>2. \A i \in 0..(n - 1) : i % n = i /\ (i + 1) % n = (IF i = n - 1 THEN 0 ELSE i + 1)
  <2> SUFFICES ASSUME NEW i \in 0..(n - 1) PROVE i % n = i /\ (i + 1) % n = (IF i = n - 1 THEN 0 ELSE i + 1)
    OBVIOUS
  <2> HIDE DEF n
  <2>1. i % n = i
    BY <1>0
  <2>2. (i + 1) % n = (IF i = n - 1 THEN 0 ELSE i + 1)
    <3>1. CASE i = n - 1
      <4>1. i + 1 = n /\ n % n = 0
        BY <1>0, <3>1
      <4> QED
        BY <3>1, <4>1
    <3>2. CASE i # n - 1
      BY <1>0, <3>2
    <3> QED
      BY <3>1, <3>2
  <2> QED
    BY <2>1, <2>2
<1>3. First(p) = First(q)
  <2>1. First(p) \in 0..(n - 1) /\ First(q) \in 0..(n - 1)
    BY <1>1
  <2>2. CASE colocated
    <3>1. First(p) % n = First(q) % n
      BY <1>1, <2>2
    <3>2. First(p) % n = First(p) /\ First(q) % n = First(q)
      BY <1>2, <2>1
    <3> QED
      BY <3>1, <3>2
  <2>3. CASE ~colocated
    <3>1. (First(p) + 1) % n = (First(q) + 1) % n
      BY <1>1, <2>3
    <3>2. (IF First(p) = n - 1 THEN 0 ELSE First(p) + 1) = (IF First(q) = n - 1 THEN 0 ELSE First(q) + 1)
      BY <1>2, <2>1, <3>1
    <3> HIDE DEF n
    <3> QED
      BY <1>0, <2>1, <3>2
  <2> QED
    BY <2>2, <2>3
<1>4. host[p] = host[q]
  BY <1>1, <1>3
<1> QED
  BY <1>4 DEF IsInjective

\* A team of which nobody runs on the host of a gateway, or each on that of another,
\* uses the gateways evenly, whatever its number and that of the gateways.
THEOREM GatewaysAreEven == Spec => []GatewaysEven
<1>1. WorkersOK /\ TeamInv => GatewaysEven
  <2> SUFFICES ASSUME WorkersOK, TeamInv, NEW host \in [Team -> Hosts], NEW colocated \in BOOLEAN,
                      \/ \A p \in Team : Matches(Gateways, host[p]) = {}
                      \/ IsInjective(host) /\ \A p \in Team : Matches(Gateways, host[p]) # {},
                      NEW i \in 0..(Len(Gateways) - 1), NEW j \in 0..(Len(Gateways) - 1)
               PROVE  Cardinality({p \in Team : Endpoint(Gateways, colocated, id[p], host[p]) = i})
                        <= Cardinality({p \in Team : Endpoint(Gateways, colocated, id[p], host[p]) = j}) + 1
    BY DEF GatewaysEven, Spread, LoadOf
  <2> DEFINE On(k) == {p \in Team : Endpoint(Gateways, colocated, id[p], host[p]) = k}
  <2>1. Len(Gateways) \in Nat \ {0}
    BY HousekeepingAssumption
  <2>2. CASE \A p \in Team : Matches(Gateways, host[p]) = {}
    <3>1. \A p \in Team : Endpoint(Gateways, colocated, id[p], host[p]) = id[p] % Len(Gateways)
      BY <2>2 DEF Endpoint
    <3>2. /\ {p \in Team : Endpoint(Gateways, colocated, id[p], host[p]) = i} = {p \in Team : id[p] % Len(Gateways) = i}
          /\ {p \in Team : Endpoint(Gateways, colocated, id[p], host[p]) = j} = {p \in Team : id[p] % Len(Gateways) = j}
      BY <3>1
    <3>3. Cardinality({p \in Team : id[p] % Len(Gateways) = i}) <= Cardinality({p \in Team : id[p] % Len(Gateways) = j}) + 1
      BY <2>1, NumbersEven
    <3> QED
      BY <3>2, <3>3
  <2>3. CASE IsInjective(host) /\ \A p \in Team : Matches(Gateways, host[p]) # {}
    <3>1. \A p, q \in On(i) : p = q
      BY <2>3, HostsApart
    <3>2. On(i) = {} \/ \E p : On(i) = {p}
      BY <3>1
    <3> HIDE DEF On
    <3>3. Cardinality(On(i)) <= 1
      <4>1. CASE On(i) = {}
        BY <4>1, FS_EmptySet
      <4>2. ASSUME NEW p, On(i) = {p} PROVE Cardinality(On(i)) <= 1
        <5>1. Cardinality({p}) = 1
          BY FS_Singleton
        <5> QED
          BY <4>2, <5>1
      <4> QED
        BY <3>2, <4>1, <4>2
    <3>4. Cardinality(On(i)) \in Nat /\ Cardinality(On(j)) \in Nat
      <4>1. On(i) \subseteq Team /\ On(j) \subseteq Team
        BY DEF On
      <4> QED
        BY <4>1, TeamType, FS_Subset, FS_CardinalityType
    <3>5. Cardinality(On(i)) <= Cardinality(On(j)) + 1
      BY <3>3, <3>4
    <3> QED
      BY <3>5 DEF On
  <2> QED
    BY <2>2, <2>3
<1>2. TypeOK => WorkersOK
  BY DEF TypeOK
<1>3. Init => TypeOK /\ PlacesInv /\ TeamInv
  BY InitTypeOK
<1> QED
  BY <1>1, <1>2, <1>3, StepTypeOK, PTL DEF Spec

(***************************************************************************)
(* Every worker has its objects to itself.                                 *)
(***************************************************************************)

Has(p, n, obj) == Exists(Name(p, n)) /\ <<id[p], obj>> \in buckets[Name(p, n)]

OwnOnes ==
  \A p \in Proc : \A o : o \in OwnPresent(p) <=>
    \E n \in MinBucket..MaxBucket, i \in Item : o = <<n, Queue[i].obj>> /\ Has(p, n, Queue[i].obj)

LEMMA OwnHas == OwnOnes
<1> SUFFICES ASSUME NEW p \in Proc, NEW o
             PROVE  o \in OwnPresent(p) <=>
                      \E n \in MinBucket..MaxBucket, i \in Item : o = <<n, Queue[i].obj>> /\ Has(p, n, Queue[i].obj)
  BY DEF OwnOnes
<1>1. o \in Own(p) <=> \E n \in MinBucket..MaxBucket, i \in Item : o = <<n, Queue[i].obj>> /\ Exists(Name(p, n))
  <2>1. o \in Own(p) <=> \E n \in {m \in MinBucket..MaxBucket : Exists(Name(p, m))} :
                          \E k \in {<<id[p], Queue[i].obj>> : i \in Item} : o = <<n, k[2]>>
    BY DEF Own
  <2>2. \A n : (\E k \in {<<id[p], Queue[i].obj>> : i \in Item} : o = <<n, k[2]>>)
                <=> \E i \in Item : o = <<n, Queue[i].obj>>
    <3>1. \A i \in Item : <<id[p], Queue[i].obj>>[2] = Queue[i].obj
      OBVIOUS
    <3> QED
      BY <3>1
  <2> QED
    BY <2>1, <2>2
<1>2. \A n, i : o = <<n, Queue[i].obj>> => o[1] = n /\ o[2] = Queue[i].obj
  OBVIOUS
<1> QED
  BY <1>1, <1>2 DEF OwnPresent, Has

LEMMA More ==
  ASSUME NEW p \in Proc, NEW Except,
         \A n \in MinBucket..MaxBucket, i \in Item :
           Has(p, n, Queue[i].obj) /\ <<n, Queue[i].obj>> \notin Except => Has(p, n, Queue[i].obj)'
  PROVE  OwnPresent(p) \ Except \subseteq OwnPresent(p)'
<1>1. OwnOnes'
  BY OwnHas, PTL
<1> QED
  BY <1>1, OwnHas DEF OwnOnes

LEMMA Less ==
  ASSUME NEW p \in Proc,
         \A n \in MinBucket..MaxBucket, i \in Item : Has(p, n, Queue[i].obj)' => Has(p, n, Queue[i].obj)
  PROVE  OwnPresent(p)' \subseteq OwnPresent(p)
<1>1. OwnOnes'
  BY OwnHas, PTL
<1> QED
  BY <1>1, OwnHas DEF OwnOnes

\* Processes with one bucket in common have them all.
LEMMA SameBuckets ==
  ASSUME NEW p, NEW r, NEW m, NEW n, Name(p, m) = Name(r, n)
  PROVE  Name(p, MinBucket) = Name(r, MinBucket)
  BY DEF Name

\* Whoever changes the store is busy, and is a rival of those whose objects it
\* changes: it has their names for objects, or is cleaning up their bucket.
LEMMA OthersUntouched ==
  ASSUME TypeOK, PlacesInv, NEW p \in Proc, ProcessStep(p), NEW r \in Proc, r # p, ~Rival(p, r)
  PROVE  OwnPresent(r)' = OwnPresent(r)
<1>2. id'[r] = id[r] /\ \A n : Name(r, n)' = Name(r, n)
  BY OneMoves DEF Name, Test
<1>3. CASE UNCHANGED buckets
  BY <1>2, <1>3 DEF OwnPresent, Own, Exists
<1>4. ASSUME buckets' # buckets
      PROVE  \/ Name(p, MinBucket) # Name(r, MinBucket)
             \/ id[p] # id[r] /\ ~Cleaning(p)
  <2>1. step[p] \in {"fill", "put", "load", "clean", "empty", "drop"}
    BY <1>4 DEF ProcessStep, Take, Fill, Put, Prepared, Start, Do, Reprepare, Stop, Clean, List, Empty, Drop,
                Finish, store
  <2>2. at[p] # "idle"
    BY <2>1 DEF PlacesInv, PlaceInv
  <2> QED
    BY <2>2 DEF Rival
<1>5. ASSUME buckets' # buckets, NEW n \in MinBucket..MaxBucket, NEW obj
      PROVE  Has(r, n, obj)' <=> Has(r, n, obj)
  <2> DEFINE b == Name(r, n)
             k == <<id[r], obj>>
  <2>0. /\ Has(r, n, obj) <=> b \in DOMAIN buckets /\ k \in buckets[b]
        /\ Has(r, n, obj)' <=> b \in DOMAIN buckets' /\ k \in buckets'[b]
    BY <1>2 DEF Has, Exists
  <2>1. CASE Fill(p)
    <3>1. PICK c : CreateBucket(c)
      BY <2>1 DEF Fill
    <3>2. buckets' = [d \in DOMAIN buckets \cup {c} |-> IF d \in DOMAIN buckets THEN buckets[d] ELSE {}]
      BY <3>1 DEF CreateBucket, Exists
    <3> HIDE DEF b, k
    <3> QED
      BY <2>0, <3>2
  <2>2. ASSUME NEW i \in Item, PutObject(Bucket(p, i), Key(p, i)) \/ DeleteObjects(Bucket(p, i), {Key(p, i)})
        PROVE  Has(r, n, obj)' <=> Has(r, n, obj)
    <3> DEFINE c == Bucket(p, i)
    <3>1. Key(p, i) # k \/ c # b
      <4>1. c = b => Name(p, MinBucket) = Name(r, MinBucket)
        BY SameBuckets DEF Bucket
      <4>2. Key(p, i) = k => id[p] = id[r]
        BY DEF Key
      <4> QED
        BY <1>4, <1>5, <4>1, <4>2
    <3>2. \/ buckets' = [buckets EXCEPT ![c] = @ \cup {Key(p, i)}]
          \/ buckets' = [buckets EXCEPT ![c] = @ \ {Key(p, i)}]
          \/ buckets' = buckets
      BY <2>2 DEF PutObject, DeleteObjects
    <3> HIDE DEF b, k, c
    <3> QED
      BY <2>0, <3>1, <3>2
  <2>3. CASE Put(p) \/ Do(p) \/ Reprepare(p) \/ Clean(p)
    <3>1. \E i \in Item : PutObject(Bucket(p, i), Key(p, i)) \/ DeleteObjects(Bucket(p, i), {Key(p, i)})
      <4>1. CASE Put(p)
        BY <1>5, <4>1 DEF Put, PlacesInv, PlaceInv
      <4>2. CASE Do(p)
        BY <1>5, <4>2 DEF Do
      <4>3. CASE Reprepare(p)
        BY <4>3 DEF Reprepare
      <4>4. CASE Clean(p)
        BY <1>5, <4>4 DEF Clean, PlacesInv, PlaceInv
      <4> QED
        BY <2>3, <4>1, <4>2, <4>3, <4>4
    <3> QED
      BY <2>2, <3>1
  <2>4. CASE Empty(p) \/ Drop(p)
    <3>1. Cleaning(p)
      BY <2>4 DEF Empty, Drop, Cleaning
    <3>2. Name(p, idx[p]) # b
      BY <1>4, <1>5, <3>1, SameBuckets
    <3>3. \/ buckets' = [buckets EXCEPT ![Name(p, idx[p])] = @ \ listed[p]]
          \/ buckets' = Restrict(buckets, DOMAIN buckets \ {Name(p, idx[p])})
      BY <1>5, <2>4 DEF Empty, Drop, DeleteObjects, DropBucket
    <3> HIDE DEF b, k
    <3> QED
      BY <2>0, <3>2, <3>3 DEF Restrict
  <2> QED
    BY <1>5, <2>1, <2>3, <2>4 DEF ProcessStep, Take, Prepared, Start, Stop, List, Finish, store
<1>6. CASE buckets' # buckets
  <2>1. OwnPresent(r)' \subseteq OwnPresent(r)
    BY <1>5, <1>6, Less
  <2>2. OwnPresent(r) \ {} \subseteq OwnPresent(r)'
    BY <1>5, <1>6, More
  <2> QED
    BY <2>1, <2>2
<1> QED
  BY <1>3, <1>6

Deletable == {<<n, Queue[i].obj>> : n \in MinBucket..MaxBucket, i \in {j \in Item : Queue[j].op = "delete"}}

\* What Load allows, of the state of one worker.
MayDo(p) ==
  \/ /\ PhaseOf(p) = "prepare" /\ PhaseOf(p)' \in {"prepare", "load", "idle"}
     /\ OwnPresent(p) \subseteq OwnPresent(p)'
  \/ /\ PhaseOf(p) = "load" /\ PhaseOf(p)' \in {"load", "clean", "idle"}
     /\ OwnPresent(p) \ Deletable \subseteq OwnPresent(p)'
  \/ /\ PhaseOf(p) = "clean" /\ PhaseOf(p)' \in {"clean", "idle"}
     /\ OwnPresent(p)' \subseteq OwnPresent(p)
  \/ PhaseOf(p) = "idle" /\ PhaseOf(p)' \in {"idle", "prepare"}
  \/ PhaseOf(p)' = PhaseOf(p) /\ OwnPresent(p)' = OwnPresent(p)

LEMMA MayDoLoad == ASSUME NEW p, MayDo(p) PROVE L(p)!Next \/ UNCHANGED L(p)!vars
  BY DEF MayDo, Deletable, L!Next, L!Prepare, L!Work, L!Clean, L!Rest, L!vars

\* What the calls do to the objects of their caller.
LEMMA CallsOwn ==
  ASSUME TypeOK, NEW p \in Proc, \A n : Name(p, n)' = Name(p, n), id'[p] = id[p]
  PROVE  /\ UNCHANGED buckets => OwnPresent(p)' = OwnPresent(p)
         /\ \A b : CreateBucket(b) => OwnPresent(p) \subseteq OwnPresent(p)'
         /\ \A b, k : PutObject(b, k) => OwnPresent(p) \subseteq OwnPresent(p)'
         /\ \A b, keys : DeleteObjects(b, keys) => OwnPresent(p)' \subseteq OwnPresent(p)
         /\ \A b : DropBucket(b) => OwnPresent(p)' \subseteq OwnPresent(p)
         /\ \A i \in Item : Queue[i].op = "delete" /\ DeleteObjects(Bucket(p, i), {Key(p, i)}) =>
              OwnPresent(p) \ Deletable \subseteq OwnPresent(p)'
<1>0. \A n, obj : /\ Has(p, n, obj) <=> Name(p, n) \in DOMAIN buckets /\ <<id[p], obj>> \in buckets[Name(p, n)]
                  /\ Has(p, n, obj)' <=> Name(p, n) \in DOMAIN buckets' /\ <<id[p], obj>> \in buckets'[Name(p, n)]
  BY DEF Has, Exists
<1>1. ASSUME UNCHANGED buckets PROVE OwnPresent(p)' = OwnPresent(p)
  BY <1>1 DEF OwnPresent, Own, Exists
<1>2. ASSUME NEW b, CreateBucket(b) PROVE OwnPresent(p) \subseteq OwnPresent(p)'
  <2>1. \A n \in MinBucket..MaxBucket, i \in Item : Has(p, n, Queue[i].obj) => Has(p, n, Queue[i].obj)'
    BY <1>0, <1>2, Created
  <2>2. OwnPresent(p) \ {} \subseteq OwnPresent(p)'
    BY <2>1, More
  <2> QED
    BY <2>2
<1>3. ASSUME NEW b, NEW k, PutObject(b, k) PROVE OwnPresent(p) \subseteq OwnPresent(p)'
  <2>1. \/ buckets' = [buckets EXCEPT ![b] = @ \cup {k}]
        \/ buckets' = buckets
    BY <1>3 DEF PutObject
  <2>2. \A n \in MinBucket..MaxBucket, i \in Item : Has(p, n, Queue[i].obj) => Has(p, n, Queue[i].obj)'
    BY <1>0, <2>1
  <2>3. OwnPresent(p) \ {} \subseteq OwnPresent(p)'
    BY <2>2, More
  <2> QED
    BY <2>3
<1>4. ASSUME NEW b, NEW keys, DeleteObjects(b, keys) PROVE OwnPresent(p)' \subseteq OwnPresent(p)
  BY <1>0, <1>4, Deleted, Less
<1>5. ASSUME NEW b, DropBucket(b) PROVE OwnPresent(p)' \subseteq OwnPresent(p)
  <2>1. \A n \in MinBucket..MaxBucket, i \in Item : Has(p, n, Queue[i].obj)' => Has(p, n, Queue[i].obj)
    BY <1>0, <1>5, Dropped
  <2> QED
    BY <2>1, Less
<1>6. ASSUME NEW i \in Item, Queue[i].op = "delete", DeleteObjects(Bucket(p, i), {Key(p, i)})
      PROVE  OwnPresent(p) \ Deletable \subseteq OwnPresent(p)'
  <2>1. \/ buckets' = [buckets EXCEPT ![Bucket(p, i)] = @ \ {Key(p, i)}]
        \/ buckets' = buckets
    BY <1>6 DEF DeleteObjects
  <2>2. ASSUME NEW n \in MinBucket..MaxBucket, NEW j \in Item, Has(p, n, Queue[j].obj),
               <<n, Queue[j].obj>> \notin Deletable
        PROVE  Has(p, n, Queue[j].obj)'
    <3>1. <<n, Queue[i].obj>> \in Deletable
      BY <1>6 DEF Deletable
    <3>2. Queue[j].obj # Queue[i].obj
      BY <2>2, <3>1
    <3>3. <<id[p], Queue[j].obj>> # Key(p, i)
      BY <3>2 DEF Key
    <3> QED
      BY <1>0, <2>1, <2>2, <3>3
  <2> QED
    BY <2>2, More
<1> QED
  BY <1>1, <1>2, <1>3, <1>4, <1>5, <1>6

LEMMA OwnStep ==
  ASSUME TypeOK, PlacesInv, TeamInv, NEW p \in Proc, ProcessStep(p), p \in Team
  PROVE  MayDo(p)
<1>0. /\ ~Take(p) /\ PlaceInv(p) /\ step \in [Proc -> Places] /\ id'[p] = id[p] /\ \A n : Name(p, n)' = Name(p, n)
      /\ at \in [Proc -> {"idle", "prepare", "wait", "told", "load"}]
  <2>1. ~Take(p)
    BY Newcomer
  <2> QED
    BY <2>1, OneMoves, Types DEF PlacesInv, Name, Test
<1>1. CASE Fill(p)
  <2>1. step[p] = "fill" /\ step'[p] \in {"fill", "ready", "put"}
    BY <1>1, LoopStep, Bounds DEF Fill, Places
  <2>2. OwnPresent(p) \subseteq OwnPresent(p)'
    BY <1>0, <1>1, CallsOwn DEF Fill
  <2> QED
    BY <2>1, <2>2 DEF MayDo, PhaseOf, Cleaning
<1>2. CASE Put(p)
  <2>1. step[p] = "put" /\ step'[p] \in {"put", "ready"}
    BY <1>2, LoopStep, Bounds DEF Put, Places
  <2>2. OwnPresent(p) \subseteq OwnPresent(p)'
    <3>1. UNCHANGED buckets \/ \E b, k : PutObject(b, k)
      BY <1>2 DEF Put
    <3> QED
      BY <1>0, <3>1, CallsOwn
  <2> QED
    BY <2>1, <2>2 DEF MayDo, PhaseOf, Cleaning
<1>3. CASE Prepared(p) \/ Start(p)
  <2>1. step[p] \in {"ready", "load"} /\ step'[p] \in {"load", "end"} /\ UNCHANGED buckets
    BY <1>0, <1>3 DEF Prepared, Start, Begin, Resume, PlaceInv, store
  <2>2. OwnPresent(p)' = OwnPresent(p)
    BY <1>0, <2>1, CallsOwn
  <2> QED
    BY <2>1, <2>2 DEF MayDo, PhaseOf, Cleaning
<1>4. CASE Do(p) \/ Reprepare(p)
  <2>1. step[p] = "load" /\ step' = step
    BY <1>4 DEF Do, Reprepare
  <2>2. \/ UNCHANGED buckets \/ \E b, k : PutObject(b, k)
        \/ \E i \in Item : Queue[i].op = "delete" /\ DeleteObjects(Bucket(p, i), {Key(p, i)})
    BY <1>4 DEF Do, Reprepare
  <2>3. OwnPresent(p) \ Deletable \subseteq OwnPresent(p)'
    BY <1>0, <2>2, CallsOwn
  <2> QED
    BY <2>1, <2>3 DEF MayDo, PhaseOf, Cleaning
<1>5. CASE Stop(p)
  <2>1. step[p] = "load" /\ step'[p] \in {"clean", "end"} /\ UNCHANGED buckets
    BY <1>0, <1>5 DEF Stop, Walk, store
  <2>2. OwnPresent(p)' = OwnPresent(p)
    BY <1>0, <2>1, CallsOwn
  <2> QED
    BY <2>1, <2>2 DEF MayDo, PhaseOf, Cleaning
<1>6. CASE Clean(p) \/ List(p) \/ Empty(p) \/ Drop(p)
  <2>1. Cleaning(p)
    BY <1>6 DEF Clean, List, Empty, Drop, Cleaning
  <2>2. step'[p] \in {"clean", "list", "empty", "drop", "end"}
    <3>1. CASE Clean(p)
      <4>1. step[p] = "clean"
        BY <3>1 DEF Clean
      <4> QED
        BY <3>1, <4>1, LoopStep, Bounds DEF Clean, Places
    <3>2. CASE List(p) \/ Empty(p) \/ Drop(p)
      BY <1>0, <3>2, NextBucketStep DEF List, Empty, Drop, Walk
    <3> QED
      BY <1>6, <3>1, <3>2
  <2>3. OwnPresent(p)' \subseteq OwnPresent(p)
    <3>1. \/ UNCHANGED buckets \/ \E b, keys : DeleteObjects(b, keys)
          \/ \E b : DropBucket(b)
      BY <1>6 DEF Clean, List, Empty, Drop
    <3> QED
      BY <1>0, <3>1, CallsOwn
  <2> QED
    BY <2>1, <2>2, <2>3 DEF MayDo, PhaseOf, Cleaning
<1>7. CASE Finish(p)
  <2>1. step[p] = "end" /\ step' = step
    BY <1>7 DEF Finish, TestOver
  <2> QED
    BY <2>1 DEF MayDo, PhaseOf, Cleaning
<1> QED
  BY <1>0, <1>1, <1>2, <1>3, <1>4, <1>5, <1>6, <1>7 DEF ProcessStep

\* Whatever the processes do to the store side by side, to the objects of a worker
\* without a rival, one that has its names or deletes its buckets, happens what
\* Load says and no more, and that in its own steps.
THEOREM Isolation == Spec => Isolated
<1>1. ASSUME TypeOK, PlacesInv, TeamInv, [Next]_vars, NEW r \in Team, \A q \in Proc : ~Rival(q, r)
      PROVE  UNCHANGED L(r)!vars \/ (ProcessStep(r) /\ L(r)!Next)
  <2>0. r \in Proc
    BY <1>1, TeamType DEF TypeOK
  <2>1. CASE ProcessStep(r)
    <3>1. MayDo(r)
      BY <1>1, <2>0, <2>1, OwnStep
    <3> QED
      BY <2>1, <3>1, MayDoLoad
  <2>2. ASSUME NEW p \in Proc, ProcessStep(p), p # r PROVE UNCHANGED L(r)!vars
    <3>1. OwnPresent(r)' = OwnPresent(r)
      BY <1>1, <2>0, <2>2, OthersUntouched
    <3>2. step'[r] = step[r]
      BY <1>1, <2>0, <2>2, OneMoves
    <3> QED
      BY <3>1, <3>2 DEF PhaseOf, Cleaning, L!vars
  <2>3. CASE ServerStep \/ UNCHANGED vars
    <3>1. UNCHANGED <<tests, buckets, step, id, task>>
      BY <2>3 DEF ServerStep, vars, store, workers, process, StartWork, Advance, Restart
    <3> QED
      BY <3>1 DEF PhaseOf, Cleaning, OwnPresent, Own, Exists, Name, Test, L!vars
  <2> QED
    BY <1>1, <2>1, <2>2, <2>3 DEF Next
<1>2. TypeOK /\ PlacesInv /\ TeamInv /\ [Next]_vars =>
        [\A p \in Team : (\A q \in Proc : ~Rival(q, p)) =>
           UNCHANGED L(p)!vars \/ (ProcessStep(p) /\ L(p)!Next)]_vars
  BY <1>1
<1>3. Init => TypeOK /\ PlacesInv /\ TeamInv
  BY InitTypeOK
<1> QED
  BY <1>2, <1>3, StepTypeOK, PTL DEF Spec, Isolated
=============================================================================
