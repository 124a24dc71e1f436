------------------------------ MODULE PerfTest ------------------------------
(***************************************************************************)
(* One worker running one test (worker/main.go, worker/workItems.go): it   *)
(* prepares its work items, then a producer feeds them to ParallelClients  *)
(* goroutines over one buffered channel until the time is up, the number   *)
(* of operations is reached or the queue is through, waits for them, and   *)
(* cleans up.  The object store is the set of objects of the worker's own  *)
(* buckets; every call to it is a step of its own.                         *)
(***************************************************************************)
EXTENDS Integers, Sequences, FiniteSets

CONSTANTS
  Client,       \* the goroutines of DoWork there may be
  Queue,        \* w.workQueue.Queue, as records [op, obj]
  Settings      \* the tests: records [stop, ops, skipPrepare, cleanAfter, clients] of
                \* the stop criterion, stop_with_ops, skip_prepare, clean_after and
                \* the parallel_clients goroutines; nothing refuses none of them

Item == 1..Len(Queue)
Object == {Queue[i].obj : i \in Item}
Op(i) == Queue[i].op
Obj(i) == Queue[i].obj

ASSUME ClientAssumption == IsFiniteSet(Client)
ASSUME QueueAssumption ==
  /\ Len(Queue) \in Nat \ {0}
  /\ \A i \in Item : Op(i) \in {"read", "write", "list", "delete"}
ASSUME SettingsAssumption ==
  Settings \subseteq [stop : {"runtime", "ops", "oneshot"}, ops : Nat \ {0},
                      skipPrepare : BOOLEAN, cleanAfter : BOOLEAN, clients : SUBSET Client]

VARIABLES
  test,     \* w.config.Test
  faulty,   \* may calls to the store fail?
  pc,       \* where the producer, connectToServer and perfTest, stands
  idx,      \* the item its loop is at
  left,     \* operations left to push (maxOps - currentOps), or stoppers
  remain,   \* remainOps of the re-preparation
  channel,  \* workChannel: items, and Stopper = 0
  notified, \* is notifyChan closed?
  expired,  \* has the timer fired?
  client,   \* per goroutine: Idle, Stopper or the item it works on
  store,    \* objects present
  count,    \* history: operations done, per item; not kept with stop_with_runtime
  missed    \* history: delete items that found no object

config == <<test, faulty>>
vars == <<config, pc, idx, left, remain, channel, notified, expired, client, store, count, missed>>

Stopper == 0
Idle    == -1

\* The goroutines of this test.
Active == test.clients

\* make(chan WorkItem, len(w.workQueue.Queue)); and a slip that makes it larger
PushWider(m) == Len(channel) < 2 * Len(Queue) /\ channel' = Append(channel, m)
Push(m) == Len(channel) < Len(Queue) /\ channel' = Append(channel, m)

\* A call to the store: it changes the objects to new, or fails; every caller
\* logs the error and goes on.
Store(new) == store' \in {new} \cup IF faulty THEN {store} ELSE {}

-----------------------------------------------------------------------------
(* The producer.                                                           *)

\* Loops over the work queue: go on at the next item, or leave for next.
Step(here, next) ==
  IF idx < Len(Queue) THEN pc' = here /\ idx' = idx + 1
                      ELSE pc' = next /\ idx' = 1

\* A slip: delete items are not prepared.
ListPrepared(i) == IF Op(i) = "list" THEN {Obj(i)} ELSE {}

\* The object an item puts before it can be done.  HeadObject spares delete
\* the call when the object is there; and may fail, which is the same as a miss.
Prepared(i) == IF Op(i) \in {"list", "delete"} THEN {Obj(i)} ELSE {}

\* for _, work := range w.workQueue.Queue { work.Prepare(config.Test) }
Prepare ==
  /\ pc = "prepare"
  /\ Store(store \cup Prepared(idx))
  /\ Step("prepare", "feed")
  /\ UNCHANGED <<config, left, remain, channel, notified, expired, client, count, missed>>

\* workUntilTimeout: case workChannel <- work
FeedRuntime ==
  /\ pc = "feed" /\ test.stop = "runtime"
  /\ Push(idx)
  /\ Step("feed", IF test.skipPrepare THEN "feed" ELSE "head")
  /\ UNCHANGED <<config, left, remain, notified, expired, client, store, count, missed>>

\* A slip: the timer ends the loop but notifyChan stays open.
TimeUpUnnoticed ==
  /\ pc = "feed" /\ test.stop = "runtime"
  /\ expired
  /\ pc' = "wait"
  /\ UNCHANGED <<config, idx, left, remain, channel, notified, expired, client, store, count, missed>>

\* workUntilTimeout: case <-timer.C
TimeUp ==
  /\ pc = "feed" /\ test.stop = "runtime"
  /\ expired
  /\ notified' = TRUE
  /\ pc' = "wait"
  /\ UNCHANGED <<config, idx, left, remain, channel, expired, client, store, count, missed>>

\* workUntilOps: workChannel <- work, or on to the stoppers.  The queue is
\* re-prepared for what remains, one remainOps per item of any kind.
FeedOps ==
  /\ pc = "feed" /\ test.stop = "ops" /\ left > 0
  /\ Push(idx)
  /\ left' = left - 1
  /\ remain' = left - 1
  /\ Step("feed", "head")
  /\ UNCHANGED <<config, notified, expired, client, store, count, missed>>

\* for worker := 0; worker < w.config.Test.ParallelClients; worker++
AfterItems == IF Active = {} THEN "wait" ELSE "stop"

\* A slip: it leaves the loop an operation early.
OpsReachedEarly ==
  /\ pc = "feed" /\ test.stop = "ops" /\ left = 1
  /\ pc' = AfterItems /\ idx' = 1
  /\ left' = Cardinality(Active)
  /\ UNCHANGED <<config, remain, channel, notified, expired, client, store, count, missed>>

OpsReached ==
  /\ pc = "feed" /\ test.stop = "ops" /\ left = 0
  /\ pc' = AfterItems /\ idx' = 1
  /\ left' = Cardinality(Active)
  /\ UNCHANGED <<config, remain, channel, notified, expired, client, store, count, missed>>

\* workOneShot
FeedOnce ==
  /\ pc = "feed" /\ test.stop = "oneshot"
  /\ Push(idx)
  /\ Step("feed", AfterItems)
  /\ left' = Cardinality(Active)
  /\ UNCHANGED <<config, remain, notified, expired, client, store, count, missed>>

PushStopper ==
  /\ pc = "stop"
  /\ Push(Stopper)
  /\ left' = left - 1
  /\ pc' = IF left = 1 THEN "wait" ELSE "stop"
  /\ UNCHANGED <<config, idx, remain, notified, expired, client, store, count, missed>>

\* The re-preparation of delete items between two rounds: HeadObject, then
\* PutObject when the object is not there.  A slip: it goes through the queue
\* whatever remains.
NeverExhausted == FALSE
Exhausted == test.stop = "ops" /\ remain = 0
Counted   == remain' = IF test.stop = "ops" THEN remain - 1 ELSE remain
Skips     == Op(idx) # "delete" \/ test.skipPrepare

ReprepareHead ==
  /\ pc = "head"
  /\ IF Exhausted
       THEN pc' = "feed" /\ idx' = 1 /\ UNCHANGED remain
       ELSE \/ /\ Skips \/ Obj(idx) \in store
               /\ Step("head", "feed") /\ Counted
            \/ /\ ~Skips /\ (Obj(idx) \notin store \/ faulty)
               /\ pc' = "put" /\ UNCHANGED <<idx, remain>>
  /\ UNCHANGED <<config, left, channel, notified, expired, client, store, count, missed>>

RepreparePut ==
  /\ pc = "put"
  /\ Store(store \cup {Obj(idx)})
  /\ Step("head", "feed") /\ Counted
  /\ UNCHANGED <<config, left, channel, notified, expired, client, count, missed>>

\* A slip: the wait ends with the first client.
FirstStopped ==
  /\ pc = "wait"
  /\ \E c \in Active : client[c] = Stopper
  /\ pc' = IF test.cleanAfter THEN "clean" ELSE "done"
  /\ idx' = 1
  /\ UNCHANGED <<config, left, remain, channel, notified, expired, client, store, count, missed>>

\* wg.Wait()
AllStopped ==
  /\ pc = "wait"
  /\ \A c \in Active : client[c] = Stopper
  /\ pc' = IF test.cleanAfter THEN "clean" ELSE "done"
  /\ idx' = 1
  /\ UNCHANGED <<config, left, remain, channel, notified, expired, client, store, count, missed>>

\* work.Clean() of every item; then deleteBucket empties the bucket.
Clean ==
  /\ pc = "clean"
  /\ IF Op(idx) = "delete" THEN UNCHANGED store ELSE Store(store \ {Obj(idx)})
  /\ Step("clean", "bucket")
  /\ UNCHANGED <<config, left, remain, channel, notified, expired, client, count, missed>>

DeleteBucket ==
  /\ pc = "bucket"
  /\ Store({})
  /\ pc' = "done"
  /\ UNCHANGED <<config, idx, left, remain, channel, notified, expired, client, count, missed>>

Producer ==
  \/ Prepare
  \/ FeedRuntime
  \/ FeedOps
  \/ OpsReached
  \/ FeedOnce
  \/ PushStopper
  \/ ReprepareHead
  \/ RepreparePut
  \/ AllStopped
  \/ Clean
  \/ DeleteBucket

Timer ==
  /\ pc \in {"feed", "head", "put"} /\ test.stop = "runtime"
  /\ expired' = TRUE
  /\ UNCHANGED <<config, pc, idx, left, remain, channel, notified, client, store, count, missed>>

-----------------------------------------------------------------------------
(* A client: DoWork.                                                       *)

Started == pc \notin {"prepare"}

\* case work := <-workChannel
TakeWork(c) ==
  /\ Started
  /\ client[c] = Idle
  /\ channel # <<>>
  /\ channel' = Tail(channel)
  /\ client' = [client EXCEPT ![c] = Head(channel)]
  /\ UNCHANGED <<config, pc, idx, left, remain, notified, expired, store, count, missed>>

\* case <-notifyChan
Notified(c) ==
  /\ client[c] = Idle
  /\ notified
  /\ client' = [client EXCEPT ![c] = Stopper]
  /\ UNCHANGED <<config, pc, idx, left, remain, channel, notified, expired, store, count, missed>>

\* work.Do: the call reaches the store.
After(i) ==
  CASE Op(i) = "write"  -> store \cup {Obj(i)}
    [] Op(i) = "delete" -> store \ {Obj(i)}
    [] OTHER            -> store

Do(c) ==
  /\ client[c] \in Item
  /\ LET i == client[c] IN
       /\ Store(After(i))
       /\ missed' = IF Op(i) = "delete" /\ Obj(i) \notin store THEN missed \cup {i} ELSE missed
       /\ count' = IF test.stop = "runtime" THEN count ELSE [count EXCEPT ![i] = @ + 1]
  /\ client' = [client EXCEPT ![c] = Idle]
  /\ UNCHANGED <<config, pc, idx, left, remain, channel, notified, expired>>

ClientStep(c) == TakeWork(c) \/ Notified(c) \/ Do(c)

-----------------------------------------------------------------------------
Init ==
  /\ test \in Settings /\ faulty \in BOOLEAN
  /\ pc = IF test.skipPrepare THEN "feed" ELSE "prepare"
  /\ idx = 1 /\ left = test.ops /\ remain = 0
  /\ channel = <<>>
  /\ notified = FALSE /\ expired = FALSE
  /\ client = [c \in Client |-> Idle]
  /\ store \in SUBSET Object
  /\ count = [i \in Item |-> 0]
  /\ missed = {}

Next == Producer \/ TimeUp \/ Timer \/ \E c \in Active : ClientStep(c)

Spec == Init /\ [][Next]_vars

\* Goroutines run, calls to the store return and the timer fires.  A select
\* whose cases are both ready takes each of them in the end.
FairSpec ==
  /\ Spec
  /\ WF_vars(Producer) /\ WF_vars(Timer) /\ SF_vars(TimeUp)
  /\ \A c \in Client : WF_vars(c \in Active /\ ClientStep(c))
-----------------------------------------------------------------------------
(* Properties.                                                             *)

Places == {"prepare", "feed", "head", "put", "stop", "wait", "clean", "bucket", "done"}

\* Every variable keeps its type, the loop index stays inside the queue, and no
\* counter of the producer, a uint64 in the code, is ever taken below zero.
TypeOK ==
  /\ test \in Settings /\ faulty \in BOOLEAN
  /\ pc \in Places
  /\ idx \in Item /\ left \in Nat /\ remain \in Nat
  /\ channel \in Seq(Item \cup {Stopper}) /\ Len(channel) <= Len(Queue)
  /\ notified \in BOOLEAN /\ expired \in BOOLEAN
  /\ client \in [Client -> Item \cup {Idle, Stopper}]
  /\ store \subseteq Object
  /\ count \in [Item -> Nat] /\ missed \subseteq Item

Over == pc \in {"clean", "bucket", "done"}

\* What the stop criterion asks of an item: the operations go round the queue,
\* and one shot does every item once.
Quota(i) ==
  IF test.stop = "ops"
    THEN test.ops \div Len(Queue) + IF i <= test.ops % Len(Queue) THEN 1 ELSE 0
    ELSE 1

\* The measurement ends with exactly the operations asked for: every item did
\* its share, nobody still works, and neither an item nor a stopper is left in
\* the channel, whichever client took what.
QuotaMet ==
  Over /\ test.stop # "runtime" /\ Active # {} =>
    /\ channel = <<>>
    /\ \A c \in Active : client[c] = Stopper
    /\ \A i \in Item : count[i] = Quota(i)

\* With clean_after nothing of the test is left in the store if the calls succeed:
\* no operation reaches it once the cleanup has begun.  That DeleteObjects takes
\* 1000 keys at most, which Housekeeping has, is a failing call here.
CleanLeavesNothing ==
  pc = "done" /\ test.cleanAfter /\ ~faulty => store = {}

\* worker/workItems.go:106: a delete operation is prepared before it is done, so
\* it finds its object, as long as calls succeed and items have objects of
\* their own.
DeletesFindTheirObject ==
  ~faulty /\ ~test.skipPrepare => missed = {}

\* Handed out once only, every delete finds what was prepared for it, whatever
\* the other clients do meanwhile.
OneShotDeletesFind == test.stop = "oneshot" => DeletesFindTheirObject

\* With parallel_clients: 0 (nothing refuses it) a limit of operations beyond
\* what the channel holds blocks the producer for good, in no other case ...
Unserved == Active = {} /\ test.stop = "ops" /\ test.ops > Len(Queue)

\* ... so that the test gets no further than its items, and otherwise ends with
\* not one operation done.
NothingWithoutClients ==
  Active = {} => count = [i \in Item |-> 0] /\ (Unserved => ~Over /\ pc \notin {"stop", "wait"})

\* The test ends: every client sees a stopper or the closed channel, and the
\* producer never waits for clients that are gone, nor for ones that never were
\* unless Unserved.
Terminates == Unserved \/ <>(pc = "done")

\* To the objects of its worker a test does what Load says and no more: nothing
\* is removed while it prepares, and nothing comes back once it cleans up, for
\* every interleaving of producer and clients.
L == INSTANCE Load WITH
  Deletable <- {Obj(i) : i \in {j \in Item : Op(j) = "delete"}},
  phase <- CASE pc = "prepare"             -> "prepare"
             [] pc \in {"clean", "bucket"} -> "clean"
             [] pc = "done"                -> "idle"
             [] OTHER                      -> "load",
  objs <- store
LoadSpec == L!Spec

-----------------------------------------------------------------------------
(* Why the quota is met: an inductive invariant.                           *)

Waiting(m) == {k \in DOMAIN channel : channel[k] = m}
Doing(m)   == {c \in Active : client[c] = m}
Feeding    == pc \in {"prepare", "feed", "head", "put"}

\* Nothing runs before the preparation is over or after the wait; the counters
\* of the producer are above zero where it takes them down.
ControlInv ==
  /\ pc = "prepare" => channel = <<>> /\ ~notified /\ \A c \in Client : client[c] = Idle
  /\ pc \in {"head", "put"} => test.stop # "oneshot"
  /\ pc = "put" /\ test.stop = "ops" => remain > 0
  /\ pc = "stop" => test.stop # "runtime" /\ left > 0 /\ left <= Cardinality(Active)
  /\ notified \/ expired => test.stop = "runtime"
  /\ Over => \A c \in Active : client[c] = Stopper
  /\ pc \in {"bucket", "clean"} => test.cleanAfter

\* Stoppers come behind the items, and there is one for every client.
StopperInv ==
  test.stop # "runtime" =>
    /\ Feeding => Waiting(Stopper) = {} /\ Doing(Stopper) = {}
    /\ \A k, l \in DOMAIN channel : k < l /\ channel[k] = Stopper => channel[l] = Stopper
    /\ Doing(Stopper) # {} => \A k \in DOMAIN channel : channel[k] = Stopper
    /\ Cardinality(Waiting(Stopper)) + Cardinality(Doing(Stopper)) =
         IF Feeding THEN 0 ELSE IF pc = "stop" THEN Cardinality(Active) - left ELSE Cardinality(Active)

\* An item that was pushed is in the channel, with a client, or done.
Total(i) == count[i] + Cardinality(Waiting(i)) + Cardinality(Doing(i))

\* The operations pushed so far, and those of them in the round at hand, as the
\* last item of the queue counts the rounds.
Past == IF Feeding THEN test.ops - left ELSE test.ops
Rest == Past - Total(Len(Queue)) * Len(Queue)

\* The operations go round the queue, ...
OpsInv ==
  test.stop = "ops" =>
    /\ Rest \in 0..(Len(Queue) - 1)
    /\ pc = "feed" => Rest = idx - 1
    /\ pc \in {"prepare", "head", "put"} => Rest = 0
    /\ \A i \in Item : Total(i) = Total(Len(Queue)) + IF i <= Rest THEN 1 ELSE 0

\* ... one shot pushes every item once, ...
OneShotInv ==
  test.stop = "oneshot" =>
    \A i \in Item : Total(i) = IF pc = "prepare" \/ (pc = "feed" /\ i >= idx) THEN 0 ELSE 1

\* ... and without clients items stay in the channel.
ClientlessInv ==
  Active = {} =>
    /\ count = [i \in Item |-> 0]
    /\ test.stop = "ops" /\ Feeding => Len(channel) = test.ops - left
    /\ test.stop = "ops" /\ ~Feeding => test.ops <= Len(Queue)

ItemsInv == OpsInv /\ OneShotInv /\ ClientlessInv
QuotaInv == ControlInv /\ StopperInv /\ ItemsInv

\* With one shot, a delete item that was prepared and not done has its object.
ObjectsInv ==
  test.stop = "oneshot" /\ ~faulty /\ ~test.skipPrepare =>
    /\ missed = {}
    /\ ~Over => \A i \in Item :
         Op(i) = "delete" /\ count[i] = 0 /\ (pc # "prepare" \/ i < idx) => Obj(i) \in store
=============================================================================
