--------------------------- MODULE PerfTestProofs ---------------------------
(***************************************************************************)
(* Proofs about PerfTest, for every queue, any number of clients and every *)
(* test: the operations asked for are done, once each, whichever client    *)
(* takes what; the clean-up has the last word; and producer and clients    *)
(* together implement Load.                                                *)
(***************************************************************************)
EXTENDS PerfTest, FunctionTheorems, FiniteSetTheorems, TLAPS

(***************************************************************************)
(* Types, and where the producer and its counters are.                     *)
(***************************************************************************)

\* What a test case holds.
LEMMA TestType ==
  ASSUME TypeOK
  PROVE  /\ test.stop \in {"runtime", "ops", "oneshot"} /\ test.ops \in Nat \ {0}
         /\ test.skipPrepare \in BOOLEAN /\ test.cleanAfter \in BOOLEAN
         /\ Active \subseteq Client /\ IsFiniteSet(Active)
         /\ Cardinality(Active) \in Nat /\ (Cardinality(Active) = 0 <=> Active = {})
<1>1. test \in [stop : {"runtime", "ops", "oneshot"}, ops : Nat \ {0},
                skipPrepare : BOOLEAN, cleanAfter : BOOLEAN, clients : SUBSET Client]
  BY SettingsAssumption DEF TypeOK
<1>2. Active \subseteq Client
  BY <1>1 DEF Active
<1>3. IsFiniteSet(Active)
  BY <1>2, ClientAssumption, FS_Subset
<1> QED
  BY <1>1, <1>2, <1>3, FS_CardinalityType, FS_EmptySet

\* The queue has a first and a last item.
LEMMA QueueType == Len(Queue) \in Nat /\ Len(Queue) >= 1 /\ 1 \in Item /\ Len(Queue) \in Item
  BY QueueAssumption DEF Item

\* A test stays the same test.
LEMMA SameTest == [Next]_vars => UNCHANGED <<test, faulty>>
<1> USE DEF config
<1>1. Producer => UNCHANGED <<test, faulty>>
  BY DEF Producer, Prepare, FeedRuntime, FeedOps, OpsReached, FeedOnce, PushStopper,
         ReprepareHead, RepreparePut, AllStopped, Clean, DeleteBucket
<1>2. TimeUp \/ Timer \/ (\E c \in Active : ClientStep(c)) => UNCHANGED <<test, faulty>>
  BY DEF TimeUp, Timer, ClientStep, TakeWork, Notified, Do
<1> QED
  BY <1>1, <1>2 DEF Next, vars

\* A loop over the queue goes on at the next item, or leaves after the last.
LEMMA LoopStep ==
  ASSUME idx \in Item, NEW here, NEW next, Step(here, next)
  PROVE  /\ idx \in Nat /\ idx' \in Item
         /\ \/ idx < Len(Queue) /\ pc' = here /\ idx' = idx + 1
            \/ idx = Len(Queue) /\ pc' = next /\ idx' = 1
  BY QueueType DEF Item, Step

\* What a call leaves in the store.
LEMMA StoreType ==
  ASSUME store \subseteq Object, NEW new, new \subseteq Object, Store(new)
  PROVE  store' \subseteq Object
  BY DEF Store

\* Pushing and taking keep the channel one of messages, within its buffer.
LEMMA PushType ==
  ASSUME TypeOK, NEW m \in Item \cup {Stopper}, Push(m)
  PROVE  /\ channel' = Append(channel, m) /\ channel' \in Seq(Item \cup {Stopper})
         /\ Len(channel') = Len(channel) + 1 /\ Len(channel') <= Len(Queue)
<1>1. channel \in Seq(Item \cup {Stopper}) /\ Len(channel) \in Nat
  BY DEF TypeOK
<1> QED
  BY <1>1, QueueType DEF Push

LEMMA TakeType ==
  ASSUME TypeOK, channel # <<>>
  PROVE  /\ Head(channel) \in Item \cup {Stopper} /\ Tail(channel) \in Seq(Item \cup {Stopper})
         /\ Len(Tail(channel)) <= Len(Queue)
<1>1. channel \in Seq(Item \cup {Stopper}) /\ Len(channel) \in Nat /\ Len(channel) > 0
      /\ Len(channel) <= Len(Queue)
  BY DEF TypeOK
<1>2. Len(Tail(channel)) = Len(channel) - 1
  BY <1>1
<1> QED
  BY <1>1, <1>2, QueueType

\* The producer keeps types; its counters are above zero where it takes them
\* down.
LEMMA ProducerTypeOK == TypeOK /\ ControlInv /\ Producer => TypeOK'
<1> SUFFICES ASSUME TypeOK, ControlInv, Producer PROVE TypeOK'
  OBVIOUS
<1> USE DEF config
<1>0. /\ test \in Settings /\ faulty \in BOOLEAN /\ idx \in Item /\ left \in Nat /\ remain \in Nat
      /\ store \subseteq Object /\ pc \in Places /\ Obj(idx) \in Object
  BY DEF TypeOK, Object, Obj
<1>1. CASE Prepare
  <2>1. store' \subseteq Object
    BY <1>0, <1>1, StoreType DEF Prepare, Prepared
  <2>2. pc' \in Places /\ idx' \in Item
    BY <1>0, <1>1, LoopStep DEF Prepare, Places
  <2> QED
    BY <1>1, <2>1, <2>2 DEF Prepare, TypeOK
<1>2. CASE FeedRuntime
  <2>1. channel' \in Seq(Item \cup {Stopper}) /\ Len(channel') <= Len(Queue)
    BY <1>0, <1>2, PushType DEF FeedRuntime
  <2>2. pc' \in Places /\ idx' \in Item
    BY <1>0, <1>2, LoopStep DEF FeedRuntime, Places
  <2> QED
    BY <1>2, <2>1, <2>2 DEF FeedRuntime, TypeOK
<1>3. CASE FeedOps
  <2>1. channel' \in Seq(Item \cup {Stopper}) /\ Len(channel') <= Len(Queue)
    BY <1>0, <1>3, PushType DEF FeedOps
  <2>2. pc' \in Places /\ idx' \in Item
    BY <1>0, <1>3, LoopStep DEF FeedOps, Places
  <2>3. left' \in Nat /\ remain' \in Nat
    BY <1>0, <1>3 DEF FeedOps
  <2> QED
    BY <1>3, <2>1, <2>2, <2>3 DEF FeedOps, TypeOK
<1>4. CASE OpsReached
  BY <1>0, <1>4, QueueType, TestType DEF OpsReached, AfterItems, Places, TypeOK
<1>5. CASE FeedOnce
  <2>1. channel' \in Seq(Item \cup {Stopper}) /\ Len(channel') <= Len(Queue)
    BY <1>0, <1>5, PushType DEF FeedOnce
  <2>2. pc' \in Places /\ idx' \in Item
    BY <1>0, <1>5, LoopStep DEF FeedOnce, Places, AfterItems
  <2>3. left' \in Nat
    BY <1>5, TestType DEF FeedOnce
  <2> QED
    BY <1>5, <2>1, <2>2, <2>3 DEF FeedOnce, TypeOK
<1>6. CASE PushStopper
  <2>1. channel' \in Seq(Item \cup {Stopper}) /\ Len(channel') <= Len(Queue)
    BY <1>6, PushType DEF PushStopper
  <2>2. left' \in Nat /\ pc' \in Places
    BY <1>0, <1>6 DEF PushStopper, ControlInv, Places
  <2> QED
    BY <1>6, <2>1, <2>2 DEF PushStopper, TypeOK
<1>7. CASE ReprepareHead
  <2>1. pc' \in Places /\ idx' \in Item
    BY <1>0, <1>7, LoopStep, QueueType DEF ReprepareHead, Places
  <2>2. remain' \in Nat
    BY <1>0, <1>7 DEF ReprepareHead, Exhausted, Counted
  <2> QED
    BY <1>7, <2>1, <2>2 DEF ReprepareHead, TypeOK
<1>8. CASE RepreparePut
  <2>1. store' \subseteq Object
    BY <1>0, <1>8, StoreType DEF RepreparePut
  <2>2. pc' \in Places /\ idx' \in Item
    BY <1>0, <1>8, LoopStep DEF RepreparePut, Places
  <2>3. remain' \in Nat
    BY <1>0, <1>8 DEF RepreparePut, ControlInv, Counted
  <2> QED
    BY <1>8, <2>1, <2>2, <2>3 DEF RepreparePut, TypeOK
<1>9. CASE AllStopped
  BY <1>0, <1>9, QueueType DEF AllStopped, Places, TypeOK
<1>10. CASE Clean
  <2>1. store' \subseteq Object
    BY <1>0, <1>10, StoreType DEF Clean
  <2>2. pc' \in Places /\ idx' \in Item
    BY <1>0, <1>10, LoopStep DEF Clean, Places
  <2> QED
    BY <1>10, <2>1, <2>2 DEF Clean, TypeOK
<1>11. CASE DeleteBucket
  <2>1. store' \subseteq Object
    BY <1>0, <1>11, StoreType DEF DeleteBucket
  <2> QED
    BY <1>11, <2>1 DEF DeleteBucket, Places, TypeOK
<1> QED
  BY <1>1, <1>2, <1>3, <1>4, <1>5, <1>6, <1>7, <1>8, <1>9, <1>10, <1>11 DEF Producer

\* So do the timer and the clients.
LEMMA ClientTypeOK == TypeOK /\ (TimeUp \/ Timer \/ \E c \in Active : ClientStep(c)) => TypeOK'
<1> SUFFICES ASSUME TypeOK, TimeUp \/ Timer \/ \E c \in Active : ClientStep(c) PROVE TypeOK'
  OBVIOUS
<1> USE DEF config
<1>1. CASE TimeUp \/ Timer
  BY <1>1 DEF TimeUp, Timer, Places, TypeOK
<1>2. ASSUME NEW c \in Active, TakeWork(c) PROVE TypeOK'
  <2>1. client' \in [Client -> Item \cup {Idle, Stopper}]
    BY <1>2, TakeType DEF TakeWork, TypeOK
  <2> QED
    BY <1>2, <2>1, TakeType DEF TakeWork, TypeOK
<1>3. ASSUME NEW c \in Active, Notified(c) PROVE TypeOK'
  BY <1>3 DEF Notified, TypeOK
<1>4. ASSUME NEW c \in Active, Do(c) PROVE TypeOK'
  <2>1. client[c] \in Item /\ Obj(client[c]) \in Object
    BY <1>4 DEF Do, Object, Obj
  <2>2. After(client[c]) \subseteq Object
    BY <2>1 DEF After, TypeOK
  <2>3. store' \subseteq Object
    BY <1>4, <2>2, StoreType DEF Do, TypeOK
  <2>4. missed' \subseteq Item /\ client' \in [Client -> Item \cup {Idle, Stopper}]
    BY <1>4, <2>1 DEF Do, TypeOK
  <2>5. count' \in [Item -> Nat]
    <3>1. count' = count \/ count' = [count EXCEPT ![client[c]] = @ + 1]
      BY <1>4 DEF Do
    <3> QED
      BY <2>1, <3>1 DEF TypeOK
  <2> QED
    BY <1>4, <2>3, <2>4, <2>5 DEF Do, TypeOK
<1> QED
  BY <1>1, <1>2, <1>3, <1>4 DEF ClientStep

\* Nobody but the producer moves the producer.
LEMMA ProducerControl == TypeOK /\ ControlInv /\ Producer => ControlInv'
<1> SUFFICES ASSUME TypeOK, ControlInv, Producer PROVE ControlInv'
  OBVIOUS
<1> USE DEF config
<1>0. /\ test.stop \in {"runtime", "ops", "oneshot"} /\ idx \in Item /\ left \in Nat /\ remain \in Nat
      /\ Cardinality(Active) \in Nat /\ (Cardinality(Active) = 0 <=> Active = {})
  BY TestType DEF TypeOK
<1>1. CASE Prepare
  <2>1. pc = "prepare" /\ pc' \in {"prepare", "feed"}
        /\ UNCHANGED <<test, left, channel, notified, expired, client>>
    BY <1>0, <1>1, LoopStep DEF Prepare
  <2> QED
    BY <2>1 DEF ControlInv, Over, Active
<1>2. CASE FeedRuntime
  <2>1. pc = "feed" /\ test.stop = "runtime" /\ pc' \in {"feed", "head"}
        /\ UNCHANGED <<test, notified, expired, client>>
    BY <1>0, <1>2, LoopStep DEF FeedRuntime
  <2> QED
    BY <2>1 DEF ControlInv, Over
<1>3. CASE FeedOps
  <2>1. pc = "feed" /\ test.stop = "ops" /\ pc' \in {"feed", "head"}
        /\ UNCHANGED <<test, notified, expired, client>>
    BY <1>0, <1>3, LoopStep DEF FeedOps
  <2> QED
    BY <2>1 DEF ControlInv, Over
<1>4. CASE OpsReached
  <2>1. /\ pc = "feed" /\ test.stop = "ops" /\ pc' \in {"wait", "stop"} /\ (pc' = "stop" => Active # {})
        /\ left' = Cardinality(Active) /\ UNCHANGED <<test, notified, expired, client>> /\ Active' = Active
    BY <1>4 DEF OpsReached, AfterItems, Active
  <2> QED
    BY <1>0, <2>1 DEF ControlInv, Over
<1>5. CASE FeedOnce
  <2>1. /\ pc = "feed" /\ test.stop = "oneshot" /\ pc' \in {"feed", "wait", "stop"}
        /\ pc' = "stop" => Active # {}
        /\ left' = Cardinality(Active) /\ UNCHANGED <<test, notified, expired, client>> /\ Active' = Active
    BY <1>0, <1>5, LoopStep DEF FeedOnce, AfterItems, Active
  <2> QED
    BY <1>0, <2>1 DEF ControlInv, Over
<1>6. CASE PushStopper
  <2>1. /\ pc = "stop" /\ left' = left - 1 /\ pc' = (IF left = 1 THEN "wait" ELSE "stop")
        /\ UNCHANGED <<test, notified, expired, client>> /\ Active' = Active
    BY <1>6 DEF PushStopper, Active
  <2> QED
    BY <1>0, <2>1 DEF ControlInv, Over
<1>7. CASE ReprepareHead
  <2>1. /\ pc = "head" /\ pc' \in {"head", "feed", "put"}
        /\ pc' = "put" => remain' = remain /\ ~Exhausted
        /\ UNCHANGED <<test, notified, expired, client>>
    BY <1>0, <1>7, LoopStep DEF ReprepareHead
  <2> QED
    BY <1>0, <2>1 DEF ControlInv, Over, Exhausted
<1>8. CASE RepreparePut
  <2>1. /\ pc = "put" /\ pc' \in {"head", "feed"} /\ UNCHANGED <<test, notified, expired, client>>
    BY <1>0, <1>8, LoopStep DEF RepreparePut
  <2> QED
    BY <2>1 DEF ControlInv, Over
<1>9. CASE AllStopped
  BY <1>9 DEF AllStopped, ControlInv, Over, Active
<1>10. CASE Clean
  <2>1. /\ pc = "clean" /\ pc' \in {"clean", "bucket"} /\ UNCHANGED <<test, notified, expired, client>>
    BY <1>0, <1>10, LoopStep DEF Clean
  <2> QED
    BY <2>1 DEF ControlInv, Over, Active
<1>11. CASE DeleteBucket
  BY <1>11 DEF DeleteBucket, ControlInv, Over, Active
<1> QED
  BY <1>1, <1>2, <1>3, <1>4, <1>5, <1>6, <1>7, <1>8, <1>9, <1>10, <1>11 DEF Producer

\* A client has nothing to do before the preparation is over, nor after the
\* wait.
LEMMA ClientControl ==
  TypeOK /\ ControlInv /\ (TimeUp \/ Timer \/ \E c \in Active : ClientStep(c)) => ControlInv'
<1> SUFFICES ASSUME TypeOK, ControlInv, TimeUp \/ Timer \/ \E c \in Active : ClientStep(c) PROVE ControlInv'
  OBVIOUS
<1> USE DEF config
<1>1. CASE TimeUp \/ Timer
  BY <1>1 DEF TimeUp, Timer, ControlInv, Over, Active
<1>2. ASSUME NEW c \in Active, ClientStep(c) PROVE ControlInv'
  <2>1. /\ c \in Client /\ Active' = Active
        /\ UNCHANGED <<test, pc, left, remain, notified, expired>>
    BY <1>2, TestType DEF ClientStep, TakeWork, Notified, Do, Active
  <2>2. pc # "prepare"
    BY <1>2, <2>1 DEF ClientStep, TakeWork, Notified, Do, ControlInv, Started, Item, Idle
  <2>3. ~Over
    BY <1>2, <2>1 DEF ClientStep, TakeWork, Notified, Do, ControlInv, Item, Idle, Stopper
  <2> QED
    BY <2>1, <2>2, <2>3 DEF ControlInv, Over
<1> QED
  BY <1>1, <1>2

\* The places of the producer and its counters are as they should be.
LEMMA InitControl == Init => TypeOK /\ ControlInv
<1> SUFFICES ASSUME Init PROVE TypeOK /\ ControlInv
  OBVIOUS
<1>1. test \in [stop : {"runtime", "ops", "oneshot"}, ops : Nat \ {0},
                skipPrepare : BOOLEAN, cleanAfter : BOOLEAN, clients : SUBSET Client]
  BY SettingsAssumption DEF Init
<1>2. /\ pc \in {"feed", "prepare"} /\ left \in Nat /\ channel = <<>> /\ Len(channel) = 0
      /\ channel \in Seq(Item \cup {Stopper})
  BY <1>1 DEF Init
<1>3. idx \in Item /\ remain \in Nat /\ Len(channel) <= Len(Queue) /\ pc \in Places
  BY <1>2, QueueType DEF Init, Places
<1>4. /\ client \in [Client -> Item \cup {Idle, Stopper}] /\ count \in [Item -> Nat]
      /\ missed \subseteq Item /\ store \subseteq Object
  BY DEF Init
<1>5. TypeOK
  BY <1>2, <1>3, <1>4 DEF Init, TypeOK
<1>6. ControlInv
  BY <1>2 DEF Init, ControlInv, Over
<1> QED
  BY <1>5, <1>6

LEMMA StepControl == TypeOK /\ ControlInv /\ [Next]_vars => TypeOK' /\ ControlInv'
<1> SUFFICES ASSUME TypeOK, ControlInv, [Next]_vars PROVE TypeOK' /\ ControlInv'
  OBVIOUS
<1>1. CASE UNCHANGED vars
  BY <1>1 DEF vars, config, TypeOK, ControlInv, Over, Active
<1>2. CASE Next
  BY <1>2, ProducerTypeOK, ClientTypeOK, ProducerControl, ClientControl DEF Next
<1> QED
  BY <1>1, <1>2

\* Every variable keeps its type, the loop index stays inside the queue, and no
\* uint64 counter of workUntilOps wraps.
THEOREM Typed == Spec => [](TypeOK /\ ControlInv)
  BY InitControl, StepControl, PTL DEF Spec

(***************************************************************************)
(* The objects of the worker: the clean-up has the last word.              *)
(***************************************************************************)

\* Once a test is cleaned up no client is left that could put an object back.
LEMMA StepClean == TypeOK /\ ControlInv /\ CleanLeavesNothing /\ [Next]_vars => CleanLeavesNothing'
<1> SUFFICES ASSUME TypeOK, ControlInv, CleanLeavesNothing, [Next]_vars,
                    pc' = "done", test'.cleanAfter, ~faulty'
             PROVE  store' = {}
  BY DEF CleanLeavesNothing
<1> USE DEF config
<1>1. test' = test /\ faulty' = faulty
  BY SameTest
<1>2. CASE UNCHANGED vars
  BY <1>1, <1>2 DEF vars, CleanLeavesNothing
<1>3. CASE Producer
  <2>1. idx \in Item
    BY DEF TypeOK
  <2>2. ~(Prepare \/ FeedRuntime \/ FeedOps \/ ReprepareHead \/ RepreparePut \/ Clean)
    BY <2>1, LoopStep DEF Prepare, FeedRuntime, FeedOps, ReprepareHead, RepreparePut, Clean
  <2>3. ~(OpsReached \/ FeedOnce \/ PushStopper)
    BY <2>1, LoopStep DEF OpsReached, FeedOnce, PushStopper, AfterItems
  <2>4. CASE AllStopped
    BY <1>1, <2>4 DEF AllStopped
  <2>5. CASE DeleteBucket
    BY <1>1, <2>5 DEF DeleteBucket, Store
  <2> QED
    BY <1>3, <2>2, <2>3, <2>4, <2>5 DEF Producer
<1>4. ~TimeUp /\ ~Timer
  BY DEF TimeUp, Timer
<1>5. ASSUME NEW c \in Active, ClientStep(c) PROVE FALSE
  <2>1. pc = "done"
    BY <1>5 DEF ClientStep, TakeWork, Notified, Do
  <2>2. client[c] = Stopper
    BY <2>1 DEF ControlInv, Over
  <2> QED
    BY <1>5, <2>2 DEF ClientStep, TakeWork, Notified, Do, Item, Idle, Stopper
<1> QED
  BY <1>2, <1>3, <1>4, <1>5 DEF Next

\* With clean_after, and calls that succeed, connectToServer leaves its bucket empty
\* when it is done, as perfTest waits for its goroutines before it cleans up.  The
\* calls include the DeleteObjects of whatever is left, which takes 1000 keys.
THEOREM CleanLast == Spec => []CleanLeavesNothing
<1>1. Init => CleanLeavesNothing
  BY DEF Init, CleanLeavesNothing
<1> QED
  BY <1>1, StepClean, Typed, PTL DEF Spec

\* Where Load finds the worker.
LoadPhase ==
  CASE pc = "prepare"             -> "prepare"
    [] pc \in {"clean", "bucket"} -> "clean"
    [] pc = "done"                -> "idle"
    [] OTHER                      -> "load"

DeleteObjects == {Obj(i) : i \in {j \in Item : Op(j) = "delete"}}

\* The producer adds objects while it prepares and feeds, and removes them when
\* it cleans up.
LEMMA ProducerLoad == TypeOK /\ ControlInv /\ Producer => [L!Next]_(L!vars)
<1> SUFFICES ASSUME TypeOK, ControlInv, Producer PROVE [L!Next]_(L!vars)
  OBVIOUS
<1> USE DEF config
<1>0. idx \in Item
  BY DEF TypeOK
<1>1. CASE Prepare
  <2>1. LoadPhase = "prepare" /\ LoadPhase' \in {"prepare", "load"} /\ store \subseteq store'
    BY <1>0, <1>1, LoopStep DEF Prepare, Store, LoadPhase
  <2> QED
    BY <2>1 DEF L!Next, L!Prepare, LoadPhase
<1>2. CASE FeedRuntime \/ FeedOps \/ OpsReached \/ FeedOnce \/ PushStopper
  <2>1. pc \in {"feed", "stop"} /\ pc' \in {"feed", "head", "stop", "wait"} /\ store' = store
    BY <1>0, <1>2, LoopStep DEF FeedRuntime, FeedOps, OpsReached, FeedOnce, PushStopper, AfterItems
  <2> QED
    BY <2>1 DEF L!vars, LoadPhase
<1>3. CASE ReprepareHead
  <2>1. pc = "head" /\ pc' \in {"feed", "head", "put"} /\ store' = store
    BY <1>0, <1>3, LoopStep DEF ReprepareHead
  <2> QED
    BY <2>1 DEF L!vars, LoadPhase
<1>4. CASE RepreparePut
  <2>1. pc = "put" /\ pc' \in {"feed", "head"} /\ store \subseteq store'
    BY <1>0, <1>4, LoopStep DEF RepreparePut, Store
  <2>2. LoadPhase = "load" /\ LoadPhase' = "load" /\ store \ DeleteObjects \subseteq store'
    BY <2>1 DEF LoadPhase
  <2> QED
    BY <2>2 DEF L!Next, L!Work, LoadPhase, DeleteObjects
<1>5. CASE AllStopped
  <2>1. LoadPhase = "load" /\ LoadPhase' \in {"clean", "idle"} /\ store' = store
    BY <1>5 DEF AllStopped, LoadPhase
  <2> QED
    BY <2>1 DEF L!Next, L!Work, LoadPhase
<1>6. CASE Clean
  <2>1. LoadPhase = "clean" /\ LoadPhase' = "clean"
    BY <1>0, <1>6, LoopStep DEF Clean, LoadPhase
  <2>2. store' \subseteq store
    BY <1>6 DEF Clean, Store
  <2> QED
    BY <2>1, <2>2 DEF L!Next, L!Clean, LoadPhase
<1>7. CASE DeleteBucket
  <2>1. LoadPhase = "clean" /\ LoadPhase' = "idle" /\ store' \subseteq store
    BY <1>7 DEF DeleteBucket, LoadPhase, Store
  <2> QED
    BY <2>1 DEF L!Next, L!Clean, LoadPhase
<1> QED
  BY <1>1, <1>2, <1>3, <1>4, <1>5, <1>6, <1>7 DEF Producer

\* Clients reach the store in the load phase only, and remove what a delete
\* item names.
LEMMA ClientLoad ==
  TypeOK /\ ControlInv /\ (TimeUp \/ Timer \/ \E c \in Active : ClientStep(c)) => [L!Next]_(L!vars)
<1> SUFFICES ASSUME TypeOK, ControlInv, TimeUp \/ Timer \/ \E c \in Active : ClientStep(c)
             PROVE  [L!Next]_(L!vars)
  OBVIOUS
<1> USE DEF config
<1>1. CASE TimeUp \/ Timer
  <2>1. /\ pc \in {"feed", "head", "put"} /\ pc' \in {"feed", "head", "put", "wait"} /\ store' = store
    BY <1>1 DEF TimeUp, Timer
  <2> QED
    BY <2>1 DEF L!vars, LoadPhase
<1>2. ASSUME NEW c \in Active, TakeWork(c) \/ Notified(c) PROVE UNCHANGED L!vars
  BY <1>2 DEF TakeWork, Notified, L!vars
<1>3. ASSUME NEW c \in Active, Do(c) PROVE L!Next
  <2>1. c \in Client /\ client[c] \in Item /\ pc' = pc
    BY <1>3, TestType DEF Do
  <2>2. pc \notin {"prepare", "clean", "bucket", "done"}
    BY <2>1, <1>3 DEF ControlInv, Over, Item, Idle, Stopper
  <2>3. Op(client[c]) = "delete" => Obj(client[c]) \in DeleteObjects
    BY <2>1 DEF DeleteObjects
  <2>4. store \ DeleteObjects \subseteq After(client[c])
    BY <2>1, <2>3 DEF After
  <2>5. store \ DeleteObjects \subseteq store'
    BY <1>3, <2>4 DEF Do, Store
  <2>6. LoadPhase = "load" /\ LoadPhase' = "load"
    BY <2>1, <2>2 DEF LoadPhase
  <2> QED
    BY <2>5, <2>6 DEF L!Next, L!Work, LoadPhase, DeleteObjects
<1> QED
  BY <1>1, <1>2, <1>3 DEF ClientStep

\* Producer, timer and clients together do to the objects of their worker what
\* Load says and no more.
THEOREM ImplementsLoad == Spec => LoadSpec
<1>1. Init => L!Init
  <2>1. Init => LoadPhase \in L!Phase
    BY DEF Init, LoadPhase, L!Phase
  <2> QED
    BY <2>1 DEF L!Init, LoadPhase
<1>2. TypeOK /\ ControlInv /\ [Next]_vars => [L!Next]_(L!vars)
  <2>1. UNCHANGED vars => UNCHANGED L!vars
    BY DEF vars, L!vars
  <2> QED
    BY <2>1, ProducerLoad, ClientLoad DEF Next
<1> QED
  BY <1>1, <1>2, Typed, PTL DEF Spec, LoadSpec, L!Spec

(***************************************************************************)
(* Counting the messages of a channel and the clients at work.             *)
(***************************************************************************)

At(s, m) == {k \in DOMAIN s : s[k] = m}

\* A sequence holds finitely many of anything.
LEMMA AtFinite ==
  ASSUME NEW S, NEW s \in Seq(S), NEW m
  PROVE  IsFiniteSet(At(s, m)) /\ Cardinality(At(s, m)) \in Nat
<1>1. Len(s) \in Nat /\ DOMAIN s = 1..Len(s)
  OBVIOUS
<1>2. IsFiniteSet(DOMAIN s)
  BY <1>1, FS_Interval
<1>3. At(s, m) \in SUBSET DOMAIN s
  BY DEF At
<1> QED
  BY <1>2, <1>3, FS_Subset, FS_CardinalityType

\* A message put at the end of a sequence is one more of its kind.
LEMMA AtAppend ==
  ASSUME NEW S, NEW s \in Seq(S), NEW m \in S, NEW x
  PROVE  Cardinality(At(Append(s, m), x)) = Cardinality(At(s, x)) + (IF x = m THEN 1 ELSE 0)
<1>1. /\ Len(s) \in Nat /\ DOMAIN s = 1..Len(s) /\ DOMAIN Append(s, m) = 1..(Len(s) + 1)
      /\ Append(s, m)[Len(s) + 1] = m /\ \A k \in 1..Len(s) : Append(s, m)[k] = s[k]
  OBVIOUS
<1>2. IsFiniteSet(At(s, x)) /\ Cardinality(At(s, x)) \in Nat
  BY AtFinite
<1>3. CASE x = m
  <2>1. At(Append(s, m), x) = At(s, x) \cup {Len(s) + 1} /\ Len(s) + 1 \notin At(s, x)
    BY <1>1, <1>3 DEF At
  <2>2. Cardinality(At(s, x) \cup {Len(s) + 1}) = Cardinality(At(s, x)) + 1
    BY <1>2, <2>1, FS_AddElement
  <2> QED
    BY <1>3, <2>1, <2>2
<1>4. CASE x # m
  <2>1. At(Append(s, m), x) = At(s, x)
    BY <1>1, <1>4 DEF At
  <2> QED
    BY <1>2, <1>4, <2>1
<1> QED
  BY <1>3, <1>4

\* A message taken from the front is one less.
LEMMA AtTail ==
  ASSUME NEW S, NEW s \in Seq(S), s # <<>>, NEW x
  PROVE  Cardinality(At(s, x)) = Cardinality(At(Tail(s), x)) + (IF x = Head(s) THEN 1 ELSE 0)
<1>1. /\ Len(s) \in Nat /\ Len(s) > 0 /\ DOMAIN s = 1..Len(s) /\ DOMAIN Tail(s) = 1..(Len(s) - 1)
      /\ s[1] = Head(s) /\ \A k \in 1..(Len(s) - 1) : Tail(s)[k] = s[k + 1]
      /\ Tail(s) \in Seq(S)
  OBVIOUS
<1> DEFINE A == At(s, x) \ {1}
           B == At(Tail(s), x)
           f == [k \in B |-> k + 1]
<1>2. IsFiniteSet(At(s, x)) /\ Cardinality(At(s, x)) \in Nat /\ IsFiniteSet(B) /\ Cardinality(B) \in Nat
  BY <1>1, AtFinite
<1>3. A \subseteq 2..Len(s) /\ B \subseteq 1..(Len(s) - 1)
  BY <1>1 DEF At
<1>4. \A k \in 1..(Len(s) - 1) : k \in B <=> k + 1 \in A
  BY <1>1 DEF At
<1>5. f \in Bijection(B, A)
  <2>1. f \in Injection(B, A)
    <3>1. f \in [B -> A]
      BY <1>3, <1>4
    <3>2. \A a, b \in B : f[a] = f[b] => a = b
      BY <1>3
    <3> HIDE DEF f
    <3> QED
      BY <3>1, <3>2, Fun_IsInj
  <2>2. \A a \in A : \E b \in B : f[b] = a
    <3> TAKE a \in A
    <3>1. a - 1 \in 1..(Len(s) - 1) /\ (a - 1) + 1 = a
      BY <1>1, <1>3
    <3>2. a - 1 \in B
      BY <1>4, <3>1
    <3>3. f[a - 1] = a
      BY <3>1, <3>2
    <3> QED
      BY <3>2, <3>3
  <2>3. f \in [B -> A]
    BY <1>3, <1>4
  <2> HIDE DEF f, A, B
  <2> QED
    BY <2>1, <2>2, <2>3 DEF Bijection, Surjection
<1>6. Cardinality(A) = Cardinality(B)
  <2>1. ExistsBijection(B, A)
    BY <1>5 DEF ExistsBijection
  <2> QED
    BY <1>2, <2>1, FS_Bijection
<1>7. Cardinality(A) = IF 1 \in At(s, x) THEN Cardinality(At(s, x)) - 1 ELSE Cardinality(At(s, x))
  BY <1>2, FS_RemoveElement
<1>8. 1 \in At(s, x) <=> x = Head(s)
  BY <1>1 DEF At
<1> QED
  BY <1>2, <1>6, <1>7, <1>8

\* Messages in the channel and clients at work are finitely many.
LEMMA CountsType ==
  ASSUME TypeOK, NEW m
  PROVE  /\ IsFiniteSet(Waiting(m)) /\ Cardinality(Waiting(m)) \in Nat
         /\ IsFiniteSet(Doing(m)) /\ Cardinality(Doing(m)) \in Nat
         /\ Waiting(m) = At(channel, m)
         /\ Cardinality(Waiting(m)) = 0 <=> Waiting(m) = {}
         /\ Cardinality(Doing(m)) = 0 <=> Doing(m) = {}
<1>1. Waiting(m) = At(channel, m) /\ channel \in Seq(Item \cup {Stopper})
  BY DEF Waiting, At, TypeOK
<1>2. IsFiniteSet(Waiting(m))
  BY <1>1, AtFinite
<1>3. IsFiniteSet(Doing(m))
  <2>1. Doing(m) \subseteq Active
    BY DEF Doing
  <2> QED
    BY <2>1, TestType, FS_Subset
<1> QED
  BY <1>1, <1>2, <1>3, FS_CardinalityType, FS_EmptySet

\* A push adds one message of its kind.
LEMMA PushCounts ==
  ASSUME TypeOK, NEW m \in Item \cup {Stopper}, Push(m), UNCHANGED <<test, client>>, NEW x
  PROVE  /\ Cardinality(Waiting(x))' = Cardinality(Waiting(x)) + (IF x = m THEN 1 ELSE 0)
         /\ Doing(x)' = Doing(x)
<1>1. channel' = Append(channel, m) /\ channel \in Seq(Item \cup {Stopper})
  BY PushType DEF TypeOK
<1>2. Waiting(x)' = At(Append(channel, m), x) /\ Waiting(x) = At(channel, x)
  BY <1>1 DEF Waiting, At
<1>3. Doing(x)' = Doing(x)
  BY DEF Doing, Active
<1> QED
  BY <1>1, <1>2, <1>3, AtAppend

\* A client takes one message from the channel.
LEMMA TakeCounts ==
  ASSUME TypeOK, NEW c \in Active, TakeWork(c), NEW x \in Item \cup {Stopper}
  PROVE  /\ Cardinality(Waiting(x)) = Cardinality(Waiting(x))' + (IF x = Head(channel) THEN 1 ELSE 0)
         /\ Cardinality(Doing(x))' = Cardinality(Doing(x)) + (IF x = Head(channel) THEN 1 ELSE 0)
         /\ Cardinality(Waiting(x))' \in Nat
<1>1. /\ c \in Client /\ channel # <<>> /\ channel \in Seq(Item \cup {Stopper}) /\ channel' = Tail(channel)
      /\ client[c] = Idle /\ client' = [client EXCEPT ![c] = Head(channel)]
      /\ client \in [Client -> Item \cup {Idle, Stopper}] /\ Active' = Active
  BY TestType DEF TakeWork, TypeOK, Active, config
<1>2. Waiting(x)' = At(Tail(channel), x) /\ Waiting(x) = At(channel, x)
  BY <1>1 DEF Waiting, At
<1>3. Cardinality(Waiting(x)) = Cardinality(Waiting(x))' + (IF x = Head(channel) THEN 1 ELSE 0)
  BY <1>1, <1>2, AtTail
<1>4. c \notin Doing(x)
  BY <1>1, QueueType DEF Doing, Item, Idle, Stopper
<1>5. Doing(x)' = IF x = Head(channel) THEN Doing(x) \cup {c} ELSE Doing(x)
  BY <1>1, <1>4, TestType DEF Doing
<1>6. Cardinality(Doing(x) \cup {c}) = Cardinality(Doing(x)) + 1
  BY <1>4, CountsType, FS_AddElement
<1>7. Cardinality(Doing(x))' = Cardinality(Doing(x)) + (IF x = Head(channel) THEN 1 ELSE 0)
  BY <1>5, <1>6, CountsType
<1>8. Cardinality(Waiting(x))' \in Nat
  <2>1. Tail(channel) \in Seq(Item \cup {Stopper})
    BY <1>1
  <2> QED
    BY <1>2, <2>1, AtFinite
<1> QED
  BY <1>3, <1>7, <1>8

\* A client that is done with an item leaves it.
LEMMA DoCounts ==
  ASSUME TypeOK, NEW c \in Active, Do(c), NEW x \in Item \cup {Stopper}
  PROVE  /\ Waiting(x)' = Waiting(x)
         /\ Cardinality(Doing(x)) = Cardinality(Doing(x))' + (IF x = client[c] THEN 1 ELSE 0)
         /\ Cardinality(Doing(x))' \in Nat
<1>1. /\ c \in Client /\ client[c] \in Item /\ client' = [client EXCEPT ![c] = Idle]
      /\ client \in [Client -> Item \cup {Idle, Stopper}] /\ Active' = Active /\ channel' = channel
  BY TestType DEF Do, TypeOK, Active, config
<1>2. Idle # x
  BY QueueType DEF Item, Idle, Stopper
<1>3. Doing(x)' = IF x = client[c] THEN Doing(x) \ {c} ELSE Doing(x)
  BY <1>1, <1>2, TestType DEF Doing
<1>4. x = client[c] => c \in Doing(x)
  BY DEF Doing
<1>5. x = client[c] => Cardinality(Doing(x) \ {c}) = Cardinality(Doing(x)) - 1
  BY <1>4, CountsType, FS_RemoveElement
<1>6. Cardinality(Doing(x)) = Cardinality(Doing(x))' + (IF x = client[c] THEN 1 ELSE 0)
  BY <1>3, <1>5, CountsType
<1>7. Cardinality(Doing(x))' \in Nat
  <2>1. Doing(x)' \subseteq Doing(x)
    BY <1>3
  <2> QED
    BY <2>1, CountsType, FS_Subset, FS_CardinalityType
<1> QED
  BY <1>1, <1>6, <1>7 DEF Waiting

\* An item that a client takes or finishes stays one that was pushed.
LEMMA ClientTotal ==
  ASSUME TypeOK, test.stop # "runtime", NEW c \in Active, TakeWork(c) \/ Do(c), NEW i \in Item
  PROVE  Total(i)' = Total(i)
<1>0. /\ count \in [Item -> Nat] /\ Cardinality(Waiting(i)) \in Nat /\ Cardinality(Doing(i)) \in Nat
  BY CountsType DEF TypeOK
<1>1. CASE TakeWork(c)
  <2>2. Cardinality(Waiting(i))' \in Nat
    BY <1>1, TakeCounts
  <2>3. count' = count
    BY <1>1 DEF TakeWork
  <2> QED
    BY <1>0, <1>1, <2>2, <2>3, TakeCounts DEF Total
<1>2. CASE Do(c)
  <2>2. Cardinality(Doing(i))' \in Nat
    BY <1>2, DoCounts
  <2>3. client[c] \in Item /\ count' = [count EXCEPT ![client[c]] = @ + 1]
    BY <1>2 DEF Do
  <2>4. count'[i] = count[i] + (IF i = client[c] THEN 1 ELSE 0)
    BY <1>0, <2>3
  <2>5. Cardinality(Waiting(i))' = Cardinality(Waiting(i))
    BY <1>2, DoCounts
  <2> QED
    BY <1>0, <1>2, <2>2, <2>4, <2>5, DoCounts DEF Total
<1> QED
  BY <1>1, <1>2

(***************************************************************************)
(* Stoppers: behind the items, one for every client.                       *)
(***************************************************************************)

\* What a channel looks like after a push and a take.
LEMMA ChannelType ==
  ASSUME TypeOK
  PROVE  /\ channel \in Seq(Item \cup {Stopper}) /\ Len(channel) \in Nat
         /\ DOMAIN channel = 1..Len(channel)
         /\ \A k \in DOMAIN channel : channel[k] \in Item \cup {Stopper}
  BY DEF TypeOK

LEMMA Pushed ==
  ASSUME TypeOK, NEW m \in Item \cup {Stopper}, Push(m)
  PROVE  /\ DOMAIN channel' = DOMAIN channel \cup {Len(channel) + 1}
         /\ channel'[Len(channel) + 1] = m
         /\ \A k \in DOMAIN channel : channel'[k] = channel[k] /\ k < Len(channel) + 1
<1>1. channel' = Append(channel, m)
  BY PushType
<1> QED
  BY <1>1, ChannelType

LEMMA Taken ==
  ASSUME TypeOK, NEW c \in Active, TakeWork(c)
  PROVE  /\ 1 \in DOMAIN channel /\ channel[1] = Head(channel) /\ Head(channel) \in Item \cup {Stopper}
         /\ \A k \in DOMAIN channel' : /\ k \in Nat /\ k >= 1
                                       /\ k + 1 \in DOMAIN channel /\ channel'[k] = channel[k + 1]
<1>1. channel' = Tail(channel) /\ channel # <<>>
  BY DEF TakeWork
<1>2. /\ Len(channel) > 0 /\ DOMAIN Tail(channel) = 1..(Len(channel) - 1)
      /\ \A k \in 1..(Len(channel) - 1) : Tail(channel)[k] = channel[k + 1]
  BY <1>1, ChannelType
<1> QED
  BY <1>1, <1>2, ChannelType

\* A step that leaves channel and clients alone, and does not let the producer
\* in or out of the loop over the stoppers.
LEMMA StopperFrame ==
  ASSUME StopperInv, UNCHANGED <<test, channel, client>>,
         \/ Feeding /\ Feeding'
         \/ ~Feeding /\ pc # "stop" /\ ~Feeding' /\ pc' # "stop"
  PROVE  StopperInv'
<1>1. \A m : Waiting(m)' = Waiting(m) /\ Doing(m)' = Doing(m) /\ Active' = Active
  BY DEF Waiting, Doing, Active
<1>2. Feeding => pc # "stop"
  BY DEF Feeding
<1> QED
  BY <1>1, <1>2 DEF StopperInv

\* Feeding pushes items only, and leaves the loop with as many stoppers to push
\* as there are clients.
LEMMA FeedStoppers ==
  ASSUME TypeOK, StopperInv, test.stop # "runtime", Feeding, UNCHANGED <<test, client>>,
         \/ channel' = channel
         \/ \E i \in Item : Push(i),
         \/ Feeding'
         \/ pc' = "stop" /\ left' = Cardinality(Active)
         \/ pc' = "wait" /\ Active = {}
  PROVE  StopperInv'
<1>1. Waiting(Stopper) = {} /\ Doing(Stopper) = {} /\ Active' = Active /\ Doing(Stopper)' = Doing(Stopper)
  BY DEF StopperInv, Doing, Active
<1>2. \A k \in DOMAIN channel' : channel'[k] # Stopper
  <2>1. \A k \in DOMAIN channel : channel[k] # Stopper
    BY <1>1 DEF Waiting
  <2>2. ASSUME NEW i \in Item, Push(i) PROVE \A k \in DOMAIN channel' : channel'[k] # Stopper
    BY <2>1, <2>2, Pushed DEF Item, Stopper
  <2> QED
    BY <2>1, <2>2
<1>3. Waiting(Stopper)' = {} /\ Doing(Stopper)' = {}
  BY <1>1, <1>2 DEF Waiting
<1>4. Cardinality(Waiting(Stopper))' = 0 /\ Cardinality(Doing(Stopper))' = 0
  BY <1>3, FS_EmptySet
<1>5. Cardinality(Active) \in Nat /\ (Active = {} => Cardinality(Active) = 0)
  BY TestType
<1> QED
  BY <1>1, <1>2, <1>3, <1>4, <1>5 DEF StopperInv, Feeding

\* A stopper goes behind everything that is in the channel.
LEMMA PushStoppers == TypeOK /\ ControlInv /\ StopperInv /\ PushStopper => StopperInv'
<1> SUFFICES ASSUME TypeOK, ControlInv, StopperInv, PushStopper PROVE StopperInv'
  OBVIOUS
<1>1. /\ pc = "stop" /\ test.stop # "runtime" /\ Push(Stopper) /\ UNCHANGED <<test, client>>
      /\ left' = left - 1 /\ pc' = (IF left = 1 THEN "wait" ELSE "stop") /\ left \in Nat
  BY DEF PushStopper, ControlInv, config, TypeOK
<1>2. /\ Cardinality(Waiting(Stopper))' = Cardinality(Waiting(Stopper)) + 1
      /\ Doing(Stopper)' = Doing(Stopper) /\ Active' = Active
  BY <1>1, PushCounts DEF Active
<1>3. Cardinality(Waiting(Stopper)) + Cardinality(Doing(Stopper)) = Cardinality(Active) - left
  BY <1>1 DEF StopperInv, Feeding
<1>4. /\ Cardinality(Waiting(Stopper)) \in Nat /\ Cardinality(Doing(Stopper)) \in Nat
      /\ Cardinality(Active) \in Nat
  BY TestType, CountsType
<1>5. \A k, l \in DOMAIN channel' : k < l /\ channel'[k] = Stopper => channel'[l] = Stopper
  BY <1>1, Pushed, ChannelType DEF StopperInv
<1>6. Doing(Stopper)' # {} => \A k \in DOMAIN channel' : channel'[k] = Stopper
  BY <1>1, <1>2, Pushed DEF StopperInv
<1>7. ~Feeding'
  BY <1>1 DEF Feeding
<1>8. Cardinality(Waiting(Stopper))' + Cardinality(Doing(Stopper))' =
        IF pc' = "stop" THEN Cardinality(Active') - left' ELSE Cardinality(Active')
  BY <1>1, <1>2, <1>3, <1>4
<1> QED
  BY <1>5, <1>6, <1>7, <1>8 DEF StopperInv

\* A client takes what is in front: no item is behind the stopper it takes.
LEMMA TakeStoppers ==
  ASSUME TypeOK, StopperInv, test.stop # "runtime", NEW c \in Active, TakeWork(c)
  PROVE  StopperInv'
<1>1. UNCHANGED <<test, pc, left>> /\ Active' = Active /\ Feeding' = Feeding
  BY DEF TakeWork, config, Active, Feeding
<1>2. /\ 1 \in DOMAIN channel /\ channel[1] = Head(channel)
      /\ \A k \in DOMAIN channel' : /\ k \in Nat /\ k >= 1
                                    /\ k + 1 \in DOMAIN channel /\ channel'[k] = channel[k + 1]
  BY Taken
<1>3. /\ Cardinality(Waiting(Stopper)) = Cardinality(Waiting(Stopper))' + (IF Stopper = Head(channel) THEN 1 ELSE 0)
      /\ Cardinality(Doing(Stopper))' = Cardinality(Doing(Stopper)) + (IF Stopper = Head(channel) THEN 1 ELSE 0)
      /\ Cardinality(Waiting(Stopper))' \in Nat
      /\ Cardinality(Doing(Stopper)) \in Nat
  BY TakeCounts, CountsType
<1>4. \A k, l \in DOMAIN channel' : k < l /\ channel'[k] = Stopper => channel'[l] = Stopper
  <2> SUFFICES ASSUME NEW k \in DOMAIN channel', NEW l \in DOMAIN channel', k < l, channel'[k] = Stopper
               PROVE  channel'[l] = Stopper
    OBVIOUS
  <2>1. k + 1 \in DOMAIN channel /\ l + 1 \in DOMAIN channel /\ k + 1 < l + 1 /\ channel[k + 1] = Stopper
    BY <1>2
  <2>2. channel[l + 1] = Stopper
    BY <2>1 DEF StopperInv
  <2> QED
    BY <1>2, <2>2
<1>5. Head(channel) = Stopper => \A k \in DOMAIN channel' : channel'[k] = Stopper
  BY <1>2 DEF StopperInv
<1>6. Head(channel) # Stopper => Doing(Stopper)' = Doing(Stopper)
  BY <1>1, TestType DEF TakeWork, Doing, TypeOK, Idle, Stopper
<1>7. Doing(Stopper)' # {} => \A k \in DOMAIN channel' : channel'[k] = Stopper
  BY <1>2, <1>5, <1>6 DEF StopperInv
<1>8. Feeding => Waiting(Stopper)' = {} /\ Doing(Stopper)' = {}
  <2>1. Feeding => \A k \in DOMAIN channel : channel[k] # Stopper
    BY DEF StopperInv, Waiting
  <2> QED
    BY <1>2, <1>6, <2>1 DEF StopperInv, Waiting
<1>9. Cardinality(Waiting(Stopper))' + Cardinality(Doing(Stopper))' =
        Cardinality(Waiting(Stopper)) + Cardinality(Doing(Stopper))
  BY <1>3
<1> QED
  BY <1>1, <1>4, <1>7, <1>8, <1>9 DEF StopperInv

\* Stoppers stay behind the items, one for every client.
LEMMA StepStoppers == TypeOK /\ ControlInv /\ StopperInv /\ [Next]_vars => StopperInv'
<1> SUFFICES ASSUME TypeOK, ControlInv, StopperInv, [Next]_vars, test.stop # "runtime" PROVE StopperInv'
  BY SameTest DEF StopperInv
<1> USE DEF config
<1>0. idx \in Item
  BY DEF TypeOK
<1>1. CASE UNCHANGED vars
  BY <1>1 DEF vars, StopperInv, Feeding, Waiting, Doing, Active
<1>2. CASE Prepare \/ ReprepareHead \/ RepreparePut
  <2>1. Feeding /\ Feeding' /\ UNCHANGED <<test, channel, client>>
    BY <1>0, <1>2, LoopStep DEF Prepare, ReprepareHead, RepreparePut, Feeding
  <2> QED
    BY <2>1, StopperFrame
<1>3. CASE AllStopped \/ Clean \/ DeleteBucket
  <2>1. ~Feeding /\ pc # "stop" /\ ~Feeding' /\ pc' # "stop" /\ UNCHANGED <<test, channel, client>>
    BY <1>0, <1>3, LoopStep DEF AllStopped, Clean, DeleteBucket, Feeding
  <2> QED
    BY <2>1, StopperFrame
<1>4. CASE FeedOps \/ OpsReached \/ FeedOnce
  <2>1. Feeding /\ UNCHANGED <<test, client>> /\ (channel' = channel \/ Push(idx))
    BY <1>4 DEF FeedOps, OpsReached, FeedOnce, Feeding
  <2>2. \/ Feeding'
        \/ pc' = "stop" /\ left' = Cardinality(Active)
        \/ pc' = "wait" /\ Active = {}
    BY <1>0, <1>4, LoopStep DEF FeedOps, OpsReached, FeedOnce, Feeding, AfterItems
  <2> QED
    BY <1>0, <2>1, <2>2, FeedStoppers
<1>5. CASE PushStopper
  BY <1>5, PushStoppers
<1>6. ~FeedRuntime /\ ~TimeUp /\ ~Timer
  BY DEF FeedRuntime, TimeUp, Timer
<1>7. ASSUME NEW c \in Active, TakeWork(c) PROVE StopperInv'
  BY <1>7, TakeStoppers
<1>8. \A c \in Active : ~Notified(c)
  BY DEF Notified, ControlInv
<1>9. ASSUME NEW c \in Active, Do(c) PROVE StopperInv'
  <2>1. UNCHANGED <<test, pc, left, channel>> /\ Active' = Active /\ client[c] \in Item /\ c \in Client
    BY <1>9, TestType DEF Do, Active
  <2>2. Doing(Stopper)' = Doing(Stopper)
    BY <1>9, <2>1, TestType DEF Do, Doing, TypeOK, Item, Idle, Stopper
  <2>3. Waiting(Stopper)' = Waiting(Stopper) /\ Feeding' = Feeding
    BY <2>1 DEF Waiting, Feeding
  <2> QED
    BY <2>1, <2>2, <2>3 DEF StopperInv
<1> QED
  BY <1>1, <1>2, <1>3, <1>4, <1>5, <1>6, <1>7, <1>8, <1>9 DEF Next, Producer, ClientStep

(***************************************************************************)
(* Items: what was pushed is in the channel, with a client, or done.       *)
(***************************************************************************)

LEMMA TotalType == ASSUME TypeOK, NEW i \in Item PROVE Total(i) \in Nat
<1>1. count[i] \in Nat
  BY DEF TypeOK
<1> QED
  BY <1>1, CountsType DEF Total

\* Nothing moves, or a message other than the item does.
LEMMA TotalFrame ==
  ASSUME TypeOK, UNCHANGED <<test, client, count>>, channel' = channel \/ Push(Stopper), NEW i \in Item
  PROVE  Total(i)' = Total(i)
<1>1. CASE channel' = channel
  BY <1>1 DEF Total, Waiting, Doing, Active
<1>2. CASE Push(Stopper)
  <2>1. i # Stopper
    BY DEF Item, Stopper
  <2>2. Cardinality(Waiting(i))' = Cardinality(Waiting(i)) + 0 /\ Doing(i)' = Doing(i)
    BY <1>2, <2>1, PushCounts
  <2>3. Cardinality(Waiting(i)) \in Nat
    BY CountsType
  <2> QED
    BY <2>2, <2>3 DEF Total
<1> QED
  BY <1>1, <1>2

\* An item is pushed.
LEMMA TotalPush ==
  ASSUME TypeOK, UNCHANGED <<test, client, count>>, NEW m \in Item, Push(m), NEW i \in Item
  PROVE  Total(i)' = Total(i) + (IF i = m THEN 1 ELSE 0)
<1>1. /\ Cardinality(Waiting(i))' = Cardinality(Waiting(i)) + (IF i = m THEN 1 ELSE 0)
      /\ Doing(i)' = Doing(i)
  BY PushCounts
<1>2. count[i] \in Nat /\ Cardinality(Waiting(i)) \in Nat /\ Cardinality(Doing(i)) \in Nat
  BY CountsType DEF TypeOK
<1> QED
  BY <1>1, <1>2 DEF Total

\* A step that pushes no item leaves the rounds where they are.
LEMMA OpsFrame ==
  ASSUME TypeOK, OpsInv, test' = test,
         \A i \in Item : Total(i)' = Total(i),
         test.stop = "ops" => Past' = Past,
         pc' = "feed" /\ test.stop = "ops" => Rest = idx' - 1,
         pc' \in {"prepare", "head", "put"} /\ test.stop = "ops" => Rest = 0
  PROVE  OpsInv'
<1>1. Total(Len(Queue))' = Total(Len(Queue))
  BY QueueType
<1>2. test.stop = "ops" => Rest' = Rest
  BY <1>1 DEF Rest
<1> QED
  BY <1>1, <1>2 DEF OpsInv

LEMMA NextRest ==
  ASSUME NEW p \in Int, NEW x \in Int, NEW k \in Int, NEW n \in Int, p - x = k - 1
  PROVE  (p + 1) - x = k /\ (k = n => (p + 1) - (x + n) = 0)
  OBVIOUS

\* An operation is pushed: the round goes on, or the next one begins.
LEMMA OpsFeed == TypeOK /\ OpsInv /\ FeedOps => OpsInv'
<1> SUFFICES ASSUME TypeOK, OpsInv, FeedOps PROVE OpsInv'
  OBVIOUS
<1> DEFINE n == Len(Queue)
           q == Total(n)
<1>1. /\ pc = "feed" /\ test.stop = "ops" /\ test' = test /\ left \in Nat /\ left > 0 /\ left' = left - 1
      /\ test.ops \in Nat /\ idx \in Item /\ n \in Nat /\ n >= 1 /\ n \in Item /\ q \in Nat /\ idx \in 1..n
      /\ Push(idx) /\ UNCHANGED <<client, count>>
  BY TestType, QueueType, TotalType DEF FeedOps, config, TypeOK, Item
<1>2. /\ Past = test.ops - left /\ Rest = Past - q * n /\ Rest = idx - 1
      /\ \A i \in Item : Total(i) = q + (IF i <= Rest THEN 1 ELSE 0)
  BY <1>1 DEF OpsInv, Past, Rest, Feeding
<1>3. \A i \in Item : Total(i)' = Total(i) + (IF i = idx THEN 1 ELSE 0)
  BY <1>1, TotalPush
<1>4. q * n \in Nat /\ (q + 1) * n = q * n + n
  BY <1>1
<1>5. \/ idx < n /\ pc' = "feed" /\ idx' = idx + 1
      \/ idx = n /\ pc' = "head" /\ idx' = 1
  BY <1>1, LoopStep DEF FeedOps
<1>6. Past' = Past + 1 /\ Past \in Int
  BY <1>1, <1>2, <1>5 DEF Past, Feeding
<1>7. \A i \in Item : i \in Nat /\ i >= 1 /\ i <= n
  BY <1>1 DEF Item
<1>10. PICK x \in Int : /\ x = q * n /\ Past - x = idx - 1 /\ Past' = Past + 1
                        /\ Past \in Int /\ idx \in Int /\ n \in Int
  <2>1. idx \in Int /\ n \in Int
    BY <1>1, <1>7
  <2>2. q * n \in Int
    BY <1>4
  <2>3. Past - q * n = idx - 1
    BY <1>2
  <2> HIDE DEF q, n
  <2> QED
    BY <1>6, <2>1, <2>2, <2>3
<1>8. CASE idx < n
  <2>1. Total(n)' = q
    BY <1>1, <1>3, <1>8
  <2>2. Rest' = idx
    <3>1. Rest' = Past' - x
      BY <1>10, <2>1 DEF Rest
    <3> QED
      BY <1>10, <3>1, NextRest
  <2>3. \A i \in Item : Total(i)' = q + (IF i <= idx THEN 1 ELSE 0)
    BY <1>1, <1>2, <1>3, <1>7
  <2> QED
    BY <1>1, <1>5, <1>8, <2>1, <2>2, <2>3 DEF OpsInv
<1>9. CASE idx = n
  <2>1. Total(n)' = q + 1
    BY <1>1, <1>3, <1>9
  <2>2. Rest' = 0
    <3>1. Rest' = Past' - (x + n)
      BY <1>4, <1>10, <2>1 DEF Rest
    <3> QED
      BY <1>9, <1>10, <3>1, NextRest
  <2>3. \A i \in Item : Total(i)' = q + 1 /\ ~(i <= 0)
    <3> TAKE i \in Item
    <3>1. Total(i) = q + (IF i <= n - 1 THEN 1 ELSE 0) /\ i \in Nat /\ i >= 1 /\ i <= n
      BY <1>2, <1>7, <1>9
    <3>2. Total(i)' = Total(i) + (IF i = n THEN 1 ELSE 0)
      BY <1>3, <1>9
    <3> HIDE DEF q, n
    <3> QED
      BY <1>1, <3>1, <3>2
  <2> QED
    BY <1>1, <1>5, <1>9, <2>1, <2>2, <2>3 DEF OpsInv
<1> QED
  BY <1>5, <1>8, <1>9

\* Who touches the channel, the clients and the counts: producers that push,
\* and clients; the others leave them alone.
LEMMA StepItems ==
  ASSUME TypeOK, ControlInv, [Next]_vars, test.stop # "runtime"
  PROVE  \/ FeedOps
         \/ FeedOnce
         \/ UNCHANGED <<test, pc, idx, left>> /\ \E c \in Active : TakeWork(c) \/ Do(c)
         \/ PushStopper /\ UNCHANGED <<test, client, count>> /\ Push(Stopper)
         \/ /\ UNCHANGED vars \/ OpsReached \/ Prepare \/ ReprepareHead \/ RepreparePut
               \/ AllStopped \/ Clean \/ DeleteBucket
            /\ UNCHANGED <<test, client, count, channel>>
<1> USE DEF config
<1>1. UNCHANGED vars => UNCHANGED <<test, client, count, channel>>
  BY DEF vars
<1>2. OpsReached \/ Prepare \/ ReprepareHead \/ RepreparePut \/ AllStopped \/ Clean \/ DeleteBucket
        => UNCHANGED <<test, client, count, channel>>
  BY DEF OpsReached, Prepare, ReprepareHead, RepreparePut, AllStopped, Clean, DeleteBucket
<1>3. PushStopper => UNCHANGED <<test, client, count>> /\ Push(Stopper)
  BY DEF PushStopper
<1>4. ~FeedRuntime /\ ~TimeUp /\ ~Timer
  BY DEF FeedRuntime, TimeUp, Timer
<1>5. \A c \in Active : ~Notified(c)
  BY DEF Notified, ControlInv
<1>6. \A c \in Active : TakeWork(c) \/ Do(c) => UNCHANGED <<test, pc, idx, left>>
  BY DEF TakeWork, Do
<1> QED
  BY <1>1, <1>2, <1>3, <1>4, <1>5, <1>6 DEF Next, Producer, ClientStep

\* The operations go round the queue.
LEMMA StepOps == TypeOK /\ ControlInv /\ OpsInv /\ [Next]_vars => OpsInv'
<1> SUFFICES ASSUME TypeOK, ControlInv, OpsInv, [Next]_vars, test.stop = "ops" PROVE OpsInv'
  BY SameTest DEF OpsInv
<1> USE DEF config
<1>0. idx \in Item /\ test' = test
  BY SameTest DEF TypeOK
<1>1. CASE FeedOps
  BY <1>1, OpsFeed
<1>2. CASE UNCHANGED <<test, pc, idx, left>> /\ \E c \in Active : TakeWork(c) \/ Do(c)
  <2>1. \A i \in Item : Total(i)' = Total(i)
    BY <1>2, ClientTotal
  <2>2. Past' = Past
    BY <1>2 DEF Past, Feeding
  <2> QED
    BY <1>0, <1>2, <2>1, <2>2, OpsFrame DEF OpsInv
<1>3. CASE PushStopper /\ UNCHANGED <<test, client, count>> /\ Push(Stopper)
  <2>1. \A i \in Item : Total(i)' = Total(i)
    BY <1>3, TotalFrame
  <2>2. Past' = Past /\ pc' \in {"stop", "wait"}
    BY <1>0, <1>3 DEF PushStopper, Past, Feeding
  <2> QED
    BY <1>0, <2>1, <2>2, OpsFrame
<1>4. CASE /\ UNCHANGED vars \/ OpsReached \/ Prepare \/ ReprepareHead \/ RepreparePut
              \/ AllStopped \/ Clean \/ DeleteBucket
           /\ UNCHANGED <<test, client, count, channel>>
  <2>1. \A i \in Item : Total(i)' = Total(i)
    BY <1>4, TotalFrame
  <2>2. CASE UNCHANGED vars
    <3>1. Past' = Past /\ pc' = pc /\ idx' = idx
      BY <2>2 DEF vars, Past, Feeding
    <3> QED
      BY <1>0, <2>1, <3>1, OpsFrame DEF OpsInv
  <2>3. CASE OpsReached
    <3>1. left = 0 /\ pc = "feed" /\ pc' \in {"stop", "wait"}
      BY <2>3 DEF OpsReached, AfterItems
    <3>2. Past' = Past
      BY <1>0, <3>1, TestType DEF Past, Feeding
    <3> QED
      BY <1>0, <2>1, <3>1, <3>2, OpsFrame
  <2>4. CASE Prepare \/ ReprepareHead \/ RepreparePut
    <3>1. /\ pc \in {"prepare", "head", "put"} /\ pc' \in {"prepare", "head", "put", "feed"}
          /\ left' = left /\ (pc' = "feed" => idx' = 1)
      BY <1>0, <2>4, LoopStep DEF Prepare, ReprepareHead, RepreparePut
    <3>2. Past' = Past /\ Rest = 0
      BY <1>0, <3>1 DEF Past, Feeding, OpsInv
    <3> QED
      BY <1>0, <2>1, <3>1, <3>2, OpsFrame
  <2>5. CASE AllStopped \/ Clean \/ DeleteBucket
    <3>1. ~Feeding /\ ~Feeding' /\ pc' \in {"clean", "bucket", "done"}
      BY <1>0, <2>5, LoopStep DEF AllStopped, Clean, DeleteBucket, Feeding
    <3>2. Past' = Past
      BY <1>0, <3>1 DEF Past
    <3> QED
      BY <1>0, <2>1, <3>1, <3>2, OpsFrame
  <2> QED
    BY <1>4, <2>2, <2>3, <2>4, <2>5
<1>5. ~FeedOnce
  BY DEF FeedOnce
<1> QED
  BY <1>1, <1>2, <1>3, <1>4, <1>5, StepItems

\* One shot pushes every item once.
LEMMA StepOneShot == TypeOK /\ ControlInv /\ OneShotInv /\ [Next]_vars => OneShotInv'
<1> SUFFICES ASSUME TypeOK, ControlInv, OneShotInv, [Next]_vars, test.stop = "oneshot" PROVE OneShotInv'
  BY SameTest DEF OneShotInv
<1> USE DEF config
<1>0. idx \in Item /\ test' = test /\ pc \notin {"head", "put"}
  BY SameTest DEF TypeOK, ControlInv
<1>1. \A i \in Item : i \in Nat /\ 1 <= i /\ i <= Len(Queue)
  BY QueueType DEF Item
<1>2. CASE FeedOnce
  <2>1. pc = "feed" /\ Push(idx) /\ UNCHANGED <<test, client, count>>
    BY <1>2 DEF FeedOnce
  <2>2. \A i \in Item : Total(i)' = Total(i) + (IF i = idx THEN 1 ELSE 0)
    BY <1>0, <2>1, TotalPush
  <2>3. \/ idx < Len(Queue) /\ pc' = "feed" /\ idx' = idx + 1
        \/ idx = Len(Queue) /\ pc' \in {"stop", "wait"}
    BY <1>0, <1>2, LoopStep DEF FeedOnce, AfterItems
  <2>4. \A i \in Item : Total(i) = IF i >= idx THEN 0 ELSE 1
    BY <2>1 DEF OneShotInv
  <2>5. \A i \in Item : Total(i)' = IF i > idx THEN 0 ELSE 1
    BY <1>0, <1>1, <2>2, <2>4
  <2>6. \A i \in Item : i > idx <=> i >= idx + 1
    BY <1>0, <1>1
  <2> QED
    BY <1>0, <1>1, <2>3, <2>5, <2>6 DEF OneShotInv
<1>3. CASE UNCHANGED <<test, pc, idx, left>> /\ \E c \in Active : TakeWork(c) \/ Do(c)
  <2>1. \A i \in Item : Total(i)' = Total(i)
    BY <1>3, ClientTotal
  <2> QED
    BY <1>3, <2>1 DEF OneShotInv
<1>4. CASE PushStopper /\ UNCHANGED <<test, client, count>> /\ Push(Stopper)
  <2>1. \A i \in Item : Total(i)' = Total(i)
    BY <1>4, TotalFrame
  <2>2. pc = "stop" /\ pc' \in {"stop", "wait"}
    BY <1>4 DEF PushStopper
  <2> QED
    BY <1>0, <2>1, <2>2 DEF OneShotInv
<1>5. CASE /\ UNCHANGED vars \/ OpsReached \/ Prepare \/ ReprepareHead \/ RepreparePut
              \/ AllStopped \/ Clean \/ DeleteBucket
           /\ UNCHANGED <<test, client, count, channel>>
  <2>1. \A i \in Item : Total(i)' = Total(i)
    BY <1>5, TotalFrame
  <2>2. CASE UNCHANGED vars
    BY <2>1, <2>2 DEF vars, OneShotInv
  <2>3. CASE Prepare
    <3>1. pc = "prepare" /\ (pc' = "prepare" \/ (pc' = "feed" /\ idx' = 1))
      BY <1>0, <2>3, LoopStep DEF Prepare
    <3> QED
      BY <1>0, <1>1, <2>1, <3>1 DEF OneShotInv
  <2>4. CASE AllStopped \/ Clean \/ DeleteBucket
    <3>1. pc \notin {"prepare", "feed"} /\ pc' \notin {"prepare", "feed"}
      BY <1>0, <2>4, LoopStep DEF AllStopped, Clean, DeleteBucket
    <3> QED
      BY <1>0, <2>1, <3>1 DEF OneShotInv
  <2>5. ~OpsReached /\ ~ReprepareHead /\ ~RepreparePut
    BY <1>0 DEF OpsReached, ReprepareHead, RepreparePut
  <2> QED
    BY <1>5, <2>2, <2>3, <2>4, <2>5
<1>6. ~FeedOps
  BY DEF FeedOps
<1> QED
  BY <1>2, <1>3, <1>4, <1>5, <1>6, StepItems

\* Without clients nothing is done, and nothing leaves the channel.
LEMMA StepClientless == TypeOK /\ ControlInv /\ ClientlessInv /\ [Next]_vars => ClientlessInv'
<1> SUFFICES ASSUME TypeOK, ControlInv, ClientlessInv, [Next]_vars, Active = {} PROVE ClientlessInv'
  BY SameTest DEF ClientlessInv, Active
<1> USE DEF config
<1>0. /\ idx \in Item /\ test' = test /\ Len(channel) \in Nat /\ left \in Nat /\ test.ops \in Nat
      /\ test.stop \in {"runtime", "ops", "oneshot"}
  BY SameTest, TestType, ChannelType DEF TypeOK
<1>1. count' = count
  BY DEF Next, vars, Producer, Prepare, FeedRuntime, FeedOps, OpsReached, FeedOnce, PushStopper,
         ReprepareHead, RepreparePut, AllStopped, Clean, DeleteBucket, TimeUp, Timer
<1>2. CASE test.stop # "ops"
  BY <1>0, <1>1, <1>2 DEF ClientlessInv
<1>3. CASE test.stop = "ops"
  <2>1. CASE FeedOps
    <3>1. /\ pc = "feed" /\ left' = left - 1 /\ Push(idx) /\ pc' \in {"feed", "head"}
      BY <1>0, <2>1, LoopStep DEF FeedOps
    <3>2. Len(channel') = Len(channel) + 1 /\ Feeding /\ Feeding'
      BY <1>0, <3>1, PushType DEF Feeding
    <3> QED
      BY <1>0, <1>1, <1>3, <3>1, <3>2 DEF ClientlessInv
  <2>2. CASE OpsReached
    <3>1. pc = "feed" /\ left = 0 /\ pc' = "wait"
      BY <2>2 DEF OpsReached, AfterItems
    <3>2. test.ops <= Len(Queue) /\ ~Feeding'
      BY <1>0, <1>3, <3>1 DEF ClientlessInv, Feeding, TypeOK
    <3> QED
      BY <1>0, <1>1, <3>2 DEF ClientlessInv
  <2>3. CASE Prepare \/ ReprepareHead \/ RepreparePut
    <3>1. Feeding /\ Feeding' /\ left' = left /\ channel' = channel
      BY <1>0, <2>3, LoopStep DEF Prepare, ReprepareHead, RepreparePut, Feeding
    <3> QED
      BY <1>0, <1>1, <3>1 DEF ClientlessInv
  <2>4. CASE AllStopped \/ Clean \/ DeleteBucket
    <3>1. ~Feeding /\ ~Feeding'
      BY <1>0, <2>4, LoopStep DEF AllStopped, Clean, DeleteBucket, Feeding
    <3> QED
      BY <1>0, <1>1, <3>1 DEF ClientlessInv
  <2>5. CASE UNCHANGED vars
    BY <2>5 DEF vars, ClientlessInv, Feeding, Active
  <2>6. ~PushStopper /\ ~FeedOnce
    <3>1. ~FeedOnce
      BY <1>3 DEF FeedOnce
    <3>2. pc # "stop"
      <4>1. Cardinality(Active) = 0
        BY FS_EmptySet
      <4> QED
        BY <1>0, <4>1 DEF ControlInv
    <3> QED
      BY <3>1, <3>2 DEF PushStopper
  <2>7. ~\E c \in Active : TakeWork(c) \/ Do(c)
    OBVIOUS
  <2> QED
    BY <1>3, <2>1, <2>2, <2>3, <2>4, <2>5, <2>6, <2>7, StepItems
<1> QED
  BY <1>2, <1>3

\* Before anything is pushed there is nothing of anything.
LEMMA InitQuota == Init => QuotaInv
<1> SUFFICES ASSUME Init PROVE QuotaInv
  OBVIOUS
<1>1. TypeOK /\ ControlInv
  BY InitControl
<1>2. /\ channel = <<>> /\ DOMAIN channel = {} /\ Len(channel) = 0 /\ client = [c \in Client |-> Idle]
      /\ count = [i \in Item |-> 0] /\ pc \in {"prepare", "feed"} /\ idx = 1 /\ left = test.ops
  BY DEF Init
<1>3. \A m \in Item \cup {Stopper} : Waiting(m) = {} /\ Doing(m) = {}
  BY <1>1, <1>2, TestType DEF Waiting, Doing, Item, Stopper, Idle
<1>4. \A m \in Item \cup {Stopper} : Cardinality(Waiting(m)) = 0 /\ Cardinality(Doing(m)) = 0
  BY <1>3, FS_EmptySet
<1>5. StopperInv
  BY <1>2, <1>3, <1>4 DEF StopperInv, Feeding
<1>6. \A i \in Item : Total(i) = 0
  BY <1>2, <1>4 DEF Total
<1>7. test.ops \in Nat /\ 0 * Len(Queue) = 0 /\ Len(Queue) \in Item /\ \A i \in Item : i >= 1 /\ i \in Nat
  BY <1>1, TestType, QueueType DEF Item
<1>8. Rest = 0
  <2>1. Past = 0
    BY <1>2, <1>7 DEF Past, Feeding
  <2>2. Total(Len(Queue)) = 0
    BY <1>6, <1>7
  <2> QED
    BY <1>7, <2>1, <2>2 DEF Rest
<1>9. OpsInv
  BY <1>2, <1>6, <1>7, <1>8, QueueType DEF OpsInv
<1>10. OneShotInv
  BY <1>2, <1>6, <1>7 DEF OneShotInv
<1>11. ClientlessInv
  BY <1>2, <1>7 DEF ClientlessInv, Feeding
<1> QED
  BY <1>1, <1>5, <1>9, <1>10, <1>11 DEF QuotaInv, ItemsInv

\* Producer, channel, clients and counts agree in every reachable state.
THEOREM QuotaInvariant == Spec => [](TypeOK /\ QuotaInv)
<1>1. Init => TypeOK /\ QuotaInv
  BY InitControl, InitQuota
<1>2. TypeOK /\ QuotaInv /\ [Next]_vars => (TypeOK /\ QuotaInv)'
  BY StepControl, StepStoppers, StepOps, StepOneShot, StepClientless DEF QuotaInv, ItemsInv
<1> QED
  BY <1>1, <1>2, PTL DEF Spec

\* Quotient and remainder are the only ones.
LEMMA Division ==
  ASSUME NEW p \in Nat, NEW n \in Nat, n > 0, NEW q \in Nat, NEW r \in 0..(n - 1), p = q * n + r
  PROVE  p \div n = q /\ p % n = r
<1> DEFINE d == p \div n
           m == p % n
<1>1. d \in Nat /\ m \in 0..(n - 1) /\ p = d * n + m
  OBVIOUS
<1> HIDE DEF d, m
<1>2. ASSUME d < q PROVE FALSE
  <2>1. d + 1 <= q /\ d + 1 \in Nat
    BY <1>1, <1>2
  <2>2. (d + 1) * n <= q * n
    BY <2>1
  <2>3. (d + 1) * n = d * n + n
    BY <1>1
  <2> QED
    BY <1>1, <2>2, <2>3
<1>3. ASSUME q < d PROVE FALSE
  <2>1. q + 1 <= d /\ q + 1 \in Nat
    BY <1>1, <1>3
  <2>2. (q + 1) * n <= d * n
    BY <1>1, <2>1
  <2>3. (q + 1) * n = q * n + n
    OBVIOUS
  <2> QED
    BY <1>1, <2>2, <2>3
<1>4. d = q
  BY <1>1, <1>2, <1>3
<1>5. m = r
  BY <1>1, <1>4
<1> QED
  BY <1>4, <1>5 DEF d, m

\* Once the clients are through, everything pushed is done and nothing is left.
LEMMA AllThrough ==
  ASSUME TypeOK, QuotaInv, Over, test.stop # "runtime", Active # {}
  PROVE  /\ channel = <<>> /\ \A c \in Active : client[c] = Stopper
         /\ \A i \in Item : count[i] \in Nat /\ Total(i) = count[i]
<1>1. \A c \in Active : client[c] = Stopper
  BY DEF QuotaInv, ControlInv
<1>2. Doing(Stopper) = Active
  BY <1>1 DEF Doing
<1>3. Waiting(Stopper) = {}
  <2>1. Cardinality(Waiting(Stopper)) + Cardinality(Doing(Stopper)) = Cardinality(Active)
    BY DEF QuotaInv, StopperInv, Feeding, Over
  <2>2. Cardinality(Waiting(Stopper)) = 0
    BY <1>2, <2>1, CountsType, TestType
  <2> QED
    BY <2>2, CountsType
<1>4. \A k \in DOMAIN channel : FALSE
  BY <1>2, <1>3 DEF QuotaInv, StopperInv, Waiting
<1>5. channel = <<>>
  <2>1. Len(channel) = 0
    <3>1. 1 \notin 1..Len(channel)
      BY <1>4, ChannelType
    <3> QED
      BY <3>1, ChannelType
  <2> QED
    BY <2>1, ChannelType
<1>6. ASSUME NEW i \in Item PROVE count[i] \in Nat /\ Total(i) = count[i]
  <2>1. i # Stopper
    BY DEF Item, Stopper
  <2>2. Waiting(i) = {} /\ Doing(i) = {}
    BY <1>1, <1>4, <2>1 DEF Waiting, Doing
  <2>3. Cardinality(Waiting(i)) = 0 /\ Cardinality(Doing(i)) = 0
    BY <2>2, CountsType
  <2>4. count[i] \in Nat
    BY DEF TypeOK
  <2> QED
    BY <2>3, <2>4 DEF Total
<1> QED
  BY <1>1, <1>5, <1>6

\* What went round the queue is its share for every item.
LEMMA Shares ==
  ASSUME TypeOK, OpsInv, test.stop = "ops", Over, NEW i \in Item
  PROVE  Total(i) = Quota(i)
<1> DEFINE n == Len(Queue)
           q == Total(n)
<1>1. n \in Nat /\ n > 0 /\ q \in Nat /\ test.ops \in Nat
  BY QueueType, TotalType, TestType
<1>2. Past = test.ops
  BY DEF Past, Feeding, Over
<1>3. Rest \in 0..(n - 1) /\ Rest = test.ops - q * n
  BY <1>2 DEF OpsInv, Rest
<1>4. test.ops = q * n + Rest
  <2> HIDE DEF n, q
  <2>1. PICK x \in Int : x = q * n
    BY <1>1
  <2>2. Rest = test.ops - x /\ Rest \in Int
    BY <1>1, <1>3, <2>1
  <2> QED
    BY <1>1, <2>1, <2>2
<1>5. test.ops \div n = q /\ test.ops % n = Rest
  <2> HIDE DEF n, q
  <2>1. \A p, a, b, r \in Nat : a > 0 /\ r \in 0..(a - 1) /\ p = b * a + r => p \div a = b /\ p % a = r
    BY Division
  <2>2. Rest \in Nat
    BY <1>1, <1>3
  <2> QED
    BY <1>1, <1>3, <1>4, <2>1, <2>2, Zenon
<1>6. Total(i) = q + IF i <= Rest THEN 1 ELSE 0
  BY DEF OpsInv
<1> QED
  BY <1>5, <1>6 DEF Quota

\* The measurement ends with exactly the operations asked for (workUntilOps,
\* workOneShot), whatever the queue, the clients and their order.
THEOREM QuotaHolds == Spec => []QuotaMet
<1>1. TypeOK /\ QuotaInv => QuotaMet
  <2> SUFFICES ASSUME TypeOK, QuotaInv, Over, test.stop # "runtime", Active # {}, NEW i \in Item
              PROVE  count[i] = Quota(i)
    BY AllThrough DEF QuotaMet
  <2>1. Total(i) = count[i]
    BY AllThrough
  <2>2. CASE test.stop = "ops"
    BY <2>1, <2>2, Shares DEF QuotaInv, ItemsInv
  <2>3. CASE test.stop = "oneshot"
    BY <2>1, <2>3 DEF QuotaInv, ItemsInv, OneShotInv, Quota, Over
  <2> QED
    BY <2>2, <2>3, TestType
<1> QED
  BY <1>1, QuotaInvariant, PTL

\* Without clients nothing is done, and the producer blocks on what the channel
\* does not hold.
THEOREM Clientless == Spec => []NothingWithoutClients
<1>1. TypeOK /\ QuotaInv => NothingWithoutClients
  <2> SUFFICES ASSUME TypeOK, QuotaInv, Active = {}, Unserved PROVE Feeding
    BY DEF NothingWithoutClients, QuotaInv, ItemsInv, ClientlessInv, Feeding, Over
  <2> QED
    BY TestType, QueueType DEF QuotaInv, ItemsInv, ClientlessInv, Unserved
<1> QED
  BY <1>1, QuotaInvariant, PTL

(***************************************************************************)
(* One shot: deletes find what was prepared for them.                      *)
(***************************************************************************)

\* No two delete items delete the same object: true of sequential bucket and
\* object numbers (Distribution, SequentialCovers), not of random ones.
OwnObjects == \A i, j \in Item : Op(i) = "delete" /\ Op(j) = "delete" /\ Obj(i) = Obj(j) => i = j

\* A client at an item has not done it yet.
LEMMA OneShotOnce ==
  ASSUME TypeOK, OneShotInv, test.stop = "oneshot", NEW c \in Active, client[c] \in Item
  PROVE  count[client[c]] = 0 /\ pc # "prepare" /\ \A i \in Item : count[i] \in Nat
<1> DEFINE i == client[c]
<1>1. c \in Doing(i)
  BY DEF Doing
<1>2. Cardinality(Doing(i)) \in Nat /\ Cardinality(Doing(i)) # 0 /\ Cardinality(Waiting(i)) \in Nat
  BY <1>1, CountsType
<1>3. Total(i) \in {0, 1} /\ (pc = "prepare" => Total(i) = 0)
  BY DEF OneShotInv
<1>4. \A j \in Item : count[j] \in Nat
  BY DEF TypeOK
<1> HIDE DEF i
<1>5. count[i] \in Nat
  BY <1>4 DEF i
<1> QED
  BY <1>2, <1>3, <1>4, <1>5 DEF Total, i

LEMMA StepObjects ==
  ASSUME OwnObjects, TypeOK, ControlInv, OneShotInv, ObjectsInv, [Next]_vars
  PROVE  ObjectsInv'
<1> SUFFICES ASSUME test.stop = "oneshot", ~faulty, ~test.skipPrepare,
                    test' = test, faulty' = faulty
             PROVE  /\ missed' = {}
                    /\ ~Over' => \A i \in Item :
                         Op(i) = "delete" /\ count'[i] = 0 /\ (pc' # "prepare" \/ i < idx') => Obj(i) \in store'
  BY SameTest DEF ObjectsInv
<1> USE DEF config
<1>0. /\ missed = {} /\ idx \in Item
      /\ ~Over => \A i \in Item :
           Op(i) = "delete" /\ count[i] = 0 /\ (pc # "prepare" \/ i < idx) => Obj(i) \in store
  BY DEF ObjectsInv, TypeOK
<1>2. CASE Prepare
  <2>1. /\ pc = "prepare" /\ store' = store \cup Prepared(idx) /\ UNCHANGED <<count, missed>>
        /\ idx \in Nat /\ \A i \in Item : i \in Nat
    BY <1>0, <1>2, LoopStep DEF Prepare, Store, Item
  <2>2. \/ pc' = "prepare" /\ idx' = idx + 1
        \/ idx = Len(Queue)
    BY <1>0, <1>2, LoopStep DEF Prepare
  <2>3. ASSUME NEW i \in Item, Op(i) = "delete", count'[i] = 0, pc' # "prepare" \/ i < idx' PROVE Obj(i) \in store'
    <3>1. i < idx \/ i = idx
      BY <2>1, <2>2, <2>3, QueueType DEF Item
    <3>2. i = idx => Obj(i) \in Prepared(idx)
      BY <2>3 DEF Prepared
    <3>3. i < idx => Obj(i) \in store
      BY <1>0, <2>1, <2>3 DEF Over
    <3> QED
      BY <2>1, <3>1, <3>2, <3>3
  <2> QED
    BY <1>0, <2>1, <2>3
<1>3. CASE FeedOnce \/ PushStopper \/ ReprepareHead \/ RepreparePut \/ AllStopped
  <2>1. ~ReprepareHead /\ ~RepreparePut
    BY DEF ReprepareHead, RepreparePut, ControlInv
  <2>2. pc \in {"feed", "stop", "wait"} /\ UNCHANGED <<store, count, missed>>
    BY <1>3, <2>1 DEF FeedOnce, PushStopper, AllStopped
  <2>3. pc' # "prepare"
    BY <1>0, <1>3, <2>1, LoopStep DEF FeedOnce, PushStopper, AllStopped, AfterItems
  <2> QED
    BY <1>0, <2>2, <2>3 DEF Over
<1>4. CASE Clean \/ DeleteBucket
  <2>1. missed' = missed /\ Over'
    BY <1>0, <1>4, LoopStep DEF Clean, DeleteBucket, Over
  <2> QED
    BY <1>0, <2>1
<1>5. ~FeedRuntime /\ ~FeedOps /\ ~OpsReached /\ ~TimeUp /\ ~Timer
  BY DEF FeedRuntime, FeedOps, OpsReached, TimeUp, Timer
<1>6. ASSUME NEW c \in Active, TakeWork(c) \/ Notified(c)
      PROVE  UNCHANGED <<pc, idx, store, count, missed>>
  BY <1>6 DEF TakeWork, Notified
<1>7. ASSUME NEW c \in Active, Do(c)
      PROVE  /\ missed' = {}
             /\ \A i \in Item :
                  Op(i) = "delete" /\ count'[i] = 0 /\ (pc' # "prepare" \/ i < idx') => Obj(i) \in store'
  <2> DEFINE j == client[c]
  <2>1. /\ j \in Item /\ store' = After(j) /\ UNCHANGED <<pc, idx>>
        /\ missed' = IF Op(j) = "delete" /\ Obj(j) \notin store THEN missed \cup {j} ELSE missed
        /\ count' = [count EXCEPT ![j] = @ + 1]
    BY <1>7 DEF Do, Store
  <2>2. count[j] = 0 /\ pc # "prepare" /\ count \in [Item -> Nat] /\ ~Over
    <3>1. j # Stopper
      BY <2>1 DEF Item, Stopper
    <3> QED
      BY <2>1, <3>1, OneShotOnce DEF TypeOK, ControlInv
  <2>3. Op(j) = "delete" => Obj(j) \in store
    BY <1>0, <2>1, <2>2
  <2> HIDE DEF j
  <2>4. ASSUME NEW i \in Item, Op(i) = "delete", count'[i] = 0 PROVE Obj(i) \in store'
    <3>1. i # j /\ count[i] = 0
      BY <2>1, <2>2, <2>4
    <3>2. Obj(i) \in store
      BY <1>0, <2>2, <2>4, <3>1
    <3>3. Op(j) = "delete" => Obj(i) # Obj(j)
      BY <2>1, <2>4, <3>1 DEF OwnObjects
    <3> QED
      BY <2>1, <3>2, <3>3 DEF After
  <2> QED
    BY <1>0, <2>1, <2>3, <2>4
<1>8. CASE UNCHANGED vars
  BY <1>0, <1>8 DEF vars, Over
<1> QED
  BY <1>0, <1>2, <1>3, <1>4, <1>5, <1>6, <1>7, <1>8 DEF Next, Producer, ClientStep, Over

\* Handed out once, every delete finds its object (workOneShot; prepareTest comes
\* first): its object was there before the clients began, and nobody but the
\* one client that holds the item deletes it.
THEOREM OneShotDeletes ==
  ASSUME OwnObjects
  PROVE  Spec => []OneShotDeletesFind
<1>1. Init => ObjectsInv
  BY DEF Init, ObjectsInv, Item
<1>2. TypeOK /\ QuotaInv /\ ObjectsInv /\ [Next]_vars => ObjectsInv'
  BY StepObjects DEF QuotaInv, ItemsInv
<1>3. ObjectsInv => OneShotDeletesFind
  BY DEF ObjectsInv, OneShotDeletesFind, DeletesFindTheirObject
<1> QED
  BY <1>1, <1>2, <1>3, QuotaInvariant, PTL DEF Spec
=============================================================================
