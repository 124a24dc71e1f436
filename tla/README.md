# Formal model of gosbench

gosbench measures S3 object stores. One *server* reads a configuration with a
list of tests, waits for *workers* to connect, hands each test to a team of
workers, collects their results, writes a CSV file and prints a report. A worker
process prepares objects, puts load on the store with several clients, answers
with its numbers, and dials the server again for the next test.

This directory holds TLA+ modules translated from the Go code, TLC
configurations that check them on small instances, and proofs that TLAPS checks
for every instance. `PROJECT.json` maps every definition to the lines it models.

## 1. Inventory

First-party code is `server/`, `worker/`, `common/` and `compare/` (about 2200
lines of Go). Everything under `vendor/` is third-party, `k8s/`, `docker/` and
the dashboards are deployment.

| component | state it keeps | operations | talks to |
|---|---|---|---|
| scheduler of the server, `server/main.go:128-214` | the test it is at, loop counter, per test `doneChannel`, `continueWorkers`, `resultChannel`, `benchResults` | `scheduleTests`: take workers, await preparations, let them continue, collect, report, `shutdownWorker` | handlers, over channels |
| handler of a connection, `server/main.go:98-125, 216-248` | a socket, its decoder, where it stands | greeting, park on `readyWorkers`, `executeTestOnWorker` | scheduler (channels), worker (JSON over TCP) |
| connection loop of the worker, `worker/main.go:98-186` | `config.Test`, the connection | `run`, `connectToServer`: dial, back off, `init`, `start work`, `shutdown`, answer | handler (JSON over TCP), performance test (calls) |
| performance test, `worker/main.go:189-318`, `worker/workItems.go` | `workQueue.Queue`, `workChannel`, `notifyChan`, `WaitGroup`, counters of the three loops | `Prepare`, `perfTest`, `workUntilTimeout`, `workUntilOps`, `workOneShot`, `DoWork`, clean-up | object store |
| work queue, `worker/main.go:320-415`, `worker/workItems.go:54-86` | `OperationValues`, `Queue` | `fillWorkqueue`, `GetNextOperation`, `IncreaseOperationValue` | configuration, distributions |
| number distributions, `common/configFile.go:258-278` | `NumberLast` of buckets, objects and sizes | `EvaluateDistribution` | `fillWorkqueue` |
| housekeeping, `worker/main.go:218-237, 338-348`, `worker/s3.go` | the buckets of the store | `createBucket`, `deleteBucket` | object store, other workers |
| metrics of the worker, `worker/prometheus.go` | process-wide counters and histograms by test name | `getCurrentPromValues`, the observers in `worker/s3.go` | performance test |
| results, `server/main.go:250-455` | CSV file, report | `sumBenchmarkResults`, `writeResultToCSV` | scheduler |
| configuration, `common/configFile.go` | `Testconf` | `LoadConfigFromFile`, `CheckConfig`, `checkTestCase` | server |
| gateway selection, `worker/s3.go` | none | `initS3` | connection loop |
| sizes, `common/bytes.go`; client, `common/s3.go` | none | formatting and parsing; SDK options | — |
| compare, `compare/main.go` | two tables | join by key, chart | files |

### What is hard

* **Interleaving.** One scheduler, a handler per connection and the workers run
  at the same time. One `doneChannel` carries the tokens of two phases, and the
  token of one handler may be followed by the result of another.
* **Lost peers.** A worker may die, a connection tear or the server restart
  between any two messages. Nothing times out and nothing is replaced.
* **Ending.** A worker process ends when `connectToServer` returns `nil` and
  dials again on any error. It must end neither before the last report nor never.
* **A bounded channel, a timer, stoppers** between the producer and the clients
  of a performance test, with re-preparation beside running clients.
* **State that outlives a test**: `OperationValues`, `NumberLast`, the counters;
  **state that outlives the server**: worker processes, buckets, the CSV file.
* **Names.** Worker IDs are handed out anew for every team and name buckets and
  objects; test names key the counters; four columns key a comparison.
* **Boundaries**: ops that are no multiple of the queue, weights of 0 (1/0),
  ranges of size 0, sequences that do not restart per bucket.

`PROJECT.json` lists each as a hazard, with its line and the properties that
would notice it going wrong, or the reason none does yet.

### What makes each part correct

* *Server and workers*: load starts only when the whole team has prepared; the tests
  of one server do not overlap, and a worker left behind by a dead one does no more
  than the phase it is in; a row sums one finished result per member; buffers never block
  a handler; the two ends of a connection take turns; without faults everything
  is reported and then everyone stops; with faults the benchmark ends unless a
  member of the running team is lost, and then it stops at that test.
* *Performance test*: exactly the operations asked for are done, the clean-up
  comes after the last of them and leaves nothing, deletes find the object that
  was prepared for them, and the test ends.
* *Work queue*: items satisfy the set ratios up to one item.
* *Distributions, configuration*: numbers stay in range whatever test case is
  accepted; sizes are the configured ones; sequences cover every object once.
* *Housekeeping*: no worker loses a bucket it works on, unless it shares it with a
  team that cleans up; workers do not touch each other's objects, unless they have the
  same number or one deletes what both share; a clean-up leaves nothing.
* *Gateways*: a team that is either away from the gateways or one by one on their
  hosts is spread over them evenly.
* *Metrics, results*: a row counts the operations of its own test, each once, and
  besides what is known to leak in; averages lie between the times averaged; CSV files have one header and lose nothing but what could not
  be written; the report has every test once.
* *Compare*: what two reports have in common is compared once, like with like.

## 2. Modules

| module | models | role |
|---|---|---|
| `Coordinator` | `server/main.go` scheduler and handlers, `worker/main.go` run and connectToServer, the TCP streams | the core |
| `Rounds` | what the server promises the reader of its report | abstract specification, implemented by `Coordinator` |
| `PerfTest` | `perfTest` and its three stop criteria, `DoWork`, `Prepare`, `Do` and `Clean` of every work item | one worker, one test |
| `Load` | what a test may do to the objects of its worker | abstract specification, implemented by `PerfTest` and by every worker of `Housekeeping` |
| `WorkQueue` | `fillWorkqueue`, `GetNextOperation`, `IncreaseOperationValue` | one process, several tests |
| `TestCase` | `checkTestCase`, `checkDistribution` | operators, used by `Distribution` |
| `Distribution` | `EvaluateDistribution` and the two loops of `fillWorkqueue` | one test, from its configuration on |
| `Workers` | worker processes in the rounds of `Rounds`: worker IDs, a server that restarts under them | extended by the next and by `Results` |
| `Housekeeping` | `createBucket`, `deleteBucket`, `clean_after`, `workers_share_buckets` | a team over one object store |
| `Gateway` | `initS3` | operators, used by `Housekeeping` |
| `Metrics` | counters and histograms, `getCurrentPromValues`, `sumBenchmarkResults` | operators, used by `Results` |
| `Compare` | `compare/main.go` | operators, used by `Results` |
| `Results` | the way of the numbers from an operation to row, CSV file, report and comparison | a team, several tests and servers |
| `CoordinatorProofs`, `RowsProofs`, `PerfTestProofs`, `WorkQueueProofs`, `DistributionProofs`, `WorkersProofs`, `HousekeepingProofs`, `ResultsProofs` | | theorems about the module of that name; `RowsProofs` goes on with `Coordinator` |
| `MC...` | | constants of the instances |

The composition goes by abstraction. `Coordinator` implements `Rounds`, and
`Workers` puts processes into the rounds of `Rounds`, with its `Join`, `Prepare`,
`Start`, `Finish` and `Advance`, so that `Housekeeping` and `Results` need not carry
sockets and channels. `Workers` adds what the refinement hides and these two need:
the process behind a connection, its worker ID, and processes that a dead server
left behind. `PerfTest` knows one worker and its objects; `Isolated` shows that each
worker of `Housekeeping` keeps to the same `Load`.

### Coordinator

| in the module | in the code |
|---|---|
| `sched`, `test`, `cnt` | program counter, `testNumber` and `worker` of `scheduleTests` |
| `doneCh`, `contCh`, `resultCh` | the three channels of a test. Tokens carry nothing, so the first two are numbers; results are the connections they came from |
| `collected` | `benchResults` |
| `h[c]` | where the goroutine of a connection stands: greeting, parked on `readyWorkers`, the steps of `executeTestOnWorker`, closed, orphaned |
| `up[c]`, `down[c]` | bytes on the way, as sequences of messages |
| `cut` | connections the network tore |
| `wpc`, `wConn`, `wTest` | where a worker process stands, its connection, `w.config.Test` |
| `prepared`, `released`, `finished`, `faults`, `team` | history. `team` is what `executeTestOnWorker` was called with |

Every channel operation, message read and message written is an action of its
own; what the code does between two of them is local and goes with the next.
`readyWorkers` is unbuffered, so a send and its receive are one step
(`TakeWorker`, `ShutdownWorker`): a greeted connection is `parked` until the
scheduler takes it, in any order. The four loops over `test.Workers` share
`LoopOr`. `json.Encoder` errors on the server are ignored by the code, so a
message to a worker that is gone is lost (`SendDown`). The greeting is decoded by
a `json.Decoder` that may have buffered what follows and is then dropped
(`Greet`); `Lockstep` shows nothing ever follows it.

Faults are actions of the environment: a worker process dies and may be started
again by its supervisor (k8s, docker), a connection tears with or without the
loss of what is in it, the server dies and starts from its first test, since it
reads back nothing it wrote. `MaxFaults` bounds them.

The connections of a server that died are `orphaned`. What it had written still
arrives, so a worker may begin a load, or a preparation, that nobody waits for, and
may still be at it when the next server's tests run beside it. `NoOverlap` is therefore
about the workers of the server that runs, and says so, and `StartBarrier` leaves out
orphans too, whose team went with its server. What becomes of them is said by
`OrphansPhase` (they do at most one phase more, the one they are in or have been told
to do) and `OrphansLeave` (they come back); `RowsComplete` and the refinement say
that the new server's teams and results do not mix with theirs.

### Rounds

A round has a team of connections never used before, all members prepare, load
starts, all members finish, the next round begins; a restart begins again.
`Coordinator` implements it under the mapping in `R` (section "Properties"):
`running` is "the scheduler is past the first `doneChannel` loop", `ready` and
`done` are what the *workers* did, not what the server believes. So the
refinement says that the server's belief, carried by tokens, is right.

### PerfTest

One step per call to the store and per channel operation. The producer is
`connectToServer`/`perfTest`; `client` is `DoWork`. `store` is the set of objects
present. Each call may fail in a run with `faulty`: the code logs and goes on.
`HeadObject` and `PutObject` of the re-preparation are two steps (`ReprepareHead`,
`RepreparePut`), since clients run between them. Clock readings, gauges and the
ten seconds of sleep at the end are left out.

`clients` are the goroutines of a test. There may be none, as nothing refuses
`parallel_clients: 0`: the stoppers' loop is then empty (`AfterItems`) and the
producer has nobody to read from the channel.

### Workers

| in the module | in the code |
|---|---|
| `round` ... `done` | as in `Rounds` |
| `at[p]`, `id[p]`, `task[p]` | where a worker process stands between two messages, the number in its `WorkerID`, `w.config.Test` |
| `Current(p)` | the connection of p is one the running server handed a test to |
| `Stale`, `troubled` | processes that still work for a dead server; whether this round began beside some |

A process whose server is gone goes on until it next reads or writes
(`PreparationsDone`, `Begin`, `WorkDone`). If the dead server had let the load start,
its message may be in the socket of a process that waits: `Restart` picks
which of them are `told`, and these may `Begin` their load all the same, or fail to read it. It may
then join again. Errors of calls to the store and processes that die are not here: a dead member stops the
benchmark (`LostMemberStalls`).

### Housekeeping

`buckets` maps the name of each bucket, its owner's worker number (or `Shared`) and
its own, to the keys in it. A call to the store is an action, so the listing
of `deleteBucket`, its `DeleteObjects` and its `DeleteBucket` are three (`List`,
`Empty`, `Drop`), with every other worker in between, and so are the turns of the
loops of `fillWorkqueue`, of the preparation and of `Clean`. Calls fail for what they find:
no bucket, a bucket that is not empty, too many keys. `Do` is any item of the queue
at any time: in which order and how often is `PerfTest`'s matter. `Reprepare` is the
put of a delete item between two rounds of the queue, which may bring an object back into
a bucket that others list and delete. `drawn` is
what `Distribution` says of buckets: a number per turn of the loop, maybe the same twice,
whereas the clean-up counts from `NumberMin` to `NumberMax`.

What others may do to the objects of a worker is put in terms of its rivals
(`Rival`): busy processes that have the same buckets and either the same number, as
a worker of a dead server may, or are deleting these buckets. `Isolated` says of
every round, those beside an old server's workers included, that a worker without
a rival sees its objects change in steps of its own only, and there as `Load`
allows. `BucketsThere` and `CleanedUp` are about rounds that did not begin beside
such workers (`~troubled`), since these take buckets away and put them back.

### Metrics, Results, Compare

`Metrics!Do` adds one operation to the numbers of a test name in a process: the
counter for its outcome, bytes whatever the outcome, latency of all but a failed
PUT. `Sum` keeps averages multiplied by the number of results, and `Scale` makes
the divisions exact. Bytes are counted in objects, and rates are left out.

`Results` has the server open the file, then write or fail to (`Open`, `Flush`,
`FlushFails`, `NoFile`), and die at any moment (`Crash`); what
`encoding/csv` buffers is lost with it. `Lines` has the header if the file was
created by *this* call, which is how the code decides. A server whose benchmark is
over and whose workers were shut down may be followed by one with another
configuration, so that there are two reports to compare. Rows that `SortBy` does not tell apart are in any
order. The join of `compare` is a function from places to rows: a later row
takes the place of an earlier one, as in the nested maps.

### WorkQueue

Values are fractions `k / weight`; `Scale`, a multiple of every weight, stands
for 1, so sums are exact (floats would blur ties only). `sort.Slice` is not
stable: *any* least entry may come next. `init` empties `Queue` and keeps
`OperationValues`: `live` has an entry per test and operation that was appended
with a positive weight, and `IncreaseOperationValue` raises the first entry with
the key, which is the one `GetNextOperation` has just sorted there. An operation whose weight is now 0 gets `1/0 = +Inf`, modelled by `Inf`.

### TestCase and Distribution

`TestCase!Accepted` is `checkTestCase` returning no error; `Checked` multiplies sizes
and chunk sizes by their units, in 64 bits. `Distribution` begins with a test
case that is accepted, out of those that are `Configurable`: of the right types, and
without a range whose loop counter would wrap. Numbers wrap at `Modulus`, 2^64 in the
code, and a KB has `Kilo` bytes. `named` is the bag of the numbers in the queue,
`length` the number of its items. `bucket` and
`object` are drawn in two nested loops, with `NumberLast` of the objects kept from one
bucket to the next, as in the code. A random number with `max = min` divides by
zero (`Panic`), which nothing in `checkTestCase` excludes. An unknown distribution
would draw 0; `InRange` rests on its being refused.

## 3. Runs

| run | instance | what it shows |
|---|---|---|
| `coordinator_safety` | 2 workers, a test of 2 then a test of 1, 1 fault of any of 3 kinds, 10 connections | `StartBarrier`, `NoOverlap`, `RowsComplete`, `SendNeverBlocks`, `Lockstep`, `LostMemberStalls`, `OrphansPhase` under every interleaving and fault; `ServerInv`, the inductive invariant of the proofs, holds; `Rounds` is implemented |
| `coordinator_ends` | the same teams and faults, 8 connections, in a container, under fairness | without a fault everything stops, and with any one fault no worker before the last report of the server that runs (`ExitOnlyAfterLastReport`); the benchmark ends unless a member of the running team is lost; workers of a dead server come back (`OrphansLeave`) |
| `coordinator_empty_queue` | test 1 yields no work item | **violated**: finding 1 |
| `perf` | 2 clients or none, 4 items of the 4 kinds, every stop criterion × skip_prepare × clean_after × failing calls × every initial store | quota, clean-up, one-shot deletes, termination, nothing done without clients; `Load` is implemented |
| `perf_reprepare` | the same, with clients | **violated**: finding 2 |
| `workqueue` | weights 0–3, 2 tests of a process, 4 items | ratios, stale entries |
| `workqueue_stale` | the same | **violated**: finding 3 |
| `distribution` | constant, random and sequential, all ranges up to 3, sizes in units that overflow and that do not, test cases to refuse | range, sizes, coverage |
| `housekeeping` | 2 workers, a test of 2 then a test of 1, 2 buckets and 3 items, shared × cleaned × drawn once or twice, 1 restart, an empty or a used store | `BucketsThere`, `Isolated`, `CleanedUp`, `GatewaysEven` |
| `housekeeping_limit` | the same, without a restart | **violated**: finding 4 |
| `results` | 2 workers, 2 tests, 3 benchmarks, 2 calls of any outcome and 2 durations, 5 disks, 1 crash or second benchmark | `RowCounts`, `LatencyHonest`, `CsvHeader`, `RowsKept`, `ReportComplete`, `ComparedOnce` |
| `results_ranged` | the same, reads with `read_option` | **violated**: finding 5 |

**Bounds, and why they are enough.** Two workers are the least that make a
barrier a barrier; a test of two followed by a test of one lets a worker of the
first be early, late or idle for the second, and reconnect. A connection is used
once, so their number bounds reconnects: five (two tests of two and one, two that
are drained) suffice for a run of the server without a fault, six when one worker has
to dial again, and ten for a server that is restarted at its very end; a worker
that finds none left waits. `coordinator_ends` has eight, which one benchmark with a restart in its middle does not
use up, as `EndsUnlessMemberLost` shows. One fault may strike at every point of a run; what a
second one does while the first is being recovered from is not covered by the
runs, but it is by the proofs, which bound neither. Six
operations over four items are a round and a half, so the re-preparation
happens and the last round ends in its middle. Four work items are one of each
kind; with two clients and a channel of four it fills, drains and
holds stoppers behind work. Two tests are enough for an entry to be stale. Ranges
up to three have empty, single, and longer spans, and `Modulus = 8` with
`Kilo = 2` lets sizes wrap.

In `housekeeping` a team of two followed by a team of one makes worker w0 of the
second test either process; a listed, a deleted and a written object are all that
`Clean` tells apart (reads are treated like writes and change nothing), and two
buckets are the least of which one can be left out. `DeleteLimit = 1` stands for
1000: the bucket with one object more is there. One restart leaves up to two
processes of the old server beside the new team, `told` or at any step of theirs. In `results` two calls, `MaxCalls`,
put a success beside a failure, a sample beside none, and a first test beside a
second of the same name; durations 1 and 3 have an average that is neither; `Kilo = 2`
makes two sizes one in the report. `Restart` serves as the crash or as the
second benchmark. Exchanging the two processes changes nothing, and the run has no
liveness property, so that symmetry is sound there.

**Deadlock** is not checked in any of the runs: each system really stops. In
`Coordinator` all workers have stopped, or a member was lost and the server
waits for good, which `LostMemberStalls` and `EndsUnlessMemberLost` describe
instead. A performance test, a queue and the loops of `fillWorkqueue` end, and so
does a benchmark in `Housekeeping` and `Results`. The one deadlock of a
performance test, without clients, is stated by `NothingWithoutClients`.

**Fairness.** `Coordinator`: weak fairness of the scheduler, of every handler and
of every worker, as the Go runtime runs every goroutine that can go on, plus
the restart of a dead worker by its supervisor. Faults have none. `Prepare` and
`perfTest` are steps there, so S3 calls are assumed to return; the code sets no
deadline. `PerfTest`: weak fairness of the producer, the timer and each client;
strong fairness of `TimeUp` only, as Go's `select` picks at random among ready
cases and the timer's is ready at every turn of the loop once it fired.
`Terminates` does not hold with weak fairness there: a producer that always picks
the send never sees the timer.

**Mutants.** The operators named as slips in the modules (`LoopShort`,
`LeaveQuits`, `FirstStopped`, ...) are the bugs each property was tried against;
`PROJECT.json` pairs them.

## 4. Findings

1. `worker/main.go:165-167`: a worker told to start with an empty queue says it
   reconnects, returns `nil`, and ends. The server drops it and waits for ever.
   The queue is empty when `number_min > number_max`.
2. `worker/main.go:261, 308`: re-preparing a delete between rounds looks at the
   object while the delete of the round before is still in the channel, finds it,
   puts nothing, and the next delete misses.
3. `worker/main.go:143`: `init` resets `Queue` but not `OperationValues`, so
   operations of an earlier test get into the queue of a later one that gives
   them no weight (`OnlyWeighted`). `StrayOnce` shows that the damage is bounded: one
   item per stale entry.
4. `worker/s3.go:257`: everything in a bucket is deleted by one `DeleteObjects`, which
   takes 1000 keys. A larger bucket stays with all it has, though `clean_after` is
   to remove it (`examples/example_config.yaml:71`). Objects of delete items are the
   likely case, since their `Clean` does nothing.
5. `worker/s3.go:163`: with `read_option` the bytes read are not counted, so every
   read fails the check of its length and counts as a failed operation.

Seen while modelling, and not worth a run each:

* `k8s/Readme.md:65` says a worker that finds the server unreachable exits; `run`
  sleeps a second and dials again.
* `examples/example_config.yaml:67` says that `workers_share_buckets: True` appends the
  worker's number to bucket names; it is left out then (`worker/main.go:341-344`).
* `worker/s3.go:68` speaks of things "hidden from the performance monitoring", but
  `putObject` observes its time whichever client it is given (`worker/s3.go:108`), so that the
  preparation of list and delete items is in the averages of the test.
  `LatencyHonest` counts these puts among the calls.
* Bytes of failed calls are counted (`worker/workItems.go:135, 148`).
* A worker without a sample reports -1, and the server averages it with the times
  of the others (`server/main.go:260`). `LatencyHonest` says that the average is wrong by just
  these -1, and right without them.
* Two tests of one name, or a server that was restarted under its workers, add up in
  the rows. `RowCounts` says how much: what the members had counted under the name
  when they joined.
* The workers of a server that died go on with the phase they are in, beside the
  tests of the next one (`OrphansPhase`), and have the numbers its workers
  get (`Rival`).
* Workers that share a host, or a team of which some run on a gateway's host, may
  crowd on one gateway (`worker/s3.go:48`); `GatewaysEven` is about the others.

## 5. Proofs

All theorems are about the unbounded modules: any numbers of workers,
connections, tests, items, buckets and faults, and any team sizes and weights.
The inductive invariants stand at the end of each module under "Why".

**Server and workers** (`CoordinatorProofs`, `RowsProofs`).

* `Typed`: `Spec => []TypeOK`.
* `Barrier`: `Spec => []StartBarrier`, with and without faults. The
  barrier is not inductive: it says nothing of tokens and messages under way.
  `BarrierInv` does, in five parts. `TeamsInv`: a connection serves one test, and
  no channel of a test has anything before its turn. `CountInv`: the scheduler's
  counter and the tokens count the members taken and the handlers that await;
  here is the point of the argument: as long as a test is preparing, a token
  can only come from a handler at `await`, so that when the loop has seen
  `test.Workers` tokens all of the team is there. `ReleaseInv`: whoever may start
  belongs to a test that was let loose, and its team is prepared.
  `EvidenceInv`: each message and handler state goes back to the worker's step
  that caused it. `BindInv`: a connection has one worker, bound to the
  test of its team.
* `TestsDoNotOverlap`, `OrphansFinishPhase`, `RowsAreWhole`, `SendsDoNotWait`, `TakesTurns`,
  `LossHoldsUp` follow from `ServerInv`, that is `BarrierInv` and `RowsInv`: a connection has
  one turn, the handler's, a message's or the worker's (`TurnInv`); a worker
  prepares on it once, before it is released, and prepares or performs only while
  the handler waits for it or is gone (`FreshInv`, `PhaseInv`), so that an orphan has one phase
  before it and no more; in the second
  phase the tokens count the members past their load, as they count those that
  await in the first (`TokenInv`); and every result is in the channel or with the
  scheduler (`ResultInv`), of a member that has finished (`FinishedInv`).
* `ExitsLast`: if every test yields work, no worker ends before the last row of the server
  that runs, but for one that a server that died since had sent home. By `ExitInv` a "shutdown" on
  a connection of the running server means that it is done. Finding 1 shows that the
  assumption is needed.
* `ImplementsRounds`: every step of `Coordinator` is a step or a stutter of `Rounds`.

**Performance test** (`PerfTestProofs`).

* `QuotaHolds`: the operations asked for are done, item by item. `QuotaInv` counts what
  was pushed as done, with a client, or in the channel (`Total`), has the stoppers
  behind the items and one per client (`StopperInv`), and has the producer's counters
  above zero wherever it takes them down (`ControlInv`), so that no `uint64` wraps.
* `CleanLast`, if the calls succeed, `DeleteObjects` with its 1000 keys among them
  (finding 4); `Clientless`; `OneShotDeletes`, if every item has an object of its
  own (`OwnObjects`). Items with sequential numbers do; with random numbers two deletes
  may be of one object, and the second misses.
* `ImplementsLoad`: every step is one of `Load` or a stutter.

**Work queue** (`WorkQueueProofs`): values of one test's operations are never
more than one step apart (`Spread`) and count the items made (`Counts`), which
`QueueInvariant` proves. `Ratio` and `Stray` follow by arithmetic.

**Distributions** (`DistributionProofs`): numbers stay in range and every turn makes one
item (`LoopInv`), sizes are those configured, and sequential numbers are the loop
counters (`SequentialInv`), so that the bag of names is every object once.

**Teams and buckets** (`WorkersProofs`, `HousekeepingProofs`).

* `WorkersProofs` has one lemma per step of a process or of the server: the numbers of a
  team are `0..n-1` without a repetition (`TeamInv`), whoever left the old server
  behind. Both modules that extend `Workers` cite it.
* `BucketsStay` by `FilledInv`: the buckets of the turns that are over are there, as
  long as the round is not `troubled` and no member of a team with shared buckets cleans up.
* `NothingIsLeft` by `CleanInv`: a bucket that is there and not too large has
  somebody left who will delete it, the last to have put something there if nobody
  else, in rounds that are not `troubled`. That also covers clean-ups that run while others still load a shared bucket.
* `GatewaysAreEven`: the numbers modulo the gateways, from the least index that
  matches a host. Its condition on hosts is that of `GatewaysEven`: no member on the host
  of a gateway, or each on another one's.
* `Isolation`: whoever takes the step and whatever server he works for, the objects of a
  worker without a rival stay as they are or the step is its own and one of `Load`.

**Results** (`ResultsProofs`).

* `HeaderOnce`: `CsvHeader` is inductive with `FilesInv`, by which a file whose handle says
  "created" is empty and has never been torn.
* `ReportsAreComplete`: by `MemoryInv` the rows in memory are those of the tests before the
  present one, or none after the report, so the report is a sequence of as many
  different rows as there are tests; an injection between finite sets of one size
  leaves none out.
* `RowsAreKept` by `LinesInv`: a line of this life is of a test that is over, and in the
  file that `Open` finds for the next one if a file is found at all, so that no test's
  line goes to the other place; a test that is over has its line or is in `lost`. The
  order is preserved because a new line is of the latest life and test.
* `RowsCount` by `JoinedInv` (a process has counted nothing of this life under the name of
  a test it has not joined, if tests have names of their own) and `TallyInv` (what it
  counted under the name is what it had when it joined, `before`, and what it did
  since, `did`, operation by operation), so that the row is exactly both. It is a sum over
  the team: sums add and compare as their terms do (`TotalAdd`, `TotalMonotone`). Where a reader expects an
  induction there is a smallest subset that fails (`FirstSubset`), as the provers
  cannot instantiate the induction theorems.
* `LatencyIsHonest` by `SamplesInv`: a sum of samples lies between the number of samples
  times the shortest and times the longest call, puts of the preparation among
  them. The members that have samples are summed apart from those that report -1; the
  rest is arithmetic on quotients. It needs members that had counted nothing under
  the name before (`Fresh`), as the times of an earlier life are not kept.
* `ComparesOnce` by `LivesInv`: a later report is of a later life. A finite set of numbers
  can be sorted, so `Sorted`, a CHOOSE, is what it says; a chart's axis has the
  numbers of clients both reports have in its group, and a place has one row of each.

**Assumptions**, all named in the modules: at least one test, at least one worker
per test (`workers: 0` makes `sumBenchmarkResults` index an empty slice,
`server/main.go:268`, and nothing refuses it); finite sets of clients and processes;
a queue that has items, and at least one gateway (`initS3` has no other way out);
weights that are natural numbers with one of them positive (`checkTestCase`); records
of the types of the YAML structs for tests and benchmarks; and loop counters
that do not reach the width of an `int`. `Modulus`, `Kilo` and `Scale` are any positive
numbers; `Scale` is a multiple of every number of samples there can be, so that the averages,
`float64` in the code, are whole numbers.

**Only model-checked.** Every liveness property (`EndsUnlessMemberLost` and the
others of `coordinator_ends`, `OrphansLeave`, `Terminates`), since they need fairness and ENABLED.
`OnlyWeighted`, `DeletesFind` and the other claims that section 4 refutes are runs that TLC
finds violated. Every other invariant and action property of the passing runs is proved.

## 6. Plan

Everything in sections 2 and 3 is written. What is left is to strengthen it:

1. The proofs assume that S3 calls return. A client that hangs is outside the modules;
   a `Hang` fault in `PerfTest` would show what the rest of the worker can still promise.
2. `Workers` moves its rounds by the actions of `Rounds`, which `Coordinator` is proved to
   implement. That the specifications of `Housekeeping` and `Results` imply that of
   `Rounds` follows from it, and is worth a theorem.

## 7. Not modelled, and why

JSON, YAML and CSV parsing, the AWS client, chart and table rendering and Prometheus
are libraries and enter only as what callers see. The calls to the AWS client have no
deadline (`worker/s3.go:55`); the modules assume that they return, since nothing
after one that does not ever happens. `common/bytes.go` formats and parses sizes,
is used in log lines only, and has its own tests. Command lines, log texts, HTTP endpoint,
gauges and the payload generator hold no state that another part depends on. The
upload of the report to a bucket is one call whose failure is logged. Bandwidth
and operations per second are quotients of the numbers that are modelled. Two
servers on one port, two benchmarks over one store at a time and wall-clock timing are
outside the program.
