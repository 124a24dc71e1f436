---------------------------- MODULE Coordinator ----------------------------
(***************************************************************************)
(* The benchmark server (server/main.go) and the workers that dial it      *)
(* (worker/main.go): the scheduler goroutine, one goroutine per accepted   *)
(* connection, the three channels of a test, the TCP connections, and the  *)
(* reconnect loop of every worker process.  A connection is dialled once;  *)
(* its goroutine greets the worker and parks on readyWorkers, and the      *)
(* scheduler then gives it to the handler of one worker of one test.       *)
(***************************************************************************)
EXTENDS Integers, Sequences, FiniteSets, Functions

CONSTANTS
  Worker,       \* worker processes
  Conn,         \* the supply of TCP connections, each dialled at most once
  NumTests,     \* len(config.Tests)
  TeamSize,     \* test.Workers, for every test
  EmptyQueue,   \* tests whose number_min > number_max yields no work item
  InContainer,  \* GOSBENCH_IN_CONTAINER = "true"
  FaultKinds,   \* the faults of this instance
  MaxFaults,    \* and the bound on their number
  None

Test == 1..NumTests

ASSUME TestsAssumption  == NumTests \in Nat \ {0}
ASSUME TeamAssumption   == TeamSize \in [Test -> Nat \ {0}]
ASSUME QueueAssumption  == EmptyQueue \subseteq Test /\ InContainer \in BOOLEAN
ASSUME FaultsAssumption == /\ FaultKinds \subseteq {"worker", "network", "server"}
                           /\ MaxFaults \in Nat
ASSUME NoneAssumption   == None \notin Worker \cup Conn \cup Test

VARIABLES
  sched,      \* where scheduleTests stands; "boot" before net.Listen
  test,       \* the test it is scheduling; NumTests + 1 when all are done
  cnt,        \* its loop counter
  team,       \* connections handed to executeTestOnWorker, per test
  collected,  \* benchResults, per test: whose result it holds
  doneCh,     \* tokens in doneChannel, per test
  contCh,     \* tokens in continueWorkers, per test
  resultCh,   \* results in resultChannel, per test: whose they are
  h,          \* where the server's goroutine of a connection stands
  up, down,   \* messages under way to the server, to the worker
  cut,        \* connections torn by the network
  wpc,        \* where a worker process stands
  wConn,      \* its open connection
  wTest,      \* w.config.Test
  prepared,   \* history: connections whose worker finished preparing
  released,   \* history: connections whose handler was told to continue
  finished,   \* history: connections whose worker finished its load
  faults      \* history: faults so far

schedVars  == <<sched, test, cnt, team, collected>>
chanVars   == <<doneCh, contCh, resultCh>>
netVars    == <<up, down, cut>>
workerVars == <<wpc, wConn, wTest>>
histVars   == <<prepared, released, finished, faults>>
vars == <<schedVars, chanVars, h, netVars, workerVars, histVars>>

Stopped == IF InContainer THEN "asleep" ELSE "exited"

M(kind)    == [kind |-> kind, test |-> None]
InitMsg(t) == [kind |-> "init", test |-> t]

\* make(chan ..., test.Workers), and a slip in it
SmallerCapacity(t) == TeamSize[t] - 1
Capacity(t) == TeamSize[t]

ServerClosed(c) == h[c] \in {"closed", "dropped", "orphaned"}
ServerGone(c)   == c \in cut \/ ServerClosed(c)
WorkerGone(c)   == c \in cut \/ \A w \in Worker : wConn[w] # c

\* The server ignores the error of Encode: what it writes to a worker that
\* is gone is lost.
SendDown(c, m) ==
  down' = IF WorkerGone(c) THEN down ELSE [down EXCEPT ![c] = Append(@, m)]

-----------------------------------------------------------------------------
(* The scheduler goroutine.                                                *)

Goto(next) == sched' = next /\ cnt' = 0

\* Slips in a loop: one round short, one too many, and only the first result.
Loop(more, again, next) ==
  IF more THEN sched' = again /\ cnt' = cnt + 1 ELSE Goto(next)
LoopShort(again, next) == Loop(cnt + 2 < TeamSize[test], again, next)
LoopLong(again, next)  == Loop(cnt < TeamSize[test], again, next)
LoopFirst(again, next) == Loop(cnt + 1 < TeamSize[test] /\ next # "report", again, next)

\* for worker := 0; worker < test.Workers; worker++
LoopOr(again, next) == Loop(cnt + 1 < TeamSize[test], again, next)

Listen ==
  /\ sched = "boot"
  /\ Goto("take")
  /\ UNCHANGED <<test, team, collected, chanVars, h, netVars, workerVars, histVars>>

TakeWorker(c) ==
  /\ sched = "take"
  /\ h[c] = "parked"
  /\ h' = [h EXCEPT ![c] = "init"]
  /\ team' = [team EXCEPT ![test] = @ \cup {c}]
  /\ LoopOr("take", "prep")
  /\ UNCHANGED <<test, collected, chanVars, netVars, workerVars, histVars>>

\* <-doneChannel, for the preparations
AwaitPrepared ==
  /\ sched = "prep"
  /\ doneCh[test] > 0
  /\ doneCh' = [doneCh EXCEPT ![test] = @ - 1]
  /\ LoopOr("prep", "start")
  /\ UNCHANGED <<test, team, collected, contCh, resultCh, h, netVars, workerVars, histVars>>

LetContinue ==
  /\ sched = "start"
  /\ contCh[test] < Capacity(test)
  /\ contCh' = [contCh EXCEPT ![test] = @ + 1]
  /\ LoopOr("start", "collect")
  /\ UNCHANGED <<test, team, collected, doneCh, resultCh, h, netVars, workerVars, histVars>>

\* <-doneChannel, for the performance test
AwaitWorkDone ==
  /\ sched = "collect"
  /\ doneCh[test] > 0
  /\ doneCh' = [doneCh EXCEPT ![test] = @ - 1]
  /\ sched' = "result"
  /\ UNCHANGED <<test, cnt, team, collected, contCh, resultCh, h, netVars, workerVars, histVars>>

CollectResult ==
  /\ sched = "result"
  /\ \E r \in resultCh[test] :
       /\ resultCh'  = [resultCh EXCEPT ![test] = @ \ {r}]
       /\ collected' = [collected EXCEPT ![test] = @ \cup {r}]
  /\ LoopOr("collect", "report")
  /\ UNCHANGED <<test, team, doneCh, contCh, h, netVars, workerVars, histVars>>

\* Sum the results, append the row, and go to the next test; after the last
\* one write the report and start draining.
Report ==
  /\ sched = "report"
  /\ test' = test + 1
  /\ Goto(IF test = NumTests THEN "drain" ELSE "take")
  /\ UNCHANGED <<team, collected, chanVars, h, netVars, workerVars, histVars>>

ShutdownWorker(c) ==
  /\ sched = "drain"
  /\ h[c] = "parked"
  /\ h' = [h EXCEPT ![c] = "drained"]
  /\ SendDown(c, M("shutdown"))
  /\ UNCHANGED <<schedVars, chanVars, up, cut, workerVars, histVars>>

Scheduler ==
  \/ Listen
  \/ AwaitPrepared
  \/ LetContinue
  \/ AwaitWorkDone
  \/ CollectResult
  \/ Report
  \/ \E c \in Conn : TakeWorker(c) \/ ShutdownWorker(c)

-----------------------------------------------------------------------------
(* The goroutine of one connection: the greeting, then executeTestOnWorker. *)

\* The greeting has a json.Decoder of its own.  Bytes that arrived behind
\* the greeting may sit in its buffer, and go with it.
Greet(c) ==
  /\ h[c] = "greet"
  /\ up[c] # <<>>
  /\ Head(up[c]) = "ready for work"
  /\ h' = [h EXCEPT ![c] = "parked"]
  /\ \E rest \in {Tail(up[c]), <<>>} : up' = [up EXCEPT ![c] = rest]
  /\ UNCHANGED <<schedVars, chanVars, down, cut, workerVars, histVars>>

\* Decode fails, in the greeting or in the handler: the connection is closed.
Drop(c) ==
  /\ h[c] \in {"greet", "decode"}
  /\ up[c] = <<>>
  /\ WorkerGone(c)
  /\ h' = [h EXCEPT ![c] = "dropped"]
  /\ UNCHANGED <<schedVars, chanVars, netVars, workerVars, histVars>>

SendInit(t, c) ==
  /\ h[c] = "init"
  /\ h' = [h EXCEPT ![c] = "decode"]
  /\ SendDown(c, InitMsg(t))
  /\ UNCHANGED <<schedVars, chanVars, up, cut, workerVars, histVars>>

Decode(c) ==
  /\ h[c] = "decode"
  /\ up[c] # <<>>
  /\ \/ Head(up[c]) = "preparations done" /\ h' = [h EXCEPT ![c] = "gotPrepared"]
     \/ Head(up[c]) = "work done"         /\ h' = [h EXCEPT ![c] = "gotWork"]
  /\ up' = [up EXCEPT ![c] = Tail(@)]
  /\ UNCHANGED <<schedVars, chanVars, down, cut, workerVars, histVars>>

\* doneChannel <- true, in either phase of the test
SignalDone(t, c) ==
  /\ h[c] \in {"gotPrepared", "gotWork"}
  /\ doneCh[t] < Capacity(t)
  /\ doneCh' = [doneCh EXCEPT ![t] = @ + 1]
  /\ h' = [h EXCEPT ![c] = IF @ = "gotPrepared" THEN "await" ELSE "result"]
  /\ UNCHANGED <<schedVars, contCh, resultCh, netVars, workerVars, histVars>>

SendStart(t, c) ==
  /\ h[c] = "await"
  /\ contCh[t] > 0
  /\ contCh' = [contCh EXCEPT ![t] = @ - 1]
  /\ released' = released \cup {c}
  /\ h' = [h EXCEPT ![c] = "decode"]
  /\ SendDown(c, M("start work"))
  /\ UNCHANGED <<schedVars, doneCh, resultCh, up, cut, workerVars, prepared, finished, faults>>

SendResult(t, c) ==
  /\ h[c] = "result"
  /\ Cardinality(resultCh[t]) < Capacity(t)
  /\ resultCh' = [resultCh EXCEPT ![t] = @ \cup {c}]
  /\ h' = [h EXCEPT ![c] = "closing"]
  /\ UNCHANGED <<schedVars, doneCh, contCh, netVars, workerVars, histVars>>

CloseConn(c) ==
  /\ h[c] = "closing"
  /\ h' = [h EXCEPT ![c] = "closed"]
  /\ UNCHANGED <<schedVars, chanVars, netVars, workerVars, histVars>>

Handler(c) ==
  \/ Greet(c)
  \/ Drop(c)
  \/ Decode(c)
  \/ CloseConn(c)
  \/ \E t \in Test :
       /\ c \in team[t]
       /\ SendInit(t, c) \/ SignalDone(t, c) \/ SendStart(t, c) \/ SendResult(t, c)

-----------------------------------------------------------------------------
(* The worker process: run and connectToServer.                            *)

\* net.Dial and the greeting, whose Encode error is ignored.  Connections have
\* no names of their own, so any unused one will do.
Dial(w) ==
  /\ wpc[w] = "dial"
  /\ sched # "boot"
  /\ \E c \in Conn : h[c] = "none"
  /\ LET c == CHOOSE c \in Conn : h[c] = "none" IN
       /\ h' = [h EXCEPT ![c] = "greet"]
       /\ up' = [up EXCEPT ![c] = Append(@, "ready for work")]
       /\ wConn' = [wConn EXCEPT ![w] = c]
  /\ wpc' = [wpc EXCEPT ![w] = "recv"]
  /\ UNCHANGED <<schedVars, chanVars, down, cut, wTest, histVars>>

DialRefused(w) ==
  /\ wpc[w] = "dial"
  /\ sched = "boot"
  /\ wpc' = [wpc EXCEPT ![w] = "backoff"]
  /\ UNCHANGED <<schedVars, chanVars, h, netVars, wConn, wTest, histVars>>

\* time.Sleep(time.Second) is over
Wake(w) ==
  /\ wpc[w] = "backoff"
  /\ wpc' = [wpc EXCEPT ![w] = "dial"]
  /\ UNCHANGED <<schedVars, chanVars, h, netVars, wConn, wTest, histVars>>

\* Slips: an error ends the process; a regular end is retried.
LeaveQuits(w, next)   == wpc' = [wpc EXCEPT ![w] = Stopped] /\ wConn' = [wConn EXCEPT ![w] = None]
LeaveRetries(w, next) == wpc' = [wpc EXCEPT ![w] = "backoff"] /\ wConn' = [wConn EXCEPT ![w] = None]

\* connectToServer returns, and its deferred Close runs.
Leave(w, next) ==
  /\ wpc' = [wpc EXCEPT ![w] = next]
  /\ wConn' = [wConn EXCEPT ![w] = None]

Receives(w, kind) ==
  /\ wpc[w] = "recv"
  /\ down[wConn[w]] # <<>>
  /\ Head(down[wConn[w]]).kind = kind
  /\ down' = [down EXCEPT ![wConn[w]] = Tail(@)]
  /\ UNCHANGED <<schedVars, chanVars, h, up, cut, histVars>>

RecvInit(w) ==
  /\ Receives(w, "init")
  /\ wTest' = [wTest EXCEPT ![w] = Head(down[wConn[w]]).test]
  /\ wpc' = [wpc EXCEPT ![w] = "prepare"]
  /\ UNCHANGED wConn

\* With no item in the work queue connectToServer returns nil, and run stops.
RecvStart(w) ==
  /\ Receives(w, "start work")
  /\ IF wTest[w] \in EmptyQueue
       THEN Leave(w, Stopped)
       ELSE wpc' = [wpc EXCEPT ![w] = "perf"] /\ UNCHANGED wConn
  /\ UNCHANGED wTest

RecvShutdown(w) ==
  /\ Receives(w, "shutdown")
  /\ Leave(w, Stopped)
  /\ UNCHANGED wTest

\* Decode fails; and a slip that goes on reading.
RecvErrorIgnored(w) ==
  /\ wpc[w] = "recv"
  /\ down[wConn[w]] = <<>>
  /\ ServerGone(wConn[w])
  /\ UNCHANGED vars

RecvError(w) ==
  /\ wpc[w] = "recv"
  /\ down[wConn[w]] = <<>>
  /\ ServerGone(wConn[w])
  /\ Leave(w, "backoff")
  /\ UNCHANGED <<schedVars, chanVars, h, netVars, wTest, histVars>>

\* A slip: the answer is sent twice.
AnswerTwice(w, m) ==
  /\ wpc' = [wpc EXCEPT ![w] = "recv"]
  /\ up' = [up EXCEPT ![wConn[w]] = @ \o <<m, m>>]
  /\ UNCHANGED wConn

\* Encode of an answer: it goes into the stream, or, when the server's end is
\* gone, is lost or fails and sends the worker back to dialling.
Answer(w, m) ==
  \/ /\ wpc' = [wpc EXCEPT ![w] = "recv"]
     /\ up' = IF ServerGone(wConn[w]) THEN up
                                      ELSE [up EXCEPT ![wConn[w]] = Append(@, m)]
     /\ UNCHANGED wConn
  \/ /\ ServerGone(wConn[w])
     /\ Leave(w, "backoff")
     /\ UNCHANGED up

FinishPrepare(w) ==
  /\ wpc[w] = "prepare"
  /\ prepared' = prepared \cup {wConn[w]}
  /\ Answer(w, "preparations done")
  /\ UNCHANGED <<schedVars, chanVars, h, down, cut, wTest, released, finished, faults>>

FinishWork(w) ==
  /\ wpc[w] = "perf"
  /\ finished' = finished \cup {wConn[w]}
  /\ Answer(w, "work done")
  /\ UNCHANGED <<schedVars, chanVars, h, down, cut, wTest, prepared, released, faults>>

WorkerStep(w) ==
  \/ Dial(w)
  \/ DialRefused(w)
  \/ Wake(w)
  \/ RecvInit(w)
  \/ RecvStart(w)
  \/ RecvShutdown(w)
  \/ RecvError(w)
  \/ FinishPrepare(w)
  \/ FinishWork(w)

-----------------------------------------------------------------------------
(* Faults: a worker process dies (a panic, log.Fatal, a kill) and may be   *)
(* started again; the network tears a connection; the server process dies  *)
(* and starts over, as it keeps nothing on disk that it reads again.       *)
(* Bytes not yet read may be lost with a connection.                       *)

Fault(kind) ==
  /\ kind \in FaultKinds
  /\ faults < MaxFaults
  /\ faults' = faults + 1
  /\ UNCHANGED <<prepared, released, finished>>

WorkerCrash(w) ==
  /\ Fault("worker")
  /\ wpc[w] \notin {Stopped, "crashed"}
  /\ Leave(w, "crashed")
  /\ wTest' = [wTest EXCEPT ![w] = None]
  /\ \E lost \in SUBSET {wConn[w]} : up' = [c \in Conn |-> IF c \in lost THEN <<>> ELSE up[c]]
  /\ UNCHANGED <<schedVars, chanVars, h, down, cut>>

WorkerRestart(w) ==
  /\ wpc[w] = "crashed"
  /\ wpc' = [wpc EXCEPT ![w] = "dial"]
  /\ UNCHANGED <<schedVars, chanVars, h, netVars, wConn, wTest, histVars>>

Reset(c) ==
  /\ Fault("network")
  /\ h[c] # "none"
  /\ cut' = cut \cup {c}
  /\ \E u \in {up[c], <<>>}, d \in {down[c], <<>>} :
       /\ up' = [up EXCEPT ![c] = u]
       /\ down' = [down EXCEPT ![c] = d]
  /\ UNCHANGED <<schedVars, chanVars, h, workerVars>>

ServerRestart ==
  /\ Fault("server")
  /\ sched' = "boot" /\ test' = 1 /\ cnt' = 0
  /\ team'      = [t \in Test |-> {}]
  /\ collected' = [t \in Test |-> {}]
  /\ doneCh'    = [t \in Test |-> 0]
  /\ contCh'    = [t \in Test |-> 0]
  /\ resultCh'  = [t \in Test |-> {}]
  /\ h' = [c \in Conn |-> IF h[c] = "none" THEN "none" ELSE "orphaned"]
  /\ UNCHANGED <<netVars, workerVars>>

Environment ==
  \/ \E w \in Worker : WorkerCrash(w) \/ WorkerRestart(w)
  \/ \E c \in Conn : Reset(c)
  \/ ServerRestart

-----------------------------------------------------------------------------
Init ==
  /\ sched = "boot" /\ test = 1 /\ cnt = 0
  /\ team      = [t \in Test |-> {}]
  /\ collected = [t \in Test |-> {}]
  /\ doneCh    = [t \in Test |-> 0]
  /\ contCh    = [t \in Test |-> 0]
  /\ resultCh  = [t \in Test |-> {}]
  /\ h     = [c \in Conn |-> "none"]
  /\ up    = [c \in Conn |-> <<>>]
  /\ down  = [c \in Conn |-> <<>>]
  /\ cut   = {}
  /\ wpc   = [w \in Worker |-> "dial"]
  /\ wConn = [w \in Worker |-> None]
  /\ wTest = [w \in Worker |-> None]
  /\ prepared = {} /\ released = {} /\ finished = {}
  /\ faults = 0

Next ==
  \/ Scheduler
  \/ \E c \in Conn : Handler(c)
  \/ \E w \in Worker : WorkerStep(w)
  \/ Environment

Spec == Init /\ [][Next]_vars

\* The Go runtime runs every goroutine that can run, the S3 calls behind
\* Prepare and perfTest return, and a supervisor starts dead workers again.
\* Nothing obliges a fault to happen.
Fairness ==
  /\ WF_vars(Scheduler)
  /\ \A c \in Conn : WF_vars(Handler(c))
  /\ \A w \in Worker : WF_vars(WorkerStep(w)) /\ WF_vars(WorkerRestart(w))

FairSpec == Spec /\ Fairness

-----------------------------------------------------------------------------
(* Properties.                                                             *)

HandlerAt == {"none", "greet", "parked", "init", "decode", "gotPrepared", "await",
              "gotWork", "result", "closing", "closed", "dropped", "drained", "orphaned"}
WorkerAt  == {"dial", "backoff", "recv", "prepare", "perf", "crashed", Stopped}
UpMsg     == {"ready for work", "preparations done", "work done"}
DownMsg   == [kind : {"init", "start work", "shutdown"}, test : Test \cup {None}]

\* Every variable keeps its type; the scheduler's loop counter stays below
\* test.Workers, it is past the last test exactly when it drains, and a worker
\* has a connection exactly while it talks to a server.
TypeOK ==
  /\ sched \in {"boot", "take", "prep", "start", "collect", "result", "report", "drain"}
  /\ test \in 1..(NumTests + 1) /\ (test = NumTests + 1 <=> sched = "drain")
  /\ cnt \in Nat /\ (test \in Test => cnt < TeamSize[test])
  /\ team \in [Test -> SUBSET Conn] /\ collected \in [Test -> SUBSET Conn]
  /\ doneCh \in [Test -> Nat] /\ contCh \in [Test -> Nat] /\ resultCh \in [Test -> SUBSET Conn]
  /\ h \in [Conn -> HandlerAt] /\ cut \subseteq Conn
  /\ up \in [Conn -> Seq(UpMsg)] /\ down \in [Conn -> Seq(DownMsg)]
  /\ wpc \in [Worker -> WorkerAt] /\ wConn \in [Worker -> Conn \cup {None}]
  /\ \A w \in Worker : wConn[w] = None <=> wpc[w] \notin {"recv", "prepare", "perf"}
  /\ wTest \in [Worker -> Test \cup {None}]
  /\ prepared \subseteq Conn /\ released \subseteq Conn /\ finished \subseteq Conn
  /\ faults \in Nat

\* A worker whose connection is one of the running server's, and one whose server
\* died: it does not notice before it next reads or writes.
Serves(w)   == wConn[w] # None /\ h[wConn[w]] # "orphaned"
Orphaned(w) == wConn[w] # None /\ h[wConn[w]] = "orphaned"

\* A worker puts load on the store only when the team of its test is full and
\* every member of it has finished preparing: the two loops over one
\* doneChannel and continueWorkers are a barrier, whoever is lost on the way.  The
\* team of an orphan is not kept: it came through the barrier of its own server.
StartBarrier ==
  \A w \in Worker : wpc[w] = "perf" /\ Serves(w) =>
    LET t == wTest[w] IN
      /\ t \in Test
      /\ wConn[w] \in team[t]
      /\ Cardinality(team[t]) = TeamSize[t]
      /\ team[t] \subseteq prepared

\* Tests of one server never overlap: whoever prepares or performs does it for the
\* test the scheduler is at, and preparation and load of one test do not overlap.
\* Only orphans of a server that died may be at another test or phase; they are
\* beside the next server's tests, and OrphansPhase says for how long.
NoOverlap ==
  \A w \in Worker : wpc[w] \in {"prepare", "perf"} =>
    \/ Orphaned(w)
    \/ /\ wTest[w] = test
       /\ sched \in IF wpc[w] = "prepare" THEN {"take", "prep"} ELSE {"start", "collect", "result"}

\* A worker does at most one more phase for a server that died, the one it is in
\* or whose message is in its socket, and none that comes after it: an orphan
\* overlaps with one phase's work only.
Busy(c) == \E w \in Worker : wConn[w] = c /\ wpc[w] \in {"prepare", "perf"}
Phases(c) == Len(down[c]) + IF Busy(c) THEN 1 ELSE 0
OrphansPhase ==
  [][\A c \in Conn : h[c] = "orphaned" => Phases(c) <= 1 /\ Phases(c)' <= Phases(c)]_vars

\* And it comes back to the server that runs.
OrphansLeave ==
  \A w \in Worker : Orphaned(w) ~> ~Orphaned(w)

\* The row of a test sums one result of every member of a full team, and each
\* of them had finished its load: doneChannel and resultChannel agree though
\* a token of one handler may be followed by the result of another.
RowsComplete ==
  \A t \in Test : t < test =>
    /\ Cardinality(team[t]) = TeamSize[t]
    /\ collected[t] = team[t]
    /\ team[t] \subseteq finished

\* Buffers of test.Workers are enough: no handler ever waits to send, though
\* doneChannel carries the tokens of two phases.
SendNeverBlocks ==
  \A t \in Test : \A c \in team[t] :
    /\ h[c] \in {"gotPrepared", "gotWork"} => doneCh[t] < Capacity(t)
    /\ h[c] = "result" => Cardinality(resultCh[t]) < Capacity(t)

\* Server and worker take turns, so nothing follows the greeting into the
\* buffer of its decoder (server/main.go:109), which executeTestOnWorker
\* replaces by another one (server/main.go:218).
Lockstep ==
  \A c \in Conn : Len(up[c]) + Len(down[c]) <= 1

\* A member lost before its result stops the benchmark: its test is never
\* reported and no later one starts, as nothing times out or replaces it.
LostMemberStalls ==
  \A t \in Test : \A c \in team[t] : h[c] = "dropped" => test = t

\* A worker process ends only after the server that runs has reported its last
\* test, as long as every test yields work.  Only an orphan may end earlier: the
\* server that died had been done and had told it to.
ExitOnlyAfterLastReport ==
  [][\A w \in Worker : wpc'[w] = Stopped /\ wpc[w] # Stopped =>
       test = NumTests + 1 \/ Orphaned(w)]_vars

\* Unless a fault happens every worker stops for good in the end; with
\* ExitOnlyAfterLastReport every test has been reported then.
AllStopped == <>(faults > 0) \/ <>[](\A w \in Worker : wpc[w] = Stopped)

\* With faults the benchmark still ends unless a member of the current team was
\* dropped: a worker lost while it served no test is replaced by whoever dials
\* next, unless its connection was parked and is given to the team.
EndsUnlessMemberLost ==
  <>(test = NumTests + 1 \/ \E c \in team[test] : h[c] = "dropped")

\* worker/main.go:166: told to start without a work queue, the worker reconnects.
IncompleteReconnects ==
  [][\A w \in Worker : RecvStart(w) => wpc'[w] # Stopped]_vars

\* The rounds of the benchmark, as a reader of the results sees them.
CurrentTeam == IF test \in Test THEN team[test] ELSE {}
R == INSTANCE Rounds WITH
       round   <- test,
       used    <- UNION {team[t] : t \in Test},
       members <- CurrentTeam,
       ready   <- prepared \cap CurrentTeam,
       running <- sched \in {"start", "collect", "result", "report"},
       done    <- finished \cap CurrentTeam
RoundsSpec == R!Spec

-----------------------------------------------------------------------------
(* Why the barrier holds: an inductive invariant.                          *)

Serving == {"init", "decode", "gotPrepared", "await", "gotWork", "result", "closing",
            "closed", "dropped"}

\* The load of t was let loose.
Started(t) == t < test \/ (t = test /\ sched \in {"start", "collect", "result", "report"})

Awaiting(t) == {c \in team[t] : h[c] = "await"}

\* A connection serves one test, and no test has anything before its turn.
TeamsInv ==
  /\ \A t \in Test : IsFiniteSet(team[t]) /\ \A c \in team[t] : h[c] \in Serving
  /\ \A t, u \in Test : t # u => team[t] \cap team[u] = {}
  /\ \A t \in Test : t > test \/ sched = "boot" =>
       team[t] = {} /\ doneCh[t] = 0 /\ contCh[t] = 0

\* The loops count: members taken, and handlers that wait to continue.
CountInv ==
  /\ \A t \in Test : t < test => Cardinality(team[t]) = TeamSize[t]
  /\ sched \notin {"boot", "take", "drain"} => Cardinality(team[test]) = TeamSize[test]
  /\ sched = "take" => Cardinality(team[test]) = cnt /\ doneCh[test] = Cardinality(Awaiting(test))
  /\ sched = "prep" => doneCh[test] + cnt = Cardinality(Awaiting(test))

\* Whoever may start belongs to a test whose load was let loose, and such a
\* test has a prepared team.
ReleaseInv ==
  \A t \in Test :
    /\ contCh[t] > 0 \/ team[t] \cap released # {} => Started(t)
    /\ Started(t) => team[t] \subseteq prepared

\* Every sign of progress on a connection goes back to the step that caused it.
EvidenceInv ==
  /\ released \subseteq prepared
  /\ \A c \in Conn :
       /\ (\E m \in Range(down[c]) : m.kind = "start work") => c \in released
       /\ "work done" \in Range(up[c]) \/ h[c] = "gotWork" => c \in released
       /\ "preparations done" \in Range(up[c]) \/ h[c] \in {"gotPrepared", "await"} => c \in prepared
       /\ h[c] \in {"none", "greet", "parked", "init"} => c \notin released
       /\ h[c] = "none" => c \notin prepared
  /\ \A w \in Worker : wpc[w] = "perf" => wConn[w] \in released

\* A connection has one worker, and binds it to the test of its team.
BindInv ==
  /\ \A v, w \in Worker : wConn[v] = wConn[w] /\ wConn[w] # None => v = w
  /\ \A w \in Worker : wConn[w] # None => h[wConn[w]] # "none"
  /\ \A c \in Conn : h[c] # "orphaned" =>
       \A m \in Range(down[c]) : m.kind = "init" => m.test \in Test /\ c \in team[m.test]
  /\ \A w \in Worker : Serves(w) /\ (wpc[w] = "prepare" \/ wConn[w] \in prepared) =>
       wTest[w] \in Test /\ wConn[w] \in team[wTest[w]]

\* The barrier holds because connections, tokens and evidence agree.
BarrierInv == TeamsInv /\ CountInv /\ ReleaseInv /\ EvidenceInv /\ BindInv

-----------------------------------------------------------------------------
(* Why tests do not overlap, rows are complete and sends never wait.       *)

\* The server's goroutine has the turn on its connection.
Holding == {"none", "parked", "init", "gotPrepared", "await", "gotWork", "result", "closing"}

\* A connection has one turn: the goroutine's, a message's, or the worker's.
Turn(c) ==
  /\ Len(up[c]) + Len(down[c]) <= 1
  /\ h[c] \in Holding \/ Busy(c) => up[c] = <<>> /\ down[c] = <<>>
  /\ ~(h[c] \in Holding /\ Busy(c))
TurnInv == \A c \in Conn : Turn(c)

\* A worker prepares once on a connection, before it is released; it is told to
\* work, and works, only while the handler waits for its answer or is gone.
Waiting == {"decode", "dropped", "orphaned"}
FreshInv ==
  /\ \A c \in Conn :
       /\ \A m \in Range(down[c]) :
            /\ m.kind = "init" => c \notin prepared
            /\ m.kind # "shutdown" => h[c] \in Waiting
       /\ h[c] \in {"none", "greet", "parked", "init"} => c \notin prepared
       /\ "preparations done" \in Range(up[c]) \/ h[c] \in {"gotPrepared", "await"} => c \notin released
  /\ \A w \in Worker : wpc[w] \in {"prepare", "perf"} =>
       /\ wpc[w] = "prepare" => wConn[w] \notin prepared
       /\ h[wConn[w]] \in Waiting

\* Once the load of a test is let loose, no member is still in its first phase.
PhaseInv ==
  \A t \in Test : \A c \in team[t] : Started(t) =>
    /\ h[c] \notin {"init", "gotPrepared"}
    /\ h[c] = "decode" => c \in released

\* All results of t were collected.
Summed(t) == t < test \/ (t = test /\ sched = "report")

\* Members that signalled the end of their load, and those that sent a result
PastWork(t) == {c \in team[t] : h[c] \in {"result", "closing", "closed"}}
Sent(t)     == {c \in team[t] : h[c] \in {"closing", "closed"}}

\* The second phase counts on doneChannel as the first one does.
TokenInv ==
  /\ \A t \in Test : Summed(t) => PastWork(t) = team[t]
  /\ sched \in {"take", "prep"} => PastWork(test) = {}
  /\ sched = "start"   => doneCh[test] = Cardinality(PastWork(test))
  /\ sched = "collect" => doneCh[test] + cnt = Cardinality(PastWork(test))
  /\ sched = "result"  => doneCh[test] + cnt + 1 = Cardinality(PastWork(test))

\* A result is in the channel or with the scheduler, and the scheduler has as
\* many as its loop counted.
ResultInv ==
  /\ \A t \in Test : /\ resultCh[t] \cap collected[t] = {}
                     /\ resultCh[t] \cup collected[t] = Sent(t)
                     /\ Summed(t) => collected[t] = team[t]
  /\ sched \in {"take", "prep", "start"} => collected[test] = {}
  /\ sched \in {"collect", "result"} => Cardinality(collected[test]) = cnt

\* Nobody is past its load without having finished it.
FinishedInv ==
  /\ finished \subseteq released
  /\ \A c \in Conn : "work done" \in Range(up[c]) \/ h[c] = "gotWork" => c \in finished
  /\ \A t \in Test : PastWork(t) \subseteq finished

RowsInv == TurnInv /\ FreshInv /\ PhaseInv /\ TokenInv /\ ResultInv /\ FinishedInv

\* Barrier and rows hold because turns, tokens, results and evidence agree.
ServerInv == BarrierInv /\ RowsInv

\* Only a server that is done shuts workers down.
ExitInv ==
  \A c \in Conn : h[c] # "orphaned" /\ (\E m \in Range(down[c]) : m.kind = "shutdown") =>
    sched = "drain"
=============================================================================
