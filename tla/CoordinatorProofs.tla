------------------------- MODULE CoordinatorProofs -------------------------
(***************************************************************************)
(* Proofs about Coordinator, for every number of workers, connections and  *)
(* tests, every team size, and any number of faults of any kind: its types *)
(* and the start barrier of the server.                                    *)
(***************************************************************************)
EXTENDS Coordinator, FiniteSetTheorems, TLAPS

(***************************************************************************)
(* Types.                                                                  *)
(***************************************************************************)

\* Until it drains the scheduler is at a test of the configuration.
LEMMA AtTest == TypeOK /\ sched # "drain" => test \in Test
  BY TestsAssumption DEF TypeOK, Test

\* What one round of a loop over the workers of the test does.
LEMMA LoopStep ==
  ASSUME TypeOK, test \in Test, NEW again, NEW next, LoopOr(again, next)
  PROVE  /\ cnt' \in Nat /\ cnt' < TeamSize[test]
         /\ \/ sched' = again /\ cnt' = cnt + 1
            \/ sched' = next /\ cnt' = 0 /\ TeamSize[test] = cnt + 1
<1>1. TeamSize[test] \in Nat /\ TeamSize[test] > 0
  BY TeamAssumption
<1>2. cnt \in Nat /\ cnt < TeamSize[test]
  BY DEF TypeOK
<1> QED
  BY <1>1, <1>2 DEF LoopOr, Loop, Goto

\* Everything but the variables an action assigns keeps its type.
LEMMA InitTypeOK == Init => TypeOK
<1> SUFFICES ASSUME Init PROVE TypeOK
  OBVIOUS
<1>1. test \in 1..(NumTests + 1) /\ test # NumTests + 1 /\ cnt < TeamSize[test] /\ test \in Test
  BY TestsAssumption, TeamAssumption DEF Init, Test
<1> QED
  BY <1>1 DEF Init, TypeOK, HandlerAt, WorkerAt

\* What the network operations do to the types of the two streams.
LEMMA SendDownType ==
  ASSUME TypeOK, NEW c \in Conn, NEW m \in DownMsg, SendDown(c, m)
  PROVE  down' \in [Conn -> Seq(DownMsg)]
<1>1. down \in [Conn -> Seq(DownMsg)]
  BY DEF TypeOK
<1> QED
  BY <1>1 DEF SendDown

\* A message read from an upward stream leaves a stream of messages.
LEMMA UpTail ==
  ASSUME TypeOK, NEW c \in Conn, up[c] # <<>>
  PROVE  /\ [up EXCEPT ![c] = Tail(@)] \in [Conn -> Seq(UpMsg)]
         /\ [up EXCEPT ![c] = <<>>] \in [Conn -> Seq(UpMsg)]
<1>1. up \in [Conn -> Seq(UpMsg)]
  BY DEF TypeOK
<1>2. Tail(up[c]) \in Seq(UpMsg) /\ <<>> \in Seq(UpMsg)
  BY <1>1
<1> QED
  BY <1>1, <1>2

\* So does a message sent on it.
LEMMA UpAppend ==
  ASSUME TypeOK, NEW c \in Conn, NEW m \in UpMsg
  PROVE  [up EXCEPT ![c] = Append(@, m)] \in [Conn -> Seq(UpMsg)]
<1>1. up \in [Conn -> Seq(UpMsg)]
  BY DEF TypeOK
<1> QED
  BY <1>1

\* Every step of the scheduler keeps the types, and its counter in the loop.
LEMMA SchedulerTypeOK == TypeOK /\ Scheduler => TypeOK'
<1> SUFFICES ASSUME TypeOK, Scheduler PROVE TypeOK'
  OBVIOUS
<1> USE DEF schedVars, chanVars, netVars, workerVars, histVars
<1>1. CASE Listen
  <2>1. test \in Test /\ TeamSize[test] > 0
    BY <1>1, AtTest, TeamAssumption DEF Listen
  <2> QED
    BY <1>1, <2>1 DEF Listen, Goto, TypeOK, HandlerAt, WorkerAt, Stopped
<1>2. CASE AwaitPrepared
  <2>1. test \in Test
    BY <1>2, AtTest DEF AwaitPrepared
  <2>2. sched' \in {"prep", "start"} /\ cnt' \in Nat /\ cnt' < TeamSize[test]
    BY <1>2, <2>1, LoopStep DEF AwaitPrepared
  <2>3. doneCh' \in [Test -> Nat]
    BY <1>2, <2>1 DEF AwaitPrepared, TypeOK
  <2> QED
    BY <1>2, <2>1, <2>2, <2>3 DEF AwaitPrepared, TypeOK, HandlerAt, WorkerAt, Stopped
<1>3. CASE LetContinue
  <2>1. test \in Test
    BY <1>3, AtTest DEF LetContinue
  <2>2. sched' \in {"start", "collect"} /\ cnt' \in Nat /\ cnt' < TeamSize[test]
    BY <1>3, <2>1, LoopStep DEF LetContinue
  <2>3. contCh' \in [Test -> Nat]
    BY <1>3, <2>1 DEF LetContinue, TypeOK
  <2> QED
    BY <1>3, <2>1, <2>2, <2>3 DEF LetContinue, TypeOK, HandlerAt, WorkerAt, Stopped
<1>4. CASE AwaitWorkDone
  <2>1. test \in Test
    BY <1>4, AtTest DEF AwaitWorkDone
  <2>2. doneCh' \in [Test -> Nat]
    BY <1>4, <2>1 DEF AwaitWorkDone, TypeOK
  <2> QED
    BY <1>4, <2>1, <2>2 DEF AwaitWorkDone, TypeOK, HandlerAt, WorkerAt, Stopped
<1>5. CASE CollectResult
  <2>1. test \in Test
    BY <1>5, AtTest DEF CollectResult
  <2>2. sched' \in {"collect", "report"} /\ cnt' \in Nat /\ cnt' < TeamSize[test]
    BY <1>5, <2>1, LoopStep DEF CollectResult
  <2>3. resultCh' \in [Test -> SUBSET Conn] /\ collected' \in [Test -> SUBSET Conn]
    BY <1>5, <2>1 DEF CollectResult, TypeOK
  <2> QED
    BY <1>5, <2>1, <2>2, <2>3 DEF CollectResult, TypeOK, HandlerAt, WorkerAt, Stopped
<1>6. CASE Report
  <2>1. test \in Test
    BY <1>6, AtTest DEF Report
  <2>2. test' \in 1..(NumTests + 1) /\ (test' = NumTests + 1 <=> sched' = "drain")
    BY <1>6, <2>1, TestsAssumption DEF Report, Goto, Test
  <2>3. cnt' \in Nat /\ (test' \in Test => cnt' < TeamSize[test'])
    BY <1>6, TeamAssumption DEF Report, Goto
  <2>4. sched' \in {"take", "drain"}
    BY <1>6 DEF Report, Goto
  <2> QED
    BY <1>6, <2>2, <2>3, <2>4 DEF Report, TypeOK, HandlerAt, WorkerAt, Stopped
<1>7. ASSUME NEW c \in Conn, TakeWorker(c) PROVE TypeOK'
  <2>1. test \in Test
    BY <1>7, AtTest DEF TakeWorker
  <2>2. sched' \in {"take", "prep"} /\ cnt' \in Nat /\ cnt' < TeamSize[test]
    BY <1>7, <2>1, LoopStep DEF TakeWorker
  <2>3. team' \in [Test -> SUBSET Conn] /\ h' \in [Conn -> HandlerAt]
    BY <1>7, <2>1 DEF TakeWorker, TypeOK, HandlerAt
  <2> QED
    BY <1>7, <2>1, <2>2, <2>3 DEF TakeWorker, TypeOK, WorkerAt, Stopped
<1>8. ASSUME NEW c \in Conn, ShutdownWorker(c) PROVE TypeOK'
  <2>1. h' \in [Conn -> HandlerAt]
    BY <1>8 DEF ShutdownWorker, TypeOK, HandlerAt
  <2>2. M("shutdown") \in DownMsg
    BY DEF M, DownMsg
  <2>3. down' \in [Conn -> Seq(DownMsg)]
    BY <1>8, <2>2, SendDownType DEF ShutdownWorker
  <2> QED
    BY <1>8, <2>1, <2>3 DEF ShutdownWorker, TypeOK, WorkerAt, Stopped
<1> QED
  BY <1>1, <1>2, <1>3, <1>4, <1>5, <1>6, <1>7, <1>8 DEF Scheduler

\* Every step of a connection's goroutine keeps the types.
LEMMA HandlerTypeOK == \A c \in Conn : TypeOK /\ Handler(c) => TypeOK'
<1> SUFFICES ASSUME NEW c \in Conn, TypeOK, Handler(c) PROVE TypeOK'
  OBVIOUS
<1> USE DEF schedVars, chanVars, netVars, workerVars, histVars
<1>1. CASE Greet(c)
  <2>1. h' \in [Conn -> HandlerAt]
    BY <1>1 DEF Greet, TypeOK, HandlerAt
  <2>2. up' \in [Conn -> Seq(UpMsg)]
    BY <1>1, UpTail, ZenonT(40) DEF Greet
  <2> QED
    BY <1>1, <2>1, <2>2 DEF Greet, TypeOK, WorkerAt, Stopped
<1>2. CASE Drop(c)
  <2>1. h' \in [Conn -> HandlerAt]
    BY <1>2 DEF Drop, TypeOK, HandlerAt
  <2> QED
    BY <1>2, <2>1 DEF Drop, TypeOK, WorkerAt, Stopped
<1>3. CASE Decode(c)
  <2>1. h' \in [Conn -> HandlerAt]
    BY <1>3 DEF Decode, TypeOK, HandlerAt
  <2>2. up' \in [Conn -> Seq(UpMsg)]
    BY <1>3, UpTail DEF Decode
  <2> QED
    BY <1>3, <2>1, <2>2 DEF Decode, TypeOK, WorkerAt, Stopped
<1>4. CASE CloseConn(c)
  <2>1. h' \in [Conn -> HandlerAt]
    BY <1>4 DEF CloseConn, TypeOK, HandlerAt
  <2> QED
    BY <1>4, <2>1 DEF CloseConn, TypeOK, WorkerAt, Stopped
<1>5. ASSUME NEW t \in Test, SendInit(t, c) PROVE TypeOK'
  <2>1. h' \in [Conn -> HandlerAt]
    BY <1>5 DEF SendInit, TypeOK, HandlerAt
  <2>2. InitMsg(t) \in DownMsg
    BY DEF InitMsg, DownMsg
  <2>3. down' \in [Conn -> Seq(DownMsg)]
    BY <1>5, <2>2, SendDownType DEF SendInit
  <2> QED
    BY <1>5, <2>1, <2>3 DEF SendInit, TypeOK, WorkerAt, Stopped
<1>6. ASSUME NEW t \in Test, SignalDone(t, c) PROVE TypeOK'
  <2>1. h' \in [Conn -> HandlerAt]
    BY <1>6 DEF SignalDone, TypeOK, HandlerAt
  <2>2. doneCh' \in [Test -> Nat]
    BY <1>6 DEF SignalDone, TypeOK
  <2> QED
    BY <1>6, <2>1, <2>2 DEF SignalDone, TypeOK, WorkerAt, Stopped
<1>7. ASSUME NEW t \in Test, SendStart(t, c) PROVE TypeOK'
  <2>1. h' \in [Conn -> HandlerAt]
    BY <1>7 DEF SendStart, TypeOK, HandlerAt
  <2>2. M("start work") \in DownMsg
    BY DEF M, DownMsg
  <2>3. down' \in [Conn -> Seq(DownMsg)]
    BY <1>7, <2>2, SendDownType DEF SendStart
  <2>4. contCh' \in [Test -> Nat]
    <3>1. contCh \in [Test -> Nat] /\ contCh[t] \in Nat /\ contCh[t] > 0
      BY <1>7 DEF SendStart, TypeOK
    <3>2. contCh[t] - 1 \in Nat
      BY <3>1
    <3> QED
      BY <1>7, <3>1, <3>2 DEF SendStart
  <2>5. released' \subseteq Conn
    BY <1>7 DEF SendStart, TypeOK
  <2> QED
    BY <1>7, <2>1, <2>3, <2>4, <2>5 DEF SendStart, TypeOK, WorkerAt, Stopped
<1>8. ASSUME NEW t \in Test, SendResult(t, c) PROVE TypeOK'
  <2>1. h' \in [Conn -> HandlerAt]
    BY <1>8 DEF SendResult, TypeOK, HandlerAt
  <2>2. resultCh' \in [Test -> SUBSET Conn]
    BY <1>8 DEF SendResult, TypeOK
  <2> QED
    BY <1>8, <2>1, <2>2 DEF SendResult, TypeOK, WorkerAt, Stopped
<1> QED
  BY <1>1, <1>2, <1>3, <1>4, <1>5, <1>6, <1>7, <1>8 DEF Handler

\* A worker at one of these points has a connection.
LEMMA HasConn ==
  ASSUME TypeOK, NEW w \in Worker, wpc[w] \in {"recv", "prepare", "perf"}
  PROVE  wConn[w] \in Conn
  BY DEF TypeOK

\* Leaving for a state without a connection keeps the workers' types.
LEMMA LeaveType ==
  ASSUME TypeOK, NEW w \in Worker, NEW next \in {"backoff", "crashed", Stopped}, Leave(w, next)
  PROVE  /\ wpc' \in [Worker -> WorkerAt]
         /\ wConn' \in [Worker -> Conn \cup {None}]
         /\ \A v \in Worker : wConn'[v] = None <=> wpc'[v] \notin {"recv", "prepare", "perf"}
  BY DEF TypeOK, Leave, WorkerAt, Stopped

\* An answer keeps the types, whichever way Encode ends.
LEMMA AnswerType ==
  ASSUME TypeOK, NEW w \in Worker, NEW m \in UpMsg, wConn[w] \in Conn, Answer(w, m)
  PROVE  /\ wpc' \in [Worker -> WorkerAt]
         /\ wConn' \in [Worker -> Conn \cup {None}]
         /\ \A v \in Worker : wConn'[v] = None <=> wpc'[v] \notin {"recv", "prepare", "perf"}
         /\ up' \in [Conn -> Seq(UpMsg)]
<1>1. CASE Leave(w, "backoff") /\ UNCHANGED up
  BY <1>1, LeaveType DEF TypeOK
<1>2. CASE /\ wpc' = [wpc EXCEPT ![w] = "recv"]
           /\ up' = IF ServerGone(wConn[w]) THEN up ELSE [up EXCEPT ![wConn[w]] = Append(@, m)]
           /\ UNCHANGED wConn
  <2>1. up' \in [Conn -> Seq(UpMsg)]
    BY <1>2 DEF TypeOK
  <2>2. wConn[w] # None
    BY NoneAssumption
  <2> QED
    BY <1>2, <2>1, <2>2 DEF TypeOK, WorkerAt
<1> QED
  BY <1>1, <1>2 DEF Answer

\* Every step of a worker keeps the types, and its connection while it talks.
LEMMA WorkerTypeOK == \A w \in Worker : TypeOK /\ WorkerStep(w) => TypeOK'
<1> SUFFICES ASSUME NEW w \in Worker, TypeOK, WorkerStep(w) PROVE TypeOK'
  OBVIOUS
<1> USE DEF schedVars, chanVars, netVars, workerVars, histVars
<1>1. CASE Dial(w)
  <2> DEFINE c == CHOOSE c \in Conn : h[c] = "none"
  <2>1. c \in Conn
    BY <1>1 DEF Dial
  <2>2. h' \in [Conn -> HandlerAt] /\ up' \in [Conn -> Seq(UpMsg)]
    <3>1. h' = [h EXCEPT ![c] = "greet"] /\ up' = [up EXCEPT ![c] = Append(@, "ready for work")]
      BY <1>1 DEF Dial
    <3> HIDE DEF c
    <3>2. "ready for work" \in UpMsg
      BY DEF UpMsg
    <3> QED
      BY <3>1, <3>2, <2>1, UpAppend DEF TypeOK, HandlerAt
  <2>3. /\ wpc' \in [Worker -> WorkerAt]
        /\ wConn' \in [Worker -> Conn \cup {None}]
        /\ \A v \in Worker : wConn'[v] = None <=> wpc'[v] \notin {"recv", "prepare", "perf"}
    <3>1. wConn' = [wConn EXCEPT ![w] = c] /\ wpc' = [wpc EXCEPT ![w] = "recv"] /\ c # None
      BY <1>1, <2>1, NoneAssumption DEF Dial
    <3> HIDE DEF c
    <3> QED
      BY <3>1, <2>1 DEF TypeOK, WorkerAt
  <2> QED
    BY <1>1, <2>2, <2>3 DEF Dial, TypeOK, Stopped, WorkerAt
<1>2. CASE DialRefused(w)
  BY <1>2 DEF DialRefused, TypeOK, WorkerAt, HandlerAt, Stopped
<1>3. CASE Wake(w)
  BY <1>3 DEF Wake, TypeOK, WorkerAt, HandlerAt, Stopped
<1>4. ASSUME NEW kind, Receives(w, kind)
      PROVE  /\ wConn[w] \in Conn
             /\ down' \in [Conn -> Seq(DownMsg)]
             /\ Head(down[wConn[w]]) \in DownMsg
             /\ h' \in [Conn -> HandlerAt] /\ up' \in [Conn -> Seq(UpMsg)]
  <2>1. wConn[w] \in Conn
    BY <1>4, HasConn DEF Receives
  <2> QED
    BY <1>4, <2>1 DEF Receives, TypeOK
<1>5. CASE RecvInit(w)
  <2>1. Head(down[wConn[w]]).test \in Test \cup {None}
    BY <1>4, <1>5 DEF RecvInit, DownMsg
  <2>2. /\ wTest' \in [Worker -> Test \cup {None}]
        /\ wpc' \in [Worker -> WorkerAt]
        /\ \A v \in Worker : wConn'[v] = None <=> wpc'[v] \notin {"recv", "prepare", "perf"}
    BY <1>5, <2>1 DEF RecvInit, Receives, TypeOK, WorkerAt
  <2> QED
    BY <1>4, <1>5, <2>2 DEF RecvInit, Receives, TypeOK, Stopped, WorkerAt
<1>6. CASE RecvStart(w)
  <2>1. /\ wConn' \in [Worker -> Conn \cup {None}]
        /\ wpc' \in [Worker -> WorkerAt]
        /\ \A v \in Worker : wConn'[v] = None <=> wpc'[v] \notin {"recv", "prepare", "perf"}
    <3>1. CASE Leave(w, Stopped)
      BY <3>1, LeaveType
    <3>2. CASE wpc' = [wpc EXCEPT ![w] = "perf"] /\ UNCHANGED wConn
      BY <3>2, <1>6 DEF RecvStart, Receives, TypeOK, WorkerAt
    <3> QED
      BY <1>6, <3>1, <3>2 DEF RecvStart
  <2> QED
    BY <1>4, <1>6, <2>1 DEF RecvStart, Receives, TypeOK, Stopped, WorkerAt
<1>7. CASE RecvShutdown(w)
  BY <1>4, <1>7, LeaveType DEF RecvShutdown, Receives, TypeOK, Stopped, WorkerAt
<1>8. CASE RecvError(w)
  BY <1>8, LeaveType DEF RecvError, TypeOK, Stopped, WorkerAt, HandlerAt
<1>9. CASE FinishPrepare(w)
  <2>1. wConn[w] \in Conn /\ prepared' \subseteq Conn
    BY <1>9, HasConn DEF FinishPrepare, TypeOK
  <2> QED
    BY <1>9, <2>1, AnswerType DEF FinishPrepare, TypeOK, Stopped, WorkerAt, HandlerAt, UpMsg
<1>10. CASE FinishWork(w)
  <2>1. wConn[w] \in Conn /\ finished' \subseteq Conn
    BY <1>10, HasConn DEF FinishWork, TypeOK
  <2> QED
    BY <1>10, <2>1, AnswerType DEF FinishWork, TypeOK, Stopped, WorkerAt, HandlerAt, UpMsg
<1> QED
  BY <1>1, <1>2, <1>3, <1>5, <1>6, <1>7, <1>8, <1>9, <1>10 DEF WorkerStep

\* Every fault, and a worker's restart, keeps the types.
LEMMA EnvironmentTypeOK == TypeOK /\ Environment => TypeOK'
<1> SUFFICES ASSUME TypeOK, Environment PROVE TypeOK'
  OBVIOUS
<1> USE DEF schedVars, chanVars, netVars, workerVars, histVars
<1>1. ASSUME NEW w \in Worker, WorkerCrash(w) PROVE TypeOK'
  <2>1. wTest' \in [Worker -> Test \cup {None}] /\ up' \in [Conn -> Seq(UpMsg)] /\ faults' \in Nat
    BY <1>1 DEF WorkerCrash, Fault, TypeOK
  <2>2. Leave(w, "crashed")
    BY <1>1 DEF WorkerCrash
  <2>3. UNCHANGED <<schedVars, chanVars, h, down, cut, prepared, released, finished>>
    BY <1>1 DEF WorkerCrash, Fault
  <2> QED
    BY <2>1, <2>2, <2>3, LeaveType DEF TypeOK, Stopped, WorkerAt
<1>2. ASSUME NEW w \in Worker, WorkerRestart(w) PROVE TypeOK'
  BY <1>2 DEF WorkerRestart, TypeOK, WorkerAt, HandlerAt, Stopped
<1>3. ASSUME NEW c \in Conn, Reset(c) PROVE TypeOK'
  <2>1. up' \in [Conn -> Seq(UpMsg)] /\ down' \in [Conn -> Seq(DownMsg)] /\ cut' \subseteq Conn
    <3>1. up \in [Conn -> Seq(UpMsg)] /\ down \in [Conn -> Seq(DownMsg)] /\ cut \subseteq Conn
      BY DEF TypeOK
    <3>2. <<>> \in Seq(UpMsg) /\ <<>> \in Seq(DownMsg)
      OBVIOUS
    <3> QED
      BY <1>3, <3>1, <3>2 DEF Reset
  <2>2. faults' \in Nat /\ UNCHANGED <<schedVars, chanVars, h, workerVars, prepared, released, finished>>
    BY <1>3 DEF Reset, Fault, TypeOK
  <2> QED
    BY <2>1, <2>2 DEF TypeOK, Stopped, WorkerAt, HandlerAt
<1>4. CASE ServerRestart
  <2>1. /\ team' \in [Test -> SUBSET Conn] /\ collected' \in [Test -> SUBSET Conn]
        /\ doneCh' \in [Test -> Nat] /\ contCh' \in [Test -> Nat]
        /\ resultCh' \in [Test -> SUBSET Conn]
    BY <1>4 DEF ServerRestart
  <2>2. h' \in [Conn -> HandlerAt]
    BY <1>4 DEF ServerRestart, HandlerAt
  <2>3. /\ test' \in 1..(NumTests + 1) /\ (test' = NumTests + 1 <=> sched' = "drain")
        /\ cnt' \in Nat /\ (test' \in Test => cnt' < TeamSize[test'])
        /\ sched' = "boot"
    BY <1>4, TestsAssumption, TeamAssumption DEF ServerRestart, Test
  <2>4. faults' \in Nat /\ UNCHANGED <<netVars, workerVars, prepared, released, finished>>
    BY <1>4 DEF ServerRestart, Fault, TypeOK
  <2> QED
    BY <2>1, <2>2, <2>3, <2>4 DEF TypeOK, Stopped, WorkerAt
<1> QED
  BY <1>1, <1>2, <1>3, <1>4 DEF Environment

\* Every variable always has its type: the type invariant of Coordinator.
LEMMA StepTypeOK == TypeOK /\ [Next]_vars => TypeOK'
<1> SUFFICES ASSUME TypeOK, [Next]_vars PROVE TypeOK'
  OBVIOUS
<1>1. CASE UNCHANGED vars
  BY <1>1 DEF vars, schedVars, chanVars, netVars, workerVars, histVars, TypeOK, HandlerAt,
              WorkerAt, Stopped
<1>2. CASE Next
  BY <1>2, SchedulerTypeOK, HandlerTypeOK, WorkerTypeOK, EnvironmentTypeOK DEF Next
<1> QED
  BY <1>1, <1>2

\* The type invariant, for all workers, connections, tests, teams and faults.
THEOREM Typed == Spec => []TypeOK
  BY InitTypeOK, StepTypeOK, PTL DEF Spec

(***************************************************************************)
(* The start barrier: BarrierInv of Coordinator is inductive and implies   *)
(* StartBarrier.                                                           *)
(***************************************************************************)

(***************************************************************************)
(* Streams.                                                                *)
(***************************************************************************)

\* Appending a message adds it to the messages of a stream.
LEMMA RangeAppend ==
  ASSUME NEW S, NEW s \in Seq(S), NEW m \in S
  PROVE  Range(Append(s, m)) = Range(s) \cup {m}
<1>1. Len(s) \in Nat /\ DOMAIN s = 1..Len(s) /\ DOMAIN Append(s, m) = 1..(Len(s) + 1)
  OBVIOUS
<1>2. \A i \in 1..Len(s) : Append(s, m)[i] = s[i]
  OBVIOUS
<1>3. Append(s, m)[Len(s) + 1] = m
  OBVIOUS
<1>4. \A i : i \in 1..(Len(s) + 1) <=> i \in 1..Len(s) \/ i = Len(s) + 1
  BY <1>1
<1> QED
  BY <1>1, <1>2, <1>3, <1>4 DEF Range

\* Reading a message takes it from them and adds none.
LEMMA RangeTail ==
  ASSUME NEW S, NEW s \in Seq(S), s # <<>>
  PROVE  Head(s) \in Range(s) /\ Range(Tail(s)) \subseteq Range(s)
<1>1. Len(s) \in Nat /\ Len(s) > 0 /\ DOMAIN s = 1..Len(s)
  OBVIOUS
<1>2. Head(s) = s[1] /\ 1 \in 1..Len(s)
  BY <1>1
<1>3. DOMAIN Tail(s) = 1..(Len(s) - 1) /\ \A i \in 1..(Len(s) - 1) : Tail(s)[i] = s[i + 1]
  OBVIOUS
<1>4. \A i \in 1..(Len(s) - 1) : i + 1 \in 1..Len(s)
  BY <1>1
<1> QED
  BY <1>1, <1>2, <1>3, <1>4 DEF Range

\* A torn stream has no messages.
LEMMA RangeEmpty == Range(<<>>) = {}
  BY DEF Range

\* What SendDown can add to a stream.
LEMMA SendDownRange ==
  ASSUME TypeOK, NEW c \in Conn, NEW m \in DownMsg, SendDown(c, m), NEW d \in Conn
  PROVE  Range(down'[d]) \subseteq Range(down[d]) \cup (IF d = c THEN {m} ELSE {})
<1>1. down \in [Conn -> Seq(DownMsg)]
  BY DEF TypeOK
<1>2. Range(Append(down[c], m)) = Range(down[c]) \cup {m}
  BY <1>1, RangeAppend
<1> QED
  BY <1>1, <1>2 DEF SendDown

(***************************************************************************)
(* The sets that are counted.                                              *)
(***************************************************************************)

\* What TeamsInv and CountInv speak of.
teamVars == <<sched, test, cnt, team, doneCh, contCh, h>>

\* The handlers that wait are members of a finite team.
LEMMA AwaitingFinite ==
  ASSUME TeamsInv, NEW t \in Test
  PROVE  /\ IsFiniteSet(team[t]) /\ IsFiniteSet(Awaiting(t))
         /\ Cardinality(Awaiting(t)) \in Nat /\ Cardinality(team[t]) \in Nat
         /\ Cardinality(Awaiting(t)) <= Cardinality(team[t])
         /\ Cardinality(Awaiting(t)) = Cardinality(team[t]) => Awaiting(t) = team[t]
<1>1. IsFiniteSet(team[t])
  BY DEF TeamsInv
<1>2. Awaiting(t) \in SUBSET team[t]
  BY DEF Awaiting
<1> QED
  BY <1>1, <1>2, FS_Subset, FS_CardinalityType

\* The scheduler takes parked connections only, and only for the test it is at.
LEMMA TeamsScheduler == TypeOK /\ BarrierInv /\ Scheduler => TeamsInv'
<1> SUFFICES ASSUME TypeOK, TeamsInv, Scheduler PROVE TeamsInv'
  BY DEF BarrierInv
<1> USE DEF schedVars, chanVars
<1>1. CASE Listen
  BY <1>1 DEF Listen, Goto, TeamsInv, TypeOK, Test
<1>2. CASE AwaitPrepared
  <2>1. test \in Test /\ sched # "boot" /\ sched' # "boot"
    BY <1>2, AtTest, LoopStep DEF AwaitPrepared
  <2>2. \A t \in Test : t > test => doneCh'[t] = doneCh[t]
    BY <1>2, <2>1, TestsAssumption DEF AwaitPrepared, TypeOK, Test
  <2> QED
    BY <1>2, <2>1, <2>2 DEF AwaitPrepared, TeamsInv
<1>3. CASE LetContinue
  <2>1. test \in Test /\ sched # "boot" /\ sched' # "boot"
    BY <1>3, AtTest, LoopStep DEF LetContinue
  <2>2. \A t \in Test : t > test => contCh'[t] = contCh[t]
    BY <1>3, <2>1, TestsAssumption DEF LetContinue, TypeOK, Test
  <2> QED
    BY <1>3, <2>1, <2>2 DEF LetContinue, TeamsInv
<1>4. CASE AwaitWorkDone
  <2>1. test \in Test /\ sched # "boot" /\ sched' # "boot"
    BY <1>4, AtTest DEF AwaitWorkDone
  <2>2. \A t \in Test : t > test => doneCh'[t] = doneCh[t]
    BY <1>4, <2>1, TestsAssumption DEF AwaitWorkDone, TypeOK, Test
  <2> QED
    BY <1>4, <2>1, <2>2 DEF AwaitWorkDone, TeamsInv
<1>5. CASE CollectResult
  <2>1. test \in Test /\ sched # "boot" /\ sched' # "boot"
    BY <1>5, AtTest, LoopStep DEF CollectResult
  <2> QED
    BY <1>5, <2>1 DEF CollectResult, TeamsInv
<1>6. CASE Report
  <2>1. sched # "boot" /\ sched' # "boot" /\ test' = test + 1 /\ test \in Nat
    BY <1>6, AtTest DEF Report, Goto, Test
  <2>2. \A t \in Test : t > test' => t > test
    BY <2>1, TestsAssumption DEF Test
  <2> QED
    BY <1>6, <2>1, <2>2 DEF Report, TeamsInv
<1>7. ASSUME NEW c \in Conn, TakeWorker(c) PROVE TeamsInv'
  <2>1. test \in Test /\ sched # "boot" /\ sched' # "boot"
    BY <1>7, AtTest, LoopStep DEF TakeWorker
  <2>2. \A t \in Test : c \notin team[t]
    BY <1>7 DEF TakeWorker, TeamsInv, Serving
  <2>3. /\ test' = test /\ doneCh' = doneCh /\ contCh' = contCh
        /\ team' = [team EXCEPT ![test] = @ \cup {c}]
        /\ h' = [h EXCEPT ![c] = "init"]
    BY <1>7 DEF TakeWorker
  <2>4. team \in [Test -> SUBSET Conn] /\ h \in [Conn -> HandlerAt]
    BY DEF TypeOK
  <2>5. \A t \in Test : team'[t] = IF t = test THEN team[t] \cup {c} ELSE team[t]
    BY <2>1, <2>3, <2>4
  <2>6. \A t \in Test : IsFiniteSet(team'[t])
    <3>1. \A t \in Test : IsFiniteSet(team[t]) /\ IsFiniteSet(team[t] \cup {c})
      BY FS_AddElement DEF TeamsInv
    <3> QED
      BY <2>5, <3>1
  <2>7. \A t \in Test : \A d \in team'[t] : h'[d] \in Serving
    BY <2>3, <2>4, <2>5 DEF TeamsInv, Serving
  <2>8. \A t, u \in Test : t # u => team'[t] \cap team'[u] = {}
    BY <2>2, <2>5 DEF TeamsInv
  <2>9. \A t \in Test : t > test => t # test
    BY <2>1, TestsAssumption DEF Test
  <2> QED
    BY <2>1, <2>3, <2>5, <2>6, <2>7, <2>8, <2>9 DEF TeamsInv
<1>8. ASSUME NEW c \in Conn, ShutdownWorker(c) PROVE TeamsInv'
  <2>1. \A t \in Test : c \notin team[t]
    BY <1>8 DEF ShutdownWorker, TeamsInv, Serving
  <2> QED
    BY <1>8, <2>1 DEF ShutdownWorker, TeamsInv, TypeOK
<1> QED
  BY <1>1, <1>2, <1>3, <1>4, <1>5, <1>6, <1>7, <1>8 DEF Scheduler

\* A handler never leaves its team and touches the tokens of its own test.
LEMMA TeamsHandler == \A c \in Conn : TypeOK /\ BarrierInv /\ Handler(c) => TeamsInv'
<1> SUFFICES ASSUME NEW c \in Conn, TypeOK, TeamsInv, Handler(c) PROVE TeamsInv'
  BY DEF BarrierInv
<1> USE DEF schedVars, chanVars
<1>1. CASE Greet(c)
  <2>1. \A t \in Test : c \notin team[t]
    BY <1>1 DEF Greet, TeamsInv, Serving
  <2> QED
    BY <1>1, <2>1, ZenonT(40) DEF Greet, TeamsInv, TypeOK
<1>2. CASE Drop(c)
  BY <1>2 DEF Drop, TeamsInv, TypeOK, Serving
<1>3. CASE Decode(c)
  BY <1>3, ZenonT(40) DEF Decode, TeamsInv, TypeOK, Serving
<1>4. CASE CloseConn(c)
  BY <1>4 DEF CloseConn, TeamsInv, TypeOK, Serving
<1>5. ASSUME NEW t \in Test, c \in team[t], SendInit(t, c) PROVE TeamsInv'
  BY <1>5 DEF SendInit, TeamsInv, TypeOK, Serving
<1>6. ASSUME NEW t \in Test, c \in team[t], SignalDone(t, c) PROVE TeamsInv'
  <2>1. h' = [h EXCEPT ![c] = IF @ = "gotPrepared" THEN "await" ELSE "result"]
    BY <1>6 DEF SignalDone
  <2>2. \A u \in Test : \A d \in team[u] : h'[d] \in Serving
    BY <2>1 DEF TeamsInv, TypeOK, Serving
  <2>3. \A u \in Test : u # t => doneCh'[u] = doneCh[u]
    BY <1>6 DEF SignalDone, TypeOK
  <2> QED
    BY <1>6, <2>2, <2>3 DEF SignalDone, TeamsInv
<1>7. ASSUME NEW t \in Test, c \in team[t], SendStart(t, c) PROVE TeamsInv'
  <2>1. \A u \in Test : \A d \in team[u] : h'[d] \in Serving
    BY <1>7 DEF SendStart, TeamsInv, TypeOK, Serving
  <2>2. \A u \in Test : u # t => contCh'[u] = contCh[u]
    BY <1>7 DEF SendStart, TypeOK
  <2> QED
    BY <1>7, <2>1, <2>2 DEF SendStart, TeamsInv
<1>8. ASSUME NEW t \in Test, c \in team[t], SendResult(t, c) PROVE TeamsInv'
  BY <1>8 DEF SendResult, TeamsInv, TypeOK, Serving
<1> QED
  BY <1>1, <1>2, <1>3, <1>4, <1>5, <1>6, <1>7, <1>8 DEF Handler

(***************************************************************************)
(* Steps of workers and faults, as the server sees them.                   *)
(***************************************************************************)

\* A worker's step leaves the scheduler, the tokens and the handlers alone; a
\* dial gives an unused connection its goroutine.
LEMMA WorkerQuiet ==
  \A w \in Worker : TypeOK /\ WorkerStep(w) =>
    /\ UNCHANGED <<sched, test, cnt, team, doneCh, contCh, released>>
    /\ prepared \subseteq prepared'
    /\ \A c \in Conn : h'[c] = h[c] \/ (h[c] = "none" /\ h'[c] = "greet")
<1> SUFFICES ASSUME NEW w \in Worker, TypeOK, WorkerStep(w)
             PROVE  /\ UNCHANGED <<sched, test, cnt, team, doneCh, contCh, released>>
                    /\ prepared \subseteq prepared'
                    /\ \A c \in Conn : h'[c] = h[c] \/ (h[c] = "none" /\ h'[c] = "greet")
  OBVIOUS
<1> USE DEF schedVars, chanVars, histVars
<1>1. CASE Dial(w)
  <2> DEFINE c == CHOOSE c \in Conn : h[c] = "none"
  <2>1. c \in Conn /\ h[c] = "none" /\ h' = [h EXCEPT ![c] = "greet"]
    BY <1>1 DEF Dial
  <2>2. h \in [Conn -> HandlerAt]
    BY DEF TypeOK
  <2> HIDE DEF c
  <2>3. \A d \in Conn : h'[d] = h[d] \/ (h[d] = "none" /\ h'[d] = "greet")
    BY <2>1, <2>2
  <2> QED
    BY <1>1, <2>3 DEF Dial
<1>2. CASE DialRefused(w) \/ Wake(w) \/ RecvError(w)
  BY <1>2 DEF DialRefused, Wake, RecvError
<1>3. CASE RecvInit(w) \/ RecvStart(w) \/ RecvShutdown(w)
  BY <1>3 DEF RecvInit, RecvStart, RecvShutdown, Receives
<1>4. CASE FinishPrepare(w) \/ FinishWork(w)
  BY <1>4 DEF FinishPrepare, FinishWork
<1> QED
  BY <1>1, <1>2, <1>3, <1>4 DEF WorkerStep

\* So does every fault but the restart of the server.
LEMMA FaultQuiet ==
  Environment =>
    \/ ServerRestart
    \/ UNCHANGED <<sched, test, cnt, team, doneCh, contCh, h, released, prepared, finished>>
<1> USE DEF schedVars, chanVars, histVars
<1>1. ASSUME NEW w \in Worker, WorkerCrash(w) \/ WorkerRestart(w)
      PROVE  UNCHANGED <<sched, test, cnt, team, doneCh, contCh, h, released, prepared, finished>>
  BY <1>1 DEF WorkerCrash, WorkerRestart, Fault
<1>2. ASSUME NEW c \in Conn, Reset(c)
      PROVE  UNCHANGED <<sched, test, cnt, team, doneCh, contCh, h, released, prepared, finished>>
  BY <1>2 DEF Reset, Fault
<1> QED
  BY <1>1, <1>2 DEF Environment

\* After a restart nothing is taken, counted or waiting.
LEMMA RestartFresh ==
  ServerRestart => /\ sched' = "boot" /\ test' = 1
                   /\ \A t \in Test : team'[t] = {} /\ doneCh'[t] = 0 /\ contCh'[t] = 0
                   /\ \A c \in Conn : h'[c] = IF h[c] = "none" THEN "none" ELSE "orphaned"
                   /\ UNCHANGED <<up, down, wpc, wConn, wTest, prepared, released, finished>>
  BY DEF ServerRestart, Fault, netVars, workerVars

\* Workers and faults leave teams alone, but a server restart empties them.
LEMMA TeamsRest == TypeOK /\ BarrierInv /\ (Environment \/ \E w \in Worker : WorkerStep(w)) => TeamsInv'
<1> SUFFICES ASSUME TypeOK, TeamsInv, Environment \/ \E w \in Worker : WorkerStep(w)
             PROVE  TeamsInv'
  BY DEF BarrierInv
<1>1. CASE ServerRestart
  BY <1>1, RestartFresh, FS_EmptySet DEF TeamsInv
<1>2. CASE UNCHANGED <<sched, test, cnt, team, doneCh, contCh, h, released, prepared, finished>>
  BY <1>2 DEF TeamsInv
<1>3. CASE \E w \in Worker : WorkerStep(w)
  <2>1. /\ UNCHANGED <<sched, test, cnt, team, doneCh, contCh>>
        /\ \A c \in Conn : h'[c] = h[c] \/ (h[c] = "none" /\ h'[c] = "greet")
    BY <1>3, WorkerQuiet
  <2>2. \A t \in Test : \A c \in team[t] : c \in Conn /\ h[c] # "none"
    BY DEF TeamsInv, Serving, TypeOK
  <2> QED
    BY <2>1, <2>2 DEF TeamsInv
<1> QED
  BY <1>1, <1>2, <1>3, FaultQuiet

\* At the start there is no team, no token and no sign of progress.
LEMMA InitBarrier == Init => BarrierInv
<1> SUFFICES ASSUME Init PROVE BarrierInv
  OBVIOUS
<1>1. TeamsInv
  BY FS_EmptySet DEF Init, TeamsInv
<1>2. CountInv
  BY DEF Init, CountInv, Test
<1>3. ReleaseInv
  BY DEF Init, ReleaseInv, Started, Test
<1>4. EvidenceInv
  BY RangeEmpty DEF Init, EvidenceInv
<1>5. BindInv
  BY RangeEmpty DEF Init, BindInv, Serves
<1> QED
  BY <1>1, <1>2, <1>3, <1>4, <1>5 DEF BarrierInv

(***************************************************************************)
(* The loops count.                                                        *)
(***************************************************************************)

\* Every loop of the scheduler counts members, or tokens and waiting handlers.
LEMMA CountScheduler == TypeOK /\ BarrierInv /\ Scheduler => CountInv'
<1> SUFFICES ASSUME TypeOK, TeamsInv, CountInv, Scheduler PROVE CountInv'
  BY DEF BarrierInv
<1> USE DEF schedVars, chanVars
<1>0. sched # "drain" => test \in Test /\ test \in Nat
  BY AtTest, TestsAssumption DEF Test
<1>1. CASE Listen
  <2>1. sched = "boot" /\ sched' = "take" /\ cnt' = 0 /\ UNCHANGED <<test, team, doneCh, h>>
    BY <1>1 DEF Listen, Goto
  <2>2. team[test] = {} /\ doneCh[test] = 0
    BY <1>0, <2>1 DEF TeamsInv
  <2>3. Awaiting(test)' = {}
    BY <2>1, <2>2 DEF Awaiting
  <2>4. \A t \in Test : ~(t < test)
    BY <2>1, <1>0, FS_EmptySet, TeamAssumption DEF CountInv, TeamsInv
  <2> QED
    BY <2>1, <2>2, <2>3, <2>4, FS_EmptySet DEF CountInv
<1>2. CASE AwaitPrepared
  <2>1. /\ sched = "prep" /\ test \in Test /\ doneCh' = [doneCh EXCEPT ![test] = @ - 1]
        /\ UNCHANGED <<test, team, h>>
    BY <1>0, <1>2 DEF AwaitPrepared
  <2>2. \/ sched' = "prep" /\ cnt' = cnt + 1
        \/ sched' = "start" /\ cnt' = 0
    BY <1>2, <2>1, LoopStep DEF AwaitPrepared
  <2>3. doneCh'[test] + (cnt + 1) = doneCh[test] + cnt
    <3>1. doneCh'[test] = doneCh[test] - 1 /\ doneCh[test] \in Nat /\ cnt \in Nat
      BY <2>1 DEF TypeOK
    <3> QED
      BY <3>1
  <2>4. Awaiting(test)' = Awaiting(test)
    BY <2>1 DEF Awaiting
  <2> QED
    BY <2>1, <2>2, <2>3, <2>4 DEF CountInv
<1>3. CASE LetContinue
  <2>1. sched = "start" /\ test \in Test /\ UNCHANGED <<test, team>> /\ sched' \in {"start", "collect"}
    BY <1>0, <1>3, LoopStep DEF LetContinue
  <2> QED
    BY <2>1 DEF CountInv
<1>4. CASE AwaitWorkDone
  BY <1>4 DEF AwaitWorkDone, CountInv
<1>5. CASE CollectResult
  <2>1. sched = "result" /\ test \in Test /\ UNCHANGED <<test, team>> /\ sched' \in {"collect", "report"}
    BY <1>0, <1>5, LoopStep DEF CollectResult
  <2> QED
    BY <2>1 DEF CountInv
<1>6. CASE Report
  <2>1. /\ sched = "report" /\ test \in Test /\ test \in Nat /\ test' = test + 1 /\ cnt' = 0
        /\ sched' \in {"take", "drain"} /\ (sched' = "take" => test' \in Test)
        /\ UNCHANGED <<team, doneCh, h>>
    BY <1>0, <1>6, TestsAssumption DEF Report, Goto, Test
  <2>2. \A t \in Test : t < test' => t < test \/ t = test
    BY <2>1, TestsAssumption DEF Test
  <2>3. sched' = "take" => team[test'] = {} /\ doneCh[test'] = 0 /\ Awaiting(test)' = {}
    <3>1. test' > test
      BY <2>1
    <3> QED
      BY <2>1, <3>1 DEF TeamsInv, Awaiting
  <2> QED
    BY <2>1, <2>2, <2>3, FS_EmptySet DEF CountInv
<1>7. ASSUME NEW c \in Conn, TakeWorker(c) PROVE CountInv'
  <2>1. /\ sched = "take" /\ h[c] = "parked" /\ test \in Test /\ test \in Nat
        /\ test' = test /\ doneCh' = doneCh
        /\ team' = [team EXCEPT ![test] = @ \cup {c}]
        /\ h' = [h EXCEPT ![c] = "init"]
    BY <1>0, <1>7 DEF TakeWorker
  <2>2. \/ sched' = "take" /\ cnt' = cnt + 1
        \/ sched' = "prep" /\ cnt' = 0 /\ TeamSize[test] = cnt + 1
    BY <1>7, <2>1, LoopStep DEF TakeWorker
  <2>3. team \in [Test -> SUBSET Conn] /\ h \in [Conn -> HandlerAt]
    BY DEF TypeOK
  <2>4. c \notin team[test]
    BY <2>1 DEF TeamsInv, Serving
  <2>5. Awaiting(test)' = Awaiting(test)
    BY <2>1, <2>3, <2>4 DEF Awaiting
  <2>6. Cardinality(team'[test]) = Cardinality(team[test]) + 1
    <3>1. IsFiniteSet(team[test]) /\ team'[test] = team[test] \cup {c}
      BY <2>1, <2>3 DEF TeamsInv
    <3> QED
      BY <2>4, <3>1, FS_AddElement
  <2>7. \A t \in Test : t < test => team'[t] = team[t]
    BY <2>1, <2>3
  <2>8. Cardinality(team[test]) = cnt /\ doneCh[test] = Cardinality(Awaiting(test)) /\ doneCh[test] \in Nat
    BY <2>1 DEF CountInv, TypeOK
  <2> QED
    BY <2>1, <2>2, <2>5, <2>6, <2>7, <2>8 DEF CountInv
<1>8. ASSUME NEW c \in Conn, ShutdownWorker(c) PROVE CountInv'
  BY <1>8 DEF ShutdownWorker, CountInv
<1> QED
  BY <1>1, <1>2, <1>3, <1>4, <1>5, <1>6, <1>7, <1>8 DEF Scheduler

\* A handler's step on c.
LEMMA CountHandler == \A c \in Conn : TypeOK /\ BarrierInv /\ Handler(c) => CountInv'
<1> SUFFICES ASSUME NEW c \in Conn, TypeOK, BarrierInv, Handler(c) PROVE CountInv'
  OBVIOUS
<1> USE DEF schedVars, chanVars
<1>0. TeamsInv /\ CountInv /\ h \in [Conn -> HandlerAt] /\ (sched # "drain" => test \in Test)
  BY AtTest DEF BarrierInv, TypeOK
<1>1. ASSUME UNCHANGED <<sched, test, cnt, team, doneCh>>,
             \A d \in Conn : h'[d] = "await" <=> h[d] = "await"
      PROVE  CountInv'
  <2>1. sched # "drain" => Awaiting(test)' = Awaiting(test)
    BY <1>0, <1>1 DEF Awaiting, TypeOK
  <2> QED
    BY <1>0, <1>1, <2>1 DEF CountInv
<1>2. CASE Greet(c) \/ Drop(c) \/ Decode(c) \/ CloseConn(c)
  BY <1>0, <1>1, <1>2 DEF Greet, Drop, Decode, CloseConn
<1>3. ASSUME NEW t \in Test, SendInit(t, c) \/ SendResult(t, c) PROVE CountInv'
  BY <1>0, <1>1, <1>3 DEF SendInit, SendResult
<1>4. ASSUME NEW t \in Test, c \in team[t], SignalDone(t, c) PROVE CountInv'
  <2>1. /\ UNCHANGED <<sched, test, cnt, team>>
        /\ doneCh' = [doneCh EXCEPT ![t] = @ + 1]
        /\ h' = [h EXCEPT ![c] = IF @ = "gotPrepared" THEN "await" ELSE "result"]
        /\ h[c] \in {"gotPrepared", "gotWork"}
    BY <1>4 DEF SignalDone
  <2>2. CASE sched \notin {"take", "prep"}
    BY <1>0, <2>1, <2>2 DEF CountInv
  <2>3. CASE sched \in {"take", "prep"} /\ t # test
    <3>1. test \in Test /\ c \notin team[test]
      BY <1>0, <1>4, <2>3 DEF TeamsInv
    <3>2. Awaiting(test)' = Awaiting(test) /\ doneCh'[test] = doneCh[test]
      BY <1>0, <2>1, <2>3, <3>1 DEF Awaiting, TypeOK
    <3> QED
      BY <1>0, <2>1, <2>3, <3>2 DEF CountInv
  <2>4. CASE sched \in {"take", "prep"} /\ t = test
    <3>1. test \in Test /\ test \in Nat
      BY <1>0, <2>4, TestsAssumption DEF Test
    <3>2. ~Started(test)
      BY <3>1, <2>4 DEF Started
    <3>3. c \notin released
      BY <1>4, <2>4, <3>1, <3>2 DEF BarrierInv, ReleaseInv
    <3>4. h[c] = "gotPrepared"
      BY <2>1, <3>3 DEF BarrierInv, EvidenceInv
    <3>5. Awaiting(test)' = Awaiting(test) \cup {c} /\ c \notin Awaiting(test)
      BY <1>0, <1>4, <2>1, <2>4, <3>4 DEF Awaiting
    <3>6. Cardinality(Awaiting(test)') = Cardinality(Awaiting(test)) + 1
      BY <1>0, <3>1, <3>5, AwaitingFinite, FS_AddElement
    <3>7. doneCh'[test] = doneCh[test] + 1 /\ doneCh[test] \in Nat /\ cnt \in Nat
      BY <2>1, <2>4, <3>1 DEF TypeOK
    <3>8. Cardinality(Awaiting(test)) \in Nat
      BY <1>0, <3>1, AwaitingFinite
    <3> QED
      BY <1>0, <2>1, <2>4, <3>6, <3>7, <3>8 DEF CountInv
  <2> QED
    BY <2>2, <2>3, <2>4
<1>5. ASSUME NEW t \in Test, c \in team[t], SendStart(t, c) PROVE CountInv'
  <2>1. /\ UNCHANGED <<sched, test, cnt, team, doneCh>>
        /\ h' = [h EXCEPT ![c] = "decode"] /\ contCh[t] > 0
    BY <1>5 DEF SendStart
  <2>2. CASE sched \notin {"take", "prep"}
    BY <1>0, <2>1, <2>2 DEF CountInv
  <2>3. CASE sched \in {"take", "prep"}
    <3>1. t # test
      <4>1. Started(t)
        BY <2>1 DEF BarrierInv, ReleaseInv
      <4>2. test \in Nat
        BY <1>0, <2>3, TestsAssumption DEF Test
      <4> QED
        BY <2>3, <4>1, <4>2 DEF Started
    <3>2. test \in Test /\ c \notin team[test]
      BY <1>0, <1>5, <2>3, <3>1 DEF TeamsInv
    <3>3. Awaiting(test)' = Awaiting(test)
      BY <1>0, <2>1, <3>2 DEF Awaiting, TypeOK
    <3> QED
      BY <1>0, <2>1, <2>3, <3>3 DEF CountInv
  <2> QED
    BY <2>2, <2>3
<1> QED
  BY <1>2, <1>3, <1>4, <1>5 DEF Handler

\* Workers and faults change no count but through a server restart.
LEMMA CountRest == TypeOK /\ BarrierInv /\ (Environment \/ \E w \in Worker : WorkerStep(w)) => CountInv'
<1> SUFFICES ASSUME TypeOK, TeamsInv, CountInv, Environment \/ \E w \in Worker : WorkerStep(w)
             PROVE  CountInv'
  BY DEF BarrierInv
<1>1. CASE ServerRestart
  <2>1. sched' = "boot" /\ test' = 1
    BY <1>1, RestartFresh
  <2>2. \A t \in Test : ~(t < 1)
    BY TestsAssumption DEF Test
  <2> QED
    BY <2>1, <2>2 DEF CountInv
<1>2. CASE UNCHANGED <<sched, test, cnt, team, doneCh, contCh, h, released, prepared, finished>>
  BY <1>2 DEF CountInv, Awaiting
<1>3. CASE \E w \in Worker : WorkerStep(w)
  <2>1. /\ UNCHANGED <<sched, test, cnt, team, doneCh>>
        /\ \A c \in Conn : h'[c] = h[c] \/ (h[c] = "none" /\ h'[c] = "greet")
    BY <1>3, WorkerQuiet
  <2>2. sched # "drain" => Awaiting(test)' = Awaiting(test)
    BY <2>1, AtTest DEF Awaiting, TypeOK
  <2> QED
    BY <2>1, <2>2 DEF CountInv
<1> QED
  BY <1>1, <1>2, <1>3, FaultQuiet

(***************************************************************************)
(* The load of a test is let loose only over a prepared team.              *)
(***************************************************************************)

\* What keeps ReleaseInv: no new token, no new release, the same tests started.
LEMMA ReleaseFrame ==
  ASSUME ReleaseInv, contCh' = contCh, team' = team, released' = released,
         prepared \subseteq prepared',
         \A t \in Test : Started(t)' <=> Started(t)
  PROVE  ReleaseInv'
  BY DEF ReleaseInv

\* The load of a test is let loose when as many prepared as the team has members.
LEMMA ReleaseScheduler == TypeOK /\ BarrierInv /\ Scheduler => ReleaseInv'
<1> SUFFICES ASSUME TypeOK, BarrierInv, Scheduler PROVE ReleaseInv'
  OBVIOUS
<1> USE DEF schedVars, chanVars, histVars
<1>0. /\ TeamsInv /\ CountInv /\ ReleaseInv /\ EvidenceInv
      /\ sched # "drain" => test \in Test /\ test \in Nat
  BY AtTest, TestsAssumption DEF BarrierInv, Test
<1>1. CASE Listen
  BY <1>0, <1>1, ReleaseFrame DEF Listen, Goto, Started
<1>2. CASE AwaitPrepared
  <2>1. /\ sched = "prep" /\ test \in Test /\ doneCh[test] > 0
        /\ UNCHANGED <<test, team, contCh, released, prepared>>
    BY <1>0, <1>2 DEF AwaitPrepared
  <2>2. \/ sched' = "prep"
        \/ sched' = "start" /\ TeamSize[test] = cnt + 1
    BY <1>2, <2>1, LoopStep DEF AwaitPrepared
  <2>3. CASE sched' = "prep"
    BY <1>0, <2>1, <2>3, ReleaseFrame DEF Started
  <2>4. CASE sched' = "start" /\ TeamSize[test] = cnt + 1
    <3>1. Cardinality(Awaiting(test)) = doneCh[test] + cnt /\ Cardinality(team[test]) = cnt + 1
      BY <1>0, <2>1, <2>4 DEF CountInv
    <3>2. doneCh[test] \in Nat /\ cnt \in Nat
      BY <2>1 DEF TypeOK
    <3>3. Cardinality(Awaiting(test)) <= Cardinality(team[test])
      BY <1>0, <2>1, AwaitingFinite
    <3>4. Cardinality(Awaiting(test)) = Cardinality(team[test])
      BY <2>1, <3>1, <3>2, <3>3
    <3>5. Awaiting(test) = team[test]
      BY <1>0, <2>1, <3>4, AwaitingFinite
    <3>6. team[test] \subseteq prepared
      BY <1>0, <2>1, <3>5 DEF Awaiting, EvidenceInv, TypeOK
    <3>7. \A t \in Test : Started(t)' <=> Started(t) \/ t = test
      BY <2>1, <2>4 DEF Started
    <3> QED
      BY <1>0, <2>1, <3>6, <3>7 DEF ReleaseInv
  <2> QED
    BY <2>2, <2>3, <2>4
<1>3. CASE LetContinue
  <2>1. /\ sched = "start" /\ test \in Test /\ sched' \in {"start", "collect"}
        /\ contCh' = [contCh EXCEPT ![test] = @ + 1]
        /\ UNCHANGED <<test, team, released, prepared>>
    BY <1>0, <1>3, LoopStep DEF LetContinue
  <2>2. \A t \in Test : t # test => contCh'[t] = contCh[t]
    BY <2>1 DEF TypeOK
  <2>3. Started(test) /\ \A t \in Test : Started(t)' <=> Started(t)
    BY <2>1 DEF Started
  <2> QED
    BY <1>0, <2>1, <2>2, <2>3 DEF ReleaseInv
<1>4. CASE AwaitWorkDone
  BY <1>0, <1>4, ReleaseFrame DEF AwaitWorkDone, Started
<1>5. CASE CollectResult
  <2>1. sched = "result" /\ test \in Test /\ sched' \in {"collect", "report"}
    BY <1>0, <1>5, LoopStep DEF CollectResult
  <2> QED
    BY <1>0, <1>5, <2>1, ReleaseFrame DEF CollectResult, Started
<1>6. CASE Report
  <2>1. sched = "report" /\ test \in Nat /\ test' = test + 1 /\ sched' \in {"take", "drain"}
    BY <1>0, <1>6 DEF Report, Goto
  <2>2. \A t \in Test : t < test + 1 <=> t < test \/ t = test
    BY <2>1, TestsAssumption DEF Test
  <2>3. \A t \in Test : Started(t)' <=> Started(t)
    BY <2>1, <2>2 DEF Started
  <2> QED
    BY <1>0, <1>6, <2>3, ReleaseFrame DEF Report
<1>7. ASSUME NEW c \in Conn, TakeWorker(c) PROVE ReleaseInv'
  <2>1. /\ sched = "take" /\ test \in Test /\ h[c] = "parked"
        /\ team' = [team EXCEPT ![test] = @ \cup {c}]
        /\ sched' \in {"take", "prep"}
        /\ UNCHANGED <<test, contCh, released, prepared>>
    BY <1>0, <1>7, LoopStep DEF TakeWorker
  <2>2. c \notin released
    BY <1>0, <2>1 DEF EvidenceInv
  <2>3. /\ \A t \in Test : t # test => team'[t] = team[t]
        /\ team'[test] = team[test] \cup {c}
    BY <2>1 DEF TypeOK
  <2>4. ~Started(test) /\ \A t \in Test : Started(t)' <=> Started(t)
    BY <1>0, <2>1 DEF Started
  <2> QED
    BY <1>0, <2>1, <2>2, <2>3, <2>4 DEF ReleaseInv
<1>8. ASSUME NEW c \in Conn, ShutdownWorker(c) PROVE ReleaseInv'
  BY <1>0, <1>8, ReleaseFrame DEF ShutdownWorker, Started
<1> QED
  BY <1>1, <1>2, <1>3, <1>4, <1>5, <1>6, <1>7, <1>8 DEF Scheduler

\* A handler passes on a token of its own test only.
LEMMA ReleaseHandler == \A c \in Conn : TypeOK /\ BarrierInv /\ Handler(c) => ReleaseInv'
<1> SUFFICES ASSUME NEW c \in Conn, TypeOK, BarrierInv, Handler(c) PROVE ReleaseInv'
  OBVIOUS
<1> USE DEF schedVars, chanVars, histVars
<1>0. ReleaseInv /\ TeamsInv
  BY DEF BarrierInv
<1>1. CASE Greet(c) \/ Drop(c) \/ Decode(c) \/ CloseConn(c)
  BY <1>0, <1>1, ReleaseFrame DEF Greet, Drop, Decode, CloseConn, Started
<1>2. ASSUME NEW t \in Test, SendInit(t, c) \/ SignalDone(t, c) \/ SendResult(t, c) PROVE ReleaseInv'
  BY <1>0, <1>2, ReleaseFrame DEF SendInit, SignalDone, SendResult, Started
<1>3. ASSUME NEW t \in Test, c \in team[t], SendStart(t, c) PROVE ReleaseInv'
  <2>1. /\ contCh[t] > 0 /\ contCh' = [contCh EXCEPT ![t] = @ - 1]
        /\ released' = released \cup {c}
        /\ UNCHANGED <<sched, test, team, prepared>>
    BY <1>3 DEF SendStart
  <2>2. Started(t) /\ \A u \in Test : Started(u)' <=> Started(u)
    BY <1>0, <2>1 DEF ReleaseInv, Started
  <2>3. \A u \in Test : u # t => contCh'[u] = contCh[u] /\ c \notin team[u]
    BY <1>0, <1>3, <2>1 DEF TeamsInv, TypeOK
  <2> QED
    BY <1>0, <2>1, <2>2, <2>3 DEF ReleaseInv
<1> QED
  BY <1>1, <1>2, <1>3 DEF Handler

\* Workers may add to the prepared; faults let no load loose.
LEMMA ReleaseRest == TypeOK /\ BarrierInv /\ (Environment \/ \E w \in Worker : WorkerStep(w)) => ReleaseInv'
<1> SUFFICES ASSUME TypeOK, ReleaseInv, Environment \/ \E w \in Worker : WorkerStep(w)
             PROVE  ReleaseInv'
  BY DEF BarrierInv
<1>1. CASE ServerRestart
  BY <1>1, RestartFresh DEF ReleaseInv
<1>2. CASE UNCHANGED <<sched, test, cnt, team, doneCh, contCh, h, released, prepared, finished>>
  BY <1>2, ReleaseFrame DEF Started
<1>3. CASE \E w \in Worker : WorkerStep(w)
  BY <1>3, WorkerQuiet, ReleaseFrame DEF Started
<1> QED
  BY <1>1, <1>2, <1>3, FaultQuiet

(***************************************************************************)
(* Evidence and bindings.  Most steps are plain: they send nothing but a   *)
(* greeting or a shutdown, move a goroutine along its way, and let no      *)
(* worker begin to prepare or to perform.                                  *)
(***************************************************************************)

PlainHandler(c) ==
  \/ h'[c] = h[c]
  \/ h[c] \notin {"none", "closed", "orphaned"} /\ h'[c] \in {"result", "closing", "closed", "dropped", "drained"}
  \/ h[c] = "greet" /\ h'[c] = "parked"
  \/ h[c] = "parked" /\ h'[c] = "init"
  \/ h[c] = "gotPrepared" /\ h'[c] = "await"
  \/ h[c] = "decode" /\ h'[c] = "gotPrepared" /\ "preparations done" \in Range(up[c])
  \/ h[c] = "decode" /\ h'[c] = "gotWork" /\ "work done" \in Range(up[c])

PlainStream(c) ==
  /\ \A m \in Range(down'[c]) : m \in Range(down[c]) \/ m.kind = "shutdown"
  /\ Range(up'[c]) \subseteq Range(up[c])

PlainWorker(w) ==
  \/ wConn'[w] = None /\ wpc'[w] # "perf"
  \/ /\ wConn'[w] = wConn[w] /\ wTest'[w] = wTest[w]
     /\ wpc'[w] = wpc[w] \/ wpc'[w] \notin {"prepare", "perf"}

Plain ==
  /\ released' = released /\ prepared' = prepared
  /\ \A t \in Test : team[t] \subseteq team'[t]
  /\ \A c \in Conn : PlainHandler(c) /\ PlainStream(c)
  /\ \A w \in Worker : PlainWorker(w)

\* Plain steps bring no new signs of progress.
LEMMA PlainEvidence == EvidenceInv /\ Plain => EvidenceInv'
<1> SUFFICES ASSUME EvidenceInv, Plain PROVE EvidenceInv'
  OBVIOUS
<1>1. \A c \in Conn :
       /\ (\E m \in Range(down'[c]) : m.kind = "start work") => c \in released'
       /\ "work done" \in Range(up'[c]) \/ h'[c] = "gotWork" => c \in released'
       /\ "preparations done" \in Range(up'[c]) \/ h'[c] \in {"gotPrepared", "await"} => c \in prepared'
       /\ h'[c] \in {"none", "greet", "parked", "init"} => c \notin released'
       /\ h'[c] = "none" => c \notin prepared'
  <2> TAKE c \in Conn
  <2>1. (\E m \in Range(down'[c]) : m.kind = "start work") => c \in released'
    BY DEF EvidenceInv, Plain, PlainStream
  <2>2. "work done" \in Range(up'[c]) => c \in released'
    BY DEF EvidenceInv, Plain, PlainStream
  <2>3. "preparations done" \in Range(up'[c]) => c \in prepared'
    BY DEF EvidenceInv, Plain, PlainStream
  <2> QED
    BY <2>1, <2>2, <2>3 DEF EvidenceInv, Plain, PlainHandler
<1>2. \A w \in Worker : wpc'[w] = "perf" => wConn'[w] \in released'
  BY DEF EvidenceInv, Plain, PlainWorker
<1> QED
  BY <1>1, <1>2 DEF EvidenceInv, Plain

\* Plain steps bind no connection anew.
LEMMA PlainBind == TypeOK /\ BindInv /\ Plain => BindInv'
<1> SUFFICES ASSUME TypeOK, BindInv, Plain PROVE BindInv'
  OBVIOUS
<1>1. \A v, w \in Worker : wConn'[v] = wConn'[w] /\ wConn'[w] # None => v = w
  BY DEF BindInv, Plain, PlainWorker
<1>2. \A c \in Conn : (h[c] # "none" => h'[c] # "none") /\ (h'[c] # "orphaned" => h[c] # "orphaned")
  BY DEF Plain, PlainHandler
<1>3. \A w \in Worker : wConn'[w] # None => h'[wConn'[w]] # "none"
  BY <1>2 DEF BindInv, Plain, PlainWorker, TypeOK
<1>4. \A c \in Conn : h'[c] # "orphaned" =>
        \A m \in Range(down'[c]) : m.kind = "init" => m.test \in Test /\ c \in team'[m.test]
  BY <1>2 DEF BindInv, Plain, PlainStream
<1>5. \A w \in Worker : Serves(w)' /\ (wpc'[w] = "prepare" \/ wConn'[w] \in prepared') =>
        wTest'[w] \in Test /\ wConn'[w] \in team'[wTest'[w]]
  BY <1>2 DEF BindInv, Plain, PlainWorker, Serves, TypeOK
<1> QED
  BY <1>1, <1>3, <1>4, <1>5 DEF BindInv

\* Every step of the scheduler is plain.
LEMMA SchedulerPlain == TypeOK /\ Scheduler => Plain
<1> SUFFICES ASSUME TypeOK, Scheduler PROVE Plain
  OBVIOUS
<1> USE DEF schedVars, chanVars, netVars, workerVars, histVars
<1>1. CASE Listen \/ AwaitPrepared \/ LetContinue \/ AwaitWorkDone \/ CollectResult \/ Report
  BY <1>1 DEF Listen, AwaitPrepared, LetContinue, AwaitWorkDone, CollectResult, Report,
              Plain, PlainHandler, PlainStream, PlainWorker
<1>2. ASSUME NEW c \in Conn, TakeWorker(c) PROVE Plain
  <2>1. h' = [h EXCEPT ![c] = "init"] /\ h[c] = "parked"
    BY <1>2 DEF TakeWorker
  <2>2. \A d \in Conn : PlainHandler(d)
    BY <2>1 DEF PlainHandler, TypeOK
  <2>3. \A t \in Test : team[t] \subseteq team'[t]
    BY <1>2 DEF TakeWorker, TypeOK
  <2> QED
    BY <1>2, <2>2, <2>3 DEF TakeWorker, Plain, PlainStream, PlainWorker
<1>3. ASSUME NEW c \in Conn, ShutdownWorker(c) PROVE Plain
  <2>1. \A d \in Conn : PlainHandler(d)
    BY <1>3 DEF ShutdownWorker, PlainHandler, TypeOK
  <2>2. M("shutdown") \in DownMsg /\ M("shutdown").kind = "shutdown"
    BY DEF M, DownMsg
  <2>3. \A d \in Conn : PlainStream(d)
    BY <1>3, <2>2, SendDownRange DEF ShutdownWorker, PlainStream
  <2> QED
    BY <1>3, <2>1, <2>3 DEF ShutdownWorker, Plain, PlainWorker
<1> QED
  BY <1>1, <1>2, <1>3 DEF Scheduler

\* All of a handler's steps are plain but the two that send.
LEMMA HandlerPlain ==
  \A c \in Conn : TypeOK /\ Handler(c) =>
    Plain \/ \E t \in Test : c \in team[t] /\ (SendInit(t, c) \/ SendStart(t, c))
<1> SUFFICES ASSUME NEW c \in Conn, TypeOK, Handler(c)
             PROVE  Plain \/ \E t \in Test : c \in team[t] /\ (SendInit(t, c) \/ SendStart(t, c))
  OBVIOUS
<1> USE DEF schedVars, chanVars, netVars, workerVars, histVars
<1>0. h \in [Conn -> HandlerAt] /\ up \in [Conn -> Seq(UpMsg)]
  BY DEF TypeOK
<1>1. CASE Greet(c)
  <2>1. \A d \in Conn : PlainHandler(d)
    BY <1>0, <1>1 DEF Greet, PlainHandler
  <2>2. \A d \in Conn : PlainStream(d)
    BY <1>0, <1>1, RangeTail, RangeEmpty DEF Greet, PlainStream
  <2> QED
    BY <1>1, <2>1, <2>2 DEF Greet, Plain, PlainWorker
<1>2. CASE Drop(c) \/ CloseConn(c)
  BY <1>0, <1>2 DEF Drop, CloseConn, Plain, PlainHandler, PlainStream, PlainWorker
<1>3. CASE Decode(c)
  <2>1. up[c] \in Seq(UpMsg) /\ up[c] # <<>>
    BY <1>0, <1>3 DEF Decode
  <2>2. Head(up[c]) \in Range(up[c]) /\ Range(Tail(up[c])) \subseteq Range(up[c])
    BY <2>1, RangeTail
  <2>3. \A d \in Conn : PlainHandler(d)
    BY <1>0, <1>3, <2>2 DEF Decode, PlainHandler
  <2>4. \A d \in Conn : PlainStream(d)
    BY <1>0, <1>3, <2>2 DEF Decode, PlainStream
  <2> QED
    BY <1>3, <2>3, <2>4 DEF Decode, Plain, PlainWorker
<1>4. ASSUME NEW t \in Test, SignalDone(t, c) \/ SendResult(t, c) PROVE Plain
  <2>1. \A d \in Conn : PlainHandler(d)
    BY <1>0, <1>4 DEF SignalDone, SendResult, PlainHandler
  <2> QED
    BY <1>4, <2>1 DEF SignalDone, SendResult, Plain, PlainStream, PlainWorker
<1> QED
  BY <1>1, <1>2, <1>3, <1>4 DEF Handler

\* Leaving without a word is plain.
LEMMA LeavePlain ==
  ASSUME TypeOK, NEW w \in Worker, NEW next, next # "perf", Leave(w, next),
         \A v \in Worker : v # w => wTest'[v] = wTest[v]
  PROVE  \A v \in Worker : PlainWorker(v)
  BY DEF TypeOK, Leave, PlainWorker

\* Taking a message off a stream adds nothing to it.
LEMMA ReceivesStream ==
  ASSUME TypeOK, NEW w \in Worker, NEW kind, Receives(w, kind)
  PROVE  /\ wConn[w] \in Conn
         /\ Head(down[wConn[w]]) \in Range(down[wConn[w]])
         /\ Head(down[wConn[w]]).kind = kind
         /\ up' = up
         /\ \A c \in Conn : Range(down'[c]) \subseteq Range(down[c])
<1>1. wConn[w] \in Conn /\ down[wConn[w]] # <<>>
  BY HasConn DEF Receives
<1>2. down \in [Conn -> Seq(DownMsg)] /\ down[wConn[w]] \in Seq(DownMsg)
  BY <1>1 DEF TypeOK
<1>3. /\ Head(down[wConn[w]]) \in Range(down[wConn[w]])
      /\ Range(Tail(down[wConn[w]])) \subseteq Range(down[wConn[w]])
  BY <1>1, <1>2, RangeTail
<1> QED
  BY <1>1, <1>2, <1>3 DEF Receives

\* The steps of a worker are plain, but for five.
LEMMA WorkerPlain ==
  \A w \in Worker : TypeOK /\ WorkerStep(w) =>
    \/ Plain
    \/ Dial(w) \/ RecvInit(w) \/ FinishPrepare(w) \/ FinishWork(w)
    \/ RecvStart(w) /\ wpc' = [wpc EXCEPT ![w] = "perf"] /\ UNCHANGED wConn
<1> SUFFICES ASSUME NEW w \in Worker, TypeOK,
                    \/ DialRefused(w) \/ Wake(w) \/ RecvError(w) \/ RecvShutdown(w)
                    \/ (RecvStart(w) /\ Leave(w, Stopped))
             PROVE  Plain
  BY DEF WorkerStep, RecvStart
<1> USE DEF schedVars, chanVars, netVars, histVars
<1>1. CASE DialRefused(w) \/ Wake(w)
  BY <1>1 DEF DialRefused, Wake, TypeOK, Plain, PlainHandler, PlainStream, PlainWorker
<1>2. CASE RecvError(w)
  BY <1>2, LeavePlain DEF RecvError, Plain, PlainHandler, PlainStream
<1>3. CASE RecvShutdown(w) \/ (RecvStart(w) /\ Leave(w, Stopped))
  <2>1. Leave(w, Stopped) /\ wTest' = wTest /\ Stopped # "perf"
    BY <1>3 DEF RecvShutdown, RecvStart, Stopped
  <2>2. \E kind \in {"shutdown", "start work"} : Receives(w, kind)
    BY <1>3 DEF RecvShutdown, RecvStart
  <2>3. \A c \in Conn : PlainStream(c)
    BY <2>2, ReceivesStream DEF PlainStream
  <2>4. \A v \in Worker : PlainWorker(v)
    BY <2>1, LeavePlain
  <2>5. released' = released /\ prepared' = prepared /\ team' = team /\ h' = h
    BY <2>2 DEF Receives
  <2> QED
    BY <2>3, <2>4, <2>5 DEF Plain, PlainHandler
<1> QED
  BY <1>1, <1>2, <1>3

\* Every fault is plain, but the server's restart.
LEMMA FaultPlain == TypeOK /\ Environment => Plain \/ ServerRestart
<1> SUFFICES ASSUME TypeOK, Environment PROVE Plain \/ ServerRestart
  OBVIOUS
<1> USE DEF schedVars, chanVars, netVars, workerVars, histVars
<1>1. ASSUME NEW w \in Worker, WorkerCrash(w) PROVE Plain
  <2>1. \A v \in Worker : PlainWorker(v)
    <3>1. Leave(w, "crashed") /\ \A v \in Worker : v # w => wTest'[v] = wTest[v]
      BY <1>1 DEF WorkerCrash, TypeOK
    <3> QED
      BY <3>1, LeavePlain
  <2>2. \A c \in Conn : PlainStream(c)
    BY <1>1, RangeEmpty DEF WorkerCrash, PlainStream
  <2> QED
    BY <1>1, <2>1, <2>2 DEF WorkerCrash, Fault, Plain, PlainHandler
<1>2. ASSUME NEW w \in Worker, WorkerRestart(w) PROVE Plain
  BY <1>2 DEF WorkerRestart, TypeOK, Plain, PlainHandler, PlainStream, PlainWorker
<1>3. ASSUME NEW c \in Conn, Reset(c) PROVE Plain
  <2>1. \A d \in Conn : PlainStream(d)
    BY <1>3, RangeEmpty DEF Reset, PlainStream, TypeOK
  <2> QED
    BY <1>3, <2>1 DEF Reset, Fault, Plain, PlainHandler, PlainWorker
<1> QED
  BY <1>1, <1>2, <1>3 DEF Environment

\* A server restart closes every connection, which binds it no more.
LEMMA RestartKeeps == BarrierInv /\ TypeOK /\ ServerRestart => EvidenceInv' /\ BindInv'
<1> SUFFICES ASSUME TeamsInv, EvidenceInv, BindInv, TypeOK, ServerRestart
             PROVE  EvidenceInv' /\ BindInv'
  BY DEF BarrierInv
<1>1. EvidenceInv'
  <2>1. /\ UNCHANGED <<up, down, wpc, wConn, prepared, released>>
        /\ \A c \in Conn : h'[c] = IF h[c] = "none" THEN "none" ELSE "orphaned"
    BY RestartFresh
  <2> QED
    BY <2>1 DEF EvidenceInv
<1>2. BindInv'
  <2>1. /\ UNCHANGED <<up, down, wpc, wConn, wTest, prepared>>
        /\ \A c \in Conn : (h'[c] = "none" <=> h[c] = "none") /\ (h'[c] # "none" => h'[c] = "orphaned")
    BY RestartFresh
  <2>2. \A c \in Conn : h'[c] # "orphaned" => h[c] # "orphaned" /\ h[c] = "none"
    BY <2>1
  <2>3. \A w \in Worker : wConn[w] # None => wConn[w] \in Conn /\ h[wConn[w]] # "none"
    BY DEF BindInv, TypeOK
  <2>4. \A w \in Worker : ~Serves(w)'
    BY <2>1, <2>3 DEF Serves
  <2>5. \A c \in Conn : h[c] = "none" => \A m \in Range(down[c]) : m.kind # "init"
    BY DEF TeamsInv, BindInv, Serving
  <2> QED
    BY <2>1, <2>2, <2>3, <2>4, <2>5 DEF BindInv
<1> QED
  BY <1>1, <1>2

(***************************************************************************)
(* The steps that are not plain, one by one.                               *)
(***************************************************************************)

\* SendInit names the test whose team the connection is in.
LEMMA SendInitKeeps ==
  ASSUME TypeOK, EvidenceInv, BindInv, NEW t \in Test, NEW c \in Conn, c \in team[t], SendInit(t, c)
  PROVE  EvidenceInv' /\ BindInv'
<1> USE DEF schedVars, chanVars, workerVars, histVars
<1>1. /\ h[c] = "init" /\ h' = [h EXCEPT ![c] = "decode"] /\ SendDown(c, InitMsg(t))
      /\ UNCHANGED <<team, up, wpc, wConn, wTest, prepared, released>>
  BY DEF SendInit
<1>2. InitMsg(t) \in DownMsg /\ InitMsg(t).kind = "init" /\ InitMsg(t).test = t
  BY DEF InitMsg, DownMsg
<1>3. \A d \in Conn : \A m \in Range(down'[d]) : m \in Range(down[d]) \/ (d = c /\ m = InitMsg(t))
  BY <1>1, <1>2, SendDownRange
<1>4. \A d \in Conn : h'[d] = IF d = c THEN "decode" ELSE h[d]
  BY <1>1 DEF TypeOK
<1>5. EvidenceInv'
  <2>1. \A d \in Conn : (\E m \in Range(down'[d]) : m.kind = "start work") => d \in released
    BY <1>2, <1>3 DEF EvidenceInv
  <2>2. \A d \in Conn : h'[d] # "decode" => h'[d] = h[d]
    BY <1>4
  <2> QED
    BY <1>1, <2>1, <2>2 DEF EvidenceInv
<1>6. BindInv'
  BY <1>1, <1>2, <1>3, <1>4 DEF BindInv, Serves, TypeOK
<1> QED
  BY <1>5, <1>6

\* SendStart records the release that its message is evidence of.
LEMMA SendStartKeeps ==
  ASSUME TypeOK, EvidenceInv, BindInv, NEW t \in Test, NEW c \in Conn, c \in team[t], SendStart(t, c)
  PROVE  EvidenceInv' /\ BindInv'
<1> USE DEF schedVars, chanVars, workerVars, histVars
<1>1. /\ h[c] = "await" /\ h' = [h EXCEPT ![c] = "decode"] /\ SendDown(c, M("start work"))
      /\ released' = released \cup {c}
      /\ UNCHANGED <<team, up, wpc, wConn, wTest, prepared>>
  BY DEF SendStart
<1>2. M("start work") \in DownMsg /\ M("start work").kind = "start work"
  BY DEF M, DownMsg
<1>3. \A d \in Conn : \A m \in Range(down'[d]) : m \in Range(down[d]) \/ (d = c /\ m = M("start work"))
  BY <1>1, <1>2, SendDownRange
<1>4. \A d \in Conn : h'[d] = IF d = c THEN "decode" ELSE h[d]
  BY <1>1 DEF TypeOK
<1>5. EvidenceInv'
  <2>1. \A d \in Conn : (\E m \in Range(down'[d]) : m.kind = "start work") => d \in released'
    BY <1>1, <1>3 DEF EvidenceInv
  <2>2. \A d \in Conn : h'[d] # "decode" => h'[d] = h[d] /\ d # c
    BY <1>4
  <2>3. c \in prepared
    BY <1>1 DEF EvidenceInv
  <2> QED
    BY <1>1, <2>1, <2>2, <2>3 DEF EvidenceInv
<1>6. BindInv'
  BY <1>1, <1>2, <1>3, <1>4, ZenonT(40) DEF BindInv, Serves, TypeOK
<1> QED
  BY <1>5, <1>6

\* Dial takes a connection nobody has used.
LEMMA DialKeeps ==
  ASSUME TypeOK, EvidenceInv, BindInv, NEW w \in Worker, Dial(w)
  PROVE  EvidenceInv' /\ BindInv'
<1> USE DEF schedVars, chanVars, histVars
<1>1. PICK c \in Conn : /\ h[c] = "none" /\ h' = [h EXCEPT ![c] = "greet"]
                        /\ up' = [up EXCEPT ![c] = Append(@, "ready for work")]
                        /\ wConn' = [wConn EXCEPT ![w] = c]
  <2> DEFINE c == CHOOSE c \in Conn : h[c] = "none"
  <2>1. c \in Conn /\ h[c] = "none"
    BY DEF Dial
  <2> QED
    BY <2>1 DEF Dial
<1>2. wpc' = [wpc EXCEPT ![w] = "recv"] /\ UNCHANGED <<team, down, wTest, prepared, released>>
  BY DEF Dial
<1>3. \A d \in Conn : Range(up'[d]) \subseteq Range(up[d]) \cup {"ready for work"}
  <2>1. up \in [Conn -> Seq(UpMsg)] /\ "ready for work" \in UpMsg
    BY DEF TypeOK, UpMsg
  <2>2. \A m \in UpMsg : Range(Append(up[c], m)) = Range(up[c]) \cup {m}
    <3> SUFFICES ASSUME NEW m \in UpMsg
                 PROVE  Range(Append(up[c], m)) = Range(up[c]) \cup {m}
      OBVIOUS
    <3>1. up[c] \in Seq(UpMsg)
      BY <2>1
    <3> QED
      BY <3>1, RangeAppend, SMTT(30)
  <2> QED
    BY <1>1, <2>1, <2>2
<1>4. \A d \in Conn : h'[d] = IF d = c THEN "greet" ELSE h[d]
  BY <1>1 DEF TypeOK
<1>5. EvidenceInv'
  <2>1. \A d \in Conn : ("work done" \in Range(up'[d]) => "work done" \in Range(up[d]))
                     /\ ("preparations done" \in Range(up'[d]) => "preparations done" \in Range(up[d]))
    BY <1>3
  <2>2. \A v \in Worker : wpc'[v] = "perf" => wpc[v] = "perf" /\ wConn'[v] = wConn[v]
    BY <1>1, <1>2 DEF TypeOK
  <2> QED
    <3>1. \A d \in Conn : h'[d] # "greet" => h'[d] = h[d]
      BY <1>4
    <3>2. \A d \in Conn : h'[d] = "greet" => h[d] \in {"none", "greet"}
      BY <1>1, <1>4
    <3> QED
      BY <1>2, <2>1, <2>2, <3>1, <3>2 DEF EvidenceInv
<1>6. \A v \in Worker : wConn[v] # c
  BY <1>1, NoneAssumption DEF BindInv
<1>7. c \notin prepared /\ c # None
  BY <1>1, NoneAssumption DEF EvidenceInv
<1>8. \A v \in Worker : wConn'[v] = IF v = w THEN c ELSE wConn[v]
  BY <1>1 DEF TypeOK
<1>9. \A v \in Worker : wpc'[v] = IF v = w THEN "recv" ELSE wpc[v]
  BY <1>2 DEF TypeOK
<1>10. BindInv'
  <2>1. \A v, u \in Worker : wConn'[v] = wConn'[u] /\ wConn'[v] # None => v = u
    BY <1>6, <1>8 DEF BindInv
  <2>2. \A v \in Worker : wConn'[v] # None => h'[wConn'[v]] # "none"
    BY <1>4, <1>6, <1>8, ZenonT(40) DEF BindInv, TypeOK
  <2>3. \A d \in Conn : h'[d] # "orphaned" =>
          \A m \in Range(down'[d]) : m.kind = "init" => m.test \in Test /\ d \in team'[m.test]
    BY <1>1, <1>2, <1>4 DEF BindInv
  <2>4. \A v \in Worker : Serves(v)' /\ (wpc'[v] = "prepare" \/ wConn'[v] \in prepared') =>
          wTest'[v] \in Test /\ wConn'[v] \in team'[wTest'[v]]
    BY <1>2, <1>4, <1>6, <1>7, <1>8, <1>9 DEF BindInv, Serves, TypeOK
  <2> QED
    BY <2>1, <2>2, <2>3, <2>4 DEF BindInv
<1> QED
  BY <1>5, <1>10

\* RecvInit binds the worker to the test its message named.
LEMMA RecvInitKeeps ==
  ASSUME TypeOK, EvidenceInv, BindInv, NEW w \in Worker, RecvInit(w)
  PROVE  EvidenceInv' /\ BindInv'
<1> USE DEF schedVars, chanVars, histVars
<1>1. /\ wConn' = wConn /\ wpc' = [wpc EXCEPT ![w] = "prepare"]
      /\ wTest' = [wTest EXCEPT ![w] = Head(down[wConn[w]]).test]
      /\ UNCHANGED <<h, team, up, prepared, released>> /\ Receives(w, "init")
  BY DEF RecvInit, Receives
<1>2. /\ wConn[w] \in Conn /\ Head(down[wConn[w]]) \in Range(down[wConn[w]])
      /\ Head(down[wConn[w]]).kind = "init"
      /\ \A c \in Conn : Range(down'[c]) \subseteq Range(down[c])
  BY <1>1, ReceivesStream
<1>3. EvidenceInv'
  <2>1. \A v \in Worker : wpc'[v] = "perf" => wpc[v] = "perf"
    BY <1>1 DEF TypeOK
  <2> QED
    BY <1>1, <1>2, <2>1 DEF EvidenceInv
<1>4. \A v \in Worker : v # w => wTest'[v] = wTest[v] /\ wpc'[v] = wpc[v]
  BY <1>1 DEF TypeOK
<1>5. Serves(w) => wTest'[w] \in Test /\ wConn[w] \in team[wTest'[w]]
  BY <1>1, <1>2 DEF BindInv, Serves, TypeOK
<1>6. BindInv'
  BY <1>1, <1>2, <1>4, <1>5 DEF BindInv, Serves
<1> QED
  BY <1>3, <1>6

\* RecvStart rests on the message that says the connection was released.
LEMMA RecvStartKeeps ==
  ASSUME TypeOK, EvidenceInv, BindInv, NEW w \in Worker, RecvStart(w),
         wpc' = [wpc EXCEPT ![w] = "perf"], wConn' = wConn
  PROVE  EvidenceInv' /\ BindInv'
<1> USE DEF schedVars, chanVars, histVars
<1>1. /\ UNCHANGED <<h, team, up, wTest, prepared, released>> /\ Receives(w, "start work")
  BY DEF RecvStart, Receives
<1>2. /\ wConn[w] \in Conn /\ Head(down[wConn[w]]) \in Range(down[wConn[w]])
      /\ Head(down[wConn[w]]).kind = "start work"
      /\ \A c \in Conn : Range(down'[c]) \subseteq Range(down[c])
  BY <1>1, ReceivesStream
<1>3. wConn[w] \in released
  BY <1>2 DEF EvidenceInv
<1>4. \A v \in Worker : wpc'[v] = IF v = w THEN "perf" ELSE wpc[v]
  BY DEF TypeOK
<1>5. EvidenceInv'
  BY <1>1, <1>2, <1>3, <1>4 DEF EvidenceInv
<1>6. BindInv'
  <2>1. \A v \in Worker : wpc'[v] = "prepare" => wpc[v] = "prepare"
    BY <1>4
  <2> QED
    BY <1>1, <1>2, <2>1 DEF BindInv, Serves
<1> QED
  BY <1>5, <1>6

\* What an answer adds to the streams, and what it does to the worker.
LEMMA AnswerEffect ==
  ASSUME TypeOK, NEW w \in Worker, NEW m \in UpMsg, wConn[w] \in Conn, Answer(w, m), NEW c \in Conn
  PROVE  /\ Range(up'[c]) \subseteq Range(up[c]) \cup (IF c = wConn[w] THEN {m} ELSE {})
         /\ \A v \in Worker : v # w => wConn'[v] = wConn[v] /\ wpc'[v] = wpc[v]
         /\ wpc'[w] \notin {"prepare", "perf"} /\ wConn'[w] \in {wConn[w], None}
<1>1. up \in [Conn -> Seq(UpMsg)]
  BY DEF TypeOK
<1>2. Range(Append(up[wConn[w]], m)) = Range(up[wConn[w]]) \cup {m}
  BY <1>1, RangeAppend
<1>3. Range(up'[c]) \subseteq Range(up[c]) \cup (IF c = wConn[w] THEN {m} ELSE {})
  BY <1>1, <1>2 DEF Answer
<1>4. /\ \A v \in Worker : v # w => wConn'[v] = wConn[v] /\ wpc'[v] = wpc[v]
      /\ wpc'[w] \notin {"prepare", "perf"} /\ wConn'[w] \in {wConn[w], None}
  BY DEF Answer, Leave, TypeOK
<1> QED
  BY <1>3, <1>4

\* FinishPrepare records the preparation that its answer is evidence of.
LEMMA FinishPrepareKeeps ==
  ASSUME TypeOK, EvidenceInv, BindInv, NEW w \in Worker, FinishPrepare(w)
  PROVE  EvidenceInv' /\ BindInv'
<1> USE DEF schedVars, chanVars
<1>1. /\ wpc[w] = "prepare" /\ prepared' = prepared \cup {wConn[w]}
      /\ UNCHANGED <<h, team, down, wTest, released>>
      /\ Answer(w, "preparations done")
  BY DEF FinishPrepare
<1>2. wConn[w] \in Conn /\ "preparations done" \in UpMsg
  BY <1>1, HasConn DEF UpMsg
<1>3. \A c \in Conn : Range(up'[c]) \subseteq Range(up[c])
                        \cup (IF c = wConn[w] THEN {"preparations done"} ELSE {})
  BY <1>1, <1>2, AnswerEffect
<1>4. /\ \A v \in Worker : v # w => wConn'[v] = wConn[v] /\ wpc'[v] = wpc[v]
      /\ wpc'[w] \notin {"prepare", "perf"} /\ wConn'[w] \in {wConn[w], None}
  BY <1>1, <1>2, AnswerEffect
<1>5. h[wConn[w]] # "none"
  BY <1>2, NoneAssumption DEF BindInv
<1>6. EvidenceInv'
  <2>1. \A c \in Conn : ("work done" \in Range(up'[c]) => "work done" \in Range(up[c]))
          /\ ("preparations done" \in Range(up'[c]) => "preparations done" \in Range(up[c]) \/ c = wConn[w])
    BY <1>3
  <2> QED
    BY <1>1, <1>4, <1>5, <2>1 DEF EvidenceInv
<1>7. \A v \in Worker : v # w => wConn[v] # wConn[w]
  BY <1>2, NoneAssumption DEF BindInv
<1>8. BindInv'
  <2>1. \A v \in Worker : wConn'[v] # None => wConn'[v] = wConn[v]
    BY <1>4
  <2>2. \A v \in Worker : Serves(v)' /\ (wpc'[v] = "prepare" \/ wConn'[v] \in prepared')
          => Serves(v) /\ (wpc[v] = "prepare" \/ wConn[v] \in prepared)
    BY <1>1, <1>4, <1>7 DEF Serves
  <2> QED
    BY <1>1, <2>1, <2>2 DEF BindInv, Serves
<1> QED
  BY <1>6, <1>8

\* FinishWork answers for a connection that was released.
LEMMA FinishWorkKeeps ==
  ASSUME TypeOK, EvidenceInv, BindInv, NEW w \in Worker, FinishWork(w)
  PROVE  EvidenceInv' /\ BindInv'
<1> USE DEF schedVars, chanVars
<1>1. /\ wpc[w] = "perf" /\ UNCHANGED <<h, team, down, wTest, released, prepared>>
      /\ Answer(w, "work done")
  BY DEF FinishWork
<1>2. wConn[w] \in Conn /\ "work done" \in UpMsg /\ wConn[w] \in released
  BY <1>1, HasConn DEF UpMsg, EvidenceInv
<1>3. \A c \in Conn : Range(up'[c]) \subseteq Range(up[c]) \cup (IF c = wConn[w] THEN {"work done"} ELSE {})
  BY <1>1, <1>2, AnswerEffect
<1>4. /\ \A v \in Worker : v # w => wConn'[v] = wConn[v] /\ wpc'[v] = wpc[v]
      /\ wpc'[w] \notin {"prepare", "perf"} /\ wConn'[w] \in {wConn[w], None}
  BY <1>1, <1>2, AnswerEffect
<1>5. EvidenceInv'
  <2>1. \A c \in Conn : ("preparations done" \in Range(up'[c]) => "preparations done" \in Range(up[c]))
          /\ ("work done" \in Range(up'[c]) => "work done" \in Range(up[c]) \/ c = wConn[w])
    BY <1>3
  <2> QED
    BY <1>1, <1>2, <1>4, <2>1 DEF EvidenceInv
<1>6. BindInv'
  <2>1. \A v \in Worker : wConn'[v] # None => wConn'[v] = wConn[v]
    BY <1>4
  <2>2. \A v \in Worker : wpc'[v] = "prepare" => wpc[v] = "prepare"
    BY <1>4
  <2> QED
    BY <1>1, <2>1, <2>2 DEF BindInv, Serves
<1> QED
  BY <1>5, <1>6

(***************************************************************************)
(* The invariant is inductive, and gives the barrier.                      *)
(***************************************************************************)

\* Evidence and binding, over all steps.
LEMMA StepEvidenceBind == TypeOK /\ BarrierInv /\ Next => EvidenceInv' /\ BindInv'
<1> SUFFICES ASSUME TypeOK, BarrierInv, EvidenceInv, BindInv, Next PROVE EvidenceInv' /\ BindInv'
  BY DEF BarrierInv
<1>1. CASE Plain
  BY <1>1, PlainEvidence, PlainBind
<1>2. CASE Scheduler
  BY <1>1, <1>2, SchedulerPlain
<1>3. ASSUME NEW c \in Conn, Handler(c) PROVE EvidenceInv' /\ BindInv'
  BY <1>1, <1>3, HandlerPlain, SendInitKeeps, SendStartKeeps
<1>4. ASSUME NEW w \in Worker, WorkerStep(w) PROVE EvidenceInv' /\ BindInv'
  BY <1>1, <1>4, WorkerPlain, DialKeeps, RecvInitKeeps, RecvStartKeeps, FinishPrepareKeeps,
     FinishWorkKeeps
<1>5. CASE Environment
  BY <1>1, <1>5, FaultPlain, RestartKeeps
<1> QED
  BY <1>2, <1>3, <1>4, <1>5 DEF Next

\* The barrier invariant is inductive.
LEMMA StepBarrier == TypeOK /\ BarrierInv /\ [Next]_vars => BarrierInv'
<1> SUFFICES ASSUME TypeOK, BarrierInv, [Next]_vars PROVE BarrierInv'
  OBVIOUS
<1>1. CASE UNCHANGED vars
  <2> USE <1>1 DEF vars, schedVars, chanVars, netVars, workerVars, histVars
  <2>1. TeamsInv' /\ CountInv'
    BY DEF BarrierInv, TeamsInv, CountInv, Awaiting
  <2>2. ReleaseInv'
    BY DEF BarrierInv, ReleaseInv, Started
  <2>3. EvidenceInv' /\ BindInv'
    BY DEF BarrierInv, EvidenceInv, BindInv, Serves
  <2> QED
    BY <2>1, <2>2, <2>3 DEF BarrierInv
<1>2. CASE Next
  <2>1. TeamsInv'
    BY <1>2, TeamsScheduler, TeamsHandler, TeamsRest DEF Next
  <2>2. CountInv'
    BY <1>2, CountScheduler, CountHandler, CountRest DEF Next
  <2>3. ReleaseInv'
    BY <1>2, ReleaseScheduler, ReleaseHandler, ReleaseRest DEF Next
  <2>4. EvidenceInv' /\ BindInv'
    BY <1>2, StepEvidenceBind
  <2> QED
    BY <2>1, <2>2, <2>3, <2>4 DEF BarrierInv
<1> QED
  BY <1>1, <1>2

\* The inductive invariant always holds.
THEOREM BarrierInvariant == Spec => [](TypeOK /\ BarrierInv)
<1>1. Init => TypeOK /\ BarrierInv
  BY InitTypeOK, InitBarrier
<1>2. TypeOK /\ BarrierInv /\ [Next]_vars => (TypeOK /\ BarrierInv)'
  BY StepTypeOK, StepBarrier
<1> QED
  BY <1>1, <1>2, PTL DEF Spec

\* No worker of the running server puts load on the store before the whole
\* team of its test has prepared, whatever crashes or is lost on the way.
LEMMA BarrierImplies == TypeOK /\ BarrierInv => StartBarrier
<1> SUFFICES ASSUME TypeOK, BarrierInv, NEW w \in Worker, wpc[w] = "perf", Serves(w)
             PROVE  /\ wTest[w] \in Test
                    /\ wConn[w] \in team[wTest[w]]
                    /\ Cardinality(team[wTest[w]]) = TeamSize[wTest[w]]
                    /\ team[wTest[w]] \subseteq prepared
  BY DEF StartBarrier
<1>1. wConn[w] \in released /\ wConn[w] \in prepared
  BY DEF BarrierInv, EvidenceInv
<1>2. wTest[w] \in Test /\ wConn[w] \in team[wTest[w]]
  BY <1>1 DEF BarrierInv, BindInv
<1>3. Started(wTest[w]) /\ team[wTest[w]] \subseteq prepared
  BY <1>1, <1>2 DEF BarrierInv, ReleaseInv
<1>4. Cardinality(team[wTest[w]]) = TeamSize[wTest[w]]
  BY <1>2, <1>3 DEF BarrierInv, CountInv, Started
<1> QED
  BY <1>2, <1>3, <1>4

\* The start barrier of the server, for all workers, connections, tests, teams and
\* faults: nobody loads the store before every member of a full team has prepared.
THEOREM Barrier == Spec => []StartBarrier
  BY BarrierInvariant, BarrierImplies, PTL
=============================================================================
