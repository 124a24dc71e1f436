----------------------------- MODULE RowsProofs -----------------------------
(***************************************************************************)
(* Tests of a server do not overlap, rows are complete, no send waits:     *)
(* RowsInv of Coordinator is inductive on top of BarrierInv, and implies   *)
(* NoOverlap, RowsComplete, SendNeverBlocks, Lockstep, LostMemberStalls,   *)
(* and that a worker whose server died does at most one phase more.        *)
(* ExitInv says when a server tells its workers to end.  And every step is *)
(* a step or a stutter of Rounds.                                          *)
(***************************************************************************)
EXTENDS CoordinatorProofs

(***************************************************************************)
(* Turns.                                                                  *)
(***************************************************************************)

\* The lengths of the streams of a connection.
LEMMA StreamLengths ==
  ASSUME TypeOK, NEW c \in Conn
  PROVE  /\ up[c] \in Seq(UpMsg) /\ down[c] \in Seq(DownMsg)
         /\ Len(up[c]) \in Nat /\ Len(down[c]) \in Nat
         /\ Len(up[c]) = 0 <=> up[c] = <<>>
         /\ Len(down[c]) = 0 <=> down[c] = <<>>
<1>1. up[c] \in Seq(UpMsg) /\ down[c] \in Seq(DownMsg)
  BY DEF TypeOK
<1> QED
  BY <1>1

\* Two streams that only become empty hold no more together.
LEMMA NoLonger ==
  ASSUME NEW u, NEW d, NEW v, NEW e, Len(u) \in Nat, Len(d) \in Nat, Len(u) + Len(d) <= 1,
         Len(v) \in {Len(u), 0}, Len(e) \in {Len(d), 0}
  PROVE  Len(v) + Len(e) <= 1
  OBVIOUS

\* Two streams with one message: it is in one of them.
LEMMA OneOfTwo ==
  ASSUME NEW u, NEW d, Len(u) \in Nat, Len(d) \in Nat, Len(u) + Len(d) <= 1
  PROVE  /\ Len(u) <= 1 /\ (Len(u) = 1 => Len(d) = 0)
         /\ Len(d) <= 1 /\ (Len(d) = 1 => Len(u) = 0)
         /\ Len(u) = 0 \/ Len(d) = 0
  OBVIOUS

\* A stream that holds one message is empty once that one is read.
LEMMA TailOfOne ==
  ASSUME NEW S, NEW s \in Seq(S), s # <<>>, Len(s) <= 1
  PROVE  Len(s) = 1 /\ Tail(s) = <<>>
<1>1. Len(s) \in Nat /\ Len(s) # 0
  OBVIOUS
<1>2. Tail(s) \in Seq(S) /\ Len(Tail(s)) = 0
  BY <1>1
<1> QED
  BY <1>1, <1>2

\* The turn of a connection stays where it is, or ends.
Idle(c) ==
  /\ up'[c] \in {up[c], <<>>} /\ down'[c] \in {down[c], <<>>}
  /\ h'[c] \in Holding => h[c] \in Holding
  /\ Busy(c)' => Busy(c)

\* Such a step keeps the turn.
LEMMA IdleTurn ==
  ASSUME TypeOK, NEW c \in Conn, Turn(c), Idle(c)
  PROVE  Turn(c)'
<1>1. Len(up'[c]) + Len(down'[c]) <= 1
  <2>1. Len(<<>>) = 0
    OBVIOUS
  <2>2. Len(up[c]) \in Nat /\ Len(down[c]) \in Nat /\ Len(up[c]) + Len(down[c]) <= 1
    BY StreamLengths DEF Turn
  <2>3. /\ Len(up'[c]) \in {Len(up[c]), 0}
        /\ Len(down'[c]) \in {Len(down[c]), 0}
    BY <2>1 DEF Idle
  <2> QED
    BY <2>2, <2>3, NoLonger
<1> QED
  BY <1>1 DEF Turn, Idle

\* The goroutine gives its turn to a message, which is lost if nobody is there.
LEMMA SendTurn ==
  ASSUME TypeOK, NEW c \in Conn, NEW m \in DownMsg, Turn(c), SendDown(c, m),
         h[c] \in Holding, h'[c] \notin Holding, up' = up, Busy(c)' => Busy(c)
  PROVE  Turn(c)'
<1>1. up[c] = <<>> /\ down[c] = <<>> /\ ~Busy(c)
  BY DEF Turn
<1>2. down'[c] = down[c] \/ down'[c] = Append(down[c], m)
  BY DEF SendDown, TypeOK
<1>3. Len(Append(down[c], m)) = 1
  BY <1>1
<1>4. Len(up'[c]) + Len(down'[c]) <= 1
  <2>1. up'[c] = <<>> /\ down'[c] \in {<<>>, Append(down[c], m)}
    BY <1>1, <1>2
  <2>2. Len(<<>>) = 0 /\ Len(<<>>) + Len(<<>>) <= 1
    OBVIOUS
  <2>3. Len(<<>>) + Len(Append(down[c], m)) <= 1
    BY <1>3, <2>2
  <2> QED
    BY <2>1, <2>2, <2>3
<1> QED
  BY <1>1, <1>4 DEF Turn

\* A message from the worker gives the turn to the goroutine.
LEMMA ReadTurn ==
  ASSUME TypeOK, NEW c \in Conn, Turn(c), up[c] # <<>>, up'[c] \in {Tail(up[c]), <<>>},
         down' = down, Busy(c)' => Busy(c)
  PROVE  Turn(c)'
<1>1. Len(up[c]) = 1 /\ Tail(up[c]) = <<>> /\ down[c] = <<>> /\ ~Busy(c)
  <2>0. Len(up[c]) \in Nat /\ Len(down[c]) \in Nat /\ up[c] \in Seq(UpMsg)
    BY StreamLengths
  <2>1. Len(up[c]) + Len(down[c]) <= 1
    BY DEF Turn
  <2>2. Len(up[c]) <= 1 /\ (Len(up[c]) = 1 => Len(down[c]) = 0)
    BY <2>0, <2>1, OneOfTwo
  <2>3. Len(up[c]) = 1 /\ Tail(up[c]) = <<>>
    BY <2>0, <2>2, TailOfOne
  <2> QED
    BY <2>2, <2>3, StreamLengths DEF Turn
<1>2. up'[c] = <<>> /\ down'[c] = <<>> /\ Len(<<>>) = 0
  BY <1>1
<1> QED
  BY <1>1, <1>2 DEF Turn

\* No worker takes up preparing or performing in a step that is not a receipt.
LEMMA BusyFrame ==
  ASSUME \A w \in Worker : wpc'[w] \in {"prepare", "perf"} => wpc[w] = wpc'[w] /\ wConn[w] = wConn'[w],
         NEW c
  PROVE  Busy(c)' => Busy(c)
  BY DEF Busy

\* The scheduler speaks only to parked connections.
LEMMA TurnScheduler == TypeOK /\ TurnInv /\ Scheduler => TurnInv'
<1> SUFFICES ASSUME TypeOK, TurnInv, Scheduler, NEW d \in Conn PROVE Turn(d)'
  BY DEF TurnInv
<1> USE DEF schedVars, chanVars, netVars, workerVars, histVars
<1>0. Turn(d)
  BY DEF TurnInv
<1>1. CASE Listen \/ AwaitPrepared \/ LetContinue \/ AwaitWorkDone \/ CollectResult \/ Report
  <2>1. UNCHANGED <<up, down, h, wpc, wConn>>
    BY <1>1 DEF Listen, AwaitPrepared, LetContinue, AwaitWorkDone, CollectResult, Report
  <2> QED
    BY <1>0, <2>1, IdleTurn DEF Idle, Busy
<1>2. ASSUME NEW c \in Conn, TakeWorker(c) PROVE Turn(d)'
  <2>1. h[c] = "parked" /\ h' = [h EXCEPT ![c] = "init"] /\ UNCHANGED <<up, down, wpc, wConn>>
    BY <1>2 DEF TakeWorker
  <2>2. h'[d] \in Holding => h[d] \in Holding
    BY <2>1 DEF Holding, TypeOK
  <2> QED
    BY <1>0, <2>1, <2>2, IdleTurn DEF Idle, Busy
<1>3. ASSUME NEW c \in Conn, ShutdownWorker(c) PROVE Turn(d)'
  <2>1. /\ h[c] = "parked" /\ h' = [h EXCEPT ![c] = "drained"] /\ SendDown(c, M("shutdown"))
        /\ UNCHANGED <<up, wpc, wConn>>
    BY <1>3 DEF ShutdownWorker
  <2>2. CASE d = c
    <3>1. M("shutdown") \in DownMsg /\ h'[c] = "drained"
      BY <2>1 DEF M, DownMsg, TypeOK
    <3> QED
      BY <1>0, <2>1, <2>2, <3>1, SendTurn DEF Holding, Busy
  <2>3. CASE d # c
    <3>1. h'[d] = h[d] /\ down'[d] = down[d]
      BY <2>1, <2>3 DEF SendDown, TypeOK
    <3> QED
      BY <1>0, <2>1, <3>1, IdleTurn DEF Idle, Busy
  <2> QED
    BY <2>2, <2>3
<1> QED
  BY <1>1, <1>2, <1>3 DEF Scheduler

\* A goroutine speaks when it has the turn, and has it once it has read.
LEMMA TurnHandler == \A c \in Conn : TypeOK /\ TurnInv /\ Handler(c) => TurnInv'
<1> SUFFICES ASSUME NEW c \in Conn, TypeOK, TurnInv, Handler(c), NEW d \in Conn PROVE Turn(d)'
  BY DEF TurnInv
<1> USE DEF schedVars, chanVars, netVars, workerVars, histVars
<1>0. Turn(d) /\ h \in [Conn -> HandlerAt] /\ up \in [Conn -> Seq(UpMsg)] /\ down \in [Conn -> Seq(DownMsg)]
  BY DEF TurnInv, TypeOK
<1>1. CASE Greet(c) \/ Decode(c)
  <2>1. /\ up[c] # <<>> /\ up'[c] \in {Tail(up[c]), <<>>}
        /\ \A e \in Conn : e # c => up'[e] = up[e] /\ h'[e] = h[e]
        /\ UNCHANGED <<down, wpc, wConn>>
    BY <1>0, <1>1 DEF Greet, Decode
  <2>2. CASE d = c
    BY <1>0, <2>1, <2>2, ReadTurn DEF Busy
  <2>3. CASE d # c
    BY <1>0, <2>1, <2>3, IdleTurn DEF Idle, Busy
  <2> QED
    BY <2>2, <2>3
<1>2. CASE Drop(c) \/ CloseConn(c)
  <2>1. /\ h'[c] \in {"dropped", "closed"} /\ \A e \in Conn : e # c => h'[e] = h[e]
        /\ UNCHANGED <<up, down, wpc, wConn>>
    BY <1>0, <1>2 DEF Drop, CloseConn
  <2>2. h'[d] \in Holding => h[d] \in Holding
    BY <2>1 DEF Holding
  <2> QED
    BY <1>0, <2>1, <2>2, IdleTurn DEF Idle, Busy
<1>3. ASSUME NEW t \in Test, SendInit(t, c) \/ SendStart(t, c) PROVE Turn(d)'
  <2>1. /\ h[c] \in {"init", "await"} /\ h'[c] = "decode" /\ \A e \in Conn : e # c => h'[e] = h[e]
        /\ UNCHANGED <<up, wpc, wConn>>
    BY <1>0, <1>3 DEF SendInit, SendStart
  <2>2. PICK m \in DownMsg : SendDown(c, m)
    <3>1. InitMsg(t) \in DownMsg /\ M("start work") \in DownMsg
      BY DEF InitMsg, M, DownMsg
    <3> QED
      BY <1>3, <3>1 DEF SendInit, SendStart
  <2>3. CASE d = c
    BY <1>0, <2>1, <2>2, <2>3, SendTurn DEF Holding, Busy
  <2>4. CASE d # c
    <3>1. down'[d] = down[d]
      BY <1>0, <2>2, <2>4 DEF SendDown
    <3> QED
      BY <1>0, <2>1, <2>4, <3>1, IdleTurn DEF Idle, Busy
  <2> QED
    BY <2>3, <2>4
<1>4. ASSUME NEW t \in Test, SignalDone(t, c) \/ SendResult(t, c) PROVE Turn(d)'
  <2>1. /\ h[c] \in {"gotPrepared", "gotWork", "result"} /\ \A e \in Conn : e # c => h'[e] = h[e]
        /\ UNCHANGED <<up, down, wpc, wConn>>
    BY <1>0, <1>4 DEF SignalDone, SendResult
  <2>2. h'[d] \in Holding => h[d] \in Holding
    BY <2>1 DEF Holding
  <2> QED
    BY <1>0, <2>1, <2>2, IdleTurn DEF Idle, Busy
<1> QED
  BY <1>1, <1>2, <1>3, <1>4 DEF Handler

\* A worker that takes a message has the turn.
LEMMA ReceiptTurn ==
  ASSUME TypeOK, TurnInv, NEW w \in Worker, NEW kind, Receives(w, kind),
         \A v \in Worker : v # w => wpc'[v] = wpc[v] /\ wConn'[v] = wConn[v],
         wConn'[w] \in {wConn[w], None}
  PROVE  TurnInv'
<1> SUFFICES ASSUME NEW d \in Conn PROVE Turn(d)'
  BY DEF TurnInv
<1> USE DEF schedVars, chanVars, netVars, histVars
<1>0. Turn(d) /\ down \in [Conn -> Seq(DownMsg)] /\ wConn[w] \in Conn /\ None \notin Conn
  BY HasConn, NoneAssumption DEF TurnInv, TypeOK, Receives
<1>1. CASE d = wConn[w]
  <2>1. down[d] # <<>> /\ down'[d] = Tail(down[d]) /\ up' = up /\ h' = h
    BY <1>0, <1>1 DEF Receives
  <2>2. Len(down[d]) <= 1 /\ (Len(down[d]) = 1 => Len(up[d]) = 0)
    BY <1>0, StreamLengths, OneOfTwo DEF Turn
  <2>3. Len(down[d]) = 1 /\ Tail(down[d]) = <<>>
    BY <2>1, <2>2, StreamLengths, TailOfOne
  <2>4. up'[d] = <<>> /\ down'[d] = <<>>
    BY <2>1, <2>2, <2>3, StreamLengths
  <2>5. Len(<<>>) + Len(<<>>) <= 1
    OBVIOUS
  <2>6. h'[d] \notin Holding
    BY <1>0, <2>1 DEF Turn
  <2> QED
    BY <2>4, <2>5, <2>6 DEF Turn
<1>2. CASE d # wConn[w]
  <2>1. up'[d] = up[d] /\ down'[d] = down[d] /\ h'[d] = h[d]
    BY <1>0, <1>2 DEF Receives
  <2>2. Busy(d)' => Busy(d)
    BY <1>0, <1>2 DEF Busy
  <2> QED
    BY <1>0, <2>1, <2>2, IdleTurn DEF Idle
<1> QED
  BY <1>1, <1>2

\* A worker that answers has the turn, and gives it up.
LEMMA AnswerTurn ==
  ASSUME TypeOK, TurnInv, BindInv, NEW w \in Worker, NEW m \in UpMsg, Answer(w, m),
         wpc[w] \in {"prepare", "perf"}, h' = h, down' = down
  PROVE  TurnInv'
<1> SUFFICES ASSUME NEW d \in Conn PROVE Turn(d)'
  BY DEF TurnInv
<1>0. /\ Turn(d) /\ up \in [Conn -> Seq(UpMsg)] /\ wConn[w] \in Conn
      /\ \A v \in Worker : v # w => wpc'[v] = wpc[v] /\ wConn'[v] = wConn[v]
      /\ wpc'[w] \notin {"prepare", "perf"}
  BY HasConn, AnswerEffect DEF TurnInv, TypeOK
<1>1. Busy(d)' => Busy(d) /\ d # wConn[w]
  <2>1. \A v \in Worker : v # w => wConn[v] # wConn[w]
    BY <1>0, NoneAssumption DEF BindInv
  <2> QED
    BY <1>0, <2>1 DEF Busy
<1>2. up'[d] = up[d] \/ (d = wConn[w] /\ up'[d] = Append(up[d], m))
  BY <1>0 DEF Answer
<1>3. CASE up'[d] = up[d]
  BY <1>0, <1>1, <1>3, IdleTurn DEF Idle
<1>4. CASE d = wConn[w] /\ up'[d] = Append(up[d], m)
  <2>1. up[d] = <<>> /\ down[d] = <<>> /\ h[d] \notin Holding
    BY <1>0, <1>4 DEF Turn, Busy
  <2>2. Len(Append(<<>>, m)) + Len(<<>>) <= 1
    OBVIOUS
  <2> QED
    BY <1>1, <1>4, <2>1, <2>2 DEF Turn
<1> QED
  BY <1>2, <1>3, <1>4

\* Workers keep the turns.
LEMMA TurnWorker == \A w \in Worker : TypeOK /\ BindInv /\ TurnInv /\ WorkerStep(w) => TurnInv'
<1> SUFFICES ASSUME NEW w \in Worker, TypeOK, BindInv, TurnInv, WorkerStep(w) PROVE TurnInv'
  OBVIOUS
<1> USE DEF schedVars, chanVars, netVars, histVars
<1>0. wpc \in [Worker -> WorkerAt] /\ wConn \in [Worker -> Conn \cup {None}] /\ h \in [Conn -> HandlerAt]
  BY DEF TypeOK
<1>1. CASE Dial(w)
  <2>1. PICK c \in Conn : /\ h[c] = "none" /\ h' = [h EXCEPT ![c] = "greet"]
                          /\ up' = [up EXCEPT ![c] = Append(@, "ready for work")]
                          /\ wConn' = [wConn EXCEPT ![w] = c]
    <3> DEFINE c == CHOOSE c \in Conn : h[c] = "none"
    <3>1. c \in Conn /\ h[c] = "none"
      BY <1>1 DEF Dial
    <3> QED
      BY <1>1, <3>1 DEF Dial
  <2>2. wpc' = [wpc EXCEPT ![w] = "recv"] /\ down' = down
    BY <1>1 DEF Dial
  <2> SUFFICES ASSUME NEW d \in Conn PROVE Turn(d)'
    BY DEF TurnInv
  <2>3. Turn(d) /\ (Busy(d)' => Busy(d))
    <3>1. \A v \in Worker : wpc'[v] \in {"prepare", "perf"} => wpc[v] = wpc'[v] /\ wConn[v] = wConn'[v]
      BY <1>0, <2>1, <2>2
    <3> QED
      BY <3>1, BusyFrame DEF TurnInv
  <2>4. CASE d = c
    <3>1. up[c] = <<>> /\ down[c] = <<>> /\ ~Busy(c)
      BY <2>1, <2>3, <2>4 DEF Turn, Holding
    <3>2. h'[c] = "greet" /\ up'[c] = Append(<<>>, "ready for work") /\ down'[c] = <<>>
      BY <1>0, <2>1, <2>2, <3>1 DEF TypeOK
    <3>3. Len(Append(<<>>, "ready for work")) + Len(<<>>) <= 1
      OBVIOUS
    <3> QED
      BY <2>3, <2>4, <3>1, <3>2, <3>3 DEF Turn, Holding
  <2>5. CASE d # c
    <3>1. up'[d] = up[d] /\ down'[d] = down[d] /\ h'[d] = h[d]
      BY <1>0, <2>1, <2>2, <2>5 DEF TypeOK
    <3> QED
      BY <2>3, <3>1, IdleTurn DEF Idle
  <2> QED
    BY <2>4, <2>5
<1>2. CASE DialRefused(w) \/ Wake(w) \/ RecvError(w)
  <2>1. UNCHANGED <<h, up, down>>
    BY <1>2 DEF DialRefused, Wake, RecvError
  <2>2. \A v \in Worker : wpc'[v] \in {"prepare", "perf"} => wpc[v] = wpc'[v] /\ wConn[v] = wConn'[v]
    BY <1>0, <1>2 DEF DialRefused, Wake, RecvError, Leave
  <2> QED
    BY <2>1, <2>2, BusyFrame, IdleTurn DEF Idle, TurnInv
<1>3. CASE RecvInit(w) \/ RecvStart(w) \/ RecvShutdown(w)
  <2>1. PICK kind : Receives(w, kind)
    BY <1>3 DEF RecvInit, RecvStart, RecvShutdown
  <2>2. /\ \A v \in Worker : v # w => wpc'[v] = wpc[v] /\ wConn'[v] = wConn[v]
        /\ wConn'[w] \in {wConn[w], None}
    BY <1>0, <1>3 DEF RecvInit, RecvStart, RecvShutdown, Leave
  <2> QED
    BY <2>1, <2>2, ReceiptTurn
<1>4. CASE FinishPrepare(w)
  BY <1>4, AnswerTurn DEF FinishPrepare, UpMsg
<1>5. CASE FinishWork(w)
  BY <1>5, AnswerTurn DEF FinishWork, UpMsg
<1> QED
  BY <1>1, <1>2, <1>3, <1>4, <1>5 DEF WorkerStep

\* Faults take turns away, and give none.
LEMMA TurnEnvironment == TypeOK /\ TurnInv /\ Environment => TurnInv'
<1> SUFFICES ASSUME TypeOK, TurnInv, Environment, NEW d \in Conn PROVE Turn(d)'
  BY DEF TurnInv
<1> USE DEF schedVars, chanVars, netVars, workerVars, histVars
<1>0. /\ Turn(d) /\ wpc \in [Worker -> WorkerAt] /\ wConn \in [Worker -> Conn \cup {None}]
      /\ up \in [Conn -> Seq(UpMsg)] /\ down \in [Conn -> Seq(DownMsg)]
  BY DEF TurnInv, TypeOK
<1>1. ASSUME NEW w \in Worker, WorkerCrash(w) \/ WorkerRestart(w) PROVE Turn(d)'
  <2>1. h' = h /\ down' = down /\ up'[d] \in {up[d], <<>>}
    BY <1>1 DEF WorkerCrash, WorkerRestart
  <2>2. \A v \in Worker : wpc'[v] \in {"prepare", "perf"} => wpc[v] = wpc'[v] /\ wConn[v] = wConn'[v]
    BY <1>0, <1>1 DEF WorkerCrash, WorkerRestart, Leave
  <2> QED
    BY <1>0, <2>1, <2>2, BusyFrame, IdleTurn DEF Idle
<1>2. ASSUME NEW c \in Conn, Reset(c) PROVE Turn(d)'
  <2>1. h' = h /\ UNCHANGED <<wpc, wConn>> /\ up'[d] \in {up[d], <<>>} /\ down'[d] \in {down[d], <<>>}
    BY <1>0, <1>2 DEF Reset
  <2> QED
    BY <1>0, <2>1, IdleTurn DEF Idle, Busy
<1>3. CASE ServerRestart
  <2>1. h'[d] \in Holding => h[d] \in Holding
    BY <1>3, RestartFresh DEF Holding
  <2> QED
    BY <1>0, <1>3, <2>1, RestartFresh, IdleTurn DEF Idle, Busy
<1> QED
  BY <1>1, <1>2, <1>3 DEF Environment

\* The turns are kept by every step.
LEMMA StepTurn == TypeOK /\ BarrierInv /\ TurnInv /\ Next => TurnInv'
  BY TurnScheduler, TurnHandler, TurnWorker, TurnEnvironment DEF Next, BarrierInv

(***************************************************************************)
(* What a step can do: the moves of goroutines, messages and workers.      *)
(***************************************************************************)

HandlerMove(c) ==
  \/ h'[c] = h[c]
  \/ h[c] = "none" /\ h'[c] = "greet"
  \/ h[c] = "greet" /\ h'[c] \in {"parked", "dropped"}
  \/ h[c] = "parked" /\ h'[c] \in {"init", "drained"}
  \/ h[c] = "init" /\ h'[c] = "decode"
  \/ h[c] = "decode" /\ h'[c] = "dropped"
  \/ h[c] = "decode" /\ h'[c] = "gotPrepared" /\ "preparations done" \in Range(up[c])
  \/ h[c] = "decode" /\ h'[c] = "gotWork" /\ "work done" \in Range(up[c])
  \/ h[c] = "gotPrepared" /\ h'[c] = "await"
  \/ h[c] = "await" /\ h'[c] = "decode" /\ c \in released'
  \/ h[c] = "gotWork" /\ h'[c] = "result"
  \/ h[c] = "result" /\ h'[c] = "closing"
  \/ h[c] = "closing" /\ h'[c] = "closed"
  \/ h[c] # "none" /\ h'[c] = "orphaned" /\ ServerRestart

DownMove(c) ==
  \A m \in Range(down'[c]) :
    \/ m \in Range(down[c])
    \/ m.kind = "init" /\ h[c] = "init" /\ h'[c] = "decode"
    \/ m.kind = "start work" /\ h[c] = "await" /\ h'[c] = "decode"
    \/ m.kind = "shutdown" /\ h[c] = "parked"

UpMove(c) ==
  \A m \in Range(up'[c]) :
    \/ m \in Range(up[c])
    \/ m = "ready for work"
    \/ m = "preparations done" /\ \E w \in Worker : wConn[w] = c /\ wpc[w] = "prepare"
    \/ m = "work done" /\ c \in finished'

WorkerMove(w) ==
  \/ wpc'[w] \notin {"prepare", "perf"}
  \/ wpc'[w] = wpc[w] /\ wConn'[w] = wConn[w]
  \/ wpc'[w] = "prepare" /\ wConn'[w] = wConn[w] /\ \E m \in Range(down[wConn[w]]) : m.kind = "init"
  \/ wpc'[w] = "perf" /\ wConn'[w] = wConn[w] /\ \E m \in Range(down[wConn[w]]) : m.kind = "start work"

HistoryMove ==
  /\ prepared \subseteq prepared' /\ released \subseteq released' /\ finished \subseteq finished'
  /\ \A c \in prepared' \ prepared :
       h' = h /\ \E w \in Worker : wpc[w] = "prepare" /\ wConn[w] = c /\ wpc'[w] # "prepare"
  /\ \A c \in released' \ released : h[c] = "await" /\ h'[c] = "decode"
  /\ \A c \in finished' \ finished :
       h' = h /\ \E w \in Worker : wpc[w] = "perf" /\ wConn[w] = c

Moves ==
  /\ \A c \in Conn : HandlerMove(c) /\ DownMove(c) /\ UpMove(c)
  /\ \A w \in Worker : WorkerMove(w)
  /\ HistoryMove

\* A message sent upwards joins those of its stream.
LEMMA UpAppendRange ==
  ASSUME TypeOK, NEW c \in Conn, NEW m \in UpMsg
  PROVE  Range(Append(up[c], m)) = Range(up[c]) \cup {m}
<1>1. up[c] \in Seq(UpMsg)
  BY DEF TypeOK
<1> QED
  BY <1>1, RangeAppend, SMTT(30)

\* The moves of the scheduler.
LEMMA SchedulerMoves == TypeOK /\ Scheduler => Moves
<1> SUFFICES ASSUME TypeOK, Scheduler PROVE Moves
  OBVIOUS
<1> USE DEF schedVars, chanVars, netVars, workerVars, histVars
<1>1. CASE Listen \/ AwaitPrepared \/ LetContinue \/ AwaitWorkDone \/ CollectResult \/ Report
  BY <1>1 DEF Listen, AwaitPrepared, LetContinue, AwaitWorkDone, CollectResult, Report,
              Moves, HandlerMove, DownMove, UpMove, WorkerMove, HistoryMove
<1>2. ASSUME NEW c \in Conn, TakeWorker(c) PROVE Moves
  <2>1. \A d \in Conn : HandlerMove(d)
    BY <1>2 DEF TakeWorker, HandlerMove, TypeOK
  <2> QED
    BY <1>2, <2>1 DEF TakeWorker, Moves, DownMove, UpMove, WorkerMove, HistoryMove
<1>3. ASSUME NEW c \in Conn, ShutdownWorker(c) PROVE Moves
  <2>1. \A d \in Conn : HandlerMove(d)
    BY <1>3 DEF ShutdownWorker, HandlerMove, TypeOK
  <2>2. M("shutdown") \in DownMsg /\ M("shutdown").kind = "shutdown"
    BY DEF M, DownMsg
  <2>3. \A d \in Conn : DownMove(d)
    <3>1. \A d \in Conn : \A m \in Range(down'[d]) : m \in Range(down[d]) \/ (d = c /\ m = M("shutdown"))
      BY <1>3, <2>2, SendDownRange DEF ShutdownWorker
    <3> QED
      BY <1>3, <2>2, <3>1 DEF ShutdownWorker, DownMove
  <2> QED
    BY <1>3, <2>1, <2>3 DEF ShutdownWorker, Moves, UpMove, WorkerMove, HistoryMove
<1> QED
  BY <1>1, <1>2, <1>3 DEF Scheduler

\* The moves of a connection's goroutine.
LEMMA HandlerMoves == \A c \in Conn : TypeOK /\ Handler(c) => Moves
<1> SUFFICES ASSUME NEW c \in Conn, TypeOK, Handler(c) PROVE Moves
  OBVIOUS
<1> USE DEF schedVars, chanVars, netVars, workerVars, histVars
<1>0. h \in [Conn -> HandlerAt] /\ up \in [Conn -> Seq(UpMsg)]
  BY DEF TypeOK
<1>1. CASE Greet(c) \/ Decode(c)
  <2>1. up[c] \in Seq(UpMsg) /\ up[c] # <<>>
    BY <1>0, <1>1 DEF Greet, Decode
  <2>2. Head(up[c]) \in Range(up[c]) /\ Range(Tail(up[c])) \subseteq Range(up[c])
    BY <2>1, RangeTail
  <2>3. \A d \in Conn : HandlerMove(d)
    BY <1>0, <1>1, <2>2 DEF Greet, Decode, HandlerMove
  <2>4. \A d \in Conn : UpMove(d)
    BY <1>0, <1>1, <2>2, RangeEmpty DEF Greet, Decode, UpMove
  <2> QED
    BY <1>1, <2>3, <2>4 DEF Greet, Decode, Moves, DownMove, WorkerMove, HistoryMove
<1>2. CASE Drop(c) \/ CloseConn(c)
  <2>1. \A d \in Conn : HandlerMove(d)
    BY <1>0, <1>2 DEF Drop, CloseConn, HandlerMove
  <2> QED
    BY <1>2, <2>1 DEF Drop, CloseConn, Moves, DownMove, UpMove, WorkerMove, HistoryMove
<1>3. ASSUME NEW t \in Test, SendInit(t, c) PROVE Moves
  <2>1. /\ h[c] = "init" /\ h' = [h EXCEPT ![c] = "decode"] /\ SendDown(c, InitMsg(t))
        /\ UNCHANGED <<up, wpc, wConn, prepared, released, finished>>
    BY <1>3 DEF SendInit
  <2>2. InitMsg(t) \in DownMsg /\ InitMsg(t).kind = "init"
    BY DEF InitMsg, DownMsg
  <2>3. \A d \in Conn : \A m \in Range(down'[d]) : m \in Range(down[d]) \/ (d = c /\ m = InitMsg(t))
    BY <2>1, <2>2, SendDownRange
  <2>4. \A d \in Conn : h'[d] = IF d = c THEN "decode" ELSE h[d]
    BY <1>0, <2>1
  <2> QED
    BY <2>1, <2>2, <2>3, <2>4 DEF Moves, HandlerMove, DownMove, UpMove, WorkerMove, HistoryMove
<1>4. ASSUME NEW t \in Test, SendStart(t, c) PROVE Moves
  <2>1. /\ h[c] = "await" /\ h' = [h EXCEPT ![c] = "decode"] /\ SendDown(c, M("start work"))
        /\ released' = released \cup {c}
        /\ UNCHANGED <<up, wpc, wConn, prepared, finished>>
    BY <1>4 DEF SendStart
  <2>2. M("start work") \in DownMsg /\ M("start work").kind = "start work"
    BY DEF M, DownMsg
  <2>3. \A d \in Conn : \A m \in Range(down'[d]) : m \in Range(down[d]) \/ (d = c /\ m = M("start work"))
    BY <2>1, <2>2, SendDownRange
  <2>4. \A d \in Conn : h'[d] = IF d = c THEN "decode" ELSE h[d]
    BY <1>0, <2>1
  <2> QED
    BY <2>1, <2>2, <2>3, <2>4 DEF Moves, HandlerMove, DownMove, UpMove, WorkerMove, HistoryMove
<1>5. ASSUME NEW t \in Test, SignalDone(t, c) \/ SendResult(t, c) PROVE Moves
  <2>1. \A d \in Conn : HandlerMove(d)
    BY <1>0, <1>5 DEF SignalDone, SendResult, HandlerMove
  <2> QED
    BY <1>5, <2>1 DEF SignalDone, SendResult, Moves, DownMove, UpMove, WorkerMove, HistoryMove
<1> QED
  BY <1>1, <1>2, <1>3, <1>4, <1>5 DEF Handler

\* The moves of a worker.
LEMMA WorkerMoves == \A w \in Worker : TypeOK /\ WorkerStep(w) => Moves
<1> SUFFICES ASSUME NEW w \in Worker, TypeOK, WorkerStep(w) PROVE Moves
  OBVIOUS
<1> USE DEF schedVars, chanVars, netVars, histVars
<1>0. /\ wpc \in [Worker -> WorkerAt] /\ wConn \in [Worker -> Conn \cup {None}]
      /\ h \in [Conn -> HandlerAt] /\ up \in [Conn -> Seq(UpMsg)]
  BY DEF TypeOK
<1>1. CASE Dial(w)
  <2>1. PICK c \in Conn : /\ h[c] = "none" /\ h' = [h EXCEPT ![c] = "greet"]
                          /\ up' = [up EXCEPT ![c] = Append(@, "ready for work")]
    <3> DEFINE c == CHOOSE c \in Conn : h[c] = "none"
    <3>1. c \in Conn /\ h[c] = "none"
      BY <1>1 DEF Dial
    <3> QED
      BY <1>1, <3>1 DEF Dial
  <2>2. \A d \in Conn : HandlerMove(d)
    BY <1>0, <2>1 DEF HandlerMove
  <2>3. Range(Append(up[c], "ready for work")) = Range(up[c]) \cup {"ready for work"}
    BY UpAppendRange DEF UpMsg
  <2>4. \A d \in Conn : UpMove(d)
    BY <1>0, <2>1, <2>3 DEF UpMove
  <2>5. \A v \in Worker : WorkerMove(v)
    <3>1. wpc' = [wpc EXCEPT ![w] = "recv"] /\ \A v \in Worker : v # w => wConn'[v] = wConn[v]
      BY <1>0, <1>1 DEF Dial
    <3> QED
      BY <1>0, <3>1 DEF WorkerMove
  <2> QED
    BY <1>1, <2>2, <2>4, <2>5 DEF Dial, Moves, DownMove, HistoryMove
<1>2. CASE DialRefused(w) \/ Wake(w) \/ RecvError(w)
  <2>1. \A v \in Worker : WorkerMove(v)
    BY <1>0, <1>2 DEF DialRefused, Wake, RecvError, Leave, WorkerMove
  <2> QED
    BY <1>2, <2>1 DEF DialRefused, Wake, RecvError, Moves, HandlerMove, DownMove, UpMove, HistoryMove
<1>3. CASE RecvInit(w) \/ RecvStart(w) \/ RecvShutdown(w)
  <2>1. PICK kind : /\ Receives(w, kind)
                    /\ \/ kind = "init" /\ RecvInit(w)
                       \/ kind = "start work" /\ RecvStart(w)
                       \/ kind = "shutdown" /\ RecvShutdown(w)
    BY <1>3 DEF RecvInit, RecvStart, RecvShutdown
  <2>2. /\ Head(down[wConn[w]]) \in Range(down[wConn[w]]) /\ Head(down[wConn[w]]).kind = kind
        /\ \A c \in Conn : Range(down'[c]) \subseteq Range(down[c])
    BY <2>1, ReceivesStream
  <2>3. \A v \in Worker : WorkerMove(v)
    <3>1. CASE kind = "init" /\ RecvInit(w)
      BY <1>0, <2>2, <3>1 DEF RecvInit, WorkerMove
    <3>2. CASE kind = "start work" /\ RecvStart(w)
      BY <1>0, <2>2, <3>2 DEF RecvStart, Leave, Stopped, WorkerMove
    <3>3. CASE RecvShutdown(w)
      BY <1>0, <3>3 DEF RecvShutdown, Leave, Stopped, WorkerMove
    <3> QED
      BY <2>1, <3>1, <3>2, <3>3
  <2>4. UNCHANGED <<h, up, prepared, released, finished>>
    BY <2>1 DEF Receives
  <2> QED
    BY <2>2, <2>3, <2>4 DEF Moves, HandlerMove, DownMove, UpMove, HistoryMove
<1>4. CASE FinishPrepare(w) \/ FinishWork(w)
  <2>1. PICK m \in UpMsg : /\ Answer(w, m)
                           /\ \/ wpc[w] = "prepare" /\ m = "preparations done"
                              \/ wpc[w] = "perf" /\ m = "work done"
    <3>1. "preparations done" \in UpMsg /\ "work done" \in UpMsg
      BY DEF UpMsg
    <3>2. CASE FinishPrepare(w)
      <4>1. Answer(w, "preparations done") /\ wpc[w] = "prepare"
        BY <3>2 DEF FinishPrepare
      <4> QED
        BY <3>1, <4>1
    <3>3. CASE FinishWork(w)
      <4>1. Answer(w, "work done") /\ wpc[w] = "perf"
        BY <3>3 DEF FinishWork
      <4> QED
        BY <3>1, <4>1
    <3> QED
      BY <1>4, <3>2, <3>3
  <2>2. wConn[w] \in Conn
    BY <2>1, HasConn
  <2>3. /\ \A c \in Conn : Range(up'[c]) \subseteq Range(up[c]) \cup (IF c = wConn[w] THEN {m} ELSE {})
        /\ \A v \in Worker : v # w => wConn'[v] = wConn[v] /\ wpc'[v] = wpc[v]
        /\ wpc'[w] \notin {"prepare", "perf"}
    BY <2>1, <2>2, AnswerEffect
  <2>4. /\ h' = h /\ down' = down /\ released' = released
        /\ wpc[w] = "prepare" => prepared' = prepared \cup {wConn[w]} /\ finished' = finished
        /\ wpc[w] = "perf" => finished' = finished \cup {wConn[w]} /\ prepared' = prepared
    BY <1>4 DEF FinishPrepare, FinishWork
  <2>5. \A c \in Conn : UpMove(c)
    BY <2>1, <2>3, <2>4 DEF UpMove
  <2>6. HistoryMove
    BY <2>1, <2>3, <2>4 DEF HistoryMove
  <2> QED
    BY <2>3, <2>4, <2>5, <2>6 DEF Moves, HandlerMove, DownMove, WorkerMove
<1> QED
  BY <1>1, <1>2, <1>3, <1>4 DEF WorkerStep

\* The moves of faults.
LEMMA EnvironmentMoves == TypeOK /\ Environment => Moves
<1> SUFFICES ASSUME TypeOK, Environment PROVE Moves
  OBVIOUS
<1> USE DEF schedVars, chanVars, netVars, workerVars, histVars
<1>0. wpc \in [Worker -> WorkerAt] /\ up \in [Conn -> Seq(UpMsg)] /\ down \in [Conn -> Seq(DownMsg)]
  BY DEF TypeOK
<1>1. ASSUME NEW w \in Worker, WorkerCrash(w) \/ WorkerRestart(w) PROVE Moves
  <2>1. \A v \in Worker : WorkerMove(v)
    BY <1>0, <1>1 DEF WorkerCrash, WorkerRestart, Leave, WorkerMove, TypeOK
  <2>2. \A c \in Conn : UpMove(c)
    BY <1>1, RangeEmpty DEF WorkerCrash, WorkerRestart, UpMove
  <2> QED
    BY <1>1, <2>1, <2>2 DEF WorkerCrash, WorkerRestart, Fault, Moves, HandlerMove, DownMove, HistoryMove
<1>2. ASSUME NEW c \in Conn, Reset(c) PROVE Moves
  <2>1. \A d \in Conn : UpMove(d) /\ DownMove(d)
    BY <1>0, <1>2, RangeEmpty DEF Reset, UpMove, DownMove
  <2> QED
    BY <1>2, <2>1 DEF Reset, Fault, Moves, HandlerMove, WorkerMove, HistoryMove
<1>3. CASE ServerRestart
  BY <1>3, RestartFresh DEF Moves, HandlerMove, DownMove, UpMove, WorkerMove, HistoryMove
<1> QED
  BY <1>1, <1>2, <1>3 DEF Environment

\* Every step is made of these moves.
LEMMA StepMoves == TypeOK /\ Next => Moves
  BY SchedulerMoves, HandlerMoves, WorkerMoves, EnvironmentMoves DEF Next

(***************************************************************************)
(* Preparations are fresh, and past load is finished.                      *)
(***************************************************************************)

\* A connection with a message has no other turn.
LEMMA OneTurn ==
  ASSUME TypeOK, NEW c \in Conn, Turn(c)
  PROVE  /\ Range(down[c]) # {} => Range(up[c]) = {}
         /\ Range(down[c]) # {} \/ Range(up[c]) # {} => h[c] \notin Holding /\ ~Busy(c)
<1>1. Range(down[c]) # {} => down[c] # <<>>
  BY RangeEmpty
<1>2. Range(up[c]) # {} => up[c] # <<>>
  BY RangeEmpty
<1>3. down[c] # <<>> => up[c] = <<>>
  <2>1. Len(up[c]) = 0 \/ Len(down[c]) = 0
    BY StreamLengths, OneOfTwo DEF Turn
  <2> QED
    BY <2>1, StreamLengths
<1>4. down[c] # <<>> \/ up[c] # <<>> => h[c] \notin Holding /\ ~Busy(c)
  BY DEF Turn
<1> QED
  BY <1>1, <1>2, <1>3, <1>4, RangeEmpty

\* Who prepares on a connection is the only one there.
LEMMA PreparesAlone ==
  ASSUME TypeOK, TurnInv, NEW w \in Worker, wpc[w] \in {"prepare", "perf"}
  PROVE  /\ wConn[w] \in Conn /\ Range(up[wConn[w]]) = {} /\ Range(down[wConn[w]]) = {}
         /\ h[wConn[w]] \notin Holding
<1>1. wConn[w] \in Conn /\ Busy(wConn[w])
  BY HasConn DEF Busy
<1> QED
  BY <1>1, RangeEmpty DEF TurnInv, Turn

\* A worker prepares once on a connection, before it is released, and works only
\* while its handler waits.
LEMMA StepFresh == TypeOK /\ BarrierInv /\ TurnInv /\ FreshInv /\ Next => FreshInv'
<1> SUFFICES ASSUME TypeOK, TypeOK', EvidenceInv, BindInv, TurnInv, FreshInv, Moves PROVE FreshInv'
  BY StepMoves, StepTypeOK DEF BarrierInv
<1>1. \A c \in prepared' \ prepared :
        /\ c \in Conn /\ h'[c] = h[c] /\ h[c] \in Waiting
        /\ Range(down[c]) = {}
        /\ \A v \in Worker : wConn[v] = c => wpc'[v] # "prepare"
  <2> TAKE c \in prepared' \ prepared
  <2>1. PICK w \in Worker : wpc[w] = "prepare" /\ wConn[w] = c /\ wpc'[w] # "prepare" /\ h' = h
    BY DEF Moves, HistoryMove
  <2>2. c \in Conn /\ Range(down[c]) = {} /\ h[c] \in Waiting
    BY <2>1, PreparesAlone DEF FreshInv
  <2>3. \A v \in Worker : wConn[v] = c => v = w
    BY <2>1, <2>2, NoneAssumption DEF BindInv
  <2> QED
    BY <2>1, <2>2, <2>3
<1>2. ASSUME NEW c \in Conn, h[c] \in Waiting, Range(up[c]) = {}
      PROVE  h'[c] \in Waiting
  BY <1>2 DEF Moves, HandlerMove, Waiting
<1>3. ASSUME NEW c \in Conn, NEW m \in Range(down'[c])
      PROVE  (m.kind = "init" => c \notin prepared') /\ (m.kind # "shutdown" => h'[c] \in Waiting)
  <2>1. CASE m \in Range(down[c])
    <3>1. (m.kind = "init" => c \notin prepared) /\ (m.kind # "shutdown" => h[c] \in Waiting)
      BY <1>3, <2>1 DEF FreshInv
    <3>2. Range(up[c]) = {}
      BY <2>1, OneTurn DEF TurnInv
    <3> QED
      BY <1>1, <1>2, <2>1, <3>1, <3>2
  <2>2. CASE m.kind = "init" /\ h[c] = "init" /\ h'[c] = "decode"
    BY <1>1, <2>2 DEF FreshInv, Waiting
  <2>3. CASE m.kind = "start work" /\ h'[c] = "decode"
    BY <2>3 DEF Waiting
  <2> QED
    BY <1>3, <2>1, <2>2, <2>3 DEF Moves, DownMove
<1>4. ASSUME NEW c \in Conn, h'[c] \in {"none", "greet", "parked", "init"}
      PROVE  c \notin prepared'
  <2>1. h[c] \in {"none", "greet", "parked", "init"}
    BY <1>4 DEF Moves, HandlerMove
  <2> QED
    BY <1>1, <2>1 DEF FreshInv, Waiting
<1>5. ASSUME NEW c \in Conn, "preparations done" \in Range(up'[c]) PROVE c \notin released'
  <2>1. CASE "preparations done" \in Range(up[c])
    <3>1. c \notin released /\ h[c] # "await"
      BY <2>1, OneTurn DEF FreshInv, TurnInv, Holding
    <3> QED
      BY <3>1 DEF Moves, HistoryMove
  <2>2. ASSUME NEW w \in Worker, wConn[w] = c, wpc[w] = "prepare" PROVE c \notin released'
    <3>1. c \notin prepared /\ h[c] # "await"
      BY <2>2 DEF FreshInv, Waiting
    <3> QED
      BY <3>1 DEF EvidenceInv, Moves, HistoryMove
  <2> QED
    BY <1>5, <2>1, <2>2 DEF Moves, UpMove
<1>6. ASSUME NEW c \in Conn, h'[c] \in {"gotPrepared", "await"} PROVE c \notin released'
  <2>1. c \notin released
    BY <1>6 DEF FreshInv, Moves, HandlerMove
  <2> QED
    BY <1>6, <2>1 DEF Moves, HistoryMove
<1>7. ASSUME NEW w \in Worker, wpc'[w] \in {"prepare", "perf"}
      PROVE  (wpc'[w] = "prepare" => wConn'[w] \notin prepared') /\ h'[wConn'[w]] \in Waiting
  <2>1. wConn'[w] = wConn[w] /\ wConn[w] \in Conn
    <3>1. wConn'[w] \in Conn
      BY <1>7, NoneAssumption DEF TypeOK
    <3> QED
      BY <1>7, <3>1 DEF Moves, WorkerMove
  <2>2. CASE wpc'[w] = wpc[w]
    <3>1. Range(up[wConn[w]]) = {}
      BY <1>7, <2>2, PreparesAlone
    <3> QED
      BY <1>1, <1>2, <1>7, <2>1, <2>2, <3>1 DEF FreshInv
  <2>3. ASSUME NEW m \in Range(down[wConn[w]]), m.kind # "shutdown",
               wpc'[w] = "prepare" => m.kind = "init"
        PROVE  (wpc'[w] = "prepare" => wConn'[w] \notin prepared') /\ h'[wConn'[w]] \in Waiting
    <3>1. Range(up[wConn[w]]) = {}
      BY <2>1, <2>3, OneTurn DEF TurnInv
    <3>2. h[wConn[w]] \in Waiting /\ (wpc'[w] = "prepare" => wConn[w] \notin prepared)
      BY <2>1, <2>3 DEF FreshInv
    <3> QED
      BY <1>1, <1>2, <2>1, <2>3, <3>1, <3>2
  <2> QED
    BY <1>7, <2>2, <2>3 DEF Moves, WorkerMove
<1> QED
  BY <1>3, <1>4, <1>5, <1>6, <1>7 DEF FreshInv

\* Only the scheduler and a restart of the server touch teams and the schedule.
LEMMA StepSchedule ==
  Next => Scheduler \/ ServerRestart \/ UNCHANGED <<sched, test, cnt, team, collected>>
<1> USE DEF schedVars, chanVars, netVars, histVars
<1>1. ASSUME NEW c \in Conn, Handler(c) PROVE UNCHANGED <<sched, test, cnt, team, collected>>
  BY <1>1 DEF Handler, Greet, Drop, Decode, CloseConn, SendInit, SignalDone, SendStart, SendResult
<1>2. ASSUME NEW w \in Worker, WorkerStep(w) PROVE UNCHANGED <<sched, test, cnt, team, collected>>
  BY <1>2 DEF WorkerStep, Dial, DialRefused, Wake, RecvInit, RecvStart, RecvShutdown, RecvError,
              Receives, FinishPrepare, FinishWork
<1>3. CASE Environment
  BY <1>3 DEF Environment, WorkerCrash, WorkerRestart, Reset
<1> QED
  BY <1>1, <1>2, <1>3 DEF Next

\* Teams gain parked connections for the test that is scheduled, and a
\* restart of the server empties them.
LEMMA StepTeams ==
  TypeOK /\ Next =>
    \/ ServerRestart /\ \A t \in Test : team'[t] = {}
    \/ \A t \in Test : /\ team[t] \subseteq team'[t]
                       /\ \A c \in team'[t] \ team[t] : h[c] = "parked" /\ h'[c] = "init" /\ t = test
<1> SUFFICES ASSUME TypeOK, Next, ~ServerRestart
             PROVE  \A t \in Test : /\ team[t] \subseteq team'[t]
                                    /\ \A c \in team'[t] \ team[t] :
                                         h[c] = "parked" /\ h'[c] = "init" /\ t = test
  BY RestartFresh
<1>1. CASE \E c \in Conn : TakeWorker(c)
  BY <1>1 DEF TakeWorker, TypeOK
<1>2. CASE team' = team
  BY <1>2
<1>3. Scheduler => team' = team \/ \E c \in Conn : TakeWorker(c)
  BY DEF Scheduler, Listen, AwaitPrepared, LetContinue, AwaitWorkDone, CollectResult, Report,
         ShutdownWorker, schedVars
<1> QED
  BY <1>1, <1>2, <1>3, StepSchedule

\* Nobody is past its load without having finished it.
LEMMA StepFinished == TypeOK /\ BarrierInv /\ FinishedInv /\ Next => FinishedInv'
<1> SUFFICES ASSUME TypeOK, EvidenceInv, FinishedInv, Next, Moves PROVE FinishedInv'
  BY StepMoves DEF BarrierInv
<1>1. finished' \subseteq released'
  <2>1. ASSUME NEW c \in finished' \ finished PROVE c \in released
    <3>1. PICK w \in Worker : wpc[w] = "perf" /\ wConn[w] = c
      BY DEF Moves, HistoryMove
    <3> QED
      BY <3>1 DEF EvidenceInv
  <2> QED
    BY <2>1 DEF Moves, HistoryMove, FinishedInv
<1>2. ASSUME NEW c \in Conn, "work done" \in Range(up'[c]) \/ h'[c] = "gotWork"
      PROVE  c \in finished'
  <2>1. "work done" \in Range(up'[c]) => "work done" \in Range(up[c]) \/ c \in finished'
    BY DEF Moves, UpMove
  <2>2. h'[c] = "gotWork" => h[c] = "gotWork" \/ "work done" \in Range(up[c])
    BY DEF Moves, HandlerMove
  <2> QED
    BY <1>2, <2>1, <2>2 DEF FinishedInv, Moves, HistoryMove
<1>3. ASSUME NEW t \in Test, NEW c \in PastWork(t)' PROVE c \in finished'
  <2>1. c \in team'[t] /\ h'[c] \in {"result", "closing", "closed"}
    BY <1>3 DEF PastWork
  <2>2. ~ServerRestart /\ c \in team[t] /\ c \in Conn
    BY <2>1, StepTeams, RestartFresh DEF TypeOK
  <2>3. h[c] \in {"gotWork", "result", "closing", "closed"}
    BY <2>1, <2>2 DEF Moves, HandlerMove
  <2>4. c \in finished
    BY <2>2, <2>3 DEF FinishedInv, PastWork
  <2> QED
    BY <2>4 DEF Moves, HistoryMove
<1> QED
  BY <1>1, <1>2, <1>3 DEF FinishedInv

(***************************************************************************)
(* The load of a test is let loose once, when all its members wait.        *)
(***************************************************************************)

\* The last round of the first loop finds the whole team waiting, and takes
\* the last token.
LEMMA AllWait ==
  ASSUME TypeOK, BarrierInv, AwaitPrepared, sched' = "start"
  PROVE  /\ test \in Test /\ sched = "prep" /\ UNCHANGED <<test, team, collected, h>>
         /\ cnt' = 0 /\ Awaiting(test) = team[test] /\ doneCh'[test] = 0
<1>1. /\ sched = "prep" /\ test \in Test /\ doneCh[test] > 0
      /\ doneCh' = [doneCh EXCEPT ![test] = @ - 1] /\ UNCHANGED <<test, team, collected, h>>
  BY AtTest DEF AwaitPrepared
<1>2. TeamSize[test] = cnt + 1 /\ cnt' = 0
  BY <1>1, LoopStep DEF AwaitPrepared
<1>3. Cardinality(Awaiting(test)) = doneCh[test] + cnt /\ Cardinality(team[test]) = cnt + 1
  BY <1>1, <1>2 DEF BarrierInv, CountInv
<1>4. doneCh \in [Test -> Nat] /\ doneCh[test] \in Nat /\ cnt \in Nat
  BY <1>1 DEF TypeOK
<1>5. Cardinality(Awaiting(test)) <= Cardinality(team[test])
  BY <1>1, AwaitingFinite DEF BarrierInv
<1>6. doneCh[test] = 1 /\ Cardinality(Awaiting(test)) = Cardinality(team[test])
  BY <1>1, <1>3, <1>4, <1>5
<1>7. Awaiting(test) = team[test]
  BY <1>1, <1>6, AwaitingFinite DEF BarrierInv
<1>8. doneCh'[test] = 0
  BY <1>1, <1>4, <1>6
<1> QED
  BY <1>1, <1>2, <1>7, <1>8

\* No other step lets a load loose.
LEMMA StepStarted ==
  TypeOK /\ BarrierInv /\ Next =>
    \/ ServerRestart
    \/ AwaitPrepared /\ sched' = "start" /\ \A t \in Test : Started(t)' <=> Started(t) \/ t = test
    \/ \A t \in Test : Started(t)' <=> Started(t)
<1> SUFFICES ASSUME TypeOK, BarrierInv, Next, ~ServerRestart
             PROVE  \/ AwaitPrepared /\ sched' = "start"
                       /\ \A t \in Test : Started(t)' <=> Started(t) \/ t = test
                    \/ \A t \in Test : Started(t)' <=> Started(t)
  OBVIOUS
<1> USE DEF schedVars
<1>0. sched # "drain" => test \in Test /\ test \in Nat
  BY AtTest, TestsAssumption DEF Test
<1>1. CASE UNCHANGED <<sched, test>>
  BY <1>1 DEF Started
<1>2. CASE Listen
  BY <1>2 DEF Listen, Goto, Started
<1>3. CASE AwaitPrepared
  <2>1. sched = "prep" /\ test' = test /\ sched' \in {"prep", "start"}
    BY <1>0, <1>3, LoopStep DEF AwaitPrepared
  <2> QED
    BY <1>3, <2>1 DEF Started
<1>4. CASE LetContinue
  <2>1. sched = "start" /\ test' = test /\ sched' \in {"start", "collect"}
    BY <1>0, <1>4, LoopStep DEF LetContinue
  <2> QED
    BY <2>1 DEF Started
<1>5. CASE AwaitWorkDone
  BY <1>5 DEF AwaitWorkDone, Started
<1>6. CASE CollectResult
  <2>1. sched = "result" /\ test' = test /\ sched' \in {"collect", "report"}
    BY <1>0, <1>6, LoopStep DEF CollectResult
  <2> QED
    BY <2>1 DEF Started
<1>7. CASE Report
  <2>1. sched = "report" /\ test \in Nat /\ test' = test + 1 /\ sched' \in {"take", "drain"}
    BY <1>0, <1>7 DEF Report, Goto
  <2>2. \A t \in Test : t < test + 1 <=> t < test \/ t = test
    BY <2>1, TestsAssumption DEF Test
  <2> QED
    BY <2>1, <2>2 DEF Started
<1>8. ASSUME NEW c \in Conn, TakeWorker(c) PROVE \A t \in Test : Started(t)' <=> Started(t)
  <2>1. sched = "take" /\ test' = test /\ sched' \in {"take", "prep"}
    BY <1>0, <1>8, LoopStep DEF TakeWorker
  <2> QED
    BY <2>1 DEF Started
<1>9. ASSUME NEW c \in Conn, ShutdownWorker(c) PROVE UNCHANGED <<sched, test>>
  BY <1>9 DEF ShutdownWorker
<1> QED
  BY <1>1, <1>2, <1>3, <1>4, <1>5, <1>6, <1>7, <1>8, <1>9, StepSchedule DEF Scheduler

\* Members of a test whose load is let loose are past their first phase.
LEMMA StepPhase == TypeOK /\ BarrierInv /\ FreshInv /\ PhaseInv /\ Next => PhaseInv'
<1> SUFFICES ASSUME TypeOK, BarrierInv, FreshInv, PhaseInv, Next, Moves,
                    NEW t \in Test, NEW c \in team'[t], Started(t)'
             PROVE  /\ h'[c] \notin {"init", "gotPrepared"}
                    /\ h'[c] = "decode" => c \in released'
  BY StepMoves DEF PhaseInv
<1>1. CASE ServerRestart
  BY <1>1, RestartFresh
<1>2. CASE AwaitPrepared /\ sched' = "start" /\ t = test
  <2>1. team' = team /\ h' = h /\ Awaiting(test) = team[test]
    BY <1>2, AllWait
  <2> QED
    BY <1>2, <2>1 DEF Awaiting
<1>3. CASE Started(t) /\ ~ServerRestart
  <2>1. c \in team[t]
    <3>1. CASE c \in team'[t] \ team[t]
      <4>1. t = test /\ h[c] = "parked" /\ h'[c] = "init"
        BY <1>3, <3>1, StepTeams
      <4>2. sched \in {"take", "prep"} \/ team' = team
        BY <1>3, StepSchedule DEF Scheduler, Listen, AwaitPrepared, LetContinue, AwaitWorkDone,
           CollectResult, Report, ShutdownWorker, TakeWorker, schedVars
      <4>3. test \in Nat /\ test \in Test
        BY <4>1, TestsAssumption DEF Test
      <4> QED
        BY <1>3, <3>1, <4>1, <4>2, <4>3 DEF Started
    <3> QED
      BY <3>1
  <2>2. c \in Conn /\ h[c] \notin {"init", "gotPrepared", "parked"} /\ (h[c] = "decode" => c \in released)
    BY <1>3, <2>1 DEF PhaseInv, BarrierInv, TeamsInv, Serving, TypeOK
  <2>3. HandlerMove(c) /\ released \subseteq released'
    BY <2>2 DEF Moves, HistoryMove
  <2>4. ~("preparations done" \in Range(up[c]) /\ h[c] = "decode")
    BY <2>2 DEF FreshInv
  <2> QED
    BY <2>2, <2>3, <2>4 DEF HandlerMove
<1> QED
  BY <1>1, <1>2, <1>3, StepStarted

(***************************************************************************)
(* The second phase counts, and so do the results.                         *)
(***************************************************************************)

\* Those past their load, and those that sent a result, are members.
LEMMA PastFinite ==
  ASSUME TeamsInv, NEW t \in Test
  PROVE  /\ IsFiniteSet(team[t]) /\ IsFiniteSet(PastWork(t))
         /\ Cardinality(PastWork(t)) \in Nat /\ Cardinality(team[t]) \in Nat
         /\ Cardinality(PastWork(t)) <= Cardinality(team[t])
         /\ Cardinality(PastWork(t)) = Cardinality(team[t]) => PastWork(t) = team[t]
         /\ \A S \in SUBSET team[t] :
              /\ IsFiniteSet(S) /\ Cardinality(S) \in Nat /\ Cardinality(S) <= Cardinality(team[t])
              /\ Cardinality(S) = Cardinality(team[t]) => S = team[t]
<1>1. IsFiniteSet(team[t])
  BY DEF TeamsInv
<1>2. PastWork(t) \in SUBSET team[t]
  BY DEF PastWork
<1>3. \A S \in SUBSET team[t] :
        /\ IsFiniteSet(S) /\ Cardinality(S) \in Nat /\ Cardinality(S) <= Cardinality(team[t])
        /\ Cardinality(S) = Cardinality(team[t]) => S = team[t]
  BY <1>1, FS_Subset, FS_CardinalityType
<1> QED
  BY <1>1, <1>2, <1>3, FS_CardinalityType

\* Before the server listens no test was scheduled.
LEMMA BootFresh ==
  ASSUME TypeOK, BarrierInv, sched = "boot"
  PROVE  /\ test \in Test /\ \A t \in Test : team[t] = {} /\ ~(t < test)
<1>1. test \in Test /\ \A t \in Test : team[t] = {}
  BY AtTest DEF BarrierInv, TeamsInv
<1>2. \A t \in Test : t < test => Cardinality({}) = TeamSize[t]
  BY <1>1 DEF BarrierInv, CountInv
<1>3. \A t \in Test : ~(t < test)
  BY <1>2, FS_EmptySet, TeamAssumption
<1> QED
  BY <1>1, <1>3

\* The scheduler takes the second phase's tokens one by one.
LEMMA TokenScheduler == TypeOK /\ BarrierInv /\ TokenInv /\ Scheduler => TokenInv'
<1> SUFFICES ASSUME TypeOK, BarrierInv, TeamsInv, CountInv, TokenInv, Scheduler PROVE TokenInv'
  BY DEF BarrierInv
<1> USE DEF schedVars, chanVars
<1>0. sched # "drain" => test \in Test /\ test \in Nat
  BY AtTest, TestsAssumption DEF Test
<1>1. CASE Listen
  <2>1. sched = "boot" /\ sched' = "take" /\ UNCHANGED <<test, team, h>>
    BY <1>1 DEF Listen, Goto
  <2> QED
    BY <2>1, BootFresh DEF TokenInv, Summed, PastWork
<1>2. CASE AwaitPrepared
  <2>1. sched = "prep" /\ test \in Test /\ UNCHANGED <<test, team, h>> /\ sched' \in {"prep", "start"}
    BY <1>0, <1>2, LoopStep DEF AwaitPrepared
  <2>2. \A t \in Test : PastWork(t)' = PastWork(t)
    BY <2>1 DEF PastWork
  <2>3. sched' = "start" => doneCh'[test] = 0
    BY <1>2, AllWait
  <2> QED
    BY <2>1, <2>2, <2>3, FS_EmptySet DEF TokenInv, Summed
<1>3. CASE LetContinue
  <2>1. /\ sched = "start" /\ test \in Test /\ UNCHANGED <<test, team, doneCh, h>>
        /\ sched' = "start" \/ (sched' = "collect" /\ cnt' = 0)
    BY <1>0, <1>3, LoopStep DEF LetContinue
  <2>2. \A t \in Test : PastWork(t)' = PastWork(t)
    BY <2>1 DEF PastWork
  <2>3. doneCh[test] \in Nat
    BY <2>1 DEF TypeOK
  <2> QED
    BY <2>1, <2>2, <2>3 DEF TokenInv, Summed
<1>4. CASE AwaitWorkDone
  <2>1. /\ sched = "collect" /\ sched' = "result" /\ test \in Test /\ UNCHANGED <<test, cnt, team, h>>
        /\ doneCh' = [doneCh EXCEPT ![test] = @ - 1]
    BY <1>0, <1>4 DEF AwaitWorkDone
  <2>2. \A t \in Test : PastWork(t)' = PastWork(t)
    BY <2>1 DEF PastWork
  <2>3. doneCh'[test] = doneCh[test] - 1 /\ doneCh[test] \in Nat /\ cnt \in Nat
    BY <2>1 DEF TypeOK
  <2>4. doneCh'[test] + cnt + 1 = doneCh[test] + cnt
    BY <2>3
  <2> QED
    BY <2>1, <2>2, <2>4 DEF TokenInv, Summed
<1>5. CASE CollectResult
  <2>1. /\ sched = "result" /\ test \in Test /\ UNCHANGED <<test, team, doneCh, h>>
        /\ \/ sched' = "collect" /\ cnt' = cnt + 1
           \/ sched' = "report" /\ TeamSize[test] = cnt + 1
    BY <1>0, <1>5, LoopStep DEF CollectResult
  <2>2. \A t \in Test : PastWork(t)' = PastWork(t)
    BY <2>1 DEF PastWork
  <2>3. doneCh[test] \in Nat /\ cnt \in Nat /\ doneCh[test] + cnt + 1 = Cardinality(PastWork(test))
    BY <2>1 DEF TokenInv, TypeOK
  <2>4. CASE sched' = "collect" /\ cnt' = cnt + 1
    <3>1. doneCh[test] + (cnt + 1) = doneCh[test] + cnt + 1
      BY <2>3
    <3> QED
      BY <2>1, <2>2, <2>3, <2>4, <3>1 DEF TokenInv, Summed
  <2>5. CASE sched' = "report" /\ TeamSize[test] = cnt + 1
    <3>1. Cardinality(team[test]) = cnt + 1
      BY <2>1, <2>5 DEF CountInv
    <3>2. Cardinality(PastWork(test)) = Cardinality(team[test])
      BY <2>1, <2>3, <3>1, PastFinite
    <3>3. PastWork(test) = team[test]
      BY <2>1, <3>2, PastFinite
    <3> QED
      BY <2>1, <2>2, <2>5, <3>3 DEF TokenInv, Summed
  <2> QED
    BY <2>1, <2>4, <2>5
<1>6. CASE Report
  <2>1. /\ sched = "report" /\ test \in Test /\ test \in Nat /\ test' = test + 1
        /\ sched' \in {"take", "drain"} /\ (sched' = "take" => test' \in Test)
        /\ UNCHANGED <<team, h>>
    BY <1>0, <1>6, TestsAssumption DEF Report, Goto, Test
  <2>2. \A t \in Test : PastWork(t)' = PastWork(t)
    BY <2>1 DEF PastWork
  <2>3. \A t \in Test : t < test + 1 <=> t < test \/ t = test
    BY <2>1, TestsAssumption DEF Test
  <2>4. \A t \in Test : Summed(t)' => Summed(t)
    BY <2>1, <2>3 DEF Summed
  <2>5. sched' = "take" => PastWork(test') = {}
    <3>1. test' > test
      BY <2>1
    <3> QED
      BY <2>1, <3>1 DEF TeamsInv, PastWork
  <2>6. sched' = "take" => PastWork(test)' = {}
    BY <2>1, <2>5 DEF PastWork
  <2> QED
    BY <2>1, <2>2, <2>4, <2>6 DEF TokenInv
<1>7. ASSUME NEW c \in Conn, TakeWorker(c) PROVE TokenInv'
  <2>1. /\ sched = "take" /\ h[c] = "parked" /\ test \in Test /\ test \in Nat
        /\ test' = test /\ team' = [team EXCEPT ![test] = @ \cup {c}]
        /\ h' = [h EXCEPT ![c] = "init"] /\ sched' \in {"take", "prep"}
    BY <1>0, <1>7, LoopStep DEF TakeWorker
  <2>2. \A t \in Test : PastWork(t)' = PastWork(t)
    <3>1. \A t \in Test : c \notin team[t]
      BY <2>1 DEF TeamsInv, Serving
    <3> QED
      BY <2>1, <3>1 DEF PastWork, TypeOK
  <2>3. \A t \in Test : Summed(t)' => Summed(t) /\ t # test
    BY <2>1 DEF Summed
  <2>4. \A t \in Test : t # test => team'[t] = team[t]
    BY <2>1 DEF TypeOK
  <2> QED
    BY <2>1, <2>2, <2>3, <2>4 DEF TokenInv
<1>8. ASSUME NEW c \in Conn, ShutdownWorker(c) PROVE TokenInv'
  <2>1. /\ h[c] = "parked" /\ h' = [h EXCEPT ![c] = "drained"] /\ sched = "drain"
        /\ UNCHANGED <<sched, test, team>>
    BY <1>8 DEF ShutdownWorker
  <2>2. \A t \in Test : PastWork(t)' = PastWork(t)
    BY <2>1 DEF PastWork, TypeOK
  <2> QED
    BY <2>1, <2>2 DEF TokenInv, Summed
<1> QED
  BY <1>1, <1>2, <1>3, <1>4, <1>5, <1>6, <1>7, <1>8 DEF Scheduler

\* What keeps TokenInv: the schedule, the tokens of the test, and who is past
\* its load, stay.
LEMMA TokenFrame ==
  ASSUME TokenInv, UNCHANGED <<sched, test, cnt, team>>,
         sched \in {"start", "collect", "result"} => doneCh'[test] = doneCh[test],
         \A t \in Test : PastWork(t)' = PastWork(t), TypeOK
  PROVE  TokenInv'
<1>1. sched # "drain" => test \in Test
  BY AtTest
<1> QED
  BY <1>1 DEF TokenInv, Summed

\* A handler that signals the end of a load is past it from then on.
LEMMA TokenHandler == \A c \in Conn : TypeOK /\ BarrierInv /\ PhaseInv /\ TokenInv /\ Handler(c) => TokenInv'
<1> SUFFICES ASSUME NEW c \in Conn, TypeOK, BarrierInv, PhaseInv, TokenInv, Handler(c) PROVE TokenInv'
  OBVIOUS
<1> USE DEF schedVars, chanVars
<1>0. h \in [Conn -> HandlerAt] /\ doneCh \in [Test -> Nat] /\ team \in [Test -> SUBSET Conn]
  BY DEF TypeOK
<1>1. CASE Greet(c) \/ Drop(c) \/ Decode(c) \/ CloseConn(c)
  <2>1. \A t \in Test : PastWork(t)' = PastWork(t)
    BY <1>0, <1>1 DEF Greet, Drop, Decode, CloseConn, PastWork
  <2> QED
    BY <1>1, <2>1, TokenFrame DEF Greet, Drop, Decode, CloseConn
<1>2. ASSUME NEW t \in Test, SendInit(t, c) \/ SendStart(t, c) \/ SendResult(t, c) PROVE TokenInv'
  <2>1. \A u \in Test : PastWork(u)' = PastWork(u)
    BY <1>0, <1>2 DEF SendInit, SendStart, SendResult, PastWork
  <2> QED
    BY <1>2, <2>1, TokenFrame DEF SendInit, SendStart, SendResult
<1>3. ASSUME NEW t \in Test, c \in team[t], SignalDone(t, c) PROVE TokenInv'
  <2>1. /\ UNCHANGED <<sched, test, cnt, team>>
        /\ doneCh' = [doneCh EXCEPT ![t] = @ + 1]
        /\ h' = [h EXCEPT ![c] = IF @ = "gotPrepared" THEN "await" ELSE "result"]
        /\ h[c] \in {"gotPrepared", "gotWork"}
    BY <1>3 DEF SignalDone
  <2>2. CASE h[c] = "gotPrepared"
    <3>1. \A u \in Test : PastWork(u)' = PastWork(u)
      BY <1>0, <2>1, <2>2 DEF PastWork
    <3>2. ~Started(t)
      BY <1>3, <2>2 DEF PhaseInv
    <3>3. sched \in {"start", "collect", "result"} => t # test
      BY <3>2 DEF Started
    <3>4. t # test /\ test \in Test => doneCh'[test] = doneCh[test]
      BY <1>0, <2>1
    <3> QED
      BY <2>1, <3>1, <3>3, <3>4, AtTest, TokenFrame
  <2>3. CASE h[c] = "gotWork"
    <3>1. c \in released
      BY <2>3 DEF BarrierInv, EvidenceInv
    <3>2. Started(t)
      BY <1>3, <3>1 DEF BarrierInv, ReleaseInv
    <3>3. ~Summed(t)
      BY <1>3, <2>3 DEF TokenInv, PastWork
    <3>4. t = test /\ sched \in {"start", "collect", "result"}
      BY <3>2, <3>3 DEF Started, Summed
    <3>5. PastWork(t)' = PastWork(t) \cup {c} /\ c \notin PastWork(t)
      BY <1>0, <1>3, <2>1, <2>3 DEF PastWork
    <3>6. Cardinality(PastWork(t)') = Cardinality(PastWork(t)) + 1
      BY <3>5, PastFinite, FS_AddElement DEF BarrierInv
    <3>7. \A u \in Test : u # t => PastWork(u)' = PastWork(u)
      BY <1>0, <1>3, <2>1 DEF PastWork, BarrierInv, TeamsInv
    <3>8. doneCh'[t] = doneCh[t] + 1 /\ doneCh[t] \in Nat /\ cnt \in Nat
      BY <1>0, <2>1 DEF TypeOK
    <3>9. \A u \in Test : Summed(u)' => Summed(u) /\ u # t
      BY <2>1, <3>3 DEF Summed
    <3>10. \A u \in Test : Summed(u)' => PastWork(u)' = team'[u]
      BY <2>1, <3>7, <3>9 DEF TokenInv
    <3>11. /\ sched = "start"   => doneCh'[t] = Cardinality(PastWork(t)')
           /\ sched = "collect" => doneCh'[t] + cnt = Cardinality(PastWork(t)')
           /\ sched = "result"  => doneCh'[t] + cnt + 1 = Cardinality(PastWork(t)')
      <4>1. Cardinality(PastWork(t)) \in Nat
        BY PastFinite DEF BarrierInv
      <4>2. CASE sched = "start"
        BY <3>4, <3>6, <3>8, <4>1, <4>2 DEF TokenInv
      <4>3. CASE sched = "collect"
        <5>1. doneCh[t] + cnt = Cardinality(PastWork(t))
          BY <3>4, <4>3 DEF TokenInv
        <5> QED
          BY <3>6, <3>8, <4>1, <4>3, <5>1
      <4>4. CASE sched = "result"
        <5>1. doneCh[t] + cnt + 1 = Cardinality(PastWork(t))
          BY <3>4, <4>4 DEF TokenInv
        <5> QED
          BY <3>6, <3>8, <4>1, <4>4, <5>1
      <4> QED
        BY <4>2, <4>3, <4>4
    <3> QED
      BY <2>1, <3>4, <3>10, <3>11 DEF TokenInv
  <2> QED
    BY <2>1, <2>2, <2>3
<1> QED
  BY <1>1, <1>2, <1>3 DEF Handler

\* Workers and faults leave the second phase alone.
LEMMA TokenRest ==
  TypeOK /\ BarrierInv /\ TokenInv /\ (Environment \/ \E w \in Worker : WorkerStep(w)) => TokenInv'
<1> SUFFICES ASSUME TypeOK, TeamsInv, TokenInv, Environment \/ \E w \in Worker : WorkerStep(w)
             PROVE  TokenInv'
  BY DEF BarrierInv
<1>1. CASE ServerRestart
  <2>1. sched' = "boot" /\ test' = 1 /\ \A t \in Test : ~(t < 1)
    BY <1>1, RestartFresh, TestsAssumption DEF Test
  <2> QED
    BY <2>1 DEF TokenInv, Summed
<1>2. CASE UNCHANGED <<sched, test, cnt, team, doneCh, contCh, h, released, prepared, finished>>
  BY <1>2, TokenFrame DEF PastWork
<1>3. CASE \E w \in Worker : WorkerStep(w)
  <2>1. /\ UNCHANGED <<sched, test, cnt, team, doneCh>>
        /\ \A c \in Conn : h'[c] = h[c] \/ (h[c] = "none" /\ h'[c] = "greet")
    BY <1>3, WorkerQuiet
  <2>2. \A t \in Test : PastWork(t)' = PastWork(t)
    BY <2>1 DEF PastWork, TypeOK
  <2> QED
    BY <2>1, <2>2, TokenFrame
<1> QED
  BY <1>1, <1>2, <1>3, FaultQuiet

\* What keeps ResultInv: results, teams and schedule stay, and so do those
\* that sent one.
LEMMA ResultFrame ==
  ASSUME ResultInv, TypeOK, UNCHANGED <<sched, test, cnt, team, collected, resultCh>>,
         \A t \in Test : Sent(t)' = Sent(t)
  PROVE  ResultInv'
<1>1. sched # "drain" => test \in Test
  BY AtTest
<1> QED
  BY <1>1 DEF ResultInv, Summed

\* The scheduler takes one result in each round, of a member it has none of.
LEMMA ResultScheduler == TypeOK /\ BarrierInv /\ ResultInv /\ Scheduler => ResultInv'
<1> SUFFICES ASSUME TypeOK, BarrierInv, TeamsInv, CountInv, ResultInv, Scheduler PROVE ResultInv'
  BY DEF BarrierInv
<1> USE DEF schedVars, chanVars
<1>0. /\ sched # "drain" => test \in Test /\ test \in Nat
      /\ team \in [Test -> SUBSET Conn] /\ collected \in [Test -> SUBSET Conn]
      /\ resultCh \in [Test -> SUBSET Conn] /\ cnt \in Nat
  BY AtTest, TestsAssumption DEF Test, TypeOK
<1>1. CASE Listen
  <2>1. sched = "boot" /\ sched' = "take" /\ UNCHANGED <<test, team, h, collected, resultCh>>
    BY <1>1 DEF Listen, Goto
  <2>2. \A t \in Test : Sent(t)' = Sent(t) /\ Sent(t) = {} /\ ~(t < test)
    BY <2>1, BootFresh DEF Sent
  <2> QED
    BY <1>0, <2>1, <2>2 DEF ResultInv, Summed
<1>2. CASE AwaitPrepared \/ AwaitWorkDone
  <2>1. /\ test \in Test /\ UNCHANGED <<test, team, h, collected, resultCh>>
        /\ \/ sched = "prep" /\ sched' \in {"prep", "start"}
           \/ sched = "collect" /\ sched' = "result" /\ cnt' = cnt
    BY <1>0, <1>2, LoopStep DEF AwaitPrepared, AwaitWorkDone
  <2>2. \A t \in Test : Sent(t)' = Sent(t)
    BY <2>1 DEF Sent
  <2> QED
    BY <2>1, <2>2 DEF ResultInv, Summed
<1>3. CASE LetContinue
  <2>1. /\ sched = "start" /\ test \in Test /\ UNCHANGED <<test, team, h, collected, resultCh>>
        /\ sched' = "start" \/ (sched' = "collect" /\ cnt' = 0)
    BY <1>0, <1>3, LoopStep DEF LetContinue
  <2>2. \A t \in Test : Sent(t)' = Sent(t)
    BY <2>1 DEF Sent
  <2>3. collected[test] = {}
    BY <2>1 DEF ResultInv
  <2> QED
    BY <2>1, <2>2, <2>3, FS_EmptySet DEF ResultInv, Summed
<1>4. CASE CollectResult
  <2>1. /\ sched = "result" /\ test \in Test /\ UNCHANGED <<test, team, h>>
        /\ \/ sched' = "collect" /\ cnt' = cnt + 1
           \/ sched' = "report" /\ TeamSize[test] = cnt + 1
    BY <1>0, <1>4, LoopStep DEF CollectResult
  <2>2. PICK r \in resultCh[test] :
          /\ resultCh'  = [resultCh EXCEPT ![test] = @ \ {r}]
          /\ collected' = [collected EXCEPT ![test] = @ \cup {r}]
    BY <1>4 DEF CollectResult
  <2>3. /\ resultCh'[test] = resultCh[test] \ {r} /\ collected'[test] = collected[test] \cup {r}
        /\ \A t \in Test : t # test => resultCh'[t] = resultCh[t] /\ collected'[t] = collected[t]
    BY <1>0, <2>1, <2>2
  <2>4. /\ r \notin collected[test]
        /\ resultCh[test] \cup collected[test] = Sent(test) /\ Sent(test) \subseteq team[test]
    BY <2>1, <2>2 DEF ResultInv, Sent
  <2>5. \A t \in Test : Sent(t)' = Sent(t)
    BY <2>1 DEF Sent
  <2>6. \A t \in Test : /\ resultCh'[t] \cap collected'[t] = {}
                        /\ resultCh'[t] \cup collected'[t] = Sent(t)'
    <3> TAKE t \in Test
    <3>1. CASE t = test
      BY <2>2, <2>3, <2>4, <2>5, <3>1 DEF ResultInv
    <3>2. CASE t # test
      BY <2>3, <2>5, <3>2 DEF ResultInv
    <3> QED
      BY <3>1, <3>2
  <2>7. Cardinality(collected'[test]) = cnt + 1 /\ collected'[test] \in SUBSET team[test]
    <3>1. collected[test] \in SUBSET team[test] /\ r \in team[test]
      BY <2>2, <2>4
    <3>2. IsFiniteSet(collected[test])
      BY <2>1, <3>1, PastFinite
    <3>3. Cardinality(collected[test] \cup {r}) = Cardinality(collected[test]) + 1
      BY <2>4, <3>2, FS_AddElement
    <3>4. Cardinality(collected[test]) = cnt
      BY <2>1 DEF ResultInv
    <3> QED
      BY <2>3, <3>1, <3>3, <3>4
  <2>8. \A t \in Test : Summed(t)' => (Summed(t) /\ t # test) \/ (t = test /\ sched' = "report")
    BY <1>0, <2>1 DEF Summed
  <2>9. sched' = "report" => collected'[test] = team[test]
    <3>1. sched' = "report" => Cardinality(team[test]) = cnt + 1
      BY <2>1 DEF CountInv
    <3> QED
      BY <2>1, <2>7, <3>1, PastFinite
  <2>10. \A t \in Test : Summed(t)' => collected'[t] = team'[t]
    BY <2>1, <2>3, <2>8, <2>9 DEF ResultInv
  <2> QED
    BY <2>1, <2>6, <2>7, <2>10 DEF ResultInv
<1>5. CASE Report
  <2>1. /\ sched = "report" /\ test \in Test /\ test \in Nat /\ test' = test + 1
        /\ sched' \in {"take", "drain"} /\ (sched' = "take" => test' \in Test)
        /\ UNCHANGED <<team, h, collected, resultCh>>
    BY <1>0, <1>5, TestsAssumption DEF Report, Goto, Test
  <2>2. \A t \in Test : Sent(t)' = Sent(t)
    BY <2>1 DEF Sent
  <2>3. \A t \in Test : t < test + 1 <=> t < test \/ t = test
    BY <2>1, TestsAssumption DEF Test
  <2>4. \A t \in Test : Summed(t)' => Summed(t)
    BY <2>1, <2>3 DEF Summed
  <2>5. sched' = "take" => collected[test'] = {}
    <3>1. test' > test
      BY <2>1
    <3>2. sched' = "take" => team[test'] = {}
      BY <2>1, <3>1 DEF TeamsInv
    <3> QED
      BY <2>1, <3>2 DEF ResultInv, Sent
  <2> QED
    BY <2>1, <2>2, <2>4, <2>5 DEF ResultInv
<1>6. ASSUME NEW c \in Conn, TakeWorker(c) PROVE ResultInv'
  <2>1. /\ sched = "take" /\ h[c] = "parked" /\ test \in Test /\ test \in Nat
        /\ test' = test /\ team' = [team EXCEPT ![test] = @ \cup {c}]
        /\ h' = [h EXCEPT ![c] = "init"] /\ sched' \in {"take", "prep"}
        /\ UNCHANGED <<collected, resultCh>>
    BY <1>0, <1>6, LoopStep DEF TakeWorker
  <2>2. \A t \in Test : Sent(t)' = Sent(t)
    <3>1. \A t \in Test : c \notin team[t]
      BY <2>1 DEF TeamsInv, Serving
    <3> QED
      BY <2>1, <3>1 DEF Sent, TypeOK
  <2>3. \A t \in Test : Summed(t)' => Summed(t) /\ t # test
    BY <2>1 DEF Summed
  <2>4. \A t \in Test : t # test => team'[t] = team[t]
    BY <1>0, <2>1
  <2> QED
    BY <2>1, <2>2, <2>3, <2>4 DEF ResultInv
<1>7. ASSUME NEW c \in Conn, ShutdownWorker(c) PROVE ResultInv'
  <2>1. \A t \in Test : Sent(t)' = Sent(t)
    BY <1>7 DEF ShutdownWorker, Sent, TypeOK
  <2> QED
    BY <1>7, <2>1, ResultFrame DEF ShutdownWorker
<1> QED
  BY <1>1, <1>2, <1>3, <1>4, <1>5, <1>6, <1>7 DEF Scheduler

\* A handler sends one result, its own.
LEMMA ResultHandler == \A c \in Conn : TypeOK /\ BarrierInv /\ ResultInv /\ Handler(c) => ResultInv'
<1> SUFFICES ASSUME NEW c \in Conn, TypeOK, TeamsInv, ResultInv, Handler(c) PROVE ResultInv'
  BY DEF BarrierInv
<1> USE DEF schedVars, chanVars
<1>0. h \in [Conn -> HandlerAt] /\ team \in [Test -> SUBSET Conn] /\ resultCh \in [Test -> SUBSET Conn]
  BY DEF TypeOK
<1>1. CASE Greet(c) \/ Drop(c) \/ Decode(c) \/ CloseConn(c)
  <2>1. \A t \in Test : Sent(t)' = Sent(t)
    BY <1>0, <1>1 DEF Greet, Drop, Decode, CloseConn, Sent
  <2> QED
    BY <1>1, <2>1, ResultFrame DEF Greet, Drop, Decode, CloseConn
<1>2. ASSUME NEW t \in Test, SendInit(t, c) \/ SendStart(t, c) \/ SignalDone(t, c) PROVE ResultInv'
  <2>1. \A u \in Test : Sent(u)' = Sent(u)
    BY <1>0, <1>2 DEF SendInit, SendStart, SignalDone, Sent
  <2> QED
    BY <1>2, <2>1, ResultFrame DEF SendInit, SendStart, SignalDone
<1>3. ASSUME NEW t \in Test, c \in team[t], SendResult(t, c) PROVE ResultInv'
  <2>1. /\ h[c] = "result" /\ h' = [h EXCEPT ![c] = "closing"]
        /\ resultCh' = [resultCh EXCEPT ![t] = @ \cup {c}]
        /\ UNCHANGED <<sched, test, cnt, team, collected>>
    BY <1>3 DEF SendResult
  <2>2. Sent(t)' = Sent(t) \cup {c} /\ c \notin Sent(t)
    BY <1>0, <1>3, <2>1 DEF Sent
  <2>3. \A u \in Test : u # t => Sent(u)' = Sent(u) /\ resultCh'[u] = resultCh[u]
    BY <1>0, <1>3, <2>1 DEF Sent, TeamsInv
  <2>4. resultCh'[t] = resultCh[t] \cup {c}
    BY <1>0, <2>1
  <2>5. \A u \in Test : /\ resultCh'[u] \cap collected'[u] = {}
                        /\ resultCh'[u] \cup collected'[u] = Sent(u)'
    <3> TAKE u \in Test
    <3>1. CASE u = t
      BY <2>1, <2>2, <2>4, <3>1 DEF ResultInv
    <3>2. CASE u # t
      BY <2>1, <2>3, <3>2 DEF ResultInv
    <3> QED
      BY <3>1, <3>2
  <2>6. sched # "drain" => test \in Test
    BY AtTest
  <2> QED
    BY <2>1, <2>5, <2>6 DEF ResultInv, Summed
<1> QED
  BY <1>1, <1>2, <1>3 DEF Handler

\* Workers and faults send no result; a restart of the server forgets all.
LEMMA ResultRest ==
  TypeOK /\ BarrierInv /\ ResultInv /\ (Environment \/ \E w \in Worker : WorkerStep(w)) => ResultInv'
<1> SUFFICES ASSUME TypeOK, TeamsInv, ResultInv, Environment \/ \E w \in Worker : WorkerStep(w)
             PROVE  ResultInv'
  BY DEF BarrierInv
<1> USE DEF schedVars, chanVars, netVars, histVars
<1>1. CASE ServerRestart
  <2>1. /\ sched' = "boot" /\ test' = 1
        /\ \A t \in Test : team'[t] = {} /\ collected'[t] = {} /\ resultCh'[t] = {} /\ ~(t < 1)
    BY <1>1, TestsAssumption DEF ServerRestart, Test
  <2> QED
    BY <2>1 DEF ResultInv, Summed, Sent
<1>2. ASSUME Environment, ~ServerRestart PROVE UNCHANGED <<sched, test, cnt, team, collected, resultCh, h>>
  BY <1>2 DEF Environment, WorkerCrash, WorkerRestart, Reset
<1>3. CASE UNCHANGED <<sched, test, cnt, team, collected, resultCh, h>>
  BY <1>3, ResultFrame DEF Sent
<1>4. ASSUME NEW w \in Worker, WorkerStep(w) PROVE ResultInv'
  <2>1. UNCHANGED <<sched, test, cnt, team, collected, resultCh>>
    BY <1>4 DEF WorkerStep, Dial, DialRefused, Wake, RecvInit, RecvStart, RecvShutdown, RecvError,
                Receives, FinishPrepare, FinishWork
  <2>2. \A c \in Conn : h'[c] = h[c] \/ (h[c] = "none" /\ h'[c] = "greet")
    BY <1>4, WorkerQuiet
  <2>3. \A t \in Test : Sent(t)' = Sent(t)
    BY <2>1, <2>2 DEF Sent, TypeOK
  <2> QED
    BY <2>1, <2>3, ResultFrame
<1> QED
  BY <1>1, <1>2, <1>3, <1>4

(***************************************************************************)
(* The invariant is inductive.                                             *)
(***************************************************************************)

\* At the start every connection is unused.
LEMMA InitRows == Init => RowsInv
<1> SUFFICES ASSUME Init PROVE RowsInv
  OBVIOUS
<1>1. TurnInv
  <2>1. Len(<<>>) + Len(<<>>) <= 1
    OBVIOUS
  <2> QED
    BY <2>1 DEF Init, TurnInv, Turn, Busy
<1>2. FreshInv
  BY RangeEmpty DEF Init, FreshInv
<1>3. PhaseInv
  BY DEF Init, PhaseInv
<1>4. \A t \in Test : ~Summed(t)
  BY TestsAssumption DEF Init, Summed, Test
<1>5. TokenInv
  BY <1>4 DEF Init, TokenInv
<1>6. ResultInv
  BY <1>4 DEF Init, ResultInv, Sent
<1>7. FinishedInv
  BY RangeEmpty DEF Init, FinishedInv, PastWork
<1> QED
  BY <1>1, <1>2, <1>3, <1>5, <1>6, <1>7 DEF RowsInv

\* The invariant is inductive on top of that of the barrier.
LEMMA StepRows == TypeOK /\ BarrierInv /\ RowsInv /\ [Next]_vars => RowsInv'
<1> SUFFICES ASSUME TypeOK, BarrierInv, RowsInv, [Next]_vars PROVE RowsInv'
  OBVIOUS
<1>1. CASE UNCHANGED vars
  <2> USE <1>1 DEF vars, schedVars, chanVars, netVars, workerVars, histVars
  <2>1. TurnInv' /\ FreshInv'
    BY DEF RowsInv, TurnInv, Turn, Busy, FreshInv
  <2>2. PhaseInv' /\ TokenInv'
    BY DEF RowsInv, PhaseInv, Started, TokenInv, Summed, PastWork
  <2>3. ResultInv' /\ FinishedInv'
    BY DEF RowsInv, ResultInv, Summed, Sent, FinishedInv, PastWork
  <2> QED
    BY <2>1, <2>2, <2>3 DEF RowsInv
<1>2. CASE Next
  <2>1. TurnInv' /\ FreshInv'
    BY <1>2, StepTurn, StepFresh DEF RowsInv
  <2>2. PhaseInv'
    BY <1>2, StepPhase DEF RowsInv
  <2>3. TokenInv'
    BY <1>2, TokenScheduler, TokenHandler, TokenRest DEF Next, RowsInv
  <2>4. ResultInv'
    BY <1>2, ResultScheduler, ResultHandler, ResultRest DEF Next, RowsInv
  <2>5. FinishedInv'
    BY <1>2, StepFinished DEF RowsInv
  <2> QED
    BY <2>1, <2>2, <2>3, <2>4, <2>5 DEF RowsInv
<1> QED
  BY <1>1, <1>2

\* The inductive invariant always holds.
THEOREM ServerInvariant == Spec => [](TypeOK /\ ServerInv)
<1>1. Init => TypeOK /\ ServerInv
  BY InitTypeOK, InitBarrier, InitRows DEF ServerInv
<1>2. TypeOK /\ ServerInv /\ [Next]_vars => (TypeOK /\ ServerInv)'
  BY StepTypeOK, StepBarrier, StepRows DEF ServerInv
<1> QED
  BY <1>1, <1>2, PTL DEF Spec

(***************************************************************************)
(* What the invariant is for: the properties of the rounds.                *)
(***************************************************************************)

\* A proper part of a finite team is smaller, and a part is not larger.
LEMMA PartOfTeam ==
  ASSUME TeamsInv, NEW t \in Test, NEW S, S \subseteq team[t]
  PROVE  /\ Cardinality(S) \in Nat /\ Cardinality(team[t]) \in Nat
         /\ S # team[t] => Cardinality(S) < Cardinality(team[t])
<1>1. IsFiniteSet(team[t])
  BY DEF TeamsInv
<1>2. IsFiniteSet(S)
  BY <1>1, FS_Subset
<1>3. Cardinality(S) <= Cardinality(team[t]) /\ (Cardinality(S) = Cardinality(team[t]) => S = team[t])
  BY <1>1, FS_Subset
<1> QED
  BY <1>1, <1>2, <1>3, FS_CardinalityType

\* A team has at most test.Workers members, and belongs to no later test.
LEMMA TeamAtMost ==
  ASSUME TypeOK, BarrierInv, NEW t \in Test, team[t] # {}
  PROVE  /\ t < test \/ (t = test /\ sched \notin {"boot", "drain"})
         /\ Cardinality(team[t]) \in Nat /\ Cardinality(team[t]) <= TeamSize[t] /\ TeamSize[t] \in Nat
         /\ sched # "take" \/ t # test => Cardinality(team[t]) = TeamSize[t]
<1>1. t \in Nat /\ test \in Nat /\ TeamSize[t] \in Nat /\ (sched = "drain" => t # test)
  BY TestsAssumption, TeamAssumption DEF Test, TypeOK
<1>2. t < test \/ (t = test /\ sched \notin {"boot", "drain"})
  BY <1>1 DEF BarrierInv, TeamsInv
<1>3. Cardinality(team[t]) \in Nat
  BY PartOfTeam DEF BarrierInv
<1>4. CASE t < test
  BY <1>1, <1>2, <1>3, <1>4 DEF BarrierInv, CountInv
<1>5. CASE t = test /\ sched = "take"
  BY <1>1, <1>2, <1>3, <1>5 DEF BarrierInv, CountInv, TypeOK
<1>6. CASE t = test /\ sched \notin {"boot", "drain", "take"}
  BY <1>1, <1>2, <1>3, <1>6 DEF BarrierInv, CountInv
<1> QED
  BY <1>2, <1>4, <1>5, <1>6

\* A handler that is still in its first phase serves the test whose team is
\* being taken or prepared.
LEMMA FirstPhase ==
  ASSUME TypeOK, BarrierInv, NEW t \in Test, NEW c \in team[t], ~Started(t)
  PROVE  t = test /\ sched \in {"take", "prep"}
<1>1. t < test \/ (t = test /\ sched \notin {"boot", "drain"})
  BY TeamAtMost
<1> QED
  BY <1>1 DEF Started, TypeOK

\* A member that carries load or signals its end is not yet counted.
LEMMA SecondPhase ==
  ASSUME TypeOK, BarrierInv, RowsInv, NEW t \in Test, NEW c \in team[t], c \in released, c \notin PastWork(t)
  PROVE  t = test /\ sched \in {"start", "collect", "result"}
<1>1. Started(t)
  BY DEF BarrierInv, ReleaseInv
<1>2. ~Summed(t)
  BY DEF RowsInv, TokenInv
<1> QED
  BY <1>1, <1>2 DEF Started, Summed

\* The turns are those of the streams.
LEMMA RowsLockstep == RowsInv => Lockstep
  BY DEF RowsInv, TurnInv, Turn, Lockstep

\* A worker that prepares or performs is bound to the test of its team, and
\* the phase of the scheduler is that of the worker.
LEMMA RowsNoOverlap == TypeOK /\ BarrierInv /\ RowsInv => NoOverlap
<1> SUFFICES ASSUME TypeOK, BarrierInv, RowsInv,
                    NEW w \in Worker, wpc[w] \in {"prepare", "perf"}, ~Orphaned(w)
             PROVE  /\ wTest[w] = test
                    /\ sched \in IF wpc[w] = "prepare" THEN {"take", "prep"} ELSE {"start", "collect", "result"}
  BY DEF NoOverlap
<1> DEFINE c == wConn[w]
           t == wTest[w]
<1>1. c \in Conn /\ h[c] # "orphaned" /\ Serves(w)
  BY HasConn, NoneAssumption DEF Serves, Orphaned
<1>2. wpc[w] = "perf" => c \in released /\ c \in prepared
  BY DEF BarrierInv, EvidenceInv
<1>3. t \in Test /\ c \in team[t]
  BY <1>1, <1>2 DEF BarrierInv, BindInv
<1>4. CASE wpc[w] = "prepare"
  <2>1. ~Started(t)
    BY <1>3, <1>4 DEF RowsInv, FreshInv, BarrierInv, ReleaseInv
  <2> QED
    BY <1>3, <1>4, <2>1, FirstPhase
<1>5. CASE wpc[w] = "perf"
  <2>1. h[c] \in Waiting
    BY DEF RowsInv, FreshInv
  <2>2. c \notin PastWork(t)
    BY <2>1 DEF PastWork, Waiting
  <2> QED
    BY <1>2, <1>3, <1>5, <2>2, SecondPhase
<1> QED
  BY <1>4, <1>5

\* Every member of a past test signalled, sent a result and was collected.
LEMMA RowsAreComplete == BarrierInv /\ RowsInv => RowsComplete
<1> SUFFICES ASSUME BarrierInv, RowsInv, NEW t \in Test, t < test
             PROVE  /\ Cardinality(team[t]) = TeamSize[t]
                    /\ collected[t] = team[t]
                    /\ team[t] \subseteq finished
  BY DEF RowsComplete
<1>1. Summed(t)
  BY DEF Summed
<1>2. PastWork(t) = team[t] /\ collected[t] = team[t]
  BY <1>1 DEF RowsInv, TokenInv, ResultInv
<1> QED
  BY <1>2 DEF BarrierInv, CountInv, RowsInv, FinishedInv

\* A handler that is about to send is a member whose token or result is not
\* in the channel, which has room for all of them.
LEMMA RowsSend == TypeOK /\ BarrierInv /\ RowsInv => SendNeverBlocks
<1> SUFFICES ASSUME TypeOK, BarrierInv, RowsInv, NEW t \in Test, NEW c \in team[t]
             PROVE  /\ h[c] \in {"gotPrepared", "gotWork"} => doneCh[t] < Capacity(t)
                    /\ h[c] = "result" => Cardinality(resultCh[t]) < Capacity(t)
  BY DEF SendNeverBlocks
<1>1. c \in Conn /\ doneCh[t] \in Nat /\ cnt \in Nat /\ TeamsInv
  BY DEF TypeOK, BarrierInv
<1>2. /\ Cardinality(team[t]) \in Nat /\ TeamSize[t] \in Nat /\ Cardinality(team[t]) <= TeamSize[t]
      /\ sched \notin {"take"} \/ t # test => Cardinality(team[t]) = TeamSize[t]
  BY TeamAtMost
<1>3. CASE h[c] = "gotPrepared"
  <2>1. ~Started(t)
    BY <1>3 DEF RowsInv, PhaseInv
  <2>2. t = test /\ sched \in {"take", "prep"}
    BY <2>1, FirstPhase
  <2>3. Awaiting(t) \subseteq team[t] /\ Awaiting(t) # team[t]
    BY <1>3 DEF Awaiting
  <2>4. Cardinality(Awaiting(t)) \in Nat /\ Cardinality(Awaiting(t)) < Cardinality(team[t])
    BY <1>1, <2>3, PartOfTeam
  <2>5. doneCh[t] <= Cardinality(Awaiting(t))
    BY <1>1, <2>2, <2>4 DEF BarrierInv, CountInv
  <2> QED
    BY <1>1, <1>2, <1>3, <2>4, <2>5 DEF Capacity
<1>4. CASE h[c] = "gotWork"
  <2>1. c \in released
    BY <1>1, <1>4 DEF BarrierInv, EvidenceInv
  <2>2. PastWork(t) \subseteq team[t] /\ PastWork(t) # team[t] /\ c \notin PastWork(t)
    BY <1>4 DEF PastWork
  <2>3. t = test /\ sched \in {"start", "collect", "result"}
    BY <2>1, <2>2, SecondPhase
  <2>4. Cardinality(PastWork(t)) \in Nat /\ Cardinality(PastWork(t)) < Cardinality(team[t])
    BY <1>1, <2>2, PartOfTeam
  <2>5. doneCh[t] <= Cardinality(PastWork(t))
    BY <1>1, <2>3, <2>4 DEF RowsInv, TokenInv
  <2> QED
    BY <1>1, <1>2, <1>4, <2>4, <2>5 DEF Capacity
<1>5. CASE h[c] = "result"
  <2>1. resultCh[t] \subseteq Sent(t)
    BY DEF RowsInv, ResultInv
  <2>2. resultCh[t] \subseteq team[t] /\ resultCh[t] # team[t]
    BY <1>5, <2>1 DEF Sent
  <2>3. Cardinality(resultCh[t]) \in Nat /\ Cardinality(resultCh[t]) < Cardinality(team[t])
    BY <1>1, <2>2, PartOfTeam
  <2> QED
    BY <1>2, <1>5, <2>3 DEF Capacity
<1> QED
  BY <1>3, <1>4, <1>5

\* A past team has no member that was dropped, and a later one no member.
LEMMA RowsStall == TypeOK /\ BarrierInv /\ RowsInv => LostMemberStalls
<1> SUFFICES ASSUME TypeOK, BarrierInv, RowsInv, NEW t \in Test, NEW c \in team[t], h[c] = "dropped"
             PROVE  test = t
  BY DEF LostMemberStalls
<1>1. t < test \/ t = test
  BY TeamAtMost
<1>2. c \notin PastWork(t)
  BY DEF PastWork
<1>3. ~(t < test)
  BY <1>2 DEF RowsInv, TokenInv, Summed
<1> QED
  BY <1>1, <1>3

\* Preparation and load of different tests of one server, or of one test, never
\* coincide: between the taking of a team and its row, the two loops of
\* scheduleTests let one phase of one test run.  A worker that was preparing or
\* performing for a server that died is excepted; OrphansFinishPhase bounds it.
THEOREM TestsDoNotOverlap == Spec => []NoOverlap
  BY ServerInvariant, RowsNoOverlap, PTL DEF ServerInv

\* A turn is there or not.
LEMMA ZeroOrOne == ASSUME NEW n \in Nat, n <= 1 PROVE n \in {0, 1}
  OBVIOUS

\* An orphan is at, or is about to begin, at most one phase, and begins no
\* other: the message in its socket and its work share one turn.
LEMMA StepOrphans ==
  ASSUME TypeOK, TypeOK', TurnInv, TurnInv', Next, NEW c \in Conn, h[c] = "orphaned"
  PROVE  Phases(c) <= 1 /\ Phases(c)' <= Phases(c)
<1>0. Moves
  BY StepMoves
<1>1. Turn(c) /\ Turn(c)' /\ Len(<<>>) = 0
  BY DEF TurnInv
<1>2. Len(down[c]) \in {0, 1}
  <2>1. Len(down[c]) \in Nat /\ Len(down[c]) <= 1
    BY <1>1, StreamLengths, OneOfTwo DEF Turn
  <2> QED
    BY <2>1, ZeroOrOne
<1>3. Len(down'[c]) \in {0, 1}
  <2>1. up'[c] \in Seq(UpMsg) /\ down'[c] \in Seq(DownMsg)
    BY DEF TypeOK
  <2>2. Len(up'[c]) \in Nat /\ Len(down'[c]) \in Nat
    BY <2>1
  <2>3. Len(down'[c]) <= 1
    BY <1>1, <2>2, OneOfTwo DEF Turn
  <2> QED
    BY <2>2, <2>3, ZeroOrOne
<1>4. /\ Busy(c) => Phases(c) = 1
      /\ ~Busy(c) => Phases(c) = Len(down[c])
  <2>1. Busy(c) => Len(down[c]) = 0
    BY <1>1 DEF Turn
  <2>2. CASE Busy(c)
    BY <2>1, <2>2 DEF Phases
  <2>3. CASE ~Busy(c)
    <3>1. Phases(c) = Len(down[c]) + 0
      BY <2>3 DEF Phases
    <3>2. Len(down[c]) + 0 = Len(down[c])
      BY <1>2
    <3> QED
      BY <2>3, <3>1, <3>2
  <2> QED
    BY <2>2, <2>3
<1>5. /\ Busy(c)' => Phases(c)' = 1
      /\ ~Busy(c)' => Phases(c)' = Len(down'[c])
  <2>1. Busy(c)' => Len(down'[c]) = 0
    BY <1>1 DEF Turn
  <2>2. CASE Busy(c)'
    BY <2>1, <2>2 DEF Phases
  <2>3. CASE ~Busy(c)'
    <3>1. Phases(c)' = Len(down'[c]) + 0
      BY <2>3 DEF Phases
    <3>2. Len(down'[c]) + 0 = Len(down'[c])
      BY <1>3
    <3> QED
      BY <2>3, <3>1, <3>2
  <2> QED
    BY <2>2, <2>3
<1>6. Phases(c) \in {0, 1} /\ Phases(c)' \in {0, 1}
  BY <1>2, <1>3, <1>4, <1>5
<1>7. ASSUME Phases(c) = 0 PROVE Phases(c)' = 0
  <2>1. down[c] = <<>> /\ ~Busy(c)
    <3>1. ~Busy(c) /\ Len(down[c]) = 0
      BY <1>4, <1>7
    <3> QED
      BY <3>1, StreamLengths
  <2>2. Range(down[c]) = {}
    BY <2>1, RangeEmpty
  <2>3. \A m \in Range(down'[c]) : FALSE
    BY <1>0, <2>2 DEF Moves, DownMove
  <2>4. ~Busy(c)'
    BY <1>0, <2>1, <2>2 DEF Moves, WorkerMove, Busy
  <2>5. Len(down'[c]) = 0
    <3>1. down'[c] \in Seq(DownMsg)
      BY DEF TypeOK
    <3>2. Len(down'[c]) # 0 => down'[c][1] \in Range(down'[c])
      BY <3>1 DEF Range
    <3> QED
      BY <2>3, <3>2
  <2> QED
    BY <1>5, <2>4, <2>5
<1> QED
  <2>1. CASE Phases(c) = 0
    BY <1>7, <2>1
  <2>2. CASE Phases(c) = 1
    BY <1>6, <2>2
  <2> QED
    BY <1>6, <2>1, <2>2

\* A worker of a server that died does at most the phase it was in, or was told
\* of: each message of executeTestOnWorker is sent after the answer to the one
\* before it, and nobody sends on a dead server's connection any more.
THEOREM OrphansFinishPhase == Spec => OrphansPhase
<1>1. TypeOK /\ ServerInv /\ TypeOK' /\ ServerInv' /\ [Next]_vars
        => [\A c \in Conn : h[c] = "orphaned" => Phases(c) <= 1 /\ Phases(c)' <= Phases(c)]_vars
  BY StepOrphans DEF ServerInv, RowsInv
<1> QED
  BY <1>1, ServerInvariant, PTL DEF Spec, OrphansPhase

\* A row that scheduleTests wrote sums one result of every member of a full
\* team, each of which had finished its load.
THEOREM RowsAreWhole == Spec => []RowsComplete
  BY ServerInvariant, RowsAreComplete, PTL DEF ServerInv

\* Channels of test.Workers places suffice for both phases: no goroutine of
\* executeTestOnWorker waits to send, for teams of any size.
THEOREM SendsDoNotWait == Spec => []SendNeverBlocks
  BY ServerInvariant, RowsSend, PTL DEF ServerInv

\* Server and worker take turns on a connection, so no decoder has a message
\* behind the one it reads.
THEOREM TakesTurns == Spec => []Lockstep
  BY ServerInvariant, RowsLockstep, PTL DEF ServerInv

\* A member that is lost before its result holds its test up for ever: the
\* test of a dropped member is never behind the scheduler.
THEOREM LossHoldsUp == Spec => []LostMemberStalls
  BY ServerInvariant, RowsStall, PTL DEF ServerInv

(***************************************************************************)
(* The end of the benchmark.                                               *)
(***************************************************************************)

\* Only the scheduler, when it drains, sends "shutdown".
LEMMA ShutdownMove ==
  ASSUME TypeOK, Next, NEW c \in Conn, NEW m \in Range(down'[c]), m \notin Range(down[c]), m.kind = "shutdown"
  PROVE  sched = "drain"
<1> USE DEF chanVars, netVars, workerVars, histVars
<1>1. CASE Scheduler
  <2>1. Scheduler /\ sched # "drain" => UNCHANGED down
    BY DEF Scheduler, Listen, AwaitPrepared, LetContinue, AwaitWorkDone, CollectResult, Report,
           TakeWorker, ShutdownWorker
  <2> QED
    BY <1>1, <2>1
<1>2. ASSUME NEW d \in Conn, Handler(d) PROVE FALSE
  <2>1. CASE Greet(d) \/ Drop(d) \/ Decode(d) \/ CloseConn(d)
    BY <2>1 DEF Greet, Drop, Decode, CloseConn
  <2>2. ASSUME NEW t \in Test, SignalDone(t, d) \/ SendResult(t, d) PROVE FALSE
    BY <2>2 DEF SignalDone, SendResult
  <2>3. ASSUME NEW t \in Test, SendInit(t, d) PROVE FALSE
    <3>1. SendDown(d, InitMsg(t)) /\ InitMsg(t) \in DownMsg /\ InitMsg(t).kind = "init"
      BY <2>3 DEF SendInit, InitMsg, DownMsg
    <3>2. m = InitMsg(t)
      BY <3>1, SendDownRange
    <3> QED
      BY <3>1, <3>2
  <2>4. ASSUME NEW t \in Test, SendStart(t, d) PROVE FALSE
    <3>1. SendDown(d, M("start work")) /\ M("start work") \in DownMsg /\ M("start work").kind = "start work"
      BY <2>4 DEF SendStart, M, DownMsg
    <3>2. m = M("start work")
      BY <3>1, SendDownRange
    <3> QED
      BY <3>1, <3>2
  <2> QED
    BY <1>2, <2>1, <2>2, <2>3, <2>4 DEF Handler
<1>3. ASSUME NEW w \in Worker, WorkerStep(w) PROVE FALSE
  <2>1. CASE \E kind : Receives(w, kind)
    BY <2>1, ReceivesStream
  <2>2. CASE \A kind : ~Receives(w, kind)
    BY <1>3, <2>2 DEF WorkerStep, Dial, DialRefused, Wake, RecvInit, RecvStart, RecvShutdown, RecvError,
                      FinishPrepare, FinishWork
  <2> QED
    BY <2>1, <2>2
<1>4. CASE Environment
  <2>1. down \in [Conn -> Seq(DownMsg)]
    BY DEF TypeOK
  <2>2. down'[c] = down[c] \/ down'[c] = <<>>
    BY <1>4, <2>1 DEF Environment, WorkerCrash, WorkerRestart, Reset, ServerRestart
  <2> QED
    BY <2>2, RangeEmpty
<1> QED
  BY <1>1, <1>2, <1>3, <1>4 DEF Next

\* A worker ends when it is told to, or when it is to start without work.
LEMMA StopMove ==
  ASSUME TypeOK, Next, EmptyQueue = {}, NEW w \in Worker, wpc'[w] = Stopped, wpc[w] # Stopped
  PROVE  wConn[w] \in Conn /\ \E m \in Range(down[wConn[w]]) : m.kind = "shutdown"
<1> USE DEF chanVars, netVars, workerVars, schedVars, histVars
<1>0. wpc \in [Worker -> WorkerAt] /\ Stopped \in {"asleep", "exited"}
  BY DEF TypeOK, Stopped
<1>1. ASSUME NEW v \in Worker, WorkerStep(v), ~RecvShutdown(v) PROVE FALSE
  BY <1>0, <1>1 DEF WorkerStep, Dial, DialRefused, Wake, RecvInit, RecvStart, RecvError, Leave,
                    FinishPrepare, FinishWork, Answer
<1>2. ASSUME NEW v \in Worker, RecvShutdown(v)
      PROVE  wConn[w] \in Conn /\ \E m \in Range(down[wConn[w]]) : m.kind = "shutdown"
  <2>1. v = w
    BY <1>0, <1>2 DEF RecvShutdown, Leave
  <2>2. Receives(w, "shutdown")
    BY <1>2, <2>1 DEF RecvShutdown
  <2>3. /\ wConn[w] \in Conn /\ Head(down[wConn[w]]) \in Range(down[wConn[w]])
        /\ Head(down[wConn[w]]).kind = "shutdown"
    BY <2>2, ReceivesStream
  <2> QED
    BY <2>3
<1>3. ASSUME ~\E v \in Worker : WorkerStep(v) PROVE FALSE
  <2>1. Scheduler => UNCHANGED wpc
    BY DEF Scheduler, Listen, AwaitPrepared, LetContinue, AwaitWorkDone, CollectResult, Report,
           TakeWorker, ShutdownWorker
  <2>2. (\E c \in Conn : Handler(c)) => UNCHANGED wpc
    BY DEF Handler, Greet, Drop, Decode, CloseConn, SendInit, SignalDone, SendStart, SendResult
  <2>3. Environment => \A v \in Worker : wpc'[v] \in {wpc[v], "crashed", "dial"}
    BY <1>0 DEF Environment, WorkerCrash, WorkerRestart, Reset, ServerRestart, Leave
  <2> QED
    BY <1>0, <1>3, <2>1, <2>2, <2>3 DEF Next
<1> QED
  BY <1>1, <1>2, <1>3

\* The server is done until it dies.
LEMMA StepExit ==
  ASSUME TypeOK, ServerInv, ExitInv, [Next]_vars
  PROVE  ExitInv'
<1>1. CASE UNCHANGED vars
  BY <1>1 DEF vars, schedVars, netVars, workerVars, ExitInv
<1>2. CASE Next /\ ~ServerRestart
  <2>1. Scheduler /\ sched = "drain" => sched' = "drain"
    BY DEF Scheduler, Listen, AwaitPrepared, LetContinue, AwaitWorkDone, CollectResult, Report,
           TakeWorker, ShutdownWorker, schedVars
  <2>2. sched = "drain" => sched' = "drain"
    BY <1>2, <2>1, StepSchedule
  <2>3. ASSUME NEW c \in Conn, h'[c] # "orphaned", NEW m \in Range(down'[c]), m.kind = "shutdown"
        PROVE  sched = "drain"
    <3>1. h[c] # "orphaned"
      BY <1>2, <2>3, StepMoves DEF Moves, HandlerMove, ServerInv
    <3> QED
      BY <1>2, <2>3, <3>1, ShutdownMove DEF ExitInv
  <2> QED
    BY <2>2, <2>3 DEF ExitInv
<1>3. CASE ServerRestart
  <2>1. ASSUME NEW c \in Conn, h'[c] # "orphaned" PROVE Range(down'[c]) = {}
    <3>1. h[c] = "none" /\ down' = down
      BY <1>3, <2>1 DEF ServerRestart, netVars
    <3>2. down[c] = <<>>
      BY <3>1 DEF ServerInv, RowsInv, TurnInv, Turn, Holding
    <3> QED
      BY <3>1, <3>2, RangeEmpty
  <2> QED
    BY <2>1 DEF ExitInv
<1> QED
  BY <1>1, <1>2, <1>3

\* If every test yields work, a worker process ends only after the last row, or
\* because a server that died since had told it to: run in worker/main.go returns on
\* "shutdown", which scheduleTests sends after its loop over the tests.
THEOREM ExitsLast ==
  ASSUME EmptyQueue = {}
  PROVE  Spec => ExitOnlyAfterLastReport
<1>1. Init => ExitInv
  BY RangeEmpty DEF Init, ExitInv
<1>2. TypeOK /\ ServerInv /\ ExitInv /\ [Next]_vars => ExitInv'
  BY StepExit
<1>3. TypeOK /\ ExitInv /\ [Next]_vars
        => [\A w \in Worker : wpc'[w] = Stopped /\ wpc[w] # Stopped =>
              test = NumTests + 1 \/ Orphaned(w)]_vars
  <2> SUFFICES ASSUME TypeOK, ExitInv, Next,
                      NEW w \in Worker, wpc'[w] = Stopped, wpc[w] # Stopped, ~Orphaned(w)
               PROVE  test = NumTests + 1
    OBVIOUS
  <2>1. wConn[w] \in Conn /\ \E m \in Range(down[wConn[w]]) : m.kind = "shutdown"
    BY StopMove
  <2>2. h[wConn[w]] # "orphaned"
    BY <2>1, NoneAssumption DEF Orphaned
  <2>3. sched = "drain"
    BY <2>1, <2>2 DEF ExitInv
  <2> QED
    BY <2>3 DEF TypeOK
<1> QED
  BY <1>1, <1>2, <1>3, ServerInvariant, PTL DEF Spec, ExitOnlyAfterLastReport

(***************************************************************************)
(* Scheduler, handlers and workers implement the rounds: every step of     *)
(* Coordinator is, under the refinement mapping R, a step of Rounds or     *)
(* leaves its variables alone.                                             *)
(***************************************************************************)

\* Only the end of a preparation and the end of a load write history.
LEMMA StepHistory ==
  TypeOK /\ Next =>
    \/ UNCHANGED <<prepared, finished>>
    \/ \E w \in Worker : /\ wpc[w] = "prepare" /\ UNCHANGED finished
                         /\ prepared' = prepared \cup {wConn[w]}
    \/ \E w \in Worker : /\ wpc[w] = "perf" /\ UNCHANGED prepared
                         /\ finished' = finished \cup {wConn[w]}
<1> USE DEF histVars
<1>1. Scheduler => UNCHANGED <<prepared, finished>>
  BY DEF Scheduler, Listen, AwaitPrepared, LetContinue, AwaitWorkDone, CollectResult, Report,
         TakeWorker, ShutdownWorker
<1>2. ASSUME NEW c \in Conn, Handler(c) PROVE UNCHANGED <<prepared, finished>>
  BY <1>2 DEF Handler, Greet, Drop, Decode, CloseConn, SendInit, SignalDone, SendStart, SendResult
<1>3. ASSUME NEW w \in Worker, WorkerStep(w), ~FinishPrepare(w), ~FinishWork(w)
      PROVE  UNCHANGED <<prepared, finished>>
  BY <1>3 DEF WorkerStep, Dial, DialRefused, Wake, RecvInit, RecvStart, RecvShutdown, RecvError, Receives
<1>4. Environment => UNCHANGED <<prepared, finished>>
  BY DEF Environment, WorkerCrash, WorkerRestart, Reset, ServerRestart, Fault
<1>5. ASSUME NEW w \in Worker, FinishPrepare(w)
      PROVE  wpc[w] = "prepare" /\ UNCHANGED finished /\ prepared' = prepared \cup {wConn[w]}
  BY <1>5 DEF FinishPrepare
<1>6. ASSUME NEW w \in Worker, FinishWork(w)
      PROVE  wpc[w] = "perf" /\ UNCHANGED prepared /\ finished' = finished \cup {wConn[w]}
  BY <1>6 DEF FinishWork
<1> QED
  BY <1>1, <1>2, <1>3, <1>4, <1>5, <1>6 DEF Next

\* The rounds count as the server does.
LEMMA SameCardinality == ASSUME NEW S PROVE R!Cardinality(S) = Cardinality(S)
  BY DEF R!Cardinality, Cardinality

Used    == UNION {team[t] : t \in Test}
Running == sched \in {"start", "collect", "result", "report"}

\* What the abstract variables are read from; a step that leaves them alone
\* is a stutter of the rounds.
LEMMA Stutter ==
  ASSUME UNCHANGED <<test, team, prepared, finished>>, Running' = Running
  PROVE  UNCHANGED R!vars
<1>1. CurrentTeam' = CurrentTeam /\ Used' = Used
  BY DEF CurrentTeam, Used
<1> QED
  BY <1>1 DEF R!vars, Running, Used

\* Nobody has a team at the start.
LEMMA InitRounds == Init => R!Init
<1> SUFFICES ASSUME Init PROVE R!Init
  OBVIOUS
<1>1. CurrentTeam = {} /\ (UNION {team[t] : t \in Test}) = {}
  BY DEF Init, CurrentTeam
<1>2. test = 1 /\ sched = "boot"
  BY DEF Init
<1> QED
  BY <1>1, <1>2 DEF R!Init

\* A step that leaves the scheduler's variables alone prepares or finishes at
\* most one member, before its test is let loose or afterwards.
LEMMA MembersRefine ==
  ASSUME TypeOK, BarrierInv, RowsInv, Next, UNCHANGED <<sched, test, team>>
  PROVE  [R!Next]_(R!vars)
<1>1. CurrentTeam' = CurrentTeam /\ Used' = Used /\ Running' = Running
  BY DEF CurrentTeam, Used, Running
<1>2. CASE UNCHANGED <<prepared, finished>>
  BY <1>1, <1>2, Stutter
<1>3. ASSUME NEW w \in Worker, wpc[w] = "prepare", UNCHANGED finished,
             prepared' = prepared \cup {wConn[w]}
      PROVE  [R!Next]_(R!vars)
  <2> DEFINE c == wConn[w]
  <2>1. c \in Conn /\ c \notin prepared
    BY <1>3 DEF TypeOK, RowsInv, FreshInv
  <2>2. CASE c \in CurrentTeam
    <3>1. test \in Test /\ c \in team[test]
      BY <2>2 DEF CurrentTeam
    <3>2. ~Running
      BY <2>1, <3>1 DEF BarrierInv, ReleaseInv, Started, Running
    <3>3. (prepared \cap CurrentTeam)' = (prepared \cap CurrentTeam) \cup {c}
      BY <1>1, <1>3, <2>2
    <3>4. R!Prepare(c)
      BY <1>1, <1>3, <2>2, <3>2, <3>3 DEF R!Prepare, Used, Running
    <3> QED
      BY <2>1, <3>4 DEF R!Next
  <2>3. CASE c \notin CurrentTeam
    <3>1. (prepared \cap CurrentTeam)' = prepared \cap CurrentTeam
      BY <1>1, <1>3, <2>3
    <3> QED
      BY <1>1, <1>3, <3>1 DEF R!vars, Used, Running
  <2> QED
    BY <2>2, <2>3
<1>4. ASSUME NEW w \in Worker, wpc[w] = "perf", UNCHANGED prepared,
             finished' = finished \cup {wConn[w]}
      PROVE  [R!Next]_(R!vars)
  <2> DEFINE c == wConn[w]
  <2>1. c \in Conn /\ c \in released
    BY <1>4 DEF TypeOK, BarrierInv, EvidenceInv
  <2>2. CASE c \in CurrentTeam
    <3>1. test \in Test /\ c \in team[test] /\ ~(test < test)
      BY <2>2, TestsAssumption DEF CurrentTeam, Test
    <3>2. Running
      BY <2>1, <3>1 DEF BarrierInv, ReleaseInv, Started, Running
    <3>3. (finished \cap CurrentTeam)' = (finished \cap CurrentTeam) \cup {c}
      BY <1>1, <1>4, <2>2
    <3>4. R!Finish(c)
      BY <1>1, <1>4, <2>2, <3>2, <3>3 DEF R!Finish, Used, Running
    <3> QED
      BY <2>1, <3>4 DEF R!Next
  <2>3. CASE c \notin CurrentTeam
    <3>1. (finished \cap CurrentTeam)' = finished \cap CurrentTeam
      BY <1>1, <1>4, <2>3
    <3> QED
      BY <1>1, <1>4, <3>1 DEF R!vars, Used, Running
  <2> QED
    BY <2>2, <2>3
<1> QED
  BY <1>2, <1>3, <1>4, StepHistory

\* The scheduler takes a member, starts the load, or goes on to the next test.
LEMMA TakeRefines ==
  ASSUME TypeOK, BarrierInv, RowsInv, NEW c \in Conn, TakeWorker(c)
  PROVE  R!Join(c)
<1> USE DEF chanVars, netVars, workerVars, histVars
<1>1. /\ sched = "take" /\ test \in Test /\ h[c] = "parked"
      /\ UNCHANGED <<test, prepared, finished>> /\ team' = [team EXCEPT ![test] = @ \cup {c}]
  BY AtTest DEF TakeWorker
<1>2. sched' \in {"take", "prep"}
  BY <1>1, LoopStep DEF TakeWorker
<1>3. test <= NumTests /\ Cardinality(team[test]) < TeamSize[test]
  BY <1>1, TestsAssumption DEF TypeOK, BarrierInv, CountInv, Test
<1>4. \A t \in Test : c \notin team[t]
  BY <1>1 DEF BarrierInv, TeamsInv, Serving
<1>5. c \notin prepared /\ c \notin finished
  BY <1>1 DEF RowsInv, FreshInv, FinishedInv, BarrierInv, EvidenceInv
<1>6. \A t \in Test : team'[t] = IF t = test THEN team[t] \cup {c} ELSE team[t]
  BY <1>1 DEF TypeOK
<1>7. CurrentTeam = team[test] /\ CurrentTeam' = CurrentTeam \cup {c}
  BY <1>1, <1>6 DEF CurrentTeam
<1>8. Used' = Used \cup {c} /\ c \notin Used
  BY <1>1, <1>4, <1>6 DEF Used
<1>9. /\ (prepared \cap CurrentTeam)' = prepared \cap CurrentTeam
      /\ (finished \cap CurrentTeam)' = finished \cap CurrentTeam
  BY <1>1, <1>5, <1>7
<1>10. Running' = Running
  BY <1>1, <1>2 DEF Running
<1>11. Cardinality(CurrentTeam) < TeamSize[test]
  BY <1>3, <1>7
<1> QED
  BY <1>1, <1>3, <1>7, <1>8, <1>9, <1>10, <1>11, SameCardinality DEF R!Join, Used, Running

\* The last token of the first phase finds the team complete and prepared.
LEMMA StartRefines ==
  ASSUME TypeOK, BarrierInv, AwaitPrepared, sched' = "start"
  PROVE  R!Start
<1>1. /\ test \in Test /\ sched = "prep" /\ UNCHANGED <<test, team>> /\ Awaiting(test) = team[test]
  BY AllWait
<1>2. UNCHANGED <<prepared, finished>>
  BY DEF AwaitPrepared, histVars
<1>3. CurrentTeam' = CurrentTeam /\ Used' = Used /\ CurrentTeam = team[test]
  BY <1>1 DEF CurrentTeam, Used
<1>4. Cardinality(team[test]) = TeamSize[test] /\ test <= NumTests
  BY <1>1, TestsAssumption DEF BarrierInv, CountInv, Test
<1>5. team[test] \subseteq prepared
  <2>1. \A c \in team[test] : c \in Conn /\ h[c] = "await"
    BY <1>1 DEF Awaiting, TypeOK
  <2> QED
    BY <2>1 DEF BarrierInv, EvidenceInv
<1>6. prepared \cap CurrentTeam = CurrentTeam
  BY <1>3, <1>5
<1>7. ~Running /\ Running'
  BY <1>1 DEF Running
<1>8. /\ Cardinality(CurrentTeam) = TeamSize[test]
      /\ UNCHANGED <<test, CurrentTeam, Used, prepared \cap CurrentTeam, finished \cap CurrentTeam>>
  BY <1>1, <1>2, <1>3, <1>4
<1> QED
  BY <1>4, <1>6, <1>7, <1>8, SameCardinality DEF R!Start, Used, Running

\* A test is reported when every member has finished, and the next test has
\* no team yet.
LEMMA ReportRefines ==
  ASSUME TypeOK, BarrierInv, RowsInv, Report
  PROVE  R!Advance
<1> USE DEF chanVars, netVars, workerVars, histVars
<1>1. /\ sched = "report" /\ test \in Test /\ test' = test + 1 /\ sched' \in {"take", "drain"}
      /\ UNCHANGED <<team, prepared, finished>>
  BY AtTest DEF Report, Goto
<1>2. CurrentTeam = team[test] /\ Used' = Used
  BY <1>1 DEF CurrentTeam, Used
<1>3. team[test] \subseteq finished
  BY <1>1 DEF RowsInv, TokenInv, FinishedInv, Summed
<1>4. CurrentTeam' = {}
  <2>1. test' > test
    BY <1>1, TestsAssumption DEF Test
  <2>2. test' \in Test => team[test'] = {}
    BY <2>1 DEF BarrierInv, TeamsInv
  <2> QED
    BY <1>1, <2>2 DEF CurrentTeam
<1>5. finished \cap CurrentTeam = CurrentTeam
  BY <1>2, <1>3
<1>6. (prepared \cap CurrentTeam)' = {} /\ (finished \cap CurrentTeam)' = {}
  BY <1>4
<1>7. Running /\ ~Running'
  BY <1>1 DEF Running
<1> QED
  BY <1>1, <1>2, <1>4, <1>5, <1>6, <1>7 DEF R!Advance, Used, Running

\* Every step of the scheduler is a step of the rounds or a stutter.
LEMMA SchedulerRefines ==
  ASSUME TypeOK, BarrierInv, RowsInv, Scheduler
  PROVE  [R!Next]_(R!vars)
<1> USE DEF chanVars, netVars, workerVars, histVars
<1>1. CASE Listen \/ LetContinue \/ AwaitWorkDone \/ CollectResult \/ \E c \in Conn : ShutdownWorker(c)
  <2>1. UNCHANGED <<test, team, prepared, finished>>
    BY <1>1 DEF Listen, LetContinue, AwaitWorkDone, CollectResult, ShutdownWorker, schedVars
  <2>2. Running' = Running
    <3>1. sched # "drain" => test \in Test
      BY AtTest
    <3>2. CASE LetContinue
      BY <3>1, <3>2, LoopStep DEF LetContinue, Running
    <3>3. CASE CollectResult
      BY <3>1, <3>3, LoopStep DEF CollectResult, Running
    <3>4. CASE Listen \/ AwaitWorkDone
      BY <3>4 DEF Listen, Goto, AwaitWorkDone, Running
    <3>5. CASE \E c \in Conn : ShutdownWorker(c)
      BY <3>5 DEF ShutdownWorker, Running, schedVars
    <3> QED
      BY <1>1, <3>2, <3>3, <3>4, <3>5
  <2> QED
    BY <2>1, <2>2, Stutter
<1>2. CASE AwaitPrepared
  <2>1. /\ sched = "prep" /\ test \in Test /\ sched' \in {"prep", "start"}
        /\ UNCHANGED <<test, team, prepared, finished>>
    BY <1>2, AtTest, LoopStep DEF AwaitPrepared
  <2>2. CASE sched' = "start"
    BY <1>2, <2>2, StartRefines DEF R!Next
  <2>3. CASE sched' = "prep"
    <3>1. Running' = Running
      BY <2>1, <2>3 DEF Running
    <3> QED
      BY <2>1, <3>1, Stutter
  <2> QED
    BY <2>1, <2>2, <2>3
<1>3. CASE Report
  BY <1>3, ReportRefines DEF R!Next
<1>4. ASSUME NEW c \in Conn, TakeWorker(c) PROVE R!Next
  BY <1>4, TakeRefines DEF R!Next
<1> QED
  BY <1>1, <1>2, <1>3, <1>4 DEF Scheduler

\* A server that starts over begins the rounds again.
LEMMA RestartRefines ==
  ASSUME ServerRestart
  PROVE  R!Restart
<1>1. sched' = "boot" /\ test' = 1 /\ \A t \in Test : team'[t] = {}
  BY RestartFresh
<1>2. CurrentTeam' = {} /\ Used' = {}
  BY <1>1 DEF CurrentTeam, Used
<1>3. ~Running'
  BY <1>1 DEF Running
<1> QED
  BY <1>1, <1>2, <1>3 DEF R!Restart, Used, Running

\* Every step of the server and its workers is one of the rounds or a stutter.
LEMMA StepRounds == TypeOK /\ BarrierInv /\ RowsInv /\ [Next]_vars => [R!Next]_(R!vars)
<1> SUFFICES ASSUME TypeOK, BarrierInv, RowsInv, [Next]_vars PROVE [R!Next]_(R!vars)
  OBVIOUS
<1>1. CASE UNCHANGED vars
  <2>1. UNCHANGED <<test, team, prepared, finished, sched>>
    BY <1>1 DEF vars, schedVars, histVars
  <2> QED
    BY <2>1, Stutter DEF Running
<1>2. CASE Next
  <2>1. CASE Scheduler
    BY <2>1, SchedulerRefines
  <2>2. CASE ServerRestart
    BY <2>2, RestartRefines DEF R!Next
  <2>3. CASE UNCHANGED <<sched, test, cnt, team, collected>>
    BY <1>2, <2>3, MembersRefine
  <2> QED
    BY <1>2, <2>1, <2>2, <2>3, StepSchedule
<1> QED
  BY <1>1, <1>2

\* Goroutines, channels, messages and faults together implement the rounds a
\* reader of the results sees: teams of test.Workers fresh connections, load
\* only after all have prepared, the next test only after all have finished.
THEOREM ImplementsRounds == Spec => RoundsSpec
<1>1. Init => R!Init
  BY InitRounds
<1>2. TypeOK /\ BarrierInv /\ RowsInv /\ [Next]_vars => [R!Next]_(R!vars)
  BY StepRounds
<1> QED
  BY <1>1, <1>2, ServerInvariant, PTL DEF ServerInv, Spec, RoundsSpec, R!Spec
=============================================================================
