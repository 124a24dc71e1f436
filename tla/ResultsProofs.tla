--------------------------- MODULE ResultsProofs ---------------------------
(***************************************************************************)
(* Proofs about the way of the numbers, for any numbers of processes,      *)
(* tests, calls and crashes: every CSV file has its header, its lines in   *)
(* their order and no others, every report has every test exactly once,    *)
(* and a row counts the operations of its test and averages their times.   *)
(***************************************************************************)
EXTENDS Results, WorkersProofs

(***************************************************************************)
(* The numbers of an operation.                                            *)
(***************************************************************************)

LEMMA NothingType == Nothing \in Numbers /\ Nothing.fin + Nothing.fail = 0
  BY DEF Nothing, NoSamples, Numbers, Samples

LEMMA ObserveType ==
  ASSUME NEW h \in Samples, NEW d \in Nat
  PROVE  Observe(h, d) \in Samples
  BY DEF Observe, Samples

\* An operation counts once, as finished or as failed.
LEMMA CountedType ==
  ASSUME NEW c \in Numbers, NEW ok \in BOOLEAN
  PROVE  /\ Counted(c, ok) \in Numbers
         /\ Counted(c, ok).fin + Counted(c, ok).fail = c.fin + c.fail + 1
         /\ Counted(c, ok).bytes = c.bytes
  BY DEF Counted, Finished, Failed, Numbers

LEMMA PutType ==
  ASSUME NEW c \in Numbers, NEW ok \in BOOLEAN, NEW d \in Nat
  PROVE  LET put == PutObject(c, ok, d) IN
           put \in Numbers /\ put.fin = c.fin /\ put.fail = c.fail /\ put.bytes = c.bytes
<1>1. Observe(c.gen, d) \in Samples /\ Observe(c.lat, d) \in Samples
  BY ObserveType DEF Numbers
<1> QED
  BY <1>1 DEF PutObject, Numbers

\* ... and the bytes of reads and writes, whatever becomes of them.
LEMMA DoType ==
  ASSUME NEW c \in Numbers, NEW op, NEW readOption \in BOOLEAN, NEW outcome, NEW d \in Nat
  PROVE  LET e == Do(c, op, readOption, outcome, d) IN
           /\ e \in Numbers /\ e.fin + e.fail = c.fin + c.fail + 1
           /\ e.bytes = c.bytes + IF op \in {"read", "write"} THEN 1 ELSE 0
<1> DEFINE ok == outcome = "ok"
           Once(e) == e \in Numbers /\ e.fin + e.fail = c.fin + c.fail + 1 /\ e.bytes = c.bytes
<1>1. ASSUME NEW e, Once(e)
      PROVE  /\ Once([e EXCEPT !.lat = Observe(@, d)])
             /\ LET f == [e EXCEPT !.bytes = @ + 1] IN
                  f \in Numbers /\ f.fin + f.fail = c.fin + c.fail + 1 /\ f.bytes = c.bytes + 1
             /\ LET f == [e EXCEPT !.lat = Observe(@, d), !.bytes = @ + 1] IN
                  f \in Numbers /\ f.fin + f.fail = c.fin + c.fail + 1 /\ f.bytes = c.bytes + 1
  <2>1. Observe(e.lat, d) \in Samples
    BY <1>1, ObserveType DEF Numbers
  <2>2. e.bytes + 1 \in Nat
    BY <1>1 DEF Numbers
  <2> QED
    BY <1>1, <2>1, <2>2 DEF Numbers
<1>2. CASE op = "read"
  <2> DEFINE copied == IF ReadCopies(outcome, readOption) THEN [c EXCEPT !.io = Observe(@, d)] ELSE c
             counted == Counted(copied, ReadOk(outcome, readOption))
  <2>1. copied \in Numbers /\ copied.fin = c.fin /\ copied.fail = c.fail /\ copied.bytes = c.bytes
    <3>1. Observe(c.io, d) \in Samples
      BY ObserveType DEF Numbers
    <3> QED
      BY <3>1 DEF Numbers
  <2>2. ReadOk(outcome, readOption) \in BOOLEAN
    BY DEF ReadOk
  <2>3. Once(counted)
    <3> HIDE DEF copied
    <3> QED
      BY <2>1, <2>2, CountedType
  <2>4. Do(c, op, readOption, outcome, d) = [counted EXCEPT !.lat = Observe(@, d), !.bytes = @ + 1]
    BY <1>2 DEF Do
  <2> HIDE DEF counted
  <2> QED
    BY <1>1, <1>2, <2>3, <2>4
<1>3. CASE op = "write"
  <2> DEFINE put == PutObject(c, ok, d)
             counted == Counted(put, ok)
  <2>1. put \in Numbers /\ put.fin = c.fin /\ put.fail = c.fail /\ put.bytes = c.bytes
    BY PutType
  <2>2. Once(counted)
    <3> HIDE DEF put
    <3> QED
      BY <2>1, CountedType
  <2>3. Do(c, op, readOption, outcome, d) = [counted EXCEPT !.bytes = @ + 1]
    BY <1>3 DEF Do
  <2> HIDE DEF counted
  <2> QED
    BY <1>1, <1>3, <2>2, <2>3
<1>4. CASE op # "read" /\ op # "write"
  <2> DEFINE counted == Counted(c, ok)
  <2>1. Once(counted)
    BY CountedType
  <2>2. Do(c, op, readOption, outcome, d) = [counted EXCEPT !.lat = Observe(@, d)]
    BY <1>4 DEF Do
  <2>3. c.bytes + 0 = c.bytes
    BY DEF Numbers
  <2> HIDE DEF counted
  <2> QED
    BY <1>1, <1>4, <2>1, <2>2, <2>3
<1> QED
  BY <1>2, <1>3, <1>4

\* Whatever the operation, a histogram has at most one sample more.
LEMMA PutSamples ==
  ASSUME NEW c \in Numbers, NEW ok \in BOOLEAN, NEW d \in Nat, NEW h \in Histogram
  PROVE  LET e == PutObject(c, ok, d) IN e[h] = c[h] \/ e[h] = Observe(c[h], d)
<1>1. Observe(c.lat, d) \in Samples /\ Observe(c.gen, d) \in Samples
  BY ObserveType DEF Numbers
<1> QED
  BY <1>1 DEF PutObject, Numbers, Histogram

LEMMA DoSamples ==
  ASSUME NEW c \in Numbers, NEW op, NEW readOption \in BOOLEAN, NEW outcome, NEW d \in Nat, NEW h \in Histogram
  PROVE  LET e == Do(c, op, readOption, outcome, d) IN e[h] = c[h] \/ e[h] = Observe(c[h], d)
<1>1. \A e \in Numbers : Observe(e.lat, d) \in Samples /\ Observe(e.io, d) \in Samples /\ Observe(e.gen, d) \in Samples
  BY ObserveType DEF Numbers
<1> QED
  BY <1>1 DEF Do, Counted, Finished, Failed, PutObject, Numbers, Histogram

(***************************************************************************)
(* Types.                                                                  *)
(***************************************************************************)

RInv == TypeOK /\ TeamInv /\ ResultsInv

\* The test of a process, and its name.
LEMMA TaskType ==
  ASSUME TypeOK, NEW p \in Proc
  PROVE  /\ NameOf(p) \in Names
         /\ tests[task[p]].readOption \in BOOLEAN
<1>1. task[p] \in 1..NumTests
  BY DEF TypeOK, WorkersOK
<1>2. tests \in Benchmarks
  BY DEF TypeOK
<1>3. tests[task[p]].readOption \in BOOLEAN
  BY <1>1, <1>2, ResultsAssumption
<1> QED
  BY <1>1, <1>2, <1>3 DEF NameOf, Names

LEMMA NextWorkers == [Next]_vars => WorkersStep
<1>1. ASSUME NEW p \in Proc, Take(p) \/ Put(p) \/ Operate(p) \/ Answer(p) \/ Talk(p) PROVE WorkersStep
  BY <1>1 DEF Take, Put, Operate, Answer, Talk, Count, WorkersStep
<1>2. Open \/ Report => UNCHANGED workers
  BY DEF Open, Report
<1>3. Flush \/ FlushFails \/ NoFile => Advance
  BY DEF Flush, FlushFails, NoFile, NextTest
<1>4. Crash => Restart
  BY DEF Crash
<1> QED
  BY <1>1, <1>2, <1>3, <1>4 DEF Next, vars, WorkersStep

\* What an operation does to the counters of all processes.
LEMMA CountOK ==
  ASSUME RInv, NEW p \in Proc, NEW c \in Numbers, Count(p, c),
         LET old == counters[p][NameOf(p)] IN c.fin + c.fail <= old.fin + old.fail + 1
  PROVE  /\ counters' \in [Proc -> [Names -> Numbers]] /\ calls' \in 0..MaxCalls
         /\ \A q \in Proc, n \in Names : counters'[q][n].fin + counters'[q][n].fail <= calls'
<1> DEFINE name == NameOf(p)
<1>1. /\ counters \in [Proc -> [Names -> Numbers]] /\ calls \in 0..MaxCalls /\ MaxCalls \in Nat
      /\ \A q \in Proc, n \in Names : counters[q][n].fin + counters[q][n].fail <= calls
      /\ name \in Names
  BY TaskType, ResultsAssumption DEF RInv, ResultsInv, TypeOK
<1>2. calls < MaxCalls /\ calls' = calls + 1 /\ counters' = [counters EXCEPT ![p][name] = c]
  BY DEF Count
<1>3. counters' \in [Proc -> [Names -> Numbers]] /\ calls' \in 0..MaxCalls
  BY <1>1, <1>2
<1>4. ASSUME NEW q \in Proc, NEW n \in Names PROVE counters'[q][n].fin + counters'[q][n].fail <= calls'
  <2> HIDE DEF name
  <2>1. counters[q][n].fin + counters[q][n].fail <= calls /\ counters[q][n].fin \in Nat /\ counters[q][n].fail \in Nat
    BY <1>1 DEF Numbers
  <2>2. CASE q = p /\ n = name
    <3>1. counters'[q][n] = c
      BY <1>1, <1>2, <2>2
    <3>2. c.fin + c.fail <= counters[q][n].fin + counters[q][n].fail + 1 /\ c.fin \in Nat /\ c.fail \in Nat
      BY <2>2 DEF name, Numbers
    <3> QED
      BY <1>1, <1>2, <2>1, <3>1, <3>2
  <2>3. CASE ~(q = p /\ n = name)
    <3>1. counters'[q][n] = counters[q][n]
      BY <1>1, <1>2, <2>3
    <3> QED
      BY <1>1, <1>2, <2>1, <3>1
  <2> QED
    BY <2>2, <2>3
<1> QED
  BY <1>3, <1>4

\* Preparation changes histograms only, and its process takes note of the time.
LEMMA PutStep ==
  ASSUME RInv, NEW p \in Proc, Put(p)
  PROVE  \E c \in Numbers, d \in Nat : LET old == counters[p][NameOf(p)] IN
           /\ Count(p, c) /\ c.fin = old.fin /\ c.fail = old.fail /\ c.bytes = old.bytes
           /\ \A h \in Histogram : c[h] = old[h] \/ c[h] = Observe(old[h], d)
           /\ did' = [did EXCEPT ![p].times = @ \cup {d}] /\ at[p] = "prepare" /\ old \in Numbers
<1> DEFINE old == counters[p][NameOf(p)]
<1>1. PICK outcome \in Outcomes, d \in Times :
        /\ Count(p, PutObject(old, outcome = "ok", d))
        /\ did' = [did EXCEPT ![p].times = @ \cup {d}]
  BY DEF Put
<1>2. d \in Nat /\ old \in Numbers /\ at[p] = "prepare"
  BY ResultsAssumption, TaskType DEF RInv, ResultsInv, Put
<1> DEFINE c == PutObject(old, outcome = "ok", d)
<1>3. c \in Numbers /\ c.fin = old.fin /\ c.fail = old.fail /\ c.bytes = old.bytes
  BY <1>2, PutType
<1>4. \A h \in Histogram : c[h] = old[h] \/ c[h] = Observe(old[h], d)
  BY <1>2, PutSamples
<1>5. Count(p, c)
  BY <1>1
<1> HIDE DEF c
<1> QED
  BY <1>1, <1>2, <1>3, <1>4, <1>5

\* An operation counts once, and its process takes note of it.
LEMMA OperateStep ==
  ASSUME RInv, NEW p \in Proc, Operate(p)
  PROVE  \E c \in Numbers, b \in {0, 1}, failed \in {0, 1}, d \in Nat :
           LET old == counters[p][NameOf(p)] IN
           /\ Count(p, c) /\ c.fin + c.fail = old.fin + old.fail + 1 /\ c.bytes = old.bytes + b
           /\ \A h \in Histogram : c[h] = old[h] \/ c[h] = Observe(old[h], d)
           /\ did' = [did EXCEPT ![p] =
                [n |-> @.n + 1, failed |-> @.failed + failed, bytes |-> @.bytes + b,
                 times |-> @.times \cup {d}]]
           /\ at[p] = "load" /\ old \in Numbers
<1> DEFINE old == counters[p][NameOf(p)]
<1>1. PICK op \in tests[task[p]].ops, outcome \in Outcomes, d \in Times :
        /\ Count(p, Do(old, op, tests[task[p]].readOption, outcome, d))
        /\ did' = [did EXCEPT ![p] =
             [n |-> @.n + 1, failed |-> @.failed + IF outcome = "error" THEN 1 ELSE 0,
              bytes |-> @.bytes + IF op \in {"read", "write"} THEN 1 ELSE 0,
              times |-> @.times \cup {d}]]
  BY DEF Operate
<1> DEFINE c == Do(old, op, tests[task[p]].readOption, outcome, d)
           b == IF op \in {"read", "write"} THEN 1 ELSE 0
           failed == IF outcome = "error" THEN 1 ELSE 0
<1>2. d \in Nat /\ old \in Numbers /\ tests[task[p]].readOption \in BOOLEAN /\ at[p] = "load"
  BY ResultsAssumption, TaskType DEF RInv, ResultsInv, Operate
<1>3. /\ c \in Numbers /\ c.fin + c.fail = old.fin + old.fail + 1 /\ c.bytes = old.bytes + b
      /\ \A h \in Histogram : c[h] = old[h] \/ c[h] = Observe(old[h], d)
  BY <1>2, DoType, DoSamples
<1>4. b \in {0, 1} /\ failed \in {0, 1}
  OBVIOUS
<1> HIDE DEF c, b, failed
<1>5. /\ Count(p, c)
      /\ did' = [did EXCEPT ![p] =
           [n |-> @.n + 1, failed |-> @.failed + failed, bytes |-> @.bytes + b,
            times |-> @.times \cup {d}]]
  BY <1>1 DEF c, b, failed
<1> QED
  BY <1>2, <1>3, <1>4, <1>5

\* A worker's step leaves the server alone, and a round that is over stays over.
LEMMA WorkerStep ==
  ASSUME RInv, NEW p \in Proc, Take(p) \/ Put(p) \/ Operate(p) \/ Answer(p) \/ Talk(p)
  PROVE  /\ UNCHANGED <<tests, writable, server, round, restarts>>
         /\ RoundOver => RoundOver'
         /\ counters' \in [Proc -> [Names -> Numbers]] /\ calls' \in 0..MaxCalls
         /\ \A q \in Proc, n \in Names : counters'[q][n].fin + counters'[q][n].fail <= calls'
<1>0. /\ TypeOK /\ TeamInv /\ WorkersOK /\ counters \in [Proc -> [Names -> Numbers]] /\ calls \in 0..MaxCalls
      /\ \A q \in Proc, n \in Names : counters[q][n].fin + counters[q][n].fail <= calls
      /\ counters[p][NameOf(p)] \in Numbers
  BY TaskType DEF RInv, ResultsInv, TypeOK
<1>1. CASE Take(p)
  <2>1. ~running /\ UNCHANGED <<round, restarts>>
    BY <1>0, <1>1, JoinStep DEF Take
  <2> QED
    BY <1>0, <1>1, <2>1 DEF Take, RoundOver
<1>2. CASE Put(p)
  <2>1. PICK c \in Numbers : LET old == counters[p][NameOf(p)] IN
          Count(p, c) /\ c.fin = old.fin /\ c.fail = old.fail
    BY <1>2, PutStep
  <2>2. counters[p][NameOf(p)].fin \in Nat /\ counters[p][NameOf(p)].fail \in Nat
    BY <1>0 DEF Numbers
  <2>3. UNCHANGED <<workers, tests, writable, server>>
    BY <2>1 DEF Count
  <2> QED
    BY <2>1, <2>2, <2>3, CountOK DEF workers, rounds, RoundOver
<1>3. CASE Operate(p)
  <2>1. PICK c \in Numbers : LET old == counters[p][NameOf(p)] IN
          Count(p, c) /\ c.fin + c.fail = old.fin + old.fail + 1
    BY <1>3, OperateStep
  <2>2. counters[p][NameOf(p)].fin \in Nat /\ counters[p][NameOf(p)].fail \in Nat
    BY <1>0 DEF Numbers
  <2>3. UNCHANGED <<workers, tests, writable, server>>
    BY <2>1 DEF Count
  <2> QED
    BY <2>1, <2>2, <2>3, CountOK DEF workers, rounds, RoundOver
<1>4. CASE Answer(p)
  <2>1. /\ UNCHANGED <<tests, writable, server, counters, calls>>
        /\ UNCHANGED <<round, running, members, restarts>> /\ (done' = done \/ done' = done \cup {<<task[p], p>>})
        /\ <<task[p], p>> \in members \/ done' = done
    BY <1>4 DEF Answer, WorkDone, Goto, rounds, R!Finish
  <2> QED
    BY <1>0, <2>1 DEF RoundOver
<1>5. CASE Talk(p)
  <2>1. /\ UNCHANGED <<tests, writable, server, metrics>>
        /\ UNCHANGED <<round, running, members, done, restarts>>
    BY <1>5 DEF Talk, PreparationsDone, Begin, Goto, rounds, R!Prepare
  <2> QED
    BY <1>0, <2>1 DEF RoundOver, metrics
<1> QED
  BY <1>1, <1>2, <1>3, <1>4, <1>5

\* Other steps leave the counters alone, or set all of them to zero.
LEMMA SameCounters ==
  ASSUME RInv, UNCHANGED <<counters, calls>>
  PROVE  /\ counters' \in [Proc -> [Names -> Numbers]] /\ calls' \in 0..MaxCalls
         /\ \A q \in Proc, n \in Names : counters'[q][n].fin + counters'[q][n].fail <= calls'
  BY DEF RInv, ResultsInv, TypeOK

(***************************************************************************)
(* The server.                                                             *)
(***************************************************************************)

LEMMA OpenOK ==
  ASSUME RInv, Open, WorkersOK', TeamInv'
  PROVE  RInv'
<1> DEFINE there == DOMAIN csv \cap writable
<1>0. /\ TypeOK /\ FilesInv /\ MemoryInv /\ RoundOver /\ handle = Closed
      /\ UNCHANGED <<workers, tests, writable, metrics, rows, reports, lost, torn>>
      /\ writable \subseteq Files /\ DOMAIN csv \subseteq Files
  BY DEF RInv, ResultsInv, Open, TypeOK
<1>1. /\ counters' \in [Proc -> [Names -> Numbers]] /\ calls' \in 0..MaxCalls
      /\ \A q \in Proc, n \in Names : counters'[q][n].fin + counters'[q][n].fail <= calls'
  BY <1>0, SameCounters DEF metrics
<1>2. RoundOver' /\ MemoryInv'
  BY <1>0 DEF workers, rounds, RoundOver, MemoryInv
<1>3. ASSUME NEW files, files \subseteq Files, files # {} PROVE Preferred(files) \in files
  BY <1>3 DEF Preferred, Files
<1>4. /\ FilesInv' /\ DOMAIN csv' \subseteq Files /\ torn' \subseteq DOMAIN csv'
      /\ handle'.file \in DOMAIN csv' \cap writable'
  <2>1. CASE there # {} /\ handle' = [file |-> Preferred(there), created |-> FALSE] /\ UNCHANGED csv
    <3>1. Preferred(there) \in there
      BY <1>0, <1>3, <2>1
    <3>2. FilesInv'
      BY <1>0, <2>1, <3>1 DEF FilesInv
    <3> QED
      BY <1>0, <2>1, <3>1, <3>2 DEF TypeOK
  <2>2. CASE /\ there = {} /\ writable # {}
             /\ handle' = [file |-> Preferred(writable), created |-> TRUE]
             /\ csv' = [f \in DOMAIN csv \cup {Preferred(writable)} |-> IF f \in DOMAIN csv THEN csv[f] ELSE <<>>]
    <3> DEFINE new == Preferred(writable)
    <3>1. new \in writable /\ new \notin DOMAIN csv
      BY <1>0, <1>3, <2>2
    <3> HIDE DEF new
    <3>2. new \notin torn
      BY <1>0, <3>1 DEF TypeOK
    <3>3. /\ handle' = [file |-> new, created |-> TRUE] /\ DOMAIN csv' = DOMAIN csv \cup {new}
          /\ csv'[new] = <<>> /\ \A f \in DOMAIN csv : csv'[f] = csv[f]
      BY <2>2, <3>1 DEF new
    <3>4. \A f \in DOMAIN csv' : csv'[f] \in Seq(CsvLine)
      <4>1. <<>> \in Seq(CsvLine)
        OBVIOUS
      <4> QED
        BY <1>0, <3>3, <4>1 DEF FilesInv
    <3>5. FilesInv'
      BY <1>0, <3>1, <3>2, <3>3, <3>4 DEF FilesInv
    <3> QED
      BY <1>0, <3>1, <3>3, <3>5 DEF TypeOK
  <2> QED
    BY <1>0, <2>1, <2>2 DEF Open
<1> QED
  BY <1>0, <1>1, <1>2, <1>4 DEF RInv, ResultsInv, TypeOK

\* Between two tests there is a row in memory for each of those before.
LEMMA NextTestOK ==
  ASSUME RInv, NEW written \in BOOLEAN, NextTest(written)
  PROVE  /\ round \in 1..NumTests /\ MemoryInv' /\ handle' = Closed /\ lost' \subseteq 1..NumTests
         /\ UNCHANGED <<tests, writable>>
<1>1. /\ WorkersOK /\ TeamInv /\ MemoryInv /\ lost \subseteq 1..NumTests
  BY DEF RInv, TypeOK, ResultsInv
<1>2. /\ running /\ round' = round + 1 /\ rows' = Append(rows, round) /\ handle' = Closed
      /\ lost' = IF written THEN lost ELSE lost \cup {round}
      /\ UNCHANGED <<tests, writable>>
  BY DEF NextTest, Advance, R!Advance, Kept
<1>3. round \in 1..NumTests
  BY <1>1, <1>2, TeamAssumption DEF WorkersOK, TeamInv
<1>4. MemoryInv'
  <2>1. rows \in Seq(Nat) /\ (\A i \in DOMAIN rows : rows[i] = i) /\ Len(rows) = round - 1
    BY <1>1, <1>3, TeamAssumption DEF MemoryInv
  <2>2. rows' \in Seq(Nat) /\ Len(rows') = round
    BY <1>2, <1>3, <2>1
  <2>3. \A i \in DOMAIN rows' : rows'[i] = i
    BY <1>2, <1>3, <2>1
  <2>4. Len(rows') = round' - 1
    BY <1>2, <1>3, <2>2
  <2> QED
    BY <2>2, <2>3, <2>4 DEF MemoryInv
<1> QED
  BY <1>1, <1>2, <1>3, <1>4

\* One element behind another, or behind none.
LEMMA Behind ==
  ASSUME NEW S, NEW a \in S, NEW b \in S
  PROVE  /\ LET s == <<a>> \o <<b>> IN s \in Seq(S) /\ Len(s) = 2 /\ s[1] = a /\ s[2] = b
         /\ LET s == <<>> \o <<b>> IN s \in Seq(S) /\ Len(s) = 1 /\ s[1] = b
<1>1. <<a>> \in Seq(S) /\ Len(<<a>>) = 1 /\ <<a>>[1] = a
  OBVIOUS
<1>2. <<b>> \in Seq(S) /\ Len(<<b>>) = 1 /\ <<b>>[1] = b
  OBVIOUS
<1>3. <<>> \in Seq(S) /\ Len(<<>>) = 0
  OBVIOUS
<1>4. ASSUME NEW u \in Seq(S), NEW v \in Seq(S)
      PROVE  /\ u \o v \in Seq(S) /\ Len(u \o v) = Len(u) + Len(v)
             /\ \A i \in 1..(Len(u) + Len(v)) : (u \o v)[i] = IF i <= Len(u) THEN u[i] ELSE v[i - Len(u)]
  OBVIOUS
<1>5. <<a>> \o <<b>> \in Seq(S) /\ Len(<<a>> \o <<b>>) = 2 /\ (<<a>> \o <<b>>)[1] = a /\ (<<a>> \o <<b>>)[2] = b
  BY <1>1, <1>2, <1>4
<1>6. <<>> \o <<b>> \in Seq(S) /\ Len(<<>> \o <<b>>) = 1 /\ (<<>> \o <<b>>)[1] = b
  BY <1>2, <1>3, <1>4
<1> QED
  BY <1>5, <1>6

\* The file that is open, and what is written to it.
LEMMA LinesType ==
  ASSUME RInv, handle # Closed
  PROVE  /\ handle.file \in DOMAIN csv /\ handle = [file |-> handle.file, created |-> handle.created]
         /\ handle.created \in BOOLEAN
         /\ handle.created => Len(Lines) = 2 /\ Lines[1] = Header /\ Lines[2] = Line(restarts, round)
         /\ ~handle.created => Len(Lines) = 1 /\ Lines[1] = Line(restarts, round)
         /\ Header \in CsvLine /\ Line(restarts, round) \in CsvLine /\ Lines \in Seq(CsvLine)
<1>1. /\ handle.file \in DOMAIN csv /\ handle \in [file : Files \cup {"none"}, created : BOOLEAN]
      /\ restarts \in Int /\ round \in Nat
  BY TeamAssumption DEF RInv, TypeOK, WorkersOK, ResultsInv, FilesInv
<1>2. Header \in CsvLine /\ Line(restarts, round) \in CsvLine
  BY <1>1 DEF Header, Line, CsvLine
<1>3. handle = [file |-> handle.file, created |-> handle.created] /\ handle.created \in BOOLEAN
  BY <1>1
<1>4. CASE handle.created
  <2>1. Lines = <<Header>> \o <<Line(restarts, round)>>
    BY <1>4 DEF Lines
  <2> QED
    BY <1>1, <1>2, <1>3, <1>4, <2>1, Behind
<1>5. CASE ~handle.created
  <2>1. Lines = <<>> \o <<Line(restarts, round)>>
    BY <1>5 DEF Lines
  <2> QED
    BY <1>1, <1>2, <1>3, <1>5, <2>1, Behind
<1> QED
  BY <1>3, <1>4, <1>5

LEMMA FlushOK ==
  ASSUME RInv, Flush, WorkersOK', TeamInv'
  PROVE  RInv'
<1>0. /\ TypeOK /\ FilesInv /\ NextTest(TRUE) /\ UNCHANGED torn /\ handle # Closed
      /\ csv' = [csv EXCEPT ![handle.file] = csv[handle.file] \o Lines]
      /\ UNCHANGED <<counters, calls>>
  BY DEF RInv, ResultsInv, Flush, NextTest, Appended
<1>1. /\ counters' \in [Proc -> [Names -> Numbers]] /\ calls' \in 0..MaxCalls
      /\ \A q \in Proc, n \in Names : counters'[q][n].fin + counters'[q][n].fail <= calls'
  BY <1>0, SameCounters
<1>2. /\ MemoryInv' /\ handle' = Closed /\ lost' \subseteq 1..NumTests /\ UNCHANGED <<tests, writable>>
  BY <1>0, NextTestOK
<1>3. \A f \in DOMAIN csv' : csv'[f] \in Seq(CsvLine)
  BY <1>0, LinesType DEF FilesInv
<1>4. FilesInv'
  BY <1>2, <1>3 DEF FilesInv, Closed
<1> QED
  BY <1>0, <1>1, <1>2, <1>4 DEF RInv, ResultsInv, TypeOK

\* Without a line written: neither if the disk is full nor if there is no file.
LEMMA LostOK ==
  ASSUME RInv, FlushFails \/ NoFile, WorkersOK', TeamInv'
  PROVE  RInv'
<1>0. /\ TypeOK /\ FilesInv /\ NextTest(FALSE) /\ UNCHANGED <<csv, counters, calls>>
      /\ torn' = torn \/ (handle # Closed /\ handle.created /\ torn' = torn \cup {handle.file})
  BY DEF RInv, ResultsInv, FlushFails, NoFile, NextTest
<1>1. /\ counters' \in [Proc -> [Names -> Numbers]] /\ calls' \in 0..MaxCalls
      /\ \A q \in Proc, n \in Names : counters'[q][n].fin + counters'[q][n].fail <= calls'
  BY <1>0, SameCounters
<1>2. /\ MemoryInv' /\ handle' = Closed /\ lost' \subseteq 1..NumTests /\ UNCHANGED <<tests, writable>>
  BY <1>0, NextTestOK
<1>3. torn' \subseteq DOMAIN csv
  BY <1>0, LinesType DEF TypeOK
<1>4. FilesInv'
  BY <1>0, <1>2 DEF FilesInv, Closed
<1> QED
  BY <1>0, <1>1, <1>2, <1>3, <1>4 DEF RInv, ResultsInv, TypeOK

LEMMA ReportOK ==
  ASSUME RInv, Report, WorkersOK', TeamInv'
  PROVE  RInv'
<1>0. /\ TypeOK /\ FilesInv /\ round > NumTests /\ rows' = <<>>
      /\ UNCHANGED <<workers, tests, writable, metrics, handle, csv, lost, torn>>
  BY DEF RInv, ResultsInv, Report
<1>1. /\ counters' \in [Proc -> [Names -> Numbers]] /\ calls' \in 0..MaxCalls
      /\ \A q \in Proc, n \in Names : counters'[q][n].fin + counters'[q][n].fail <= calls'
  BY <1>0, SameCounters DEF metrics
<1>2. round' = round /\ RoundOver' = RoundOver
  BY <1>0 DEF workers, rounds, RoundOver
<1>3. MemoryInv' /\ FilesInv'
  BY <1>0, <1>2 DEF MemoryInv, FilesInv
<1> QED
  BY <1>0, <1>1, <1>2, <1>3 DEF RInv, ResultsInv, TypeOK

LEMMA CrashOK ==
  ASSUME RInv, Crash, WorkersOK', TeamInv'
  PROVE  RInv'
<1>0. /\ TypeOK /\ FilesInv /\ Restart /\ rows' = <<>> /\ handle' = Closed /\ lost' = {}
      /\ torn' = IF handle.created THEN torn \cup {handle.file} ELSE torn
      /\ UNCHANGED <<writable, csv, reports>>
  BY DEF RInv, ResultsInv, Crash
<1>1. round' = 1
  BY <1>0 DEF Restart, R!Restart
<1>2. torn' \subseteq DOMAIN csv
  <2>1. handle.created => handle # Closed
    BY DEF Closed
  <2> QED
    BY <1>0, <2>1, LinesType DEF TypeOK
<1>3. MemoryInv' /\ FilesInv'
  BY <1>0, <1>1 DEF MemoryInv, FilesInv, Closed
<1>4. /\ tests' \in Benchmarks
      /\ counters' \in [Proc -> [Names -> Numbers]] /\ calls' \in 0..MaxCalls
      /\ \A q \in Proc, n \in Names : counters'[q][n].fin + counters'[q][n].fail <= calls'
  <2>1. CASE UNCHANGED <<tests, counters, calls>>
    BY <1>0, <2>1, SameCounters DEF TypeOK
  <2>2. CASE /\ tests' \in Benchmarks
             /\ counters' = [p \in Proc |-> [n \in Names |-> Nothing]] /\ calls' = 0
    <3>1. \A q \in Proc, n \in Names : counters'[q][n] = Nothing
      BY <2>2
    <3>2. counters' \in [Proc -> [Names -> Numbers]]
      BY <2>2, NothingType
    <3>3. calls' \in 0..MaxCalls
      BY <2>2, ResultsAssumption
    <3> QED
      BY <2>2, <3>1, <3>2, <3>3, NothingType
  <2> QED
    BY <2>1, <2>2 DEF Crash
<1> QED
  BY <1>0, <1>2, <1>3, <1>4 DEF RInv, ResultsInv, TypeOK

LEMMA InitOK == Init => RInv
<1> SUFFICES ASSUME Init PROVE RInv
  OBVIOUS
<1>1. WorkersOK /\ TeamInv /\ round = 1
  BY WorkersInitOK DEF Init, WorkersInit, R!Init
<1>2. tests \in Benchmarks /\ rows = <<>> /\ handle = Closed /\ lost = {} /\ torn = {}
  BY DEF Init
<1>3. counters \in [Proc -> [Names -> Numbers]] /\ calls \in 0..MaxCalls
      /\ \A q \in Proc, n \in Names : counters[q][n].fin + counters[q][n].fail <= calls
  <2>1. counters = [p \in Proc |-> [n \in Names |-> Nothing]] /\ calls = 0
    BY DEF Init
  <2>2. \A q \in Proc, n \in Names : counters[q][n] = Nothing
    BY <2>1
  <2>3. counters \in [Proc -> [Names -> Numbers]] /\ calls \in 0..MaxCalls
    BY <2>1, NothingType, ResultsAssumption
  <2> QED
    BY <2>1, <2>2, <2>3, NothingType
<1>4. writable \subseteq Files /\ DOMAIN csv \subseteq Files /\ \A f \in DOMAIN csv : csv[f] \in Seq(CsvLine)
  <2>1. PICK d \in Disks : writable = d.writable /\ csv = [f \in d.there |-> <<Header, Line(-1, 1)>>]
    BY DEF Init
  <2>2. Header \in CsvLine /\ Line(-1, 1) \in CsvLine
    BY DEF Header, Line, CsvLine
  <2> QED
    BY <2>1, <2>2, ResultsAssumption
<1>5. FilesInv /\ MemoryInv
  BY <1>1, <1>2, <1>4 DEF FilesInv, MemoryInv, Closed
<1> QED
  BY <1>1, <1>2, <1>3, <1>4, <1>5 DEF RInv, ResultsInv, TypeOK

LEMMA WorkersOfStep == RInv /\ [Next]_vars => WorkersOK' /\ TeamInv'
  BY NextWorkers, WorkersStepOK DEF RInv, TypeOK

LEMMA StepOK == RInv /\ [Next]_vars => RInv'
<1> SUFFICES ASSUME RInv, [Next]_vars PROVE RInv'
  OBVIOUS
<1>0. WorkersOK' /\ TeamInv'
  BY WorkersOfStep
<1>1. ASSUME UNCHANGED <<tests, writable, server, round, restarts>>,
             RoundOver => RoundOver',
             counters' \in [Proc -> [Names -> Numbers]] /\ calls' \in 0..MaxCalls,
             \A q \in Proc, n \in Names : counters'[q][n].fin + counters'[q][n].fail <= calls'
      PROVE  RInv'
  <2>1. UNCHANGED <<handle, csv, rows, reports, lost, torn>>
    BY <1>1 DEF server
  <2>2. FilesInv' /\ MemoryInv'
    BY <1>1, <2>1 DEF RInv, ResultsInv, FilesInv, MemoryInv
  <2> QED
    BY <1>0, <1>1, <2>1, <2>2 DEF RInv, ResultsInv, TypeOK
<1>2. ASSUME NEW p \in Proc, Take(p) \/ Put(p) \/ Operate(p) \/ Answer(p) \/ Talk(p) PROVE RInv'
  BY <1>1, <1>2, WorkerStep
<1>3. CASE StartWork /\ UNCHANGED <<tests, writable, server, metrics>>
  <2>1. ~running /\ UNCHANGED <<round, restarts>>
    BY <1>3 DEF StartWork, R!Start
  <2>2. UNCHANGED <<counters, calls>>
    BY <1>3 DEF metrics
  <2>3. ~RoundOver
    BY <2>1 DEF RoundOver
  <2> QED
    BY <1>1, <1>3, <2>1, <2>2, <2>3, SameCounters
<1>4. CASE UNCHANGED vars
  <2>1. UNCHANGED <<tests, writable, server, round, running, done, members, restarts, counters, calls>>
    BY <1>4 DEF vars, workers, rounds, metrics
  <2> QED
    BY <1>1, <2>1, SameCounters DEF RoundOver
<1> QED
  BY <1>0, <1>2, <1>3, <1>4, OpenOK, FlushOK, LostOK, ReportOK, CrashOK DEF Next

\* Every variable keeps its type, also where teams are numbered anew beside
\* processes of a server that died; and Why, that is what is in the files and in
\* the server's memory.
THEOREM Typed == Spec => [](TypeOK /\ TeamInv /\ ResultsInv)
<1>1. Spec => []RInv
  BY InitOK, StepOK, PTL DEF Spec
<1> QED
  BY <1>1, PTL DEF RInv

(***************************************************************************)
(* The CSV file: a header at the top, and only there.                      *)
(***************************************************************************)

\* A file is well-formed: either whole, or torn and without a header.
Headed(lines, isTorn) ==
  /\ ~isTorn => lines # <<>>
  /\ \A i \in DOMAIN lines : lines[i].header <=> (i = 1 /\ ~isTorn)

LEMMA HeaderRestated ==
  CsvHeader <=> \A f \in DOMAIN csv : handle # [file |-> f, created |-> TRUE] => Headed(csv[f], f \in torn)
  BY DEF CsvHeader, Headed

\* What is flushed gives the file its header, or keeps the one it has.
LEMMA FlushHeaded ==
  ASSUME RInv, CsvHeader, handle # Closed
  PROVE  Headed(csv[handle.file] \o Lines, handle.file \in torn)
<1> DEFINE old == csv[handle.file]
           new == old \o Lines
           isTorn == handle.file \in torn
<1>1. handle.file \in DOMAIN csv /\ old \in Seq(CsvLine) /\ Lines \in Seq(CsvLine)
  BY LinesType DEF RInv, ResultsInv, FilesInv
<1>2. /\ Len(new) = Len(old) + Len(Lines) /\ new \in Seq(CsvLine) /\ Len(old) \in Nat
      /\ \A i \in 1..Len(new) : new[i] = IF i <= Len(old) THEN old[i] ELSE Lines[i - Len(old)]
  BY <1>1
<1>3. Header.header = TRUE /\ Line(restarts, round).header = FALSE
  BY DEF Header, Line
<1>4. CASE handle.created
  <2>1. ~isTorn /\ Len(old) = 0
    BY <1>4, LinesType DEF RInv, ResultsInv, FilesInv
  <2>2. Len(Lines) = 2 /\ Lines[1] = Header /\ Lines[2] = Line(restarts, round)
    BY <1>4, LinesType
  <2>3. Len(new) = 2 /\ new[1] = Header /\ new[2] = Line(restarts, round)
    <3> HIDE DEF new, old
    <3> QED
      BY <1>2, <2>1, <2>2
  <2> HIDE DEF new, isTorn, old
  <2>4. new # <<>> /\ DOMAIN new = 1..2
    <3>1. DOMAIN new = 1..Len(new)
      BY <1>2
    <3> QED
      BY <2>3, <3>1
  <2>5. \A i \in DOMAIN new : new[i].header <=> (i = 1 /\ ~isTorn)
    BY <1>3, <2>1, <2>3, <2>4
  <2> QED
    BY <2>4, <2>5 DEF Headed, new, isTorn, old
<1>5. CASE ~handle.created
  <2>1. Headed(old, isTorn)
    <3>1. handle # [file |-> handle.file, created |-> TRUE]
      BY <1>5
    <3> QED
      BY <1>1, <3>1, HeaderRestated
  <2>2. Len(Lines) = 1 /\ Lines[1] = Line(restarts, round)
    BY <1>5, LinesType
  <2>3. ~isTorn => Len(old) >= 1
    BY <1>1, <2>1 DEF Headed
  <2> HIDE DEF new, isTorn, old
  <2>4. Len(new) = Len(old) + 1 /\ DOMAIN new = 1..Len(new) /\ DOMAIN old = 1..Len(old)
    BY <1>1, <1>2, <2>2
  <2>5. new # <<>>
    BY <1>2, <2>4
  <2>6. ASSUME NEW i \in DOMAIN new PROVE new[i].header <=> (i = 1 /\ ~isTorn)
    <3>1. i \in 1..(Len(old) + 1)
      BY <2>4
    <3>2. CASE i <= Len(old)
      <4>1. i \in DOMAIN old /\ new[i] = old[i]
        BY <1>2, <2>4, <3>1, <3>2
      <4> QED
        BY <2>1, <4>1 DEF Headed
    <3>3. CASE i = Len(old) + 1
      <4>1. new[i] = Line(restarts, round)
        BY <1>2, <2>2, <2>4, <3>1, <3>3
      <4>2. ~(i = 1 /\ ~isTorn)
        BY <1>2, <2>3, <3>3
      <4> QED
        BY <1>3, <4>1, <4>2
    <3> QED
      BY <1>2, <3>1, <3>2, <3>3
  <2> QED
    BY <2>5, <2>6 DEF Headed, new, isTorn, old
<1> QED
  BY <1>4, <1>5

\* A handle that was to give a file its header is given up: the file stays empty.
LEMMA GivenUp ==
  ASSUME RInv, CsvHeader, handle' = Closed, UNCHANGED csv,
         torn' = IF handle.created THEN torn \cup {handle.file} ELSE torn
  PROVE  CsvHeader'
<1> SUFFICES ASSUME NEW f \in DOMAIN csv PROVE Headed(csv[f], f \in torn')
  BY DEF CsvHeader, Headed
<1>1. CASE handle = [file |-> f, created |-> TRUE]
  <2>1. f \in torn' /\ csv[f] = <<>>
    BY <1>1 DEF RInv, ResultsInv, FilesInv
  <2> QED
    BY <2>1 DEF Headed
<1>2. CASE handle # [file |-> f, created |-> TRUE]
  <2>1. handle \in [file : Files \cup {"none"}, created : BOOLEAN]
    BY DEF RInv, ResultsInv, FilesInv
  <2>2. f \in torn' <=> f \in torn
    BY <1>2, <2>1
  <2> QED
    BY <1>2, <2>2, HeaderRestated
<1> QED
  BY <1>1, <1>2

LEMMA HeaderStep == RInv /\ CsvHeader /\ [Next]_vars => CsvHeader'
<1> SUFFICES ASSUME RInv, CsvHeader, [Next]_vars PROVE CsvHeader'
  OBVIOUS
<1>0. UNCHANGED <<handle, csv, torn>> => CsvHeader'
  BY DEF CsvHeader
<1>1. CASE \/ \E p \in Proc : Take(p) \/ Put(p) \/ Operate(p) \/ Answer(p) \/ Talk(p)
           \/ StartWork /\ UNCHANGED <<tests, writable, server, metrics>>
           \/ UNCHANGED vars
           \/ Report
  BY <1>0, <1>1, WorkerStep DEF vars, server, Report
<1>2. CASE Open
  <2>1. handle = Closed /\ UNCHANGED torn /\ torn \subseteq DOMAIN csv
    BY <1>2 DEF Open, RInv, TypeOK
  <2>2. ASSUME NEW f \in DOMAIN csv', handle' # [file |-> f, created |-> TRUE] PROVE Headed(csv'[f], f \in torn')
    <3>1. f \in DOMAIN csv /\ csv'[f] = csv[f]
      BY <1>2, <2>2 DEF Open
    <3>2. handle # [file |-> f, created |-> TRUE]
      BY <2>1 DEF Closed
    <3> QED
      BY <2>1, <3>1, <3>2, HeaderRestated
  <2> QED
    BY <2>2 DEF CsvHeader, Headed
<1>3. CASE Flush
  <2>1. /\ handle # Closed /\ UNCHANGED torn /\ handle' = Closed
        /\ csv' = [csv EXCEPT ![handle.file] = csv[handle.file] \o Lines]
    BY <1>3 DEF Flush, NextTest, Appended
  <2>2. ASSUME NEW f \in DOMAIN csv' PROVE Headed(csv'[f], f \in torn')
    <3>1. CASE f = handle.file
      BY <2>1, <2>2, <3>1, FlushHeaded
    <3>2. CASE f # handle.file
      <4>1. f \in DOMAIN csv /\ csv'[f] = csv[f] /\ handle # [file |-> f, created |-> TRUE]
        BY <2>1, <2>2, <3>2
      <4> QED
        BY <2>1, <4>1, HeaderRestated
    <3> QED
      BY <3>1, <3>2
  <2> QED
    BY <2>2 DEF CsvHeader, Headed
<1>4. CASE FlushFails \/ Crash
  BY <1>4, GivenUp DEF FlushFails, NextTest, Crash
<1>5. CASE NoFile
  <2>1. handle = Closed
    BY <1>5 DEF NoFile, RInv, TypeOK
  <2>2. UNCHANGED <<csv, torn>> /\ handle' = Closed
    BY <1>5 DEF NoFile, NextTest
  <2> QED
    BY <1>0, <2>1, <2>2
<1> QED
  BY <1>1, <1>2, <1>3, <1>4, <1>5 DEF Next

\* A CSV file has one header, at its top, whichever server found it in which place,
\* unless its first lines were never written.
THEOREM HeaderOnce == Spec => []CsvHeader
<1>1. Init => CsvHeader
  <2> SUFFICES ASSUME Init PROVE CsvHeader
    OBVIOUS
  <2>1. PICK d \in Disks : csv = [f \in d.there |-> <<Header, Line(-1, 1)>>]
    BY DEF Init
  <2>2. torn = {} /\ Header.header = TRUE /\ Line(-1, 1).header = FALSE
    BY DEF Init, Header, Line
  <2>3. ASSUME NEW f \in DOMAIN csv PROVE Headed(csv[f], f \in torn)
    BY <2>1, <2>2 DEF Headed
  <2> QED
    BY <2>3 DEF CsvHeader, Headed
<1> QED
  BY <1>1, InitOK, StepOK, HeaderStep, PTL DEF Spec

(***************************************************************************)
(* The lines of the CSV files.                                             *)
(***************************************************************************)

\* A line that is in its place, and a file that is in order.
Home == {f \in writable : f = Found}
Placed(l, f, life, past, home) == l.header \/ l.life < life \/ (l.life = life /\ l.test \in past /\ f \in home)
Ascending(lines) == \A i, j \in DOMAIN lines : i < j => Earlier(lines[i], lines[j])

LEMMA LinesRestated ==
  LinesInv <=> /\ lost \subseteq 1..(round - 1)
               /\ handle # Closed => handle.file = Found
               /\ \A f \in DOMAIN csv : Ascending(csv[f]) /\ \A i \in DOMAIN csv[f] : Placed(csv[f][i], f, restarts, Past, Home)
               /\ \A t \in Past : \E f \in DOMAIN csv : \E i \in DOMAIN csv[f] : csv[f][i] = Line(restarts, t)
  BY DEF LinesInv, InOrder, Placed, Ascending, Home

LEMMA LinesRestatedNext ==
  LinesInv' <=> /\ lost' \subseteq 1..(round' - 1)
                /\ handle' # Closed => handle'.file = Found'
                /\ \A f \in DOMAIN csv' :
                     Ascending(csv'[f]) /\ \A i \in DOMAIN csv'[f] : Placed(csv'[f][i], f, restarts', Past', Home')
                /\ \A t \in Past' : \E f \in DOMAIN csv' : \E i \in DOMAIN csv'[f] : csv'[f][i] = Line(restarts', t)
  BY DEF LinesInv, InOrder, Placed, Ascending, Home, Line

\* The file that Open finds, or else makes, is found again.
LEMMA OpenFinds ==
  ASSUME RInv, LinesInv, Open
  PROVE  LinesInv'
<1> DEFINE there == DOMAIN csv \cap writable
<1>0. /\ UNCHANGED <<workers, writable, lost>> /\ handle = Closed /\ writable \subseteq Files /\ DOMAIN csv \subseteq Files
  BY DEF Open, RInv, TypeOK
<1>1. UNCHANGED <<round, restarts>>
  BY <1>0 DEF workers, rounds
<1>2. CASE there # {} /\ handle' = [file |-> Preferred(there), created |-> FALSE] /\ UNCHANGED csv
  <2>1. Found' = Found /\ Past' = Past /\ Home' = Home
    BY <1>0, <1>1, <1>2 DEF Found, Past, Home
  <2>2. handle'.file = Found'
    BY <1>2, <2>1 DEF Found
  <2> QED
    BY <1>0, <1>1, <1>2, <2>1, <2>2, LinesRestated, LinesRestatedNext
<1>3. CASE /\ there = {} /\ writable # {}
           /\ handle' = [file |-> Preferred(writable), created |-> TRUE]
           /\ csv' = [f \in DOMAIN csv \cup {Preferred(writable)} |-> IF f \in DOMAIN csv THEN csv[f] ELSE <<>>]
  <2> DEFINE new == Preferred(writable)
  <2>1. new \in writable /\ new \notin DOMAIN csv
    BY <1>0, <1>3 DEF Preferred, Files
  <2> HIDE DEF new
  <2>2. DOMAIN csv' = DOMAIN csv \cup {new} /\ csv'[new] = <<>> /\ \A f \in DOMAIN csv : csv'[f] = csv[f]
    BY <1>3, <2>1 DEF new
  <2>3. Found' = new
    <3>1. DOMAIN csv' \cap writable' = {new}
      BY <1>0, <1>3, <2>1, <2>2
    <3>2. new \in Files
      BY <1>0, <2>1
    <3> QED
      BY <3>1, <3>2 DEF Found, Preferred, Files
  <2>4. handle'.file = Found'
    BY <1>3, <2>3 DEF new
  <2>5. ASSUME NEW f \in DOMAIN csv'
        PROVE  Ascending(csv'[f]) /\ \A i \in DOMAIN csv'[f] : Placed(csv'[f][i], f, restarts', Past', Home')
    <3>1. CASE f = new
      BY <2>2, <3>1 DEF Ascending
    <3>2. CASE f # new
      <4>1. f \in DOMAIN csv /\ csv'[f] = csv[f] /\ ~(f \in writable)
        BY <1>3, <2>2, <2>5, <3>2
      <4>2. ASSUME NEW i \in DOMAIN csv[f] PROVE Placed(csv'[f][i], f, restarts', Past', Home')
        BY <1>0, <1>1, <1>3, <4>1, LinesRestated DEF Placed, Home, Past
      <4>3. Ascending(csv[f])
        BY <4>1, LinesRestated
      <4> QED
        BY <4>1, <4>2, <4>3
    <3> QED
      BY <3>1, <3>2
  <2>6. \A t \in Past' : \E f \in DOMAIN csv' : \E i \in DOMAIN csv'[f] : csv'[f][i] = Line(restarts', t)
    <3>1. Past' = Past
      BY <1>0, <1>1 DEF Past
    <3> QED
      BY <1>1, <2>2, <3>1, LinesRestated
  <2>7. lost' \subseteq 1..(round' - 1)
    BY <1>0, <1>1, LinesRestated
  <2> QED
    BY <2>4, <2>5, <2>6, <2>7, LinesRestatedNext
<1> QED
  BY <1>2, <1>3 DEF Open

\* A line more, behind all others of its file.
LEMMA FlushPlaced ==
  ASSUME RInv, LinesInv, Flush
  PROVE  LinesInv'
<1> DEFINE old == csv[handle.file]
           new == old \o Lines
           line == Line(restarts, round)
<1>0. /\ handle # Closed /\ handle' = Closed /\ lost' = lost /\ UNCHANGED <<writable, restarts>>
      /\ csv' = [csv EXCEPT ![handle.file] = new] /\ round' = round + 1 /\ round \in 1..NumTests
      /\ restarts \in Nat
  <2>1. NextTest(TRUE) /\ handle # Closed /\ csv' = [csv EXCEPT ![handle.file] = new]
    BY DEF Flush, Appended
  <2>2. /\ handle' = Closed /\ lost' = lost /\ UNCHANGED <<writable, restarts>>
        /\ round' = round + 1 /\ round \in 1..NumTests
    BY <2>1, NextTestOK DEF NextTest, Advance, R!Advance
  <2>3. restarts \in Nat
    BY TeamAssumption DEF RInv, TypeOK, WorkersOK
  <2> QED
    BY <2>1, <2>2, <2>3
<1>1. handle.file \in DOMAIN csv /\ old \in Seq(CsvLine) /\ Lines \in Seq(CsvLine) /\ handle.file \in writable
  BY <1>0, LinesType DEF RInv, ResultsInv, FilesInv, TypeOK
<1>2. /\ Len(new) = Len(old) + Len(Lines) /\ new \in Seq(CsvLine) /\ Len(old) \in Nat
      /\ \A i \in 1..Len(new) : new[i] = IF i <= Len(old) THEN old[i] ELSE Lines[i - Len(old)]
  BY <1>1
<1>3. ~line.header /\ line.life = restarts /\ line.test = round /\ Header.header
  BY DEF Line, Header
<1>4. handle.file = Found /\ Found' = Found
  BY <1>0, <1>1, LinesRestated DEF Found
<1>5. round \notin lost /\ Past' = Past \cup {round} /\ round \notin Past /\ round \in Nat
  <2>1. lost \subseteq 1..(round - 1) /\ round \in Nat /\ round >= 1
    BY <1>0, TeamAssumption, LinesRestated
  <2> QED
    BY <1>0, <2>1 DEF Past
<1>6. ASSUME NEW l, NEW f, Placed(l, f, restarts, Past, Home) PROVE Placed(l, f, restarts', Past', Home')
  BY <1>0, <1>4, <1>5, <1>6 DEF Placed, Home
<1>7. Ascending(old) /\ \A i \in DOMAIN old : Placed(old[i], handle.file, restarts, Past, Home)
  BY <1>1, LinesRestated
<1>8. ASSUME NEW l \in CsvLine, Placed(l, handle.file, restarts, Past, Home) PROVE Earlier(l, line)
  BY <1>0, <1>3, <1>5, <1>8 DEF Earlier, Placed, CsvLine, Past
<1>9. Placed(Header, handle.file, restarts', Past', Home') /\ Placed(line, handle.file, restarts', Past', Home')
  <2>1. handle.file \in Home' /\ round \in Past'
    BY <1>0, <1>1, <1>4, <1>5 DEF Home
  <2> HIDE DEF line
  <2> QED
    BY <1>0, <1>3, <2>1 DEF Placed
<1>10. /\ Ascending(new) /\ \A i \in DOMAIN new : Placed(new[i], handle.file, restarts', Past', Home')
       /\ new[Len(new)] = line /\ Len(new) \in DOMAIN new /\ \A i \in DOMAIN old : i \in DOMAIN new /\ new[i] = old[i]
  <2>1. CASE handle.created
    <3>1. Len(old) = 0
      BY <2>1 DEF RInv, ResultsInv, FilesInv
    <3>2. Len(Lines) = 2 /\ Lines[1] = Header /\ Lines[2] = line
      BY <1>0, <2>1, LinesType
    <3> HIDE DEF new, old, line
    <3>3. Len(new) = 2 /\ new[1] = Header /\ new[2] = line
      BY <1>2, <3>1, <3>2
    <3>4. DOMAIN new = 1..2 /\ DOMAIN old = {}
      BY <1>1, <1>2, <3>1, <3>3
    <3>5. Ascending(new)
      <4>1. ASSUME NEW i \in DOMAIN new, NEW j \in DOMAIN new, i < j PROVE Earlier(new[i], new[j])
        <5>1. i = 1
          BY <3>4, <4>1
        <5> QED
          BY <1>3, <3>3, <5>1 DEF Earlier
      <4> QED
        BY <4>1 DEF Ascending
    <3>6. \A i \in DOMAIN new : new[i] = Header \/ new[i] = line
      BY <3>3, <3>4
    <3> QED
      BY <1>9, <3>3, <3>4, <3>5, <3>6
  <2>2. CASE ~handle.created
    <3>2. Len(Lines) = 1 /\ Lines[1] = line
      BY <1>0, <2>2, LinesType
    <3> HIDE DEF new, old, line
    <3>3. Len(new) = Len(old) + 1 /\ DOMAIN new = 1..(Len(old) + 1) /\ DOMAIN old = 1..Len(old) /\ new[Len(old) + 1] = line
      BY <1>1, <1>2, <3>2
    <3>4. \A i \in DOMAIN old : i \in DOMAIN new /\ new[i] = old[i] /\ old[i] \in CsvLine
      BY <1>1, <1>2, <3>3
    <3>5. \A i \in DOMAIN new : i \in DOMAIN old \/ i = Len(old) + 1
      BY <1>2, <3>3
    <3>6. Ascending(new)
      <4>1. ASSUME NEW i \in DOMAIN new, NEW j \in DOMAIN new, i < j PROVE Earlier(new[i], new[j])
        <5>1. i \in DOMAIN old
          BY <1>2, <3>3, <4>1
        <5>2. CASE j \in DOMAIN old
          BY <1>7, <3>4, <4>1, <5>1, <5>2 DEF Ascending
        <5>3. CASE j = Len(old) + 1
          BY <1>7, <1>8, <3>3, <3>4, <5>1, <5>3
        <5> QED
          BY <3>5, <5>2, <5>3
      <4> QED
        BY <4>1 DEF Ascending
    <3>7. \A i \in DOMAIN new : Placed(new[i], handle.file, restarts', Past', Home')
      BY <1>6, <1>7, <1>9, <3>3, <3>4, <3>5
    <3> QED
      BY <1>2, <3>3, <3>4, <3>6, <3>7
  <2> QED
    BY <1>0, <2>1, <2>2, LinesType
<1> HIDE DEF new, old, line
<1>11. DOMAIN csv' = DOMAIN csv /\ csv'[handle.file] = new /\ \A f \in DOMAIN csv : f # handle.file => csv'[f] = csv[f]
  BY <1>0, <1>1
<1>12. ASSUME NEW f \in DOMAIN csv'
       PROVE  Ascending(csv'[f]) /\ \A i \in DOMAIN csv'[f] : Placed(csv'[f][i], f, restarts', Past', Home')
  <2>1. CASE f = handle.file
    BY <1>10, <1>11, <2>1
  <2>2. CASE f # handle.file
    <3>1. f \in DOMAIN csv /\ csv'[f] = csv[f]
      BY <1>11, <1>12, <2>2
    <3>2. Ascending(csv[f]) /\ \A i \in DOMAIN csv[f] : Placed(csv[f][i], f, restarts, Past, Home)
      BY <3>1, LinesRestated
    <3> QED
      BY <1>6, <3>1, <3>2
  <2> QED
    BY <2>1, <2>2
<1>13. ASSUME NEW t \in Past'
       PROVE  \E f \in DOMAIN csv' : \E i \in DOMAIN csv'[f] : csv'[f][i] = Line(restarts', t)
  <2>1. CASE t = round
    BY <1>0, <1>1, <1>10, <1>11, <2>1 DEF line
  <2>2. CASE t # round
    <3>1. t \in Past
      BY <1>0, <1>5, <2>2
    <3>2. PICK f \in DOMAIN csv : \E i \in DOMAIN csv[f] : csv[f][i] = Line(restarts, t)
      BY <3>1, LinesRestated
    <3>3. \A i \in DOMAIN csv[f] : i \in DOMAIN csv'[f] /\ csv'[f][i] = csv[f][i]
      BY <1>10, <1>11, <3>2 DEF old
    <3> QED
      BY <1>0, <1>11, <3>2, <3>3
  <2> QED
    BY <2>1, <2>2
<1>14. lost' \subseteq 1..(round' - 1)
  <2>1. lost \subseteq 1..(round - 1) /\ round' - 1 = round
    BY <1>0, <1>5, LinesRestated
  <2> QED
    BY <1>0, <1>5, <2>1
<1> QED
  BY <1>0, <1>12, <1>13, <1>14, LinesRestatedNext

LEMMA LinesStep == RInv /\ LinesInv /\ [Next]_vars => LinesInv'
<1> SUFFICES ASSUME RInv, LinesInv, [Next]_vars PROVE LinesInv'
  OBVIOUS
<1>0. ASSUME UNCHANGED <<round, restarts, lost, handle, csv, writable>> PROVE LinesInv'
  <2>1. Found' = Found /\ Past' = Past /\ Home' = Home
    BY <1>0 DEF Found, Past, Home
  <2> QED
    BY <1>0, <2>1, LinesRestated, LinesRestatedNext
<1>1. ASSUME NEW p \in Proc, Take(p) \/ Put(p) \/ Operate(p) \/ Answer(p) \/ Talk(p) PROVE LinesInv'
  BY <1>0, <1>1, WorkerStep DEF server
<1>2. CASE StartWork /\ UNCHANGED <<tests, writable, server, metrics>>
  BY <1>0, <1>2 DEF StartWork, R!Start, server
<1>3. CASE Report \/ UNCHANGED vars
  BY <1>0, <1>3 DEF Report, vars, server, workers, rounds
<1>4. CASE FlushFails \/ NoFile
  <2>1. /\ round \in 1..NumTests /\ handle' = Closed /\ lost' = lost \cup {round} /\ round' = round + 1
        /\ UNCHANGED <<csv, writable, restarts>>
    BY <1>4, NextTestOK DEF FlushFails, NoFile, NextTest, Advance, R!Advance
  <2>2. round \in Nat /\ lost \subseteq 1..(round - 1) /\ round' - 1 = round
    BY <2>1, TeamAssumption, LinesRestated
  <2>3. lost' \subseteq 1..(round' - 1) /\ Past' = Past
    BY <2>1, <2>2 DEF Past
  <2>4. Found' = Found /\ Home' = Home
    BY <2>1 DEF Found, Home
  <2> QED
    BY <2>1, <2>3, <2>4, LinesRestated, LinesRestatedNext
<1>5. CASE Crash
  <2>1. restarts' = restarts + 1 /\ round' = 1 /\ lost' = {} /\ handle' = Closed /\ UNCHANGED <<csv, writable>>
    BY <1>5 DEF Crash, Restart, R!Restart
  <2>2. ASSUME NEW f \in DOMAIN csv, NEW i \in DOMAIN csv[f] PROVE csv[f][i].header \/ csv[f][i].life < restarts'
    <3>1. csv[f][i] \in CsvLine /\ restarts \in Nat
      BY TeamAssumption DEF RInv, ResultsInv, FilesInv, TypeOK, WorkersOK
    <3>2. csv[f][i].life \in Int
      BY <3>1 DEF CsvLine
    <3> QED
      BY <2>1, <3>1, <3>2, LinesRestated DEF Placed
  <2>3. lost' \subseteq 1..(round' - 1) /\ Past' = {}
    BY <2>1 DEF Past
  <2> QED
    BY <2>1, <2>2, <2>3 DEF LinesInv, InOrder
<1> QED
  BY <1>1, <1>2, <1>3, <1>4, <1>5, OpenFinds, FlushPlaced DEF Next

LEMMA InitLines == Init => LinesInv
<1> SUFFICES ASSUME Init PROVE LinesInv
  OBVIOUS
<1>1. PICK d \in Disks : csv = [f \in d.there |-> <<Header, Line(-1, 1)>>]
  BY DEF Init
<1>2. lost = {} /\ handle = Closed /\ round = 1 /\ restarts = 0
  BY DEF Init, WorkersInit, R!Init
<1>3. Header.header /\ Line(-1, 1).life = -1
  BY DEF Header, Line
<1>4. ASSUME NEW f \in DOMAIN csv PROVE Ascending(csv[f]) /\ \A i \in DOMAIN csv[f] : Placed(csv[f][i], f, restarts, Past, Home)
  <2>1. csv[f] = <<Header, Line(-1, 1)>>
    BY <1>1, <1>4
  <2>2. DOMAIN csv[f] = 1..2 /\ csv[f][1] = Header /\ csv[f][2] = Line(-1, 1)
    BY <2>1
  <2> QED
    BY <1>2, <1>3, <2>2 DEF Ascending, Earlier, Placed
<1>5. Past = {}
  BY <1>2 DEF Past
<1> QED
  BY <1>2, <1>4, <1>5, LinesRestated

\* Every test of this life of the server whose line could be written has it, once,
\* behind those of the tests before and of earlier lives, and all in one file
\* (writeResultToCSV, getCSVFileHandle).
THEOREM RowsAreKept == Spec => []RowsKept
<1>1. RInv /\ LinesInv => RowsKept
  <2> SUFFICES ASSUME RInv, LinesInv PROVE RowsKept
    OBVIOUS
  <2>0. DOMAIN csv \subseteq Files /\ restarts \in Nat
    BY TeamAssumption DEF RInv, TypeOK, WorkersOK
  <2>1. ASSUME NEW f, NEW t \in TestsIn(f) PROVE t \in Past /\ f = Found
    <3>1. PICK i \in DOMAIN csv[f] : f \in DOMAIN csv /\ ~csv[f][i].header /\ csv[f][i].life = restarts /\ t = csv[f][i].test
      BY <2>1 DEF TestsIn
    <3> QED
      BY <2>0, <3>1, LinesRestated DEF Placed, Home
  <2>2. ASSUME NEW t \in Past PROVE t \in TestsIn("cwd") \cup TestsIn("tmp")
    <3>1. PICK f \in DOMAIN csv : \E i \in DOMAIN csv[f] : csv[f][i] = Line(restarts, t)
      BY <2>2, LinesRestated
    <3>2. t \in TestsIn(f)
      BY <3>1 DEF TestsIn, Line
    <3> QED
      BY <2>0, <3>2 DEF Files
  <2>3. \E f \in Files : TestsIn(f) = {}
    <3>1. Found = "cwd" \/ Found = "tmp"
      BY DEF Found, Preferred
    <3>2. TestsIn("cwd") = {} \/ TestsIn("tmp") = {}
      BY <2>1, <3>1
    <3> QED
      BY <3>2 DEF Files
  <2>4. TestsIn("cwd") \cup TestsIn("tmp") = Past
    BY <2>1, <2>2
  <2> QED
    BY <2>3, <2>4 DEF RowsKept, LinesInv, Past
<1> QED
  BY <1>1, InitOK, StepOK, InitLines, LinesStep, PTL DEF Spec

(***************************************************************************)
(* The report: every test of the benchmark, once.                          *)
(***************************************************************************)

ReportRow ==
  [type : SUBSET {"read", "write", "list", "delete"}, size : Nat, workers : Nat, clients : Nat, test : Nat, life : Nat]

\* What the server has printed so far.
ReportsInv == reports \in Seq([1..NumTests -> ReportRow]) /\ ReportComplete

LEMMA ReportedType ==
  ASSUME RInv, NEW t \in 1..NumTests
  PROVE  Reported(t) \in ReportRow /\ Reported(t).test = t /\ Reported(t).life = restarts
<1>1. tests \in Benchmarks /\ restarts \in Nat
  BY TeamAssumption DEF RInv, TypeOK, WorkersOK
<1>2. /\ tests[t].ops \in SUBSET {"read", "write", "list", "delete"} /\ tests[t].size \in Nat /\ tests[t].clients \in Nat
  BY <1>1, ResultsAssumption
<1>3. TeamSize[t] \in Nat
  BY TeamAssumption
<1>4. tests[t].size \div Kilo \in Nat
  <2>1. ASSUME NEW a \in Nat, NEW b \in Nat \ {0} PROVE a \div b \in Nat
    OBVIOUS
  <2> QED
    BY <1>2, <2>1, ResultsAssumption
<1>5. t \in Nat
  BY TeamAssumption
<1> QED
  BY <1>1, <1>2, <1>3, <1>4, <1>5 DEF Reported, ReportRow

\* As many rows as there are tests.
LEMMA RowsReported ==
  ASSUME RInv
  PROVE  LET S == {Reported(t) : t \in 1..NumTests} IN IsFiniteSet(S) /\ Cardinality(S) = NumTests
<1> DEFINE N == 1..NumTests
           S == {Reported(t) : t \in N}
           f == [t \in N |-> Reported(t)]
<1>1. IsFiniteSet(N) /\ Cardinality(N) = NumTests
  BY TeamAssumption, FS_Interval
<1>2. \A t, u \in N : Reported(t) = Reported(u) => t = u
  BY ReportedType
<1>3. f \in Bijection(N, S)
  BY <1>2 DEF Bijection, Injection, Surjection, IsInjective
<1>4. ExistsBijection(N, S)
  BY <1>3 DEF ExistsBijection
<1> QED
  BY <1>1, <1>4, FS_Bijection

\* A report of rows without a repetition is about every test.
LEMMA ReportOfAll ==
  ASSUME RInv, NEW report \in SetToSeqs({Reported(t) : t \in 1..NumTests})
  PROVE  /\ report \in [1..NumTests -> ReportRow]
         /\ {report[i].test : i \in 1..NumTests} = 1..NumTests
         /\ \A i \in 1..NumTests : report[i].life = restarts
<1> DEFINE N == 1..NumTests
           S == {Reported(t) : t \in N}
           g == [i \in N |-> report[i].test]
<1>1. report \in [N -> S] /\ \A i, j \in N : i # j => report[i] # report[j]
  BY RowsReported DEF SetToSeqs
<1>2. ASSUME NEW i \in N PROVE /\ g[i] \in N /\ report[i] = Reported(g[i]) /\ report[i] \in ReportRow
                               /\ report[i].life = restarts
  <2>1. PICK t \in N : report[i] = Reported(t)
    BY <1>1
  <2> QED
    BY <2>1, ReportedType
<1>3. g \in Injection(N, N)
  <2>1. \A i, j \in N : g[i] = g[j] => i = j
    BY <1>1, <1>2
  <2>2. g \in [N -> N] /\ DOMAIN g = N
    BY <1>2
  <2> QED
    BY <2>1, <2>2 DEF Injection, IsInjective
<1>4. IsFiniteSet(N)
  BY TeamAssumption, FS_Interval
<1>5. g \in Surjection(N, N)
  BY <1>3, <1>4, FS_Injection
<1>6. {report[i].test : i \in N} = N
  <2>1. ASSUME NEW t \in N PROVE \E i \in N : report[i].test = t
    BY <1>5, <2>1 DEF Surjection
  <2> QED
    BY <1>2, <2>1
<1>7. report \in [N -> ReportRow]
  BY <1>1, <1>2
<1> QED
  BY <1>2, <1>6, <1>7

LEMMA ReportStep == RInv /\ ReportsInv /\ Report => ReportsInv'
<1> SUFFICES ASSUME RInv, ReportsInv, Report PROVE ReportsInv'
  OBVIOUS
<1>1. rows \in Seq(Nat) /\ (\A i \in DOMAIN rows : rows[i] = i) /\ Len(rows) = NumTests
  BY TeamAssumption DEF Report, RInv, ResultsInv, MemoryInv, TypeOK, WorkersOK
<1>2. {Reported(rows[i]) : i \in DOMAIN rows} = {Reported(t) : t \in 1..NumTests}
  BY <1>1
<1>3. PICK report \in SetToSeqs({Reported(t) : t \in 1..NumTests}) : reports' = Append(reports, report)
  BY <1>2 DEF Report
<1>4. /\ report \in [1..NumTests -> ReportRow]
      /\ {report[i].test : i \in 1..NumTests} = 1..NumTests
      /\ \A i \in 1..NumTests : report[i].life = restarts
  BY <1>3, ReportOfAll
<1>5. /\ reports \in Seq([1..NumTests -> ReportRow]) /\ reports' \in Seq([1..NumTests -> ReportRow])
      /\ DOMAIN reports' = 1..(Len(reports) + 1) /\ DOMAIN reports = 1..Len(reports)
      /\ Len(reports) \in Nat
      /\ \A k \in DOMAIN reports : reports'[k] = reports[k]
      /\ reports'[Len(reports) + 1] = report
  BY <1>3, <1>4 DEF ReportsInv
<1>6. Len(report) = NumTests /\ DOMAIN report = 1..NumTests
  BY <1>4, TeamAssumption
<1>7. ASSUME NEW k \in DOMAIN reports'
      PROVE  /\ Len(reports'[k]) = NumTests
             /\ {reports'[k][i].test : i \in DOMAIN reports'[k]} = 1..NumTests
             /\ \A i, j \in DOMAIN reports'[k] : reports'[k][i].life = reports'[k][j].life
  <2>1. CASE k \in DOMAIN reports
    <3>1. reports'[k] = reports[k]
      BY <1>5, <2>1
    <3>2. /\ Len(reports[k]) = NumTests
          /\ {reports[k][i].test : i \in DOMAIN reports[k]} = 1..NumTests
          /\ \A i, j \in DOMAIN reports[k] : reports[k][i].life = reports[k][j].life
      BY <2>1 DEF ReportsInv, ReportComplete
    <3> QED
      BY <3>1, <3>2
  <2>2. CASE k = Len(reports) + 1
    <3>1. reports'[k] = report
      BY <1>5, <2>2
    <3> QED
      BY <1>4, <1>6, <3>1
  <2> QED
    BY <1>5, <2>1, <2>2
<1> QED
  BY <1>5, <1>7 DEF ReportsInv, ReportComplete

LEMMA ReportsStep == RInv /\ ReportsInv /\ [Next]_vars => ReportsInv'
<1> SUFFICES ASSUME RInv, ReportsInv, [Next]_vars PROVE ReportsInv'
  OBVIOUS
<1>0. UNCHANGED reports => ReportsInv'
  BY DEF ReportsInv, ReportComplete
<1>1. CASE \E p \in Proc : Take(p) \/ Put(p) \/ Operate(p) \/ Answer(p) \/ Talk(p)
  BY <1>0, <1>1, WorkerStep DEF server
<1>2. CASE \/ StartWork /\ UNCHANGED <<tests, writable, server, metrics>>
           \/ Open \/ Flush \/ FlushFails \/ NoFile \/ Crash \/ UNCHANGED vars
  BY <1>0, <1>2 DEF server, vars, Open, Flush, FlushFails, NoFile, NextTest, Crash
<1> QED
  BY <1>1, <1>2, ReportStep DEF Next

LEMMA InitReports == Init => ReportsInv
  BY DEF Init, ReportsInv, ReportComplete

\* The report has every test of the benchmark exactly once, each as this life of
\* the server ran it: rows are kept in memory whatever becomes of the file, and a
\* server that died does every test again.
THEOREM ReportsAreComplete == Spec => []ReportComplete
<1>1. ReportsInv => ReportComplete
  BY DEF ReportsInv
<1> QED
  BY <1>1, InitOK, StepOK, InitReports, ReportsStep, PTL DEF Spec

(***************************************************************************)
(* What the members of a team counted.                                     *)
(***************************************************************************)

CountInv == TallyInv /\ DOMAIN result = Proc

\* A member's test is the one at hand, and has a name.
LEMMA MemberType ==
  ASSUME TypeOK, TeamInv, NEW p \in Team
  PROVE  /\ p \in Proc /\ task[p] = round /\ round \in 1..NumTests /\ NameOf(p) = tests[round].name
         /\ tests[round].name \in Names
<1>1. p \in Proc /\ task[p] = round
  BY TeamType DEF TypeOK, TeamInv
<1>2. task[p] \in 1..NumTests
  BY <1>1 DEF TypeOK, WorkersOK
<1> QED
  BY <1>1, <1>2, TaskType DEF NameOf

\* A new round has nobody.
LEMMA EmptyTally ==
  ASSUME NewRound, Team' = {}
  PROVE  CountInv'
<1>1. before' \in [Proc -> Numbers] /\ did' \in [Proc -> Doings]
  BY NothingType DEF NewRound, Idle, Doings
<1>2. DOMAIN result' = Proc
  BY DEF NewRound, NoResults
<1> QED
  BY <1>1, <1>2 DEF CountInv, TallyInv

\* Whoever joins has done nothing yet.
LEMMA TakeTally ==
  ASSUME RInv, CountInv, NEW p \in Proc, Take(p)
  PROVE  CountInv'
<1> DEFINE name == tests[round].name
<1>0. TypeOK /\ WorkersOK /\ TeamInv /\ TallyInv /\ counters \in [Proc -> [Names -> Numbers]]
  BY DEF RInv, TypeOK, ResultsInv, CountInv
<1>1. /\ round \in 1..NumTests /\ p \notin Team /\ Team' = Team \cup {p}
      /\ UNCHANGED <<round, done, tests, counters, result>>
      /\ before' = [before EXCEPT ![p] = counters[p][name]] /\ did' = [did EXCEPT ![p] = Idle]
  BY <1>0, JoinStep DEF Take
<1>2. name \in Names
  BY <1>0, <1>1 DEF Names, TypeOK
<1>3. counters[p][name] \in Numbers /\ Idle \in Doings
  BY <1>0, <1>2 DEF Idle, Doings
<1>4. before' \in [Proc -> Numbers] /\ did' \in [Proc -> Doings]
  BY <1>0, <1>1, <1>3 DEF TallyInv
<1>5. ASSUME NEW q \in Team'
      PROVE  /\ Own(q)'.fin + Own(q)'.fail = before'[q].fin + before'[q].fail + did'[q].n
             /\ Own(q)'.bytes = before'[q].bytes + did'[q].bytes
             /\ <<round', q>> \in done' => result'[q] = Gather(Own(q)')
  <2>1. Own(q)' = Own(q)
    BY <1>1 DEF Own
  <2>2. CASE q # p
    <3>1. q \in Team /\ before'[q] = before[q] /\ did'[q] = did[q]
      BY <1>0, <1>1, <2>2 DEF TallyInv
    <3> QED
      BY <1>0, <1>1, <2>1, <3>1 DEF TallyInv
  <2>3. CASE q = p
    <3>1. before'[q] = Own(q) /\ did'[q] = Idle /\ Own(q) \in Numbers
      BY <1>0, <1>1, <1>3, <2>3 DEF TallyInv, Own
    <3>2. <<round, p>> \notin done
      BY <1>0, <1>1, TeamType DEF WorkersOK
    <3>3. Own(q).fin + Own(q).fail = Own(q).fin + Own(q).fail + 0 /\ Own(q).bytes = Own(q).bytes + 0
      BY <3>1 DEF Numbers
    <3> QED
      BY <1>1, <2>1, <2>3, <3>1, <3>2, <3>3 DEF Idle
  <2> QED
    BY <2>2, <2>3
<1> QED
  BY <1>1, <1>4, <1>5 DEF CountInv, TallyInv

\* What p counts is its own, and a member that counts is not done.
LEMMA CountTally ==
  ASSUME RInv, CountInv, NEW p \in Proc, NEW c \in Numbers, NEW e \in Doings, Count(p, c),
         at[p] \in {"prepare", "load"}, did' = [did EXCEPT ![p] = e],
         LET old == counters[p][NameOf(p)] IN
           /\ c.fin + c.fail + did[p].n = old.fin + old.fail + e.n
           /\ c.bytes + did[p].bytes = old.bytes + e.bytes
  PROVE  CountInv'
<1> DEFINE old == counters[p][NameOf(p)]
<1>0. TypeOK /\ WorkersOK /\ TeamInv /\ TallyInv /\ counters \in [Proc -> [Names -> Numbers]] /\ NameOf(p) \in Names
  BY TaskType DEF RInv, TypeOK, ResultsInv, CountInv
<1>1. UNCHANGED <<workers, tests, result, before>> /\ counters' = [counters EXCEPT ![p][NameOf(p)] = c]
  BY DEF Count
<1>2. UNCHANGED <<round, members, done>> /\ Team' = Team
  BY <1>1 DEF workers, rounds, Team
<1>3. before' \in [Proc -> Numbers] /\ did' \in [Proc -> Doings]
  BY <1>0, <1>1 DEF TallyInv
<1>4. ASSUME NEW q \in Team
      PROVE  /\ Own(q)'.fin + Own(q)'.fail = before'[q].fin + before'[q].fail + did'[q].n
             /\ Own(q)'.bytes = before'[q].bytes + did'[q].bytes
             /\ <<round', q>> \in done' => result'[q] = Gather(Own(q)')
  <2>0. q \in Proc /\ NameOf(q) = tests[round].name /\ tests[round].name \in Names
    BY <1>0, MemberType
  <2>1. CASE q # p
    <3>1. Own(q)' = Own(q) /\ did'[q] = did[q]
      BY <1>0, <1>1, <1>2, <2>0, <2>1 DEF Own, TallyInv
    <3> QED
      BY <1>0, <1>1, <1>2, <3>1 DEF TallyInv
  <2>2. CASE q = p
    <3>1. Own(q) = old /\ Own(q)' = c /\ did'[q] = e
      BY <1>0, <1>1, <1>2, <2>0, <2>2 DEF Own, TallyInv
    <3>2. <<round, q>> \notin done
      BY <1>0, <2>2 DEF TeamInv
    <3>3. old \in Numbers /\ before[q] \in Numbers /\ did[q] \in Doings
      BY <1>0, <2>2 DEF TallyInv
    <3>4. old.fin + old.fail = before[q].fin + before[q].fail + did[q].n /\ old.bytes = before[q].bytes + did[q].bytes
      BY <1>0, <3>1 DEF TallyInv
    <3>5. c.fin + c.fail = before[q].fin + before[q].fail + e.n /\ c.bytes = before[q].bytes + e.bytes
      <4> HIDE DEF old
      <4>1. /\ c.fin + c.fail + did[q].n = old.fin + old.fail + e.n /\ c.bytes + did[q].bytes = old.bytes + e.bytes
        BY <2>2 DEF old
      <4>2. /\ c.fin \in Nat /\ c.fail \in Nat /\ c.bytes \in Nat /\ old.fin \in Nat /\ old.fail \in Nat /\ old.bytes \in Nat
            /\ before[q].fin \in Nat /\ before[q].fail \in Nat /\ before[q].bytes \in Nat
            /\ did[q].n \in Nat /\ did[q].bytes \in Nat /\ e.n \in Nat /\ e.bytes \in Nat
        BY <3>3 DEF Numbers, Doings
      <4>3. ASSUME NEW a \in Nat, NEW b \in Nat, NEW f \in Nat, NEW g \in Nat, NEW k \in Nat, NEW l \in Nat,
                   a + k = b + l, b = f + g + k
            PROVE  a = f + g + l
        BY <4>3
      <4>4. ASSUME NEW a \in Nat, NEW b \in Nat, NEW f \in Nat, NEW k \in Nat, NEW l \in Nat,
                   a + k = b + l, b = f + k
            PROVE  a = f + l
        BY <4>4
      <4>5. c.fin + c.fail \in Nat /\ old.fin + old.fail \in Nat
        BY <4>2
      <4>6. c.fin + c.fail = before[q].fin + before[q].fail + e.n
        BY <3>4, <4>1, <4>2, <4>3, <4>5
      <4>7. c.bytes = before[q].bytes + e.bytes
        BY <3>4, <4>1, <4>2, <4>4
      <4> QED
        BY <4>6, <4>7
    <3> QED
      BY <1>1, <1>2, <3>1, <3>2, <3>5
  <2> QED
    BY <2>1, <2>2
<1> QED
  BY <1>1, <1>2, <1>3, <1>4 DEF CountInv, TallyInv

\* A member that answers gives the server what it counted.
LEMMA AnswerTally ==
  ASSUME RInv, CountInv, NEW p \in Proc, Answer(p)
  PROVE  CountInv'
<1>0. TypeOK /\ WorkersOK /\ TeamInv /\ TallyInv
  BY DEF RInv, TypeOK, CountInv
<1>1. /\ at[p] = "load" /\ UNCHANGED <<round, members, tests, counters, before, did>>
      /\ IF Current(p) THEN done' = done \cup {<<task[p], p>>} /\ result' = [result EXCEPT ![p] = Gather(OfTest(p))]
                       ELSE UNCHANGED <<done, result>>
  BY DEF Answer, WorkDone, R!Finish, rounds
<1>2. Team' = Team
  BY <1>1 DEF Team
<1>3. ASSUME NEW q \in Team
      PROVE  /\ Own(q)'.fin + Own(q)'.fail = before'[q].fin + before'[q].fail + did'[q].n
             /\ Own(q)'.bytes = before'[q].bytes + did'[q].bytes
             /\ <<round', q>> \in done' => result'[q] = Gather(Own(q)')
  <2>1. Own(q)' = Own(q) /\ before'[q] = before[q] /\ did'[q] = did[q]
    BY <1>1 DEF Own
  <2>2. CASE q = p /\ Current(p)
    <3>1. OfTest(p) = Own(q)
      BY <1>0, <2>2, MemberType DEF OfTest, Own
    <3>2. result'[q] = Gather(Own(q))
      BY <1>1, <2>2, <3>1, MemberType DEF CountInv
    <3> QED
      BY <1>0, <2>1, <3>2 DEF TallyInv
  <2>3. CASE ~(q = p /\ Current(p))
    <3>1. result'[q] = result[q] /\ (<<round', q>> \in done' => <<round, q>> \in done)
      BY <1>0, <1>1, <2>3, MemberType DEF CountInv
    <3> QED
      BY <1>0, <2>1, <3>1 DEF TallyInv
  <2> QED
    BY <2>2, <2>3
<1>4. DOMAIN result' = Proc
  BY <1>1 DEF CountInv
<1> QED
  BY <1>0, <1>1, <1>2, <1>3, <1>4 DEF CountInv, TallyInv

LEMMA TallyStep == RInv /\ CountInv /\ [Next]_vars => CountInv'
<1> SUFFICES ASSUME RInv, CountInv, [Next]_vars PROVE CountInv'
  OBVIOUS
<1>0. TypeOK /\ WorkersOK /\ TeamInv /\ TallyInv
  BY DEF RInv, TypeOK, CountInv
<1>1. ASSUME UNCHANGED <<round, members, done, tests, counters, result, before, did>> PROVE CountInv'
  <2>1. Team' = Team
    BY <1>1 DEF Team
  <2> QED
    BY <1>1, <2>1 DEF CountInv, TallyInv, Own
<1>2. ASSUME NEW p \in Proc, Put(p) PROVE CountInv'
  <2>1. PICK c \in Numbers, d \in Nat : LET old == counters[p][NameOf(p)] IN
          /\ Count(p, c) /\ c.fin = old.fin /\ c.fail = old.fail /\ c.bytes = old.bytes
          /\ did' = [did EXCEPT ![p].times = @ \cup {d}] /\ at[p] = "prepare" /\ old \in Numbers
    BY <1>2, PutStep
  <2> DEFINE e == [did[p] EXCEPT !.times = @ \cup {d}]
  <2>2. did[p] \in Doings /\ e \in Doings /\ e.n = did[p].n /\ e.bytes = did[p].bytes /\ did' = [did EXCEPT ![p] = e]
    BY <1>0, <2>1 DEF TallyInv, Doings
  <2> HIDE DEF e
  <2> QED
    BY <2>1, <2>2, CountTally
<1>3. ASSUME NEW p \in Proc, Operate(p) PROVE CountInv'
  <2>1. PICK c \in Numbers, b \in {0, 1}, failed \in {0, 1}, d \in Nat :
          LET old == counters[p][NameOf(p)] IN
          /\ Count(p, c) /\ c.fin + c.fail = old.fin + old.fail + 1 /\ c.bytes = old.bytes + b
          /\ did' = [did EXCEPT ![p] =
               [n |-> @.n + 1, failed |-> @.failed + failed, bytes |-> @.bytes + b,
                times |-> @.times \cup {d}]]
          /\ at[p] = "load" /\ old \in Numbers
    BY <1>3, OperateStep
  <2> DEFINE e == [n |-> did[p].n + 1, failed |-> did[p].failed + failed, bytes |-> did[p].bytes + b,
                   times |-> did[p].times \cup {d}]
             old == counters[p][NameOf(p)]
  <2>2. did[p] \in Doings /\ e \in Doings /\ e.n = did[p].n + 1 /\ e.bytes = did[p].bytes + b /\ did' = [did EXCEPT ![p] = e]
    BY <1>0, <2>1 DEF TallyInv, Doings
  <2> HIDE DEF e
  <2>3. /\ c.fin + c.fail + did[p].n = old.fin + old.fail + e.n
        /\ c.bytes + did[p].bytes = old.bytes + e.bytes
    <3>1. c.fin + c.fail = old.fin + old.fail + 1 /\ c.bytes = old.bytes + b
      BY <2>1
    <3>2. /\ c.fin \in Nat /\ c.fail \in Nat /\ c.bytes \in Nat /\ old.fin \in Nat /\ old.fail \in Nat
          /\ old.bytes \in Nat /\ did[p].n \in Nat /\ did[p].bytes \in Nat /\ b \in Nat
      BY <2>1, <2>2 DEF Numbers, Doings
    <3> DEFINE fin == c.fin  fail == c.fail  oldFin == old.fin  oldFail == old.fail  n == did[p].n
               bytes == c.bytes  oldBytes == old.bytes  m == did[p].bytes
    <3>3. fin + fail + n = oldFin + oldFail + (n + 1)
      <4>1. fin + fail = oldFin + oldFail + 1 /\ {fin, fail, oldFin, oldFail, n} \subseteq Nat
        BY <3>1, <3>2
      <4> HIDE DEF fin, fail, oldFin, oldFail, n
      <4> QED
        BY <4>1
    <3>4. bytes + m = oldBytes + (m + b)
      <4>1. bytes = oldBytes + b /\ {bytes, oldBytes, m, b} \subseteq Nat
        BY <3>1, <3>2
      <4> HIDE DEF bytes, oldBytes, m, old
      <4> QED
        BY <4>1
    <3> QED
      BY <2>2, <3>3, <3>4
  <2> QED
    BY <2>1, <2>2, <2>3, CountTally
<1>4. ASSUME NEW p \in Proc, Talk(p) PROVE CountInv'
  <2>1. UNCHANGED <<round, members, done, tests, metrics>>
    BY <1>4 DEF Talk, PreparationsDone, Begin, Goto, rounds, R!Prepare
  <2> QED
    BY <1>1, <2>1 DEF metrics, histories
<1>5. CASE StartWork /\ UNCHANGED <<tests, writable, server, metrics>>
  BY <1>1, <1>5 DEF StartWork, R!Start, metrics, histories
<1>6. CASE Open \/ Report \/ UNCHANGED vars
  BY <1>1, <1>6 DEF Open, Report, vars, workers, rounds, metrics, histories
<1>7. CASE Flush \/ FlushFails \/ NoFile \/ Crash
  <2>1. NewRound /\ Team' = {}
    BY <1>0, <1>7, AdvanceOK, RestartOK DEF Flush, FlushFails, NoFile, NextTest, Crash
  <2> QED
    BY <2>1, EmptyTally
<1> QED
  BY <1>2, <1>3, <1>4, <1>5, <1>6, <1>7, TakeTally, AnswerTally DEF Next

LEMMA InitTally == Init => CountInv
<1> SUFFICES ASSUME Init PROVE CountInv
  OBVIOUS
<1>1. before = [p \in Proc |-> Nothing] /\ did = [p \in Proc |-> Idle] /\ result = NoResults /\ members = {}
  BY DEF Init, WorkersInit, R!Init
<1>2. before \in [Proc -> Numbers] /\ did \in [Proc -> Doings] /\ DOMAIN result = Proc
  BY <1>1, NothingType DEF Idle, Doings, NoResults
<1>3. Team = {}
  BY <1>1 DEF Team
<1> QED
  BY <1>2, <1>3 DEF CountInv, TallyInv

(***************************************************************************)
(* Whose names the counters have.                                          *)
(***************************************************************************)

\* A step that hands out nothing and counts nothing.
LEMMA SameJoined ==
  ASSUME RInv, JoinedInv, UNCHANGED <<restarts, tests, counters, before>>,
         used \subseteq used', Team' \subseteq Team,
         \A p \in Proc : at'[p] # "idle" => at[p] # "idle" /\ task'[p] = task[p]
  PROVE  JoinedInv'
<1> SUFFICES ASSUME restarts = 0, OwnNames
             PROVE  /\ \A p \in Proc : at'[p] # "idle" => <<task'[p], p>> \in used'
                    /\ \A p \in Proc, t \in 1..NumTests : counters[p][tests[t].name] # Nothing => <<t, p>> \in used'
                    /\ \A p \in Team' : before[p] = Nothing
  BY DEF JoinedInv, OwnNames, Fresh
<1> QED
  BY DEF JoinedInv, Fresh

LEMMA TakeJoined ==
  ASSUME RInv, CountInv, JoinedInv, NEW p \in Proc, Take(p)
  PROVE  JoinedInv'
<1>0. WorkersOK /\ TeamInv
  BY DEF RInv, TypeOK
<1>1. /\ round \in 1..NumTests /\ p \notin Team /\ Team' = Team \cup {p} /\ Team \subseteq Proc
      /\ at' = [at EXCEPT ![p] = "prepare"] /\ task' = [task EXCEPT ![p] = round]
      /\ used' = used \cup {<<round, p>>} /\ UNCHANGED <<restarts, tests, counters>>
      /\ before' = [before EXCEPT ![p] = counters[p][tests[round].name]]
  BY <1>0, JoinStep, TeamType DEF Take
<1>2. <<round, p>> \notin used
  BY DEF Take, Join, R!Join
<1> SUFFICES ASSUME restarts = 0, OwnNames
             PROVE  /\ \A q \in Proc : at'[q] # "idle" => <<task'[q], q>> \in used'
                    /\ \A q \in Proc, t \in 1..NumTests : counters[q][tests[t].name] # Nothing => <<t, q>> \in used'
                    /\ \A q \in Team' : before'[q] = Nothing
  BY <1>1 DEF JoinedInv, OwnNames, Fresh
<1>3. counters[p][tests[round].name] = Nothing
  BY <1>1, <1>2 DEF JoinedInv
<1>4. \A q \in Team' : before'[q] = Nothing
  BY <1>1, <1>3 DEF JoinedInv, Fresh, CountInv, TallyInv
<1>5. \A q \in Proc : at'[q] # "idle" => <<task'[q], q>> \in used'
  BY <1>0, <1>1 DEF JoinedInv, WorkersOK
<1> QED
  BY <1>1, <1>4, <1>5 DEF JoinedInv

\* What is counted is under the name of one's test, which one has joined.
LEMMA CountJoined ==
  ASSUME RInv, JoinedInv, NEW p \in Proc, NEW c \in Numbers, Count(p, c), at[p] # "idle"
  PROVE  JoinedInv'
<1>0. /\ WorkersOK /\ counters \in [Proc -> [Names -> Numbers]] /\ tests \in Benchmarks
      /\ NameOf(p) \in Names /\ task[p] \in 1..NumTests
  BY TaskType DEF RInv, TypeOK, ResultsInv, WorkersOK
<1>1. UNCHANGED <<workers, tests, before>> /\ counters' = [counters EXCEPT ![p][NameOf(p)] = c]
  BY DEF Count
<1>2. UNCHANGED <<restarts, used, at, task, members>> /\ Team' = Team
  BY <1>1 DEF workers, rounds, process, Team
<1> SUFFICES ASSUME restarts = 0, OwnNames
             PROVE  /\ \A q \in Proc : at[q] # "idle" => <<task[q], q>> \in used
                    /\ \A q \in Proc, t \in 1..NumTests : counters'[q][tests[t].name] # Nothing => <<t, q>> \in used
                    /\ \A q \in Team : before[q] = Nothing
  BY <1>1, <1>2 DEF JoinedInv, OwnNames, Fresh
<1>3. ASSUME NEW q \in Proc, NEW t \in 1..NumTests, counters'[q][tests[t].name] # Nothing
      PROVE  <<t, q>> \in used
  <2>1. CASE q = p /\ tests[t].name = NameOf(p)
    <3>1. t = task[p]
      BY <1>0, <2>1 DEF OwnNames, NameOf
    <3> QED
      BY <2>1, <3>1 DEF JoinedInv
  <2>2. CASE ~(q = p /\ tests[t].name = NameOf(p))
    <3>1. tests[t].name \in Names
      BY <1>0 DEF Names
    <3>2. counters'[q][tests[t].name] = counters[q][tests[t].name]
      BY <1>0, <1>1, <2>2, <3>1
    <3> QED
      BY <1>3, <3>2 DEF JoinedInv
  <2> QED
    BY <2>1, <2>2
<1> QED
  BY <1>3 DEF JoinedInv, Fresh

LEMMA JoinedStep == RInv /\ CountInv /\ JoinedInv /\ [Next]_vars => JoinedInv'
<1> SUFFICES ASSUME RInv, CountInv, JoinedInv, [Next]_vars PROVE JoinedInv'
  OBVIOUS
<1>0. TypeOK /\ WorkersOK /\ TeamInv
  BY DEF RInv, TypeOK
<1>1. ASSUME NEW p \in Proc, Put(p) \/ Operate(p) PROVE JoinedInv'
  <2>1. at[p] # "idle" /\ \E c \in Numbers : Count(p, c)
    BY <1>1, PutStep, OperateStep
  <2> QED
    BY <2>1, CountJoined
<1>2. ASSUME NEW p \in Proc, Answer(p) \/ Talk(p) PROVE JoinedInv'
  <2>1. UNCHANGED <<restarts, tests, counters, before, used, members, task>> /\ at[p] # "idle"
    BY <1>2 DEF Answer, WorkDone, Talk, PreparationsDone, Begin, Goto, rounds, R!Prepare, R!Finish, metrics, histories
  <2>2. \A q \in Proc : at'[q] # "idle" => at[q] # "idle"
    BY <1>0, <1>2, <2>1 DEF Answer, WorkDone, Talk, PreparationsDone, Begin, Goto, WorkersOK
  <2>3. Team' = Team
    BY <2>1 DEF Team
  <2> QED
    BY <2>1, <2>2, <2>3, SameJoined
<1>3. CASE (StartWork /\ UNCHANGED <<tests, writable, server, metrics>>) \/ Open \/ Report \/ UNCHANGED vars
  <2>1. UNCHANGED <<restarts, tests, counters, before, used, members, task, at>>
    BY <1>3 DEF StartWork, R!Start, Open, Report, vars, workers, rounds, process, metrics, histories
  <2>2. Team' = Team
    BY <2>1 DEF Team
  <2> QED
    BY <2>1, <2>2, SameJoined
<1>4. CASE Flush \/ FlushFails \/ NoFile
  <2>1. UNCHANGED <<restarts, tests, counters, used, task, at>> /\ Team' = {} /\ NewRound
    BY <1>0, <1>4, AdvanceOK DEF Flush, FlushFails, NoFile, NextTest, Advance, R!Advance, process
  <2> SUFFICES ASSUME restarts = 0, OwnNames
               PROVE  /\ \A q \in Proc : at[q] # "idle" => <<task[q], q>> \in used
                      /\ \A q \in Proc, t \in 1..NumTests : counters[q][tests[t].name] # Nothing => <<t, q>> \in used
    BY <2>1 DEF JoinedInv, OwnNames
  <2> QED
    BY DEF JoinedInv
<1>5. CASE Crash
  <2>1. restarts' # 0
    BY <1>0, <1>5 DEF Crash, Restart, WorkersOK
  <2> QED
    BY <2>1 DEF JoinedInv
<1> QED
  BY <1>1, <1>2, <1>3, <1>4, <1>5, TakeJoined DEF Next

LEMMA InitJoined == Init => JoinedInv
<1> SUFFICES ASSUME Init PROVE JoinedInv
  OBVIOUS
<1>1. /\ at = [p \in Proc |-> "idle"] /\ members = {}
      /\ counters = [p \in Proc |-> [n \in Names |-> Nothing]] /\ tests \in Benchmarks
  BY DEF Init, WorkersInit, R!Init
<1>2. \A t \in 1..NumTests : tests[t].name \in Names
  BY <1>1 DEF Names
<1>3. Team = {}
  BY <1>1 DEF Team
<1> QED
  BY <1>1, <1>2, <1>3 DEF JoinedInv

(***************************************************************************)
(* The samples of the members.                                             *)
(***************************************************************************)

\* One more call leaves a histogram between two calls, whether it is in it or not.
LEMMA BetweenGrows ==
  ASSUME NEW g \in Samples, NEW times \in SUBSET Nat, NEW d \in Nat, Between(g, times)
  PROVE  Between(g, times \cup {d}) /\ Between(Observe(g, d), times \cup {d})
<1>1. ASSUME NEW n \in Nat, NEW s \in Nat, NEW lo \in Nat, NEW k \in Nat, n * lo <= s, k <= lo, k <= d
      PROVE  (n + 1) * k <= s + d
  <2>1. n * k <= n * lo
    BY <1>1
  <2>2. (n + 1) * k = n * k + k /\ n * k \in Nat /\ n * lo \in Nat
    BY <1>1
  <2> QED
    BY <1>1, <2>1, <2>2
<1>2. ASSUME NEW n \in Nat, NEW s \in Nat, NEW hi \in Nat, NEW k \in Nat, s <= n * hi, hi <= k, d <= k
      PROVE  s + d <= (n + 1) * k
  <2>1. n * hi <= n * k
    BY <1>2
  <2>2. (n + 1) * k = n * k + k /\ n * k \in Nat /\ n * hi \in Nat
    BY <1>2
  <2> QED
    BY <1>2, <2>1, <2>2
<1>3. Observe(g, d).n = g.n + 1 /\ Observe(g, d).sum = g.sum + d /\ g.n \in Nat /\ g.sum \in Nat
  BY DEF Observe, Samples
<1>4. g.n + 1 # 0
  BY <1>3
<1>5. CASE g.n = 0
  <2>1. g.sum = 0 /\ Between(g, times \cup {d})
    BY <1>5 DEF Between
  <2>2. (g.n + 1) * d <= g.sum + d /\ g.sum + d <= (g.n + 1) * d
    BY <1>5, <2>1
  <2> QED
    BY <1>3, <1>4, <2>1, <2>2 DEF Between
<1>6. CASE g.n # 0
  <2>1. PICK lo, hi \in times : g.n * lo <= g.sum /\ g.sum <= g.n * hi
    BY <1>6 DEF Between
  <2>2. Between(g, times \cup {d})
    BY <1>6, <2>1 DEF Between
  <2>3. PICK k \in {lo, d} : k <= lo /\ k <= d
    BY <2>1
  <2>4. PICK l \in {hi, d} : hi <= l /\ d <= l
    BY <2>1
  <2>5. (g.n + 1) * k <= g.sum + d
    BY <1>1, <1>3, <2>1, <2>3
  <2>6. g.sum + d <= (g.n + 1) * l
    BY <1>2, <1>3, <2>1, <2>4
  <2> QED
    BY <1>3, <1>4, <2>1, <2>2, <2>3, <2>4, <2>5, <2>6 DEF Between
<1> QED
  BY <1>5, <1>6

LEMMA SampleBetween ==
  ASSUME NEW old \in Numbers, NEW c \in Numbers, NEW e \in Doings, NEW d \in Nat, NEW h \in Histogram,
         c[h] = old[h] \/ c[h] = Observe(old[h], d), Between(old[h], e.times)
  PROVE  Between(c[h], e.times \cup {d})
<1>1. old[h] \in Samples /\ e.times \in SUBSET Nat
  BY DEF Numbers, Histogram, Doings
<1> QED
  BY <1>1, BetweenGrows

\* What an operation changes are its process's own samples.
LEMMA CountSamples ==
  ASSUME RInv, CountInv, SamplesInv, NEW p \in Proc, NEW c \in Numbers, NEW e \in Doings, Count(p, c),
         did' = [did EXCEPT ![p] = e],
         \A h \in Histogram : Between(counters[p][NameOf(p)][h], did[p].times) => Between(c[h], e.times)
  PROVE  SamplesInv'
<1>0. TypeOK /\ TeamInv /\ TallyInv /\ counters \in [Proc -> [Names -> Numbers]] /\ NameOf(p) \in Names
  BY TaskType DEF RInv, ResultsInv, CountInv
<1>1. UNCHANGED <<workers, tests, before>> /\ counters' = [counters EXCEPT ![p][NameOf(p)] = c]
  BY DEF Count
<1>2. Team' = Team /\ round' = round
  BY <1>1 DEF workers, rounds, Team
<1>3. ASSUME NEW q \in Team, Fresh(q)', NEW h \in Histogram
      PROVE  Between(Own(q)'[h], did'[q].times)
  <2>0. q \in Proc /\ NameOf(q) = tests[round].name /\ tests[round].name \in Names /\ Fresh(q)
    BY <1>0, <1>1, <1>3, MemberType DEF Fresh
  <2>1. CASE q # p
    <3>1. Own(q)' = Own(q) /\ did'[q] = did[q]
      BY <1>0, <1>1, <1>2, <2>0, <2>1 DEF Own, TallyInv
    <3> QED
      BY <1>3, <2>0, <3>1 DEF SamplesInv
  <2>2. CASE q = p
    <3>1. Own(q) = counters[p][NameOf(p)] /\ Own(q)' = c /\ did'[q] = e
      BY <1>0, <1>1, <1>2, <2>0, <2>2 DEF Own, TallyInv
    <3>2. Between(Own(q)[h], did[q].times)
      BY <1>3, <2>0, <2>2 DEF SamplesInv
    <3> QED
      BY <1>3, <2>2, <3>1, <3>2
  <2> QED
    BY <2>1, <2>2
<1> QED
  BY <1>2, <1>3 DEF SamplesInv

LEMMA SamplesStep == RInv /\ CountInv /\ SamplesInv /\ [Next]_vars => SamplesInv'
<1> SUFFICES ASSUME RInv, CountInv, SamplesInv, [Next]_vars PROVE SamplesInv'
  OBVIOUS
<1>0. TypeOK /\ WorkersOK /\ TeamInv /\ TallyInv /\ counters \in [Proc -> [Names -> Numbers]]
  BY DEF RInv, TypeOK, ResultsInv, CountInv
<1>1. ASSUME UNCHANGED <<round, members, tests, counters, before, did>> PROVE SamplesInv'
  <2>1. Team' = Team
    BY <1>1 DEF Team
  <2> QED
    BY <1>1, <2>1 DEF SamplesInv, Own, Fresh
<1>2. ASSUME NEW p \in Proc, Take(p) PROVE SamplesInv'
  <2>1. /\ round \in 1..NumTests /\ p \notin Team /\ Team' = Team \cup {p} /\ UNCHANGED <<round, tests, counters>>
        /\ before' = [before EXCEPT ![p] = counters[p][tests[round].name]] /\ did' = [did EXCEPT ![p] = Idle]
    BY <1>0, <1>2, JoinStep DEF Take
  <2>2. ASSUME NEW q \in Team', Fresh(q)', NEW h \in Histogram
        PROVE  Between(Own(q)'[h], did'[q].times)
    <3>1. Own(q)' = Own(q)
      BY <2>1 DEF Own
    <3>2. CASE q # p
      <4>1. q \in Team /\ before'[q] = before[q] /\ did'[q] = did[q]
        BY <1>0, <2>1, <3>2 DEF TallyInv
      <4> QED
        BY <2>2, <3>1, <4>1 DEF SamplesInv, Fresh
    <3>3. CASE q = p
      <4>1. before'[q] = Own(q)
        BY <1>0, <2>1, <3>3 DEF TallyInv, Own
      <4>2. Own(q)[h].n = 0 /\ Own(q)[h].sum = 0
        BY <2>2, <4>1 DEF Fresh, Nothing, NoSamples, Histogram
      <4> QED
        BY <3>1, <4>2 DEF Between
    <3> QED
      BY <3>2, <3>3
  <2> QED
    BY <2>2 DEF SamplesInv
<1>3. ASSUME NEW p \in Proc, Put(p) PROVE SamplesInv'
  <2> DEFINE old == counters[p][NameOf(p)]
  <2>1. PICK c \in Numbers, d \in Nat :
          /\ Count(p, c) /\ old \in Numbers
          /\ \A h \in Histogram : c[h] = old[h] \/ c[h] = Observe(old[h], d)
          /\ did' = [did EXCEPT ![p].times = @ \cup {d}]
    BY <1>3, PutStep
  <2> DEFINE e == [did[p] EXCEPT !.times = @ \cup {d}]
  <2>2. /\ did[p] \in Doings /\ e \in Doings /\ e.times = did[p].times \cup {d}
        /\ did' = [did EXCEPT ![p] = e]
    BY <1>0, <2>1 DEF TallyInv, Doings
  <2> HIDE DEF e
  <2>3. ASSUME NEW h \in Histogram, Between(old[h], did[p].times) PROVE Between(c[h], e.times)
    <3> HIDE DEF old
    <3>1. Between(c[h], did[p].times \cup {d})
      BY <2>1, <2>2, <2>3, SampleBetween
    <3> QED
      BY <2>2, <3>1
  <2> QED
    BY <2>1, <2>2, <2>3, CountSamples
<1>4. ASSUME NEW p \in Proc, Operate(p) PROVE SamplesInv'
  <2> DEFINE old == counters[p][NameOf(p)]
  <2>1. PICK c \in Numbers, b \in {0, 1}, failed \in {0, 1}, d \in Nat :
          /\ Count(p, c) /\ old \in Numbers
          /\ \A h \in Histogram : c[h] = old[h] \/ c[h] = Observe(old[h], d)
          /\ did' = [did EXCEPT ![p] =
               [n |-> @.n + 1, failed |-> @.failed + failed, bytes |-> @.bytes + b,
                times |-> @.times \cup {d}]]
    BY <1>4, OperateStep
  <2> DEFINE e == [n |-> did[p].n + 1, failed |-> did[p].failed + failed, bytes |-> did[p].bytes + b,
                   times |-> did[p].times \cup {d}]
  <2>2. /\ did[p] \in Doings /\ e \in Doings /\ e.times = did[p].times \cup {d}
        /\ did' = [did EXCEPT ![p] = e]
    BY <1>0, <2>1 DEF TallyInv, Doings
  <2> HIDE DEF e
  <2>3. ASSUME NEW h \in Histogram, Between(old[h], did[p].times) PROVE Between(c[h], e.times)
    <3> HIDE DEF old
    <3>1. Between(c[h], did[p].times \cup {d})
      BY <2>1, <2>2, <2>3, SampleBetween
    <3> QED
      BY <2>2, <3>1
  <2> QED
    BY <2>1, <2>2, <2>3, CountSamples
<1>5. ASSUME NEW p \in Proc, Answer(p) \/ Talk(p) PROVE SamplesInv'
  <2>1. UNCHANGED <<round, members, tests, counters, before, did>>
    BY <1>5 DEF Answer, WorkDone, R!Finish, rounds, Talk, PreparationsDone, Begin, Goto, R!Prepare, metrics, histories
  <2> QED
    BY <1>1, <2>1
<1>6. CASE StartWork /\ UNCHANGED <<tests, writable, server, metrics>>
  BY <1>1, <1>6 DEF StartWork, R!Start, metrics, histories
<1>7. CASE Open \/ Report \/ UNCHANGED vars
  BY <1>1, <1>7 DEF Open, Report, vars, workers, rounds, metrics, histories
<1>8. CASE Flush \/ FlushFails \/ NoFile \/ Crash
  <2>1. Team' = {}
    BY <1>0, <1>8, AdvanceOK, RestartOK DEF Flush, FlushFails, NoFile, NextTest, Crash
  <2> QED
    BY <2>1 DEF SamplesInv
<1> QED
  BY <1>2, <1>3, <1>4, <1>5, <1>6, <1>7, <1>8 DEF Next

LEMMA InitSamples == Init => SamplesInv
<1> SUFFICES ASSUME Init PROVE SamplesInv
  OBVIOUS
<1>1. Team = {}
  BY DEF Init, WorkersInit, R!Init, Team
<1> QED
  BY <1>1 DEF SamplesInv

(***************************************************************************)
(* Sums over a finite set do not depend on the order in which they are     *)
(* taken.                                                                  *)
(***************************************************************************)

Total(g, T) == MapThenSumSet(LAMBDA p : g[p], T)

\* The element that is taken next, and the rest of the sum.
Choice(s) == CHOOSE x \in s : TRUE
Branch(g, I, s) == IF s = {} THEN 0 ELSE g[Choice(s)] + I[s \ {Choice(s)}]
Small(T, n) == {s \in SUBSET T : Cardinality(s) <= n}

\* A property of subsets that some do not have is missed first by one of which
\* every part has it.
LEMMA FirstSubset ==
  ASSUME NEW T, IsFiniteSet(T), NEW Bad, Bad \subseteq SUBSET T, Bad # {}
  PROVE  \E s \in Bad : \A x \in s : s \ {x} \notin Bad
<1> DEFINE Sizes == {Cardinality(s) : s \in Bad}
<1>1. \A s \in Bad : IsFiniteSet(s) /\ Cardinality(s) \in Nat
  BY FS_Subset, FS_CardinalityType
<1>2. PICK n \in Sizes : \A m \in Sizes : n <= m
  <2>1. Sizes \subseteq Nat /\ Sizes # {}
    BY <1>1
  <2> QED
    BY <2>1, LeastOf
<1>3. PICK s \in Bad : Cardinality(s) = n
  BY <1>2
<1>4. ASSUME NEW x \in s, s \ {x} \in Bad PROVE FALSE
  <2>1. Cardinality(s \ {x}) = Cardinality(s) - 1
    BY <1>1, FS_RemoveElement
  <2>2. n <= Cardinality(s \ {x})
    BY <1>2, <1>4
  <2> QED
    BY <1>1, <1>3, <2>1, <2>2
<1> QED
  BY <1>4

\* The recursion of a sum has a solution for the subsets up to a size, ...
LEMMA SmallSums ==
  ASSUME NEW T, IsFiniteSet(T), NEW g \in [T -> Int], NEW n \in Nat
  PROVE  \E I \in [Small(T, n) -> Int] : \A s \in Small(T, n) : I[s] = Branch(g, I, s)
<1> DEFINE Solved(k) == \E I \in [Small(T, k) -> Int] : \A s \in Small(T, k) : I[s] = Branch(g, I, s)
           Bad == {k \in Nat : ~Solved(k)}
<1>0. \A s \in SUBSET T : IsFiniteSet(s) /\ Cardinality(s) \in Nat
  BY FS_Subset, FS_CardinalityType
<1>1. Solved(0)
  <2> DEFINE I == [s \in Small(T, 0) |-> 0]
  <2>1. \A s \in Small(T, 0) : s = {}
    <3>1. ASSUME NEW s \in Small(T, 0) PROVE s = {}
      <4>1. IsFiniteSet(s) /\ Cardinality(s) = 0
        BY <1>0 DEF Small
      <4> QED
        BY <4>1, FS_EmptySet
    <3> QED
      BY <3>1
  <2>2. \A s \in Small(T, 0) : I[s] = Branch(g, I, s)
    BY <2>1 DEF Branch
  <2>3. I \in [Small(T, 0) -> Int]
    OBVIOUS
  <2> QED
    BY <2>2, <2>3
<1>2. ASSUME NEW k \in Nat, Solved(k) PROVE Solved(k + 1)
  <2>1. PICK I \in [Small(T, k) -> Int] : \A s \in Small(T, k) : I[s] = Branch(g, I, s)
    BY <1>2
  <2> DEFINE J == [s \in Small(T, k + 1) |-> Branch(g, I, s)]
  <2>2. ASSUME NEW s \in Small(T, k + 1), s # {}
        PROVE  Choice(s) \in T /\ s \ {Choice(s)} \in Small(T, k) /\ s \ {Choice(s)} \in Small(T, k + 1)
    <3>1. Choice(s) \in s
      BY <2>2 DEF Choice
    <3>2. Cardinality(s \ {Choice(s)}) = Cardinality(s) - 1 /\ Cardinality(s) <= k + 1 /\ Cardinality(s) \in Nat
      BY <1>0, <3>1, FS_RemoveElement DEF Small
    <3>3. Cardinality(s \ {Choice(s)}) <= k /\ Cardinality(s \ {Choice(s)}) <= k + 1
      BY <3>2
    <3> QED
      BY <3>1, <3>3 DEF Small
  <2>3. ASSUME NEW s \in Small(T, k + 1) PROVE J[s] \in Int /\ J[s] = Branch(g, J, s)
    <3>1. CASE s = {}
      BY <3>1 DEF Branch
    <3>2. CASE s # {}
      <4> DEFINE u == s \ {Choice(s)}
      <4>1. J[u] = I[u] /\ I[u] \in Int /\ g[Choice(s)] \in Int
        BY <2>1, <2>2, <3>2
      <4> HIDE DEF u
      <4>2. J[s] = g[Choice(s)] + I[u] /\ Branch(g, J, s) = g[Choice(s)] + J[u]
        BY <3>2 DEF Branch, u
      <4> HIDE DEF J
      <4> QED
        BY <4>1, <4>2
    <3> QED
      BY <3>1, <3>2
  <2>4. J \in [Small(T, k + 1) -> Int]
    BY <2>3
  <2> QED
    BY <2>3, <2>4
<1>3. Bad = {}
  <2>1. SUFFICES ASSUME Bad # {} PROVE FALSE
    OBVIOUS
  <2>2. PICK k \in Bad : \A j \in Bad : k <= j
    <3>1. Bad \subseteq Nat
      OBVIOUS
    <3> HIDE DEF Bad
    <3> QED
      BY <2>1, <3>1, LeastOf
  <2>3. k \in Nat /\ k # 0
    BY <1>1, <2>2
  <2>4. k - 1 \in Nat /\ (k - 1) + 1 = k /\ ~(k <= k - 1)
    BY <2>3
  <2>5. Solved(k - 1)
    BY <2>2, <2>4
  <2> HIDE DEF Solved
  <2> QED
    BY <1>2, <2>2, <2>4, <2>5
<1> QED
  BY <1>3

\* ... and so one for all of them, which the sum takes.
LEMMA Sums ==
  ASSUME NEW T, IsFiniteSet(T), NEW g \in [T -> Int]
  PROVE  \E I \in [SUBSET T -> Int] :
           /\ \A s \in SUBSET T : I[s] = Branch(g, I, s)
           /\ Total(g, T) = I[T]
<1> DEFINE P(K) == K = [s \in SUBSET T |-> IF s = {} THEN 0 ELSE g[Choice(s)] + K[s \ {Choice(s)}]]
<1>1. Cardinality(T) \in Nat /\ \A s \in SUBSET T : Cardinality(s) <= Cardinality(T)
  BY FS_Subset, FS_CardinalityType
<1>2. Small(T, Cardinality(T)) = SUBSET T
  BY <1>1 DEF Small
<1>3. PICK I \in [SUBSET T -> Int] : \A s \in SUBSET T : I[s] = Branch(g, I, s)
  <2>1. \E I \in [Small(T, Cardinality(T)) -> Int] : \A s \in Small(T, Cardinality(T)) : I[s] = Branch(g, I, s)
    BY <1>1, SmallSums
  <2> QED
    BY <1>2, <2>1
<1>4. P(I)
  BY <1>3 DEF Branch
<1>5. Total(g, T) = (CHOOSE K : P(K))[T]
  BY DEF MapThenSumSet, MapThenFoldSet, Choice, Total
<1>6. PICK K : P(K) /\ Total(g, T) = K[T]
  <2> HIDE DEF P
  <2> QED
    BY <1>4, <1>5
<1>7. \A s \in SUBSET T : K[s] = I[s]
  <2> DEFINE Bad == {s \in SUBSET T : K[s] # I[s]}
  <2>1. SUFFICES ASSUME Bad # {} PROVE FALSE
    OBVIOUS
  <2>2. PICK s \in Bad : \A x \in s : s \ {x} \notin Bad
    <3>1. Bad \subseteq SUBSET T
      OBVIOUS
    <3> HIDE DEF Bad
    <3> QED
      BY <2>1, <3>1, FirstSubset
  <2>3. s \in SUBSET T /\ K[s] = Branch(g, K, s) /\ I[s] = Branch(g, I, s)
    BY <1>3, <1>6, <2>2 DEF Branch
  <2>4. s # {}
    BY <2>2, <2>3 DEF Branch
  <2>5. Choice(s) \in s
    BY <2>4 DEF Choice
  <2>6. K[s \ {Choice(s)}] = I[s \ {Choice(s)}]
    BY <2>2, <2>3, <2>5
  <2> QED
    BY <2>2, <2>3, <2>6 DEF Branch
<1> QED
  BY <1>3, <1>6, <1>7

\* Sums are numbers, and compare and add as their terms do.
LEMMA TotalType ==
  ASSUME NEW T, IsFiniteSet(T), NEW g \in [T -> Int]
  PROVE  Total(g, T) \in Int
<1>1. PICK I \in [SUBSET T -> Int] : Total(g, T) = I[T]
  BY Sums
<1> QED
  BY <1>1

LEMMA TotalAdd ==
  ASSUME NEW T, IsFiniteSet(T), NEW f \in [T -> Int], NEW g \in [T -> Int], NEW h \in [T -> Int],
         \A p \in T : h[p] = f[p] + g[p]
  PROVE  Total(h, T) = Total(f, T) + Total(g, T)
<1>1. PICK F \in [SUBSET T -> Int] : (\A s \in SUBSET T : F[s] = Branch(f, F, s)) /\ Total(f, T) = F[T]
  BY Sums
<1>2. PICK G \in [SUBSET T -> Int] : (\A s \in SUBSET T : G[s] = Branch(g, G, s)) /\ Total(g, T) = G[T]
  BY Sums
<1>3. PICK H \in [SUBSET T -> Int] : (\A s \in SUBSET T : H[s] = Branch(h, H, s)) /\ Total(h, T) = H[T]
  BY Sums
<1> DEFINE Bad == {s \in SUBSET T : H[s] # F[s] + G[s]}
<1>4. ASSUME Bad # {} PROVE FALSE
  <2>1. PICK s \in Bad : \A x \in s : s \ {x} \notin Bad
    <3>1. Bad \subseteq SUBSET T
      OBVIOUS
    <3> HIDE DEF Bad
    <3> QED
      BY <1>4, <3>1, FirstSubset
  <2>2. s \in SUBSET T /\ F[s] = Branch(f, F, s) /\ G[s] = Branch(g, G, s) /\ H[s] = Branch(h, H, s)
    BY <1>1, <1>2, <1>3, <2>1
  <2>3. s # {}
    BY <2>1, <2>2 DEF Branch
  <2> DEFINE x == Choice(s)
             u == s \ {x}
  <2>4. x \in s /\ x \in T /\ u \in SUBSET T
    BY <2>2, <2>3 DEF Choice
  <2>5. F[s] = f[x] + F[u] /\ G[s] = g[x] + G[u] /\ H[s] = h[x] + H[u]
    BY <2>2, <2>3 DEF Branch
  <2>6. H[u] = F[u] + G[u]
    BY <2>1, <2>4
  <2> HIDE DEF x, u
  <2>7. f[x] \in Int /\ g[x] \in Int /\ F[u] \in Int /\ G[u] \in Int /\ h[x] = f[x] + g[x]
    BY <2>4
  <2> QED
    BY <2>1, <2>5, <2>6, <2>7
<1> QED
  BY <1>1, <1>2, <1>3, <1>4

LEMMA TotalMonotone ==
  ASSUME NEW T, IsFiniteSet(T), NEW f \in [T -> Int], NEW g \in [T -> Int], \A p \in T : f[p] <= g[p]
  PROVE  Total(f, T) <= Total(g, T)
<1>1. PICK F \in [SUBSET T -> Int] : (\A s \in SUBSET T : F[s] = Branch(f, F, s)) /\ Total(f, T) = F[T]
  BY Sums
<1>2. PICK G \in [SUBSET T -> Int] : (\A s \in SUBSET T : G[s] = Branch(g, G, s)) /\ Total(g, T) = G[T]
  BY Sums
<1> DEFINE Bad == {s \in SUBSET T : ~(F[s] <= G[s])}
<1>3. ASSUME Bad # {} PROVE FALSE
  <2>1. PICK s \in Bad : \A x \in s : s \ {x} \notin Bad
    <3>1. Bad \subseteq SUBSET T
      OBVIOUS
    <3> HIDE DEF Bad
    <3> QED
      BY <1>3, <3>1, FirstSubset
  <2>2. s \in SUBSET T /\ F[s] = Branch(f, F, s) /\ G[s] = Branch(g, G, s)
    BY <1>1, <1>2, <2>1
  <2>3. s # {}
    BY <2>1, <2>2 DEF Branch
  <2> DEFINE x == Choice(s)
             u == s \ {x}
  <2>4. x \in s /\ x \in T /\ u \in SUBSET T
    BY <2>2, <2>3 DEF Choice
  <2>5. F[s] = f[x] + F[u] /\ G[s] = g[x] + G[u]
    BY <2>2, <2>3 DEF Branch
  <2>6. F[u] <= G[u]
    BY <2>1, <2>4
  <2> HIDE DEF x, u
  <2>7. f[x] \in Int /\ g[x] \in Int /\ F[u] \in Int /\ G[u] \in Int /\ f[x] <= g[x]
    BY <2>4
  <2> QED
    BY <2>1, <2>5, <2>6, <2>7
<1> QED
  BY <1>1, <1>2, <1>3

\* A sum over a field.
LEMMA FieldTotal ==
  ASSUME NEW T, NEW r, NEW k
  PROVE  MapThenSumSet(LAMBDA p : r[p][k], T) = Total([p \in T |-> r[p][k]], T)
<1> DEFINE g == [p \in T |-> r[p][k]]
           P(K) == K = [s \in SUBSET T |-> IF s = {} THEN 0 ELSE r[Choice(s)][k] + K[s \ {Choice(s)}]]
           Q(K) == K = [s \in SUBSET T |-> IF s = {} THEN 0 ELSE g[Choice(s)] + K[s \ {Choice(s)}]]
<1>1. MapThenSumSet(LAMBDA p : r[p][k], T) = (CHOOSE K : P(K))[T]
  BY DEF MapThenSumSet, MapThenFoldSet, Choice
<1>2. Total(g, T) = (CHOOSE K : Q(K))[T]
  BY DEF MapThenSumSet, MapThenFoldSet, Choice, Total
<1>3. ASSUME NEW K PROVE P(K) <=> Q(K)
  <2>1. \A s \in SUBSET T : s # {} => Choice(s) \in T
    BY DEF Choice
  <2>2. \A s \in SUBSET T : s # {} => r[Choice(s)][k] = g[Choice(s)]
    BY <2>1
  <2> HIDE DEF g
  <2>3. [s \in SUBSET T |-> IF s = {} THEN 0 ELSE r[Choice(s)][k] + K[s \ {Choice(s)}]]
          = [s \in SUBSET T |-> IF s = {} THEN 0 ELSE g[Choice(s)] + K[s \ {Choice(s)}]]
    BY <2>2
  <2> QED
    BY <2>3
<1>4. (CHOOSE K : P(K)) = (CHOOSE K : Q(K))
  <2> HIDE DEF P, Q
  <2> QED
    BY <1>3
<1> HIDE DEF P, Q
<1> QED
  BY <1>1, <1>2, <1>4

LEMMA AverageTotal ==
  ASSUME NEW T, NEW r, NEW h
  PROVE  MapThenSumSet(LAMBDA p : r[p].avg[h], T) = Total([p \in T |-> r[p].avg[h]], T)
<1> DEFINE g == [p \in T |-> r[p].avg[h]]
           P(K) == K = [s \in SUBSET T |-> IF s = {} THEN 0 ELSE r[Choice(s)].avg[h] + K[s \ {Choice(s)}]]
           Q(K) == K = [s \in SUBSET T |-> IF s = {} THEN 0 ELSE g[Choice(s)] + K[s \ {Choice(s)}]]
<1>1. MapThenSumSet(LAMBDA p : r[p].avg[h], T) = (CHOOSE K : P(K))[T]
  BY DEF MapThenSumSet, MapThenFoldSet, Choice
<1>2. Total(g, T) = (CHOOSE K : Q(K))[T]
  BY DEF MapThenSumSet, MapThenFoldSet, Choice, Total
<1>3. ASSUME NEW K PROVE P(K) <=> Q(K)
  <2>1. \A s \in SUBSET T : s # {} => Choice(s) \in T
    BY DEF Choice
  <2>2. \A s \in SUBSET T : s # {} => r[Choice(s)].avg[h] = g[Choice(s)]
    BY <2>1
  <2> HIDE DEF g
  <2>3. [s \in SUBSET T |-> IF s = {} THEN 0 ELSE r[Choice(s)].avg[h] + K[s \ {Choice(s)}]]
          = [s \in SUBSET T |-> IF s = {} THEN 0 ELSE g[Choice(s)] + K[s \ {Choice(s)}]]
    BY <2>2
  <2> QED
    BY <2>3
<1>4. (CHOOSE K : P(K)) = (CHOOSE K : Q(K))
  <2> HIDE DEF P, Q
  <2> QED
    BY <1>3
<1> HIDE DEF P, Q
<1> QED
  BY <1>1, <1>2, <1>4

\* A sum of equal terms and zeros is a product.
LEMMA TotalConstant ==
  ASSUME NEW T, IsFiniteSet(T), NEW W, NEW k \in Int
  PROVE  Total([p \in T |-> IF p \in W THEN k ELSE 0], T) = Cardinality(T \cap W) * k
<1> DEFINE g == [p \in T |-> IF p \in W THEN k ELSE 0]
<1>0. g \in [T -> Int]
  OBVIOUS
<1>1. PICK I \in [SUBSET T -> Int] : (\A s \in SUBSET T : I[s] = Branch(g, I, s)) /\ Total(g, T) = I[T]
  BY <1>0, Sums
<1> DEFINE Bad == {s \in SUBSET T : I[s] # Cardinality(s \cap W) * k}
<1>2. ASSUME Bad # {} PROVE FALSE
  <2>1. PICK s \in Bad : \A x \in s : s \ {x} \notin Bad
    <3>1. Bad \subseteq SUBSET T
      OBVIOUS
    <3> HIDE DEF Bad
    <3> QED
      BY <1>2, <3>1, FirstSubset
  <2>2. s \in SUBSET T /\ I[s] = Branch(g, I, s)
    BY <1>1, <2>1
  <2>3. s # {}
    <3>1. Cardinality({}) * k = 0 /\ {} \cap W = {}
      BY FS_EmptySet
    <3> QED
      BY <2>1, <2>2, <3>1 DEF Branch
  <2> DEFINE x == Choice(s)
             u == s \ {x}
  <2>4. x \in s /\ x \in T /\ u \in SUBSET T
    BY <2>2, <2>3 DEF Choice
  <2>5. I[s] = g[x] + I[u] /\ g[x] = (IF x \in W THEN k ELSE 0)
    BY <2>2, <2>3, <2>4 DEF Branch
  <2>6. I[u] = Cardinality(u \cap W) * k
    BY <2>1, <2>4
  <2>7. I[s] # Cardinality(s \cap W) * k
    BY <2>1
  <2>8. IsFiniteSet(s \cap W) /\ Cardinality(s \cap W) \in Nat
    BY <2>2, FS_Subset, FS_CardinalityType
  <2>9. \A m \in Int : k + (m - 1) * k = m * k /\ 0 + m * k = m * k
    OBVIOUS
  <2>10. CASE x \in W
    <3>1. u \cap W = (s \cap W) \ {x} /\ x \in s \cap W
      BY <2>4, <2>10
    <3>2. Cardinality(u \cap W) = Cardinality(s \cap W) - 1
      <4> DEFINE v == s \cap W
      <4>1. IsFiniteSet(v) /\ x \in v
        BY <2>8, <3>1
      <4> HIDE DEF v, x
      <4>2. Cardinality(v \ {x}) = Cardinality(v) - 1
        BY <4>1, FS_RemoveElement
      <4> QED
        BY <3>1, <4>2 DEF v
    <3> HIDE DEF x, u, Bad, g
    <3> QED
      BY <2>5, <2>6, <2>7, <2>8, <2>9, <2>10, <3>2
  <2>11. CASE x \notin W
    <3>1. u \cap W = s \cap W
      BY <2>11
    <3>2. I[s] = 0 + I[u]
      BY <2>5, <2>11
    <3>3. I[u] = Cardinality(s \cap W) * k
      BY <2>6, <3>1
    <3>4. 0 + Cardinality(s \cap W) * k = Cardinality(s \cap W) * k
      BY <2>8
    <3> HIDE DEF x, u, Bad, g
    <3> QED
      BY <2>7, <3>2, <3>3, <3>4
  <2> QED
    BY <2>10, <2>11
<1> QED
  BY <1>1, <1>2

\* Of finitely many numbers one is the greatest.
LEMMA GreatestOf ==
  ASSUME NEW T, IsFiniteSet(T), T # {}, NEW f \in [T -> Nat]
  PROVE  \E p \in T : \A q \in T : f[q] <= f[p]
<1> DEFINE Bad == {s \in SUBSET T : s # {} /\ ~\E p \in s : \A q \in s : f[q] <= f[p]}
<1>1. SUFFICES ASSUME Bad # {} PROVE FALSE
  OBVIOUS
<1>2. PICK s \in Bad : \A x \in s : s \ {x} \notin Bad
  <2>1. Bad \subseteq SUBSET T
    OBVIOUS
  <2> HIDE DEF Bad
  <2> QED
    BY <1>1, <2>1, FirstSubset
<1>3. PICK x \in s : TRUE
  BY <1>2
<1>4. CASE s = {x}
  BY <1>2, <1>4
<1>5. CASE s # {x}
  <2>1. PICK p \in s \ {x} : \A q \in s \ {x} : f[q] <= f[p]
    BY <1>2, <1>3, <1>5
  <2>2. f[x] \in Nat /\ f[p] \in Nat /\ \A q \in s : f[q] \in Nat
    BY <1>2, <1>3, <2>1
  <2>3. CASE f[x] <= f[p]
    BY <1>2, <2>1, <2>3
  <2>4. CASE f[p] <= f[x]
    <3>1. \A q \in s : f[q] <= f[x]
      BY <2>1, <2>2, <2>4
    <3> QED
      BY <1>2, <1>3, <3>1
  <2> QED
    BY <2>2, <2>3, <2>4
<1> QED
  BY <1>4, <1>5

(***************************************************************************)
(* Averages.                                                               *)
(***************************************************************************)

\* A quotient lies where its dividend does.
LEMMA Quotient ==
  ASSUME NEW x \in Nat, NEW n \in Nat \ {0}, NEW a \in Nat, NEW b \in Nat, n * a <= x, x <= n * b
  PROVE  x \div n \in Nat /\ a <= x \div n /\ x \div n <= b
<1> DEFINE q == x \div n
           m == x % n
<1>1. q \in Int /\ m \in Int /\ x = n * q + m /\ 0 <= m /\ m < n
  OBVIOUS
<1> HIDE DEF q, m
<1>2. a <= q
  <2>1. SUFFICES ASSUME q + 1 <= a PROVE FALSE
    BY <1>1
  <2>2. n * (q + 1) <= n * a
    BY <1>1, <2>1
  <2>3. n * (q + 1) = n * q + n
    BY <1>1
  <2> QED
    BY <1>1, <2>2, <2>3
<1>3. q <= b
  <2>1. SUFFICES ASSUME b + 1 <= q PROVE FALSE
    BY <1>1
  <2>2. n * (b + 1) <= n * q
    BY <1>1, <2>1
  <2>3. n * (b + 1) = n * b + n
    OBVIOUS
  <2> QED
    BY <1>1, <2>2, <2>3
<1> QED
  BY <1>1, <1>2, <1>3 DEF q

LEMMA AverageBetween ==
  ASSUME NEW g \in Samples, NEW times \in SUBSET Nat, Between(g, times)
  PROVE  /\ Average(g) \in Int
         /\ Average(g) < 0 => Average(g) = -Scale
         /\ Average(g) >= 0 => \E lo, hi \in times : Scale * lo <= Average(g) /\ Average(g) <= Scale * hi
<1>0. Scale \in Nat \ {0} /\ g.n \in Nat /\ g.sum \in Nat
  BY ResultsAssumption DEF Samples
<1>1. CASE g.n = 0
  <2>1. Average(g) = -Scale
    BY <1>1 DEF Average, Without
  <2> QED
    BY <1>0, <2>1
<1>2. CASE g.n # 0
  <2>1. PICK lo, hi \in times : g.n * lo <= g.sum /\ g.sum <= g.n * hi
    BY <1>2 DEF Between
  <2>2. Average(g) = (g.sum * Scale) \div g.n
    BY <1>2 DEF Average
  <2>3. ASSUME NEW n \in Nat, NEW a \in Nat, NEW s \in Nat, NEW t \in Nat
        PROVE  (n * a <= s => n * (t * a) <= s * t) /\ (s <= n * a => s * t <= n * (t * a))
    <3>1. n * (t * a) = (n * a) * t
      OBVIOUS
    <3>2. ASSUME NEW x \in Nat, NEW y \in Nat, x <= y PROVE x * t <= y * t
      BY <3>2
    <3>3. n * a \in Nat
      OBVIOUS
    <3> QED
      BY <3>1, <3>2, <3>3
  <2>4. /\ g.sum * Scale \in Nat /\ Scale * lo \in Nat /\ Scale * hi \in Nat
        /\ g.n * (Scale * lo) <= g.sum * Scale /\ g.sum * Scale <= g.n * (Scale * hi)
    BY <1>0, <2>1, <2>3
  <2>5. Average(g) \in Nat /\ Scale * lo <= Average(g) /\ Average(g) <= Scale * hi
    BY <1>0, <1>2, <2>2, <2>4, Quotient, ZenonT(40)
  <2> QED
    BY <2>1, <2>5
<1> QED
  BY <1>1, <1>2

(***************************************************************************)
(* A row.                                                                  *)
(***************************************************************************)

LEMMA RowTotals ==
  /\ Row.fin = Total([p \in Team |-> result[p].fin], Team)
  /\ Row.fail = Total([p \in Team |-> result[p].fail], Team)
  /\ Row.bytes = Total([p \in Team |-> result[p].bytes], Team)
  /\ TeamSum(LAMBDA p : did[p].n) = Total([p \in Team |-> did[p].n], Team)
  /\ TeamSum(LAMBDA p : did[p].bytes) = Total([p \in Team |-> did[p].bytes], Team)
  /\ TeamSum(LAMBDA p : before[p].fin) = Total([p \in Team |-> before[p].fin], Team)
  /\ TeamSum(LAMBDA p : before[p].fail) = Total([p \in Team |-> before[p].fail], Team)
  /\ TeamSum(LAMBDA p : before[p].bytes) = Total([p \in Team |-> before[p].bytes], Team)
<1>1. MapThenSumSet(LAMBDA p : result[p].fin, Team) = Total([p \in Team |-> result[p].fin], Team)
  <2>1. MapThenSumSet(LAMBDA p : result[p]["fin"], Team) = Total([p \in Team |-> result[p]["fin"]], Team)
    BY FieldTotal
  <2> QED
    BY <2>1
<1>2. MapThenSumSet(LAMBDA p : result[p].fail, Team) = Total([p \in Team |-> result[p].fail], Team)
  <2>1. MapThenSumSet(LAMBDA p : result[p]["fail"], Team) = Total([p \in Team |-> result[p]["fail"]], Team)
    BY FieldTotal
  <2> QED
    BY <2>1
<1>3. MapThenSumSet(LAMBDA p : result[p].bytes, Team) = Total([p \in Team |-> result[p].bytes], Team)
  <2>1. MapThenSumSet(LAMBDA p : result[p]["bytes"], Team) = Total([p \in Team |-> result[p]["bytes"]], Team)
    BY FieldTotal
  <2> QED
    BY <2>1
<1>4. MapThenSumSet(LAMBDA p : did[p].n, Team) = Total([p \in Team |-> did[p].n], Team)
  <2>1. MapThenSumSet(LAMBDA p : did[p]["n"], Team) = Total([p \in Team |-> did[p]["n"]], Team)
    BY FieldTotal
  <2> QED
    BY <2>1
<1>5. MapThenSumSet(LAMBDA p : did[p].bytes, Team) = Total([p \in Team |-> did[p].bytes], Team)
  <2>1. MapThenSumSet(LAMBDA p : did[p]["bytes"], Team) = Total([p \in Team |-> did[p]["bytes"]], Team)
    BY FieldTotal
  <2> QED
    BY <2>1
<1>6. MapThenSumSet(LAMBDA p : before[p].fin, Team) = Total([p \in Team |-> before[p].fin], Team)
  <2>1. MapThenSumSet(LAMBDA p : before[p]["fin"], Team) = Total([p \in Team |-> before[p]["fin"]], Team)
    BY FieldTotal
  <2> QED
    BY <2>1
<1>7. MapThenSumSet(LAMBDA p : before[p].fail, Team) = Total([p \in Team |-> before[p].fail], Team)
  <2>1. MapThenSumSet(LAMBDA p : before[p]["fail"], Team) = Total([p \in Team |-> before[p]["fail"]], Team)
    BY FieldTotal
  <2> QED
    BY <2>1
<1>8. MapThenSumSet(LAMBDA p : before[p].bytes, Team) = Total([p \in Team |-> before[p].bytes], Team)
  <2>1. MapThenSumSet(LAMBDA p : before[p]["bytes"], Team) = Total([p \in Team |-> before[p]["bytes"]], Team)
    BY FieldTotal
  <2> QED
    BY <2>1
<1> QED
  BY <1>1, <1>2, <1>3, <1>4, <1>5, <1>6, <1>7, <1>8 DEF Row, Sum, TeamSum

\* The server has what every member counted.
LEMMA RowOfTeam ==
  ASSUME RInv, CountInv, RoundOver, NEW p \in Team
  PROVE  /\ result[p].fin = Own(p).fin /\ result[p].fail = Own(p).fail /\ result[p].bytes = Own(p).bytes
         /\ Own(p) \in Numbers /\ did[p] \in Doings /\ before[p] \in Numbers
         /\ Own(p).fin + Own(p).fail = before[p].fin + before[p].fail + did[p].n
         /\ Own(p).bytes = before[p].bytes + did[p].bytes
<1>1. TypeOK /\ TeamInv /\ TallyInv /\ counters \in [Proc -> [Names -> Numbers]]
  BY DEF RInv, ResultsInv, CountInv
<1>2. p \in Proc /\ tests[round].name \in Names
  BY <1>1, MemberType
<1>3. <<round, p>> \in done
  BY <1>1, <1>2, TeamType DEF RoundOver, TypeOK
<1>4. result[p] = Gather(Own(p))
  BY <1>1, <1>3 DEF TallyInv
<1>5. result[p].fin = Own(p).fin /\ result[p].fail = Own(p).fail /\ result[p].bytes = Own(p).bytes
  BY <1>4 DEF Gather
<1>6. Own(p) \in Numbers
  BY <1>1, <1>2 DEF Own
<1> QED
  BY <1>1, <1>2, <1>5, <1>6 DEF TallyInv

LEMMA RowHonest == RInv /\ CountInv /\ JoinedInv => RowCounts
<1> SUFFICES ASSUME RInv, CountInv, JoinedInv, RoundOver PROVE RowCounts
  BY DEF RowCounts
<1>0. TypeOK /\ TeamInv /\ IsFiniteSet(Team)
  BY TeamType DEF RInv, TypeOK
<1> DEFINE fin == [p \in Team |-> result[p].fin]
           fail == [p \in Team |-> result[p].fail]
           bytes == [p \in Team |-> result[p].bytes]
           both == [p \in Team |-> result[p].fin + result[p].fail]
           n == [p \in Team |-> did[p].n]
           written == [p \in Team |-> did[p].bytes]
           fin0 == [p \in Team |-> before[p].fin]
           fail0 == [p \in Team |-> before[p].fail]
           bytes0 == [p \in Team |-> before[p].bytes]
           more == [p \in Team |-> did[p].n + before[p].fin]
<1>1. ASSUME NEW p \in Team
      PROVE  /\ result[p].fin \in Int /\ result[p].fail \in Int /\ result[p].bytes \in Int
             /\ did[p].n \in Int /\ did[p].bytes \in Int
             /\ before[p].fin \in Int /\ before[p].fail \in Int /\ before[p].bytes \in Int
             /\ result[p].fin + result[p].fail = (did[p].n + before[p].fin) + before[p].fail
             /\ result[p].bytes = did[p].bytes + before[p].bytes
  <2>1. /\ result[p].fin \in Nat /\ result[p].fail \in Nat /\ result[p].bytes \in Nat
        /\ did[p].n \in Nat /\ did[p].bytes \in Nat
        /\ before[p].fin \in Nat /\ before[p].fail \in Nat /\ before[p].bytes \in Nat
    BY RowOfTeam DEF Numbers, Doings
  <2>2. /\ result[p].fin + result[p].fail = before[p].fin + before[p].fail + did[p].n
        /\ result[p].bytes = before[p].bytes + did[p].bytes
    BY RowOfTeam
  <2> QED
    BY <2>1, <2>2
<1>2. /\ fin \in [Team -> Int] /\ fail \in [Team -> Int] /\ bytes \in [Team -> Int] /\ both \in [Team -> Int]
      /\ n \in [Team -> Int] /\ written \in [Team -> Int] /\ more \in [Team -> Int]
      /\ fin0 \in [Team -> Int] /\ fail0 \in [Team -> Int] /\ bytes0 \in [Team -> Int]
  BY <1>1
<1>3. \A p \in Team : /\ both[p] = fin[p] + fail[p] /\ both[p] = more[p] + fail0[p]
                      /\ more[p] = n[p] + fin0[p] /\ bytes[p] = written[p] + bytes0[p]
  BY <1>1
<1>4. /\ Row.fin = Total(fin, Team) /\ Row.fail = Total(fail, Team) /\ Row.bytes = Total(bytes, Team)
      /\ TeamSum(LAMBDA p : did[p].n) = Total(n, Team)
      /\ TeamSum(LAMBDA p : did[p].bytes) = Total(written, Team)
      /\ TeamSum(LAMBDA p : before[p].fin) = Total(fin0, Team)
      /\ TeamSum(LAMBDA p : before[p].fail) = Total(fail0, Team)
      /\ TeamSum(LAMBDA p : before[p].bytes) = Total(bytes0, Team)
  BY RowTotals
<1> HIDE DEF fin, fail, bytes, both, n, written, fin0, fail0, bytes0, more
<1>5. /\ Total(both, Team) = Total(fin, Team) + Total(fail, Team)
      /\ Total(both, Team) = Total(more, Team) + Total(fail0, Team)
      /\ Total(more, Team) = Total(n, Team) + Total(fin0, Team)
      /\ Total(bytes, Team) = Total(written, Team) + Total(bytes0, Team)
  BY <1>0, <1>2, <1>3, TotalAdd, SMTT(30)
<1>6. restarts = 0 /\ (\A t, u \in 1..NumTests : tests[t].name = tests[u].name => t = u) => \A p \in Team : Fresh(p)
  BY DEF JoinedInv, OwnNames
<1> QED
  BY <1>4, <1>5, <1>6 DEF RowCounts

\* A row counts every operation of its test's members once, and besides exactly what they
\* had counted under the test's name when they joined, which is nothing unless a server
\* died or two tests have one name (sumBenchmarkResults, getCurrentPromValues).
THEOREM RowsCount == Spec => []RowCounts
  BY InitOK, StepOK, InitTally, TallyStep, InitJoined, JoinedStep, RowHonest, PTL DEF Spec

\* Averages of averages, over a team whose members counted nothing else.
LEMMA LatencyOfRow == RInv /\ CountInv /\ SamplesInv => LatencyHonest
<1> SUFFICES ASSUME RInv, CountInv, SamplesInv, RoundOver, \A p \in Team : Fresh(p),
                    NEW h \in Histogram
             PROVE  LET with  == {p \in Team : result[p].avg[h] >= 0}
                        times == UNION {did[p].times : p \in with}
                        n     == Cardinality(with) * Scale
                        sum   == Row.avg[h] + Cardinality(Team \ with) * Scale
                    IN  IF with = {} THEN sum = 0
                                     ELSE \E lo, hi \in times : n * lo <= sum /\ sum <= n * hi
  BY DEF LatencyHonest
<1> DEFINE with == {p \in Team : result[p].avg[h] >= 0}
           times == UNION {did[p].times : p \in with}
           size == Cardinality(with)
           others == Cardinality(Team \ with)
           avg == [p \in Team |-> result[p].avg[h]]
           filled == [p \in Team |-> IF p \in Team \ with THEN Scale ELSE 0]
           full == [p \in Team |-> IF p \in with THEN avg[p] ELSE 0]
           sum == Row.avg[h] + others * Scale
<1>0. TypeOK /\ WorkersOK /\ TeamInv /\ IsFiniteSet(Team) /\ Scale \in Nat \ {0}
  BY TeamType, ResultsAssumption DEF RInv, TypeOK
<1>1. /\ IsFiniteSet(with) /\ size \in Nat /\ others \in Nat
      /\ Team \cap with = with /\ Team \cap (Team \ with) = Team \ with
  <2>1. IsFiniteSet(with) /\ IsFiniteSet(Team \ with)
    BY <1>0, FS_Subset
  <2> QED
    BY <2>1, FS_CardinalityType
<1>2. \A p \in Team : Between(Own(p)[h], did[p].times) /\ did[p].times \in SUBSET Nat /\ Own(p)[h] \in Samples
  BY RowOfTeam DEF SamplesInv, Doings, Numbers, Histogram
<1>3. \A p \in Team : avg[p] = Average(Own(p)[h])
  <2>1. ASSUME NEW p \in Team PROVE result[p].avg[h] = Average(Own(p)[h])
    <3>1. <<round, p>> \in done
      BY <1>0, TeamType DEF RoundOver
    <3>2. result[p] = Gather(Own(p))
      BY <3>1 DEF CountInv, TallyInv
    <3> QED
      BY <3>2 DEF Gather
  <2> QED
    BY <2>1
<1>4. Row.avg[h] = Total(avg, Team)
  <2>1. Row.avg[h] = MapThenSumSet(LAMBDA p : result[p].avg[h], Team)
    BY DEF Row, Sum
  <2> QED
    BY <2>1, AverageTotal
<1>5. \A p \in Team : p \in with <=> avg[p] >= 0
  OBVIOUS
<1> HIDE DEF avg, with
<1>6. ASSUME NEW p \in Team
      PROVE  /\ avg[p] \in Int
             /\ avg[p] < 0 => avg[p] = -Scale
             /\ avg[p] >= 0 => \E lo, hi \in did[p].times : Scale * lo <= avg[p] /\ avg[p] <= Scale * hi
  BY <1>2, <1>3, AverageBetween
<1>7. avg \in [Team -> Int] /\ filled \in [Team -> Int] /\ full \in [Team -> Int]
  BY <1>0, <1>6 DEF avg
<1>8. sum = Total(full, Team)
  <2>1. ASSUME NEW p \in Team PROVE full[p] = avg[p] + filled[p]
    BY <1>0, <1>5, <1>6
  <2>2. Total(filled, Team) = others * Scale
    <3>1. \A W : Total([p \in Team |-> IF p \in W THEN Scale ELSE 0], Team) = Cardinality(Team \cap W) * Scale
      <4>1. Scale \in Int
        BY <1>0
      <4> QED
        BY <1>0, <4>1, TotalConstant
    <3>2. Total(filled, Team) = Cardinality(Team \cap (Team \ with)) * Scale
      BY <3>1
    <3> QED
      BY <1>1, <3>2
  <2> HIDE DEF full, filled
  <2>3. Total(full, Team) = Total(avg, Team) + Total(filled, Team)
    BY <1>0, <1>7, <2>1, TotalAdd
  <2> QED
    BY <1>4, <2>2, <2>3
<1>9. ASSUME with = {} PROVE sum = 0
  <2>1. full = [p \in Team |-> IF p \in {} THEN 0 ELSE 0]
    BY <1>9
  <2>2. Total([p \in Team |-> IF p \in {} THEN 0 ELSE 0], Team) = Cardinality(Team \cap {}) * 0
    BY <1>0, TotalConstant
  <2>3. Cardinality(Team \cap {}) * 0 = 0
    BY FS_EmptySet
  <2> HIDE DEF full
  <2> QED
    BY <1>8, <2>1, <2>2, <2>3
<1>10. ASSUME with # {}
       PROVE  \E lo, hi \in times : (size * Scale) * lo <= sum /\ sum <= (size * Scale) * hi
  <2> DEFINE least == [p \in with |-> CHOOSE d \in did[p].times : Scale * d <= avg[p]]
             most == [p \in with |-> CHOOSE d \in did[p].times : avg[p] <= Scale * d]
             Leasts == {least[p] : p \in with}
  <2>0. with \subseteq Team
    BY DEF with
  <2>1. ASSUME NEW p \in with
        PROVE  /\ least[p] \in times /\ least[p] \in Nat /\ Scale * least[p] <= avg[p]
               /\ most[p] \in times /\ most[p] \in Nat /\ avg[p] <= Scale * most[p]
    <3>1. \E lo, hi \in did[p].times : Scale * lo <= avg[p] /\ avg[p] <= Scale * hi
      BY <1>5, <1>6, <2>0
    <3> QED
      BY <1>2, <2>0, <3>1
  <2> HIDE DEF least
  <2>2. PICK lo \in Leasts : \A d \in Leasts : lo <= d
    <3>1. \A p \in with : least[p] \in Nat
      BY <2>1
    <3>2. Leasts \subseteq Nat
      BY <3>1
    <3>3. Leasts # {}
      BY <1>10
    <3> HIDE DEF Leasts
    <3> QED
      BY <3>2, <3>3, LeastOf
  <2> HIDE DEF most
  <2>3. PICK q \in with : \A p \in with : most[p] <= most[q]
    <3>1. most \in [with -> Nat]
      BY <2>1 DEF most
    <3> QED
      BY <1>1, <1>10, <3>1, GreatestOf
  <2> DEFINE hi == most[q]
  <2>4. lo \in times /\ lo \in Nat /\ hi \in times /\ hi \in Nat
    BY <2>1, <2>2
  <2> HIDE DEF hi, times, size
  <2>5. ASSUME NEW a \in Nat, NEW b \in Nat, a <= b PROVE Scale * a <= Scale * b
    BY <1>0, <2>5
  <2>6. ASSUME NEW p \in with PROVE Scale * lo <= avg[p] /\ avg[p] <= Scale * hi
    <3>1. lo <= least[p] /\ most[p] <= hi
      BY <2>2, <2>3 DEF hi
    <3>2. Scale * lo <= Scale * least[p] /\ Scale * most[p] <= Scale * hi
      BY <2>1, <2>4, <2>5, <3>1
    <3>3. Scale * lo \in Int /\ Scale * hi \in Int /\ Scale * least[p] \in Int /\ Scale * most[p] \in Int /\ avg[p] \in Int
      BY <1>0, <1>6, <2>0, <2>1, <2>4
    <3> QED
      BY <2>1, <3>2, <3>3
  <2> DEFINE below == [p \in Team |-> IF p \in with THEN Scale * lo ELSE 0]
             above == [p \in Team |-> IF p \in with THEN Scale * hi ELSE 0]
  <2>7. Scale * lo \in Int /\ Scale * hi \in Int
    BY <1>0, <2>4
  <2>8. Total(below, Team) = size * (Scale * lo) /\ Total(above, Team) = size * (Scale * hi)
    <3>1. \A k \in Int : Total([p \in Team |-> IF p \in with THEN k ELSE 0], Team) = Cardinality(Team \cap with) * k
      BY <1>0, TotalConstant
    <3> QED
      BY <1>1, <2>7, <3>1 DEF size
  <2>9. below \in [Team -> Int] /\ above \in [Team -> Int] /\ \A p \in Team : below[p] <= full[p] /\ full[p] <= above[p]
    BY <2>6, <2>7
  <2> HIDE DEF below, above, full, sum
  <2>10. Total(below, Team) <= Total(full, Team) /\ Total(full, Team) <= Total(above, Team)
    BY <1>0, <1>7, <2>9, TotalMonotone
  <2>11. size * (Scale * lo) = (size * Scale) * lo /\ size * (Scale * hi) = (size * Scale) * hi
    BY <1>0, <1>1, <2>4 DEF size
  <2> QED
    BY <1>8, <2>4, <2>8, <2>10, <2>11
<1> HIDE DEF sum
<1>11. IF with = {} THEN sum = 0
                    ELSE \E lo, hi \in times : (size * Scale) * lo <= sum /\ sum <= (size * Scale) * hi
  BY <1>9, <1>10
<1> QED
  BY <1>11 DEF sum, with

\* The average of a row whose members had counted nothing under the test's name before,
\* once the -1 of those without a sample is taken out again, lies between the shortest
\* and the longest call of the others, those of the preparation included; and it is -1 if
\* nobody has a sample (averageHistogramForTest, sumBenchmarkResults).
THEOREM LatencyIsHonest == Spec => []LatencyHonest
  BY InitOK, StepOK, InitTally, TallyStep, InitSamples, SamplesStep, LatencyOfRow, PTL DEF Spec

(***************************************************************************)
(* Comparison.                                                             *)
(***************************************************************************)

\* Every finite set of numbers can be sorted, ...
LEMMA CanBeSorted ==
  ASSUME NEW T, IsFiniteSet(T), T \subseteq Nat
  PROVE  \E s \in SetToSeqs(T) : \A i, j \in DOMAIN s : i < j => s[i] < s[j]
<1> DEFINE Rising(s) == \A i, j \in DOMAIN s : i < j => s[i] < s[j]
           Bad == {u \in SUBSET T : ~\E s \in [1..Cardinality(u) -> u] : Rising(s)}
<1>0. \A u \in SUBSET T : IsFiniteSet(u) /\ Cardinality(u) \in Nat
  BY FS_Subset, FS_CardinalityType
<1>1. Bad = {}
  <2>1. SUFFICES ASSUME Bad # {} PROVE FALSE
    OBVIOUS
  <2>2. PICK u \in Bad : \A x \in u : u \ {x} \notin Bad
    <3>1. Bad \subseteq SUBSET T
      OBVIOUS
    <3> HIDE DEF Bad
    <3> QED
      BY <2>1, <3>1, FirstSubset
  <2>3. u # {}
    <3>1. ASSUME u = {} PROVE FALSE
      <4>1. Cardinality(u) = 0
        BY <3>1, FS_EmptySet
      <4> DEFINE s == [i \in 1..0 |-> 0]
      <4>2. s \in [1..Cardinality(u) -> u] /\ Rising(s)
        BY <4>1
      <4> HIDE DEF s, Rising
      <4> QED
        BY <2>2, <4>2
    <3> QED
      BY <3>1
  <2>4. IsFiniteSet(u) /\ Cardinality(u) \in Nat /\ u \subseteq Nat
    BY <1>0, <2>2
  <2>5. PICK x \in u : \A y \in u : y <= x
    <3> DEFINE f == [y \in u |-> y]
    <3>1. f \in [u -> Nat]
      BY <2>4
    <3>2. PICK x \in u : \A y \in u : f[y] <= f[x]
      <4> HIDE DEF f
      <4> QED
        BY <2>3, <2>4, <3>1, GreatestOf
    <3> QED
      BY <3>2
  <2> DEFINE rest == u \ {x}
             n == Cardinality(rest)
  <2>6. n \in Nat /\ Cardinality(u) = n + 1
    <3>1. IsFiniteSet(rest) /\ n = Cardinality(u) - 1
      BY <2>4, <2>5, FS_RemoveElement, FS_Subset
    <3>2. n \in Nat
      BY <3>1, FS_CardinalityType
    <3> QED
      BY <2>4, <3>1, <3>2
  <2>7. PICK t \in [1..n -> rest] : Rising(t)
    BY <2>2, <2>5
  <2> DEFINE s == [i \in 1..(n + 1) |-> IF i <= n THEN t[i] ELSE x]
  <2>8. \A i \in 1..(n + 1) : (i <= n => i \in 1..n) /\ (~(i <= n) => i = n + 1)
    BY <2>6
  <2>9. s \in [1..(n + 1) -> u]
    BY <2>5, <2>6, <2>7, <2>8
  <2>10. ASSUME NEW i \in 1..(n + 1), NEW j \in 1..(n + 1), i < j PROVE s[i] < s[j]
    <3>1. i \in 1..n
      BY <2>6, <2>10
    <3>2. s[i] = t[i] /\ t[i] \in rest
      <4>1. i <= n
        BY <2>6, <3>1
      <4>2. t[i] \in rest
        <5> HIDE DEF n, rest
        <5> QED
          BY <2>7, <3>1
      <4> QED
        BY <4>1, <4>2
    <3>3. CASE j <= n
      <4>1. j \in 1..n /\ s[j] = t[j]
        BY <2>8, <3>3
      <4> QED
        BY <2>7, <2>10, <3>1, <3>2, <4>1
    <3>4. CASE ~(j <= n)
      <4>1. s[j] = x
        BY <3>4
      <4>2. t[i] \in u /\ t[i] # x /\ t[i] <= x /\ t[i] \in Nat /\ x \in Nat
        BY <2>4, <2>5, <3>2
      <4> QED
        BY <3>2, <4>1, <4>2
    <3> QED
      BY <3>3, <3>4
  <2>11. Rising(s)
    BY <2>9, <2>10
  <2> HIDE DEF s, n, Rising
  <2>12. s \in [1..Cardinality(u) -> u]
    BY <2>6, <2>9
  <2> QED
    BY <2>2, <2>11, <2>12
<1>2. PICK s \in [1..Cardinality(T) -> T] : Rising(s)
  <2>1. T \notin Bad
    BY <1>1
  <2> QED
    BY <2>1
<1>3. ASSUME NEW i \in 1..Cardinality(T), NEW j \in 1..Cardinality(T), i # j PROVE s[i] # s[j]
  <2>1. i \in Nat /\ j \in Nat /\ s[i] \in Nat /\ s[j] \in Nat
    <3>1. Cardinality(T) \in Nat /\ s[i] \in T /\ s[j] \in T
      BY <1>2, FS_CardinalityType
    <3> HIDE DEF Rising
    <3>2. i \in Nat /\ j \in Nat
      BY <3>1
    <3>3. s[i] \in Nat /\ s[j] \in Nat
      BY <3>1
    <3> QED
      BY <3>2, <3>3
  <2>2. i < j \/ j < i
    BY <1>3, <2>1
  <2> QED
    BY <1>2, <2>1, <2>2
<1>4. s \in SetToSeqs(T)
  BY <1>2, <1>3 DEF SetToSeqs
<1> QED
  BY <1>2, <1>4

\* ... and then each of them has its place.
LEMMA SortedType ==
  ASSUME NEW T, IsFiniteSet(T), T \subseteq Nat
  PROVE  /\ Sorted(T) \in [1..Cardinality(T) -> T]
         /\ \A i, j \in DOMAIN Sorted(T) : i < j => Sorted(T)[i] < Sorted(T)[j]
         /\ \A x \in T : \E i \in DOMAIN Sorted(T) : Sorted(T)[i] = x
<1> DEFINE s == Sorted(T)
           D == 1..Cardinality(T)
<1>1. s \in SetToSeqs(T) /\ \A i, j \in DOMAIN s : i < j => s[i] < s[j]
  BY CanBeSorted DEF Sorted
<1> HIDE DEF s
<1>2. s \in [D -> T] /\ \A i, j \in D : i # j => s[i] # s[j]
  BY <1>1 DEF SetToSeqs
<1>3. Cardinality(T) \in Nat /\ IsFiniteSet(D) /\ Cardinality(D) = Cardinality(T)
  <2>1. Cardinality(T) \in Nat
    BY FS_CardinalityType
  <2> QED
    BY <2>1, FS_Interval
<1>4. s \in Injection(D, T)
  BY <1>2 DEF Injection, IsInjective
<1>5. s \in Surjection(D, T)
  BY <1>3, <1>4, FS_Injection
<1> QED
  BY <1>1, <1>2, <1>5 DEF s, Surjection

\* The map of a report: at every place that is taken is a row that belongs there.
LEMMA TableType ==
  ASSUME NEW rs \in [1..NumTests -> ReportRow]
  PROVE  /\ DOMAIN Table(rs) = {Place(rs[i]) : i \in 1..NumTests}
         /\ IsFiniteSet(DOMAIN Table(rs)) /\ Cardinality(DOMAIN Table(rs)) <= NumTests
         /\ \A k \in DOMAIN Table(rs) : \E i \in 1..NumTests : Table(rs)[k] = rs[i] /\ Place(rs[i]) = k
<1> DEFINE N == 1..NumTests
           places == {Place(rs[i]) : i \in N}
<1>1. DOMAIN Table(rs) = places
  BY DEF Table
<1>2. IsFiniteSet(N) /\ Cardinality(N) = NumTests /\ NumTests \in Nat
  BY TeamAssumption, FS_Interval
<1>3. IsFiniteSet(places) /\ Cardinality(places) <= NumTests
  <2> DEFINE f == [i \in N |-> Place(rs[i])]
  <2>1. f \in Surjection(N, places)
    BY DEF Surjection
  <2> HIDE DEF f, places
  <2> QED
    BY <1>2, <2>1, FS_Surjection
<1>4. ASSUME NEW k \in places PROVE \E i \in N : Table(rs)[k] = rs[i] /\ Place(rs[i]) = k
  <2> DEFINE there == {i \in N : Place(rs[i]) = k}
  <2>1. IsFiniteSet(there) /\ there # {} /\ there \subseteq Nat
    BY <1>2, <1>4, FS_Subset
  <2>2. \E i \in there : \A j \in there : i >= j
    <3> DEFINE f == [i \in there |-> i]
    <3> HIDE DEF there
    <3>1. f \in [there -> Nat]
      BY <2>1
    <3>2. PICK i \in there : \A j \in there : f[j] <= f[i]
      <4> HIDE DEF f
      <4> QED
        BY <2>1, <3>1, GreatestOf
    <3>3. \A j \in there : i >= j
      BY <2>1, <3>2
    <3> QED
      BY <3>3
  <2>3. Max(there) \in there
    <3> HIDE DEF there
    <3> QED
      BY <2>2 DEF Max
  <2>4. Table(rs)[k] = rs[Max(there)]
    BY <1>4 DEF Table
  <2> HIDE DEF N
  <2> QED
    BY <2>3, <2>4
<1> QED
  BY <1>1, <1>3, <1>4

LEMMA PlaceShape ==
  ASSUME NEW r, NEW s
  PROVE  Place(r) = Place(s) <=> SameShape(r, s)
  BY DEF Place, SameShape

\* The axis of a chart, and a place on it.
AxisOK(c) ==
  /\ \E m \in 0..NumTests : DOMAIN c.axis = 1..m
  /\ DOMAIN c.axis \subseteq 1..NumTests
  /\ \A i, j \in DOMAIN c.axis : i < j => c.axis[i] < c.axis[j]
PlaceOK(c, g, rs, ss, i) ==
  /\ c.axis[i] \in Nat
  /\ \E k \in 1..NumTests : c.r1[i] = rs[k]
  /\ \E k \in 1..NumTests : c.r2[i] = ss[k]
  /\ Place(c.r1[i]) = [group |-> g, clients |-> c.axis[i]]
  /\ Place(c.r2[i]) = [group |-> g, clients |-> c.axis[i]]
OnAxis(c, n) == \E i \in DOMAIN c.axis : c.axis[i] = n

\* A chart has the rows of its group, at the numbers of clients that both reports have.
LEMMA ChartType ==
  ASSUME NEW rs \in [1..NumTests -> ReportRow], NEW ss \in [1..NumTests -> ReportRow], NEW g,
         NEW c, c = Chart(Table(rs), Table(ss), g)
  PROVE  /\ AxisOK(c)
         /\ \A i \in DOMAIN c.axis : PlaceOK(c, g, rs, ss, i)
         /\ \A n \in Nat : [group |-> g, clients |-> n] \in DOMAIN Table(rs) \cap DOMAIN Table(ss) => OnAxis(c, n)
<1> DEFINE one == Table(rs)
           two == Table(ss)
           At(n) == [group |-> g, clients |-> n]
           common == {p \in DOMAIN one \cap DOMAIN two : p.group = g}
           T == {k.clients : k \in common}
           axis == Sorted(T)
<1>1. /\ DOMAIN one = {Place(rs[i]) : i \in 1..NumTests} /\ DOMAIN two = {Place(ss[i]) : i \in 1..NumTests}
      /\ IsFiniteSet(DOMAIN one) /\ Cardinality(DOMAIN one) <= NumTests /\ Cardinality(DOMAIN one) \in Nat
      /\ \A k \in DOMAIN one : \E i \in 1..NumTests : one[k] = rs[i] /\ Place(rs[i]) = k
      /\ \A k \in DOMAIN two : \E i \in 1..NumTests : two[k] = ss[i] /\ Place(ss[i]) = k
  BY TableType, FS_CardinalityType
<1>2. c = [axis |-> axis, r1 |-> Bars(one, g, axis), r2 |-> Bars(two, g, axis)]
  BY DEF Chart, Axis
<1>3. \A p \in DOMAIN one : p.clients \in Nat /\ p = [group |-> p.group, clients |-> p.clients]
  <2>1. ASSUME NEW r \in ReportRow
        PROVE  LET p == Place(r) IN p.clients \in Nat /\ p = [group |-> p.group, clients |-> p.clients]
    BY DEF Place, ReportRow
  <2>2. \A p \in DOMAIN one : \E r \in ReportRow : p = Place(r)
    BY <1>1
  <2> QED
    BY <2>1, <2>2
<1> HIDE DEF one, two
<1>4. /\ T \subseteq Nat /\ \A n \in T : At(n) \in DOMAIN one \cap DOMAIN two
      /\ \A n : At(n) \in DOMAIN one \cap DOMAIN two => n \in T
  <2>1. T \subseteq Nat
    BY <1>3
  <2>2. \A n \in T : At(n) \in DOMAIN one \cap DOMAIN two
    BY <1>3
  <2>3. ASSUME NEW n, At(n) \in DOMAIN one \cap DOMAIN two PROVE n \in T
    <3>1. At(n).group = g /\ At(n).clients = n
      OBVIOUS
    <3>2. At(n) \in common
      BY <2>3, <3>1
    <3> HIDE DEF common, At
    <3> QED
      BY <3>1, <3>2
  <2> QED
    BY <2>1, <2>2, <2>3
<1>5. IsFiniteSet(T) /\ Cardinality(T) \in Nat /\ Cardinality(T) <= NumTests
  <2>1. IsFiniteSet(common) /\ Cardinality(common) <= Cardinality(DOMAIN one) /\ Cardinality(common) \in Nat
    BY <1>1, FS_Subset, FS_CardinalityType
  <2> DEFINE f == [k \in common |-> k.clients]
  <2>2. f \in Surjection(common, T)
    BY DEF Surjection
  <2> HIDE DEF f, common, T
  <2>3. IsFiniteSet(T) /\ Cardinality(T) <= Cardinality(common)
    BY <2>1, <2>2, FS_Surjection
  <2> QED
    BY <1>1, <2>1, <2>3, FS_CardinalityType, TeamAssumption
<1> HIDE DEF T
<1>6. /\ axis \in [1..Cardinality(T) -> T]
      /\ \A i, j \in DOMAIN axis : i < j => axis[i] < axis[j]
      /\ \A x \in T : \E i \in DOMAIN axis : axis[i] = x
  BY <1>4, <1>5, SortedType
<1> HIDE DEF axis
<1>7. DOMAIN axis = 1..Cardinality(T) /\ Cardinality(T) \in 0..NumTests /\ DOMAIN axis \subseteq 1..NumTests
  BY <1>5, <1>6, TeamAssumption
<1>8. ASSUME NEW i \in DOMAIN axis
      PROVE  /\ axis[i] \in Nat
             /\ \E k \in 1..NumTests : Bars(one, g, axis)[i] = rs[k]
             /\ \E k \in 1..NumTests : Bars(two, g, axis)[i] = ss[k]
             /\ Place(Bars(one, g, axis)[i]) = At(axis[i]) /\ Place(Bars(two, g, axis)[i]) = At(axis[i])
  <2>1. axis[i] \in T
    BY <1>6
  <2>2. axis[i] \in Nat /\ At(axis[i]) \in DOMAIN one /\ At(axis[i]) \in DOMAIN two
    BY <1>4, <2>1
  <2>3. Bars(one, g, axis)[i] = one[At(axis[i])] /\ Bars(two, g, axis)[i] = two[At(axis[i])]
    BY DEF Bars
  <2> HIDE DEF At
  <2> QED
    BY <1>1, <2>2, <2>3
<1>9. \A n \in Nat : At(n) \in DOMAIN one \cap DOMAIN two => \E i \in DOMAIN axis : axis[i] = n
  BY <1>4, <1>6
<1>10. c.axis = axis /\ c.r1 = Bars(one, g, axis) /\ c.r2 = Bars(two, g, axis)
  BY <1>2
<1>11. DOMAIN Bars(one, g, axis) = DOMAIN axis /\ DOMAIN Bars(two, g, axis) = DOMAIN axis
  BY DEF Bars
<1>12. AxisOK(c)
  BY <1>6, <1>7, <1>10 DEF AxisOK
<1>13. ASSUME NEW i \in DOMAIN c.axis PROVE PlaceOK(c, g, rs, ss, i)
  <2>1. i \in DOMAIN axis
    BY <1>10
  <2> QED
    BY <1>8, <1>10, <2>1 DEF PlaceOK
<1>14. ASSUME NEW n \in Nat, At(n) \in DOMAIN one \cap DOMAIN two PROVE OnAxis(c, n)
  BY <1>9, <1>10, <1>14 DEF OnAxis
<1> QED
  BY <1>12, <1>13, <1>14 DEF one, two

\* Reports are of lives one after the other.
LEMMA LivesStep == RInv /\ ReportsInv /\ LivesInv /\ [Next]_vars => LivesInv'
<1> SUFFICES ASSUME RInv, ReportsInv, LivesInv, [Next]_vars PROVE LivesInv'
  OBVIOUS
<1>0. restarts \in Nat /\ NumTests \in Nat /\ round \in Nat
  BY TeamAssumption DEF RInv, TypeOK, WorkersOK
<1>1. ASSUME UNCHANGED <<round, restarts, rows, reports>> PROVE LivesInv'
  BY <1>1 DEF LivesInv
<1>2. ASSUME NEW p \in Proc, Take(p) \/ Put(p) \/ Operate(p) \/ Answer(p) \/ Talk(p) PROVE LivesInv'
  BY <1>1, <1>2, WorkerStep DEF server
<1>3. CASE \/ StartWork /\ UNCHANGED <<tests, writable, server, metrics>>
           \/ Open \/ UNCHANGED vars
  BY <1>1, <1>3 DEF StartWork, R!Start, Open, vars, server, workers, rounds
<1>4. CASE Flush \/ FlushFails \/ NoFile
  <2>1. round \in 1..NumTests /\ UNCHANGED <<restarts, reports>>
    BY <1>4, NextTestOK DEF Flush, FlushFails, NoFile, NextTest, Advance
  <2>2. ~(round > NumTests)
    BY <1>0, <2>1
  <2> QED
    BY <2>1, <2>2 DEF LivesInv
<1>5. CASE Report
  <2>1. /\ round > NumTests /\ rows # <<>> /\ rows' = <<>> /\ UNCHANGED <<round, restarts>>
        /\ rows \in Seq(Nat) /\ (\A i \in DOMAIN rows : rows[i] = i) /\ Len(rows) = NumTests
    BY <1>0, <1>5 DEF Report, RInv, ResultsInv, MemoryInv, TypeOK, WorkersOK, workers, rounds
  <2>2. {Reported(rows[i]) : i \in DOMAIN rows} = {Reported(t) : t \in 1..NumTests}
    BY <2>1
  <2>3. PICK report \in SetToSeqs({Reported(t) : t \in 1..NumTests}) : reports' = Append(reports, report)
    BY <1>5, <2>2 DEF Report
  <2>4. report \in [1..NumTests -> ReportRow] /\ \A i \in DOMAIN report : report[i].life = restarts
    BY <2>3, ReportOfAll
  <2>5. /\ DOMAIN reports' = 1..(Len(reports) + 1) /\ DOMAIN reports = 1..Len(reports) /\ Len(reports) \in Nat
        /\ \A k \in DOMAIN reports : reports'[k] = reports[k]
        /\ reports'[Len(reports) + 1] = report
    BY <2>3, <2>4 DEF ReportsInv
  <2>6. \A k \in DOMAIN reports : \A i \in DOMAIN reports[k] : reports[k][i].life < restarts
    BY <2>1 DEF LivesInv
  <2>7. \A k \in DOMAIN reports' : k \in DOMAIN reports \/ k = Len(reports) + 1
    BY <2>5
  <2>8. ASSUME NEW k \in DOMAIN reports', NEW i \in DOMAIN reports'[k]
        PROVE  reports'[k][i].life < restarts' \/ (reports'[k][i].life = restarts' /\ round' > NumTests /\ rows' = <<>>)
    BY <2>1, <2>4, <2>5, <2>6, <2>7, <2>8
  <2>9. ASSUME NEW k \in DOMAIN reports', NEW l \in DOMAIN reports', k < l,
               NEW i \in DOMAIN reports'[k], NEW j \in DOMAIN reports'[l]
        PROVE  reports'[k][i].life < reports'[l][j].life
    <3>1. k \in DOMAIN reports
      BY <2>5, <2>9
    <3>2. CASE l \in DOMAIN reports
      BY <2>5, <2>9, <3>1, <3>2 DEF LivesInv
    <3>3. CASE l = Len(reports) + 1
      BY <2>4, <2>5, <2>6, <2>9, <3>1, <3>3
    <3> QED
      BY <2>7, <3>2, <3>3
  <2> QED
    BY <2>8, <2>9 DEF LivesInv
<1>6. CASE Crash
  <2>1. restarts' = restarts + 1 /\ UNCHANGED reports
    BY <1>6 DEF Crash, Restart
  <2>2. ASSUME NEW k \in DOMAIN reports, NEW i \in DOMAIN reports[k] PROVE reports[k][i].life < restarts'
    <3>1. reports[k][i].life \in Nat
      <4>1. reports[k] \in [1..NumTests -> ReportRow]
        BY <2>2 DEF ReportsInv
      <4> QED
        BY <2>2, <4>1 DEF ReportRow
    <3>2. reports[k][i].life <= restarts
      BY <1>0, <2>2, <3>1 DEF LivesInv
    <3> QED
      BY <1>0, <2>1, <3>1, <3>2
  <2> QED
    BY <2>1, <2>2 DEF LivesInv
<1> QED
  BY <1>2, <1>3, <1>4, <1>5, <1>6 DEF Next

\* A group that both reports have, and its chart.
LEMMA Compared ==
  ASSUME NEW rs \in [1..NumTests -> ReportRow], NEW ss \in [1..NumTests -> ReportRow],
         NEW k \in 1..NumTests, NEW l \in 1..NumTests, SameShape(rs[k], ss[l]), rs[k].type # {"delete"}
  PROVE  LET charts == Charts(rs, ss)
             places == {<<c, i>> : c \in charts, i \in 1..NumTests}
         IN  Cardinality({p \in places : p[2] \in DOMAIN p[1].axis /\ SameShape(p[1].r1[p[2]], rs[k])}) = 1
<1> DEFINE one == Table(rs)
           two == Table(ss)
           charts == Charts(rs, ss)
           places == {<<c, i>> : c \in charts, i \in 1..NumTests}
           Mine(c, i) == i \in DOMAIN c.axis /\ SameShape(c.r1[i], rs[k])
           g == Place(rs[k]).group
           n == rs[k].clients
           chart == Chart(one, two, g)
<1>1. Place(rs[k]) = [group |-> g, clients |-> n] /\ Place(ss[l]) = Place(rs[k]) /\ n \in Nat
  BY PlaceShape DEF Place, ReportRow
<1>2. Place(rs[k]) \in DOMAIN one /\ Place(rs[k]) \in DOMAIN two
  <2>1. Place(rs[k]) \in DOMAIN one
    BY TableType
  <2>2. Place(ss[l]) \in DOMAIN two
    BY TableType
  <2> QED
    BY <1>1, <2>1, <2>2
<1>3. charts = {Chart(one, two, h) : h \in {x \in GroupsOf(one) \cap GroupsOf(two) : Charted(x)}}
  BY DEF Charts
<1>4. chart \in charts
  <2>1. g \in GroupsOf(one) /\ g \in GroupsOf(two)
    BY <1>2 DEF GroupsOf
  <2>2. Charted(g)
    BY DEF Charted, Place
  <2> HIDE DEF g, one, two
  <2> QED
    BY <1>3, <2>1, <2>2
<1>5. /\ AxisOK(chart) /\ (\A i \in DOMAIN chart.axis : PlaceOK(chart, g, rs, ss, i))
      /\ OnAxis(chart, n)
  <2>1. [group |-> g, clients |-> n] \in DOMAIN Table(rs) \cap DOMAIN Table(ss)
    BY <1>1, <1>2
  <2> HIDE DEF g, n
  <2> QED
    BY <1>1, <2>1, ChartType
<1> HIDE DEF chart
<1>6. PICK i \in DOMAIN chart.axis : chart.axis[i] = n
  BY <1>5 DEF OnAxis
<1>7. i \in 1..NumTests /\ Mine(chart, i)
  <2>1. Place(chart.r1[i]) = [group |-> g, clients |-> chart.axis[i]] /\ i \in 1..NumTests
    <3> HIDE DEF g
    <3> QED
      BY <1>5, <1>6 DEF AxisOK, PlaceOK
  <2>2. Place(chart.r1[i]) = Place(rs[k])
    BY <1>1, <1>6, <2>1
  <2> QED
    BY <1>6, <2>1, <2>2, PlaceShape
<1>8. ASSUME NEW c \in charts, NEW j \in 1..NumTests, Mine(c, j) PROVE c = chart /\ j = i
  <2>1. PICK h : c = Chart(Table(rs), Table(ss), h)
    BY <1>3
  <2>2. PlaceOK(c, h, rs, ss, j)
    BY <1>8, <2>1, ChartType
  <2>3. Place(c.r1[j]) = [group |-> g, clients |-> n]
    BY <1>1, <1>8, PlaceShape
  <2>4. h = g /\ c.axis[j] = n
    <3>1. Place(c.r1[j]) = [group |-> h, clients |-> c.axis[j]]
      BY <2>2 DEF PlaceOK
    <3> HIDE DEF g, n
    <3> QED
      BY <2>3, <3>1
  <2>5. c = chart
    BY <2>1, <2>4 DEF chart
  <2>6. /\ DOMAIN chart.axis \subseteq 1..NumTests
        /\ \A a, b \in DOMAIN chart.axis : a < b => chart.axis[a] < chart.axis[b]
        /\ \A a \in DOMAIN chart.axis : chart.axis[a] \in Nat
    <3> HIDE DEF g
    <3> QED
      BY <1>5 DEF AxisOK, PlaceOK
  <2>7. j \in DOMAIN chart.axis /\ chart.axis[j] = chart.axis[i] /\ chart.axis[i] \in Nat
    BY <1>6, <1>8, <2>4, <2>5, <2>6
  <2>8. i \in Nat /\ j \in Nat
    BY <1>6, <2>6, <2>7
  <2>9. ~(i < j) /\ ~(j < i)
    BY <1>6, <2>6, <2>7
  <2> QED
    BY <2>5, <2>8, <2>9
<1> HIDE DEF Mine, charts
<1>9. {p \in places : Mine(p[1], p[2])} = {<<chart, i>>}
  BY <1>4, <1>7, <1>8
<1>10. Cardinality({<<chart, i>>}) = 1
  BY FS_Singleton
<1>11. Cardinality({p \in places : p[2] \in DOMAIN p[1].axis /\ SameShape(p[1].r1[p[2]], rs[k])}) = 1
  <2> HIDE DEF places
  <2> QED
    BY <1>9, <1>10 DEF Mine
<1> QED
  BY <1>11 DEF charts

\* A place of a chart has two rows of one shape.
LEMMA BarsBesideEachOther ==
  ASSUME NEW rs \in [1..NumTests -> ReportRow], NEW ss \in [1..NumTests -> ReportRow],
         \A k, l \in 1..NumTests : rs[k].life < ss[l].life,
         NEW c \in Charts(rs, ss), NEW i \in DOMAIN c.axis
  PROVE  /\ SameShape(c.r1[i], c.r2[i]) /\ c.r1[i].clients = c.axis[i]
         /\ i > 1 => c.axis[i - 1] < c.axis[i]
         /\ c.r1[i].life < c.r2[i].life
<1>1. PICK g : c = Chart(Table(rs), Table(ss), g)
  BY DEF Charts
<1>2. AxisOK(c) /\ PlaceOK(c, g, rs, ss, i)
  BY <1>1, ChartType
<1>3. /\ \E m \in 0..NumTests : DOMAIN c.axis = 1..m
      /\ \A a, b \in DOMAIN c.axis : a < b => c.axis[a] < c.axis[b]
      /\ \E k \in 1..NumTests : c.r1[i] = rs[k]
      /\ \E k \in 1..NumTests : c.r2[i] = ss[k]
      /\ Place(c.r1[i]) = [group |-> g, clients |-> c.axis[i]]
      /\ Place(c.r2[i]) = [group |-> g, clients |-> c.axis[i]]
  BY <1>2 DEF AxisOK, PlaceOK
<1>4. SameShape(c.r1[i], c.r2[i])
  BY <1>3, PlaceShape
<1>5. c.r1[i].clients = c.axis[i]
  <2>1. Place(c.r1[i]).clients = c.axis[i]
    BY <1>3
  <2> QED
    BY <2>1 DEF Place
<1>6. i > 1 => c.axis[i - 1] < c.axis[i]
  <2>1. PICK m \in 0..NumTests : DOMAIN c.axis = 1..m
    BY <1>3
  <2>2. i \in 1..m /\ m \in Nat /\ (i > 1 => i - 1 \in 1..m /\ i - 1 < i)
    BY <2>1, TeamAssumption
  <2> QED
    BY <1>3, <2>1, <2>2
<1>7. c.r1[i].life < c.r2[i].life
  BY <1>3
<1> QED
  BY <1>4, <1>5, <1>6, <1>7

\* Of two reports every pair of tests of one shape is at one place of one chart, beside
\* each other and in the order of the clients (compare/main.go).
THEOREM ComparesOnce == Spec => []ComparedOnce
<1>1. RInv /\ ReportsInv /\ LivesInv => ComparedOnce
  <2> SUFFICES ASSUME RInv, ReportsInv, LivesInv, Len(reports) >= 2 PROVE ComparedOnce
    BY DEF ComparedOnce
  <2> DEFINE rs == reports[1]
             ss == reports[2]
             charts == Charts(rs, ss)
             places == {<<c, i>> : c \in charts, i \in 1..NumTests}
  <2>1. /\ rs \in [1..NumTests -> ReportRow] /\ ss \in [1..NumTests -> ReportRow]
        /\ 1 \in DOMAIN reports /\ 2 \in DOMAIN reports
        /\ Len(rs) = NumTests /\ DOMAIN rs = 1..NumTests /\ Len(ss) = NumTests /\ DOMAIN ss = 1..NumTests
    BY DEF ReportsInv, ReportComplete
  <2>2. \A k, l \in 1..NumTests : rs[k].life < ss[l].life
    BY <2>1 DEF LivesInv
  <2>3. ToSet(rs) = {rs[k] : k \in 1..NumTests} /\ ToSet(ss) = {ss[k] : k \in 1..NumTests}
    BY <2>1 DEF ToSet
  <2> HIDE DEF rs, ss
  <2>4. ASSUME NEW c \in charts, NEW i \in DOMAIN c.axis
        PROVE  /\ SameShape(c.r1[i], c.r2[i]) /\ c.r1[i].clients = c.axis[i]
               /\ i > 1 => c.axis[i - 1] < c.axis[i]
               /\ c.r1[i].life < c.r2[i].life
    BY <2>1, <2>2, <2>4, BarsBesideEachOther
  <2>5. ASSUME NEW r \in ToSet(rs), NEW s \in ToSet(ss), SameShape(r, s), r.type # {"delete"}
        PROVE  Cardinality({p \in places : p[2] \in DOMAIN p[1].axis /\ SameShape(p[1].r1[p[2]], r)}) = 1
    <3>1. PICK k \in 1..NumTests, l \in 1..NumTests : r = rs[k] /\ s = ss[l]
      BY <2>3, <2>5
    <3> QED
      BY <2>1, <2>5, <3>1, Compared
  <2> QED
    BY <2>4, <2>5 DEF ComparedOnce, rs, ss
<1>2. Init => LivesInv
  BY DEF Init, LivesInv
<1> QED
  BY <1>1, <1>2, InitOK, StepOK, InitReports, ReportsStep, LivesStep, PTL DEF Spec
=============================================================================
