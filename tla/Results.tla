------------------------------ MODULE Results ------------------------------
(***************************************************************************)
(* The way of the numbers: operations count in their worker process, which *)
(* outlives the test and the server; each worker of a team answers with    *)
(* its result, the server sums them, adds a row to a CSV file and keeps it *)
(* for the report at the end; and reports are compared.  The server may    *)
(* die at any moment, and a benchmark may be followed by another.          *)
(***************************************************************************)
EXTENDS Workers, Sequences, SequencesExt, Metrics, Compare

CONSTANTS
  Benchmarks,  \* configurations: sequences of tests [name, ops, size, clients,
               \* readOption], ops being the operations that have a weight
  Outcomes,    \* how calls end: "ok", "error", or a "short" object
  Times,       \* how long they take
  MaxCalls,    \* bound: calls of all worker processes to the store
  Kilo,        \* the 1024 of the report
  Disks        \* what the server may find: [writable, there], sets of Files

Files == {"cwd", "tmp"}  \* gosbench_results.csv and /tmp/gosbench_results.csv

ASSUME ResultsAssumption ==
  /\ MaxCalls \in Nat /\ Kilo \in Nat \ {0} /\ Scale \in Nat \ {0} /\ Times \subseteq Nat
  /\ Outcomes \subseteq {"ok", "error", "short"}
  /\ \A n \in 1..MaxCalls : Scale % n = 0
  /\ \A b \in Benchmarks : b \in [1..NumTests ->
       [name : STRING, ops : SUBSET {"read", "write", "list", "delete"} \ {{}}, size : Nat,
        clients : Nat, readOption : BOOLEAN]]
  /\ \A d \in Disks : d.writable \subseteq Files /\ d.there \subseteq Files

VARIABLES
  tests,     \* the configuration
  writable,  \* which files the server may write or create
  counters,  \* per process and test name
  calls,     \* bound on them
  result,    \* benchResults, by the process that answered
  handle,    \* the open CSV file: [file, created], or Closed
  csv,       \* the files there are, as lines
  rows,      \* the server's results
  reports,
  before,    \* history: counters of the test's name when a process joined
  did,       \* history: [n, failed, bytes] of the operations of its test, and the
             \* times of them and of its preparation (both are dropped when the
             \* round ends)
  lost,      \* history: tests without a line in this life of the server
  torn       \* history: files left without their header

server  == <<handle, csv, rows, reports, lost, torn>>
histories == <<before, did>>
metrics == <<counters, calls, result, histories>>
vars == <<workers, tests, writable, server, metrics>>

NameOf(p) == tests[task[p]].name
Names == {b[t].name : b \in Benchmarks, t \in 1..NumTests}

Idle == [n |-> 0, failed |-> 0, bytes |-> 0, times |-> {}]

\* benchResults is a variable of the round.
NoResults == [p \in Proc |-> Gather(Nothing)]
NewRound ==
  /\ result' = NoResults
  /\ before' = [p \in Proc |-> Nothing]
  /\ did' = [p \in Proc |-> Idle]

-----------------------------------------------------------------------------
(* The workers.                                                            *)

Take(p) ==
  /\ Join(p)
  /\ before' = [before EXCEPT ![p] = counters[p][tests[round].name]]
  /\ did' = [did EXCEPT ![p] = Idle]
  /\ UNCHANGED <<tests, writable, server, counters, calls, result>>

\* What an operation of p's test changes.
Count(p, c) ==
  /\ calls < MaxCalls
  /\ calls' = calls + 1
  /\ counters' = [counters EXCEPT ![p][NameOf(p)] = c]
  /\ UNCHANGED <<workers, tests, writable, server, result, before>>

\* Preparation of a list or delete item, by housekeepingSvc: putObject counts its
\* time all the same.
Put(p) ==
  /\ at[p] = "prepare"
  /\ tests[task[p]].ops \cap {"list", "delete"} # {}
  /\ \E outcome \in Outcomes \ {"short"}, d \in Times :
       /\ Count(p, PutObject(counters[p][NameOf(p)], outcome = "ok", d))
       /\ did' = [did EXCEPT ![p].times = @ \cup {d}]

Operate(p) ==
  /\ at[p] = "load"
  /\ \E op \in tests[task[p]].ops, outcome \in Outcomes, d \in Times :
       /\ outcome = "short" => op = "read"
       /\ Count(p, Do(counters[p][NameOf(p)], op, tests[task[p]].readOption, outcome, d))
       /\ did' = [did EXCEPT ![p] =
            [n |-> @.n + 1, failed |-> @.failed + IF outcome = "error" THEN 1 ELSE 0,
             bytes |-> @.bytes + IF op \in {"read", "write"} THEN 1 ELSE 0,
             times |-> @.times \cup {d}]]

\* The counters that getCurrentPromValues reads; and a slip that takes those of
\* every test.
OfAnyTest(p) == [Nothing EXCEPT !.fin = MapThenSumSet(LAMBDA n : counters[p][n].fin, Names)]
OfTest(p) == counters[p][NameOf(p)]

Answer(p) ==
  /\ WorkDone(p)
  /\ result' = IF Current(p) THEN [result EXCEPT ![p] = Gather(OfTest(p))] ELSE result
  /\ UNCHANGED <<tests, writable, server, counters, calls, before, did>>

Talk(p) == (PreparationsDone(p) \/ Begin(p)) /\ UNCHANGED <<tests, writable, server, metrics>>

-----------------------------------------------------------------------------
(* The server.                                                             *)

Row == Sum(Team, result)

Closed == [file |-> "none", created |-> FALSE]
Header == [header |-> TRUE, life |-> 0, test |-> 0]
Line(l, t) == [header |-> FALSE, life |-> l, test |-> t]

Preferred(files) == IF "cwd" \in files THEN "cwd" ELSE "tmp"

\* getCSVFileHandle: a file there is, here or in /tmp, or else a new one
Open ==
  /\ RoundOver /\ handle = Closed
  /\ LET there == DOMAIN csv \cap writable IN
       \/ /\ there # {}
          /\ handle' = [file |-> Preferred(there), created |-> FALSE]
          /\ UNCHANGED csv
       \/ /\ there = {} /\ writable # {}
          /\ handle' = [file |-> Preferred(writable), created |-> TRUE]
          /\ csv' = [f \in DOMAIN csv \cup {Preferred(writable)} |-> IF f \in DOMAIN csv THEN csv[f] ELSE <<>>]
  /\ UNCHANGED <<workers, tests, writable, metrics, rows, reports, lost, torn>>

\* The lines written; and a slip that writes a header every time.
HeaderAlways == <<Header, Line(restarts, round)>>
Lines == (IF handle.created THEN <<Header>> ELSE <<>>) \o <<Line(restarts, round)>>

\* The file afterwards, O_APPEND; and a slip that opens it without.
Overwritten(file, lines) == lines \o SubSeq(file, Len(lines) + 1, Len(file))
Appended(file, lines) == file \o lines

\* results = append(results, &benchResult), whatever became of the CSV file; and
\* a slip that keeps written rows only.
KeptIfWritten(written) == IF written THEN Append(rows, round) ELSE rows
Kept(written) == Append(rows, round)

NextTest(written) ==
  /\ Advance
  /\ rows' = Kept(written)
  /\ lost' = IF written THEN lost ELSE lost \cup {round}
  /\ handle' = Closed
  /\ NewRound
  /\ UNCHANGED <<tests, writable, counters, calls, reports>>

\* Flush and Close
Flush ==
  /\ handle # Closed
  /\ csv' = [csv EXCEPT ![handle.file] = Appended(@, Lines)]
  /\ NextTest(TRUE)
  /\ UNCHANGED torn

\* The disk is full: nobody looks at the error of Flush.
FlushFails ==
  /\ handle # Closed
  /\ NextTest(FALSE)
  /\ torn' = IF handle.created THEN torn \cup {handle.file} ELSE torn
  /\ UNCHANGED csv

\* No file could be opened.
NoFile ==
  /\ RoundOver /\ writable = {}
  /\ NextTest(FALSE)
  /\ UNCHANGED <<csv, torn>>

\* A row of the report
Reported(t) ==
  [type |-> tests[t].ops, size |-> tests[t].size \div Kilo, workers |-> TeamSize[t],
   clients |-> tests[t].clients, test |-> t, life |-> restarts]

\* t.SortBy: rows of one type are in the order of their size and clients; rows
\* that do not differ in these in any.
Ordered(report) ==
  \A i, j \in DOMAIN report :
    i < j /\ report[i].type = report[j].type =>
      \/ report[i].size < report[j].size
      \/ report[i].size = report[j].size /\ report[i].clients <= report[j].clients

\* generateResults
Report ==
  /\ round > NumTests /\ rows # <<>>
  /\ \E report \in SetToSeqs({Reported(rows[i]) : i \in DOMAIN rows}) :
       Ordered(report) /\ reports' = Append(reports, report)
  /\ rows' = <<>>
  /\ UNCHANGED <<workers, tests, writable, metrics, handle, csv, lost, torn>>

\* A server that dies forgets all but the files.  It is started again, or, when
\* its benchmark was over and the workers were shut down, with new workers and
\* any configuration.
Crash ==
  /\ Restart
  /\ rows' = <<>> /\ handle' = Closed /\ lost' = {}
  /\ NewRound
  /\ torn' = IF handle.created THEN torn \cup {handle.file} ELSE torn
  /\ UNCHANGED <<writable, csv, reports>>
  /\ \/ UNCHANGED <<tests, counters, calls>>
     \/ /\ round > NumTests /\ rows = <<>> /\ \A p \in Proc : at[p] = "idle"
        /\ tests' \in Benchmarks
        /\ counters' = [p \in Proc |-> [n \in Names |-> Nothing]]
        /\ calls' = 0

Init ==
  /\ WorkersInit
  /\ tests \in Benchmarks
  /\ \E d \in Disks : writable = d.writable /\ csv = [f \in d.there |-> <<Header, Line(-1, 1)>>]
  /\ counters = [p \in Proc |-> [n \in Names |-> Nothing]]
  /\ calls = 0
  /\ result = NoResults
  /\ handle = Closed
  /\ rows = <<>> /\ reports = <<>>
  /\ before = [p \in Proc |-> Nothing]
  /\ did = [p \in Proc |-> Idle]
  /\ lost = {} /\ torn = {}

Next ==
  \/ \E p \in Proc : Take(p) \/ Put(p) \/ Operate(p) \/ Answer(p) \/ Talk(p)
  \/ StartWork /\ UNCHANGED <<tests, writable, server, metrics>>
  \/ Open
  \/ Flush
  \/ FlushFails
  \/ NoFile
  \/ Report
  \/ Crash

Spec == Init /\ [][Next]_vars

-----------------------------------------------------------------------------
(* Properties.                                                             *)

\* Every variable keeps its type; the numbers of a team's processes and the tests
\* they believe to run are right (worker IDs are given out per test), a handle is
\* open only between two tests, and calls stay in their bound.
TypeOK ==
  /\ WorkersOK
  /\ tests \in Benchmarks /\ writable \subseteq Files /\ DOMAIN csv \subseteq Files
  /\ \A p \in Proc, n \in Names : counters[p][n].fin + counters[p][n].fail <= calls
  /\ calls \in 0..MaxCalls
  /\ handle # Closed => RoundOver /\ handle.file \in DOMAIN csv \cap writable
  /\ torn \subseteq DOMAIN csv /\ lost \subseteq 1..NumTests

\* Nothing was counted under the name of its test before p joined.
Fresh(p) == before[p] = Nothing

TeamSum(f(_)) == MapThenSumSet(f, Team)

\* A row counts the operations of its test, each once, and the bytes of reads and
\* writes, even of failed ones (worker/workItems.go:137, 151), and besides just what
\* its members had counted under the test's name when they joined: nothing, whatever
\* else they did, as long as tests have names of their own and no server died, which
\* the counters outlive.
RowCounts ==
  RoundOver =>
    /\ restarts = 0 /\ (\A t, u \in 1..NumTests : tests[t].name = tests[u].name => t = u) =>
         \A p \in Team : Fresh(p)
    /\ Row.fin + Row.fail = TeamSum(LAMBDA p : did[p].n)
                              + TeamSum(LAMBDA p : before[p].fin) + TeamSum(LAMBDA p : before[p].fail)
    /\ Row.bytes = TeamSum(LAMBDA p : did[p].bytes) + TeamSum(LAMBDA p : before[p].bytes)

\* The average of a row, once the -1 of every member without a sample is taken out
\* again (server/main.go:260 averages it with the times of the others), lies between
\* the shortest and the longest call of the members that have one, be it of the load
\* or of the preparation, which is in the histograms too; and it is -1 if nobody has
\* a sample.  It says nothing of a row with a member that had counted under the
\* test's name before.
LatencyHonest ==
  RoundOver /\ (\A p \in Team : Fresh(p)) =>
    \A h \in Histogram :
      LET with  == {p \in Team : result[p].avg[h] >= 0}
          times == UNION {did[p].times : p \in with}
          n     == Cardinality(with) * Scale
          sum   == Row.avg[h] + Cardinality(Team \ with) * Scale
      IN  IF with = {} THEN sum = 0
                       ELSE \E lo, hi \in times : n * lo <= sum /\ sum <= n * hi

\* prometheus.go:46, failed_ops are "Failed S3 operations".
FailedOpsFailed ==
  RoundOver /\ (\A p \in Team : Fresh(p)) => Row.fail = TeamSum(LAMBDA p : did[p].failed)

\* A CSV file begins with its header and has no other one, also when it is found
\* in another place, or by another server, than the one that made it; only a file
\* whose first lines were never written, by a crash or a full disk, has none.
CsvHeader ==
  \A f \in DOMAIN csv :
    handle # [file |-> f, created |-> TRUE] =>
      /\ f \notin torn => csv[f] # <<>>
      /\ \A i \in DOMAIN csv[f] : csv[f][i].header <=> (i = 1 /\ f \notin torn)

\* The tests of this life of the server that have a line in f
TestsIn(f) ==
  IF f \in DOMAIN csv
  THEN {csv[f][i].test : i \in {j \in DOMAIN csv[f] : ~csv[f][j].header /\ csv[f][j].life = restarts}}
  ELSE {}

Earlier(l, k) == l.header \/ l.life < k.life \/ (l.life = k.life /\ l.test < k.test)
InOrder == \A f \in DOMAIN csv : \A i, j \in DOMAIN csv[f] : i < j => Earlier(csv[f][i], csv[f][j])

\* The tests of this life of the server are in one file in their order, each once,
\* but for those whose line could not be written, and stand
\* behind those of earlier lives and benchmarks.
RowsKept ==
  /\ TestsIn("cwd") \cup TestsIn("tmp") = (1..(round - 1)) \ lost
  /\ \E f \in Files : TestsIn(f) = {}
  /\ InOrder

\* The report has every test exactly once, though its results live in memory, the
\* CSV file may be lost, and a server that died does every test again.
ReportComplete ==
  \A k \in DOMAIN reports :
    /\ Len(reports[k]) = NumTests
    /\ {reports[k][i].test : i \in DOMAIN reports[k]} = 1..NumTests
    /\ \A i, j \in DOMAIN reports[k] : reports[k][i].life = reports[k][j].life

SameShape(r, s) ==
  r.type = s.type /\ r.size = s.size /\ r.workers = s.workers /\ r.clients = s.clients

\* Of two reports, every pair of tests of one shape, deletes apart, is at one place
\* of one chart, or another pair of that shape is in its stead (sizes are whole
\* KB); places rise along the axis, and no bar stands beside one of another shape.
ComparedOnce ==
  Len(reports) >= 2 =>
    LET charts == Charts(reports[1], reports[2])
        places == {<<c, i>> : c \in charts, i \in 1..NumTests}
    IN  /\ \A c \in charts : \A i \in DOMAIN c.axis :
             /\ SameShape(c.r1[i], c.r2[i]) /\ c.r1[i].clients = c.axis[i]
             /\ i > 1 => c.axis[i - 1] < c.axis[i]
             /\ c.r1[i].life < c.r2[i].life
        /\ \A r \in ToSet(reports[1]), s \in ToSet(reports[2]) :
             SameShape(r, s) /\ r.type # {"delete"} =>
               Cardinality({p \in places : p[2] \in DOMAIN p[1].axis /\ SameShape(p[1].r1[p[2]], r)}) = 1

-----------------------------------------------------------------------------
(* Why: what is in the files, and which rows there are.                    *)

Samples == [sum : Nat, n : Nat]
Numbers == [fin : Nat, fail : Nat, bytes : Nat, lat : Samples, gen : Samples, io : Samples]
CsvLine == [header : BOOLEAN, life : Int, test : Nat]

\* A file that was created and has no line yet is empty; others are as they were
\* left, and what is left without a header was torn.
FilesInv ==
  /\ handle \in [file : Files \cup {"none"}, created : BOOLEAN]
  /\ handle.created => handle.file \notin torn /\ csv[handle.file] = <<>>
  /\ \A f \in DOMAIN csv : csv[f] \in Seq(CsvLine)

\* The rows in memory are those of the tests before the present one, unless they
\* have been reported.
MemoryInv ==
  /\ rows \in Seq(Nat) /\ \A i \in DOMAIN rows : rows[i] = i
  /\ Len(rows) = round - 1 \/ (rows = <<>> /\ round > NumTests)

\* A later report is of a later life; one of the present life is the last there can be.
LivesInv ==
  /\ \A k \in DOMAIN reports : \A i \in DOMAIN reports[k] :
       LET life == reports[k][i].life IN
         life < restarts \/ (life = restarts /\ round > NumTests /\ rows = <<>>)
  /\ \A k, l \in DOMAIN reports : k < l =>
       \A i \in DOMAIN reports[k], j \in DOMAIN reports[l] : reports[k][i].life < reports[l][j].life

Doings == [n : Nat, failed : Nat, bytes : Nat, times : SUBSET Nat]

\* What a member counted under the name of its test is what it had when it joined
\* and what it did since, and once it is done the server has just that.
Own(p) == counters[p][tests[round].name]
TallyInv ==
  /\ before \in [Proc -> Numbers] /\ did \in [Proc -> Doings]
  /\ \A p \in Team :
       /\ Own(p).fin + Own(p).fail = before[p].fin + before[p].fail + did[p].n
       /\ Own(p).bytes = before[p].bytes + did[p].bytes
       /\ <<round, p>> \in done => result[p] = Gather(Own(p))

\* The samples of a member without others lie between two of its calls.
Between(h, times) ==
  IF h.n = 0 THEN h.sum = 0 ELSE \E lo, hi \in times : h.n * lo <= h.sum /\ h.sum <= h.n * hi
SamplesInv ==
  \A p \in Team : Fresh(p) =>
    \A h \in Histogram : Between(Own(p)[h], did[p].times)

\* A process has counted something only under the names of tests it joined.
OwnNames == \A t, u \in 1..NumTests : tests[t].name = tests[u].name => t = u
JoinedInv ==
  restarts = 0 /\ OwnNames =>
    /\ \A p \in Proc : at[p] # "idle" => <<task[p], p>> \in used
    /\ \A p \in Proc, t \in 1..NumTests : counters[p][tests[t].name] # Nothing => <<t, p>> \in used
    /\ \A p \in Team : Fresh(p)

\* A line that is not older than this life of the server is of a test that is over, and
\* in the file that Open finds; what is neither there nor lost is still to come.
Found == Preferred(DOMAIN csv \cap writable)
Past == (1..(round - 1)) \ lost
LinesInv ==
  /\ lost \subseteq 1..(round - 1)
  /\ handle # Closed => handle.file = Found
  /\ \A f \in DOMAIN csv : \A i \in DOMAIN csv[f] :
       LET l == csv[f][i] IN
         \/ l.header \/ l.life < restarts
         \/ l.life = restarts /\ l.test \in Past /\ f \in writable /\ f = Found
  /\ \A t \in Past : \E f \in DOMAIN csv : \E i \in DOMAIN csv[f] : csv[f][i] = Line(restarts, t)
  /\ InOrder

ResultsInv == counters \in [Proc -> [Names -> Numbers]] /\ FilesInv /\ MemoryInv
=============================================================================
