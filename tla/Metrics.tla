------------------------------ MODULE Metrics ------------------------------
(***************************************************************************)
(* The numbers of one test name in one worker process (worker/workItems.go,*)
(* worker/s3.go, worker/prometheus.go): what an operation adds to them, the *)
(* result a worker sends, and how the server sums those of a team          *)
(* (sumBenchmarkResults, server/main.go).  Bytes are counted in objects.   *)
(***************************************************************************)
EXTENDS Integers, FiniteSets, FiniteSetsExt

CONSTANT Scale  \* averages are in 1/Scale; a multiple of every number of samples

Histogram == {"lat", "gen", "io"}  \* ops_latency, gen_bytes_latency, io_copy_latency
NoSamples == [sum |-> 0, n |-> 0]
Nothing == [fin |-> 0, fail |-> 0, bytes |-> 0,
            lat |-> NoSamples, gen |-> NoSamples, io |-> NoSamples]

Observe(h, d) == [sum |-> h.sum + d, n |-> h.n + 1]

Failed(c, n) == [c EXCEPT !.fail = @ + n]
Finished(c, n) == [c EXCEPT !.fin = @ + n]
Counted(c, ok) == IF ok THEN Finished(c, 1) ELSE Failed(c, 1)

\* putObject, whichever client it uses: only what succeeds has a latency.
PutObject(c, ok, d) ==
  LET generated == [c EXCEPT !.gen = Observe(@, d)]
  IN  IF ok THEN [generated EXCEPT !.lat = Observe(@, d)] ELSE generated

\* getObject is content with an object of the expected length.  With read_option
\* it never learns the length.
ReadOk(outcome, readOption) == outcome = "ok" /\ ~readOption
ReadCopies(outcome, readOption) == outcome # "error" /\ ~readOption

\* work.Do of an operation whose call ends with outcome after d: everything but a
\* failed PUT has a latency, and the bytes count whatever the outcome.
Do(c, op, readOption, outcome, d) ==
  CASE op = "read" ->
         LET copied == IF ReadCopies(outcome, readOption) THEN [c EXCEPT !.io = Observe(@, d)] ELSE c
         IN  [Counted(copied, ReadOk(outcome, readOption)) EXCEPT !.lat = Observe(@, d), !.bytes = @ + 1]
    [] op = "write" ->
         [Counted(PutObject(c, outcome = "ok", d), outcome = "ok") EXCEPT !.bytes = @ + 1]
    [] OTHER ->
         [Counted(c, outcome = "ok") EXCEPT !.lat = Observe(@, d)]

\* averageHistogramForTest: -1 without a sample; and a slip, 0.
ZeroWithout == 0
Without == -Scale
Average(h) == IF h.n = 0 THEN Without ELSE (h.sum * Scale) \div h.n

\* getCurrentPromValues
Gather(c) == [fin |-> c.fin, fail |-> c.fail, bytes |-> c.bytes,
              avg |-> [h \in Histogram |-> Average(c[h])]]

\* sumBenchmarkResults; averages stay multiplied by the number of results.
Sum(team, result) ==
  [fin   |-> MapThenSumSet(LAMBDA p : result[p].fin, team),
   fail  |-> MapThenSumSet(LAMBDA p : result[p].fail, team),
   bytes |-> MapThenSumSet(LAMBDA p : result[p].bytes, team),
   avg   |-> [h \in Histogram |-> MapThenSumSet(LAMBDA p : result[p].avg[h], team)]]
=============================================================================
