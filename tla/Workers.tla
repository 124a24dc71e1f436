------------------------------- MODULE Workers -------------------------------
(***************************************************************************)
(* Worker processes in the rounds of Rounds, which Coordinator implements: *)
(* each takes part in test after test, under a worker ID that the server   *)
(* hands out anew for every team.  A server that is restarted knows none   *)
(* of the processes still busy for the old one; these notice only when     *)
(* they next talk to it.  Modules that extend this one say what a process  *)
(* does meanwhile.                                                         *)
(***************************************************************************)
EXTENDS Integers, FiniteSets

CONSTANTS
  Proc,         \* the worker processes
  NumTests, TeamSize,
  MaxRestarts   \* bound: restarts of the server

ASSUME TeamAssumption ==
  /\ IsFiniteSet(Proc)
  /\ NumTests \in Nat \ {0}
  /\ TeamSize \in [1..NumTests -> Nat \ {0}]
  /\ MaxRestarts \in Nat

VARIABLES
  round, used, members, ready, running, done,  \* as in Rounds
  at,         \* where a process stands; "told" with a dead server's "start work"
  id,         \* the number in its WorkerID, w0, w1, ...
  task,       \* w.config.Test, by its number
  restarts,
  troubled    \* history: did this round begin beside processes of an old server?

rounds  == <<round, used, members, ready, running, done>>
process == <<at, id, task>>
workers == <<rounds, process, restarts, troubled>>

\* A process has one connection for a test.
Conn == (1..NumTests) \X Proc
R == INSTANCE Rounds

\* Does the server that runs know p as a member of the team?
Current(p) == at[p] # "idle" /\ <<task[p], p>> \in members

Stale == {p \in Proc : at[p] # "idle" /\ ~Current(p)}

\* The next free worker number; and a slip that never starts over.
EveryConnection == Cardinality(used)
NextId == Cardinality(members)

\* "init" with Test, WorkerID and ID
Join(p) ==
  /\ at[p] = "idle"
  /\ R!Join(<<round, p>>)
  /\ at' = [at EXCEPT ![p] = "prepare"]
  /\ id' = [id EXCEPT ![p] = NextId]
  /\ task' = [task EXCEPT ![p] = round]
  /\ UNCHANGED <<restarts, troubled>>

Goto(p, place) == at' = [at EXCEPT ![p] = place] /\ UNCHANGED <<id, task, restarts, troubled>>

\* "preparations done"; the write fails if its server is gone
PreparationsDone(p) ==
  /\ at[p] = "prepare"
  /\ IF Current(p) THEN R!Prepare(<<task[p], p>>) /\ Goto(p, "wait")
                   ELSE UNCHANGED rounds /\ Goto(p, "idle")

StartWork == R!Start /\ UNCHANGED <<process, restarts, troubled>>

\* "start work", or the read fails; what a server that died has written may
\* still arrive
Begin(p) ==
  /\ \/ at[p] = "wait" /\ Current(p) /\ running /\ Goto(p, "load")
     \/ at[p] = "wait" /\ ~Current(p) /\ Goto(p, "idle")
     \/ at[p] = "told" /\ \E place \in {"load", "idle"} : Goto(p, place)
  /\ UNCHANGED rounds

\* "work done"; the write fails if its server is gone
WorkDone(p) ==
  /\ at[p] = "load"
  /\ Goto(p, "idle")
  /\ IF Current(p) THEN R!Finish(<<task[p], p>>) ELSE UNCHANGED rounds

RoundOver == running /\ done = members

Advance ==
  /\ R!Advance
  /\ troubled' = (Stale # {})
  /\ UNCHANGED <<process, restarts>>

Restart ==
  /\ restarts < MaxRestarts
  /\ R!Restart
  /\ restarts' = restarts + 1
  /\ troubled' = \E p \in Proc : at[p] # "idle"
  /\ \E told \in SUBSET {p \in Proc : at[p] = "wait" /\ Current(p) /\ running} :
       at' = [p \in Proc |-> IF p \in told THEN "told" ELSE at[p]]
  /\ UNCHANGED <<id, task>>

WorkersInit ==
  /\ R!Init
  /\ at = [p \in Proc |-> "idle"]
  /\ id = [p \in Proc |-> 0]
  /\ task = [p \in Proc |-> 1]
  /\ restarts = 0
  /\ troubled = FALSE

\* The team as the server knows it, and the processes that are in it.
Team == {c[2] : c \in members}

\* Rounds and processes keep their types; the members of a team have numbers of
\* their own, from 0 on, and processes nobody knows are there only in rounds
\* that began with them.
WorkersOK ==
  /\ round \in 1..(NumTests + 1)
  /\ members \subseteq used /\ used \subseteq Conn
  /\ ready \subseteq members /\ done \subseteq members /\ running \in BOOLEAN
  /\ id \in [Proc -> Nat]
  /\ at \in [Proc -> {"idle", "prepare", "wait", "told", "load"}]
  /\ task \in [Proc -> 1..NumTests]
  /\ {id[p] : p \in Team} = 0..(Cardinality(Team) - 1)
  /\ Stale # {} => troubled
  /\ restarts \in 0..MaxRestarts

\* Why: the members of a team joined it in this round, with numbers of their
\* own; load runs once all of them have prepared, nobody among them follows an
\* earlier server, and whoever has finished is idle until the next round.
TeamInv ==
  /\ members = {round} \X Team
  /\ \A p \in Team : task[p] = round
  /\ \A p, q \in Team : id[p] = id[q] => p = q
  /\ running => round <= NumTests /\ ready = members /\ Cardinality(members) = TeamSize[round]
  /\ \A p \in Team :
       /\ at[p] = "prepare" => <<round, p>> \notin ready
       /\ at[p] = "load" => running
       /\ at[p] # "told"
       /\ <<round, p>> \in done => at[p] = "idle"
=============================================================================
