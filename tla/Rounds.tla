------------------------------- MODULE Rounds -------------------------------
(***************************************************************************)
(* What the server promises whoever reads its report: tests run one after  *)
(* the other in the order of the configuration; a test is run by a team of *)
(* test.Workers connections that served no earlier test; load starts only  *)
(* once all of them have prepared, and the next test only once all of them *)
(* have finished.  A server that is restarted begins again.                *)
(***************************************************************************)
EXTENDS Integers, FiniteSets

CONSTANTS Conn, NumTests, TeamSize

VARIABLES
  round,    \* the test that is run; NumTests + 1 after the last
  used,     \* connections given to this or an earlier test
  members,  \* the team of the round
  ready,    \* members that have prepared
  running,  \* may load be put on the store?
  done      \* members that have finished their load

vars == <<round, used, members, ready, running, done>>

Init == round = 1 /\ used = {} /\ members = {} /\ ready = {} /\ running = FALSE /\ done = {}

Join(c) ==
  /\ round <= NumTests
  /\ Cardinality(members) < TeamSize[round]
  /\ c \notin used
  /\ used' = used \cup {c}
  /\ members' = members \cup {c}
  /\ UNCHANGED <<round, ready, running, done>>

Prepare(c) ==
  /\ ~running
  /\ c \in members
  /\ ready' = ready \cup {c}
  /\ UNCHANGED <<round, used, members, running, done>>

Start ==
  /\ round <= NumTests
  /\ ~running
  /\ Cardinality(members) = TeamSize[round]
  /\ ready = members
  /\ running' = TRUE
  /\ UNCHANGED <<round, used, members, ready, done>>

Finish(c) ==
  /\ running
  /\ c \in members
  /\ done' = done \cup {c}
  /\ UNCHANGED <<round, used, members, ready, running>>

Advance ==
  /\ running
  /\ done = members
  /\ round' = round + 1
  /\ members' = {} /\ ready' = {} /\ running' = FALSE /\ done' = {}
  /\ UNCHANGED used

Restart ==
  /\ round' = 1 /\ used' = {}
  /\ members' = {} /\ ready' = {} /\ running' = FALSE /\ done' = {}

Next ==
  \/ \E c \in Conn : Join(c) \/ Prepare(c) \/ Finish(c)
  \/ Start
  \/ Advance
  \/ Restart

Spec == Init /\ [][Next]_vars
=============================================================================
