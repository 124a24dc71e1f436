--------------------------- MODULE WorkersProofs ---------------------------
(***************************************************************************)
(* Proofs about the worker processes in the rounds of the server, for any  *)
(* number of processes, tests, team sizes and restarts: the members of a   *)
(* team are numbered from 0 on without a gap or a repetition, load runs    *)
(* behind the barrier, and processes of an earlier server are known.       *)
(***************************************************************************)
EXTENDS Workers, FiniteSetTheorems, WellFoundedInduction, TLAPS

\* Numbers have a least one.
LEMMA LeastOf == ASSUME NEW S, S \subseteq Nat, S # {} PROVE \E i \in S : \A j \in S : i <= j
<1>1. PICK i \in S : \A j \in S : ~(<<j, i>> \in OpToRel(<, Nat))
  BY NatLessThanWellFounded, WFMin, Zenon
<1>2. \A j \in S : ~(j < i)
  BY <1>1 DEF OpToRel
<1> QED
  BY <1>2

LEMMA SameCardinality == ASSUME NEW S PROVE R!Cardinality(S) = Cardinality(S)
  BY DEF R!Cardinality, Cardinality

\* A team is finite, and as large as the members are many.
LEMMA TeamType ==
  ASSUME WorkersOK, TeamInv
  PROVE  /\ Team \subseteq Proc /\ IsFiniteSet(Team) /\ Cardinality(Team) \in Nat
         /\ IsFiniteSet(members) /\ Cardinality(members) = Cardinality(Team)
         /\ round \in Nat
         /\ \A p \in Proc : p \in Team <=> <<round, p>> \in members
<1>1. Team \subseteq Proc
  BY DEF WorkersOK, Conn, Team
<1>2. IsFiniteSet(Team) /\ Cardinality(Team) \in Nat
  BY <1>1, TeamAssumption, FS_Subset, FS_CardinalityType
<1>3. \A p \in Proc : p \in Team <=> <<round, p>> \in members
  BY DEF TeamInv, Team
<1>4. round \in Nat
  BY TeamAssumption DEF WorkersOK
<1>5. IsFiniteSet({round}) /\ Cardinality({round}) = 1
  BY FS_Singleton
<1>6. IsFiniteSet({round} \X Team) /\ Cardinality({round} \X Team) = 1 * Cardinality(Team)
  BY <1>2, <1>5, FS_Product
<1>7. 1 * Cardinality(Team) = Cardinality(Team)
  BY <1>2
<1> QED
  BY <1>1, <1>2, <1>3, <1>4, <1>6, <1>7 DEF TeamInv

\* A member that is busy is one the server knows, at its present test.
LEMMA BusyMember ==
  ASSUME WorkersOK, TeamInv, NEW p \in Proc, at[p] # "idle"
  PROVE  Current(p) <=> p \in Team
<1>1. Current(p) => p \in Team
  BY DEF Current, Team
<1>2. p \in Team => task[p] = round /\ <<round, p>> \in members
  BY TeamType DEF TeamInv
<1> QED
  BY <1>1, <1>2 DEF Current

\* Where nobody is a stranger, whoever is busy is a member.
LEMMA NoStranger ==
  ASSUME WorkersOK, TeamInv, ~troubled, NEW p \in Proc, at[p] # "idle"
  PROVE  p \in Team
  BY BusyMember DEF WorkersOK, Stale

(***************************************************************************)
(* Joining: the next number is free.                                       *)
(***************************************************************************)

LEMMA JoinStep ==
  ASSUME WorkersOK, TeamInv, NEW p \in Proc, Join(p)
  PROVE  /\ round \in 1..NumTests /\ p \notin Team /\ Team' = Team \cup {p}
         /\ id' = [id EXCEPT ![p] = Cardinality(Team)] /\ ~running
         /\ at[p] = "idle" /\ at' = [at EXCEPT ![p] = "prepare"] /\ task' = [task EXCEPT ![p] = round]
         /\ members' = members \cup {<<round, p>>} /\ used' = used \cup {<<round, p>>}
         /\ UNCHANGED <<round, ready, running, done, restarts, troubled>>
<1>1. /\ at[p] = "idle" /\ round <= NumTests /\ <<round, p>> \notin used
      /\ members' = members \cup {<<round, p>>} /\ used' = used \cup {<<round, p>>}
      /\ R!Cardinality(members) < TeamSize[round]
      /\ UNCHANGED <<round, ready, running, done, restarts, troubled>>
      /\ id' = [id EXCEPT ![p] = NextId]
      /\ at' = [at EXCEPT ![p] = "prepare"] /\ task' = [task EXCEPT ![p] = round]
  BY DEF Join, R!Join
<1>2. round \in 1..NumTests
  BY <1>1, TeamAssumption DEF WorkersOK
<1>3. p \notin Team
  BY <1>1, TeamType DEF WorkersOK
<1>4. Team' = Team \cup {p}
  BY <1>1 DEF Team
<1>5. NextId = Cardinality(Team)
  BY TeamType DEF NextId
<1>6. ~running
  <2>1. R!Cardinality(members) = Cardinality(members) /\ Cardinality(members) \in Nat
    BY SameCardinality, TeamType
  <2>2. TeamSize[round] \in Nat
    BY <1>2, TeamAssumption
  <2> QED
    BY <1>1, <2>1, <2>2 DEF TeamInv
<1> QED
  BY <1>1, <1>2, <1>3, <1>4, <1>5, <1>6

LEMMA JoinOK ==
  ASSUME WorkersOK, TeamInv, NEW p \in Proc, Join(p)
  PROVE  WorkersOK' /\ TeamInv'
<1> DEFINE k == Cardinality(Team)
<1>0. k \in Nat /\ Team \subseteq Proc /\ IsFiniteSet(Team)
  BY TeamType
<1>1. <<round, p>> \in Conn
  BY JoinStep DEF Conn
<1>2. Cardinality(Team') = k + 1
  BY <1>0, JoinStep, FS_AddElement
<1>3. \A q \in Team : id'[q] = id[q] /\ id[q] \in 0..(k - 1)
  <2>1. \A q \in Team : id[q] \in 0..(k - 1)
    BY DEF WorkersOK
  <2> QED
    BY <1>0, <2>1, JoinStep DEF WorkersOK
<1>4. id'[p] = k
  BY JoinStep DEF WorkersOK
<1>5. {id'[q] : q \in Team'} = 0..(Cardinality(Team') - 1)
  <2>1. {id'[q] : q \in Team'} = {id[q] : q \in Team} \cup {k}
    BY <1>3, <1>4, JoinStep
  <2>2. {id[q] : q \in Team} = 0..(k - 1)
    BY DEF WorkersOK
  <2>3. (0..(k - 1)) \cup {k} = 0..k
    BY <1>0
  <2>4. (k + 1) - 1 = k
    BY <1>0
  <2> QED
    BY <1>2, <2>1, <2>2, <2>3, <2>4
<1>6. ASSUME NEW q \in Proc PROVE Current(q)' <=> Current(q) \/ q = p
  BY JoinStep DEF Current, WorkersOK
<1>7. Stale' \subseteq Stale
  <2>1. ASSUME NEW q \in Proc, q \in Stale' PROVE q \in Stale
    <3>1. q # p /\ ~Current(q) /\ at'[q] # "idle"
      BY <1>6, <2>1 DEF Stale
    <3> QED
      BY <3>1, JoinStep DEF Stale, WorkersOK
  <2> QED
    BY <2>1 DEF Stale
<1>8. WorkersOK'
  <2>1. id' \in [Proc -> Nat] /\ task' \in [Proc -> 1..NumTests]
        /\ at' \in [Proc -> {"idle", "prepare", "wait", "told", "load"}]
    BY <1>0, JoinStep DEF WorkersOK
  <2>2. /\ members' \subseteq used' /\ used' \subseteq Conn /\ ready' \subseteq members' /\ done' \subseteq members'
        /\ running' \in BOOLEAN /\ round' \in 1..(NumTests + 1) /\ restarts' \in 0..MaxRestarts
        /\ Stale' # {} => troubled'
    BY <1>1, <1>7, JoinStep DEF WorkersOK
  <2> QED
    BY <1>5, <2>1, <2>2 DEF WorkersOK
<1>9. TeamInv'
  <2>1. members' = {round'} \X Team'
    BY JoinStep DEF TeamInv
  <2>2. \A q \in Team' : task'[q] = round'
    BY <1>0, JoinStep DEF TeamInv, WorkersOK
  <2>3. \A q, r \in Team' : id'[q] = id'[r] => q = r
    <3>1. \A q \in Team : id'[q] # k
      BY <1>0, <1>3
    <3> QED
      BY <1>3, <1>4, <3>1, JoinStep DEF TeamInv
  <2>4. <<round, p>> \notin members
    BY TeamType, JoinStep
  <2>5. \A q \in Team' : /\ at'[q] = "prepare" => <<round', q>> \notin ready'
                         /\ at'[q] = "load" => running'
                         /\ at'[q] # "told"
                         /\ <<round', q>> \in done' => at'[q] = "idle"
    BY <2>4, <1>0, JoinStep DEF TeamInv, WorkersOK
  <2> QED
    BY <2>1, <2>2, <2>3, <2>5, JoinStep DEF TeamInv
<1> QED
  BY <1>8, <1>9

(***************************************************************************)
(* A process goes on; the server does.                                     *)
(***************************************************************************)

\* A process that goes on within a round stays what it is to the server, unless
\* it is idle now; and then it is no stranger either.
LEMMA GoOn ==
  ASSUME WorkersOK, NEW p \in Proc, NEW place \in {"idle", "wait", "load"}, Goto(p, place),
         UNCHANGED <<round, used, members>>, at[p] # "idle",
         ready' \subseteq members, done' \subseteq members, running' \in BOOLEAN
  PROVE  WorkersOK' /\ Team' = Team
<1>1. /\ at' = [at EXCEPT ![p] = place] /\ UNCHANGED <<id, task, restarts, troubled>>
      /\ at \in [Proc -> {"idle", "prepare", "wait", "told", "load"}]
  BY DEF Goto, WorkersOK
<1>2. Team' = Team
  BY DEF Team
<1>3. Stale' \subseteq Stale
  <2>1. ASSUME NEW q \in Stale' PROVE q \in Stale
    <3>1. q \in Proc /\ at'[q] # "idle" /\ <<task[q], q>> \notin members
      BY <1>1 DEF Stale, Current
    <3>2. at[q] # "idle"
      BY <1>1, <3>1
    <3> QED
      BY <3>1, <3>2 DEF Stale, Current
  <2> QED
    BY <2>1
<1>4. at' \in [Proc -> {"idle", "prepare", "wait", "told", "load"}]
  BY <1>1
<1> QED
  BY <1>1, <1>2, <1>3, <1>4 DEF WorkersOK

LEMMA PreparationsDoneOK ==
  ASSUME WorkersOK, TeamInv, NEW p \in Proc, PreparationsDone(p)
  PROVE  WorkersOK' /\ TeamInv' /\ Team' = Team
<1>1. CASE Current(p)
  <2>1. /\ ~running /\ at[p] = "prepare" /\ p \in Team /\ ready' = ready \cup {<<round, p>>} /\ <<round, p>> \in members
        /\ UNCHANGED <<round, used, members, running, done>> /\ Goto(p, "wait") /\ task[p] = round
    BY <1>1, BusyMember, TeamType DEF PreparationsDone, R!Prepare, TeamInv
  <2>2. WorkersOK' /\ Team' = Team
    BY <2>1, GoOn DEF WorkersOK
  <2> QED
    BY <2>1, <2>2 DEF TeamInv, Goto, WorkersOK
<1>2. CASE ~Current(p)
  <2>1. at[p] = "prepare" /\ p \notin Team /\ UNCHANGED rounds /\ Goto(p, "idle")
    BY <1>2, BusyMember DEF PreparationsDone
  <2>2. WorkersOK' /\ Team' = Team
    BY <2>1, GoOn DEF WorkersOK, rounds
  <2> QED
    BY <2>1, <2>2 DEF TeamInv, Goto, WorkersOK, rounds
<1> QED
  BY <1>1, <1>2

LEMMA BeginOK ==
  ASSUME WorkersOK, TeamInv, NEW p \in Proc, Begin(p)
  PROVE  WorkersOK' /\ TeamInv' /\ Team' = Team
<1>0. at[p] = "told" => p \notin Team
  BY DEF TeamInv
<1>1. /\ at[p] \in {"wait", "told"} /\ UNCHANGED rounds
      /\ \/ running /\ Goto(p, "load") /\ p \in Team
         \/ \E place \in {"load", "idle"} : Goto(p, place) /\ p \notin Team
  BY <1>0, BusyMember DEF Begin
<1>2. WorkersOK' /\ Team' = Team
  BY <1>1, GoOn DEF WorkersOK, rounds
<1>3. /\ p \in Team => running /\ Goto(p, "load") /\ <<round, p>> \notin done
      /\ at'[p] # "prepare"
  <2>1. p \in Team => <<round, p>> \notin done
    BY <1>1 DEF TeamInv
  <2> QED
    BY <1>1, <2>1, BusyMember DEF Goto, WorkersOK
<1> QED
  <2>1. /\ UNCHANGED <<round, members, ready, running, done, id, task>>
        /\ \A q \in Proc : q # p => at'[q] = at[q]
        /\ p \in Team => at'[p] = "load"
    BY <1>1, <1>3 DEF Goto, WorkersOK, rounds
  <2>2. \A q \in Team' : /\ at'[q] = "prepare" => <<round', q>> \notin ready'
                         /\ at'[q] = "load" => running'
                         /\ at'[q] # "told"
                         /\ <<round', q>> \in done' => at'[q] = "idle"
    BY <1>2, <1>3, <2>1, TeamType DEF TeamInv
  <2> QED
    BY <1>2, <2>1, <2>2 DEF TeamInv

LEMMA WorkDoneOK ==
  ASSUME WorkersOK, TeamInv, NEW p \in Proc, WorkDone(p)
  PROVE  WorkersOK' /\ TeamInv' /\ Team' = Team
<1>1. at[p] = "load" /\ Goto(p, "idle")
  BY DEF WorkDone
<1>2. CASE Current(p)
  <2>1. /\ p \in Team /\ done' = done \cup {<<round, p>>} /\ <<round, p>> \in members
        /\ UNCHANGED <<round, used, members, ready, running>> /\ task[p] = round
    BY <1>1, <1>2, BusyMember, TeamType DEF WorkDone, R!Finish, TeamInv
  <2>2. WorkersOK' /\ Team' = Team
    BY <1>1, <2>1, GoOn DEF WorkersOK
  <2> QED
    BY <1>1, <2>1, <2>2 DEF TeamInv, Goto, WorkersOK
<1>3. CASE ~Current(p)
  <2>1. p \notin Team /\ UNCHANGED rounds
    BY <1>1, <1>3, BusyMember DEF WorkDone
  <2>2. WorkersOK' /\ Team' = Team
    BY <1>1, <2>1, GoOn DEF WorkersOK, rounds
  <2> QED
    BY <1>1, <2>1, <2>2 DEF TeamInv, Goto, WorkersOK, rounds
<1> QED
  BY <1>2, <1>3

\* The barrier: load may run once every member is ready.
LEMMA StartWorkOK ==
  ASSUME WorkersOK, TeamInv, StartWork
  PROVE  WorkersOK' /\ TeamInv' /\ Team' = Team
<1>1. /\ round <= NumTests /\ ready = members /\ R!Cardinality(members) = TeamSize[round] /\ running' = TRUE
      /\ UNCHANGED <<round, used, members, ready, done, at, id, task, restarts, troubled>>
  BY DEF StartWork, R!Start, process
<1>2. Cardinality(members) = TeamSize[round]
  BY <1>1, SameCardinality
<1>3. Team' = Team /\ Stale' = Stale
  BY <1>1 DEF Team, Stale, Current
<1>4. WorkersOK'
  BY <1>1, <1>3 DEF WorkersOK
<1>5. TeamInv'
  BY <1>1, <1>2, <1>3 DEF TeamInv
<1> QED
  BY <1>3, <1>4, <1>5

\* A team that has nobody.
LEMMA NoTeam ==
  ASSUME members = {}
  PROVE  Team = {} /\ {id[p] : p \in Team} = 0..(Cardinality(Team) - 1)
<1>1. Team = {}
  BY DEF Team
<1>2. Cardinality(Team) = 0 /\ 0..(0 - 1) = {}
  BY <1>1, FS_EmptySet
<1> QED
  BY <1>1, <1>2

\* Whoever is busy when the server advances or starts again is a stranger to it.
LEMMA RoundBegins ==
  ASSUME WorkersOK, round' \in 1..(NumTests + 1), used' \subseteq Conn,
         members' = {} /\ ready' = {} /\ running' = FALSE /\ done' = {},
         UNCHANGED <<id, task>>, at' \in [Proc -> {"idle", "prepare", "wait", "told", "load"}],
         restarts' \in 0..MaxRestarts, (\E p \in Proc : at'[p] # "idle") => troubled'
  PROVE  WorkersOK' /\ TeamInv' /\ Team' = {}
<1>1. Team' = {} /\ {id'[p] : p \in Team'} = 0..(Cardinality(Team') - 1)
  <2>1. Team' = {}
    BY DEF Team
  <2>2. Cardinality(Team') = 0 /\ 0..(0 - 1) = {}
    BY <2>1, FS_EmptySet
  <2> QED
    BY <2>1, <2>2
<1>2. Stale' # {} => troubled'
  BY DEF Stale
<1>3. WorkersOK'
  BY <1>1, <1>2 DEF WorkersOK
<1>4. TeamInv'
  BY <1>1 DEF TeamInv
<1> QED
  BY <1>1, <1>3, <1>4

LEMMA AdvanceOK ==
  ASSUME WorkersOK, TeamInv, Advance
  PROVE  WorkersOK' /\ TeamInv' /\ Team' = {}
<1>1. /\ running /\ done = members /\ round' = round + 1
      /\ members' = {} /\ ready' = {} /\ running' = FALSE /\ done' = {}
      /\ UNCHANGED <<used, process, restarts>> /\ troubled' = (Stale # {})
  BY DEF Advance, R!Advance
<1>2. round <= NumTests
  BY <1>1 DEF TeamInv
<1>3. (\E p \in Proc : at[p] # "idle") => Stale # {}
  <2>1. ASSUME NEW p \in Proc, at[p] # "idle" PROVE p \in Stale
    <3>1. p \in Team => <<round, p>> \in done
      BY <1>1, TeamType
    <3>2. p \notin Team
      BY <2>1, <3>1 DEF TeamInv
    <3> QED
      BY <2>1, <3>2, BusyMember DEF Stale
  <2> QED
    BY <2>1
<1>4. round' \in 1..(NumTests + 1)
  BY <1>1, <1>2, TeamAssumption DEF WorkersOK
<1> QED
  BY <1>1, <1>3, <1>4, RoundBegins DEF WorkersOK, process

\* Whoever is busy stays busy when the server dies.
LEMMA RestartPlaces ==
  ASSUME WorkersOK, Restart
  PROVE  /\ at' \in [Proc -> {"idle", "prepare", "wait", "told", "load"}]
         /\ \A p \in Proc : at'[p] = at[p] \/ (at[p] = "wait" /\ at'[p] = "told")
         /\ \A p \in Proc : at'[p] # "idle" <=> at[p] # "idle"
<1>1. PICK told \in SUBSET {p \in Proc : at[p] = "wait" /\ Current(p) /\ running} :
        at' = [p \in Proc |-> IF p \in told THEN "told" ELSE at[p]]
  BY DEF Restart
<1> QED
  BY <1>1 DEF WorkersOK

LEMMA RestartOK ==
  ASSUME WorkersOK, Restart
  PROVE  WorkersOK' /\ TeamInv' /\ Team' = {}
<1>1. /\ round' = 1 /\ used' = {}
      /\ members' = {} /\ ready' = {} /\ running' = FALSE /\ done' = {}
      /\ UNCHANGED <<id, task>> /\ restarts' = restarts + 1 /\ restarts < MaxRestarts
      /\ troubled' = \E p \in Proc : at[p] # "idle"
  BY DEF Restart, R!Restart
<1>2. restarts' \in 0..MaxRestarts /\ 1 \in 1..(NumTests + 1)
  BY <1>1, TeamAssumption DEF WorkersOK
<1>3. /\ at' \in [Proc -> {"idle", "prepare", "wait", "told", "load"}]
      /\ \A p \in Proc : at'[p] # "idle" => at[p] # "idle"
  BY RestartPlaces
<1> QED
  BY <1>1, <1>2, <1>3, RoundBegins

LEMMA WorkersInitOK == WorkersInit => WorkersOK /\ TeamInv /\ Team = {}
<1> SUFFICES ASSUME WorkersInit PROVE WorkersOK /\ TeamInv /\ Team = {}
  OBVIOUS
<1>1. /\ round = 1 /\ used = {} /\ members = {} /\ ready = {} /\ running = FALSE /\ done = {}
      /\ at = [p \in Proc |-> "idle"] /\ id = [p \in Proc |-> 0] /\ task = [p \in Proc |-> 1]
      /\ restarts = 0
  BY DEF WorkersInit, R!Init
<1>2. 1 \in 1..NumTests /\ 1 \in 1..(NumTests + 1) /\ 0 \in 0..MaxRestarts
  BY TeamAssumption
<1>3. Team = {} /\ {id[p] : p \in Team} = 0..(Cardinality(Team) - 1)
  BY <1>1, NoTeam
<1>4. Stale = {}
  BY <1>1 DEF Stale
<1>5. WorkersOK
  BY <1>1, <1>2, <1>3, <1>4 DEF WorkersOK
<1>6. TeamInv
  BY <1>1, <1>3 DEF TeamInv
<1> QED
  BY <1>3, <1>5, <1>6

\* What any step of a module that extends Workers does to the processes.
WorkersStep ==
  \/ \E p \in Proc : Join(p) \/ PreparationsDone(p) \/ Begin(p) \/ WorkDone(p)
  \/ StartWork
  \/ Advance
  \/ Restart
  \/ UNCHANGED workers

\* Numbers and barrier, whatever the processes do besides.
LEMMA WorkersStepOK == WorkersOK /\ TeamInv /\ WorkersStep => WorkersOK' /\ TeamInv'
<1> SUFFICES ASSUME WorkersOK, TeamInv, WorkersStep PROVE WorkersOK' /\ TeamInv'
  OBVIOUS
<1>1. CASE UNCHANGED workers
  <2>1. UNCHANGED <<round, used, members, ready, running, done, at, id, task, restarts, troubled>>
    BY <1>1 DEF workers, rounds, process
  <2>2. Team' = Team /\ Stale' = Stale
    BY <2>1 DEF Team, Stale, Current
  <2>3. WorkersOK'
    BY <2>1, <2>2 DEF WorkersOK
  <2> QED
    BY <2>1, <2>2, <2>3 DEF TeamInv
<1> QED
  BY <1>1, JoinOK, PreparationsDoneOK, BeginOK, WorkDoneOK, StartWorkOK, AdvanceOK, RestartOK DEF WorkersStep
=============================================================================
