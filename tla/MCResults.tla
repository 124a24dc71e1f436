----------------------------- MODULE MCResults -----------------------------
(* Instances of Results for TLC.                                           *)
EXTENDS Results

TwoTeams == <<2, 2>>

T(name, ops, size, clients, readOption) ==
  [name |-> name, ops |-> ops, size |-> size, clients |-> clients, readOption |-> readOption]

\* A name of its own for each test, and two numbers of clients; one name for two
\* tests, of sizes that are one in whole KB; a test that only deletes.
SomeBenchmarks ==
  {<<T("a", {"write"}, 2, 2, FALSE), T("b", {"write"}, 2, 1, FALSE)>>,
   <<T("a", {"read"}, 2, 1, FALSE),  T("a", {"read"}, 3, 1, TRUE)>>,
   <<T("a", {"write"}, 2, 1, FALSE), T("b", {"delete"}, 2, 1, FALSE)>>}

ProcSymmetry == Permutations(Proc)

\* A new file here or in /tmp, one found in /tmp, one here that is write-protected,
\* and no place to write.
SomeDisks == {[writable |-> Files, there |-> {}], [writable |-> {"tmp"}, there |-> {}],
              [writable |-> Files, there |-> {"tmp"}], [writable |-> {"tmp"}, there |-> Files],
              [writable |-> {}, there |-> {"cwd"}]}

\* Every read is one of a ranged download.
RangedReads == {<<T("a", {"write"}, 2, 1, FALSE), T("b", {"read"}, 2, 1, TRUE)>>}
=============================================================================
