-------------------------------- MODULE Load --------------------------------
(***************************************************************************)
(* What a performance test may do to the objects of its own worker: the    *)
(* preparation only adds some, the load removes none but those of delete   *)
(* items, the clean-up only removes, and between two tests of the worker   *)
(* nothing is said.                                                        *)
(***************************************************************************)
CONSTANT Deletable   \* the objects of the delete items

VARIABLES phase, objs

vars == <<phase, objs>>

Phase == {"idle", "prepare", "load", "clean"}

Init == phase \in Phase

Prepare == phase = "prepare" /\ phase' \in {"prepare", "load", "idle"} /\ objs \subseteq objs'

Work == phase = "load" /\ phase' \in {"load", "clean", "idle"} /\ objs \ Deletable \subseteq objs'

Clean == phase = "clean" /\ phase' \in {"clean", "idle"} /\ objs' \subseteq objs

Rest == phase = "idle" /\ phase' \in {"idle", "prepare"}

Next == Prepare \/ Work \/ Clean \/ Rest

Spec == Init /\ [][Next]_vars
=============================================================================
