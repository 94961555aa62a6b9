----------------------------- MODULE MCRestore -----------------------------
(* Small instances of Restore for TLC. *)
EXTENDS Restore

CONSTANTS v1, v2

\* Queues of the instances: one track, overlapping ones, and one with a repeat.
One      == {<<v1>>}
Pair     == {<<v1, v2>>}
Overlaps == {<<v1>>, <<v1, v2>>}
Repeated == {<<v1, v2, v1>>}

\* Restores that take no time: days pass between them only.
PromptSpec ==
  Init /\ [][Next /\ (now' # now => \A w \in Workers : job[w].pc \in {"idle", "done"})]_vars

\* Threads are interchangeable, and so are categories.
Symmetry == Permutations(Workers) \cup Permutations(Categories)

=============================================================================
