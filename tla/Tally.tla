------------------------------- MODULE Tally -------------------------------
(***************************************************************************)
(* The sum of a function with natural values over a finite set, stated as  *)
(* the size of a set: every x contributes one element for each unit of     *)
(* f[x].  Facts about cardinality then serve as facts about sums.          *)
(***************************************************************************)
EXTENDS Integers, FiniteSets

\* One element per unit.
Pile(f, S) == UNION {{x} \X (1 .. f[x]) : x \in S}

Total(f, S) == Cardinality(Pile(f, S))

=============================================================================
