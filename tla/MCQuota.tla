------------------------------ MODULE MCQuota ------------------------------
(* Small instances of Quota for TLC. *)
EXTENDS Quota, TLC

\* Threads are interchangeable, and so are accounts.
Symmetry == Permutations(Workers) \cup Permutations(Users)

=============================================================================
