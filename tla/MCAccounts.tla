----------------------------- MODULE MCAccounts -----------------------------
(* Small instances of Accounts for TLC. *)
EXTENDS Accounts, TLC

\* Threads are interchangeable, and so are identities.
Symmetry == Permutations(Workers) \cup Permutations(Googles)

=============================================================================
