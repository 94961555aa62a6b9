----------------------------- MODULE MCService -----------------------------
(* Small instances of Service for TLC. *)
EXTENDS Service

Env(production, id, key, previous) ==
  [production |-> production, id |-> id, key |-> key, previous |-> previous]

\* Two rotations, done as documented, with an entry that cannot be read before those that
\* can, with the id left as it was, without the old key's id; no key; a mistyped one.
MCEnvironments ==
  {Env(TRUE, "k1", 1, <<>>),
   Env(TRUE, "k2", 2, <<Pair("k1", 1)>>),
   Env(TRUE, "k3", 3, <<Pair(Bare, 2), Pair("k2", 2), Pair("k1", Garbled), Pair("k1", 1)>>),
   Env(TRUE, "k2", 2, <<Pair(Bare, 1)>>),
   Env(TRUE, "k1", 2, <<Pair("k1", 1)>>),
   Env(FALSE, "k1", 0, <<>>),
   Env(TRUE, "k1", 0, <<>>),
   Env(TRUE, "k1", Garbled, <<>>)}

=============================================================================
