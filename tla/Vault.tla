------------------------------- MODULE Vault -------------------------------
(***************************************************************************)
(* The envelope encryption of stored tokens (crypto.py): which master keys *)
(* a process loads from its environment, with which one it seals, which    *)
(* records it opens, and which it wants to seal again.                     *)
(*                                                                         *)
(* What is abstracted: a key is a number and its text an entry that has or *)
(* has not 32 bytes; a record says what it was sealed with, and opens with *)
(* that and nothing else.  The records are those of one account; FERNET_KEY *)
(* stays the same.                                                         *)
(***************************************************************************)
EXTENDS Naturals, Sequences

CONSTANTS
  KeyIds,        \* values of KMS_MASTER_KEY_ID
  MaxKeys,       \* master keys 1 .. MaxKeys; 0 for an unset variable
  Garbled,       \* the text of a key that does not decode to 32 bytes
  Bare,          \* the id of an entry written without "<key_id>:"
  Environments   \* what a process may find when it starts

Pair(id, key) == [id |-> id, key |-> key]
Entries == [id : KeyIds \cup {Bare}, key : 1 .. MaxKeys \cup {Garbled}]

ASSUME VaultAssumption ==
  /\ MaxKeys \in Nat \ {0}
  /\ Bare \notin KeyIds /\ Garbled \notin Nat
  /\ Environments \subseteq [production : BOOLEAN,
                             id : KeyIds, key : 0 .. MaxKeys \cup {Garbled},
                             previous : Seq(Entries)]

-----------------------------------------------------------------------------
(* The key ring.                                                             *)

\* The process does not start.
Refuses(env) == env.key = Garbled \/ (env.key = 0 /\ env.production)

Listed(e) == e.id # Bare /\ e.key # Garbled

Active(env, drawn) == Pair(env.id, IF env.key = 0 THEN drawn ELSE env.key)

\* Mutant: the length of an older key is not looked at.
LoadUnchecked(env, drawn) ==
  LET p == env.previous IN
  [active   |-> Active(env, drawn),
   previous |-> [i \in {j \in DOMAIN p : p[j].id # Bare} |-> p[i]]]

\* _load_master_keys: the active key, drawn at random in development if there is none,
\* and the entries that can be read, each at its place in the list.
LoadMasterKeys(env, drawn) ==
  LET p == env.previous IN
  [active   |-> Active(env, drawn),
   previous |-> [i \in {j \in DOMAIN p : Listed(p[j])} |-> p[i]]]

\* _MASTER_KEY_BY_ID: of two entries with one id the later counts, and the active key
\* comes first.
Finds(ring, id, key) ==
  LET p == ring.previous IN
  \/ \E i \in DOMAIN p : /\ p[i] = Pair(id, key)
                         /\ \A j \in DOMAIN p : j > i => p[j].id # id
  \/ ring.active = Pair(id, key) /\ \A j \in DOMAIN p : p[j].id # id

-----------------------------------------------------------------------------
(* Records: v3 names its key; v2 and Fernet do not.                          *)

NoRecord == [version |-> "none", id |-> Bare, key |-> 0]   \* ""
Unnamed(version, key) == [version |-> version, id |-> Bare, key |-> key]

\* encrypt_tokens
Sealed(ring) == [version |-> "v3", id |-> ring.active.id, key |-> ring.active.key]

\* Mutant: a record is opened with the active key, whatever it names.
OpensActive(ring, r) ==
  \/ r.version = "v3" /\ ring.active.key = r.key
  \/ r.version = "v2" /\ ring.active.key = r.key
  \/ r.version = "fernet"

\* decrypt_tokens gives something else than {}.
Opens(ring, r) ==
  \/ r.version = "v3" /\ Finds(ring, r.id, r.key)
  \/ r.version = "v2" /\ ring.active.key = r.key
  \/ r.version = "fernet"

\* Mutant: only the version counts.
NeedsReencryptVersion(ring, r) == r.version \in {"v2", "fernet"}

NeedsReencrypt(ring, r) ==
  r.version \in {"v2", "fernet"} \/ (r.version = "v3" /\ r.id # ring.active.id)

=============================================================================
