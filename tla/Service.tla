------------------------------ MODULE Service ------------------------------
(***************************************************************************)
(* A process of the service from start to stop (main.py): it loads the     *)
(* master keys its environment has this time, brings the schema up to date *)
(* and serves; between two processes the operator may change the keys, run *)
(* the migrations or roll them back.  What lasts is the database: its      *)
(* schema, and the record in which one account's tokens are sealed.        *)
(*                                                                         *)
(* What is abstracted: of the requests, what they do to the record, that   *)
(* is sign-ins, and restores up to their outcome at YouTube (Credentials   *)
(* has the tokens inside, Restore the calls).                              *)
(***************************************************************************)
EXTENDS Migrations, Vault

CONSTANTS Workers   \* threads that serve requests

VARIABLES
  record,   \* encrypted_token_json of the account
  given,    \* what the process found in its environment
  ring,     \* MASTER_KEYS
  used,     \* history: the id and key that processes have sealed with
  thread    \* what each thread does next: PCs

vaultVars   == <<record, given, ring, used, thread>>
serviceVars == <<schemaVars, vaultVars>>

\* save: commit of a sign-in; reencrypt: of the record sealed again; call: the YouTube
\* calls of a restore; wipe: mark_needs_reconnect
PCs == {"idle", "save", "reencrypt", "call", "wipe"}

NoEnv  == [production |-> FALSE, id |-> Bare, key |-> 0, previous |-> <<>>]
NoRing == LoadMasterKeys(NoEnv, 0)
Idle   == [w \in Workers |-> "idle"]

\* What processes given these environments may have left, in this release or an earlier.
Init ==
  /\ SchemaInit
  /\ record \in {NoRecord, Unnamed("fernet", 0)}
       \cup UNION {{Unnamed("v2", env.key), Sealed([active |-> Pair(env.id, env.key)])} :
                      env \in {e \in Environments : e.key \in 1 .. MaxKeys}}
  /\ used = IF record.version = "v3" THEN {Pair(record.id, record.key)} ELSE {}
  /\ given = NoEnv /\ ring = NoRing
  /\ thread = Idle

-----------------------------------------------------------------------------
(* The process.                                                              *)

\* Keys first (auth imports crypto), then create_all; apply_migrations follows.
Start ==
  /\ CreateAll
  /\ \E env \in Environments :
       /\ ~Refuses(env)
       /\ given' = env
       /\ ring' = LoadMasterKeys(env, MaxKeys + starts')
       /\ used' = used \cup {ring'.active}
  /\ UNCHANGED <<record, thread>>

SchemaWork ==
  /\ RunMigrations \/ UndoLast \/ SchemaStep \/ ApplyFails \/ UndoFails
  /\ UNCHANGED vaultVars

\* Stopped or killed, in the midst of requests.
Exit ==
  /\ Stop \/ Killed
  /\ given' = NoEnv /\ ring' = NoRing
  /\ thread' = Idle
  /\ UNCHANGED <<record, used>>

-----------------------------------------------------------------------------
(* Requests.  Their first SELECT of the user fails if a column is missing.   *)

Goes(w, pc) == thread' = [thread EXCEPT ![w] = pc]

Accept(w, pc) ==
  /\ phase = "up" /\ Serves("users")
  /\ thread[w] = "idle"
  /\ Goes(w, pc)
  /\ UNCHANGED <<schemaVars, record, given, ring, used>>

SignIn(w) == Accept(w, "save")

\* Mutant: whether the record could be opened is asked after it is sealed again.
RestoreUnread(w) ==
  /\ record # NoRecord
  /\ IF NeedsReencrypt(ring, record) THEN Accept(w, "reencrypt")
     ELSE Opens(ring, record) /\ Accept(w, "call")

\* A record that cannot be opened is left alone, and the answer is 400.
Restore(w) ==
  /\ Opens(ring, record)
  /\ Accept(w, IF NeedsReencrypt(ring, record) THEN "reencrypt" ELSE "call")

Commits(w, r, pc) ==
  /\ record' = r
  /\ Goes(w, pc)
  /\ UNCHANGED <<schemaVars, given, ring, used>>

Save(w)      == thread[w] = "save"      /\ Commits(w, Sealed(ring), "idle")
Reencrypt(w) == thread[w] = "reencrypt" /\ Commits(w, Sealed(ring), "call")
Wipe(w)      == thread[w] = "wipe"      /\ Commits(w, NoRecord, "idle")

\* YouTube answers, or refuses the token.
CallEnds(w) ==
  /\ thread[w] = "call"
  /\ \E pc \in {"idle", "wipe"} : Goes(w, pc)
  /\ UNCHANGED <<schemaVars, record, given, ring, used>>

\* Mutant: a re-encryption that fails is left to the next restore.
CommitFailsGoesOn(w) ==
  /\ thread[w] \in {"save", "reencrypt", "wipe"}
  /\ faults < MaxFaults /\ faults' = faults + 1
  /\ Goes(w, IF thread[w] = "reencrypt" THEN "call" ELSE "idle")
  /\ UNCHANGED <<dialect, schema, view, phase, at, found, calm, starts, record, given, ring, used>>

\* The answer is an error 500; after a wipe it is the 400 of the restore.
CommitFails(w) ==
  /\ thread[w] \in {"save", "reencrypt", "wipe"}
  /\ faults < MaxFaults /\ faults' = faults + 1
  /\ Goes(w, "idle")
  /\ UNCHANGED <<dialect, schema, view, phase, at, found, calm, starts, record, given, ring, used>>

Request(w) == \/ SignIn(w) \/ Restore(w) \/ Save(w) \/ Reencrypt(w) \/ CallEnds(w) \/ Wipe(w)
              \/ CommitFails(w)

Next == Start \/ SchemaWork \/ Exit \/ \E w \in Workers : Request(w)

Spec == Init /\ [][Next]_serviceVars

\* A startup that is not killed goes on to its end.
FairSpec == Spec /\ WF_serviceVars(SchemaWork /\ phase = "boot")

-----------------------------------------------------------------------------
(* Type invariant: the schema's, and the record, the keys and the threads.     *)
TypeOK ==
  /\ SchemaTypeOK
  /\ record.version \in {"none", "v3", "v2", "fernet"}
  /\ ring.active \in [id : KeyIds \cup {Bare}, key : 0 .. MaxKeys + MaxStarts]
  /\ \A i \in DOMAIN ring.previous : ring.previous[i] \in [id : KeyIds, key : 1 .. MaxKeys]
  /\ used \subseteq [id : KeyIds, key : 1 .. MaxKeys + MaxStarts]
  /\ thread \in [Workers -> PCs]

Running == phase \in {"boot", "up"}

\* Every key that was ever active is in its environment with its id, and no id twice.
KeepsKeys ==
  LET p == given.previous
      n == {i \in DOMAIN p : Listed(p[i])}
  IN
  /\ used \subseteq {ring.active} \cup {p[i] : i \in n}
  /\ \A i, j \in n : j > i => p[j].id # p[i].id
  /\ \A i \in n : p[i].id # ring.active.id

\* A process that was given every key its predecessors sealed with opens the record,
\* over any number of rotations, whatever else its environment has that cannot be read
\* ("Existing records stay readable", README.md); all but v2, which names no key.
KeptKeysOpen ==
  Running /\ KeepsKeys /\ record.version \in {"v3", "fernet"} => Opens(ring, record)

\* A record that cannot be opened is not destroyed by reading it: it is there when its
\* key comes back.  Only a sign-in replaces it, or a wipe by a restore that had read an
\* earlier record.
UnreadableIsKept ==
  [][record # NoRecord /\ Running /\ ~Opens(ring, record) /\ record' # record =>
       \E w \in Workers : thread[w] \in {"save", "wipe"} /\ thread'[w] # thread[w]]_serviceVars

\* A restore that comes to its calls has left a record sealed with the active key
\* ("re-wrapped on next access", README.md), whoever has written it since.
AccessRewraps ==
  \A w \in Workers : thread[w] = "call" => ~NeedsReencrypt(ring, record)

\* Old keys can be let go: if no id was ever given to a second key, a record that is not
\* to be sealed again opens with the active key alone.
RetireSafe ==
  (\A p, q \in used : p.id = q.id => p = q) /\ Running
    /\ record # NoRecord /\ ~NeedsReencrypt(ring, record)
  => Opens([ring EXCEPT !.previous = <<>>], record)

=============================================================================
