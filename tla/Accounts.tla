------------------------------ MODULE Accounts ------------------------------
(***************************************************************************)
(* Accounts, their sessions and what they own (main.py, auth.py,           *)
(* models.py): sign-in, bearer authentication, logout, snapshots, and the  *)
(* deletion of an account.                                                 *)
(*                                                                         *)
(* A request runs in a thread of its own; every SELECT and every commit of *)
(* it is a step, and the steps of the requests interleave.                 *)
(*                                                                         *)
(* What is abstracted: the stored Google credential is in module           *)
(* Credentials, usage rows in module Quota, and of a restore only the      *)
(* mapping row it writes remains.                                          *)
(***************************************************************************)
EXTENDS Integers, FiniteSets

CONSTANTS
  Googles,       \* Google identities
  Workers,       \* threads that serve requests
  None,          \* no identity
  MaxUsers,      \* bound: account ids given out
  MaxTokens,     \* bound: session tokens issued
  MaxSnapshots,  \* bound: snapshots saved
  MaxFaults,     \* bound: failed commits and killed threads
  MaxTime,       \* bound: the clock
  Lifetime,      \* JWT_EXPIRE_MINUTES, in ticks
  Retention      \* REVOKED_TOKEN_RETENTION_DAYS, in ticks

ASSUME AccountsAssumption ==
  /\ None \notin Googles
  /\ MaxUsers \in Nat /\ MaxTokens \in Nat /\ MaxSnapshots \in Nat
  /\ MaxFaults \in Nat /\ MaxTime \in Nat /\ Lifetime \in Nat /\ Retention \in Nat

VARIABLES
  users,      \* users[u]: google_id of row u, None if there is no such row
  used,       \* ids given out: 1 .. used
  snapshots,  \* snapshots[s]: user_id of snapshot s, 0 if there is no such row
  filed,      \* snapshot ids given out: 1 .. filed
  mapped,     \* accounts with rows in user_playlists
  session,    \* session[t]: the claims of token t; google is a history
  issued,     \* tokens issued: 1 .. issued
  revoked,    \* tokens whose jti is in revoked_tokens
  loggedOut,  \* history: tokens whose revocation was committed
  thread,     \* thread[w]: what thread w is doing
  now, faults

vars  == <<users, used, snapshots, filed, mapped, session, issued, revoked, loggedOut,
           thread, now, faults>>
rows  == <<users, used, snapshots, filed, mapped>>
auths == <<session, issued, revoked, loggedOut>>

UserIds     == 1 .. MaxUsers
Tokens      == 1 .. MaxTokens
SnapshotIds == 1 .. MaxSnapshots

(* A request.  pc is the next thing it does:                                 *)
(*   insert, login   INSERT of a new account; UPDATE of it, then a token      *)
(*   user            second SELECT of get_current_user                        *)
(*   logout          commit of the jti                                        *)
(*   purge, drop     the two commits of delete_account                        *)
(*   post            INSERT of a snapshot                                     *)
(*   find            SELECT of a snapshot, with the ownership check           *)
(*   remove, map     DELETE of it; a restore of it storing its playlist       *)
Routes == {"logout", "purge", "post", "remove", "map"}
PCs    == {"idle", "insert", "login", "user", "drop", "find"} \cup Routes

Thread == [pc : PCs, route : Routes \cup {"none"}, google : Googles \cup {None},
           token : 0 .. MaxTokens, user : 0 .. MaxUsers, snapshot : 0 .. MaxSnapshots]
Idle   == [pc |-> "idle", route |-> "none", google |-> None,
           token |-> 0, user |-> 0, snapshot |-> 0]

Init ==
  /\ users = [u \in UserIds |-> None] /\ used = 0
  /\ snapshots = [s \in SnapshotIds |-> 0] /\ filed = 0
  /\ mapped = {}
  /\ session = [t \in Tokens |-> [user |-> 0, exp |-> 0, google |-> None]] /\ issued = 0
  /\ revoked = {} /\ loggedOut = {}
  /\ thread = [w \in Workers |-> Idle]
  /\ now = 0 /\ faults = 0

Goes(w, r) == thread' = [thread EXCEPT ![w] = r]
At(w, pc)  == thread[w].pc = pc
Fault      == faults < MaxFaults /\ faults' = faults + 1
Present(u) == users[u] # None

-----------------------------------------------------------------------------
(* Signing in (register_user, test_login).                                   *)

Register(w, g) ==
  LET mine == {u \in UserIds : users[u] = g} IN
  /\ At(w, "idle")
  /\ IF mine = {} THEN Goes(w, [Idle EXCEPT !.pc = "insert", !.google = g])
     ELSE \E u \in mine : Goes(w, [Idle EXCEPT !.pc = "login", !.google = g, !.user = u])
  /\ UNCHANGED <<rows, auths, now, faults>>

\* Mutant: the id of a deleted account is given out again.
NewIdReused == IF \E u \in UserIds : u <= used /\ users[u] = None
                 THEN CHOOSE u \in UserIds : u <= used /\ users[u] = None ELSE used + 1

\* Ids come from a sequence of the database.
NewId == used + 1

\* Mutant: google_id is not unique.
TakenNever(g) == FALSE

\* The unique constraint of users.google_id.
Taken(g) == \E u \in UserIds : users[u] = g

\* An account that a racing sign-in has just created is an error 500.
Insert(w) ==
  LET g == thread[w].google IN
  /\ At(w, "insert")
  /\ IF Taken(g) THEN Goes(w, Idle) /\ UNCHANGED <<users, used>>
     ELSE /\ NewId \in UserIds
          /\ users' = [users EXCEPT ![NewId] = g]
          /\ used' = IF NewId > used THEN NewId ELSE used
          /\ Goes(w, [thread[w] EXCEPT !.pc = "login", !.user = NewId])
  /\ UNCHANGED <<snapshots, filed, mapped, auths, now, faults>>

\* The credential is stored and a token issued; a row deleted meanwhile is an error 500.
Login(w) ==
  LET u == thread[w].user IN
  /\ At(w, "login")
  /\ IF Present(u)
       THEN /\ issued < MaxTokens
            /\ issued' = issued + 1
            /\ session' = [session EXCEPT ![issued + 1] =
                             [user |-> u, exp |-> now + Lifetime, google |-> thread[w].google]]
       ELSE UNCHANGED <<issued, session>>
  /\ Goes(w, Idle)
  /\ UNCHANGED <<rows, revoked, loggedOut, now, faults>>

-----------------------------------------------------------------------------
(* Authentication (get_current_user).  A request that is refused changes     *)
(* nothing and is left out.                                                  *)

\* The signature and the claims are good, and the jti is not in revoked_tokens.
Authenticate(w, t, route, s) ==
  /\ At(w, "idle")
  /\ t <= issued /\ session[t].exp > now /\ t \notin revoked
  /\ Goes(w, [Idle EXCEPT !.pc = "user", !.route = route, !.token = t,
                          !.user = session[t].user, !.snapshot = s])
  /\ UNCHANGED <<rows, auths, now, faults>>

FindUser(w) ==
  LET r == thread[w] IN
  /\ At(w, "user")
  /\ Goes(w, IF ~Present(r.user) THEN Idle
             ELSE [r EXCEPT !.pc = IF r.route \in {"remove", "map"} THEN "find" ELSE r.route])
  /\ UNCHANGED <<rows, auths, now, faults>>

-----------------------------------------------------------------------------
(* What authenticated requests do.                                           *)

\* revoke_session: a jti that is there already, or a commit that fails, is only
\* logged, and logout answers 204 all the same.
Logout(w) ==
  LET t == thread[w].token IN
  /\ At(w, "logout")
  /\ Goes(w, Idle)
  /\ \/ /\ revoked' = revoked \cup {t}
        /\ loggedOut' = loggedOut \cup {t}
        /\ UNCHANGED faults
     \/ /\ Fault
        /\ UNCHANGED <<revoked, loggedOut>>
  /\ UNCHANGED <<rows, session, issued, now>>

\* Mutant: foreign keys are not enforced.
PostUnchecked(w) ==
  /\ At(w, "post")
  /\ filed < MaxSnapshots
  /\ filed' = filed + 1
  /\ snapshots' = [snapshots EXCEPT ![filed + 1] = thread[w].user]
  /\ Goes(w, Idle)
  /\ UNCHANGED <<users, used, mapped, auths, now, faults>>

\* create_snapshot: the foreign key refuses the row of a deleted account.
Post(w) ==
  /\ At(w, "post")
  /\ IF Present(thread[w].user)
       THEN /\ filed < MaxSnapshots
            /\ filed' = filed + 1
            /\ snapshots' = [snapshots EXCEPT ![filed + 1] = thread[w].user]
       ELSE UNCHANGED <<filed, snapshots>>
  /\ Goes(w, Idle)
  /\ UNCHANGED <<users, used, mapped, auths, now, faults>>

\* Mutant: any snapshot may be named.
FindAny(w) ==
  LET r == thread[w] IN
  /\ At(w, "find")
  /\ Goes(w, IF snapshots[r.snapshot] # 0 THEN [r EXCEPT !.pc = r.route] ELSE Idle)
  /\ UNCHANGED <<rows, auths, now, faults>>

\* 404 if there is none, 403 if it is another account's.
Find(w) ==
  LET r == thread[w] IN
  /\ At(w, "find")
  /\ Goes(w, IF snapshots[r.snapshot] = r.user THEN [r EXCEPT !.pc = r.route] ELSE Idle)
  /\ UNCHANGED <<rows, auths, now, faults>>

\* delete_snapshot; a row that is gone by now is no error.
Remove(w) ==
  /\ At(w, "remove")
  /\ snapshots' = [snapshots EXCEPT ![thread[w].snapshot] = 0]
  /\ Goes(w, Idle)
  /\ UNCHANGED <<users, used, filed, mapped, auths, now, faults>>

\* restore_snapshot: the row of its playlist; the foreign key refuses a deleted account.
Map(w) ==
  LET u == thread[w].user IN
  /\ At(w, "map")
  /\ mapped' = IF Present(u) THEN mapped \cup {u} ELSE mapped
  /\ Goes(w, Idle)
  /\ UNCHANGED <<users, used, snapshots, filed, auths, now, faults>>

\* Once its session is revoked, or is not, delete_account reads the account again.
Onward(r) == IF Present(r.user) THEN [r EXCEPT !.pc = "drop"] ELSE Idle

\* delete_account, first commit: the mapping goes and the presented session is revoked
\* in one transaction, which a jti that is there already, or a failure, rolls back.
Purge(w) ==
  LET r == thread[w] IN
  /\ At(w, "purge")
  /\ r.token \notin revoked
  /\ mapped' = mapped \ {r.user}
  /\ revoked' = revoked \cup {r.token}
  /\ loggedOut' = loggedOut \cup {r.token}
  /\ Goes(w, Onward(r))
  /\ UNCHANGED <<users, used, snapshots, filed, session, issued, now, faults>>

PurgeFails(w) ==
  /\ At(w, "purge")
  /\ \/ thread[w].token \in revoked /\ UNCHANGED faults
     \/ Fault
  /\ Goes(w, Onward(thread[w]))
  /\ UNCHANGED <<rows, auths, now>>

\* Mutant: ON DELETE SET NULL.
CascadeNull(u) ==
  /\ snapshots' = [s \in SnapshotIds |-> IF snapshots[s] = u THEN None ELSE snapshots[s]]
  /\ mapped' = mapped \ {u}

\* The ORM's cascades, and ON DELETE CASCADE for what they have not loaded.
Cascade(u) ==
  /\ snapshots' = [s \in SnapshotIds |-> IF snapshots[s] = u THEN 0 ELSE snapshots[s]]
  /\ mapped' = mapped \ {u}

\* delete_account, second commit.
Drop(w) ==
  LET u == thread[w].user IN
  /\ At(w, "drop")
  /\ IF Present(u) THEN users' = [users EXCEPT ![u] = None] /\ Cascade(u)
                   ELSE UNCHANGED <<users, snapshots, mapped>>
  /\ Goes(w, Idle)
  /\ UNCHANGED <<used, filed, auths, now, faults>>

\* A commit fails, or the process is killed: the request ends where it is.
Die(w) ==
  /\ ~At(w, "idle")
  /\ Fault
  /\ Goes(w, Idle)
  /\ UNCHANGED <<rows, auths, now>>

-----------------------------------------------------------------------------
\* Mutant: entries go by the age of the token, not by its expiry.
StaleEarly(t) == session[t].exp - Lifetime < now - Retention

\* expires_at < cutoff
Stale(t) == session[t].exp < now - Retention

\* prune_revoked_tokens; nothing in the code schedules it, an operator may.
Prune ==
  /\ \E t \in revoked : Stale(t)
  /\ revoked' = {t \in revoked : ~Stale(t)}
  /\ UNCHANGED <<rows, session, issued, loggedOut, thread, now, faults>>

Tick ==
  /\ now < MaxTime
  /\ now' = now + 1
  /\ UNCHANGED <<rows, auths, thread, faults>>

Handle(w) ==
  \/ Insert(w) \/ Login(w) \/ FindUser(w) \/ Logout(w)
  \/ Post(w) \/ Find(w) \/ Remove(w) \/ Map(w)
  \/ Purge(w) \/ PurgeFails(w) \/ Drop(w)

\* A request that names a snapshot may name any; the others name none.
Arrive(w) ==
  \/ \E g \in Googles : Register(w, g)
  \/ \E t \in Tokens :
       \/ \E route \in {"logout", "purge", "post"} : Authenticate(w, t, route, 0)
       \/ \E route \in {"remove", "map"}, s \in SnapshotIds : Authenticate(w, t, route, s)

Next ==
  \/ \E w \in Workers : Arrive(w) \/ Handle(w) \/ Die(w)
  \/ Prune
  \/ Tick

Spec == Init /\ [][Next]_vars

-----------------------------------------------------------------------------
(* Type invariant: the tables, the claims of a token and the locals of a request. *)
TypeOK ==
  /\ users \in [UserIds -> Googles \cup {None}] /\ used \in 0 .. MaxUsers
  /\ snapshots \in [SnapshotIds -> 0 .. MaxUsers] /\ filed \in 0 .. MaxSnapshots
  /\ mapped \subseteq UserIds
  /\ session \in [Tokens -> [user : 0 .. MaxUsers, exp : Nat, google : Googles \cup {None}]]
  /\ issued \in 0 .. MaxTokens
  /\ revoked \subseteq 1 .. issued /\ loggedOut \subseteq 1 .. issued
  /\ thread \in [Workers -> Thread]
  /\ now \in 0 .. MaxTime /\ faults \in 0 .. MaxFaults

\* Sign-ins of one Google identity that race each other, or its deletion, never leave
\* it two accounts (register_user looks before it inserts).
OneAccountEach ==
  \A u, v \in UserIds : Present(u) /\ users[u] = users[v] => u = v

\* A request acts for the identity that signed in for its token, although an account
\* may be deleted, and its owner or others sign in again, while the token lives on:
\* deletion revokes the presented token only (get_current_user trusts the id in sub).
SessionsStayOwn ==
  \A w \in Workers : LET r == thread[w] IN
    r.pc \in Routes \cup {"find", "drop"} /\ Present(r.user)
      => users[r.user] = session[r.token].google

\* A deleted account leaves no snapshot and no playlist mapping behind, whatever
\* requests of it were in flight during the two commits (models.py, ON DELETE CASCADE).
GoneLeavesNothing ==
  \A u \in UserIds : ~Present(u) => u \notin mapped /\ u \notin {snapshots[s] : s \in SnapshotIds}

\* Once the revocation of a token is committed no request gets in with it, before or
\* after its entry is pruned (docs/architecture.md, "later use is rejected").
LoggedOutRejected ==
  [][\A w \in Workers : At(w, "idle") /\ At(w, "user")' => thread'[w].token \notin loggedOut]_vars

\* A snapshot disappears only through a request of the account that saved it
\* (delete_snapshot checks the owner in one statement and deletes in another).
OnlyOwnersRemove ==
  [][\A s \in SnapshotIds : snapshots[s] # 0 /\ snapshots'[s] = 0 =>
       \E w \in Workers : /\ thread[w].pc \in {"remove", "drop"} /\ thread'[w].pc = "idle"
                          /\ session[thread[w].token].user = snapshots[s]]_vars

=============================================================================
