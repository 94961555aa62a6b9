--------------------------- MODULE AccountsProofs ---------------------------
(***************************************************************************)
(* One account for each identity, sessions that stay their owner's, and    *)
(* nothing left of a deleted account, for any number of identities,        *)
(* threads, accounts, tokens, snapshots and failures.                      *)
(*                                                                         *)
(* Rows, tokens and snapshots are only ever added under new ids, and what  *)
(* is there only ever disappears (Evolves): so what a thread has found out *)
(* stays true, or the row it is about is gone (StaysFit).                  *)
(***************************************************************************)
EXTENDS Accounts, TLAPS

\* The four parts of the type invariant.
TypedRows ==
  /\ users \in [UserIds -> Googles \cup {None}] /\ used \in 0 .. MaxUsers
  /\ snapshots \in [SnapshotIds -> 0 .. MaxUsers] /\ filed \in 0 .. MaxSnapshots
  /\ mapped \subseteq UserIds

TypedAuths ==
  /\ session \in [Tokens -> [user : 0 .. MaxUsers, exp : Nat, google : Googles \cup {None}]]
  /\ issued \in 0 .. MaxTokens
  /\ revoked \subseteq 1 .. issued /\ loggedOut \subseteq 1 .. issued

TypedClock == now \in 0 .. MaxTime /\ faults \in 0 .. MaxFaults

TypedThreads == thread \in [Workers -> Thread]

\* Ids beyond the counters are unused, and the tables agree with each other.
Tables ==
  /\ \A u \in UserIds : u > used => users[u] = None
  /\ \A s \in SnapshotIds : s > filed => snapshots[s] = 0
  /\ OneAccountEach
  /\ GoneLeavesNothing

\* An account that is there belongs to g.
Belongs(u, g) == Present(u) => users[u] = g

\* Tokens name accounts of who signed in; a logged-out one is listed until it expires.
Sessions ==
  \A t \in 1 .. issued :
    /\ session[t].user \in 1 .. used /\ Belongs(session[t].user, session[t].google)
    /\ t \in loggedOut => t \in revoked \/ session[t].exp < now

\* What a thread relies on, by where it is.
Fit(r) ==
  /\ r.pc = "insert" => r.google \in Googles
  /\ r.pc = "login" => r.user \in 1 .. used /\ Belongs(r.user, r.google)
  /\ r.pc \in Routes \cup {"user", "find", "drop"} =>
       r.token \in 1 .. issued /\ r.user = session[r.token].user
  /\ r.pc = "user" => r.route \in Routes
  /\ r.pc = "user" /\ r.route \in {"remove", "map"} => r.snapshot \in SnapshotIds
  /\ r.pc = "find" => r.route \in {"remove", "map"} /\ r.snapshot \in SnapshotIds
  /\ r.pc = "remove" => r.snapshot \in 1 .. filed /\ snapshots[r.snapshot] \in {0, r.user}

FitThreads == \A w \in Workers, r \in Thread : thread[w] = r => Fit(r)

IInv == TypedRows /\ TypedAuths /\ TypedClock /\ TypedThreads /\ Tables /\ Sessions /\ FitThreads

\* The parts are the whole.
LEMMA Typed == IInv => TypeOK
BY DEF IInv, TypeOK, TypedRows, TypedAuths, TypedClock, TypedThreads

-----------------------------------------------------------------------------
(* What steps have in common.                                                *)

\* Ids are given out in order, and rows change only by going.
Evolves ==
  /\ used <= used' /\ issued <= issued' /\ filed <= filed'
  /\ \A t \in 1 .. issued : session'[t] = session[t]
  /\ \A u \in 1 .. used : users'[u] \in {users[u], None}
  /\ \A s \in 1 .. filed : snapshots'[s] \in {snapshots[s], 0}

\* An account keeps its owner as long as it is there.
LEMMA StaysOwned ==
  ASSUME Evolves, NEW u \in 1 .. used, NEW g, Belongs(u, g)
  PROVE  Belongs(u, g)'
BY DEF Evolves, Belongs, Present

\* What a thread relies on survives the steps of the others.
LEMMA StaysFit ==
  ASSUME IInv, TypedRows', TypedAuths', Evolves, NEW r \in Thread, Fit(r)
  PROVE  Fit(r)'
<1>1. /\ used \in Nat /\ used' \in Nat /\ issued \in Nat /\ issued' \in Nat
      /\ filed \in Nat /\ filed' \in Nat
      /\ used <= used' /\ issued <= issued' /\ filed <= filed'
  BY AccountsAssumption DEF IInv, TypedRows, TypedAuths, Evolves
<1>2. r.pc = "login" => r.user \in 1 .. used' /\ Belongs(r.user, r.google)'
  <2> SUFFICES ASSUME r.pc = "login" PROVE r.user \in 1 .. used' /\ Belongs(r.user, r.google)'
    OBVIOUS
  <2>1. r.user \in 1 .. used /\ Belongs(r.user, r.google)
    BY DEF Fit
  <2>2. Belongs(r.user, r.google)'
    BY <2>1, StaysOwned
  <2> QED BY <1>1, <2>1, <2>2
<1>3. r.pc \in Routes \cup {"user", "find", "drop"} =>
        r.token \in 1 .. issued' /\ r.user = session'[r.token].user
  BY <1>1 DEF Fit, Evolves
<1>4. r.pc = "remove" => r.snapshot \in 1 .. filed' /\ snapshots'[r.snapshot] \in {0, r.user}
  BY <1>1 DEF Fit, Evolves
<1> QED BY <1>2, <1>3, <1>4 DEF Fit

\* One thread moves, to where it has what it needs.
LEMMA ThreadMoves ==
  ASSUME IInv, TypedRows', TypedAuths', Evolves,
         NEW w \in Workers, NEW r \in Thread, Goes(w, r), Fit(r)'
  PROVE  TypedThreads' /\ FitThreads'
<1>1. /\ thread' \in [Workers -> Thread]
      /\ \A v \in Workers : thread'[v] = IF v = w THEN r ELSE thread[v]
  BY DEF IInv, TypedThreads, Goes
<1>2. ASSUME NEW v \in Workers, NEW q \in Thread, thread'[v] = q PROVE Fit(q)'
  <2>1. CASE v = w
    <3>1. q = r
      BY <1>1, <1>2, <2>1
    <3> QED BY <3>1
  <2>2. CASE v # w
    <3>1. thread[v] = q
      BY <1>1, <1>2, <2>2
    <3>2. Fit(q)
      BY <3>1 DEF IInv, FitThreads
    <3> QED BY <3>2, StaysFit
  <2> QED BY <2>1, <2>2
<1> QED BY <1>1, <1>2 DEF TypedThreads, FitThreads

\* No thread moves.
LEMMA ThreadsStay ==
  ASSUME IInv, TypedRows', TypedAuths', Evolves, UNCHANGED thread
  PROVE  TypedThreads' /\ FitThreads'
<1>1. ASSUME NEW v \in Workers, NEW q \in Thread, thread'[v] = q PROVE Fit(q)'
  <2>1. Fit(q)
    BY <1>1 DEF IInv, FitThreads
  <2> QED BY <2>1, StaysFit
<1> QED BY <1>1 DEF IInv, TypedThreads, FitThreads

\* Sessions stay as they are while the tables evolve.
LEMMA SessionsStay ==
  ASSUME IInv, Evolves, TypedRows', TypedAuths', issued' = issued,
         \A t \in 1 .. issued :
           t \in loggedOut' => t \in revoked' \/ session[t].exp < now'
  PROVE  Sessions'
<1>1. ASSUME NEW t \in 1 .. issued
      PROVE  /\ session'[t].user \in 1 .. used'
             /\ Belongs(session[t].user, session[t].google)'
             /\ t \in loggedOut' => t \in revoked' \/ session'[t].exp < now'
  <2>1. session'[t] = session[t]
    BY DEF Evolves
  <2>2. session[t].user \in 1 .. used /\ Belongs(session[t].user, session[t].google)
    BY DEF IInv, Sessions
  <2>3. session[t].user \in 1 .. used'
    BY <2>2, AccountsAssumption DEF IInv, TypedRows, Evolves
  <2>4. Belongs(session[t].user, session[t].google)'
    BY <2>1, <2>2 DEF Belongs, Present, Evolves
  <2> QED BY <2>1, <2>3, <2>4
<1> QED BY <1>1 DEF Sessions, Belongs, Present

\* A thread at rest relies on nothing.
LEMMA IdleFit == Idle \in Thread /\ Fit(Idle) /\ Fit(Idle)'
<1>1. Idle \in Thread
  BY AccountsAssumption DEF Idle, Thread, PCs, Routes
<1>2. Idle.pc = "idle"
  BY DEF Idle
<1> QED BY <1>1, <1>2 DEF Fit, Routes

\* The records a thread is set to.
LEMMA IdleMoves ==
  ASSUME NEW pc \in PCs, NEW g \in Googles, NEW u \in 0 .. MaxUsers
  PROVE  /\ [Idle EXCEPT !.pc = pc, !.google = g] \in Thread
         /\ [Idle EXCEPT !.pc = pc, !.google = g, !.user = u] \in Thread
BY IdleFit, AccountsAssumption DEF Thread, Idle

LEMMA Moves ==
  ASSUME NEW q \in Thread, NEW pc \in PCs
  PROVE  /\ [q EXCEPT !.pc = pc] \in Thread
         /\ \A u \in 0 .. MaxUsers : [q EXCEPT !.pc = pc, !.user = u] \in Thread
BY DEF Thread

\* Rows and tokens as they are, with one thread moving: what is left to show is that
\* the thread is fit.
LEMMA Aside ==
  ASSUME IInv, NEW w \in Workers, NEW r \in Thread, Goes(w, r), Fit(r),
         UNCHANGED <<rows, auths, now>>, faults' \in 0 .. MaxFaults
  PROVE  IInv'
<1>1. TypedRows' /\ TypedAuths' /\ TypedClock'
  BY DEF IInv, TypedRows, TypedAuths, TypedClock, rows, auths
<1>2. Evolves
  BY <1>1, AccountsAssumption DEF Evolves, rows, auths, TypedRows, TypedAuths
<1>3. Tables'
  BY DEF IInv, Tables, OneAccountEach, GoneLeavesNothing, Present, rows
<1>4. Sessions'
  BY <1>1, <1>2, SessionsStay DEF IInv, Sessions, auths
<1>5. Fit(r)'
  BY <1>1, <1>2, StaysFit
<1>6. TypedThreads' /\ FitThreads'
  BY <1>1, <1>2, <1>5, ThreadMoves
<1> QED BY <1>1, <1>3, <1>4, <1>6 DEF IInv

\* Tables change, tokens do not.
LEMMA TablesChange ==
  ASSUME IInv, NEW w \in Workers, NEW r \in Thread, Goes(w, r), Evolves, TypedRows', Tables',
         UNCHANGED <<auths, now, faults>>, Fit(r)'
  PROVE  IInv'
<1>1. TypedAuths' /\ TypedClock'
  BY DEF IInv, TypedAuths, TypedClock, auths
<1>2. Sessions'
  BY <1>1, SessionsStay DEF IInv, Sessions, auths
<1>3. TypedThreads' /\ FitThreads'
  BY <1>1, ThreadMoves
<1> QED BY <1>1, <1>2, <1>3 DEF IInv

-----------------------------------------------------------------------------
(* The actions.                                                              *)

\* The locals of a thread and what it relies on.
LEMMA Local ==
  ASSUME IInv, NEW w \in Workers
  PROVE  thread[w] \in Thread /\ Fit(thread[w])
BY DEF IInv, TypedThreads, FitThreads

\* A sign-in finds the account of its identity, or goes to insert one.
LEMMA RegisterHolds ==
  ASSUME IInv, NEW w \in Workers, NEW g \in Googles, Register(w, g)
  PROVE  IInv'
<1> DEFINE mine == {u \in UserIds : users[u] = g}
<1>0. UNCHANGED <<rows, auths, now>> /\ faults' \in 0 .. MaxFaults
  BY DEF Register, IInv, TypedClock
<1>1. CASE mine = {}
  <2>1. PICK r : r = [Idle EXCEPT !.pc = "insert", !.google = g]
    OBVIOUS
  <2>2. Goes(w, r)
    BY <1>1, <2>1 DEF Register
  <2>3. r \in Thread /\ r.pc = "insert" /\ r.google = g
    <3>1. "insert" \in PCs /\ 0 \in 0 .. MaxUsers
      BY AccountsAssumption DEF PCs
    <3> QED BY <2>1, <3>1, IdleMoves DEF Idle
  <2>4. Fit(r)
    BY <2>3 DEF Fit, Routes
  <2> QED BY <1>0, <2>2, <2>3, <2>4, Aside
<1>2. CASE mine # {}
  <2>1. PICK u \in mine : Goes(w, [Idle EXCEPT !.pc = "login", !.google = g, !.user = u])
    BY <1>2 DEF Register
  <2>2. PICK r : r = [Idle EXCEPT !.pc = "login", !.google = g, !.user = u]
    OBVIOUS
  <2>3. r \in Thread /\ r.pc = "login" /\ r.google = g /\ r.user = u
    <3>1. "login" \in PCs /\ u \in 0 .. MaxUsers
      BY AccountsAssumption DEF PCs, UserIds
    <3> QED BY <2>2, <3>1, IdleMoves DEF Idle
  <2>4. u \in 1 .. used /\ users[u] = g
    BY AccountsAssumption DEF IInv, Tables, TypedRows, UserIds
  <2>5. Fit(r)
    BY <2>3, <2>4 DEF Fit, Routes, Belongs
  <2> QED BY <1>0, <2>1, <2>2, <2>3, <2>5, Aside
<1> QED BY <1>1, <1>2

\* A new account belongs to an identity that has none.
LEMMA InsertHolds ==
  ASSUME IInv, NEW w \in Workers, Insert(w)
  PROVE  IInv'
<1> DEFINE g == thread[w].google
<1>0. thread[w] \in Thread /\ g \in Googles /\ UNCHANGED <<auths, now, faults>>
  <2>1. thread[w] \in Thread /\ Fit(thread[w])
    BY Local
  <2>2. thread[w].pc = "insert" /\ UNCHANGED <<auths, now, faults>>
    BY DEF Insert, At
  <2> QED BY <2>1, <2>2 DEF Fit
<1>1. CASE Taken(g)
  <2>1. Goes(w, Idle) /\ UNCHANGED <<rows, auths, now>> /\ faults' \in 0 .. MaxFaults
    BY <1>1 DEF Insert, rows, IInv, TypedClock
  <2> QED BY <2>1, IdleFit, Aside
<1>2. CASE ~Taken(g)
  <2>1. /\ used + 1 \in UserIds /\ used \in Nat
        /\ users' = [users EXCEPT ![used + 1] = g] /\ used' = used + 1
        /\ UNCHANGED <<snapshots, filed, mapped>>
    BY <1>2 DEF Insert, NewId, IInv, TypedRows
  <2>2. PICK r : r = [thread[w] EXCEPT !.pc = "login", !.user = used + 1]
    OBVIOUS
  <2>3. Goes(w, r)
    BY <1>2, <2>2 DEF Insert, NewId
  <2>4. r \in Thread /\ r.pc = "login" /\ r.google = g /\ r.user = used + 1
    <3>1. "login" \in PCs /\ used + 1 \in 0 .. MaxUsers
      BY <2>1, AccountsAssumption DEF PCs, UserIds
    <3>2. r \in Thread
      BY <1>0, <2>2, <3>1, Moves
    <3> QED BY <1>0, <2>2, <3>2 DEF Thread
  <2>5. TypedRows'
    BY <1>0, <2>1, AccountsAssumption DEF IInv, TypedRows, UserIds
  <2>6. /\ users'[used + 1] = g
        /\ \A u \in UserIds : u # used + 1 => users'[u] = users[u]
    BY <2>1 DEF IInv, TypedRows
  <2>7. Evolves
    BY <1>0, <2>1, <2>6, AccountsAssumption DEF Evolves, auths, IInv, TypedRows, TypedAuths, UserIds
  <2>8. Tables'
    <3>1. \A u \in UserIds : u > used' => users'[u] = None
      BY <2>1, <2>6 DEF IInv, Tables, UserIds
    <3>2. OneAccountEach'
      BY <1>0, <1>2, <2>6, AccountsAssumption DEF IInv, Tables, OneAccountEach, Present, Taken
    <3>3. GoneLeavesNothing'
      BY <1>0, <2>1, <2>6, AccountsAssumption DEF IInv, Tables, GoneLeavesNothing, Present
    <3> QED BY <2>1, <3>1, <3>2, <3>3 DEF IInv, Tables
  <2>9. Fit(r)'
    BY <2>1, <2>4, <2>6 DEF Fit, Routes, Belongs, Present
  <2> QED BY <1>0, <2>3, <2>4, <2>5, <2>7, <2>8, <2>9, TablesChange
<1> QED BY <1>1, <1>2

\* A token is issued for the account its owner signed in to.
LEMMA LoginHolds ==
  ASSUME IInv, NEW w \in Workers, Login(w)
  PROVE  IInv'
<1> DEFINE r == thread[w]
           t == issued + 1
           claims == [user |-> r.user, exp |-> now + Lifetime, google |-> r.google]
<1>0. /\ r \in Thread /\ r.user \in 1 .. used /\ Belongs(r.user, r.google)
      /\ Goes(w, Idle) /\ UNCHANGED <<rows, revoked, loggedOut, now, faults>>
  BY Local DEF Login, At, Fit
<1>1. CASE ~Present(r.user)
  <2>1. UNCHANGED <<rows, auths, now>> /\ faults' \in 0 .. MaxFaults
    BY <1>0, <1>1 DEF Login, auths, IInv, TypedClock
  <2> QED BY <1>0, <2>1, IdleFit, Aside
<1>2. CASE Present(r.user)
  <2>1. /\ issued < MaxTokens /\ issued' = t /\ session' = [session EXCEPT ![t] = claims]
        /\ issued \in Nat /\ t \in Tokens
    BY <1>2, AccountsAssumption DEF Login, IInv, TypedAuths, Tokens
  <2>2. claims \in [user : 0 .. MaxUsers, exp : Nat, google : Googles \cup {None}]
    BY <1>0, AccountsAssumption DEF Thread, IInv, TypedClock
  <2>3. TypedAuths'
    BY <1>0, <2>1, <2>2, AccountsAssumption DEF IInv, TypedAuths
  <2>4. session'[t] = claims /\ \A k \in 1 .. issued : session'[k] = session[k]
    BY <2>1, AccountsAssumption DEF IInv, TypedAuths, Tokens
  <2>5. TypedRows' /\ TypedClock' /\ Tables'
    BY <1>0 DEF IInv, TypedRows, TypedClock, Tables, OneAccountEach, GoneLeavesNothing, Present, rows
  <2>6. Evolves
    BY <1>0, <2>1, <2>4, AccountsAssumption DEF Evolves, rows, IInv, TypedRows
  <2>7. Sessions'
    <3>1. ASSUME NEW k \in 1 .. issued'
          PROVE  /\ session'[k].user \in 1 .. used'
                 /\ Belongs(session[k].user, session[k].google)'
                 /\ k \in loggedOut' => k \in revoked' \/ session'[k].exp < now'
      <4>1. CASE k = t
        <5>1. session'[k].user = r.user /\ session'[k].google = r.google
          BY <2>4, <4>1
        <5>2. k \notin loggedOut'
          BY <1>0, <2>1, <4>1 DEF IInv, TypedAuths
        <5> QED BY <1>0, <5>1, <5>2 DEF Belongs, Present, rows
      <4>2. CASE k # t
        <5>1. k \in 1 .. issued
          BY <2>1, <4>2
        <5>2. session'[k] = session[k]
          BY <2>4, <5>1
        <5> QED BY <1>0, <5>1, <5>2 DEF IInv, Sessions, Belongs, Present, rows
      <4> QED BY <4>1, <4>2
    <3> QED BY <3>1 DEF Sessions, Belongs, Present
  <2>8. TypedThreads' /\ FitThreads'
    BY <1>0, <2>3, <2>5, <2>6, IdleFit, ThreadMoves
  <2> QED BY <2>3, <2>5, <2>7, <2>8 DEF IInv
<1> QED BY <1>1, <1>2

\* A request that is let in carries a token that was issued.
LEMMA AuthenticateHolds ==
  ASSUME IInv, NEW w \in Workers, NEW t \in Tokens, NEW route \in Routes,
         NEW s \in 0 .. MaxSnapshots, route \in {"remove", "map"} => s \in SnapshotIds,
         Authenticate(w, t, route, s)
  PROVE  IInv'
<1>0. /\ UNCHANGED <<rows, auths, now>> /\ faults' \in 0 .. MaxFaults
      /\ t \in 1 .. issued /\ session[t].user \in 0 .. MaxUsers
  BY AccountsAssumption DEF Authenticate, IInv, TypedClock, TypedAuths, Tokens
<1>1. PICK r : r = [Idle EXCEPT !.pc = "user", !.route = route, !.token = t,
                                !.user = session[t].user, !.snapshot = s]
  OBVIOUS
<1>2. Goes(w, r)
  BY <1>1 DEF Authenticate
<1>3. /\ r.pc = "user" /\ r.route = route /\ r.token = t
      /\ r.user = session[t].user /\ r.snapshot = s
  BY <1>1 DEF Idle
<1>4. r \in Thread
  <2>1. "user" \in PCs /\ route \in Routes \cup {"none"} /\ t \in 0 .. MaxTokens
    BY AccountsAssumption DEF PCs, Tokens
  <2> QED BY <1>0, <1>1, <2>1 DEF Thread, Idle
<1>5. Fit(r)
  BY <1>0, <1>3 DEF Fit
<1> QED BY <1>0, <1>2, <1>4, <1>5, Aside

\* An authenticated request goes on to its route, or ends.
LEMMA FindUserHolds ==
  ASSUME IInv, NEW w \in Workers, FindUser(w)
  PROVE  IInv'
<1>0. /\ UNCHANGED <<rows, auths, now>> /\ faults' \in 0 .. MaxFaults
      /\ thread[w] \in Thread /\ Fit(thread[w]) /\ thread[w].pc = "user"
  BY Local DEF FindUser, At, IInv, TypedClock
<1>1. CASE ~Present(thread[w].user)
  <2>1. Goes(w, Idle)
    BY <1>1 DEF FindUser
  <2> QED BY <1>0, <2>1, IdleFit, Aside
<1>2. CASE Present(thread[w].user)
  <2>1. PICK q \in Thread : q = thread[w]
    BY <1>0
  <2>2. /\ q.pc = "user" /\ Fit(q) /\ q.route \in Routes
        /\ q.route \in {"remove", "map"} => q.snapshot \in SnapshotIds
    BY <1>0, <2>1 DEF Fit
  <2>3. PICK pc \in PCs : /\ pc = IF q.route \in {"remove", "map"} THEN "find" ELSE q.route
                          /\ pc \in {"find", "logout", "purge", "post"}
                          /\ pc = "find" => q.route \in {"remove", "map"}
    BY <2>2 DEF PCs, Routes
  <2>4. Goes(w, [q EXCEPT !.pc = pc])
    BY <1>2, <2>1, <2>3 DEF FindUser
  <2>5. PICK r : r = [q EXCEPT !.pc = pc]
    OBVIOUS
  <2>6. r \in Thread
    BY <2>5, Moves
  <2>7. /\ r.pc = pc /\ r.token = q.token /\ r.user = q.user
        /\ r.snapshot = q.snapshot /\ r.route = q.route
    BY <2>5 DEF Thread
  <2>8. q.token \in 1 .. issued /\ q.user = session[q.token].user
    BY <2>2 DEF Fit, Routes
  <2>9. Fit(r)
    BY <2>2, <2>3, <2>7, <2>8 DEF Fit, Routes
  <2> QED BY <1>0, <2>4, <2>5, <2>6, <2>9, Aside
<1> QED BY <1>1, <1>2

\* A request goes on with a snapshot only if it is its account's.
LEMMA FindHolds ==
  ASSUME IInv, NEW w \in Workers, Find(w)
  PROVE  IInv'
<1>0. /\ UNCHANGED <<rows, auths, now>> /\ faults' \in 0 .. MaxFaults
      /\ thread[w] \in Thread /\ Fit(thread[w]) /\ thread[w].pc = "find"
  BY Local DEF Find, At, IInv, TypedClock
<1>1. PICK q \in Thread : q = thread[w]
  BY <1>0
<1>2. CASE snapshots[q.snapshot] # q.user
  <2>1. Goes(w, Idle)
    BY <1>1, <1>2 DEF Find
  <2> QED BY <1>0, <2>1, IdleFit, Aside
<1>3. CASE snapshots[q.snapshot] = q.user
  <2>1. /\ q.route \in {"remove", "map"} /\ q.snapshot \in SnapshotIds
        /\ q.token \in 1 .. issued /\ q.user = session[q.token].user
    BY <1>0, <1>1 DEF Fit, Routes
  <2>2. PICK pc \in PCs : pc = q.route
    BY <2>1 DEF PCs, Routes
  <2>3. PICK r : r = [q EXCEPT !.pc = pc]
    OBVIOUS
  <2>4. Goes(w, r)
    BY <1>1, <1>3, <2>2, <2>3 DEF Find
  <2>5. r \in Thread
    BY <2>3, Moves
  <2>6. /\ r.pc = q.route /\ r.token = q.token /\ r.user = q.user
        /\ r.snapshot = q.snapshot
    BY <2>2, <2>3 DEF Thread
  <2>7. q.snapshot \in 1 .. filed
    <3>1. q.user \in 1 .. used
      BY <2>1 DEF IInv, Sessions
    <3> QED BY <1>3, <2>1, <3>1, AccountsAssumption DEF IInv, Tables, TypedRows, SnapshotIds
  <2>8. Fit(r)
    BY <1>3, <2>1, <2>6, <2>7 DEF Fit, Routes
  <2> QED BY <1>0, <2>4, <2>5, <2>8, Aside
<1> QED BY <1>2, <1>3

\* A failure ends a request where it is.
LEMMA Faulty ==
  ASSUME IInv, Fault \/ UNCHANGED faults
  PROVE  faults' \in 0 .. MaxFaults
BY AccountsAssumption DEF IInv, TypedClock, Fault

LEMMA DieHolds ==
  ASSUME IInv, NEW w \in Workers, Die(w)
  PROVE  IInv'
BY Faulty, IdleFit, Aside DEF Die

\* A committed revocation is listed.
LEMMA Revoked ==
  ASSUME IInv, NEW w \in Workers, NEW r \in Thread, Goes(w, r), Fit(r)',
         NEW t \in 1 .. issued, revoked' = revoked \cup {t}, loggedOut' = loggedOut \cup {t},
         UNCHANGED <<users, used, snapshots, filed, session, issued, now, faults>>,
         mapped' \subseteq mapped
  PROVE  IInv'
<1>1. TypedRows' /\ TypedAuths' /\ TypedClock'
  BY DEF IInv, TypedRows, TypedAuths, TypedClock
<1>2. Evolves
  BY AccountsAssumption DEF Evolves, IInv, TypedRows, TypedAuths
<1>3. Tables'
  BY DEF IInv, Tables, OneAccountEach, GoneLeavesNothing, Present
<1>4. Sessions'
  BY <1>1, <1>2, SessionsStay DEF IInv, Sessions
<1>5. TypedThreads' /\ FitThreads'
  BY <1>1, <1>2, ThreadMoves
<1> QED BY <1>1, <1>3, <1>4, <1>5 DEF IInv

LEMMA LogoutHolds ==
  ASSUME IInv, NEW w \in Workers, Logout(w)
  PROVE  IInv'
<1> DEFINE t == thread[w].token
<1>0. /\ Goes(w, Idle) /\ t \in 1 .. issued
      /\ UNCHANGED <<rows, session, issued, now>>
  BY Local DEF Logout, At, Fit, Routes
<1>1. CASE UNCHANGED <<revoked, loggedOut>> /\ Fault
  BY <1>0, <1>1, Faulty, IdleFit, Aside DEF auths
<1>2. CASE revoked' = revoked \cup {t} /\ loggedOut' = loggedOut \cup {t} /\ UNCHANGED faults
  BY <1>0, <1>2, IdleFit, Revoked DEF rows
<1> QED BY <1>1, <1>2 DEF Logout

\* On the way to the second commit of a deletion.
LEMMA OnwardFit ==
  ASSUME IInv, NEW q \in Thread, Fit(q), q.pc = "purge"
  PROVE  /\ Onward(q) \in Thread /\ Fit(Onward(q))
         /\ Onward(q).pc \in {"idle", "drop"}
         /\ Onward(q).pc = "drop" => Onward(q).token = q.token /\ Onward(q).user = q.user
<1>1. CASE ~Present(q.user)
  BY <1>1, IdleFit DEF Onward, Idle
<1>2. CASE Present(q.user)
  <2>1. PICK r : r = [q EXCEPT !.pc = "drop"]
    OBVIOUS
  <2>2. r \in Thread
    <3>1. "drop" \in PCs
      BY DEF PCs
    <3> QED BY <2>1, <3>1, Moves
  <2>3. r.pc = "drop" /\ r.token = q.token /\ r.user = q.user
    BY <2>1 DEF Thread
  <2>4. Fit(r)
    BY <2>3 DEF Fit, Routes
  <2>5. Onward(q) = r
    BY <1>2, <2>1 DEF Onward
  <2> QED BY <2>2, <2>3, <2>4, <2>5
<1> QED BY <1>1, <1>2

\* The first commit of a deletion, made or rolled back.
LEMMA PurgeHolds ==
  ASSUME IInv, NEW w \in Workers, Purge(w) \/ PurgeFails(w)
  PROVE  IInv'
<1>1. PICK q \in Thread : q = thread[w] /\ Fit(q) /\ q.pc = "purge" /\ Goes(w, Onward(q))
  BY Local DEF Purge, PurgeFails, At
<1>2. PICK r \in Thread : r = Onward(q) /\ Fit(r) /\ Goes(w, r)
  BY <1>1, OnwardFit
<1>3. q.token \in 1 .. issued
  BY <1>1 DEF Fit, Routes
<1>4. CASE Purge(w)
  <2>1. /\ revoked' = revoked \cup {q.token} /\ loggedOut' = loggedOut \cup {q.token}
        /\ mapped' \subseteq mapped
        /\ UNCHANGED <<users, used, snapshots, filed, session, issued, now, faults>>
    BY <1>1, <1>4 DEF Purge
  <2>2. Fit(r)'
    BY <1>2, <2>1 DEF Fit, Belongs, Present
  <2> QED BY <1>2, <1>3, <2>1, <2>2, Revoked
<1>5. CASE PurgeFails(w)
  BY <1>2, <1>5, Faulty, Aside DEF PurgeFails
<1> QED BY <1>4, <1>5

\* A snapshot is saved for an account that is there.
LEMMA PostHolds ==
  ASSUME IInv, NEW w \in Workers, Post(w)
  PROVE  IInv'
<1> DEFINE u == thread[w].user
<1>0. /\ Goes(w, Idle) /\ u \in 0 .. MaxUsers
      /\ UNCHANGED <<users, used, mapped, auths, now, faults>>
  BY Local DEF Post, Thread
<1>1. CASE ~Present(u)
  <2>1. UNCHANGED <<rows, auths, now>> /\ faults' \in 0 .. MaxFaults
    BY <1>0, <1>1 DEF Post, rows, IInv, TypedClock
  <2> QED BY <1>0, <2>1, IdleFit, Aside
<1>2. CASE Present(u)
  <2>1. /\ filed \in Nat /\ filed + 1 \in SnapshotIds /\ filed' = filed + 1
        /\ snapshots' = [snapshots EXCEPT ![filed + 1] = u]
    BY <1>2, AccountsAssumption DEF Post, IInv, TypedRows, SnapshotIds
  <2>2. /\ snapshots'[filed + 1] = u
        /\ \A s \in SnapshotIds : s # filed + 1 => snapshots'[s] = snapshots[s]
    BY <2>1 DEF IInv, TypedRows
  <2>3. TypedRows'
    BY <1>0, <2>1, AccountsAssumption DEF IInv, TypedRows, SnapshotIds
  <2>4. Evolves
    BY <1>0, <2>1, <2>2, AccountsAssumption DEF Evolves, auths, IInv, TypedRows, TypedAuths, SnapshotIds
  <2>5. Tables'
    <3>1. \A s \in SnapshotIds : s > filed' => snapshots'[s] = 0
      BY <2>1, <2>2 DEF IInv, Tables, SnapshotIds
    <3>2. GoneLeavesNothing'
      BY <1>0, <1>2, <2>2 DEF IInv, Tables, GoneLeavesNothing, Present
    <3> QED BY <1>0, <3>1, <3>2 DEF IInv, Tables, OneAccountEach, Present
  <2> QED BY <1>0, <2>3, <2>4, <2>5, IdleFit, TablesChange
<1> QED BY <1>1, <1>2

\* A snapshot is removed.
LEMMA RemoveHolds ==
  ASSUME IInv, NEW w \in Workers, Remove(w)
  PROVE  IInv'
<1>0. /\ Goes(w, Idle) /\ UNCHANGED <<users, used, filed, mapped, auths, now, faults>>
      /\ snapshots' = [snapshots EXCEPT ![thread[w].snapshot] = 0]
  BY DEF Remove
<1>1. \A s \in SnapshotIds : snapshots'[s] \in {snapshots[s], 0}
  BY <1>0 DEF IInv, TypedRows
<1>2. TypedRows'
  <2>1. 0 \in 0 .. MaxUsers
    BY AccountsAssumption
  <2>2. snapshots' \in [SnapshotIds -> 0 .. MaxUsers]
    BY <1>0, <2>1 DEF IInv, TypedRows
  <2> QED BY <1>0, <2>2 DEF IInv, TypedRows
<1>3. Evolves
  BY <1>0, <1>1, AccountsAssumption DEF Evolves, auths, IInv, TypedRows, TypedAuths, SnapshotIds
<1>4. Tables'
  <2>1. 0 \notin UserIds
    BY DEF UserIds
  <2>2. GoneLeavesNothing'
    BY <1>0, <1>1, <2>1 DEF IInv, Tables, GoneLeavesNothing, Present
  <2> QED BY <1>0, <1>1, <2>2 DEF IInv, Tables, OneAccountEach, Present
<1> QED BY <1>0, <1>2, <1>3, <1>4, IdleFit, TablesChange

\* A playlist is mapped for an account that is there.
LEMMA MapHolds ==
  ASSUME IInv, NEW w \in Workers, Map(w)
  PROVE  IInv'
<1> DEFINE u == thread[w].user
<1>0. /\ Goes(w, Idle) /\ UNCHANGED <<users, used, snapshots, filed, auths, now, faults>>
      /\ mapped' = IF Present(u) THEN mapped \cup {u} ELSE mapped
  BY DEF Map
<1>1. u \in 1 .. used
  <2>1. u = session[thread[w].token].user /\ thread[w].token \in 1 .. issued
    BY Local DEF Map, At, Fit, Routes
  <2> QED BY <2>1 DEF IInv, Sessions
<1>2. u \in UserIds
  BY <1>1, AccountsAssumption DEF IInv, TypedRows, UserIds
<1>3. TypedRows'
  BY <1>0, <1>2 DEF IInv, TypedRows
<1>4. Evolves
  BY <1>0, AccountsAssumption DEF Evolves, auths, IInv, TypedRows, TypedAuths
<1>5. Tables'
  BY <1>0 DEF IInv, Tables, OneAccountEach, GoneLeavesNothing, Present
<1> QED BY <1>0, <1>3, <1>4, <1>5, IdleFit, TablesChange

\* The row of an account goes, with all that is its own.
LEMMA DropHolds ==
  ASSUME IInv, NEW w \in Workers, Drop(w)
  PROVE  IInv'
<1> DEFINE u == thread[w].user
<1>0. Goes(w, Idle) /\ UNCHANGED <<used, filed, auths, now, faults>>
  BY DEF Drop
<1>1. CASE ~Present(u)
  <2>1. UNCHANGED <<rows, auths, now>> /\ faults' \in 0 .. MaxFaults
    BY <1>0, <1>1 DEF Drop, rows, IInv, TypedClock
  <2> QED BY <1>0, <2>1, IdleFit, Aside
<1>2. CASE Present(u)
  <2>1. /\ users' = [users EXCEPT ![u] = None] /\ mapped' = mapped \ {u}
        /\ snapshots' = [s \in SnapshotIds |-> IF snapshots[s] = u THEN 0 ELSE snapshots[s]]
    BY <1>2 DEF Drop, Cascade
  <2>2. /\ \A v \in UserIds : users'[v] = IF v = u THEN None ELSE users[v]
        /\ \A s \in SnapshotIds : snapshots'[s] = IF snapshots[s] = u THEN 0 ELSE snapshots[s]
    BY <2>1 DEF IInv, TypedRows
  <2>3. TypedRows'
    <3>1. 0 \in 0 .. MaxUsers
      BY AccountsAssumption
    <3>2. snapshots' \in [SnapshotIds -> 0 .. MaxUsers]
      BY <2>1, <3>1 DEF IInv, TypedRows
    <3>3. users' \in [UserIds -> Googles \cup {None}] /\ mapped' \subseteq UserIds
      BY <2>1 DEF IInv, TypedRows
    <3> QED BY <1>0, <3>2, <3>3 DEF IInv, TypedRows
  <2>4. Evolves
    <3>1. \A v \in 1 .. used : v \in UserIds
      BY AccountsAssumption DEF IInv, TypedRows, UserIds
    <3>2. \A s \in 1 .. filed : s \in SnapshotIds
      BY AccountsAssumption DEF IInv, TypedRows, SnapshotIds
    <3>3. used <= used' /\ issued <= issued' /\ filed <= filed'
      BY <1>0, AccountsAssumption DEF auths, IInv, TypedRows, TypedAuths
    <3> QED BY <1>0, <2>2, <3>1, <3>2, <3>3 DEF Evolves, auths
  <2>5. Tables'
    <3>1. OneAccountEach'
      BY <2>2 DEF IInv, Tables, OneAccountEach, Present
    <3>2. 0 \notin UserIds
      BY DEF UserIds
    <3>3. GoneLeavesNothing'
      BY <2>1, <2>2, <3>2 DEF IInv, Tables, GoneLeavesNothing, Present
    <3> QED BY <1>0, <2>2, <3>1, <3>3 DEF IInv, Tables
  <2> QED BY <1>0, <2>3, <2>4, <2>5, IdleFit, TablesChange
<1> QED BY <1>1, <1>2

\* An entry that is pruned belongs to an expired token.
LEMMA PruneHolds == IInv /\ Prune => IInv'
<1> SUFFICES ASSUME IInv, Prune PROVE IInv'
  OBVIOUS
<1>0. /\ UNCHANGED <<rows, session, issued, loggedOut, thread, now, faults>>
      /\ revoked' = {t \in revoked : ~Stale(t)}
  BY DEF Prune
<1>1. TypedRows' /\ TypedAuths' /\ TypedClock' /\ Tables'
  BY <1>0 DEF IInv, TypedRows, TypedAuths, TypedClock, Tables, OneAccountEach,
              GoneLeavesNothing, Present, rows
<1>2. Evolves
  BY <1>0, AccountsAssumption DEF Evolves, rows, IInv, TypedRows, TypedAuths
<1>3. \A t \in 1 .. issued : t \in loggedOut' => t \in revoked' \/ session[t].exp < now'
  <2> SUFFICES ASSUME NEW t \in 1 .. issued, t \in loggedOut'
               PROVE  t \in revoked' \/ session[t].exp < now'
    OBVIOUS
  <2>1. t \in revoked \/ session[t].exp < now
    BY <1>0 DEF IInv, Sessions
  <2>2. session[t].exp \in Nat /\ now \in Nat
    BY AccountsAssumption DEF IInv, TypedAuths, TypedClock, Tokens
  <2>3. CASE Stale(t)
    BY <1>0, <2>2, <2>3, AccountsAssumption DEF Stale
  <2>4. CASE ~Stale(t)
    BY <1>0, <2>1, <2>4
  <2> QED BY <2>3, <2>4
<1>4. Sessions'
  BY <1>0, <1>1, <1>2, <1>3, SessionsStay
<1>5. TypedThreads' /\ FitThreads'
  BY <1>0, <1>1, <1>2, ThreadsStay
<1> QED BY <1>1, <1>4, <1>5 DEF IInv

\* Time passes.
LEMMA TickHolds == IInv /\ Tick => IInv'
<1> SUFFICES ASSUME IInv, Tick PROVE IInv'
  OBVIOUS
<1>0. UNCHANGED <<rows, auths, thread, faults>> /\ now' = now + 1 /\ now < MaxTime
  BY DEF Tick
<1>1. TypedRows' /\ TypedAuths' /\ TypedClock' /\ Tables'
  BY <1>0, AccountsAssumption
     DEF IInv, TypedRows, TypedAuths, TypedClock, Tables, OneAccountEach, GoneLeavesNothing,
         Present, rows, auths
<1>2. Evolves
  BY <1>0, AccountsAssumption DEF Evolves, rows, auths, IInv, TypedRows, TypedAuths
<1>3. \A t \in 1 .. issued : t \in loggedOut' => t \in revoked' \/ session[t].exp < now'
  BY <1>0, AccountsAssumption DEF IInv, Sessions, TypedAuths, TypedClock, Tokens, auths
<1>4. Sessions'
  BY <1>0, <1>1, <1>2, <1>3, SessionsStay DEF auths
<1>5. TypedThreads' /\ FitThreads'
  BY <1>0, <1>1, <1>2, ThreadsStay
<1> QED BY <1>1, <1>4, <1>5 DEF IInv

\* To begin with there is nothing.
LEMMA InitHolds == Init => IInv
<1> SUFFICES ASSUME Init PROVE IInv
  OBVIOUS
<1>1. TypedRows
  BY AccountsAssumption DEF Init, TypedRows
<1>2. TypedAuths
  <2>1. [user |-> 0, exp |-> 0, google |-> None]
          \in [user : 0 .. MaxUsers, exp : Nat, google : Googles \cup {None}]
    BY AccountsAssumption
  <2> QED BY <2>1, AccountsAssumption DEF Init, TypedAuths
<1>3. TypedClock
  BY AccountsAssumption DEF Init, TypedClock
<1>4. TypedThreads
  BY IdleFit DEF Init, TypedThreads
<1>5. Tables
  BY DEF Init, Tables, OneAccountEach, GoneLeavesNothing, Present, UserIds
<1>6. Sessions
  BY DEF Init, Sessions
<1>7. FitThreads
  BY IdleFit DEF Init, FitThreads
<1> QED BY <1>1, <1>2, <1>3, <1>4, <1>5, <1>6, <1>7 DEF IInv

\* Every step keeps the invariant.
LEMMA StepHolds == IInv /\ [Next]_vars => IInv'
<1> SUFFICES ASSUME IInv, [Next]_vars PROVE IInv'
  OBVIOUS
<1>1. ASSUME NEW w \in Workers, Arrive(w) PROVE IInv'
  <2>1. CASE \E g \in Googles : Register(w, g)
    BY <2>1, RegisterHolds
  <2>2. CASE \E t \in Tokens, route \in {"logout", "purge", "post"} : Authenticate(w, t, route, 0)
    <3>1. PICK t \in Tokens, route \in {"logout", "purge", "post"} : Authenticate(w, t, route, 0)
      BY <2>2
    <3>2. route \in Routes /\ route \notin {"remove", "map"} /\ 0 \in 0 .. MaxSnapshots
      BY AccountsAssumption DEF Routes
    <3> QED BY <3>1, <3>2, AuthenticateHolds
  <2>3. CASE \E t \in Tokens, route \in {"remove", "map"}, s \in SnapshotIds :
               Authenticate(w, t, route, s)
    <3>1. PICK t \in Tokens, route \in {"remove", "map"}, s \in SnapshotIds :
               Authenticate(w, t, route, s)
      BY <2>3
    <3>2. route \in Routes /\ s \in 0 .. MaxSnapshots
      BY AccountsAssumption DEF Routes, SnapshotIds
    <3> QED BY <3>1, <3>2, AuthenticateHolds
  <2> QED BY <1>1, <2>1, <2>2, <2>3 DEF Arrive
<1>2. ASSUME NEW w \in Workers, Handle(w) PROVE IInv'
  BY <1>2, InsertHolds, LoginHolds, FindUserHolds, LogoutHolds, PostHolds, FindHolds,
     RemoveHolds, MapHolds, PurgeHolds, DropHolds DEF Handle
<1>3. ASSUME NEW w \in Workers, Die(w) PROVE IInv'
  BY <1>3, DieHolds
<1>4. CASE UNCHANGED vars
  <2>1. UNCHANGED <<rows, auths, thread, now, faults>>
    BY <1>4 DEF vars, rows, auths
  <2>2. TypedRows' /\ TypedAuths' /\ TypedClock' /\ Tables' /\ Sessions'
    BY <2>1 DEF IInv, TypedRows, TypedAuths, TypedClock, Tables, OneAccountEach,
                GoneLeavesNothing, Sessions, Belongs, Present, rows, auths
  <2>3. Evolves
    BY <2>1, AccountsAssumption DEF Evolves, rows, auths, IInv, TypedRows, TypedAuths
  <2> QED BY <2>1, <2>2, <2>3, ThreadsStay DEF IInv
<1> QED BY <1>1, <1>2, <1>3, <1>4, PruneHolds, TickHolds DEF Next

-----------------------------------------------------------------------------
(* The theorems.                                                             *)

\* The strengthened invariant holds of every behaviour.
THEOREM Invariance == Spec => []IInv
<1>1. Init => IInv
  BY InitHolds
<1>2. IInv /\ [Next]_vars => IInv'
  BY StepHolds
<1> QED BY <1>1, <1>2, PTL DEF Spec

\* Rows, tokens, clock and threads keep their types.
THEOREM TypeCorrect == Spec => []TypeOK
<1>1. IInv => TypeOK
  BY Typed
<1> QED BY <1>1, Invariance, PTL

\* No Google identity ever has two accounts, however its sign-ins race (register_user).
THEOREM OneEach == Spec => []OneAccountEach
<1>1. IInv => OneAccountEach
  BY DEF IInv, Tables
<1> QED BY <1>1, Invariance, PTL

\* A request acts for the identity its token was issued to, although tokens outlive
\* accounts (get_current_user).
THEOREM StayOwn == Spec => []SessionsStayOwn
<1>1. IInv => SessionsStayOwn
  <2> SUFFICES ASSUME IInv, NEW w \in Workers,
                      thread[w].pc \in Routes \cup {"find", "drop"}, Present(thread[w].user)
               PROVE  users[thread[w].user] = session[thread[w].token].google
    BY DEF SessionsStayOwn
  <2>1. /\ thread[w].token \in 1 .. issued
        /\ thread[w].user = session[thread[w].token].user
    BY Local DEF Fit
  <2> QED BY <2>1 DEF IInv, Sessions, Belongs
<1> QED BY <1>1, Invariance, PTL

\* Nothing is left of a deleted account (delete_account, ON DELETE CASCADE).
THEOREM NothingLeft == Spec => []GoneLeavesNothing
<1>1. IInv => GoneLeavesNothing
  BY DEF IInv, Tables
<1> QED BY <1>1, Invariance, PTL

\* Each step of a request sets the record of its thread and no other.
LEMMA OthersStay ==
  ASSUME IInv, NEW v \in Workers, Arrive(v) \/ Handle(v) \/ Die(v),
         NEW w \in Workers, w # v
  PROVE  thread'[w] = thread[w]
<1>1. \E r : Goes(v, r)
  <2>1. CASE Arrive(v)
    BY <2>1 DEF Arrive, Register, Authenticate
  <2>2. CASE Die(v)
    BY <2>2 DEF Die
  <2>3. CASE Insert(v) \/ Login(v) \/ Logout(v) \/ Post(v) \/ Remove(v) \/ Map(v)
    BY <2>3 DEF Insert, Login, Logout, Post, Remove, Map
  <2>4. CASE FindUser(v) \/ Find(v) \/ Purge(v) \/ PurgeFails(v) \/ Drop(v)
    BY <2>4 DEF FindUser, Find, Purge, PurgeFails, Drop
  <2> QED BY <2>1, <2>2, <2>3, <2>4 DEF Handle
<1> QED BY <1>1 DEF Goes, IInv, TypedThreads

\* A request gets in only with a token that is neither listed nor expired.
LEMMA LetIn ==
  ASSUME IInv, Next, NEW w \in Workers, At(w, "idle"), At(w, "user")'
  PROVE  thread'[w].token \notin loggedOut
<1>1. PICK v \in Workers : Arrive(v) \/ Handle(v) \/ Die(v)
  BY DEF Next, Prune, Tick, At
<1>2. w = v
  BY <1>1, OthersStay DEF At
<1>3. ~Handle(w) /\ ~Die(w)
  BY DEF Handle, Die, At, Insert, Login, FindUser, Logout, Post, Find, Remove, Map, Purge,
         PurgeFails, Drop
<1>4. ASSUME NEW g \in Googles, Register(w, g) PROVE FALSE
  <2>1. \/ Goes(w, [Idle EXCEPT !.pc = "insert", !.google = g])
        \/ \E u \in UserIds : Goes(w, [Idle EXCEPT !.pc = "login", !.google = g, !.user = u])
    BY <1>4 DEF Register
  <2>2. \E r : Goes(w, r) /\ r.pc # "user"
    <3>1. [Idle EXCEPT !.pc = "insert", !.google = g].pc # "user"
      BY DEF Idle
    <3>2. \A u \in UserIds : [Idle EXCEPT !.pc = "login", !.google = g, !.user = u].pc # "user"
      BY DEF Idle
    <3> QED BY <2>1, <3>1, <3>2, Zenon
  <2>3. PICK r : Goes(w, r) /\ r.pc # "user"
    BY <2>2
  <2> QED BY <2>3 DEF At, Goes, IInv, TypedThreads
<1>5. PICK t \in Tokens, route \in Routes, s \in 0 .. MaxSnapshots : Authenticate(w, t, route, s)
  <2>1. {"logout", "purge", "post", "remove", "map"} \subseteq Routes
    BY DEF Routes
  <2>2. 0 \in 0 .. MaxSnapshots /\ SnapshotIds \subseteq 0 .. MaxSnapshots
    BY AccountsAssumption DEF SnapshotIds
  <2> QED BY <1>1, <1>2, <1>3, <1>4, <2>1, <2>2 DEF Arrive
<1>6. thread'[w].token = t
  <2>1. PICK r : /\ Goes(w, r)
                 /\ r = [Idle EXCEPT !.pc = "user", !.route = route, !.token = t,
                                      !.user = session[t].user, !.snapshot = s]
    BY <1>5 DEF Authenticate
  <2>2. r.token = t
    BY <2>1 DEF Idle
  <2> QED BY <2>1, <2>2 DEF Goes, IInv, TypedThreads
<1>7. t \in 1 .. issued /\ session[t].exp > now /\ t \notin revoked
  BY <1>5 DEF Authenticate, Tokens
<1>8. session[t].exp \in Nat /\ now \in Nat
  BY AccountsAssumption DEF IInv, TypedAuths, TypedClock
<1>9. t \notin loggedOut
  BY <1>7, <1>8 DEF IInv, Sessions
<1> QED BY <1>6, <1>9

\* A logged-out token is never let in again, pruned or not (docs/architecture.md).
THEOREM StayOut == Spec => LoggedOutRejected
<1>1. IInv /\ [Next]_vars =>
        [\A w \in Workers :
           At(w, "idle") /\ At(w, "user")' => thread'[w].token \notin loggedOut]_vars
  BY LetIn
<1> QED BY <1>1, Invariance, PTL DEF Spec, LoggedOutRejected

\* A snapshot goes only with a request of its owner.
LEMMA Goner ==
  ASSUME IInv, Next, NEW s \in SnapshotIds, snapshots[s] # 0, snapshots'[s] = 0
  PROVE  \E w \in Workers : /\ thread[w].pc \in {"remove", "drop"} /\ thread'[w].pc = "idle"
                            /\ session[thread[w].token].user = snapshots[s]
<1>1. PICK w \in Workers : Arrive(w) \/ Handle(w) \/ Die(w)
  BY DEF Next, Prune, Tick, rows
<1>2. ~Arrive(w) /\ ~Die(w)
  BY DEF Arrive, Register, Authenticate, Die, rows
<1>3. ~Insert(w) /\ ~Login(w) /\ ~FindUser(w) /\ ~Logout(w) /\ ~Find(w) /\ ~Map(w)
  BY DEF Insert, Login, FindUser, Logout, Find, Map, rows
<1>4. ~Purge(w) /\ ~PurgeFails(w)
  BY DEF Purge, PurgeFails, rows
<1>5. ~Post(w)
  <2> SUFFICES ASSUME Post(w) PROVE FALSE
    OBVIOUS
  <2>1. s # filed + 1
    BY AccountsAssumption DEF IInv, Tables, TypedRows
  <2> QED BY <2>1 DEF Post, IInv, TypedRows
<1>6. ASSUME Goes(w, Idle) PROVE thread'[w].pc = "idle"
  BY <1>6 DEF Goes, Idle, IInv, TypedThreads
<1>7. CASE Remove(w)
  <2>1. thread[w].pc = "remove" /\ thread'[w].pc = "idle"
    BY <1>6, <1>7 DEF Remove, At
  <2>2. s = thread[w].snapshot
    BY <1>7 DEF Remove, IInv, TypedRows
  <2>3. snapshots[s] = thread[w].user /\ thread[w].user = session[thread[w].token].user
    BY <2>1, <2>2, Local DEF Fit, Routes
  <2> QED BY <2>1, <2>3
<1>8. CASE Drop(w)
  <2>1. thread[w].pc = "drop" /\ thread'[w].pc = "idle"
    BY <1>6, <1>8 DEF Drop, At
  <2>2. snapshots[s] = thread[w].user
    BY <1>8 DEF Drop, Cascade, IInv, TypedRows
  <2>3. thread[w].user = session[thread[w].token].user
    BY <2>1, Local DEF Fit
  <2> QED BY <2>1, <2>2, <2>3
<1> QED BY <1>1, <1>2, <1>3, <1>4, <1>5, <1>7, <1>8 DEF Handle

\* Only the account that saved a snapshot makes it disappear (delete_snapshot).
THEOREM OwnersOnly == Spec => OnlyOwnersRemove
<1>1. IInv /\ [Next]_vars =>
        [\A s \in SnapshotIds : snapshots[s] # 0 /\ snapshots'[s] = 0 =>
           \E w \in Workers : /\ thread[w].pc \in {"remove", "drop"} /\ thread'[w].pc = "idle"
                              /\ session[thread[w].token].user = snapshots[s]]_vars
  BY Goner
<1> QED BY <1>1, Invariance, PTL DEF Spec, OnlyOwnersRemove

=============================================================================
