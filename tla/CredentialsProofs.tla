------------------------- MODULE CredentialsProofs -------------------------
(***************************************************************************)
(* The refresh lock excludes, a missing credential is flagged, and wiping  *)
(* and deleting destroy and leave behind only what they are bound to, for  *)
(* any number of threads, grants, requests and failures.                   *)
(***************************************************************************)
EXTENDS Credentials, TLAPS

\* A thread about to store or to revoke a credential has one, and it was given out.
Carries ==
  \A w \in Workers : /\ thread[w].pc \in {"save", "reencrypt", "revoke"} => thread[w].grant # 0
                     /\ thread[w].grant <= granted

IInv == TypeOK /\ cred <= granted /\ RefreshExclusive /\ Carries /\ MissingIsFlagged

\* The initial state: an account with a stored credential and idle threads.
LEMMA InitHolds == Init => IInv
  <1> SUFFICES ASSUME Init PROVE IInv
    OBVIOUS
  <1>1. Idle \in Thread /\ Idle.pc = "idle" /\ Idle.grant = 0
    BY CredentialsAssumption DEF Thread, PCs, Idle
  <1>2. \A w \in Workers : thread[w] = Idle
    BY DEF Init
  <1>3. TypeOK
    <2>1. present \in BOOLEAN /\ old \in BOOLEAN /\ reconnect \in BOOLEAN
      BY Zenon DEF Init
    <2>2. cred \in 0 .. MaxGrants /\ granted \in Grants
      BY CredentialsAssumption DEF Init, Grants
    <2>3. dead \subseteq 1 .. granted /\ aged \subseteq 1 .. granted
      BY DEF Init
    <2>4. lock \in Workers \cup {Nobody} /\ thread \in [Workers -> Thread]
      BY <1>1 DEF Init
    <2>5. requests \in 0 .. MaxRequests /\ faults \in 0 .. MaxFaults
      BY CredentialsAssumption DEF Init
    <2> QED BY <2>1, <2>2, <2>3, <2>4, <2>5 DEF TypeOK
  <1>4. RefreshExclusive
    BY <1>1, <1>2, CredentialsAssumption DEF Init, RefreshExclusive
  <1>0. granted = 1
    BY DEF Init
  <1>5. Carries
    <2> SUFFICES ASSUME NEW w \in Workers
                 PROVE  /\ thread[w].pc \in {"save", "reencrypt", "revoke"} => thread[w].grant # 0
                        /\ thread[w].grant <= granted
      BY DEF Carries
    <2>1. thread[w].pc = "idle" /\ thread[w].grant = 0
      BY <1>1, <1>2
    <2>2. thread[w].grant <= granted
      BY <1>0, <2>1
    <2> QED BY <2>1, <2>2
  <1>6. MissingIsFlagged
    BY DEF Init, MissingIsFlagged
  <1>7. cred <= granted
    BY DEF Init
  <1> QED BY <1>3, <1>4, <1>5, <1>6, <1>7 DEF IInv

\* What one thread does with the lock, and with what it carries, is all that matters.
LEMMA Moved ==
  ASSUME IInv, NEW w \in Workers, NEW r \in Thread, Goes(w, r),
         lock' = w <=> r.pc \in {"exchange", "release"},
         lock' = lock \/ lock' = w \/ (lock = w /\ lock' = Nobody),
         lock # w /\ lock' = w => lock = Nobody,
         r.pc \in {"save", "reencrypt", "revoke"} => r.grant # 0,
         granted' \in Nat, granted <= granted', r.grant <= granted'
  PROVE  /\ thread' \in [Workers -> Thread] /\ lock' \in Workers \cup {Nobody}
         /\ RefreshExclusive' /\ Carries'
  <1>1. /\ thread' \in [Workers -> Thread]
        /\ thread'[w] = r /\ \A v \in Workers \ {w} : thread'[v] = thread[v]
    BY DEF IInv, TypeOK, Goes
  <1>2. lock' \in Workers \cup {Nobody}
    BY DEF IInv, TypeOK
  <1>3. \A v \in Workers \ {w} : lock' = v <=> lock = v
    BY CredentialsAssumption
  <1>4. RefreshExclusive'
    BY <1>1, <1>3 DEF IInv, RefreshExclusive
  <1>5. Carries'
    <2> SUFFICES ASSUME NEW v \in Workers
                 PROVE  /\ thread'[v].pc \in {"save", "reencrypt", "revoke"} => thread'[v].grant # 0
                        /\ thread'[v].grant <= granted'
      BY DEF Carries
    <2>1. CASE v = w
      BY <1>1, <2>1
    <2>2. CASE v # w
      <3>1. thread'[v] = thread[v] /\ thread[v].grant \in Nat /\ granted \in Nat
        BY <1>1, <2>2, CredentialsAssumption DEF IInv, TypeOK, Thread, Grants
      <3> QED BY <3>1 DEF IInv, Carries
    <2> QED BY <2>1, <2>2
  <1> QED BY <1>1, <1>2, <1>4, <1>5

\* A thread that was not at the lock and is not now leaves it alone.
LEMMA MovedAside ==
  ASSUME IInv, NEW w \in Workers, NEW r \in Thread, Goes(w, r), UNCHANGED <<lock, granted>>,
         thread[w].pc \notin {"exchange", "release"}, r.pc \notin {"exchange", "release"},
         r.pc \in {"save", "reencrypt", "revoke"} => r.grant # 0, r.grant <= granted
  PROVE  /\ thread' \in [Workers -> Thread] /\ lock' \in Workers \cup {Nobody}
         /\ RefreshExclusive' /\ Carries'
  <1>1. lock # w
    BY DEF IInv, RefreshExclusive
  <1>2. granted' \in Nat /\ granted <= granted' /\ r.grant <= granted'
    BY CredentialsAssumption DEF IInv, TypeOK, Grants
  <1> QED BY <1>1, <1>2, Moved

\* Records of the shape of a thread.
LEMMA IdleThread == Idle \in Thread /\ Idle.pc = "idle" /\ Idle.grant = 0
  BY CredentialsAssumption DEF Thread, Idle, PCs

LEMMA NewThread ==
  ASSUME NEW pc \in PCs, NEW g \in 0 .. MaxGrants
  PROVE  [Idle EXCEPT !.pc = pc, !.grant = g] \in Thread
  BY DEF Thread, Idle

LEMMA NewFlagged ==
  ASSUME NEW pc \in PCs, NEW g \in 0 .. MaxGrants, NEW b \in BOOLEAN
  PROVE  [Idle EXCEPT !.pc = pc, !.grant = g, !.flag = b] \in Thread
  BY DEF Thread, Idle

LEMMA NextThread ==
  ASSUME NEW r \in Thread, NEW pc \in PCs
  PROVE  /\ [r EXCEPT !.pc = pc] \in Thread
         /\ [r EXCEPT !.pc = pc].pc = pc /\ [r EXCEPT !.pc = pc].grant = r.grant
  BY DEF Thread

-----------------------------------------------------------------------------
(* One lemma per action, or per group of actions that move alike.            *)

\* What TypeOK says of everything but the threads and their lock.
Columns ==
  /\ present \in BOOLEAN /\ cred \in 0 .. granted
  /\ old \in BOOLEAN /\ reconnect \in BOOLEAN
  /\ granted \in Grants /\ dead \subseteq 1 .. granted /\ aged \subseteq 1 .. granted
  /\ requests \in 0 .. MaxRequests /\ faults \in 0 .. MaxFaults

Locked == /\ thread \in [Workers -> Thread] /\ lock \in Workers \cup {Nobody}
          /\ RefreshExclusive /\ Carries

LEMMA Parts == IInv <=> Columns /\ Locked /\ MissingIsFlagged
  BY CredentialsAssumption DEF IInv, TypeOK, Columns, Locked, Grants

LEMMA PartsNext == IInv' <=> Columns' /\ Locked' /\ MissingIsFlagged'
  BY CredentialsAssumption DEF IInv, TypeOK, Columns, Locked, Grants

\* What a record or a thread holds was given out.
LEMMA Held ==
  ASSUME IInv
  PROVE  /\ granted \in Nat /\ 0 <= granted /\ cred \in 0 .. MaxGrants /\ cred <= granted
         /\ \A w \in Workers : thread[w].grant <= granted /\ thread[w].grant \in Nat
  BY CredentialsAssumption DEF IInv, TypeOK, Grants, Carries, Thread

\* A bounded counter of failures.
LEMMA FaultTyped ==
  ASSUME IInv, Fault \/ UNCHANGED faults
  PROVE  faults' \in 0 .. MaxFaults
  BY CredentialsAssumption DEF IInv, TypeOK, Fault

\* Nothing happens to the row and at Google.
LEMMA ColumnsKept ==
  ASSUME IInv, UNCHANGED <<record, google>>,
         requests' \in 0 .. MaxRequests, faults' \in 0 .. MaxFaults
  PROVE  Columns' /\ MissingIsFlagged'
  <1>1. Columns /\ MissingIsFlagged
    BY Parts
  <1>2. /\ present' = present /\ cred' = cred /\ old' = old /\ reconnect' = reconnect
        /\ granted' = granted /\ dead' = dead /\ aged' = aged
    BY DEF record, google
  <1>3. Columns'
    BY <1>1, <1>2 DEF Columns
  <1>4. MissingIsFlagged'
    BY <1>1, <1>2 DEF MissingIsFlagged
  <1> QED BY <1>3, <1>4

LEMMA AcceptTyped ==
  ASSUME IInv, NEW w \in Workers, NEW r \in Thread, Accept(w, r)
  PROVE  requests' \in 0 .. MaxRequests /\ Goes(w, r) /\ thread[w].pc = "idle"
  BY CredentialsAssumption DEF IInv, TypeOK, Accept, At

LEMMA SignInHolds ==
  ASSUME IInv, NEW w \in Workers, SignIn(w)
  PROVE  IInv'
  <1> DEFINE r == [Idle EXCEPT !.pc = "save", !.grant = granted + 1, !.flag = reconnect]
  <1>1. granted + 1 \in 1 .. MaxGrants /\ reconnect \in BOOLEAN /\ "save" \in PCs
    BY CredentialsAssumption DEF IInv, TypeOK, SignIn, Grants, PCs
  <1>2. granted + 1 \in 0 .. MaxGrants
    BY <1>1
  <1>3. r \in Thread
    BY <1>1, <1>2, NewFlagged
  <1>4. r.pc = "save" /\ r.grant = granted + 1 /\ r.grant # 0
    BY <1>1 DEF Idle
  <1>5. Accept(w, r) /\ UNCHANGED <<record, dead, aged, lock, faults>> /\ granted' = granted + 1
    BY DEF SignIn
  <1> HIDE DEF r
  <1>6. requests' \in 0 .. MaxRequests /\ Goes(w, r) /\ thread[w].pc = "idle"
    BY <1>3, <1>5, AcceptTyped
  <1>7. Locked'
    <2>1. lock # w
      BY <1>6 DEF IInv, RefreshExclusive
    <2>2. granted' \in Nat /\ granted <= granted' /\ r.grant <= granted'
      BY <1>4, <1>5, Held
    <2>3. lock' = lock
      BY <1>5
    <2> QED BY <1>3, <1>4, <1>6, <2>1, <2>2, <2>3, Moved DEF Locked
  <1>8. Columns'
    <2>1. /\ present' = present /\ cred' = cred /\ old' = old /\ reconnect' = reconnect
          /\ dead' = dead /\ aged' = aged /\ faults' = faults
      BY <1>5 DEF record
    <2>2. Columns
      BY Parts
    <2>3. dead' \subseteq 1 .. granted' /\ aged' \subseteq 1 .. granted' /\ granted' \in Grants
      BY <1>1, <1>5, <2>1, <2>2, CredentialsAssumption DEF Columns, Grants
    <2>4. cred' \in 0 .. granted'
      BY <1>5, <2>1, <2>2, Held DEF Columns
    <2> QED BY <1>6, <2>1, <2>2, <2>3, <2>4 DEF Columns
  <1>9. MissingIsFlagged'
    BY <1>5 DEF IInv, MissingIsFlagged, record
  <1> QED BY <1>7, <1>8, <1>9, PartsNext

LEMMA RestoreHolds ==
  ASSUME IInv, NEW w \in Workers, Restore(w) \/ DeleteAccount(w)
  PROVE  IInv'
  <1>1. PICK pc \in {"reencrypt", "resolve", "revoke", "delete"} :
          /\ Accept(w, [Idle EXCEPT !.pc = pc, !.grant = cred])
          /\ pc \in {"reencrypt", "revoke"} => cred # 0
    BY DEF Restore, DeleteAccount
  <1>2. UNCHANGED <<record, google, lock, faults>>
    BY DEF Restore, DeleteAccount
  <1> DEFINE r == [Idle EXCEPT !.pc = pc, !.grant = cred]
  <1>3. r \in Thread
    BY Held, NewThread DEF PCs
  <1>4. r.pc = pc /\ r.grant = cred
    BY DEF Idle
  <1>5. Accept(w, r)
    BY <1>1
  <1> HIDE DEF r
  <1>6. requests' \in 0 .. MaxRequests /\ Goes(w, r) /\ thread[w].pc = "idle"
    BY <1>3, <1>5, AcceptTyped
  <1>7. Locked'
    BY <1>1, <1>2, <1>3, <1>4, <1>6, Held, MovedAside DEF Locked, google
  <1>8. faults' \in 0 .. MaxFaults
    BY <1>2, FaultTyped
  <1> QED BY <1>2, <1>6, <1>7, <1>8, ColumnsKept, PartsNext

\* The row is written: what is stored is a grant, and a missing one is flagged.
LEMMA RowWritten ==
  ASSUME IInv, present' \in BOOLEAN, cred' \in 0 .. granted, old' \in BOOLEAN,
         reconnect' \in BOOLEAN, present' /\ cred' = 0 => reconnect',
         UNCHANGED <<google, requests, faults>>
  PROVE  Columns' /\ MissingIsFlagged'
  <1>1. /\ granted' = granted /\ dead' = dead /\ aged' = aged
        /\ requests' = requests /\ faults' = faults
    BY DEF google
  <1>2. Columns
    BY Parts
  <1>3. Columns'
    BY <1>1, <1>2 DEF Columns
  <1> QED BY <1>3 DEF MissingIsFlagged

LEMMA SaveHolds ==
  ASSUME IInv, NEW w \in Workers, Save(w)
  PROVE  IInv'
  <1>1. /\ thread[w] \in Thread /\ thread[w].pc = "save" /\ Goes(w, Idle) /\ lock' = lock
        /\ present' = present /\ UNCHANGED <<google, requests, faults>>
    BY DEF Save, At, IInv, TypeOK
  <1>2. Locked'
    BY <1>1, IdleThread, Held, MovedAside DEF Locked, google
  <1>3. thread[w].grant \in 1 .. granted
    BY <1>1, Held DEF IInv, Carries
  <1>4. CASE present
    <2>1. cred' = thread[w].grant /\ old' = FALSE /\ reconnect' = (reconnect /\ ~thread[w].flag)
      BY <1>4 DEF Save
    <2>2. cred' \in 0 .. granted /\ cred' # 0
      BY <2>1, <1>3, Held
    <2>3. reconnect' \in BOOLEAN /\ old' \in BOOLEAN /\ present' \in BOOLEAN
      BY <1>1, <1>4, <2>1, Zenon
    <2> QED BY <1>1, <1>2, <2>2, <2>3, RowWritten, PartsNext
  <1>5. CASE ~present
    <2>1. UNCHANGED record
      BY <1>1, <1>5 DEF Save, record
    <2>2. requests' \in 0 .. MaxRequests /\ faults' \in 0 .. MaxFaults
      BY <1>1 DEF IInv, TypeOK
    <2> QED BY <1>1, <1>2, <2>1, <2>2, ColumnsKept, PartsNext
  <1> QED BY <1>4, <1>5

LEMMA ReencryptHolds ==
  ASSUME IInv, NEW w \in Workers, Reencrypt(w)
  PROVE  IInv'
  <1> DEFINE r == [thread[w] EXCEPT !.pc = "resolve"]
  <1>1. /\ thread[w] \in Thread /\ thread[w].pc = "reencrypt" /\ lock' = lock
        /\ UNCHANGED <<present, reconnect, google, requests, faults>>
    BY DEF Reencrypt, At, IInv, TypeOK
  <1>2. thread[w].grant \in 1 .. granted
    BY <1>1, Held DEF IInv, Carries
  <1>0. "resolve" \in PCs
    BY DEF PCs
  <1>3. r \in Thread /\ r.pc = "resolve" /\ r.grant = thread[w].grant
    BY <1>1, <1>0, NextThread
  <1>4. CASE present
    <2>1. Goes(w, r) /\ cred' = thread[w].grant /\ old' = FALSE
      BY <1>4 DEF Reencrypt
    <2> HIDE DEF r
    <2>2. Locked'
      BY <1>1, <1>3, <2>1, Held, MovedAside DEF Locked, google
    <2>3. cred' \in 0 .. granted /\ cred' # 0
      BY <2>1, <1>2, Held
    <2>4. present' \in BOOLEAN /\ reconnect' \in BOOLEAN /\ old' \in BOOLEAN
      BY <1>1, <2>1 DEF IInv, TypeOK
    <2> QED BY <1>1, <2>2, <2>3, <2>4, RowWritten, PartsNext
  <1>5. CASE ~present
    <2>1. Goes(w, Idle) /\ UNCHANGED record
      BY <1>1, <1>5 DEF Reencrypt, record
    <2>2. Locked'
      BY <1>1, <2>1, IdleThread, Held, MovedAside DEF Locked, google
    <2>3. requests' \in 0 .. MaxRequests /\ faults' \in 0 .. MaxFaults
      BY <1>1 DEF IInv, TypeOK
    <2> QED BY <1>1, <2>1, <2>2, <2>3, ColumnsKept, PartsNext
  <1> QED BY <1>4, <1>5

LEMMA WipeHolds ==
  ASSUME IInv, NEW w \in Workers, Wipe(w) \/ Delete(w)
  PROVE  IInv'
  <1>1. /\ thread[w].pc \in {"wipe", "delete"} /\ Goes(w, Idle) /\ lock' = lock
        /\ UNCHANGED <<google, requests, faults>>
    BY DEF Wipe, Delete, At
  <1>2. Locked'
    BY <1>1, IdleThread, Held, MovedAside DEF Locked, google
  <1>3. CASE /\ cred' = 0 /\ old' = FALSE /\ reconnect' \in BOOLEAN
             /\ present' \in BOOLEAN /\ (reconnect' \/ ~present')
    <2>1. cred' \in 0 .. granted
      BY <1>3, Held
    <2>2. old' \in BOOLEAN /\ (present' /\ cred' = 0 => reconnect')
      BY <1>3, Zenon
    <2> QED BY <1>1, <1>2, <1>3, <2>1, <2>2, RowWritten, PartsNext
  <1>4. CASE UNCHANGED record
    <2>1. requests' \in 0 .. MaxRequests /\ faults' \in 0 .. MaxFaults
      BY <1>1 DEF IInv, TypeOK
    <2> QED BY <1>1, <1>2, <1>4, <2>1, ColumnsKept, PartsNext
  <1>5. CASE Delete(w)
    BY <1>3, <1>5 DEF Delete
  <1>6. CASE Wipe(w) /\ present
    BY <1>3, <1>6 DEF Wipe
  <1>7. CASE Wipe(w) /\ ~present
    BY <1>4, <1>7 DEF Wipe, record
  <1> QED BY <1>5, <1>6, <1>7

\* A step of one thread that neither writes the row nor takes part in the locking.
LEMMA ThreadStep ==
  ASSUME IInv, NEW w \in Workers, NEW r \in Thread, Goes(w, r),
         UNCHANGED <<record, google, lock, requests>>, Fault \/ UNCHANGED faults,
         thread[w].pc \notin {"exchange", "release"},
         r.pc \notin {"exchange", "release", "save", "reencrypt", "revoke"}, r.grant <= granted
  PROVE  IInv'
  <1>1. Locked'
    BY MovedAside DEF Locked, google
  <1>2. requests' \in 0 .. MaxRequests
    BY DEF IInv, TypeOK
  <1> QED BY <1>1, <1>2, FaultTyped, ColumnsKept, PartsNext

LEMMA CallHolds ==
  ASSUME IInv, NEW w \in Workers,
         CallRejected(w) \/ CallEnds(w) \/ CommitFails(w) \/ WaitTimeout(w)
  PROVE  IInv'
  <1>1. thread[w] \in Thread /\ "wipe" \in PCs /\ "call" \in PCs
    BY DEF IInv, TypeOK, PCs
  <1>2. /\ thread[w].pc \notin {"exchange", "release"}
        /\ UNCHANGED <<record, google, lock, requests>> /\ (Fault \/ UNCHANGED faults)
    BY DEF CallRejected, CallEnds, CommitFails, WaitTimeout, At
  <1>3. CASE Goes(w, Idle)
    BY <1>2, <1>3, IdleThread, Held, ThreadStep
  <1>4. CASE Goes(w, [thread[w] EXCEPT !.pc = "wipe"])
    BY <1>1, <1>2, <1>4, NextThread, Held, ThreadStep
  <1>5. CASE Goes(w, [thread[w] EXCEPT !.pc = "call"])
    BY <1>1, <1>2, <1>5, NextThread, Held, ThreadStep
  <1> QED BY <1>3, <1>4, <1>5 DEF CallRejected, CallEnds, CommitFails, WaitTimeout, Rejected

LEMMA RevokeHolds ==
  ASSUME IInv, NEW w \in Workers, Revoke(w)
  PROVE  IInv'
  <1> DEFINE r == [thread[w] EXCEPT !.pc = "delete"]
  <1>1. thread[w] \in Thread /\ "delete" \in PCs
    BY DEF IInv, TypeOK, PCs
  <1>2. r \in Thread /\ r.pc = "delete" /\ r.grant = thread[w].grant
    BY <1>1, NextThread
  <1>3. /\ thread[w].pc = "revoke" /\ Goes(w, r) /\ lock' = lock
        /\ UNCHANGED <<record, granted, aged, requests>> /\ (Fault \/ UNCHANGED faults)
        /\ dead' \subseteq dead \cup {thread[w].grant}
    BY DEF Revoke, At
  <1> HIDE DEF r
  <1>4. Locked'
    BY <1>2, <1>3, Held, MovedAside DEF Locked
  <1>5. /\ present' = present /\ cred' = cred /\ old' = old /\ reconnect' = reconnect
        /\ granted' = granted /\ aged' = aged /\ requests' = requests
    BY <1>3 DEF record
  <1>6. thread[w].grant \in 1 .. granted
    BY <1>3, Held DEF IInv, Carries
  <1>7. Columns /\ MissingIsFlagged
    BY Parts
  <1>8. dead' \subseteq 1 .. granted' /\ faults' \in 0 .. MaxFaults
    BY <1>3, <1>5, <1>6, <1>7, FaultTyped DEF Columns
  <1>9. Columns'
    BY <1>5, <1>7, <1>8 DEF Columns
  <1>10. MissingIsFlagged'
    BY <1>5, <1>7 DEF MissingIsFlagged
  <1> QED BY <1>4, <1>9, <1>10, PartsNext

\* The lock is taken by a thread that finds it free, and given back by its holder.
LEMMA LockStep ==
  ASSUME IInv, NEW w \in Workers, NEW pc \in PCs,
         Goes(w, [thread[w] EXCEPT !.pc = pc]),
         UNCHANGED <<record, google, requests>>, Fault \/ UNCHANGED faults,
         pc \notin {"save", "reencrypt", "revoke"},
         lock' = w <=> pc \in {"exchange", "release"},
         lock' = lock \/ lock' = w \/ (lock = w /\ lock' = Nobody),
         lock # w /\ lock' = w => lock = Nobody
  PROVE  IInv'
  <1> DEFINE r == [thread[w] EXCEPT !.pc = pc]
  <1>1. r \in Thread /\ r.pc = pc /\ r.grant = thread[w].grant
    BY NextThread DEF IInv, TypeOK
  <1>2. Goes(w, r)
    OBVIOUS
  <1> HIDE DEF r
  <1>3. granted' \in Nat /\ granted <= granted' /\ r.grant <= granted'
    BY <1>1, Held DEF google
  <1>4. Locked'
    BY <1>1, <1>2, <1>3, Moved DEF Locked
  <1>5. requests' \in 0 .. MaxRequests
    BY DEF IInv, TypeOK
  <1> QED BY <1>4, <1>5, FaultTyped, ColumnsKept, PartsNext

LEMMA LockHolds ==
  ASSUME IInv, NEW w \in Workers, Resolve(w) \/ ExchangeFails(w) \/ Wait(w) \/ Release(w)
  PROVE  IInv'
  <1>1. {"call", "exchange", "wait", "release"} \subseteq PCs
    BY DEF PCs
  <1>2. /\ lock = w <=> thread[w].pc \in {"exchange", "release"}
        /\ lock \in Workers \cup {Nobody} /\ w # Nobody
    BY CredentialsAssumption DEF IInv, TypeOK, RefreshExclusive
  <1>3. UNCHANGED <<record, google, requests>> /\ (Fault \/ UNCHANGED faults)
    BY DEF Resolve, ExchangeFails, Wait, Release
  <1>4. CASE Resolve(w) /\ ~Expired(thread[w].grant)
    <2>1. /\ lock' = lock /\ thread[w].pc = "resolve"
          /\ Goes(w, [thread[w] EXCEPT !.pc = "call"])
      BY <1>4 DEF Resolve, At
    <2> QED BY <1>1, <1>2, <1>3, <2>1, LockStep
  <1>5. CASE Resolve(w) /\ Expired(thread[w].grant) /\ lock = Nobody
    <2>1. lock' = w /\ Goes(w, [thread[w] EXCEPT !.pc = "exchange"])
      BY <1>5 DEF Resolve
    <2> QED BY <1>1, <1>3, <1>5, <2>1, LockStep
  <1>6. CASE Resolve(w) /\ Expired(thread[w].grant) /\ lock # Nobody
    <2>1. /\ lock' = lock /\ thread[w].pc = "resolve"
          /\ Goes(w, [thread[w] EXCEPT !.pc = "wait"])
      BY <1>6 DEF Resolve, At
    <2> QED BY <1>1, <1>2, <1>3, <2>1, LockStep
  <1>7. CASE ExchangeFails(w) \/ Release(w)
    <2>1. /\ lock' = Nobody /\ thread[w].pc \in {"exchange", "release"}
          /\ Goes(w, [thread[w] EXCEPT !.pc = "call"])
      BY <1>7 DEF ExchangeFails, Release, At
    <2> QED BY <1>1, <1>2, <1>3, <2>1, LockStep
  <1>8. CASE Wait(w)
    <2>1. lock = Nobody /\ lock' = w /\ Goes(w, [thread[w] EXCEPT !.pc = "release"])
      BY <1>8 DEF Wait
    <2> QED BY <1>1, <1>3, <2>1, LockStep
  <1> QED BY <1>4, <1>5, <1>6, <1>7, <1>8

\* A successful exchange also leaves its mark on the threads that wait for it.
LEMMA ExchangeHolds ==
  ASSUME IInv, NEW w \in Workers, Exchange(w)
  PROVE  IInv'
  <1>1. /\ thread[w].pc = "exchange" /\ lock' = Nobody
        /\ UNCHANGED <<record, google, requests, faults>>
    BY DEF Exchange, At
  <1>2. thread \in [Workers -> Thread] /\ "call" \in PCs
    BY DEF IInv, TypeOK, PCs
  <1>3. PICK m \in [Workers -> BOOLEAN] :
          thread' = [v \in Workers |-> IF v = w THEN [thread[w] EXCEPT !.pc = "call", !.fresh = TRUE]
                                        ELSE [thread[v] EXCEPT !.served = m[v]]]
    <2> DEFINE m == [v \in Workers |-> thread[v].served
                       \/ (thread[v].pc \in {"resolve", "wait"} /\ thread[v].grant = thread[w].grant)]
    <2>1. m \in [Workers -> BOOLEAN]
      OBVIOUS
    <2> QED BY <2>1 DEF Exchange
  <1>4. [thread[w] EXCEPT !.pc = "call", !.fresh = TRUE] \in Thread
    BY <1>2 DEF Thread
  <1>5. \A v \in Workers : [thread[v] EXCEPT !.served = m[v]] \in Thread
    BY <1>2, <1>3 DEF Thread
  <1>6. thread' \in [Workers -> Thread]
    BY <1>3, <1>4, <1>5
  <1>7. /\ thread'[w].pc = "call" /\ thread'[w].grant = thread[w].grant
        /\ \A v \in Workers \ {w} : thread'[v].pc = thread[v].pc /\ thread'[v].grant = thread[v].grant
    BY <1>2, <1>3 DEF Thread
  <1>8. RefreshExclusive'
    BY <1>1, <1>7, CredentialsAssumption DEF IInv, RefreshExclusive
  <1>9. Carries'
    BY <1>1, <1>7 DEF IInv, Carries, google
  <1>10. Locked'
    BY <1>1, <1>6, <1>8, <1>9 DEF Locked
  <1>11. requests' \in 0 .. MaxRequests /\ faults' \in 0 .. MaxFaults
    BY <1>1 DEF IInv, TypeOK
  <1> QED BY <1>1, <1>10, <1>11, ColumnsKept, PartsNext

LEMMA GoogleHolds ==
  ASSUME IInv, NEW g \in Grants, GoogleRevokes(g) \/ TokenAges(g)
  PROVE  IInv'
  <1>1. /\ g \in 1 .. granted /\ dead' \subseteq dead \cup {g} /\ aged' \subseteq aged \cup {g}
        /\ UNCHANGED <<record, granted, lock, thread, requests, faults>>
    BY Held DEF GoogleRevokes, TokenAges, Grants
  <1>2. Columns /\ Locked /\ MissingIsFlagged
    BY Parts
  <1>3. dead' \subseteq 1 .. granted' /\ aged' \subseteq 1 .. granted'
    BY <1>1, <1>2 DEF Columns
  <1>4. /\ present' = present /\ cred' = cred /\ old' = old /\ reconnect' = reconnect
        /\ granted' = granted /\ requests' = requests /\ faults' = faults
        /\ lock' = lock /\ thread' = thread
    BY <1>1 DEF record
  <1>5. Columns'
    BY <1>2, <1>3, <1>4 DEF Columns
  <1>6. Locked' /\ MissingIsFlagged'
    BY <1>2, <1>4 DEF Locked, RefreshExclusive, Carries, MissingIsFlagged
  <1> QED BY <1>5, <1>6, PartsNext

LEMMA RestartHolds ==
  ASSUME IInv, Restart
  PROVE  IInv'
  <1>1. /\ thread' = [w \in Workers |-> Idle] /\ lock' = Nobody
        /\ UNCHANGED <<record, google, requests>> /\ Fault
    BY DEF Restart
  <1>2. RefreshExclusive'
    BY <1>1, IdleThread, CredentialsAssumption DEF RefreshExclusive
  <1>3. Carries'
    BY <1>1, IdleThread, Held DEF Carries, google
  <1>4. Locked'
    BY <1>1, <1>2, <1>3, IdleThread DEF Locked
  <1>5. requests' \in 0 .. MaxRequests
    BY <1>1 DEF IInv, TypeOK
  <1> QED BY <1>1, <1>4, <1>5, FaultTyped, ColumnsKept, PartsNext

LEMMA StepHolds == IInv /\ [Next]_vars => IInv'
  <1> SUFFICES ASSUME IInv, [Next]_vars PROVE IInv'
    OBVIOUS
  <1>1. CASE \E w \in Workers : SignIn(w) \/ Restore(w) \/ DeleteAccount(w)
    BY <1>1, SignInHolds, RestoreHolds
  <1>2. CASE \E w \in Workers : Step(w)
    BY <1>2, SaveHolds, ReencryptHolds, LockHolds, ExchangeHolds, CallHolds, WipeHolds, RevokeHolds
       DEF Step
  <1>3. CASE \E g \in Grants : GoogleRevokes(g) \/ TokenAges(g)
    BY <1>3, GoogleHolds
  <1>4. CASE Restart
    BY <1>4, RestartHolds
  <1>5. CASE UNCHANGED vars
    BY <1>5 DEF vars, IInv, TypeOK, RefreshExclusive, Carries, MissingIsFlagged
  <1> QED BY <1>1, <1>2, <1>3, <1>4, <1>5 DEF Next

\* The invariant holds in every behaviour.
THEOREM Invariance == Spec => []IInv
  BY InitHolds, StepHolds, PTL DEF Spec

\* The columns and the locals of the threads keep their shape: in particular no record and
\* no thread holds a grant that Google never gave out (register_user, restore).
THEOREM TypeCorrect == Spec => []TypeOK
  <1>1. IInv => TypeOK
    BY DEF IInv
  <1> QED BY Invariance, <1>1, PTL

\* At most one thread exchanges the refresh token of the account, whatever times out,
\* fails or restarts: the lock is with the thread that is about to release it
\* (refresh_access_token).
THEOREM Exclusive == Spec => []RefreshExclusive
  <1>1. IInv => RefreshExclusive
    BY DEF IInv
  <1> QED BY Invariance, <1>1, PTL

\* An account without a credential is flagged for a new sign-in (mark_needs_reconnect).
THEOREM Flagged == Spec => []MissingIsFlagged
  <1>1. IInv => MissingIsFlagged
    BY DEF IInv
  <1> QED BY Invariance, <1>1, PTL

-----------------------------------------------------------------------------
(* What a wipe may destroy.                                                  *)

\* A refreshed token is refused only if its grant is dead.
FreshWipe ==
  \A w \in Workers : thread[w].pc = "wipe" /\ thread[w].fresh => thread[w].grant \in dead

\* A step of thread w to a record that is not about to wipe.
LEMMA NoNewWipe ==
  ASSUME IInv, FreshWipe, NEW w \in Workers, NEW r, Goes(w, r), r.pc # "wipe", dead \subseteq dead'
  PROVE  FreshWipe'
  <1>1. thread'[w] = r /\ \A v \in Workers \ {w} : thread'[v] = thread[v]
    BY DEF IInv, TypeOK, Goes
  <1> QED BY <1>1 DEF FreshWipe

LEMMA FreshWipeStep == IInv /\ FreshWipe /\ [Next]_vars => FreshWipe'
  <1> SUFFICES ASSUME IInv, FreshWipe, [Next]_vars PROVE FreshWipe'
    OBVIOUS
  <1>1. ASSUME NEW w \in Workers, SignIn(w) \/ Restore(w) \/ DeleteAccount(w)
        PROVE  FreshWipe'
    <2>1. dead' = dead
      BY <1>1 DEF SignIn, Restore, DeleteAccount, google
    <2>2. CASE SignIn(w)
      <3>1. Goes(w, [Idle EXCEPT !.pc = "save", !.grant = granted + 1, !.flag = reconnect])
        BY <2>2 DEF SignIn, Accept
      <3>2. [Idle EXCEPT !.pc = "save", !.grant = granted + 1, !.flag = reconnect].pc # "wipe"
        BY DEF Idle
      <3> QED BY <2>1, <3>1, <3>2, NoNewWipe
    <2>3. CASE Restore(w) \/ DeleteAccount(w)
      <3>1. PICK pc \in {"reencrypt", "resolve", "revoke", "delete"} :
              Goes(w, [Idle EXCEPT !.pc = pc, !.grant = cred])
        BY <2>3 DEF Restore, DeleteAccount, Accept
      <3>2. [Idle EXCEPT !.pc = pc, !.grant = cred].pc # "wipe"
        BY DEF Idle
      <3> QED BY <2>1, <3>1, <3>2, NoNewWipe
    <2> QED BY <1>1, <2>2, <2>3
  <1>2. ASSUME NEW w \in Workers, CallRejected(w)
        PROVE  FreshWipe'
    <2>1. dead' = dead /\ Goes(w, [thread[w] EXCEPT !.pc = "wipe"]) /\ Refused(thread[w])
      BY <1>2 DEF CallRejected, Rejected, google
    <2>2. /\ thread[w] \in Thread /\ thread'[w] = [thread[w] EXCEPT !.pc = "wipe"]
          /\ \A v \in Workers \ {w} : thread'[v] = thread[v]
      BY <2>1 DEF IInv, TypeOK, Goes
    <2>3. thread'[w].fresh = thread[w].fresh /\ thread'[w].grant = thread[w].grant
      BY <2>2 DEF Thread
    <2>4. thread'[w].fresh => thread'[w].grant \in dead
      BY <2>1, <2>3 DEF Refused
    <2> QED BY <2>1, <2>2, <2>4 DEF FreshWipe
  <1>3. ASSUME NEW w \in Workers, Exchange(w)
        PROVE  FreshWipe'
    <2>1. dead' = dead /\ thread \in [Workers -> Thread]
      BY <1>3 DEF Exchange, google, IInv, TypeOK
    <2>2. /\ thread'[w].pc = "call"
          /\ \A v \in Workers \ {w} : /\ thread'[v].pc = thread[v].pc
                                       /\ thread'[v].grant = thread[v].grant
                                       /\ thread'[v].fresh = thread[v].fresh
      BY <1>3, <2>1 DEF Exchange, Thread
    <2> QED BY <2>1, <2>2 DEF FreshWipe
  <1>4. ASSUME NEW w \in Workers, Step(w), ~CallRejected(w), ~Exchange(w)
        PROVE  FreshWipe'
    <2>1. dead \subseteq dead'
      BY <1>4 DEF Step, Save, Reencrypt, Resolve, ExchangeFails, Wait, Release, WaitTimeout,
                  CallEnds, Wipe, Revoke, Delete, CommitFails, google
    <2>2. \/ Goes(w, Idle)
          \/ \E pc \in {"resolve", "exchange", "wait", "release", "call", "delete"} :
               Goes(w, [thread[w] EXCEPT !.pc = pc])
      BY <1>4 DEF Step, Save, Reencrypt, Resolve, ExchangeFails, Wait, Release, WaitTimeout,
                  CallEnds, Wipe, Revoke, Delete, CommitFails
    <2>3. thread[w] \in Thread
      BY DEF IInv, TypeOK
    <2>4. Idle.pc # "wipe" /\ \A pc \in {"resolve", "exchange", "wait", "release", "call", "delete"} :
                               [thread[w] EXCEPT !.pc = pc].pc # "wipe"
      BY <2>3, IdleThread DEF Thread
    <2> QED BY <2>1, <2>2, <2>4, NoNewWipe
  <1>5. ASSUME NEW g \in Grants, GoogleRevokes(g) \/ TokenAges(g)
        PROVE  FreshWipe'
    BY <1>5 DEF GoogleRevokes, TokenAges, FreshWipe
  <1>6. CASE Restart
    BY <1>6, IdleThread DEF Restart, FreshWipe
  <1>7. CASE UNCHANGED vars
    BY <1>7 DEF vars, FreshWipe
  <1> QED BY <1>1, <1>2, <1>3, <1>4, <1>5, <1>6, <1>7 DEF Next

\* The credential disappears from an account that stays in one action only.
LEMMA OnlyWipes ==
  ASSUME IInv, [Next]_vars, Wiped
  PROVE  \E w \in Workers : Wipe(w)
  <1>1. ASSUME NEW w \in Workers, SignIn(w) \/ Restore(w) \/ DeleteAccount(w)
        PROVE  FALSE
    BY <1>1 DEF SignIn, Restore, DeleteAccount, record, Wiped
  <1>2. ASSUME NEW w \in Workers, Save(w) \/ Reencrypt(w)
        PROVE  FALSE
    BY <1>2 DEF Save, Reencrypt, At, record, Wiped, IInv, Carries
  <1>3. ASSUME NEW w \in Workers, Step(w), ~Save(w), ~Reencrypt(w), ~Wipe(w)
        PROVE  FALSE
    BY <1>3 DEF Step, Resolve, Exchange, ExchangeFails, Wait, Release, WaitTimeout, CallRejected,
                CallEnds, Revoke, Delete, CommitFails, record, Wiped
  <1>4. ASSUME NEW g \in Grants, GoogleRevokes(g) \/ TokenAges(g)
        PROVE  FALSE
    BY <1>4 DEF GoogleRevokes, TokenAges, record, Wiped
  <1>5. ~Restart /\ ~UNCHANGED vars
    BY DEF Restart, record, vars, Wiped
  <1> QED BY <1>1, <1>2, <1>3, <1>4, <1>5 DEF Next

\* A credential that works is lost only to a restore that loaded an earlier one, or
\* that went on without having refreshed its own (mark_needs_reconnect).
THEOREM Sparing == Spec => WipesOnlyRejected
  <1> DEFINE A == Wiped /\ Usable(cred) =>
                    \E w \in Workers : /\ At(w, "wipe") /\ thread'[w].pc = "idle"
                                       /\ thread[w].grant # cred \/ ~thread[w].fresh
  <1>1. Init => FreshWipe
    BY IdleThread DEF Init, FreshWipe
  <1>2. IInv /\ FreshWipe /\ [Next]_vars => A
    <2> SUFFICES ASSUME IInv, FreshWipe, [Next]_vars, Wiped, Usable(cred)
                 PROVE  \E w \in Workers : /\ At(w, "wipe") /\ thread'[w].pc = "idle"
                                           /\ thread[w].grant # cred \/ ~thread[w].fresh
      OBVIOUS
    <2>1. PICK w \in Workers : Wipe(w)
      BY OnlyWipes
    <2>2. At(w, "wipe") /\ thread'[w].pc = "idle"
      BY <2>1, IdleThread DEF Wipe, Goes, IInv, TypeOK
    <2>3. thread[w].grant # cred \/ ~thread[w].fresh
      BY <2>2 DEF FreshWipe, Usable, At
    <2> QED BY <2>2, <2>3
  <1>3. IInv /\ FreshWipe /\ [Next]_vars => [A]_vars
    BY <1>2
  <1> QED BY Invariance, <1>1, <1>3, FreshWipeStep, PTL DEF Spec, WipesOnlyRejected

-----------------------------------------------------------------------------
(* What a deletion may leave behind.                                         *)

\* Without a failed call, what a deletion carries has been revoked or was too old for it.
Revoked ==
  \A w \in Workers : thread[w].pc = "delete" /\ thread[w].grant # 0 /\ faults = 0
                       => thread[w].grant \in dead \cup aged

Onwards == dead \subseteq dead' /\ aged \subseteq aged' /\ (faults' = 0 => faults = 0)

\* A step of thread w to a record that is not about to delete.
LEMMA NoNewDelete ==
  ASSUME IInv, Revoked, NEW w \in Workers, NEW r, Goes(w, r), r.pc # "delete", Onwards
  PROVE  Revoked'
  <1>1. thread'[w] = r /\ \A v \in Workers \ {w} : thread'[v] = thread[v]
    BY DEF IInv, TypeOK, Goes
  <1> QED BY <1>1 DEF Revoked, Onwards

LEMMA FaultsGrow ==
  ASSUME IInv, Fault \/ UNCHANGED faults
  PROVE  faults' = 0 => faults = 0
  <1>1. faults \in Nat
    BY DEF IInv, TypeOK
  <1> QED BY <1>1 DEF Fault

LEMMA RevokedStep == IInv /\ Revoked /\ [Next]_vars => Revoked'
  <1> SUFFICES ASSUME IInv, Revoked, [Next]_vars PROVE Revoked'
    OBVIOUS
  <1>1. ASSUME NEW w \in Workers, SignIn(w) \/ Restore(w)
        PROVE  Revoked'
    <2>1. Onwards
      BY <1>1 DEF SignIn, Restore, google, Onwards
    <2>2. PICK r : Goes(w, r) /\ r.pc # "delete"
      <3>1. CASE SignIn(w)
        <4>1. Goes(w, [Idle EXCEPT !.pc = "save", !.grant = granted + 1, !.flag = reconnect])
          BY <3>1 DEF SignIn, Accept
        <4>2. [Idle EXCEPT !.pc = "save", !.grant = granted + 1, !.flag = reconnect].pc # "delete"
          BY DEF Idle
        <4> QED BY <4>1, <4>2
      <3>2. CASE Restore(w)
        <4>1. PICK pc \in {"reencrypt", "resolve"} :
                Goes(w, [Idle EXCEPT !.pc = pc, !.grant = cred])
          BY <3>2 DEF Restore, Accept
        <4>2. [Idle EXCEPT !.pc = pc, !.grant = cred].pc # "delete"
          BY DEF Idle
        <4> QED BY <4>1, <4>2
      <3> QED BY <1>1, <3>1, <3>2
    <2> QED BY <2>1, <2>2, NoNewDelete
  <1>2. ASSUME NEW w \in Workers, DeleteAccount(w)
        PROVE  Revoked'
    <2>1. Onwards
      BY <1>2 DEF DeleteAccount, google, Onwards
    <2>2. PICK pc \in {"revoke", "delete"} :
            /\ Goes(w, [Idle EXCEPT !.pc = pc, !.grant = cred])
            /\ pc = "delete" => cred = 0
      BY <1>2 DEF DeleteAccount, Accept
    <2>3. /\ [Idle EXCEPT !.pc = pc, !.grant = cred].pc = pc
          /\ [Idle EXCEPT !.pc = pc, !.grant = cred].grant = cred
      BY DEF Idle
    <2>4. /\ thread'[w].pc = pc /\ thread'[w].grant = cred
          /\ \A v \in Workers \ {w} : thread'[v] = thread[v]
      BY <2>2, <2>3 DEF Goes, IInv, TypeOK
    <2> QED BY <2>1, <2>2, <2>4 DEF Revoked, Onwards
  <1>3. ASSUME NEW w \in Workers, Revoke(w)
        PROVE  Revoked'
    <2>1. /\ thread[w] \in Thread /\ thread'[w] = [thread[w] EXCEPT !.pc = "delete"]
          /\ \A v \in Workers \ {w} : thread'[v] = thread[v]
      BY <1>3 DEF Revoke, Goes, IInv, TypeOK
    <2>2. thread'[w].grant = thread[w].grant
      BY <2>1 DEF Thread
    <2>3. Onwards
      <3>1. aged' = aged /\ dead \subseteq dead' /\ (Fault \/ UNCHANGED faults)
        BY <1>3 DEF Revoke
      <3> QED BY <3>1, FaultsGrow DEF Onwards
    <2>4. thread[w].grant \in dead' \cup aged' \/ faults' # 0
      <3>1. Fault => faults' # 0
        BY DEF Fault, IInv, TypeOK
      <3> QED BY <1>3, <3>1 DEF Revoke
    <2> QED BY <2>1, <2>2, <2>3, <2>4 DEF Revoked, Onwards
  <1>4. ASSUME NEW w \in Workers, Exchange(w)
        PROVE  Revoked'
    <2>1. UNCHANGED <<dead, aged, faults>> /\ thread \in [Workers -> Thread]
      BY <1>4 DEF Exchange, google, IInv, TypeOK
    <2>2. /\ thread'[w].pc = "call"
          /\ \A v \in Workers \ {w} : /\ thread'[v].pc = thread[v].pc
                                       /\ thread'[v].grant = thread[v].grant
      BY <1>4, <2>1 DEF Exchange, Thread
    <2> QED BY <2>1, <2>2 DEF Revoked
  <1>5. ASSUME NEW w \in Workers, Step(w), ~Revoke(w), ~Exchange(w)
        PROVE  Revoked'
    <2>1. UNCHANGED <<dead, aged>> /\ (Fault \/ UNCHANGED faults)
      BY <1>5 DEF Step, Save, Reencrypt, Resolve, ExchangeFails, Wait, Release, WaitTimeout,
                  CallRejected, CallEnds, Wipe, Delete, CommitFails, google
    <2>2. \/ Goes(w, Idle)
          \/ \E pc \in {"resolve", "exchange", "wait", "release", "call", "wipe"} :
               Goes(w, [thread[w] EXCEPT !.pc = pc])
      BY <1>5 DEF Step, Save, Reencrypt, Resolve, ExchangeFails, Wait, Release, WaitTimeout,
                  CallRejected, Rejected, CallEnds, Wipe, Delete, CommitFails
    <2>3. thread[w] \in Thread
      BY DEF IInv, TypeOK
    <2>4. Idle.pc # "delete" /\ \A pc \in {"resolve", "exchange", "wait", "release", "call", "wipe"} :
                                 [thread[w] EXCEPT !.pc = pc].pc # "delete"
      BY <2>3, IdleThread DEF Thread
    <2>5. Onwards
      BY <2>1, FaultsGrow DEF Onwards
    <2> QED BY <2>2, <2>4, <2>5, NoNewDelete
  <1>6. ASSUME NEW g \in Grants, GoogleRevokes(g) \/ TokenAges(g)
        PROVE  Revoked'
    BY <1>6 DEF GoogleRevokes, TokenAges, Revoked
  <1>7. CASE Restart
    BY <1>7, IdleThread DEF Restart, Revoked
  <1>8. CASE UNCHANGED vars
    BY <1>8 DEF vars, Revoked
  <1> QED BY <1>1, <1>2, <1>3, <1>4, <1>5, <1>6, <1>7, <1>8 DEF Next

\* The row goes in one action only.
LEMMA OnlyDeletes ==
  ASSUME IInv, [Next]_vars, present, ~present'
  PROVE  \E w \in Workers : Delete(w)
  <1>1. ASSUME NEW w \in Workers, SignIn(w) \/ Restore(w) \/ DeleteAccount(w)
        PROVE  FALSE
    BY <1>1 DEF SignIn, Restore, DeleteAccount, record
  <1>2. ASSUME NEW w \in Workers, Step(w), ~Delete(w)
        PROVE  FALSE
    BY <1>2 DEF Step, Save, Reencrypt, Resolve, Exchange, ExchangeFails, Wait, Release,
                WaitTimeout, CallRejected, CallEnds, Wipe, Revoke, CommitFails, record
  <1>3. ASSUME NEW g \in Grants, GoogleRevokes(g) \/ TokenAges(g)
        PROVE  FALSE
    BY <1>3 DEF GoogleRevokes, TokenAges, record
  <1>4. ~Restart /\ ~UNCHANGED vars
    BY DEF Restart, record, vars
  <1> QED BY <1>1, <1>2, <1>3, <1>4 DEF Next

\* A deletion leaves a working grant at Google only if that grant is newer than the record
\* it loaded, past the end of its access token, or a call failed (delete_account).
THEOREM Revoking == Spec => DeletedIsRevoked
  <1> DEFINE A == present /\ ~present' /\ cred # 0 /\ Usable(cred) =>
                    \E w \in Workers : /\ At(w, "delete") /\ thread'[w].pc = "idle"
                                       /\ \/ thread[w].grant # cred
                                          \/ cred \in aged
                                          \/ faults > 0
  <1>1. Init => Revoked
    BY IdleThread DEF Init, Revoked
  <1>2. IInv /\ Revoked /\ [Next]_vars => A
    <2> SUFFICES ASSUME IInv, Revoked, [Next]_vars, present, ~present', cred # 0, Usable(cred)
                 PROVE  \E w \in Workers : /\ At(w, "delete") /\ thread'[w].pc = "idle"
                                           /\ \/ thread[w].grant # cred
                                              \/ cred \in aged
                                              \/ faults > 0
      OBVIOUS
    <2>1. PICK w \in Workers : Delete(w)
      BY OnlyDeletes
    <2>2. At(w, "delete") /\ thread'[w].pc = "idle"
      BY <2>1, IdleThread DEF Delete, Goes, IInv, TypeOK
    <2>3. thread[w].grant = cred /\ faults = 0 => cred \in aged
      BY <2>2 DEF Revoked, Usable, At
    <2>4. faults \in Nat
      BY DEF IInv, TypeOK
    <2> QED BY <2>2, <2>3, <2>4
  <1>3. IInv /\ Revoked /\ [Next]_vars => [A]_vars
    BY <1>2
  <1> QED BY Invariance, <1>1, <1>3, RevokedStep, PTL DEF Spec, DeletedIsRevoked

=============================================================================
