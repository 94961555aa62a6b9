---------------------------- MODULE Credentials ----------------------------
(***************************************************************************)
(* The Google credential of one account (auth.py, main.py): stored at      *)
(* sign-in, loaded by restores, re-encrypted if its record is old,         *)
(* refreshed under a lock of the process when its access token has         *)
(* expired, wiped when Google refuses it, and revoked with the account.    *)
(*                                                                         *)
(* A grant is what Google gave out at one sign-in: an access token that    *)
(* ages and perhaps a refresh token.  Threads load the record once, when   *)
(* they authenticate, and act on it later; every read, commit, lock        *)
(* operation and answer of Google is a step.                               *)
(*                                                                         *)
(* What is abstracted: a restore makes many calls with the token it        *)
(* resolved; one stands for all, as time may pass before it.               *)
(***************************************************************************)
EXTENDS Integers

CONSTANTS
  Workers,    \* threads that serve requests
  Nobody,     \* the lock is free
  MaxGrants,  \* bound: grants; grant 1 is in the database to begin with
  Renewable,  \* grants stored with a refresh token and an expiry date
  MaxRequests,\* bound: requests accepted
  MaxFaults   \* bound: failed commits and exchanges, restarts

ASSUME CredentialsAssumption ==
  /\ Nobody \notin Workers
  /\ MaxGrants \in Nat \ {0} /\ Renewable \subseteq 1 .. MaxGrants
  /\ MaxRequests \in Nat /\ MaxFaults \in Nat

VARIABLES
  present,    \* the users row exists
  cred,       \* the grant in encrypted_token_json, 0 for ""
  old,        \* the record is not in the current envelope format
  reconnect,  \* needs_reconnect
  granted,    \* grants given out: 1 .. granted
  dead,       \* grants Google no longer honours
  aged,       \* grants whose access token is within 120 s of its end, or past it
  lock,       \* the thread that holds the account's refresh lock
  thread,     \* thread[w]: what thread w is doing
  requests, faults

vars   == <<present, cred, old, reconnect, granted, dead, aged, lock, thread, requests, faults>>
record == <<present, cred, old, reconnect>>
google == <<granted, dead, aged>>

Grants == 1 .. MaxGrants

(* A request.  pc is the next thing it does:                                 *)
(*   save        UPDATE of the row at sign-in                                 *)
(*   reencrypt   commit of an old record in the current format                *)
(*   resolve     _token_expired, and the attempt to take the lock             *)
(*   exchange    answer of Google's token endpoint, lock held                 *)
(*   wait, release   wait for the lock for 10 s; give it back at once         *)
(*   call        the YouTube calls                                            *)
(*   wipe        mark_needs_reconnect                                         *)
(*   revoke, delete  revocation at Google, commit of delete_account           *)
PCs == {"idle", "save", "reencrypt", "resolve", "exchange", "wait", "release", "call", "wipe",
        "revoke", "delete"}

Thread == [pc : PCs, grant : 0 .. MaxGrants,
           fresh  : BOOLEAN,   \* the access token in hand was refreshed
           flag   : BOOLEAN,   \* needs_reconnect as loaded
           served : BOOLEAN]   \* history: another thread refreshed the grant meanwhile
Idle == [pc |-> "idle", grant |-> 0, fresh |-> FALSE, flag |-> FALSE, served |-> FALSE]

Init ==
  /\ present = TRUE /\ cred = 1 /\ old \in BOOLEAN /\ reconnect = FALSE
  /\ granted = 1 /\ dead = {} /\ aged = {}
  /\ lock = Nobody
  /\ thread = [w \in Workers |-> Idle]
  /\ requests = 0 /\ faults = 0

Goes(w, r) == thread' = [thread EXCEPT ![w] = r]
At(w, pc)  == thread[w].pc = pc
Fault      == faults < MaxFaults /\ faults' = faults + 1

\* An idle thread takes request r.
Accept(w, r) ==
  /\ At(w, "idle") /\ present
  /\ requests < MaxRequests
  /\ requests' = requests + 1
  /\ Goes(w, r)

-----------------------------------------------------------------------------
(* Sign-in (register_user).                                                  *)

SignIn(w) ==
  /\ granted < MaxGrants
  /\ granted' = granted + 1
  /\ Accept(w, [Idle EXCEPT !.pc = "save", !.grant = granted + 1, !.flag = reconnect])
  /\ UNCHANGED <<record, dead, aged, lock, faults>>

\* The ORM writes needs_reconnect only if the value it loaded is another.
Save(w) ==
  LET r == thread[w] IN
  /\ At(w, "save")
  /\ IF present
       THEN /\ cred' = r.grant /\ old' = FALSE
            /\ reconnect' = (reconnect /\ ~r.flag)
       ELSE UNCHANGED <<cred, old, reconnect>>
  /\ Goes(w, Idle)
  /\ UNCHANGED <<present, google, lock, requests, faults>>

-----------------------------------------------------------------------------
(* A restore.                                                                *)

\* The record is read with the user; without one the answer is 400.
Restore(w) ==
  /\ cred # 0
  /\ Accept(w, [Idle EXCEPT !.pc = IF old THEN "reencrypt" ELSE "resolve", !.grant = cred])
  /\ UNCHANGED <<record, google, lock, faults>>

\* What was loaded is written back, whatever is in the row by now.
Reencrypt(w) ==
  LET r == thread[w] IN
  /\ At(w, "reencrypt")
  /\ IF present
       THEN cred' = r.grant /\ old' = FALSE /\ Goes(w, [r EXCEPT !.pc = "resolve"])
       ELSE UNCHANGED <<cred, old>> /\ Goes(w, Idle)
  /\ UNCHANGED <<present, reconnect, google, lock, requests, faults>>

\* _token_expired, as far as the record says when it ends.
Expired(g) == g \in aged \cap Renewable

\* The first thread exchanges the refresh token, the others wait for it.
Resolve(w) ==
  LET r == thread[w]
      free == lock = Nobody
  IN
  /\ At(w, "resolve")
  /\ lock' = IF Expired(r.grant) /\ free THEN w ELSE lock
  /\ Goes(w, [r EXCEPT !.pc = IF ~Expired(r.grant) THEN "call"
                              ELSE IF free THEN "exchange" ELSE "wait"])
  /\ UNCHANGED <<record, google, requests, faults>>

\* The refreshed token serves this restore; it is not stored.
Exchange(w) ==
  LET r == thread[w]
      waits(v) == thread[v].pc \in {"resolve", "wait"} /\ thread[v].grant = r.grant
  IN
  /\ At(w, "exchange")
  /\ r.grant \notin dead
  /\ lock' = Nobody
  /\ thread' = [v \in Workers |->
                  IF v = w THEN [r EXCEPT !.pc = "call", !.fresh = TRUE]
                  ELSE [thread[v] EXCEPT !.served = @ \/ waits(v)]]
  /\ UNCHANGED <<record, google, requests, faults>>

\* invalid_grant, or no answer: on with the token as it is.
ExchangeFails(w) ==
  LET r == thread[w] IN
  /\ At(w, "exchange")
  /\ \/ r.grant \in dead /\ UNCHANGED faults
     \/ Fault
  /\ lock' = Nobody
  /\ Goes(w, [r EXCEPT !.pc = "call"])
  /\ UNCHANGED <<record, google, requests>>

\* lock.acquire(timeout=10), in time.
Wait(w) ==
  /\ At(w, "wait")
  /\ lock = Nobody
  /\ lock' = w
  /\ Goes(w, [thread[w] EXCEPT !.pc = "release"])
  /\ UNCHANGED <<record, google, requests, faults>>

\* The caller "should re-read the stored token"; it goes on with the one it has.
Release(w) ==
  /\ At(w, "release")
  /\ lock' = Nobody
  /\ Goes(w, [thread[w] EXCEPT !.pc = "call"])
  /\ UNCHANGED <<record, google, requests, faults>>

\* Mutant: the lock is released on the way out whether or not it was taken.
WaitTimeoutReleases(w) ==
  /\ At(w, "wait")
  /\ lock' = Nobody
  /\ Goes(w, [thread[w] EXCEPT !.pc = "call"])
  /\ UNCHANGED <<record, google, requests, faults>>

WaitTimeout(w) ==
  /\ At(w, "wait")
  /\ lock # Nobody
  /\ Goes(w, [thread[w] EXCEPT !.pc = "call"])
  /\ UNCHANGED <<record, google, lock, requests, faults>>

\* Mutant: a refused token is refreshed and tried again.
RejectedRefreshes(r) == [r EXCEPT !.pc = IF r.grant \in Renewable THEN "resolve" ELSE "wipe"]

\* GoogleAuthError, which nothing between the call and the route handles.
Rejected(r) == [r EXCEPT !.pc = "wipe"]

\* Google answers 401 to a token of a dead grant and to one past its end.
Refused(r) == r.grant \in dead \/ (r.grant \in aged /\ ~r.fresh)

CallRejected(w) ==
  /\ At(w, "call")
  /\ Refused(thread[w])
  /\ Goes(w, Rejected(thread[w]))
  /\ UNCHANGED <<record, google, lock, requests, faults>>

\* Mutant: any failure counts as a dead credential.
CallEndsWiping(w) ==
  /\ At(w, "call")
  /\ \E r \in {Idle, [thread[w] EXCEPT !.pc = "wipe"]} : Goes(w, r)
  /\ UNCHANGED <<record, google, lock, requests, faults>>

\* The restore succeeds (an aged token may have two minutes left), or fails otherwise.
CallEnds(w) ==
  /\ At(w, "call")
  /\ Goes(w, Idle)
  /\ UNCHANGED <<record, google, lock, requests, faults>>

\* Mutant: the flag is left to the next sign-in.
WipeUnflagged(w) ==
  /\ At(w, "wipe")
  /\ cred' = 0 /\ old' = FALSE
  /\ Goes(w, Idle)
  /\ UNCHANGED <<present, reconnect, google, lock, requests, faults>>

\* Mutant: the column is set to NULL.
WipeNull(w) ==
  /\ At(w, "wipe")
  /\ cred' = Nobody /\ old' = FALSE /\ reconnect' = TRUE
  /\ Goes(w, Idle)
  /\ UNCHANGED <<present, google, lock, requests, faults>>

\* mark_needs_reconnect: the row is blanked, whatever is in it by now.
Wipe(w) ==
  /\ At(w, "wipe")
  /\ IF present THEN cred' = 0 /\ old' = FALSE /\ reconnect' = TRUE
                ELSE UNCHANGED <<cred, old, reconnect>>
  /\ Goes(w, Idle)
  /\ UNCHANGED <<present, google, lock, requests, faults>>

-----------------------------------------------------------------------------
(* Deleting the account (delete_account; its commits are in module Accounts). *)

\* Mutant: the account is deleted first, and then there is no token left to revoke.
DeleteAccountFirst(w) ==
  /\ Accept(w, [Idle EXCEPT !.pc = "delete", !.grant = cred])
  /\ UNCHANGED <<record, google, lock, faults>>

\* delete_account up to the revocation: the token is taken from the row as loaded.
DeleteAccount(w) ==
  /\ Accept(w, [Idle EXCEPT !.pc = IF cred # 0 THEN "revoke" ELSE "delete", !.grant = cred])
  /\ UNCHANGED <<record, google, lock, faults>>

\* revoke_google_token: Google does not know a token past its end, and the answer is
\* only logged.
Revoke(w) ==
  LET r == thread[w] IN
  /\ At(w, "revoke")
  /\ \/ dead' = dead \cup {r.grant} /\ UNCHANGED faults
     \/ r.grant \in aged /\ UNCHANGED <<dead, faults>>
     \/ Fault /\ UNCHANGED dead
  /\ Goes(w, [r EXCEPT !.pc = "delete"])
  /\ UNCHANGED <<record, granted, aged, lock, requests>>

Delete(w) ==
  /\ At(w, "delete")
  /\ present' = FALSE /\ cred' = 0 /\ old' = FALSE /\ reconnect' = FALSE
  /\ Goes(w, Idle)
  /\ UNCHANGED <<google, lock, requests, faults>>

\* A commit fails: sign-in, re-encryption and deletion are errors 500, a wipe is only
\* logged.
CommitFails(w) ==
  /\ thread[w].pc \in {"save", "reencrypt", "wipe", "delete"}
  /\ Fault
  /\ Goes(w, Idle)
  /\ UNCHANGED <<record, google, lock, requests>>

Step(w) ==
  \/ Save(w) \/ Reencrypt(w) \/ Resolve(w)
  \/ Exchange(w) \/ ExchangeFails(w) \/ Wait(w) \/ Release(w) \/ WaitTimeout(w)
  \/ CallRejected(w) \/ CallEnds(w) \/ Wipe(w)
  \/ Revoke(w) \/ Delete(w) \/ CommitFails(w)

-----------------------------------------------------------------------------
(* The rest of the world.                                                    *)

\* The user revokes the access at Google; an hour passes.
GoogleRevokes(g) ==
  /\ g <= granted /\ g \notin dead
  /\ dead' = dead \cup {g}
  /\ UNCHANGED <<record, granted, aged, lock, thread, requests, faults>>

TokenAges(g) ==
  /\ g <= granted /\ g \notin aged
  /\ aged' = aged \cup {g}
  /\ UNCHANGED <<record, granted, dead, lock, thread, requests, faults>>

\* The process is restarted: threads and locks are gone, the row is not.
Restart ==
  /\ \E w \in Workers : ~At(w, "idle")
  /\ Fault
  /\ thread' = [w \in Workers |-> Idle]
  /\ lock' = Nobody
  /\ UNCHANGED <<record, google, requests>>

Next ==
  \/ \E w \in Workers : SignIn(w) \/ Restore(w) \/ DeleteAccount(w) \/ Step(w)
  \/ \E g \in Grants : GoogleRevokes(g) \/ TokenAges(g)
  \/ Restart

Spec == Init /\ [][Next]_vars

\* Every call has a timeout, the wait for the lock included: a thread keeps going.
FairSpec == Spec /\ \A w \in Workers : WF_vars(Step(w))

-----------------------------------------------------------------------------
(* Type invariant: the columns, Google's side and the locals of a request.     *)
TypeOK ==
  /\ present \in BOOLEAN /\ cred \in 0 .. MaxGrants
  /\ old \in BOOLEAN /\ reconnect \in BOOLEAN
  /\ granted \in Grants /\ dead \subseteq 1 .. granted /\ aged \subseteq 1 .. granted
  /\ lock \in Workers \cup {Nobody}
  /\ thread \in [Workers -> Thread]
  /\ requests \in 0 .. MaxRequests /\ faults \in 0 .. MaxFaults

\* At most one thread talks to the token endpoint for the account, and the lock is
\* held by a thread that is about to release it: timeouts, failed exchanges and
\* restarts leave no lock behind ("invalid_grant errors ... invalidate the shared
\* refresh token", refresh_access_token).
RefreshExclusive ==
  \A w \in Workers : lock = w <=> thread[w].pc \in {"exchange", "release"}

\* A grant that still works, if need be after a refresh.
Usable(g) == g \notin dead /\ (g \in aged => g \in Renewable)

Wiped == cred # 0 /\ cred' = 0 /\ present'

\* A credential that works is lost only to a restore that loaded an earlier one, or
\* that went on without having refreshed its own (mark_needs_reconnect, the handler
\* of GoogleAuthError).
WipesOnlyRejected ==
  [][Wiped /\ Usable(cred) =>
       \E w \in Workers : /\ At(w, "wipe") /\ thread'[w].pc = "idle"
                          /\ thread[w].grant # cred \/ ~thread[w].fresh]_vars

\* An account that has signed in and has no credential is flagged for a new sign-in,
\* whichever of sign-in, wipe and re-encryption came last (User.needs_reconnect).
MissingIsFlagged == present /\ cred = 0 => reconnect

\* A grant that still works when the account goes escaped its revocation: it was stored
\* after the deletion had loaded the record, its access token was past its end, or the
\* call failed (delete_account: the token is revoked first, and the answer is ignored).
DeletedIsRevoked ==
  [][present /\ ~present' /\ cred # 0 /\ Usable(cred) =>
       \E w \in Workers : /\ At(w, "delete") /\ thread'[w].pc = "idle"
                          /\ \/ thread[w].grant # cred
                             \/ cred \in aged
                             \/ faults > 0]_vars

\* Every request ends: waiting for another's refresh cannot go on for ever.
RequestsEnd == \A w \in Workers : thread[w].pc # "idle" ~> thread[w].pc = "idle"

-----------------------------------------------------------------------------
(* What a comment says and the code does not do.                               *)

\* auth.py:341 "Someone else is already refreshing for this user. Wait for them rather
\* than starting a competing exchange" (:345 "caller should re-read the stored token"):
\* who waited for a refresh that succeeded is not taken for a dead credential.
WaitersAreServed ==
  \A w \in Workers : At(w, "wipe") /\ thread[w].served => thread[w].grant \in dead

=============================================================================
