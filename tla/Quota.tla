------------------------------- MODULE Quota -------------------------------
(***************************************************************************)
(* The quota ledger (quota.py) and the way a restore spends from it        *)
(* (ytm_service.py).                                                       *)
(*                                                                         *)
(* FastAPI runs each restore in a thread of its own, with a database       *)
(* session of its own.  A thread consults the ledger in two separate       *)
(* reads, adds each attempt to it in one atomic upsert, sends the attempt  *)
(* and waits for the answer: every one of these is a step, and the steps   *)
(* of the threads interleave with each other, with the Pacific midnight,   *)
(* with the deletion of the account and with the death of a thread.        *)
(*                                                                         *)
(* What is abstracted: which branch the playlist cache takes (hit, expired *)
(* or missing) and how many tracks are pending are choices here; module    *)
(* Restore models them.                                                    *)
(***************************************************************************)
EXTENDS Integers, FiniteSets, Tally

CONSTANTS
  Users,        \* account ids
  Workers,      \* threads that serve restores
  NoUser,       \* no account
  MaxDay,       \* bound: Pacific days 0 .. MaxDay
  MaxRequests,  \* bound: restores accepted in a behaviour
  MaxFaults,    \* bound: failed commits and killed threads in a behaviour
  MaxTracks,    \* bound: pending tracks of one pass
  MaxPages,     \* PLAYLIST_SYNC_MAX_PAGES
  GlobalCap,    \* QUOTA_GLOBAL_CAP
  UserCap,      \* QUOTA_PER_USER_CAP
  CreateCap,    \* MAX_PLAYLIST_CREATES_PER_USER_PER_DAY
  InsertCost,   \* units of playlists.insert and playlistItems.insert
  ListCost,     \* units of the three list methods
  MaxRetries,   \* YTM_MAX_RETRIES
  Validate,     \* FLAG_VALIDATE_VIDEO_IDS
  PerCall       \* ids that one call of videos.list takes, 50 in the code

ASSUME BoundsAssumption ==
  /\ MaxDay \in Nat /\ MaxRequests \in Nat /\ MaxFaults \in Nat
  /\ MaxTracks \in Nat /\ MaxPages \in Nat

ASSUME ActorsAssumption ==
  /\ NoUser \notin Users
  /\ IsFiniteSet(Users) /\ IsFiniteSet(Workers) /\ Workers # {}

ASSUME CapsAssumption ==
  /\ GlobalCap \in Nat /\ UserCap \in Nat
  /\ CreateCap \in Nat
  /\ InsertCost \in Nat /\ ListCost \in Nat /\ ListCost <= InsertCost
  /\ MaxRetries \in Nat
  /\ Validate \in BOOLEAN
  /\ PerCall \in Nat \ {0}

VARIABLES
  today,     \* the Pacific day, quota_day_str()
  ledger,    \* ledger[d][u]: units_used of the row of quota_usage
  created,   \* created[d][u]: playlists_created of the same row
  account,   \* the users row: "active", "purged" (usage rows deleted), "gone"
  req,       \* req[w]: what thread w is doing
  requests,  \* restores accepted so far
  faults,    \* failed commits and killed threads so far
  sent,      \* history: sent[d][u] units of the calls sent, by day reserved
  lost,      \* history: units whose reservation failed to commit, or whose row was deleted
  offbook    \* history: units reserved with no check of that day's ledger

vars == <<today, ledger, created, account, req, requests, faults, sent, lost, offbook>>

Days == 0 .. MaxDay
Inserts == {"playlists.insert", "playlistItems.insert"}
Lists   == {"playlists.list", "playlistItems.list", "videos.list"}
Methods == Inserts \cup Lists

\* Units of one attempt: config.ytm_unit_cost.
Cost(m) == IF m \in Inserts THEN InsertCost ELSE ListCost

\* Attempts allowed to one call: every caller passes max_retries=1 except
\* _create_playlist, which leaves the configured default.
Attempts(m) == 1 + IF m = "playlists.insert" THEN MaxRetries ELSE 1

\* Calls of videos.list that n ids take, rounded up.
Batches(n) == (n + PerCall - 1) \div PerCall

MAX_PLAYLIST_RESOLUTION_ATTEMPTS == 2

-----------------------------------------------------------------------------
(* The thread of a restore.  pc is the next thing it does:                   *)
(*   resolve   look the cached playlist up (_resolve_playlist)               *)
(*   global    first read of ensure_budget, the day's total                  *)
(*   user      second read of ensure_budget, the user's row                  *)
(*   creates   ensure_can_create_playlist                                    *)
(*   reserve   charge the next attempt and send it                           *)
(*   sent      wait for Google's answer                                      *)
(*   record    record_playlist_created                                       *)
PCs == {"idle", "resolve", "global", "user", "creates", "reserve", "sent", "record"}

Request == [pc      : PCs,
            user    : Users \cup {NoUser},
            pass    : 0 .. MAX_PLAYLIST_RESOLUTION_ATTEMPTS,
            passDay : Days,            \* date_str of _restore_pass's tracker
            day     : Days,            \* date_str of the tracker that was consulted
            rday    : Days,            \* day the attempt in flight was charged to
            call    : Methods \cup {"none"},
            left    : Nat,             \* attempts the current call still has
            pages   : Nat,             \* pages of the mirror sync so far
            batches : Nat,             \* calls of videos.list to follow the current one
            todo    : Nat]             \* tracks still to insert

Idle == [pc |-> "idle", user |-> NoUser, pass |-> 0, passDay |-> 0, day |-> 0,
         rday |-> 0, call |-> "none", left |-> 0, pages |-> 0, batches |-> 0, todo |-> 0]

\* global_usage: the sum of the day's rows.
Usage(d) == Total(ledger[d], Users)

Init ==
  /\ today = 0
  /\ ledger  = [d \in Days |-> [u \in Users |-> 0]]
  /\ created = [d \in Days |-> [u \in Users |-> 0]]
  /\ account = [u \in Users |-> "active"]
  /\ req = [w \in Workers |-> Idle]
  /\ requests = 0
  /\ faults = 0
  /\ sent    = [d \in Days |-> [u \in Users |-> 0]]
  /\ lost    = [d \in Days |-> [u \in Users |-> 0]]
  /\ offbook = [d \in Days |-> [u \in Users |-> 0]]

-----------------------------------------------------------------------------
(* Where a restore goes next: records, or sets of records where the branch   *)
(* depends on what is abstracted.                                            *)

\* self.tracker is captured with its day, and ensure_budget is called on it.
OpenGate(r, m, d) == [r EXCEPT !.pc = "global", !.call = m, !.day = d, !.batches = 0]

\* Mutant: attempts are counted from zero.
BeginOneMore(r, m) ==
  [r EXCEPT !.pc = "reserve", !.call = m, !.left = Attempts(m) + 1]

\* The request loop of _request_with_retry is entered.
Begin(r, m) == [r EXCEPT !.pc = "reserve", !.call = m, !.left = Attempts(m)]

\* The insert loop of _restore_pass: each track asks the tracker of the pass.
InsertNext(r, n) ==
  IF n = 0 THEN Idle
           ELSE OpenGate([r EXCEPT !.todo = n], "playlistItems.insert", r.passDay)

\* One check for all the batches of n ids, before the first of them is sent.
OpenValidation(r, n) ==
  [OpenGate([r EXCEPT !.todo = n], "videos.list", r.passDay) EXCEPT !.batches = Batches(n) - 1]

\* pending is computed once; with the flag on, its ids are validated first.
Planned(r) ==
  {IF n > 0 /\ Validate THEN OpenValidation(r, n) ELSE InsertNext(r, n) : n \in 0 .. MaxTracks}

\* A reused playlist: its mirror is rebuilt first if it is empty.
Reused(r) ==
  Planned(r) \cup
    (IF MaxPages > 0 THEN {Begin([r EXCEPT !.pages = 1], "playlistItems.list")} ELSE {})

\* Mutant: the loop over the batches does not advance.
AfterBatchAgain(r) ==
  IF r.batches > 0 THEN {Begin(r, "videos.list")}
                   ELSE {InsertNext(r, n) : n \in 0 .. r.todo}

\* The batches of a validation follow one another unchecked; what the last one leaves
\* of the pending tracks is inserted.
AfterBatch(r) ==
  IF r.batches > 0 THEN {Begin([r EXCEPT !.batches = @ - 1], "videos.list")}
                   ELSE {InsertNext(r, n) : n \in 0 .. r.todo}

\* 200 after verification, creation, a page, a batch or an insert.
AfterOk(r) ==
  CASE r.call = "playlists.list"       -> Reused(r) \cup {OpenGate(r, "playlists.insert", today)}
    [] r.call = "playlists.insert"     -> {[r EXCEPT !.pc = "record"], Idle}
    [] r.call = "playlistItems.list"   ->
         Planned(r) \cup (IF r.pages < MaxPages
                            THEN {Begin([r EXCEPT !.pages = @ + 1], "playlistItems.list")}
                            ELSE {})
    [] r.call = "videos.list"          -> AfterBatch(r)
    [] r.call = "playlistItems.insert" -> {InsertNext(r, r.todo - 1)}

\* Anything that is neither success, 404, a dead credential nor a quota refusal,
\* once the attempts are used up: the caller degrades if it can.  A batch that fails
\* ends the validation, and everything that was pending is inserted.
AfterFailure(r) ==
  CASE r.call = "playlists.list"       -> Reused(r)
    [] r.call = "playlists.insert"     -> {Idle}
    [] r.call = "playlistItems.list"   -> Planned(r)
    [] r.call = "videos.list"          -> {InsertNext(r, r.todo)}
    [] r.call = "playlistItems.insert" -> {InsertNext(r, r.todo - 1)}

\* Mutant: the passes are not counted.
AfterNotFoundAgain(r) ==
  CASE r.call = "playlists.list" -> {OpenGate(r, "playlists.insert", today)}
    [] r.call = "playlistItems.insert" -> {[r EXCEPT !.pc = "resolve", !.passDay = today]}
    [] OTHER -> AfterFailure(r)

\* 404: a cached playlist is gone, or an insert found playlist or video missing,
\* in which case the whole pass is repeated once with a new tracker.
AfterNotFound(r) ==
  CASE r.call = "playlists.list" -> {OpenGate(r, "playlists.insert", today)}
    [] r.call = "playlistItems.insert" ->
         {IF r.pass < MAX_PLAYLIST_RESOLUTION_ATTEMPTS
            THEN [r EXCEPT !.pc = "resolve", !.pass = @ + 1, !.passDay = today]
            ELSE Idle}
    [] OTHER -> AfterFailure(r)

\* 401, 403 quotaExceeded or 429 end the restore; validation alone ignores them.
AfterRejection(r) == IF r.call = "videos.list" THEN AfterFailure(r) ELSE {Idle}

-----------------------------------------------------------------------------
(* Steps of thread w.                                                        *)

StartRestore(w, u) ==
  /\ req[w].pc = "idle"
  /\ account[u] # "gone"
  /\ requests < MaxRequests
  /\ requests' = requests + 1
  /\ req' = [req EXCEPT ![w] = [Idle EXCEPT !.pc = "resolve", !.user = u, !.pass = 1,
                                            !.passDay = today]]
  /\ UNCHANGED <<today, ledger, created, account, faults, sent, lost, offbook>>

\* The cached row is missing, past its TTL, or trusted.
Resolve(w) ==
  /\ req[w].pc = "resolve"
  /\ \E r \in Reused(req[w]) \cup {OpenGate(req[w], "playlists.insert", today),
                                  OpenGate(req[w], "playlists.list", today)} :
        req' = [req EXCEPT ![w] = r]
  /\ UNCHANGED <<today, ledger, created, account, requests, faults, sent, lost, offbook>>

\* Mutant: the insert loop waits for budget instead of breaking.
OverBudgetWaits(r) ==
  IF r.call = "playlistItems.insert" THEN [r EXCEPT !.pc = "global"] ELSE Idle

\* Over budget: validation is skipped, an insert ends the restore with what it
\* has, resolution is refused with 502.
OverBudget(r) == IF r.call = "videos.list" THEN InsertNext(r, r.todo) ELSE Idle

\* Mutant: a validation asks for one call, however many it makes.
AskedOnce(r) == Cost(r.call)

\* The units that ensure_budget is asked for: those of one attempt, and of one for
\* every batch of a validation.
Asked(r) == Cost(r.call) + r.batches * ListCost

\* Mutant: only the user's own row is looked at.
GlobalGateSkipped(w) ==
  /\ req[w].pc = "global"
  /\ req' = [req EXCEPT ![w].pc = "user"]
  /\ UNCHANGED <<today, ledger, created, account, requests, faults, sent, lost, offbook>>

\* ensure_budget, first half.
GlobalGate(w) ==
  LET r == req[w] IN
  /\ r.pc = "global"
  /\ req' = [req EXCEPT ![w] = IF Usage(r.day) + Asked(r) > GlobalCap
                                 THEN OverBudget(r)
                                 ELSE [r EXCEPT !.pc = "user"]]
  /\ UNCHANGED <<today, ledger, created, account, requests, faults, sent, lost, offbook>>

\* ensure_budget, second half; creation is capped as well.
UserGate(w) ==
  LET r == req[w] IN
  /\ r.pc = "user"
  /\ req' = [req EXCEPT ![w] =
       IF ledger[r.day][r.user] + Asked(r) > UserCap THEN OverBudget(r)
       ELSE IF r.call = "playlists.insert" THEN [r EXCEPT !.pc = "creates"]
       ELSE Begin(r, r.call)]
  /\ UNCHANGED <<today, ledger, created, account, requests, faults, sent, lost, offbook>>

\* Mutant: the comparison is off by one.
CreateGateLoose(w) ==
  LET r == req[w] IN
  /\ r.pc = "creates"
  /\ req' = [req EXCEPT ![w] = IF created[r.day][r.user] > CreateCap
                                 THEN Idle ELSE Begin(r, r.call)]
  /\ UNCHANGED <<today, ledger, created, account, requests, faults, sent, lost, offbook>>

\* ensure_can_create_playlist.
CreateGate(w) ==
  LET r == req[w] IN
  /\ r.pc = "creates"
  /\ req' = [req EXCEPT ![w] = IF created[r.day][r.user] >= CreateCap
                                 THEN Idle ELSE Begin(r, r.call)]
  /\ UNCHANGED <<today, ledger, created, account, requests, faults, sent, lost, offbook>>

\* Was this thread let through for the day its attempts are charged to?
Checked(r, d) == r.call # "playlistItems.list" /\ r.day = d

\* The attempt that follows its reservation, recorded or not.
Dispatch(r) == [r EXCEPT !.pc = "sent", !.left = @ - 1, !.rday = today]

\* One of the failures the run allows for.
Fault == faults < MaxFaults /\ faults' = faults + 1

\* Mutant: ON CONFLICT DO NOTHING.
ChargeOnce(r) == IF ledger[today][r.user] = 0 THEN Cost(r.call) ELSE 0

\* ON CONFLICT DO UPDATE SET units_used = units_used + units.
Charge(r) == Cost(r.call)

\* Mutant: foreign keys are not enforced.
RowAccepted(r) == FALSE

\* The foreign key of quota_usage refuses the row of a deleted account.
RowRefused(r) == account[r.user] = "gone"

\* reserve(): upsert and commit.  A refused row raises, and the restore dies of it.
Reserve(w) ==
  LET r == req[w] IN
  /\ r.pc = "reserve"
  /\ IF RowRefused(r)
       THEN /\ req' = [req EXCEPT ![w] = Idle]
            /\ UNCHANGED <<ledger, offbook>>
       ELSE /\ req' = [req EXCEPT ![w] = Dispatch(r)]
            /\ ledger' = [ledger EXCEPT ![today][r.user] = @ + Charge(r)]
            /\ offbook' = [offbook EXCEPT ![today][r.user] =
                             @ + IF Checked(r, today) THEN 0 ELSE Charge(r)]
  /\ UNCHANGED <<today, created, account, requests, faults, sent, lost>>

\* The commit fails: reserve() rolls back, logs, and the call goes out anyway.
ReserveFails(w) ==
  LET r == req[w] IN
  /\ r.pc = "reserve"
  /\ ~RowRefused(r)
  /\ req' = [req EXCEPT ![w] = Dispatch(r)]
  /\ Fault
  /\ lost' = [lost EXCEPT ![today][r.user] = @ + Cost(r.call)]
  /\ UNCHANGED <<today, ledger, created, account, requests, sent, offbook>>

Sent(w) == req[w].pc = "sent"

\* An answer, or none: the attempt has cost its units, and thread w goes on as r.
Answered(w, r) ==
  /\ req' = [req EXCEPT ![w] = r]
  /\ sent' = [sent EXCEPT ![req[w].rday][req[w].user] = @ + Cost(req[w].call)]
  /\ UNCHANGED <<today, ledger, created, account, requests, faults, lost, offbook>>

Succeed(w)  == Sent(w) /\ \E r \in AfterOk(req[w]) : Answered(w, r)
NotFound(w) == Sent(w) /\ \E r \in AfterNotFound(req[w]) : Answered(w, r)
Reject(w)   == Sent(w) /\ \E r \in AfterRejection(req[w]) : Answered(w, r)
Fail(w)     == Sent(w) /\ \E r \in AfterFailure(req[w]) : Answered(w, r)

\* Mutant: the retry loop has no end.
TransientForever(w) ==
  Sent(w) /\ Answered(w, [req[w] EXCEPT !.pc = "reserve"])

\* 409, 5xx or a network error: retried while attempts are left.
Transient(w) ==
  /\ Sent(w)
  /\ IF req[w].left > 0 THEN Answered(w, [req[w] EXCEPT !.pc = "reserve"]) ELSE Fail(w)

\* record_playlist_created, on the tracker _create_playlist was let through by;
\* a playlist just created is not synced.
RecordCreated(w) ==
  LET r == req[w] IN
  /\ r.pc = "record"
  /\ IF RowRefused(r)
       THEN /\ req' = [req EXCEPT ![w] = Idle]
            /\ UNCHANGED created
       ELSE /\ \E p \in Planned(r) : req' = [req EXCEPT ![w] = p]
            /\ created' = [created EXCEPT ![r.day][r.user] = @ + 1]
  /\ UNCHANGED <<today, ledger, account, requests, faults, sent, lost, offbook>>

\* The commit of the counter fails and is only logged.
RecordFails(w) ==
  /\ req[w].pc = "record"
  /\ ~RowRefused(req[w])
  /\ \E p \in Planned(req[w]) : req' = [req EXCEPT ![w] = p]
  /\ Fault
  /\ UNCHANGED <<today, ledger, created, account, requests, sent, lost, offbook>>

Step(w) ==
  \/ Resolve(w) \/ GlobalGate(w) \/ UserGate(w) \/ CreateGate(w)
  \/ Reserve(w) \/ ReserveFails(w)
  \/ Succeed(w) \/ NotFound(w) \/ Reject(w) \/ Fail(w) \/ Transient(w)
  \/ RecordCreated(w) \/ RecordFails(w)

-----------------------------------------------------------------------------
(* The rest of the world.                                                    *)

\* The process is killed under the thread; an attempt in flight counts as sent.
Die(w) ==
  LET r == req[w] IN
  /\ r.pc # "idle"
  /\ Fault
  /\ req' = [req EXCEPT ![w] = Idle]
  /\ sent' = IF r.pc = "sent" THEN [sent EXCEPT ![r.rday][r.user] = @ + Cost(r.call)]
                              ELSE sent
  /\ UNCHANGED <<today, ledger, created, account, requests, lost, offbook>>

Midnight ==
  /\ today < MaxDay
  /\ today' = today + 1
  /\ UNCHANGED <<ledger, created, account, req, requests, faults, sent, lost, offbook>>

NoRows(table, u) == [d \in Days |-> [table[d] EXCEPT ![u] = 0]]

\* The day's totals lose what the rows of u held.
RowsGo(u) ==
  /\ ledger' = NoRows(ledger, u)
  /\ created' = NoRows(created, u)
  /\ lost' = [d \in Days |-> [lost[d] EXCEPT ![u] = @ + ledger[d][u]]]
  /\ UNCHANGED <<today, req, requests, faults, sent, offbook>>

\* delete_account, first commit (inside revoke_session): the usage rows go.
PurgeUsage(u) ==
  /\ account[u] # "gone"
  /\ account' = [account EXCEPT ![u] = "purged"]
  /\ RowsGo(u)

\* delete_account, second commit: the user goes, and ON DELETE CASCADE takes the
\* rows that restores in flight have written since.
RemoveUser(u) ==
  /\ account[u] = "purged"
  /\ account' = [account EXCEPT ![u] = "gone"]
  /\ RowsGo(u)

Next ==
  \/ \E w \in Workers : Step(w) \/ Die(w) \/ \E u \in Users : StartRestore(w, u)
  \/ \E u \in Users : PurgeUsage(u) \/ RemoveUser(u)
  \/ Midnight

Spec == Init /\ [][Next]_vars

\* Every HTTP call has a timeout and every database call returns: a thread that is
\* not killed keeps going.
FairSpec == Spec /\ \A w \in Workers : WF_vars(Step(w))

-----------------------------------------------------------------------------
(* Type invariant: the shape of the ledger and of the threads (models.py       *)
(* QuotaUsage, and the locals of one restore).                                 *)
Table == [Days -> [Users -> Nat]]

TypeOK ==
  /\ today \in Days
  /\ ledger \in Table /\ created \in Table
  /\ account \in [Users -> {"active", "purged", "gone"}]
  /\ req \in [Workers -> Request]
  /\ requests \in 0 .. MaxRequests
  /\ faults \in 0 .. MaxFaults
  /\ sent \in Table /\ lost \in Table /\ offbook \in Table

Larger(a, b) == IF a <= b THEN b ELSE a

\* Attempts at one call, whatever it is, and calls that one passed check allows: more
\* than one in a validation only.
MostAttempts == Larger(1 + MaxRetries, 2)
MostBatches  == IF Validate /\ MaxTracks > 0 THEN Batches(MaxTracks) ELSE 1

\* Units that a thread may charge on one passed check, and how many of them the check
\* did not ask for: it asks for one attempt at each call, and lists get two.
MostUnits  == Larger(MostAttempts * InsertCost, 2 * (MostBatches * ListCost))
MostExcess == Larger((MostAttempts - 1) * InsertCost, MostBatches * ListCost)

\* What threads that were let through side by side can still add to a ledger that
\* the last of them saw with just the room it asked for.
Slack == (Cardinality(Workers) - 1) * MostUnits + MostExcess

\* The user's cap is not hard (two reads, then charges, with retries unchecked),
\* but the overshoot is bounded: whatever the interleaving, a user's row exceeds
\* the cap by at most the attempts all threads were let through for, plus what was
\* reserved with no check of that day's ledger: the mirror sync, and calls let through
\* on the day before, or by the tracker of a pass begun then.
CapOvershoot ==
  \A d \in Days, u \in Users : ledger[d][u] <= UserCap + Slack + offbook[d][u]

\* The same for the shared cap, which is read before the user's.
GlobalOvershoot ==
  \A d \in Days : Usage(d) <= GlobalCap + Slack + Total(offbook[d], Users)

\* The ledger never undercounts: every unit sent to Google is in the row of its account,
\* save the reservations whose commit failed and the rows that went with the account
\* (quota.py rule 1: units are reserved before the call, per attempt, and never
\* refunded; delete_account takes them out of the day's total all the same).
LedgerCoversCalls ==
  \A d \in Days, u \in Users : sent[d][u] <= ledger[d][u] + lost[d][u]

\* The abuse cap on playlist creation is checked on one tracker and counted on the
\* same one after the call: a user exceeds it only by the creations in flight.
CreatesOvershoot ==
  \A d \in Days, u \in Users : created[d][u] < CreateCap + Cardinality(Workers)

\* A deleted account leaves no usage row behind, although restores of its own may
\* be in flight during both commits of delete_account (ON DELETE CASCADE and the
\* foreign key of QuotaUsage).
GoneLeavesNoRows ==
  \A d \in Days, u \in Users :
     account[u] = "gone" => ledger[d][u] = 0 /\ created[d][u] = 0

\* A thread that is not killed finishes its restore: retries, pages, tracks and
\* passes are all bounded.
RestoresEnd == \A w \in Workers : req[w].pc # "idle" ~> req[w].pc = "idle"

-----------------------------------------------------------------------------
(* How far a restore can still go.  With a price for each answer of Google and *)
(* one for every other step of a thread, what a restore has before it is at    *)
(* most what its loops can still do: passes, pages, batches, tracks and        *)
(* attempts.                                                                   *)

Steps == [step |-> 1, insert |-> 1, list |-> 1]                     \* counted
Units == [step |-> 0, insert |-> InsertCost, list |-> ListCost]     \* billed

AnswerPrice(p, m) == IF m \in Inserts THEN p.insert ELSE p.list

\* A call with all its attempts, each reserved and answered; and with the gates before it.
CallPrice(p, m)  == Attempts(m) * (p.step + AnswerPrice(p, m))
GatedPrice(p, m) == 3 * p.step + CallPrice(p, m)

InsertsPrice(p, n) == n * GatedPrice(p, "playlistItems.insert")
SyncPrice(p, n)    == n * CallPrice(p, "playlistItems.list")
MakePrice(p)       == GatedPrice(p, "playlists.insert") + p.step
BatchesPrice(p, n) == n * CallPrice(p, "videos.list")
FillPrice(p) ==
  InsertsPrice(p, MaxTracks) +
    IF Validate THEN 3 * p.step + BatchesPrice(p, MostBatches) ELSE 0

\* A playlist is found and synced, or made.
FindPrice(p) ==
  IF MakePrice(p) <= SyncPrice(p, MaxPages) THEN SyncPrice(p, MaxPages) ELSE MakePrice(p)

PassPrice(p) == p.step + GatedPrice(p, "playlists.list") + FindPrice(p) + FillPrice(p)

\* What may follow call m of a pass with n tracks to do and k pages read.
AfterPrice(p, m, n, k) ==
  CASE m = "playlists.list"       -> FindPrice(p) + FillPrice(p)
    [] m = "playlists.insert"     -> p.step + FillPrice(p)
    [] m = "playlistItems.list"   ->
         FillPrice(p) + IF k < MaxPages THEN SyncPrice(p, MaxPages - k) ELSE 0
    [] m = "videos.list"          -> InsertsPrice(p, n)
    [] m = "playlistItems.insert" -> InsertsPrice(p, n - 1)

\* The batches that thread r has let through, and what may follow them.
Following(p, r) == BatchesPrice(p, r.batches) + AfterPrice(p, r.call, r.todo, r.pages)

Gates == [global |-> 3, user |-> 2, creates |-> 1]

\* What thread r has before it in this pass, and in all.
AheadNow(p, r) ==
  CASE r.pc = "idle"    -> 0
    [] r.pc = "resolve" -> PassPrice(p)
    [] r.pc = "record"  -> p.step + FillPrice(p)
    [] r.pc \in DOMAIN Gates ->
         Gates[r.pc] * p.step + CallPrice(p, r.call) + Following(p, r)
    [] r.pc \in {"reserve", "sent"} ->
         r.left * (p.step + AnswerPrice(p, r.call)) + Following(p, r)
           + IF r.pc = "sent" THEN AnswerPrice(p, r.call) ELSE 0

Ahead(p, r) ==
  IF r.pc = "idle" THEN 0
  ELSE (MAX_PLAYLIST_RESOLUTION_ATTEMPTS - r.pass) * PassPrice(p) + AheadNow(p, r)

\* Whatever Google answers and the gates decide, each step brings a restore closer to
\* its end, in as many steps as the loops of both passes allow (_request_with_retry,
\* _sync_mirror, _validate_video_ids, _restore_pass, _restore_via_youtube_data_api).
RestoresWindDown ==
  [][\A w \in Workers : req[w].pc # "idle" =>
        \/ req'[w] = req[w]
        \/ Ahead(Steps, req'[w]) \in 0 .. Ahead(Steps, req[w]) - 1]_vars

\* Units of all accounts and days, and the most one restore can bill, retries, second
\* pass and sync included.
Billed      == Total([d \in Days |-> Total(sent[d], Users)], Days)
RestoreCost == MAX_PLAYLIST_RESOLUTION_ATTEMPTS * PassPrice(Units)

\* The units that the restores under way may still bill.
Unbilled(q) == [w \in Workers |-> Ahead(Units, q[w])]

\* Restores bill no more than that each, whatever is interrupted, repeated or deleted; and
\* what is billed at any time leaves room for all that those under way have before them, so
\* no call is ever one that its restore had not paid for from the start (every caller of
\* _request_with_retry).
BillBounded == Billed + Total(Unbilled(req), Workers) <= requests * RestoreCost

-----------------------------------------------------------------------------
(* The budget it implements.                                                   *)

\* Units thread r may still charge on its passed check, the batches to come included;
\* early are the gates that come after the check in question.
Promised(r, early) ==
  IF r.pc \in early THEN Attempts(r.call) * Asked(r)
  ELSE IF r.pc \in {"reserve", "sent"} /\ r.call # "playlistItems.list"
    THEN r.left * Cost(r.call) + Attempts(r.call) * (r.batches * ListCost)
  ELSE 0

\* What the check of the user's row was good for.
Credit(r) == [day |-> r.day, user |-> r.user, units |-> Promised(r, {"creates"})]

\* A thread that has passed the user's gate has credit for the attempts of one call, or
\* of all the calls of a validation.
Line == INSTANCE Budget WITH
  Clients <- Workers, Accounts <- Users, Cap <- UserCap,
  Costs <- {InsertCost, ListCost}, MaxAttempts <- MostAttempts,
  Asks <- {InsertCost} \cup {n * ListCost : n \in 1 .. MostBatches},
  spent <- ledger, unchecked <- offbook,
  credit <- [w \in Workers |-> Credit(req[w])]

\* Reading the row, charging it and deleting it in separate transactions, with retries,
\* failed commits and deaths between them, comes to no more than a budget with bounded
\* credit: nothing is charged that was neither let through nor booked as unchecked.
ImplementsBudget == Line!Spec

-----------------------------------------------------------------------------
(* What the comments and docs say of the budget and the code does not do.      *)

\* quota.py:9-11 "concurrent workers cannot both pass a cap check and then both
\* spend": the ledger has room for all the threads it has let through.
LetThrough(w, d, u) ==
  /\ req[w].user = u /\ req[w].day = d /\ req[w].call # "playlistItems.list"
  /\ req[w].pc = "reserve" /\ req[w].left = Attempts(req[w].call)

NoDoubleGrant ==
  \A v, w \in Workers, d \in Days, u \in Users :
     (v # w /\ LetThrough(v, d, u) /\ LetThrough(w, d, u))
       => ledger[d][u] + Asked(req[v]) + Asked(req[w]) <= UserCap

\* docs/quota-optimization.md:84 "the check happens before each insert, so the cap
\* is never crossed", granting even the overshoot of retries.
CapHoldsAcrossMidnight == \A d \in Days, u \in Users : ledger[d][u] <= UserCap + Slack

=============================================================================
