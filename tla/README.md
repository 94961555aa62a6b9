# YtmQueueSaver-backend: TLA+ specifications and proofs

A browser extension saves what its user is listening to on YouTube Music as
*snapshots*; this backend keeps the snapshots and *restores* one by creating or
refilling a YouTube playlist. YouTube gives the whole service a fixed number of
quota units per Pacific day, so most of the code is about spending few of them:
caches, a ledger, retries with care. These modules say what that code
guarantees when requests overlap, commits fail and the process dies, and where
it guarantees less than its documents say.

Paths are relative to `src/`. The code was read with its tests and `docs/`;
every definition is taken from the code.

## 1. The system

### How it runs

`Procfile` starts one uvicorn process. All routes are synchronous functions, so
FastAPI runs every request in a thread of its pool, with a SQLAlchemy session
of its own (`database.py:get_db`, `autoflush=False`). Threads share the
database (PostgreSQL in production, whose foreign keys are enforced; SQLite in
development) and two objects of the process: the per-user refresh locks
(`auth.py:289`) and the set of alerts already logged (`quota.py`). Nothing else
is shared: no queue, no background worker, no scheduler. A transaction sees
what is committed before each of its statements, and an object the ORM loaded
is read back after every commit. So the units of interleaving are the SELECTs,
the commits and the HTTP exchanges; those are the steps of the modules.

### Components

| Component | State | Operations | Talks to |
|---|---|---|---|
| Quota ledger (`quota.py`) | `quota_usage`: units and creations per user and Pacific day | `ensure_budget`, `ensure_can_create_playlist`, `reserve`, `record_playlist_created`, `estimate_restore_units` | called by the restore engine before and after each YouTube call |
| Restore engine (`ytm_service.py`, `main.py:restore_snapshot`) | `user_playlists` (category to playlist), `playlist_items_cache` (the *mirror*), locals of a restore | find or create the playlist, verify, sync the mirror, insert, flush, invalidate, second pass, ytmusicapi fallback | YouTube, ledger, credentials |
| Accounts and sessions (`main.py`, `auth.py`) | `users`, `playlist_snapshots`, `revoked_tokens`, session JWTs | register, test login, authenticate, logout, save / list / delete snapshots, delete the account, prune | all tables, through cascades |
| Stored Google credential (`auth.py`, `main.py`) | `encrypted_token_json`, `needs_reconnect`, refresh locks | store, load, re-encrypt, refresh, mark as needing a new sign-in, revoke | Google's token endpoint, restores |
| Token vault (`crypto.py`) | keys of the process | seal, open, rotate; formats v3, v2 and Fernet | credentials |
| Schema migrations (`migrations.py`) | the schema; no record of what was applied | `apply_migrations` at startup, `rollback_last`, `pending` | database |
| Request pipeline (`main.py`, `schemas.py`) | rate-limit windows of the process | size, type, host and schema checks | routes |
| Audit log (`audit.py`) | none | redacted log lines | everything |
| Configuration, engine (`config.py`, `database.py`) | constants; the connection pool | | everything |

### What is hard about it

- **Check, then charge.** The budget is read in two SELECTs, charged in an upsert
  of its own, and the call follows: three points at which others run.
- **Midnight.** A pass keeps the tracker of the day it began on; charging uses the
  day of the attempt.
- **Retries.** An attempt whose answer is lost may have taken effect.
- **One check, many calls.** With `YTM_VALIDATE_VIDEO_IDS` on, one look at the budget lets
  a call of `videos.list` through for every 50 tracks, each with two attempts.
- **Batches.** Inserted tracks reach the mirror 25 at a time, in a commit that may
  fail, or never come because the process dies or the pass is abandoned.
- **Two restores of one category**, or a restore and a deletion of the account.
- **404** says that the playlist is gone, or that a video is; the code cannot tell.
- **The credential** is loaded when a request begins and acted upon up to minutes
  later: refreshed, re-encrypted, wiped.
- **Two commits** in `delete_account` and in `register_user`.

### What makes each component correct

- *Ledger*: never undercounts; what it lets through exceeds a cap by a bounded
  amount only; belongs to existing accounts only.
- *Restore*: never records a track that was not inserted; repeats an insertion only
  for a reason; accounts for each track; answers with a playlist of the right
  category; creates few playlists; ends, at a bounded price.
- *Accounts*: one per identity; tokens act for who signed in; a logged-out token
  stays out; nothing survives deletion; only owners remove.
- *Credential*: one refresh at a time; a lock is always given back; a working
  credential is not lost without cause; a missing one is flagged.

The full list of hazards, each at its line with the properties aimed at it, is
in `PROJECT.json`.

## 2. The modules

| Module | Models | Lines of code it stands for |
|---|---|---|
| `Quota` | the ledger, and a restore as a spender | `quota.py`, the call sites in `ytm_service.py` |
| `Budget` | what the per-user budget promises; `Quota` implements it | |
| `Restore` | mapping, mirror and playlists of one account | `ytm_service.py` |
| `FindOrCreate` | what restores promise of a user's playlists; `Restore` implements it | |
| `Accounts` | accounts, sessions, snapshots, deletion | `main.py`, `auth.py`, `models.py` |
| `Credentials` | the credential of one account | `auth.py`, `main.py` |
| `Vault` | the key ring of a process, and sealed records | `crypto.py` |
| `Migrations` | the schema, and all that changes it | `migrations.py`, the startup in `main.py` |
| `Service` | processes one after the other over one database: composes `Vault` and `Migrations` with sign-ins and restores | `main.py` |
| `Tally` | sums over finite sets, as sizes of sets | |
| `MCQuota`, `MCRestore`, `MCAccounts`, `MCCredentials`, `MCMigrations`, `MCService` | queues, environments and symmetries for TLC | |
| `TallyProofs`, `QuotaProofs`, `RestoreProofs`, `PlaylistsProofs`, `AccountsProofs`, `CredentialsProofs`, `MigrationsProofs`, `ServiceProofs` | the proofs | |

In each module a thread is a record whose `pc` is *the next thing it does*; an
action named after a function or a stretch of it is everything between two points
where others may run. Whatever the program chooses by data that the module leaves
out is an `\E`. A definition with "Mutant" over it is a plausible bug of the one
that follows; no specification uses it, and it shows that a property would notice.

**Quota.** `StartRestore` accepts a request; `Resolve` takes one of the three
branches of `_resolve_playlist`; `GlobalGate`, `UserGate`, `CreateGate` are the
reads of `ensure_budget` and `ensure_can_create_playlist`; `Reserve` and
`ReserveFails` are `reserve()`, with the call sent in either case; `Succeed`,
`NotFound`, `Reject`, `Fail`, `Transient` are the answers of `_request_with_retry`;
`RecordCreated` is the counter. `Midnight`, `PurgeUsage`, `RemoveUser`, `Die` are the
rest of the world. Histories: `sent` (what Google has billed), `lost` (reservations
whose commit failed, and rows deleted with their account), `offbook` (units charged to a
day whose ledger was not consulted for them). Which cache branch is taken and how many tracks are pending are
choices, because `Restore` models them; there, in turn, whether the budget lets a
call through is a choice. Each module therefore covers what the other allows.
A validation is one check for all its calls (`OpenValidation`, `Asked`: the cost of one
attempt for each batch of `PerCall` ids, 50 in the code), after which they follow one
another unchecked, each with attempts of its own: `batches` counts those to come, and
`AfterBatch` goes on to the next. One that fails ends the validation, and all that was
pending is inserted; the last one leaves any part of it.
`Ahead(p, r)` is what thread `r` can still do at prices `p`: the passes it has left, and
in this one, by its `pc`, gates, attempts, pages, batches and tracks. At the prices `Steps` it counts
steps, at `Units` it is what Google may still bill.

**Restore.** `rows[c]` is the `user_playlists` row of category `c` with its primary
key, as a thread holds an ORM object by key and finds it changed or gone after a
commit (`Touch`, `Store`). `mirror`, `listed` and `copies` are what the cache says,
what YouTube lists and how often an insertion took effect. `Find` to `TouchFails` are
`_resolve_playlist`, `Create` to `StoreFails` are `_create_playlist`, `Load` and `Sync`
the mirror, `Insert*` and `Flush` the loop, `Invalidate` and `NextPass` the second
pass, `Fallback*` ytmusicapi. The user may delete a playlist or take a track out.
A queue is a sequence; what a pass still has to send (`todo`) is a set of its positions,
and `Sending(w, i)` says that position `i` is the first of them. `OrderedVideoIds` is thus
the set of positions restored: all, or with the flag those of first occurrences.

**Accounts.** `Register`, `Insert`, `Login` are the SELECT and the two commits of
`register_user` (`test_login` has the same shape); `Authenticate` and `FindUser` are the
two SELECTs of `get_current_user`; `Find`/`Remove` and `Find`/`Map` the check and the
use of a snapshot; `Purge`, `PurgeFails`, `Drop` the two commits of `delete_account`.
`google` in a token's record is a history: who signed in for it.

**Credentials.** A *grant* is what Google hands out at one sign-in. `Restore` loads
it, `Reencrypt` writes it back if its record is old, `Resolve` to `WaitTimeout` are
`refresh_access_token`, `CallRejected` is the 401 that reaches `main.py:546`, and
`Wipe` is `mark_needs_reconnect`. `GoogleRevokes`, `TokenAges` and `Restart` are the
world. The row exists with a credential to begin with: an account between the two
commits of its first sign-in has neither credential nor flag, and no session either.

**Budget.** A client is granted *credit* for one row, if what it asks for (`Asks`) fits
under the cap, up to `MaxAttempts` times over; it then charges the row within its credit, or openly without any (`unchecked`);
credit may lapse, and rows go with their account. Nothing else adds to a row. In
`Quota`, `Line` is this with `credit` read off the threads: a thread past `UserGate` has
credit for all attempts of its call, in a validation for those of every call of it (`Credit`),
and `offbook` is what was unchecked.

**FindOrCreate.** A playlist is made for one category, may be mapped once, in place of the
one before, and is then left for good; it is added to as long as anybody knows it, and
its mirror claims only what was added. In `Restore`, `Life` is this with the stage of a
playlist read off the rows and the threads: it is *mapped* while a row names it, *new*
while the thread that made it is about to store the row, *left* otherwise. So a row deleted,
replaced or refused by the unique constraint leaves its playlist, and a restore that holds
the old row across another's commit must not bring it back (`TouchMerges` does).

**Vault.** A key is a number, an entry of `KMS_MASTER_KEY_PREVIOUS` a key or a text that
is none, with or without an id. `LoadMasterKeys` keeps the list with gaps where entries
cannot be read, `Finds` is the dictionary built from it (of two entries with one id the
later counts). A record says what it was sealed with. `FERNET_KEY` never changes.

**Migrations.** A schema is a set of tables, columns and indexes; `Release(n)` is what
earlier releases left. `CreateAll`, `Apply` (one per statement), `Applied` are the
startup; `RunMigrations` is `python -m migrations`; `UndoLast` to `Undone` are
`rollback_last`. PostgreSQL keeps all for the commit (`view` beside `schema`), SQLite
applies each statement at once. `Refused` says which statements fail by themselves,
`ApplyFails` and `UndoFails` are accidents, `Killed` may come before each statement.

**Service.** A process loads its keys from one of `Environments` (`Start`), brings the
schema up to date and serves; `Exit` ends it in the midst of requests. Of the requests
it has what they do to the record of one account: `SignIn` and `Save`; `Restore` (loaded
and opened), `Reencrypt`, the calls (`CallEnds`) and `Wipe`. `python -m migrations` and
`rollback_last` load no keys. `used` is a history: what processes have sealed with.

`CHECK_DEADLOCK FALSE` in all configurations: the server may have nothing left to do
once the bounded requests are used up.

## 3. The runs

| Run | Question | Properties |
|---|---|---|
| `QuotaRace` | two threads, one or two accounts, side by side | `TypeOK`, `CapOvershoot`, `GlobalOvershoot`, `CreatesOvershoot` |
| `QuotaLifetime` | a validation in two calls under one check, midnight, deletion, every answer, a failed commit or a death, a fair thread | `LedgerCoversCalls`, `GoneLeavesNoRows`, `CapOvershoot`, `BillBounded`, `ImplementsBudget`, `RestoresWindDown`, `RestoresEnd` |
| `RestoreRace` | two threads on one category, each verifying what it finds, an edit, a fault | `MirrorSound`, `DoneIsMirrored`, `CopiesBounded`, `ImplementsFindOrCreate` |
| `RestoreSerial` | two categories one after the other, all flags on | `TypeOK`, `TracksAccounted`, `PlaylistsHome`, `AnswerIsMapped`, `CreationsBounded`, `BilledOnce` |
| `AccountsRace` | two threads, two identities, a fault, a clock | `TypeOK`, `OneAccountEach`, `SessionsStayOwn`, `GoneLeavesNothing`, `LoggedOutRejected`, `OnlyOwnersRemove` |
| `CredentialsRace` | three threads of one account, a fault or restart | `TypeOK`, `RefreshExclusive`, `MissingIsFlagged`, `WipesOnlyRejected`, `DeletedIsRevoked`, `RequestsEnd` |
| `ServiceLife` | three processes over what earlier releases left, eight environments, two threads, a fault | `TypeOK`, `KeptKeysOpen`, `AccessRewraps`, `RetireSafe`, `UpgradesInOrder`, `UnreadableIsKept`, `StartupEnds` |

What they show:

- No cap is hard, every overshoot is bounded. A user's row exceeds the cap by at
  most `Slack`, plus what was never checked (`offbook`). `Slack` is what all threads but
  one may charge on one passed check (`MostUnits`) and what the last may charge beyond
  what it asked for (`MostExcess`): attempts at one insert, or two at every call of a
  validation. At the defaults of the code (50 and 1 units, 2 retries, 1000 tracks, so
  20 calls) a validation is the smaller: 40 units against 150, and 20 beyond what was
  asked for against 100. The creation cap is exceeded only by creations in
  flight.
- `offbook` is a concession: it holds the units of the mirror sync, and those charged
  after midnight on the word of the day before. The code bounds neither by the ledger of
  the day they are charged to; they are part of the restore's bill, which `BillBounded`
  bounds. `QuotaStaleDay` shows what comes of the second.
- The ledger never undercounts, save reservations whose commit failed and the rows
  that go with a deleted account (which the day's total then lacks); and no usage row
  outlives its account although restores write between the two commits.
- Reads, charges and deletions in transactions of their own, with retries, midnights,
  failures and deaths between, come to no more than a budget with bounded credit.
- One restore ends, whatever YouTube answers: each of its steps lowers a number that its
  loops (passes, pages, batches, tracks, attempts) bound, and what it bills is within the price of two full passes.
- The mirror never claims what was not inserted. A track is inserted more often than
  its queue names it only by concurrent restores or once per failure.
- Concurrent restores, deletions and failed commits do to the rows and playlists no more
  than an abstract find-or-create would: no category comes back to a playlist it has left.
- A restore that answers 200 has inserted or reported each track, and answers with
  a playlist of its category; alone, that playlist is the one the next will reuse.
- A token never acts for another identity's account, though the deletion of an
  account revokes only the token presented and others live on: ids are not reused.
  A snapshot written, and a mapping stored, during the deletion go with it.
- The lock is never leaked by a timeout, a failed exchange or a restart. A credential
  that works is wiped only by a request that loaded an earlier one or did not refresh.
- A deleted account leaves a live grant at Google in three cases only: its access token
  had aged (`revoke_google_token` sends the access token), a sign-in came in between,
  or the call failed. Each of the three is needed for the property to hold.
- A process that was given every key its predecessors sealed with reads the record,
  however often keys were rotated and whatever else is in its list; a restore leaves
  the record sealed with the active key before it calls YouTube; a key can be taken out
  of the list once no record asks to be sealed again, if ids were never used twice;
  a record that cannot be read stays until a sign-in replaces it.
- An undisturbed startup leaves nothing pending on SQLite over anything, and on
  PostgreSQL if columns were missing from the end only. No failure stops a startup.

In `RestoreStale` the clock stands still while a restore runs (`PromptSpec` of
`MCRestore`): a slow restore would pass the window on its own, which is not the point.

Five runs find a disagreement (section 6): `QuotaDoubleGrant`,
`QuotaStaleDay`, `RestoreStale`, `CredentialsWaiter`, `MigrationsStuck`.

### Bounds, and why they are enough

| Bound | Values | Why |
|---|---|---|
| threads | 1 to 3 | all races here are between a check and a use; two actors suffice, three in `Credentials` for holder, waiter and newcomer |
| accounts, identities | 1, 2 | another's rows matter only through the shared total and ownership |
| days | 1, 2 | a restore that meets two midnights takes over a day |
| requests | 1 to 4 | the last may meet all that earlier ones left |
| faults, edits | 0, 1 | failures are compared one at a time; each interleaves with everything |
| caps | 3 to 7 units, insert 2, list 1, creations 1 | small multiples: some checks pass, the next fails |
| retries | 0, 1, 2 | none, the value most callers pass, and more |
| tracks, batch, page | queue 1 to 3, batch 1, 2, page 1 | a full batch, a partial one, a partial sync |
| tracks, ids per call (`Quota`) | 1, no validation; 2 and 1 | two threads side by side; two calls of `videos.list` under one check |
| sync pages (`Quota`) | 0 | see below |
| playlists | 2, 4 | one to lose, one to find, a lost creation |
| clock | 0 to 3, TTL 0, 1, token 2, retention 0 | before, at and after each expiry; TTL 0 verifies at every reuse |
| tokens, snapshots, ids | 2, 1, 2 | one to revoke while another lives |
| grants | 2, one renewable | a sign-in that races an older one |
| starts, keys | 3 startups, runs or rollbacks; 3 keys and those drawn at random | one to leave something, one to change it, one to read it; two rotations |
| environments | 8 | rotations as documented, with unreadable entries before readable ones, with the id left as it was, without the old id; no key; a mistyped one |
| releases | all 6, and none | what each may have left |

No run of `Quota` syncs the mirror: a page besides the two validation calls takes TLC
beyond five minutes. Its unchecked charges (`offbook`), its pages in the bill and its place among
the steps of a restore rest on the theorems of section 4, which hold for every
`MaxPages`. That the restore then ends is model-checked without a page only; with
pages `RestoresGoDown` still says that none of its steps can recur. What the sync does to the mirror is checked by the runs of `Restore`.

A fault of `ServiceLife` is a failed statement or commit or a kill; there are
startups before and after it. Symmetry is used over threads, accounts, identities and categories where no
constant tells them apart, and not in the runs that check liveness.

### Fairness

`FairSpec` of `Quota` and of `Credentials` assumes weak fairness of each thread's own
steps: every HTTP call has a timeout (`YTM_HTTP_TIMEOUT_SECONDS`, `timeout=` of the token
endpoint), the wait for the refresh lock has one, retries sleep for a bounded time,
and the database answers. Nothing is assumed of arrivals, of the user, of midnight, of
faults, or of which answer Google gives. `FairSpec` of `Service` assumes that a startup
that is not killed goes on: it is sequential code before the first request, and the
database answers each of its statements, if only with an error. `Restore` and `Accounts` check safety only:
whether a restore ends is asked of `Quota`, which has every call of one.

## 4. What is proved

For all values of the constants that satisfy the modules' assumptions (finite sets
of accounts and threads, natural caps and costs, a list costing no more than an
insert, at least one grant; natural bounds, lifetimes and retention; queues over any
videos, of any length up to a maximum, as `schemas.py:49` has it with
`MAX_TRACKS_PER_SNAPSHOT`; batches and pages of at least one):

| Theorem | Says |
|---|---|
| `QuotaProofs!TypeCorrect` | `Spec => []TypeOK` |
| `QuotaProofs!UserOvershoot` | `Spec => []CapOvershoot` |
| `QuotaProofs!SharedOvershoot` | `Spec => []GlobalOvershoot` |
| `QuotaProofs!CallsAreCovered` | `Spec => []LedgerCoversCalls` |
| `QuotaProofs!FewPlaylists` | `Spec => []CreatesOvershoot` |
| `QuotaProofs!DeletionIsFinal` | `Spec => []GoneLeavesNoRows` |
| `QuotaProofs!BudgetImplemented` | `Spec => ImplementsBudget`, that is `Line!Spec` |
| `QuotaProofs!RestoresGoDown` | `Spec => RestoresWindDown` |
| `QuotaProofs!BillsAreBounded` | `Spec => [](BillBounded /\ Billed <= requests * RestoreCost)` |
| `RestoreProofs!TypeCorrect` | `Spec => []TypeOK` |
| `RestoreProofs!MirrorIsSound` | `Spec => []MirrorSound` |
| `RestoreProofs!TracksAreAccounted` | `Spec => []TracksAccounted` |
| `RestoreProofs!DoneMirrored` | `Spec => []DoneIsMirrored` |
| `RestoreProofs!PlaylistsAreHome` | `Spec => []PlaylistsHome` |
| `RestoreProofs!BillsOnce` | `Spec => []BilledOnce` |
| `RestoreProofs!CreationsAreBounded` | `Spec => []CreationsBounded` |
| `RestoreProofs!AnswersAreMapped` | `Spec => []AnswerIsMapped`, assuming `Alone` |
| `PlaylistsProofs!FindOrCreateImplemented` | `Spec => ImplementsFindOrCreate`, that is `Life!Spec` |
| `PlaylistsProofs!CopiesAreBounded` | `Spec => []CopiesBounded` |
| `PlaylistsProofs!NeverFoundAgain` | `Spec => Life!LeftForGood` |
| `AccountsProofs!TypeCorrect` | `Spec => []TypeOK` |
| `AccountsProofs!OneEach` | `Spec => []OneAccountEach` |
| `AccountsProofs!StayOwn` | `Spec => []SessionsStayOwn` |
| `AccountsProofs!NothingLeft` | `Spec => []GoneLeavesNothing` |
| `AccountsProofs!StayOut` | `Spec => LoggedOutRejected` |
| `AccountsProofs!OwnersOnly` | `Spec => OnlyOwnersRemove` |
| `CredentialsProofs!TypeCorrect` | `Spec => []TypeOK` |
| `CredentialsProofs!Exclusive` | `Spec => []RefreshExclusive` |
| `CredentialsProofs!Flagged` | `Spec => []MissingIsFlagged` |
| `CredentialsProofs!Sparing` | `Spec => WipesOnlyRejected` |
| `CredentialsProofs!Revoking` | `Spec => DeletedIsRevoked` |
| `ServiceProofs!CallsAreRewrapped` | `Spec => []AccessRewraps` |
| `ServiceProofs!KeptKeysSuffice` | `Spec => []KeptKeysOpen` |
| `ServiceProofs!KeysCanRetire` | `Spec => []RetireSafe` |
| `ServiceProofs!ReadingKeeps` | `Spec => UnreadableIsKept` |
| `ServiceProofs!TypeCorrect` | `Spec => []TypeOK` |
| `ServiceProofs!StartupsUpgradeInService` | `Spec => UpgradesInOrder` |
| `MigrationsProofs!StartupsUpgrade` | `SchemaSpec => UpgradesInOrder` |

**The type of the ledger** is not inductive by itself: that a decrement stays
natural and an attempt has a method depends on where the thread is. `Steady(r)` says
what the program text guarantees of a thread at each `pc`, and `TypeInv` is `TypeOK`
with every thread steady. The many answers and branches are first sorted into twelve
kinds of step (`StepKinds`), so that later invariants need not look at the code again.

**The overshoot.** `CapOvershoot` speaks of the ledger, but the ledger is charged
after the check, so it is not inductive. `Promised(r)` counts the units a thread that
was let through may still charge, `Owing` gathers them by thread, and `UserBudget`
says: *ledger + promised <= cap + slack + offbook*. A thread that passes the second
read saw *ledger + asked <= cap*, and the promises of all others are at most
*threads - 1* times `MostUnits`: that makes the slack. What a validation promises counts
the batches to come, so going on to the next one promises nothing new (`NextBatchOwes`),
and what is promised beyond what was asked for is at most `MostExcess` (`AskedBound`). A charge moves units from the promise to
the ledger; a midnight voids promises, and charges made from then on are `offbook`.
The sum over threads is `Tally!Total`, the size of a set with one element for each
unit; `TallyProofs` has its change by one entry, its monotonicity and its bound.

**The other bounds of the ledger** follow the same pattern, each with its own sum over
threads: for the shared cap what was promised at the first read, of whatever account;
for `LedgerCoversCalls` the attempts charged and not yet answered (*sent + in flight <=
ledger + lost*); for the creation counter the creations that have passed their check
(*created + in flight < cap + threads*). `GoneLeavesNoRows` is inductive by itself,
given the types: a foreign key refuses what a deleted account's restore still writes.

**The end of a restore** is liveness, but what drives it is not: `RestoresWindDown` says
that every step of a thread, whatever is answered, decided or deleted meanwhile, makes
`Ahead(Steps, r)` smaller, and so bounds the steps of a restore by `2 * PassPrice(Steps)`
without any fairness. The proof is for any prices: a step costs `p.step`, an answer
`p.insert` or `p.list`, and where a thread goes from an answer `Fits` into what could follow
its call (`Following`: the batches it has let through, then `AfterPrice`): a branch that finds a playlist and one that makes it share
`FindPrice`, the second pass is paid for by the first. `StepPays` gathers the actions.
`BillBounded` is the same lemma at other prices. The bill alone is neither inductive nor,
with caps of a few units, ever near its bound in a run; so what the restores under way may
still bill is part of it: *billed + ahead, over all threads <= requests * RestoreCost*,
which a call too many breaks at once. A new restore brings two passes along; an answer
moves its price from one side to the other; a death only takes away.

**The budget's refinement** is shown step by step: passing `UserGate` is a `Grant` for all
that was asked for, the next batch of a validation a `Lapse` of what the one before left, a reservation
is a `Spend` if its day is the credit's and a `SpendUnchecked` if not, the deletion of
rows is a `Void`, and every other step gives credit up or changes nothing.

**The restores.** Here too `IInv` (of `RestoreProofs`) says what a thread relies on at
each `pc` (`Fit`): its playlist was created, for its category; each track of its queue is
known, inserted, reported, missing, or still to do; what it inserted is in the mirror or
`dirty`; with deduplication, positions still to do hold different videos, none of them
known. All of it survives the steps of others because nothing is ever taken back of
`made`, `home`, `copies` and `mirror` (`Evolves`, `Forward`): invalidation drops rows,
never mirrors. There is one lemma for each kind of step and one for each action. That
the first occurrence of a video exists (`EveryTrack`) is well-foundedness of `<`. For
`CreationsBounded` each thread has a number of creations left, by its `pc` and pass, and
*made + left, over all threads <= allowed* is inductive (`CreationInv`), with
`Tally!Total` again: a new restore brings its allowance along, a lost answer pays with a
fault. `AnswersAreMapped` needs `Alone` (at most one thread, so no two restores overlap):
the row a thread has found, or filled in, is then still there when it answers
(`MapInv`). With two, the other may invalidate it or map the category anew in between,
as the code allows.

**The playlists.** `PlaylistsProofs` builds on that invariant. Every step of a thread is one
of ten kinds (`Moves`): it gives its playlist up, has found one, makes one, is about to store
it, stores it, reads what is in it, passes a track over, adds one, flushes, fills the
fallback's. A playlist is *open* while it is not made yet, a row names it, or the thread
that made it is about to store it. `HoldInv` says that a playlist about to be stored is
named by no row and known to no other thread, that the fallback's is closed, and that
nothing is in a playlist not yet made. From it, no step opens what is closed (`Closes`),
and each kind maps to one action of `FindOrCreate` or changes nothing of it; all rows dropped by
one 404 are one `Leave`. `NeverFoundAgain` is then a theorem about `FindOrCreate` alone.

`CopiesBounded` counts: for each playlist and video, what was inserted and what each thread
may still send without a fault (`MaySend`) is together at most *repeats * (threads +
faults)* (`CopiesInv`). While the playlist is open and the video not in its mirror, any
thread may yet find it and send the video as often as its queue names it; but one that
has sent it and not flushed it has only the rest of its queue. Once the video is in the
mirror, or the playlist closed, only threads that hold it, and have not looked since,
still send. So each step that inserts uses up what was foreseen, and a lost answer or a lost
flush is paid for by its fault. That `Repeats` is a maximum at all needs queues of
bounded length.

**Accounts.** Requests act on what they found out several steps earlier, so `IInv` of
`AccountsProofs` says, for each `pc`, what a thread may rely on (`Fit`): the account it
signs in to belongs to its identity or is gone, the snapshot it is about to remove is
its account's or is gone. What makes this survive the steps of others is `Evolves`: ids
are given out in order and never again, rows never change owner, tokens never change;
things only disappear. `Sessions` adds that tokens name accounts of who signed in, and
that a logged-out one is listed until it has expired, which is all pruning relies on.
The last two theorems are about steps and follow from the invariant and from which
action can make such a step.

**The credential.** `IInv` of `CredentialsProofs` adds to `RefreshExclusive` and
`MissingIsFlagged` that what a thread carries was given out and, where it is about to be
stored, is a grant (`Carries`). Every action changes one thread and at most one of lock
and row; `Moved` and `RowWritten` say what each kind of change needs. `WipesOnlyRejected`
needs more: a thread about to wipe with a token it has refreshed found its grant dead
(`FreshWipe`), and dead grants stay dead.

`DeletedIsRevoked` follows from what a thread between the revocation and the deletion
knows: the grant it loaded is dead, or aged, or a fault was spent on it.

**The vault.** `IInv` of `ServiceProofs` says of the record that it is empty, Fernet, v2,
or sealed with an id and key in `used`; of a process that its active key is in `used` and
its other keys are the readable entries of its environment; and of a thread at each
`pc` what the record is good for (`Fit`). `KeptKeysOpen` is then a fact about `Finds`,
where unreadable entries are gaps in a list, so that no induction over it is needed.

**The schema.** `BootInv` says of an undisturbed startup that nothing found is lost,
nothing is there but what was found and what was executed, and all that was passed is
there. Of the statements, tables come first, then columns, then indexes; a column
is refused by PostgreSQL only where it is there, and if the columns there are those of
the first scripts no column was added before a refused one, so its rollback takes
nothing that was wanted. The statements being what they are, the facts about them
(`TheStatements`, `TheOrder`) are computed. Requests leave the schema alone, which
carries all of it over to `Service`.

**Model-checked only**: liveness (`RestoresEnd`, `RequestsEnd`, `StartupEnds`), which needs
`ENABLED`. `RestoresWindDown` is the part of `RestoresEnd` that is about steps, and proved; what TLC
adds is that a thread which is not idle can always take one. Every invariant, action
property and refinement of the passing runs is proved. Induction over data is
out of reach of the provers used: `UpgradesInOrder` is proved of the scripts there are,
not of every list of scripts.

## 5. What is not modelled

- *Request pipeline*: sequential tests on one request. Rate limits are counters of a
  library; refused requests change nothing.
- *Audit log, alerts*: nothing reads them.
- *Tests*: read for intent. *Configuration*: constants of the modules.
- *The connection pool*: `maybe_alert` opens a new transaction after each charge, so
  a restore holds one of 30 connections through its HTTP calls.
- In `Restore`: rows without `verified_at`, which only an earlier release can have left
  (they count as expired); which batch of a validation fails (all of it then counts for
  nothing, and `Quota` has the batches).
- In `Quota`: `estimate_restore_units`, which nothing compares with anything.
- A track taken out of a playlist by hand stays in the mirror, and no restore puts it
  back (`ytm_service.py:427`). No document says what the mirror means then, so no
  property does; `TakeOut` in `Restore` exercises it for the others.
- In `Restore`: `ytm._tracked_methods` and other reporting; order within a playlist.
- In `Accounts`: the item mirror, modelled in `Restore`; the signature of a token.
- In `Service`: tokens of other accounts, whose records no step shares; a `FERNET_KEY`
  that changes; what is inside a record (`Credentials` has that).
- In `Migrations`: two processes at once over one schema (`Procfile` starts one, and a
  run of `python -m migrations` beside it is left out); types and defaults of columns.
- In `Credentials`: the many calls of one restore are one (`call`); time may pass and
  grants may die before it.

## 6. Where code and documents differ

Found by a run:

| Run | Property | The document | The code |
|---|---|---|---|
| `QuotaDoubleGrant` | `NoDoubleGrant` | `quota.py:9-11`, no read-modify-write window | two threads pass the check for the same units |
| `QuotaStaleDay` | `CapHoldsAcrossMidnight` | `docs/quota-optimization.md:84`, the cap is never crossed | after midnight checks read yesterday's row |
| `RestoreStale` | `VerifiedWithinTTL` | `docs/quota-optimization.md:53`, re-verified after the window | each reuse renews the window |
| `MigrationsStuck` | `UpgradedInPlace` | `migrations.py:6-12`, idempotent, upgraded in place | on PostgreSQL a column that is there fails its statement, and the rollback takes the columns before it |
| `CredentialsWaiter` | `WaitersAreServed` | `auth.py:341-345`, wait, then re-read the token | the waiter goes on with the expired one and loses the credential |

Met while reading, with no run of their own:

- `docs/architecture.md:55`: units are reserved before each attempt "so retries
  cannot overspend"; a repeated attempt is charged but not checked.
- `docs/architecture.md:56`: the mirror "makes retries idempotent". An insert whose
  answer is lost is sent again though it may have taken effect: the `faults` that
  `CopiesBounded` of `Restore` has to allow for.
- `docs/quota-optimization.md:68`: the mirror sync is not budgeted.
- `docs/quota-optimization.md:57`: the mirror is not updated after each insert but
  in batches of 25.
- `docs/architecture.md:57`: inserts are sequential within one restore; two restores
  of a category insert side by side.
- `docs/architecture.md:31`: deletion cascades to the item mirror. There is no foreign
  key: rows of a playlist whose mapping was invalidated stay, and so do all if the
  first commit is rolled back because the token was already revoked.
- `docs/architecture.md:67`: logout answers 204 even if the commit of the jti fails.
- `quota.py:8`: units are "never refunded", but deleting the account removes its rows,
  and with them its share of the day's total.
- `quota.py:357`: the estimate leaves out retries and the second pass.
- `auth.py:331-332`: N restores trigger "exactly one token refresh"; the new token is
  stored nowhere, so that each later restore refreshes again.
- `main.py:488-492`: the lazy re-encryption writes back the tokens the request
  loaded, over a sign-in that came in between.
- `config.py`: revoked tokens are "pruned automatically"; nothing calls
  `prune_revoked_tokens`. `Prune` in `Accounts` shows that it would be harmless.
- `main.py:283-289`: of two first sign-ins of one identity one is answered 500.
- `needs_reconnect` may stay set beside a good credential: a sign-in that loaded it
  before a wipe does not write the column.
- `ytm_service.py:854-869`: one 404 drops the mappings of all categories.
- `docs/security-hardening.md:39`: revocation comes before the deletion, "so the grant
  is removed on Google's side too"; `DeletedIsRevoked` has the three exceptions.
- `migrations.py:176-177`, `main.py:40-41`: a failed migration is harmless since columns
  are optional. The ORM names every column in each SELECT, so a missing one fails
  every request that reads the table (`Serves`).
- `migrations.py:191`: `rollback_last` undoes every script, not the last; on SQLite its
  `DROP COLUMN IF EXISTS` is a syntax error.
- `docs/architecture.md:82`: each migration is applied once; all are, at each start.
- `crypto.py:22`: v2 is "still readable", with the active key: not after a rotation.
  The test's v2 record (`tests/test_quota_and_security.py:351-353`) has two fields where
  `decrypt_tokens` wants three, and is only asked whether it is to be sealed again.
- `README.md:119`: the command shown writes URL-safe base64; the standard decoder drops
  `-` and `_`, the key comes out too short, and the process does not start.
- `README.md:131`: an entry of `KMS_MASTER_KEY_PREVIOUS` needs `<id>:`, one without is
  skipped without a word.
- SQLite in development gives ids out again; `NewIdReused` shows what then follows.

## 7. The plan

Done: `Quota` first, as the budget is what the service lives by; `Restore`, which
spends it; `Accounts` and `Credentials`, whose steps overlap with restores; `Vault`,
`Migrations` and `Service`, for what lasts from one process to the next; `Budget`, and
`Quota` shown to implement it; `FindOrCreate`, implemented by `Restore`; the proofs of all
invariants, of all properties of steps and of both refinements.

Next, in this order:

1. `Connections`: pool of 30 against 40 threads, what restores hold and others need.
2. The purge of an account (`Accounts`) against a restore that maps playlists (`Restore`)
   in one module, with the mirror rows that no foreign key removes.

## 8. Running it

```
tlc -workers 2 -config QuotaRace.cfg MCQuota.tla
tlapm QuotaProofs.tla
```

Each configuration runs with the `MC` module of its name's prefix and takes from a
second to about three minutes (`RestoreRace`, 2.9 million states and a refinement;
`QuotaLifetime` and `CredentialsRace`, whose liveness is the longer half). The five runs of
section 6 end in a counterexample.
