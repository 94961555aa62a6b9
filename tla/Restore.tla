------------------------------ MODULE Restore ------------------------------
(***************************************************************************)
(* Restores of one account (ytm_service.py): the mapping from categories   *)
(* to YouTube playlists (user_playlists), the local mirror of what is in   *)
(* them (playlist_items_cache), and the playlists themselves.              *)
(*                                                                         *)
(* Every SELECT, every commit and every answer of Google is a step of a    *)
(* thread of its own; between two of them other restores of the account    *)
(* run, the user edits playlists by hand, and the process may be killed.   *)
(*                                                                         *)
(* What is abstracted: whether the budget lets a call through is a choice  *)
(* here; module Quota models it.                                           *)
(***************************************************************************)
EXTENDS Integers, FiniteSets, SequencesExt

CONSTANTS
  Workers,       \* threads that serve restores
  Categories,    \* categories of the account's snapshots
  Videos,        \* video ids
  Queues,        \* tracks of the account's snapshots, as sequences of video ids
  MaxTracks,     \* MAX_TRACKS_PER_SNAPSHOT
  Missing,       \* videos YouTube does not have (removed, private)
  None,          \* no category
  MaxPlaylists,  \* bound: playlists created in a behaviour
  MaxRestores,   \* bound: restores accepted
  MaxFaults,     \* bound: failed commits, killed threads, lost and refused calls
  MaxEdits,      \* bound: edits the user makes by hand
  MaxTime,       \* bound: the clock
  VerifyTTL,     \* PLAYLIST_VERIFY_TTL_SECONDS, in ticks; with 0 every reuse is verified
  FlushBatch,    \* CACHE_FLUSH_BATCH_SIZE
  PageSize,      \* items on a page of playlistItems.list
  MaxPages,      \* PLAYLIST_SYNC_MAX_PAGES
  MaxRetries,    \* YTM_MAX_RETRIES
  Validate,      \* FLAG_VALIDATE_VIDEO_IDS
  Dedupe,        \* FLAG_DEDUPE_WITHIN_SNAPSHOT
  Fallback       \* FLAG_ALLOW_YTMUSICAPI_FALLBACK, with a full token set

ASSUME ParametersAssumption ==
  /\ IsFiniteSet(Workers)
  /\ Queues \subseteq Seq(Videos) /\ Missing \subseteq Videos /\ None \notin Categories
  /\ MaxPlaylists \in Nat /\ MaxRestores \in Nat /\ MaxFaults \in Nat /\ MaxEdits \in Nat
  /\ MaxTime \in Nat /\ VerifyTTL \in Nat /\ FlushBatch \in Nat \ {0}
  /\ PageSize \in Nat \ {0} /\ MaxPages \in Nat /\ MaxRetries \in Nat
  /\ Validate \in BOOLEAN /\ Dedupe \in BOOLEAN /\ Fallback \in BOOLEAN

ASSUME SnapshotsAssumption ==
  Queues # {} /\ MaxTracks \in Nat /\ \A q \in Queues : Len(q) <= MaxTracks

VARIABLES
  rows,      \* rows[c]: the user_playlists row of category c, or NoRow
  mirror,    \* mirror[p]: the video ids of playlist_items_cache
  live,      \* playlists that exist on YouTube
  listed,    \* listed[p]: videos in playlist p
  made,      \* playlists created so far; their ids are 1 .. made
  home,      \* history: home[p], the category p was created for
  copies,    \* history: copies[p][v], insertions of v into p that took effect
  confirmed, \* history: confirmed[p], when p was last known to exist
  job,       \* job[w]: what thread w is doing
  now, restores, faults, edits

vars == <<rows, mirror, live, listed, made, home, copies, confirmed, job,
          now, restores, faults, edits>>
youtube == <<live, listed, made, home, copies>>
world   == <<now, restores, edits>>

Playlists == 1 .. MaxPlaylists
Times     == 0 .. MaxTime
MAX_PLAYLIST_RESOLUTION_ATTEMPTS == 2

\* A row keeps its primary key when its playlist is replaced; the key stands for the
\* playlist the row was inserted with.
NoRow == [id |-> 0, playlist |-> 0, verified |-> 0]
Row   == [id : 0 .. MaxPlaylists, playlist : 0 .. MaxPlaylists, verified : Times]

(* A restore.  pc is the next thing it does:                                 *)
(*   find        SELECT the cached row                                       *)
(*   verify      playlists.list of an expired one                            *)
(*   forget      DELETE the row of a playlist that is gone                   *)
(*   touch       commit verified_at of a reused row                          *)
(*   create      playlists.insert                                            *)
(*   own, store  SELECT and commit of the new playlist's row                 *)
(*   load, sync  read the mirror; a page of playlistItems.list               *)
(*   insert      playlistItems.insert of the first pending track             *)
(*   flush       commit the inserted tracks to the mirror                    *)
(*   invalidate  DELETE the mapping after a 404                              *)
(*   fallback, fill   create_playlist, add_playlist_items of ytmusicapi      *)
(*   done        answered 200, by the Data API                               *)
(*   copied      answered 200, by the fallback                               *)
PCs == {"idle", "find", "verify", "forget", "touch", "create", "own", "store", "load",
        "sync", "insert", "flush", "invalidate", "fallback", "fill", "done",
        "copied"}

Job == [pc : PCs, cat : Categories \cup {None}, queue : Seq(Videos),
        pass   : 0 .. MAX_PLAYLIST_RESOLUTION_ATTEMPTS,
        rid    : 0 .. MaxPlaylists,   \* key of the row it holds, 0 if none
        plist  : 0 .. MaxPlaylists,   \* playlist_id, 0 if none
        new    : BOOLEAN,             \* created_now
        left   : Nat,                 \* attempts the current call still has
        pages  : Nat,                 \* pages of the sync so far
        known  : SUBSET Videos,       \* the set `mirror` of _restore_pass
        todo   : SUBSET Nat,          \* rest of `pending`, as positions of the queue
        count  : Nat,                 \* index + 1, modulo the batch
        dirty  : SUBSET Videos,
        failed : SUBSET Videos]

Idle == [pc |-> "idle", cat |-> None, queue |-> <<>>, pass |-> 0, rid |-> 0, plist |-> 0,
         new |-> FALSE, left |-> 0, pages |-> 0, known |-> {}, todo |-> {},
         count |-> 0, dirty |-> {}, failed |-> {}]

Init ==
  /\ rows = [c \in Categories |-> NoRow]
  /\ mirror = [p \in Playlists |-> {}]
  /\ live = {} /\ made = 0
  /\ listed = [p \in Playlists |-> {}]
  /\ home = [p \in Playlists |-> None]
  /\ copies = [p \in Playlists |-> [v \in Videos |-> 0]]
  /\ confirmed = [p \in Playlists |-> 0]
  /\ job = [w \in Workers |-> Idle]
  /\ now = 0 /\ restores = 0 /\ faults = 0 /\ edits = 0

-----------------------------------------------------------------------------
(* Where a restore goes next.                                                *)

\* Mutant: the flag is not looked at.
OrderedVideoIdsRaw(q) == DOMAIN q

\* ordered_video_ids, as positions: repeated ids are kept unless the flag is on.
OrderedVideoIds(q) == {i \in DOMAIN q : Dedupe => \A j \in DOMAIN q : j < i => q[j] # q[i]}

\* Of an answered restore only the answer and what the log says remain.
Done(r) == [Idle EXCEPT !.pc = "done", !.cat = r.cat, !.queue = r.queue,
                        !.plist = r.plist, !.failed = r.failed]

\* Raised: a quota refusal or a dead credential ends the restore ...
Refused == Idle

\* ... anything else may reach the ytmusicapi fallback.
Broken(r) == {Idle} \cup (IF Fallback THEN {[Idle EXCEPT !.pc = "fallback", !.cat = r.cat,
                                                         !.queue = r.queue]}
                                      ELSE {})

\* _create_playlist, let through or refused by the tracker.
Creating(r) ==
  {Refused, [r EXCEPT !.pc = "create", !.rid = 0, !.plist = 0, !.left = 1 + MaxRetries]}

\* Mutant: the last batch is never written.
WrapUpDropping(r) == Done(r)

\* The insert loop is left; what is not yet in the mirror is flushed.
WrapUp(r) == IF r.dirty = {} THEN Done(r) ELSE [r EXCEPT !.pc = "flush"]

\* The videos at some positions of the queue.
Tracks(r, S) == {r.queue[i] : i \in S}

\* The next pending track: inserted, or skipped with all the rest for lack of budget.
NextTrack(r) ==
  IF r.todo = {} THEN {WrapUp(r)}
  ELSE {[r EXCEPT !.pc = "insert", !.left = 2],
        WrapUp([r EXCEPT !.failed = @ \cup Tracks(r, r.todo), !.todo = {}])}

\* The track at i is dealt with, and every FlushBatch tracks the mirror is flushed.
Advance(r, i) ==
  LET n == (r.count + 1) % FlushBatch
      s == [r EXCEPT !.todo = @ \ {i}, !.count = n]
  IN  IF n = 0 /\ s.dirty # {} THEN {[s EXCEPT !.pc = "flush"]} ELSE NextTrack(s)

\* Mutant: tracks are not compared with the mirror.
PendingAll(r) == OrderedVideoIds(r.queue)

\* pending: the queue without what the mirror has.
Pending(r) == {i \in OrderedVideoIds(r.queue) : r.queue[i] \notin r.known}

\* Planning a pass; validation, if it is on, affordable and answered, drops the
\* videos YouTube does not have.
Planned(r) ==
  IF Pending(r) = {} THEN {Done(r)}
  ELSE UNION {NextTrack([r EXCEPT !.todo = S]) :
                S \in {Pending(r)} \cup
                      (IF Validate
                         THEN {{i \in Pending(r) : r.queue[i] \notin Missing}}
                         ELSE {})}

Goes(w, r) == job' = [job EXCEPT ![w] = r]
At(w, pc)  == job[w].pc = pc
Fault      == faults < MaxFaults /\ faults' = faults + 1

-----------------------------------------------------------------------------
(* Finding the playlist (_resolve_playlist).                                 *)

Start(w, c, q) ==
  /\ job[w].pc \in {"idle", "done", "copied"}
  /\ restores < MaxRestores
  /\ restores' = restores + 1
  /\ Goes(w, [Idle EXCEPT !.pc = "find", !.cat = c, !.queue = q, !.pass = 1])
  /\ UNCHANGED <<youtube, rows, mirror, confirmed, now, faults, edits>>

\* _verification_expired.  A row without verified_at is expired too; the code writes
\* no such row.
Expired(row) == VerifyTTL <= 0 \/ now - row.verified > VerifyTTL

\* Mutant: any row of the user will do.
CachedRowAny(c) ==
  IF \E d \in Categories : rows[d] # NoRow
    THEN rows[CHOOSE d \in Categories : rows[d] # NoRow] ELSE NoRow

\* Mutant: the query leaves expired rows out.
CachedRowFresh(c) == IF Expired(rows[c]) THEN NoRow ELSE rows[c]

\* _cached_playlist_row
CachedRow(c) == rows[c]

Find(w) ==
  LET r == job[w]
      row == CachedRow(r.cat)
      held == [r EXCEPT !.rid = row.id, !.plist = row.playlist]
  IN  /\ At(w, "find")
      /\ \E s \in IF row = NoRow THEN Creating(r)
                  ELSE IF Expired(row) THEN {Refused, [held EXCEPT !.pc = "verify"]}
                  ELSE {[held EXCEPT !.pc = "touch"]} : Goes(w, s)
      /\ UNCHANGED <<youtube, rows, mirror, confirmed, world, faults>>

\* _verify_playlist_still_exists: whatever is not a clear "gone" counts as existing.
Verify(w) ==
  LET r == job[w] IN
  /\ At(w, "verify")
  /\ \/ /\ r.plist \in live
        /\ Goes(w, [r EXCEPT !.pc = "touch"])
        /\ confirmed' = [confirmed EXCEPT ![r.plist] = now]
     \/ /\ r.plist \notin live
        /\ Goes(w, [r EXCEPT !.pc = "forget"])
        /\ UNCHANGED confirmed
     \/ /\ Goes(w, Refused)
        /\ UNCHANGED confirmed
  /\ UNCHANGED <<youtube, rows, mirror, world, faults>>

VerifyFails(w) ==
  /\ At(w, "verify")
  /\ Fault
  /\ Goes(w, [job[w] EXCEPT !.pc = "touch"])
  /\ UNCHANGED <<youtube, rows, mirror, confirmed, world>>

\* The row it holds is still there.
Holds(r) == CachedRow(r.cat).id = r.rid

\* The row is read once more, for the log: if another restore has deleted it since,
\* that raises, unless it happens only before the row is deleted here, which does not.
Forget(w) ==
  LET r == job[w] IN
  /\ At(w, "forget")
  /\ rows' = IF Holds(r) THEN [rows EXCEPT ![r.cat] = NoRow] ELSE rows
  /\ \E s \in Creating(r) \cup (IF Holds(r) THEN {} ELSE Broken(r)) : Goes(w, s)
  /\ UNCHANGED <<youtube, mirror, confirmed, world, faults>>

\* The row stays; creation will find it again and give it the new playlist.
ForgetFails(w) ==
  /\ At(w, "forget")
  /\ Fault
  /\ \E s \in Creating(job[w]) : Goes(w, s)
  /\ UNCHANGED <<youtube, rows, mirror, confirmed, world>>

Loading(r) == [r EXCEPT !.pc = "load"]

\* Mutant: a row that is gone is written again (merged, not updated).
TouchMerges(w) ==
  LET r == job[w]
      row == IF Holds(r) THEN CachedRow(r.cat) ELSE [id |-> r.rid, playlist |-> r.plist, verified |-> now]
  IN
  /\ At(w, "touch")
  /\ rows' = [rows EXCEPT ![r.cat] = [row EXCEPT !.verified = now]]
  /\ Goes(w, Loading([r EXCEPT !.plist = row.playlist]))
  /\ UNCHANGED <<youtube, mirror, confirmed, world, faults>>

\* verified_at of a reused row is bumped whether or not it was verified.  The row is
\* read back after the commit: another restore may have replaced its playlist, or
\* deleted it, which raises.
Touch(w) ==
  LET r == job[w] IN
  /\ At(w, "touch")
  /\ IF Holds(r)
       THEN /\ rows' = [rows EXCEPT ![r.cat].verified = now]
            /\ Goes(w, Loading([r EXCEPT !.plist = CachedRow(r.cat).playlist]))
       ELSE /\ UNCHANGED rows
            /\ \E s \in Broken(r) : Goes(w, s)
  /\ UNCHANGED <<youtube, mirror, confirmed, world, faults>>

TouchFails(w) ==
  LET r == job[w] IN
  /\ At(w, "touch")
  /\ Holds(r)
  /\ Fault
  /\ Goes(w, Loading([r EXCEPT !.plist = CachedRow(r.cat).playlist]))
  /\ UNCHANGED <<youtube, rows, mirror, confirmed, world>>

-----------------------------------------------------------------------------
(* Creating one (_create_playlist).                                          *)

\* YouTube makes playlist `made + 1` for category c.
Made(c) ==
  /\ made < MaxPlaylists
  /\ made' = made + 1
  /\ live' = live \cup {made + 1}
  /\ home' = [home EXCEPT ![made + 1] = c]
  /\ confirmed' = [confirmed EXCEPT ![made + 1] = now]

Create(w) ==
  LET r == job[w] IN
  /\ At(w, "create")
  /\ Made(r.cat)
  /\ Goes(w, [r EXCEPT !.pc = "own", !.plist = made + 1, !.new = TRUE])
  /\ UNCHANGED <<listed, copies, rows, mirror, world, faults>>

\* The request is refused, or fails for good, with nothing created.
CreateFails(w) ==
  /\ At(w, "create")
  /\ \E s \in {Refused} \cup Broken(job[w]) : Goes(w, s)
  /\ UNCHANGED <<youtube, rows, mirror, confirmed, world, faults>>

\* 409 or 5xx, with nothing created: repeated.
CreateRetried(w) ==
  LET r == job[w] IN
  /\ At(w, "create")
  /\ r.left > 1
  /\ Goes(w, [r EXCEPT !.left = @ - 1])
  /\ UNCHANGED <<youtube, rows, mirror, confirmed, world, faults>>

\* 5xx or no answer, although the playlist was created: repeated as well.
CreateLost(w) ==
  LET r == job[w] IN
  /\ At(w, "create")
  /\ Fault
  /\ Made(r.cat)
  /\ \E s \in IF r.left > 1 THEN {[r EXCEPT !.left = @ - 1]} ELSE Broken(r) : Goes(w, s)
  /\ UNCHANGED <<listed, copies, rows, mirror, world>>

Own(w) ==
  /\ At(w, "own")
  /\ Goes(w, [job[w] EXCEPT !.pc = "store", !.rid = CachedRow(job[w].cat).id])
  /\ UNCHANGED <<youtube, rows, mirror, confirmed, world, faults>>

\* Insert or update the row.  A row inserted meanwhile by another restore is an
\* IntegrityError, which is swallowed; a row deleted meanwhile raises.
Store(w) ==
  LET r == job[w]
      c == r.cat
      p == r.plist
  IN
  /\ At(w, "store")
  /\ CASE r.rid = 0 /\ rows[c] = NoRow ->
            /\ rows' = [rows EXCEPT ![c] = [id |-> p, playlist |-> p, verified |-> now]]
            /\ Goes(w, Loading(r))
       [] r.rid = 0 /\ rows[c] # NoRow ->
            /\ UNCHANGED rows
            /\ Goes(w, Loading(r))
       [] r.rid # 0 /\ Holds(r) ->
            /\ rows' = [rows EXCEPT ![c].playlist = p, ![c].verified = now]
            /\ Goes(w, Loading(r))
       [] OTHER ->
            /\ UNCHANGED rows
            /\ \E s \in Broken(r) : Goes(w, s)
  /\ UNCHANGED <<youtube, mirror, confirmed, world, faults>>

StoreFails(w) ==
  /\ At(w, "store")
  /\ Fault
  /\ \E s \in Broken(job[w]) : Goes(w, s)
  /\ UNCHANGED <<youtube, rows, mirror, confirmed, world>>

-----------------------------------------------------------------------------
(* Filling it (_restore_pass).                                               *)

\* _load_mirror; only a reused playlist with an empty mirror is synced.
Load(w) ==
  LET r == [job[w] EXCEPT !.known = mirror[job[w].plist]] IN
  /\ At(w, "load")
  /\ \E s \in IF r.known = {} /\ ~r.new /\ MaxPages > 0 THEN {[r EXCEPT !.pc = "sync"]}
              ELSE Planned(r) : Goes(w, s)
  /\ UNCHANGED <<youtube, rows, mirror, confirmed, world, faults>>

\* The video ids of the next page that are not known yet.
Page(r) == {D \in SUBSET (listed[r.plist] \ r.known) :
              \/ Cardinality(D) = PageSize
              \/ D = listed[r.plist] \ r.known /\ Cardinality(D) < PageSize}

\* A page of _sync_mirror with the flush that follows it.
Sync(w) ==
  LET r == job[w]
      p == r.plist
  IN
  /\ At(w, "sync")
  /\ p \in live
  /\ \E D \in Page(r) :
       LET s == [r EXCEPT !.known = @ \cup D, !.pages = @ + 1] IN
       /\ \E t \in IF listed[p] \subseteq s.known \/ s.pages >= MaxPages THEN Planned(s) ELSE {s} :
            Goes(w, t)
       /\ \/ /\ mirror' = IF D = {} THEN mirror ELSE [mirror EXCEPT ![p] = @ \cup s.known]
             /\ UNCHANGED faults
          \/ /\ Fault
             /\ UNCHANGED mirror
  /\ UNCHANGED <<youtube, rows, confirmed, world>>

\* A page that fails ends the sync; a dead credential or quota ends the restore.
SyncFails(w) ==
  /\ At(w, "sync")
  /\ \E s \in {Refused} \cup Planned(job[w]) : Goes(w, s)
  /\ UNCHANGED <<youtube, rows, mirror, confirmed, world, faults>>

\* Thread w is about to send the track at position i, the first of those to do.
Sending(w, i) ==
  At(w, "insert") /\ i \in job[w].todo /\ \A j \in job[w].todo : i <= j

\* One more copy of v in playlist p.
Added(p, v) ==
  /\ copies' = [copies EXCEPT ![p][v] = @ + 1]
  /\ listed' = [listed EXCEPT ![p] = @ \cup {v}]
  /\ UNCHANGED <<live, made, home>>

\* Mutant: a track counts as mirrored whether or not it was inserted.
InsertFailsMirrored(w, i) ==
  LET r == job[w] IN
  /\ Sending(w, i)
  /\ \E s \in Advance([r EXCEPT !.dirty = @ \cup {r.queue[i]}], i) : Goes(w, s)
  /\ UNCHANGED <<youtube, rows, mirror, confirmed, world, faults>>

Insert(w, i) ==
  LET r == job[w]
      v == r.queue[i]
  IN
  /\ Sending(w, i)
  /\ r.plist \in live /\ v \notin Missing
  /\ Added(r.plist, v)
  /\ \E s \in Advance([r EXCEPT !.known = @ \cup {v}, !.dirty = @ \cup {v}], i) : Goes(w, s)
  /\ UNCHANGED <<rows, mirror, confirmed, world, faults>>

\* Mutant: a track that could not be inserted is not reported.
InsertFailsSilently(w, i) ==
  /\ Sending(w, i)
  /\ \E s \in Advance(job[w], i) : Goes(w, s)
  /\ UNCHANGED <<youtube, rows, mirror, confirmed, world, faults>>

\* A definite error, or the last attempt of a transient one: the track is reported.
InsertFails(w, i) ==
  LET r == job[w] IN
  /\ Sending(w, i)
  /\ \E s \in Advance([r EXCEPT !.failed = @ \cup {r.queue[i]}], i) : Goes(w, s)
  /\ UNCHANGED <<youtube, rows, mirror, confirmed, world, faults>>

\* 409 or 5xx, with nothing inserted: repeated once.
InsertRetried(w) ==
  LET r == job[w] IN
  /\ At(w, "insert")
  /\ r.left > 1
  /\ Goes(w, [r EXCEPT !.left = @ - 1])
  /\ UNCHANGED <<youtube, rows, mirror, confirmed, world, faults>>

\* 5xx or no answer, although the track was inserted: repeated once, then reported.
InsertLost(w, i) ==
  LET r == job[w]
      v == r.queue[i]
  IN
  /\ Sending(w, i)
  /\ Fault
  /\ r.plist \in live /\ v \notin Missing
  /\ Added(r.plist, v)
  /\ \E s \in IF r.left > 1 THEN {[r EXCEPT !.left = @ - 1]}
              ELSE Advance([r EXCEPT !.failed = @ \cup {v}], i) : Goes(w, s)
  /\ UNCHANGED <<rows, mirror, confirmed, world>>

\* 404: the playlist is gone, or the video; what is dirty is forgotten.
InsertNotFound(w, i) ==
  LET r == job[w] IN
  /\ Sending(w, i)
  /\ r.plist \notin live \/ r.queue[i] \in Missing
  /\ Goes(w, [r EXCEPT !.pc = "invalidate"])
  /\ UNCHANGED <<youtube, rows, mirror, confirmed, world, faults>>

\* 401, 403 quotaExceeded or 429: likewise, and the restore is over.
InsertRefused(w) ==
  /\ At(w, "insert")
  /\ Fault
  /\ Goes(w, Refused)
  /\ UNCHANGED <<youtube, rows, mirror, confirmed, world>>

\* _flush_mirror (ON CONFLICT DO NOTHING); a commit that fails is only logged.
Flush(w) ==
  LET r == job[w] IN
  /\ At(w, "flush")
  /\ \E s \in NextTrack([r EXCEPT !.dirty = {}]) : Goes(w, s)
  /\ \/ /\ mirror' = [mirror EXCEPT ![r.plist] = @ \cup r.dirty]
        /\ UNCHANGED faults
     \/ /\ Fault
        /\ UNCHANGED mirror
  /\ UNCHANGED <<youtube, rows, confirmed, world>>

\* Mutant: one pass too many.
NextPassAgain(r) ==
  IF r.pass <= MAX_PLAYLIST_RESOLUTION_ATTEMPTS
    THEN {[Idle EXCEPT !.pc = "find", !.cat = r.cat, !.queue = r.queue, !.pass = r.pass + 1]}
    ELSE Broken(r)

\* The second pass starts from nothing.
NextPass(r) ==
  IF r.pass < MAX_PLAYLIST_RESOLUTION_ATTEMPTS
    THEN {[Idle EXCEPT !.pc = "find", !.cat = r.cat, !.queue = r.queue, !.pass = r.pass + 1]}
    ELSE Broken(r)

\* _invalidate_playlist_cache: every mapping of the user goes, on the last pass too.
Invalidate(w) ==
  /\ At(w, "invalidate")
  /\ rows' = [c \in Categories |-> NoRow]
  /\ \E s \in NextPass(job[w]) : Goes(w, s)
  /\ UNCHANGED <<youtube, mirror, confirmed, world, faults>>

InvalidateFails(w) ==
  /\ At(w, "invalidate")
  /\ Fault
  /\ \E s \in NextPass(job[w]) : Goes(w, s)
  /\ UNCHANGED <<youtube, rows, mirror, confirmed, world>>

-----------------------------------------------------------------------------
(* The ytmusicapi fallback: a playlist of its own, mapped and mirrored by    *)
(* nothing.                                                                  *)

FallbackCreate(w) ==
  LET r == job[w] IN
  /\ At(w, "fallback")
  /\ \/ /\ Made(r.cat)
        /\ Goes(w, [r EXCEPT !.pc = "fill", !.plist = made + 1])
     \/ /\ Goes(w, Idle)
        /\ UNCHANGED <<made, live, home, confirmed>>
  /\ UNCHANGED <<listed, copies, rows, mirror, world, faults>>

FallbackFill(w) ==
  LET r == job[w]
      q == ToSet(r.queue) \ Missing
  IN
  /\ At(w, "fill")
  /\ \/ /\ r.plist \in live
        /\ listed' = [listed EXCEPT ![r.plist] = @ \cup q]
        /\ copies' = [copies EXCEPT ![r.plist] =
                        [v \in Videos |-> @[v] + IF v \in q THEN 1 ELSE 0]]
        /\ Goes(w, [Done(r) EXCEPT !.pc = "copied"])
     \/ /\ Goes(w, Idle)
        /\ UNCHANGED <<listed, copies>>
  /\ UNCHANGED <<live, made, home, rows, mirror, confirmed, world, faults>>

Step(w) ==
  \/ Find(w) \/ Verify(w) \/ VerifyFails(w) \/ Forget(w) \/ ForgetFails(w)
  \/ Touch(w) \/ TouchFails(w)
  \/ Create(w) \/ CreateFails(w) \/ CreateRetried(w) \/ CreateLost(w)
  \/ Own(w) \/ Store(w) \/ StoreFails(w)
  \/ Load(w) \/ Sync(w) \/ SyncFails(w)
  \/ \E i \in job[w].todo :
       Insert(w, i) \/ InsertFails(w, i) \/ InsertLost(w, i) \/ InsertNotFound(w, i)
  \/ InsertRetried(w) \/ InsertRefused(w)
  \/ Flush(w) \/ Invalidate(w) \/ InvalidateFails(w)
  \/ FallbackCreate(w) \/ FallbackFill(w)

-----------------------------------------------------------------------------
(* The rest of the world.                                                    *)

\* The process is killed under the thread.
Die(w) ==
  /\ job[w].pc \notin {"idle", "done", "copied"}
  /\ Fault
  /\ Goes(w, Idle)
  /\ UNCHANGED <<youtube, rows, mirror, confirmed, world>>

\* The user deletes a playlist, or takes a track out of one.
DeletePlaylist(p) ==
  /\ p \in live
  /\ edits < MaxEdits
  /\ edits' = edits + 1
  /\ live' = live \ {p}
  /\ UNCHANGED <<listed, made, home, copies, rows, mirror, confirmed, job,
                 now, restores, faults>>

TakeOut(p, v) ==
  /\ p \in live /\ v \in listed[p]
  /\ edits < MaxEdits
  /\ edits' = edits + 1
  /\ listed' = [listed EXCEPT ![p] = @ \ {v}]
  /\ UNCHANGED <<live, made, home, copies, rows, mirror, confirmed, job,
                 now, restores, faults>>

Tick ==
  /\ now < MaxTime
  /\ now' = now + 1
  /\ UNCHANGED <<youtube, rows, mirror, confirmed, job, restores, faults, edits>>

Next ==
  \/ \E w \in Workers :
       Step(w) \/ Die(w) \/ \E c \in Categories, q \in Queues : Start(w, c, q)
  \/ \E p \in Playlists : DeletePlaylist(p) \/ \E v \in Videos : TakeOut(p, v)
  \/ Tick

Spec == Init /\ [][Next]_vars

-----------------------------------------------------------------------------
(* Type invariant: rows, playlists and the locals of one restore.              *)
TypeOK ==
  /\ rows \in [Categories -> Row]
  /\ mirror \in [Playlists -> SUBSET Videos]
  /\ made \in 0 .. MaxPlaylists /\ live \subseteq 1 .. made
  /\ listed \in [Playlists -> SUBSET Videos]
  /\ home \in [Playlists -> Categories \cup {None}]
  /\ copies \in [Playlists -> [Videos -> Nat]]
  /\ confirmed \in [Playlists -> Times]
  /\ job \in [Workers -> Job]
  /\ now \in Times /\ restores \in 0 .. MaxRestores
  /\ faults \in 0 .. MaxFaults /\ edits \in 0 .. MaxEdits

\* The mirror never claims a track that was not inserted: a track once in it is
\* skipped by every later restore, so a wrong entry would lose it for good
\* (_flush_mirror writes only what _insert_track or a page confirmed).
MirrorSound ==
  \A p \in Playlists : \A v \in mirror[p] : copies[p][v] > 0

\* A restore that answers 200 has dealt with every track of the queue: inserted it,
\* by itself or earlier, or reported it as failed; only validation drops a track
\* silently (_restore_pass, over both passes, batches, retries and budget breaks).
TracksAccounted ==
  \A w \in Workers : LET r == job[w] IN
    r.pc = "done" =>
      \A v \in ToSet(r.queue) : \/ v \in r.failed \/ copies[r.plist][v] > 0
                                \/ v \in Missing /\ Validate

\* What a restore inserted is in the mirror by the time it answers, so that the next
\* one skips it, unless a commit was lost ("continues where the first stopped").
DoneIsMirrored ==
  \A w \in Workers : LET r == job[w] IN
    (r.pc = "done" /\ faults = 0) =>
      ToSet(r.queue) \ (r.failed \cup Missing) \subseteq mirror[r.plist]

\* A category's row always names a playlist created for that category, and so does
\* the URL a restore answers with, however finds, deletions and stores of
\* concurrent restores interleave (unique (user, category) of user_playlists).
PlaylistsHome ==
  /\ \A c \in Categories : rows[c].id # 0 => home[rows[c].playlist] = c
  /\ \A w \in Workers : job[w].pc \in {"done", "copied"} => home[job[w].plist] = job[w].cat

\* Alone and undisturbed, a restore leaves the playlist it answers with mapped, with
\* a row the next restore of the category will reuse (find or create).
AnswerIsMapped ==
  \A w \in Workers : LET r == job[w] IN
    (r.pc = "done" /\ faults = 0) => rows[r.cat].playlist = r.plist

\* One restore creates at most one playlist per resolution, and one more if it falls
\* back; the rest are creations whose answer was lost ("aborting to avoid burning
\* quota").
CreationsBounded ==
  made <= (MAX_PLAYLIST_RESOLUTION_ATTEMPTS + IF Fallback THEN 1 ELSE 0) * restores + faults

\* The most often any queue names one video.
Repeats == Max({Cardinality({i \in DOMAIN q : q[i] = v}) : q \in Queues, v \in Videos})

\* A video is inserted into one playlist more often than a queue names it only by
\* restores that ran side by side, or once per lost commit, answer or thread: an
\* undisturbed sequence of restores never repeats an insertion.
CopiesBounded ==
  \A p \in Playlists, v \in Videos :
     copies[p][v] <= Repeats * (Cardinality(Workers) + faults)

\* With the deduplication flag on, no track is sent that this pass has already found
\* in the mirror or inserted (without it, a queue that repeats a video has it inserted
\* for each occurrence: `pending` is not compared with the mirror again).
BilledOnce ==
  \A w \in Workers : \A i \in job[w].todo :
     (Dedupe /\ Sending(w, i)) => job[w].queue[i] \notin job[w].known

-----------------------------------------------------------------------------
(* What restores do to playlists, seen from outside.                         *)

\* A row names it, ...
IsMapped(p) == \E c \in Categories : rows[c].playlist = p

\* ... or is about to, if nothing fails.
IsNew(p) == \E w \in Workers : job[w].pc \in {"own", "store"} /\ job[w].plist = p

\* What was ever inserted into p.
Had(p) == {v \in Videos : copies[p][v] > 0}

Inserted == [p \in Playlists |-> Had(p)]

Stage(p) ==
  CASE p > made                              -> "none"
    [] p <= made /\ IsNew(p)                 -> "new"
    [] p <= made /\ ~IsNew(p) /\ IsMapped(p) -> "mapped"
    [] OTHER                                 -> "left"

Life == INSTANCE FindOrCreate WITH
  stage <- [p \in Playlists |-> Stage(p)], had <- Inserted

\* However finds, deletions, stores and invalidations of concurrent restores interleave
\* and fail, a playlist is mapped at most once, as a new one of its category, and is
\* never found again after it was replaced or invalidated; and the mirror claims only
\* what was inserted.
ImplementsFindOrCreate == Life!Spec

-----------------------------------------------------------------------------
(* What the comments and docs say of a restore and the code does not do.       *)

\* docs/quota-optimization.md:53 "A cached playlist is reused at 0 units while it is
\* inside a verification window ... After the window it is re-verified".
VerifiedWithinTTL ==
  \A w \in Workers : LET r == job[w] IN
    (r.pc = "load" /\ faults = 0) => now - confirmed[r.plist] <= VerifyTTL

=============================================================================
