-------------------------- MODULE PlaylistsProofs --------------------------
(***************************************************************************)
(* What becomes of a playlist, for any number of threads, categories,      *)
(* queues, edits and faults: it is mapped at most once, it never comes     *)
(* back, and no track gets into it more often than threads and faults      *)
(* account for.                                                            *)
(*                                                                         *)
(* Both rest on what others know of a playlist.  While it is open (a row   *)
(* names it, or may come to), any thread may yet find it; once it is       *)
(* closed, only the threads that hold it still write to it.                *)
(***************************************************************************)
EXTENDS RestoreProofs

USE DEF youtube, world

-----------------------------------------------------------------------------
(* Playlists a category is mapped to, or may come to be.                     *)

\* r is about to map its category to p.
Carries(r, p) == r.pc \in {"own", "store"} /\ r.plist = p

Open(p) == p > made \/ IsMapped(p) \/ IsNew(p)

\* What thread w knows of its playlist, and others do not.
Keeps(w) ==
  LET r == job[w] IN
  /\ r.pc # "idle" => r.queue \in Queues
  /\ r.plist # 0 => r.pc \in WithPlaylist
  /\ r.pc = "fill" => ~Open(r.plist)
  /\ r.pc \in {"own", "store"} => /\ ~IsMapped(r.plist)
                                  /\ \A x \in Workers \ {w} : job[x].plist # r.plist

HoldInv ==
  /\ \A w \in Workers : Keeps(w)
  /\ \A p \in Playlists : p > made => Had(p) = {}

-----------------------------------------------------------------------------
(* What the step of a thread, from r to s, does to playlists.                *)

RowsDropped == \A c \in Categories : rows'[c].playlist \in {rows[c].playlist, 0}
RowsSame    == \A c \in Categories : rows'[c].playlist = rows[c].playlist

\* It gives up its playlist, if it had one: the restore is over, or looks for another.
Departs(r, s) ==
  /\ s.plist = 0 /\ s.pc \notin WithPlaylist
  /\ s.pc # "idle" => s.queue \in Queues
  /\ UNCHANGED <<mirror, copies>> /\ Faulty
  /\ \/ UNCHANGED <<made, home>> /\ RowsDropped
     \/ Made(r.cat) /\ RowsSame /\ r.pc = "create" /\ r.cat \in Categories
  /\ r.dirty # {} => Fault \/ \A c \in Categories : rows'[c] = NoRow

\* It has found one in a row.
Approaches(r, s) ==
  /\ r.pc \in {"find", "verify", "touch"} /\ r.dirty = {}
  /\ s.pc \in {"verify", "forget", "touch", "load"} /\ s.queue = r.queue
  /\ s.plist # 0 /\ (s.plist = r.plist \/ IsMapped(s.plist))
  /\ s.pc = "load" => IsMapped(s.plist)
  /\ UNCHANGED <<mirror, copies, made, home>> /\ Faulty /\ RowsSame

\* It makes one.
Makes(r, s) ==
  /\ r.pc \in {"create", "fallback"} /\ r.dirty = {}
  /\ s.pc \in {"own", "fill"} /\ s.queue = r.queue /\ s.plist = made + 1
  /\ Made(r.cat) /\ r.cat \in Categories
  /\ UNCHANGED <<rows, mirror, copies, faults>>

\* It is about to store the row of a new one.
Looks(r, s) ==
  /\ r.pc = "own" /\ s.pc = "store" /\ s.queue = r.queue /\ s.plist = r.plist
  /\ UNCHANGED <<rows, mirror, copies, made, home, faults>>

\* It stores it, or finds that another restore did.
Stores(r, s) ==
  /\ r.pc = "store" /\ s.pc = "load" /\ s.queue = r.queue /\ s.plist = r.plist
  /\ \A c \in Categories \ {r.cat} : rows'[c].playlist = rows[c].playlist
  /\ rows'[r.cat].playlist \in {rows[r.cat].playlist, r.plist}
  /\ UNCHANGED <<mirror, copies, made, home, faults>>

InLoop == {"insert", "flush", "invalidate"}

\* It reads what is in it.
Reads(r, s) ==
  /\ r.pc \in {"load", "sync"} /\ r.dirty = {} /\ s.dirty = {}
  /\ s.pc \in {"sync", "done"} \cup InLoop /\ s.queue = r.queue /\ s.plist = r.plist
  /\ \A v \in mirror[r.plist] :
       r.pc = "load" => s.pc # "sync" /\ \A i \in s.todo : s.queue[i] # v
  /\ \E V \in SUBSET Had(r.plist) : mirror' = [mirror EXCEPT ![r.plist] = @ \cup V]
  /\ UNCHANGED <<rows, copies, made, home>> /\ Faulty

\* It goes on with tracks in T, and the tracks in D are yet to be flushed.
Onward(r, T, D, s) ==
  /\ s.pc \in InLoop \/ (s.pc = "done" /\ D = {})
  /\ s.queue = r.queue /\ s.plist = r.plist
  /\ s.todo \subseteq T /\ s.dirty = D

\* A track is passed over, tried again, or not found.
Passes(r, s) ==
  /\ r.pc = "insert" /\ Onward(r, r.todo, r.dirty, s)
  /\ UNCHANGED <<rows, mirror, copies, made, home, faults>>

\* A track is inserted, and the answer arrives or is lost.
Adds(r, s, i) ==
  LET v == r.queue[i] IN
  /\ r.pc = "insert" /\ i \in r.todo
  /\ copies' = [copies EXCEPT ![r.plist][v] = @ + 1]
  /\ \/ Onward(r, r.todo \ {i}, r.dirty \cup {v}, s) /\ UNCHANGED faults
     \/ Onward(r, r.todo, r.dirty, s) /\ Fault
  /\ UNCHANGED <<rows, mirror, made, home>>

Flushes(r, s) ==
  /\ r.pc = "flush" /\ Onward(r, r.todo, {}, s)
  /\ \/ mirror' = [mirror EXCEPT ![r.plist] = @ \cup r.dirty] /\ UNCHANGED faults
     \/ UNCHANGED mirror /\ Fault
  /\ UNCHANGED <<rows, copies, made, home>>

\* The fallback puts all its tracks, or what YouTube has of them, into its own.
Pours(r, s) ==
  /\ r.pc = "fill" /\ s.pc = "copied" /\ s.queue = r.queue /\ s.plist = r.plist
  /\ \E V \in SUBSET ToSet(r.queue) :
       copies' = [copies EXCEPT ![r.plist] = [v \in Videos |-> @[v] + IF v \in V THEN 1 ELSE 0]]
  /\ UNCHANGED <<rows, mirror, made, home, faults>>

Moves(r, s) ==
  \/ Departs(r, s) \/ Approaches(r, s) \/ Makes(r, s) \/ Looks(r, s) \/ Stores(r, s)
  \/ Reads(r, s) \/ Passes(r, s) \/ (\E i \in Nat : Adds(r, s, i))
  \/ Flushes(r, s) \/ Pours(r, s)

-----------------------------------------------------------------------------
(* Every step of a thread is one of these.                                   *)

LEMMA WrapUpOnward ==
  ASSUME NEW r \in Job, NEW s, s = WrapUp(r)
  PROVE  Onward(r, r.todo, r.dirty, s)
<1>1. CASE r.dirty = {}
  BY <1>1 DEF WrapUp, Done, Idle, Onward
<1>2. CASE r.dirty # {}
  <2>1. s = [r EXCEPT !.pc = "flush"]
    BY <1>2 DEF WrapUp
  <2>2. /\ s.pc = "flush" /\ s.queue = r.queue /\ s.plist = r.plist /\ s.todo = r.todo
        /\ s.dirty = r.dirty
    BY <2>1 DEF Job
  <2> QED BY <2>2 DEF Onward, InLoop
<1> QED BY <1>1, <1>2

LEMMA NextTrackOnward ==
  ASSUME NEW r \in Job, r.todo \subseteq OrderedVideoIds(r.queue), NEW s \in NextTrack(r)
  PROVE  Onward(r, r.todo, r.dirty, s)
<1>1. CASE s = WrapUp(r)
  BY <1>1, WrapUpOnward
<1>2. CASE s = [r EXCEPT !.pc = "insert", !.left = 2]
  <2>1. /\ s.pc = "insert" /\ s.queue = r.queue /\ s.plist = r.plist /\ s.todo = r.todo
        /\ s.dirty = r.dirty
    BY <1>2 DEF Job
  <2> QED BY <2>1 DEF Onward, InLoop
<1>3. CASE s = WrapUp([r EXCEPT !.failed = @ \cup Tracks(r, r.todo), !.todo = {}])
  <2>1. PICK t : t = [r EXCEPT !.failed = @ \cup Tracks(r, r.todo), !.todo = {}]
    OBVIOUS
  <2>2. r.failed \cup Tracks(r, r.todo) \in SUBSET Videos
    <3>1. Tracks(r, r.todo) \subseteq Videos
      BY Positions DEF Tracks
    <3> QED BY <3>1 DEF Job
  <2>3. t \in Job /\ t.queue = r.queue /\ t.plist = r.plist /\ t.todo = {} /\ t.dirty = r.dirty
    BY <2>1, <2>2 DEF Job
  <2>4. Onward(t, t.todo, t.dirty, s)
    BY <1>3, <2>1, <2>3, WrapUpOnward
  <2> QED BY <2>3, <2>4 DEF Onward
<1> QED BY <1>1, <1>2, <1>3 DEF NextTrack

LEMMA AdvanceOnward ==
  ASSUME NEW r \in Job, r.todo \subseteq OrderedVideoIds(r.queue), NEW i, NEW s \in Advance(r, i)
  PROVE  Onward(r, r.todo \ {i}, r.dirty, s)
<1>1. PICK n : n = (r.count + 1) % FlushBatch
  OBVIOUS
<1>2. n \in Nat
  <2>1. r.count \in Nat
    BY DEF Job
  <2> QED BY <1>1, <2>1, ParametersAssumption
<1>3. PICK t : t = [r EXCEPT !.todo = @ \ {i}, !.count = n]
  OBVIOUS
<1>4. /\ t \in Job /\ t.todo = r.todo \ {i} /\ t.queue = r.queue /\ t.plist = r.plist
      /\ t.dirty = r.dirty
  BY <1>2, <1>3 DEF Job
<1>5. CASE s = [t EXCEPT !.pc = "flush"]
  <2>1. /\ s.pc = "flush" /\ s.queue = t.queue /\ s.plist = t.plist /\ s.todo = t.todo
        /\ s.dirty = t.dirty
    BY <1>4, <1>5 DEF Job
  <2> QED BY <1>4, <2>1 DEF Onward, InLoop
<1>6. CASE s \in NextTrack(t)
  <2>1. Onward(t, t.todo, t.dirty, s)
    BY <1>4, <1>6, NextTrackOnward
  <2> QED BY <1>4, <2>1 DEF Onward
<1>7. s = [t EXCEPT !.pc = "flush"] \/ s \in NextTrack(t)
  BY <1>1, <1>3 DEF Advance
<1> QED BY <1>5, <1>6, <1>7

LEMMA PlannedOnward ==
  ASSUME NEW r \in Job, r.dirty = {}, NEW s \in Planned(r)
  PROVE  Onward(r, Pending(r), {}, s)
<1>1. CASE s = Done(r)
  BY <1>1 DEF Done, Idle, Onward
<1>2. CASE s # Done(r)
  <2>1. PICK S \in SUBSET Pending(r) : s \in NextTrack([r EXCEPT !.todo = S])
    BY <1>2 DEF Planned
  <2>2. PICK t : t = [r EXCEPT !.todo = S]
    OBVIOUS
  <2>3. S \subseteq OrderedVideoIds(r.queue) /\ S \in SUBSET Nat
    BY <2>1, Positions DEF Pending
  <2>4. /\ t \in Job /\ t.todo = S /\ t.queue = r.queue /\ t.plist = r.plist
        /\ t.dirty = r.dirty
    BY <2>2, <2>3 DEF Job
  <2>5. s \in NextTrack(t) /\ t.todo \subseteq OrderedVideoIds(t.queue)
    BY <2>1, <2>2, <2>3, <2>4
  <2>6. Onward(t, t.todo, t.dirty, s)
    BY <2>4, <2>5, NextTrackOnward
  <2> QED BY <2>1, <2>4, <2>6 DEF Onward
<1> QED BY <1>1, <1>2

\* The ways out of a restore, or back to its beginning.
LEMMA Departing ==
  ASSUME NEW r \in Job, r.queue \in Queues,
         NEW s \in Creating(r) \cup Broken(r) \cup NextPass(r) \cup {Idle}
  PROVE  s.plist = 0 /\ s.pc \notin WithPlaylist /\ (s.pc # "idle" => s.queue \in Queues)
<1>1. CASE s = Idle
  BY <1>1 DEF Idle, WithPlaylist
<1>2. CASE s = [r EXCEPT !.pc = "create", !.rid = 0, !.plist = 0, !.left = 1 + MaxRetries]
  <2>1. s.pc = "create" /\ s.plist = 0 /\ s.queue = r.queue
    BY <1>2 DEF Job
  <2> QED BY <2>1 DEF WithPlaylist
<1>3. ASSUME NEW n, s = [Idle EXCEPT !.pc = "fallback", !.cat = r.cat, !.queue = r.queue]
          \/ s = [Idle EXCEPT !.pc = "find", !.cat = r.cat, !.queue = r.queue, !.pass = n]
      PROVE  s.plist = 0 /\ s.pc \in {"fallback", "find"} /\ s.queue = r.queue
  BY <1>3 DEF Idle
<1>4. CASE \/ s = [Idle EXCEPT !.pc = "fallback", !.cat = r.cat, !.queue = r.queue]
           \/ s = [Idle EXCEPT !.pc = "find", !.cat = r.cat, !.queue = r.queue, !.pass = r.pass + 1]
  BY <1>3, <1>4 DEF WithPlaylist
<1> QED BY <1>1, <1>2, <1>4 DEF Creating, Broken, NextPass, Refused

\* Leaving a playlist while nothing is created.
LEMMA LeavesOff ==
  ASSUME IInv, NEW w \in Workers, Keeps(w), NEW r, r = job[w], r.pc # "idle",
         NEW s \in Creating(r) \cup Broken(r) \cup NextPass(r) \cup {Idle},
         UNCHANGED <<mirror, copies, made, home>>, Faulty, RowsDropped,
         r.dirty = {} \/ Fault \/ rows' = [c \in Categories |-> NoRow]
  PROVE  Departs(r, s)
<1>1. r \in Job /\ r.queue \in Queues
  BY Working DEF Keeps
<1>2. s.plist = 0 /\ s.pc \notin WithPlaylist /\ (s.pc # "idle" => s.queue \in Queues)
  BY <1>1, Departing
<1> QED BY <1>2 DEF Departs

LEMMA RowsStay ==
  ASSUME rows' = rows
  PROVE  RowsSame /\ RowsDropped
BY DEF RowsSame, RowsDropped

LEMMA MovesFinding ==
  ASSUME IInv, NEW w \in Workers, Keeps(w),
         \/ Find(w) \/ Verify(w) \/ VerifyFails(w) \/ Forget(w) \/ ForgetFails(w)
         \/ Touch(w) \/ TouchFails(w)
  PROVE  \E s : Goes(w, s) /\ Moves(job[w], s)
<1> DEFINE r == job[w]
<1>1. /\ r.pc \in {"find", "verify", "forget", "touch"} /\ r \in Job /\ r.cat \in Categories
      /\ r.dirty = {} /\ rows \in [Categories -> Row]
      /\ (r.pc # "find" => r.plist \in Playlists)
  BY Working DEF Find, Verify, VerifyFails, Forget, ForgetFails, Touch, TouchFails, At, Sane,
                 WithPlaylist, Placed, IInv, TypeOK
<1>2. UNCHANGED <<mirror, copies, made, home>> /\ Faulty
  BY DEF Find, Verify, VerifyFails, Forget, ForgetFails, Touch, TouchFails, Faulty
<1>3. NoRow.playlist = 0
  BY DEF NoRow
<1>4. RowsDropped
  <2>1. CASE rows' = rows
    BY <2>1, RowsStay
  <2>2. CASE rows' = [rows EXCEPT ![r.cat] = NoRow]
    BY <1>1, <1>3, <2>2 DEF RowsDropped
  <2>3. CASE rows' = [rows EXCEPT ![r.cat].verified = now]
    <3>1. ASSUME NEW c \in Categories PROVE rows'[c].playlist = rows[c].playlist
      BY <1>1, <2>3 DEF Row
    <3> QED BY <3>1 DEF RowsDropped
  <2> QED BY <2>1, <2>2, <2>3 DEF Find, Verify, VerifyFails, Forget, ForgetFails, Touch, TouchFails
<1>5. ASSUME NEW s, Goes(w, s), s \in Creating(r) \cup Broken(r) \cup {Idle}
      PROVE  \E t : Goes(w, t) /\ Moves(r, t)
  BY <1>1, <1>2, <1>4, <1>5, LeavesOff DEF Moves
<1>6. CASE Find(w)
  <2> DEFINE row == rows[r.cat]
  <2>1. PICK held, s : /\ held = [r EXCEPT !.rid = row.id, !.plist = row.playlist]
                       /\ Goes(w, s)
                       /\ \/ s \in Creating(r)
                          \/ s = Idle
                          \/ row # NoRow /\ \E pc \in {"verify", "touch"} : s = [held EXCEPT !.pc = pc]
    BY <1>6 DEF Find, Refused, CachedRow
  <2>2. ASSUME NEW pc \in {"verify", "touch"}, s = [held EXCEPT !.pc = pc], row # NoRow
        PROVE  Approaches(r, s)
    <3>1. held.pc = r.pc /\ held.plist = row.playlist /\ held.queue = r.queue /\ DOMAIN held = DOMAIN r
      BY <1>1, <2>1 DEF Job
    <3>2. s.pc = pc /\ s.plist = row.playlist /\ s.queue = r.queue
      BY <1>1, <2>2, <3>1 DEF Job
    <3>3. row.playlist \in Playlists /\ IsMapped(row.playlist)
      BY <1>1, <2>2, RowFacts DEF IsMapped
    <3>4. RowsSame /\ r.pc = "find"
      BY <1>6, RowsStay DEF Find, At
    <3> QED BY <1>1, <1>2, <3>2, <3>3, <3>4 DEF Approaches, Playlists
  <2> QED BY <1>5, <2>1, <2>2 DEF Moves
<1>7. CASE Verify(w) \/ VerifyFails(w)
  <2>1. PICK s : Goes(w, s) /\ (s = Idle \/ \E pc \in {"forget", "touch"} : s = [r EXCEPT !.pc = pc])
    BY <1>7 DEF Verify, VerifyFails, Refused
  <2>2. ASSUME NEW pc \in {"forget", "touch"}, s = [r EXCEPT !.pc = pc]
        PROVE  Approaches(r, s)
    <3>1. s.pc = pc /\ s.plist = r.plist /\ s.queue = r.queue
      BY <1>1, <2>2 DEF Job
    <3>2. RowsSame /\ r.pc = "verify"
      BY <1>7, RowsStay DEF Verify, VerifyFails, At
    <3> QED BY <1>1, <1>2, <3>1, <3>2 DEF Approaches, Playlists
  <2> QED BY <1>5, <2>1, <2>2 DEF Moves
<1>8. CASE Forget(w) \/ ForgetFails(w)
  BY <1>5, <1>8 DEF Forget, ForgetFails
<1>9. CASE Touch(w) \/ TouchFails(w)
  <2>1. PICK s : /\ Goes(w, s)
                 /\ \/ s \in Broken(r)
                    \/ Holds(r) /\ s = Loading([r EXCEPT !.plist = rows[r.cat].playlist])
    BY <1>9 DEF Touch, TouchFails, CachedRow
  <2>2. ASSUME Holds(r), s = Loading([r EXCEPT !.plist = rows[r.cat].playlist])
        PROVE  Approaches(r, s)
    <3>1. s.pc = "load" /\ s.plist = rows[r.cat].playlist /\ s.queue = r.queue
      BY <1>1, <2>2 DEF Loading, Job
    <3>2. r.pc = "touch"
      BY <1>9 DEF Touch, TouchFails, At
    <3>3. rows[r.cat].id # 0
      BY <2>2, <3>2, Working DEF Holds, CachedRow, Sane
    <3>4. rows[r.cat].playlist \in Playlists /\ IsMapped(rows[r.cat].playlist)
      BY <1>1, <3>3, RowFacts DEF IsMapped
    <3>5. RowsSame
      <4>1. CASE rows' = [rows EXCEPT ![r.cat].verified = now]
        <5>1. ASSUME NEW c \in Categories PROVE rows'[c].playlist = rows[c].playlist
          BY <1>1, <4>1 DEF Row
        <5> QED BY <5>1 DEF RowsSame
      <4>2. CASE rows' = rows
        BY <4>2, RowsStay
      <4> QED BY <1>9, <4>1, <4>2 DEF Touch, TouchFails
    <3> QED BY <1>1, <1>2, <3>1, <3>2, <3>4, <3>5 DEF Approaches, Playlists
  <2> QED BY <1>5, <2>1, <2>2 DEF Moves
<1> QED BY <1>6, <1>7, <1>8, <1>9

LEMMA MovesMaking ==
  ASSUME IInv, NEW w \in Workers, Keeps(w),
         \/ Create(w) \/ CreateFails(w) \/ CreateRetried(w) \/ CreateLost(w)
         \/ Own(w) \/ Store(w) \/ StoreFails(w) \/ FallbackCreate(w)
  PROVE  \E s : Goes(w, s) /\ Moves(job[w], s)
<1> DEFINE r == job[w]
<1>1. /\ r.pc \in {"create", "own", "store", "fallback"} /\ r \in Job /\ r.cat \in Categories
      /\ r.dirty = {} /\ r.queue \in Queues /\ rows \in [Categories -> Row] /\ made \in Nat
  <2>1. r.pc \in {"create", "own", "store", "fallback"}
    BY DEF Create, CreateFails, CreateRetried, CreateLost, Own, Store, StoreFails, FallbackCreate, At
  <2>2. Sane(r) /\ r \in Job /\ r.cat \in Categories
    BY <2>1, Working
  <2>3. rows \in [Categories -> Row] /\ made \in Nat
    BY ParametersAssumption DEF IInv, TypeOK
  <2> QED BY <2>1, <2>2, <2>3 DEF Sane, Keeps
<1>2. UNCHANGED <<mirror, copies>> /\ Faulty
  BY DEF Create, CreateFails, CreateRetried, CreateLost, Own, Store, StoreFails, FallbackCreate, Faulty
<1>3. ASSUME NEW s, Goes(w, s), s \in Broken(r) \cup {Idle}, rows' = rows, UNCHANGED <<made, home>>
      PROVE  \E t : Goes(w, t) /\ Moves(r, t)
  BY <1>1, <1>2, <1>3, LeavesOff, RowsStay DEF Moves
<1>4. CASE Create(w)
  <2>1. PICK s : Goes(w, s) /\ s = [r EXCEPT !.pc = "own", !.plist = made + 1, !.new = TRUE]
    BY <1>4 DEF Create
  <2>2. s.pc = "own" /\ s.plist = made + 1 /\ s.queue = r.queue
    BY <1>1, <2>1 DEF Job
  <2>3. Makes(r, s)
    BY <1>1, <1>4, <2>2 DEF Makes, Create, At
  <2> QED BY <2>1, <2>3 DEF Moves
<1>5. CASE CreateFails(w) \/ StoreFails(w)
  <2>1. PICK s : Goes(w, s) /\ s \in Broken(r) \cup {Idle}
    BY <1>5 DEF CreateFails, StoreFails, Refused
  <2> QED BY <1>3, <1>5, <2>1 DEF CreateFails, StoreFails
<1>6. CASE CreateRetried(w) \/ CreateLost(w)
  <2>1. PICK s : Goes(w, s) /\ (s = [r EXCEPT !.left = @ - 1] \/ s \in Broken(r))
    BY <1>6 DEF CreateRetried, CreateLost
  <2>2. r.pc = "create" /\ r.plist = 0
    BY <1>1, <1>6 DEF CreateRetried, CreateLost, At, Keeps, WithPlaylist
  <2>3. s.plist = 0 /\ s.pc \notin WithPlaylist /\ (s.pc # "idle" => s.queue \in Queues)
    <3>1. CASE s = [r EXCEPT !.left = @ - 1]
      <4>1. s.pc = r.pc /\ s.plist = r.plist /\ s.queue = r.queue
        BY <1>1, <3>1 DEF Job
      <4> QED BY <1>1, <2>2, <4>1 DEF WithPlaylist
    <3> QED BY <1>1, <2>1, <3>1, Departing
  <2>4. rows' = rows /\ (UNCHANGED <<made, home>> \/ Made(r.cat))
    BY <1>6 DEF CreateRetried, CreateLost
  <2>5. Departs(r, s)
    BY <1>1, <1>2, <2>2, <2>3, <2>4, RowsStay DEF Departs
  <2> QED BY <2>1, <2>5 DEF Moves
<1>7. CASE Own(w)
  <2>1. PICK s : Goes(w, s) /\ s = [r EXCEPT !.pc = "store", !.rid = CachedRow(r.cat).id]
    BY <1>7 DEF Own
  <2>2. s.pc = "store" /\ s.plist = r.plist /\ s.queue = r.queue
    BY <1>1, <2>1 DEF Job
  <2>3. Looks(r, s)
    BY <1>7, <2>2 DEF Looks, Own, At
  <2> QED BY <2>1, <2>3 DEF Moves
<1>8. CASE Store(w)
  <2>1. PICK s : Goes(w, s) /\ (s = Loading(r) \/ (s \in Broken(r) /\ rows' = rows))
    BY <1>8 DEF Store
  <2>2. ASSUME s = Loading(r) PROVE Stores(r, s)
    <3>1. s.pc = "load" /\ s.plist = r.plist /\ s.queue = r.queue
      BY <1>1, <2>2 DEF Loading, Job
    <3>2. \/ rows' = rows
          \/ rows' = [rows EXCEPT ![r.cat] = [id |-> r.plist, playlist |-> r.plist, verified |-> now]]
          \/ rows' = [rows EXCEPT ![r.cat].playlist = r.plist, ![r.cat].verified = now]
      BY <1>8 DEF Store
    <3>3. /\ \A c \in Categories \ {r.cat} : rows'[c] = rows[c]
          /\ rows'[r.cat].playlist \in {rows[r.cat].playlist, r.plist}
      BY <1>1, <3>2 DEF Row
    <3> QED BY <1>8, <3>1, <3>3 DEF Stores, Store, At
  <2> QED BY <1>3, <1>8, <2>1, <2>2 DEF Moves, Store
<1>9. CASE FallbackCreate(w)
  <2>1. CASE Goes(w, Idle) /\ UNCHANGED <<made, live, home, confirmed>>
    BY <1>3, <1>9, <2>1 DEF FallbackCreate
  <2>2. CASE Made(r.cat) /\ Goes(w, [r EXCEPT !.pc = "fill", !.plist = made + 1])
    <3>1. PICK s : Goes(w, s) /\ s = [r EXCEPT !.pc = "fill", !.plist = made + 1]
      BY <2>2
    <3>2. s.pc = "fill" /\ s.plist = made + 1 /\ s.queue = r.queue
      BY <1>1, <3>1 DEF Job
    <3>3. Makes(r, s)
      BY <1>1, <1>9, <2>2, <3>2 DEF Makes, FallbackCreate, At
    <3> QED BY <3>1, <3>3 DEF Moves
  <2> QED BY <1>9, <2>1, <2>2 DEF FallbackCreate
<1> QED BY <1>4, <1>5, <1>6, <1>7, <1>8, <1>9

LEMMA MovesReading ==
  ASSUME IInv, NEW w \in Workers, Keeps(w), Load(w) \/ Sync(w) \/ SyncFails(w)
  PROVE  \E s : Goes(w, s) /\ Moves(job[w], s)
<1> DEFINE r == job[w]
           p == r.plist
<1>1. /\ r.pc \in {"load", "sync"} /\ r \in Job /\ r.dirty = {} /\ p \in Playlists
      /\ mirror \in [Playlists -> SUBSET Videos] /\ mirror[p] \subseteq Had(p)
      /\ listed[p] \subseteq Had(p) /\ Had(p) \subseteq Videos
      /\ (r.pc = "sync" => r.known \subseteq Had(p))
  <2>1. r.pc \in {"load", "sync"}
    BY DEF Load, Sync, SyncFails, At
  <2>2. Fit(r, home, mirror, Inserted, Quiet) /\ Sane(r) /\ r \in Job /\ Placed(r, home)
    BY <2>1, Working DEF WithPlaylist
  <2>3. r.dirty = {} /\ p \in Playlists /\ (r.pc = "sync" => r.known \subseteq Had(p))
    BY <2>1, <2>2 DEF Sane, Placed, Fit, Stocked, Inserted
  <2> QED BY <2>1, <2>2, <2>3 DEF IInv, TypeOK, WorldInv, Had
<1>2. UNCHANGED <<rows, copies, made, home>> /\ Faulty
  BY DEF Load, Sync, SyncFails, Faulty
<1>3. ASSUME NEW V \in SUBSET Had(p), mirror' = [mirror EXCEPT ![p] = @ \cup V],
             NEW u \in Job, u.queue = r.queue, u.plist = p, u.dirty = {},
             NEW s, s \in Planned(u) \/ (s.pc = "sync" /\ s.queue = r.queue /\ s.plist = p /\ s.dirty = {}),
             r.pc = "load" => u.known = mirror[p] /\ (s \in Planned(u) \/ u.known = {})
      PROVE  Reads(r, s)
  <2>1. CASE s \in Planned(u)
    <3>1. Onward(u, Pending(u), {}, s)
      BY <1>3, <2>1, PlannedOnward
    <3>2. \A v \in mirror[p] : r.pc = "load" => \A i \in s.todo : s.queue[i] # v
      BY <1>3, <2>1, <3>1 DEF Onward, Pending
    <3> QED BY <1>1, <1>2, <1>3, <3>1, <3>2 DEF Reads, Onward, InLoop
  <2>2. CASE s \notin Planned(u)
    BY <1>1, <1>2, <1>3, <2>2 DEF Reads
  <2> QED BY <2>1, <2>2
<1>4. mirror' = mirror => \E V \in SUBSET Had(p) : mirror' = [mirror EXCEPT ![p] = @ \cup V]
  <2>1. mirror = [mirror EXCEPT ![p] = @ \cup {}]
    BY <1>1
  <2> QED BY <2>1
<1>5. CASE Load(w)
  <2>1. PICK u : u = [r EXCEPT !.known = mirror[p]]
    OBVIOUS
  <2>2. u \in Job /\ u.queue = r.queue /\ u.plist = p /\ u.dirty = {} /\ u.known = mirror[p]
    BY <1>1, <2>1 DEF Job
  <2>3. PICK s : Goes(w, s) /\ (s \in Planned(u) \/ (u.known = {} /\ s = [u EXCEPT !.pc = "sync"]))
    BY <1>5, <2>1 DEF Load
  <2>4. s = [u EXCEPT !.pc = "sync"] =>
          s.pc = "sync" /\ s.queue = r.queue /\ s.plist = p /\ s.dirty = {}
    BY <2>2 DEF Job
  <2>5. Reads(r, s)
    BY <1>3, <1>4, <1>5, <2>2, <2>3, <2>4 DEF Load
  <2> QED BY <2>3, <2>5 DEF Moves
<1>6. CASE Sync(w)
  <2>1. PICK D, u, s : /\ D \in Page(r) /\ u = [r EXCEPT !.known = @ \cup D, !.pages = @ + 1]
                       /\ Goes(w, s) /\ (s \in Planned(u) \/ s = u)
                       /\ mirror' = mirror \/ mirror' = [mirror EXCEPT ![p] = @ \cup u.known]
    <3>1. PICK D \in Page(r) :
            LET u == [r EXCEPT !.known = @ \cup D, !.pages = @ + 1] IN
            /\ \E s : Goes(w, s) /\ (s \in Planned(u) \/ s = u)
            /\ mirror' = mirror \/ mirror' = [mirror EXCEPT ![p] = @ \cup u.known]
      BY <1>6 DEF Sync
    <3> QED BY <3>1
  <2>2. D \subseteq Had(p) /\ r.pc = "sync"
    BY <1>1, <1>6, <2>1, PageListed DEF Sync, At
  <2>3. r.known \cup D \in SUBSET Videos /\ r.pages + 1 \in Nat
    BY <1>1, <2>2 DEF Job
  <2>4. u = [r EXCEPT !.known = @ \cup D, !.pages = @ + 1]
    BY <2>1
  <2>5. /\ u \in Job /\ u.queue = r.queue /\ u.plist = p /\ u.dirty = {} /\ u.pc = "sync"
        /\ u.known = r.known \cup D
    BY <1>1, <2>2, <2>3, <2>4 DEF Job
  <2>6. PICK V \in SUBSET Had(p) : mirror' = [mirror EXCEPT ![p] = @ \cup V]
    BY <1>1, <1>4, <2>1, <2>2, <2>5
  <2>7. Reads(r, s)
    BY <1>3, <2>1, <2>2, <2>5, <2>6
  <2> QED BY <2>1, <2>7 DEF Moves
<1>7. CASE SyncFails(w)
  <2>1. PICK s : Goes(w, s) /\ (s = Idle \/ s \in Planned(r))
    BY <1>7 DEF SyncFails, Refused
  <2>2. s \in Planned(r) => Reads(r, s)
    BY <1>1, <1>3, <1>4, <1>7 DEF SyncFails, At
  <2>3. s = Idle => Departs(r, s)
    BY <1>1, <1>2, <1>7, LeavesOff, RowsStay DEF SyncFails
  <2> QED BY <2>1, <2>2, <2>3 DEF Moves
<1> QED BY <1>5, <1>6, <1>7

LEMMA MovesFilling ==
  ASSUME IInv, NEW w \in Workers, Keeps(w),
         \/ Flush(w) \/ InsertRetried(w) \/ InsertRefused(w) \/ Invalidate(w) \/ InvalidateFails(w)
         \/ \E i \in job[w].todo :
              Insert(w, i) \/ InsertFails(w, i) \/ InsertLost(w, i) \/ InsertNotFound(w, i)
  PROVE  \E s : Goes(w, s) /\ Moves(job[w], s)
<1> DEFINE r == job[w]
<1>1. /\ r.pc \in InLoop /\ r \in Job /\ r.todo \subseteq OrderedVideoIds(r.queue)
      /\ r.todo \subseteq Nat
  <2>1. r.pc \in InLoop
    BY DEF Flush, InsertRetried, InsertRefused, Invalidate, InvalidateFails, Insert, InsertFails,
           InsertLost, InsertNotFound, Sending, At, InLoop
  <2>2. r.pc # "idle"
    BY <2>1 DEF InLoop
  <2>3. Sane(r) /\ r \in Job
    BY <2>2, Working
  <2> QED BY <2>1, <2>3 DEF Sane, Job
<1>2. CASE InsertRefused(w) \/ Invalidate(w) \/ InvalidateFails(w)
  <2>1. PICK s : Goes(w, s) /\ s \in NextPass(r) \cup {Idle}
    BY <1>2 DEF InsertRefused, Refused, Invalidate, InvalidateFails
  <2>2. /\ UNCHANGED <<mirror, copies, made, home>> /\ Faulty
        /\ Fault \/ rows' = [c \in Categories |-> NoRow]
    BY <1>2 DEF InsertRefused, Invalidate, InvalidateFails, Faulty
  <2>3. RowsDropped
    <3>1. CASE rows' = [c \in Categories |-> NoRow]
      BY <3>1 DEF RowsDropped, NoRow
    <3>2. CASE rows' = rows
      BY <3>2, RowsStay
    <3> QED BY <1>2, <3>1, <3>2 DEF InsertRefused, Invalidate, InvalidateFails
  <2>4. Departs(r, s)
    BY <1>1, <2>1, <2>2, <2>3, LeavesOff DEF InLoop
  <2> QED BY <2>1, <2>4 DEF Moves
<1>3. CASE Flush(w)
  <2>1. PICK u : u = [r EXCEPT !.dirty = {}]
    OBVIOUS
  <2>2. u \in Job /\ u.plist = r.plist /\ u.todo = r.todo /\ u.queue = r.queue /\ u.dirty = {}
    BY <1>1, <2>1 DEF Job
  <2>3. PICK s \in NextTrack(u) : Goes(w, s)
    BY <1>3, <2>1 DEF Flush
  <2>4. Onward(u, u.todo, {}, s)
    BY <1>1, <2>2, <2>3, NextTrackOnward
  <2>5. Onward(r, r.todo, {}, s)
    BY <2>2, <2>4 DEF Onward
  <2>6. Flushes(r, s)
    BY <1>3, <2>5 DEF Flushes, Flush, At
  <2> QED BY <2>3, <2>6 DEF Moves
<1>4. CASE InsertRetried(w)
  <2>1. PICK s : Goes(w, s) /\ s = [r EXCEPT !.left = @ - 1]
    BY <1>4 DEF InsertRetried
  <2>2. /\ s.pc = r.pc /\ s.plist = r.plist /\ s.todo = r.todo /\ s.queue = r.queue
        /\ s.dirty = r.dirty
    BY <1>1, <2>1 DEF Job
  <2>3. Passes(r, s)
    BY <1>1, <1>4, <2>2 DEF Passes, Onward, InsertRetried, At
  <2> QED BY <2>1, <2>3 DEF Moves
<1>5. ASSUME NEW i \in r.todo,
             Insert(w, i) \/ InsertFails(w, i) \/ InsertLost(w, i) \/ InsertNotFound(w, i)
      PROVE  \E s : Goes(w, s) /\ Moves(r, s)
  <2> DEFINE v == r.queue[i]
  <2>1. v \in Videos /\ r.pc = "insert"
    BY <1>5, SendingFacts DEF Insert, InsertFails, InsertLost, InsertNotFound
  <2>2. /\ r.known \cup {v} \in SUBSET Videos /\ r.dirty \cup {v} \in SUBSET Videos
        /\ r.failed \cup {v} \in SUBSET Videos
    BY <1>1, <2>1 DEF Job
  <2>3. CASE Insert(w, i)
    <3>1. PICK u : u = [r EXCEPT !.known = @ \cup {v}, !.dirty = @ \cup {v}]
      OBVIOUS
    <3>2. /\ u \in Job /\ u.plist = r.plist /\ u.todo = r.todo /\ u.queue = r.queue
          /\ u.dirty = r.dirty \cup {v}
      BY <1>1, <2>2, <3>1 DEF Job
    <3>3. PICK s \in Advance(u, i) : Goes(w, s)
      BY <2>3, <3>1 DEF Insert
    <3>4. Onward(u, u.todo \ {i}, u.dirty, s)
      BY <1>1, <3>2, <3>3, AdvanceOnward
    <3>5. Onward(r, r.todo \ {i}, r.dirty \cup {v}, s)
      BY <3>2, <3>4 DEF Onward
    <3>6. Adds(r, s, i)
      BY <2>1, <2>3, <3>5 DEF Adds, Insert, Added
    <3> QED BY <1>1, <3>3, <3>6 DEF Moves
  <2>4. CASE InsertFails(w, i) \/ InsertLost(w, i) \/ InsertNotFound(w, i)
    <3>1. PICK u : u = [r EXCEPT !.failed = @ \cup {v}]
      OBVIOUS
    <3>2. /\ u \in Job /\ u.plist = r.plist /\ u.todo = r.todo /\ u.queue = r.queue
          /\ u.dirty = r.dirty
      BY <1>1, <2>2, <3>1 DEF Job
    <3>3. PICK s : /\ Goes(w, s)
                   /\ \/ s \in Advance(u, i)
                      \/ s = [r EXCEPT !.left = @ - 1] \/ s = [r EXCEPT !.pc = "invalidate"]
      BY <2>4, <3>1 DEF InsertFails, InsertLost, InsertNotFound
    <3>4. Onward(r, r.todo, r.dirty, s)
      <4>1. CASE s \in Advance(u, i)
        <5>1. Onward(u, u.todo \ {i}, u.dirty, s)
          BY <1>1, <3>2, <4>1, AdvanceOnward
        <5> QED BY <3>2, <5>1 DEF Onward
      <4>2. CASE s = [r EXCEPT !.left = @ - 1] \/ s = [r EXCEPT !.pc = "invalidate"]
        <5>1. /\ s.pc \in {r.pc, "invalidate"} /\ s.plist = r.plist /\ s.todo = r.todo
              /\ s.queue = r.queue /\ s.dirty = r.dirty
          BY <1>1, <4>2 DEF Job
        <5> QED BY <1>1, <5>1 DEF Onward, InLoop
      <4> QED BY <3>3, <4>1, <4>2
    <3>5. Passes(r, s) \/ Adds(r, s, i)
      BY <2>1, <2>4, <3>4 DEF Passes, Adds, InsertFails, InsertLost, InsertNotFound, Added
    <3> QED BY <1>1, <3>3, <3>5 DEF Moves
  <2> QED BY <1>5, <2>3, <2>4
<1> QED BY <1>2, <1>3, <1>4, <1>5

\* The fallback, and the ways in and out.
LEMMA MovesOut ==
  ASSUME IInv, NEW w \in Workers, Keeps(w),
         FallbackFill(w) \/ Die(w) \/ \E c \in Categories, q \in Queues : Start(w, c, q)
  PROVE  \E s : Goes(w, s) /\ Moves(job[w], s)
<1> DEFINE r == job[w]
<1>1. CASE FallbackFill(w)
  <2>1. r.pc = "fill" /\ r \in Job /\ r.dirty = {}
    BY <1>1, Working DEF FallbackFill, At, Sane
  <2>2. CASE Goes(w, Idle) /\ UNCHANGED <<listed, copies>>
    <3>1. Departs(r, Idle)
      BY <1>1, <2>1, <2>2, LeavesOff, RowsStay DEF FallbackFill, Faulty
    <3> QED BY <2>2, <3>1 DEF Moves
  <2>3. CASE ~(Goes(w, Idle) /\ UNCHANGED <<listed, copies>>)
    <3>1. PICK V, s : /\ V = ToSet(r.queue) \ Missing /\ s = [Done(r) EXCEPT !.pc = "copied"]
                      /\ Goes(w, s)
                      /\ copies' = [copies EXCEPT ![r.plist] =
                                      [v \in Videos |-> @[v] + IF v \in V THEN 1 ELSE 0]]
      BY <1>1, <2>3 DEF FallbackFill
    <3>2. s.pc = "copied" /\ s.queue = r.queue /\ s.plist = r.plist
      BY <3>1 DEF Done, Idle
    <3>3. Pours(r, s)
      BY <1>1, <2>1, <3>1, <3>2 DEF Pours, FallbackFill
    <3> QED BY <3>1, <3>3 DEF Moves
  <2> QED BY <2>2, <2>3
<1>2. CASE Die(w)
  <2>1. Departs(r, Idle)
    BY <1>2, LeavesOff, RowsStay DEF Die, Faulty
  <2> QED BY <1>2, <2>1 DEF Moves, Die
<1>3. ASSUME NEW c \in Categories, NEW q \in Queues, Start(w, c, q)
      PROVE  \E s : Goes(w, s) /\ Moves(r, s)
  <2>1. PICK s : Goes(w, s) /\ s = [Idle EXCEPT !.pc = "find", !.cat = c, !.queue = q, !.pass = 1]
    BY <1>3 DEF Start
  <2>2. s.pc = "find" /\ s.plist = 0 /\ s.queue = q
    BY <2>1 DEF Idle
  <2>3. r.dirty = {}
    BY <1>3 DEF Start, IInv, ThreadInv, Fit, Sane
  <2>4. Departs(r, s)
    BY <1>3, <2>2, <2>3, RowsStay DEF Departs, WithPlaylist, Start, Faulty
  <2> QED BY <2>1, <2>4 DEF Moves
<1> QED BY <1>1, <1>2, <1>3

\* So every step is one of a thread, or none that matters here.
LEMMA Movement ==
  ASSUME IInv, HoldInv, [Next]_vars
  PROVE  \/ \E w \in Workers : \E s : Goes(w, s) /\ Moves(job[w], s)
         \/ UNCHANGED <<rows, mirror, made, home, copies, job, faults>>
<1>1. ASSUME NEW w \in Workers, Step(w) \/ Die(w) \/ \E c \in Categories, q \in Queues : Start(w, c, q)
      PROVE  \E s : Goes(w, s) /\ Moves(job[w], s)
  <2>1. Keeps(w)
    BY DEF HoldInv
  <2> QED BY <1>1, <2>1, MovesFinding, MovesMaking, MovesReading, MovesFilling, MovesOut DEF Step
<1>2. CASE \/ \E p \in Playlists : DeletePlaylist(p) \/ \E v \in Videos : TakeOut(p, v)
           \/ Tick
           \/ UNCHANGED vars
  BY <1>2 DEF DeletePlaylist, TakeOut, Tick, vars
<1> QED BY <1>1, <1>2 DEF Next

-----------------------------------------------------------------------------
(* A closed playlist stays closed, and what a thread keeps it keeps.         *)

\* Playlists that are held or mapped have been made.
LEMMA Existing ==
  ASSUME IInv
  PROVE  /\ made \in Nat
         /\ \A w \in Workers : job[w].pc \in WithPlaylist =>
              job[w].plist \in Playlists /\ job[w].plist <= made
         /\ \A p \in Playlists : IsMapped(p) => p <= made
         /\ \A p \in Playlists, c \in Categories : rows[c].playlist = p => home[p] = c
<1>1. made \in Nat /\ \A p \in Playlists : p \in Nat /\ (home[p] \in Categories => p <= made)
  BY ParametersAssumption DEF IInv, TypeOK, WorldInv, Playlists
<1>2. ASSUME NEW w \in Workers, job[w].pc \in WithPlaylist
      PROVE  job[w].plist \in Playlists /\ job[w].plist <= made
  <2>1. job[w].pc # "idle"
    BY <1>2 DEF WithPlaylist
  <2> QED BY <1>1, <1>2, <2>1, Working DEF Placed
<1>3. ASSUME NEW p \in Playlists, NEW c \in Categories, rows[c].playlist = p
      PROVE  home[p] = c /\ p <= made
  <2>1. p # 0
    BY DEF Playlists
  <2>2. rows[c].id # 0
    BY <1>3, <2>1 DEF IInv, WorldInv, NoRow
  <2> QED BY <1>1, <1>3, <2>2, RowFacts
<1> QED BY <1>1, <1>2, <1>3 DEF IsMapped

\* What a thread is about to map, after a step of w.
LEMMA NewAfter ==
  ASSUME IInv, NEW w \in Workers, NEW s, Goes(w, s)
  PROVE  /\ job'[w] = s /\ \A x \in Workers \ {w} : job'[x] = job[x]
         /\ \A p : IsNew(p)' <=> Carries(s, p) \/ \E x \in Workers \ {w} : Carries(job[x], p)
         /\ \A p : IsNew(p) <=> Carries(job[w], p) \/ \E x \in Workers \ {w} : Carries(job[x], p)
<1>1. job'[w] = s /\ \A x \in Workers \ {w} : job'[x] = job[x]
  BY DEF IInv, TypeOK, Goes
<1> QED BY <1>1 DEF IsNew, Carries

\* Where the playlist of a thread comes from, and which rows change.
LEMMA MoveFacts ==
  ASSUME IInv, HoldInv, NEW w \in Workers, NEW r, r = job[w], NEW s, Moves(r, s)
  PROVE  /\ s.pc # "idle" => s.queue \in Queues
         /\ s.plist # 0 => s.pc \in WithPlaylist
         /\ \/ s.plist \in {0, r.plist} \/ IsMapped(s.plist)
            \/ Makes(r, s)
         /\ s.pc = "fill" => Makes(r, s)
         /\ s.pc \in {"own", "store"} => Makes(r, s) \/ Looks(r, s)
         /\ RowsDropped \/ Stores(r, s)
         /\ made' = made \/ Made(r.cat)
<1>1. r.pc # "idle" => r.queue \in Queues
  BY DEF HoldInv, Keeps
<1>2. CASE Departs(r, s)
  BY <1>2 DEF Departs, WithPlaylist, RowsSame, RowsDropped
<1>3. CASE Approaches(r, s)
  BY <1>1, <1>3 DEF Approaches, WithPlaylist, RowsSame, RowsDropped
<1>4. CASE Makes(r, s)
  BY <1>1, <1>4 DEF Makes, WithPlaylist, RowsDropped
<1>5. CASE Looks(r, s)
  BY <1>1, <1>5 DEF Looks, WithPlaylist, RowsDropped
<1>6. CASE Stores(r, s)
  BY <1>1, <1>6 DEF Stores, WithPlaylist
<1>7. CASE Reads(r, s)
  BY <1>1, <1>7 DEF Reads, WithPlaylist, InLoop, RowsDropped
<1>8. CASE Passes(r, s)
  BY <1>1, <1>8 DEF Passes, Onward, WithPlaylist, InLoop, RowsDropped
<1>9. ASSUME NEW i, Adds(r, s, i)
      PROVE  /\ s.queue \in Queues /\ s.pc \in {"done"} \cup InLoop /\ s.plist = r.plist
             /\ RowsDropped /\ made' = made
  BY <1>1, <1>9 DEF Adds, Onward, RowsDropped
<1>10. CASE \E i \in Nat : Adds(r, s, i)
  BY <1>9, <1>10 DEF WithPlaylist, InLoop
<1>11. CASE Flushes(r, s)
  BY <1>1, <1>11 DEF Flushes, Onward, WithPlaylist, InLoop, RowsDropped
<1>12. CASE Pours(r, s)
  BY <1>1, <1>12 DEF Pours, WithPlaylist, RowsDropped
<1> QED BY <1>2, <1>3, <1>4, <1>5, <1>6, <1>7, <1>8, <1>10, <1>11, <1>12 DEF Moves

\* No step opens a playlist.
LEMMA Closes ==
  ASSUME IInv, HoldInv, NEW w \in Workers, NEW s, Goes(w, s), Moves(job[w], s),
         NEW p \in Playlists, Open(p)'
  PROVE  Open(p)
<1> DEFINE r == job[w]
<1>1. made \in Nat /\ p \in Nat /\ p # 0
  BY Existing DEF Playlists
<1>2. CASE p > made'
  <2>1. made' = made \/ made' = made + 1
    BY MoveFacts DEF Made
  <2> QED BY <1>1, <1>2, <2>1 DEF Open
<1>3. CASE IsMapped(p)'
  <2>1. PICK c \in Categories : rows'[c].playlist = p
    BY <1>3 DEF IsMapped
  <2>2. CASE RowsDropped
    BY <1>1, <2>1, <2>2 DEF RowsDropped, IsMapped, Open
  <2>3. CASE Stores(r, s)
    <3>1. rows[c].playlist = p \/ Carries(r, p)
      BY <2>1, <2>3 DEF Stores, Carries
    <3> QED BY <3>1 DEF IsMapped, IsNew, Carries, Open
  <2> QED BY <2>2, <2>3, MoveFacts
<1>4. CASE IsNew(p)'
  <2>1. CASE Carries(s, p)
    <3>1. CASE Makes(r, s)
      BY <1>1, <2>1, <3>1 DEF Makes, Carries, Open
    <3>2. CASE Looks(r, s)
      BY <2>1, <3>2 DEF Looks, Carries, IsNew, Open
    <3> QED BY <2>1, <3>1, <3>2, MoveFacts DEF Carries
  <2>2. CASE ~Carries(s, p)
    BY <1>4, <2>2, NewAfter DEF Open
  <2> QED BY <2>1, <2>2
<1> QED BY <1>2, <1>3, <1>4 DEF Open

\* Only the playlist it holds does a thread add to.
LEMMA AddsToOwn ==
  ASSUME IInv, HoldInv, NEW w \in Workers, NEW r, r = job[w], NEW s, Moves(r, s)
  PROVE  \A p \in Playlists : copies'[p] = copies[p] \/ (r.pc \in WithPlaylist /\ p = r.plist)
<1>1. copies \in [Playlists -> [Videos -> Nat]]
  BY DEF IInv, TypeOK
<1>2. CASE UNCHANGED copies
  BY <1>2
<1>3. ASSUME NEW i, Adds(r, s, i)
      PROVE  \A p \in Playlists : copies'[p] = copies[p] \/ (r.pc \in WithPlaylist /\ p = r.plist)
  BY <1>1, <1>3 DEF Adds, WithPlaylist
<1>4. CASE Pours(r, s)
  BY <1>1, <1>4 DEF Pours, WithPlaylist
<1> QED BY <1>2, <1>3, <1>4 DEF Moves, Departs, Approaches, Makes, Looks, Stores, Reads, Passes, Flushes

LEMMA HoldStep ==
  ASSUME IInv, HoldInv, NEW w \in Workers, NEW s, Goes(w, s), Moves(job[w], s)
  PROVE  HoldInv'
<1> DEFINE r == job[w]
<1>1. job'[w] = s /\ \A x \in Workers \ {w} : job'[x] = job[x]
  BY NewAfter
<1>2. made \in Nat /\ (made' = made \/ made' = made + 1)
  BY MoveFacts, Existing DEF Made
<1>3. ASSUME NEW x \in Workers
      PROVE  job[x].plist # 0 => job[x].plist \in Playlists /\ job[x].plist <= made
  BY Existing DEF HoldInv, Keeps
<1>4. ASSUME NEW q \in Playlists, ~IsMapped(q), q # r.plist
      PROVE  ~IsMapped(q)'
  <2>1. q # 0
    BY DEF Playlists
  <2> QED BY <1>4, <2>1, MoveFacts DEF RowsDropped, Stores, IsMapped
<1>5. ASSUME Makes(r, s)
      PROVE  /\ s.plist = made + 1 /\ s.plist \in Playlists /\ made' = made + 1
             /\ ~IsMapped(s.plist)' /\ \A x \in Workers : job[x].plist # s.plist
  <2>1. s.plist = made + 1 /\ s.plist \in Playlists /\ made' = made + 1
    BY <1>2, <1>5, ParametersAssumption DEF Makes, Made, Playlists
  <2>2. \A x \in Workers : job[x].plist # s.plist
    <3>1. \A x \in Workers : job[x].plist # 0 => job[x].plist <= made /\ job[x].plist \in Nat
      BY <1>3 DEF Playlists
    <3> QED BY <1>2, <2>1, <3>1
  <2>3. ~IsMapped(s.plist)
    BY <1>2, <2>1, Existing
  <2> QED BY <1>4, <2>1, <2>2, <2>3
<1>6. Keeps(w)'
  <2>1. /\ s.pc # "idle" => s.queue \in Queues
        /\ s.plist # 0 => s.pc \in WithPlaylist
    BY MoveFacts
  <2>2. s.pc = "fill" => ~Open(s.plist)'
    <3>1. SUFFICES ASSUME s.pc = "fill" PROVE ~Open(s.plist)'
      OBVIOUS
    <3>2. Makes(r, s)
      BY <3>1, MoveFacts
    <3>3. ~IsNew(s.plist)'
      BY <1>5, <3>1, <3>2, NewAfter DEF Carries
    <3> QED BY <1>2, <1>5, <3>2, <3>3 DEF Open
  <2>3. s.pc \in {"own", "store"} =>
          ~IsMapped(s.plist)' /\ \A x \in Workers \ {w} : job'[x].plist # s.plist
    <3>1. CASE Makes(r, s)
      BY <1>1, <1>5, <3>1
    <3>2. CASE Looks(r, s)
      <4>1. s.plist = r.plist /\ r.pc = "own" /\ rows' = rows
        BY <3>2 DEF Looks
      <4> QED BY <1>1, <4>1 DEF HoldInv, Keeps, IsMapped
    <3> QED BY <3>1, <3>2, MoveFacts
  <2> QED BY <1>1, <2>1, <2>2, <2>3 DEF Keeps
<1>7. ASSUME NEW x \in Workers \ {w}
      PROVE  Keeps(x)'
  <2> DEFINE q == job[x].plist
  <2>1. Keeps(x) /\ job'[x] = job[x]
    BY <1>1 DEF HoldInv
  <2>2. job[x].pc = "fill" => ~Open(q)'
    BY <2>1, Closes, Existing DEF Keeps, WithPlaylist
  <2>3. ASSUME job[x].pc \in {"own", "store"}
        PROVE  ~IsMapped(q)' /\ \A y \in Workers \ {x} : job'[y].plist # q
    <3>1. q \in Playlists /\ q <= made /\ q # 0
      BY <2>3, Existing DEF WithPlaylist, Playlists
    <3>2. ~IsMapped(q) /\ \A y \in Workers \ {x} : job[y].plist # q
      BY <2>1, <2>3 DEF Keeps
    <3>3. r.plist # q
      BY <3>2
    <3>4. s.plist # q
      BY <1>2, <1>5, <3>1, <3>2, <3>3, MoveFacts
    <3> QED BY <1>1, <1>4, <3>1, <3>2, <3>3, <3>4
  <2> QED BY <2>1, <2>2, <2>3 DEF Keeps
<1>8. ASSUME NEW p \in Playlists, p > made'
      PROVE  Had(p)' = {}
  <2>1. p > made /\ p \in Nat
    BY <1>2, <1>8 DEF Playlists
  <2>2. ~(r.pc \in WithPlaylist /\ p = r.plist)
    BY <1>2, <2>1, Existing
  <2>3. copies'[p] = copies[p]
    BY <2>2, AddsToOwn
  <2> QED BY <2>1, <2>3 DEF HoldInv, Had
<1> QED BY <1>6, <1>7, <1>8 DEF HoldInv

LEMMA HoldInit ==
  ASSUME Init
  PROVE  HoldInv
BY DEF Init, HoldInv, Keeps, Idle, Had, Playlists

\* The rest of the world is not looked at.
LEMMA HoldAside ==
  ASSUME HoldInv, UNCHANGED <<rows, mirror, made, home, copies, job, faults>>
  PROVE  HoldInv' /\ \A p : Open(p)' <=> Open(p)
BY DEF HoldInv, Keeps, Open, IsMapped, IsNew, Had

LEMMA HoldNext ==
  ASSUME IInv, HoldInv, [Next]_vars
  PROVE  HoldInv'
BY Movement, HoldStep, HoldAside

-----------------------------------------------------------------------------
(* How often a queue names a video.                                          *)

Naming(q, S, v) == Cardinality({i \in S : q[i] = v})

LEMMA GreatestExists ==
  ASSUME NEW S \in SUBSET Nat, S # {}, NEW n \in Nat, \A x \in S : x <= n
  PROVE  Max(S) \in S /\ \A x \in S : x <= Max(S)
<1> DEFINE D == {n - x : x \in S}
<1>1. D \in SUBSET Nat /\ D # {}
  <2>1. \A x \in S : x \in Nat /\ n - x \in Nat
    OBVIOUS
  <2>2. PICK x \in S : TRUE
    OBVIOUS
  <2>3. n - x \in D
    OBVIOUS
  <2> QED BY <2>1, <2>3
<1>2. PICK d \in D : \A e \in D : d <= e
  <2> HIDE DEF D
  <2> QED BY <1>1, FirstExists
<1>3. PICK m \in S : d = n - m
  BY <1>2
<1>4. ASSUME NEW x \in S
      PROVE  m >= x
  <2>1. d <= n - x
    BY <1>2
  <2> QED BY <1>3, <2>1
<1>5. \E m2 \in S : \A x \in S : m2 >= x
  BY <1>4
<1>6. Max(S) \in S /\ \A x \in S : Max(S) >= x
  BY <1>5 DEF Max
<1> QED BY <1>6

\* Positions of a sequence that name a video.
LEMMA NamingType ==
  ASSUME NEW q \in Seq(Videos), NEW S \in SUBSET DOMAIN q, NEW v
  PROVE  /\ Naming(q, S, v) \in Nat /\ Naming(q, S, v) <= Len(q)
         /\ \A T \in SUBSET S : Naming(q, T, v) <= Naming(q, S, v)
         /\ \A i \in S : \A T \in SUBSET (S \ {i}) :
              q[i] = v => Naming(q, T, v) + 1 <= Naming(q, S, v)
<1> DEFINE Named(T) == {i \in T : q[i] = v}
<1>1. DOMAIN q = 1 .. Len(q) /\ Len(q) \in Nat
  OBVIOUS
<1>2. IsFiniteSet(1 .. Len(q)) /\ Cardinality(1 .. Len(q)) = Len(q)
  <2>1. PICK n \in Nat : n = Len(q)
    BY <1>1
  <2>2. IsFiniteSet(1 .. n) /\ Cardinality(1 .. n) = n
    BY FS_Interval
  <2> QED BY <2>1, <2>2
<1>3. ASSUME NEW T \in SUBSET DOMAIN q
      PROVE  IsFiniteSet(Named(T)) /\ Cardinality(Named(T)) \in Nat /\ Cardinality(Named(T)) <= Len(q)
  <2>1. Named(T) \subseteq 1 .. Len(q)
    BY <1>1
  <2>2. IsFiniteSet(Named(T)) /\ Cardinality(Named(T)) <= Len(q)
    BY <1>2, <2>1, FS_Subset
  <2> QED BY <2>2, FS_CardinalityType
<1>4. ASSUME NEW T \in SUBSET S
      PROVE  Cardinality(Named(T)) <= Cardinality(Named(S))
  <2>1. Named(T) \subseteq Named(S)
    OBVIOUS
  <2> QED BY <1>3, <2>1, FS_Subset
<1>5. ASSUME NEW i \in S, NEW T \in SUBSET (S \ {i}), q[i] = v
      PROVE  Cardinality(Named(T)) + 1 <= Cardinality(Named(S))
  <2>1. Named(T) \cup {i} \subseteq Named(S) /\ i \notin Named(T)
    BY <1>5
  <2>2. IsFiniteSet(Named(T)) /\ IsFiniteSet(Named(S)) /\ Cardinality(Named(T)) \in Nat
    BY <1>3
  <2>3. Cardinality(Named(T) \cup {i}) = Cardinality(Named(T)) + 1 /\ IsFiniteSet(Named(T) \cup {i})
    BY <2>1, <2>2, FS_AddElement
  <2>4. Cardinality(Named(T) \cup {i}) <= Cardinality(Named(S))
    BY <2>1, <2>2, FS_Subset
  <2> QED BY <2>3, <2>4
<1> QED BY <1>3, <1>4, <1>5 DEF Naming

\* Repeats is what its name says.
LEMMA RepeatsBound ==
  ASSUME NEW v \in Videos
  PROVE  /\ Repeats \in Nat
         /\ \A q \in Queues : \A S \in SUBSET DOMAIN q : Naming(q, S, v) <= Repeats
<1> DEFINE Names(q, y) == Cardinality({i \in DOMAIN q : q[i] = y})
           All == {Names(q, y) : q \in Queues, y \in Videos}
<1>1. PICK n \in Nat : \A q \in Queues : Len(q) <= n
  BY SnapshotsAssumption
<1>2. ASSUME NEW q \in Queues, NEW y \in Videos
      PROVE  Names(q, y) \in Nat /\ Names(q, y) <= n
  <2>1. q \in Seq(Videos) /\ Len(q) <= n /\ Len(q) \in Nat
    BY <1>1, ParametersAssumption
  <2>2. Naming(q, DOMAIN q, y) \in Nat /\ Naming(q, DOMAIN q, y) <= Len(q)
    BY <2>1, NamingType
  <2> QED BY <2>1, <2>2 DEF Naming
<1>3. Repeats = Max(All)
  BY DEF Repeats
<1>4. \A q \in Queues : Naming(q, DOMAIN q, v) = Names(q, v)
  BY DEF Naming
<1> HIDE DEF Names
<1>5. All \in SUBSET Nat /\ (\A x \in All : x <= n) /\ All # {}
  <2>1. PICK q \in Queues : TRUE
    BY SnapshotsAssumption
  <2> QED BY <1>2, <2>1
<1>6. Repeats \in All /\ \A x \in All : x <= Repeats
  <2> HIDE DEF All
  <2> QED BY <1>3, <1>5, GreatestExists
<1>7. ASSUME NEW q \in Queues, NEW S \in SUBSET DOMAIN q
      PROVE  Naming(q, S, v) <= Repeats
  <2>1. q \in Seq(Videos)
    BY ParametersAssumption
  <2>2. Naming(q, S, v) <= Naming(q, DOMAIN q, v) /\ Naming(q, S, v) \in Nat
        /\ Naming(q, DOMAIN q, v) \in Nat
    BY <2>1, NamingType
  <2>3. Naming(q, DOMAIN q, v) <= Repeats
    BY <1>4, <1>6
  <2> QED BY <1>5, <1>6, <2>2, <2>3
<1> QED BY <1>5, <1>6, <1>7

LEMMA NamedNowhere ==
  ASSUME NEW q, NEW S, NEW v, \A i \in S : q[i] # v
  PROVE  Naming(q, S, v) = 0
<1>1. {i \in S : q[i] = v} = {}
  OBVIOUS
<1> QED BY <1>1, FS_EmptySet DEF Naming

-----------------------------------------------------------------------------
(* How often the threads may yet send a video to a playlist without a fault. *)

\* The tracks a thread in the insert loop has before it.
Sends(r, v) == Naming(r.queue, r.todo, v)

\* Any thread may find p while it is open and v is not in its mirror.
Free(p, v) == Open(p) /\ v \notin mirror[p]

\* Where p is free for v, a thread may send v once for each time its queue names it,
\* unless it has sent it and is yet to flush it.  Where it is not, only a thread that
\* has p, and has not looked at the mirror since v got there, still sends v.
MaySend(r, p, v) ==
  IF Free(p, v)
    THEN IF r.plist = p /\ r.pc \in InLoop /\ v \in r.dirty THEN Sends(r, v) ELSE Repeats
    ELSE CASE r.plist = p /\ r.pc \in {"sync", "fill"}                 -> Repeats
           [] r.plist = p /\ r.pc = "load" /\ v \notin mirror[p] -> Repeats
           [] r.plist = p /\ r.pc \in InLoop                           -> Sends(r, v)
           [] OTHER                                                    -> 0

Bill(p, v) == [w \in Workers |-> MaySend(job[w], p, v)]

\* What was sent, and may yet be sent, against what threads and faults account for.
CopiesInv ==
  \A p \in Playlists, v \in Videos :
     copies[p][v] + Total(Bill(p, v), Workers) <= Repeats * (Cardinality(Workers) + faults)

\* The job of a thread, as far as its queue goes.
Queued(r) ==
  /\ r.pc # "idle" => r.queue \in Queues
  /\ r.todo \subseteq DOMAIN r.queue

LEMMA QueuedJob ==
  ASSUME IInv, HoldInv, NEW w \in Workers
  PROVE  Queued(job[w])
<1>1. Sane(job[w]) /\ (job[w].pc # "idle" => job[w].queue \in Queues)
  BY DEF IInv, ThreadInv, Fit, HoldInv, Keeps
<1> QED BY <1>1 DEF Queued, Sane, OrderedVideoIds

LEMMA SendsType ==
  ASSUME NEW v \in Videos, NEW r, Queued(r), r.pc # "idle"
  PROVE  /\ r.queue \in Seq(Videos) /\ Sends(r, v) \in 0 .. Repeats
         /\ \A i \in r.todo : r.queue[i] = v => Sends(r, v) >= 1
<1>1. r.queue \in Queues /\ r.queue \in Seq(Videos) /\ r.todo \in SUBSET DOMAIN r.queue
  BY ParametersAssumption DEF Queued
<1>2. Sends(r, v) \in Nat /\ Sends(r, v) <= Repeats /\ Repeats \in Nat
  BY <1>1, NamingType, RepeatsBound DEF Sends
<1>3. ASSUME NEW i \in r.todo, r.queue[i] = v
      PROVE  Sends(r, v) >= 1
  <2>1. {} \in SUBSET (r.todo \ {i}) /\ {} \in SUBSET DOMAIN r.queue
    OBVIOUS
  <2>2. Naming(r.queue, {}, v) + 1 <= Sends(r, v)
    BY <1>1, <1>3, <2>1, NamingType DEF Sends
  <2>3. Naming(r.queue, {}, v) \in Nat
    BY <1>1, <2>1, NamingType
  <2> QED BY <1>2, <2>2, <2>3
<1> QED BY <1>1, <1>2, <1>3

LEMMA MaySendType ==
  ASSUME NEW v \in Videos, NEW p, NEW r, Queued(r)
  PROVE  /\ Repeats \in Nat
         /\ MaySend(r, p, v) \in 0 .. Repeats /\ MaySend(r, p, v)' \in 0 .. Repeats
         /\ r.plist = p /\ r.pc \in InLoop => Sends(r, v) <= MaySend(r, p, v)
         /\ Free(p, v) /\ ~(r.plist = p /\ r.pc \in InLoop /\ v \in r.dirty) => MaySend(r, p, v) = Repeats
<1>1. Repeats \in Nat
  BY RepeatsBound
<1>2. r.pc \in InLoop => Sends(r, v) \in 0 .. Repeats
  BY SendsType DEF InLoop
<1>3. r.pc \in InLoop => r.pc \notin {"sync", "fill", "load"}
  BY DEF InLoop
<1>4. MaySend(r, p, v) \in 0 .. Repeats /\ MaySend(r, p, v)' \in 0 .. Repeats
  BY <1>1, <1>2 DEF MaySend
<1>5. r.plist = p /\ r.pc \in InLoop => Sends(r, v) <= MaySend(r, p, v)
  BY <1>1, <1>2, <1>3 DEF MaySend
<1> QED BY <1>1, <1>4, <1>5 DEF MaySend

\* Fewer tracks before it, fewer sends.
LEMMA SendsFewer ==
  ASSUME NEW v \in Videos, NEW r, Queued(r), r.pc # "idle",
         NEW s, s.queue = r.queue
  PROVE  /\ s.todo \subseteq r.todo => Sends(s, v) \in Nat /\ Sends(s, v) <= Sends(r, v)
         /\ \A i \in r.todo : s.todo \subseteq r.todo \ {i} /\ r.queue[i] = v
                                => Sends(s, v) + 1 <= Sends(r, v)
<1>1. r.queue \in Seq(Videos) /\ r.todo \in SUBSET DOMAIN r.queue
  BY SendsType DEF Queued
<1>2. ASSUME s.todo \subseteq r.todo PROVE Sends(s, v) \in Nat /\ Sends(s, v) <= Sends(r, v)
  <2>1. s.todo \in SUBSET DOMAIN r.queue
    BY <1>1, <1>2
  <2> QED BY <1>1, <1>2, <2>1, NamingType DEF Sends
<1>3. ASSUME NEW i \in r.todo, s.todo \subseteq r.todo \ {i}, r.queue[i] = v
      PROVE  Sends(s, v) + 1 <= Sends(r, v)
  BY <1>1, <1>3, NamingType DEF Sends
<1> QED BY <1>2, <1>3

\* Where a playlist is not free it does not become free, and nobody may send more.
LEMMA MaySendShrinks ==
  ASSUME NEW v \in Videos, NEW p, NEW r, Queued(r),
         Open(p)' => Open(p), mirror[p] \subseteq mirror'[p]
  PROVE  MaySend(r, p, v)' <= MaySend(r, p, v)
<1>1. Free(p, v)' => Free(p, v)
  BY DEF Free
<1>2. Repeats \in Nat /\ (r.pc \in InLoop => Sends(r, v) \in 0 .. Repeats)
  BY RepeatsBound, SendsType DEF InLoop
<1>3. r.pc \in InLoop => r.pc \notin {"sync", "fill", "load"}
  BY DEF InLoop
<1>4. CASE Free(p, v)'
  BY <1>1, <1>2, <1>4 DEF MaySend
<1>5. CASE ~Free(p, v)' /\ Free(p, v)
  BY <1>2, <1>3, <1>5 DEF MaySend
<1>6. CASE ~Free(p, v)' /\ ~Free(p, v)
  <2>1. v \notin mirror'[p] => v \notin mirror[p]
    OBVIOUS
  <2> QED BY <1>2, <1>3, <1>6, <2>1 DEF MaySend
<1> QED BY <1>1, <1>4, <1>5, <1>6

-----------------------------------------------------------------------------
(* Every send is one that was foreseen, or paid for by a fault.              *)

Spare == IF Fault THEN Repeats ELSE 0

Paying(r, s, p, v) ==
  copies'[p][v] + MaySend(s, p, v)' <= copies[p][v] + MaySend(r, p, v) + Spare

\* What there is to know of the step of a thread, from r to s, for playlist p.
Turn(w, r, s, p, v) ==
  /\ IInv /\ IInv' /\ HoldInv /\ HoldInv'
  /\ w \in Workers /\ r = job[w] /\ Goes(w, s) /\ Moves(r, s)
  /\ p \in Playlists /\ v \in Videos

LEMMA TurnFacts ==
  ASSUME NEW w, NEW r, NEW s, NEW p, NEW v, Turn(w, r, s, p, v)
  PROVE  /\ Queued(r) /\ Queued(s) /\ s \in Job
         /\ Repeats \in Nat /\ Spare \in {0, Repeats} /\ (Fault => Spare = Repeats)
         /\ copies \in [Playlists -> [Videos -> Nat]] /\ copies[p][v] \in Nat
         /\ MaySend(r, p, v) \in 0 .. Repeats /\ MaySend(s, p, v)' \in 0 .. Repeats
         /\ (Open(p)' => Open(p))
         /\ mirror \in [Playlists -> SUBSET Videos] /\ mirror[p] \subseteq mirror'[p]
         /\ (Free(p, v)' => Free(p, v))
         /\ r.pc \in InLoop => Sends(r, v) \in 0 .. Repeats
         /\ r.plist = p /\ r.pc \in InLoop => Sends(r, v) <= MaySend(r, p, v)
         /\ Free(p, v) /\ ~(r.plist = p /\ r.pc \in InLoop /\ v \in r.dirty)
               => MaySend(r, p, v) = Repeats
<1>1. w \in Workers /\ v \in Videos /\ p \in Playlists /\ r = job[w] /\ job'[w] = s
  BY NewAfter DEF Turn
<1>2. Queued(r) /\ Queued(s)
  <2>1. Sane(s) /\ (s.pc # "idle" => s.queue \in Queues)
    BY <1>1 DEF Turn, IInv, ThreadInv, Fit, HoldInv, Keeps
  <2>2. Queued(s)
    BY <2>1 DEF Queued, Sane, OrderedVideoIds
  <2> QED BY <1>1, <2>2, QueuedJob DEF Turn
<1>3. MaySend(s, p, v)' \in 0 .. Repeats
  BY <1>1, <1>2, MaySendType DEF Turn
<1>4. Open(p)' => Open(p)
  BY <1>1, Closes DEF Turn
<1>5. mirror \in [Playlists -> SUBSET Videos] /\ mirror[p] \subseteq mirror'[p]
  <2>1. mirror \in [Playlists -> SUBSET Videos]
    BY DEF Turn, IInv, TypeOK
  <2>2. CASE Reads(r, s)
    BY <1>1, <2>1, <2>2 DEF Reads
  <2>3. CASE Flushes(r, s)
    BY <1>1, <2>1, <2>3 DEF Flushes
  <2>4. CASE ~Reads(r, s) /\ ~Flushes(r, s)
    <3>1. mirror' = mirror
      BY <2>4 DEF Turn, Moves, Departs, Approaches, Makes, Looks, Stores, Passes, Adds, Pours
    <3> QED BY <2>1, <3>1
  <2> QED BY <2>2, <2>3, <2>4
<1>6. Free(p, v)' => Free(p, v)
  BY <1>4, <1>5 DEF Free
<1>7. s \in Job /\ copies \in [Playlists -> [Videos -> Nat]] /\ copies[p][v] \in Nat
  BY <1>1 DEF Turn, IInv, TypeOK
<1>8. r.pc \in InLoop => Sends(r, v) \in 0 .. Repeats
  BY <1>1, <1>2, SendsType DEF Turn, InLoop
<1> QED BY <1>1, <1>2, <1>3, <1>4, <1>5, <1>6, <1>7, <1>8, MaySendType DEF Turn, Spare

\* A thread that neither had p nor gets it.
LEMMA PayingOther ==
  ASSUME NEW w, NEW r, NEW s, NEW p, NEW v, Turn(w, r, s, p, v),
         r.plist # p, s.plist # p, copies'[p] = copies[p]
  PROVE  Paying(r, s, p, v)
<1>1. MaySend(s, p, v)' = IF Free(p, v)' THEN Repeats ELSE 0
  BY DEF MaySend
<1>2. MaySend(s, p, v)' <= MaySend(r, p, v)
  BY <1>1, TurnFacts
<1> QED BY <1>2, TurnFacts DEF Paying

LEMMA PayingDeparts ==
  ASSUME NEW w, NEW r, NEW s, NEW p, NEW v, Turn(w, r, s, p, v), Departs(r, s)
  PROVE  Paying(r, s, p, v)
<1>1. s.plist # p /\ copies' = copies
  BY DEF Departs, Turn, Playlists
<1>2. MaySend(s, p, v)' = IF Free(p, v)' THEN Repeats ELSE 0
  BY <1>1 DEF MaySend
<1>3. CASE ~(r.plist = p /\ r.pc \in InLoop /\ v \in r.dirty) \/ Fault
  BY <1>1, <1>2, <1>3, TurnFacts DEF Paying
<1>4. CASE r.plist = p /\ r.pc \in InLoop /\ v \in r.dirty /\ ~Fault
  <2>1. (\A c \in Categories : rows'[c] = NoRow) /\ made' = made
    BY <1>4 DEF Departs, InLoop
  <2>2. ~IsMapped(p)'
    BY <1>1, <2>1 DEF IsMapped, NoRow, Turn, Playlists
  <2>3. ~IsNew(p)'
    <3>1. ~Carries(s, p)
      BY <1>1 DEF Carries
    <3>2. ASSUME NEW x \in Workers \ {w} PROVE ~Carries(job[x], p)
      BY <1>4 DEF Turn, HoldInv, Keeps, Carries
    <3> QED BY <3>1, <3>2, NewAfter DEF Turn
  <2>4. p <= made
    BY <1>4, Existing DEF Turn, InLoop, WithPlaylist
  <2>5. made \in Nat /\ p \in Nat
    BY Existing DEF Turn, Playlists
  <2>6. ~Open(p)'
    BY <2>1, <2>2, <2>3, <2>4, <2>5 DEF Open
  <2>7. ~Free(p, v)'
    BY <2>6 DEF Free
  <2> QED BY <1>1, <1>2, <2>7, TurnFacts DEF Paying
<1> QED BY <1>3, <1>4

\* Finding a playlist, making it, mapping it, and reading it.
LEMMA PayingFinding ==
  ASSUME NEW w, NEW r, NEW s, NEW p, NEW v, Turn(w, r, s, p, v),
         Approaches(r, s) \/ Makes(r, s) \/ Looks(r, s) \/ Stores(r, s)
  PROVE  Paying(r, s, p, v)
<1>1. copies' = copies /\ mirror' = mirror
  BY DEF Approaches, Makes, Looks, Stores
<1>2. r.pc \notin InLoop
  BY DEF Approaches, Makes, Looks, Stores, InLoop
<1>3. s.pc \notin InLoop
  BY DEF Approaches, Makes, Looks, Stores, InLoop
<1>4. Free(p, v) => MaySend(r, p, v) = Repeats
  BY <1>2, TurnFacts
<1>5. SUFFICES MaySend(s, p, v)' <= MaySend(r, p, v)
  BY <1>1, TurnFacts DEF Paying
<1>6. CASE Free(p, v)
  BY <1>4, <1>6, TurnFacts
<1>7. CASE ~Free(p, v)
  <2>1. ~Free(p, v)'
    BY <1>7, TurnFacts
  <2>2. CASE s.plist # p
    <3>1. MaySend(s, p, v)' = 0
      BY <2>1, <2>2 DEF MaySend
    <3> QED BY <3>1, TurnFacts
  <2>3. CASE s.plist = p /\ Open(p)
    <3>1. v \in mirror'[p]
      BY <1>1, <1>7, <2>3 DEF Free
    <3>2. CASE s.pc \notin {"sync", "fill"}
      <4>1. MaySend(s, p, v)' = 0
        BY <1>3, <2>1, <3>1, <3>2 DEF MaySend
      <4> QED BY <4>1, TurnFacts
    <3>3. CASE s.pc \in {"sync", "fill"}
      <4>1. Makes(r, s)
        BY <3>3 DEF Approaches, Looks, Stores
      <4>2. p > made
        BY <2>3, <4>1, Existing DEF Makes, Turn
      <4>3. mirror[p] = {}
        BY <4>2 DEF Turn, HoldInv, IInv, WorldInv
      <4> QED BY <1>1, <3>1, <4>3
    <3> QED BY <3>2, <3>3
  <2>4. CASE s.plist = p /\ ~Open(p)
    <3>1. s.pc \in {"verify", "forget", "touch", "own", "store"}
      <4>1. CASE Approaches(r, s)
        BY <2>4, <4>1 DEF Approaches, Open
      <4>2. CASE Makes(r, s)
        BY <2>4, <4>2, Existing DEF Makes, Open, Turn
      <4>3. CASE Looks(r, s)
        BY <4>3 DEF Looks
      <4>4. CASE Stores(r, s)
        BY <2>4, <4>4 DEF Stores, Open, IsNew, Turn
      <4> QED BY <4>1, <4>2, <4>3, <4>4
    <3>2. MaySend(s, p, v)' = 0
      BY <1>3, <2>1, <3>1 DEF MaySend
    <3> QED BY <3>2, TurnFacts
  <2> QED BY <2>2, <2>3, <2>4
<1> QED BY <1>6, <1>7

LEMMA PayingReads ==
  ASSUME NEW w, NEW r, NEW s, NEW p, NEW v, Turn(w, r, s, p, v), Reads(r, s)
  PROVE  Paying(r, s, p, v)
<1>1. copies' = copies /\ s.plist = r.plist /\ r.pc \notin InLoop /\ s.dirty = {}
  BY DEF Reads, InLoop
<1>2. CASE r.plist # p
  BY <1>1, <1>2, PayingOther
<1>3. CASE r.plist = p /\ MaySend(r, p, v) = Repeats
  BY <1>1, <1>3, TurnFacts DEF Paying
<1>4. CASE r.plist = p /\ MaySend(r, p, v) # Repeats
  <2>1. ~Free(p, v)
    BY <1>1, <1>4, TurnFacts
  <2>2. r.pc = "load" /\ v \in mirror[p]
    BY <1>4, <2>1 DEF MaySend, Reads, InLoop
  <2>3. s.pc # "sync" /\ \A i \in s.todo : s.queue[i] # v
    BY <1>4, <2>2 DEF Reads
  <2>4. Sends(s, v) = 0
    BY <2>3, NamedNowhere DEF Sends
  <2>5. s.pc \in {"done"} \cup InLoop
    BY <2>3 DEF Reads
  <2>6. ~Free(p, v)'
    BY <2>1, TurnFacts
  <2>7. MaySend(s, p, v)' = 0
    BY <2>4, <2>5, <2>6 DEF MaySend, InLoop
  <2> QED BY <1>1, <2>7, TurnFacts DEF Paying
<1> QED BY <1>2, <1>3, <1>4

\* One that goes on with tracks it already had before it, but for the one it has sent.
LEMMA OnwardSends ==
  ASSUME NEW w, NEW r, NEW s, NEW p, NEW v, Turn(w, r, s, p, v), r.pc \in InLoop,
         NEW T, T \subseteq r.todo, NEW D, Onward(r, T, D, s)
  PROVE  /\ s.pc # "idle" /\ s.pc \notin {"sync", "fill", "load"}
         /\ Sends(s, v) \in Nat /\ Sends(s, v) <= Sends(r, v)
         /\ \A i \in r.todo : T \subseteq r.todo \ {i} /\ r.queue[i] = v
                                => Sends(s, v) + 1 <= Sends(r, v)
         /\ (v \in D => s.pc \in InLoop)
<1>1. s.queue = r.queue /\ s.todo \subseteq T /\ s.pc \in {"done"} \cup InLoop
  BY DEF Onward
<1>2. Queued(r) /\ r.pc # "idle" /\ v \in Videos
  BY TurnFacts DEF Turn, InLoop
<1>3. Sends(s, v) \in Nat /\ Sends(s, v) <= Sends(r, v)
  BY <1>1, <1>2, SendsFewer
<1>4. \A i \in r.todo : T \subseteq r.todo \ {i} /\ r.queue[i] = v
                          => Sends(s, v) + 1 <= Sends(r, v)
  BY <1>1, <1>2, SendsFewer
<1> QED BY <1>1, <1>3, <1>4 DEF Onward, InLoop

\* One that keeps the tracks it is yet to flush.
LEMMA PayingOnward ==
  ASSUME NEW w, NEW r, NEW s, NEW p, NEW v, Turn(w, r, s, p, v), r.pc \in InLoop, r.plist = p,
         NEW T, T \subseteq r.todo, NEW D, Onward(r, T, D, s), v \in D <=> v \in r.dirty
  PROVE  MaySend(s, p, v)' <= MaySend(r, p, v)
<1>1. /\ s.pc # "idle" /\ s.pc \notin {"sync", "fill", "load"} /\ s.plist = p /\ s.dirty = D
      /\ Sends(s, v) \in Nat /\ Sends(s, v) <= Sends(r, v) /\ (v \in D => s.pc \in InLoop)
      /\ Sends(r, v) <= MaySend(r, p, v) /\ Sends(r, v) \in 0 .. Repeats
      /\ MaySend(r, p, v) \in 0 .. Repeats /\ Repeats \in Nat
  <2>1. /\ s.pc # "idle" /\ s.pc \notin {"sync", "fill", "load"}
        /\ Sends(s, v) \in Nat /\ Sends(s, v) <= Sends(r, v) /\ (v \in D => s.pc \in InLoop)
    BY OnwardSends
  <2>2. /\ Sends(r, v) <= MaySend(r, p, v) /\ Sends(r, v) \in 0 .. Repeats
        /\ MaySend(r, p, v) \in 0 .. Repeats /\ Repeats \in Nat
    BY TurnFacts
  <2>3. s.plist = p /\ s.dirty = D
    BY DEF Onward
  <2> QED BY <2>1, <2>2, <2>3
<1>2. CASE Free(p, v)' /\ v \notin r.dirty
  BY <1>1, <1>2, TurnFacts
<1>3. CASE Free(p, v)' /\ v \in r.dirty
  <2>1. MaySend(s, p, v)' = Sends(s, v)
    BY <1>1, <1>3 DEF MaySend
  <2> QED BY <1>1, <2>1
<1>4. CASE ~Free(p, v)'
  <2>1. MaySend(s, p, v)' \in {0, Sends(s, v)}
    BY <1>1, <1>4 DEF MaySend
  <2> QED BY <1>1, <2>1
<1> QED BY <1>2, <1>3, <1>4

LEMMA PayingPasses ==
  ASSUME NEW w, NEW r, NEW s, NEW p, NEW v, Turn(w, r, s, p, v), Passes(r, s)
  PROVE  Paying(r, s, p, v)
<1>1. r.pc \in InLoop /\ copies' = copies /\ s.plist = r.plist /\ Onward(r, r.todo, r.dirty, s)
  BY DEF Passes, Onward, InLoop
<1>2. CASE r.plist # p
  BY <1>1, <1>2, PayingOther
<1>3. CASE r.plist = p
  <2>1. MaySend(s, p, v)' <= MaySend(r, p, v)
    BY <1>1, <1>3, PayingOnward
  <2> QED BY <1>1, <2>1, TurnFacts DEF Paying
<1> QED BY <1>2, <1>3

LEMMA PayingAdds ==
  ASSUME NEW w, NEW r, NEW s, NEW p, NEW v, Turn(w, r, s, p, v), NEW i \in Nat, Adds(r, s, i)
  PROVE  Paying(r, s, p, v)
<1> DEFINE u == r.queue[i]
<1>1. /\ r.pc = "insert" /\ r.pc \in InLoop /\ i \in r.todo /\ s.plist = r.plist
      /\ copies' = [copies EXCEPT ![r.plist][u] = @ + 1]
      /\ \/ Onward(r, r.todo \ {i}, r.dirty \cup {u}, s) /\ UNCHANGED faults
         \/ Onward(r, r.todo, r.dirty, s) /\ Fault
  BY DEF Adds, Onward, InLoop
<1>2. CASE r.plist # p
  <2>1. copies'[p] = copies[p]
    BY <1>1, <1>2, TurnFacts DEF Turn
  <2> QED BY <1>1, <1>2, <2>1, PayingOther
<1>3. CASE r.plist = p /\ v # u
  <2>1. copies'[p][v] = copies[p][v]
    BY <1>1, <1>3, TurnFacts DEF Turn
  <2>2. MaySend(s, p, v)' <= MaySend(r, p, v)
    <3>1. CASE Onward(r, r.todo \ {i}, r.dirty \cup {u}, s)
      <4>1. r.todo \ {i} \subseteq r.todo /\ (v \in r.dirty \cup {u} <=> v \in r.dirty)
        BY <1>3
      <4> QED BY <1>1, <1>3, <3>1, <4>1, PayingOnward
    <3>2. CASE Onward(r, r.todo, r.dirty, s)
      BY <1>1, <1>3, <3>2, PayingOnward
    <3> QED BY <1>1, <3>1, <3>2
  <2> QED BY <2>1, <2>2, TurnFacts DEF Paying
<1>4. CASE r.plist = p /\ v = u
  <2>1. copies'[p][v] = copies[p][v] + 1
    BY <1>1, <1>4, TurnFacts DEF Turn
  <2>2. Sends(r, v) >= 1 /\ Sends(r, v) \in 0 .. Repeats
    BY <1>1, <1>4, TurnFacts, SendsType DEF Turn
  <2>3. CASE Onward(r, r.todo, r.dirty, s) /\ Fault
    <3>1. MaySend(s, p, v)' <= MaySend(r, p, v)
      BY <1>1, <1>4, <2>3, PayingOnward
    <3>2. Spare >= 1
      BY <2>2, <2>3, TurnFacts
    <3> QED BY <2>1, <3>1, <3>2, TurnFacts DEF Paying
  <2>4. CASE Onward(r, r.todo \ {i}, r.dirty \cup {u}, s)
    <3>1. r.todo \ {i} \subseteq r.todo /\ v \in r.dirty \cup {u}
      BY <1>4
    <3>2. /\ s.pc \in InLoop /\ s.pc \notin {"sync", "fill", "load"}
          /\ Sends(s, v) \in Nat /\ Sends(s, v) + 1 <= Sends(r, v)
      BY <1>1, <1>4, <2>4, <3>1, OnwardSends
    <3>3. v \in s.dirty /\ s.plist = p
      BY <1>4, <2>4 DEF Onward
    <3>4. MaySend(s, p, v)' = Sends(s, v)
      BY <3>2, <3>3 DEF MaySend
    <3>5. Sends(r, v) <= MaySend(r, p, v)
      BY <1>1, <1>4, TurnFacts
    <3>6. MaySend(s, p, v)' + 1 <= MaySend(r, p, v)
      BY <2>2, <3>2, <3>4, <3>5, TurnFacts
    <3> QED BY <2>1, <3>6, TurnFacts DEF Paying
  <2> QED BY <1>1, <2>3, <2>4
<1> QED BY <1>2, <1>3, <1>4

LEMMA PayingFlushes ==
  ASSUME NEW w, NEW r, NEW s, NEW p, NEW v, Turn(w, r, s, p, v), Flushes(r, s)
  PROVE  Paying(r, s, p, v)
<1>1. /\ r.pc \in InLoop /\ copies' = copies /\ s.plist = r.plist /\ Onward(r, r.todo, {}, s)
      /\ (mirror' = [mirror EXCEPT ![r.plist] = @ \cup r.dirty] \/ Fault)
  BY DEF Flushes, Onward, InLoop
<1>2. CASE r.plist # p
  BY <1>1, <1>2, PayingOther
<1>3. CASE r.plist = p /\ Fault
  BY <1>1, <1>3, TurnFacts DEF Paying
<1>4. CASE r.plist = p /\ v \notin r.dirty
  <2>1. MaySend(s, p, v)' <= MaySend(r, p, v)
    BY <1>1, <1>4, PayingOnward
  <2> QED BY <1>1, <2>1, TurnFacts DEF Paying
<1>5. CASE r.plist = p /\ ~Fault /\ v \in r.dirty
  <2>1. v \in mirror'[p]
    <3>1. mirror' = [mirror EXCEPT ![p] = @ \cup r.dirty]
      BY <1>1, <1>5
    <3>2. p \in Playlists /\ mirror \in [Playlists -> SUBSET Videos]
      BY TurnFacts DEF Turn
    <3> QED BY <1>5, <3>1, <3>2
  <2>2. s.pc \notin {"sync", "fill", "load"} /\ Sends(s, v) \in Nat /\ Sends(s, v) <= Sends(r, v)
    BY <1>1, OnwardSends
  <2>3. MaySend(s, p, v)' \in {0, Sends(s, v)}
    BY <2>1, <2>2 DEF MaySend, Free
  <2>4. MaySend(s, p, v)' <= MaySend(r, p, v)
    BY <1>1, <1>5, <2>2, <2>3, TurnFacts
  <2> QED BY <1>1, <2>4, TurnFacts DEF Paying
<1> QED BY <1>2, <1>3, <1>4, <1>5

LEMMA PayingPours ==
  ASSUME NEW w, NEW r, NEW s, NEW p, NEW v, Turn(w, r, s, p, v), Pours(r, s)
  PROVE  Paying(r, s, p, v)
<1>1. r.pc = "fill" /\ s.pc = "copied" /\ s.plist = r.plist /\ r.queue \in Queues
  BY TurnFacts DEF Pours, Queued
<1>2. PICK V \in SUBSET ToSet(r.queue) :
        copies' = [copies EXCEPT ![r.plist] = [y \in Videos |-> @[y] + IF y \in V THEN 1 ELSE 0]]
  BY DEF Pours
<1>3. CASE r.plist # p
  <2>1. copies'[p] = copies[p]
    BY <1>2, <1>3, TurnFacts DEF Turn
  <2> QED BY <1>1, <1>3, <2>1, PayingOther
<1>4. CASE r.plist = p
  <2>1. ~Open(p)
    BY <1>1, <1>4 DEF Turn, HoldInv, Keeps
  <2>2. ~Free(p, v) /\ ~Free(p, v)'
    BY <2>1, TurnFacts DEF Free
  <2>3. MaySend(r, p, v) = Repeats /\ MaySend(s, p, v)' = 0
    BY <1>1, <1>4, <2>2 DEF MaySend, InLoop
  <2>4. copies'[p][v] = copies[p][v] + IF v \in V THEN 1 ELSE 0
    BY <1>2, <1>4, TurnFacts DEF Turn
  <2>5. v \in V => Repeats >= 1
    <3>1. SUFFICES ASSUME v \in V PROVE Repeats >= 1
      OBVIOUS
    <3>2. PICK i \in DOMAIN r.queue : r.queue[i] = v
      BY <1>2, <3>1 DEF ToSet
    <3>3. r.queue \in Seq(Videos) /\ {} \in SUBSET (DOMAIN r.queue \ {i}) /\ {} \in SUBSET DOMAIN r.queue
          /\ DOMAIN r.queue \in SUBSET DOMAIN r.queue
      BY <1>1, ParametersAssumption
    <3>4. Naming(r.queue, {}, v) + 1 <= Naming(r.queue, DOMAIN r.queue, v)
      BY <3>2, <3>3, NamingType
    <3>5. Naming(r.queue, {}, v) \in Nat /\ Naming(r.queue, DOMAIN r.queue, v) \in Nat
      BY <3>3, NamingType
    <3>6. Naming(r.queue, DOMAIN r.queue, v) <= Repeats /\ Repeats \in Nat
      BY <1>1, <3>3, RepeatsBound DEF Turn
    <3> QED BY <3>4, <3>5, <3>6
  <2> QED BY <2>3, <2>4, <2>5, TurnFacts DEF Paying
<1> QED BY <1>3, <1>4

LEMMA EveryTurnPays ==
  ASSUME NEW w, NEW r, NEW s, NEW p, NEW v, Turn(w, r, s, p, v)
  PROVE  Paying(r, s, p, v)
BY PayingDeparts, PayingFinding, PayingReads, PayingPasses, PayingAdds, PayingFlushes, PayingPours
   DEF Turn, Moves

-----------------------------------------------------------------------------
(* So the count never exceeds what threads and faults account for.           *)

LEMMA BillType ==
  ASSUME IInv, HoldInv, NEW p \in Playlists, NEW v \in Videos
  PROVE  /\ Bill(p, v) \in [Workers -> Nat]
         /\ \A x \in Workers : Bill(p, v)[x] \in 0 .. Repeats /\ Bill(p, v)[x] = MaySend(job[x], p, v)
         /\ Total(Bill(p, v), Workers) \in Nat
<1>1. ASSUME NEW x \in Workers PROVE MaySend(job[x], p, v) \in 0 .. Repeats /\ Repeats \in Nat
  BY QueuedJob, MaySendType
<1>2. \A x \in Workers : MaySend(job[x], p, v) \in 0 .. Repeats /\ MaySend(job[x], p, v) \in Nat
  BY <1>1
<1>3. /\ Bill(p, v) \in [Workers -> Nat]
      /\ \A x \in Workers : Bill(p, v)[x] \in 0 .. Repeats /\ Bill(p, v)[x] = MaySend(job[x], p, v)
  BY <1>2 DEF Bill
<1> QED BY <1>3, TotalType, ParametersAssumption

LEMMA CopiesInit ==
  ASSUME Init, NEW p \in Playlists, NEW v \in Videos
  PROVE  copies[p][v] + Total(Bill(p, v), Workers) <= Repeats * (Cardinality(Workers) + faults)
<1>1. IInv /\ HoldInv /\ copies[p][v] = 0 /\ faults = 0
  BY InvInit, HoldInit DEF Init
<1>2. Bill(p, v) \in [Workers -> Nat] /\ (\A x \in Workers : Bill(p, v)[x] <= Repeats) /\ Repeats \in Nat
      /\ Total(Bill(p, v), Workers) \in Nat
  BY <1>1, BillType, RepeatsBound
<1>3. Total(Bill(p, v), Workers) <= Cardinality(Workers) * Repeats
  BY <1>2, TotalBound, ParametersAssumption
<1>4. Cardinality(Workers) \in Nat
  BY FS_CardinalityType, ParametersAssumption
<1>5. Repeats * (Cardinality(Workers) + faults) = Cardinality(Workers) * Repeats
  BY <1>1, <1>2, <1>4
<1> QED BY <1>1, <1>2, <1>3, <1>5

LEMMA CopiesStep ==
  ASSUME IInv, IInv', HoldInv, HoldInv', CopiesInv,
         NEW w \in Workers, NEW s, Goes(w, s), Moves(job[w], s),
         NEW p \in Playlists, NEW v \in Videos
  PROVE  copies'[p][v] + Total(Bill(p, v)', Workers) <= Repeats * (Cardinality(Workers) + faults')
<1> DEFINE f == Bill(p, v)
           g == Bill(p, v)'
           h == [x \in Workers |-> IF x = w THEN g[w] ELSE f[x]]
<1>1. PICK r : r = job[w]
  OBVIOUS
<1>2. Turn(w, r, s, p, v)
  BY <1>1 DEF Turn
<1>3. job'[w] = s /\ \A x \in Workers \ {w} : job'[x] = job[x]
  BY NewAfter
<1>4. /\ Repeats \in Nat /\ Spare \in {0, Repeats} /\ copies[p][v] \in Nat /\ copies'[p][v] \in Nat
      /\ (Open(p)' => Open(p)) /\ mirror[p] \subseteq mirror'[p]
      /\ MaySend(s, p, v)' \in 0 .. Repeats
  BY <1>2, TurnFacts DEF IInv, TypeOK
<1>5. /\ f \in [Workers -> Nat] /\ Total(f, Workers) \in Nat
      /\ \A x \in Workers : f[x] = MaySend(job[x], p, v)
  BY BillType
<1>6. g[w] = MaySend(s, p, v)' /\ g[w] \in Nat
  BY <1>3, <1>4 DEF Bill
<1>7. ASSUME NEW x \in Workers \ {w}
      PROVE  g[x] \in Nat /\ g[x] <= f[x]
  <2>1. PICK t : t = job[x]
    OBVIOUS
  <2>2. g[x] = MaySend(t, p, v)'
    BY <1>3, <2>1 DEF Bill
  <2>3. Queued(t)
    BY <2>1, QueuedJob
  <2>4. MaySend(t, p, v)' \in 0 .. Repeats
    BY <2>3, MaySendType
  <2>5. MaySend(t, p, v)' <= MaySend(t, p, v)
    BY <1>4, <2>3, MaySendShrinks
  <2> QED BY <1>4, <1>5, <2>1, <2>2, <2>4, <2>5
<1>8. g \in [Workers -> Nat]
  BY <1>6, <1>7 DEF Bill
<1>9. h \in [Workers -> Nat] /\ h[w] = g[w] /\ \A x \in Workers \ {w} : h[x] = f[x]
  BY <1>5, <1>6
<1>10. \A x \in Workers : g[x] <= h[x]
  BY <1>6, <1>7, <1>9
<1>11. Total(g, Workers) <= Total(f, Workers) - f[w] + g[w]
  <2> HIDE DEF f, g, h
  <2>1. Total(h, Workers) = Total(f, Workers) - f[w] + h[w]
    BY <1>5, <1>9, TotalChange, ParametersAssumption
  <2>2. Total(g, Workers) <= Total(h, Workers)
    BY <1>8, <1>9, <1>10, TotalMonotonic, ParametersAssumption
  <2> QED BY <1>9, <2>1, <2>2
<1>12. copies'[p][v] + g[w] <= copies[p][v] + f[w] + Spare
  BY <1>1, <1>2, <1>5, <1>6, EveryTurnPays DEF Paying
<1>13. Total(g, Workers) \in Nat /\ f[w] \in Nat
  BY <1>5, <1>8, TotalType, ParametersAssumption
<1>14. copies'[p][v] + Total(g, Workers) <= Repeats * (Cardinality(Workers) + faults) + Spare
  <2>1. copies[p][v] + Total(f, Workers) <= Repeats * (Cardinality(Workers) + faults)
    BY DEF CopiesInv
  <2>2. Cardinality(Workers) + faults \in Nat
    BY FS_CardinalityType, ParametersAssumption DEF IInv, TypeOK
  <2>3. PICK b \in Nat : b = Repeats * (Cardinality(Workers) + faults)
    BY <1>4, <2>2
  <2> QED BY <1>4, <1>5, <1>6, <1>11, <1>12, <1>13, <2>1, <2>3
<1>15. Repeats * (Cardinality(Workers) + faults) + Spare = Repeats * (Cardinality(Workers) + faults')
  <2>1. Cardinality(Workers) \in Nat /\ faults \in Nat
    BY FS_CardinalityType, ParametersAssumption DEF IInv, TypeOK
  <2>2. CASE Fault
    <3>1. Spare = Repeats /\ faults' = faults + 1
      BY <2>2 DEF Spare, Fault
    <3>2. ASSUME NEW n \in Nat PROVE Repeats * n + Repeats = Repeats * (n + 1)
      BY <1>4
    <3>3. Cardinality(Workers) + faults' = (Cardinality(Workers) + faults) + 1
      BY <2>1, <3>1
    <3> QED BY <2>1, <3>1, <3>2, <3>3
  <2>3. CASE ~Fault
    <3>1. faults' = faults
      BY <1>2, <2>3 DEF Turn, Moves, Departs, Approaches, Makes, Looks, Stores, Reads, Passes, Adds,
                        Flushes, Pours, Faulty
    <3>2. Spare = 0 /\ Repeats * (Cardinality(Workers) + faults) \in Nat
      BY <1>4, <2>1, <2>3 DEF Spare
    <3> QED BY <3>1, <3>2
  <2> QED BY <2>2, <2>3
<1> QED BY <1>14, <1>15

LEMMA CopiesNext ==
  ASSUME IInv, HoldInv, CopiesInv, [Next]_vars
  PROVE  CopiesInv'
<1>1. IInv' /\ HoldInv'
  BY InvStep, HoldNext
<1>2. CASE \E w \in Workers : \E s : Goes(w, s) /\ Moves(job[w], s)
  BY <1>1, <1>2, CopiesStep DEF CopiesInv
<1>3. CASE UNCHANGED <<rows, mirror, made, home, copies, job, faults>>
  <2>1. \A p : Open(p)' <=> Open(p)
    BY <1>3, HoldAside
  <2>2. \A p, v : Free(p, v)' <=> Free(p, v)
    BY <1>3, <2>1 DEF Free
  <2>3. \A p, v : Bill(p, v)' = Bill(p, v)
    BY <1>3, <2>2 DEF Bill, MaySend
  <2> QED BY <1>3, <2>3 DEF CopiesInv
<1> QED BY <1>2, <1>3, Movement

LEMMA CopiesEnough ==
  ASSUME IInv, HoldInv, CopiesInv
  PROVE  CopiesBounded
<1> SUFFICES ASSUME NEW p \in Playlists, NEW v \in Videos
             PROVE  copies[p][v] <= Repeats * (Cardinality(Workers) + faults)
  BY DEF CopiesBounded
<1>1. copies[p][v] \in Nat /\ Total(Bill(p, v), Workers) \in Nat
  BY BillType DEF IInv, TypeOK
<1>2. Repeats * (Cardinality(Workers) + faults) \in Nat
  <2>1. Cardinality(Workers) + faults \in Nat
    BY FS_CardinalityType, ParametersAssumption DEF IInv, TypeOK
  <2> QED BY <2>1, RepeatsBound
<1> QED BY <1>1, <1>2 DEF CopiesInv

-----------------------------------------------------------------------------
(* What a playlist goes through, as FindOrCreate has it.                     *)

Stages == [p \in Playlists |-> Stage(p)]

LEMMA StageOf ==
  ASSUME IInv, NEW p \in Playlists
  PROVE  /\ Stage(p) = "none" <=> p > made
         /\ Stage(p) = "new" <=> p <= made /\ IsNew(p)
         /\ Stage(p) = "mapped" <=> p <= made /\ ~IsNew(p) /\ IsMapped(p)
         /\ Stage(p) \in {"none", "new", "mapped", "left"}
         /\ Stages[p] = Stage(p)
<1>1. made \in Nat /\ p \in Nat
  BY Existing DEF Playlists
<1>2. p > made <=> ~(p <= made)
  BY <1>1
<1> QED BY <1>2 DEF Stage, Stages

\* What is known after a step as well.
LEMMA StageAfter ==
  ASSUME IInv', NEW p \in Playlists
  PROVE  /\ Stage(p)' = "none" <=> p > made'
         /\ Stage(p)' = "new" <=> p <= made' /\ IsNew(p)'
         /\ Stage(p)' = "mapped" <=> p <= made' /\ ~IsNew(p)' /\ IsMapped(p)'
         /\ Stage(p)' \in {"none", "new", "mapped", "left"}
         /\ Stages'[p] = Stage(p)'
<1>1. made' \in Nat /\ p \in Nat
  BY ParametersAssumption DEF IInv, TypeOK, Playlists
<1>2. p > made' <=> ~(p <= made')
  BY <1>1
<1> QED BY <1>2 DEF Stage, Stages

\* A new playlist is not mapped yet.
LEMMA NewIsUnmapped ==
  ASSUME HoldInv, NEW p, IsNew(p)
  PROVE  ~IsMapped(p)
BY DEF HoldInv, Keeps, IsNew

\* A step by which playlists are at most left.
LEMMA LeaveStep ==
  ASSUME IInv, IInv', HoldInv, UNCHANGED <<made, home, mirror, copies>>, RowsDropped,
         \A p \in Playlists : IsNew(p)' => IsNew(p)
  PROVE  Life!Next
<1>1. \A p \in Playlists : IsMapped(p)' => IsMapped(p)
  BY DEF IsMapped, RowsDropped, Playlists
<1>2. ASSUME NEW p \in Playlists
      PROVE  Stage(p)' = Stage(p) \/ (Stage(p) \in {"new", "mapped"} /\ Stage(p)' = "left")
  BY <1>1, StageOf, StageAfter, NewIsUnmapped
<1>3. PICK S \in SUBSET Playlists : S = {p \in Playlists : Stage(p)' # Stage(p)}
  OBVIOUS
<1>4. \A p \in S : Stages[p] \in {"new", "mapped"}
  BY <1>2, <1>3, StageOf
<1>5. Stages' = [p \in Playlists |-> IF p \in S THEN "left" ELSE Stages[p]]
  BY <1>2, <1>3 DEF Stages
<1>6. home' = home /\ Inserted' = Inserted /\ mirror' = mirror
  BY DEF Inserted, Had
<1>7. Life!Leave(S)
  BY <1>4, <1>5, <1>6 DEF Life!Leave, Stages
<1> QED BY <1>7 DEF Life!Next

\* A step that changes what is in playlists, or what is claimed to be.
LEMMA SameStages ==
  ASSUME UNCHANGED <<made, rows>>, \A p \in Playlists : IsNew(p)' <=> IsNew(p)
  PROVE  Stages' = Stages
<1>1. ASSUME NEW p \in Playlists PROVE Stage(p)' = Stage(p)
  BY DEF Stage, IsMapped
<1> QED BY <1>1 DEF Stages

LEMMA ClaimStep ==
  ASSUME IInv, UNCHANGED <<made, home, copies, rows>>, \A p \in Playlists : IsNew(p)' <=> IsNew(p),
         NEW p \in Playlists, NEW V \in SUBSET Had(p), mirror' = [mirror EXCEPT ![p] = @ \cup V]
  PROVE  Life!Next
<1>1. Stages' = Stages /\ home' = home /\ Inserted' = Inserted
  BY SameStages DEF Inserted, Had
<1>2. V \in SUBSET Videos /\ V \subseteq Inserted[p]
  BY DEF Inserted, Had
<1>3. Life!Claim(p, V)
  BY <1>1, <1>2 DEF Life!Claim, Stages
<1> QED BY <1>2, <1>3 DEF Life!Next

LEMMA AddStep ==
  ASSUME IInv, UNCHANGED <<made, home, mirror, rows>>, \A p \in Playlists : IsNew(p)' <=> IsNew(p),
         NEW p \in Playlists, p <= made, NEW V \in SUBSET Videos,
         Inserted' = [Inserted EXCEPT ![p] = @ \cup V]
  PROVE  Life!Next
<1>1. Stages' = Stages /\ home' = home /\ mirror' = mirror
  BY SameStages
<1>2. Stages[p] # "none"
  BY StageOf, Existing DEF Playlists
<1>3. Life!Add(p, V)
  BY <1>1, <1>2 DEF Life!Add, Stages
<1> QED BY <1>3 DEF Life!Next

\* A playlist is made for category c.
LEMMA MakeStep ==
  ASSUME IInv, IInv', NEW c \in Categories, Made(c), UNCHANGED <<mirror, copies>>, RowsSame,
         \A p \in Playlists \ {made + 1} : IsNew(p)' <=> IsNew(p)
  PROVE  Life!Next
<1>1. made \in Nat /\ made + 1 \in Playlists /\ made' = made + 1
  BY Existing, ParametersAssumption DEF Made, Playlists
<1>2. \A p \in Playlists : IsMapped(p)' <=> IsMapped(p)
  BY DEF IsMapped, RowsSame
<1>3. PICK q \in Playlists : q = made + 1
  BY <1>1
<1>4. ASSUME NEW p \in Playlists \ {q}
      PROVE  Stages'[p] = Stages[p]
  <2>1. p \in Nat /\ (p > made' <=> p > made) /\ (p <= made' <=> p <= made)
    BY <1>1, <1>3, <1>4 DEF Playlists
  <2>2. (IsNew(p)' <=> IsNew(p)) /\ (IsMapped(p)' <=> IsMapped(p))
    BY <1>2, <1>3, <1>4
  <2>3. Stage(p)' = Stage(p)
    BY <2>1, <2>2 DEF Stage
  <2> QED BY <2>3 DEF Stages
<1>5. Stages[q] = "none"
  BY <1>1, <1>3, StageOf
<1>6. Stages'[q] \in {"new", "left"}
  <2>1. q <= made' /\ ~(q > made') /\ ~IsMapped(q)'
    BY <1>1, <1>2, <1>3, Existing
  <2> QED BY <2>1, StageAfter
<1>7. \E st \in {"new", "left"} : Stages' = [Stages EXCEPT ![q] = st]
  <2>1. PICK st \in {"new", "left"} : st = Stages'[q]
    BY <1>6
  <2>2. /\ Stages = [p \in Playlists |-> Stages[p]]
        /\ Stages' = [p \in Playlists |-> Stages'[p]]
    BY DEF Stages
  <2> HIDE DEF Stages
  <2>3. Stages' = [Stages EXCEPT ![q] = st]
    BY <1>3, <1>4, <2>1, <2>2
  <2> QED BY <2>3
<1>8. home' = [home EXCEPT ![q] = c] /\ Inserted' = Inserted /\ mirror' = mirror
  BY <1>3 DEF Made, Inserted, Had
<1>9. Life!Make(q, c)
  BY <1>3, <1>5, <1>7, <1>8 DEF Life!Make, Stages
<1> QED BY <1>9 DEF Life!Next

\* The new playlist of a category is mapped, in place of the one before.
LEMMA MapsIt ==
  ASSUME IInv, IInv', HoldInv, NEW w \in Workers, NEW r, r = job[w], NEW s, Goes(w, s), Stores(r, s),
         rows'[r.cat].playlist = r.plist
  PROVE  Life!Next
<1>1. PICK p \in Playlists, c \in Categories :
        p = r.plist /\ c = r.cat /\ home[p] = c /\ p <= made /\ rows'[c].playlist = p
  <2>1. r.pc # "idle" /\ r.pc \in WithPlaylist
    BY DEF Stores, WithPlaylist
  <2> QED BY <2>1, Working, Existing DEF Placed
<1>2. IsNew(p) /\ ~IsMapped(p) /\ \A x \in Workers \ {w} : job[x].plist # p
  BY <1>1 DEF Stores, HoldInv, Keeps, IsNew
<1>3. \A q \in Playlists : (IsNew(q)' <=> IsNew(q) /\ q # p)
  BY <1>1, <1>2, NewAfter DEF Stores, Carries
<1>4. \A q \in Playlists, d \in Categories : rows[d].playlist = q => home[q] = d
  BY Existing
<1>5. \A d \in Categories \ {c} : rows'[d].playlist = rows[d].playlist
  BY <1>1 DEF Stores
<1>6. Stages[p] = "new" /\ Stages'[p] = "mapped" /\ made' = made
  <2>1. IsMapped(p)' /\ ~IsNew(p)' /\ made' = made
    BY <1>1, <1>3 DEF IsMapped, Stores
  <2> QED BY <1>1, <1>2, <2>1, StageOf, StageAfter
<1>7. ASSUME NEW q \in Playlists \ {p}
      PROVE  Stages'[q] = IF Life!Rival(q, p) THEN "left" ELSE Stages[q]
  <2>1. IsMapped(q) /\ home[q] = c <=> rows[c].playlist = q
    BY <1>4 DEF IsMapped
  <2>2. IsMapped(q)' <=> IsMapped(q) /\ home[q] # c
    BY <1>1, <1>4, <1>5, <1>7 DEF IsMapped
  <2>3. IsNew(q) => ~IsMapped(q)
    BY NewIsUnmapped
  <2>4. (IsNew(q)' <=> IsNew(q)) /\ made' = made
    BY <1>3, <1>6, <1>7
  <2>5. Life!Rival(q, p) <=> Stages[q] = "mapped" /\ home[q] = c
    BY <1>1, <1>7 DEF Life!Rival, Stages
  <2>6. CASE Stages[q] = "mapped" /\ home[q] = c
    <3>1. q <= made' /\ ~IsNew(q)' /\ ~IsMapped(q)'
      BY <2>2, <2>4, <2>6, StageOf
    <3>2. ~(q > made')
      BY <2>4, <2>6, StageOf
    <3>3. Stages'[q] = "left"
      BY <3>1, <3>2, StageAfter
    <3> QED BY <2>5, <2>6, <3>3
  <2>7. CASE ~(Stages[q] = "mapped" /\ home[q] = c)
    <3>1. Stages'[q] = Stages[q]
      <4> HIDE DEF Stages
      <4> QED BY <2>2, <2>3, <2>4, <2>7, StageOf, StageAfter
    <3> QED BY <2>5, <2>7, <3>1
  <2> QED BY <2>6, <2>7
<1>8. Stages' = [q \in Playlists |-> IF q = p THEN "mapped"
                                     ELSE IF Life!Rival(q, p) THEN "left" ELSE Stages[q]]
  <2>1. Stages' = [q \in Playlists |-> Stages'[q]]
    BY DEF Stages
  <2> HIDE DEF Stages
  <2> QED BY <1>6, <1>7, <2>1
<1>9. home' = home /\ mirror' = mirror /\ Inserted' = Inserted
  BY DEF Stores, Inserted, Had
<1>10. Life!Map(p)
  BY <1>6, <1>8, <1>9 DEF Life!Map, Stages
<1> QED BY <1>10 DEF Life!Next

\* What a thread adds to its playlist.
LEMMA LivesAdds ==
  ASSUME IInv, HoldInv, NEW w \in Workers, NEW r, r = job[w], NEW s, Goes(w, s), NEW i, Adds(r, s, i)
  PROVE  Life!Next
<1>1. \A p \in Playlists : IsNew(p)' <=> IsNew(p)
  BY NewAfter DEF Adds, Onward, InLoop, Carries
<1>2. PICK p \in Playlists, v \in Videos : p = r.plist /\ v = r.queue[i] /\ p <= made
  <2>1. r.pc # "idle" /\ r.pc \in WithPlaylist
    BY DEF Adds, WithPlaylist
  <2>2. r.queue \in Seq(Videos) /\ r.todo \subseteq DOMAIN r.queue
    BY <2>1, QueuedJob, Working DEF Queued, Job
  <2> QED BY <2>1, <2>2, Existing DEF Adds
<1>3. copies \in [Playlists -> [Videos -> Nat]]
  BY DEF IInv, TypeOK
<1>4. ASSUME NEW q \in Playlists
      PROVE  Had(q)' = IF q = p THEN Had(q) \cup {v} ELSE Had(q)
  <2>1. CASE q = p
    <3>1. copies'[p] = [copies[p] EXCEPT ![v] = @ + 1]
      BY <1>2, <1>3 DEF Adds
    <3>2. \A u \in Videos : copies'[p][u] > 0 <=> (copies[p][u] > 0 \/ u = v)
      BY <1>2, <1>3, <3>1
    <3> QED BY <1>2, <2>1, <3>2 DEF Had
  <2>2. CASE q # p
    <3>1. copies'[q] = copies[q]
      BY <1>2, <1>3, <2>2 DEF Adds
    <3> QED BY <2>2, <3>1 DEF Had
  <2> QED BY <2>1, <2>2
<1>5. Inserted' = [Inserted EXCEPT ![p] = @ \cup {v}]
  <2>1. Inserted' = [q \in Playlists |-> IF q = p THEN Had(q) \cup {v} ELSE Had(q)]
    BY <1>4 DEF Inserted
  <2>2. [Inserted EXCEPT ![p] = @ \cup {v}] = [q \in Playlists |-> IF q = p THEN Had(q) \cup {v} ELSE Had(q)]
    BY DEF Inserted
  <2> QED BY <2>1, <2>2
<1>6. UNCHANGED <<made, home, mirror, rows>>
  BY DEF Adds
<1>7. PICK V \in SUBSET Videos : V = {v}
  OBVIOUS
<1> QED BY <1>1, <1>2, <1>5, <1>6, <1>7, AddStep

LEMMA LivesPours ==
  ASSUME IInv, HoldInv, NEW w \in Workers, NEW r, r = job[w], NEW s, Goes(w, s), Pours(r, s)
  PROVE  Life!Next
<1>1. \A p \in Playlists : IsNew(p)' <=> IsNew(p)
  BY NewAfter DEF Pours, Carries
<1>2. PICK p \in Playlists : p = r.plist /\ p <= made
  <2>1. r.pc \in WithPlaylist
    BY DEF Pours, WithPlaylist
  <2> QED BY <2>1, Existing
<1>3. copies \in [Playlists -> [Videos -> Nat]]
  BY DEF IInv, TypeOK
<1>4. PICK V \in SUBSET Videos :
        copies' = [copies EXCEPT ![p] = [y \in Videos |-> @[y] + IF y \in V THEN 1 ELSE 0]]
  <2>1. r.pc # "idle"
    BY DEF Pours
  <2>2. r.queue \in Seq(Videos)
    BY <2>1, Working DEF Job
  <2>3. ToSet(r.queue) \subseteq Videos
    BY <2>2 DEF ToSet
  <2>4. PICK V \in SUBSET ToSet(r.queue) :
          copies' = [copies EXCEPT ![r.plist] = [y \in Videos |-> @[y] + IF y \in V THEN 1 ELSE 0]]
    BY DEF Pours
  <2> QED BY <1>2, <2>3, <2>4
<1>5. ASSUME NEW q \in Playlists
      PROVE  Had(q)' = IF q = p THEN Had(q) \cup V ELSE Had(q)
  <2>1. CASE q = p
    <3>1. copies'[p] = [y \in Videos |-> copies[p][y] + IF y \in V THEN 1 ELSE 0]
      BY <1>3, <1>4
    <3>2. \A u \in Videos : copies'[p][u] > 0 <=> (copies[p][u] > 0 \/ u \in V)
      BY <1>3, <3>1
    <3> QED BY <2>1, <3>2 DEF Had
  <2>2. CASE q # p
    <3>1. copies'[q] = copies[q]
      BY <1>3, <1>4, <2>2
    <3> QED BY <2>2, <3>1 DEF Had
  <2> QED BY <2>1, <2>2
<1>6. Inserted' = [Inserted EXCEPT ![p] = @ \cup V]
  <2>1. Inserted' = [q \in Playlists |-> IF q = p THEN Had(q) \cup V ELSE Had(q)]
    BY <1>5 DEF Inserted
  <2> QED BY <2>1 DEF Inserted
<1>7. UNCHANGED <<made, home, mirror, rows>>
  BY DEF Pours
<1> QED BY <1>1, <1>2, <1>6, <1>7, AddStep

\* What the mirror is told is in the playlist is in it.
LEMMA LivesClaims ==
  ASSUME IInv, HoldInv, NEW w \in Workers, NEW r, r = job[w], NEW s, Goes(w, s),
         Reads(r, s) \/ Flushes(r, s)
  PROVE  Life!Next
<1>1. \A p \in Playlists : IsNew(p)' <=> IsNew(p)
  BY NewAfter DEF Reads, Flushes, Onward, InLoop, Carries
<1>2. PICK p \in Playlists : p = r.plist
  <2>1. r.pc \in WithPlaylist
    BY DEF Reads, Flushes, WithPlaylist
  <2> QED BY <2>1, Existing
<1>3. UNCHANGED <<made, home, copies, rows>>
  BY DEF Reads, Flushes
<1>4. mirror \in [Playlists -> SUBSET Videos]
  BY DEF IInv, TypeOK
<1>5. PICK V \in SUBSET Had(p) : mirror' = [mirror EXCEPT ![p] = @ \cup V]
  <2>1. CASE Reads(r, s)
    BY <1>2, <2>1 DEF Reads
  <2>2. CASE Flushes(r, s)
    <3>1. r.pc # "idle" /\ r.pc = "flush"
      BY <2>2 DEF Flushes
    <3>2. r.dirty \subseteq Had(p)
      BY <1>2, <3>1, Working DEF Fit, Filling, Stocked, Inserted
    <3>3. CASE UNCHANGED mirror
      <4>1. mirror' = [mirror EXCEPT ![p] = @ \cup {}]
        BY <1>4, <3>3
      <4> QED BY <4>1
    <3> QED BY <1>2, <2>2, <3>2, <3>3 DEF Flushes
  <2> QED BY <2>1, <2>2
<1> QED BY <1>1, <1>3, <1>5, ClaimStep

\* A playlist is made for the category of the thread.
LEMMA LivesMakes ==
  ASSUME IInv, IInv', HoldInv, NEW w \in Workers, NEW r, r = job[w], NEW s, Goes(w, s),
         Makes(r, s) \/ (Departs(r, s) /\ made' # made)
  PROVE  Life!Next
<1>1. /\ Made(r.cat) /\ r.cat \in Categories /\ UNCHANGED <<mirror, copies>> /\ RowsSame
      /\ r.pc \in {"create", "fallback"} /\ (s.pc \in {"own", "store"} => s.plist = made + 1)
  BY DEF Makes, Departs, RowsSame, WithPlaylist
<1>2. \A p \in Playlists \ {made + 1} : IsNew(p)' <=> IsNew(p)
  BY <1>1, NewAfter DEF Carries
<1> QED BY <1>1, <1>2, MakeStep

\* Nothing happens but that playlists may be left.
LEMMA LivesOn ==
  ASSUME IInv, IInv', HoldInv, NEW w \in Workers, NEW r, r = job[w], NEW s, Goes(w, s),
         \/ Departs(r, s) /\ made' = made
         \/ Approaches(r, s) \/ Looks(r, s) \/ Passes(r, s)
         \/ Stores(r, s) /\ rows'[r.cat].playlist # r.plist
  PROVE  Life!Next
<1>1. UNCHANGED <<made, home, mirror, copies>>
  <2>1. CASE Departs(r, s) /\ made' = made
    <3>1. made \in Nat
      BY Existing
    <3> QED BY <2>1, <3>1 DEF Departs, Made
  <2>2. CASE Stores(r, s)
    BY <2>2 DEF Stores
  <2> QED BY <2>1, <2>2 DEF Approaches, Looks, Passes
<1>2. RowsDropped
  BY DEF Departs, Approaches, Looks, Passes, Stores, RowsSame, RowsDropped
<1>3. s.pc \in {"own", "store"} => r.pc \in {"own", "store"} /\ s.plist = r.plist
  BY DEF Departs, Approaches, Looks, Passes, Onward, InLoop, Stores, WithPlaylist
<1>4. \A p \in Playlists : IsNew(p)' => IsNew(p)
  BY <1>3, NewAfter DEF Carries
<1> QED BY <1>1, <1>2, <1>4, LeaveStep

\* So every step is one of FindOrCreate.
LEMMA LifeNext ==
  ASSUME IInv, IInv', HoldInv, [Next]_vars
  PROVE  [Life!Next]_(Life!vars)
<1>1. ASSUME NEW w \in Workers, NEW s, Goes(w, s), Moves(job[w], s)
      PROVE  Life!Next
  <2>1. PICK r : r = job[w]
    OBVIOUS
  <2>2. CASE Adds(r, s, CHOOSE i \in Nat : Adds(r, s, i))
    BY <1>1, <2>1, <2>2, LivesAdds
  <2>3. CASE Stores(r, s) /\ rows'[r.cat].playlist = r.plist
    BY <1>1, <2>1, <2>3, MapsIt
  <2>4. CASE Pours(r, s)
    BY <1>1, <2>1, <2>4, LivesPours
  <2>5. CASE Reads(r, s) \/ Flushes(r, s)
    BY <1>1, <2>1, <2>5, LivesClaims
  <2>6. CASE Makes(r, s) \/ (Departs(r, s) /\ made' # made)
    BY <1>1, <2>1, <2>6, LivesMakes
  <2>7. CASE \/ Departs(r, s) /\ made' = made
             \/ Approaches(r, s) \/ Looks(r, s) \/ Passes(r, s)
             \/ Stores(r, s) /\ rows'[r.cat].playlist # r.plist
    BY <1>1, <2>1, <2>7, LivesOn
  <2> QED BY <1>1, <2>1, <2>2, <2>3, <2>4, <2>5, <2>6, <2>7 DEF Moves
<1>2. CASE UNCHANGED <<rows, mirror, made, home, copies, job, faults>>
  BY <1>2 DEF Life!vars, Stage, IsNew, IsMapped, Inserted, Had
<1> QED BY <1>1, <1>2, Movement

LEMMA LifeInit ==
  ASSUME Init
  PROVE  Life!Init
<1>1. \A p \in Playlists : p > made /\ Stage(p) = "none" /\ Had(p) = {}
  BY DEF Init, Stage, Had, Playlists
<1> QED BY <1>1 DEF Init, Life!Init, Inserted

-----------------------------------------------------------------------------
(* The theorems.                                                             *)

LEMMA HoldAlways == Spec => [](IInv /\ HoldInv)
BY InvInit, InvStep, HoldInit, HoldNext, PTL DEF Spec

\* Restores implement find or create: however many run side by side, and whatever fails,
\* a playlist is mapped at most once, for the category it was made for, and no category
\* comes back to one it has left; the mirror claims only what was put there.
THEOREM FindOrCreateImplemented == Spec => ImplementsFindOrCreate
<1>1. Init => Life!Init
  BY LifeInit
<1>2. IInv /\ IInv' /\ HoldInv /\ [Next]_vars => [Life!Next]_(Life!vars)
  BY LifeNext
<1> QED BY <1>1, <1>2, HoldAlways, PTL DEF Spec, ImplementsFindOrCreate, Life!Spec

\* A video gets into one playlist no more often than a queue names it, once for each
\* thread and for each fault: two restores that do not overlap never repeat an insertion,
\* for any queues, batches, edits and flags.
THEOREM CopiesAreBounded == Spec => []CopiesBounded
<1>1. Init => CopiesInv
  BY CopiesInit DEF CopiesInv
<1>2. IInv /\ HoldInv /\ CopiesInv /\ [Next]_vars => CopiesInv'
  BY CopiesNext
<1>3. IInv /\ HoldInv /\ CopiesInv => CopiesBounded
  BY CopiesEnough
<1> QED BY <1>1, <1>2, <1>3, HoldAlways, PTL DEF Spec

\* So no restore finds its way back to a playlist that was replaced, invalidated or never
\* mapped (the rows are written by _resolve_playlist, _create_playlist and
\* _invalidate_playlist_cache only, each with what it knew some commits ago).
THEOREM NeverFoundAgain == Spec => Life!LeftForGood
<1>1. ASSUME Life!Next PROVE Life!StaysLeft
  <2>1. ASSUME NEW q \in Playlists, NEW c, Life!Make(q, c)
        PROVE  Life!StaysLeft
    BY <2>1 DEF Life!Make, Life!StaysLeft
  <2>2. ASSUME NEW q \in Playlists, Life!Map(q)
        PROVE  Life!StaysLeft
    BY <2>2 DEF Life!Map, Life!Rival, Life!StaysLeft
  <2>3. ASSUME NEW q \in Playlists, NEW V, Life!Add(q, V) \/ Life!Claim(q, V)
        PROVE  Life!StaysLeft
    BY <2>3 DEF Life!Add, Life!Claim, Life!StaysLeft
  <2>4. ASSUME NEW S, Life!Leave(S)
        PROVE  Life!StaysLeft
    BY <2>4 DEF Life!Leave, Life!StaysLeft
  <2> QED BY <1>1, <2>1, <2>2, <2>3, <2>4 DEF Life!Next
<1>2. [Life!Next]_(Life!vars) => [Life!StaysLeft]_(Life!vars)
  BY <1>1
<1> QED BY <1>2, FindOrCreateImplemented, PTL DEF ImplementsFindOrCreate, Life!Spec, Life!LeftForGood

=============================================================================
