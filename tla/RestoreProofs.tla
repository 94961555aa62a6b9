---------------------------- MODULE RestoreProofs ----------------------------
(***************************************************************************)
(* What holds of restores for any number of threads, categories, queues,   *)
(* playlists, pages, edits and faults.                                     *)
(*                                                                         *)
(* A restore relies, until it answers, on what it found out: that its      *)
(* playlist is one of its category, that what it takes for mirrored was    *)
(* inserted, that what is no longer pending was dealt with.  This survives *)
(* the steps of others because insertions, mirror entries and the category *)
(* of a playlist are never taken back.                                     *)
(***************************************************************************)
EXTENDS Restore, TallyProofs, WellFoundedInduction

USE DEF youtube, world

-----------------------------------------------------------------------------
(* The first of some positions.                                              *)

\* Of the positions at which something is found there is a first.
LEMMA FirstExists ==
  ASSUME NEW S \in SUBSET Nat, S # {}
  PROVE  \E i \in S : \A j \in S : i <= j
<1> DEFINE R == {ss \in Nat \X Nat : ss[1] < ss[2]}
<1>1. IsWellFoundedOn(R, Nat)
  BY NatLessThanWellFounded DEF OpToRel
<1>2. PICK i \in S : \A j \in S : ~(<<j, i>> \in R)
  <2> HIDE DEF R
  <2> QED BY <1>1, WFMin
<1>3. ASSUME NEW j \in S
      PROVE  i <= j
  <2>1. ~(<<j, i>> \in R)
    BY <1>2
  <2>2. j \in Nat /\ i \in Nat
    OBVIOUS
  <2>3. ~(j < i)
    BY <2>1, <2>2
  <2> QED BY <2>2, <2>3
<1> QED BY <1>3

-----------------------------------------------------------------------------
(* What a thread relies on.  The last four arguments are what it may ask of  *)
(* the rest of the state: the category of each playlist, the mirror, what    *)
(* was ever inserted, and whether nothing has failed so far.                 *)

Quiet == faults = 0

\* The pcs at which a thread has a playlist.
WithPlaylist == {"verify", "forget", "touch", "own", "store", "load", "sync", "insert",
                 "flush", "invalidate", "fill", "done", "copied"}

Placed(r, h) == r.plist \in Playlists /\ h[r.plist] = r.cat

\* A track that is no longer pending.
Dealt(r, i) ==
  r.queue[i] \in r.known \cup r.failed \/ (Validate /\ r.queue[i] \in Missing)

\* What is known to be in the playlist is; and with no fault, it is mirrored or about to be.
Stocked(r, m, d, q) ==
  /\ r.known \cup r.dirty \subseteq d[r.plist]
  /\ q => r.known \subseteq m[r.plist] \cup r.dirty

\* In the midst of the insert loop.
Filling(r, m, d, q) ==
  /\ Stocked(r, m, d, q)
  /\ \A i \in OrderedVideoIds(r.queue) \ r.todo : Dealt(r, i)
  /\ Dedupe => \A i \in r.todo : r.queue[i] \notin r.known

\* What a restore that has answered may say of the track at i.
Accounted(r, i, m, d, q) ==
  LET v == r.queue[i] IN
  /\ v \in r.failed \cup d[r.plist] \/ (v \in Missing /\ Validate)
  /\ q => v \in r.failed \cup Missing \cup m[r.plist]

Answered(r, m, d, q) ==
  \A i \in OrderedVideoIds(r.queue) : Accounted(r, i, m, d, q)

\* The locals of one restore.
Sane(r) ==
  /\ r \in Job
  /\ r.pc # "idle" => r.cat \in Categories
  /\ r.pc \in {"verify", "forget", "touch"} => r.rid # 0
  /\ r.pc \notin {"insert", "flush", "invalidate"} => r.dirty = {}
  /\ r.todo \subseteq OrderedVideoIds(r.queue)

Fit(r, h, m, d, q) ==
  /\ Sane(r)
  /\ r.pc \in WithPlaylist => Placed(r, h)
  /\ r.pc = "sync" => Stocked(r, m, d, q)
  /\ r.pc \in {"insert", "flush"} => Filling(r, m, d, q)
  /\ r.pc = "done" => Answered(r, m, d, q)

\* Rows, playlists and mirror.
WorldInv ==
  /\ \A c \in Categories :
       IF rows[c].id = 0 THEN rows[c] = NoRow
       ELSE rows[c].playlist \in Playlists /\ home[rows[c].playlist] = c
  /\ \A p \in Playlists : /\ mirror[p] \subseteq Had(p) /\ listed[p] \subseteq Had(p)
                          /\ p > made => home[p] = None

ThreadInv == \A w \in Workers : Fit(job[w], home, mirror, Inserted, Quiet)

\* The inductive invariant.
IInv == TypeOK /\ WorldInv /\ ThreadInv

-----------------------------------------------------------------------------
(* Nothing is taken back.                                                    *)

Evolves(h, m, d, q, h2, m2, d2, q2) ==
  /\ \A p \in Playlists : h[p] \in Categories => h2[p] = h[p]
  /\ \A p \in Playlists : m[p] \subseteq m2[p] /\ d[p] \subseteq d2[p]
  /\ q2 => q

LEMMA StaysFit ==
  ASSUME NEW r, NEW h, NEW m, NEW d, NEW q, NEW h2, NEW m2, NEW d2, NEW q2,
         Fit(r, h, m, d, q), Evolves(h, m, d, q, h2, m2, d2, q2)
  PROVE  Fit(r, h2, m2, d2, q2)
<1>1. r.pc \in WithPlaylist => Placed(r, h) /\ Placed(r, h2)
  BY DEF Fit, Sane, Placed, Evolves, WithPlaylist
<1>2. ASSUME r.pc \in WithPlaylist, Stocked(r, m, d, q)
      PROVE  Stocked(r, m2, d2, q2)
  BY <1>1, <1>2 DEF Stocked, Placed, Evolves
<1>3. ASSUME r.pc \in WithPlaylist, Answered(r, m, d, q)
      PROVE  Answered(r, m2, d2, q2)
  BY <1>1, <1>3 DEF Answered, Accounted, Placed, Evolves
<1> QED BY <1>1, <1>2, <1>3 DEF Fit, Filling, WithPlaylist

-----------------------------------------------------------------------------
(* Where a restore goes next.                                                *)

LEMMA IdleJob ==
  /\ Idle \in Job /\ Idle.pc = "idle" /\ Idle.dirty = {} /\ Idle.todo = {} /\ Idle.known = {}
  /\ Idle.rid = 0
BY ParametersAssumption DEF Idle, Job, PCs, MAX_PLAYLIST_RESOLUTION_ATTEMPTS

LEMMA IdleFit ==
  ASSUME NEW h, NEW m, NEW d, NEW q
  PROVE  Fit(Idle, h, m, d, q)
BY IdleJob DEF Fit, Sane, WithPlaylist

LEMMA BrokenFit ==
  ASSUME NEW r \in Job, r.cat \in Categories, NEW h, NEW m, NEW d, NEW q, NEW s \in Broken(r)
  PROVE  Fit(s, h, m, d, q)
<1>1. CASE s = Idle
  BY <1>1, IdleFit
<1>2. CASE s = [Idle EXCEPT !.pc = "fallback", !.cat = r.cat, !.queue = r.queue]
  <2>1. r.queue \in Seq(Videos)
    BY DEF Job
  <2>2. s \in Job /\ s.pc = "fallback" /\ s.cat \in Categories /\ s.dirty = {} /\ s.todo = {}
    BY <1>2, <2>1, IdleJob DEF Job, PCs
  <2> QED BY <2>2 DEF Fit, Sane, WithPlaylist
<1> QED BY <1>1, <1>2 DEF Broken

LEMMA DoneFit ==
  ASSUME NEW r \in Job, r.cat \in Categories, NEW h, NEW m, NEW d, NEW q,
         Placed(r, h), Answered(r, m, d, q), NEW s, s = Done(r)
  PROVE  Fit(s, h, m, d, q)
<1>1. /\ r.queue \in Seq(Videos) /\ r.plist \in 0 .. MaxPlaylists /\ r.failed \in SUBSET Videos
  BY DEF Job
<1>2. s = [pc |-> "done", cat |-> r.cat, queue |-> r.queue, pass |-> 0, rid |-> 0,
           plist |-> r.plist, new |-> FALSE, left |-> 0, pages |-> 0, known |-> {},
           todo |-> {}, count |-> 0, dirty |-> {}, failed |-> r.failed]
  BY DEF Done, Idle
<1>3. s \in Job
  BY <1>1, <1>2, ParametersAssumption DEF Job, PCs, MAX_PLAYLIST_RESOLUTION_ATTEMPTS
<1>4. Placed(s, h) /\ Answered(s, m, d, q)
  BY <1>2 DEF Placed, Answered, Accounted
<1>5. s.pc = "done" /\ s.cat = r.cat /\ s.dirty = {} /\ s.todo = {}
  BY <1>2
<1> QED BY <1>3, <1>4, <1>5 DEF Fit, Sane, WithPlaylist

\* A snapshot's tracks, and the positions restored.
LEMMA Positions ==
  ASSUME NEW r \in Job
  PROVE  /\ OrderedVideoIds(r.queue) \subseteq DOMAIN r.queue
         /\ DOMAIN r.queue \subseteq Nat
         /\ \A i \in DOMAIN r.queue : r.queue[i] \in Videos
<1>1. r.queue \in Seq(Videos)
  BY DEF Job
<1>2. DOMAIN r.queue = 1 .. Len(r.queue) /\ Len(r.queue) \in Nat
  BY <1>1
<1> QED BY <1>1, <1>2 DEF OrderedVideoIds

\* A restore that may go on with the loop, or leave it.
Ready(r, h, m, d, q) ==
  /\ r \in Job /\ r.cat \in Categories
  /\ Placed(r, h)
  /\ r.todo \subseteq OrderedVideoIds(r.queue)
  /\ Filling(r, m, d, q)

LEMMA WrapUpFit ==
  ASSUME NEW r, NEW h, NEW m, NEW d, NEW q, Ready(r, h, m, d, q), r.todo = {},
         NEW s, s = WrapUp(r)
  PROVE  Fit(s, h, m, d, q)
<1>1. CASE r.dirty = {}
  <2>1. ASSUME NEW i \in OrderedVideoIds(r.queue)
        PROVE  Accounted(r, i, m, d, q)
    <3>1. Dealt(r, i) /\ Stocked(r, m, d, q)
      BY DEF Ready, Filling
    <3> QED BY <1>1, <3>1 DEF Dealt, Stocked, Accounted
  <2>2. s = Done(r) /\ Answered(r, m, d, q)
    BY <1>1, <2>1 DEF WrapUp, Answered
  <2> QED BY <2>2, DoneFit DEF Ready
<1>2. CASE r.dirty # {}
  <2>1. s = [r EXCEPT !.pc = "flush"] /\ r \in Job
    BY <1>2 DEF WrapUp, Ready
  <2>2. /\ s \in Job /\ s.pc = "flush" /\ s.cat = r.cat /\ s.plist = r.plist /\ s.queue = r.queue
        /\ s.todo = r.todo /\ s.known = r.known /\ s.dirty = r.dirty /\ s.failed = r.failed
    BY <2>1 DEF Job, PCs
  <2>3. Filling(s, m, d, q) /\ Placed(s, h)
    BY <2>2 DEF Ready, Filling, Stocked, Dealt, Placed
  <2> QED BY <2>2, <2>3 DEF Fit, Sane, Ready, WithPlaylist
<1> QED BY <1>1, <1>2

LEMMA NextTrackFit ==
  ASSUME NEW r, NEW h, NEW m, NEW d, NEW q, Ready(r, h, m, d, q), NEW s \in NextTrack(r)
  PROVE  Fit(s, h, m, d, q)
<1>0. r \in Job
  BY DEF Ready
<1>1. CASE r.todo = {}
  BY <1>1, WrapUpFit DEF NextTrack
<1>2. CASE s = [r EXCEPT !.pc = "insert", !.left = 2]
  <2>1. /\ s \in Job /\ s.pc = "insert" /\ s.cat = r.cat /\ s.plist = r.plist /\ s.queue = r.queue
        /\ s.todo = r.todo /\ s.known = r.known /\ s.dirty = r.dirty /\ s.failed = r.failed
    BY <1>0, <1>2 DEF Job, PCs
  <2>2. Filling(s, m, d, q) /\ Placed(s, h)
    BY <2>1 DEF Ready, Filling, Stocked, Dealt, Placed
  <2> QED BY <2>1, <2>2 DEF Fit, Sane, Ready, WithPlaylist
<1>3. CASE s = WrapUp([r EXCEPT !.failed = @ \cup Tracks(r, r.todo), !.todo = {}])
  <2>1. PICK t : t = [r EXCEPT !.failed = @ \cup Tracks(r, r.todo), !.todo = {}]
    OBVIOUS
  <2>2. Tracks(r, r.todo) \subseteq Videos
    BY <1>0, Positions DEF Tracks, Ready
  <2>3. /\ t \in Job /\ t.cat = r.cat /\ t.plist = r.plist /\ t.queue = r.queue
        /\ t.todo = {} /\ t.known = r.known /\ t.dirty = r.dirty
        /\ t.failed = r.failed \cup Tracks(r, r.todo)
    BY <1>0, <2>1, <2>2 DEF Job
  <2>4. ASSUME NEW i \in OrderedVideoIds(r.queue)
        PROVE  Dealt(t, i)
    <3>1. CASE i \in r.todo
      BY <2>3, <3>1 DEF Dealt, Tracks
    <3>2. CASE i \notin r.todo
      BY <2>3, <3>2 DEF Dealt, Ready, Filling
    <3> QED BY <3>1, <3>2
  <2>5. Filling(t, m, d, q) /\ Placed(t, h)
    BY <2>3, <2>4 DEF Ready, Filling, Stocked, Placed
  <2>6. Ready(t, h, m, d, q)
    BY <2>3, <2>5 DEF Ready
  <2> QED BY <1>3, <2>1, <2>3, <2>6, WrapUpFit
<1> QED BY <1>1, <1>2, <1>3 DEF NextTrack

\* The track at i has been dealt with, the others are as they were.
Advancing(r, i, h, m, d, q) ==
  /\ r \in Job /\ r.cat \in Categories
  /\ Placed(r, h)
  /\ r.todo \subseteq OrderedVideoIds(r.queue)
  /\ Stocked(r, m, d, q)
  /\ \A j \in OrderedVideoIds(r.queue) : j \in r.todo \ {i} \/ Dealt(r, j)
  /\ Dedupe => \A j \in r.todo \ {i} : r.queue[j] \notin r.known

LEMMA AdvanceFit ==
  ASSUME NEW r, NEW i, NEW h, NEW m, NEW d, NEW q, Advancing(r, i, h, m, d, q),
         NEW s \in Advance(r, i)
  PROVE  Fit(s, h, m, d, q)
<1>1. PICK n : n = (r.count + 1) % FlushBatch
  OBVIOUS
<1>2. n \in Nat /\ r \in Job
  <2>1. r \in Job
    BY DEF Advancing
  <2>2. r.count \in Nat
    BY <2>1 DEF Job
  <2> QED BY <1>1, <2>1, <2>2, ParametersAssumption
<1>3. PICK t : t = [r EXCEPT !.todo = @ \ {i}, !.count = n]
  OBVIOUS
<1>4. /\ t \in Job /\ t.cat = r.cat /\ t.plist = r.plist /\ t.queue = r.queue
      /\ t.todo = r.todo \ {i} /\ t.known = r.known /\ t.dirty = r.dirty /\ t.failed = r.failed
  BY <1>2, <1>3 DEF Job
<1>5. Ready(t, h, m, d, q)
  BY <1>4 DEF Advancing, Ready, Filling, Stocked, Dealt, Placed
<1>6. CASE s = [t EXCEPT !.pc = "flush"]
  <2>1. /\ s \in Job /\ s.pc = "flush" /\ s.cat = t.cat /\ s.plist = t.plist /\ s.queue = t.queue
        /\ s.todo = t.todo /\ s.known = t.known /\ s.dirty = t.dirty /\ s.failed = t.failed
    BY <1>4, <1>6 DEF Job, PCs
  <2>2. Filling(s, m, d, q) /\ Placed(s, h)
    BY <1>5, <2>1 DEF Ready, Filling, Stocked, Dealt, Placed
  <2> QED BY <1>5, <2>1, <2>2 DEF Fit, Sane, Ready, WithPlaylist
<1>7. CASE s \in NextTrack(t)
  BY <1>5, <1>7, NextTrackFit
<1>8. s = [t EXCEPT !.pc = "flush"] \/ s \in NextTrack(t)
  BY <1>1, <1>3 DEF Advance
<1> QED BY <1>6, <1>7, <1>8

LEMMA PlannedFit ==
  ASSUME NEW r \in Job, r.cat \in Categories, NEW h, NEW m, NEW d, NEW q,
         Placed(r, h), Stocked(r, m, d, q), r.dirty = {}, NEW s \in Planned(r)
  PROVE  Fit(s, h, m, d, q)
<1>1. CASE Pending(r) = {}
  <2>1. ASSUME NEW i \in OrderedVideoIds(r.queue)
        PROVE  Accounted(r, i, m, d, q)
    <3>1. r.queue[i] \in r.known
      BY <1>1 DEF Pending
    <3> QED BY <3>1 DEF Stocked, Accounted
  <2>2. s = Done(r) /\ Answered(r, m, d, q)
    BY <1>1, <2>1 DEF Planned, Answered
  <2> QED BY <2>2, DoneFit
<1>2. CASE Pending(r) # {}
  <2>1. PICK S : /\ s \in NextTrack([r EXCEPT !.todo = S])
                 /\ \/ S = Pending(r)
                    \/ Validate /\ S = {i \in Pending(r) : r.queue[i] \notin Missing}
    BY <1>2 DEF Planned
  <2>2. PICK t : t = [r EXCEPT !.todo = S]
    OBVIOUS
  <2>3. S \subseteq OrderedVideoIds(r.queue) /\ S \in SUBSET Nat
    BY <2>1, Positions DEF Pending
  <2>4. /\ t \in Job /\ t.cat = r.cat /\ t.plist = r.plist /\ t.queue = r.queue
        /\ t.todo = S /\ t.known = r.known /\ t.dirty = r.dirty /\ t.failed = r.failed
    BY <2>2, <2>3 DEF Job
  <2>5. \A i \in OrderedVideoIds(r.queue) \ S : Dealt(t, i)
    BY <2>1, <2>4 DEF Pending, Dealt
  <2>6. \A i \in S : r.queue[i] \notin r.known
    BY <2>1 DEF Pending
  <2>7. Ready(t, h, m, d, q)
    BY <2>3, <2>4, <2>5, <2>6 DEF Ready, Filling, Stocked, Placed
  <2> QED BY <2>1, <2>2, <2>7, NextTrackFit
<1> QED BY <1>1, <1>2

\* A restore that has not come to the insert loop.
LEMMA PlainFit ==
  ASSUME NEW r, Sane(r), r.cat \in Categories, r.dirty = {},
         NEW s \in Job, s.cat = r.cat, s.queue = r.queue, s.todo = r.todo, s.dirty = r.dirty,
         s.pc \in {"verify", "forget", "touch", "create", "own", "store", "load", "fill"},
         s.pc \in {"verify", "forget", "touch"} => s.rid # 0,
         NEW h, NEW m, NEW d, NEW q, s.pc # "create" => Placed(s, h)
  PROVE  Fit(s, h, m, d, q)
BY DEF Fit, Sane, WithPlaylist

LEMMA CreatingFit ==
  ASSUME NEW r, Sane(r), r.cat \in Categories, r.dirty = {},
         NEW h, NEW m, NEW d, NEW q, NEW s \in Creating(r)
  PROVE  Fit(s, h, m, d, q)
<1>1. CASE s = Refused
  BY <1>1, IdleFit DEF Refused
<1>2. CASE s = [r EXCEPT !.pc = "create", !.rid = 0, !.plist = 0, !.left = 1 + MaxRetries]
  <2>1. 1 + MaxRetries \in Nat /\ 0 \in 0 .. MaxPlaylists /\ r \in Job
    BY ParametersAssumption DEF Sane
  <2>2. s \in Job /\ s.pc = "create" /\ s.cat = r.cat /\ s.queue = r.queue /\ s.todo = r.todo
        /\ s.dirty = r.dirty
    BY <1>2, <2>1 DEF Job, PCs
  <2> QED BY <2>2, PlainFit
<1> QED BY <1>1, <1>2 DEF Creating

LEMMA NextPassFit ==
  ASSUME NEW r \in Job, r.cat \in Categories, NEW h, NEW m, NEW d, NEW q, NEW s \in NextPass(r)
  PROVE  Fit(s, h, m, d, q)
<1>1. CASE s \in Broken(r)
  BY <1>1, BrokenFit
<1>2. CASE /\ r.pass < MAX_PLAYLIST_RESOLUTION_ATTEMPTS
           /\ s = [Idle EXCEPT !.pc = "find", !.cat = r.cat, !.queue = r.queue,
                                !.pass = r.pass + 1]
  <2>1. /\ r.queue \in Seq(Videos) /\ r.pass \in 0 .. MAX_PLAYLIST_RESOLUTION_ATTEMPTS
    BY DEF Job
  <2>2. r.pass + 1 \in 0 .. MAX_PLAYLIST_RESOLUTION_ATTEMPTS
    BY <1>2, <2>1 DEF MAX_PLAYLIST_RESOLUTION_ATTEMPTS
  <2>3. s = [pc |-> "find", cat |-> r.cat, queue |-> r.queue, pass |-> r.pass + 1, rid |-> 0,
             plist |-> 0, new |-> FALSE, left |-> 0, pages |-> 0, known |-> {},
             todo |-> {}, count |-> 0, dirty |-> {}, failed |-> {}]
    BY <1>2 DEF Idle
  <2>4. s \in Job /\ s.pc = "find" /\ s.cat \in Categories /\ s.dirty = {} /\ s.todo = {}
    BY <2>1, <2>2, <2>3, ParametersAssumption DEF Job, PCs
  <2> QED BY <2>4 DEF Fit, Sane, WithPlaylist
<1> QED BY <1>1, <1>2 DEF NextPass

-----------------------------------------------------------------------------
(* What a step of one thread has to show.                                    *)

\* TypeOK, the threads left out.
WorldType ==
  /\ rows \in [Categories -> Row]
  /\ mirror \in [Playlists -> SUBSET Videos]
  /\ made \in 0 .. MaxPlaylists /\ live \subseteq 1 .. made
  /\ listed \in [Playlists -> SUBSET Videos]
  /\ home \in [Playlists -> Categories \cup {None}]
  /\ copies \in [Playlists -> [Videos -> Nat]]
  /\ confirmed \in [Playlists -> Times]
  /\ now \in Times /\ restores \in 0 .. MaxRestores
  /\ faults \in 0 .. MaxFaults /\ edits \in 0 .. MaxEdits

LEMMA TypeSplit == TypeOK <=> WorldType /\ job \in [Workers -> Job]
BY DEF TypeOK, WorldType

\* What the others may rely on is not taken back by a step.
Forward == Evolves(home, mirror, Inserted, Quiet, home', mirror', Inserted', Quiet')

\* The thread that moves is left fit, so all threads are.
LEMMA ThreadStep ==
  ASSUME IInv, WorldType', WorldInv', Forward,
         NEW w \in Workers, NEW s, Goes(w, s), Fit(s, home', mirror', Inserted', Quiet')
  PROVE  IInv'
<1>1. job \in [Workers -> Job] /\ s \in Job
  BY DEF IInv, TypeOK, Fit, Sane
<1>2. job' \in [Workers -> Job] /\ \A x \in Workers : job'[x] = IF x = w THEN s ELSE job[x]
  BY <1>1 DEF Goes
<1>3. TypeOK'
  BY <1>2 DEF TypeOK, WorldType
<1>4. ASSUME NEW x \in Workers
      PROVE  Fit(job'[x], home', mirror', Inserted', Quiet')
  <2>1. CASE x = w
    BY <1>2, <2>1
  <2>2. CASE x # w
    <3>1. Fit(job[x], home, mirror, Inserted, Quiet)
      BY DEF IInv, ThreadInv
    <3>2. Fit(job[x], home', mirror', Inserted', Quiet')
      BY <3>1, StaysFit DEF Forward
    <3> QED BY <1>2, <2>2, <3>2
  <2> QED BY <2>1, <2>2
<1>5. ThreadInv'
  BY <1>4 DEF ThreadInv
<1> QED BY <1>3, <1>5 DEF IInv

\* One more failure, or none.
Faulty == UNCHANGED faults \/ Fault

LEMMA FaultyStep ==
  ASSUME WorldType, Faulty
  PROVE  faults' \in 0 .. MaxFaults /\ (Quiet' => Quiet /\ faults' = faults)
BY ParametersAssumption DEF WorldType, Faulty, Fault, Quiet

\* Rows may change, as long as each still names a playlist of its category; what
\* YouTube has and what is mirrored stay.
RowsInv ==
  /\ rows \in [Categories -> Row]
  /\ \A c \in Categories :
       IF rows[c].id = 0 THEN rows[c] = NoRow
       ELSE rows[c].playlist \in Playlists /\ home[rows[c].playlist] = c

LEMMA LocalStep ==
  ASSUME IInv, UNCHANGED <<youtube, mirror, now, edits>>, Faulty,
         RowsInv', confirmed' \in [Playlists -> Times], restores' \in 0 .. MaxRestores,
         NEW w \in Workers, NEW s, Goes(w, s), Fit(s, home, mirror, Inserted, Quiet)
  PROVE  IInv'
<1>1. WorldType /\ WorldInv
  BY TypeSplit DEF IInv
<1>2. faults' \in 0 .. MaxFaults /\ (Quiet' => Quiet)
  BY <1>1, FaultyStep
<1>3. WorldType'
  BY <1>1, <1>2 DEF WorldType, RowsInv
<1>4. WorldInv'
  BY <1>1 DEF WorldInv, RowsInv, Had
<1>5. Inserted' = Inserted
  BY DEF Inserted, Had
<1>6. Forward
  BY <1>2, <1>5 DEF Forward, Evolves
<1>7. Fit(s, home', mirror', Inserted', Quiet')
  BY <1>6, StaysFit DEF Forward
<1> QED BY <1>3, <1>4, <1>6, <1>7, ThreadStep

\* A step that writes nothing.
LEMMA ReadStep ==
  ASSUME IInv, UNCHANGED <<youtube, rows, mirror, confirmed, world>>, Faulty,
         NEW w \in Workers, NEW s, Goes(w, s), Fit(s, home, mirror, Inserted, Quiet)
  PROVE  IInv'
<1>1. RowsInv' /\ confirmed' \in [Playlists -> Times] /\ restores' \in 0 .. MaxRestores
  BY DEF IInv, TypeOK, WorldInv, RowsInv
<1> QED BY <1>1, LocalStep

LEMMA InvInit ==
  ASSUME Init
  PROVE  IInv
<1>1. TypeOK
  <2>1. \A w \in Workers : job[w] = Idle
    BY DEF Init
  <2>2. job \in [Workers -> Job]
    BY <2>1, IdleJob DEF Init
  <2>3. NoRow \in Row
    BY ParametersAssumption DEF NoRow, Row, Times
  <2> QED BY <2>2, <2>3, ParametersAssumption DEF Init, TypeOK, Times, Playlists
<1>2. WorldInv
  BY DEF Init, WorldInv, NoRow, Had
<1>3. ThreadInv
  BY IdleFit DEF Init, ThreadInv
<1> QED BY <1>1, <1>2, <1>3 DEF IInv

-----------------------------------------------------------------------------
(* Finding the playlist.                                                     *)

\* What a thread in the middle of a restore knows.
LEMMA Working ==
  ASSUME IInv, NEW w \in Workers, NEW r, r = job[w], r.pc # "idle"
  PROVE  /\ Fit(r, home, mirror, Inserted, Quiet) /\ Sane(r)
         /\ r \in Job /\ r.cat \in Categories
         /\ r.pc \in WithPlaylist => Placed(r, home)
BY DEF IInv, ThreadInv, Fit, Sane

\* What a row it finds says.
LEMMA RowFacts ==
  ASSUME IInv, NEW c \in Categories
  PROVE  /\ rows[c] \in Row
         /\ rows[c] # NoRow <=> rows[c].id # 0
         /\ rows[c].id # 0 => rows[c].playlist \in Playlists /\ home[rows[c].playlist] = c
BY DEF IInv, TypeOK, WorldInv, NoRow

LEMMA InvStart ==
  ASSUME IInv, NEW w \in Workers, NEW c \in Categories, NEW q \in Queues, Start(w, c, q)
  PROVE  IInv'
<1>1. PICK s : s = [Idle EXCEPT !.pc = "find", !.cat = c, !.queue = q, !.pass = 1]
  OBVIOUS
<1>2. s = [pc |-> "find", cat |-> c, queue |-> q, pass |-> 1, rid |-> 0, plist |-> 0,
           new |-> FALSE, left |-> 0, pages |-> 0, known |-> {}, todo |-> {},
           count |-> 0, dirty |-> {}, failed |-> {}]
  BY <1>1 DEF Idle
<1>3. s \in Job /\ s.pc = "find" /\ s.cat \in Categories /\ s.dirty = {} /\ s.todo = {}
  BY <1>2, ParametersAssumption DEF Job, PCs, MAX_PLAYLIST_RESOLUTION_ATTEMPTS
<1>4. Fit(s, home, mirror, Inserted, Quiet)
  BY <1>3 DEF Fit, Sane, WithPlaylist
<1>5. restores' \in 0 .. MaxRestores
  BY ParametersAssumption DEF Start, IInv, TypeOK
<1>6. RowsInv' /\ confirmed' \in [Playlists -> Times]
  BY DEF Start, IInv, TypeOK, WorldInv, RowsInv
<1>7. UNCHANGED <<youtube, mirror, now, edits>> /\ Faulty /\ Goes(w, s)
  BY <1>1 DEF Start, Faulty
<1> QED BY <1>4, <1>5, <1>6, <1>7, LocalStep

LEMMA InvFind ==
  ASSUME IInv, NEW w \in Workers, Find(w)
  PROVE  IInv'
<1> DEFINE r == job[w]
           row == rows[r.cat]
           held == [r EXCEPT !.rid = row.id, !.plist = row.playlist]
<1>1. r.pc = "find" /\ r.cat \in Categories /\ r \in Job /\ Sane(r) /\ r.dirty = {}
  BY Working DEF Find, At, Sane
<1>2. PICK s : /\ Goes(w, s)
               /\ \/ s \in Creating(r)
                  \/ s = Refused
                  \/ row # NoRow /\ s = [held EXCEPT !.pc = "verify"]
                  \/ row # NoRow /\ s = [held EXCEPT !.pc = "touch"]
  BY DEF Find, CachedRow
<1>3. Fit(s, home, mirror, Inserted, Quiet)
  <2>1. CASE s \in Creating(r)
    BY <1>1, <2>1, CreatingFit
  <2>2. CASE s = Refused
    BY <2>2, IdleFit DEF Refused
  <2>3. ASSUME NEW pc \in {"verify", "touch"}, row # NoRow, s = [held EXCEPT !.pc = pc]
        PROVE  Fit(s, home, mirror, Inserted, Quiet)
    <3>1. /\ row.id \in 0 .. MaxPlaylists /\ row.playlist \in 0 .. MaxPlaylists /\ row.id # 0
          /\ row.playlist \in Playlists /\ home[row.playlist] = r.cat
      BY <1>1, <2>3, RowFacts DEF Row
    <3>2. /\ s \in Job /\ s.pc = pc /\ s.cat = r.cat /\ s.queue = r.queue /\ s.todo = r.todo
          /\ s.dirty = r.dirty /\ s.rid = row.id /\ s.plist = row.playlist
      BY <1>1, <2>3, <3>1 DEF Job, PCs
    <3>3. Placed(s, home)
      BY <3>1, <3>2 DEF Placed
    <3> QED BY <1>1, <3>1, <3>2, <3>3, PlainFit
  <2> QED BY <1>2, <2>1, <2>2, <2>3
<1>4. UNCHANGED <<youtube, rows, mirror, confirmed, world>> /\ Faulty
  BY DEF Find, Faulty
<1> QED BY <1>2, <1>3, <1>4, ReadStep

\* The thread keeps what it holds and goes on to pc.
LEMMA HeldFit ==
  ASSUME NEW r, Sane(r), r.cat \in Categories, r.dirty = {},
         NEW h, NEW m, NEW d, NEW q, Placed(r, h),
         NEW pc \in {"forget", "touch", "load"}, pc # "load" => r.rid # 0,
         NEW s, s = [r EXCEPT !.pc = pc]
  PROVE  Fit(s, h, m, d, q)
<1>1. /\ s \in Job /\ s.pc = pc /\ s.cat = r.cat /\ s.queue = r.queue /\ s.todo = r.todo
      /\ s.dirty = r.dirty /\ s.rid = r.rid /\ s.plist = r.plist
  BY DEF Sane, Job, PCs
<1>2. Placed(s, h)
  BY <1>1 DEF Placed
<1> QED BY <1>1, <1>2, PlainFit

LEMMA InvVerify ==
  ASSUME IInv, NEW w \in Workers, Verify(w) \/ VerifyFails(w)
  PROVE  IInv'
<1> DEFINE r == job[w]
<1>1. r.pc = "verify" /\ Sane(r) /\ r.cat \in Categories /\ r.dirty = {} /\ r.rid # 0
      /\ Placed(r, home)
  BY Working DEF Verify, VerifyFails, At, Sane, WithPlaylist
<1>2. PICK s : Goes(w, s) /\ (s = Refused \/ \E pc \in {"forget", "touch"} : s = [r EXCEPT !.pc = pc])
  BY DEF Verify, VerifyFails
<1>3. Fit(s, home, mirror, Inserted, Quiet)
  BY <1>1, <1>2, IdleFit, HeldFit DEF Refused
<1>4. confirmed' \in [Playlists -> Times]
  BY DEF Verify, VerifyFails, IInv, TypeOK
<1>5. RowsInv' /\ restores' \in 0 .. MaxRestores
  BY DEF Verify, VerifyFails, IInv, TypeOK, WorldInv, RowsInv
<1>6. UNCHANGED <<youtube, mirror, now, edits>> /\ Faulty
  BY DEF Verify, VerifyFails, Faulty
<1> QED BY <1>2, <1>3, <1>4, <1>5, <1>6, LocalStep

LEMMA InvForget ==
  ASSUME IInv, NEW w \in Workers, Forget(w) \/ ForgetFails(w)
  PROVE  IInv'
<1> DEFINE r == job[w]
<1>1. r.pc = "forget" /\ Sane(r) /\ r.cat \in Categories /\ r.dirty = {}
  BY Working DEF Forget, ForgetFails, At, Sane
<1>2. PICK s : Goes(w, s) /\ (s \in Creating(r) \/ s \in Broken(r))
  BY DEF Forget, ForgetFails
<1>3. Fit(s, home, mirror, Inserted, Quiet)
  BY <1>1, <1>2, CreatingFit, BrokenFit DEF Sane
<1>4. NoRow \in Row /\ NoRow.id = 0
  BY ParametersAssumption DEF NoRow, Row, Times
<1>5. rows' = rows \/ rows' = [rows EXCEPT ![r.cat] = NoRow]
  BY DEF Forget, ForgetFails
<1>6. RowsInv'
  <2>1. rows' \in [Categories -> Row] /\ \A c \in Categories : rows'[c] \in {rows[c], NoRow}
    BY <1>4, <1>5 DEF IInv, TypeOK
  <2>2. home' = home
    BY DEF Forget, ForgetFails
  <2> QED BY <1>4, <2>1, <2>2 DEF RowsInv, IInv, WorldInv
<1>7. confirmed' \in [Playlists -> Times] /\ restores' \in 0 .. MaxRestores
  BY DEF Forget, ForgetFails, IInv, TypeOK
<1>8. UNCHANGED <<youtube, mirror, now, edits>> /\ Faulty
  BY DEF Forget, ForgetFails, Faulty
<1> QED BY <1>2, <1>3, <1>6, <1>7, <1>8, LocalStep

\* A row of category c is written.
LEMMA RowWritten ==
  ASSUME IInv, NEW c \in Categories, NEW t \in Row, t.id # 0,
         t.playlist \in Playlists, home[t.playlist] = c,
         rows' = [rows EXCEPT ![c] = t], home' = home
  PROVE  RowsInv'
<1>1. rows \in [Categories -> Row]
  BY DEF IInv, TypeOK
<1>2. rows' \in [Categories -> Row]
      /\ \A d \in Categories : rows'[d] = IF d = c THEN t ELSE rows[d]
  BY <1>1
<1> QED BY <1>2 DEF RowsInv, IInv, WorldInv

LEMMA InvTouch ==
  ASSUME IInv, NEW w \in Workers, Touch(w) \/ TouchFails(w)
  PROVE  IInv'
<1> DEFINE r == job[w]
           row == rows[r.cat]
<1>1. /\ r.pc = "touch" /\ Sane(r) /\ r \in Job /\ r.cat \in Categories /\ r.dirty = {}
      /\ r.rid # 0
  BY Working DEF Touch, TouchFails, At, Sane
<1>2. row \in Row /\ (row.id # 0 => row.playlist \in Playlists /\ home[row.playlist] = r.cat)
  BY <1>1, RowFacts
<1>3. PICK s : /\ Goes(w, s)
               /\ \/ row.id = r.rid /\ s = Loading([r EXCEPT !.plist = row.playlist])
                  \/ s \in Broken(r)
  BY DEF Touch, TouchFails, Holds, CachedRow
<1>4. Fit(s, home, mirror, Inserted, Quiet)
  <2>1. CASE s \in Broken(r)
    BY <1>1, <2>1, BrokenFit
  <2>2. CASE row.id = r.rid /\ s = Loading([r EXCEPT !.plist = row.playlist])
    <3>1. row.playlist \in Playlists /\ row.playlist \in 0 .. MaxPlaylists /\ home[row.playlist] = r.cat
      BY <1>1, <1>2, <2>2 DEF Row
    <3>2. /\ s \in Job /\ s.pc = "load" /\ s.cat = r.cat /\ s.queue = r.queue /\ s.todo = r.todo
          /\ s.dirty = r.dirty /\ s.plist = row.playlist
      BY <1>1, <2>2, <3>1 DEF Loading, Job, PCs
    <3>3. Placed(s, home)
      BY <3>1, <3>2 DEF Placed
    <3> QED BY <1>1, <3>2, <3>3, PlainFit
  <2> QED BY <1>3, <2>1, <2>2
<1>5. rows' = rows \/ (row.id # 0 /\ rows' = [rows EXCEPT ![r.cat].verified = now])
  BY <1>1 DEF Touch, TouchFails, Holds, CachedRow
<1>6. RowsInv'
  <2>1. CASE rows' = rows
    BY <2>1 DEF RowsInv, IInv, TypeOK, WorldInv, Touch, TouchFails
  <2>2. CASE row.id # 0 /\ rows' = [rows EXCEPT ![r.cat].verified = now]
    <3>1. PICK t : t = [row EXCEPT !.verified = now]
      OBVIOUS
    <3>2. t \in Row /\ t.id = row.id /\ t.playlist = row.playlist
      BY <1>2, <3>1 DEF Row, IInv, TypeOK
    <3>3. rows' = [rows EXCEPT ![r.cat] = t]
      BY <2>2, <3>1 DEF IInv, TypeOK
    <3>4. home' = home
      BY DEF Touch, TouchFails
    <3> QED BY <1>1, <1>2, <2>2, <3>2, <3>3, <3>4, RowWritten
  <2> QED BY <1>5, <2>1, <2>2
<1>7. confirmed' \in [Playlists -> Times] /\ restores' \in 0 .. MaxRestores
  BY DEF Touch, TouchFails, IInv, TypeOK
<1>8. UNCHANGED <<youtube, mirror, now, edits>> /\ Faulty
  BY DEF Touch, TouchFails, Faulty
<1> QED BY <1>3, <1>4, <1>6, <1>7, <1>8, LocalStep

-----------------------------------------------------------------------------
(* Creating one.                                                             *)

\* A new playlist takes nothing from the others.
LEMMA MadeStep ==
  ASSUME IInv, NEW c \in Categories, Made(c), Faulty,
         UNCHANGED <<listed, copies, rows, mirror, world>>,
         NEW w \in Workers, NEW s, Goes(w, s), Fit(s, home', mirror, Inserted, Quiet)
  PROVE  IInv'
<1>1. WorldType /\ WorldInv
  BY TypeSplit DEF IInv
<1>2. faults' \in 0 .. MaxFaults /\ (Quiet' => Quiet)
  BY <1>1, FaultyStep
<1>3. /\ made + 1 \in Playlists /\ made' = made + 1 /\ made \in Nat
      /\ home' = [home EXCEPT ![made + 1] = c] /\ home \in [Playlists -> Categories \cup {None}]
      /\ home[made + 1] = None
  BY <1>1, ParametersAssumption DEF WorldType, WorldInv, Made, Playlists
<1>4. \A p \in Playlists : home'[p] = IF p = made + 1 THEN c ELSE home[p]
  BY <1>3
<1>5. WorldType'
  <2>1. made' \in 0 .. MaxPlaylists /\ live' \subseteq 1 .. made'
    BY <1>1, <1>3, ParametersAssumption DEF WorldType, Made, Playlists
  <2>2. home' \in [Playlists -> Categories \cup {None}]
    BY <1>3
  <2>3. confirmed' \in [Playlists -> Times]
    BY <1>1 DEF WorldType, Made
  <2> QED BY <1>1, <1>2, <2>1, <2>2, <2>3 DEF WorldType
<1>6. Inserted' = Inserted /\ mirror' = mirror
  BY DEF Inserted, Had
<1>7. \A p \in Playlists : home[p] \in Categories => home'[p] = home[p]
  BY <1>3, <1>4, ParametersAssumption
<1>8. WorldInv'
  <2>1. ASSUME NEW d \in Categories
        PROVE  IF rows'[d].id = 0 THEN rows'[d] = NoRow
               ELSE rows'[d].playlist \in Playlists /\ home'[rows'[d].playlist] = d
    BY <1>1, <1>7 DEF WorldInv
  <2>2. ASSUME NEW p \in Playlists
        PROVE  /\ mirror'[p] \subseteq Had(p)' /\ listed'[p] \subseteq Had(p)'
               /\ p > made' => home'[p] = None
    <3>1. p > made + 1 => home[p] = None
      BY <1>1, <1>3 DEF WorldInv, Playlists
    <3> QED BY <1>1, <1>3, <1>4, <3>1 DEF WorldInv, Had, Playlists
  <2> QED BY <2>1, <2>2 DEF WorldInv
<1>9. Forward
  BY <1>2, <1>6, <1>7 DEF Forward, Evolves
<1>10. Fit(s, home', mirror', Inserted', Quiet')
  <2>1. Evolves(home', mirror, Inserted, Quiet, home', mirror', Inserted', Quiet')
    BY <1>2, <1>6 DEF Evolves
  <2> QED BY <2>1, StaysFit
<1> QED BY <1>5, <1>8, <1>9, <1>10, ThreadStep

LEMMA InvCreate ==
  ASSUME IInv, NEW w \in Workers, Create(w)
  PROVE  IInv'
<1> DEFINE r == job[w]
<1>1. r.pc = "create" /\ Sane(r) /\ r \in Job /\ r.cat \in Categories /\ r.dirty = {}
  BY Working DEF Create, At, Sane
<1>2. PICK s : s = [r EXCEPT !.pc = "own", !.plist = made + 1, !.new = TRUE]
  OBVIOUS
<1>3. made + 1 \in 0 .. MaxPlaylists /\ made + 1 \in Playlists
  BY ParametersAssumption DEF Create, Made, IInv, TypeOK, Playlists
<1>4. /\ s \in Job /\ s.pc = "own" /\ s.cat = r.cat /\ s.queue = r.queue /\ s.todo = r.todo
      /\ s.dirty = r.dirty /\ s.plist = made + 1
  BY <1>1, <1>2, <1>3 DEF Job, PCs
<1>5. Placed(s, home')
  BY <1>3, <1>4 DEF Placed, Create, Made, IInv, TypeOK
<1>6. Fit(s, home', mirror, Inserted, Quiet)
  BY <1>1, <1>4, <1>5, PlainFit
<1>7. Made(r.cat) /\ Goes(w, s) /\ Faulty /\ UNCHANGED <<listed, copies, rows, mirror, world>>
  BY <1>2 DEF Create, Faulty
<1> QED BY <1>1, <1>6, <1>7, MadeStep

\* An attempt less.
LEMMA RetriedFit ==
  ASSUME NEW r \in Job, r.left > 1, NEW h, NEW m, NEW d, NEW q, Fit(r, h, m, d, q),
         NEW s, s = [r EXCEPT !.left = @ - 1]
  PROVE  Fit(s, h, m, d, q)
<1>1. r.left - 1 \in Nat
  BY DEF Job
<1>2. /\ s \in Job /\ s.pc = r.pc /\ s.cat = r.cat /\ s.plist = r.plist /\ s.queue = r.queue
      /\ s.todo = r.todo /\ s.known = r.known /\ s.dirty = r.dirty /\ s.failed = r.failed
      /\ s.rid = r.rid
  BY <1>1 DEF Job
<1>3. Stocked(r, m, d, q) => Stocked(s, m, d, q)
  BY <1>2 DEF Stocked
<1>4. Filling(r, m, d, q) => Filling(s, m, d, q)
  BY <1>2, <1>3 DEF Filling, Dealt
<1>5. Answered(r, m, d, q) => Answered(s, m, d, q)
  BY <1>2 DEF Answered, Accounted
<1>6. Placed(r, h) => Placed(s, h)
  BY <1>2 DEF Placed
<1> QED BY <1>2, <1>3, <1>4, <1>5, <1>6 DEF Fit, Sane

LEMMA InvCreateLost ==
  ASSUME IInv, NEW w \in Workers, CreateLost(w)
  PROVE  IInv'
<1> DEFINE r == job[w]
<1>1. /\ r.pc = "create" /\ r \in Job /\ r.cat \in Categories
      /\ Fit(r, home, mirror, Inserted, Quiet)
  BY Working DEF CreateLost, At
<1>2. Fit(r, home', mirror, Inserted, Quiet)
  BY <1>1 DEF Fit, WithPlaylist
<1>3. PICK s : /\ Goes(w, s)
               /\ \/ r.left > 1 /\ s = [r EXCEPT !.left = @ - 1]
                  \/ s \in Broken(r)
  BY DEF CreateLost
<1>4. Fit(s, home', mirror, Inserted, Quiet)
  <2>1. CASE r.left > 1 /\ s = [r EXCEPT !.left = @ - 1]
    BY <1>1, <1>2, <2>1, RetriedFit
  <2>2. CASE s \in Broken(r)
    BY <1>1, <2>2, BrokenFit
  <2> QED BY <1>3, <2>1, <2>2
<1>5. Made(r.cat) /\ Faulty /\ UNCHANGED <<listed, copies, rows, mirror, world>>
  BY DEF CreateLost, Faulty
<1> QED BY <1>1, <1>3, <1>4, <1>5, MadeStep

\* The steps of _create_playlist and _insert_track that leave nothing behind.
LEMMA InvRetried ==
  ASSUME IInv, NEW w \in Workers, CreateRetried(w) \/ InsertRetried(w)
  PROVE  IInv'
<1> DEFINE r == job[w]
<1>1. r \in Job /\ Fit(r, home, mirror, Inserted, Quiet)
  BY Working DEF CreateRetried, InsertRetried, At
<1>2. PICK s : s = [r EXCEPT !.left = @ - 1]
  OBVIOUS
<1>3. r.left > 1 /\ Goes(w, s)
  BY <1>2 DEF CreateRetried, InsertRetried
<1>4. Fit(s, home, mirror, Inserted, Quiet)
  BY <1>1, <1>2, <1>3, RetriedFit
<1>5. UNCHANGED <<youtube, rows, mirror, confirmed, world>> /\ Faulty
  BY DEF CreateRetried, InsertRetried, Faulty
<1> QED BY <1>3, <1>4, <1>5, ReadStep

LEMMA InvGivenUp ==
  ASSUME IInv, NEW w \in Workers,
         CreateFails(w) \/ StoreFails(w) \/ InsertRefused(w) \/ Die(w)
  PROVE  IInv'
<1> DEFINE r == job[w]
<1>1. r \in Job /\ r.cat \in Categories
  BY Working DEF CreateFails, StoreFails, InsertRefused, Die, At
<1>2. PICK s : Goes(w, s) /\ (s = Idle \/ s \in Broken(r))
  BY DEF CreateFails, StoreFails, InsertRefused, Die, Refused
<1>3. Fit(s, home, mirror, Inserted, Quiet)
  BY <1>1, <1>2, IdleFit, BrokenFit
<1>4. UNCHANGED <<youtube, rows, mirror, confirmed, world>> /\ Faulty
  BY DEF CreateFails, StoreFails, InsertRefused, Die, Faulty
<1> QED BY <1>2, <1>3, <1>4, ReadStep

LEMMA InvOwn ==
  ASSUME IInv, NEW w \in Workers, Own(w)
  PROVE  IInv'
<1> DEFINE r == job[w]
           row == rows[r.cat]
<1>1. /\ r.pc = "own" /\ Sane(r) /\ r \in Job /\ r.cat \in Categories /\ r.dirty = {}
      /\ Placed(r, home)
  BY Working DEF Own, At, Sane, WithPlaylist
<1>2. PICK s : s = [r EXCEPT !.pc = "store", !.rid = row.id]
  OBVIOUS
<1>3. row.id \in 0 .. MaxPlaylists
  BY <1>1, RowFacts DEF Row
<1>4. /\ s \in Job /\ s.pc = "store" /\ s.cat = r.cat /\ s.queue = r.queue /\ s.todo = r.todo
      /\ s.dirty = r.dirty /\ s.plist = r.plist
  BY <1>1, <1>2, <1>3 DEF Job, PCs
<1>5. Placed(s, home)
  BY <1>1, <1>4 DEF Placed
<1>6. Fit(s, home, mirror, Inserted, Quiet)
  BY <1>1, <1>4, <1>5, PlainFit
<1>7. Goes(w, s) /\ UNCHANGED <<youtube, rows, mirror, confirmed, world>> /\ Faulty
  BY <1>2 DEF Own, Faulty, CachedRow
<1> QED BY <1>6, <1>7, ReadStep

LEMMA InvStore ==
  ASSUME IInv, NEW w \in Workers, Store(w)
  PROVE  IInv'
<1> DEFINE r == job[w]
           c == r.cat
           p == r.plist
<1>1. /\ r.pc = "store" /\ Sane(r) /\ r \in Job /\ c \in Categories /\ r.dirty = {}
      /\ Placed(r, home)
  BY Working DEF Store, At, Sane, WithPlaylist
<1>2. p \in Playlists /\ p \in 1 .. MaxPlaylists /\ home[p] = c /\ now \in Times
  BY <1>1 DEF Placed, Playlists, IInv, TypeOK
<1>3. PICK s : Goes(w, s) /\ (s = Loading(r) \/ s \in Broken(r))
  BY DEF Store
<1>4. Fit(s, home, mirror, Inserted, Quiet)
  <2>1. s = Loading(r) => s = [r EXCEPT !.pc = "load"]
    BY DEF Loading
  <2> QED BY <1>1, <1>3, <2>1, BrokenFit, HeldFit
<1>5. home' = home
  BY DEF Store
<1>6. RowsInv'
  <2>1. CASE rows' = rows
    BY <1>5, <2>1 DEF RowsInv, IInv, TypeOK, WorldInv
  <2>2. CASE rows' = [rows EXCEPT ![c] = [id |-> p, playlist |-> p, verified |-> now]]
    <3>1. PICK t : t = [id |-> p, playlist |-> p, verified |-> now]
      OBVIOUS
    <3>2. t \in Row /\ t.id # 0 /\ t.playlist = p
      BY <1>2, <3>1, ParametersAssumption DEF Row
    <3> QED BY <1>1, <1>2, <1>5, <2>2, <3>1, <3>2, RowWritten
  <2>3. CASE r.rid # 0 /\ Holds(r) /\ rows' = [rows EXCEPT ![c].playlist = p, ![c].verified = now]
    <3>1. rows[c] \in Row /\ rows[c].id # 0
      BY <1>1, <2>3, RowFacts DEF Holds, CachedRow
    <3>2. PICK y : y = [rows[c] EXCEPT !.playlist = p]
      OBVIOUS
    <3>3. PICK t : t = [y EXCEPT !.verified = now]
      OBVIOUS
    <3>4. y \in Row /\ y.id = rows[c].id /\ y.playlist = p
      BY <1>2, <3>1, <3>2, ParametersAssumption DEF Row
    <3>5. t \in Row /\ t.id # 0 /\ t.playlist = p
      BY <1>2, <3>1, <3>3, <3>4 DEF Row
    <3>6. rows' = [rows EXCEPT ![c] = t]
      BY <1>1, <2>3, <3>2, <3>3 DEF IInv, TypeOK
    <3> QED BY <1>1, <1>2, <1>5, <3>5, <3>6, RowWritten
  <2> QED BY <2>1, <2>2, <2>3 DEF Store
<1>7. confirmed' \in [Playlists -> Times] /\ restores' \in 0 .. MaxRestores
  BY DEF Store, IInv, TypeOK
<1>8. UNCHANGED <<youtube, mirror, now, edits>> /\ Faulty
  BY DEF Store, Faulty
<1> QED BY <1>3, <1>4, <1>6, <1>7, <1>8, LocalStep

-----------------------------------------------------------------------------
(* Filling it.                                                               *)

\* The mirror grows by what was inserted.
LEMMA MirrorStep ==
  ASSUME IInv, UNCHANGED <<youtube, rows, confirmed, world>>, Faulty,
         mirror' \in [Playlists -> SUBSET Videos],
         \A p \in Playlists : mirror[p] \subseteq mirror'[p] /\ mirror'[p] \subseteq Had(p),
         NEW w \in Workers, NEW s, Goes(w, s), Fit(s, home, mirror', Inserted, Quiet')
  PROVE  IInv'
<1>1. WorldType /\ WorldInv
  BY TypeSplit DEF IInv
<1>2. faults' \in 0 .. MaxFaults /\ (Quiet' => Quiet)
  BY <1>1, FaultyStep
<1>3. WorldType'
  BY <1>1, <1>2 DEF WorldType
<1>4. WorldInv'
  BY <1>1 DEF WorldInv, Had
<1>5. Inserted' = Inserted /\ home' = home
  BY DEF Inserted, Had
<1>6. Forward
  BY <1>2, <1>5 DEF Forward, Evolves
<1>7. Fit(s, home', mirror', Inserted', Quiet')
  BY <1>5
<1> QED BY <1>3, <1>4, <1>6, <1>7, ThreadStep

\* Tracks are inserted into playlists.
LEMMA InsertStep ==
  ASSUME IInv, UNCHANGED <<live, made, home, rows, mirror, confirmed, world>>, Faulty,
         copies' \in [Playlists -> [Videos -> Nat]], listed' \in [Playlists -> SUBSET Videos],
         \A p \in Playlists : Inserted[p] \subseteq Inserted'[p] /\ listed'[p] \subseteq Inserted'[p],
         NEW w \in Workers, NEW s, Goes(w, s), Fit(s, home, mirror, Inserted', Quiet')
  PROVE  IInv'
<1>1. WorldType /\ WorldInv
  BY TypeSplit DEF IInv
<1>2. faults' \in 0 .. MaxFaults /\ (Quiet' => Quiet)
  BY <1>1, FaultyStep
<1>3. WorldType'
  BY <1>1, <1>2 DEF WorldType
<1>4. \A p \in Playlists : Inserted[p] = Had(p) /\ Inserted'[p] = Had(p)'
  BY DEF Inserted
<1>5. WorldInv'
  BY <1>1, <1>4 DEF WorldInv
<1>6. home' = home /\ mirror' = mirror
  OBVIOUS
<1>7. Forward
  BY <1>2, <1>6 DEF Forward, Evolves
<1>8. Fit(s, home', mirror', Inserted', Quiet')
  BY <1>6
<1> QED BY <1>3, <1>5, <1>7, <1>8, ThreadStep

LEMMA InvLoad ==
  ASSUME IInv, NEW w \in Workers, Load(w)
  PROVE  IInv'
<1> DEFINE r == job[w]
<1>1. /\ r.pc = "load" /\ Sane(r) /\ r \in Job /\ r.cat \in Categories /\ r.dirty = {}
      /\ Placed(r, home)
  BY Working DEF Load, At, Sane, WithPlaylist
<1>2. PICK u : u = [r EXCEPT !.known = mirror[r.plist]]
  OBVIOUS
<1>3. mirror[r.plist] \subseteq Videos /\ mirror[r.plist] \subseteq Inserted[r.plist]
  BY <1>1 DEF Placed, IInv, TypeOK, WorldInv, Inserted
<1>4. /\ u \in Job /\ u.cat = r.cat /\ u.queue = r.queue /\ u.todo = r.todo /\ u.dirty = {}
      /\ u.plist = r.plist /\ u.known = mirror[r.plist]
  BY <1>1, <1>2, <1>3 DEF Job
<1>5. Placed(u, home) /\ Stocked(u, mirror, Inserted, Quiet)
  BY <1>1, <1>3, <1>4 DEF Placed, Stocked
<1>6. PICK s : Goes(w, s) /\ (s = [u EXCEPT !.pc = "sync"] \/ s \in Planned(u))
  BY <1>2 DEF Load
<1>7. Fit(s, home, mirror, Inserted, Quiet)
  <2>1. CASE s \in Planned(u)
    BY <1>1, <1>4, <1>5, <2>1, PlannedFit
  <2>2. CASE s = [u EXCEPT !.pc = "sync"]
    <3>1. /\ s \in Job /\ s.pc = "sync" /\ s.cat = u.cat /\ s.queue = u.queue /\ s.todo = u.todo
          /\ s.dirty = u.dirty /\ s.plist = u.plist /\ s.known = u.known
      BY <1>4, <2>2 DEF Job, PCs
    <3>2. Placed(s, home) /\ Stocked(s, mirror, Inserted, Quiet)
      BY <1>5, <3>1 DEF Placed, Stocked
    <3> QED BY <1>1, <1>4, <3>1, <3>2 DEF Fit, Sane, WithPlaylist
  <2> QED BY <1>6, <2>1, <2>2
<1>8. UNCHANGED <<youtube, rows, mirror, confirmed, world>> /\ Faulty
  BY DEF Load, Faulty
<1> QED BY <1>6, <1>7, <1>8, ReadStep

\* What a thread that reads pages knows.
LEMMA Syncing ==
  ASSUME IInv, NEW w \in Workers, NEW r, r = job[w], r.pc = "sync"
  PROVE  /\ Sane(r) /\ r \in Job /\ r.cat \in Categories /\ r.dirty = {}
         /\ Placed(r, home) /\ Stocked(r, mirror, Inserted, Quiet)
<1>1. Fit(r, home, mirror, Inserted, Quiet)
  BY DEF IInv, ThreadInv
<1> QED BY <1>1 DEF Fit, Sane, WithPlaylist

LEMMA InvSyncFails ==
  ASSUME IInv, NEW w \in Workers, SyncFails(w)
  PROVE  IInv'
<1> DEFINE r == job[w]
<1>1. PICK s : Goes(w, s) /\ (s = Refused \/ s \in Planned(r))
  BY DEF SyncFails
<1>2. /\ r \in Job /\ r.cat \in Categories /\ r.dirty = {}
      /\ Placed(r, home) /\ Stocked(r, mirror, Inserted, Quiet)
  BY Syncing DEF SyncFails, At
<1>3. Fit(s, home, mirror, Inserted, Quiet)
  BY <1>1, <1>2, IdleFit, PlannedFit DEF Refused
<1>4. UNCHANGED <<youtube, rows, mirror, confirmed, world>> /\ Faulty
  BY DEF SyncFails, Faulty
<1> QED BY <1>1, <1>3, <1>4, ReadStep

LEMMA PageListed ==
  ASSUME NEW r, NEW D, D \in Page(r)
  PROVE  D \subseteq listed[r.plist]
<1>1. Page(r) \subseteq SUBSET (listed[r.plist] \ r.known)
  BY Zenon DEF Page
<1> QED BY <1>1

LEMMA InvSync ==
  ASSUME IInv, NEW w \in Workers, Sync(w)
  PROVE  IInv'
<1> DEFINE r == job[w]
           p == r.plist
<1>1. /\ Sane(r) /\ r \in Job /\ r.cat \in Categories /\ r.dirty = {} /\ r.pc = "sync"
      /\ Placed(r, home) /\ Stocked(r, mirror, Inserted, Quiet)
  BY Syncing DEF Sync, At
<1>2. /\ p \in Playlists /\ r.known \subseteq Videos /\ r.pages \in Nat
      /\ listed[p] \subseteq Inserted[p] /\ Inserted[p] \subseteq Videos
      /\ mirror \in [Playlists -> SUBSET Videos]
  BY <1>1 DEF Placed, Job, IInv, TypeOK, WorldInv, Inserted, Had
<1>3. PICK D, u, s :
        /\ D \in Page(r)
        /\ u = [r EXCEPT !.known = @ \cup D, !.pages = @ + 1]
        /\ Goes(w, s) /\ (s \in Planned(u) \/ s = u)
        /\ \/ /\ mirror' = IF D = {} THEN mirror ELSE [mirror EXCEPT ![p] = @ \cup u.known]
              /\ UNCHANGED faults
           \/ Fault /\ UNCHANGED mirror
  <2>1. PICK D \in Page(r) :
          /\ \E s : /\ Goes(w, s)
                    /\ \/ s \in Planned([r EXCEPT !.known = @ \cup D, !.pages = @ + 1])
                       \/ s = [r EXCEPT !.known = @ \cup D, !.pages = @ + 1]
          /\ \/ /\ mirror' = IF D = {} THEN mirror
                             ELSE [mirror EXCEPT ![p] = @ \cup
                                    [r EXCEPT !.known = @ \cup D, !.pages = @ + 1].known]
                /\ UNCHANGED faults
             \/ Fault /\ UNCHANGED mirror
    BY DEF Sync
  <2> QED BY <2>1
<1>4. D \subseteq listed[p]
  BY <1>3, PageListed
<1>5. /\ u \in Job /\ u.pc = "sync" /\ u.cat = r.cat /\ u.queue = r.queue /\ u.todo = r.todo
      /\ u.dirty = {} /\ u.plist = p /\ u.known = r.known \cup D
  <2>1. r.known \cup D \in SUBSET Videos /\ r.pages + 1 \in Nat
    BY <1>2, <1>4
  <2>2. u = [r EXCEPT !.known = @ \cup D, !.pages = @ + 1]
    BY <1>3
  <2> QED BY <1>1, <2>1, <2>2 DEF Job
<1>6. u.known \subseteq Inserted[p]
  BY <1>1, <1>2, <1>4, <1>5 DEF Stocked
<1>7. /\ mirror' \in [Playlists -> SUBSET Videos]
      /\ \A x \in Playlists : /\ mirror[x] \subseteq mirror'[x]
                              /\ mirror'[x] \subseteq mirror[x] \cup (IF x = p THEN u.known ELSE {})
  BY <1>2, <1>3, <1>6
<1>8. \A x \in Playlists : mirror[x] \subseteq mirror'[x] /\ mirror'[x] \subseteq Had(x)
  BY <1>6, <1>7 DEF IInv, WorldInv, Inserted
<1>9. Faulty /\ UNCHANGED <<youtube, rows, confirmed, world>>
  BY <1>3 DEF Sync, Faulty
<1>10. Quiet' => u.known \subseteq mirror'[p]
  <2>1. SUFFICES ASSUME Quiet' PROVE u.known \subseteq mirror'[p]
    OBVIOUS
  <2>2. Quiet /\ faults' = faults
    BY <1>9, <2>1, FaultyStep, TypeSplit DEF IInv
  <2>3. ~Fault
    BY <2>2, ParametersAssumption DEF Fault, IInv, TypeOK
  <2>4. CASE D = {}
    BY <1>1, <1>3, <1>5, <2>2, <2>3, <2>4 DEF Stocked
  <2>5. CASE D # {}
    BY <1>2, <1>3, <2>3, <2>5
  <2> QED BY <2>4, <2>5
<1>11. Placed(u, home) /\ Stocked(u, mirror', Inserted, Quiet')
  BY <1>1, <1>5, <1>6, <1>10 DEF Placed, Stocked
<1>12. Fit(s, home, mirror', Inserted, Quiet')
  <2>1. CASE s \in Planned(u)
    BY <1>1, <1>5, <1>11, <2>1, PlannedFit
  <2>2. CASE s = u
    BY <1>1, <1>5, <1>11, <2>2 DEF Fit, Sane, WithPlaylist
  <2> QED BY <1>3, <2>1, <2>2
<1> QED BY <1>3, <1>7, <1>8, <1>9, <1>12, MirrorStep

\* What a thread in the insert loop knows.
LEMMA Looping ==
  ASSUME IInv, NEW w \in Workers, NEW r, r = job[w], r.pc \in {"insert", "flush"}
  PROVE  /\ Sane(r) /\ r \in Job /\ r.cat \in Categories
         /\ r.todo \subseteq OrderedVideoIds(r.queue)
         /\ Placed(r, home) /\ Filling(r, mirror, Inserted, Quiet)
<1>1. Fit(r, home, mirror, Inserted, Quiet)
  BY DEF IInv, ThreadInv
<1> QED BY <1>1 DEF Fit, Sane, WithPlaylist

\* With the flag on, two positions have two videos.
LEMMA Distinct ==
  ASSUME Dedupe, NEW r \in Job, NEW i \in OrderedVideoIds(r.queue),
         NEW j \in OrderedVideoIds(r.queue), i # j
  PROVE  r.queue[i] # r.queue[j]
<1>1. i \in Nat /\ j \in Nat /\ i \in DOMAIN r.queue /\ j \in DOMAIN r.queue
  BY Positions
<1>2. i < j \/ j < i
  BY <1>1
<1> QED BY <1>1, <1>2 DEF OrderedVideoIds

LEMMA InvFlush ==
  ASSUME IInv, NEW w \in Workers, Flush(w)
  PROVE  IInv'
<1> DEFINE r == job[w]
           p == r.plist
<1>1. /\ r \in Job /\ r.cat \in Categories /\ r.todo \subseteq OrderedVideoIds(r.queue)
      /\ Placed(r, home) /\ Filling(r, mirror, Inserted, Quiet)
  BY Looping DEF Flush, At
<1>2. /\ p \in Playlists /\ r.dirty \subseteq Inserted[p] /\ r.known \subseteq Inserted[p]
      /\ Inserted[p] \subseteq Videos /\ mirror \in [Playlists -> SUBSET Videos]
  BY <1>1 DEF Placed, Filling, Stocked, IInv, TypeOK, Inserted, Had
<1>3. PICK u : u = [r EXCEPT !.dirty = {}]
  OBVIOUS
<1>4. /\ u \in Job /\ u.cat = r.cat /\ u.queue = r.queue /\ u.todo = r.todo /\ u.dirty = {}
      /\ u.plist = p /\ u.known = r.known /\ u.failed = r.failed
  BY <1>1, <1>3 DEF Job
<1>5. PICK s \in NextTrack(u) : Goes(w, s)
  BY <1>3 DEF Flush
<1>6. \/ mirror' = [mirror EXCEPT ![p] = @ \cup r.dirty] /\ UNCHANGED faults
      \/ Fault /\ UNCHANGED mirror
  BY DEF Flush
<1>7. /\ mirror' \in [Playlists -> SUBSET Videos]
      /\ \A x \in Playlists : /\ mirror[x] \subseteq mirror'[x]
                              /\ mirror'[x] \subseteq mirror[x] \cup (IF x = p THEN r.dirty ELSE {})
  BY <1>2, <1>6
<1>8. \A x \in Playlists : mirror[x] \subseteq mirror'[x] /\ mirror'[x] \subseteq Had(x)
  BY <1>2, <1>7 DEF IInv, WorldInv, Inserted
<1>9. Faulty /\ UNCHANGED <<youtube, rows, confirmed, world>>
  BY <1>6 DEF Flush, Faulty
<1>10. Quiet' => u.known \subseteq mirror'[p]
  <2>1. SUFFICES ASSUME Quiet' PROVE u.known \subseteq mirror'[p]
    OBVIOUS
  <2>2. Quiet /\ faults' = faults
    BY <1>9, <2>1, FaultyStep, TypeSplit DEF IInv
  <2>3. ~Fault
    BY <2>2, ParametersAssumption DEF Fault, IInv, TypeOK
  <2>4. mirror'[p] = mirror[p] \cup r.dirty
    BY <1>2, <1>6, <2>3
  <2> QED BY <1>1, <1>4, <2>2, <2>4 DEF Filling, Stocked
<1>11. Ready(u, home, mirror', Inserted, Quiet')
  <2>1. Placed(u, home) /\ Stocked(u, mirror', Inserted, Quiet')
    BY <1>1, <1>2, <1>4, <1>10 DEF Placed, Stocked
  <2>2. Filling(u, mirror', Inserted, Quiet')
    BY <1>1, <1>4, <2>1 DEF Filling, Dealt
  <2> QED BY <1>1, <1>4, <2>1, <2>2 DEF Ready
<1>12. Fit(s, home, mirror', Inserted, Quiet')
  BY <1>5, <1>11, NextTrackFit
<1> QED BY <1>5, <1>7, <1>8, <1>9, <1>12, MirrorStep

\* What the insertion of v into p changes.
LEMMA AddedFacts ==
  ASSUME IInv, NEW p \in Playlists, NEW v \in Videos, Added(p, v)
  PROVE  /\ copies' \in [Playlists -> [Videos -> Nat]]
         /\ listed' \in [Playlists -> SUBSET Videos]
         /\ \A x \in Playlists : /\ Inserted[x] \subseteq Inserted'[x]
                                 /\ listed'[x] \subseteq Inserted'[x]
         /\ v \in Inserted'[p]
<1>1. copies \in [Playlists -> [Videos -> Nat]] /\ listed \in [Playlists -> SUBSET Videos]
  BY DEF IInv, TypeOK
<1>2. copies[p] \in [Videos -> Nat] /\ copies[p][v] \in Nat
  BY <1>1
<1>3. PICK f : f = [copies[p] EXCEPT ![v] = @ + 1]
  OBVIOUS
<1>4. f \in [Videos -> Nat] /\ f[v] = copies[p][v] + 1 /\ \A y \in Videos \ {v} : f[y] = copies[p][y]
  BY <1>2, <1>3
<1>5. copies' = [copies EXCEPT ![p] = f]
  BY <1>1, <1>3 DEF Added
<1>6. /\ copies' \in [Playlists -> [Videos -> Nat]] /\ copies'[p] = f
      /\ \A x \in Playlists \ {p} : copies'[x] = copies[x]
  BY <1>1, <1>4, <1>5
<1>7. /\ listed' \in [Playlists -> SUBSET Videos]
      /\ \A x \in Playlists : listed'[x] \subseteq listed[x] \cup (IF x = p THEN {v} ELSE {})
  BY <1>1 DEF Added
<1>8. v \in Had(p)'
  BY <1>2, <1>4, <1>6 DEF Had
<1>9. ASSUME NEW x \in Playlists
      PROVE  Had(x) \subseteq Had(x)'
  <2>1. ASSUME NEW y \in Had(x) PROVE y \in Had(x)'
    <3>1. y \in Videos /\ copies[x][y] > 0 /\ copies[x][y] \in Nat
      BY <1>1 DEF Had
    <3>2. copies'[x][y] = copies[x][y] \/ copies'[x][y] = copies[x][y] + 1
      BY <1>4, <1>6, <3>1
    <3> QED BY <3>1, <3>2 DEF Had
  <2> QED BY <2>1
<1>10. \A x \in Playlists : Inserted[x] = Had(x) /\ Inserted'[x] = Had(x)' /\ listed[x] \subseteq Had(x)
  BY DEF Inserted, IInv, WorldInv
<1> QED BY <1>6, <1>7, <1>8, <1>9, <1>10

\* The thread about to send the track at i.
LEMMA SendingFacts ==
  ASSUME IInv, NEW w \in Workers, NEW i, Sending(w, i), NEW r, r = job[w]
  PROVE  /\ Fit(r, home, mirror, Inserted, Quiet) /\ Sane(r) /\ r \in Job /\ r.cat \in Categories
         /\ r.todo \subseteq OrderedVideoIds(r.queue) /\ i \in OrderedVideoIds(r.queue)
         /\ i \in r.todo /\ r.plist \in Playlists /\ r.queue[i] \in Videos
         /\ Placed(r, home) /\ Filling(r, mirror, Inserted, Quiet) /\ r.pc = "insert"
<1>1. /\ Fit(r, home, mirror, Inserted, Quiet) /\ Sane(r) /\ r \in Job /\ r.cat \in Categories
      /\ r.todo \subseteq OrderedVideoIds(r.queue) /\ r.pc = "insert" /\ i \in r.todo
      /\ Placed(r, home) /\ Filling(r, mirror, Inserted, Quiet)
  BY Looping DEF Sending, At, IInv, ThreadInv
<1> QED BY <1>1, Positions DEF Placed

LEMMA InvInsert ==
  ASSUME IInv, NEW w \in Workers, NEW i, Insert(w, i)
  PROVE  IInv'
<1> DEFINE r == job[w]
           v == r.queue[i]
           p == r.plist
<1>1. /\ r \in Job /\ r.cat \in Categories /\ r.todo \subseteq OrderedVideoIds(r.queue)
      /\ i \in OrderedVideoIds(r.queue) /\ p \in Playlists /\ v \in Videos
      /\ Placed(r, home) /\ Filling(r, mirror, Inserted, Quiet)
  BY SendingFacts DEF Insert
<1>2. /\ copies' \in [Playlists -> [Videos -> Nat]] /\ listed' \in [Playlists -> SUBSET Videos]
      /\ \A x \in Playlists : Inserted[x] \subseteq Inserted'[x] /\ listed'[x] \subseteq Inserted'[x]
      /\ v \in Inserted'[p]
  BY <1>1, AddedFacts DEF Insert
<1>3. PICK u : u = [r EXCEPT !.known = @ \cup {v}, !.dirty = @ \cup {v}]
  OBVIOUS
<1>4. /\ u \in Job /\ u.cat = r.cat /\ u.queue = r.queue /\ u.todo = r.todo /\ u.plist = p
      /\ u.known = r.known \cup {v} /\ u.dirty = r.dirty \cup {v} /\ u.failed = r.failed
  <2>1. r.known \cup {v} \in SUBSET Videos /\ r.dirty \cup {v} \in SUBSET Videos
    BY <1>1 DEF Job
  <2> QED BY <1>1, <1>3, <2>1 DEF Job
<1>5. PICK s \in Advance(u, i) : Goes(w, s)
  BY <1>3 DEF Insert
<1>6. faults' = faults /\ (Quiet' => Quiet)
  BY DEF Insert, Quiet
<1>7. Placed(u, home) /\ Stocked(u, mirror, Inserted', Quiet')
  BY <1>1, <1>2, <1>4, <1>6 DEF Placed, Filling, Stocked
<1>8. \A j \in OrderedVideoIds(u.queue) : j \in u.todo \ {i} \/ Dealt(u, j)
  BY <1>1, <1>4 DEF Filling, Dealt
<1>9. Dedupe => \A j \in u.todo \ {i} : u.queue[j] \notin u.known
  BY <1>1, <1>4, Distinct DEF Filling
<1>10. Fit(s, home, mirror, Inserted', Quiet')
  <2>1. Advancing(u, i, home, mirror, Inserted', Quiet')
    BY <1>1, <1>4, <1>7, <1>8, <1>9 DEF Advancing
  <2> QED BY <1>5, <2>1, AdvanceFit
<1>11. UNCHANGED <<live, made, home, rows, mirror, confirmed, world>> /\ Faulty
  BY DEF Insert, Added, Faulty
<1> QED BY <1>2, <1>5, <1>10, <1>11, InsertStep

\* The track at i is reported.
LEMMA ReportedFit ==
  ASSUME NEW r \in Job, r.cat \in Categories, r.todo \subseteq OrderedVideoIds(r.queue),
         NEW h, NEW m, NEW d, NEW q, Placed(r, h), Filling(r, m, d, q),
         NEW i \in OrderedVideoIds(r.queue), r.queue[i] \in Videos,
         NEW s \in Advance([r EXCEPT !.failed = @ \cup {r.queue[i]}], i)
  PROVE  Fit(s, h, m, d, q)
<1>1. PICK u : u = [r EXCEPT !.failed = @ \cup {r.queue[i]}]
  OBVIOUS
<1>2. /\ u \in Job /\ u.cat = r.cat /\ u.queue = r.queue /\ u.todo = r.todo /\ u.plist = r.plist
      /\ u.known = r.known /\ u.dirty = r.dirty /\ u.failed = r.failed \cup {r.queue[i]}
  <2>1. r.failed \cup {r.queue[i]} \in SUBSET Videos
    BY DEF Job
  <2> QED BY <1>1, <2>1 DEF Job
<1>3. Placed(u, h) /\ Stocked(u, m, d, q)
  BY <1>2 DEF Placed, Filling, Stocked
<1>4. /\ \A j \in OrderedVideoIds(u.queue) : j \in u.todo \ {i} \/ Dealt(u, j)
      /\ Dedupe => \A j \in u.todo \ {i} : u.queue[j] \notin u.known
  BY <1>2 DEF Filling, Dealt
<1>5. Advancing(u, i, h, m, d, q)
  BY <1>2, <1>3, <1>4 DEF Advancing
<1> QED BY <1>1, <1>5, AdvanceFit

LEMMA InvInsertFails ==
  ASSUME IInv, NEW w \in Workers, NEW i, InsertFails(w, i)
  PROVE  IInv'
<1> DEFINE r == job[w]
<1>1. /\ r \in Job /\ r.cat \in Categories /\ r.todo \subseteq OrderedVideoIds(r.queue)
      /\ i \in OrderedVideoIds(r.queue) /\ r.queue[i] \in Videos
      /\ Placed(r, home) /\ Filling(r, mirror, Inserted, Quiet)
  BY SendingFacts DEF InsertFails
<1>2. PICK s \in Advance([r EXCEPT !.failed = @ \cup {r.queue[i]}], i) : Goes(w, s)
  BY DEF InsertFails
<1>3. Fit(s, home, mirror, Inserted, Quiet)
  BY <1>1, <1>2, ReportedFit
<1>4. UNCHANGED <<youtube, rows, mirror, confirmed, world>> /\ Faulty
  BY DEF InsertFails, Faulty
<1> QED BY <1>2, <1>3, <1>4, ReadStep

LEMMA InvInsertLost ==
  ASSUME IInv, NEW w \in Workers, NEW i, InsertLost(w, i)
  PROVE  IInv'
<1> DEFINE r == job[w]
           v == r.queue[i]
           p == r.plist
<1>1. /\ r \in Job /\ r.cat \in Categories /\ r.todo \subseteq OrderedVideoIds(r.queue)
      /\ i \in OrderedVideoIds(r.queue) /\ p \in Playlists /\ v \in Videos
      /\ Fit(r, home, mirror, Inserted, Quiet) /\ r.pc = "insert"
  BY SendingFacts DEF InsertLost
<1>2. /\ copies' \in [Playlists -> [Videos -> Nat]] /\ listed' \in [Playlists -> SUBSET Videos]
      /\ \A x \in Playlists : Inserted[x] \subseteq Inserted'[x] /\ listed'[x] \subseteq Inserted'[x]
  BY <1>1, AddedFacts DEF InsertLost
<1>3. UNCHANGED <<live, made, home, rows, mirror, confirmed, world>> /\ Faulty
  BY DEF InsertLost, Added, Faulty
<1>4. Quiet' => Quiet
  BY <1>3, FaultyStep, TypeSplit DEF IInv
<1>5. Fit(r, home, mirror, Inserted', Quiet')
  <2>1. Evolves(home, mirror, Inserted, Quiet, home, mirror, Inserted', Quiet')
    BY <1>2, <1>4 DEF Evolves
  <2> QED BY <1>1, <2>1, StaysFit
<1>6. PICK s : /\ Goes(w, s)
               /\ \/ r.left > 1 /\ s = [r EXCEPT !.left = @ - 1]
                  \/ s \in Advance([r EXCEPT !.failed = @ \cup {v}], i)
  BY DEF InsertLost
<1>7. Fit(s, home, mirror, Inserted', Quiet')
  <2>1. CASE r.left > 1 /\ s = [r EXCEPT !.left = @ - 1]
    BY <1>1, <1>5, <2>1, RetriedFit
  <2>2. CASE s \in Advance([r EXCEPT !.failed = @ \cup {v}], i)
    <3>1. Placed(r, home) /\ Filling(r, mirror, Inserted', Quiet')
      BY <1>1, <1>5 DEF Fit, WithPlaylist
    <3> QED BY <1>1, <2>2, <3>1, ReportedFit
  <2> QED BY <1>6, <2>1, <2>2
<1> QED BY <1>2, <1>3, <1>6, <1>7, InsertStep

LEMMA InvInsertNotFound ==
  ASSUME IInv, NEW w \in Workers, NEW i, InsertNotFound(w, i)
  PROVE  IInv'
<1> DEFINE r == job[w]
<1>1. /\ Sane(r) /\ r \in Job /\ r.cat \in Categories /\ Placed(r, home)
      /\ r.todo \subseteq OrderedVideoIds(r.queue)
  BY SendingFacts DEF InsertNotFound
<1>2. PICK s : s = [r EXCEPT !.pc = "invalidate"]
  OBVIOUS
<1>3. /\ s \in Job /\ s.pc = "invalidate" /\ s.cat = r.cat /\ s.queue = r.queue /\ s.todo = r.todo
      /\ s.plist = r.plist
  BY <1>1, <1>2 DEF Job, PCs
<1>4. Placed(s, home)
  BY <1>1, <1>3 DEF Placed
<1>5. Fit(s, home, mirror, Inserted, Quiet)
  BY <1>1, <1>3, <1>4 DEF Fit, Sane
<1>6. Goes(w, s) /\ UNCHANGED <<youtube, rows, mirror, confirmed, world>> /\ Faulty
  BY <1>2 DEF InsertNotFound, Faulty
<1> QED BY <1>5, <1>6, ReadStep

LEMMA InvInvalidate ==
  ASSUME IInv, NEW w \in Workers, Invalidate(w) \/ InvalidateFails(w)
  PROVE  IInv'
<1> DEFINE r == job[w]
<1>1. r \in Job /\ r.cat \in Categories
  BY Working DEF Invalidate, InvalidateFails, At
<1>2. PICK s \in NextPass(r) : Goes(w, s)
  BY DEF Invalidate, InvalidateFails
<1>3. Fit(s, home, mirror, Inserted, Quiet)
  BY <1>1, <1>2, NextPassFit
<1>4. NoRow \in Row /\ NoRow.id = 0
  BY ParametersAssumption DEF NoRow, Row, Times
<1>5. RowsInv'
  BY <1>4 DEF Invalidate, InvalidateFails, RowsInv, IInv, TypeOK, WorldInv
<1>6. confirmed' \in [Playlists -> Times] /\ restores' \in 0 .. MaxRestores
  BY DEF Invalidate, InvalidateFails, IInv, TypeOK
<1>7. UNCHANGED <<youtube, mirror, now, edits>> /\ Faulty
  BY DEF Invalidate, InvalidateFails, Faulty
<1> QED BY <1>2, <1>3, <1>5, <1>6, <1>7, LocalStep

-----------------------------------------------------------------------------
(* The fallback, and the rest of the world.                                  *)

LEMMA InvFallbackCreate ==
  ASSUME IInv, NEW w \in Workers, FallbackCreate(w)
  PROVE  IInv'
<1> DEFINE r == job[w]
<1>1. r.pc = "fallback" /\ Sane(r) /\ r \in Job /\ r.cat \in Categories /\ r.dirty = {}
  BY Working DEF FallbackCreate, At, Sane
<1>2. CASE Made(r.cat) /\ Goes(w, [r EXCEPT !.pc = "fill", !.plist = made + 1])
  <2>1. PICK s : s = [r EXCEPT !.pc = "fill", !.plist = made + 1]
    OBVIOUS
  <2>2. made + 1 \in 0 .. MaxPlaylists /\ made + 1 \in Playlists
    BY <1>2, ParametersAssumption DEF Made, IInv, TypeOK, Playlists
  <2>3. /\ s \in Job /\ s.pc = "fill" /\ s.cat = r.cat /\ s.queue = r.queue /\ s.todo = r.todo
        /\ s.dirty = r.dirty /\ s.plist = made + 1
    BY <1>1, <2>1, <2>2 DEF Job, PCs
  <2>4. Placed(s, home')
    BY <1>2, <2>2, <2>3 DEF Placed, Made, IInv, TypeOK
  <2>5. Fit(s, home', mirror, Inserted, Quiet)
    BY <1>1, <2>3, <2>4, PlainFit
  <2>6. Goes(w, s) /\ Faulty /\ UNCHANGED <<listed, copies, rows, mirror, world>>
    BY <1>2, <2>1 DEF FallbackCreate, Faulty
  <2> QED BY <1>1, <1>2, <2>5, <2>6, MadeStep
<1>3. CASE Goes(w, Idle) /\ UNCHANGED <<made, live, home, confirmed>>
  <2>1. UNCHANGED <<youtube, rows, mirror, confirmed, world>> /\ Faulty
    BY <1>3 DEF FallbackCreate, Faulty
  <2> QED BY <1>3, <2>1, IdleFit, ReadStep
<1> QED BY <1>2, <1>3 DEF FallbackCreate

LEMMA InvFallbackFill ==
  ASSUME IInv, NEW w \in Workers, FallbackFill(w)
  PROVE  IInv'
<1> DEFINE r == job[w]
           p == r.plist
           S == ToSet(r.queue) \ Missing
<1>1. r.pc = "fill" /\ Sane(r) /\ r \in Job /\ r.cat \in Categories /\ Placed(r, home)
  BY Working DEF FallbackFill, At, WithPlaylist
<1>2. CASE Goes(w, Idle) /\ UNCHANGED <<listed, copies>>
  <2>1. UNCHANGED <<youtube, rows, mirror, confirmed, world>> /\ Faulty
    BY <1>2 DEF FallbackFill, Faulty
  <2> QED BY <1>2, <2>1, IdleFit, ReadStep
<1>3. CASE /\ listed' = [listed EXCEPT ![p] = @ \cup S]
           /\ copies' = [copies EXCEPT ![p] = [v \in Videos |-> @[v] + IF v \in S THEN 1 ELSE 0]]
           /\ Goes(w, [Done(r) EXCEPT !.pc = "copied"])
  <2>1. /\ copies \in [Playlists -> [Videos -> Nat]] /\ listed \in [Playlists -> SUBSET Videos]
        /\ p \in Playlists
    BY <1>1 DEF IInv, TypeOK, Placed
  <2>2. S \subseteq Videos
    BY <1>1, Positions DEF ToSet
  <2>3. PICK f : f = [v \in Videos |-> copies[p][v] + IF v \in S THEN 1 ELSE 0]
    OBVIOUS
  <2>4. /\ f \in [Videos -> Nat] /\ \A v \in Videos : copies[p][v] > 0 => f[v] > 0
        /\ \A v \in S : f[v] > 0
    <3>1. ASSUME NEW v \in Videos
          PROVE  f[v] \in Nat /\ (copies[p][v] > 0 => f[v] > 0) /\ (v \in S => f[v] > 0)
      <4>1. copies[p][v] \in Nat
        BY <2>1
      <4>2. f[v] = copies[p][v] + IF v \in S THEN 1 ELSE 0
        BY <2>3
      <4> HIDE DEF S
      <4> QED BY <4>1, <4>2
    <3> HIDE DEF S
    <3> QED BY <2>2, <2>3, <3>1
  <2>5. copies' = [copies EXCEPT ![p] = f]
    BY <1>3, <2>1, <2>3
  <2>6. /\ copies' \in [Playlists -> [Videos -> Nat]]
        /\ \A x \in Playlists : copies'[x] = IF x = p THEN f ELSE copies[x]
    BY <2>1, <2>4, <2>5
  <2> HIDE DEF S
  <2>7. /\ listed' \in [Playlists -> SUBSET Videos]
        /\ \A x \in Playlists : listed'[x] = IF x = p THEN listed[x] \cup S ELSE listed[x]
    BY <1>3, <2>1, <2>2
  <2>8. ASSUME NEW x \in Playlists
        PROVE  Inserted[x] \subseteq Inserted'[x] /\ listed'[x] \subseteq Inserted'[x]
    <3>1. Inserted[x] = Had(x) /\ Inserted'[x] = Had(x)' /\ listed[x] \subseteq Had(x)
      BY DEF Inserted, IInv, WorldInv
    <3>2. Had(x) \subseteq Had(x)'
      BY <2>4, <2>6 DEF Had
    <3>3. x = p => S \subseteq Had(x)'
      BY <2>2, <2>4, <2>6 DEF Had
    <3> QED BY <2>7, <3>1, <3>2, <3>3
  <2>9. PICK t : t = Done(r)
    OBVIOUS
  <2>10. PICK s : s = [t EXCEPT !.pc = "copied"]
    OBVIOUS
  <2>11. /\ s \in Job /\ s.pc = "copied" /\ s.cat = r.cat /\ s.plist = p /\ s.todo = {}
         /\ s.dirty = {}
    <3>1. r.queue \in Seq(Videos) /\ p \in 0 .. MaxPlaylists /\ r.failed \in SUBSET Videos
      BY <1>1 DEF Job
    <3>2. t = [pc |-> "done", cat |-> r.cat, queue |-> r.queue, pass |-> 0, rid |-> 0,
               plist |-> p, new |-> FALSE, left |-> 0, pages |-> 0, known |-> {},
               todo |-> {}, count |-> 0, dirty |-> {}, failed |-> r.failed]
      BY <2>9 DEF Done, Idle
    <3>3. t \in Job
      BY <1>1, <3>1, <3>2, ParametersAssumption DEF Job, PCs, MAX_PLAYLIST_RESOLUTION_ATTEMPTS
    <3>4. t.cat = r.cat /\ t.plist = p /\ t.todo = {} /\ t.dirty = {}
      BY <3>2
    <3> QED BY <2>10, <3>3, <3>4 DEF Job, PCs
  <2>12. Placed(s, home)
    BY <1>1, <2>11 DEF Placed
  <2>13. Fit(s, home, mirror, Inserted', Quiet')
    BY <1>1, <2>11, <2>12 DEF Fit, Sane, WithPlaylist
  <2>14. Goes(w, s) /\ UNCHANGED <<live, made, home, rows, mirror, confirmed, world>> /\ Faulty
    BY <1>3, <2>9, <2>10 DEF FallbackFill, Faulty
  <2> QED BY <2>6, <2>7, <2>8, <2>13, <2>14, InsertStep
<1> QED BY <1>2, <1>3 DEF FallbackFill

\* The user's own edits, and time.
LEMMA InvOutside ==
  ASSUME IInv,
         \/ \E p \in Playlists : DeletePlaylist(p) \/ \E v \in Videos : TakeOut(p, v)
         \/ Tick
         \/ UNCHANGED vars
  PROVE  IInv'
<1>1. WorldType /\ WorldInv /\ job \in [Workers -> Job]
  BY TypeSplit DEF IInv
<1>2. /\ UNCHANGED <<made, home, copies, rows, mirror, confirmed, job, restores, faults>>
      /\ live' \subseteq live
      /\ \A p \in Playlists : listed'[p] \subseteq listed[p]
      /\ listed' \in [Playlists -> SUBSET Videos]
      /\ now' \in Times /\ edits' \in 0 .. MaxEdits
  <2>1. CASE \E p \in Playlists : DeletePlaylist(p)
    BY <1>1, <2>1, ParametersAssumption DEF DeletePlaylist, WorldType
  <2>2. CASE \E p \in Playlists : \E v \in Videos : TakeOut(p, v)
    <3>1. PICK p \in Playlists, v \in Videos : TakeOut(p, v)
      BY <2>2
    <3>2. listed' = [listed EXCEPT ![p] = @ \ {v}]
      BY <3>1 DEF TakeOut
    <3> QED BY <1>1, <3>1, <3>2, ParametersAssumption DEF TakeOut, WorldType
  <2>3. CASE Tick
    BY <1>1, <2>3, ParametersAssumption DEF Tick, WorldType, Times
  <2>4. CASE UNCHANGED vars
    BY <1>1, <2>4 DEF vars, WorldType
  <2> QED BY <2>1, <2>2, <2>3, <2>4
<1>3. WorldType'
  BY <1>1, <1>2 DEF WorldType
<1>4. TypeOK'
  BY <1>1, <1>2, <1>3 DEF TypeOK, WorldType
<1>5. WorldInv'
  BY <1>1, <1>2 DEF WorldInv, Had
<1>6. ThreadInv'
  BY <1>2 DEF IInv, ThreadInv, Inserted, Had, Quiet
<1> QED BY <1>4, <1>5, <1>6 DEF IInv

LEMMA InvStep ==
  ASSUME IInv, [Next]_vars
  PROVE  IInv'
<1>1. CASE \E w \in Workers : Step(w)
  <2>1. PICK w \in Workers : Step(w)
    BY <1>1
  <2>2. CASE Find(w) \/ Verify(w) \/ VerifyFails(w) \/ Forget(w) \/ ForgetFails(w)
             \/ Touch(w) \/ TouchFails(w)
    BY <2>2, InvFind, InvVerify, InvForget, InvTouch
  <2>3. CASE Create(w) \/ CreateFails(w) \/ CreateRetried(w) \/ CreateLost(w)
             \/ Own(w) \/ Store(w) \/ StoreFails(w)
    BY <2>3, InvCreate, InvGivenUp, InvRetried, InvCreateLost, InvOwn, InvStore
  <2>4. CASE Load(w) \/ Sync(w) \/ SyncFails(w) \/ Flush(w)
    BY <2>4, InvLoad, InvSync, InvSyncFails, InvFlush
  <2>5. CASE \E i \in job[w].todo :
               Insert(w, i) \/ InsertFails(w, i) \/ InsertLost(w, i) \/ InsertNotFound(w, i)
    BY <2>5, InvInsert, InvInsertFails, InvInsertLost, InvInsertNotFound
  <2>6. CASE InsertRetried(w) \/ InsertRefused(w) \/ Invalidate(w) \/ InvalidateFails(w)
    BY <2>6, InvRetried, InvGivenUp, InvInvalidate
  <2>7. CASE FallbackCreate(w) \/ FallbackFill(w)
    BY <2>7, InvFallbackCreate, InvFallbackFill
  <2> QED BY <2>1, <2>2, <2>3, <2>4, <2>5, <2>6, <2>7 DEF Step
<1>2. CASE \E w \in Workers : Die(w)
  BY <1>2, InvGivenUp
<1>3. CASE \E w \in Workers : \E c \in Categories, q \in Queues : Start(w, c, q)
  BY <1>3, InvStart
<1> QED BY <1>1, <1>2, <1>3, InvOutside DEF Next

-----------------------------------------------------------------------------
(* How many playlists the restores may still create.                         *)

FallbackCreations == IF Fallback THEN 1 ELSE 0

\* In the passes after this one, and in the fallback.
InLaterPasses(r) == MAX_PLAYLIST_RESOLUTION_ATTEMPTS - r.pass + FallbackCreations

CreationsLeft(r) ==
  CASE r.pc \in {"idle", "fill", "done", "copied"}          -> 0
    [] r.pc = "fallback"                                    -> 1
    [] r.pc \in {"find", "verify", "forget", "create"}      -> 1 + InLaterPasses(r)
    [] OTHER                                                -> InLaterPasses(r)

Left == [w \in Workers |-> CreationsLeft(job[w])]

PerRestore == MAX_PLAYLIST_RESOLUTION_ATTEMPTS + FallbackCreations
Allowed    == PerRestore * restores + faults

\* Created so far, and still to be created, against what was accepted and lost.
CreationInv == made + Total(Left, Workers) <= Allowed

LEMMA LeftType ==
  ASSUME NEW r \in Job
  PROVE  /\ FallbackCreations \in {0, 1} /\ (Fallback => FallbackCreations = 1)
         /\ InLaterPasses(r) \in Nat /\ FallbackCreations <= InLaterPasses(r)
         /\ CreationsLeft(r) \in Nat
<1>1. r.pass \in 0 .. 2
  BY DEF Job, MAX_PLAYLIST_RESOLUTION_ATTEMPTS
<1>2. FallbackCreations \in {0, 1} /\ (Fallback => FallbackCreations = 1)
  BY DEF FallbackCreations
<1>3. InLaterPasses(r) \in Nat /\ FallbackCreations <= InLaterPasses(r)
  BY <1>1, <1>2 DEF InLaterPasses, MAX_PLAYLIST_RESOLUTION_ATTEMPTS
<1>4. CreationsLeft(r) \in Nat
  BY <1>3 DEF CreationsLeft
<1> QED BY <1>2, <1>3, <1>4

\* The allowance grows with the restores and the faults.
LEMMA AllowedStep ==
  ASSUME TypeOK, TypeOK'
  PROVE  /\ Allowed \in Nat /\ Allowed' \in Nat
         /\ restores' = restores /\ faults' = faults => Allowed' = Allowed
         /\ restores' = restores /\ faults' = faults + 1 => Allowed' = Allowed + 1
         /\ restores' = restores + 1 /\ faults' = faults => Allowed' = Allowed + PerRestore
<1>1. /\ restores \in Nat /\ faults \in Nat /\ restores' \in Nat /\ faults' \in Nat
  BY ParametersAssumption DEF TypeOK
<1>2. PerRestore \in {2, 3}
  BY DEF PerRestore, FallbackCreations, MAX_PLAYLIST_RESOLUTION_ATTEMPTS
<1>3. ASSUME NEW k \in {2, 3}, NEW x \in Nat, NEW y \in Nat
      PROVE  k * x + y \in Nat /\ k * (x + 1) + y = k * x + y + k
  <2>1. CASE k = 2
    BY <2>1
  <2>2. CASE k = 3
    BY <2>2
  <2> QED BY <2>1, <2>2
<1>4. Allowed \in Nat /\ Allowed' \in Nat
  BY <1>1, <1>2, <1>3 DEF Allowed, PerRestore, FallbackCreations
<1>5. restores' = restores /\ faults' = faults + 1 => Allowed' = Allowed + 1
  <2>1. PerRestore * restores \in Nat
    BY <1>1, <1>2, <1>3
  <2>2. restores' = restores /\ faults' = faults + 1 => Allowed' = PerRestore * restores + (faults + 1)
    BY DEF Allowed, PerRestore, FallbackCreations
  <2> QED BY <1>1, <2>1, <2>2 DEF Allowed
<1>6. restores' = restores + 1 /\ faults' = faults => Allowed' = Allowed + PerRestore
  <2>1. restores' = restores + 1 /\ faults' = faults => Allowed' = PerRestore * (restores + 1) + faults
    BY DEF Allowed, PerRestore, FallbackCreations
  <2> QED BY <1>1, <1>2, <1>3, <2>1 DEF Allowed
<1>7. restores' = restores /\ faults' = faults => Allowed' = Allowed
  BY DEF Allowed, PerRestore, FallbackCreations
<1> QED BY <1>4, <1>5, <1>6, <1>7

\* What the step of a thread creates, and what it may still create, is paid for.
Paid(r, s) == made' + CreationsLeft(s) + Allowed <= made + CreationsLeft(r) + Allowed'

LEMMA CreationStep ==
  ASSUME IInv, IInv', CreationInv, NEW w \in Workers, NEW s, Goes(w, s), Paid(job[w], s)
  PROVE  CreationInv'
<1>1. /\ job \in [Workers -> Job] /\ job' \in [Workers -> Job]
      /\ made \in Nat /\ made' \in Nat
  BY ParametersAssumption DEF IInv, TypeOK
<1>2. job'[w] = s /\ \A x \in Workers \ {w} : job'[x] = job[x]
  BY <1>1 DEF Goes
<1>3. Left \in [Workers -> Nat] /\ Left' \in [Workers -> Nat]
  BY <1>1, LeftType DEF Left
<1>4. Left[w] = CreationsLeft(job[w]) /\ Left'[w] = CreationsLeft(s)
  BY <1>2 DEF Left
<1>5. \A x \in Workers \ {w} : Left'[x] = Left[x]
  BY <1>2 DEF Left
<1>6. Total(Left', Workers) = Total(Left, Workers) - Left[w] + Left'[w]
  BY <1>3, <1>5, TotalChange, ParametersAssumption
<1>7. Total(Left, Workers) \in Nat /\ Left[w] \in Nat /\ Left'[w] \in Nat
  BY <1>3, TotalType, ParametersAssumption
<1>8. Allowed \in Nat /\ Allowed' \in Nat
  BY AllowedStep DEF IInv
<1>9. made' + Total(Left', Workers) <= Allowed'
  <2>1. made + Total(Left, Workers) <= Allowed
    BY DEF CreationInv
  <2>2. made' + Left'[w] + Allowed <= made + Left[w] + Allowed'
    BY <1>4 DEF Paid
  <2> QED BY <1>1, <1>6, <1>7, <1>8, <2>1, <2>2
<1> QED BY <1>9 DEF CreationInv

\* A step that creates nothing.
LEMMA NothingCreated ==
  ASSUME IInv, IInv', made' = made, restores' = restores, Faulty,
         NEW r \in Job, NEW s \in Job, CreationsLeft(s) <= CreationsLeft(r)
  PROVE  Paid(r, s)
<1>1. Allowed \in Nat /\ Allowed' \in Nat /\ Allowed <= Allowed'
  BY AllowedStep DEF IInv, Faulty, Fault
<1>2. CreationsLeft(s) \in Nat /\ CreationsLeft(r) \in Nat /\ made \in Nat
  BY LeftType, ParametersAssumption DEF IInv, TypeOK
<1> QED BY <1>1, <1>2 DEF Paid

\* A step that creates one playlist, foreseen or lost.
LEMMA OneCreated ==
  ASSUME IInv, IInv', made' = made + 1, restores' = restores,
         NEW r \in Job, NEW s \in Job,
         \/ faults' = faults /\ CreationsLeft(s) + 1 <= CreationsLeft(r)
         \/ Fault /\ CreationsLeft(s) <= CreationsLeft(r)
  PROVE  Paid(r, s)
<1>1. /\ Allowed \in Nat /\ Allowed' \in Nat /\ (faults' = faults => Allowed' = Allowed)
      /\ (Fault => Allowed' = Allowed + 1)
  BY AllowedStep DEF IInv, Fault
<1>2. CreationsLeft(s) \in Nat /\ CreationsLeft(r) \in Nat /\ made \in Nat
  BY LeftType, ParametersAssumption DEF IInv, TypeOK
<1> QED BY <1>1, <1>2 DEF Paid

\* From the playlist on, a pass keeps to it, and creates nothing more.
Later(r, s) ==
  /\ s.pc = "done" \/ (s.pc \in {"insert", "flush"} /\ s.pass = r.pass)
  /\ s.cat = r.cat /\ s.plist = r.plist

LEMMA WrapUpLater ==
  ASSUME NEW r \in Job, NEW s, s = WrapUp(r)
  PROVE  Later(r, s)
<1>1. CASE r.dirty = {}
  BY <1>1 DEF WrapUp, Done, Idle, Later
<1>2. CASE r.dirty # {}
  <2>1. s = [r EXCEPT !.pc = "flush"]
    BY <1>2 DEF WrapUp
  <2>2. s.pc = "flush" /\ s.pass = r.pass /\ s.cat = r.cat /\ s.plist = r.plist
    BY <2>1 DEF Job
  <2> QED BY <2>2 DEF Later
<1> QED BY <1>1, <1>2

LEMMA NextTrackLater ==
  ASSUME NEW r \in Job, r.todo \subseteq OrderedVideoIds(r.queue), NEW s \in NextTrack(r)
  PROVE  Later(r, s)
<1>1. CASE s = WrapUp(r)
  BY <1>1, WrapUpLater
<1>2. CASE s = [r EXCEPT !.pc = "insert", !.left = 2]
  <2>1. s.pc = "insert" /\ s.pass = r.pass /\ s.cat = r.cat /\ s.plist = r.plist
    BY <1>2 DEF Job
  <2> QED BY <2>1 DEF Later
<1>3. CASE s = WrapUp([r EXCEPT !.failed = @ \cup Tracks(r, r.todo), !.todo = {}])
  <2>1. PICK t : t = [r EXCEPT !.failed = @ \cup Tracks(r, r.todo), !.todo = {}]
    OBVIOUS
  <2>2. r.failed \cup Tracks(r, r.todo) \in SUBSET Videos
    <3>1. Tracks(r, r.todo) \subseteq Videos
      BY Positions DEF Tracks
    <3> QED BY <3>1 DEF Job
  <2>3. t \in Job /\ t.pass = r.pass /\ t.cat = r.cat /\ t.plist = r.plist
    BY <2>1, <2>2 DEF Job
  <2> QED BY <1>3, <2>1, <2>3, WrapUpLater DEF Later
<1> QED BY <1>1, <1>2, <1>3 DEF NextTrack

LEMMA AdvanceLater ==
  ASSUME NEW r \in Job, r.todo \subseteq OrderedVideoIds(r.queue), NEW i, NEW s \in Advance(r, i)
  PROVE  Later(r, s)
<1>1. PICK n : n = (r.count + 1) % FlushBatch
  OBVIOUS
<1>2. n \in Nat
  <2>1. r.count \in Nat
    BY DEF Job
  <2> QED BY <1>1, <2>1, ParametersAssumption
<1>3. PICK t : t = [r EXCEPT !.todo = @ \ {i}, !.count = n]
  OBVIOUS
<1>4. /\ t \in Job /\ t.todo = r.todo \ {i} /\ t.queue = r.queue /\ t.pass = r.pass
      /\ t.cat = r.cat /\ t.plist = r.plist
  BY <1>2, <1>3 DEF Job
<1>5. CASE s = [t EXCEPT !.pc = "flush"]
  <2>1. s.pc = "flush" /\ s.pass = t.pass /\ s.cat = t.cat /\ s.plist = t.plist
    BY <1>4, <1>5 DEF Job
  <2> QED BY <1>4, <2>1 DEF Later
<1>6. CASE s \in NextTrack(t)
  <2>1. t.todo \subseteq OrderedVideoIds(t.queue)
    BY <1>4
  <2> QED BY <1>4, <1>6, <2>1, NextTrackLater DEF Later
<1>7. s = [t EXCEPT !.pc = "flush"] \/ s \in NextTrack(t)
  BY <1>1, <1>3 DEF Advance
<1> QED BY <1>5, <1>6, <1>7

LEMMA PlannedLater ==
  ASSUME NEW r \in Job, NEW s \in Planned(r)
  PROVE  Later(r, s)
<1>1. CASE s = Done(r)
  BY <1>1 DEF Done, Idle, Later
<1>2. CASE s # Done(r)
  <2>1. PICK S \in SUBSET Pending(r) : s \in NextTrack([r EXCEPT !.todo = S])
    BY <1>2 DEF Planned
  <2>2. PICK t : t = [r EXCEPT !.todo = S]
    OBVIOUS
  <2>3. S \subseteq OrderedVideoIds(r.queue) /\ S \in SUBSET Nat
    BY <2>1, Positions DEF Pending
  <2>4. /\ t \in Job /\ t.todo = S /\ t.queue = r.queue /\ t.pass = r.pass
        /\ t.cat = r.cat /\ t.plist = r.plist
    BY <2>2, <2>3 DEF Job
  <2>5. s \in NextTrack(t) /\ t.todo \subseteq OrderedVideoIds(t.queue)
    BY <2>1, <2>2, <2>3, <2>4
  <2> QED BY <2>4, <2>5, NextTrackLater DEF Later
<1> QED BY <1>1, <1>2

\* What is left to create, by pc.
LEMMA LeftBy ==
  ASSUME NEW r \in Job
  PROVE  /\ r.pc \in {"idle", "fill", "done", "copied"} => CreationsLeft(r) = 0
         /\ r.pc = "fallback" => CreationsLeft(r) = 1
         /\ r.pc \in {"find", "verify", "forget", "create"} => CreationsLeft(r) = 1 + InLaterPasses(r)
         /\ r.pc \in {"touch", "own", "store", "load", "sync", "insert", "flush", "invalidate"} =>
              CreationsLeft(r) = InLaterPasses(r)
BY DEF CreationsLeft

LEMMA SamePass ==
  ASSUME NEW r, NEW s, s.pass = r.pass
  PROVE  InLaterPasses(s) = InLaterPasses(r)
BY DEF InLaterPasses

LEMMA BrokenLeft ==
  ASSUME NEW r \in Job, NEW s \in Job, s \in Broken(r) \/ s = Idle
  PROVE  CreationsLeft(s) <= InLaterPasses(r)
<1>1. CASE s = Idle
  BY <1>1, IdleJob, LeftBy, LeftType
<1>2. CASE Fallback /\ s = [Idle EXCEPT !.pc = "fallback", !.cat = r.cat, !.queue = r.queue]
  <2>1. s.pc = "fallback"
    BY <1>2, IdleJob DEF Job
  <2> QED BY <1>2, <2>1, LeftBy, LeftType
<1> QED BY <1>1, <1>2 DEF Broken

LEMMA LaterLeft ==
  ASSUME NEW r \in Job, NEW s \in Job, Later(r, s)
  PROVE  CreationsLeft(s) <= InLaterPasses(r)
BY LeftBy, LeftType, SamePass DEF Later

LEMMA CreatingLeft ==
  ASSUME NEW r \in Job, NEW s \in Job, s \in Creating(r)
  PROVE  CreationsLeft(s) <= 1 + InLaterPasses(r)
<1>1. CASE s = Refused
  BY <1>1, IdleJob, LeftBy, LeftType DEF Refused
<1>2. CASE s = [r EXCEPT !.pc = "create", !.rid = 0, !.plist = 0, !.left = 1 + MaxRetries]
  <2>1. s.pc = "create" /\ s.pass = r.pass
    BY <1>2 DEF Job
  <2> QED BY <2>1, LeftBy, LeftType, SamePass
<1> QED BY <1>1, <1>2 DEF Creating

LEMMA NextPassLeft ==
  ASSUME NEW r \in Job, NEW s \in Job, s \in NextPass(r)
  PROVE  CreationsLeft(s) <= InLaterPasses(r)
<1>1. CASE s \in Broken(r)
  BY <1>1, BrokenLeft
<1>2. CASE s = [Idle EXCEPT !.pc = "find", !.cat = r.cat, !.queue = r.queue, !.pass = r.pass + 1]
  <2>1. s.pc = "find" /\ s.pass = r.pass + 1 /\ r.pass \in 0 .. 2
    BY <1>2 DEF Idle, Job, MAX_PLAYLIST_RESOLUTION_ATTEMPTS
  <2>2. FallbackCreations \in {0, 1}
    BY LeftType
  <2>3. 1 + InLaterPasses(s) = InLaterPasses(r)
    BY <2>1, <2>2 DEF InLaterPasses, MAX_PLAYLIST_RESOLUTION_ATTEMPTS
  <2> QED BY <2>1, <2>3, LeftBy, LeftType
<1> QED BY <1>1, <1>2 DEF NextPass

LEMMA MovedJob ==
  ASSUME IInv, IInv', NEW w \in Workers, NEW s, Goes(w, s)
  PROVE  job[w] \in Job /\ s \in Job
BY DEF IInv, TypeOK, Goes

\* Steps at a playlist, which create nothing more in their pass.
LEMMA PaidFilling ==
  ASSUME IInv, IInv', NEW w \in Workers,
         \/ Touch(w) \/ TouchFails(w) \/ Own(w) \/ Store(w) \/ StoreFails(w)
         \/ Invalidate(w) \/ InvalidateFails(w) \/ InsertRefused(w)
         \/ Load(w) \/ Sync(w) \/ SyncFails(w) \/ Flush(w) \/ InsertRetried(w)
         \/ \E i \in job[w].todo :
              Insert(w, i) \/ InsertFails(w, i) \/ InsertLost(w, i) \/ InsertNotFound(w, i)
  PROVE  \E s : Goes(w, s) /\ Paid(job[w], s)
<1> DEFINE r == job[w]
<1>1. made' = made /\ restores' = restores /\ Faulty
  BY DEF Touch, TouchFails, Own, Store, StoreFails, Invalidate, InvalidateFails, InsertRefused,
         Load, Sync, SyncFails, Flush, InsertRetried, Insert, InsertFails, InsertLost,
         InsertNotFound, Added, Faulty
<1>2. r \in Job /\ Sane(r) /\ r.pc \in {"touch", "own", "store", "load", "sync", "insert", "flush", "invalidate"}
  BY Working DEF Touch, TouchFails, Own, Store, StoreFails, Invalidate, InvalidateFails, InsertRefused,
         Load, Sync, SyncFails, Flush, InsertRetried, Insert, InsertFails, InsertLost,
         InsertNotFound, Sending, At
<1>3. CreationsLeft(r) = InLaterPasses(r)
  BY <1>2, LeftBy
<1>4. SUFFICES \E s : Goes(w, s) /\ (s \in Job => CreationsLeft(s) <= InLaterPasses(r))
  BY <1>1, <1>2, <1>3, MovedJob, NothingCreated
<1>5. ASSUME NEW s, Goes(w, s), s.pass = r.pass,
             s.pc \in {"touch", "own", "store", "load", "sync", "insert", "flush", "invalidate"}
      PROVE  \E t : Goes(w, t) /\ (t \in Job => CreationsLeft(t) <= InLaterPasses(r))
  BY <1>2, <1>5, LeftBy, SamePass, LeftType
<1>6. ASSUME NEW s, Goes(w, s), s \in Broken(r) \/ s = Idle
      PROVE  \E t : Goes(w, t) /\ (t \in Job => CreationsLeft(t) <= InLaterPasses(r))
  BY <1>2, <1>6, BrokenLeft
<1>7. ASSUME NEW u \in Job, NEW s, u.pass = r.pass, u.todo \subseteq OrderedVideoIds(u.queue), Goes(w, s),
             s \in Planned(u) \/ s \in NextTrack(u) \/ \E i : s \in Advance(u, i)
      PROVE  \E t : Goes(w, t) /\ (t \in Job => CreationsLeft(t) <= InLaterPasses(r))
  <2>1. Later(u, s)
    BY <1>7, PlannedLater, NextTrackLater, AdvanceLater
  <2>2. s \in Job => CreationsLeft(s) <= InLaterPasses(u)
    BY <2>1, LaterLeft
  <2> QED BY <1>2, <1>7, <2>2, SamePass
<1>8. CASE Touch(w) \/ TouchFails(w)
  <2>1. PICK s : Goes(w, s) /\ (s \in Broken(r) \/ s = Loading([r EXCEPT !.plist = CachedRow(r.cat).playlist]))
    BY <1>8 DEF Touch, TouchFails
  <2>2. CASE s = Loading([r EXCEPT !.plist = CachedRow(r.cat).playlist])
    <3>1. s.pc = "load" /\ s.pass = r.pass
      BY <1>2, <2>2 DEF Loading, Job
    <3> QED BY <1>5, <2>1, <3>1
  <2> QED BY <1>6, <2>1, <2>2
<1>9. CASE Own(w)
  <2>1. PICK s : Goes(w, s) /\ s = [r EXCEPT !.pc = "store", !.rid = CachedRow(r.cat).id]
    BY <1>9 DEF Own
  <2>2. s.pc = "store" /\ s.pass = r.pass
    BY <1>2, <2>1 DEF Job
  <2> QED BY <1>5, <2>1, <2>2
<1>10. CASE Store(w) \/ StoreFails(w)
  <2>1. PICK s : Goes(w, s) /\ (s \in Broken(r) \/ s = Loading(r))
    BY <1>10 DEF Store, StoreFails
  <2>2. CASE s = Loading(r)
    <3>1. s.pc = "load" /\ s.pass = r.pass
      BY <1>2, <2>2 DEF Loading, Job
    <3> QED BY <1>5, <2>1, <3>1
  <2> QED BY <1>6, <2>1, <2>2
<1>11. CASE Invalidate(w) \/ InvalidateFails(w)
  <2>1. PICK s \in NextPass(r) : Goes(w, s)
    BY <1>11 DEF Invalidate, InvalidateFails
  <2> QED BY <1>2, <2>1, NextPassLeft
<1>12. CASE InsertRefused(w)
  BY <1>6, <1>12 DEF InsertRefused, Refused
<1>13. CASE Load(w)
  <2>1. PICK u : u = [r EXCEPT !.known = mirror[r.plist]]
    OBVIOUS
  <2>2. mirror[r.plist] \in SUBSET Videos
    BY <1>13, Working DEF Load, At, WithPlaylist, Placed, IInv, TypeOK
  <2>3. u \in Job /\ u.pass = r.pass /\ u.todo = r.todo /\ u.queue = r.queue
    BY <1>2, <2>1, <2>2 DEF Job
  <2>4. PICK s : Goes(w, s) /\ (s = [u EXCEPT !.pc = "sync"] \/ s \in Planned(u))
    BY <1>13, <2>1 DEF Load
  <2>5. CASE s = [u EXCEPT !.pc = "sync"]
    <3>1. s.pc = "sync" /\ s.pass = r.pass
      BY <2>3, <2>5 DEF Job
    <3> QED BY <1>5, <2>4, <3>1
  <2> QED BY <1>2, <1>7, <2>3, <2>4, <2>5 DEF Sane
<1>14. CASE Sync(w)
  <2>1. PICK D, u, s : /\ D \in Page(r) /\ u = [r EXCEPT !.known = @ \cup D, !.pages = @ + 1]
                       /\ Goes(w, s) /\ (s \in Planned(u) \/ s = u)
    <3>1. PICK D \in Page(r) :
            \E s : /\ Goes(w, s)
                  /\ \/ s \in Planned([r EXCEPT !.known = @ \cup D, !.pages = @ + 1])
                     \/ s = [r EXCEPT !.known = @ \cup D, !.pages = @ + 1]
      BY <1>14 DEF Sync
    <3> QED BY <3>1
  <2>2. D \subseteq Videos
    <3>1. D \subseteq listed[r.plist]
      BY <2>1, PageListed
    <3> QED BY <1>14, <3>1, Working DEF Sync, At, WithPlaylist, Placed, IInv, TypeOK
  <2>3. r.known \cup D \in SUBSET Videos /\ r.pages + 1 \in Nat
    BY <1>2, <2>2 DEF Job
  <2>4. u = [r EXCEPT !.known = @ \cup D, !.pages = @ + 1]
    BY <2>1
  <2>5. u \in Job /\ u.pass = r.pass /\ u.todo = r.todo /\ u.queue = r.queue /\ u.pc = r.pc
    BY <1>2, <2>3, <2>4 DEF Job
  <2> QED BY <1>2, <1>5, <1>7, <2>1, <2>5 DEF Sane
<1>15. CASE SyncFails(w)
  <2>1. PICK s : Goes(w, s) /\ (s = Idle \/ s \in Planned(r))
    BY <1>15 DEF SyncFails, Refused
  <2> QED BY <1>2, <1>6, <1>7, <2>1 DEF Sane
<1>16. CASE Flush(w)
  <2>1. PICK u : u = [r EXCEPT !.dirty = {}]
    OBVIOUS
  <2>2. u \in Job /\ u.pass = r.pass /\ u.todo = r.todo /\ u.queue = r.queue
    BY <1>2, <2>1 DEF Job
  <2>3. PICK s \in NextTrack(u) : Goes(w, s)
    BY <1>16, <2>1 DEF Flush
  <2> QED BY <1>2, <1>7, <2>2, <2>3 DEF Sane
<1>17. CASE InsertRetried(w)
  <2>1. PICK s : Goes(w, s) /\ s = [r EXCEPT !.left = @ - 1]
    BY <1>17 DEF InsertRetried
  <2>2. s.pc = r.pc /\ s.pass = r.pass
    BY <1>2, <2>1 DEF Job
  <2> QED BY <1>2, <1>5, <2>1, <2>2
<1>18. ASSUME NEW i, Insert(w, i) \/ InsertFails(w, i) \/ InsertLost(w, i) \/ InsertNotFound(w, i)
       PROVE  \E t : Goes(w, t) /\ (t \in Job => CreationsLeft(t) <= InLaterPasses(r))
  <2>1. r.queue[i] \in Videos
    BY <1>18, SendingFacts DEF Insert, InsertFails, InsertLost, InsertNotFound
  <2>2. /\ r.known \cup {r.queue[i]} \in SUBSET Videos /\ r.dirty \cup {r.queue[i]} \in SUBSET Videos
        /\ r.failed \cup {r.queue[i]} \in SUBSET Videos
    BY <1>2, <2>1 DEF Job
  <2>3. PICK u : u = [r EXCEPT !.known = @ \cup {r.queue[i]}, !.dirty = @ \cup {r.queue[i]}]
    OBVIOUS
  <2>4. PICK x : x = [r EXCEPT !.failed = @ \cup {r.queue[i]}]
    OBVIOUS
  <2>5. u \in Job /\ u.pass = r.pass /\ u.todo = r.todo /\ u.queue = r.queue
    BY <1>2, <2>2, <2>3 DEF Job
  <2>6. x \in Job /\ x.pass = r.pass /\ x.todo = r.todo /\ x.queue = r.queue
    BY <1>2, <2>2, <2>4 DEF Job
  <2>7. PICK s : /\ Goes(w, s)
                 /\ \/ s \in Advance(u, i) \/ s \in Advance(x, i)
                    \/ s = [r EXCEPT !.left = @ - 1] \/ s = [r EXCEPT !.pc = "invalidate"]
    BY <1>18, <2>3, <2>4 DEF Insert, InsertFails, InsertLost, InsertNotFound
  <2>8. CASE s = [r EXCEPT !.left = @ - 1] \/ s = [r EXCEPT !.pc = "invalidate"]
    <3>1. s.pc \in {r.pc, "invalidate"} /\ s.pass = r.pass
      BY <1>2, <2>8 DEF Job
    <3> QED BY <1>2, <1>5, <2>7, <3>1
  <2> QED BY <1>2, <1>7, <2>5, <2>6, <2>7, <2>8 DEF Sane
<1> QED BY <1>8, <1>9, <1>10, <1>11, <1>12, <1>13, <1>14, <1>15, <1>16, <1>17, <1>18

\* Steps before it, and out of it.
LEMMA PaidFinding ==
  ASSUME IInv, IInv', NEW w \in Workers,
         \/ Find(w) \/ Verify(w) \/ VerifyFails(w) \/ Forget(w) \/ ForgetFails(w)
         \/ CreateFails(w) \/ CreateRetried(w) \/ FallbackFill(w) \/ Die(w)
         \/ FallbackCreate(w) /\ made' = made
  PROVE  \E s : Goes(w, s) /\ Paid(job[w], s)
<1> DEFINE r == job[w]
<1>1. made' = made /\ restores' = restores /\ Faulty
  BY DEF Find, Verify, VerifyFails, Forget, ForgetFails, CreateFails, CreateRetried,
         FallbackFill, FallbackCreate, Die, Faulty
<1>2. r \in Job
  BY DEF IInv, TypeOK
<1>3. SUFFICES \E s : Goes(w, s) /\ (s \in Job => CreationsLeft(s) <= CreationsLeft(r))
  BY <1>1, <1>2, MovedJob, NothingCreated
<1>4. ASSUME NEW s, Goes(w, s), s = Idle
      PROVE  \E t : Goes(w, t) /\ (t \in Job => CreationsLeft(t) <= CreationsLeft(r))
  <2>1. CreationsLeft(s) = 0
    BY <1>4, IdleJob, LeftBy
  <2> QED BY <1>2, <1>4, <2>1, LeftType
<1>5. CASE Die(w)
  BY <1>4, <1>5 DEF Die
<1>6. CASE FallbackFill(w)
  <2>1. PICK t, s : t = Done(r) /\ Goes(w, s) /\ (s = Idle \/ s = [t EXCEPT !.pc = "copied"])
    BY <1>6 DEF FallbackFill
  <2>2. CASE s = [t EXCEPT !.pc = "copied"]
    <3>1. s.pc = "copied"
      BY <2>1, <2>2 DEF Done, Idle
    <3>2. s \in Job => CreationsLeft(s) = 0
      BY <3>1, LeftBy
    <3> QED BY <1>2, <2>1, <3>2, LeftType
  <2> QED BY <1>4, <2>1, <2>2
<1>7. CASE FallbackCreate(w) /\ made' = made
  <2>1. made \in Nat
    BY ParametersAssumption DEF IInv, TypeOK
  <2>2. ~Made(r.cat)
    BY <1>7, <2>1 DEF Made
  <2>3. Goes(w, Idle)
    BY <1>7, <2>2 DEF FallbackCreate
  <2> QED BY <1>4, <2>3
<1>8. CASE \/ Find(w) \/ Verify(w) \/ VerifyFails(w) \/ Forget(w) \/ ForgetFails(w)
           \/ CreateFails(w) \/ CreateRetried(w)
  <2>1. r.pc \in {"find", "verify", "forget", "create"}
    BY <1>8 DEF Find, Verify, VerifyFails, Forget, ForgetFails, CreateFails, CreateRetried, At
  <2>2. CreationsLeft(r) = 1 + InLaterPasses(r) /\ InLaterPasses(r) \in Nat
    BY <1>2, <2>1, LeftBy, LeftType
  <2>3. SUFFICES \E s : Goes(w, s) /\ (s \in Job => CreationsLeft(s) <= 1 + InLaterPasses(r))
    BY <2>2
  <2>4. ASSUME NEW s, Goes(w, s),
               s \in Creating(r) \/ s \in Broken(r) \/ s = Idle
                 \/ (s.pass = r.pass /\ s.pc \in {"verify", "forget", "create", "touch"})
        PROVE  \E t : Goes(w, t) /\ (t \in Job => CreationsLeft(t) <= 1 + InLaterPasses(r))
    <3>1. CASE s \in Creating(r)
      BY <1>2, <2>4, <3>1, CreatingLeft
    <3>2. CASE s \in Broken(r) \/ s = Idle
      <4>1. s \in Job => CreationsLeft(s) <= InLaterPasses(r) /\ CreationsLeft(s) \in Nat
        BY <1>2, <3>2, BrokenLeft, LeftType
      <4> QED BY <2>2, <2>4, <4>1
    <3>3. CASE s.pass = r.pass /\ s.pc \in {"verify", "forget", "create", "touch"}
      <4>1. s \in Job => CreationsLeft(s) \in {InLaterPasses(r), 1 + InLaterPasses(r)}
        BY <3>3, LeftBy, SamePass
      <4> QED BY <2>2, <2>4, <4>1
    <3> QED BY <2>4, <3>1, <3>2, <3>3
  <2>5. CASE Find(w)
    <3> DEFINE row == CachedRow(r.cat)
    <3>1. PICK held, s : /\ held = [r EXCEPT !.rid = row.id, !.plist = row.playlist]
                         /\ Goes(w, s)
                         /\ \/ s \in Creating(r)
                            \/ s = Idle
                            \/ \E pc \in {"verify", "touch"} : s = [held EXCEPT !.pc = pc]
      BY <2>5 DEF Find, Refused
    <3>2. ASSUME NEW pc \in {"verify", "touch"}, s = [held EXCEPT !.pc = pc]
          PROVE  s.pass = r.pass /\ s.pc = pc
      <4>1. held.pass = r.pass /\ DOMAIN held = DOMAIN r
        BY <1>2, <3>1 DEF Job
      <4> QED BY <1>2, <3>2, <4>1 DEF Job
    <3> QED BY <2>4, <3>1, <3>2
  <2>6. CASE Verify(w) \/ VerifyFails(w)
    <3>1. PICK s : Goes(w, s) /\ (s = Idle \/ \E pc \in {"forget", "touch"} : s = [r EXCEPT !.pc = pc])
      BY <2>6 DEF Verify, VerifyFails, Refused
    <3>2. ASSUME NEW pc \in {"forget", "touch"}, s = [r EXCEPT !.pc = pc]
          PROVE  s.pass = r.pass /\ s.pc = pc
      BY <1>2, <3>2 DEF Job
    <3> QED BY <2>4, <3>1, <3>2
  <2>7. CASE Forget(w) \/ ForgetFails(w)
    BY <2>4, <2>7 DEF Forget, ForgetFails
  <2>8. CASE CreateFails(w)
    BY <2>4, <2>8 DEF CreateFails, Refused
  <2>9. CASE CreateRetried(w)
    <3>1. PICK s : Goes(w, s) /\ s = [r EXCEPT !.left = @ - 1] /\ r.pc = "create"
      BY <2>9 DEF CreateRetried, At
    <3>2. s.pc = "create" /\ s.pass = r.pass
      BY <1>2, <3>1 DEF Job
    <3> QED BY <2>4, <3>1, <3>2
  <2> QED BY <1>8, <2>5, <2>6, <2>7, <2>8, <2>9
<1> QED BY <1>5, <1>6, <1>7, <1>8

\* Steps that make a playlist.
LEMMA PaidMaking ==
  ASSUME IInv, IInv', NEW w \in Workers,
         Create(w) \/ CreateLost(w) \/ (FallbackCreate(w) /\ made' # made)
  PROVE  \E s : Goes(w, s) /\ Paid(job[w], s)
<1> DEFINE r == job[w]
<1>1. r \in Job /\ made' = made + 1 /\ restores' = restores
  BY DEF Create, CreateLost, FallbackCreate, Made, IInv, TypeOK
<1>2. InLaterPasses(r) \in Nat
  BY <1>1, LeftType
<1>3. CASE Create(w)
  <2>1. PICK s : Goes(w, s) /\ s = [r EXCEPT !.pc = "own", !.plist = made + 1, !.new = TRUE]
    BY <1>3 DEF Create
  <2>2. s.pc = "own" /\ s.pass = r.pass /\ s \in Job
    BY <1>1, <2>1, MovedJob DEF Job
  <2>3. CreationsLeft(s) = InLaterPasses(r)
    BY <2>2, LeftBy, SamePass
  <2>4. CreationsLeft(r) = 1 + InLaterPasses(r)
    BY <1>1, <1>3, LeftBy DEF Create, At
  <2>5. faults' = faults
    BY <1>3 DEF Create
  <2> QED BY <1>1, <1>2, <2>1, <2>2, <2>3, <2>4, <2>5, OneCreated
<1>4. CASE CreateLost(w)
  <2>1. PICK s : Goes(w, s) /\ (s = [r EXCEPT !.left = @ - 1] \/ s \in Broken(r))
    BY <1>4 DEF CreateLost
  <2>2. s \in Job /\ r.pc = "create" /\ Fault
    BY <1>4, <2>1, MovedJob DEF CreateLost, At
  <2>3. CreationsLeft(r) = 1 + InLaterPasses(r)
    BY <1>1, <2>2, LeftBy
  <2>4. CreationsLeft(s) <= CreationsLeft(r)
    <3>1. CASE s \in Broken(r)
      <4>1. CreationsLeft(s) <= InLaterPasses(r) /\ CreationsLeft(s) \in Nat
        BY <1>1, <2>2, <3>1, BrokenLeft, LeftType
      <4> QED BY <1>2, <2>3, <4>1
    <3>2. CASE s = [r EXCEPT !.left = @ - 1]
      <4>1. s.pc = "create" /\ s.pass = r.pass
        BY <1>1, <2>2, <3>2 DEF Job
      <4>2. CreationsLeft(s) = 1 + InLaterPasses(r)
        BY <2>2, <4>1, LeftBy, SamePass
      <4> QED BY <1>2, <2>3, <4>2
    <3> QED BY <2>1, <3>1, <3>2
  <2> QED BY <1>1, <2>1, <2>2, <2>4, OneCreated
<1>5. CASE FallbackCreate(w) /\ made' # made
  <2>1. PICK s : Goes(w, s) /\ s = [r EXCEPT !.pc = "fill", !.plist = made + 1]
    BY <1>5 DEF FallbackCreate
  <2>2. s.pc = "fill" /\ s \in Job
    BY <1>1, <2>1, MovedJob DEF Job
  <2>3. CreationsLeft(s) = 0 /\ CreationsLeft(r) = 1
    BY <1>1, <1>5, <2>2, LeftBy DEF FallbackCreate, At
  <2>4. faults' = faults
    BY <1>5 DEF FallbackCreate
  <2> QED BY <1>1, <2>1, <2>2, <2>3, <2>4, OneCreated
<1> QED BY <1>3, <1>4, <1>5

LEMMA PaidStart ==
  ASSUME IInv, IInv', NEW w \in Workers, NEW c \in Categories, NEW q \in Queues, Start(w, c, q)
  PROVE  \E s : Goes(w, s) /\ Paid(job[w], s)
<1>1. PICK s : Goes(w, s) /\ s = [Idle EXCEPT !.pc = "find", !.cat = c, !.queue = q, !.pass = 1]
  BY DEF Start
<1>2. s.pc = "find" /\ s.pass = 1 /\ s \in Job /\ job[w] \in Job
  BY <1>1, MovedJob DEF Idle
<1>3. FallbackCreations \in {0, 1}
  BY <1>2, LeftType
<1>4. CreationsLeft(s) = PerRestore
  BY <1>2, <1>3, LeftBy DEF InLaterPasses, PerRestore, MAX_PLAYLIST_RESOLUTION_ATTEMPTS
<1>5. CreationsLeft(job[w]) = 0
  BY <1>2, LeftBy DEF Start
<1>6. made' = made /\ made \in Nat /\ restores' = restores + 1 /\ faults' = faults
  BY ParametersAssumption DEF Start, IInv, TypeOK
<1>7. Allowed \in Nat /\ Allowed' = Allowed + PerRestore
  BY <1>6, AllowedStep DEF IInv
<1>8. PerRestore \in Nat
  BY <1>3 DEF PerRestore, MAX_PLAYLIST_RESOLUTION_ATTEMPTS
<1> QED BY <1>1, <1>4, <1>5, <1>6, <1>7, <1>8 DEF Paid

LEMMA CreationInit ==
  ASSUME Init
  PROVE  CreationInv
<1>1. \A w \in Workers : job[w] = Idle
  BY DEF Init
<1>2. CreationsLeft(Idle) = 0
  BY IdleJob, LeftBy
<1>3. Left \in [Workers -> Nat] /\ \A w \in Workers : Left[w] = 0
  BY <1>1, <1>2 DEF Left
<1>4. Total(Left, Workers) = 0
  BY <1>3, TotalZero, ParametersAssumption
<1>5. made = 0 /\ IInv /\ restores = 0 /\ faults = 0
  BY InvInit DEF Init
<1>6. PerRestore \in {2, 3}
  BY DEF PerRestore, FallbackCreations, MAX_PLAYLIST_RESOLUTION_ATTEMPTS
<1>7. Allowed = 0
  BY <1>5, <1>6 DEF Allowed
<1> QED BY <1>4, <1>5, <1>7 DEF CreationInv

LEMMA CreationsPaid ==
  ASSUME IInv, CreationInv, [Next]_vars
  PROVE  CreationInv'
<1>1. IInv'
  BY InvStep
<1>2. ASSUME NEW w \in Workers, \E s : Goes(w, s) /\ Paid(job[w], s)
      PROVE  CreationInv'
  BY <1>1, <1>2, CreationStep
<1>3. CASE \E w \in Workers : Step(w)
  <2>1. PICK w \in Workers : Step(w)
    BY <1>3
  <2>2. CASE FallbackCreate(w)
    BY <1>1, <1>2, <2>2, PaidFinding, PaidMaking
  <2>3. CASE Create(w) \/ CreateLost(w)
    BY <1>1, <1>2, <2>3, PaidMaking
  <2>4. CASE \/ Find(w) \/ Verify(w) \/ VerifyFails(w) \/ Forget(w) \/ ForgetFails(w)
             \/ CreateFails(w) \/ CreateRetried(w) \/ FallbackFill(w)
    BY <1>1, <1>2, <2>4, PaidFinding
  <2>5. CASE \/ Touch(w) \/ TouchFails(w) \/ Own(w) \/ Store(w) \/ StoreFails(w)
             \/ Invalidate(w) \/ InvalidateFails(w) \/ InsertRefused(w)
             \/ Load(w) \/ Sync(w) \/ SyncFails(w) \/ Flush(w) \/ InsertRetried(w)
             \/ \E i \in job[w].todo :
                  Insert(w, i) \/ InsertFails(w, i) \/ InsertLost(w, i) \/ InsertNotFound(w, i)
    BY <1>1, <1>2, <2>5, PaidFilling
  <2> QED BY <2>1, <2>2, <2>3, <2>4, <2>5 DEF Step
<1>4. CASE \E w \in Workers : Die(w)
  BY <1>1, <1>2, <1>4, PaidFinding
<1>5. CASE \E w \in Workers : \E c \in Categories, q \in Queues : Start(w, c, q)
  BY <1>1, <1>2, <1>5, PaidStart
<1>6. CASE \/ \E p \in Playlists : DeletePlaylist(p) \/ \E v \in Videos : TakeOut(p, v)
           \/ Tick
           \/ UNCHANGED vars
  <2>1. UNCHANGED <<made, job, restores, faults>>
    BY <1>6 DEF DeletePlaylist, TakeOut, Tick, vars
  <2>2. Left' = Left /\ Allowed' = Allowed
    BY <2>1 DEF Left, Allowed
  <2> QED BY <2>1, <2>2 DEF CreationInv
<1> QED BY <1>3, <1>4, <1>5, <1>6 DEF Next

-----------------------------------------------------------------------------
(* What it says of the restores.                                             *)

\* With the flag or without, each track of the queue is also at a position restored.
LEMMA EveryTrack ==
  ASSUME NEW r \in Job, NEW v \in ToSet(r.queue)
  PROVE  \E i \in OrderedVideoIds(r.queue) : r.queue[i] = v
<1> DEFINE S == {i \in DOMAIN r.queue : r.queue[i] = v}
<1>1. S # {} /\ S \in SUBSET Nat
  BY Positions DEF ToSet
<1>2. PICK i \in S : \A j \in S : i <= j
  <2> HIDE DEF S
  <2> QED BY <1>1, FirstExists
<1>3. ASSUME NEW j \in DOMAIN r.queue, j < i
      PROVE  r.queue[j] # r.queue[i]
  <2>1. i \in Nat /\ j \in Nat
    BY Positions
  <2>2. ~(i <= j)
    BY <1>3, <2>1
  <2> QED BY <1>2, <2>2
<1> QED BY <1>2, <1>3 DEF OrderedVideoIds

LEMMA InvConsequences ==
  ASSUME IInv
  PROVE  TypeOK /\ MirrorSound /\ TracksAccounted /\ DoneIsMirrored /\ PlaylistsHome /\ BilledOnce
<1>1. MirrorSound
  BY DEF IInv, WorldInv, MirrorSound, Had
<1>2. ASSUME NEW w \in Workers, job[w].pc = "done"
      PROVE  LET r == job[w] IN
             /\ \A v \in ToSet(r.queue) : v \in r.failed \/ copies[r.plist][v] > 0 \/ (v \in Missing /\ Validate)
             /\ faults = 0 => ToSet(r.queue) \ (r.failed \cup Missing) \subseteq mirror[r.plist]
  <2> DEFINE r == job[w]
  <2>1. r \in Job /\ Answered(r, mirror, Inserted, Quiet) /\ r.plist \in Playlists
    BY <1>2 DEF IInv, ThreadInv, Fit, Sane, WithPlaylist, Placed
  <2>2. ASSUME NEW v \in ToSet(r.queue)
        PROVE  /\ v \in r.failed \/ copies[r.plist][v] > 0 \/ (v \in Missing /\ Validate)
               /\ faults = 0 => v \in r.failed \cup Missing \cup mirror[r.plist]
    <3>1. PICK i \in OrderedVideoIds(r.queue) : r.queue[i] = v
      BY <2>1, EveryTrack
    <3>2. Accounted(r, i, mirror, Inserted, Quiet)
      BY <2>1 DEF Answered
    <3> QED BY <2>1, <3>1, <3>2 DEF Accounted, Inserted, Had, Quiet
  <2> QED BY <2>2
<1>3. TracksAccounted
  BY <1>2 DEF TracksAccounted
<1>4. DoneIsMirrored
  BY <1>2 DEF DoneIsMirrored
<1>5. PlaylistsHome
  BY DEF IInv, WorldInv, ThreadInv, Fit, Placed, WithPlaylist, PlaylistsHome
<1>6. BilledOnce
  BY DEF IInv, ThreadInv, Fit, Filling, BilledOnce, Sending, At
<1> QED BY <1>1, <1>3, <1>4, <1>5, <1>6 DEF IInv

-----------------------------------------------------------------------------
(* One restore at a time.                                                    *)

Alone == \A v, w \in Workers : v = w

\* The row t[r.cat] is the one the thread found, or names the playlist it fills.
Mapped(r, t) ==
  /\ r.pc \in {"verify", "forget", "touch", "store"} => t[r.cat].id = r.rid
  /\ r.pc \in {"load", "sync", "insert", "flush", "done"} => t[r.cat].playlist = r.plist

MapInv == Quiet => \A w \in Workers : Mapped(job[w], rows)

LEMMA MovesOn ==
  ASSUME IInv, IInv', Alone, Faulty, NEW w \in Workers, NEW s, Goes(w, s),
         faults' = faults /\ Quiet => Mapped(s, rows')
  PROVE  MapInv'
<1>1. Quiet' => faults' = faults /\ Quiet
  BY TypeSplit, FaultyStep DEF IInv
<1>2. job'[w] = s
  BY DEF IInv, TypeOK, Goes
<1> QED BY <1>1, <1>2 DEF MapInv, Alone

\* A restore that ends, or begins a pass or a creation, relies on no row.
LEMMA Elsewhere ==
  ASSUME NEW r \in Job, NEW t,
         NEW s \in Broken(r) \cup Creating(r) \cup NextPass(r) \cup {Idle}
  PROVE  Mapped(s, t)
<1>1. s.pc \in {"idle", "fallback", "create", "find"}
  <2>1. Idle.pc = "idle" /\ [Idle EXCEPT !.pc = "fallback", !.cat = r.cat, !.queue = r.queue].pc = "fallback"
    BY DEF Idle
  <2>2. [Idle EXCEPT !.pc = "find", !.cat = r.cat, !.queue = r.queue, !.pass = r.pass + 1].pc = "find"
    BY DEF Idle
  <2>3. [r EXCEPT !.pc = "create", !.rid = 0, !.plist = 0, !.left = 1 + MaxRetries].pc = "create"
    BY DEF Job
  <2> QED BY <2>1, <2>2, <2>3 DEF Broken, Creating, NextPass, Refused
<1> QED BY <1>1 DEF Mapped

LEMMA MapFinding ==
  ASSUME IInv, IInv', MapInv, Alone, NEW w \in Workers,
         \/ Find(w) \/ Verify(w) \/ VerifyFails(w) \/ Forget(w) \/ ForgetFails(w)
         \/ Touch(w) \/ TouchFails(w)
  PROVE  MapInv'
<1> DEFINE r == job[w]
<1>1. r \in Job /\ r.cat \in Categories /\ rows \in [Categories -> Row]
  BY Working DEF IInv, TypeOK, Find, Verify, VerifyFails, Forget, ForgetFails, Touch, TouchFails, At
<1>2. Faulty
  BY DEF Find, Verify, VerifyFails, Forget, ForgetFails, Touch, TouchFails, Faulty
<1>3. ASSUME NEW s, Goes(w, s), s \in Broken(r) \cup Creating(r) \cup {Refused}
      PROVE  MapInv'
  BY <1>1, <1>2, <1>3, Elsewhere, MovesOn DEF Refused
<1>4. CASE Find(w)
  <2>1. PICK s : Goes(w, s) /\ (\/ s \in Creating(r) \cup {Refused}
                               \/ \E pc \in {"verify", "touch"} : s =
                                    [[r EXCEPT !.rid = rows[r.cat].id, !.plist = rows[r.cat].playlist]
                                      EXCEPT !.pc = pc])
    BY <1>4 DEF Find, CachedRow
  <2>2. CASE s \notin Creating(r) \cup {Refused}
    <3>1. s.pc \in {"verify", "touch"} /\ s.cat = r.cat /\ s.rid = rows[r.cat].id
      BY <1>1, <2>1, <2>2 DEF Job
    <3>2. Mapped(s, rows')
      BY <1>4, <3>1 DEF Mapped, Find
    <3> QED BY <1>2, <2>1, <3>2, MovesOn
  <2> QED BY <1>3, <2>1, <2>2
<1>5. CASE Verify(w) \/ VerifyFails(w)
  <2>1. PICK s : Goes(w, s) /\ (s = Refused \/ \E pc \in {"forget", "touch"} : s = [r EXCEPT !.pc = pc])
    BY <1>5 DEF Verify, VerifyFails
  <2>2. CASE s # Refused
    <3>1. s.pc \in {"forget", "touch"} /\ s.cat = r.cat /\ s.rid = r.rid
      BY <1>1, <2>1, <2>2 DEF Job
    <3>2. r.pc = "verify" /\ rows' = rows
      BY <1>5 DEF Verify, VerifyFails, At
    <3>3. Quiet => Mapped(s, rows')
      BY <3>1, <3>2 DEF Mapped, MapInv
    <3> QED BY <1>2, <2>1, <3>3, MovesOn
  <2> QED BY <1>3, <2>1, <2>2
<1>6. CASE Forget(w) \/ ForgetFails(w)
  BY <1>3, <1>6 DEF Forget, ForgetFails
<1>7. CASE Touch(w) \/ TouchFails(w)
  <2>1. PICK s : Goes(w, s) /\ (s \in Broken(r) \/ s = Loading([r EXCEPT !.plist = rows[r.cat].playlist]))
    BY <1>7 DEF Touch, TouchFails, CachedRow
  <2>2. CASE s = Loading([r EXCEPT !.plist = rows[r.cat].playlist])
    <3>1. s.pc = "load" /\ s.cat = r.cat /\ s.plist = rows[r.cat].playlist
      BY <1>1, <2>2 DEF Loading, Job
    <3>2. rows'[r.cat].playlist = rows[r.cat].playlist
      BY <1>1, <1>7 DEF Touch, TouchFails, Row
    <3>3. Mapped(s, rows')
      BY <3>1, <3>2 DEF Mapped
    <3> QED BY <1>2, <2>1, <3>3, MovesOn
  <2> QED BY <1>3, <2>1, <2>2
<1> QED BY <1>4, <1>5, <1>6, <1>7

LEMMA MapMaking ==
  ASSUME IInv, IInv', MapInv, Alone, NEW w \in Workers,
         \/ Create(w) \/ CreateFails(w) \/ CreateRetried(w) \/ CreateLost(w)
         \/ Own(w) \/ Store(w) \/ StoreFails(w) \/ FallbackCreate(w) \/ FallbackFill(w)
         \/ Die(w)
  PROVE  MapInv'
<1> DEFINE r == job[w]
<1>1. r \in Job /\ r.cat \in Categories /\ rows \in [Categories -> Row]
  BY Working DEF IInv, TypeOK, Create, CreateFails, CreateRetried, CreateLost, Own, Store, StoreFails,
                 FallbackCreate, FallbackFill, Die, At
<1>2. Faulty
  BY DEF Create, CreateFails, CreateRetried, CreateLost, Own, Store, StoreFails, FallbackCreate,
         FallbackFill, Die, Faulty
<1>3. ASSUME NEW s, Goes(w, s), s \in Broken(r) \cup {Refused}
      PROVE  MapInv'
  BY <1>1, <1>2, <1>3, Elsewhere, MovesOn DEF Refused
<1>4. ASSUME NEW s, Goes(w, s), s.pc \in {"own", "create", "fill", "copied"}
      PROVE  MapInv'
  BY <1>2, <1>4, MovesOn DEF Mapped
<1>5. CASE Create(w)
  <2>1. PICK s : Goes(w, s) /\ s = [r EXCEPT !.pc = "own", !.plist = made + 1, !.new = TRUE]
    BY <1>5 DEF Create
  <2>2. s.pc = "own"
    BY <1>1, <2>1 DEF Job
  <2> QED BY <1>4, <2>1, <2>2
<1>6. CASE CreateRetried(w) \/ CreateLost(w)
  <2>1. PICK s : Goes(w, s) /\ (s = [r EXCEPT !.left = @ - 1] \/ s \in Broken(r)) /\ r.pc = "create"
    BY <1>6 DEF CreateRetried, CreateLost, At
  <2>2. CASE s = [r EXCEPT !.left = @ - 1]
    <3>1. s.pc = "create"
      BY <1>1, <2>1, <2>2 DEF Job
    <3> QED BY <1>4, <2>1, <3>1
  <2> QED BY <1>3, <2>1, <2>2
<1>7. CASE CreateFails(w) \/ StoreFails(w) \/ Die(w)
  BY <1>3, <1>7 DEF CreateFails, StoreFails, Die, Refused
<1>8. CASE Own(w)
  <2>1. PICK s : Goes(w, s) /\ s = [r EXCEPT !.pc = "store", !.rid = rows[r.cat].id]
    BY <1>8 DEF Own, CachedRow
  <2>2. s.pc = "store" /\ s.cat = r.cat /\ s.rid = rows[r.cat].id
    BY <1>1, <2>1 DEF Job
  <2>3. Mapped(s, rows')
    BY <1>8, <2>2 DEF Mapped, Own
  <2> QED BY <1>2, <2>1, <2>3, MovesOn
<1>9. CASE Store(w)
  <2>1. PICK s : Goes(w, s) /\ (s \in Broken(r) \/ s = Loading(r))
    BY <1>9 DEF Store
  <2>2. CASE s = Loading(r)
    <3>1. s.pc = "load" /\ s.cat = r.cat /\ s.plist = r.plist
      BY <1>1, <2>2 DEF Loading, Job
    <3>2. SUFFICES ASSUME Quiet PROVE Mapped(s, rows')
      BY <1>2, <2>1, MovesOn
    <3>3. rows[r.cat].id = r.rid
      BY <1>9, <3>2 DEF MapInv, Mapped, Store, At
    <3>4. r.rid = 0 => rows[r.cat] = NoRow
      BY <1>1, <3>3 DEF IInv, WorldInv
    <3>5. \/ rows' = [rows EXCEPT ![r.cat] = [id |-> r.plist, playlist |-> r.plist, verified |-> now]]
          \/ rows' = [rows EXCEPT ![r.cat].playlist = r.plist, ![r.cat].verified = now]
      BY <1>9, <3>3, <3>4 DEF Store, Holds, CachedRow
    <3>6. rows'[r.cat].playlist = r.plist
      BY <1>1, <3>5 DEF Row
    <3> QED BY <3>1, <3>6 DEF Mapped
  <2> QED BY <1>3, <2>1, <2>2
<1>10. CASE FallbackCreate(w)
  <2>1. PICK s : Goes(w, s) /\ (s = [r EXCEPT !.pc = "fill", !.plist = made + 1] \/ s = Idle)
    BY <1>10 DEF FallbackCreate
  <2>2. s # Idle => s.pc = "fill"
    BY <1>1, <2>1 DEF Job
  <2> QED BY <1>3, <1>4, <2>1, <2>2 DEF Refused
<1>11. CASE FallbackFill(w)
  <2>1. PICK s : Goes(w, s) /\ (s = [Done(r) EXCEPT !.pc = "copied"] \/ s = Idle)
    BY <1>11 DEF FallbackFill
  <2>2. s # Idle => s.pc = "copied"
    BY <2>1 DEF Done, Idle
  <2> QED BY <1>3, <1>4, <2>1, <2>2 DEF Refused
<1> QED BY <1>5, <1>6, <1>7, <1>8, <1>9, <1>10, <1>11

\* Steps at a playlist leave the rows alone, until a 404 drops them.
LEMMA MapFilling ==
  ASSUME IInv, IInv', MapInv, Alone, NEW w \in Workers,
         \/ Load(w) \/ Sync(w) \/ SyncFails(w) \/ Flush(w) \/ InsertRetried(w)
         \/ InsertRefused(w) \/ Invalidate(w) \/ InvalidateFails(w)
         \/ \E i \in job[w].todo :
              Insert(w, i) \/ InsertFails(w, i) \/ InsertLost(w, i) \/ InsertNotFound(w, i)
  PROVE  MapInv'
<1> DEFINE r == job[w]
<1>1. Faulty
  BY DEF Load, Sync, SyncFails, Flush, InsertRetried, InsertRefused, Invalidate, InvalidateFails,
         Insert, InsertFails, InsertLost, InsertNotFound, Faulty
<1>2. r \in Job /\ Sane(r) /\ r.pc \in {"load", "sync", "insert", "flush", "invalidate"}
  BY Working DEF Load, Sync, SyncFails, Flush, InsertRetried, InsertRefused, Invalidate, InvalidateFails,
         Insert, InsertFails, InsertLost, InsertNotFound, Sending, At
<1>3. ASSUME NEW s, Goes(w, s), s \in NextPass(r) \cup {Idle}
      PROVE  MapInv'
  BY <1>1, <1>2, <1>3, Elsewhere, MovesOn
<1>4. CASE InsertRefused(w) \/ Invalidate(w) \/ InvalidateFails(w)
  BY <1>3, <1>4 DEF InsertRefused, Refused, Invalidate, InvalidateFails
<1>5. CASE ~(InsertRefused(w) \/ Invalidate(w) \/ InvalidateFails(w))
  <2>1. rows' = rows /\ r.pc \in {"load", "sync", "insert", "flush"}
    BY <1>5 DEF Load, Sync, SyncFails, Flush, InsertRetried, Insert, InsertFails, InsertLost,
                InsertNotFound, Sending, At
  <2>2. Quiet => rows[r.cat].playlist = r.plist
    BY <2>1 DEF MapInv, Mapped
  <2>3. ASSUME NEW s, Goes(w, s), s.cat = r.cat, s.plist = r.plist,
               s.pc \in {"load", "sync", "insert", "flush", "done", "invalidate"}
        PROVE  MapInv'
    BY <1>1, <2>1, <2>2, <2>3, MovesOn DEF Mapped
  <2>4. ASSUME NEW u \in Job, u.cat = r.cat, u.plist = r.plist, u.todo = r.todo, u.queue = r.queue,
               NEW s, Goes(w, s), s \in Planned(u) \/ s \in NextTrack(u) \/ \E i : s \in Advance(u, i)
        PROVE  MapInv'
    <3>1. Later(u, s)
      BY <1>2, <2>4, PlannedLater, NextTrackLater, AdvanceLater DEF Sane
    <3> QED BY <2>3, <2>4, <3>1 DEF Later
  <2>5. CASE Load(w)
    <3>1. PICK u : u = [r EXCEPT !.known = mirror[r.plist]]
      OBVIOUS
    <3>2. mirror[r.plist] \in SUBSET Videos
      BY <2>5, Working DEF Load, At, WithPlaylist, Placed, IInv, TypeOK
    <3>3. u \in Job /\ u.cat = r.cat /\ u.plist = r.plist /\ u.todo = r.todo /\ u.queue = r.queue
      BY <1>2, <3>1, <3>2 DEF Job
    <3>4. PICK s : Goes(w, s) /\ (s = [u EXCEPT !.pc = "sync"] \/ s \in Planned(u))
      BY <2>5, <3>1 DEF Load
    <3>5. CASE s = [u EXCEPT !.pc = "sync"]
      <4>1. s.pc = "sync" /\ s.cat = r.cat /\ s.plist = r.plist
        BY <3>3, <3>5 DEF Job
      <4> QED BY <2>3, <3>4, <4>1
    <3> QED BY <2>4, <3>3, <3>4, <3>5
  <2>6. CASE Sync(w)
    <3>1. PICK D \in Page(r) :
            \E s : /\ Goes(w, s)
                  /\ \/ s \in Planned([r EXCEPT !.known = @ \cup D, !.pages = @ + 1])
                     \/ s = [r EXCEPT !.known = @ \cup D, !.pages = @ + 1]
      BY <2>6 DEF Sync
    <3>2. PICK u, s : /\ u = [r EXCEPT !.known = @ \cup D, !.pages = @ + 1]
                      /\ Goes(w, s) /\ (s \in Planned(u) \/ s = u)
      BY <3>1
    <3>3. D \subseteq Videos
      <4>1. D \subseteq listed[r.plist]
        BY <3>1, PageListed
      <4> QED BY <2>6, <4>1, Working DEF Sync, At, WithPlaylist, Placed, IInv, TypeOK
    <3>4. r.known \cup D \in SUBSET Videos /\ r.pages + 1 \in Nat
      BY <1>2, <3>3 DEF Job
    <3>5. /\ u \in Job /\ u.cat = r.cat /\ u.plist = r.plist /\ u.todo = r.todo
          /\ u.queue = r.queue /\ u.pc = r.pc
      <4>1. u = [r EXCEPT !.known = @ \cup D, !.pages = @ + 1]
        BY <3>2
      <4> QED BY <1>2, <3>4, <4>1 DEF Job
    <3> QED BY <2>1, <2>3, <2>4, <3>2, <3>5
  <2>7. CASE SyncFails(w)
    <3>1. PICK s : Goes(w, s) /\ (s = Idle \/ s \in Planned(r))
      BY <2>7 DEF SyncFails, Refused
    <3> QED BY <1>2, <1>3, <2>4, <3>1
  <2>8. CASE Flush(w)
    <3>1. PICK u : u = [r EXCEPT !.dirty = {}]
      OBVIOUS
    <3>2. u \in Job /\ u.cat = r.cat /\ u.plist = r.plist /\ u.todo = r.todo /\ u.queue = r.queue
      BY <1>2, <3>1 DEF Job
    <3>3. PICK s \in NextTrack(u) : Goes(w, s)
      BY <2>8, <3>1 DEF Flush
    <3> QED BY <2>4, <3>2, <3>3
  <2>9. CASE InsertRetried(w)
    <3>1. PICK s : Goes(w, s) /\ s = [r EXCEPT !.left = @ - 1]
      BY <2>9 DEF InsertRetried
    <3>2. s.pc = r.pc /\ s.cat = r.cat /\ s.plist = r.plist
      BY <1>2, <3>1 DEF Job
    <3> QED BY <2>1, <2>3, <3>1, <3>2
  <2>10. ASSUME NEW i, Insert(w, i) \/ InsertFails(w, i) \/ InsertLost(w, i) \/ InsertNotFound(w, i)
         PROVE  MapInv'
    <3>1. r.queue[i] \in Videos
      BY <2>10, SendingFacts DEF Insert, InsertFails, InsertLost, InsertNotFound
    <3>2. /\ r.known \cup {r.queue[i]} \in SUBSET Videos /\ r.dirty \cup {r.queue[i]} \in SUBSET Videos
          /\ r.failed \cup {r.queue[i]} \in SUBSET Videos
      BY <1>2, <3>1 DEF Job
    <3>3. PICK u : u = [r EXCEPT !.known = @ \cup {r.queue[i]}, !.dirty = @ \cup {r.queue[i]}]
      OBVIOUS
    <3>4. PICK x : x = [r EXCEPT !.failed = @ \cup {r.queue[i]}]
      OBVIOUS
    <3>5. u \in Job /\ u.cat = r.cat /\ u.plist = r.plist /\ u.todo = r.todo /\ u.queue = r.queue
      BY <1>2, <3>2, <3>3 DEF Job
    <3>6. x \in Job /\ x.cat = r.cat /\ x.plist = r.plist /\ x.todo = r.todo /\ x.queue = r.queue
      BY <1>2, <3>2, <3>4 DEF Job
    <3>7. PICK s : /\ Goes(w, s)
                   /\ \/ s \in Advance(u, i) \/ s \in Advance(x, i)
                      \/ s = [r EXCEPT !.left = @ - 1] \/ s = [r EXCEPT !.pc = "invalidate"]
      BY <2>10, <3>3, <3>4 DEF Insert, InsertFails, InsertLost, InsertNotFound
    <3>8. CASE s = [r EXCEPT !.left = @ - 1] \/ s = [r EXCEPT !.pc = "invalidate"]
      <4>1. s.pc \in {r.pc, "invalidate"} /\ s.cat = r.cat /\ s.plist = r.plist
        BY <1>2, <3>8 DEF Job
      <4> QED BY <2>1, <2>3, <3>7, <4>1
    <3> QED BY <2>4, <3>5, <3>6, <3>7, <3>8
  <2> QED BY <1>5, <2>5, <2>6, <2>7, <2>8, <2>9, <2>10
<1> QED BY <1>4, <1>5

LEMMA MapStep ==
  ASSUME IInv, MapInv, Alone, [Next]_vars
  PROVE  MapInv'
<1>1. IInv'
  BY InvStep
<1>2. CASE \E w \in Workers : Step(w)
  BY <1>1, <1>2, MapFinding, MapMaking, MapFilling DEF Step
<1>3. CASE \E w \in Workers : Die(w)
  BY <1>1, <1>3, MapMaking
<1>4. CASE \E w \in Workers : \E c \in Categories, q \in Queues : Start(w, c, q)
  <2>1. PICK w \in Workers, c \in Categories, q \in Queues : Start(w, c, q)
    BY <1>4
  <2>2. PICK s : Goes(w, s) /\ s = [Idle EXCEPT !.pc = "find", !.cat = c, !.queue = q, !.pass = 1]
    BY <2>1 DEF Start
  <2>3. s.pc = "find" /\ Faulty
    BY <2>1, <2>2 DEF Idle, Start, Faulty
  <2>4. Mapped(s, rows')
    BY <2>3 DEF Mapped
  <2> QED BY <1>1, <2>2, <2>3, <2>4, MovesOn
<1>5. CASE \/ \E p \in Playlists : DeletePlaylist(p) \/ \E v \in Videos : TakeOut(p, v)
           \/ Tick
           \/ UNCHANGED vars
  BY <1>5 DEF DeletePlaylist, TakeOut, Tick, vars, MapInv, Mapped, Quiet
<1> QED BY <1>2, <1>3, <1>4, <1>5 DEF Next

-----------------------------------------------------------------------------
(* The theorems.                                                             *)

LEMMA Invariance == Spec => []IInv
BY InvInit, InvStep, PTL DEF Spec

\* Rows, playlists, mirror and the locals of a restore keep their types.
THEOREM TypeCorrect == Spec => []TypeOK
BY Invariance, InvConsequences, PTL

\* The mirror never claims a track that was not inserted, with any number of restores
\* side by side, faults and edits.
THEOREM MirrorIsSound == Spec => []MirrorSound
BY Invariance, InvConsequences, PTL

\* A restore that answers 200 has inserted, found or reported every track of the queue.
THEOREM TracksAreAccounted == Spec => []TracksAccounted
BY Invariance, InvConsequences, PTL

\* What a restore inserted is mirrored when it answers, unless something failed.
THEOREM DoneMirrored == Spec => []DoneIsMirrored
BY Invariance, InvConsequences, PTL

\* Rows and answers name playlists created for their own category.
THEOREM PlaylistsAreHome == Spec => []PlaylistsHome
BY Invariance, InvConsequences, PTL

\* With the flag on, no track of a pass is sent twice.
THEOREM BillsOnce == Spec => []BilledOnce
BY Invariance, InvConsequences, PTL

\* Where no two restores overlap and nothing fails, the playlist a restore answers with
\* is the one its category is mapped to, over any number of restores, edits and queues.
THEOREM AnswersAreMapped == ASSUME Alone PROVE Spec => []AnswerIsMapped
<1>1. Init => MapInv
  BY DEF Init, Idle, MapInv, Mapped
<1>2. Alone /\ IInv /\ MapInv /\ [Next]_vars => MapInv'
  BY MapStep
<1>3. MapInv => AnswerIsMapped
  BY DEF MapInv, Mapped, Quiet, AnswerIsMapped
<1>4. Alone
  OBVIOUS
<1>5. IInv /\ MapInv /\ [Next]_vars => MapInv'
  BY <1>2, <1>4
<1> QED BY <1>1, <1>3, <1>5, Invariance, PTL DEF Spec

\* What was created is at most one playlist per pass and fallback of the restores
\* accepted, and one more for each creation whose answer was lost.
THEOREM CreationsAreBounded == Spec => []CreationsBounded
<1>1. IInv /\ CreationInv => CreationsBounded
  <2>1. SUFFICES ASSUME IInv, CreationInv PROVE CreationsBounded
    OBVIOUS
  <2>2. Left \in [Workers -> Nat]
    <3>1. \A w \in Workers : job[w] \in Job
      BY <2>1 DEF IInv, TypeOK
    <3> QED BY <3>1, LeftType DEF Left
  <2>3. Total(Left, Workers) \in Nat
    BY <2>2, TotalType, ParametersAssumption
  <2>4. made \in Nat /\ Allowed \in Nat
    <3>1. PerRestore \in {2, 3} /\ restores \in Nat /\ faults \in Nat /\ made \in Nat
      BY <2>1, ParametersAssumption DEF PerRestore, FallbackCreations, MAX_PLAYLIST_RESOLUTION_ATTEMPTS, IInv, TypeOK
    <3>2. PerRestore * restores \in Nat
      <4>1. CASE PerRestore = 2
        BY <3>1, <4>1
      <4>2. CASE PerRestore = 3
        BY <3>1, <4>2
      <4> QED BY <3>1, <4>1, <4>2
    <3> QED BY <3>1, <3>2 DEF Allowed
  <2>5. made <= Allowed
    BY <2>1, <2>3, <2>4 DEF CreationInv
  <2> QED BY <2>5 DEF Allowed, PerRestore, FallbackCreations, CreationsBounded
<1>2. Init => CreationInv
  BY CreationInit
<1>3. IInv /\ CreationInv /\ [Next]_vars => CreationInv'
  BY CreationsPaid
<1> QED BY <1>1, <1>2, <1>3, Invariance, PTL DEF Spec

=============================================================================
