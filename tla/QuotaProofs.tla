---------------------------- MODULE QuotaProofs ----------------------------
(***************************************************************************)
(* What holds of the ledger for any number of accounts, threads, days,     *)
(* restores, tracks and retries, and for any caps and costs.               *)
(*                                                                         *)
(* The caps are read before units are charged, so an invariant about the   *)
(* ledger alone is not inductive: it has to count what the threads that    *)
(* were let through may still charge.  Each such promise is a function on  *)
(* threads, and a step of one thread changes one entry of its sum          *)
(* (TallyProofs).                                                          *)
(***************************************************************************)
EXTENDS Quota, TallyProofs

-----------------------------------------------------------------------------
(* Threads are well formed.                                                  *)

\* What the program text guarantees of a thread at each of its steps.
Steady(r) ==
  /\ r \in Request
  /\ r.pc # "idle" => r.user \in Users
  /\ r.pc \notin {"idle", "resolve"} => r.call \in Methods
  /\ r.pc \in {"creates", "record"} => r.call = "playlists.insert"
  /\ r.pc \in {"reserve", "sent"} => r.left <= Attempts(r.call)
  /\ r.pc = "reserve" => r.left > 0
  /\ r.call = "playlistItems.insert" /\ r.pc \in {"global", "user", "reserve", "sent"}
       => r.todo > 0
  /\ r.batches < MostBatches
  /\ r.batches > 0 => /\ r.call = "videos.list"
                      /\ r.pc \in {"global", "user", "reserve", "sent"}

TypeInv == TypeOK /\ \A w \in Workers : Steady(req[w])

\* A thread that has promised nothing: it stands before a gate, or is on its way to
\* one, or syncs the mirror without one.
Fresh(r) ==
  \/ r.pc \in {"idle", "resolve", "global"}
  \/ r.pc = "reserve" /\ r.call = "playlistItems.list"

\* A well-formed thread with an account and nothing promised.
Settled(r) == Steady(r) /\ Fresh(r)

\* Attempts are few, and there is always one.
LEMMA AttemptsBound ==
  /\ MostAttempts \in Nat /\ MostAttempts >= 2
  /\ \A m \in Methods : Attempts(m) \in 1 .. MostAttempts
BY CapsAssumption DEF MostAttempts, Larger, Attempts

\* So are batches.
LEMMA BatchesBound ==
  /\ MostBatches \in Nat /\ MostBatches >= 1
  /\ \A n \in 1 .. MaxTracks :
       Batches(n) \in Nat /\ Batches(n) >= 1 /\ (Validate => Batches(n) <= MostBatches)
<1>1. MaxTracks \in Nat /\ PerCall \in Nat /\ PerCall > 0
  BY BoundsAssumption, CapsAssumption
<1>2. ASSUME NEW n \in Nat, n > 0
      PROVE  Batches(n) \in Nat /\ Batches(n) >= 1
  <2>1. PICK a \in Nat : a = n + PerCall - 1 /\ a >= PerCall
    BY <1>1, <1>2
  <2>2. a \div PerCall \in Nat /\ a \div PerCall >= 1
    BY <1>1, <2>1
  <2> QED BY <2>1, <2>2 DEF Batches
<1>3. ASSUME NEW n \in Nat, n <= MaxTracks
      PROVE  Batches(n) <= Batches(MaxTracks)
  <2>1. PICK a \in Nat, b \in Nat :
          a = n + PerCall - 1 /\ b = MaxTracks + PerCall - 1 /\ a <= b
    BY <1>1, <1>3
  <2>2. a \div PerCall <= b \div PerCall
    BY <1>1, <2>1
  <2> QED BY <2>1, <2>2 DEF Batches
<1>4. MostBatches \in Nat /\ MostBatches >= 1
  BY <1>1, <1>2 DEF MostBatches
<1>5. ASSUME NEW n \in 1 .. MaxTracks
      PROVE  Batches(n) \in Nat /\ Batches(n) >= 1 /\ (Validate => Batches(n) <= MostBatches)
  <2>1. n \in Nat /\ n > 0 /\ n <= MaxTracks /\ MaxTracks > 0
    BY <1>1, <1>5
  <2>2. Batches(n) \in Nat /\ Batches(n) >= 1 /\ Batches(n) <= Batches(MaxTracks)
    BY <1>2, <1>3, <2>1
  <2> QED BY <2>1, <2>2 DEF MostBatches
<1> QED BY <1>4, <1>5

LEMMA IdleSettled == Settled(Idle)
<1>1. Idle \in Request
  BY BoundsAssumption DEF Idle, Request, PCs, Days, MAX_PLAYLIST_RESOLUTION_ATTEMPTS
<1>2. QED
  BY <1>1, AttemptsBound, BatchesBound DEF Settled, Steady, Fresh, Idle

\* Opening a gate keeps a thread well formed.
LEMMA OpenGateSettled ==
  ASSUME NEW r, Steady(r), r.pc # "idle", NEW m \in Methods, NEW d \in Days,
         m = "playlistItems.insert" => r.todo > 0
  PROVE  Settled(OpenGate(r, m, d))
<1> DEFINE s == OpenGate(r, m, d)
<1>1. r \in Request
  BY DEF Steady
<1>2. s \in Request
  BY <1>1 DEF OpenGate, Request, PCs
<1>3. /\ s.pc = "global" /\ s.call = m /\ s.day = d
      /\ s.user = r.user /\ s.left = r.left /\ s.todo = r.todo /\ s.batches = 0
  BY <1>1 DEF OpenGate, Request
<1>4. QED
  BY <1>2, <1>3, BatchesBound DEF Settled, Steady, Fresh

\* The check before a validation asks for all its batches.
LEMMA OpenValidationSettled ==
  ASSUME NEW r, Steady(r), r.pc # "idle", NEW n \in 1 .. MaxTracks, Validate
  PROVE  Settled(OpenValidation(r, n))
<1> DEFINE q == [r EXCEPT !.todo = n]
           g == OpenGate(q, "videos.list", r.passDay)
           s == OpenValidation(r, n)
           b == Batches(n) - 1
<1>1. r \in Request /\ n \in Nat
  BY BoundsAssumption DEF Steady
<1>2. b \in Nat /\ b < MostBatches
  BY BatchesBound
<1>3. s \in Request
  <2>1. q \in Request /\ r.passDay \in Days /\ "videos.list" \in Methods
    BY <1>1 DEF Request, Methods, Lists
  <2>2. g \in Request
    BY <2>1 DEF OpenGate, Request, PCs
  <2>3. s = [g EXCEPT !.batches = b]
    BY DEF OpenValidation
  <2> QED BY <1>2, <2>2, <2>3 DEF Request
<1>4. /\ s.pc = "global" /\ s.call = "videos.list" /\ s.batches = b
      /\ s.user = r.user /\ s.left = r.left
  BY <1>1 DEF OpenValidation, OpenGate, Request
<1>5. "videos.list" \in Methods
  BY DEF Methods, Lists
<1>6. QED
  BY <1>2, <1>3, <1>4, <1>5 DEF Settled, Steady, Fresh

\* So does entering the request loop.
LEMMA BeginSteady ==
  ASSUME NEW r, Steady(r), r.pc # "idle", NEW m \in Methods,
         m = "playlistItems.insert" => r.todo > 0,
         m # "videos.list" => r.batches = 0
  PROVE  Steady(Begin(r, m))
<1> DEFINE s == Begin(r, m)
<1>1. r \in Request
  BY DEF Steady
<1>2. Attempts(m) \in Nat /\ Attempts(m) > 0 /\ Attempts(m) <= MostAttempts
  BY AttemptsBound
<1>3. s \in Request
  BY <1>1, <1>2 DEF Begin, Request, PCs
<1>4. /\ s.pc = "reserve" /\ s.call = m /\ s.left = Attempts(m)
      /\ s.user = r.user /\ s.todo = r.todo /\ s.batches = r.batches
  BY <1>1 DEF Begin, Request
<1>5. QED
  BY <1>2, <1>3, <1>4 DEF Steady

\* So does counting tracks or pages.
LEMMA TodoSteady ==
  ASSUME NEW r, Steady(r), NEW n \in Nat, n > 0
  PROVE  /\ Steady([r EXCEPT !.todo = n])
         /\ [r EXCEPT !.todo = n].pc = r.pc
         /\ [r EXCEPT !.todo = n].todo = n
<1> DEFINE s == [r EXCEPT !.todo = n]
<1>1. r \in Request
  BY DEF Steady
<1>2. s \in Request
  BY <1>1 DEF Request
<1>3. /\ s.pc = r.pc /\ s.call = r.call /\ s.todo = n
      /\ s.user = r.user /\ s.left = r.left /\ s.batches = r.batches
  BY <1>1 DEF Request
<1>4. QED
  BY <1>2, <1>3 DEF Steady

LEMMA PagesSteady ==
  ASSUME NEW r, Steady(r), NEW n \in Nat
  PROVE  /\ Steady([r EXCEPT !.pages = n])
         /\ [r EXCEPT !.pages = n].pc = r.pc
         /\ [r EXCEPT !.pages = n].batches = r.batches
<1> DEFINE s == [r EXCEPT !.pages = n]
<1>1. r \in Request
  BY DEF Steady
<1>2. s \in Request
  BY <1>1 DEF Request
<1>3. /\ s.pc = r.pc /\ s.call = r.call /\ s.todo = r.todo
      /\ s.user = r.user /\ s.left = r.left /\ s.batches = r.batches
  BY <1>1 DEF Request
<1>4. QED
  BY <1>2, <1>3 DEF Steady

\* A page of the mirror sync promises nothing.
LEMMA SyncSettled ==
  ASSUME NEW r, Steady(r), r.pc # "idle", r.batches = 0, NEW n \in Nat
  PROVE  Settled(Begin([r EXCEPT !.pages = n], "playlistItems.list"))
<1> DEFINE q == [r EXCEPT !.pages = n]
           s == Begin(q, "playlistItems.list")
<1>1. Steady(q) /\ q.pc # "idle" /\ q.batches = 0
  BY PagesSteady
<1>2. Steady(s)
  BY <1>1, BeginSteady DEF Methods, Lists
<1>3. s.pc = "reserve" /\ s.call = "playlistItems.list"
  BY <1>1 DEF Begin, Steady, Request
<1>4. QED
  BY <1>2, <1>3 DEF Settled, Fresh

LEMMA InsertNextSettled ==
  ASSUME NEW r, Steady(r), r.pc # "idle", NEW n \in Nat
  PROVE  Settled(InsertNext(r, n))
<1>1. CASE n = 0
  BY <1>1, IdleSettled DEF InsertNext
<1>2. CASE n > 0
  <2> DEFINE q == [r EXCEPT !.todo = n]
  <2>1. Steady(q) /\ q.pc # "idle" /\ q.todo > 0
    BY <1>2, TodoSteady
  <2>2. r.passDay \in Days
    BY DEF Steady, Request
  <2>3. Settled(OpenGate(q, "playlistItems.insert", r.passDay))
    BY <2>1, <2>2, OpenGateSettled DEF Methods, Inserts
  <2>4. QED
    BY <1>2, <2>3 DEF InsertNext
<1>3. QED
  BY <1>1, <1>2

LEMMA PlannedSettled ==
  ASSUME NEW r, Steady(r), r.pc # "idle", NEW s \in Planned(r)
  PROVE  Settled(s)
<1>1. PICK n \in 0 .. MaxTracks :
         s = IF n > 0 /\ Validate THEN OpenValidation(r, n) ELSE InsertNext(r, n)
  BY DEF Planned
<1>2. n \in Nat
  OBVIOUS
<1>3. CASE n > 0 /\ Validate
  <2>1. n \in 1 .. MaxTracks
    BY <1>3
  <2>2. QED
    BY <1>1, <1>3, <2>1, OpenValidationSettled
<1>4. CASE ~(n > 0 /\ Validate)
  BY <1>1, <1>2, <1>4, InsertNextSettled
<1>5. QED
  BY <1>3, <1>4

LEMMA ReusedSettled ==
  ASSUME NEW r, Steady(r), r.pc # "idle", r.batches = 0, NEW s \in Reused(r)
  PROVE  Settled(s)
<1>1. CASE s \in Planned(r)
  BY <1>1, PlannedSettled
<1>2. CASE s = Begin([r EXCEPT !.pages = 1], "playlistItems.list")
  BY <1>2, SyncSettled
<1>3. QED
  BY <1>1, <1>2 DEF Reused

\* The gate of playlist creation, opened when resolution asks for it.
LEMMA CreateGateSettled ==
  ASSUME NEW r, Steady(r), r.pc # "idle", today \in Days
  PROVE  Settled(OpenGate(r, "playlists.insert", today))
BY OpenGateSettled DEF Methods, Inserts

LEMMA AfterFailureSettled ==
  ASSUME NEW r, Steady(r), r.pc = "sent", NEW s \in AfterFailure(r)
  PROVE  Settled(s)
<1>1. r.call \in Methods /\ r.todo \in Nat /\ (r.call # "videos.list" => r.batches = 0)
  BY DEF Steady, Request
<1>2. CASE r.call = "playlists.list"
  BY <1>1, <1>2, ReusedSettled DEF AfterFailure
<1>3. CASE r.call = "playlists.insert"
  BY <1>3, IdleSettled DEF AfterFailure
<1>4. CASE r.call = "playlistItems.list"
  BY <1>4, PlannedSettled DEF AfterFailure
<1>5. CASE r.call = "videos.list"
  BY <1>1, <1>5, InsertNextSettled DEF AfterFailure
<1>6. CASE r.call = "playlistItems.insert"
  <2>1. r.todo - 1 \in Nat
    BY <1>1, <1>6 DEF Steady
  <2>2. QED
    BY <1>6, <2>1, InsertNextSettled DEF AfterFailure
<1>7. QED
  BY <1>1, <1>2, <1>3, <1>4, <1>5, <1>6 DEF Methods, Inserts, Lists

LEMMA AfterRejectionSettled ==
  ASSUME NEW r, Steady(r), r.pc = "sent", NEW s \in AfterRejection(r)
  PROVE  Settled(s)
BY AfterFailureSettled, IdleSettled DEF AfterRejection

LEMMA AfterNotFoundSettled ==
  ASSUME NEW r, Steady(r), r.pc = "sent", today \in Days, NEW s \in AfterNotFound(r)
  PROVE  Settled(s)
<1>1. CASE r.call = "playlists.list"
  BY <1>1, CreateGateSettled DEF AfterNotFound
<1>2. CASE r.call = "playlistItems.insert"
  <2>1. CASE s = Idle
    BY <2>1, IdleSettled
  <2>2. CASE /\ r.pass < MAX_PLAYLIST_RESOLUTION_ATTEMPTS
             /\ s = [r EXCEPT !.pc = "resolve", !.pass = @ + 1, !.passDay = today]
    <3>1. r \in Request
      BY DEF Steady
    <3>2. s \in Request
      <4>1. r.pass + 1 \in 0 .. MAX_PLAYLIST_RESOLUTION_ATTEMPTS
        BY <2>2, <3>1 DEF Request, MAX_PLAYLIST_RESOLUTION_ATTEMPTS
      <4>2. QED
        BY <2>2, <3>1, <4>1 DEF Request, PCs
    <3>3. /\ s.pc = "resolve" /\ s.user = r.user /\ s.left = r.left
          /\ s.batches = r.batches /\ r.batches = 0
      BY <1>2, <2>2, <3>1 DEF Request, Steady
    <3>4. QED
      BY <3>2, <3>3 DEF Steady, Settled, Fresh
  <2>3. QED
    BY <1>2, <2>1, <2>2 DEF AfterNotFound
<1>3. CASE r.call \notin {"playlists.list", "playlistItems.insert"}
  BY <1>3, AfterFailureSettled DEF AfterNotFound
<1>4. QED
  BY <1>1, <1>2, <1>3

\* The next batch of a validation, under the check of the first.
NextBatch(r) == Begin([r EXCEPT !.batches = @ - 1], "videos.list")

LEMMA NextBatchSteady ==
  ASSUME NEW r, Steady(r), r.pc = "sent", r.batches > 0
  PROVE  /\ Steady(NextBatch(r))
         /\ NextBatch(r).pc = "reserve" /\ NextBatch(r).call = "videos.list"
         /\ NextBatch(r).left = Attempts("videos.list")
         /\ NextBatch(r).batches = r.batches - 1
         /\ NextBatch(r).day = r.day /\ NextBatch(r).user = r.user
         /\ NextBatch(r).todo = r.todo /\ NextBatch(r).pages = r.pages
         /\ NextBatch(r).pass = r.pass
<1> DEFINE q == [r EXCEPT !.batches = @ - 1]
<1>1. /\ r \in Request /\ r.call = "videos.list" /\ r.batches - 1 \in Nat
      /\ r.batches - 1 < MostBatches
  BY BatchesBound DEF Steady, Request
<1>2. q \in Request
  BY <1>1 DEF Request
<1>3. /\ q.pc = "sent" /\ q.call = r.call /\ q.batches = r.batches - 1
      /\ q.user = r.user /\ q.left = r.left /\ q.todo = r.todo
  BY <1>1 DEF Request
<1>4. Steady(q)
  BY <1>1, <1>2, <1>3 DEF Steady
<1>5. Steady(NextBatch(r))
  BY <1>3, <1>4, BeginSteady DEF NextBatch, Methods, Lists
<1>6. QED
  BY <1>1, <1>5 DEF NextBatch, Begin, Request

\* A created playlist is recorded, and a batch may be followed by another; any other
\* success promises nothing.
LEMMA AfterOkSettled ==
  ASSUME NEW r, Steady(r), r.pc = "sent", today \in Days, NEW s \in AfterOk(r)
  PROVE  \/ Settled(s)
         \/ /\ Steady(s) /\ s = [r EXCEPT !.pc = "record"]
            /\ r.call = "playlists.insert"
         \/ r.batches > 0 /\ s = NextBatch(r)
<1>1. /\ r.call \in Methods /\ r.todo \in Nat /\ r.pages \in Nat /\ r \in Request
      /\ r.call # "videos.list" => r.batches = 0
  BY DEF Steady, Request
<1>2. CASE r.call = "playlists.list"
  BY <1>1, <1>2, ReusedSettled, CreateGateSettled DEF AfterOk
<1>3. CASE r.call = "playlists.insert"
  <2>1. CASE s = Idle
    BY <2>1, IdleSettled
  <2>2. CASE s = [r EXCEPT !.pc = "record"]
    <3>1. s \in Request
      BY <1>1, <2>2 DEF Request, PCs
    <3>2. /\ s.pc = "record" /\ s.user = r.user /\ s.left = r.left /\ s.call = r.call
          /\ s.batches = r.batches /\ r.batches = 0
      BY <1>1, <1>3, <2>2 DEF Request
    <3>3. Steady(s)
      BY <1>3, <3>1, <3>2 DEF Steady
    <3>4. QED
      BY <1>3, <2>2, <3>3
  <2>3. QED
    BY <1>3, <2>1, <2>2 DEF AfterOk
<1>4. CASE r.call = "playlistItems.list"
  <2>1. CASE s \in Planned(r)
    BY <2>1, PlannedSettled
  <2>2. CASE s = Begin([r EXCEPT !.pages = @ + 1], "playlistItems.list")
    <3>1. r.pages + 1 \in Nat /\ r.batches = 0
      BY <1>1, <1>4
    <3>2. QED
      BY <2>2, <3>1, SyncSettled
  <2>3. QED
    BY <1>4, <2>1, <2>2 DEF AfterOk
<1>5. CASE r.call = "videos.list"
  <2>1. CASE r.batches > 0
    BY <1>5, <2>1 DEF AfterOk, AfterBatch, NextBatch
  <2>2. CASE ~(r.batches > 0)
    <3>1. PICK n \in 0 .. r.todo : s = InsertNext(r, n)
      BY <1>5, <2>2 DEF AfterOk, AfterBatch
    <3>2. n \in Nat
      BY <1>1, <3>1
    <3>3. QED
      BY <3>1, <3>2, InsertNextSettled
  <2>3. QED
    BY <2>1, <2>2
<1>6. CASE r.call = "playlistItems.insert"
  <2>1. r.todo - 1 \in Nat
    BY <1>1, <1>6 DEF Steady
  <2>2. QED
    BY <1>6, <2>1, InsertNextSettled DEF AfterOk
<1>7. QED
  BY <1>1, <1>2, <1>3, <1>4, <1>5, <1>6 DEF Methods, Inserts, Lists

\* A refusal by a gate promises nothing.
LEMMA OverBudgetSettled ==
  ASSUME NEW r, Steady(r), r.pc # "idle"
  PROVE  Settled(OverBudget(r))
<1>1. r.todo \in Nat
  BY DEF Steady, Request
<1>2. QED
  BY <1>1, IdleSettled, InsertNextSettled DEF OverBudget

-----------------------------------------------------------------------------
(* What one step of a thread can do, as far as the invariants are concerned.   *)

Goes(w, s) == req' = [req EXCEPT ![w] = s]

\* The attempt in flight has been answered, or died with its thread.
Flown(w) ==
  /\ req[w].pc = "sent"
  /\ sent' = [sent EXCEPT ![req[w].rday][req[w].user] = @ + Cost(req[w].call)]

\* The thread ends up with nothing promised.
Settles(w) ==
  /\ \E s : Settled(s) /\ Goes(w, s)
  /\ sent' = sent \/ Flown(w)
  /\ UNCHANGED <<today, account, ledger, created, lost, offbook>>

\* It passes the first, the second, the third gate.
GlobalPass(w) ==
  /\ req[w].pc = "global"
  /\ Usage(req[w].day) + Asked(req[w]) <= GlobalCap
  /\ Goes(w, [req[w] EXCEPT !.pc = "user"])
  /\ UNCHANGED <<today, account, ledger, created, sent, lost, offbook>>

UserPass(w) ==
  /\ req[w].pc = "user"
  /\ ledger[req[w].day][req[w].user] + Asked(req[w]) <= UserCap
  /\ \/ /\ req[w].call = "playlists.insert"
        /\ Goes(w, [req[w] EXCEPT !.pc = "creates"])
     \/ /\ req[w].call # "playlists.insert"
        /\ Goes(w, Begin(req[w], req[w].call))
  /\ UNCHANGED <<today, account, ledger, created, sent, lost, offbook>>

CreatePass(w) ==
  /\ req[w].pc = "creates"
  /\ created[req[w].day][req[w].user] < CreateCap
  /\ Goes(w, Begin(req[w], req[w].call))
  /\ UNCHANGED <<today, account, ledger, created, sent, lost, offbook>>

\* It sends an attempt, charged or with the charge lost.
Charged(w) ==
  /\ req[w].pc = "reserve" /\ account[req[w].user] # "gone"
  /\ Goes(w, Dispatch(req[w]))
  /\ ledger' = [ledger EXCEPT ![today][req[w].user] = @ + Cost(req[w].call)]
  /\ offbook' = [offbook EXCEPT ![today][req[w].user] =
                   @ + IF Checked(req[w], today) THEN 0 ELSE Cost(req[w].call)]
  /\ UNCHANGED <<today, account, created, sent, lost>>

Uncharged(w) ==
  /\ req[w].pc = "reserve"
  /\ Goes(w, Dispatch(req[w]))
  /\ lost' = [lost EXCEPT ![today][req[w].user] = @ + Cost(req[w].call)]
  /\ UNCHANGED <<today, account, ledger, created, sent, offbook>>

\* It tries again, or goes on to the next batch, or to record a creation, or has
\* recorded it.
Retries(w) ==
  /\ req[w].left > 0
  /\ Goes(w, [req[w] EXCEPT !.pc = "reserve"])
  /\ Flown(w)
  /\ UNCHANGED <<today, account, ledger, created, lost, offbook>>

GoesOn(w) ==
  /\ req[w].batches > 0
  /\ Goes(w, NextBatch(req[w]))
  /\ Flown(w)
  /\ UNCHANGED <<today, account, ledger, created, lost, offbook>>

Creates(w) ==
  /\ req[w].call = "playlists.insert"
  /\ Steady([req[w] EXCEPT !.pc = "record"])
  /\ Goes(w, [req[w] EXCEPT !.pc = "record"])
  /\ Flown(w)
  /\ UNCHANGED <<today, account, ledger, created, lost, offbook>>

Recorded(w) ==
  /\ req[w].pc = "record" /\ account[req[w].user] # "gone"
  /\ \E s : Settled(s) /\ Goes(w, s)
  /\ created' = [created EXCEPT ![req[w].day][req[w].user] = @ + 1]
  /\ UNCHANGED <<today, account, ledger, sent, lost, offbook>>

ThreadStep(w) ==
  \/ Settles(w) \/ GlobalPass(w) \/ UserPass(w) \/ CreatePass(w)
  \/ Charged(w) \/ Uncharged(w) \/ Retries(w) \/ GoesOn(w) \/ Creates(w) \/ Recorded(w)

\* delete_account takes the rows of u; midnight touches nothing but the date.
Purges(u) ==
  /\ ledger' = NoRows(ledger, u) /\ created' = NoRows(created, u)
  /\ lost' = [d \in Days |-> [lost[d] EXCEPT ![u] = @ + ledger[d][u]]]
  /\ account' \in [Users -> {"active", "purged", "gone"}]
  /\ account'[u] # "active" /\ \A v \in Users \ {u} : account'[v] = account[v]
  /\ UNCHANGED <<today, req, sent, offbook>>

DayTurns ==
  /\ today' \in Days
  /\ UNCHANGED <<account, ledger, created, req, sent, lost, offbook>>

\* Every answer leads to one of these.
LEMMA AnswerKinds ==
  ASSUME TypeInv, NEW w \in Workers, req[w].pc = "sent", NEW s, Answered(w, s),
         \/ Settled(s)
         \/ /\ Steady(s) /\ s = [req[w] EXCEPT !.pc = "record"]
            /\ req[w].call = "playlists.insert"
         \/ req[w].batches > 0 /\ s = NextBatch(req[w])
  PROVE  ThreadStep(w)
<1>1. /\ Goes(w, s) /\ Flown(w)
      /\ UNCHANGED <<today, account, ledger, created, lost, offbook>>
  BY DEF Answered, Goes, Flown
<1>2. CASE Settled(s)
  BY <1>1, <1>2 DEF ThreadStep, Settles
<1>3. CASE /\ Steady(s) /\ s = [req[w] EXCEPT !.pc = "record"]
           /\ req[w].call = "playlists.insert"
  BY <1>1, <1>3 DEF ThreadStep, Creates
<1>4. CASE req[w].batches > 0 /\ s = NextBatch(req[w])
  BY <1>1, <1>4 DEF ThreadStep, GoesOn
<1>5. QED
  BY <1>2, <1>3, <1>4

LEMMA FailKinds ==
  ASSUME TypeInv, NEW w \in Workers, Fail(w)
  PROVE  ThreadStep(w)
<1>1. PICK s \in AfterFailure(req[w]) : Answered(w, s)
  BY DEF Fail
<1>2. req[w].pc = "sent" /\ Steady(req[w])
  BY DEF Fail, Sent, TypeInv
<1>3. QED
  BY <1>1, <1>2, AfterFailureSettled, AnswerKinds

\* What a check asks for is a number of units.
LEMMA AskedType ==
  ASSUME NEW r \in Request
  PROVE  Asked(r) \in Nat /\ r.batches * ListCost \in Nat
<1>1. r.batches \in Nat /\ ListCost \in Nat /\ Cost(r.call) \in Nat
  BY CapsAssumption DEF Request, Cost
<1>2. r.batches * ListCost \in Nat
  BY <1>1
<1>3. QED
  BY <1>1, <1>2 DEF Asked

LEMMA StepKinds ==
  ASSUME TypeInv, NEW w \in Workers,
         Step(w) \/ Die(w) \/ \E u \in Users : StartRestore(w, u)
  PROVE  ThreadStep(w)
<1> DEFINE r == req[w]
<1>0. Steady(r) /\ r \in Request /\ today \in Days
  BY DEF TypeInv, TypeOK, Steady
<1>1. CASE \E u \in Users : StartRestore(w, u)
  <2>1. PICK u \in Users : StartRestore(w, u)
    BY <1>1
  <2> DEFINE s == [Idle EXCEPT !.pc = "resolve", !.user = u, !.pass = 1, !.passDay = today]
  <2>2. s \in Request
    <3>1. Idle \in Request
      BY IdleSettled DEF Settled, Steady
    <3>2. 1 \in 0 .. MAX_PLAYLIST_RESOLUTION_ATTEMPTS
      BY DEF MAX_PLAYLIST_RESOLUTION_ATTEMPTS
    <3>3. QED
      BY <1>0, <3>1, <3>2 DEF Request, PCs
  <2>3. s.pc = "resolve" /\ s.user = u /\ s.left = 0 /\ s.batches = 0
    BY DEF Idle
  <2>4. Settled(s)
    BY <2>2, <2>3, AttemptsBound, BatchesBound DEF Settled, Steady, Fresh
  <2>5. QED
    BY <2>1, <2>4 DEF StartRestore, ThreadStep, Settles, Goes
<1>2. CASE Die(w)
  BY <1>2, IdleSettled DEF Die, ThreadStep, Settles, Goes, Flown
<1>3. CASE Resolve(w)
  <2>1. PICK s \in Reused(r) \cup {OpenGate(r, "playlists.insert", today),
                                   OpenGate(r, "playlists.list", today)} : Goes(w, s)
    BY <1>3 DEF Resolve, Goes
  <2>2. r.pc # "idle" /\ r.batches = 0
    BY <1>0, <1>3 DEF Resolve, Steady, Request
  <2>3. Settled(s)
    BY <1>0, <2>1, <2>2, ReusedSettled, OpenGateSettled DEF Methods, Inserts, Lists
  <2>4. QED
    BY <1>3, <2>1, <2>3 DEF Resolve, ThreadStep, Settles
<1>4. CASE GlobalGate(w)
  <2>1. Settled(OverBudget(r))
    BY <1>0, <1>4, OverBudgetSettled DEF GlobalGate
  <2>2. Usage(r.day) + Asked(r) > GlobalCap \/ Usage(r.day) + Asked(r) <= GlobalCap
    <3>1. Usage(r.day) \in Nat
      BY <1>0, TotalType, ActorsAssumption DEF TypeInv, TypeOK, Table, Usage, Request
    <3>2. QED
      BY <1>0, <3>1, AskedType, CapsAssumption
  <2>3. QED
    BY <1>4, <2>1, <2>2 DEF GlobalGate, ThreadStep, Settles, GlobalPass, Goes
<1>5. CASE UserGate(w)
  <2>1. Settled(OverBudget(r))
    BY <1>0, <1>5, OverBudgetSettled DEF UserGate
  <2>2. ledger[r.day][r.user] \in Nat
    BY <1>0, <1>5 DEF UserGate, TypeInv, TypeOK, Table, Steady, Request
  <2>3. \/ ledger[r.day][r.user] + Asked(r) > UserCap
        \/ ledger[r.day][r.user] + Asked(r) <= UserCap
    BY <1>0, <2>2, AskedType, CapsAssumption
  <2>4. QED
    BY <1>5, <2>1, <2>3 DEF UserGate, ThreadStep, Settles, UserPass, Goes
<1>6. CASE CreateGate(w)
  <2>1. created[r.day][r.user] \in Nat
    BY <1>0, <1>6 DEF CreateGate, TypeInv, TypeOK, Table, Steady, Request
  <2>2. created[r.day][r.user] >= CreateCap \/ created[r.day][r.user] < CreateCap
    BY <2>1, CapsAssumption
  <2>3. QED
    BY <1>6, <2>2, IdleSettled DEF CreateGate, ThreadStep, Settles, CreatePass, Goes
<1>7. CASE Reserve(w)
  BY <1>7, IdleSettled DEF Reserve, RowRefused, Charge, ThreadStep, Settles, Charged, Goes
<1>8. CASE ReserveFails(w)
  BY <1>8 DEF ReserveFails, ThreadStep, Uncharged, Goes
<1>9. CASE Succeed(w)
  <2>1. PICK s \in AfterOk(r) : Answered(w, s)
    BY <1>9 DEF Succeed
  <2>2. r.pc = "sent"
    BY <1>9 DEF Succeed, Sent
  <2>3. QED
    BY <1>0, <2>1, <2>2, AfterOkSettled, AnswerKinds
<1>10. CASE NotFound(w)
  <2>1. PICK s \in AfterNotFound(r) : Answered(w, s)
    BY <1>10 DEF NotFound
  <2>2. r.pc = "sent"
    BY <1>10 DEF NotFound, Sent
  <2>3. QED
    BY <1>0, <2>1, <2>2, AfterNotFoundSettled, AnswerKinds
<1>11. CASE Reject(w)
  <2>1. PICK s \in AfterRejection(r) : Answered(w, s)
    BY <1>11 DEF Reject
  <2>2. r.pc = "sent"
    BY <1>11 DEF Reject, Sent
  <2>3. QED
    BY <1>0, <2>1, <2>2, AfterRejectionSettled, AnswerKinds
<1>12. CASE Fail(w)
  BY <1>12, FailKinds
<1>13. CASE Transient(w)
  <2>1. CASE r.left > 0
    BY <1>13, <2>1 DEF Transient, Sent, Answered, ThreadStep, Retries, Goes, Flown
  <2>2. CASE ~(r.left > 0)
    BY <1>13, <2>2, FailKinds DEF Transient
  <2>3. QED
    BY <2>1, <2>2
<1>14. CASE RecordCreated(w)
  <2>1. CASE RowRefused(r)
    BY <1>14, <2>1, IdleSettled DEF RecordCreated, ThreadStep, Settles, Goes
  <2>2. CASE ~RowRefused(r)
    <3>1. PICK s \in Planned(r) : Goes(w, s)
      BY <1>14, <2>2 DEF RecordCreated, Goes
    <3>2. Settled(s)
      BY <1>0, <1>14, <3>1, PlannedSettled DEF RecordCreated
    <3>3. QED
      BY <1>14, <2>2, <3>1, <3>2 DEF RecordCreated, RowRefused, ThreadStep, Recorded
  <2>3. QED
    BY <2>1, <2>2
<1>15. CASE RecordFails(w)
  <2>1. PICK s \in Planned(r) : Goes(w, s)
    BY <1>15 DEF RecordFails, Goes
  <2>2. Settled(s)
    BY <1>0, <1>15, <2>1, PlannedSettled DEF RecordFails
  <2>3. QED
    BY <1>15, <2>1, <2>2 DEF RecordFails, ThreadStep, Settles
<1>16. QED
  BY <1>1, <1>2, <1>3, <1>4, <1>5, <1>6, <1>7, <1>8, <1>9, <1>10, <1>11, <1>12,
     <1>13, <1>14, <1>15 DEF Step

\* The steps of the system are these and nothing else.
LEMMA NextKinds ==
  ASSUME TypeInv, Next
  PROVE  \/ \E w \in Workers : ThreadStep(w)
         \/ \E u \in Users : Purges(u)
         \/ DayTurns
<1>1. CASE \E w \in Workers : Step(w) \/ Die(w) \/ \E u \in Users : StartRestore(w, u)
  BY <1>1, StepKinds
<1>2. CASE \E u \in Users : PurgeUsage(u) \/ RemoveUser(u)
  BY <1>2 DEF PurgeUsage, RemoveUser, RowsGo, Purges, TypeInv, TypeOK
<1>3. CASE Midnight
  BY <1>3, BoundsAssumption DEF Midnight, DayTurns, TypeInv, TypeOK, Days
<1>4. QED
  BY <1>1, <1>2, <1>3 DEF Next

-----------------------------------------------------------------------------
(* Type correctness.                                                           *)

LEMMA CostType ==
  ASSUME NEW m
  PROVE  Cost(m) \in Nat /\ Cost(m) <= InsertCost
BY CapsAssumption DEF Cost

\* Adding to one row keeps a table a table.
LEMMA TableUpdate ==
  ASSUME NEW t \in Table, NEW d \in Days, NEW u \in Users, NEW n \in Nat
  PROVE  [t EXCEPT ![d][u] = @ + n] \in Table
BY DEF Table

LEMMA NoRowsTable ==
  ASSUME NEW t \in Table, NEW u \in Users
  PROVE  /\ NoRows(t, u) \in Table
         /\ \A d \in Days : /\ NoRows(t, u)[d][u] = 0
                           /\ \A v \in Users \ {u} : NoRows(t, u)[d][v] = t[d][v]
BY DEF NoRows, Table

LEMMA RowsGoTable ==
  ASSUME TypeInv, NEW u \in Users, Purges(u)
  PROVE  /\ lost' \in Table
         /\ \A d \in Days : /\ lost'[d][u] = lost[d][u] + ledger[d][u]
                           /\ \A v \in Users \ {u} : lost'[d][v] = lost[d][v]
BY DEF Purges, TypeInv, TypeOK, Table

\* The thread that steps stays well formed, and the others do not move.
LEMMA ThreadSteady ==
  ASSUME TypeInv, NEW w \in Workers, ThreadStep(w)
  PROVE  /\ Steady(req'[w])
         /\ req' = [req EXCEPT ![w] = req'[w]]
<1> DEFINE r == req[w]
<1>1. Steady(r) /\ r \in Request /\ r.left \in Nat
  BY DEF TypeInv, Steady, Request
<1>2. req \in [Workers -> Request]
  BY DEF TypeInv, TypeOK
<1>3. ASSUME NEW s, Steady(s), Goes(w, s)
      PROVE  Steady(req'[w]) /\ req' = [req EXCEPT ![w] = req'[w]]
  BY <1>2, <1>3 DEF Goes
<1>4. CASE Settles(w) \/ Recorded(w)
  BY <1>3, <1>4 DEF Settles, Recorded, Settled
<1>5. CASE GlobalPass(w)
  <2> DEFINE s == [r EXCEPT !.pc = "user"]
  <2>1. s \in Request
    BY <1>1 DEF Request, PCs
  <2>2. /\ s.pc = "user" /\ s.user = r.user /\ s.call = r.call /\ s.batches = r.batches
        /\ s.left = r.left /\ s.todo = r.todo /\ r.pc = "global"
    BY <1>1, <1>5 DEF Request, GlobalPass
  <2>3. Steady(s)
    BY <1>1, <2>1, <2>2 DEF Steady
  <2>4. QED
    BY <1>3, <1>5, <2>3 DEF GlobalPass
<1>6. CASE UserPass(w)
  <2>1. r.call \in Methods /\ r.pc = "user"
    BY <1>1, <1>6 DEF UserPass, Steady
  <2>2. /\ r.call = "playlistItems.insert" => r.todo > 0
        /\ r.call # "videos.list" => r.batches = 0
    BY <1>1, <2>1 DEF Steady, Request
  <2>3. CASE r.call = "playlists.insert" /\ Goes(w, [r EXCEPT !.pc = "creates"])
    <3> DEFINE s == [r EXCEPT !.pc = "creates"]
    <3>1. s \in Request
      BY <1>1 DEF Request, PCs
    <3>2. /\ s.pc = "creates" /\ s.user = r.user /\ s.call = r.call
          /\ s.left = r.left /\ s.todo = r.todo /\ s.batches = r.batches
      BY <1>1 DEF Request
    <3>3. Steady(s)
      BY <1>1, <2>1, <2>2, <2>3, <3>1, <3>2 DEF Steady
    <3>4. QED
      BY <1>3, <2>3, <3>3
  <2>4. CASE Goes(w, Begin(r, r.call))
    BY <1>1, <1>3, <2>1, <2>2, <2>4, BeginSteady
  <2>5. QED
    BY <1>6, <2>3, <2>4 DEF UserPass
<1>7. CASE CreatePass(w)
  <2>1. /\ r.call = "playlists.insert" /\ r.pc = "creates" /\ r.call \in Methods
        /\ r.batches = 0
    BY <1>1, <1>7 DEF CreatePass, Steady, Methods, Inserts, Request
  <2>2. Steady(Begin(r, r.call))
    BY <1>1, <2>1, BeginSteady
  <2>3. QED
    BY <1>3, <1>7, <2>2 DEF CreatePass
<1>8. CASE Charged(w) \/ Uncharged(w)
  <2> DEFINE s == Dispatch(r)
  <2>1. r.pc = "reserve" /\ today \in Days /\ Goes(w, s)
    BY <1>8 DEF Charged, Uncharged, TypeInv, TypeOK
  <2>2. r.left - 1 \in Nat /\ r.left - 1 <= Attempts(r.call)
    <3>1. r.call \in Methods /\ r.left > 0 /\ r.left <= Attempts(r.call)
      BY <1>1, <2>1 DEF Steady
    <3>2. Attempts(r.call) \in Nat
      BY <3>1, AttemptsBound
    <3>3. QED
      BY <1>1, <3>1, <3>2
  <2>3. s \in Request
    BY <1>1, <2>1, <2>2 DEF Dispatch, Request, PCs
  <2>4. /\ s.pc = "sent" /\ s.user = r.user /\ s.call = r.call
        /\ s.left = r.left - 1 /\ s.todo = r.todo /\ s.batches = r.batches
    BY <1>1 DEF Dispatch, Request
  <2>5. Steady(s)
    BY <1>1, <2>1, <2>2, <2>3, <2>4 DEF Steady
  <2>6. QED
    BY <1>3, <2>1, <2>5
<1>9. CASE Retries(w)
  <2> DEFINE s == [r EXCEPT !.pc = "reserve"]
  <2>1. r.pc = "sent" /\ r.left > 0
    BY <1>9 DEF Retries, Flown
  <2>2. s \in Request
    BY <1>1 DEF Request, PCs
  <2>3. /\ s.pc = "reserve" /\ s.user = r.user /\ s.call = r.call
        /\ s.left = r.left /\ s.todo = r.todo /\ s.batches = r.batches
    BY <1>1 DEF Request
  <2>4. Steady(s)
    BY <1>1, <2>1, <2>2, <2>3 DEF Steady
  <2>5. QED
    BY <1>3, <1>9, <2>4 DEF Retries
<1>10. CASE Creates(w)
  BY <1>3, <1>10 DEF Creates
<1>11. CASE GoesOn(w)
  BY <1>1, <1>3, <1>11, NextBatchSteady DEF GoesOn, Flown
<1>12. QED
  BY <1>4, <1>5, <1>6, <1>7, <1>8, <1>9, <1>10, <1>11 DEF ThreadStep

\* Every kind of step keeps the tables tables.
LEMMA ThreadTables ==
  ASSUME TypeInv, NEW w \in Workers, ThreadStep(w)
  PROVE  /\ ledger' \in Table /\ created' \in Table /\ sent' \in Table
         /\ lost' \in Table /\ offbook' \in Table
         /\ today' = today /\ account' = account
<1> DEFINE r == req[w]
<1>1. /\ ledger \in Table /\ created \in Table /\ sent \in Table
      /\ lost \in Table /\ offbook \in Table /\ today \in Days
      /\ r.day \in Days /\ r.rday \in Days /\ Steady(r)
  BY DEF TypeInv, TypeOK, Request, Steady
<1>2. Cost(r.call) \in Nat
  BY CostType
<1>3. r.pc # "idle" => r.user \in Users
  BY <1>1 DEF Steady
<1>4. ASSUME Flown(w) PROVE sent' \in Table
  BY <1>1, <1>2, <1>3, <1>4, TableUpdate DEF Flown
<1>5. CASE Charged(w)
  <2>1. ledger' \in Table
    BY <1>1, <1>2, <1>3, <1>5, TableUpdate DEF Charged
  <2>2. offbook' \in Table
    <3>1. (IF Checked(r, today) THEN 0 ELSE Cost(r.call)) \in Nat
      BY <1>2
    <3>2. QED
      BY <1>1, <1>3, <1>5, <3>1, TableUpdate DEF Charged
  <2>3. QED
    BY <1>1, <1>5, <2>1, <2>2 DEF Charged
<1>6. CASE Uncharged(w)
  BY <1>1, <1>2, <1>3, <1>6, TableUpdate DEF Uncharged
<1>7. CASE Recorded(w)
  BY <1>1, <1>3, <1>7, TableUpdate DEF Recorded
<1>8. CASE Settles(w)
  BY <1>1, <1>4, <1>8 DEF Settles
<1>9. CASE Retries(w) \/ GoesOn(w) \/ Creates(w)
  BY <1>1, <1>4, <1>9 DEF Retries, GoesOn, Creates
<1>10. CASE GlobalPass(w) \/ UserPass(w) \/ CreatePass(w)
  BY <1>1, <1>10 DEF GlobalPass, UserPass, CreatePass
<1>11. QED
  BY <1>5, <1>6, <1>7, <1>8, <1>9, <1>10 DEF ThreadStep

\* The counters that bound a behaviour stay within their bounds.
LEMMA Counters ==
  ASSUME TypeOK, [Next]_vars
  PROVE  requests' \in 0 .. MaxRequests /\ faults' \in 0 .. MaxFaults
<1> DEFINE Same == requests' = requests /\ (faults' = faults \/ Fault)
<1>1. Fault => faults' = faults + 1 /\ faults < MaxFaults
  BY DEF Fault
<1>2. ASSUME NEW w \in Workers, Step(w) PROVE Same
  <2>1. ASSUME NEW s, Answered(w, s) PROVE Same
    BY <2>1 DEF Answered
  <2>2. CASE Succeed(w) \/ NotFound(w) \/ Reject(w) \/ Fail(w) \/ Transient(w)
    BY <2>1, <2>2 DEF Succeed, NotFound, Reject, Fail, Transient
  <2>3. CASE Resolve(w) \/ GlobalGate(w) \/ UserGate(w) \/ CreateGate(w)
    BY <2>3 DEF Resolve, GlobalGate, UserGate, CreateGate
  <2>4. CASE Reserve(w) \/ ReserveFails(w) \/ RecordCreated(w) \/ RecordFails(w)
    BY <2>4 DEF Reserve, ReserveFails, RecordCreated, RecordFails
  <2>5. QED
    BY <1>2, <2>2, <2>3, <2>4 DEF Step
<1>3. ASSUME NEW w \in Workers, Die(w) PROVE Same
  BY <1>3 DEF Die
<1>4. ASSUME NEW w \in Workers, NEW u \in Users, StartRestore(w, u)
      PROVE  requests' = requests + 1 /\ requests < MaxRequests /\ faults' = faults
  BY <1>4 DEF StartRestore
<1>5. ASSUME NEW u \in Users, PurgeUsage(u) \/ RemoveUser(u) PROVE Same
  BY <1>5 DEF PurgeUsage, RemoveUser, RowsGo
<1>6. CASE Midnight \/ UNCHANGED vars
  BY <1>6 DEF Midnight, vars, TypeOK
<1>7. requests \in 0 .. MaxRequests /\ faults \in 0 .. MaxFaults
  BY DEF TypeOK
<1>8. ASSUME Same PROVE requests' \in 0 .. MaxRequests /\ faults' \in 0 .. MaxFaults
  BY <1>1, <1>7, <1>8, BoundsAssumption
<1>9. CASE Next
  BY <1>2, <1>3, <1>4, <1>5, <1>6, <1>7, <1>8, <1>9, BoundsAssumption DEF Next
<1>10. QED
  BY <1>6, <1>9

LEMMA TypeStep ==
  ASSUME TypeInv, [Next]_vars
  PROVE  TypeInv'
<1>1. CASE UNCHANGED vars
  BY <1>1 DEF vars, TypeInv, TypeOK, Steady, Table, MostAttempts, MostBatches
<1>2. CASE \E w \in Workers : ThreadStep(w)
  <2>1. PICK w \in Workers : ThreadStep(w)
    BY <1>2
  <2>2. Steady(req'[w]) /\ req' = [req EXCEPT ![w] = req'[w]]
    BY <2>1, ThreadSteady
  <2>3. req' \in [Workers -> Request] /\ \A v \in Workers : Steady(req'[v])
    <3>1. req \in [Workers -> Request] /\ \A v \in Workers : Steady(req[v])
      BY DEF TypeInv, TypeOK
    <3>2. req'[w] \in Request
      BY <2>2 DEF Steady
    <3>3. \A v \in Workers \ {w} : req'[v] = req[v]
      BY <2>2, <3>1
    <3>4. req' \in [Workers -> Request]
      BY <2>2, <3>1, <3>2
    <3>5. QED
      BY <2>2, <3>1, <3>3, <3>4
  <2>4. QED
    BY <2>1, <2>3, ThreadTables, Counters DEF TypeInv, TypeOK
<1>3. CASE \E u \in Users : Purges(u)
  <2>1. PICK u \in Users : Purges(u)
    BY <1>3
  <2>2. ledger' \in Table /\ created' \in Table /\ lost' \in Table
    BY <2>1, NoRowsTable, RowsGoTable DEF Purges, TypeInv, TypeOK
  <2>3. account' \in [Users -> {"active", "purged", "gone"}]
    BY <2>1 DEF Purges
  <2>4. UNCHANGED <<today, req, sent, offbook>>
    BY <2>1 DEF Purges
  <2> QED BY <2>2, <2>3, <2>4, Counters DEF TypeInv, TypeOK
<1>4. CASE DayTurns
  BY <1>4, Counters DEF DayTurns, TypeInv, TypeOK
<1>5. QED
  BY <1>1, <1>2, <1>3, <1>4, NextKinds

LEMMA TypeInit == Init => TypeInv
<1> SUFFICES ASSUME Init PROVE TypeInv
  OBVIOUS
<1>1. 0 \in Days
  BY BoundsAssumption DEF Days
<1>2. Settled(Idle)
  BY IdleSettled
<1>3. Idle \in Request
  BY <1>2 DEF Settled, Steady
<1>4. QED
  BY <1>1, <1>2, <1>3, BoundsAssumption DEF Init, TypeInv, TypeOK, Table, Settled

\* Type correctness, for any number of threads and accounts: in particular no thread
\* counts its attempts or its tracks below zero (_request_with_retry, _restore_pass).
THEOREM TypeCorrect == Spec => []TypeOK
<1>1. TypeInv => TypeOK
  BY DEF TypeInv
<1>2. QED
  BY TypeInit, TypeStep, <1>1, PTL DEF Spec

-----------------------------------------------------------------------------
(* What the threads have been let through for.                                 *)

\* To the row of user u, and to the total of day d, which is checked one gate earlier.
Owed(r, d, u) == IF r.user = u /\ r.day = d THEN Promised(r, {"creates"}) ELSE 0
OwedOn(r, d)  == IF r.day = d THEN Promised(r, {"user", "creates"}) ELSE 0

Owing(q, d, u) == [w \in Workers |-> Owed(q[w], d, u)]
OwingOn(q, d)  == [w \in Workers |-> OwedOn(q[w], d)]

\* Products in one factor.
LEMMA TimesMonotonic ==
  ASSUME NEW a \in Nat, NEW b \in Nat, NEW c \in Nat, a <= b
  PROVE  a * c \in Nat /\ a * c <= b * c /\ c * a <= c * b
<1>1. PICK k \in Nat : b = a + k
  <2>1. b - a \in Nat /\ b = a + (b - a)
    OBVIOUS
  <2>2. QED
    BY <2>1
<1>2. b * c = a * c + k * c /\ c * b = c * a + c * k
  BY <1>1
<1>3. k * c \in Nat /\ c * k \in Nat /\ a * c \in Nat /\ c * a \in Nat
  BY <1>1
<1>4. QED
  BY <1>2, <1>3

\* What bounds the units of one thread.
LEMMA UnitsBound ==
  /\ MostUnits \in Nat /\ MostExcess \in Nat
  /\ MostAttempts * InsertCost <= MostUnits /\ 2 * (MostBatches * ListCost) <= MostUnits
  /\ (MostAttempts - 1) * InsertCost <= MostExcess /\ MostBatches * ListCost <= MostExcess
<1>1. /\ MostAttempts \in Nat /\ MostAttempts - 1 \in Nat /\ MostBatches \in Nat
      /\ InsertCost \in Nat /\ ListCost \in Nat
  BY AttemptsBound, BatchesBound, CapsAssumption
<1>2. /\ MostAttempts * InsertCost \in Nat /\ (MostAttempts - 1) * InsertCost \in Nat
      /\ MostBatches * ListCost \in Nat /\ 2 * (MostBatches * ListCost) \in Nat
  BY <1>1
<1> QED BY <1>2 DEF MostUnits, MostExcess, Larger

\* A check asks for a part of what it lets through.
LEMMA AskedBound ==
  ASSUME NEW r, Steady(r), r.call \in Methods
  PROVE  LET n == Attempts(r.call)
             x == r.batches * ListCost IN
         /\ Asked(r) \in Nat /\ n \in Nat /\ x \in Nat /\ n * x \in Nat
         /\ n * Asked(r) = n * Cost(r.call) + n * x
         /\ n * Asked(r) \in 0 .. MostUnits
         /\ n * Asked(r) - Asked(r) <= MostExcess
<1> DEFINE n == Attempts(r.call)
           x == r.batches * ListCost
           c == Cost(r.call)
<1>1. r \in Request /\ r.batches \in Nat
  BY DEF Steady, Request
<1>2. /\ n \in Nat /\ n >= 1 /\ n <= MostAttempts /\ MostAttempts \in Nat
      /\ c \in Nat /\ x \in Nat /\ Asked(r) \in Nat /\ Asked(r) = c + x
  BY <1>1, AttemptsBound, AskedType, CapsAssumption DEF Asked, Cost
<1>3. n * (c + x) = n * c + n * x /\ n * c \in Nat /\ n * x \in Nat
  BY <1>2
<1>4. CASE r.call \in Inserts
  <2>1. c = InsertCost /\ x = 0 /\ InsertCost \in Nat
    <3>1. r.batches = 0
      BY <1>1, <1>4 DEF Steady, Inserts
    <3>2. QED
      BY <1>4, <3>1, CapsAssumption DEF Cost
  <2>2. n * InsertCost <= MostAttempts * InsertCost /\ n * InsertCost \in Nat
    BY <1>2, <2>1, TimesMonotonic
  <2>3. (n - 1) * InsertCost <= (MostAttempts - 1) * InsertCost
    <3>1. n - 1 \in Nat /\ MostAttempts - 1 \in Nat /\ n - 1 <= MostAttempts - 1
      BY <1>2
    <3>2. QED
      BY <2>1, <3>1, TimesMonotonic
  <2>4. (n - 1) * InsertCost = n * InsertCost - InsertCost
    BY <1>2, <2>1
  <2>5. Asked(r) = InsertCost
    BY <1>2, <2>1
  <2>6. /\ n * InsertCost <= MostUnits /\ n * InsertCost - InsertCost <= MostExcess
    <3>1. PICK a \in Nat, b \in Nat :
             a = MostAttempts * InsertCost /\ b = (MostAttempts - 1) * InsertCost
      <4>1. MostAttempts - 1 \in Nat
        BY <1>2
      <4>2. QED
        BY <1>2, <2>1, <4>1, TimesMonotonic
    <3>2. a <= MostUnits /\ b <= MostExcess
      BY <3>1, UnitsBound
    <3>3. n * InsertCost - InsertCost \in Int /\ n * InsertCost - InsertCost <= b
      BY <2>1, <2>2, <2>3, <2>4, <3>1
    <3>4. QED
      BY <2>2, <3>1, <3>2, <3>3, UnitsBound
  <2>7. QED
    BY <1>2, <1>3, <2>1, <2>2, <2>5, <2>6, UnitsBound
<1>5. CASE r.call \in Lists
  <2>1. c = ListCost /\ n = 2 /\ ListCost \in Nat
    BY <1>5, CapsAssumption DEF Cost, Attempts, Lists, Inserts
  <2>2. PICK b \in Nat : b = r.batches + 1 /\ b <= MostBatches
    BY <1>1, BatchesBound DEF Steady
  <2>3. Asked(r) = b * ListCost
    BY <1>1, <1>2, <2>1, <2>2
  <2>4. b * ListCost <= MostBatches * ListCost /\ MostBatches * ListCost \in Nat
    BY <2>1, <2>2, BatchesBound, TimesMonotonic
  <2>5. QED
    BY <1>2, <1>3, <2>1, <2>3, <2>4, UnitsBound
<1>6. QED
  BY <1>4, <1>5 DEF Methods

LEMMA PromisedBound ==
  ASSUME NEW r, Steady(r), NEW early \in SUBSET {"user", "creates"}
  PROVE  Promised(r, early) \in 0 .. MostUnits
<1>1. CASE r.pc \in {"user", "creates", "reserve", "sent"}
  <2> DEFINE n == Attempts(r.call)
             c == Cost(r.call)
             x == r.batches * ListCost
  <2>1. r.call \in Methods /\ r.left \in Nat
    BY <1>1 DEF Steady, Request
  <2>2. /\ n \in Nat /\ n * x \in Nat /\ n * Asked(r) = n * c + n * x
        /\ n * Asked(r) \in 0 .. MostUnits
    BY <2>1, AskedBound
  <2>3. CASE r.pc \in early
    BY <2>2, <2>3 DEF Promised
  <2>4. CASE r.pc \in {"reserve", "sent"}
    <3>1. r.left <= n /\ r.pc \notin early
      BY <2>4 DEF Steady
    <3>2. c \in Nat
      BY CapsAssumption DEF Cost
    <3>3. r.left * c \in Nat /\ r.left * c <= n * c /\ n * c \in Nat
      BY <2>1, <2>2, <3>1, <3>2, TimesMonotonic
    <3>4. r.left * c + n * x \in 0 .. MostUnits
      BY <2>2, <3>3, UnitsBound
    <3>5. QED
      BY <2>4, <3>1, <3>4, UnitsBound DEF Promised
  <2>5. QED
    BY <2>3, <2>4, UnitsBound DEF Promised
<1>2. CASE r.pc \notin {"user", "creates", "reserve", "sent"}
  <2>1. r.pc \notin early /\ r.pc \notin {"reserve", "sent"}
    BY <1>2
  <2>2. Promised(r, early) = 0
    BY <2>1 DEF Promised
  <2>3. QED
    BY <2>2, UnitsBound
<1>3. QED
  BY <1>1, <1>2

LEMMA OwingType ==
  ASSUME NEW q, \A w \in Workers : Steady(q[w]), NEW d, NEW u
  PROVE  /\ Owing(q, d, u) \in [Workers -> Nat] /\ OwingOn(q, d) \in [Workers -> Nat]
         /\ \A w \in Workers : Owing(q, d, u)[w] <= MostUnits /\ OwingOn(q, d)[w] <= MostUnits
<1>1. ASSUME NEW w \in Workers
      PROVE  Owed(q[w], d, u) \in 0 .. MostUnits /\ OwedOn(q[w], d) \in 0 .. MostUnits
  <2>1. /\ Promised(q[w], {"creates"}) \in 0 .. MostUnits
        /\ Promised(q[w], {"user", "creates"}) \in 0 .. MostUnits
    BY PromisedBound
  <2>2. QED
    BY <2>1, UnitsBound DEF Owed, OwedOn
<1>2. QED
  BY <1>1, UnitsBound DEF Owing, OwingOn

\* The steps that neither pass a check nor send an attempt owe no more than before.
Lapses(w) ==
  Settles(w) \/ CreatePass(w) \/ Retries(w) \/ GoesOn(w) \/ Creates(w) \/ Recorded(w)

LEMMA SettledOwes ==
  ASSUME NEW s, Settled(s), NEW d, NEW u
  PROVE  Owed(s, d, u) = 0 /\ OwedOn(s, d) = 0
BY DEF Settled, Fresh, Owed, OwedOn, Promised

\* The check of a validation has paid for every batch: the next one is promised no
\* more than what the last has left.
LEMMA NextBatchOwes ==
  ASSUME NEW r, Steady(r), r.pc = "sent", r.batches > 0,
         NEW early \in SUBSET {"user", "creates"}
  PROVE  Promised(NextBatch(r), early) <= Promised(r, early)
<1> DEFINE s == NextBatch(r)
           n == Attempts("videos.list")
           l == r.left
           b == r.batches
<1>1. /\ r.call = "videos.list" /\ r \in Request /\ l \in Nat /\ b \in Nat
      /\ ListCost \in Nat /\ n = 2
  BY CapsAssumption DEF Steady, Request, Attempts
<1>2. /\ s.pc = "reserve" /\ s.call = "videos.list" /\ s.left = n /\ s.batches = b - 1
  BY NextBatchSteady
<1>3. Cost("videos.list") = ListCost
  BY DEF Cost, Inserts
<1>4. /\ Promised(r, early) = l * ListCost + n * (b * ListCost)
      /\ Promised(s, early) = n * ListCost + n * ((b - 1) * ListCost)
  BY <1>1, <1>2, <1>3 DEF Promised
<1>5. (b - 1) * ListCost = b * ListCost - ListCost
      /\ b * ListCost \in Nat /\ l * ListCost \in Nat
  BY <1>1
<1>6. QED
  BY <1>1, <1>4, <1>5

LEMMA LapsesOwes ==
  ASSUME TypeInv, NEW w \in Workers, Lapses(w), NEW d, NEW u
  PROVE  /\ Owed(req'[w], d, u) <= Owed(req[w], d, u)
         /\ OwedOn(req'[w], d) <= OwedOn(req[w], d)
<1> DEFINE r == req[w]
           s == req'[w]
<1>1. Steady(r) /\ r \in Request /\ req \in [Workers -> Request]
  BY DEF TypeInv, TypeOK, Steady
<1>2. Owed(r, d, u) \in Nat /\ OwedOn(r, d) \in Nat
  BY <1>1, PromisedBound DEF Owed, OwedOn
<1>3. CASE Settles(w) \/ Recorded(w)
  <2>1. Settled(s)
    BY <1>1, <1>3 DEF Settles, Recorded, Goes
  <2>2. QED
    BY <1>2, <2>1, SettledOwes
<1>4. CASE CreatePass(w)
  <2>1. s = Begin(r, r.call) /\ r.pc = "creates"
    BY <1>1, <1>4 DEF CreatePass, Goes
  <2>2. /\ s.pc = "reserve" /\ s.call = r.call /\ s.left = Attempts(r.call)
        /\ s.user = r.user /\ s.day = r.day /\ s.batches = r.batches
    BY <1>1, <2>1 DEF Begin, Request
  <2>3. r.call = "playlists.insert" /\ r.call \in Methods
    BY <1>1, <2>1 DEF Steady
  <2>4. \A e \in {{"creates"}, {"user", "creates"}} : Promised(s, e) = Promised(r, e)
    <3>1. Attempts(r.call) * Asked(r)
            = Attempts(r.call) * Cost(r.call) + Attempts(r.call) * (r.batches * ListCost)
      BY <1>1, <2>3, AskedBound
    <3>2. QED
      BY <2>1, <2>2, <2>3, <3>1 DEF Promised
  <2>5. QED
    BY <1>2, <2>1, <2>2, <2>4 DEF Owed, OwedOn
<1>5. CASE Retries(w)
  <2>1. s = [r EXCEPT !.pc = "reserve"] /\ r.pc = "sent"
    BY <1>1, <1>5 DEF Retries, Flown, Goes
  <2>2. /\ s.pc = "reserve" /\ s.call = r.call /\ s.left = r.left
        /\ s.user = r.user /\ s.day = r.day /\ s.batches = r.batches
    BY <1>1, <2>1 DEF Request
  <2>3. QED
    BY <1>2, <2>1, <2>2 DEF Owed, OwedOn, Promised
<1>6. CASE Creates(w)
  <2>1. s = [r EXCEPT !.pc = "record"]
    BY <1>1, <1>6 DEF Creates, Goes
  <2>2. s.pc = "record"
    BY <1>1, <2>1 DEF Request
  <2>3. QED
    BY <1>2, <2>2 DEF Owed, OwedOn, Promised
<1>7. CASE GoesOn(w)
  <2>1. s = NextBatch(r) /\ r.pc = "sent" /\ r.batches > 0
    BY <1>1, <1>7 DEF GoesOn, Flown, Goes
  <2>2. s.day = r.day /\ s.user = r.user
    BY <1>1, <2>1, NextBatchSteady
  <2>3. \A e \in SUBSET {"user", "creates"} : Promised(s, e) <= Promised(r, e)
    BY <1>1, <2>1, NextBatchOwes
  <2>4. QED
    BY <1>2, <2>2, <2>3 DEF Owed, OwedOn
<1>8. QED
  BY <1>3, <1>4, <1>5, <1>6, <1>7 DEF Lapses

\* Passing the first gate is a promise to the day, the second one to the user.
LEMMA GlobalPassOwes ==
  ASSUME TypeInv, NEW w \in Workers, GlobalPass(w), NEW d, NEW u
  PROVE  /\ Owed(req'[w], d, u) = 0
         /\ d # req[w].day => OwedOn(req'[w], d) = 0
         /\ d = req[w].day => OwedOn(req'[w], d)
                               = Attempts(req[w].call) * Asked(req[w])
<1> DEFINE r == req[w]
           s == req'[w]
<1>1. s = [r EXCEPT !.pc = "user"] /\ r \in Request
  BY DEF TypeInv, TypeOK, GlobalPass, Goes
<1>2. s.pc = "user" /\ s.call = r.call /\ s.day = r.day /\ s.batches = r.batches
  BY <1>1 DEF Request
<1>3. QED
  BY <1>2 DEF Owed, OwedOn, Promised, Asked

LEMMA UserPassOwes ==
  ASSUME TypeInv, NEW w \in Workers, UserPass(w), NEW d, NEW u
  PROVE  /\ OwedOn(req'[w], d) <= OwedOn(req[w], d)
         /\ ~(u = req[w].user /\ d = req[w].day) => Owed(req'[w], d, u) = 0
         /\ u = req[w].user /\ d = req[w].day =>
              Owed(req'[w], d, u) \in {0, Attempts(req[w].call) * Asked(req[w])}
<1> DEFINE r == req[w]
           s == req'[w]
<1>1. r \in Request /\ Steady(r) /\ req \in [Workers -> Request] /\ r.pc = "user"
  BY DEF TypeInv, TypeOK, UserPass
<1>2. OwedOn(r, d) \in Nat
  BY <1>1, PromisedBound DEF OwedOn
<1>3. CASE r.call = "playlists.insert" /\ Goes(w, [r EXCEPT !.pc = "creates"])
  <2>1. /\ s.pc = "creates" /\ s.call = r.call /\ s.day = r.day /\ s.user = r.user
        /\ s.batches = r.batches
    BY <1>1, <1>3 DEF Goes, Request
  <2>2. QED
    BY <1>1, <1>2, <2>1 DEF Owed, OwedOn, Promised, Asked
<1>4. CASE r.call # "playlists.insert" /\ Goes(w, Begin(r, r.call))
  <2>1. /\ s.pc = "reserve" /\ s.call = r.call /\ s.day = r.day /\ s.user = r.user
        /\ s.left = Attempts(r.call) /\ s.batches = r.batches
    BY <1>1, <1>4 DEF Goes, Request, Begin
  <2>2. Attempts(r.call) * Asked(r)
          = Attempts(r.call) * Cost(r.call) + Attempts(r.call) * (r.batches * ListCost)
    BY <1>1, AskedBound DEF Steady
  <2>3. QED
    BY <1>1, <1>2, <2>1, <2>2 DEF Owed, OwedOn, Promised
<1>5. QED
  BY <1>3, <1>4 DEF UserPass

\* Sending an attempt redeems its cost, if it was promised at all.
LEMMA DispatchOwes ==
  ASSUME TypeInv, NEW w \in Workers, req[w].pc = "reserve", Goes(w, Dispatch(req[w])),
         NEW d, NEW u
  PROVE  /\ Owed(req'[w], d, u) <= Owed(req[w], d, u)
         /\ OwedOn(req'[w], d) <= OwedOn(req[w], d)
         /\ req[w].user = u /\ Checked(req[w], d)
              => Owed(req'[w], d, u) = Owed(req[w], d, u) - Cost(req[w].call)
         /\ Checked(req[w], d) => OwedOn(req'[w], d) = OwedOn(req[w], d) - Cost(req[w].call)
<1> DEFINE r == req[w]
           s == req'[w]
           k == r.left
           c == Cost(r.call)
           x == Attempts(r.call) * (r.batches * ListCost)
<1>1. r \in Request /\ Steady(r) /\ req \in [Workers -> Request] /\ k \in Nat /\ k > 0
  BY DEF TypeInv, TypeOK, Steady, Request
<1>2. /\ s.pc = "sent" /\ s.call = r.call /\ s.day = r.day /\ s.user = r.user
      /\ s.left = k - 1 /\ s.batches = r.batches
  BY <1>1 DEF Goes, Request, Dispatch
<1>3. c \in Nat /\ k * c \in Nat /\ (k - 1) * c = k * c - c /\ x \in Nat
  BY <1>1, CostType, AskedBound DEF Steady
<1>4. CASE r.call = "playlistItems.list"
  BY <1>2, <1>4 DEF Owed, OwedOn, Promised, Checked
<1>5. CASE r.call # "playlistItems.list"
  <2>1. \A e \in {{"creates"}, {"user", "creates"}} :
           Promised(r, e) = k * c + x /\ Promised(s, e) = (k - 1) * c + x
    BY <1>2, <1>5 DEF Promised
  <2>2. QED
    BY <1>2, <1>3, <2>1 DEF Owed, OwedOn, Checked
<1>6. QED
  BY <1>4, <1>5

-----------------------------------------------------------------------------
(* The user's cap.                                                             *)

\* The ledger plus what it is still owed.
UserBudget ==
  \A d \in Days, u \in Users :
     ledger[d][u] + Total(Owing(req, d, u), Workers) <= UserCap + Slack + offbook[d][u]

LEMMA SlackType ==
  /\ Cardinality(Workers) \in Nat /\ Cardinality(Workers) >= 1
  /\ Slack = Cardinality(Workers) * MostUnits - MostUnits + MostExcess
  /\ Cardinality(Workers) * MostUnits \in Nat
  /\ Slack \in Nat
<1>1. Cardinality(Workers) \in Nat
  BY ActorsAssumption, FS_CardinalityType
<1>2. Cardinality(Workers) # 0
  BY ActorsAssumption, FS_EmptySet
<1>3. PICK n \in Nat, m \in Nat : n + 1 = Cardinality(Workers) /\ m = MostUnits
  <2>1. Cardinality(Workers) - 1 \in Nat
    BY <1>1, <1>2
  <2>2. QED
    BY <1>1, <2>1, UnitsBound
<1>4. n * m \in Nat /\ (n + 1) * m = n * m + m
  OBVIOUS
<1>5. Slack = n * m + MostExcess
  BY <1>3 DEF Slack
<1>6. Cardinality(Workers) * MostUnits = n * m + m
  BY <1>3, <1>4
<1>7. Cardinality(Workers) \in Nat /\ Cardinality(Workers) >= 1 /\ MostUnits = m
  BY <1>1, <1>2, <1>3
<1>8. MostExcess \in Nat
  BY UnitsBound
<1>9. QED
  BY <1>4, <1>5, <1>6, <1>7, <1>8

\* The sum of what is owed follows the one thread that steps.
LEMMA OwingStep ==
  ASSUME TypeInv, NEW w \in Workers, ThreadStep(w), NEW d, NEW u
  PROVE  /\ Total(Owing(req', d, u), Workers) =
              Total(Owing(req, d, u), Workers) - Owed(req[w], d, u) + Owed(req'[w], d, u)
         /\ Total(OwingOn(req', d), Workers) =
              Total(OwingOn(req, d), Workers) - OwedOn(req[w], d) + OwedOn(req'[w], d)
         /\ Total(Owing(req', d, u), Workers) - Owed(req'[w], d, u)
              <= Cardinality(Workers) * MostUnits - MostUnits
         /\ Total(OwingOn(req', d), Workers) - OwedOn(req'[w], d)
              <= Cardinality(Workers) * MostUnits - MostUnits
         /\ Total(Owing(req', d, u), Workers) \in Nat /\ Total(Owing(req, d, u), Workers) \in Nat
         /\ Total(OwingOn(req', d), Workers) \in Nat /\ Total(OwingOn(req, d), Workers) \in Nat
         /\ Owed(req[w], d, u) \in Nat /\ Owed(req'[w], d, u) \in Nat
         /\ OwedOn(req[w], d) \in Nat /\ OwedOn(req'[w], d) \in Nat
<1>1. req \in [Workers -> Request] /\ \A v \in Workers : Steady(req[v])
  BY DEF TypeInv, TypeOK
<1>2. Steady(req'[w]) /\ req' = [req EXCEPT ![w] = req'[w]]
  BY ThreadSteady
<1>3. \A v \in Workers \ {w} : req'[v] = req[v]
  BY <1>1, <1>2
<1>4. \A v \in Workers : Steady(req'[v])
  BY <1>1, <1>2, <1>3
<1>5. PICK f, g : f = Owing(req, d, u) /\ g = Owing(req', d, u)
  OBVIOUS
<1>6. PICK h, k : h = OwingOn(req, d) /\ k = OwingOn(req', d)
  OBVIOUS
<1>7. /\ f \in [Workers -> Nat] /\ g \in [Workers -> Nat]
      /\ h \in [Workers -> Nat] /\ k \in [Workers -> Nat]
      /\ \A v \in Workers : g[v] <= MostUnits /\ k[v] <= MostUnits
  BY <1>1, <1>4, <1>5, <1>6, OwingType
<1>8. /\ f[w] = Owed(req[w], d, u) /\ g[w] = Owed(req'[w], d, u)
      /\ h[w] = OwedOn(req[w], d) /\ k[w] = OwedOn(req'[w], d)
  BY <1>5, <1>6 DEF Owing, OwingOn
<1>9. \A v \in Workers \ {w} : g[v] = f[v] /\ k[v] = h[v]
  BY <1>3, <1>5, <1>6 DEF Owing, OwingOn
<1>10. /\ Total(g, Workers) = Total(f, Workers) - f[w] + g[w]
       /\ Total(k, Workers) = Total(h, Workers) - h[w] + k[w]
  BY <1>7, <1>9, ActorsAssumption, TotalChange
<1>11. /\ Total(f, Workers) \in Nat /\ Total(g, Workers) \in Nat
       /\ Total(h, Workers) \in Nat /\ Total(k, Workers) \in Nat
  BY <1>7, ActorsAssumption, TotalType
<1>12. /\ Total(g, Workers) - g[w] + MostUnits <= Cardinality(Workers) * MostUnits
       /\ Total(k, Workers) - k[w] + MostUnits <= Cardinality(Workers) * MostUnits
  BY <1>7, ActorsAssumption, UnitsBound, TotalOthers
<1>13. f[w] \in Nat /\ g[w] \in Nat /\ h[w] \in Nat /\ k[w] \in Nat
  BY <1>7
<1>14. Cardinality(Workers) * MostUnits \in Nat /\ MostUnits \in Nat
  BY SlackType, UnitsBound
<1>15. QED
  BY <1>5, <1>6, <1>8, <1>10, <1>11, <1>12, <1>13, <1>14

LEMMA UserBudgetThread ==
  ASSUME TypeInv, UserBudget, NEW w \in Workers, ThreadStep(w),
         NEW d \in Days, NEW u \in Users
  PROVE  ledger'[d][u] + Total(Owing(req', d, u), Workers) <= UserCap + Slack + offbook'[d][u]
<1> DEFINE r == req[w]
           c == Cost(r.call)
           before == Total(Owing(req, d, u), Workers)
           after == Total(Owing(req', d, u), Workers)
           owed == Owed(r, d, u)
           owes == Owed(req'[w], d, u)
<1>1. /\ after = before - owed + owes
      /\ after - owes <= Cardinality(Workers) * MostUnits - MostUnits
      /\ before \in Nat /\ after \in Nat /\ owed \in Nat /\ owes \in Nat
  BY OwingStep
<1>2. /\ r \in Request /\ Steady(r) /\ today \in Days
      /\ ledger \in Table /\ offbook \in Table
      /\ ledger[d][u] \in Nat /\ offbook[d][u] \in Nat
  BY DEF TypeInv, TypeOK, Table
<1>3. c \in Nat /\ UserCap \in Nat /\ MostUnits \in Nat /\ MostExcess \in Nat
  BY CostType, CapsAssumption, UnitsBound
<1>4. ledger[d][u] + before <= UserCap + Slack + offbook[d][u]
  BY DEF UserBudget
<1>5. Slack = Cardinality(Workers) * MostUnits - MostUnits + MostExcess /\ Slack \in Nat
      /\ Cardinality(Workers) * MostUnits \in Nat
  BY SlackType, UnitsBound
<1>6. ASSUME ledger' = ledger, offbook' = offbook, owes <= owed
      PROVE  ledger'[d][u] + after <= UserCap + Slack + offbook'[d][u]
  BY <1>1, <1>2, <1>3, <1>4, <1>5, <1>6
<1>7. CASE Lapses(w)
  BY <1>6, <1>7, LapsesOwes
     DEF Lapses, Settles, CreatePass, Retries, GoesOn, Creates, Recorded
<1>8. CASE GlobalPass(w)
  <2>1. ledger' = ledger /\ offbook' = offbook
    BY <1>8 DEF GlobalPass
  <2>2. Owed(req'[w], d, u) = 0
    BY ONLY TypeInv, w \in Workers, <1>8, GlobalPassOwes
  <2>3. owes <= owed
    BY <1>1, <2>2
  <2>4. QED
    BY <1>6, <2>1, <2>3
<1>9. CASE UserPass(w)
  <2>1. ledger' = ledger /\ offbook' = offbook
    BY <1>9 DEF UserPass
  <2>2. CASE owes = 0
    BY <1>1, <1>6, <2>1, <2>2
  <2>3. CASE u = r.user /\ d = r.day /\ owes = Attempts(r.call) * Asked(r)
    <3>1. r.call \in Methods
      BY <1>2, <1>9 DEF UserPass, Steady
    <3>2. owes - Asked(r) <= MostExcess /\ Asked(r) \in Nat
      BY <1>2, <2>3, <3>1, AskedBound
    <3>3. ledger[d][u] + Asked(r) <= UserCap
      BY <1>9, <2>3 DEF UserPass
    <3>4. QED
      BY <1>1, <1>2, <1>3, <1>5, <2>1, <3>2, <3>3
  <2>4. QED
    BY <1>9, <2>2, <2>3, UserPassOwes
<1>10. CASE Uncharged(w)
  BY <1>6, <1>10, DispatchOwes DEF Uncharged
<1>11. CASE Charged(w)
  <2>1. owes <= owed
    BY <1>11, DispatchOwes DEF Charged
  <2>2. CASE ~(today = d /\ r.user = u)
    <3>1. ledger'[d][u] = ledger[d][u] /\ offbook'[d][u] = offbook[d][u]
      BY <1>2, <1>11, <2>2 DEF Charged, Table
    <3>2. QED
      BY <1>1, <1>2, <1>3, <1>4, <1>5, <2>1, <3>1
  <2>3. CASE today = d /\ r.user = u /\ Checked(r, d)
    <3>1. ledger'[d][u] = ledger[d][u] + c /\ offbook'[d][u] = offbook[d][u] + 0
      BY <1>2, <1>11, <2>3 DEF Charged, Table
    <3>2. owes = owed - c
      BY <1>11, <2>3, DispatchOwes DEF Charged
    <3>3. QED
      BY <1>1, <1>2, <1>3, <1>4, <1>5, <3>1, <3>2
  <2>4. CASE today = d /\ r.user = u /\ ~Checked(r, d)
    <3>1. ledger'[d][u] = ledger[d][u] + c /\ offbook'[d][u] = offbook[d][u] + c
      BY <1>2, <1>11, <2>4 DEF Charged, Table
    <3>2. QED
      BY <1>1, <1>2, <1>3, <1>4, <1>5, <2>1, <3>1
  <2>5. QED
    BY <2>2, <2>3, <2>4
<1>12. QED
  BY <1>7, <1>8, <1>9, <1>10, <1>11 DEF ThreadStep, Lapses

LEMMA UserBudgetStep ==
  ASSUME TypeInv, UserBudget, [Next]_vars
  PROVE  UserBudget'
<1>1. CASE \E w \in Workers : ThreadStep(w)
  BY <1>1, UserBudgetThread DEF UserBudget
<1>2. CASE \E u \in Users : Purges(u)
  <2>1. PICK v \in Users : Purges(v)
    BY <1>2
  <2>2. ASSUME NEW d \in Days, NEW u \in Users
        PROVE  ledger'[d][u] + Total(Owing(req', d, u), Workers)
                 <= UserCap + Slack + offbook'[d][u]
    <3>1. ledger \in Table /\ ledger[d][u] \in Nat /\ offbook[d][u] \in Nat
      BY DEF TypeInv, TypeOK, Table
    <3>2. req' = req /\ offbook' = offbook /\ ledger' = NoRows(ledger, v)
      BY <2>1 DEF Purges
    <3>3. ledger'[d][u] \in Nat /\ ledger'[d][u] <= ledger[d][u]
      BY <3>1, <3>2, NoRowsTable
    <3>4. \A w \in Workers : Steady(req[w])
      BY DEF TypeInv
    <3>5. Total(Owing(req, d, u), Workers) \in Nat
      BY <3>4, OwingType, TotalType, ActorsAssumption
    <3>6. ledger[d][u] + Total(Owing(req, d, u), Workers) <= UserCap + Slack + offbook[d][u]
      BY DEF UserBudget
    <3>7. QED
      BY <3>1, <3>2, <3>3, <3>5, <3>6, SlackType, CapsAssumption
  <2>3. QED
    BY <2>2 DEF UserBudget
<1>3. CASE DayTurns \/ UNCHANGED vars
  BY <1>3 DEF DayTurns, vars, UserBudget
<1>4. QED
  BY <1>1, <1>2, <1>3, NextKinds

\* Nobody owes anything at first.
LEMMA NothingOwed ==
  ASSUME Init, NEW d, NEW u
  PROVE  Total(Owing(req, d, u), Workers) = 0 /\ Total(OwingOn(req, d), Workers) = 0
<1>1. \A w \in Workers : req[w] = Idle
  BY DEF Init
<1>2. \A w \in Workers : Steady(req[w])
  BY <1>1, IdleSettled DEF Settled
<1>3. PICK f, h : f = Owing(req, d, u) /\ h = OwingOn(req, d)
  OBVIOUS
<1>4. f \in [Workers -> Nat] /\ h \in [Workers -> Nat]
  BY <1>2, <1>3, OwingType
<1>5. \A w \in Workers : f[w] = 0 /\ h[w] = 0
  BY <1>1, <1>3, IdleSettled, SettledOwes DEF Owing, OwingOn
<1>6. QED
  BY <1>3, <1>4, <1>5, TotalZero, ActorsAssumption

\* However the threads interleave with each other, with midnight and with deletions, a
\* user's row exceeds the cap by no more than one round of attempts of every thread,
\* and by what was reserved unchecked (ensure_budget and reserve are not one step).
THEOREM UserOvershoot == Spec => []CapOvershoot
<1>1. Init => UserBudget
  <2>1. ASSUME Init, NEW d \in Days, NEW u \in Users
        PROVE  ledger[d][u] + Total(Owing(req, d, u), Workers)
                 <= UserCap + Slack + offbook[d][u]
    <3>1. ledger[d][u] = 0 /\ offbook[d][u] = 0
      BY <2>1 DEF Init
    <3>2. QED
      BY <2>1, <3>1, NothingOwed, SlackType, CapsAssumption
  <2>2. QED
    BY <2>1 DEF UserBudget
<1>2. TypeInv /\ UserBudget => CapOvershoot
  <2>1. ASSUME TypeInv, UserBudget, NEW d \in Days, NEW u \in Users
        PROVE  ledger[d][u] <= UserCap + Slack + offbook[d][u]
    <3>1. ledger[d][u] \in Nat /\ offbook[d][u] \in Nat /\ \A w \in Workers : Steady(req[w])
      BY <2>1 DEF TypeInv, TypeOK, Table
    <3>2. Total(Owing(req, d, u), Workers) \in Nat
      BY <3>1, OwingType, TotalType, ActorsAssumption
    <3>3. QED
      BY <2>1, <3>1, <3>2, SlackType, CapsAssumption DEF UserBudget
  <2>2. QED
    BY <2>1 DEF CapOvershoot
<1>3. QED
  BY TypeInit, TypeStep, UserBudgetStep, <1>1, <1>2, PTL DEF Spec

-----------------------------------------------------------------------------
(* The shared cap.                                                             *)

\* The day's total plus what it is still owed.
SharedBudget ==
  \A d \in Days :
     Usage(d) + Total(OwingOn(req, d), Workers) <= GlobalCap + Slack + Total(offbook[d], Users)

\* The total of a day follows the one row that is charged.
LEMMA DayTotal ==
  ASSUME NEW t \in Table, NEW e \in Days, NEW u \in Users, NEW n \in Nat, NEW d \in Days
  PROVE  /\ Total(t[d], Users) \in Nat
         /\ Total([t EXCEPT ![e][u] = @ + n][d], Users)
              = Total(t[d], Users) + IF d = e THEN n ELSE 0
<1>1. PICK g : g = [t EXCEPT ![e][u] = @ + n]
  OBVIOUS
<1>2. t[d] \in [Users -> Nat] /\ g[d] \in [Users -> Nat]
  BY <1>1 DEF Table
<1>3. Total(t[d], Users) \in Nat /\ Total(g[d], Users) \in Nat
  BY <1>2, TotalType, ActorsAssumption
<1>4. CASE d = e
  <2>1. g[d][u] = t[d][u] + n /\ \A v \in Users \ {u} : g[d][v] = t[d][v]
    BY <1>1, <1>4 DEF Table
  <2>2. Total(g[d], Users) = Total(t[d], Users) - t[d][u] + g[d][u]
    BY <1>2, <2>1, TotalChange, ActorsAssumption
  <2>3. t[d][u] \in Nat
    BY <1>2
  <2>4. QED
    BY <1>1, <1>3, <1>4, <2>1, <2>2, <2>3
<1>5. CASE d # e
  <2>1. g[d] = t[d]
    BY <1>1, <1>5 DEF Table
  <2>2. QED
    BY <1>1, <1>3, <1>5, <2>1
<1>6. QED
  BY <1>4, <1>5

LEMMA SharedBudgetThread ==
  ASSUME TypeInv, SharedBudget, NEW w \in Workers, ThreadStep(w), NEW d \in Days
  PROVE  Total(ledger'[d], Users) + Total(OwingOn(req', d), Workers)
           <= GlobalCap + Slack + Total(offbook'[d], Users)
<1> DEFINE r == req[w]
           c == Cost(r.call)
           before == Total(OwingOn(req, d), Workers)
           after == Total(OwingOn(req', d), Workers)
           owed == OwedOn(r, d)
           owes == OwedOn(req'[w], d)
           used == Total(ledger[d], Users)
           open == Total(offbook[d], Users)
<1>1. /\ after = before - owed + owes
      /\ after - owes <= Cardinality(Workers) * MostUnits - MostUnits
      /\ before \in Nat /\ after \in Nat /\ owed \in Nat /\ owes \in Nat
  BY OwingStep
<1>2. /\ r \in Request /\ Steady(r) /\ today \in Days
      /\ ledger \in Table /\ offbook \in Table
      /\ ledger[d] \in [Users -> Nat] /\ offbook[d] \in [Users -> Nat]
  BY DEF TypeInv, TypeOK, Table
<1>3. c \in Nat /\ GlobalCap \in Nat /\ MostUnits \in Nat /\ MostExcess \in Nat
  BY CostType, CapsAssumption, UnitsBound
<1>4. used + before <= GlobalCap + Slack + open
  BY DEF SharedBudget, Usage
<1>5. Slack = Cardinality(Workers) * MostUnits - MostUnits + MostExcess /\ Slack \in Nat
      /\ Cardinality(Workers) * MostUnits \in Nat
  BY SlackType, UnitsBound
<1>6. used \in Nat /\ open \in Nat
  BY <1>2, TotalType, ActorsAssumption
<1>7. ASSUME ledger' = ledger, offbook' = offbook, owes <= owed
      PROVE  Total(ledger'[d], Users) + after <= GlobalCap + Slack + Total(offbook'[d], Users)
  BY <1>1, <1>3, <1>4, <1>5, <1>6, <1>7
<1>8. CASE Lapses(w)
  BY <1>7, <1>8, LapsesOwes
     DEF Lapses, Settles, CreatePass, Retries, GoesOn, Creates, Recorded
<1>9. CASE UserPass(w)
  BY <1>7, <1>9, UserPassOwes DEF UserPass
<1>10. CASE Uncharged(w)
  BY <1>7, <1>10, DispatchOwes DEF Uncharged
<1>11. CASE GlobalPass(w)
  <2>1. ledger' = ledger /\ offbook' = offbook
    BY <1>11 DEF GlobalPass
  <2>2. CASE d # r.day
    <3>1. owes = 0
      BY ONLY TypeInv, w \in Workers, <1>11, <2>2, GlobalPassOwes
    <3>2. QED
      BY <1>1, <1>7, <2>1, <3>1
  <2>3. CASE d = r.day
    <3>1. owes = Attempts(r.call) * Asked(r)
      BY ONLY TypeInv, w \in Workers, <1>11, <2>3, GlobalPassOwes
    <3>2. r.call \in Methods
      BY <1>2, <1>11 DEF GlobalPass, Steady
    <3>3. owes - Asked(r) <= MostExcess /\ Asked(r) \in Nat
      BY <1>2, <3>1, <3>2, AskedBound
    <3>4. used + Asked(r) <= GlobalCap
      BY <1>11, <2>3 DEF GlobalPass, Usage
    <3>5. QED
      BY <1>1, <1>3, <1>5, <1>6, <2>1, <3>3, <3>4
  <2>4. QED
    BY <2>2, <2>3
<1>12. CASE Charged(w)
  <2>1. owes <= owed /\ (Checked(r, d) => owes = owed - c)
    BY <1>12, DispatchOwes DEF Charged
  <2>2. r.user \in Users
    BY <1>2, <1>12 DEF Charged, Steady
  <2>3. Total(ledger'[d], Users) = used + IF d = today THEN c ELSE 0
    BY <1>2, <1>3, <1>12, <2>2, DayTotal DEF Charged
  <2>4. CASE Checked(r, today)
    <3>1. offbook' = [offbook EXCEPT ![today][r.user] = @ + 0]
      BY <1>12, <2>4 DEF Charged
    <3>2. Total(offbook'[d], Users) = open
      BY <1>2, <1>6, <2>2, <3>1, DayTotal
    <3>3. QED
      BY <1>1, <1>3, <1>4, <1>5, <1>6, <2>1, <2>3, <2>4, <3>2
  <2>5. CASE ~Checked(r, today)
    <3>1. offbook' = [offbook EXCEPT ![today][r.user] = @ + c]
      BY <1>12, <2>5 DEF Charged
    <3>2. today \in Days /\ offbook \in Table /\ c \in Nat
      BY <1>2, <1>3
    <3>3. Total([offbook EXCEPT ![today][r.user] = @ + c][d], Users)
            = open + IF d = today THEN c ELSE 0
      BY <2>2, <3>2, DayTotal
    <3>4. Total(offbook'[d], Users) = open + IF d = today THEN c ELSE 0
      BY <3>1, <3>3
    <3>5. QED
      BY <1>1, <1>3, <1>4, <1>5, <1>6, <2>1, <2>3, <3>4
  <2>6. QED
    BY <2>4, <2>5
<1>13. QED
  BY <1>8, <1>9, <1>10, <1>11, <1>12 DEF ThreadStep, Lapses

LEMMA SharedBudgetStep ==
  ASSUME TypeInv, SharedBudget, [Next]_vars
  PROVE  SharedBudget'
<1>1. CASE \E w \in Workers : ThreadStep(w)
  BY <1>1, SharedBudgetThread DEF SharedBudget, Usage
<1>2. CASE \E u \in Users : Purges(u)
  <2>1. PICK v \in Users : Purges(v)
    BY <1>2
  <2>2. ASSUME NEW d \in Days
        PROVE  Total(ledger'[d], Users) + Total(OwingOn(req', d), Workers)
                 <= GlobalCap + Slack + Total(offbook'[d], Users)
    <3>1. ledger \in Table /\ offbook \in Table /\ \A w \in Workers : Steady(req[w])
      BY DEF TypeInv, TypeOK
    <3>2. req' = req /\ offbook' = offbook /\ ledger' = NoRows(ledger, v)
      BY <2>1 DEF Purges
    <3>3. ledger[d] \in [Users -> Nat] /\ ledger'[d] \in [Users -> Nat]
          /\ offbook[d] \in [Users -> Nat]
      <4>1. ledger' \in Table
        BY <3>1, <3>2, NoRowsTable
      <4> QED BY <3>1, <4>1 DEF Table
    <3>4. \A u \in Users : ledger'[d][u] <= ledger[d][u]
      <4>1. \A u \in Users : ledger[d][u] \in Nat
        BY <3>3
      <4>2. QED
        BY <3>1, <3>2, <4>1, NoRowsTable
    <3>5. Total(ledger'[d], Users) <= Total(ledger[d], Users)
      BY <3>3, <3>4, TotalMonotonic, ActorsAssumption
    <3>6. /\ Total(ledger'[d], Users) \in Nat /\ Total(ledger[d], Users) \in Nat
          /\ Total(offbook[d], Users) \in Nat
      BY <3>3, TotalType, ActorsAssumption
    <3>7. Total(OwingOn(req, d), Workers) \in Nat
      BY <3>1, OwingType, TotalType, ActorsAssumption
    <3>8. Total(ledger[d], Users) + Total(OwingOn(req, d), Workers)
            <= GlobalCap + Slack + Total(offbook[d], Users)
      BY DEF SharedBudget, Usage
    <3>9. QED
      BY <3>2, <3>5, <3>6, <3>7, <3>8, SlackType, CapsAssumption
  <2>3. QED
    BY <2>2 DEF SharedBudget, Usage
<1>3. CASE DayTurns \/ UNCHANGED vars
  BY <1>3 DEF DayTurns, vars, SharedBudget, Usage
<1>4. QED
  BY <1>1, <1>2, <1>3, NextKinds

\* The shared cap is overshot by no more either, whoever the threads work for: all
\* accounts together exceed it by one round of attempts of every thread, and by what was
\* reserved unchecked (global_usage is read in a step of its own).
THEOREM SharedOvershoot == Spec => []GlobalOvershoot
<1>1. Init => SharedBudget
  <2>1. ASSUME Init, NEW d \in Days
        PROVE  Usage(d) + Total(OwingOn(req, d), Workers)
                 <= GlobalCap + Slack + Total(offbook[d], Users)
    <3>1. PICK f : f = [u \in Users |-> 0]
      OBVIOUS
    <3>2. ledger[d] = f /\ offbook[d] = f /\ f \in [Users -> Nat]
      BY <2>1, <3>1 DEF Init
    <3>3. Total(f, Users) = 0
      BY <3>1, <3>2, TotalZero, ActorsAssumption
    <3>4. QED
      BY <2>1, <3>2, <3>3, NothingOwed, SlackType, CapsAssumption DEF Usage
  <2>2. QED
    BY <2>1 DEF SharedBudget
<1>2. TypeInv /\ SharedBudget => GlobalOvershoot
  <2>1. ASSUME TypeInv, SharedBudget, NEW d \in Days
        PROVE  Usage(d) <= GlobalCap + Slack + Total(offbook[d], Users)
    <3>1. /\ ledger[d] \in [Users -> Nat] /\ offbook[d] \in [Users -> Nat]
          /\ \A w \in Workers : Steady(req[w])
      BY <2>1 DEF TypeInv, TypeOK, Table
    <3>2. /\ Total(OwingOn(req, d), Workers) \in Nat
          /\ Usage(d) \in Nat /\ Total(offbook[d], Users) \in Nat
      BY <3>1, OwingType, TotalType, ActorsAssumption DEF Usage
    <3>3. QED
      BY <2>1, <3>2, SlackType, CapsAssumption DEF SharedBudget
  <2>2. QED
    BY <2>1 DEF GlobalOvershoot
<1>3. QED
  BY TypeInit, TypeStep, SharedBudgetStep, <1>1, <1>2, PTL DEF Spec

-----------------------------------------------------------------------------
(* The ledger against the calls that were sent.                                *)

\* What the attempt a thread waits for has cost, to the row it was charged to.
Flight(r, d, u) == IF r.pc = "sent" /\ r.rday = d /\ r.user = u THEN Cost(r.call) ELSE 0
Flying(q, d, u) == [w \in Workers |-> Flight(q[w], d, u)]

\* The units sent are covered when those in flight are counted too.
Covered ==
  \A d \in Days, u \in Users :
     sent[d][u] + Total(Flying(req, d, u), Workers) <= ledger[d][u] + lost[d][u]

LEMMA FlyingType ==
  ASSUME NEW q, NEW d, NEW u
  PROVE  /\ Flying(q, d, u) \in [Workers -> Nat]
         /\ Total(Flying(q, d, u), Workers) \in Nat
<1>1. \A w \in Workers : Flight(q[w], d, u) \in Nat
  BY CostType DEF Flight
<1>2. Flying(q, d, u) \in [Workers -> Nat]
  BY <1>1 DEF Flying
<1>3. QED
  BY <1>2, TotalType, ActorsAssumption

LEMMA FlyingStep ==
  ASSUME TypeInv, NEW w \in Workers, ThreadStep(w), NEW d, NEW u
  PROVE  Total(Flying(req', d, u), Workers) =
           Total(Flying(req, d, u), Workers) - Flight(req[w], d, u) + Flight(req'[w], d, u)
<1>1. req \in [Workers -> Request] /\ req' = [req EXCEPT ![w] = req'[w]]
  BY ThreadSteady DEF TypeInv, TypeOK
<1>2. PICK f, g : f = Flying(req, d, u) /\ g = Flying(req', d, u)
  OBVIOUS
<1>3. f \in [Workers -> Nat] /\ g \in [Workers -> Nat]
  BY <1>2, FlyingType
<1>4. f[w] = Flight(req[w], d, u) /\ g[w] = Flight(req'[w], d, u)
  BY <1>2 DEF Flying
<1>5. \A v \in Workers \ {w} : g[v] = f[v]
  BY <1>1, <1>2 DEF Flying
<1>6. Total(g, Workers) = Total(f, Workers) - f[w] + g[w]
  BY <1>3, <1>5, TotalChange, ActorsAssumption
<1>7. QED
  BY <1>2, <1>4, <1>6

\* Only a step that sends an attempt puts one in flight.
LEMMA Landed ==
  ASSUME TypeInv, NEW w \in Workers, ThreadStep(w), ~Charged(w), ~Uncharged(w)
  PROVE  req'[w].pc # "sent"
<1> DEFINE r == req[w]
           s == req'[w]
<1>1. r \in Request /\ req \in [Workers -> Request]
  BY DEF TypeInv, TypeOK
<1>2. CASE Settles(w) \/ Recorded(w)
  <2>1. Settled(s)
    BY <1>1, <1>2 DEF Settles, Recorded, Goes
  <2>2. QED
    BY <2>1 DEF Settled, Fresh
<1>3. CASE GlobalPass(w)
  BY <1>1, <1>3 DEF GlobalPass, Goes, Request
<1>4. CASE UserPass(w)
  BY <1>1, <1>4 DEF UserPass, Goes, Begin, Request
<1>5. CASE CreatePass(w)
  BY <1>1, <1>5 DEF CreatePass, Goes, Begin, Request
<1>6. CASE Retries(w)
  BY <1>1, <1>6 DEF Retries, Goes, Request
<1>7. CASE Creates(w)
  BY <1>1, <1>7 DEF Creates, Goes, Request
<1>8. CASE GoesOn(w)
  <2>1. Steady(r) /\ s = NextBatch(r) /\ r.pc = "sent" /\ r.batches > 0
    BY <1>1, <1>8 DEF GoesOn, Goes, Flown, TypeInv
  <2>2. QED
    BY <2>1, NextBatchSteady
<1>9. QED
  BY <1>2, <1>3, <1>4, <1>5, <1>6, <1>7, <1>8 DEF ThreadStep

LEMMA DispatchFlies ==
  ASSUME TypeInv, NEW w \in Workers, req[w].pc = "reserve", Goes(w, Dispatch(req[w])),
         NEW d, NEW u
  PROVE  /\ Flight(req[w], d, u) = 0
         /\ Flight(req'[w], d, u) =
              IF d = today /\ u = req[w].user THEN Cost(req[w].call) ELSE 0
<1>1. req[w] \in Request /\ req \in [Workers -> Request]
  BY DEF TypeInv, TypeOK
<1>2. /\ req'[w].pc = "sent" /\ req'[w].call = req[w].call
      /\ req'[w].rday = today /\ req'[w].user = req[w].user
  BY <1>1 DEF Goes, Dispatch, Request
<1>3. QED
  BY <1>2 DEF Flight

LEMMA CoveredThread ==
  ASSUME TypeInv, Covered, NEW w \in Workers, ThreadStep(w), NEW d \in Days, NEW u \in Users
  PROVE  sent'[d][u] + Total(Flying(req', d, u), Workers) <= ledger'[d][u] + lost'[d][u]
<1> DEFINE r == req[w]
           c == Cost(r.call)
           before == Total(Flying(req, d, u), Workers)
           after == Total(Flying(req', d, u), Workers)
           flew == Flight(r, d, u)
           flies == Flight(req'[w], d, u)
<1>1. after = before - flew + flies /\ before \in Nat /\ after \in Nat
  BY FlyingStep, FlyingType
<1>2. c \in Nat /\ flew \in Nat /\ flies \in Nat
  BY CostType DEF Flight
<1>3. /\ sent \in Table /\ ledger \in Table /\ lost \in Table
      /\ sent[d][u] \in Nat /\ ledger[d][u] \in Nat /\ lost[d][u] \in Nat
  BY DEF TypeInv, TypeOK, Table
<1>4. sent[d][u] + before <= ledger[d][u] + lost[d][u]
  BY DEF Covered
<1>5. CASE Charged(w) \/ Uncharged(w)
  <2>1. flew = 0 /\ flies = (IF d = today /\ u = r.user THEN c ELSE 0) /\ sent' = sent
    BY <1>5, DispatchFlies DEF Charged, Uncharged
  <2>2. \/ ledger'[d][u] = ledger[d][u] + flies /\ lost'[d][u] = lost[d][u]
        \/ lost'[d][u] = lost[d][u] + flies /\ ledger'[d][u] = ledger[d][u]
    BY <1>2, <1>3, <1>5, <2>1 DEF Charged, Uncharged, Table
  <2>3. QED
    BY <1>1, <1>2, <1>3, <1>4, <2>1, <2>2
<1>6. CASE ~Charged(w) /\ ~Uncharged(w)
  <2>1. flies = 0
    BY <1>6, Landed DEF Flight
  <2>2. ledger' = ledger /\ lost' = lost /\ (sent' = sent \/ Flown(w))
    BY <1>6 DEF ThreadStep, Settles, GlobalPass, UserPass, CreatePass, Retries, GoesOn,
                Creates, Recorded
  <2>3. CASE sent' = sent
    BY <1>1, <1>2, <1>3, <1>4, <2>1, <2>2, <2>3
  <2>4. CASE Flown(w)
    <3>1. sent'[d][u] = sent[d][u] + flew
      BY <1>2, <1>3, <2>4 DEF Flown, Flight, Table
    <3>2. QED
      BY <1>1, <1>2, <1>3, <1>4, <2>1, <2>2, <3>1
  <2>5. QED
    BY <2>2, <2>3, <2>4
<1>7. QED
  BY <1>5, <1>6

LEMMA CoveredStep ==
  ASSUME TypeInv, Covered, [Next]_vars
  PROVE  Covered'
<1>1. CASE \E w \in Workers : ThreadStep(w)
  BY <1>1, CoveredThread DEF Covered
<1>2. CASE \E u \in Users : Purges(u)
  <2>1. PICK v \in Users : Purges(v)
    BY <1>2
  <2>2. ASSUME NEW d \in Days, NEW u \in Users
        PROVE  sent'[d][u] + Total(Flying(req', d, u), Workers)
                 <= ledger'[d][u] + lost'[d][u]
    <3>1. /\ ledger \in Table /\ ledger[d][u] \in Nat /\ lost[d][u] \in Nat
      BY DEF TypeInv, TypeOK, Table
    <3>2. req' = req /\ sent' = sent /\ ledger' = NoRows(ledger, v)
      BY <2>1 DEF Purges
    <3>3. ledger'[d][u] + lost'[d][u] = ledger[d][u] + lost[d][u]
      BY <2>1, <3>1, <3>2, NoRowsTable, RowsGoTable
    <3>4. QED
      BY <3>2, <3>3 DEF Covered
  <2>3. QED
    BY <2>2 DEF Covered
<1>3. CASE DayTurns \/ UNCHANGED vars
  BY <1>3 DEF DayTurns, vars, Covered
<1>4. QED
  BY <1>1, <1>2, <1>3, NextKinds

\* No unit reaches Google that the ledger does not know of, but for a failed commit or a
\* deleted row (quota.py rule 1; reserve, delete_account): retries, 404 passes and
\* deaths of the thread included, on the day the attempt was charged to.
THEOREM CallsAreCovered == Spec => []LedgerCoversCalls
<1>1. Init => Covered
  <2>1. ASSUME Init, NEW d \in Days, NEW u \in Users
        PROVE  sent[d][u] + Total(Flying(req, d, u), Workers) <= ledger[d][u] + lost[d][u]
    <3>1. PICK f : f = Flying(req, d, u)
      OBVIOUS
    <3>2. \A w \in Workers : f[w] = 0
      BY <2>1, <3>1 DEF Init, Flying, Flight, Idle
    <3>3. Total(f, Workers) = 0
      BY <3>1, <3>2, FlyingType, TotalZero, ActorsAssumption
    <3>4. QED
      BY <2>1, <3>1, <3>3 DEF Init
  <2>2. QED
    BY <2>1 DEF Covered
<1>2. TypeInv /\ Covered => LedgerCoversCalls
  <2>1. ASSUME TypeInv, Covered, NEW d \in Days, NEW u \in Users
        PROVE  sent[d][u] <= ledger[d][u] + lost[d][u]
    <3>1. sent[d][u] \in Nat /\ ledger[d][u] \in Nat /\ lost[d][u] \in Nat
      BY <2>1 DEF TypeInv, TypeOK, Table
    <3>2. QED
      BY <2>1, <3>1, FlyingType DEF Covered
  <2>2. QED
    BY <2>1 DEF LedgerCoversCalls
<1>3. QED
  BY TypeInit, TypeStep, CoveredStep, <1>1, <1>2, PTL DEF Spec

-----------------------------------------------------------------------------
(* Playlist creations and deleted accounts.                                    *)

\* A thread between the gate of playlist creation and the counter.
Making(r, d, u) ==
  IF /\ r.call = "playlists.insert" /\ r.pc \in {"reserve", "sent", "record"}
     /\ r.day = d /\ r.user = u
    THEN 1 ELSE 0
Makers(q, d, u) == [w \in Workers |-> Making(q[w], d, u)]

CreationBudget ==
  \A d \in Days, u \in Users :
     created[d][u] + Total(Makers(req, d, u), Workers) < CreateCap + Cardinality(Workers)

LEMMA MakersType ==
  ASSUME NEW q, NEW d, NEW u
  PROVE  /\ Makers(q, d, u) \in [Workers -> Nat]
         /\ \A w \in Workers : Makers(q, d, u)[w] <= 1
         /\ Total(Makers(q, d, u), Workers) \in Nat
<1>1. Makers(q, d, u) \in [Workers -> Nat] /\ \A w \in Workers : Makers(q, d, u)[w] <= 1
  BY DEF Makers, Making
<1>2. QED
  BY <1>1, TotalType, ActorsAssumption

LEMMA MakersStep ==
  ASSUME TypeInv, NEW w \in Workers, ThreadStep(w), NEW d, NEW u
  PROVE  /\ Total(Makers(req', d, u), Workers) =
              Total(Makers(req, d, u), Workers) - Making(req[w], d, u) + Making(req'[w], d, u)
         /\ Total(Makers(req', d, u), Workers) <= Cardinality(Workers)
<1>1. req \in [Workers -> Request] /\ req' = [req EXCEPT ![w] = req'[w]]
  BY ThreadSteady DEF TypeInv, TypeOK
<1>2. PICK f, g : f = Makers(req, d, u) /\ g = Makers(req', d, u)
  OBVIOUS
<1>3. f \in [Workers -> Nat] /\ g \in [Workers -> Nat] /\ \A v \in Workers : g[v] <= 1
  BY <1>2, MakersType
<1>4. f[w] = Making(req[w], d, u) /\ g[w] = Making(req'[w], d, u)
  BY <1>2 DEF Makers
<1>5. \A v \in Workers \ {w} : g[v] = f[v]
  BY <1>1, <1>2 DEF Makers
<1>6. Total(g, Workers) = Total(f, Workers) - f[w] + g[w]
  BY <1>3, <1>5, TotalChange, ActorsAssumption
<1>7. Total(g, Workers) <= Cardinality(Workers) * 1
  BY <1>3, TotalBound, ActorsAssumption
<1>8. QED
  BY <1>2, <1>4, <1>6, <1>7, SlackType

\* Only the gate makes a maker; recording a creation unmakes it.
LEMMA MakingStep ==
  ASSUME TypeInv, NEW w \in Workers, ThreadStep(w), ~CreatePass(w), NEW d, NEW u
  PROVE  /\ Making(req'[w], d, u) <= Making(req[w], d, u)
         /\ Recorded(w) /\ req[w].day = d /\ req[w].user = u
              => Making(req'[w], d, u) = 0 /\ Making(req[w], d, u) = 1
<1> DEFINE r == req[w]
           s == req'[w]
<1>1. r \in Request /\ req \in [Workers -> Request] /\ Steady(r)
  BY DEF TypeInv, TypeOK
<1>2. Making(r, d, u) \in {0, 1} /\ Making(s, d, u) \in {0, 1}
  BY DEF Making
<1>3. CASE Settles(w) \/ Recorded(w)
  <2>1. Settled(s)
    BY <1>1, <1>3 DEF Settles, Recorded, Goes
  <2>2. Making(s, d, u) = 0
    BY <2>1 DEF Settled, Fresh, Making
  <2>3. Recorded(w) => r.pc = "record" /\ r.call = "playlists.insert"
    BY <1>1 DEF Recorded, Steady
  <2>4. QED
    BY <1>2, <2>2, <2>3 DEF Making
<1>4. CASE GlobalPass(w)
  <2>1. s.pc = "user"
    BY <1>1, <1>4 DEF GlobalPass, Goes, Request
  <2>2. QED
    BY <1>2, <1>4, <2>1 DEF Making, GlobalPass, Recorded
<1>5. CASE UserPass(w)
  <2>1. s.pc = "creates" \/ s.call # "playlists.insert"
    BY <1>1, <1>5 DEF UserPass, Goes, Begin, Request
  <2>2. QED
    BY <1>2, <1>5, <2>1 DEF Making, UserPass, Recorded
<1>6. CASE Charged(w) \/ Uncharged(w)
  <2>1. r.pc = "reserve" /\ s = Dispatch(r)
    BY <1>1, <1>6 DEF Charged, Uncharged, Goes
  <2>2. s.call = r.call /\ s.day = r.day /\ s.user = r.user /\ s.pc = "sent"
    BY <1>1, <2>1 DEF Dispatch, Request
  <2>3. QED
    BY <1>2, <2>1, <2>2 DEF Making, Recorded
<1>7. CASE Retries(w)
  <2>1. /\ s.call = r.call /\ s.day = r.day /\ s.user = r.user
        /\ r.pc = "sent" /\ s.pc = "reserve"
    BY <1>1, <1>7 DEF Retries, Flown, Goes, Request
  <2>2. QED
    BY <1>2, <2>1 DEF Making, Recorded
<1>8. CASE Creates(w)
  <2>1. /\ s.call = r.call /\ s.day = r.day /\ s.user = r.user
        /\ r.pc = "sent" /\ s.pc = "record"
    BY <1>1, <1>8 DEF Creates, Flown, Goes, Request
  <2>2. QED
    BY <1>2, <2>1 DEF Making, Recorded
<1>9. CASE GoesOn(w)
  <2>1. r.pc = "sent" /\ r.batches > 0 /\ s = NextBatch(r)
    BY <1>1, <1>9 DEF GoesOn, Flown, Goes
  <2>2. s.call = "videos.list"
    BY <1>1, <2>1, NextBatchSteady
  <2>3. QED
    BY <1>2, <2>1, <2>2 DEF Making, Recorded
<1>10. QED
  BY <1>3, <1>4, <1>5, <1>6, <1>7, <1>8, <1>9 DEF ThreadStep

LEMMA CreationThread ==
  ASSUME TypeInv, CreationBudget, NEW w \in Workers, ThreadStep(w),
         NEW d \in Days, NEW u \in Users
  PROVE  created'[d][u] + Total(Makers(req', d, u), Workers)
           < CreateCap + Cardinality(Workers)
<1> DEFINE r == req[w]
           before == Total(Makers(req, d, u), Workers)
           after == Total(Makers(req', d, u), Workers)
           made == Making(r, d, u)
           makes == Making(req'[w], d, u)
<1>1. /\ after = before - made + makes /\ after <= Cardinality(Workers)
      /\ before \in Nat /\ after \in Nat /\ made \in {0, 1} /\ makes \in {0, 1}
  BY MakersStep, MakersType DEF Making
<1>2. /\ created \in Table /\ created[d][u] \in Nat /\ r \in Request /\ Steady(r)
      /\ req \in [Workers -> Request]
  BY DEF TypeInv, TypeOK, Table
<1>3. CreateCap \in Nat /\ Cardinality(Workers) \in Nat
  BY CapsAssumption, SlackType
<1>4. created[d][u] + before < CreateCap + Cardinality(Workers)
  BY DEF CreationBudget
<1>5. CASE CreatePass(w)
  <2>1. created' = created
    BY <1>5 DEF CreatePass
  <2>2. CASE r.day = d /\ r.user = u
    <3>1. created[d][u] < CreateCap
      BY <1>5, <2>2 DEF CreatePass
    <3>2. QED
      BY <1>1, <1>2, <1>3, <2>1, <3>1
  <2>3. CASE ~(r.day = d /\ r.user = u)
    <3>1. req'[w].day = r.day /\ req'[w].user = r.user
      BY <1>2, <1>5 DEF CreatePass, Goes, Begin, Request
    <3>2. makes = 0
      BY <2>3, <3>1 DEF Making
    <3>3. QED
      BY <1>1, <1>2, <1>3, <1>4, <2>1, <3>2
  <2>4. QED
    BY <2>2, <2>3
<1>6. CASE ~CreatePass(w) /\ ~Recorded(w)
  <2>1. makes <= made
    BY <1>6, MakingStep
  <2>2. created' = created
    BY <1>6 DEF ThreadStep, Settles, GlobalPass, UserPass, Charged, Uncharged, Retries,
                GoesOn, Creates
  <2>3. QED
    BY <1>1, <1>2, <1>3, <1>4, <2>1, <2>2
<1>7. CASE Recorded(w)
  <2>1. r.day \in Days /\ r.user \in Users /\ ~CreatePass(w)
    BY <1>2, <1>7 DEF Recorded, Steady, Request, CreatePass
  <2>2. makes <= made
    BY <2>1, MakingStep
  <2>3. CASE r.day = d /\ r.user = u
    <3>1. makes = 0 /\ made = 1
      BY <1>7, <2>1, <2>3, MakingStep
    <3>2. created'[d][u] = created[d][u] + 1
      BY <1>2, <1>7, <2>3 DEF Recorded, Table
    <3>3. QED
      BY <1>1, <1>2, <1>3, <1>4, <3>1, <3>2
  <2>4. CASE ~(r.day = d /\ r.user = u)
    <3>1. created'[d][u] = created[d][u]
      BY <1>2, <1>7, <2>1, <2>4 DEF Recorded, Table
    <3>2. QED
      BY <1>1, <1>2, <1>3, <1>4, <2>2, <3>1
  <2>5. QED
    BY <2>3, <2>4
<1>8. QED
  BY <1>5, <1>6, <1>7

LEMMA CreationStep ==
  ASSUME TypeInv, CreationBudget, [Next]_vars
  PROVE  CreationBudget'
<1>1. CASE \E w \in Workers : ThreadStep(w)
  BY <1>1, CreationThread DEF CreationBudget
<1>2. CASE \E u \in Users : Purges(u)
  <2>1. PICK v \in Users : Purges(v)
    BY <1>2
  <2>2. ASSUME NEW d \in Days, NEW u \in Users
        PROVE  created'[d][u] + Total(Makers(req', d, u), Workers)
                 < CreateCap + Cardinality(Workers)
    <3>1. created \in Table /\ created[d][u] \in Nat
      BY DEF TypeInv, TypeOK, Table
    <3>2. req' = req /\ created' = NoRows(created, v)
      BY <2>1 DEF Purges
    <3>3. created'[d][u] \in Nat /\ created'[d][u] <= created[d][u]
      BY <3>1, <3>2, NoRowsTable
    <3>4. Total(Makers(req, d, u), Workers) \in Nat /\ Cardinality(Workers) \in Nat
      BY MakersType, SlackType
    <3>5. created[d][u] + Total(Makers(req, d, u), Workers)
            < CreateCap + Cardinality(Workers)
      BY DEF CreationBudget
    <3>6. QED
      BY <3>1, <3>2, <3>3, <3>4, <3>5, CapsAssumption
  <2>3. QED
    BY <2>2 DEF CreationBudget
<1>3. CASE DayTurns \/ UNCHANGED vars
  BY <1>3 DEF DayTurns, vars, CreationBudget
<1>4. QED
  BY <1>1, <1>2, <1>3, NextKinds

\* However many restores of one account run side by side, the daily cap on playlists is
\* exceeded only by creations already in flight (ensure_can_create_playlist is asked
\* before the call and record_playlist_created counts after it).
THEOREM FewPlaylists == Spec => []CreatesOvershoot
<1>1. Init => CreationBudget
  <2>1. ASSUME Init, NEW d \in Days, NEW u \in Users
        PROVE  created[d][u] + Total(Makers(req, d, u), Workers)
                 < CreateCap + Cardinality(Workers)
    <3>1. PICK f : f = Makers(req, d, u)
      OBVIOUS
    <3>2. \A w \in Workers : f[w] = 0
      BY <2>1, <3>1 DEF Init, Makers, Making, Idle
    <3>3. Total(f, Workers) = 0
      BY <3>1, <3>2, MakersType, TotalZero, ActorsAssumption
    <3>4. QED
      BY <2>1, <3>1, <3>3, SlackType, CapsAssumption DEF Init
  <2>2. QED
    BY <2>1 DEF CreationBudget
<1>2. TypeInv /\ CreationBudget => CreatesOvershoot
  <2>1. ASSUME TypeInv, CreationBudget, NEW d \in Days, NEW u \in Users
        PROVE  created[d][u] < CreateCap + Cardinality(Workers)
    <3>1. created[d][u] \in Nat
      BY <2>1 DEF TypeInv, TypeOK, Table
    <3>2. QED
      BY <2>1, <3>1, MakersType, SlackType, CapsAssumption DEF CreationBudget
  <2>2. QED
    BY <2>1 DEF CreatesOvershoot
<1>3. QED
  BY TypeInit, TypeStep, CreationStep, <1>1, <1>2, PTL DEF Spec

LEMMA NoRowsStep ==
  ASSUME TypeInv, GoneLeavesNoRows, [Next]_vars
  PROVE  GoneLeavesNoRows'
<1>1. /\ ledger \in Table /\ created \in Table
      /\ account \in [Users -> {"active", "purged", "gone"}]
  BY DEF TypeInv, TypeOK
<1>2. ASSUME NEW w \in Workers, ThreadStep(w), NEW d \in Days, NEW u \in Users,
             account'[u] = "gone"
      PROVE  ledger'[d][u] = 0 /\ created'[d][u] = 0
  <2>1. account' = account
    BY <1>2, ThreadTables
  <2>2. ledger[d][u] = 0 /\ created[d][u] = 0
    BY <1>2, <2>1 DEF GoneLeavesNoRows
  <2>3. CASE Charged(w)
    BY <1>1, <1>2, <2>1, <2>2, <2>3 DEF Charged, Table
  <2>4. CASE Recorded(w)
    BY <1>1, <1>2, <2>1, <2>2, <2>4 DEF Recorded, Table
  <2>5. CASE ~Charged(w) /\ ~Recorded(w)
    BY <1>2, <2>2, <2>5
       DEF ThreadStep, Settles, GlobalPass, UserPass, CreatePass, Uncharged, Retries,
           GoesOn, Creates
  <2>6. QED
    BY <2>3, <2>4, <2>5
<1>3. ASSUME NEW v \in Users, Purges(v), NEW d \in Days, NEW u \in Users,
             account'[u] = "gone"
      PROVE  ledger'[d][u] = 0 /\ created'[d][u] = 0
  <2>1. CASE u = v
    BY <1>1, <1>3, <2>1, NoRowsTable DEF Purges
  <2>2. CASE u # v
    <3>1. account[u] = "gone"
      BY <1>3, <2>2 DEF Purges
    <3>2. ledger[d][u] = 0 /\ created[d][u] = 0
      BY <1>3, <3>1 DEF GoneLeavesNoRows
    <3>3. ledger' = NoRows(ledger, v) /\ created' = NoRows(created, v)
      BY <1>3 DEF Purges
    <3>4. QED
      BY <1>1, <1>3, <2>2, <3>2, <3>3, NoRowsTable
  <2>3. QED
    BY <2>1, <2>2
<1>4. CASE DayTurns \/ UNCHANGED vars
  BY <1>4 DEF DayTurns, vars, GoneLeavesNoRows
<1>5. QED
  BY <1>2, <1>3, <1>4, NextKinds DEF GoneLeavesNoRows

\* Once the second commit of delete_account is in, no restore that was in flight can
\* bring a usage row of the account back.
THEOREM DeletionIsFinal == Spec => []GoneLeavesNoRows
<1>1. Init => GoneLeavesNoRows
  BY DEF Init, GoneLeavesNoRows
<1>2. QED
  BY TypeInit, TypeStep, NoRowsStep, <1>1, PTL DEF Spec

-----------------------------------------------------------------------------
(* The abstract budget.                                                        *)

\* The credit of a thread that only steps aside, and the row it stands for.
Less(s, r, n) ==
  \/ Credit(s).units = 0
  \/ s.day = r.day /\ s.user = r.user /\ Credit(s).units <= Credit(r).units - n

LEMMA LessIsNoMore ==
  ASSUME TypeInv, NEW w \in Workers, NEW s, req' = [req EXCEPT ![w] = s], NEW n,
         Less(s, req[w], n)
  PROVE  Line!NoMore(w, n)
<1>1. req \in [Workers -> Request]
  BY DEF TypeInv, TypeOK
<1>2. req'[w] = s /\ \A v \in Workers \ {w} : req'[v] = req[v]
  BY <1>1
<1>3. Line!OthersKeep(w)
  BY <1>2 DEF Line!OthersKeep
<1> QED
  BY <1>2, <1>3 DEF Line!NoMore, Less, Credit

LEMMA UnitsType ==
  ASSUME NEW r, Steady(r)
  PROVE  Credit(r).units \in Nat
<1>1. Promised(r, {"creates"}) \in 0 .. MostUnits
  BY PromisedBound
<1> QED
  BY <1>1, UnitsBound DEF Credit

\* Steps that neither pass the user's gate nor send an attempt.
LEMMA LapsesLine ==
  ASSUME TypeInv, NEW w \in Workers, Lapses(w) \/ GlobalPass(w)
  PROVE  Line!Lapse(w)
<1> DEFINE r == req[w]
           s == req'[w]
<1>1. Steady(r) /\ r \in Request /\ req \in [Workers -> Request]
  BY DEF TypeInv, TypeOK, Steady
<1>2. req' = [req EXCEPT ![w] = s]
  BY ThreadSteady DEF ThreadStep, Lapses
<1>3. UNCHANGED <<ledger, offbook>>
  BY DEF Lapses, Settles, CreatePass, Retries, GoesOn, Creates, Recorded, GlobalPass
<1>4. Credit(r).units \in Nat
  BY <1>1, UnitsType
<1>5. Less(s, r, 0)
  <2>1. CASE Settles(w) \/ Recorded(w)
    <3>1. Settled(s)
      BY <1>1, <2>1 DEF Settles, Recorded, Goes
    <3> QED
      BY <3>1 DEF Settled, Fresh, Less, Credit, Promised
  <2>2. CASE GlobalPass(w)
    <3>1. s.pc = "user"
      BY <1>1, <2>2 DEF GlobalPass, Goes, Request
    <3> QED
      BY <3>1 DEF Less, Credit, Promised
  <2>3. CASE Creates(w)
    <3>1. s.pc = "record"
      BY <1>1, <2>3 DEF Creates, Goes, Request
    <3> QED
      BY <3>1 DEF Less, Credit, Promised
  <2>4. CASE CreatePass(w)
    <3>1. s = Begin(r, r.call) /\ r.pc = "creates"
      BY <1>1, <2>4 DEF CreatePass, Goes
    <3>2. /\ s.pc = "reserve" /\ s.call = r.call /\ s.left = Attempts(r.call)
          /\ s.user = r.user /\ s.day = r.day /\ s.batches = r.batches
      BY <1>1, <3>1 DEF Begin, Request
    <3>3. r.call = "playlists.insert" /\ r.call \in Methods
      BY <1>1, <3>1 DEF Steady
    <3>4. Attempts(r.call) * Asked(r)
            = Attempts(r.call) * Cost(r.call) + Attempts(r.call) * (r.batches * ListCost)
      BY <1>1, <3>3, AskedBound
    <3>5. Credit(s).units = Credit(r).units
      BY <3>1, <3>2, <3>3, <3>4 DEF Credit, Promised
    <3> QED
      BY <1>4, <3>2, <3>5 DEF Less
  <2>5. CASE Retries(w)
    <3>1. s = [r EXCEPT !.pc = "reserve"] /\ r.pc = "sent"
      BY <1>1, <2>5 DEF Retries, Flown, Goes
    <3>2. /\ s.pc = "reserve" /\ s.call = r.call /\ s.left = r.left
          /\ s.user = r.user /\ s.day = r.day /\ s.batches = r.batches
      BY <1>1, <3>1 DEF Request
    <3>3. Credit(s).units = Credit(r).units
      BY <3>1, <3>2 DEF Credit, Promised
    <3> QED
      BY <1>4, <3>2, <3>3 DEF Less
  <2>6. CASE GoesOn(w)
    <3>1. s = NextBatch(r) /\ r.pc = "sent" /\ r.batches > 0
      BY <1>1, <2>6 DEF GoesOn, Flown, Goes
    <3>2. s.day = r.day /\ s.user = r.user
      BY <1>1, <3>1, NextBatchSteady
    <3>3. {"creates"} \in SUBSET {"user", "creates"}
      OBVIOUS
    <3>4. Credit(s).units <= Credit(r).units
      BY <1>1, <3>1, <3>3, NextBatchOwes DEF Credit
    <3> QED
      BY <1>4, <3>2, <3>4 DEF Less
  <2> QED
    BY <2>1, <2>2, <2>3, <2>4, <2>5, <2>6 DEF Lapses
<1> QED
  BY <1>2, <1>3, <1>5, LessIsNoMore DEF Line!Lapse

\* What is asked for is one call, or the batches of a validation.
LEMMA AskedIsCredit ==
  ASSUME NEW r, Steady(r), r.call \in Methods
  PROVE  Asked(r) \in {InsertCost} \cup {n * ListCost : n \in 1 .. MostBatches}
<1>1. r.batches \in Nat /\ r.batches < MostBatches /\ MostBatches \in Nat
  BY BatchesBound DEF Steady, Request
<1>2. ListCost \in Nat /\ InsertCost \in Nat
  BY CapsAssumption
<1>3. CASE r.call \in Inserts
  <2>1. r.batches = 0
    BY <1>1, <1>3 DEF Steady, Inserts
  <2> QED
    BY <1>2, <1>3, <2>1 DEF Asked, Cost
<1>4. CASE r.call \notin Inserts
  <2>1. PICK b \in 1 .. MostBatches : b = r.batches + 1
    BY <1>1
  <2>2. Asked(r) = ListCost + r.batches * ListCost
    BY <1>4 DEF Asked, Cost
  <2>3. Asked(r) = b * ListCost
    BY <1>1, <1>2, <2>1, <2>2
  <2> QED
    BY <2>1, <2>3
<1> QED
  BY <1>3, <1>4

\* The user's gate grants a credit, except to the mirror sync, which never asks for one.
LEMMA UserPassLine ==
  ASSUME TypeInv, NEW w \in Workers, UserPass(w)
  PROVE  Line!Grant(w) \/ Line!Lapse(w)
<1> DEFINE r == req[w]
           s == req'[w]
           c == Asked(r)
<1>1. /\ Steady(r) /\ r \in Request /\ req \in [Workers -> Request] /\ r.pc = "user"
      /\ r.user \in Users /\ r.day \in Days /\ r.call \in Methods
  BY DEF TypeInv, TypeOK, Steady, UserPass, Request
<1>2. req' = [req EXCEPT ![w] = s]
  BY ThreadSteady DEF ThreadStep
<1>3. UNCHANGED <<ledger, offbook>> /\ ledger[r.day][r.user] + c <= UserCap
  BY DEF UserPass
<1>4. ASSUME s.day = r.day, s.user = r.user, Credit(s).units = Attempts(r.call) * c
      PROVE  Line!Grant(w)
  <2>1. Line!OthersKeep(w)
    BY <1>1, <1>2 DEF Line!OthersKeep
  <2>2. /\ c \in {InsertCost} \cup {n * ListCost : n \in 1 .. MostBatches}
        /\ Attempts(r.call) \in 1 .. MostAttempts
    BY <1>1, AskedIsCredit, AttemptsBound
  <2>3. /\ Credit(s).day = r.day /\ Credit(s).user = r.user
    BY <1>4 DEF Credit
  <2> QED
    BY <1>1, <1>3, <1>4, <2>1, <2>2, <2>3 DEF Line!Grant
<1>5. CASE r.call = "playlists.insert" /\ Goes(w, [r EXCEPT !.pc = "creates"])
  <2>1. /\ s.pc = "creates" /\ s.call = r.call /\ s.day = r.day /\ s.user = r.user
        /\ s.batches = r.batches
    BY <1>1, <1>5 DEF Goes, Request
  <2>2. Credit(s).units = Attempts(r.call) * c
    BY <2>1 DEF Credit, Promised, Asked
  <2> QED
    BY <1>4, <2>1, <2>2
<1>6. CASE r.call # "playlists.insert" /\ Goes(w, Begin(r, r.call))
  <2>1. /\ s.pc = "reserve" /\ s.call = r.call /\ s.day = r.day /\ s.user = r.user
        /\ s.left = Attempts(r.call) /\ s.batches = r.batches
    BY <1>1, <1>6 DEF Goes, Request, Begin
  <2>2. CASE r.call # "playlistItems.list"
    <3>1. Attempts(r.call) * c
            = Attempts(r.call) * Cost(r.call) + Attempts(r.call) * (r.batches * ListCost)
      BY <1>1, AskedBound
    <3>2. Credit(s).units = Attempts(r.call) * c
      BY <2>1, <2>2, <3>1 DEF Credit, Promised
    <3> QED
      BY <1>4, <2>1, <3>2
  <2>3. CASE r.call = "playlistItems.list"
    <3>1. Credit(s).units = 0
      BY <2>1, <2>3 DEF Credit, Promised
    <3>2. Line!NoMore(w, 0)
      BY <1>2, <3>1, LessIsNoMore DEF Less
    <3> QED
      BY <1>3, <3>2 DEF Line!Lapse
  <2> QED
    BY <2>2, <2>3
<1> QED
  BY <1>5, <1>6 DEF UserPass

\* An attempt uses its part of the credit up, whether it is charged there or not.
LEMMA DispatchLess ==
  ASSUME TypeInv, NEW w \in Workers, req[w].pc = "reserve", Goes(w, Dispatch(req[w]))
  PROVE  /\ Less(req'[w], req[w], 0)
         /\ req[w].call # "playlistItems.list" =>
              /\ Less(req'[w], req[w], Cost(req[w].call))
              /\ Cost(req[w].call) <= Credit(req[w]).units
<1> DEFINE r == req[w]
           s == req'[w]
           k == r.left
           c == Cost(r.call)
           x == Attempts(r.call) * (r.batches * ListCost)
<1>1. r \in Request /\ Steady(r) /\ req \in [Workers -> Request] /\ k \in Nat /\ k > 0
  BY DEF TypeInv, TypeOK, Steady, Request
<1>2. /\ s.pc = "sent" /\ s.call = r.call /\ s.day = r.day /\ s.user = r.user
      /\ s.left = k - 1 /\ s.batches = r.batches
  BY <1>1 DEF Goes, Request, Dispatch
<1>3. c \in Nat /\ k * c \in Nat /\ (k - 1) * c = k * c - c /\ x \in Nat
  BY <1>1, CostType, AskedBound DEF Steady
<1>4. CASE r.call = "playlistItems.list"
  BY <1>2, <1>4 DEF Less, Credit, Promised
<1>5. CASE r.call # "playlistItems.list"
  <2>1. Credit(r).units = k * c + x /\ Credit(s).units = k * c - c + x
    BY <1>2, <1>3, <1>5 DEF Credit, Promised
  <2>2. c <= k * c
    <3>1. 1 * c <= k * c
      BY <1>1, <1>3, TimesMonotonic
    <3> QED
      BY <1>3, <3>1
  <2> QED
    BY <1>2, <1>3, <2>1, <2>2 DEF Less
<1> QED
  BY <1>4, <1>5

LEMMA ChargedLine ==
  ASSUME TypeInv, NEW w \in Workers, Charged(w)
  PROVE  Line!Spend(w) \/ Line!SpendUnchecked(w)
<1> DEFINE r == req[w]
           c == Cost(r.call)
<1>1. /\ req' = [req EXCEPT ![w] = req'[w]] /\ r.pc = "reserve" /\ Goes(w, Dispatch(r))
      /\ today \in Days /\ r.user \in Users /\ c \in {InsertCost, ListCost}
  BY ThreadSteady DEF ThreadStep, Charged, TypeInv, TypeOK, Steady, Cost
<1>2. ledger' = Line!Add(ledger, today, r.user, c)
  BY DEF Charged, Line!Add
<1>3. CASE Checked(r, today)
  <2>1. Line!NoMore(w, c) /\ c <= Credit(r).units
    BY <1>1, <1>3, DispatchLess, LessIsNoMore DEF Checked
  <2>2. Credit(r).day = today /\ Credit(r).user = r.user
    BY <1>3 DEF Checked, Credit
  <2>3. offbook' = offbook
    <3>1. offbook \in Table
      BY DEF TypeInv, TypeOK
    <3>2. offbook' = [offbook EXCEPT ![today][r.user] = @ + 0]
      BY <1>3 DEF Charged
    <3> QED
      BY <1>1, <3>1, <3>2 DEF Table
  <2> QED
    BY <1>1, <1>2, <2>1, <2>2, <2>3 DEF Line!Spend
<1>4. CASE ~Checked(r, today)
  <2>1. Line!NoMore(w, 0)
    BY <1>1, DispatchLess, LessIsNoMore
  <2>2. offbook' = Line!Add(offbook, today, r.user, c)
    BY <1>4 DEF Charged, Line!Add
  <2> QED
    BY <1>1, <1>2, <2>1, <2>2 DEF Line!SpendUnchecked
<1> QED
  BY <1>3, <1>4

LEMMA UnchargedLine ==
  ASSUME TypeInv, NEW w \in Workers, Uncharged(w)
  PROVE  Line!Lapse(w)
<1>1. /\ req' = [req EXCEPT ![w] = req'[w]] /\ UNCHANGED <<ledger, offbook>>
      /\ req[w].pc = "reserve" /\ Goes(w, Dispatch(req[w]))
  BY ThreadSteady DEF ThreadStep, Uncharged
<1> QED
  BY <1>1, DispatchLess, LessIsNoMore DEF Line!Lapse

LEMMA LineStep ==
  ASSUME TypeInv, [Next]_vars
  PROVE  [Line!Next]_(Line!vars)
<1>1. ASSUME NEW w \in Workers, ThreadStep(w)
      PROVE  Line!Lapse(w) \/ Line!Grant(w) \/ Line!Spend(w) \/ Line!SpendUnchecked(w)
  BY <1>1, LapsesLine, UserPassLine, ChargedLine, UnchargedLine DEF ThreadStep, Lapses
<1>2. CASE \E w \in Workers : ThreadStep(w)
  BY <1>1, <1>2 DEF Line!Next
<1>3. CASE \E u \in Users : Purges(u)
  BY <1>3 DEF Purges, NoRows, Line!Next, Line!Void
<1>4. CASE DayTurns \/ UNCHANGED vars
  BY <1>4 DEF DayTurns, vars, Line!vars
<1> QED
  BY <1>2, <1>3, <1>4, NextKinds

\* For any caps, costs, threads and accounts the ledger is a budget with bounded credit:
\* the two reads, the upsert and the deletion of rows do, between them, nothing else.
THEOREM BudgetImplemented == Spec => ImplementsBudget
<1>1. ASSUME Init PROVE Line!Init
  <2>1. \A w \in Workers : Credit(req[w]).units = 0
    BY <1>1 DEF Init, Idle, Credit, Promised
  <2> QED
    BY <1>1, <2>1 DEF Init, Line!Init, Line!Nothing
<1> QED
  BY TypeInit, TypeStep, LineStep, <1>1, PTL DEF Spec, ImplementsBudget, Line!Spec

-----------------------------------------------------------------------------
(* A restore winds down: each step uses up a part of what it has before it.    *)

Prices == [step : Nat, insert : Nat, list : Nat]

LEMMA StepsAndUnits == Steps \in Prices /\ Units \in Prices
BY CapsAssumption DEF Steps, Units, Prices

\* All prices are natural, and the parts of a pass add up.
LEMMA PriceTypes ==
  ASSUME NEW p \in Prices
  PROVE  /\ p.step \in Nat
         /\ \A m : AnswerPrice(p, m) \in Nat
         /\ \A m \in Methods : CallPrice(p, m) \in Nat /\ GatedPrice(p, m) \in Nat
         /\ \A n \in Nat : /\ InsertsPrice(p, n) \in Nat /\ SyncPrice(p, n) \in Nat
                           /\ BatchesPrice(p, n) \in Nat
         /\ FillPrice(p) \in Nat /\ FindPrice(p) \in Nat /\ PassPrice(p) \in Nat
<1>1. p.step \in Nat /\ \A m : AnswerPrice(p, m) \in Nat
  BY DEF Prices, AnswerPrice
<1>2. ASSUME NEW m \in Methods
      PROVE  CallPrice(p, m) \in Nat /\ GatedPrice(p, m) \in Nat
  <2>1. Attempts(m) \in Nat /\ p.step + AnswerPrice(p, m) \in Nat
    BY <1>1, AttemptsBound
  <2>2. CallPrice(p, m) \in Nat
    BY <2>1, TimesMonotonic DEF CallPrice
  <2> QED BY <1>1, <2>2 DEF GatedPrice
<1>3. ASSUME NEW n \in Nat
      PROVE  InsertsPrice(p, n) \in Nat /\ SyncPrice(p, n) \in Nat /\ BatchesPrice(p, n) \in Nat
  <2>1. /\ GatedPrice(p, "playlistItems.insert") \in Nat
        /\ CallPrice(p, "playlistItems.list") \in Nat /\ CallPrice(p, "videos.list") \in Nat
    BY <1>2 DEF Methods, Inserts, Lists
  <2> QED BY <2>1, TimesMonotonic DEF InsertsPrice, SyncPrice, BatchesPrice
<1>4. FillPrice(p) \in Nat
  <2>1. BatchesPrice(p, MostBatches) \in Nat /\ InsertsPrice(p, MaxTracks) \in Nat
    BY <1>3, BoundsAssumption, BatchesBound
  <2> QED BY <1>1, <2>1 DEF FillPrice
<1>5. FindPrice(p) \in Nat
  <2>1. MakePrice(p) \in Nat /\ SyncPrice(p, MaxPages) \in Nat
    BY <1>1, <1>2, <1>3, BoundsAssumption DEF MakePrice, Methods, Inserts
  <2> QED BY <2>1 DEF FindPrice
<1>6. PassPrice(p) \in Nat
  <2>1. GatedPrice(p, "playlists.list") \in Nat
    BY <1>2 DEF Methods, Lists
  <2> QED BY <1>1, <1>4, <1>5, <2>1 DEF PassPrice
<1> QED BY <1>1, <1>2, <1>3, <1>4, <1>5, <1>6

\* One track more, one page more, one batch more.
LEMMA OneMore ==
  ASSUME NEW p \in Prices, NEW n \in Nat, NEW k \in Nat, n <= k
  PROVE  /\ InsertsPrice(p, n + 1) = InsertsPrice(p, n) + GatedPrice(p, "playlistItems.insert")
         /\ SyncPrice(p, n + 1) = SyncPrice(p, n) + CallPrice(p, "playlistItems.list")
         /\ BatchesPrice(p, n + 1) = BatchesPrice(p, n) + CallPrice(p, "videos.list")
         /\ InsertsPrice(p, n) <= InsertsPrice(p, k)
         /\ BatchesPrice(p, n) <= BatchesPrice(p, k)
<1>1. PICK g \in Nat, c \in Nat, v \in Nat :
        /\ g = GatedPrice(p, "playlistItems.insert") /\ c = CallPrice(p, "playlistItems.list")
        /\ v = CallPrice(p, "videos.list")
  BY PriceTypes DEF Methods, Inserts, Lists
<1>2. (n + 1) * g = n * g + g /\ (n + 1) * c = n * c + c /\ (n + 1) * v = n * v + v
  OBVIOUS
<1>3. n * g <= k * g /\ n * v <= k * v
  BY TimesMonotonic
<1> QED BY <1>1, <1>2, <1>3 DEF InsertsPrice, SyncPrice, BatchesPrice

\* Finding a playlist pays for either way.
LEMMA FindPays ==
  ASSUME NEW p \in Prices
  PROVE  /\ SyncPrice(p, MaxPages) <= FindPrice(p)
         /\ GatedPrice(p, "playlists.insert") + p.step <= FindPrice(p)
<1>1. SyncPrice(p, MaxPages) \in Nat /\ MakePrice(p) \in Nat
  BY PriceTypes, BoundsAssumption DEF MakePrice, Methods, Inserts
<1> QED BY <1>1 DEF FindPrice, MakePrice

\* What may follow a call is natural.
LEMMA AfterType ==
  ASSUME NEW p \in Prices, NEW m \in Methods, NEW n \in Nat, NEW k \in Nat,
         m = "playlistItems.insert" => n > 0
  PROVE  AfterPrice(p, m, n, k) \in Nat
<1>1. k < MaxPages => SyncPrice(p, MaxPages - k) \in Nat
  <2>1. k < MaxPages => MaxPages - k \in Nat
    BY BoundsAssumption
  <2> QED BY <2>1, PriceTypes
<1>2. m = "playlistItems.insert" => InsertsPrice(p, n - 1) \in Nat
  <2>1. m = "playlistItems.insert" => n - 1 \in Nat
    OBVIOUS
  <2> QED BY <2>1, PriceTypes
<1> QED BY <1>1, <1>2, PriceTypes DEF AfterPrice, Methods, Inserts, Lists

\* With no batches to come, that is all.
LEMMA NoBatches ==
  ASSUME NEW p \in Prices, NEW r, r.batches = 0, AfterPrice(p, r.call, r.todo, r.pages) \in Nat
  PROVE  Following(p, r) = AfterPrice(p, r.call, r.todo, r.pages)
<1>1. PICK c \in Nat : c = CallPrice(p, "videos.list")
  BY PriceTypes DEF Methods, Lists
<1>2. BatchesPrice(p, r.batches) = 0
  <2>1. 0 * c = 0
    OBVIOUS
  <2> QED BY <1>1, <2>1 DEF BatchesPrice
<1> QED BY <1>2 DEF Following

\* The passes a restore still has.
PassesPrice(p, r) == (MAX_PLAYLIST_RESOLUTION_ATTEMPTS - r.pass) * PassPrice(p)

LEMMA PassesType ==
  ASSUME NEW p \in Prices, NEW r \in Request
  PROVE  /\ PassesPrice(p, r) \in Nat
         /\ r.pass < MAX_PLAYLIST_RESOLUTION_ATTEMPTS =>
              PassesPrice(p, r) =
                PassPrice(p) + (MAX_PLAYLIST_RESOLUTION_ATTEMPTS - (r.pass + 1)) * PassPrice(p)
<1>1. r.pass \in {0, 1, 2} /\ MAX_PLAYLIST_RESOLUTION_ATTEMPTS = 2
  BY DEF Request, MAX_PLAYLIST_RESOLUTION_ATTEMPTS
<1>2. PICK c \in Nat : c = PassPrice(p)
  BY PriceTypes
<1>3. (2 - 0) * c = c + (2 - 1) * c /\ (2 - 1) * c = c + (2 - 2) * c /\ (2 - 2) * c = 0
  OBVIOUS
<1> QED BY <1>1, <1>2, <1>3 DEF PassesPrice

LEMMA AheadIdle ==
  ASSUME NEW p
  PROVE  Ahead(p, Idle) = 0
BY DEF Ahead, Idle

\* Before the gates of a call, and in its loop.
LEMMA OpenGateAhead ==
  ASSUME NEW p \in Prices, NEW r \in Request, NEW m \in Methods, NEW d,
         m = "playlistItems.insert" => r.todo > 0
  PROVE  Ahead(p, OpenGate(r, m, d)) =
           PassesPrice(p, r) + (3 * p.step + CallPrice(p, m) + AfterPrice(p, m, r.todo, r.pages))
<1> DEFINE s == OpenGate(r, m, d)
<1>1. /\ s.pc = "global" /\ s.call = m /\ s.todo = r.todo /\ s.pages = r.pages
      /\ s.pass = r.pass /\ s.batches = 0
  BY DEF OpenGate, Request
<1>2. AfterPrice(p, m, r.todo, r.pages) \in Nat
  BY AfterType DEF Request
<1>3. Following(p, s) = AfterPrice(p, m, r.todo, r.pages)
  <2>1. Following(p, s) = AfterPrice(p, s.call, s.todo, s.pages)
    BY <1>1, <1>2, NoBatches
  <2> QED BY <1>1, <2>1
<1>4. AheadNow(p, s) = 3 * p.step + CallPrice(p, m) + AfterPrice(p, m, r.todo, r.pages)
  BY <1>1, <1>3 DEF AheadNow, Gates
<1> QED BY <1>1, <1>4 DEF Ahead, PassesPrice

LEMMA BeginAhead ==
  ASSUME NEW p \in Prices, NEW r \in Request, NEW m \in Methods, NEW k \in Nat,
         NEW s, s = Begin([r EXCEPT !.pages = k], m), r.batches = 0,
         m = "playlistItems.insert" => r.todo > 0
  PROVE  Ahead(p, s) = PassesPrice(p, r) + (CallPrice(p, m) + AfterPrice(p, m, r.todo, k))
<1>1. /\ s.pc = "reserve" /\ s.call = m /\ s.todo = r.todo /\ s.pages = k
      /\ s.pass = r.pass /\ s.left = Attempts(m) /\ s.batches = 0
  BY DEF Begin, Request
<1>2. AfterPrice(p, m, r.todo, k) \in Nat /\ CallPrice(p, m) \in Nat
  BY AfterType, PriceTypes DEF Request
<1>3. Following(p, s) = AfterPrice(p, m, r.todo, k)
  <2>1. Following(p, s) = AfterPrice(p, s.call, s.todo, s.pages)
    BY <1>1, <1>2, NoBatches
  <2> QED BY <1>1, <2>1
<1>4. AheadNow(p, s) = CallPrice(p, m) + AfterPrice(p, m, r.todo, k)
  <2>1. AheadNow(p, s) = CallPrice(p, m) + AfterPrice(p, m, r.todo, k) + 0
    BY <1>1, <1>3 DEF AheadNow, Gates, CallPrice
  <2> QED BY <1>2, <2>1
<1> QED BY <1>1, <1>4 DEF Ahead, PassesPrice

\* Thread s has before it no more than the passes of r and n besides.
Fits(p, r, s, n) == Ahead(p, s) \in Nat /\ Ahead(p, s) <= PassesPrice(p, r) + n

LEMMA IdleFits ==
  ASSUME NEW p \in Prices, NEW r \in Request, NEW n \in Nat
  PROVE  Fits(p, r, Idle, n)
BY AheadIdle, PassesType DEF Fits

LEMMA InsertNextAhead ==
  ASSUME NEW p \in Prices, NEW r \in Request, NEW n \in Nat
  PROVE  Fits(p, r, InsertNext(r, n), InsertsPrice(p, n))
<1>1. InsertsPrice(p, n) \in Nat /\ PassesPrice(p, r) \in Nat
  BY PriceTypes, PassesType
<1>2. CASE n = 0
  BY <1>1, <1>2, IdleFits DEF InsertNext
<1>3. CASE n > 0
  <2> DEFINE q == [r EXCEPT !.todo = n]
             s == OpenGate(q, "playlistItems.insert", r.passDay)
             m == "playlistItems.insert"
  <2>1. q \in Request /\ q.todo = n /\ q.pages = r.pages /\ q.pass = r.pass
    BY DEF Request
  <2>2. Ahead(p, s) = PassesPrice(p, q) +
                        (3 * p.step + CallPrice(p, m) + AfterPrice(p, m, n, r.pages))
    BY <1>3, <2>1, OpenGateAhead DEF Methods, Inserts
  <2>3. PassesPrice(p, q) = PassesPrice(p, r)
    BY <2>1 DEF PassesPrice
  <2>4. AfterPrice(p, m, n, r.pages) = InsertsPrice(p, n - 1)
    BY DEF AfterPrice
  <2>5. InsertsPrice(p, n) = InsertsPrice(p, n - 1) + GatedPrice(p, m)
    <3>1. n - 1 \in Nat /\ n - 1 <= n - 1 /\ (n - 1) + 1 = n
      BY <1>3
    <3>2. InsertsPrice(p, (n - 1) + 1) = InsertsPrice(p, n - 1) + GatedPrice(p, m)
      BY <3>1, OneMore
    <3> QED BY <3>1, <3>2
  <2>6. p.step \in Nat /\ CallPrice(p, m) \in Nat /\ InsertsPrice(p, n - 1) \in Nat
    <3>1. n - 1 \in Nat
      BY <1>3
    <3> QED BY <3>1, PriceTypes DEF Methods, Inserts
  <2>7. Ahead(p, s) = PassesPrice(p, r) + InsertsPrice(p, n)
    BY <2>2, <2>3, <2>4, <2>5, <2>6, <1>1 DEF GatedPrice
  <2> QED BY <1>1, <1>3, <2>7 DEF Fits, InsertNext
<1> QED BY <1>2, <1>3

LEMMA PlannedAhead ==
  ASSUME NEW p \in Prices, NEW r \in Request, NEW s \in Planned(r)
  PROVE  Fits(p, r, s, FillPrice(p))
<1> DEFINE m == "videos.list"
<1>1. PICK n \in 0 .. MaxTracks :
         s = IF n > 0 /\ Validate THEN OpenValidation(r, n) ELSE InsertNext(r, n)
  BY DEF Planned
<1>2. /\ n \in Nat /\ InsertsPrice(p, n) \in Nat /\ InsertsPrice(p, MaxTracks) \in Nat
      /\ InsertsPrice(p, n) <= InsertsPrice(p, MaxTracks)
  BY OneMore, PriceTypes, BoundsAssumption
<1>3. /\ p.step \in Nat /\ PassesPrice(p, r) \in Nat
      /\ BatchesPrice(p, MostBatches) \in Nat
  BY PriceTypes, PassesType, BatchesBound
<1>4. CASE n > 0 /\ Validate
  <2> DEFINE b == Batches(n) - 1
  <2>1. b \in Nat /\ b + 1 = Batches(n) /\ Batches(n) \in Nat /\ Batches(n) <= MostBatches
    BY <1>4, BatchesBound
  <2>2. /\ BatchesPrice(p, Batches(n)) = BatchesPrice(p, b) + CallPrice(p, m)
        /\ BatchesPrice(p, Batches(n)) <= BatchesPrice(p, MostBatches)
        /\ BatchesPrice(p, b) \in Nat /\ CallPrice(p, m) \in Nat
    <3>1. BatchesPrice(p, b + 1) = BatchesPrice(p, b) + CallPrice(p, m)
      BY <2>1, OneMore
    <3>2. BatchesPrice(p, Batches(n)) <= BatchesPrice(p, MostBatches)
      BY <2>1, OneMore, BatchesBound
    <3> QED BY <2>1, <3>1, <3>2, PriceTypes DEF Methods, Lists
  <2>3. /\ s.pc = "global" /\ s.call = m /\ s.todo = n /\ s.pages = r.pages
        /\ s.pass = r.pass /\ s.batches = b
    BY <1>1, <1>2, <1>4 DEF OpenValidation, OpenGate, Request
  <2>4. Following(p, s) = BatchesPrice(p, b) + InsertsPrice(p, n)
    BY <2>3 DEF Following, AfterPrice
  <2>5. Ahead(p, s) =
          PassesPrice(p, r) + (3 * p.step + CallPrice(p, m) + (BatchesPrice(p, b) + InsertsPrice(p, n)))
    BY <2>3, <2>4 DEF Ahead, AheadNow, Gates, PassesPrice
  <2>6. FillPrice(p) = InsertsPrice(p, MaxTracks) + (3 * p.step + BatchesPrice(p, MostBatches))
    BY <1>4 DEF FillPrice
  <2> QED BY <1>2, <1>3, <2>2, <2>5, <2>6 DEF Fits
<1>5. CASE ~(n > 0 /\ Validate)
  <2>1. Fits(p, r, s, InsertsPrice(p, n))
    BY <1>1, <1>2, <1>5, InsertNextAhead
  <2>2. InsertsPrice(p, MaxTracks) <= FillPrice(p) /\ FillPrice(p) \in Nat
    BY <1>2, <1>3, PriceTypes DEF FillPrice
  <2> QED BY <1>2, <1>3, <2>1, <2>2 DEF Fits
<1> QED BY <1>4, <1>5

\* A page, with those that may follow it.
LEMMA SyncAhead ==
  ASSUME NEW p \in Prices, NEW r \in Request, r.batches = 0, NEW k \in 1 .. MaxPages,
         NEW s, s = Begin([r EXCEPT !.pages = k], "playlistItems.list")
  PROVE  Fits(p, r, s, FillPrice(p) + SyncPrice(p, MaxPages - k + 1))
<1> DEFINE m == "playlistItems.list"
<1>1. k \in Nat /\ MaxPages - k \in Nat
  BY BoundsAssumption
<1>2. Ahead(p, s) = PassesPrice(p, r) + (CallPrice(p, m) + AfterPrice(p, m, r.todo, k))
  BY <1>1, BeginAhead DEF Methods, Lists
<1>3. AfterPrice(p, m, r.todo, k) = FillPrice(p) + SyncPrice(p, MaxPages - k)
  <2>1. CallPrice(p, m) \in Nat /\ FillPrice(p) \in Nat
    BY PriceTypes DEF Methods, Lists
  <2>2. AfterPrice(p, m, r.todo, k) =
          FillPrice(p) + IF k < MaxPages THEN SyncPrice(p, MaxPages - k) ELSE 0
    BY DEF AfterPrice
  <2>3. CASE k < MaxPages
    BY <2>2, <2>3
  <2>4. CASE ~(k < MaxPages)
    <3>1. MaxPages - k = 0
      BY <2>4, <1>1, BoundsAssumption
    <3>2. SyncPrice(p, 0) = 0
      BY <2>1 DEF SyncPrice
    <3> QED BY <2>2, <2>4, <3>1, <3>2
  <2> QED BY <2>3, <2>4
<1>4. SyncPrice(p, MaxPages - k + 1) = SyncPrice(p, MaxPages - k) + CallPrice(p, m)
  BY <1>1, OneMore
<1>5. /\ CallPrice(p, m) \in Nat /\ FillPrice(p) \in Nat /\ SyncPrice(p, MaxPages - k) \in Nat
      /\ PassesPrice(p, r) \in Nat
  BY <1>1, PriceTypes, PassesType DEF Methods, Lists
<1> QED BY <1>2, <1>3, <1>4, <1>5 DEF Fits

LEMMA ReusedAhead ==
  ASSUME NEW p \in Prices, NEW r \in Request, r.batches = 0, NEW s \in Reused(r)
  PROVE  Fits(p, r, s, FindPrice(p) + FillPrice(p))
<1>1. /\ FindPrice(p) \in Nat /\ FillPrice(p) \in Nat /\ PassesPrice(p, r) \in Nat
      /\ SyncPrice(p, MaxPages) \in Nat
  BY PriceTypes, PassesType, BoundsAssumption
<1>2. CASE s \in Planned(r)
  BY <1>1, <1>2, PlannedAhead DEF Fits
<1>3. CASE MaxPages > 0 /\ s = Begin([r EXCEPT !.pages = 1], "playlistItems.list")
  <2>1. 1 \in 1 .. MaxPages /\ MaxPages - 1 + 1 = MaxPages
    BY <1>3, BoundsAssumption
  <2>2. Fits(p, r, s, FillPrice(p) + SyncPrice(p, MaxPages - 1 + 1))
    BY <1>3, <2>1, SyncAhead
  <2>3. Fits(p, r, s, FillPrice(p) + SyncPrice(p, MaxPages))
    BY <2>1, <2>2
  <2> QED BY <1>1, <2>3, FindPays DEF Fits
<1> QED BY <1>2, <1>3 DEF Reused

LEMMA CreateAhead ==
  ASSUME NEW p \in Prices, NEW r \in Request, NEW d
  PROVE  Fits(p, r, OpenGate(r, "playlists.insert", d), FindPrice(p) + FillPrice(p))
<1> DEFINE m == "playlists.insert"
<1>1. Ahead(p, OpenGate(r, m, d)) =
        PassesPrice(p, r) + (3 * p.step + CallPrice(p, m) + AfterPrice(p, m, r.todo, r.pages))
  BY OpenGateAhead DEF Methods, Inserts
<1>2. AfterPrice(p, m, r.todo, r.pages) = p.step + FillPrice(p)
  BY DEF AfterPrice
<1>3. /\ FindPrice(p) \in Nat /\ FillPrice(p) \in Nat /\ PassesPrice(p, r) \in Nat
      /\ p.step \in Nat /\ CallPrice(p, m) \in Nat
  BY PriceTypes, PassesType DEF Methods, Inserts
<1>4. 3 * p.step + CallPrice(p, m) + p.step <= FindPrice(p)
  BY FindPays DEF GatedPrice
<1> QED BY <1>1, <1>2, <1>3, <1>4 DEF Fits

LEMMA FollowingType ==
  ASSUME NEW p \in Prices, NEW r, Steady(r),
         r.pc \in {"global", "user", "creates", "reserve", "sent"}
  PROVE  /\ r \in Request /\ r.call \in Methods /\ r.todo \in Nat /\ r.pages \in Nat
         /\ r.call = "playlistItems.insert" => r.todo - 1 \in Nat
         /\ Following(p, r) \in Nat
         /\ AfterPrice(p, r.call, r.todo, r.pages) \in Nat
         /\ AfterPrice(p, r.call, r.todo, r.pages) <= Following(p, r)
         /\ r.call # "videos.list" =>
              r.batches = 0 /\ Following(p, r) = AfterPrice(p, r.call, r.todo, r.pages)
<1>1. r \in Request /\ r.call \in Methods /\ r.todo \in Nat /\ r.pages \in Nat
  BY DEF Steady, Request
<1>2. r.call = "playlistItems.insert" => r.todo > 0
  BY DEF Steady, Methods, Inserts
<1>3. r.call = "playlistItems.insert" => r.todo - 1 \in Nat
  BY <1>1, <1>2
<1>4. AfterPrice(p, r.call, r.todo, r.pages) \in Nat
  BY <1>1, <1>2, AfterType
<1>5. r.batches \in Nat /\ BatchesPrice(p, r.batches) \in Nat
  BY <1>1, PriceTypes DEF Request
<1>6. r.call # "videos.list" => r.batches = 0
  BY <1>5 DEF Steady
<1>7. r.batches = 0 => Following(p, r) = AfterPrice(p, r.call, r.todo, r.pages)
  BY <1>4, NoBatches
<1> QED BY <1>1, <1>3, <1>4, <1>5, <1>6, <1>7 DEF Following

\* What a thread has before it, by what it is about to do.
LEMMA AheadForms ==
  ASSUME NEW p \in Prices, NEW r, Steady(r)
  PROVE  /\ r.pc = "idle" => Ahead(p, r) = 0
         /\ r.pc = "resolve" => Ahead(p, r) = PassesPrice(p, r) + PassPrice(p)
         /\ r.pc = "record" => Ahead(p, r) = PassesPrice(p, r) + (p.step + FillPrice(p))
         /\ r.pc \in {"global", "user", "creates"} =>
              Ahead(p, r) = PassesPrice(p, r) +
                              (Gates[r.pc] * p.step + CallPrice(p, r.call) + Following(p, r))
         /\ r.pc = "reserve" =>
              Ahead(p, r) = PassesPrice(p, r) +
                              (r.left * (p.step + AnswerPrice(p, r.call)) + Following(p, r))
         /\ r.pc = "sent" =>
              Ahead(p, r) = PassesPrice(p, r) +
                              (r.left * (p.step + AnswerPrice(p, r.call)) + Following(p, r)
                                 + AnswerPrice(p, r.call))
<1>1. r.pc = "reserve" => /\ r.left * (p.step + AnswerPrice(p, r.call)) \in Nat
                          /\ Following(p, r) \in Nat
  <2>1. r.left \in Nat /\ p.step + AnswerPrice(p, r.call) \in Nat
    BY PriceTypes DEF Steady, Request
  <2>2. r.left * (p.step + AnswerPrice(p, r.call)) \in Nat
    BY <2>1, TimesMonotonic
  <2> QED BY <2>2, FollowingType
<1>2. r.pc = "idle" => Ahead(p, r) = 0
  BY DEF Ahead
<1>3. r.pc = "resolve" => AheadNow(p, r) = PassPrice(p)
  BY DEF AheadNow, Gates
<1>4. r.pc = "record" => AheadNow(p, r) = p.step + FillPrice(p)
  BY DEF AheadNow, Gates
<1>5. r.pc \in {"global", "user", "creates"} =>
        AheadNow(p, r) = Gates[r.pc] * p.step + CallPrice(p, r.call) + Following(p, r)
  BY DEF AheadNow, Gates
<1>6. r.pc = "reserve" =>
        AheadNow(p, r) = r.left * (p.step + AnswerPrice(p, r.call)) + Following(p, r)
  <2> SUFFICES ASSUME r.pc = "reserve"
               PROVE  AheadNow(p, r) = r.left * (p.step + AnswerPrice(p, r.call)) + Following(p, r)
    OBVIOUS
  <2>1. AheadNow(p, r) = r.left * (p.step + AnswerPrice(p, r.call)) + Following(p, r) + 0
    BY DEF AheadNow, Gates
  <2> QED BY <1>1, <2>1
<1>7. r.pc = "sent" =>
        AheadNow(p, r) = r.left * (p.step + AnswerPrice(p, r.call)) + Following(p, r)
                           + AnswerPrice(p, r.call)
  BY DEF AheadNow, Gates
<1>8. r.pc # "idle" => Ahead(p, r) = PassesPrice(p, r) + AheadNow(p, r)
  BY DEF Ahead, PassesPrice
<1> QED BY <1>2, <1>3, <1>4, <1>5, <1>6, <1>7, <1>8

LEMMA AfterFailureAhead ==
  ASSUME NEW p \in Prices, NEW r, Steady(r), r.pc = "sent", NEW s \in AfterFailure(r)
  PROVE  Fits(p, r, s, Following(p, r))
<1> DEFINE after == AfterPrice(p, r.call, r.todo, r.pages)
<1>1. /\ r \in Request /\ r.call \in Methods /\ r.todo \in Nat /\ r.pages \in Nat
      /\ r.call = "playlistItems.insert" => r.todo - 1 \in Nat
      /\ Following(p, r) \in Nat /\ after \in Nat /\ after <= Following(p, r)
      /\ PassesPrice(p, r) \in Nat
      /\ r.call # "videos.list" => r.batches = 0
  BY FollowingType, PassesType
<1>2. Fits(p, r, s, after)
  <2>1. CASE r.call = "playlists.list"
    BY <1>1, <2>1, ReusedAhead DEF AfterFailure, AfterPrice
  <2>2. CASE r.call = "playlists.insert"
    BY <1>1, <2>2, IdleFits DEF AfterFailure
  <2>3. CASE r.call = "playlistItems.list"
    <3>1. s \in Planned(r)
      BY <2>3 DEF AfterFailure
    <3>2. FillPrice(p) <= after
      <4>1. r.pages < MaxPages => SyncPrice(p, MaxPages - r.pages) \in Nat
        <5>1. r.pages < MaxPages => MaxPages - r.pages \in Nat
          BY <1>1, BoundsAssumption
        <5> QED BY <5>1, PriceTypes
      <4>2. FillPrice(p) \in Nat
        BY PriceTypes
      <4> QED BY <2>3, <4>1, <4>2 DEF AfterPrice
    <3>3. FillPrice(p) \in Nat
      BY PriceTypes
    <3> QED BY <1>1, <3>1, <3>2, <3>3, PlannedAhead DEF Fits
  <2>4. CASE r.call = "videos.list"
    BY <1>1, <2>4, InsertNextAhead DEF AfterFailure, AfterPrice
  <2>5. CASE r.call = "playlistItems.insert"
    BY <1>1, <2>5, InsertNextAhead DEF AfterFailure, AfterPrice
  <2> QED BY <1>1, <2>1, <2>2, <2>3, <2>4, <2>5 DEF Methods, Inserts, Lists
<1> QED BY <1>1, <1>2 DEF Fits

LEMMA AfterRejectionAhead ==
  ASSUME NEW p \in Prices, NEW r, Steady(r), r.pc = "sent", NEW s \in AfterRejection(r)
  PROVE  Fits(p, r, s, Following(p, r))
<1>1. r \in Request /\ Following(p, r) \in Nat
  BY FollowingType
<1> QED BY <1>1, AfterFailureAhead, IdleFits DEF AfterRejection

\* A pass that is repeated has been paid for.
LEMMA AfterNotFoundAhead ==
  ASSUME NEW p \in Prices, NEW r, Steady(r), r.pc = "sent", NEW s \in AfterNotFound(r)
  PROVE  Fits(p, r, s, Following(p, r))
<1>1. /\ r \in Request /\ r.call \in Methods /\ Following(p, r) \in Nat
      /\ r.call = "playlists.list" => Following(p, r) = AfterPrice(p, r.call, r.todo, r.pages)
  BY FollowingType
<1>2. CASE r.call = "playlists.list"
  BY <1>1, <1>2, CreateAhead DEF AfterNotFound, AfterPrice
<1>3. CASE r.call = "playlistItems.insert"
  <2>1. CASE s = Idle
    BY <1>1, <2>1, IdleFits
  <2>2. CASE /\ r.pass < MAX_PLAYLIST_RESOLUTION_ATTEMPTS
             /\ s = [r EXCEPT !.pc = "resolve", !.pass = @ + 1, !.passDay = today]
    <3>1. s.pc = "resolve" /\ s.pass = r.pass + 1
      BY <1>1, <2>2 DEF Request
    <3>2. Ahead(p, s) = (MAX_PLAYLIST_RESOLUTION_ATTEMPTS - (r.pass + 1)) * PassPrice(p) + PassPrice(p)
      BY <3>1 DEF Ahead, AheadNow, Gates
    <3>3. PassesPrice(p, r) =
          PassPrice(p) + (MAX_PLAYLIST_RESOLUTION_ATTEMPTS - (r.pass + 1)) * PassPrice(p)
      BY <1>1, <2>2, PassesType
    <3>4. r.pass \in {0, 1} /\ MAX_PLAYLIST_RESOLUTION_ATTEMPTS = 2
      BY <1>1, <2>2 DEF Request, MAX_PLAYLIST_RESOLUTION_ATTEMPTS
    <3>5. PassPrice(p) \in Nat /\ PassesPrice(p, r) \in Nat
      BY <1>1, PriceTypes, PassesType
    <3>6. Ahead(p, s) = PassesPrice(p, r)
      BY <3>2, <3>3, <3>4, <3>5
    <3> QED BY <1>1, <3>5, <3>6 DEF Fits
  <2> QED BY <1>3, <2>1, <2>2 DEF AfterNotFound
<1>4. CASE r.call \notin {"playlists.list", "playlistItems.insert"}
  BY <1>4, AfterFailureAhead DEF AfterNotFound
<1> QED BY <1>2, <1>3, <1>4

\* A creation to be recorded.
LEMMA RecordAhead ==
  ASSUME NEW p \in Prices, NEW r \in Request, r.pc = "record"
  PROVE  /\ Ahead(p, r) = PassesPrice(p, r) + (p.step + FillPrice(p))
         /\ p.step \in Nat /\ FillPrice(p) \in Nat /\ PassesPrice(p, r) \in Nat
<1>1. p.step \in Nat /\ FillPrice(p) \in Nat /\ PassesPrice(p, r) \in Nat
  BY PriceTypes, PassesType
<1> QED BY <1>1 DEF Ahead, AheadNow, Gates, PassesPrice

LEMMA AfterOkAhead ==
  ASSUME NEW p \in Prices, NEW r, Steady(r), r.pc = "sent", NEW s \in AfterOk(r)
  PROVE  Fits(p, r, s, Following(p, r))
<1>1. /\ r \in Request /\ r.call \in Methods /\ r.todo \in Nat /\ r.pages \in Nat
      /\ r.call = "playlistItems.insert" => r.todo - 1 \in Nat
      /\ Following(p, r) \in Nat /\ PassesPrice(p, r) \in Nat
      /\ r.call # "videos.list" =>
           r.batches = 0 /\ Following(p, r) = AfterPrice(p, r.call, r.todo, r.pages)
  BY FollowingType, PassesType
<1>2. CASE r.call = "playlists.list"
  BY <1>1, <1>2, ReusedAhead, CreateAhead DEF AfterOk, AfterPrice
<1>3. CASE r.call = "playlists.insert"
  <2>1. CASE s = Idle
    BY <1>1, <2>1, IdleFits
  <2>2. CASE s = [r EXCEPT !.pc = "record"]
    <3>1. s \in Request /\ s.pc = "record" /\ s.pass = r.pass
      BY <1>1, <2>2 DEF Request, PCs
    <3>2. /\ Ahead(p, s) = PassesPrice(p, s) + (p.step + FillPrice(p))
          /\ p.step \in Nat /\ FillPrice(p) \in Nat
      BY <3>1, RecordAhead
    <3>3. PassesPrice(p, s) = PassesPrice(p, r) /\ Following(p, r) = p.step + FillPrice(p)
      BY <1>1, <1>3, <3>1 DEF PassesPrice, AfterPrice
    <3> QED BY <1>1, <3>2, <3>3 DEF Fits
  <2> QED BY <1>3, <2>1, <2>2 DEF AfterOk
<1>4. CASE r.call = "playlistItems.list"
  <2>1. CASE s \in Planned(r)
    BY <1>4, <2>1, AfterFailureAhead DEF AfterFailure
  <2>2. CASE r.pages < MaxPages /\ s = Begin([r EXCEPT !.pages = @ + 1], "playlistItems.list")
    <3> DEFINE k == r.pages + 1
    <3>1. k \in 1 .. MaxPages /\ MaxPages - k + 1 = MaxPages - r.pages
      BY <1>1, <2>2, BoundsAssumption
    <3>2. s = Begin([r EXCEPT !.pages = k], "playlistItems.list")
      BY <2>2
    <3>3. Fits(p, r, s, FillPrice(p) + SyncPrice(p, MaxPages - k + 1))
      BY <1>1, <1>4, <3>1, <3>2, SyncAhead
    <3>4. Following(p, r) = FillPrice(p) + SyncPrice(p, MaxPages - r.pages)
      BY <1>1, <1>4, <2>2 DEF AfterPrice
    <3> QED BY <3>1, <3>3, <3>4
  <2> QED BY <1>4, <2>1, <2>2 DEF AfterOk
<1>5. CASE r.call = "videos.list"
  <2>1. /\ Following(p, r) = BatchesPrice(p, r.batches) + InsertsPrice(p, r.todo)
        /\ r.batches \in Nat /\ BatchesPrice(p, r.batches) \in Nat
        /\ InsertsPrice(p, r.todo) \in Nat
    BY <1>1, <1>5, PriceTypes DEF Following, AfterPrice, Request
  <2>2. CASE r.batches > 0
    <3> DEFINE b == r.batches - 1
               c == CallPrice(p, "videos.list")
    <3>1. s = NextBatch(r)
      BY <1>5, <2>2 DEF AfterOk, AfterBatch, NextBatch
    <3>2. /\ Steady(s) /\ s.pc = "reserve" /\ s.call = "videos.list"
          /\ s.left = Attempts("videos.list") /\ s.batches = b
          /\ s.todo = r.todo /\ s.pages = r.pages /\ s.pass = r.pass
      BY <2>2, <3>1, NextBatchSteady
    <3>3. /\ b \in Nat /\ b + 1 = r.batches
          /\ BatchesPrice(p, r.batches) = BatchesPrice(p, b) + c
          /\ BatchesPrice(p, b) \in Nat /\ c \in Nat
      <4>1. b \in Nat /\ b + 1 = r.batches
        BY <2>1, <2>2
      <4>2. BatchesPrice(p, b + 1) = BatchesPrice(p, b) + c
        BY <4>1, OneMore
      <4> QED BY <4>1, <4>2, PriceTypes DEF Methods, Lists
    <3>4. Following(p, s) = BatchesPrice(p, b) + InsertsPrice(p, r.todo)
      BY <3>2 DEF Following, AfterPrice
    <3>5. Ahead(p, s) = PassesPrice(p, s) + (c + Following(p, s))
      BY <3>2, AheadForms DEF CallPrice
    <3>6. PassesPrice(p, s) = PassesPrice(p, r)
      BY <3>2 DEF PassesPrice
    <3> QED BY <1>1, <2>1, <3>3, <3>4, <3>5, <3>6 DEF Fits
  <2>3. CASE ~(r.batches > 0)
    <3>1. PICK n \in 0 .. r.todo : s = InsertNext(r, n)
      BY <1>5, <2>3 DEF AfterOk, AfterBatch
    <3>2. n \in Nat /\ n <= r.todo
      BY <1>1, <3>1
    <3>3. InsertsPrice(p, n) <= InsertsPrice(p, r.todo) /\ InsertsPrice(p, n) \in Nat
      BY <1>1, <3>2, OneMore, PriceTypes
    <3> QED BY <1>1, <2>1, <3>1, <3>2, <3>3, InsertNextAhead DEF Fits
  <2> QED BY <2>2, <2>3
<1>6. CASE r.call = "playlistItems.insert"
  BY <1>1, <1>6, InsertNextAhead DEF AfterOk, AfterPrice
<1> QED BY <1>1, <1>2, <1>3, <1>4, <1>5, <1>6 DEF Methods, Inserts, Lists

\* A refusal by a gate.
LEMMA OverBudgetAhead ==
  ASSUME NEW p \in Prices, NEW r, Steady(r), r.pc \in {"global", "user"}
  PROVE  Fits(p, r, OverBudget(r), Following(p, r))
<1>1. /\ r \in Request /\ r.todo \in Nat /\ Following(p, r) \in Nat
      /\ AfterPrice(p, r.call, r.todo, r.pages) \in Nat
      /\ AfterPrice(p, r.call, r.todo, r.pages) <= Following(p, r)
      /\ PassesPrice(p, r) \in Nat
  BY FollowingType, PassesType
<1>2. CASE r.call = "videos.list"
  <2>1. Fits(p, r, OverBudget(r), AfterPrice(p, r.call, r.todo, r.pages))
    BY <1>1, <1>2, InsertNextAhead DEF OverBudget, AfterPrice
  <2> QED BY <1>1, <2>1 DEF Fits
<1>3. CASE r.call # "videos.list"
  BY <1>1, <1>3, IdleFits DEF OverBudget
<1> QED BY <1>2, <1>3

\* What a step of thread r uses up: the price of an answer, or of any other step.
Paid(p, r) == IF r.pc = "sent" THEN AnswerPrice(p, r.call) ELSE p.step

\* Attempts that are left, and one of them.
LEMMA AttemptPrice ==
  ASSUME NEW p \in Prices, NEW r, Steady(r)
  PROVE  LET a == p.step + AnswerPrice(p, r.call) IN
         /\ a \in Nat /\ r.left \in Nat /\ r.left * a \in Nat
         /\ r.left > 0 => (r.left - 1) * a \in Nat /\ r.left * a = (r.left - 1) * a + a
<1> DEFINE a == p.step + AnswerPrice(p, r.call)
<1>1. a \in Nat /\ r.left \in Nat
  BY PriceTypes DEF Steady, Request
<1>2. PICK b \in Nat, n \in Nat : b = a /\ n = r.left
  BY <1>1
<1>3. n * b \in Nat
  BY TimesMonotonic
<1>4. n > 0 => (n - 1) * b \in Nat /\ n * b = (n - 1) * b + b
  <2> SUFFICES ASSUME n > 0 PROVE (n - 1) * b \in Nat /\ n * b = (n - 1) * b + b
    OBVIOUS
  <2>1. PICK k \in Nat : n = k + 1
    <3>1. n - 1 \in Nat /\ n = (n - 1) + 1
      OBVIOUS
    <3> QED BY <3>1
  <2>2. k * b \in Nat
    BY TimesMonotonic
  <2>3. (k + 1) * b = k * b + b /\ n - 1 = k
    BY <2>1
  <2> QED BY <2>1, <2>2, <2>3
<1> QED BY <1>1, <1>2, <1>3, <1>4

\* A thread that is not idle can pay for its next step.
LEMMA AheadPays ==
  ASSUME NEW p \in Prices, NEW r, Steady(r)
  PROVE  /\ Ahead(p, r) \in Nat
         /\ r.pc # "idle" => Paid(p, r) \in Nat /\ Paid(p, r) <= Ahead(p, r)
<1>1. r \in Request /\ PassesPrice(p, r) \in Nat /\ AnswerPrice(p, r.call) \in Nat
  BY PassesType, PriceTypes DEF Steady
<1>2. p.step \in Nat /\ PassPrice(p) \in Nat /\ FillPrice(p) \in Nat /\ p.step <= PassPrice(p)
  BY PriceTypes DEF PassPrice, Methods, Lists
<1>3. Paid(p, r) \in Nat
  BY <1>1, <1>2 DEF Paid
<1>4. CASE r.pc \in {"idle", "resolve", "record"}
  BY <1>1, <1>2, <1>3, <1>4, AheadForms DEF Paid
<1>5. CASE r.pc \in {"global", "user", "creates"}
  <2>1. CallPrice(p, r.call) \in Nat /\ Following(p, r) \in Nat
    BY <1>5, FollowingType, PriceTypes
  <2>2. Gates[r.pc] \in {1, 2, 3}
    BY <1>5 DEF Gates
  <2>3. Gates[r.pc] * p.step \in Nat /\ p.step <= Gates[r.pc] * p.step
    BY <1>2, <2>2
  <2> QED BY <1>1, <1>2, <1>5, <2>1, <2>3, AheadForms DEF Paid
<1>6. CASE r.pc \in {"reserve", "sent"}
  <2> DEFINE a == p.step + AnswerPrice(p, r.call)
  <2>1. Following(p, r) \in Nat
    BY <1>6, FollowingType
  <2>2. /\ a \in Nat /\ r.left * a \in Nat
        /\ r.left > 0 => (r.left - 1) * a \in Nat /\ r.left * a = (r.left - 1) * a + a
    BY AttemptPrice
  <2>3. r.pc = "reserve" => r.left > 0
    BY DEF Steady
  <2> QED BY <1>1, <1>2, <1>6, <2>1, <2>2, <2>3, AheadForms DEF Paid
<1>7. r.pc \in PCs
  BY <1>1 DEF Request
<1> QED BY <1>4, <1>5, <1>6, <1>7, <1>3 DEF PCs

\* Thread r can go on as s and pay for the step.
Pays(p, r, s) == Ahead(p, s) \in Nat /\ Ahead(p, s) + Paid(p, r) <= Ahead(p, r)

\* Whoever comes away with no more than what follows the call has paid.
LEMMA FitsPays ==
  ASSUME NEW p \in Prices, NEW r, Steady(r), NEW s, Fits(p, r, s, Following(p, r)),
         r.pc \in {"global", "user", "sent"}
  PROVE  Pays(p, r, s)
<1>1. /\ r \in Request /\ PassesPrice(p, r) \in Nat /\ p.step \in Nat
      /\ Following(p, r) \in Nat /\ AnswerPrice(p, r.call) \in Nat /\ CallPrice(p, r.call) \in Nat
  BY FollowingType, PassesType, PriceTypes
<1>2. CASE r.pc \in {"global", "user"}
  <2>1. Gates[r.pc] \in {2, 3}
    BY <1>2 DEF Gates
  <2>2. p.step <= Gates[r.pc] * p.step /\ Gates[r.pc] * p.step \in Nat
    BY <1>1, <2>1
  <2>3. Ahead(p, r) = PassesPrice(p, r) + (Gates[r.pc] * p.step + CallPrice(p, r.call) + Following(p, r))
    BY <1>2, AheadForms
  <2> QED BY <1>1, <1>2, <2>2, <2>3 DEF Pays, Paid, Fits
<1>3. CASE r.pc = "sent"
  <2>1. r.left * (p.step + AnswerPrice(p, r.call)) \in Nat
    BY AttemptPrice
  <2> QED BY <1>1, <1>3, <2>1, AheadForms DEF Pays, Paid, Fits
<1> QED BY <1>2, <1>3

LEMMA ResolvePays ==
  ASSUME TypeInv, NEW p \in Prices, NEW w \in Workers, Resolve(w)
  PROVE  Pays(p, req[w], req'[w])
<1> DEFINE r == req[w]
           s == req'[w]
           m == "playlists.list"
<1>1. Steady(r) /\ r \in Request /\ r.pc = "resolve" /\ req \in [Workers -> Request]
  BY DEF TypeInv, TypeOK, Resolve
<1>2. \/ s \in Reused(r) \/ s = OpenGate(r, "playlists.insert", today)
      \/ s = OpenGate(r, m, today)
  BY <1>1 DEF Resolve
<1>3. Ahead(p, r) = PassesPrice(p, r) + PassPrice(p) /\ Paid(p, r) = p.step
  BY <1>1, AheadForms DEF Paid
<1>4. /\ PassesPrice(p, r) \in Nat /\ p.step \in Nat /\ CallPrice(p, m) \in Nat
      /\ FindPrice(p) \in Nat /\ FillPrice(p) \in Nat /\ GatedPrice(p, m) \in Nat
  BY <1>1, PassesType, PriceTypes DEF Methods, Lists
<1>5. CASE s \in Reused(r) \/ s = OpenGate(r, "playlists.insert", today)
  <2>1. r.batches = 0
    BY <1>1 DEF Steady, Request
  <2>2. Fits(p, r, s, FindPrice(p) + FillPrice(p))
    BY <1>1, <1>5, <2>1, ReusedAhead, CreateAhead
  <2> QED BY <1>3, <1>4, <2>2 DEF Pays, Fits, PassPrice
<1>6. CASE s = OpenGate(r, m, today)
  <2>1. Ahead(p, s) = PassesPrice(p, r) +
                        (3 * p.step + CallPrice(p, m) + AfterPrice(p, m, r.todo, r.pages))
    BY <1>1, <1>6, OpenGateAhead DEF Methods, Lists
  <2>2. AfterPrice(p, m, r.todo, r.pages) = FindPrice(p) + FillPrice(p)
    BY DEF AfterPrice
  <2> QED BY <1>3, <1>4, <2>1, <2>2 DEF Pays, PassPrice, GatedPrice
<1> QED BY <1>2, <1>5, <1>6

\* A gate that is passed is one step less.
LEMMA GatePays ==
  ASSUME TypeInv, NEW p \in Prices, NEW w \in Workers,
         GlobalGate(w) \/ UserGate(w) \/ CreateGate(w), Steady(req'[w])
  PROVE  Pays(p, req[w], req'[w])
<1> DEFINE r == req[w]
           s == req'[w]
<1>1. /\ Steady(r) /\ r \in Request /\ req \in [Workers -> Request]
      /\ r.pc \in {"global", "user", "creates"}
  BY DEF TypeInv, TypeOK, GlobalGate, UserGate, CreateGate
<1>2. /\ Following(p, r) \in Nat /\ PassesPrice(p, r) \in Nat /\ p.step \in Nat
      /\ CallPrice(p, r.call) \in Nat /\ Paid(p, r) = p.step
  BY <1>1, FollowingType, PassesType, PriceTypes DEF Paid
<1>3. Ahead(p, r) = PassesPrice(p, r) + (Gates[r.pc] * p.step + CallPrice(p, r.call) + Following(p, r))
  BY <1>1, AheadForms
<1>4. ASSUME s = Begin(r, r.call)
      PROVE  Ahead(p, s) = PassesPrice(p, r) + (CallPrice(p, r.call) + Following(p, r))
  <2>1. /\ s.pc = "reserve" /\ s.call = r.call /\ s.todo = r.todo /\ s.pages = r.pages
        /\ s.pass = r.pass /\ s.left = Attempts(r.call) /\ s.batches = r.batches
    BY <1>1, <1>4 DEF Begin, Request
  <2> QED BY <2>1, AheadForms DEF Following, PassesPrice, CallPrice
<1>5. CASE GlobalGate(w)
  <2>1. r.pc = "global" /\ (s = OverBudget(r) \/ s = [r EXCEPT !.pc = "user"])
    BY <1>1, <1>5 DEF GlobalGate
  <2>2. CASE s = OverBudget(r)
    BY <1>1, <2>1, <2>2, OverBudgetAhead, FitsPays
  <2>3. CASE s = [r EXCEPT !.pc = "user"]
    <3>1. /\ s.pc = "user" /\ s.call = r.call /\ s.todo = r.todo /\ s.pages = r.pages
          /\ s.pass = r.pass /\ s.batches = r.batches
      BY <1>1, <2>3 DEF Request
    <3>2. Ahead(p, s) = PassesPrice(p, r) + (2 * p.step + CallPrice(p, r.call) + Following(p, r))
      BY <3>1, AheadForms DEF Following, PassesPrice, Gates
    <3>3. Gates[r.pc] = 3
      BY <2>1 DEF Gates
    <3> QED BY <1>2, <1>3, <3>2, <3>3 DEF Pays
  <2> QED BY <2>1, <2>2, <2>3
<1>6. CASE UserGate(w)
  <2>1. /\ r.pc = "user"
        /\ s = OverBudget(r) \/ s = [r EXCEPT !.pc = "creates"] \/ s = Begin(r, r.call)
    BY <1>1, <1>6 DEF UserGate
  <2>2. CASE s = OverBudget(r)
    BY <1>1, <2>1, <2>2, OverBudgetAhead, FitsPays
  <2>3. Gates[r.pc] = 2
    BY <2>1 DEF Gates
  <2>4. CASE s = [r EXCEPT !.pc = "creates"]
    <3>1. /\ s.pc = "creates" /\ s.call = r.call /\ s.todo = r.todo /\ s.pages = r.pages
          /\ s.pass = r.pass /\ s.batches = r.batches
      BY <1>1, <2>4 DEF Request
    <3>2. Ahead(p, s) = PassesPrice(p, r) + (1 * p.step + CallPrice(p, r.call) + Following(p, r))
      BY <3>1, AheadForms DEF Following, PassesPrice, Gates
    <3> QED BY <1>2, <1>3, <2>3, <3>2 DEF Pays
  <2>5. CASE s = Begin(r, r.call)
    BY <1>2, <1>3, <1>4, <2>3, <2>5 DEF Pays
  <2> QED BY <2>1, <2>2, <2>4, <2>5
<1>7. CASE CreateGate(w)
  <2>1. r.pc = "creates" /\ (s = Idle \/ s = Begin(r, r.call))
    BY <1>1, <1>7 DEF CreateGate
  <2>2. Gates[r.pc] = 1
    BY <2>1 DEF Gates
  <2>3. CASE s = Idle
    BY <1>1, <1>2, <2>1, <2>3, AheadIdle, AheadPays DEF Pays
  <2>4. CASE s = Begin(r, r.call)
    BY <1>2, <1>3, <1>4, <2>2, <2>4 DEF Pays
  <2> QED BY <2>1, <2>3, <2>4
<1> QED BY <1>5, <1>6, <1>7

\* Sending an attempt uses up the step, the answer its price.
LEMMA AttemptPays ==
  ASSUME TypeInv, NEW p \in Prices, NEW w \in Workers, Steady(req'[w]),
         \/ req[w].pc = "reserve" /\ req'[w] \in {Idle, Dispatch(req[w])}
         \/ req[w].pc = "sent" /\ req'[w] = [req[w] EXCEPT !.pc = "reserve"]
  PROVE  Pays(p, req[w], req'[w])
<1> DEFINE r == req[w]
           s == req'[w]
           a == p.step + AnswerPrice(p, r.call)
<1>1. Steady(r) /\ r \in Request /\ r.pc \in {"reserve", "sent"}
  BY DEF TypeInv, TypeOK
<1>2. /\ Following(p, r) \in Nat /\ PassesPrice(p, r) \in Nat /\ p.step \in Nat
      /\ AnswerPrice(p, r.call) \in Nat
  BY <1>1, FollowingType, PassesType, PriceTypes
<1>3. /\ a \in Nat /\ r.left * a \in Nat
      /\ r.left > 0 => (r.left - 1) * a \in Nat /\ r.left * a = (r.left - 1) * a + a
  BY <1>1, AttemptPrice
<1>4. CASE s = Idle
  BY <1>1, <1>2, <1>4, AheadIdle, AheadPays DEF Pays, Paid
<1>5. CASE r.pc = "reserve" /\ s = Dispatch(r)
  <2>1. /\ s.pc = "sent" /\ s.call = r.call /\ s.todo = r.todo /\ s.pages = r.pages
        /\ s.pass = r.pass /\ s.left = r.left - 1 /\ s.batches = r.batches
    BY <1>1, <1>5 DEF Dispatch, Request
  <2>2. r.left > 0
    BY <1>1, <1>5 DEF Steady
  <2>3. Ahead(p, s) = PassesPrice(p, r) +
                        ((r.left - 1) * a + Following(p, r) + AnswerPrice(p, r.call))
    BY <2>1, AheadForms DEF Following, PassesPrice
  <2>4. Ahead(p, r) = PassesPrice(p, r) + (r.left * a + Following(p, r))
    BY <1>1, <1>5, AheadForms
  <2> QED BY <1>2, <1>3, <1>5, <2>2, <2>3, <2>4 DEF Pays, Paid
<1>6. CASE r.pc = "sent" /\ s = [r EXCEPT !.pc = "reserve"]
  <2>1. /\ s.pc = "reserve" /\ s.call = r.call /\ s.todo = r.todo /\ s.pages = r.pages
        /\ s.pass = r.pass /\ s.left = r.left /\ s.batches = r.batches
    BY <1>1, <1>6 DEF Request
  <2>2. Ahead(p, s) = PassesPrice(p, r) + (r.left * a + Following(p, r))
    BY <2>1, AheadForms DEF Following, PassesPrice
  <2>3. Ahead(p, r) = PassesPrice(p, r) + (r.left * a + Following(p, r) + AnswerPrice(p, r.call))
    BY <1>1, <1>6, AheadForms
  <2> QED BY <1>2, <1>3, <1>6, <2>2, <2>3 DEF Pays, Paid
<1> QED BY <1>1, <1>4, <1>5, <1>6

\* An answer that leads to s pays its price.
LEMMA AnswerPays ==
  ASSUME TypeInv, NEW p \in Prices, NEW w \in Workers, req[w].pc = "sent", NEW s,
         Answered(w, s), Fits(p, req[w], s, Following(p, req[w]))
  PROVE  Pays(p, req[w], req'[w])
<1>1. Steady(req[w]) /\ req'[w] = s
  BY DEF TypeInv, TypeOK, Answered
<1> QED BY <1>1, FitsPays

LEMMA FailPays ==
  ASSUME TypeInv, NEW p \in Prices, NEW w \in Workers, Fail(w)
  PROVE  Pays(p, req[w], req'[w])
<1>1. PICK s \in AfterFailure(req[w]) : Answered(w, s)
  BY DEF Fail
<1>2. Steady(req[w]) /\ req[w].pc = "sent"
  BY DEF TypeInv, Fail, Sent
<1> QED BY <1>1, <1>2, AfterFailureAhead, AnswerPays

\* Every step of a thread pays its price, whatever the answer, the gate or the commit.
LEMMA StepPays ==
  ASSUME TypeInv, NEW p \in Prices, NEW w \in Workers, Step(w)
  PROVE  Pays(p, req[w], req'[w])
<1> DEFINE r == req[w]
<1>1. Steady(r) /\ r \in Request /\ req \in [Workers -> Request]
  BY DEF TypeInv, TypeOK
<1>2. Steady(req'[w])
  BY StepKinds, ThreadSteady
<1>3. CASE Resolve(w)
  BY <1>3, ResolvePays
<1>4. CASE GlobalGate(w) \/ UserGate(w) \/ CreateGate(w)
  BY <1>2, <1>4, GatePays
<1>5. CASE Reserve(w) \/ ReserveFails(w)
  <2>1. r.pc = "reserve" /\ req'[w] \in {Idle, Dispatch(r)}
    BY <1>1, <1>5 DEF Reserve, ReserveFails
  <2> QED BY <1>2, <2>1, AttemptPays
<1>6. CASE Succeed(w)
  <2>1. PICK s \in AfterOk(r) : Answered(w, s)
    BY <1>6 DEF Succeed
  <2>2. r.pc = "sent"
    BY <1>6 DEF Succeed, Sent
  <2> QED BY <1>1, <2>1, <2>2, AfterOkAhead, AnswerPays
<1>7. CASE NotFound(w)
  <2>1. PICK s \in AfterNotFound(r) : Answered(w, s)
    BY <1>7 DEF NotFound
  <2>2. r.pc = "sent"
    BY <1>7 DEF NotFound, Sent
  <2> QED BY <1>1, <2>1, <2>2, AfterNotFoundAhead, AnswerPays
<1>8. CASE Reject(w)
  <2>1. PICK s \in AfterRejection(r) : Answered(w, s)
    BY <1>8 DEF Reject
  <2>2. r.pc = "sent"
    BY <1>8 DEF Reject, Sent
  <2> QED BY <1>1, <2>1, <2>2, AfterRejectionAhead, AnswerPays
<1>9. CASE Fail(w)
  BY <1>9, FailPays
<1>10. CASE Transient(w)
  <2>1. CASE r.left > 0
    <3>1. r.pc = "sent" /\ req'[w] = [r EXCEPT !.pc = "reserve"]
      BY <1>1, <1>10, <2>1 DEF Transient, Sent, Answered
    <3> QED BY <1>2, <3>1, AttemptPays
  <2>2. CASE ~(r.left > 0)
    BY <1>10, <2>2, FailPays DEF Transient
  <2> QED BY <2>1, <2>2
<1>11. CASE RecordCreated(w) \/ RecordFails(w)
  <2>1. r.pc = "record" /\ (req'[w] = Idle \/ req'[w] \in Planned(r))
    BY <1>1, <1>11 DEF RecordCreated, RecordFails
  <2>2. Fits(p, r, req'[w], FillPrice(p))
    BY <1>1, <2>1, PlannedAhead, IdleFits, PriceTypes
  <2>3. /\ Ahead(p, r) = PassesPrice(p, r) + (p.step + FillPrice(p))
        /\ p.step \in Nat /\ FillPrice(p) \in Nat /\ PassesPrice(p, r) \in Nat
    BY <1>1, <2>1, RecordAhead
  <2> QED BY <2>1, <2>2, <2>3 DEF Pays, Paid, Fits
<1> QED BY <1>3, <1>4, <1>5, <1>6, <1>7, <1>8, <1>9, <1>10, <1>11 DEF Step

\* The threads that do not step stay where they are.
LEMMA OthersStay ==
  ASSUME TypeInv, NEW w \in Workers,
         Step(w) \/ Die(w) \/ \E u \in Users : StartRestore(w, u)
  PROVE  \A v \in Workers \ {w} : req'[v] = req[v]
<1>1. req' = [req EXCEPT ![w] = req'[w]] /\ req \in [Workers -> Request]
  BY StepKinds, ThreadSteady DEF TypeInv, TypeOK
<1> QED BY <1>1

LEMMA WindDownStep ==
  ASSUME TypeInv, [Next]_vars, NEW w \in Workers, req[w].pc # "idle"
  PROVE  req'[w] = req[w] \/ Ahead(Steps, req'[w]) \in 0 .. Ahead(Steps, req[w]) - 1
<1> DEFINE r == req[w]
<1>1. Steady(r) /\ req \in [Workers -> Request]
  BY DEF TypeInv, TypeOK
<1>2. Paid(Steps, r) = 1
  BY DEF Paid, Steps, AnswerPrice
<1>3. Ahead(Steps, r) \in Nat /\ 1 <= Ahead(Steps, r)
  BY <1>1, <1>2, AheadPays, StepsAndUnits
<1>4. CASE Step(w)
  <2>1. Pays(Steps, r, req'[w])
    BY <1>4, StepPays, StepsAndUnits
  <2> QED BY <1>2, <1>3, <2>1 DEF Pays
<1>5. CASE Die(w)
  <2>1. req'[w] = Idle
    BY <1>1, <1>5 DEF Die
  <2> QED BY <1>3, <2>1, AheadIdle
<1>6. CASE \E v \in Workers : Step(v) \/ Die(v) \/ \E u \in Users : StartRestore(v, u)
  <2>1. PICK v \in Workers : Step(v) \/ Die(v) \/ \E u \in Users : StartRestore(v, u)
    BY <1>6
  <2>2. CASE v # w
    BY <2>1, <2>2, OthersStay
  <2>3. CASE v = w
    BY <1>4, <1>5, <2>1, <2>3 DEF StartRestore
  <2> QED BY <2>2, <2>3
<1>7. CASE (\E u \in Users : PurgeUsage(u) \/ RemoveUser(u)) \/ Midnight \/ UNCHANGED vars
  BY <1>7 DEF PurgeUsage, RemoveUser, RowsGo, Midnight, vars
<1> QED BY <1>6, <1>7 DEF Next

\* A restore never goes round in circles (_request_with_retry, _sync_mirror,
\* _restore_pass, _restore_via_youtube_data_api): whatever Google answers, the gates
\* decide and the other threads, deletions and midnights do, each step of its thread
\* brings it closer to its end by a measure that its five loops bound.
THEOREM RestoresGoDown == Spec => RestoresWindDown
<1>1. ASSUME TypeInv, [Next]_vars
      PROVE  [\A w \in Workers : req[w].pc # "idle" =>
                \/ req'[w] = req[w]
                \/ Ahead(Steps, req'[w]) \in 0 .. Ahead(Steps, req[w]) - 1]_vars
  BY <1>1, WindDownStep
<1> QED
  BY TypeInit, TypeStep, <1>1, PTL DEF Spec, RestoresWindDown

-----------------------------------------------------------------------------
(* What restores bill.                                                         *)

Bill(table) == Total([d \in Days |-> Total(table[d], Users)], Days)

LEMMA BillType ==
  ASSUME NEW t \in Table
  PROVE  /\ IsFiniteSet(Days)
         /\ [d \in Days |-> Total(t[d], Users)] \in [Days -> Nat]
         /\ Bill(t) \in Nat
<1>1. IsFiniteSet(Days)
  BY FS_Interval, BoundsAssumption DEF Days
<1>2. \A d \in Days : Total(t[d], Users) \in Nat
  BY TotalType, ActorsAssumption DEF Table
<1>3. PICK f : f = [d \in Days |-> Total(t[d], Users)]
  OBVIOUS
<1>4. f \in [Days -> Nat]
  BY <1>2, <1>3
<1>5. Total(f, Days) \in Nat
  BY <1>1, <1>4, TotalType
<1> QED BY <1>1, <1>3, <1>4, <1>5 DEF Bill

\* Units added to one row are added to the bill.
LEMMA BillUpdate ==
  ASSUME NEW t \in Table, NEW d \in Days, NEW u \in Users, NEW n \in Nat
  PROVE  Bill([t EXCEPT ![d][u] = @ + n]) = Bill(t) + n
<1>1. PICK x : x = [t EXCEPT ![d][u] = @ + n]
  OBVIOUS
<1>2. x \in Table
  BY <1>1, TableUpdate
<1>3. /\ t[d] \in [Users -> Nat] /\ x[d] \in [Users -> Nat]
      /\ x[d][u] = t[d][u] + n /\ t[d][u] \in Nat
      /\ \A v \in Users \ {u} : x[d][v] = t[d][v]
      /\ \A e \in Days \ {d} : x[e] = t[e]
  BY <1>1, <1>2 DEF Table
<1>4. PICK a, b : a = t[d] /\ b = x[d]
  OBVIOUS
<1>5. Total(b, Users) = Total(a, Users) - a[u] + b[u]
  BY <1>3, <1>4, TotalChange, ActorsAssumption
<1>6. Total(a, Users) \in Nat
  BY <1>3, <1>4, TotalType, ActorsAssumption
<1>7. Total(x[d], Users) = Total(t[d], Users) + n
  BY <1>3, <1>4, <1>5, <1>6
<1>8. PICK f, g : /\ f = [e \in Days |-> Total(t[e], Users)]
                  /\ g = [e \in Days |-> Total(x[e], Users)]
  OBVIOUS
<1>9. IsFiniteSet(Days) /\ f \in [Days -> Nat] /\ g \in [Days -> Nat]
  BY <1>2, <1>8, BillType
<1>10. (\A e \in Days \ {d} : g[e] = f[e]) /\ g[d] = f[d] + n
  BY <1>3, <1>7, <1>8
<1>11. Total(g, Days) = Total(f, Days) - f[d] + g[d]
  BY <1>9, <1>10, TotalChange
<1>12. Total(f, Days) \in Nat /\ f[d] \in Nat
  BY <1>9, TotalType
<1>13. Total(g, Days) = Total(f, Days) + n
  BY <1>10, <1>11, <1>12
<1> QED BY <1>1, <1>8, <1>13 DEF Bill

LEMMA UnbilledType ==
  ASSUME NEW q, \A w \in Workers : Steady(q[w])
  PROVE  Unbilled(q) \in [Workers -> Nat] /\ Total(Unbilled(q), Workers) \in Nat
<1>1. \A w \in Workers : Ahead(Units, q[w]) \in Nat
  BY AheadPays, StepsAndUnits
<1>2. Unbilled(q) \in [Workers -> Nat]
  BY <1>1 DEF Unbilled
<1> QED BY <1>2, TotalType, ActorsAssumption

LEMMA UnbilledStep ==
  ASSUME TypeInv, NEW w \in Workers,
         Step(w) \/ Die(w) \/ \E u \in Users : StartRestore(w, u)
  PROVE  /\ Total(Unbilled(req'), Workers) =
              Total(Unbilled(req), Workers) - Ahead(Units, req[w]) + Ahead(Units, req'[w])
         /\ Total(Unbilled(req), Workers) \in Nat
         /\ Ahead(Units, req[w]) \in Nat /\ Ahead(Units, req'[w]) \in Nat
<1>1. Steady(req'[w]) /\ \A v \in Workers : Steady(req[v])
  BY StepKinds, ThreadSteady DEF TypeInv
<1>2. \A v \in Workers \ {w} : req'[v] = req[v]
  BY OthersStay
<1>3. \A v \in Workers : Steady(req'[v])
  BY <1>1, <1>2
<1>4. PICK f, g : f = Unbilled(req) /\ g = Unbilled(req')
  OBVIOUS
<1>5. f \in [Workers -> Nat] /\ g \in [Workers -> Nat] /\ Total(f, Workers) \in Nat
  BY <1>1, <1>3, <1>4, UnbilledType
<1>6. f[w] = Ahead(Units, req[w]) /\ g[w] = Ahead(Units, req'[w])
  BY <1>4 DEF Unbilled
<1>7. \A v \in Workers \ {w} : g[v] = f[v]
  BY <1>2, <1>4 DEF Unbilled
<1>8. Total(g, Workers) = Total(f, Workers) - f[w] + g[w]
  BY <1>5, <1>7, TotalChange, ActorsAssumption
<1> QED BY <1>4, <1>5, <1>6, <1>8

\* Only an answer, or the death of its thread, bills the attempt in flight.
LEMMA StepBills ==
  ASSUME TypeInv, NEW w \in Workers, Step(w)
  PROVE  requests' = requests /\ (Flown(w) \/ (sent' = sent /\ req[w].pc # "sent"))
<1>1. ASSUME NEW s, Sent(w), Answered(w, s)
      PROVE  requests' = requests /\ Flown(w)
  BY <1>1 DEF Sent, Answered, Flown
<1>2. CASE Succeed(w) \/ NotFound(w) \/ Reject(w) \/ Fail(w)
  BY <1>1, <1>2 DEF Succeed, NotFound, Reject, Fail
<1>3. CASE Transient(w)
  BY <1>1, <1>3 DEF Transient, Fail
<1>4. CASE Resolve(w) \/ GlobalGate(w) \/ UserGate(w) \/ CreateGate(w)
  BY <1>4 DEF Resolve, GlobalGate, UserGate, CreateGate
<1>5. CASE Reserve(w) \/ ReserveFails(w) \/ RecordCreated(w) \/ RecordFails(w)
  BY <1>5 DEF Reserve, ReserveFails, RecordCreated, RecordFails
<1> QED BY <1>2, <1>3, <1>4, <1>5 DEF Step

LEMMA FlownBills ==
  ASSUME TypeInv, NEW w \in Workers, Flown(w)
  PROVE  Billed' = Billed + Paid(Units, req[w])
<1>1. /\ sent \in Table /\ req[w].rday \in Days /\ req[w].user \in Users
      /\ req[w].pc = "sent"
  BY DEF TypeInv, TypeOK, Steady, Request, Flown
<1>2. Cost(req[w].call) \in Nat
  BY CostType
<1>3. PICK x : x = [sent EXCEPT ![req[w].rday][req[w].user] = @ + Cost(req[w].call)]
  OBVIOUS
<1>4. Bill(x) = Bill(sent) + Cost(req[w].call)
  <2>1. PICK d \in Days, u \in Users, n \in Nat :
           d = req[w].rday /\ u = req[w].user /\ n = Cost(req[w].call)
    BY <1>1, <1>2
  <2>2. Bill([sent EXCEPT ![d][u] = @ + n]) = Bill(sent) + n
    BY <1>1, BillUpdate
  <2> QED BY <1>3, <2>1, <2>2
<1>5. sent' = x
  BY <1>3 DEF Flown
<1>6. Billed' = Bill(x) /\ Billed = Bill(sent)
  BY <1>5 DEF Billed, Bill
<1>7. Paid(Units, req[w]) = Cost(req[w].call)
  BY <1>1 DEF Paid, Units, AnswerPrice, Cost
<1> QED BY <1>4, <1>6, <1>7

LEMMA BillStep ==
  ASSUME TypeInv, BillBounded, [Next]_vars
  PROVE  BillBounded'
<1> DEFINE before == Total(Unbilled(req), Workers)
           after  == Total(Unbilled(req'), Workers)
<1>1. Billed \in Nat
  BY BillType DEF Billed, Bill, TypeInv, TypeOK
<1>2. RestoreCost = 2 * PassPrice(Units) /\ PassPrice(Units) \in Nat /\ requests \in Nat
  BY PriceTypes, StepsAndUnits, BoundsAssumption
     DEF RestoreCost, MAX_PLAYLIST_RESOLUTION_ATTEMPTS, TypeInv, TypeOK
<1>3. Billed + before <= requests * RestoreCost
  BY DEF BillBounded
<1>4. ASSUME requests' = requests, Billed' \in Nat, after \in Int,
             Billed' + after <= Billed + before
      PROVE  BillBounded'
  <2>1. before \in Nat
    BY UnbilledType DEF TypeInv
  <2>2. PICK c \in Nat : c = requests * RestoreCost
    BY <1>2
  <2>3. Billed' + after <= c
    BY <1>1, <1>3, <1>4, <2>1, <2>2
  <2> QED BY <1>4, <2>2, <2>3 DEF BillBounded
<1>5. ASSUME NEW w \in Workers, Step(w)
      PROVE  BillBounded'
  <2> DEFINE a == Ahead(Units, req[w])
             b == Ahead(Units, req'[w])
  <2>1. after = before - a + b /\ before \in Nat /\ a \in Nat /\ b \in Nat
    BY <1>5, UnbilledStep
  <2>2. b + Paid(Units, req[w]) <= a
    BY <1>5, StepPays, StepsAndUnits DEF Pays
  <2>3. Paid(Units, req[w]) \in Nat
    BY PriceTypes, StepsAndUnits DEF Paid
  <2>4. Billed' = Billed \/ Billed' = Billed + Paid(Units, req[w])
    BY <1>5, StepBills, FlownBills DEF Billed
  <2>5. requests' = requests
    BY <1>5, StepBills
  <2> QED BY <1>1, <1>4, <2>1, <2>2, <2>3, <2>4, <2>5
<1>6. ASSUME NEW w \in Workers, Die(w)
      PROVE  BillBounded'
  <2> DEFINE a == Ahead(Units, req[w])
             b == Ahead(Units, req'[w])
  <2>1. after = before - a + b /\ before \in Nat /\ a \in Nat /\ b \in Nat
    BY <1>6, UnbilledStep
  <2>2. b = 0
    <3>1. req'[w] = Idle
      BY <1>6 DEF Die, TypeInv, TypeOK
    <3> QED BY <3>1, AheadIdle
  <2>3. Paid(Units, req[w]) \in Nat /\ Paid(Units, req[w]) <= a
    BY <1>6, AheadPays, StepsAndUnits DEF Die, TypeInv
  <2>4. Billed' = Billed \/ Billed' = Billed + Paid(Units, req[w])
    <3>1. sent' = sent \/ Flown(w)
      BY <1>6 DEF Die, Flown
    <3> QED BY <3>1, FlownBills DEF Billed
  <2>5. requests' = requests
    BY <1>6 DEF Die
  <2> QED BY <1>1, <1>4, <2>1, <2>2, <2>3, <2>4, <2>5
<1>7. ASSUME NEW w \in Workers, NEW u \in Users, StartRestore(w, u)
      PROVE  BillBounded'
  <2> DEFINE a == Ahead(Units, req[w])
             b == Ahead(Units, req'[w])
             c == PassPrice(Units)
  <2>1. after = before - a + b /\ before \in Nat /\ a \in Nat /\ b \in Nat
    BY <1>7, UnbilledStep
  <2>2. b = c + c
    <3>1. req'[w].pc = "resolve" /\ req'[w].pass = 1
      BY <1>7 DEF StartRestore, Idle, TypeInv, TypeOK
    <3>2. Steady(req'[w])
      BY <1>7, StepKinds, ThreadSteady
    <3>3. b = PassesPrice(Units, req'[w]) + c
      BY <3>1, <3>2, AheadForms, StepsAndUnits
    <3>4. PassesPrice(Units, req'[w]) = (2 - 1) * c
      BY <3>1 DEF PassesPrice, MAX_PLAYLIST_RESOLUTION_ATTEMPTS
    <3> QED BY <1>2, <3>3, <3>4
  <2>3. requests' = requests + 1 /\ sent' = sent
    BY <1>7 DEF StartRestore
  <2>4. Billed' = Billed
    BY <2>3 DEF Billed
  <2>5. (requests + 1) * RestoreCost = requests * RestoreCost + RestoreCost
    BY <1>2
  <2>6. requests * RestoreCost \in Int /\ RestoreCost = c + c
    BY <1>2
  <2>7. Billed' + after <= (requests + 1) * RestoreCost
    BY <1>1, <1>2, <1>3, <2>1, <2>2, <2>4, <2>5, <2>6
  <2> QED BY <2>3, <2>7 DEF BillBounded
<1>8. CASE (\E u \in Users : PurgeUsage(u) \/ RemoveUser(u)) \/ Midnight \/ UNCHANGED vars
  BY <1>8 DEF PurgeUsage, RemoveUser, RowsGo, Midnight, vars, BillBounded, Billed
<1> QED BY <1>5, <1>6, <1>7, <1>8 DEF Next

\* No restore bills more than its loops are good for (YTM_MAX_RETRIES, PLAYLIST_SYNC_MAX_PAGES,
\* MAX_PLAYLIST_RESOLUTION_ATTEMPTS, the tracks of a snapshot): all that the accounts have ever
\* been billed, on whatever days, through retries, repeated passes, deaths, lost reservations
\* and deletions, is within the restores accepted times that, with room for what those under
\* way may still bill.
THEOREM BillsAreBounded == Spec => [](BillBounded /\ Billed <= requests * RestoreCost)
<1>1. Init => BillBounded
  <2> SUFFICES ASSUME Init PROVE BillBounded
    OBVIOUS
  <2>1. TypeInv
    BY TypeInit
  <2>2. PICK f : f = Unbilled(req)
    OBVIOUS
  <2>3. \A w \in Workers : f[w] = 0
    BY <2>2, AheadIdle DEF Init, Unbilled
  <2>4. Total(f, Workers) = 0
    BY <2>1, <2>2, <2>3, UnbilledType, TotalZero, ActorsAssumption DEF TypeInv
  <2>5. PICK g : g = [d \in Days |-> Total(sent[d], Users)]
    OBVIOUS
  <2>6. sent \in Table
    BY <2>1 DEF TypeInv, TypeOK
  <2>7. g \in [Days -> Nat] /\ IsFiniteSet(Days)
    BY <2>5, <2>6, BillType
  <2>8. ASSUME NEW d \in Days PROVE g[d] = 0
    <3>1. PICK h : h = sent[d]
      OBVIOUS
    <3>2. h \in [Users -> Nat] /\ \A u \in Users : h[u] = 0
      BY <2>6, <3>1 DEF Init, Table
    <3> QED BY <2>5, <3>1, <3>2, TotalZero, ActorsAssumption
  <2>9. Billed = 0
    BY <2>5, <2>7, <2>8, TotalZero DEF Billed
  <2>10. requests * RestoreCost \in Nat
    <3>1. RestoreCost \in Nat /\ requests = 0
      BY PriceTypes, StepsAndUnits
         DEF Init, RestoreCost, MAX_PLAYLIST_RESOLUTION_ATTEMPTS
    <3> QED BY <3>1
  <2> QED BY <2>2, <2>4, <2>9, <2>10 DEF BillBounded
<1>2. TypeInv /\ BillBounded => Billed <= requests * RestoreCost
  <2> SUFFICES ASSUME TypeInv, BillBounded PROVE Billed <= requests * RestoreCost
    OBVIOUS
  <2>1. Billed \in Nat /\ Total(Unbilled(req), Workers) \in Nat
    BY BillType, UnbilledType DEF Billed, Bill, TypeInv, TypeOK
  <2>2. requests * RestoreCost \in Int
    BY PriceTypes, StepsAndUnits, BoundsAssumption
       DEF RestoreCost, MAX_PLAYLIST_RESOLUTION_ATTEMPTS, TypeInv, TypeOK
  <2> QED BY <2>1, <2>2 DEF BillBounded
<1> QED
  BY TypeInit, TypeStep, BillStep, <1>1, <1>2, PTL DEF Spec

=============================================================================
