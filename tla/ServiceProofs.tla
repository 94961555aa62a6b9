---------------------------- MODULE ServiceProofs ----------------------------
(***************************************************************************)
(* What Service says of the record and the keys, for every set of          *)
(* environments, any number of threads, starts and faults.  Of the schema  *)
(* only the phase matters to requests: keys are loaded where a process     *)
(* begins, and requests are served where it is up.  What MigrationsProofs  *)
(* shows of the schema carries over, as requests leave it alone.           *)
(***************************************************************************)
EXTENDS Service, MigrationsProofs

USE DEF schemaVars, vaultVars

\* What a thread may do next, given the phase, the keys and the record.
Fit(pc, p, r, g) ==
  /\ pc \in PCs
  /\ pc # "idle" => p = "up"
  /\ pc = "call" => ~NeedsReencrypt(g, r)
  /\ pc = "reencrypt" => r = NoRecord \/ Opens(g, r) \/ r = Sealed(g)

RecordInv ==
  /\ record = NoRecord \/ record.version \in {"v3", "v2", "fernet"}
  /\ record.version = "v3" => Pair(record.id, record.key) \in used

RingInv ==
  Running =>
    /\ ring.active \in used
    /\ ring.active = Pair(ring.active.id, ring.active.key)
    /\ ring.previous = [i \in {j \in DOMAIN given.previous : Listed(given.previous[j])}
                          |-> given.previous[i]]

ThreadInv ==
  /\ thread \in [Workers -> PCs]
  /\ \A w \in Workers : Fit(thread[w], phase, record, ring)

\* The inductive invariant.
IInv == RecordInv /\ RingInv /\ ThreadInv

-----------------------------------------------------------------------------
(* Records.                                                                  *)

LEMMA NoneOrVersion == NoRecord.version = "none"
  BY DEF NoRecord

\* What was just sealed, and the empty record, need no re-encryption.
LEMMA SealedIsCurrent ==
  ASSUME NEW g
  PROVE  ~NeedsReencrypt(g, Sealed(g)) /\ ~NeedsReencrypt(g, NoRecord)
  BY DEF NeedsReencrypt, Sealed, NoRecord

\* A thread is as fit with a record just sealed, or none, as with the one before.
LEMMA StaysFit ==
  ASSUME NEW pc, NEW p, NEW r, NEW g, Fit(pc, p, r, g)
  PROVE  Fit(pc, p, Sealed(g), g) /\ Fit(pc, p, NoRecord, g)
  BY SealedIsCurrent DEF Fit

LEMMA IdleFit ==
  ASSUME NEW p, NEW r, NEW g
  PROVE  Fit("idle", p, r, g)
  BY DEF Fit, PCs

-----------------------------------------------------------------------------
(* Steps.                                                                    *)

LEMMA InitInv == Init => IInv
<1> SUFFICES ASSUME Init PROVE IInv
  OBVIOUS
<1>1. RecordInv
  <2>1. record = NoRecord \/ record.version \in {"v3", "v2", "fernet"}
    <3>1. CASE record \in {NoRecord, Unnamed("fernet", 0)}
      BY <3>1 DEF Unnamed
    <3>2. CASE record \notin {NoRecord, Unnamed("fernet", 0)}
      <4>1. PICK env \in Environments :
              record \in {Unnamed("v2", env.key), Sealed([active |-> Pair(env.id, env.key)])}
        BY <3>2 DEF Init
      <4> QED
        BY <4>1 DEF Unnamed, Sealed
    <3> QED
      BY <3>1, <3>2
  <2>2. record.version = "v3" => Pair(record.id, record.key) \in used
    BY DEF Init
  <2> QED
    BY <2>1, <2>2 DEF RecordInv
<1>2. RingInv
  BY DEF Init, SchemaInit, RingInv, Running
<1>3. ThreadInv
  BY IdleFit DEF Init, ThreadInv, Idle, PCs
<1> QED
  BY <1>1, <1>2, <1>3 DEF IInv

\* While no process serves, no request is in hand.
LEMMA DownIsIdle ==
  ASSUME ThreadInv, phase # "up"
  PROVE  \A w \in Workers : thread[w] = "idle"
  BY DEF ThreadInv, Fit

LEMMA StartInv ==
  ASSUME IInv, Start
  PROVE  IInv'
<1>1. phase = "down"
  BY DEF Start, CreateAll, Begins
<1>2. PICK env \in Environments :
        /\ given' = env
        /\ ring' = LoadMasterKeys(env, MaxKeys + starts')
        /\ used' = used \cup {ring'.active}
  BY DEF Start
<1>3. UNCHANGED <<record, thread>>
  BY DEF Start
<1>4. RecordInv'
  BY <1>2, <1>3 DEF IInv, RecordInv
<1>5. RingInv'
  <2>1. ring'.active = Active(env, MaxKeys + starts')
    BY <1>2 DEF LoadMasterKeys
  <2>2. ring'.active = Pair(ring'.active.id, ring'.active.key)
    BY <2>1 DEF Active, Pair
  <2>3. ring'.previous = [i \in {j \in DOMAIN given'.previous : Listed(given'.previous[j])}
                           |-> given'.previous[i]]
    BY <1>2 DEF LoadMasterKeys
  <2> QED
    BY <1>2, <2>2, <2>3 DEF RingInv
<1>6. ThreadInv'
  BY <1>1, <1>3, DownIsIdle, IdleFit DEF IInv, ThreadInv
<1> QED
  BY <1>4, <1>5, <1>6 DEF IInv

\* Work on the schema begins and ends no service, except that a boot ends in one.
LEMMA SchemaPhase ==
  ASSUME SchemaWork
  PROVE  phase # "up" /\ UNCHANGED vaultVars /\ (Running' => Running)
<1>1. CASE RunMigrations
  BY <1>1 DEF SchemaWork, RunMigrations, Begins, Running
<1>2. CASE UndoLast
  BY <1>2 DEF SchemaWork, UndoLast, Begins, Running
<1>3. CASE Apply
  BY <1>3 DEF SchemaWork, Apply, Applying, Running
<1>4. CASE Applied
  BY <1>4 DEF SchemaWork, Applied, Applying, Over, Running
<1>5. CASE Undo
  BY <1>5 DEF SchemaWork, Undo, Running
<1>6. CASE Undone
  BY <1>6 DEF SchemaWork, Undone, Over, Running
<1>7. CASE ApplyFails
  BY <1>7 DEF SchemaWork, ApplyFails, Applying, Running
<1>8. CASE UndoFails
  BY <1>8 DEF SchemaWork, UndoFails, Running
<1> QED
  BY <1>1, <1>2, <1>3, <1>4, <1>5, <1>6, <1>7, <1>8 DEF SchemaWork, SchemaStep

LEMMA SchemaInv ==
  ASSUME IInv, SchemaWork
  PROVE  IInv'
<1>1. phase # "up" /\ UNCHANGED vaultVars /\ (Running' => Running)
  BY SchemaPhase
<1>2. RecordInv' /\ RingInv'
  BY <1>1 DEF IInv, RecordInv, RingInv
<1>3. ThreadInv'
  BY <1>1, DownIsIdle, IdleFit DEF IInv, ThreadInv
<1> QED
  BY <1>2, <1>3 DEF IInv

LEMMA ExitInv ==
  ASSUME IInv, Exit
  PROVE  IInv'
<1>1. phase' = "down" /\ thread' = Idle /\ UNCHANGED <<record, used>>
  BY DEF Exit, Stop, Killed, Over
<1>2. RecordInv' /\ RingInv'
  BY <1>1 DEF IInv, RecordInv, RingInv, Running
<1>3. ThreadInv'
  BY <1>1, IdleFit DEF ThreadInv, Idle, PCs
<1> QED
  BY <1>2, <1>3 DEF IInv

\* A thread goes on and leaves the record, the keys and the phase as they are.
LEMMA GoesInv ==
  ASSUME IInv, NEW w \in Workers, NEW pc, Goes(w, pc),
         UNCHANGED <<phase, record, given, ring, used>>, Fit(pc, phase, record, ring)
  PROVE  IInv'
<1>1. RecordInv' /\ RingInv'
  BY DEF IInv, RecordInv, RingInv, Running
<1>2. pc \in PCs
  BY DEF Fit
<1>3. ThreadInv'
  BY <1>2 DEF IInv, ThreadInv, Goes
<1> QED
  BY <1>1, <1>3 DEF IInv

\* A thread writes the record, sealed just now or empty, and goes on.
LEMMA CommitsInv ==
  ASSUME IInv, NEW w \in Workers, NEW pc, NEW r \in {Sealed(ring), NoRecord},
         phase = "up", Commits(w, r, pc), Fit(pc, "up", r, ring)
  PROVE  IInv'
<1>1. /\ record' = r /\ Goes(w, pc)
      /\ UNCHANGED <<phase, given, ring, used>>
  BY DEF Commits
<1>2. RecordInv'
  <2>1. CASE r = NoRecord
    BY <1>1, <2>1, NoneOrVersion DEF RecordInv
  <2>2. CASE r = Sealed(ring)
    <3>1. Pair(ring.active.id, ring.active.key) \in used
      BY DEF IInv, RingInv, Running
    <3>2. r.version = "v3" /\ Pair(r.id, r.key) = Pair(ring.active.id, ring.active.key)
      BY <2>2 DEF Sealed
    <3> QED
      BY <1>1, <3>1, <3>2 DEF RecordInv
  <2> QED
    BY <2>1, <2>2
<1>3. RingInv'
  BY <1>1 DEF IInv, RingInv, Running
<1>4. pc \in PCs
  BY DEF Fit
<1>5. \A v \in Workers : Fit(thread[v], phase, r, ring)
  BY StaysFit DEF IInv, ThreadInv
<1>6. ThreadInv'
  BY <1>1, <1>4, <1>5 DEF IInv, ThreadInv, Goes
<1> QED
  BY <1>2, <1>3, <1>6 DEF IInv

LEMMA RequestInv ==
  ASSUME IInv, NEW w \in Workers, Request(w)
  PROVE  IInv'
<1> DEFINE Same == UNCHANGED <<phase, record, given, ring, used>>
<1>1. Fit(thread[w], phase, record, ring)
  BY DEF IInv, ThreadInv
<1>2. ASSUME NEW pc, Accept(w, pc), Fit(pc, phase, record, ring)
      PROVE  IInv'
  BY <1>2, GoesInv DEF Accept
<1>3. CASE SignIn(w)
  <2>1. Fit("save", phase, record, ring)
    BY <1>3 DEF SignIn, Accept, Fit, PCs
  <2> QED
    BY <1>2, <1>3, <2>1 DEF SignIn
<1>4. CASE Restore(w)
  <2> DEFINE pc == IF NeedsReencrypt(ring, record) THEN "reencrypt" ELSE "call"
  <2>1. Accept(w, pc) /\ Opens(ring, record) /\ phase = "up"
    BY <1>4 DEF Restore, Accept
  <2>2. Fit(pc, phase, record, ring)
    BY <2>1 DEF Fit, PCs
  <2> QED
    BY <1>2, <2>1, <2>2
<1>5. CASE Save(w)
  <2>1. phase = "up" /\ Commits(w, Sealed(ring), "idle")
    BY <1>1, <1>5 DEF Save, Fit
  <2> QED
    BY <2>1, CommitsInv, IdleFit
<1>6. CASE Reencrypt(w)
  <2>1. phase = "up" /\ Commits(w, Sealed(ring), "call")
    BY <1>1, <1>6 DEF Reencrypt, Fit
  <2>2. Fit("call", "up", Sealed(ring), ring)
    BY SealedIsCurrent DEF Fit, PCs
  <2> QED
    BY <2>1, <2>2, CommitsInv
<1>7. CASE Wipe(w)
  <2>1. phase = "up" /\ Commits(w, NoRecord, "idle")
    BY <1>1, <1>7 DEF Wipe, Fit
  <2> QED
    BY <2>1, CommitsInv, IdleFit
<1>8. CASE CallEnds(w)
  <2>1. PICK pc \in {"idle", "wipe"} : Goes(w, pc)
    BY <1>8 DEF CallEnds
  <2>2. Fit(pc, phase, record, ring)
    BY <1>1, <1>8 DEF CallEnds, Fit, PCs
  <2>3. Same
    BY <1>8 DEF CallEnds
  <2> QED
    BY <2>1, <2>2, <2>3, GoesInv
<1>9. CASE CommitFails(w)
  BY <1>9, GoesInv, IdleFit DEF CommitFails
<1> QED
  BY <1>3, <1>4, <1>5, <1>6, <1>7, <1>8, <1>9 DEF Request

LEMMA StutterInv ==
  ASSUME IInv, UNCHANGED serviceVars
  PROVE  IInv'
<1>1. UNCHANGED <<phase, record, given, ring, used, thread>>
  BY DEF serviceVars
<1> QED
  BY <1>1 DEF IInv, RecordInv, RingInv, Running, ThreadInv

THEOREM Invariance == Spec => []IInv
<1>1. IInv /\ [Next]_serviceVars => IInv'
  BY StartInv, SchemaInv, ExitInv, RequestInv, StutterInv DEF Next
<1> QED
  BY <1>1, InitInv, PTL DEF Spec

-----------------------------------------------------------------------------
(* What it means for the record.                                             *)

\* A restore that comes to its calls has left a record under the active key.
THEOREM CallsAreRewrapped == Spec => []AccessRewraps
<1>1. IInv => AccessRewraps
  BY DEF IInv, ThreadInv, Fit, AccessRewraps
<1> QED
  BY <1>1, Invariance, PTL

\* With every key kept and no id twice, every record that names its key is opened.
THEOREM KeptKeysSuffice == Spec => []KeptKeysOpen
<1>1. ASSUME IInv, Running, KeepsKeys, record.version = "v3"
      PROVE  Finds(ring, record.id, record.key)
  <2> DEFINE p == given.previous
             n == {i \in DOMAIN p : Listed(p[i])}
             e == Pair(record.id, record.key)
  <2>1. e \in {ring.active} \cup {p[i] : i \in n}
    BY <1>1 DEF IInv, RecordInv, KeepsKeys
  <2>2. ring.previous = [i \in n |-> p[i]]
    BY <1>1 DEF IInv, RingInv
  <2>3. e.id = record.id
    BY DEF Pair
  <2>4. CASE e = ring.active
    <3>1. \A i \in n : p[i].id # record.id
      BY <1>1, <2>3, <2>4 DEF KeepsKeys
    <3> QED
      BY <2>2, <2>4, <3>1 DEF Finds
  <2>5. CASE e # ring.active
    <3>1. PICK i \in n : p[i] = e
      BY <2>1, <2>5
    <3>2. \A j \in n : j > i => p[j].id # record.id
      BY <1>1, <2>3, <3>1 DEF KeepsKeys
    <3> QED
      BY <2>2, <3>1, <3>2 DEF Finds
  <2> QED
    BY <2>4, <2>5
<1>2. IInv => KeptKeysOpen
  BY <1>1 DEF KeptKeysOpen, Opens
<1> QED
  BY <1>2, Invariance, PTL

\* With no id used twice, what is not to be sealed again opens with the active key.
THEOREM KeysCanRetire == Spec => []RetireSafe
<1>1. ASSUME IInv, Running, \A p, q \in used : p.id = q.id => p = q,
             record # NoRecord, ~NeedsReencrypt(ring, record)
      PROVE  Opens([ring EXCEPT !.previous = <<>>], record)
  <2> DEFINE g == [ring EXCEPT !.previous = <<>>]
             e == Pair(record.id, record.key)
  <2>1. record.version = "v3" /\ record.id = ring.active.id
    BY <1>1 DEF IInv, RecordInv, NeedsReencrypt
  <2>2. e \in used /\ ring.active \in used /\ e.id = ring.active.id
    BY <1>1, <2>1 DEF IInv, RecordInv, RingInv, Pair
  <2>3. e = ring.active
    BY <1>1, <2>2
  <2>4. g.active = ring.active /\ g.previous = <<>>
    OBVIOUS
  <2>5. DOMAIN g.previous = {}
    BY <2>4
  <2>6. Finds(g, record.id, record.key)
    BY <2>3, <2>4, <2>5 DEF Finds
  <2> QED
    BY <2>1, <2>6 DEF Opens
<1>2. IInv => RetireSafe
  BY <1>1 DEF RetireSafe
<1> QED
  BY <1>2, Invariance, PTL

\* Reading never destroys a record that cannot be opened.
THEOREM ReadingKeeps == Spec => UnreadableIsKept
<1>1. ASSUME IInv, [Next]_serviceVars, Running, ~Opens(ring, record), record # NoRecord,
             record' # record
      PROVE  \E w \in Workers : thread[w] \in {"save", "wipe"} /\ thread'[w] # thread[w]
  <2>1. ~Start
    BY <1>1 DEF Start
  <2>2. ~SchemaWork
    BY <1>1 DEF SchemaWork
  <2>3. ~Exit
    BY <1>1 DEF Exit
  <2>4. PICK w \in Workers : Request(w)
    BY <1>1, <2>1, <2>2, <2>3 DEF Next, serviceVars
  <2>5. ~SignIn(w) /\ ~Restore(w) /\ ~CallEnds(w) /\ ~CommitFails(w)
    BY <1>1 DEF SignIn, Restore, Accept, CallEnds, CommitFails
  <2>6. ~Reencrypt(w)
    BY <1>1 DEF IInv, ThreadInv, Fit, Reencrypt, Commits
  <2>7. thread \in [Workers -> PCs]
    BY <1>1 DEF IInv, ThreadInv
  <2>8. CASE Save(w)
    BY <2>7, <2>8 DEF Save, Commits, Goes
  <2>9. CASE Wipe(w)
    BY <2>7, <2>9 DEF Wipe, Commits, Goes
  <2> QED
    BY <2>4, <2>5, <2>6, <2>8, <2>9 DEF Request
<1>2. IInv /\ [Next]_serviceVars
      => [record # NoRecord /\ Running /\ ~Opens(ring, record) /\ record' # record =>
            \E w \in Workers : thread[w] \in {"save", "wipe"} /\ thread'[w] # thread[w]]_serviceVars
  BY <1>1
<1> QED
  BY <1>2, Invariance, PTL DEF Spec, UnreadableIsKept

-----------------------------------------------------------------------------
(* Types, and the schema under requests.                                     *)

ActiveKeys == [id : KeyIds \cup {Bare}, key : 0 .. MaxKeys + MaxStarts]
SealedWith == [id : KeyIds, key : 1 .. MaxKeys + MaxStarts]
OlderKeys  == [id : KeyIds, key : 1 .. MaxKeys]

KeysTypeOK ==
  /\ ring.active \in ActiveKeys
  /\ \A i \in DOMAIN ring.previous : ring.previous[i] \in OlderKeys
  /\ used \subseteq SealedWith

LEMMA NoRingType ==
  NoRing.active \in ActiveKeys /\ DOMAIN NoRing.previous = {}
<1>1. NoRing.active = Pair(Bare, 0)
  BY DEF NoRing, LoadMasterKeys, Active, NoEnv, Pair
<1>2. Pair(Bare, 0) \in ActiveKeys
  BY VaultAssumption, MigrationsAssumption DEF Pair, ActiveKeys
<1>3. DOMAIN NoRing.previous = {j \in DOMAIN NoEnv.previous : Listed(NoEnv.previous[j])}
  BY DEF NoRing, LoadMasterKeys
<1>4. NoEnv.previous = <<>>
  BY DEF NoEnv
<1> QED BY <1>1, <1>2, <1>3, <1>4

LEMMA KeysInit == Init => KeysTypeOK
<1> SUFFICES ASSUME Init PROVE KeysTypeOK
  OBVIOUS
<1>1. ASSUME record.version = "v3"
      PROVE  Pair(record.id, record.key) \in SealedWith
  <2>1. PICK env \in Environments : env.key \in 1 .. MaxKeys /\ record = Sealed([active |-> Pair(env.id, env.key)])
    BY <1>1 DEF Init, NoRecord, Unnamed
  <2>2. record.id = env.id /\ record.key = env.key
    BY <2>1 DEF Sealed, Pair
  <2>3. env.id \in KeyIds /\ env.key \in 1 .. MaxKeys + MaxStarts
    BY <2>1, VaultAssumption, MigrationsAssumption
  <2> QED BY <2>2, <2>3 DEF Pair, SealedWith
<1>2. used \subseteq SealedWith
  BY <1>1 DEF Init
<1> QED BY <1>2, NoRingType DEF Init, KeysTypeOK

\* What a process loads.
LEMMA LoadedKeys ==
  ASSUME NEW env \in Environments, ~Refuses(env), NEW n \in 1 .. MaxStarts,
         NEW g, g = LoadMasterKeys(env, MaxKeys + n)
  PROVE  /\ g.active \in SealedWith
         /\ \A i \in DOMAIN g.previous : g.previous[i] \in OlderKeys
<1>1. /\ env.id \in KeyIds /\ env.key \in 0 .. MaxKeys /\ env.previous \in Seq(Entries)
  BY VaultAssumption DEF Refuses
<1>2. g.active = Pair(env.id, IF env.key = 0 THEN MaxKeys + n ELSE env.key)
  BY DEF LoadMasterKeys, Active
<1>3. g.active \in SealedWith
  <2>1. (IF env.key = 0 THEN MaxKeys + n ELSE env.key) \in 1 .. MaxKeys + MaxStarts
    BY <1>1, VaultAssumption, MigrationsAssumption
  <2> QED BY <1>1, <1>2, <2>1 DEF Pair, SealedWith
<1>4. ASSUME NEW i \in DOMAIN g.previous
      PROVE  g.previous[i] \in OlderKeys
  <2>1. i \in DOMAIN env.previous /\ Listed(env.previous[i]) /\ g.previous[i] = env.previous[i]
    BY <1>4 DEF LoadMasterKeys
  <2>2. env.previous[i] \in Entries
    BY <1>1, <2>1
  <2> QED BY <2>1, <2>2 DEF Listed, Entries, OlderKeys
<1> QED BY <1>3, <1>4

LEMMA KeysStep ==
  ASSUME SchemaTypeOK, SchemaTypeOK', KeysTypeOK, [Next]_serviceVars
  PROVE  KeysTypeOK'
<1>1. CASE Start
  <2>1. PICK env \in Environments :
          ~Refuses(env) /\ ring' = LoadMasterKeys(env, MaxKeys + starts') /\ used' = used \cup {ring'.active}
    BY <1>1 DEF Start
  <2>2. starts' \in 1 .. MaxStarts
    BY <1>1, MigrationsAssumption DEF Start, CreateAll, Begins, SchemaTypeOK
  <2>3. /\ ring'.active \in SealedWith
        /\ \A i \in DOMAIN ring'.previous : ring'.previous[i] \in OlderKeys
    BY <2>1, <2>2, LoadedKeys
  <2>4. SealedWith \subseteq ActiveKeys
    BY VaultAssumption, MigrationsAssumption DEF SealedWith, ActiveKeys
  <2> QED BY <2>1, <2>3, <2>4 DEF KeysTypeOK
<1>2. CASE Exit
  BY <1>2, NoRingType DEF Exit, KeysTypeOK
<1>3. CASE UNCHANGED <<ring, used>>
  BY <1>3 DEF KeysTypeOK
<1>4. SchemaWork \/ (\E w \in Workers : Request(w)) \/ UNCHANGED serviceVars => UNCHANGED <<ring, used>>
  BY DEF SchemaWork, serviceVars, Request, SignIn, Restore, Accept, Save, Reencrypt, Wipe, Commits, CallEnds,
         CommitFails
<1> QED BY <1>1, <1>2, <1>3, <1>4 DEF Next

\* Requests leave the schema as it is; a failed commit of theirs counts as a fault.
LEMMA SchemaUnderService ==
  ASSUME SchemaTypeOK, [Next]_serviceVars
  PROVE  (SchemaNext \/ Steady) /\ SchemaTypeOK'
<1>1. CASE Start \/ SchemaWork \/ Exit
  <2>1. SchemaNext
    BY <1>1 DEF Start, SchemaWork, Exit, SchemaNext
  <2> QED BY <2>1, TypeStep
<1>2. CASE \E w \in Workers : CommitFails(w)
  <2>1. faults' \in 0 .. MaxFaults /\ Steady /\ starts' = starts
    BY <1>2, MigrationsAssumption DEF CommitFails, Steady, SchemaTypeOK
  <2> QED BY <2>1 DEF Steady, SchemaTypeOK
<1>3. CASE UNCHANGED schemaVars
  BY <1>3 DEF Steady, SchemaTypeOK
<1>4. UNCHANGED serviceVars => UNCHANGED schemaVars
  BY DEF serviceVars
<1>5. (\E w \in Workers : Request(w)) => (\E w \in Workers : CommitFails(w)) \/ UNCHANGED schemaVars
  BY DEF Request, SignIn, Restore, Accept, Save, Reencrypt, Wipe, Commits, CallEnds
<1> QED BY <1>1, <1>2, <1>3, <1>4, <1>5 DEF Next

LEMMA SchemaInService == Spec => [](SchemaTypeOK /\ BootInv /\ KeysTypeOK)
<1>1. Init => SchemaTypeOK /\ BootInv /\ KeysTypeOK
  BY TypeInit, KeysInit DEF Init, SchemaInit, BootInv
<1>2. SchemaTypeOK /\ BootInv /\ KeysTypeOK /\ [Next]_serviceVars
        => SchemaTypeOK' /\ BootInv' /\ KeysTypeOK'
  BY SchemaUnderService, BootStep, KeysStep
<1> QED BY <1>1, <1>2, PTL DEF Spec

\* The schema, the record, the keys and the threads keep their types.
THEOREM TypeCorrect == Spec => []TypeOK
<1>1. IInv /\ SchemaTypeOK /\ KeysTypeOK => TypeOK
  BY NoneOrVersion DEF IInv, RecordInv, ThreadInv, KeysTypeOK, ActiveKeys, SealedWith, OlderKeys, TypeOK
<1> QED BY <1>1, Invariance, SchemaInService, PTL

\* A startup that nothing disturbs leaves no script pending, whatever the processes, runs
\* and rollbacks before it left and whatever requests do.
THEOREM StartupsUpgradeInService == Spec => UpgradesInOrder
<1>1. SchemaTypeOK /\ BootInv /\ [Next]_serviceVars
        => [phase = "boot" /\ phase' = "up" /\ calm' /\ (dialect = "sqlite" \/ InOrder(found))
              => Pending' = {}]_schemaVars
  BY SchemaUnderService, Upgraded DEF Upgrade
<1> QED BY <1>1, SchemaInService, PTL DEF Spec, UpgradesInOrder

=============================================================================
