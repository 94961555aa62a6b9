--------------------------- MODULE MigrationsProofs ---------------------------
(***************************************************************************)
(* What holds of the schema for any number of startups, explicit runs,     *)
(* rollbacks, failures and kills, and every release there was before.      *)
(*                                                                         *)
(* An undisturbed startup ends with nothing pending because of how the     *)
(* scripts are ordered: tables first, which create_all has already made,   *)
(* then columns, then indexes.  A column that PostgreSQL refuses was there *)
(* before; what the rollback takes was not, and by the order of columns    *)
(* there was nothing to take.                                              *)
(***************************************************************************)
EXTENDS Migrations, TLAPS

USE DEF schemaVars

-----------------------------------------------------------------------------
(* The scripts.                                                              *)

N == 11

\* u is s, of length m, followed by t, of length n.
Joined(S, s, m, t, n, u) ==
  /\ u \in Seq(S) /\ Len(u) = m + n
  /\ \A i \in 1 .. m + n : u[i] = IF i <= m THEN s[i] ELSE t[i - m]

LEMMA Concatenated ==
  ASSUME NEW S, NEW s \in Seq(S), NEW t \in Seq(S), NEW m \in Nat, NEW n \in Nat,
         Len(s) = m, Len(t) = n, NEW u, u = s \o t
  PROVE  Joined(S, s, m, t, n, u)
<1>1. s \o t \in Seq(S) /\ Len(s \o t) = m + n
  OBVIOUS
<1>2. \A i \in 1 .. m + n : (s \o t)[i] = IF i <= m THEN s[i] ELSE t[i - m]
  OBVIOUS
<1> QED BY <1>1, <1>2, Zenon DEF Joined

LEMMA TheStatements ==
  /\ Len(Statements) = N /\ DOMAIN Statements = 1 .. N
  /\ Statements[1] = Table("user_playlists")
  /\ Statements[2] = Table("playlist_items_cache")
  /\ Statements[3] = Table("quota_usage")
  /\ Statements[4] = Column("user_playlists", "verified_at")
  /\ Statements[5] = Column("user_playlists", "title")
  /\ Statements[6] = Column("users", "needs_reconnect")
  /\ Statements[7] = Column("users", "last_seen_at")
  /\ Statements[8] = Column("quota_usage", "playlists_created")
  /\ Statements[9] = Index("playlist_items_cache", "ix_playlist_items_cache_lookup")
  /\ Statements[10] = Index("quota_usage", "ix_quota_usage_date_units")
  /\ Statements[11] = Index("playlist_snapshots", "ix_snapshots_user_category_created")
<1>1. PICK x1, x2, x3, x4, x5, x6, x7, x8, x9, x10, x11 :
        /\ x1 = Table("user_playlists")
        /\ x2 = Table("playlist_items_cache")
        /\ x3 = Table("quota_usage")
        /\ x4 = Column("user_playlists", "verified_at")
        /\ x5 = Column("user_playlists", "title")
        /\ x6 = Column("users", "needs_reconnect")
        /\ x7 = Column("users", "last_seen_at")
        /\ x8 = Column("quota_usage", "playlists_created")
        /\ x9 = Index("playlist_items_cache", "ix_playlist_items_cache_lookup")
        /\ x10 = Index("quota_usage", "ix_quota_usage_date_units")
        /\ x11 = Index("playlist_snapshots", "ix_snapshots_user_category_created")
  OBVIOUS
<1>2. PICK S : S = {x1, x2, x3, x4, x5, x6, x7, x8, x9, x10, x11}
  OBVIOUS
<1>3. PICK a, b, c, d, e : a = <<x1, x2, x3>> /\ b = <<x4, x5>> /\ c = <<x6, x7>> /\ d = <<x8>>
                           /\ e = <<x9, x10, x11>>
  OBVIOUS
<1>4. MIGRATIONS = <<a, b, c, d, e>>
  BY <1>1, <1>3 DEF MIGRATIONS
<1>5. Statements = (((a \o b) \o c) \o d) \o e
  BY <1>4 DEF Statements
<1>6. /\ a \in Seq(S) /\ Len(a) = 3 /\ a[1] = x1 /\ a[2] = x2 /\ a[3] = x3
      /\ b \in Seq(S) /\ Len(b) = 2 /\ b[1] = x4 /\ b[2] = x5
      /\ c \in Seq(S) /\ Len(c) = 2 /\ c[1] = x6 /\ c[2] = x7
      /\ d \in Seq(S) /\ Len(d) = 1 /\ d[1] = x8
      /\ e \in Seq(S) /\ Len(e) = 3 /\ e[1] = x9 /\ e[2] = x10 /\ e[3] = x11
  BY <1>2, <1>3
<1>7. PICK f, g, h : f = a \o b /\ g = f \o c /\ h = g \o d
  OBVIOUS
<1>8. Joined(S, a, 3, b, 2, f)
  BY <1>6, <1>7, Concatenated
<1>9. Joined(S, f, 5, c, 2, g)
  <2>1. f \in Seq(S) /\ Len(f) = 5
    BY <1>8 DEF Joined
  <2> QED BY Concatenated, <1>6, <1>7, <2>1
<1>10. Joined(S, g, 7, d, 1, h)
  <2>1. g \in Seq(S) /\ Len(g) = 7
    BY <1>9 DEF Joined
  <2> QED BY Concatenated, <1>6, <1>7, <2>1
<1>11. Statements = h \o e
  BY <1>5, <1>7
<1>12. Joined(S, h, 8, e, 3, Statements)
  <2>1. h \in Seq(S) /\ Len(h) = 8
    BY <1>10 DEF Joined
  <2> QED BY Concatenated, <1>6, <1>11, <2>1
<1>13. Len(Statements) = N /\ DOMAIN Statements = 1 .. N
  BY <1>12 DEF N, Joined
<1>14. f[1] = x1 /\ f[2] = x2 /\ f[3] = x3 /\ f[4] = x4 /\ f[5] = x5
  BY <1>6, <1>8 DEF Joined
<1>15. g[1] = x1 /\ g[2] = x2 /\ g[3] = x3 /\ g[4] = x4 /\ g[5] = x5 /\ g[6] = x6 /\ g[7] = x7
  BY <1>6, <1>9, <1>14 DEF Joined
<1>16. /\ h[1] = x1 /\ h[2] = x2 /\ h[3] = x3 /\ h[4] = x4 /\ h[5] = x5 /\ h[6] = x6 /\ h[7] = x7
       /\ h[8] = x8
  BY <1>6, <1>10, <1>15 DEF Joined
<1>17. /\ Statements[1] = x1 /\ Statements[2] = x2 /\ Statements[3] = x3 /\ Statements[4] = x4
       /\ Statements[5] = x5 /\ Statements[6] = x6 /\ Statements[7] = x7 /\ Statements[8] = x8
       /\ Statements[9] = x9 /\ Statements[10] = x10 /\ Statements[11] = x11
  BY <1>6, <1>12, <1>16 DEF Joined
<1> QED BY <1>1, <1>13, <1>17

Tables == {Table("users"), Table("playlist_snapshots"), Statements[1], Statements[2], Statements[3]}

\* All differ, and tables come first, then columns.
LEMMA TheOrder ==
  /\ \A i, j \in 1 .. N : i # j => Statements[i] # Statements[j]
  /\ \A i \in 1 .. N : Statements[i].kind = IF i <= 3 THEN "table" ELSE IF i <= 8 THEN "column" ELSE "index"
  /\ \A i \in 1 .. N : Table(Statements[i].table) \in Tables
<1>1. \A i \in 1 .. N : i \in {1, 2, 3, 4, 5, 6, 7, 8, 9, 10, 11}
  BY DEF N
<1>2. \A i, j \in 1 .. N : i # j => Statements[i] # Statements[j]
  BY <1>1, TheStatements DEF Table, Column, Index
<1>3. \A i \in 1 .. N : Statements[i].kind = IF i <= 3 THEN "table" ELSE IF i <= 8 THEN "column" ELSE "index"
  BY <1>1, TheStatements DEF Table, Column, Index
<1>4. \A i \in 1 .. N : Statements[i].table \in {"users", "playlist_snapshots", "user_playlists",
                                               "playlist_items_cache", "quota_usage"}
  BY <1>1, TheStatements DEF Table, Column, Index
<1>5. Tables = {Table("users"), Table("playlist_snapshots"), Table("user_playlists"),
                Table("playlist_items_cache"), Table("quota_usage")}
  BY TheStatements DEF Tables
<1>6. \A i \in 1 .. N : Table(Statements[i].table) \in Tables
  BY <1>4, <1>5
<1> QED BY <1>2, <1>3, <1>6

\* A schema is made of the first tables and of what the statements add, each itself only,
\* but for the table that has a later column.
LEMMA TheElements ==
  /\ Elements = Original \cup {Statements[i] : i \in 1 .. N}
  /\ \A t \in Tables : t \in Elements /\ t = Table(t.table)
  /\ \A i \in 1 .. N : i > 3 => Brings(Statements[i]) = {Statements[i]}
  /\ \A i \in 1 .. N : Brings(Statements[i]) \subseteq Elements
<1>1. Elements = Original \cup {Statements[i] : i \in 1 .. N}
  BY TheStatements DEF Elements, ToSet
<1>2. 1 \in 1 .. N /\ 2 \in 1 .. N /\ 3 \in 1 .. N /\ 8 \in 1 .. N
  BY DEF N
<1>3. \A t \in Tables : t \in Elements
  BY <1>1, <1>2 DEF Tables, Original
<1>4. \A t \in Tables : t = Table(t.table)
  BY TheStatements DEF Tables, Table
<1>5. \A i \in 1 .. N : i > 3 => Brings(Statements[i]) = {Statements[i]}
  BY <1>2, TheStatements, TheOrder DEF Brings
<1>6. \A i \in 1 .. N : Brings(Statements[i]) \subseteq Elements
  BY <1>1, <1>2, TheStatements DEF Brings
<1> QED BY <1>1, <1>3, <1>4, <1>5, <1>6

-----------------------------------------------------------------------------
(* Types.                                                                    *)

LEMMA TypeInit == SchemaInit => SchemaTypeOK
<1> SUFFICES ASSUME SchemaInit PROVE SchemaTypeOK
  OBVIOUS
<1>1. schema \subseteq Elements
  <2>1. \A n : Release(n) \subseteq Elements
    BY DEF Release, Elements
  <2> QED BY <2>1 DEF SchemaInit
<1>2. 1 \in 1 .. Len(Statements) + 1
  BY TheStatements DEF N
<1> QED BY <1>1, <1>2, MigrationsAssumption DEF SchemaInit, SchemaTypeOK, PHASES

LEMMA TypeStep ==
  ASSUME SchemaTypeOK, SchemaNext
  PROVE  SchemaTypeOK'
<1> USE MigrationsAssumption DEF SchemaTypeOK, PHASES
<1>0. Len(Statements) = N /\ N = 11
  BY TheStatements DEF N
<1>1. ASSUME NEW p \in PHASES, NEW s, s \subseteq Elements, Begins(p, s)
      PROVE  SchemaTypeOK'
  BY <1>0, <1>1 DEF Begins
<1>2. CASE CreateAll
  BY <1>1, <1>2 DEF CreateAll
<1>3. CASE RunMigrations \/ UndoLast
  BY <1>1, <1>3 DEF RunMigrations, UndoLast
<1>4. CASE Apply
  <2>1. at \in 1 .. N /\ at + 1 \in 1 .. N + 1
    BY <1>0, <1>4 DEF Apply
  <2>2. Brings(Statements[at]) \subseteq Elements
    BY <2>1, TheElements
  <2>3. schema' \subseteq Elements /\ view' \subseteq Elements
    BY <1>4, <2>2 DEF Apply, Execute, Rollback
  <2> QED BY <1>0, <1>4, <2>1, <2>3 DEF Apply
<1>5. CASE Undo
  <2>1. at + 1 \in 1 .. N + 1
    BY <1>0, <1>5 DEF Undo
  <2>2. schema' \subseteq Elements /\ view' \subseteq Elements
    BY <1>5 DEF Undo, Execute, Rollback
  <2> QED BY <1>0, <1>5, <2>1, <2>2 DEF Undo
<1>6. SchemaFault => faults' \in 0 .. MaxFaults /\ calm' \in BOOLEAN
  <2>1. SchemaFault => faults' \in 0 .. MaxFaults
    BY DEF SchemaFault
  <2>2. SchemaFault => calm' \in BOOLEAN
    BY Zenon DEF SchemaFault
  <2> QED BY <2>1, <2>2
<1>7. CASE ApplyFails \/ UndoFails
  <2>1. at' \in 1 .. N + 1
    BY <1>0, <1>7 DEF ApplyFails, UndoFails
  <2>2. schema' = schema /\ view' = schema /\ SchemaFault /\ UNCHANGED <<dialect, phase, found, starts>>
    BY <1>7 DEF ApplyFails, UndoFails, Rollback
  <2> QED BY <1>0, <1>6, <2>1, <2>2
<1>9. CASE Applied \/ Undone \/ Killed
  <2>1. at' \in 1 .. N + 1
    BY <1>0, <1>9 DEF Applied, Undone, Killed, Over
  <2>2. schema' \subseteq Elements /\ view' \subseteq Elements
    BY <1>9 DEF Applied, Undone, Killed, Commit, Rollback
  <2>3. phase' \in PHASES /\ found' = {} /\ UNCHANGED <<dialect, starts>>
    BY <1>9 DEF Applied, Undone, Killed, Over
  <2>4. SchemaFault \/ UNCHANGED <<calm, faults>>
    BY <1>9 DEF Applied, Undone, Killed
  <2> QED BY <1>0, <1>6, <2>1, <2>2, <2>3, <2>4
<1>8. CASE Stop
  BY <1>8 DEF Stop
<1> QED BY <1>2, <1>3, <1>4, <1>5, <1>7, <1>8, <1>9 DEF SchemaNext, SchemaStep

-----------------------------------------------------------------------------
(* An undisturbed startup.                                                   *)

Upgradable == dialect = "sqlite" \/ InOrder(found)

\* Nothing that was there is lost, nothing is there but for that and what was executed,
\* and all that was passed is there.
BootInv ==
  phase = "boot" /\ calm =>
    /\ Tables \subseteq found /\ found \subseteq view
    /\ view \subseteq found \cup {Statements[j] : j \in 1 .. at - 1}
    /\ schema = IF Transactional THEN found ELSE view
    /\ Upgradable => \A j \in 1 .. at - 1 : Statements[j] \in view

\* create_all has made every table.
LEMMA BootBegins ==
  ASSUME SchemaTypeOK, CreateAll
  PROVE  BootInv'
<1>1. /\ schema' = schema \cup {e \in Elements : Table(e.table) \notin schema}
      /\ view' = schema' /\ found' = schema' /\ at' = 1
  BY DEF CreateAll, Begins
<1>2. Tables \subseteq found'
  BY <1>1, TheElements
<1>3. \A j \in 1 .. at' - 1 : FALSE
  BY <1>1
<1>4. schema' = IF Transactional' THEN found' ELSE view'
  BY <1>1
<1> QED BY <1>1, <1>2, <1>3, <1>4 DEF BootInv

LEMMA BootApplies ==
  ASSUME SchemaTypeOK, BootInv, Apply
  PROVE  BootInv'
<1> SUFFICES ASSUME phase = "boot", calm, phase' = "boot", calm'
             PROVE  BootInv'
  BY DEF BootInv, Apply
<1>1. /\ at \in 1 .. N /\ at' = at + 1 /\ at' - 1 = at
      /\ UNCHANGED <<dialect, found>>
  BY TheStatements DEF Apply, SchemaTypeOK, N
<1>2. PICK s : s = Statements[at]
  OBVIOUS
<1>3. /\ Tables \subseteq found /\ found \subseteq view
      /\ view \subseteq found \cup {Statements[j] : j \in 1 .. at - 1}
      /\ schema = IF Transactional THEN found ELSE view
      /\ Upgradable => \A j \in 1 .. at - 1 : Statements[j] \in view
  BY DEF BootInv
<1>4. Table(s.table) \in view /\ (s.kind = "table" => s \in found)
  <2>1. at <= 3 => s \in Tables
    <3>1. at <= 3 => at \in {1, 2, 3}
      BY <1>1
    <3> QED BY <1>2, <3>1 DEF Tables
  <2>2. s.kind = "table" => at <= 3
    BY <1>1, <1>2, TheOrder
  <2> QED BY <1>1, <1>2, <1>3, <2>1, <2>2, TheOrder
<1>5. \A j \in 1 .. at : j = at \/ j \in 1 .. at - 1
  BY <1>1
<1>6. CASE Refused(s)
  <2>1. dialect = "postgresql" /\ s.kind = "column" /\ s \in view
    BY <1>3, <1>4, <1>6 DEF Refused, Tables
  <2>2. schema = found /\ Transactional
    BY <1>3, <2>1 DEF Transactional
  <2>3. schema' = schema /\ view' = schema
    BY <1>2, <1>6 DEF Apply, Rollback
  <2>4. s \in found
    <3>1. \A j \in 1 .. at - 1 : Statements[j] # s
      BY <1>1, <1>2, TheOrder DEF N
    <3> QED BY <1>3, <2>1, <3>1
  <2>5. ASSUME InOrder(found), NEW j \in 1 .. at
        PROVE  Statements[j] \in found
    <3>1. j \in 1 .. N /\ j <= at /\ at <= 8
      <4>1. at <= 8
        BY <1>1, <1>2, <2>1, TheOrder
      <4> QED BY <1>1, <4>1 DEF N
    <3>2. CASE j <= 3
      <4>1. j \in {1, 2, 3}
        BY <3>1, <3>2
      <4> QED BY <1>3, <4>1 DEF Tables
    <3>3. CASE j > 3 /\ j # at
      <4>1. Statements[j].kind = "column"
        <5>1. Statements[j].kind = IF j <= 3 THEN "table" ELSE IF j <= 8 THEN "column" ELSE "index"
          BY <3>1, TheOrder
        <5>2. ~(j <= 3) /\ j <= 8
          BY <1>1, <3>1, <3>3
        <5> QED BY <5>1, <5>2
      <4>2. j \in DOMAIN Statements /\ at \in DOMAIN Statements /\ j < at
        BY <1>1, <3>1, <3>3, TheStatements
      <4> QED BY <1>2, <2>1, <2>4, <2>5, <4>1, <4>2 DEF InOrder
    <3>4. CASE j = at
      BY <1>2, <2>4, <3>4
    <3> QED BY <3>1, <3>2, <3>3, <3>4
  <2>6. Upgradable' => InOrder(found)
    BY <1>1, <2>1 DEF Upgradable, InOrder
  <2> QED BY <1>1, <1>3, <2>2, <2>3, <2>5, <2>6 DEF BootInv, Transactional
<1>7. CASE ~Refused(s)
  <2>1. /\ view' = IF s \in view THEN view ELSE view \cup Brings(s)
        /\ schema' = IF Transactional THEN schema ELSE view'
    BY <1>2, <1>7 DEF Apply, Execute
  <2>2. view' = view \cup {s}
    <3>1. CASE s \in view
      BY <2>1, <3>1
    <3>2. CASE s \notin view
      <4>1. at > 3
        <5>1. ~(at <= 3)
          BY <1>1, <1>2, <1>3, <1>4, <3>2, TheOrder
        <5> QED BY <1>1, <5>1
      <4> QED BY <1>1, <1>2, <2>1, <3>2, <4>1, TheElements
    <3> QED BY <3>1, <3>2
  <2>3. view' \subseteq found \cup {Statements[j] : j \in 1 .. at}
    <3>1. at \in 1 .. at /\ 1 .. at - 1 \subseteq 1 .. at
      BY <1>1
    <3> QED BY <1>2, <1>3, <2>2, <3>1
  <2>4. Upgradable' => Upgradable
    BY <1>1 DEF Upgradable, InOrder
  <2>5. Upgradable' => \A j \in 1 .. at : Statements[j] \in view'
    BY <1>2, <1>3, <1>5, <2>2, <2>4
  <2>6. schema' = IF Transactional' THEN found' ELSE view'
    BY <1>1, <1>3, <2>1 DEF Transactional
  <2> QED BY <1>1, <1>3, <2>2, <2>3, <2>5, <2>6 DEF BootInv
<1> QED BY <1>6, <1>7

\* Nothing of the schema changes.
Steady == UNCHANGED <<dialect, schema, view, phase, at, found, calm>>

LEMMA BootStep ==
  ASSUME SchemaTypeOK, BootInv, SchemaNext \/ Steady
  PROVE  BootInv'
<1>1. CASE CreateAll
  BY <1>1, BootBegins
<1>2. CASE Apply
  BY <1>2, BootApplies
<1>3. CASE RunMigrations \/ UndoLast \/ Applied \/ Undo \/ Undone \/ UndoFails \/ Killed \/ Stop
  <2>1. phase' # "boot"
    BY <1>3 DEF RunMigrations, UndoLast, Begins, Applied, Undo, Undone, UndoFails, Killed, Over, Stop
  <2> QED BY <2>1 DEF BootInv
<1>4. CASE ApplyFails
  <2>1. ~calm'
    BY <1>4 DEF ApplyFails, SchemaFault
  <2> QED BY <2>1 DEF BootInv
<1>5. CASE Steady
  BY <1>5 DEF Steady, BootInv, Upgradable, Transactional, InOrder
<1> QED BY <1>1, <1>2, <1>3, <1>4, <1>5 DEF SchemaNext, SchemaStep

\* A startup ends well.
Upgrade ==
  phase = "boot" /\ phase' = "up" /\ calm' /\ (dialect = "sqlite" \/ InOrder(found))
    => Pending' = {}

LEMMA Upgraded ==
  ASSUME SchemaTypeOK, BootInv, SchemaNext \/ Steady
  PROVE  Upgrade
<1> SUFFICES ASSUME phase = "boot", phase' = "up", calm', Upgradable
             PROVE  Pending' = {}
  BY DEF Upgrade, Upgradable
<1>1. Applied /\ ~SchemaFault
  BY DEF SchemaNext, Steady, CreateAll, RunMigrations, UndoLast, Begins, SchemaStep, Apply, Undo, Undone,
         ApplyFails, UndoFails, Killed, Stop, Over, SchemaFault
<1>2. schema' = view /\ calm
  BY <1>1 DEF Applied, Commit
<1>3. at - 1 >= N /\ at \in Nat
  BY <1>1, TheStatements DEF Applied, SchemaTypeOK, N
<1>4. \A j \in 1 .. N : Statements[j] \in view
  BY <1>2, <1>3 DEF BootInv, N
<1>5. \A i \in DOMAIN MIGRATIONS : ToSet(MIGRATIONS[i]) \subseteq {Statements[j] : j \in 1 .. N}
  BY TheStatements DEF MIGRATIONS, ToSet, N
<1> QED BY <1>2, <1>4, <1>5 DEF Pending

-----------------------------------------------------------------------------
(* The theorems.                                                             *)

LEMMA SchemaInvariance == SchemaSpec => [](SchemaTypeOK /\ BootInv)
<1>1. SchemaInit => SchemaTypeOK /\ BootInv
  BY TypeInit DEF SchemaInit, BootInv
<1>2. SchemaTypeOK /\ BootInv /\ [SchemaNext]_schemaVars => SchemaTypeOK' /\ BootInv'
  <2>1. UNCHANGED schemaVars => Steady /\ (SchemaTypeOK => SchemaTypeOK')
    BY DEF Steady, SchemaTypeOK
  <2> QED BY <2>1, TypeStep, BootStep
<1> QED BY <1>1, <1>2, PTL DEF SchemaSpec

\* However the schema came to be what it is, an undisturbed startup leaves no script
\* pending, on PostgreSQL if the columns there are those of the first scripts.
THEOREM StartupsUpgrade == SchemaSpec => UpgradesInOrder
<1>1. SchemaTypeOK /\ BootInv /\ [SchemaNext]_schemaVars
        => [phase = "boot" /\ phase' = "up" /\ calm' /\ (dialect = "sqlite" \/ InOrder(found))
              => Pending' = {}]_schemaVars
  BY Upgraded DEF Upgrade
<1> QED BY <1>1, SchemaInvariance, PTL DEF SchemaSpec, UpgradesInOrder

=============================================================================
