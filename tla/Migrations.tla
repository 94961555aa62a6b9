----------------------------- MODULE Migrations -----------------------------
(***************************************************************************)
(* The schema of the database and what changes it (migrations.py, and the  *)
(* startup in main.py): create_all, which makes missing tables in their    *)
(* current shape, then every statement of every script, in one             *)
(* transaction that a statement that fails rolls back and the rest goes on *)
(* in.  Nothing records what has been applied.                             *)
(*                                                                         *)
(* Every statement is a step: it may fail, and the process may be killed   *)
(* before it.  PostgreSQL keeps schema changes for the commit; SQLite, as  *)
(* its driver is used here, applies each at once.                          *)
(*                                                                         *)
(* What is abstracted: types and defaults; the columns and indexes that    *)
(* were in every release.  One process at a time changes the schema.       *)
(***************************************************************************)
EXTENDS Naturals, Sequences, SequencesExt

CONSTANTS
  Dialects,   \* the databases considered, of "postgresql" and "sqlite"
  MaxStarts,  \* bound: startups, explicit runs and rollbacks
  MaxFaults   \* bound: statements and commits that fail, killed processes

ASSUME MigrationsAssumption ==
  /\ Dialects \subseteq {"postgresql", "sqlite"}
  /\ MaxStarts \in Nat /\ MaxFaults \in Nat

VARIABLES
  dialect,
  schema,   \* what is there, as committed
  view,     \* what is there, as the open transaction has it
  phase,    \* what the process is doing: PHASES
  at,       \* the statement it has come to
  found,    \* history: the schema before the first statement, until the last is done
  calm,     \* history: nothing has failed by accident in this run
  starts, faults

schemaVars == <<dialect, schema, view, phase, at, found, calm, starts, faults>>

\* down, serving; startup, python -m migrations, rollback_last
PHASES == {"down", "up", "boot", "cli", "undo"}

Table(t)     == [kind |-> "table",  table |-> t, name |-> t]
Column(t, c) == [kind |-> "column", table |-> t, name |-> c]
Index(t, i)  == [kind |-> "index",  table |-> t, name |-> i]

MIGRATIONS == <<
  <<Table("user_playlists"), Table("playlist_items_cache"), Table("quota_usage")>>,
  <<Column("user_playlists", "verified_at"), Column("user_playlists", "title")>>,
  <<Column("users", "needs_reconnect"), Column("users", "last_seen_at")>>,
  <<Column("quota_usage", "playlists_created")>>,
  <<Index("playlist_items_cache", "ix_playlist_items_cache_lookup"),
    Index("quota_usage", "ix_quota_usage_date_units"),
    Index("playlist_snapshots", "ix_snapshots_user_category_created")>> >>

Statements ==
  MIGRATIONS[1] \o MIGRATIONS[2] \o MIGRATIONS[3] \o MIGRATIONS[4] \o MIGRATIONS[5]

Original == {Table("users"), Table("playlist_snapshots")}
Elements == Original \cup ToSet(Statements)

\* A table as create_all makes it, from models.py.
Shape(t) == {e \in Elements : e.table = t}

\* What a statement adds; script 0001 writes quota_usage with a column of 0004.
Brings(s) ==
  {s} \cup (IF s = Table("quota_usage") THEN {Column("quota_usage", "playlists_created")} ELSE {})

\* The database of release n, which knew the scripts up to n; none, for -1.
Release(n) == Original \cup {s \in Elements : \E i \in 1 .. n : s \in ToSet(MIGRATIONS[i])}

SchemaInit ==
  /\ dialect \in Dialects
  /\ schema \in {{}} \cup {Release(n) : n \in 0 .. Len(MIGRATIONS)}
  /\ view = schema
  /\ phase = "down" /\ at = 1
  /\ found = {} /\ calm = TRUE
  /\ starts = 0 /\ faults = 0

-----------------------------------------------------------------------------
(* Transactions.                                                             *)

Transactional == dialect = "postgresql"

Execute(s)  == view' = s /\ schema' = IF Transactional THEN schema ELSE s
Commit      == schema' = view /\ UNCHANGED view
Rollback    == view' = schema /\ UNCHANGED schema
SchemaFault == faults < MaxFaults /\ faults' = faults + 1 /\ calm' = FALSE

Begins(p, s) ==
  /\ phase = "down" /\ starts < MaxStarts
  /\ starts' = starts + 1
  /\ phase' = p /\ at' = 1
  /\ schema' = s /\ view' = s /\ found' = s /\ calm' = TRUE
  /\ UNCHANGED <<dialect, faults>>

-----------------------------------------------------------------------------
(* Startup, and python -m migrations.                                        *)

\* Base.metadata.create_all.
CreateAll ==
  Begins("boot", schema \cup {e \in Elements : Table(e.table) \notin schema})

RunMigrations == Begins("cli", schema)

\* _execute_step: PostgreSQL is sent ADD COLUMN without IF NOT EXISTS; elsewhere the
\* catalog is asked first.  A column or an index needs its table, a foreign key the
\* table it names.
Refused(s) ==
  \/ s.kind = "column" /\ s \in view /\ dialect = "postgresql"
  \/ s.kind # "table" /\ Table(s.table) \notin view
  \/ s \in {Table("user_playlists"), Table("quota_usage")}
     /\ Table("users") \notin view /\ dialect = "postgresql"

Applying == phase \in {"boot", "cli"}

\* Mutant: a statement that is refused is tried until it is not.
ApplyRetries ==
  /\ Applying /\ at <= Len(Statements)
  /\ LET s == Statements[at] IN
     IF Refused(s) THEN Rollback /\ UNCHANGED at
     ELSE /\ Execute(IF s \in view THEN view ELSE view \cup Brings(s))
          /\ at' = at + 1
  /\ UNCHANGED <<dialect, phase, found, calm, starts, faults>>

\* Mutant: the rest is left to the next start.
ApplyStops ==
  /\ Applying /\ at <= Len(Statements)
  /\ LET s == Statements[at] IN
     IF Refused(s) THEN Rollback /\ at' = Len(Statements) + 1
     ELSE /\ Execute(IF s \in view THEN view ELSE view \cup Brings(s))
          /\ at' = at + 1
  /\ UNCHANGED <<dialect, phase, found, calm, starts, faults>>

\* A statement that is refused takes with it what is not committed.
Apply ==
  /\ Applying /\ at <= Len(Statements)
  /\ LET s == Statements[at] IN
     IF Refused(s) THEN Rollback
     ELSE Execute(IF s \in view THEN view ELSE view \cup Brings(s))
  /\ at' = at + 1
  /\ UNCHANGED <<dialect, phase, found, calm, starts, faults>>

\* A lock that is not granted in time, a lost connection.
ApplyFails ==
  /\ Applying /\ at <= Len(Statements)
  /\ SchemaFault
  /\ Rollback
  /\ at' = at + 1
  /\ UNCHANGED <<dialect, phase, found, starts>>

Over(p) == phase' = p /\ at' = 1 /\ found' = {} /\ UNCHANGED <<dialect, starts>>

\* The service goes on with whatever schema there is.
Applied ==
  /\ Applying /\ at > Len(Statements)
  /\ Over(IF phase = "boot" THEN "up" ELSE "down")
  /\ \/ Commit /\ UNCHANGED <<calm, faults>>
     \/ Rollback /\ SchemaFault

-----------------------------------------------------------------------------
(* rollback_last, which undoes every script.                                 *)

UndoLast == Begins("undo", schema)

\* SQLite has no DROP COLUMN IF EXISTS.
UndoRefused(s) ==
  s.kind = "column" /\ (dialect = "sqlite" \/ Table(s.table) \notin view)

\* A table goes with its columns and indexes.
Drops(s) == IF s.kind = "table" THEN {e \in Elements : e.table = s.table} ELSE {s}

Undo ==
  /\ phase = "undo" /\ at <= Len(Statements)
  /\ LET s == Reverse(Statements)[at] IN
     IF UndoRefused(s) THEN Rollback ELSE Execute(view \ Drops(s))
  /\ at' = at + 1
  /\ UNCHANGED <<dialect, phase, found, calm, starts, faults>>

UndoFails ==
  /\ phase = "undo" /\ at <= Len(Statements)
  /\ SchemaFault
  /\ Rollback
  /\ at' = at + 1
  /\ UNCHANGED <<dialect, phase, found, starts>>

Undone ==
  /\ phase = "undo" /\ at > Len(Statements)
  /\ Over("down")
  /\ \/ Commit /\ UNCHANGED <<calm, faults>>
     \/ Rollback /\ SchemaFault

-----------------------------------------------------------------------------
(* The process.                                                              *)

\* Killed while it changes the schema.
Killed ==
  /\ phase \in {"boot", "cli", "undo"}
  /\ SchemaFault
  /\ Rollback
  /\ Over("down")

\* Stopped to be deployed again.
Stop ==
  /\ phase = "up"
  /\ phase' = "down"
  /\ UNCHANGED <<dialect, schema, view, at, found, calm, starts, faults>>

SchemaStep == Apply \/ Applied \/ Undo \/ Undone
SchemaNext ==
  \/ CreateAll \/ RunMigrations \/ UndoLast \/ SchemaStep
  \/ ApplyFails \/ UndoFails \/ Killed \/ Stop

SchemaSpec == SchemaInit /\ [][SchemaNext]_schemaVars

-----------------------------------------------------------------------------
(* What the schema is good for.                                              *)

\* pending: the scripts with something missing.
Pending == {i \in DOMAIN MIGRATIONS : ~(ToSet(MIGRATIONS[i]) \subseteq schema)}

\* The ORM names every mapped column of a table in each SELECT of its rows.
Serves(t) == {e \in Shape(t) : e.kind # "index"} \subseteq schema

\* The type invariant: a schema is made of what the models and scripts name.
SchemaTypeOK ==
  /\ dialect \in {"postgresql", "sqlite"}
  /\ schema \subseteq Elements /\ view \subseteq Elements /\ found \subseteq Elements
  /\ phase \in PHASES /\ at \in 1 .. Len(Statements) + 1
  /\ calm \in BOOLEAN /\ starts \in 0 .. MaxStarts /\ faults \in 0 .. MaxFaults

\* No column is there while one that an earlier statement adds is missing.
InOrder(s) ==
  \A i, j \in DOMAIN Statements :
     /\ i < j /\ Statements[i].kind = "column" /\ Statements[j].kind = "column"
     /\ Statements[j] \in s
     => Statements[i] \in s

\* A startup that nothing disturbs leaves every script applied, whatever releases,
\* kills, failed statements and rollbacks came before it; on PostgreSQL, provided that
\* columns were missing from the end only (a column that is there fails the statement
\* that adds it, and the rollback takes the columns added before it).
UpgradesInOrder ==
  [][phase = "boot" /\ phase' = "up" /\ calm' /\ (dialect = "sqlite" \/ InOrder(found))
     => Pending' = {}]_schemaVars

\* Every startup comes to an end, if the database answers every statement: no failure
\* keeps the service from starting ("must never take the service down").
StartupEnds == phase = "boot" ~> phase \in {"up", "down"}

-----------------------------------------------------------------------------
(* What the documents say and the code does not do.                            *)

\* migrations.py:6-8 "every release that adds a column needs this runner ... so existing
\* deployments are upgraded in place": an undisturbed startup leaves nothing pending.
UpgradedInPlace == phase = "up" /\ calm => Pending = {}

=============================================================================
