---------------------------- MODULE MCMigrations ----------------------------
(* Small instances of Migrations for TLC. *)
EXTENDS Migrations

\* A startup that is not killed goes on to its end.
FairSchemaSpec == SchemaSpec /\ WF_schemaVars(SchemaStep)

=============================================================================
