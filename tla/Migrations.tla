----------------------------- MODULE Migrations -----------------------------
(***************************************************************************)
(* Start-up of the server over its database (crates/server/src/main.rs up  *)
(* to the state, crates/server/src/migrate.rs): connect, make the tracker  *)
(* table, seed it, apply what is not recorded, serve.                      *)
(*                                                                         *)
(* Every query is a step of its own, there is no transaction around them,  *)
(* and an error of any of them is a panic: the process ends and is started *)
(* again.  Several processes may start on one database, as when a new      *)
(* container comes up before the old one is gone.                          *)
(*                                                                         *)
(* The database is reduced to the objects that statements need and make    *)
(* (tables, columns, indexes).  All statements of the repository say IF    *)
(* NOT EXISTS.                                                             *)
(*                                                                         *)
(* An operator marked "mutant" is a deliberately broken variant of the     *)
(* definition below it; nothing uses it but the mutation runs.             *)
(***************************************************************************)
EXTENDS SqlSplit, FiniteSets

CONSTANTS Servers,     \* processes on the database
          MIGRATIONS,  \* the names, in their order
          SEEDED,      \* the names that are recorded without being applied
          Releases,    \* what the build may embed: the text of each name
          Objects,     \* tables, columns and indexes
          Effects,     \* Effects[stmt]: the objects a statement needs and makes
          Purpose,     \* Purpose[name]: the objects its author wrote it for
          Faulty,      \* those with a statement no database takes
          Databases,   \* the databases a server may be started on
          MaxFails     \* bound: queries that fail and processes that are killed

Names == {MIGRATIONS[i] : i \in 1 .. Len(MIGRATIONS)}
Statements == DOMAIN Effects

ASSUME ReleaseAssumption ==
    /\ MIGRATIONS \in Seq(Names) /\ SEEDED \subseteq Names
    /\ Releases \subseteq [Names -> Seq(STRING)] /\ Faulty \subseteq Releases
    /\ Effects \in [Statements -> [needs : SUBSET Objects, makes : SUBSET Objects]]
    /\ Purpose \in [Names -> SUBSET Objects]
ASSUME DatabaseAssumption ==
    Databases \subseteq [tracker : BOOLEAN, recorded : SUBSET Names, schema : SUBSET Objects]
ASSUME FailAssumption == MaxFails \in Nat

VARIABLES
    sql,        \* the texts of the release that is being started
    tracker,    \* the table schema_migrations exists
    recorded,   \* the names in it
    schema,     \* the objects that exist
    boot,       \* where each process is: "down", "tracker", "seed", "check",
                \* "apply", or "serving"
    at,         \* the migration it is at
    todo,       \* the statements of it that are left
    fails       \* failures so far (bounded)

dbVars == <<tracker, recorded, schema>>
bootVars == <<boot, at, todo>>
migrateVars == <<sql, dbVars, bootVars, fails>>

\* The statements of each text: split_statements looks at nothing else.
Parsed == [release \in Releases |-> [m \in Names |-> Split(release[m])]]

Goto(s, place) == boot' = [boot EXCEPT ![s] = place]
Current(s) == MIGRATIONS[at[s]]

MigrateInit ==
    /\ sql \in Releases
    /\ \E db \in Databases :
         tracker = db.tracker /\ recorded = db.recorded /\ schema = db.schema
    /\ boot = [s \in Servers |-> "down"]
    /\ at = [s \in Servers |-> 1]
    /\ todo = [s \in Servers |-> <<>>]
    /\ fails = 0

-----------------------------------------------------------------------------
\* The process starts and connects.
Start(s) ==
    /\ boot[s] = "down"
    /\ Goto(s, "tracker")
    /\ at' = [at EXCEPT ![s] = 1]
    /\ todo' = [todo EXCEPT ![s] = <<>>]
    /\ UNCHANGED <<sql, dbVars, fails>>

\* CREATE TABLE IF NOT EXISTS schema_migrations
EnsureTracker(s) ==
    /\ boot[s] = "tracker"
    /\ tracker' = TRUE
    /\ Goto(s, "seed")
    /\ UNCHANGED <<sql, recorded, schema, at, todo, fails>>

\* INSERT ... ON CONFLICT DO NOTHING
Seed(s) ==
    /\ boot[s] = "seed"
    /\ recorded' = recorded \cup SEEDED
    /\ Goto(s, "check")
    /\ UNCHANGED <<sql, tracker, schema, at, todo, fails>>

\* SELECT EXISTS: a recorded migration is skipped ...
Skip(s) ==
    /\ boot[s] = "check" /\ at[s] <= Len(MIGRATIONS) /\ Current(s) \in recorded
    /\ at' = [at EXCEPT ![s] = @ + 1]
    /\ UNCHANGED <<sql, dbVars, boot, todo, fails>>

\* ... and the text of any other one is split.
Begin(s) ==
    /\ boot[s] = "check" /\ at[s] <= Len(MIGRATIONS) /\ Current(s) \notin recorded
    /\ todo' = [todo EXCEPT ![s] = Parsed[sql][Current(s)]]
    /\ Goto(s, "apply")
    /\ UNCHANGED <<sql, dbVars, at, fails>>

\* The database takes the statement if it can parse it and what it refers to
\* exists.
Accepted(stmt) == stmt \in Statements /\ Effects[stmt].needs \subseteq schema

Execute(s) ==
    /\ boot[s] = "apply" /\ todo[s] # <<>>
    /\ LET stmt == Head(todo[s]) IN
         /\ Accepted(stmt)
         /\ schema' = schema \cup Effects[stmt].makes
    /\ todo' = [todo EXCEPT ![s] = Tail(@)]
    /\ UNCHANGED <<sql, tracker, recorded, boot, at, fails>>

\* An error of a statement: panic.
Refused(s) ==
    /\ boot[s] = "apply" /\ todo[s] # <<>> /\ ~Accepted(Head(todo[s]))
    /\ Goto(s, "down")
    /\ UNCHANGED <<sql, dbVars, at, todo, fails>>

\* INSERT ... ON CONFLICT DO NOTHING, after the last statement.
Record_First(s) ==                                                   \* mutant
    /\ boot[s] = "apply" /\ Current(s) \notin recorded
    /\ recorded' = recorded \cup {Current(s)}
    /\ UNCHANGED <<sql, tracker, schema, boot, at, todo, fails>>
Record(s) ==
    /\ boot[s] = "apply" /\ todo[s] = <<>>
    /\ recorded' = recorded \cup {Current(s)}
    /\ at' = [at EXCEPT ![s] = @ + 1]
    /\ Goto(s, "check")
    /\ UNCHANGED <<sql, tracker, schema, todo, fails>>

\* run returns; the rest of main only builds what is in memory.
Serve_OneEarly(s) ==                                                 \* mutant
    /\ boot[s] = "check" /\ at[s] >= Len(MIGRATIONS)
    /\ Goto(s, "serving")
    /\ UNCHANGED <<sql, dbVars, at, todo, fails>>
Serve(s) ==
    /\ boot[s] = "check" /\ at[s] > Len(MIGRATIONS)
    /\ Goto(s, "serving")
    /\ UNCHANGED <<sql, dbVars, at, todo, fails>>

\* A query fails (the database is away, or another process creates the same
\* object at this moment) or the process is killed.
Killed(s) ==
    /\ boot[s] # "down" /\ fails < MaxFails
    /\ fails' = fails + 1
    /\ Goto(s, "down")
    /\ UNCHANGED <<sql, dbVars, at, todo>>

BootStep(s) == \/ Start(s) \/ EnsureTracker(s) \/ Seed(s) \/ Skip(s) \/ Begin(s)
               \/ Execute(s) \/ Refused(s) \/ Record(s) \/ Serve(s)

MigrateNext == \E s \in Servers : BootStep(s) \/ Killed(s)

MigrateSpec == MigrateInit /\ [][MigrateNext]_migrateVars

-----------------------------------------------------------------------------
(* What a release and a database must be for the properties to hold: the   *)
(* author's and the operator's business.                                   *)

Makes(stmts) ==
    UNION {Effects[stmts[i]].makes : i \in {j \in 1 .. Len(stmts) : stmts[j] \in Statements}}

\* The statements that the splitter finds in a text make what it is for.
SplitsRight ==
    \A release \in Releases, m \in Names :
        /\ Parsed[release][m] \in Seq(Seq(STRING))
        /\ Purpose[m] \subseteq Makes(Parsed[release][m])

\* A statement refers to what earlier migrations are for, and to what the
\* statements before it in its own text make.
InOrder(release) ==
    \A i \in 1 .. Len(MIGRATIONS) :
        LET stmts == Parsed[release][MIGRATIONS[i]]
        IN \A k \in 1 .. Len(stmts) :
             /\ stmts[k] \in Statements
             /\ Effects[stmts[k]].needs
                  \subseteq (UNION {Purpose[MIGRATIONS[j]] : j \in 1 .. i - 1})
                              \cup UNION {Effects[stmts[j]].makes : j \in 1 .. k - 1}
StatementsInOrder == \A release \in Releases \ Faulty : InOrder(release)

\* What a database has recorded, or Seed will record, it has.
Has(db) == \A m \in db.recorded \cup SEEDED : Purpose[m] \subseteq db.schema
Provided == \A db \in Databases : Has(db)

-----------------------------------------------------------------------------
(* Properties                                                              *)

MigrateTypeOK ==
    /\ sql \in Releases /\ tracker \in BOOLEAN
    /\ recorded \subseteq Names /\ schema \subseteq Objects
    /\ boot \in [Servers -> {"down", "tracker", "seed", "check", "apply", "serving"}]
    /\ at \in [Servers -> 1 .. Len(MIGRATIONS) + 1]
    /\ todo \in [Servers -> Seq(Seq(STRING))]
    /\ fails \in 0 .. MaxFails

\* The name is the idempotency key (migrate.rs:4): what is recorded has been
\* applied, every object of it, however often processes died in the middle,
\* whoever applied it, and wherever its text has semicolons that end nothing.
RecordedIsApplied == \A m \in recorded : Purpose[m] \subseteq schema

\* A process that answers requests finds every table and column it reads and
\* writes: an INSERT that names a missing column fails on each event, and its
\* failure is only counted (docs/postmortems/2026-04-03-analytics-bind-drop.md).
ServesMigrated ==
    \A s \in Servers : boot[s] = "serving" =>
        \A m \in Names : m \in recorded /\ Purpose[m] \subseteq schema

\* A release whose statements are good is never refused one, and so never ends
\* in an endless restart: a migration that was cut off is taken up again from
\* its first statement, on what the first attempt has left.
NoCrashLoop ==
    sql \notin Faulty =>
        \A s \in Servers : boot[s] = "apply" /\ todo[s] # <<>> => Accepted(Head(todo[s]))

=============================================================================
