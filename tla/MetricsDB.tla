------------------------------- MODULE MetricsDB -------------------------------
(***************************************************************************)
(* The PostgreSQL sink of the metric loggers of the CQS balancer           *)
(* (metrix/db).  One mutex guards the pool and the state of the DDL, but   *)
(* ensureTables gives it up while it creates the tables, so that the CPU   *)
(* and the memory logger, which start together, run the DDL side by side.  *)
(*                                                                         *)
(* A rate limit is a flag that is set by an attempt and expires.           *)
(***************************************************************************)
EXTENDS Naturals, FiniteSets

CONSTANTS
  Loggers,       \* the goroutines that insert
  NumStatements, \* CREATE statements of ensureTables (4 in the code)
  MaxFaults      \* bound: calls to the database that fail

ASSUME MetricsDBAssumption == NumStatements \in Nat \ {0} /\ MaxFaults \in Nat

VARIABLES
  pool, lastInitErr, initRecent,         \* lastInitAttempt within 3 s
  tablesEnsured, lastDDLErr, ddlRecent,  \* lastDDLAttempt within 5 s
  at,            \* where in insert each logger is
  stmt,          \* the statement it executes
  last,          \* result of its last insert
  created,       \* statements whose table or index exists in the database
  faults

connection == <<pool, lastInitErr, initRecent>>
ddl        == <<tablesEnsured, lastDDLErr, ddlRecent>>
dbVars     == <<connection, ddl, at, stmt, last, created, faults>>

Statements == 1..NumStatements

-----------------------------------------------------------------------------
DBInit(inserting) ==
  /\ pool = FALSE /\ lastInitErr = FALSE /\ initRecent = FALSE
  /\ tablesEnsured = FALSE /\ lastDDLErr = FALSE /\ ddlRecent = FALSE
  /\ at = [l \in Loggers |-> IF l \in inserting THEN "pool" ELSE "idle"]
  /\ stmt = [l \in Loggers |-> 1]
  /\ last = [l \in Loggers |-> "none"] /\ created = {} /\ faults = 0

GoesTo(l, place) == at' = [at EXCEPT ![l] = place] /\ UNCHANGED last
Returns(l, result) ==
  /\ at' = [at EXCEPT ![l] = "idle"] /\ last' = [last EXCEPT ![l] = result]
Fault == faults < MaxFaults /\ faults' = faults + 1

Insert(l) ==             \* InsertCPUMetrics, InsertMemoryMetrics
  /\ at[l] = "idle" /\ GoesTo(l, "pool")
  /\ UNCHANGED <<connection, ddl, stmt, created, faults>>

\* getPool, all of it under the mutex; the pool connects lazily.
GetPool(l) ==
  /\ at[l] = "pool"
  /\ \/ pool /\ GoesTo(l, "tables") /\ UNCHANGED <<connection, faults>>
     \/ /\ ~pool /\ initRecent /\ lastInitErr
        /\ Returns(l, "error") /\ UNCHANGED <<connection, faults>>
     \/ /\ ~pool /\ ~(initRecent /\ lastInitErr) /\ initRecent' = TRUE
        /\ \/ /\ pool' = TRUE /\ lastInitErr' = FALSE /\ UNCHANGED faults
              /\ GoesTo(l, "tables")
           \/ /\ Fault /\ lastInitErr' = TRUE /\ UNCHANGED pool
              /\ Returns(l, "error")
  /\ UNCHANGED <<ddl, stmt, created>>

\* Mutant: an error is final, whenever the attempt was.
CheckTablesNoRetry(l) ==
  /\ at[l] = "tables" /\ UNCHANGED <<connection, created, faults>>
  /\ \/ /\ lastDDLErr /\ Returns(l, "error") /\ UNCHANGED <<ddl, stmt>>
     \/ /\ tablesEnsured /\ ~lastDDLErr /\ GoesTo(l, "insert")
        /\ UNCHANGED <<ddl, stmt>>
     \/ /\ ~tablesEnsured /\ ~lastDDLErr /\ ddlRecent' = TRUE
        /\ stmt' = [stmt EXCEPT ![l] = 1] /\ GoesTo(l, "exec")
        /\ UNCHANGED <<tablesEnsured, lastDDLErr>>

\* ensureTables up to its first unlock.  The getPool that follows finds the
\* pool that insert got.
CheckTables(l) ==
  /\ at[l] = "tables" /\ UNCHANGED <<connection, created, faults>>
  /\ \/ /\ lastDDLErr /\ (tablesEnsured \/ ddlRecent)
        /\ Returns(l, "error") /\ UNCHANGED <<ddl, stmt>>
     \/ /\ tablesEnsured /\ ~lastDDLErr /\ GoesTo(l, "insert")
        /\ UNCHANGED <<ddl, stmt>>
     \/ /\ ~tablesEnsured /\ ~(ddlRecent /\ lastDDLErr) /\ ddlRecent' = TRUE
        /\ stmt' = [stmt EXCEPT ![l] = 1] /\ GoesTo(l, "exec")
        /\ UNCHANGED <<tablesEnsured, lastDDLErr>>

\* p.Exec without the mutex; CREATE IF NOT EXISTS is idempotent.
Exec(l) ==
  /\ at[l] = "exec" /\ UNCHANGED <<connection, ddl>>
  /\ \/ /\ created' = created \cup {stmt[l]} /\ UNCHANGED faults
        /\ IF stmt[l] < NumStatements
             THEN stmt' = [stmt EXCEPT ![l] = @ + 1] /\ UNCHANGED <<at, last>>
             ELSE GoesTo(l, "ensured") /\ UNCHANGED stmt
     \/ Fault /\ GoesTo(l, "ddlFailed") /\ UNCHANGED <<created, stmt>>

DDLFailed(l) ==
  /\ at[l] = "ddlFailed" /\ lastDDLErr' = TRUE /\ Returns(l, "error")
  /\ UNCHANGED <<connection, tablesEnsured, ddlRecent, stmt, created, faults>>

Ensured(l) ==
  /\ at[l] = "ensured" /\ tablesEnsured' = TRUE /\ lastDDLErr' = FALSE
  /\ GoesTo(l, "insert")
  /\ UNCHANGED <<connection, ddlRecent, stmt, created, faults>>

\* INSERT; without its table it would fail.
InsertRow(l) ==
  /\ at[l] = "insert"
  /\ \/ created = Statements /\ Returns(l, "row") /\ UNCHANGED faults
     \/ Fault /\ Returns(l, "error")
  /\ UNCHANGED <<connection, ddl, stmt, created>>

InitExpires ==
  /\ initRecent /\ initRecent' = FALSE
  /\ UNCHANGED <<pool, lastInitErr, ddl, at, stmt, last, created, faults>>

DDLExpires ==
  /\ ddlRecent /\ ddlRecent' = FALSE
  /\ UNCHANGED <<connection, tablesEnsured, lastDDLErr, at, stmt, last, created,
                 faults>>

EnsureTables(l) == CheckTables(l) \/ Exec(l) \/ DDLFailed(l) \/ Ensured(l)
InsertStep(l)   == GetPool(l) \/ EnsureTables(l) \/ InsertRow(l)

-----------------------------------------------------------------------------
\* ensureTables returns a DDL error although the tables are there: it does so
\* for ever.
Latched == tablesEnsured /\ lastDDLErr
=============================================================================
