------------------------------ MODULE Storage -------------------------------
(***************************************************************************)
(* The database (internal/storage) behind the stores of Stores.  With      *)
(* storage enabled the engine saves each alert after it added it, and the  *)
(* metrics of each event, one row for each window in one transaction,      *)
(* after it updated the metrics store (engine.go:91-154).  One goroutine   *)
(* does all of that, statement by statement, and drops every error it      *)
(* gets; the handlers that clear the stores never touch the database.      *)
(*                                                                         *)
(* A statement may fail, and a commit or an insert may report a failure    *)
(* although it took effect.  The process may end between any two of them   *)
(* and is started again with the same database: the stores in memory are   *)
(* empty then, and a transaction that was open is gone.                    *)
(***************************************************************************)
EXTENDS Stores

CONSTANTS
  WindowCount,    \* windows of a reader
  MaxBatches,     \* bound: how often metrics are saved
  MaxFaults       \* bound: failures and crashes

ASSUME StorageAssumption ==
  WindowCount \in Nat \ {0} /\ MaxBatches \in Nat /\ MaxFaults \in Nat

VARIABLES
  step,        \* what the engine is about to do with the database
  open,        \* a transaction holds the database
  inserted,    \* how many rows the open transaction has
  alertRows,   \* table alerts: the numbers of its alerts in the order of its ids
  metricRows,  \* table metrics: a pair of batch and window for each row
  batches,     \* ghost: the batches of metrics so far
  faults       \* ghost: failures and crashes so far

tables == <<alertRows, metricRows>>
storageVars == <<step, open, inserted, tables, batches, faults>>
allVars == <<vars, storageVars>>

StorageInit ==
  /\ Init
  /\ step = "idle" /\ open = FALSE /\ inserted = 0
  /\ alertRows = << >> /\ metricRows = {}
  /\ batches = 0 /\ faults = 0

Fault == faults < MaxFaults /\ faults' = faults + 1

(* A transaction that was left open makes what comes after it fail.        *)
Refused == IF open THEN UNCHANGED faults ELSE Fault

-----------------------------------------------------------------------------
AddAlert ==
  /\ step = "idle" /\ Add
  /\ step' = "saveAlert"
  /\ UNCHANGED <<open, inserted, tables, batches, faults>>

(* Mutant: an insert that reports a failure is done again.                 *)
AfterErrorAgain(rows, alert) == Append(rows, alert)

(* The engine drops the error, and the alert with it.                      *)
AfterError(rows, alert) == rows

SaveAlert ==
  /\ step = "saveAlert"
  /\ \/ /\ ~open
        /\ alertRows' = Append(alertRows, added)
        /\ UNCHANGED faults
     \/ /\ Refused
        /\ \/ alertRows' = AfterError(alertRows, added)
           \/ ~open /\ alertRows' = AfterError(Append(alertRows, added), added)
  /\ step' = "idle"
  /\ UNCHANGED <<vars, open, inserted, metricRows, batches>>

-----------------------------------------------------------------------------
UpdateMetrics(r) ==
  /\ step = "idle" /\ Update(r)
  /\ batches < MaxBatches /\ batches' = batches + 1
  /\ step' = "begin"
  /\ UNCHANGED <<open, inserted, tables, faults>>

BeginTx ==
  /\ step = "begin"
  /\ \/ /\ ~open /\ open' = TRUE /\ step' = "prepare"
        /\ UNCHANGED faults
     \/ Refused /\ step' = "idle" /\ UNCHANGED open
  /\ UNCHANGED <<vars, inserted, tables, batches>>

(* The windows come in their order, so n rows are those of the first n.    *)
Rows(n) == {batches} \X (1 .. n)

(* Mutant: the rows inserted before the failure are kept.                  *)
RolledBackNot(n) == Rows(n)
(* Mutant: the error is returned and the transaction left as it is.        *)
OpenAfterFailureStill == TRUE

RolledBack(n) == {}
OpenAfterFailure == FALSE

Rollback ==
  /\ Fault
  /\ step' = "idle" /\ open' = OpenAfterFailure
  /\ metricRows' = metricRows \cup RolledBack(inserted)
  /\ inserted' = 0

PrepareContext ==
  /\ step = "prepare"
  /\ \/ Rollback
     \/ /\ step' = "exec"
        /\ UNCHANGED <<open, inserted, metricRows, faults>>
  /\ UNCHANGED <<vars, alertRows, batches>>

ExecContext ==
  /\ step = "exec"
  /\ \/ Rollback
     \/ /\ inserted' = inserted + 1
        /\ step' = IF inserted' = WindowCount THEN "commit" ELSE "exec"
        /\ UNCHANGED <<open, metricRows, faults>>
  /\ UNCHANGED <<vars, alertRows, batches>>

(* Commit ends the transaction whatever it reports.                        *)
Commit ==
  /\ step = "commit"
  /\ step' = "idle" /\ open' = FALSE /\ inserted' = 0
  /\ \/ metricRows' = metricRows \cup Rows(inserted) /\ UNCHANGED faults
     \/ metricRows' = metricRows \cup Rows(inserted) /\ Fault
     \/ UNCHANGED metricRows /\ Fault
  /\ UNCHANGED <<vars, alertRows, batches>>

SaveMetrics == BeginTx \/ PrepareContext \/ ExecContext \/ Commit

-----------------------------------------------------------------------------
(* Mutant: the tables are created anew.                                    *)
CreatedAnew(rows) == << >>

(* CREATE TABLE IF NOT EXISTS.                                             *)
Created(rows) == rows

(* The process ends and is started again.                                  *)
Crash ==
  /\ Fault
  /\ buf' = << >> /\ cleared' = added
  /\ byReader' = {} /\ updatedAt' = NoStamps
  /\ turn' = NoStamps /\ steady' = TRUE
  /\ step' = "idle" /\ open' = FALSE /\ inserted' = 0
  /\ alertRows' = Created(alertRows)
  /\ UNCHANGED <<added, updates, clockVars, metricRows, batches>>

(* The clock, and POST /clear and /restart on other goroutines.            *)
Meanwhile ==
  /\ ClearAlerts \/ ClearMetrics \/ ClockMoves
  /\ UNCHANGED storageVars

StorageNext ==
  \/ AddAlert \/ SaveAlert
  \/ (\E r \in Readers : UpdateMetrics(r)) \/ SaveMetrics
  \/ Crash \/ Meanwhile

StorageSpec == StorageInit /\ [][StorageNext]_allVars

-----------------------------------------------------------------------------
(* The table of alerts has each alert at most once and in the order they   *)
(* were raised (sqlite.go:68-86), though an insert may fail, or report a   *)
(* failure and have taken effect, and the process may restart.             *)
SavedInOrder ==
  \A i, j \in DOMAIN alertRows : i < j => alertRows[i] < alertRows[j]

(* A batch of metrics is in the table with a row for every window or not   *)
(* at all, whichever statement failed and wherever the process ended       *)
(* (sqlite.go:95-123).                                                     *)
BatchesWhole ==
  \A b \in 1 .. batches :
    {row[2] : row \in {x \in metricRows : x[1] = b}} \in {{}, 1 .. WindowCount}

(* The alerts and the batches the database does not have, and whether the *)
(* engine has one of them in hand.                                         *)
Missing == {a \in 1 .. added : \A i \in DOMAIN alertRows : alertRows[i] # a}
Absent  == {b \in 1 .. batches : \A row \in metricRows : row[1] # b}
InHand  == IF step = "idle" THEN 0 ELSE 1

(* Each failure or crash costs the database one alert or one batch at the  *)
(* most: nothing that failed keeps a later statement from succeeding, and  *)
(* no clear of the stores takes anything from it (engine.go:103-105,       *)
(* 119-121, 144-153).                                                      *)
LossBounded ==
  Cardinality(Missing) + Cardinality(Absent) <= faults + InHand
=============================================================================
