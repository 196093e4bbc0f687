--------------------------- MODULE StorageProofs ---------------------------
(***************************************************************************)
(* Theorems about Storage, for every number of windows, every bound on     *)
(* alerts and batches, and any number of failures and crashes.             *)
(*                                                                         *)
(* None of the three properties is inductive.  What is missing is where    *)
(* the engine is: that the alert it is about to save is in no row yet,     *)
(* that the batch in hand has no row in the table, and how many rows of it *)
(* the transaction has (StepInv).                                          *)
(***************************************************************************)
EXTENDS Storage, TLAPS, FiniteSetTheorems

Transaction == {"prepare", "exec", "commit"}

(* The types of the tables and of what counts alerts and batches.          *)
TablesType ==
  /\ added \in Nat /\ batches \in Nat /\ faults \in Nat /\ inserted \in Nat
  /\ step \in {"idle", "saveAlert", "begin"} \cup Transaction
  /\ open \in BOOLEAN
  /\ alertRows \in Seq(Nat)
  /\ metricRows \subseteq Nat \X Nat

(* Where the engine is, and what the tables hold then.                     *)
StepInv ==
  /\ open <=> step \in Transaction
  /\ step = "exec" => inserted < WindowCount
  /\ step = "commit" => inserted = WindowCount
  /\ step \notin {"exec", "commit"} => inserted = 0
  /\ \A i \in 1 .. Len(alertRows) : alertRows[i] \in 1 .. added
  /\ step = "saveAlert" =>
       added > 0 /\ \A i \in 1 .. Len(alertRows) : alertRows[i] < added
  /\ \A row \in metricRows : row[1] \in 1 .. batches
  /\ step \in {"begin"} \cup Transaction =>
       batches > 0 /\ \A row \in metricRows : row[1] < batches

IInv == TablesType /\ StepInv /\ SavedInOrder /\ BatchesWhole

-----------------------------------------------------------------------------
(* Saving the alert in hand keeps the table in order.                      *)
LEMMA AppendInOrder ==
  ASSUME NEW a \in Nat, NEW rows \in Seq(Nat),
         \A i \in 1 .. Len(rows) : rows[i] < a,
         \A i, j \in DOMAIN rows : i < j => rows[i] < rows[j]
  PROVE  /\ Append(rows, a) \in Seq(Nat)
         /\ \A i \in 1 .. Len(Append(rows, a)) : Append(rows, a)[i] <= a
         /\ \A i, j \in DOMAIN Append(rows, a) :
              i < j => Append(rows, a)[i] < Append(rows, a)[j]
<1>1. /\ Append(rows, a) \in Seq(Nat)
      /\ Len(Append(rows, a)) = Len(rows) + 1 /\ Len(rows) \in Nat
      /\ DOMAIN rows = 1 .. Len(rows)
      /\ DOMAIN Append(rows, a) = 1 .. Len(rows) + 1
      /\ Append(rows, a)[Len(rows) + 1] = a
      /\ \A i \in 1 .. Len(rows) : Append(rows, a)[i] = rows[i]
  OBVIOUS
<1>2. \A i \in 1 .. Len(rows) : rows[i] \in Nat
  OBVIOUS
<1> QED
  BY <1>1, <1>2

(* The windows of a batch that has all its rows, and of the other batches. *)
Windows(rows, b) == {row[2] : row \in {x \in rows : x[1] = b}}

LEMMA WholeBatchAdded ==
  ASSUME TablesType, BatchesWhole, StepInv, step = "commit"
  PROVE  \A b \in 1 .. batches :
           Windows(metricRows \cup Rows(inserted), b) \in {{}, 1 .. WindowCount}
<1> SUFFICES ASSUME NEW b \in 1 .. batches
             PROVE  Windows(metricRows \cup Rows(inserted), b)
                      \in {{}, 1 .. WindowCount}
  OBVIOUS
<1>1. batches \in Nat /\ inserted = WindowCount
  BY DEF TablesType, StepInv
<1>2. CASE b = batches
  <2>1. \A row \in metricRows : row[1] # b
    BY <1>1, <1>2 DEF StepInv, TablesType, Transaction
  <2>2. \A x : x \in Windows(metricRows \cup Rows(inserted), b)
                 <=> x \in 1 .. WindowCount
    <3> TAKE x
    <3>1. ASSUME x \in Windows(metricRows \cup Rows(inserted), b)
          PROVE  x \in 1 .. WindowCount
      <4>1. PICK row \in metricRows \cup Rows(inserted) : row[1] = b /\ row[2] = x
        BY <3>1 DEF Windows
      <4>2. row \in {batches} \X (1 .. WindowCount)
        BY <4>1, <2>1, <1>1 DEF Rows
      <4> QED
        BY <4>1, <4>2
    <3>2. ASSUME x \in 1 .. WindowCount
          PROVE  x \in Windows(metricRows \cup Rows(inserted), b)
      <4>1. <<b, x>> \in Rows(inserted)
        BY <3>2, <1>1, <1>2 DEF Rows
      <4>2. <<b, x>>[1] = b /\ <<b, x>>[2] = x
        OBVIOUS
      <4> QED
        BY <4>1, <4>2 DEF Windows
    <3> QED
      BY <3>1, <3>2
  <2> QED
    BY <2>2
<1>3. CASE b # batches
  <2>1. \A row \in Rows(inserted) : row[1] # b
    BY <1>3 DEF Rows
  <2>2. {x \in metricRows \cup Rows(inserted) : x[1] = b}
          = {x \in metricRows : x[1] = b}
    BY <2>1
  <2> QED
    BY <2>2 DEF BatchesWhole, Windows
<1> QED
  BY <1>2, <1>3

-----------------------------------------------------------------------------
LEMMA InitIInv == StorageInit => IInv
<1> SUFFICES ASSUME StorageInit PROVE IInv
  OBVIOUS
<1>1. TablesType
  <2>1. << >> \in Seq(Nat)
    OBVIOUS
  <2> QED
    BY <2>1 DEF StorageInit, Init, TablesType, Transaction
<1>2. alertRows = << >> /\ metricRows = {} /\ step = "idle" /\ batches = 0
      /\ open = FALSE /\ inserted = 0
  BY DEF StorageInit
<1>3. StepInv
  BY <1>2 DEF StepInv, Transaction
<1>4. SavedInOrder /\ BatchesWhole
  BY <1>2 DEF SavedInOrder, BatchesWhole
<1> QED
  BY <1>1, <1>3, <1>4 DEF IInv

(* What leaves the tables alone and the engine idle keeps the invariant.   *)
LEMMA IdleStep ==
  ASSUME IInv, faults' \in Nat, step' = "idle", open' = FALSE, inserted' = 0,
         UNCHANGED <<tables, added, batches>>
  PROVE  IInv'
<1>1. TablesType'
  BY DEF IInv, TablesType, tables
<1>2. StepInv'
  BY DEF IInv, StepInv, tables, Transaction
<1>3. SavedInOrder' /\ BatchesWhole'
  BY DEF IInv, SavedInOrder, BatchesWhole, tables
<1> QED
  BY <1>1, <1>2, <1>3 DEF IInv

LEMMA AddAlertIInv == IInv /\ AddAlert => IInv'
<1> SUFFICES ASSUME IInv, AddAlert PROVE IInv'
  OBVIOUS
<1>1. /\ added' = added + 1 /\ step = "idle" /\ step' = "saveAlert"
      /\ UNCHANGED <<open, inserted, alertRows, metricRows, batches, faults>>
  BY DEF AddAlert, Add, tables
<1>2. TablesType'
  BY <1>1 DEF IInv, TablesType
<1>3. StepInv'
  BY <1>1 DEF IInv, StepInv, TablesType, Transaction
<1>4. SavedInOrder' /\ BatchesWhole'
  BY <1>1 DEF IInv, SavedInOrder, BatchesWhole
<1> QED
  BY <1>2, <1>3, <1>4 DEF IInv

LEMMA SaveAlertIInv == IInv /\ SaveAlert => IInv'
<1> SUFFICES ASSUME IInv, SaveAlert PROVE IInv'
  OBVIOUS
<1>1. /\ step = "saveAlert" /\ step' = "idle" /\ added' = added
      /\ UNCHANGED <<open, inserted, metricRows, batches>>
      /\ open = FALSE /\ inserted = 0
  BY DEF SaveAlert, IInv, TablesType, StepInv, vars, alertVars, Transaction
<1>2. faults' \in Nat
  BY DEF SaveAlert, Refused, Fault, IInv, TablesType
<1>3. CASE alertRows' = alertRows
  BY <1>1, <1>2, <1>3, IdleStep DEF tables
<1>4. CASE alertRows' = Append(alertRows, added)
  <2>1. /\ added \in Nat /\ added > 0 /\ alertRows \in Seq(Nat)
        /\ \A i \in 1 .. Len(alertRows) : alertRows[i] < added
        /\ \A i \in 1 .. Len(alertRows) : alertRows[i] \in 1 .. added
        /\ \A i, j \in DOMAIN alertRows : i < j => alertRows[i] < alertRows[j]
    BY <1>1 DEF IInv, TablesType, StepInv, SavedInOrder
  <2>2. /\ alertRows' \in Seq(Nat)
        /\ \A i, j \in DOMAIN alertRows' : i < j => alertRows'[i] < alertRows'[j]
    BY <1>4, <2>1, AppendInOrder
  <2>3. \A i \in 1 .. Len(alertRows') : alertRows'[i] \in 1 .. added
    BY <1>4, <2>1
  <2>4. TablesType'
    BY <1>1, <1>2, <2>2 DEF IInv, TablesType
  <2>5. StepInv'
    BY <1>1, <2>3 DEF IInv, StepInv, Transaction
  <2>6. SavedInOrder' /\ BatchesWhole'
    BY <1>1, <2>2 DEF IInv, SavedInOrder, BatchesWhole
  <2> QED
    BY <2>4, <2>5, <2>6 DEF IInv
<1> QED
  BY <1>3, <1>4 DEF SaveAlert, AfterError

LEMMA UpdateMetricsIInv ==
  ASSUME NEW r \in Readers
  PROVE  IInv /\ UpdateMetrics(r) => IInv'
<1> SUFFICES ASSUME IInv, UpdateMetrics(r) PROVE IInv'
  OBVIOUS
<1>1. /\ batches' = batches + 1 /\ step = "idle" /\ step' = "begin"
      /\ UNCHANGED <<open, inserted, alertRows, metricRows, faults, added>>
  BY DEF UpdateMetrics, Update, tables, alertVars
<1>2. batches \in Nat /\ \A row \in metricRows : row[1] \in 1 .. batches
  BY DEF IInv, TablesType, StepInv
<1>3. TablesType'
  BY <1>1 DEF IInv, TablesType
<1>4. StepInv'
  BY <1>1, <1>2 DEF IInv, StepInv, TablesType, Transaction
<1>5. SavedInOrder'
  BY <1>1 DEF IInv, SavedInOrder
<1>6. BatchesWhole'
  <2> SUFFICES ASSUME NEW b \in 1 .. batches + 1
               PROVE  {row[2] : row \in {x \in metricRows : x[1] = b}}
                        \in {{}, 1 .. WindowCount}
    BY <1>1 DEF BatchesWhole
  <2>1. CASE b \in 1 .. batches
    BY <2>1 DEF IInv, BatchesWhole
  <2>2. CASE b = batches + 1
    <3>1. {x \in metricRows : x[1] = b} = {}
      BY <1>2, <2>2
    <3> QED
      BY <3>1
  <2> QED
    BY <1>2, <2>1, <2>2
<1> QED
  BY <1>3, <1>4, <1>5, <1>6 DEF IInv

LEMMA RollbackIInv ==
  ASSUME IInv, Rollback, UNCHANGED <<vars, alertRows, batches>>
  PROVE  IInv'
<1>1. /\ faults' = faults + 1 /\ step' = "idle" /\ open' = FALSE
      /\ inserted' = 0 /\ metricRows' = metricRows
  BY DEF Rollback, Fault, OpenAfterFailure, RolledBack
<1>2. faults' \in Nat
  BY <1>1 DEF IInv, TablesType
<1>3. UNCHANGED <<tables, added, batches>>
  BY <1>1 DEF vars, alertVars, tables
<1> QED
  BY <1>1, <1>2, <1>3, IdleStep

LEMMA BeginTxIInv == IInv /\ BeginTx => IInv'
<1> SUFFICES ASSUME IInv, BeginTx PROVE IInv'
  OBVIOUS
<1>1. /\ step = "begin" /\ UNCHANGED <<inserted, alertRows, metricRows, batches>>
      /\ added' = added /\ open = FALSE /\ inserted = 0
  BY DEF BeginTx, IInv, TablesType, StepInv, vars, alertVars, tables, Transaction
<1>2. CASE open' = TRUE /\ step' = "prepare" /\ UNCHANGED faults
  <2>1. TablesType'
    BY <1>1, <1>2 DEF IInv, TablesType, Transaction
  <2>2. StepInv'
    BY <1>1, <1>2 DEF IInv, StepInv, Transaction
  <2>3. SavedInOrder' /\ BatchesWhole'
    BY <1>1 DEF IInv, SavedInOrder, BatchesWhole
  <2> QED
    BY <2>1, <2>2, <2>3 DEF IInv
<1>3. CASE Refused /\ step' = "idle" /\ UNCHANGED open
  <2>1. faults' \in Nat
    BY <1>3 DEF Refused, Fault, IInv, TablesType
  <2> QED
    BY <1>1, <1>3, <2>1, IdleStep DEF tables
<1> QED
  BY <1>2, <1>3 DEF BeginTx

LEMMA PrepareContextIInv == IInv /\ PrepareContext => IInv'
<1> SUFFICES ASSUME IInv, PrepareContext PROVE IInv'
  OBVIOUS
<1>1. /\ step = "prepare" /\ UNCHANGED <<vars, alertRows, batches>>
      /\ added' = added /\ inserted = 0
  BY DEF PrepareContext, IInv, StepInv, vars, alertVars
<1>2. CASE Rollback
  BY <1>1, <1>2, RollbackIInv
<1>3. CASE step' = "exec" /\ UNCHANGED <<open, inserted, metricRows, faults>>
  <2>1. TablesType'
    BY <1>1, <1>3 DEF IInv, TablesType, Transaction
  <2>2. StepInv'
    BY <1>1, <1>3, StorageAssumption DEF IInv, StepInv, Transaction
  <2>3. SavedInOrder' /\ BatchesWhole'
    BY <1>1, <1>3 DEF IInv, SavedInOrder, BatchesWhole
  <2> QED
    BY <2>1, <2>2, <2>3 DEF IInv
<1> QED
  BY <1>2, <1>3 DEF PrepareContext

LEMMA ExecContextIInv == IInv /\ ExecContext => IInv'
<1> SUFFICES ASSUME IInv, ExecContext PROVE IInv'
  OBVIOUS
<1>1. /\ step = "exec" /\ UNCHANGED <<vars, alertRows, batches>>
      /\ added' = added /\ inserted < WindowCount /\ inserted \in Nat
  BY DEF ExecContext, IInv, TablesType, StepInv, vars, alertVars
<1>2. CASE Rollback
  BY <1>1, <1>2, RollbackIInv
<1>3. CASE /\ inserted' = inserted + 1
           /\ step' = IF inserted' = WindowCount THEN "commit" ELSE "exec"
           /\ UNCHANGED <<open, metricRows, faults>>
  <2>1. TablesType'
    BY <1>1, <1>3 DEF IInv, TablesType, Transaction
  <2>2. StepInv'
    BY <1>1, <1>3, StorageAssumption DEF IInv, StepInv, Transaction
  <2>3. SavedInOrder' /\ BatchesWhole'
    BY <1>1, <1>3 DEF IInv, SavedInOrder, BatchesWhole
  <2> QED
    BY <2>1, <2>2, <2>3 DEF IInv
<1> QED
  BY <1>2, <1>3 DEF ExecContext

LEMMA CommitIInv == IInv /\ Commit => IInv'
<1> SUFFICES ASSUME IInv, Commit PROVE IInv'
  OBVIOUS
<1>1. /\ step = "commit" /\ step' = "idle" /\ open' = FALSE /\ inserted' = 0
      /\ UNCHANGED <<alertRows, batches>> /\ added' = added
  BY DEF Commit, vars, alertVars
<1>2. faults' \in Nat
  BY DEF Commit, Fault, IInv, TablesType
<1>3. CASE metricRows' = metricRows
  BY <1>1, <1>2, <1>3, IdleStep DEF tables
<1>4. CASE metricRows' = metricRows \cup Rows(inserted)
  <2>1. batches \in Nat /\ batches > 0 /\ inserted = WindowCount
    BY <1>1 DEF IInv, TablesType, StepInv, Transaction
  <2>2. \A row \in Rows(inserted) : row \in Nat \X Nat /\ row[1] = batches
    BY <2>1, StorageAssumption DEF Rows
  <2>3. TablesType'
    BY <1>1, <1>2, <1>4, <2>2 DEF IInv, TablesType
  <2>4. StepInv'
    BY <1>1, <1>4, <2>1, <2>2 DEF IInv, StepInv, Transaction
  <2>5. SavedInOrder'
    BY <1>1 DEF IInv, SavedInOrder
  <2>6. BatchesWhole'
    BY <1>1, <1>4, WholeBatchAdded DEF IInv, BatchesWhole, Windows
  <2> QED
    BY <2>3, <2>4, <2>5, <2>6 DEF IInv
<1> QED
  BY <1>3, <1>4 DEF Commit

LEMMA CrashIInv == IInv /\ Crash => IInv'
<1> SUFFICES ASSUME IInv, Crash PROVE IInv'
  OBVIOUS
<1>1. faults' \in Nat
  BY DEF Crash, Fault, IInv, TablesType
<1>2. UNCHANGED <<tables, added, batches>>
  BY DEF Crash, Created, tables
<1> QED
  BY <1>1, <1>2, IdleStep DEF Crash

(* The clears and the clock touch nothing the invariant speaks of.         *)
LEMMA StutterIInv ==
  ASSUME IInv, UNCHANGED <<storageVars, added>>
  PROVE  IInv'
<1>1. TablesType'
  BY DEF IInv, TablesType, storageVars, tables
<1>2. StepInv'
  BY DEF IInv, StepInv, storageVars, tables
<1>3. SavedInOrder' /\ BatchesWhole'
  BY DEF IInv, SavedInOrder, BatchesWhole, storageVars, tables
<1> QED
  BY <1>1, <1>2, <1>3 DEF IInv

LEMMA NextIInv == IInv /\ [StorageNext]_allVars => IInv'
<1> SUFFICES ASSUME IInv, [StorageNext]_allVars PROVE IInv'
  OBVIOUS
<1>1. CASE AddAlert
  BY <1>1, AddAlertIInv
<1>2. CASE SaveAlert
  BY <1>2, SaveAlertIInv
<1>3. ASSUME NEW r \in Readers, UpdateMetrics(r) PROVE IInv'
  BY <1>3, UpdateMetricsIInv
<1>4. CASE SaveMetrics
  BY <1>4, BeginTxIInv, PrepareContextIInv, ExecContextIInv, CommitIInv
     DEF SaveMetrics
<1>5. CASE Crash
  BY <1>5, CrashIInv
<1>6. CASE Meanwhile
  <2>1. UNCHANGED <<storageVars, added>>
    BY <1>6 DEF Meanwhile, ClearAlerts, ClearMetrics, ClockMoves, alertVars
  <2> QED
    BY <2>1, StutterIInv
<1>7. CASE UNCHANGED allVars
  <2>1. UNCHANGED <<storageVars, added>>
    BY <1>7 DEF allVars, vars, alertVars
  <2> QED
    BY <2>1, StutterIInv
<1> QED
  BY <1>1, <1>2, <1>3, <1>4, <1>5, <1>6, <1>7 DEF StorageNext

(* The inductive invariant of the database.                                *)
THEOREM SpecIInv == StorageSpec => []IInv
  BY InitIInv, NextIInv, PTL DEF StorageSpec

(* Alerts are in the table at most once and in order (sqlite.go:68-86).    *)
THEOREM SpecSavedInOrder == StorageSpec => []SavedInOrder
<1>1. IInv => SavedInOrder
  BY DEF IInv
<1> QED
  BY <1>1, SpecIInv, PTL

(* Batches are in the table whole or not at all (sqlite.go:95-123).        *)
THEOREM SpecBatchesWhole == StorageSpec => []BatchesWhole
<1>1. IInv => BatchesWhole
  BY DEF IInv
<1> QED
  BY <1>1, SpecIInv, PTL

-----------------------------------------------------------------------------
(* LossBounded counts; it is inductive together with IInv, which says that *)
(* what the engine has in hand is missing until it is saved.               *)
LEMMA LossFinite ==
  ASSUME TablesType
  PROVE  /\ IsFiniteSet(Missing) /\ Cardinality(Missing) \in Nat
         /\ IsFiniteSet(Absent) /\ Cardinality(Absent) \in Nat
<1>1. IsFiniteSet(1 .. added) /\ IsFiniteSet(1 .. batches)
  BY FS_Interval DEF TablesType
<1>2. Missing \in SUBSET (1 .. added) /\ Absent \in SUBSET (1 .. batches)
  BY DEF Missing, Absent
<1>3. IsFiniteSet(Missing) /\ IsFiniteSet(Absent)
  BY <1>1, <1>2, FS_Subset
<1> QED
  BY <1>3, FS_CardinalityType

(* Nothing is saved and nothing new is to be saved.                        *)
LEMMA LossUnchanged ==
  ASSUME IInv, LossBounded, UNCHANGED <<tables, added, batches>>,
         \/ faults' = faults /\ InHand' = InHand
         \/ faults' = faults + 1
  PROVE  LossBounded'
<1>1. Missing' = Missing /\ Absent' = Absent
  BY DEF Missing, Absent, tables
<1>2. /\ Cardinality(Missing) \in Nat /\ Cardinality(Absent) \in Nat
      /\ faults \in Nat /\ InHand \in {0, 1} /\ InHand' \in {0, 1}
  BY LossFinite DEF IInv, TablesType, InHand
<1>3. Cardinality(Missing) + Cardinality(Absent) <= faults + InHand
  BY DEF LossBounded
<1>4. Cardinality(Missing) + Cardinality(Absent) <= faults' + InHand'
  BY <1>2, <1>3
<1> QED
  BY <1>1, <1>4 DEF LossBounded

LEMMA AddAlertLoss == IInv /\ LossBounded /\ AddAlert => LossBounded'
<1> SUFFICES ASSUME IInv, LossBounded, AddAlert PROVE LossBounded'
  OBVIOUS
<1>1. /\ added' = added + 1 /\ step = "idle" /\ step' = "saveAlert"
      /\ UNCHANGED <<alertRows, metricRows, batches, faults>>
  BY DEF AddAlert, Add, tables
<1>2. /\ added \in Nat /\ faults \in Nat
      /\ IsFiniteSet(Missing) /\ Cardinality(Missing) \in Nat
      /\ Cardinality(Absent) \in Nat
  BY LossFinite DEF IInv, TablesType
<1>3. Missing' \in SUBSET (Missing \cup {added + 1}) /\ Absent' = Absent
  BY <1>1, <1>2 DEF Missing, Absent
<1>4. /\ IsFiniteSet(Missing \cup {added + 1})
      /\ Cardinality(Missing \cup {added + 1}) <= Cardinality(Missing) + 1
      /\ Cardinality(Missing \cup {added + 1}) \in Nat
  <2>1. /\ IsFiniteSet(Missing \cup {added + 1})
        /\ \/ Cardinality(Missing \cup {added + 1}) = Cardinality(Missing)
           \/ Cardinality(Missing \cup {added + 1}) = Cardinality(Missing) + 1
    BY <1>2, FS_AddElement
  <2> QED
    BY <1>2, <2>1
<1>5. Cardinality(Missing') \in Nat
      /\ Cardinality(Missing') <= Cardinality(Missing \cup {added + 1})
  BY <1>3, <1>4, FS_Subset, FS_CardinalityType
<1>6. InHand = 0 /\ InHand' = 1
  BY <1>1 DEF InHand
<1> QED
  BY <1>1, <1>2, <1>3, <1>4, <1>5, <1>6 DEF LossBounded

LEMMA SaveAlertLoss == IInv /\ LossBounded /\ SaveAlert => LossBounded'
<1> SUFFICES ASSUME IInv, LossBounded, SaveAlert PROVE LossBounded'
  OBVIOUS
<1>1. /\ step = "saveAlert" /\ step' = "idle" /\ added' = added
      /\ UNCHANGED <<metricRows, batches>> /\ open = FALSE
  BY DEF SaveAlert, IInv, TablesType, StepInv, vars, alertVars, Transaction
<1>2. InHand = 1 /\ InHand' = 0
  BY <1>1 DEF InHand
<1>3. faults \in Nat
  BY DEF IInv, TablesType
<1>4. CASE alertRows' = alertRows /\ faults' = faults + 1
  BY <1>1, <1>2, <1>3, <1>4, LossUnchanged DEF tables
<1>5. CASE alertRows' = Append(alertRows, added) /\ faults' \in {faults, faults + 1}
  <2>1. /\ added \in Nat /\ added > 0 /\ alertRows \in Seq(Nat)
        /\ \A i \in 1 .. Len(alertRows) : alertRows[i] < added
    BY <1>1 DEF IInv, TablesType, StepInv
  <2>2. /\ DOMAIN alertRows = 1 .. Len(alertRows) /\ Len(alertRows) \in Nat
        /\ DOMAIN alertRows' = 1 .. Len(alertRows) + 1
        /\ \A i \in 1 .. Len(alertRows) : alertRows'[i] = alertRows[i]
        /\ alertRows'[Len(alertRows) + 1] = added
    BY <1>5, <2>1
  <2>3. added \in Missing
    <3>1. \A i \in DOMAIN alertRows : alertRows[i] \in Nat /\ alertRows[i] < added
      BY <2>1, <2>2
    <3> QED
      BY <2>1, <3>1 DEF Missing
  <2>4. Missing' \in SUBSET (Missing \ {added}) /\ Absent' = Absent
    <3>1. Absent' = Absent
      BY <1>1 DEF Absent
    <3>2. ASSUME NEW a \in Missing' PROVE a \in Missing \ {added}
      <4>1. a \in 1 .. added /\ \A i \in DOMAIN alertRows' : alertRows'[i] # a
        BY <1>1 DEF Missing
      <4>2. a # added
        BY <2>2, <4>1
      <4>3. \A i \in DOMAIN alertRows : alertRows[i] # a
        BY <2>2, <4>1
      <4> QED
        BY <4>1, <4>2, <4>3 DEF Missing
    <3> QED
      BY <3>1, <3>2
  <2>5. /\ IsFiniteSet(Missing) /\ Cardinality(Missing) \in Nat
        /\ Cardinality(Absent) \in Nat
    BY LossFinite DEF IInv
  <2>6. /\ IsFiniteSet(Missing \ {added})
        /\ Cardinality(Missing \ {added}) = Cardinality(Missing) - 1
    BY <2>3, <2>5, FS_RemoveElement
  <2>7. Cardinality(Missing') \in Nat
        /\ Cardinality(Missing') <= Cardinality(Missing) - 1
    BY <2>4, <2>6, FS_Subset, FS_CardinalityType
  <2> QED
    BY <1>2, <1>3, <1>5, <2>4, <2>5, <2>7 DEF LossBounded
<1> QED
  BY <1>1, <1>4, <1>5 DEF SaveAlert, AfterError, Refused, Fault

LEMMA UpdateMetricsLoss ==
  ASSUME NEW r \in Readers
  PROVE  IInv /\ LossBounded /\ UpdateMetrics(r) => LossBounded'
<1> SUFFICES ASSUME IInv, LossBounded, UpdateMetrics(r) PROVE LossBounded'
  OBVIOUS
<1>1. /\ batches' = batches + 1 /\ step = "idle" /\ step' = "begin"
      /\ UNCHANGED <<alertRows, metricRows, faults, added>>
  BY DEF UpdateMetrics, Update, tables, alertVars
<1>2. /\ batches \in Nat /\ faults \in Nat
      /\ IsFiniteSet(Absent) /\ Cardinality(Absent) \in Nat
      /\ Cardinality(Missing) \in Nat
  BY LossFinite DEF IInv, TablesType
<1>3. Absent' \in SUBSET (Absent \cup {batches + 1}) /\ Missing' = Missing
  BY <1>1, <1>2 DEF Missing, Absent
<1>4. /\ IsFiniteSet(Absent \cup {batches + 1})
      /\ Cardinality(Absent \cup {batches + 1}) <= Cardinality(Absent) + 1
      /\ Cardinality(Absent \cup {batches + 1}) \in Nat
  <2>1. /\ IsFiniteSet(Absent \cup {batches + 1})
        /\ \/ Cardinality(Absent \cup {batches + 1}) = Cardinality(Absent)
           \/ Cardinality(Absent \cup {batches + 1}) = Cardinality(Absent) + 1
    BY <1>2, FS_AddElement
  <2> QED
    BY <1>2, <2>1
<1>5. Cardinality(Absent') \in Nat
      /\ Cardinality(Absent') <= Cardinality(Absent \cup {batches + 1})
  BY <1>3, <1>4, FS_Subset, FS_CardinalityType
<1>6. InHand = 0 /\ InHand' = 1
  BY <1>1 DEF InHand
<1> QED
  BY <1>1, <1>2, <1>3, <1>4, <1>5, <1>6 DEF LossBounded

LEMMA RollbackLoss ==
  ASSUME IInv, LossBounded, Rollback, step # "idle",
         UNCHANGED <<vars, alertRows, batches>>
  PROVE  LossBounded'
<1>1. /\ faults' = faults + 1 /\ step' = "idle" /\ metricRows' = metricRows
      /\ faults \in Nat
  BY DEF Rollback, Fault, RolledBack, IInv, TablesType
<1>2. InHand = 1 /\ InHand' = 0
  BY <1>1 DEF InHand
<1>3. UNCHANGED <<tables, added, batches>>
  BY <1>1 DEF vars, alertVars, tables
<1> QED
  BY <1>1, <1>2, <1>3, LossUnchanged

LEMMA CommitLoss == IInv /\ LossBounded /\ Commit => LossBounded'
<1> SUFFICES ASSUME IInv, LossBounded, Commit PROVE LossBounded'
  OBVIOUS
<1>1. /\ step = "commit" /\ step' = "idle"
      /\ UNCHANGED <<alertRows, batches>> /\ added' = added
  BY DEF Commit, vars, alertVars
<1>2. InHand = 1 /\ InHand' = 0
  BY <1>1 DEF InHand
<1>3. faults \in Nat
  BY DEF IInv, TablesType
<1>4. CASE metricRows' = metricRows /\ faults' = faults + 1
  BY <1>1, <1>2, <1>3, <1>4, LossUnchanged DEF tables
<1>5. CASE metricRows' = metricRows \cup Rows(inserted)
           /\ faults' \in {faults, faults + 1}
  <2>1. /\ batches \in Nat /\ batches > 0 /\ inserted = WindowCount
        /\ \A row \in metricRows : row[1] \in 1 .. batches /\ row[1] < batches
    BY <1>1 DEF IInv, TablesType, StepInv, Transaction
  <2>2. batches \in Absent
    BY <2>1 DEF Absent
  <2>3. <<batches, 1>> \in metricRows' /\ <<batches, 1>>[1] = batches
    BY <1>5, <2>1, StorageAssumption DEF Rows
  <2>4. Absent' \in SUBSET (Absent \ {batches}) /\ Missing' = Missing
    BY <1>1, <1>5, <2>3 DEF Absent, Missing
  <2>5. /\ IsFiniteSet(Absent) /\ Cardinality(Absent) \in Nat
        /\ Cardinality(Missing) \in Nat
    BY LossFinite DEF IInv
  <2>6. /\ IsFiniteSet(Absent \ {batches})
        /\ Cardinality(Absent \ {batches}) = Cardinality(Absent) - 1
    BY <2>2, <2>5, FS_RemoveElement
  <2>7. Cardinality(Absent') \in Nat
        /\ Cardinality(Absent') <= Cardinality(Absent) - 1
    BY <2>4, <2>6, FS_Subset, FS_CardinalityType
  <2> QED
    BY <1>2, <1>3, <1>5, <2>4, <2>5, <2>7 DEF LossBounded
<1> QED
  BY <1>4, <1>5 DEF Commit, Fault

(* The steps of a batch that leave the tables alone.                       *)
LEMMA BatchStepLoss ==
  ASSUME IInv, LossBounded, BeginTx \/ PrepareContext \/ ExecContext
  PROVE  LossBounded'
<1>1. /\ step \in {"begin", "prepare", "exec"}
      /\ UNCHANGED <<alertRows, batches, added>> /\ faults \in Nat
  BY DEF BeginTx, PrepareContext, ExecContext, vars, alertVars, tables,
         IInv, TablesType
<1>2. InHand = 1
  BY <1>1 DEF InHand
<1>3. CASE Rollback /\ UNCHANGED vars
  BY <1>1, <1>3, RollbackLoss
<1>4. CASE step' # "idle" /\ UNCHANGED <<metricRows, faults>>
  <2>1. InHand' = 1
    BY <1>4 DEF InHand
  <2> QED
    BY <1>1, <1>2, <1>4, <2>1, LossUnchanged DEF tables
<1>5. CASE BeginTx /\ Refused /\ step' = "idle" /\ UNCHANGED open
  <2>1. step = "begin" /\ UNCHANGED metricRows
    BY <1>5 DEF BeginTx, tables
  <2>2. ~open
    BY <2>1 DEF IInv, StepInv, Transaction
  <2>3. faults' = faults + 1 /\ InHand' = 0
    BY <1>5, <2>2 DEF Refused, Fault, InHand
  <2> QED
    BY <1>1, <1>2, <2>1, <2>3, LossUnchanged DEF tables
<1>6. CASE BeginTx
  <2>1. UNCHANGED metricRows
    BY <1>6 DEF BeginTx, tables
  <2> QED
    BY <1>4, <1>5, <1>6, <2>1 DEF BeginTx
<1>7. CASE PrepareContext
  BY <1>3, <1>4, <1>7 DEF PrepareContext
<1>8. CASE ExecContext
  BY <1>3, <1>4, <1>8 DEF ExecContext
<1> QED
  BY <1>6, <1>7, <1>8

LEMMA NextLoss == IInv /\ LossBounded /\ [StorageNext]_allVars => LossBounded'
<1> SUFFICES ASSUME IInv, LossBounded, [StorageNext]_allVars PROVE LossBounded'
  OBVIOUS
<1>1. CASE AddAlert
  BY <1>1, AddAlertLoss
<1>2. CASE SaveAlert
  BY <1>2, SaveAlertLoss
<1>3. ASSUME NEW r \in Readers, UpdateMetrics(r) PROVE LossBounded'
  BY <1>3, UpdateMetricsLoss
<1>4. CASE SaveMetrics
  BY <1>4, BatchStepLoss, CommitLoss DEF SaveMetrics
<1>5. CASE Crash
  <2>1. UNCHANGED <<tables, added, batches>> /\ faults' = faults + 1
    BY <1>5 DEF Crash, Created, Fault, tables
  <2>2. faults \in Nat /\ InHand \in {0, 1} /\ InHand' = 0
    BY <1>5 DEF Crash, InHand, IInv, TablesType
  <2> QED
    BY <2>1, <2>2, LossUnchanged
<1>6. CASE Meanwhile \/ UNCHANGED allVars
  <2>1. UNCHANGED <<storageVars, added>>
    BY <1>6 DEF Meanwhile, ClearAlerts, ClearMetrics, ClockMoves, alertVars,
                allVars, vars
  <2>2. UNCHANGED <<tables, added, batches, faults, step>>
    BY <2>1 DEF storageVars
  <2>3. faults \in Nat /\ InHand \in {0, 1} /\ InHand' = InHand
    BY <2>2 DEF InHand, IInv, TablesType
  <2> QED
    BY <2>2, <2>3, LossUnchanged
<1> QED
  BY <1>1, <1>2, <1>3, <1>4, <1>5, <1>6 DEF StorageNext

(* What the database lacks is bounded by the failures and crashes, however *)
(* many there are (engine.go:103-105, 144-153).                            *)
THEOREM SpecLossBounded == StorageSpec => []LossBounded
<1>1. StorageInit => LossBounded
  <2> SUFFICES ASSUME StorageInit PROVE LossBounded
    OBVIOUS
  <2>1. added = 0 /\ batches = 0 /\ faults = 0 /\ step = "idle"
    BY DEF StorageInit, Init
  <2>2. Missing = {} /\ Absent = {} /\ InHand = 0
    BY <2>1 DEF Missing, Absent, InHand
  <2> QED
    BY <2>1, <2>2, FS_EmptySet DEF LossBounded
<1> QED
  BY <1>1, NextLoss, SpecIInv, PTL DEF StorageSpec

-----------------------------------------------------------------------------
(***************************************************************************)
(* Theorems about Stores, among the steps of Storage: for every limit,     *)
(* every set of readers and every clock.                                   *)
(*                                                                         *)
(* AlertsLatest speaks of what List returns; what is inductive is what the *)
(* buffer holds (BufInv): the latest alerts since the last Clear, numbered *)
(* without a gap, and as many as the limit allows.                         *)
(***************************************************************************)

BufInv ==
  /\ added \in Nat /\ cleared \in 0 .. added
  /\ buf \in Seq(Nat)
  /\ Len(buf) = IF added - cleared < AlertLimit THEN added - cleared ELSE AlertLimit
  /\ \A i \in 1 .. Len(buf) : buf[i] = added - Len(buf) + i

(* How the stores change in a step.                                        *)
LEMMA AlertSteps ==
  ASSUME [StorageNext]_allVars
  PROVE  \/ Add
         \/ buf' = << >> /\ cleared' = added /\ added' = added
         \/ UNCHANGED alertVars
<1>1. CASE AddAlert
  BY <1>1 DEF AddAlert
<1>2. CASE SaveAlert
  BY <1>2 DEF SaveAlert, vars
<1>3. ASSUME NEW r \in Readers, UpdateMetrics(r) PROVE UNCHANGED alertVars
  BY <1>3 DEF UpdateMetrics, Update
<1>4. CASE SaveMetrics
  BY <1>4 DEF SaveMetrics, BeginTx, PrepareContext, ExecContext, Commit, vars
<1>5. CASE Crash
  BY <1>5 DEF Crash
<1>6. CASE Meanwhile
  BY <1>6 DEF Meanwhile, ClearAlerts, ClearMetrics, ClockMoves
<1>7. CASE UNCHANGED allVars
  BY <1>7 DEF allVars, vars
<1> QED
  BY <1>1, <1>2, <1>3, <1>4, <1>5, <1>6, <1>7 DEF StorageNext

LEMMA ReaderSteps ==
  ASSUME [StorageNext]_allVars
  PROVE  \/ \E r \in Readers : Update(r)
         \/ /\ byReader' = {} /\ updatedAt' = NoStamps /\ turn' = NoStamps
            /\ UNCHANGED <<updates, now>>
         \/ now' \in Nat /\ UNCHANGED metricVars
         \/ UNCHANGED <<metricVars, now>>
<1>1. CASE AddAlert
  BY <1>1 DEF AddAlert, Add, clockVars
<1>2. CASE SaveAlert
  BY <1>2 DEF SaveAlert, vars, clockVars
<1>3. ASSUME NEW r \in Readers, UpdateMetrics(r) PROVE Update(r)
  BY <1>3 DEF UpdateMetrics
<1>4. CASE SaveMetrics
  BY <1>4 DEF SaveMetrics, BeginTx, PrepareContext, ExecContext, Commit,
              vars, clockVars
<1>5. CASE Crash
  BY <1>5 DEF Crash, clockVars
<1>6. CASE Meanwhile
  BY <1>6 DEF Meanwhile, ClearAlerts, ClearMetrics, ClockMoves, clockVars
<1>7. CASE UNCHANGED allVars
  BY <1>7 DEF allVars, vars, clockVars
<1> QED
  BY <1>1, <1>2, <1>3, <1>4, <1>5, <1>6, <1>7 DEF StorageNext

-----------------------------------------------------------------------------
LEMMA AddBufInv == BufInv /\ Add => BufInv'
<1> SUFFICES ASSUME BufInv, Add PROVE BufInv'
  OBVIOUS
<1>1. /\ added \in Nat /\ cleared \in 0 .. added /\ buf \in Seq(Nat)
      /\ Len(buf) \in Nat /\ AlertLimit \in Nat \ {0}
      /\ added' = added + 1 /\ cleared' = cleared
  BY StoresAssumption DEF BufInv, Add
<1>2. CASE Len(buf) < AlertLimit
  <2>1. buf' = Append(buf, added + 1)
    BY <1>1, <1>2 DEF Add, Added
  <2>2. /\ buf' \in Seq(Nat) /\ Len(buf') = Len(buf) + 1
        /\ buf'[Len(buf) + 1] = added + 1
        /\ \A i \in 1 .. Len(buf) : buf'[i] = buf[i]
    BY <1>1, <2>1
  <2>3. ASSUME NEW i \in 1 .. Len(buf')
        PROVE  buf'[i] = added' - Len(buf') + i
    <3>1. CASE i \in 1 .. Len(buf)
      <4>1. buf'[i] = buf[i] /\ buf[i] = added - Len(buf) + i
        BY <2>2, <3>1 DEF BufInv
      <4> QED
        BY <1>1, <2>2, <3>1, <4>1
    <3>2. CASE i = Len(buf) + 1
      BY <1>1, <2>2, <3>2
    <3> QED
      BY <1>1, <2>2, <3>1, <3>2
  <2> QED
    BY <1>1, <1>2, <2>2, <2>3 DEF BufInv
<1>3. CASE ~(Len(buf) < AlertLimit)
  <2>1. buf' = Append(Tail(buf), added + 1) /\ Len(buf) = AlertLimit
    BY <1>1, <1>3 DEF Add, Added, BufInv
  <2>2. buf # << >>
    BY <1>1, <2>1
  <2>3. /\ Tail(buf) \in Seq(Nat) /\ Len(Tail(buf)) = Len(buf) - 1
        /\ \A i \in 1 .. Len(buf) - 1 : Tail(buf)[i] = buf[i + 1]
    BY <1>1, <2>2
  <2>4. /\ buf' \in Seq(Nat) /\ Len(buf') = Len(buf)
        /\ buf'[Len(buf)] = added + 1
        /\ \A i \in 1 .. Len(buf) - 1 : buf'[i] = Tail(buf)[i]
    BY <1>1, <2>1, <2>3
  <2>5. ASSUME NEW i \in 1 .. Len(buf')
        PROVE  buf'[i] = added' - Len(buf') + i
    <3>1. CASE i \in 1 .. Len(buf) - 1
      <4>1. buf'[i] = buf[i + 1]
        BY <2>3, <2>4, <3>1
      <4>2. i + 1 \in 1 .. Len(buf)
        BY <1>1, <3>1
      <4>3. buf[i + 1] = added - Len(buf) + (i + 1)
        BY <4>2 DEF BufInv
      <4> QED
        BY <1>1, <2>4, <3>1, <4>1, <4>3
    <3>2. CASE i = Len(buf)
      BY <1>1, <2>4, <3>2
    <3> QED
      BY <1>1, <2>4, <3>1, <3>2
  <2> QED
    BY <1>1, <2>1, <2>4, <2>5 DEF BufInv
<1> QED
  BY <1>2, <1>3

LEMMA NextBufInv == BufInv /\ [StorageNext]_allVars => BufInv'
<1> SUFFICES ASSUME BufInv, [StorageNext]_allVars PROVE BufInv'
  OBVIOUS
<1>1. CASE buf' = << >> /\ cleared' = added /\ added' = added
  <2>1. AlertLimit \in Nat \ {0} /\ added \in Nat
    BY StoresAssumption DEF BufInv
  <2>2. << >> \in Seq(Nat) /\ Len(<< >>) = 0
    OBVIOUS
  <2> QED
    BY <1>1, <2>1, <2>2 DEF BufInv
<1>2. CASE UNCHANGED alertVars
  BY <1>2 DEF BufInv, alertVars
<1> QED
  BY <1>1, <1>2, AlertSteps, AddBufInv

(* What List gives of such a buffer.                                       *)
LEMMA BufInvAlertsLatest == BufInv => AlertsLatest
<1> SUFFICES ASSUME BufInv, NEW limit \in 0 .. AlertLimit + 1
             PROVE  LET want  == IF limit = 0 \/ limit > AlertLimit
                                 THEN AlertLimit ELSE limit
                        first == Larger(cleared, added - want)
                    IN  List(limit) = [i \in 1 .. added - first |-> first + i]
  BY DEF AlertsLatest
<1> DEFINE want  == IF limit = 0 \/ limit > AlertLimit THEN AlertLimit ELSE limit
           first == Larger(cleared, added - want)
<1>1. /\ AlertLimit \in Nat \ {0} /\ limit \in Nat /\ added \in Nat
      /\ cleared \in Nat /\ cleared <= added
      /\ buf \in Seq(Nat) /\ Len(buf) \in Nat
  BY StoresAssumption DEF BufInv
<1>2. Len(buf) = IF added - cleared < AlertLimit THEN added - cleared ELSE AlertLimit
  BY DEF BufInv
<1>3. \A i \in 1 .. Len(buf) : buf[i] = added - Len(buf) + i
  BY DEF BufInv
<1>4. CASE limit <= 0 \/ limit > Len(buf)
  <2>1. List(limit) = buf
    BY <1>4 DEF List
  <2>2. first = added - Len(buf)
    BY <1>1, <1>2, <1>4 DEF Larger
  <2>3. buf = [i \in 1 .. Len(buf) |-> buf[i]]
    BY <1>1
  <2>4. buf = [i \in 1 .. Len(buf) |-> added - Len(buf) + i]
    BY <1>3, <2>3
  <2>5. added - first = Len(buf)
    BY <1>1, <2>2
  <2> QED
    BY <2>1, <2>2, <2>4, <2>5
<1>5. CASE ~(limit <= 0 \/ limit > Len(buf))
  <2>1. List(limit) = SubSeq(buf, Len(buf) - limit + 1, Len(buf))
    BY <1>5 DEF List
  <2>2. first = added - limit /\ added - first = limit
    BY <1>1, <1>2, <1>5 DEF Larger
  <2>3. SubSeq(buf, Len(buf) - limit + 1, Len(buf))
          = [i \in 1 .. limit |-> buf[Len(buf) - limit + i]]
    BY <1>1, <1>5
  <2>4. \A i \in 1 .. limit : buf[Len(buf) - limit + i] = added - limit + i
    BY <1>1, <1>3, <1>5
  <2> QED
    BY <2>1, <2>2, <2>3, <2>4
<1> QED
  BY <1>4, <1>5

(* GET /alerts shows the latest alerts since the last clear, oldest first, *)
(* without a gap and as many as asked for, for every size of the buffer    *)
(* (alerts/store.go:23-49).                                                *)
THEOREM SpecAlertsLatest == StorageSpec => []AlertsLatest
<1>1. StorageInit => BufInv
  <2>1. << >> \in Seq(Nat) /\ Len(<< >>) = 0 /\ AlertLimit \in Nat \ {0}
    BY StoresAssumption
  <2> QED
    BY <2>1 DEF StorageInit, Init, BufInv
<1> QED
  BY <1>1, NextBufInv, BufInvAlertsLatest, PTL DEF StorageSpec

-----------------------------------------------------------------------------
ReadersInv == ReadersBounded /\ byReader \subseteq Readers

LEMMA UpdateReadersInv ==
  ASSUME NEW r \in Readers
  PROVE  ReadersInv /\ Update(r) => ReadersInv'
<1> SUFFICES ASSUME ReadersInv, Update(r) PROVE ReadersInv'
  OBVIOUS
<1> DEFINE readers == byReader \cup {r}
           stamps  == Stamped(updatedAt, r)
<1>1. /\ readers \subseteq Readers /\ ReaderLimit \in Nat \ {0}
      /\ IsFiniteSet(Readers)
  BY StoresAssumption DEF ReadersInv
<1>2. /\ IsFiniteSet(byReader) /\ IsFiniteSet(readers)
      /\ Cardinality(byReader) \in Nat /\ Cardinality(readers) \in Nat
  BY <1>1, FS_Subset, FS_CardinalityType DEF ReadersInv
<1>3. \/ Cardinality(readers) = Cardinality(byReader)
      \/ Cardinality(readers) = Cardinality(byReader) + 1
  BY <1>2, FS_AddElement
<1>4. DOMAIN stamps = readers
  BY DEF Stamped, ReadersInv, ReadersBounded
<1>5. CASE Cardinality(readers) > ReaderLimit
  <2>1. PICK o \in Oldest(stamps) :
               byReader' = readers \ {o} /\ updatedAt' = Without(stamps, o)
    BY <1>5 DEF Update
  <2>2. o \in readers
    BY <1>4, <2>1 DEF Oldest
  <2>3. Cardinality(readers \ {o}) = Cardinality(readers) - 1
    BY <1>2, <2>2, FS_RemoveElement
  <2>4. DOMAIN updatedAt' = readers \ {o}
    BY <1>4, <2>1 DEF Without
  <2>5. Cardinality(byReader) <= ReaderLimit
    BY DEF ReadersInv, ReadersBounded
  <2> QED
    BY <1>1, <1>2, <1>3, <2>1, <2>3, <2>4, <2>5 DEF ReadersInv, ReadersBounded
<1>6. CASE ~(Cardinality(readers) > ReaderLimit)
  <2>1. byReader' = readers /\ updatedAt' = stamps
    BY <1>6 DEF Update
  <2> QED
    BY <1>1, <1>2, <1>4, <1>6, <2>1 DEF ReadersInv, ReadersBounded
<1> QED
  BY <1>5, <1>6

(* Nobody is in the store.                                                 *)
LEMMA NoReaders ==
  /\ DOMAIN NoStamps = {}
  /\ Cardinality({}) <= ReaderLimit
  BY FS_EmptySet, StoresAssumption DEF NoStamps

LEMMA NextReadersInv == ReadersInv /\ [StorageNext]_allVars => ReadersInv'
<1> SUFFICES ASSUME ReadersInv, [StorageNext]_allVars PROVE ReadersInv'
  OBVIOUS
<1>1. CASE byReader' = {} /\ updatedAt' = NoStamps
  BY <1>1, NoReaders DEF ReadersInv, ReadersBounded
<1>2. CASE UNCHANGED metricVars
  BY <1>2 DEF ReadersInv, ReadersBounded, metricVars
<1> QED
  BY <1>1, <1>2, ReaderSteps, UpdateReadersInv

(* The two maps of the metrics store hold the same readers, and no more    *)
(* than the limit, for every limit and every clock (metrics/store.go:43-44 *)
(* and 86-87).                                                             *)
THEOREM SpecReadersBounded == StorageSpec => []ReadersBounded
<1>1. StorageInit => ReadersInv
  BY NoReaders DEF StorageInit, Init, ReadersInv, ReadersBounded
<1>2. ReadersInv => ReadersBounded
  BY DEF ReadersInv
<1> QED
  BY <1>1, <1>2, NextReadersInv, PTL DEF StorageSpec

-----------------------------------------------------------------------------
(***************************************************************************)
(* That the readers kept are the latest holds only as long as the stamps   *)
(* tell the updates apart.  What is inductive is that, in a steady store,  *)
(* the stamps are in the order of the updates (StampsInOrder): the reader  *)
(* with the least stamp is then the one updated longest ago.               *)
(***************************************************************************)
TurnType ==
  /\ now \in Nat /\ updates \in Nat
  /\ \A x \in byReader : updatedAt[x] \in Nat
  /\ DOMAIN turn \subseteq Readers
  /\ \A x \in DOMAIN turn : turn[x] \in 1 .. updates
  /\ \A x, y \in DOMAIN turn : turn[x] = turn[y] => x = y

StampsInOrder ==
  steady => \A x, y \in byReader : turn[x] < turn[y] => updatedAt[x] < updatedAt[y]

TurnInv == ReadersInv /\ TurnType /\ StampsInOrder /\ LatestReadersKept

(* The readers kept are an end of the order of updates.                    *)
LEMMA KeptUpwards ==
  ASSUME TurnInv, steady, NEW x \in byReader
  PROVE  x \in DOMAIN turn /\ Since(x) \subseteq byReader
<1>1. /\ byReader = {z \in DOMAIN turn : Cardinality(Since(z)) <= ReaderLimit}
      /\ ReaderLimit \in Nat /\ IsFiniteSet(DOMAIN turn)
      /\ \A z \in DOMAIN turn : turn[z] \in Int
  BY StoresAssumption, FS_Subset DEF TurnInv, TurnType, LatestReadersKept
<1>2. SUFFICES ASSUME NEW y \in Since(x) PROVE Cardinality(Since(y)) <= ReaderLimit
  BY <1>1 DEF Since
<1>3. Since(y) \subseteq Since(x)
  BY <1>1 DEF Since
<1>4. IsFiniteSet(Since(x))
  BY <1>1, FS_Subset DEF Since
<1>5. /\ Cardinality(Since(y)) \in Nat /\ Cardinality(Since(x)) \in Nat
      /\ Cardinality(Since(y)) <= Cardinality(Since(x))
  BY <1>3, <1>4, FS_Subset, FS_CardinalityType
<1> QED
  BY <1>1, <1>5

(* Of what an update makes of the order.                                   *)
LEMMA SinceUpdate ==
  ASSUME TurnType, NEW r \in Readers, Update(r)
  PROVE  /\ DOMAIN turn' = DOMAIN turn \cup {r} /\ turn'[r] = updates'
         /\ \A x \in DOMAIN turn \ {r} : turn'[x] = turn[x] /\ turn[x] < updates'
         /\ Since(r)' = {r}
         /\ \A x \in DOMAIN turn \ {r} : Since(x)' = Since(x) \cup {r}
<1>1. /\ updates' = updates + 1 /\ updates \in Nat
      /\ turn' = [x \in DOMAIN turn \cup {r} |-> IF x = r THEN updates + 1 ELSE turn[x]]
      /\ \A x \in DOMAIN turn : turn[x] \in 1 .. updates
  BY DEF TurnType, Update
<1>2. /\ DOMAIN turn' = DOMAIN turn \cup {r} /\ turn'[r] = updates'
      /\ \A x \in DOMAIN turn \ {r} : turn'[x] = turn[x] /\ turn[x] < updates'
  BY <1>1
<1>3. Since(r)' = {r}
  BY <1>1, <1>2 DEF Since
<1>4. ASSUME NEW x \in DOMAIN turn \ {r} PROVE Since(x)' = Since(x) \cup {r}
  <2>1. \A y \in DOMAIN turn \ {r} : turn'[x] <= turn'[y] <=> turn[x] <= turn[y]
    BY <1>2
  <2>2. turn'[x] <= turn'[r]
    BY <1>1, <1>2
  <2> QED
    BY <1>2, <2>1, <2>2 DEF Since
<1> QED
  BY <1>2, <1>3, <1>4

LEMMA UpdateTurnInv ==
  ASSUME NEW r \in Readers
  PROVE  TurnInv /\ Update(r) => TurnInv'
<1> SUFFICES ASSUME TurnInv, Update(r) PROVE TurnInv'
  OBVIOUS
<1> DEFINE readers == byReader \cup {r}
           stamps  == Stamped(updatedAt, r)
           rest    == byReader \ {r}
<1>1. ReadersInv'
  BY UpdateReadersInv DEF TurnInv
<1>2. /\ now' = now /\ updates' = updates + 1 /\ now \in Nat /\ updates \in Nat
      /\ steady' => steady /\ \A x \in rest : updatedAt[x] < now
  BY DEF Update, clockVars, TurnInv, TurnType
<1>3. /\ DOMAIN stamps = readers /\ stamps[r] = now
      /\ \A x \in rest : stamps[x] = updatedAt[x] /\ updatedAt[x] \in Nat
  BY DEF Stamped, TurnInv, TurnType, ReadersInv, ReadersBounded
<1>4. /\ DOMAIN turn' = DOMAIN turn \cup {r} /\ turn'[r] = updates'
      /\ \A x \in DOMAIN turn \ {r} : turn'[x] = turn[x] /\ turn[x] < updates'
      /\ Since(r)' = {r}
      /\ \A x \in DOMAIN turn \ {r} : Since(x)' = Since(x) \cup {r}
  BY SinceUpdate DEF TurnInv
<1>5. /\ byReader' \subseteq readers
      /\ \A x \in byReader' : updatedAt'[x] = stamps[x]
  <2>1. CASE Cardinality(readers) > ReaderLimit
    BY <1>3, <2>1 DEF Update, Without
  <2>2. CASE ~(Cardinality(readers) > ReaderLimit)
    BY <2>2 DEF Update
  <2> QED
    BY <2>1, <2>2
<1>6. TurnType'
  <2>1. \A x \in byReader' : updatedAt'[x] \in Nat
    BY <1>2, <1>3, <1>5
  <2>2. \A x \in DOMAIN turn' : turn'[x] \in 1 .. updates'
    BY <1>2, <1>4 DEF TurnInv, TurnType
  <2>3. \A x, y \in DOMAIN turn' : turn'[x] = turn'[y] => x = y
    BY <1>2, <1>4 DEF TurnInv, TurnType
  <2>4. DOMAIN turn' \subseteq Readers
    BY <1>4 DEF TurnInv, TurnType
  <2> QED
    BY <1>2, <2>1, <2>2, <2>3, <2>4 DEF TurnType
<1>7. CASE ~steady'
  BY <1>1, <1>6, <1>7 DEF TurnInv, StampsInOrder, LatestReadersKept
<1>8. CASE steady'
  <2>1. /\ steady /\ \A x \in rest : stamps[x] < stamps[r]
        /\ byReader = {x \in DOMAIN turn : Cardinality(Since(x)) <= ReaderLimit}
        /\ \A x \in byReader : x \in DOMAIN turn /\ Since(x) \subseteq byReader
    BY <1>2, <1>3, <1>8, KeptUpwards DEF TurnInv, LatestReadersKept
  <2>2. /\ \A x \in readers : x \in DOMAIN turn' /\ turn'[x] \in Int /\ stamps[x] \in Int
        /\ \A x, y \in readers : turn'[x] < turn'[y] => stamps[x] < stamps[y]
    <3>1. \A x \in readers : x \in DOMAIN turn' /\ turn'[x] \in Int /\ stamps[x] \in Int
      BY <1>2, <1>3, <1>4, <1>6, <2>1 DEF TurnType
    <3>2. ASSUME NEW x \in readers, NEW y \in readers, turn'[x] < turn'[y]
          PROVE  stamps[x] < stamps[y]
      <4>1. CASE x = r
        BY <1>2, <1>4, <1>6, <3>1, <3>2, <4>1 DEF TurnType
      <4>2. CASE x # r /\ y = r
        BY <2>1, <4>2
      <4>3. CASE x # r /\ y # r
        <5>1. x \in byReader /\ y \in byReader /\ turn[x] < turn[y]
          BY <1>4, <2>1, <3>2, <4>3
        <5> QED
          BY <1>3, <2>1, <4>3, <5>1 DEF TurnInv, StampsInOrder
      <4> QED
        BY <4>1, <4>2, <4>3
    <3> QED
      BY <3>1, <3>2
  <2>3. StampsInOrder'
    BY <1>5, <2>2 DEF StampsInOrder
  <2>4. /\ IsFiniteSet(readers) /\ Cardinality(readers) \in Nat
        /\ IsFiniteSet(byReader) /\ Cardinality(byReader) \in Nat
        /\ Cardinality(byReader) <= ReaderLimit /\ ReaderLimit \in Nat \ {0}
        /\ Cardinality(readers) <= Cardinality(byReader) + 1
    <3>1. IsFiniteSet(Readers) /\ readers \subseteq Readers /\ ReaderLimit \in Nat \ {0}
      BY StoresAssumption DEF TurnInv, ReadersInv
    <3>2. IsFiniteSet(byReader) /\ IsFiniteSet(readers)
      BY <3>1, FS_Subset
    <3> QED
      BY <3>1, <3>2, FS_CardinalityType, FS_AddElement
         DEF TurnInv, ReadersInv, ReadersBounded
  <2>5. /\ Cardinality({r}) = 1 /\ Cardinality(Since(r)') <= ReaderLimit
        /\ \A x \in rest : Since(x)' \subseteq readers
        /\ \A x \in DOMAIN turn \ {r} :
             Cardinality(Since(x)') <= ReaderLimit => x \in byReader
    <3>1. Cardinality({r}) = 1 /\ Cardinality(Since(r)') <= ReaderLimit
      <4>1. Cardinality({r}) = 1
        BY FS_Singleton
      <4>2. Cardinality(Since(r)') = Cardinality({r})
        BY <1>4, Zenon
      <4> QED
        BY <2>4, <4>1, <4>2
    <3>2. \A x \in rest : Since(x)' \subseteq readers
      BY <1>4, <2>1
    <3>3. ASSUME NEW x \in DOMAIN turn \ {r}, Cardinality(Since(x)') <= ReaderLimit
          PROVE  x \in byReader
      <4>1. Since(x) \subseteq Since(x)' /\ Since(x)' \subseteq Readers
        BY <1>4 DEF Since, TurnInv, TurnType
      <4>2. IsFiniteSet(Since(x)')
        BY <4>1, FS_Subset, StoresAssumption
      <4>3. /\ Cardinality(Since(x)) \in Nat /\ Cardinality(Since(x)') \in Nat
            /\ Cardinality(Since(x)) <= Cardinality(Since(x)')
        BY <4>1, <4>2, FS_Subset, FS_CardinalityType
      <4> QED
        BY <2>1, <2>4, <3>3, <4>3
    <3> QED
      BY <3>1, <3>2, <3>3
  <2>6. CASE ~(Cardinality(readers) > ReaderLimit)
    <3>1. byReader' = readers
      BY <2>6 DEF Update
    <3>2. \A x \in rest : Cardinality(Since(x)') <= ReaderLimit
      <4> TAKE x \in rest
      <4>1. /\ Cardinality(Since(x)') \in Nat
            /\ Cardinality(Since(x)') <= Cardinality(readers)
        BY <2>4, <2>5, FS_Subset, FS_CardinalityType
      <4> QED
        BY <2>4, <2>6, <4>1
    <3>3. \A x \in DOMAIN turn' :
            x \in readers <=> Cardinality(Since(x)') <= ReaderLimit
      BY <1>4, <2>4, <2>5, <3>2
    <3>4. LatestReadersKept'
      BY <2>2, <3>1, <3>3 DEF LatestReadersKept
    <3> QED
      BY <1>1, <1>6, <2>3, <3>4 DEF TurnInv
  <2>7. CASE Cardinality(readers) > ReaderLimit
    <3>1. PICK o \in Oldest(stamps) : byReader' = readers \ {o}
      BY <2>7 DEF Update
    <3>2. o \in readers /\ \A x \in readers : stamps[o] <= stamps[x]
      BY <1>3, <3>1 DEF Oldest
    <3>3. \A x \in readers : turn'[o] <= turn'[x]
      BY <2>2, <3>2
    <3>4. o # r
      <4>1. PICK x \in rest : TRUE
        <5>1. rest # {}
          <6> SUFFICES ASSUME rest = {} PROVE FALSE
            OBVIOUS
          <6>1. readers = {r}
            OBVIOUS
          <6>2. Cardinality(readers) = Cardinality({r})
            BY ONLY <6>1, Zenon
          <6> QED
            BY <2>4, <2>5, <2>7, <6>2
        <5> QED
          BY <5>1
      <4>2. stamps[x] < stamps[r] /\ stamps[o] <= stamps[x]
        BY <2>1, <3>2, <4>1
      <4> QED
        BY <2>2, <3>2, <4>1, <4>2
    <3>5. /\ Cardinality(Since(o)') \in Nat
          /\ ~(Cardinality(Since(o)') <= ReaderLimit)
      <4>1. readers \subseteq Since(o)'
        BY <2>2, <3>3 DEF Since
      <4>2. IsFiniteSet(Since(o)')
        <5>1. Since(o)' \subseteq Readers
          BY <1>6 DEF Since, TurnType
        <5> QED
          BY <5>1, FS_Subset, StoresAssumption
      <4>3. /\ Cardinality(Since(o)') \in Nat
            /\ Cardinality(readers) <= Cardinality(Since(o)')
        BY <4>1, <4>2, FS_Subset, FS_CardinalityType
      <4> QED
        BY <2>4, <2>7, <4>3
    <3>6. /\ Cardinality(readers \ {o}) = Cardinality(readers) - 1
          /\ IsFiniteSet(readers \ {o})
      BY <2>4, <3>2, FS_RemoveElement
    <3>7. \A x \in rest \ {o} : Cardinality(Since(x)') <= ReaderLimit
      <4> TAKE x \in rest \ {o}
      <4>1. o \notin Since(x)'
        <5>1. x \in readers /\ turn'[o] <= turn'[x] /\ turn'[o] # turn'[x]
          BY <1>6, <2>2, <3>2, <3>3 DEF TurnType
        <5>2. ~(turn'[x] <= turn'[o])
          BY <2>2, <3>2, <5>1
        <5> QED
          BY <5>2 DEF Since
      <4>2. Since(x)' \subseteq readers \ {o}
        BY <2>5, <4>1
      <4>3. /\ Cardinality(Since(x)') \in Nat
            /\ Cardinality(Since(x)') <= Cardinality(readers \ {o})
        BY <3>6, <4>2, FS_Subset, FS_CardinalityType
      <4> QED
        BY <2>4, <3>6, <4>3
    <3>8. \A x \in DOMAIN turn' :
            x \in readers \ {o} <=> Cardinality(Since(x)') <= ReaderLimit
      <4> TAKE x \in DOMAIN turn'
      <4>1. CASE x = o
        BY <2>4, <3>5, <4>1
      <4>2. CASE x = r
        BY <1>4, <2>4, <2>5, <3>4, <4>2
      <4>3. CASE x # r /\ x # o
        BY <1>4, <2>5, <3>7, <4>3
      <4> QED
        BY <4>1, <4>2, <4>3
    <3>9. LatestReadersKept'
      BY <2>2, <3>1, <3>8 DEF LatestReadersKept
    <3> QED
      BY <1>1, <1>6, <2>3, <3>9 DEF TurnInv
  <2> QED
    BY <2>6, <2>7
<1> QED
  BY <1>7, <1>8

(* An empty store is in order.                                             *)
LEMMA NextTurnInv == TurnInv /\ [StorageNext]_allVars => TurnInv'
<1> SUFFICES ASSUME TurnInv, [StorageNext]_allVars PROVE TurnInv'
  OBVIOUS
<1>1. ReadersInv'
  BY NextReadersInv DEF TurnInv
<1>2. CASE /\ byReader' = {} /\ updatedAt' = NoStamps /\ turn' = NoStamps
           /\ UNCHANGED <<updates, now>>
  BY <1>1, <1>2, NoReaders
     DEF TurnInv, TurnType, StampsInOrder, LatestReadersKept
<1>3. CASE now' \in Nat /\ UNCHANGED metricVars
  BY <1>1, <1>3 DEF TurnInv, TurnType, StampsInOrder, LatestReadersKept, Since,
                    metricVars
<1>4. CASE UNCHANGED <<metricVars, now>>
  BY <1>1, <1>4 DEF TurnInv, TurnType, StampsInOrder, LatestReadersKept, Since,
                    metricVars
<1> QED
  BY <1>2, <1>3, <1>4, ReaderSteps, UpdateTurnInv

(* While the clock moves on between updates, the store holds the readers   *)
(* updated last, for every limit and every number of readers; the one that *)
(* goes is never one that was updated after another that stays             *)
(* (metrics/store.go:76-89).                                               *)
THEOREM SpecLatestReadersKept == StorageSpec => []LatestReadersKept
<1>1. StorageInit => TurnInv
  BY NoReaders DEF StorageInit, Init, TurnInv, ReadersInv, ReadersBounded, TurnType,
                   StampsInOrder, LatestReadersKept
<1>2. TurnInv => LatestReadersKept
  BY DEF TurnInv
<1> QED
  BY <1>1, <1>2, NextTurnInv, PTL DEF StorageSpec
=============================================================================
