------------------------------- MODULE Stores -------------------------------
(***************************************************************************)
(* What the API shows: the store of alerts (internal/alerts/store.go) and  *)
(* the store of metrics (internal/metrics/store.go).  Each method of each  *)
(* store holds its mutex from beginning to end, so each is one action;     *)
(* the pipeline calls Add and Update, handlers call List and Clear.        *)
(*                                                                         *)
(* Alerts are numbered in the order they are added.  Of the metrics only   *)
(* the readers are kept here: what is shown of their windows is in Engine. *)
(* The metrics store stamps a reader with time.Now().UTC(), which may be   *)
(* set back by at most ClockStep below the highest value it has had.       *)
(***************************************************************************)
EXTENDS Integers, Sequences, FiniteSets

CONSTANTS
  Readers,
  AlertLimit,     \* alerts.Store.limit
  ReaderLimit,    \* metrics.Store.limit
  ClockStep,
  Horizon,        \* bound: the last clock value considered
  MaxAlerts       \* bound: how many alerts are added

ASSUME StoresAssumption ==
  /\ IsFiniteSet(Readers)
  /\ AlertLimit \in Nat \ {0} /\ ReaderLimit \in Nat \ {0}
  /\ ClockStep \in Nat /\ Horizon \in Nat /\ MaxAlerts \in Nat

VARIABLES
  buf,              \* alerts.Store.buf
  added, cleared,   \* ghosts: the alerts added so far, and up to the last Clear
  byReader,         \* metrics.Store.byReader: the readers in it
  updatedAt,        \* metrics.Store.updatedAt
  now, peak,        \* the wall clock and its highest value so far
  updates, turn,    \* ghosts: the updates so far, and which of them was the
                    \* last of each reader that was updated since Clear
  steady            \* ghost: each update since Clear had a later stamp than
                    \* that of every other reader in the store

alertVars  == <<buf, added, cleared>>
metricVars == <<byReader, updatedAt, updates, turn, steady>>
clockVars  == <<now, peak>>
vars == <<alertVars, metricVars, clockVars>>

NoStamps == [r \in {} |-> 0]

Init ==
  /\ buf = << >> /\ added = 0 /\ cleared = 0
  /\ byReader = {} /\ updatedAt = NoStamps
  /\ updates = 0 /\ turn = NoStamps /\ steady = TRUE
  /\ now = 1 /\ peak = 1

-----------------------------------------------------------------------------
(* Mutant: a full buffer is not shifted before its last slot is written.   *)
AddedInPlace(b, a) ==
  IF Len(b) < AlertLimit THEN Append(b, a) ELSE [b EXCEPT ![Len(b)] = a]

Added(b, a) ==
  IF Len(b) < AlertLimit THEN Append(b, a) ELSE Append(Tail(b), a)

Add ==
  /\ added < MaxAlerts
  /\ added' = added + 1
  /\ buf' = Added(buf, added')
  /\ UNCHANGED <<cleared, metricVars, clockVars>>

(* List(limit), where 0 asks for all.                                      *)
List(limit) ==
  IF limit <= 0 \/ limit > Len(buf) THEN buf
  ELSE SubSeq(buf, Len(buf) - limit + 1, Len(buf))

ClearAlerts ==
  /\ buf' = << >>
  /\ cleared' = added
  /\ UNCHANGED <<added, metricVars, clockVars>>

-----------------------------------------------------------------------------
(* The readers evictOldest may pick: the first one with the least stamp in *)
(* the order of the map, which is arbitrary.                               *)
Oldest(stamps) ==
  {r \in DOMAIN stamps : \A x \in DOMAIN stamps : stamps[r] <= stamps[x]}

(* Mutant: a reader is stamped when it enters the store and not again.     *)
StampedOnce(stamps, r) ==
  [x \in DOMAIN stamps \cup {r} |-> IF x \in DOMAIN stamps THEN stamps[x] ELSE now]

Stamped(stamps, r) ==
  [x \in DOMAIN stamps \cup {r} |-> IF x = r THEN now ELSE stamps[x]]

(* Mutant: the evicted reader keeps its stamp.                             *)
WithoutStampKept(stamps, r) == stamps

Without(stamps, r) == [x \in DOMAIN stamps \ {r} |-> stamps[x]]

Update(r) ==
  LET readers == byReader \cup {r}
      stamps  == Stamped(updatedAt, r)
  IN  /\ IF Cardinality(readers) > ReaderLimit
         THEN \E o \in Oldest(stamps) :
                byReader' = readers \ {o} /\ updatedAt' = Without(stamps, o)
         ELSE byReader' = readers /\ updatedAt' = stamps
      /\ updates' = updates + 1
      /\ turn' = [x \in DOMAIN turn \cup {r} |-> IF x = r THEN updates + 1 ELSE turn[x]]
      /\ steady' = (steady /\ \A x \in byReader \ {r} : updatedAt[x] < now)
      /\ UNCHANGED <<alertVars, clockVars>>

ClearMetrics ==
  /\ byReader' = {} /\ updatedAt' = NoStamps
  /\ turn' = NoStamps /\ steady' = TRUE
  /\ UNCHANGED <<updates, alertVars, clockVars>>

ClockMoves ==
  /\ now' \in 1 .. Horizon
  /\ now' >= peak - ClockStep
  /\ peak' = IF now' > peak THEN now' ELSE peak
  /\ UNCHANGED <<alertVars, metricVars>>

Next == Add \/ ClearAlerts \/ (\E r \in Readers : Update(r)) \/ ClearMetrics
          \/ ClockMoves

Spec == Init /\ [][Next]_vars

-----------------------------------------------------------------------------
Larger(x, y) == IF x > y THEN x ELSE y

(* GET /alerts shows the latest alerts since the last Clear, oldest first  *)
(* and without a gap, as many as were asked for and the buffer holds       *)
(* (alerts/store.go:23-49), whenever and however often it was cleared.     *)
AlertsLatest ==
  \A limit \in 0 .. AlertLimit + 1 :
    LET want  == IF limit = 0 \/ limit > AlertLimit THEN AlertLimit ELSE limit
        first == Larger(cleared, added - want)
    IN  List(limit) = [i \in 1 .. added - first |-> first + i]

(* The two maps of the metrics store hold the same readers, and no more    *)
(* than the limit (metrics/store.go:43-44, 86-87): a stamp without metrics *)
(* would be evicted again and again while the metrics grow.                *)
ReadersBounded ==
  byReader = DOMAIN updatedAt /\ Cardinality(byReader) <= ReaderLimit

(* The readers updated since x was, x among them.                          *)
Since(x) == {y \in DOMAIN turn : turn[x] <= turn[y]}

(* While the stamps are distinct and in order, the store holds the readers *)
(* updated last and never drops one that was updated after another that it *)
(* keeps (metrics/store.go:76-89).  A clock that is set back or does not   *)
(* move voids this: even the reader just updated may go.                   *)
LatestReadersKept ==
  steady => byReader = {x \in DOMAIN turn : Cardinality(Since(x)) <= ReaderLimit}
=============================================================================
