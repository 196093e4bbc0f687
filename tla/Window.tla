------------------------------- MODULE Window -------------------------------
(***************************************************************************)
(* The sliding window of one reader (internal/engine/window.go), fed by    *)
(* the part of ProcessEvent that touches it: the timestamp is clamped      *)
(* around the wall clock, then Evict, Add and Metrics run in that order.   *)
(* The engine has one consuming goroutine, so the three are one action.    *)
(* The skews are those of the configuration in force, which UpdateConfig   *)
(* replaces between two events.                                            *)
(*                                                                         *)
(* The code never removes from the front of its slice: it advances head    *)
(* and, when at least half of the slice is dead, copies the rest.  The     *)
(* figures are not recomputed from the slice but kept in counters that     *)
(* every Evict and Add adjusts.                                            *)
(*                                                                         *)
(* now is time.Now().UTC(), which drops Go's monotonic reading: the clock  *)
(* may be set back, by at most ClockStep below the highest value it had.   *)
(***************************************************************************)
EXTENDS Integers, Sequences, FiniteSets

CONSTANTS
  Duration,       \* w.duration
  Skews,          \* detection.max_clock_skew (past) and max_future_skew
                  \* (future) of the configurations; 0 disables a check
  MaxPast,        \* the largest of the past skews
  MaxFuture,      \* the largest of the future skews
  ClockStep,      \* how far the wall clock may be set back
  UIDs, NoUID,
  Horizon,        \* bound: the last clock value considered
  MaxEvents       \* bound: the longest slice considered

ASSUME WindowAssumption ==
  /\ Duration \in Nat \ {0}
  /\ Skews \subseteq [past : Nat, future : Nat]
  /\ MaxPast \in Nat /\ MaxFuture \in Nat
  /\ \A s \in Skews : s.past <= MaxPast /\ s.future <= MaxFuture
  /\ ClockStep \in Nat
  /\ Horizon \in Nat /\ MaxEvents \in Nat
  /\ IsFiniteSet(UIDs) /\ NoUID \notin UIDs

VARIABLES
  now, peak,      \* the wall clock and the highest value it has had
  skews,          \* the two skews of the configuration in force (e.cfg)
  events,         \* w.events
  head,           \* w.head: how many entries of events are dead
  attempts,       \* w.attempts
  failures,       \* w.failures
  uidCounts,      \* w.uidCounts: defined for the UIDs present in the map
  report          \* the WindowMetrics returned for the latest event

wvars == <<events, head, attempts, failures, uidCounts, report>>
vars == <<now, peak, skews, wvars>>

Results == {"success", "failure"}

Entry == [ts : Int, uid : UIDs \cup {NoUID}, result : Results]

(* time.Time{}: the timestamp of an event that has none.                   *)
ZeroTime == 0

(* Timestamps an adapter may deliver: none, or any time up to just beyond  *)
(* what the widest future skew lets through.                               *)
Stamps == 0 .. Horizon + MaxFuture + 1

(* Mutant: events from the past are let through as they are.               *)
ClampFutureOnly(ts) ==
  IF \/ ts = ZeroTime
     \/ skews.future > 0 /\ ts - now > skews.future
  THEN now
  ELSE ts

ClampTimestamp(ts) ==
  IF \/ ts = ZeroTime
     \/ skews.past > 0 /\ now - ts > skews.past
     \/ skews.future > 0 /\ ts - now > skews.future
  THEN now
  ELSE ts

Live == head + 1 .. Len(events)

-----------------------------------------------------------------------------
Init ==
  /\ now = 1 /\ peak = 1
  /\ skews \in Skews
  /\ events = << >> /\ head = 0
  /\ attempts = 0 /\ failures = 0
  /\ uidCounts = [u \in {} |-> 0]
  /\ report = [attempts |-> 0, failures |-> 0, uids |-> 0]

(* Mutant: an entry exactly Duration old is evicted too.                   *)
EvictsToInclusive(h, cutoff) ==
  /\ \A i \in head + 1 .. h : events[i].ts <= cutoff
  /\ h < Len(events) => events[h + 1].ts > cutoff

(* Mutant: one call of Evict drops at most one entry.                      *)
EvictsToOnce(h, cutoff) ==
  IF head < Len(events) /\ events[head + 1].ts < cutoff THEN h = head + 1
  ELSE h = head

(* The loop of Evict stops with h dead entries.                            *)
EvictsTo(h, cutoff) ==
  /\ \A i \in head + 1 .. h : events[i].ts < cutoff
  /\ h < Len(events) => events[h + 1].ts >= cutoff

Popped(h, u) == Cardinality({i \in head + 1 .. h : events[i].uid = u})

(* Mutant: a spent UID stays a key, with count zero.                       *)
CountsKeepingSpent(h) ==
  [u \in DOMAIN uidCounts |-> uidCounts[u] - Popped(h, u)]

(* Mutant: one call of Evict takes a UID's count down once.                *)
CountsAfterOnce(h) ==
  [u \in DOMAIN uidCounts |->
     IF Popped(h, u) > 0 /\ uidCounts[u] > 1 THEN uidCounts[u] - 1
     ELSE uidCounts[u]]

(* What Evict leaves of the map: counts go down, spent UIDs are deleted.   *)
CountsAfter(h) ==
  [u \in {v \in DOMAIN uidCounts : uidCounts[v] > Popped(h, v)} |->
     uidCounts[u] - Popped(h, u)]

(* Mutant: the slice is copied only once nothing in it is alive.           *)
CompactsLate(h) == h > 0 /\ h = Len(events)

(* The compaction test at the end of Evict.                                *)
Compacts(h) == h > 0 /\ 2 * h >= Len(events)

(* w.uidCounts[uid]++ of Add, for an event that has a UID.                 *)
Count(counts, u) ==
  IF u = NoUID THEN counts
  ELSE [v \in DOMAIN counts \cup {u} |->
          (IF v \in DOMAIN counts THEN counts[v] ELSE 0)
            + (IF v = u THEN 1 ELSE 0)]

(* The slice Evict leaves.                                                 *)
Kept(h) == IF Compacts(h) THEN SubSeq(events, h + 1, Len(events)) ELSE events

Process(e) ==
  \E h \in head .. Len(events) :
    /\ EvictsTo(h, e.ts - Duration)
    /\ Len(Kept(h)) < MaxEvents
    /\ events' = Append(Kept(h), e)
    /\ head' = IF Compacts(h) THEN 0 ELSE h
    /\ attempts' = attempts - (h - head) + 1
    /\ failures' = failures
         - Cardinality({i \in head + 1 .. h : events[i].result = "failure"})
         + (IF e.result = "failure" THEN 1 ELSE 0)
    /\ uidCounts' = Count(CountsAfter(h), e.uid)
    /\ report' = [attempts |-> attempts', failures |-> failures',
                  uids |-> Cardinality(DOMAIN uidCounts')]

ProcessEvent ==
  /\ \E ts \in {ClampTimestamp(s) : s \in Stamps},
        u \in UIDs \cup {NoUID}, r \in Results :
       Process([ts |-> ts, uid |-> u, result |-> r])
  /\ UNCHANGED <<now, peak, skews>>

(* A reload: the next event is clamped with other skews, the entries in    *)
(* the slice stay as they are.                                             *)
UpdateConfig ==
  /\ skews' \in Skews
  /\ UNCHANGED <<now, peak, wvars>>

(* The wall clock moves on, or is set back by an operator or NTP.          *)
ClockMoves ==
  /\ now' \in 1 .. Horizon
  /\ now' >= peak - ClockStep
  /\ peak' = IF now' > peak THEN now' ELSE peak
  /\ UNCHANGED <<skews, wvars>>

Next == ProcessEvent \/ UpdateConfig \/ ClockMoves

Spec == Init /\ [][Next]_vars

-----------------------------------------------------------------------------
TypeOK ==
  /\ now \in Nat /\ peak \in Nat /\ skews \in Skews
  /\ events \in Seq(Entry)
  /\ head \in 0 .. Len(events)
  /\ attempts \in Nat /\ failures \in Int
  /\ DOMAIN uidCounts \subseteq UIDs
  /\ uidCounts \in [DOMAIN uidCounts -> Nat \ {0}]
  /\ report \in [attempts : Nat, failures : Int, uids : Nat]

(* The counters the code adjusts on every Add and Evict never drift from   *)
(* the entries that count, across any number of compactions: the ratios    *)
(* FR and UDS of Metrics (window.go:68-90) are about the window's events,  *)
(* and a UID whose last entry left is no longer a key of the map.          *)
CountersExact ==
  /\ attempts = Len(events) - head
  /\ failures = Cardinality({i \in Live : events[i].result = "failure"})
  /\ DOMAIN uidCounts = {events[i].uid : i \in Live} \ {NoUID}
  /\ \A u \in DOMAIN uidCounts :
       uidCounts[u] = Cardinality({i \in Live : events[i].uid = u})

(* Dead entries never reach half of the slice: the test at the end of      *)
(* Evict (window.go:62) keeps a window's memory below twice the events it  *)
(* counts, however the timestamps fall.                                    *)
MemoryBounded == head > 0 => 2 * head < Len(events)

(* An out-of-order event is not reordered, so an entry can be kept or      *)
(* counted although it is outside [t - Duration, t] of the latest event's  *)
(* timestamp t.  How far outside is bounded by the clock's own steps and   *)
(* the widest skews of all configurations, since the entries were clamped  *)
(* with the skews of the reload before them: Evict stops at the first      *)
(* young entry (window.go:46), and clampTimestamp (engine.go:386) bounds   *)
(* what stands behind it, unless a configuration turns a check off.        *)
Slack == MaxPast + MaxFuture + ClockStep

ChecksOn == \A s \in Skews : s.past > 0 /\ s.future > 0

SpanBounded ==
  (ChecksOn /\ events # << >>) =>
    LET t == events[Len(events)].ts
    IN  \A i \in Live : /\ events[i].ts >= t - Duration - Slack
                        /\ events[i].ts <= t + Slack

(* The slice, the head index and the counters implement the window the     *)
(* rules are written for.                                                  *)
Abstract == INSTANCE SlidingWindow
              WITH live <- SubSeq(events, head + 1, Len(events))

ImplementsWindow == Abstract!SSpec
=============================================================================
