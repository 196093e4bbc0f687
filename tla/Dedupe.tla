------------------------------- MODULE Dedupe -------------------------------
(***************************************************************************)
(* Duplicate suppression: DedupeCache (internal/engine/dedupe.go) and the  *)
(* part of ProcessEvent that asks it (engine.go: isDuplicate, hashEvent,   *)
(* clampTimestamp).                                                        *)
(*                                                                         *)
(* The cache knows events by a hash of reader, uid, result, error code and *)
(* the CLAMPED timestamp; it is written here as the pair of the attempt    *)
(* (the first four) and that timestamp.  ProcessEvent reads the wall clock *)
(* twice: to clamp, and then for Seen, so that time may pass in between.   *)
(*                                                                         *)
(* The wall clock may be set back, by at most ClockStep below the highest  *)
(* value it has had.  dedupe_window and the skews may be reloaded at any   *)
(* time; an event keeps the configuration it started with.                 *)
(***************************************************************************)
EXTENDS Integers, FiniteSets

CONSTANTS
  Attempts,       \* what an event says apart from its timestamp
  Stamps,         \* the timestamps events arrive with; 0 stands for none
  Configs,        \* what a configuration says of [window, past, future]:
                  \* dedupe_window, where 0 switches the cache off, and
                  \* max_clock_skew and max_future_skew, where 0 means any
  ClockStep,
  Limit,          \* 10000: the size above which the cache is compacted
  Horizon,        \* bound: the last clock value considered
  MaxItems        \* bound: the largest number of entries considered

ASSUME DedupeAssumption ==
  /\ Configs \subseteq [window : Nat, past : Nat, future : Nat]
  /\ Configs # {}
  /\ Stamps \subseteq Nat /\ ClockStep \in Nat
  /\ Limit \in Nat /\ Horizon \in Nat /\ MaxItems \in Nat

VARIABLES
  now, peak,   \* the wall clock and its highest value so far
  cfg,         \* the configuration in force
  items,       \* d.items
  pc, ev,      \* ProcessEvent between its two readings of the clock
  counted      \* ghost: when the cache last let each key through, and with
               \* which timestamp that event came, if inside the skews

vars == <<now, peak, cfg, items, pc, ev, counted>>

Put(f, k, v) == [x \in DOMAIN f \cup {k} |-> IF x = k THEN v ELSE f[x]]

(* time.Time{}, which an event without a timestamp carries.                *)
ZeroTime == 0

(* Mutant: a timestamp as old as the skew allows is replaced, too.         *)
ClampTimestampEarly(ts) ==
  IF \/ ts = ZeroTime
     \/ cfg.past > 0 /\ now - ts >= cfg.past
     \/ cfg.future > 0 /\ ts - now > cfg.future
  THEN now
  ELSE ts

ClampTimestamp(ts) ==
  IF \/ ts = ZeroTime
     \/ cfg.past > 0 /\ now - ts > cfg.past
     \/ cfg.future > 0 /\ ts - now > cfg.future
  THEN now
  ELSE ts

NoEvent == "none"

Init ==
  /\ now = 1 /\ peak = 1
  /\ cfg \in Configs
  /\ items = [k \in {} |-> 0] /\ counted = [k \in {} |-> 0]
  /\ pc = "idle" /\ ev = NoEvent

-----------------------------------------------------------------------------
(* The timestamp an event came with, if it has one inside the skews.       *)
Timely(ts) ==
  IF /\ cfg.past > 0 => now - ts <= cfg.past
     /\ cfg.future > 0 => ts - now <= cfg.future
  THEN ts
  ELSE ZeroTime

(* The hash takes in the timestamp as ProcessEvent left it.                *)
hashEvent(attempt, ts) == <<attempt, ts>>

Receive ==
  /\ pc = "idle"
  /\ \E a \in Attempts, ts \in Stamps :
       ev' = [window |-> cfg.window, ts |-> Timely(ts),
              key |-> hashEvent(a, ClampTimestamp(ts))]
  /\ pc' = "seen"
  /\ UNCHANGED <<now, peak, cfg, items, counted>>

Expired(t, w) == now - t > w

(* Mutant: the limit empties the cache.                                    *)
CompactAll(m, w) == [k \in {} |-> 0]

Compact(m, w) == [k \in {x \in DOMAIN m : ~Expired(m[x], w)} |-> m[k]]

(* Mutant: a key once let through is a duplicate for ever.                 *)
KnownForEver(k, w) == k \in DOMAIN items

Known(k, w) == k \in DOMAIN items /\ ~Expired(items[k], w)

(* The cache is off: the event goes on and leaves no trace.                *)
Unchecked ==
  /\ pc = "seen" /\ ev.window = 0
  /\ pc' = "idle" /\ ev' = NoEvent
  /\ UNCHANGED <<now, peak, cfg, items, counted>>

Suppress ==
  /\ pc = "seen" /\ ev.window > 0 /\ Known(ev.key, ev.window)
  /\ pc' = "idle" /\ ev' = NoEvent
  /\ UNCHANGED <<now, peak, cfg, items, counted>>

Count ==
  /\ pc = "seen" /\ ev.window > 0 /\ ~Known(ev.key, ev.window)
  /\ LET m == Put(items, ev.key, now)
     IN  items' = IF Cardinality(DOMAIN m) > Limit THEN Compact(m, ev.window)
                  ELSE m
  /\ counted' = Put(counted, ev.key, [at |-> now, ts |-> ev.ts])
  /\ Cardinality(DOMAIN counted') <= MaxItems
  /\ pc' = "idle" /\ ev' = NoEvent
  /\ UNCHANGED <<now, peak, cfg>>

ClockMoves ==
  /\ now' \in 1 .. Horizon
  /\ now' >= peak - ClockStep
  /\ peak' = IF now' > peak THEN now' ELSE peak
  /\ UNCHANGED <<cfg, items, pc, ev, counted>>

UpdateConfig ==
  /\ cfg' \in Configs
  /\ UNCHANGED <<now, peak, items, pc, ev, counted>>

(* Reset: a new cache.  An event in hand meets the old or the new one.     *)
Reset ==
  /\ items' = [k \in {} |-> 0] /\ counted' = [k \in {} |-> 0]
  /\ UNCHANGED <<now, peak, cfg, pc, ev>>

Next == Receive \/ Unchecked \/ Suppress \/ Count
          \/ ClockMoves \/ UpdateConfig \/ Reset

Spec == Init /\ [][Next]_vars

-----------------------------------------------------------------------------
(* An event is dropped only if its twin went through no longer ago than    *)
(* the dedupe_window the event was received under, whatever the window was *)
(* then and however often the cache was compacted or the clock set back.   *)
DroppedOnlyTwins ==
  [][Suppress => /\ ev.key \in DOMAIN counted
                 /\ now - counted[ev.key].at <= ev.window]_vars

Windows == {c.window : c \in Configs}

(* The shortest window the cache is ever asked with.                       *)
Shortest == CHOOSE w \in Windows \ {0} : \A x \in Windows \ {0} : w <= x

(* Two events that are clamped to one key both go through only if the      *)
(* shortest window has passed between them, less what the clock may have   *)
(* been set back after a compaction has dropped the first (dedupe.go:26,   *)
(* 32-38).                                                                 *)
TwinsApart ==
  [][Count /\ ev.key \in DOMAIN counted
       => now - counted[ev.key].at > Shortest - ClockStep]_vars

(* README.md:163 and 213: duplicate events are suppressed within           *)
(* dedupe_window.  Two copies of an event carry the same timestamp.  While *)
(* it lies inside the skews in force when each of them comes and the cache *)
(* is below its limit, only one of them counts, through reloads of window  *)
(* and skews and a clock that is set back.  A copy that comes when the     *)
(* timestamp has left the skews counts again, as it is hashed with the     *)
(* clock's time (engine.go:85-88).                                         *)
CopiesSuppressed ==
  [][/\ Count /\ ev.ts # ZeroTime
     /\ Cardinality(DOMAIN counted) <= Limit
     => \A k \in DOMAIN counted :
          k[1] = ev.key[1] /\ counted[k].ts = ev.ts
            => now - counted[k].at > ev.window]_vars
=============================================================================
