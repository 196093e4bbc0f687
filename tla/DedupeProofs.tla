---------------------------- MODULE DedupeProofs ----------------------------
(***************************************************************************)
(* The safety properties of Dedupe, for all windows and skews that reloads *)
(* put in force in any order, every clock step and every limit.            *)
(*                                                                         *)
(* What the cache holds of a key is when it last let it through; what it   *)
(* has dropped of a key was, when it was dropped, older than some window;  *)
(* and a timestamp that was inside the skews is part of the key.           *)
(***************************************************************************)
EXTENDS Dedupe, TLAPS, FiniteSetTheorems, WellFoundedInduction

ClockInv ==
  /\ now \in Nat /\ peak \in Nat
  /\ now <= peak
  /\ now >= peak - ClockStep

(* The cache agrees with what went through, and has lost nothing below its *)
(* limit.                                                                  *)
CacheInv ==
  /\ IsFiniteSet(DOMAIN counted)
  /\ \A k \in DOMAIN counted : counted[k].at \in Nat
  /\ DOMAIN items \subseteq DOMAIN counted
  /\ \A k \in DOMAIN items : items[k] = counted[k].at
  /\ Cardinality(DOMAIN counted) <= Limit => DOMAIN items = DOMAIN counted

(* What it has dropped is older than the shortest window; there is one if  *)
(* the cache has ever been asked.                                          *)
LostInv ==
  \A k \in DOMAIN counted \ DOMAIN items :
    Shortest \in Nat /\ peak - counted[k].at > Shortest

(* A timestamp that was inside the skews is part of the key.               *)
KeyInv ==
  /\ \A k \in DOMAIN counted :
       k = <<k[1], k[2]>> /\ (counted[k].ts # ZeroTime => k[2] = counted[k].ts)
  /\ pc = "seen" =>
       ev.key = <<ev.key[1], ev.key[2]>> /\ (ev.ts # ZeroTime => ev.key[2] = ev.ts)

IInv ==
  /\ ClockInv /\ CacheInv /\ LostInv /\ KeyInv
  /\ cfg \in Configs
  /\ pc = "seen" => ev.window \in Windows

-----------------------------------------------------------------------------
LEMMA WindowsAreNat == Windows \subseteq Nat
  BY DedupeAssumption DEF Windows

(* A window that switches the cache on is no shorter than the shortest.    *)
LEMMA ShortestWindow ==
  ASSUME NEW w \in Windows, w > 0
  PROVE  Shortest \in Nat /\ w >= Shortest
<1> DEFINE On == Windows \ {0}
           IsShortest(v) == \A x \in On : v <= x
<1>1. On \in SUBSET Nat /\ w \in On
  BY DedupeAssumption DEF Windows
<1>2. \E v \in On : IsShortest(v)
  <2> DEFINE Less == OpToRel(<, Nat)
  <2>1. \A x, y \in Nat : <<x, y>> \in Less <=> x < y
    BY DEF OpToRel
  <2>2. IsWellFoundedOn(Less, Nat)
    BY NatLessThanWellFounded
  <2> HIDE DEF Less
  <2>3. \E v \in On : \A x \in On : <<x, v>> \notin Less
    <3> HIDE DEF On
    <3> QED
      BY <1>1, <2>2, WFMin
  <2>4. \A v, x \in On : <<x, v>> \notin Less => v <= x
    BY <1>1, <2>1
  <2> HIDE DEF On
  <2> QED
    BY <2>3, <2>4
<1>3. Shortest = CHOOSE v \in On : IsShortest(v)
  BY DEF Shortest
<1>4. Shortest \in On /\ IsShortest(Shortest)
  BY <1>2, <1>3
<1> QED
  BY <1>1, <1>4

LEMMA InitIInv == Init => IInv
<1> SUFFICES ASSUME Init PROVE IInv
  OBVIOUS
<1>1. DOMAIN items = {} /\ DOMAIN counted = {}
  BY DEF Init
<1>2. ClockInv
  BY DedupeAssumption DEF Init, ClockInv
<1>3. CacheInv
  BY <1>1, FS_EmptySet DEF CacheInv
<1>4. LostInv /\ KeyInv
  BY <1>1 DEF LostInv, KeyInv, Init
<1> QED
  BY <1>2, <1>3, <1>4 DEF Init, IInv

-----------------------------------------------------------------------------
(* An event that goes through: the one step that writes the cache.         *)
LEMMA CountCache ==
  IInv /\ Count => CacheInv' /\ LostInv'
<1> SUFFICES ASSUME IInv, Count PROVE CacheInv' /\ LostInv'
  OBVIOUS
<1> DEFINE m == Put(items, ev.key, now)
           w == ev.window
<1>1. /\ w \in Windows /\ w > 0 /\ w \in Nat
      /\ Shortest \in Nat /\ w >= Shortest
  BY ShortestWindow, WindowsAreNat DEF Count, IInv
<1>2. now \in Nat /\ peak \in Nat /\ now <= peak /\ peak' = peak
  BY DEF Count, IInv, ClockInv
<1>3. /\ DOMAIN counted' = DOMAIN counted \cup {ev.key}
      /\ counted'[ev.key].at = now
      /\ \A k \in DOMAIN counted \ {ev.key} : counted'[k].at = counted[k].at
  BY DEF Count, Put
<1>4. /\ DOMAIN m = DOMAIN items \cup {ev.key}
      /\ m[ev.key] = now
      /\ \A k \in DOMAIN items \ {ev.key} : m[k] = items[k]
  BY DEF Put
<1>5. /\ IsFiniteSet(DOMAIN counted) /\ DOMAIN items \subseteq DOMAIN counted
      /\ \A k \in DOMAIN counted : counted[k].at \in Nat
      /\ \A k \in DOMAIN items : items[k] = counted[k].at
      /\ Cardinality(DOMAIN counted) <= Limit => DOMAIN items = DOMAIN counted
      /\ \A k \in DOMAIN counted \ DOMAIN items : peak - counted[k].at > Shortest
  BY DEF IInv, CacheInv, LostInv
<1>6. items' = IF Cardinality(DOMAIN m) > Limit THEN Compact(m, w) ELSE m
  BY DEF Count
<1> HIDE DEF m, w
<1>7. IsFiniteSet(DOMAIN counted') /\ \A k \in DOMAIN counted' : counted'[k].at \in Nat
  BY <1>2, <1>3, <1>5, FS_AddElement
<1>8. \A k \in DOMAIN m : k \in DOMAIN counted' /\ m[k] = counted'[k].at
  BY <1>3, <1>4, <1>5
<1>9. \A k \in DOMAIN counted' \ DOMAIN m : peak - counted'[k].at > Shortest
  BY <1>3, <1>4, <1>5
<1>10. CASE Cardinality(DOMAIN m) > Limit
  <2>1. /\ DOMAIN items' = {k \in DOMAIN m : ~Expired(m[k], w)}
        /\ \A k \in DOMAIN items' : items'[k] = m[k]
    BY <1>6, <1>10 DEF Compact
  <2>2. Cardinality(DOMAIN counted') > Limit
    <3>1. DOMAIN m \subseteq DOMAIN counted'
      BY <1>8
    <3>2. /\ Cardinality(DOMAIN m) <= Cardinality(DOMAIN counted')
          /\ IsFiniteSet(DOMAIN m)
      BY <1>7, <3>1, FS_Subset
    <3>3. Cardinality(DOMAIN m) \in Nat /\ Cardinality(DOMAIN counted') \in Nat
      BY <1>7, <3>2, FS_CardinalityType
    <3> QED
      BY <1>10, <3>2, <3>3, DedupeAssumption
  <2>3. CacheInv'
    <3>1. ~(Cardinality(DOMAIN counted') <= Limit)
      BY <1>7, <2>2, FS_CardinalityType, DedupeAssumption
    <3> QED
      BY <1>7, <1>8, <2>1, <3>1, DedupeAssumption DEF CacheInv
  <2>4. \A k \in DOMAIN m \ DOMAIN items' : peak - counted'[k].at > Shortest
    <3> SUFFICES ASSUME NEW k \in DOMAIN m \ DOMAIN items'
                 PROVE  peak - counted'[k].at > Shortest
      OBVIOUS
    <3>1. now - m[k] > w
      BY <2>1 DEF Expired
    <3>2. m[k] \in Nat /\ m[k] = counted'[k].at
      BY <1>7, <1>8
    <3> QED
      BY <1>1, <1>2, <3>1, <3>2 DEF w
  <2>5. LostInv'
    BY <1>1, <1>2, <1>9, <2>4 DEF LostInv
  <2> QED
    BY <2>3, <2>5
<1>11. CASE ~(Cardinality(DOMAIN m) > Limit)
  <2>1. items' = m
    BY <1>6, <1>11
  <2>2. Cardinality(DOMAIN counted') <= Limit => DOMAIN items' = DOMAIN counted'
    <3>1. Cardinality(DOMAIN counted) <= Cardinality(DOMAIN counted')
      BY <1>3, <1>7, FS_Subset
    <3>2. /\ Cardinality(DOMAIN counted) \in Nat
          /\ Cardinality(DOMAIN counted') \in Nat
      BY <1>5, <1>7, FS_CardinalityType
    <3> QED
      BY <1>3, <1>4, <1>5, <2>1, <3>1, <3>2, DedupeAssumption
  <2>3. CacheInv'
    BY <1>7, <1>8, <2>1, <2>2 DEF CacheInv
  <2>4. LostInv'
    BY <1>1, <1>2, <1>9, <2>1 DEF LostInv
  <2> QED
    BY <2>3, <2>4
<1> QED
  BY <1>10, <1>11

(* No other step adds to what went through or takes from the cache alone.  *)
LEMMA NextKeyInv == IInv /\ [Next]_vars => KeyInv'
<1> SUFFICES ASSUME IInv, [Next]_vars PROVE KeyInv'
  OBVIOUS
<1>1. CASE Receive
  <2>1. PICK a \in Attempts, ts \in Stamps :
          ev' = [window |-> cfg.window, ts |-> Timely(ts),
                 key |-> hashEvent(a, ClampTimestamp(ts))]
    BY <1>1 DEF Receive
  <2>2. Timely(ts) # ZeroTime => ClampTimestamp(ts) = Timely(ts)
    <3>1. /\ ts \in Nat /\ now \in Nat
          /\ cfg.past \in Nat /\ cfg.future \in Nat
      BY DedupeAssumption DEF IInv, ClockInv
    <3> QED
      BY <3>1 DEF Timely, ClampTimestamp, ZeroTime
  <2>3. counted' = counted
    BY <1>1 DEF Receive
  <2> QED
    BY <2>1, <2>2, <2>3 DEF IInv, KeyInv, hashEvent
<1>2. CASE Count
  <2>1. /\ counted' = Put(counted, ev.key, [at |-> now, ts |-> ev.ts])
        /\ pc = "seen" /\ pc' = "idle"
    BY <1>2 DEF Count
  <2>2. /\ DOMAIN counted' = DOMAIN counted \cup {ev.key}
        /\ counted'[ev.key] = [at |-> now, ts |-> ev.ts]
        /\ \A k \in DOMAIN counted \ {ev.key} : counted'[k] = counted[k]
    BY <2>1 DEF Put
  <2> QED
    BY <2>1, <2>2 DEF IInv, KeyInv
<1>3. CASE Reset
  <2>1. DOMAIN counted' = {} /\ UNCHANGED <<pc, ev>>
    BY <1>3 DEF Reset
  <2> QED
    BY <2>1 DEF IInv, KeyInv
<1>4. CASE Unchecked \/ Suppress
  BY <1>4 DEF Unchecked, Suppress, IInv, KeyInv
<1>5. CASE ClockMoves \/ UpdateConfig \/ UNCHANGED vars
  BY <1>5 DEF ClockMoves, UpdateConfig, vars, IInv, KeyInv
<1> QED
  BY <1>1, <1>2, <1>3, <1>4, <1>5 DEF Next

LEMMA NextIInv == IInv /\ [Next]_vars => IInv'
<1> SUFFICES ASSUME IInv, [Next]_vars PROVE IInv'
  OBVIOUS
<1>0. KeyInv'
  BY NextKeyInv
<1> USE <1>0 DEF IInv
<1>1. CASE Receive
  <2>1. UNCHANGED <<now, peak, cfg, items, counted>>
    BY <1>1 DEF Receive
  <2>2. ev'.window = cfg.window /\ cfg.window \in Windows
    BY <1>1 DEF Receive, Windows
  <2> QED
    BY <2>1, <2>2 DEF ClockInv, CacheInv, LostInv
<1>2. CASE Unchecked
  BY <1>2 DEF Unchecked, ClockInv, CacheInv, LostInv
<1>3. CASE Suppress
  BY <1>3 DEF Suppress, ClockInv, CacheInv, LostInv
<1>4. CASE Count
  BY <1>4, CountCache DEF Count, ClockInv
<1>5. CASE ClockMoves
  <2>1. now' \in Nat /\ peak' \in Nat /\ now' <= peak' /\ peak <= peak'
    BY <1>5, DedupeAssumption DEF ClockMoves, ClockInv
  <2>2. now' >= peak' - ClockStep
    <3>1. now' >= peak - ClockStep /\ (peak' = now' \/ peak' = peak)
      BY <1>5 DEF ClockMoves
    <3>2. ClockStep \in Nat
      BY DedupeAssumption
    <3>3. CASE peak' = peak
      BY <3>1, <3>3
    <3>4. CASE peak' = now'
      <4>1. \A n, c \in Nat : n >= n - c
        OBVIOUS
      <4> QED
        BY <2>1, <3>2, <3>4, <4>1
    <3> QED
      BY <3>1, <3>3, <3>4
  <2>3. CacheInv' /\ UNCHANGED <<cfg, items, pc, ev, counted>>
    BY <1>5 DEF ClockMoves, CacheInv
  <2>4. LostInv'
    <3> SUFFICES ASSUME NEW k \in DOMAIN counted \ DOMAIN items
                 PROVE  peak' - counted[k].at > Shortest
      BY <2>3 DEF LostInv
    <3>1. /\ peak - counted[k].at > Shortest /\ Shortest \in Nat
          /\ counted[k].at \in Nat
      BY DEF LostInv, CacheInv
    <3> QED
      BY <2>1, <3>1 DEF ClockInv
  <2> QED
    BY <2>1, <2>2, <2>3, <2>4 DEF ClockInv
<1>6. CASE UpdateConfig
  BY <1>6 DEF UpdateConfig, ClockInv, CacheInv, LostInv
<1>7. CASE Reset
  <2>1. DOMAIN items' = {} /\ DOMAIN counted' = {}
    BY <1>7 DEF Reset
  <2>2. CacheInv' /\ LostInv'
    BY <2>1, FS_EmptySet DEF CacheInv, LostInv
  <2> QED
    BY <1>7, <2>2 DEF Reset, ClockInv
<1>8. CASE UNCHANGED vars
  BY <1>8 DEF vars, ClockInv, CacheInv, LostInv
<1> QED
  BY <1>1, <1>2, <1>3, <1>4, <1>5, <1>6, <1>7, <1>8 DEF Next

(* The cache and its past agree in every state.                            *)
THEOREM SpecIInv == Spec => []IInv
BY InitIInv, NextIInv, PTL DEF Spec

-----------------------------------------------------------------------------
(* Only a twin within the event's window is suppressed.                    *)
THEOREM SpecDroppedOnlyTwins == Spec => DroppedOnlyTwins
<1>1. IInv /\ Suppress => /\ ev.key \in DOMAIN counted
                         /\ now - counted[ev.key].at <= ev.window
  <2> SUFFICES ASSUME IInv, Suppress
               PROVE  /\ ev.key \in DOMAIN counted
                      /\ now - counted[ev.key].at <= ev.window
    OBVIOUS
  <2>1. ev.key \in DOMAIN items /\ ~(now - items[ev.key] > ev.window)
    BY DEF Suppress, Known, Expired
  <2>2. /\ ev.key \in DOMAIN counted
        /\ items[ev.key] = counted[ev.key].at /\ counted[ev.key].at \in Nat
    BY <2>1 DEF IInv, CacheInv
  <2>3. ev.window \in Nat /\ now \in Nat
    BY WindowsAreNat DEF Suppress, IInv, ClockInv
  <2> QED
    BY <2>1, <2>2, <2>3
<1> QED
  BY <1>1, SpecIInv, PTL DEF Spec, DroppedOnlyTwins

(* Two events of one key that both go through are apart by more than the   *)
(* shortest window, but for what the clock was set back.                   *)
THEOREM SpecTwinsApart == Spec => TwinsApart
<1>1. IInv /\ Count /\ ev.key \in DOMAIN counted
        => now - counted[ev.key].at > Shortest - ClockStep
  <2> SUFFICES ASSUME IInv, Count, ev.key \in DOMAIN counted
               PROVE  now - counted[ev.key].at > Shortest - ClockStep
    OBVIOUS
  <2>1. /\ ev.window \in Nat /\ Shortest \in Nat /\ ev.window >= Shortest
    BY ShortestWindow, WindowsAreNat DEF Count, IInv
  <2>2. /\ now \in Nat /\ peak \in Nat /\ ClockStep \in Nat
        /\ now >= peak - ClockStep /\ counted[ev.key].at \in Nat
    BY DedupeAssumption DEF IInv, ClockInv, CacheInv
  <2>3. CASE ev.key \in DOMAIN items
    <3>1. now - items[ev.key] > ev.window /\ items[ev.key] = counted[ev.key].at
      BY <2>3 DEF Count, Known, Expired, IInv, CacheInv
    <3> QED
      BY <2>1, <2>2, <3>1
  <2>4. CASE ev.key \notin DOMAIN items
    <3>1. peak - counted[ev.key].at > Shortest
      BY <2>4 DEF IInv, LostInv
    <3> QED
      BY <2>1, <2>2, <3>1
  <2> QED
    BY <2>3, <2>4
<1> QED
  BY <1>1, SpecIInv, PTL DEF Spec, TwinsApart

(* While the cache is below its limit, only one of the copies that come    *)
(* inside the skews counts within the window (dedupe.go:17-40).            *)
THEOREM SpecCopiesSuppressed == Spec => CopiesSuppressed
<1>1. ASSUME IInv, Count, ev.ts # ZeroTime, Cardinality(DOMAIN counted) <= Limit,
             NEW k \in DOMAIN counted, k[1] = ev.key[1], counted[k].ts = ev.ts
      PROVE  now - counted[k].at > ev.window
  <2>1. k = ev.key
    BY <1>1 DEF IInv, KeyInv, Count
  <2> QED
    BY <1>1, <2>1 DEF IInv, CacheInv, Count, Known, Expired
<1>2. IInv /\ [Next]_vars
        => (/\ Count /\ ev.ts # ZeroTime
            /\ Cardinality(DOMAIN counted) <= Limit
            => \A k \in DOMAIN counted :
                 k[1] = ev.key[1] /\ counted[k].ts = ev.ts
                   => now - counted[k].at > ev.window)
  BY <1>1
<1> QED
  BY <1>2, SpecIInv, PTL DEF Spec, CopiesSuppressed
=============================================================================
