---------------------------- MODULE WindowProofs ----------------------------
(***************************************************************************)
(* Theorems about Window and its Rules, for every duration, every set of   *)
(* skews, every set of UIDs, every threshold and every bound.              *)
(*                                                                         *)
(* SpanBounded is not inductive: what an entry may precede depends on the  *)
(* wall clock at the time it was processed.  The strengthening relates     *)
(* each entry to the highest value the clock ever had (peak), and each     *)
(* pair of entries to each other, dead entries included; the slice may be  *)
(* copied, so the pairs are about positions and not about head.            *)
(***************************************************************************)
EXTENDS Rules, TLAPS, SequenceTheorems, FiniteSetTheorems,
        WellFoundedInduction

(* The wall clock and the clamp.                                           *)
ClockInv ==
  /\ skews \in Skews
  /\ now \in Nat /\ peak \in Nat
  /\ now <= peak
  /\ now >= peak - ClockStep

(* The slice, the dead prefix and the count of what is not dead.           *)
SliceInv ==
  /\ events \in Seq(Entry)
  /\ head \in 0 .. Len(events)
  /\ attempts = Len(events) - head
  /\ MemoryBounded

(* While no configuration turns a check of clampTimestamp off.             *)
OrderInv ==
  ChecksOn =>
    /\ \A i \in 1 .. Len(events) : events[i].ts <= peak + MaxFuture
    /\ \A i, j \in 1 .. Len(events) :
         i < j => events[j].ts >= events[i].ts - Slack
    /\ head < Len(events) =>
         events[head + 1].ts >= events[Len(events)].ts - Duration

IInv == ClockInv /\ SliceInv /\ OrderInv

-----------------------------------------------------------------------------
(* What Evict leaves is the old slice, without its first Dropped entries.  *)
Dropped(h) == IF Compacts(h) THEN h ELSE 0

LEMMA KeptProperties ==
  ASSUME events \in Seq(Entry), NEW h \in 0 .. Len(events)
  PROVE  /\ Kept(h) \in Seq(Entry)
         /\ Len(Kept(h)) = Len(events) - Dropped(h)
         /\ \A i \in 1 .. Len(Kept(h)) : Kept(h)[i] = events[i + Dropped(h)]
         /\ Dropped(h) \in 0 .. h
<1>1. Len(events) \in Nat /\ h \in Nat
  BY LenProperties
<1>2. CASE Compacts(h)
  <2>1. \A i \in h + 1 .. Len(events) : events[i] \in Entry
    BY <1>1, ElementOfSeq
  <2>2. /\ SubSeq(events, h + 1, Len(events)) \in Seq(Entry)
        /\ Len(SubSeq(events, h + 1, Len(events))) =
             IF h + 1 <= Len(events) THEN Len(events) - (h + 1) + 1 ELSE 0
        /\ \A i \in 1 .. Len(events) - (h + 1) + 1 :
             SubSeq(events, h + 1, Len(events))[i] = events[h + 1 + i - 1]
    BY <1>1, <2>1, SubSeqProperties
  <2> QED
    BY <1>1, <1>2, <2>2 DEF Kept, Dropped
<1>3. CASE ~Compacts(h)
  BY <1>1, <1>3 DEF Kept, Dropped
<1> QED
  BY <1>2, <1>3

(* What the slice is after an event.                                       *)
LEMMA ProcessSlice ==
  ASSUME SliceInv, NEW e \in Entry,
         NEW h \in head .. Len(events),
         events' = Append(Kept(h), e),
         head' = IF Compacts(h) THEN 0 ELSE h,
         attempts' = attempts - (h - head) + 1
  PROVE  /\ SliceInv'
         /\ Len(events') = Len(events) - Dropped(h) + 1
         /\ head' = h - Dropped(h)
         /\ events'[Len(events')] = e
         /\ \A i \in 1 .. Len(events') - 1 :
              events'[i] = events[i + Dropped(h)]
<1>1. Len(events) \in Nat /\ head \in Nat /\ h \in Nat /\ h <= Len(events)
  BY LenProperties DEF SliceInv
<1>2. h \in 0 .. Len(events)
  BY <1>1
<1>3. /\ Kept(h) \in Seq(Entry)
      /\ Len(Kept(h)) = Len(events) - Dropped(h)
      /\ \A i \in 1 .. Len(Kept(h)) : Kept(h)[i] = events[i + Dropped(h)]
      /\ Dropped(h) \in 0 .. h
  BY <1>2, KeptProperties DEF SliceInv
<1>4. /\ events' \in Seq(Entry)
      /\ Len(events') = Len(Kept(h)) + 1
      /\ \A i \in 1 .. Len(Kept(h)) : events'[i] = Kept(h)[i]
      /\ events'[Len(Kept(h)) + 1] = e
  BY <1>3
<1>5. head' = h - Dropped(h)
  BY <1>1 DEF Dropped
<1>6. head' \in 0 .. Len(events')
  BY <1>1, <1>3, <1>4, <1>5
<1>7. attempts' = Len(events') - head'
  <2>1. attempts = Len(events) - head
    BY DEF SliceInv
  <2>2. attempts' = Len(events) - h + 1
    BY <1>1, <2>1
  <2>3. Len(events') - head' = Len(events) - h + 1
    BY <1>1, <1>3, <1>4, <1>5
  <2> QED
    BY <2>2, <2>3
<1>8. head' > 0 => 2 * head' < Len(events')
  BY <1>1, <1>3, <1>4, <1>5 DEF Dropped, Compacts
<1> QED
  BY <1>1, <1>3, <1>4, <1>5, <1>6, <1>7, <1>8 DEF SliceInv, MemoryBounded

(* The type of the timestamps in the slice.                                *)
LEMMA EntryTypes ==
  ASSUME events \in Seq(Entry)
  PROVE  \A i \in 1 .. Len(events) :
           events[i] \in Entry /\ events[i].ts \in Int
<1> TAKE i \in 1 .. Len(events)
<1>1. events[i] \in Entry
  BY ElementOfSeq
<1> QED
  BY <1>1 DEF Entry

(* A clamped timestamp lies within the widest skews of the clock.          *)
LEMMA ClampBounds ==
  ASSUME now \in Nat, skews \in Skews, NEW ts \in Int
  PROVE  /\ ClampTimestamp(ts) \in Int
         /\ ChecksOn => /\ ClampTimestamp(ts) >= now - MaxPast
                        /\ ClampTimestamp(ts) <= now + MaxFuture
<1> DEFINE a == skews.past
           b == skews.future
<1>1. /\ a \in Nat /\ b \in Nat /\ a <= MaxPast /\ b <= MaxFuture
      /\ MaxPast \in Nat /\ MaxFuture \in Nat
  BY WindowAssumption
<1>2. ChecksOn => a > 0 /\ b > 0
  BY DEF ChecksOn
<1>3. ClampTimestamp(ts) = IF \/ ts = 0
                              \/ a > 0 /\ now - ts > a
                              \/ b > 0 /\ ts - now > b
                           THEN now ELSE ts
  BY DEF ClampTimestamp, ZeroTime
<1> HIDE DEF a, b
<1> QED
  BY <1>1, <1>2, <1>3

(* Appending the clamped entry keeps the order of timestamps within Slack. *)
LEMMA ProcessOrder ==
  ASSUME IInv, NEW e \in Entry,
         NEW h \in head .. Len(events),
         EvictsTo(h, e.ts - Duration),
         events' = Append(Kept(h), e),
         head' = IF Compacts(h) THEN 0 ELSE h,
         attempts' = attempts - (h - head) + 1,
         UNCHANGED <<now, peak>>,
         ChecksOn => e.ts >= now - MaxPast /\ e.ts <= now + MaxFuture
  PROVE  OrderInv'
<1> SUFFICES ASSUME ChecksOn
             PROVE  /\ \A i \in 1 .. Len(events') :
                         events'[i].ts <= peak + MaxFuture
                    /\ \A i, j \in 1 .. Len(events') :
                         i < j => events'[j].ts >= events'[i].ts - Slack
                    /\ head' < Len(events') =>
                         events'[head' + 1].ts
                           >= events'[Len(events')].ts - Duration
  BY DEF OrderInv, Slack, ChecksOn
<1> DEFINE n == Len(events')
           d == Dropped(h)
<1>1. Len(events) \in Nat /\ head \in Nat /\ h \in Nat /\ h <= Len(events)
  BY LenProperties DEF IInv, SliceInv
<1>2. /\ SliceInv'
      /\ n = Len(events) - d + 1
      /\ head' = h - d
      /\ events'[n] = e
      /\ \A i \in 1 .. n - 1 : events'[i] = events[i + d]
  BY ProcessSlice DEF IInv
<1>3. d \in 0 .. h /\ d \in Nat /\ n \in Nat /\ n >= 1
  BY <1>1, <1>2 DEF Dropped
<1>4. \A i \in 1 .. Len(events) : events[i].ts \in Int
  BY EntryTypes DEF IInv, SliceInv
<1>5. e.ts \in Int
  BY DEF Entry
<1>6. /\ \A i \in 1 .. Len(events) : events[i].ts <= peak + MaxFuture
      /\ \A i, j \in 1 .. Len(events) :
           i < j => events[j].ts >= events[i].ts - Slack
  BY DEF IInv, OrderInv
<1>7. /\ now \in Nat /\ peak \in Nat /\ now <= peak /\ now >= peak - ClockStep
      /\ MaxPast \in Nat /\ MaxFuture \in Nat /\ ClockStep \in Nat
      /\ Duration \in Nat /\ Slack \in Int
      /\ Slack = MaxPast + MaxFuture + ClockStep
  BY WindowAssumption DEF IInv, ClockInv, Slack
<1>8. \A i \in 1 .. n - 1 : i + d \in 1 .. Len(events)
  BY <1>1, <1>2, <1>3
<1>9. e.ts <= peak + MaxFuture
  <2> DEFINE y == e.ts
  <2>1. y \in Int /\ now \in Nat /\ peak \in Nat /\ now <= peak
        /\ MaxFuture \in Nat /\ y <= now + MaxFuture
    BY <1>5, <1>7
  <2> HIDE DEF y
  <2>2. y <= peak + MaxFuture
    BY <2>1
  <2> QED
    BY <2>2 DEF y
<1>10. \A i \in 1 .. n : events'[i].ts <= peak + MaxFuture
  <2> TAKE i \in 1 .. n
  <2>1. CASE i = n
    BY <2>1, <1>2, <1>9
  <2>2. CASE i # n
    <3>1. i \in 1 .. n - 1
      BY <2>2, <1>3
    <3> QED
      BY <3>1, <1>2, <1>6, <1>8
  <2> QED
    BY <2>1, <2>2
<1>11. \A i \in 1 .. n - 1 : e.ts >= events'[i].ts - Slack
  <2> TAKE i \in 1 .. n - 1
  <2>1. i + d \in 1 .. Len(events) /\ events'[i] = events[i + d]
    BY <1>2, <1>8
  <2>2. /\ events[i + d].ts \in Int
        /\ events[i + d].ts <= peak + MaxFuture
    BY <2>1, <1>4, <1>6
  <2>3. e.ts >= peak - ClockStep - MaxPast
    <3> DEFINE y == e.ts
    <3>1. /\ y \in Int /\ now \in Nat /\ peak \in Nat
          /\ now >= peak - ClockStep /\ y >= now - MaxPast
          /\ MaxPast \in Nat /\ ClockStep \in Nat
      BY <1>5, <1>7
    <3> HIDE DEF y
    <3>2. y >= peak - ClockStep - MaxPast
      BY <3>1
    <3> QED
      BY <3>2 DEF y
  <2>4. e.ts >= events[i + d].ts - Slack
    <3> DEFINE x == events[i + d].ts
               y == e.ts
    <3>1. /\ x \in Int /\ y \in Int /\ x <= peak + MaxFuture
          /\ y >= peak - ClockStep - MaxPast
          /\ Slack = MaxPast + MaxFuture + ClockStep
          /\ peak \in Nat /\ ClockStep \in Nat
          /\ MaxPast \in Nat /\ MaxFuture \in Nat
      BY <2>2, <2>3, <1>5, <1>7
    <3> HIDE DEF x, y
    <3>2. y >= x - Slack
      BY <3>1
    <3> QED
      BY <3>2 DEF x, y
  <2> QED
    BY <2>1, <2>4
<1>12. ASSUME NEW i \in 1 .. n, NEW j \in 1 .. n, i < j
       PROVE  events'[j].ts >= events'[i].ts - Slack
  <2>1. i \in 1 .. n - 1
    BY <1>12, <1>3
  <2>2. CASE j = n
    BY <2>1, <2>2, <1>2, <1>11
  <2>3. CASE j # n
    <3>1. j \in 1 .. n - 1
      BY <2>3, <1>3
    <3>2. /\ i + d \in 1 .. Len(events) /\ events'[i] = events[i + d]
          /\ j + d \in 1 .. Len(events) /\ events'[j] = events[j + d]
      BY <2>1, <3>1, <1>2, <1>8
    <3>3. i + d < j + d
      BY <1>3, <1>12
    <3> QED
      BY <3>2, <3>3, <1>6
  <2> QED
    BY <2>2, <2>3
<1>13. events'[head' + 1].ts >= e.ts - Duration
  <2>1. CASE h = Len(events)
    <3>1. head' + 1 = n
      BY <2>1, <1>1, <1>2, <1>3
    <3>2. events'[head' + 1] = e
      BY <3>1, <1>2
    <3>3. e.ts >= e.ts - Duration
      BY <1>5, <1>7
    <3> QED
      BY <3>2, <3>3
  <2>2. CASE h < Len(events)
    <3>1. events[h + 1].ts >= e.ts - Duration
      BY <2>2 DEF EvictsTo
    <3>2. head' + 1 \in 1 .. n - 1 /\ head' + 1 + d = h + 1
      BY <2>2, <1>1, <1>2, <1>3
    <3>3. events'[head' + 1] = events[h + 1]
      BY <3>2, <1>2
    <3> QED
      BY <3>1, <3>3
  <2>3. h = Len(events) \/ h < Len(events)
    BY <1>1
  <2> QED
    BY <2>1, <2>2, <2>3
<1> QED
  BY <1>2, <1>10, <1>12, <1>13

-----------------------------------------------------------------------------
(* A new window of a reader (NewWindowState) satisfies the invariant.      *)
THEOREM InitIInv == Init => IInv
<1> SUFFICES ASSUME Init PROVE IInv
  OBVIOUS
<1>1. events = << >> /\ Len(events) = 0 /\ events \in Seq(Entry)
  BY EmptySeq DEF Init
<1> QED
  BY <1>1, WindowAssumption
     DEF Init, IInv, ClockInv, SliceInv, OrderInv, MemoryBounded

(* Every event the engine feeds it, and every step of the wall clock,      *)
(* keeps the invariant.                                                    *)
THEOREM NextIInv == IInv /\ [Next]_vars => IInv'
<1> SUFFICES ASSUME IInv, [Next]_vars PROVE IInv'
  OBVIOUS
<1>1. CASE ProcessEvent
  <2>1. PICK s \in Stamps, u \in UIDs \cup {NoUID}, r \in Results :
          Process([ts |-> ClampTimestamp(s), uid |-> u, result |-> r])
    BY <1>1 DEF ProcessEvent
  <2> DEFINE e == [ts |-> ClampTimestamp(s), uid |-> u, result |-> r]
  <2>2. /\ e.ts \in Int
        /\ ChecksOn => e.ts >= now - MaxPast /\ e.ts <= now + MaxFuture
    BY ClampBounds, WindowAssumption DEF IInv, ClockInv, Stamps
  <2>3. e \in Entry
    BY <2>2 DEF Entry
  <2>4. Process(e) /\ UNCHANGED <<now, peak, skews>>
    BY <2>1, <1>1 DEF ProcessEvent
  <2> HIDE DEF e
  <2>5. PICK h \in head .. Len(events) :
          /\ EvictsTo(h, e.ts - Duration)
          /\ events' = Append(Kept(h), e)
          /\ head' = IF Compacts(h) THEN 0 ELSE h
          /\ attempts' = attempts - (h - head) + 1
    BY <2>4 DEF Process
  <2>6. SliceInv'
    BY <2>3, <2>5, ProcessSlice DEF IInv
  <2>7. OrderInv'
    BY <2>2, <2>3, <2>4, <2>5, ProcessOrder
  <2>8. ClockInv'
    BY <2>4 DEF IInv, ClockInv
  <2> QED
    BY <2>6, <2>7, <2>8 DEF IInv
<1>2. CASE ClockMoves
  <2>1. ClockInv'
    <3>0. skews' \in Skews
      BY <1>2 DEF ClockMoves, IInv, ClockInv
    <3>1. /\ now' \in Nat /\ now' >= peak - ClockStep
          /\ peak' = IF now' > peak THEN now' ELSE peak
      BY <1>2, WindowAssumption DEF ClockMoves
    <3>2. peak \in Nat /\ ClockStep \in Nat
      BY WindowAssumption DEF IInv, ClockInv
    <3>3. CASE now' > peak
      <4>1. peak' = now'
        BY <3>1, <3>3
      <4>2. peak' \in Nat /\ now' \in Nat
        BY <3>1, <4>1
      <4>3. now' <= peak'
        BY <4>1, <4>2
      <4>4. now' >= peak' - ClockStep
        <5> DEFINE t == now'
        <5>1. t \in Nat /\ ClockStep \in Nat /\ peak' = t
          BY <3>2, <4>1, <4>2
        <5> HIDE DEF t
        <5>2. t >= t - ClockStep
          BY <5>1
        <5> QED
          BY <4>1, <5>1, <5>2
      <4> QED
        BY <3>0, <4>2, <4>3, <4>4 DEF ClockInv
    <3>4. CASE ~(now' > peak)
      <4>1. peak' = peak /\ now' <= peak
        BY <3>1, <3>2, <3>4
      <4> QED
        BY <3>0, <3>1, <3>2, <4>1 DEF ClockInv
    <3> QED
      BY <3>3, <3>4
  <2>2. SliceInv'
    BY <1>2 DEF ClockMoves, wvars, IInv, SliceInv, MemoryBounded
  <2>3. OrderInv'
    <3>1. peak' >= peak /\ peak \in Nat /\ peak' \in Nat /\ events' = events
      BY <1>2, <2>1 DEF ClockMoves, wvars, IInv, ClockInv
    <3>2. \A i \in 1 .. Len(events) : events[i].ts \in Int
      BY EntryTypes DEF IInv, SliceInv
    <3> SUFFICES ASSUME ChecksOn
                 PROVE  \A i \in 1 .. Len(events) :
                          events[i].ts <= peak' + MaxFuture
      BY <1>2 DEF ClockMoves, wvars, IInv, OrderInv, Slack, ChecksOn
    <3> QED
      BY <3>1, <3>2, WindowAssumption DEF IInv, OrderInv
  <2> QED
    BY <2>1, <2>2, <2>3 DEF IInv
<1>3. CASE UpdateConfig
  BY <1>3 DEF UpdateConfig, wvars, IInv, ClockInv, SliceInv, OrderInv,
              MemoryBounded, Slack, ChecksOn
<1>4. CASE UNCHANGED vars
  BY <1>4 DEF vars, wvars, IInv, ClockInv, SliceInv, OrderInv, MemoryBounded,
              Slack, ChecksOn
<1> QED
  BY <1>1, <1>2, <1>3, <1>4 DEF Next

(* The slice's types, its order and its bounds hold in every state.        *)
THEOREM SpecIInv == Spec => []IInv
<1>1. Init => IInv
  BY InitIInv
<1>2. IInv /\ [Next]_vars => IInv'
  BY NextIInv
<1> QED
  BY <1>1, <1>2, PTL DEF Spec

(* The dead prefix of a window's slice stays below half of it.             *)
THEOREM SpecMemoryBounded == Spec => []MemoryBounded
<1>1. IInv => MemoryBounded
  BY DEF IInv, SliceInv
<1> QED
  BY <1>1, SpecIInv, PTL

(* However the clock steps and whatever order events arrive in, the        *)
(* entries a window counts lie within Duration and the slack of the clock  *)
(* and the widest skews, through every reload of them.                     *)
THEOREM SpecSpanBounded == Spec => []SpanBounded
<1>1. IInv => SpanBounded
  <2> SUFFICES ASSUME IInv, ChecksOn,
                      events # << >>, NEW i \in Live
               PROVE  /\ events[i].ts
                            >= events[Len(events)].ts - Duration - Slack
                      /\ events[i].ts <= events[Len(events)].ts + Slack
    BY DEF SpanBounded
  <2> DEFINE n == Len(events)
  <2>1. /\ n \in Nat /\ n >= 1 /\ head \in 0 .. n /\ i \in head + 1 .. n
        /\ i \in 1 .. n /\ head + 1 \in 1 .. n /\ n \in 1 .. n
    BY EmptySeq, LenProperties DEF IInv, SliceInv, Live
  <2>2. \A k \in 1 .. n : events[k].ts \in Int
    BY EntryTypes DEF IInv, SliceInv
  <2>3. Slack \in Nat /\ Duration \in Nat
    BY WindowAssumption DEF Slack
  <2>4. events[head + 1].ts >= events[n].ts - Duration
    BY <2>1 DEF IInv, OrderInv
  <2>5. \A j, k \in 1 .. n : j < k => events[k].ts >= events[j].ts - Slack
    BY DEF IInv, OrderInv
  <2>6. events[i].ts >= events[head + 1].ts - Slack
    BY <2>1, <2>2, <2>3, <2>5
  <2>7. events[n].ts >= events[i].ts - Slack
    BY <2>1, <2>2, <2>3, <2>5
  <2>8. /\ events[i].ts \in Int /\ events[n].ts \in Int
        /\ events[head + 1].ts \in Int
    BY <2>1, <2>2
  <2>9. events[i].ts >= events[n].ts - Duration - Slack
    BY <2>3, <2>4, <2>6, <2>8
  <2>10. events[i].ts <= events[n].ts + Slack
    BY <2>3, <2>7, <2>8
  <2> QED
    BY <2>9, <2>10
<1> QED
  BY <1>1, SpecIInv, PTL

-----------------------------------------------------------------------------
(***************************************************************************)
(* The counters of Window are exact, and its types, for every value of the *)
(* constants.                                                              *)
(*                                                                         *)
(* CountersExact speaks of the positions that are alive, and both Evict    *)
(* and the copy that compacts the slice move them.  CountStep is the       *)
(* arithmetic of one event: the positions that match before are those that *)
(* are popped and those that stay; the latter shift by d, and the new      *)
(* entry may match as well.                                                *)
(***************************************************************************)

(* Shifting a finite set of positions keeps its cardinality.               *)
LEMMA ShiftCardinality ==
  ASSUME NEW S, S \subseteq Int, IsFiniteSet(S), NEW d \in Int
  PROVE  /\ IsFiniteSet({i - d : i \in S})
         /\ Cardinality({i - d : i \in S}) = Cardinality(S)
<1> DEFINE T == {i - d : i \in S}
           f == [i \in S |-> i - d]
<1>1. f \in [S -> T]
  OBVIOUS
<1>2. \A a, b \in S : f[a] = f[b] => a = b
  OBVIOUS
<1>3. \A t \in T : \E s \in S : f[s] = t
  OBVIOUS
<1>4. f \in Bijection(S, T)
  BY <1>1, <1>2, <1>3 DEF Bijection, Injection, Surjection, IsInjective
<1> HIDE DEF f, T
<1>5. ExistsBijection(S, T)
  BY <1>4 DEF ExistsBijection
<1>6. IsFiniteSet(T) /\ Cardinality(T) = Cardinality(S)
  BY <1>5, FS_Bijection
<1> QED
  BY <1>6 DEF T

(* A set of positions of the slice is finite.                              *)
LEMMA PositionsFinite ==
  ASSUME NEW a \in Int, NEW b \in Int, NEW S, S \subseteq a .. b
  PROVE  /\ IsFiniteSet(S) /\ Cardinality(S) \in Nat
         /\ Cardinality(S) > 0 <=> S # {}
<1>1. IsFiniteSet(S)
  BY FS_Interval, FS_Subset
<1>2. Cardinality(S) \in Nat
  BY <1>1, FS_CardinalityType
<1> QED
  BY <1>1, <1>2, FS_EmptySet

(* The positions in S whose entry is in Q.                                 *)
Matching(es, S, Q) == {i \in S : es[i] \in Q}

Failed  == {x \in Entry : x.result = "failure"}
From(u) == {x \in Entry : x.uid = u}

(* The positions Old of es become the positions New of ns: those in Pop    *)
(* are dropped, those in Stay move by d, and e is added at position k.     *)
Moves(es, ns, e, d, k, Old, Pop, Stay, New) ==
  /\ d \in Int
  /\ IsFiniteSet(Pop) /\ IsFiniteSet(Stay) /\ Stay \subseteq Int
  /\ Pop \cap Stay = {} /\ Old = Pop \cup Stay
  /\ k \notin {i - d : i \in Stay}
  /\ New = {i - d : i \in Stay} \cup {k}
  /\ \A i \in Stay : ns[i - d] = es[i]
  /\ ns[k] = e

(* How many positions match after an event, from those that did before.    *)
LEMMA CountStep ==
  ASSUME NEW es, NEW ns, NEW e, NEW d, NEW k,
         NEW Old, NEW Pop, NEW Stay, NEW New,
         Moves(es, ns, e, d, k, Old, Pop, Stay, New), NEW Q
  PROVE  /\ Cardinality(Matching(es, Old, Q)) \in Nat
         /\ Cardinality(Matching(es, Pop, Q)) \in Nat
         /\ Cardinality(Matching(es, Old, Q)) >= Cardinality(Matching(es, Pop, Q))
         /\ Cardinality(Matching(ns, New, Q))
              = Cardinality(Matching(es, Old, Q)) - Cardinality(Matching(es, Pop, Q))
                  + (IF e \in Q THEN 1 ELSE 0)
         /\ Cardinality(Matching(es, Old, Q)) > Cardinality(Matching(es, Pop, Q))
            <=> Matching(es, Stay, Q) # {}
         /\ Matching(ns, New, Q) # {} <=> Matching(es, Stay, Q) # {} \/ e \in Q
         /\ Matching(es, Stay, Q) \subseteq Matching(es, Old, Q)
<1> DEFINE A == Matching(es, Old, Q)
           P == Matching(es, Pop, Q)
           R == Matching(es, Stay, Q)
           B == Matching(ns, New, Q)
           T == {i - d : i \in R}
<1>1. A = P \cup R /\ P \cap R = {}
  BY DEF Matching, Moves
<1>2. P \subseteq Pop /\ R \subseteq Stay /\ R \subseteq Int
  BY DEF Matching, Moves
<1>3. k \notin T
  BY <1>2 DEF Moves
<1>4. e \in Q => B = T \cup {k}
  BY DEF Matching, Moves
<1>5. e \notin Q => B = T
  BY DEF Matching, Moves
<1>6. T # {} <=> R # {}
  OBVIOUS
<1>7. d \in Int /\ IsFiniteSet(Pop) /\ IsFiniteSet(Stay)
  BY DEF Moves
<1> HIDE DEF A, P, R, B
<1>8. /\ IsFiniteSet(P) /\ Cardinality(P) \in Nat
      /\ IsFiniteSet(R) /\ Cardinality(R) \in Nat
      /\ Cardinality(R) > 0 <=> R # {}
  <2>1. IsFiniteSet(P) /\ IsFiniteSet(R)
    BY <1>2, <1>7, FS_Subset
  <2>2. Cardinality(P) \in Nat /\ Cardinality(R) \in Nat
    BY <2>1, FS_CardinalityType
  <2> QED
    BY <2>1, <2>2, FS_EmptySet
<1>9. IsFiniteSet(T) /\ Cardinality(T) = Cardinality(R)
  BY <1>2, <1>7, <1>8, ShiftCardinality
<1> HIDE DEF T
<1>10. Cardinality(A) = Cardinality(P) + Cardinality(R)
  <2>1. Cardinality(P \cup R)
          = Cardinality(P) + Cardinality(R) - Cardinality(P \cap R)
    BY <1>8, FS_Union
  <2>2. Cardinality(P \cap R) = 0
    BY <1>1, FS_EmptySet
  <2> QED
    BY <1>1, <1>8, <2>1, <2>2
<1>11. /\ Cardinality(B) = Cardinality(R) + (IF e \in Q THEN 1 ELSE 0)
       /\ B # {} <=> R # {} \/ e \in Q
  <2>1. CASE e \in Q
    <3>1. Cardinality(T \cup {k}) = Cardinality(T) + 1
      BY <1>3, <1>9, FS_AddElement
    <3> QED
      BY <2>1, <3>1, <1>4, <1>9
  <2>2. CASE e \notin Q
    <3>1. Cardinality(B) = Cardinality(R)
      BY <2>2, <1>5, <1>9
    <3> QED
      BY <2>2, <3>1, <1>5, <1>6, <1>8
  <2> QED
    BY <2>1, <2>2
<1>12. /\ Cardinality(A) \in Nat /\ Cardinality(A) >= Cardinality(P)
       /\ Cardinality(B) = Cardinality(A) - Cardinality(P)
                              + (IF e \in Q THEN 1 ELSE 0)
       /\ Cardinality(A) > Cardinality(P) <=> R # {}
  BY <1>8, <1>10, <1>11
<1> QED
  BY <1>1, <1>8, <1>11, <1>12 DEF A, P, R, B

-----------------------------------------------------------------------------
(* The UIDs of the entries at the positions S, as the code sees them and   *)
(* in terms of Matching.                                                   *)
Present(es, S) == {es[i].uid : i \in S} \ {NoUID}
Seen(es, S)    == {u \in UIDs : Matching(es, S, From(u)) # {}}

(* The counters f and c are exact for the positions S of es.               *)
Exact(es, S, f, c) ==
  /\ f = Cardinality(Matching(es, S, Failed))
  /\ DOMAIN c = Seen(es, S)
  /\ \A u \in DOMAIN c : c[u] = Cardinality(Matching(es, S, From(u)))

(* Dropping Pop from the counters and adding e keeps them exact.           *)
LEMMA ExactStep ==
  ASSUME NEW es, NEW ns, NEW e \in Entry, NEW d, NEW k,
         NEW Old, NEW Pop, NEW Stay, NEW New,
         Moves(es, ns, e, d, k, Old, Pop, Stay, New),
         NEW f, NEW c, Exact(es, Old, f, c),
         NEW f2, f2 = f - Cardinality(Matching(es, Pop, Failed))
                        + (IF e.result = "failure" THEN 1 ELSE 0),
         NEW c1,
         DOMAIN c1 = {u \in DOMAIN c :
                        c[u] > Cardinality(Matching(es, Pop, From(u)))},
         \A u \in DOMAIN c1 :
           c1[u] = c[u] - Cardinality(Matching(es, Pop, From(u)))
  PROVE  Exact(ns, New, f2, Count(c1, e.uid))
<1> DEFINE c2 == Count(c1, e.uid)
<1>1. \A Q :
        /\ Cardinality(Matching(es, Old, Q)) \in Nat
        /\ Cardinality(Matching(es, Pop, Q)) \in Nat
        /\ Cardinality(Matching(es, Old, Q)) >= Cardinality(Matching(es, Pop, Q))
        /\ Cardinality(Matching(ns, New, Q))
             = Cardinality(Matching(es, Old, Q)) - Cardinality(Matching(es, Pop, Q))
                 + (IF e \in Q THEN 1 ELSE 0)
        /\ Cardinality(Matching(es, Old, Q)) > Cardinality(Matching(es, Pop, Q))
           <=> Matching(es, Stay, Q) # {}
        /\ Matching(ns, New, Q) # {} <=> Matching(es, Stay, Q) # {} \/ e \in Q
        /\ Matching(es, Stay, Q) \subseteq Matching(es, Old, Q)
  BY CountStep, ZenonT(60)
<1>2. /\ f = Cardinality(Matching(es, Old, Failed))
      /\ DOMAIN c = {u \in UIDs : Matching(es, Old, From(u)) # {}}
      /\ \A u \in DOMAIN c : c[u] = Cardinality(Matching(es, Old, From(u)))
  BY DEF Exact, Seen
<1>3. /\ e \in Failed <=> e.result = "failure"
      /\ \A u : e \in From(u) <=> e.uid = u
      /\ e.uid \in UIDs \cup {NoUID}
  BY DEF Failed, From, Entry
<1>4. f2 = Cardinality(Matching(ns, New, Failed))
  BY <1>1, <1>2, <1>3
<1>5. /\ DOMAIN c1 = {u \in UIDs : Matching(es, Stay, From(u)) # {}}
      /\ \A u \in DOMAIN c1 :
           c1[u] = Cardinality(Matching(es, Old, From(u)))
                     - Cardinality(Matching(es, Pop, From(u)))
  <2>1. ASSUME NEW u \in UIDs
        PROVE  u \in DOMAIN c1 <=> Matching(es, Stay, From(u)) # {}
    BY <1>1, <1>2
  <2> QED
    BY <1>2, <2>1
<1>6. /\ DOMAIN c2 = DOMAIN c1 \cup ({e.uid} \ {NoUID})
      /\ \A u \in DOMAIN c2 :
           c2[u] = (IF u \in DOMAIN c1 THEN c1[u] ELSE 0)
                     + (IF e.uid = u THEN 1 ELSE 0)
  <2>1. CASE e.uid = NoUID
    <3>1. c2 = c1
      BY <2>1 DEF Count
    <3>2. \A u \in DOMAIN c1 : e.uid # u /\ c1[u] \in Int
      BY <1>1, <1>5, <2>1, WindowAssumption
    <3>3. \A u \in DOMAIN c1 : c1[u] = c1[u] + 0
      BY <3>2
    <3> QED
      BY <2>1, <3>1, <3>2, <3>3
  <2>2. CASE e.uid # NoUID
    BY <2>2 DEF Count
  <2> QED
    BY <2>1, <2>2
<1> HIDE DEF c2
<1>7. DOMAIN c2 = {u \in UIDs : Matching(ns, New, From(u)) # {}}
  BY <1>1, <1>3, <1>5, <1>6, WindowAssumption
<1>8. ASSUME NEW u \in DOMAIN c2
      PROVE  c2[u] = Cardinality(Matching(ns, New, From(u)))
  <2> DEFINE o == Cardinality(Matching(es, Old, From(u)))
             g == Cardinality(Matching(es, Pop, From(u)))
             w == Cardinality(Matching(ns, New, From(u)))
  <2>1. c2[u] = (IF u \in DOMAIN c1 THEN c1[u] ELSE 0)
                  + (IF e.uid = u THEN 1 ELSE 0)
    BY <1>6
  <2>2. /\ o \in Nat /\ g \in Nat /\ o >= g
        /\ w = o - g + (IF e.uid = u THEN 1 ELSE 0)
        /\ o > g <=> Matching(es, Stay, From(u)) # {}
    BY <1>1, <1>3
  <2>3. u \in UIDs
    BY <1>7
  <2>4. CASE u \in DOMAIN c1
    <3>1. c1[u] = o - g
      BY <1>5, <2>4
    <3> HIDE DEF o, g, w
    <3>2. c2[u] = w
      BY <2>1, <2>2, <2>4, <3>1
    <3> QED
      BY <3>2 DEF w
  <2>5. CASE u \notin DOMAIN c1
    <3>1. Matching(es, Stay, From(u)) = {}
      BY <1>5, <2>3, <2>5
    <3> HIDE DEF o, g, w
    <3>2. o - g = 0
      BY <2>2, <3>1
    <3>3. c2[u] = w
      BY <2>1, <2>2, <2>5, <3>2
    <3> QED
      BY <3>3 DEF w
  <2> QED
    BY <2>4, <2>5
<1>9. Exact(ns, New, f2, c2)
  BY <1>4, <1>7, <1>8 DEF Exact, Seen
<1> QED
  BY <1>9 DEF c2

(* CountersExact in terms of Exact.                                        *)
LEMMA ExactMeans ==
  ASSUME NEW es, NEW S, \A i \in S : es[i] \in Entry
  PROVE  /\ {i \in S : es[i].result = "failure"} = Matching(es, S, Failed)
         /\ \A u : {i \in S : es[i].uid = u} = Matching(es, S, From(u))
         /\ Present(es, S) = Seen(es, S)
<1>1. {i \in S : es[i].result = "failure"} = Matching(es, S, Failed)
  BY DEF Matching, Failed
<1>2. \A u : {i \in S : es[i].uid = u} = Matching(es, S, From(u))
  BY DEF Matching, From
<1>3. \A i \in S : es[i].uid \in UIDs \cup {NoUID}
  BY DEF Entry
<1>4. \A u \in UIDs : Matching(es, S, From(u)) # {} <=> \E i \in S : es[i].uid = u
  BY <1>2
<1>5. {es[i].uid : i \in S} \ {NoUID} = {u \in UIDs : \E i \in S : es[i].uid = u}
  BY <1>3, WindowAssumption
<1> QED
  BY <1>1, <1>2, <1>4, <1>5 DEF Present, Seen

-----------------------------------------------------------------------------
(* How an event moves the slice: e is processed, h entries are dead before *)
(* the slice is copied.                                                    *)
LEMMA ProcessShifts ==
  ASSUME SliceInv, NEW e \in Entry, NEW h \in head .. Len(events),
         events' = Append(Kept(h), e),
         head' = IF Compacts(h) THEN 0 ELSE h,
         attempts' = attempts - (h - head) + 1
  PROVE  /\ Moves(events, events', e, Dropped(h), Len(events'),
                  Live, head + 1 .. h, h + 1 .. Len(events), Live')
         /\ attempts' = Len(events') - head'
         /\ \A i \in Live : events[i] \in Entry
         /\ \A i \in head + 1 .. h : events[i] \in Entry
         /\ \A i \in Live' : events'[i] \in Entry
<1> DEFINE d == Dropped(h)
           n == Len(events)
           es == events'
           k == Len(es)
<1>1. /\ n \in Nat /\ head \in Nat /\ h \in Nat /\ head <= h /\ h <= n
      /\ d \in Nat /\ d <= h
  BY LenProperties DEF SliceInv, Dropped
<1>2. /\ SliceInv'
      /\ k = n - d + 1
      /\ head' = h - d
      /\ es[k] = e
      /\ \A i \in 1 .. k - 1 : es[i] = events[i + d]
  BY ProcessSlice
<1>3. Live' = h - d + 1 .. n - d + 1
  BY <1>2 DEF Live
<1>4. attempts' = k - head' /\ es \in Seq(Entry)
  BY <1>2 DEF SliceInv
<1>5. \A i \in 1 .. k : es[i] \in Entry
  BY <1>4, ElementOfSeq
<1> HIDE DEF d, n, k, es
<1>6. Moves(events, es, e, d, k, Live, head + 1 .. h, h + 1 .. n, Live')
  <2> DEFINE L == Live'
  <2>1. Live = head + 1 .. n /\ L = h - d + 1 .. n - d + 1 /\ k = n - d + 1
    BY <1>2, <1>3 DEF Live, n
  <2>2. IsFiniteSet(head + 1 .. h) /\ IsFiniteSet(h + 1 .. n)
    BY <1>1, FS_Interval
  <2>3. \A i \in h + 1 .. n : i \in Int /\ i - d \in 1 .. k - 1
    BY <1>1, <2>1
  <2>4. \A i \in h + 1 .. n : es[i - d] = events[i]
    <3> TAKE i \in h + 1 .. n
    <3>1. i - d + d = i
      BY <1>1
    <3> QED
      BY <1>2, <2>3, <3>1
  <2> HIDE DEF L
  <2>5. /\ k \notin {i - d : i \in h + 1 .. n}
        /\ L = {i - d : i \in h + 1 .. n} \cup {k}
    <3>1. k \notin {i - d : i \in h + 1 .. n}
      BY <1>1, <2>1
    <3>2. ASSUME NEW j \in L, j # k
          PROVE  \E i \in h + 1 .. n : j = i - d
      <4> DEFINE i == j + d
      <4>1. i \in h + 1 .. n /\ j = i - d
        BY <1>1, <2>1, <3>2
      <4> HIDE DEF i
      <4> QED
        BY <4>1
    <3>4. \A i \in h + 1 .. n : i - d \in L
      BY <1>1, <2>1
    <3>5. k \in L
      BY <1>1, <2>1
    <3> QED
      BY <3>1, <3>2, <3>4, <3>5
  <2>6. /\ (head + 1 .. h) \cap (h + 1 .. n) = {}
        /\ Live = (head + 1 .. h) \cup (h + 1 .. n)
    BY <1>1, <2>1
  <2>7. h + 1 .. n \subseteq Int /\ d \in Int
    BY <1>1
  <2>8. Moves(events, es, e, d, k, Live, head + 1 .. h, h + 1 .. n, L)
    BY <1>2, <2>2, <2>4, <2>5, <2>6, <2>7 DEF Moves
  <2> QED
    BY <2>8 DEF L
<1>7. \A i \in Live' : es[i] \in Entry
  <2>1. \A i \in h - d + 1 .. n - d + 1 : i \in 1 .. k
    BY <1>1, <1>2
  <2> QED
    BY <1>3, <1>5, <2>1
<1>8. /\ \A i \in Live : events[i] \in Entry
      /\ \A i \in head + 1 .. h : events[i] \in Entry
  <2>1. \A i \in 1 .. n : events[i] \in Entry
    BY EntryTypes DEF SliceInv, n
  <2>2. /\ \A i \in Live : i \in 1 .. n
        /\ \A i \in head + 1 .. h : i \in 1 .. n
    BY <1>1 DEF Live, n
  <2> QED
    BY <2>1, <2>2
<1> QED
  BY <1>4, <1>6, <1>7, <1>8 DEF d, n, k, es

(* An event keeps the counters exact.                                      *)
LEMMA ProcessCounters ==
  ASSUME SliceInv, CountersExact, NEW e \in Entry, Process(e)
  PROVE  CountersExact'
<1>1. PICK h \in head .. Len(events) :
        /\ events' = Append(Kept(h), e)
        /\ head' = IF Compacts(h) THEN 0 ELSE h
        /\ attempts' = attempts - (h - head) + 1
        /\ failures' = failures
             - Cardinality({i \in head + 1 .. h : events[i].result = "failure"})
             + (IF e.result = "failure" THEN 1 ELSE 0)
        /\ uidCounts' = Count(CountsAfter(h), e.uid)
  BY DEF Process
<1> DEFINE d    == Dropped(h)
           k    == Len(events')
           Pop  == head + 1 .. h
           Stay == h + 1 .. Len(events)
           Old  == Live
           New  == Live'
           es   == events'
           c1   == CountsAfter(h)
<1>2. /\ Moves(events, es, e, d, k, Old, Pop, Stay, New)
      /\ attempts' = k - head'
      /\ \A i \in Old : events[i] \in Entry
      /\ \A i \in Pop : events[i] \in Entry
      /\ \A i \in New : es[i] \in Entry
  BY <1>1, ProcessShifts
<1>3. /\ failures' = failures
           - Cardinality({i \in Pop : events[i].result = "failure"})
           + (IF e.result = "failure" THEN 1 ELSE 0)
      /\ uidCounts' = Count(c1, e.uid)
      /\ \A u : Popped(h, u) = Cardinality({i \in Pop : events[i].uid = u})
      /\ DOMAIN c1 = {v \in DOMAIN uidCounts : uidCounts[v] > Popped(h, v)}
      /\ \A u \in DOMAIN c1 : c1[u] = uidCounts[u] - Popped(h, u)
  BY <1>1 DEF CountsAfter, Popped
<1>4. /\ failures = Cardinality({i \in Old : events[i].result = "failure"})
      /\ DOMAIN uidCounts = Present(events, Old)
      /\ \A u \in DOMAIN uidCounts :
           uidCounts[u] = Cardinality({i \in Old : events[i].uid = u})
  BY DEF CountersExact, Present
<1> HIDE DEF d, k, Pop, Stay, Old, New, es, c1
<1>5. /\ {i \in Old : events[i].result = "failure"} = Matching(events, Old, Failed)
      /\ \A u : {i \in Old : events[i].uid = u} = Matching(events, Old, From(u))
      /\ Present(events, Old) = Seen(events, Old)
  BY <1>2, ExactMeans, Zenon
<1>6. /\ {i \in Pop : events[i].result = "failure"} = Matching(events, Pop, Failed)
      /\ \A u : {i \in Pop : events[i].uid = u} = Matching(events, Pop, From(u))
  BY <1>2, ExactMeans, Zenon
<1>7. /\ {i \in New : es[i].result = "failure"} = Matching(es, New, Failed)
      /\ \A u : {i \in New : es[i].uid = u} = Matching(es, New, From(u))
      /\ Present(es, New) = Seen(es, New)
  BY <1>2, ExactMeans, Zenon
<1>8. Exact(events, Old, failures, uidCounts)
  BY <1>4, <1>5 DEF Exact
<1>9. /\ failures' = failures - Cardinality(Matching(events, Pop, Failed))
                       + (IF e.result = "failure" THEN 1 ELSE 0)
      /\ DOMAIN c1 = {u \in DOMAIN uidCounts :
                        uidCounts[u] > Cardinality(Matching(events, Pop, From(u)))}
      /\ \A u \in DOMAIN c1 :
           c1[u] = uidCounts[u] - Cardinality(Matching(events, Pop, From(u)))
  <2>1. \A u : Popped(h, u) = Cardinality(Matching(events, Pop, From(u)))
    BY <1>3, <1>6
  <2>2. failures' = failures - Cardinality(Matching(events, Pop, Failed))
                      + (IF e.result = "failure" THEN 1 ELSE 0)
    BY <1>3, <1>6
  <2>3. DOMAIN c1 = {u \in DOMAIN uidCounts :
                       uidCounts[u] > Cardinality(Matching(events, Pop, From(u)))}
    BY <1>3, <2>1, Zenon
  <2>4. \A u \in DOMAIN c1 :
          c1[u] = uidCounts[u] - Cardinality(Matching(events, Pop, From(u)))
    BY <1>3, <2>1
  <2> QED
    BY <2>2, <2>3, <2>4
<1>10. Exact(es, New, failures', Count(c1, e.uid))
  BY <1>2, <1>8, <1>9, ExactStep
<1>11. /\ failures' = Cardinality({i \in New : es[i].result = "failure"})
       /\ DOMAIN uidCounts' = Present(es, New)
       /\ \A u \in DOMAIN uidCounts' :
            uidCounts'[u] = Cardinality({i \in New : es[i].uid = u})
  BY <1>3, <1>7, <1>10 DEF Exact
<1> QED
  BY <1>2, <1>11 DEF CountersExact, Present, es, New, k

-----------------------------------------------------------------------------
(* The counters with the slice, and what TypeOK asks of the map and of the *)
(* report beyond that.                                                     *)
ReportType == [attempts : Nat, failures : Int, uids : Nat]

CInv ==
  /\ IInv
  /\ CountersExact
  /\ uidCounts = [u \in DOMAIN uidCounts |-> uidCounts[u]]
  /\ report \in ReportType

(* What exact counters say of their types: a UID is a key of the map only  *)
(* while an entry that is alive carries it, so its count is positive.      *)
CounterType ==
  /\ attempts \in Nat /\ failures \in Int
  /\ DOMAIN uidCounts \subseteq UIDs
  /\ \A u \in DOMAIN uidCounts : uidCounts[u] \in Nat \ {0}
  /\ Cardinality(DOMAIN uidCounts) \in Nat

LEMMA CounterTypes == SliceInv /\ CountersExact => CounterType
<1> SUFFICES ASSUME SliceInv, CountersExact PROVE CounterType
  OBVIOUS
<1>1. Len(events) \in Nat /\ head \in Nat /\ head <= Len(events)
  BY LenProperties DEF SliceInv
<1>2. \A S \in SUBSET Live : /\ IsFiniteSet(S) /\ Cardinality(S) \in Nat
                             /\ Cardinality(S) > 0 <=> S # {}
  <2> TAKE S \in SUBSET Live
  <2>1. head + 1 \in Int /\ Len(events) \in Int /\ S \subseteq head + 1 .. Len(events)
    BY <1>1 DEF Live
  <2> QED
    BY <2>1, PositionsFinite
<1>3. attempts \in Nat
  BY <1>1 DEF CountersExact
<1>4. failures \in Int
  <2>1. {i \in Live : events[i].result = "failure"} \in SUBSET Live
    OBVIOUS
  <2> QED
    BY <1>2, <2>1 DEF CountersExact
<1>5. \A i \in Live : events[i].uid \in UIDs \cup {NoUID}
  <2>1. \A i \in Live : i \in 1 .. Len(events)
    BY <1>1 DEF Live
  <2> QED
    BY <2>1, EntryTypes DEF SliceInv, Entry
<1>6. DOMAIN uidCounts \subseteq UIDs
  BY <1>5 DEF CountersExact
<1>7. ASSUME NEW u \in DOMAIN uidCounts
      PROVE  uidCounts[u] \in Nat \ {0}
  <2> DEFINE S == {i \in Live : events[i].uid = u}
  <2>1. S # {} /\ S \in SUBSET Live /\ uidCounts[u] = Cardinality(S)
    BY DEF CountersExact
  <2> HIDE DEF S
  <2>2. Cardinality(S) \in Nat /\ Cardinality(S) > 0
    BY <1>2, <2>1
  <2> QED
    BY <2>1, <2>2
<1>8. Cardinality(DOMAIN uidCounts) \in Nat
  BY <1>6, FS_Subset, FS_CardinalityType, WindowAssumption
<1> QED
  BY <1>3, <1>4, <1>6, <1>7, <1>8 DEF CounterType

(* A new window's counters are exact.                                      *)
LEMMA InitCInv == Init => CInv
<1> SUFFICES ASSUME Init PROVE CInv
  OBVIOUS
<1>1. IInv
  BY InitIInv
<1>2. events = << >> /\ head = 0 /\ attempts = 0 /\ failures = 0
      /\ uidCounts = [u \in {} |-> 0]
      /\ report = [attempts |-> 0, failures |-> 0, uids |-> 0]
  BY DEF Init
<1>3. Len(events) = 0 /\ Live = {}
  BY <1>2 DEF Live
<1>4. DOMAIN uidCounts = {}
  BY <1>2
<1>5. /\ {i \in Live : events[i].result = "failure"} = {}
      /\ {events[i].uid : i \in Live} \ {NoUID} = {}
  BY <1>3
<1>6. Cardinality({}) = 0
  BY FS_EmptySet
<1>7. CountersExact
  BY <1>2, <1>3, <1>4, <1>5, <1>6 DEF CountersExact
<1>8. uidCounts = [u \in DOMAIN uidCounts |-> uidCounts[u]]
  BY <1>2, <1>4
<1>9. report \in ReportType
  BY <1>2 DEF ReportType
<1> QED
  BY <1>1, <1>7, <1>8, <1>9 DEF CInv

(* Every event and every step of the clock keeps them exact.               *)
LEMMA NextCInv == CInv /\ [Next]_vars => CInv'
<1> SUFFICES ASSUME CInv, [Next]_vars PROVE CInv'
  OBVIOUS
<1>1. IInv'
  BY NextIInv DEF CInv
<1>2. SliceInv /\ CountersExact /\ SliceInv'
  BY <1>1 DEF CInv, IInv
<1>3. CASE ProcessEvent
  <2>1. PICK s \in Stamps, u \in UIDs \cup {NoUID}, r \in Results :
          Process([ts |-> ClampTimestamp(s), uid |-> u, result |-> r])
    BY <1>3 DEF ProcessEvent
  <2> DEFINE e == [ts |-> ClampTimestamp(s), uid |-> u, result |-> r]
  <2>2. e \in Entry
    <3>1. e.ts \in Int
      BY ClampBounds, WindowAssumption DEF CInv, IInv, ClockInv, Stamps
    <3> QED
      BY <3>1 DEF Entry
  <2> HIDE DEF e
  <2>3. CountersExact'
    BY <1>2, <2>1, <2>2, ProcessCounters DEF e
  <2>4. PICK h \in head .. Len(events) :
          /\ uidCounts' = Count(CountsAfter(h), e.uid)
          /\ report' = [attempts |-> attempts', failures |-> failures',
                        uids |-> Cardinality(DOMAIN uidCounts')]
    BY <2>1 DEF Process, e
  <2>5. uidCounts' = [v \in DOMAIN uidCounts' |-> uidCounts'[v]]
    <3>1. CASE e.uid = NoUID
      BY <2>4, <3>1 DEF Count, CountsAfter
    <3>2. CASE e.uid # NoUID
      BY <2>4, <3>2 DEF Count
    <3> QED
      BY <3>1, <3>2
  <2>6. /\ attempts' \in Nat /\ failures' \in Int
        /\ Cardinality(DOMAIN uidCounts') \in Nat
    <3>1. SliceInv' /\ CountersExact' => CounterType'
      BY CounterTypes, PTL
    <3> QED
      BY <1>2, <2>3, <3>1 DEF CounterType
  <2>7. (report \in ReportType)'
    BY <2>4, <2>6 DEF ReportType
  <2> QED
    BY <1>1, <2>3, <2>5, <2>7 DEF CInv
<1>4. CASE UNCHANGED wvars
  BY <1>1, <1>4 DEF CInv, wvars, CountersExact, Live, ReportType
<1>5. UNCHANGED wvars \/ ProcessEvent
  BY DEF Next, UpdateConfig, ClockMoves, vars
<1> QED
  BY <1>3, <1>4, <1>5

(* The counters, the slice and the map's keys stay in step, always.        *)
LEMMA SpecCInv == Spec => []CInv
<1>1. Init => CInv
  BY InitCInv
<1>2. CInv /\ [Next]_vars => CInv'
  BY NextCInv
<1> QED
  BY <1>1, <1>2, PTL DEF Spec

(* The figures of a reader's window are those of the events it counts,     *)
(* whatever order they came in and however often the slice was copied.     *)
THEOREM SpecCountersExact == Spec => []CountersExact
<1>1. CInv => CountersExact
  BY DEF CInv
<1> QED
  BY <1>1, SpecCInv, PTL

(* The types of the clock, the slice, the counters and the report; a key   *)
(* of the UID map never has a count of zero.                               *)
THEOREM SpecTypeOK == Spec => []TypeOK
<1>1. CInv => TypeOK
  <2> SUFFICES ASSUME CInv PROVE TypeOK
    OBVIOUS
  <2>1. SliceInv /\ CountersExact /\ ClockInv
    BY DEF CInv, IInv
  <2>2. /\ attempts \in Nat /\ failures \in Int
        /\ DOMAIN uidCounts \subseteq UIDs
        /\ \A u \in DOMAIN uidCounts : uidCounts[u] \in Nat \ {0}
    BY <2>1, CounterTypes DEF CounterType
  <2>3. uidCounts \in [DOMAIN uidCounts -> Nat \ {0}]
    BY <2>2 DEF CInv
  <2> QED
    BY <2>1, <2>2, <2>3 DEF TypeOK, CInv, ReportType, SliceInv, ClockInv
<1> QED
  BY <1>1, SpecCInv, PTL

-----------------------------------------------------------------------------
(***************************************************************************)
(* The slice, the head index and the counters implement SlidingWindow.     *)
(* Its live is the slice without its dead prefix (Alive), which a copy     *)
(* does not change; an event drops from it what Evict passes over; and the *)
(* figures reported are those of Alive because the counters are exact.     *)
(***************************************************************************)
Alive == SubSeq(events, head + 1, Len(events))

AliveIs ==
  /\ Alive \in Seq(Entry) /\ Len(Alive) = Len(events) - head
  /\ Len(events) \in Nat /\ head \in Nat /\ head <= Len(events)
  /\ \A i \in 1 .. Len(Alive) : Alive[i] = events[head + i] /\ head + i \in Live

LEMMA AliveMeans == SliceInv => AliveIs
<1> SUFFICES ASSUME SliceInv PROVE AliveIs
  OBVIOUS
<1>1. Len(events) \in Nat /\ head \in Nat /\ head <= Len(events)
  BY LenProperties DEF SliceInv
<1>2. \A i \in head + 1 .. Len(events) : events[i] \in Entry
  <2>1. \A i \in head + 1 .. Len(events) : i \in 1 .. Len(events)
    BY <1>1
  <2> QED
    BY <2>1, EntryTypes DEF SliceInv
<1>3. /\ Alive \in Seq(Entry)
      /\ Len(Alive) = IF head + 1 <= Len(events)
                      THEN Len(events) - (head + 1) + 1 ELSE 0
      /\ \A i \in 1 .. Len(events) - (head + 1) + 1 : Alive[i] = events[head + 1 + i - 1]
  <2>1. head + 1 \in Int /\ Len(events) \in Int
    BY <1>1
  <2> QED
    BY <1>2, <2>1, SubSeqProperties DEF Alive
<1>4. Len(events) - (head + 1) + 1 = Len(events) - head
      /\ (~(head + 1 <= Len(events)) => Len(events) - head = 0)
  BY <1>1
<1>5. \A i \in 1 .. Len(events) - head :
        head + 1 + i - 1 = head + i /\ head + i \in Live
  BY <1>1 DEF Live
<1> QED
  BY <1>1, <1>3, <1>4, <1>5 DEF AliveIs

(* The abstract window has a copy of Cardinality of its own.               *)
LEMMA SameCardinality == \A S : Abstract!Cardinality(S) = Cardinality(S)
  BY DEF Abstract!Cardinality, Cardinality

(* Exact counters are the figures of Alive.                                *)

LEMMA MeasureMeans ==
  SliceInv /\ CountersExact
    => Abstract!Measure(Alive) = [attempts |-> attempts, failures |-> failures,
                                  uids |-> Cardinality(DOMAIN uidCounts)]
<1> SUFFICES ASSUME SliceInv, CountersExact
             PROVE  Abstract!Measure(Alive)
                      = [attempts |-> attempts, failures |-> failures,
                         uids |-> Cardinality(DOMAIN uidCounts)]
  OBVIOUS
<1> DEFINE n == Len(Alive)
           Before == {i \in Live : events[i].result = "failure"}
           After  == {i \in DOMAIN Alive : Alive[i].result = "failure"}
<1>1. /\ Alive \in Seq(Entry) /\ n = Len(events) - head
      /\ Len(events) \in Nat /\ head \in Nat /\ head <= Len(events)
      /\ \A i \in 1 .. n : Alive[i] = events[head + i] /\ head + i \in Live
  BY AliveMeans DEF AliveIs
<1>2. DOMAIN Alive = 1 .. n /\ n \in Nat
  BY <1>1
<1>3. \A j \in Live : j - head \in 1 .. n /\ head + (j - head) = j
  BY <1>1 DEF Live
<1> HIDE DEF n
<1>4. After = {j - head : j \in Before}
  <2>1. \A i \in After : head + i \in Before /\ i \in Int
    BY <1>1, <1>2
  <2>2. \A j \in Before : j - head \in After
    BY <1>1, <1>2, <1>3
  <2> HIDE DEF Before, After
  <2>3. ASSUME NEW i \in After PROVE \E j \in Before : i = j - head
    <3> DEFINE j == head + i
    <3>1. j \in Before /\ i = j - head
      BY <1>1, <2>1
    <3> HIDE DEF j
    <3> QED
      BY <3>1
  <2> QED
    BY <2>2, <2>3
<1>5. Cardinality(After) = Cardinality(Before)
  <2>1. Before \subseteq head + 1 .. Len(events)
    BY DEF Live
  <2>2. head + 1 \in Int /\ Len(events) \in Int /\ head \in Int
    BY <1>1
  <2>3. Before \subseteq Int
    BY <2>1, <2>2
  <2> HIDE DEF Before, After
  <2>4. IsFiniteSet(Before)
    BY <2>1, <2>2, PositionsFinite
  <2> QED
    BY <1>4, <2>2, <2>3, <2>4, ShiftCardinality
<1>6. {Alive[i].uid : i \in DOMAIN Alive} = {events[i].uid : i \in Live}
  <2>1. \A i \in DOMAIN Alive : \E j \in Live : Alive[i].uid = events[j].uid
    BY <1>1, <1>2
  <2>2. \A j \in Live : \E i \in DOMAIN Alive : Alive[i].uid = events[j].uid
    <3> TAKE j \in Live
    <3>1. j - head \in DOMAIN Alive /\ Alive[j - head] = events[j]
      BY <1>1, <1>2, <1>3
    <3> QED
      BY <3>1
  <2> QED
    BY <2>1, <2>2
<1>7. attempts = n /\ failures = Cardinality(After)
      /\ DOMAIN uidCounts = {Alive[i].uid : i \in DOMAIN Alive} \ {NoUID}
  BY <1>1, <1>5, <1>6 DEF CountersExact
<1> QED
  BY <1>7, SameCardinality DEF Abstract!Measure, n

(* An event drops from Alive what Evict passes over, and adds itself.      *)
LEMMA AliveStep ==
  ASSUME SliceInv, NEW e \in Entry, NEW h \in head .. Len(events),
         EvictsTo(h, e.ts - Duration),
         events' = Append(Kept(h), e),
         head' = IF Compacts(h) THEN 0 ELSE h,
         attempts' = attempts - (h - head) + 1
  PROVE  /\ h - head \in 0 .. Len(Alive)
         /\ Abstract!DropsTo(h - head, e.ts - Duration)
         /\ Alive' = Append(SubSeq(Alive, h - head + 1, Len(Alive)), e)
<1> DEFINE d == h - head
           n == Len(events)
           m == Len(Alive)
           rest == SubSeq(Alive, d + 1, m)
<1>1. /\ Alive \in Seq(Entry) /\ m = n - head
      /\ n \in Nat /\ head \in Nat /\ head <= n
      /\ \A i \in 1 .. m : Alive[i] = events[head + i]
  BY AliveMeans DEF AliveIs
<1>2. /\ SliceInv' /\ Len(events') = n - Dropped(h) + 1 /\ head' = h - Dropped(h)
      /\ events'[Len(events')] = e
      /\ \A i \in 1 .. Len(events') - 1 : events'[i] = events[i + Dropped(h)]
  BY ProcessSlice
<1>3. /\ Alive' \in Seq(Entry) /\ Len(Alive') = Len(events') - head'
      /\ \A i \in 1 .. Len(Alive') : Alive'[i] = events'[head' + i]
  <2>1. SliceInv' => AliveIs'
    BY AliveMeans, PTL
  <2> QED
    BY <1>2, <2>1 DEF AliveIs
<1>4. /\ h \in Nat /\ head <= h /\ h <= n /\ d \in Nat /\ d <= m /\ m - d = n - h
      /\ Dropped(h) \in Nat /\ Dropped(h) <= h
  BY <1>1 DEF Dropped
<1> HIDE DEF n, m
<1>5. /\ rest \in Seq(Entry) /\ Len(rest) = n - h
      /\ \A i \in 1 .. n - h : rest[i] = events[h + i]
  <2>1. \A i \in d + 1 .. m : Alive[i] \in Entry
    <3>1. \A i \in d + 1 .. m : i \in 1 .. Len(Alive)
      BY <1>4 DEF m
    <3> QED
      BY <1>1, <3>1, ElementOfSeq
  <2>2. /\ rest \in Seq(Entry)
        /\ Len(rest) = IF d + 1 <= m THEN m - (d + 1) + 1 ELSE 0
        /\ \A i \in 1 .. m - (d + 1) + 1 : rest[i] = Alive[d + 1 + i - 1]
    <3>1. d + 1 \in Int /\ m \in Int
      BY <1>1, <1>4
    <3> HIDE DEF d
    <3> QED
      BY <2>1, <3>1, SubSeqProperties
  <2>3. /\ m - (d + 1) + 1 = n - h
        /\ ~(d + 1 <= m) => n - h = 0
        /\ \A i \in 1 .. n - h : /\ d + 1 + i - 1 \in 1 .. m
                                 /\ head + (d + 1 + i - 1) = h + i
    BY <1>1, <1>4
  <2> HIDE DEF d, rest
  <2> QED
    BY <1>1, <2>2, <2>3
<1>6. /\ Append(rest, e) \in Seq(Entry) /\ Len(Append(rest, e)) = n - h + 1
      /\ \A i \in 1 .. n - h : Append(rest, e)[i] = events[h + i]
      /\ Append(rest, e)[n - h + 1] = e
  <2> HIDE DEF rest
  <2> QED
    BY <1>5, AppendProperties
<1>7. /\ Len(Alive') = n - h + 1
      /\ \A i \in 1 .. n - h : Alive'[i] = events[h + i]
      /\ Alive'[n - h + 1] = e
  <2>1. Len(Alive') = n - h + 1
    BY <1>1, <1>2, <1>3, <1>4
  <2>2. \A i \in 1 .. n - h :
          /\ i \in 1 .. n - h + 1
          /\ head' + i \in 1 .. Len(events') - 1
          /\ head' + i + Dropped(h) = h + i
    <3> TAKE i \in 1 .. n - h
    <3> DEFINE D == Dropped(h)
    <3>1. /\ i \in Int /\ 1 <= i /\ i <= n - h /\ n \in Int /\ h \in Int
          /\ D \in Int /\ D <= h
          /\ head' = h - D /\ Len(events') = n - D + 1
      BY <1>1, <1>2, <1>4
    <3> HIDE DEF D
    <3>2. /\ i \in 1 .. n - h + 1
          /\ head' + i \in 1 .. Len(events') - 1
          /\ head' + i + D = h + i
      BY <3>1
    <3> QED
      BY <3>2 DEF D
  <2>3. n - h + 1 \in 1 .. n - h + 1 /\ head' + (n - h + 1) = Len(events')
    <3> DEFINE D == Dropped(h)
    <3>1. /\ n \in Int /\ h \in Int /\ h <= n
          /\ D \in Int /\ head' = h - D /\ Len(events') = n - D + 1
      BY <1>1, <1>2, <1>4
    <3> HIDE DEF D, n
    <3> QED
      BY ONLY <3>1
  <2> QED
    BY <1>2, <1>3, <2>1, <2>2, <2>3
<1>8. Alive' = Append(rest, e)
  <2>1. \A i \in 1 .. n - h + 1 : i \in 1 .. n - h \/ i = n - h + 1
    BY <1>1, <1>4
  <2> HIDE DEF rest
  <2>2. \A i \in 1 .. n - h + 1 : Alive'[i] = Append(rest, e)[i]
    BY <1>6, <1>7, <2>1
  <2> QED
    BY <1>3, <1>6, <1>7, <2>2, SeqEqual
<1>9. Abstract!DropsTo(d, e.ts - Duration)
  <2>1. \A i \in 1 .. d : i \in 1 .. m /\ head + i \in head + 1 .. h
    BY <1>1, <1>4
  <2>2. d < m => d + 1 \in 1 .. m /\ head + (d + 1) = h + 1 /\ h < n
    BY <1>1, <1>4
  <2>3. \A i \in 1 .. d : Alive[i].ts < e.ts - Duration
    BY <1>1, <2>1 DEF EvictsTo
  <2>4. d < m => Alive[d + 1].ts >= e.ts - Duration
    BY <1>1, <2>2 DEF EvictsTo, n
  <2> QED
    BY <2>3, <2>4 DEF Abstract!DropsTo, Alive, m
<1> QED
  BY <1>4, <1>8, <1>9 DEF m

(* The window of the rules is what the code keeps: every step of Window is *)
(* a step of SlidingWindow or leaves it as it is (window.go:39-90).        *)
THEOREM SpecImplementsWindow == Spec => ImplementsWindow
<1>1. Init => Abstract!SInit
  <2> SUFFICES ASSUME Init PROVE Abstract!SInit
    OBVIOUS
  <2>1. events = << >> /\ head = 0 /\ report = [attempts |-> 0, failures |-> 0, uids |-> 0]
    BY DEF Init
  <2>2. SubSeq(events, head + 1, Len(events)) = << >>
    <3>1. Len(events) = 0
      BY <2>1
    <3>2. Len(events) < head + 1 /\ head + 1 \in Int /\ Len(events) \in Int
      BY <2>1, <3>1
    <3> QED
      BY <3>2, SubSeqEmpty
  <2> QED
    BY <2>1, <2>2 DEF Abstract!SInit, Abstract!NoReport
<1>2. CInv /\ CInv' /\ [Next]_vars => [Abstract!SNext]_(Abstract!svars)
  <2> SUFFICES ASSUME CInv, CInv', [Next]_vars
               PROVE  [Abstract!SNext]_(Abstract!svars)
    OBVIOUS
  <2>1. SliceInv /\ SliceInv' /\ CountersExact'
    BY DEF CInv, IInv
  <2>2. CASE ProcessEvent
    <3>1. PICK s \in Stamps, u \in UIDs \cup {NoUID}, r \in Results :
            Process([ts |-> ClampTimestamp(s), uid |-> u, result |-> r])
      BY <2>2 DEF ProcessEvent
    <3> DEFINE e == [ts |-> ClampTimestamp(s), uid |-> u, result |-> r]
    <3>2. e \in Entry
      <4>1. e.ts \in Int
        BY ClampBounds, WindowAssumption DEF CInv, IInv, ClockInv, Stamps
      <4> QED
        BY <4>1 DEF Entry
    <3> HIDE DEF e
    <3>3. PICK h \in head .. Len(events) :
            /\ EvictsTo(h, e.ts - Duration)
            /\ events' = Append(Kept(h), e)
            /\ head' = IF Compacts(h) THEN 0 ELSE h
            /\ attempts' = attempts - (h - head) + 1
            /\ report' = [attempts |-> attempts', failures |-> failures',
                          uids |-> Cardinality(DOMAIN uidCounts')]
      BY <3>1 DEF Process, e
    <3> DEFINE d == h - head
               rest == SubSeq(Alive, d + 1, Len(Alive))
    <3>4. /\ d \in 0 .. Len(Alive)
          /\ Abstract!DropsTo(d, e.ts - Duration)
          /\ Alive' = Append(rest, e)
      BY <2>1, <3>2, <3>3, AliveStep
    <3>5. Alive' # << >> /\ Alive'[Len(Alive')] = e
      <4>1. rest \in Seq(Entry)
        <5>1. Alive \in Seq(Entry) /\ Len(Alive) \in Nat
          BY <2>1, AliveMeans DEF AliveIs
        <5>2. \A i \in d + 1 .. Len(Alive) : Alive[i] \in Entry
          BY <3>4, <5>1
        <5>3. d + 1 \in Int /\ Len(Alive) \in Int
          BY <3>4, <5>1
        <5> HIDE DEF d
        <5> QED
          BY <5>2, <5>3, SubSeqProperties
      <4> HIDE DEF rest
      <4>2. /\ Append(rest, e) # << >> /\ Len(Append(rest, e)) = Len(rest) + 1
            /\ Append(rest, e)[Len(rest) + 1] = e
        BY <3>2, <4>1, AppendProperties
      <4> QED
        BY <3>4, <4>2
    <3>6. report' = Abstract!Measure(Alive')
      <4>1. SliceInv' /\ CountersExact'
              => (Abstract!Measure(Alive) = [attempts |-> attempts, failures |-> failures,
                                             uids |-> Cardinality(DOMAIN uidCounts)])'
        BY MeasureMeans, PTL
      <4> QED
        BY <2>1, <3>3, <4>1
    <3>7. e \in Abstract!Entry
      BY <3>2 DEF Entry, Results, Abstract!Entry, Abstract!Results
    <3> HIDE DEF d
    <3>8. Abstract!SNext
      BY <3>4, <3>5, <3>6, <3>7 DEF Abstract!SNext, Alive
    <3> QED
      BY <3>8
  <2>3. CASE UNCHANGED wvars
    BY <2>3 DEF wvars, Abstract!svars
  <2>4. ProcessEvent \/ UNCHANGED wvars
    BY DEF Next, UpdateConfig, ClockMoves, vars
  <2> QED
    BY <2>2, <2>3, <2>4
<1> QED
  BY <1>1, <1>2, SpecCInv, PTL DEF Spec, ImplementsWindow, Abstract!SSpec

-----------------------------------------------------------------------------
(***************************************************************************)
(* The rules against the events received, for every duration, every set of *)
(* skews, every threshold and every set of UIDs.                           *)
(*                                                                         *)
(* The rules compare the counters.  CountersExact says what the counters   *)
(* count, LogInv which of the events received these are and why the others *)
(* went, and SpanBounded that those counted lie in the stretch of time     *)
(* AlertsEarned speaks of; a larger count trips a rule all the more.       *)
(***************************************************************************)

(* The slice is the end of the log; whatever is dead or gone is older, by  *)
(* more than Duration, than some event that came after it.                 *)
LogInv ==
  /\ log \in Seq(Entry)
  /\ Len(events) <= Len(log)
  /\ log # << >> => events # << >>
  /\ \A i \in 1 .. Len(events) :
       events[i] = log[Len(log) - Len(events) + i]
  /\ \A k \in 1 .. Len(log) - attempts :
       \E j \in 1 .. Len(log) : log[k].ts < log[j].ts - Duration

LEMMA LogStep ==
  ASSUME SliceInv, LogInv, ProcessEvent, ClockInv,
         log' = Append(log, events'[Len(events')])
  PROVE  LogInv'
<1>1. PICK s \in Stamps, u \in UIDs \cup {NoUID}, r \in Results :
        Process([ts |-> ClampTimestamp(s), uid |-> u, result |-> r])
  BY DEF ProcessEvent
<1> DEFINE e == [ts |-> ClampTimestamp(s), uid |-> u, result |-> r]
<1>2. e \in Entry
  <2>1. e.ts \in Int
    BY ClampBounds, WindowAssumption DEF ClockInv, Stamps
  <2> QED
    BY <2>1 DEF Entry
<1> HIDE DEF e
<1>3. PICK h \in head .. Len(events) :
        /\ EvictsTo(h, e.ts - Duration)
        /\ events' = Append(Kept(h), e)
        /\ head' = IF Compacts(h) THEN 0 ELSE h
        /\ attempts' = attempts - (h - head) + 1
  BY <1>1 DEF Process, e
<1> DEFINE d == Dropped(h)
           m == Len(events)
           n == Len(log)
<1>4. /\ m \in Nat /\ head \in Nat /\ h \in Nat /\ head <= h /\ h <= m
      /\ attempts = m - head /\ n \in Nat /\ m <= n
  BY LenProperties DEF SliceInv, LogInv
<1>5. /\ Len(events') = m - d + 1
      /\ events'[Len(events')] = e
      /\ \A i \in 1 .. Len(events') - 1 : events'[i] = events[i + d]
  BY <1>2, <1>3, ProcessSlice
<1>6. d \in 0 .. h /\ d \in Nat
  BY <1>4 DEF Dropped
<1>7. log' = Append(log, e)
  BY <1>5
<1>8. /\ log' \in Seq(Entry) /\ Len(log') = n + 1
      /\ \A k \in 1 .. n : log'[k] = log[k]
      /\ log'[n + 1] = e
  BY <1>2, <1>7 DEF LogInv
<1>9. events' # << >>
  <2>1. Len(events') # 0
    BY <1>4, <1>5, <1>6
  <2> QED
    BY <2>1, EmptySeq
<1>10. Len(events') <= Len(log')
  BY <1>4, <1>5, <1>6, <1>8
<1>11. ASSUME NEW i \in 1 .. Len(events')
       PROVE  events'[i] = log'[Len(log') - Len(events') + i]
  <2>1. CASE i = Len(events')
    <3>1. Len(log') - Len(events') + i = n + 1
      BY <1>4, <1>5, <1>6, <1>8, <2>1
    <3> QED
      BY <1>5, <1>8, <2>1, <3>1
  <2>2. CASE i # Len(events')
    <3>0. Len(events') = m - d + 1 /\ Len(log') = n + 1
      BY <1>5, <1>8
    <3>1. /\ i \in 1 .. Len(events') - 1 /\ i + d \in 1 .. m
          /\ n - m + (i + d) \in 1 .. n
          /\ Len(log') - Len(events') + i = n - m + (i + d)
      <4> HIDE DEF d, m, n
      <4> QED
        BY <1>4, <1>6, <2>2, <3>0
    <3>2. events[i + d] = log[n - m + (i + d)]
      BY <3>1 DEF LogInv
    <3> QED
      BY <1>5, <1>8, <3>1, <3>2
  <2> QED
    BY <2>1, <2>2
<1>12. ASSUME NEW k \in 1 .. Len(log') - attempts'
       PROVE  \E j \in 1 .. Len(log') : log'[k].ts < log'[j].ts - Duration
  <2>1. k \in 1 .. n - m + h /\ k \in 1 .. n
    BY <1>3, <1>4, <1>8
  <2>2. CASE k <= n - attempts
    <3>1. PICK j \in 1 .. n : log[k].ts < log[j].ts - Duration
      BY <1>4, <2>1, <2>2 DEF LogInv
    <3>2. j \in 1 .. Len(log') /\ log'[k] = log[k] /\ log'[j] = log[j]
      BY <1>4, <1>8, <2>1
    <3> QED
      BY <3>1, <3>2
  <2>3. CASE ~(k <= n - attempts)
    <3> DEFINE i == k - (n - m)
    <3>1. i \in head + 1 .. h /\ i \in 1 .. m /\ n - m + i = k
      BY <1>4, <2>1, <2>3
    <3>2. events[i].ts < e.ts - Duration
      BY <1>3, <3>1 DEF EvictsTo
    <3>3. events[i] = log[k]
      BY <3>1 DEF LogInv
    <3>4. n + 1 \in 1 .. Len(log') /\ log'[n + 1] = e /\ log'[k] = log[k]
      BY <1>4, <1>8, <2>1
    <3> QED
      BY <3>2, <3>3, <3>4
  <2> QED
    BY <2>2, <2>3
<1> QED
  BY <1>8, <1>9, <1>10, <1>11, <1>12 DEF LogInv

(* A run of the rules is a run of the window, with the log beside it.      *)
LEMMA RulesRunWindow == RulesSpec => Spec
<1>1. RulesInit => Init
  BY DEF RulesInit
<1>2. [RulesNext]_<<vars, log>> => [Next]_vars
  BY DEF RulesNext, Next
<1> QED
  BY <1>1, <1>2, PTL DEF RulesSpec, Spec

LEMMA SpecLogInv == RulesSpec => []LogInv
<1>1. RulesInit => LogInv
  <2> SUFFICES ASSUME RulesInit PROVE LogInv
    OBVIOUS
  <2>1. /\ log = << >> /\ Len(log) = 0 /\ log \in Seq(Entry)
        /\ events = << >> /\ Len(events) = 0 /\ attempts = 0
    BY EmptySeq DEF RulesInit, Init
  <2> QED
    BY <2>1 DEF LogInv
<1>2. IInv /\ LogInv /\ [RulesNext]_<<vars, log>> => LogInv'
  <2> SUFFICES ASSUME IInv, LogInv, [RulesNext]_<<vars, log>> PROVE LogInv'
    OBVIOUS
  <2>1. CASE ProcessEvent /\ log' = Append(log, events'[Len(events')])
    BY <2>1, LogStep DEF IInv
  <2>2. CASE UNCHANGED <<wvars, log>>
    BY <2>2 DEF wvars, LogInv
  <2> QED
    BY <2>1, <2>2 DEF RulesNext, UpdateConfig, ClockMoves, vars
<1> QED
  BY <1>1, <1>2, RulesRunWindow, SpecIInv, PTL DEF RulesSpec

(* A fraction that exceeds a threshold still does with a larger numerator. *)
LEMMA ExceedsMonotone ==
  ASSUME NEW a \in Int, NEW b \in Int, NEW d \in Int, NEW t \in Fraction,
         a <= b, Exceeds(<<a, d>>, t)
  PROVE  Exceeds(<<b, d>>, t)
<1>1. t[1] \in Int /\ t[2] \in Nat /\ t[2] > 0
  BY DEF Fraction
<1>2. a * t[2] > t[1] * d
  BY DEF Exceeds
<1>3. a * t[2] <= b * t[2]
  BY <1>1
<1>4. a * t[2] \in Int /\ b * t[2] \in Int /\ t[1] * d \in Int
  BY <1>1
<1>5. b * t[2] > t[1] * d
  BY <1>2, <1>3, <1>4
<1> QED
  BY <1>5 DEF Exceeds

-----------------------------------------------------------------------------
(* What the rules find broken, one rule at a time.                         *)
LEMMA BrokenMeans ==
  /\ rules # {} => attempts # 0
  /\ "excessive_attempt_rate" \in rules => Exceeds(Aps, APSThreshold)
  /\ "failure_spike" \in rules =>
       Exceeds(Fr, FailureRatioThreshold) /\ attempts >= MinAttempts
  /\ "uid_spraying" \in rules =>
       Exceeds(Uds, UIDDiversityThreshold) /\ Elevated
  /\ "machine_timing" \in rules => Elevated
  /\ "attack_score" \in rules => Elevated
<1>1. \A rule \in rules : Trips(rule) /\ attempts # 0
  BY DEF rules
<1>2. Trips("excessive_attempt_rate") => Exceeds(Aps, APSThreshold)
  BY DEF Trips
<1>3. Trips("failure_spike") =>
        Exceeds(Fr, FailureRatioThreshold) /\ attempts >= MinAttempts
  BY DEF Trips
<1>4. Trips("uid_spraying") => Exceeds(Uds, UIDDiversityThreshold) /\ Elevated
  BY DEF Trips
<1>5. Trips("machine_timing") => Elevated
  BY DEF Trips
<1>6. Trips("attack_score") => Elevated
  BY DEF Trips
<1> QED
  BY <1>1, <1>2, <1>3, <1>4, <1>5, <1>6

(* What the window counts are events of the stretch, so the stretch has at *)
(* least as many events, failures and cards.                               *)
LEMMA StretchCounts ==
  ASSUME SliceInv, CountersExact, SpanBounded, LogInv, ChecksOn, log # << >>
  PROVE  LET failed == {k \in Stretch : log[k].result = "failure"}
             cards == {log[k].uid : k \in Stretch} \ {NoUID}
         IN  /\ attempts \in Nat /\ Cardinality(Stretch) \in Nat
             /\ attempts <= Cardinality(Stretch)
             /\ failures \in Nat /\ Cardinality(failed) \in Nat
             /\ failures <= Cardinality(failed)
             /\ Cardinality(DOMAIN uidCounts) \in Nat
             /\ Cardinality(cards) \in Nat
             /\ Cardinality(DOMAIN uidCounts) <= Cardinality(cards)
<1> DEFINE m == Len(events)
           n == Len(log)
           c == m - n
           At(S) == {i - c : i \in S}
           fails == {i \in Live : events[i].result = "failure"}
           failed == {k \in Stretch : log[k].result = "failure"}
           cards == {log[k].uid : k \in Stretch} \ {NoUID}
<1>1. /\ m \in Nat /\ head \in 0 .. m /\ attempts = m - head
      /\ n \in Nat /\ m <= n /\ c \in Int /\ events # << >> /\ m > 0
  BY LenProperties, EmptySeq DEF SliceInv, LogInv
<1>2. /\ Live \subseteq 1 .. m /\ Live \subseteq Int
      /\ DOMAIN events = 1 .. m /\ DOMAIN log = 1 .. n
  BY <1>1, LenProperties DEF Live, SliceInv, LogInv
<1>3. \A i \in 1 .. m : i - c \in 1 .. n /\ events[i] = log[i - c]
  <2> TAKE i \in 1 .. m
  <2>1. i - c = n - m + i /\ i - c \in 1 .. n
    BY <1>1
  <2> QED
    BY <2>1 DEF LogInv
<1>4. events[m] = log[n]
  <2>1. m \in 1 .. m /\ m - c = n
    BY <1>1
  <2> QED
    BY <1>3, <2>1
<1>5. \A i \in Live : i - c \in Stretch /\ events[i] = log[i - c]
  <2> TAKE i \in Live
  <2>1. i \in 1 .. m /\ i - c \in DOMAIN log /\ events[i] = log[i - c]
    BY <1>2, <1>3
  <2>2. /\ events[i].ts >= events[m].ts - Duration - Slack
        /\ events[i].ts <= events[m].ts + Slack
    BY <1>1 DEF SpanBounded
  <2> QED
    BY <1>4, <2>1, <2>2 DEF Stretch
<1>6. Stretch \subseteq 1 .. n /\ failed \subseteq 1 .. n
  BY <1>2 DEF Stretch
<1>7. /\ IsFiniteSet(Stretch) /\ Cardinality(Stretch) \in Nat
      /\ IsFiniteSet(failed) /\ Cardinality(failed) \in Nat
  <2>1. 1 \in Int /\ n \in Int
    BY <1>1
  <2> HIDE DEF n, failed
  <2> QED
    BY <1>6, <2>1, PositionsFinite
<1>8. IsFiniteSet(Live) /\ Cardinality(Live) = attempts
  <2>1. head + 1 \in Int /\ m \in Int
    BY <1>1
  <2>2. /\ IsFiniteSet(head + 1 .. m)
        /\ Cardinality(head + 1 .. m)
             = IF head + 1 > m THEN 0 ELSE m - (head + 1) + 1
    <3> HIDE DEF m
    <3> QED
      BY <2>1, FS_Interval
  <2>3. (IF head + 1 > m THEN 0 ELSE m - (head + 1) + 1) = attempts
    BY <1>1
  <2> QED
    BY <2>2, <2>3 DEF Live
<1>9. attempts <= Cardinality(Stretch)
  <2>1. Cardinality(At(Live)) = attempts
    <3> HIDE DEF c
    <3> QED
      BY <1>1, <1>2, <1>8, ShiftCardinality
  <2>2. At(Live) \subseteq Stretch
    <3> HIDE DEF c
    <3> QED
      BY <1>5
  <2> HIDE DEF At
  <2> QED
    BY <1>7, <2>1, <2>2, FS_Subset
<1>10. Cardinality(fails) \in Nat /\ Cardinality(fails) <= Cardinality(failed)
  <2>1. fails \subseteq Live /\ fails \subseteq Int
    BY <1>2
  <2>2. IsFiniteSet(fails)
    BY <1>8, <2>1, FS_Subset
  <2>3. Cardinality(fails) \in Nat
    BY <2>2, FS_CardinalityType
  <2>4. Cardinality(At(fails)) = Cardinality(fails)
    <3> HIDE DEF c, fails
    <3> QED
      BY <1>1, <2>1, <2>2, ShiftCardinality
  <2>5. At(fails) \subseteq failed
    <3> HIDE DEF c
    <3> QED
      BY <1>5
  <2> HIDE DEF At, fails, failed
  <2> QED
    BY <1>7, <2>3, <2>4, <2>5, FS_Subset
<1>11. /\ Cardinality(cards) \in Nat /\ Cardinality(DOMAIN uidCounts) \in Nat
       /\ Cardinality(DOMAIN uidCounts) <= Cardinality(cards)
  <2>1. IsFiniteSet({log[k].uid : k \in Stretch})
    <3> DEFINE Uids == {log[k].uid : k \in Stretch}
               f == [k \in Stretch |-> log[k].uid]
    <3>1. f \in Surjection(Stretch, Uids)
      BY DEF Surjection
    <3> HIDE DEF f, Uids
    <3>2. IsFiniteSet(Uids)
      BY <1>7, <3>1, FS_Surjection
    <3> QED
      BY <3>2 DEF Uids
  <2>2. DOMAIN uidCounts \subseteq cards
    <3>1. DOMAIN uidCounts = {events[i].uid : i \in Live} \ {NoUID}
      BY DEF CountersExact
    <3> HIDE DEF c
    <3> QED
      BY <1>5, <3>1
  <2>3. IsFiniteSet(cards)
    BY <2>1, FS_Subset
  <2> HIDE DEF cards
  <2> QED
    BY <2>2, <2>3, FS_Subset, FS_CardinalityType
<1>12. failures = Cardinality(fails)
  BY DEF CountersExact
<1> HIDE DEF fails, failed, cards
<1>13. /\ attempts \in Nat /\ Cardinality(Stretch) \in Nat
       /\ attempts <= Cardinality(Stretch)
       /\ failures \in Nat /\ Cardinality(failed) \in Nat
       /\ failures <= Cardinality(failed)
       /\ Cardinality(DOMAIN uidCounts) \in Nat
       /\ Cardinality(cards) \in Nat
       /\ Cardinality(DOMAIN uidCounts) <= Cardinality(cards)
  BY <1>1, <1>7, <1>9, <1>10, <1>11, <1>12
<1> QED
  BY <1>13 DEF failed, cards

-----------------------------------------------------------------------------
(* Whatever the thresholds, the skews and the duration are, a rule that    *)
(* trips is earned by events received in the stretch of time around its    *)
(* window, reloads of the skews included.                                  *)
THEOREM SpecAlertsEarned == RulesSpec => []AlertsEarned
<1>1. IInv /\ CountersExact /\ SpanBounded /\ LogInv => AlertsEarned
  <2> SUFFICES ASSUME IInv, CountersExact, SpanBounded, LogInv,
                      ChecksOn, log # << >>
               PROVE  AlertsEarned
    BY DEF AlertsEarned
  <2> DEFINE n == Cardinality(Stretch)
             failed == Cardinality({k \in Stretch : log[k].result = "failure"})
             cards == Cardinality({log[k].uid : k \in Stretch} \ {NoUID})
  <2>1. /\ attempts \in Int /\ n \in Int /\ attempts <= n
        /\ failures \in Int /\ failed \in Int /\ failures <= failed
        /\ Cardinality(DOMAIN uidCounts) \in Int /\ cards \in Int
        /\ Cardinality(DOMAIN uidCounts) <= cards
    BY StretchCounts DEF IInv
  <2>2. /\ Duration \in Int /\ MinAttempts \in Int
        /\ APSThreshold \in Fraction /\ APSElevatedThreshold \in Fraction
        /\ FailureRatioThreshold \in Fraction
        /\ UIDDiversityThreshold \in Fraction
    BY WindowAssumption, RulesAssumption
  <2> HIDE DEF n, failed, cards
  <2>3. "excessive_attempt_rate" \in rules
          => Exceeds(<<n, Duration>>, APSThreshold)
    BY <2>1, <2>2, BrokenMeans, ExceedsMonotone DEF Aps
  <2>4. Elevated => Exceeds(<<n, Duration>>, APSElevatedThreshold)
    BY <2>1, <2>2, ExceedsMonotone DEF Elevated, Aps
  <2>5. rules \cap {"uid_spraying", "machine_timing", "attack_score"} # {}
          => Exceeds(<<n, Duration>>, APSElevatedThreshold)
    BY <2>4, BrokenMeans
  <2>6. "failure_spike" \in rules =>
          /\ n >= MinAttempts
          /\ Exceeds(<<failed, attempts>>, FailureRatioThreshold)
    <3>1. "failure_spike" \in rules => n >= MinAttempts
      BY <2>1, <2>2, BrokenMeans
    <3>2. "failure_spike" \in rules
            => Exceeds(<<failed, attempts>>, FailureRatioThreshold)
      BY <2>1, <2>2, BrokenMeans, ExceedsMonotone DEF Fr
    <3> QED
      BY <3>1, <3>2
  <2>7. "uid_spraying" \in rules
          => Exceeds(<<cards, attempts>>, UIDDiversityThreshold)
    BY <2>1, <2>2, BrokenMeans, ExceedsMonotone DEF Uds
  <2> QED
    BY <2>3, <2>5, <2>6, <2>7 DEF AlertsEarned, n, failed, cards
<1> QED
  BY <1>1, SpecIInv, SpecCountersExact, SpecSpanBounded, SpecLogInv,
     RulesRunWindow, PTL

(* Whatever the thresholds, the skews and the duration are, and in         *)
(* whatever order they arrive: when the events received within Duration of *)
(* the latest timestamp seen come too fast, the rate rule is broken.       *)
THEOREM SpecFloodNoticed == RulesSpec => []FloodNoticed
<1>1. IInv /\ LogInv => FloodNoticed
  <2> SUFFICES ASSUME IInv, LogInv, NEW m \in DOMAIN log,
                      \A k \in DOMAIN log : log[k].ts <= log[m].ts,
                      Exceeds(<<Cardinality({k \in DOMAIN log :
                                  log[k].ts >= log[m].ts - Duration}),
                                Duration>>, APSThreshold)
               PROVE  "excessive_attempt_rate" \in rules
    BY DEF FloodNoticed
  <2> DEFINE n == Len(log)
             gone == n - attempts
             recent == {k \in DOMAIN log : log[k].ts >= log[m].ts - Duration}
  <2>1. /\ n \in Nat /\ attempts \in Nat /\ attempts <= n /\ gone \in Nat
        /\ Duration \in Nat /\ APSThreshold \in Fraction
    BY LenProperties, WindowAssumption, RulesAssumption
       DEF IInv, SliceInv, LogInv
  <2>2. /\ DOMAIN log = 1 .. n
        /\ \A k \in 1 .. n : log[k].ts \in Int
    <3>1. log \in Seq(Entry) /\ DOMAIN log = 1 .. n
      BY LenProperties DEF LogInv
    <3>2. \A k \in 1 .. n : log[k] \in Entry
      BY <3>1, ElementOfSeq
    <3> QED
      BY <3>1, <3>2 DEF Entry
  <2>3. ASSUME NEW k \in recent PROVE k \in gone + 1 .. n
    <3>1. k \in 1 .. n /\ log[k].ts >= log[m].ts - Duration
      BY <2>2
    <3>2. CASE k <= gone
      <4>1. PICK j \in 1 .. n : log[k].ts < log[j].ts - Duration
        BY <2>1, <3>1, <3>2 DEF LogInv
      <4>2. /\ log[k].ts \in Int /\ log[j].ts \in Int /\ log[m].ts \in Int
            /\ log[j].ts <= log[m].ts
        BY <2>2, <3>1
      <4> QED
        BY <2>1, <3>1, <4>1, <4>2
    <3> QED
      BY <2>1, <3>1, <3>2
  <2>4. Cardinality(gone + 1 .. n) = attempts /\ IsFiniteSet(gone + 1 .. n)
    <3>1. gone + 1 \in Int /\ n \in Int
      BY <2>1
    <3>2. (IF gone + 1 > n THEN 0 ELSE n - (gone + 1) + 1) = attempts
      BY <2>1
    <3> HIDE DEF gone, n
    <3> QED
      BY <3>1, <3>2, FS_Interval
  <2>5. Cardinality(recent) \in Nat /\ Cardinality(recent) <= attempts
    <3>1. recent \subseteq gone + 1 .. n
      BY <2>3
    <3> HIDE DEF recent, gone, n
    <3> QED
      BY <2>4, <3>1, FS_Subset, FS_CardinalityType
  <2>6. m \in recent
    BY <2>1, <2>2
  <2>7. attempts # 0
    BY <2>1, <2>3, <2>6
  <2>8. Exceeds(Aps, APSThreshold)
    <3> HIDE DEF recent
    <3>1. Exceeds(<<Cardinality(recent), Duration>>, APSThreshold)
      BY DEF recent
    <3> QED
      BY <2>1, <2>5, <3>1, ExceedsMonotone DEF Aps
  <2> QED
    BY <2>7, <2>8 DEF rules, RuleNames, Trips
<1> QED
  BY <1>1, SpecIInv, SpecLogInv, RulesRunWindow, PTL

-----------------------------------------------------------------------------
(***************************************************************************)
(* The deviation varianceDelta keeps is the variance of the gaps.  After   *)
(* the n-th gap the mean times n is their sum, and m2 times n is n times   *)
(* the sum of their squares less the square of their sum (SumsAt); a step  *)
(* of the loop preserves both (MovedSums).  The library's induction takes  *)
(* a formula for its parameter; UpToN takes a set, and a least n outside.  *)
(***************************************************************************)
(* Induction over the numbers up to N, for a set in place of a formula.    *)
LEMMA UpToN ==
  ASSUME NEW N \in Nat, NEW S, 0 \in S, \A n \in 1 .. N : n - 1 \in S => n \in S
  PROVE  \A n \in 0 .. N : n \in S
<1> DEFINE Missed == (0 .. N) \ S
<1> SUFFICES ASSUME Missed # {} PROVE FALSE
  OBVIOUS
<1>1. Missed \in SUBSET Nat
  OBVIOUS
<1>2. PICK m \in Missed : \A k \in Missed : ~(<<k, m>> \in OpToRel(<, Nat))
  <2> HIDE DEF Missed
  <2> QED
    BY <1>1, NatLessThanWellFounded, WFMin, Zenon
<1>3. \A k \in Missed : ~(k < m)
  BY <1>1, <1>2 DEF OpToRel
<1>4. m \in 1 .. N /\ m - 1 \in 0 .. N /\ m - 1 < m
  <2>1. m \in 0 .. N /\ m # 0
    BY <1>2
  <2> QED
    BY <2>1
<1>5. m - 1 \in S
  BY <1>3, <1>4
<1> QED
  BY <1>2, <1>4, <1>5

(* Values given one after the other, each from the one before.             *)
Steps(V, N) == [V \X (1 .. N) -> V]
Iterated(f, V, b, N, G) == /\ f \in [0 .. N -> V] /\ f[0] = b
                           /\ \A n \in 1 .. N : f[n] = G[<<f[n - 1], n>>]

LEMMA Iterates ==
  ASSUME NEW V, NEW b \in V, NEW N \in Nat, NEW G \in Steps(V, N)
  PROVE  \E f : Iterated(f, V, b, N, G)
<1> USE DEF Steps
<1> DEFINE Upto(f, m) == /\ f \in [0 .. m -> V] /\ f[0] = b
                         /\ \A n \in 1 .. m : f[n] = G[<<f[n - 1], n>>]
           Reached == {m \in 0 .. N : \E f : Upto(f, m)}
<1>1. 0 \in Reached
  <2> DEFINE f == [n \in 0 .. 0 |-> b]
  <2>1. Upto(f, 0)
    OBVIOUS
  <2> HIDE DEF Upto
  <2> QED
    BY <2>1
<1>2. ASSUME NEW m \in 1 .. N, m - 1 \in Reached PROVE m \in Reached
  <2>2. PICK f : Upto(f, m - 1)
    BY <1>2
  <2> DEFINE g == [n \in 0 .. m |-> IF n = m THEN G[<<f[m - 1], m>>] ELSE f[n]]
  <2>3. /\ f \in [0 .. m - 1 -> V] /\ f[0] = b
        /\ \A n \in 1 .. m - 1 : f[n] = G[<<f[n - 1], n>>]
    BY <2>2
  <2>4. f[m - 1] \in V /\ m \in 1 .. N /\ G[<<f[m - 1], m>>] \in V
    BY <2>3
  <2>5. /\ g[m] = G[<<f[m - 1], m>>]
        /\ \A n \in 0 .. m - 1 : n # m /\ n \in 0 .. m /\ g[n] = f[n]
    OBVIOUS
  <2>6. g \in [0 .. m -> V]
    <3>1. \A n \in 0 .. m : n = m \/ n \in 0 .. m - 1
      OBVIOUS
    <3> QED
      BY <2>3, <2>4, <2>5, <3>1
  <2>7. g[0] = b
    BY <2>3, <2>5
  <2>8. ASSUME NEW n \in 1 .. m PROVE g[n] = G[<<g[n - 1], n>>]
    <3> HIDE DEF g
    <3>1. n - 1 \in 0 .. m - 1 /\ (n = m \/ n \in 1 .. m - 1)
      OBVIOUS
    <3>2. CASE n = m
      BY <2>5, <3>1, <3>2
    <3>3. CASE n \in 1 .. m - 1
      BY <2>3, <2>5, <3>1, <3>3
    <3> QED
      BY <3>1, <3>2, <3>3
  <2> HIDE DEF g
  <2>9. Upto(g, m)
    BY <2>6, <2>7, <2>8
  <2> QED
    BY <2>9
<1> HIDE DEF Upto
<1>3. N \in Reached
  <2> HIDE DEF Reached
  <2> QED
    BY <1>1, <1>2, UpToN
<1> QED
  BY <1>3 DEF Upto, Iterated

LEMMA TotalSteps ==
  ASSUME NEW s \in Seq(Int)
  PROVE  \E sum \in [0 .. Len(s) -> Int] :
           /\ sum[0] = 0 /\ Total(s) = sum[Len(s)]
           /\ \A n \in 1 .. Len(s) : sum[n] = sum[n - 1] + s[n]
<1> DEFINE N == Len(s)
           G == [t \in Int \X (1 .. N) |-> t[1] + s[t[2]]]
           Is(f) == f = [n \in 0 .. N |-> IF n = 0 THEN 0 ELSE f[n - 1] + s[n]]
           sum == CHOOSE f : Is(f)
<1>1. N \in Nat /\ \A n \in 1 .. N : s[n] \in Int
  OBVIOUS
<1>2. G \in Steps(Int, N)
  BY <1>1 DEF Steps
<1>3. \A x \in Int, n \in 1 .. N : G[<<x, n>>] = x + s[n]
  OBVIOUS
<1>4. PICK f : Iterated(f, Int, 0, N, G)
  <2>1. 0 \in Int /\ N \in Nat
    BY <1>1
  <2> HIDE DEF N, G
  <2> QED
    BY <1>2, <2>1, Iterates, Zenon
<1>5. Is(f)
  <2> HIDE DEF N, G
  <2>0. /\ f \in [0 .. N -> Int] /\ f[0] = 0
        /\ \A n \in 1 .. N : f[n] = G[<<f[n - 1], n>>]
    BY <1>4 DEF Iterated
  <2>1. ASSUME NEW n \in 0 .. N
        PROVE  f[n] = IF n = 0 THEN 0 ELSE f[n - 1] + s[n]
    <3>1. CASE n = 0
      BY <2>0, <3>1
    <3>2. CASE n # 0
      <4>1. n \in 1 .. N /\ n - 1 \in 0 .. N
        BY <1>1, <3>2
      <4> QED
        BY <1>3, <2>0, <3>2, <4>1
    <3> QED
      BY <3>1, <3>2
  <2> QED
    BY <2>0, <2>1
<1>6. Is(sum)
  <2> HIDE DEF Is
  <2> QED
    BY <1>5
<1>7. Total(s) = sum[N]
  BY DEF Total
<1> HIDE DEF sum, N, G
<1>8. /\ DOMAIN sum = 0 .. N /\ sum[0] = 0
      /\ \A n \in 1 .. N : sum[n] = sum[n - 1] + s[n]
  BY <1>1, <1>6
<1>9. sum \in [0 .. N -> Int]
  <2> DEFINE S == {n \in 0 .. N : sum[n] \in Int}
  <2>1. 0 \in S
    BY <1>1, <1>8
  <2>2. ASSUME NEW n \in 1 .. N, n - 1 \in S PROVE n \in S
    <3>1. n \in 0 .. N /\ sum[n - 1] \in Int /\ s[n] \in Int
      BY <1>1, <2>2
    <3>2. sum[n] = sum[n - 1] + s[n]
      BY <1>8
    <3> HIDE DEF sum
    <3> QED
      BY <3>1, <3>2
  <2> HIDE DEF S
  <2>3. \A n \in 0 .. N : n \in S
    BY <1>1, <2>1, <2>2, UpToN
  <2>4. \A n \in 0 .. N : sum[n] \in Int
    BY <2>3 DEF S
  <2>5. sum = [n \in 0 .. N |-> sum[n]]
    BY <1>6
  <2> QED
    BY <2>4, <2>5
<1> QED
  BY <1>7, <1>8, <1>9 DEF N

(* The loop of varianceDelta.                                              *)
Moments == [mean : Fraction, m2 : Fraction]

LEMMA TimesPositive ==
  ASSUME NEW x \in Nat \ {0}, NEW y \in Nat \ {0}
  PROVE  x * y \in Nat \ {0}
OBVIOUS

LEMMA FractionTypes ==
  ASSUME NEW a \in Fraction, NEW b \in Fraction, NEW n \in Nat \ {0}, NEW k \in Int
  PROVE  /\ Plus(a, b) \in Fraction /\ Minus(a, b) \in Fraction
         /\ Times(a, b) \in Fraction /\ Over(a, n) \in Fraction
         /\ <<k, 1>> \in Fraction
<1>1. PICK p \in Int, q \in Nat \ {0} : a = <<p, q>>
  BY DEF Fraction
<1>2. PICK u \in Int, v \in Nat \ {0} : b = <<u, v>>
  BY DEF Fraction
<1>3. q * v \in Nat \ {0} /\ q * n \in Nat \ {0}
  BY TimesPositive
<1>4. p * v + u * q \in Int /\ p * v - u * q \in Int /\ p * u \in Int
  OBVIOUS
<1> QED
  BY <1>1, <1>2, <1>3, <1>4 DEF Fraction, Plus, Minus, Times, Over

LEMMA MovedType ==
  ASSUME NEW acc \in Moments, NEW n \in Nat \ {0}, NEW delta \in Int
  PROVE  Moved(acc, n, delta) \in Moments
<1> DEFINE d == <<delta, 1>>
           diff == Minus(d, acc.mean)
           mean == Plus(acc.mean, Over(diff, n))
           m2 == Plus(acc.m2, Times(diff, Minus(d, mean)))
<1>1. acc.mean \in Fraction /\ acc.m2 \in Fraction /\ d \in Fraction
  BY FractionTypes DEF Moments, Fraction
<1> HIDE DEF d
<1>2. diff \in Fraction
  BY <1>1, FractionTypes
<1> HIDE DEF diff
<1>3. mean \in Fraction
  BY <1>1, <1>2, FractionTypes
<1> HIDE DEF mean
<1>4. m2 \in Fraction
  <2>1. Minus(d, mean) \in Fraction
    BY <1>1, <1>3, FractionTypes
  <2>2. Times(diff, Minus(d, mean)) \in Fraction
    BY <1>2, <2>1, FractionTypes
  <2> QED
    BY <1>1, <2>2, FractionTypes
<1>5. Moved(acc, n, delta) = [mean |-> mean, m2 |-> m2]
  BY DEF Moved, mean, diff, d
<1> HIDE DEF m2
<1> QED
  BY <1>3, <1>4, <1>5 DEF Moments

LEMMA RunningSteps ==
  ASSUME NEW gaps \in Seq(Int)
  PROVE  LET after == Running(gaps)
         IN  /\ after \in [0 .. Len(gaps) -> Moments]
             /\ after[0] = [mean |-> Zero, m2 |-> Zero]
             /\ \A n \in 1 .. Len(gaps) : after[n] = Moved(after[n - 1], n, gaps[n])
<1> DEFINE N == Len(gaps)
           b == [mean |-> Zero, m2 |-> Zero]
           G == [t \in Moments \X (1 .. N) |-> Moved(t[1], t[2], gaps[t[2]])]
           Is(f) == f = [n \in 0 .. N |-> IF n = 0 THEN b
                                          ELSE Moved(f[n - 1], n, gaps[n])]
           after == CHOOSE f : Is(f)
<1>1. N \in Nat /\ \A n \in 1 .. N : gaps[n] \in Int /\ n \in Nat \ {0}
  OBVIOUS
<1>0. b \in Moments
  BY DEF Moments, Fraction, Zero
<1>2. G \in Steps(Moments, N)
  BY <1>1, MovedType DEF Steps
<1>3. \A x \in Moments, n \in 1 .. N : G[<<x, n>>] = Moved(x, n, gaps[n])
  OBVIOUS
<1>4. PICK f : Iterated(f, Moments, b, N, G)
  <2>1. N \in Nat
    BY <1>1
  <2> HIDE DEF N, G, b
  <2> QED
    BY <1>0, <1>2, <2>1, Iterates, Zenon
<1>5. Is(f)
  <2> HIDE DEF N, G, b
  <2>0. /\ f \in [0 .. N -> Moments] /\ f[0] = b
        /\ \A n \in 1 .. N : f[n] = G[<<f[n - 1], n>>]
    BY <1>4 DEF Iterated
  <2>1. ASSUME NEW n \in 0 .. N
        PROVE  f[n] = IF n = 0 THEN b ELSE Moved(f[n - 1], n, gaps[n])
    <3>1. CASE n = 0
      BY <2>0, <3>1
    <3>2. CASE n # 0
      <4>1. n \in 1 .. N /\ n - 1 \in 0 .. N
        BY <1>1, <3>2
      <4> QED
        BY <1>3, <2>0, <3>2, <4>1
    <3> QED
      BY <3>1, <3>2
  <2> QED
    BY <2>0, <2>1
<1>6. Is(after)
  <2> HIDE DEF Is
  <2> QED
    BY <1>5
<1>7. Running(gaps) = after
  BY DEF Running
<1> HIDE DEF after, N, G, b
<1>8. /\ DOMAIN after = 0 .. N /\ after[0] = b
      /\ \A n \in 1 .. N : after[n] = Moved(after[n - 1], n, gaps[n])
  BY <1>1, <1>6
<1>9. after \in [0 .. N -> Moments]
  <2> DEFINE S == {n \in 0 .. N : after[n] \in Moments}
  <2>1. 0 \in S
    BY <1>0, <1>1, <1>8
  <2>2. ASSUME NEW n \in 1 .. N, n - 1 \in S PROVE n \in S
    <3>1. n \in 0 .. N /\ after[n - 1] \in Moments /\ gaps[n] \in Int
          /\ n \in Nat \ {0}
      BY <1>1, <2>2
    <3>2. after[n] = Moved(after[n - 1], n, gaps[n])
      BY <1>8
    <3>3. after[n] \in Moments
      BY <3>1, <3>2, MovedType
    <3> QED
      BY <3>1, <3>3
  <2> HIDE DEF S
  <2>3. \A n \in 0 .. N : n \in S
    BY <1>1, <2>1, <2>2, UpToN
  <2>4. \A n \in 0 .. N : after[n] \in Moments
    BY <2>3 DEF S
  <2>5. after = [n \in 0 .. N |-> after[n]]
    BY <1>6
  <2> QED
    BY <2>4, <2>5
<1> QED
  BY <1>7, <1>8, <1>9 DEF N, b

(* The sums a step of the loop rests on.                                   *)
LEMMA Cancelled ==
  ASSUME NEW x \in Int, NEW y \in Int, NEW z \in Int, z > 0, z * x = z * y
  PROVE  x = y
OBVIOUS

LEMMA MeanStep ==
  ASSUME NEW p \in Int, NEW q \in Int, NEW S \in Int, NEW k \in Int, NEW d \in Int,
         p * (k - 1) = S * q
  PROVE  p * (q * k) + (d * q - p) * q = q * q * (S + d)
<1>1. p * (q * k) + (d * q - p) * q = q * (p * (k - 1)) + d * q * q
  OBVIOUS
<1>2. q * (S * q) + d * q * q = q * q * (S + d)
  OBVIOUS
<1> QED
  BY <1>1, <1>2

LEMMA DeviationStep ==
  ASSUME NEW p \in Int, NEW q \in Int, NEW u \in Int, NEW v \in Int,
         NEW S \in Int, NEW Q \in Int, NEW k \in Int, NEW d \in Int,
         k > 1, p * (k - 1) = S * q, u * (k - 1) = ((k - 1) * Q - S * S) * v
  PROVE  u * q * k + (d * q - p) * (d * k - (S + d)) * v
           = (k * (Q + d * d) - (S + d) * (S + d)) * v * q
<1> DEFINE E == u * q * k + (d * q - p) * (d * k - (S + d)) * v
           F == (k * (Q + d * d) - (S + d) * (S + d)) * v * q
           pk == p * (k - 1)
           uk == u * (k - 1)
<1>1. (k - 1) * E = uk * q * k + (d * q * (k - 1) - pk) * (d * k - (S + d)) * v
  OBVIOUS
<1>2. ((k - 1) * Q - S * S) * v * q * k
        + (d * q * (k - 1) - S * q) * (d * k - (S + d)) * v = (k - 1) * F
  OBVIOUS
<1>3. pk = S * q /\ uk = ((k - 1) * Q - S * S) * v
  OBVIOUS
<1>4. E \in Int /\ F \in Int /\ k - 1 \in Int /\ k - 1 > 0
  OBVIOUS
<1> HIDE DEF E, F, pk, uk
<1>5. (k - 1) * E = (k - 1) * F
  BY <1>1, <1>2, <1>3
<1>6. E = F
  BY <1>4, <1>5, Cancelled
<1> QED
  BY <1>6 DEF E, F

(* A step of the loop, with the sums so far in S and Q.                    *)
SumsAt(acc, k, S, Q) ==
  IF k = 0 THEN acc = [mean |-> Zero, m2 |-> Zero] /\ S = 0 /\ Q = 0
  ELSE /\ acc.mean[1] * k = S * acc.mean[2]
       /\ acc.m2[1] * k = (k * Q - S * S) * acc.m2[2]

LEMMA MovedSums ==
  ASSUME NEW acc \in Moments, NEW k \in Nat \ {0}, NEW d \in Int,
         NEW S \in Int, NEW Q \in Int, SumsAt(acc, k - 1, S, Q)
  PROVE  SumsAt(Moved(acc, k, d), k, S + d, Q + d * d)
<1>1. PICK p \in Int, q \in Nat \ {0} : acc.mean = <<p, q>>
  BY DEF Moments, Fraction
<1>2. PICK u \in Int, v \in Nat \ {0} : acc.m2 = <<u, v>>
  BY DEF Moments, Fraction
<1> DEFINE c == q * q
           t == d * q - p
           F == k * (Q + d * d) - (S + d) * (S + d)
           M1 == p * (q * k) + t * q
           M2 == q * (q * k)
           N1 == u * (q * M2) + t * (d * M2 - M1) * v
           N2 == v * (q * M2)
<1>3. /\ M1 = c * (S + d)
      /\ u * q * k + t * (d * k - (S + d)) * v = F * v * q
  <2>1. CASE k = 1
    <3>1. p = 0 /\ q = 1 /\ u = 0 /\ v = 1 /\ S = 0 /\ Q = 0
      BY <1>1, <1>2, <2>1 DEF SumsAt, Zero
    <3> QED
      BY <2>1, <3>1
  <2>2. CASE k > 1
    <3>1. p * (k - 1) = S * q /\ u * (k - 1) = ((k - 1) * Q - S * S) * v
      BY <1>1, <1>2, <2>2 DEF SumsAt
    <3>2. p * (q * k) + (d * q - p) * q = q * q * (S + d)
      BY <3>1, MeanStep
    <3>3. u * q * k + (d * q - p) * (d * k - (S + d)) * v
            = (k * (Q + d * d) - (S + d) * (S + d)) * v * q
      BY <2>2, <3>1, DeviationStep
    <3> QED
      BY <3>2, <3>3
  <2> QED
    BY <2>1, <2>2
<1>4. M2 = c * k
  OBVIOUS
<1>5. Moved(acc, k, d) = [mean |-> <<M1, M2>>, m2 |-> <<N1, N2>>]
  <2>1. Minus(<<d, 1>>, acc.mean) = <<t, q>>
    BY <1>1 DEF Minus
  <2>2. Plus(acc.mean, Over(<<t, q>>, k)) = <<M1, M2>>
    BY <1>1 DEF Plus, Over
  <2>3. M1 \in Int /\ M2 \in Int /\ t \in Int
    OBVIOUS
  <2> HIDE DEF M1, M2, t
  <2>4. Minus(<<d, 1>>, <<M1, M2>>) = <<d * M2 - M1, M2>>
    BY <2>3 DEF Minus
  <2>5. Plus(acc.m2, Times(<<t, q>>, <<d * M2 - M1, M2>>)) = <<N1, N2>>
    BY <1>2, <2>3 DEF Plus, Times
  <2> QED
    BY <2>1, <2>2, <2>4, <2>5 DEF Moved
<1>6. c \in Int /\ t \in Int /\ F \in Int /\ M1 \in Int /\ M2 \in Int
  OBVIOUS
<1>7. M1 * k = (S + d) * M2
  <2> HIDE DEF M1, M2, c
  <2> QED
    BY <1>3, <1>4, <1>6
<1>8. N1 * k = F * N2
  <2>1. u * (q * (c * k)) + t * (d * (c * k) - c * (S + d)) * v
          = c * (u * q * k + t * (d * k - (S + d)) * v)
    <3> HIDE DEF c, t
    <3> QED
      BY <1>6
  <2> HIDE DEF M1, M2, c, t, F
  <2>2. N1 = c * (u * q * k + t * (d * k - (S + d)) * v)
    BY <1>3, <1>4, <2>1
  <2>3. N1 = c * (F * v * q) /\ N2 = v * (q * (c * k))
    BY <1>3, <1>4, <2>2
  <2>4. c * (F * v * q) * k = F * (v * (q * (c * k)))
    BY <1>6
  <2> QED
    BY <2>3, <2>4
<1> HIDE DEF M1, M2, N1, N2
<1> QED
  BY <1>5, <1>7, <1>8 DEF SumsAt

(* What the loop ends with, for any gaps.                                  *)
LEMMA RunningSums ==
  ASSUME NEW gaps \in Seq(Int)
  PROVE  LET N == Len(gaps)
         IN  SumsAt(Running(gaps)[N], N, Total(gaps),
                    Total([i \in 1 .. N |-> gaps[i] * gaps[i]]))
<1> DEFINE N == Len(gaps)
           sq == [i \in 1 .. N |-> gaps[i] * gaps[i]]
           after == Running(gaps)
<1>1. N \in Nat /\ \A n \in 1 .. N : gaps[n] \in Int
  OBVIOUS
<1>2. sq \in Seq(Int) /\ Len(sq) = N
  OBVIOUS
<1>3. \A n \in 1 .. N : sq[n] = gaps[n] * gaps[n]
  OBVIOUS
<1> HIDE DEF sq
<1>4. PICK S \in [0 .. N -> Int] :
        /\ S[0] = 0 /\ Total(gaps) = S[N]
        /\ \A n \in 1 .. N : S[n] = S[n - 1] + gaps[n]
  BY TotalSteps
<1>5. PICK Q \in [0 .. N -> Int] :
        /\ Q[0] = 0 /\ Total(sq) = Q[N]
        /\ \A n \in 1 .. N : Q[n] = Q[n - 1] + sq[n]
  BY <1>2, TotalSteps
<1>6. /\ after \in [0 .. N -> Moments]
      /\ after[0] = [mean |-> Zero, m2 |-> Zero]
      /\ \A n \in 1 .. N : after[n] = Moved(after[n - 1], n, gaps[n])
  BY RunningSteps
<1> HIDE DEF N, after
<1> DEFINE Holds == {n \in 0 .. N : SumsAt(after[n], n, S[n], Q[n])}
<1>7. 0 \in Holds
  BY <1>1, <1>4, <1>5, <1>6 DEF SumsAt
<1>8. ASSUME NEW n \in 1 .. N, n - 1 \in Holds PROVE n \in Holds
  <2>1. n \in Nat \ {0} /\ n \in 0 .. N /\ n - 1 \in 0 .. N
    BY <1>1
  <2>2. /\ after[n - 1] \in Moments /\ S[n - 1] \in Int /\ Q[n - 1] \in Int
        /\ gaps[n] \in Int /\ SumsAt(after[n - 1], n - 1, S[n - 1], Q[n - 1])
    BY <1>1, <1>4, <1>5, <1>6, <1>8, <2>1
  <2>3. SumsAt(Moved(after[n - 1], n, gaps[n]), n, S[n - 1] + gaps[n],
               Q[n - 1] + gaps[n] * gaps[n])
    BY <2>1, <2>2, MovedSums
  <2> QED
    BY <1>3, <1>4, <1>5, <1>6, <2>1, <2>3
<1> HIDE DEF Holds
<1>9. \A n \in 0 .. N : n \in Holds
  BY <1>1, <1>7, <1>8, UpToN
<1>10. SumsAt(after[N], N, S[N], Q[N])
  BY <1>1, <1>9 DEF Holds
<1> QED
  BY <1>4, <1>5, <1>10 DEF N, after, sq

(* The gaps varianceDelta measures are those between the entries counted.  *)
LEMMA TimingMeans == SliceInv => TimingExact
<1> SUFFICES ASSUME SliceInv, attempts - 1 > 0 PROVE TimingExact
  BY DEF TimingExact
<1> DEFINE n == attempts - 1
           last == Len(events)
           gap(i) == LET d == events[i].ts - events[i - 1].ts
                     IN  IF d < 0 THEN 0 ELSE d
           gaps == Gaps(events, head)
<1>1. /\ last \in Nat /\ head \in 0 .. last /\ attempts = last - head
      /\ n \in Nat \ {0} /\ n = last - head - 1
  BY LenProperties DEF SliceInv
<1>2. \A i \in 1 .. last : events[i].ts \in Int
  BY EntryTypes DEF SliceInv, Entry
<1>3. gaps = [i \in 1 .. n |-> gap(last - n + i)]
  <2> DEFINE step(i) == LET d == events[head + i + 1].ts - events[head + i].ts
                        IN  IF d < 0 THEN 0 ELSE d
  <2>1. ASSUME NEW i \in 1 .. n PROVE gap(last - n + i) = step(i)
    <3>1. last - n + i = head + i + 1 /\ (head + i + 1) - 1 = head + i
      BY <1>1
    <3>2. gap(head + i + 1) = step(i)
      BY <3>1
    <3> HIDE DEF gap, step, n, last
    <3> QED
      BY <3>1, <3>2
  <2>2. 1 .. Len(events) - head - 1 = 1 .. n
    BY <1>1
  <2>3. gaps = [i \in 1 .. n |-> step(i)]
    <3> HIDE DEF n
    <3> QED
      BY <2>2 DEF Gaps
  <2> HIDE DEF n, last, gap, step, gaps
  <2> QED
    BY <2>1, <2>3
<1>4. \A i \in 1 .. n : gap(last - n + i) \in Int
  <2>1. \A j \in 2 .. last : gap(j) \in Int
    <3>1. \A j \in 2 .. last : j \in 1 .. last /\ j - 1 \in 1 .. last
      BY <1>1
    <3> HIDE DEF last
    <3> QED
      BY <1>2, <3>1
  <2>2. \A i \in 1 .. n : last - n + i \in 2 .. last
    BY <1>1
  <2> HIDE DEF n, last, gap
  <2> QED
    BY <2>1, <2>2
<1>5. gaps \in Seq(Int) /\ Len(gaps) = n
  <2> HIDE DEF gaps, gap, n
  <2> QED
    BY <1>1, <1>3, <1>4
<1>6. [i \in 1 .. n |-> gaps[i] * gaps[i]]
        = [i \in 1 .. n |-> gap(last - n + i) * gap(last - n + i)]
  <2> HIDE DEF gaps, gap, n, last
  <2> QED
    BY <1>3
<1> DEFINE sum == Total(gaps)
           squares == Total([i \in 1 .. n |-> gaps[i] * gaps[i]])
           m2 == Running(gaps)[n].m2
<1>7. m2[1] * n = (n * squares - sum * sum) * m2[2]
  <2>1. SumsAt(Running(gaps)[n], n, sum, squares)
    <3> HIDE DEF gaps, n
    <3> QED
      BY <1>5, RunningSums
  <2> HIDE DEF sum, squares, gaps, n
  <2> QED
    BY <1>1, <2>1 DEF SumsAt
<1>8. sum \in Int /\ squares \in Int /\ m2 \in Fraction
  <2> HIDE DEF gaps, n, gap, last
  <2>1. \A i \in 1 .. n : gaps[i] \in Int
    BY <1>5
  <2>2. [i \in 1 .. n |-> gaps[i] * gaps[i]] \in Seq(Int)
    BY <1>1, <2>1
  <2>3. sum \in Int
    BY <1>5, TotalSteps, <1>1
  <2>4. squares \in Int
    <3> DEFINE s == [i \in 1 .. n |-> gaps[i] * gaps[i]]
    <3>1. s \in Seq(Int) /\ Len(s) \in Nat
      BY <2>2, LenProperties
    <3> HIDE DEF s
    <3>2. Total(s) \in Int
      BY <3>1, TotalSteps
    <3> QED
      BY <3>2 DEF s
  <2>5. Running(gaps)[n] \in Moments
    BY <1>1, <1>5, RunningSteps
  <2> QED
    BY <2>3, <2>4, <2>5 DEF Moments
<1>9. Tv = <<m2[1], m2[2] * n>>
  <2>1. ~(Len(events) - head <= 1)
    BY <1>1
  <2> HIDE DEF n, gaps
  <2> QED
    BY <1>5, <2>1 DEF Tv, varianceDelta, Over, gaps
<1>10. Tv[1] * n * n = (n * squares - sum * sum) * Tv[2]
  <2>1. m2[1] \in Int /\ m2[2] \in Int
    BY <1>8 DEF Fraction
  <2> HIDE DEF sum, squares, gaps, n, m2
  <2>2. (m2[1] * n) * n = ((n * squares - sum * sum) * m2[2]) * n
    BY <1>7
  <2> DEFINE w == n * squares - sum * sum
  <2>3. w \in Int /\ n \in Int
    BY <1>1, <1>8
  <2> HIDE DEF w
  <2>4. (w * m2[2]) * n = w * (m2[2] * n)
    BY <2>1, <2>3
  <2> QED
    BY <1>9, <2>2, <2>4 DEF w
<1> QED
  <2> HIDE DEF gaps, gap
  <2> QED
    BY <1>3, <1>6, <1>10 DEF TimingExact, gap

(* The running mean and deviation give the population variance of the      *)
(* steps between the entries a window counts (varianceDelta), for windows  *)
(* of every length: each event, each copy of the slice, each eviction.     *)
THEOREM SpecTimingExact == Spec => []TimingExact
<1>1. IInv => TimingExact
  BY TimingMeans DEF IInv
<1> QED
  BY <1>1, SpecIInv, PTL

=============================================================================
