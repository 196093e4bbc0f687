------------------------------- MODULE Rules -------------------------------
(***************************************************************************)
(* The rules of the engine (Metrics and varianceDelta of                   *)
(* internal/engine/window.go, the first half of evaluate in engine.go)     *)
(* over the state of the sliding window.  They are functions of the window *)
(* and run right after Add.  log, the events received so far, is no state  *)
(* of the code: it is what the window is held against.                     *)
(*                                                                         *)
(* A float64 is a fraction <<p, q>> with q > 0: thresholds and figures are *)
(* exact here, and what rounding does to them is left out.  The label      *)
(* severity, which no step depends on, is left out too.                    *)
(***************************************************************************)
EXTENDS Window

CONSTANTS
  APSThreshold, APSElevatedThreshold, FailureRatioThreshold,
  UIDDiversityThreshold, TimingVarianceThreshold, AttackScoreThreshold,
  Epsilon,        \* fractions
  Weights,        \* [aps, fr, uds, tv], natural numbers
  MinAttempts,
  MaxLog          \* bound: how many events are received

Fraction == Int \X (Nat \ {0})

ASSUME RulesAssumption ==
  /\ {APSThreshold, APSElevatedThreshold, FailureRatioThreshold,
      UIDDiversityThreshold, TimingVarianceThreshold,
      AttackScoreThreshold, Epsilon} \subseteq Fraction
  /\ APSThreshold[1] > 0 /\ AttackScoreThreshold[1] > 0 /\ Epsilon[1] > 0
  /\ Weights \in [{"aps", "fr", "uds", "tv"} -> Nat]
  /\ MinAttempts \in Int /\ MaxLog \in Nat

VARIABLE log      \* the events received so far, as they were clamped

RulesInit == Init /\ log = << >>

RulesNext ==
  \/ /\ Len(log) < MaxLog
     /\ ProcessEvent
     /\ log' = Append(log, events'[Len(events')])
  \/ UpdateConfig /\ UNCHANGED log
  \/ ClockMoves /\ UNCHANGED log

RulesSpec == RulesInit /\ [][RulesNext]_<<vars, log>>

Zero == <<0, 1>>
Plus(a, b) == <<a[1] * b[2] + b[1] * a[2], a[2] * b[2]>>
Minus(a, b) == <<a[1] * b[2] - b[1] * a[2], a[2] * b[2]>>
Times(a, b) == <<a[1] * b[1], a[2] * b[2]>>
Over(a, n) == <<a[1], a[2] * n>>
Exceeds(a, b) == a[1] * b[2] > b[1] * a[2]

-----------------------------------------------------------------------------
(* Mutant: the dead entries in front are measured too.                     *)
GapsOfSlice(evs, start) ==
  [n \in 1 .. Len(evs) - 1 |->
     LET d == evs[n + 1].ts - evs[n].ts IN IF d < 0 THEN 0 ELSE d]

(* The steps of time between successive entries; one back counts as none.  *)
Gaps(evs, start) ==
  [n \in 1 .. Len(evs) - start - 1 |->
     LET d == evs[start + n + 1].ts - evs[start + n].ts
     IN  IF d < 0 THEN 0 ELSE d]

(* The loop body of varianceDelta: mean and m2 after the n-th step.        *)
Moved(acc, n, delta) ==
  LET diff == Minus(<<delta, 1>>, acc.mean)
      mean == Plus(acc.mean, Over(diff, n))
  IN  [mean |-> mean,
       m2   |-> Plus(acc.m2, Times(diff, Minus(<<delta, 1>>, mean)))]

Running(gaps) ==
  LET after[n \in 0 .. Len(gaps)] ==
        IF n = 0 THEN [mean |-> Zero, m2 |-> Zero]
        ELSE Moved(after[n - 1], n, gaps[n])
  IN  after

varianceDelta(evs, start) ==
  LET gaps == Gaps(evs, start)
  IN  IF Len(evs) - start <= 1 THEN Zero
      ELSE Over(Running(gaps)[Len(gaps)].m2, Len(gaps))

(* Metrics, when the window counts an attempt.                             *)
Aps == <<attempts, Duration>>
Fr  == <<failures, attempts>>
Uds == <<Cardinality(DOMAIN uidCounts), attempts>>
Tv  == varianceDelta(events, head)

Score ==
  LET tv == Plus(Tv, Epsilon)
  IN  Plus(Plus(Times(<<Weights.aps, 1>>, Aps), Times(<<Weights.fr, 1>>, Fr)),
           Plus(Times(<<Weights.uds, 1>>, Uds),
                <<Weights.tv * tv[2], tv[1]>>))

Elevated == Exceeds(Aps, APSElevatedThreshold)

Trips(rule) ==
  CASE rule = "excessive_attempt_rate" -> Exceeds(Aps, APSThreshold)
    [] rule = "failure_spike" ->
         Exceeds(Fr, FailureRatioThreshold) /\ attempts >= MinAttempts
    [] rule = "uid_spraying" -> Exceeds(Uds, UIDDiversityThreshold) /\ Elevated
    [] rule = "machine_timing" -> Exceeds(TimingVarianceThreshold, Tv) /\ Elevated
    [] rule = "attack_score" ->
         /\ Exceeds(Score, AttackScoreThreshold)
         /\ attempts >= MinAttempts /\ Elevated

RuleNames == {"excessive_attempt_rate", "failure_spike", "uid_spraying",
              "machine_timing", "attack_score"}

(* The rules evaluate finds broken; none, and it returns before the        *)
(* cooldown is asked.                                                      *)
rules == IF attempts = 0 THEN {} ELSE {rule \in RuleNames : Trips(rule)}

-----------------------------------------------------------------------------
(* The sum of a sequence of numbers.                                       *)
Total(s) ==
  LET sum[n \in 0 .. Len(s)] == IF n = 0 THEN 0 ELSE sum[n - 1] + s[n]
  IN  sum[Len(s)]

(* The running mean and deviation of varianceDelta (window.go:92-115) give *)
(* the population variance of the steps between the entries that count,    *)
(* whatever is dead in front of them and however the timestamps fall.      *)
TimingExact ==
  LET n == attempts - 1
      last == Len(events)
      gap(i) == LET d == events[i].ts - events[i - 1].ts
                IN  IF d < 0 THEN 0 ELSE d
      sum == Total([i \in 1 .. n |-> gap(last - n + i)])
      squares == Total([i \in 1 .. n |-> gap(last - n + i) * gap(last - n + i)])
  IN  n > 0 => Tv[1] * n * n = (n * squares - sum * sum) * Tv[2]

(* The events received whose timestamps lie in the stretch of time the     *)
(* window stands for at the latest event.                                  *)
Stretch ==
  LET t == log[Len(log)].ts
  IN  {k \in DOMAIN log : /\ log[k].ts >= t - Duration - Slack
                          /\ log[k].ts <= t + Slack}

(* No rule is tripped by attempts that are long gone: for every rule       *)
(* evaluate finds broken (engine.go:211-233) enough events were received,  *)
(* in a stretch of time that the skews bound, for the rate it names; and   *)
(* enough of them failed, or were of different cards, where the rule says  *)
(* so.  The counters are held against the events themselves, those the     *)
(* window has dropped included.                                            *)
AlertsEarned ==
  (ChecksOn /\ log # << >>) =>
    LET n == Cardinality(Stretch)
        failed == Cardinality({k \in Stretch : log[k].result = "failure"})
        cards == Cardinality({log[k].uid : k \in Stretch} \ {NoUID})
        broken == rules
    IN
    /\ "excessive_attempt_rate" \in broken =>
         Exceeds(<<n, Duration>>, APSThreshold)
    /\ broken \cap {"uid_spraying", "machine_timing", "attack_score"} # {} =>
         Exceeds(<<n, Duration>>, APSElevatedThreshold)
    /\ "failure_spike" \in broken =>
         /\ n >= MinAttempts
         /\ Exceeds(<<failed, attempts>>, FailureRatioThreshold)
    /\ "uid_spraying" \in broken =>
         Exceeds(<<cards, attempts>>, UIDDiversityThreshold)

(* And the other way round, whatever the skews: a flood of attempts is     *)
(* never missed.  When the events received within Duration of the latest   *)
(* timestamp seen come faster than aps_threshold, the rule is broken       *)
(* (engine.go:211), in whatever order they were received and however often *)
(* the window was evicted and copied in between (window.go:43-66).         *)
FloodNoticed ==
  \A m \in DOMAIN log :
    (\A k \in DOMAIN log : log[k].ts <= log[m].ts) =>
      LET n == Cardinality({k \in DOMAIN log : log[k].ts >= log[m].ts - Duration})
      IN  Exceeds(<<n, Duration>>, APSThreshold)
            => "excessive_attempt_rate" \in rules
=============================================================================
