--------------------------- MODULE AlertingProofs ---------------------------
(***************************************************************************)
(* Theorems about Alerting: for every set of readers, cards and spellings, *)
(* every way of spelling a card, every windows, and any configurations     *)
(* that reloads put in force in any order.                                 *)
(*                                                                         *)
(* Two things make the properties inductive.  The cooldown map is never    *)
(* newer than the account of what was raised, and agrees with it on every  *)
(* key whose latest alert was raised under a cooldown (AgeInv): whatever   *)
(* combination of the three evaluations asks for a key, it is recorded     *)
(* exactly when one of them gets its alert through and there is a cooldown *)
(* to keep.  And the streak of a card tells its last two events apart as   *)
(* far as rule 6 needs them (StreakInv).                                   *)
(***************************************************************************)
EXTENDS Alerting, TLAPS, SequenceTheorems

Histories ==
  {<< >>, <<FALSE>>, <<TRUE>>,
   <<FALSE, FALSE>>, <<FALSE, TRUE>>, <<TRUE, FALSE>>, <<TRUE, TRUE>>}

Twice == <<TRUE, TRUE>>

FailedLast(h) == h # << >> /\ h[Len(h)] = TRUE

StreakInv ==
  /\ history \in [Readers -> [Cards -> Histories]]
  /\ \A r \in Readers, c \in Cards :
       /\ streak[r][c] > 0 <=> FailedLast(history[r][c])
       /\ streak[r][c] = 2 <=> history[r][c] = Twice

AgeInv ==
  \A k \in Keys :
    since[k] <= age[k] /\ (k \notin off => age[k] = since[k])

IInv == TypeOK /\ AgeInv /\ StreakInv /\ StreakAlertsEarned

-----------------------------------------------------------------------------
(* The steps of Process by name: what each evaluation wants to raise, and  *)
(* the cooldown map before the next one asks it.                           *)
StreakOf(r, c, coded) ==
  IF c = NoUID THEN 0 ELSE StreakAfter(streak[r][c], coded)

WantedByStreak(r, c, coded) ==
  IF c = NoUID THEN {} ELSE StreakVerdict(r, c, StreakOf(r, c, coded))

WantedByWindows(r, tripped) ==
  {Alert("possible_bruteforce", Key(r, w), NoUID) : w \in tripped}

AfterAccess(r, c) ==
  IF AccessVerdict(r, c) = {} THEN age ELSE Record(age, Key(r, 0))

AfterStreak(r, c, coded) ==
  IF WantedByStreak(r, c, coded) = {} THEN AfterAccess(r, c)
  ELSE Record(AfterAccess(r, c), Auth(r, c))

Asks(wanted, k) == \E x \in wanted : x.key = k

(* A map in which the keys that are asked for are recorded.                *)
Asked(a, b, wanted) ==
  \A k \in Keys : b[k] = IF Asks(wanted, k) /\ cooldown > 0 /\ Allows(a, k)
                         THEN 0 ELSE a[k]

LEMMA ProcessMeans ==
  ASSUME NEW r, NEW s, NEW coded, NEW tripped, Process(r, s, coded, tripped)
  PROVE  LET c == Canonical[s]
             a2 == AfterStreak(r, c, coded)
             w3 == WantedByWindows(r, tripped)
         IN  /\ age' = [k \in Keys |-> IF Asks(w3, k) THEN Record(a2, k)[k]
                                       ELSE a2[k]]
             /\ out' = {x \in AccessVerdict(r, c) : Allows(age, x.key)}
                         \cup {x \in WantedByStreak(r, c, coded) :
                                 Allows(AfterAccess(r, c), x.key)}
                         \cup {x \in w3 : Allows(a2, x.key)}
  BY DEF Process, StreakOf, WantedByStreak, WantedByWindows, AfterAccess,
         AfterStreak, Asks

LEMMA ConfigType ==
  ASSUME TypeOK
  PROVE  /\ cooldown \in 0 .. MaxCooldown /\ access.enabled \in BOOLEAN
         /\ access.whitelistOnly \in BOOLEAN /\ MaxCooldown \in Nat
  BY AlertingAssumption DEF TypeOK, Lists

LEMMA RecordMeans ==
  ASSUME TypeOK, NEW a \in [Keys -> 0 .. MaxCooldown], NEW k \in Keys
  PROVE  /\ Record(a, k) \in [Keys -> 0 .. MaxCooldown]
         /\ \A j \in Keys :
              Record(a, k)[j]
                = IF j = k /\ cooldown > 0 /\ Allows(a, k) THEN 0 ELSE a[j]
  BY ConfigType DEF Record

LEMMA KeyTypes ==
  ASSUME NEW r \in Readers
  PROVE  /\ Key(r, 0) \in Keys
         /\ \A n \in Seconds : Key(r, n) \in Keys
         /\ \A c \in Cards : Auth(r, c) \in Keys
  BY DEF Keys

(* The keys the evaluations ask for.                                       *)
LEMMA WantedKeys ==
  ASSUME NEW r \in Readers, NEW c, NEW coded, NEW tripped
  PROVE  /\ \A x \in AccessVerdict(r, c) : x.key = Key(r, 0)
         /\ \A x \in WantedByStreak(r, c, coded) : x.key = Auth(r, c)
         /\ \A x \in WantedByWindows(r, tripped) :
              \E w \in tripped : x.key = Key(r, w)
  BY DEF AccessVerdict, WantedByStreak, StreakVerdict, WantedByWindows, Alert

(* The cooldown map through one event.                                     *)
LEMMA Recording ==
  ASSUME TypeOK, NEW r \in Readers, NEW s \in Spellings, NEW coded \in BOOLEAN,
         NEW tripped \in SUBSET Seconds, Process(r, s, coded, tripped)
  PROVE  LET c == Canonical[s]
             a1 == AfterAccess(r, c)
             a2 == AfterStreak(r, c, coded)
         IN  /\ a1 \in [Keys -> 0 .. MaxCooldown]
             /\ a2 \in [Keys -> 0 .. MaxCooldown]
             /\ age' \in [Keys -> 0 .. MaxCooldown]
             /\ Asked(age, a1, AccessVerdict(r, c))
             /\ Asked(a1, a2, WantedByStreak(r, c, coded))
             /\ Asked(a2, age', WantedByWindows(r, tripped))
<1> DEFINE c == Canonical[s]
           w1 == AccessVerdict(r, c)
           w2 == WantedByStreak(r, c, coded)
           w3 == WantedByWindows(r, tripped)
           a1 == AfterAccess(r, c)
           a2 == AfterStreak(r, c, coded)
<1>1. c \in Cards \cup {NoUID}
  BY AlertingAssumption
<1>2. age \in [Keys -> 0 .. MaxCooldown]
  BY DEF TypeOK
<1>3. /\ \A x \in w1 : x.key = Key(r, 0)
      /\ \A x \in w2 : x.key = Auth(r, c)
  BY WantedKeys
<1>4. Key(r, 0) \in Keys /\ (c \in Cards => Auth(r, c) \in Keys)
  BY KeyTypes
<1>5. c \notin Cards => w2 = {}
  BY <1>1 DEF WantedByStreak
<1>6. a1 = IF w1 = {} THEN age ELSE Record(age, Key(r, 0))
  BY DEF AfterAccess
<1>7. a2 = IF w2 = {} THEN a1 ELSE Record(a1, Auth(r, c))
  BY DEF AfterStreak
<1>8. age' = [k \in Keys |-> IF Asks(w3, k) THEN Record(a2, k)[k] ELSE a2[k]]
  BY ProcessMeans
<1> HIDE DEF c, w1, w2, w3, a1, a2
<1>9. a1 \in [Keys -> 0 .. MaxCooldown] /\ Asked(age, a1, w1)
  <2>1. CASE w1 = {}
    BY <2>1, <1>2, <1>6 DEF Asked, Asks
  <2>2. CASE w1 # {}
    <3>1. a1 = Record(age, Key(r, 0))
      BY <2>2, <1>6
    <3>2. \A k \in Keys : Asks(w1, k) <=> k = Key(r, 0)
      BY <2>2, <1>3 DEF Asks
    <3> QED
      BY <3>1, <3>2, <1>2, <1>4, RecordMeans DEF Asked
  <2> QED
    BY <2>1, <2>2
<1>10. a2 \in [Keys -> 0 .. MaxCooldown] /\ Asked(a1, a2, w2)
  <2>1. CASE w2 = {}
    BY <2>1, <1>7, <1>9 DEF Asked, Asks
  <2>2. CASE w2 # {}
    <3>1. a2 = Record(a1, Auth(r, c)) /\ Auth(r, c) \in Keys
      BY <2>2, <1>4, <1>5, <1>7
    <3>2. \A k \in Keys : Asks(w2, k) <=> k = Auth(r, c)
      BY <2>2, <1>3 DEF Asks
    <3> QED
      BY <3>1, <3>2, <1>9, RecordMeans DEF Asked
  <2> QED
    BY <2>1, <2>2
<1>11. age' \in [Keys -> 0 .. MaxCooldown] /\ Asked(a2, age', w3)
  <2>1. \A k \in Keys :
          /\ Record(a2, k) \in [Keys -> 0 .. MaxCooldown]
          /\ Record(a2, k)[k]
               = IF cooldown > 0 /\ Allows(a2, k) THEN 0 ELSE a2[k]
    BY <1>10, RecordMeans
  <2> QED
    BY <2>1, <1>8, <1>10 DEF Asked
<1> QED
  BY <1>9, <1>10, <1>11 DEF c, w1, w2, w3, a1, a2

(* Whichever evaluation raised it, an alert was allowed by the map as it   *)
(* was before the event; and a key is recorded if, and only if, an alert   *)
(* under it was raised.                                                    *)
LEMMA RaisedAreRecorded ==
  ASSUME TypeOK, NEW r \in Readers, NEW s \in Spellings, NEW coded \in BOOLEAN,
         NEW tripped \in SUBSET Seconds, Process(r, s, coded, tripped)
  PROVE  /\ \A x \in out' : x.key \in Keys /\ Allows(age, x.key)
         /\ \A k \in Keys :
              age'[k] = IF cooldown > 0 /\ Asks(out', k) THEN 0 ELSE age[k]
<1> DEFINE c == Canonical[s]
           w1 == AccessVerdict(r, c)
           w2 == WantedByStreak(r, c, coded)
           w3 == WantedByWindows(r, tripped)
           a1 == AfterAccess(r, c)
           a2 == AfterStreak(r, c, coded)
           cd == cooldown
<1>1. /\ a1 \in [Keys -> 0 .. MaxCooldown] /\ a2 \in [Keys -> 0 .. MaxCooldown]
      /\ age \in [Keys -> 0 .. MaxCooldown]
      /\ Asked(age, a1, w1) /\ Asked(a1, a2, w2) /\ Asked(a2, age', w3)
  BY Recording DEF TypeOK
<1>2. out' = {x \in w1 : Allows(age, x.key)} \cup {x \in w2 : Allows(a1, x.key)}
               \cup {x \in w3 : Allows(a2, x.key)}
  BY ProcessMeans
<1>3. cd \in Nat /\ MaxCooldown \in Nat
  BY ConfigType
<1>4. \A x \in w1 \cup w2 \cup w3 : x.key \in Keys
  <2>1. c \in Cards \cup {NoUID}
    BY AlertingAssumption
  <2>2. c \notin Cards => w2 = {}
    BY <2>1 DEF WantedByStreak
  <2>3. \A x \in w1 : x.key \in Keys
    BY KeyTypes, WantedKeys
  <2>4. \A x \in w2 : x.key \in Keys
    BY <2>2, KeyTypes, WantedKeys
  <2>5. \A x \in w3 : x.key \in Keys
    BY KeyTypes, WantedKeys
  <2> QED
    BY <2>3, <2>4, <2>5
<1> HIDE DEF c, w1, w2, w3, a1, a2
<1>5. ASSUME NEW k \in Keys
      PROVE  /\ a1[k] \in Nat /\ a2[k] \in Nat /\ age[k] \in Nat
             /\ a1[k] = IF Asks(w1, k) /\ cd > 0 /\ age[k] >= cd THEN 0 ELSE age[k]
             /\ a2[k] = IF Asks(w2, k) /\ cd > 0 /\ a1[k] >= cd THEN 0 ELSE a1[k]
             /\ age'[k] = IF Asks(w3, k) /\ cd > 0 /\ a2[k] >= cd THEN 0 ELSE a2[k]
  <2>1. a1[k] \in Nat /\ a2[k] \in Nat /\ age[k] \in Nat
    BY <1>1, <1>3
  <2> QED
    BY <2>1, <1>1 DEF Asked, Allows
<1>6. ASSUME NEW k \in Keys
      PROVE  Asks(out', k) <=> \/ Asks(w1, k) /\ age[k] >= cd
                               \/ Asks(w2, k) /\ a1[k] >= cd
                               \/ Asks(w3, k) /\ a2[k] >= cd
  BY <1>2 DEF Asks, Allows
<1>7. ASSUME NEW x \in out' PROVE x.key \in Keys /\ Allows(age, x.key)
  <2>1. x \in w1 \cup w2 \cup w3
    BY <1>2
  <2>2. PICK k \in Keys : k = x.key
    BY <2>1, <1>4
  <2>3. age[k] >= cd \/ a1[k] >= cd \/ a2[k] >= cd
    BY <2>2, <1>2 DEF Allows
  <2>4. age[k] >= cd
    BY <2>3, <1>3, <1>5
  <2> QED
    BY <2>2, <2>4 DEF Allows
<1>8. ASSUME NEW k \in Keys
      PROVE  age'[k] = IF cd > 0 /\ Asks(out', k) THEN 0 ELSE age[k]
  BY <1>3, <1>5, <1>6
<1> QED
  BY <1>7, <1>8

-----------------------------------------------------------------------------
LEMMA KeysDiffer ==
  ASSUME NEW r \in Readers, NEW n, NEW q \in Readers, NEW c \in Cards
  PROVE  Key(r, n) # Auth(q, c)
<1>1. Len(Key(r, n)) = 2 /\ Len(Auth(q, c)) = 3
  BY DEF Key, Auth
<1> QED
  BY <1>1

LEMMA AuthInjective ==
  ASSUME NEW r \in Readers, NEW c \in Cards, NEW q \in Readers, NEW d \in Cards,
         Auth(r, c) = Auth(q, d)
  PROVE  r = q /\ c = d
  BY DEF Auth

(* One event more in the history of a card.                                *)
Later(h, coded) == IF Len(h) < 2 THEN Append(h, coded) ELSE <<h[2], coded>>

LEMMA LastOfEach ==
  /\ ~FailedLast(<< >>) /\ ~FailedLast(<<FALSE>>) /\ FailedLast(<<TRUE>>)
  /\ \A a \in BOOLEAN : ~FailedLast(<<a, FALSE>>) /\ FailedLast(<<a, TRUE>>)
  BY DEF FailedLast

LEMMA AppendOne ==
  ASSUME NEW S, NEW a \in S, NEW b \in S
  PROVE  Len(<<a>>) = 1 /\ Append(<<a>>, b) = <<a, b>>
<1>1. <<a>> \in Seq(S) /\ Len(<<a>>) = 1 /\ <<a>>[1] = a
  OBVIOUS
<1>2. <<a, b>> \in Seq(S) /\ Len(<<a, b>>) = 2
      /\ <<a, b>>[1] = a /\ <<a, b>>[2] = b
  OBVIOUS
<1> DEFINE s == <<a>>
           t == <<a, b>>
<1>3. Append(s, b) \in Seq(S) /\ Len(Append(s, b)) = 2
      /\ Append(s, b)[1] = a /\ Append(s, b)[2] = b
  <2> HIDE DEF s
  <2> QED
    BY <1>1, AppendProperties DEF s
<1>4. Append(s, b) = t
  <2> HIDE DEF s, t
  <2> DEFINE u == Append(s, b)
  <2>1. Len(u) = Len(t) /\ \A i \in 1 .. Len(u) : u[i] = t[i]
    BY <1>2, <1>3 DEF t
  <2>2. u \in Seq(S) /\ t \in Seq(S)
    BY <1>2, <1>3 DEF t
  <2> HIDE DEF u
  <2>3. u = t
    BY <2>1, <2>2, SeqEqual
  <2> QED
    BY <2>3 DEF u
<1> QED
  BY <1>1, <1>4

LEMMA HistoryTypes ==
  ASSUME NEW h \in Histories
  PROVE  h \in Seq(BOOLEAN) /\ (h # << >> => h[Len(h)] \in BOOLEAN)
<1>1. /\ << >> \in Seq(BOOLEAN)
      /\ <<FALSE>> \in Seq(BOOLEAN) /\ <<TRUE>> \in Seq(BOOLEAN)
  OBVIOUS
<1>2. /\ <<FALSE, FALSE>> \in Seq(BOOLEAN) /\ <<FALSE, TRUE>> \in Seq(BOOLEAN)
      /\ <<TRUE, FALSE>> \in Seq(BOOLEAN) /\ <<TRUE, TRUE>> \in Seq(BOOLEAN)
  OBVIOUS
<1>3. h \in Seq(BOOLEAN)
  BY <1>1, <1>2 DEF Histories
<1>4. h # << >> => h[Len(h)] \in BOOLEAN
  BY <1>3
<1> QED
  BY <1>3, <1>4

LEMMA LaterOfEach ==
  ASSUME NEW coded \in BOOLEAN
  PROVE  /\ Later(<< >>, coded) = <<coded>>
         /\ \A a \in BOOLEAN : Later(<<a>>, coded) = <<a, coded>>
         /\ \A a, b \in BOOLEAN : Later(<<a, b>>, coded) = <<b, coded>>
<1>1. Later(<< >>, coded) = <<coded>>
  BY DEF Later
<1>2. ASSUME NEW a \in BOOLEAN PROVE Later(<<a>>, coded) = <<a, coded>>
  BY AppendOne DEF Later
<1>3. ASSUME NEW a \in BOOLEAN, NEW b \in BOOLEAN
      PROVE  Later(<<a, b>>, coded) = <<b, coded>>
  BY DEF Later
<1> QED
  BY <1>1, <1>2, <1>3

LEMMA NotTwice ==
  /\ << >> # Twice /\ <<FALSE>> # Twice /\ <<TRUE>> # Twice
  /\ <<FALSE, FALSE>> # Twice /\ <<FALSE, TRUE>> # Twice
  /\ <<TRUE, FALSE>> # Twice
<1>1. Len(<< >>) = 0 /\ Len(<<FALSE>>) = 1 /\ Len(<<TRUE>>) = 1
      /\ Len(<<TRUE, TRUE>>) = 2
  OBVIOUS
<1> QED
  BY <1>1 DEF Twice

(* The streak keeps telling the histories apart.                           *)
LEMMA StreakTells ==
  ASSUME NEW h \in Histories, NEW coded \in BOOLEAN,
         NEW n \in 0 .. 2, n > 0 <=> FailedLast(h), n = 2 <=> h = Twice
  PROVE  LET m == StreakAfter(n, coded)
             g == Later(h, coded)
         IN  /\ g \in Histories /\ m \in 0 .. 2
             /\ m > 0 <=> FailedLast(g)
             /\ m = 2 <=> g = Twice
<1> DEFINE m == StreakAfter(n, coded)
           g == Later(h, coded)
           Tells == /\ g \in Histories /\ m \in 0 .. 2
                    /\ m > 0 <=> FailedLast(g)
                    /\ m = 2 <=> g = Twice
<1> SUFFICES Tells
  OBVIOUS
<1>1. CASE coded = FALSE
  <2>1. m = 0
    BY <1>1 DEF StreakAfter
  <2>2. g \in {<<FALSE>>, <<TRUE, FALSE>>, <<FALSE, FALSE>>}
    BY <1>1, LaterOfEach DEF Histories
  <2>3. ~FailedLast(g) /\ g # Twice /\ g \in Histories
    BY <2>2, LastOfEach, NotTwice DEF Histories
  <2> HIDE DEF m, g
  <2> QED
    BY <2>1, <2>3
<1>2. CASE coded = TRUE /\ ~FailedLast(h)
  <2>1. n = 0 /\ m = 1
    BY <1>2 DEF StreakAfter
  <2>2. h \in {<< >>, <<FALSE>>, <<FALSE, FALSE>>, <<TRUE, FALSE>>}
    BY <1>2, LastOfEach DEF Histories
  <2>3. g \in {<<TRUE>>, <<FALSE, TRUE>>}
    BY <1>2, <2>2, LaterOfEach
  <2>4. FailedLast(g) /\ g # Twice /\ g \in Histories
    BY <2>3, LastOfEach, NotTwice DEF Histories
  <2> HIDE DEF m, g
  <2> QED
    BY <2>1, <2>4
<1>3. CASE coded = TRUE /\ FailedLast(h)
  <2>1. n > 0 /\ m = 2
    BY <1>3 DEF StreakAfter
  <2>2. h \in {<<TRUE>>, <<FALSE, TRUE>>, <<TRUE, TRUE>>}
    BY <1>3, LastOfEach DEF Histories
  <2>3. g = Twice
    BY <1>3, <2>2, LaterOfEach DEF Twice
  <2>4. FailedLast(g) /\ g \in Histories
    BY <2>3, LastOfEach DEF Histories, Twice
  <2> QED
    BY <2>1, <2>3, <2>4
<1> QED
  BY <1>1, <1>2, <1>3

LEMMA InitIInv == Init => IInv
<1> SUFFICES ASSUME Init PROVE IInv
  OBVIOUS
<1>1. TypeOK
  BY AlertingAssumption DEF Init, TypeOK
<1>2. StreakInv
  <2>1. << >> \in Histories /\ << >> # Twice /\ ~FailedLast(<< >>)
    BY LastOfEach, NotTwice DEF Histories
  <2>2. ASSUME NEW r \in Readers, NEW c \in Cards
        PROVE  streak[r][c] = 0 /\ history[r][c] = << >>
    BY DEF Init
  <2> QED
    BY <2>1, <2>2 DEF Init, StreakInv
<1>3. AgeInv /\ StreakAlertsEarned
  BY AlertingAssumption DEF Init, AgeInv, StreakAlertsEarned
<1> QED
  BY <1>1, <1>2, <1>3 DEF IInv

(* One event: the ghosts keep telling the maps.                            *)
LEMMA ProcessIInv ==
  ASSUME IInv, NEW r \in Readers, NEW s \in Spellings, NEW coded \in BOOLEAN,
         NEW tripped \in SUBSET Seconds, Process(r, s, coded, tripped)
  PROVE  IInv'
<1> DEFINE c == Canonical[s]
           w2 == WantedByStreak(r, c, coded)
<1>1. TypeOK /\ AgeInv /\ StreakInv /\ StreakAlertsEarned
  BY DEF IInv
<1>2. c \in Cards \cup {NoUID} /\ NoUID \notin Cards
  BY AlertingAssumption
<1>3. /\ cooldown \in Cooldowns /\ access \in Policies
      /\ since \in [Keys -> 0 .. MaxCooldown]
      /\ age \in [Keys -> 0 .. MaxCooldown]
      /\ streak \in [Readers -> [Cards -> 0 .. 2]]
      /\ history \in [Readers -> [Cards -> Histories]]
      /\ MaxCooldown \in Nat
  BY <1>1, AlertingAssumption DEF TypeOK, StreakInv
<1>4. /\ AgeInv' /\ age' \in [Keys -> 0 .. MaxCooldown]
      /\ since' \in [Keys -> 0 .. MaxCooldown] /\ off' \subseteq Keys
  <2>1. age' \in [Keys -> 0 .. MaxCooldown]
    BY <1>1, Recording
  <2>2. since' = [k \in Keys |-> IF Asks(out', k) THEN 0 ELSE since[k]]
    BY DEF Process, Asks
  <2>3. since' \in [Keys -> 0 .. MaxCooldown]
    BY <1>1, <1>3, <2>2
  <2>4. \A k : k \in off' <=> IF cooldown = 0 THEN k \in off \/ Asks(out', k)
                            ELSE k \in off /\ ~Asks(out', k)
    BY DEF Process, Asks
  <2>5. \A k : Asks(out', k) => k \in Keys
    BY <1>1, RaisedAreRecorded DEF Asks
  <2>6. off' \subseteq Keys
    BY <1>1, <2>4, <2>5 DEF TypeOK
  <2>7. AgeInv'
    <3> SUFFICES ASSUME NEW k \in Keys
                 PROVE  /\ since'[k] <= age'[k]
                        /\ k \notin off' => age'[k] = since'[k]
      BY DEF AgeInv
    <3>1. age'[k] = IF cooldown > 0 /\ Asks(out', k) THEN 0 ELSE age[k]
      BY <1>1, RaisedAreRecorded
    <3>2. since[k] <= age[k] /\ (k \notin off => age[k] = since[k])
      BY <1>1 DEF AgeInv
    <3>3. age[k] \in Nat /\ since[k] \in Nat /\ cooldown \in Nat
      BY <1>1, <1>3, ConfigType
    <3>4. CASE Asks(out', k)
      <4>1. since'[k] = 0
        BY <3>4, <2>2
      <4>2. CASE cooldown = 0
        BY <4>1, <4>2, <3>1, <3>3, <3>4, <2>4
      <4>3. CASE cooldown > 0
        BY <4>1, <4>3, <3>1, <3>4
      <4> QED
        BY <4>2, <4>3, <3>3
    <3>5. CASE ~Asks(out', k)
      <4>1. since'[k] = since[k] /\ age'[k] = age[k] /\ (k \in off' <=> k \in off)
        BY <3>5, <3>1, <2>2, <2>4
      <4> QED
        BY <4>1, <3>2
    <3> QED
      BY <3>4, <3>5
  <2> QED
    BY <2>1, <2>3, <2>6, <2>7
<1>5. /\ streak' = IF c = NoUID THEN streak
                   ELSE [streak EXCEPT ![r][c] = StreakAfter(streak[r][c], coded)]
      /\ history' = IF c = NoUID THEN history
                    ELSE [history EXCEPT ![r][c] = Later(@, coded)]
  BY DEF Process, Later
<1>6. \A q \in Readers, d \in Cards :
        LET n == streak[q][d]
            h == history[q][d]
        IN  n \in 0 .. 2 /\ h \in Histories
            /\ (n > 0 <=> FailedLast(h)) /\ (n = 2 <=> h = Twice)
  BY <1>1, <1>3 DEF StreakInv
<1>7. /\ streak' \in [Readers -> [Cards -> 0 .. 2]]
      /\ history' \in [Readers -> [Cards -> Histories]]
      /\ \A q \in Readers, d \in Cards :
           /\ streak'[q][d] > 0 <=> FailedLast(history'[q][d])
           /\ streak'[q][d] = 2 <=> history'[q][d] = Twice
  <2>1. CASE c = NoUID
    BY <2>1, <1>3, <1>5, <1>6
  <2>2. CASE c # NoUID
    <3> DEFINE m == StreakAfter(streak[r][c], coded)
               g == Later(history[r][c], coded)
    <3>1. /\ g \in Histories /\ m \in 0 .. 2
          /\ m > 0 <=> FailedLast(g)
          /\ m = 2 <=> g = Twice
      BY <2>2, <1>2, <1>6, StreakTells
    <3>2. c \in Cards
      BY <2>2, <1>2
    <3>3. /\ streak' = [streak EXCEPT ![r][c] = m]
          /\ history' = [history EXCEPT ![r][c] = g]
      BY <2>2, <1>5
    <3> HIDE DEF m, g, c
    <3>4. /\ streak' \in [Readers -> [Cards -> 0 .. 2]]
          /\ history' \in [Readers -> [Cards -> Histories]]
      BY <1>3, <3>1, <3>2, <3>3
    <3>5. ASSUME NEW q \in Readers, NEW d \in Cards
          PROVE  /\ streak'[q][d] > 0 <=> FailedLast(history'[q][d])
                 /\ streak'[q][d] = 2 <=> history'[q][d] = Twice
      <4>1. CASE q = r /\ d = c
        <5>1. streak'[q][d] = m /\ history'[q][d] = g
          BY <4>1, <1>3, <3>2, <3>3
        <5> QED
          BY <5>1, <3>1
      <4>2. CASE ~(q = r /\ d = c)
        <5>1. streak'[q][d] = streak[q][d] /\ history'[q][d] = history[q][d]
          BY <4>2, <1>3, <3>2, <3>3
        <5> QED
          BY <5>1, <1>6
      <4> QED
        BY <4>1, <4>2
    <3> QED
      BY <3>4, <3>5
  <2> QED
    BY <2>1, <2>2
<1>8. TypeOK'
  <2>1. cooldown' \in Cooldowns /\ access' \in Policies
    BY <1>3 DEF Process
  <2>2. \A h \in Histories : h \in Seq(BOOLEAN)
    BY HistoryTypes
  <2> QED
    BY <2>1, <2>2, <1>4, <1>7 DEF TypeOK
<1>9. StreakAlertsEarned'
  <2> SUFFICES ASSUME NEW q \in Readers, NEW d \in Cards, Repeated(q, d) \in out'
               PROVE  history'[q][d] = Twice
    BY DEF StreakAlertsEarned, Twice, Repeated, Alert, Auth
  <2>1. Repeated(q, d) \in w2
    <3>1. \A x \in AccessVerdict(r, c) : x.type # "repeated_auth_failure"
      BY DEF AccessVerdict, Alert
    <3>2. \A x \in WantedByWindows(r, tripped) : x.type # "repeated_auth_failure"
      BY DEF WantedByWindows, Alert
    <3>3. Repeated(q, d).type = "repeated_auth_failure"
      BY DEF Repeated, Alert
    <3> QED
      BY <3>1, <3>2, <3>3, ProcessMeans
  <2>2. c # NoUID /\ StreakOf(r, c, coded) = 2 /\ Auth(q, d) = Auth(r, c)
    BY <2>1 DEF WantedByStreak, StreakVerdict, Repeated, Alert
  <2>3. q = r /\ d = c
    BY <2>2, <1>2, AuthInjective
  <2>4. streak'[q][d] = 2
    BY <2>2, <2>3, <1>3, <1>5 DEF StreakOf
  <2> QED
    BY <2>4, <1>7
<1>10. StreakInv'
  BY <1>7 DEF StreakInv
<1> QED
  BY <1>4, <1>8, <1>9, <1>10 DEF IInv

LEMMA TickIInv == IInv /\ Tick => IInv'
<1> SUFFICES ASSUME IInv, Tick PROVE IInv'
  OBVIOUS
<1>1. TypeOK /\ AgeInv /\ StreakInv /\ StreakAlertsEarned
  BY DEF IInv
<1>2. \A n \in 0 .. MaxCooldown : Older(n) \in 0 .. MaxCooldown
  BY AlertingAssumption DEF Older
<1>3. /\ age' = [k \in Keys |-> Older(age[k])]
      /\ since' = [k \in Keys |-> Older(since[k])]
      /\ off' = {k \in off : since'[k] < MaxCooldown}
      /\ out' = {} /\ UNCHANGED <<cooldown, access, streak, history>>
  BY DEF Tick
<1>4. /\ age \in [Keys -> 0 .. MaxCooldown] /\ since \in [Keys -> 0 .. MaxCooldown]
      /\ MaxCooldown \in Nat
  BY <1>1, AlertingAssumption DEF TypeOK
<1>5. AgeInv'
  <2> SUFFICES ASSUME NEW k \in Keys
               PROVE  /\ since'[k] <= age'[k]
                      /\ k \notin off' => age'[k] = since'[k]
    BY DEF AgeInv
  <2>1. since[k] <= age[k] /\ (k \notin off => age[k] = since[k])
    BY <1>1 DEF AgeInv
  <2>2. age[k] \in 0 .. MaxCooldown /\ since[k] \in 0 .. MaxCooldown
    BY <1>4
  <2>3. /\ since'[k] = IF since[k] < MaxCooldown THEN since[k] + 1 ELSE since[k]
        /\ age'[k] = IF age[k] < MaxCooldown THEN age[k] + 1 ELSE age[k]
    BY <1>3 DEF Older
  <2>4. k \in off /\ k \notin off' => since'[k] >= MaxCooldown
    BY <1>3, <1>4, <2>2, <2>3
  <2> QED
    BY <1>4, <2>1, <2>2, <2>3, <2>4
<1>6. TypeOK'
  <2>1. age' \in [Keys -> 0 .. MaxCooldown] /\ since' \in [Keys -> 0 .. MaxCooldown]
    BY <1>2, <1>3, <1>4
  <2>2. off' \subseteq Keys
    BY <1>1, <1>3 DEF TypeOK
  <2> QED
    BY <1>1, <1>3, <2>1, <2>2 DEF TypeOK
<1> QED
  BY <1>1, <1>3, <1>5, <1>6 DEF IInv, StreakInv, StreakAlertsEarned

LEMMA StepIInv == IInv /\ [Next]_vars => IInv'
<1> SUFFICES ASSUME IInv, [Next]_vars PROVE IInv'
  OBVIOUS
<1>1. CASE ProcessEvent
  BY <1>1, ProcessIInv DEF ProcessEvent
<1>2. CASE Tick
  BY <1>2, TickIInv
<1>3. CASE UpdateConfig
  BY <1>3 DEF UpdateConfig, IInv, TypeOK, AgeInv, StreakInv,
              StreakAlertsEarned
<1>4. CASE Reset
  <2>1. << >> \in Histories /\ << >> # Twice /\ ~FailedLast(<< >>)
        /\ << >> \in Seq(BOOLEAN)
    BY LastOfEach, NotTwice DEF Histories
  <2>2. /\ AgeInv' /\ age' \in [Keys -> 0 .. MaxCooldown]
        /\ since' \in [Keys -> 0 .. MaxCooldown] /\ off' = {}
        /\ streak' \in [Readers -> [Cards -> 0 .. 2]]
        /\ history' \in [Readers -> [Cards -> Histories]]
        /\ out' = {} /\ UNCHANGED <<cooldown, access>>
    BY <1>4, <2>1, AlertingAssumption DEF Reset, AgeInv
  <2>3. \A r \in Readers, c \in Cards :
          streak'[r][c] = 0 /\ history'[r][c] = << >>
    BY <1>4 DEF Reset
  <2>4. TypeOK'
    BY <2>1, <2>2, <2>3 DEF TypeOK, IInv
  <2>5. StreakInv'
    BY <2>1, <2>2, <2>3 DEF StreakInv
  <2>6. StreakAlertsEarned'
    BY <2>2 DEF StreakAlertsEarned
  <2> QED
    BY <2>2, <2>4, <2>5, <2>6 DEF IInv
<1>5. CASE UNCHANGED vars
  BY <1>5 DEF vars, IInv, TypeOK, AgeInv, StreakInv, StreakAlertsEarned,
              Repeated, Alert, Auth
<1> QED
  BY <1>1, <1>2, <1>3, <1>4, <1>5 DEF Next

THEOREM SpecIInv == Spec => []IInv
  BY InitIInv, StepIInv, PTL DEF Spec

-----------------------------------------------------------------------------
THEOREM SpecTypeOK == Spec => []TypeOK
<1>1. IInv => TypeOK
  BY DEF IInv
<1> QED
  BY <1>1, SpecIInv, PTL

THEOREM SpecStreakAlertsEarned == Spec => []StreakAlertsEarned
<1>1. IInv => StreakAlertsEarned
  BY DEF IInv
<1> QED
  BY <1>1, SpecIInv, PTL

(* A key that was silent for a cooldown is free, for the map is never      *)
(* newer than the alerts.                                                  *)
LEMMA SilentIsFree ==
  ASSUME IInv, NEW k \in Keys, since[k] >= cooldown
  PROVE  age[k] >= cooldown
<1>1. since[k] <= age[k] /\ since[k] \in Nat /\ age[k] \in Nat
  BY AlertingAssumption DEF IInv, AgeInv, TypeOK
<1>2. cooldown \in Nat
  BY ConfigType DEF IInv
<1> QED
  BY <1>1, <1>2

(* AlertsSpaced (cooldown.go:26-40): whatever reloads came in between, the *)
(* cooldown in force is kept by every alert after the latest one of its    *)
(* key, whichever of the evaluations raised either and whichever of them   *)
(* were asked for the same key before it in the same event; only an alert  *)
(* raised while there was no cooldown is followed sooner.                  *)
THEOREM SpecAlertsSpaced == Spec => AlertsSpaced
<1> DEFINE Spaced == \A x \in out' : since[x.key] >= cooldown \/ x.key \in off
<1>1. IInv /\ [Next]_vars => [Spaced]_vars
  <2> SUFFICES ASSUME IInv, Next PROVE Spaced
    OBVIOUS
  <2>1. CASE ProcessEvent
    <3> SUFFICES ASSUME NEW x \in out', x.key \notin off
                 PROVE  since[x.key] >= cooldown
      OBVIOUS
    <3>1. TypeOK /\ AgeInv
      BY DEF IInv
    <3>2. x.key \in Keys /\ age[x.key] >= cooldown
      BY <2>1, <3>1, RaisedAreRecorded DEF ProcessEvent, Allows
    <3> QED
      BY <3>1, <3>2 DEF AgeInv
  <2>2. CASE Tick \/ UpdateConfig \/ Reset
    BY <2>2 DEF Tick, UpdateConfig, Reset
  <2> QED
    BY <2>1, <2>2 DEF Next
<1> QED
  BY <1>1, SpecIInv, PTL DEF Spec, AlertsSpaced

(* StreakAlertsRaised: the second failure in a row with an error code, on  *)
(* one reader and under any spelling, gets its alert through whatever else *)
(* the event trips: no other evaluation asks for its key.                  *)
THEOREM SpecStreakAlertsRaised == Spec => StreakAlertsRaised
<1>1. ASSUME IInv, NEW r \in Readers, NEW c \in Cards, FailingEvent(r, c),
             history[r][c] # << >>, history[r][c][Len(history[r][c])],
             since[Auth(r, c)] >= cooldown
      PROVE  Repeated(r, c) \in out'
  <2>1. PICK s \in Spellings, tripped \in SUBSET Seconds :
          Canonical[s] = c /\ Process(r, s, TRUE, tripped)
    BY <1>1 DEF FailingEvent
  <2>2. TypeOK /\ AgeInv /\ StreakInv /\ c # NoUID
    BY <1>1, AlertingAssumption DEF IInv
  <2>3. FailedLast(history[r][c])
    <3>1. history[r][c] \in Histories
      BY <2>2 DEF StreakInv
    <3> QED
      BY <1>1, <3>1, HistoryTypes DEF FailedLast
  <2>4. streak[r][c] \in 0 .. 2 /\ streak[r][c] > 0
    BY <2>2, <2>3 DEF StreakInv, TypeOK
  <2>5. WantedByStreak(r, c, TRUE) = {Repeated(r, c)}
    BY <2>2, <2>4 DEF WantedByStreak, StreakOf, StreakAfter, StreakVerdict,
                      Repeated
  <2>6. Allows(AfterAccess(r, c), Auth(r, c))
    <3>1. Auth(r, c) \in Keys /\ Key(r, 0) # Auth(r, c)
      BY KeyTypes, KeysDiffer
    <3>2. ~Asks(AccessVerdict(r, c), Auth(r, c))
      BY <3>1, WantedKeys DEF Asks
    <3>3. Asked(age, AfterAccess(r, c), AccessVerdict(r, c))
      BY <2>1, <2>2, Recording
    <3>4. AfterAccess(r, c)[Auth(r, c)] = age[Auth(r, c)]
      BY <3>1, <3>2, <3>3 DEF Asked
    <3> QED
      BY <1>1, <3>1, <3>4, SilentIsFree DEF Allows
  <2>7. Repeated(r, c).key = Auth(r, c)
    BY DEF Repeated, Alert
  <2>8. {x \in WantedByStreak(r, c, TRUE) : Allows(AfterAccess(r, c), x.key)}
          \subseteq out'
    <3> DEFINE coded == TRUE
    <3>1. Process(r, s, coded, tripped)
      BY <2>1
    <3> HIDE DEF coded
    <3>2. {x \in WantedByStreak(r, Canonical[s], coded) :
             Allows(AfterAccess(r, Canonical[s]), x.key)} \subseteq out'
      BY <3>1, ProcessMeans
    <3> QED
      BY <2>1, <3>2 DEF coded
  <2> QED
    BY <2>5, <2>6, <2>7, <2>8
<1>2. IInv => \A r \in Readers, c \in Cards :
        /\ history[r][c] # << >> /\ history[r][c][Len(history[r][c])]
        /\ since[Auth(r, c)] >= cooldown
        /\ Repeated(r, c) \notin out'
        => ~FailingEvent(r, c)
  BY <1>1
<1> QED
  BY <1>2, SpecIInv, PTL DEF Spec, StreakAlertsRaised

(* OffendersNoticed: a card the lists in force object to gets an alert of  *)
(* its own through, unless the key of the reader's access alerts raised    *)
(* one, about whichever card, less than alert_cooldown ago.                *)
THEOREM SpecOffendersNoticed == Spec => OffendersNoticed
<1>1. ASSUME IInv, NEW r \in Readers, NEW c \in Cards, CardEvent(r, c),
             Offends(r, c), since[Key(r, 0)] >= cooldown
      PROVE  \E x \in out' : x.key = Key(r, 0) /\ x.about = c
  <2>1. PICK s \in Spellings, coded \in BOOLEAN, tripped \in SUBSET Seconds :
          Canonical[s] = c /\ Process(r, s, coded, tripped)
    BY <1>1 DEF CardEvent
  <2>2. AgeInv /\ c # NoUID
    BY <1>1, AlertingAssumption DEF IInv
  <2>3. \A list : c \in CardsOf(list) <=> OnList(c, list)
    BY <2>2 DEF CardsOf, OnList
  <2>4. PICK x \in AccessVerdict(r, c) : x.key = Key(r, 0) /\ x.about = c
    <3>1. /\ access.enabled
          /\ \/ IsBlacklisted(r, c)
             \/ access.whitelistOnly /\ ~IsWhitelisted(r, c)
      BY <1>1, <2>3 DEF Offends, IsBlacklisted, IsWhitelisted
    <3> QED
      BY <2>2, <3>1 DEF AccessVerdict, Alert
  <2>5. Allows(age, x.key)
    BY <1>1, <2>4, KeyTypes, SilentIsFree DEF Allows
  <2> QED
    BY <2>1, <2>4, <2>5, ProcessMeans
<1>2. IInv => \A r \in Readers, c \in Cards :
        /\ Offends(r, c) /\ since[Key(r, 0)] >= cooldown
        /\ ~\E x \in out' : x.key = Key(r, 0) /\ x.about = c
        => ~CardEvent(r, c)
  BY <1>1
<1> QED
  BY <1>2, SpecIInv, PTL DEF Spec, OffendersNoticed
=============================================================================
