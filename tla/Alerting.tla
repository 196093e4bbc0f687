------------------------------ MODULE Alerting ------------------------------
(***************************************************************************)
(* Which alerts an event raises: the access policy, the streak of failures *)
(* of a card on a reader, the rules of the windows, and the cooldown that  *)
(* all three share (internal/engine: engine.go, access_control.go,         *)
(* cooldown.go).                                                           *)
(*                                                                         *)
(* The engine's goroutine decides about one event at a time, and an event  *)
(* takes no time here.  How that goroutine interleaves with the admin      *)
(* handlers is in Engine; whether the figures of a window trip a rule is   *)
(* a choice.  The events are those the dedupe cache let through.           *)
(*                                                                         *)
(* Cards are compared by their canonical form: normalizeUID keeps the hex  *)
(* digits in upper case, so that one card has many spellings and some      *)
(* spellings are no card at all.                                           *)
(***************************************************************************)
EXTENDS Integers, Sequences, FiniteSets

CONSTANTS
  Readers,
  Spellings,   \* the uid strings of events and of the lists
  Cards, NoUID,
  Canonical,   \* normalizeUID: from spellings to cards, or to NoUID
  Seconds,     \* the windows, by int(duration.Seconds())
  Policies,    \* the access lists of the configurations
  Cooldowns,   \* their alert_cooldown, in ticks
  MaxCooldown  \* the longest of them

Lists == [enabled : BOOLEAN, whitelistOnly : BOOLEAN,
          whitelist : SUBSET Spellings, blacklist : SUBSET Spellings,
          readerWhitelists : [Readers -> SUBSET Spellings],
          readerBlacklists : [Readers -> SUBSET Spellings]]

ASSUME AlertingAssumption ==
  /\ MaxCooldown \in Nat
  /\ Seconds \subseteq Nat
  /\ NoUID \notin Cards
  /\ Canonical \in [Spellings -> Cards \cup {NoUID}]
  /\ Cooldowns \subseteq 0 .. MaxCooldown /\ Cooldowns # {}
  /\ Policies \subseteq Lists /\ Policies # {}

VARIABLES
  cooldown, \* alert_cooldown of e.cfg
  access,   \* e.access, which is stored apart from e.cfg
  age,      \* e.cooldown.last: ticks since a key was recorded, MaxCooldown for
            \* longer ago than that and for a key that is not in the map
  streak,   \* uidFailureStreak of every reader, counted up to 2
  out,      \* the alerts of the event that was just processed
  history,  \* ghost: the last two events of a card on a reader; TRUE stands
            \* for a failure that carried an error code
  since,    \* ghost: ticks since an alert was last raised under a key
  off       \* ghost: the keys whose latest alert, if it is more recent than
            \* MaxCooldown, was raised while there was no cooldown

vars == <<cooldown, access, age, streak, out, history, since, off>>

Key(r, n)  == <<r, n>>
Auth(r, c) == <<"authfail", r, c>>
Keys == {Key(r, n) : r \in Readers, n \in {0} \cup Seconds}
          \cup {Auth(r, c) : r \in Readers, c \in Cards}

Alert(type, key, about) == [type |-> type, key |-> key, about |-> about]

-----------------------------------------------------------------------------
(* The lists as buildAccessControl keeps them.                             *)
CardsOf(list) == {Canonical[s] : s \in list} \ {NoUID}

(* Mutant: a reader's own list is only asked when there is no global one.  *)
IsBlacklistedGlobalFirst(r, c) ==
  IF CardsOf(access.blacklist) # {} THEN c \in CardsOf(access.blacklist)
  ELSE c \in CardsOf(access.readerBlacklists[r])

IsBlacklisted(r, c) ==
  c \in CardsOf(access.blacklist) \cup CardsOf(access.readerBlacklists[r])

IsWhitelisted(r, c) ==
  c \in CardsOf(access.whitelist) \cup CardsOf(access.readerWhitelists[r])

Allows(a, k) == a[k] >= cooldown

(* Mutant: a denied key starts its cooldown anew.                          *)
RecordRefreshed(a, k) ==
  IF cooldown > 0 THEN [a EXCEPT ![k] = 0] ELSE a

(* Mutant: only a key that is not in the map is recorded.                  *)
RecordOnce(a, k) ==
  IF cooldown > 0 /\ a[k] = MaxCooldown THEN [a EXCEPT ![k] = 0] ELSE a

(* AllowKey, as far as it changes the map.                                 *)
Record(a, k) ==
  IF cooldown > 0 /\ Allows(a, k) THEN [a EXCEPT ![k] = 0] ELSE a

(* The alert evaluateAccess wants to raise, if any.                        *)
AccessVerdict(r, c) ==
  IF ~access.enabled \/ c = NoUID THEN {}
  ELSE IF IsBlacklisted(r, c)
       THEN {Alert("blacklisted_uid", Key(r, 0), c)}
  ELSE IF access.whitelistOnly /\ ~IsWhitelisted(r, c)
       THEN {Alert("whitelist_violation", Key(r, 0), c)}
  ELSE {}

(* Mutant: a failure without an error code leaves the streak alone.        *)
StreakNotReset(n, coded) == IF ~coded THEN n ELSE IF n < 2 THEN n + 1 ELSE 2

(* Mutant: the streak starts anew once it has raised its alert.            *)
StreakConsumed(n, coded) == IF ~coded THEN 0 ELSE IF n < 2 THEN n + 1 ELSE 1

(* Mutant: a success takes the streak down by one.                         *)
StreakDecays(n, coded) == IF ~coded THEN n - 1 ELSE IF n < 2 THEN n + 1 ELSE 2

StreakAfter(n, coded) == IF ~coded THEN 0 ELSE IF n < 2 THEN n + 1 ELSE 2

StreakVerdict(r, c, n) ==
  IF n = 2 THEN {Alert("repeated_auth_failure", Auth(r, c), c)} ELSE {}

(* ProcessEvent: what the three evaluations want to raise goes through the *)
(* cooldown in this order.  The windows of a reader have keys of their own,*)
(* but that of a window below one second is the key of the access alerts.  *)
Process(r, s, coded, tripped) ==
  LET c  == Canonical[s]
      n  == IF c = NoUID THEN 0 ELSE StreakAfter(streak[r][c], coded)
      w1 == AccessVerdict(r, c)
      a1 == IF w1 = {} THEN age ELSE Record(age, Key(r, 0))
      w2 == IF c = NoUID THEN {} ELSE StreakVerdict(r, c, n)
      a2 == IF w2 = {} THEN a1 ELSE Record(a1, Auth(r, c))
      w3 == {Alert("possible_bruteforce", Key(r, w), NoUID) : w \in tripped}
      a3 == [k \in Keys |-> IF \E x \in w3 : x.key = k THEN Record(a2, k)[k]
                            ELSE a2[k]]
  IN  /\ streak' = IF c = NoUID THEN streak
                   ELSE [streak EXCEPT ![r][c] = n]
      /\ history' = IF c = NoUID THEN history
                    ELSE [history EXCEPT ![r][c] =
                            IF Len(@) < 2 THEN Append(@, coded)
                            ELSE <<@[2], coded>>]
      /\ UNCHANGED <<cooldown, access>>
      /\ age' = a3
      /\ out' = {x \in w1 : Allows(age, x.key)}
                  \cup {x \in w2 : Allows(a1, x.key)}
                  \cup {x \in w3 : Allows(a2, x.key)}
      /\ since' = [k \in Keys |->
                     IF \E x \in out' : x.key = k THEN 0 ELSE since[k]]
      /\ off' = LET raised == {x.key : x \in out'}
                IN  IF cooldown = 0 THEN off \cup raised ELSE off \ raised

Init ==
  /\ cooldown \in Cooldowns /\ access \in Policies
  /\ age = [k \in Keys |-> MaxCooldown]
  /\ streak = [r \in Readers |-> [c \in Cards |-> 0]]
  /\ out = {}
  /\ history = [r \in Readers |-> [c \in Cards |-> << >>]]
  /\ since = [k \in Keys |-> MaxCooldown] /\ off = {}

ProcessEvent ==
  \E r \in Readers, s \in Spellings, coded \in BOOLEAN,
     tripped \in SUBSET Seconds : Process(r, s, coded, tripped)

(* A card that keeps failing with an error code.                           *)
FailingEvent(r, c) ==
  \E s \in Spellings, tripped \in SUBSET Seconds :
    Canonical[s] = c /\ Process(r, s, TRUE, tripped)

Older(n) == IF n < MaxCooldown THEN n + 1 ELSE n

Tick ==
  /\ age' = [k \in Keys |-> Older(age[k])]
  /\ since' = [k \in Keys |-> Older(since[k])]
  /\ off' = {k \in off : since'[k] < MaxCooldown}
  /\ out' = {}
  /\ UNCHANGED <<cooldown, access, streak, history>>

(* The two Stores are not one step, and calls overlap: any cooldown may    *)
(* meet any lists.                                                         *)
UpdateConfig ==
  /\ cooldown' \in Cooldowns /\ access' \in Policies
  /\ out' = {}
  /\ UNCHANGED <<age, streak, history, since, off>>

(* handleRestart: the maps of the readers and of the cooldown are replaced *)
(* and the alerts dropped.                                                 *)
Reset ==
  /\ age' = [k \in Keys |-> MaxCooldown]
  /\ since' = [k \in Keys |-> MaxCooldown] /\ off' = {}
  /\ streak' = [r \in Readers |-> [c \in Cards |-> 0]]
  /\ history' = [r \in Readers |-> [c \in Cards |-> << >>]]
  /\ out' = {}
  /\ UNCHANGED <<cooldown, access>>

Next == ProcessEvent \/ Tick \/ UpdateConfig \/ Reset

Spec == Init /\ [][Next]_vars

(* Time passes, and every card on every reader keeps being tried.          *)
FairSpec ==
  /\ Spec
  /\ WF_vars(Tick)
  /\ \A r \in Readers, c \in Cards : WF_vars(FailingEvent(r, c))

-----------------------------------------------------------------------------
TypeOK ==
  /\ cooldown \in Cooldowns /\ access \in Policies
  /\ off \subseteq Keys
  /\ age \in [Keys -> 0 .. MaxCooldown] /\ since \in [Keys -> 0 .. MaxCooldown]
  /\ streak \in [Readers -> [Cards -> 0 .. 2]]
  /\ \A r \in Readers, c \in Cards : history[r][c] \in Seq(BOOLEAN)

Repeated(r, c) == Alert("repeated_auth_failure", Auth(r, c), c)

(* README:145-148: rule 6 is about two consecutive failures with an error  *)
(* code of one card on one reader.  However its spelling changes, whatever *)
(* other cards do in between, and across reloads and restarts, nothing     *)
(* else raises it.                                                         *)
StreakAlertsEarned ==
  \A r \in Readers, c \in Cards :
    Repeated(r, c) \in out => history[r][c] = <<TRUE, TRUE>>

(* ... and the second such failure does raise it, unless the same alert    *)
(* was raised less than alert_cooldown ago.                                *)
StreakAlertsRaised ==
  [][\A r \in Readers, c \in Cards :
       /\ history[r][c] # << >> /\ history[r][c][Len(history[r][c])]
       /\ since[Auth(r, c)] >= cooldown
       /\ Repeated(r, c) \notin out'
       => ~FailingEvent(r, c)]_vars

CardEvent(r, c) ==
  \E s \in Spellings, coded \in BOOLEAN, tripped \in SUBSET Seconds :
    Canonical[s] = c /\ Process(r, s, coded, tripped)

OnList(c, list) == \E s \in list : Canonical[s] = c

Offends(r, c) ==
  /\ access.enabled
  /\ \/ OnList(c, access.blacklist) \/ OnList(c, access.readerBlacklists[r])
     \/ /\ access.whitelistOnly
        /\ ~OnList(c, access.whitelist) /\ ~OnList(c, access.readerWhitelists[r])

(* A card the policy in force objects to, under any spelling, is passed    *)
(* over only if less than alert_cooldown ago an alert was raised under the *)
(* key of the reader's access alerts: one about this card, about any other *)
(* card, or of a window below one second, for all of them share that key.  *)
OffendersNoticed ==
  [][\A r \in Readers, c \in Cards :
       /\ Offends(r, c) /\ since[Key(r, 0)] >= cooldown
       /\ ~\E x \in out' : x.key = Key(r, 0) /\ x.about = c
       => ~CardEvent(r, c)]_vars

(* Whatever path raised it, an alert comes no sooner than the cooldown in  *)
(* force allows after the latest alert under its key, reloads in between   *)
(* or not; unless that alert was raised while the cooldown was zero, which *)
(* leaves no trace in the map (cooldown.go:19-21).                         *)
AlertsSpaced ==
  [][\A x \in out' : since[x.key] >= cooldown \/ x.key \in off]_vars

(* A card that fails for ever is reported again and again: the cooldown    *)
(* thins its alerts out and never silences them (cooldown.go:26-40).       *)
AttackKeepsAlerting ==
  \A r \in Readers, c \in Cards :
    <>[](history[r][c] = <<TRUE, TRUE>>) => []<>(Repeated(r, c) \in out)
=============================================================================
