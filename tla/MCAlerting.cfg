SPECIFICATION FairSpec
CONSTANTS
  Readers <- MCReaders
  Spellings <- MCSpellings
  Cards <- MCCards
  NoUID = "none"
  Canonical <- MCCanonical
  Seconds = {0}
  Cooldowns = {0, 1, 2}
  Policies <- MCPolicies
  MaxCooldown = 2
INVARIANTS
  TypeOK
  StreakAlertsEarned
PROPERTIES
  StreakAlertsRaised
  OffendersNoticed
  AlertsSpaced
  AttackKeepsAlerting
