----------------------------- MODULE MCAlerting -----------------------------
(* Alerting for TLC: two cards, one of them with two spellings, a spelling *)
(* without a hex digit, one reader, and two policies that differ in the    *)
(* lists they use, under any cooldown.                                     *)
EXTENDS Alerting

MCReaders == {"r1"}
MCSpellings == {"de:ad", "DEAD", "beef", "?"}
MCCards == {"DEAD", "BEEF"}
MCCanonical ==
  [s \in MCSpellings |-> CASE s \in {"de:ad", "DEAD"} -> "DEAD"
                           [] s = "beef" -> "BEEF"
                           [] s = "?" -> "none"]

Nobody == [r \in MCReaders |-> {}]

MCPolicies ==
  {[enabled |-> TRUE, whitelistOnly |-> TRUE,
    whitelist |-> {"de:ad"}, blacklist |-> {},
    readerWhitelists |-> Nobody, readerBlacklists |-> Nobody],
   [enabled |-> TRUE, whitelistOnly |-> FALSE,
    whitelist |-> {}, blacklist |-> {"DEAD", "?"},
    readerWhitelists |-> Nobody, readerBlacklists |-> [r \in MCReaders |-> {"beef"}]]}
=============================================================================
