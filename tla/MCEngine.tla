------------------------------ MODULE MCEngine ------------------------------
(* Engine for TLC: a policy that alerts on everything and one that alerts  *)
(* on nothing, and two sets of windows, one of which shares a second with  *)
(* the other (1 s and 1.5 s) and adds a window of 10 s.                    *)
EXTENDS Engine, TLC

CONSTANTS r1, r2, u1, watcher, post

MCReaders == {r1, r2}
MCUIDs == {u1}
MCUpdaters == {watcher, post}

MCConfigs ==
  {[windows |-> <<2>>, cooldown |-> TRUE, flagged |-> {u1}],
   [windows |-> <<3, 20>>, cooldown |-> FALSE, flagged |-> {}]}

(* Readers are only compared, and so are the callers of UpdateConfig.      *)
EngineSymmetry == Permutations(MCReaders) \cup Permutations(MCUpdaters)
=============================================================================
