------------------------------ MODULE MCDedupe ------------------------------
(* Dedupe for TLC: attempts are only compared.  A reload may change the    *)
(* window, the skews, or both.                                             *)
EXTENDS Dedupe, TLC

Config(w, p, f) == [window |-> w, past |-> p, future |-> f]

MCConfigs == {Config(0, 1, 1), Config(1, 1, 1), Config(3, 0, 1)}

AttemptSymmetry == Permutations(Attempts)
=============================================================================
