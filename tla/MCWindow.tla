------------------------------ MODULE MCWindow ------------------------------
(* Window and Rules for TLC.  A reload may widen or narrow the past skew.  *)
(* The thresholds lie where one event more or less decides.                *)
EXTENDS Rules

MCSkews == {[past |-> 1, future |-> 1], [past |-> 2, future |-> 1]}

One == <<1, 1>>
Half == <<1, 2>>
Five == <<5, 1>>
Ones == [aps |-> 1, fr |-> 1, uds |-> 1, tv |-> 1]
=============================================================================
