-------------------------- MODULE MCConfigManager --------------------------
(* Two policies, two settings of the rest, one POST, two edits: enough for *)
(* a reload, an edit and a POST to meet, and for a file to be invalid when *)
(* Watch finds it and valid later.                                         *)
EXTENDS ConfigManager, TLC

CONSTANTS p1, p2, t1, t2, u1

MCPolicies   == {p1, p2}
MCThresholds == {t1, t2}
MCPosts      == {u1}
=============================================================================
