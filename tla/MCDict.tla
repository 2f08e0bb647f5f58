------------------------------- MODULE MCDict -------------------------------
(* Three keys, two of which collide; the smallest dictionary has one slot, *)
(* so that the three keys make it grow twice.  A fourth entry is reached   *)
(* when an xstrdup failed.                                                 *)
EXTENDS Dict

CONSTANTS k1, k2, k3

MCKeys == {k1, k2, k3}
MCHash == [k \in Keys |-> CASE k \in {k1, k2} -> 7 [] k = k3 -> 0]
MCValues == {"a", "b"}
=============================================================================
