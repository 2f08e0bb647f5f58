------------------------------ MODULE DictMap ------------------------------
(***************************************************************************)
(* What dict.h promises: a map from keys to values, as the set of its      *)
(* key/value pairs.  Setting a key replaces its pair or adds one, unsetting *)
(* a key removes its pair.  A dictionary that could not be allocated or    *)
(* could not grow is not usable any more, and has nothing in it.           *)
(***************************************************************************)
CONSTANTS Keys, Values

VARIABLES map, usable

Init == map = {} /\ usable \in BOOLEAN

Without(k) == {p \in map : p[1] # k}

Set(k, v) == usable /\ map' = Without(k) \cup {<<k, v>>} /\ UNCHANGED usable
Unset(k) == usable /\ map' = Without(k) /\ UNCHANGED usable

(* all pairs at once, and for ever *)
Lose == usable /\ map' = {} /\ usable' = FALSE

Next == Lose \/ \E k \in Keys : Unset(k) \/ \E v \in Values : Set(k, v)

Spec == Init /\ [][Next]_<<map, usable>>
=============================================================================
