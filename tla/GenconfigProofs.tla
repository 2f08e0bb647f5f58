-------------------------- MODULE GenconfigProofs --------------------------
(***************************************************************************)
(* Proofs about tools/genconfig.                                           *)
(*                                                                         *)
(* The dictionary, for every set of keys, every hash function and every    *)
(* initial size: a free slot exists whenever one is looked for, the count  *)
(* is exact, and the arrays implement the map of dict.h until an           *)
(* allocation of an array fails and the map is lost.                       *)
(*                                                                         *)
(* The template processor, for every set of notations, lines and values    *)
(* and every size of the buffer: a piece in which nothing can be read as a *)
(* reference in two ways comes out with its references replaced, and the   *)
(* bytes written are bounded by those allocated.  What the loops of the    *)
(* code compute are recursive functions; that they exist, and their        *)
(* values, is derived from the least-number principle (Least, FromZero).   *)
(***************************************************************************)
EXTENDS Dict, Genconfig, FiniteSetTheorems, SequenceTheorems, WellFoundedInduction, TLAPS

-----------------------------------------------------------------------------
(* The dictionary *)

USE DictAssumption DEF DictAssumption

(* each key at most once, each with its hash *)
Unique == \A i, j \in Occupied : key[i] = key[j] => i = j
Hashed == \A i \in Occupied : hash[i] = Hash[key[i]]

(* how the counter relates to the occupied slots *)
Counted ==
  /\ Cardinality(Occupied) <= n
  /\ n <= size
  /\ n = Cardinality(Occupied) + dropped

(* what holds as long as no array is NULL *)
Intact == lost = {} => Unique /\ Hashed /\ Counted

IInv == TypeOK /\ Intact

-----------------------------------------------------------------------------
(* What the operations of the map do to the pairs of the arrays *)
SetPairs(k, v) == Pairs' = {p \in Pairs : p[1] # k} \cup {<<k, v>>}
UnsetPairs(k) == Pairs' = {p \in Pairs : p[1] # k}

(* The slots are a finite set with size members, and so the occupied ones  *)
(* are finite too.                                                         *)
LEMMA SlotsFinite ==
  ASSUME size \in Nat \ {0}
  PROVE  /\ IsFiniteSet(Slots) /\ Cardinality(Slots) = size
         /\ IsFiniteSet(Occupied) /\ Cardinality(Occupied) \in Nat
<1>1. IsFiniteSet(Slots) /\ Cardinality(Slots) = size
  BY FS_Interval DEF Slots
<1>2. Occupied \subseteq Slots
  BY DEF Occupied
<1>3. IsFiniteSet(Occupied)
  BY <1>1, <1>2, FS_Subset
<1> QED
  BY <1>1, <1>3, FS_CardinalityType

(* A search finds k exactly when an occupied slot holds k. *)
LEMMA FoundIffStored ==
  ASSUME TypeOK, lost = {}, Hashed, NEW k \in Keys
  PROVE  Found(k) <=> \E i \in Occupied : key[i] = k
BY DEF Found, Matches, Hashed, Occupied, TypeOK

(* The first matching slot is occupied and holds k. *)
LEMMA FoundAtOccupied ==
  ASSUME NEW k \in Keys, NEW i \in Slots, FoundAt(i, k)
  PROVE  i \in Occupied /\ key[i] = k
BY DEF FoundAt, Matches, Occupied

(* When the key is missing no slot holds it: an empty count means that no  *)
(* slot is occupied, so skipping the search is sound.                      *)
LEMMA MissingNotStored ==
  ASSUME IInv, lost = {}, NEW k \in Keys, Missing(k)
  PROVE  \A i \in Occupied : key[i] # k
<1>1. CASE Found(k)
  <2>1. n = 0
    BY <1>1 DEF Missing, IInv, Intact, TypeOK
  <2>2. Cardinality(Occupied) = 0 /\ IsFiniteSet(Occupied)
    BY <2>1, SlotsFinite DEF IInv, Intact, Counted, TypeOK
  <2> QED
    BY <2>2, FS_EmptySet
<1>2. CASE ~Found(k)
  BY <1>2, FoundIffStored DEF IInv, Intact
<1> QED
  BY <1>1, <1>2

(* Arrays that agree on a set of slots hold the same pairs there. *)
LEMMA SamePairs ==
  ASSUME NEW S, NEW f, NEW g, NEW a, NEW b,
         \A j \in S : a[j] = f[j] /\ b[j] = g[j]
  PROVE  {<<a[j], b[j]>> : j \in S} = {<<f[j], g[j]>> : j \in S}
OBVIOUS

-----------------------------------------------------------------------------
(* The initial dictionary satisfies the invariant. *)
LEMMA InitIInv == Init => IInv
<1> SUFFICES ASSUME Init PROVE IInv
  OBVIOUS
<1>1. TypeOK
  <2>1. size \in Nat \ {0}
    BY DEF Init
  <2>2. lost = {} => /\ key = [i \in Slots |-> Null]
                     /\ val = [i \in Slots |-> Null]
                     /\ hash = [i \in Slots |-> 0]
    BY DEF Init
  <2>3. lost \subseteq Arrays \cup {"d"}
    BY DEF Init, Arrays
  <2> QED
    BY <2>1, <2>2, <2>3 DEF Init, TypeOK
<1>2. lost = {} => Occupied = {}
  BY DEF Init, Occupied
<1>3. lost = {} => Cardinality(Occupied) = 0
  BY <1>2, FS_EmptySet
<1> QED
  BY <1>1, <1>2, <1>3 DEF IInv, Intact, Unique, Hashed, Counted, TypeOK, Init

(* Overwriting the value of a key that is there. *)
LEMMA ExistingStep ==
  ASSUME IInv, lost = {}, NEW k \in Keys, NEW v \in Values, SetExisting(k, v)
  PROVE  IInv' /\ SetPairs(k, v)
<1>1. PICK i \in Slots : FoundAt(i, k) /\ val' = [val EXCEPT ![i] = v]
  BY DEF SetExisting
<1>2. i \in Occupied /\ key[i] = k
  BY <1>1, FoundAtOccupied
<1>3. Slots' = Slots /\ Occupied' = Occupied
  BY DEF SetExisting, Slots, Occupied
<1>4. TypeOK'
  BY <1>1, <1>3 DEF IInv, Intact, TypeOK, SetExisting
<1>5. Unique' /\ Hashed' /\ Counted'
  BY <1>3 DEF IInv, Intact, Unique, Hashed, Counted, SetExisting
<1>6. \A j \in Occupied : val'[j] = IF key[j] = k THEN v ELSE val[j]
  BY <1>1, <1>2 DEF IInv, Intact, TypeOK, Unique, Occupied
<1>7. Pairs' = {<<key[j], val'[j]>> : j \in Occupied}
  BY <1>3 DEF Pairs, SetExisting
<1>8. Pairs' = {p \in Pairs : p[1] # k} \cup {<<k, v>>}
  BY <1>2, <1>6, <1>7 DEF Pairs
<1> QED
  BY <1>4, <1>5, <1>8 DEF IInv, Intact, SetPairs

(* Removing a key, or finding nothing to remove. *)
LEMMA UnsetStep ==
  ASSUME IInv, lost = {}, NEW k \in Keys, dictionary_unset(k)
  PROVE  IInv' /\ UnsetPairs(k)
<1>0. Slots' = Slots
  BY DEF dictionary_unset, Slots
<1>1. CASE ~Found(k) /\ UNCHANGED <<n, arrays>>
  <2>1. UNCHANGED <<n, size, key, val, hash, lost, dropped>>
    BY <1>1 DEF dictionary_unset, arrays
  <2>2. IInv'
    BY <2>1, <1>0 DEF IInv, Intact, TypeOK, Unique, Hashed, Counted, Occupied
  <2>3. Pairs' = Pairs
    BY <2>1, <1>0 DEF Pairs, Occupied
  <2>4. \A p \in Pairs : p[1] # k
    BY <1>1, FoundIffStored DEF IInv, Intact, Pairs
  <2> QED
    BY <2>2, <2>3, <2>4 DEF UnsetPairs
<1>2. ASSUME NEW i \in Slots, FoundAt(i, k),
             key' = [key EXCEPT ![i] = Null],
             val' = [val EXCEPT ![i] = Null],
             hash' = [hash EXCEPT ![i] = 0],
             n' = n - 1
      PROVE  IInv' /\ UnsetPairs(k)
  <2>1. i \in Occupied /\ key[i] = k
    BY <1>2, FoundAtOccupied
  <2>2. Occupied' = Occupied \ {i}
    BY <1>0, <1>2 DEF Occupied, IInv, Intact, TypeOK
  <2>3. Cardinality(Occupied') = Cardinality(Occupied) - 1
    BY <2>1, <2>2, SlotsFinite, FS_RemoveElement DEF IInv, Intact, TypeOK
  <2>4. Cardinality(Occupied) \in Nat /\ Cardinality(Occupied') \in Nat
    <3>1. IsFiniteSet(Occupied) /\ Cardinality(Occupied) \in Nat
      BY SlotsFinite DEF IInv, Intact, TypeOK
    <3>2. IsFiniteSet(Occupied \ {i})
      BY <3>1, FS_RemoveElement
    <3> QED
      BY <3>1, <3>2, <2>2, FS_CardinalityType
  <2>5. Counted' /\ n' \in Nat
    BY <1>2, <2>3, <2>4 DEF IInv, Intact, TypeOK, Counted, dictionary_unset
  <2>6. TypeOK'
    BY <1>0, <1>2, <2>5 DEF IInv, Intact, TypeOK, dictionary_unset
  <2>7. \A j \in Occupied' : j \in Occupied /\ key'[j] = key[j]
                              /\ val'[j] = val[j] /\ hash'[j] = hash[j]
    BY <1>2, <2>2 DEF IInv, Intact, TypeOK, Occupied
  <2>8. Unique' /\ Hashed'
    BY <2>7 DEF IInv, Intact, Unique, Hashed
  <2>9. Pairs' = {<<key[j], val[j]>> : j \in Occupied \ {i}}
    BY <2>2, <2>7 DEF Pairs
  <2>10. \A j \in Occupied : key[j] = k <=> j = i
    BY <2>1 DEF IInv, Intact, Unique
  <2>11. Pairs' = {p \in Pairs : p[1] # k}
    BY <2>9, <2>10 DEF Pairs
  <2> QED
    BY <2>5, <2>6, <2>8, <2>11 DEF IInv, Intact, UnsetPairs
<1> QED
  BY <1>1, <1>2 DEF dictionary_unset

(* Arrays that hold what the current ones hold, and no more. *)
SameContents(sz, ks, vs, hs) ==
  /\ ks \in [0 .. sz - 1 -> Keys \cup {Null}]
  /\ vs \in [0 .. sz - 1 -> Values \cup {Null}]
  /\ hs \in [0 .. sz - 1 -> Nat]
  /\ Occupied = {i \in 0 .. sz - 1 : ks[i] # Null}
  /\ \A i \in Occupied : ks[i] = key[i] /\ vs[i] = val[i] /\ hs[i] = hash[i]

(* A new pair goes into a free slot of such arrays; it is lost only when   *)
(* its key could not be duplicated, which the model counts.                *)
LEMMA InsertStep ==
  ASSUME IInv, lost = {}, NEW k \in Keys, NEW v \in Values, Missing(k),
         NEW dup \in {k, Null},
         NEW sz \in Nat \ {0}, n < sz, NEW ks, NEW vs, NEW hs,
         SameContents(sz, ks, vs, hs),
         Insert(k, v, dup, sz, ks, vs, hs), UNCHANGED lost
  PROVE  IInv' /\ (SetPairs(k, v) \/ (Pairs' = Pairs /\ dropped' > 0))
<1>0. /\ ks \in [0 .. sz - 1 -> Keys \cup {Null}]
      /\ vs \in [0 .. sz - 1 -> Values \cup {Null}]
      /\ hs \in [0 .. sz - 1 -> Nat]
      /\ Occupied = {i \in 0 .. sz - 1 : ks[i] # Null}
      /\ \A i \in Occupied : ks[i] = key[i] /\ vs[i] = val[i] /\ hs[i] = hash[i]
  BY DEF SameContents
<1>1. PICK i \in 0 .. sz - 1 :
        /\ FirstEmpty(i, ks, sz)
        /\ key' = [ks EXCEPT ![i] = dup]
        /\ val' = [vs EXCEPT ![i] = v]
        /\ hash' = [hs EXCEPT ![i] = Hash[k]]
  BY DEF Insert
<1>2. i \notin Occupied
  BY <1>0, <1>1 DEF FirstEmpty
<1>3. Slots' = 0 .. sz - 1 /\ size' = sz /\ n' = n + 1
  BY DEF Insert, Slots
<1>4. TypeOK'
  <2>1. size' \in Nat \ {0} /\ n' \in Nat /\ lost' \subseteq Arrays \cup {"d"} /\ dropped' \in Nat
    BY <1>3 DEF IInv, Intact, TypeOK, Insert
  <2>2. key' \in [Slots' -> Keys \cup {Null}]
    BY <1>0, <1>1, <1>3
  <2>3. val' \in [Slots' -> Values \cup {Null}]
    BY <1>0, <1>1, <1>3
  <2>4. hash' \in [Slots' -> Nat]
    BY <1>0, <1>1, <1>3
  <2> QED
    BY <2>1, <2>2, <2>3, <2>4 DEF TypeOK
<1>5. \A j \in Occupied : /\ j \in 0 .. sz - 1 /\ j # i
                          /\ key'[j] = key[j] /\ val'[j] = val[j]
                          /\ hash'[j] = hash[j]
  BY <1>0, <1>1, <1>2
<1>6. key'[i] = dup /\ val'[i] = v /\ hash'[i] = Hash[k]
  BY <1>0, <1>1
<1>7. IsFiniteSet(Occupied) /\ Cardinality(Occupied) \in Nat
  BY SlotsFinite DEF IInv, Intact, TypeOK
<1>8. Occupied' = {j \in 0 .. sz - 1 : key'[j] # Null}
  BY <1>3 DEF Occupied
<1>9. CASE dup = Null
  <2>1. Occupied' = Occupied
    BY <1>0, <1>1, <1>2, <1>8, <1>9
  <2>2. Unique' /\ Hashed'
    BY <2>1, <1>5 DEF IInv, Intact, Unique, Hashed
  <2>3. Counted'
    BY <2>1, <1>3, <1>7, <1>9 DEF IInv, Intact, Counted, TypeOK, Insert
  <2>4. Pairs' = Pairs
    <3>0. \A j \in Occupied : key'[j] = key[j] /\ val'[j] = val[j]
      BY <1>5
    <3>1. {<<key'[j], val'[j]>> : j \in Occupied} = Pairs
      BY ONLY <3>0, SamePairs, Zenon DEF Pairs
    <3>2. Pairs' = {<<key'[j], val'[j]>> : j \in Occupied}
      BY <2>1 DEF Pairs
    <3> QED
      BY <3>1, <3>2
  <2>5. dropped' > 0
    BY <1>9 DEF IInv, Intact, TypeOK, Insert
  <2> QED
    BY <1>4, <2>2, <2>3, <2>4, <2>5 DEF IInv, Intact
<1>10. CASE dup = k
  <2>1. Occupied' = Occupied \cup {i}
    BY <1>0, <1>1, <1>8, <1>10
  <2>2. Cardinality(Occupied') = Cardinality(Occupied) + 1
    BY <1>2, <1>7, <2>1, FS_AddElement
  <2>3. \A j \in Occupied : key[j] # k
    BY MissingNotStored
  <2>4. Unique'
    BY <1>5, <1>6, <1>10, <2>1, <2>3 DEF IInv, Intact, Unique
  <2>5. Hashed'
    BY <1>5, <1>6, <1>10, <2>1 DEF IInv, Intact, Hashed
  <2>6. Counted'
    BY <2>2, <1>3, <1>7, <1>10 DEF IInv, Intact, Counted, TypeOK, Insert
  <2>7. Pairs' = {<<key'[j], val'[j]>> : j \in Occupied} \cup {<<k, v>>}
    BY <2>1, <1>6, <1>10 DEF Pairs
  <2>8. Pairs' = Pairs \cup {<<k, v>>}
    <3>0. \A j \in Occupied : key'[j] = key[j] /\ val'[j] = val[j]
      BY <1>5
    <3>1. {<<key'[j], val'[j]>> : j \in Occupied} = Pairs
      BY ONLY <3>0, SamePairs, Zenon DEF Pairs
    <3> QED
      BY <2>7, <3>1
  <2>9. \A p \in Pairs : p[1] # k
    BY <2>3 DEF Pairs
  <2>10. SetPairs(k, v)
    BY <2>8, <2>9 DEF SetPairs
  <2>11. IInv'
    BY <1>4, <2>4, <2>5, <2>6 DEF IInv, Intact
  <2> QED
    BY <2>10, <2>11
<1> QED
  BY <1>9, <1>10

(* A new key, with or without growing the arrays. *)
LEMMA NewStep ==
  ASSUME IInv, lost = {}, NEW k \in Keys, NEW v \in Values, SetNew(k, v)
  PROVE  IInv' /\ (SetPairs(k, v) \/ (Pairs' = Pairs /\ dropped' > 0))
<1>1. PICK dup \in {k, Null} :
        IF n = size
        THEN Insert(k, v, dup, 2 * size, Doubled(key, Null, size),
                    Doubled(val, Null, size), Doubled(hash, 0, size))
        ELSE Insert(k, v, dup, size, key, val, hash)
  BY DEF SetNew
<1>2. dup \in {k, Null}
  BY <1>1
<1>3. Missing(k) /\ UNCHANGED lost
  BY DEF SetNew
<1>4. CASE n = size
  <2> DEFINE sz == 2 * size
             ks == Doubled(key, Null, size)
             vs == Doubled(val, Null, size)
             hs == Doubled(hash, 0, size)
  <2>1. sz \in Nat \ {0} /\ n < sz
    BY <1>4 DEF IInv, Intact, TypeOK
  <2>2. /\ ks \in [0 .. sz - 1 -> Keys \cup {Null}]
        /\ vs \in [0 .. sz - 1 -> Values \cup {Null}]
        /\ hs \in [0 .. sz - 1 -> Nat]
    BY DEF IInv, Intact, TypeOK, Doubled, Slots
  <2>3. \A i \in 0 .. sz - 1 : ks[i] = IF i < size THEN key[i] ELSE Null
    BY DEF Doubled
  <2>4. \A i \in Slots : /\ i \in 0 .. sz - 1
                         /\ ks[i] = key[i] /\ vs[i] = val[i] /\ hs[i] = hash[i]
    BY DEF IInv, Intact, TypeOK, Doubled, Slots
  <2>5. Occupied = {i \in 0 .. sz - 1 : ks[i] # Null}
    BY <2>3, <2>4 DEF Occupied, Slots, IInv, Intact, TypeOK
  <2>6. \A i \in Occupied : ks[i] = key[i] /\ vs[i] = val[i] /\ hs[i] = hash[i]
    BY <2>4 DEF Occupied
  <2>7. Insert(k, v, dup, sz, ks, vs, hs)
    BY <1>1, <1>4
  <2>8. SameContents(sz, ks, vs, hs)
    BY <2>2, <2>5, <2>6 DEF SameContents
  <2> HIDE DEF sz, ks, vs, hs
  <2> QED
    BY <1>2, <1>3, <2>1, <2>7, <2>8, InsertStep
<1>5. CASE n # size
  <2>1. size \in Nat \ {0} /\ n < size
    BY <1>5 DEF IInv, Intact, TypeOK, Counted
  <2>2. SameContents(size, key, val, hash)
    BY DEF IInv, Intact, TypeOK, Slots, Occupied, SameContents
  <2>3. Insert(k, v, dup, size, key, val, hash)
    BY <1>1, <1>5
  <2> QED
    BY <1>2, <1>3, <2>1, <2>2, <2>3, InsertStep
<1> QED
  BY <1>4, <1>5

(* A step without effect on the dictionary, *)
LEMMA Stutter ==
  ASSUME IInv, UNCHANGED <<n, size, arrays, lost, dropped>>
  PROVE  IInv' /\ Pairs' = Pairs
<1>1. UNCHANGED <<n, size, key, val, hash, lost, dropped>>
  BY DEF arrays
<1>2. Slots' = Slots /\ Occupied' = Occupied
  BY <1>1 DEF Slots, Occupied
<1> QED
  BY <1>1, <1>2 DEF IInv, Intact, TypeOK, Unique, Hashed, Counted, Pairs

(* and one that loses an array, or has lost one before. *)
LEMMA Losing ==
  ASSUME IInv, UNCHANGED <<n, size, dropped>>,
         lost' # {}, lost' \subseteq Arrays \cup {"d"}
  PROVE  IInv'
BY DEF IInv, Intact, TypeOK

(* A step on a dictionary with its arrays changes its pairs as a set, as   *)
(* an unset or not at all; or it loses the arrays, and they stay lost.     *)
LEMMA NextStep ==
  ASSUME IInv, [Next]_vars
  PROVE  /\ IInv'
         /\ lost # {} => lost' # {}
         /\ (lost = {} /\ lost' = {}) =>
              \/ Pairs' = Pairs
              \/ \E k \in Keys : UnsetPairs(k)
              \/ \E k \in Keys, v \in Values : SetPairs(k, v)
<1>1. CASE UNCHANGED vars
  <2>1. UNCHANGED <<n, size, arrays, lost, dropped>>
    BY <1>1 DEF vars, arrays
  <2> QED
    BY <2>1, Stutter
<1>2. ASSUME NEW k \in Keys, dictionary_unset(k), lost = {}
      PROVE  IInv' /\ lost' = {} /\ UnsetPairs(k)
  <2>1. lost' = {}
    BY <1>2 DEF dictionary_unset
  <2> QED
    BY <1>2, <2>1, UnsetStep
<1>3. ASSUME NEW k \in Keys, dictionary_unset(k), lost # {}
      PROVE  IInv' /\ lost' # {}
  <2>1. UNCHANGED <<n, size, dropped, lost>>
    BY <1>3 DEF dictionary_unset
  <2> QED
    BY <1>3, <2>1, Losing DEF IInv, TypeOK
<1>4. ASSUME NEW k \in Keys, NEW v \in Values, SetExisting(k, v)
      PROVE  IInv' /\ lost = {} /\ lost' = {} /\ SetPairs(k, v)
  <2>1. lost = {} /\ lost' = {}
    BY <1>4 DEF SetExisting
  <2> QED
    BY <1>4, <2>1, ExistingStep
<1>5. ASSUME NEW k \in Keys, NEW v \in Values, SetNew(k, v)
      PROVE  IInv' /\ lost = {} /\ lost' = {} /\ (SetPairs(k, v) \/ Pairs' = Pairs)
  <2>1. lost = {} /\ lost' = {}
    BY <1>5 DEF SetNew
  <2> QED
    BY <1>5, <2>1, NewStep
<1>6. ASSUME NEW k \in Keys, NEW v \in Values, SetNoMemory(k, v)
      PROVE  IInv' /\ lost' # {}
  <2>1. PICK gone \in (SUBSET Arrays) \ {{}} : lost' = gone
    BY <1>6 DEF SetNoMemory
  <2>2. UNCHANGED <<n, size, dropped>>
    BY <1>6 DEF SetNoMemory
  <2> QED
    BY <2>1, <2>2, Losing
<1>7. ASSUME NullDereference \/ \E k \in Keys, v \in Values : SetNull(k, v)
      PROVE  IInv' /\ lost' # {} /\ lost # {}
  <2>1. UNCHANGED <<n, size, arrays, lost, dropped>> /\ lost # {}
    BY <1>7 DEF NullDereference, SetNull
  <2> QED
    BY <2>1, Stutter
<1> QED
  BY <1>1, <1>2, <1>3, <1>4, <1>5, <1>6, <1>7 DEF Next, dictionary_set

(* The inductive invariant of the dictionary. *)
THEOREM Inductive == Spec => []IInv
BY InitIInv, NextStep, PTL DEF Spec

(* d->n is exact up to the keys that could not be duplicated, no key is    *)
(* stored twice, and every stored hash belongs to its key.                 *)
THEOREM DictConsistent == Spec => []Consistent
<1>1. IInv => Consistent
  BY DEF IInv, Intact, Consistent, Counted, Unique, Hashed
<1> QED
  BY <1>1, Inductive, PTL

(* The loop of dictionary_set that looks for a free slot (dict.c:249) has  *)
(* one to find, also when xstrdup has failed before.                       *)
THEOREM DictRoomToInsert == Spec => []RoomToInsert
<1>1. IInv /\ lost = {} => RoomToInsert
  <2> SUFFICES ASSUME IInv, lost = {} PROVE RoomToInsert
    OBVIOUS
  <2>1. IsFiniteSet(Slots) /\ Cardinality(Slots) = size
    BY SlotsFinite DEF IInv, TypeOK
  <2>2. ASSUME n < size, \A i \in Slots : key[i] # Null PROVE FALSE
    <3>1. Occupied = Slots
      BY <2>2 DEF Occupied
    <3> QED
      BY <2>1, <2>2, <3>1 DEF IInv, Intact, Counted, TypeOK
  <2> QED
    BY <2>2 DEF RoomToInsert, IInv, Intact, Counted
<1>2. IInv => RoomToInsert
  BY <1>1 DEF RoomToInsert
<1> QED
  BY <1>2, Inductive, PTL

(* The three arrays implement the map of dict.h: every call is one Set or  *)
(* Unset of the map, or leaves it alone because the new key could not be   *)
(* duplicated; a growth that fails loses the map, for good.                *)
THEOREM DictImplementsMap == Spec => ImplementsMap
<1>1. Init => Abs!Init
  BY DEF Init, Abs!Init, Pairs, Occupied
<1>2. IInv /\ [Next]_vars
        => [Abs!Next]_<<IF lost = {} THEN Pairs ELSE {}, lost = {}>>
  <2> SUFFICES ASSUME IInv, [Next]_vars
               PROVE  [Abs!Next]_<<IF lost = {} THEN Pairs ELSE {}, lost = {}>>
    OBVIOUS
  <2>1. CASE lost # {}
    BY <2>1, NextStep
  <2>2. CASE lost = {} /\ lost' # {}
    BY <2>2 DEF Abs!Next, Abs!Lose
  <2>3. CASE lost = {} /\ lost' = {}
    <3>1. CASE Pairs' = Pairs
      BY <2>3, <3>1
    <3>2. ASSUME NEW k \in Keys, UnsetPairs(k)
          PROVE  Abs!Next
      BY <2>3, <3>2 DEF UnsetPairs, Abs!Next, Abs!Unset, Abs!Without
    <3>3. ASSUME NEW k \in Keys, NEW v \in Values, SetPairs(k, v)
          PROVE  Abs!Next
      BY <2>3, <3>3 DEF SetPairs, Abs!Next, Abs!Set, Abs!Without
    <3> QED
      BY <2>3, <3>1, <3>2, <3>3, NextStep
  <2> QED
    BY <2>1, <2>2, <2>3
<1> QED
  BY <1>1, <1>2, Inductive, PTL DEF Spec, ImplementsMap, Abs!Spec

(* what a successful dictionary_set leaves behind as long as no key was    *)
(* dropped: its pair is in the map the arrays represent                    *)
LastInv ==
  dropped = 0 /\ last.op = "set" /\ last.ret = 0
    => lost = {} /\ last.k \in Keys /\ <<last.k, last.v>> \in Pairs

(* Every step establishes it anew, or leaves last and the pairs alone. *)
LEMMA LastStep ==
  ASSUME IInv, LastInv, [Next]_vars
  PROVE  LastInv'
<1>1. CASE UNCHANGED vars
  <2>1. UNCHANGED <<dropped, last, lost>> /\ Pairs' = Pairs
    BY <1>1 DEF vars, Pairs, Occupied, Slots
  <2> QED
    BY <2>1 DEF LastInv
<1>2. ASSUME NEW k \in Keys, dictionary_unset(k)
      PROVE  LastInv'
  <2>1. last' = [op |-> "unset", k |-> k]
    BY <1>2 DEF dictionary_unset
  <2>2. last'.op # "set"
    BY <2>1
  <2> QED
    BY <2>2 DEF LastInv
<1>3. ASSUME NEW k \in Keys, NEW v \in Values, SetExisting(k, v) \/ SetNew(k, v)
      PROVE  LastInv'
  <2>1. last' = [op |-> "set", k |-> k, v |-> v, ret |-> 0]
    BY <1>3 DEF SetExisting, SetNew
  <2>2. last'.k = k /\ last'.v = v
    BY <2>1
  <2>3. lost = {} /\ lost' = {}
    BY <1>3 DEF SetExisting, SetNew
  <2>4. SetPairs(k, v) \/ dropped' > 0
    BY <1>3, <2>3, ExistingStep, NewStep
  <2>5. <<k, v>> \in Pairs' \/ dropped' > 0
    BY <2>4 DEF SetPairs
  <2> QED
    BY <2>2, <2>3, <2>5 DEF LastInv
<1>4. ASSUME NEW k \in Keys, NEW v \in Values, SetNoMemory(k, v) \/ SetNull(k, v)
      PROVE  LastInv'
  <2>1. last' = [op |-> "set", k |-> k, v |-> v, ret |-> -1]
    BY <1>4 DEF SetNoMemory, SetNull
  <2>2. last'.ret # 0
    BY <2>1
  <2> QED
    BY <2>2 DEF LastInv
<1>5. CASE NullDereference
  <2>1. last' = [op |-> "crash"]
    BY <1>5 DEF NullDereference
  <2>2. last'.op # "set"
    BY <2>1
  <2> QED
    BY <2>2 DEF LastInv
<1> QED
  BY <1>1, <1>2, <1>3, <1>4, <1>5 DEF Next, dictionary_set

(* dictionary_get returns the value paired with a stored key: the first    *)
(* slot that matches is the only one that holds the key.                   *)
LEMMA GetReadsPair ==
  ASSUME IInv, lost = {}, NEW k \in Keys, NEW v, NEW def, <<k, v>> \in Pairs
  PROVE  dictionary_get(k, def) = v
<1>1. PICK i \in Occupied : key[i] = k /\ val[i] = v
  BY DEF Pairs
<1>2. i \in Slots /\ Matches(i, k)
  BY <1>1 DEF Occupied, Matches, IInv, Intact, Hashed
<1>3. \A j \in Slots : Matches(j, k) => j = i
  BY <1>1 DEF Matches, IInv, Intact, Unique, Occupied
<1>4. FoundAt(i, k)
  BY <1>2, <1>3 DEF FoundAt, Slots
<1>5. \A j \in Slots : FoundAt(j, k) => j = i
  BY <1>3 DEF FoundAt
<1>6. (CHOOSE j \in Slots : FoundAt(j, k)) = i
  BY <1>2, <1>4, <1>5
<1>7. Found(k)
  BY <1>2 DEF Found
<1> QED
  BY <1>1, <1>6, <1>7 DEF dictionary_get

(* As long as no key duplication failed, a dictionary_get right after a    *)
(* dictionary_set that returned 0 finds the value (dict.c:203): also when  *)
(* the arrays were doubled, hashes collide or slots were freed before.     *)
THEOREM SetCanBeRead == Spec => []SetStores
<1>1. Init => LastInv
  BY DEF Init, LastInv
<1>2. IInv /\ LastInv => SetStores
  BY GetReadsPair DEF LastInv, SetStores
<1> QED
  BY <1>1, <1>2, LastStep, Inductive, PTL DEF Spec

HIDE DictAssumption DEF DictAssumption

-----------------------------------------------------------------------------
(* Numbers: least and greatest members, induction, and functions defined   *)
(* value by value                                                          *)

(* A set of naturals has a least member. *)
LEMMA Least ==
  ASSUME NEW S, S \subseteq Nat, S # {}
  PROVE  \E i \in S : \A j \in S : i <= j
<1>1. PICK i \in S : \A j \in S : ~ (<<j, i>> \in OpToRel(<, Nat))
  BY NatLessThanWellFounded, WFMin
<1>2. ASSUME NEW j \in S, j < i PROVE FALSE
  <2>1. <<j, i>> \in Nat \X Nat /\ <<j, i>>[1] < <<j, i>>[2]
    BY <1>2
  <2>2. <<j, i>> \in OpToRel(<, Nat)
    BY <2>1, Zenon DEF OpToRel
  <2> QED
    BY <1>1, <2>2
<1> QED
  BY <1>2

(* What holds at 0 and carries over to the next number holds up to top. *)
LEMMA FromZero ==
  ASSUME NEW top \in Nat, NEW S, 0 \in S,
         \A i \in 0 .. top - 1 : i \in S => i + 1 \in S
  PROVE  0 .. top \subseteq S
<1> DEFINE B == {i \in 0 .. top : i \notin S}
<1>1. SUFFICES ASSUME B # {} PROVE FALSE
  OBVIOUS
<1>2. PICK i \in B : \A j \in B : i <= j
  <2>1. B \subseteq Nat
    OBVIOUS
  <2> HIDE DEF B
  <2> QED
    BY <1>1, <2>1, Least
<1>3. i # 0
  OBVIOUS
<1>4. i - 1 \in 0 .. top - 1 /\ i - 1 \notin B
  BY <1>2, <1>3
<1> QED
  BY <1>4

(* A bounded set of numbers has a greatest one. *)
LEMMA Greatest ==
  ASSUME NEW top \in Nat, NEW S, S \subseteq 0 .. top, S # {}
  PROVE  \E i \in S : \A j \in S : i >= j
<1> DEFINE R == {top - i : i \in S}
<1>1. R \subseteq Nat /\ R # {}
  <2>1. ASSUME NEW i \in S PROVE top - i \in Nat
    OBVIOUS
  <2>2. \A i \in S : top - i \in R
    OBVIOUS
  <2> QED
    BY <2>1, <2>2
<1>2. PICK k \in R : \A j \in R : k <= j
  <2> HIDE DEF R
  <2> QED
    BY <1>1, Least
<1>3. PICK i \in S : k = top - i
  OBVIOUS
<1>4. ASSUME NEW j \in S PROVE i >= j
  <2>1. top - j \in R
    OBVIOUS
  <2>2. top - i <= top - j /\ i \in Int /\ j \in Int
    BY <1>2, <1>3, <2>1
  <2> QED
    BY <2>2
<1> QED
  BY <1>4

(* A function can be defined value by value, each from the one before it. *)
DefinedUp(f, top, v0, g) ==
  f[0] = v0 /\ \A i \in 1 .. top : f[i] = g[<<i, f[i - 1]>>]

LEMMA Iterate ==
  ASSUME NEW top \in Nat, NEW V, NEW v0 \in V, NEW g \in [(1 .. top) \X V -> V]
  PROVE  \E f \in [0 .. top -> V] : DefinedUp(f, top, v0, g)
<1> DEFINE P(k) == \E f \in [0 .. k -> V] :
             f[0] = v0 /\ \A i \in 1 .. k : f[i] = g[<<i, f[i - 1]>>]
           S == {k \in 0 .. top : P(k)}
<1>1. 0 \in S
  <2> DEFINE f == [i \in 0 .. 0 |-> v0]
  <2>1. f \in [0 .. 0 -> V] /\ f[0] = v0 /\ 1 .. 0 = {}
    OBVIOUS
  <2>2. P(0)
    <3> HIDE DEF f
    <3> QED
      BY <2>1
  <2> QED
    BY <2>2
<1>2. ASSUME NEW k \in 0 .. top - 1, k \in S PROVE k + 1 \in S
  <2>1. PICK f \in [0 .. k -> V] :
          f[0] = v0 /\ \A i \in 1 .. k : f[i] = g[<<i, f[i - 1]>>]
    BY <1>2
  <2> DEFINE h == [i \in 0 .. k + 1 |-> IF i = k + 1 THEN g[<<k + 1, f[k]>>] ELSE f[i]]
  <2>2. g[<<k + 1, f[k]>>] \in V
    OBVIOUS
  <2>3. h \in [0 .. k + 1 -> V]
    BY <2>2
  <2>4. h[0] = v0
    BY <2>1
  <2>5. ASSUME NEW i \in 1 .. k + 1 PROVE h[i] = g[<<i, h[i - 1]>>]
    <3>1. h[i - 1] = f[i - 1]
      OBVIOUS
    <3>2. CASE i = k + 1
      <4>1. i - 1 = k /\ h[i] = g[<<k + 1, f[k]>>]
        BY <3>2
      <4> HIDE DEF h
      <4> QED
        BY <3>1, <3>2, <4>1
    <3>3. CASE i # k + 1
      <4>1. i \in 1 .. k /\ h[i] = f[i]
        BY <3>3
      <4> HIDE DEF h
      <4> QED
        BY <2>1, <3>1, <4>1
    <3> QED
      BY <3>2, <3>3
  <2>6. P(k + 1)
    <3> HIDE DEF h
    <3> QED
      BY <2>3, <2>4, <2>5
  <2> QED
    BY <2>6
<1>3. top \in S
  <2> HIDE DEF S
  <2> QED
    BY <1>1, <1>2, FromZero
<1> QED
  BY <1>3 DEF DefinedUp

(* A function can be defined value by value from the end, each from one    *)
(* behind it.                                                              *)
DefinedDown(f, top, D, base, m, next, beyond) ==
  \A o \in 0 .. top :
    f[o] = IF o \notin D THEN base[o]
           ELSE {m[o]} \cup (IF next[o] <= top THEN f[next[o]] ELSE beyond)

LEMMA IterateDown ==
  ASSUME NEW top \in Nat, NEW D \in SUBSET (0 .. top), NEW M, NEW m \in [D -> M],
         NEW base \in [0 .. top -> SUBSET M], NEW beyond \in SUBSET M,
         NEW next \in [D -> Int], \A o \in D : next[o] > o
  PROVE  \E f \in [0 .. top -> SUBSET M] : DefinedDown(f, top, D, base, m, next, beyond)
<1> DEFINE Rhs(f, o) == IF o \notin D THEN base[o]
                        ELSE {m[o]} \cup (IF next[o] <= top THEN f[next[o]] ELSE beyond)
           P(k) == \E f \in [top - k .. top -> SUBSET M] : \A o \in top - k .. top : f[o] = Rhs(f, o)
           S == {k \in 0 .. top : P(k)}
<1>1. 0 \in S
  <2> DEFINE f == [o \in top - 0 .. top |-> IF o \notin D THEN base[o] ELSE {m[o]} \cup beyond]
  <2>1. ASSUME NEW o \in top - 0 .. top PROVE f[o] = Rhs(f, o)
    <3>1. o \in D => ~ (next[o] <= top)
      OBVIOUS
    <3>2. f[o] = IF o \notin D THEN base[o] ELSE {m[o]} \cup beyond
      OBVIOUS
    <3> HIDE DEF f
    <3> QED
      BY <3>1, <3>2
  <2>2. f \in [top - 0 .. top -> SUBSET M]
    <3>1. ASSUME NEW o \in top - 0 .. top
          PROVE  (IF o \notin D THEN base[o] ELSE {m[o]} \cup beyond) \in SUBSET M
      <4>1. o \in 0 .. top
        OBVIOUS
      <4>2. CASE o \in D
        <5>1. m[o] \in M
          BY <4>2
        <5> QED
          BY <4>2, <5>1
      <4>3. CASE o \notin D
        BY <4>1, <4>3
      <4> QED
        BY <4>2, <4>3
    <3> QED
      BY <3>1
  <2> HIDE DEF f, Rhs
  <2> QED
    BY <2>1, <2>2
<1>2. ASSUME NEW k \in 0 .. top - 1, k \in S PROVE k + 1 \in S
  <2>1. PICK f \in [top - k .. top -> SUBSET M] : \A o \in top - k .. top : f[o] = Rhs(f, o)
    BY <1>2
  <2> DEFINE h == [o \in top - (k + 1) .. top |-> IF o = top - (k + 1) THEN Rhs(f, o) ELSE f[o]]
  <2>2. ASSUME NEW o \in top - (k + 1) .. top PROVE Rhs(f, o) = Rhs(h, o) /\ Rhs(f, o) \in SUBSET M
    <3>1. CASE o \in D
      <4>1. next[o] <= top => next[o] \in top - k .. top
        BY <3>1
      <4>2. next[o] <= top => h[next[o]] = f[next[o]] /\ f[next[o]] \in SUBSET M
        BY <4>1
      <4>3. m[o] \in M
        BY <3>1
      <4> HIDE DEF h
      <4> QED
        BY <3>1, <4>2, <4>3
    <3>2. CASE o \notin D
      <4>1. o \in 0 .. top
        OBVIOUS
      <4> HIDE DEF h
      <4> QED
        BY <3>2, <4>1
    <3> QED
      BY <3>1, <3>2
  <2>3. ASSUME NEW o \in top - (k + 1) .. top PROVE h[o] = Rhs(h, o) /\ h[o] \in SUBSET M
    <3>1. h[o] = Rhs(f, o)
      <4>1. o # top - (k + 1) => o \in top - k .. top
        OBVIOUS
      <4> HIDE DEF Rhs
      <4> QED
        BY <2>1, <4>1
    <3> HIDE DEF h, Rhs
    <3> QED
      BY <3>1, <2>2
  <2>4. h \in [top - (k + 1) .. top -> SUBSET M]
    <3>1. DOMAIN h = top - (k + 1) .. top /\ h = [o \in DOMAIN h |-> h[o]]
      OBVIOUS
    <3> HIDE DEF h, Rhs
    <3> QED
      BY <2>3, <3>1
  <2> HIDE DEF h, Rhs
  <2> QED
    BY <2>3, <2>4
<1>3. top \in S
  <2> HIDE DEF S
  <2>1. 0 .. top \subseteq S
    BY <1>1, <1>2, FromZero
  <2> QED
    BY <2>1
<1>4. top - top = 0
  OBVIOUS
<1> QED
  BY <1>3, <1>4 DEF DefinedDown

-----------------------------------------------------------------------------
USE GenconfigAssumption DEF GenconfigAssumption

(* The characters that a piece and what becomes of it are made of. *)
LineCells == UNION {Range(l) : l \in Lines}
ValueCells == UNION {Range(Args[v]) : v \in DOMAIN Args}
Cells == {NUL, Garbage} \cup LineCells \cup ValueCells

(* The buffer holds a string that ends inside it. *)
IsBuf(b) ==
  /\ b \in [0 .. BufSize - 1 -> Cells]
  /\ \E i \in 0 .. BufSize - 1 : b[i] = NUL

(* The mark of a crash is no character. *)
LEMMA CrashNoCell ==
  "crash" \notin Cells
<1>1. "crash" # NUL /\ "crash" # Garbage
  BY DEF NUL, Garbage
<1>2. Crash[1] = "crash"
  BY DEF Crash
<1>3. ASSUME NEW l, l \in Seq(Range(l) \ {Crash[1]}), "crash" \in Range(l)
      PROVE  FALSE
  <2>1. PICK i \in DOMAIN l : l[i] = "crash"
    BY <1>3 DEF Range
  <2>2. l[i] \in Range(l) \ {Crash[1]}
    BY <1>3, ElementOfSeq
  <2> QED
    BY <1>2, <2>1, <2>2
<1>4. ASSUME NEW v \in DOMAIN Args PROVE "crash" \notin Range(Args[v])
  <2>1. Args[v] \in Seq(Range(Args[v]) \ {Crash[1]})
    <3>1. Args[v] \in Seq(Range(Args[v]) \ {NUL, Crash[1]})
      BY TextAssumption DEF TextAssumption
    <3> QED
      BY <3>1
  <2> QED
    BY <1>3, <2>1
<1>5. ASSUME NEW l \in Lines PROVE "crash" \notin Range(l)
  BY <1>3, TextAssumption DEF TextAssumption
<1>6. "crash" \notin LineCells
  BY <1>5 DEF LineCells
<1>7. "crash" \notin ValueCells
  BY <1>4 DEF ValueCells
<1> QED
  BY <1>1, <1>6, <1>7 DEF Cells

(* Lines and values are sequences of cells, values without a NUL. *)
LEMMA LinesValues ==
  /\ Lines \subseteq Seq(Cells)
  /\ \A v \in DOMAIN Args : Args[v] \in Seq(Cells \ {NUL})
<1>1. ASSUME NEW l \in Lines PROVE l \in Seq(Cells)
  <2>1. l \in Seq(Range(l) \ {Crash[1]})
    BY TextAssumption DEF TextAssumption
  <2>2. Range(l) \subseteq Cells
    BY DEF Cells, LineCells
  <2> QED
    BY <2>1, <2>2
<1>2. ASSUME NEW v \in DOMAIN Args PROVE Args[v] \in Seq(Cells \ {NUL})
  <2>1. Args[v] \in Seq(Range(Args[v]) \ {NUL, Crash[1]})
    BY TextAssumption DEF TextAssumption
  <2>2. Range(Args[v]) \subseteq ValueCells
    BY DEF ValueCells
  <2>3. Range(Args[v]) \subseteq Cells
    BY <2>2 DEF Cells
  <2> QED
    BY <2>1, <2>3
<1> QED
  BY <1>1, <1>2

(* End is where the string ends. *)
LEMMA EndIs ==
  ASSUME NEW b, NEW o \in 0 .. BufSize
  PROVE  /\ End(b, o) \in o .. BufSize
         /\ End(b, o) = BufSize \/ b[End(b, o)] = NUL
         /\ \A i \in o .. End(b, o) - 1 : b[i] # NUL
<1> DEFINE S == {e \in o .. BufSize : e = BufSize \/ b[e] = NUL}
<1>1. PICK e \in S : \A j \in S : e <= j
  <2>1. S \subseteq Nat /\ BufSize \in S
    OBVIOUS
  <2> HIDE DEF S
  <2> QED
    BY <2>1, Least
<1>2. \A i \in o .. e - 1 : b[i] # NUL
  <2> SUFFICES ASSUME NEW i \in o .. e - 1, b[i] = NUL PROVE FALSE
    OBVIOUS
  <2>1. i \in S
    OBVIOUS
  <2> QED
    BY <1>1, <2>1
<1> QED
  BY <1>1, <1>2 DEF End

(* The whole string ends in front of a NUL inside the buffer, and so does  *)
(* what is left of it from any offset on.                                  *)
LEMMA EndOfPiece ==
  ASSUME NEW b, IsBuf(b)
  PROVE  /\ End(b, 0) \in 0 .. BufSize - 1
         /\ b[End(b, 0)] = NUL
         /\ \A i \in 0 .. End(b, 0) - 1 : b[i] # NUL
         /\ \A o \in 0 .. End(b, 0) : End(b, o) = End(b, 0)
<1>1. /\ End(b, 0) \in 0 .. BufSize
      /\ End(b, 0) = BufSize \/ b[End(b, 0)] = NUL
      /\ \A i \in 0 .. End(b, 0) - 1 : b[i] # NUL
  BY EndIs
<1>2. End(b, 0) # BufSize
  BY <1>1 DEF IsBuf
<1>3. ASSUME NEW o \in 0 .. End(b, 0) PROVE End(b, o) = End(b, 0)
  <2>1. /\ End(b, o) \in o .. BufSize
        /\ End(b, o) = BufSize \/ b[End(b, o)] = NUL
        /\ \A i \in o .. End(b, o) - 1 : b[i] # NUL
    BY <1>1, EndIs
  <2>2. ~ (End(b, o) < End(b, 0))
    BY <1>1, <2>1
  <2>3. ~ (End(b, 0) < End(b, o))
    BY <1>1, <1>2, <2>1
  <2> QED
    BY <1>1, <2>1, <2>2, <2>3
<1> QED
  BY <1>1, <1>2, <1>3

(* A stretch that reads as a reference lies inside the string. *)
LEMMA SpanIs ==
  ASSUME NEW b, NEW o \in 0 .. BufSize, NEW p \in Patterns, NEW x \in Spans(b, o, p)
  PROVE  /\ x[1] \in o .. End(b, o) - 1 /\ x[2] \in o + 1 .. End(b, o)
         /\ x[1] < x[2] /\ x = <<x[1], x[2]>>
<1>1. End(b, o) \in o .. BufSize
  BY EndIs
<1>2. x[1] \in o .. End(b, o) - 1 /\ x[2] \in o + 1 .. End(b, o) /\ x = <<x[1], x[2]>>
  BY DEF Spans
<1>3. x[1] + Len(Open[p]) + 1 < x[2] /\ Len(Open[p]) \in Nat
  BY DEF Spans, Reads
<1> QED
  BY <1>1, <1>2, <1>3

(* A search that finds something ends behind where it began. *)
LEMMA SearchFinds ==
  ASSUME NEW b, NEW o \in 0 .. BufSize, NEW p \in Patterns, Spans(b, o, p) # {}
  PROVE  MatchAt(b, o, p).e \in Nat /\ MatchAt(b, o, p).e > 0
<1> DEFINE S == Spans(b, o, p)
           F == {x[1] : x \in S}
           s == Leftmost(S)
           E == {x[2] : x \in {y \in S : y[1] = s}}
<1>1. \A x \in S : x[1] \in Nat /\ x[2] \in 0 .. BufSize /\ x[2] > 0
  <2> SUFFICES ASSUME NEW x \in S PROVE x[1] \in Nat /\ x[2] \in 0 .. BufSize /\ x[2] > 0
    OBVIOUS
  <2>1. x[1] \in o .. End(b, o) - 1 /\ x[2] \in o + 1 .. End(b, o) /\ End(b, o) \in o .. BufSize
    BY SpanIs, EndIs
  <2> QED
    BY <2>1
<1>2. s \in F
  <2>1. F \subseteq Nat /\ F # {}
    BY <1>1
  <2> HIDE DEF F
  <2>2. \E i \in F : \A j \in F : i <= j
    BY <2>1, Least
  <2>3. Min(F) \in F
    BY <2>2 DEF Min
  <2>4. s = Min(F)
    BY DEF Leftmost, F
  <2> QED
    BY <2>3, <2>4
<1>3. E # {} /\ E \subseteq 0 .. BufSize /\ \A e \in E : e > 0
  <2> HIDE DEF s, S
  <2> QED
    BY <1>1, <1>2
<1>4. Max(E) \in E
  <2> HIDE DEF E
  <2>1. \E i \in E : \A j \in E : i >= j
    BY <1>3, Greatest
  <2> QED
    BY <2>1 DEF Max
<1>5. Longest(S, s) = Max(E)
  BY DEF Longest
<1>6. MatchAt(b, o, p).e = Longest(S, s)
  BY DEF MatchAt
<1> QED
  <2> HIDE DEF E, S, s
  <2>1. Max(E) \in 0 .. BufSize /\ Max(E) > 0
    BY <1>3, <1>4
  <2> QED
    BY <1>5, <1>6, <2>1

(* The next search begins behind this one. *)
LEMMA ScanIs ==
  ASSUME NEW b, NEW p \in Patterns, NEW o \in 0 .. BufSize
  PROVE  /\ (End(b, o) # BufSize /\ Spans(b, o, p) = {}) => Scan(b, p)[o] = {}
         /\ (End(b, o) # BufSize /\ Spans(b, o, p) # {}
               /\ NextSearch(o, MatchAt(b, o, p).e) <= BufSize)
            => Scan(b, p)[o] = {MatchAt(b, o, p)} \cup
                                 Scan(b, p)[NextSearch(o, MatchAt(b, o, p).e)]
<1> DEFINE D == {d \in 0 .. BufSize : End(b, d) # BufSize /\ Spans(b, d, p) # {}}
           M == {MatchAt(b, d, p) : d \in D} \cup {Astray}
           base == [d \in 0 .. BufSize |-> IF End(b, d) = BufSize THEN {Astray} ELSE {}]
           m == [d \in D |-> MatchAt(b, d, p)]
           next == [d \in D |-> NextSearch(d, MatchAt(b, d, p).e)]
           beyond == {Astray}
           Rhs(f, d) == IF End(b, d) = BufSize THEN {Astray}
                        ELSE IF Spans(b, d, p) = {} THEN {}
                        ELSE {MatchAt(b, d, p)} \cup
                               (IF NextSearch(d, MatchAt(b, d, p).e) <= BufSize
                                  THEN f[NextSearch(d, MatchAt(b, d, p).e)] ELSE {Astray})
<1>1. ASSUME NEW d \in D PROVE next[d] \in Int /\ next[d] > d
  <2>1. MatchAt(b, d, p).e \in Nat /\ MatchAt(b, d, p).e > 0
    BY SearchFinds
  <2> QED
    BY <2>1 DEF NextSearch
<1>2. /\ next \in [D -> Int] /\ (\A d \in D : next[d] > d) /\ m \in [D -> M]
      /\ base \in [0 .. BufSize -> SUBSET M] /\ beyond \in SUBSET M
  <2>1. next \in [D -> Int] /\ (\A d \in D : next[d] > d)
    BY <1>1
  <2>2. \A d \in D : MatchAt(b, d, p) \in M
    OBVIOUS
  <2>3. Astray \in M
    OBVIOUS
  <2> HIDE DEF D, M
  <2> QED
    BY <2>1, <2>2, <2>3
<1>3. PICK f \in [0 .. BufSize -> SUBSET M] : DefinedDown(f, BufSize, D, base, m, next, beyond)
  <2>1. D \in SUBSET (0 .. BufSize) /\ BufSize \in Nat
    OBVIOUS
  <2> HIDE DEF D, m, next, M, base, beyond
  <2> QED
    BY <1>2, <2>1, IterateDown
<1>4. ASSUME NEW d \in 0 .. BufSize PROVE f[d] = Rhs(f, d)
  <2>1. d \in D => m[d] = MatchAt(b, d, p) /\ next[d] = NextSearch(d, MatchAt(b, d, p).e)
    OBVIOUS
  <2>2. d \in D <=> (End(b, d) # BufSize /\ Spans(b, d, p) # {})
    OBVIOUS
  <2>3. base[d] = (IF End(b, d) = BufSize THEN {Astray} ELSE {}) /\ beyond = {Astray}
    OBVIOUS
  <2>4. f[d] = IF d \notin D THEN base[d]
               ELSE {m[d]} \cup (IF next[d] <= BufSize THEN f[next[d]] ELSE beyond)
    <3> HIDE DEF D, m, next, base, beyond
    <3> QED
      BY <1>3 DEF DefinedDown
  <2> HIDE DEF D, m, next, base, beyond
  <2>5. CASE d \in D
    BY <2>1, <2>2, <2>3, <2>4, <2>5
  <2>6. CASE d \notin D
    BY <2>2, <2>3, <2>4, <2>6
  <2> QED
    BY <2>5, <2>6
<1>5. f = [d \in 0 .. BufSize |-> Rhs(f, d)]
  <2> HIDE DEF D, m, next, Rhs, M
  <2> QED
    BY <1>4
<1>6. Scan(b, p) = CHOOSE g : g = [d \in 0 .. BufSize |-> Rhs(g, d)]
  BY DEF Scan
<1>7. Scan(b, p) = [d \in 0 .. BufSize |-> Rhs(Scan(b, p), d)]
  <2> HIDE DEF Rhs
  <2> QED
    BY <1>5, <1>6
<1>8. Scan(b, p)[o] = Rhs(Scan(b, p), o)
  <2> HIDE DEF Rhs
  <2> QED
    BY <1>7
<1> QED
  BY <1>8

(* What the stretch x is as a reference of notation p *)
SpanRef(b, p, x) ==
  [s |-> x[1], e |-> x[2], name |-> Text(b, x[1] + Len(Open[p]), x[2] - 1),
   full |-> Text(b, x[1], x[2])]

LEMMA ReferencesAre ==
  ASSUME NEW b
  PROVE  References(b) = UNION {{SpanRef(b, p, x) : x \in Spans(b, 0, p)} : p \in Patterns}
BY DEF References, SpanRef

LEMMA NoMatch ==
  ASSUME NEW b, IsBuf(b), NEW p \in Patterns, Spans(b, 0, p) = {}
  PROVE  MatchesOf(b, p) = {}
<1>1. 0 \in 0 .. BufSize /\ End(b, 0) # BufSize
  BY EndOfPiece
<1> QED
  BY <1>1, ScanIs DEF MatchesOf

(* The reference is found, and nothing else. *)
LEMMA OneMatch ==
  ASSUME NEW b, IsBuf(b), NEW p \in Patterns, NEW x, Spans(b, 0, p) = {x}
  PROVE  MatchesOf(b, p) = {SpanRef(b, p, x)}
<1>1. PICK s \in Nat, e \in Nat :
        /\ s = x[1] /\ e = x[2] /\ s < e /\ e <= End(b, 0) /\ x = <<s, e>>
  <2>1. /\ x[1] \in 0 .. End(b, 0) - 1 /\ x[2] \in 0 + 1 .. End(b, 0)
        /\ x[1] < x[2] /\ x = <<x[1], x[2]>> /\ End(b, 0) \in 0 .. BufSize
    <3>1. 0 \in 0 .. BufSize /\ x \in Spans(b, 0, p)
      OBVIOUS
    <3>2. End(b, 0) \in 0 .. BufSize
      BY <3>1, EndIs
    <3> QED
      BY <3>1, <3>2, SpanIs
  <2> QED
    BY <2>1
<1>2. /\ End(b, 0) \in 0 .. BufSize - 1
      /\ \A i \in 0 .. End(b, 0) - 1 : b[i] # NUL
      /\ \A o \in 0 .. End(b, 0) : End(b, o) = End(b, 0)
  BY EndOfPiece
<1>3. Leftmost({x}) = s
  <2>1. {y[1] : y \in {x}} = {s}
    BY <1>1
  <2>2. Min({s}) = s
    BY DEF Min
  <2> QED
    BY <2>1, <2>2 DEF Leftmost
<1>4. Longest({x}, s) = e
  <2>1. {y[2] : y \in {z \in {x} : z[1] = s}} = {e}
    BY <1>1
  <2>2. Max({e}) = e
    BY DEF Max
  <2> QED
    BY <2>1, <2>2 DEF Longest
<1>5. strndup(b, 0 + s, e - s) = Text(b, s, e)
  <2>1. \A i \in 1 .. e - s :
          0 + s + i - 1 = s + i - 1 /\ 0 + s + i - 1 < BufSize
          /\ \A j \in 0 + s .. 0 + s + i - 2 : b[j] # NUL
    BY <1>1, <1>2
  <2> QED
    BY <2>1 DEF strndup, Text
<1>6. MatchAt(b, 0, p) = SpanRef(b, p, x)
  BY <1>1, <1>3, <1>4, <1>5 DEF MatchAt, SpanRef
<1>7. NextSearch(0, SpanRef(b, p, x).e) = e
  BY <1>1 DEF NextSearch, SpanRef
<1>8. Spans(b, e, p) = {}
  <2> SUFFICES ASSUME NEW y \in Spans(b, e, p) PROVE FALSE
    OBVIOUS
  <2>1. End(b, e) = End(b, 0) /\ e \in 0 .. BufSize
    BY <1>1, <1>2
  <2>2. y[1] \in e .. End(b, e) - 1
    BY <2>1, SpanIs
  <2>3. y \in Spans(b, 0, p)
    BY <1>1, <1>2, <2>1 DEF Spans
  <2>4. y[1] = s
    BY <1>1, <2>3
  <2> QED
    BY <1>1, <1>2, <2>1, <2>2, <2>4
<1>9. Scan(b, p)[e] = {}
  <2>1. e \in 0 .. BufSize /\ End(b, e) # BufSize
    BY <1>1, <1>2
  <2> QED
    BY <1>8, <2>1, ScanIs
<1>10. Scan(b, p)[0] = {SpanRef(b, p, x)} \cup Scan(b, p)[e]
  <2>1. End(b, 0) # BufSize /\ e <= BufSize /\ 0 \in 0 .. BufSize
    BY <1>1, <1>2
  <2>2. Spans(b, 0, p) # {}
    OBVIOUS
  <2> QED
    BY <1>6, <1>7, <2>1, <2>2, ScanIs
<1> QED
  BY <1>9, <1>10 DEF MatchesOf

(* The matches of a simple piece are its references. *)
LEMMA SimpleMatches ==
  ASSUME NEW b, IsBuf(b), Simple(b)
  PROVE  UNION {MatchesOf(b, p) : p \in Patterns} = References(b)
<1>1. ASSUME NEW p \in Patterns
      PROVE  MatchesOf(b, p) = {SpanRef(b, p, x) : x \in Spans(b, 0, p)}
  <2>1. CASE Spans(b, 0, p) = {}
    BY <2>1, NoMatch
  <2>2. CASE Spans(b, 0, p) # {}
    <3>1. PICK x : x \in Spans(b, 0, p)
      BY <2>2
    <3>2. Spans(b, 0, p) = {x}
      BY <3>1 DEF Simple
    <3> QED
      BY <3>2, OneMatch
  <2> QED
    BY <2>1, <2>2
<1>2. UNION {MatchesOf(b, p) : p \in Patterns}
        = UNION {{SpanRef(b, p, x) : x \in Spans(b, 0, p)} : p \in Patterns}
  BY <1>1
<1> QED
  BY <1>2, ReferencesAre

(* A reference of a piece *)
LEMMA ReferenceIs ==
  ASSUME NEW b, IsBuf(b), NEW m \in References(b)
  PROVE  /\ m.s \in 0 .. End(b, 0) - 1 /\ m.e \in 1 .. End(b, 0) /\ m.s < m.e
         /\ m.full = Text(b, m.s, m.e)
<1>1. PICK p \in Patterns : \E x \in Spans(b, 0, p) : m = SpanRef(b, p, x)
  BY ReferencesAre
<1>2. PICK x \in Spans(b, 0, p) : m = SpanRef(b, p, x)
  BY <1>1
<1>3. x[1] \in 0 .. End(b, 0) - 1 /\ x[2] \in 0 + 1 .. End(b, 0) /\ x[1] < x[2]
  <2>1. 0 \in 0 .. BufSize
    OBVIOUS
  <2> QED
    BY <2>1, SpanIs
<1>4. m.s = x[1] /\ m.e = x[2] /\ m.full = Text(b, x[1], x[2])
  BY <1>2 DEF SpanRef
<1>5. 0 + 1 = 1
  OBVIOUS
<1> QED
  BY <1>3, <1>4, <1>5

(* References of a simple piece that overlap are the same. *)
LEMMA Overlap ==
  ASSUME NEW b, IsBuf(b), Simple(b), NEW m \in References(b), NEW w \in References(b),
         m.s < w.e, w.s < m.e
  PROVE  m = w
<1>1. PICK p \in Patterns, r \in Patterns :
        /\ \E x \in Spans(b, 0, p) : m = SpanRef(b, p, x)
        /\ \E y \in Spans(b, 0, r) : w = SpanRef(b, r, y)
  BY ReferencesAre
<1>2. PICK x \in Spans(b, 0, p), y \in Spans(b, 0, r) :
        m = SpanRef(b, p, x) /\ w = SpanRef(b, r, y)
  BY <1>1
<1>3. CASE p = r
  BY <1>2, <1>3 DEF Simple
<1>4. CASE p # r
  <2>1. x[2] <= y[1] \/ y[2] <= x[1]
    BY <1>4 DEF Simple
  <2>2. m.s = x[1] /\ m.e = x[2] /\ w.s = y[1] /\ w.e = y[2]
    BY <1>2 DEF SpanRef
  <2>3. m.s \in Int /\ m.e \in Int /\ w.s \in Int /\ w.e \in Int
    BY ReferenceIs, EndOfPiece
  <2> QED
    BY <2>1, <2>2, <2>3
<1> QED
  BY <1>3, <1>4

(* Where references stand in a piece, the reference that begins at s, and  *)
(* where it ends                                                           *)
Starts(b) == {m.s : m \in References(b)}
Whole(b, s) == CHOOSE m \in References(b) : m.s = s
To(b, s) == Whole(b, s).e

LEMMA WholeIs ==
  ASSUME NEW b, IsBuf(b), Simple(b), NEW s \in Starts(b)
  PROVE  /\ Whole(b, s) \in References(b) /\ Whole(b, s).s = s
         /\ Whole(b, s).e = To(b, s) /\ Whole(b, s).full = Text(b, s, To(b, s))
         /\ s \in 0 .. End(b, 0) - 1 /\ To(b, s) \in s + 1 .. End(b, 0)
         /\ \A m \in References(b) : m.s = s => m = Whole(b, s)
<1>1. Whole(b, s) \in References(b) /\ Whole(b, s).s = s
  BY DEF Starts, Whole
<1> DEFINE w == Whole(b, s)
<1>2. /\ w \in References(b) /\ w.s = s
      /\ w.s \in 0 .. End(b, 0) - 1 /\ w.e \in 1 .. End(b, 0) /\ w.s < w.e
      /\ w.full = Text(b, w.s, w.e)
  BY <1>1, ReferenceIs
<1>3. To(b, s) = w.e
  BY DEF To
<1> HIDE DEF w
<1>4. ASSUME NEW m \in References(b), m.s = s PROVE m = w
  <2>1. m.s \in 0 .. End(b, 0) - 1 /\ m.e \in 1 .. End(b, 0) /\ m.s < m.e
    BY ReferenceIs
  <2>2. m.s < w.e /\ w.s < m.e
    BY <1>2, <1>4, <2>1
  <2> QED
    BY <1>2, <2>2, Overlap
<1>5. To(b, s) \in s + 1 .. End(b, 0)
  BY <1>2, <1>3, EndOfPiece
<1> QED
  BY <1>2, <1>3, <1>4, <1>5 DEF w

LEMMA ReferencesWhole ==
  ASSUME NEW b, IsBuf(b), Simple(b)
  PROVE  References(b) = {Whole(b, s) : s \in Starts(b)}
<1>1. ASSUME NEW m \in References(b) PROVE m.s \in Starts(b) /\ m = Whole(b, m.s)
  <2>1. m.s \in Starts(b)
    BY DEF Starts
  <2> QED
    BY <2>1, WholeIs
<1>2. \A s \in Starts(b) : Whole(b, s) \in References(b)
  BY WholeIs
<1> QED
  BY <1>1, <1>2

(* References do not overlap. *)
LEMMA Disjoint ==
  ASSUME NEW b, IsBuf(b), Simple(b), NEW s \in Starts(b), NEW t \in Starts(b), s < t
  PROVE  To(b, s) <= t /\ To(b, s) < To(b, t)
<1> DEFINE m == Whole(b, s)
           w == Whole(b, t)
<1>1. /\ m \in References(b) /\ m.s = s /\ m.e = To(b, s) /\ To(b, s) \in s + 1 .. End(b, 0)
      /\ w \in References(b) /\ w.s = t /\ w.e = To(b, t) /\ To(b, t) \in t + 1 .. End(b, 0)
      /\ s \in 0 .. End(b, 0) - 1 /\ t \in 0 .. End(b, 0) - 1 /\ End(b, 0) \in Nat
  BY WholeIs, EndOfPiece
<1> HIDE DEF m, w
<1>2. ~ (m.s < w.e /\ w.s < m.e)
  <2> SUFFICES ASSUME m.s < w.e /\ w.s < m.e PROVE FALSE
    OBVIOUS
  <2>1. m = w
    BY <1>1, Overlap
  <2> QED
    BY <1>1, <2>1
<1> QED
  BY <1>1, <1>2

(* What becomes of the cell at offset i *)
Turns(b, i) == Becomes(b, References(b), i)

(* The rank of x in S *)
UpToIn(S, x) == {y \in S : y <= x}

(* Ranks count the members of a finite set of numbers in ascending order. *)
LEMMA Ranks ==
  ASSUME NEW S, S \subseteq Nat, IsFiniteSet(S)
  PROVE  /\ Cardinality(S) \in Nat
         /\ \A x \in S : Cardinality(UpToIn(S, x)) \in 1 .. Cardinality(S)
         /\ \A x, y \in S : x < y => Cardinality(UpToIn(S, x)) < Cardinality(UpToIn(S, y))
         /\ \A i \in 1 .. Cardinality(S) : \E x \in S : Cardinality(UpToIn(S, x)) = i
<1> DEFINE N == Cardinality(S)
           rank == [x \in S |-> Cardinality(UpToIn(S, x))]
<1>1. ASSUME NEW x \in S
      PROVE  /\ IsFiniteSet(UpToIn(S, x)) /\ Cardinality(UpToIn(S, x)) \in Nat
             /\ Cardinality(UpToIn(S, x)) <= N /\ Cardinality(UpToIn(S, x)) # 0
  <2>1. UpToIn(S, x) \in SUBSET S /\ x \in UpToIn(S, x)
    BY DEF UpToIn
  <2> QED
    BY <2>1, FS_Subset, FS_CardinalityType, FS_EmptySet
<1>2. N \in Nat /\ IsFiniteSet(1 .. N) /\ Cardinality(1 .. N) = N
  <2>1. N \in Nat
    BY FS_CardinalityType
  <2>2. Cardinality(1 .. N) = (IF 1 > N THEN 0 ELSE N - 1 + 1) /\ IsFiniteSet(1 .. N)
    BY <2>1, FS_Interval
  <2> HIDE DEF N
  <2> QED
    BY <2>1, <2>2
<1>3. ASSUME NEW x \in S, NEW y \in S, x < y
      PROVE  Cardinality(UpToIn(S, x)) < Cardinality(UpToIn(S, y))
  <2>1. UpToIn(S, x) \in SUBSET UpToIn(S, y) /\ y \in UpToIn(S, y) /\ y \notin UpToIn(S, x)
    <3>1. x \in Nat /\ y \in Nat /\ \A z \in S : z \in Nat
      OBVIOUS
    <3>2. \A z \in S : z <= x => z <= y
      BY <1>3, <3>1
    <3>3. y <= y /\ ~ (y <= x)
      BY <1>3, <3>1
    <3> QED
      BY <3>2, <3>3 DEF UpToIn
  <2>2. /\ Cardinality(UpToIn(S, x)) <= Cardinality(UpToIn(S, y))
        /\ Cardinality(UpToIn(S, y)) # Cardinality(UpToIn(S, x))
    BY <1>1, <2>1, FS_Subset
  <2> QED
    BY <1>1, <2>2
<1>4. rank \in Injection(S, 1 .. N)
  <2>1. rank \in [S -> 1 .. N]
    BY <1>1, <1>2
  <2>2. ASSUME NEW x \in S, NEW y \in S, rank[x] = rank[y] PROVE x = y
    BY <1>1, <1>3, <2>2
  <2> HIDE DEF rank, N
  <2> QED
    BY <2>1, <2>2 DEF Injection, IsInjective
<1>5. rank \in Surjection(S, 1 .. N)
  <2> HIDE DEF rank
  <2> QED
    BY <1>2, <1>4, FS_Injection
<1>6. ASSUME NEW i \in 1 .. N PROVE \E x \in S : Cardinality(UpToIn(S, x)) = i
  BY <1>5 DEF Surjection
<1> QED
  BY <1>1, <1>2, <1>3, <1>6

(* There are as many matches as references. *)
LEMMA WholeCardinality ==
  ASSUME NEW b, IsBuf(b), Simple(b), NEW S, S \subseteq Starts(b), IsFiniteSet(S)
  PROVE  /\ IsFiniteSet({Whole(b, s) : s \in S})
         /\ Cardinality({Whole(b, s) : s \in S}) = Cardinality(S)
<1> DEFINE M == {Whole(b, s) : s \in S}
           f == [s \in S |-> Whole(b, s)]
<1>1. f \in [S -> M] /\ \A m \in M : \E s \in S : f[s] = m
  OBVIOUS
<1>2. \A s, t \in S : f[s] = f[t] => s = t
  <2>1. \A s \in S : Whole(b, s).s = s
    BY WholeIs
  <2> QED
    BY <2>1
<1>3. f \in Bijection(S, M)
  <2> HIDE DEF f, M
  <2> QED
    BY <1>1, <1>2 DEF Bijection, Injection, Surjection, IsInjective
<1>4. ExistsBijection(S, M)
  BY <1>3 DEF ExistsBijection
<1> HIDE DEF M
<1>5. IsFiniteSet(M) /\ Cardinality(M) = Cardinality(S)
  BY <1>4, FS_Bijection
<1> QED
  BY <1>5 DEF M

(* References lie inside the piece, and there are finitely many. *)
LEMMA StartsFinite ==
  ASSUME NEW b, IsBuf(b), Simple(b)
  PROVE  /\ Starts(b) \subseteq 0 .. End(b, 0) - 1
         /\ Starts(b) \subseteq Nat
         /\ IsFiniteSet(Starts(b))
<1>1. End(b, 0) \in Nat
  BY EndOfPiece
<1>2. Starts(b) \subseteq 0 .. End(b, 0) - 1
  BY WholeIs
<1>3. IsFiniteSet(Starts(b))
  <2>1. IsFiniteSet(0 .. End(b, 0) - 1)
    <3>1. 0 \in Int /\ End(b, 0) - 1 \in Int
      BY <1>1
    <3> QED
      BY <3>1, FS_Interval
  <2> QED
    BY <1>2, <2>1, FS_Subset
<1> QED
  BY <1>1, <1>2, <1>3

(* pos lists the references of the piece in ascending order, and q[i] is   *)
(* the match of the i-th.                                                  *)
Lists(q, pos, b) ==
  /\ pos \in [1 .. Cardinality(Starts(b)) -> Starts(b)]
  /\ \A i, j \in DOMAIN pos : i < j => pos[i] < pos[j]
  /\ \A s \in Starts(b) : \E i \in DOMAIN pos : pos[i] = s
  /\ q = [i \in DOMAIN pos |-> Whole(b, pos[i])]

LEMMA SortedIs ==
  ASSUME NEW b, IsBuf(b), Simple(b)
  PROVE  \E pos : Lists(Sorted(b), pos, b)
<1> DEFINE S == Starts(b)
           N == Cardinality(S)
           M == {Whole(b, s) : s \in S}
           rank(x) == Cardinality(UpToIn(S, x))
           Before(m) == {x \in M : x.e < m.e \/ (x.e = m.e /\ x.s <= m.s)}
<1>1. S \subseteq Nat /\ IsFiniteSet(S)
  BY StartsFinite
<1>2. /\ N \in Nat
      /\ \A x \in S : rank(x) \in 1 .. N
      /\ \A x, y \in S : x < y => rank(x) < rank(y)
      /\ \A i \in 1 .. N : \E x \in S : rank(x) = i
  BY <1>1, Ranks
<1>3. Cardinality(M) = N
  BY <1>1, WholeCardinality
<1>4. ASSUME NEW s \in S PROVE Cardinality(Before(Whole(b, s))) = rank(s)
  <2>1. Before(Whole(b, s)) = {Whole(b, y) : y \in UpToIn(S, s)}
    <3>1. ASSUME NEW y \in S
          PROVE  (Whole(b, y).e < Whole(b, s).e
                    \/ (Whole(b, y).e = Whole(b, s).e /\ Whole(b, y).s <= Whole(b, s).s))
                 <=> y <= s
      <4>1. /\ Whole(b, y).e = To(b, y) /\ Whole(b, y).s = y /\ To(b, y) \in Int /\ y \in Int
            /\ Whole(b, s).e = To(b, s) /\ Whole(b, s).s = s /\ To(b, s) \in Int /\ s \in Int
        BY <1>1, WholeIs, EndOfPiece
      <4>2. (y < s => To(b, y) < To(b, s)) /\ (s < y => To(b, s) < To(b, y))
        BY Disjoint
      <4> HIDE DEF S
      <4> QED
        BY <4>1, <4>2
    <3> HIDE DEF S
    <3> QED
      BY <3>1 DEF UpToIn
  <2>2. UpToIn(S, s) \in SUBSET S
    BY DEF UpToIn
  <2>3. IsFiniteSet(UpToIn(S, s)) /\ UpToIn(S, s) \subseteq Starts(b)
    BY <1>1, <2>2, FS_Subset
  <2> QED
    BY <2>1, <2>3, WholeCardinality
<1> DEFINE pos == [i \in 1 .. N |-> CHOOSE x \in S : rank(x) = i]
<1>5. ASSUME NEW i \in 1 .. N PROVE pos[i] \in S /\ rank(pos[i]) = i
  <2> HIDE DEF rank, N, S
  <2> QED
    BY <1>2
<1>6. Sorted(b) = SortByEnd(M)
  BY SimpleMatches, ReferencesWhole DEF Sorted
<1>7. ASSUME NEW i \in 1 .. N
      PROVE  (CHOOSE m \in M : Cardinality(Before(m)) = i) = Whole(b, pos[i])
  <2>1. Whole(b, pos[i]) \in M /\ Cardinality(Before(Whole(b, pos[i]))) = i
    <3> HIDE DEF pos, rank, N, S
    <3> QED
      BY <1>4, <1>5
  <2>2. ASSUME NEW m \in M, Cardinality(Before(m)) = i PROVE m = Whole(b, pos[i])
    <3>1. PICK s \in S : m = Whole(b, s)
      OBVIOUS
    <3>2. rank(s) = rank(pos[i])
      <4> HIDE DEF pos, rank, N, S, M
      <4> QED
        BY <1>4, <1>5, <2>2, <3>1
    <3>3. s = pos[i]
      <4> HIDE DEF pos, rank, N
      <4> QED
        BY <1>1, <1>2, <1>5, <3>2
    <3> QED
      BY <3>1, <3>3
  <2> HIDE DEF pos, M
  <2> QED
    BY <2>1, <2>2
<1>8. Sorted(b) = [i \in 1 .. N |-> Whole(b, pos[i])]
  <2> HIDE DEF pos, M, N, S
  <2> QED
    BY <1>3, <1>6, <1>7 DEF SortByEnd
<1>9. pos \in [1 .. N -> S] /\ DOMAIN pos = 1 .. N
  <2>1. \A i \in 1 .. N : (CHOOSE x \in S : rank(x) = i) \in S
    <3> HIDE DEF rank, N, S
    <3> QED
      BY <1>2
  <2> HIDE DEF rank, N, S
  <2> QED
    BY <2>1
<1>10. ASSUME NEW i \in 1 .. N, NEW j \in 1 .. N, i < j PROVE pos[i] < pos[j]
  <2> HIDE DEF rank, N, S, pos
  <2>1. pos[i] \in S /\ pos[j] \in S /\ rank(pos[i]) = i /\ rank(pos[j]) = j
    BY <1>5
  <2>2. pos[i] # pos[j] /\ pos[i] \in Nat /\ pos[j] \in Nat /\ i \in Int /\ j \in Int
    <3>1. N \in Nat /\ i # j /\ i \in Int /\ j \in Int
      BY <1>2, <1>10
    <3>2. pos[i] # pos[j]
      BY <2>1, <3>1
    <3>3. pos[i] \in Nat /\ pos[j] \in Nat
      BY <1>1, <2>1
    <3> QED
      BY <3>1, <3>2, <3>3
  <2>3. ~ (pos[j] < pos[i])
    BY <1>2, <1>10, <2>1, <2>2
  <2> QED
    BY <2>2, <2>3
<1>11. \A s \in S : \E i \in 1 .. N : pos[i] = s
  <2> SUFFICES ASSUME NEW s \in S PROVE pos[rank(s)] = s /\ rank(s) \in 1 .. N
    OBVIOUS
  <2> HIDE DEF rank, N, S, pos
  <2>1. rank(s) \in 1 .. N
    BY <1>2
  <2>2. pos[rank(s)] \in S /\ rank(pos[rank(s)]) = rank(s)
    BY <1>5, <2>1
  <2>3. s \in Nat /\ pos[rank(s)] \in Nat /\ rank(s) \in Int
    <3>1. s \in Nat /\ pos[rank(s)] \in Nat
      BY <1>1, <2>2
    <3>2. rank(s) \in Int
      BY <1>2, <2>1
    <3> QED
      BY <3>1, <3>2
  <2>4. ~ (s < pos[rank(s)]) /\ ~ (pos[rank(s)] < s)
    BY <1>2, <2>2, <2>3
  <2> QED
    BY <2>1, <2>3, <2>4
<1>12. Lists(Sorted(b), pos, b)
  <2> HIDE DEF pos, rank
  <2> QED
    BY <1>8, <1>9, <1>10, <1>11 DEF Lists
<1> QED
  BY <1>12

-----------------------------------------------------------------------------
(* The characters of a C string, and of new_line in the model *)
C == Cells \ {NUL}
Any == Cells \cup {"crash"}

LEMMA Associative ==
  ASSUME NEW S, NEW x \in Seq(S), NEW y \in Seq(S), NEW z \in Seq(S)
  PROVE  (x \o y) \o z = x \o (y \o z)
OBVIOUS

LEMMA TextIs ==
  ASSUME NEW b, IsBuf(b), NEW from \in Nat, NEW to \in Nat, from <= to, to <= End(b, 0) + 1
  PROVE  /\ Text(b, from, to) \in Seq(Cells)
         /\ Len(Text(b, from, to)) = to - from
         /\ to <= End(b, 0) => Text(b, from, to) \in Seq(C)
<1>1. /\ End(b, 0) \in 0 .. BufSize - 1
      /\ \A i \in 0 .. End(b, 0) - 1 : b[i] # NUL
  BY EndOfPiece
<1>2. ASSUME NEW i \in 1 .. to - from
      PROVE  b[from + i - 1] \in Cells /\ (to <= End(b, 0) => b[from + i - 1] \in C)
  <2>1. from + i - 1 \in 0 .. BufSize - 1 /\ (to <= End(b, 0) => from + i - 1 \in 0 .. End(b, 0) - 1)
    BY <1>1
  <2> QED
    BY <1>1, <2>1 DEF IsBuf, C
<1>3. to - from \in Nat
  OBVIOUS
<1>4. Text(b, from, to) \in Seq(Cells)
  <2>1. Text(b, from, to) \in [1 .. to - from -> Cells]
    BY <1>2 DEF Text
  <2> QED
    BY <1>3, <2>1, SeqDef
<1>5. to <= End(b, 0) => Text(b, from, to) \in Seq(C)
  <2> SUFFICES ASSUME to <= End(b, 0) PROVE Text(b, from, to) \in Seq(C)
    OBVIOUS
  <2>1. Text(b, from, to) \in [1 .. to - from -> C]
    BY <1>2 DEF Text
  <2> QED
    BY <1>3, <2>1, SeqDef
<1>6. Len(Text(b, from, to)) = to - from
  BY <1>3 DEF Text
<1> QED
  BY <1>4, <1>5, <1>6

(* What a cell becomes is a C string. *)
LEMMA BecomesIs ==
  ASSUME NEW b, IsBuf(b), Simple(b), NEW i \in 0 .. End(b, 0) - 1
  PROVE  /\ Turns(b, i) \in Seq(C)
         /\ i \in Starts(b) =>
              Turns(b, i) = IF Whole(b, i).name \in DOMAIN Args THEN Args[Whole(b, i).name]
                            ELSE Text(b, i, To(b, i))
<1>1. End(b, 0) \in 0 .. BufSize - 1 /\ b[i] # NUL
  BY EndOfPiece
<1>2. <<b[i]>> \in Seq(C) /\ << >> \in Seq(C)
  <2>1. b[i] \in C
    BY <1>1 DEF IsBuf, C
  <2> QED
    BY <2>1
<1>3. \A v \in DOMAIN Args : Args[v] \in Seq(C)
  BY LinesValues DEF C
<1>4. CASE i \in Starts(b)
  <2>1. Whole(b, i).full = Text(b, i, To(b, i)) /\ To(b, i) \in i + 1 .. End(b, 0)
    BY <1>4, WholeIs
  <2>2. PICK u \in Nat : u = To(b, i) /\ i \in Nat /\ i <= u /\ u <= End(b, 0) /\ u <= End(b, 0) + 1
    BY <1>1, <2>1
  <2>3. Text(b, i, u) \in Seq(C)
    BY <2>2, TextIs
  <2>4. \E m \in References(b) : m.s = i
    BY <1>4 DEF Starts
  <2>5. Turns(b, i) = IF Whole(b, i).name \in DOMAIN Args THEN Args[Whole(b, i).name]
                      ELSE Whole(b, i).full
    BY <2>4 DEF Turns, Becomes, Whole
  <2> QED
    BY <1>3, <2>1, <2>2, <2>3, <2>5
<1>5. CASE i \notin Starts(b)
  <2>1. ~ \E m \in References(b) : m.s = i
    BY <1>5 DEF Starts
  <2> QED
    BY <1>2, <1>5, <2>1 DEF Turns, Becomes
<1> QED
  BY <1>4, <1>5

(* The text of the reference is built cell by cell. *)
LEMMA ReplacedIs ==
  ASSUME NEW b, IsBuf(b), Simple(b)
  PROVE  /\ Replaced(b)[0] = << >>
         /\ \A k \in 1 .. End(b, 0) : Replaced(b)[k] = Replaced(b)[k - 1] \o Turns(b, k - 1)
         /\ \A k \in 0 .. End(b, 0) : Replaced(b)[k] \in Seq(C)
<1> DEFINE top == End(b, 0)
           V == Seq(C)
           g == [x \in (1 .. top) \X V |-> x[2] \o Turns(b, x[1] - 1)]
           Rhs(f, k) == IF k = 0 THEN << >> ELSE f[k - 1] \o Turns(b, k - 1)
<1>1. top \in Nat
  BY EndOfPiece
<1>2. ASSUME NEW k \in 1 .. top, NEW v \in V PROVE v \o Turns(b, k - 1) \in V
  <2>1. Turns(b, k - 1) \in V
    <3>1. k - 1 \in 0 .. top - 1
      BY <1>1
    <3> QED
      BY <3>1, BecomesIs
  <2> QED
    BY <2>1, ConcatProperties
<1>3. g \in [(1 .. top) \X V -> V]
  <2> HIDE DEF top, V
  <2> QED
    BY <1>2
<1>4. << >> \in V
  OBVIOUS
<1>5. PICK f \in [0 .. top -> V] : DefinedUp(f, top, << >>, g)
  <2> HIDE DEF g, top, V
  <2> QED
    BY <1>1, <1>3, <1>4, Iterate
<1>6. ASSUME NEW i \in 1 .. top PROVE f[i] = f[i - 1] \o Turns(b, i - 1)
  <2>1. i - 1 \in 0 .. top /\ f[i - 1] \in V
    BY <1>1
  <2>2. g[<<i, f[i - 1]>>] = f[i - 1] \o Turns(b, i - 1)
    <3> HIDE DEF top, V
    <3> QED
      BY <2>1
  <2> QED
    BY <1>5, <2>2 DEF DefinedUp
<1>7. f = [k \in 0 .. top |-> Rhs(f, k)]
  <2> HIDE DEF top, V, g
  <2>1. ASSUME NEW k \in 0 .. top PROVE f[k] = Rhs(f, k)
    <3>1. k # 0 => k \in 1 .. top
      BY <1>1
    <3> QED
      BY <1>5, <1>6, <3>1 DEF DefinedUp
  <2> HIDE DEF Rhs
  <2> QED
    BY <2>1
<1>8. Replaced(b) = CHOOSE h : h = [k \in 0 .. top |-> Rhs(h, k)]
  BY DEF Replaced, Turns
<1> HIDE DEF top, V, g
<1>9. Replaced(b) = [k \in 0 .. top |-> Rhs(Replaced(b), k)]
  <2> HIDE DEF Rhs
  <2> QED
    BY <1>7, <1>8
<1>10. ASSUME NEW k \in 0 .. top PROVE Replaced(b)[k] = Rhs(Replaced(b), k)
  <2> HIDE DEF Rhs
  <2> QED
    BY <1>9
<1>11. Replaced(b)[0] = << >>
  <2>1. 0 \in 0 .. top
    BY <1>1
  <2>2. Replaced(b)[0] = Rhs(Replaced(b), 0)
    BY <1>10, <2>1
  <2> QED
    BY <2>2
<1>12. ASSUME NEW k \in 1 .. top
       PROVE  Replaced(b)[k] = Replaced(b)[k - 1] \o Turns(b, k - 1)
  <2>1. k \in 0 .. top /\ k # 0
    BY <1>1
  <2> QED
    BY <1>10, <2>1
<1>13. 0 .. top \subseteq {k \in 0 .. top : Replaced(b)[k] \in V}
  <2>1. ASSUME NEW k \in 0 .. top - 1, Replaced(b)[k] \in V PROVE Replaced(b)[k + 1] \in V
    <3>1. k + 1 \in 1 .. top /\ k + 1 - 1 = k
      BY <1>1
    <3>2. Replaced(b)[k + 1] = Replaced(b)[k] \o Turns(b, k)
      <4>1. PICK j \in 1 .. top : j = k + 1 /\ j - 1 = k
        BY <3>1
      <4>2. Replaced(b)[j] = Replaced(b)[j - 1] \o Turns(b, j - 1)
        BY <1>12
      <4> QED
        BY <4>1, <4>2
    <3>3. Replaced(b)[k] \o Turns(b, k) \in V
      BY <1>2, <2>1, <3>1
    <3> QED
      BY <3>2, <3>3
  <2> DEFINE S == {k \in 0 .. top : Replaced(b)[k] \in V}
  <2>2. 0 \in S /\ \A k \in 0 .. top - 1 : k \in S => k + 1 \in S
    BY <1>1, <1>4, <1>11, <2>1
  <2> HIDE DEF S
  <2> QED
    BY <1>1, <2>2, FromZero DEF S
<1> QED
  BY <1>11, <1>12, <1>13 DEF top, V

(* The matches of the list q, and what replaces them *)
LEMMA ListIs ==
  ASSUME NEW b, IsBuf(b), Simple(b), NEW q, NEW pos, Lists(q, pos, b)
  PROVE  /\ Cardinality(Starts(b)) \in Nat
         /\ Len(q) = Cardinality(Starts(b))
         /\ \A i \in 1 .. Len(q) :
              /\ pos[i] \in Starts(b) /\ pos[i] \in 0 .. End(b, 0) - 1
              /\ To(b, pos[i]) \in pos[i] + 1 .. End(b, 0)
              /\ q[i].s = pos[i] /\ q[i].e = To(b, pos[i])
              /\ Replacement(q[i]) = Turns(b, pos[i])
              /\ ValueLen(q[i]) \in Nat
<1> DEFINE N == Cardinality(Starts(b))
<1>1. N \in Nat
  BY StartsFinite, FS_CardinalityType
<1>2. DOMAIN pos = 1 .. N /\ q = [i \in 1 .. N |-> Whole(b, pos[i])]
  BY DEF Lists
<1>3. Len(q) = N
  BY <1>1, <1>2
<1>4. ASSUME NEW i \in 1 .. N
      PROVE  /\ pos[i] \in Starts(b) /\ pos[i] \in 0 .. End(b, 0) - 1
             /\ To(b, pos[i]) \in pos[i] + 1 .. End(b, 0)
             /\ q[i].s = pos[i] /\ q[i].e = To(b, pos[i])
             /\ Replacement(q[i]) = Turns(b, pos[i])
             /\ ValueLen(q[i]) \in Nat
  <2>1. pos[i] \in Starts(b) /\ pos[i] \in 0 .. End(b, 0) - 1
    BY StartsFinite DEF Lists
  <2>2. /\ Whole(b, pos[i]).s = pos[i] /\ Whole(b, pos[i]).e = To(b, pos[i])
        /\ Whole(b, pos[i]).full = Text(b, pos[i], To(b, pos[i]))
        /\ To(b, pos[i]) \in pos[i] + 1 .. End(b, 0)
    BY <2>1, WholeIs
  <2> HIDE DEF N
  <2>4. q[i] = Whole(b, pos[i])
    BY <1>2
  <2>5. /\ q[i].s = pos[i] /\ q[i].e = To(b, pos[i]) /\ To(b, pos[i]) \in pos[i] + 1 .. End(b, 0)
        /\ q[i].full = Text(b, pos[i], To(b, pos[i]))
    BY <2>2, <2>4
  <2>6. Turns(b, pos[i]) = IF q[i].name \in DOMAIN Args THEN Args[q[i].name] ELSE q[i].full
    BY <2>1, <2>4, <2>5, BecomesIs
  <2>7. CASE q[i].name \in DOMAIN Args
    <3>1. get_value(q[i].name) # << >> /\ get_value(q[i].name)[1] = Args[q[i].name]
      BY <2>7 DEF get_value
    <3>2. Args[q[i].name] \in Seq(Cells \ {NUL})
      BY <2>7, LinesValues
    <3>3. ValueLen(q[i]) \in Nat
      BY <3>1, <3>2, LenProperties DEF ValueLen
    <3>4. Replacement(q[i]) = Turns(b, pos[i])
      BY <2>6, <2>7, <3>1 DEF Replacement
    <3> QED
      BY <2>1, <2>5, <3>3, <3>4
  <2>8. CASE q[i].name \notin DOMAIN Args
    <3>1. get_value(q[i].name) = << >>
      BY <2>8 DEF get_value
    <3> QED
      BY <2>1, <2>5, <2>6, <2>8, <3>1 DEF Replacement, ValueLen
  <2> QED
    BY <2>7, <2>8
<1> QED
  BY <1>1, <1>3, <1>4

(* The growth is a number. *)
LEMMA GrowthIs ==
  ASSUME NEW b, IsBuf(b), Simple(b), NEW q, NEW pos, Lists(q, pos, b)
  PROVE  Grown(q)[Len(q)] \in Int /\ (q = << >> => Grown(q)[Len(q)] = 0)
<1> DEFINE top == Len(q)
           g == [x \in (1 .. top) \X Int |-> x[2] + ValueLen(q[x[1]]) - (q[x[1]].e - q[x[1]].s)]
           Rhs(f, i) == IF i = 0 THEN 0
                        ELSE f[i - 1] + ValueLen(q[i]) - (q[i].e - q[i].s)
<1>1. top \in Nat
  BY ListIs
<1>2. ASSUME NEW i \in 1 .. top PROVE ValueLen(q[i]) - (q[i].e - q[i].s) \in Int /\ ValueLen(q[i]) \in Int
                                    /\ (q[i].e - q[i].s) \in Int
  BY ListIs
<1>3. g \in [(1 .. top) \X Int -> Int]
  <2> HIDE DEF top
  <2> QED
    BY <1>2
<1>4. PICK f \in [0 .. top -> Int] : DefinedUp(f, top, 0, g)
  <2> DEFINE V == Int
  <2>1. 0 \in V /\ g \in [(1 .. top) \X V -> V]
    BY <1>3
  <2> HIDE DEF g, top, V
  <2>2. \E f \in [0 .. top -> V] : DefinedUp(f, top, 0, g)
    BY <1>1, <2>1, Iterate
  <2> QED
    BY <2>2 DEF V
<1>5. ASSUME NEW i \in 0 .. top PROVE f[i] = Rhs(f, i)
  <2> HIDE DEF top
  <2>1. CASE i = 0
    BY <1>4, <2>1 DEF DefinedUp
  <2>2. CASE i # 0
    <3>1. i \in 1 .. top /\ i - 1 \in 0 .. top /\ f[i - 1] \in Int
      BY <1>1, <2>2
    <3>2. g[<<i, f[i - 1]>>] = f[i - 1] + ValueLen(q[i]) - (q[i].e - q[i].s)
      BY <3>1
    <3> HIDE DEF g
    <3> QED
      BY <1>4, <2>2, <3>1, <3>2 DEF DefinedUp
  <2> QED
    BY <2>1, <2>2
<1>6. f = [i \in 0 .. top |-> Rhs(f, i)]
  <2> HIDE DEF top, g, Rhs
  <2> QED
    BY <1>5
<1>7. Grown(q) = CHOOSE h : h = [i \in 0 .. top |-> Rhs(h, i)]
  BY DEF Grown
<1> HIDE DEF top, g
<1>8. Grown(q) = [i \in 0 .. top |-> Rhs(Grown(q), i)]
  <2> HIDE DEF Rhs
  <2> QED
    BY <1>6, <1>7
<1>9. ASSUME NEW i \in 0 .. top PROVE Grown(q)[i] = Rhs(Grown(q), i)
  <2> HIDE DEF Rhs
  <2> QED
    BY <1>8
<1> DEFINE S == {i \in 0 .. top : Grown(q)[i] \in Int}
<1>10. 0 \in S /\ (top = 0 => Grown(q)[top] = 0)
  BY <1>1, <1>9
<1>11. ASSUME NEW i \in 0 .. top - 1, i \in S PROVE i + 1 \in S
  <2>1. i + 1 \in 1 .. top /\ i + 1 - 1 = i /\ i + 1 # 0 /\ i + 1 \in 0 .. top
    BY <1>1
  <2>2. Grown(q)[i + 1] = Grown(q)[i] + ValueLen(q[i + 1]) - (q[i + 1].e - q[i + 1].s)
    BY <1>9, <2>1
  <2> QED
    BY <1>2, <1>11, <2>1, <2>2
<1>12. top \in S
  <2> HIDE DEF S
  <2>1. 0 .. top \subseteq S
    BY <1>1, <1>10, <1>11, FromZero
  <2> QED
    BY <1>1, <2>1
<1>13. q = << >> => top = 0
  BY DEF top
<1> QED
  BY <1>10, <1>12, <1>13 DEF top

-----------------------------------------------------------------------------
(* A cell in no reference stays, the cells behind the first of a reference *)
(* vanish.                                                                 *)
LEMMA PlainCell ==
  ASSUME NEW b, IsBuf(b), Simple(b), NEW i \in 0 .. End(b, 0) - 1,
         \A s \in Starts(b) : ~ (s <= i /\ To(b, s) > i)
  PROVE  Turns(b, i) = <<b[i]>>
<1>1. ASSUME NEW m \in References(b) PROVE ~ (m.s = i) /\ ~ (m.s < i /\ i < m.e)
  <2>1. m.s \in Starts(b)
    BY DEF Starts
  <2>2. m = Whole(b, m.s) /\ m.s \in 0 .. End(b, 0) - 1 /\ To(b, m.s) \in m.s + 1 .. End(b, 0)
    BY <2>1, WholeIs
  <2>3. m.e = To(b, m.s)
    BY <2>2 DEF To
  <2>4. ~ (m.s <= i /\ m.e > i)
    BY <2>1, <2>3
  <2>5. m.s \in Int /\ m.e \in Int /\ i \in Int /\ m.s < m.e
    BY <2>2, <2>3, EndOfPiece
  <2> QED
    BY <2>4, <2>5
<1> QED
  BY <1>1 DEF Turns, Becomes

LEMMA CoveredCell ==
  ASSUME NEW b, IsBuf(b), Simple(b), NEW s \in Starts(b), NEW i \in s + 1 .. To(b, s) - 1
  PROVE  Turns(b, i) = << >>
<1>1. /\ Whole(b, s) \in References(b) /\ Whole(b, s).s = s /\ Whole(b, s).e = To(b, s)
      /\ s \in 0 .. End(b, 0) - 1 /\ To(b, s) \in s + 1 .. End(b, 0) /\ End(b, 0) \in Nat
  BY WholeIs, EndOfPiece
<1>2. ASSUME NEW m \in References(b), m.s = i PROVE FALSE
  <2>1. m.s \in Starts(b)
    BY DEF Starts
  <2>2. s < m.s
    BY <1>1, <1>2
  <2>3. To(b, s) <= m.s
    BY <2>1, <2>2, Disjoint
  <2> QED
    BY <1>1, <1>2, <2>3
<1>3. Whole(b, s).s < i /\ i < Whole(b, s).e
  BY <1>1
<1> QED
  BY <1>1, <1>2, <1>3 DEF Turns, Becomes

(* Text in front of a cell, and the cell *)
LEMMA TextGrows ==
  ASSUME NEW b, IsBuf(b), NEW from \in Nat, NEW to \in Nat, from <= to, to <= End(b, 0)
  PROVE  Text(b, from, to + 1) = Text(b, from, to) \o <<b[to]>>
<1>1. End(b, 0) \in 0 .. BufSize - 1
  BY EndOfPiece
<1>2. /\ Text(b, from, to) \in Seq(Cells) /\ Len(Text(b, from, to)) = to - from
      /\ Text(b, from, to + 1) \in Seq(Cells) /\ Len(Text(b, from, to + 1)) = to - from + 1
  <2>1. to + 1 \in Nat /\ from <= to + 1 /\ to + 1 <= End(b, 0) + 1 /\ to <= End(b, 0) + 1
    BY <1>1
  <2>2. Text(b, from, to) \in Seq(Cells) /\ Len(Text(b, from, to)) = to - from
    BY <2>1, TextIs
  <2>3. Text(b, from, to + 1) \in Seq(Cells) /\ Len(Text(b, from, to + 1)) = to + 1 - from
    <3>1. PICK u \in Nat : u = to + 1 /\ from <= u /\ u <= End(b, 0) + 1
      BY <2>1
    <3>2. Text(b, from, u) \in Seq(Cells) /\ Len(Text(b, from, u)) = u - from
      BY <3>1, TextIs
    <3> QED
      BY <3>1, <3>2
  <2> QED
    BY <2>2, <2>3
<1>3. <<b[to]>> \in Seq(Cells) /\ Len(<<b[to]>>) = 1
  <2>1. b[to] \in Cells
    BY <1>1 DEF IsBuf
  <2> QED
    BY <2>1
<1> DEFINE s1 == Text(b, from, to)
           s2 == <<b[to]>>
           r == Text(b, from, to + 1)
<1>4. /\ s1 \o s2 \in Seq(Cells) /\ Len(s1 \o s2) = to - from + 1
      /\ \A i \in 1 .. to - from + 1 : (s1 \o s2)[i] = IF i <= to - from THEN s1[i] ELSE s2[i - (to - from)]
  <2> HIDE DEF s1, s2
  <2> QED
    BY <1>2, <1>3, ConcatProperties DEF s1, s2
<1>5. ASSUME NEW i \in 1 .. to - from + 1 PROVE r[i] = (s1 \o s2)[i]
  <2>1. r[i] = b[from + i - 1]
    BY DEF Text
  <2>2. CASE i <= to - from
    <3>1. i \in 1 .. to - from /\ s1[i] = b[from + i - 1]
      BY <2>2 DEF Text
    <3> HIDE DEF s1, s2, r
    <3> QED
      BY <1>4, <2>1, <2>2, <3>1
  <2>3. CASE ~ (i <= to - from)
    <3>1. i - (to - from) = 1 /\ from + i - 1 = to
      BY <2>3
    <3>2. s2[1] = b[to]
      OBVIOUS
    <3> HIDE DEF s1, s2, r
    <3> QED
      BY <1>4, <2>1, <2>3, <3>1, <3>2
  <2> QED
    BY <2>2, <2>3
<1> HIDE DEF s1, s2, r
<1>6. r \in Seq(Cells) /\ Len(r) = to - from + 1
  BY <1>2 DEF r
<1>7. r = s1 \o s2
  BY <1>4, <1>5, <1>6, SeqEqual
<1> QED
  BY <1>7 DEF r, s1, s2

(* A stretch without references is copied. *)
LEMMA PlainStretch ==
  ASSUME NEW b, IsBuf(b), Simple(b), NEW from \in Nat, NEW to \in Nat, from <= to, to <= End(b, 0),
         \A i \in from .. to - 1 : Turns(b, i) = <<b[i]>>
  PROVE  Replaced(b)[to] = Replaced(b)[from] \o Text(b, from, to)
<1> DEFINE top == to - from
           S == {d \in 0 .. top : Replaced(b)[from + d] = Replaced(b)[from] \o Text(b, from, from + d)}
<1>1. top \in Nat /\ End(b, 0) \in Nat /\ from \in 0 .. End(b, 0)
  BY EndOfPiece
<1>2. Replaced(b)[from] \in Seq(C)
  BY <1>1, ReplacedIs
<1>3. 0 \in S
  <2>1. Text(b, from, from + 0) = << >>
    BY DEF Text
  <2>2. Replaced(b)[from] \o << >> = Replaced(b)[from]
    BY <1>2, ConcatEmptySeq
  <2>3. from + 0 = from /\ 0 \in 0 .. top
    BY <1>1
  <2> QED
    BY <2>1, <2>2, <2>3
<1>4. ASSUME NEW d \in 0 .. top - 1, d \in S PROVE d + 1 \in S
  <2>1. PICK k \in 1 .. End(b, 0), j \in 0 .. End(b, 0) - 1 :
          k = from + (d + 1) /\ j = from + d /\ j = k - 1 /\ k = j + 1
    <3>1. from + (d + 1) \in 1 .. End(b, 0) /\ from + d \in 0 .. End(b, 0) - 1
      BY <1>1
    <3> QED
      BY <3>1
  <2>2. Replaced(b)[k] = Replaced(b)[j] \o Turns(b, j)
    BY <2>1, ReplacedIs
  <2>3. Turns(b, j) = <<b[j]>>
    BY <1>1, <2>1
  <2>4. j \in Nat /\ from <= j /\ j <= End(b, 0) /\ j <= End(b, 0) + 1
    BY <1>1, <2>1
  <2>5. Text(b, from, k) = Text(b, from, j) \o <<b[j]>>
    BY <2>1, <2>4, TextGrows
  <2>6. Text(b, from, j) \in Seq(C) /\ Turns(b, j) \in Seq(C)
    BY <2>4, TextIs, BecomesIs
  <2>7. Replaced(b)[j] = Replaced(b)[from] \o Text(b, from, j)
    BY <1>4, <2>1
  <2>8. (Replaced(b)[from] \o Text(b, from, j)) \o Turns(b, j)
          = Replaced(b)[from] \o (Text(b, from, j) \o Turns(b, j))
    <3> DEFINE x == Replaced(b)[from]
               y == Text(b, from, j)
               z == Turns(b, j)
    <3>1. x \in Seq(C) /\ y \in Seq(C) /\ z \in Seq(C)
      BY <1>2, <2>6
    <3> HIDE DEF x, y, z
    <3>2. (x \o y) \o z = x \o (y \o z)
      BY <3>1, Associative
    <3> QED
      BY <3>2 DEF x, y, z
  <2>9. Replaced(b)[from + (d + 1)] = Replaced(b)[from] \o Text(b, from, from + (d + 1))
    BY <2>1, <2>2, <2>3, <2>5, <2>7, <2>8
  <2>10. d + 1 \in 0 .. top
    BY <1>1
  <2> QED
    BY <2>9, <2>10
<1>5. top \in S
  <2> HIDE DEF S, top
  <2>1. 0 .. top \subseteq S
    BY <1>1, <1>3, <1>4, FromZero
  <2> QED
    BY <1>1, <2>1
<1>6. from + top = to
  OBVIOUS
<1> QED
  BY <1>5, <1>6

(* A reference becomes its replacement. *)
LEMMA OverReference ==
  ASSUME NEW b, IsBuf(b), Simple(b), NEW s \in Starts(b)
  PROVE  Replaced(b)[To(b, s)] = Replaced(b)[s] \o Turns(b, s)
<1> DEFINE top == To(b, s) - s - 1
           S == {d \in 0 .. top : Replaced(b)[s + 1 + d] = Replaced(b)[s] \o Turns(b, s)}
<1>1. /\ s \in 0 .. End(b, 0) - 1 /\ To(b, s) \in s + 1 .. End(b, 0) /\ End(b, 0) \in Nat
      /\ top \in Nat
  <2>1. s \in 0 .. End(b, 0) - 1 /\ End(b, 0) \in Nat /\ To(b, s) \in s + 1 .. End(b, 0)
    BY WholeIs, EndOfPiece
  <2> QED
    BY <2>1
<1>2. Replaced(b)[s] \in Seq(C) /\ Turns(b, s) \in Seq(C)
  <2>1. s \in 0 .. End(b, 0)
    BY <1>1
  <2>2. Turns(b, s) \in Seq(C)
    BY <1>1, BecomesIs
  <2> QED
    BY <2>1, <2>2, ReplacedIs
<1>3. 0 \in S
  <2>1. PICK k \in 1 .. End(b, 0) : k = s + 1 + 0 /\ k - 1 = s
    BY <1>1
  <2>2. Replaced(b)[k] = Replaced(b)[k - 1] \o Turns(b, k - 1)
    BY ReplacedIs
  <2> QED
    BY <1>1, <2>1, <2>2
<1>4. ASSUME NEW d \in 0 .. top - 1, d \in S PROVE d + 1 \in S
  <2>1. PICK k \in 1 .. End(b, 0) : k = s + 1 + (d + 1) /\ k - 1 = s + 1 + d
    BY <1>1
  <2>2. Replaced(b)[k] = Replaced(b)[k - 1] \o Turns(b, k - 1)
    BY ReplacedIs
  <2>3. Turns(b, k - 1) = << >>
    <3>1. k - 1 \in s + 1 .. To(b, s) - 1
      BY <1>1, <2>1
    <3> QED
      BY <3>1, CoveredCell
  <2>4. Replaced(b)[k - 1] = Replaced(b)[s] \o Turns(b, s) /\ Replaced(b)[k - 1] \in Seq(C)
    <3>1. Replaced(b)[s] \o Turns(b, s) \in Seq(C)
      BY <1>2, ConcatProperties
    <3> QED
      BY <1>4, <2>1, <3>1
  <2>5. Replaced(b)[k] = Replaced(b)[s] \o Turns(b, s)
    BY <2>2, <2>3, <2>4, ConcatEmptySeq
  <2>6. d + 1 \in 0 .. top
    BY <1>1
  <2> HIDE DEF top
  <2> QED
    BY <2>1, <2>5, <2>6
<1>5. top \in S
  <2> HIDE DEF S, top
  <2>1. 0 .. top \subseteq S
    BY <1>1, <1>3, <1>4, FromZero
  <2> QED
    BY <1>1, <2>1
<1>6. s + 1 + top = To(b, s)
  BY <1>1
<1> QED
  BY <1>5, <1>6

(* What is written is not taken back. *)
LEMMA StaysNonEmpty ==
  ASSUME NEW b, IsBuf(b), Simple(b), NEW k \in 1 .. End(b, 0), Turns(b, k - 1) # << >>,
         NEW j \in k .. End(b, 0)
  PROVE  Replaced(b)[j] # << >>
<1> DEFINE top == End(b, 0) - k
           S == {d \in 0 .. top : Replaced(b)[k + d] # << >>}
<1>1. top \in Nat /\ End(b, 0) \in Nat
  BY EndOfPiece
<1>2. ASSUME NEW i \in 1 .. End(b, 0)
      PROVE  (Replaced(b)[i - 1] # << >> \/ Turns(b, i - 1) # << >>) => Replaced(b)[i] # << >>
  <2>1. PICK h \in 0 .. End(b, 0) - 1 : h = i - 1 /\ h \in 0 .. End(b, 0)
    BY <1>1
  <2>2. Replaced(b)[h] \in Seq(C) /\ Turns(b, h) \in Seq(C)
    BY <2>1, ReplacedIs, BecomesIs
  <2>3. Replaced(b)[i] = Replaced(b)[h] \o Turns(b, h)
    BY <2>1, ReplacedIs
  <2>4. Replaced(b)[h] \o Turns(b, h) = << >> <=> Replaced(b)[h] = << >> /\ Turns(b, h) = << >>
    BY <2>2, ConcatEqualIffEmpty
  <2> QED
    BY <2>1, <2>3, <2>4
<1>3. 0 \in S
  <2>1. k + 0 = k /\ 0 \in 0 .. top
    BY <1>1
  <2> QED
    BY <1>2, <2>1
<1>4. ASSUME NEW d \in 0 .. top - 1, d \in S PROVE d + 1 \in S
  <2>1. PICK i \in 1 .. End(b, 0) : i = k + (d + 1) /\ i - 1 = k + d
    BY <1>1
  <2>2. Replaced(b)[i] # << >>
    BY <1>2, <1>4, <2>1
  <2>3. d + 1 \in 0 .. top
    BY <1>1
  <2> QED
    BY <2>1, <2>2, <2>3
<1>5. 0 .. top \subseteq S
  <2> HIDE DEF S, top
  <2> QED
    BY <1>1, <1>3, <1>4, FromZero
<1>6. j - k \in 0 .. top /\ k + (j - k) = j
  BY <1>1
<1>7. j - k \in S
  <2> HIDE DEF S
  <2> QED
    BY <1>5, <1>6
<1> QED
  BY <1>6, <1>7

(* Something stands in front of the second reference of a simple piece. *)
LEMMA FrontNonEmpty ==
  ASSUME NEW b, IsBuf(b), Simple(b), NEW s \in Starts(b), NEW t \in Starts(b), s < t
  PROVE  Replaced(b)[t] # << >>
<1>1. /\ s \in Nat /\ t \in 1 .. End(b, 0) /\ End(b, 0) \in Nat
      /\ Starts(b) \subseteq 0 .. End(b, 0) - 1
  BY StartsFinite, EndOfPiece
<1>2. CASE Turns(b, 0) # << >>
  <2>1. 1 - 1 = 0 /\ 1 \in 1 .. End(b, 0) /\ t \in 1 .. End(b, 0)
    BY <1>1
  <2> QED
    BY <1>2, <2>1, StaysNonEmpty
<1>3. CASE Turns(b, 0) = << >>
  <2>1. 0 \in Starts(b)
    <3>1. 0 \in 0 .. End(b, 0) - 1
      BY <1>1
    <3>2. <<b[0]>> # << >>
      OBVIOUS
    <3>3. PICK r \in Starts(b) : r <= 0 /\ To(b, r) > 0
      BY <1>3, <3>1, <3>2, PlainCell
    <3> QED
      BY <1>1, <3>3
  <2> DEFINE m == Whole(b, 0)
  <2>2. PICK e \in Nat :
          /\ e = To(b, 0) /\ e > 0 /\ e <= End(b, 0) /\ e <= End(b, 0) + 1 /\ 0 \in Nat /\ 0 <= e
          /\ m \in References(b) /\ m.s = 0 /\ m.e = e /\ 0 \in 0 .. End(b, 0) - 1
    <3>1. /\ To(b, 0) \in 0 + 1 .. End(b, 0) /\ 0 \in 0 .. End(b, 0) - 1
          /\ m \in References(b) /\ m.s = 0 /\ m.e = To(b, 0)
      BY <2>1, WholeIs
    <3> HIDE DEF m
    <3> QED
      BY <1>1, <3>1
  <2>3. m.name \in DOMAIN Args /\ Args[m.name] = << >>
    <3>1. Len(Text(b, 0, e)) = e - 0
      BY <2>2, TextIs
    <3>2. Text(b, 0, e) # << >>
      BY <2>2, <3>1
    <3>3. Turns(b, 0) = IF m.name \in DOMAIN Args THEN Args[m.name] ELSE Text(b, 0, To(b, 0))
      BY <2>1, <2>2, BecomesIs
    <3> HIDE DEF m
    <3> QED
      BY <1>3, <2>2, <3>2, <3>3
  <2>4. e \notin Starts(b)
    <3> HIDE DEF m
    <3>1. ~ \E w \in References(b) : m.e = w.s
      BY <2>2, <2>3 DEF Simple
    <3> QED
      BY <2>2, <3>1 DEF Starts
  <2> HIDE DEF m
  <2>5. \A r \in Starts(b) : r = 0 \/ r > e
    <3> SUFFICES ASSUME NEW r \in Starts(b), r # 0 PROVE r > e
      OBVIOUS
    <3>1. r \in Nat /\ 0 < r
      BY <1>1
    <3>2. To(b, 0) <= r
      BY <2>1, <3>1, Disjoint
    <3> QED
      BY <2>2, <2>4, <3>1, <3>2
  <2>6. t > e /\ e \in 0 .. End(b, 0) - 1
    BY <1>1, <2>2, <2>5
  <2>7. Turns(b, e) = <<b[e]>>
    <3>1. \A r \in Starts(b) : ~ (r <= e /\ To(b, r) > e)
      <4> SUFFICES ASSUME NEW r \in Starts(b), r <= e, To(b, r) > e PROVE FALSE
        OBVIOUS
      <4>1. r \in Nat
        BY <1>1
      <4>2. r = 0
        BY <2>2, <2>5, <4>1
      <4> QED
        BY <2>2, <4>2
    <3> QED
      BY <2>6, <3>1, PlainCell
  <2>8. PICK k \in 1 .. End(b, 0) : k - 1 = e /\ k = e + 1
    BY <1>1, <2>2, <2>6
  <2>9. Turns(b, k - 1) # << >>
    <3>1. <<b[e]>> # << >>
      OBVIOUS
    <3> QED
      BY <2>7, <2>8, <3>1
  <2>10. t \in k .. End(b, 0)
    BY <1>1, <2>2, <2>6, <2>8
  <2> QED
    BY <2>9, <2>10, StaysNonEmpty
<1> QED
  BY <1>2, <1>3

-----------------------------------------------------------------------------
(* One turn of the loop writes a sequence of characters. *)
LEMMA EmitIs ==
  ASSUME NEW b, IsBuf(b), Simple(b), NEW q, NEW pos, Lists(q, pos, b),
         NEW new \in Seq(Any), NEW i \in 1 .. Len(q)
  PROVE  Emit(b, q, new, i) \in Seq(Any)
<1> DEFINE to == IF i = Len(q) THEN End(b, 0) + 1 ELSE q[i + 1].s
           left == IF new = << >> \/ new[1] = NUL THEN Text(b, 0, q[i].s) ELSE << >>
<1>1. /\ Len(q) \in Nat /\ End(b, 0) \in Nat
      /\ q[i].s \in 0 .. End(b, 0) - 1 /\ q[i].e \in 0 .. End(b, 0)
      /\ Replacement(q[i]) = Turns(b, pos[i]) /\ pos[i] \in 0 .. End(b, 0) - 1
  BY ListIs, EndOfPiece
<1>2. to \in 0 .. End(b, 0) + 1
  <2>1. CASE i = Len(q)
    BY <1>1, <2>1
  <2>2. CASE i # Len(q)
    <3>1. PICK j \in 1 .. Len(q) : j = i + 1
      BY <1>1, <2>2
    <3>2. q[j].s \in 0 .. End(b, 0) - 1
      BY ListIs
    <3> QED
      BY <1>1, <2>2, <3>1, <3>2
  <2> QED
    BY <2>1, <2>2
<1>3. Seq(Cells) \subseteq Seq(Any) /\ Seq(C) \subseteq Seq(Any)
  BY SeqMonotonic DEF Any, C
<1>4. left \in Seq(Any)
  <2>1. PICK s \in Nat : s = q[i].s /\ 0 <= s /\ s <= End(b, 0) + 1
    BY <1>1
  <2>2. Text(b, 0, s) \in Seq(Cells)
    BY <2>1, TextIs
  <2> QED
    BY <1>3, <2>1, <2>2
<1>5. Replacement(q[i]) \in Seq(Any)
  BY <1>1, <1>3, BecomesIs
<1>6. ~ (to < q[i].e) => Text(b, q[i].e, to) \in Seq(Any)
  <2> SUFFICES ASSUME ~ (to < q[i].e) PROVE Text(b, q[i].e, to) \in Seq(Any)
    OBVIOUS
  <2>1. PICK e \in Nat, u \in Nat : e = q[i].e /\ u = to /\ e <= u /\ u <= End(b, 0) + 1
    BY <1>1, <1>2
  <2>2. Text(b, e, u) \in Seq(Cells)
    BY <2>1, TextIs
  <2> QED
    BY <1>3, <2>1, <2>2
<1>7. Crash \in Seq(Any)
  BY DEF Crash, Any
<1>8. Emit(b, q, new, i) = IF new = Crash \/ to < q[i].e THEN Crash
                           ELSE new \o left \o Replacement(q[i]) \o Text(b, q[i].e, to)
  BY DEF Emit
<1> HIDE DEF left, to
<1>9. ~ (to < q[i].e) => new \o left \o Replacement(q[i]) \o Text(b, q[i].e, to) \in Seq(Any)
  <2>1. new \o left \in Seq(Any)
    BY <1>4, ConcatProperties
  <2>2. (new \o left) \o Replacement(q[i]) \in Seq(Any)
    BY <1>5, <2>1, ConcatProperties
  <2> QED
    BY <1>6, <2>2, ConcatProperties
<1> QED
  BY <1>7, <1>8, <1>9

(* The line is assembled match by match. *)
LEMMA EmittedIs ==
  ASSUME NEW b, IsBuf(b), Simple(b), NEW q, NEW pos, Lists(q, pos, b)
  PROVE  /\ Emitted(b, q)[0] = << >>
         /\ \A i \in 1 .. Len(q) : Emitted(b, q)[i] = Emit(b, q, Emitted(b, q)[i - 1], i)
<1> DEFINE top == Len(q)
           V == Seq(Any)
           g == [x \in (1 .. top) \X V |-> Emit(b, q, x[2], x[1])]
           Rhs(f, i) == IF i = 0 THEN << >> ELSE Emit(b, q, f[i - 1], i)
<1>1. top \in Nat
  BY ListIs
<1>2. ASSUME NEW i \in 1 .. top, NEW v \in V PROVE Emit(b, q, v, i) \in V
  BY EmitIs
<1>3. g \in [(1 .. top) \X V -> V]
  <2> HIDE DEF top, V
  <2> QED
    BY <1>2
<1>4. << >> \in V
  OBVIOUS
<1>5. PICK f \in [0 .. top -> V] : DefinedUp(f, top, << >>, g)
  <2> HIDE DEF g, top, V
  <2> QED
    BY <1>1, <1>3, <1>4, Iterate
<1>6. ASSUME NEW i \in 0 .. top PROVE f[i] = Rhs(f, i)
  <2> HIDE DEF top, V
  <2>1. CASE i = 0
    BY <1>5, <2>1 DEF DefinedUp
  <2>2. CASE i # 0
    <3>1. i \in 1 .. top /\ i - 1 \in 0 .. top /\ f[i - 1] \in V
      BY <1>1, <2>2
    <3>2. g[<<i, f[i - 1]>>] = Emit(b, q, f[i - 1], i)
      BY <3>1
    <3> HIDE DEF g
    <3> QED
      BY <1>5, <2>2, <3>1, <3>2 DEF DefinedUp
  <2> QED
    BY <2>1, <2>2
<1>7. f = [i \in 0 .. top |-> Rhs(f, i)]
  <2> HIDE DEF top, V, g, Rhs
  <2> QED
    BY <1>6
<1>8. Emitted(b, q) = CHOOSE h : h = [i \in 0 .. top |-> Rhs(h, i)]
  BY DEF Emitted
<1> HIDE DEF top, V, g
<1>9. Emitted(b, q) = [i \in 0 .. top |-> Rhs(Emitted(b, q), i)]
  <2> HIDE DEF Rhs
  <2> QED
    BY <1>7, <1>8
<1>10. ASSUME NEW i \in 0 .. top PROVE Emitted(b, q)[i] = Rhs(Emitted(b, q), i)
  <2> HIDE DEF Rhs
  <2> QED
    BY <1>9
<1>11. Emitted(b, q)[0] = << >>
  BY <1>1, <1>10
<1>12. ASSUME NEW i \in 1 .. top PROVE Emitted(b, q)[i] = Emit(b, q, Emitted(b, q)[i - 1], i)
  <2>1. i \in 0 .. top /\ i # 0
    BY <1>1
  <2> QED
    BY <1>10, <2>1
<1> QED
  BY <1>11, <1>12 DEF top

(* Where the text behind the i-th reference ends *)
UpToNext(b, q, pos, i) == IF i = Len(q) THEN End(b, 0) ELSE pos[i + 1]

(* The order of the list *)
LEMMA ListOrder ==
  ASSUME NEW b, IsBuf(b), Simple(b), NEW q, NEW pos, Lists(q, pos, b),
         NEW i \in 1 .. Len(q), NEW j \in 1 .. Len(q)
  PROVE  /\ pos[i] \in Nat /\ pos[j] \in Nat /\ i \in Nat /\ j \in Nat
         /\ i < j => pos[i] < pos[j] /\ To(b, pos[i]) <= pos[j]
<1>1. /\ Len(q) = Cardinality(Starts(b)) /\ Len(q) \in Nat
      /\ pos[i] \in Starts(b) /\ pos[j] \in Starts(b)
      /\ pos[i] \in 0 .. End(b, 0) - 1 /\ pos[j] \in 0 .. End(b, 0) - 1
  BY ListIs
<1>2. DOMAIN pos = 1 .. Len(q)
  BY <1>1 DEF Lists
<1>3. i < j => pos[i] < pos[j]
  BY <1>2 DEF Lists
<1>4. i < j => To(b, pos[i]) <= pos[j]
  BY <1>1, <1>3, Disjoint
<1> QED
  BY <1>1, <1>3, <1>4, EndOfPiece

(* Between a reference and the next, or the end, every cell stays. *)
LEMMA Gap ==
  ASSUME NEW b, IsBuf(b), Simple(b), NEW q, NEW pos, Lists(q, pos, b), NEW i \in 1 .. Len(q)
  PROVE  /\ UpToNext(b, q, pos, i) \in To(b, pos[i]) .. End(b, 0)
         /\ \A k \in To(b, pos[i]) .. UpToNext(b, q, pos, i) - 1 : Turns(b, k) = <<b[k]>>
         /\ i = 1 => \A k \in 0 .. pos[i] - 1 : Turns(b, k) = <<b[k]>>
<1>1. /\ Len(q) = Cardinality(Starts(b)) /\ Len(q) \in Nat /\ End(b, 0) \in Nat
      /\ pos[i] \in 0 .. End(b, 0) - 1 /\ To(b, pos[i]) \in pos[i] + 1 .. End(b, 0)
  BY ListIs, EndOfPiece
<1>2. ASSUME NEW s \in Starts(b) PROVE \E j \in 1 .. Len(q) : pos[j] = s
  BY <1>1 DEF Lists
<1>3. UpToNext(b, q, pos, i) \in To(b, pos[i]) .. End(b, 0)
  <2>1. CASE i = Len(q)
    BY <1>1, <2>1 DEF UpToNext
  <2>2. CASE i # Len(q)
    <3>1. PICK j \in 1 .. Len(q) : j = i + 1 /\ i < j
      BY <1>1, <2>2
    <3>2. To(b, pos[i]) <= pos[j] /\ pos[j] \in 0 .. End(b, 0) - 1
      BY <3>1, ListOrder, ListIs
    <3>3. UpToNext(b, q, pos, i) = pos[j]
      BY <2>2, <3>1 DEF UpToNext
    <3> QED
      BY <1>1, <3>2, <3>3
  <2> QED
    BY <2>1, <2>2
<1>4. ASSUME NEW k \in To(b, pos[i]) .. UpToNext(b, q, pos, i) - 1
      PROVE  Turns(b, k) = <<b[k]>>
  <2>1. k \in 0 .. End(b, 0) - 1
    BY <1>1, <1>3
  <2>2. ASSUME NEW s \in Starts(b), s <= k, To(b, s) > k PROVE FALSE
    <3>1. PICK j \in 1 .. Len(q) : pos[j] = s
      BY <1>2
    <3>2. /\ pos[j] \in Nat /\ i \in Nat /\ j \in Nat
          /\ (j < i => To(b, pos[j]) <= pos[i]) /\ (i < j => pos[i] < pos[j])
      BY ListOrder
    <3>3. i < j
      <4>1. PICK e \in Nat : e = To(b, pos[i]) /\ pos[i] < e /\ e <= k
        BY <1>1, <2>1
      <4>2. To(b, pos[j]) \in Int
        BY <1>1, ListIs
      <4>3. ~ (j < i)
        BY <1>1, <2>1, <2>2, <3>1, <3>2, <4>1, <4>2
      <4>4. j # i
        BY <2>1, <2>2, <3>1, <4>1
      <4> QED
        BY <3>2, <4>3, <4>4
    <3>4. PICK h \in 1 .. Len(q) : h = i + 1 /\ i # Len(q)
      BY <1>1, <3>3
    <3>5. UpToNext(b, q, pos, i) = pos[h]
      BY <3>4 DEF UpToNext
    <3>6. pos[h] \in Nat /\ (h < j => pos[h] < pos[j])
      BY ListOrder
    <3>7. pos[h] <= pos[j]
      BY <1>1, <3>2, <3>3, <3>4, <3>6
    <3>8. k < pos[h] /\ k \in Int
      BY <1>1, <2>1, <3>5, <3>6
    <3> QED
      BY <2>2, <3>1, <3>2, <3>6, <3>7, <3>8
  <2> QED
    BY <2>1, <2>2, PlainCell
<1>5. ASSUME i = 1, NEW k \in 0 .. pos[i] - 1 PROVE Turns(b, k) = <<b[k]>>
  <2>1. k \in 0 .. End(b, 0) - 1
    BY <1>1
  <2>2. ASSUME NEW s \in Starts(b), s <= k PROVE FALSE
    <3>1. PICK j \in 1 .. Len(q) : pos[j] = s
      BY <1>2
    <3>2. pos[j] \in Nat /\ (i < j => pos[i] < pos[j])
      BY ListOrder
    <3> QED
      BY <1>1, <1>5, <2>2, <3>1, <3>2
  <2> QED
    BY <2>1, <2>2, PlainCell
<1> QED
  BY <1>3, <1>4, <1>5

(* One turn of the loop takes the text from one reference to the next. *)
LEMMA Turn ==
  ASSUME NEW b, IsBuf(b), Simple(b), NEW q, NEW pos, Lists(q, pos, b), NEW i \in 1 .. Len(q), NEW new,
         new # Crash,
         new = << >> => Text(b, 0, pos[i]) = Replaced(b)[pos[i]],
         new # << >> => new = Replaced(b)[pos[i]]
  PROVE  Emit(b, q, new, i) =
           IF i = Len(q) THEN Replaced(b)[End(b, 0)] \o <<NUL>> ELSE Replaced(b)[pos[i + 1]]
<1> DEFINE s == pos[i]
           e == To(b, s)
           u == UpToNext(b, q, pos, i)
           left == IF new = << >> \/ new[1] = NUL THEN Text(b, 0, s) ELSE << >>
           to == IF i = Len(q) THEN End(b, 0) + 1 ELSE q[i + 1].s
<1>1. /\ Len(q) \in Nat /\ End(b, 0) \in Nat /\ s \in Starts(b)
      /\ s \in 0 .. End(b, 0) - 1 /\ q[i].s = s /\ q[i].e = e /\ e \in s + 1 .. End(b, 0)
      /\ Replacement(q[i]) = Turns(b, s)
  BY ListIs, EndOfPiece
<1>2. u \in e .. End(b, 0) /\ \A k \in e .. u - 1 : Turns(b, k) = <<b[k]>>
  BY Gap
<1>3. to = IF i = Len(q) THEN u + 1 ELSE u
  <2>1. CASE i = Len(q)
    BY <2>1 DEF UpToNext
  <2>2. CASE i # Len(q)
    <3>1. PICK j \in 1 .. Len(q) : j = i + 1
      BY <1>1, <2>2
    <3>2. q[j].s = pos[j]
      BY ListIs
    <3> QED
      BY <2>2, <3>1, <3>2 DEF UpToNext
  <2> QED
    BY <2>1, <2>2
<1>4. e \in Nat /\ u \in Nat /\ s \in Nat /\ e <= u /\ u <= End(b, 0) /\ u <= End(b, 0) + 1
  BY <1>1, <1>2
<1>5. Emit(b, q, new, i) = IF new = Crash \/ to < q[i].e THEN Crash
                           ELSE new \o left \o Replacement(q[i]) \o Text(b, q[i].e, to)
  BY <1>1 DEF Emit
<1> HIDE DEF left, to, u
<1>6. Emit(b, q, new, i) = new \o left \o Turns(b, s) \o Text(b, e, to)
  <2>1. ~ (to < q[i].e)
    BY <1>1, <1>3, <1>4
  <2> HIDE DEF s, e
  <2> QED
    BY <1>1, <1>5, <2>1
<1>7. Replaced(b)[s] \in Seq(C)
  <2>1. s \in 0 .. End(b, 0)
    BY <1>1
  <2> QED
    BY <2>1, ReplacedIs
<1>8. new \o left = Replaced(b)[s]
  <2>1. CASE new = << >>
    <3>1. left = Replaced(b)[s]
      BY <2>1 DEF left
    <3> QED
      BY <1>7, <2>1, <3>1, ConcatEmptySeq
  <2>2. CASE new # << >>
    <3>1. new = Replaced(b)[s]
      BY <2>2
    <3>2. new[1] # NUL
      <4>1. new \in Seq(C)
        BY <1>7, <3>1
      <4>2. new[1] \in C
        BY <2>2, <4>1
      <4> QED
        BY <4>2 DEF C
    <3>3. left = << >>
      BY <2>2, <3>2 DEF left
    <3> QED
      BY <1>7, <3>1, <3>3, ConcatEmptySeq
  <2> QED
    BY <2>1, <2>2
<1>9. Replaced(b)[s] \o Turns(b, s) = Replaced(b)[e]
  BY <1>1, OverReference
<1>10. Replaced(b)[e] \o Text(b, e, u) = Replaced(b)[u]
  <2> HIDE DEF e
  <2> QED
    BY <1>2, <1>4, PlainStretch
<1>11. Emit(b, q, new, i) = Replaced(b)[e] \o Text(b, e, to)
  BY <1>6, <1>8, <1>9
<1>12. CASE i # Len(q)
  <2>1. to = u /\ u = pos[i + 1]
    BY <1>3, <1>12 DEF u, UpToNext
  <2> QED
    BY <1>10, <1>11, <1>12, <2>1
<1>13. CASE i = Len(q)
  <2>1. to = u + 1 /\ u = End(b, 0)
    BY <1>3, <1>13 DEF u, UpToNext
  <2>2. Text(b, e, u + 1) = Text(b, e, u) \o <<b[u]>>
    <3> HIDE DEF e
    <3> QED
      BY <1>4, TextGrows
  <2>3. b[u] = NUL
    BY <2>1, EndOfPiece
  <2> DEFINE x == Replaced(b)[e]
             y == Text(b, e, u)
             z == <<NUL>>
  <2>4. x \in Seq(Cells) /\ y \in Seq(Cells) /\ z \in Seq(Cells)
    <3>1. e \in 0 .. End(b, 0)
      BY <1>1, <1>4
    <3>2. x \in Seq(C)
      <4> HIDE DEF e
      <4> QED
        BY <3>1, ReplacedIs
    <3>3. y \in Seq(Cells)
      <4> HIDE DEF e
      <4> QED
        BY <1>4, TextIs
    <3>4. Seq(C) \subseteq Seq(Cells)
      BY SeqMonotonic DEF C
    <3>5. z \in Seq(Cells)
      BY DEF Cells
    <3> QED
      BY <3>2, <3>3, <3>4, <3>5
  <2>5. Emit(b, q, new, i) = x \o (y \o z)
    BY <1>11, <2>1, <2>2, <2>3
  <2>6. x \o y = Replaced(b)[End(b, 0)]
    BY <1>10, <2>1
  <2> HIDE DEF x, y
  <2>7. (x \o y) \o z = x \o (y \o z)
    <3> HIDE DEF z
    <3> QED
      BY <2>4, Associative
  <2> QED
    BY <1>13, <2>5, <2>6, <2>7
<1> QED
  BY <1>12, <1>13

(* The loop assembles what every cell becomes, and the NUL. *)
LEMMA Assembled ==
  ASSUME NEW b, IsBuf(b), Simple(b), NEW q, NEW pos, Lists(q, pos, b), Len(q) # 0
  PROVE  Emitted(b, q)[Len(q)] = Replaced(b)[End(b, 0)] \o <<NUL>>
<1> DEFINE top == Len(q) - 1
           After(i) == IF i = Len(q) THEN Replaced(b)[End(b, 0)] \o <<NUL>>
                       ELSE Replaced(b)[pos[i + 1]]
           S == {d \in 0 .. top : Emitted(b, q)[d + 1] = After(d + 1)}
<1>1. top \in Nat /\ Len(q) \in Nat /\ End(b, 0) \in Nat
  BY ListIs, EndOfPiece
<1>2. 0 \in S
  <2>1. PICK i \in 1 .. Len(q) : i = 1 /\ i - 1 = 0 /\ i = 0 + 1
    BY <1>1
  <2>2. Emitted(b, q)[i] = Emit(b, q, << >>, i)
    BY <2>1, EmittedIs
  <2>3. << >> # Crash
    BY DEF Crash
  <2>4. pos[i] \in Nat /\ 0 <= pos[i] /\ pos[i] <= End(b, 0)
    BY <1>1, ListIs
  <2>5. Replaced(b)[pos[i]] = Replaced(b)[0] \o Text(b, 0, pos[i])
    <3>1. \A k \in 0 .. pos[i] - 1 : Turns(b, k) = <<b[k]>>
      BY <2>1, Gap
    <3> QED
      BY <2>4, <3>1, PlainStretch
  <2>6. Text(b, 0, pos[i]) \in Seq(C)
    <3>1. pos[i] <= End(b, 0) + 1
      BY <1>1, <2>4
    <3> QED
      BY <2>4, <3>1, TextIs
  <2>7. Text(b, 0, pos[i]) = Replaced(b)[pos[i]]
    BY <2>5, <2>6, ReplacedIs, ConcatEmptySeq
  <2>8. Emit(b, q, << >>, i) = After(i)
    BY <2>3, <2>7, Turn
  <2> HIDE DEF After
  <2> QED
    BY <1>1, <2>1, <2>2, <2>8
<1>3. ASSUME NEW d \in 0 .. top - 1, d \in S PROVE d + 1 \in S
  <2>1. PICK h \in 1 .. Len(q), i \in 1 .. Len(q) :
          h = d + 1 /\ i = (d + 1) + 1 /\ i - 1 = h /\ i = h + 1 /\ h < i /\ h # Len(q)
    <3>1. d + 1 \in 1 .. Len(q) /\ d + 1 + 1 \in 1 .. Len(q) /\ d + 1 # Len(q)
      BY <1>1
    <3> QED
      BY <1>1, <3>1
  <2>2. Emitted(b, q)[h] = Replaced(b)[pos[i]]
    BY <1>3, <2>1
  <2>3. Emitted(b, q)[i] = Emit(b, q, Replaced(b)[pos[i]], i)
    BY <2>1, <2>2, EmittedIs
  <2>4. pos[h] \in Starts(b) /\ pos[i] \in Starts(b) /\ pos[h] < pos[i] /\ pos[i] \in 0 .. End(b, 0)
    BY <1>1, <2>1, ListIs, ListOrder
  <2>5. Replaced(b)[pos[i]] # << >>
    BY <2>4, FrontNonEmpty
  <2>6. Replaced(b)[pos[i]] # Crash
    <3>1. Replaced(b)[pos[i]] \in Seq(C)
      BY <2>4, ReplacedIs
    <3>2. Crash[1] = "crash" /\ Len(Crash) = 1
      BY DEF Crash
    <3>3. ASSUME Crash \in Seq(C) PROVE FALSE
      <4>1. Crash[1] \in C
        BY <3>2, <3>3, ElementOfSeq
      <4> QED
        BY <3>2, <4>1, CrashNoCell DEF C
    <3> QED
      BY <3>1, <3>3
  <2>7. Emit(b, q, Replaced(b)[pos[i]], i) = After(i)
    <3>1. PICK new : new = Replaced(b)[pos[i]]
      OBVIOUS
    <3>2. /\ new # Crash
          /\ new = << >> => Text(b, 0, pos[i]) = Replaced(b)[pos[i]]
          /\ new # << >> => new = Replaced(b)[pos[i]]
      BY <2>5, <2>6, <3>1
    <3>3. Emit(b, q, new, i) = After(i)
      BY <3>2, Turn
    <3> QED
      BY <3>1, <3>3
  <2>8. d + 1 \in 0 .. top
    BY <1>1
  <2> HIDE DEF After, top
  <2> QED
    BY <2>1, <2>3, <2>7, <2>8
<1>4. top \in S
  <2> HIDE DEF S, top
  <2>1. 0 .. top \subseteq S
    BY <1>1, <1>2, <1>3, FromZero
  <2> QED
    BY <1>1, <2>1
<1>5. top + 1 = Len(q)
  BY <1>1
<1> QED
  BY <1>4, <1>5

(* A piece without references is copied as it is. *)
LEMMA NothingToReplace ==
  ASSUME NEW b, IsBuf(b), Simple(b), Starts(b) = {}
  PROVE  /\ Text(b, 0, End(b, 0) + 1) = Replaced(b)[End(b, 0)] \o <<NUL>>
         /\ Len(Replaced(b)[End(b, 0)]) = End(b, 0)
<1> DEFINE e == End(b, 0)
<1>1. e \in Nat /\ b[e] = NUL /\ 0 <= e /\ e <= End(b, 0) /\ e <= End(b, 0) + 1
  BY EndOfPiece
<1>2. \A k \in 0 .. e - 1 : Turns(b, k) = <<b[k]>>
  BY PlainCell
<1>3. Replaced(b)[e] = Replaced(b)[0] \o Text(b, 0, e)
  <2> HIDE DEF e
  <2> QED
    BY <1>1, <1>2, PlainStretch
<1>4. Text(b, 0, e) \in Seq(C) /\ Len(Text(b, 0, e)) = e - 0
  <2> HIDE DEF e
  <2> QED
    BY <1>1, TextIs
<1>5. Replaced(b)[e] = Text(b, 0, e)
  BY <1>3, <1>4, ReplacedIs, ConcatEmptySeq
<1>6. Text(b, 0, e + 1) = Text(b, 0, e) \o <<b[e]>>
  <2> HIDE DEF e
  <2> QED
    BY <1>1, TextGrows
<1>7. e - 0 = e
  BY <1>1
<1> QED
  BY <1>1, <1>4, <1>5, <1>6, <1>7

(* A simple piece is replaced as the README says. *)
LEMMA VariablesReplaced ==
  ASSUME NEW b, IsBuf(b), Simple(b)
  PROVE  /\ do_replace_variable(b) = Replaced(b)[End(b, 0)] \o <<NUL>>
         /\ Sorted(b) = << >> <=> Starts(b) = {}
<1>1. PICK pos : Lists(Sorted(b), pos, b)
  BY SortedIs
<1> DEFINE q == Sorted(b)
<1>2. Cardinality(Starts(b)) \in Nat /\ Len(q) = Cardinality(Starts(b))
  BY <1>1, ListIs
<1>3. Starts(b) = {} <=> Len(q) = 0
  BY <1>2, StartsFinite, FS_EmptySet
<1>4. q = << >> <=> Len(q) = 0
  <2>1. q = [i \in 1 .. Cardinality(Starts(b)) |-> Whole(b, pos[i])]
    <3>1. DOMAIN pos = 1 .. Cardinality(Starts(b))
      BY <1>1 DEF Lists
    <3> QED
      BY <1>1, <3>1 DEF Lists
  <2>2. Len(q) = 0 => q = << >>
    BY <1>2, <2>1
  <2>3. q = << >> => Len(q) = 0
    OBVIOUS
  <2> QED
    BY <2>2, <2>3
<1>5. CASE q = << >>
  BY <1>3, <1>4, <1>5, NothingToReplace DEF do_replace_variable
<1>6. CASE q # << >>
  <2>1. Emitted(b, q)[Len(q)] = Replaced(b)[End(b, 0)] \o <<NUL>>
    BY <1>1, <1>4, <1>6, Assembled
  <2> QED
    BY <1>3, <1>4, <1>6, <2>1 DEF do_replace_variable
<1> QED
  BY <1>5, <1>6

(* The string in front of the NUL *)
LEMMA CStringIs ==
  ASSUME NEW t \in Seq(C)
  PROVE  CString(t \o <<NUL>>) = t /\ Len(t \o <<NUL>>) = Len(t) + 1
<1> DEFINE z == <<NUL>>
           x == t \o z
           top == Len(t) + 1
<1>1. t \in Seq(Cells) /\ z \in Seq(Cells) /\ Len(z) = 1 /\ z[1] = NUL /\ Len(t) \in Nat
  <2>1. t \in Seq(Cells)
    BY SeqMonotonic DEF C
  <2> QED
    BY <2>1 DEF Cells
<1>2. /\ x \in Seq(Cells) /\ Len(x) = top
      /\ \A i \in 1 .. top : x[i] = IF i <= Len(t) THEN t[i] ELSE z[i - Len(t)]
  <2> HIDE DEF z
  <2> QED
    BY <1>1, ConcatProperties
<1> HIDE DEF z, x
<1>3. \A i \in 1 .. Len(t) : x[i] = t[i] /\ x[i] # NUL
  <2> SUFFICES ASSUME NEW i \in 1 .. Len(t) PROVE x[i] = t[i] /\ x[i] # NUL
    OBVIOUS
  <2>1. t[i] \in C
    BY ElementOfSeq
  <2>2. x[i] = t[i]
    BY <1>1, <1>2
  <2> QED
    BY <2>1, <2>2 DEF C
<1>4. top \in Nat /\ x[top] = NUL /\ DOMAIN x = 1 .. top
  BY <1>1, <1>2
<1>5. NUL \in Range(x)
  BY <1>1, <1>4 DEF Range
<1>6. {i \in DOMAIN x : x[i] = NUL} = {top}
  <2>1. \A i \in 1 .. top : i = top \/ i \in 1 .. Len(t)
    BY <1>1
  <2> QED
    BY <1>1, <1>3, <1>4, <2>1
<1>7. Min({top}) = top
  BY <1>4 DEF Min
<1>8. CString(x) = SubSeq(x, 1, Len(t))
  <2>1. top - 1 = Len(t)
    BY <1>1
  <2> HIDE DEF top
  <2> QED
    BY <1>5, <1>6, <1>7, <2>1 DEF CString
<1>9. SubSeq(x, 1, Len(t)) = t
  <2>1. \A i \in 1 .. Len(t) : x[i] \in Cells
    BY <1>1, <1>3, ElementOfSeq
  <2>2. /\ SubSeq(x, 1, Len(t)) \in Seq(Cells)
        /\ Len(SubSeq(x, 1, Len(t))) = IF 1 <= Len(t) THEN Len(t) - 1 + 1 ELSE 0
        /\ \A i \in 1 .. Len(t) - 1 + 1 : SubSeq(x, 1, Len(t))[i] = x[1 + i - 1]
    BY <1>1, <2>1, SubSeqProperties
  <2>3. Len(SubSeq(x, 1, Len(t))) = Len(t)
    BY <1>1, <2>2
  <2>4. \A i \in 1 .. Len(t) : SubSeq(x, 1, Len(t))[i] = t[i]
    BY <1>1, <1>3, <2>2
  <2> QED
    BY <1>1, <2>2, <2>3, <2>4, SeqEqual
<1> QED
  BY <1>2, <1>8, <1>9 DEF x, z

(* new_line has room for a piece that shrinks. *)
LEMMA VariablesFit ==
  ASSUME NEW b, IsBuf(b), Simple(b), Len(Result(b)) < End(b, 0)
  PROVE  Written(b) <= Allocated(b)
<1> DEFINE e == End(b, 0)
           r == Replaced(b)[e]
           q == Sorted(b)
<1>1. e \in Nat /\ e \in 0 .. End(b, 0)
  BY EndOfPiece
<1>2. r \in Seq(C)
  <2> HIDE DEF e
  <2> QED
    BY <1>1, ReplacedIs
<1>3. Len(r) \in Nat
  BY <1>2, LenProperties
<1>4. Len(do_replace_variable(b)) = Len(r) + 1
  BY <1>2, VariablesReplaced, CStringIs
<1>5. PICK pos : Lists(q, pos, b)
  BY SortedIs
<1>6. Growth(b) \in Int
  BY <1>5, GrowthIs DEF Growth
<1>7. Max({Growth(b), 0}) \in Int /\ Max({Growth(b), 0}) >= 0
  <2> DEFINE g == Growth(b)
  <2>1. g \in Int
    BY <1>6
  <2> HIDE DEF g
  <2>2. \E x \in {g, 0} : \A y \in {g, 0} : x >= y
    BY <2>1
  <2>3. Max({g, 0}) \in {g, 0} /\ \A y \in {g, 0} : Max({g, 0}) >= y
    BY <2>2 DEF Max
  <2>4. Max({g, 0}) \in Int /\ Max({g, 0}) >= 0
    BY <2>1, <2>3
  <2> QED
    BY <2>4 DEF g
<1>8. Allocated(b) \in Int /\ Allocated(b) >= e + 1
  BY <1>1, <1>7 DEF Allocated
<1>9. Len(r) < e
  BY DEF Result
<1>10. Written(b) \in Int /\ Written(b) <= Len(r) + 1 + 1
  <2> HIDE DEF r
  <2>1. Written(b) = Len(r) + 1 + (IF Sorted(b) = << >> THEN 0 ELSE 1)
    BY <1>4 DEF Written
  <2>2. CASE Sorted(b) = << >>
    BY <1>3, <2>1, <2>2
  <2>3. CASE Sorted(b) # << >>
    BY <1>3, <2>1, <2>3
  <2> QED
    BY <2>2, <2>3
<1> QED
  BY <1>1, <1>3, <1>8, <1>9, <1>10

-----------------------------------------------------------------------------
(* The length of a string, of which a keyword is 13 characters *)
LEMMA StrlenIs ==
  ASSUME NEW S, NEW s \in Seq(S)
  PROVE  /\ strlen(s) \in Nat
         /\ (\E i \in DOMAIN s : s[i] = "cmakedefine01") => strlen(s) >= Len(s) + 12
<1> DEFINE K == {i \in DOMAIN s : s[i] = "cmakedefine"}
           L == {i \in DOMAIN s : s[i] = "cmakedefine01"}
<1>1. Len(s) \in Nat /\ DOMAIN s = 1 .. Len(s) /\ IsFiniteSet(1 .. Len(s))
  <2>1. Len(s) \in Nat /\ DOMAIN s = 1 .. Len(s)
    BY LenProperties
  <2>2. 1 \in Int /\ Len(s) \in Int
    BY <2>1
  <2> QED
    BY <2>1, <2>2, FS_Interval
<1>2. IsFiniteSet(K) /\ IsFiniteSet(L)
  <2>1. K \in SUBSET (1 .. Len(s)) /\ L \in SUBSET (1 .. Len(s))
    BY <1>1
  <2> HIDE DEF K, L
  <2> QED
    BY <1>1, <2>1, FS_Subset
<1>3. Cardinality(K) \in Nat /\ Cardinality(L) \in Nat /\ (L # {} => Cardinality(L) # 0)
  <2> HIDE DEF K, L
  <2> QED
    BY <1>2, FS_CardinalityType, FS_EmptySet
<1>4. strlen(s) = Len(s) + 10 * Cardinality(K) + 12 * Cardinality(L)
  BY DEF strlen
<1>5. (\E i \in DOMAIN s : s[i] = "cmakedefine01") => L # {}
  OBVIOUS
<1> HIDE DEF K, L
<1> QED
  BY <1>1, <1>3, <1>4, <1>5

(* new_new_line has room for all but the last byte of a #cmakedefine, and  *)
(* for all of any other line.                                              *)
LEMMA DirectivesFit ==
  ASSUME NEW s \in Seq(C)
  PROVE  DefWritten(s) <= DefAllocated(s) + (IF IsCmakedef(s) THEN 1 ELSE 0)
<1> DEFINE d == DirectiveOf(s)
           D == IF IsCmakedef(s) THEN Directives(s, "cmakedefine") ELSE Cmakedefs01(s)
<1>1. Len(s) \in Nat /\ DOMAIN s = 1 .. Len(s) /\ strlen(s) \in Nat
  BY LenProperties, StrlenIs
<1>2. D # {} => d \in D
  BY DEF DirectiveOf
<1>3. CASE IsCmakedef(s)
  <2>1. d \in Directives(s, "cmakedefine")
    BY <1>2, <1>3 DEF IsCmakedef
  <2>2. d.a \in 1 .. Len(s) /\ d.z \in 1 .. Len(s)
    BY <1>1, <2>1 DEF Directives
  <2>3. strlen(NameIn(s)) \in Nat
    <3>1. PICK a \in 1 .. Len(s), z \in 1 .. Len(s) : a = d.a /\ z = d.z
      BY <2>2
    <3>2. \A i \in a .. z : s[i] \in C
      <4> SUFFICES ASSUME NEW i \in a .. z PROVE s[i] \in C
        OBVIOUS
      <4>1. i \in 1 .. Len(s)
        BY <1>1
      <4> QED
        BY <4>1, ElementOfSeq
    <3>3. SubSeq(s, a, z) \in Seq(C)
      <4>1. a \in Int /\ z \in Int
        BY <1>1
      <4> QED
        BY <3>2, <4>1, SubSeqProperties
    <3>4. NameIn(s) = SubSeq(s, a, z)
      BY <3>1 DEF NameIn
    <3> QED
      BY <3>3, <3>4, StrlenIs
  <2> QED
    BY <1>1, <1>3, <2>3 DEF DefWritten, DefAllocated
<1>4. CASE ~ IsCmakedef(s) /\ Cmakedefs01(s) # {}
  <2>1. d \in Directives(s, "cmakedefine01")
    BY <1>2, <1>4 DEF Cmakedefs01
  <2>2. /\ d.k \in 1 .. Len(s) /\ d.a \in 1 .. Len(s) /\ s[d.k] = "cmakedefine01"
        /\ d.k + 1 < d.a /\ \E h \in 1 .. d.k - 1 : s[h] = "#"
    BY <1>1, <2>1 DEF Directives
  <2>3. PICK k \in 1 .. Len(s), u \in 1 .. Len(s) :
          /\ k = d.k /\ u = d.a - 1 /\ k <= u /\ u >= 3
          /\ s[k] = "cmakedefine01"
    <3>1. d.k >= 2
      BY <1>1, <2>2
    <3>2. d.a - 1 \in 1 .. Len(s) /\ d.k <= d.a - 1 /\ d.a - 1 >= 3
      BY <1>1, <2>2, <3>1
    <3> QED
      BY <2>2, <3>2
  <2> DEFINE x == SubSeq(s, 1, u)
  <2>4. x \in Seq(C) /\ Len(x) = u /\ x[k] = "cmakedefine01" /\ k \in DOMAIN x
    <3>1. \A i \in 1 .. u : s[i] \in C
      <4> SUFFICES ASSUME NEW i \in 1 .. u PROVE s[i] \in C
        OBVIOUS
      <4>1. i \in 1 .. Len(s)
        BY <1>1
      <4> QED
        BY <4>1, ElementOfSeq
    <3>2. /\ SubSeq(s, 1, u) \in Seq(C)
          /\ Len(SubSeq(s, 1, u)) = IF 1 <= u THEN u - 1 + 1 ELSE 0
          /\ \A i \in 1 .. u - 1 + 1 : SubSeq(s, 1, u)[i] = s[1 + i - 1]
      <4>1. 1 \in Int /\ u \in Int
        BY <1>1
      <4> QED
        BY <3>1, <4>1, SubSeqProperties
    <3> HIDE DEF x
    <3>3. x \in Seq(C) /\ Len(x) = u /\ \A i \in 1 .. u : x[i] = s[i]
      BY <1>1, <2>3, <3>2 DEF x
    <3>4. DOMAIN x = 1 .. u /\ k \in 1 .. u
      BY <1>1, <2>3, <3>3, LenProperties
    <3> QED
      BY <2>3, <3>3, <3>4
  <2> HIDE DEF x
  <2>5. strlen(x) \in Nat /\ strlen(x) >= u + 12
    BY <2>4, StrlenIs
  <2>6. DefWritten(s) = 8 + 2 + strlen(s) + 1 - strlen(x) /\ DefAllocated(s) = strlen(s)
    BY <1>4, <2>3 DEF DefWritten, DefAllocated, x
  <2> QED
    BY <1>1, <1>4, <2>3, <2>5, <2>6
<1>5. CASE ~ IsCmakedef(s) /\ Cmakedefs01(s) = {}
  BY <1>1, <1>5 DEF DefWritten, DefAllocated
<1> QED
  BY <1>3, <1>4, <1>5

-----------------------------------------------------------------------------
(* Both results for one piece *)
PieceRight(b, out) == Simple(b) => out = do_replace_cmakedef(Result(b))
PieceFits(b, top, r, dtop, dr) ==
  Simple(b) =>
    /\ Len(Result(b)) < End(b, 0) => top <= r
    /\ dtop <= dr + (IF IsCmakedef(Result(b)) THEN 1 ELSE 0)

(* new_line holds what the references should become. *)
LEMMA NewLineIs ==
  ASSUME NEW b, IsBuf(b), Simple(b)
  PROVE  CString(do_replace_variable(b)) = Result(b) /\ Result(b) \in Seq(C)
<1>1. PICK e \in 0 .. End(b, 0) : e = End(b, 0)
  BY EndOfPiece
<1>2. Replaced(b)[e] \in Seq(C)
  BY ReplacedIs
<1>3. do_replace_variable(b) = Replaced(b)[e] \o <<NUL>>
  BY <1>1, VariablesReplaced
<1>4. CString(do_replace_variable(b)) = Replaced(b)[e]
  BY <1>2, <1>3, CStringIs
<1> QED
  BY <1>1, <1>2, <1>4 DEF Result

LEMMA PieceIsRight ==
  ASSUME NEW b, IsBuf(b)
  PROVE  PieceRight(b, do_replace_cmakedef(CString(do_replace_variable(b))))
BY NewLineIs DEF PieceRight

LEMMA PieceDoesFit ==
  ASSUME NEW b, IsBuf(b), NEW s, s = CString(do_replace_variable(b))
  PROVE  PieceFits(b, Written(b), Allocated(b), DefWritten(s), DefAllocated(s))
<1> SUFFICES ASSUME Simple(b)
             PROVE  /\ Len(Result(b)) < End(b, 0) => Written(b) <= Allocated(b)
                    /\ DefWritten(s) <= DefAllocated(s) + (IF IsCmakedef(Result(b)) THEN 1 ELSE 0)
  BY DEF PieceFits
<1>1. s = Result(b) /\ s \in Seq(C)
  BY NewLineIs
<1>2. DefWritten(s) <= DefAllocated(s) + (IF IsCmakedef(s) THEN 1 ELSE 0)
  BY <1>1, DirectivesFit
<1> QED
  BY <1>1, <1>2, VariablesFit

(* fgets leaves a string that ends inside the buffer. *)
LEMMA FilledIs ==
  ASSUME IsBuf(buffer), NEW l \in Seq(Cells)
  PROVE  IsBuf(Filled(l))
<1> DEFINE k == Len(l)
           m == BufSize - 1
           top == Min({k, m})
<1>1. k \in Nat /\ m \in Nat
  BY LenProperties
<1>2. top \in Nat /\ top <= k /\ top <= m
  <2> HIDE DEF k, m
  <2>1. \E x \in {k, m} : \A y \in {k, m} : x <= y
    BY <1>1
  <2>2. top \in {k, m} /\ \A y \in {k, m} : top <= y
    BY <2>1 DEF Min
  <2> QED
    BY <1>1, <2>2
<1>3. Filled(l) = [i \in 0 .. BufSize - 1 |->
                     IF i < top THEN l[i + 1] ELSE IF i = top THEN NUL ELSE buffer[i]]
  BY DEF Filled
<1> HIDE DEF top
<1>4. ASSUME NEW i \in 0 .. BufSize - 1
      PROVE  (IF i < top THEN l[i + 1] ELSE IF i = top THEN NUL ELSE buffer[i]) \in Cells
  <2>1. i < top => l[i + 1] \in Cells
    <3> SUFFICES ASSUME i < top PROVE l[i + 1] \in Cells
      OBVIOUS
    <3>1. PICK j \in 1 .. Len(l) : j = i + 1
      BY <1>1, <1>2
    <3> QED
      BY <3>1, ElementOfSeq
  <2> QED
    BY <2>1 DEF IsBuf, Cells
<1>5. Filled(l) \in [0 .. BufSize - 1 -> Cells]
  BY <1>3, <1>4
<1>6. top \in 0 .. BufSize - 1 /\ Filled(l)[top] = NUL
  BY <1>2, <1>3
<1> QED
  BY <1>5, <1>6 DEF IsBuf

(* The inductive invariant: the buffer holds a string, and what was made   *)
(* of it is right and fits.                                                *)
TemplateInv ==
  /\ IsBuf(buffer)
  /\ input \in Seq(Cells)
  /\ PieceRight(buffer, output)
  /\ PieceFits(buffer, filled, room, def_filled, def_room)

LEMMA TemplateInitInv ==
  TemplateInit => TemplateInv
<1> SUFFICES ASSUME TemplateInit PROVE TemplateInv
  OBVIOUS
<1>1. IsBuf(buffer)
  <2>1. buffer \in [0 .. BufSize - 1 -> Cells]
    BY DEF TemplateInit, Cells
  <2>2. 0 \in 0 .. BufSize - 1 /\ buffer[0] = NUL
    BY DEF TemplateInit
  <2> QED
    BY <2>1, <2>2 DEF IsBuf
<1>2. input \in Seq(Cells)
  BY DEF TemplateInit
<1>3. End(buffer, 0) = 0
  <2>1. 0 \in 0 .. BufSize - 1 /\ buffer[0] = NUL
    BY DEF TemplateInit
  <2>2. End(buffer, 0) \in 0 .. BufSize - 1 /\ \A i \in 0 .. End(buffer, 0) - 1 : buffer[i] # NUL
    BY <1>1, EndOfPiece
  <2> QED
    BY <2>1, <2>2
<1>4. PieceRight(buffer, output)
  <2> SUFFICES ASSUME Simple(buffer) PROVE output = do_replace_cmakedef(Result(buffer))
    BY DEF PieceRight
  <2>1. Result(buffer) = << >> /\ output = << >>
    BY <1>1, <1>3, ReplacedIs DEF TemplateInit, Result
  <2>2. \A keyword : Directives(<< >>, keyword) = {}
    <3> SUFFICES ASSUME NEW keyword, NEW d \in Directives(<< >>, keyword) PROVE FALSE
      OBVIOUS
    <3>1. d.a \in DOMAIN << >>
      BY DEF Directives
    <3> QED
      BY <3>1
  <2>3. do_replace_cmakedef(<< >>) = << >>
    BY <2>2 DEF do_replace_cmakedef, IsCmakedef, Cmakedefs01
  <2> QED
    BY <2>1, <2>3
<1>5. PieceFits(buffer, filled, room, def_filled, def_room)
  <2>1. filled = 1 /\ room = 1 /\ def_filled = 1 /\ def_room = 1
    BY DEF TemplateInit
  <2> QED
    BY <2>1 DEF PieceFits
<1> QED
  BY <1>1, <1>2, <1>4, <1>5 DEF TemplateInv

LEMMA TemplateNextInv ==
  TemplateInv /\ [TemplateNext]_templateVars => TemplateInv'
<1> SUFFICES ASSUME TemplateInv, [TemplateNext]_templateVars PROVE TemplateInv'
  OBVIOUS
<1>1. CASE NextLine
  <2>1. input' \in Seq(Cells)
    BY <1>1, LinesValues DEF NextLine
  <2>2. UNCHANGED <<buffer, output, room, filled, def_room, def_filled>>
    BY <1>1 DEF NextLine
  <2> QED
    BY <2>1, <2>2 DEF TemplateInv
<1>2. CASE main
  <2> DEFINE b == Filled(input)
             s == CString(do_replace_variable(b))
  <2>1. /\ buffer' = b
        /\ output' = do_replace_cmakedef(s)
        /\ room' = Allocated(b) /\ filled' = Written(b)
        /\ def_room' = DefAllocated(s) /\ def_filled' = DefWritten(s)
        /\ input' = SubSeq(input, End(b, 0) + 1, Len(input))
    BY <1>2 DEF main
  <2>2. IsBuf(b)
    BY FilledIs DEF TemplateInv
  <2> HIDE DEF b
  <2>3. input' \in Seq(Cells)
    <3>1. input \in Seq(Cells) /\ Len(input) \in Nat
      BY LenProperties DEF TemplateInv
    <3>2. PICK m \in Nat : m = End(b, 0) + 1 /\ m >= 1
      BY <2>2, EndOfPiece
    <3>3. \A i \in m .. Len(input) : input[i] \in Cells
      BY <3>1, <3>2, ElementOfSeq
    <3>4. SubSeq(input, m, Len(input)) \in Seq(Cells)
      BY <3>1, <3>3, SubSeqProperties
    <3> QED
      BY <2>1, <3>2, <3>4
  <2>4. PieceRight(b, do_replace_cmakedef(s))
    BY <2>2, PieceIsRight
  <2>5. PieceFits(b, Written(b), Allocated(b), DefWritten(s), DefAllocated(s))
    BY <2>2, PieceDoesFit
  <2> HIDE DEF s
  <2>6. /\ PieceRight(buffer', output') /\ IsBuf(buffer')
        /\ PieceFits(buffer', filled', room', def_filled', def_room')
    BY <2>1, <2>2, <2>4, <2>5
  <2> QED
    BY <2>3, <2>6 DEF TemplateInv
<1>3. CASE UNCHANGED templateVars
  BY <1>3 DEF templateVars, TemplateInv
<1> QED
  BY <1>1, <1>2, <1>3 DEF TemplateNext

(* A simple piece comes out with every reference to a defined variable     *)
(* replaced by its value and everything else but the directive as it was:  *)
(* do_replace_variable and do_replace_cmakedef, after fgets cut the lines  *)
(* anywhere and left anything behind the NUL.                              *)
THEOREM SimplePieces ==
  TemplateSpec => []SimplePiecesRight
<1>1. TemplateInv => SimplePiecesRight
  BY DEF TemplateInv, PieceRight, SimplePiecesRight
<1> QED
  BY <1>1, TemplateInitInv, TemplateNextInv, PTL DEF TemplateSpec

(* do_replace_variable writes no more than it allocates when the result of *)
(* a simple piece is shorter than the piece, and do_replace_cmakedef one   *)
(* byte too many for a #cmakedefine and none for any other line.           *)
THEOREM PiecesFit ==
  TemplateSpec => []LinesFit
<1>1. TemplateInv => LinesFit
  BY DEF TemplateInv, PieceFits, LinesFit
<1> QED
  BY <1>1, TemplateInitInv, TemplateNextInv, PTL DEF TemplateSpec
=============================================================================
