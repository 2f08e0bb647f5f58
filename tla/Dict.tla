-------------------------------- MODULE Dict --------------------------------
(***************************************************************************)
(* The dictionary of genconfig (tools/genconfig/dict.c): three parallel    *)
(* arrays of d->size slots, searched linearly, grown by doubling.  Hash    *)
(* values may collide.  A slot is free when its key is NULL.  Every        *)
(* allocation may fail, also those whose result the code does not check;   *)
(* a call that then dereferences NULL ends the program.                    *)
(***************************************************************************)
EXTENDS Integers, FiniteSets

CONSTANTS
  Keys, Values,  \* strings used as keys, pointers stored as values
  Null,          \* the null pointer
  Hash,          \* dictionary_hash: what a key hashes to
  MinSize,       \* DICTMINSZ
  Asked,         \* the size passed to dictionary_new
  MaxEntries     \* bound on d->n

ASSUME DictAssumption ==
  /\ MinSize \in Nat \ {0} /\ Asked \in Int /\ MaxEntries \in Nat
  /\ Hash \in [Keys -> Nat]
  /\ Null \notin Keys

VARIABLES
  n, size,         \* d->n, d->size
  key, val, hash,  \* the arrays
  lost,            \* the pointers that are NULL after a failed allocation
  dropped,         \* pairs counted in d->n whose xstrdup returned NULL
  last             \* the last call, its arguments and its result

arrays == <<key, val, hash>>
vars == <<n, size, key, val, hash, lost, dropped, last>>

Arrays == {"val", "key", "hash"}
NoArray == << >>

Slots == 0 .. size - 1
Occupied == {i \in Slots : key[i] # Null}
Pairs == {<<key[i], val[i]>> : i \in Occupied}

(* the test of every search loop: same hash, then same string *)
Matches(i, k) == key[i] # Null /\ hash[i] = Hash[k] /\ key[i] = k

(* the search loop stops at slot i *)
FoundAt(i, k) == Matches(i, k) /\ \A j \in Slots : j < i => ~Matches(j, k)

Found(k) == \E i \in Slots : Matches(i, k)

(* dictionary_get *)
dictionary_get(k, def) ==
  IF Found(k) THEN val[CHOOSE i \in Slots : FoundAt(i, k)] ELSE def

(* dictionary_new: the dictionary itself is not allocated, or any of the   *)
(* arrays is not, which nobody checks                                      *)
Init ==
  /\ n = 0
  /\ size = IF Asked < MinSize THEN MinSize ELSE Asked
  /\ lost \in {{"d"}} \cup SUBSET Arrays
  /\ key = IF lost \cap {"d", "key"} # {} THEN NoArray ELSE [i \in Slots |-> Null]
  /\ val = IF lost \cap {"d", "val"} # {} THEN NoArray ELSE [i \in Slots |-> Null]
  /\ hash = IF lost \cap {"d", "hash"} # {} THEN NoArray ELSE [i \in Slots |-> 0]
  /\ dropped = 0
  /\ last = [op |-> "none"]

(* the loop over all slots dereferences NULL *)
SearchCrashes ==
  lost \cap {"d", "key"} # {} \/ ("hash" \in lost /\ Occupied # {})

(* dictionary_set, the key is there: only the value changes *)
SetExisting(k, v) ==
  /\ lost = {}
  /\ n > 0
  /\ \E i \in Slots : FoundAt(i, k) /\ val' = [val EXCEPT ![i] = v]
  /\ last' = [op |-> "set", k |-> k, v |-> v, ret |-> 0]
  /\ UNCHANGED <<n, size, key, hash, lost, dropped>>

Missing(k) == ~(n > 0 /\ Found(k))

(* mem_double: the old contents, then zeroes *)
Doubled(a, zero, sz) ==
  [i \in 0 .. 2 * sz - 1 |-> IF i < sz THEN a[i] ELSE zero]

(* how far slot i is from d->n when the search wraps at sz *)
Distance(i, from, sz) == IF i >= from THEN i - from ELSE i - from + sz
(* Mutant: the insertion takes slot d->n without looking for a free one. *)
FirstEmptyIsN(i, ks, sz) == i = n

(* slot i is where the loop that starts at d->n and wraps at sz stops *)
FirstEmpty(i, ks, sz) ==
  /\ ks[i] = Null
  /\ \A j \in 0 .. sz - 1 :
       Distance(j, n, sz) < Distance(i, n, sz) => ks[j] # Null

(* Mutant: the hash of the new key is not stored. *)
InsertNoHash(k, v, dup, sz, ks, vs, hs) ==
  /\ size' = sz
  /\ \E i \in 0 .. sz - 1 :
       /\ FirstEmpty(i, ks, sz)
       /\ key' = [ks EXCEPT ![i] = dup]
       /\ val' = [vs EXCEPT ![i] = v]
  /\ hash' = hs
  /\ n' = n + 1
  /\ dropped' = IF dup = Null THEN dropped + 1 ELSE dropped

(* The new pair goes into the first free slot of the arrays ks, vs, hs;    *)
(* dup is what xstrdup returned.                                           *)
Insert(k, v, dup, sz, ks, vs, hs) ==
  /\ size' = sz
  /\ \E i \in 0 .. sz - 1 :
       /\ FirstEmpty(i, ks, sz)
       /\ key' = [ks EXCEPT ![i] = dup]
       /\ val' = [vs EXCEPT ![i] = v]
       /\ hash' = [hs EXCEPT ![i] = Hash[k]]
  /\ n' = n + 1
  /\ dropped' = IF dup = Null THEN dropped + 1 ELSE dropped

(* dictionary_set, the key is new *)
SetNew(k, v) ==
  /\ lost = {}
  /\ Missing(k)
  /\ n < MaxEntries
  /\ \E dup \in {k, Null} :
       IF n = size
       THEN Insert(k, v, dup, 2 * size, Doubled(key, Null, size),
                   Doubled(val, Null, size), Doubled(hash, 0, size))
       ELSE Insert(k, v, dup, size, key, val, hash)
  /\ last' = [op |-> "set", k |-> k, v |-> v, ret |-> 0]
  /\ UNCHANGED lost

(* dictionary_set, some of the three mem_double calls fail: their pointers *)
(* are overwritten with NULL, the others point to larger arrays, d->size   *)
(* stays and -1 is returned.  Another try comes to the same only when      *)
(* every array that is NULL fails again.                                   *)
SetNoMemory(k, v) ==
  /\ n = size
  /\ ~SearchCrashes /\ ~Found(k)
  /\ \E gone \in (SUBSET Arrays) \ {{}} :
       /\ lost \subseteq gone
       /\ lost' = gone
       /\ key' = IF "key" \in gone THEN NoArray ELSE Doubled(key, Null, size)
       /\ val' = IF "val" \in gone THEN NoArray ELSE Doubled(val, Null, size)
       /\ hash' = IF "hash" \in gone THEN NoArray ELSE Doubled(hash, 0, size)
  /\ last' = [op |-> "set", k |-> k, v |-> v, ret |-> -1]
  /\ UNCHANGED <<n, size, dropped>>

(* dictionary_set without a dictionary *)
SetNull(k, v) ==
  /\ "d" \in lost
  /\ last' = [op |-> "set", k |-> k, v |-> v, ret |-> -1]
  /\ UNCHANGED <<n, size, arrays, lost, dropped>>

(* A call dereferences NULL and the program ends.  Without a dictionary    *)
(* that is any get or unset.  Without an array it is a set that inserts or *)
(* copies it (memcpy in mem_double), and whatever searches the array.      *)
NullDereference ==
  /\ lost # {}
  /\ last' = [op |-> "crash"]
  /\ UNCHANGED <<n, size, arrays, lost, dropped>>

(* Mutant: the entry counter is left alone. *)
UnsetKeepsCount(k) ==
  /\ lost = {}
  /\ \E i \in Slots :
       /\ FoundAt(i, k)
       /\ key' = [key EXCEPT ![i] = Null]
       /\ val' = [val EXCEPT ![i] = Null]
       /\ hash' = [hash EXCEPT ![i] = 0]
  /\ last' = [op |-> "unset", k |-> k]
  /\ UNCHANGED <<n, size, lost, dropped>>

(* Mutant: the entry counter is decremented although nothing was found. *)
UnsetCountsMissing(k) ==
  /\ lost = {}
  /\ \/ \E i \in Slots :
          /\ FoundAt(i, k)
          /\ key' = [key EXCEPT ![i] = Null]
          /\ val' = [val EXCEPT ![i] = Null]
          /\ hash' = [hash EXCEPT ![i] = 0]
     \/ ~Found(k) /\ UNCHANGED arrays
  /\ n' = n - 1
  /\ last' = [op |-> "unset", k |-> k]
  /\ UNCHANGED <<size, lost, dropped>>

(* dictionary_unset; nothing happens when the key is not there *)
dictionary_unset(k) ==
  /\ ~SearchCrashes
  /\ \/ /\ lost = {}
        /\ \E i \in Slots :
             /\ FoundAt(i, k)
             /\ key' = [key EXCEPT ![i] = Null]
             /\ val' = [val EXCEPT ![i] = Null]
             /\ hash' = [hash EXCEPT ![i] = 0]
        /\ n' = n - 1
     \/ ~Found(k) /\ UNCHANGED <<n, arrays>>
  /\ last' = [op |-> "unset", k |-> k]
  /\ UNCHANGED <<size, lost, dropped>>

dictionary_set(k, v) ==
  SetExisting(k, v) \/ SetNew(k, v) \/ SetNoMemory(k, v) \/ SetNull(k, v)

Next ==
  /\ last.op # "crash"
  /\ \/ NullDereference
     \/ \E k \in Keys :
          dictionary_unset(k) \/ \E v \in Values : dictionary_set(k, v)

Spec == Init /\ [][Next]_vars

(***************************************************************************)
(* Properties                                                              *)
(***************************************************************************)

(* The counters and, as long as nothing is lost, the types of the arrays. *)
TypeOK ==
  /\ size \in Nat \ {0} /\ n \in Nat /\ dropped \in Nat
  /\ lost \subseteq Arrays \cup {"d"}
  /\ lost = {} =>
       /\ key \in [Slots -> Keys \cup {Null}]
       /\ val \in [Slots -> Values \cup {Null}]
       /\ hash \in [Slots -> Nat]

(* "Because d->n < d->size this will necessarily terminate" (dict.c:246-   *)
(* 248): the count never falls behind the occupied slots, so a dictionary  *)
(* with its arrays that does not grow has a free slot, however sets and    *)
(* unsets mix.                                                             *)
RoomToInsert ==
  lost = {} =>
    /\ Cardinality(Occupied) <= n
    /\ n <= size
    /\ n < size => \E i \in Slots : key[i] = Null

(* In a dictionary with its arrays the count is exact up to the pairs      *)
(* whose key could not be duplicated, no key is stored twice and every     *)
(* stored hash is the hash of its key, collisions or not.                  *)
Consistent ==
  lost = {} =>
    /\ n = Cardinality(Occupied) + dropped
    /\ \A i, j \in Occupied : key[i] = key[j] => i = j
    /\ \A i \in Occupied : hash[i] = Hash[key[i]]

(* The arrays implement the map of dict.h until an allocation fails.  A    *)
(* failed growth loses the whole map, not only the pair to be set          *)
(* (dict.c:235-240), and no later call brings a pair back.                 *)
Abs == INSTANCE DictMap
         WITH map <- IF lost = {} THEN Pairs ELSE {},
              usable <- (lost = {}),
              Values <- Values \cup {Null}
ImplementsMap == Abs!Spec

(* As long as xstrdup never failed, a dictionary_get finds the value after *)
(* dictionary_set returned 0 ("returns non-zero in case of failure",       *)
(* dict.c:203), which it never does with an array missing.                 *)
SetStores ==
  dropped = 0 /\ last.op = "set" /\ last.ret = 0
    => lost = {} /\ dictionary_get(last.k, "def") = last.v
=============================================================================
