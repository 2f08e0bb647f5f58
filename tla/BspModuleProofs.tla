-------------------------- MODULE BspModuleProofs --------------------------
(***************************************************************************)
(* Proofs about the module list, for every finite set of modules and every *)
(* choice of their callbacks, for a client that does not append a module   *)
(* that is in the list already (~Retries).                                 *)
(***************************************************************************)
EXTENDS BspModule, FiniteSetTheorems, SequenceTheorems, WellFoundedInduction, TLAPS

-----------------------------------------------------------------------------
(* Sequences of modules *)

(* A set of natural numbers has a least one. *)
LEMMA Least ==
  ASSUME NEW S, S \subseteq Nat, S # {}
  PROVE  \E i \in S : \A j \in S : i <= j
<1>1. PICK i \in S : \A j \in S : ~ (<<j, i>> \in OpToRel(<, Nat))
  BY NatLessThanWellFounded, WFMin
<1>2. ASSUME NEW j \in S, j < i PROVE FALSE
  <2>1. <<j, i>> \in Nat \X Nat /\ <<j, i>>[1] < <<j, i>>[2]
    BY <1>2
  <2>2. <<j, i>> \in OpToRel(<, Nat)
    BY <2>1, Zenon DEF OpToRel
  <2> QED
    BY <1>1, <2>2
<1> QED
  BY <1>2

(* What holds at 1 and carries over to the next number holds up to n. *)
LEMMA UpTo ==
  ASSUME NEW n \in Nat, NEW S, n > 0 => 1 \in S,
         \A i \in 1 .. n - 1 : i \in S => i + 1 \in S
  PROVE  1 .. n \subseteq S
<1> DEFINE B == {i \in 1 .. n : i \notin S}
<1>1. SUFFICES ASSUME B # {} PROVE FALSE
  OBVIOUS
<1>2. PICK i \in B : \A j \in B : i <= j
  <2>1. B \subseteq Nat
    OBVIOUS
  <2> HIDE DEF B
  <2> QED
    BY <1>1, <2>1, Least
<1>3. i \in 1 .. n /\ i # 1 /\ i - 1 \in 1 .. n - 1
  BY <1>2
<1>4. i - 1 \in S
  BY <1>2, <1>3
<1> QED
  BY <1>2, <1>3, <1>4

(* A sequence of distinct modules is no longer than there are modules. *)
LEMMA DistinctIsList ==
  ASSUME NEW n \in Nat, NEW s \in [1 .. n -> Modules],
         \A i, j \in 1 .. n : s[i] = s[j] => i = j
  PROVE  s \in Lists
<1>0. Cardinality(Modules) \in Nat /\ IsFiniteSet(Modules)
  BY ModulesAssumption, FS_CardinalityType DEF ModulesAssumption
<1>1. s \in Injection(1 .. n, Modules)
  BY DEF Injection, IsInjective
<1>2. Cardinality(1 .. n) <= Cardinality(Modules) /\ Cardinality(1 .. n) = n
  <2>1. Cardinality(1 .. n) <= Cardinality(Modules)
    BY <1>0, <1>1, FS_Injection
  <2>2. Cardinality(1 .. n) = n
    BY FS_Interval
  <2> QED
    BY <2>1, <2>2
<1>3. n \in 0 .. Cardinality(Modules)
  BY <1>0, <1>2
<1> QED
  BY <1>3 DEF Lists

-----------------------------------------------------------------------------
(* The pointers and the sequence they spell out *)

(* the pointers spell out the n modules of s *)
Spells(s, n) ==
  /\ n \in Nat /\ s \in [1 .. n -> Modules]
  /\ \A i, j \in 1 .. n : s[i] = s[j] => i = j
  /\ head = IF n = 0 THEN Nil ELSE s[1]
  /\ tail = IF n = 0 THEN Nil ELSE s[n]
  /\ \A i \in 1 .. n : next[s[i]] = IF i = n THEN Nil ELSE s[i + 1]

Rng(s, n) == {s[i] : i \in 1 .. n}

LEMMA FromLists ==
  ASSUME NEW s \in Lists
  PROVE  \E n \in Nat : n = Len(s) /\ s \in [1 .. n -> Modules]
<1>0. Cardinality(Modules) \in Nat
  BY ModulesAssumption, FS_CardinalityType DEF ModulesAssumption
<1>1. PICK n \in 0 .. Cardinality(Modules) : s \in [1 .. n -> Modules]
  BY DEF Lists
<1>2. n \in Nat
  BY <1>0
<1>3. Len(s) = n
  BY <1>1, <1>2
<1> QED
  BY <1>1, <1>2, <1>3

LEMMA SpellsType ==
  ASSUME NEW n \in Nat, NEW s \in [1 .. n -> Modules]
  PROVE  /\ Len(s) = n /\ DOMAIN s = 1 .. n /\ (s = <<>> <=> n = 0)
OBVIOUS

(* Represents speaks of the same sequences. *)
LEMMA RepresentsIsSpells ==
  ASSUME NEW n \in Nat, NEW s \in [1 .. n -> Modules]
  PROVE  Represents(s) <=> Spells(s, n)
<1>1. Len(s) = n /\ DOMAIN s = 1 .. n /\ (s = <<>> <=> n = 0)
  BY SpellsType
<1> QED
  BY <1>1, Zenon DEF Represents, Spells

LEMMA SpellsIsRepresents ==
  ASSUME NEW n, NEW s, Spells(s, n)
  PROVE  s \in Lists /\ Represents(s)
<1>1. n \in Nat /\ s \in [1 .. n -> Modules] /\ \A i, j \in 1 .. n : s[i] = s[j] => i = j
  BY DEF Spells
<1> QED
  BY <1>1, DistinctIsList, RepresentsIsSpells

(* A walk meets exactly the modules of the sequence, and ends. *)
LEMMA Reached ==
  ASSUME NEW s, NEW n, Spells(s, n)
  PROVE  InList = Rng(s, n) /\ WalkEnds
<1>0. n \in Nat /\ s \in [1 .. n -> Modules] /\ Nil \notin Modules
  BY ModulesAssumption DEF ModulesAssumption, Spells
<1>h. /\ head = IF n = 0 THEN Nil ELSE s[1]
      /\ \A i \in 1 .. n : next[s[i]] = IF i = n THEN Nil ELSE s[i + 1]
  BY DEF Spells
<1>1. Rng(s, n) \cup {Nil} \in SUBSET Pointers /\ Closed(Rng(s, n) \cup {Nil})
  <2>1. Rng(s, n) \cup {Nil} \in SUBSET Pointers
    BY <1>0 DEF Rng, Pointers
  <2>2. head \in Rng(s, n) \cup {Nil}
    BY <1>0, <1>h DEF Rng
  <2>3. ASSUME NEW m \in Rng(s, n) PROVE next[m] \in Rng(s, n) \cup {Nil}
    <3>1. PICK i \in 1 .. n : m = s[i]
      BY <2>3 DEF Rng
    <3>2. i # n => i + 1 \in 1 .. n
      BY <1>0
    <3> QED
      BY <1>h, <3>1, <3>2 DEF Rng
  <2> QED
    BY <2>1, <2>2, <2>3 DEF Closed
<1>2. Met \subseteq Rng(s, n) \cup {Nil}
  BY <1>1 DEF Met
<1>3. ASSUME NEW S \in SUBSET Pointers, Closed(S)
      PROVE  Rng(s, n) \subseteq S /\ Nil \in S
  <2> DEFINE G == {i \in 1 .. n : s[i] \in S}
  <2>1. n > 0 => 1 \in G
    BY <1>0, <1>3, <1>h DEF Closed
  <2>2. ASSUME NEW i \in 1 .. n - 1, i \in G PROVE i + 1 \in G
    <3>1. i \in 1 .. n /\ i # n /\ i + 1 \in 1 .. n /\ s[i] \in S
      BY <1>0, <2>2
    <3>2. s[i] # Nil /\ next[s[i]] = s[i + 1]
      BY <1>0, <1>h, <3>1
    <3> QED
      BY <1>3, <3>1, <3>2 DEF Closed
  <2> HIDE DEF G
  <2>3. 1 .. n \subseteq G
    BY <1>0, <2>1, <2>2, UpTo
  <2>4. \A i \in 1 .. n : s[i] \in S
    BY <2>3 DEF G
  <2>5. CASE n = 0
    BY <1>3, <1>h, <2>4, <2>5 DEF Closed, Rng
  <2>6. CASE n # 0
    <3>1. n \in 1 .. n
      BY <1>0, <2>6
    <3>2. s[n] \in S /\ s[n] # Nil /\ next[s[n]] = Nil
      BY <1>0, <1>h, <2>4, <3>1
    <3> QED
      BY <1>3, <2>4, <3>2 DEF Closed, Rng
  <2> QED
    BY <2>5, <2>6
<1>4. Rng(s, n) \cup {Nil} \subseteq Met
  BY <1>1, <1>3 DEF Met
<1>5. Nil \notin Rng(s, n)
  BY <1>0 DEF Rng
<1> QED
  BY <1>2, <1>4, <1>5 DEF InList, WalkEnds

(* The pointers spell out one sequence only. *)
LEMMA OneList ==
  ASSUME NEW s, NEW n, Spells(s, n), NEW t, NEW k, Spells(t, k), n <= k
  PROVE  s = t
<1>0. /\ n \in Nat /\ s \in [1 .. n -> Modules] /\ Nil \notin Modules
      /\ k \in Nat /\ t \in [1 .. k -> Modules]
  BY ModulesAssumption DEF ModulesAssumption, Spells
<1>h. /\ head = IF n = 0 THEN Nil ELSE s[1]
      /\ head = IF k = 0 THEN Nil ELSE t[1]
      /\ \A i \in 1 .. n : next[s[i]] = IF i = n THEN Nil ELSE s[i + 1]
      /\ \A i \in 1 .. k : next[t[i]] = IF i = k THEN Nil ELSE t[i + 1]
  BY DEF Spells
<1> DEFINE G == {i \in 1 .. n : s[i] = t[i]}
<1>1. n > 0 => 1 \in G
  BY <1>0, <1>h
<1>2. ASSUME NEW i \in 1 .. n - 1, i \in G PROVE i + 1 \in G
  <2>1. i \in 1 .. n /\ i \in 1 .. k /\ i # n /\ i # k /\ i + 1 \in 1 .. n /\ s[i] = t[i]
    BY <1>0, <1>2
  <2> QED
    BY <1>h, <2>1
<1> HIDE DEF G
<1>3. \A i \in 1 .. n : s[i] = t[i]
  <2>1. 1 .. n \subseteq G
    BY <1>0, <1>1, <1>2, UpTo
  <2> QED
    BY <2>1 DEF G
<1>4. ASSUME n < k PROVE FALSE
  <2>1. CASE n = 0
    <3>1. 1 \in 1 .. k /\ k # 0
      BY <1>0, <1>4, <2>1
    <3> QED
      BY <1>0, <1>h, <2>1, <3>1
  <2>2. CASE n # 0
    <3>1. n \in 1 .. n /\ n \in 1 .. k /\ n # k /\ n + 1 \in 1 .. k
      BY <1>0, <1>4, <2>2
    <3>2. t[n + 1] = Nil
      BY <1>h, <1>3, <3>1
    <3> QED
      BY <1>0, <3>1, <3>2
  <2> QED
    BY <2>1, <2>2
<1>5. n = k
  BY <1>0, <1>4
<1> QED
  BY <1>0, <1>3, <1>5

(* Walk is that sequence. *)
LEMMA WalkIs ==
  ASSUME NEW s, NEW n, Spells(s, n)
  PROVE  Walk = s
<1>1. Walk \in Lists /\ Represents(Walk)
  BY SpellsIsRepresents DEF Walk
<1>2. PICK k \in Nat : Walk \in [1 .. k -> Modules]
  BY <1>1, FromLists
<1>3. Spells(Walk, k)
  BY <1>1, <1>2, RepresentsIsSpells
<1>4. n \in Nat
  BY DEF Spells
<1>5. CASE n <= k
  BY <1>3, <1>5, OneList
<1>6. CASE k <= n
  BY <1>3, <1>6, OneList
<1> QED
  BY <1>4, <1>5, <1>6

(* The same in the state behind a step. *)
LEMMA WalkOf == \A s, n : Spells(s, n) => Walk = s
  BY WalkIs

LEMMA WalkOfNext == \A s, n : Spells(s, n)' => Walk' = s
<1>1. (\A s, n : Spells(s, n) => Walk = s)'
  BY WalkOf, PTL
<1> QED
  BY <1>1

-----------------------------------------------------------------------------
(* sys_slist_append and sys_slist_remove *)

Longer(s, n, m) == [i \in 1 .. n + 1 |-> IF i <= n THEN s[i] ELSE m]
Shorter(s, n, i) == [j \in 1 .. n - 1 |-> IF j < i THEN s[j] ELSE s[j + 1]]

LEMMA AppendSpells ==
  ASSUME TypeOK, NEW s, NEW n, Spells(s, n), NEW m \in Modules, m \notin Rng(s, n),
         SlistAppend(m)
  PROVE  Spells(Longer(s, n, m), n + 1)'
<1>0. /\ n \in Nat /\ s \in [1 .. n -> Modules] /\ Nil \notin Modules
      /\ next \in [Modules -> Modules \cup {Nil}]
  BY ModulesAssumption DEF ModulesAssumption, Spells, TypeOK
<1>h. /\ head = IF n = 0 THEN Nil ELSE s[1]
      /\ tail = IF n = 0 THEN Nil ELSE s[n]
      /\ \A i \in 1 .. n : next[s[i]] = IF i = n THEN Nil ELSE s[i + 1]
      /\ \A i, j \in 1 .. n : s[i] = s[j] => i = j
  BY DEF Spells
<1> DEFINE t == Longer(s, n, m)
<1>1. /\ t \in [1 .. n + 1 -> Modules] /\ t[n + 1] = m
      /\ \A i \in 1 .. n : t[i] = s[i] /\ s[i] # m /\ s[i] \in Modules
  BY <1>0 DEF Longer, Rng
<1>2. \A i, j \in 1 .. n + 1 : t[i] = t[j] => i = j
  <2> SUFFICES ASSUME NEW i \in 1 .. n + 1, NEW j \in 1 .. n + 1, t[i] = t[j] PROVE i = j
    OBVIOUS
  <2>1. (i \in 1 .. n \/ i = n + 1) /\ (j \in 1 .. n \/ j = n + 1)
    BY <1>0
  <2> HIDE DEF t
  <2> QED
    BY <1>1, <1>h, <2>1
<1> HIDE DEF t
<1>3. head' = t[1] /\ tail' = t[n + 1]
  <2>1. CASE n = 0
    BY <1>h, <1>1, <2>1 DEF SlistAppend
  <2>2. CASE n # 0
    <3>1. 1 \in 1 .. n /\ n \in 1 .. n
      BY <1>0, <2>2
    <3>2. tail # Nil /\ head = s[1]
      BY <1>0, <1>h, <2>2, <3>1
    <3> QED
      BY <1>1, <3>1, <3>2 DEF SlistAppend
  <2> QED
    BY <2>1, <2>2
<1>4. ASSUME NEW i \in 1 .. n + 1
      PROVE  next'[t[i]] = IF i = n + 1 THEN Nil ELSE t[i + 1]
  <2>1. CASE i = n + 1
    <3>1. tail # m
      <4>1. n # 0 => n \in 1 .. n
        BY <1>0
      <4> QED
        BY <1>0, <1>h, <1>1, <4>1
    <3>2. t[i] = m
      BY <1>1, <2>1
    <3> QED
      BY <1>0, <2>1, <3>1, <3>2 DEF SlistAppend
  <2>2. CASE i # n + 1 /\ i # n
    <3>1. i \in 1 .. n /\ i + 1 \in 1 .. n /\ n \in 1 .. n
      BY <1>0, <2>2
    <3>2. s[i] # tail /\ tail # Nil /\ tail \in Modules /\ s[i] # m /\ s[i] \in Modules
      BY <1>0, <1>1, <1>h, <2>2, <3>1
    <3>3. next'[s[i]] = next[s[i]]
      BY <1>0, <3>2 DEF SlistAppend
    <3> QED
      BY <1>1, <1>h, <2>2, <3>1, <3>3
  <2>3. CASE i # n + 1 /\ i = n
    <3>1. n \in 1 .. n /\ n + 1 # n
      BY <1>0, <2>3
    <3>2. t[i] = tail /\ tail # Nil /\ tail \in Modules
      BY <1>0, <1>1, <1>h, <2>3, <3>1
    <3> QED
      BY <1>0, <1>1, <2>3, <3>2 DEF SlistAppend
  <2> QED
    BY <2>1, <2>2, <2>3
<1>5. n + 1 \in Nat /\ n + 1 # 0
  BY <1>0
<1> QED
  BY <1>1, <1>2, <1>3, <1>4, <1>5 DEF Spells, t

LEMMA RemoveSpells ==
  ASSUME TypeOK, NEW s, NEW n, Spells(s, n), NEW i \in 1 .. n,
         NEW prev, prev = IF i = 1 THEN Nil ELSE s[i - 1], SlistRemove(prev, s[i])
  PROVE  Spells(Shorter(s, n, i), n - 1)'
<1>0. /\ n \in Nat /\ n - 1 \in Nat /\ s \in [1 .. n -> Modules] /\ Nil \notin Modules
      /\ next \in [Modules -> Modules \cup {Nil}] /\ n # 0 /\ n \in 1 .. n /\ 1 \in 1 .. n
  BY ModulesAssumption DEF ModulesAssumption, Spells, TypeOK
<1>h. /\ head = s[1] /\ tail = s[n]
      /\ \A j \in 1 .. n : next[s[j]] = IF j = n THEN Nil ELSE s[j + 1]
      /\ \A j, k \in 1 .. n : s[j] = s[k] => j = k
  BY <1>0 DEF Spells
<1> DEFINE t == Shorter(s, n, i)
           at(j) == IF j < i THEN j ELSE j + 1
<1>1. /\ t \in [1 .. n - 1 -> Modules]
      /\ \A j \in 1 .. n - 1 : t[j] = s[at(j)] /\ at(j) \in 1 .. n /\ at(j) # i
  BY <1>0 DEF Shorter
<1>2. \A j, k \in 1 .. n - 1 : t[j] = t[k] => j = k
  <2> SUFFICES ASSUME NEW j \in 1 .. n - 1, NEW k \in 1 .. n - 1, t[j] = t[k] PROVE j = k
    OBVIOUS
  <2> HIDE DEF t
  <2>1. at(j) = at(k)
    <3> HIDE DEF at
    <3> QED
      BY <1>1, <1>h
  <2> QED
    BY <1>0, <2>1
<1> HIDE DEF t
<1>p. /\ i # 1 => i - 1 \in 1 .. n /\ prev = s[i - 1] /\ prev # s[i] /\ prev \in Modules
      /\ i # n => i + 1 \in 1 .. n
      /\ next[s[i]] = IF i = n THEN Nil ELSE s[i + 1]
      /\ s[i] \in Modules
  BY <1>0, <1>h
<1>3. head' = IF n - 1 = 0 THEN Nil ELSE t[1]
  <2>1. CASE n = 1
    <3>1. i = 1 /\ prev = Nil
      BY <1>0, <2>1
    <3> QED
      BY <1>p, <2>1, <3>1 DEF SlistRemove
  <2>2. CASE n # 1
    <3>1. 1 \in 1 .. n - 1 /\ n - 1 # 0
      BY <1>0, <2>2
    <3>2. CASE i = 1
      <4>1. t[1] = s[2] /\ prev = Nil
        BY <1>1, <3>1, <3>2
      <4> QED
        BY <1>p, <2>2, <3>1, <3>2, <4>1 DEF SlistRemove
    <3>3. CASE i # 1
      <4>1. t[1] = s[1] /\ prev # Nil
        BY <1>0, <1>1, <1>p, <3>1, <3>3
      <4> QED
        BY <1>h, <3>1, <4>1 DEF SlistRemove
    <3> QED
      BY <3>2, <3>3
  <2> QED
    BY <2>1, <2>2
<1>4. tail' = IF n - 1 = 0 THEN Nil ELSE t[n - 1]
  <2>1. CASE i # n
    <3>1. n - 1 # 0 /\ n - 1 \in 1 .. n - 1 /\ at(n - 1) = n
      BY <1>0, <2>1
    <3>2. tail # s[i]
      BY <1>0, <1>h, <2>1
    <3> QED
      BY <1>1, <1>h, <3>1, <3>2 DEF SlistRemove
  <2>2. CASE i = n /\ n = 1
    BY <1>h, <1>p, <2>2 DEF SlistRemove
  <2>3. CASE i = n /\ n # 1
    <3>1. n - 1 # 0 /\ n - 1 \in 1 .. n - 1 /\ at(n - 1) = n - 1
      BY <1>0, <2>3
    <3>2. t[n - 1] = prev /\ prev # Nil
      BY <1>0, <1>1, <1>p, <2>3, <3>1
    <3> QED
      BY <1>h, <2>3, <3>1, <3>2 DEF SlistRemove
  <2> QED
    BY <2>1, <2>2, <2>3
<1>5. ASSUME NEW j \in 1 .. n - 1
      PROVE  next'[t[j]] = IF j = n - 1 THEN Nil ELSE t[j + 1]
  <2>0. t[j] # s[i] /\ t[j] \in Modules /\ (j # n - 1 => j + 1 \in 1 .. n - 1)
    <3>1. t[j] = s[at(j)] /\ at(j) \in 1 .. n /\ at(j) # i
      BY <1>1
    <3>2. j # n - 1 => j + 1 \in 1 .. n - 1
      BY <1>0
    <3> HIDE DEF at
    <3> QED
      BY <1>0, <1>h, <3>1, <3>2
  <2>1. CASE j < i - 1
    <3>1. /\ i # 1 /\ j \in 1 .. n /\ j + 1 \in 1 .. n /\ j # n /\ j # n - 1 /\ j # i - 1
          /\ at(j) = j /\ at(j + 1) = j + 1
      BY <1>0, <2>1
    <3>2. t[j] = s[j] /\ t[j + 1] = s[j + 1] /\ t[j] # prev
      BY <1>1, <1>h, <1>p, <2>0, <3>1
    <3> QED
      BY <1>h, <2>0, <3>1, <3>2 DEF SlistRemove
  <2>2. CASE j = i - 1
    <3>1. i # 1 /\ at(j) = j /\ at(j + 1) = i + 1 /\ (j = n - 1 <=> i = n)
      BY <1>0, <2>2
    <3>2. t[j] = prev /\ (j # n - 1 => t[j + 1] = s[i + 1])
      BY <1>1, <1>p, <2>0, <2>2, <3>1
    <3> QED
      BY <1>p, <2>0, <3>1, <3>2 DEF SlistRemove
  <2>3. CASE j > i - 1
    <3>1. /\ at(j) = j + 1 /\ j + 1 \in 1 .. n /\ (j + 1 = n <=> j = n - 1)
          /\ j + 1 # i - 1 /\ at(j + 1) = j + 2 /\ (j + 1) + 1 = j + 2
      BY <1>0, <2>3
    <3>2. t[j] = s[j + 1] /\ t[j] # prev /\ (j # n - 1 => t[j + 1] = s[j + 2])
      BY <1>0, <1>1, <1>h, <1>p, <2>0, <3>1
    <3> QED
      BY <1>h, <2>0, <3>1, <3>2 DEF SlistRemove
  <2> QED
    BY <1>0, <2>1, <2>2, <2>3
<1> QED
  BY <1>0, <1>1, <1>2, <1>3, <1>4, <1>5 DEF Spells, t

-----------------------------------------------------------------------------
(* The invariant *)

Prepared(m) == state[m] = "COMING" => des[m]

(* A loop stands at the k-th module of the list or behind the last one,    *)
(* and prepare_all has dealt with the modules in front of it.              *)
LoopAt(s, n, k) ==
  /\ cur = IF k <= n THEN s[k] ELSE Nil
  /\ op = "prepare" => \A i \in 1 .. k - 1 : Prepared(s[i])

(* LIVE modules are in the list; after prepare_all every module of the     *)
(* list that is COMING has a descriptor.                                   *)
ListInv(s, n) ==
  /\ Spells(s, n)
  /\ \A m \in Modules : state[m] = "LIVE" => m \in Rng(s, n)
  /\ op # "none" => \E k \in 1 .. n + 1 : LoopAt(s, n, k)
  /\ fresh => \A i \in 1 .. n : Prepared(s[i])
  /\ op = "setup" /\ Disciplined => fresh

IInv == TypeOK /\ \E s \in Lists : ListInv(s, Len(s))

(* Any sequence that satisfies ListInv will do. *)
LEMMA IInvFrom ==
  ASSUME TypeOK', NEW s, NEW n, ListInv(s, n)'
  PROVE  IInv'
<1>1. n \in Nat /\ s \in [1 .. n -> Modules] /\ \A i, j \in 1 .. n : s[i] = s[j] => i = j
  BY DEF ListInv, Spells
<1>2. s \in Lists /\ Len(s) = n
  BY <1>1, DistinctIsList, SpellsType
<1> QED
  BY <1>2, Zenon DEF IInv

LEMMA IInvGives ==
  ASSUME IInv
  PROVE  \E n \in Nat : \E s \in [1 .. n -> Modules] : ListInv(s, n)
<1>1. PICK s \in Lists : ListInv(s, Len(s))
  BY DEF IInv
<1> QED
  BY <1>1, FromLists

LEMMA InitIInv == Init => IInv
<1> SUFFICES ASSUME Init PROVE IInv
  OBVIOUS
<1>1. TypeOK
  BY DEF Init, TypeOK, States
<1>2. <<>> \in [1 .. 0 -> Modules]
  OBVIOUS
<1>3. <<>> \in Lists /\ Len(<<>>) = 0
  <2>1. 0 \in 0 .. Cardinality(Modules)
    BY ModulesAssumption, FS_CardinalityType DEF ModulesAssumption
  <2> QED
    BY <1>2, <2>1 DEF Lists
<1>4. ListInv(<<>>, 0)
  BY <1>2 DEF Init, ListInv, Spells
<1> QED
  BY <1>1, <1>3, <1>4 DEF IInv

LEMMA TypeStep ==
  ASSUME TypeOK, [Next]_vars
  PROVE  TypeOK'
<1>n. Nil \notin Modules
  BY ModulesAssumption DEF ModulesAssumption
<1>1. ASSUME NEW m \in Modules, bsp_module_append(m) PROVE TypeOK'
  BY <1>n, <1>1 DEF TypeOK, bsp_module_append, SlistAppend, list
<1>2. ASSUME NEW m \in Modules, bsp_module_remove(m) PROVE TypeOK'
  <2>1. InList \subseteq Modules
    BY DEF InList, Met, Pointers
  <2>2. /\ UNCHANGED <<state, des, armed, op, cur, fresh>>
        /\ UNCHANGED list \/ \E prev \in Modules \cup {Nil} : SlistRemove(prev, m)
    BY <1>2, <2>1 DEF bsp_module_remove, SlistFindAndRemove
  <2>3. ASSUME NEW prev \in Modules \cup {Nil}, SlistRemove(prev, m)
        PROVE  /\ head' \in Modules \cup {Nil} /\ tail' \in Modules \cup {Nil}
               /\ next' \in [Modules -> Modules \cup {Nil}]
    BY <2>3 DEF TypeOK, SlistRemove
  <2> QED
    BY <2>2, <2>3 DEF TypeOK, list
<1>3. ASSUME NEW loop \in {"prepare", "setup", "desetup"}, Begin(loop) PROVE TypeOK'
  BY <1>3 DEF TypeOK, Begin, list
<1>4. CASE PrepareFail \/ PrepareOk
  BY <1>4 DEF TypeOK, PrepareFail, PrepareOk, In, SetState, Advance, list, States
<1>5. CASE SetupSkip \/ SetupFail \/ SetupOk
  BY <1>5 DEF TypeOK, SetupSkip, SetupFail, SetupOk, In, SetState, Advance, list, States
<1>6. CASE DesetupSkip \/ Desetup
  BY <1>6 DEF TypeOK, DesetupSkip, Desetup, In, SetState, Advance, list, States
<1>7. CASE End \/ UNCHANGED vars
  BY <1>7 DEF TypeOK, End, vars, list
<1> QED
  BY <1>1, <1>2, <1>3, <1>4, <1>5, <1>6, <1>7 DEF Next, Call, Loop

-----------------------------------------------------------------------------
(* One lemma per kind of step; each also says what the step does to the    *)
(* sequence.                                                               *)

LEMMA Frame ==
  ASSUME UNCHANGED list, NEW s, NEW n, Spells(s, n)
  PROVE  Spells(s, n)'
BY DEF list, Spells

(* bsp_module_append *)
LEMMA AppendStep ==
  ASSUME ~Retries, TypeOK, NEW n \in Nat, NEW s \in [1 .. n -> Modules], ListInv(s, n),
         NEW m \in Modules, bsp_module_append(m)
  PROVE  /\ m \notin Rng(s, n) /\ state[m] # "LIVE"
         /\ ListInv(Longer(s, n, m), n + 1)'
<1>1. m \notin Rng(s, n)
  BY Reached DEF bsp_module_append, Linked, ListInv
<1>2. state[m] # "LIVE"
  BY <1>1 DEF ListInv
<1>3. SlistAppend(m) /\ op = "none" /\ op' = "none" /\ fresh' = FALSE /\ UNCHANGED state
  BY <1>2 DEF bsp_module_append
<1>4. Spells(Longer(s, n, m), n + 1)'
  BY <1>1, <1>3, AppendSpells DEF ListInv
<1>5. Rng(s, n) \subseteq Rng(Longer(s, n, m), n + 1)
  BY DEF Rng, Longer
<1>6. \A k \in Modules : state'[k] = "LIVE" => k \in Rng(Longer(s, n, m), n + 1)
  BY <1>3, <1>5 DEF ListInv
<1> QED
  BY <1>1, <1>2, <1>3, <1>4, <1>6 DEF ListInv, Rng

(* bsp_module_remove *)
LEMMA RemoveStep ==
  ASSUME TypeOK, NEW n \in Nat, NEW s \in [1 .. n -> Modules], ListInv(s, n),
         NEW m \in Modules, bsp_module_remove(m)
  PROVE  \/ ListInv(s, n)' /\ UNCHANGED list
         \/ \E i \in 1 .. n : s[i] = m /\ ListInv(Shorter(s, n, i), n - 1)'
<1>0. /\ op = "none" /\ state[m] # "LIVE" /\ SlistFindAndRemove(m)
      /\ UNCHANGED <<state, des, armed, op, cur, fresh>>
  BY DEF bsp_module_remove
<1>s. Spells(s, n) /\ InList = Rng(s, n) /\ Nil \notin Modules
  BY Reached, ModulesAssumption DEF ModulesAssumption, ListInv
<1>1. ASSUME NEW i \in 1 .. n, s[i] = m,
             SlistRemove(IF i = 1 THEN Nil ELSE s[i - 1], m)
      PROVE  ListInv(Shorter(s, n, i), n - 1)'
  <2>1. Spells(Shorter(s, n, i), n - 1)'
    BY <1>s, <1>1, RemoveSpells
  <2>2. ASSUME NEW k \in Modules, state'[k] = "LIVE"
        PROVE  k \in Rng(Shorter(s, n, i), n - 1)
    <3>1. PICK j \in 1 .. n : k = s[j]
      BY <1>0, <2>2 DEF ListInv, Rng
    <3>2. j # i
      BY <1>0, <1>1, <2>2, <3>1
    <3>3. CASE j < i
      BY <3>1, <3>3 DEF Rng, Shorter
    <3>4. CASE j > i
      <4>1. j - 1 \in 1 .. n - 1 /\ ~ (j - 1 < i) /\ (j - 1) + 1 = j
        BY <3>4
      <4>2. Shorter(s, n, i)[j - 1] = s[j]
        BY <4>1 DEF Shorter
      <4> QED
        BY <3>1, <4>1, <4>2 DEF Rng
    <3> QED
      BY <3>2, <3>3, <3>4
  <2>3. \A j \in 1 .. n - 1 : \E k \in 1 .. n : Shorter(s, n, i)[j] = s[k]
    BY DEF Shorter
  <2>4. fresh' => \A j \in 1 .. n - 1 : Prepared(Shorter(s, n, i)[j])'
    BY <1>0, <2>3 DEF ListInv, Prepared
  <2> QED
    BY <1>0, <2>1, <2>2, <2>4 DEF ListInv
<1>2. CASE head = m /\ SlistRemove(Nil, m)
  <2>1. n # 0 /\ s[1] = m /\ 1 \in 1 .. n
    BY <1>s, <1>2 DEF Spells
  <2> QED
    BY <1>1, <1>2, <2>1
<1>3. ASSUME NEW prev \in InList, next[prev] = m, SlistRemove(prev, m)
      PROVE  \E i \in 1 .. n : s[i] = m /\ ListInv(Shorter(s, n, i), n - 1)'
  <2>1. PICK k \in 1 .. n : prev = s[k]
    BY <1>s DEF Rng
  <2>2. k # n /\ s[k + 1] = m
    BY <1>s, <1>3, <2>1 DEF Spells
  <2>3. k + 1 \in 1 .. n /\ k + 1 # 1 /\ (k + 1) - 1 = k
    BY <2>2
  <2>4. SlistRemove(IF k + 1 = 1 THEN Nil ELSE s[(k + 1) - 1], m)
    BY <1>3, <2>1, <2>3
  <2> QED
    BY <1>1, <2>2, <2>3, <2>4
<1>4. CASE UNCHANGED list
  <2>1. Spells(s, n)'
    BY <1>4, <1>s, Frame
  <2> QED
    BY <1>0, <1>4, <2>1 DEF ListInv, Prepared
<1> QED
  BY <1>0, <1>2, <1>3, <1>4 DEF SlistFindAndRemove

(* The steps that begin and end a loop *)
LEMMA BeginStep ==
  ASSUME NEW n \in Nat, NEW s \in [1 .. n -> Modules], ListInv(s, n),
         NEW loop \in {"prepare", "setup", "desetup"}, Begin(loop)
  PROVE  ListInv(s, n)'
<1>1. Spells(s, n)'
  BY Frame DEF Begin, ListInv
<1>2. 1 \in 1 .. n + 1 /\ (1 <= n <=> n # 0)
  OBVIOUS
<1>3. LoopAt(s, n, 1)'
  BY <1>2 DEF Begin, LoopAt, ListInv, Spells
<1> QED
  BY <1>1, <1>2, <1>3 DEF Begin, ListInv, Prepared

LEMMA EndStep ==
  ASSUME NEW n \in Nat, NEW s \in [1 .. n -> Modules], ListInv(s, n), End
  PROVE  ListInv(s, n)'
<1>1. Spells(s, n)'
  BY Frame DEF End, ListInv
<1>2. PICK k \in 1 .. n + 1 : LoopAt(s, n, k)
  BY DEF End, ListInv
<1>3. k = n + 1
  BY <1>2, ModulesAssumption DEF ModulesAssumption, End, LoopAt
<1>4. op = "prepare" => \A i \in 1 .. n : Prepared(s[i])
  BY <1>2, <1>3 DEF LoopAt
<1> QED
  BY <1>1, <1>4 DEF End, ListInv, Prepared

(* A turn of a loop: it deals with the module at the iterator and moves    *)
(* to the next one.                                                        *)
Turn == Loop /\ cur # Nil

LEMMA TurnChanges ==
  ASSUME TypeOK, Turn
  PROVE  /\ op # "none" /\ cur \in Modules /\ cur' = next[cur] /\ UNCHANGED <<list, op, fresh>>
         /\ \/ UNCHANGED state
            \/ \E v \in States : /\ state' = [state EXCEPT ![cur] = v]
                                 /\ v = "LIVE" => state[cur] = "COMING"
         /\ \A m \in Modules : Prepared(m) => Prepared(m)'
         /\ op = "prepare" /\ state'[cur] = "COMING" => des'[cur]
<1>0. cur \in Modules /\ state \in [Modules -> States] /\ des \in [Modules -> BOOLEAN]
  BY DEF Turn, TypeOK
<1>1. CASE PrepareFail
  BY <1>0, <1>1 DEF PrepareFail, In, SetState, Advance, Prepared, States
<1>4. CASE PrepareOk
  <2>1. /\ op = "prepare" /\ cur' = next[cur] /\ UNCHANGED <<list, op, fresh>>
        /\ state' = [state EXCEPT ![cur] = "COMING"] /\ des' = [des EXCEPT ![cur] = TRUE]
    BY <1>4 DEF PrepareOk, In, SetState, Advance
  <2>2. des'[cur] = TRUE
    BY <1>0, <2>1
  <2>3. \A m \in Modules : m # cur => state'[m] = state[m] /\ des'[m] = des[m]
    BY <1>0, <2>1
  <2>4. ASSUME NEW m \in Modules, Prepared(m) PROVE Prepared(m)'
    BY <2>2, <2>3, <2>4 DEF Prepared
  <2> QED
    BY <1>0, <2>1, <2>2, <2>4 DEF States
<1>2. CASE SetupSkip \/ SetupFail \/ SetupOk
  BY <1>0, <1>2 DEF SetupSkip, SetupFail, SetupOk, In, SetState, Advance, Prepared, States
<1>3. CASE DesetupSkip \/ Desetup
  BY <1>0, <1>3 DEF DesetupSkip, Desetup, In, SetState, Advance, Prepared, States
<1> QED
  BY <1>1, <1>2, <1>3, <1>4 DEF Turn, Loop, End

LEMMA TurnStep ==
  ASSUME TypeOK, NEW n \in Nat, NEW s \in [1 .. n -> Modules], ListInv(s, n), Turn
  PROVE  /\ ListInv(s, n)' /\ cur \in Rng(s, n)
         /\ \E k \in 1 .. n : cur = s[k] /\ cur' = IF k + 1 <= n THEN s[k + 1] ELSE Nil
<1>0. /\ op # "none" /\ cur \in Modules /\ cur' = next[cur] /\ UNCHANGED <<list, op, fresh>>
      /\ \/ UNCHANGED state
         \/ \E v \in States : /\ state' = [state EXCEPT ![cur] = v]
                              /\ v = "LIVE" => state[cur] = "COMING"
      /\ \A m \in Modules : Prepared(m) => Prepared(m)'
      /\ op = "prepare" /\ state'[cur] = "COMING" => des'[cur]
  BY TurnChanges
<1>n. Nil \notin Modules
  BY ModulesAssumption DEF ModulesAssumption
<1>1. PICK k \in 1 .. n + 1 : LoopAt(s, n, k)
  BY <1>0 DEF ListInv
<1>2. k \in 1 .. n /\ cur = s[k]
  BY <1>0, <1>1, <1>n DEF LoopAt
<1>3. cur' = IF k + 1 <= n THEN s[k + 1] ELSE Nil
  <2>1. next[s[k]] = IF k = n THEN Nil ELSE s[k + 1]
    BY <1>2 DEF ListInv, Spells
  <2>2. k = n <=> ~ (k + 1 <= n)
    BY <1>2
  <2> QED
    BY <1>0, <1>2, <2>1, <2>2
<1>4. Spells(s, n)'
  BY <1>0, Frame DEF ListInv
<1>5. op = "prepare" => \A i \in 1 .. (k + 1) - 1 : Prepared(s[i])'
  <2> SUFFICES ASSUME op = "prepare", NEW i \in 1 .. (k + 1) - 1 PROVE Prepared(s[i])'
    OBVIOUS
  <2>1. i \in 1 .. n /\ s[i] \in Modules /\ (i = k \/ i \in 1 .. k - 1)
    BY <1>2
  <2>2. CASE i = k
    BY <1>0, <1>2, <2>2 DEF Prepared
  <2>3. CASE i \in 1 .. k - 1
    BY <1>0, <1>1, <2>1, <2>3 DEF LoopAt
  <2> QED
    BY <2>1, <2>2, <2>3
<1>6. LoopAt(s, n, k + 1)'
  BY <1>0, <1>3, <1>5 DEF LoopAt
<1>7. ASSUME NEW m \in Modules, state'[m] = "LIVE" PROVE m \in Rng(s, n)
  <2>1. CASE state[m] = "LIVE"
    BY <2>1 DEF ListInv
  <2>2. CASE state[m] # "LIVE"
    <3>1. m = cur
      BY <1>0, <1>7, <2>2 DEF TypeOK
    <3> QED
      BY <1>2, <3>1 DEF Rng
  <2> QED
    BY <2>1, <2>2
<1>8. fresh' => \A i \in 1 .. n : Prepared(s[i])'
  BY <1>0 DEF ListInv
<1>9. op' = "setup" /\ Disciplined => fresh'
  BY <1>0 DEF ListInv
<1>10. k + 1 \in 1 .. n + 1
  BY <1>2
<1> QED
  BY <1>2, <1>3, <1>4, <1>6, <1>7, <1>8, <1>9, <1>10 DEF ListInv, Rng

(* Every step keeps the invariant. *)
LEMMA Step ==
  ASSUME ~Retries, IInv, [Next]_vars
  PROVE  IInv'
<1>0. TypeOK /\ TypeOK'
  BY TypeStep DEF IInv
<1>1. PICK n \in Nat : \E s \in [1 .. n -> Modules] : ListInv(s, n)
  BY IInvGives
<1>2. PICK s \in [1 .. n -> Modules] : ListInv(s, n)
  BY <1>1
<1>3. ASSUME NEW m \in Modules, bsp_module_append(m) PROVE IInv'
  BY <1>0, <1>2, <1>3, AppendStep, IInvFrom
<1>4. ASSUME NEW m \in Modules, bsp_module_remove(m) PROVE IInv'
  BY <1>0, <1>2, <1>4, RemoveStep, IInvFrom
<1>5. ASSUME NEW loop \in {"prepare", "setup", "desetup"}, Begin(loop) PROVE IInv'
  BY <1>0, <1>2, <1>5, BeginStep, IInvFrom
<1>6. CASE End
  BY <1>0, <1>2, <1>6, EndStep, IInvFrom
<1>7. CASE Turn
  BY <1>0, <1>2, <1>7, TurnStep, IInvFrom
<1>8. CASE UNCHANGED vars
  <2>1. ListInv(s, n)'
    BY <1>2, <1>8 DEF vars, ListInv, Spells, LoopAt, Prepared
  <2> QED
    BY <1>0, <2>1, IInvFrom
<1>9. Loop => Turn \/ End
  BY DEF Turn, Loop, PrepareFail, PrepareOk, SetupSkip, SetupFail, SetupOk, DesetupSkip, Desetup, In
<1> QED
  BY <1>3, <1>4, <1>5, <1>6, <1>7, <1>8, <1>9 DEF Next, Call

-----------------------------------------------------------------------------
(* The theorems *)

(* No sequence of appends, removals, failing callbacks and loops breaks    *)
(* the invariant, for any finite set of modules.                           *)
THEOREM Inductive ==
  ASSUME ~Retries
  PROVE  Spec => []IInv
<1>1. IInv /\ [Next]_vars => IInv'
  BY Step
<1> QED
  BY <1>1, InitIInv, PTL DEF Spec

(* sys_slist_append and sys_slist_remove keep the pointers a sequence of   *)
(* distinct modules that begins at the head and ends at the tail.          *)
THEOREM ListWellFormed ==
  ASSUME ~Retries
  PROVE  Spec => []WellFormed
<1>1. IInv => WellFormed
  <2> SUFFICES ASSUME IInv PROVE WellFormed
    OBVIOUS
  <2>1. PICK s \in Lists : Spells(s, Len(s))
    BY DEF IInv, ListInv
  <2> QED
    BY <2>1, SpellsIsRepresents DEF IInv, WellFormed
<1> QED
  BY <1>1, Inductive, PTL

(* A module whose driver runs is never lost from the list: bsp_module_-    *)
(* remove refuses it, and the loops only reach modules of the list.        *)
THEOREM LiveStaysLinked ==
  ASSUME ~Retries
  PROVE  Spec => []LiveIsLinked
<1>1. IInv => LiveIsLinked
  <2> SUFFICES ASSUME IInv, NEW m \in Modules, state[m] = "LIVE" PROVE m \in InList
    BY DEF LiveIsLinked, Linked
  <2>1. PICK s \in Lists : ListInv(s, Len(s))
    BY DEF IInv
  <2>2. InList = Rng(s, Len(s)) /\ m \in Rng(s, Len(s))
    BY <2>1, Reached DEF ListInv
  <2> QED
    BY <2>2
<1> QED
  BY <1>1, Inductive, PTL

(* setup_all hands no driver a NULL descriptor when prepare_all runs       *)
(* between an append and setup_all, whatever fails and is removed.         *)
THEOREM DescriptorsReady ==
  ASSUME ~Retries
  PROVE  Spec => []SetupGetsDescriptor
<1>1. IInv => SetupGetsDescriptor
  <2> SUFFICES ASSUME IInv, Disciplined, In("setup"), state[cur] = "COMING" PROVE des[cur]
    BY DEF SetupGetsDescriptor
  <2>1. PICK n \in Nat : \E s \in [1 .. n -> Modules] : ListInv(s, n)
    BY IInvGives
  <2>2. PICK s \in [1 .. n -> Modules] : ListInv(s, n)
    BY <2>1
  <2>3. PICK k \in 1 .. n + 1 : LoopAt(s, n, k)
    BY <2>2 DEF In, ListInv
  <2>4. k \in 1 .. n /\ cur = s[k]
    BY <2>3 DEF In, LoopAt
  <2> QED
    BY <2>2, <2>4 DEF In, ListInv, Prepared
<1> QED
  BY <1>1, Inductive, PTL

-----------------------------------------------------------------------------
(* The list implements the registry *)

LEMMA RegistryInit == Init => Registry!Init
<1> SUFFICES ASSUME Init PROVE Registry!Init
  OBVIOUS
<1>1. Spells(<<>>, 0)
  BY DEF Init, Spells
<1>2. Walk = <<>>
  BY <1>1, WalkIs
<1> QED
  BY <1>2 DEF Init, Registry!Init

LEMMA RegistryStep ==
  ASSUME ~Retries, IInv, [Next]_vars
  PROVE  [Registry!Next]_(Registry!registry)
<1>0. TypeOK
  BY DEF IInv
<1>1. PICK n \in Nat : \E s \in [1 .. n -> Modules] : ListInv(s, n)
  BY IInvGives
<1>2. PICK s \in [1 .. n -> Modules] : ListInv(s, n)
  BY <1>1
<1>3. Walk = s /\ Len(s) = n /\ DOMAIN s = 1 .. n
  BY <1>2, WalkIs, SpellsType DEF ListInv
<1>r. Registry!Registered = Rng(s, n)
  BY <1>3 DEF Registry!Registered, Rng
<1>s. ASSUME UNCHANGED <<list, state>> PROVE [Registry!Next]_(Registry!registry)
  <2>1. Walk' = s
    BY <1>2, <1>s, Frame, WalkOfNext DEF ListInv
  <2> QED
    BY <1>3, <1>s, <2>1 DEF Registry!registry
<1>4. ASSUME NEW m \in Modules, bsp_module_append(m) PROVE Registry!Next
  <2>1. m \notin Rng(s, n) /\ state[m] # "LIVE" /\ ListInv(Longer(s, n, m), n + 1)'
    BY <1>0, <1>2, <1>4, AppendStep
  <2>2. Walk' = Longer(s, n, m)
    BY <2>1, WalkOfNext DEF ListInv
  <2>3. Longer(s, n, m) = Append(s, m)
    <3>1. s \in Seq(Modules)
      OBVIOUS
    <3>2. /\ Append(s, m) \in Seq(Modules) /\ Len(Append(s, m)) = n + 1
          /\ Append(s, m)[n + 1] = m /\ \A i \in 1 .. n : Append(s, m)[i] = s[i]
      BY <1>3, <3>1
    <3>3. Append(s, m) \in [1 .. n + 1 -> Modules]
      BY <3>2, LenProperties
    <3>4. \A i \in 1 .. n + 1 : Longer(s, n, m)[i] = Append(s, m)[i]
      BY <3>2 DEF Longer
    <3>5. Longer(s, n, m) \in [1 .. n + 1 -> Modules]
      BY DEF Longer
    <3> QED
      BY <3>3, <3>4, <3>5
  <2>4. Registry!Register(m)
    BY <1>3, <1>4, <1>r, <2>1, <2>2, <2>3 DEF Registry!Register, bsp_module_append
  <2> QED
    BY <2>4 DEF Registry!Next
<1>5. ASSUME NEW m \in Modules, bsp_module_remove(m)
      PROVE  [Registry!Next]_(Registry!registry)
  <2>1. state[m] # "LIVE" /\ UNCHANGED state
    BY <1>5 DEF bsp_module_remove
  <2>2. CASE UNCHANGED list
    BY <1>s, <2>1, <2>2
  <2>3. ASSUME NEW i \in 1 .. n, s[i] = m, ListInv(Shorter(s, n, i), n - 1)'
        PROVE  Registry!Next
    <3>1. Walk' = Shorter(s, n, i)
      BY <2>3, WalkOfNext DEF ListInv
    <3>2. Registry!Without(i) = Shorter(s, n, i)
      BY <1>3 DEF Registry!Without, Shorter
    <3>3. Registry!Unregister(m)
      BY <1>3, <2>1, <2>3, <3>1, <3>2 DEF Registry!Unregister
    <3> QED
      BY <3>3 DEF Registry!Next
  <2> QED
    BY <1>0, <1>2, <1>5, <2>2, <2>3, RemoveStep
<1>6. CASE Turn
  <2>1. UNCHANGED list /\ cur \in Rng(s, n)
    BY <1>0, <1>2, <1>6, TurnChanges, TurnStep
  <2>2. cur \in Modules
    BY <1>0, <1>6, TurnChanges
  <2>3. Walk' = s
    BY <1>2, <2>1, Frame, WalkOfNext DEF ListInv
  <2>4. CASE UNCHANGED state
    BY <1>s, <2>1, <2>4
  <2>5. ASSUME NEW v \in States, state' = [state EXCEPT ![cur] = v],
               v = "LIVE" => state[cur] = "COMING"
        PROVE  Registry!Next
    <3>1. Registry!Change(cur, v)
      BY <1>3, <1>r, <2>1, <2>3, <2>5 DEF Registry!Change
    <3> QED
      BY <2>2, <3>1 DEF Registry!Next, States
  <2> QED
    BY <1>0, <1>6, <2>4, <2>5, TurnChanges
<1>7. CASE End \/ UNCHANGED vars \/ \E loop \in {"prepare", "setup", "desetup"} : Begin(loop)
  <2>1. UNCHANGED <<list, state>>
    BY <1>7 DEF End, vars, Begin, list
  <2> QED
    BY <1>s, <2>1
<1>8. Loop => Turn \/ End
  BY DEF Turn, Loop, PrepareFail, PrepareOk, SetupSkip, SetupFail, SetupOk, DesetupSkip, Desetup, In
<1> QED
  BY <1>4, <1>5, <1>6, <1>7, <1>8 DEF Next, Call

(* The pointers and the loops over them implement the abstract registry: a *)
(* sequence of distinct modules where a module becomes LIVE only from      *)
(* COMING while it is registered, and leaves only while it is not LIVE.    *)
THEOREM ListImplementsRegistry ==
  ASSUME ~Retries
  PROVE  Spec => ImplementsRegistry
<1>1. IInv /\ [Next]_vars => [Registry!Next]_(Registry!registry)
  BY RegistryStep
<1> QED
  BY <1>1, RegistryInit, Inductive, PTL DEF Spec, ImplementsRegistry, Registry!Spec

-----------------------------------------------------------------------------
(* Every turn of a loop brings it nearer to the end of the list. *)

(* the places of the list that a loop has not left behind *)
Ahead == {i \in DOMAIN Walk : \E j \in 1 .. i : Walk[j] = cur}

LEMMA AheadIs ==
  ASSUME NEW n \in Nat, NEW s \in [1 .. n -> Modules], NEW w, w = s, NEW k \in 1 .. n + 1,
         \A i, j \in 1 .. n : s[i] = s[j] => i = j,
         NEW c, c = IF k <= n THEN s[k] ELSE Nil
  PROVE  {i \in DOMAIN w : \E j \in 1 .. i : w[j] = c} = k .. n
<1>n. Nil \notin Modules
  BY ModulesAssumption DEF ModulesAssumption
<1>1. ASSUME NEW i \in 1 .. n, NEW j \in 1 .. i, s[j] = c PROVE k <= i
  <2>1. j \in 1 .. n /\ s[j] \in Modules
    OBVIOUS
  <2>2. k <= n /\ j = k
    BY <1>n, <1>1, <2>1
  <2> QED
    BY <2>2
<1>2. ASSUME NEW i \in k .. n PROVE i \in 1 .. n /\ k \in 1 .. i /\ s[k] = c
  OBVIOUS
<1>3. DOMAIN w = 1 .. n
  OBVIOUS
<1> QED
  BY <1>1, <1>2, <1>3

(* A turn leaves a place of the list behind for good, so that a loop takes *)
(* no more turns than there are modules (BSP_MODULE_FOR_EACH ends).        *)
THEOREM LoopsMoveOn ==
  ASSUME ~Retries
  PROVE  Spec => [][Turn => Ahead' \subseteq Ahead /\ Ahead' # Ahead]_vars
<1>1. ASSUME IInv, Turn PROVE Ahead' \subseteq Ahead /\ Ahead' # Ahead
  <2>0. TypeOK
    BY <1>1 DEF IInv
  <2>1. PICK n \in Nat : \E s \in [1 .. n -> Modules] : ListInv(s, n)
    BY <1>1, IInvGives
  <2>2. PICK s \in [1 .. n -> Modules] : ListInv(s, n)
    BY <2>1
  <2>3. Walk = s /\ Walk' = s
    BY <1>1, <2>0, <2>2, TurnStep, WalkIs, WalkOfNext DEF ListInv
  <2>4. PICK k \in 1 .. n : cur = s[k] /\ cur' = IF k + 1 <= n THEN s[k + 1] ELSE Nil
    BY <1>1, <2>0, <2>2, TurnStep
  <2>5. \A i, j \in 1 .. n : s[i] = s[j] => i = j
    BY <2>2 DEF ListInv, Spells
  <2>6. k \in 1 .. n + 1 /\ k + 1 \in 1 .. n + 1 /\ k <= n
    BY <2>4
  <2>7. Ahead = k .. n
    BY <2>3, <2>4, <2>5, <2>6, AheadIs DEF Ahead
  <2>8. Ahead' = k + 1 .. n
    BY <2>3, <2>4, <2>5, <2>6, AheadIs DEF Ahead
  <2> QED
    BY <2>6, <2>7, <2>8
<1>2. IInv /\ [Next]_vars => [Turn => Ahead' \subseteq Ahead /\ Ahead' # Ahead]_vars
  BY <1>1
<1> QED
  BY <1>2, Inductive, PTL DEF Spec
=============================================================================
