------------------------------ MODULE BspUtils ------------------------------
(***************************************************************************)
(* The look-up of a peripheral and the switching of its clock              *)
(* (bsp_utils.c), over any table of peripherals.  A descriptor has an      *)
(* address addr_lo, 0 if it is not set, and a name, "" if it is not set.   *)
(***************************************************************************)
EXTENDS Integers, Sequences, FiniteSets

CONSTANTS
  Table,     \* bsp_utils_periph_des, a sequence of [lo, hi, name]
  Prefix(_), \* what strncmp sees of a name
  ClkOf(_)   \* the clock switched for a row, "" if the switch has no case

(* The rows are sorted and disjoint; a range that has two rows has one     *)
(* clock.                                                                  *)
ASSUME TableAssumption ==
  /\ Len(Table) \in Nat \ {0} /\ DOMAIN Table = 1 .. Len(Table)
  /\ \A i \in 1 .. Len(Table) : /\ Table[i].lo \in Nat \ {0}
                                /\ Table[i].hi \in Nat
                                /\ Table[i].lo <= Table[i].hi
  /\ \A i, j \in 1 .. Len(Table) :
       i < j => \/ Table[i].hi < Table[j].lo
                \/ /\ Table[i].lo = Table[j].lo /\ Table[i].hi = Table[j].hi
                   /\ ClkOf(Table[i]) = ClkOf(Table[j])

FirstOf(S) == CHOOSE i \in S : \A j \in S : i <= j

ENODEV == 19
EINVAL == 22

(* Where the loop over the addresses stops: at the first row that does not *)
(* begin below a, or at the last row.                                      *)
Stop(a) == FirstOf({i \in 1 .. Len(Table) : Table[i].lo >= a} \cup {Len(Table)})

(* The index of the matched row, or a negative error. *)
bsp_utils_get_periph(des) ==
  IF des.addr_lo # 0
    THEN LET i == Stop(des.addr_lo)
         IN  IF Table[i].hi < des.addr_lo THEN -ENODEV ELSE i
  ELSE IF des.name # ""
    THEN LET same == {i \in 1 .. Len(Table) :
                        Prefix(Table[i].name) = Prefix(des.name)}
         IN  IF same = {} THEN -ENODEV ELSE FirstOf(same)
  ELSE -EINVAL

(* The clock that bsp_utils_periph_clk switches, "" if it returns an error *)
PeriphClk(des) ==
  LET r == bsp_utils_get_periph(des)
  IN  IF r < 0 THEN "" ELSE ClkOf(Table[r])

ByAddr(a) == [addr_lo |-> a, name |-> ""]
ByName(n) == [addr_lo |-> 0, name |-> n]

(* The set of clocks that are on after bsp_utils_periph_clk. *)
Switched(clocks, des, enable) ==
  LET c == {PeriphClk(des)} \ {""}
  IN  IF enable THEN clocks \cup c ELSE clocks \ c

-----------------------------------------------------------------------------
(* Every peripheral is found by its first address, so that a driver that   *)
(* passes the base of its peripheral switches the clock of that peripheral *)
(* and of no neighbour (the loop of bsp_utils_get_periph).                 *)
BasesResolve ==
  \A i \in 1 .. Len(Table) :
     LET r == bsp_utils_get_periph(ByAddr(Table[i].lo))
     IN  /\ r \in 1 .. Len(Table)
         /\ Table[r].lo = Table[i].lo /\ Table[r].hi = Table[i].hi
=============================================================================
