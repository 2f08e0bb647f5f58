--------------------------- MODULE MkImageProofs ---------------------------
(***************************************************************************)
(* Proofs about mkimage: the DCD array is never stored behind its end, and *)
(* the layout puts no two parts of the header on the same bytes and the    *)
(* application header behind all of them, for all sizes and alignments     *)
(* that satisfy the assumptions and in every order qsort may choose.       *)
(***************************************************************************)
EXTENDS MkImage, SequenceTheorems, FiniteSetTheorems, TLAPS

-----------------------------------------------------------------------------
(* The words pushed and still to be pushed are together a chain of         *)
(* commands behind the DCD's header.                                       *)
Chain(w) ==
  \A i \in 1 .. Len(w) :
    w[i].kind = "command" =>
      LET j == i + w[i].len \div WordSize IN
      /\ \A k \in i + 1 .. j - 1 : k <= Len(w) /\ w[k].kind = "data"
      /\ j = Len(w) + 1 \/ (j <= Len(w) /\ w[j].kind = "command")

Linked(w) ==
  /\ w # <<>> /\ w[1].kind = "header"
  /\ Len(w) > 1 => w[2].kind = "command"
  /\ Chain(w)

(* the words of a command *)
LEMMA CommandWords ==
  ASSUME NEW write \in BOOLEAN, NEW count \in BOOLEAN
  PROVE  LET c == Command(write, count) IN
         /\ c \in Seq(Words) /\ Len(c) \in {3, 4}
         /\ c[1].kind = "command" /\ c[1].len = WordSize * Len(c)
         /\ \A k \in 2 .. Len(c) : c[k].kind = "data"
<1>1. Word("command", 12) \in Words /\ Word("command", 16) \in Words /\ Word("data", 0) \in Words
  BY DEF Word, Words
<1>2. CASE write \/ ~count
  BY <1>1, <1>2 DEF Command, Word, WordSize
<1>3. CASE ~(write \/ ~count)
  BY <1>1, <1>3 DEF Command, Word, WordSize
<1> QED
  BY <1>2, <1>3

(* A chain stays one when a command's words follow it. *)
LEMMA ChainLonger ==
  ASSUME NEW w \in Seq(Words), NEW v \in Seq(Words), NEW n \in Nat \ {0}, NEW m \in {3, 4},
         Linked(w), Len(w) = n, Len(v) = n + m,
         \A i \in 1 .. n : v[i] = w[i],
         v[n + 1].kind = "command", v[n + 1].len = WordSize * m,
         \A k \in n + 2 .. n + m : v[k].kind = "data"
  PROVE  Linked(v) /\ Len(v) > 1
<1>4. ASSUME NEW i \in 1 .. n + m, v[i].kind = "command",
             NEW j, j = i + v[i].len \div WordSize
      PROVE  /\ \A k \in i + 1 .. j - 1 : k <= n + m /\ v[k].kind = "data"
             /\ j = n + m + 1 \/ (j <= n + m /\ v[j].kind = "command")
  <2>1. CASE i <= n
    <3>1. i \in 1 .. n /\ v[i] = w[i]
      BY <2>1
    <3>2. /\ \A k \in i + 1 .. j - 1 : k <= n /\ w[k].kind = "data"
          /\ j = n + 1 \/ (j <= n /\ w[j].kind = "command")
      <4>1. w[i].kind = "command" /\ j = i + w[i].len \div WordSize /\ i \in 1 .. Len(w)
        BY <1>4, <3>1
      <4>2. Chain(w)
        BY DEF Linked
      <4>3. /\ \A k \in i + 1 .. j - 1 : k <= Len(w) /\ w[k].kind = "data"
            /\ j = Len(w) + 1 \/ (j <= Len(w) /\ w[j].kind = "command")
        BY <4>1, <4>2, Zenon DEF Chain
      <4> QED
        BY <4>3
    <3>3. v[i].len \in {0, 12, 16}
      <4>1. v[i] \in Words
        OBVIOUS
      <4> QED
        BY <4>1 DEF Words
    <3>4. j \in Nat /\ j >= i
      BY <1>4, <3>3 DEF WordSize
    <3>5. \A k \in i + 1 .. j - 1 : k <= n + m /\ v[k].kind = "data"
      BY <3>1, <3>2, <3>4
    <3>6. j = n + m + 1 \/ (j <= n + m /\ v[j].kind = "command")
      BY <3>1, <3>2, <3>4
    <3> QED
      BY <3>5, <3>6
  <2>2. CASE i > n
    <3>1. i = n + 1
      <4>1. CASE i > n + 1
        <5>1. i \in n + 2 .. n + m
          BY <4>1
        <5> QED
          BY <5>1, <1>4
      <4> QED
        BY <2>2, <4>1
    <3>2. j = n + m + 1
      BY <1>4, <3>1 DEF WordSize
    <3> QED
      BY <3>1, <3>2
  <2> QED
    BY <2>1, <2>2
<1>5. Chain(v)
  BY <1>4 DEF Chain
<1>6. v[1].kind = "header" /\ v[2].kind = "command" /\ v # <<>>
  <2>1. CASE n = 1
    BY <2>1 DEF Linked
  <2>2. CASE n > 1
    BY <2>2 DEF Linked
  <2> QED
    BY <2>1, <2>2
<1> QED
  BY <1>5, <1>6 DEF Linked

(* A command behind a chain makes a longer chain. *)
LEMMA LinkCommand ==
  ASSUME NEW w \in Seq(Words), Linked(w),
         NEW write \in BOOLEAN, NEW count \in BOOLEAN
  PROVE  Linked(w \o Command(write, count)) /\ Len(w \o Command(write, count)) > 1
<1>1. PICK c \in Seq(Words) :
         /\ c = Command(write, count) /\ Len(c) \in {3, 4}
         /\ c[1].kind = "command" /\ c[1].len = WordSize * Len(c)
         /\ \A k \in 2 .. Len(c) : c[k].kind = "data"
  BY CommandWords
<1>2. PICK n \in Nat \ {0} : n = Len(w)
  BY DEF Linked
<1>3. PICK m \in {3, 4} : m = Len(c)
  BY <1>1
<1>4. PICK v \in Seq(Words) :
         /\ v = w \o c /\ Len(v) = n + m
         /\ \A i \in 1 .. n + m : v[i] = IF i <= n THEN w[i] ELSE c[i - n]
  <2>1. /\ w \o c \in Seq(Words) /\ Len(w \o c) = Len(w) + Len(c)
        /\ \A i \in 1 .. Len(w) + Len(c) :
             (w \o c)[i] = IF i <= Len(w) THEN w[i] ELSE c[i - Len(w)]
    BY ConcatProperties
  <2> QED
    BY <1>2, <1>3, <2>1, Zenon
<1>5. v[n + 1] = c[1]
  BY <1>4
<1>6. ASSUME NEW k \in n + 2 .. n + m PROVE v[k].kind = "data"
  <2>1. v[k] = c[k - n] /\ k - n \in 2 .. m
    BY <1>4
  <2> QED
    BY <1>1, <1>3, <2>1
<1>7. \A i \in 1 .. n : v[i] = w[i]
  BY <1>4
<1>8. v[n + 1].kind = "command" /\ v[n + 1].len = WordSize * m
  BY <1>1, <1>3, <1>5
<1>9. Linked(v) /\ Len(v) > 1
  <2>1. Len(w) = n /\ Len(v) = n + m
    BY <1>2, <1>4
  <2>2. \A k \in n + 2 .. n + m : v[k].kind = "data"
    BY <1>6
  <2> QED
    BY <2>1, <2>2, <1>7, <1>8, ChainLonger
<1> QED
  BY <1>1, <1>4, <1>9

(* the DCD's header alone is a chain without commands *)
LEMMA LinkHeader == <<Header>> \in Seq(Words) /\ Linked(<<Header>>)
<1>1. Header \in Words /\ Header.kind = "header"
  BY DEF Header, Word, Words
<1>2. <<Header>> \in Seq(Words) /\ Len(<<Header>>) = 1 /\ <<Header>>[1] = Header /\ <<Header>> # <<>>
  BY <1>1
<1>3. Chain(<<Header>>)
  BY <1>1, <1>2 DEF Chain
<1> QED
  BY <1>1, <1>2, <1>3 DEF Linked

ChainInv ==
  phase # "failed" => \/ dcd \o todo = <<>>
                      \/ Linked(dcd \o todo) /\ Len(dcd \o todo) > 1

(* A DCD line adds one command, behind the header if it is the first;      *)
(* push_to_dcd_array only moves a word from todo to dcd.                   *)
LEMMA ChainStep ==
  ASSUME TypeOK, ChainInv, [Next]_vars
  PROVE  ChainInv'
<1>0. dcd \in Seq(Words) /\ todo \in Seq(Words)
  BY DEF TypeOK
<1>1. ASSUME UNCHANGED <<dcd, todo>>, phase = "failed" => phase' = "failed"
      PROVE  ChainInv'
  BY <1>1 DEF ChainInv
<1>2. ASSUME NEW write \in BOOLEAN, NEW count \in BOOLEAN, parse_dcd_cmd(write, count)
      PROVE  ChainInv'
  <2>1. /\ phase = "parse" /\ todo = <<>> /\ dcd' = dcd
        /\ todo' = (IF dcd = <<>> THEN <<Header>> ELSE <<>>) \o Command(write, count)
    BY <1>2 DEF parse_dcd_cmd, ReadLine
  <2>2. PICK c \in Seq(Words) : c = Command(write, count)
    BY CommandWords
  <2>3. CASE dcd = <<>>
    <3>1. todo' = <<Header>> \o c
      BY <2>1, <2>2, <2>3
    <3>2. <<Header>> \o c \in Seq(Words)
      BY LinkHeader, ConcatProperties
    <3>3. dcd' \o todo' = <<Header>> \o c
      BY <2>1, <2>3, <3>1, <3>2, ConcatEmptySeq
    <3>4. Linked(<<Header>> \o c) /\ Len(<<Header>> \o c) > 1
      BY <2>2, LinkHeader, LinkCommand
    <3> QED
      BY <3>3, <3>4, Zenon DEF ChainInv
  <2>4. CASE dcd # <<>>
    <3>1. todo' = c
      BY <2>1, <2>2, <2>4, ConcatEmptySeq
    <3>2. dcd \o todo = dcd
      BY <1>0, <2>1, ConcatEmptySeq
    <3>3. Linked(dcd)
      BY <2>1, <2>4, <3>2, Zenon DEF ChainInv
    <3>4. Linked(dcd \o c) /\ Len(dcd \o c) > 1
      BY <1>0, <2>2, <3>3, LinkCommand
    <3> QED
      BY <2>1, <3>1, <3>4, Zenon DEF ChainInv
  <2> QED
    BY <2>3, <2>4
<1>3. CASE push_to_dcd_array
  <2>1. /\ phase = "parse" /\ phase' = "parse" /\ todo # <<>>
        /\ dcd' = Append(dcd, Head(todo)) /\ todo' = Tail(todo)
    BY <1>3 DEF push_to_dcd_array
  <2>2. Append(dcd, Head(todo)) \o Tail(todo) = dcd \o todo
    BY <1>0, <2>1
  <2> QED
    BY <2>1, <2>2, Zenon DEF ChainInv
<1>4. CASE push_no_memory \/ BadLine
  BY <1>4 DEF push_no_memory, BadLine, ChainInv
<1>5. CASE SetField \/ \E src \in {"qspi", "sd", "emmc"} : parse_boot_cmd(src)
  BY <1>1, <1>5 DEF SetField, parse_boot_cmd, ReadLine
<1>6. CASE build_layout \/ place_app \/ write_fails \/ header_faults \/ Terminated
           \/ UNCHANGED vars
  BY <1>1, <1>6 DEF build_layout, place_app, write_fails, header_faults, Terminated, vars, config
<1>7. CASE \/ \E c \in Computed : s32_compute_dyn_offsets(c)
           \/ \E data \in DataSizes : write_image(data)
           \/ \E addr, ep \in Addresses : s32cc_set_header(addr, ep)
  BY <1>1, <1>7 DEF s32_compute_dyn_offsets, write_image, s32cc_set_header, config
<1> QED
  BY <1>2, <1>3, <1>4, <1>5, <1>6, <1>7, Zenon DEF Next

-----------------------------------------------------------------------------
(* Where the IVT is, and for which medium *)
IvtInv ==
  /\ phase \in {"place", "write", "header", "done"} => off["ivt"] = cfg.ivt
  /\ boots = {"qspi"} => cfg.ivt = 0
  /\ boots # {} /\ "qspi" \notin boots => cfg.ivt = SD_IVT_OFFSET
  /\ phase = "done" => image.ivt = TRUE

(* BOOT_FROM moves the IVT, the layout keeps it, s32cc_set_header writes it. *)
LEMMA IvtStep ==
  ASSUME TypeOK, IvtInv, [Next]_vars
  PROVE  IvtInv'
<1>0. /\ cfg.ivt \in {0, SD_IVT_OFFSET}
      /\ off \in [Parts \cup {"app_code", "code"} -> Nat \cup {AUTO_OFFSET}]
  BY DEF TypeOK
<1>c. DOMAIN cfg = {"flash_boot", "a53_boot", "err051257", "hse", "fw_size", "data_size", "ivt"}
  BY DEF TypeOK
<1>i. DOMAIN image = {"data", "ivt", "code_length", "start"}
  BY DEF TypeOK
<1>1. ASSUME NEW src \in {"qspi", "sd", "emmc"}, parse_boot_cmd(src)
      PROVE  IvtInv'
  <2>1. /\ phase' = "parse" /\ boots' = boots \cup {src}
        /\ cfg'.ivt = IF src = "qspi" THEN 0 ELSE SD_IVT_OFFSET
    BY <1>1, <1>c DEF parse_boot_cmd, ReadLine
  <2> QED
    BY <2>1 DEF IvtInv
<1>2. CASE SetField
  <2>1. phase' = "parse" /\ boots' = boots /\ cfg'.ivt = cfg.ivt
    BY <1>2, <1>c DEF SetField, ReadLine, parse_boot_core, parse_hse_cmd, parse_data_file_cmd,
       parse_err051257, parse_qspi_cmd
  <2> QED
    BY <2>1 DEF IvtInv
<1>3. CASE \/ \E write, count \in BOOLEAN : parse_dcd_cmd(write, count)
           \/ push_to_dcd_array \/ push_no_memory \/ BadLine
  <2>1. phase' \in {"parse", "failed"} /\ boots' = boots /\ cfg' = cfg
    BY <1>3 DEF parse_dcd_cmd, push_to_dcd_array, push_no_memory, BadLine, ReadLine
  <2> QED
    BY <2>1 DEF IvtInv
<1>4. CASE build_layout
  <2>1. phase' = "failed" \/ off'["ivt"] = cfg.ivt
    BY <1>0, <1>4 DEF build_layout, Parts, Fixed
  <2>2. boots' = boots /\ cfg' = cfg /\ phase' \in {"place", "failed"}
    BY <1>4 DEF build_layout, config
  <2> QED
    BY <2>1, <2>2 DEF IvtInv
<1>5. CASE (\E c \in Computed : s32_compute_dyn_offsets(c)) \/ place_app
  <2>1. phase = "place" /\ phase' \in {"place", "write"} /\ boots' = boots /\ cfg' = cfg
    BY <1>5 DEF s32_compute_dyn_offsets, place_app, config
  <2>2. off'["ivt"] = off["ivt"]
    BY <1>0, <1>5 DEF s32_compute_dyn_offsets, place_app, Computed, Parts, Fixed
  <2> QED
    BY <2>1, <2>2 DEF IvtInv
<1>6. CASE (\E data \in DataSizes : write_image(data)) \/ write_fails \/ header_faults
  <2>1. /\ phase \in {"write", "header"} /\ phase' \in {"header", "failed"}
        /\ boots' = boots /\ cfg' = cfg /\ off' = off
    BY <1>6 DEF write_image, write_fails, header_faults, config
  <2> QED
    BY <2>1 DEF IvtInv
<1>7. ASSUME NEW addr \in Addresses, NEW ep \in Addresses, s32cc_set_header(addr, ep)
      PROVE  IvtInv'
  <2>1. /\ phase = "header" /\ boots' = boots /\ cfg' = cfg /\ off' = off
        /\ phase' \in {"failed", "done"} /\ image'.ivt = TRUE
    BY <1>7, <1>i DEF s32cc_set_header, config
  <2> QED
    BY <2>1 DEF IvtInv
<1>8. CASE Terminated \/ UNCHANGED vars
  BY <1>8 DEF Terminated, vars, config, IvtInv
<1> QED
  BY <1>1, <1>2, <1>3, <1>4, <1>5, <1>6, <1>7, <1>8, Zenon DEF Next

(* mkimage -l finds the IVT of a finished image where it looks for it, and *)
(* concludes the medium that BOOT_FROM named.                              *)
LEMMA Recognises ==
  ASSUME TypeOK, IvtInv
  PROVE  MediumRecognised
<1> SUFFICES ASSUME phase = "done", Cardinality(boots) = 1
             PROVE  get_ivt_from_raw_blob = (IF boots = {"qspi"} THEN "qspi" ELSE "sd")
  BY DEF MediumRecognised
<1>1. PICK src \in {"qspi", "sd", "emmc"} : boots = {src}
  <2>1. boots \subseteq {"qspi", "sd", "emmc"}
    BY DEF TypeOK
  <2>2. IsFiniteSet({"qspi", "sd", "emmc"})
    <3>1. IsFiniteSet({"qspi"})
      BY FS_Singleton, Zenon
    <3>2. IsFiniteSet({"qspi"} \cup {"sd"})
      BY <3>1, FS_AddElement
    <3>3. IsFiniteSet(({"qspi"} \cup {"sd"}) \cup {"emmc"})
      BY <3>2, FS_AddElement
    <3>4. {"qspi", "sd", "emmc"} = ({"qspi"} \cup {"sd"}) \cup {"emmc"}
      OBVIOUS
    <3> QED
      BY <3>3, <3>4, Zenon
  <2>3. IsFiniteSet(boots)
    BY <2>1, <2>2, FS_Subset
  <2>4. \E x : boots = {x}
    BY <2>3, FS_Singleton, Zenon
  <2> QED
    BY <2>1, <2>4
<1>2. image.ivt = TRUE /\ off["ivt"] = IF src = "qspi" THEN 0 ELSE SD_IVT_OFFSET
  BY <1>1 DEF IvtInv
<1>3. SD_IVT_OFFSET # 0
  BY SizeAssumption, LayoutAssumption DEF SizeAssumption, LayoutAssumption
<1> QED
  BY <1>1, <1>2, <1>3 DEF get_ivt_from_raw_blob, is_ivt_header

-----------------------------------------------------------------------------
(* The layout *)
USE SizeAssumption, LayoutAssumption DEF SizeAssumption

(* ROUND returns the least multiple of a that is not below x. *)
LEMMA RoundUp ==
  ASSUME NEW x \in Nat, NEW a \in Nat \ {0}
  PROVE  /\ ROUND(x, a) \in Nat /\ ROUND(x, a) >= x
         /\ ROUND(x, a) <= x + a - 1
         /\ \E k \in Nat : ROUND(x, a) = k * a
<1> DEFINE y == x + a - 1
           k == y \div a
<1>1. y \in Nat
  OBVIOUS
<1>2. k \in Nat /\ y = (a * k) + (y % a) /\ y % a \in 0 .. a - 1
  BY <1>1
<1>3. ROUND(x, a) = k * a
  BY DEF ROUND
<1> QED
  BY <1>2, <1>3

LEMMA RoundLeast ==
  ASSUME NEW x \in Nat, NEW a \in Nat \ {0}, NEW m \in Nat, x <= m * a
  PROVE  ROUND(x, a) <= m * a
<1>1. PICK k \in Nat : ROUND(x, a) = k * a
  BY RoundUp
<1>2. k * a <= x + a - 1
  BY <1>1, RoundUp
<1>3. CASE k <= m
  <2>1. k * a <= m * a
    BY <1>3
  <2> QED
    BY <1>1, <2>1
<1>4. CASE k >= m + 1
  <2>1. k * a >= (m + 1) * a
    BY <1>4
  <2>2. (m + 1) * a = m * a + a
    OBVIOUS
  <2> QED
    BY <1>2, <2>1, <2>2
<1> QED
  BY <1>3, <1>4

-----------------------------------------------------------------------------
(* every placed part starts at a multiple of the alignment *)
PlacedAligned == \A c \in Placed : \E k \in Nat : off[c] = k * Alignment

(* what the configuration guarantees to the layout *)
ConfigInv ==
  /\ cfg.hse => cfg.fw_size > 0
  /\ BootChosen => cfg.flash_boot \/ cfg.ivt = SD_IVT_OFFSET

LayoutInv ==
  /\ phase = "parse" => \A c \in Parts : off[c] = AUTO_OFFSET
  /\ BootChosen => PlacedAligned /\ PartsDisjoint
  /\ AppBehindParts

(* the array grows in time because it starts with two words *)
DcdInv ==
  /\ alloc = 0 \/ alloc >= 2 * WordSize
  /\ DcdAllocated

IInv == TypeOK /\ ConfigInv /\ LayoutInv /\ DcdInv

-----------------------------------------------------------------------------
(* The types of what the layout computes with. *)
LEMMA LayoutTypes ==
  ASSUME TypeOK, ConfigInv
  PROVE  /\ Alignment \in Nat \ {0} /\ get_padding \in Nat
         /\ \E k \in Nat : get_padding = k * Alignment
         /\ dcd_size \in Nat
         /\ \A c \in PartsIn : Size(c) \in Nat \ {0}
         /\ \A c \in Placed : off[c] \in Nat /\ End(c) \in Nat
<1>1. Alignment \in Nat \ {0} /\ get_padding \in Nat
  BY DEF TypeOK, Alignment, get_padding
<1>2. \E k \in Nat : get_padding = k * Alignment
  <2>1. CASE cfg.err051257 /\ cfg.flash_boot
    <3>1. Multiple(SZ_1K, BOOTROM_QSPI_ALIGNMENT)
      BY DEF LayoutAssumption
    <3> QED
      BY <2>1, <3>1 DEF Multiple, get_padding, Alignment
  <2>2. CASE ~(cfg.err051257 /\ cfg.flash_boot)
    <3>1. get_padding = 0 /\ 0 = 0 * Alignment
      BY <1>1, <2>2 DEF get_padding
    <3> QED
      BY <3>1
  <2> QED
    BY <2>1, <2>2
<1>3. dcd_size \in Nat
  BY DEF dcd_size, WordSize, TypeOK
<1>4. ASSUME NEW c \in PartsIn
      PROVE  Size(c) \in Nat \ {0} /\ c \in Parts
  <2>1. \/ c \in {"ivt", "qspi_params", "mbr_reserved"}
        \/ c = "dcd" /\ dcd_size # 0
        \/ c \in {"hse_fw", "hse_sys_img"} /\ cfg.hse
    BY <1>4 DEF PartsIn
  <2>2. CASE c \in {"ivt", "qspi_params", "mbr_reserved"}
    BY <2>2 DEF Size, Parts, Fixed
  <2>3. CASE c = "dcd" /\ dcd_size # 0
    <3>1. Size(c) = dcd_size
      BY <2>3 DEF Size
    <3> QED
      BY <1>3, <2>3, <3>1 DEF Parts, Computed
  <2>4. CASE c \in {"hse_fw", "hse_sys_img"} /\ cfg.hse
    <3>1. Size(c) \in {cfg.fw_size, HSE_SYS_IMG_MAX_SIZE}
      BY <2>4 DEF Size
    <3>2. cfg.fw_size \in Nat \ {0}
      BY <2>4 DEF TypeOK, ConfigInv
    <3> QED
      BY <2>4, <3>1, <3>2 DEF Parts, Computed
  <2> QED
    BY <2>1, <2>2, <2>3, <2>4
<1>5. Placed \subseteq PartsIn /\ PartsIn \subseteq Parts
  BY <1>4 DEF Placed
<1>6. \A c \in Placed : off[c] \in Nat
  BY <1>5 DEF Placed, TypeOK
<1>7. \A c \in Placed : End(c) \in Nat
  BY <1>1, <1>4, <1>5, <1>6 DEF End
<1> QED
  BY <1>1, <1>2, <1>3, <1>4, <1>6, <1>7

(* A step that leaves the configuration and the offsets alone leaves alone *)
(* whatever the layout computes from them.                                 *)
LEMMA SameLayout ==
  ASSUME UNCHANGED <<cfg, dcd>>
  PROVE  /\ Alignment' = Alignment /\ get_padding' = get_padding
         /\ PartsIn' = PartsIn
         /\ \A c : Size(c)' = Size(c)
BY DEF Alignment, get_padding, PartsIn, Size, dcd_size

(* Parts on different bytes have different offsets. *)
LEMMA DistinctOffsets ==
  ASSUME TypeOK, ConfigInv, BootChosen, PartsDisjoint,
         NEW p \in Placed, NEW q \in Placed, p # q
  PROVE  /\ off[p] # off[q]
         /\ off[p] < off[q] => off[p] + Size(p) <= off[q]
<1>1. /\ off[p] \in Nat /\ off[q] \in Nat
      /\ Size(p) \in Nat \ {0} /\ Size(q) \in Nat \ {0}
  BY LayoutTypes DEF Placed
<1>2. off[p] + Size(p) <= off[q] \/ off[q] + Size(q) <= off[p]
  BY DEF PartsDisjoint
<1> QED
  BY <1>1, <1>2

(* Rounding the end of a part up stays below the padded end of any part    *)
(* behind it, because offsets and padding are multiples of the alignment.  *)
LEMMA RoundBelowNext ==
  ASSUME TypeOK, ConfigInv, BootChosen, PartsDisjoint, PlacedAligned,
         NEW p \in Placed, NEW q \in Placed, off[p] < off[q]
  PROVE  ROUND(End(p), Alignment) < End(q)
<1>1. off[p] + Size(p) <= off[q]
  <2>1. p # q
    BY LayoutTypes
  <2> QED
    BY <2>1, DistinctOffsets
<1>2. PICK m \in Nat : off[q] = m * Alignment
  BY DEF PlacedAligned
<1>3. PICK l \in Nat : get_padding = l * Alignment
  BY LayoutTypes
<1>4. /\ Alignment \in Nat \ {0} /\ get_padding \in Nat
      /\ End(p) \in Nat /\ off[p] \in Nat /\ off[q] \in Nat
      /\ Size(p) \in Nat \ {0} /\ Size(q) \in Nat \ {0}
  BY LayoutTypes DEF Placed
<1>5. m + l \in Nat /\ (m + l) * Alignment = m * Alignment + l * Alignment
  BY <1>4
<1>6. End(p) <= (m + l) * Alignment
  BY <1>1, <1>2, <1>3, <1>4, <1>5 DEF End
<1>7. ROUND(End(p), Alignment) <= (m + l) * Alignment
  BY <1>4, <1>5, <1>6, RoundLeast
<1>8. ROUND(End(p), Alignment) \in Nat
  BY <1>4, RoundUp
<1> QED
  BY <1>2, <1>3, <1>4, <1>5, <1>7, <1>8 DEF End

(* A part put into the first hole it fits meets no part already placed. *)
LEMMA HoleIsFree ==
  ASSUME TypeOK, ConfigInv, BootChosen, PartsDisjoint, PlacedAligned,
         NEW c \in PartsIn \ Placed, NEW p \in Placed, NEW q \in Placed,
         Fits(c, p, q), NEW r \in Placed
  PROVE  \/ off[r] + Size(r) <= ROUND(End(p), Alignment)
         \/ ROUND(End(p), Alignment) + Size(c) <= off[r]
<1> DEFINE o == ROUND(End(p), Alignment)
<1>1. /\ Alignment \in Nat \ {0} /\ get_padding \in Nat
      /\ \A d \in PartsIn : Size(d) \in Nat \ {0}
      /\ \A d \in Placed : d \in PartsIn /\ off[d] \in Nat /\ End(d) \in Nat
  BY LayoutTypes DEF Placed
<1>2. o \in Nat /\ o >= End(p)
  BY <1>1, RoundUp
<1> HIDE DEF o
<1>3. off[p] + Size(p) <= o
  BY <1>1, <1>2 DEF End
<1>4. p # q /\ off[p] < off[q]
  BY <1>1, DistinctOffsets DEF Fits, Adjacent, Before
<1>5. o < End(q)
  BY <1>4, RoundBelowNext DEF o
<1>6. o + Size(c) + get_padding <= off[q]
  BY <1>1, <1>2, <1>5 DEF Fits, is_in_overlap, o
<1>7. o + Size(c) <= off[q]
  BY <1>1, <1>2, <1>6
<1>8. CASE r = p \/ r = q
  BY <1>3, <1>7, <1>8 DEF o
<1>9. CASE r # p /\ r # q /\ off[r] < off[p]
  <2>1. off[r] + Size(r) <= off[p]
    BY <1>9, DistinctOffsets
  <2>2. Size(r) \in Nat \ {0} /\ Size(p) \in Nat \ {0}
    BY <1>1
  <2>3. off[r] + Size(r) <= o
    BY <1>1, <1>2, <1>3, <2>1, <2>2
  <2> QED
    BY <2>3 DEF o
<1>10. CASE r # p /\ r # q /\ ~(off[r] < off[p])
  <2>1. off[p] < off[r] /\ off[r] # off[q]
    BY <1>1, <1>10, DistinctOffsets
  <2>2. ~(off[r] < off[q])
    BY <2>1 DEF Fits, Adjacent, Before
  <2>3. o + Size(c) <= off[r]
    BY <1>1, <1>2, <1>7, <2>1, <2>2
  <2> QED
    BY <2>3 DEF o
<1> QED
  BY <1>8, <1>9, <1>10 DEF o

(* A part put behind the last one meets no part already placed. *)
LEMMA BehindLast ==
  ASSUME TypeOK, ConfigInv, BootChosen, PartsDisjoint,
         NEW p \in Placed, IsLast(p), NEW r \in Placed
  PROVE  End(r) <= ROUND(End(p), Alignment)
<1>1. /\ Alignment \in Nat \ {0} /\ get_padding \in Nat
      /\ Size(p) \in Nat \ {0} /\ Size(r) \in Nat \ {0}
      /\ off[p] \in Nat /\ off[r] \in Nat /\ End(p) \in Nat /\ End(r) \in Nat
  BY LayoutTypes DEF Placed
<1>2. ROUND(End(p), Alignment) \in Nat /\ ROUND(End(p), Alignment) >= End(p)
  BY <1>1, RoundUp
<1>3. CASE r = p
  BY <1>2, <1>3
<1>4. CASE r # p
  <2>1. off[r] < off[p]
    BY <1>1, <1>4, DistinctOffsets DEF IsLast, Before
  <2>2. off[r] + Size(r) <= off[p]
    BY <1>4, <2>1, DistinctOffsets
  <2>3. End(r) <= End(p)
    BY <1>1, <2>2 DEF End
  <2> QED
    BY <1>1, <1>2, <2>3
<1> QED
  BY <1>3, <1>4

-----------------------------------------------------------------------------
(* The initial state satisfies the invariant. *)
LEMMA InitIInv == Init => IInv
<1> SUFFICES ASSUME Init PROVE IInv
  OBVIOUS
<1>1. cfg \in [flash_boot : BOOLEAN, a53_boot : BOOLEAN, err051257 : BOOLEAN,
               hse : BOOLEAN, fw_size : Nat, data_size : Nat,
               ivt : {0, SD_IVT_OFFSET}]
  BY DEF Init
<1>2. /\ image \in [data : Nat, ivt : BOOLEAN, code_length : Nat, start : Nat]
      /\ dcd \in Seq(Words) /\ todo \in Seq(Words)
  BY DEF Init
<1>3. TypeOK
  BY <1>1, <1>2 DEF Init, TypeOK, AUTO_OFFSET
<1>4. ConfigInv
  BY DEF Init, ConfigInv, BootChosen
<1>5. LayoutInv
  BY DEF Init, LayoutInv, BootChosen, AppBehindParts
<1>6. DcdInv
  <2>1. dcd_size = 0
    BY DEF Init, dcd_size, WordSize
  <2> QED
    BY <2>1 DEF Init, DcdInv, DcdAllocated
<1> QED
  BY <1>3, <1>4, <1>5, <1>6 DEF IInv

(* While the configuration is read nothing is placed. *)
LEMMA ParseKeepsLayout ==
  ASSUME IInv, phase = "parse", UNCHANGED off, phase' \in {"parse", "failed"}
  PROVE  LayoutInv'
<1>1. \A c \in Parts : off'[c] = AUTO_OFFSET
  BY DEF IInv, LayoutInv
<1>2. PartsIn' \subseteq Parts
  BY DEF PartsIn, Parts, Fixed, Computed
<1>3. Placed' = {}
  BY <1>1, <1>2 DEF Placed, AUTO_OFFSET
<1>4. PartsDisjoint' /\ PlacedAligned' /\ AppBehindParts'
  BY <1>3 DEF PartsDisjoint, PlacedAligned, AppBehindParts
<1> QED
  BY <1>1, <1>4 DEF LayoutInv, AUTO_OFFSET

(* Reading a BOOT_FROM line. *)
LEMMA BootStep ==
  ASSUME IInv, NEW src \in {"qspi", "sd", "emmc"}, parse_boot_cmd(src)
  PROVE  IInv'
<1>1. phase = "parse" /\ phase' = "parse" /\ UNCHANGED <<off, image, dcd, alloc, todo>>
      /\ lines' = lines + 1 /\ boots' = boots \cup {src}
  BY DEF parse_boot_cmd, ReadLine
<1>2. /\ cfg' \in [flash_boot : BOOLEAN, a53_boot : BOOLEAN, err051257 : BOOLEAN,
                   hse : BOOLEAN, fw_size : Nat, data_size : Nat,
                   ivt : {0, SD_IVT_OFFSET}]
      /\ cfg'.hse = cfg.hse /\ cfg'.fw_size = cfg.fw_size
      /\ cfg'.flash_boot \/ cfg'.ivt = SD_IVT_OFFSET
  <2>1. CASE src = "qspi"
    BY <2>1 DEF IInv, TypeOK, parse_boot_cmd
  <2>2. CASE src # "qspi"
    BY <2>2 DEF IInv, TypeOK, parse_boot_cmd
  <2> QED
    BY <2>1, <2>2
<1>0. lines' \in Nat
  BY <1>1 DEF IInv, TypeOK
<1>3. TypeOK'
  BY <1>0, <1>1, <1>2 DEF IInv, TypeOK
<1>4. ConfigInv'
  BY <1>2 DEF IInv, ConfigInv
<1>5. LayoutInv'
  BY <1>1, ParseKeepsLayout
<1>6. DcdInv'
  BY <1>1 DEF IInv, DcdInv, DcdAllocated, dcd_size
<1> QED
  BY <1>3, <1>4, <1>5, <1>6 DEF IInv

(* Reading a line that sets other fields. *)
LEMMA FieldStep ==
  ASSUME IInv, SetField
  PROVE  IInv'
<1>1. phase = "parse" /\ phase' = "parse"
      /\ UNCHANGED <<off, image, dcd, alloc, todo, boots>> /\ lines' = lines + 1
  BY DEF SetField, ReadLine
<1> DEFINE Config == [flash_boot : BOOLEAN, a53_boot : BOOLEAN,
                      err051257 : BOOLEAN, hse : BOOLEAN, fw_size : Nat,
                      data_size : Nat, ivt : {0, SD_IVT_OFFSET}]
<1>2. cfg \in Config /\ (cfg.hse => cfg.fw_size > 0)
  BY DEF IInv, TypeOK, ConfigInv
<1>3. /\ cfg' \in Config
      /\ cfg'.hse => cfg'.fw_size > 0
      /\ cfg'.flash_boot = cfg.flash_boot /\ cfg'.ivt = cfg.ivt
  <2>1. CASE \E a53 \in BOOLEAN : parse_boot_core(a53)
    BY <1>2, <2>1 DEF parse_boot_core
  <2>2. CASE \E size \in FwSizes : parse_hse_cmd(size)
    <3>1. PICK size \in FwSizes : cfg' = [cfg EXCEPT !.hse = TRUE, !.fw_size = size]
      BY <2>2 DEF parse_hse_cmd
    <3>2. size \in Nat /\ size > 0
      BY <3>1
    <3>3. cfg' \in Config /\ cfg'.fw_size = size
      BY <1>2, <3>1, <3>2
    <3> QED
      BY <1>2, <3>1, <3>2, <3>3
  <2>3. CASE \E size \in DataSizes : parse_data_file_cmd(size)
    BY <1>2, <2>3 DEF parse_data_file_cmd
  <2>4. CASE parse_err051257
    BY <1>2, <2>4 DEF parse_err051257
  <2>5. CASE parse_qspi_cmd
    BY <1>2, <2>5 DEF parse_qspi_cmd
  <2> QED
    BY <2>1, <2>2, <2>3, <2>4, <2>5 DEF SetField
<1>0. lines' \in Nat
  BY <1>1 DEF IInv, TypeOK
<1>4. TypeOK'
  BY <1>0, <1>1, <1>3 DEF IInv, TypeOK
<1>5. ConfigInv'
  BY <1>1, <1>3 DEF IInv, ConfigInv, BootChosen
<1>6. LayoutInv'
  BY <1>1, ParseKeepsLayout
<1>7. DcdInv'
  BY <1>1 DEF IInv, DcdInv, DcdAllocated, dcd_size
<1> QED
  BY <1>4, <1>5, <1>6, <1>7 DEF IInv

(* Reading a DCD line, and a line that ends the program. *)
LEMMA DcdLineStep ==
  ASSUME IInv, NEW write \in BOOLEAN, NEW count \in BOOLEAN,
         parse_dcd_cmd(write, count)
  PROVE  IInv'
<1>1. phase = "parse" /\ phase' = "parse"
      /\ UNCHANGED <<off, image, cfg, dcd, alloc, boots>> /\ lines' = lines + 1
  BY DEF parse_dcd_cmd, ReadLine
<1>2. Word("command", 12) \in Words /\ Word("command", 16) \in Words
      /\ Word("data", 0) \in Words /\ Header \in Words
  BY DEF Word, Header, Words
<1>3. Command(write, count) \in Seq(Words)
  BY <1>2 DEF Command
<1>4. (IF dcd = <<>> THEN <<Header>> ELSE <<>>) \in Seq(Words)
  BY <1>2
<1>5. todo' \in Seq(Words)
  BY <1>3, <1>4 DEF parse_dcd_cmd
<1>0. lines' \in Nat
  BY <1>1 DEF IInv, TypeOK
<1>6. TypeOK'
  BY <1>0, <1>1, <1>5 DEF IInv, TypeOK
<1>7. LayoutInv'
  BY <1>1, ParseKeepsLayout
<1>8. ConfigInv' /\ DcdInv'
  BY <1>1 DEF IInv, ConfigInv, BootChosen, DcdInv, DcdAllocated, dcd_size
<1> QED
  BY <1>6, <1>7, <1>8 DEF IInv

LEMMA BadLineStep ==
  ASSUME IInv, BadLine
  PROVE  IInv'
<1>1. phase = "parse" /\ phase' = "failed"
      /\ UNCHANGED <<off, image, cfg, dcd, alloc, todo, boots>>
      /\ lines' = lines + 1
  BY DEF BadLine, ReadLine
<1>0. lines' \in Nat
  BY <1>1 DEF IInv, TypeOK
<1>2. TypeOK'
  BY <1>0, <1>1 DEF IInv, TypeOK
<1>3. LayoutInv'
  BY <1>1, ParseKeepsLayout
<1>4. ConfigInv' /\ DcdInv'
  BY <1>1 DEF IInv, ConfigInv, BootChosen, DcdInv, DcdAllocated
<1> QED
  BY <1>2, <1>3, <1>4 DEF IInv

(* Pushing one word: doubling an array of at least two words makes room. *)
LEMMA PushStep ==
  ASSUME IInv, push_to_dcd_array
  PROVE  IInv'
<1>1. phase = "parse" /\ phase' = "parse"
      /\ UNCHANGED <<off, image, cfg, boots, lines>>
  BY DEF push_to_dcd_array
<1>2. dcd' \in Seq(Words) /\ todo' \in Seq(Words) /\ Len(dcd') = Len(dcd) + 1
  <2>1. dcd \in Seq(Words) /\ todo \in Seq(Words) /\ todo # <<>>
    BY DEF IInv, TypeOK, push_to_dcd_array
  <2>2. Head(todo) \in Words /\ Tail(todo) \in Seq(Words)
    BY <2>1
  <2> QED
    BY <2>1, <2>2 DEF push_to_dcd_array
<1>3. dcd_size \in Nat /\ dcd_size' = dcd_size + WordSize
  BY <1>2 DEF dcd_size, WordSize, IInv, TypeOK
<1>4. alloc \in Nat /\ dcd_size <= alloc /\ (alloc = 0 \/ alloc >= 2 * WordSize)
  BY <1>1 DEF IInv, TypeOK, DcdInv, DcdAllocated
<1>5. alloc' \in Nat /\ dcd_size' <= alloc' /\ (alloc' = 0 \/ alloc' >= 2 * WordSize)
  <2>1. alloc' = Grow(alloc, dcd_size)
    BY DEF push_to_dcd_array
  <2> HIDE DEF dcd_size
  <2>2. CASE alloc > dcd_size + WordSize
    BY <1>3, <1>4, <2>1, <2>2 DEF Grow, WordSize
  <2>3. CASE ~(alloc > dcd_size + WordSize) /\ alloc = 0
    BY <1>3, <1>4, <2>1, <2>3 DEF Grow, WordSize
  <2>4. CASE ~(alloc > dcd_size + WordSize) /\ alloc # 0
    <3>1. alloc' = 2 * alloc
      BY <2>1, <2>4 DEF Grow
    <3> QED
      BY <1>3, <1>4, <2>4, <3>1 DEF WordSize
  <2> QED
    BY <2>2, <2>3, <2>4
<1>6. TypeOK'
  BY <1>1, <1>2, <1>5 DEF IInv, TypeOK
<1>7. LayoutInv'
  BY <1>1, ParseKeepsLayout
<1>8. ConfigInv' /\ DcdInv'
  BY <1>1, <1>5 DEF IInv, ConfigInv, BootChosen, DcdInv, DcdAllocated
<1> QED
  BY <1>6, <1>7, <1>8 DEF IInv

LEMMA PushFailsStep ==
  ASSUME IInv, push_no_memory
  PROVE  IInv'
<1>1. phase = "parse" /\ phase' = "failed" /\ alloc' = 0
      /\ UNCHANGED <<off, image, cfg, dcd, todo, boots, lines>>
  BY DEF push_no_memory
<1>2. TypeOK'
  BY <1>1 DEF IInv, TypeOK
<1>3. LayoutInv'
  BY <1>1, ParseKeepsLayout
<1>4. ConfigInv' /\ DcdInv'
  BY <1>1 DEF IInv, ConfigInv, BootChosen, DcdInv, DcdAllocated
<1> QED
  BY <1>2, <1>3, <1>4 DEF IInv

-----------------------------------------------------------------------------
(* The parts with fixed offsets: aligned and on different bytes. *)
LEMMA BuildStep ==
  ASSUME IInv, build_layout
  PROVE  IInv'
<1>1. phase = "parse" /\ UNCHANGED <<lines, boots, cfg, dcd, alloc, todo, image>>
  BY DEF build_layout, config
<1>2. ConfigInv' /\ (phase' # "failed" => DcdInv')
  BY <1>1 DEF IInv, ConfigInv, BootChosen, DcdInv, DcdAllocated, dcd_size
<1>3. CASE phase' = "failed" /\ UNCHANGED off
  <2>1. TypeOK'
    BY <1>1, <1>3 DEF IInv, TypeOK
  <2>2. LayoutInv'
    BY <1>1, <1>3, ParseKeepsLayout
  <2>3. DcdInv'
    BY <1>1, <1>3 DEF IInv, DcdInv, DcdAllocated
  <2> QED
    BY <1>2, <2>1, <2>2, <2>3 DEF IInv
<1>4. CASE /\ phase' = "place"
           /\ off' = [off EXCEPT !["mbr_reserved"] = 0,
                                 !["qspi_params"] = QSPI_PARAMS_OFFSET,
                                 !["ivt"] = cfg.ivt]
  <2>1. /\ off'["mbr_reserved"] = 0 /\ off'["qspi_params"] = QSPI_PARAMS_OFFSET
        /\ off'["ivt"] = cfg.ivt
        /\ \A c \in Computed : off'[c] = AUTO_OFFSET
    BY <1>1, <1>4 DEF IInv, TypeOK, LayoutInv, Parts, Fixed, Computed
  <2>2. cfg.ivt \in Nat /\ cfg.ivt \in {0, SD_IVT_OFFSET}
    <3>1. cfg.ivt \in {0, SD_IVT_OFFSET}
      BY DEF IInv, TypeOK
    <3>2. SD_IVT_OFFSET \in Nat
      OBVIOUS
    <3> QED
      BY <3>1, <3>2
  <2>3. TypeOK'
    BY <1>1, <1>4, <2>2 DEF IInv, TypeOK
  <2>4. \A c \in Placed' : c \in Fixed /\ c \in PartsIn
    BY <1>1, <2>1, SameLayout DEF Placed, PartsIn, Fixed, Computed
  <2>5. Placed' \subseteq {"ivt", IF cfg.flash_boot THEN "qspi_params"
                                                  ELSE "mbr_reserved"}
    BY <2>4 DEF PartsIn, Fixed
  <2>6. /\ Size("ivt")' = IVT_SIZE /\ Size("qspi_params")' = QSPI_PARAMS_SIZE
        /\ Size("mbr_reserved")' = MBR_SIZE
    BY DEF Size
  <2>7. ASSUME BootChosen' PROVE PartsDisjoint' /\ PlacedAligned'
    <3>0. cfg.flash_boot \/ cfg.ivt = SD_IVT_OFFSET
      BY <1>1, <2>7 DEF IInv, ConfigInv, BootChosen
    <3>1. CASE cfg.flash_boot
      <4>1. Alignment' = BOOTROM_QSPI_ALIGNMENT
        BY <1>1, <3>1 DEF Alignment
      <4>2. PartsDisjoint'
        BY <2>1, <2>2, <2>5, <2>6, <3>1 DEF PartsDisjoint, LayoutAssumption
      <4>3. /\ Multiple(SD_IVT_OFFSET, BOOTROM_QSPI_ALIGNMENT)
            /\ Multiple(QSPI_PARAMS_OFFSET, BOOTROM_QSPI_ALIGNMENT)
        BY DEF LayoutAssumption
      <4>4. /\ \E k \in Nat : SD_IVT_OFFSET = k * BOOTROM_QSPI_ALIGNMENT
            /\ \E k \in Nat : QSPI_PARAMS_OFFSET = k * BOOTROM_QSPI_ALIGNMENT
        BY <4>3 DEF Multiple
      <4>5. 0 \in Nat /\ 0 = 0 * BOOTROM_QSPI_ALIGNMENT
        OBVIOUS
      <4>6. PlacedAligned'
        BY <2>1, <2>2, <2>5, <3>1, <4>1, <4>4, <4>5 DEF PlacedAligned
      <4> QED
        BY <4>2, <4>6
    <3>2. CASE ~cfg.flash_boot
      <4>1. Alignment' = BOOTROM_SD_ALIGNMENT
        BY <1>1, <3>2 DEF Alignment
      <4>2. PartsDisjoint'
        BY <2>1, <2>2, <2>5, <2>6, <3>0, <3>2 DEF PartsDisjoint, LayoutAssumption
      <4>3. Multiple(SD_IVT_OFFSET, BOOTROM_SD_ALIGNMENT)
        BY DEF LayoutAssumption
      <4>4. \E k \in Nat : SD_IVT_OFFSET = k * BOOTROM_SD_ALIGNMENT
        BY <4>3 DEF Multiple
      <4>5. 0 \in Nat /\ 0 = 0 * BOOTROM_SD_ALIGNMENT
        OBVIOUS
      <4>6. PlacedAligned'
        BY <2>1, <2>5, <3>0, <3>2, <4>1, <4>4, <4>5 DEF PlacedAligned
      <4> QED
        BY <4>2, <4>6
    <3> QED
      BY <3>1, <3>2
  <2>8. LayoutInv'
    BY <1>4, <2>7 DEF LayoutInv, AppBehindParts
  <2> QED
    BY <1>2, <1>4, <2>3, <2>8 DEF IInv
<1> QED
  BY <1>3, <1>4 DEF build_layout

(* Placing part c at the rounded end of p, when that meets no other part. *)
LEMMA PlaceAt ==
  ASSUME IInv, NEW c \in PartsIn \ Placed, NEW p \in Placed,
         c \in Computed, phase = "place",
         UNCHANGED <<phase, lines, boots, cfg, dcd, alloc, todo, image>>,
         off' = [off EXCEPT ![c] = ROUND(End(p), Alignment)],
         BootChosen =>
           \A r \in Placed :
             \/ off[r] + Size(r) <= ROUND(End(p), Alignment)
             \/ ROUND(End(p), Alignment) + Size(c) <= off[r]
  PROVE  IInv'
<1> DEFINE o == ROUND(End(p), Alignment)
<1>1. TypeOK /\ ConfigInv
  BY DEF IInv
<1>2. Alignment \in Nat \ {0} /\ End(p) \in Nat
  BY <1>1, LayoutTypes
<1>3. o \in Nat /\ \E k \in Nat : o = k * Alignment
  BY <1>2, RoundUp
<1> HIDE DEF o
<1>4. c \in Parts
  BY DEF Parts
<1>5. off' = [off EXCEPT ![c] = o]
  BY DEF o
<1>6. off'[c] = o /\ \A r \in Parts : r # c => off'[r] = off[r]
  BY <1>1, <1>4, <1>5 DEF TypeOK
<1>7. TypeOK'
  <2>1. off \in [Parts \cup {"app_code", "code"} -> Nat \cup {AUTO_OFFSET}]
    BY <1>1 DEF TypeOK
  <2>2. off' \in [Parts \cup {"app_code", "code"} -> Nat \cup {AUTO_OFFSET}]
    BY <1>3, <1>5, <2>1
  <2> QED
    BY <1>1, <2>2 DEF TypeOK, AUTO_OFFSET
<1>8. ConfigInv' /\ DcdInv'
  BY DEF IInv, ConfigInv, BootChosen, DcdInv, DcdAllocated, dcd_size
<1>9. /\ Alignment' = Alignment /\ PartsIn' = PartsIn
      /\ \A d : Size(d)' = Size(d)
  BY SameLayout
<1>10. PartsIn \subseteq Parts
  BY DEF PartsIn, Parts, Fixed, Computed
<1>11. /\ \A d \in Placed' : d # c => d \in Placed /\ off'[d] = off[d]
  BY <1>6, <1>9, <1>10 DEF Placed
<1>12. ASSUME BootChosen' PROVE PlacedAligned' /\ PartsDisjoint'
  <2>1. BootChosen /\ PlacedAligned /\ PartsDisjoint
    BY <1>12 DEF IInv, LayoutInv, BootChosen
  <2>2. PlacedAligned'
    BY <1>3, <1>6, <1>9, <1>11, <2>1 DEF PlacedAligned
  <2>3. \A r \in Placed : off[r] + Size(r) <= o \/ o + Size(c) <= off[r]
    BY <2>1 DEF o
  <2>4. PartsDisjoint'
    BY <1>6, <1>9, <1>11, <2>1, <2>3 DEF PartsDisjoint
  <2> QED
    BY <2>2, <2>4
<1>13. LayoutInv'
  BY <1>12 DEF LayoutInv, AppBehindParts
<1> QED
  BY <1>7, <1>8, <1>13 DEF IInv

(* One round of s32_compute_dyn_offsets. *)
LEMMA PlaceStep ==
  ASSUME IInv, NEW c \in Computed, s32_compute_dyn_offsets(c)
  PROVE  IInv'
<1>1. /\ phase = "place" /\ c \in PartsIn \ Placed
      /\ UNCHANGED <<phase, lines, boots, cfg, dcd, alloc, todo, image>>
  BY DEF s32_compute_dyn_offsets, config
<1>2. TypeOK /\ ConfigInv /\ (BootChosen => PlacedAligned /\ PartsDisjoint)
  BY DEF IInv, LayoutInv
<1>3. ASSUME NEW p \in Placed, NEW q \in Placed, FirstFit(c, p, q),
             off' = [off EXCEPT ![c] = ROUND(End(p), Alignment)]
      PROVE  IInv'
  <2>1. Fits(c, p, q)
    BY <1>3 DEF FirstFit
  <2>2. BootChosen =>
          \A r \in Placed :
             \/ off[r] + Size(r) <= ROUND(End(p), Alignment)
             \/ ROUND(End(p), Alignment) + Size(c) <= off[r]
    BY <1>1, <1>2, <2>1, HoleIsFree
  <2> QED
    BY <1>1, <1>3, <2>2, PlaceAt
<1>4. ASSUME NEW p \in Placed, IsLast(p),
             off' = [off EXCEPT ![c] = ROUND(End(p), Alignment)]
      PROVE  IInv'
  <2>1. ASSUME BootChosen, NEW r \in Placed
        PROVE  off[r] + Size(r) <= ROUND(End(p), Alignment)
    <3>1. End(r) <= ROUND(End(p), Alignment)
      BY <1>2, <1>4, <2>1, BehindLast
    <3>2. /\ off[r] \in Nat /\ Size(r) \in Nat /\ get_padding \in Nat
          /\ End(p) \in Nat /\ Alignment \in Nat \ {0}
      BY <1>2, LayoutTypes DEF Placed
    <3>3. ROUND(End(p), Alignment) \in Nat
      BY <3>2, RoundUp
    <3> QED
      BY <3>1, <3>2, <3>3 DEF End
  <2> QED
    BY <1>1, <1>4, <2>1, PlaceAt
<1> QED
  BY <1>3, <1>4 DEF s32_compute_dyn_offsets

(* Placing the application header behind everything. *)
LEMMA AppStep ==
  ASSUME IInv, place_app
  PROVE  IInv'
<1>1. /\ phase = "place" /\ phase' = "write" /\ PartsIn = Placed
      /\ UNCHANGED <<lines, boots, cfg, dcd, alloc, todo, image>>
  BY DEF place_app, config
<1>2. TypeOK /\ ConfigInv /\ (BootChosen => PlacedAligned /\ PartsDisjoint)
  BY DEF IInv, LayoutInv
<1>3. PICK p \in Placed :
        /\ IsLast(p)
        /\ off' = [off EXCEPT
              !["app_code"] = ROUND(End(p), Alignment),
              !["code"] = ROUND(ROUND(End(p), Alignment) + APP_CODE_SIZE, 8)]
  BY DEF place_app
<1> DEFINE app == ROUND(End(p), Alignment)
           code == ROUND(app + APP_CODE_SIZE, 8)
<1>4. app \in Nat
  <2>1. Alignment \in Nat \ {0} /\ End(p) \in Nat
    BY <1>2, LayoutTypes
  <2> QED
    BY <2>1, RoundUp
<1>5. code \in Nat
  <2>1. app + APP_CODE_SIZE \in Nat /\ 8 \in Nat \ {0}
    BY <1>4
  <2> HIDE DEF app
  <2> QED
    BY <2>1, RoundUp
<1>6. off' = [off EXCEPT !["app_code"] = app, !["code"] = code]
  BY <1>3
<1>7. BootChosen => \A r \in Placed : End(r) <= app
  BY <1>2, <1>3, BehindLast
<1> HIDE DEF app, code
<1>8. off' \in [Parts \cup {"app_code", "code"} -> Nat \cup {AUTO_OFFSET}]
  <2>1. off \in [Parts \cup {"app_code", "code"} -> Nat \cup {AUTO_OFFSET}]
    BY <1>2 DEF TypeOK
  <2> QED
    BY <1>4, <1>5, <1>6, <2>1
<1>9. TypeOK'
  BY <1>1, <1>2, <1>8 DEF TypeOK, AUTO_OFFSET
<1>10. off'["app_code"] = app /\ \A r \in Parts : off'[r] = off[r]
  BY <1>2, <1>6 DEF TypeOK, Parts, Fixed, Computed
<1>11. /\ Alignment' = Alignment /\ get_padding' = get_padding
       /\ PartsIn' = PartsIn /\ \A d : Size(d)' = Size(d)
  BY <1>1, SameLayout
<1>12. PartsIn \subseteq Parts
  BY DEF PartsIn, Parts, Fixed, Computed
<1>13. Placed' = Placed /\ \A r \in Placed : off'[r] = off[r] /\ End(r)' = End(r)
  BY <1>10, <1>11, <1>12 DEF Placed, AUTO_OFFSET, End
<1>14. ConfigInv' /\ DcdInv'
  BY <1>1 DEF IInv, ConfigInv, BootChosen, DcdInv, DcdAllocated, dcd_size
<1>15. BootChosen' => PlacedAligned' /\ PartsDisjoint'
  BY <1>1, <1>2, <1>11, <1>13 DEF BootChosen, PlacedAligned, PartsDisjoint
<1>16. AppBehindParts'
  BY <1>1, <1>7, <1>10, <1>11, <1>13 DEF BootChosen, AppBehindParts
<1>17. LayoutInv'
  BY <1>1, <1>15, <1>16 DEF LayoutInv
<1> QED
  BY <1>9, <1>14, <1>17 DEF IInv

(* Writing the image and filling in its header do not touch the layout. *)
LEMMA WriteStep ==
  ASSUME IInv, UNCHANGED <<config, off>>, phase # "parse",
         phase' \in {"header", "done", "failed"},
         phase' \in {"header", "done"} => phase \in {"write", "header"},
         image' \in [data : Nat, ivt : BOOLEAN, code_length : Nat, start : Nat]
  PROVE  IInv'
<1>1. UNCHANGED <<lines, boots, cfg, dcd, alloc, todo, off>>
  BY DEF config
<1>2. TypeOK'
  BY <1>1 DEF IInv, TypeOK
<1>3. ConfigInv'
  BY <1>1 DEF IInv, ConfigInv, BootChosen
<1>4. DcdInv'
  BY <1>1 DEF IInv, DcdInv, DcdAllocated, dcd_size
<1>5. /\ Alignment' = Alignment /\ get_padding' = get_padding
      /\ PartsIn' = PartsIn /\ \A d : Size(d)' = Size(d)
  BY <1>1, SameLayout
<1>6. Placed' = Placed /\ \A r : End(r)' = End(r)
  BY <1>1, <1>5 DEF Placed, End, AUTO_OFFSET
<1>7. BootChosen' => PlacedAligned' /\ PartsDisjoint'
  BY <1>1, <1>5, <1>6 DEF IInv, LayoutInv, BootChosen, PlacedAligned, PartsDisjoint
<1>8. AppBehindParts'
  BY <1>1, <1>5, <1>6 DEF IInv, LayoutInv, BootChosen, AppBehindParts
<1>9. LayoutInv'
  BY <1>7, <1>8 DEF LayoutInv
<1> QED
  BY <1>2, <1>3, <1>4, <1>9 DEF IInv

(* The types of what write_image and s32cc_set_header store. *)
LEMMA ImageTypes ==
  ASSUME IInv,
         \/ \E data \in DataSizes : write_image(data)
         \/ \E addr, ep \in Addresses : s32cc_set_header(addr, ep)
         \/ header_faults
  PROVE  image' \in [data : Nat, ivt : BOOLEAN, code_length : Nat, start : Nat]
<1> DEFINE Image == [data : Nat, ivt : BOOLEAN, code_length : Nat, start : Nat]
<1>1. image \in Image /\ cfg.data_size \in Nat
  BY DEF IInv, TypeOK
<1>2. CodeLength \in Nat
  <2>1. (IF cfg.data_size # 0 THEN cfg.data_size ELSE image.data) \in Nat
    BY <1>1
  <2>2. CODE_ALIGNMENT \in Nat \ {0}
    OBVIOUS
  <2> QED
    BY <2>1, <2>2, RoundUp DEF CodeLength
<1>3. ASSUME NEW data \in DataSizes, write_image(data) PROVE image' \in Image
  BY <1>1, <1>3 DEF write_image
<1>4. ASSUME NEW addr \in Addresses, NEW ep \in Addresses,
             s32cc_set_header(addr, ep)
      PROVE  image' \in Image
  <2>1. addr \in Nat
    BY <1>4
  <2>2. \/ image' = [image EXCEPT !.ivt = TRUE]
        \/ image' = [image EXCEPT !.ivt = TRUE, !.code_length = CodeLength,
                                  !.start = addr]
    BY <1>4 DEF s32cc_set_header
  <2> HIDE DEF CodeLength
  <2> QED
    BY <1>1, <1>2, <2>1, <2>2
<1>5. ASSUME header_faults PROVE image' \in Image
  BY <1>1, <1>5 DEF header_faults
<1> QED
  BY <1>3, <1>4, <1>5

(* Every step keeps the invariant. *)
LEMMA NextStep ==
  ASSUME IInv, [Next]_vars
  PROVE  IInv'
<1>1. CASE UNCHANGED vars
  <2>1. UNCHANGED <<phase, lines, boots, cfg, dcd, alloc, todo, off, image>>
    BY <1>1 DEF vars, config
  <2>2. TypeOK'
    BY <2>1 DEF IInv, TypeOK
  <2>3. ConfigInv' /\ DcdInv'
    BY <2>1 DEF IInv, ConfigInv, BootChosen, DcdInv, DcdAllocated, dcd_size
  <2>4. /\ Alignment' = Alignment /\ get_padding' = get_padding
        /\ PartsIn' = PartsIn /\ \A d : Size(d)' = Size(d)
    BY <2>1, SameLayout
  <2>5. Placed' = Placed /\ \A r : End(r)' = End(r)
    BY <2>1, <2>4 DEF Placed, End, AUTO_OFFSET
  <2>6. LayoutInv'
    BY <2>1, <2>4, <2>5 DEF IInv, LayoutInv, BootChosen, PlacedAligned,
       PartsDisjoint, AppBehindParts, AUTO_OFFSET
  <2> QED
    BY <2>2, <2>3, <2>6 DEF IInv
<1>2. ASSUME NEW src \in {"qspi", "sd", "emmc"}, parse_boot_cmd(src) PROVE IInv'
  BY <1>2, BootStep
<1>3. CASE SetField
  BY <1>3, FieldStep
<1>4. ASSUME NEW write \in BOOLEAN, NEW count \in BOOLEAN,
             parse_dcd_cmd(write, count)
      PROVE  IInv'
  BY <1>4, DcdLineStep
<1>5. CASE push_to_dcd_array
  BY <1>5, PushStep
<1>6. CASE push_no_memory
  BY <1>6, PushFailsStep
<1>7. CASE BadLine
  BY <1>7, BadLineStep
<1>8. CASE build_layout
  BY <1>8, BuildStep
<1>9. ASSUME NEW c \in Computed, s32_compute_dyn_offsets(c) PROVE IInv'
  BY <1>9, PlaceStep
<1>10. CASE place_app
  BY <1>10, AppStep
<1>11. ASSUME NEW data \in DataSizes, write_image(data) PROVE IInv'
  <2>1. phase = "write" /\ phase' = "header" /\ UNCHANGED <<config, off>>
    BY <1>11 DEF write_image
  <2>2. image' \in [data : Nat, ivt : BOOLEAN, code_length : Nat, start : Nat]
    BY <1>11, ImageTypes
  <2> QED
    BY <2>1, <2>2, WriteStep
<1>12. CASE write_fails
  <2>1. phase = "write" /\ phase' = "failed" /\ UNCHANGED <<config, off>>
        /\ image' \in [data : Nat, ivt : BOOLEAN, code_length : Nat, start : Nat]
    BY <1>12 DEF write_fails, IInv, TypeOK
  <2> QED
    BY <2>1, WriteStep
<1>13. ASSUME NEW addr \in Addresses, NEW ep \in Addresses,
              s32cc_set_header(addr, ep)
       PROVE  IInv'
  <2>1. phase = "header" /\ phase' \in {"failed", "done"}
        /\ UNCHANGED <<config, off>>
    BY <1>13 DEF s32cc_set_header
  <2>2. image' \in [data : Nat, ivt : BOOLEAN, code_length : Nat, start : Nat]
    BY <1>13, ImageTypes
  <2> QED
    BY <2>1, <2>2, WriteStep
<1>14. CASE header_faults
  <2>1. phase = "header" /\ phase' = "failed" /\ UNCHANGED <<config, off>>
    BY <1>14 DEF header_faults
  <2>2. image' \in [data : Nat, ivt : BOOLEAN, code_length : Nat, start : Nat]
    BY <1>14, ImageTypes
  <2> QED
    BY <2>1, <2>2, WriteStep
<1>15. CASE Terminated
  BY <1>1, <1>15 DEF Terminated
<1> QED
  BY <1>1, <1>2, <1>3, <1>4, <1>5, <1>6, <1>7, <1>8, <1>9, <1>10, <1>11,
     <1>12, <1>13, <1>14, <1>15 DEF Next

(* The inductive invariant of mkimage. *)
THEOREM Inductive == Spec => []IInv
BY InitIInv, NextStep, PTL DEF Spec

(* s32_compute_dyn_offsets puts no two parts on the same bytes once        *)
(* BOOT_FROM was read, in whatever order qsort leaves the parts.           *)
THEOREM HeaderPartsDisjoint == Spec => []PartsDisjoint
<1>1. IInv => PartsDisjoint
  BY DEF IInv, LayoutInv, PartsDisjoint
<1> QED
  BY <1>1, Inductive, PTL

(* s32g2xx_build_layout puts the application header behind every part. *)
THEOREM AppHeaderLast == Spec => []AppBehindParts
<1>1. IInv => AppBehindParts
  BY DEF IInv, LayoutInv
<1> QED
  BY <1>1, Inductive, PTL

(* push_to_dcd_array always has room for the word it stores. *)
THEOREM DcdHasRoom == Spec => []DcdAllocated
<1>1. IInv => DcdAllocated
  BY DEF IInv, DcdInv
<1> QED
  BY <1>1, Inductive, PTL


(* mkimage -l recognises every finished image, for the medium that         *)
(* BOOT_FROM named.                                                        *)
THEOREM ImageRecognised == Spec => []MediumRecognised
<1>1. Init => IvtInv
  BY DEF Init, IvtInv
<1>2. IInv => TypeOK
  BY DEF IInv
<1>3. TypeOK /\ IvtInv /\ [Next]_vars => IvtInv'
  BY IvtStep
<1>4. TypeOK /\ IvtInv => MediumRecognised
  BY Recognises
<1> QED
  BY <1>1, <1>2, <1>3, <1>4, Inductive, PTL DEF Spec

(* The BootROM can follow the length fields through the whole DCD. *)
THEOREM DcdReadable == Spec => []DcdWellFormed
<1>1. Init => ChainInv
  BY ConcatEmptySeq DEF Init, ChainInv
<1>2. IInv => TypeOK
  BY DEF IInv
<1>3. TypeOK /\ ChainInv /\ [Next]_vars => ChainInv'
  BY ChainStep
<1>4. ASSUME TypeOK, ChainInv PROVE DcdWellFormed
  <2>1. SUFFICES ASSUME phase # "failed", todo = <<>>, dcd # <<>>
        PROVE  /\ dcd[1].kind = "header"
               /\ Len(dcd) > 1 /\ dcd[2].kind = "command"
               /\ Chain(dcd)
    BY Zenon DEF DcdWellFormed, Chain
  <2>2. dcd \o todo = dcd
    BY <1>4, <2>1, ConcatEmptySeq DEF TypeOK
  <2>3. Linked(dcd) /\ Len(dcd) > 1
    BY <1>4, <2>1, <2>2, Zenon DEF ChainInv
  <2> QED
    BY <2>3 DEF Linked
<1> QED
  BY <1>1, <1>2, <1>3, <1>4, Inductive, PTL DEF Spec

-----------------------------------------------------------------------------
(* Alignment *)

(* A rounded number is a multiple; of 8 too, if the alignment is. *)
LEMMA RoundMultiple ==
  ASSUME NEW x \in Nat, NEW a \in Nat \ {0}
  PROVE  /\ ROUND(x, a) % a = 0
         /\ Multiple(a, 8) => ROUND(x, a) % 8 = 0
<1>1. PICK k \in Nat : ROUND(x, a) = k * a
  BY RoundUp
<1>2. (k * a) % a = 0
  BY Z3
<1>3. ASSUME Multiple(a, 8) PROVE (k * a) % 8 = 0
  <2>1. PICK j \in Nat : a = j * 8
    BY <1>3 DEF Multiple
  <2>2. PICK n \in Nat : n = k * j
    OBVIOUS
  <2>3. k * a = n * 8
    BY <2>1, <2>2
  <2>4. (n * 8) % 8 = 0
    OBVIOUS
  <2> QED
    BY <2>3, <2>4
<1> QED
  BY <1>1, <1>2, <1>3

(* Eight divides what is already a multiple: nothing is added. *)
LEMMA RoundExact ==
  ASSUME NEW x \in Nat, NEW y \in Nat, x % 8 = 0, y % 8 = 0
  PROVE  ROUND(x + y, 8) = x + y
BY DEF ROUND

AlignInv ==
  /\ \A c \in Placed \cap Computed : off[c] % Alignment = 0
  /\ phase \in {"write", "header", "done"} =>
       /\ PartsIn \subseteq Placed
       /\ off["app_code"] % Alignment = 0
       /\ off["code"] = header_size

(* Every offset s32_compute_dyn_offsets computes comes from ROUND. *)
LEMMA AlignStep ==
  ASSUME IInv, AlignInv, [Next]_vars
  PROVE  AlignInv'
<1>0. TypeOK /\ ConfigInv /\ PartsIn \subseteq Parts /\ PartsIn' \subseteq Parts
  BY DEF IInv, PartsIn, Parts, Fixed, Computed
<1>1. ASSUME phase = "parse", phase' \in {"parse", "failed"}, UNCHANGED off
      PROVE  AlignInv'
  <2>1. \A c \in Parts : off'[c] = AUTO_OFFSET
    BY <1>1 DEF IInv, LayoutInv
  <2>2. Placed' = {}
    BY <1>0, <2>1 DEF Placed
  <2> QED
    BY <1>1, <2>2 DEF AlignInv
<1>2. ASSUME UNCHANGED <<cfg, dcd, off>>,
             phase' \in {"write", "header", "done"} => phase \in {"write", "header", "done"}
      PROVE  AlignInv'
  BY <1>2 DEF AlignInv, Placed, PartsIn, dcd_size, Alignment, header_size
<1>3. CASE SetField \/ (\E src \in {"qspi", "sd", "emmc"} : parse_boot_cmd(src))
           \/ (\E write, count \in BOOLEAN : parse_dcd_cmd(write, count))
           \/ push_to_dcd_array \/ push_no_memory \/ BadLine
  BY <1>1, <1>3 DEF SetField, parse_boot_cmd, parse_dcd_cmd, push_to_dcd_array, push_no_memory,
     BadLine, ReadLine
<1>4. CASE build_layout
  <2>1. phase = "parse" /\ phase' \in {"place", "failed"}
    BY <1>4 DEF build_layout
  <2>2. \A c \in Parts : off[c] = AUTO_OFFSET
    BY <2>1 DEF IInv, LayoutInv
  <2>3. \A c \in Computed : off'[c] = AUTO_OFFSET
    BY <1>0, <1>4, <2>2 DEF build_layout, Computed, Parts, Fixed, TypeOK
  <2> QED
    BY <2>1, <2>3 DEF AlignInv, Placed
<1>5. ASSUME NEW c \in Computed, s32_compute_dyn_offsets(c)
      PROVE  AlignInv'
  <2>1. /\ phase = "place" /\ phase' = "place" /\ UNCHANGED <<cfg, dcd>>
    BY <1>5 DEF s32_compute_dyn_offsets, config
  <2>2. PICK p \in Placed : off' = [off EXCEPT ![c] = ROUND(End(p), Alignment)]
    BY <1>5 DEF s32_compute_dyn_offsets
  <2>3. Alignment \in Nat \ {0} /\ End(p) \in Nat /\ Alignment' = Alignment /\ PartsIn' = PartsIn
    BY <1>0, <2>1, LayoutTypes, SameLayout
  <2>4. ROUND(End(p), Alignment) % Alignment = 0
    BY <2>3, RoundMultiple
  <2>5. off'[c] = ROUND(End(p), Alignment) /\ \A d \in Parts : d # c => off'[d] = off[d]
    BY <1>0, <2>2 DEF TypeOK, Parts
  <2>6. ASSUME NEW d \in Placed' \cap Computed PROVE off'[d] % Alignment' = 0
    <3>1. CASE d = c
      BY <2>3, <2>4, <2>5, <3>1
    <3>2. CASE d # c
      <4>1. d \in Placed \cap Computed /\ off'[d] = off[d]
        BY <1>0, <2>3, <2>5, <3>2 DEF Placed
      <4> QED
        BY <2>3, <4>1 DEF AlignInv
    <3> QED
      BY <3>1, <3>2
  <2> QED
    BY <2>1, <2>6 DEF AlignInv
<1>6. CASE place_app
  <2>1. phase' = "write" /\ PartsIn = Placed /\ UNCHANGED <<cfg, dcd>>
    BY <1>6 DEF place_app, config
  <2>2. PICK p \in Placed :
           off' = [off EXCEPT !["app_code"] = ROUND(End(p), Alignment),
                              !["code"] = ROUND(ROUND(End(p), Alignment) + APP_CODE_SIZE, 8)]
    BY <1>6 DEF place_app
  <2>3. Alignment \in Nat \ {0} /\ End(p) \in Nat /\ Alignment' = Alignment /\ PartsIn' = PartsIn
    BY <1>0, <2>1, LayoutTypes, SameLayout
  <2>4. PICK a \in Nat : a = ROUND(End(p), Alignment) /\ a % Alignment = 0 /\ a % 8 = 0
    <3>1. Multiple(Alignment, 8)
      BY CodeAssumption DEF Alignment
    <3>2. ROUND(End(p), Alignment) \in Nat
      BY <2>3, RoundUp
    <3>3. /\ ROUND(End(p), Alignment) % Alignment = 0
          /\ ROUND(End(p), Alignment) % 8 = 0
      BY <2>3, <3>1, RoundMultiple
    <3> QED
      BY <3>2, <3>3, Zenon
  <2>5. APP_CODE_SIZE % 8 = 0 /\ APP_CODE_SIZE \in Nat
    <3>1. PICK j \in Nat : APP_CODE_SIZE = j * 8
      BY CodeAssumption DEF Multiple
    <3> QED
      BY <3>1
  <2>6. ROUND(a + APP_CODE_SIZE, 8) = a + APP_CODE_SIZE
    BY <2>4, <2>5, RoundExact
  <2>7. /\ off'["app_code"] = a /\ off'["code"] = a + APP_CODE_SIZE
        /\ \A d \in Parts : off'[d] = off[d]
    BY <1>0, <2>2, <2>4, <2>6 DEF TypeOK, Parts, Fixed, Computed
  <2>8. Placed' = Placed
    BY <1>0, <2>3, <2>7 DEF Placed
  <2>9. \A d \in Placed' \cap Computed : off'[d] % Alignment' = 0
    BY <1>0, <2>1, <2>3, <2>7, <2>8 DEF AlignInv
  <2> QED
    BY <2>1, <2>3, <2>4, <2>7, <2>8, <2>9 DEF AlignInv, header_size
<1>7. CASE \/ \E data \in DataSizes : write_image(data)
           \/ \E addr, ep \in Addresses : s32cc_set_header(addr, ep)
           \/ write_fails \/ header_faults \/ Terminated \/ UNCHANGED vars
  BY <1>2, <1>7 DEF write_image, s32cc_set_header, write_fails, header_faults, Terminated, vars,
     config
<1> QED
  BY <1>3, <1>4, <1>5, <1>6, <1>7, Zenon DEF Next

(* The offsets given to the BootROM are aligned, and the code lies         *)
(* directly behind the application header.                                 *)
THEOREM BootRomAligned == Spec => []OffsetsAligned
<1>1. ASSUME Init PROVE AlignInv
  <2>1. \A c \in Parts : off[c] = AUTO_OFFSET
    BY <1>1 DEF Init
  <2>2. Placed \cap Computed = {} /\ phase = "parse"
    BY <1>1, <2>1 DEF Init, Placed, Parts, Computed, Fixed
  <2> QED
    BY <2>2 DEF AlignInv
<1>2. IInv /\ AlignInv /\ [Next]_vars => AlignInv'
  BY AlignStep
<1>3. AlignInv => OffsetsAligned
  BY DEF AlignInv, OffsetsAligned
<1> QED
  BY <1>1, <1>2, <1>3, Inductive, PTL DEF Spec
=============================================================================
