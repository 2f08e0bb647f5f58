------------------------------ MODULE MkImage ------------------------------
(***************************************************************************)
(* tools/mkimage: builds an S32 boot image from a configuration file and a *)
(* data file.  The configuration is read line by line, the parts of the    *)
(* image header get their offsets, the header and the data are written and *)
(* the header is filled in.  Sizes are bytes; a #define is a constant, so  *)
(* that it can be scaled down.                                             *)
(***************************************************************************)
EXTENDS Integers, Sequences, FiniteSets

CONSTANTS
  MBR_SIZE, SD_IVT_OFFSET, IVT_SIZE,
  QSPI_PARAMS_OFFSET, QSPI_PARAMS_SIZE,
  DCD_MAXIMUM_SIZE, HSE_FW_MAX_SIZE, HSE_SYS_IMG_MAX_SIZE, APP_CODE_SIZE,
  BOOTROM_QSPI_ALIGNMENT, BOOTROM_SD_ALIGNMENT,
  SZ_1K,           \* padding of the ERR051257 workaround
  CODE_ALIGNMENT,  \* what code_length is rounded to (512)
  PageSize,        \* mmap maps whole pages
  reserved_sram,   \* pairs <<start, end>>
  FwSizes,         \* sizes an HSE firmware file may have
  DataSizes,       \* sizes a data file, or DATA_FILE SIZE, may have
  Addresses,       \* load addresses and entry points
  MaxLines         \* bound on the configuration lines read

(* x is a multiple of a *)
Multiple(x, a) == \E k \in 0 .. x : x = k * a

ASSUME SizeAssumption ==
  /\ {MBR_SIZE, IVT_SIZE, QSPI_PARAMS_SIZE, HSE_SYS_IMG_MAX_SIZE,
      APP_CODE_SIZE, BOOTROM_QSPI_ALIGNMENT, BOOTROM_SD_ALIGNMENT,
      CODE_ALIGNMENT, PageSize} \subseteq Nat \ {0}
  /\ {SD_IVT_OFFSET, QSPI_PARAMS_OFFSET, DCD_MAXIMUM_SIZE, HSE_FW_MAX_SIZE,
      SZ_1K, MaxLines} \subseteq Nat
  /\ FwSizes \subseteq Nat \ {0} /\ DataSizes \subseteq Nat
  /\ Addresses \subseteq Nat /\ reserved_sram \subseteq Nat \X Nat

(* what the fixed offsets have in common with the places that are computed *)
ASSUME LayoutAssumption ==
  /\ MBR_SIZE <= SD_IVT_OFFSET
  /\ IVT_SIZE <= QSPI_PARAMS_OFFSET
  /\ QSPI_PARAMS_OFFSET + QSPI_PARAMS_SIZE <= SD_IVT_OFFSET
  /\ Multiple(SD_IVT_OFFSET, BOOTROM_SD_ALIGNMENT)
  /\ \A x \in {SD_IVT_OFFSET, QSPI_PARAMS_OFFSET, SZ_1K} :
       Multiple(x, BOOTROM_QSPI_ALIGNMENT)

(* the code is rounded to 8 bytes behind the application header *)
ASSUME CodeAssumption ==
  \A x \in {APP_CODE_SIZE, BOOTROM_QSPI_ALIGNMENT, BOOTROM_SD_ALIGNMENT} : Multiple(x, 8)

VARIABLES
  phase,  \* where main is: parse, place, write, header, done, failed
  lines,  \* lines read
  boots,  \* the BOOT_FROM values read so far
  cfg,    \* iconfig without the DCD, and image_layout.ivt.offset
  dcd,    \* iconfig.dcd.data as words; a command's first word has its length
  alloc,  \* iconfig.dcd.allocated_size
  todo,   \* the words add_to_dcd has still to push
  off,    \* the offsets of image_layout
  image   \* the output file

config == <<lines, boots, cfg, dcd, alloc, todo>>
vars == <<phase, config, off, image>>

AUTO_OFFSET == -1
WordSize == 4

Fixed == {"mbr_reserved", "qspi_params", "ivt"}
Computed == {"dcd", "hse_fw", "hse_sys_img"}
Parts == Fixed \cup Computed

dcd_size == WordSize * Len(dcd)

Init ==
  /\ phase = "parse"
  /\ lines = 0
  /\ boots = {}
  /\ cfg = [flash_boot |-> FALSE, a53_boot |-> TRUE, err051257 |-> FALSE,
            hse |-> FALSE, fw_size |-> 0, data_size |-> 0, ivt |-> 0]
  /\ dcd = <<>> /\ alloc = 0 /\ todo = <<>>
  /\ off = [c \in Parts \cup {"app_code", "code"} |-> AUTO_OFFSET]
  /\ image = [data |-> 0, ivt |-> FALSE, code_length |-> 0, start |-> 0]

(***************************************************************************)
(* Reading the configuration                                               *)
(***************************************************************************)

(* parse_config_line calls the parser of a known tag with the rest of the line *)
ReadLine ==
  /\ phase = "parse" /\ todo = <<>>
  /\ lines < MaxLines /\ lines' = lines + 1

(* Mutant: the IVT stays where it was when the medium is not the flash. *)
BootSameIvt(src) ==
  /\ ReadLine
  /\ boots' = boots \cup {src}
  /\ cfg' = IF src = "qspi" THEN [cfg EXCEPT !.flash_boot = TRUE, !.ivt = 0]
            ELSE [cfg EXCEPT !.ivt = 0]
  /\ UNCHANGED <<phase, dcd, alloc, todo, off, image>>

(* BOOT_FROM *)
parse_boot_cmd(src) ==
  /\ ReadLine
  /\ boots' = boots \cup {src}
  /\ cfg' = IF src = "qspi" THEN [cfg EXCEPT !.flash_boot = TRUE, !.ivt = 0]
            ELSE [cfg EXCEPT !.ivt = SD_IVT_OFFSET]
  /\ UNCHANGED <<phase, dcd, alloc, todo, off, image>>

(* BOOT_CORE, HSE_FW, DATA_FILE SIZE, ERR051257_WORKAROUND and             *)
(* QSPI_PARAMS_FILE, each of which sets its own fields of iconfig.  The    *)
(* parameter file is taken to have the size of its part: the code does not *)
(* check that, and s32cc_set_qspi_params (mkimage.c:399-402) copies a      *)
(* longer file over what follows the part.                                 *)
parse_boot_core(a53) == cfg' = [cfg EXCEPT !.a53_boot = a53]
parse_hse_cmd(size) == cfg' = [cfg EXCEPT !.hse = TRUE, !.fw_size = size]
parse_data_file_cmd(size) == cfg' = [cfg EXCEPT !.data_size = size]
parse_err051257 == cfg' = [cfg EXCEPT !.err051257 = TRUE]
parse_qspi_cmd == UNCHANGED cfg

SetField ==
  /\ ReadLine
  /\ \/ \E a53 \in BOOLEAN : parse_boot_core(a53)
     \/ \E size \in FwSizes : parse_hse_cmd(size)
     \/ \E size \in DataSizes : parse_data_file_cmd(size)
     \/ parse_err051257
     \/ parse_qspi_cmd
  /\ UNCHANGED <<phase, boots, dcd, alloc, todo, off, image>>

(* A word of the DCD: len is the length field of a command's first word,   *)
(* 0 for every other word.                                                 *)
Word(kind, len) == [kind |-> kind, len |-> len]
Header == Word("header", 0)

(* Mutant: the length of a check does not include its count. *)
CommandNoCount(write, count) ==
  <<Word("command", 12), Word("data", 0), Word("data", 0)>>
    \o (IF ~write /\ count THEN <<Word("data", 0)>> ELSE <<>>)

(* the words of one command: header, address, mask, and the count of a check *)
Command(write, count) ==
  IF write \/ ~count
  THEN <<Word("command", 12), Word("data", 0), Word("data", 0)>>
  ELSE <<Word("command", 16), Word("data", 0), Word("data", 0), Word("data", 0)>>

(* DCD: add_to_dcd, which pushes the DCD header first if there is no array *)
parse_dcd_cmd(write, count) ==
  /\ ReadLine
  /\ todo' = (IF dcd = <<>> THEN <<Header>> ELSE <<>>) \o Command(write, count)
  /\ UNCHANGED <<phase, boots, cfg, dcd, alloc, off, image>>

(* Mutant: the array grows only when it is exceeded by more than a word. *)
GrowLate(a, size) ==
  IF a + WordSize > size THEN a ELSE IF a = 0 THEN 2 * WordSize ELSE 2 * a

(* the allocated size push_to_dcd_array needs for one more word *)
Grow(a, size) ==
  IF a > size + WordSize THEN a
  ELSE IF a = 0 THEN 2 * WordSize ELSE 2 * a

push_to_dcd_array ==
  /\ phase = "parse" /\ todo # <<>>
  /\ alloc' = Grow(alloc, dcd_size)
  /\ dcd' = Append(dcd, Head(todo))
  /\ todo' = Tail(todo)
  /\ UNCHANGED <<phase, lines, boots, cfg, off, image>>

(* realloc fails: the error goes up to s32cc_vrec_header, which exits *)
push_no_memory ==
  /\ phase = "parse" /\ todo # <<>>
  /\ Grow(alloc, dcd_size) # alloc
  /\ alloc' = 0
  /\ phase' = "failed"
  /\ UNCHANGED <<lines, boots, cfg, dcd, todo, off, image>>

(* A line no parser accepts, or a file that cannot be mapped *)
BadLine ==
  /\ ReadLine
  /\ phase' = "failed"
  /\ UNCHANGED <<boots, cfg, dcd, alloc, todo, off, image>>

(***************************************************************************)
(* Laying out the header                                                   *)
(***************************************************************************)

(* the parts[] of s32g2xx_build_layout that are not NULL *)
PartsIn ==
  {"ivt"} \cup (IF cfg.flash_boot THEN {"qspi_params"} ELSE {"mbr_reserved"})
          \cup (IF dcd_size = 0 THEN {} ELSE {"dcd"})
          \cup (IF cfg.hse THEN {"hse_fw", "hse_sys_img"} ELSE {})

Size(c) == CASE c = "mbr_reserved" -> MBR_SIZE
             [] c = "qspi_params" -> QSPI_PARAMS_SIZE
             [] c = "ivt" -> IVT_SIZE
             [] c = "dcd" -> dcd_size
             [] c = "hse_fw" -> cfg.fw_size
             [] c = "hse_sys_img" -> HSE_SYS_IMG_MAX_SIZE
             [] OTHER -> APP_CODE_SIZE

get_padding == IF cfg.err051257 /\ cfg.flash_boot THEN SZ_1K ELSE 0

Alignment ==
  IF cfg.flash_boot THEN BOOTROM_QSPI_ALIGNMENT ELSE BOOTROM_SD_ALIGNMENT

(* Mutant: adds the remainder instead of what is missing to the multiple. *)
RoundOff(x, a) == x + (x % a)

(* ROUND: the alignments are powers of two, where masking is rounding *)
ROUND(x, a) == ((x + a - 1) \div a) * a

(* end1, end2 of is_in_overlap *)
End(c) == off[c] + Size(c) + get_padding

(* is_in_overlap for part c at offset o *)
is_in_overlap(c, o, d) ==
  o + Size(c) + get_padding > off[d] /\ End(d) > o

Placed == {c \in PartsIn : off[c] # AUTO_OFFSET}

(* the order of parts[]: by offset, and qsort keeps the order of equal ones *)
Before(p, q) ==
  off[p] < off[q] \/ (off[p] = off[q] /\ p = "mbr_reserved" /\ q # p)

Adjacent(p, q) ==
  /\ Before(p, q)
  /\ \A r \in Placed : ~(Before(p, r) /\ Before(r, q))

IsLast(p) == p \in Placed /\ \A r \in Placed : ~Before(p, r)

(* Mutant: the search for a hole looks only at the part in front of it. *)
FitsNoNext(c, p, q) ==
  /\ Adjacent(p, q)
  /\ ~is_in_overlap(c, ROUND(End(p), Alignment), p)

(* part c fits into the hole between the neighbours p and q *)
Fits(c, p, q) ==
  /\ Adjacent(p, q)
  /\ ~is_in_overlap(c, ROUND(End(p), Alignment), q)
  /\ ~is_in_overlap(c, ROUND(End(p), Alignment), p)

FirstFit(c, p, q) ==
  /\ Fits(c, p, q)
  /\ \A r, s \in Placed : Fits(c, r, s) => ~Before(r, p)

(* End of the file: set_headers_size, set_headers_alignment, set_padding,  *)
(* and the sort that puts the parts with fixed offsets first.              *)
build_layout ==
  /\ phase = "parse" /\ todo = <<>>
  /\ IF dcd_size > DCD_MAXIMUM_SIZE \/ cfg.fw_size > HSE_FW_MAX_SIZE
     THEN phase' = "failed" /\ UNCHANGED off
     ELSE /\ phase' = "place"
          /\ off' = [off EXCEPT !["mbr_reserved"] = 0,
                                !["qspi_params"] = QSPI_PARAMS_OFFSET,
                                !["ivt"] = cfg.ivt]
  /\ UNCHANGED <<config, image>>

(* One round of s32_compute_dyn_offsets.  Parts without an offset compare  *)
(* equal, so that qsort may leave any of them in front.                    *)
s32_compute_dyn_offsets(c) ==
  /\ phase = "place"
  /\ c \in PartsIn \ Placed
  /\ \/ \E p, q \in Placed :
          FirstFit(c, p, q) /\ off' = [off EXCEPT ![c] = ROUND(End(p), Alignment)]
     \/ /\ \A p, q \in Placed : ~Fits(c, p, q)
        /\ \E p \in Placed :
             IsLast(p) /\ off' = [off EXCEPT ![c] = ROUND(End(p), Alignment)]
  /\ UNCHANGED <<phase, config, image>>

(* Mutant: the application header follows the IVT. *)
PlaceAppAfterIvt ==
  /\ phase = "place"
  /\ PartsIn = Placed
  /\ phase' = "write"
  /\ \E p \in Placed :
       LET app == ROUND(off["ivt"] + IVT_SIZE, Alignment) IN
       off' = [off EXCEPT !["app_code"] = app,
                          !["code"] = ROUND(app + APP_CODE_SIZE, 8)]
  /\ UNCHANGED <<config, image>>

(* the application header goes behind the last part, the code behind it *)
place_app ==
  /\ phase = "place"
  /\ PartsIn = Placed
  /\ phase' = "write"
  /\ \E p \in Placed :
       /\ IsLast(p)
       /\ LET app == ROUND(End(p), Alignment) IN
          off' = [off EXCEPT !["app_code"] = app,
                             !["code"] = ROUND(app + APP_CODE_SIZE, 8)]
  /\ UNCHANGED <<config, image>>

header_size == off["app_code"] + APP_CODE_SIZE

(***************************************************************************)
(* Writing the image                                                       *)
(***************************************************************************)

(* main writes the empty header and copy_file appends the data file, which *)
(* it can map only if it is not empty                                      *)
write_image(data) ==
  /\ phase = "write"
  /\ data > 0
  /\ phase' = "header"
  /\ image' = [image EXCEPT !.data = data]
  /\ UNCHANGED <<config, off>>

(* calloc, mmap or write fails; the file is left behind *)
write_fails ==
  /\ phase = "write"
  /\ phase' = "failed"
  /\ UNCHANGED <<config, off, image>>

CodeLength ==
  ROUND(IF cfg.data_size # 0 THEN cfg.data_size ELSE image.data, CODE_ALIGNMENT)

(* enforce_reserved_ranges refuses the image *)
Reserved(start, length) ==
  \E r \in reserved_sram : start < r[2] /\ start + length > r[1]

(* main maps as many bytes of the image as the data file has *)
Mapped == ROUND(image.data, PageSize)

(* the end of app_code->code_length, the last field of the header that is set *)
LastStored == off["app_code"] + 16

(* s32cc_set_header: the IVT is written before the checks that may exit *)
s32cc_set_header(addr, ep) ==
  /\ phase = "header"
  /\ LastStored <= Mapped
  /\ LET filled == [image EXCEPT !.ivt = TRUE, !.code_length = CodeLength,
                                 !.start = addr] IN
     IF ep < addr
     THEN phase' = "failed" /\ image' = [image EXCEPT !.ivt = TRUE]
     ELSE /\ phase' = IF ~cfg.flash_boot /\ Reserved(addr, CodeLength)
                      THEN "failed" ELSE "done"
          /\ image' = filled
  /\ UNCHANGED <<config, off>>

(* A store behind the mapped pages: the program is killed, with or without *)
(* the IVT written.                                                        *)
header_faults ==
  /\ phase = "header"
  /\ LastStored > Mapped
  /\ phase' = "failed"
  /\ \E written \in BOOLEAN : image' = [image EXCEPT !.ivt = written]
  /\ UNCHANGED <<config, off>>

(* where mkimage -l looks for the IVT, and the medium it concludes from it *)
is_ivt_header(o) == image.ivt /\ off["ivt"] = o

get_ivt_from_raw_blob ==
  IF is_ivt_header(0) THEN "qspi"
  ELSE IF is_ivt_header(SD_IVT_OFFSET) THEN "sd" ELSE "none"

(* main has exited *)
Terminated == phase \in {"done", "failed"} /\ UNCHANGED vars

Next ==
  \/ \E src \in {"qspi", "sd", "emmc"} : parse_boot_cmd(src)
  \/ SetField
  \/ \E write, count \in BOOLEAN : parse_dcd_cmd(write, count)
  \/ push_to_dcd_array
  \/ push_no_memory
  \/ BadLine
  \/ build_layout
  \/ \E c \in Computed : s32_compute_dyn_offsets(c)
  \/ place_app
  \/ \E data \in DataSizes : write_image(data)
  \/ write_fails
  \/ \E addr, ep \in Addresses : s32cc_set_header(addr, ep)
  \/ header_faults
  \/ Terminated

Spec == Init /\ [][Next]_vars

(***************************************************************************)
(* Properties                                                              *)
(***************************************************************************)

Words == [kind : {"header", "command", "data"}, len : {0, 12, 16}]

(* The types of the variables. *)
TypeOK ==
  /\ phase \in {"parse", "place", "write", "header", "done", "failed"}
  /\ lines \in Nat
  /\ boots \subseteq {"qspi", "sd", "emmc"}
  /\ cfg \in [flash_boot : BOOLEAN, a53_boot : BOOLEAN, err051257 : BOOLEAN,
              hse : BOOLEAN, fw_size : Nat, data_size : Nat,
              ivt : {0, SD_IVT_OFFSET}]
  /\ dcd \in Seq(Words) /\ todo \in Seq(Words)
  /\ alloc \in Nat
  /\ off \in [Parts \cup {"app_code", "code"} -> Nat \cup {AUTO_OFFSET}]
  /\ image \in [data : Nat, ivt : BOOLEAN, code_length : Nat, start : Nat]

(* A BOOT_FROM line was read.  Without one the IVT stays at offset 0, on   *)
(* top of the MBR.                                                         *)
BootChosen == boots # {}

(* s32_compute_dyn_offsets puts no two parts of the header on the same     *)
(* bytes, in whatever order qsort leaves the parts that have no offset yet. *)
PartsDisjoint ==
  BootChosen =>
    \A c, d \in Placed :
      c # d => off[c] + Size(c) <= off[d] \/ off[d] + Size(d) <= off[c]

(* The application header lies behind every part of the header, padding    *)
(* included, so that the data written after it is glued to it.             *)
AppBehindParts ==
  BootChosen /\ phase \in {"write", "header", "done"} =>
    \A c \in PartsIn : c \in Placed /\ End(c) <= off["app_code"]

(* The BootROM wants every computed offset aligned, and the code directly  *)
(* behind the application header.                                          *)
OffsetsAligned ==
  phase \in {"write", "header", "done"} =>
    /\ \A c \in (PartsIn \cap Computed) \cup {"app_code"} : off[c] % Alignment = 0
    /\ off["code"] = header_size

(* push_to_dcd_array never stores behind the allocated array. *)
DcdAllocated == phase # "failed" => dcd_size <= alloc

(* Following the length fields through the DCD visits each command and     *)
(* ends at its last word: what the BootROM does with it.                   *)
DcdWellFormed ==
  phase # "failed" /\ todo = <<>> /\ dcd # <<>> =>
    /\ dcd[1].kind = "header"
    /\ Len(dcd) > 1 /\ dcd[2].kind = "command"
    /\ \A i \in 1 .. Len(dcd) :
         dcd[i].kind = "command" =>
           LET j == i + dcd[i].len \div WordSize IN
           /\ \A k \in i + 1 .. j - 1 : k <= Len(dcd) /\ dcd[k].kind = "data"
           /\ j = Len(dcd) + 1 \/ (j <= Len(dcd) /\ dcd[j].kind = "command")

(* mkimage -l recognises a finished image, and as one for the medium that  *)
(* BOOT_FROM asked for.                                                    *)
MediumRecognised ==
  phase = "done" /\ Cardinality(boots) = 1 =>
    get_ivt_from_raw_blob = (IF boots = {"qspi"} THEN "qspi" ELSE "sd")

(* The fields that s32cc_set_header fills in lie in the part of the image  *)
(* that main has mapped.                                                   *)
HeaderMapped == phase = "header" => LastStored <= Mapped
=============================================================================
