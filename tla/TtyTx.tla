------------------------------- MODULE TtyTx -------------------------------
(***************************************************************************)
(* The transmit path of the TTY driver (bsp/bsp_tty.c): a ring buffer in   *)
(* DTCM filled by write() in thread context and drained by a DMA stream    *)
(* that start_tx() programs.  start_tx runs in two contexts: called by     *)
(* write, and as the transfer complete callback of HAL_DMA_IRQHandler.     *)
(* The interrupt may preempt the thread between any two of its memory      *)
(* accesses while the NVIC line is enabled; the stream runs all the time.  *)
(*                                                                         *)
(* Addresses are offsets from _stty_int_dtcm: the ring is 0 .. Size-1 and  *)
(* _etty_int_dtcm is Size.  A byte is represented by its number in the     *)
(* order in which the client wrote it, so that the bytes that leave the    *)
(* UART can be compared with the bytes the client handed over.             *)
(***************************************************************************)
EXTENDS Integers, Sequences

CONSTANTS
  Size,      \* TTY_SIZE, the length of the ring
  MaxBytes,  \* bound: number of bytes all the write calls hand over together
  MaxWrite,  \* bound: longest buffer of one write call
  Polite     \* TRUE: the client calls write only when the transmitter is
             \* quiet and the ring has room; FALSE: whenever it likes

ASSUME SizeAssumption == Size \in Nat \ {0}
ASSUME BoundAssumption == MaxBytes \in Nat /\ MaxWrite \in Nat
ASSUME PoliteAssumption == Polite \in BOOLEAN

VARIABLES
  ring,     \* contents of the buffer
  rd, wr,   \* des->_tx_rd_ptr, des->_tx_wr_ptr
  written,  \* number of bytes the copy loop has stored so far
  left,     \* count of the write call in progress
  pc,       \* next statement of each context
  acc, cnt, \* the register holding a loaded pointer, the local count
  crv,      \* TCIE in the value of CR a read-modify-write has loaded
  masked,   \* NVIC line of the TX stream disabled
  tcif,     \* transfer complete flag of the stream
  tcie,     \* transfer complete interrupt enabled in the stream's CR
  en,       \* EN as the stream lives it: off, on, or stopping (EN written 0,
            \* still read as 1)
  ndtr,     \* the stream's NDTR register
  src,      \* the stream's memory address
  sent      \* bytes the stream has moved to the UART, oldest first

client == <<ring, wr, written, left, masked>>
stream == <<tcif, en, ndtr, src, sent>>
vars == <<ring, rd, wr, written, left, pc, acc, cnt, crv, masked, tcif,
          tcie, en, ndtr, src, sent>>

Ctx == {"thread", "isr"}
Ring == 0 .. Size - 1
NoByte == 0   \* what memory holds where the client wrote nothing

StartTxLabels == {"check", "loadcr", "clear", "spin", "load", "revert", "store",
                  "count", "advance", "store2", "wrap", "ndtr", "m0ar",
                  "loadcr2", "enable"}

(* bytes between the read and the write pointer *)
Backlog == IF rd <= wr THEN wr - rd ELSE wr - rd + Size

(***************************************************************************)
(* The state set_default_des and init_dma leave behind: an empty ring, the *)
(* line enabled in the NVIC, TCIE set in the stream.                       *)
(***************************************************************************)
Init ==
  /\ ring = [a \in Ring |-> NoByte]
  /\ rd = 0 /\ wr = 0
  /\ written = 0 /\ left = 0
  /\ pc = [c \in Ctx |-> "idle"]
  /\ acc = [c \in Ctx |-> 0] /\ cnt = [c \in Ctx |-> 0]
  /\ crv = [c \in Ctx |-> FALSE]
  /\ masked = FALSE
  /\ tcif = FALSE /\ tcie = TRUE
  /\ en = "off" /\ ndtr = 0 /\ src = 0
  /\ sent = <<>>

(***************************************************************************)
(* write()                                                                 *)
(***************************************************************************)

(* What a client that waits for the transmitter would wait for: no transfer, *)
(* no completion to be handled, and room for n bytes.                        *)
Quiet(n) ==
  /\ en = "off"
  /\ ndtr = 0
  /\ ~(tcif /\ tcie)
  /\ Backlog + n < Size

Goto(c, label) == pc' = [pc EXCEPT ![c] = label]

(* A context executes while no context of higher priority is active. *)
Runs(c) == c = "thread" => pc["isr"] = "idle"

(* Mutant: the copy loop forgets NVIC_DisableIRQ. *)
WriteCallUnmasked(n) ==
  /\ pc["thread"] = "idle" /\ Runs("thread")
  /\ written + n <= MaxBytes
  /\ Polite => Quiet(n)
  /\ left' = n
  /\ Goto("thread", "copy")
  /\ UNCHANGED <<ring, rd, wr, written, acc, cnt, crv, masked, tcie, stream>>

WriteCall(n) ==
  /\ pc["thread"] = "idle" /\ Runs("thread")
  /\ written + n <= MaxBytes
  /\ Polite => Quiet(n)
  /\ masked' = TRUE
  /\ left' = n
  /\ Goto("thread", "copy")
  /\ UNCHANGED <<ring, rd, wr, written, acc, cnt, crv, tcie, stream>>

(* Mutant: the wrap test lets the pointer reach _etty_int_dtcm. *)
AdvancedPastEnd(ptr) == IF ptr + 1 > Size THEN 0 ELSE ptr + 1

Advanced(ptr) == IF ptr + 1 >= Size THEN 0 ELSE ptr + 1

CopyByte ==
  /\ pc["thread"] = "copy" /\ Runs("thread")
  /\ left > 0
  /\ ring' = [ring EXCEPT ![wr] = written + 1]
  /\ wr' = Advanced(wr)
  /\ written' = written + 1
  /\ left' = left - 1
  /\ UNCHANGED <<rd, pc, acc, cnt, crv, masked, tcie, stream>>

CopyDone ==
  /\ pc["thread"] = "copy" /\ Runs("thread")
  /\ left = 0
  /\ masked' = FALSE
  /\ Goto("thread", "check")
  /\ UNCHANGED <<ring, rd, wr, written, left, acc, cnt, crv, tcie, stream>>

(***************************************************************************)
(* start_tx(), one step per access to state another context can change     *)
(***************************************************************************)
At(c, label) == pc[c] = label /\ Runs(c)

Check(c) ==
  /\ At(c, "check")
  /\ Goto(c, IF rd = wr THEN "idle" ELSE "loadcr")
  /\ UNCHANGED <<client, rd, acc, cnt, crv, tcie, stream>>

(* CLEAR_BIT(CR, EN) and SET_BIT(CR, EN) read CR, change the bit and write  *)
(* back every other bit, TCIE among them, as it was read.                   *)
LoadCr(c, from, to) ==
  /\ At(c, from)
  /\ crv' = [crv EXCEPT ![c] = tcie]
  /\ Goto(c, to)
  /\ UNCHANGED <<client, rd, acc, cnt, tcie, stream>>

ClearEn(c) ==
  /\ At(c, "clear")
  /\ en' = IF en = "on" THEN "stopping" ELSE en
  /\ tcie' = crv[c]
  /\ Goto(c, "spin")
  /\ UNCHANGED <<client, rd, acc, cnt, crv, tcif, ndtr, src, sent>>

(* Mutant: the wait tests for EN set instead of EN clear. *)
SpinInverted(c) ==
  /\ At(c, "spin")
  /\ en # "off"
  /\ Goto(c, "load")
  /\ UNCHANGED <<client, rd, acc, cnt, crv, tcie, stream>>

(* while (READ_BIT(CR, EN)); *)
Spin(c) ==
  /\ At(c, "spin")
  /\ en = "off"
  /\ Goto(c, "load")
  /\ UNCHANGED <<client, rd, acc, cnt, crv, tcie, stream>>

(* des->_tx_rd_ptr -= dma->NDTR: load, subtract, store *)
LoadRd(c) ==
  /\ At(c, "load")
  /\ acc' = [acc EXCEPT ![c] = rd]
  /\ Goto(c, "revert")
  /\ UNCHANGED <<client, rd, cnt, crv, tcie, stream>>

SubNdtr(c) ==
  /\ At(c, "revert")
  /\ acc' = [acc EXCEPT ![c] = acc[c] - ndtr]
  /\ Goto(c, "store")
  /\ UNCHANGED <<client, rd, cnt, crv, tcie, stream>>

StoreReverted(c) ==
  /\ At(c, "store")
  /\ rd' = acc[c]
  /\ Goto(c, "count")
  /\ UNCHANGED <<client, acc, cnt, crv, tcie, stream>>

BlockLength == IF rd < wr THEN wr - rd ELSE Size - rd

Count(c) ==
  /\ At(c, "count")
  /\ cnt' = [cnt EXCEPT ![c] = BlockLength]
  /\ Goto(c, "advance")
  /\ UNCHANGED <<client, rd, acc, crv, tcie, stream>>

(* des->_tx_rd_ptr += count: load and add, store *)
LoadAdvanced(c) ==
  /\ At(c, "advance")
  /\ acc' = [acc EXCEPT ![c] = rd + cnt[c]]
  /\ Goto(c, "store2")
  /\ UNCHANGED <<client, rd, cnt, crv, tcie, stream>>

StoreAdvanced(c) ==
  /\ At(c, "store2")
  /\ rd' = acc[c]
  /\ Goto(c, "wrap")
  /\ UNCHANGED <<client, acc, cnt, crv, tcie, stream>>

(* Mutant: the read pointer is not wrapped at the end of the ring. *)
WrapForgotten(c) ==
  /\ At(c, "wrap")
  /\ Goto(c, "ndtr")
  /\ UNCHANGED <<client, rd, acc, cnt, crv, tcie, stream>>

Wrap(c) ==
  /\ At(c, "wrap")
  /\ rd' = IF rd >= Size THEN 0 ELSE rd
  /\ Goto(c, "ndtr")
  /\ UNCHANGED <<client, acc, cnt, crv, tcie, stream>>

(* Mutant: EN is set together with NDTR, before M0AR is written. *)
SetNdtrAndEn(c) ==
  /\ At(c, "ndtr")
  /\ ndtr' = IF en = "off" THEN cnt[c] ELSE ndtr
  /\ en' = "on"
  /\ Goto(c, "m0ar")
  /\ UNCHANGED <<client, rd, acc, cnt, crv, tcie, tcif, src, sent>>

(* The stream ignores writes to NDTR and M0AR while EN is set. *)
SetNdtr(c) ==
  /\ At(c, "ndtr")
  /\ ndtr' = IF en = "off" THEN cnt[c] ELSE ndtr
  /\ Goto(c, "m0ar")
  /\ UNCHANGED <<client, rd, acc, cnt, crv, tcie, tcif, en, src, sent>>

SetM0ar(c) ==
  /\ At(c, "m0ar")
  /\ src' = IF en = "off" THEN rd ELSE src
  /\ Goto(c, "loadcr2")
  /\ UNCHANGED <<client, rd, acc, cnt, crv, tcie, tcif, en, ndtr, sent>>

SetEn(c) ==
  /\ At(c, "enable")
  /\ en' = "on"
  /\ tcie' = crv[c]
  /\ Goto(c, "idle")
  /\ UNCHANGED <<client, rd, acc, cnt, crv, tcif, ndtr, src, sent>>

StartTx(c) ==
  \/ Check(c)
  \/ LoadCr(c, "loadcr", "clear") \/ ClearEn(c) \/ Spin(c)
  \/ LoadRd(c) \/ SubNdtr(c) \/ StoreReverted(c)
  \/ Count(c)
  \/ LoadAdvanced(c) \/ StoreAdvanced(c) \/ Wrap(c)
  \/ SetNdtr(c) \/ SetM0ar(c)
  \/ LoadCr(c, "loadcr2", "enable") \/ SetEn(c)

(***************************************************************************)
(* HAL_DMA_IRQHandler, entered when the stream requests it and the NVIC    *)
(* line is enabled: acknowledge the flag, disable the transfer complete    *)
(* interrupt because the mode is not circular, call XferCpltCallback.  The *)
(* interrupt may be taken any number of thread steps after it is raised.   *)
(***************************************************************************)
IRQHandler ==
  /\ pc["isr"] = "idle"
  /\ ~masked /\ tcif /\ tcie
  /\ tcif' = FALSE
  /\ tcie' = FALSE
  /\ Goto("isr", "check")
  /\ UNCHANGED <<client, rd, acc, cnt, crv, en, ndtr, src, sent>>

(***************************************************************************)
(* The stream (external).  It moves one byte per UART request; at the last *)
(* one it clears EN and raises TCIF.  When EN is cleared by software the   *)
(* transfer under way may still complete, then EN reads 0 and TCIF is      *)
(* raised as well: HAL_DMA_Abort_IT relies on that interrupt.              *)
(***************************************************************************)
Mem(a) == IF a \in Ring THEN ring[a] ELSE NoByte

DmaByte ==
  /\ en = "on" /\ ndtr > 0
  /\ sent' = Append(sent, Mem(src))
  /\ src' = src + 1
  /\ ndtr' = ndtr - 1
  /\ en' = IF ndtr = 1 THEN "off" ELSE "on"
  /\ tcif' = (tcif \/ ndtr = 1)
  /\ UNCHANGED <<client, rd, pc, acc, cnt, crv, tcie>>

DmaStop ==
  /\ en = "stopping"
  /\ en' = "off"
  /\ tcif' = TRUE
  /\ \/ UNCHANGED <<sent, src, ndtr>>
     \/ /\ ndtr > 0
        /\ sent' = Append(sent, Mem(src))
        /\ src' = src + 1
        /\ ndtr' = ndtr - 1
  /\ UNCHANGED <<client, rd, pc, acc, cnt, crv, tcie>>

Write == \E n \in 1 .. MaxWrite : WriteCall(n)
Thread == CopyByte \/ CopyDone \/ StartTx("thread")
Isr == IRQHandler \/ StartTx("isr")
Dma == DmaByte \/ DmaStop

Next == Write \/ Thread \/ Isr \/ Dma

Spec == Init /\ [][Next]_vars

(* The processor executes, the UART shifts bytes out: each context and the *)
(* stream keep going while they can.  Nobody has to call write.            *)
Fairness == WF_vars(Thread) /\ WF_vars(Isr) /\ WF_vars(Dma)
FairSpec == Spec /\ Fairness

(***************************************************************************)
(* Properties                                                              *)
(***************************************************************************)

(* The types, and with them that every store of the copy loop hits the     *)
(* ring: the write pointer never leaves it (write, bsp_tty.c:395-399).     *)
TypeOK ==
  /\ ring \in [Ring -> 0 .. MaxBytes]
  /\ wr \in Ring /\ rd \in Int
  /\ written \in 0 .. MaxBytes /\ left \in 0 .. MaxBytes
  /\ written + left <= MaxBytes
  /\ pc \in [Ctx -> {"idle", "copy"} \cup StartTxLabels]
  /\ acc \in [Ctx -> Int] /\ cnt \in [Ctx -> Int] /\ crv \in [Ctx -> BOOLEAN]
  /\ masked \in BOOLEAN /\ tcif \in BOOLEAN /\ tcie \in BOOLEAN
  /\ en \in {"off", "on", "stopping"}
  /\ ndtr \in Int /\ src \in Int
  /\ sent \in Seq(0 .. MaxBytes)

(* The copy loop is a critical section against the completion interrupt:   *)
(* while write copies, start_tx does not run in interrupt context, so the  *)
(* write pointer start_tx compares with is never one in the middle of a    *)
(* buffer (write, NVIC_DisableIRQ .. NVIC_EnableIRQ).                      *)
CopyExclusive ==
  pc["thread"] = "copy" => pc["isr"] = "idle" /\ masked

(* With a client that waits for the transmitter, every byte handed over is *)
(* accounted for once nobody is inside the driver: it was transmitted, is  *)
(* in the programmed block, or lies between the pointers.                  *)
Accounted ==
  (Polite /\ \A c \in Ctx : pc[c] = "idle")
    => /\ rd \in Ring
       /\ Len(sent) + ndtr + Backlog = written

(* The same client never makes the two contexts meet inside start_tx: the  *)
(* stream is programmed by one of them at a time, and only while it is off.*)
NoMeeting ==
  Polite =>
    /\ pc["thread"] = "idle" \/ pc["isr"] = "idle"
    /\ \A c \in Ctx : pc[c] \in StartTxLabels => en = "off"

(* Whoever waits for EN to read 0 waits for a stream that gets there by    *)
(* itself: when the interrupt has started another block meanwhile, that    *)
(* block is not empty (start_tx, bsp_tty.c:419-435), whatever the client   *)
(* does and wherever the interrupt cut into the thread's start_tx.         *)
WaitEnds == \A c \in Ctx : At(c, "spin") /\ en = "on" => ndtr > 0

(* Every write call returns: the loop waiting for EN to read 0 ends.       *)
WriteReturns == (pc["thread"] # "idle") ~> (pc["thread"] = "idle")

(* What the comments of start_tx promise, and the code does not do.        *)

(* "only source address here" (bsp_tty.c:433): M0AR is where the block to  *)
(* send begins, so the bytes on the line are the bytes written, in order.  *)
SentInOrder == \A i \in 1 .. Len(sent) : sent[i] = i

(* "revert the read point to the next byte of the position that dma had    *)
(* just touched" (bsp_tty.c:421-423): that byte is a byte of the ring.     *)
RevertedInRing == \A c \in Ctx : pc[c] = "count" => rd \in Ring

(* "We assumed that all the data will be sent" (bsp_tty.c:421): data in    *)
(* the ring does not wait for another write call.                          *)
AllSent == (rd # wr) ~> (rd = wr)
=============================================================================
