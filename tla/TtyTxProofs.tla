---------------------------- MODULE TtyTxProofs ----------------------------
(***************************************************************************)
(* Proofs about the transmit path: the copy loop is exclusive whatever the *)
(* client does, and with a client that waits for the transmitter no byte   *)
(* is lost from the books, for every size of the ring.                     *)
(***************************************************************************)
EXTENDS TtyTx, TLAPS

USE SizeAssumption, BoundAssumption, PoliteAssumption

(* masked is exactly the critical section of write, and the interrupt was  *)
(* not active when it began.                                               *)
MaskInv ==
  /\ masked <=> pc["thread"] = "copy"
  /\ masked => pc["isr"] = "idle"
  /\ pc["isr"] # "copy"

(***************************************************************************)
(* The inductive invariant for the polite client: nobody meets anybody in  *)
(* the driver, and the byte count balances at every statement of start_tx. *)
(***************************************************************************)
AllIdle == \A c \in Ctx : pc[c] = "idle"

Balance(n) == Len(sent) + n + Backlog = written

(* what start_tx, or the copy loop, has established at each label *)
AtLabel(c) ==
  /\ pc[c] = "copy" =>
       rd \in Ring /\ ndtr = 0 /\ Balance(0) /\ Backlog + left < Size
  /\ pc[c] \in {"check", "loadcr", "clear", "spin", "load", "revert", "store",
                "count", "advance", "store2"} =>
       rd \in Ring /\ ndtr = 0 /\ Balance(0)
  /\ pc[c] \in StartTxLabels \ {"check", "wrap", "ndtr", "m0ar", "loadcr2",
                                "enable"} => rd # wr
  /\ pc[c] \in {"revert", "store"} => acc[c] = rd
  /\ pc[c] \in {"advance", "store2"} => cnt[c] = BlockLength
  /\ pc[c] = "store2" => acc[c] = rd + cnt[c]
  /\ pc[c] = "wrap" => rd \in 0 .. Size /\ ndtr = 0 /\ Balance(cnt[c]) /\ cnt[c] > 0
  /\ pc[c] = "ndtr" => rd \in Ring /\ ndtr = 0 /\ Balance(cnt[c]) /\ cnt[c] > 0
  /\ pc[c] \in {"m0ar", "loadcr2", "enable"} =>
       rd \in Ring /\ ndtr > 0 /\ Balance(ndtr)
  /\ pc[c] \in {"clear", "enable"} => crv[c] = tcie

PoliteInv ==
  /\ en # "stopping"
  /\ ndtr >= 0
  /\ pc["thread"] = "idle" \/ pc["isr"] = "idle"
  /\ ~AllIdle => en = "off" /\ ~(tcif /\ tcie)
  /\ AllIdle => rd \in Ring /\ Balance(ndtr)
  /\ AllIdle /\ en = "off" => ndtr = 0
  /\ tcif /\ tcie => en = "off"
  /\ en = "on" => ndtr > 0
  /\ \A c \in Ctx : AtLabel(c)

(***************************************************************************)
(* The inductive invariant for any client.  The interrupt clears TCIE, and *)
(* the thread writes it back only at clear and enable: so the interrupt    *)
(* cuts into the thread's arithmetic on the read pointer at most once, and *)
(* as long as TCIE is set nothing has cut into it yet.                     *)
(***************************************************************************)
BeforeWrap == {"check", "loadcr", "clear", "spin", "load", "revert", "store",
               "count", "advance", "store2"}
AfterWrap == {"ndtr", "m0ar", "loadcr2", "enable"}

(* what the thread relies on when no interrupt is active *)
ThreadInv ==
  /\ pc["isr"] = "idle" /\ pc["thread"] # "wrap" => rd < Size
  /\ pc["isr"] = "idle" /\ pc["thread"] = "wrap" /\ tcie => rd <= Size
  /\ pc["thread"] \in {"revert", "store"} => acc["thread"] < Size
  /\ pc["thread"] \in {"advance", "store2", "wrap", "ndtr"} => cnt["thread"] > 0
  /\ pc["thread"] = "advance" /\ tcie => rd + cnt["thread"] <= Size
  /\ pc["thread"] = "store2" /\ tcie => acc["thread"] <= Size

(* what start_tx relies on in interrupt context: only when it cuts in in   *)
(* front of the thread's wrap can it find the pointer at the end           *)
IsrInv ==
  /\ pc["isr"] # "idle" => ~tcie
  /\ pc["isr"] \in {"clear", "enable"} => ~crv["isr"]
  /\ pc["isr"] \in BeforeWrap =>
       rd <= Size /\ (pc["thread"] # "wrap" => rd < Size)
  /\ pc["isr"] \in {"revert", "store"} =>
       acc["isr"] <= Size /\ (pc["thread"] # "wrap" => acc["isr"] < Size)
  /\ pc["isr"] \in {"advance", "store2", "wrap", "ndtr"} =>
       cnt["isr"] >= 0 /\ (pc["thread"] # "wrap" => cnt["isr"] > 0)
  /\ pc["isr"] = "advance" => rd + cnt["isr"] <= Size
  /\ pc["isr"] = "store2" => acc["isr"] <= Size
  /\ pc["isr"] = "wrap" => rd <= Size
  /\ pc["isr"] \in AfterWrap => rd < Size

(* what the stream does while start_tx waits for it or programs it *)
WaitInv ==
  /\ ndtr >= 0
  /\ pc["isr"] = "spin" => en # "on"
  /\ pc["isr"] \in StartTxLabels \ {"check", "loadcr", "clear", "spin"} => en = "off"
  /\ pc["isr"] \in {"m0ar", "loadcr2", "enable"} /\ pc["thread"] = "spin" => ndtr > 0
  /\ pc["thread"] = "spin" /\ en = "on" => ndtr > 0

FreeInv == ThreadInv /\ IsrInv /\ WaitInv

IInv == TypeOK /\ MaskInv /\ FreeInv /\ (Polite => PoliteInv)

-----------------------------------------------------------------------------
(* The initial state satisfies every part of the invariant. *)
LEMMA InitIInv == Init => IInv
<1> SUFFICES ASSUME Init PROVE IInv
  OBVIOUS
<1>1. sent \in Seq(0 .. MaxBytes)
  BY DEF Init
<1>2. ring \in [Ring -> 0 .. MaxBytes] /\ wr \in Ring
  BY DEF Init, Ring, NoByte
<1>3. TypeOK
  <2>1. crv \in [Ctx -> BOOLEAN] /\ pc \in [Ctx -> {"idle", "copy"} \cup StartTxLabels]
    BY Zenon DEF Init
  <2>2. acc \in [Ctx -> Int] /\ cnt \in [Ctx -> Int]
    BY DEF Init
  <2>3. /\ rd \in Int /\ ndtr \in Int /\ src \in Int
        /\ written \in 0 .. MaxBytes /\ left \in 0 .. MaxBytes
        /\ written + left <= MaxBytes
    BY DEF Init
  <2>4. /\ masked \in BOOLEAN /\ tcif \in BOOLEAN /\ tcie \in BOOLEAN
        /\ en \in {"off", "on", "stopping"}
    BY DEF Init
  <2> QED
    BY <1>1, <1>2, <2>1, <2>2, <2>3, <2>4 DEF TypeOK
<1>4. MaskInv
  BY DEF Init, MaskInv, Ctx
<1>5. PoliteInv
  BY DEF Init, PoliteInv, AtLabel, AllIdle, Balance, Backlog, Ring, Ctx, StartTxLabels
<1>6. FreeInv
  BY DEF Init, FreeInv, ThreadInv, IsrInv, WaitInv, Ctx, BeforeWrap, AfterWrap,
         StartTxLabels
<1> QED
  BY <1>3, <1>4, <1>5, <1>6 DEF IInv

(* Every statement of start_tx keeps the types, in either context. *)
LEMMA StartTxType ==
  ASSUME TypeOK, NEW c \in Ctx, StartTx(c)
  PROVE  TypeOK'
<1> USE DEF TypeOK, Ctx, Goto, At, client, stream, StartTxLabels
<1>1. CASE Check(c) BY <1>1 DEF Check
<1>2. CASE LoadCr(c, "loadcr", "clear") \/ LoadCr(c, "loadcr2", "enable")
  BY <1>2 DEF LoadCr
<1>3. CASE ClearEn(c) BY <1>3 DEF ClearEn
<1>4. CASE Spin(c) BY <1>4 DEF Spin
<1>5. CASE LoadRd(c) BY <1>5 DEF LoadRd
<1>6. CASE SubNdtr(c) BY <1>6 DEF SubNdtr
<1>7. CASE StoreReverted(c) BY <1>7 DEF StoreReverted
<1>8. CASE Count(c) BY <1>8 DEF Count, BlockLength, Ring
<1>9. CASE LoadAdvanced(c) BY <1>9 DEF LoadAdvanced
<1>10. CASE StoreAdvanced(c) BY <1>10 DEF StoreAdvanced
<1>11. CASE Wrap(c) BY <1>11 DEF Wrap
<1>12. CASE SetNdtr(c) BY <1>12 DEF SetNdtr
<1>13. CASE SetM0ar(c) BY <1>13 DEF SetM0ar
<1>14. CASE SetEn(c) BY <1>14 DEF SetEn
<1> QED
  BY <1>1, <1>2, <1>3, <1>4, <1>5, <1>6, <1>7, <1>8, <1>9, <1>10, <1>11, <1>12, <1>13, <1>14 DEF StartTx

(* Every step keeps the types. *)
LEMMA TypeStep == TypeOK /\ [Next]_vars => TypeOK'
<1> SUFFICES ASSUME TypeOK, [Next]_vars PROVE TypeOK'
  OBVIOUS
<1>1. ASSUME NEW n \in 1 .. MaxWrite, WriteCall(n) PROVE TypeOK'
  BY <1>1 DEF TypeOK, WriteCall, Goto, stream, Ctx
<1>2. CASE CopyByte
  BY <1>2 DEF TypeOK, CopyByte, Advanced, Ring, stream
<1>3. CASE CopyDone
  BY <1>3 DEF TypeOK, CopyDone, Goto, stream, Ctx, StartTxLabels
<1>4. ASSUME NEW c \in Ctx, StartTx(c) PROVE TypeOK'
  BY <1>4, StartTxType
<1>5. CASE IRQHandler
  BY <1>5 DEF TypeOK, IRQHandler, Goto, client, Ctx, StartTxLabels
<1>6. Mem(src) \in 0 .. MaxBytes
  BY DEF Mem, TypeOK, NoByte
<1>7. CASE DmaByte
  BY <1>6, <1>7 DEF TypeOK, DmaByte, client
<1>8. CASE DmaStop
  <2>1. CASE UNCHANGED <<sent, src, ndtr>>
    BY <1>8, <2>1 DEF TypeOK, DmaStop, client
  <2>2. CASE sent' = Append(sent, Mem(src)) /\ src' = src + 1 /\ ndtr' = ndtr - 1
    BY <1>6, <1>8, <2>2 DEF TypeOK, DmaStop, client
  <2> QED
    BY <1>8, <2>1, <2>2 DEF DmaStop
<1>9. CASE UNCHANGED vars
  BY <1>9 DEF TypeOK, vars
<1> QED
  BY <1>1, <1>2, <1>3, <1>4, <1>5, <1>7, <1>8, <1>9
     DEF Next, Write, Thread, Isr, Dma, Ctx

(* The interrupt line is masked exactly while write copies: kept by every  *)
(* step, because only write touches the NVIC and only IRQHandler, which    *)
(* needs the line enabled, enters interrupt context.                       *)
LEMMA MaskStep == TypeOK /\ MaskInv /\ [Next]_vars => MaskInv'
<1> SUFFICES ASSUME TypeOK, MaskInv, [Next]_vars PROVE MaskInv'
  OBVIOUS
<1> USE DEF MaskInv
<1>1. ASSUME NEW n \in 1 .. MaxWrite, WriteCall(n) PROVE MaskInv'
  BY <1>1 DEF TypeOK, WriteCall, Goto, Runs, Ctx
<1>2. CASE CopyByte \/ CopyDone
  BY <1>2 DEF TypeOK, CopyByte, CopyDone, Goto, Runs, Ctx
<1>3. ASSUME NEW c \in Ctx, StartTx(c) PROVE MaskInv'
  BY <1>3 DEF TypeOK, StartTx, Check, LoadCr, ClearEn, Spin, LoadRd, SubNdtr,
     StoreReverted, Count, LoadAdvanced, StoreAdvanced, Wrap, SetNdtr, SetM0ar,
     SetEn, At, Goto, Runs, Ctx, client
<1>4. CASE IRQHandler \/ DmaByte \/ DmaStop
  BY <1>4 DEF TypeOK, IRQHandler, DmaByte, DmaStop, Goto, client, Ctx
<1>5. CASE UNCHANGED vars
  BY <1>5 DEF vars
<1> QED
  BY <1>1, <1>2, <1>3, <1>4, <1>5 DEF Next, Write, Thread, Isr, Dma, Ctx

(* The thread's statements of start_tx keep the invariant of any client. *)
LEMMA FreeThread ==
  ASSUME TypeOK, MaskInv, FreeInv, StartTx("thread")
  PROVE  FreeInv'
<1> USE DEF TypeOK, MaskInv, Ctx, Goto, At, Runs, client, stream, StartTxLabels,
            FreeInv, ThreadInv, IsrInv, WaitInv, BeforeWrap, AfterWrap
<1>1. CASE LoadCr("thread", "loadcr", "clear") \/ LoadCr("thread", "loadcr2", "enable")
  BY <1>1 DEF LoadCr
<1>2. CASE Check("thread") BY <1>2 DEF Check, Ring
<1>3. CASE ClearEn("thread") BY <1>3 DEF ClearEn
<1>4. CASE Spin("thread") BY <1>4 DEF Spin
<1>5. CASE LoadRd("thread") BY <1>5 DEF LoadRd
<1>6. CASE SubNdtr("thread") BY <1>6 DEF SubNdtr
<1>7. CASE StoreReverted("thread") BY <1>7 DEF StoreReverted
<1>8. CASE Count("thread") BY <1>8 DEF Count, BlockLength, Ring
<1>9. CASE LoadAdvanced("thread") BY <1>9 DEF LoadAdvanced
<1>10. CASE StoreAdvanced("thread") BY <1>10 DEF StoreAdvanced
<1>11. CASE Wrap("thread") BY <1>11 DEF Wrap
<1>12. CASE SetNdtr("thread") BY <1>12 DEF SetNdtr
<1>13. CASE SetM0ar("thread") BY <1>13 DEF SetM0ar
<1>14. CASE SetEn("thread") BY <1>14 DEF SetEn
<1> QED
  BY <1>1, <1>2, <1>3, <1>4, <1>5, <1>6, <1>7, <1>8, <1>9, <1>10, <1>11, <1>12, <1>13, <1>14 DEF StartTx

(* So do those of the interrupt. *)
LEMMA FreeIsr ==
  ASSUME TypeOK, MaskInv, FreeInv, StartTx("isr")
  PROVE  FreeInv'
<1> USE DEF TypeOK, MaskInv, Ctx, Goto, At, Runs, client, stream, StartTxLabels,
            FreeInv, ThreadInv, IsrInv, WaitInv, BeforeWrap, AfterWrap
<1>1. CASE LoadCr("isr", "loadcr", "clear") \/ LoadCr("isr", "loadcr2", "enable")
  BY <1>1 DEF LoadCr
<1>2. CASE Check("isr") BY <1>2 DEF Check, Ring
<1>3. CASE ClearEn("isr") BY <1>3 DEF ClearEn
<1>4. CASE Spin("isr") BY <1>4 DEF Spin
<1>5. CASE LoadRd("isr") BY <1>5 DEF LoadRd
<1>6. CASE SubNdtr("isr") BY <1>6 DEF SubNdtr
<1>7. CASE StoreReverted("isr") BY <1>7 DEF StoreReverted
<1>8. CASE Count("isr") BY <1>8 DEF Count, BlockLength, Ring
<1>9. CASE LoadAdvanced("isr") BY <1>9 DEF LoadAdvanced
<1>10. CASE StoreAdvanced("isr") BY <1>10 DEF StoreAdvanced
<1>11. CASE Wrap("isr") BY <1>11 DEF Wrap
<1>12. CASE SetNdtr("isr") BY <1>12 DEF SetNdtr
<1>13. CASE SetM0ar("isr") BY <1>13 DEF SetM0ar
<1>14. CASE SetEn("isr") BY <1>14 DEF SetEn
<1> QED
  BY <1>1, <1>2, <1>3, <1>4, <1>5, <1>6, <1>7, <1>8, <1>9, <1>10, <1>11, <1>12, <1>13, <1>14 DEF StartTx

(* Every step keeps the invariant of any client. *)
LEMMA FreeStep == TypeOK /\ MaskInv /\ FreeInv /\ [Next]_vars => FreeInv'
<1> SUFFICES ASSUME TypeOK, MaskInv, FreeInv, [Next]_vars PROVE FreeInv'
  OBVIOUS
<1> USE DEF TypeOK, MaskInv, Ctx, Goto, Runs, client, stream, StartTxLabels,
            FreeInv, ThreadInv, IsrInv, WaitInv, BeforeWrap, AfterWrap
<1>1. ASSUME NEW n \in 1 .. MaxWrite, WriteCall(n) PROVE FreeInv'
  BY <1>1 DEF WriteCall
<1>2. CASE CopyByte BY <1>2 DEF CopyByte
<1>3. CASE CopyDone BY <1>3 DEF CopyDone
<1>4. CASE IRQHandler BY <1>4 DEF IRQHandler
<1>5. CASE DmaByte BY <1>5 DEF DmaByte
<1>6. CASE DmaStop BY <1>6 DEF DmaStop
<1>7. CASE UNCHANGED vars BY <1>7 DEF vars
<1> QED
  BY <1>1, <1>2, <1>3, <1>4, <1>5, <1>6, <1>7, FreeThread, FreeIsr
     DEF Next, Write, Thread, Isr, Dma

(* With the polite client the count balances after every statement of      *)
(* start_tx.  The other context is idle, so only this one's label matters. *)
LEMMA StartTxPolite ==
  ASSUME TypeOK, TypeOK', MaskInv, PoliteInv, NEW c \in Ctx, StartTx(c)
  PROVE  PoliteInv'
<1> USE DEF TypeOK, Ctx, Goto, At, client, stream, StartTxLabels, PoliteInv,
            AtLabel, AllIdle, Balance, Backlog, BlockLength, Ring, MaskInv
<1> DEFINE d == IF c = "thread" THEN "isr" ELSE "thread"
<1>0. /\ Ctx = {c, d} /\ c # d
      /\ pc[c] # "idle" /\ pc[d] = "idle" /\ ~AllIdle
      /\ pc'[d] = "idle"
  BY DEF StartTx, Check, LoadCr, ClearEn, Spin, LoadRd, SubNdtr, StoreReverted,
         Count, LoadAdvanced, StoreAdvanced, Wrap, SetNdtr, SetM0ar, SetEn
<1>1. CASE Check(c)
  <2>1. CASE c = "thread" BY <1>1, <2>1 DEF Check
  <2>2. CASE c = "isr" BY <1>1, <2>2 DEF Check
  <2> QED BY <2>1, <2>2
<1>2. CASE LoadCr(c, "loadcr", "clear") \/ LoadCr(c, "loadcr2", "enable")
  <2>1. crv'[c] = tcie /\ tcie' = tcie
    BY <1>2 DEF LoadCr
  <2>2. AtLabel(c)'
    BY <1>0, <1>2, <2>1 DEF LoadCr
  <2>3. AtLabel(d)'
    BY <1>0
  <2> HIDE DEF AtLabel
  <2> QED
    BY <1>0, <1>2, <2>1, <2>2, <2>3 DEF LoadCr
<1>3. CASE ClearEn(c) BY <1>3 DEF ClearEn
<1>4. CASE Spin(c) BY <1>4 DEF Spin
<1>5. CASE LoadRd(c) BY <1>5 DEF LoadRd
<1>6. CASE SubNdtr(c)
  <2>1. CASE c = "thread" BY <1>6, <2>1 DEF SubNdtr
  <2>2. CASE c = "isr" BY <1>6, <2>2 DEF SubNdtr
  <2> QED BY <2>1, <2>2
<1>7. CASE StoreReverted(c) BY <1>7 DEF StoreReverted
<1>8. CASE Count(c) BY <1>8 DEF Count
<1>9. CASE LoadAdvanced(c) BY <1>9 DEF LoadAdvanced
<1>10. CASE StoreAdvanced(c)
  <2>1. pc[c] = "store2" /\ pc'[c] = "wrap" /\ rd' = rd + cnt[c]
    BY <1>10 DEF StoreAdvanced
  <2>4. cnt[c] = BlockLength /\ rd \in Ring /\ wr \in Ring /\ rd # wr /\ ndtr = 0
        /\ Balance(0)
    BY <2>1
  <2>5. /\ rd' \in 0 .. Size /\ cnt[c] > 0 /\ cnt[c] \in Int
        /\ Backlog' + cnt[c] = Backlog /\ Backlog \in Int
    BY <1>10, <2>1, <2>4 DEF StoreAdvanced
  <2>6. Balance(cnt[c])'
    <3>1. Len(sent) \in Nat /\ cnt' = cnt /\ sent' = sent /\ written' = written
      BY <1>10 DEF StoreAdvanced
    <3>2. Len(sent) + Backlog = written
      BY <2>4
    <3>3. Backlog' \in Int
      <4>1. rd' \in Int /\ wr' \in Int
        BY <1>10, <2>4, <2>5 DEF StoreAdvanced
      <4> HIDE DEF TypeOK, PoliteInv, AtLabel, MaskInv
      <4> QED
        BY <4>1
    <3> HIDE DEF TypeOK, PoliteInv, AtLabel, MaskInv, Backlog, BlockLength
    <3> QED
      BY <2>5, <3>1, <3>2, <3>3
  <2>2. AtLabel(c)'
    <3> HIDE DEF Balance, Backlog, BlockLength
    <3> QED BY <1>10, <2>1, <2>4, <2>5, <2>6 DEF StoreAdvanced
  <2>3. AtLabel(d)'
    BY <1>0
  <2> HIDE DEF AtLabel
  <2> QED
    BY <1>0, <1>10, <2>1, <2>2, <2>3 DEF StoreAdvanced
<1>11. CASE Wrap(c)
  <2>1. pc[c] = "wrap" /\ pc'[c] = "ndtr" /\ cnt' = cnt
    BY <1>11 DEF Wrap
  <2>4. rd \in 0 .. Size /\ wr \in Ring /\ ndtr = 0 /\ Balance(cnt[c]) /\ cnt[c] > 0
    BY <2>1
  <2>5. rd' \in Ring /\ Backlog' = Backlog
    BY <1>11, <2>4 DEF Wrap
  <2>6. Balance(cnt[c])'
    BY <1>11, <2>1, <2>4, <2>5 DEF Wrap
  <2>2. AtLabel(c)'
    <3> HIDE DEF Balance, Backlog, BlockLength
    <3> QED BY <1>11, <2>1, <2>4, <2>5, <2>6 DEF Wrap
  <2>3. AtLabel(d)'
    BY <1>0
  <2> HIDE DEF AtLabel
  <2> QED
    BY <1>0, <1>11, <2>1, <2>2, <2>3 DEF Wrap
<1>12. CASE SetNdtr(c) BY <1>12 DEF SetNdtr
<1>13. CASE SetM0ar(c) BY <1>13 DEF SetM0ar
<1>14. CASE SetEn(c) BY <1>14 DEF SetEn
<1> QED
  BY <1>1, <1>2, <1>3, <1>4, <1>5, <1>6, <1>7, <1>8, <1>9, <1>10, <1>11, <1>12, <1>13, <1>14 DEF StartTx

(* The polite client's invariant is kept by every step of a polite system. *)
LEMMA PoliteStep ==
  Polite /\ TypeOK /\ TypeOK' /\ MaskInv /\ PoliteInv /\ [Next]_vars => PoliteInv'
<1> SUFFICES ASSUME Polite, TypeOK, TypeOK', MaskInv, PoliteInv, [Next]_vars
             PROVE  PoliteInv'
  OBVIOUS
<1> USE DEF TypeOK, Ctx, Goto, client, stream, StartTxLabels, PoliteInv,
            AtLabel, AllIdle, Balance, Backlog, BlockLength, Ring, MaskInv, Runs
<1>1. ASSUME NEW n \in 1 .. MaxWrite, WriteCall(n) PROVE PoliteInv'
  BY <1>1 DEF WriteCall, Quiet
<1>2. CASE CopyByte
  <2>1. /\ rd \in Ring /\ wr' \in Ring
        /\ Backlog + 1 < Size
        /\ Backlog' = Backlog + 1
    BY <1>2 DEF CopyByte, Advanced
  <2>2. pc' = pc /\ pc["thread"] = "copy" /\ pc["isr"] = "idle" /\ left' = left - 1
    BY <1>2 DEF CopyByte
  <2>4. Balance(0)' /\ ndtr' = 0 /\ rd' \in Ring /\ Backlog' + left' < Size
    <3>1. /\ Len(sent) + Backlog = written /\ Backlog + left < Size
          /\ Len(sent) \in Nat /\ Backlog \in Int /\ left \in Int /\ written \in Int
          /\ ndtr = 0
      BY <1>2 DEF CopyByte
    <3>2. /\ rd' = rd /\ sent' = sent /\ written' = written + 1 /\ ndtr' = ndtr
          /\ left' = left - 1
      BY <1>2 DEF CopyByte
    <3> HIDE DEF TypeOK, PoliteInv, AtLabel, MaskInv, Backlog, BlockLength
    <3> QED
      BY <2>1, <3>1, <3>2
  <2>3. AtLabel("thread")' /\ AtLabel("isr")'
    <3> HIDE DEF Balance, Backlog, BlockLength
    <3> QED BY <2>2, <2>4
  <2> HIDE DEF AtLabel, Backlog
  <2> QED
    BY <1>2, <2>1, <2>2, <2>3 DEF CopyByte
<1>3. CASE CopyDone
  BY <1>3 DEF CopyDone
<1>4. ASSUME NEW c \in Ctx, StartTx(c) PROVE PoliteInv'
  BY <1>4, StartTxPolite
<1>5. CASE IRQHandler
  BY <1>5 DEF IRQHandler
<1>6. CASE DmaByte
  <2>1. AllIdle /\ pc' = pc /\ rd' = rd /\ wr' = wr /\ written' = written
    BY <1>6 DEF DmaByte
  <2>2. Len(sent') = Len(sent) + 1 /\ Len(sent) \in Nat
    BY <1>6 DEF DmaByte
  <2>3. tcif /\ tcie => FALSE
    BY <1>6 DEF DmaByte
  <2>4. \A c \in Ctx : AtLabel(c)'
    BY <2>1
  <2>5. AllIdle' /\ rd' \in Ring /\ Balance(ndtr)'
    BY <1>6, <2>1, <2>2 DEF DmaByte
  <2>6. tcif' /\ tcie' => en' = "off"
    BY <1>6, <2>3 DEF DmaByte
  <2> HIDE DEF AtLabel, Balance, Backlog, AllIdle
  <2> QED
    BY <1>6, <2>1, <2>4, <2>5, <2>6 DEF DmaByte
<1>7. CASE DmaStop
  BY <1>7 DEF DmaStop
<1>8. CASE UNCHANGED vars
  BY <1>8 DEF vars
<1> QED
  BY <1>1, <1>2, <1>3, <1>4, <1>5, <1>6, <1>7, <1>8
     DEF Next, Write, Thread, Isr, Dma

(* The inductive invariant holds in every reachable state. *)
THEOREM Inductive == Spec => []IInv
<1>1. IInv /\ [Next]_vars => IInv'
  BY TypeStep, MaskStep, FreeStep, PoliteStep DEF IInv
<1> QED
  BY InitIInv, <1>1, PTL DEF Spec

(* Type correctness: in particular the write pointer of the copy loop      *)
(* stays inside the ring for every ring size and every client.             *)
THEOREM TypeCorrect == Spec => []TypeOK
<1>1. IInv => TypeOK
  BY DEF IInv
<1> QED
  BY Inductive, <1>1, PTL

(* The copy loop of write is never interleaved with start_tx in interrupt  *)
(* context, whatever the client does.                                      *)
THEOREM CopyIsExclusive == Spec => []CopyExclusive
<1>1. IInv => CopyExclusive
  BY DEF IInv, MaskInv, CopyExclusive
<1> QED
  BY Inductive, <1>1, PTL

(* A client that waits for the transmitter never has its bytes miscounted: *)
(* transmitted, programmed and pending bytes add up to what it wrote.      *)
THEOREM PoliteAccounting == Spec => []Accounted
<1>1. IInv => Accounted
  BY DEF IInv, PoliteInv, Accounted, AllIdle, Balance
<1> QED
  BY Inductive, <1>1, PTL

(* The same client keeps the two contexts out of each other's start_tx and *)
(* the stream off while it is programmed.                                  *)
THEOREM PoliteNeverMeets == Spec => []NoMeeting
<1>1. IInv => NoMeeting
  BY DEF IInv, PoliteInv, NoMeeting, AllIdle, Ctx, StartTxLabels
<1> QED
  BY Inductive, <1>1, PTL

(* Whatever the client does, start_tx never waits for a stream that cannot *)
(* come to its end: the safety half of WriteReturns.                       *)
THEOREM WaitIsForRunningStream == Spec => []WaitEnds
<1>1. IInv => WaitEnds
  BY DEF IInv, FreeInv, WaitInv, WaitEnds, Ctx, At
<1> QED
  BY Inductive, <1>1, PTL
=============================================================================
