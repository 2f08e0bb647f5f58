----------------------------- MODULE LcdProofs -----------------------------
(***************************************************************************)
(* Proofs about the LCD driver, for every number of layers: the lock never *)
(* turns anybody away, the line interrupt stays armed after bsp_lcd_init,  *)
(* and State and ErrorCode agree.                                          *)
(***************************************************************************)
EXTENDS Lcd, TLAPS

USE LayersAssumption DEF LayersAssumption

(* where HAL_LTDC_ProgramLineEvent updates IER in thread context *)
Updating == {"load_disable", "store_disable", "load_enable", "store_enable"}

(* The thread holds the lock only inside the three locked HAL calls, and   *)
(* the handler has released it before the callback.                        *)
LockInv ==
  /\ lock => pc \in Updating \cup {"busy", "body", "ready", "unlock"}
  /\ isr \in {"draw", "arm", "clear"} => ~lock

(* which HAL call the thread is in *)
CallInv ==
  /\ pc \in Updating => call = "line"
  /\ pc = "body" => call # "line"
  /\ call = "layer" => layer < Layers

(* Interrupt and LTDC are on once their statements were passed. *)
OnInv ==
  /\ pc \notin {"start", "msp", "failed"} => nvic
  /\ state # "RESET" \/ isr # "idle" => nvic
  /\ pc \notin {"start", "msp", "failed", "init", "load_errors",
                "store_errors", "enable"} => ltdc

(* The last HAL call has enabled the line interrupt. *)
Programmed == pc = "done" \/ (call = "line" /\ pc \in {"ready", "unlock"})

(* Only while the callback draws is the line interrupt off. *)
ArmedInv == Programmed /\ isr \notin {"draw", "arm"} => "LI" \in ier

IInv == TypeOK /\ LockInv /\ CallInv /\ OnInv /\ ArmedInv /\ ErrorHasCode

-----------------------------------------------------------------------------
(* The zeroed handle satisfies the invariant. *)
LEMMA InitIInv == Init => IInv
<1> SUFFICES ASSUME Init PROVE IInv
  OBVIOUS
<1>1. TypeOK
  <2>1. pc \in Labels /\ layer \in 0 .. Layers
    BY DEF Init, Labels
  <2> QED
    BY <2>1 DEF Init, TypeOK
<1>2. LockInv /\ CallInv
  BY DEF Init, LockInv, CallInv, Updating
<1>3. OnInv /\ ArmedInv /\ ErrorHasCode
  BY DEF Init, OnInv, ArmedInv, Programmed, ErrorHasCode
<1> QED
  BY <1>1, <1>2, <1>3 DEF IInv

(* Every step of the thread, the handler and the LTDC preserves it. *)
LEMMA NextIInv == IInv /\ [Next]_vars => IInv'
<1> SUFFICES ASSUME IInv, [Next]_vars PROVE IInv'
  OBVIOUS
<1> USE DEF IInv, TypeOK, LockInv, CallInv, OnInv, ArmedInv, Programmed,
            ErrorHasCode, Labels, Interrupts, Errors, Updating,
            thread, handler, handle, registers, Step, WriteIer
<1>1. CASE init_bklt
  BY <1>1 DEF init_bklt
<1>2. CASE MspInit
  BY <1>2 DEF MspInit
<1>3. CASE InitBusy
  BY <1>3 DEF InitBusy
<1>4. CASE LoadErrors
  BY <1>4 DEF LoadErrors
<1>5. CASE StoreErrors
  BY <1>5 DEF StoreErrors
<1>6. CASE EnableLtdc
  BY <1>6 DEF EnableLtdc
<1>7. CASE InitCode
  BY <1>7 DEF InitCode
<1>8. CASE InitReady
  BY <1>8 DEF InitReady
<1>9. CASE TestLock
  BY <1>9 DEF TestLock
<1>10. CASE SetLock
  BY <1>10 DEF SetLock
<1>11. CASE SetBusy
  BY <1>11 DEF SetBusy
<1>12. CASE Body
  BY <1>12 DEF Body
<1>13. CASE LoadDisable
  BY <1>13 DEF LoadDisable
<1>14. CASE StoreDisable
  BY <1>14 DEF StoreDisable
<1>15. CASE LoadEnable
  BY <1>15 DEF LoadEnable
<1>16. CASE StoreEnable
  BY <1>16 DEF StoreEnable
<1>17. CASE SetReady
  BY <1>17 DEF SetReady
<1>18. CASE Unlock
  <2>1. /\ layer' \in 0 .. Layers /\ call' \in {"dither", "layer", "line"}
        /\ call' = "layer" => layer' < Layers
    BY <1>18 DEF Unlock
  <2>2. pc' \in {"test", "done"} /\ lock' = FALSE
    BY <1>18 DEF Unlock
  <2>3. TypeOK' /\ LockInv' /\ CallInv'
    BY <1>18, <2>1, <2>2 DEF Unlock
  <2>4. OnInv' /\ ArmedInv'
    BY <1>18, <2>2 DEF Unlock
  <2>5. ErrorHasCode'
    BY <1>18 DEF Unlock
  <2> QED
    BY <2>3, <2>4, <2>5
<1>19. CASE bsp_lcd_init
  BY <1>19 DEF bsp_lcd_init
<1>20. CASE Enter
  <2>1. TypeOK'
    BY <1>20 DEF Enter
  <2>2. LockInv' /\ CallInv'
    BY <1>20 DEF Enter
  <2>3. OnInv' /\ ArmedInv'
    BY <1>20 DEF Enter
  <2>4. ErrorHasCode'
    BY <1>20 DEF Enter
  <2> QED
    BY <2>1, <2>2, <2>3, <2>4
<1>21. CASE HandleLine
  BY <1>21 DEF HandleLine
<1>22. CASE Draw
  BY <1>22 DEF Draw
<1>23. CASE Arm
  BY <1>23 DEF Arm
<1>24. CASE Clear
  BY <1>24 DEF Clear
<1>25. CASE Return
  BY <1>25 DEF Return
<1>26. ASSUME NEW e \in Errors, HandleError(e) PROVE IInv'
  <2>1. TypeOK'
    BY <1>26 DEF HandleError
  <2>2. LockInv' /\ CallInv'
    BY <1>26 DEF HandleError
  <2>3. OnInv' /\ ArmedInv'
    BY <1>26 DEF HandleError
  <2>4. ErrorHasCode'
    BY <1>26 DEF HandleError
  <2> QED
    BY <2>1, <2>2, <2>3, <2>4
<1>27. ASSUME NEW e \in Interrupts, Raise(e) PROVE IInv'
  BY <1>27 DEF Raise
<1>28. CASE UNCHANGED vars
  BY <1>28 DEF vars
<1> HIDE DEF IInv
<1> QED
  BY <1>1, <1>2, <1>3, <1>4, <1>5, <1>6, <1>7, <1>8, <1>9, <1>10, <1>11,
     <1>12, <1>13, <1>14, <1>15, <1>16, <1>17, <1>18, <1>19, <1>20,
     <1>21, <1>22, <1>23, <1>24, <1>25, <1>26, <1>27, <1>28
  DEF Next, Setup, IRQHandler

(* The inductive invariant of the driver. *)
THEOREM Inductive == Spec => []IInv
BY InitIInv, NextIInv, PTL DEF Spec

(* Every variable keeps its type; init_layer stays within the layers. *)
THEOREM TypeCorrect == Spec => []TypeOK
<1>1. IInv => TypeOK
  BY DEF IInv
<1> QED
  BY <1>1, Inductive, PTL

(* Neither bsp_lcd_init nor the line event callback ever gets HAL_BUSY. *)
THEOREM LockIsFree == Spec => []NeverBusy
<1>1. IInv => NeverBusy
  BY DEF IInv, LockInv, NeverBusy, Updating
<1> QED
  BY <1>1, Inductive, PTL

(* The line interrupt stays armed once bsp_lcd_init has returned. *)
THEOREM StaysArmed == Spec => []LineArmed
<1>1. IInv => LineArmed
  BY DEF IInv, ArmedInv, Programmed, OnInv, LineArmed
<1> QED
  BY <1>1, Inductive, PTL

(* A handle in state ERROR says which error, but for one statement of      *)
(* HAL_LTDC_Init.                                                          *)
THEOREM ErrorsHaveCodes == Spec => []ErrorHasCode
<1>1. IInv => ErrorHasCode
  BY DEF IInv
<1> QED
  BY <1>1, Inductive, PTL
-----------------------------------------------------------------------------
(* What the handler still has to serve came from IER, and while it runs    *)
(* nobody else writes IER; between two runs nothing is left to serve.      *)
ServeInv ==
  /\ serve \cap Errors \subseteq ier
  /\ isr = "idle" => serve = {}

(* The thread stands still while the handler runs. *)
LEMMA SetupWaits ==
  ASSUME Setup \/ bsp_lcd_init
  PROVE  isr = "idle" /\ UNCHANGED <<isr, serve>>
  BY DEF Setup, bsp_lcd_init, Step, handler, handle, init_bklt, MspInit, InitBusy, LoadErrors,
     StoreErrors, EnableLtdc, InitCode, InitReady, TestLock, SetLock, SetBusy, Body,
     LoadDisable, StoreDisable, LoadEnable, StoreEnable, SetReady, Unlock

LEMMA ServeStep ==
  ASSUME ServeInv, [Next]_vars
  PROVE  ServeInv'
<1> USE DEF ServeInv, thread, handler, handle, registers
<1>1. CASE Setup \/ bsp_lcd_init
  BY <1>1, SetupWaits
<1>2. CASE Enter
  BY <1>2 DEF Enter
<1>3. CASE IRQHandler
  BY <1>3 DEF IRQHandler, HandleError, HandleLine, Draw, Arm, Clear, Return, WriteIer, Errors
<1>4. CASE \E e \in Interrupts : Raise(e)
  BY <1>4 DEF Raise
<1>5. CASE UNCHANGED vars
  BY <1>5 DEF vars
<1> QED
  BY <1>1, <1>2, <1>3, <1>4, <1>5 DEF Next

(* The safety half of KeepsDrawing, next to LineArmed: once bsp_lcd_init   *)
(* has returned no error interrupt is ever enabled again, and each one     *)
(* that HAL_LTDC_IRQHandler serves is disabled for good; so errors, however *)
(* often the LTDC meets them, come before a line event at most once each.  *)
THEOREM ErrorsRunOut ==
  Spec => [][pc = "done" /\ pc' = "done"
               => /\ ier' \cap Errors \subseteq ier \cap Errors
                  /\ \A e \in Errors : HandleError(e) => e \in ier /\ e \notin ier']_vars
<1>1. Init => ServeInv
  BY DEF Init, ServeInv
<1>2. ASSUME ServeInv, Next, pc = "done", pc' = "done"
      PROVE  /\ ier' \cap Errors \subseteq ier \cap Errors
             /\ \A e \in Errors : HandleError(e) => e \in ier /\ e \notin ier'
  <2>1. \A e \in Errors : HandleError(e) => e \in ier /\ e \notin ier'
    BY <1>2 DEF ServeInv, HandleError
  <2>2. CASE Setup \/ bsp_lcd_init
    BY <1>2, <2>2 DEF Setup, bsp_lcd_init, Step, init_bklt, MspInit, InitBusy, LoadErrors,
       StoreErrors, EnableLtdc, InitCode, InitReady, TestLock, SetLock, SetBusy, Body,
       LoadDisable, StoreDisable, LoadEnable, StoreEnable, SetReady, Unlock
  <2>3. CASE Enter \/ IRQHandler \/ \E e \in Interrupts : Raise(e)
    <3>1. CASE Enter \/ \E e \in Interrupts : Raise(e)
      BY <3>1, <2>1 DEF Enter, Raise
    <3>2. CASE \E e \in Errors : HandleError(e)
      BY <3>2, <2>1 DEF HandleError
    <3>3. CASE HandleLine \/ Draw \/ Clear \/ Return
      BY <3>3, <2>1 DEF HandleLine, Draw, Clear, Return, registers
    <3>4. CASE Arm
      BY <3>4, <2>1 DEF Arm, WriteIer, Errors
    <3> QED
      BY <2>3, <3>1, <3>2, <3>3, <3>4 DEF IRQHandler
  <2> QED
    BY <1>2, <2>1, <2>2, <2>3 DEF Next
<1> QED
  BY <1>1, <1>2, ServeStep, PTL DEF Spec
=============================================================================
