-------------------------------- MODULE Lcd --------------------------------
(***************************************************************************)
(* The LCD driver (bsp/bsp_lcd.c) and the part of the LTDC HAL it runs.    *)
(* bsp_lcd_init runs in thread context and leaves the line interrupt       *)
(* armed; from then on every line event runs a callback that fills the     *)
(* frame and arms the interrupt again.  LTDC_IRQHandler may preempt the    *)
(* thread between any two memory accesses once MspInit has enabled it, and *)
(* it shares the handle (Lock, State, ErrorCode) and the register IER with *)
(* the thread, which updates IER by reading and writing it back.           *)
(***************************************************************************)
EXTENDS Integers

CONSTANT Layers  \* des->layer_num

ASSUME LayersAssumption == Layers \in Nat \ {0}

VARIABLES
  pc, call, layer,   \* the thread: its statement, the HAL call it is in, i of
                     \* init_layer
  reg,               \* the value of IER the thread has loaded
  isr, serve,        \* the handler: where it is, isrflags & itsources
  lock, state, code, \* hltdc->Lock, State, ErrorCode
  ier, raised,       \* the registers IER and ISR
  nvic, pend,        \* the NVIC: interrupt enabled, interrupt latched
  ltdc               \* LTDCEN

thread == <<pc, call, layer, reg>>
handler == <<isr, serve>>
handle == <<lock, state, code>>
registers == <<ier, raised, pend, ltdc>>
vars == <<thread, handler, handle, registers, nvic>>

Errors == {"TE", "FU"}
Interrupts == Errors \cup {"LI"}

(* the zeroed descriptor of set_default_des, and the peripheral after reset *)
Init ==
  /\ pc = "start" /\ call = "dither" /\ layer = 0 /\ reg = {}
  /\ isr = "idle" /\ serve = {}
  /\ lock = FALSE /\ state = "RESET" /\ code = {}
  /\ ier = {} /\ raised = {} /\ pend = FALSE /\ ltdc = FALSE
  /\ nvic = FALSE

(***************************************************************************)
(* bsp_lcd_init in thread context                                          *)
(***************************************************************************)

(* The thread runs while no handler does. *)
Step(from, to) == isr = "idle" /\ pc = from /\ pc' = to

(* a write to IER: the request line rises if a flag is already up *)
WriteIer(new) == ier' = new /\ pend' = (pend \/ raised \cap new # {})

(* init_bklt; one of the timer calls may fail *)
init_bklt ==
  /\ Step("start", "msp") \/ Step("start", "failed")
  /\ call' = "dither"
  /\ UNCHANGED <<layer, reg, handler, handle, registers, nvic>>

(* HAL_LTDC_Init: MspInit only for a handle in state RESET *)
MspInit ==
  /\ Step("msp", "init")
  /\ IF state = "RESET" THEN lock' = FALSE /\ nvic' = TRUE
                        ELSE UNCHANGED <<lock, nvic>>
  /\ UNCHANGED <<call, layer, reg, handler, state, code, registers>>

InitBusy ==
  /\ Step("init", "load_errors")
  /\ state' = "BUSY"
  /\ UNCHANGED <<call, layer, reg, handler, lock, code, registers, nvic>>

LoadErrors ==
  /\ Step("load_errors", "store_errors")
  /\ reg' = ier
  /\ UNCHANGED <<call, layer, handler, handle, registers, nvic>>

StoreErrors ==
  /\ Step("store_errors", "enable")
  /\ WriteIer(reg \cup Errors)
  /\ UNCHANGED <<call, layer, reg, handler, handle, raised, ltdc, nvic>>

EnableLtdc ==
  /\ Step("enable", "code")
  /\ ltdc' = TRUE
  /\ UNCHANGED <<call, layer, reg, handler, handle, ier, raised, pend, nvic>>

(* Mutant: the state is not initialised after the error code. *)
InitCodeOnly ==
  /\ Step("code", "test")
  /\ code' = {}
  /\ UNCHANGED <<call, layer, reg, handler, lock, state, registers, nvic>>

InitCode ==
  /\ Step("code", "init_ready")
  /\ code' = {}
  /\ UNCHANGED <<call, layer, reg, handler, lock, state, registers, nvic>>

InitReady ==
  /\ Step("init_ready", "test")
  /\ state' = "READY"
  /\ UNCHANGED <<call, layer, reg, handler, lock, code, registers, nvic>>

(* __HAL_LOCK at the start of HAL_LTDC_DisableDither, ConfigLayer and      *)
(* ProgramLineEvent: a test, then a store; HAL_BUSY ends bsp_lcd_init.     *)
TestLock ==
  /\ Step("test", IF lock THEN "failed" ELSE "lock")
  /\ UNCHANGED <<call, layer, reg, handler, handle, registers, nvic>>

SetLock ==
  /\ Step("lock", "busy")
  /\ lock' = TRUE
  /\ UNCHANGED <<call, layer, reg, handler, state, code, registers, nvic>>

SetBusy ==
  /\ Step("busy", IF call = "line" THEN "load_disable" ELSE "body")
  /\ state' = "BUSY"
  /\ UNCHANGED <<call, layer, reg, handler, lock, code, registers, nvic>>

(* the dither bit and the layer registers, which only the thread touches *)
Body ==
  /\ Step("body", "ready")
  /\ UNCHANGED <<call, layer, reg, handler, handle, registers, nvic>>

(* HAL_LTDC_ProgramLineEvent: IER &= ~LI, LIPCR, IER |= LI *)
LoadDisable ==
  /\ Step("load_disable", "store_disable")
  /\ reg' = ier
  /\ UNCHANGED <<call, layer, handler, handle, registers, nvic>>

StoreDisable ==
  /\ Step("store_disable", "load_enable")
  /\ WriteIer(reg \ {"LI"})
  /\ UNCHANGED <<call, layer, reg, handler, handle, raised, ltdc, nvic>>

LoadEnable ==
  /\ Step("load_enable", "store_enable")
  /\ reg' = ier
  /\ UNCHANGED <<call, layer, handler, handle, registers, nvic>>

(* Mutant: the line interrupt is not enabled again. *)
StoreEnableOld ==
  /\ Step("store_enable", "ready")
  /\ WriteIer(reg)
  /\ UNCHANGED <<call, layer, reg, handler, handle, raised, ltdc, nvic>>

StoreEnable ==
  /\ Step("store_enable", "ready")
  /\ WriteIer(reg \cup {"LI"})
  /\ UNCHANGED <<call, layer, reg, handler, handle, raised, ltdc, nvic>>

SetReady ==
  /\ Step("ready", "unlock")
  /\ state' = "READY"
  /\ UNCHANGED <<call, layer, reg, handler, lock, code, registers, nvic>>

(* Mutant: init_layer configures one layer too many. *)
UnlockOneMore ==
  /\ Step("unlock", IF call = "line" THEN "done" ELSE "test")
  /\ lock' = FALSE
  /\ \/ call = "dither" /\ call' = "layer" /\ layer' = 0
     \/ call = "layer" /\ layer' = layer + 1
        /\ call' = IF layer < Layers THEN "layer" ELSE "line"
     \/ call = "line" /\ UNCHANGED <<call, layer>>
  /\ UNCHANGED <<reg, handler, state, code, registers, nvic>>

(* __HAL_UNLOCK, and what bsp_lcd_init does next: DisableDither, then      *)
(* ConfigLayer for every layer, then ProgramLineEvent                      *)
Unlock ==
  /\ Step("unlock", IF call = "line" THEN "done" ELSE "test")
  /\ lock' = FALSE
  /\ \/ call = "dither" /\ call' = "layer" /\ layer' = 0
     \/ call = "layer" /\ layer' = layer + 1
        /\ call' = IF layer + 1 < Layers THEN "layer" ELSE "line"
     \/ call = "line" /\ UNCHANGED <<call, layer>>
  /\ UNCHANGED <<reg, handler, state, code, registers, nvic>>

(* prepare_all keeps the descriptor and makes the module COMING, so that a *)
(* second setup_all runs bsp_lcd_init again on the same handle             *)
bsp_lcd_init ==
  /\ Step("done", "start") \/ Step("failed", "start")
  /\ UNCHANGED <<call, layer, reg, handler, handle, registers, nvic>>

(***************************************************************************)
(* LTDC_IRQHandler, which runs HAL_LTDC_IRQHandler                         *)
(***************************************************************************)

(* the handler starts and reads ISR and IER *)
Enter ==
  /\ isr = "idle" /\ nvic
  /\ pend \/ raised \cap ier # {}
  /\ isr' = "serve"
  /\ serve' = raised \cap ier
  /\ pend' = FALSE
  /\ UNCHANGED <<thread, handle, ier, raised, ltdc, nvic>>

(* transfer error, then FIFO underrun: the callback is empty *)
HandleError(e) ==
  /\ isr = "serve" /\ e \in serve
  /\ e = "FU" => "TE" \notin serve
  /\ serve' = serve \ {e}
  /\ ier' = ier \ {e} /\ raised' = raised \ {e}
  /\ code' = code \cup {e} /\ state' = "ERROR" /\ lock' = FALSE
  /\ UNCHANGED <<thread, isr, pend, ltdc, nvic>>

HandleLine ==
  /\ isr = "serve" /\ serve = {"LI"}
  /\ isr' = "draw" /\ serve' = {}
  /\ ier' = ier \ {"LI"} /\ raised' = raised \ {"LI"}
  /\ state' = "READY" /\ lock' = FALSE
  /\ UNCHANGED <<thread, code, pend, ltdc, nvic>>

(* HAL_LTDC_LineEventCallback: brightness and a new frame ... *)
Draw ==
  /\ isr = "draw" /\ isr' = "arm"
  /\ UNCHANGED <<thread, serve, handle, registers, nvic>>

(* Mutant: the callback does not program the next line event. *)
ArmForgotten ==
  /\ isr = "arm" /\ isr' = "clear"
  /\ UNCHANGED <<thread, serve, handle, registers, nvic>>

(* Mutant: the line event is programmed without __HAL_UNLOCK. *)
ArmKeepsLock ==
  /\ isr = "arm" /\ isr' = "clear"
  /\ IF lock THEN UNCHANGED <<lock, state, ier, pend>>
     ELSE /\ lock' = TRUE /\ state' = "READY"
          /\ WriteIer(ier \cup {"LI"})
  /\ UNCHANGED <<thread, serve, code, raised, ltdc, nvic>>

(* ... HAL_LTDC_ProgramLineEvent, whose HAL_BUSY nobody looks at ... *)
Arm ==
  /\ isr = "arm" /\ isr' = "clear"
  /\ IF lock THEN UNCHANGED <<state, ier, pend>>
     ELSE state' = "READY" /\ WriteIer(ier \cup {"LI"})
  /\ UNCHANGED <<thread, serve, lock, code, raised, ltdc, nvic>>

(* ... and the flag of an event that came meanwhile is cleared *)
Clear ==
  /\ isr = "clear" /\ isr' = "serve"
  /\ raised' = raised \ {"LI"}
  /\ UNCHANGED <<thread, serve, handle, ier, pend, ltdc, nvic>>

Return ==
  /\ isr = "serve" /\ serve = {}
  /\ isr' = "idle"
  /\ UNCHANGED <<thread, serve, handle, registers, nvic>>

(***************************************************************************)
(* The LTDC raises flags while it is enabled; the NVIC latches a request.  *)
(***************************************************************************)
Raise(e) ==
  /\ ltdc
  /\ raised' = raised \cup {e}
  /\ pend' = (pend \/ (e \in ier /\ e \notin raised))
  /\ UNCHANGED <<thread, handler, handle, ier, ltdc, nvic>>

Setup ==
  \/ init_bklt \/ MspInit \/ InitBusy \/ LoadErrors \/ StoreErrors
  \/ EnableLtdc \/ InitCode \/ InitReady
  \/ TestLock \/ SetLock \/ SetBusy \/ Body
  \/ LoadDisable \/ StoreDisable \/ LoadEnable \/ StoreEnable
  \/ SetReady \/ Unlock

IRQHandler ==
  \/ \E e \in Errors : HandleError(e)
  \/ HandleLine \/ Draw \/ Arm \/ Clear \/ Return

Next ==
  \/ Setup \/ bsp_lcd_init
  \/ Enter \/ IRQHandler
  \/ \E e \in Interrupts : Raise(e)

Spec == Init /\ [][Next]_vars

(* The thread and the handler are running code, and a running LTDC reaches *)
(* the programmed line in every frame.  The core takes a pending interrupt *)
(* within a few instructions, so a line request that comes up again and    *)
(* again is not each time left waiting until the thread has masked it.     *)
(* Nobody has to call bsp_lcd_init twice, and errors need not happen.      *)
Fairness ==
  /\ WF_vars(Setup) /\ WF_vars(IRQHandler) /\ WF_vars(Enter)
  /\ WF_vars(Raise("LI"))
  /\ SF_vars(Enter /\ "LI" \in raised \cap ier)
FairSpec == Spec /\ Fairness

(***************************************************************************)
(* Properties                                                              *)
(***************************************************************************)

Labels == {"start", "msp", "init", "load_errors", "store_errors", "enable",
           "code", "init_ready", "test", "lock", "busy", "body",
           "load_disable", "store_disable", "load_enable", "store_enable",
           "ready", "unlock", "done", "failed"}

(* The types of the variables; init_layer stays within its layers. *)
TypeOK ==
  /\ pc \in Labels /\ call \in {"dither", "layer", "line"}
  /\ layer \in 0 .. Layers /\ reg \subseteq Interrupts
  /\ isr \in {"idle", "serve", "draw", "arm", "clear"}
  /\ serve \subseteq Interrupts
  /\ lock \in BOOLEAN /\ state \in {"RESET", "BUSY", "READY", "ERROR"}
  /\ code \subseteq Errors
  /\ ier \subseteq Interrupts /\ raised \subseteq Interrupts
  /\ pend \in BOOLEAN /\ ltdc \in BOOLEAN /\ nvic \in BOOLEAN

(* The lock of the handle never gets in the way: wherever the interrupt    *)
(* strikes, neither bsp_lcd_init nor the callback is turned away with      *)
(* HAL_BUSY, which would leave the display without line events.            *)
NeverBusy == (pc = "test" \/ isr = "arm") => ~lock

(* Once bsp_lcd_init has returned, the line interrupt is enabled whenever  *)
(* the handler is not running, although both contexts read, modify and     *)
(* write IER and each error interrupt clears its own bit of it.            *)
LineArmed == pc = "done" /\ isr = "idle" => "LI" \in ier /\ nvic /\ ltdc

(* State and ErrorCode agree: except right before the last store of        *)
(* HAL_LTDC_Init a handle in state ERROR has an error code, although the   *)
(* thread clears the code and overwrites the state between interrupts.     *)
ErrorHasCode == state = "ERROR" /\ pc # "init_ready" => code # {}

(* After bsp_lcd_init a new frame is always drawn again, in spite of the   *)
(* events that are lost between arming and clearing the flag.              *)
KeepsDrawing == pc = "done" ~> isr = "draw"
=============================================================================
