-------------------------------- MODULE Boot --------------------------------
(***************************************************************************)
(* From reset to the loop of main: Reset_Handler, bsp_init and main, over  *)
(* the time base (HalTick) and the module list (BspModule).                *)
(*                                                                         *)
(* The linker script puts some objects into DTCM, which Reset_Handler      *)
(* loads, and the rest with the heap into the external SDRAM, which is     *)
(* dead until bsp_sdram_init has run its protocol, is overwritten by the   *)
(* memory test and is loaded by bsp_earlyinit_crt0.  SysTick interrupts    *)
(* from HAL_Init on.  A reset may come at any time: the registers return   *)
(* to their reset values, the memories keep what was in them.              *)
(***************************************************************************)
EXTENDS Integers, FiniteSets

CONSTANTS
  Range, Freqs, DefaultFreq, Clocks, HSI, ReloadMax, Delays, Lag, MaxElapsed,
  Modules, Nil, tty, lcd,
  PLL,               \* the clock bsp_earlyinit_clk selects
  MainDelay,         \* HAL_Delay's argument in main
  HeapLow,           \* _sheap_ext_sdram
  HeapHighs,         \* values of _eheap_ext_sdram
  Need,              \* bytes of stdout's buffer and of the two descriptors
  MaxResets          \* bound on the resets after power-up

ASSUME BootAssumption ==
  /\ Modules = {tty, lcd} /\ tty # lcd /\ {Nil, "stdout"} \cap Modules = {}
  /\ PLL \in Clocks /\ {1, MainDelay} \subseteq Delays
  /\ DefaultFreq + 1 < Range
  /\ HeapLow \in Nat \ {0} /\ HeapHighs \subseteq Nat
  /\ Need \in [Modules \cup {"stdout"} -> Nat]

VARIABLES
  step,                        \* the next statement of the thread
  mem,                         \* what the two memories hold
  dcache, dirty, lost,         \* data cache on; written but not in memory; never got there
  fmcclk, hsd, fmc_initialized,\* FMC clock and pins, hsdram1.State, the flag of MspInit
  chip,                        \* the SDRAM's own progress
  heap_high, heap_current, blocks,
  resets,
  \* of HalTick
  uwTick, uwTickFreq, clock, period, tickint, hal, tickstart, wait, want, elapsed, unpolled,
  \* of BspModule
  head, tail, next, state, des, armed, op, cur, fresh

T == INSTANCE HalTick WITH pc <- hal
M == INSTANCE BspModule WITH
       HasPrepare <- Modules, HasSetup <- Modules, HasDesetup <- {},
       Retries <- FALSE, Disciplined <- TRUE

(* The assumptions on the constants of the time base *)
ASSUME TickAssumption == T!TickAssumption

memory == <<mem, dcache, dirty, lost>>
fmc == <<fmcclk, hsd, fmc_initialized, chip>>
heap == <<heap_high, heap_current, blocks>>
time == <<uwTick, uwTickFreq, clock, period, tickint, hal, tickstart, wait, want, elapsed, unpolled>>
mods == <<head, tail, next, state, des, armed, op, cur, fresh>>
vars == <<step, memory, fmc, heap, time, mods, resets>>

NULL == 0
HsdStates == {"RESET", "BUSY", "READY", "PRECHARGED"}

(***************************************************************************)
(* The linker script: objects with data, and what each step touches        *)
(***************************************************************************)

(* Mutant: bsp_module.o is not among the objects of the DTCM sections. *)
PlaceListOutside(o) ==
  IF o \in {"cmsis", "hal", "debug", "sdram", "libc", "syscall"} THEN "dtcm" ELSE "sdram"

Place(o) ==
  IF o \in {"cmsis", "hal", "debug", "sdram", "list", "libc", "syscall"} THEN "dtcm" ELSE "sdram"

Uses ==
  [ HAL_Init |-> {"cmsis", "hal"}, clk |-> {"cmsis", "hal"},
    debug |-> {"cmsis", "debug"}, module_init |-> {"list"},
    sd_init |-> {"sdram"}, sd_clk |-> {"sdram"}, sd_delay |-> {"hal"}, sd_wait |-> {"hal"},
    sd_pall |-> {"sdram"}, sd_refresh |-> {"sdram"}, sd_mode |-> {"sdram"}, sd_rate |-> {"sdram"},
    print |-> {"libc", "syscall", "heap", "led"},
    print2 |-> {"libc", "syscall", "heap", "led"},
    append_tty |-> {"list", "tty"}, append_lcd |-> {"list", "lcd"},
    prepare |-> {"list", "tty", "lcd", "heap", "libc", "syscall", "led"},
    setup |-> {"list", "tty", "lcd", "heap", "libc", "syscall"},
    assert_clk |-> {"libc", "syscall"},
    main |-> {"libc", "syscall", "heap", "led"}, main_delay |-> {"hal"}, main_wait |-> {"hal"} ]

(***************************************************************************)
(* Power-up and reset                                                      *)
(***************************************************************************)

(* The DTCM comes up with any content. *)
Init ==
  /\ step = "Reset_Handler"
  /\ mem = [dtcm |-> "junk", sdram |-> "dead"]
  /\ dcache = FALSE /\ dirty = {} /\ lost = {}
  /\ fmcclk = FALSE /\ hsd \in HsdStates /\ fmc_initialized \in BOOLEAN /\ chip = "off"
  /\ heap_high \in HeapHighs /\ heap_current \in {NULL, HeapLow + 1}
  /\ blocks = [o \in {} |-> <<0, 0>>]
  /\ uwTick \in {0, Range - 1} /\ uwTickFreq = DefaultFreq
  /\ clock = HSI /\ period = 0 /\ tickint = FALSE /\ hal = "reset"
  /\ tickstart = 0 /\ wait = 0 /\ want = 0 /\ elapsed = 0 /\ unpolled = 0
  /\ head \in Modules \cup {Nil} /\ tail \in Modules \cup {Nil}
  /\ next = [m \in Modules |-> Nil] /\ state = [m \in Modules |-> "COMING"]
  /\ des = [m \in Modules |-> FALSE] /\ armed = [m \in Modules |-> FALSE]
  /\ op = "none" /\ cur = Nil /\ fresh = FALSE
  /\ resets = 0

(* Registers return to their reset values; variables keep theirs. *)
Reset ==
  /\ resets < MaxResets
  /\ resets' = resets + 1
  /\ step' = "Reset_Handler"
  /\ mem' = [dtcm |-> "junk", sdram |-> "dead"]
  /\ dcache' = FALSE /\ dirty' = {} /\ lost' = {}
  /\ fmcclk' = FALSE
  /\ clock' = HSI /\ period' = 0 /\ tickint' = FALSE /\ hal' = "reset"
  /\ tickstart' = 0 /\ wait' = 0 /\ want' = 0 /\ elapsed' = 0 /\ unpolled' = 0
  /\ armed' = [m \in Modules |-> FALSE] /\ op' = "none" /\ cur' = Nil /\ fresh' = FALSE
  /\ blocks' = [o \in {} |-> <<0, 0>>]
  /\ UNCHANGED <<hsd, fmc_initialized, chip, heap_high, heap_current, uwTick, uwTickFreq,
                 head, tail, next, state, des>>

At(s) == step = s
Goto(s) == step' = s /\ UNCHANGED resets

(* .data and .bss of the DTCM objects, before any C code runs *)
Reset_Handler ==
  /\ At("Reset_Handler") /\ Goto("mpu")
  /\ mem' = [mem EXCEPT !["dtcm"] = "loaded"]
  /\ hsd' = "RESET" /\ fmc_initialized' = FALSE
  /\ heap_current' = NULL
  /\ uwTick' = 0 /\ uwTickFreq' = DefaultFreq
  /\ head' = Nil /\ tail' = Nil
  /\ UNCHANGED <<dcache, dirty, lost, fmcclk, chip, heap_high, blocks, clock, period, tickint,
                 hal, tickstart, wait, want, elapsed, unpolled, next, state, des, armed, op, cur, fresh>>

(***************************************************************************)
(* bsp_init up to the SDRAM                                                *)
(***************************************************************************)
bsp_earlyinit_mpu ==
  /\ At("mpu") /\ Goto("cache")
  /\ UNCHANGED <<memory, fmc, heap, time, mods>>

bsp_earlyinit_cache ==
  /\ At("cache") /\ Goto("HAL_Init")
  /\ dcache' = TRUE
  /\ UNCHANGED <<mem, dirty, lost, fmc, heap, time, mods>>

HAL_Init ==
  /\ At("HAL_Init") /\ Goto("clk")
  /\ T!HAL_Init
  /\ UNCHANGED <<memory, fmc, heap, mods>>

(* Every result is asserted to be HAL_OK: the oscillator, the switch of    *)
(* the system clock, the peripheral clocks.                                *)
bsp_earlyinit_clk ==
  /\ At("clk")
  /\ \/ /\ T!HAL_RCC_ClockConfig(PLL)
        /\ hal' = "idle"
        /\ Goto("misc")
     \/ T!HAL_RCC_ClockConfig(PLL) /\ Goto("assert_clk")
     \/ UNCHANGED time /\ Goto("assert_clk")
  /\ UNCHANGED <<memory, fmc, heap, mods>>

bsp_earlyinit_misc ==
  /\ At("misc") /\ Goto("debug")
  /\ UNCHANGED <<memory, fmc, heap, time, mods>>

bsp_debug_init ==
  /\ At("debug") /\ Goto("module_init")
  /\ UNCHANGED <<memory, fmc, heap, time, mods>>

bsp_module_init ==
  /\ At("module_init") /\ Goto("sd_init")
  /\ head' = Nil /\ tail' = Nil
  /\ UNCHANGED <<next, state, des, armed, op, cur, fresh>>
  /\ UNCHANGED <<memory, fmc, heap, time>>

(***************************************************************************)
(* bsp_sdram_init                                                          *)
(***************************************************************************)

(* The clock of the controller and its pins, once *)
HAL_SDRAM_MspInit ==
  IF fmc_initialized THEN UNCHANGED <<fmc_initialized, fmcclk>>
  ELSE fmc_initialized' = TRUE /\ fmcclk' = TRUE

HAL_SDRAM_Init ==
  /\ At("sd_init") /\ Goto("sd_clk")
  /\ IF hsd = "RESET" THEN HAL_SDRAM_MspInit
     ELSE UNCHANGED <<fmc_initialized, fmcclk>>
  /\ hsd' = "READY"
  /\ UNCHANGED chip
  /\ UNCHANGED <<memory, heap, time, mods>>

(* The memory's data sheet: clock, a pause, precharge all, refresh cycles, *)
(* mode register.  A command out of order leaves it unusable.              *)
Chip(cmd) ==
  CASE ~fmcclk -> "bad"
    [] cmd = "CLK_ENABLE" -> "clocked"
    [] cmd = "PALL" /\ chip = "paused" -> "precharged"
    [] cmd = "AUTOREFRESH" /\ chip = "precharged" -> "refreshed"
    [] cmd = "LOAD_MODE" /\ chip = "refreshed" -> "moded"
    [] cmd = "RATE" /\ chip = "moded" -> "ready"
    [] OTHER -> "bad"

(* HAL_SDRAM_SendCommand, its result asserted *)
HAL_SDRAM_SendCommand(from, cmd, to) ==
  /\ At(from)
  /\ \/ /\ hsd \in {"READY", "PRECHARGED"}
        /\ hsd' = IF cmd = "PALL" THEN "PRECHARGED" ELSE "READY"
        /\ chip' = Chip(cmd)
        /\ Goto(to)
     \/ /\ hsd \notin {"READY", "PRECHARGED"}
        /\ Goto("assert_sdram")
        /\ UNCHANGED <<hsd, chip>>
  /\ UNCHANGED <<fmcclk, fmc_initialized, memory, heap, time, mods>>

(* Mutant: no HAL_Delay after the clock of the memory is enabled. *)
SdramNoDelay ==
  /\ At("sd_delay") /\ Goto("sd_pall")
  /\ UNCHANGED <<memory, fmc, heap, time, mods>>

SdramDelay ==
  /\ At("sd_delay") /\ Goto("sd_wait")
  /\ T!HAL_Delay(1)
  /\ UNCHANGED <<memory, fmc, heap, mods>>

(* The memory has had its pause when a whole millisecond has passed. *)
SdramWait ==
  /\ At("sd_wait")
  /\ T!DelayPoll
  /\ \/ /\ T!Returns
        /\ chip' = IF elapsed - uwTickFreq >= 1 THEN "paused" ELSE chip
        /\ Goto("sd_pall")
     \/ hal' = "delay" /\ Goto("sd_wait") /\ UNCHANGED chip
  /\ UNCHANGED <<fmcclk, hsd, fmc_initialized, memory, heap, mods>>

(* The result of HAL_SDRAM_ProgramRefreshRate is not looked at. *)
HAL_SDRAM_ProgramRefreshRate ==
  /\ At("sd_rate") /\ Goto("sd_test")
  /\ chip' = IF hsd = "READY" THEN Chip("RATE") ELSE chip
  /\ UNCHANGED <<fmcclk, hsd, fmc_initialized, memory, heap, time, mods>>

(* The test overwrites the whole memory, with values no variable expects   *)
(* (here the same in both modules), and writes the cache back.             *)
bsp_sdram_test ==
  /\ At("sd_test") /\ Goto("crt0_copy")
  /\ mem' = [mem EXCEPT !["sdram"] = "junk"]
  /\ dirty' = {}
  /\ \E n \in Modules \cup {Nil} : next' = [m \in Modules |-> n]
  /\ \E s \in M!States : state' = [m \in Modules |-> s]
  /\ \E d \in BOOLEAN : des' = [m \in Modules |-> d]
  /\ UNCHANGED <<head, tail, armed, op, cur, fresh, dcache, lost>>
  /\ UNCHANGED <<fmc, heap, time>>

(***************************************************************************)
(* bsp_earlyinit_crt0                                                      *)
(***************************************************************************)
Write(o) == IF dcache /\ Place(o) = "sdram" THEN dirty \cup {o} ELSE dirty

(* Mutant: .bss is cleared but .data is not copied. *)
CopyNothing ==
  /\ At("crt0_copy") /\ Goto("crt0_clean")
  /\ mem' = [mem EXCEPT !["sdram"] = "loaded"]
  /\ UNCHANGED <<dcache, dirty, lost, next, state, des>>
  /\ UNCHANGED <<head, tail, armed, op, cur, fresh>> /\ UNCHANGED <<fmc, heap, time>>

CopyData ==
  /\ At("crt0_copy") /\ Goto("crt0_clean")
  /\ mem' = [mem EXCEPT !["sdram"] = "loaded"]
  /\ dirty' = Write("tty") \cup Write("lcd") \cup Write("led")
  /\ next' = [m \in Modules |-> Nil] /\ state' = [m \in Modules |-> "COMING"]
  /\ des' = [m \in Modules |-> FALSE]
  /\ UNCHANGED <<dcache, lost, head, tail, armed, op, cur, fresh>>
  /\ UNCHANGED <<fmc, heap, time>>

(* Mutant: the cache is not cleaned. *)
NoClean ==
  /\ At("crt0_clean") /\ Goto("crt0_invalidate")
  /\ UNCHANGED <<memory, fmc, heap, time, mods>>

SCB_CleanDCache ==
  /\ At("crt0_clean") /\ Goto("crt0_invalidate")
  /\ dirty' = {}
  /\ UNCHANGED <<mem, dcache, lost, fmc, heap, time, mods>>

(* What is dirty here was written after the clean, and is dropped. *)
SCB_InvalidateDCache ==
  /\ At("crt0_invalidate") /\ Goto("print")
  /\ lost' = lost \cup dirty
  /\ dirty' = {}
  /\ UNCHANGED <<mem, dcache, fmc, heap, time, mods>>

(***************************************************************************)
(* The heap: _sbrk, and malloc as it extends the heap                      *)
(***************************************************************************)
Break == IF heap_current = NULL THEN HeapLow ELSE heap_current
Fits(o) == Break + Need[o] <= heap_high

(* the blocks, and a new one for o that begins at a *)
Handed(o, a) == [p \in DOMAIN blocks \cup {o} |->
                   IF p = o THEN <<a, a + Need[o]>> ELSE blocks[p]]

(* Mutant: the new break is returned instead of the old one. *)
SbrkNew(o) ==
  /\ heap_current' = Break + Need[o]
  /\ blocks' = Handed(o, Break + Need[o])
  /\ UNCHANGED heap_high

sbrk(o) ==
  /\ heap_current' = Break + Need[o]
  /\ blocks' = Handed(o, Break)
  /\ UNCHANGED heap_high

(* ENOMEM: the yellow LED is switched on, the break stays. *)
sbrkFails(o) == ~Fits(o) /\ heap_current' = Break /\ UNCHANGED <<heap_high, blocks>>

(* The first printf gives stdout a buffer; without one it is unbuffered. *)
printf ==
  IF "stdout" \in DOMAIN blocks
    THEN UNCHANGED heap
    ELSE (Fits("stdout") /\ sbrk("stdout")) \/ sbrkFails("stdout")

(***************************************************************************)
(* The rest of bsp_init: the modules                                       *)
(***************************************************************************)
PrintStamp(from, to) ==
  /\ At(from) /\ Goto(to)
  /\ printf
  /\ UNCHANGED <<memory, fmc, time, mods>>

Append(from, m, to) ==
  /\ At(from) /\ Goto(to)
  /\ M!bsp_module_append(m)
  /\ UNCHANGED <<memory, fmc, heap, time>>

BeginLoop(loop) ==
  /\ At(loop) /\ Goto(loop)
  /\ M!Begin(loop)
  /\ UNCHANGED <<memory, fmc, heap, time>>

EndLoop(loop, to) ==
  /\ At(loop) /\ Goto(to)
  /\ op = loop
  /\ M!End
  /\ UNCHANGED <<memory, fmc, heap, time>>

(* set_default_des of both drivers: a descriptor from calloc *)
Prepare ==
  /\ At("prepare") /\ Goto("prepare")
  /\ M!In("prepare")
  /\ \/ Fits(cur) /\ sbrk(cur) /\ M!PrepareOk
     \/ sbrkFails(cur) /\ M!PrepareFail
  /\ UNCHANGED <<memory, fmc, time>>

Setup ==
  /\ At("setup") /\ Goto("setup")
  /\ M!SetupSkip \/ M!SetupFail \/ M!SetupOk
  /\ UNCHANGED <<memory, fmc, heap, time>>

(***************************************************************************)
(* main, and SysTick                                                       *)
(***************************************************************************)
MainPrint ==
  /\ At("main") /\ Goto("main_delay")
  /\ printf
  /\ UNCHANGED <<memory, fmc, time, mods>>

MainCallsDelay ==
  /\ At("main_delay") /\ Goto("main_wait")
  /\ T!HAL_Delay(MainDelay)
  /\ UNCHANGED <<memory, fmc, heap, mods>>

MainWait ==
  /\ At("main_wait")
  /\ T!DelayPoll
  /\ Goto(IF hal' = "idle" THEN "main" ELSE "main_wait")
  /\ UNCHANGED <<memory, fmc, heap, mods>>

(* Mutant: the handler does not call HAL_IncTick. *)
TickIgnored == tickint /\ UNCHANGED vars

SysTick_Handler ==
  /\ T!HAL_IncTick
  /\ dirty' = Write("hal")
  /\ UNCHANGED <<step, mem, dcache, lost, fmc, heap, mods, resets>>

Thread ==
  \/ Reset_Handler
  \/ bsp_earlyinit_mpu \/ bsp_earlyinit_cache
  \/ HAL_Init
  \/ bsp_earlyinit_clk \/ bsp_earlyinit_misc
  \/ bsp_debug_init \/ bsp_module_init
  \/ HAL_SDRAM_Init
  \/ HAL_SDRAM_SendCommand("sd_clk", "CLK_ENABLE", "sd_delay")
  \/ SdramDelay \/ SdramWait
  \/ HAL_SDRAM_SendCommand("sd_pall", "PALL", "sd_refresh")
  \/ HAL_SDRAM_SendCommand("sd_refresh", "AUTOREFRESH", "sd_mode")
  \/ HAL_SDRAM_SendCommand("sd_mode", "LOAD_MODE", "sd_rate")
  \/ HAL_SDRAM_ProgramRefreshRate
  \/ bsp_sdram_test
  \/ CopyData \/ SCB_CleanDCache \/ SCB_InvalidateDCache
  \/ PrintStamp("print", "append_tty")
  \/ Append("append_tty", tty, "append_lcd") \/ Append("append_lcd", lcd, "print2")
  \/ PrintStamp("print2", "prepare")
  \/ BeginLoop("prepare") \/ Prepare \/ EndLoop("prepare", "setup")
  \/ BeginLoop("setup") \/ Setup \/ EndLoop("setup", "main")
  \/ MainPrint \/ MainCallsDelay \/ MainWait

Next == Thread \/ SysTick_Handler \/ Reset

Spec == Init /\ [][Next]_vars

(* The thread runs whenever it can, and SysTick counts once it is enabled. *)
FairSpec == Spec /\ WF_vars(Thread) /\ WF_vars(SysTick_Handler)

(***************************************************************************)
(* Properties                                                              *)
(***************************************************************************)
InMain == step \in {"main", "main_delay", "main_wait"}

(* Nothing touches an object before its memory is loaded: not a step of    *)
(* bsp_init, not SysTick_Handler, not a driver's interrupt, after power-up *)
(* or a reset at any point (the linker script against the order of         *)
(* bsp_init).                                                              *)
UsesLoaded ==
  /\ step \in DOMAIN Uses => \A o \in Uses[step] : mem[Place(o)] = "loaded"
  /\ tickint => mem[Place("hal")] = "loaded"
  /\ \A m \in Modules : armed[m] => mem["sdram"] = "loaded"

(* The SDRAM is accessed only with the controller's clock on and after the *)
(* whole protocol, the pause of a full millisecond included; none of the   *)
(* assertions of bsp_sdram_init can fail, also after a warm reset.         *)
SdramUp ==
  /\ mem["sdram"] # "dead" => fmcclk /\ chip = "ready"
  /\ step # "assert_sdram"

(* No write is dropped by the invalidation in bsp_earlyinit_crt0: what an  *)
(* interrupt writes between clean and invalidate is not in cached memory.  *)
NothingLost == lost = {}

(* Blocks handed out by _sbrk lie inside the heap and are disjoint.        *)
HeapSound ==
  /\ \A o \in DOMAIN blocks : HeapLow <= blocks[o][1] /\ blocks[o][2] <= heap_high
  /\ \A o, p \in DOMAIN blocks :
        o # p => blocks[o][2] <= blocks[p][1] \/ blocks[p][2] <= blocks[o][1]

(* main starts with both modules registered in order, each either LIVE     *)
(* with a descriptor of this boot or given up, whatever an earlier run     *)
(* left in the memories (bsp_module_append skips a LIVE module).           *)
Registered ==
  InMain =>
    /\ M!Represents(<<tty, lcd>>)
    /\ \A m \in Modules :
         /\ state[m] \in {"LIVE", "GOING"}
         /\ state[m] = "LIVE" => des[m] /\ armed[m]
         /\ des[m] <=> m \in DOMAIN blocks

(* Unless an assertion on the clocks fails, the program gets to main and   *)
(* prints again and again.                                                 *)
KeepsPrinting == <>[](step = "assert_clk") \/ []<>(step = "main")
=============================================================================
