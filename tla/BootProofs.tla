----------------------------- MODULE BootProofs -----------------------------
(***************************************************************************)
(* Proofs about Boot, for every heap, every number of resets and every     *)
(* width, clock and frequency of the time base.                            *)
(***************************************************************************)
EXTENDS Boot, TLAPS

(* Two facts of arithmetic that the pause of the SDRAM protocol rests on:  *)
(* a period of c * f cycles lasts f milliseconds, and a tick of f moves    *)
(* the difference of two values of the counter by at most f.               *)
LEMMA DivExact ==
  ASSUME NEW c \in Nat \ {0}, NEW f \in Nat
  PROVE  (c * f) \div c = f
  BY Z3

LEMMA TickMovesBy ==
  ASSUME NEW R \in Nat \ {0},
         NEW u \in 0 .. R - 1, NEW t \in 0 .. R - 1, NEW f \in 1 .. R - 1
  PROVE  /\ (((u + f) % R) - t) % R <= ((u - t) % R) + f
         /\ (u - t) % R \in 0 .. R - 1
<1>1. \A x \in -R .. R - 1 : x % R = IF x >= 0 THEN x ELSE x + R
  BY Z3
<1>2. PICK v \in 0 .. R - 1 : v = (u + f) % R /\ v = IF u + f < R THEN u + f ELSE u + f - R
  BY Z3
<1>3. /\ (u - t) % R = IF u - t >= 0 THEN u - t ELSE u - t + R
      /\ (v - t) % R = IF v - t >= 0 THEN v - t ELSE v - t + R
  BY <1>1
<1> QED
  BY <1>2, <1>3

(***************************************************************************)
(* The invariant.  The steps fall into four stretches; every part says     *)
(* what holds in which of them.                                            *)
(***************************************************************************)
Early == {"mpu", "cache", "HAL_Init", "clk", "assert_clk", "misc", "debug",
          "module_init", "sd_init"}
Bring == {"sd_clk", "sd_delay", "sd_wait", "sd_pall", "sd_refresh", "sd_mode",
          "sd_rate", "sd_test"}
Load == {"crt0_copy"}
Late == {"crt0_clean", "crt0_invalidate", "print", "append_tty", "append_lcd",
         "print2", "prepare", "setup", "main", "main_delay", "main_wait"}
Steps == {"Reset_Handler"} \cup Early \cup Bring \cup Load \cup Late

MemInv ==
  /\ step \in Steps
  /\ mem \in [{"dtcm", "sdram"} -> {"junk", "dead", "loaded"}]
  /\ step # "Reset_Handler" => mem["dtcm"] = "loaded"
  /\ step \in {"Reset_Handler"} \cup Early \cup Bring => mem["sdram"] = "dead"
  /\ step \in Late => mem["sdram"] = "loaded"
  /\ step = "Reset_Handler" => tickint = FALSE

(* Where the SDRAM's controller and the memory itself are in the protocol *)
ChipInv ==
  /\ step \in Early => hsd = "RESET" /\ fmc_initialized = FALSE
  /\ step \in Bring \cup Load \cup Late => fmcclk = TRUE
  /\ step \in {"sd_clk", "sd_delay", "sd_wait", "sd_pall", "sd_mode", "sd_rate"} => hsd = "READY"
  /\ step = "sd_refresh" => hsd = "PRECHARGED"
  /\ step \in {"sd_delay", "sd_wait"} => chip = "clocked"
  /\ step = "sd_pall" => chip = "paused"
  /\ step = "sd_refresh" => chip = "precharged"
  /\ step = "sd_mode" => chip = "refreshed"
  /\ step = "sd_rate" => chip = "moded"
  /\ step \in {"sd_test"} \cup Load \cup Late => chip = "ready"

(* The part of HalTick's invariant that the pause of the SDRAM rests on *)
TimeInv ==
  /\ uwTick \in 0 .. Range - 1 /\ uwTickFreq = DefaultFreq /\ clock \in Clocks
  /\ hal \in {"idle", "delay"} => period = clock * uwTickFreq
  /\ elapsed \in 0 .. MaxElapsed
  /\ hal = "delay" => /\ tickstart \in 0 .. Range - 1
                      /\ (uwTick - tickstart) % Range <= elapsed
  /\ step = "sd_wait" => wait = 1 + DefaultFreq
  /\ step \in {"Reset_Handler", "mpu", "cache", "HAL_Init"} => hal = "reset"

CacheInv ==
  /\ lost = {}
  /\ step = "crt0_invalidate" => dirty = {}

(* Blocks lie below the break, and a warm start forgets them. *)
HeapInv ==
  /\ heap_high \in Nat /\ heap_current \in Nat
  /\ heap_current = NULL \/ HeapLow <= heap_current
  /\ step = "Reset_Handler" => DOMAIN blocks = {}
  /\ \A o \in DOMAIN blocks :
       /\ blocks[o][1] \in Nat /\ blocks[o][2] \in Nat
       /\ HeapLow <= blocks[o][1] /\ blocks[o][1] <= blocks[o][2]
       /\ blocks[o][2] <= Break /\ blocks[o][2] <= heap_high
  /\ \A o, p \in DOMAIN blocks :
        o # p => blocks[o][2] <= blocks[p][1] \/ blocks[p][2] <= blocks[o][1]

(* The types of the module list; outside the loops none is in progress,    *)
(* and no driver runs before setup.                                        *)
ModInv ==
  /\ head \in Modules \cup {Nil} /\ tail \in Modules \cup {Nil} /\ cur \in Modules \cup {Nil}
  /\ next \in [Modules -> Modules \cup {Nil}] /\ state \in [Modules -> M!States]
  /\ des \in [Modules -> BOOLEAN] /\ armed \in [Modules -> BOOLEAN]
  /\ step \notin {"prepare", "setup"} => op = "none"
  /\ \A m \in Modules : armed[m] => step \in {"setup", "main", "main_delay", "main_wait"}
  /\ op \in {"none", "prepare", "setup"}

(* A module as it is loaded, after prepare and after setup *)
Raw(m) == state[m] = "COMING" /\ ~des[m] /\ m \notin DOMAIN blocks
Ready(m) == /\ state[m] \in {"COMING", "GOING"}
            /\ state[m] = "COMING" => des[m]
            /\ des[m] <=> m \in DOMAIN blocks
Settled(m) == /\ state[m] \in {"LIVE", "GOING"}
              /\ state[m] = "LIVE" => des[m] /\ armed[m]
              /\ des[m] <=> m \in DOMAIN blocks

(* The list grows in order, and the loops settle it module by module. *)
ListInv ==
  /\ step \in {"sd_init"} \cup Bring \cup Load \cup
              {"crt0_clean", "crt0_invalidate", "print", "append_tty"}
       => head = Nil /\ tail = Nil
  /\ step \notin {"prepare", "setup", "main", "main_delay", "main_wait"}
       => DOMAIN blocks \cap Modules = {}
  /\ step \in {"crt0_clean", "crt0_invalidate", "print", "append_tty", "append_lcd", "print2"}
       => Raw(tty) /\ Raw(lcd)
  /\ step = "append_lcd" => head = tty /\ tail = tty /\ next[tty] = Nil
  /\ step \in {"print2", "prepare", "setup", "main", "main_delay", "main_wait"}
       => head = tty /\ tail = lcd /\ next[tty] = lcd /\ next[lcd] = Nil
  /\ step = "prepare" =>
       /\ op \in {"none", "prepare"}
       /\ op = "none" => Raw(tty) /\ Raw(lcd)
       /\ op = "prepare" => /\ cur = tty => Raw(tty) /\ Raw(lcd)
                            /\ cur = lcd => Ready(tty) /\ Raw(lcd)
                            /\ cur = Nil => Ready(tty) /\ Ready(lcd)
  /\ step = "setup" =>
       /\ op \in {"none", "setup"}
       /\ op = "none" => Ready(tty) /\ Ready(lcd)
       /\ op = "setup" => /\ cur = tty => Ready(tty) /\ Ready(lcd)
                          /\ cur = lcd => Settled(tty) /\ Ready(lcd)
                          /\ cur = Nil => Settled(tty) /\ Settled(lcd)
  /\ InMain => Settled(tty) /\ Settled(lcd)

IInv == MemInv /\ ChipInv /\ TimeInv /\ CacheInv /\ HeapInv /\ ModInv /\ ListInv

USE DEF At, Goto, memory, fmc, heap, time, mods, NULL

(* The commands of bsp_sdram_init *)
Command ==
  \/ HAL_SDRAM_SendCommand("sd_clk", "CLK_ENABLE", "sd_delay")
  \/ HAL_SDRAM_SendCommand("sd_pall", "PALL", "sd_refresh")
  \/ HAL_SDRAM_SendCommand("sd_refresh", "AUTOREFRESH", "sd_mode")
  \/ HAL_SDRAM_SendCommand("sd_mode", "LOAD_MODE", "sd_rate")

(***************************************************************************)
(* The memories                                                            *)
(***************************************************************************)
(* Which memory is loaded after which step of bsp_init *)
LEMMA MemStep ==
  ASSUME IInv, [Next]_vars
  PROVE  MemInv'
<1> USE DEF MemInv, Steps, Early, Bring, Load, Late
<1>0. MemInv
  BY DEF IInv
<1>1. CASE UNCHANGED vars
  BY <1>0, <1>1 DEF vars
<1>2. CASE Reset
  BY <1>0, <1>2 DEF Reset
<1>3. CASE SysTick_Handler
  BY <1>0, <1>3 DEF SysTick_Handler, T!HAL_IncTick
<1>4. CASE Reset_Handler
  BY <1>0, <1>4 DEF Reset_Handler
<1>5. CASE bsp_earlyinit_mpu \/ bsp_earlyinit_cache \/ bsp_earlyinit_misc
           \/ bsp_debug_init \/ bsp_module_init \/ HAL_SDRAM_Init
  BY <1>0, <1>5 DEF bsp_earlyinit_mpu, bsp_earlyinit_cache, bsp_earlyinit_misc,
     bsp_debug_init, bsp_module_init, HAL_SDRAM_Init
<1>6. CASE HAL_Init
  BY <1>0, <1>6 DEF HAL_Init
<1>7. CASE bsp_earlyinit_clk
  BY <1>0, <1>7 DEF bsp_earlyinit_clk
<1>8. CASE Command
  <2>1. step \in {"sd_clk", "sd_pall", "sd_refresh", "sd_mode"}
    BY <1>8 DEF Command, HAL_SDRAM_SendCommand
  <2>2. hsd \in {"READY", "PRECHARGED"}
    BY <2>1 DEF IInv, ChipInv
  <2> QED
    BY <1>0, <1>8, <2>2 DEF Command, HAL_SDRAM_SendCommand
<1>9. CASE SdramDelay \/ SdramWait \/ HAL_SDRAM_ProgramRefreshRate
  BY <1>0, <1>9 DEF SdramDelay, SdramWait, HAL_SDRAM_ProgramRefreshRate
<1>10. CASE bsp_sdram_test \/ CopyData \/ SCB_CleanDCache \/ SCB_InvalidateDCache
  BY <1>0, <1>10 DEF bsp_sdram_test, CopyData, SCB_CleanDCache, SCB_InvalidateDCache
<1>11. CASE PrintStamp("print", "append_tty") \/ PrintStamp("print2", "prepare")
            \/ Append("append_tty", tty, "append_lcd") \/ Append("append_lcd", lcd, "print2")
  BY <1>0, <1>11 DEF PrintStamp, Append
<1>12. CASE BeginLoop("prepare") \/ Prepare \/ EndLoop("prepare", "setup")
            \/ BeginLoop("setup") \/ Setup \/ EndLoop("setup", "main")
  BY <1>0, <1>12 DEF BeginLoop, Prepare, EndLoop, Setup
<1>13. CASE MainPrint \/ MainCallsDelay \/ MainWait
  BY <1>0, <1>13 DEF MainPrint, MainCallsDelay, MainWait
<1> HIDE DEF MemInv
<1> QED
  BY <1>1, <1>2, <1>3, <1>4, <1>5, <1>6, <1>7, <1>8, <1>9, <1>10, <1>11, <1>12, <1>13, Zenon
     DEF Next, Thread, Command

(***************************************************************************)
(* The pause of the SDRAM                                                  *)
(***************************************************************************)

(* When the HAL_Delay of bsp_sdram_init returns, a whole millisecond has   *)
(* passed since the memory's clock was enabled.                            *)
LEMMA PauseLongEnough ==
  ASSUME IInv, step = "sd_wait", T!DelayPoll, T!Returns
  PROVE  elapsed - uwTickFreq >= 1
<1>1. T!Due
  BY DEF T!DelayPoll, T!Returns
<1>2. (uwTick - tickstart) % Range >= 1 + DefaultFreq
  BY <1>1 DEF T!Due, IInv, TimeInv
<1>3. (uwTick - tickstart) % Range <= elapsed
  BY DEF IInv, TimeInv, T!Returns
<1>4. DefaultFreq \in Nat /\ elapsed \in Nat /\ uwTickFreq = DefaultFreq
  BY TickAssumption DEF T!TickAssumption, IInv, TimeInv
<1>5. (uwTick - tickstart) % Range \in Int
  <2>1. Range \in Nat \ {0} /\ uwTick \in Int /\ tickstart \in Int
    BY TickAssumption DEF T!TickAssumption, IInv, TimeInv, T!Returns
  <2> QED
    BY <2>1
<1> QED
  BY <1>2, <1>3, <1>4, <1>5

(* The protocol of the SDRAM *)
LEMMA ChipStep ==
  ASSUME IInv, [Next]_vars
  PROVE  ChipInv'
<1> USE DEF ChipInv, Early, Bring, Load, Late
<1>0. ChipInv
  BY DEF IInv
<1>1. CASE UNCHANGED vars
  BY <1>0, <1>1 DEF vars
<1>2. CASE Reset
  BY <1>0, <1>2 DEF Reset
<1>3. CASE SysTick_Handler
  BY <1>0, <1>3 DEF SysTick_Handler
<1>4. CASE Reset_Handler
  BY <1>0, <1>4 DEF Reset_Handler
<1>5. CASE bsp_earlyinit_mpu \/ bsp_earlyinit_cache \/ bsp_earlyinit_misc
           \/ bsp_debug_init \/ bsp_module_init
  BY <1>0, <1>5 DEF bsp_earlyinit_mpu, bsp_earlyinit_cache, bsp_earlyinit_misc,
     bsp_debug_init, bsp_module_init
<1>6. CASE HAL_Init \/ bsp_earlyinit_clk
  BY <1>0, <1>6 DEF HAL_Init, bsp_earlyinit_clk
<1>7. CASE HAL_SDRAM_Init
  BY <1>0, <1>7 DEF HAL_SDRAM_Init, HAL_SDRAM_MspInit
<1>8. CASE Command
  BY <1>0, <1>8 DEF Command, HAL_SDRAM_SendCommand, Chip
<1>9. CASE SdramDelay \/ HAL_SDRAM_ProgramRefreshRate
  BY <1>0, <1>9 DEF SdramDelay, HAL_SDRAM_ProgramRefreshRate, Chip
<1>10. CASE SdramWait
  <2>1. T!Returns => elapsed - uwTickFreq >= 1
    BY <1>10, PauseLongEnough DEF SdramWait
  <2> QED
    BY <1>0, <1>10, <2>1 DEF SdramWait
<1>11. CASE bsp_sdram_test \/ CopyData \/ SCB_CleanDCache \/ SCB_InvalidateDCache
  BY <1>0, <1>11 DEF bsp_sdram_test, CopyData, SCB_CleanDCache, SCB_InvalidateDCache
<1>12. CASE \/ PrintStamp("print", "append_tty") \/ PrintStamp("print2", "prepare")
            \/ Append("append_tty", tty, "append_lcd") \/ Append("append_lcd", lcd, "print2")
            \/ MainPrint \/ MainCallsDelay \/ MainWait
  BY <1>0, <1>12 DEF PrintStamp, Append, MainPrint, MainCallsDelay, MainWait
<1>13. CASE BeginLoop("prepare") \/ Prepare \/ EndLoop("prepare", "setup")
            \/ BeginLoop("setup") \/ Setup \/ EndLoop("setup", "main")
  BY <1>0, <1>13 DEF BeginLoop, Prepare, EndLoop, Setup
<1> HIDE DEF ChipInv
<1> QED
  BY <1>1, <1>2, <1>3, <1>4, <1>5, <1>6, <1>7, <1>8, <1>9, <1>10, <1>11, <1>12, <1>13, Zenon
     DEF Next, Thread, Command

(* The time base *)
LEMMA TimeStep ==
  ASSUME IInv, [Next]_vars
  PROVE  TimeInv'
<1> USE DEF TimeInv
<1>0. TimeInv
  BY DEF IInv
<1>a. /\ Range \in Nat \ {0} /\ MaxElapsed \in Nat /\ MaxElapsed >= 2 * Range
      /\ Clocks \subseteq Nat \ {0} /\ HSI \in Clocks /\ PLL \in Clocks
      /\ DefaultFreq \in 1 .. Range - 1 /\ DefaultFreq + 1 < Range
  BY TickAssumption, BootAssumption DEF T!TickAssumption
<1>1. CASE UNCHANGED vars
  BY <1>0, <1>1 DEF vars
<1>2. CASE Reset
  BY <1>0, <1>2, <1>a DEF Reset
<1>3. CASE SysTick_Handler
  <2>1. CASE hal # "delay"
    <3>1. (uwTick + uwTickFreq) % Range \in 0 .. Range - 1
      <4>1. uwTick + uwTickFreq \in Int
        BY <1>0, <1>a
      <4> QED
        BY <4>1, <1>a
    <3> QED
      BY <1>0, <1>3, <2>1, <3>1 DEF SysTick_Handler, T!HAL_IncTick
  <2>2. CASE hal = "delay"
    <3>1. period \div clock = uwTickFreq
      BY <1>0, <1>a, <2>2, DivExact
    <3>2. /\ elapsed' = IF elapsed + uwTickFreq > MaxElapsed
                          THEN MaxElapsed ELSE elapsed + uwTickFreq
          /\ uwTick' = (uwTick + uwTickFreq) % Range
          /\ UNCHANGED <<step, uwTickFreq, clock, period, hal, tickstart, wait>>
      BY <1>3, <2>2, <3>1 DEF SysTick_Handler, T!HAL_IncTick
    <3>3. elapsed' \in 0 .. MaxElapsed
      BY <1>0, <1>a, <3>2
    <3>4. uwTick' \in 0 .. Range - 1
      <4>1. uwTick + uwTickFreq \in Int
        BY <1>0, <1>a
      <4> QED
        BY <4>1, <1>a, <3>2
    <3>5. /\ (uwTick' - tickstart) % Range <= ((uwTick - tickstart) % Range) + uwTickFreq
          /\ (uwTick - tickstart) % Range \in 0 .. Range - 1
      BY <1>0, <1>a, <2>2, <3>2, TickMovesBy, Zenon
    <3>6. (uwTick' - tickstart) % Range \in 0 .. Range - 1
      <4>1. uwTick' - tickstart \in Int
        BY <1>0, <2>2, <1>a, <3>4
      <4> QED
        BY <4>1, <1>a
    <3> DEFINE d == (uwTick - tickstart) % Range
               e == (uwTick' - tickstart) % Range
    <3>7. d <= elapsed /\ d \in 0 .. Range - 1 /\ e \in 0 .. Range - 1 /\ e <= d + uwTickFreq
      BY <1>0, <2>2, <3>5, <3>6
    <3> HIDE DEF d, e
    <3>8. e <= elapsed'
      BY <1>0, <1>a, <3>2, <3>7
    <3> QED
      BY <1>0, <2>2, <3>2, <3>3, <3>4, <3>8 DEF e
  <2> QED
    BY <2>1, <2>2
<1>4. CASE Reset_Handler
  <2>1. 0 \in 0 .. Range - 1
    BY <1>a
  <2> QED
    BY <1>0, <1>4, <2>1 DEF Reset_Handler
<1>5. CASE bsp_earlyinit_mpu \/ bsp_earlyinit_cache \/ bsp_earlyinit_misc
           \/ bsp_debug_init \/ bsp_module_init \/ HAL_SDRAM_Init
  BY <1>0, <1>5 DEF bsp_earlyinit_mpu, bsp_earlyinit_cache, bsp_earlyinit_misc,
     bsp_debug_init, bsp_module_init, HAL_SDRAM_Init
<1>6. CASE HAL_Init
  BY <1>0, <1>6 DEF HAL_Init, T!HAL_Init, T!HAL_InitTick, T!CyclesPerTick, T!call
<1>7. CASE bsp_earlyinit_clk
  BY <1>0, <1>7, <1>a DEF bsp_earlyinit_clk, T!HAL_RCC_ClockConfig, T!HAL_InitTick,
     T!CyclesPerTick, T!call
<1>8. CASE Command \/ HAL_SDRAM_ProgramRefreshRate
  BY <1>0, <1>8 DEF Command, HAL_SDRAM_SendCommand, HAL_SDRAM_ProgramRefreshRate
<1>9. CASE SdramDelay \/ MainCallsDelay
  <2>1. (uwTick - uwTick) % Range = 0
    BY <1>0, <1>a
  <2>2. T!Wait(1) = 1 + DefaultFreq
    <3>1. 1 < T!HAL_MAX_DELAY
      BY <1>a DEF T!HAL_MAX_DELAY
    <3>2. (1 + DefaultFreq) % Range = 1 + DefaultFreq
      BY <1>a
    <3> QED
      BY <1>0, <3>1, <3>2 DEF T!Wait
  <2> QED
    BY <1>0, <1>9, <1>a, <2>1, <2>2 DEF SdramDelay, MainCallsDelay, T!HAL_Delay, T!tick
<1>10. CASE SdramWait \/ MainWait
  BY <1>0, <1>10, <1>a DEF SdramWait, MainWait, T!DelayPoll, T!Returns, T!tick
<1>11. CASE bsp_sdram_test \/ CopyData \/ SCB_CleanDCache \/ SCB_InvalidateDCache
  BY <1>0, <1>11 DEF bsp_sdram_test, CopyData, SCB_CleanDCache, SCB_InvalidateDCache
<1>12. CASE \/ PrintStamp("print", "append_tty") \/ PrintStamp("print2", "prepare")
            \/ Append("append_tty", tty, "append_lcd") \/ Append("append_lcd", lcd, "print2")
            \/ MainPrint
  BY <1>0, <1>12 DEF PrintStamp, Append, MainPrint
<1>13. CASE BeginLoop("prepare") \/ Prepare \/ EndLoop("prepare", "setup")
            \/ BeginLoop("setup") \/ Setup \/ EndLoop("setup", "main")
  BY <1>0, <1>13 DEF BeginLoop, Prepare, EndLoop, Setup
<1> HIDE DEF TimeInv
<1> QED
  BY <1>1, <1>2, <1>3, <1>4, <1>5, <1>6, <1>7, <1>8, <1>9, <1>10, <1>11, <1>12, <1>13, Zenon
     DEF Next, Thread, Command

(***************************************************************************)
(* The cache and the heap                                                  *)
(***************************************************************************)

(* Only SysTick writes between clean and invalidate, and to DTCM. *)
LEMMA CacheStep ==
  ASSUME IInv, [Next]_vars
  PROVE  CacheInv'
<1> USE DEF CacheInv
<1>0. CacheInv
  BY DEF IInv
<1>1. CASE UNCHANGED vars
  BY <1>0, <1>1 DEF vars
<1>2. CASE Reset
  BY <1>0, <1>2 DEF Reset
<1>3. CASE SysTick_Handler
  BY <1>0, <1>3 DEF SysTick_Handler, Write, Place
<1>4. CASE Reset_Handler
  BY <1>0, <1>4 DEF Reset_Handler
<1>5. CASE bsp_earlyinit_mpu \/ bsp_earlyinit_cache \/ bsp_earlyinit_misc \/ bsp_debug_init
  BY <1>0, <1>5 DEF bsp_earlyinit_mpu, bsp_earlyinit_cache, bsp_earlyinit_misc, bsp_debug_init
<1>6. CASE HAL_Init \/ bsp_earlyinit_clk \/ HAL_SDRAM_Init
  BY <1>0, <1>6 DEF HAL_Init, bsp_earlyinit_clk, HAL_SDRAM_Init
<1>7. CASE Command \/ HAL_SDRAM_ProgramRefreshRate
  BY <1>0, <1>7 DEF Command, HAL_SDRAM_SendCommand, HAL_SDRAM_ProgramRefreshRate
<1>8. CASE SdramDelay \/ SdramWait \/ MainCallsDelay \/ MainWait
  BY <1>0, <1>8 DEF SdramDelay, SdramWait, MainCallsDelay, MainWait
<1>9. CASE bsp_module_init
  BY <1>0, <1>9 DEF bsp_module_init
<1>10. CASE bsp_sdram_test \/ CopyData \/ SCB_CleanDCache \/ SCB_InvalidateDCache
  BY <1>0, <1>10 DEF bsp_sdram_test, CopyData, SCB_CleanDCache, SCB_InvalidateDCache
<1>11. CASE \/ PrintStamp("print", "append_tty") \/ PrintStamp("print2", "prepare")
            \/ Append("append_tty", tty, "append_lcd") \/ Append("append_lcd", lcd, "print2")
            \/ MainPrint
  BY <1>0, <1>11 DEF PrintStamp, Append, MainPrint
<1>12. CASE BeginLoop("prepare") \/ Prepare \/ EndLoop("prepare", "setup")
            \/ BeginLoop("setup") \/ Setup \/ EndLoop("setup", "main")
  BY <1>0, <1>12 DEF BeginLoop, Prepare, EndLoop, Setup
<1> HIDE DEF CacheInv
<1> QED
  BY <1>1, <1>2, <1>3, <1>4, <1>5, <1>6, <1>7, <1>8, <1>9, <1>10, <1>11, <1>12, Zenon
     DEF Next, Thread, Command

(* A block that _sbrk hands out begins at the break and ends at the new    *)
(* one.                                                                    *)
LEMMA SbrkKeeps ==
  ASSUME HeapInv, NEW o \in Modules \cup {"stdout"}, Fits(o), sbrk(o),
         step # "Reset_Handler", step' # "Reset_Handler"
  PROVE  HeapInv'
<1>1. Need[o] \in Nat /\ HeapLow \in Nat \ {0} /\ heap_high \in Nat
  BY BootAssumption DEF HeapInv
<1>2. Break \in Nat /\ HeapLow <= Break /\ Break' = Break + Need[o]
  BY <1>1 DEF Break, sbrk, HeapInv
<1>3. heap_current' \in Nat /\ HeapLow <= heap_current' /\ heap_high' = heap_high
  BY <1>1, <1>2 DEF sbrk
<1>4. /\ DOMAIN blocks' = DOMAIN blocks \cup {o}
      /\ blocks'[o] = <<Break, Break + Need[o]>>
      /\ \A p \in DOMAIN blocks : p # o => blocks'[p] = blocks[p]
  BY DEF sbrk, Handed
<1>5. ASSUME NEW p \in DOMAIN blocks'
      PROVE  /\ blocks'[p][1] \in Nat /\ blocks'[p][2] \in Nat
             /\ HeapLow <= blocks'[p][1] /\ blocks'[p][1] <= blocks'[p][2]
             /\ blocks'[p][2] <= Break' /\ blocks'[p][2] <= heap_high'
             /\ p # o => blocks'[p][2] <= Break
  <2>1. CASE p = o
    BY <2>1, <1>1, <1>2, <1>3, <1>4 DEF Fits
  <2>2. CASE p # o
    BY <2>2, <1>1, <1>2, <1>3, <1>4, <1>5 DEF HeapInv
  <2> QED
    BY <2>1, <2>2
<1>6. ASSUME NEW p \in DOMAIN blocks', NEW q \in DOMAIN blocks', p # q
      PROVE  blocks'[p][2] <= blocks'[q][1] \/ blocks'[q][2] <= blocks'[p][1]
  <2>1. CASE p # o /\ q # o
    BY <2>1, <1>4, <1>6 DEF HeapInv
  <2>2. CASE p = o \/ q = o
    BY <2>2, <1>4, <1>5, <1>6
  <2> QED
    BY <2>1, <2>2
<1> QED
  BY <1>3, <1>5, <1>6 DEF HeapInv

(* A refused _sbrk changes at most an unset break. *)
LEMMA SbrkFailKeeps ==
  ASSUME HeapInv, NEW o, sbrkFails(o), step # "Reset_Handler", step' # "Reset_Handler"
  PROVE  HeapInv'
<1>1. HeapLow \in Nat \ {0}
  BY BootAssumption
<1>2. Break' = Break /\ heap_current' \in Nat /\ HeapLow <= heap_current'
  BY <1>1 DEF Break, sbrkFails, HeapInv
<1> QED
  BY <1>1, <1>2 DEF HeapInv, sbrkFails

(* The first printf takes its buffer from _sbrk. *)
LEMMA PrintKeeps ==
  ASSUME HeapInv, printf, step # "Reset_Handler", step' # "Reset_Handler"
  PROVE  HeapInv'
<1>1. CASE UNCHANGED heap
  BY <1>1 DEF HeapInv, Break
<1>2. CASE Fits("stdout") /\ sbrk("stdout")
  BY <1>2, SbrkKeeps
<1>3. CASE sbrkFails("stdout")
  BY <1>3, SbrkFailKeeps
<1> QED
  BY <1>1, <1>2, <1>3 DEF printf

(* _sbrk keeps the blocks below the break. *)
LEMMA HeapStep ==
  ASSUME IInv, [Next]_vars
  PROVE  HeapInv'
<1>0. HeapInv
  BY DEF IInv
<1>a. ASSUME UNCHANGED heap, step' = "Reset_Handler" => step = "Reset_Handler"
      PROVE  HeapInv'
  BY <1>0, <1>a DEF HeapInv, Break
<1>1. CASE UNCHANGED vars
  BY <1>a, <1>1 DEF vars
<1>2. CASE Reset
  <2>1. /\ DOMAIN blocks' = {} /\ UNCHANGED <<heap_high, heap_current>>
    BY <1>2 DEF Reset
  <2> QED
    BY <1>0, <2>1 DEF HeapInv
<1>3. CASE SysTick_Handler
  BY <1>a, <1>3 DEF SysTick_Handler
<1>4. CASE Reset_Handler
  <2>1. /\ DOMAIN blocks = {} /\ UNCHANGED <<heap_high, blocks>> /\ heap_current' = 0
    BY <1>0, <1>4 DEF Reset_Handler, HeapInv
  <2> QED
    BY <1>0, <2>1 DEF HeapInv
<1>5. CASE bsp_earlyinit_mpu \/ bsp_earlyinit_cache \/ bsp_earlyinit_misc \/ bsp_debug_init
  BY <1>a, <1>5 DEF bsp_earlyinit_mpu, bsp_earlyinit_cache, bsp_earlyinit_misc, bsp_debug_init
<1>6. CASE HAL_Init \/ bsp_earlyinit_clk \/ HAL_SDRAM_Init
  BY <1>a, <1>6 DEF HAL_Init, bsp_earlyinit_clk, HAL_SDRAM_Init
<1>7. CASE Command \/ HAL_SDRAM_ProgramRefreshRate
  BY <1>a, <1>7 DEF Command, HAL_SDRAM_SendCommand, HAL_SDRAM_ProgramRefreshRate
<1>8. CASE SdramDelay \/ SdramWait \/ MainCallsDelay \/ MainWait
  BY <1>a, <1>8 DEF SdramDelay, SdramWait, MainCallsDelay, MainWait
<1>9. CASE bsp_module_init
  BY <1>a, <1>9 DEF bsp_module_init
<1>10. CASE bsp_sdram_test \/ CopyData \/ SCB_CleanDCache \/ SCB_InvalidateDCache
  BY <1>a, <1>10 DEF bsp_sdram_test, CopyData, SCB_CleanDCache, SCB_InvalidateDCache
<1>11. CASE \/ PrintStamp("print", "append_tty") \/ PrintStamp("print2", "prepare") \/ MainPrint
  BY <1>0, <1>11, PrintKeeps DEF PrintStamp, MainPrint
<1>12. CASE Append("append_tty", tty, "append_lcd") \/ Append("append_lcd", lcd, "print2")
  BY <1>a, <1>12 DEF Append
<1>13. CASE BeginLoop("prepare") \/ EndLoop("prepare", "setup")
            \/ BeginLoop("setup") \/ Setup \/ EndLoop("setup", "main")
  BY <1>a, <1>13 DEF BeginLoop, EndLoop, Setup
<1>14. CASE Prepare
  <2>1. cur \in Modules
    BY <1>14 DEF Prepare, M!In, IInv, ModInv
  <2> QED
    BY <1>0, <1>14, <2>1, SbrkKeeps, SbrkFailKeeps DEF Prepare
<1> QED
  BY <1>1, <1>2, <1>3, <1>4, <1>5, <1>6, <1>7, <1>8, <1>9, <1>10, <1>11, <1>12, <1>13, <1>14, Zenon
     DEF Next, Thread, Command

(***************************************************************************)
(* The module list                                                         *)
(***************************************************************************)
InLoop == {"setup", "main", "main_delay", "main_wait"}

(* The fields of the modules keep their types. *)
LEMMA ModStep ==
  ASSUME IInv, [Next]_vars
  PROVE  ModInv'
<1>0. ModInv
  BY DEF IInv
<1>a. ASSUME UNCHANGED mods, step' \in {"prepare", "setup"} \/ step \notin {"prepare", "setup"},
             step' \in InLoop \/ step \notin InLoop
      PROVE  ModInv'
  BY <1>0, <1>a DEF ModInv, InLoop
<1>b. /\ Modules = {tty, lcd} /\ Nil \notin Modules /\ tty # lcd
  BY BootAssumption
<1>1. CASE UNCHANGED vars
  BY <1>0, <1>1 DEF vars, ModInv
<1>2. CASE Reset
  BY <1>0, <1>2 DEF Reset, ModInv
<1>3. CASE SysTick_Handler
  BY <1>0, <1>3 DEF SysTick_Handler, ModInv
<1>4. CASE Reset_Handler \/ bsp_module_init
  BY <1>0, <1>4 DEF Reset_Handler, bsp_module_init, ModInv
<1>5. CASE bsp_earlyinit_mpu \/ bsp_earlyinit_cache \/ bsp_earlyinit_misc \/ bsp_debug_init
  BY <1>a, <1>5 DEF bsp_earlyinit_mpu, bsp_earlyinit_cache, bsp_earlyinit_misc, bsp_debug_init, InLoop
<1>6. CASE HAL_Init \/ bsp_earlyinit_clk \/ HAL_SDRAM_Init
  BY <1>a, <1>6 DEF HAL_Init, bsp_earlyinit_clk, HAL_SDRAM_Init, InLoop
<1>7. CASE Command \/ HAL_SDRAM_ProgramRefreshRate
  BY <1>a, <1>7 DEF Command, HAL_SDRAM_SendCommand, HAL_SDRAM_ProgramRefreshRate, InLoop
<1>8. CASE SdramDelay \/ SdramWait \/ MainCallsDelay \/ MainWait
  BY <1>a, <1>8 DEF SdramDelay, SdramWait, MainCallsDelay, MainWait, InLoop
<1>9. CASE bsp_sdram_test \/ CopyData
  <2>1. /\ next' \in [Modules -> Modules \cup {Nil}] /\ state' \in [Modules -> M!States]
        /\ des' \in [Modules -> BOOLEAN]
    BY <1>9 DEF bsp_sdram_test, CopyData, M!States
  <2>2. /\ UNCHANGED <<head, tail, armed, op, cur>>
        /\ step \in {"sd_test", "crt0_copy"} /\ step' \in {"crt0_copy", "crt0_clean"}
    BY <1>9 DEF bsp_sdram_test, CopyData
  <2> QED
    BY <1>0, <2>1, <2>2 DEF ModInv
<1>10. CASE SCB_CleanDCache \/ SCB_InvalidateDCache
            \/ PrintStamp("print", "append_tty") \/ PrintStamp("print2", "prepare") \/ MainPrint
  BY <1>a, <1>10 DEF SCB_CleanDCache, SCB_InvalidateDCache, PrintStamp, MainPrint, InLoop
<1>11. CASE Append("append_tty", tty, "append_lcd") \/ Append("append_lcd", lcd, "print2")
  BY <1>0, <1>b, <1>11 DEF Append, M!bsp_module_append, M!SlistAppend, M!list, ModInv
<1>12. CASE BeginLoop("prepare") \/ EndLoop("prepare", "setup")
            \/ BeginLoop("setup") \/ EndLoop("setup", "main")
  BY <1>0, <1>12 DEF BeginLoop, EndLoop, M!Begin, M!End, M!list, ModInv
<1>13. CASE Prepare
  BY <1>0, <1>b, <1>13 DEF Prepare, M!In, M!PrepareOk, M!PrepareFail, M!SetState, M!Advance,
     M!list, M!States, ModInv
<1>14. CASE Setup
  BY <1>0, <1>b, <1>14 DEF Setup, M!In, M!SetupSkip, M!SetupFail, M!SetupOk, M!SetState,
     M!Advance, M!list, M!States, ModInv
<1> QED
  BY <1>1, <1>2, <1>3, <1>4, <1>5, <1>6, <1>7, <1>8, <1>9, <1>10, <1>11, <1>12, <1>13, <1>14, Zenon
     DEF Next, Thread, Command

SameBlocks == \A m \in Modules : m \in DOMAIN blocks' <=> m \in DOMAIN blocks

(* printf takes no block for a module. *)
LEMMA PrintSame ==
  ASSUME printf
  PROVE  SameBlocks
  BY BootAssumption DEF printf, sbrk, sbrkFails, Handed, SameBlocks

(* Steps that leave the list alone *)
LEMMA ListFrame ==
  ASSUME UNCHANGED mods, SameBlocks
  PROVE  /\ \A m \in {tty, lcd} : (Raw(m) => Raw(m)') /\ (Ready(m) => Ready(m)')
                                  /\ (Settled(m) => Settled(m)')
         /\ DOMAIN blocks \cap Modules = {} => DOMAIN blocks' \cap Modules = {}
<1>1. Modules = {tty, lcd}
  BY BootAssumption
<1>2. ASSUME NEW m \in {tty, lcd}
      PROVE (Raw(m) => Raw(m)') /\ (Ready(m) => Ready(m)') /\ (Settled(m) => Settled(m)')
  <2>1. m \in DOMAIN blocks' <=> m \in DOMAIN blocks
    BY <1>1 DEF SameBlocks
  <2>2. state'[m] = state[m] /\ des'[m] = des[m] /\ armed'[m] = armed[m]
    OBVIOUS
  <2> QED
    BY <2>1, <2>2 DEF Raw, Ready, Settled
<1>3. DOMAIN blocks \cap Modules = {} => DOMAIN blocks' \cap Modules = {}
  BY DEF SameBlocks
<1> QED
  BY <1>2, <1>3

(* bsp_module_append and the two loops build and settle the list. *)
LEMMA ListStep ==
  ASSUME IInv, [Next]_vars
  PROVE  ListInv'
<1>0. ListInv /\ ModInv
  BY DEF IInv
<1>b. /\ Modules = {tty, lcd} /\ Nil \notin Modules /\ tty # lcd
  BY BootAssumption
<1>c. ASSUME UNCHANGED heap PROVE SameBlocks
  BY <1>c DEF SameBlocks
<1>1. CASE UNCHANGED vars
  BY <1>0, <1>1 DEF vars, ListInv, Bring, Load, InMain, Raw, Ready, Settled
<1>2. CASE Reset
  BY <1>2 DEF Reset, ListInv, Bring, Load, InMain
<1>3. CASE SysTick_Handler
  BY <1>0, <1>3 DEF SysTick_Handler, ListInv, Bring, Load, InMain, Raw, Ready, Settled
<1>4. CASE Reset_Handler \/ bsp_module_init
  BY <1>0, <1>4 DEF Reset_Handler, bsp_module_init, ListInv, Bring, Load, InMain
<1>5. CASE bsp_earlyinit_mpu \/ bsp_earlyinit_cache \/ bsp_earlyinit_misc \/ bsp_debug_init
  BY <1>0, <1>5 DEF bsp_earlyinit_mpu, bsp_earlyinit_cache, bsp_earlyinit_misc, bsp_debug_init,
     ListInv, Bring, Load, InMain
<1>6. CASE HAL_Init \/ bsp_earlyinit_clk \/ HAL_SDRAM_Init
  BY <1>0, <1>6 DEF HAL_Init, bsp_earlyinit_clk, HAL_SDRAM_Init, ListInv, Bring, Load, InMain
<1>7. CASE Command \/ HAL_SDRAM_ProgramRefreshRate
  BY <1>0, <1>7 DEF Command, HAL_SDRAM_SendCommand, HAL_SDRAM_ProgramRefreshRate,
     ListInv, Bring, Load, InMain
<1>8. CASE SdramDelay \/ SdramWait
  BY <1>0, <1>8 DEF SdramDelay, SdramWait, ListInv, Bring, Load, InMain
<1>9. CASE MainCallsDelay \/ MainWait \/ MainPrint
  <2>1. UNCHANGED mods /\ SameBlocks /\ InMain /\ InMain'
    BY <1>9, <1>c, PrintSame DEF MainCallsDelay, MainWait, MainPrint, InMain
  <2> QED
    BY <1>0, <2>1, ListFrame DEF ListInv, Bring, Load, InMain
<1>10. CASE bsp_sdram_test
  BY <1>0, <1>10 DEF bsp_sdram_test, ListInv, Bring, Load, InMain
<1>11. CASE CopyData
  BY <1>0, <1>b, <1>11 DEF CopyData, ListInv, Bring, Load, InMain, Raw
<1>12. CASE SCB_CleanDCache \/ SCB_InvalidateDCache
            \/ PrintStamp("print", "append_tty") \/ PrintStamp("print2", "prepare")
  <2>1. UNCHANGED mods /\ SameBlocks
    BY <1>12, <1>c, PrintSame DEF SCB_CleanDCache, SCB_InvalidateDCache, PrintStamp
  <2> QED
    BY <1>0, <1>12, <2>1, ListFrame DEF SCB_CleanDCache, SCB_InvalidateDCache, PrintStamp,
       ListInv, ModInv, Bring, Load, InMain
<1>13. CASE Append("append_tty", tty, "append_lcd") \/ Append("append_lcd", lcd, "print2")
  <2>1. Raw(tty) /\ Raw(lcd) /\ UNCHANGED <<state, des, blocks>>
    BY <1>0, <1>13 DEF Append, M!bsp_module_append, ListInv
  <2>2. Raw(tty)' /\ Raw(lcd)'
    BY <2>1 DEF Raw
  <2>3. CASE Append("append_tty", tty, "append_lcd")
    BY <1>0, <1>b, <2>1, <2>2, <2>3 DEF Append, M!bsp_module_append, M!SlistAppend, M!list,
       ListInv, ModInv, Raw, Bring, Load, InMain
  <2>4. CASE Append("append_lcd", lcd, "print2")
    BY <1>0, <1>b, <2>1, <2>2, <2>4 DEF Append, M!bsp_module_append, M!SlistAppend, M!list,
       ListInv, ModInv, Raw, Bring, Load, InMain
  <2> QED
    BY <1>13, <2>3, <2>4
<1>14. CASE BeginLoop("prepare") \/ EndLoop("prepare", "setup")
            \/ BeginLoop("setup") \/ EndLoop("setup", "main")
  BY <1>0, <1>b, <1>14 DEF BeginLoop, EndLoop, M!Begin, M!End, M!list, ListInv, ModInv,
     Bring, Load, InMain, Raw, Ready, Settled
<1>15. CASE Prepare
  <2>1. step = "prepare" /\ op = "prepare" /\ cur \in {tty, lcd}
    BY <1>0, <1>b, <1>15 DEF Prepare, M!In, ModInv
  <2>2. /\ step' = "prepare" /\ UNCHANGED <<op, head, tail, next>> /\ cur' = next[cur]
    BY <1>15 DEF Prepare, M!PrepareOk, M!PrepareFail, M!Advance, M!list
  <2>3. Raw(cur) /\ (cur = lcd => Ready(tty)) /\ (cur = tty => Raw(lcd))
    BY <1>0, <2>1 DEF ListInv
  <2>4. ASSUME NEW m \in {tty, lcd}, m # cur
        PROVE  (Raw(m) => Raw(m)') /\ (Ready(m) => Ready(m)')
    BY <1>0, <1>b, <1>15, <2>4 DEF Prepare, M!PrepareOk, M!PrepareFail, M!SetState, sbrk, sbrkFails,
       Handed, Raw, Ready, ModInv
  <2>5. ASSUME NEW m \in {tty, lcd}, m = cur
        PROVE  Ready(m)'
    BY <1>0, <1>b, <1>15, <2>1, <2>3, <2>5 DEF Prepare, M!PrepareOk, M!PrepareFail, M!SetState,
       sbrk, sbrkFails, Handed, Raw, Ready, ModInv
  <2>6. CASE cur = tty
    BY <1>0, <1>b, <2>1, <2>2, <2>3, <2>4, <2>5, <2>6 DEF ListInv, Bring, Load, InMain
  <2>7. CASE cur = lcd
    BY <1>0, <1>b, <2>1, <2>2, <2>3, <2>4, <2>5, <2>7 DEF ListInv, Bring, Load, InMain
  <2> QED
    BY <2>1, <2>6, <2>7
<1>16. CASE Setup
  <2>1. step = "setup" /\ op = "setup" /\ cur \in {tty, lcd}
    BY <1>0, <1>b, <1>16 DEF Setup, M!In, M!SetupSkip, M!SetupFail, M!SetupOk, ModInv
  <2>2. /\ step' = "setup" /\ UNCHANGED <<op, head, tail, next, blocks>> /\ cur' = next[cur]
    BY <1>16 DEF Setup, M!SetupSkip, M!SetupFail, M!SetupOk, M!Advance, M!list
  <2>3. Ready(cur) /\ (cur = lcd => Settled(tty)) /\ (cur = tty => Ready(lcd))
    BY <1>0, <2>1 DEF ListInv
  <2> QED
    BY <1>0, <1>b, <1>16, <2>1, <2>2, <2>3 DEF Setup, M!SetupSkip, M!SetupFail, M!SetupOk, M!SetState,
       Ready, Settled, ListInv, ModInv, Bring, Load, InMain
<1> QED
  BY <1>1, <1>2, <1>3, <1>4, <1>5, <1>6, <1>7, <1>8, <1>9, <1>10, <1>11, <1>12, <1>13, <1>14, <1>15, <1>16, Zenon
     DEF Next, Thread, Command

(***************************************************************************)
(* The theorems                                                            *)
(***************************************************************************)
(* Power-up with any content of the DTCM *)
LEMMA InitIInv == Init => IInv
<1> SUFFICES ASSUME Init PROVE IInv
  OBVIOUS
<1>1. MemInv /\ ChipInv /\ CacheInv /\ ListInv
  BY DEF Init, MemInv, ChipInv, CacheInv, ListInv, Steps, Early, Bring, Load, Late, InMain
<1>2. TimeInv
  <2>1. 0 \in 0 .. Range - 1 /\ Range - 1 \in 0 .. Range - 1 /\ 0 \in 0 .. MaxElapsed /\ HSI \in Clocks
    BY TickAssumption DEF T!TickAssumption
  <2> QED
    BY <2>1 DEF Init, TimeInv
<1>3. HeapInv
  <2>1. HeapLow \in Nat \ {0} /\ HeapHighs \subseteq Nat
    BY BootAssumption
  <2> QED
    BY <2>1 DEF Init, HeapInv, Break
<1>4. ModInv
  BY DEF Init, ModInv, M!States
<1> QED
  BY <1>1, <1>2, <1>3, <1>4 DEF IInv

(* Every step of bsp_init, main and SysTick_Handler, and a reset at any    *)
(* time, keep the invariant.                                               *)
THEOREM Invariance == Spec => []IInv
<1>1. ASSUME IInv, [Next]_vars PROVE IInv'
  BY <1>1, MemStep, ChipStep, TimeStep, CacheStep, HeapStep, ModStep, ListStep, Zenon DEF IInv
<1> QED
  BY <1>1, InitIInv, PTL DEF Spec

(* No step of bsp_init or main, no SysTick and no driver's interrupt uses  *)
(* an object before its memory is loaded, after any number of resets.      *)
THEOREM LoadedBeforeUse == Spec => []UsesLoaded
<1>1. ASSUME IInv PROVE UsesLoaded
  <2>1. MemInv /\ ModInv
    BY <1>1 DEF IInv
  <2>2. ASSUME NEW o, step = "Reset_Handler" \/ step \in Early \cup Bring \cup Load,
               step \in DOMAIN Uses, o \in Uses[step]
        PROVE  step # "Reset_Handler" /\ Place(o) = "dtcm"
    BY <2>2 DEF Uses, Place, Early, Bring, Load
  <2>3. Place("hal") = "dtcm"
    BY DEF Place
  <2>4. ASSUME NEW o PROVE Place(o) \in {"dtcm", "sdram"}
    BY DEF Place
  <2>5. step \in DOMAIN Uses => \A o \in Uses[step] : mem[Place(o)] = "loaded"
    BY <2>1, <2>2, <2>4 DEF MemInv, Steps
  <2>6. tickint => mem[Place("hal")] = "loaded"
    BY <2>1, <2>3 DEF MemInv
  <2>7. \A m \in Modules : armed[m] => mem["sdram"] = "loaded"
    BY <2>1 DEF MemInv, ModInv, Late
  <2> QED
    BY <2>5, <2>6, <2>7 DEF UsesLoaded
<1> QED
  BY <1>1, Invariance, PTL

(* The SDRAM is used only after its whole protocol, the pause of a full    *)
(* millisecond included, and bsp_sdram_init's assertions never fail.       *)
THEOREM SdramBroughtUp == Spec => []SdramUp
<1>1. IInv => SdramUp
  BY DEF IInv, MemInv, ChipInv, SdramUp, Steps, Early, Bring, Load, Late
<1> QED
  BY <1>1, Invariance, PTL

(* The invalidation of the cache in bsp_earlyinit_crt0 drops no write. *)
THEOREM InvalidateIsSafe == Spec => []NothingLost
<1>1. IInv => NothingLost
  BY DEF IInv, CacheInv, NothingLost
<1> QED
  BY <1>1, Invariance, PTL

(* For every size of the heap the blocks of _sbrk are disjoint and inside. *)
THEOREM HeapRight == Spec => []HeapSound
<1>1. IInv => HeapSound
  BY DEF IInv, HeapInv, HeapSound
<1> QED
  BY <1>1, Invariance, PTL

(* main finds both modules registered in order and settled, whatever the   *)
(* memories held when the program started.                                 *)
THEOREM MainFindsModules == Spec => []Registered
<1>1. ASSUME IInv, InMain PROVE Registered
  <2>1. Modules = {tty, lcd} /\ tty # lcd /\ Settled(tty) /\ Settled(lcd)
    BY <1>1, BootAssumption DEF IInv, ListInv
  <2>2. head = tty /\ tail = lcd /\ next[tty] = lcd /\ next[lcd] = Nil
    BY <1>1 DEF IInv, ListInv, InMain
  <2>3. M!Represents(<<tty, lcd>>)
    BY <2>1, <2>2 DEF M!Represents
  <2> QED
    BY <2>1, <2>3 DEF Registered, Settled
<1>2. IInv => Registered
  BY <1>1 DEF Registered
<1> QED
  BY <1>2, Invariance, PTL
(***************************************************************************)
(* The way to main                                                         *)
(***************************************************************************)
(* How many steps of the thread are at most ahead of it before main, polls *)
(* of a delay not counted: the statements of bsp_init, and what each of    *)
(* the two loops still has to do.                                          *)
ToGo ==
  [ Reset_Handler |-> 32, mpu |-> 31, cache |-> 30, HAL_Init |-> 29, clk |-> 28,
    misc |-> 27, debug |-> 26, module_init |-> 25, sd_init |-> 24, sd_clk |-> 23,
    sd_delay |-> 22, sd_wait |-> 21, sd_pall |-> 20, sd_refresh |-> 19, sd_mode |-> 18,
    sd_rate |-> 17, sd_test |-> 16, crt0_copy |-> 15, crt0_clean |-> 14,
    crt0_invalidate |-> 13, print |-> 12, append_tty |-> 11, append_lcd |-> 10,
    print2 |-> 9, prepare |-> 8, setup |-> 4,
    main |-> 0, main_delay |-> 0, main_wait |-> 0 ]

Passed == IF op = "none" THEN 0
          ELSE IF cur = tty THEN 1 ELSE IF cur = lcd THEN 2 ELSE 3

Ahead == ToGo[step] - Passed

(* Loops are in progress only at their statements, and the count is one. *)
Counted ==
  /\ Passed \in 0 .. 3
  /\ step \notin {"prepare", "setup"} => Passed = 0
  /\ step # "assert_clk" => ToGo[step] \in Nat /\ Ahead \in 0 .. 32

LEMMA AheadIs == IInv => Counted
<1> SUFFICES ASSUME IInv PROVE Counted
  OBVIOUS
<1>1. ModInv /\ step \in Steps
  BY DEF IInv, MemInv
<1>2. Passed \in 0 .. 3 /\ (op = "none" => Passed = 0)
  BY DEF Passed
<1>3. step \notin {"prepare", "setup"} => Passed = 0
  BY <1>1, <1>2 DEF ModInv
<1>4. step # "assert_clk" => /\ ToGo[step] \in 0 .. 32
                             /\ step \in {"prepare", "setup"} => ToGo[step] \in {4, 8}
  BY <1>1 DEF Steps, Early, Bring, Load, Late, ToGo
<1> QED
  BY <1>2, <1>3, <1>4 DEF Ahead, Counted

LEMMA AheadNext == IInv' => Counted'
  BY AheadIs, PTL

(* The step is a step forward. *)
Nearer ==
  /\ step # "assert_clk" /\ step' # "assert_clk"
  /\ Ahead' < Ahead

(* Statements that are not part of a loop lead to one that is nearer. *)
LEMMA NextStatement ==
  ASSUME IInv, IInv', step \notin {"prepare", "setup"}, step # "assert_clk",
         step' # "assert_clk", op' = "none", ToGo[step'] < ToGo[step]
  PROVE  Nearer
<1>1. Passed = 0 /\ Passed' = 0
  BY AheadIs DEF Passed, Counted
<1>2. ToGo[step] \in Nat /\ ToGo[step'] \in Nat
  BY AheadIs, AheadNext DEF Counted, ToGo
<1> QED
  BY <1>1, <1>2 DEF Ahead, Nearer, ToGo

(* What each step of the thread does on the way to main *)
LEMMA Advances ==
  ASSUME IInv, IInv', Thread
  PROVE  \/ step = "sd_wait" /\ UNCHANGED step /\ ~T!Due
         \/ InMain /\ InMain'
         \/ step = "clk" /\ step' = "assert_clk"
         \/ Nearer
<1>b. /\ Modules = {tty, lcd} /\ Nil \notin Modules /\ tty # lcd
  BY BootAssumption
<1>m. ModInv /\ ListInv
  BY DEF IInv
<1>a. ASSUME UNCHANGED op, step \notin {"prepare", "setup"}, step # "assert_clk",
             step' # "assert_clk", ToGo[step'] < ToGo[step]
      PROVE  Nearer
  BY <1>a, <1>m, NextStatement DEF ModInv
<1>1. CASE Reset_Handler \/ bsp_earlyinit_mpu \/ bsp_earlyinit_cache \/ HAL_Init
  BY <1>a, <1>1 DEF Reset_Handler, bsp_earlyinit_mpu, bsp_earlyinit_cache, HAL_Init, ToGo
<1>2. CASE bsp_earlyinit_clk
  BY <1>a, <1>2 DEF bsp_earlyinit_clk, ToGo
<1>3. CASE bsp_earlyinit_misc \/ bsp_debug_init \/ bsp_module_init \/ HAL_SDRAM_Init
  BY <1>a, <1>3 DEF bsp_earlyinit_misc, bsp_debug_init, bsp_module_init, HAL_SDRAM_Init, ToGo
<1>4. CASE Command
  <2>1. step \in {"sd_clk", "sd_pall", "sd_refresh", "sd_mode"}
    BY <1>4 DEF Command, HAL_SDRAM_SendCommand
  <2>2. hsd \in {"READY", "PRECHARGED"}
    BY <2>1 DEF IInv, ChipInv
  <2> QED
    BY <1>a, <1>4, <2>2 DEF Command, HAL_SDRAM_SendCommand, ToGo
<1>5. CASE SdramDelay \/ HAL_SDRAM_ProgramRefreshRate
  BY <1>a, <1>5 DEF SdramDelay, HAL_SDRAM_ProgramRefreshRate, ToGo
<1>6. CASE SdramWait
  <2>1. CASE T!Due
    BY <1>a, <1>6, <2>1 DEF SdramWait, T!DelayPoll, T!Returns, ToGo
  <2>2. CASE ~T!Due
    BY <1>6, <2>2 DEF SdramWait, T!DelayPoll, T!Returns
  <2> QED
    BY <2>1, <2>2
<1>7. CASE bsp_sdram_test \/ CopyData \/ SCB_CleanDCache \/ SCB_InvalidateDCache
  BY <1>a, <1>7 DEF bsp_sdram_test, CopyData, SCB_CleanDCache, SCB_InvalidateDCache, ToGo
<1>8. CASE PrintStamp("print", "append_tty") \/ PrintStamp("print2", "prepare")
           \/ Append("append_tty", tty, "append_lcd") \/ Append("append_lcd", lcd, "print2")
  BY <1>a, <1>8 DEF PrintStamp, Append, M!bsp_module_append, ToGo
<1>9. CASE BeginLoop("prepare") \/ BeginLoop("setup")
  <2>1. step \in {"prepare", "setup"} /\ UNCHANGED step /\ op = "none" /\ op' # "none" /\ cur' = tty
    BY <1>9, <1>m DEF BeginLoop, M!Begin, ListInv
  <2>2. Passed = 0 /\ Passed' = 1
    BY <2>1 DEF Passed
  <2> QED
    BY <2>1, <2>2 DEF Ahead, Nearer, ToGo
<1>10. CASE Prepare \/ Setup
  <2>1. /\ step \in {"prepare", "setup"} /\ UNCHANGED step
        /\ op # "none" /\ UNCHANGED op /\ cur \in {tty, lcd} /\ cur' = next[cur]
    BY <1>10, <1>b, <1>m DEF Prepare, Setup, M!In, M!PrepareOk, M!PrepareFail, M!SetupSkip,
       M!SetupFail, M!SetupOk, M!Advance, ModInv
  <2>2. next[tty] = lcd /\ next[lcd] = Nil
    BY <1>m, <2>1 DEF ListInv
  <2>3. \/ Passed = 1 /\ Passed' = 2
        \/ Passed = 2 /\ Passed' = 3
    BY <1>b, <2>1, <2>2 DEF Passed
  <2> QED
    BY <2>1, <2>3 DEF Ahead, Nearer, ToGo
<1>11. CASE EndLoop("prepare", "setup") \/ EndLoop("setup", "main")
  <2>1. /\ \/ step = "prepare" /\ step' = "setup"
           \/ step = "setup" /\ step' = "main"
        /\ op # "none" /\ cur = Nil /\ op' = "none"
    BY <1>11 DEF EndLoop, M!End
  <2>2. Passed = 3 /\ Passed' = 0
    BY <1>b, <2>1 DEF Passed
  <2> QED
    BY <2>1, <2>2 DEF Ahead, Nearer, ToGo
<1>12. CASE MainPrint \/ MainCallsDelay \/ MainWait
  BY <1>12 DEF MainPrint, MainCallsDelay, MainWait, InMain
<1> QED
  BY <1>1, <1>2, <1>3, <1>4, <1>5, <1>6, <1>7, <1>8, <1>9, <1>10, <1>11, <1>12, Zenon
     DEF Thread, Command

(* The safety half of KeepsPrinting: unless it polls a delay that is not   *)
(* over yet or runs into the assertion on the clocks, each step of the     *)
(* thread outside main brings it nearer to main, of which it is at most 32 *)
(* steps away; it never goes back in bsp_init, and never leaves main's     *)
(* loop (bsp_init, both loops over the modules included).                  *)
THEOREM BootMovesOn ==
  Spec => [][Thread => \/ step = "sd_wait" /\ UNCHANGED step /\ ~T!Due
                       \/ InMain /\ InMain'
                       \/ step = "clk" /\ step' = "assert_clk"
                       \/ Ahead' < Ahead /\ Ahead \in 0 .. 32 /\ Ahead' \in 0 .. 32]_vars
<1>1. ASSUME IInv, IInv', Thread
      PROVE  \/ step = "sd_wait" /\ UNCHANGED step /\ ~T!Due
             \/ InMain /\ InMain'
             \/ step = "clk" /\ step' = "assert_clk"
             \/ Ahead' < Ahead /\ Ahead \in 0 .. 32 /\ Ahead' \in 0 .. 32
  BY <1>1, Advances, AheadIs, AheadNext DEF Nearer, Counted
<1> QED
  BY <1>1, Invariance, PTL
=============================================================================
