------------------------------ MODULE HalTick ------------------------------
(***************************************************************************)
(* The time base of the HAL (stm32h7xx_hal.c): SysTick adds uwTickFreq to  *)
(* the wrapping counter uwTick, HAL_Delay polls the difference.  The       *)
(* SysTick period is programmed in core cycles, so every change of the     *)
(* core clock or of uwTickFreq has to program it again.                    *)
(*                                                                         *)
(* A clock is given in cycles per millisecond and Range stands for 2^32.   *)
(* elapsed is a history variable: the sum of the SysTick periods, in       *)
(* milliseconds, that ended since HAL_Delay was called.  The first of them *)
(* may have begun before the call, so elapsed minus one period has surely  *)
(* passed.                                                                 *)
(***************************************************************************)
EXTENDS Integers

CONSTANTS
  Range,       \* uwTick counts modulo Range
  Freqs,       \* HAL_TickFreqTypeDef: milliseconds per tick
  DefaultFreq, \* HAL_TICK_FREQ_DEFAULT
  Clocks,      \* core clocks the program may select
  HSI,         \* the core clock after reset
  ReloadMax,   \* SysTick_LOAD_RELOAD_Msk
  Delays,      \* arguments of HAL_Delay
  Lag,         \* ticks that may pass between two polls, beyond the first
  MaxElapsed   \* elapsed stays here once it is reached

HAL_MAX_DELAY == Range - 1

ASSUME TickAssumption ==
  /\ Range \in Nat \ {0} /\ ReloadMax \in Nat
  /\ Freqs \subseteq 1 .. Range - 1 /\ DefaultFreq \in Freqs
  /\ Clocks \subseteq Nat \ {0} /\ HSI \in Clocks
  /\ HSI * DefaultFreq <= ReloadMax + 1
  /\ Delays \subseteq 0 .. HAL_MAX_DELAY
  /\ Lag \in Nat
  /\ MaxElapsed \in Nat /\ MaxElapsed >= 2 * Range

VARIABLES
  uwTick, uwTickFreq,
  clock,     \* the core clock, and SystemCoreClock
  period,    \* core cycles from one SysTick interrupt to the next
  tickint,   \* SysTick counts and its interrupt is enabled
  pc,        \* where the thread is
  tickstart, wait, want,  \* locals of HAL_Delay, and its argument
  elapsed, unpolled

tick == <<uwTick, uwTickFreq, clock, period, tickint>>
call == <<tickstart, wait, want, elapsed, unpolled>>
vars == <<uwTick, uwTickFreq, clock, period, tickint, pc,
          tickstart, wait, want, elapsed, unpolled>>

(* After reset SysTick is off; data and bss have been loaded. *)
Init ==
  /\ uwTick = 0 /\ uwTickFreq = DefaultFreq
  /\ clock = HSI /\ period = 0 /\ tickint = FALSE
  /\ pc = "reset"
  /\ tickstart = 0 /\ wait = 0 /\ want = 0
  /\ elapsed = 0 /\ unpolled = 0

(* HAL_InitTick's argument of SysTick_Config: core cycles per tick *)
CyclesPerTick(c, f) == c * f
(* SysTick_Config refuses a value its 24 bit register cannot hold, before  *)
(* it writes any register.                                                 *)
ReloadFits(c, f) == CyclesPerTick(c, f) - 1 \in 0 .. ReloadMax

(* The successful HAL_InitTick also turns a suspended tick on again.  It   *)
(* does not refuse the priority: HAL_Init passes 15 of 16, and HAL_Init    *)
(* comes before the calls that pass uwTickPrio.                            *)
HAL_InitTick(c, f) == period' = CyclesPerTick(c, f) /\ tickint' = TRUE

(* bsp_init ignores the result, but with the clock of a reset it is HAL_OK *)
HAL_Init ==
  /\ pc = "reset"
  /\ HAL_InitTick(clock, uwTickFreq)
  /\ pc' = "idle"
  /\ UNCHANGED <<uwTick, uwTickFreq, clock>> /\ UNCHANGED call

(* SysTick_Handler: HAL_IncTick *)
HAL_IncTick ==
  /\ tickint
  /\ pc = "delay" => unpolled <= Lag
  /\ uwTick' = (uwTick + uwTickFreq) % Range
  /\ IF pc = "delay"
       THEN /\ unpolled' = unpolled + 1
            /\ elapsed' = IF elapsed + period \div clock > MaxElapsed
                            THEN MaxElapsed ELSE elapsed + period \div clock
       ELSE UNCHANGED <<unpolled, elapsed>>
  /\ UNCHANGED <<uwTickFreq, clock, period, tickint, pc, tickstart, wait, want>>

(* Mutant: the frequency is not put back when HAL_InitTick refuses it. *)
SetTickFreqKeeps(Freq) ==
  /\ pc = "idle"
  /\ uwTickFreq # Freq
  /\ uwTickFreq' = Freq
  /\ IF ReloadFits(clock, Freq) THEN HAL_InitTick(clock, Freq) ELSE UNCHANGED <<period, tickint>>
  /\ UNCHANGED <<uwTick, clock, pc>> /\ UNCHANGED call

(* uwTickFreq is restored when HAL_InitTick fails.  The store of           *)
(* uwTickFreq and the new reload value are one step, as are the switch and *)
(* the reload value below: a SysTick between them, which the code allows,  *)
(* counts one period with the frequency or clock that is not its own.      *)
HAL_SetTickFreq(Freq) ==
  /\ pc = "idle"
  /\ uwTickFreq # Freq
  /\ \/ /\ ReloadFits(clock, Freq)
        /\ uwTickFreq' = Freq
        /\ HAL_InitTick(clock, Freq)
     \/ /\ ~ReloadFits(clock, Freq)
        /\ UNCHANGED <<uwTickFreq, period, tickint>>
  /\ UNCHANGED <<uwTick, clock, pc>> /\ UNCHANGED call

(* The clock is switched first.  When HAL_InitTick then fails the new      *)
(* clock stays with the old period; the caller asserts HAL_OK and stops.   *)
HAL_RCC_ClockConfig(c) ==
  /\ pc = "idle"
  /\ \/ /\ clock' = c
        /\ ReloadFits(c, uwTickFreq)
        /\ HAL_InitTick(c, uwTickFreq)
        /\ pc' = "idle"
     \/ /\ clock' = c
        /\ ~ReloadFits(c, uwTickFreq)
        /\ pc' = "halted"
        /\ UNCHANGED <<period, tickint>>
     \/ /\ pc' = "halted"  \* no PLL, or the switch timed out
        /\ UNCHANGED <<clock, period, tickint>>
  /\ UNCHANGED <<uwTick, uwTickFreq>> /\ UNCHANGED call

HAL_SuspendTick ==
  /\ pc = "idle" /\ tickint
  /\ tickint' = FALSE
  /\ UNCHANGED <<uwTick, uwTickFreq, clock, period, pc>> /\ UNCHANGED call

HAL_ResumeTick ==
  /\ pc = "idle" /\ ~tickint
  /\ tickint' = TRUE
  /\ UNCHANGED <<uwTick, uwTickFreq, clock, period, pc>> /\ UNCHANGED call

(***************************************************************************)
(* HAL_Delay: the call, and the polls of its loop                          *)
(***************************************************************************)

(* Mutant: no tick is added for the period that has already begun. *)
WaitExact(Delay) == Delay

(* "Add a freq to guarantee minimum wait"; the sum is 32 bits wide. *)
Wait(Delay) ==
  IF Delay < HAL_MAX_DELAY THEN (Delay + uwTickFreq) % Range ELSE Delay

HAL_Delay(Delay) ==
  /\ pc = "idle"
  /\ pc' = "delay"
  /\ tickstart' = uwTick
  /\ want' = Delay
  /\ wait' = Wait(Delay)
  /\ elapsed' = 0 /\ unpolled' = 0
  /\ UNCHANGED tick

(* Mutant: the deadline is computed and compared instead of the difference. *)
PastDeadline == uwTick >= (tickstart + wait) % Range

(* Mutant: the difference is taken without the wrap. *)
DiffUnwrapped == uwTick - tickstart >= wait

(* the exit condition of the loop, on unsigned 32 bit values *)
Due == (uwTick - tickstart) % Range >= wait

DelayPoll ==
  /\ pc = "delay"
  /\ \/ /\ ~Due
        /\ unpolled' = 0
        /\ UNCHANGED <<pc, tickstart, wait, want, elapsed>>
     \/ /\ Due
        /\ pc' = "idle"  \* and the locals are gone
        /\ tickstart' = 0 /\ wait' = 0 /\ want' = 0
        /\ elapsed' = 0 /\ unpolled' = 0
  /\ UNCHANGED tick

Next ==
  \/ HAL_Init
  \/ HAL_IncTick
  \/ \E f \in Freqs : HAL_SetTickFreq(f)
  \/ \E c \in Clocks : HAL_RCC_ClockConfig(c)
  \/ HAL_SuspendTick \/ HAL_ResumeTick
  \/ \E d \in Delays : HAL_Delay(d)
  \/ DelayPoll

Spec == Init /\ [][Next]_vars

(* The timer counts while it is enabled and the loop of HAL_Delay runs. *)
FairSpec == Spec /\ WF_vars(HAL_IncTick) /\ WF_vars(DelayPoll)

(***************************************************************************)
(* Properties                                                              *)
(***************************************************************************)
TypeOK ==
  /\ uwTick \in 0 .. Range - 1 /\ uwTickFreq \in Freqs
  /\ clock \in Clocks /\ period \in Nat /\ tickint \in BOOLEAN
  /\ pc \in {"reset", "idle", "delay", "halted"}
  /\ tickstart \in 0 .. Range - 1 /\ wait \in 0 .. Range - 1
  /\ want \in 0 .. HAL_MAX_DELAY
  /\ elapsed \in 0 .. MaxElapsed /\ unpolled \in 0 .. Lag + 1

(* Whatever clock changes, refused frequencies and suspensions came before,*)
(* a SysTick period lasts as long as HAL_IncTick counts for it (the        *)
(* roll-back of HAL_SetTickFreq, the re-programming in HAL_RCC_ClockConfig)*)
PeriodMatches ==
  pc \in {"idle", "delay"} => period = CyclesPerTick(clock, uwTickFreq)

Returns == pc = "delay" /\ pc' = "idle"

(* the call for which the loop's end is seen in time: one of the values    *)
(* from wait to the wrap is met by a poll                                  *)
InTime == wait + (Lag + 1) * uwTickFreq <= Range

(* "This function provides minimum delay": when HAL_Delay returns, Delay   *)
(* milliseconds have passed since the call, across the wrap of uwTick and  *)
(* although the period under way at the call was cut.  Left out are        *)
(* arguments for which Delay + uwTickFreq overflows, and HAL_MAX_DELAY.    *)
DelayAtLeast ==
  [][Returns /\ want + uwTickFreq < Range => elapsed - uwTickFreq >= want]_vars

(* HAL_Delay does not miss its end and wait for another round of the       *)
(* counter: it returns within Lag + 1 ticks after wait.                    *)
DelayAtMost ==
  [][Returns /\ InTime => elapsed <= wait + (Lag + 1) * uwTickFreq]_vars

(* With a running tick every HAL_Delay whose end can be seen returns.      *)
DelayReturns == (pc = "delay" /\ tickint /\ InTime) ~> pc # "delay"
=============================================================================
