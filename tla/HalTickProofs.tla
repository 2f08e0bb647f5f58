--------------------------- MODULE HalTickProofs ---------------------------
(***************************************************************************)
(* Proofs about HalTick, for every width of the counter, every set of tick *)
(* frequencies and clocks and every number of ticks between two polls.     *)
(***************************************************************************)
EXTENDS HalTick, TLAPS

-----------------------------------------------------------------------------
(* Arithmetic of wrapping counters and of the periods of SysTick *)

(* The remainder of a number that is at most one turn away *)
LEMMA ModUp ==
  ASSUME NEW R \in Nat \ {0}, NEW u \in 0 .. R - 1, NEW f \in 0 .. R - 1
  PROVE  (u + f) % R = IF u + f < R THEN u + f ELSE u + f - R
  BY Z3

LEMMA ModDown ==
  ASSUME NEW R \in Nat \ {0}, NEW x \in -R .. R - 1
  PROVE  x % R = IF x >= 0 THEN x ELSE x + R
  BY Z3

(* A period of c * f cycles lasts f milliseconds at c cycles per ms. *)
LEMMA DivExact ==
  ASSUME NEW c \in Nat \ {0}, NEW f \in Nat
  PROVE  (c * f) \div c = f
  BY Z3

(* One more tick, and at most L of them *)
LEMMA OneMore ==
  ASSUME NEW n \in Nat, NEW L \in Nat, NEW f \in Nat
  PROVE  /\ (n + 1) * f = n * f + f
         /\ n <= L => n * f <= L * f
         /\ n * f \in Nat
  BY Z3

(* A tick moves the difference of two values of a counter by f, or by f    *)
(* less one turn.                                                          *)
LEMMA TurnStep ==
  ASSUME NEW R \in Nat \ {0},
         NEW u \in 0 .. R - 1, NEW t \in 0 .. R - 1, NEW f \in 1 .. R - 1
  PROVE  LET v == (u + f) % R
         IN  /\ (u - t) % R \in 0 .. R - 1
             /\ ((u - t) % R) + f < R => (v - t) % R = ((u - t) % R) + f
             /\ (v - t) % R <= ((u - t) % R) + f
<1>1. PICK v \in 0 .. R - 1 :
         /\ v = (u + f) % R
         /\ v = IF u + f < R THEN u + f ELSE u + f - R
  <2>1. f \in 0 .. R - 1
    OBVIOUS
  <2>2. (u + f) % R = IF u + f < R THEN u + f ELSE u + f - R
    BY <2>1, ModUp
  <2> QED
    BY <2>1, <2>2
<1>2. (u - t) % R = IF u - t >= 0 THEN u - t ELSE u - t + R
  <2>1. u - t \in -R .. R - 1
    OBVIOUS
  <2> QED
    BY <2>1, ModDown
<1>3. (v - t) % R = IF v - t >= 0 THEN v - t ELSE v - t + R
  <2>1. v - t \in -R .. R - 1
    OBVIOUS
  <2> QED
    BY <2>1, ModDown
<1> DEFINE d == (u - t) % R
           e == (v - t) % R
<1>4. /\ d = IF u - t >= 0 THEN u - t ELSE u - t + R
      /\ e = IF v - t >= 0 THEN v - t ELSE v - t + R
  BY <1>2, <1>3
<1> HIDE DEF d, e
<1>5. /\ d \in 0 .. R - 1
      /\ d + f < R => e = d + f
      /\ e <= d + f
  BY <1>1, <1>4
<1> QED
  BY <1>1, <1>5 DEF d, e

-----------------------------------------------------------------------------

Diff(u, t) == (u - t) % Range

(* A tick moves the difference by f, or by f less one turn. *)
LEMMA DiffStep ==
  ASSUME NEW u \in 0 .. Range - 1, NEW t \in 0 .. Range - 1,
         NEW f \in 1 .. Range - 1
  PROVE  /\ Diff(u, t) \in 0 .. Range - 1
         /\ Diff(u, t) + f < Range => Diff((u + f) % Range, t) = Diff(u, t) + f
         /\ Diff((u + f) % Range, t) <= Diff(u, t) + f
<1>1. Range \in Nat \ {0}
  BY TickAssumption
<1> QED
  BY <1>1, TurnStep, Zenon DEF Diff

(***************************************************************************)
(* The invariant: what the history of a HAL_Delay says about its locals    *)
(***************************************************************************)

(* wait is the sum the code means unless that sum overflows; the counter   *)
(* has moved by elapsed modulo its turns; and a call whose end can be seen *)
(* is not behind its last poll by more than the ticks since then.          *)
DelayInv ==
  pc = "delay" =>
    /\ want + uwTickFreq < Range => wait = want + uwTickFreq
    /\ Diff(uwTick, tickstart) <= elapsed
    /\ elapsed < Range => Diff(uwTick, tickstart) = elapsed
    /\ InTime => /\ elapsed <= wait + unpolled * uwTickFreq
                 /\ wait > 0 => elapsed < wait + unpolled * uwTickFreq

IInv == TypeOK /\ PeriodMatches /\ DelayInv

LEMMA InitIInv == Init => IInv
<1> SUFFICES ASSUME Init PROVE IInv
  OBVIOUS
<1>1. 0 \in 0 .. Range - 1 /\ 0 \in 0 .. MaxElapsed /\ 0 \in 0 .. Lag + 1
  BY TickAssumption
<1>2. TypeOK
  BY <1>1, TickAssumption DEF Init, TypeOK, HAL_MAX_DELAY
<1>3. PeriodMatches /\ DelayInv
  BY DEF Init, PeriodMatches, DelayInv
<1> QED
  BY <1>2, <1>3 DEF IInv

(* Outside a HAL_Delay the locals of the loop say nothing. *)
LEMMA QuietStep ==
  ASSUME IInv, pc # "delay", pc' # "delay",
         TypeOK', PeriodMatches'
  PROVE  IInv'
  BY DEF IInv, DelayInv

(* A tick adds to elapsed exactly what it adds to uwTick. *)
LEMMA IncTickStep ==
  ASSUME IInv, HAL_IncTick
  PROVE  IInv'
<1>0. /\ Range \in Nat \ {0} /\ MaxElapsed \in Nat /\ MaxElapsed >= 2 * Range
      /\ Lag \in Nat
      /\ uwTickFreq \in 1 .. Range - 1 /\ clock \in Nat \ {0}
  BY TickAssumption DEF IInv, TypeOK
<1>1. uwTick' \in 0 .. Range - 1
  <2>1. uwTick + uwTickFreq \in Nat
    BY <1>0 DEF IInv, TypeOK
  <2> QED
    BY <1>0, <2>1 DEF HAL_IncTick
<1>2. PeriodMatches'
  BY DEF IInv, PeriodMatches, HAL_IncTick
<1>3. CASE pc # "delay"
  <2>1. TypeOK'
    BY <1>0, <1>1, <1>3 DEF IInv, TypeOK, HAL_IncTick
  <2> QED
    BY <1>2, <1>3, <2>1, QuietStep DEF HAL_IncTick
<1>4. CASE pc = "delay"
  <2>1. period \div clock = uwTickFreq
    BY <1>0, <1>4, DivExact DEF IInv, PeriodMatches, CyclesPerTick
  <2>2. /\ unpolled' = unpolled + 1 /\ unpolled <= Lag
        /\ elapsed' = IF elapsed + uwTickFreq > MaxElapsed
                        THEN MaxElapsed ELSE elapsed + uwTickFreq
        /\ uwTick' = (uwTick + uwTickFreq) % Range
        /\ UNCHANGED <<uwTickFreq, clock, period, tickint, pc, tickstart, wait, want>>
    BY <1>4, <2>1 DEF HAL_IncTick
  <2>3. /\ elapsed \in Nat /\ elapsed' \in Nat /\ elapsed' <= MaxElapsed
        /\ wait \in 0 .. Range - 1 /\ want \in Nat
        /\ unpolled \in Nat
    BY <1>0, <2>2 DEF IInv, TypeOK, HAL_MAX_DELAY
  <2>4. TypeOK'
    BY <1>0, <1>1, <2>2, <2>3 DEF IInv, TypeOK
  <2>5. /\ Diff(uwTick, tickstart) \in 0 .. Range - 1
        /\ Diff(uwTick, tickstart) + uwTickFreq < Range
             => Diff(uwTick', tickstart') = Diff(uwTick, tickstart) + uwTickFreq
        /\ Diff(uwTick', tickstart') <= Diff(uwTick, tickstart) + uwTickFreq
    BY <1>0, <2>2, DiffStep DEF IInv, TypeOK
  <2>6. Diff(uwTick', tickstart') \in 0 .. Range - 1
    <3>1. uwTick' - tickstart' \in Int
      BY <1>0, <1>1, <2>2 DEF IInv, TypeOK
    <3> QED
      BY <1>0, <3>1 DEF Diff
  <2>7. Diff(uwTick', tickstart') <= elapsed'
    BY <1>0, <1>4, <2>2, <2>3, <2>5, <2>6 DEF IInv, DelayInv
  <2>8. elapsed' < Range => Diff(uwTick', tickstart') = elapsed'
    BY <1>0, <1>4, <2>2, <2>3, <2>5, <2>6 DEF IInv, DelayInv
  <2>9. InTime' => /\ elapsed' <= (wait + unpolled * uwTickFreq)'
                   /\ wait' > 0 => elapsed' < (wait + unpolled * uwTickFreq)'
    <3>1. InTime' <=> InTime
      BY <2>2 DEF InTime
    <3>2. /\ (unpolled + 1) * uwTickFreq = unpolled * uwTickFreq + uwTickFreq
          /\ unpolled * uwTickFreq \in Nat
      BY <1>0, <2>3, OneMore
    <3> QED
      BY <1>0, <1>4, <2>2, <2>3, <3>1, <3>2 DEF IInv, DelayInv
  <2>10. (want + uwTickFreq < Range => wait = want + uwTickFreq)'
    BY <1>4, <2>2 DEF IInv, DelayInv
  <2> QED
    BY <1>2, <2>4, <2>7, <2>8, <2>9, <2>10 DEF IInv, DelayInv
<1> QED
  BY <1>3, <1>4

(* The call starts with nothing elapsed; wait is below the turn. *)
LEMMA DelayCallStep ==
  ASSUME IInv, NEW d \in Delays, HAL_Delay(d)
  PROVE  IInv'
<1>0. /\ Range \in Nat \ {0} /\ MaxElapsed \in Nat /\ Lag \in Nat
      /\ uwTickFreq \in 1 .. Range - 1
      /\ d \in 0 .. Range - 1
  BY TickAssumption DEF IInv, TypeOK, HAL_MAX_DELAY
<1>1. wait' = IF d < Range - 1 THEN (d + uwTickFreq) % Range ELSE d
  BY DEF HAL_Delay, Wait, HAL_MAX_DELAY
<1>2. (d + uwTickFreq) % Range
        = IF d + uwTickFreq < Range THEN d + uwTickFreq ELSE d + uwTickFreq - Range
  <2>1. uwTickFreq \in 0 .. Range - 1
    BY <1>0
  <2> QED
    BY <1>0, <2>1, ModUp
<1>3. /\ wait' \in 0 .. Range - 1
      /\ d + uwTickFreq < Range => wait' = d + uwTickFreq
  BY <1>0, <1>1, <1>2
<1>4. TypeOK'
  BY <1>0, <1>3 DEF IInv, TypeOK, HAL_Delay, tick, HAL_MAX_DELAY
<1>5. PeriodMatches'
  BY DEF IInv, PeriodMatches, HAL_Delay, tick
<1>6. Diff(uwTick', tickstart') = 0
  <2>1. uwTick' - tickstart' = 0
    BY <1>0 DEF HAL_Delay, tick, IInv, TypeOK
  <2> QED
    BY <1>0, <2>1 DEF Diff
<1>7. unpolled' * uwTickFreq' = 0
  BY <1>0 DEF HAL_Delay, tick
<1> QED
  BY <1>0, <1>3, <1>4, <1>5, <1>6, <1>7 DEF IInv, DelayInv, HAL_Delay, tick

(* A poll that does not end the loop shows elapsed to be below wait. *)
LEMMA PollStep ==
  ASSUME IInv, DelayPoll
  PROVE  IInv'
<1>0. /\ Range \in Nat \ {0} /\ Lag \in Nat /\ MaxElapsed \in Nat
      /\ uwTickFreq \in 1 .. Range - 1
      /\ wait \in 0 .. Range - 1 /\ elapsed \in Nat
      /\ unpolled \in 0 .. Lag + 1
  BY TickAssumption DEF IInv, TypeOK
<1>1. TypeOK'
  BY <1>0 DEF IInv, TypeOK, DelayPoll, tick, HAL_MAX_DELAY
<1>2. PeriodMatches'
  BY DEF IInv, PeriodMatches, DelayPoll, tick
<1>3. CASE Due
  <2>1. pc' = "idle"
    BY <1>3 DEF DelayPoll
  <2> QED
    BY <1>1, <1>2, <2>1 DEF IInv, DelayInv
<1>4. CASE ~Due
  <2>1. /\ unpolled' = 0 /\ pc = "delay"
        /\ UNCHANGED <<pc, tickstart, wait, want, elapsed, uwTick, uwTickFreq>>
    BY <1>4 DEF DelayPoll, tick
  <2>2. Diff(uwTick, tickstart) < wait
    <3>1. uwTick - tickstart \in Int
      BY <1>0 DEF IInv, TypeOK
    <3>2. Diff(uwTick, tickstart) \in 0 .. Range - 1
      BY <1>0, <3>1 DEF Diff
    <3>3. ~(Diff(uwTick, tickstart) >= wait)
      BY <1>4 DEF Due, Diff
    <3> QED
      BY <1>0, <3>2, <3>3
  <2>3. InTime => elapsed < wait
    <3> SUFFICES ASSUME InTime PROVE elapsed < wait
      OBVIOUS
    <3>0. wait > 0
      <4>1. uwTick - tickstart \in Int
        BY <1>0 DEF IInv, TypeOK
      <4>2. Diff(uwTick, tickstart) \in 0 .. Range - 1
        BY <1>0, <4>1 DEF Diff
      <4> QED
        BY <1>0, <2>2, <4>2
    <3>1. elapsed < wait + unpolled * uwTickFreq
      BY <2>1, <3>0 DEF IInv, DelayInv
    <3>2. unpolled * uwTickFreq <= (Lag + 1) * uwTickFreq /\ unpolled * uwTickFreq \in Nat
      BY <1>0, OneMore
    <3>3. (Lag + 1) * uwTickFreq \in Nat
      BY <1>0, OneMore
    <3>4. elapsed < Range
      BY <1>0, <3>1, <3>2, <3>3 DEF InTime
    <3>5. elapsed < Range => elapsed < wait
      BY <2>1, <2>2 DEF IInv, DelayInv
    <3> QED
      BY <3>4, <3>5
  <2>4. unpolled' * uwTickFreq' = 0
    BY <1>0, <2>1
  <2>5. InTime' <=> InTime
    BY <2>1 DEF InTime
  <2> QED
    BY <1>0, <1>1, <1>2, <2>1, <2>3, <2>4, <2>5 DEF IInv, DelayInv
<1> QED
  BY <1>3, <1>4
LEMMA NextIInv == IInv /\ [Next]_vars => IInv'
<1> SUFFICES ASSUME IInv, [Next]_vars PROVE IInv'
  OBVIOUS
<1>0. HSI \in Nat /\ Range \in Nat \ {0} /\ Freqs \subseteq Nat /\ Clocks \subseteq Nat
  BY TickAssumption
<1>1. CASE HAL_Init
  <2>1. CyclesPerTick(clock, uwTickFreq) \in Nat
    BY <1>0 DEF IInv, TypeOK, CyclesPerTick
  <2>2. TypeOK' /\ PeriodMatches' /\ pc # "delay" /\ pc' # "delay"
    BY <1>1, <2>1 DEF HAL_Init, HAL_InitTick, IInv, TypeOK, PeriodMatches, call
  <2> QED
    BY <2>2, QuietStep
<1>2. CASE HAL_IncTick
  BY <1>2, IncTickStep
<1>3. ASSUME NEW f \in Freqs, HAL_SetTickFreq(f) PROVE IInv'
  <2>1. CyclesPerTick(clock, f) \in Nat
    BY <1>0 DEF IInv, TypeOK, CyclesPerTick
  <2>2. TypeOK' /\ PeriodMatches' /\ pc # "delay" /\ pc' # "delay"
    BY <1>3, <2>1 DEF HAL_SetTickFreq, HAL_InitTick, IInv, TypeOK, PeriodMatches, call
  <2> QED
    BY <2>2, QuietStep
<1>4. ASSUME NEW c \in Clocks, HAL_RCC_ClockConfig(c) PROVE IInv'
  <2>1. CyclesPerTick(c, uwTickFreq) \in Nat
    BY <1>0 DEF IInv, TypeOK, CyclesPerTick
  <2>2. TypeOK' /\ PeriodMatches' /\ pc # "delay" /\ pc' # "delay"
    BY <1>4, <2>1 DEF HAL_RCC_ClockConfig, HAL_InitTick, IInv, TypeOK, PeriodMatches, call
  <2> QED
    BY <2>2, QuietStep
<1>5. CASE HAL_SuspendTick \/ HAL_ResumeTick
  <2>1. TypeOK' /\ PeriodMatches' /\ pc # "delay" /\ pc' # "delay"
    BY <1>5 DEF HAL_SuspendTick, HAL_ResumeTick, IInv, TypeOK, PeriodMatches, call
  <2> QED
    BY <2>1, QuietStep
<1>6. ASSUME NEW d \in Delays, HAL_Delay(d) PROVE IInv'
  BY <1>6, DelayCallStep
<1>7. CASE DelayPoll
  BY <1>7, PollStep
<1>8. CASE UNCHANGED vars
  BY <1>8 DEF vars, IInv, TypeOK, PeriodMatches, DelayInv, Diff, InTime
<1> QED
  BY <1>1, <1>2, <1>3, <1>4, <1>5, <1>6, <1>7, <1>8 DEF Next

(* Every reachable state satisfies the invariant. *)
THEOREM Invariance == Spec => []IInv
  BY InitIInv, NextIInv, PTL DEF Spec

(* uwTick, the locals of HAL_Delay and the SysTick registers stay in range.*)
THEOREM TypeCorrect == Spec => []TypeOK
<1>1. IInv => TypeOK
  BY DEF IInv
<1> QED
  BY <1>1, Invariance, PTL

(* The SysTick period matches what HAL_IncTick counts, through every clock *)
(* change, refused tick frequency and suspension.                          *)
THEOREM PeriodRight == Spec => []PeriodMatches
<1>1. IInv => PeriodMatches
  BY DEF IInv
<1> QED
  BY <1>1, Invariance, PTL

(* HAL_Delay returns only after a poll that found the difference reached.  *)
LEMMA ReturnsDue ==
  ASSUME IInv, [Next]_vars, Returns
  PROVE  Due
<1>1. CASE DelayPoll
  BY <1>1 DEF DelayPoll, Returns
<1>2. CASE HAL_Init \/ HAL_IncTick \/ HAL_SuspendTick \/ HAL_ResumeTick
  BY <1>2 DEF HAL_Init, HAL_IncTick, HAL_SuspendTick, HAL_ResumeTick, Returns
<1>3. ASSUME NEW f \in Freqs, HAL_SetTickFreq(f) PROVE FALSE
  BY <1>3 DEF HAL_SetTickFreq, Returns
<1>4. ASSUME NEW c \in Clocks, HAL_RCC_ClockConfig(c) PROVE FALSE
  BY <1>4 DEF HAL_RCC_ClockConfig, Returns
<1>5. ASSUME NEW d \in Delays, HAL_Delay(d) PROVE FALSE
  BY <1>5 DEF HAL_Delay, Returns
<1>6. CASE UNCHANGED vars
  BY <1>6 DEF vars, Returns
<1> QED
  BY <1>1, <1>2, <1>3, <1>4, <1>5, <1>6 DEF Next

(* HAL_Delay never returns early, whatever the value of uwTick at the call *)
(* (HAL_Delay's comment: "provides minimum delay").                        *)
THEOREM NeverEarly == Spec => DelayAtLeast
<1>1. ASSUME IInv, [Next]_vars
      PROVE  [Returns /\ want + uwTickFreq < Range => elapsed - uwTickFreq >= want]_vars
  <2> SUFFICES ASSUME Returns, want + uwTickFreq < Range
               PROVE  elapsed - uwTickFreq >= want
    OBVIOUS
  <2>1. Due /\ pc = "delay"
    BY <1>1, ReturnsDue DEF Returns
  <2>2. wait = want + uwTickFreq /\ Diff(uwTick, tickstart) <= elapsed
    BY <1>1, <2>1 DEF IInv, DelayInv
  <2>3. Diff(uwTick, tickstart) >= wait
    BY <2>1 DEF Due, Diff
  <2>4. /\ Range \in Nat \ {0} /\ uwTickFreq \in Nat /\ want \in Nat
        /\ elapsed \in Nat /\ uwTick - tickstart \in Int
    BY <1>1, TickAssumption DEF IInv, TypeOK, HAL_MAX_DELAY
  <2>5. Diff(uwTick, tickstart) \in Nat
    BY <2>4 DEF Diff
  <2> QED
    BY <2>2, <2>3, <2>4, <2>5
<1> QED
  BY <1>1, Invariance, PTL DEF Spec, DelayAtLeast

(* HAL_Delay never waits for another turn of the counter: it returns by    *)
(* the first poll after wait.                                              *)
THEOREM NeverLate == Spec => DelayAtMost
<1>1. ASSUME IInv, [Next]_vars
      PROVE  [Returns /\ InTime => elapsed <= wait + (Lag + 1) * uwTickFreq]_vars
  <2> SUFFICES ASSUME Returns, InTime
               PROVE  elapsed <= wait + (Lag + 1) * uwTickFreq
    OBVIOUS
  <2>1. elapsed <= wait + unpolled * uwTickFreq
    BY <1>1 DEF Returns, IInv, DelayInv
  <2>2. /\ Lag \in Nat /\ Lag + 1 \in Nat /\ uwTickFreq \in Nat /\ wait \in Nat
        /\ elapsed \in Nat /\ unpolled \in Nat /\ unpolled <= Lag + 1
    BY <1>1, TickAssumption DEF IInv, TypeOK
  <2>3. /\ unpolled * uwTickFreq <= (Lag + 1) * uwTickFreq
        /\ unpolled * uwTickFreq \in Nat /\ (Lag + 1) * uwTickFreq \in Nat
    BY <2>2, OneMore
  <2> QED
    BY <2>1, <2>2, <2>3
<1> QED
  BY <1>1, Invariance, PTL DEF Spec, DelayAtMost

(* A tick during HAL_Delay brings it nearer to its end: the time counted   *)
(* grows by a tick and has a bound, so that only so many ticks can pass    *)
(* before the loop ends (while loop of HAL_Delay).                         *)
THEOREM TicksRunOut ==
  Spec => [][HAL_IncTick /\ pc = "delay" /\ InTime
               => /\ elapsed' = elapsed + uwTickFreq
                  /\ elapsed' <= wait + (Lag + 1) * uwTickFreq]_vars
<1>1. ASSUME IInv, HAL_IncTick, pc = "delay", InTime
      PROVE  /\ elapsed' = elapsed + uwTickFreq
             /\ elapsed' <= wait + (Lag + 1) * uwTickFreq
  <2>1. /\ Lag \in Nat /\ uwTickFreq \in Nat /\ wait \in Nat /\ elapsed \in Nat
        /\ unpolled \in Nat /\ unpolled <= Lag
        /\ clock \in Nat \ {0} /\ Range \in Nat
        /\ MaxElapsed \in Nat /\ MaxElapsed >= 2 * Range
    BY <1>1, TickAssumption DEF IInv, TypeOK, HAL_IncTick
  <2>2. period \div clock = uwTickFreq
    BY <1>1, <2>1, DivExact DEF IInv, PeriodMatches, CyclesPerTick
  <2>3. /\ unpolled * uwTickFreq <= Lag * uwTickFreq
        /\ unpolled * uwTickFreq \in Nat /\ Lag * uwTickFreq \in Nat
        /\ (Lag + 1) * uwTickFreq = Lag * uwTickFreq + uwTickFreq
    BY <2>1, OneMore
  <2>4. elapsed <= wait + unpolled * uwTickFreq
    BY <1>1 DEF IInv, DelayInv
  <2>5. elapsed + uwTickFreq <= wait + (Lag + 1) * uwTickFreq
    BY <2>1, <2>3, <2>4
  <2>6. elapsed + uwTickFreq <= MaxElapsed
    BY <1>1, <2>1, <2>3, <2>5 DEF InTime
  <2>7. elapsed' = elapsed + uwTickFreq
    BY <1>1, <2>1, <2>2, <2>6 DEF HAL_IncTick
  <2> QED
    BY <2>5, <2>7
<1>2. IInv => [HAL_IncTick /\ pc = "delay" /\ InTime
                 => /\ elapsed' = elapsed + uwTickFreq
                    /\ elapsed' <= wait + (Lag + 1) * uwTickFreq]_vars
  BY <1>1
<1> QED
  BY <1>2, Invariance, PTL DEF Spec
=============================================================================
