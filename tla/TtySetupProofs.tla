--------------------------- MODULE TtySetupProofs ---------------------------
(***************************************************************************)
(* Proofs about the look-up of peripherals and the set-up of the TTY, for  *)
(* any sorted table of peripherals, any tables of UARTs and streams and    *)
(* any choices of the client.                                              *)
(***************************************************************************)
EXTENDS TtySetup, TLAPS, WellFoundedInduction

-----------------------------------------------------------------------------
(* The look-up *)

(* FirstOf gives the smallest number of a set (the loops of                *)
(* bsp_utils_get_periph stop at the first row that fits).                  *)
LEMMA FirstIsFirst ==
  ASSUME NEW S, S \subseteq Nat, S # {}
  PROVE  FirstOf(S) \in S /\ \A j \in S : FirstOf(S) <= j
<1>1. \E i \in S : \A j \in S : ~ (<<j, i>> \in OpToRel(<, Nat))
  BY NatLessThanWellFounded, WFMin
<1>2. \E i \in S : \A j \in S : ~ (j < i)
  <2>1. PICK i \in S : \A j \in S : ~ (<<j, i>> \in OpToRel(<, Nat))
    BY <1>1
  <2>2. ASSUME NEW j \in S, j < i PROVE FALSE
    <3>1. <<j, i>> \in Nat \X Nat
      OBVIOUS
    <3>2. <<j, i>>[1] < <<j, i>>[2]
      BY <2>2
    <3>3. <<j, i>> \in OpToRel(<, Nat)
      BY <3>1, <3>2, Zenon DEF OpToRel
    <3> QED BY <2>1, <3>3
  <2> QED BY <2>2
<1>3. \E i \in S : \A j \in S : i <= j
  BY <1>2
<1> QED BY <1>3 DEF FirstOf

(* The search by address stops at a row; at a base it stops at a row that  *)
(* begins there.                                                           *)
LEMMA StopsAtRow ==
  ASSUME NEW a \in Nat
  PROVE  /\ Stop(a) \in 1 .. Len(Table)
         /\ \A j \in 1 .. Len(Table) : Table[j].lo = a => Table[Stop(a)].lo = a
<1> DEFINE S == {i \in 1 .. Len(Table) : Table[i].lo >= a} \cup {Len(Table)}
<1>0. Len(Table) \in Nat \ {0}
  BY TableAssumption DEF TableAssumption
<1>1. S \subseteq 1 .. Len(Table) /\ S \subseteq Nat /\ S # {}
  BY <1>0
<1>2. Stop(a) = FirstOf(S)
  BY DEF Stop
<1> HIDE DEF S
<1>3. FirstOf(S) \in S /\ \A j \in S : FirstOf(S) <= j
  BY <1>1, FirstIsFirst
<1>4. ASSUME NEW j \in 1 .. Len(Table), Table[j].lo = a
      PROVE  Table[Stop(a)].lo = a
  <2>1. j \in S
    BY <1>4 DEF S
  <2>2. Stop(a) \in 1 .. Len(Table) /\ Stop(a) <= j
    BY <2>1, <1>1, <1>2, <1>3
  <2>3. CASE Stop(a) = j
    BY <2>3, <1>4
  <2>4. CASE Stop(a) < j
    <3>1. Table[Stop(a)].lo >= a
      BY <2>4, <1>0, <1>2, <1>3 DEF S
    <3>2. Table[Stop(a)].lo <= Table[j].lo
      BY <2>2, <2>4, TableAssumption DEF TableAssumption
    <3> QED
      BY <3>1, <3>2, <1>4, <2>2, TableAssumption DEF TableAssumption
  <2> QED
    BY <2>2, <2>3, <2>4, <1>0
<1> QED
  BY <1>1, <1>2, <1>3, <1>4

(* Every peripheral of a sorted table of disjoint ranges is found by its   *)
(* first address (the loop of bsp_utils_get_periph).                       *)
THEOREM FirstAddressResolves == BasesResolve
<1> SUFFICES ASSUME NEW i \in 1 .. Len(Table)
             PROVE  LET r == bsp_utils_get_periph(ByAddr(Table[i].lo))
                    IN  /\ r \in 1 .. Len(Table)
                        /\ Table[r].lo = Table[i].lo /\ Table[r].hi = Table[i].hi
  BY DEF BasesResolve
<1> DEFINE a == Table[i].lo
           r == Stop(a)
<1>1. a \in Nat /\ a # 0
  BY TableAssumption DEF TableAssumption
<1>2. r \in 1 .. Len(Table) /\ Table[r].lo = a
  BY <1>1, StopsAtRow
<1>3. Table[r].hi = Table[i].hi
  <2>1. CASE r = i
    BY <2>1
  <2>2. CASE r < i
    BY <2>2, <1>1, <1>2, TableAssumption DEF TableAssumption
  <2>3. CASE i < r
    BY <2>3, <1>1, <1>2, TableAssumption DEF TableAssumption
  <2> QED BY <1>2, <2>1, <2>2, <2>3, TableAssumption DEF TableAssumption
<1>4. Table[r].hi \in Nat /\ a <= Table[r].hi
  BY <1>2, TableAssumption DEF TableAssumption
<1>5. bsp_utils_get_periph(ByAddr(a)) = r
  BY <1>1, <1>4 DEF bsp_utils_get_periph, ByAddr
<1> QED BY <1>2, <1>3, <1>5

(* Switching the clock of a peripheral on by its first address succeeds    *)
(* only by switching on that peripheral's clock (bsp_utils_periph_clk).    *)
LEMMA SwitchedOn ==
  ASSUME NEW a \in Nat \ {0}, NEW c, Clocked(a)
  PROVE  ClockAt(a) \subseteq Switched(c, ByAddr(a), TRUE)
<1> SUFFICES ASSUME NEW j \in 1 .. Len(Table), Table[j].lo = a
             PROVE  ClkOf(Table[j]) \in Switched(c, ByAddr(a), TRUE)
  BY DEF ClockAt
<1> DEFINE r == bsp_utils_get_periph(ByAddr(a))
<1>1. r \in 1 .. Len(Table) /\ Table[r].lo = a /\ Table[r].hi = Table[j].hi
  BY FirstAddressResolves DEF BasesResolve
<1> HIDE DEF r
<1>2. ClkOf(Table[r]) = ClkOf(Table[j])
  <2>1. CASE r = j
    BY <2>1
  <2>2. CASE r < j
    BY <2>2, <1>1, TableAssumption DEF TableAssumption
  <2>3. CASE j < r
    BY <2>3, <1>1, TableAssumption DEF TableAssumption
  <2> QED BY <1>1, <2>1, <2>2, <2>3, TableAssumption DEF TableAssumption
<1>3. ~(r < 0)
  BY <1>1, TableAssumption DEF TableAssumption
<1>4. PeriphClk(ByAddr(a)) = ClkOf(Table[r])
  BY <1>3 DEF PeriphClk, r
<1> QED BY <1>2, <1>4 DEF Switched, Clocked

(* Switching on keeps what is on. *)
LEMMA SwitchingOnKeeps ==
  ASSUME NEW c, NEW o PROVE c \subseteq Switched(c, o, TRUE)
BY DEF Switched

(* Another driver's switching keeps the clocks of the TTY's peripherals.   *)
LEMMA OthersKeep ==
  ASSUME NEW c, NEW o \in Others, NEW e \in BOOLEAN,
         NEW f \in {"uart", "uart_port_tx", "uart_port_rx"}, NEW v \in Choices[f],
         ClockAt(v) \subseteq c
  PROVE  ClockAt(v) \subseteq Switched(c, o, e)
<1>1. PeriphClk(o) # "" => PeriphClk(o) \notin ClockAt(v)
  BY OthersAssumption DEF OthersAssumption
<1> QED BY <1>1 DEF Switched

-----------------------------------------------------------------------------
(* The set-up *)

Steps == {"gpio", "dma_clk", "dma_irq", "dma_tx", "dma_rx", "uart"}
PortFields == {"uart", "uart_port_tx", "uart_port_rx"}

(* What each part of bsp_tty_init leaves behind, in terms of the           *)
(* descriptor it was called with.                                          *)
PortsOn == \A f \in {"uart_port_tx", "uart_port_rx"} : ClockAt(used[f]) \subseteq clocks

PinsRouted ==
  LET t == <<used.uart_port_tx, used.uart_pin_tx>>
      r == <<used.uart_port_rx, used.uart_pin_rx>>
  IN  {t, r} \subseteq DOMAIN pins /\ pins[t][1] = used.uart /\ pins[r][1] = used.uart

LinesOn ==
  /\ {Line(used.dma_tx), Line(used.dma_rx)} \subseteq lines
  /\ cache[TX] = Line(used.dma_tx) /\ cache[TX] # NMI

TxHandle == hdma[TX].Instance = used.dma_tx
RxHandle == hdma[RX].Instance = used.dma_rx

UartOn == ClockAt(used.uart) \subseteq clocks /\ huart = used.uart

(* The module is LIVE, or bsp_tty_init has got to one of the steps S. *)
Past(S) == state = "live" \/ pc \in S

DesOK == DOMAIN des = Fields /\ \A f \in Fields : des[f] \in Choices[f] \cup {Null}
Shape == {RX, TX} \subseteq DOMAIN cache /\ {RX, TX} \subseteq DOMAIN hdma
Running == pc \in Steps => state = "coming" /\ used = des
UsedOK == Past(Steps) => \A f \in Fields : used[f] \in Choices[f]

(* The inductive invariant: the results of the parts of bsp_tty_init last  *)
(* until the module is set up again, whoever runs in between.              *)
IInv ==
  /\ DesOK /\ Shape /\ pc \in Steps \cup {"idle"} /\ Running /\ UsedOK
  /\ Past(Steps \ {"gpio"}) => PortsOn /\ PinsRouted
  /\ Past({"dma_tx", "dma_rx", "uart"}) => LinesOn
  /\ Past({"dma_rx", "uart"}) => TxHandle
  /\ Past({"uart"}) => RxHandle
  /\ Past({}) => UartOn

(* Choices are never 0. *)
LEMMA ChoicesSet == \A f \in Fields : \A v \in Choices[f] : v \in Nat \ {0}
BY SetupAssumption DEF SetupAssumption

(* The invariant holds before the module is set up. *)
LEMMA InitIInv == Init => IInv
BY DEF Init, IInv, DesOK, Shape, Running, UsedOK, Past, Steps, Fields, Unset

(* Parts of the invariant that speak of variables a step leaves alone.     *)
LEMMA KeepReady ==
  ASSUME UNCHANGED <<used, clocks, lines, cache, pins, hdma, huart>>
  PROVE  /\ PortsOn' = PortsOn /\ PinsRouted' = PinsRouted /\ LinesOn' = LinesOn
         /\ TxHandle' = TxHandle /\ RxHandle' = RxHandle /\ UartOn' = UartOn
         /\ Shape' = Shape
BY DEF PortsOn, PinsRouted, LinesOn, TxHandle, RxHandle, UartOn, Shape, Line, ClockAt

(* Filling the descriptor makes the module COMING, or GOING. *)
LEMMA PrepareKeeps == IInv /\ set_default_des => IInv'
<1> SUFFICES ASSUME IInv, set_default_des PROVE IInv'
  OBVIOUS
<1>1. pc = "idle" /\ pc' = "idle" /\ state' # "live"
  BY DEF set_default_des
<1>2. DesOK'
  BY SetupAssumption DEF set_default_des, IInv, DesOK, SetupAssumption, hw
<1>3. Shape'
  BY DEF set_default_des, IInv, Shape, hw
<1> QED BY <1>1, <1>2, <1>3 DEF IInv, Running, UsedOK, Past, Steps

(* The call of bsp_tty_init begins with nothing done. *)
LEMMA CallKeeps == IInv /\ bsp_tty_init => IInv'
<1> SUFFICES ASSUME IInv, bsp_tty_init PROVE IInv'
  OBVIOUS
<1>1. pc' = "gpio" /\ state' = "coming" /\ used' = des /\ des' = des
  BY DEF bsp_tty_init
<1>2. Shape' /\ DesOK'
  BY DEF bsp_tty_init, IInv, Shape, DesOK, hw
<1>3. \A f \in Fields : des[f] \in Choices[f]
  BY DEF bsp_tty_init, Prepared, IInv, DesOK
<1> QED BY <1>1, <1>2, <1>3 DEF IInv, Running, UsedOK, Past, Steps

(* A failed step makes the module GOING, for which nothing is claimed. *)
LEMMA FailKeeps ==
  ASSUME IInv, Fail, des' = des, Shape' PROVE IInv'
BY DEF IInv, Fail, Running, UsedOK, Past, Steps, DesOK

(* init_gpio leaves the clocks of both ports on and both pins routed. *)
LEMMA GpioKeeps == IInv /\ init_gpio => IInv'
<1> SUFFICES ASSUME IInv, init_gpio PROVE IInv'
  OBVIOUS
<1>1. Shape' /\ des' = des /\ used' = used
  BY DEF init_gpio, IInv, Shape
<1>2. used = des /\ state = "coming" /\ \A f \in Fields : used[f] \in Choices[f]
  BY DEF init_gpio, IInv, Running, UsedOK, Past, Steps
<1>3. CASE Clocked(des.uart_port_tx) /\ Clocked(des.uart_port_rx)
  <2>1. /\ clocks' = RxOn /\ pc' = "dma_clk" /\ state' = state
        /\ pins' = Pin(Pin(pins, des.uart_port_tx, des.uart_pin_tx,
                           get_uart_af(TX, des.uart_port_tx, des.uart_pin_tx)),
                       des.uart_port_rx, des.uart_pin_rx,
                       get_uart_af(RX, des.uart_port_rx, des.uart_pin_rx))
    BY <1>3 DEF init_gpio
  <2>2. des.uart_port_tx \in Nat \ {0} /\ des.uart_port_rx \in Nat \ {0}
    BY <1>2, ChoicesSet DEF Fields
  <2>3. ClockAt(des.uart_port_tx) \subseteq TxOn /\ TxOn \subseteq RxOn
        /\ ClockAt(des.uart_port_rx) \subseteq RxOn
    BY <1>3, <2>2, SwitchedOn, SwitchingOnKeeps DEF TxOn, RxOn
  <2>4. PortsOn'
    BY <1>1, <1>2, <2>1, <2>3 DEF PortsOn, ClockAt
  <2>5. PinsRouted'
    BY <1>1, <1>2, <2>1 DEF PinsRouted, Pin, get_uart_af
  <2> QED
    BY <1>1, <1>2, <2>1, <2>4, <2>5 DEF IInv, Running, UsedOK, Past, Steps, DesOK
<1>4. CASE ~(Clocked(des.uart_port_tx) /\ Clocked(des.uart_port_rx))
  <2>1. Fail
    BY <1>4 DEF init_gpio
  <2> QED BY <1>1, <2>1, FailKeeps
<1> QED BY <1>3, <1>4

(* The clocks of the streams come on top of those of the ports. *)
LEMMA DmaClkKeeps == IInv /\ init_dma_clk => IInv'
<1> SUFFICES ASSUME IInv, init_dma_clk PROVE IInv'
  OBVIOUS
<1>1. Shape' /\ des' = des /\ used' = used /\ pins' = pins
  BY DEF init_dma_clk, IInv, Shape
<1>2. CASE Fail
  BY <1>1, <1>2, FailKeeps
<1>3. CASE pc' = "dma_irq"
  <2>1. state' = state /\ pc = "dma_clk" /\ clocks \subseteq clocks'
    <3>1. clocks' = Switched(Switched(clocks, ByAddr(des.dma_tx), TRUE), ByAddr(des.dma_rx), TRUE)
          /\ state' = state
      BY <1>3 DEF init_dma_clk, Fail
    <3> QED BY <3>1, SwitchingOnKeeps DEF init_dma_clk
  <2>2. PortsOn' /\ PinsRouted'
    BY <1>1, <2>1 DEF IInv, PortsOn, PinsRouted, Past, Steps, ClockAt
  <2> QED
    BY <1>1, <1>3, <2>1, <2>2 DEF IInv, Running, UsedOK, Past, Steps, DesOK
<1> QED BY <1>2, <1>3 DEF init_dma_clk

(* Both lines are looked up past the cache, remembered and enabled. *)
LEMMA DmaIrqKeeps == IInv /\ init_dma_irq => IInv'
<1> SUFFICES ASSUME IInv, init_dma_irq PROVE IInv'
  OBVIOUS
<1>1. Shape' /\ UNCHANGED <<des, used, pins, clocks>>
  BY DEF init_dma_irq, IInv, Shape
<1>2. pc = "dma_irq" /\ used = des /\ state = "coming"
  BY DEF init_dma_irq, IInv, Running, Steps
<1>3. FreshLine(TX) = Line(des.dma_tx) /\ FreshLine(RX) = Line(des.dma_rx)
  BY DEF FreshLine, get_dma_irq, Stream, TX, RX
<1>4. CASE FreshLine(TX) # NMI /\ FreshLine(RX) # NMI
  <2>1. /\ pc' = "dma_tx" /\ state' = state
        /\ cache' = [cache EXCEPT ![TX] = FreshLine(TX), ![RX] = FreshLine(RX)]
        /\ lines' = lines \cup ({FreshLine(TX), FreshLine(RX)} \ {NMI})
    BY <1>4 DEF init_dma_irq
  <2>2. Line(used.dma_tx)' = Line(des.dma_tx) /\ Line(used.dma_rx)' = Line(des.dma_rx)
    BY <1>1, <1>2 DEF Line
  <2>3. LinesOn'
    BY <1>3, <1>4, <2>1, <2>2 DEF LinesOn, IInv, Shape, TX, RX
  <2>4. PortsOn' /\ PinsRouted'
    BY <1>1, <1>2 DEF IInv, PortsOn, PinsRouted, Past, Steps, ClockAt
  <2> QED
    BY <1>1, <1>2, <2>1, <2>3, <2>4 DEF IInv, Running, UsedOK, Past, Steps, DesOK
<1>5. CASE ~(FreshLine(TX) # NMI /\ FreshLine(RX) # NMI)
  <2>1. Fail
    BY <1>5 DEF init_dma_irq
  <2> QED BY <1>1, <2>1, FailKeeps
<1> QED BY <1>4, <1>5

(* The handle of the tx stream is filled in. *)
LEMMA DmaTxKeeps == IInv /\ init_dma_tx => IInv'
<1> SUFFICES ASSUME IInv, init_dma_tx PROVE IInv'
  OBVIOUS
<1>1. Shape' /\ UNCHANGED <<des, used, pins, clocks, lines, cache>>
  BY DEF init_dma_tx, init_dma_handle, IInv, Shape, hw, TX, RX
<1>2. pc = "dma_tx" /\ used = des /\ state = "coming"
  BY DEF init_dma_tx, IInv, Running, Steps
<1>3. CASE pc' = "dma_rx"
  <2>1. /\ state' = state
        /\ hdma' = [hdma EXCEPT ![TX] = [Instance |-> Stream(TX), Request |-> get_dma_request(TX)]]
    BY <1>3 DEF init_dma_tx, init_dma_handle, Fail
  <2>2. TxHandle'
    BY <1>1, <1>2, <2>1 DEF TxHandle, IInv, Shape, Stream
  <2>3. PortsOn' /\ PinsRouted' /\ LinesOn'
    BY <1>1, <1>2 DEF IInv, PortsOn, PinsRouted, LinesOn, Past, Steps, ClockAt, Line
  <2> QED
    BY <1>1, <1>2, <1>3, <2>1, <2>2, <2>3 DEF IInv, Running, UsedOK, Past, Steps, DesOK
<1>4. CASE Fail
  BY <1>1, <1>4, FailKeeps
<1> QED BY <1>3, <1>4 DEF init_dma_tx, init_dma_handle

(* The handle of the rx stream is filled in, that of tx stays. *)
LEMMA DmaRxKeeps == IInv /\ init_dma_rx => IInv'
<1> SUFFICES ASSUME IInv, init_dma_rx PROVE IInv'
  OBVIOUS
<1>1. Shape' /\ UNCHANGED <<des, used, pins, clocks, lines, cache>>
  BY DEF init_dma_rx, init_dma_handle, IInv, Shape, TX, RX
<1>2. pc = "dma_rx" /\ used = des /\ state = "coming"
  BY DEF init_dma_rx, IInv, Running, Steps
<1>3. CASE pc' = "uart"
  <2>1. /\ state' = state
        /\ hdma' = [hdma EXCEPT ![RX] = [Instance |-> Stream(RX), Request |-> get_dma_request(RX)]]
    BY <1>3 DEF init_dma_rx, init_dma_handle, Fail
  <2>2. RxHandle' /\ TxHandle'
    BY <1>1, <1>2, <2>1 DEF RxHandle, TxHandle, IInv, Shape, Stream, Past, TX, RX
  <2>3. PortsOn' /\ PinsRouted' /\ LinesOn'
    BY <1>1, <1>2 DEF IInv, PortsOn, PinsRouted, LinesOn, Past, Steps, ClockAt, Line
  <2> QED
    BY <1>1, <1>2, <1>3, <2>1, <2>2, <2>3 DEF IInv, Running, UsedOK, Past, Steps, DesOK
<1>4. CASE Fail
  BY <1>1, <1>4, FailKeeps
<1> QED BY <1>3, <1>4 DEF init_dma_rx, init_dma_handle

(* The last part makes the module LIVE. *)
LEMMA UartKeeps == IInv /\ init_uart => IInv'
<1> SUFFICES ASSUME IInv, init_uart PROVE IInv'
  OBVIOUS
<1>1. Shape' /\ UNCHANGED <<des, used, pins, lines, cache, hdma>>
  BY DEF init_uart, IInv, Shape
<1>2. pc = "uart" /\ used = des /\ state = "coming" /\ \A f \in Fields : used[f] \in Choices[f]
  BY DEF init_uart, IInv, Running, UsedOK, Past, Steps
<1>3. CASE state' = "live"
  <2>1. /\ Clocked(des.uart) /\ clocks' = Switched(clocks, ByAddr(des.uart), TRUE)
        /\ huart' = des.uart /\ pc' = "idle"
    BY <1>3 DEF init_uart, Fail
  <2>2. des.uart \in Nat \ {0}
    BY <1>2, ChoicesSet DEF Fields
  <2>3. ClockAt(des.uart) \subseteq clocks' /\ clocks \subseteq clocks'
    BY <2>1, <2>2, SwitchedOn, SwitchingOnKeeps
  <2>4. UartOn'
    BY <1>1, <1>2, <2>1, <2>3 DEF UartOn, ClockAt
  <2>5. PortsOn' /\ PinsRouted' /\ LinesOn'
    BY <1>1, <1>2, <2>3 DEF IInv, PortsOn, PinsRouted, LinesOn, Past, Steps, ClockAt, Line
  <2>6. TxHandle' /\ RxHandle'
    BY <1>1, <1>2 DEF IInv, TxHandle, RxHandle, Past
  <2> QED
    BY <1>1, <1>2, <1>3, <2>1, <2>4, <2>5, <2>6 DEF IInv, Running, UsedOK, Past, Steps, DesOK
<1>4. CASE Fail
  BY <1>1, <1>4, FailKeeps
<1> QED BY <1>3, <1>4 DEF init_uart

(* write uses a line that is remembered, and fills the cache otherwise. *)
LEMMA WriteKeeps == IInv /\ write => IInv'
<1> SUFFICES ASSUME IInv, write PROVE IInv'
  OBVIOUS
<1>1. UNCHANGED <<des, state, pc, clocks, pins, hdma, huart, used>> /\ pc = "idle"
  BY DEF write
<1>2. Shape' /\ lines \subseteq lines'
  BY DEF write, IInv, Shape, TX, RX
<1>3. ASSUME state = "live" PROVE LinesOn'
  <2>1. LinesOn
    BY <1>3 DEF IInv, Past
  <2>2. get_dma_irq(TX, FALSE) = cache[TX]
    BY <2>1 DEF get_dma_irq, LinesOn
  <2>3. cache'[TX] = cache[TX]
    BY <2>2 DEF write, IInv, Shape
  <2> QED
    BY <1>1, <1>2, <2>1, <2>3 DEF LinesOn, Line
<1>4. /\ PortsOn' = PortsOn /\ PinsRouted' = PinsRouted
      /\ TxHandle' = TxHandle /\ RxHandle' = RxHandle /\ UartOn' = UartOn
  BY <1>1 DEF PortsOn, PinsRouted, TxHandle, RxHandle, UartOn, ClockAt
<1> QED
  BY <1>1, <1>2, <1>3, <1>4 DEF IInv, Running, UsedOK, Past, Steps, DesOK

(* An edit of the descriptor does not touch what a set-up has done. *)
LEMMA EditKeeps ==
  ASSUME IInv, NEW f \in Fields, NEW v \in Choices[f], Edit(f, v) PROVE IInv'
<1>1. UNCHANGED <<state, pc, clocks, lines, cache, pins, hdma, huart, used>> /\ pc = "idle"
  BY DEF Edit, hw
<1>2. DesOK'
  BY DEF Edit, IInv, DesOK
<1> QED
  BY <1>1, <1>2, KeepReady DEF IInv, Running, UsedOK, Past, Steps

(* Another driver's clocks are not the TTY's. *)
LEMMA PeriphClkKeeps ==
  ASSUME IInv, NEW o \in Others, NEW e \in BOOLEAN, bsp_utils_periph_clk(o, e) PROVE IInv'
<1>1. UNCHANGED <<des, state, pc, lines, cache, pins, hdma, huart, used>> /\ pc = "idle"
  BY DEF bsp_utils_periph_clk
<1>2. ASSUME state = "live", NEW f \in PortFields PROVE ClockAt(used[f]) \subseteq clocks'
  <2>1. used[f] \in Choices[f] /\ ClockAt(used[f]) \subseteq clocks
    BY <1>2 DEF IInv, UsedOK, Past, PortsOn, UartOn, PortFields, Fields
  <2> QED
    BY <2>1, OthersKeep DEF bsp_utils_periph_clk, PortFields
<1>3. state = "live" => PortsOn' /\ UartOn'
  BY <1>1, <1>2 DEF PortsOn, UartOn, PortFields, ClockAt, IInv, Past
<1>4. /\ PinsRouted' = PinsRouted /\ LinesOn' = LinesOn /\ Shape' = Shape
      /\ TxHandle' = TxHandle /\ RxHandle' = RxHandle
  BY <1>1 DEF PinsRouted, LinesOn, TxHandle, RxHandle, Shape, Line
<1> QED
  BY <1>1, <1>3, <1>4 DEF IInv, Running, UsedOK, Past, Steps, DesOK

(* A step that changes nothing keeps the invariant. *)
LEMMA StutterKeeps == IInv /\ UNCHANGED vars => IInv'
BY KeepReady DEF vars, IInv, Running, UsedOK, Past, Steps, DesOK

(* The invariant holds in every reachable state of the set-up. *)
THEOREM Invariance == Spec => []IInv
<1>1. IInv /\ [Next]_vars => IInv'
  <2> SUFFICES ASSUME IInv, [Next]_vars PROVE IInv'
    OBVIOUS
  <2>1. CASE Next
    BY <2>1, PrepareKeeps, CallKeeps, GpioKeeps, DmaClkKeeps, DmaIrqKeeps, DmaTxKeeps,
       DmaRxKeeps, UartKeeps, WriteKeeps, EditKeeps, PeriphClkKeeps DEF Next
  <2>2. CASE UNCHANGED vars
    BY <2>2, StutterKeeps
  <2> QED BY <2>1, <2>2
<1> QED BY <1>1, InitIInv, PTL DEF Spec

(* A LIVE module is ready: clocks, pins, lines and handles are those of    *)
(* the descriptor bsp_tty_init was called with, for every sorted table and *)
(* whatever failed, was edited or was switched before.                     *)
THEOREM LiveReady == Spec => []LiveIsReady
<1>1. IInv => LiveIsReady
  <2> SUFFICES ASSUME IInv, state = "live" PROVE LiveIsReady
    BY DEF LiveIsReady
  <2>1. PortsOn /\ PinsRouted /\ LinesOn /\ TxHandle /\ RxHandle /\ UartOn
    BY DEF IInv, Past
  <2> QED
    BY <2>1 DEF PortsOn, PinsRouted, LinesOn, TxHandle, RxHandle, UartOn, LiveIsReady
<1> QED BY <1>1, Invariance, PTL

(* In a LIVE module the line that write masks is the enabled line of the   *)
(* stream that the tx handle drives: the cache of get_dma_irq never        *)
(* survives a set-up with another stream.                                  *)
THEOREM WriteMasksRight == Spec => []WriteMasksOwnLine
<1>1. IInv => WriteMasksOwnLine
  <2> SUFFICES ASSUME IInv, state = "live" PROVE WriteMasksOwnLine
    BY DEF WriteMasksOwnLine
  <2>1. LinesOn /\ TxHandle
    BY DEF IInv, Past
  <2>2. get_dma_irq(TX, FALSE) = cache[TX]
    BY <2>1 DEF LinesOn, get_dma_irq
  <2> QED
    BY <2>1, <2>2 DEF LinesOn, TxHandle, WriteMasksOwnLine
<1> QED BY <1>1, Invariance, PTL
=============================================================================
