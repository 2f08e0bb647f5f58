------------------------------ MODULE TtySetup ------------------------------
(***************************************************************************)
(* The set-up of the TTY (bsp_tty.c): the module's prepare function fills  *)
(* the descriptor, its setup function configures pins, DMA streams and     *)
(* UART in that order and gives up at the first error without undoing      *)
(* anything.  The client may edit the descriptor, or set the module up     *)
(* again, at any time in between, and write masks the interrupt line that  *)
(* get_dma_irq remembers.  TtyTx models what write and start_tx do with    *)
(* the ring.                                                               *)
(*                                                                         *)
(* Peripherals, ports and streams are addresses.  RX = 0 and TX = 1 are    *)
(* the values of the parameter tx_rx.                                      *)
(***************************************************************************)
EXTENDS BspUtils

CONSTANTS
  uart_tb,   \* the eight UARTs, in the order of the code's table
  dma_tb,    \* the sixteen streams of DMA1 and DMA2; a line is an index
  AfSpecial, \* <<uart, tx_rx, port, pin>> that get_uart_af tests for
  Default,   \* what set_default_des gives a field that is not set
  Choices,   \* what the client may put into a field of the descriptor
  Others,    \* descriptors other drivers pass to bsp_utils_periph_clk
  MaxEdits, MaxSetups

RX == 0
TX == 1
Null == 0  \* a pointer or a number that is not set
NMI == 0   \* NonMaskableInt_IRQn, an empty cache entry
Fields == {"uart", "uart_port_tx", "uart_pin_tx", "uart_port_rx",
           "uart_pin_rx", "dma_tx", "dma_rx"}

(* The clock of the peripheral that begins at a. *)
ClockAt(a) == {ClkOf(Table[i]) : i \in {j \in 1 .. Len(Table) : Table[j].lo = a}}

ASSUME SetupAssumption ==
  /\ Default \in [Fields -> Nat \ {0}]
  /\ Choices \in [Fields -> SUBSET (Nat \ {0})]
  /\ \A f \in Fields : Default[f] \in Choices[f]
  /\ MaxEdits \in Nat /\ MaxSetups \in Nat

(* Other drivers leave the clocks of the TTY's peripherals alone. *)
ASSUME OthersAssumption ==
  \A o \in Others, f \in {"uart", "uart_port_tx", "uart_port_rx"} : \A v \in Choices[f] :
     PeriphClk(o) # "" => PeriphClk(o) \notin ClockAt(v)

VARIABLES
  des,     \* the fields of struct bsp_tty_des the client may set
  state,   \* bsp_tty_mod.state
  pc,      \* the next part of bsp_tty_init
  clocks,  \* the RCC clocks that are on
  lines,   \* the interrupt lines enabled in the NVIC
  cache,   \* cache_dma_irq
  pins,    \* <<port, pin>> |-> <<uart, special>>: alternate functions
  hdma,    \* the handles _hdma_uart_rx and _hdma_uart_tx
  huart,   \* _huart.Instance
  par,     \* stream |-> the UART whose TDR its PAR points to
  used,    \* history: the descriptor bsp_tty_init was last called with
  edits, setups

hw == <<clocks, lines, pins, par>>
vars == <<des, state, pc, clocks, lines, cache, pins, hdma, huart, par,
          used, edits, setups>>

Stream(d) == IF d = TX THEN des.dma_tx ELSE des.dma_rx

Unset == [f \in Fields |-> Null]

(* The module comes without a descriptor, or with one of the client's. *)
Init ==
  /\ \/ des = Unset
     \/ \E f \in Fields : \E v \in Choices[f] : des = [Unset EXCEPT ![f] = v]
  /\ state = "coming" /\ pc = "idle"
  /\ clocks = {} /\ lines = {} /\ cache = [d \in {RX, TX} |-> NMI]
  /\ pins = << >> /\ par = << >>
  /\ hdma = [d \in {RX, TX} |-> [Instance |-> Null, Request |-> << >>]]
  /\ huart = Null
  /\ used = Unset /\ edits = 0 /\ setups = 0

-----------------------------------------------------------------------------
(* The index of the UART in the table, counted from 0 as in the code. *)
get_uart_idx ==
  IF \E i \in 1 .. Len(uart_tb) : uart_tb[i] = des.uart
    THEN (CHOOSE i \in 1 .. Len(uart_tb) : uart_tb[i] = des.uart) - 1
    ELSE -ENODEV

(* The alternate function: the special one for the pins the code names,    *)
(* the usual one of the UART for every other pin.                          *)
get_uart_af(d, port, pin) ==
  <<des.uart, <<des.uart, d, port, pin>> \in AfSpecial>>

(* A request is a UART with a column of dma_req_tb.  The columns are named *)
(* "tx" and "rx" in this order, and tx_rx is the index into them.          *)
dma_req_tb(i, d) == <<uart_tb[i + 1], IF d = 0 THEN "tx" ELSE "rx">>

HasRequest == get_uart_idx = 0

get_dma_request(d) == dma_req_tb(get_uart_idx, d)

(* The search of get_dma_irq: the line of stream s, NMI if there is none. *)
Line(s) ==
  IF \E i \in 1 .. Len(dma_tb) : dma_tb[i] = s
    THEN CHOOSE i \in 1 .. Len(dma_tb) : dma_tb[i] = s
    ELSE NMI

(* The line that get_dma_irq yields and leaves in the cache. *)
get_dma_irq(d, clear_cache) ==
  IF ~clear_cache /\ cache[d] # NMI THEN cache[d] ELSE Line(Stream(d))

(* A seeded fault: set-up trusts the cache. *)
CachedLine(d) == get_dma_irq(d, FALSE)

FreshLine(d) == get_dma_irq(d, TRUE)

-----------------------------------------------------------------------------
Prepared == \A f \in Fields : des[f] # Null

(* bsp_module_prepare_all for this module: set_default_des fills what is   *)
(* not set; calloc may fail when the module has no descriptor yet.         *)
set_default_des ==
  /\ pc = "idle"
  /\ \/ /\ des' = [f \in Fields |-> IF des[f] = Null THEN Default[f] ELSE des[f]]
        /\ state' = "coming"
     \/ des = Unset /\ state' = "going" /\ UNCHANGED des
  /\ UNCHANGED <<pc, hw, cache, hdma, huart, used, edits, setups>>

(* bsp_module_setup_all calls the setup function of a COMING module. *)
bsp_tty_init ==
  /\ pc = "idle" /\ state = "coming" /\ Prepared
  /\ setups < MaxSetups
  /\ setups' = setups + 1
  /\ used' = des
  /\ pc' = "gpio"
  /\ UNCHANGED <<des, state, hw, cache, hdma, huart, edits>>

Fail == state' = "going" /\ pc' = "idle"

Pin(p, port, pin, af) == [x \in DOMAIN p \cup {<<port, pin>>} |->
                            IF x = <<port, pin>> THEN af ELSE p[x]]

TxOn == Switched(clocks, ByAddr(des.uart_port_tx), TRUE)

(* A seeded fault: the port of rx is taken to be the one of tx. *)
TxTwice == Switched(TxOn, ByAddr(des.uart_port_tx), TRUE)

RxOn == Switched(TxOn, ByAddr(des.uart_port_rx), TRUE)
Clocked(a) == PeriphClk(ByAddr(a)) # ""

init_gpio ==
  /\ pc = "gpio"
  /\ IF Clocked(des.uart_port_tx) /\ Clocked(des.uart_port_rx)
       THEN /\ clocks' = RxOn
            /\ pins' = Pin(Pin(pins, des.uart_port_tx, des.uart_pin_tx,
                               get_uart_af(TX, des.uart_port_tx, des.uart_pin_tx)),
                           des.uart_port_rx, des.uart_pin_rx,
                           get_uart_af(RX, des.uart_port_rx, des.uart_pin_rx))
            /\ pc' = "dma_clk"
            /\ UNCHANGED state
       ELSE /\ clocks' = TxOn
            /\ Fail
            /\ UNCHANGED pins
  /\ UNCHANGED <<des, lines, par, cache, hdma, huart, used, edits, setups>>

(* init_dma, first part: the clocks of both streams *)
init_dma_clk ==
  /\ pc = "dma_clk"
  /\ LET on == Switched(clocks, ByAddr(des.dma_tx), TRUE)
     IN  IF Clocked(des.dma_tx) /\ Clocked(des.dma_rx)
           THEN /\ clocks' = Switched(on, ByAddr(des.dma_rx), TRUE)
                /\ pc' = "dma_irq"
                /\ UNCHANGED state
           ELSE /\ clocks' = on
                /\ Fail
  /\ UNCHANGED <<des, lines, pins, par, cache, hdma, huart, used, edits, setups>>

(* init_dma, second part: the lines of tx and rx are looked up past the    *)
(* cache and enabled, one after the other.                                 *)
init_dma_irq ==
  /\ pc = "dma_irq"
  /\ LET tx == FreshLine(TX)
         rx == FreshLine(RX)
     IN  /\ cache' = IF tx = NMI THEN [cache EXCEPT ![TX] = NMI]
                     ELSE [cache EXCEPT ![TX] = tx, ![RX] = rx]
         /\ lines' = IF tx = NMI THEN lines ELSE lines \cup ({tx, rx} \ {NMI})
         /\ IF tx # NMI /\ rx # NMI THEN pc' = "dma_tx" /\ UNCHANGED state ELSE Fail
  /\ UNCHANGED <<des, clocks, pins, par, hdma, huart, used, edits, setups>>

(* init_dma, third part: the handle of one direction.  HAL_DMA_Init fails  *)
(* when the stream does not stop in time.                                  *)
init_dma_handle(d, next) ==
  IF ~HasRequest
    THEN /\ hdma' = [hdma EXCEPT ![d].Instance = Stream(d)]
         /\ Fail
    ELSE /\ hdma' = [hdma EXCEPT ![d] = [Instance |-> Stream(d),
                                         Request |-> get_dma_request(d)]]
         /\ \/ pc' = next /\ UNCHANGED state
            \/ Fail

init_dma_tx ==
  /\ pc = "dma_tx"
  /\ init_dma_handle(TX, "dma_rx")
  /\ UNCHANGED <<des, hw, cache, huart, used, edits, setups>>

(* The end of init_dma writes the address of _huart.Instance->TDR into PAR *)
(* of the tx stream.                                                       *)
init_dma_rx ==
  /\ pc = "dma_rx"
  /\ init_dma_handle(RX, "uart")
  /\ LET s == hdma[TX].Instance
     IN  par' = IF pc' = "uart" THEN [x \in DOMAIN par \cup {s} |->
                                        IF x = s THEN huart ELSE par[x]]
                ELSE par
  /\ UNCHANGED <<des, clocks, lines, pins, cache, huart, used, edits, setups>>

(* HAL_RCCEx_PeriphCLKConfig may fail before anything is done, and         *)
(* HAL_UART_Init or HAL_UARTEx_DisableFifoMode after the clock is on.      *)
init_uart ==
  /\ pc = "uart"
  /\ \/ Fail /\ UNCHANGED <<clocks, huart>>
     \/ /\ Clocked(des.uart)
        /\ clocks' = Switched(clocks, ByAddr(des.uart), TRUE)
        /\ huart' = des.uart
        /\ \/ state' = "live" /\ pc' = "idle"
           \/ Fail
  /\ UNCHANGED <<des, lines, pins, par, cache, hdma, used, edits, setups>>

(* ops.write: get_dma_irq fills an empty cache, and the line it gives is   *)
(* disabled during the copy loop and enabled behind it; without a line     *)
(* write returns at once.  The copy and start_tx are in TtyTx.             *)
write ==
  /\ pc = "idle" /\ Prepared
  /\ LET irq == get_dma_irq(TX, FALSE)
     IN  /\ cache' = [cache EXCEPT ![TX] = irq]
         /\ lines' = lines \cup ({irq} \ {NMI})
  /\ UNCHANGED <<des, state, pc, clocks, pins, par, hdma, huart, used, edits, setups>>

(* The client changes a field of the descriptor. *)
Edit(f, v) ==
  /\ pc = "idle" /\ Prepared
  /\ edits < MaxEdits /\ edits' = edits + 1
  /\ des[f] # v
  /\ des' = [des EXCEPT ![f] = v]
  /\ UNCHANGED <<state, pc, hw, cache, hdma, huart, used, setups>>

(* Another driver switches the clock of a peripheral of its own. *)
bsp_utils_periph_clk(o, enable) ==
  /\ pc = "idle"
  /\ clocks' = Switched(clocks, o, enable)
  /\ UNCHANGED <<des, state, pc, lines, pins, par, cache, hdma, huart,
                 used, edits, setups>>

Next ==
  \/ set_default_des \/ bsp_tty_init \/ init_gpio
  \/ init_dma_clk \/ init_dma_irq \/ init_dma_tx \/ init_dma_rx
  \/ init_uart \/ write
  \/ \E f \in Fields : \E v \in Choices[f] : Edit(f, v)
  \/ \E o \in Others, enable \in BOOLEAN : bsp_utils_periph_clk(o, enable)

Spec == Init /\ [][Next]_vars

-----------------------------------------------------------------------------
TypeOK ==
  /\ des \in [Fields -> Nat] /\ used \in [Fields -> Nat]
  /\ state \in {"coming", "live", "going"}
  /\ pc \in {"idle", "gpio", "dma_clk", "dma_irq", "dma_tx", "dma_rx", "uart"}
  /\ lines \subseteq 1 .. Len(dma_tb)
  /\ cache \in [{RX, TX} -> 0 .. Len(dma_tb)]
  /\ huart \in Nat
  /\ edits \in 0 .. MaxEdits /\ setups \in 0 .. MaxSetups

(* A LIVE module is ready, whatever failed, was edited or was switched by  *)
(* other drivers before: the clocks of the ports and of the UART that      *)
(* bsp_tty_init was called with are on, their pins are routed to the UART, *)
(* both lines are enabled and the handles name the streams and the UART.   *)
LiveIsReady ==
  state = "live" =>
    /\ \A f \in {"uart", "uart_port_tx", "uart_port_rx"} : ClockAt(used[f]) \subseteq clocks
    /\ pins[<<used.uart_port_tx, used.uart_pin_tx>>][1] = used.uart
    /\ pins[<<used.uart_port_rx, used.uart_pin_rx>>][1] = used.uart
    /\ {Line(used.dma_tx), Line(used.dma_rx)} \subseteq lines
    /\ hdma[TX].Instance = used.dma_tx /\ hdma[RX].Instance = used.dma_rx
    /\ huart = used.uart

(* The line that write would mask is the enabled line of the stream that   *)
(* the tx handle drives, as soon as the module is LIVE: the cache of       *)
(* get_dma_irq never survives a set-up with another stream.                *)
WriteMasksOwnLine ==
  state = "live" =>
    /\ get_dma_irq(TX, FALSE) = Line(hdma[TX].Instance)
    /\ get_dma_irq(TX, FALSE) \in lines

(* When set-up has succeeded the tx stream can send: its controller is     *)
(* clocked, the UART's tx request drives it and its destination is the     *)
(* UART's data register.                                                   *)
SetupConnects ==
  state = "live" =>
    /\ \E i \in 1 .. Len(Table) : /\ used.dma_tx \in Table[i].lo .. Table[i].hi
                                  /\ ClkOf(Table[i]) \in clocks
    /\ hdma[TX].Request = <<used.uart, "tx">>
    /\ par[used.dma_tx] = used.uart
=============================================================================
