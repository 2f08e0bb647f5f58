----------------------------- MODULE MCTtySetup -----------------------------
(***************************************************************************)
(* The set-up of the TTY with the real tables.  The client chooses between *)
(* a UART with and one without a DMA request, two ports, usual and special *)
(* pins, and streams of both controllers; TIM3, which the clock switch     *)
(* does not know, and TIM2, which is no stream, make it fail.              *)
(***************************************************************************)
EXTENDS TtySetup, PeriphTable

MCuart_tb == <<BASE("USART1"), BASE("USART2"), BASE("USART3"), BASE("UART4"),
               BASE("UART5"), BASE("USART6"), BASE("UART7"), BASE("UART8")>>

MCdma_tb ==
  [i \in 1 .. 16 |-> IF i <= 8 THEN STREAM(BASE("DMA1"), i - 1)
                               ELSE STREAM(BASE("DMA2"), i - 9)]

MCAfSpecial ==
  {<<BASE(x[1]), x[2], BASE(x[3]), x[4]>> : x \in
     {<<"USART1", TX, "GPIOB", 14>>, <<"USART1", RX, "GPIOB", 15>>,
      <<"UART4", TX, "GPIOA", 12>>, <<"UART4", RX, "GPIOA", 11>>,
      <<"UART5", TX, "GPIOC", 12>>, <<"UART5", RX, "GPIOD", 2>>,
      <<"UART7", TX, "GPIOE", 8>>, <<"UART7", RX, "GPIOE", 7>>,
      <<"UART7", TX, "GPIOF", 7>>, <<"UART7", RX, "GPIOF", 6>>}}

MCDefault ==
  [uart |-> BASE("USART1"),
   uart_port_tx |-> BASE("GPIOB"), uart_pin_tx |-> 6,
   uart_port_rx |-> BASE("GPIOB"), uart_pin_rx |-> 7,
   dma_tx |-> MCdma_tb[1], dma_rx |-> MCdma_tb[2]]

MCChoices ==
  [uart |-> {BASE("USART1"), BASE("UART4")},
   uart_port_tx |-> {BASE("GPIOB"), BASE("TIM3")}, uart_pin_tx |-> {6, 14},
   uart_port_rx |-> {BASE("GPIOB"), BASE("GPIOD")}, uart_pin_rx |-> {7},
   dma_tx |-> {MCdma_tb[1], MCdma_tb[3], MCdma_tb[9]},
   dma_rx |-> {MCdma_tb[2], BASE("TIM2")}]

MCOthers == {ByAddr(BASE("GPIOC")), ByName("TIM3")}
=============================================================================
