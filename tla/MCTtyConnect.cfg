SPECIFICATION Spec
CONSTANTS
  Table <- Periphs
  Prefix <- TenChars
  ClkOf <- ClockCase
  uart_tb <- MCuart_tb
  dma_tb <- MCdma_tb
  AfSpecial <- MCAfSpecial
  Default <- MCDefault
  Choices <- MCChoices
  Others <- MCOthers
  MaxEdits = 2
  MaxSetups = 3
INVARIANT SetupConnects
