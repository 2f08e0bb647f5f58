---------------------------- MODULE PeriphTable ----------------------------
(***************************************************************************)
(* The data of bsp_utils.c for the STM32H743: the table of peripherals and *)
(* which clock the switch of bsp_utils_periph_clk turns for each of them.  *)
(* A row is given by its distance from PERIPH_BASE and its length, in      *)
(* pages of 1024 bytes, and its name.                                      *)
(***************************************************************************)
EXTENDS Integers, Sequences

Page == 1024
PERIPH_BASE == 1048576 * Page

Rows == <<
  <<0, 1, "TIM2">>, <<1, 1, "TIM3">>, <<2, 1, "TIM4">>, <<3, 1, "TIM5">>,
  <<4, 1, "TIM6">>, <<5, 1, "TIM7">>, <<6, 1, "TIM12">>, <<7, 1, "TIM13">>,
  <<8, 1, "TIM14">>, <<9, 1, "LPTIM1">>, <<11, 1, "RESERVED">>,
  <<14, 1, "SPI2">>, <<15, 1, "SPI3">>, <<16, 1, "SPDIFRX">>,
  <<17, 1, "USART2">>, <<18, 1, "USART3">>, <<19, 1, "UART4">>,
  <<20, 1, "UART5">>, <<21, 1, "I2C1">>, <<22, 1, "I2C2">>,
  <<23, 1, "I2C3">>, <<27, 1, "HDMI_CEC">>, <<29, 1, "DAC1">>,
  <<30, 1, "UART7">>, <<31, 1, "UART8">>, <<33, 1, "CRS">>,
  <<34, 1, "SWPMI">>, <<36, 1, "OPAMP">>, <<37, 1, "MDIOS">>,
  <<40, 1, "FDCAN1">>, <<41, 1, "FDCAN2">>, <<42, 11, "FDCAN">>,
  <<64, 1, "TIM1">>, <<65, 1, "TIM8">>, <<68, 1, "USART1">>,
  <<69, 1, "USART6">>, <<76, 1, "SPI1">>, <<77, 1, "SPI4">>,
  <<80, 1, "TIM15">>, <<81, 1, "TIM16">>, <<82, 1, "TIM17">>,
  <<84, 1, "SPI5">>, <<86, 1, "SAI1">>, <<87, 1, "SAI2">>,
  <<88, 1, "SAI3">>, <<92, 1, "DFSDM1">>, <<93, 1, "HRT1M">>,
  <<128, 1, "DMA1">>, <<129, 1, "DMA2">>, <<130, 1, "DMAMUX1">>,
  <<136, 1, "ADC">>, <<145, 1, "RESERVED">>, <<160, 5, "MAC">>,
  <<256, 256, "OTG_HS">>, <<512, 256, "OTG_FS">>, <<131200, 1, "DCMI">>,
  <<131204, 1, "CRYPTO">>, <<131205, 1, "HASH">>, <<131206, 1, "RNG">>,
  <<131209, 1, "SDMMC2">>, <<131210, 1, "DLYB_SDMMC2">>,
  <<262144, 4, "RESERVED">>, <<262148, 4, "LTDC">>, <<262156, 4, "WWDG1">>,
  <<278528, 1024, "GPV">>, <<294912, 4, "MDMA">>, <<294916, 4, "DMA2D">>,
  <<294920, 4, "Flash">>, <<294924, 4, "JPEG">>, <<294928, 4, "FMC">>,
  <<294932, 4, "QSPI">>, <<294936, 4, "DLYB_QSPI">>,
  <<294940, 4, "SDMMC1">>, <<294944, 4, "DLYB_SDMMC1">>,
  <<393216, 1, "EXTI">>, <<393217, 1, "SYSCFG">>, <<393219, 1, "LPUART1">>,
  <<393221, 1, "SPI6">>, <<393223, 1, "I2C4">>, <<393225, 1, "LPTIM2">>,
  <<393226, 1, "LPTIM3">>, <<393227, 1, "LPTIM4">>,
  <<393228, 1, "LPTIM5">>, <<393230, 1, "COMP1_COMP2">>,
  <<393231, 1, "VREF">>, <<393231, 1, "VREFBUF">>, <<393232, 1, "RTC">>,
  <<393234, 1, "IWDG1">>, <<393235, 1, "RESERVED">>, <<393237, 1, "SAI4">>,
  <<393241, 2, "RESERVED">>, <<393344, 1, "GPIOA">>,
  <<393345, 1, "GPIOB">>, <<393346, 1, "GPIOC">>, <<393347, 1, "GPIOD">>,
  <<393348, 1, "GPIOE">>, <<393349, 1, "GPIOF">>, <<393350, 1, "GPIOG">>,
  <<393351, 1, "GPIOH">>, <<393352, 1, "GPIOI">>, <<393353, 1, "GPIOJ">>,
  <<393354, 1, "GPIOK">>, <<393361, 1, "RCC">>, <<393362, 1, "PWR">>,
  <<393363, 1, "CRC">>, <<393365, 1, "BDMA">>, <<393366, 1, "DMAMUX2">>,
  <<393368, 1, "ADC3">>, <<393369, 1, "HSEM">>>>

(* bsp_utils_periph_des, with the first and the last address of a row *)
Periphs ==
  [i \in DOMAIN Rows |->
     [lo |-> PERIPH_BASE + Rows[i][1] * Page,
      hi |-> PERIPH_BASE + (Rows[i][1] + Rows[i][2]) * Page - 1,
      name |-> Rows[i][3]]]

(* The first address of the peripheral the header calls n. *)
BASE(n) == Periphs[CHOOSE i \in DOMAIN Periphs : Periphs[i].name = n].lo

(* The address of stream s of the controller at b: DMAx_Streams_BASE. *)
STREAM(b, s) == b + 16 + 24 * s

(* strncmp with a length of 10 tells names apart by their first ten        *)
(* characters; these are the names that are longer.                        *)
TenChars(n) ==
  CASE n \in {"DLYB_SDMMC1", "DLYB_SDMMC2"} -> "DLYB_SDMMC"
    [] n = "COMP1_COMP2" -> "COMP1_COMP"
    [] OTHER -> n

(* Rows for which the switch has no case, by their first address *)
NoCase ==
  {"TIM3", "RESERVED", "FDCAN", "DMAMUX1", "CRYPTO", "HASH", "GPV", "Flash",
   "EXTI", "IWDG1", "RCC", "PWR", "DMAMUX2"}

(* Rows that share the clock of another name *)
SharedClock ==
  [FDCAN1 |-> "FDCAN", FDCAN2 |-> "FDCAN", DLYB_SDMMC1 |-> "SDMMC1",
   DLYB_SDMMC2 |-> "SDMMC2", DLYB_QSPI |-> "QSPI", VREFBUF |-> "VREF"]

(* The clock that the case of a row's first address turns, "" for none *)
ClockCase(r) ==
  CASE r.name \in NoCase -> ""
    [] r.name \in DOMAIN SharedClock -> SharedClock[r.name]
    [] OTHER -> r.name
=============================================================================
