SPECIFICATION Spec
CONSTANTS
  MBR_SIZE = 64
  SD_IVT_OFFSET = 64
  IVT_SIZE = 16
  QSPI_PARAMS_OFFSET = 32
  QSPI_PARAMS_SIZE = 32
  DCD_MAXIMUM_SIZE = 48
  HSE_FW_MAX_SIZE = 64
  HSE_SYS_IMG_MAX_SIZE = 24
  APP_CODE_SIZE = 16
  BOOTROM_QSPI_ALIGNMENT = 8
  BOOTROM_SD_ALIGNMENT = 32
  SZ_1K = 64
  CODE_ALIGNMENT = 32
  PageSize = 64
  reserved_sram <- MCReserved
  FwSizes <- MCFwSizes
  DataSizes <- MCDataSizes
  Addresses <- MCAddresses
  MaxLines = 5
INVARIANTS
  PartsDisjoint
  AppBehindParts
  OffsetsAligned
  DcdAllocated
  DcdWellFormed
  MediumRecognised
