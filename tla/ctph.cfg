SPECIFICATION FairSpec
CONSTANTS
  SIGN_LENGTH = 5
  MIN_BLOCK_SIZE = 1
  WINDOW_SIZE = 2
  HALF_LENGTH = 2
  UINT64_WIDTH = 16
  UINT16_WIDTH = 3
  UINT8_WIDTH = 8
  Bit <- MCBit
  Data <- MCData
  Null = Null
  MallocFails = TRUE
INVARIANTS
  TypeOK
  TextsOfBothSizes
  LargestBlockSize
  PointersAreLive
  LengthsOfTheTexts
  LeakOnlyWithoutAnswer
  CrashOnlyOnLongData
PROPERTIES
  Terminates
