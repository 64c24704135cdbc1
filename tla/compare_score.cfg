SPECIFICATION Spec
CONSTANTS
  SIGN_LENGTH = 64
  WINDOW_SIZE = 7
  MIN_BLOCK_SIZE = 3
  ULONG_MAX = 255
  BlockSizes = {2, 64, 128}
  Hashes <- MCHashes
  Null = Null
INVARIANTS
  NothingInCommonScoresZero
