SPECIFICATION FairSpec
CONSTANTS
  Digest <- MCDigest
  ByteProduct <- MCByteProduct
  ByteSum <- MCByteSum
  BitsOf <- MCBitsOf
  Bit = {1, 2}
  SECTION_END = 3
  SHINGLE_SIZE <- MCShingleSize
  Data <- MCData
  Null = Null
  InitialSize = 1
  MaxSize = 2
  NoIndex = 255
  MallocFails = TRUE
INVARIANTS
  LeakOnlyOnExpandError
PROPERTY Terminates
