SPECIFICATION TableSpec
CONSTANTS
  Digest <- MCDigest
  ByteProduct <- MCByteProduct
  ByteSum <- MCByteSum
  Null = Null
  InitialSize = 1
  MaxSize = 4
  NoIndex = 255
  MallocFails = TRUE
INVARIANTS
  TableTypeOK
  TableAccurate
  ScansEnd
