SPECIFICATION FairSpec
CONSTANTS
  ByteValues = 16
  Files <- MCFiles
  SECTION_NAME <- MCSectionName
  Null = Null
  Garbage = Garbage
INVARIANTS
  ElfTypeOK
  FreesLiveBlocks
  OnlyTheCheckLeaks
  LengthsOfBlocks
  SectionsAreTheFiles
  ReadsExecutables
PROPERTIES
  Terminates
