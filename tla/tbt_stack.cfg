CONSTANTS
  one = one
  two = two
  Null = Null
  Unset = Unset
  Scrap = Scrap
  SIM_HASH_SIZE = 16
  Junk <- MCJunk
  Process <- MCProcess
  Runs <- ReadOld
  Disk <- TornDisk
  Directory <- MCDirectory
  Sample <- MCSample
  Bytes <- MCBytes
  CtphScore <- MCCtphScore
  Scores <- MCScores

SPECIFICATION Spec

INVARIANT StoresInArray
