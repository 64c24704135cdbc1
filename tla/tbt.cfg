CONSTANTS
  one = one
  two = two
  Null = Null
  Unset = Unset
  Scrap = Scrap
  SIM_HASH_SIZE = 16
  Junk <- MCJunk
  Process <- MCProcess
  Runs <- AllRuns
  Disk <- MCDisk
  Directory <- MCDirectory
  Sample <- MCSample
  Bytes <- MCBytes
  CtphScore <- MCCtphScore
  Scores <- MCScores

SPECIFICATION FairSpec

INVARIANTS
  TbtTypeOK
  HashThenCompare
  HashesMatchNames
  OneBeyondAtMost
  ResultsSorted
  ListsEveryPair
  ExistingFilesStay

PROPERTIES
  Terminates
