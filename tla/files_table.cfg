\* Table: every fault of the host; more FCBs than slots, sharing a file; lengths only.
SPECIFICATION Spec
CONSTANTS
  n1 = n1
  n2 = n2
  f1 = f1
  f2 = f2
  MaxOpen = 1
  Byte = {0}
  Inode = {i1, i2}
  NoInode = NoInode
  RecordSize = 1
  DiskFull = TRUE
  ReadAhead = TRUE
  SwitchOutcomes = {"works", "fails", "dropped"}
  FcbAddr <- MCThreeFcbs
  FcbName = {n1}
  HostFile = {f1}
  HostName <- MCOneName
  InitialFile <- MCTwoZeroes
  DmaAddr = {128}
  DefaultDma = 128
  GuestRecord = {}
  MAX_OPEN_FILES = 2
  Handle = {h1, h2, h3}
  NoHandle = NoHandle
  RandomRecord = {0}
  MaxFileLen = 2
  SharedFiles = TRUE
  RemoveOpenFails = TRUE
  HostRefuses = TRUE
SYMMETRY Symmetry
INVARIANTS TypeOK TableSound
PROPERTIES FailedOpenHarmless FilesNotReplaced
CHECK_DEADLOCK FALSE
