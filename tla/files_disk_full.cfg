\* A disk that fills up: is a lost write always reported?
SPECIFICATION Spec
CONSTANTS
  n1 = n1
  n2 = n2
  f1 = f1
  f2 = f2
  MaxOpen = 1
  Byte = {0, 1, 2}
  Inode = {i1, i2}
  NoInode = NoInode
  RecordSize = 1
  DiskFull = TRUE
  ReadAhead = FALSE
  SwitchOutcomes = {"works"}
  FcbAddr <- MCFcbAddr
  FcbName = {n1}
  HostFile = {f1}
  HostName <- MCOneName
  InitialFile <- MCOneRecord
  DmaAddr = {128}
  DefaultDma = 128
  GuestRecord <- MCTwos
  MAX_OPEN_FILES = 1
  Handle = {h1, h2}
  NoHandle = NoHandle
  RandomRecord = {0}
  MaxFileLen = 1
  SharedFiles = FALSE
  RemoveOpenFails = FALSE
  HostRefuses = FALSE
SYMMETRY Symmetry
PROPERTIES LostWritesReported
CHECK_DEADLOCK FALSE
