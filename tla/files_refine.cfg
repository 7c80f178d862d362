\* The calls implement CpmFiles: two files and two FCBs on one slot, read-ahead, holes.
SPECIFICATION Spec
CONSTANTS
  n1 = n1
  n2 = n2
  f1 = f1
  f2 = f2
  MaxOpen = 1
  Byte = {0, 1, 2}
  Inode = {i1, i2}
  NoInode = NoInode
  RecordSize = 2
  DiskFull = FALSE
  ReadAhead = TRUE
  SwitchOutcomes = {"works"}
  FcbAddr <- MCFcbAddr
  FcbName = {n1, n2}
  HostFile = {f1, f2}
  HostName <- MCHostName
  InitialFile <- MCOneLong
  DmaAddr = {128}
  DefaultDma = 128
  GuestRecord = {}
  MAX_OPEN_FILES = 1
  Handle = {h1, h2}
  NoHandle = {h1, h2}
  RandomRecord = {0, 1}
  MaxFileLen = 4
  SharedFiles = FALSE
  RemoveOpenFails = FALSE
  HostRefuses = FALSE
SYMMETRY Symmetry
PROPERTIES ImplementsCpm
CHECK_DEADLOCK FALSE
