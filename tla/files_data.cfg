\* Data: whole records of two bytes, one FCB per file, read-ahead, writes after a read
\* that may fail; function 22 in two steps, beside a process that makes and removes
\* the file; opens may be refused.
SPECIFICATION SharedSpec
CONSTANTS
  n1 = n1
  f1 = f1
  Byte = {0, 1, 2}
  Inode = {i1, i2}
  NoInode = NoInode
  RecordSize = 2
  DiskFull = FALSE
  ReadAhead = TRUE
  SwitchOutcomes = {"works", "fails"}
  FcbAddr = {92, 108}
  FcbName = {n1}
  HostFile = {f1}
  HostName <- MCHostName
  InitialFile <- MCInitialFile
  DmaAddr = {128}
  DefaultDma = 128
  GuestRecord <- MCRecords
  MAX_OPEN_FILES = 1
  Handle = {h1, h2}
  NoHandle = NoHandle
  RandomRecord = {0, 1}
  MaxFileLen = 4
  SharedFiles = FALSE
  RemoveOpenFails = FALSE
  HostRefuses = TRUE
  NoCall = NoCall
  OtherContent <- MCOtherContent
SYMMETRY Symmetry
INVARIANTS ReadsCurrent RecordAligned
PROPERTIES WritesKept CreateAsOneStep
CHECK_DEADLOCK FALSE
