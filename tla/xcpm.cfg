\* Whole programs on a memory scaled to 256 bytes with records of 8.
SPECIFICATION XSpec
CONSTANTS
  BaseLen = 2
  ExtLen = 1
  Char = {0, 32, 46, 65, 66, 98}
  MaxArg = 3
  Top = 256
  Fcb1 = 8
  Fcb2 = 12
  FcbRest = 4
  ClearLen = 5
  RandomAt = 7
  TailLength = 17
  MaxTail = 7
  LoadAddr = 25
  BDOS_ENTRY_ADDR = 160
  CBIOS_JUMP_TABLE_ADDR = 166
  MinProgram = 1
  MaxProgram = 90
  MaxArgs = 2
  Missing = Missing
  HostFile <- MCHostFile
  Inode = {1, 2}
  NoInode = NoInode
  Handle = {h1, h2}
  NoHandle = NoHandle
  MAX_OPEN_FILES = 2
  MaxFileLen = 64
  RecordSize = 8
  DmaAddr = {17, 120}
  BufSize = 16
  CountMax = 15
  Sessions <- MCSessions
INVARIANTS FilesExact TypeExact EchoExact
PROPERTIES CallsReturn WarmBootEnds
CHECK_DEADLOCK FALSE
