\* The layout scaled down: names of 2+1, a tail of 4, programs of 2 to 6 bytes.
SPECIFICATION Spec
CONSTANTS
  BaseLen = 2
  ExtLen = 1
  Char = {32, 46, 65}
  MaxArg = 3
  Top = 39
  Fcb1 = 8
  Fcb2 = 12
  TailLength = 16
  MaxTail = 4
  LoadAddr = 21
  BDOS_ENTRY_ADDR = 29
  CBIOS_JUMP_TABLE_ADDR = 32
  MinProgram = 2
  MaxProgram = 6
  MaxArgs = 3
  MaxFile = 10
  Missing = Missing
  Files <- MCFiles
INVARIANTS TailIsJoined TrapsIntact ProgramIntact FcbsNamed
CHECK_DEADLOCK FALSE
