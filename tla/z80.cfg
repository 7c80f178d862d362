\* All programs of four bytes over HALT (IM 1 behind ED), EI, IM 2, prefixes and
\* returns, and those over the interrupt modes, LD A,I, LDIR, CB, DI and RST that
\* begin with EI.
SPECIFICATION FairSpec
CONSTANTS
  Top = 4
  Opcode <- MCOpcode
  Program <- MCPrograms
  RST38 = 1
  NMI66 = 2
  VectorIM2 = 3
  BCTop = 3
  MaxStack = 2
INVARIANTS HaltStands IFF1NeedsIFF2
PROPERTIES ImplementsInstr PrefixesEnd
