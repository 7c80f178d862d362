\* Everything of up to five characters that may be typed, and every memory of
\* seven bytes over NUL, '$' and a letter to print from.
SPECIFICATION FairSpec
CONSTANTS
  Top = 7
  BufSize = 4
  CountMax = 4
  Beginning <- MCBeginning
  MaxTyped = 5
  Buffers = {1, 2}
  Start = {0, 3}
  OutChar = {98}
  MaxOut = 2
INVARIANTS InputConserved LineByLine
PROPERTIES OutputExact OutputEnds
CHECK_DEADLOCK FALSE
