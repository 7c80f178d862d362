\* Base names of three bytes and extensions of two, over a small alphabet:
\* NUL, blank, '.', 'A', 'a', 'A' with its high bit set.
SPECIFICATION Spec
CONSTANTS
  BaseLen = 3
  ExtLen = 2
  Char = {0, 32, 46, 65, 97, 193}
  MaxArg = 5
INVARIANTS BufferBound NamedByFields ArgumentRoundTrip
PROPERTIES Converts
CHECK_DEADLOCK FALSE
