\* The comment at xcpm.c:179 about names without an extension.
SPECIFICATION Spec
CONSTANTS
  BaseLen = 3
  ExtLen = 2
  Char = {32, 46, 65, 66}
  MaxArg = 3
INVARIANTS EmptyExtensionKeepsBase
CHECK_DEADLOCK FALSE
