SPECIFICATION Spec
CONSTANTS
  Top = 128
  Program <- MCPrograms
  Requests <- MCRequests
INVARIANTS ArithmeticExact BlocksMoved ComparisonsExact StateRestored
INVARIANTS RecordsExact BitsExact PortsExact RefreshExact HandlersBalanced
PROPERTIES Terminates
CHECK_DEADLOCK FALSE
