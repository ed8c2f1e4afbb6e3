\* A two-character console message arriving when one byte of ibuf is free.
CONSTANTS
  XEN_BUFFER_SIZE = 3
  M9_CTRL_MSG = 2
  KMESS_BUF_SIZE = 3
  InMsgs <- MCInMsgsLong
  Writes <- MCWrites
  Prints <- MCPrints
  OutBytes = {97, 10}
  MaxOps = 5
INIT Init
NEXT Next
INVARIANT InputIntact
