\* Buffers of 3 bytes, control messages of 2, a kernel ring of 3: writes,
\* prints and kernel messages wrap both rings and split across messages.
CONSTANTS
  XEN_BUFFER_SIZE = 3
  M9_CTRL_MSG = 2
  KMESS_BUF_SIZE = 3
  InMsgs <- MCInMsgs
  Writes <- MCWrites
  Prints <- MCPrints
  OutBytes = {97, 10}
  MaxOps = 5
INIT Init
NEXT Next
INVARIANTS TypeOK OutputOrdered InputIntact KmessShownOnce
