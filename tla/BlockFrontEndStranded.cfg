\* The block driver alone: its status message, and one controller message
\* of its type.  Flags 0 (the flag-1 path is ControlIfBlockingLost.cfg).
\* When everything is sent every task waits in receive, as the real ones do
\* when idle, so the end of the bounds is not a deadlock.
CONSTANTS
  Size = 2
  Types = {blk}
  Receivers = {drv}
  NoOwner = NoOwner
  RegFlags = {0}
  MaxMsgs = 1
  MaxTx = 1
  ResponseTypes = {}
  MaxResponses = 0
  CMSG_BLKIF_FE = blk
  DRVR_PROC_NR = drv
  VtomResults <- MCVtomOK
  BufAddrs <- MCBufAddrs
SPECIFICATION Spec
PROPERTY RequestsDelivered
CHECK_DEADLOCK FALSE
