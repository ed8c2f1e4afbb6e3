\* The rx path with the block driver starting up: controller requests for
\* the block driver and for one other, registration, deferral while a
\* driver is busy or still in x_init, and redelivery.  The deferred queue
\* is never asked to hold more than it can (MaxMsgs = Size).
CONSTANTS
  Size = 2
  Types = {t1, blk}
  Receivers = {r1, drv}
  NoOwner = NoOwner
  RegFlags = {0}
  MaxMsgs = 2
  MaxTx = 1
  ResponseTypes = {}
  MaxResponses = 0
  CMSG_BLKIF_FE = blk
  DRVR_PROC_NR = drv
  VtomResults <- MCVtomAll
  BufAddrs <- MCBufAddrs
SPECIFICATION Spec
INVARIANT TypeOK
INVARIANT BlkRingInBuffer
INVARIANT NoMessageLost
INVARIANT DeliveredInOrder
PROPERTY RxRequestsConsumed
