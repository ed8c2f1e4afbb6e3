\* The tx ring with the block driver's start-up among the other drivers'
\* sends (blocking and not), controller lag and responses: three messages
\* in all, so that a send finds the two-slot ring full.
CONSTANTS
  Size = 2
  Types = {t1, blk}
  Receivers = {r1, drv}
  NoOwner = NoOwner
  RegFlags = {0}
  MaxMsgs = 1
  MaxTx = 3
  ResponseTypes = {t1}
  MaxResponses = 1
  CMSG_BLKIF_FE = blk
  DRVR_PROC_NR = drv
  VtomResults <- MCVtomOK
  BufAddrs <- MCBufAddrs
SPECIFICATION Spec
PROPERTY TxRefinesChannel
PROPERTY SendBlockReturns
PROPERTY BlkReachesLoop
