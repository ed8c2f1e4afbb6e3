---------------------------- MODULE BlockFrontEnd ----------------------------
(***************************************************************************)
(* The block front end (src/drivers/xenvbd/xenvbd.c) composed with the     *)
(* CTRLIF task and the domain controller of ControlIf.                     *)
(*                                                                         *)
(* Everything of the driver but its start-up is compiled out (#if 0): the  *)
(* transfer, open, ioctl and geometry hooks only print and return.  What  *)
(* runs is x_init, which places the block ring page in blk_ring_buf and   *)
(* has the kernel translate it to a machine frame (panicking if it        *)
(* cannot), registers the driver as the receiver of                       *)
(* CMSG_BLKIF_FE and sends the driver status UP with CTRLIF_SEND_BLOCK,    *)
(* then main's printf, then driver_task's receive loop.  Each sendrec to  *)
(* CTRLIF is one action: the CTRLIF task takes the request, runs its      *)
(* handler and replies before it receives anything else.  Until the driver *)
(* is back in receive (blk_pc = "loop" and ready), a controller message    *)
(* for it is deferred by ctrl_if_deliver_message.                          *)
(*                                                                         *)
(* The other drivers and the controller are ControlIf's environment; they  *)
(* act on the types and receivers other than the block driver's.          *)
(***************************************************************************)
EXTENDS Integers

CONSTANTS
  Size, Types, Receivers, NoOwner, RegFlags, MaxMsgs, MaxTx,
  ResponseTypes, MaxResponses,  \* as in ControlIf
  CMSG_BLKIF_FE,  \* the control message type of the block front end
  DRVR_PROC_NR,   \* the block driver's task
  VtomResults,    \* results sys_getvtom may return: OK, or an error code
  BufAddrs        \* link addresses of blk_ring_buf the check considers

VARIABLES
  tx_ring, tx_req_prod, tx_resp_prod, ctrl_if_tx_resp_cons,
  rx_ring, rx_req_prod, rx_resp_prod, ctrl_if_rx_req_cons,
  ctrl_if_rxmsg_handler, ctrl_if_rxmsg_blocking_context,
  ctrl_if_rxmsg_deferred, ctrl_if_rxmsg_deferred_prod, ctrl_if_rxmsg_deferred_cons,
  hard_int, task_pc, ready, ctl_tx_cons, ctl_rx_cons, ctl_got, inbox, dropped,
  blk_pc  \* "ring", "reg", "status", "status_wait", "print", "loop", "panic"

CI == INSTANCE ControlIf

OK == 0         \* the kernel call succeeded

ASSUME CMSG_BLKIF_FE \in Types /\ DRVR_PROC_NR \in Receivers /\ OK \in VtomResults

PAGE_SIZE == 4096

(* Mutant: the address rounded down instead of up.                        *)
BlkRingAddrRoundDown(buf) == buf - (buf % PAGE_SIZE)

(* x_init's placement of the ring: the first page boundary above the      *)
(* buffer's start, (buf + PAGE_SIZE) & ~(PAGE_SIZE - 1).  Masking the low  *)
(* bits of a power of two is subtracting the remainder.  The unsigned long *)
(* sum cannot wrap: the buffer's two pages lie below 2^32.                 *)
BlkRingAddr(buf) ==
  LET x == buf + PAGE_SIZE IN x - (x % PAGE_SIZE)

ciVars == <<tx_ring, tx_req_prod, tx_resp_prod, ctrl_if_tx_resp_cons,
            rx_ring, rx_req_prod, rx_resp_prod, ctrl_if_rx_req_cons,
            ctrl_if_rxmsg_handler, ctrl_if_rxmsg_blocking_context,
            ctrl_if_rxmsg_deferred, ctrl_if_rxmsg_deferred_prod,
            ctrl_if_rxmsg_deferred_cons, hard_int, task_pc, ready,
            ctl_tx_cons, ctl_rx_cons, ctl_got, inbox, dropped>>

allVars == <<ciVars, blk_pc>>

(* The driver starts in x_init, not yet in receive.                        *)
BlkInit ==
  /\ CI!Init
  /\ ready[DRVR_PROC_NR] = FALSE
  /\ blk_pc = "ring"

(* x_init's start: blk_ring is computed (BlkRingAddr) and sys_getvtom      *)
(* overwrites it with the page's machine frame.  GET_VTOM is served by    *)
(* the system task, not in this repository, so its result is an input; on *)
(* anything but OK the driver panics and never registers.  The frame is    *)
(* not used again: the event channel connection is not written yet.       *)
BlkRingSetup(res) ==
  /\ blk_pc = "ring"
  /\ blk_pc' = IF res = OK THEN "reg" ELSE "panic"
  /\ UNCHANGED ciVars

(* x_init, CTRLIF_REG_HND for CMSG_BLKIF_FE.  m5_i2, the flags word, is    *)
(* never set: regmsg is an uninitialised local, so the flags are whatever  *)
(* the stack holds (RegFlags).                                             *)
BlkRegister(flags) ==
  /\ blk_pc = "reg"
  /\ CI!RegisterReceiver(CMSG_BLKIF_FE, DRVR_PROC_NR, flags)
  /\ blk_pc' = "status"

(* Mutant: CTRLIF answers a blocking send only from its retry loop.        *)
BlkSendStatusNoReply ==
  /\ blk_pc = "status"
  /\ CI!SendMessageBlock
  /\ blk_pc' = "status_wait"

(* x_init, CTRLIF_SEND_BLOCK of the driver status UP.  If the ring is full *)
(* the CTRLIF task keeps retrying and the driver keeps waiting for its     *)
(* reply.                                                                  *)
BlkSendStatus ==
  /\ blk_pc = "status"
  /\ CI!SendMessageBlock
  /\ blk_pc' = IF task_pc' = "send_block" THEN "status_wait" ELSE "print"

(* A retry of the CTRLIF task's send loop; when the driver's status is the *)
(* message it was retrying and it goes out, the driver gets its reply.     *)
SendBlockRetry ==
  /\ CI!SendBlockRetry
  /\ blk_pc' = IF blk_pc = "status_wait" /\ task_pc' = "idle" THEN "print" ELSE blk_pc

(* main: printf("init'd\n") ends in kputc's flush, a _sendrec of the       *)
(* buffer to every output driver; then driver_task blocks in receive.      *)
BlkPrint ==
  /\ blk_pc = "print"
  /\ blk_pc' = "loop"
  /\ UNCHANGED ciVars

(* MaxTx bounds every driver's messages together; one of them is kept for *)
(* the block driver's status until it is sent.                             *)
OthersMaySend ==
  tx_req_prod + (IF blk_pc \in {"ring", "reg", "status"} THEN 1 ELSE 0) < MaxTx

(* The CTRLIF task's other handlers, the other drivers and the            *)
(* controller, as in ControlIf; the block driver does not move.           *)
DoHardInt == CI!DoHardInt /\ UNCHANGED blk_pc
RegisterReceiver(type, process, flags) ==
  CI!RegisterReceiver(type, process, flags) /\ UNCHANGED blk_pc
UnregisterReceiver(type, process) ==
  CI!UnregisterReceiver(type, process) /\ UNCHANGED blk_pc
SendMessageNoblock == OthersMaySend /\ CI!SendMessageNoblock /\ UNCHANGED blk_pc
SendMessageBlock == OthersMaySend /\ CI!SendMessageBlock /\ UNCHANGED blk_pc
SendResponse(type) == CI!SendResponse(type) /\ UNCHANGED blk_pc
CtlReadTx == CI!CtlReadTx /\ UNCHANGED blk_pc
CtlRespondTx == CI!CtlRespondTx /\ UNCHANGED blk_pc
CtlSendRx(type) == CI!CtlSendRx(type) /\ UNCHANGED blk_pc
CtlReadRxResp == CI!CtlReadRxResp /\ UNCHANGED blk_pc
(* The block driver waits in receive only once it is in driver_task; a    *)
(* message delivered to it is a HARD_INT, which driver_task hands to       *)
(* x_hw_int, and x_hw_int only prints before the driver receives again.   *)
ReceiverWaits(r) ==
  /\ r = DRVR_PROC_NR => blk_pc = "loop"
  /\ CI!ReceiverWaits(r) /\ UNCHANGED blk_pc

Next ==
  \/ \E res \in VtomResults : BlkRingSetup(res)
  \/ \E f \in RegFlags : BlkRegister(f)
  \/ BlkSendStatus
  \/ SendBlockRetry
  \/ BlkPrint
  \/ DoHardInt
  \/ \E t \in Types \ {CMSG_BLKIF_FE}, r \in Receivers \ {DRVR_PROC_NR}, f \in RegFlags :
        RegisterReceiver(t, r, f)
  \/ \E t \in Types, r \in Receivers \ {DRVR_PROC_NR} : UnregisterReceiver(t, r)
  \/ SendMessageNoblock
  \/ SendMessageBlock
  \/ \E t \in ResponseTypes : SendResponse(t)
  \/ CtlReadTx
  \/ CtlRespondTx
  \/ \E t \in Types : CtlSendRx(t)
  \/ CtlReadRxResp
  \/ \E r \in Receivers : ReceiverWaits(r)

(* ControlIf's fairness, and the block driver runs on while it can: it is  *)
(* a task the scheduler runs when it is not blocked.                      *)
Fairness ==
  /\ WF_allVars(DoHardInt)
  /\ WF_allVars(SendBlockRetry)
  /\ WF_allVars(CtlReadTx) /\ WF_allVars(CtlRespondTx) /\ WF_allVars(CtlReadRxResp)
  /\ \A r \in Receivers : WF_allVars(ReceiverWaits(r))
  /\ WF_allVars(\E res \in VtomResults : BlkRingSetup(res))
  /\ WF_allVars(\E f \in RegFlags : BlkRegister(f))
  /\ WF_allVars(BlkSendStatus)
  /\ WF_allVars(BlkPrint)

Spec == BlkInit /\ [][Next]_allVars /\ Fairness

-----------------------------------------------------------------------------
(* ControlIf's properties, of the composed system.                        *)

(* ControlIf's refinement mapping of the tx sub-ring onto TxChannel.       *)
TxChan == INSTANCE TxChannel WITH
  Capacity <- Size,
  MaxSent  <- MaxTx,
  sent     <- tx_req_prod,
  chan     <- [i \in 1 .. tx_req_prod - ctl_tx_cons |-> tx_ring[(ctl_tx_cons + i - 1) % Size]],
  received <- ctl_got

(* The tx sub-ring, with the block driver among its senders, implements   *)
(* TxChannel's bounded FIFO channel: the controller reads the messages in *)
(* the order sent, none overwritten, and reads all of them (see ControlIf).*)
TxRefinesChannel == TxChan!Spec

(* ControlIf's type invariant, of the composed state.                     *)
TypeOK == CI!TypeOK /\ blk_pc \in {"ring", "reg", "status", "status_wait", "print", "loop", "panic"}

(* No controller request is lost on its way to the block driver or the     *)
(* others: each is in the rx ring, deferred, delivered or dropped for want *)
(* of an owner (see ControlIf).                                            *)
NoMessageLost == CI!NoMessageLost

(* Each driver gets the controller's requests in the order sent, across   *)
(* deferral while it starts up or is busy, and redelivery (see ControlIf). *)
DeliveredInOrder == CI!DeliveredInOrder

(* Every request the controller sends is eventually consumed from the rx  *)
(* ring by ctrl_if_rx_tasklet (see ControlIf).                             *)
RxRequestsConsumed == CI!RxRequestsConsumed

(* Every CTRLIF_SEND_BLOCK, the block driver's included, eventually        *)
(* returns (see ControlIf).                                                *)
SendBlockReturns == CI!SendBlockReturns

(* The block driver gets through x_init and main's start-up into           *)
(* driver_task's receive loop: its blocking status send returns although   *)
(* the CTRLIF task, spinning in ctrl_if_send_message_block, handles no     *)
(* HARD_INT meanwhile, and other drivers compete for the tx ring.          *)
BlkReachesLoop == <>(blk_pc = "loop" /\ ready[DRVR_PROC_NR])

(* Once x_init has placed the ring, its page lies wholly inside           *)
(* blk_ring_buf[2 * PAGE_SIZE] and starts on a page boundary, wherever the *)
(* buffer is linked: an already aligned buffer, and one a byte either side *)
(* of a boundary.                                                          *)
BlkRingInBuffer ==
  blk_pc # "ring" =>
  \A buf \in BufAddrs :
    LET r == BlkRingAddr(buf) IN
    /\ r % PAGE_SIZE = 0
    /\ buf <= r /\ r + PAGE_SIZE <= buf + 2 * PAGE_SIZE

(* Every request the controller sends is eventually delivered to the task *)
(* that owns its type, or dropped because no task owns it.  A request     *)
(* deferred because its receiver was busy is redelivered only by           *)
(* ctrl_if_rx_deferred, which runs on the next HARD_INT or unregister.    *)
RequestsDelivered ==
  \A i \in 0 .. MaxMsgs - 1 : (rx_req_prod > i) ~> (CI!Delivered(i) \/ i \in dropped)

=============================================================================
