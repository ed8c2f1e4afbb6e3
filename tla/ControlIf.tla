------------------------------ MODULE ControlIf ------------------------------
(***************************************************************************)
(* The control-interface task of the Minix/Xen guest (src/kernel/ctrl_if.c) *)
(* together with the domain controller on the other side of the shared     *)
(* control page and the driver tasks that register as message receivers.   *)
(*                                                                         *)
(* The page holds two rings of CONTROL_RING_SIZE slots:                    *)
(*  - tx: guest requests, tx_req_prod written by the guest, tx_resp_prod  *)
(*    written by the controller; ctrl_if_tx_resp_cons is the guest's       *)
(*    private count of responses it has stepped over;                      *)
(*  - rx: controller requests, rx_req_prod written by the controller,     *)
(*    rx_resp_prod written by the guest; ctrl_if_rx_req_cons is the guest's *)
(*    private count of requests it has consumed.                           *)
(* Counters only grow; a slot is counter % Size (MASK_CONTROL_IDX).        *)
(*                                                                         *)
(* The CTRLIF task runs one handler at a time (its receive loop,           *)
(* ctrl_if_task); each handler is one action.  A HARD_INT notification is  *)
(* pending in hard_int, set by ctrl_if_interrupt at the end of the         *)
(* controller's notification; the event-channel dispatch that runs it is   *)
(* modelled in EvtchnDispatch.  Messages are                               *)
(* records [type, id]: id is the request's sequence number, -1 for         *)
(* anything that is not a controller request (initial slot contents and    *)
(* guest responses).                                                       *)
(***************************************************************************)
EXTENDS Integers, Sequences, FiniteSets

CONSTANTS
  Size,       \* CONTROL_RING_SIZE (also the size of the deferred queue)
  Types,      \* control message types that occur
  Receivers,  \* driver tasks that may register for a type
  NoOwner,    \* HANDLER_UNASSIGNED
  RegFlags,   \* flag words drivers pass to CTRLIF_REG_HND (1 = blocking context)
  MaxMsgs,    \* bound on requests the controller sends
  MaxTx,      \* bound on messages the drivers send to the controller
  ResponseTypes, \* types of the messages drivers pass to CTRLIF_SEND_RESPONSE
  MaxResponses   \* bound on CTRLIF_SEND_RESPONSE requests

ASSUME Size \in Nat \ {0} /\ MaxMsgs \in Nat /\ MaxTx \in Nat /\ MaxResponses \in Nat
ASSUME NoOwner \notin Receivers /\ RegFlags \subseteq {0, 1} /\ ResponseTypes \subseteq Types

CALLBACK_IN_BLOCKING_CONTEXT == 1

Msgs == [type : Types, id : -1 .. MaxMsgs - 1]
NoMsg == [type |-> CHOOSE t \in Types : TRUE, id |-> -1]

VARIABLES
  tx_ring, tx_req_prod, tx_resp_prod, ctrl_if_tx_resp_cons,
  rx_ring, rx_req_prod, rx_resp_prod, ctrl_if_rx_req_cons,
  ctrl_if_rxmsg_handler,          \* type -> owning task or NoOwner
  ctrl_if_rxmsg_blocking_context, \* set of types flagged for process context
  ctrl_if_rxmsg_deferred, ctrl_if_rxmsg_deferred_prod, ctrl_if_rxmsg_deferred_cons,
  hard_int,    \* a HARD_INT notification is pending for CTRLIF
  task_pc,     \* "idle" in receive(), or "send_block" spinning in the retry loop
  ready,       \* receiver task is blocked in receive (lock_send succeeds)
  ctl_tx_cons, ctl_rx_cons, \* the controller's private consumer counters
  ctl_got,     \* history: tx message ids in the order the controller read them
  inbox,       \* history: request ids delivered to each receiver, in order
  dropped      \* history: request ids dropped because their type had no owner

vars == <<tx_ring, tx_req_prod, tx_resp_prod, ctrl_if_tx_resp_cons,
          rx_ring, rx_req_prod, rx_resp_prod, ctrl_if_rx_req_cons,
          ctrl_if_rxmsg_handler, ctrl_if_rxmsg_blocking_context,
          ctrl_if_rxmsg_deferred, ctrl_if_rxmsg_deferred_prod,
          ctrl_if_rxmsg_deferred_cons, hard_int, task_pc, ready,
          ctl_tx_cons, ctl_rx_cons, ctl_got, inbox, dropped>>

txVars == <<tx_ring, tx_req_prod, tx_resp_prod, ctrl_if_tx_resp_cons, ctl_tx_cons, ctl_got>>
rxVars == <<rx_ring, rx_req_prod, rx_resp_prod, ctrl_if_rx_req_cons, ctl_rx_cons>>
regVars == <<ctrl_if_rxmsg_handler, ctrl_if_rxmsg_blocking_context>>
dqVars == <<ctrl_if_rxmsg_deferred, ctrl_if_rxmsg_deferred_prod,
            ctrl_if_rxmsg_deferred_cons, ready, inbox, dropped>>

-----------------------------------------------------------------------------
(* The deferred queue and the receivers, as one record the delivery        *)
(* routines below thread through their loops.                              *)
Guest == [deferred |-> ctrl_if_rxmsg_deferred,
          prod     |-> ctrl_if_rxmsg_deferred_prod,
          cons     |-> ctrl_if_rxmsg_deferred_cons,
          ready    |-> ready, inbox |-> inbox, dropped |-> dropped]

(* The deferred counters are only compared for (in)equality, subtracted   *)
(* and taken % Size, so both are stored less a common multiple of Size:    *)
(* the same quotient the code's 32-bit wrap-around takes, and it keeps the *)
(* state space finite.                                                     *)
Rebase(g) == (g.cons \div Size) * Size

SetGuest(g) ==
  /\ ctrl_if_rxmsg_deferred' = g.deferred
  /\ ctrl_if_rxmsg_deferred_prod' = g.prod - Rebase(g)
  /\ ctrl_if_rxmsg_deferred_cons' = g.cons - Rebase(g)
  /\ ready' = g.ready
  /\ inbox' = g.inbox
  /\ dropped' = g.dropped

(* mutant: the ENOTREADY branch copies the message but forgets prod++.    *)
DeliverNoAdvance(g, h, msg) ==
  LET r == h[msg.type] IN
  IF r = NoOwner THEN [g EXCEPT !.dropped = @ \cup {msg.id}]
  ELSE IF g.ready[r] THEN [g EXCEPT !.ready[r] = FALSE, !.inbox[r] = Append(@, msg.id)]
  ELSE [g EXCEPT !.deferred[g.prod % Size] = msg]

(* ctrl_if_deliver_message: an unowned type is dropped; otherwise          *)
(* lock_send to the owner, which succeeds only if the owner is waiting in  *)
(* receive (and then is no longer waiting); ENOTREADY appends the message  *)
(* to the deferred queue with no check for room.                           *)
Deliver(g, h, msg) ==
  LET r == h[msg.type] IN
  IF r = NoOwner THEN [g EXCEPT !.dropped = @ \cup {msg.id}]
  ELSE IF g.ready[r] THEN [g EXCEPT !.ready[r] = FALSE, !.inbox[r] = Append(@, msg.id)]
  ELSE [g EXCEPT !.deferred[g.prod % Size] = msg, !.prod = @ + 1]

(* ctrl_if_rx_deferred: redeliver the deferred messages up to the          *)
(* producer index read on entry (dp); a redelivery that fails again is     *)
(* appended behind dp.                                                     *)
RECURSIVE DrainDeferred(_, _, _)
DrainDeferred(g, h, dp) ==
  IF g.cons = dp THEN g
  ELSE DrainDeferred([Deliver(g, h, g.deferred[g.cons % Size]) EXCEPT !.cons = @ + 1], h, dp)

RxDeferred(g, h) == DrainDeferred(g, h, g.prod)

(* ctrl_if_rx_tasklet, loop body for request k.  A blocking-context type   *)
(* is copied to deferred[dp++] where dp is the routine's LOCAL copy of     *)
(* ctrl_if_rxmsg_deferred_prod, which is never written back.               *)
RECURSIVE RxLoop(_, _, _)
RxLoop(g, k, dp) ==
  IF k = rx_req_prod THEN g
  ELSE LET msg == rx_ring[k % Size] IN
       IF msg.type \in ctrl_if_rxmsg_blocking_context
       THEN RxLoop([g EXCEPT !.deferred[dp % Size] = msg], k + 1, dp + 1)
       ELSE RxLoop(Deliver(g, ctrl_if_rxmsg_handler, msg), k + 1, dp)

(* ctrl_if_rx_tasklet: consume every request up to rx_req_prod,            *)
(* acknowledging each by one step of rx_resp_prod.                         *)
RxTasklet(g) ==
  /\ SetGuest(RxLoop(g, ctrl_if_rx_req_cons, g.prod))
  /\ ctrl_if_rx_req_cons' = rx_req_prod
  /\ rx_resp_prod' = rx_resp_prod + (rx_req_prod - ctrl_if_rx_req_cons)

-----------------------------------------------------------------------------
(* mutant: full is tested one slot late.                                   *)
TxFullOffByOne == tx_req_prod - ctrl_if_tx_resp_cons = Size + 1

(* TX_FULL *)
TxFull == tx_req_prod - ctrl_if_tx_resp_cons = Size

(* mutant: the drain loop runs while cons <= rp, one step too far.        *)
TxTaskletOffByOne == ctrl_if_tx_resp_cons' = tx_resp_prod + 1

(* ctrl_if_tx_tasklet: step over every response up to tx_resp_prod.       *)
TxTasklet == ctrl_if_tx_resp_cons' = tx_resp_prod

(* mutant: the full branch returns EAGAIN without reclaiming slots.       *)
TryTransmitNoReclaim ==
  \/ /\ TxFull
     /\ UNCHANGED <<ctrl_if_tx_resp_cons, tx_ring, tx_req_prod>>
  \/ /\ ~TxFull
     /\ tx_ring' = [tx_ring EXCEPT ![tx_req_prod % Size] = tx_req_prod]
     /\ tx_req_prod' = tx_req_prod + 1
     /\ UNCHANGED ctrl_if_tx_resp_cons

(* ctrl_if_send_message_noblock: when full, reclaim answered slots and     *)
(* return EAGAIN; otherwise write the slot, then publish it by advancing   *)
(* tx_req_prod.  The message sent is numbered by its position.             *)
TryTransmit ==
  \/ /\ TxFull
     /\ IF ctrl_if_tx_resp_cons # tx_resp_prod THEN TxTasklet
                                              ELSE UNCHANGED ctrl_if_tx_resp_cons
     /\ UNCHANGED <<tx_ring, tx_req_prod>>
  \/ /\ ~TxFull
     /\ tx_ring' = [tx_ring EXCEPT ![tx_req_prod % Size] = tx_req_prod]
     /\ tx_req_prod' = tx_req_prod + 1
     /\ UNCHANGED ctrl_if_tx_resp_cons

-----------------------------------------------------------------------------
Init ==
  /\ tx_ring = [i \in 0 .. Size - 1 |-> -1]
  /\ rx_ring = [i \in 0 .. Size - 1 |-> NoMsg]
  /\ tx_req_prod = 0 /\ tx_resp_prod = 0 /\ ctrl_if_tx_resp_cons = 0
  /\ rx_req_prod = 0 /\ rx_resp_prod = 0 /\ ctrl_if_rx_req_cons = 0
  /\ ctrl_if_rxmsg_handler = [t \in Types |-> NoOwner]
  /\ ctrl_if_rxmsg_blocking_context = {}
  /\ ctrl_if_rxmsg_deferred = [i \in 0 .. Size - 1 |-> NoMsg]
  /\ ctrl_if_rxmsg_deferred_prod = 0 /\ ctrl_if_rxmsg_deferred_cons = 0
  /\ hard_int = FALSE
  /\ task_pc = "idle"
  /\ ready \in [Receivers -> BOOLEAN]
  /\ ctl_tx_cons = 0 /\ ctl_rx_cons = 0
  /\ ctl_got = <<>>
  /\ inbox = [r \in Receivers |-> <<>>]
  /\ dropped = {}

-----------------------------------------------------------------------------
(* Handlers of the CTRLIF task (ctrl_if_task's switch).                    *)

(* mutant: the rx check compares with rx_resp_prod, the index ctrl_if_init *)
(* syncs the consumer with, instead of rx_req_prod.                        *)
RxPendingWrongIndex == ctrl_if_rx_req_cons # rx_resp_prod

(* ctrl_if_do_hard_int: is there an unconsumed controller request?         *)
RxPending == ctrl_if_rx_req_cons # rx_req_prod

(* mutant: the new requests are drained before the deferred ones.          *)
DoHardIntSwapped ==
  /\ task_pc = "idle" /\ hard_int
  /\ hard_int' = FALSE
  /\ IF ctrl_if_tx_resp_cons # tx_resp_prod THEN TxTasklet
                                            ELSE UNCHANGED ctrl_if_tx_resp_cons
  /\ LET g1 == IF RxPending
               THEN RxLoop(Guest, ctrl_if_rx_req_cons, ctrl_if_rxmsg_deferred_prod)
               ELSE Guest
     IN SetGuest(IF g1.cons # g1.prod THEN RxDeferred(g1, ctrl_if_rxmsg_handler) ELSE g1)
  /\ ctrl_if_rx_req_cons' = rx_req_prod
  /\ rx_resp_prod' = rx_resp_prod + (rx_req_prod - ctrl_if_rx_req_cons)
  /\ UNCHANGED <<tx_ring, tx_req_prod, tx_resp_prod, ctl_tx_cons, ctl_got,
                 rx_ring, rx_req_prod, ctl_rx_cons, regVars, task_pc>>

(* HARD_INT: ctrl_if_do_hard_int - reclaim answered tx slots, redeliver    *)
(* the deferred messages, then consume the new rx requests.                *)
DoHardInt ==
  /\ task_pc = "idle" /\ hard_int
  /\ hard_int' = FALSE
  /\ IF ctrl_if_tx_resp_cons # tx_resp_prod THEN TxTasklet
                                            ELSE UNCHANGED ctrl_if_tx_resp_cons
  /\ LET g1 == IF ctrl_if_rxmsg_deferred_cons # ctrl_if_rxmsg_deferred_prod
               THEN RxDeferred(Guest, ctrl_if_rxmsg_handler)
               ELSE Guest
     IN IF RxPending THEN RxTasklet(g1)
        ELSE SetGuest(g1) /\ UNCHANGED <<ctrl_if_rx_req_cons, rx_resp_prod>>
  /\ UNCHANGED <<tx_ring, tx_req_prod, tx_resp_prod, ctl_tx_cons, ctl_got,
                 rx_ring, rx_req_prod, ctl_rx_cons, regVars, task_pc>>

(* CTRLIF_REG_HND: ctrl_if_register_receiver.  Only a free type is taken;  *)
(* its blocking-context bit is cleared, then set if flags say so.          *)
RegisterReceiver(type, process, flags) ==
  /\ task_pc = "idle"
  /\ IF ctrl_if_rxmsg_handler[type] = NoOwner
     THEN /\ ctrl_if_rxmsg_handler' = [ctrl_if_rxmsg_handler EXCEPT ![type] = process]
          /\ ctrl_if_rxmsg_blocking_context' =
               IF flags = CALLBACK_IN_BLOCKING_CONTEXT
               THEN ctrl_if_rxmsg_blocking_context \cup {type}
               ELSE ctrl_if_rxmsg_blocking_context \ {type}
     ELSE UNCHANGED regVars
  /\ UNCHANGED <<txVars, rxVars, dqVars, hard_int, task_pc>>

(* CTRLIF_UNREG_HND: ctrl_if_unregister_receiver.  Only the owner clears   *)
(* the entry; the deferred queue is drained in every case.                 *)
UnregisterReceiver(type, process) ==
  /\ task_pc = "idle"
  /\ LET h == IF ctrl_if_rxmsg_handler[type] = process
              THEN [ctrl_if_rxmsg_handler EXCEPT ![type] = NoOwner]
              ELSE ctrl_if_rxmsg_handler
     IN /\ ctrl_if_rxmsg_handler' = h
        /\ SetGuest(RxDeferred(Guest, h))
  /\ UNCHANGED <<txVars, rxVars, ctrl_if_rxmsg_blocking_context, hard_int, task_pc>>

(* CTRLIF_SEND_NOBLOCK from a driver: one attempt, EAGAIN returned.        *)
SendMessageNoblock ==
  /\ task_pc = "idle" /\ tx_req_prod < MaxTx
  /\ TryTransmit
  /\ UNCHANGED <<tx_resp_prod, ctl_tx_cons, ctl_got, rxVars, regVars, dqVars,
                 hard_int, task_pc>>

(* CTRLIF_SEND_BLOCK from a driver: ctrl_if_send_message_block's first     *)
(* attempt; on EAGAIN the task stays in the retry loop.                    *)
SendMessageBlock ==
  /\ task_pc = "idle" /\ tx_req_prod < MaxTx
  /\ TryTransmit
  /\ task_pc' = IF TxFull THEN "send_block" ELSE "idle"
  /\ UNCHANGED <<tx_resp_prod, ctl_tx_cons, ctl_got, rxVars, regVars, dqVars, hard_int>>

(* One more iteration of the retry loop, after hypervisor_yield.           *)
SendBlockRetry ==
  /\ task_pc = "send_block"
  /\ TryTransmit
  /\ task_pc' = IF TxFull THEN "send_block" ELSE "idle"
  /\ UNCHANGED <<tx_resp_prod, ctl_tx_cons, ctl_got, rxVars, regVars, dqVars, hard_int>>

(* CTRLIF_SEND_RESPONSE: ctrl_if_send_response writes the driver's message *)
(* into the rx slot at rx_resp_prod and advances rx_resp_prod.             *)
SendResponse(type) ==
  /\ task_pc = "idle"
  /\ rx_resp_prod - ctrl_if_rx_req_cons < MaxResponses  \* responses so far
  /\ rx_ring' = [rx_ring EXCEPT ![rx_resp_prod % Size] = [type |-> type, id |-> -1]]
  /\ rx_resp_prod' = rx_resp_prod + 1
  /\ UNCHANGED <<txVars, rx_req_prod, ctrl_if_rx_req_cons, ctl_rx_cons,
                 regVars, dqVars, hard_int, task_pc>>

-----------------------------------------------------------------------------
(* The environment: the domain controller and the receiver tasks.          *)

(* ctrl_if_interrupt, the control event channel's handler, run by the     *)
(* upcall that the controller's notification raises: unless it is         *)
(* already running (in_cif_interrupt; upcalls do not nest, so it never is) *)
(* lock_notify(HARDWARE, CTRLIF) marks a HARD_INT pending for the CTRLIF   *)
(* task, and a pending one absorbs the next.                               *)
ctrl_if_interrupt == hard_int' = TRUE

(* The controller reads the next guest request.                            *)
CtlReadTx ==
  /\ ctl_tx_cons < tx_req_prod
  /\ ctl_got' = Append(ctl_got, tx_ring[ctl_tx_cons % Size])
  /\ ctl_tx_cons' = ctl_tx_cons + 1
  /\ UNCHANGED <<tx_ring, tx_req_prod, tx_resp_prod, ctrl_if_tx_resp_cons,
                 rxVars, regVars, dqVars, hard_int, task_pc>>

(* The controller answers a request it has read and notifies the guest.    *)
CtlRespondTx ==
  /\ tx_resp_prod < ctl_tx_cons
  /\ tx_resp_prod' = tx_resp_prod + 1
  /\ ctrl_if_interrupt
  /\ UNCHANGED <<tx_ring, tx_req_prod, ctrl_if_tx_resp_cons, ctl_tx_cons, ctl_got,
                 rxVars, regVars, dqVars, task_pc>>

(* The controller sends a request of a given type when its view of the rx  *)
(* ring has room, and notifies the guest.                                  *)
CtlSendRx(type) ==
  /\ rx_req_prod < MaxMsgs
  /\ rx_req_prod - ctl_rx_cons < Size
  /\ rx_ring' = [rx_ring EXCEPT ![rx_req_prod % Size] = [type |-> type, id |-> rx_req_prod]]
  /\ rx_req_prod' = rx_req_prod + 1
  /\ ctrl_if_interrupt
  /\ UNCHANGED <<txVars, rx_resp_prod, ctrl_if_rx_req_cons, ctl_rx_cons,
                 regVars, dqVars, task_pc>>

(* The controller takes the next response off the rx ring.                 *)
CtlReadRxResp ==
  /\ ctl_rx_cons < rx_resp_prod
  /\ ctl_rx_cons' = ctl_rx_cons + 1
  /\ UNCHANGED <<txVars, rx_ring, rx_req_prod, rx_resp_prod, ctrl_if_rx_req_cons,
                 regVars, dqVars, hard_int, task_pc>>

(* A receiver finishes with its message and blocks in receive again.       *)
ReceiverWaits(r) ==
  /\ ~ready[r]
  /\ ready' = [ready EXCEPT ![r] = TRUE]
  /\ UNCHANGED <<txVars, rxVars, regVars, ctrl_if_rxmsg_deferred,
                 ctrl_if_rxmsg_deferred_prod, ctrl_if_rxmsg_deferred_cons,
                 inbox, dropped, hard_int, task_pc>>

Next ==
  \/ DoHardInt
  \/ \E t \in Types, r \in Receivers, f \in RegFlags : RegisterReceiver(t, r, f)
  \/ \E t \in Types, r \in Receivers : UnregisterReceiver(t, r)
  \/ SendMessageNoblock
  \/ SendMessageBlock
  \/ SendBlockRetry
  \/ \E t \in ResponseTypes : SendResponse(t)
  \/ CtlReadTx
  \/ CtlRespondTx
  \/ \E t \in Types : CtlSendRx(t)
  \/ CtlReadRxResp
  \/ \E r \in Receivers : ReceiverWaits(r)

(* The CTRLIF task is a kernel task that runs whenever it has work; the    *)
(* controller is expected to drain its rings promptly; a receiver returns  *)
(* to receive after handling a message.  Drivers and the controller's      *)
(* sending of new requests are not required to happen.                     *)
Fairness ==
  /\ WF_vars(DoHardInt)
  /\ WF_vars(SendBlockRetry)
  /\ WF_vars(CtlReadTx) /\ WF_vars(CtlRespondTx) /\ WF_vars(CtlReadRxResp)
  /\ \A r \in Receivers : WF_vars(ReceiverWaits(r))

Spec == Init /\ [][Next]_vars /\ Fairness

-----------------------------------------------------------------------------
(* Properties.                                                             *)

TypeOK ==
  /\ tx_ring \in [0 .. Size - 1 -> -1 .. MaxTx - 1]
  /\ rx_ring \in [0 .. Size - 1 -> Msgs]
  /\ {tx_req_prod, tx_resp_prod, ctrl_if_tx_resp_cons, ctl_tx_cons} \subseteq 0 .. MaxTx
  /\ {rx_req_prod, ctrl_if_rx_req_cons} \subseteq 0 .. MaxMsgs
  /\ {rx_resp_prod, ctl_rx_cons} \subseteq 0 .. MaxMsgs + MaxResponses
  /\ ctrl_if_rxmsg_handler \in [Types -> Receivers \cup {NoOwner}]
  /\ ctrl_if_rxmsg_blocking_context \subseteq Types
  /\ ctrl_if_rxmsg_deferred \in [0 .. Size - 1 -> Msgs]
  /\ ctrl_if_rxmsg_deferred_cons \in 0 .. Size - 1
  /\ ctrl_if_rxmsg_deferred_prod \in Nat
  /\ hard_int \in BOOLEAN
  /\ task_pc \in {"idle", "send_block"}
  /\ ready \in [Receivers -> BOOLEAN]
  /\ ctl_got \in Seq(-1 .. MaxTx - 1)
  /\ inbox \in [Receivers -> Seq(-1 .. MaxMsgs - 1)]
  /\ dropped \subseteq -1 .. MaxMsgs - 1

InRxRing(i) ==
  \E k \in ctrl_if_rx_req_cons .. rx_req_prod - 1 : rx_ring[k % Size].id = i
InDeferred(i) ==
  \E k \in ctrl_if_rxmsg_deferred_cons .. ctrl_if_rxmsg_deferred_prod - 1 :
     ctrl_if_rxmsg_deferred[k % Size].id = i
Delivered(i) == \E r \in Receivers : \E j \in DOMAIN inbox[r] : inbox[r][j] = i

(* Every request the controller has sent is still unread in the rx ring,   *)
(* waiting in the deferred queue, delivered to a receiver, or was dropped   *)
(* because no task owned its type (ctrl_if_rx_tasklet, ..._deliver_message, *)
(* ..._rx_deferred together).                                              *)
NoMessageLost ==
  \A i \in 0 .. rx_req_prod - 1 :
     InRxRing(i) \/ InDeferred(i) \/ Delivered(i) \/ i \in dropped

(* Each receiver gets the controller's requests in the order the           *)
(* controller sent them, even when some were deferred and redelivered by   *)
(* ctrl_if_rx_deferred.                                                    *)
DeliveredInOrder ==
  \A r \in Receivers : \A a, b \in DOMAIN inbox[r] :
     a < b => inbox[r][a] < inbox[r][b]

(* Every request the controller sends is eventually consumed by            *)
(* ctrl_if_rx_tasklet (the notification always leads to a HARD_INT).       *)
RxRequestsConsumed ==
  \A k \in 1 .. MaxMsgs : (rx_req_prod >= k) ~> (ctrl_if_rx_req_cons >= k)

(* A driver's CTRLIF_SEND_BLOCK eventually returns: the retry loop of      *)
(* ctrl_if_send_message_block reclaims slots as the controller answers.    *)
SendBlockReturns == (task_pc = "send_block") ~> (task_pc = "idle")

=============================================================================
