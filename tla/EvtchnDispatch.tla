--------------------------- MODULE EvtchnDispatch ---------------------------
(***************************************************************************)
(* The event-channel multiplexer of the Minix/Xen guest                    *)
(* (src/kernel/evtchn.c) with the part of Xen it shares a page with.       *)
(*                                                                         *)
(* Shared page (xen.h): a PENDING and a MASK bit per port, a selector with *)
(* one bit per word of the pending array, and the per-VCPU flags           *)
(* evtchn_upcall_pending and evtchn_upcall_mask.  Ports are grouped in      *)
(* words of WordBits bits (32 in the code) so that the two-level scan of   *)
(* do_hypervisor_callback is kept.                                         *)
(*                                                                         *)
(* Three actors interleave on one VCPU and a remote CPU:                   *)
(*  - Xen, which raises ports and delivers the upcall (xen.h comments);    *)
(*  - the callback (do_hypervisor_callback), one action per step of its    *)
(*    loops, between which Xen may raise ports;                            *)
(*  - process context, which changes handler status (add/clear/enable/     *)
(*    disable_irq_handler) and opens and closes critical sections with the *)
(*    callback guard; an upcall may interrupt it between any two steps.    *)
(* The port<->IRQ binding is fixed here (evtchn_to_irq is a constant);     *)
(* binding and unbinding are modelled in EvtchnBinding.                    *)
(***************************************************************************)
EXTENDS Integers, Sequences, FiniteSetsExt

CONSTANTS
  Ports,          \* event-channel ports that occur (naturals)
  WordBits,       \* bits per pending/mask word (32 in the code)
  Irqs,           \* IRQ numbers that occur
  NoIrq,          \* -1 in evtchn_to_irq
  evtchn_to_irq,  \* the binding: Ports -> Irqs \cup {NoIrq}, one-to-one on Irqs
  MaxNest,        \* bound on nested saved sections
  MaxGuardOps     \* bound on the critical sections process context opens

ASSUME Ports \subseteq Nat /\ WordBits \in Nat \ {0}
ASSUME evtchn_to_irq \in [Ports -> Irqs \cup {NoIrq}] /\ NoIrq \notin Irqs
ASSUME \A p, q \in Ports : evtchn_to_irq[p] = evtchn_to_irq[q] /\ evtchn_to_irq[p] # NoIrq => p = q
ASSUME MaxNest \in Nat /\ MaxGuardOps \in Nat

EV_UNINITIALISED == -1
EV_DISABLED == 0
EV_ENABLED == 1

Word(p) == p \div WordBits
Bit(p) == p % WordBits
Words == {Word(p) : p \in Ports}
BoundPorts == {p \in Ports : evtchn_to_irq[p] # NoIrq}

irq_to_evtchn(i) ==
  IF \E p \in BoundPorts : evtchn_to_irq[p] = i
  THEN CHOOSE p \in BoundPorts : evtchn_to_irq[p] = i
  ELSE -1

(* x86_scan_forward: index of the lowest set bit. *)
ScanForward(S) == Min(S)

VARIABLES
  evtchn_pending, evtchn_mask,   \* Ports -> BOOLEAN
  evtchn_pending_sel,            \* set of words whose selector bit is set
  evtchn_upcall_pending, evtchn_upcall_mask,
  status,        \* handlers[irq].status (handler # NULL iff status # EV_UNINITIALISED)
  k_callback,    \* a callback frame is active
  cb_pc,         \* step of do_hypervisor_callback, "none" outside it
  l1, l1i, l2,   \* its locals
  cb_port,       \* evtchn: the port being handled
  proc_pc,       \* "idle", or "enable_check" between the two halves of enable_irq
  proc_port,     \* the port enable_irq works on
  sections,      \* process context's open critical sections, innermost last
  opened,        \* critical sections opened so far
  owed           \* history: port raised while its handler was enabled or the
                 \* port masked, and not acknowledged by the callback since

vars == <<evtchn_pending, evtchn_mask, evtchn_pending_sel, evtchn_upcall_pending,
          evtchn_upcall_mask, status, k_callback, cb_pc, l1, l1i, l2, cb_port,
          proc_pc, proc_port, sections, opened, owed>>
cbVars == <<k_callback, cb_pc, l1, l1i, l2, cb_port>>
procVars == <<proc_pc, proc_port, sections, opened>>

HandlerEnabled(p) == status[evtchn_to_irq[p]] = EV_ENABLED

(* init_events on a page the domain builder set up: every port masked and *)
(* not pending, every handler slot empty, and callbacks masked (the        *)
(* builder's evtchn_upcall_mask = 1), as if a lock() were held from boot.  *)
Init ==
  /\ evtchn_pending = [p \in Ports |-> FALSE]
  /\ evtchn_mask = [p \in Ports |-> TRUE]
  /\ evtchn_pending_sel = {}
  /\ evtchn_upcall_pending = FALSE
  /\ evtchn_upcall_mask = TRUE
  /\ status = [i \in Irqs |-> EV_UNINITIALISED]
  /\ k_callback = FALSE
  /\ cb_pc = "none" /\ l1 = {} /\ l1i = 0 /\ l2 = {}
  /\ cb_port = CHOOSE p \in Ports : TRUE
  /\ proc_pc = "idle" /\ proc_port = CHOOSE p \in Ports : TRUE
  /\ sections = <<[kind |-> "lock", flags |-> FALSE]>> /\ opened = 0
  /\ owed = [p \in Ports |-> FALSE]

-----------------------------------------------------------------------------
(* Xen.  A 0->1 transition of PENDING on an unmasked port sets the word's  *)
(* selector bit and, if that was clear, evtchn_upcall_pending.  An edge on *)
(* a masked port only sets PENDING (xen.h: "the edge is lost").            *)
XenRaise(p) ==
  /\ owed' = IF p \in BoundPorts /\ (HandlerEnabled(p) \/ evtchn_mask[p])
             THEN [owed EXCEPT ![p] = TRUE] ELSE owed
  /\ evtchn_pending' = [evtchn_pending EXCEPT ![p] = TRUE]
  /\ IF ~evtchn_pending[p] /\ ~evtchn_mask[p] /\ Word(p) \notin evtchn_pending_sel
     THEN /\ evtchn_pending_sel' = evtchn_pending_sel \cup {Word(p)}
          /\ evtchn_upcall_pending' = TRUE
     ELSE UNCHANGED <<evtchn_pending_sel, evtchn_upcall_pending>>
  /\ UNCHANGED <<evtchn_mask, evtchn_upcall_mask, status, cbVars, procVars>>

(* Entering hypervisor_callback: Xen masks further upcalls while it runs.  *)
EnterCallback ==
  /\ evtchn_upcall_mask' = TRUE
  /\ k_callback' = TRUE
  /\ cb_pc' = "loop"

(* Xen delivers a pending upcall when it next returns to an unmasked VCPU. *)
XenUpcall ==
  /\ cb_pc = "none" /\ evtchn_upcall_pending /\ ~evtchn_upcall_mask
  /\ EnterCallback
  /\ UNCHANGED <<evtchn_pending, evtchn_mask, evtchn_pending_sel, evtchn_upcall_pending,
                 status, l1, l1i, l2, cb_port, procVars, owed>>

(* force_evtchn_callback: a hypercall, on whose return Xen delivers the    *)
(* upcall if one is pending and the VCPU is unmasked; mask is the value    *)
(* the caller has just written.                                            *)
ForceCallback(mask) ==
  IF evtchn_upcall_pending /\ ~mask
  THEN EnterCallback
  ELSE /\ evtchn_upcall_mask' = mask
       /\ UNCHANGED <<k_callback, cb_pc>>

-----------------------------------------------------------------------------
(* do_hypervisor_callback, one action per step.                            *)

(* while (evtchn_upcall_pending) { evtchn_upcall_pending = 0; ...          *)
CbLoop ==
  /\ cb_pc = "loop"
  /\ IF evtchn_upcall_pending
     THEN evtchn_upcall_pending' = FALSE /\ cb_pc' = "xchg"
     ELSE UNCHANGED evtchn_upcall_pending /\ cb_pc' = "ret"
  /\ UNCHANGED <<evtchn_pending, evtchn_mask, evtchn_pending_sel, evtchn_upcall_mask,
                 status, k_callback, l1, l1i, l2, cb_port, procVars, owed>>

(* l1 = x86_atomic_xchg(&evtchn_pending_sel, 0)                            *)
CbXchg ==
  /\ cb_pc = "xchg"
  /\ l1' = evtchn_pending_sel
  /\ evtchn_pending_sel' = {}
  /\ cb_pc' = "sel"
  /\ UNCHANGED <<evtchn_pending, evtchn_mask, evtchn_upcall_pending, evtchn_upcall_mask,
                 status, k_callback, l1i, l2, cb_port, procVars, owed>>

(* Next selector bit, lowest first: l2 = pending[l1i] & ~mask[l1i].        *)
CbSel ==
  /\ cb_pc = "sel"
  /\ IF l1 = {}
     THEN cb_pc' = "loop" /\ UNCHANGED <<l1, l1i, l2>>
     ELSE LET w == ScanForward(l1) IN
          /\ l1i' = w
          /\ l1' = l1 \ {w}
          /\ l2' = {Bit(p) : p \in {q \in Ports : Word(q) = w /\ evtchn_pending[q] /\ ~evtchn_mask[q]}}
          /\ cb_pc' = "word"
  /\ UNCHANGED <<evtchn_pending, evtchn_mask, evtchn_pending_sel, evtchn_upcall_pending,
                 evtchn_upcall_mask, status, k_callback, cb_port, procVars, owed>>

(* disable_irq: the mask with the IRQ's port set; an IRQ with no port      *)
(* (irq_to_evtchn -1) returns early.                                       *)
disable_irq(i) ==
  LET p == irq_to_evtchn(i) IN
  IF p = -1 THEN evtchn_mask ELSE [evtchn_mask EXCEPT ![p] = TRUE]

(* ack_irq: disable_irq, then the port's PENDING bit cleared.              *)
ack_irq(i) ==
  LET p == irq_to_evtchn(i) IN
  /\ evtchn_mask' = disable_irq(i)
  /\ evtchn_pending' = IF p = -1 THEN evtchn_pending
                       ELSE [evtchn_pending EXCEPT ![p] = FALSE]

(* Next port of the word, lowest first.  A bound port is acknowledged by   *)
(* ack_irq and its handler step follows.                                   *)
CbWord ==
  /\ cb_pc = "word"
  /\ IF l2 = {}
     THEN cb_pc' = "sel" /\ UNCHANGED <<l2, cb_port, evtchn_pending, evtchn_mask>>
     ELSE LET b == ScanForward(l2)
              p == l1i * WordBits + b IN
          /\ l2' = l2 \ {b}
          /\ cb_port' = p
          /\ IF evtchn_to_irq[p] # NoIrq
             THEN ack_irq(evtchn_to_irq[p]) /\ cb_pc' = "handler"
             ELSE UNCHANGED <<evtchn_pending, evtchn_mask, cb_pc>>
  /\ UNCHANGED <<evtchn_pending_sel, evtchn_upcall_pending, evtchn_upcall_mask,
                 status, k_callback, l1, l1i, procVars, owed>>

(* The handler runs if its status is EV_ENABLED (and it is installed);    *)
(* otherwise the acknowledged edge is discarded.                           *)
CbHandler ==
  /\ cb_pc = "handler"
  /\ owed' = [owed EXCEPT ![cb_port] = FALSE]
  /\ cb_pc' = "end"
  /\ UNCHANGED <<evtchn_pending, evtchn_mask, evtchn_pending_sel, evtchn_upcall_pending,
                 evtchn_upcall_mask, status, k_callback, l1, l1i, l2, cb_port, procVars>>

(* mutant: end_irq's status test inverted, so it returns early exactly    *)
(* when the handler is enabled.                                            *)
CbEndInverted ==
  /\ cb_pc = "end"
  /\ IF status[evtchn_to_irq[cb_port]] # EV_ENABLED
     THEN evtchn_mask' = [evtchn_mask EXCEPT ![cb_port] = FALSE] /\ cb_pc' = "end_check"
     ELSE UNCHANGED evtchn_mask /\ cb_pc' = "word"
  /\ UNCHANGED <<evtchn_pending, evtchn_pending_sel, evtchn_upcall_pending,
                 evtchn_upcall_mask, status, k_callback, l1, l1i, l2, cb_port, procVars, owed>>

(* end_irq: nothing unless the handler is enabled; then enable_irq's first *)
(* half, clearing the port's MASK bit.                                     *)
CbEnd ==
  /\ cb_pc = "end"
  /\ IF status[evtchn_to_irq[cb_port]] = EV_ENABLED
     THEN evtchn_mask' = [evtchn_mask EXCEPT ![cb_port] = FALSE] /\ cb_pc' = "end_check"
     ELSE UNCHANGED evtchn_mask /\ cb_pc' = "word"
  /\ UNCHANGED <<evtchn_pending, evtchn_pending_sel, evtchn_upcall_pending,
                 evtchn_upcall_mask, status, k_callback, l1, l1i, l2, cb_port, procVars, owed>>

(* mutant: enable_irq/end_irq unmask without re-checking PENDING.         *)
RecheckPendingSkipped(p) ==
  UNCHANGED <<evtchn_pending_sel, evtchn_upcall_pending>>

(* enable_irq's second half: if the port became PENDING while masked and   *)
(* test_and_set of its selector bit finds it clear, raise                  *)
(* evtchn_upcall_pending and force a callback unless the VCPU is masked.   *)
RecheckPending(p) ==
  IF evtchn_pending[p] /\ Word(p) \notin evtchn_pending_sel
  THEN /\ evtchn_pending_sel' = evtchn_pending_sel \cup {Word(p)}
       /\ evtchn_upcall_pending' = TRUE
  ELSE UNCHANGED <<evtchn_pending_sel, evtchn_upcall_pending>>

(* The forced callback cannot fire here: the callback runs masked.         *)
CbEndCheck ==
  /\ cb_pc = "end_check"
  /\ RecheckPending(cb_port)
  /\ cb_pc' = "word"
  /\ UNCHANGED <<evtchn_pending, evtchn_mask, evtchn_upcall_mask, status, k_callback,
                 l1, l1i, l2, cb_port, procVars, owed>>

(* Return from hypervisor_callback: the VCPU is unmasked again, as it was  *)
(* when the upcall was taken.                                              *)
CbReturn ==
  /\ cb_pc = "ret"
  /\ cb_pc' = "none"
  /\ k_callback' = FALSE
  /\ evtchn_upcall_mask' = FALSE
  /\ UNCHANGED <<evtchn_pending, evtchn_mask, evtchn_pending_sel, evtchn_upcall_pending,
                 status, l1, l1i, l2, cb_port, procVars, owed>>

-----------------------------------------------------------------------------
(* Process context.  It runs only while no callback is active.             *)
ProcIdle == cb_pc = "none" /\ proc_pc = "idle"
shared == <<evtchn_pending, evtchn_mask, evtchn_pending_sel, evtchn_upcall_pending,
            evtchn_upcall_mask>>

(* add_irq_handler: installs a handler, disabled, only into an empty slot. *)
AddIrqHandler(i) ==
  /\ ProcIdle
  /\ status' = IF status[i] = EV_UNINITIALISED THEN [status EXCEPT ![i] = EV_DISABLED]
                                              ELSE status
  /\ UNCHANGED <<shared, cbVars, procVars, owed>>

(* clear_irq_handler: empties the slot; the port's mask is left alone.     *)
ClearIrqHandler(i) ==
  /\ ProcIdle
  /\ status' = [status EXCEPT ![i] = EV_UNINITIALISED]
  /\ UNCHANGED <<shared, cbVars, procVars, owed>>

(* mutant: enable_irq without its "evtchn == -1" early return.            *)
EnableIrqHandlerNoUnboundCheck(i) ==
  /\ ProcIdle
  /\ status[i] # EV_UNINITIALISED
  /\ status' = [status EXCEPT ![i] = EV_ENABLED]
  /\ LET p == irq_to_evtchn(i) IN
     /\ evtchn_mask' = [q \in Ports |-> IF q = p THEN FALSE ELSE evtchn_mask[q]]
     /\ proc_pc' = "enable_check" /\ proc_port' = p
  /\ UNCHANGED <<evtchn_pending, evtchn_pending_sel, evtchn_upcall_pending,
                 evtchn_upcall_mask, cbVars, sections, opened, owed>>

(* enable_irq_handler: fails on an empty slot; otherwise EV_ENABLED and    *)
(* enable_irq's first half (unmask the bound port, if any).                *)
EnableIrqHandler(i) ==
  /\ ProcIdle
  /\ status[i] # EV_UNINITIALISED
  /\ status' = [status EXCEPT ![i] = EV_ENABLED]
  /\ LET p == irq_to_evtchn(i) IN
     IF p = -1 THEN UNCHANGED <<evtchn_mask, proc_pc, proc_port>>
     ELSE /\ evtchn_mask' = [evtchn_mask EXCEPT ![p] = FALSE]
          /\ proc_pc' = "enable_check" /\ proc_port' = p
  /\ UNCHANGED <<evtchn_pending, evtchn_pending_sel, evtchn_upcall_pending,
                 evtchn_upcall_mask, cbVars, sections, opened, owed>>

(* enable_irq's second half, in process context: the forced callback is   *)
(* taken if the VCPU is unmasked.                                          *)
EnableIrqCheck ==
  /\ cb_pc = "none" /\ proc_pc = "enable_check"
  /\ RecheckPending(proc_port)
  /\ IF evtchn_pending[proc_port] /\ Word(proc_port) \notin evtchn_pending_sel
        /\ ~evtchn_upcall_mask
     THEN EnterCallback
     ELSE UNCHANGED <<evtchn_upcall_mask, k_callback, cb_pc>>
  /\ proc_pc' = "idle"
  /\ UNCHANGED <<evtchn_pending, evtchn_mask, status, l1, l1i, l2, cb_port,
                 proc_port, sections, opened, owed>>

(* disable_irq_handler: fails on an empty slot; otherwise EV_DISABLED and  *)
(* the bound port masked.                                                  *)
DisableIrqHandler(i) ==
  /\ ProcIdle
  /\ status[i] # EV_UNINITIALISED
  /\ status' = [status EXCEPT ![i] = EV_DISABLED]
  /\ evtchn_mask' = disable_irq(i)
  /\ UNCHANGED <<evtchn_pending, evtchn_pending_sel, evtchn_upcall_pending,
                 evtchn_upcall_mask, cbVars, procVars, owed>>

-----------------------------------------------------------------------------
(* The callback guard, from process context.  sections records what each  *)
(* open section saved: "lock" for lock() (disable_evtchn_callbacks), "save" *)
(* for disable_evtchn_callbacks_and_save and "esave" for                   *)
(* enable_evtchn_callbacks_and_save, with the saved upcall mask.  The      *)
(* k_callback panics cannot fire here: process context never runs inside a *)
(* callback.  lock() does not nest (xen.h), so it is taken only outermost. *)
Top == sections[Len(sections)]
Pop == SubSeq(sections, 1, Len(sections) - 1)
CanOpen == ProcIdle /\ opened < MaxGuardOps /\ Len(sections) < MaxNest

(* lock(): disable_evtchn_callbacks.                                       *)
Lock ==
  /\ CanOpen /\ sections = <<>>
  /\ sections' = <<[kind |-> "lock", flags |-> TRUE]>>
  /\ opened' = opened + 1
  /\ evtchn_upcall_mask' = TRUE
  /\ UNCHANGED <<evtchn_pending, evtchn_mask, evtchn_pending_sel, evtchn_upcall_pending,
                 status, cbVars, proc_pc, proc_port, owed>>

(* unlock(): enable_evtchn_callbacks - unmask, and force a callback if an  *)
(* upcall is pending.                                                      *)
Unlock ==
  /\ ProcIdle /\ sections # <<>> /\ Top.kind = "lock"
  /\ sections' = Pop
  /\ ForceCallback(FALSE)
  /\ UNCHANGED <<evtchn_pending, evtchn_mask, evtchn_pending_sel, evtchn_upcall_pending,
                 status, l1, l1i, l2, cb_port, proc_pc, proc_port, opened, owed>>

(* disable_evtchn_callbacks_and_save                                       *)
DisableSave ==
  /\ CanOpen
  /\ sections' = Append(sections, [kind |-> "save", flags |-> evtchn_upcall_mask])
  /\ opened' = opened + 1
  /\ evtchn_upcall_mask' = TRUE
  /\ UNCHANGED <<evtchn_pending, evtchn_mask, evtchn_pending_sel, evtchn_upcall_pending,
                 status, cbVars, proc_pc, proc_port, owed>>

(* enable_evtchn_callbacks_and_save                                        *)
EnableSave ==
  /\ CanOpen
  /\ sections' = Append(sections, [kind |-> "esave", flags |-> evtchn_upcall_mask])
  /\ opened' = opened + 1
  /\ ForceCallback(FALSE)
  /\ UNCHANGED <<evtchn_pending, evtchn_mask, evtchn_pending_sel, evtchn_upcall_pending,
                 status, l1, l1i, l2, cb_port, proc_pc, proc_port, owed>>

(* mutant: restore_flags clears the mask instead of restoring it.         *)
RestoreClears ==
  /\ ProcIdle /\ sections # <<>> /\ Top.kind \in {"save", "esave"}
  /\ sections' = Pop
  /\ ForceCallback(FALSE)
  /\ UNCHANGED <<evtchn_pending, evtchn_mask, evtchn_pending_sel, evtchn_upcall_pending,
                 status, l1, l1i, l2, cb_port, proc_pc, proc_port, opened, owed>>

(* restore_flags: write back the saved mask; force a callback if an upcall *)
(* is pending (taken only if the restored mask is clear).                  *)
Restore ==
  /\ ProcIdle /\ sections # <<>> /\ Top.kind \in {"save", "esave"}
  /\ sections' = Pop
  /\ ForceCallback(Top.flags)
  /\ UNCHANGED <<evtchn_pending, evtchn_mask, evtchn_pending_sel, evtchn_upcall_pending,
                 status, l1, l1i, l2, cb_port, proc_pc, proc_port, opened, owed>>

-----------------------------------------------------------------------------
Callback == CbLoop \/ CbXchg \/ CbSel \/ CbWord \/ CbHandler \/ CbEnd \/ CbEndCheck \/ CbReturn

Next ==
  \/ \E p \in Ports : XenRaise(p)
  \/ XenUpcall
  \/ Callback
  \/ \E i \in Irqs : AddIrqHandler(i) \/ ClearIrqHandler(i)
                     \/ EnableIrqHandler(i) \/ DisableIrqHandler(i)
  \/ EnableIrqCheck
  \/ Lock \/ Unlock \/ DisableSave \/ EnableSave \/ Restore

(* A callback, once entered, runs to its end; Xen takes a pending upcall   *)
(* at its next return to the unmasked guest (timer ticks guarantee one);   *)
(* process context finishes enable_irq, and leaves its critical sections   *)
(* however often callbacks interrupt it (xen.h: the mask is "asserted only *)
(* for short periods").  Raising ports and changing handlers are not       *)
(* required to happen.                                                     *)
Fairness ==
  /\ WF_vars(Callback)
  /\ WF_vars(XenUpcall)
  /\ SF_vars(EnableIrqCheck)
  /\ SF_vars(Unlock) /\ SF_vars(Restore)

Spec == Init /\ [][Next]_vars /\ Fairness

-----------------------------------------------------------------------------
(* Properties.                                                             *)

TypeOK ==
  /\ evtchn_pending \in [Ports -> BOOLEAN] /\ evtchn_mask \in [Ports -> BOOLEAN]
  /\ evtchn_pending_sel \subseteq Words
  /\ evtchn_upcall_pending \in BOOLEAN /\ evtchn_upcall_mask \in BOOLEAN
  /\ status \in [Irqs -> {EV_UNINITIALISED, EV_DISABLED, EV_ENABLED}]
  /\ k_callback \in BOOLEAN
  /\ cb_pc \in {"none", "loop", "xchg", "sel", "word", "handler", "end", "end_check", "ret"}
  /\ l1 \subseteq Words /\ l1i \in Words \cup {0} /\ l2 \subseteq 0 .. WordBits - 1
  /\ cb_port \in Ports /\ proc_port \in Ports
  /\ proc_pc \in {"idle", "enable_check"}
  /\ Len(sections) <= MaxNest /\ opened \in 0 .. MaxGuardOps
  /\ owed \in [Ports -> BOOLEAN]

Quiescent == cb_pc = "none" /\ proc_pc = "idle"

(* Whenever neither the callback nor enable_irq is half-way, a bound port  *)
(* that is PENDING and unmasked has its selector bit set and an upcall     *)
(* pending: the next callback will find it.  This is what the re-check in  *)
(* enable_irq/end_irq and the clear-before-scan order of                   *)
(* do_hypervisor_callback are for; an edge swallowed while masked would    *)
(* otherwise never be delivered, since later raises of a PENDING port do   *)
(* nothing.                                                                *)
NoStrandedEvent ==
  Quiescent =>
    \A p \in BoundPorts :
       evtchn_pending[p] /\ ~evtchn_mask[p] =>
          Word(p) \in evtchn_pending_sel /\ evtchn_upcall_pending

(* No callback starts inside a section opened by lock() or                 *)
(* disable_evtchn_callbacks_and_save that an inner                         *)
(* enable_evtchn_callbacks_and_save has not reopened: restore_flags puts   *)
(* back the mask the section found, so nested sections stay protected.     *)
CallbacksHeldOff ==
  k_callback => sections = <<>> \/ Top.kind = "esave"

(* A port raised while its handler was enabled, or while it was masked    *)
(* (the edge enable_irq must recover), gets its handler run as long as the *)
(* handler is enabled (spec 8, no-loss dispatch).  An edge on an unmasked  *)
(* port with no enabled handler is acknowledged and discarded by design.   *)
NoEventLost ==
  \A p \in BoundPorts :
     (owed[p] /\ HandlerEnabled(p)) ~> (~owed[p] \/ ~HandlerEnabled(p))

=============================================================================
