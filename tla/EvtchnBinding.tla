---------------------------- MODULE EvtchnBinding ----------------------------
(***************************************************************************)
(* The binding tables of src/kernel/evtchn.c: evtchn_to_irq, virq_to_irq,  *)
(* irq_to_evtchn and irq_bindcount, with bind/unbind for VIRQs and for     *)
(* interdomain ports, next to Xen's own record of which ports are open and *)
(* which VIRQ each is bound to.  Drivers are the clients: they bind and    *)
(* unbind in any order, and the history binds_v/binds_e counts what each   *)
(* has bound and not yet unbound.  -1 is the tables' "none".               *)
(*                                                                         *)
(* Undefined behaviour: unbind_virq_from_irq reads virq_to_irq[irq] with   *)
(* irq uninitialised.  The value read is modelled as the entry of any     *)
(* VIRQ, bound (its IRQ) or not (-1): the in-range outcomes; out-of-range  *)
(* garbage gives more.                                                     *)
(* An index of -1 into an IRQ-indexed table is an out-of-bounds access,    *)
(* recorded in oob and otherwise left without effect.                      *)
(***************************************************************************)
EXTENDS Integers, FiniteSetsExt

CONSTANTS
  Ports,             \* Xen's port numbers
  InterdomainPorts,  \* ports opened by another domain (the control port)
  Virqs,             \* VIRQ numbers
  Irqs,              \* 0 .. NR_IRQS - 1
  BindMod,           \* 2^32: irq_bindcount is an unsigned int
  MaxBinds,          \* bound on a client's outstanding binds of one source
  ExtraUnbind        \* TRUE: clients may unbind more often than they bound

ASSUME InterdomainPorts \subseteq Ports /\ Ports \subseteq Nat /\ Irqs \subseteq Nat
ASSUME BindMod \in Nat \ {0} /\ MaxBinds \in 1 .. BindMod - 1 /\ ExtraUnbind \in BOOLEAN

NONE == -1

VARIABLES
  evtchn_to_irq, virq_to_irq, irq_to_evtchn, irq_bindcount,
  xen_port,        \* Xen: Ports -> "free" | "interdomain" | "virq"
  xen_virq_port,   \* Xen: the port each VIRQ is bound to, or NONE
  panicked,        \* the guest has halted in panic()
  oob,             \* an IRQ-indexed table was accessed at index -1
  binds_v, binds_e \* history: outstanding binds of each VIRQ / interdomain port

vars == <<evtchn_to_irq, virq_to_irq, irq_to_evtchn, irq_bindcount,
          xen_port, xen_virq_port, panicked, oob, binds_v, binds_e>>
tables == <<evtchn_to_irq, virq_to_irq, irq_to_evtchn, irq_bindcount>>
xen == <<xen_port, xen_virq_port>>

(* init_events, after the domain builder opened the interdomain ports.     *)
Init ==
  /\ evtchn_to_irq = [p \in Ports |-> NONE]
  /\ virq_to_irq = [v \in Virqs |-> NONE]
  /\ irq_to_evtchn = [i \in Irqs |-> NONE]
  /\ irq_bindcount = [i \in Irqs |-> 0]
  /\ xen_port = [p \in Ports |-> IF p \in InterdomainPorts THEN "interdomain" ELSE "free"]
  /\ xen_virq_port = [v \in Virqs |-> NONE]
  /\ panicked = FALSE /\ oob = FALSE
  /\ binds_v = [v \in Virqs |-> 0] /\ binds_e = [p \in InterdomainPorts |-> 0]

(* Mutant: the scan runs to i <= NR_IRQS and returns the index past the   *)
(* table when it is full.                                                  *)
FindFreeIrqPastEnd == Min({i \in Irqs \cup {Max(Irqs) + 1} : i \notin Irqs \/ irq_to_evtchn[i] = NONE})

(* find_free_irq: the first IRQ with no port, or NONE (the caller panics). *)
FreeIrqs == {i \in Irqs : irq_to_evtchn[i] = NONE}
FindFreeIrq == IF FreeIrqs = {} THEN NONE ELSE Min(FreeIrqs)

(* EVTCHNOP_bind_virq: fails if the VIRQ is already bound in Xen or no     *)
(* port is free; otherwise opens the lowest free port.                     *)
XenBindFails(v) == xen_virq_port[v] # NONE \/ \A p \in Ports : xen_port[p] # "free"
XenNewPort == Min({p \in Ports : xen_port[p] = "free"})

(* irq_bindcount[irq]++ on an unsigned int.                                *)
IncCount(i) == [irq_bindcount EXCEPT ![i] = (@ + 1) % BindMod]
DecCount(i) == [irq_bindcount EXCEPT ![i] = (@ - 1) % BindMod]

Panic == panicked' = TRUE /\ UNCHANGED <<tables, xen, oob>>

(* bind_virq_to_irq: an unbound VIRQ gets a port from Xen and the first    *)
(* free IRQ; a bound one only has its IRQ's count raised.                  *)
BindVirq(v) ==
  /\ ~panicked /\ binds_v[v] < MaxBinds
  /\ binds_v' = [binds_v EXCEPT ![v] = @ + 1]
  /\ IF virq_to_irq[v] # NONE
     THEN /\ irq_bindcount' = IncCount(virq_to_irq[v])
          /\ UNCHANGED <<evtchn_to_irq, virq_to_irq, irq_to_evtchn, xen, panicked, oob>>
     ELSE IF XenBindFails(v) THEN Panic
     ELSE LET p == XenNewPort
              i == FindFreeIrq IN
          /\ xen_port' = [xen_port EXCEPT ![p] = "virq"]
          /\ xen_virq_port' = [xen_virq_port EXCEPT ![v] = p]
          /\ IF i = NONE THEN panicked' = TRUE /\ UNCHANGED <<tables, oob>>
             ELSE /\ virq_to_irq' = [virq_to_irq EXCEPT ![v] = i]
                  /\ evtchn_to_irq' = [evtchn_to_irq EXCEPT ![p] = i]
                  /\ irq_to_evtchn' = [irq_to_evtchn EXCEPT ![i] = p]
                  /\ irq_bindcount' = IncCount(i)
                  /\ UNCHANGED <<panicked, oob>>
  /\ UNCHANGED binds_e

(* EVTCHNOP_close of an open port: Xen frees it and forgets its VIRQ.       *)
XenClose(p) ==
  /\ xen_port' = [xen_port EXCEPT ![p] = "free"]
  /\ xen_virq_port' = [v \in Virqs |-> IF xen_virq_port[v] = p THEN NONE ELSE xen_virq_port[v]]

(* The history of a client's unbind: a legal one undoes a bind; with       *)
(* ExtraUnbind a client may also unbind what it no longer holds.           *)
Unbinding(b, k) == (b[k] > 0 \/ ExtraUnbind) /\ b' = [b EXCEPT ![k] = IF @ > 0 THEN @ - 1 ELSE 0]

(* unbind_virq_from_irq: irq is read from virq_to_irq at an uninitialised  *)
(* index g, any VIRQ, so an unbound one gives -1 and every later access is *)
(* out of bounds.  Otherwise that IRQ's count is decremented, and at zero  *)
(* its port is closed in Xen (panic if the close fails, the count already  *)
(* lowered) and virq's entry, the port's entry and the IRQ's entry are     *)
(* cleared.  No caller in the repository: the only VIRQ bind, in           *)
(* init_events, is under #if 0.                                            *)
UnbindVirq(v) ==
  /\ ~panicked
  /\ Unbinding(binds_v, v)
  /\ \E g \in Virqs :
       LET irq == virq_to_irq[g] IN
       IF irq = NONE THEN oob' = TRUE /\ UNCHANGED <<tables, xen, panicked>>
       ELSE LET evtchn == irq_to_evtchn[irq] IN
            /\ irq_bindcount' = DecCount(irq)
            /\ IF irq_bindcount'[irq] # 0
               THEN UNCHANGED <<evtchn_to_irq, virq_to_irq, irq_to_evtchn, xen, panicked, oob>>
               ELSE IF evtchn = NONE \/ xen_port[evtchn] = "free"
               THEN /\ panicked' = TRUE
                    /\ UNCHANGED <<evtchn_to_irq, virq_to_irq, irq_to_evtchn, xen, oob>>
               ELSE /\ XenClose(evtchn)
                    /\ virq_to_irq' = [virq_to_irq EXCEPT ![v] = NONE]
                    /\ evtchn_to_irq' = [evtchn_to_irq EXCEPT ![evtchn] = NONE]
                    /\ irq_to_evtchn' = [irq_to_evtchn EXCEPT ![irq] = NONE]
                    /\ UNCHANGED <<panicked, oob>>
  /\ UNCHANGED binds_e

(* Mutant: irq_bindcount[irq]++ inside the if, so a rebind is not counted. *)
BindEvtchnNoCount(p) ==
  /\ ~panicked /\ binds_e[p] < MaxBinds
  /\ binds_e' = [binds_e EXCEPT ![p] = @ + 1]
  /\ IF evtchn_to_irq[p] # NONE
     THEN UNCHANGED <<evtchn_to_irq, irq_to_evtchn, irq_bindcount, panicked>>
     ELSE LET i == FindFreeIrq IN
          IF i = NONE THEN panicked' = TRUE /\ UNCHANGED <<evtchn_to_irq, irq_to_evtchn, irq_bindcount>>
          ELSE /\ evtchn_to_irq' = [evtchn_to_irq EXCEPT ![p] = i]
               /\ irq_to_evtchn' = [irq_to_evtchn EXCEPT ![i] = p]
               /\ irq_bindcount' = IncCount(i)
               /\ UNCHANGED panicked
  /\ UNCHANGED <<virq_to_irq, xen, oob, binds_v>>

(* bind_evtchn_to_irq: the port is already open; an unbound one gets the  *)
(* first free IRQ, and the IRQ's count is raised.                          *)
BindEvtchn(p) ==
  /\ ~panicked /\ binds_e[p] < MaxBinds
  /\ binds_e' = [binds_e EXCEPT ![p] = @ + 1]
  /\ IF evtchn_to_irq[p] # NONE
     THEN /\ irq_bindcount' = IncCount(evtchn_to_irq[p])
          /\ UNCHANGED <<evtchn_to_irq, irq_to_evtchn, panicked>>
     ELSE LET i == FindFreeIrq IN
          IF i = NONE THEN panicked' = TRUE /\ UNCHANGED <<evtchn_to_irq, irq_to_evtchn, irq_bindcount>>
          ELSE /\ evtchn_to_irq' = [evtchn_to_irq EXCEPT ![p] = i]
               /\ irq_to_evtchn' = [irq_to_evtchn EXCEPT ![i] = p]
               /\ irq_bindcount' = IncCount(i)
               /\ UNCHANGED panicked
  /\ UNCHANGED <<virq_to_irq, xen, oob, binds_v>>

(* Mutant: at count zero only the IRQ's entry is cleared.                  *)
UnbindEvtchnKeepsPort(p) ==
  /\ ~panicked
  /\ Unbinding(binds_e, p)
  /\ LET irq == evtchn_to_irq[p] IN
     IF irq = NONE THEN oob' = TRUE /\ UNCHANGED tables
     ELSE /\ irq_bindcount' = DecCount(irq)
          /\ IF irq_bindcount'[irq] = 0
             THEN irq_to_evtchn' = [irq_to_evtchn EXCEPT ![irq] = NONE]
             ELSE UNCHANGED irq_to_evtchn
          /\ UNCHANGED <<evtchn_to_irq, virq_to_irq, oob>>
  /\ UNCHANGED <<xen, panicked, binds_v>>

(* unbind_evtchn_from_irq: no check that the port is bound; at count zero  *)
(* the IRQ and the port are unlinked (the port stays open in Xen).         *)
UnbindEvtchn(p) ==
  /\ ~panicked
  /\ Unbinding(binds_e, p)
  /\ LET irq == evtchn_to_irq[p] IN
     IF irq = NONE THEN oob' = TRUE /\ UNCHANGED tables
     ELSE /\ irq_bindcount' = DecCount(irq)
          /\ IF irq_bindcount'[irq] = 0
             THEN /\ irq_to_evtchn' = [irq_to_evtchn EXCEPT ![irq] = NONE]
                  /\ evtchn_to_irq' = [evtchn_to_irq EXCEPT ![p] = NONE]
             ELSE UNCHANGED <<irq_to_evtchn, evtchn_to_irq>>
          /\ UNCHANGED <<virq_to_irq, oob>>
  /\ UNCHANGED <<xen, panicked, binds_v>>

(* panic() halts the guest: nothing changes any more.                      *)
Halted == panicked /\ UNCHANGED vars

Next ==
  \/ \E v \in Virqs : BindVirq(v) \/ UnbindVirq(v)
  \/ \E p \in InterdomainPorts : BindEvtchn(p) \/ UnbindEvtchn(p)
  \/ Halted

Spec == Init /\ [][Next]_vars

-----------------------------------------------------------------------------
Bound(x) == x \in Nat

TypeOK ==
  /\ evtchn_to_irq \in [Ports -> Irqs \cup {NONE}]
  /\ virq_to_irq \in [Virqs -> Irqs \cup {NONE}]
  /\ irq_to_evtchn \in [Irqs -> Ports \cup {NONE}]
  /\ irq_bindcount \in [Irqs -> 0 .. BindMod - 1]
  /\ xen_port \in [Ports -> {"free", "interdomain", "virq"}]
  /\ xen_virq_port \in [Virqs -> Ports \cup {NONE}]
  /\ panicked \in BOOLEAN /\ oob \in BOOLEAN
  /\ binds_v \in [Virqs -> 0 .. MaxBinds] /\ binds_e \in [InterdomainPorts -> 0 .. MaxBinds]

(* The three tables describe one binding: a port's IRQ maps back to the    *)
(* port, an IRQ's port maps back to the IRQ, an IRQ is bound exactly when  *)
(* its count is non-zero, and a VIRQ's IRQ is bound to the port Xen gave   *)
(* that VIRQ.  Any bind/unbind that clears or sets one table and not the   *)
(* others breaks it several calls later, when the IRQ is reused.           *)
TablesConsistent ==
  /\ \A p \in Ports : Bound(evtchn_to_irq[p]) => irq_to_evtchn[evtchn_to_irq[p]] = p
  /\ \A i \in Irqs : Bound(irq_to_evtchn[i]) => evtchn_to_irq[irq_to_evtchn[i]] = i
  /\ \A i \in Irqs : Bound(irq_to_evtchn[i]) <=> irq_bindcount[i] # 0
  /\ \A v \in Virqs : Bound(virq_to_irq[v]) =>
        xen_virq_port[v] # NONE /\ irq_to_evtchn[virq_to_irq[v]] = xen_virq_port[v]

(* Idempotent binding, as the clients see it: until a panic halts the      *)
(* guest, a source is bound exactly while some client holds a bind of it,  *)
(* its IRQ's count equals the binds held, and Xen has a VIRQ bound exactly *)
(* while the guest does (a port Xen keeps for a VIRQ the guest forgot      *)
(* makes the next bind of that VIRQ panic).                                *)
BindCountsMatch ==
  ~panicked =>
  /\ \A v \in Virqs :
       /\ Bound(virq_to_irq[v]) <=> binds_v[v] > 0
       /\ Bound(virq_to_irq[v]) => irq_bindcount[virq_to_irq[v]] = binds_v[v]
       /\ (xen_virq_port[v] # NONE) <=> Bound(virq_to_irq[v])
  /\ \A p \in InterdomainPorts :
       /\ Bound(evtchn_to_irq[p]) <=> binds_e[p] > 0
       /\ Bound(evtchn_to_irq[p]) => irq_bindcount[evtchn_to_irq[p]] = binds_e[p]
=============================================================================
