\* Two VIRQs, of which a client binds any: the uninitialised index in
\* unbind_virq_from_irq may read the other VIRQ's entry, its IRQ or -1.
CONSTANTS
  Ports = {0, 1, 2}
  InterdomainPorts = {0, 2}
  Virqs = {0, 1}
  Irqs = {0, 1, 2}
  BindMod = 4
  MaxBinds = 2
  ExtraUnbind = FALSE
INIT Init
NEXT Next
INVARIANT BindCountsMatch
