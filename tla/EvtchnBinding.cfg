\* One VIRQ and two interdomain ports over three ports and two IRQs: every
\* IRQ is reused, and the third binding exhausts the IRQ table.
CONSTANTS
  Ports = {0, 1, 2}
  InterdomainPorts = {0, 2}
  Virqs = {0}
  Irqs = {0, 1}
  BindMod = 4
  MaxBinds = 3
  ExtraUnbind = FALSE
INIT Init
NEXT Next
INVARIANTS TypeOK TablesConsistent BindCountsMatch
