\* Three ports over two words, two bound IRQs and one without a port; the
\* boot-time mask and one more critical section of any kind.
SPECIFICATION Spec
CONSTANTS
  Ports = {0, 1, 2}
  WordBits = 2
  Irqs = {0, 1, 2}
  NoIrq = NoIrq
  evtchn_to_irq <- MCBinding
  MaxNest = 2
  MaxGuardOps = 1
INVARIANTS TypeOK NoStrandedEvent CallbacksHeldOff
PROPERTY NoEventLost
