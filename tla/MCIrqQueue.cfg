CONSTANTS
  Irqs = {1, 5, 6, 8}
  Direct = {5, 6, 8}
  Queued = {1, 5}
  Removable = {5, 6}
  QSize = 4
  None = None
SPECIFICATION Spec
INVARIANTS QueueSound
PROPERTIES ImplementsFifo KeepsServing
