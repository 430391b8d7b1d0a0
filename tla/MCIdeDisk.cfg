CONSTANTS
  t1 = t1
  t2 = t2
  Tasks = {t1, t2}
  Asks <- MCAsks
  Devs = {0, 1}
  MaxSectors = 2
  MAX_RETRIES = 3
  RESET_FREQ = 3
  RECAL_FREQ = 2
  IRQ = IRQ
  NULL = NULL
  FAKE_REQ = FAKE_REQ
SPECIFICATION Spec
CHECK_DEADLOCK FALSE
INVARIANTS RequestsSound ResultIsTrue
PROPERTIES RequestsEnd
