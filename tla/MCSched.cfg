CONSTANTS
  i0 = i0
  t1 = t1
  t2 = t2
  t3 = t3
  Slots = {i0, t1, t2, t3}
  Idle = i0
  IdlePri = 0
  Pris = {1, 2}
  Quantum = 1
  Uses <- MCUses
  NewFlags <- MCNewFlags
  Targets = {t3}
  MaxForbid = 1
VIEW View
SPECIFICATION Spec
INVARIANTS TypeOK ListsMatchFlags RunQueueOrdered CurrentNotReclaimed TasksAccounted
PROPERTIES SwitchIsFair
