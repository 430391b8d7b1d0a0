CONSTANT Tasks = {t1, t2}
SPECIFICATION SemSpec
INVARIANTS NoLostWakeup
