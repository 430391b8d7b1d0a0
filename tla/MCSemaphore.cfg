CONSTANT Tasks = {t1, t2, t3, t4}
SPECIFICATION SemSpec
INVARIANTS SemTypeOK MutualExclusion HandOver
PROPERTIES ServedInOrder
