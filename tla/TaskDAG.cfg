SPECIFICATION Spec
CONSTANT Ids = {t1, t2, t3}
INVARIANTS SearchInv VerdictRight
PROPERTIES Terminates WorkShrinks
CHECK_DEADLOCK FALSE
