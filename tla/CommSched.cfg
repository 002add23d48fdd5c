CONSTANTS
    t1 = t1  t2 = t2  t3 = t3  t4 = t4
    c1 = c1  c2 = c2  c3 = c3
    Targets = {t1, t2, t3, t4}
    Groups = {g1}
    Callers = {c1, c2, c3}
    MaxLoad <- MaxLoads
    NoGroup = NoGroup
    NoObject = NoObject
SPECIFICATION Spec
SYMMETRY CallersAlike
INVARIANTS
    LoadsAddUp
    HeapSound
    FreeSlotsNoticed
