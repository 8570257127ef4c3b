SPECIFICATION Spec
CONSTANTS
    ann = ann
    ben = ben
    i1 = i1
    i2 = i2
    t1 = t1
    t2 = t2
    t3 = t3
    Settings <- Worlds
SYMMETRY Alike
INVARIANTS
    
    EachReachedOnce
CHECK_DEADLOCK FALSE
