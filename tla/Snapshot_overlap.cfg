\* Two TakeSnapshot calls.
CONSTANTS
    Callers = {t1, t2}
    MaxTime = 1
SPECIFICATION Spec
INVARIANT NoOverlap
CHECK_DEADLOCK FALSE
