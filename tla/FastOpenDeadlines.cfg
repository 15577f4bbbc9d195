\* Two goroutines and two times: the order of the setters matters.
SPECIFICATION Spec
CONSTANTS
    Threads = {g1, g2}
    None = None
    Times = {t1, t2}
    Unset = Unset
INVARIANT DeadlinesInOrder
CHECK_DEADLOCK FALSE
