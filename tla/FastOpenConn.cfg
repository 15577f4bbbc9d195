\* Three goroutines: one can dial while another reads and a third closes.
\* Every goroutine may sit in a Read that nobody ever serves: that is a stop
\* of the program, not a fault.
SPECIFICATION FairSpec
CONSTANTS
    Threads = {g1, g2, g3}
    None = None
    Times = {t1}
    Unset = Unset
INVARIANTS Inv NoDataRace OneDial NoConnAfterShut DeadlinesKept
PROPERTIES WaitingReadWakes CloseReturns
CHECK_DEADLOCK FALSE
