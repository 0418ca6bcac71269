SPECIFICATION Spec
CONSTANTS
    Tasks = {t1, t2}
    Workers = {w1, w2}
    TaskCap = 2
    idleWorkers = 1
    maxWorkers = 2
    None = None
    Quit = Quit
SYMMETRY Symmetry
INVARIANT NoSendOnClosed
CHECK_DEADLOCK FALSE
