SPECIFICATION FairSpec
CONSTANTS
    Tasks = {t1, t2}
    Workers = {w1, w2}
    TaskCap = 2
    idleWorkers = 1
    maxWorkers = 2
    None = None
    Quit = Quit
PROPERTY StopDrains
CHECK_DEADLOCK FALSE
