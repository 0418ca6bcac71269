SPECIFICATION FairSpec
CONSTANTS
    Tasks = {t1, t2, t3}
    Workers = {w1, w2, w3}
    TaskCap = 1
    idleWorkers = 1
    maxWorkers = 2
    None = None
    Quit = Quit
INVARIANT WorkersCounted
INVARIANT ReadyAreWaiting
INVARIANT TaskOnce
INVARIANT CloseIsSafe
PROPERTY SentTasksRun
PROPERTY StopWithWorkerCloses
CHECK_DEADLOCK FALSE
