\* Workers start after main's first configure, or from the start racing it.
CONSTANTS
    Main = main
    Workers = {w1, w2, w3}
    NoLogger = NoLogger
    DefaultLogger = DefaultLogger
    MaxConfigures <- MCMaxConfigures
    MaxLogs <- MCMaxLogs
    Startups = {TRUE, FALSE}
SPECIFICATION Spec
INVARIANTS TypeOK NeverNilLogger OrderedStartupMasked
\* The program exits once every goroutine is done.
CHECK_DEADLOCK FALSE
