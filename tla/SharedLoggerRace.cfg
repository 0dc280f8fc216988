\* Workers run from the start; does a configured logger survive?
CONSTANTS
    Main = main
    Workers = {w1, w2}
    NoLogger = NoLogger
    DefaultLogger = DefaultLogger
    MaxConfigures <- MCMaxConfigures
    MaxLogs <- MCMaxLogs
    Startups = {FALSE}
SPECIFICATION Spec
INVARIANT NoUnmaskedAfterConfigure
CHECK_DEADLOCK FALSE
