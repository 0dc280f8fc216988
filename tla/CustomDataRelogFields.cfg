\* One request whose error is logged twice: what does the second line carry?
CONSTANTS
    Procs = {r1}
    Logs = 2
SPECIFICATION Spec
INVARIANT EveryEventAsBuilt
