\* Two requests, each logging its own annotated custom-data error once.
CONSTANTS
    Procs = {r1, r2, r3}
    Logs = 1
SPECIFICATION Spec
INVARIANTS TypeOK FirstEventAsBuilt NoConcurrentMapAccess
