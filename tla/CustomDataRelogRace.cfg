\* The same error logged twice while the other request reports to Rollbar.
CONSTANTS
    Procs = {r1, r2}
    Logs = 2
SPECIFICATION Spec
INVARIANT NoConcurrentMapAccess
