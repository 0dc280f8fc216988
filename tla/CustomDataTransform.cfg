\* Two requests logging once: does each Rollbar item carry its own request-id?
CONSTANTS
    Procs = {r1, r2}
    Logs = 1
SPECIFICATION Spec
INVARIANT ReportCarriesOwnRequestID
