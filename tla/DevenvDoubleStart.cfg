\* Two starts of one service that is not running.
CONSTANTS
    c1 = c1
    c2 = c2
    c3 = c3
    Clients = {c1, c2}
    Cmd <- StartStart
    MaxPids = 3
SPECIFICATION Spec
PROPERTY ServiceRefinement
