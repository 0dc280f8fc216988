\* A start and two stops of one service racing, from either initial state.
CONSTANTS
    c1 = c1
    c2 = c2
    c3 = c3
    Clients = {c1, c2, c3}
    Cmd <- StartStopStop
    MaxPids = 3
SPECIFICATION Spec
INVARIANT TypeOK
PROPERTIES ServiceRefinement
