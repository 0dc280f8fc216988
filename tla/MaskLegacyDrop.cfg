\* Legacy maskEvent: is any decodable event dropped?
CONSTANTS
    Keyword = password
    UpperKeyword = Password
    Plain = user
    Variant = "legacy"
SPECIFICATION Spec
INVARIANT NoEventDropped
\* One write per behaviour: the call returns and nothing else happens.
CHECK_DEADLOCK FALSE
