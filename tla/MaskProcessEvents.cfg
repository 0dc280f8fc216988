\* processevents.MaskEvent behind Writer, every input event, masking on and off.
CONSTANTS
    Keyword = password
    UpperKeyword = Password
    Plain = user
    Variant = "monorepo"
SPECIFICATION Spec
INVARIANTS TypeOK MaskedAsPromised UnchangedWithoutKeyword NoEventDropped
\* One write per behaviour: the call returns and nothing else happens.
CHECK_DEADLOCK FALSE
