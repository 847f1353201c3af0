SPECIFICATION Spec
CONSTANTS
    Drafts = {d1}
    MaxText = 3
    MaxWire = 3
INVARIANTS TypeOK SendOutcomeIsShown SettledEntryIsRow
CHECK_DEADLOCK FALSE
