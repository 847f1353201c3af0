SPECIFICATION Spec
CONSTANTS
    Msgs <- MCMsgs
    Hooks = {page, view}
    PageHook = page
    MaxVersion = 2
    MaxPending = 3
    MaxWire = 3
    MaxUnread = 1
INVARIANTS TypeOK OpenHasNoUnread ListIsRows SearchForgetsDeleted
CHECK_DEADLOCK FALSE
