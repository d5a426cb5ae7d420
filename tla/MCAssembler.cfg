SPECIFICATION Spec
CHECK_DEADLOCK FALSE
CONSTANTS
    Programs <- MCPrograms
    Startup = {TRUE, FALSE}
INVARIANTS
    RelocsResolved
    Loadable
    CloneFaithful
    RefusedOnlyForCause
