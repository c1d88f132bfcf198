CONSTANTS
    plain = plain
    method = method
    Names = {plain, method}
    EntryPoints = {}
    Private = {}
    AfterFirstDot <- MCAfterDot
    AfterLastDot <- MCAfterDot
SPECIFICATION Spec
INVARIANTS UnusedIsReported
CHECK_DEADLOCK FALSE
