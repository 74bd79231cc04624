SPECIFICATION Spec
CONSTANTS
    Files = {f1, f2}
    Kinds = {"mikrotik"}
    Delete = TRUE
    MaxVersion = 1
    MaxRuns = 2
INVARIANT DeletedIsSaved
CHECK_DEADLOCK FALSE
