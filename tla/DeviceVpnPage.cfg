SPECIFICATION Spec
CONSTANTS
    MaxRetries = 1
INVARIANT VpnSuccessIsTrue
CHECK_DEADLOCK FALSE
