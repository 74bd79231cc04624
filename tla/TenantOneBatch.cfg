SPECIFICATION Spec
CONSTANTS
    b1 = b1
    b2 = b2
    Backups <- MCBackups
    FollowUps = {}
    Audits = {}
    Enabled = TRUE
    Life = 8
    NoBatch = NoBatch
INVARIANTS
    OneBatch
