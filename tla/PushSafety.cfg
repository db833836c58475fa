SPECIFICATION Spec
CONSTANTS
    Sources = {s1, s2}
    Pusher = push
    MaxBufferSize = 2
    PushBatchLimit = 1
    MaxBackoff = 10
    SnapshotCooldown = 1
    SnapshotLines = 2
    MaxLines = 3
    MaxFlawed = 1
    MaxBoots = 1
SYMMETRY SourceSymmetry
INVARIANTS TypeOK NewestNeverLost AckedBeforePending
PROPERTIES QuietWhenHealthy KeepsPromise
CHECK_DEADLOCK FALSE
