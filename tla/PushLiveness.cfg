SPECIFICATION FairSpec
CONSTANTS
    Sources = {s1}
    Pusher = push
    MaxBufferSize = 2
    PushBatchLimit = 1
    MaxBackoff = 10
    SnapshotCooldown = 1
    SnapshotLines = 2
    MaxLines = 2
    MaxFlawed = 1
    MaxBoots = 2
INVARIANTS NewestNeverLost AckedBeforePending
PROPERTIES EveryLineSettles
CHECK_DEADLOCK FALSE
