SPECIFICATION Spec
CONSTANTS
    Sources = {s1, s2}
    Pusher = push
    MaxBufferSize = 3
    PushBatchLimit = 1
    MaxBackoff = 10
    SnapshotCooldown = 1
    SnapshotLines = 2
    MaxLines = 3
    MaxFlawed = 0
    MaxBoots = 1
PROPERTIES ReconcileOnlyOnDrift
CHECK_DEADLOCK FALSE
