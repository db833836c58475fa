SPECIFICATION Spec
CONSTANTS
    Sources = {s1}
    Pusher = push
    MaxBufferSize = 2
    PushBatchLimit = 1
    MaxBackoff = 10
    SnapshotCooldown = 1
    SnapshotLines = 2
    MaxLines = 2
    MaxFlawed = 0
    MaxBoots = 1
PROPERTIES BackoffGrows
CHECK_DEADLOCK FALSE
