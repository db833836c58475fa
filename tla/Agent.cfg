SPECIFICATION FairSpec
CONSTANTS
    Unset = ""
    Bindings <- AllBindings
    EnvName = "helm"
    EnvEnvironment = ""
    RefreshInterval = 2
    RetryInterval = 3
    MaxChanges = 3
    PingInterval = 1
    MaxWait = 3
    ReminderAfter = 6
    MaxCount = 4
    EnvClusterID = ""
    KubeSystemUID = "kube-system"
INVARIANTS TypeOK MetadataComplete OutageStaysVisible
PROPERTIES BindingNeverLost WaitNeverShrinks BindingArrives SessionAlive
CHECK_DEADLOCK FALSE
