SPECIFICATION RorSpec
CONSTANTS
    Unset = ""
    Bindings <- FullBindings
    EnvName = "helm"
    EnvEnvironment = ""
    RefreshInterval = 3
    RetryInterval = 1
    MaxChanges = 1
PROPERTIES FailureKeepsIdentity
CHECK_DEADLOCK FALSE
