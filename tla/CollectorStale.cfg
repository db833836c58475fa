SPECIFICATION Spec
CONSTANTS
    svc = svc
    ing = ing
    pod = pod
    again = again
    Objects <- MCObjects
    Kinds <- MCKinds
    KindOf <- MCKindOf
    NameOf <- MCNameOf
    Diffing = {"Container"}
    Clusters <- First
    Backends <- MCBackends
    Snapshotters = {}
    Main = main
    MaxVersion = 2
INVARIANTS SettledIsCurrent
CHECK_DEADLOCK FALSE
