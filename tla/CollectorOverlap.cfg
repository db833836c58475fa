SPECIFICATION Spec
CONSTANTS
    svc = svc
    ing = ing
    pod = pod
    again = again
    Objects <- MCObjects
    Kinds <- MCKinds
    KindOf <- MCKindOf
    NameOf <- MCNameOf
    Diffing = {"Container"}
    Clusters <- First
    Backends <- MCBackends
    Snapshotters = {loop, push}
    Main = main
    MaxVersion = 1
PROPERTIES TombstonesOnlyTheDead
CHECK_DEADLOCK FALSE
