SPECIFICATION FairSpec
CONSTANTS
    svc = svc
    ing = ing
    pod = pod
    again = again
    Objects <- MCObjects
    Kinds <- MCKinds
    KindOf <- MCKindOf
    NameOf <- MCNameOf
    Diffing = {"Container"}
    Clusters <- Both
    Backends <- MCBackends
    Snapshotters = {loop}
    Main = main
    MaxVersion = 2
INVARIANTS TypeOK NothingMissed LingerersSwept
PROPERTIES Converges
CHECK_DEADLOCK FALSE
