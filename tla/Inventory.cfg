SPECIFICATION FairSpec
CONSTANTS
    GatewayGVs <- MCGatewayGVs
    TraefikGVs <- MCTraefikGVs
    Rank <- MCRank
    GatewayResources <- Gateway
    TraefikResources <- Traefik
    Objects <- MCObjects
    Initial <- MCInitial
    Resident <- MCResident
    Snapshotters = {"SnapshotLoop"}
    Main = "main"
    Batches <- MCBatches
    Offered <- MCOffered
    MaxChanges = 3
    MaxRestarts = 1
INVARIANTS TypeOK NewestAnswered ShowsTheCluster GraphAgrees HostsListed
PROPERTIES Starts
CHECK_DEADLOCK FALSE
