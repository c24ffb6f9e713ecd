CONSTANTS
    Nodes <- MCNodes
    Beacons <- MCBeacons
    Subnets <- MCSubnets
    Primary = "P"
    RequiredConns = 2
    MaxSessions = 4
SPECIFICATION FairSpec
INVARIANTS TypeOK CountExact
PROPERTIES EnoughCancels
CHECK_DEADLOCK FALSE
