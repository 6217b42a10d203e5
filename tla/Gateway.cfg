SPECIFICATION GatewaySpec
CONSTANTS
    Parts <- MCParts
    Keys <- MCKeys
    BootstrapKey <- MCBootstrap
    Secrets <- MCSecrets
    Grants <- MCGrants
    Requests = {r1}
    NoRecord = NoRecord
    Api = "api"
    Scripts <- MCScripts
    Seeds <- MCSeeds
    MaxEvents = 2
    Uploads <- MCUploads
    MaxBlocks = 1
    CanWrite <- MCCanWrite
    CanForce <- MCCanForce
INVARIANTS
    GatewayTypeOK
    QuarantineAccounted
    RefusedLeavesNothing
    SourcesAreWhole
PROPERTIES
    AccessSpec
    ApiComesUp
CHECK_DEADLOCK FALSE
