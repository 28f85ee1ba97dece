CONSTANTS
    r1 = r1
    r2 = r2
    k1 = k1
    k2 = k2
    k3 = k3
    p1 = p1
    p2 = p2
    Unsaved = Unsaved
    Keys <- MCKeys
    Paths <- MCPaths
    Runs <- OneRuns
    Feed <- OneFeed
    ArtifactPaths <- MCArtifactPaths
SPECIFICATION Spec
INVARIANT ResolverSingleSentinel
