CONSTANTS
    u1 = u1  u2 = u2  u3 = u3
    a1 = a1  a2 = a2  a3 = a3  a4 = a4
    NoArtifact = NoArtifact
    NoSubset = NoSubset
    Contents <- MCContents
    Artifacts <- MCArtifacts
    MaxPending <- MCMaxPending
SPECIFICATION Spec
CONSTANTS
    NumCAs = 5
    ContentOf <- MCContentOf
    ArtOf <- MCArtOf
    Sources <- MCSources
    Subset <- MCSubset
INVARIANTS
    TypeOK
    InFlightBound
    ReportCountsSound
    RepairOutcome
    RepairStaysInVersion
    RepairNeverHarms
PROPERTIES
    RepairTerminates
