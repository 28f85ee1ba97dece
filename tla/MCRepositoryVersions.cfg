CONSTANTS
    u1 = u1
    u2 = u2
    Contents <- MCContents
    Unknown = Unknown
    Star = Star
    NoBase = NoBase
    MaxVersion = 3
    MaxTasks = 2
SPECIFICATION Spec
INVARIANT TypeOK
PROPERTIES ImplementsHistory StarRemovesLatest
