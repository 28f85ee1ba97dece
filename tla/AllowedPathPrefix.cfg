CONSTANTS
    AllowedImportPaths <- MCAllowedImportPaths
    MaxPath = 4
SPECIFICATION Spec
INVARIANT AcceptedFileUrlInAllowedPath
