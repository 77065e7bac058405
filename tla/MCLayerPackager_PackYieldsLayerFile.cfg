CONSTANTS
    MetaSizes <- MCMetaSizes
    MaxMounts <- MCMaxMounts
    MaxFileLen <- MCMaxFileLen
SPECIFICATION Spec
INVARIANT PackYieldsLayerFile
CHECK_DEADLOCK FALSE
