CONSTANTS
    MetaSizes <- MCMetaSizes
    MaxMounts <- MCMaxMounts
    MaxFileLen <- MCMaxFileLen
SPECIFICATION Spec
INVARIANT TypeOK
PROPERTY UnpackOkLeavesNoMount
CHECK_DEADLOCK FALSE
