CONSTANTS
    NoMounts = NoMounts
    Unset = Unset
    MaxEntries <- MCMaxEntries
INIT RuntimeInit
NEXT RuntimeNext
INVARIANT ValidPatchesApply
CHECK_DEADLOCK FALSE
