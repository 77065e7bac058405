CONSTANTS
    Names = {n1, n2}
    Endpoints = {e1, e2}
    NoSuffix = NoSuffix
    NoRemote = NoRemote
    Cfgs = {c1, c2}
INIT ConfigsInit
NEXT ConfigsNext
INVARIANT MemoryAndClientsAgree
