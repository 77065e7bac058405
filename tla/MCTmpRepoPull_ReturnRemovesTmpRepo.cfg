CONSTANTS
    Commits = {c1, c2}
    NoCommit = NoCommit
    MaxCalls <- MCMaxCalls
SPECIFICATION Spec
PROPERTY ReturnRemovesTmpRepo
