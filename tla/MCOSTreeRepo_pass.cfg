CONSTANTS
    Apps = {a1}
    Commits = {c1, c2}
    NoCommit = NoCommit
    NoRef = NoRef
    Ops <- AllOps
SPECIFICATION Spec
INVARIANT TypeOK
PROPERTY PullOutsideTxnMirrorsRemote
PROPERTY RuntimeNotBestEffort
