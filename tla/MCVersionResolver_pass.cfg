CONSTANT NoVersion = NoVersion
SPECIFICATION Spec
INVARIANT TypeOK ResolvesLikeReferenceWhenFrontParses 
\* One call per behaviour: it stops when the call has returned.
CHECK_DEADLOCK FALSE
