CONSTANTS
    NoMounts = NoMounts
    Unset = Unset
    MaxEntries <- MCMaxEntries
INIT RuntimeInit
NEXT RuntimeNext
INVARIANT RuntimeTypeOK ModulesLikeLocale
PROPERTY CreateRefinesSpec
\* One call of create or of gen: it stops once the caller has the result.
CHECK_DEADLOCK FALSE
