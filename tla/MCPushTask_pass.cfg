CONSTANTS
    MaxPushes <- MCMaxPushes
    AuthRequired = FALSE
    Tok = Tok
    NoToken = NoToken
    Trees = {t1, t2}
SPECIFICATION Spec
INVARIANT TypeOK OkOnlyIfComplete
PROPERTY PushReturns
CHECK_DEADLOCK FALSE
