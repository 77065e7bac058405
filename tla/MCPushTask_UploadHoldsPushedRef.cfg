CONSTANTS
    MaxPushes <- MCMaxPushes
    AuthRequired = FALSE
    Tok = Tok
    NoToken = NoToken
    Trees = {t1, t2}
SPECIFICATION Spec
INVARIANT UploadHoldsPushedRef
CHECK_DEADLOCK FALSE
