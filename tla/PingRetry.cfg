\* maxRetries one more than engine.go passes.
SPECIFICATION FairSpec
CONSTANT MaxRetries = 4
INVARIANT TypeOK
INVARIANT HonestVerdict
INVARIANT AtMostOneLatePing
INVARIANT BackoffDoubles
PROPERTY CancelEndsCall
CHECK_DEADLOCK TRUE
