SPECIFICATION FairSpec
CONSTANTS
    HttpsUrls = {"https"}
    ValidDirectives = {"info", "debug"}
    Digest <- MCDigest
    Launches <- MCLaunches
    MaxAttempts = 3
    Intervals = {0, 2}
    Lifetimes = {0, 4, 9}
    Delays = {0, 3}
    MaxInterval = 12
INVARIANTS
    TypeOK
    ExternalAuthIsComplete
    UserIdFollowsAccount
    UsableTokenKept
PROPERTIES
    SignInEnds
    CallbacksEnd
CHECK_DEADLOCK FALSE
