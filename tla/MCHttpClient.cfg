CONSTANTS
    Methods = {"GET", "PUT", "DELETE", "POST"}
    MaxAttempts = 3
    Buffer = 4
    Lifetimes = {4, 7}
    TokenTimeout = 2
    RequestTimeout = 2
SPECIFICATION FairSpec
INVARIANT NoStaleToken
PROPERTIES
    ImplementsCall
    DeniedTokenReplaced
