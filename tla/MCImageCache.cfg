SPECIFICATION Spec
CONSTANTS
    Fetches = {f1, f2, f3}
    Urls = {u1, u2}
    BadUrls = {ftp}
    MaxFiles = 1
    Leftovers <- MCLeftovers
SYMMETRY Interchangeable
INVARIANTS
    TypeOK
    WholeImages
    CacheBounded
CHECK_DEADLOCK FALSE
