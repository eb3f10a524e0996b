\* Two sessions, two live proxies at once (one may be reaped in flight), two callers.
CONSTANTS
    Session = {s1, s2}
    Proxy = {p1, p2}
    Caller = {c1, c2}
    NoProxy = NoProxy
    Threshold = 2
    TripWindow = 1
SPECIFICATION FairSpec
INVARIANTS RegisteredIsWhole NobodyLeftUntold
PROPERTY TeardownReleasesClients
\* Callers behind a creation that never settles really are stuck.
CHECK_DEADLOCK FALSE
