\* Two accounts, two calls under way at once.
SPECIFICATION Spec
CONSTANTS
    Users = {ann, bob}
    NoOne = NoOne
    Stale = Stale
    Calls = {c1, c2}
    NoCall = NoCall
SYMMETRY Interchangeable
INVARIANTS TypeOK ShowsTheCookie CacheFollowsTheSession NoRedirectLoop BootstrapSuffices
