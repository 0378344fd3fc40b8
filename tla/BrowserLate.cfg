\* Is an authenticated user shown as such, whenever /auth/me is answered?
SPECIFICATION Spec
CONSTANTS
    Users = {ann}
    NoOne = NoOne
    Stale = Stale
    Calls = {c1}
    NoCall = NoCall
INVARIANT AuthenticatedIsShown
