\* Three requests on two spellings with two passwords; two failures or crashes.
SPECIFICATION Spec
CONSTANTS
    r1 = r1
    r2 = r2
    r3 = r3
    Reqs = {r1, r2, r3}
    Emails <- MCEmails
    Lower <- MCLower
    AdminEmail = "ann@x"
    p1 = p1
    p2 = p2
    Passwords = {p1, p2}
    Asks <- MCAsks
    Ids = {u1, u2}
    None = None
    MaxFaults = 2
INVARIANTS
    TypeOK
    OneAccountPerAddress
    SessionsAreTheirOwners
    SignupsAreLogged
PROPERTIES
    RetriesGetIn
    SignupsAreAtomic
CHECK_DEADLOCK FALSE
