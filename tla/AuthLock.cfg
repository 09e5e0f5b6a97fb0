SPECIFICATION Spec
CONSTANTS
    Users = {u1}
    Tokens = {t1, t2}
    Secrets = {s1, s2}
    Requests = {r1}
    MaxLoginFailures = 5
    Nobody = Nobody
    NoToken = NoToken
    NoSecret = NoSecret

INVARIANT
    LockedAfterFailures
