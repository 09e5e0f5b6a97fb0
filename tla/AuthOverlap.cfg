SPECIFICATION Spec
CONSTANTS
    Users = {u1}
    Tokens = {t1, t2, t3}
    Secrets = {s1, s2}
    Requests = {r1, r2}
    MaxLoginFailures = 1
    Nobody = Nobody
    NoToken = NoToken
    NoSecret = NoSecret
SYMMETRY AnyToken
INVARIANTS
    Rotated
    UsedTokenRejected
    OneLiveToken
    LogoutEnds
    EnabledSecretProved
