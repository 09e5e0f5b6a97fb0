SPECIFICATION FairClientSpec
CONSTANTS
    c1 = c1
    c2 = c2
    tab1 = tab1
    tab2 = tab2
    Users = {u1}
    Me = u1
    Tokens = {t1, t2, t3}
    Secrets = {}
    Requests = {c1, c2}
    Tabs = {tab1, tab2}
    TabOf <- TwoTabs
    MaxLoginFailures = 1
    Nobody = Nobody
    NoToken = NoToken
    NoSecret = NoSecret
INVARIANTS
    StoredUsable
    SessionKept
PROPERTY
    CallsEnd
