CONSTANTS
    q1 = q1
    q2 = q2
    q3 = q3
    q4 = q4
    t1 = t1
    t2 = t2
    t3 = t3
    acme = acme
    beta = beta
    Pskov = Pskov
    pskov = pskov
    Novgorod = Novgorod
    Requests = {q1, q2}
    Tenants = {t1}
    Existing = {t1}
    Logins <- MCLogins
    LoginOf <- MCLoginOf
    Topics = {Pskov, Novgorod}
    Fold <- MCFold
    NoCall = NoCall
    NoTopic = NoTopic
    RevokeAuthorized = FALSE
    Faults = FALSE
    MaxLog = 3
SPECIFICATION Spec
INVARIANTS
    NoAccessWithoutChannel
SYMMETRY Symmetry
CHECK_DEADLOCK FALSE
