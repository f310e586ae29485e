CONSTANTS
    q1 = q1
    q2 = q2
    q3 = q3
    q4 = q4
    t1 = t1
    t2 = t2
    t3 = t3
    acme = acme
    beta = beta
    Pskov = Pskov
    pskov = pskov
    Novgorod = Novgorod
    Requests = {q1, q2, q3}
    Tenants = {t1, t2, t3}
    Existing = {t1}
    Logins <- MCLogins
    LoginOf <- MCLoginOf
    Topics = {Pskov, pskov}
    Fold <- MCFold
    NoCall = NoCall
    NoTopic = NoTopic
    RevokeAuthorized = TRUE
    Faults = TRUE
    MaxLog = 3
SPECIFICATION Spec
INVARIANTS
    TypeOK
    OneTenantPerLogin
    AccessLostOnlyByRemoval
    AnsweredRemovalRevokes
    StrayAccessIsExplained
    StaleEventIsExplained
SYMMETRY Symmetry
CHECK_DEADLOCK FALSE
