CONSTANTS
    Token = {t1, t2, t3}
    NoToken = NoToken
    Call = {c1, c2}
    Policies <- SerialPolicies
    Peer = {p1}
    Nobody = Nobody
    Timeout = 2
    Grace = 1
SPECIFICATION PersistentFairSpec
INVARIANTS OneInstance
PROPERTIES AcceptedTriggerRuns LeaseEnds
