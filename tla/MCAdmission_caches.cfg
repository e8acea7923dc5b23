SPECIFICATION Spec
CONSTANTS
    site = site
    other = other
    nobody = nobody
    k1 = k1
    Origin = {site, other, nobody}
    Key = {k1}
    PoliciesOf <- MCPoliciesOf
    Handler = {h1, h2}
    PolicyTtl = 3
    KeyTtl = 2
    MaxEntries = 1
    ReadTime = 1
    Lag = 0
    None = None
SYMMETRY AdmissionSymmetry
INVARIANTS TypeOK AdmissionIsRecent RevokedKeyIsRefused NewKeyIsAccepted EnabledOriginIsServed CacheIsBounded
