\* One credential, one answering wallet, two sessions of two clients, one restart.
CONSTANTS
    ca1 = ca1  ca2 = ca2  dev1 = dev1  dev2 = dev2  pid = pid  av = av
    name = name  smith = smith  s1 = s1  s2 = s2  rp1 = rp1  rp2 = rp2
    Authorities = {ca1, ca2}
    TrustedCAs = {ca1}
    Devices = {dev1, dev2}
    DocTypes = {pid, av}
    JP2 = JP2  JPEG = JPEG  Portrait = Portrait  NONE = NONE
    Names = {name, Portrait}
    Values = {smith, JP2, JPEG}
    Sessions = {s1, s2}
    Clients = {rp1, rp2}
    HaipClients = {rp1}
    Catalogue <- MCCatalogue
    Lifetime = 0
    AttestationLife = 0
    Durable = TRUE
    MaxTime = 1
    MaxIssued = 1
    MaxFetched = 1
    MaxStoring = 1
    MaxCalls = 1
    MaxAnswers = 1
    MaxRestarts = 1
SPECIFICATION Spec
SYMMETRY Symmetry
CHECK_DEADLOCK FALSE
INVARIANTS TypeOK MdocVouchedFor SdJwtVouchedFor
    FaithfulVerifiesUnlessRekeyed AttestationBound
