\* Two domains, a daily check during the start, a crash, a failure, a handshake.
SPECIFICATION Spec
CONSTANTS
    d1 = d1
    d2 = d2
    None = None
    Torn = Torn
    Bootstrap = Bootstrap
    Default = Default
    Domains = {d1, d2}
    Clients = {c}
    RenewalDays = 1
    Lifetime = 2
    Capacity = 1
    MaxDay = 1
    MaxCrashes = 1
    MaxFailures = 1
INVARIANTS TypeOK KeyPairMatches
PROPERTY NeverDowngraded
