\* One domain, days pass.
SPECIFICATION FairSpec
CONSTANTS
    d1 = d1
    d2 = d2
    None = None
    Torn = Torn
    Bootstrap = Bootstrap
    Default = Default
    Domains = {d1}
    Clients = {}
    RenewalDays = 1
    Lifetime = 2
    Capacity = 1
    MaxDay = 2
    MaxCrashes = 0
    MaxFailures = 0
PROPERTY RenewedInTime
CHECK_DEADLOCK FALSE
