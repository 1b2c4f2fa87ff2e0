\* Two domains, a midnight, crashes at any step.
SPECIFICATION FairSpec
CONSTANTS
    d1 = d1
    d2 = d2
    None = None
    Torn = Torn
    Bootstrap = Bootstrap
    Default = Default
    Domains = {d1, d2}
    Clients = {}
    RenewalDays = 1
    Lifetime = 2
    Capacity = 2
    MaxDay = 1
    MaxCrashes = 2
    MaxFailures = 0
PROPERTY EventuallyServed
CHECK_DEADLOCK FALSE
