\* Every pattern and every host of up to four labels, and overlapping domains.
SPECIFICATION Spec
CONSTANTS
    a = a
    b = b
    com = com
    Star = Star
    Default = Default
    NoHost = NoHost
    Hosts <- HostsTo4
    Configs <- AllConfigs
INVARIANTS TypeOK RoutedWhereCovered
