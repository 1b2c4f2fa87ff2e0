SPECIFICATION Spec
CONSTANTS
    DefaultThreads = 8
    Starts <- MCStarts
    CertFiles = {"c1", "c2"}
    Disks <- MCDisks
    MaxChanges = 1
    Gets = {g1}
    Uris <- MCUris
    Tree <- MCTree
    Cwd <- MCCwd
    IndexFile = "index.html"
    Up = ".."
    Requests = {r1, r2}
    Paths = {"p", "q"}
    Addrs = {"a"}
    Nanos = {"n1", "n2"}
    MaxTries = 2
INVARIANTS TypeOK TlsAsWritten NothingDropped ValidatedStarts VHostReady FilesAsAsked Sticky
CHECK_DEADLOCK FALSE
