\* Both kinds of proxy, two requests at a time.
SPECIFICATION Spec
CONSTANTS
    None = None
    Identity = Identity
    Challenge = Challenge
    Requests = {r1, r2}
    Keys = {k1, k2}
    Codings = {Identity, gzip}
    Sizes = {2}
    MinSize = 2
    MaxFileSize = 3
    MaxChunks = 2
    MaxFetches = 2
    BrowserCache = TRUE
    UpstreamFields = {"server", "etag"}
    Modifiers <- MCModifiers
SYMMETRY Symmetry
INVARIANTS  OnlyStorableStored AnswerReadable BrowserToldAlike
