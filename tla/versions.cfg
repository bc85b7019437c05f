SPECIFICATION MCSpec
CONSTANTS
    p1 = p1
    p2 = p2
    p3 = p3
    Places = {p1, p2, p3}
    Fields = {"creator", "uris"}
    Creator = "creator"
    Royalties = "uris"
    URIs = "uris"
    Attributes = "uris"
    Updaters = {p1, p2}
    FirstHolder = p1
    Supply = 2
    Slots = {1}
    MaxRound = 2
    NoCopy = NoCopy
    NoMessage = NoMessage
    Empty = Empty
    Created = Created
INVARIANTS CopiesHold HeldCompleteUnlessFrozen
PROPERTIES WritesKept
CHECK_DEADLOCK FALSE
