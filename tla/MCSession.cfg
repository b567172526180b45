\* A short hold time, room for a frame and a half, every fault.
SPECIFICATION LiveSpec
CONSTANTS
    east = east
    west = west
    Speakers = {east, west}
    Settings <- MCSettings
    BufferCap = 3
INVARIANTS TypeOK NegotiationAgrees HoldExpiryNeedsStall TornFrameEndsSession
PROPERTIES OnlyFloodOutlivesHold CloseIsMutual
CHECK_DEADLOCK FALSE
