SPECIFICATION Spec
CONSTANTS
    MaxSize = 8
    BatchHeaderSize = 2
    HeaderSize = 2
    MessageLength = {3, 4, 8}
    SeqRange = 16
    MaxMessages = 5
    MaxDuplicates = 2
    None = None
INVARIANTS
    WireIsFaithful
    TrackerIsHonest
