SPECIFICATION FairRingSpec
CONSTANTS
    Item = {a, b}
    NoItem = NoItem
    Capacity = 4
INVARIANTS
    NoSlotRace
PROPERTIES
    ImplementsFifo
    ItemsAreTaken
