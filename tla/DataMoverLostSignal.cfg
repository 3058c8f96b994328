SPECIFICATION CacheFairSpec
CONSTANTS
    Paths = {p1, p2}
    NoEntry = NoEntry
    Garbled = Garbled
    MaxCopies = 3
PROPERTIES
    QueuedFileIsTaken
