\* No fault at all: a statement during the exchange of VERSIONs.
SPECIFICATION Spec
CONSTANTS
    Hub = Hub
    Leaf = Leaf
    Record = {r1, r2}
    NoRecord = NoRecord
    MaxEntries = 2
    Connector = {Leaf}
    MaxFaults = 0
INVARIANT Synced
CHECK_DEADLOCK FALSE
