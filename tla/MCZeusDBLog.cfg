\* Two servers, two statements, two faults of any kind.
SPECIFICATION Spec
CONSTANTS
    Hub = Hub
    Leaf = Leaf
    Record = {r1, r2}
    NoRecord = NoRecord
    MaxEntries = 2
    Connector = {Leaf}
    MaxFaults = 2
SYMMETRY RecordSymmetry
INVARIANTS TypeOK CleanExchangeAgrees
PROPERTY ImplementsReplicatedLog
CHECK_DEADLOCK FALSE
