\* Three commands on any servers, one or two threads for messages on each.
SPECIFICATION Spec
CONSTANTS
    Server = {s1, s2}
    Command = {c1, c2, c3}
    MaxCores = 2
    Nobody = Nobody
SYMMETRY Symmetry
INVARIANTS TypeOK LocksNeverDeadlock StuckOnlyWhenFull
CHECK_DEADLOCK FALSE
