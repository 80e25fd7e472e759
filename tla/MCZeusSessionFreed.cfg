SPECIFICATION Spec
CONSTANTS
    Own = own
    Sender = {other}
    MaxLines = 2
    MaxQueue = 3
    MaxWrites = 2
CHECK_DEADLOCK FALSE
INVARIANT CallbacksKeepTheObject
