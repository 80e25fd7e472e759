SPECIFICATION Spec
CONSTANTS
    Conn = {u1, u2}
    ana = ana
    Ana = Ana
    bob = bob
    zeus = zeus
    Nick <- MCNick
    Key <- MCKey
    Fold <- MCFold
    Default = zeus
    NoConn = NoConn
SYMMETRY Symmetry
INVARIANTS
    TypeOK
    RegistryExact
PROPERTIES
    OwnCommandsKeepIdentity
    TakeoverNeedsLogin
    OperFollowsTable
