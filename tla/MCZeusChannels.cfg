SPECIFICATION Spec
CONSTANTS
    Conn = {u1, u2}
    Key = {ana, bob}
    NoKey = NoKey
    Chan = {c1}
    Level = {2, 3}
    Option = {"AUTOVOICE", "ONLYREG", "ONLYACCESS", "NONICKCHANGE"}
    NoOp = {bob}
    Limit = 1
    MaxChannels <- MCMaxChannels
SYMMETRY Symmetry
INVARIANTS
    TypeOK
    MembershipAgrees
    OneModePerMember
    RecordsAgree
PROPERTIES
    OperatorByAuthority
    ModesFollowNick
    EmptyOnlyBySelfKick
