SPECIFICATION Spec
CONSTANTS
    Conn = {u1, u2}
    Key = {ana, bob}
    NoKey = NoKey
    Chan = {c1}
    Level = {1, 2, 3, 4}
    Option = {"AUTOVOICE"}
    NoOp = {}
    Limit = 1
    MaxChannels <- MCMaxChannels
SYMMETRY FullSymmetry
PROPERTY RefusedRegisterDoesNothing
