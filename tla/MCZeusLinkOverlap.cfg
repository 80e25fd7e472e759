\* As MCZeusLink, with two commands at a time.
SPECIFICATION Spec
CONSTANTS
    Server = {s1, s2}
    User = {u1, u2}
    Oper = {u1}
    Nick = {n1, n2, n3}
    Protected = {n1}
    Channel = {c1, c2}
    Registered = {c2}
    Trusted = {n1}
    MaxCommands = 2
    Nobody = Nobody
    NoNick = NoNick
INVARIANT UsedBySomebody
CHECK_DEADLOCK FALSE
