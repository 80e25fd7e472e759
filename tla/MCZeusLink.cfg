\* Two users, one of them an iRCop, a nickname with an owner and a free one, a channel
\* with an owner and one without; one command at a time.
SPECIFICATION Spec
CONSTANTS
    Server = {s1, s2}
    User = {u1, u2}
    Oper = {u1}
    Nick = {n1, n2}
    Protected = {n1}
    Channel = {c1, c2}
    Registered = {c2}
    Trusted = {n1}
    MaxCommands = 1
    Nobody = Nobody
    NoNick = NoNick
INVARIANTS TypeOK ServersAgree FailsOnlyApart
PROPERTY CommandsEnd
CHECK_DEADLOCK FALSE
