\* Two channels, a wide and a narrow mask, two Ban objects; masks of up to 4 characters, texts of up to 3.
SPECIFICATION FairSpec
CONSTANTS
    wide = wide
    narrow = narrow
    ana = ana
    eva = eva
    User = {ana, eva}
    Chan = {c1, c2}
    Registered = {c1}
    Oper = {eva}
    Trusted = {eva}
    Mask = {wide, narrow}
    Matches <- MCMatches
    Obj = {o1, o2}
    MaxBans = 1
    MaxFlood = 2
    NoBan = NoBan
    Letter <- MCLetter
    Text <- MCText
    MaxMask = 4
    MaxText = 3
INVARIANTS
    TypeOK
    ListsOwnTheirBans
    ShownAreBanned
    BansMeanTheirMasks
PROPERTY BansExpire
