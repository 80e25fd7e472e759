------------------------- MODULE ZeusChannelsProofs -------------------------
(***************************************************************************)
(* The invariants of ZeusChannels for any number of users, nicknames and   *)
(* channels, any access levels, options and limits.                        *)
(***************************************************************************)
EXTENDS ZeusChannels, TLAPS

\* Two online users never have the same nickname: what NICK keeps by refusing a
\* taken nickname or making its holder leave.
KeysDistinct == \A u, w \in Online : key[u] = key[w] => u = w

IInv == TypeOK /\ MembershipAgrees /\ OneModePerMember /\ RecordsAgree /\ KeysDistinct

\* R is a well-formed assignment of channel modes to the members U.
RoleOf(R, U) ==
    /\ R \in [Chan -> [Conn -> SUBSET Mode]]
    /\ \A c \in Chan, u \in Conn : /\ \A m1, m2 \in R[c][u] : m1 = m2
                                   /\ R[c][u] # {} => u \in U[c]

-----------------------------------------------------------------------------
(* The operators of CheckModes and of leaving. *)

\* CheckModes leaves a user at most one mode, whatever the access is.
LEMMA SettleOne ==
    ASSUME NEW R \in SUBSET Mode, \A m1, m2 \in R : m1 = m2, NEW a
    PROVE  Settle(R, a) \in SUBSET Mode /\ \A m1, m2 \in Settle(R, a) : m1 = m2
<1>1. Judged(R) = R
  BY DEF Judged, Mode
<1>2. Deserved(a) \in SUBSET Mode /\ \A m1, m2 \in Deserved(a) : m1 = m2
  BY DEF Deserved, Mode
<1>3. Settle(R, a) \in {{}, Deserved(a)}
  BY <1>1 DEF Settle
<1> QED BY <1>2, <1>3

\* What CheckModes leaves is within the access: no second run would take a mode away.
LEMMA SettleWithin ==
    ASSUME NEW R \in SUBSET Mode, \A m1, m2 \in R : m1 = m2, NEW a \in 0..5
    PROVE  \A m \in Settle(R, a) : Rank(m) <= a
<1>1. Judged(R) = R
  BY DEF Judged, Mode
<1>2. \A m \in Deserved(a) : Rank(m) <= a
  BY DEF Deserved, Rank
<1> QED BY <1>1, <1>2 DEF Settle

\* CheckModes gives modes to members only and keeps the sets disjoint.
LEMMA CheckModesShape ==
    ASSUME NEW R, NEW V, NEW C, NEW P, RoleOf(R, users')
    PROVE  RoleOf(CheckModes(R, V, C, P), users')
<1> DEFINE S == CheckModes(R, V, C, P)
<1>1. ASSUME NEW c \in Chan, NEW u \in Conn
      PROVE  /\ S[c][u] \in SUBSET Mode
             /\ \A m1, m2 \in S[c][u] : m1 = m2
             /\ S[c][u] # {} => u \in users'[c]
  <2>1. R[c][u] \in SUBSET Mode /\ (\A m1, m2 \in R[c][u] : m1 = m2)
        /\ (R[c][u] # {} => u \in users'[c])
    BY DEF RoleOf
  <2>2. CASE S[c][u] = R[c][u]
    BY <2>1, <2>2
  <2>3. CASE S[c][u] # R[c][u]
    <3>1. u \in users'[c] /\ \E a : S[c][u] = Settle(R[c][u], a)
      BY <2>3 DEF CheckModes
    <3> QED BY <2>1, <3>1, SettleOne
  <2> QED BY <2>2, <2>3
<1>2. S \in [Chan -> [Conn -> SUBSET Mode]]
  <2>1. S = [c \in Chan |-> [u \in Conn |-> S[c][u]]]
    BY DEF CheckModes
  <2> QED BY <1>1, <2>1
<1> QED BY <1>1, <1>2 DEF RoleOf

\* Leaving takes a user out of both sides, and of the maps what has become empty.
LEMMA LeavesShape ==
    ASSUME TypeOK, MembershipAgrees, OneModePerMember,
           NEW V \in SUBSET Conn, NEW C \in SUBSET Chan, Leaves(V, C)
    PROVE  /\ chans' \in [Conn -> SUBSET Chan] /\ users' \in [Chan -> SUBSET Conn]
           /\ live' \subseteq Chan /\ flagR' \subseteq Chan
           /\ \A u \in Conn, c \in Chan : c \in chans'[u] <=> u \in users'[c]
           /\ \A c \in Chan : users'[c] \subseteq users[c] /\ (c \in C => users'[c] \cap V = {})
           /\ \A c \in Chan \ live' : users'[c] = {}
           /\ RoleOf(RoleAfter(V, C), users')
<1>1. chans' \in [Conn -> SUBSET Chan] /\ users' \in [Chan -> SUBSET Conn]
      /\ live' \subseteq Chan /\ flagR' \subseteq Chan
  BY DEF TypeOK, Leaves, UsersWithout, ChansWithout
<1>2. \A c \in Chan, u \in Conn : u \in users'[c] <=> u \in users[c] /\ ~(u \in V /\ c \in C)
  BY DEF TypeOK, MembershipAgrees, Leaves, UsersWithout
<1>3. \A c \in Chan, u \in Conn : c \in chans'[u] <=> c \in chans[u] /\ ~(u \in V /\ c \in C)
  BY DEF TypeOK, Leaves, ChansWithout
<1>4. \A u \in Conn, c \in Chan : c \in chans'[u] <=> u \in users'[c]
  BY <1>2, <1>3 DEF MembershipAgrees
<1>5. \A c \in Chan : users'[c] \subseteq users[c] /\ (c \in C => users'[c] \cap V = {})
  BY <1>1, <1>2 DEF TypeOK
<1>6. \A c \in Chan \ live' : users'[c] = {}
  <2> TAKE c \in Chan \ live'
  <2>1. c \notin live \/ c \in Emptied(V, C)
    BY DEF Leaves
  <2>2. CASE c \notin live
    BY <2>2, <1>5 DEF MembershipAgrees
  <2>3. CASE c \in Emptied(V, C)
    BY <2>3 DEF Emptied, Leaves
  <2> QED BY <2>1, <2>2, <2>3
<1>7. RoleOf(RoleAfter(V, C), users')
  <2>1. ASSUME NEW c \in Chan, NEW u \in Conn
        PROVE  RoleAfter(V, C)[c][u] \in {{}, role[c][u]}
    BY DEF RoleAfter, RoleWithout
  <2>2. ASSUME NEW c \in Chan, NEW u \in Conn, RoleAfter(V, C)[c][u] # {}
        PROVE  u \in users'[c]
    <3>1. role[c][u] # {} /\ ~(u \in V /\ c \in C \cap chans[u])
      BY <2>1, <2>2 DEF RoleAfter, RoleWithout
    <3> QED BY <3>1, <1>2 DEF OneModePerMember, MembershipAgrees
  <2>3. RoleAfter(V, C) \in [Chan -> [Conn -> SUBSET Mode]]
    BY DEF RoleAfter, RoleWithout, TypeOK, Mode
  <2> QED BY <2>1, <2>2, <2>3 DEF RoleOf, OneModePerMember
<1> QED BY <1>1, <1>4, <1>5, <1>6, <1>7

-----------------------------------------------------------------------------
(* The invariant, action by action. *)

LEMMA InitEstablishes == Init => IInv
BY NoKeyAssumption
   DEF Init, IInv, TypeOK, MembershipAgrees, OneModePerMember, RecordsAgree, KeysDistinct,
       Online, Registered, Mode

\* What a handler that edits the roles alone has to show.
LEMMA RoleStep ==
    ASSUME IInv, UNCHANGED <<userVars, dbVars, chans, live, users, flagR>>, RoleOf(role', users')
    PROVE  IInv'
<1>1. TypeOK' /\ OneModePerMember'
  BY DEF RoleOf, IInv, TypeOK, OneModePerMember, userVars, dbVars
<1>2. MembershipAgrees' /\ RecordsAgree' /\ KeysDistinct'
  BY DEF IInv, MembershipAgrees, RecordsAgree, KeysDistinct, Online, Registered, userVars, dbVars
<1> QED BY <1>1, <1>2 DEF IInv

\* The roles the invariant speaks of.
LEMMA RoleNow == IInv => RoleOf(role, users)
BY DEF IInv, TypeOK, OneModePerMember, RoleOf

\* NICK: the ghosts leave, the user takes the nickname and is checked.
LEMMA ChangeNickStep ==
    ASSUME IInv, NEW u \in Conn, NEW k \in Key, NEW isOper \in BOOLEAN, NEW cycles \in BOOLEAN,
           ChangeNick(u, k, isOper, cycles)
    PROVE  IInv'
<1> DEFINE ghosts == Holder(k)
<1>1. ghosts \in SUBSET Conn /\ u \notin ghosts
  BY DEF Holder, ChangeNick
<1>2. /\ key' = [w \in Conn |-> IF w = u THEN k ELSE IF w \in ghosts THEN NoKey ELSE key[w]]
      /\ oper' \subseteq Conn
      /\ ident' = IF k \in nicks THEN (ident \ ghosts) \cup {u} ELSE ident \ {u}
      /\ k \notin nicks => ghosts = {}
      /\ UNCHANGED dbVars
      /\ Leaves(ghosts, Chan)
  BY <1>1 DEF ChangeNick, IInv, TypeOK
<1>3. /\ chans' \in [Conn -> SUBSET Chan] /\ users' \in [Chan -> SUBSET Conn]
      /\ live' \subseteq Chan /\ flagR' \subseteq Chan
      /\ \A w \in Conn, c \in Chan : c \in chans'[w] <=> w \in users'[c]
      /\ \A c \in Chan : users'[c] \subseteq users[c] /\ users'[c] \cap ghosts = {}
      /\ \A c \in Chan \ live' : users'[c] = {}
      /\ RoleOf(RoleAfter(ghosts, Chan), users')
  BY <1>1, <1>2, LeavesShape DEF IInv
<1>4. RoleOf(role', users')
  <2> DEFINE opers == IF isOper THEN oper \cup {u} ELSE oper \ {u}
             once  == CheckModes(RoleAfter(ghosts, Chan), {u}, chans[u], oper)
  <2>1. RoleOf(once, users') /\ RoleOf(CheckModes(once, {u}, chans[u], opers), users')
    BY <1>3, CheckModesShape
  <2>2. role' = once \/ role' = CheckModes(once, {u}, chans[u], opers)
    BY DEF ChangeNick
  <2> QED BY <2>1, <2>2
<1>5. TypeOK' /\ OneModePerMember'
  BY <1>1, <1>2, <1>3, <1>4 DEF IInv, TypeOK, OneModePerMember, RoleOf, dbVars
<1>6. \A w \in Conn : /\ w \in Online' <=> w = u \/ (w \in Online /\ w \notin ghosts)
                      /\ w # u /\ w \notin ghosts => key'[w] = key[w]
                      /\ w \in Online /\ w \notin ghosts => key[w] # k
                      /\ key'[u] = k
  BY <1>1, <1>2, NoKeyAssumption DEF Online, Holder
<1>7. MembershipAgrees'
  BY <1>3, <1>6 DEF IInv, MembershipAgrees, Online
<1>8. KeysDistinct'
  BY <1>6 DEF IInv, KeysDistinct, Online
<1>9. RecordsAgree'
  <2>1. \A w \in ident' : key'[w] \in nicks
    BY <1>1, <1>2, <1>6 DEF IInv, TypeOK, RecordsAgree
  <2> QED BY <1>2, <2>1 DEF IInv, RecordsAgree, Registered, dbVars
<1> QED BY <1>5, <1>7, <1>8, <1>9 DEF IInv

LEMMA QuitStep ==
    ASSUME IInv, NEW u \in Conn, Quit(u)
    PROVE  IInv'
<1>1. /\ chans' \in [Conn -> SUBSET Chan] /\ users' \in [Chan -> SUBSET Conn]
      /\ live' \subseteq Chan /\ flagR' \subseteq Chan
      /\ \A w \in Conn, c \in Chan : c \in chans'[w] <=> w \in users'[c]
      /\ \A c \in Chan : users'[c] \subseteq users[c] /\ users'[c] \cap {u} = {}
      /\ \A c \in Chan \ live' : users'[c] = {}
      /\ RoleOf(role', users')
  <2>1. {u} \in SUBSET Conn /\ Chan \in SUBSET Chan /\ Leaves({u}, Chan)
        /\ role' = RoleAfter({u}, Chan)
    BY DEF Quit
  <2>2. TypeOK /\ MembershipAgrees /\ OneModePerMember
    BY DEF IInv
  <2> QED BY <2>1, <2>2, LeavesShape
<1>2. TypeOK' /\ OneModePerMember'
  BY <1>1 DEF Quit, IInv, TypeOK, OneModePerMember, RoleOf, dbVars
<1>3. MembershipAgrees' /\ KeysDistinct'
  BY <1>1 DEF Quit, IInv, TypeOK, MembershipAgrees, KeysDistinct, Online
<1>4. RecordsAgree'
  BY DEF Quit, IInv, TypeOK, RecordsAgree, Registered, dbVars
<1> QED BY <1>2, <1>3, <1>4 DEF IInv

\* A nickname is deleted from the tables and mode r from whoever holds it.
LEMMA NickDropStep ==
    ASSUME IInv, NEW k \in Key, NickRowsDeleted(k), ident' = ident \ Holder(k),
           UNCHANGED <<key, oper, chanVars>>
    PROVE  IInv'
<1>1. TypeOK'
  BY DEF NickRowsDeleted, IInv, TypeOK, chanVars
<1>2. MembershipAgrees' /\ OneModePerMember' /\ KeysDistinct'
  BY DEF IInv, MembershipAgrees, OneModePerMember, KeysDistinct, Online, chanVars
<1>3. \A w \in ident' : key'[w] \in nicks'
  BY DEF NickRowsDeleted, IInv, TypeOK, RecordsAgree, Holder
<1>4. \A c \in Chan : owner'[c] # NoKey => owner'[c] \in nicks' /\ c \in modeRow'
  BY DEF NickRowsDeleted, IInv, TypeOK, RecordsAgree, Registered
<1>5. \A c \in Chan, j \in Key : access'[c][j] # 0 => j \in nicks'
  BY DEF NickRowsDeleted, IInv, TypeOK, RecordsAgree
<1>6. RecordsAgree'
  BY <1>3, <1>4, <1>5 DEF NickRowsDeleted, IInv, RecordsAgree, Registered
<1> QED BY <1>1, <1>2, <1>6 DEF IInv

\* The commands of users on themselves and on nicknames.
LEMMA UserStep == ASSUME IInv, UserNext PROVE IInv'
<1>1. ASSUME NEW u \in Conn, Recase(u) \/ Cycle(u) PROVE IInv'
  <2>1. Recheck(u)
    BY <1>1 DEF Recase, Cycle
  <2>2. RoleOf(role, users')
    BY <2>1, RoleNow DEF Recheck
  <2> QED BY <2>1, <2>2, CheckModesShape, RoleStep DEF Recheck
<1>2. ASSUME NEW u \in Conn, OperChange(u) PROVE IInv'
  BY <1>2 DEF OperChange, IInv, TypeOK, MembershipAgrees, OneModePerMember, RecordsAgree,
              KeysDistinct, Online, Registered, chanVars, dbVars
<1>3. ASSUME NEW u \in Conn, NsRegister(u) PROVE IInv'
  <2>1. TypeOK' /\ MembershipAgrees' /\ OneModePerMember' /\ KeysDistinct'
    BY <1>3 DEF NsRegister, IInv, TypeOK, MembershipAgrees, OneModePerMember, KeysDistinct,
                Online, chanVars
  <2>2. RecordsAgree'
    BY <1>3 DEF NsRegister, IInv, TypeOK, RecordsAgree, Registered, Online, chanVars
  <2> QED BY <2>1, <2>2 DEF IInv
<1>4. ASSUME NEW u \in Conn, NsDrop(u) PROVE IInv'
  <2>1. key[u] \in Key /\ ident \ {u} = ident \ Holder(key[u])
    BY <1>4 DEF NsDrop, IInv, TypeOK, KeysDistinct, Online, Holder
  <2> QED BY <1>4, <2>1, NickDropStep DEF NsDrop
<1>5. ASSUME NEW u \in Conn, NEW k \in Key, OsDropNick(u, k) PROVE IInv'
  BY <1>5, NickDropStep DEF OsDropNick
<1> QED BY <1>1, <1>2, <1>3, <1>4, <1>5, QuitStep, ChangeNickStep DEF UserNext

\* Channel::join, of a user or of the target of an operator.
LEMMA EnterStep ==
    ASSUME IInv, NEW u \in Online, NEW c \in Chan, Enter(u, c)
    PROVE  IInv'
<1>1. u \in Conn
  BY DEF Online
<1>2. TypeOK' /\ RoleOf(role', users')
  <2>1. RoleOf(role, users')
    BY <1>1 DEF Enter, IInv, TypeOK, OneModePerMember, RoleOf
  <2>2. RoleOf([role EXCEPT ![c][u] = @ \cup {"o"}], users')
    <3>1. role[c][u] = {} /\ role[c] \in [Conn -> SUBSET Mode]
      BY <1>1 DEF Enter, IInv, TypeOK, OneModePerMember
    <3>2. u \in users'[c]
      BY DEF Enter, IInv, TypeOK
    <3> DEFINE R == [role EXCEPT ![c][u] = @ \cup {"o"}]
    <3>3. \A d \in Chan, w \in Conn : R[d][w] = IF d = c /\ w = u THEN {"o"} ELSE role[d][w]
      BY <1>1, <3>1 DEF IInv, TypeOK
    <3>4. R \in [Chan -> [Conn -> SUBSET Mode]]
      BY <1>1, <3>1 DEF IInv, TypeOK, Mode
    <3> HIDE DEF R
    <3>5. \A d \in Chan, w \in Conn : /\ \A m1, m2 \in R[d][w] : m1 = m2
                                      /\ R[d][w] # {} => w \in users'[d]
      BY <2>1, <3>2, <3>3 DEF RoleOf
    <3>6. RoleOf(R, users')
      BY <3>4, <3>5 DEF RoleOf
    <3> QED BY <3>6 DEF R
  <2>3. RoleOf(role', users')
    BY <2>1, <2>2, CheckModesShape DEF Enter
  <2>4. role' \in [Chan -> [Conn -> SUBSET Mode]]
    BY <2>3 DEF RoleOf
  <2>5. TypeOK'
    BY ZenonT(60), <1>1, <2>4 DEF Enter, IInv, TypeOK, userVars, dbVars
  <2> QED BY <2>3, <2>5
<1>3. OneModePerMember'
  BY <1>2 DEF RoleOf, OneModePerMember
<1>4. MembershipAgrees'
  BY <1>1 DEF Enter, IInv, TypeOK, MembershipAgrees, Online, userVars
<1>5. RecordsAgree' /\ KeysDistinct'
  BY DEF Enter, IInv, RecordsAgree, KeysDistinct, Registered, Online, userVars, dbVars
<1> QED BY <1>2, <1>3, <1>4, <1>5 DEF IInv

LEMMA PartStep ==
    ASSUME IInv, NEW u \in Conn, NEW c \in Chan, Part(u, c)
    PROVE  IInv'
<1>1. /\ chans' \in [Conn -> SUBSET Chan] /\ users' \in [Chan -> SUBSET Conn]
      /\ live' \subseteq Chan /\ flagR' \subseteq Chan
      /\ \A w \in Conn, d \in Chan : d \in chans'[w] <=> w \in users'[d]
      /\ \A d \in Chan : users'[d] \subseteq users[d]
      /\ \A d \in Chan \ live' : users'[d] = {}
      /\ RoleOf(role', users')
  <2>1. {u} \in SUBSET Conn /\ {c} \in SUBSET Chan /\ Leaves({u}, {c})
        /\ role' = RoleAfter({u}, {c})
    BY DEF Part
  <2>2. TypeOK /\ MembershipAgrees /\ OneModePerMember
    BY DEF IInv
  <2> QED BY <2>1, <2>2, LeavesShape
<1>2. TypeOK' /\ OneModePerMember'
  BY <1>1 DEF Part, IInv, TypeOK, OneModePerMember, RoleOf, userVars, dbVars
<1>3. MembershipAgrees'
  BY <1>1 DEF Part, IInv, MembershipAgrees, Online, userVars
<1>4. RecordsAgree' /\ KeysDistinct'
  BY DEF Part, IInv, RecordsAgree, KeysDistinct, Registered, Online, userVars, dbVars
<1> QED BY <1>2, <1>3, <1>4 DEF IInv

LEMMA KickStep ==
    ASSUME IInv, NEW u \in Conn, NEW t \in Conn, NEW c \in Chan, Kick(u, t, c)
    PROVE  IInv'
<1>1. TypeOK'
  BY DEF Kick, IInv, TypeOK, userVars, dbVars
<1>2. MembershipAgrees'
  BY DEF Kick, IInv, TypeOK, MembershipAgrees, Online, userVars
<1>3. OneModePerMember'
  BY DEF Kick, IInv, TypeOK, OneModePerMember
<1>4. RecordsAgree' /\ KeysDistinct'
  BY DEF Kick, IInv, RecordsAgree, KeysDistinct, Registered, Online, userVars, dbVars
<1> QED BY <1>1, <1>2, <1>3, <1>4 DEF IInv

\* One member's modes become R: what MODE and CS OP do.
LEMMA ModeStep ==
    ASSUME IInv, NEW t \in Conn, NEW c \in Chan, NEW R \in SUBSET Mode,
           \A m1, m2 \in R : m1 = m2, R # {} => t \in users[c],
           role' = [role EXCEPT ![c][t] = R],
           UNCHANGED <<userVars, dbVars, chans, live, users, flagR>>
    PROVE  IInv'
<1>1. RoleOf(role', users')
  BY DEF IInv, TypeOK, OneModePerMember, RoleOf
<1> QED BY <1>1, RoleStep

\* The commands on channels.
LEMMA ChannelStep == ASSUME IInv, ChannelNext PROVE IInv'
<1>1. ASSUME NEW u \in Conn, NEW c \in Chan, Join(u, c) PROVE IInv'
  BY <1>1, EnterStep DEF Join
<1>2. ASSUME NEW u \in Conn, NEW t \in Conn, NEW c \in Chan, Sajoin(u, t, c) PROVE IInv'
  BY <1>2, EnterStep DEF Sajoin
<1>3. ASSUME NEW u \in Conn, NEW t \in Conn, NEW c \in Chan, Sapart(u, t, c) PROVE IInv'
  BY <1>3, PartStep DEF Sapart
<1>4. ASSUME NEW u \in Conn, NEW t \in Conn, NEW c \in Chan, NEW m \in Mode, ModeGive(u, t, c, m)
      PROVE  IInv'
  BY <1>4, ModeStep DEF ModeGive
<1>5. ASSUME NEW u \in Conn, NEW t \in Conn, NEW c \in Chan, NEW m \in Mode, ModeTake(u, t, c, m)
      PROVE  IInv'
  <2> DEFINE R == role[c][t] \ {m}
  <2>1. R \in SUBSET Mode /\ (\A m1, m2 \in R : m1 = m2) /\ (R # {} => t \in users[c])
    BY DEF IInv, TypeOK, OneModePerMember
  <2>2. role' = [role EXCEPT ![c][t] = R]
    BY <1>5 DEF ModeTake
  <2> QED BY <1>5, <2>1, <2>2, ModeStep DEF ModeTake
<1> QED BY <1>1, <1>2, <1>3, <1>4, <1>5, PartStep, KickStep DEF ChannelNext

\* The commands of ChanServ.
LEMMA ChanServStep == ASSUME IInv, ChanServNext PROVE IInv'
<1>1. ASSUME NEW u \in Conn, NEW c \in Chan, CsRegister(u, c) PROVE IInv'
  <2>1. key[u] \in Key /\ key[u] \in nicks /\ key[u] # NoKey
    BY <1>1 DEF CsRegister, IInv, TypeOK, RecordsAgree, Online
  <2>2. TypeOK' /\ MembershipAgrees' /\ OneModePerMember' /\ KeysDistinct'
    BY <1>1, <2>1 DEF CsRegister, IInv, TypeOK, MembershipAgrees, OneModePerMember, KeysDistinct,
                      Online, userVars
  <2>3. RecordsAgree'
    BY <1>1, <2>1 DEF CsRegister, IInv, TypeOK, RecordsAgree, Registered, userVars
  <2> QED BY <2>2, <2>3 DEF IInv
<1>2. ASSUME NEW c \in Chan, ChannelRowsDeleted(c),
             \/ UNCHANGED <<modeRow, opts>>
             \/ modeRow' = modeRow \ {c} /\ opts' = [opts EXCEPT ![c] = {}]
      PROVE  IInv'
  <2>1. TypeOK'
    BY <1>2 DEF ChannelRowsDeleted, IInv, TypeOK, userVars
  <2>2. MembershipAgrees' /\ OneModePerMember' /\ KeysDistinct'
    BY <1>2 DEF ChannelRowsDeleted, IInv, MembershipAgrees, OneModePerMember, KeysDistinct,
                Online, userVars
  <2>3. RecordsAgree'
    <3>1. \A d \in Chan : Registered(d)' => owner'[d] \in nicks' /\ d \in modeRow'
      BY <1>2 DEF ChannelRowsDeleted, IInv, TypeOK, RecordsAgree, Registered
    <3>2. \A d \in Chan, k \in Key : access'[d][k] # 0 => k \in nicks'
      BY <1>2 DEF ChannelRowsDeleted, IInv, TypeOK, RecordsAgree
    <3>3. /\ \A u \in ident' : key'[u] \in nicks'
          /\ \A d \in Chan \ modeRow' : opts'[d] = {}
      BY <1>2 DEF ChannelRowsDeleted, IInv, TypeOK, RecordsAgree, userVars
    <3> QED BY <3>1, <3>2, <3>3 DEF RecordsAgree
  <2> QED BY <2>1, <2>2, <2>3 DEF IInv
<1>3. ASSUME NEW u \in Conn, NEW c \in Chan, NEW k \in Key, NEW l \in Level,
             CsAccessAdd(u, c, k, l) \/ CsAccessDel(u, c, k, l)
      PROVE  IInv'
  <2>1. access' = access \/ access' = [access EXCEPT ![c][k] = 0]
        \/ (k \in nicks /\ access' = [access EXCEPT ![c][k] = l])
    BY <1>3 DEF CsAccessAdd, CsAccessDel
  <2>2. RoleOf(role', users')
    <3>1. RoleOf(role, users')
      BY <1>3, RoleNow DEF CsAccessAdd, CsAccessDel
    <3> QED BY <1>3, <3>1, CheckModesShape DEF CsAccessAdd, CsAccessDel
  <2>3. UNCHANGED <<userVars, chans, live, users, flagR, nicks, owner, modeRow, opts>>
    BY <1>3 DEF CsAccessAdd, CsAccessDel
  <2>4. OneModePerMember' /\ role' \in [Chan -> [Conn -> SUBSET Mode]]
    BY <2>2 DEF OneModePerMember, RoleOf
  <2>5. /\ access' \in [Chan -> [Key -> {0} \cup Level]]
        /\ \A d \in Chan, j \in Key : access'[d][j] # 0 => access[d][j] # 0 \/ j \in nicks
    <3>1. access \in [Chan -> [Key -> {0} \cup Level]]
      BY DEF IInv, TypeOK
    <3>2. CASE access' = access
      BY <3>1, <3>2
    <3>3. CASE access' = [access EXCEPT ![c][k] = 0]
      BY <3>1, <3>3
    <3>4. CASE k \in nicks /\ access' = [access EXCEPT ![c][k] = l]
      BY <3>1, <3>4
    <3> QED BY <2>1, <3>2, <3>3, <3>4
  <2>6. TypeOK'
    BY <2>3, <2>4, <2>5 DEF IInv, TypeOK, userVars
  <2>7. MembershipAgrees' /\ KeysDistinct'
    BY <2>3 DEF IInv, MembershipAgrees, KeysDistinct, Online, userVars
  <2>8. RecordsAgree'
    BY <2>3, <2>5 DEF IInv, RecordsAgree, Registered, userVars
  <2> QED BY <2>4, <2>6, <2>7, <2>8 DEF IInv
<1>4. ASSUME NEW u \in Conn, NEW t \in Conn, NEW c \in Chan, NEW m \in Mode,
             CsGive(u, t, c, m) \/ CsTake(u, t, c, m)
      PROVE  IInv'
  <2>1. role[c][t] \in SUBSET Mode /\ (\A m1, m2 \in role[c][t] : m1 = m2)
        /\ (role[c][t] # {} => t \in users[c])
    BY DEF IInv, TypeOK, OneModePerMember
  <2>2. Judged(role[c][t]) = role[c][t]
    BY <2>1 DEF Judged, Mode
  <2>3. t \in users[c] /\ (role' = [role EXCEPT ![c][t] = {m}] \/ role' = [role EXCEPT ![c][t] = {}])
    <3>1. CASE CsGive(u, t, c, m)
      BY <2>1, <2>2, <3>1 DEF CsGive, IInv, TypeOK
    <3>2. CASE CsTake(u, t, c, m)
      <4>1. role[c][t] = {m}
        BY <2>1, <2>2, <3>2 DEF CsTake
      <4> QED BY <2>1, <3>2, <4>1 DEF CsTake, IInv, TypeOK
    <3> QED BY <1>4, <3>1, <3>2
  <2>4. UNCHANGED <<userVars, dbVars, chans, live, users, flagR>>
    BY <1>4 DEF CsGive, CsTake
  <2>5. /\ {m} \in SUBSET Mode /\ (\A m1, m2 \in {m} : m1 = m2)
        /\ {} \in SUBSET Mode /\ (\A m1, m2 \in {} : m1 = m2)
    OBVIOUS
  <2>6. CASE role' = [role EXCEPT ![c][t] = {m}]
    BY <2>3, <2>4, <2>5, <2>6, ModeStep
  <2>7. CASE role' = [role EXCEPT ![c][t] = {}]
    BY <2>3, <2>4, <2>5, <2>7, ModeStep
  <2> QED BY <2>3, <2>6, <2>7
<1>5. ASSUME NEW u \in Conn, NEW c \in Chan, NEW k \in Key, CsTransfer(u, c, k) PROVE IInv'
  <2>1. TypeOK' /\ MembershipAgrees' /\ OneModePerMember' /\ KeysDistinct'
    BY <1>5 DEF CsTransfer, IInv, TypeOK, MembershipAgrees, OneModePerMember, KeysDistinct,
                Online, userVars, chanVars
  <2>2. RecordsAgree'
    BY <1>5 DEF CsTransfer, Commands, IInv, TypeOK, RecordsAgree, Registered, userVars
  <2> QED BY <2>1, <2>2 DEF IInv
<1>6. ASSUME NEW u \in Conn, NEW c \in Chan, NEW p \in Option, CsMode(u, c, p) PROVE IInv'
  <2>1. TypeOK' /\ MembershipAgrees' /\ OneModePerMember' /\ KeysDistinct'
    BY <1>6 DEF CsMode, IInv, TypeOK, MembershipAgrees, OneModePerMember, KeysDistinct,
                Online, userVars, chanVars
  <2>2. RecordsAgree'
    BY <1>6 DEF CsMode, IInv, TypeOK, RecordsAgree, Registered, userVars
  <2> QED BY <2>1, <2>2 DEF IInv
<1>7. ASSUME NEW u \in Conn, NEW c \in Chan, CsDrop(u, c) \/ OsDropChannel(u, c) PROVE IInv'
  BY <1>2, <1>7 DEF CsDrop, OsDropChannel
<1> QED BY <1>1, <1>3, <1>4, <1>5, <1>6, <1>7 DEF ChanServNext

\* IInv is inductive.
LEMMA StepPreserves == IInv /\ [Next]_vars => IInv'
<1> SUFFICES ASSUME IInv, [Next]_vars PROVE IInv'
  OBVIOUS
<1>1. CASE UserNext BY <1>1, UserStep
<1>2. CASE ChannelNext BY <1>2, ChannelStep
<1>3. CASE ChanServNext BY <1>3, ChanServStep
<1>4. CASE UNCHANGED vars
  BY <1>4 DEF vars, userVars, chanVars, dbVars, IInv, TypeOK, MembershipAgrees, OneModePerMember,
              RecordsAgree, KeysDistinct, Online, Registered
<1> QED BY <1>1, <1>2, <1>3, <1>4 DEF Next

LEMMA Invariance == Spec => []IInv
BY InitEstablishes, StepPreserves, PTL DEF Spec

-----------------------------------------------------------------------------
(* Modes and nicknames. *)

\* What CheckModes compares with grows with the IRC operators it sees.
LEMMA StandingGrows ==
    ASSUME NEW row \in 0..4, NEW founder, NEW p, NEW q, p => q, NEW options
    PROVE  /\ Standing(Access(row, founder, p), options) \in 0..5
           /\ Standing(Access(row, founder, q), options) \in 0..5
           /\ Standing(Access(row, founder, p), options) <= Standing(Access(row, founder, q), options)
<1>1. /\ Access(row, founder, p) \in 0..5 /\ Access(row, founder, q) \in 0..5
      /\ Access(row, founder, p) <= Access(row, founder, q)
  BY DEF Access
<1>2. \A a \in 0..5 : Standing(a, options) = (IF "AUTOVOICE" \in options /\ a < 1 THEN 1 ELSE a)
  BY DEF Standing
<1> QED BY <1>1, <1>2

\* One run of CheckModes with the operators P leaves a checked user within his
\* standing, and within that of any wider set of operators Q.
LEMMA CheckedWithin ==
    ASSUME IInv, IInv', NEW R, NEW P, NEW Q, NEW u \in Conn, NEW C, NEW c \in C \cap Chan,
           RoleOf(R, users'), u \in users'[c], key'[u] \in Key \ NoOp, u \in P => u \in Q
    PROVE  \A m \in CheckModes(R, {u}, C, P)[c][u] :
              Rank(m) <= Standing(Access(access'[c][key'[u]], owner'[c] = key'[u], u \in Q), opts'[c])
<1> DEFINE row == access'[c][key'[u]]
           a   == Standing(Access(row, owner'[c] = key'[u], u \in P), opts'[c])
           b   == Standing(Access(row, owner'[c] = key'[u], u \in Q), opts'[c])
<1>1. row \in 0..4
  <2>1. access' \in [Chan -> [Key -> {0} \cup Level]]
    BY DEF IInv, TypeOK
  <2>2. row \in {0} \cup Level
    BY <2>1
  <2>3. \A x \in Level : x \in 0..4
    BY LevelAssumption
  <2> QED BY <2>2, <2>3
<1>2. a \in 0..5 /\ b \in 0..5 /\ a <= b
  BY <1>1, StandingGrows
<1>3. CheckModes(R, {u}, C, P)[c][u] = Settle(R[c][u], a)
  BY DEF CheckModes
<1>4. R[c][u] \in SUBSET Mode /\ \A m1, m2 \in R[c][u] : m1 = m2
  BY DEF RoleOf
<1>5. \A m \in Settle(R[c][u], a) : m \in Mode /\ Rank(m) <= a
  <2>1. Settle(R[c][u], a) \in SUBSET Mode
    BY <1>4, SettleOne
  <2>2. \A m \in Settle(R[c][u], a) : Rank(m) <= a
    BY <1>2, <1>4, SettleWithin
  <2> QED BY <2>1, <2>2
<1>6. \A m \in Mode : Rank(m) \in Nat
  BY DEF Mode, Rank
<1> QED BY <1>2, <1>3, <1>5, <1>6

\* A user who takes a nickname other than his own does it with NICK.
LEMMA OnlyNickRenames ==
    ASSUME [Next]_vars, NEW u \in Conn, key'[u] \notin {key[u], NoKey}, IInv
    PROVE  \E isOper, cycles \in BOOLEAN : ChangeNick(u, key'[u], isOper, cycles)
<1>1. CASE UserNext
  <2>1. PICK v \in Conn :
           \/ Recase(v) \/ Cycle(v) \/ OperChange(v) \/ Quit(v) \/ NsRegister(v) \/ NsDrop(v)
           \/ \E k \in Key : \/ OsDropNick(v, k)
                            \/ \E isOper, cycles \in BOOLEAN : ChangeNick(v, k, isOper, cycles)
    BY <1>1 DEF UserNext
  <2>2. \E k \in Key : \E isOper, cycles \in BOOLEAN : ChangeNick(v, k, isOper, cycles)
    BY <2>1 DEF Recase, Cycle, Recheck, OperChange, Quit, NsRegister, NsDrop, OsDropNick,
                userVars, IInv, TypeOK
  <2>3. PICK k \in Key, isOper \in BOOLEAN, cycles \in BOOLEAN : ChangeNick(v, k, isOper, cycles)
    BY <2>2
  <2>4. u = v /\ k = key'[u]
    BY <2>3 DEF ChangeNick
  <2> QED BY <2>3, <2>4
<1>2. CASE ChannelNext
  <2>1. ASSUME NEW v \in Conn, NEW c \in Chan, Enter(v, c) \/ Part(v, c) PROVE key' = key
    BY <2>1 DEF Enter, Part, userVars
  <2>2. ASSUME NEW v \in Conn, NEW c \in Chan, NEW t \in Conn, NEW m \in Mode,
               Kick(v, t, c) \/ ModeGive(v, t, c, m) \/ ModeTake(v, t, c, m)
        PROVE  key' = key
    BY <2>2 DEF Kick, ModeGive, ModeTake, userVars
  <2> QED BY <1>2, <2>1, <2>2 DEF ChannelNext, Join, Sajoin, Sapart, Mode
<1>3. CASE ChanServNext
  <2>1. ASSUME NEW v \in Conn, NEW c \in Chan,
               CsRegister(v, c) \/ CsDrop(v, c) \/ OsDropChannel(v, c)
        PROVE  key' = key
    BY <2>1 DEF CsRegister, CsDrop, OsDropChannel, ChannelRowsDeleted, userVars
  <2>2. ASSUME NEW v \in Conn, NEW c \in Chan, NEW t \in Conn, NEW m \in Mode,
               CsGive(v, t, c, m) \/ CsTake(v, t, c, m)
        PROVE  key' = key
    BY <2>2 DEF CsGive, CsTake, userVars
  <2>3. ASSUME NEW v \in Conn, NEW c \in Chan, NEW k \in Key, NEW l \in Level,
               CsAccessAdd(v, c, k, l) \/ CsAccessDel(v, c, k, l)
        PROVE  key' = key
    BY <2>3 DEF CsAccessAdd, CsAccessDel, userVars
  <2>4. ASSUME NEW v \in Conn, NEW c \in Chan, NEW k \in Key, CsTransfer(v, c, k)
        PROVE  key' = key
    BY <2>4 DEF CsTransfer, userVars
  <2>5. ASSUME NEW v \in Conn, NEW c \in Chan, NEW p \in Option, CsMode(v, c, p)
        PROVE  key' = key
    BY <2>5 DEF CsMode, userVars
  <2> QED BY <1>3, <2>1, <2>2, <2>3, <2>4, <2>5 DEF ChanServNext
<1>4. CASE UNCHANGED vars
  BY <1>4 DEF vars, userVars
<1> QED BY <1>1, <1>2, <1>3, <1>4 DEF Next

-----------------------------------------------------------------------------
(* Who becomes operator. *)

\* CheckModes gives @ for access 3 and more only; AUTOVOICE does not reach that.
LEMMA SettleOperator ==
    ASSUME NEW R \in SUBSET Mode, \A m1, m2 \in R : m1 = m2, NEW a \in 0..5, NEW options,
           "o" \in Settle(R, Standing(a, options)), "o" \notin R
    PROVE  a >= 3
<1>1. Judged(R) = R
  BY DEF Judged, Mode
<1>2. "o" \in Deserved(Standing(a, options))
  BY <1>1 DEF Settle
<1>3. Standing(a, options) \in 0..5 /\ Standing(a, options) >= 3
  BY <1>2 DEF Deserved, Standing
<1> QED BY <1>3 DEF Standing

\* Who gets @ from CheckModes has the access for it.
LEMMA CheckedOperator ==
    ASSUME IInv', NEW R, NEW V, NEW C, NEW P, NEW Q, NEW c \in Chan, NEW u \in Conn,
           RoleOf(R, users'), u \in P => u \in Q,
           "o" \in CheckModes(R, V, C, P)[c][u], "o" \notin R[c][u]
    PROVE  Access(access'[c][key'[u]], owner'[c] = key'[u], u \in Q) >= 3
<1> DEFINE row == access'[c][key'[u]]
           a   == Access(row, owner'[c] = key'[u], u \in P)
           b   == Access(row, owner'[c] = key'[u], u \in Q)
<1>1. u \in users'[c] /\ "o" \in Settle(R[c][u], Standing(a, opts'[c]))
  BY DEF CheckModes
<1>2. key'[u] \in Key
  BY <1>1 DEF IInv, TypeOK, MembershipAgrees, Online
<1>3. row \in 0..4
  <2>1. row \in {0} \cup Level
    BY <1>2 DEF IInv, TypeOK
  <2>2. \A x \in Level : x \in 0..4
    BY LevelAssumption
  <2> QED BY <2>1, <2>2
<1>4. a \in 0..5 /\ b \in 0..5 /\ a <= b
  BY <1>3 DEF Access
<1>5. R[c][u] \in SUBSET Mode /\ \A m1, m2 \in R[c][u] : m1 = m2
  BY DEF RoleOf
<1>6. a >= 3
  BY <1>1, <1>4, <1>5, SettleOperator
<1> QED BY <1>4, <1>6

\* What OperatorByAuthority asks of one member.
Authorised(c, u) ==
    \/ c \notin live /\ ~Registered(c)
    \/ Access(access'[c][key'[u]], owner'[c] = key'[u], u \in oper \cup oper') >= 3
    \/ \E w \in Online : w \in oper \/ "o" \in role[c][w] \/ AccessOf(w, c) >= 3

\* NICK checks the user once or twice; ghosts lose what they had.
LEMMA NickAuthorised ==
    ASSUME IInv, IInv', NEW v \in Conn, NEW k \in Key, NEW isOper \in BOOLEAN,
           NEW cycles \in BOOLEAN, ChangeNick(v, k, isOper, cycles),
           NEW c \in Chan, NEW u \in Conn, "o" \in role'[c][u], "o" \notin role[c][u]
    PROVE  Authorised(c, u)
<1> DEFINE ghosts == Holder(k)
           opers  == IF isOper THEN oper \cup {v} ELSE oper \ {v}
           start  == RoleAfter(ghosts, Chan)
           once   == CheckModes(start, {v}, chans[v], oper)
           Q      == oper \cup oper'
<1>1. RoleOf(start, users')
  <2>1. ghosts \in SUBSET Conn /\ Chan \in SUBSET Chan /\ Leaves(ghosts, Chan)
    BY DEF ChangeNick, Holder
  <2> QED BY <2>1, LeavesShape DEF IInv
<1>2. RoleOf(once, users')
  BY <1>1, CheckModesShape
<1>3. "o" \notin start[c][u]
  BY DEF RoleAfter, RoleWithout
<1>4. (u \in oper => u \in Q) /\ (u \in opers => u \in Q)
  BY DEF ChangeNick, Holder
<1>5. role' = once \/ role' = CheckModes(once, {v}, chans[v], opers)
  BY DEF ChangeNick
<1> HIDE DEF start, Q, opers
<1>6. CASE "o" \in once[c][u]
  <2>1. Access(access'[c][key'[u]], owner'[c] = key'[u], u \in Q) >= 3
    BY <1>1, <1>3, <1>4, <1>6, CheckedOperator, ZenonT(60)
  <2> QED BY <2>1 DEF Authorised, Q
<1>7. CASE "o" \notin once[c][u]
  <2> HIDE DEF once
  <2>1. "o" \in CheckModes(once, {v}, chans[v], opers)[c][u]
    BY <1>5, <1>7
  <2>2. Access(access'[c][key'[u]], owner'[c] = key'[u], u \in Q) >= 3
    BY <1>2, <1>4, <1>7, <2>1, CheckedOperator
  <2> QED BY <2>2 DEF Authorised, Q
<1> QED BY <1>6, <1>7

\* The other runs of CheckModes see the operators of the moment.
LEMMA CheckAuthorised ==
    ASSUME IInv, IInv', NEW V, NEW C, NEW c \in Chan, NEW u \in Conn,
           RoleOf(role, users'), role' = CheckModes(role, V, C, oper),
           "o" \in role'[c][u], "o" \notin role[c][u]
    PROVE  Authorised(c, u)
<1>1. u \in oper => u \in oper \cup oper'
  OBVIOUS
<1>2. Access(access'[c][key'[u]], owner'[c] = key'[u], u \in oper \cup oper') >= 3
  BY <1>1, CheckedOperator
<1> QED BY <1>2 DEF Authorised

LEMMA UserAuthorised ==
    ASSUME IInv, IInv', UserNext, NEW c \in Chan, NEW u \in Conn,
           "o" \in role'[c][u], "o" \notin role[c][u]
    PROVE  Authorised(c, u)
<1>1. PICK v \in Conn :
         \/ Recase(v) \/ Cycle(v) \/ OperChange(v) \/ Quit(v) \/ NsRegister(v) \/ NsDrop(v)
         \/ \E k \in Key : \/ OsDropNick(v, k)
                          \/ \E isOper, cycles \in BOOLEAN : ChangeNick(v, k, isOper, cycles)
  BY DEF UserNext
<1>2. CASE Recase(v) \/ Cycle(v)
  <2>1. Recheck(v)
    BY <1>2 DEF Recase, Cycle
  <2>2. RoleOf(role, users') /\ role' = CheckModes(role, {v}, chans[v], oper)
    BY <2>1, RoleNow DEF Recheck
  <2> QED BY <2>2, CheckAuthorised
<1>3. CASE OperChange(v) \/ NsRegister(v) \/ NsDrop(v) \/ \E k \in Key : OsDropNick(v, k)
  BY <1>3 DEF OperChange, NsRegister, NsDrop, OsDropNick, chanVars
<1>4. CASE Quit(v)
  BY <1>4 DEF Quit, RoleAfter, RoleWithout
<1>5. CASE \E k \in Key : \E isOper, cycles \in BOOLEAN : ChangeNick(v, k, isOper, cycles)
  BY <1>5, NickAuthorised
<1> QED BY <1>1, <1>2, <1>3, <1>4, <1>5

LEMMA EnterAuthorised ==
    ASSUME IInv, IInv', NEW v \in Online, NEW d \in Chan, Enter(v, d),
           NEW c \in Chan, NEW u \in Conn, "o" \in role'[c][u], "o" \notin role[c][u]
    PROVE  Authorised(c, u)
<1>1. v \in Conn
  BY DEF Online
<1>2. RoleOf(role, users')
  BY <1>1 DEF Enter, IInv, TypeOK, OneModePerMember, RoleOf
<1>3. CASE Registered(d)
  BY <1>2, <1>3, CheckAuthorised DEF Enter
<1>4. CASE ~Registered(d)
  <2>1. d \notin live /\ role' = [role EXCEPT ![d][v] = @ \cup {"o"}]
    BY <1>4 DEF Enter
  <2>2. c = d
    BY <2>1 DEF IInv, TypeOK
  <2> QED BY <1>4, <2>1, <2>2 DEF Authorised
<1> QED BY <1>3, <1>4

LEMMA ChannelAuthorised ==
    ASSUME IInv, IInv', ChannelNext, NEW c \in Chan, NEW u \in Conn,
           "o" \in role'[c][u], "o" \notin role[c][u]
    PROVE  Authorised(c, u)
<1>1. PICK v \in Conn, d \in Chan :
         \/ Join(v, d) \/ Part(v, d)
         \/ \E t \in Conn : \/ Sajoin(v, t, d) \/ Sapart(v, t, d) \/ Kick(v, t, d)
                            \/ \E m \in Mode : ModeGive(v, t, d, m) \/ ModeTake(v, t, d, m)
  BY DEF ChannelNext
<1>2. CASE Join(v, d) \/ \E t \in Conn : Sajoin(v, t, d)
  BY <1>2, EnterAuthorised DEF Join, Sajoin
<1>3. CASE Part(v, d) \/ \E t \in Conn : Sapart(v, t, d)
  BY <1>3, ZenonT(60) DEF Part, Sapart, RoleAfter, RoleWithout
<1>4. ASSUME NEW t \in Conn, NEW m \in Mode, Kick(v, t, d) \/ ModeTake(v, t, d, m)
      PROVE  role'[c][u] \subseteq role[c][u]
  <2>1. role' = [role EXCEPT ![d][t] = {}] \/ role' = [role EXCEPT ![d][t] = @ \ {m}]
    BY <1>4 DEF Kick, ModeTake
  <2>2. role \in [Chan -> [Conn -> SUBSET Mode]]
    BY DEF IInv, TypeOK
  <2>3. CASE role' = [role EXCEPT ![d][t] = {}]
    BY <2>2, <2>3
  <2>4. CASE role' = [role EXCEPT ![d][t] = @ \ {m}]
    BY <2>2, <2>4
  <2> QED BY <2>1, <2>3, <2>4
<1>5. ASSUME NEW t \in Conn, NEW m \in Mode, ModeGive(v, t, d, m) PROVE Authorised(c, u)
  <2>1. d = c /\ m = "o"
    BY <1>5 DEF ModeGive, IInv, TypeOK
  <2>2. v \in Online /\ (v \in oper \/ "o" \in role[c][v])
    BY <1>5, <2>1 DEF ModeGive, MaySpeakModes
  <2> QED BY <2>2 DEF Authorised
<1> QED BY <1>1, <1>2, <1>3, <1>4, <1>5 DEF Mode

LEMMA ChanServAuthorised ==
    ASSUME IInv, IInv', ChanServNext, NEW c \in Chan, NEW u \in Conn,
           "o" \in role'[c][u], "o" \notin role[c][u]
    PROVE  Authorised(c, u)
<1>1. PICK v \in Conn, d \in Chan :
         \/ CsRegister(v, d) \/ CsDrop(v, d) \/ OsDropChannel(v, d)
         \/ \E t \in Conn, m \in Mode : CsGive(v, t, d, m) \/ CsTake(v, t, d, m)
         \/ \E k \in Key, l \in Level : CsAccessAdd(v, d, k, l) \/ CsAccessDel(v, d, k, l)
         \/ \E k \in Key : CsTransfer(v, d, k)
         \/ \E p \in Option : CsMode(v, d, p)
  BY DEF ChanServNext
<1>2. CASE \/ CsRegister(v, d) \/ CsDrop(v, d) \/ OsDropChannel(v, d)
           \/ (\E k \in Key : CsTransfer(v, d, k)) \/ (\E p \in Option : CsMode(v, d, p))
  BY <1>2 DEF CsRegister, CsDrop, OsDropChannel, ChannelRowsDeleted, CsTransfer, CsMode, chanVars
<1>3. ASSUME NEW k \in Key, NEW l \in Level, CsAccessAdd(v, d, k, l) \/ CsAccessDel(v, d, k, l)
      PROVE  Authorised(c, u)
  <2>1. RoleOf(role, users') /\ role' = CheckModes(role, Holder(k), {d}, oper)
    BY <1>3, RoleNow DEF CsAccessAdd, CsAccessDel
  <2> QED BY <2>1, CheckAuthorised
<1>4. CASE \E t \in Conn, m \in Mode : CsTake(v, t, d, m)
  BY <1>4 DEF CsTake, IInv, TypeOK
<1>5. ASSUME NEW t \in Conn, NEW m \in Mode, CsGive(v, t, d, m) PROVE Authorised(c, u)
  <2>1. d = c
    BY <1>5 DEF CsGive, IInv, TypeOK
  <2>2. v \in Online /\ AccessOf(v, c) >= 3
    BY <1>5, <2>1 DEF CsGive, Commands
  <2> QED BY <2>2 DEF Authorised
<1> QED BY <1>1, <1>2, <1>3, <1>4, <1>5

-----------------------------------------------------------------------------
(* Which channels are left empty. *)

\* RemoveUser followed by the deletion of what is empty leaves no channel empty
\* that was not so before.
LEMMA LeavesNoneEmpty ==
    ASSUME TypeOK, MembershipAgrees, NEW V, NEW C, Leaves(V, C),
           NEW c \in live', users'[c] = {}
    PROVE  c \in live /\ users[c] = {}
<1>1. c \in live /\ c \in Chan /\ c \notin Emptied(V, C)
  BY DEF Leaves, TypeOK
<1>2. CASE c \notin C
  BY <1>1, <1>2 DEF Leaves, UsersWithout
<1>3. CASE c \in C
  <2>1. users[c] \ {w \in V : c \in chans[w]} = {}
    BY <1>1, <1>3 DEF Leaves, UsersWithout
  <2>2. ~\E w \in V : c \in chans[w]
    BY <1>1, <1>3, <2>1 DEF Emptied, UsersWithout
  <2> QED BY <1>1, <2>1, <2>2
<1> QED BY <1>2, <1>3

\* What EmptyOnlyBySelfKick asks of one channel.
EmptyBySelfKick(c) ==
    /\ c \in live
    /\ users[c] # {} => \E u \in Conn : users[c] = {u} /\ "h" \in role[c][u]

LEMMA KickEmpties ==
    ASSUME IInv, NEW u \in Conn, NEW t \in Conn, NEW d \in Chan, Kick(u, t, d),
           NEW c \in live', users'[c] = {}
    PROVE  EmptyBySelfKick(c)
<1>1. c \in live /\ c \in Chan
  BY DEF Kick, IInv, TypeOK
<1>2. CASE c # d
  BY <1>1, <1>2 DEF Kick, IInv, TypeOK, EmptyBySelfKick
<1>3. CASE c = d
  <2>1. users[c] = {t}
    BY <1>1, <1>3 DEF Kick, IInv, TypeOK
  <2>2. u = t
    BY <1>3, <2>1 DEF Kick, IInv, OneModePerMember
  <2>3. "h" \in role[c][t]
    BY <1>3, <2>2 DEF Kick
  <2> QED BY <1>1, <2>1, <2>3 DEF EmptyBySelfKick
<1> QED BY <1>2, <1>3

LEMMA EnterEmpties ==
    ASSUME IInv, NEW v \in Conn, NEW d \in Chan, Enter(v, d), NEW c \in live', users'[c] = {}
    PROVE  EmptyBySelfKick(c)
<1>1. c # d
  BY DEF Enter, IInv, TypeOK
<1>2. c \in live /\ c \in Chan /\ users[c] = {}
  BY <1>1 DEF Enter, IInv, TypeOK
<1> QED BY <1>2 DEF EmptyBySelfKick

LEMMA StepEmpties ==
    ASSUME IInv, [Next]_vars, NEW c \in live', users'[c] = {}
    PROVE  EmptyBySelfKick(c)
<1>1. CASE UNCHANGED <<live, users>>
  BY <1>1 DEF EmptyBySelfKick
<1>2. ASSUME NEW V, NEW C, Leaves(V, C) PROVE EmptyBySelfKick(c)
  BY <1>2, LeavesNoneEmpty DEF IInv, EmptyBySelfKick
<1>3. CASE UserNext
  <2>1. PICK v \in Conn :
           \/ Recase(v) \/ Cycle(v) \/ OperChange(v) \/ Quit(v) \/ NsRegister(v) \/ NsDrop(v)
           \/ \E k \in Key : \/ OsDropNick(v, k)
                            \/ \E isOper, cycles \in BOOLEAN : ChangeNick(v, k, isOper, cycles)
    BY <1>3 DEF UserNext
  <2>2. UNCHANGED <<live, users>> \/ Leaves({v}, Chan) \/ \E k \in Key : Leaves(Holder(k), Chan)
    BY <2>1 DEF Recase, Cycle, Recheck, OperChange, Quit, NsRegister, NsDrop, OsDropNick,
                ChangeNick, chanVars
  <2> QED BY <1>1, <1>2, <2>2
<1>4. CASE ChannelNext
  <2>1. PICK v \in Conn, d \in Chan :
           \/ Join(v, d) \/ Part(v, d)
           \/ \E t \in Conn : \/ Sajoin(v, t, d) \/ Sapart(v, t, d) \/ Kick(v, t, d)
                              \/ \E m \in Mode : ModeGive(v, t, d, m) \/ ModeTake(v, t, d, m)
    BY <1>4 DEF ChannelNext
  <2>2. \/ \E t \in Conn : Enter(t, d) \/ Kick(v, t, d) \/ Leaves({t}, {d})
        \/ UNCHANGED <<live, users>>
    BY <2>1 DEF Join, Part, Sajoin, Sapart, ModeGive, ModeTake
  <2> QED BY <1>1, <1>2, <2>2, EnterEmpties, KickEmpties
<1>5. CASE ChanServNext
  <2>1. UNCHANGED <<live, users>>
    BY <1>5 DEF ChanServNext, CsRegister, CsDrop, OsDropChannel, ChannelRowsDeleted, CsGive, CsTake,
                CsAccessAdd, CsAccessDel, CsTransfer, CsMode, chanVars
  <2> QED BY <1>1, <2>1
<1>6. CASE UNCHANGED vars
  BY <1>1, <1>6 DEF vars, chanVars
<1> QED BY <1>3, <1>4, <1>5, <1>6 DEF Next

-----------------------------------------------------------------------------

\* Every collection of Channel and User and every table keeps its type.
THEOREM ChannelsTypeCorrect == Spec => []TypeOK
BY Invariance, PTL DEF IInv

\* However JOIN, PART, KICK, QUIT, SAJOIN, SAPART and the ghosting of NICK follow
\* each other, User::channels and Channel::users never disagree and never lead to
\* a user or a channel that is gone.
THEOREM MembershipAlwaysAgrees == Spec => []MembershipAgrees
BY Invariance, PTL DEF IInv

\* operators, halfoperators and voices stay disjoint sets of members.
THEOREM OneModePerMemberAlways == Spec => []OneModePerMember
BY Invariance, PTL DEF IInv

\* NICKS, CANALES, ACCESS and CMODES stay consistent under every order of
\* registrations, transfers and drops.
THEOREM RecordsAlwaysAgree == Spec => []RecordsAgree
BY Invariance, PTL DEF IInv

\* NICK never carries the modes of one nickname over to another: CheckModes, run
\* once or twice, leaves what the access of the new nickname allows.
THEOREM ModesAlwaysFollowNick == Spec => ModesFollowNick
<1> DEFINE Follow ==
      \A u \in Online : \A c \in chans'[u] :
          LET k == key'[u]
              a == Standing(Access(access'[c][k], owner'[c] = k, u \in oper \cup oper'), opts'[c])
          IN  k \notin {key[u], NoKey} \cup NoOp => \A m \in role'[c][u] : Rank(m) <= a
<1>1. ASSUME IInv, [Next]_vars PROVE Follow
  <2> SUFFICES ASSUME NEW u \in Online, NEW c \in chans'[u],
                      key'[u] \notin {key[u], NoKey} \cup NoOp
               PROVE  \A m \in role'[c][u] :
                         Rank(m) <= Standing(Access(access'[c][key'[u]], owner'[c] = key'[u],
                                                    u \in oper \cup oper'), opts'[c])
    OBVIOUS
  <2>1. IInv' /\ u \in Conn
    BY <1>1, StepPreserves DEF Online
  <2>2. PICK isOper \in BOOLEAN, cycles \in BOOLEAN : ChangeNick(u, key'[u], isOper, cycles)
    BY <1>1, <2>1, OnlyNickRenames
  <2>3. c \in Chan /\ u \in users'[c] /\ c \in chans[u] /\ key'[u] \in Key \ NoOp
    <3>1. chans'[u] \in SUBSET Chan /\ key'[u] \in Key /\ u \in users'[c]
      BY <2>1 DEF IInv, TypeOK, MembershipAgrees
    <3>2. chans' = ChansWithout(Holder(key'[u]), Chan) /\ u \notin Holder(key'[u])
      BY <2>2 DEF ChangeNick, Leaves, Holder
    <3> QED BY <2>1, <3>1, <3>2 DEF ChansWithout
  <2> DEFINE ghosts == Holder(key'[u])
             opers  == IF isOper THEN oper \cup {u} ELSE oper \ {u}
             start  == RoleAfter(ghosts, Chan)
             once   == CheckModes(start, {u}, chans[u], oper)
  <2>4. RoleOf(start, users')
    <3>1. ghosts \in SUBSET Conn /\ Chan \in SUBSET Chan /\ Leaves(ghosts, Chan)
      BY <2>2 DEF ChangeNick, Holder
    <3> QED BY <1>1, <3>1, LeavesShape DEF IInv
  <2>5. CASE ~cycles
    <3>1. role' = once
      BY <2>2, <2>5 DEF ChangeNick
    <3>2. u \in oper => u \in oper \cup oper'
      OBVIOUS
    <3> HIDE DEF start
    <3> QED BY <1>1, <2>1, <2>3, <2>4, <3>1, <3>2, CheckedWithin
  <2>6. CASE cycles
    <3>1. role' = CheckModes(once, {u}, chans[u], opers)
      BY <2>2, <2>6 DEF ChangeNick
    <3>2. RoleOf(once, users')
      BY <2>4, CheckModesShape
    <3>3. u \in opers => u \in oper \cup oper'
      BY <2>2 DEF ChangeNick, Holder
    <3> HIDE DEF once, opers
    <3> QED BY <1>1, <2>1, <2>3, <3>1, <3>2, <3>3, CheckedWithin
  <2> QED BY <2>5, <2>6
<1>2. ASSUME IInv, [Next]_vars PROVE [Follow]_vars
  BY <1>1, <1>2
<1> QED BY <1>2, Invariance, PTL DEF Spec, ModesFollowNick

\* Whatever the order of NICK, MODE, CS, JOIN and the rest, @ goes to the creator of an
\* unregistered channel, to access 3 or more, or is given by somebody with authority.
THEOREM OperatorsHaveAuthority == Spec => OperatorByAuthority
<1> DEFINE Given == \A c \in Chan, u \in Conn : "o" \in role'[c][u] \ role[c][u] =>
          \/ c \notin live /\ ~Registered(c)
          \/ Access(access'[c][key'[u]], owner'[c] = key'[u], u \in oper \cup oper') >= 3
          \/ \E w \in Online : w \in oper \/ "o" \in role[c][w] \/ AccessOf(w, c) >= 3
<1>1. ASSUME IInv, [Next]_vars PROVE Given
  <2> SUFFICES ASSUME NEW c \in Chan, NEW u \in Conn, "o" \in role'[c][u], "o" \notin role[c][u]
               PROVE  Authorised(c, u)
    BY DEF Authorised
  <2>1. IInv'
    BY <1>1, StepPreserves
  <2>2. CASE UNCHANGED vars
    BY <2>2 DEF vars, chanVars
  <2> QED BY <1>1, <2>1, <2>2, UserAuthorised, ChannelAuthorised, ChanServAuthorised DEF Next
<1>2. ASSUME IInv, [Next]_vars PROVE [Given]_vars
  BY <1>1, <1>2
<1> QED BY <1>2, Invariance, PTL DEF Spec, OperatorByAuthority

\* PART, QUIT and ghosting delete the channels they empty, however many; only KICK of
\* a half-operator by himself leaves one behind.
THEOREM OnlySelfKicksLeaveEmpty == Spec => EmptyOnlyBySelfKick
<1> DEFINE Emptying == \A c \in live' : users'[c] = {} =>
          /\ c \in live
          /\ users[c] # {} => \E u \in Conn : users[c] = {u} /\ "h" \in role[c][u]
<1>1. ASSUME IInv, [Next]_vars PROVE Emptying
  BY <1>1, StepEmpties DEF EmptyBySelfKick
<1>2. ASSUME IInv, [Next]_vars PROVE [Emptying]_vars
  BY <1>1, <1>2
<1> QED BY <1>2, Invariance, PTL DEF Spec, EmptyOnlyBySelfKick

=============================================================================
