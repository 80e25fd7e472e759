---------------------------- MODULE ZeusChannels ----------------------------
(***************************************************************************)
(* Channels of one ZeusiRCd server and the ChanServ records behind them:   *)
(* who is in which channel (kept twice, in Channel::users and in           *)
(* User::channels), the sets operators, halfoperators and voices, mode r,  *)
(* and the tables NICKS, CANALES, ACCESS and CMODES that CheckModes        *)
(* consults.  Users are local ones; a handler is one step; every SQL       *)
(* statement succeeds except the INSERT of a row that exists.              *)
(***************************************************************************)
EXTENDS Naturals, FiniteSets

CONSTANTS
    Conn,         \* User objects
    Key,          \* nicknames, compared without case
    NoKey,        \* no nickname yet; also: no row in CANALES
    Chan,         \* channel names, compared without case
    Level,        \* bound: the access levels VOP..SOP = 1..4 a run gives out
    Option,       \* bound: the columns of CMODES a run sets
    NoOp,         \* nicknames whose option NOOP is set: CheckModes skips them
    MaxChannels   \* per user: maxchannels, or the exception of the user's host

ASSUME NoKeyAssumption  == NoKey \notin Key
ASSUME LevelAssumption  == Level \subseteq 1..4
ASSUME OptionAssumption ==
    Option \subseteq {"AUTOVOICE", "ONLYREG", "ONLYACCESS", "NONICKCHANGE"}
ASSUME MaxChannelsAssumption == MaxChannels \in [Conn -> Nat]

VARIABLES
    key,      \* the nickname each user is registered under in Users
    oper,     \* users with mode_o
    ident,    \* users with mode_r
    chans,    \* User::channels
    live,     \* the map Channels
    users,    \* Channel::users
    role,     \* which of operators, halfoperators, voices hold each user
    flagR,    \* channels with mode_r
    nicks,    \* table NICKS
    owner,    \* table CANALES: OWNER of each registered channel
    access,   \* table ACCESS: level of each nickname on each channel, 0: no row
    modeRow,  \* channels with a row in CMODES
    opts      \* the columns set in that row

userVars == <<key, oper, ident>>
chanVars == <<chans, live, users, role, flagR>>
dbVars   == <<nicks, owner, access, modeRow, opts>>
vars     == <<userVars, chanVars, dbVars>>

Online == {u \in Conn : key[u] # NoKey}
Holder(k) == {u \in Conn : key[u] = k}
Registered(c) == owner[c] # NoKey

-----------------------------------------------------------------------------
(* ChanServ::Access and ChanServ::CheckModes. *)

\* The ACCESS row decides, then the founder and the IRC operator.
Access(row, founder, isOper) ==
    IF row # 0 THEN row ELSE IF founder \/ isOper THEN 5 ELSE 0

AccessOf(u, c)   == Access(access[c][key[u]], owner[c] = key[u], u \in oper)
AccessOfKey(k, c) == Access(access[c][k], owner[c] = k, Holder(k) \cap oper # {})

Mode == {"v", "h", "o"}
Rank(m) == CASE m = "v" -> 1 [] m = "h" -> 2 [] m = "o" -> 3

\* The mode of a user that the branches of CheckModes and CS OP look at:
\* voice before half-operator before operator.
Judged(R) == IF "v" \in R THEN {"v"} ELSE IF "h" \in R THEN {"h"} ELSE R \cap {"o"}

\* Mutant: half-operators (HOP) get @.
DeservedHop(a) == IF a = 0 THEN {} ELSE IF a = 1 THEN {"v"} ELSE {"o"}

Deserved(a) == IF a = 0 THEN {} ELSE IF a = 1 THEN {"v"} ELSE IF a = 2 THEN {"h"} ELSE {"o"}

\* A mode above the access is removed and nothing is given in its place; one
\* below is replaced.
Settle(R, a) ==
    IF \E m \in Judged(R) : Rank(m) > a
    THEN R \ Judged(R)
    ELSE (R \ Judged(R)) \cup Deserved(a)

\* AUTOVOICE counts as access 1, in unregistered channels with a CMODES row too.
Standing(a, options) == IF "AUTOVOICE" \in options /\ a < 1 THEN 1 ELSE a

\* Mutant: the access is looked up under the old nickname.
CheckModesStale(R, V, C, P) ==
    [c \in Chan |-> [w \in Conn |->
        IF c \in C /\ w \in V /\ w \in users'[c] /\ key[w] \notin NoOp
        THEN Settle(R[c][w],
                    Standing(Access(access'[c][key[w]], owner'[c] = key[w], w \in P), opts'[c]))
        ELSE R[c][w]]]

\* CheckModes of the users V on the channels C, after the handler changed the
\* tables and the nicknames; P is the set of IRC operators it sees.
CheckModes(R, V, C, P) ==
    [c \in Chan |-> [w \in Conn |->
        IF c \in C /\ w \in V /\ w \in users'[c] /\ key'[w] \notin NoOp
        THEN Settle(R[c][w],
                    Standing(Access(access'[c][key'[w]], owner'[c] = key'[w], w \in P), opts'[c]))
        ELSE R[c][w]]]

-----------------------------------------------------------------------------
(* Leaving channels: Channel::part and Channel::quit delete the channel when *)
(* its last user goes, User::kick does not.                                  *)

UsersWithout(V, C) == [c \in Chan |-> IF c \in C THEN users[c] \ {w \in V : c \in chans[w]} ELSE users[c]]

\* Mutant: a channel is never deleted.
EmptiedNone(V, C) == {}

ChansWithout(V, C) == [w \in Conn |-> IF w \in V THEN chans[w] \ C ELSE chans[w]]
RoleWithout(V, C) ==
    [c \in Chan |-> [w \in Conn |-> IF w \in V /\ c \in C \cap chans[w] THEN {} ELSE role[c][w]]]
Emptied(V, C) == {c \in C : (\E w \in V : c \in chans[w]) /\ UsersWithout(V, C)[c] = {}}

\* The roles of a channel object go with it.
RoleAfter(V, C) ==
    [c \in Chan |-> IF c \in Emptied(V, C) THEN [w \in Conn |-> {}] ELSE RoleWithout(V, C)[c]]

Leaves(V, C) ==
    /\ users' = UsersWithout(V, C)
    /\ chans' = ChansWithout(V, C)
    /\ live' = live \ Emptied(V, C)
    /\ flagR' = flagR \ Emptied(V, C)

-----------------------------------------------------------------------------
(* Users. *)

\* User::canchangenick, without the flood protection of a channel.
CanChangeNick(u) ==
    \/ u \in oper
    \/ \A c \in chans[u] : ~(Registered(c) /\ "NONICKCHANGE" \in opts[c])

\* NICK to another nickname: a registered one takes its password and makes its
\* holder leave, any other one must be free.  Mode o follows the table OPERS;
\* CheckModes runs before mode o changes, and again (Cycle) if the virtual host
\* changes with the nickname.
ChangeNick(u, k, isOper, cycles) ==
    LET ghosts == Holder(k)
        opers  == IF isOper THEN oper \cup {u} ELSE oper \ {u}
    IN
    /\ key[u] # k /\ CanChangeNick(u)
    /\ k \notin nicks => ghosts = {}
    /\ key' = [w \in Conn |-> IF w = u THEN k ELSE IF w \in ghosts THEN NoKey ELSE key[w]]
    /\ oper' = opers \ ghosts
    /\ ident' = IF k \in nicks THEN (ident \ ghosts) \cup {u} ELSE ident \ {u}
    /\ UNCHANGED dbVars
    /\ Leaves(ghosts, Chan)
    /\ LET once == CheckModes(RoleAfter(ghosts, Chan), {u}, chans[u], oper)
       IN  role' = IF cycles THEN CheckModes(once, {u}, chans[u], opers) ELSE once

Recheck(u) ==
    /\ UNCHANGED <<userVars, dbVars, chans, live, users, flagR>>
    /\ role' = CheckModes(role, {u}, chans[u], oper)

\* NICK with another case of the user's nickname.
Recase(u) == u \in Online /\ CanChangeNick(u) /\ Recheck(u)

\* HostServ gives the user of a registered nickname another virtual host.
Cycle(u) == u \in Online /\ key[u] \in nicks /\ Recheck(u)

\* OPER, OS OPER ADD and OS OPER DEL do not look at the channels.
OperChange(u) ==
    /\ u \in Online
    /\ oper' = IF u \in oper THEN oper \ {u} ELSE oper \cup {u}
    /\ UNCHANGED <<key, ident, chanVars, dbVars>>

\* User::MakeQuit.
Quit(u) ==
    /\ u \in Online
    /\ key' = [key EXCEPT ![u] = NoKey]
    /\ oper' = oper \ {u} /\ ident' = ident \ {u}
    /\ Leaves({u}, Chan)
    /\ role' = RoleAfter({u}, Chan)
    /\ UNCHANGED dbVars

NsRegister(u) ==
    /\ u \in Online \ ident /\ key[u] \notin nicks
    /\ nicks' = nicks \cup {key[u]}
    /\ ident' = ident \cup {u}
    /\ UNCHANGED <<key, oper, chanVars, owner, access, modeRow, opts>>

\* Mutant: the access entries of the nickname are forgotten.
NickRowsDeletedNoAccess(k) ==
    /\ nicks' = nicks \ {k}
    /\ owner' = [c \in Chan |-> IF owner[c] = k THEN NoKey ELSE owner[c]]
    /\ UNCHANGED <<access, modeRow, opts>>

\* The nickname k goes with the channels it owns and its access; CMODES stays,
\* and so does mode r of the channels.
NickRowsDeleted(k) ==
    /\ nicks' = nicks \ {k}
    /\ owner' = [c \in Chan |-> IF owner[c] = k THEN NoKey ELSE owner[c]]
    /\ access' = [c \in Chan |-> [access[c] EXCEPT ![k] = 0]]
    /\ UNCHANGED <<modeRow, opts>>

NsDrop(u) ==
    /\ u \in Online \cap ident /\ key[u] \in nicks
    /\ NickRowsDeleted(key[u])
    /\ ident' = ident \ {u}
    /\ UNCHANGED <<key, oper, chanVars>>

OsDropNick(a, k) ==
    /\ a \in Online \cap oper \cap ident /\ k \in nicks
    /\ NickRowsDeleted(k)
    /\ ident' = ident \ Holder(k)
    /\ UNCHANGED <<key, oper, chanVars>>

-----------------------------------------------------------------------------
(* Channel commands. *)

\* Channel::join on the existing or the new channel.  The creator of an
\* unregistered channel is its operator; a registered one gets mode r from
\* DoRegister and the user what CheckModes finds.
Enter(u, c) ==
    /\ u \notin users[c]
    /\ UNCHANGED <<userVars, dbVars>>
    /\ users' = [users EXCEPT ![c] = @ \cup {u}]
    /\ chans' = [chans EXCEPT ![u] = @ \cup {c}]
    /\ live' = live \cup {c}
    /\ flagR' = IF Registered(c) THEN flagR \cup {c} ELSE flagR
    /\ role' = IF Registered(c) THEN CheckModes(role, {u}, {c}, oper)
               ELSE IF c \in live THEN role
               ELSE [role EXCEPT ![c][u] = @ \cup {"o"}]

\* The conditions a registered channel sets, other than keys, bans and floods.
Admitted(u, c) ==
    \/ u \in oper
    \/ /\ "ONLYREG" \in opts[c] => u \in ident
       /\ "ONLYACCESS" \in opts[c] => AccessOf(u, c) # 0

Join(u, c) ==
    /\ u \in Online
    /\ Cardinality(chans[u]) < MaxChannels[u]
    /\ Registered(c) => Admitted(u, c)
    /\ Enter(u, c)

\* SAJOIN asks for neither the limit nor the conditions.
Sajoin(a, u, c) ==
    /\ a \in oper /\ u \in Online
    /\ Enter(u, c)

Part(u, c) ==
    /\ u \in Online /\ u \in users[c]
    /\ Leaves({u}, {c})
    /\ role' = RoleAfter({u}, {c})
    /\ UNCHANGED <<userVars, dbVars>>

Sapart(a, u, c) == a \in oper /\ Part(u, c)

\* Mutant: KICK forgets User::channels.
KickOneSide(u, t, c) ==
    /\ u \in Online /\ c \in live
    /\ role[c][u] \cap {"o", "h"} # {}
    /\ t \in users[c] \ oper
    /\ "o" \in role[c][t] => u \in oper
    /\ users' = [users EXCEPT ![c] = @ \ {t}]
    /\ role' = [role EXCEPT ![c][t] = {}]
    /\ UNCHANGED <<userVars, dbVars, chans, live, flagR>>

Kick(u, t, c) ==
    /\ u \in Online /\ c \in live
    /\ role[c][u] \cap {"o", "h"} # {}
    /\ t \in users[c] \ oper
    /\ "o" \in role[c][t] => u \in oper
    /\ users' = [users EXCEPT ![c] = @ \ {t}]
    /\ chans' = [chans EXCEPT ![t] = @ \ {c}]
    /\ role' = [role EXCEPT ![c][t] = {}]
    /\ UNCHANGED <<userVars, dbVars, live, flagR>>

\* MODE #channel: any of @, % and IRC operator may speak, in a registered channel.
MaySpeakModes(u, c) ==
    /\ u \in Online /\ c \in live
    /\ Registered(c) \/ u \in oper
    /\ u \in oper \/ role[c][u] \cap {"o", "h"} # {}

\* Mutant: the other two sets are not cleared.
ModeGiveAdds(u, t, c, m) ==
    /\ MaySpeakModes(u, c)
    /\ t \in users[c] /\ m \notin role[c][t]
    /\ \/ u \in oper
       \/ "o" \in role[c][u]
       \/ m = "v" /\ "h" \in role[c][u]
    /\ role' = [role EXCEPT ![c][t] = @ \cup {m}]
    /\ UNCHANGED <<userVars, dbVars, chans, live, users, flagR>>

ModeGive(u, t, c, m) ==
    /\ MaySpeakModes(u, c)
    /\ t \in users[c] /\ m \notin role[c][t]
    /\ \/ u \in oper
       \/ "o" \in role[c][u]
       \/ m = "v" /\ "h" \in role[c][u]
    /\ role' = [role EXCEPT ![c][t] = {m}]
    /\ UNCHANGED <<userVars, dbVars, chans, live, users, flagR>>

ModeTake(u, t, c, m) ==
    /\ MaySpeakModes(u, c)
    /\ t \in users[c] /\ m \in role[c][t]
    /\ \/ m = "o" /\ "o" \in role[c][u]
       \/ m = "h"
       \/ m = "v" /\ role[c][u] \cap {"o", "h"} # {}
    /\ role' = [role EXCEPT ![c][t] = @ \ {m}]
    /\ UNCHANGED <<userVars, dbVars, chans, live, users, flagR>>

-----------------------------------------------------------------------------
(* ChanServ. *)

\* CanRegister: the limit it reads is a column that does not exist, so it never binds.
CanRegister(u, c) == u \in users[c] /\ "o" \in role[c][u]

\* REGISTER stops after the INSERT INTO CMODES of a row a dropped nickname left.
CsRegister(u, c) ==
    /\ u \in Online \cap ident /\ ~Registered(c)
    /\ CanRegister(u, c)
    /\ owner' = [owner EXCEPT ![c] = key[u]]
    /\ modeRow' = modeRow \cup {c}
    /\ flagR' = IF c \in modeRow THEN flagR ELSE flagR \cup {c}
    /\ UNCHANGED <<userVars, chans, live, users, role, nicks, access, opts>>

ChannelRowsDeleted(c) ==
    /\ owner' = [owner EXCEPT ![c] = NoKey]
    /\ access' = [access EXCEPT ![c] = [k \in Key |-> 0]]
    /\ flagR' = flagR \ {c}
    /\ UNCHANGED <<userVars, chans, live, users, role, nicks>>

CsDrop(u, c) ==
    /\ u \in Online \cap ident
    /\ CanRegister(u, c)
    /\ owner[c] = key[u]
    /\ ChannelRowsDeleted(c)
    /\ modeRow' = modeRow \ {c}
    /\ opts' = [opts EXCEPT ![c] = {}]

\* OS DROP of a channel leaves the CMODES row behind.
OsDropChannel(a, c) ==
    /\ a \in Online \cap oper \cap ident /\ Registered(c)
    /\ ChannelRowsDeleted(c)
    /\ UNCHANGED <<modeRow, opts>>

\* The user may give ChanServ orders of a level on a registered channel.
Commands(u, c, level) ==
    u \in Online \cap ident /\ Registered(c) /\ AccessOf(u, c) >= level

\* Mutant: the levels are counted from 2.
CsAccessAddHigh(u, c, k, l) ==
    /\ Commands(u, c, 4)
    /\ k \in nicks /\ AccessOfKey(k, c) = 0
    /\ access' = [access EXCEPT ![c][k] = l + 1]
    /\ UNCHANGED <<userVars, chans, live, users, flagR, nicks, owner, modeRow, opts>>
    /\ role' = CheckModes(role, Holder(k), {c}, oper)

\* VOP, HOP, AOP, SOP ADD.
CsAccessAdd(u, c, k, l) ==
    /\ Commands(u, c, 4)
    /\ k \in nicks /\ AccessOfKey(k, c) = 0
    /\ access' = [access EXCEPT ![c][k] = l]
    /\ UNCHANGED <<userVars, chans, live, users, flagR, nicks, owner, modeRow, opts>>
    /\ role' = CheckModes(role, Holder(k), {c}, oper)

\* DEL deletes the row only at the level it is named at; CheckModes runs anyway.
CsAccessDel(u, c, k, l) ==
    /\ Commands(u, c, 4)
    /\ AccessOfKey(k, c) # 0
    /\ access' = IF access[c][k] = l THEN [access EXCEPT ![c][k] = 0] ELSE access
    /\ UNCHANGED <<userVars, chans, live, users, flagR, nicks, owner, modeRow, opts>>
    /\ role' = CheckModes(role, Holder(k), {c}, oper)

\* OP, HALFOP, VOICE.
CsGive(u, t, c, m) ==
    /\ Commands(u, c, 3) /\ t \in Online /\ c \in live
    /\ Judged(role[c][t]) = {} => t \in users[c]
    /\ m \notin Judged(role[c][t])
    /\ role' = [role EXCEPT ![c][t] = (@ \ Judged(@)) \cup {m}]
    /\ UNCHANGED <<userVars, dbVars, chans, live, users, flagR>>

\* DEOP, DEHALFOP, DEVOICE.
CsTake(u, t, c, m) ==
    /\ Commands(u, c, 3) /\ t \in Online /\ c \in live
    /\ m \in Judged(role[c][t])
    /\ role' = [role EXCEPT ![c][t] = @ \ {m}]
    /\ UNCHANGED <<userVars, dbVars, chans, live, users, flagR>>

\* MODE +option and -option: an UPDATE, so nothing without a CMODES row.
CsMode(u, c, p) ==
    /\ Commands(u, c, 4) /\ c \in modeRow
    /\ opts' = [opts EXCEPT ![c] = IF p \in @ THEN @ \ {p} ELSE @ \cup {p}]
    /\ UNCHANGED <<userVars, chanVars, nicks, owner, access, modeRow>>

\* TRANSFER changes OWNER only; a row the new founder has in ACCESS stays first.
CsTransfer(u, c, k) ==
    /\ Commands(u, c, 5) /\ k \in nicks
    /\ owner' = [owner EXCEPT ![c] = k]
    /\ UNCHANGED <<userVars, chanVars, nicks, access, modeRow, opts>>

-----------------------------------------------------------------------------

Init ==
    /\ key = [u \in Conn |-> NoKey]
    /\ oper = {} /\ ident = {}
    /\ chans = [u \in Conn |-> {}]
    /\ live = {} /\ flagR = {}
    /\ users = [c \in Chan |-> {}]
    /\ role = [c \in Chan |-> [u \in Conn |-> {}]]
    /\ nicks = {} /\ modeRow = {}
    /\ owner = [c \in Chan |-> NoKey]
    /\ access = [c \in Chan |-> [k \in Key |-> 0]]
    /\ opts = [c \in Chan |-> {}]

UserNext ==
    \E u \in Conn :
        \/ Recase(u)
        \/ Cycle(u)
        \/ OperChange(u)
        \/ Quit(u)
        \/ NsRegister(u)
        \/ NsDrop(u)
        \/ \E k \in Key :
              \/ OsDropNick(u, k)
              \/ \E isOper, cycles \in BOOLEAN : ChangeNick(u, k, isOper, cycles)

ChannelNext ==
    \E u \in Conn, c \in Chan :
        \/ Join(u, c)
        \/ Part(u, c)
        \/ \E t \in Conn :
              \/ Sajoin(u, t, c)
              \/ Sapart(u, t, c)
              \/ Kick(u, t, c)
              \/ \E m \in Mode : ModeGive(u, t, c, m) \/ ModeTake(u, t, c, m)

ChanServNext ==
    \E u \in Conn, c \in Chan :
        \/ CsRegister(u, c)
        \/ CsDrop(u, c)
        \/ OsDropChannel(u, c)
        \/ \E t \in Conn, m \in Mode : CsGive(u, t, c, m) \/ CsTake(u, t, c, m)
        \/ \E k \in Key, l \in Level : CsAccessAdd(u, c, k, l) \/ CsAccessDel(u, c, k, l)
        \/ \E k \in Key : CsTransfer(u, c, k)
        \/ \E p \in Option : CsMode(u, c, p)

Next == UserNext \/ ChannelNext \/ ChanServNext

Spec == Init /\ [][Next]_vars

-----------------------------------------------------------------------------
(* Properties. *)

\* Shape of the state: the collections of Channel and User, and tables whose
\* UNIQUE columns make them functions.
TypeOK ==
    /\ key \in [Conn -> Key \cup {NoKey}]
    /\ oper \subseteq Conn /\ ident \subseteq Conn
    /\ chans \in [Conn -> SUBSET Chan]
    /\ live \subseteq Chan /\ flagR \subseteq Chan
    /\ users \in [Chan -> SUBSET Conn]
    /\ role \in [Chan -> [Conn -> SUBSET Mode]]
    /\ nicks \subseteq Key /\ modeRow \subseteq Chan
    /\ owner \in [Chan -> Key \cup {NoKey}]
    /\ access \in [Chan -> [Key -> {0} \cup Level]]
    /\ opts \in [Chan -> SUBSET Option]

\* Channel::users and User::channels are the two sides of one relation, and only
\* of users in Users and channels in Channels.  JOIN, PART, KICK, QUIT, SAJOIN
\* and the ghosting branch of NICK edit the two sides and the two maps apart from
\* each other; a side left behind is a pointer to a deleted object.
MembershipAgrees ==
    /\ \A u \in Conn, c \in Chan : c \in chans[u] <=> u \in users[c]
    /\ \A c \in Chan : users[c] \subseteq Online
    /\ \A c \in Chan \ live : users[c] = {}

\* The sets operators, halfoperators and voices of a channel are disjoint and
\* hold members only: PREFIX=(ohv) shows one sign, CheckModes and CS OP look at
\* the first set they find a user in, RemoveUser has to clear all three, and a
\* deleted channel keeps nothing for its successor of the same name.
OneModePerMember ==
    \A c \in Chan, u \in Conn :
        /\ \A m1, m2 \in role[c][u] : m1 = m2
        /\ role[c][u] # {} => u \in users[c]

\* The tables refer to each other: founders and access entries are registered
\* nicknames, a registered channel has its CMODES row, and mode r of a user
\* stands for a nickname in NICKS, whatever is dropped, transferred or renamed
\* in between.
RecordsAgree ==
    /\ \A c \in Chan : Registered(c) => owner[c] \in nicks /\ c \in modeRow
    /\ \A c \in Chan, k \in Key : access[c][k] # 0 => k \in nicks
    /\ \A u \in ident : key[u] \in nicks
    /\ \A c \in Chan \ modeRow : opts[c] = {}

\* Mode o of a channel comes from creating it, from access 3 or more, or from
\* somebody who had the authority before: an IRC operator, an operator of the
\* channel or a user with access 3 or more.  A half-operator, or a user of a
\* registered channel without access, never becomes operator by any order of
\* NICK, MODE, CS and JOIN.
OperatorByAuthority ==
    [][\A c \in Chan, u \in Conn : "o" \in role'[c][u] \ role[c][u] =>
          \/ c \notin live /\ ~Registered(c)
          \/ Access(access'[c][key'[u]], owner'[c] = key'[u], u \in oper \cup oper') >= 3
          \/ \E w \in Online : w \in oper \/ "o" \in role[c][w] \/ AccessOf(w, c) >= 3]_vars

\* Nobody takes the modes of one nickname along to another: after NICK the modes
\* of a user are within the access of the new nickname (IRC operators, before or
\* after, count as founders), unless it has option NOOP.
ModesFollowNick ==
    [][\A u \in Online : \A c \in chans'[u] :
          LET k == key'[u]
              a == Standing(Access(access'[c][k], owner'[c] = k, u \in oper \cup oper'), opts'[c])
          IN  k \notin {key[u], NoKey} \cup NoOp => \A m \in role'[c][u] : Rank(m) <= a]_vars

\* A channel nobody is in is deleted from Channels, with one exception: the last
\* user, a half-operator, kicks himself, and User::kick leaves it empty.
EmptyOnlyBySelfKick ==
    [][\A c \in live' : users'[c] = {} =>
          /\ c \in live
          /\ users[c] # {} => \E u \in Conn : users[c] = {u} /\ "h" \in role[c][u]]_vars

\* cs.cpp answers a REGISTER that stops early with "The channel %s cannot be
\* registered": such a REGISTER registers nothing, so a channel that becomes
\* registered has got mode r.
RefusedRegisterDoesNothing ==
    [][\A c \in live : owner[c] = NoKey /\ owner'[c] # NoKey => c \in flagR']_vars

=============================================================================
