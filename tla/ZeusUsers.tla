----------------------------- MODULE ZeusUsers -----------------------------
(***************************************************************************)
(* The user registry of one ZeusiRCd server: the map Users from lower-case *)
(* nicknames to User objects, the nickname and the modes o and r of every  *)
(* object, the list miRCOps, and the two database tables (NICKS, OPERS)    *)
(* the registry depends on.  One action per command, call of the HTTP API  *)
(* or server message that changes any of them; a handler is one step.  The *)
(* servers tell each other of the tables (DB) and of the modes (UMODE)     *)
(* apart.  The SQL statements of a command succeed.  Channels are in       *)
(* ZeusChannels: here User::canchangenick may refuse any NICK.             *)
(***************************************************************************)
EXTENDS Naturals, FiniteSets

CONSTANTS
    Conn,     \* User objects: PlainUser, SSLUser, WebUser (local), NewUser (remote)
    Nick,     \* nicknames as they are spelled
    Key,      \* nicknames in lower case, the keys of Users
    Fold,     \* tolower: Nick -> Key
    Default,  \* the nickname of a User nobody has named yet ("ZeusiRCd")
    NoConn    \* Users.find(...) == Users.end()

ASSUME FoldAssumption   == Fold \in [Nick -> Key]
ASSUME NoConnAssumption == NoConn \notin Conn
ASSUME DefaultAssumption == Default \in Nick

VARIABLES
    conn,      \* "off", "new" (accepted, no NICK yet), "on" (bSentNick), "remote" (NewUser)
    nick,      \* mNickName
    registry,  \* the map Users
    operFlag,  \* the users with mode_o
    regFlag,   \* the users with mode_r
    ircops,    \* miRCOps: nicknames, in the spelling they were inserted with
    exited,    \* remote users whose field quit is set
    nicksDB,   \* table NICKS
    opersDB    \* table OPERS

vars == <<conn, nick, registry, operFlag, regFlag, ircops, exited, nicksDB, opersDB>>

Online == {"on", "remote"}
Local  == {"new", "on"}

\* The nicknames NICK accepts: "zeusircd", in any case, is reserved.
Choosable == {n \in Nick : Fold[n] # Fold[Default]}

\* User::GetUser: the object registered under a nickname, as a set of at most one.
Holder(n) == {registry[Fold[n]]} \ {NoConn}

-----------------------------------------------------------------------------
(* Leaving: User::Exit of a local user and User::QUIT of a remote one. *)

RegistryWithout(V) ==
    [k \in Key |-> IF \E v \in V : conn[v] \in Online /\ Fold[nick[v]] = k
                   THEN NoConn ELSE registry[k]]

IrcopsWithout(V) == ircops \ {nick[v] : v \in V \cap operFlag}

\* The objects of V leave: every field of the object goes with it.
Leave(V) ==
    /\ conn' = [c \in Conn |-> IF c \in V THEN "off" ELSE conn[c]]
    /\ nick' = [c \in Conn |-> IF c \in V THEN Default ELSE nick[c]]
    /\ registry' = RegistryWithout(V)
    /\ operFlag' = operFlag \ V
    /\ regFlag' = regFlag \ V
    /\ ircops' = IrcopsWithout(V)
    /\ exited' = exited \ V

-----------------------------------------------------------------------------
(* Commands of local users. *)

\* The accept loop makes a User object and starts its session.
Accept(u) ==
    /\ conn[u] = "off"
    /\ conn' = [conn EXCEPT ![u] = "new"]
    /\ UNCHANGED <<nick, registry, operFlag, regFlag, ircops, exited, nicksDB, opersDB>>

\* NICK with another case of the user's own nickname: ChangeNickName finds the
\* key taken and leaves the map alone.
NickRecase(u, n) ==
    /\ conn[u] = "on"
    /\ n # nick[u] /\ Fold[n] = Fold[nick[u]]
    /\ nick' = [nick EXCEPT ![u] = n]
    /\ UNCHANGED <<conn, registry, operFlag, regFlag, ircops, exited, nicksDB, opersDB>>

\* Mutant: mode o is never taken back.
LosesOperNever(u, n) == FALSE

\* The table OPERS decides mode o of a user that takes nickname n.
GainsOper(u, n) == Fold[n] \in opersDB /\ u \notin operFlag
LosesOper(u, n) == Fold[n] \notin opersDB /\ u \in operFlag

\* cmdNick: u becomes n once the users of V have been made to leave.
Becomes(u, n, V) ==
    /\ conn' = [c \in Conn |-> IF c = u THEN "on" ELSE IF c \in V THEN "off" ELSE conn[c]]
    /\ nick' = [c \in Conn |-> IF c = u THEN n ELSE IF c \in V THEN Default ELSE nick[c]]
    /\ registry' = [k \in Key |-> IF k = Fold[n] THEN u ELSE RegistryWithout(V \cup {u})[k]]
    /\ operFlag' = IF GainsOper(u, n) THEN (operFlag \ V) \cup {u}
                   ELSE IF LosesOper(u, n) THEN operFlag \ (V \cup {u})
                   ELSE operFlag \ V
    /\ ircops' = IF GainsOper(u, n) THEN IrcopsWithout(V) \cup {n}
                 ELSE IF LosesOper(u, n) THEN IrcopsWithout(V) \ {n}
                 ELSE IrcopsWithout(V)
    /\ exited' = exited \ V

\* NICK with the password of a registered nickname: whoever holds it leaves.
NickIdentify(u, n) ==
    /\ conn[u] \in Local
    /\ n \in Choosable /\ Fold[n] # Fold[nick[u]]
    /\ Fold[n] \in nicksDB
    /\ Becomes(u, n, Holder(n))
    /\ regFlag' = (regFlag \ Holder(n)) \cup {u}
    /\ UNCHANGED <<nicksDB, opersDB>>

\* Mutant: the taken nickname is not refused.
NickPlainTakesOver(u, n) ==
    /\ conn[u] \in Local
    /\ n \in Choosable /\ Fold[n] # Fold[nick[u]]
    /\ Fold[n] \notin nicksDB
    /\ Becomes(u, n, Holder(n))
    /\ regFlag' = regFlag \ (Holder(n) \cup {u})
    /\ UNCHANGED <<nicksDB, opersDB>>

\* Mutant: mode r of the old nickname stays.
NickPlainKeepsR(u, n) ==
    /\ conn[u] \in Local
    /\ n \in Choosable /\ Fold[n] # Fold[nick[u]]
    /\ Fold[n] \notin nicksDB
    /\ Holder(n) = {}
    /\ Becomes(u, n, {})
    /\ UNCHANGED <<regFlag, nicksDB, opersDB>>

\* NICK with a nickname that is neither registered nor in use.
NickPlain(u, n) ==
    /\ conn[u] \in Local
    /\ n \in Choosable /\ Fold[n] # Fold[nick[u]]
    /\ Fold[n] \notin nicksDB
    /\ Holder(n) = {}
    /\ Becomes(u, n, {})
    /\ regFlag' = regFlag \ {u}
    /\ UNCHANGED <<nicksDB, opersDB>>

\* QUIT, and every other reason a local session ends.
Quit(u) ==
    /\ conn[u] \in Local
    /\ Leave({u})
    /\ UNCHANGED <<nicksDB, opersDB>>

\* OPER with a name and password of the configuration file.
OperLogin(u) ==
    /\ conn[u] = "on" /\ u \notin operFlag
    /\ operFlag' = operFlag \cup {u}
    /\ ircops' = ircops \cup {nick[u]}
    /\ UNCHANGED <<conn, nick, registry, regFlag, exited, nicksDB, opersDB>>

\* NS REGISTER does not ask for a NICK first: it may register Default.
NsRegister(u) ==
    /\ conn[u] \in Local /\ u \notin regFlag
    /\ Fold[nick[u]] \notin nicksDB
    /\ nicksDB' = nicksDB \cup {Fold[nick[u]]}
    /\ regFlag' = regFlag \cup {u}
    /\ UNCHANGED <<conn, nick, registry, operFlag, ircops, exited, opersDB>>

\* NS DROP with the right password.
NsDrop(u) ==
    /\ conn[u] \in Local /\ u \in regFlag
    /\ Fold[nick[u]] \in nicksDB
    /\ nicksDB' = nicksDB \ {Fold[nick[u]]}
    /\ opersDB' = opersDB \ {Fold[nick[u]]}
    /\ regFlag' = regFlag \ {u}
    /\ UNCHANGED <<conn, nick, registry, operFlag, ircops, exited>>

\* The user may use the OS commands that change the database.
Administers(a) == conn[a] \in Local /\ a \in operFlag \cap regFlag

\* Mutant: the nickname is stored as it was spelled.
OsOperAddSpelled(a, n) ==
    /\ Administers(a)
    /\ Fold[n] \in nicksDB \ opersDB
    /\ opersDB' = opersDB \cup {n}
    /\ operFlag' = operFlag \cup Holder(n)
    /\ ircops' = ircops \cup {nick[h] : h \in Holder(n) \ operFlag}
    /\ UNCHANGED <<conn, nick, registry, regFlag, exited, nicksDB>>

OsOperAdd(a, n) ==
    /\ Administers(a)
    /\ Fold[n] \in nicksDB \ opersDB
    /\ opersDB' = opersDB \cup {Fold[n]}
    /\ operFlag' = operFlag \cup Holder(n)
    /\ ircops' = ircops \cup {nick[h] : h \in Holder(n) \ operFlag}
    /\ UNCHANGED <<conn, nick, registry, regFlag, exited, nicksDB>>

OsOperDel(a, n) ==
    /\ Administers(a)
    /\ Fold[n] \in opersDB
    /\ opersDB' = opersDB \ {Fold[n]}
    /\ operFlag' = operFlag \ Holder(n)
    /\ ircops' = ircops \ {nick[h] : h \in Holder(n) \cap operFlag}
    /\ UNCHANGED <<conn, nick, registry, regFlag, exited, nicksDB>>

\* OS DROP of a nickname; mode r of a remote holder is left to its own server.
OsDrop(a, n) ==
    /\ Administers(a)
    /\ Fold[n] \in nicksDB
    /\ nicksDB' = nicksDB \ {Fold[n]}
    /\ regFlag' = regFlag \ {h \in Holder(n) : conn[h] \in Local}
    /\ UNCHANGED <<conn, nick, registry, operFlag, ircops, exited, opersDB>>

OsKill(a, n) ==
    /\ conn[a] \in Local /\ a \in operFlag
    /\ Holder(n) # {}
    /\ Leave(Holder(n))
    /\ UNCHANGED <<nicksDB, opersDB>>

-----------------------------------------------------------------------------
(* The HTTP API of this server: mode r of whoever holds the nickname follows. *)

ApiRegister(n) ==
    /\ Fold[n] \notin nicksDB
    /\ nicksDB' = nicksDB \cup {Fold[n]}
    /\ regFlag' = regFlag \cup Holder(n)
    /\ UNCHANGED <<conn, nick, registry, operFlag, ircops, exited, opersDB>>

ApiDrop(n) ==
    /\ Fold[n] \in nicksDB
    /\ nicksDB' = nicksDB \ {Fold[n]}
    /\ regFlag' = regFlag \ Holder(n)
    /\ UNCHANGED <<conn, nick, registry, operFlag, ircops, exited, opersDB>>

-----------------------------------------------------------------------------
(* Messages of the other servers. *)

\* SNICK of a free nickname: a NewUser object is registered.
SnickNew(u, n, M) ==
    /\ conn[u] = "off" /\ Holder(n) = {}
    /\ conn' = [conn EXCEPT ![u] = "remote"]
    /\ nick' = [nick EXCEPT ![u] = n]
    /\ registry' = [registry EXCEPT ![Fold[n]] = u]
    /\ operFlag' = IF "o" \in M THEN operFlag \cup {u} ELSE operFlag
    /\ regFlag' = IF "r" \in M THEN regFlag \cup {u} ELSE regFlag
    /\ ircops' = IF "o" \in M THEN ircops \cup {n} ELSE ircops
    /\ UNCHANGED <<exited, nicksDB, opersDB>>

\* SNICK of a nickname a local user holds: the local user is made to leave and
\* the remote one is not registered.
SnickLocal(n) ==
    /\ \E h \in Holder(n) : conn[h] \in Local
    /\ Leave(Holder(n))
    /\ UNCHANGED <<nicksDB, opersDB>>

\* SNICK of a nickname a remote user holds: Exit finds bSentNick unset, so the
\* old user stays registered.
SnickRemote(n) ==
    /\ \E h \in Holder(n) : conn[h] = "remote" /\ h \notin exited
    /\ exited' = exited \cup Holder(n)
    /\ ircops' = IrcopsWithout(Holder(n))
    /\ UNCHANGED <<conn, nick, registry, operFlag, regFlag, nicksDB, opersDB>>

\* QUIT and SKILL.
ServerQuit(n) ==
    /\ Holder(n) # {}
    /\ Leave(Holder(n))
    /\ UNCHANGED <<nicksDB, opersDB>>

\* Mutant: the old key is not erased.
ServerNickKeepsKey(u, n) ==
    /\ conn[u] = "remote" /\ Holder(n) = {}
    /\ nick' = [nick EXCEPT ![u] = n]
    /\ registry' = [registry EXCEPT ![Fold[n]] = u]
    /\ UNCHANGED <<conn, operFlag, regFlag, ircops, exited, nicksDB, opersDB>>

\* NICK of a remote user: User::ChangeNickName refuses a nickname whose key is
\* taken, another case of the user's own nickname included.
ServerNick(u, n) ==
    /\ conn[u] = "remote" /\ Holder(n) = {}
    /\ nick' = [nick EXCEPT ![u] = n]
    /\ registry' = [k \in Key |-> IF k = Fold[n] THEN u
                                  ELSE IF k = Fold[nick[u]] THEN NoConn ELSE registry[k]]
    /\ UNCHANGED <<conn, operFlag, regFlag, ircops, exited, nicksDB, opersDB>>

\* UMODE +o and -o: OS OPER sends it to the server of the user as well.
ServerOper(n, add) ==
    /\ Holder(n) # {}
    /\ operFlag' = IF add THEN operFlag \cup Holder(n) ELSE operFlag \ Holder(n)
    /\ ircops' = IF add THEN ircops \cup {nick[h] : h \in Holder(n)}
                 ELSE ircops \ {nick[h] : h \in Holder(n)}
    /\ UNCHANGED <<conn, nick, registry, regFlag, exited, nicksDB, opersDB>>

\* UMODE +r and -r, with or without a row: the table is not looked at.
ServerReg(n, add) ==
    /\ Holder(n) # {}
    /\ regFlag' = IF add THEN regFlag \cup Holder(n) ELSE regFlag \ Holder(n)
    /\ UNCHANGED <<conn, nick, registry, operFlag, ircops, exited, nicksDB, opersDB>>

\* DB: a statement of another server inserts or deletes a row, and touches no user.
\* (An INSERT of a row that is there fails.)
ServerDB(k, add) ==
    /\ \/ /\ nicksDB' = IF add THEN nicksDB \cup {k} ELSE nicksDB \ {k}
          /\ UNCHANGED opersDB
       \/ /\ opersDB' = IF add THEN opersDB \cup {k} ELSE opersDB \ {k}
          /\ UNCHANGED nicksDB
    /\ UNCHANGED <<conn, nick, registry, operFlag, regFlag, ircops, exited>>

-----------------------------------------------------------------------------

Init ==
    /\ conn = [u \in Conn |-> "off"]
    /\ nick = [u \in Conn |-> Default]
    /\ registry = [k \in Key |-> NoConn]
    /\ operFlag = {} /\ regFlag = {} /\ ircops = {} /\ exited = {}
    /\ nicksDB = {} /\ opersDB = {}

UserNext ==
    \E u \in Conn :
        \/ Accept(u)
        \/ Quit(u)
        \/ OperLogin(u)
        \/ NsRegister(u)
        \/ NsDrop(u)
        \/ \E n \in Choosable :
              \/ NickRecase(u, n)
              \/ NickIdentify(u, n)
              \/ NickPlain(u, n)
        \/ \E n \in Nick :
              \/ OsOperAdd(u, n)
              \/ OsOperDel(u, n)
              \/ OsDrop(u, n)
              \/ OsKill(u, n)

\* What this server does of its own.
LocalNext == UserNext \/ \E n \in Nick : ApiRegister(n) \/ ApiDrop(n)

ServerNext ==
    \/ \E k \in Key, add \in BOOLEAN : ServerDB(k, add)
    \/ \E n \in Choosable :
        \/ \E u \in Conn, M \in SUBSET {"o", "r"} : SnickNew(u, n, M)
        \/ \E u \in Conn : ServerNick(u, n)
        \/ SnickLocal(n)
        \/ SnickRemote(n)
        \/ ServerQuit(n)
        \/ \E add \in BOOLEAN : ServerOper(n, add) \/ ServerReg(n, add)

Next == LocalNext \/ ServerNext

Spec == Init /\ [][Next]_vars

-----------------------------------------------------------------------------
(* Properties. *)

\* The state has the shape the declarations of User, Users and miRCOps give it;
\* an object that is off holds nothing, so a later connection may reuse it.
TypeOK ==
    /\ conn \in [Conn -> {"off", "new", "on", "remote"}]
    /\ nick \in [Conn -> Nick]
    /\ registry \in [Key -> Conn \cup {NoConn}]
    /\ operFlag \subseteq Conn /\ regFlag \subseteq Conn /\ exited \subseteq Conn
    /\ ircops \subseteq Nick
    /\ nicksDB \subseteq Key /\ opersDB \subseteq Key

\* The map Users and the fields mNickName agree in both directions: an entry
\* leads to a user that is online under that nickname (no entry outlives its
\* object), and every online user is found under its own nickname.  NICK, ghosting,
\* the case-only change, Exit, QUIT and the messages of other servers all edit the
\* map in a different order.
RegistryExact ==
    /\ \A k \in Key : registry[k] # NoConn =>
          conn[registry[k]] \in Online /\ Fold[nick[registry[k]]] = k
    /\ \A u \in Conn : conn[u] \in Online => registry[Fold[nick[u]]] = u

\* The local users with mode r whose nickname is not in the table NICKS.
Unbacked == {u \in regFlag : conn[u] = "on" /\ Fold[nick[u]] \notin nicksDB}

\* Mode r of a local user and the row of his nickname are changed by different
\* commands of different users: NICK in all its branches, NS REGISTER and DROP, OS
\* DROP, ghosting, the HTTP API.  While statements succeed, none of this server parts
\* them: other servers do (DB deletes the row of a user whom UMODE -r does not reach,
\* or not yet), and mode r they left without a row goes no further than the nickname
\* it was left with.
OwnCommandsKeepIdentity ==
    [][(\E u \in Unbacked' : u \notin Unbacked \/ Fold[nick'[u]] # Fold[nick[u]])
            => ~LocalNext]_vars

\* A nickname passes from one user directly to another only when the second one
\* gave the password of that registered nickname (the ghosting branch of NICK);
\* a collision between servers frees the nickname or leaves its holder.
TakeoverNeedsLogin ==
    [][\A k \in Key :
          (registry[k] # NoConn /\ registry'[k] \notin {NoConn, registry[k]}) =>
              k \in nicksDB /\ registry'[k] \in regFlag']_vars

\* A local operator who takes another nickname stays operator only if that
\* nickname is in the table OPERS.
OperFollowsTable ==
    [][\A u \in operFlag' :
          (conn[u] = "on" /\ conn'[u] = "on" /\ Fold[nick'[u]] # Fold[nick[u]]) =>
              Fold[nick'[u]] \in opersDB]_vars

=============================================================================
