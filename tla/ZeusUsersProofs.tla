-------------------------- MODULE ZeusUsersProofs --------------------------
(***************************************************************************)
(* The registry invariant of ZeusUsers and what its steps never do, for    *)
(* every set of users and nicknames and every tolower function.            *)
(***************************************************************************)
EXTENDS ZeusUsers, TLAPS

\* Nobody is online under the reserved nickname: what keeps a connection that
\* dropped or registered Default without a NICK apart from every online user.
NamedByChoice ==
    \A u \in Conn : /\ conn[u] \in Online => nick[u] \in Choosable
                    /\ conn[u] \notin Online => nick[u] = Default

IInv == TypeOK /\ RegistryExact /\ NamedByChoice

\* The holder of a nickname, if there is one, is online under it.
LEMMA HolderFacts ==
    ASSUME IInv, NEW n \in Nick
    PROVE  /\ Holder(n) \subseteq Conn
           /\ \A h \in Holder(n) : conn[h] \in Online /\ Fold[nick[h]] = Fold[n]
           /\ \A u \in Conn : conn[u] \in Online /\ Fold[nick[u]] = Fold[n] => u \in Holder(n)
           /\ Holder(n) = {} <=> registry[Fold[n]] = NoConn
BY FoldAssumption, NoConnAssumption DEF IInv, TypeOK, RegistryExact, Holder, Online

\* Making any set of users leave keeps the invariant.
LEMMA LeavePreserves ==
    ASSUME IInv, NEW V \in SUBSET Conn, Leave(V), UNCHANGED <<nicksDB, opersDB>>
    PROVE  IInv'
<1> USE FoldAssumption, NoConnAssumption, DefaultAssumption DEF Leave, Online
<1>1. TypeOK'
  BY DEF IInv, TypeOK, RegistryWithout, IrcopsWithout
<1>2. RegistryExact'
  BY DEF IInv, TypeOK, RegistryExact, RegistryWithout
<1>3. NamedByChoice'
  BY DEF IInv, TypeOK, NamedByChoice, Choosable
<1> QED BY <1>1, <1>2, <1>3 DEF IInv

\* Taking a nickname whose holders, and only they, have been made to leave.
LEMMA BecomesPreserves ==
    ASSUME IInv, NEW u \in Conn, NEW n \in Choosable, conn[u] \in Local,
           Fold[n] # Fold[nick[u]], Becomes(u, n, Holder(n)),
           UNCHANGED <<nicksDB, opersDB>>,
           \/ regFlag' = regFlag \ (Holder(n) \cup {u})
           \/ regFlag' = (regFlag \ Holder(n)) \cup {u} /\ Fold[n] \in nicksDB
    PROVE  IInv'
<1> USE FoldAssumption, NoConnAssumption, DefaultAssumption DEF Becomes, Online, Local
<1>0. n \in Nick /\ Fold[n] # Fold[Default] /\ u \notin Holder(n)
  BY HolderFacts DEF Choosable
<1>1. TypeOK'
  BY <1>0, HolderFacts DEF IInv, TypeOK, RegistryWithout, IrcopsWithout
<1>2. RegistryExact'
  <2>1. ASSUME NEW k \in Key, registry'[k] # NoConn
        PROVE  conn'[registry'[k]] \in Online /\ Fold[nick'[registry'[k]]] = k
    <3>1. CASE k = Fold[n]
      BY <3>1, <1>0 DEF IInv, TypeOK
    <3>2. CASE k # Fold[n]
      <4>1. registry'[k] = registry[k] /\ registry[k] # u /\ registry[k] \notin Holder(n)
        BY <3>2, <2>1, <1>0, HolderFacts DEF RegistryWithout, IInv, TypeOK, RegistryExact
      <4> QED BY <4>1, <2>1 DEF IInv, TypeOK, RegistryExact
    <3> QED BY <3>1, <3>2
  <2>2. ASSUME NEW v \in Conn, conn'[v] \in Online
        PROVE  registry'[Fold[nick'[v]]] = v
    <3>1. CASE v = u
      BY <3>1, <1>0 DEF IInv, TypeOK
    <3>2. CASE v # u
      <4>1. v \notin Holder(n) /\ conn[v] \in Online /\ nick'[v] = nick[v]
        BY <3>2, <2>2 DEF IInv, TypeOK
      <4>2. Fold[nick[v]] # Fold[n]
        BY <4>1, <1>0, HolderFacts
      <4>3. registry[Fold[nick[v]]] = v /\ nick[v] \in Nick
        BY <4>1 DEF IInv, RegistryExact, TypeOK
      <4>4. ~ \E w \in Holder(n) \cup {u} : conn[w] \in Online /\ Fold[nick[w]] = Fold[nick[v]]
        BY <4>1, <4>3, <3>2, <1>0, HolderFacts DEF IInv, RegistryExact
      <4> QED BY <4>1, <4>2, <4>3, <4>4 DEF RegistryWithout
    <3> QED BY <3>1, <3>2
  <2> QED BY <2>1, <2>2 DEF RegistryExact
<1>3. NamedByChoice'
  BY <1>0 DEF IInv, TypeOK, NamedByChoice, Choosable
<1> QED BY <1>1, <1>2, <1>3 DEF IInv

LEMMA InitEstablishes == Init => IInv
BY FoldAssumption, NoConnAssumption, DefaultAssumption
   DEF Init, IInv, TypeOK, RegistryExact, NamedByChoice, Online

\* Every command of a local user keeps the invariant.
LEMMA LocalStep == ASSUME IInv, LocalNext PROVE IInv'
<1> USE FoldAssumption, NoConnAssumption, DefaultAssumption
<1>1. ASSUME NEW u \in Conn, Accept(u) PROVE IInv'
  BY <1>1 DEF Accept, IInv, TypeOK, RegistryExact, NamedByChoice, Online
<1>2. ASSUME NEW u \in Conn, Quit(u) PROVE IInv'
  BY <1>2, LeavePreserves DEF Quit
<1>3. ASSUME NEW u \in Conn, OperLogin(u) PROVE IInv'
  BY <1>3 DEF OperLogin, IInv, TypeOK, RegistryExact, NamedByChoice
<1>4. ASSUME NEW u \in Conn, NsRegister(u) PROVE IInv'
  BY <1>4 DEF NsRegister, IInv, TypeOK, RegistryExact, NamedByChoice
<1>5. ASSUME NEW u \in Conn, NsDrop(u) PROVE IInv'
  BY <1>5 DEF NsDrop, IInv, TypeOK, RegistryExact, NamedByChoice
<1>6. ASSUME NEW u \in Conn, NEW n \in Choosable, NickRecase(u, n) PROVE IInv'
  BY <1>6 DEF NickRecase, IInv, TypeOK, RegistryExact, NamedByChoice,
              Choosable, Online
<1>7. ASSUME NEW u \in Conn, NEW n \in Choosable, NickIdentify(u, n) PROVE IInv'
  BY <1>7, BecomesPreserves DEF NickIdentify
<1>8. ASSUME NEW u \in Conn, NEW n \in Choosable, NickPlain(u, n) PROVE IInv'
  <2>1. Becomes(u, n, Holder(n)) /\ regFlag' = regFlag \ (Holder(n) \cup {u})
    BY <1>8 DEF NickPlain
  <2> QED BY <1>8, <2>1, BecomesPreserves DEF NickPlain
<1>9. ASSUME NEW u \in Conn, NEW n \in Nick,
             OsOperAdd(u, n) \/ OsOperDel(u, n) PROVE IInv'
  BY <1>9, HolderFacts DEF OsOperAdd, OsOperDel, IInv, TypeOK, RegistryExact, NamedByChoice
<1>10. ASSUME NEW u \in Conn, NEW n \in Nick, OsDrop(u, n) PROVE IInv'
  BY <1>10 DEF OsDrop, IInv, TypeOK, RegistryExact, NamedByChoice
<1>11. ASSUME NEW u \in Conn, NEW n \in Nick, OsKill(u, n) PROVE IInv'
  BY <1>11, HolderFacts, LeavePreserves DEF OsKill
<1>12. ASSUME NEW n \in Nick, ApiRegister(n) \/ ApiDrop(n) PROVE IInv'
  BY <1>12, HolderFacts DEF ApiRegister, ApiDrop, IInv, TypeOK, RegistryExact, NamedByChoice
<1> QED
  BY <1>1, <1>2, <1>3, <1>4, <1>5, <1>6, <1>7, <1>8, <1>9, <1>10, <1>11, <1>12
     DEF LocalNext, UserNext

\* Every message of another server keeps the invariant.
LEMMA ServerStep == ASSUME IInv, ServerNext PROVE IInv'
<1> USE FoldAssumption, NoConnAssumption, DefaultAssumption
<1>0. \A n \in Choosable : n \in Nick
  BY DEF Choosable
<1>1. ASSUME NEW u \in Conn, NEW n \in Choosable, NEW M \in SUBSET {"o", "r"}, SnickNew(u, n, M)
      PROVE  IInv'
  <2>1. registry[Fold[n]] = NoConn
    BY <1>0, <1>1, HolderFacts DEF SnickNew
  <2>2. TypeOK' /\ RegistryExact'
    BY <1>0, <1>1, <2>1 DEF SnickNew, IInv, TypeOK, RegistryExact, Online
  <2>3. NamedByChoice'
    BY <1>0, <1>1 DEF SnickNew, IInv, TypeOK, NamedByChoice, Online
  <2> QED BY <2>2, <2>3 DEF IInv
<1>2. ASSUME NEW u \in Conn, NEW n \in Choosable, ServerNick(u, n) PROVE IInv'
  <2>1. registry[Fold[n]] = NoConn
    BY <1>0, <1>2, HolderFacts DEF ServerNick
  <2>2. TypeOK' /\ RegistryExact'
    BY <1>0, <1>2, <2>1 DEF ServerNick, IInv, TypeOK, RegistryExact, Online
  <2>3. NamedByChoice'
    BY <1>0, <1>2 DEF ServerNick, IInv, TypeOK, NamedByChoice, Online
  <2> QED BY <2>2, <2>3 DEF IInv
<1>3. ASSUME NEW n \in Choosable, SnickLocal(n) \/ ServerQuit(n) PROVE IInv'
  BY <1>0, <1>3, HolderFacts, LeavePreserves DEF SnickLocal, ServerQuit
<1>4. ASSUME NEW n \in Choosable, SnickRemote(n) PROVE IInv'
  BY <1>0, <1>4, HolderFacts DEF SnickRemote, IInv, TypeOK, RegistryExact, NamedByChoice,
                                 IrcopsWithout
<1>5. ASSUME NEW n \in Choosable, NEW add \in BOOLEAN, ServerOper(n, add) PROVE IInv'
  BY <1>0, <1>5, HolderFacts DEF ServerOper, IInv, TypeOK, RegistryExact, NamedByChoice
<1>6. ASSUME NEW n \in Choosable, NEW add \in BOOLEAN, ServerReg(n, add) PROVE IInv'
  BY <1>0, <1>6, HolderFacts DEF ServerReg, IInv, TypeOK, RegistryExact, NamedByChoice
<1>7. ASSUME NEW k \in Key, NEW add \in BOOLEAN, ServerDB(k, add) PROVE IInv'
  BY <1>7 DEF ServerDB, IInv, TypeOK, RegistryExact, NamedByChoice
<1> QED BY <1>1, <1>2, <1>3, <1>4, <1>5, <1>6, <1>7 DEF ServerNext

\* IInv is inductive.
LEMMA StepPreserves == IInv /\ [Next]_vars => IInv'
<1> SUFFICES ASSUME IInv, [Next]_vars PROVE IInv'
  OBVIOUS
<1>1. CASE LocalNext BY <1>1, LocalStep
<1>2. CASE ServerNext BY <1>2, ServerStep
<1>3. CASE UNCHANGED vars
  BY <1>3 DEF vars, IInv, TypeOK, RegistryExact, NamedByChoice
<1> QED BY <1>1, <1>2, <1>3 DEF Next

LEMMA Invariance == Spec => []IInv
BY InitEstablishes, StepPreserves, PTL DEF Spec

\* Every field keeps the type its declaration gives it, whatever handlers run.
THEOREM UsersTypeCorrect == Spec => []TypeOK
BY Invariance, PTL DEF IInv

\* The map Users never holds a dangling entry, never misses an online user and
\* never gives two users one nickname.
THEOREM RegistryIsExact == Spec => []RegistryExact
BY Invariance, PTL DEF IInv

\* No command of this server makes an Unbacked user, or gives one another nickname.
LEMMA LocalKeeps ==
    ASSUME IInv, LocalNext, NEW v \in Unbacked'
    PROVE  v \in Unbacked /\ Fold[nick'[v]] = Fold[nick[v]]
<1> DEFINE Same == conn[v] = "on" /\ nick'[v] = nick[v] /\ v \in regFlag
<1>0. /\ v \in Conn /\ v \in regFlag' /\ conn'[v] = "on"
      /\ Fold[nick'[v]] \notin nicksDB'
  BY LocalStep DEF Unbacked, IInv, TypeOK
<1>1. ASSUME Same, nicksDB \subseteq nicksDB'
      PROVE  v \in Unbacked /\ Fold[nick'[v]] = Fold[nick[v]]
  BY <1>0, <1>1 DEF Unbacked
<1>2. ASSUME NEW u \in Conn, NEW n \in Nick, Quit(u) \/ OsKill(u, n)
      PROVE  Same /\ nicksDB' = nicksDB
  BY <1>0, <1>2 DEF Quit, OsKill, Leave, IInv, TypeOK
<1>3. ASSUME NEW u \in Conn, NEW n \in Nick,
             Accept(u) \/ OperLogin(u) \/ OsOperAdd(u, n) \/ OsOperDel(u, n)
      PROVE  Same /\ nicksDB' = nicksDB
  BY <1>0, <1>3 DEF Accept, OperLogin, OsOperAdd, OsOperDel, IInv, TypeOK
<1>4. ASSUME NEW u \in Conn, NsRegister(u) PROVE Same /\ nicksDB \subseteq nicksDB'
  BY <1>0, <1>4 DEF NsRegister
<1>5. ASSUME NEW n \in Nick, ApiRegister(n) PROVE Same /\ nicksDB \subseteq nicksDB'
  \* the holder of the nickname has its row now
  BY <1>0, <1>5, HolderFacts DEF ApiRegister, IInv, TypeOK
<1>6. ASSUME NEW u \in Conn, NEW n \in Choosable, NickRecase(u, n)
      PROVE  v \in Unbacked /\ Fold[nick'[v]] = Fold[nick[v]]
  BY <1>0, <1>6 DEF NickRecase, Unbacked, IInv, TypeOK
<1>7. ASSUME NEW u \in Conn, NEW n \in Choosable, NickIdentify(u, n) \/ NickPlain(u, n)
      PROVE  Same /\ nicksDB' = nicksDB
  <2>1. nicksDB' = nicksDB /\ n \in Nick
    BY <1>7 DEF NickIdentify, NickPlain, Choosable
  <2>2. v # u
    \* u has the row of its new nickname, or no mode r
    BY <1>0, <1>7, <2>1 DEF NickIdentify, NickPlain, Becomes, IInv, TypeOK
  <2>3. v \in regFlag
    BY <1>0, <1>7, <2>2 DEF NickIdentify, NickPlain
  <2>4. conn[v] = "on" /\ nick'[v] = nick[v]
    BY <1>0, <1>7, <2>2 DEF NickIdentify, NickPlain, Becomes, IInv, TypeOK
  <2> QED BY <2>1, <2>3, <2>4
<1>8. ASSUME NEW k \in Key, nicksDB' = nicksDB \ {k}, UNCHANGED <<conn, nick>>,
             regFlag' \subseteq regFlag,
             \A w \in regFlag' : conn[w] = "on" => Fold[nick[w]] # k
      PROVE  v \in Unbacked /\ Fold[nick'[v]] = Fold[nick[v]]
  BY <1>0, <1>8 DEF Unbacked
<1>9. ASSUME NEW u \in Conn, NsDrop(u) PROVE v \in Unbacked /\ Fold[nick'[v]] = Fold[nick[v]]
  <2> DEFINE k == Fold[nick[u]]
  <2>1. k \in Key /\ u \notin regFlag'
    BY <1>9, FoldAssumption DEF NsDrop, IInv, TypeOK
  <2>2. ASSUME NEW w \in regFlag', conn[w] = "on" PROVE Fold[nick[w]] # k
    <3>1. w \in Conn /\ w # u
      BY <1>9, <2>1 DEF NsDrop, IInv, TypeOK
    <3>2. CASE conn[u] = "on"
      \* two online users never share a key
      BY <2>2, <3>1, <3>2 DEF IInv, RegistryExact, Online
    <3>3. CASE conn[u] = "new"
      BY <2>2, <3>1, <3>3 DEF IInv, NamedByChoice, Choosable, Online
    <3> QED BY <1>9, <3>2, <3>3 DEF NsDrop, Local
  <2> QED BY <1>8, <1>9, <2>1, <2>2 DEF NsDrop
<1>10. ASSUME NEW u \in Conn, NEW n \in Nick, OsDrop(u, n) \/ ApiDrop(n)
       PROVE  v \in Unbacked /\ Fold[nick'[v]] = Fold[nick[v]]
  <2>1. Fold[n] \in Key /\ nicksDB' = nicksDB \ {Fold[n]} /\ UNCHANGED <<conn, nick>>
        /\ regFlag' \subseteq regFlag
    BY <1>10, FoldAssumption DEF OsDrop, ApiDrop
  <2>2. ASSUME NEW w \in regFlag', conn[w] = "on" PROVE Fold[nick[w]] # Fold[n]
    \* mode r of the holder goes with the row, and he is the only one of that key
    BY <1>10, <2>1, <2>2, HolderFacts DEF OsDrop, ApiDrop, Local, Online, IInv, TypeOK
  <2> QED BY <1>8, <2>1, <2>2
<1> QED
  <2> DEFINE Kept == v \in Unbacked /\ Fold[nick'[v]] = Fold[nick[v]]
             Grows == Same /\ nicksDB \subseteq nicksDB'
  <2>1. Grows => Kept
    BY <1>1
  <2>2. ASSUME NEW u \in Conn,
               Accept(u) \/ Quit(u) \/ OperLogin(u) \/ NsRegister(u) \/ NsDrop(u)
        PROVE  Kept
    <3>1. Accept(u) \/ Quit(u) \/ OperLogin(u) \/ NsRegister(u) => Grows
      BY <1>2, <1>3, <1>4, DefaultAssumption
    <3> QED BY <2>1, <2>2, <3>1, <1>9
  <2>3. ASSUME NEW u \in Conn, NEW n \in Choosable,
               NickRecase(u, n) \/ NickIdentify(u, n) \/ NickPlain(u, n)
        PROVE  Kept
    <3>1. NickIdentify(u, n) \/ NickPlain(u, n) => Grows
      BY <1>7
    <3> QED BY <2>1, <2>3, <3>1, <1>6
  <2>4. ASSUME NEW u \in Conn, NEW n \in Nick,
               OsOperAdd(u, n) \/ OsOperDel(u, n) \/ OsDrop(u, n) \/ OsKill(u, n)
        PROVE  Kept
    <3>1. OsOperAdd(u, n) \/ OsOperDel(u, n) \/ OsKill(u, n) => Grows
      BY <1>2, <1>3
    <3> QED BY <2>1, <2>4, <3>1, <1>10
  <2>5. ASSUME NEW n \in Nick, ApiRegister(n) PROVE Kept
    BY <2>1, <2>5, <1>5
  <2>6. ASSUME NEW u \in Conn, NEW n \in Nick, ApiDrop(n) PROVE Kept
    BY <2>6, <1>10
  <2>7. Conn # {}
    BY <1>0
  <2> HIDE DEF Kept
  <2>8. Kept
    BY <2>2, <2>3, <2>4, <2>5, <2>6, <2>7 DEF LocalNext, UserNext
  <2> QED BY <2>8 DEF Kept

\* Mode r of a local user and the row of his nickname are parted by other servers
\* only, and a mode r they left without a row is never taken to another nickname.
THEOREM OwnCommandsAlwaysKeepIdentity == Spec => OwnCommandsKeepIdentity
<1> DEFINE Parted == \E u \in Unbacked' : u \notin Unbacked \/ Fold[nick'[u]] # Fold[nick[u]]
           Spared == Parted => ~LocalNext
<1>1. IInv => Spared
  BY LocalKeeps
<1>2. IInv => [Spared]_vars
  BY <1>1
<1> QED BY <1>2, Invariance, PTL DEF Spec, OwnCommandsKeepIdentity

\* A nickname that is taken passes directly to another user only through the
\* branch of NICK that checked the password of that registered nickname.
THEOREM TakeoversNeedLogin == Spec => TakeoverNeedsLogin
<1> DEFINE Takeover(k) == registry[k] # NoConn /\ registry'[k] \notin {NoConn, registry[k]}
           Allowed == \A k \in Key : Takeover(k) => k \in nicksDB /\ registry'[k] \in regFlag'
<1>1. ASSUME IInv, [Next]_vars PROVE Allowed
  <2> SUFFICES ASSUME NEW k \in Key, Takeover(k)
               PROVE  k \in nicksDB /\ registry'[k] \in regFlag'
    OBVIOUS
  <2>1. CASE LocalNext
    <3>1. PICK u \in Conn, n \in Choosable : NickIdentify(u, n) \/ NickPlain(u, n)
      BY <2>1 DEF LocalNext, UserNext, ApiRegister, ApiDrop, Accept, Quit, OperLogin, NsRegister,
             NsDrop, NickRecase, OsOperAdd, OsOperDel, OsDrop, OsKill, Leave, RegistryWithout
    <3>2. n \in Nick /\ k = Fold[n] /\ registry'[k] = u
      BY <3>1 DEF NickIdentify, NickPlain, Becomes, RegistryWithout, Choosable
    <3>3. NickIdentify(u, n)
      BY <1>1, <3>1, <3>2, HolderFacts DEF NickPlain
    <3> QED BY <3>2, <3>3 DEF NickIdentify
  <2>2. CASE ServerNext
    \* these messages move a nickname only when Users has no entry for it
    BY <1>1, <2>2, HolderFacts, FoldAssumption
       DEF ServerNext, SnickNew, ServerNick, SnickLocal, SnickRemote, ServerQuit, ServerOper,
           ServerReg, ServerDB, Leave, RegistryWithout, Choosable, IInv, TypeOK
  <2>3. CASE UNCHANGED vars
    BY <2>3 DEF vars
  <2> QED BY <1>1, <2>1, <2>2, <2>3 DEF Next
<1>2. ASSUME IInv, [Next]_vars PROVE [Allowed]_vars
  BY <1>1, <1>2
<1> QED BY <1>2, Invariance, PTL DEF Spec, TakeoverNeedsLogin

\* Mode o does not travel: after NICK an operator has a nickname of the table OPERS.
THEOREM OperatorsFollowTable == Spec => OperFollowsTable
<1> DEFINE Renamed(u) == conn[u] = "on" /\ conn'[u] = "on" /\ Fold[nick'[u]] # Fold[nick[u]]
           Listed == \A u \in operFlag' : Renamed(u) => Fold[nick'[u]] \in opersDB
<1>1. ASSUME IInv, [Next]_vars PROVE Listed
  <2> SUFFICES ASSUME NEW u \in operFlag', Renamed(u) PROVE Fold[nick'[u]] \in opersDB
    OBVIOUS
  <2>0. u \in Conn
    BY <1>1, StepPreserves DEF IInv, TypeOK
  <2>1. CASE LocalNext
    <3>1. PICK v \in Conn, n \in Choosable : NickIdentify(v, n) \/ NickPlain(v, n)
      BY <1>1, <2>0, <2>1
         DEF LocalNext, UserNext, ApiRegister, ApiDrop, Accept, Quit, OperLogin, NsRegister,
             NsDrop, NickRecase, OsOperAdd, OsOperDel, OsDrop, OsKill, Leave, IInv, TypeOK
    <3>2. \E V : Becomes(v, n, V)
      BY <3>1 DEF NickIdentify, NickPlain
    <3>3. PICK V : Becomes(v, n, V)
      BY <3>2
    <3>4. u = v /\ nick'[u] = n
      BY <2>0, <3>3 DEF Becomes
    <3> QED BY <3>3, <3>4 DEF Becomes, GainsOper, LosesOper
  <2>2. CASE ServerNext
    BY <1>1, <2>0, <2>2
       DEF ServerNext, SnickNew, ServerNick, SnickLocal, SnickRemote, ServerQuit, ServerOper,
           ServerReg, ServerDB, Leave, IInv, TypeOK
  <2>3. CASE UNCHANGED vars
    BY <2>3 DEF vars
  <2> QED BY <1>1, <2>1, <2>2, <2>3 DEF Next
<1>2. ASSUME IInv, [Next]_vars PROVE [Listed]_vars
  BY <1>1, <1>2
<1> QED BY <1>2, Invariance, PTL DEF Spec, OperFollowsTable

=============================================================================
