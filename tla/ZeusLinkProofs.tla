-------------------------- MODULE ZeusLinkProofs --------------------------
(***************************************************************************)
(* Proofs about ZeusLink, for any users, nicknames and channels and any    *)
(* number of commands at a time.  Inv adds to the types what the messages  *)
(* rely on: whoever a table or a channel shows has a nickname there, a     *)
(* user is renamed and leaves on his own server, and he is renamed only    *)
(* after he has entered.  The last part is about the work that is left of  *)
(* a command: every step makes it less.                                    *)
(***************************************************************************)
EXTENDS ZeusLink, FiniteSetTheorems, WellFoundedInduction, TLAPS

RegistryOK ==
    /\ home \in [User -> Server]
    /\ table \in [Server -> [Nick -> User \cup {Nobody}]]
    /\ nick \in [Server -> [User -> Nick \cup {NoNick}]]
    /\ \A s \in Server, n \in Nick : table[s][n] # Nobody => nick[s][table[s][n]] \in Nick

ChannelsOK ==
    /\ made \in [Server -> SUBSET Channel]
    /\ on \in [Server -> [Channel -> SUBSET User]]
    /\ ops \in [Server -> [Channel -> SUBSET User]]
    /\ \A s \in Server : \A c \in Channel \ made[s] : on[s][c] = {} /\ ops[s][c] = {}
    /\ \A s \in Server, c \in Channel : \A u \in on[s][c] : nick[s][u] \in Nick

SessionsOK == quit \subseteq User /\ exiting \subseteq quit

\* The steps a command of u may have left.
Good(u) ==
    {x \in Steps :
        /\ x.do \in {"cmdNick", "rename"} => x.at = home[u]
        /\ x.do = "rename" => nick[x.at][u] \in Nick
        /\ x.do = "Exit" => x.at = home[x.of[1]]}

TodoOK == todo \in [User -> Seq(Steps)] /\ \A u \in User : todo[u] \in Seq(Good(u))

HistoryOK == failed \subseteq Server /\ apart \subseteq Channel

Inv == RegistryOK /\ ChannelsOK /\ SessionsOK /\ TodoOK /\ HistoryOK

\* Nobody changes server, and who has a nickname keeps one.
Keeps ==
    /\ home' = home
    /\ \A s \in Server, u \in User : nick[s][u] \in Nick => nick'[s][u] \in Nick

-----------------------------------------------------------------------------
(* Steps. *)

LEMMA PeerIsServer == \A s \in Server : Peer(s) \in Server
  BY ServerAssumption DEF Peer

\* What each step is about.
LEMMA StepArgs ==
  ASSUME NEW x \in Steps
  PROVE  /\ x.at \in Server
         /\ x.do \in {"cmdNick", "rename"} => x.of \in User \X Nick
         /\ x.do = "NICK" => x.of \in Nick \X Nick
         /\ x.do = "SNICK" => x.of \in Nick \X User
         /\ x.do \in {"Exit", "exited", "Cycle"} => x.of[1] \in User
         /\ x.do \in {"QUIT", "SKILL"} => x.of[1] \in Nick
         /\ x.do \in {"CheckModes", "Cycle part", "Cycle join", "part"} => x.of \in User \X Channel
         /\ x.do = "SPART" => x.of \in Nick \X Channel
         /\ x.do = "SKICK" => x.of \in Nick \X Channel \X Nick
         /\ x.do = "SJOIN" => x.of \in Nick \X Channel \X {"o", "x"}
         /\ x.do = "CMODE" => x.of \in Channel \X {"+o", "-o"} \X Nick
         /\ x.do = "mode" => x.of \in Channel \X {"+o", "-o"} \X User
  <1>1. \/ x \in [at : Server, do : {"cmdNick", "rename"}, of : User \X Nick]
        \/ x \in [at : Server, do : {"NICK"}, of : Nick \X Nick]
        \/ x \in [at : Server, do : {"SNICK"}, of : Nick \X User]
        \/ x \in [at : Server, do : {"Exit", "exited", "Cycle"}, of : {<<u>> : u \in User}]
        \/ x \in [at : Server, do : {"QUIT", "SKILL"}, of : {<<n>> : n \in Nick}]
        \/ x \in [at : Server, do : {"CheckModes", "Cycle part", "Cycle join", "part"}, of : User \X Channel]
        \/ x \in [at : Server, do : {"SPART"}, of : Nick \X Channel]
        \/ x \in [at : Server, do : {"SKICK"}, of : Nick \X Channel \X Nick]
        \/ x \in [at : Server, do : {"SJOIN"}, of : Nick \X Channel \X {"o", "x"}]
        \/ x \in [at : Server, do : {"CMODE"}, of : Channel \X {"+o", "-o"} \X Nick]
        \/ x \in [at : Server, do : {"mode"}, of : Channel \X {"+o", "-o"} \X User]
        BY DEF Steps
  <1>2. CASE x \in [at : Server, do : {"cmdNick", "rename"}, of : User \X Nick]
        BY <1>2
  <1>3. CASE x \in [at : Server, do : {"NICK"}, of : Nick \X Nick]
        BY <1>3
  <1>4. CASE x \in [at : Server, do : {"SNICK"}, of : Nick \X User]
        BY <1>4
  <1>5. CASE x \in [at : Server, do : {"Exit", "exited", "Cycle"}, of : {<<u>> : u \in User}]
    <2>1. PICK u \in User : x.of = <<u>>
          BY <1>5
    <2>2. x.of[1] = u
          BY <2>1
    <2> QED BY <1>5, <2>2
  <1>6. CASE x \in [at : Server, do : {"QUIT", "SKILL"}, of : {<<n>> : n \in Nick}]
    <2>1. PICK n \in Nick : x.of = <<n>>
          BY <1>6
    <2>2. x.of[1] = n
          BY <2>1
    <2> QED BY <1>6, <2>2
  <1>7. CASE x \in [at : Server, do : {"CheckModes", "Cycle part", "Cycle join", "part"}, of : User \X Channel]
        BY <1>7
  <1>8. CASE x \in [at : Server, do : {"SPART"}, of : Nick \X Channel]
        BY <1>8
  <1>9. CASE x \in [at : Server, do : {"SKICK"}, of : Nick \X Channel \X Nick]
        BY <1>9
  <1>10. CASE x \in [at : Server, do : {"SJOIN"}, of : Nick \X Channel \X {"o", "x"}]
        BY <1>10
  <1>11. CASE x \in [at : Server, do : {"CMODE"}, of : Channel \X {"+o", "-o"} \X Nick]
        BY <1>11
  <1>12. CASE x \in [at : Server, do : {"mode"}, of : Channel \X {"+o", "-o"} \X User]
        BY <1>12
  <1> QED BY <1>1, <1>2, <1>3, <1>4, <1>5, <1>6, <1>7, <1>8, <1>9, <1>10, <1>11, <1>12

\* The other kinds of step say nothing of a state.
LEMMA FreeIsGood ==
  ASSUME NEW u \in User, NEW x \in Steps, x.do \notin {"cmdNick", "rename", "Exit"}
  PROVE  x \in Good(u)'
  BY DEF Good

\* The steps a user takes on his own server.
LEMMA OwnIsGood ==
  ASSUME RegistryOK, NEW u \in User, NEW n \in Nick
  PROVE  /\ Do(home[u], "cmdNick", <<u, n>>) \in Good(u)
         /\ nick[home[u]][u] \in Nick => Do(home[u], "rename", <<u, n>>) \in Good(u)
  <1>1. home[u] \in Server
        BY DEF RegistryOK
  <1>2. Do(home[u], "cmdNick", <<u, n>>) \in Steps /\ Do(home[u], "rename", <<u, n>>) \in Steps
        BY <1>1 DEF Do, Steps
  <1> QED BY <1>2 DEF Do, Good

LEMMA GoodStays ==
  ASSUME Keeps, NEW u \in User
  PROVE  Good(u) \subseteq Good(u)'
  <1> SUFFICES ASSUME NEW x \in Good(u) PROVE x \in Good(u)'
      OBVIOUS
  <1>1. x \in Steps /\ x.at \in Server
        BY StepArgs DEF Good
  <1> QED BY <1>1 DEF Good, Keeps

\* The next step, and its arguments.
LEMMA NextIsGood ==
  ASSUME TodoOK, NEW u \in User, NEW s, NEW kind, Doing(u, s, kind)
  PROVE  /\ todo[u] # <<>> /\ Next1(u) \in Good(u) /\ Next1(u) \in Steps
         /\ Next1(u).at = s /\ Next1(u).do = kind /\ s \in Server
  <1>1. todo[u] # <<>> /\ todo[u] \in Seq(Good(u))
        BY DEF Doing, TodoOK
  <1>2. Head(todo[u]) \in Good(u)
        BY <1>1
  <1> QED BY <1>1, <1>2, StepArgs DEF Doing, Next1, Good

LEMMA ThenIsGood ==
  ASSUME TodoOK, Keeps, NEW u \in User, todo[u] # <<>>,
         NEW steps \in Seq(Good(u)'), Then(u, steps)
  PROVE  TodoOK'
  <1>1. \A v \in User : todo[v] \in Seq(Good(v)')
        BY GoodStays DEF TodoOK
  <1>2. steps \o Tail(todo[u]) \in Seq(Good(u)')
        BY <1>1
  <1>3. \A v \in User : todo'[v] \in Seq(Good(v)')
        BY <1>1, <1>2 DEF Then, TodoOK
  <1>4. \A v \in User : Good(v)' \subseteq Steps
        BY DEF Good
  <1>5. \A v \in User : todo'[v] \in Seq(Steps)
        BY <1>3, <1>4
  <1>6. todo' = [v \in User |-> todo'[v]]
        BY DEF Then, TodoOK
  <1> QED BY <1>3, <1>5, <1>6 DEF TodoOK

LEMMA StartsIsGood ==
  ASSUME TodoOK, Keeps, NEW u \in User,
         NEW steps \in Seq(Good(u)'), Starts(u, steps)
  PROVE  TodoOK'
  <1>1. \A v \in User : todo[v] \in Seq(Good(v)')
        BY GoodStays DEF TodoOK
  <1>3. \A v \in User : todo'[v] \in Seq(Good(v)')
        BY <1>1 DEF Starts, TodoOK
  <1>4. \A v \in User : Good(v)' \subseteq Steps
        BY DEF Good
  <1>5. \A v \in User : todo'[v] \in Seq(Steps)
        BY <1>3, <1>4
  <1>6. todo' = [v \in User |-> todo'[v]]
        BY DEF Starts, TodoOK
  <1> QED BY <1>3, <1>5, <1>6 DEF TodoOK

\* Exit of a user of the server s.
LEMMA ExitIsGood ==
  ASSUME Keeps, NEW u \in User, NEW v \in User, NEW s \in Server, home[v] = s
  PROVE  Do(s, "Exit", <<v>>) \in Good(u)'
  <1>1. Do(s, "Exit", <<v>>) \in Steps
        BY DEF Do, Steps
  <1> QED BY <1>1 DEF Do, Good, Keeps

LEMMA FewAreGood ==
  ASSUME TodoOK, Keeps, NEW u \in User, todo[u] # <<>>,
         NEW x, NEW y,
         \/ Then(u, <<>>)
         \/ Then(u, <<x>>) /\ x \in Good(u)'
         \/ Then(u, <<x, y>>) /\ x \in Good(u)' /\ y \in Good(u)'
  PROVE  TodoOK'
  <1>1. <<>> \in Seq(Good(u)')
        OBVIOUS
  <1>2. x \in Good(u)' => <<x>> \in Seq(Good(u)')
        OBVIOUS
  <1>3. x \in Good(u)' /\ y \in Good(u)' => <<x, y>> \in Seq(Good(u)')
        OBVIOUS
  <1> QED BY <1>1, <1>2, <1>3, ThenIsGood

LEMMA StartsFewIsGood ==
  ASSUME TodoOK, Keeps, NEW u \in User,
         NEW x, NEW y,
         \/ Starts(u, <<>>)
         \/ Starts(u, <<x>>) /\ x \in Good(u)'
         \/ Starts(u, <<x, y>>) /\ x \in Good(u)' /\ y \in Good(u)'
  PROVE  TodoOK'
  <1>1. <<>> \in Seq(Good(u)')
        OBVIOUS
  <1>2. x \in Good(u)' => <<x>> \in Seq(Good(u)')
        OBVIOUS
  <1>3. x \in Good(u)' /\ y \in Good(u)' => <<x, y>> \in Seq(Good(u)')
        OBVIOUS
  <1> QED BY <1>1, <1>2, <1>3, StartsIsGood

LEMMA FailsIsGood ==
  ASSUME NEW s \in Server, Fails(s)
  PROVE  TodoOK' /\ failed' \subseteq Server
  BY DEF Fails, TodoOK


\* The channels of a user, in any order.
LEMMA InOrder ==
  ASSUME NEW C \in SUBSET Channel, NEW his \in SetToSeqs(C)
  PROVE  his \in Seq(Channel)
  <1>1. Cardinality(C) \in Nat
        BY ChannelAssumption, FS_Subset, FS_CardinalityType
  <1>2. his \in [1 .. Cardinality(C) -> C]
        BY DEF SetToSeqs
  <1> QED BY <1>1, <1>2

-----------------------------------------------------------------------------
(* What the objects do. *)

LEMMA SameRegistry ==
  ASSUME RegistryOK, UNCHANGED registry
  PROVE  RegistryOK' /\ Keeps
  BY DEF RegistryOK, Keeps, registry

LEMMA SameChannels ==
  ASSUME ChannelsOK, Keeps, UNCHANGED channels
  PROVE  ChannelsOK'
  <1>1. \A s \in Server, c \in Channel : \A u \in on'[s][c] : nick'[s][u] \in Nick
        BY DEF ChannelsOK, Keeps, channels
  <1> QED BY <1>1 DEF ChannelsOK, channels

LEMMA LeaveKeepsOrder ==
  ASSUME ChannelsOK, Keeps, NEW s \in Server, NEW u, NEW C, Leave(s, u, C)
  PROVE  ChannelsOK'
  <1>1. made' \in [Server -> SUBSET Channel]
        BY DEF ChannelsOK, Leave
  <1>2. on' \in [Server -> [Channel -> SUBSET User]] /\ ops' \in [Server -> [Channel -> SUBSET User]]
        BY DEF ChannelsOK, Leave
  <1>3. \A p \in Server, c \in Channel : on'[p][c] \subseteq on[p][c]
        BY DEF ChannelsOK, Leave
  <1>4. ASSUME NEW p \in Server, NEW c \in Channel \ made'[p]
        PROVE  on'[p][c] = {} /\ ops'[p][c] = {}
        BY <1>4 DEF ChannelsOK, Leave
  <1>5. \A p \in Server, c \in Channel : \A v \in on'[p][c] : nick'[p][v] \in Nick
        BY <1>3 DEF ChannelsOK, Keeps
  <1> QED BY <1>1, <1>2, <1>4, <1>5 DEF ChannelsOK

LEMMA RemoveUserKeepsOrder ==
  ASSUME ChannelsOK, Keeps, NEW s \in Server, NEW u, NEW C, RemoveUser(s, u, C), UNCHANGED made
  PROVE  ChannelsOK'
  <1>1. on' \in [Server -> [Channel -> SUBSET User]] /\ ops' \in [Server -> [Channel -> SUBSET User]]
        BY DEF ChannelsOK, RemoveUser
  <1>2. \A p \in Server, c \in Channel :
          on'[p][c] \subseteq on[p][c] /\ ops'[p][c] \subseteq ops[p][c]
        BY DEF ChannelsOK, RemoveUser
  <1>3. \A p \in Server, c \in Channel : \A v \in on'[p][c] : nick'[p][v] \in Nick
        BY <1>2 DEF ChannelsOK, Keeps
  <1>4. \A p \in Server : \A c \in Channel \ made'[p] : on'[p][c] = {} /\ ops'[p][c] = {}
        BY <1>2 DEF ChannelsOK
  <1> QED BY <1>1, <1>3, <1>4 DEF ChannelsOK

LEMMA MakeQuitKeepsOrder ==
  ASSUME RegistryOK, ChannelsOK, NEW s \in Server, NEW u \in User, nick[s][u] \in Nick,
         MakeQuit(s, u)
  PROVE  RegistryOK' /\ ChannelsOK' /\ Keeps
  <1>1. Keeps
        BY DEF MakeQuit, Keeps
  <1>2. ChannelsOK'
        BY <1>1, LeaveKeepsOrder DEF MakeQuit
  <1>3. RegistryOK'
        BY DEF MakeQuit, RegistryOK
  <1> QED BY <1>1, <1>2, <1>3

LEMMA AddUserKeepsOrder ==
  ASSUME RegistryOK, NEW s \in Server, NEW u \in User, NEW n \in Nick, AddUser(s, u, n)
  PROVE  RegistryOK' /\ Keeps
  BY NoneAssumption DEF AddUser, RegistryOK, Keeps

LEMMA MovedKeepsOrder ==
  ASSUME RegistryOK, NEW s \in Server, NEW old \in Nick, NEW new \in Nick,
         Changeable(s, old, new), table' = Moved(s, old, new), UNCHANGED home,
         \/ nick' = [nick EXCEPT ![s][table[s][old]] = new]
         \/ \E u \in User : nick' = [nick EXCEPT ![s][u] = new, ![s][table[s][old]] = new]
  PROVE  RegistryOK' /\ Keeps
  <1>1. table[s][old] \in User
        BY DEF Changeable, RegistryOK
  <1>2. ASSUME nick' = [nick EXCEPT ![s][table[s][old]] = new]
        PROVE  /\ nick' \in [Server -> [User -> Nick \cup {NoNick}]]
               /\ \A p \in Server, v \in User : nick'[p][v] \in {nick[p][v], new}
               /\ nick'[s][table[s][old]] = new
        BY <1>1, <1>2 DEF RegistryOK
  <1>3. ASSUME NEW u \in User, nick' = [nick EXCEPT ![s][u] = new, ![s][table[s][old]] = new]
        PROVE  /\ nick' \in [Server -> [User -> Nick \cup {NoNick}]]
               /\ \A p \in Server, v \in User : nick'[p][v] \in {nick[p][v], new}
               /\ nick'[s][table[s][old]] = new
    <2> DEFINE once == [nick EXCEPT ![s][u] = new]
    <2>1. /\ once \in [Server -> [User -> Nick \cup {NoNick}]]
          /\ \A p \in Server, v \in User : once[p][v] \in {nick[p][v], new}
          BY DEF RegistryOK
    <2>2. nick' = [once EXCEPT ![s][table[s][old]] = new]
          BY <1>3
    <2> HIDE DEF once
    <2> QED BY <2>1, <2>2, <1>1 DEF RegistryOK
  <1>4. /\ nick' \in [Server -> [User -> Nick \cup {NoNick}]]
        /\ \A p \in Server, v \in User : nick'[p][v] \in {nick[p][v], new}
        /\ nick'[s][table[s][old]] = new
        BY <1>2, <1>3
  <1>5. table' \in [Server -> [Nick -> User \cup {Nobody}]]
    <2> DEFINE once == [table EXCEPT ![s][new] = table[s][old]]
    <2>1. once \in [Server -> [Nick -> User \cup {Nobody}]]
          BY DEF RegistryOK
    <2>2. table' = [once EXCEPT ![s][old] = Nobody]
          BY DEF Moved
    <2> HIDE DEF once
    <2> QED BY <2>1, <2>2
  <1>6. Keeps
        BY <1>4 DEF Keeps
  <1>7. \A p \in Server, n \in Nick :
          table'[p][n] = Nobody \/ \E m \in Nick : table'[p][n] = table[p][m]
        BY DEF RegistryOK, Moved
  <1>8. \A p \in Server, n \in Nick : table'[p][n] # Nobody => nick'[p][table'[p][n]] \in Nick
        BY <1>6, <1>7 DEF RegistryOK, Keeps
  <1> QED BY <1>4, <1>5, <1>6, <1>8 DEF RegistryOK

-----------------------------------------------------------------------------
(* What the messages and the commands do. *)

USE DEF Inv

LEMMA NickIdentifyKeeps ==
  ASSUME Inv, NEW u \in User, NEW n \in Nick, NickIdentify(u, n)
  PROVE  Inv'
  <1> DEFINE s == home[u]
             h == table[s][n]
  <1>1. s \in Server /\ h \in User \cup {Nobody}
        BY DEF RegistryOK
  <1>2. RegistryOK' /\ ChannelsOK' /\ Keeps
    <2>1. CASE UNCHANGED <<registry, channels>>
          BY <2>1, SameRegistry, SameChannels
    <2>2. CASE MakeQuit(s, h) /\ h # Nobody
      <3>1. h \in User /\ nick[s][h] \in Nick
            BY <1>1, <2>2 DEF RegistryOK
      <3> QED BY <1>1, <2>2, <3>1, MakeQuitKeepsOrder
    <2> QED BY <2>1, <2>2 DEF NickIdentify, Ghost
  <1>3. GhostSteps(s, n) \in Seq(Good(u)')
    <2>1. Peer(s) \in Server
          BY <1>1, PeerIsServer
    <2>2. Do(Peer(s), "QUIT", <<n>>) \in Good(u)'
          BY <2>1, FreeIsGood DEF Do, Steps
    <2>3. ASSUME h \in User, Local(s, h)
          PROVE  Do(s, "Exit", <<h>>) \in Good(u)'
          BY <2>3, <1>1, <1>2, ExitIsGood DEF Local
    <2>4. Tell(s, "QUIT", <<n>>) = Do(Peer(s), "QUIT", <<n>>)
          BY DEF Tell
    <2> QED BY <1>1, <2>2, <2>3, <2>4 DEF GhostSteps
  <1>4. Do(s, "cmdNick", <<u, n>>) \in Good(u)'
    <2>1. Do(s, "cmdNick", <<u, n>>) \in Good(u)
          BY OwnIsGood
    <2> QED BY <2>1, <1>2, GoodStays
  <1>5. TodoOK'
    <2>1. GhostSteps(s, n) \o <<Do(s, "cmdNick", <<u, n>>)>> \in Seq(Good(u)')
          BY <1>3, <1>4
    <2>2. Starts(u, GhostSteps(s, n) \o <<Do(s, "cmdNick", <<u, n>>)>>)
          BY DEF NickIdentify
    <2> QED BY <2>1, <2>2, <1>2, StartsIsGood
  <1> QED BY <1>2, <1>5 DEF NickIdentify, SessionsOK, HistoryOK, sessions

LEMMA NickPlainKeeps ==
  ASSUME Inv, NEW u \in User, NEW n \in Nick, NickPlain(u, n)
  PROVE  Inv'
  <1>1. RegistryOK' /\ ChannelsOK' /\ Keeps
        BY SameRegistry, SameChannels DEF NickPlain
  <1>2. Do(home[u], "cmdNick", <<u, n>>) \in Good(u)'
        BY <1>1, OwnIsGood, GoodStays
  <1>3. TodoOK'
        BY <1>1, <1>2, StartsFewIsGood DEF NickPlain
  <1> QED BY <1>1, <1>3 DEF NickPlain, SessionsOK, HistoryOK, sessions

LEMMA CmdNickKeeps ==
  ASSUME Inv, NEW u \in User, NEW s, CmdNick(u, s)
  PROVE  Inv'
  <1> DEFINE n == Arg(u)[2]
  <1>1. /\ todo[u] # <<>> /\ Next1(u) \in Good(u) /\ s \in Server
        /\ Next1(u).at = s /\ Next1(u).do = "cmdNick"
        BY NextIsGood DEF CmdNick
  <1>2. n \in Nick /\ s = home[u]
        BY <1>1, StepArgs DEF Arg, Good
  <1>3. RegistryOK' /\ Keeps
        BY <1>1, <1>2, SameRegistry, AddUserKeepsOrder DEF CmdNick
  <1>4. ChannelsOK'
        BY <1>3, SameChannels DEF CmdNick
  <1>5. TodoOK'
    <2>1. CASE Then(u, <<>>)
          BY <2>1, <1>1, <1>3, FewAreGood
    <2>2. CASE Entered(u) /\ Then(u, <<Tell(s, "NICK", <<nick[s][u], n>>), Do(s, "rename", <<u, n>>)>>)
      <3>1. nick[s][u] \in Nick
            BY <2>2, <1>2 DEF Entered, RegistryOK
      <3>2. Do(s, "rename", <<u, n>>) \in Good(u)'
            BY <3>1, <1>2, <1>3, OwnIsGood, GoodStays
      <3>3. Tell(s, "NICK", <<nick[s][u], n>>) \in Good(u)'
            BY <3>1, <1>1, <1>2, PeerIsServer, FreeIsGood DEF Tell, Do, Steps
      <3> QED BY <3>2, <3>3, <2>2, <1>1, <1>3, FewAreGood
    <2>3. CASE Then(u, <<Tell(s, "SNICK", <<n, u>>)>>)
      <3>1. Tell(s, "SNICK", <<n, u>>) \in Good(u)'
            BY <1>1, <1>2, PeerIsServer, FreeIsGood DEF Tell, Do, Steps
      <3> QED BY <3>1, <2>3, <1>1, <1>3, FewAreGood
    <2> QED BY <2>1, <2>2, <2>3 DEF CmdNick
  <1> QED BY <1>3, <1>4, <1>5 DEF CmdNick, SessionsOK, HistoryOK, sessions

LEMMA RenameKeeps ==
  ASSUME Inv, NEW u \in User, NEW s, Rename(u, s)
  PROVE  Inv'
  <1> DEFINE n == Arg(u)[2]
             old == nick[s][u]
  <1>1. /\ todo[u] # <<>> /\ Next1(u) \in Good(u) /\ s \in Server
        /\ Next1(u).at = s /\ Next1(u).do = "rename"
        BY NextIsGood DEF Rename
  <1>2. n \in Nick /\ old \in Nick
        BY <1>1, StepArgs DEF Arg, Good
  <1>3. RegistryOK' /\ Keeps
    <2>1. CASE /\ Changeable(s, old, n) /\ table' = Moved(s, old, n)
               /\ nick' = [nick EXCEPT ![s][u] = n, ![s][table[s][old]] = n]
          BY <2>1, <1>1, <1>2, MovedKeepsOrder DEF Rename
    <2>2. CASE nick' = [nick EXCEPT ![s][u] = n] /\ UNCHANGED table
          BY <2>2, <1>1, <1>2 DEF Rename, RegistryOK, Keeps
    <2> QED BY <2>1, <2>2 DEF Rename
  <1>4. ChannelsOK'
        BY <1>3, SameChannels DEF Rename
  <1>5. TodoOK'
    <2>1. PICK his \in SetToSeqs(ChannelsOf(s, u)) :
            Then(u, [i \in DOMAIN his |-> Do(s, "CheckModes", <<u, his[i]>>)]
                    \o <<Do(s, "Cycle", <<u>>)>>)
          BY DEF Rename
    <2>2. his \in Seq(Channel)
          BY InOrder DEF ChannelsOf
    <2>3. \A c \in Channel : Do(s, "CheckModes", <<u, c>>) \in Good(u)'
          BY <1>1, FreeIsGood DEF Do, Steps
    <2>4. Do(s, "Cycle", <<u>>) \in Good(u)'
          BY <1>1, FreeIsGood DEF Do, Steps
    <2>5. [i \in DOMAIN his |-> Do(s, "CheckModes", <<u, his[i]>>)] \in Seq(Good(u)')
      <3>1. \A i \in 1 .. Len(his) : Do(s, "CheckModes", <<u, his[i]>>) \in Good(u)'
            BY <2>2, <2>3
      <3>2. DOMAIN his = 1 .. Len(his) /\ Len(his) \in Nat
            BY <2>2
      <3> QED BY <3>1, <3>2
    <2>6. [i \in DOMAIN his |-> Do(s, "CheckModes", <<u, his[i]>>)] \o <<Do(s, "Cycle", <<u>>)>>
            \in Seq(Good(u)')
          BY <2>4, <2>5
    <2> QED BY <2>1, <2>6, <1>1, <1>3, ThenIsGood
  <1> QED BY <1>3, <1>4, <1>5 DEF Rename, SessionsOK, HistoryOK, sessions

LEMMA SnickKeeps ==
  ASSUME Inv, NEW u \in User, NEW s, Snick(u, s)
  PROVE  Inv'
  <1> DEFINE n == Arg(u)[1]
             h == table[s][n]
  <1>1. /\ todo[u] # <<>> /\ Next1(u) \in Steps /\ s \in Server
        /\ Next1(u).at = s /\ Next1(u).do = "SNICK"
        BY NextIsGood DEF Snick
  <1>2. n \in Nick /\ Arg(u)[2] \in User
        BY <1>1, StepArgs DEF Arg
  <1>3. RegistryOK' /\ Keeps
        BY <1>1, <1>2, SameRegistry, AddUserKeepsOrder DEF Snick
  <1>4. ChannelsOK'
        BY <1>3, SameChannels DEF Snick
  <1>5. TodoOK'
    <2>1. CASE Then(u, <<>>)
          BY <2>1, <1>1, <1>3, FewAreGood
    <2>2. CASE h # Nobody /\ Local(s, h) /\ Then(u, <<Do(s, "Exit", <<h>>)>>)
      <3>1. h \in User /\ home[h] = s
            BY <2>2, <1>1, <1>2 DEF RegistryOK, Local
      <3>2. Do(s, "Exit", <<h>>) \in Good(u)'
            BY <3>1, <1>1, <1>3, ExitIsGood
      <3> QED BY <3>2, <2>2, <1>1, <1>3, FewAreGood
    <2> QED BY <2>1, <2>2 DEF Snick
  <1> QED BY <1>3, <1>4, <1>5 DEF Snick, SessionsOK, HistoryOK, sessions

LEMMA ServerNickKeeps ==
  ASSUME Inv, NEW u \in User, NEW s, ServerNick(u, s)
  PROVE  Inv'
  <1>1. /\ todo[u] # <<>> /\ Next1(u) \in Steps /\ s \in Server
        /\ Next1(u).at = s /\ Next1(u).do = "NICK"
        BY NextIsGood DEF ServerNick
  <1>2. Arg(u)[1] \in Nick /\ Arg(u)[2] \in Nick
        BY <1>1, StepArgs DEF Arg
  <1>3. RegistryOK' /\ Keeps
        BY <1>1, <1>2, SameRegistry, MovedKeepsOrder DEF ServerNick, registry
  <1>4. ChannelsOK'
        BY <1>3, SameChannels DEF ServerNick
  <1>5. TodoOK'
        BY <1>1, <1>3, FewAreGood DEF ServerNick
  <1> QED BY <1>3, <1>4, <1>5 DEF ServerNick, SessionsOK, HistoryOK, sessions

LEMMA QuitKeeps ==
  ASSUME Inv, NEW u \in User, Quit(u)
  PROVE  Inv'
  <1>1. RegistryOK' /\ ChannelsOK' /\ Keeps
        BY SameRegistry, SameChannels DEF Quit
  <1>2. Do(home[u], "Exit", <<u>>) \in Good(u)'
    <2>1. home[u] \in Server
          BY DEF RegistryOK
    <2> QED BY <2>1, <1>1, ExitIsGood
  <1>3. TodoOK'
        BY <1>1, <1>2, StartsFewIsGood DEF Quit
  <1> QED BY <1>1, <1>3 DEF Quit, SessionsOK, HistoryOK, sessions

LEMMA KillKeeps ==
  ASSUME Inv, NEW u \in User, NEW v \in User, Kill(u, v)
  PROVE  Inv'
  <1> DEFINE s == home[u]
  <1>1. s \in Server /\ nick[s][v] \in Nick
        BY DEF RegistryOK, Kill, Known
  <1>2. RegistryOK' /\ ChannelsOK' /\ Keeps
    <2>1. CASE UNCHANGED <<registry, channels>>
          BY <2>1, SameRegistry, SameChannels
    <2>2. CASE MakeQuit(s, v)
          BY <2>2, <1>1, MakeQuitKeepsOrder
    <2> QED BY <2>1, <2>2 DEF Kill
  <1>3. TodoOK'
    <2>1. CASE Local(s, v) /\ Starts(u, <<Do(s, "Exit", <<v>>)>>)
      <3>1. Do(s, "Exit", <<v>>) \in Good(u)'
            BY <1>1, <1>2, <2>1, ExitIsGood DEF Local
      <3> QED BY <3>1, <2>1, <1>2, StartsFewIsGood
    <2>2. CASE Starts(u, <<Tell(s, "SKILL", <<nick[s][v]>>)>>)
      <3>1. Tell(s, "SKILL", <<nick[s][v]>>) \in Good(u)'
            BY <1>1, PeerIsServer, FreeIsGood DEF Tell, Do, Steps
      <3> QED BY <3>1, <2>2, <1>2, StartsFewIsGood
    <2> QED BY <2>1, <2>2 DEF Kill
  <1> QED BY <1>2, <1>3 DEF Kill, SessionsOK, HistoryOK, sessions

LEMMA ExitKeeps ==
  ASSUME Inv, NEW u \in User, NEW s, Exit(u, s)
  PROVE  Inv'
  <1> DEFINE v == Arg(u)[1]
  <1>1. /\ todo[u] # <<>> /\ Next1(u) \in Good(u) /\ Next1(u) \in Steps /\ s \in Server
        /\ Next1(u).at = s /\ Next1(u).do = "Exit"
        BY NextIsGood DEF Exit
  <1>2. v \in User /\ home[v] = s
        BY <1>1, StepArgs DEF Arg, Good
  <1>3. SessionsOK' /\ HistoryOK'
        BY <1>2 DEF Exit, SessionsOK, HistoryOK, sessions
  <1>4. CASE Then(u, <<>>) /\ UNCHANGED <<registry, channels>>
    <2>1. RegistryOK' /\ ChannelsOK' /\ Keeps
          BY <1>4, SameRegistry, SameChannels
    <2>2. TodoOK'
          BY <2>1, <1>1, <1>4, FewAreGood
    <2> QED BY <2>1, <2>2, <1>3
  <1>5. CASE /\ Entered(v) /\ MakeQuit(s, v)
             /\ Then(u, <<Tell(s, "QUIT", <<nick[s][v]>>), Do(s, "exited", <<v>>)>>)
    <2>1. nick[s][v] \in Nick
          BY <1>2, <1>5 DEF Entered, RegistryOK
    <2>2. RegistryOK' /\ ChannelsOK' /\ Keeps
          BY <2>1, <1>1, <1>2, <1>5, MakeQuitKeepsOrder
    <2>3. Tell(s, "QUIT", <<nick[s][v]>>) \in Good(u)'
          BY <2>1, <1>1, PeerIsServer, FreeIsGood DEF Tell, Do, Steps
    <2>4. Do(s, "exited", <<v>>) \in Good(u)'
          BY <1>1, <1>2, FreeIsGood DEF Do, Steps
    <2>5. TodoOK'
          BY <2>2, <2>3, <2>4, <1>1, <1>5, FewAreGood
    <2> QED BY <2>2, <2>5, <1>3
  <1> QED BY <1>4, <1>5 DEF Exit

LEMMA ExitedKeeps ==
  ASSUME Inv, NEW u \in User, NEW s, Exited(u, s)
  PROVE  Inv'
  <1>1. todo[u] # <<>>
        BY NextIsGood DEF Exited
  <1>2. RegistryOK' /\ ChannelsOK' /\ Keeps
        BY SameRegistry, SameChannels DEF Exited
  <1>3. TodoOK'
        BY <1>1, <1>2, FewAreGood DEF Exited
  <1> QED BY <1>2, <1>3 DEF Exited, SessionsOK, HistoryOK

LEMMA ServerQuitKeeps ==
  ASSUME Inv, NEW u \in User, NEW s, ServerQuit(u, s)
  PROVE  Inv'
  <1> DEFINE v == table[s][Arg(u)[1]]
  <1>1. /\ todo[u] # <<>> /\ Next1(u) \in Steps /\ s \in Server
        /\ Next1(u).at = s /\ Next1(u).do \in {"QUIT", "SKILL"}
        BY NextIsGood DEF ServerQuit
  <1>2. v \in User \cup {Nobody} /\ (v # Nobody => nick[s][v] \in Nick)
    <2>1. Arg(u)[1] \in Nick
          BY <1>1, StepArgs DEF Arg
    <2> QED BY <2>1, <1>1 DEF RegistryOK
  <1>3. SessionsOK' /\ HistoryOK'
        BY DEF ServerQuit, SessionsOK, HistoryOK, sessions
  <1>4. CASE Then(u, <<>>) /\ UNCHANGED <<registry, channels>>
    <2>1. RegistryOK' /\ ChannelsOK' /\ Keeps
          BY <1>4, SameRegistry, SameChannels
    <2> QED BY <2>1, <1>1, <1>3, <1>4, FewAreGood
  <1>5. CASE /\ v # Nobody /\ Local(s, v) /\ UNCHANGED <<registry, channels>>
             /\ Then(u, <<Do(s, "Exit", <<v>>)>>)
    <2>1. RegistryOK' /\ ChannelsOK' /\ Keeps
          BY <1>5, SameRegistry, SameChannels
    <2>2. Do(s, "Exit", <<v>>) \in Good(u)'
          BY <1>1, <1>2, <1>5, <2>1, ExitIsGood DEF Local
    <2> QED BY <2>1, <2>2, <1>1, <1>3, <1>5, FewAreGood
  <1>6. CASE v # Nobody /\ Then(u, <<>>) /\ MakeQuit(s, v)
    <2>1. RegistryOK' /\ ChannelsOK' /\ Keeps
          BY <1>1, <1>2, <1>6, MakeQuitKeepsOrder
    <2> QED BY <2>1, <1>1, <1>3, <1>6, FewAreGood
  <1> QED BY <1>4, <1>5, <1>6 DEF ServerQuit

LEMMA JoinFreeKeeps ==
  ASSUME Inv, NEW u \in User, NEW c \in Channel, JoinFree(u, c)
  PROVE  Inv'
  <1> DEFINE s == home[u]
  <1>1. s \in Server /\ nick[s][u] \in Nick
        BY DEF RegistryOK, JoinFree, Entered
  <1>2. RegistryOK' /\ Keeps
        BY SameRegistry DEF JoinFree
  <1>3. ChannelsOK'
    <2>1. made' \in [Server -> SUBSET Channel] /\ on' \in [Server -> [Channel -> SUBSET User]]
      <3>1. made[s] \cup {c} \in SUBSET Channel /\ on[s][c] \cup {u} \in SUBSET User
            BY <1>1 DEF ChannelsOK
      <3> QED BY <3>1 DEF JoinFree, ChannelsOK
    <2>4. ops' \in [Server -> [Channel -> SUBSET User]]
      <3>1. UNCHANGED ops \/ ops' = [ops EXCEPT ![s][c] = {u}]
            BY DEF JoinFree
      <3>2. {u} \in SUBSET User
            OBVIOUS
      <3>3. CASE UNCHANGED ops
            BY <3>3 DEF ChannelsOK
      <3>4. CASE ops' = [ops EXCEPT ![s][c] = {u}]
            BY <3>4, <3>2, <1>1 DEF ChannelsOK
      <3> QED BY <3>1, <3>3, <3>4
    <2>2. \A p \in Server : \A d \in Channel \ made'[p] : on'[p][d] = {} /\ ops'[p][d] = {}
          BY <1>1 DEF JoinFree, ChannelsOK
    <2>3. \A p \in Server, d \in Channel : \A v \in on'[p][d] : nick[p][v] \in Nick
          BY <1>1 DEF JoinFree, ChannelsOK
    <2> QED BY <2>1, <2>2, <2>3, <2>4 DEF JoinFree, ChannelsOK, registry
  <1>4. TodoOK'
    <2>1. PICK mode \in {"o", "x"} : Starts(u, <<Tell(s, "SJOIN", <<nick[s][u], c, mode>>)>>)
          BY DEF JoinFree
    <2>2. Tell(s, "SJOIN", <<nick[s][u], c, mode>>) \in Good(u)'
          BY <1>1, PeerIsServer, FreeIsGood DEF Tell, Do, Steps
    <2> QED BY <2>1, <2>2, <1>2, StartsFewIsGood
  <1> QED BY <1>2, <1>3, <1>4 DEF JoinFree, SessionsOK, HistoryOK, sessions

LEMMA JoinRegisteredKeeps ==
  ASSUME Inv, NEW u \in User, NEW c \in Channel, JoinRegistered(u, c)
  PROVE  Inv'
  <1> DEFINE s == home[u]
  <1>1. s \in Server /\ nick[s][u] \in Nick
        BY DEF RegistryOK, JoinRegistered, Entered
  <1>2. RegistryOK' /\ Keeps
        BY SameRegistry DEF JoinRegistered
  <1>3. ChannelsOK'
    <2>1. made' \in [Server -> SUBSET Channel] /\ on' \in [Server -> [Channel -> SUBSET User]]
      <3>1. made[s] \cup {c} \in SUBSET Channel /\ on[s][c] \cup {u} \in SUBSET User
            BY <1>1 DEF ChannelsOK
      <3> QED BY <3>1 DEF JoinRegistered, ChannelsOK
    <2>2. \A p \in Server : \A d \in Channel \ made'[p] : on'[p][d] = {} /\ ops'[p][d] = {}
          BY <1>1 DEF JoinRegistered, ChannelsOK
    <2>3. \A p \in Server, d \in Channel : \A v \in on'[p][d] : nick[p][v] \in Nick
          BY <1>1 DEF JoinRegistered, ChannelsOK
    <2> QED BY <2>1, <2>2, <2>3 DEF JoinRegistered, ChannelsOK, registry
  <1>4. TodoOK'
    <2>1. Do(s, "CheckModes", <<u, c>>) \in Good(u)'
          BY <1>1, FreeIsGood DEF Do, Steps
    <2> QED BY <2>1, <1>2, StartsFewIsGood DEF JoinRegistered
  <1> QED BY <1>2, <1>3, <1>4 DEF JoinRegistered, SessionsOK, HistoryOK, sessions

\* Only the operators of a channel change.
LEMMA OpsKeepOrder ==
  ASSUME ChannelsOK, Keeps, NEW s \in Server, NEW c \in made[s], NEW set \in SUBSET User,
         ops' = [ops EXCEPT ![s][c] = set], UNCHANGED <<made, on>>
  PROVE  ChannelsOK'
  <1>1. ops' \in [Server -> [Channel -> SUBSET User]]
        BY DEF ChannelsOK
  <1>2. \A p \in Server : \A d \in Channel \ made'[p] : on'[p][d] = {} /\ ops'[p][d] = {}
        BY DEF ChannelsOK
  <1>3. \A p \in Server, d \in Channel : \A v \in on'[p][d] : nick'[p][v] \in Nick
        BY DEF ChannelsOK, Keeps
  <1> QED BY <1>1, <1>2, <1>3 DEF ChannelsOK

LEMMA CheckModesKeeps ==
  ASSUME Inv, NEW u \in User, NEW s, CheckModes(u, s)
  PROVE  Inv'
  <1> DEFINE v == Arg(u)[1]
             c == Arg(u)[2]
  <1>1. /\ todo[u] # <<>> /\ Next1(u) \in Steps /\ s \in Server
        /\ Next1(u).at = s /\ Next1(u).do = "CheckModes"
        BY NextIsGood DEF CheckModes
  <1>2. v \in User /\ c \in Channel
        BY <1>1, StepArgs DEF Arg
  <1>3. RegistryOK' /\ Keeps
        BY SameRegistry DEF CheckModes
  <1>4. CASE Then(u, <<>>) /\ UNCHANGED ops
    <2>1. ChannelsOK'
          BY <1>3, <1>4, SameChannels DEF CheckModes, channels
    <2> QED BY <2>1, <1>1, <1>3, <1>4, FewAreGood DEF CheckModes, SessionsOK, HistoryOK, sessions
  <1>5. ASSUME NEW set \in SUBSET User, NEW sign \in {"+o", "-o"}, v \in on[s][c],
               ops' = [ops EXCEPT ![s][c] = set],
               Then(u, <<Tell(s, "CMODE", <<c, sign, nick[s][v]>>)>>)
        PROVE  Inv'
    <2>1. nick[s][v] \in Nick /\ c \in made[s]
          BY <1>1, <1>2, <1>5 DEF ChannelsOK
    <2>2. ChannelsOK'
          BY <2>1, <1>1, <1>3, <1>5, OpsKeepOrder DEF CheckModes
    <2>3. Tell(s, "CMODE", <<c, sign, nick[s][v]>>) \in Good(u)'
          BY <2>1, <1>1, <1>2, PeerIsServer, FreeIsGood DEF Tell, Do, Steps
    <2> QED BY <2>2, <2>3, <1>1, <1>3, <1>5, FewAreGood DEF CheckModes, SessionsOK, HistoryOK, sessions
  <1>6. ops[s][c] \cup {v} \in SUBSET User /\ ops[s][c] \ {v} \in SUBSET User
        BY <1>1, <1>2 DEF ChannelsOK
  <1>7. \/ Then(u, <<>>) /\ UNCHANGED ops
        \/ \E set \in {ops[s][c] \cup {v}, ops[s][c] \ {v}}, sign \in {"+o", "-o"} :
             /\ v \in on[s][c] /\ ops' = [ops EXCEPT ![s][c] = set]
             /\ Then(u, <<Tell(s, "CMODE", <<c, sign, nick[s][v]>>)>>)
        BY <1>1, <1>2 DEF CheckModes, ChannelsOK
  <1> QED BY <1>4, <1>5, <1>6, <1>7

LEMMA CycleKeeps ==
  ASSUME Inv, NEW u \in User, NEW s, Cycle(u, s)
  PROVE  Inv'
  <1>1. /\ todo[u] # <<>> /\ Next1(u) \in Steps /\ s \in Server
        /\ Next1(u).at = s /\ Next1(u).do = "Cycle"
        BY NextIsGood DEF Cycle
  <1>2. RegistryOK' /\ ChannelsOK' /\ Keeps
        BY SameRegistry, SameChannels DEF Cycle
  <1>3. TodoOK'
    <2>1. CASE Then(u, <<>>)
          BY <2>1, <1>1, <1>2, FewAreGood
    <2>2. ASSUME NEW his \in SetToSeqs(ChannelsOf(s, u)),
                 Then(u, [i \in DOMAIN his |-> Do(s, "Cycle part", <<u, his[i]>>)])
          PROVE  TodoOK'
      <3>1. his \in Seq(Channel)
            BY InOrder DEF ChannelsOf
      <3>2. \A c \in Channel : Do(s, "Cycle part", <<u, c>>) \in Good(u)'
            BY <1>1, FreeIsGood DEF Do, Steps
      <3>3. [i \in DOMAIN his |-> Do(s, "Cycle part", <<u, his[i]>>)] \in Seq(Good(u)')
        <4>1. DOMAIN his = 1 .. Len(his) /\ Len(his) \in Nat
              BY <3>1
        <4>2. \A i \in 1 .. Len(his) : his[i] \in Channel
              BY <3>1
        <4>3. \A i \in 1 .. Len(his) : Do(s, "Cycle part", <<u, his[i]>>) \in Good(u)'
              BY <4>2, <3>2
        <4> DEFINE f == [i \in DOMAIN his |-> Do(s, "Cycle part", <<u, his[i]>>)]
        <4>4. f = [i \in 1 .. Len(his) |-> f[i]] /\ \A i \in 1 .. Len(his) : f[i] \in Good(u)'
              BY <4>1, <4>3
        <4> HIDE DEF f
        <4>5. f \in Seq(Good(u)')
              BY <4>1, <4>4
        <4> QED BY <4>5 DEF f
      <3> QED BY <3>3, <2>2, <1>1, <1>2, ThenIsGood
    <2> QED BY <2>1, <2>2 DEF Cycle
  <1> QED BY <1>2, <1>3 DEF Cycle, SessionsOK, HistoryOK, sessions

LEMMA CyclePartKeeps ==
  ASSUME Inv, NEW u \in User, NEW s, CyclePart(u, s)
  PROVE  Inv'
  <1> DEFINE c == Arg(u)[2]
  <1>1. /\ todo[u] # <<>> /\ Next1(u) \in Steps /\ s \in Server
        /\ Next1(u).at = s /\ Next1(u).do = "Cycle part"
        BY NextIsGood DEF CyclePart
  <1>2. c \in Channel
        BY <1>1, StepArgs DEF Arg
  <1>3. RegistryOK' /\ ChannelsOK' /\ Keeps
        BY SameRegistry, SameChannels DEF CyclePart
  <1>4. TodoOK' /\ failed' \subseteq Server
    <2>1. CASE Fails(s)
          BY <2>1, <1>1, FailsIsGood
    <2>2. CASE /\ u \in on[s][c] /\ UNCHANGED failed
               /\ Then(u, <<Tell(s, "SPART", <<nick[s][u], c>>), Do(s, "Cycle join", <<u, c>>)>>)
      <3>1. nick[s][u] \in Nick
            BY <2>2, <1>1, <1>2 DEF ChannelsOK
      <3>2. Tell(s, "SPART", <<nick[s][u], c>>) \in Good(u)'
            BY <3>1, <1>1, <1>2, PeerIsServer, FreeIsGood DEF Tell, Do, Steps
      <3>3. Do(s, "Cycle join", <<u, c>>) \in Good(u)'
            BY <1>1, <1>2, FreeIsGood DEF Do, Steps
      <3>4. TodoOK'
            BY <3>2, <3>3, <2>2, <1>1, <1>3, FewAreGood
      <3> QED BY <3>4, <2>2 DEF HistoryOK
    <2> QED BY <2>1, <2>2 DEF CyclePart
  <1> QED BY <1>3, <1>4 DEF CyclePart, SessionsOK, HistoryOK, sessions

LEMMA CycleJoinKeeps ==
  ASSUME Inv, NEW u \in User, NEW s, CycleJoin(u, s)
  PROVE  Inv'
  <1> DEFINE c == Arg(u)[2]
             mode == IF u \in ops[s][c] THEN "o" ELSE "x"
  <1>1. /\ todo[u] # <<>> /\ Next1(u) \in Steps /\ s \in Server
        /\ Next1(u).at = s /\ Next1(u).do = "Cycle join"
        BY NextIsGood DEF CycleJoin
  <1>2. c \in Channel
        BY <1>1, StepArgs DEF Arg
  <1>3. RegistryOK' /\ ChannelsOK' /\ Keeps
        BY SameRegistry, SameChannels DEF CycleJoin
  <1>4. TodoOK' /\ failed' \subseteq Server
    <2>1. CASE Fails(s)
          BY <2>1, <1>1, FailsIsGood
    <2>2. CASE /\ u \in on[s][c] /\ UNCHANGED failed
               /\ Then(u, <<Do(s, "CheckModes", <<u, c>>), Tell(s, "SJOIN", <<nick[s][u], c, mode>>)>>)
      <3>1. nick[s][u] \in Nick
            BY <2>2, <1>1, <1>2 DEF ChannelsOK
      <3>2. Tell(s, "SJOIN", <<nick[s][u], c, mode>>) \in Good(u)'
            BY <3>1, <1>1, <1>2, PeerIsServer, FreeIsGood DEF Tell, Do, Steps
      <3>3. Do(s, "CheckModes", <<u, c>>) \in Good(u)'
            BY <1>1, <1>2, FreeIsGood DEF Do, Steps
      <3>4. TodoOK'
            BY <3>2, <3>3, <2>2, <1>1, <1>3, FewAreGood
      <3> QED BY <3>4, <2>2 DEF HistoryOK
    <2> QED BY <2>1, <2>2 DEF CycleJoin
  <1> QED BY <1>3, <1>4 DEF CycleJoin, SessionsOK, HistoryOK, sessions

LEMMA PartKeeps ==
  ASSUME Inv, NEW u \in User, NEW c \in Channel, Part(u, c)
  PROVE  Inv'
  <1> DEFINE s == home[u]
  <1>1. s \in Server /\ nick[s][u] \in Nick
        BY DEF RegistryOK, ChannelsOK, Part
  <1>2. RegistryOK' /\ ChannelsOK' /\ Keeps
        BY SameRegistry, SameChannels DEF Part
  <1>3. Tell(s, "SPART", <<nick[s][u], c>>) \in Good(u)'
        BY <1>1, PeerIsServer, FreeIsGood DEF Tell, Do, Steps
  <1>4. Do(s, "part", <<u, c>>) \in Good(u)'
        BY <1>1, FreeIsGood DEF Do, Steps
  <1>5. TodoOK'
        BY <1>2, <1>3, <1>4, StartsFewIsGood DEF Part
  <1> QED BY <1>2, <1>5 DEF Part, SessionsOK, HistoryOK, sessions

LEMMA ChannelPartKeeps ==
  ASSUME Inv, NEW u \in User, NEW s, ChannelPart(u, s)
  PROVE  Inv'
  <1> DEFINE c == Arg(u)[2]
  <1>1. /\ todo[u] # <<>> /\ Next1(u) \in Steps /\ s \in Server
        /\ Next1(u).at = s /\ Next1(u).do = "part"
        BY NextIsGood DEF ChannelPart
  <1>2. RegistryOK' /\ Keeps
        BY SameRegistry DEF ChannelPart
  <1>3. CASE Leave(s, u, {c}) /\ Then(u, <<>>) /\ UNCHANGED failed
    <2>1. ChannelsOK'
          BY <1>1, <1>2, <1>3, LeaveKeepsOrder
    <2> QED BY <2>1, <1>1, <1>2, <1>3, FewAreGood DEF ChannelPart, SessionsOK, HistoryOK, sessions
  <1>4. CASE Fails(s) /\ UNCHANGED channels
    <2>1. ChannelsOK'
          BY <1>2, <1>4, SameChannels
    <2> QED BY <2>1, <1>1, <1>2, <1>4, FailsIsGood DEF ChannelPart, SessionsOK, HistoryOK, sessions
  <1> QED BY <1>3, <1>4 DEF ChannelPart

LEMMA KickKeeps ==
  ASSUME Inv, NEW u \in User, NEW v \in User, NEW c \in Channel, Kick(u, v, c)
  PROVE  Inv'
  <1> DEFINE s == home[u]
  <1>1. s \in Server /\ nick[s][u] \in Nick /\ nick[s][v] \in Nick
        BY DEF RegistryOK, Kick, Entered, Known
  <1>2. RegistryOK' /\ Keeps
        BY SameRegistry DEF Kick
  <1>3. ChannelsOK'
        BY <1>1, <1>2, RemoveUserKeepsOrder DEF Kick
  <1>4. Tell(s, "SKICK", <<nick[s][u], c, nick[s][v]>>) \in Good(u)'
        BY <1>1, PeerIsServer, FreeIsGood DEF Tell, Do, Steps
  <1>5. TodoOK'
        BY <1>2, <1>4, StartsFewIsGood DEF Kick
  <1> QED BY <1>2, <1>3, <1>5 DEF Kick, SessionsOK, HistoryOK, sessions

LEMMA ModeKeeps ==
  ASSUME Inv, NEW u \in User, NEW v \in User, NEW c \in Channel, NEW sign \in {"+o", "-o"}, Mode(u, v, c, sign)
  PROVE  Inv'
  <1> DEFINE s == home[u]
  <1>1. s \in Server /\ nick[s][v] \in Nick
        BY DEF RegistryOK, Mode, Known
  <1>2. RegistryOK' /\ ChannelsOK' /\ Keeps
        BY SameRegistry, SameChannels DEF Mode
  <1>3. Tell(s, "CMODE", <<c, sign, nick[s][v]>>) \in Good(u)'
        BY <1>1, PeerIsServer, FreeIsGood DEF Tell, Do, Steps
  <1>4. Do(s, "mode", <<c, sign, v>>) \in Good(u)'
        BY <1>1, FreeIsGood DEF Do, Steps
  <1>5. TodoOK'
        BY <1>2, <1>3, <1>4, StartsFewIsGood DEF Mode
  <1> QED BY <1>2, <1>5 DEF Mode, SessionsOK, HistoryOK, sessions

LEMMA ModeHereKeeps ==
  ASSUME Inv, NEW u \in User, NEW s, ModeHere(u, s)
  PROVE  Inv'
  <1> DEFINE c == Arg(u)[1]
  <1>1. /\ todo[u] # <<>> /\ Next1(u) \in Steps /\ s \in Server
        /\ Next1(u).at = s /\ Next1(u).do = "mode"
        BY NextIsGood DEF ModeHere
  <1>2. c \in Channel /\ Arg(u)[3] \in User
        BY <1>1, StepArgs DEF Arg
  <1>3. RegistryOK' /\ Keeps
        BY SameRegistry DEF ModeHere
  <1>4. CASE /\ c \in made[s] /\ Then(u, <<>>) /\ UNCHANGED failed
             /\ ops' = [ops EXCEPT ![s][c] = Turned(@, Arg(u)[2], Arg(u)[3])]
    <2>1. Turned(ops[s][c], Arg(u)[2], Arg(u)[3]) \in SUBSET User
          BY <1>1, <1>2 DEF Turned, ChannelsOK
    <2>2. ops' = [ops EXCEPT ![s][c] = Turned(ops[s][c], Arg(u)[2], Arg(u)[3])]
          BY <1>4
    <2>3. ChannelsOK'
          BY <2>1, <2>2, <1>1, <1>3, <1>4, OpsKeepOrder DEF ModeHere
    <2> QED BY <2>3, <1>1, <1>3, <1>4, FewAreGood DEF ModeHere, SessionsOK, HistoryOK, sessions
  <1>5. CASE Fails(s) /\ UNCHANGED ops
    <2>1. ChannelsOK'
          BY <1>3, <1>5, SameChannels DEF ModeHere, channels
    <2> QED BY <2>1, <1>1, <1>3, <1>5, FailsIsGood DEF ModeHere, SessionsOK, HistoryOK, sessions
  <1> QED BY <1>4, <1>5 DEF ModeHere

LEMMA SjoinKeeps ==
  ASSUME Inv, NEW u \in User, NEW s, Sjoin(u, s)
  PROVE  Inv'
  <1> DEFINE v == table[s][Arg(u)[1]]
             c == Arg(u)[2]
  <1>1. /\ todo[u] # <<>> /\ Next1(u) \in Steps /\ s \in Server
        /\ Next1(u).at = s /\ Next1(u).do = "SJOIN"
        BY NextIsGood DEF Sjoin
  <1>2. Arg(u)[1] \in Nick /\ c \in Channel
        BY <1>1, StepArgs DEF Arg
  <1>3. RegistryOK' /\ Keeps
        BY SameRegistry DEF Sjoin
  <1>4. TodoOK'
        BY <1>1, <1>3, FewAreGood DEF Sjoin
  <1>5. ChannelsOK'
    <2>1. CASE v = Nobody
          BY <2>1, <1>3, SameChannels DEF Sjoin
    <2>2. CASE v # Nobody
      <3>1. v \in User /\ nick[s][v] \in Nick
            BY <2>2, <1>1, <1>2 DEF RegistryOK
      <3>2. /\ made' = [made EXCEPT ![s] = @ \cup {c}]
            /\ on' = [on EXCEPT ![s][c] = @ \cup {v}]
            /\ \/ ops' = [ops EXCEPT ![s][c] = @ \cup {v}]
               \/ ops' = [ops EXCEPT ![s][c] = @]
            BY <2>2 DEF Sjoin
      <3>3. /\ made[s] \cup {c} \in SUBSET Channel /\ on[s][c] \cup {v} \in SUBSET User
            /\ ops[s][c] \cup {v} \in SUBSET User /\ ops[s][c] \in SUBSET User
            BY <3>1, <1>1, <1>2 DEF ChannelsOK
      <3>4. made' \in [Server -> SUBSET Channel] /\ on' \in [Server -> [Channel -> SUBSET User]]
            BY <3>2, <3>3 DEF ChannelsOK
      <3>5. ops' \in [Server -> [Channel -> SUBSET User]]
        <4>1. CASE ops' = [ops EXCEPT ![s][c] = @ \cup {v}]
              BY <4>1, <3>3 DEF ChannelsOK
        <4>2. CASE ops' = [ops EXCEPT ![s][c] = @]
              BY <4>2, <3>3 DEF ChannelsOK
        <4> QED BY <4>1, <4>2, <3>2
      <3>6. \A p \in Server : \A d \in Channel \ made'[p] : on'[p][d] = {} /\ ops'[p][d] = {}
            BY <3>2, <1>1, <1>2 DEF ChannelsOK
      <3>7. \A p \in Server, d \in Channel : \A w \in on'[p][d] : nick[p][w] \in Nick
            BY <3>1, <3>2, <1>1, <1>2 DEF ChannelsOK
      <3> QED BY <3>4, <3>5, <3>6, <3>7 DEF ChannelsOK, Sjoin, registry
    <2> QED BY <2>1, <2>2
  <1> QED BY <1>3, <1>4, <1>5 DEF Sjoin, SessionsOK, HistoryOK, sessions

LEMMA SpartKeeps ==
  ASSUME Inv, NEW u \in User, NEW s, Spart(u, s)
  PROVE  Inv'
  <1> DEFINE v == table[s][Arg(u)[1]]
             c == Arg(u)[2]
  <1>1. /\ todo[u] # <<>> /\ Next1(u) \in Steps /\ s \in Server
        /\ Next1(u).at = s /\ Next1(u).do = "SPART"
        BY NextIsGood DEF Spart
  <1>2. RegistryOK' /\ Keeps
        BY SameRegistry DEF Spart
  <1>3. CASE Then(u, <<>>) /\ UNCHANGED failed /\ (Leave(s, v, {c}) \/ UNCHANGED channels)
    <2>1. ChannelsOK'
          BY <1>1, <1>2, <1>3, LeaveKeepsOrder, SameChannels
    <2> QED BY <2>1, <1>1, <1>2, <1>3, FewAreGood DEF Spart, SessionsOK, HistoryOK, sessions
  <1>4. CASE Fails(s) /\ UNCHANGED channels
    <2>1. ChannelsOK'
          BY <1>2, <1>4, SameChannels
    <2> QED BY <2>1, <1>1, <1>2, <1>4, FailsIsGood DEF Spart, SessionsOK, HistoryOK, sessions
  <1> QED BY <1>3, <1>4 DEF Spart

LEMMA SkickKeeps ==
  ASSUME Inv, NEW u \in User, NEW s, Skick(u, s)
  PROVE  Inv'
  <1> DEFINE v == table[s][Arg(u)[3]]
             c == Arg(u)[2]
  <1>1. /\ todo[u] # <<>> /\ Next1(u) \in Steps /\ s \in Server
        /\ Next1(u).at = s /\ Next1(u).do = "SKICK"
        BY NextIsGood DEF Skick
  <1>2. RegistryOK' /\ Keeps
        BY SameRegistry DEF Skick
  <1>3. TodoOK'
        BY <1>1, <1>2, FewAreGood DEF Skick
  <1>4. ChannelsOK'
    <2>1. CASE RemoveUser(s, v, {c})
          BY <2>1, <1>1, <1>2, RemoveUserKeepsOrder DEF Skick
    <2>2. CASE UNCHANGED <<on, ops>>
          BY <2>2, <1>2, SameChannels DEF Skick, channels
    <2> QED BY <2>1, <2>2 DEF Skick
  <1> QED BY <1>2, <1>3, <1>4 DEF Skick, SessionsOK, HistoryOK, sessions

LEMMA CmodeKeeps ==
  ASSUME Inv, NEW u \in User, NEW s, Cmode(u, s)
  PROVE  Inv'
  <1> DEFINE v == table[s][Arg(u)[3]]
             c == Arg(u)[1]
  <1>1. /\ todo[u] # <<>> /\ Next1(u) \in Steps /\ s \in Server
        /\ Next1(u).at = s /\ Next1(u).do = "CMODE"
        BY NextIsGood DEF Cmode
  <1>2. Arg(u)[3] \in Nick
        BY <1>1, StepArgs DEF Arg
  <1>3. RegistryOK' /\ Keeps
        BY SameRegistry DEF Cmode
  <1>4. TodoOK'
        BY <1>1, <1>3, FewAreGood DEF Cmode
  <1>5. ChannelsOK'
    <2>1. CASE /\ c \in made[s] /\ v # Nobody
               /\ ops' = [ops EXCEPT ![s][c] = Turned(@, Arg(u)[2], v)]
      <3>1. v \in User /\ c \in Channel
            BY <2>1, <1>1, <1>2 DEF RegistryOK, ChannelsOK
      <3>2. Turned(ops[s][c], Arg(u)[2], v) \in SUBSET User
            BY <3>1, <1>1 DEF Turned, ChannelsOK
      <3>3. ops' = [ops EXCEPT ![s][c] = Turned(ops[s][c], Arg(u)[2], v)]
            BY <2>1
      <3> QED BY <3>2, <3>3, <2>1, <1>1, <1>3, OpsKeepOrder, ZenonT(60) DEF Cmode
    <2>2. CASE UNCHANGED ops
          BY <2>2, <1>3, SameChannels DEF Cmode, channels
    <2> QED BY <2>1, <2>2 DEF Cmode
  <1> QED BY <1>3, <1>4, <1>5 DEF Cmode, SessionsOK, HistoryOK, sessions

-----------------------------------------------------------------------------

LEMMA InitInv == Init => Inv
  <1> SUFFICES ASSUME Init PROVE Inv
      OBVIOUS
  <1>1. RegistryOK
        BY DEF Init, RegistryOK
  <1>2. ChannelsOK
        BY DEF Init, ChannelsOK
  <1>3. TodoOK
        BY DEF Init, TodoOK
  <1> QED BY <1>1, <1>2, <1>3 DEF Init, SessionsOK, HistoryOK

LEMMA NextInv == Inv /\ [Next]_vars => Inv'
  <1> SUFFICES ASSUME Inv, [Next]_vars PROVE Inv'
      OBVIOUS
  <1>1. CASE UNCHANGED vars
    <2>1. RegistryOK' /\ ChannelsOK' /\ Keeps
          BY <1>1, SameRegistry, SameChannels DEF vars
    <2>2. \A u \in User : Good(u)' = Good(u)
          BY <1>1 DEF vars, registry, Good
    <2>3. TodoOK'
          BY <2>2, <1>1 DEF vars, TodoOK
    <2> QED BY <2>1, <2>3, <1>1 DEF vars, SessionsOK, HistoryOK, sessions
  <1>2. ASSUME NEW u \in User, Command(u)
        PROVE  Inv'
    <2>1. ASSUME NEW n \in Nick, NickIdentify(u, n) \/ NickPlain(u, n) PROVE Inv'
          BY <2>1, NickIdentifyKeeps, NickPlainKeeps
    <2>2. CASE Quit(u)
          BY <2>2, QuitKeeps
    <2>3. ASSUME NEW v \in User, Kill(u, v) PROVE Inv'
          BY <2>3, KillKeeps
    <2>4. ASSUME NEW c \in Channel, JoinFree(u, c) \/ JoinRegistered(u, c) \/ Part(u, c) PROVE Inv'
          BY <2>4, JoinFreeKeeps, JoinRegisteredKeeps, PartKeeps
    <2>5. ASSUME NEW v \in User, NEW c \in Channel, Kick(u, v, c) PROVE Inv'
          BY <2>5, KickKeeps
    <2>6. ASSUME NEW v \in User, NEW c \in Channel, NEW sign \in {"+o", "-o"}, Mode(u, v, c, sign)
          PROVE  Inv'
          BY <2>6, ModeKeeps
    <2> QED BY <1>2, <2>1, <2>2, <2>3, <2>4, <2>5, <2>6 DEF Command
  <1>3. ASSUME NEW u \in User, NEW s \in Server,
               \/ CmdNick(u, s) \/ Rename(u, s) \/ Snick(u, s) \/ ServerNick(u, s)
               \/ Exit(u, s) \/ Exited(u, s) \/ ServerQuit(u, s)
        PROVE  Inv'
        BY <1>3, CmdNickKeeps, RenameKeeps, SnickKeeps, ServerNickKeeps, ExitKeeps, ExitedKeeps,
           ServerQuitKeeps
  <1>4. ASSUME NEW u \in User, NEW s \in Server,
               \/ CheckModes(u, s) \/ Cycle(u, s) \/ CyclePart(u, s) \/ CycleJoin(u, s)
               \/ ChannelPart(u, s) \/ ModeHere(u, s)
               \/ Sjoin(u, s) \/ Spart(u, s) \/ Skick(u, s) \/ Cmode(u, s)
        PROVE  Inv'
        BY <1>4, CheckModesKeeps, CycleKeeps, CyclePartKeeps, CycleJoinKeeps, ChannelPartKeeps,
           ModeHereKeeps, SjoinKeeps, SpartKeeps, SkickKeeps, CmodeKeeps
  <1> QED BY <1>1, <1>2, <1>3, <1>4 DEF Next, Step

\* Whatever the two servers send each other and in whatever order the commands overlap,
\* the tables lead to users, a channel that is not there has neither users nor operators,
\* who is leaving has been told to, and every message has the words its handler reads.
THEOREM TypeCorrect == Spec => []TypeOK
  <1>1. Inv => TypeOK
        BY DEF RegistryOK, ChannelsOK, SessionsOK, TodoOK, HistoryOK, TypeOK
  <1> HIDE DEF Inv
  <1> QED BY <1>1, InitInv, NextInv, PTL DEF Spec

-----------------------------------------------------------------------------
(* The work left of a command. *)

\* At most how many steps one step of a command leads to, itself included; those of an
\* Exit that is the first one of its user are not counted here.
Weight(x) ==
    LET n == Cardinality(Channel)
    IN  CASE x.do = "cmdNick"    -> 8 * n + 4
          [] x.do = "rename"     -> 8 * n + 2
          [] x.do = "Cycle"      -> 6 * n + 1
          [] x.do = "Cycle part" -> 6
          [] x.do = "Cycle join" -> 4
          [] x.do \in {"CheckModes", "SNICK", "QUIT", "SKILL"} -> 2
          [] OTHER -> 1

Effort(steps) ==
    LET sum[i \in 0..Len(steps)] == IF i = 0 THEN 0 ELSE sum[i - 1] + Weight(steps[i])
    IN  sum[Len(steps)]

\* The work left of the command of u, with every Exit that may still come.
Work(u) == 3 * Cardinality(User \ quit) + Effort(todo[u])

\* A step of a command leaves less work, and no step of another command makes it more.
Shrinks == \A u \in User : todo[u] # <<>> =>
    \/ Work(u)' < Work(u)
    \/ UNCHANGED todo[u] /\ Work(u)' <= Work(u)

\* Every step of a command brings its end nearer and no step of another command puts it
\* off: the servers do not send QUIT, SNICK and what these lead to back and forth for
\* ever (Exit and MakeQuit of User.cpp, ParserServer.cpp), however commands overlap.
CommandsShrink == [][Shrinks]_vars

HIDE DEF Inv

\* A set of natural numbers that is not empty has a least element.
LEMMA Least ==
  ASSUME NEW T \in SUBSET Nat, T # {}
  PROVE  \E n \in T : \A k \in T : n <= k
  <1> DEFINE R == OpToRel(<, Nat)
  <1>1. IsWellFoundedOn(R, Nat)
        BY NatLessThanWellFounded
  <1>2. \A a, b \in Nat : a < b => <<a, b>> \in R
        BY DEF OpToRel
  <1> HIDE DEF R
  <1>3. T \subseteq Nat /\ T # {}
        OBVIOUS
  <1>4. PICK n \in T : \A k \in T : ~(<<k, n>> \in R)
        BY <1>1, <1>3, WFMin
  <1>5. ASSUME NEW k \in T PROVE n <= k
    <2>1. k \in Nat /\ n \in Nat
          BY <1>3
    <2>2. ~(k < n)
          BY <1>2, <1>4, <2>1
    <2> QED BY <2>1, <2>2
  <1> QED BY <1>5

LEMMA ChannelCount == Cardinality(Channel) \in Nat
  BY ChannelAssumption, FS_CardinalityType

LEMMA WeightType ==
  ASSUME NEW x
  PROVE  Weight(x) \in Nat /\ Weight(x) >= 1
  <1> DEFINE n == Cardinality(Channel)
  <1>1. n \in Nat
        BY ChannelCount
  <1> HIDE DEF n
  <1>2. 8 * n + 4 >= 1 /\ 8 * n + 2 >= 1 /\ 6 * n + 1 >= 1
        BY <1>1
  <1>3. Weight(x) \in {8 * n + 4, 8 * n + 2, 6 * n + 1, 6, 4, 2, 1}
        BY DEF Weight, n
  <1> QED BY <1>1, <1>2, <1>3

\* sum adds up the weights of the first steps of t.
IsSum(t, sum) ==
    sum = [i \in 0..Len(t) |-> IF i = 0 THEN 0 ELSE sum[i - 1] + Weight(t[i])]

SumUpTo(t, sum, n) ==
    /\ sum \in [0..n -> Nat] /\ sum[0] = 0
    /\ \A i \in 1..n : sum[i] = sum[i - 1] + Weight(t[i])

LEMMA SumType ==
  ASSUME NEW S, NEW t \in Seq(S), NEW sum
  PROVE  SumUpTo(t, sum, Len(t)) => IsSum(t, sum)
  <1>1. Len(t) \in Nat
        OBVIOUS
  <1>2. \A i \in 0..Len(t) : i # 0 => i \in 1..Len(t)
        BY <1>1
  <1>3. SUFFICES ASSUME SumUpTo(t, sum, Len(t)) PROVE IsSum(t, sum)
        OBVIOUS
  <1>4. sum = [i \in 0..Len(t) |-> sum[i]]
        BY <1>3 DEF SumUpTo
  <1>5. \A i \in 0..Len(t) : sum[i] = IF i = 0 THEN 0 ELSE sum[i - 1] + Weight(t[i])
        BY <1>2, <1>3 DEF SumUpTo
  <1> QED BY <1>4, <1>5 DEF IsSum

LEMMA SumExists ==
  ASSUME NEW S, NEW t \in Seq(S)
  PROVE  \E sum : SumUpTo(t, sum, Len(t))
  <1> DEFINE P(n) == \E sum : SumUpTo(t, sum, n)
             T == {n \in Nat : ~P(n)}
  <1>1. P(0)
    <2>1. SumUpTo(t, [i \in 0..0 |-> 0], 0)
          BY DEF SumUpTo
    <2> QED BY <2>1
  <1>2. ASSUME NEW n \in Nat, P(n) PROVE P(n + 1)
    <2>1. PICK sum : SumUpTo(t, sum, n)
          BY <1>2
    <2> DEFINE more == [i \in 0..n + 1 |-> IF i = n + 1 THEN sum[n] + Weight(t[n + 1]) ELSE sum[i]]
    <2>2. sum[n] \in Nat /\ Weight(t[n + 1]) \in Nat
          BY <2>1, WeightType DEF SumUpTo
    <2>3. \A i \in 0..n + 1 : i = n + 1 \/ i \in 0..n
          OBVIOUS
    <2>4. more \in [0..n + 1 -> Nat]
          BY <2>1, <2>2, <2>3 DEF SumUpTo
    <2>5. more[0] = 0
          BY <2>1 DEF SumUpTo
    <2>6. ASSUME NEW i \in 1..n + 1 PROVE more[i] = more[i - 1] + Weight(t[i])
      <3>1. CASE i = n + 1
        <4>1. i - 1 = n /\ n \in 0..n + 1 /\ n # n + 1 /\ i \in 0..n + 1
              BY <3>1
        <4> QED BY <3>1, <4>1
      <3>2. CASE i # n + 1
        <4>1. i \in 1..n /\ i \in 0..n + 1 /\ i - 1 \in 0..n + 1 /\ i - 1 # n + 1
              BY <3>2
        <4> QED BY <2>1, <3>2, <4>1 DEF SumUpTo
      <3> QED BY <3>1, <3>2
    <2> HIDE DEF more
    <2>7. SumUpTo(t, more, n + 1)
          BY <2>4, <2>5, <2>6 DEF SumUpTo
    <2> QED BY <2>7
  <1> HIDE DEF P
  <1>3. T = {}
    <2> SUFFICES ASSUME T # {} PROVE FALSE
        OBVIOUS
    <2>1. PICK n \in T : \A k \in T : n <= k
          BY Least
    <2>2. n \in Nat /\ n # 0 /\ ~P(n)
          BY <1>1
    <2>3. n - 1 \in Nat /\ n - 1 \notin T /\ (n - 1) + 1 = n
          BY <2>1, <2>2
    <2> QED BY <1>2, <2>2, <2>3
  <1>4. P(Len(t))
        BY <1>3
  <1> QED BY <1>4 DEF P

\* There is one sum only.
LEMMA SumUnique ==
  ASSUME NEW S, NEW t \in Seq(S), NEW f, NEW g, IsSum(t, f), IsSum(t, g), NEW i \in 0..Len(t)
  PROVE  f[i] = g[i]
  <1> DEFINE T == {n \in 0..Len(t) : f[n] # g[n]}
  <1>1. Len(t) \in Nat
        OBVIOUS
  <1> SUFFICES ASSUME T # {} PROVE FALSE
      OBVIOUS
  <1>2. T \in SUBSET Nat
        BY <1>1
  <1>3. PICK n \in T : \A k \in T : n <= k
        BY <1>2, Least
  <1>4. n \in 0..Len(t) /\ f[n] # g[n]
        OBVIOUS
  <1>5. CASE n = 0
        BY <1>4, <1>5 DEF IsSum
  <1>6. CASE n # 0
    <2>1. n - 1 \in 0..Len(t) /\ ~(n <= n - 1)
          BY <1>1, <1>4, <1>6
    <2>2. f[n - 1] = g[n - 1]
          BY <1>3, <2>1
    <2>3. f[n] = f[n - 1] + Weight(t[n]) /\ g[n] = g[n - 1] + Weight(t[n])
          BY <1>4, <1>6 DEF IsSum
    <2> QED BY <1>4, <2>2, <2>3
  <1> QED BY <1>5, <1>6

LEMMA EffortIsSum ==
  ASSUME NEW S, NEW t \in Seq(S), NEW f, SumUpTo(t, f, Len(t))
  PROVE  Effort(t) = f[Len(t)] /\ Effort(t) \in Nat
  <1>1. IsSum(t, f)
        BY SumType
  <1>2. \E sum : IsSum(t, sum) /\ Effort(t) = sum[Len(t)]
        BY <1>1 DEF Effort, IsSum
  <1>3. Len(t) \in 0..Len(t)
        OBVIOUS
  <1>4. Effort(t) = f[Len(t)]
        BY <1>1, <1>2, <1>3, SumUnique
  <1> QED BY <1>3, <1>4 DEF SumUpTo

LEMMA EffortType ==
  ASSUME NEW S, NEW t \in Seq(S)
  PROVE  Effort(t) \in Nat /\ \E f : SumUpTo(t, f, Len(t)) /\ Effort(t) = f[Len(t)]
  BY SumExists, EffortIsSum

\* The work of one list of steps before another.
LEMMA EffortOfBoth ==
  ASSUME NEW S, NEW s \in Seq(S), NEW t \in Seq(S)
  PROVE  Effort(s \o t) = Effort(s) + Effort(t)
  <1>1. PICK f : SumUpTo(s, f, Len(s)) /\ Effort(s) = f[Len(s)]
        BY EffortType
  <1>2. PICK g : SumUpTo(t, g, Len(t)) /\ Effort(t) = g[Len(t)]
        BY EffortType
  <1> DEFINE m == Len(s)
             n == Len(t)
             h == [i \in 0..m + n |-> IF i <= m THEN f[i] ELSE f[m] + g[i - m]]
  <1>3. m \in Nat /\ n \in Nat
        OBVIOUS
  <1>4. s \o t \in Seq(S) /\ Len(s \o t) = m + n
        OBVIOUS
  <1>5. \A i \in 1..m + n : (s \o t)[i] = IF i <= m THEN s[i] ELSE t[i - m]
        OBVIOUS
  <1>6. /\ f \in [0..m -> Nat] /\ f[0] = 0 /\ \A i \in 1..m : f[i] = f[i - 1] + Weight(s[i])
        /\ g \in [0..n -> Nat] /\ g[0] = 0 /\ \A i \in 1..n : g[i] = g[i - 1] + Weight(t[i])
        BY <1>1, <1>2 DEF SumUpTo
  <1> HIDE DEF m, n
  <1>7. \A i \in 0..m + n : (i <= m /\ i \in 0..m) \/ (~(i <= m) /\ i - m \in 1..n /\ i - m \in 0..n)
        BY <1>3
  <1>8. m \in 0..m /\ 0 \in 0..m + n /\ 0 <= m
        BY <1>3
  <1>9. h \in [0..m + n -> Nat]
        BY <1>3, <1>6, <1>7, <1>8
  <1>10. h[0] = 0
        BY <1>6, <1>8
  <1>11. ASSUME NEW i \in 1..m + n PROVE h[i] = h[i - 1] + Weight((s \o t)[i])
    <2>1. i \in 0..m + n /\ i - 1 \in 0..m + n
          BY <1>3
    <2>2. CASE i <= m
      <3>1. i \in 1..m /\ i - 1 <= m
            BY <1>3, <2>2
      <3> QED BY <1>5, <1>6, <2>1, <2>2, <3>1
    <2>3. CASE i = m + 1
      <3>1. ~(i <= m) /\ i - 1 = m /\ m <= m /\ i - m = 1 /\ 1 \in 1..n /\ 1 - 1 = 0
            BY <1>3, <2>3
      <3>2. h[i] = f[m] + g[1] /\ h[i - 1] = f[m]
            BY <2>1, <3>1
      <3>3. (s \o t)[i] = t[1]
            BY <1>5, <3>1
      <3>4. g[1] = 0 + Weight(t[1])
            BY <1>6, <3>1
      <3>5. f[m] \in Nat /\ Weight(t[1]) \in Nat
            BY <1>6, <1>8, WeightType
      <3> QED BY <3>2, <3>3, <3>4, <3>5
    <2>4. CASE i > m + 1
      <3>1. ~(i <= m) /\ ~(i - 1 <= m) /\ i - m \in 1..n /\ (i - 1) - m = (i - m) - 1 /\ (i - m) - 1 \in 0..n
            BY <1>3, <2>4
      <3>2. h[i] = f[m] + g[i - m] /\ h[i - 1] = f[m] + g[(i - m) - 1]
            BY <2>1, <3>1
      <3>3. (s \o t)[i] = t[i - m]
            BY <1>5, <3>1
      <3>4. g[i - m] = g[(i - m) - 1] + Weight(t[i - m])
            BY <1>6, <3>1
      <3>5. f[m] \in Nat /\ g[(i - m) - 1] \in Nat /\ Weight(t[i - m]) \in Nat
            BY <1>6, <1>8, <3>1, WeightType
      <3> QED BY <3>2, <3>3, <3>4, <3>5
    <2>5. i <= m \/ i = m + 1 \/ i > m + 1
          BY <1>3
    <2> HIDE DEF h
    <2> QED BY <2>2, <2>3, <2>4, <2>5
  <1>12. h[m + n] = f[m] + g[n]
    <2>1. m + n \in 0..m + n
          BY <1>3
    <2>2. CASE n = 0
      <3>1. m + n <= m /\ m + n = m
            BY <1>3, <2>2
      <3>2. f[m] \in Nat
            BY <1>6, <1>8
      <3> QED BY <1>6, <2>1, <2>2, <3>1, <3>2
    <2>3. CASE n # 0
      <3>1. ~(m + n <= m) /\ (m + n) - m = n
            BY <1>3, <2>3
      <3> QED BY <2>1, <3>1
    <2> QED BY <2>2, <2>3
  <1> HIDE DEF h
  <1>13. SumUpTo(s \o t, h, Len(s \o t))
        BY <1>4, <1>9, <1>10, <1>11 DEF SumUpTo
  <1>14. Effort(s \o t) = h[m + n]
        BY <1>4, <1>13, EffortIsSum
  <1> QED BY <1>1, <1>2, <1>12, <1>14 DEF m, n

LEMMA EffortOfNone == Effort(<<>>) = 0
  <1>1. SumUpTo(<<>>, [i \in 0..0 |-> 0], Len(<<>>))
        BY DEF SumUpTo
  <1>2. <<>> \in Seq({}) /\ Len(<<>>) = 0
        OBVIOUS
  <1>3. Effort(<<>>) = [i \in 0..0 |-> 0][0]
        BY <1>1, <1>2, EffortIsSum
  <1> QED BY <1>3

LEMMA EffortOfOne ==
  ASSUME NEW x
  PROVE  Effort(<<x>>) = Weight(x)
  <1> DEFINE f == [i \in 0..1 |-> IF i = 0 THEN 0 ELSE Weight(x)]
  <1>1. <<x>> \in Seq({x}) /\ Len(<<x>>) = 1 /\ <<x>>[1] = x
        OBVIOUS
  <1>2. Weight(x) \in Nat
        BY WeightType
  <1>3. f \in [0..1 -> Nat] /\ f[0] = 0 /\ f[1] = Weight(x)
        BY <1>2
  <1>4. \A i \in 1..1 : i = 1 /\ i - 1 = 0
        OBVIOUS
  <1> HIDE DEF f
  <1>5. 0 + Weight(x) = Weight(x)
        BY <1>2
  <1>6. \A i \in 1..1 : f[i] = f[i - 1] + Weight(<<x>>[i])
        BY <1>1, <1>3, <1>4, <1>5
  <1>7. SumUpTo(<<x>>, f, Len(<<x>>))
        BY <1>1, <1>3, <1>6 DEF SumUpTo
  <1> QED BY <1>1, <1>3, <1>7, EffortIsSum

LEMMA ConcatParts ==
  ASSUME NEW S, NEW s \in Seq(S), NEW t \in Seq(S)
  PROVE  /\ s \o t \in Seq(S) /\ Len(s \o t) = Len(s) + Len(t)
         /\ \A i \in 1..Len(s) + Len(t) : (s \o t)[i] = IF i <= Len(s) THEN s[i] ELSE t[i - Len(s)]
  OBVIOUS

LEMMA OneBeforeOne ==
  ASSUME NEW x, NEW y
  PROVE  <<x>> \o <<y>> = <<x, y>>
  <1> DEFINE S == {x, y}
             s == <<x>>
             t == <<y>>
             both == <<x, y>>
  <1>1. s \in Seq(S) /\ t \in Seq(S) /\ both \in Seq(S) /\ x \in S /\ y \in S
        OBVIOUS
  <1>2. Len(s) = 1 /\ Len(t) = 1 /\ Len(both) = 2 /\ s[1] = x /\ t[1] = y /\ both[1] = x /\ both[2] = y
        OBVIOUS
  <1> HIDE DEF S, s, t, both
  <1>3. s \o t \in Seq(S) /\ Len(s \o t) = 2 /\ (s \o t)[1] = x /\ (s \o t)[2] = y
        BY <1>1, <1>2, ConcatParts
  <1>4. \A i \in 1..2 : i = 1 \/ i = 2
        OBVIOUS
  <1>5. \A i \in 1..2 : (s \o t)[i] = both[i]
        BY <1>2, <1>3, <1>4
  <1>6. s \o t = both
        BY <1>1, <1>2, <1>3, <1>5
  <1> QED BY <1>6 DEF s, t, both

LEMMA EffortOfTwo ==
  ASSUME NEW x, NEW y
  PROVE  Effort(<<x, y>>) = Weight(x) + Weight(y)
  <1>1. <<x>> \in Seq({x, y}) /\ <<y>> \in Seq({x, y})
        OBVIOUS
  <1>2. Effort(<<x>> \o <<y>>) = Effort(<<x>>) + Effort(<<y>>)
        BY <1>1, EffortOfBoth
  <1>3. <<x>> \o <<y>> = <<x, y>>
        BY OneBeforeOne
  <1>4. Effort(<<x>>) = Weight(x) /\ Effort(<<y>>) = Weight(y)
        BY EffortOfOne
  <1> QED BY <1>2, <1>3, <1>4

\* The work of equal steps.
LEMMA EffortOfSame ==
  ASSUME NEW S, NEW t \in Seq(S), NEW w \in {2, 6}, \A i \in 1..Len(t) : Weight(t[i]) = w
  PROVE  Effort(t) = w * Len(t)
  <1> DEFINE f == [i \in 0..Len(t) |-> w * i]
  <1>1. Len(t) \in Nat
        OBVIOUS
  <1>2. f \in [0..Len(t) -> Nat] /\ f[0] = 0 /\ f[Len(t)] = w * Len(t)
        BY <1>1
  <1>3. ASSUME NEW i \in 1..Len(t) PROVE f[i] = f[i - 1] + Weight(t[i])
    <2>1. i \in 0..Len(t) /\ i - 1 \in 0..Len(t)
          BY <1>1
    <2>2. w * i = w * (i - 1) + w
          BY <1>1
    <2> QED BY <2>1, <2>2
  <1> HIDE DEF f
  <1>4. SumUpTo(t, f, Len(t))
        BY <1>2, <1>3 DEF SumUpTo
  <1> QED BY <1>2, <1>4, EffortIsSum

LEMMA HeadAndTail ==
  ASSUME NEW S, NEW t \in Seq(S), t # <<>>
  PROVE  <<Head(t)>> \in Seq(S) /\ Tail(t) \in Seq(S) /\ t = <<Head(t)>> \o Tail(t)
  <1> DEFINE h == <<Head(t)>>
             r == Tail(t)
  <1>1. h \in Seq(S) /\ r \in Seq(S) /\ Len(h) = 1 /\ Len(r) = Len(t) - 1 /\ Len(t) \in Nat /\ Len(t) >= 1
        OBVIOUS
  <1>2. h[1] = t[1] /\ \A i \in 1..Len(t) - 1 : r[i] = t[i + 1]
        OBVIOUS
  <1> HIDE DEF h, r
  <1>3. \A i \in 1..Len(h) + Len(r) : (h \o r)[i] = IF i <= Len(h) THEN h[i] ELSE r[i - Len(h)]
        BY <1>1, ConcatParts
  <1>4. h \o r \in Seq(S) /\ Len(h \o r) = Len(t)
    <2>1. h \o r \in Seq(S) /\ Len(h \o r) = Len(h) + Len(r)
          BY <1>1, ConcatParts
    <2> QED BY <1>1, <2>1
  <1>5. ASSUME NEW i \in 1..Len(t) PROVE (h \o r)[i] = t[i]
    <2>1. CASE i = 1
          BY <1>1, <1>2, <1>3, <2>1
    <2>2. CASE i # 1
      <3>1. i - 1 \in 1..Len(t) - 1 /\ ~(i <= 1) /\ (i - 1) + 1 = i /\ i \in 1..Len(h) + Len(r)
            BY <1>1, <2>2
      <3> QED BY <1>1, <1>2, <1>3, <3>1
    <2> QED BY <2>1, <2>2
  <1>6. h \o r = t
    <2>a. ASSUME NEW x \in Seq(S) PROVE x = [i \in 1..Len(x) |-> x[i]]
          OBVIOUS
    <2>1. t = [i \in 1..Len(t) |-> t[i]] /\ h \o r = [i \in 1..Len(h \o r) |-> (h \o r)[i]]
          BY <1>4, <2>a
    <2> QED BY <1>4, <1>5, <2>1
  <1> QED BY <1>1, <1>6 DEF h, r

\* The weight of each kind of step.
LEMMA WeightOf ==
  ASSUME NEW x
  PROVE  /\ x.do = "cmdNick" => Weight(x) = 8 * Cardinality(Channel) + 4
         /\ x.do = "rename" => Weight(x) = 8 * Cardinality(Channel) + 2
         /\ x.do = "Cycle" => Weight(x) = 6 * Cardinality(Channel) + 1
         /\ x.do = "Cycle part" => Weight(x) = 6
         /\ x.do = "Cycle join" => Weight(x) = 4
         /\ x.do \in {"CheckModes", "SNICK", "QUIT", "SKILL"} => Weight(x) = 2
         /\ x.do \in {"NICK", "Exit", "exited", "CMODE", "SPART", "SJOIN"} => Weight(x) = 1
  BY DEF Weight


\* A command goes on with lighter steps, or with what a first Exit leads to.
LEMMA LighterShrinks ==
  ASSUME Inv, IsFiniteSet(User), NEW u \in User, todo[u] # <<>>,
         NEW S, NEW steps \in Seq(S), Then(u, steps), quit \subseteq quit',
         3 * Cardinality(User \ quit') + Effort(steps) < 3 * Cardinality(User \ quit) + Weight(Next1(u))
  PROVE  Shrinks
  <1> DEFINE before == Cardinality(User \ quit)
             after == Cardinality(User \ quit')
  <1>1. before \in Nat /\ after \in Nat /\ after <= before
    <2>1. User \ quit' \subseteq User \ quit /\ User \ quit \subseteq User
          OBVIOUS
    <2>2. IsFiniteSet(User \ quit)
          BY <2>1, FS_Subset
    <2> QED BY <2>1, <2>2, FS_Subset, FS_CardinalityType
  <1>2. \A v \in User : todo[v] \in Seq(Steps)
        BY DEF Inv, TodoOK
  <1>3. Effort(todo[u]) = Weight(Next1(u)) + Effort(Tail(todo[u])) /\ Effort(Tail(todo[u])) \in Nat
    <2>1. /\ <<Head(todo[u])>> \in Seq(Steps) /\ Tail(todo[u]) \in Seq(Steps)
          /\ todo[u] = <<Head(todo[u])>> \o Tail(todo[u])
          BY <1>2, HeadAndTail
    <2>2. Effort(<<Head(todo[u])>> \o Tail(todo[u])) = Effort(<<Head(todo[u])>>) + Effort(Tail(todo[u]))
          BY <2>1, EffortOfBoth
    <2>3. Effort(<<Head(todo[u])>>) = Weight(Next1(u))
          BY EffortOfOne DEF Next1
    <2>4. Effort(Tail(todo[u])) \in Nat
          BY <2>1, EffortType
    <2> QED BY <2>1, <2>2, <2>3, <2>4
  <1>4. Effort(todo'[u]) = Effort(steps) + Effort(Tail(todo[u])) /\ Effort(steps) \in Nat
    <2>1. todo'[u] = steps \o Tail(todo[u])
          BY DEF Inv, Then, TodoOK
    <2>2. Tail(todo[u]) \in Seq(Steps)
          BY <1>2, HeadAndTail
    <2>3. steps \in Seq(S \cup Steps) /\ Tail(todo[u]) \in Seq(S \cup Steps)
          BY <2>2
    <2>4. Effort(steps \o Tail(todo[u])) = Effort(steps) + Effort(Tail(todo[u]))
          BY <2>3, EffortOfBoth
    <2> QED BY <2>1, <2>4, EffortType
  <1>5. Weight(Next1(u)) \in Nat
        BY WeightType
  <1>6. 3 * after + Effort(todo'[u]) < 3 * before + Effort(todo[u])
        BY <1>1, <1>3, <1>4, <1>5
  <1>7. ASSUME NEW v \in User, v # u
        PROVE  todo'[v] = todo[v] /\ 3 * after + Effort(todo'[v]) <= 3 * before + Effort(todo[v])
    <2>1. todo'[v] = todo[v]
          BY <1>7 DEF Inv, Then, TodoOK
    <2>2. Effort(todo[v]) \in Nat
          BY <1>2, EffortType
    <2> QED BY <1>1, <2>1, <2>2
  <1> QED BY <1>6, <1>7 DEF Shrinks, Work

LEMMA FewerSteps ==
  ASSUME Inv, IsFiniteSet(User), NEW u \in User, todo[u] # <<>>, quit' = quit,
         NEW S, NEW steps \in Seq(S), Then(u, steps), Effort(steps) < Weight(Next1(u))
  PROVE  Shrinks
  <1>1. User \ quit \subseteq User
        OBVIOUS
  <1>2. Cardinality(User \ quit) \in Nat /\ Effort(steps) \in Nat /\ Weight(Next1(u)) \in Nat
        BY <1>1, FS_Subset, FS_CardinalityType, EffortType, WeightType
  <1>3. 3 * Cardinality(User \ quit') + Effort(steps) < 3 * Cardinality(User \ quit) + Weight(Next1(u))
        BY <1>2
  <1> QED BY <1>3, LighterShrinks

LEMMA FewShrink ==
  ASSUME Inv, IsFiniteSet(User), NEW u \in User, todo[u] # <<>>, quit' = quit, NEW x, NEW y,
         \/ Then(u, <<>>)
         \/ Then(u, <<x>>) /\ Weight(x) < Weight(Next1(u))
         \/ Then(u, <<x, y>>) /\ Weight(x) + Weight(y) < Weight(Next1(u))
  PROVE  Shrinks
  <1>1. Effort(<<>>) < Weight(Next1(u)) /\ <<>> \in Seq({x})
        BY EffortOfNone, WeightType
  <1>2. Effort(<<x>>) = Weight(x) /\ <<x>> \in Seq({x})
        BY EffortOfOne
  <1>3. Effort(<<x, y>>) = Weight(x) + Weight(y) /\ <<x, y>> \in Seq({x, y})
        BY EffortOfTwo
  <1>4. CASE Then(u, <<>>)
        BY <1>1, <1>4, FewerSteps
  <1>5. CASE Then(u, <<x>>) /\ Weight(x) < Weight(Next1(u))
        BY <1>2, <1>5, FewerSteps
  <1>6. CASE Then(u, <<x, y>>) /\ Weight(x) + Weight(y) < Weight(Next1(u))
        BY <1>3, <1>6, FewerSteps
  <1> QED BY <1>4, <1>5, <1>6

LEMMA FailsShrinks ==
  ASSUME Inv, IsFiniteSet(User), NEW s, Fails(s), quit' = quit
  PROVE  Shrinks
  <1> SUFFICES ASSUME NEW u \in User, todo[u] # <<>> PROVE Work(u)' < Work(u)
      BY DEF Shrinks
  <1>1. User \ quit \subseteq User
        OBVIOUS
  <1>2. Cardinality(User \ quit) \in Nat
        BY <1>1, FS_Subset, FS_CardinalityType
  <1>3. Effort(todo'[u]) = 0
        BY EffortOfNone DEF Fails
  <1>4. Effort(todo[u]) \in Nat /\ Effort(todo[u]) >= 1
    <2>1. todo[u] \in Seq(Steps)
          BY DEF Inv, TodoOK
    <2>2. /\ <<Head(todo[u])>> \in Seq(Steps) /\ Tail(todo[u]) \in Seq(Steps)
          /\ todo[u] = <<Head(todo[u])>> \o Tail(todo[u])
          BY <2>1, HeadAndTail
    <2>3. Effort(todo[u]) = Weight(Head(todo[u])) + Effort(Tail(todo[u]))
          BY <2>2, EffortOfBoth, EffortOfOne
    <2>4. Effort(Tail(todo[u])) \in Nat /\ Weight(Head(todo[u])) \in Nat /\ Weight(Head(todo[u])) >= 1
          BY <2>2, EffortType, WeightType
    <2> QED BY <2>3, <2>4
  <1> QED BY <1>2, <1>3, <1>4 DEF Work

LEMMA StartsShrinks ==
  ASSUME Inv, IsFiniteSet(User), NEW u \in User, NEW steps, Starts(u, steps), quit' = quit
  PROVE  Shrinks
  <1> SUFFICES ASSUME NEW v \in User, todo[v] # <<>> PROVE todo'[v] = todo[v] /\ Work(v)' <= Work(v)
      BY DEF Shrinks
  <1>1. todo'[v] = todo[v]
        BY DEF Inv, Starts, TodoOK
  <1>2. User \ quit \subseteq User
        OBVIOUS
  <1>3. Cardinality(User \ quit) \in Nat
        BY <1>2, FS_Subset, FS_CardinalityType
  <1>4. Effort(todo[v]) \in Nat
    <2>1. todo[v] \in Seq(Steps)
          BY DEF Inv, TodoOK
    <2> QED BY <2>1, EffortType
  <1> QED BY <1>1, <1>3, <1>4 DEF Work

-----------------------------------------------------------------------------
(* The steps, one after another. *)

\* The messages that lead to nothing more.
LEMMA LastStepsShrink ==
  ASSUME Inv, IsFiniteSet(User), NEW u \in User, NEW s,
         ServerNick(u, s) \/ Exited(u, s) \/ Sjoin(u, s) \/ Skick(u, s) \/ Cmode(u, s)
  PROVE  Shrinks
  <1>1. Then(u, <<>>) /\ quit' = quit /\ todo[u] # <<>>
        BY DEF ServerNick, Exited, Sjoin, Skick, Cmode, Doing, sessions
  <1> QED BY <1>1, FewShrink

\* ... and those that may fail.
LEMMA FailingStepsShrink ==
  ASSUME Inv, IsFiniteSet(User), NEW u \in User, NEW s,
         ChannelPart(u, s) \/ ModeHere(u, s) \/ Spart(u, s)
  PROVE  Shrinks
  <1>1. quit' = quit /\ todo[u] # <<>>
        BY DEF ChannelPart, ModeHere, Spart, Doing, sessions
  <1>2. Then(u, <<>>) \/ Fails(s)
        BY DEF ChannelPart, ModeHere, Spart
  <1> QED BY <1>1, <1>2, FewShrink, FailsShrinks

LEMMA CmdNickShrinks ==
  ASSUME Inv, IsFiniteSet(User), NEW u \in User, NEW s, CmdNick(u, s)
  PROVE  Shrinks
  <1> DEFINE n == Arg(u)[2]
             tell == Tell(s, "NICK", <<nick[s][u], n>>)
             ren == Do(s, "rename", <<u, n>>)
             new == Tell(s, "SNICK", <<n, u>>)
  <1>1. quit' = quit /\ todo[u] # <<>> /\ Next1(u).do = "cmdNick"
        BY DEF CmdNick, Doing, sessions
  <1>2. Then(u, <<>>) \/ Then(u, <<tell, ren>>) \/ Then(u, <<new>>)
        BY DEF CmdNick
  <1>3. tell.do = "NICK" /\ ren.do = "rename" /\ new.do = "SNICK"
        BY DEF Tell, Do
  <1> HIDE DEF tell, ren, new
  <1>4. /\ Weight(Next1(u)) = 8 * Cardinality(Channel) + 4 /\ Weight(tell) = 1
        /\ Weight(ren) = 8 * Cardinality(Channel) + 2 /\ Weight(new) = 2
        BY <1>1, <1>3, WeightOf
  <1>5. Weight(tell) + Weight(ren) < Weight(Next1(u)) /\ Weight(new) < Weight(Next1(u))
        BY <1>4, ChannelCount
  <1>6. CASE Then(u, <<>>)
        BY <1>1, <1>6, FewShrink
  <1>7. CASE Then(u, <<tell, ren>>)
        BY <1>1, <1>5, <1>7, FewShrink
  <1>8. CASE Then(u, <<new>>)
        BY <1>1, <1>5, <1>8, FewShrink
  <1> QED BY <1>2, <1>6, <1>7, <1>8

\* The channels of a user, one step for each.
LEMMA EffortInOrder ==
  ASSUME NEW C \in SUBSET Channel, NEW his \in SetToSeqs(C), NEW s, NEW u,
         NEW kind, NEW w \in {2, 6}, \A x : x.do = kind => Weight(x) = w
  PROVE  /\ [i \in DOMAIN his |-> Do(s, kind, <<u, his[i]>>)] \in Seq({Do(s, kind, <<u, c>>) : c \in Channel})
         /\ Effort([i \in DOMAIN his |-> Do(s, kind, <<u, his[i]>>)]) <= w * Cardinality(Channel)
  <1> DEFINE S == {Do(s, kind, <<u, c>>) : c \in Channel}
             t == [i \in DOMAIN his |-> Do(s, kind, <<u, his[i]>>)]
  <1>1. Cardinality(C) \in Nat /\ Cardinality(C) <= Cardinality(Channel)
        BY ChannelAssumption, FS_Subset, FS_CardinalityType
  <1>2. his \in [1..Cardinality(C) -> C]
        BY DEF SetToSeqs
  <1>3. \A i \in 1..Cardinality(C) : his[i] \in Channel
        BY <1>2
  <1>4. t = [i \in 1..Cardinality(C) |-> Do(s, kind, <<u, his[i]>>)]
        BY <1>2
  <1>5. \A i \in 1..Cardinality(C) : t[i] \in S /\ t[i].do = kind
        BY <1>3, <1>4 DEF Do
  <1>6. t \in [1..Cardinality(C) -> S]
        BY <1>4, <1>5
  <1> HIDE DEF t, S
  <1>7. t \in Seq(S) /\ Len(t) = Cardinality(C)
        BY <1>1, <1>6
  <1>8. Effort(t) = w * Len(t)
        BY <1>5, <1>7, EffortOfSame
  <1>9. w * Cardinality(C) <= w * Cardinality(Channel)
        BY <1>1, ChannelCount
  <1> QED BY <1>7, <1>8, <1>9 DEF t, S

LEMMA RenameShrinks ==
  ASSUME Inv, IsFiniteSet(User), NEW u \in User, NEW s, Rename(u, s)
  PROVE  Shrinks
  <1>1. quit' = quit /\ todo[u] # <<>> /\ Next1(u).do = "rename"
        BY DEF Rename, Doing, sessions
  <1>2. PICK his \in SetToSeqs(ChannelsOf(s, u)) :
          Then(u, [i \in DOMAIN his |-> Do(s, "CheckModes", <<u, his[i]>>)]
                  \o <<Do(s, "Cycle", <<u>>)>>)
        BY DEF Rename
  <1> DEFINE S == {Do(s, "CheckModes", <<u, c>>) : c \in Channel}
             t == [i \in DOMAIN his |-> Do(s, "CheckModes", <<u, his[i]>>)]
             x == Do(s, "Cycle", <<u>>)
  <1>3. ChannelsOf(s, u) \in SUBSET Channel
        BY DEF ChannelsOf
  <1>4. \A y : y.do = "CheckModes" => Weight(y) = 2
        BY WeightOf
  <1>5. t \in Seq(S) /\ Effort(t) <= 2 * Cardinality(Channel)
        BY <1>2, <1>3, <1>4, EffortInOrder
  <1>6. x.do = "Cycle"
        BY DEF Do
  <1>7. Then(u, t \o <<x>>)
        BY <1>2
  <1> HIDE DEF S, t, x
  <1>8. Weight(x) = 6 * Cardinality(Channel) + 1 /\ Weight(Next1(u)) = 8 * Cardinality(Channel) + 2
        BY <1>1, <1>6, WeightOf
  <1>9. t \in Seq(S \cup {x}) /\ <<x>> \in Seq(S \cup {x})
        BY <1>5
  <1>10. t \o <<x>> \in Seq(S \cup {x})
        BY <1>9, ConcatParts
  <1>11. Effort(t \o <<x>>) = Effort(t) + Weight(x)
        BY <1>9, EffortOfBoth, EffortOfOne
  <1>12. Effort(t) \in Nat
        BY <1>5, EffortType
  <1>13. Effort(t \o <<x>>) < Weight(Next1(u))
        BY <1>5, <1>8, <1>11, <1>12, ChannelCount
  <1> QED BY <1>1, <1>7, <1>10, <1>13, FewerSteps

LEMMA CycleShrinks ==
  ASSUME Inv, IsFiniteSet(User), NEW u \in User, NEW s, Cycle(u, s)
  PROVE  Shrinks
  <1>1. quit' = quit /\ todo[u] # <<>> /\ Next1(u).do = "Cycle"
        BY DEF Cycle, Doing, sessions
  <1>2. CASE Then(u, <<>>)
        BY <1>1, <1>2, FewShrink
  <1>3. ASSUME NEW his \in SetToSeqs(ChannelsOf(s, u)),
               Then(u, [i \in DOMAIN his |-> Do(s, "Cycle part", <<u, his[i]>>)])
        PROVE  Shrinks
    <2> DEFINE S == {Do(s, "Cycle part", <<u, c>>) : c \in Channel}
               t == [i \in DOMAIN his |-> Do(s, "Cycle part", <<u, his[i]>>)]
    <2>1. ChannelsOf(s, u) \in SUBSET Channel
          BY DEF ChannelsOf
    <2>2. \A y : y.do = "Cycle part" => Weight(y) = 6
          BY WeightOf
    <2>3. t \in Seq(S) /\ Effort(t) <= 6 * Cardinality(Channel)
          BY <2>1, <2>2, EffortInOrder
    <2>4. Then(u, t)
          BY <1>3
    <2> HIDE DEF S, t
    <2>5. Weight(Next1(u)) = 6 * Cardinality(Channel) + 1
          BY <1>1, WeightOf
    <2>6. Effort(t) \in Nat
          BY <2>3, EffortType
    <2>7. Effort(t) < Weight(Next1(u))
          BY <2>3, <2>5, <2>6, ChannelCount
    <2> QED BY <1>1, <2>3, <2>4, <2>7, FewerSteps
  <1> QED BY <1>2, <1>3 DEF Cycle

LEMMA SnickShrinks ==
  ASSUME Inv, IsFiniteSet(User), NEW u \in User, NEW s, Snick(u, s)
  PROVE  Shrinks
  <1> DEFINE x == Do(s, "Exit", <<table[s][Arg(u)[1]]>>)
  <1>1. quit' = quit /\ todo[u] # <<>> /\ Next1(u).do = "SNICK"
        BY DEF Snick, Doing, sessions
  <1>2. Then(u, <<>>) \/ Then(u, <<x>>)
        BY DEF Snick
  <1>3. x.do = "Exit"
        BY DEF Do
  <1> HIDE DEF x
  <1>4. Weight(x) < Weight(Next1(u))
    <2>1. Weight(x) = 1 /\ Weight(Next1(u)) = 2
          BY <1>1, <1>3, WeightOf
    <2> QED BY <2>1
  <1> QED BY <1>1, <1>2, <1>4, FewShrink

LEMMA ServerQuitShrinks ==
  ASSUME Inv, IsFiniteSet(User), NEW u \in User, NEW s, ServerQuit(u, s)
  PROVE  Shrinks
  <1> DEFINE x == Do(s, "Exit", <<table[s][Arg(u)[1]]>>)
  <1>1. quit' = quit /\ todo[u] # <<>> /\ Next1(u).do \in {"QUIT", "SKILL"}
        BY DEF ServerQuit, Doing, sessions
  <1>2. Then(u, <<>>) \/ Then(u, <<x>>)
        BY DEF ServerQuit
  <1>3. x.do = "Exit"
        BY DEF Do
  <1> HIDE DEF x
  <1>4. Weight(x) < Weight(Next1(u))
    <2>1. Weight(x) = 1 /\ Weight(Next1(u)) = 2
          BY <1>1, <1>3, WeightOf
    <2> QED BY <2>1
  <1> QED BY <1>1, <1>2, <1>4, FewShrink

LEMMA CheckModesShrinks ==
  ASSUME Inv, IsFiniteSet(User), NEW u \in User, NEW s, CheckModes(u, s)
  PROVE  Shrinks
  <1>1. quit' = quit /\ todo[u] # <<>> /\ Next1(u).do = "CheckModes"
        BY DEF CheckModes, Doing, sessions
  <1>2. \E args : Then(u, <<>>) \/ Then(u, <<Tell(s, "CMODE", args)>>)
        BY DEF CheckModes
  <1>3. PICK args : Then(u, <<>>) \/ Then(u, <<Tell(s, "CMODE", args)>>)
        BY <1>2
  <1>4. Tell(s, "CMODE", args).do = "CMODE"
        BY DEF Tell, Do
  <1>5. Weight(Tell(s, "CMODE", args)) < Weight(Next1(u))
    <2>1. Weight(Tell(s, "CMODE", args)) = 1 /\ Weight(Next1(u)) = 2
          BY <1>1, <1>4, WeightOf
    <2> QED BY <2>1
  <1> QED BY <1>1, <1>3, <1>5, FewShrink

LEMMA CyclePartShrinks ==
  ASSUME Inv, IsFiniteSet(User), NEW u \in User, NEW s, CyclePart(u, s)
  PROVE  Shrinks
  <1> DEFINE x == Tell(s, "SPART", <<nick[s][u], Arg(u)[2]>>)
             y == Do(s, "Cycle join", <<u, Arg(u)[2]>>)
  <1>1. quit' = quit /\ todo[u] # <<>> /\ Next1(u).do = "Cycle part"
        BY DEF CyclePart, Doing, sessions
  <1>2. Fails(s) \/ Then(u, <<x, y>>)
        BY DEF CyclePart
  <1>3. x.do = "SPART" /\ y.do = "Cycle join"
        BY DEF Tell, Do
  <1> HIDE DEF x, y
  <1>4. Weight(x) + Weight(y) < Weight(Next1(u))
    <2>1. Weight(x) = 1 /\ Weight(y) = 4 /\ Weight(Next1(u)) = 6
          BY <1>1, <1>3, WeightOf
    <2> QED BY <2>1
  <1> QED BY <1>1, <1>2, <1>4, FewShrink, FailsShrinks

LEMMA CycleJoinShrinks ==
  ASSUME Inv, IsFiniteSet(User), NEW u \in User, NEW s, CycleJoin(u, s)
  PROVE  Shrinks
  <1>1. quit' = quit /\ todo[u] # <<>> /\ Next1(u).do = "Cycle join"
        BY DEF CycleJoin, Doing, sessions
  <1> DEFINE x == Do(s, "CheckModes", <<u, Arg(u)[2]>>)
             mode == IF u \in ops[s][Arg(u)[2]] THEN "o" ELSE "x"
             y == Tell(s, "SJOIN", <<nick[s][u], Arg(u)[2], mode>>)
  <1>2. Fails(s) \/ Then(u, <<x, y>>)
        BY DEF CycleJoin
  <1>3. x.do = "CheckModes" /\ y.do = "SJOIN"
        BY DEF Tell, Do
  <1> HIDE DEF x, y
  <1>4. Weight(x) + Weight(y) < Weight(Next1(u))
    <2>1. Weight(x) = 2 /\ Weight(y) = 1 /\ Weight(Next1(u)) = 4
          BY <1>1, <1>3, WeightOf
    <2> QED BY <2>1
  <1> QED BY <1>1, <1>2, <1>4, FewShrink, FailsShrinks

\* Exit: there is one less to come.
LEMMA ExitShrinks ==
  ASSUME Inv, IsFiniteSet(User), NEW u \in User, NEW s, Exit(u, s)
  PROVE  Shrinks
  <1> DEFINE v == Arg(u)[1]
             x == Tell(s, "QUIT", <<nick[s][v]>>)
             y == Do(s, "exited", <<v>>)
  <1>1. todo[u] # <<>> /\ Next1(u) \in Steps /\ Next1(u).do = "Exit"
        BY NextIsGood DEF Exit, Inv
  <1>2. v \in User
        BY <1>1, StepArgs DEF Arg
  <1>3. CASE v \in quit
        BY <1>1, <1>3, FewShrink DEF Exit, sessions
  <1>4. CASE v \notin quit
    <2>1. quit' = quit \cup {v} /\ (Then(u, <<>>) \/ Then(u, <<x, y>>))
          BY <1>4 DEF Exit
    <2>2. x.do = "QUIT" /\ y.do = "exited"
          BY DEF Tell, Do
    <2> HIDE DEF v, x, y
    <2>3. Weight(x) = 2 /\ Weight(y) = 1 /\ Weight(Next1(u)) = 1
          BY <1>1, <2>2, WeightOf
    <2> DEFINE before == Cardinality(User \ quit)
               after == Cardinality(User \ quit')
    <2>4. before \in Nat /\ after \in Nat /\ after = before - 1
      <3>1. User \ quit \subseteq User /\ User \ quit' = (User \ quit) \ {v} /\ v \in User \ quit
            BY <1>2, <1>4, <2>1
      <3>2. IsFiniteSet(User \ quit)
            BY <3>1, FS_Subset
      <3>3. IsFiniteSet((User \ quit) \ {v}) /\ Cardinality((User \ quit) \ {v}) = before - 1
            BY <3>1, <3>2, FS_RemoveElement
      <3> QED BY <3>1, <3>2, <3>3, FS_CardinalityType
    <2> HIDE DEF before, after
    <2>5. Effort(<<x, y>>) = 3 /\ Effort(<<>>) = 0
          BY <2>3, EffortOfTwo, EffortOfNone
    <2>6. /\ 3 * after + Effort(<<x, y>>) < 3 * before + Weight(Next1(u))
          /\ 3 * after + Effort(<<>>) < 3 * before + Weight(Next1(u))
          BY <2>3, <2>4, <2>5
    <2>7. quit \subseteq quit' /\ <<x, y>> \in Seq({x, y}) /\ <<>> \in Seq({x, y})
          BY <2>1
    <2>8. CASE Then(u, <<>>)
          BY <1>1, <2>6, <2>7, <2>8, LighterShrinks DEF before, after
    <2>9. CASE Then(u, <<x, y>>)
          BY <1>1, <2>6, <2>7, <2>9, LighterShrinks DEF before, after
    <2> QED BY <2>1, <2>8, <2>9
  <1> QED BY <1>3, <1>4

LEMMA CommandShrinks ==
  ASSUME Inv, IsFiniteSet(User), NEW u \in User, Command(u)
  PROVE  Shrinks
  <1>1. ASSUME NEW n \in Nick, NickIdentify(u, n) \/ NickPlain(u, n) PROVE Shrinks
        BY <1>1, StartsShrinks DEF NickIdentify, NickPlain, sessions
  <1>2. CASE Quit(u)
        BY <1>2, StartsShrinks DEF Quit, sessions
  <1>3. ASSUME NEW v \in User, Kill(u, v) PROVE Shrinks
        BY <1>3, StartsShrinks DEF Kill, sessions
  <1>4. ASSUME NEW c \in Channel, JoinFree(u, c) \/ JoinRegistered(u, c) \/ Part(u, c) PROVE Shrinks
        BY <1>4, StartsShrinks DEF JoinFree, JoinRegistered, Part, sessions
  <1>5. ASSUME NEW v \in User, NEW c \in Channel, Kick(u, v, c) PROVE Shrinks
        BY <1>5, StartsShrinks DEF Kick, sessions
  <1>6. ASSUME NEW v \in User, NEW c \in Channel, NEW sign \in {"+o", "-o"}, Mode(u, v, c, sign)
        PROVE  Shrinks
        BY <1>6, StartsShrinks DEF Mode, sessions
  <1> QED BY <1>1, <1>2, <1>3, <1>4, <1>5, <1>6 DEF Command

LEMMA NextShrinks ==
  ASSUME Inv, IsFiniteSet(User), Next
  PROVE  Shrinks
  <1>1. ASSUME NEW u \in User, NEW s \in Server,
               \/ CmdNick(u, s) \/ Rename(u, s) \/ Snick(u, s) \/ ServerNick(u, s)
               \/ Exit(u, s) \/ Exited(u, s) \/ ServerQuit(u, s)
        PROVE  Shrinks
        BY <1>1, CmdNickShrinks, RenameShrinks, SnickShrinks, LastStepsShrink, ExitShrinks, ServerQuitShrinks
  <1>2. ASSUME NEW u \in User, NEW s \in Server,
               \/ CheckModes(u, s) \/ Cycle(u, s) \/ CyclePart(u, s) \/ CycleJoin(u, s)
               \/ ChannelPart(u, s) \/ ModeHere(u, s)
               \/ Sjoin(u, s) \/ Spart(u, s) \/ Skick(u, s) \/ Cmode(u, s)
        PROVE  Shrinks
        BY <1>2, CheckModesShrinks, CycleShrinks, CyclePartShrinks, CycleJoinShrinks,
           LastStepsShrink, FailingStepsShrink
  <1> QED BY <1>1, <1>2, CommandShrinks DEF Next, Step

\* However many commands overlap, every step of one brings its end nearer and none puts
\* off the end of another, as long as no new sessions come without end: what Exit,
\* MakeQuit, NICK and Cycle send is answered by less than they were, until nothing is left.
THEOREM CommandsAlwaysShrink == ASSUME IsFiniteSet(User) PROVE Spec => CommandsShrink
  <1>1. Inv /\ [Next]_vars => [Shrinks]_vars
        BY NextShrinks
  <1> HIDE DEF Inv, Shrinks
  <1> QED BY <1>1, InitInv, NextInv, PTL DEF Spec, CommandsShrink

-----------------------------------------------------------------------------
(* How much work a command can be. *)

WorkBound == 3 * Cardinality(User) + 8 * Cardinality(Channel) + 6

\* No command has more steps left than this, whatever it has met and will meet.
WorkIsBounded == \A u \in User : todo[u] # <<>> => Work(u) <= WorkBound

\* What a command starts with.
LEMMA CommandEffort ==
  ASSUME Inv, NEW u \in User, Command(u)
  PROVE  \E steps : /\ Starts(u, steps) /\ \E S : steps \in Seq(S)
                    /\ Effort(steps) <= 8 * Cardinality(Channel) + 6
                    /\ quit' = quit
  <1> DEFINE Fine(steps) == (\E S : steps \in Seq(S)) /\ Effort(steps) <= 8 * Cardinality(Channel) + 6
             Goal == \E steps : Starts(u, steps) /\ Fine(steps) /\ quit' = quit
  <1>1. ASSUME NEW x, NEW y, Weight(x) <= 2, Weight(y) <= 8 * Cardinality(Channel) + 4
        PROVE  Fine(<<>>) /\ Fine(<<x>>) /\ Fine(<<x, y>>) /\ Fine(<<y>>)
    <2>1. /\ Effort(<<>>) = 0 /\ Effort(<<x>>) = Weight(x) /\ Effort(<<y>>) = Weight(y)
          /\ Effort(<<x, y>>) = Weight(x) + Weight(y)
          BY EffortOfNone, EffortOfOne, EffortOfTwo
    <2>2. /\ <<>> \in Seq({x}) /\ <<x>> \in Seq({x}) /\ <<y>> \in Seq({y}) /\ <<x, y>> \in Seq({x, y})
          OBVIOUS
    <2>3. Weight(x) \in Nat /\ Weight(y) \in Nat /\ 8 * Cardinality(Channel) \in Nat
          BY WeightType, ChannelCount
    <2>4. /\ Effort(<<>>) <= 8 * Cardinality(Channel) + 6 /\ Effort(<<x>>) <= 8 * Cardinality(Channel) + 6
          /\ Effort(<<y>>) <= 8 * Cardinality(Channel) + 6
          /\ Effort(<<x, y>>) <= 8 * Cardinality(Channel) + 6
          BY <1>1, <2>1, <2>3
    <2> QED BY <2>2, <2>4
  <1>2. ASSUME NEW kind \in {"Exit", "QUIT", "SKILL", "SJOIN", "CheckModes", "SPART", "part", "SKICK",
                             "CMODE", "mode"},
               NEW s, NEW args
        PROVE  /\ Weight(Do(s, kind, args)) <= 2
               /\ Weight(Do(s, kind, args)) <= 8 * Cardinality(Channel) + 4
    <2>1. Do(s, kind, args).do = kind
          BY DEF Do
    <2>2. Weight(Do(s, kind, args)) \in {1, 2}
          BY <2>1 DEF Weight
    <2> QED BY <2>2, ChannelCount
  <1>3. \A s, args : Weight(Do(s, "cmdNick", args)) <= 8 * Cardinality(Channel) + 4
    <2>1. \A s, args : Do(s, "cmdNick", args).do = "cmdNick"
          BY DEF Do
    <2>2. \A s, args : Weight(Do(s, "cmdNick", args)) = 8 * Cardinality(Channel) + 4
          BY <2>1, WeightOf
    <2> QED BY <2>2, ChannelCount
  <1>4. Fine(<<>>) /\ \A s, args : Fine(<<Do(s, "cmdNick", args)>>)
        BY <1>1, <1>2, <1>3
  <1>5. ASSUME NEW kind \in {"Exit", "QUIT", "SKILL", "SJOIN", "CheckModes", "SKICK"}, NEW s, NEW args
        PROVE  Fine(<<Do(s, kind, args)>>)
        BY <1>1, <1>2
  <1>6. ASSUME NEW kind \in {"SPART", "CMODE"}, NEW last \in {"part", "mode"}, NEW s, NEW args,
               NEW p, NEW rest
        PROVE  Fine(<<Do(s, kind, args), Do(p, last, rest)>>)
        BY <1>1, <1>2
  <1>7. ASSUME NEW kind \in {"Exit", "QUIT"}, NEW s, NEW args, NEW p, NEW rest
        PROVE  Fine(<<Do(s, kind, args), Do(p, "cmdNick", rest)>>)
        BY <1>1, <1>2, <1>3
  <1> HIDE DEF Fine
  <1>8. ASSUME NEW n \in Nick, NickIdentify(u, n) PROVE Goal
    <2> DEFINE s == home[u]
               last == Do(s, "cmdNick", <<u, n>>)
    <2>1. Starts(u, GhostSteps(s, n) \o <<last>>) /\ quit' = quit
          BY <1>8 DEF NickIdentify, sessions
    <2>2. \/ GhostSteps(s, n) = <<>>
          \/ \E args : GhostSteps(s, n) = <<Do(s, "Exit", args)>>
          \/ \E args : GhostSteps(s, n) = <<Do(Peer(s), "QUIT", args)>>
          BY DEF GhostSteps, Tell
    <2>3. CASE GhostSteps(s, n) = <<>>
      <3>1. GhostSteps(s, n) \o <<last>> = <<last>>
            BY <2>3
      <3> QED BY <1>4, <2>1, <3>1
    <2>4. ASSUME NEW args, GhostSteps(s, n) = <<Do(s, "Exit", args)>> PROVE Goal
      <3>1. GhostSteps(s, n) \o <<last>> = <<Do(s, "Exit", args), last>>
            BY <2>4, OneBeforeOne
      <3> QED BY <1>7, <2>1, <3>1
    <2>5. ASSUME NEW args, GhostSteps(s, n) = <<Do(Peer(s), "QUIT", args)>> PROVE Goal
      <3>1. GhostSteps(s, n) \o <<last>> = <<Do(Peer(s), "QUIT", args), last>>
            BY <2>5, OneBeforeOne
      <3> QED BY <1>7, <2>1, <3>1
    <2> QED BY <2>2, <2>3, <2>4, <2>5
  <1>9. ASSUME NEW n \in Nick, NickPlain(u, n) PROVE Goal
        BY <1>4, <1>9 DEF NickPlain, sessions
  <1>10. ASSUME Quit(u) PROVE Goal
        BY <1>5, <1>10 DEF Quit, sessions
  <1>11. ASSUME NEW v \in User, Kill(u, v) PROVE Goal
        BY <1>5, <1>11 DEF Kill, Tell, sessions
  <1>12. ASSUME NEW c \in Channel, JoinFree(u, c) \/ JoinRegistered(u, c) PROVE Goal
        BY <1>5, <1>12 DEF JoinFree, JoinRegistered, Tell, sessions
  <1>13. ASSUME NEW c \in Channel, Part(u, c) PROVE Goal
        BY <1>6, <1>13 DEF Part, Tell, sessions
  <1>14. ASSUME NEW v \in User, NEW c \in Channel, Kick(u, v, c) PROVE Goal
        BY <1>4, <1>5, <1>14 DEF Kick, Tell, sessions
  <1>15. ASSUME NEW v \in User, NEW c \in Channel, NEW sign \in {"+o", "-o"}, Mode(u, v, c, sign)
        PROVE  Goal
        BY <1>6, <1>15 DEF Mode, Tell, sessions
  <1> HIDE DEF Goal
  <1>16. Goal
        BY <1>8, <1>9, <1>10, <1>11, <1>12, <1>13, <1>14, <1>15 DEF Command
  <1> QED BY <1>16 DEF Goal, Fine

\* A step of one command leaves the others as they are, unless the server fails.
LEMMA StepOfOne ==
  ASSUME Inv, NEW w \in User, Step(w), NEW u \in User, todo[u] = <<>>
  PROVE  todo'[u] = <<>>
  <1>1. PICK s \in Server :
             \/ CmdNick(w, s) \/ Rename(w, s) \/ Snick(w, s) \/ ServerNick(w, s)
             \/ Exit(w, s) \/ Exited(w, s) \/ ServerQuit(w, s)
             \/ CheckModes(w, s) \/ Cycle(w, s) \/ CyclePart(w, s) \/ CycleJoin(w, s)
             \/ ChannelPart(w, s) \/ ModeHere(w, s)
             \/ Sjoin(w, s) \/ Spart(w, s) \/ Skick(w, s) \/ Cmode(w, s)
        BY DEF Step
  <1>2. todo[w] # <<>>
        BY <1>1 DEF CmdNick, Rename, Snick, ServerNick, Exit, Exited, ServerQuit, CheckModes, Cycle,
           CyclePart, CycleJoin, ChannelPart, ModeHere, Sjoin, Spart, Skick, Cmode, Doing
  <1>3. Fails(s) \/ \E steps : Then(w, steps)
    <2>1. CASE CmdNick(w, s) \/ Rename(w, s) \/ Snick(w, s) \/ ServerNick(w, s)
          BY <2>1 DEF CmdNick, Rename, Snick, ServerNick
    <2>2. CASE Exit(w, s) \/ Exited(w, s) \/ ServerQuit(w, s)
          BY <2>2 DEF Exit, Exited, ServerQuit
    <2>3. CASE CheckModes(w, s) \/ Cycle(w, s) \/ CyclePart(w, s) \/ CycleJoin(w, s)
          BY <2>3 DEF CheckModes, Cycle, CyclePart, CycleJoin
    <2>4. CASE ChannelPart(w, s) \/ ModeHere(w, s) \/ Spart(w, s)
          BY <2>4 DEF ChannelPart, ModeHere, Spart
    <2>5. CASE Sjoin(w, s) \/ Skick(w, s) \/ Cmode(w, s)
          BY <2>5 DEF Sjoin, Skick, Cmode
    <2> QED BY <1>1, <2>1, <2>2, <2>3, <2>4, <2>5
  <1> QED BY <1>2, <1>3 DEF Then, Fails, Inv, TodoOK

LEMMA BoundStays ==
  ASSUME Inv, IsFiniteSet(User), WorkIsBounded, [Next]_vars
  PROVE  WorkIsBounded'
  <1> SUFFICES ASSUME NEW u \in User, todo'[u] # <<>> PROVE Work(u)' <= WorkBound
      BY DEF WorkIsBounded, WorkBound
  <1>1. Inv'
        BY NextInv
  <1>2. Work(u)' \in Nat /\ Work(u) \in Nat /\ WorkBound \in Nat
    <2>1. ASSUME NEW Q, NEW t \in Seq(Steps) PROVE 3 * Cardinality(User \ Q) + Effort(t) \in Nat
      <3>1. User \ Q \subseteq User
            OBVIOUS
      <3>2. Cardinality(User \ Q) \in Nat /\ Effort(t) \in Nat
            BY <3>1, FS_Subset, FS_CardinalityType, EffortType
      <3> QED BY <3>2
    <2>2. todo[u] \in Seq(Steps) /\ todo'[u] \in Seq(Steps)
          BY <1>1 DEF Inv, TodoOK
    <2>3. Work(u)' \in Nat /\ Work(u) \in Nat
          BY <2>1, <2>2 DEF Work
    <2>4. Cardinality(User) \in Nat
          BY FS_CardinalityType
    <2> QED BY <2>3, <2>4, ChannelCount DEF WorkBound
  <1>3. CASE todo[u] # <<>>
    <2>1. Work(u) <= WorkBound
          BY <1>3 DEF WorkIsBounded
    <2>2. Work(u)' <= Work(u)
      <3>1. CASE UNCHANGED vars
        <4>1. Work(u)' = Work(u)
              BY <3>1 DEF vars, sessions, Work
        <4> QED BY <1>2, <4>1
      <3>2. CASE Next
        <4>1. Work(u)' < Work(u) \/ Work(u)' <= Work(u)
              BY <1>3, <3>2, NextShrinks DEF Shrinks
        <4> QED BY <1>2, <4>1
      <3> QED BY <3>1, <3>2
    <2> QED BY <1>2, <2>1, <2>2
  <1>4. CASE todo[u] = <<>>
    <2>1. ~UNCHANGED vars
          BY <1>4 DEF vars
    <2>2. PICK w \in User : Command(w) \/ Step(w)
          BY <2>1 DEF Next
    <2>3. ~Step(w)
          BY <1>4, <2>2, StepOfOne
    <2>4. PICK steps : /\ Starts(w, steps) /\ \E S : steps \in Seq(S)
                       /\ Effort(steps) <= 8 * Cardinality(Channel) + 6 /\ quit' = quit
          BY <2>2, <2>3, CommandEffort
    <2>5. w = u /\ todo'[u] = steps
          BY <1>4, <2>4 DEF Starts, Inv, TodoOK
    <2>6. Effort(steps) \in Nat
          BY <2>4, EffortType
    <2>7. User \ quit \subseteq User
          OBVIOUS
    <2>8. /\ Cardinality(User \ quit) \in Nat /\ Cardinality(User) \in Nat
          /\ Cardinality(User \ quit) <= Cardinality(User)
          BY <2>7, FS_Subset, FS_CardinalityType
    <2>9. Work(u)' = 3 * Cardinality(User \ quit) + Effort(steps)
          BY <2>4, <2>5 DEF Work
    <2> QED BY <2>4, <2>6, <2>8, <2>9, ChannelCount DEF WorkBound
  <1> QED BY <1>3, <1>4

\* A command of a user takes no more steps, on both servers together, than three for each
\* session there can be and eight for each channel, and six: Work bounds the number of
\* steps that are left of it, since each makes it less (CommandsAlwaysShrink).
THEOREM CommandsAreBounded == ASSUME IsFiniteSet(User) PROVE Spec => []WorkIsBounded
  <1>1. Init => WorkIsBounded
        BY DEF Init, WorkIsBounded
  <1>2. Inv /\ WorkIsBounded /\ [Next]_vars => WorkIsBounded'
        BY BoundStays
  <1> HIDE DEF Inv, WorkIsBounded
  <1> QED BY <1>1, <1>2, InitInv, NextInv, PTL DEF Spec

=============================================================================
