----------------------------- MODULE ZeusLink -----------------------------
(***************************************************************************)
(* Two linked servers and the messages by which each tells the other what  *)
(* its users do.  A command runs on a thread of the server of its user.    *)
(* Server::Send returns when the peer has handled the message, so that a   *)
(* command is a list of steps, here or at the peer, and a handler that     *)
(* sends puts its own steps in front.  Commands of different users         *)
(* overlap.  Of a user his nickname is modelled, of a channel its users    *)
(* and operators; ZeusUsers and ZeusChannels have the rest of one server.  *)
(***************************************************************************)
EXTENDS Naturals, Sequences, SequencesExt, FiniteSets

CONSTANTS
    Server,       \* the two servers
    User,         \* sessions; on the other server, the NewUser that stands for one
    Oper,         \* those who are iRCops
    Nick,
    Protected,    \* nicknames with a row in NICKS; who tries to log in knows the password
    Channel,
    Registered,   \* channels with a row in CANALES
    Trusted,      \* nicknames with access 4 or more in them
    MaxCommands,  \* bound: commands at a time
    Nobody, NoNick

ASSUME ServerAssumption == \E a, b \in Server : a # b /\ Server = {a, b}
ASSUME TableAssumption == Oper \subseteq User /\ Protected \subseteq Nick
                          /\ Registered \subseteq Channel /\ Trusted \subseteq Nick
ASSUME ChannelAssumption == IsFiniteSet(Channel)
ASSUME NoneAssumption == Nobody \notin User /\ NoNick \notin Nick

VARIABLES
    home,     \* home[u]: the server of the session
    table,    \* table[s]: Users, by nickname
    nick,     \* nick[s][u]: mNickName of the object of u at s
    made,     \* made[s]: Channels
    on,       \* on[s][c]: users
    ops,      \* ops[s][c]: operators
    quit,     \* sessions that have run Exit
    exiting,  \* sessions whose Exit holds the quit_mtx of their server
    todo,     \* todo[u]: the steps left of the command of u
    failed,   \* servers that have dereferenced nothing
    apart     \* history: channels in which something was not announced

registry == <<home, table, nick>>
channels == <<made, on, ops>>
sessions == <<quit, exiting>>
vars == <<registry, channels, sessions, todo, failed, apart>>

-----------------------------------------------------------------------------

Peer(s) == CHOOSE p \in Server : p # s
Do(s, kind, args) == [at |-> s, do |-> kind, of |-> args]

\* Server::Send from s.
Tell(s, kind, args) == Do(Peer(s), kind, args)

Local(s, u) == home[u] = s
Entered(u) == nick[home[u]][u] # NoNick             \* bSentNick
Known(s, u) == nick[s][u] # NoNick /\ table[s][nick[s][u]] = u

\* The next step of the command of u, at its server.
Next1(u) == Head(todo[u])
Doing(u, s, kind) == failed = {} /\ todo[u] # <<>> /\ Next1(u).do = kind /\ Next1(u).at = s
Arg(u) == Next1(u).of

\* The step is done, and these come before the rest.
Then(u, steps) == todo' = [todo EXCEPT ![u] = steps \o Tail(@)]

\* A line of u is read and starts a command.
Starts(u, steps) ==
    /\ failed = {} /\ u \notin quit /\ todo[u] = <<>>
    /\ Cardinality({v \in User : todo[v] # <<>>}) < MaxCommands
    /\ todo' = [todo EXCEPT ![u] = steps]

\* The server fails, and what is under way with it; the other one alone is not followed.
Fails(s) ==
    /\ failed' = {s}
    /\ todo' = [u \in User |-> <<>>]

-----------------------------------------------------------------------------
(* What the objects do, at one server. *)

\* Channel::RemoveUser, for the channels C.
RemoveUser(s, u, C) ==
    /\ on' = [on EXCEPT ![s] = [c \in Channel |-> IF c \in C THEN @[c] \ {u} ELSE @[c]]]
    /\ ops' = [ops EXCEPT ![s] = [c \in Channel |-> IF c \in C THEN @[c] \ {u} ELSE @[c]]]

\* Mutant: the users go and the operators stay.
LeaveKeepsModes(s, u, C) ==
    LET gone == {c \in C : on[s][c] \subseteq {u}}
    IN  /\ on' = [on EXCEPT ![s] = [c \in Channel |-> IF c \in C THEN @[c] \ {u} ELSE @[c]]]
        /\ UNCHANGED ops
        /\ made' = [made EXCEPT ![s] = @ \ gone]

\* Channel::quit, part and User::SPART: a channel without users is deleted.
Leave(s, u, C) ==
    LET gone == {c \in C : on[s][c] \subseteq {u}}
    IN  /\ on' = [on EXCEPT ![s] = [c \in Channel |-> IF c \in C THEN @[c] \ {u} ELSE @[c]]]
        /\ ops' = [ops EXCEPT ![s] = [c \in Channel |->
                       IF c \in gone THEN {} ELSE IF c \in C THEN @[c] \ {u} ELSE @[c]]]
        /\ made' = [made EXCEPT ![s] = @ \ gone]

ChannelsOf(s, u) == {c \in Channel : u \in on[s][c]}

\* User::MakeQuit: the entry of the nickname goes, whoever it leads to.
MakeQuit(s, u) ==
    /\ Leave(s, u, ChannelsOf(s, u))
    /\ table' = [table EXCEPT ![s][nick[s][u]] = Nobody]
    /\ UNCHANGED <<home, nick>>

\* User::AddUser, of a nickname that is free.
AddUser(s, u, n) ==
    /\ table' = [table EXCEPT ![s][n] = u]
    /\ nick' = [nick EXCEPT ![s][u] = n]
    /\ UNCHANGED home

\* User::ChangeNickName refuses a new nickname in use and an old one not in use.
Changeable(s, old, new) == table[s][new] = Nobody /\ table[s][old] # Nobody
Moved(s, old, new) == [table EXCEPT ![s][new] = table[s][old], ![s][old] = Nobody]

-----------------------------------------------------------------------------
(* Nicknames. *)

\* The holder of a nickname leaves because its owner logs in.
Ghost(s, n) ==
    LET h == table[s][n]
    IN  IF h = Nobody THEN /\ UNCHANGED <<registry, channels>>
        ELSE IF Local(s, h) THEN UNCHANGED <<registry, channels>>
        ELSE MakeQuit(s, h)

GhostSteps(s, n) ==
    LET h == table[s][n]
    IN  IF h = Nobody THEN <<>>
        ELSE IF Local(s, h) THEN <<Do(s, "Exit", <<h>>)>>
        ELSE <<Tell(s, "QUIT", <<n>>)>>

\* NICK, to a nickname one has the password of.
NickIdentify(u, n) ==
    LET s == home[u]
    IN  /\ n \in Protected /\ nick[s][u] # n
        /\ Ghost(s, n)
        /\ Starts(u, GhostSteps(s, n) \o <<Do(s, "cmdNick", <<u, n>>)>>)
        /\ UNCHANGED <<sessions, failed, apart>>

\* NICK, to a nickname without owner that nobody uses.
NickPlain(u, n) ==
    LET s == home[u]
    IN  /\ n \notin Protected /\ nick[s][u] # n /\ table[s][n] = Nobody
        /\ Starts(u, <<Do(s, "cmdNick", <<u, n>>)>>)
        /\ UNCHANGED <<registry, channels, sessions, failed, apart>>

\* cmdNick of a new user enters him and tells the peer; of another it tells the
\* peer first and renames him after that.
CmdNick(u, s) ==
    /\ Doing(u, s, "cmdNick")
    /\ LET n == Arg(u)[2]
       IN  IF table[s][n] # Nobody
             THEN Then(u, <<>>) /\ UNCHANGED registry        \* "Nick is in use."
           ELSE IF Entered(u)
             THEN /\ Then(u, <<Tell(s, "NICK", <<nick[s][u], n>>), Do(s, "rename", <<u, n>>)>>)
                  /\ UNCHANGED registry
           ELSE AddUser(s, u, n) /\ Then(u, <<Tell(s, "SNICK", <<n, u>>)>>)
    /\ UNCHANGED <<channels, sessions, failed, apart>>

\* ... and has his modes checked in every channel, and his virtual host.
Rename(u, s) ==
    /\ Doing(u, s, "rename")
    /\ LET n == Arg(u)[2]
           old == nick[s][u]
       IN  /\ IF Changeable(s, old, n)
                THEN /\ table' = Moved(s, old, n)
                     /\ nick' = [nick EXCEPT ![s][u] = n, ![s][table[s][old]] = n]
                ELSE nick' = [nick EXCEPT ![s][u] = n] /\ UNCHANGED table
           /\ \E his \in SetToSeqs(ChannelsOf(s, u)) :
                Then(u, [i \in DOMAIN his |-> Do(s, "CheckModes", <<u, his[i]>>)]
                        \o <<Do(s, "Cycle", <<u>>)>>)
    /\ UNCHANGED <<home, channels, sessions, failed, apart>>

\* SNICK: if the nickname is in use its local holder leaves; Exit of one who is
\* remote does nothing.
Snick(u, s) ==
    /\ Doing(u, s, "SNICK")
    /\ LET n == Arg(u)[1]
           h == table[s][n]
       IN  IF h = Nobody THEN AddUser(s, Arg(u)[2], n) /\ Then(u, <<>>)
           ELSE /\ Then(u, IF Local(s, h) THEN <<Do(s, "Exit", <<h>>)>> ELSE <<>>)
                /\ UNCHANGED registry
    /\ UNCHANGED <<channels, sessions, failed, apart>>

\* NICK of the peer.
ServerNick(u, s) ==
    /\ Doing(u, s, "NICK")
    /\ LET old == Arg(u)[1]
           new == Arg(u)[2]
       IN  IF Changeable(s, old, new)
             THEN /\ table' = Moved(s, old, new)
                  /\ nick' = [nick EXCEPT ![s][table[s][old]] = new]
             ELSE UNCHANGED <<table, nick>>
    /\ Then(u, <<>>)
    /\ UNCHANGED <<home, channels, sessions, failed, apart>>

-----------------------------------------------------------------------------
(* Ends. *)

\* QUIT, or a timer of the session.
Quit(u) ==
    /\ Starts(u, <<Do(home[u], "Exit", <<u>>)>>)
    /\ UNCHANGED <<registry, channels, sessions, failed, apart>>

\* OS KILL.
Kill(u, v) ==
    LET s == home[u]
    IN  /\ u \in Oper /\ Entered(u) /\ Known(s, v)
        /\ IF Local(s, v)
             THEN Starts(u, <<Do(s, "Exit", <<v>>)>>) /\ UNCHANGED <<registry, channels>>
             ELSE Starts(u, <<Tell(s, "SKILL", <<nick[s][v]>>)>>) /\ MakeQuit(s, v)
        /\ UNCHANGED <<sessions, failed, apart>>

\* User::Exit: waits for quit_mtx, which is one of the whole server; a second one does
\* nothing.
Exit(u, s) ==
    /\ Doing(u, s, "Exit")
    /\ LET v == Arg(u)[1]
       IN  /\ \A w \in exiting : ~Local(s, w)
           /\ IF v \in quit
                THEN Then(u, <<>>) /\ UNCHANGED <<registry, channels, sessions>>
              ELSE IF ~Entered(v)
                THEN Then(u, <<>>) /\ quit' = quit \cup {v}
                     /\ UNCHANGED <<registry, channels, exiting>>
              ELSE /\ MakeQuit(s, v)
                   /\ quit' = quit \cup {v} /\ exiting' = exiting \cup {v}
                   /\ Then(u, <<Tell(s, "QUIT", <<nick[s][v]>>), Do(s, "exited", <<v>>)>>)
    /\ UNCHANGED <<failed, apart>>

\* The end of Exit releases quit_mtx.
Exited(u, s) ==
    /\ Doing(u, s, "exited")
    /\ exiting' = exiting \ {Arg(u)[1]}
    /\ Then(u, <<>>)
    /\ UNCHANGED <<registry, channels, quit, failed, apart>>

\* Mutant: a QUIT for nobody here is sent back.
ServerQuitEchoes(u, s) ==
    /\ Doing(u, s, "QUIT") \/ Doing(u, s, "SKILL")
    /\ LET n == Arg(u)[1]
           v == table[s][n]
       IN  IF v = Nobody THEN Then(u, <<Tell(s, "QUIT", <<n>>)>>) /\ UNCHANGED <<registry, channels>>
           ELSE IF Local(s, v) THEN Then(u, <<Do(s, "Exit", <<v>>)>>) /\ UNCHANGED <<registry, channels>>
           ELSE Then(u, <<>>) /\ MakeQuit(s, v)
    /\ UNCHANGED <<sessions, failed, apart>>

\* QUIT and SKILL of the peer: one who is local here leaves here, and is announced.
ServerQuit(u, s) ==
    /\ Doing(u, s, "QUIT") \/ Doing(u, s, "SKILL")
    /\ LET v == table[s][Arg(u)[1]]
       IN  IF v = Nobody THEN Then(u, <<>>) /\ UNCHANGED <<registry, channels>>
           ELSE IF Local(s, v) THEN Then(u, <<Do(s, "Exit", <<v>>)>>) /\ UNCHANGED <<registry, channels>>
           ELSE Then(u, <<>>) /\ MakeQuit(s, v)
    /\ UNCHANGED <<sessions, failed, apart>>

-----------------------------------------------------------------------------
(* Channels. *)

\* Mutant: the mode of the first user is not sent.
JoinFreeUnmoded(u, c) ==
    LET s == home[u]
    IN  /\ Entered(u) /\ c \notin Registered /\ u \notin on[s][c]
        /\ on' = [on EXCEPT ![s][c] = @ \cup {u}]
        /\ made' = [made EXCEPT ![s] = @ \cup {c}]
        /\ Starts(u, <<Tell(s, "SJOIN", <<nick[s][u], c, "x">>)>>)
        /\ ops' = [ops EXCEPT ![s][c] = IF c \in made[s] THEN @ ELSE {u}]
        /\ UNCHANGED <<registry, sessions, failed, apart>>

\* JOIN of a channel without owner: its first user is operator, and the peer is told.
JoinFree(u, c) ==
    LET s == home[u]
    IN  /\ Entered(u) /\ c \notin Registered /\ u \notin on[s][c]
        /\ on' = [on EXCEPT ![s][c] = @ \cup {u}]
        /\ made' = [made EXCEPT ![s] = @ \cup {c}]
        /\ IF c \in made[s]
             THEN Starts(u, <<Tell(s, "SJOIN", <<nick[s][u], c, "x">>)>>) /\ UNCHANGED ops
             ELSE /\ Starts(u, <<Tell(s, "SJOIN", <<nick[s][u], c, "o">>)>>)
                  /\ ops' = [ops EXCEPT ![s][c] = {u}]
        /\ UNCHANGED <<registry, sessions, failed, apart>>

\* JOIN of a registered channel: the modes are announced, the JOIN is not.
JoinRegistered(u, c) ==
    LET s == home[u]
    IN  /\ Entered(u) /\ c \in Registered /\ u \notin on[s][c]
        /\ on' = [on EXCEPT ![s][c] = @ \cup {u}]
        /\ made' = [made EXCEPT ![s] = @ \cup {c}]
        /\ Starts(u, <<Do(s, "CheckModes", <<u, c>>)>>)
        /\ apart' = apart \cup {c}
        /\ UNCHANGED <<registry, ops, sessions, failed>>

\* ChanServ::CheckModes, between operator and none: by the access of the nickname.
CheckModes(u, s) ==
    /\ Doing(u, s, "CheckModes")
    /\ LET v == Arg(u)[1]
           c == Arg(u)[2]
           deserves == c \in Registered /\ nick[s][v] \in Trusted
           sign == IF deserves THEN "+o" ELSE "-o"
       IN  IF v \notin on[s][c] \/ (v \in ops[s][c] <=> deserves)
             THEN Then(u, <<>>) /\ UNCHANGED ops
             ELSE /\ ops' = [ops EXCEPT ![s][c] = IF deserves THEN @ \cup {v} ELSE @ \ {v}]
                  /\ Then(u, <<Tell(s, "CMODE", <<c, sign, nick[s][v]>>)>>)
    /\ UNCHANGED <<registry, made, on, sessions, failed, apart>>

\* User::Cycle: if the virtual host changes he parts and joins again, for the peer.
Cycle(u, s) ==
    /\ Doing(u, s, "Cycle")
    /\ \/ Then(u, <<>>)
       \/ \E his \in SetToSeqs(ChannelsOf(s, u)) :
            Then(u, [i \in DOMAIN his |-> Do(s, "Cycle part", <<u, his[i]>>)])
    /\ UNCHANGED <<registry, channels, sessions, failed, apart>>

\* One channel of the loop.  If somebody has taken him out meanwhile it is undefined.
CyclePart(u, s) ==
    /\ Doing(u, s, "Cycle part")
    /\ LET c == Arg(u)[2]
       IN  IF u \in on[s][c]
             THEN /\ Then(u, <<Tell(s, "SPART", <<nick[s][u], c>>), Do(s, "Cycle join", <<u, c>>)>>)
                  /\ UNCHANGED failed
             ELSE Fails(s)
    /\ UNCHANGED <<registry, channels, sessions, apart>>

CycleJoin(u, s) ==
    /\ Doing(u, s, "Cycle join")
    /\ LET c == Arg(u)[2]
           mode == IF u \in ops[s][c] THEN "o" ELSE "x"
       IN  IF u \in on[s][c]
             THEN /\ Then(u, <<Do(s, "CheckModes", <<u, c>>),
                               Tell(s, "SJOIN", <<nick[s][u], c, mode>>)>>)
                  /\ UNCHANGED failed
             ELSE Fails(s)
    /\ UNCHANGED <<registry, channels, sessions, apart>>

\* PART tells the peer first.
Part(u, c) ==
    LET s == home[u]
    IN  /\ u \in on[s][c]
        /\ Starts(u, <<Tell(s, "SPART", <<nick[s][u], c>>), Do(s, "part", <<u, c>>)>>)
        /\ UNCHANGED <<registry, channels, sessions, failed, apart>>

\* Channel::part erases what it does not look for: undefined if it is not there.
ChannelPart(u, s) ==
    /\ Doing(u, s, "part")
    /\ LET c == Arg(u)[2]
       IN  IF u \in on[s][c] /\ Known(s, u)
             THEN Leave(s, u, {c}) /\ Then(u, <<>>) /\ UNCHANGED failed
             ELSE Fails(s) /\ UNCHANGED channels
    /\ UNCHANGED <<registry, sessions, apart>>

\* KICK, first here; the peer takes no SKICK without a reason.
Kick(u, v, c) ==
    LET s == home[u]
    IN  /\ Entered(u) /\ u \in ops[s][c] /\ v \in on[s][c] /\ Known(s, v)
        /\ (v \in ops[s][c] => u \in Oper) /\ v \notin Oper
        /\ RemoveUser(s, v, {c})
        /\ \/ /\ Starts(u, <<Tell(s, "SKICK", <<nick[s][u], c, nick[s][v]>>)>>)
              /\ UNCHANGED apart
           \/ /\ Starts(u, <<>>)
              /\ apart' = apart \cup {c}
        /\ UNCHANGED <<registry, made, sessions, failed>>

\* MODE +o and -o tell the peer first.
Mode(u, v, c, sign) ==
    LET s == home[u]
    IN  /\ Entered(u) /\ c \in made[s] /\ v \in on[s][c] /\ Known(s, v)
        /\ c \in Registered \/ u \in Oper
        /\ IF sign = "+o" THEN v \notin ops[s][c] /\ (u \in ops[s][c] \/ u \in Oper)
                          ELSE v \in ops[s][c] /\ u \in ops[s][c]
        /\ Starts(u, <<Tell(s, "CMODE", <<c, sign, nick[s][v]>>), Do(s, "mode", <<c, sign, v>>)>>)
        /\ UNCHANGED <<registry, channels, sessions, failed, apart>>

\* Channel::GiveOperator and RemoveOperator.
Turned(set, sign, v) == IF sign = "+o" THEN set \cup {v} ELSE set \ {v}

\* ... of a channel that may be gone.
ModeHere(u, s) ==
    /\ Doing(u, s, "mode")
    /\ LET c == Arg(u)[1]
       IN  IF c \in made[s]
             THEN /\ ops' = [ops EXCEPT ![s][c] = Turned(@, Arg(u)[2], Arg(u)[3])]
                  /\ Then(u, <<>>) /\ UNCHANGED failed
             ELSE Fails(s) /\ UNCHANGED ops
    /\ UNCHANGED <<registry, made, on, sessions, apart>>

\* Mutant: SJOIN enters nobody in a channel that is not there.
SjoinFound(u, s) ==
    /\ Doing(u, s, "SJOIN")
    /\ LET v == table[s][Arg(u)[1]]
           c == Arg(u)[2]
       IN  IF v = Nobody \/ c \notin made[s] THEN UNCHANGED channels
           ELSE /\ on' = [on EXCEPT ![s][c] = @ \cup {v}]
                /\ ops' = [ops EXCEPT ![s][c] = IF Arg(u)[3] = "o" THEN @ \cup {v} ELSE @]
                /\ UNCHANGED made
    /\ Then(u, <<>>)
    /\ UNCHANGED <<registry, sessions, failed, apart>>

\* SJOIN makes the channel if need be, and may come with a mode.
Sjoin(u, s) ==
    /\ Doing(u, s, "SJOIN")
    /\ LET v == table[s][Arg(u)[1]]
           c == Arg(u)[2]
       IN  IF v = Nobody THEN UNCHANGED channels
           ELSE /\ made' = [made EXCEPT ![s] = @ \cup {c}]
                /\ on' = [on EXCEPT ![s][c] = @ \cup {v}]
                /\ ops' = [ops EXCEPT ![s][c] = IF Arg(u)[3] = "o" THEN @ \cup {v} ELSE @]
    /\ Then(u, <<>>)
    /\ UNCHANGED <<registry, sessions, failed, apart>>

\* SPART does not ask whether there is such a channel.
Spart(u, s) ==
    /\ Doing(u, s, "SPART")
    /\ LET v == table[s][Arg(u)[1]]
           c == Arg(u)[2]
       IN  IF v # Nobody /\ c \notin made[s] THEN Fails(s) /\ UNCHANGED channels
           ELSE /\ Then(u, <<>>)
                /\ UNCHANGED failed
                /\ IF v # Nobody /\ v \in on[s][c] THEN Leave(s, v, {c}) ELSE UNCHANGED channels
    /\ UNCHANGED <<registry, sessions, apart>>

Skick(u, s) ==
    /\ Doing(u, s, "SKICK")
    /\ LET v == table[s][Arg(u)[3]]
           c == Arg(u)[2]
       IN  IF c \in made[s] /\ table[s][Arg(u)[1]] # Nobody /\ v # Nobody
             THEN RemoveUser(s, v, {c})
             ELSE UNCHANGED <<on, ops>>
    /\ Then(u, <<>>)
    /\ UNCHANGED <<registry, made, sessions, failed, apart>>

\* CMODE does not ask whether the user is in the channel.
Cmode(u, s) ==
    /\ Doing(u, s, "CMODE")
    /\ LET v == table[s][Arg(u)[3]]
           c == Arg(u)[1]
       IN  IF c \in made[s] /\ v # Nobody
             THEN ops' = [ops EXCEPT ![s][c] = Turned(@, Arg(u)[2], v)]
             ELSE UNCHANGED ops
    /\ Then(u, <<>>)
    /\ UNCHANGED <<registry, made, on, sessions, failed, apart>>

-----------------------------------------------------------------------------

Init ==
    /\ home \in [User -> Server]
    /\ table = [s \in Server |-> [n \in Nick |-> Nobody]]
    /\ nick = [s \in Server |-> [u \in User |-> NoNick]]
    /\ made = [s \in Server |-> {}]
    /\ on = [s \in Server |-> [c \in Channel |-> {}]]
    /\ ops = on
    /\ quit = {} /\ exiting = {} /\ failed = {} /\ apart = {}
    /\ todo = [u \in User |-> <<>>]

Command(u) ==
    \/ \E n \in Nick : NickIdentify(u, n) \/ NickPlain(u, n)
    \/ Quit(u)
    \/ \E v \in User : Kill(u, v)
    \/ \E c \in Channel : JoinFree(u, c) \/ JoinRegistered(u, c) \/ Part(u, c)
    \/ \E v \in User, c \in Channel :
         Kick(u, v, c) \/ \E sign \in {"+o", "-o"} : Mode(u, v, c, sign)

Step(u) == \E s \in Server :
    \/ CmdNick(u, s) \/ Rename(u, s) \/ Snick(u, s) \/ ServerNick(u, s)
    \/ Exit(u, s) \/ Exited(u, s) \/ ServerQuit(u, s)
    \/ CheckModes(u, s) \/ Cycle(u, s) \/ CyclePart(u, s) \/ CycleJoin(u, s)
    \/ ChannelPart(u, s) \/ ModeHere(u, s)
    \/ Sjoin(u, s) \/ Spart(u, s) \/ Skick(u, s) \/ Cmode(u, s)

Next == \E u \in User : Command(u) \/ Step(u)

\* A thread that has taken a line goes on with it, and so does the peer.
Spec == Init /\ [][Next]_vars /\ \A u \in User : WF_vars(Step(u))

-----------------------------------------------------------------------------
(* Properties. *)

\* The steps a command may have left, with what they are about.
Steps ==
         [at : Server, do : {"cmdNick", "rename"}, of : User \X Nick]
    \cup [at : Server, do : {"NICK"}, of : Nick \X Nick]
    \cup [at : Server, do : {"SNICK"}, of : Nick \X User]
    \cup [at : Server, do : {"Exit", "exited", "Cycle"}, of : {<<u>> : u \in User}]
    \cup [at : Server, do : {"QUIT", "SKILL"}, of : {<<n>> : n \in Nick}]
    \cup [at : Server, do : {"CheckModes", "Cycle part", "Cycle join", "part"}, of : User \X Channel]
    \cup [at : Server, do : {"SPART"}, of : Nick \X Channel]
    \cup [at : Server, do : {"SKICK"}, of : Nick \X Channel \X Nick]
    \cup [at : Server, do : {"SJOIN"}, of : Nick \X Channel \X {"o", "x"}]
    \cup [at : Server, do : {"CMODE"}, of : Channel \X {"+o", "-o"} \X Nick]
    \cup [at : Server, do : {"mode"}, of : Channel \X {"+o", "-o"} \X User]

TypeOK ==
    /\ todo \in [User -> Seq(Steps)]
    /\ home \in [User -> Server]
    /\ table \in [Server -> [Nick -> User \cup {Nobody}]]
    /\ nick \in [Server -> [User -> Nick \cup {NoNick}]]
    /\ made \in [Server -> SUBSET Channel]
    /\ on \in [Server -> [Channel -> SUBSET User]]
    /\ ops \in [Server -> [Channel -> SUBSET User]]
    /\ \A s \in Server : \A c \in Channel \ made[s] : on[s][c] = {} /\ ops[s][c] = {}
    /\ quit \subseteq User /\ exiting \subseteq quit
    /\ failed \subseteq Server /\ apart \subseteq Channel

\* No command is under way and both servers run.
AtRest == failed = {} /\ \A u \in User : todo[u] = <<>>

\* What a command of a user does, both servers do: when it has ended they lead every
\* nickname to the same user, and show the same users and operators in every channel
\* of which everything was announced.
ServersAgree ==
    AtRest => \A s, p \in Server :
        /\ table[s] = table[p]
        /\ \A c \in Channel \ apart :
             on[s][c] = on[p][c] /\ ops[s][c] = ops[p][c] /\ (c \in made[s] <=> c \in made[p])

\* A server fails only over a channel the other one has not announced to it.
FailsOnlyApart == failed # {} => apart # {}

\* Every command comes to an end, whatever the servers answer each other on the way.
CommandsEnd == \A u \in User : todo[u] # <<>> ~> todo[u] = <<>>

\* A nickname in the table of a server is that of a session that has not left:
\* nobody is told "The nick is used by somebody." of a nickname that nobody has.
UsedBySomebody == AtRest => \A s \in Server, n \in Nick : table[s][n] \notin quit

=============================================================================
