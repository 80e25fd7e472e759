---------------------------- MODULE ZeusThreads ----------------------------
(***************************************************************************)
(* The mutexes and the calls between two connected servers.  A command of  *)
(* a user, or a timer, runs on a thread of its server.  Server::Send waits *)
(* until the peer has handled the message, on one of as many threads as    *)
(* the peer has cores, and the handler may send messages back: a command   *)
(* is a chain of frames, on alternating servers, of which the last runs.   *)
(* Of the code of a frame only the mutexes it takes and the messages it    *)
(* sends are left.  No lock and no call has a timeout.                     *)
(***************************************************************************)
EXTENDS Naturals, Sequences, SequencesExt, FiniteSets

CONSTANTS
    Server,      \* the two servers
    Command,     \* the threads of both servers that run commands and timers
    MaxCores,    \* bound: threads of a server for messages, hardware_concurrency
    Nobody

ASSUME ServerAssumption == \E a, b \in Server : a # b /\ Server = {a, b}
ASSUME NobodyAssumption == Nobody \notin Command \X Nat
ASSUME CoresAssumption == MaxCores \in Nat \ {0}

VARIABLES
    cores,   \* cores[s]: the number of threads for messages
    home,    \* home[c]: the server of the thread c
    chain,   \* chain[c]: the frames of the command, each with the message it handles and
             \* the steps it has left
    owner    \* owner[s][m]: who holds the mutex, as <<command, place in its chain>>

vars == <<cores, home, chain, owner>>

-----------------------------------------------------------------------------
(* What the code of a handler comes down to. *)

\* mutex_db and log_mtx are not here: who holds them takes nothing else and sends nothing.
Mutex == {"quit", "user", "channel"}

\* The messages, with those handled alike under one name: "channel" is SJOIN,
\* SPART, CMODE, SKICK, SBAN and SPBAN, "user" NICK and UMODE, "note" HUB, SERVER,
\* DB, PONG, AWAY, PRIVMSG and MEMO, which take none of these mutexes, "answered"
\* PING and VERSION; "leave" is the QUIT of a user by his own server, "expel" a
\* SKILL, or a QUIT by a server that ghosts him, "echo" the QUIT that Exit sends
\* back to a server that has just removed him.
Message == {"note", "channel", "user", "SNICK", "leave", "expel", "echo", "SQUIT",
            "answered", "BURST", "VHOST"}

Lock(m) == [do |-> "lock", on |-> m]
Unlock(m) == [do |-> "unlock", on |-> m]
Use(m) == [do |-> "use", on |-> m]      \* lock, and unlock before anything else
Call(k) == [do |-> "call", on |-> k]    \* Server::Send

Step == [do : {"lock", "unlock", "use"}, on : Mutex] \cup [do : {"call"}, on : Message]

\* One of these after one of those; or not at all.
Then(P, Q) == {p \o q : p \in P, q \in Q}
Maybe(P) == P \cup {<<>>}

\* The statement that notes the end of a login, sent as DB.
UpdateLogin == Maybe({<<Call("note")>>})

\* Out of every channel, and of Users.
MakeQuit == {<<Use("channel"), Use("user")>>}

\* The user of another server is removed.
QUIT == Then(MakeQuit, {<<Use("user")>>})

\* Mutant: a second Exit returns with the mutex.
ExitUnbalanced(k) ==
    Then({<<Lock("quit")>>},
         {<<>>} \cup Then(Then(UpdateLogin, Maybe(Then(MakeQuit, {<<Call(k)>>}))),
                          {<<Unlock("quit")>>}))

\* Exit holds quit_mtx to its end: over the statement, and over the QUIT it sends.
Exit(k) ==
    Then({<<Lock("quit")>>},
         Then(Then(UpdateLogin, Maybe(Then(MakeQuit, {<<Call(k)>>}))), {<<Unlock("quit")>>}))

\* CheckModes, where it changes a mode.
CheckModes == Maybe({<<Use("channel"), Call("channel")>>})

\* User::Cycle, for a channel.
Cycle == Then(Then({<<Call("channel")>>}, CheckModes), {<<Call("channel")>>})

\* The burst of one user in one channel.
SendBurst == {<<Call("note"), Call("answered"), Call("SNICK"), Call("channel")>>}

\* Mutant: part takes the mutexes the other way round.
MembershipMixed ==
    {<<Lock("user"), Use("channel"), Unlock("user")>>,
     <<Lock("channel"), Use("user"), Unlock("channel")>>}

\* Channel::join and Channel::part take channel_mtx inside user_mtx.
Membership == {<<Lock("user"), Use("channel"), Unlock("user")>>}

\* Mutant: NICK sends SNICK before it releases user_mtx.
ProgramLocked ==
    UNION {Membership, Exit("leave"), {<<Lock("user"), Call("SNICK"), Unlock("user")>>},
           {<<Call(k)>> : k \in Message \ {"note", "leave", "echo"}}}

\* What commands and timers do, one piece at a time: they hold no mutex between
\* two pieces, so a command is any number of them.  A section alone or a "note" is
\* no piece here: nobody waits for one who waits for that alone.
Program ==
    UNION {Membership, Exit("leave"), {<<Call(k)>> : k \in Message \ {"note", "leave", "echo"}}}

\* What a message makes its receiver do.
Handling(k) ==
    CASE k = "note"    -> {<<>>}
      [] k = "channel" -> {<<Use("channel")>>}
      [] k = "user"    -> {<<Use("user")>>}
      [] k = "SNICK"   -> {<<Use("user")>>} \cup Exit("leave")  \* the nickname is in use
      [] k = "leave"   -> {<<>>} \cup QUIT \cup Exit("echo")   \* unknown, remote, or local here too
      [] k = "expel"   -> {<<>>} \cup Exit("echo")
      [] k = "echo"    -> {<<>>}
      [] k = "SQUIT"   -> QUIT
      [] k = "answered" -> {<<>>, <<Call("note")>>}
      [] k = "BURST"   -> Then(Maybe(QUIT), SendBurst)
      [] k = "VHOST"   -> Maybe(Cycle)

-----------------------------------------------------------------------------

Peer(s) == CHOOSE t \in Server : t # s

\* Odd places of a chain run at home, even ones at the peer.
At(c, i) == IF i % 2 = 1 THEN home[c] ELSE Peer(home[c])

Frames == UNION {{c} \X DOMAIN chain[c] : c \in Command}

\* The threads of s that handle a message, waiting or not.
Handlers(s) == {f \in Frames : f[2] > 1 /\ At(f[1], f[2]) = s}

Top(c) == <<c, Len(chain[c])>>
Here(c) == At(c, Len(chain[c]))
Running(c) == chain[c] # <<>>
Todo(c) == Last(chain[c]).todo
Now(c) == Head(Todo(c))
Doing(c, do) == Running(c) /\ Todo(c) # <<>> /\ Now(c).do = do

\* The running frame has done its step.
Advance(c) == chain' = [chain EXCEPT ![c][Len(chain[c])].todo = Tail(@)]

Init ==
    /\ cores \in [Server -> 1..MaxCores]
    /\ home \in [Command -> Server]
    /\ chain = [c \in Command |-> <<>>]
    /\ owner = [s \in Server |-> [m \in Mutex |-> Nobody]]

\* A thread of the pool takes the next line, or a timer expires.
Start(c) ==
    /\ ~Running(c)
    /\ \E p \in Program : chain' = [chain EXCEPT ![c] = <<[of |-> "command", todo |-> p]>>]
    /\ UNCHANGED <<cores, home, owner>>

\* std::mutex::lock.
Acquire(c) ==
    /\ Doing(c, "lock")
    /\ owner[Here(c)][Now(c).on] = Nobody
    /\ owner' = [owner EXCEPT ![Here(c)][Now(c).on] = Top(c)]
    /\ Advance(c)
    /\ UNCHANGED <<cores, home>>

Release(c) ==
    /\ Doing(c, "unlock")
    /\ owner' = [owner EXCEPT ![Here(c)][Now(c).on] = Nobody]
    /\ Advance(c)
    /\ UNCHANGED <<cores, home>>

\* A section that takes nothing else: lock and unlock in one step.
Section(c) ==
    /\ Doing(c, "use")
    /\ owner[Here(c)][Now(c).on] = Nobody
    /\ Advance(c)
    /\ UNCHANGED <<cores, home, owner>>

\* A free thread of the peer takes the message.
Deliver(c) ==
    /\ Doing(c, "call")
    /\ LET p == Peer(Here(c))
       IN  Cardinality(Handlers(p)) < cores[p]
    /\ \E h \in Handling(Now(c).on) :
         chain' = [chain EXCEPT ![c] = Append(@, [of |-> Now(c).on, todo |-> h])]
    /\ UNCHANGED <<cores, home, owner>>

\* The handler ends, and with it the call; or the command ends.
Return(c) ==
    /\ Running(c) /\ Todo(c) = <<>>
    /\ LET rest == Front(chain[c])
       IN  chain' = [chain EXCEPT ![c] =
                       IF rest = <<>> THEN <<>>
                       ELSE [rest EXCEPT ![Len(rest)].todo = Tail(@)]]
    /\ UNCHANGED <<cores, home, owner>>

Next ==
    \E c \in Command :
        Start(c) \/ Acquire(c) \/ Release(c) \/ Section(c) \/ Deliver(c) \/ Return(c)

Spec == Init /\ [][Next]_vars

-----------------------------------------------------------------------------
(* Properties. *)

\* The state is well formed: the last frame of a chain is the only one that is
\* not in a call, and a mutex is held by a frame that will release it.
TypeOK ==
    /\ cores \in [Server -> 1..MaxCores]
    /\ home \in [Command -> Server]
    /\ chain \in [Command -> Seq([of : Message \cup {"command"}, todo : Seq(Step)])]
    /\ \A c \in Command : \A i \in 1..(Len(chain[c]) - 1) :
         chain[c][i].todo # <<>> /\ Head(chain[c][i].todo) = Call(chain[c][i + 1].of)
    /\ owner \in [Server -> [Mutex -> Frames \cup {Nobody}]]
    /\ \A s \in Server, m \in Mutex : owner[s][m] # Nobody =>
         LET f == owner[s][m]
         IN  At(f[1], f[2]) = s /\ Contains(chain[f[1]][f[2]].todo, Unlock(m))

\* The threads for messages of s that the commands D occupy.
Busy(s, D) == {f \in Handlers(s) : f[1] \in D}

\* Waiting for a mutex that is held, or for a thread while all are occupied.
Waits(c) == (Doing(c, "lock") \/ Doing(c, "use")) /\ owner[Here(c)][Now(c).on] # Nobody
Queues(c) == Doing(c, "call") /\ LET p == Peer(Here(c)) IN Cardinality(Handlers(p)) = cores[p]

\* Commands that wait for a mutex one of them holds, or for a thread when they
\* occupy all: none of them will ever move.
Deadlocked(D) ==
    /\ D # {}
    /\ \A c \in D :
         \/ Waits(c) /\ owner[Here(c)][Now(c).on][1] \in D
         \/ Queues(c) /\ Handlers(Peer(Here(c))) = Busy(Peer(Here(c)), D)

\* user_mtx and channel_mtx are taken in one order and released before any message
\* is sent (Channel.cpp:28, Channel.cpp:51): commands never deadlock on these two
\* alone.
LocksNeverDeadlock ==
    \A D \in SUBSET {c \in Command : Waits(c) /\ Now(c).on # "quit"} : ~Deadlocked(D)

\* Exit holds quit_mtx while the other server handles its QUIT (User.cpp:61), and
\* the threads that handle messages wait for one another: commands deadlock only
\* if they occupy every such thread of a server, or if a nickname is local on
\* both servers, so that Exit on one waits for Exit on the other.
StuckOnlyWhenFull ==
    \A D \in SUBSET {c \in Command : Waits(c) \/ Queues(c)} : Deadlocked(D) =>
        \/ \E s \in Server : Busy(s, D) = Handlers(s) /\ Cardinality(Handlers(s)) = cores[s]
        \/ \E c \in D : \E i \in DOMAIN chain[c] :
              chain[c][i].of = "leave" /\ Contains(chain[c][i].todo, Unlock("quit"))

=============================================================================
