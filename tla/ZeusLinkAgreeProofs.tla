------------------------ MODULE ZeusLinkAgreeProofs ------------------------
(***************************************************************************)
(* The proof that commands which do not overlap leave two servers with the *)
(* same users, members and operators.  InCourse describes every state in   *)
(* the middle of a command: by what the two servers differ, and which      *)
(* steps are left to make up for it.                                       *)
(***************************************************************************)
EXTENDS ZeusLinkProofs

-----------------------------------------------------------------------------
(* What holds of each server, whatever is under way. *)

Shown == Channel \ apart

\* The entry of a nickname leads to a user who has it.
OwnNick(s) == \A n \in Nick : table[s][n] # Nobody => nick[s][table[s][n]] = n

\* A session that has its nickname and has not left is known at its server.
SessionsAreKnown ==
    \A v \in User : /\ v \in quit => ~Known(home[v], v)
                    /\ v \notin quit /\ Entered(v) => Known(home[v], v)

MembersAreKnown(s) ==
    \A c \in Shown :
      /\ ops[s][c] \subseteq on[s][c]
      /\ \A v \in on[s][c] : Known(s, v)
      /\ c \in Registered => on[s][c] = {}

Orderly == SessionsAreKnown /\ \A s \in Server : OwnNick(s) /\ MembersAreKnown(s)

-----------------------------------------------------------------------------
(* How the two servers differ. *)

TablesAgree == \A s \in Server, n \in Nick : table[s][n] = table[Peer(s)][n]

AgreeIn(C) ==
    \A s \in Server, c \in C :
      /\ on[s][c] = on[Peer(s)][c] /\ ops[s][c] = ops[Peer(s)][c]
      /\ c \in made[s] <=> c \in made[Peer(s)]

Agree == TablesAgree /\ AgreeIn(Shown)

\* v is in c at the peer of a, and no more or not yet at a.
Outside(a, c, v) ==
    LET b == Peer(a)
    IN  /\ v \in on[b][c] /\ c \in made[b]
        /\ on[a][c] = on[b][c] \ {v} /\ ops[a][c] = ops[b][c] \ {v}

\* h has left at a, or has not entered yet, and is still known at its peer.
Without(a, h) ==
    LET b == Peer(a)
    IN  /\ Known(b, h)
        /\ \A n \in Nick : table[a][n] = IF n = nick[b][h] THEN Nobody ELSE table[b][n]
        /\ \A c \in Shown : /\ on[a][c] = on[b][c] \ {h} /\ ops[a][c] = ops[b][c] \ {h}
                            /\ c \in made[a] <=> (c \in made[b] /\ on[b][c] # {h})

\* v has parted from c at a.
Parted(a, c, v) ==
    /\ TablesAgree /\ AgreeIn(Shown \ {c})
    /\ c \in Shown => Outside(a, c, v) /\ (c \in made[a] <=> on[Peer(a)][c] # {v})

\* v has joined c with this mode, but not at a, which knows him as n.
Joining(a, n, c, v, mode) ==
    /\ TablesAgree /\ AgreeIn(Shown \ {c})
    /\ c \in Shown => /\ Outside(a, c, v) /\ table[a][n] = v
                      /\ v \in ops[Peer(a)][c] <=> mode = "o"

\* Who a knows as m has been kicked from c by n, but not at a.
Kicked(a, n, c, m) ==
    LET b == Peer(a)
        v == table[a][m]
    IN  /\ TablesAgree /\ AgreeIn(Shown \ {c})
        /\ c \in Shown =>
             /\ table[a][n] # Nobody /\ v # Nobody /\ c \in made[a] /\ c \in made[b]
             /\ on[b][c] = on[a][c] \ {v} /\ ops[b][c] = ops[a][c] \ {v}

\* v has been given or taken the mode in c, but not at a.
Turning(a, c, sign, v) ==
    LET b == Peer(a)
    IN  /\ TablesAgree /\ AgreeIn(Shown \ {c})
        /\ c \in Shown =>
             /\ v \in on[a][c] /\ c \in made[a] /\ c \in made[b]
             /\ on[b][c] = on[a][c] /\ ops[b][c] = Turned(ops[a][c], sign, v)

\* u has the nickname n at the peer of his server, and not yet here.
Renaming(u, n) ==
    LET s == home[u]
    IN  /\ Known(s, u) /\ table[s][n] = Nobody
        /\ \A m \in Nick : table[Peer(s)][m] = IF m = n THEN u
                                               ELSE IF m = nick[s][u] THEN Nobody ELSE table[s][m]
        /\ AgreeIn(Shown)

-----------------------------------------------------------------------------
(* What holds when the next step of the command of u is x, with r after it. *)

\* What may come after somebody has left.
Rest(u, r) ==
    r = <<>> \/ (u \notin quit /\ \E n \in Nick : r = <<Do(home[u], "cmdNick", <<u, n>>)>>)

BeforeExit(u, x, r) ==
    LET h == x.of[1]
    IN  /\ x.at = home[h] /\ Rest(u, r) /\ (r # <<>> => h # u)
        /\ Agree \/ (h \notin quit /\ Without(Peer(home[h]), h))

BeforeExited(u, x, r) == Rest(u, r) /\ Agree

\* QUIT and SKILL: the user is one of this server, or has left at his own.
BeforeQuit(u, x, r) ==
    LET b == x.at
        h == table[b][x.of[1]]
    IN  \/ /\ h # Nobody /\ Without(Peer(b), h)
           /\ home[h] = b /\ h \notin quit /\ Rest(u, r) /\ (r # <<>> => h # u)
        \/ /\ r # <<>> /\ Head(r).do = "exited" /\ Rest(u, Tail(r))
           /\ \/ h # Nobody /\ Without(Peer(b), h) /\ home[h] # b
              \/ h = Nobody /\ Agree

BeforeCmdNick(u, x, r) == x.at = home[u] /\ x.of[1] = u /\ r = <<>> /\ u \notin quit /\ Agree

BeforeSnick(u, x, r) ==
    LET p == Peer(home[u])
    IN  /\ x.at = p /\ x.of[2] = u /\ r = <<>>
        /\ Without(p, u) /\ table[home[u]][x.of[1]] = u
        /\ \A c \in Shown : u \notin on[home[u]][c]

BeforeNick(u, x, r) ==
    LET s == home[u]
    IN  /\ x.at = Peer(s) /\ r = <<Do(s, "rename", <<u, x.of[2]>>)>>
        /\ Agree /\ table[s][x.of[1]] = u /\ table[s][x.of[2]] = Nobody

BeforeRename(u, x, r) == x.at = home[u] /\ x.of[1] = u /\ r = <<>> /\ Renaming(u, x.of[2])

\* The steps that check the modes of u, and then Cycle.
Check(u, c) == Do(home[u], "CheckModes", <<u, c>>)
Checks(u, t) ==
    /\ t # <<>> /\ t[Len(t)] = Do(home[u], "Cycle", <<u>>)
    /\ \A i \in 1..Len(t) - 1 : \E c \in Channel : t[i] = Check(u, c)

\* An operator has his mode still to be checked; none has after the checks.
Unchecked(u, t) ==
    \A c \in Shown : u \in ops[home[u]][c] => \E i \in 1..Len(t) : t[i] = Check(u, c)
Unmoded(u) == \A c \in Shown : u \notin ops[home[u]][c]

\* The turns of the loop of Cycle that are left.
Turns(u, t) ==
    \A i \in 1..Len(t) : \E c \in Channel :
       t[i] = Do(home[u], "Cycle part", <<u, c>>) /\ (c \in Shown => u \in on[home[u]][c])

\* A turn that still has the SJOIN of c to send, and the turns after it.
Rejoins(u, c, r) ==
    /\ r # <<>> /\ Head(r).do = "SJOIN" /\ Head(r).at = Peer(home[u]) /\ Head(r).of[2] = c
    /\ Joining(Peer(home[u]), Head(r).of[1], c, u, Head(r).of[3])
    /\ Turns(u, Tail(r)) /\ Unmoded(u)

BeforeCheckModes(u, x, r) ==
    LET c == x.of[2]
    IN  /\ x = Check(u, c)
        /\ \/ /\ Checks(u, r) /\ Agree
              /\ \A d \in Shown : u \in ops[home[u]][d] =>
                   d = c \/ \E i \in 1..Len(r) : r[i] = Check(u, d)
           \/ r = <<>> /\ c \notin Shown /\ Agree
           \/ Rejoins(u, c, r)

BeforeCmode(u, x, r) ==
    LET c == x.of[1]
        s == home[u]
        p == Peer(s)
        v == table[p][x.of[3]]
    IN  /\ x.at = p
        /\ \/ /\ Checks(u, r) /\ Unchecked(u, r)
              /\ Turning(p, c, x.of[2], u) /\ (c \in Shown => v = u)
           \/ r = <<>> /\ c \notin Shown /\ Agree
           \/ c \notin Shown /\ Rejoins(u, c, r)
           \/ \E w \in User : /\ r = <<Do(s, "mode", <<c, x.of[2], w>>)>> /\ Agree
                              /\ c \in Shown => v = w /\ w \in on[s][c]

BeforeCycle(u, x, r) == x.at = home[u] /\ r = <<>> /\ Agree /\ Unmoded(u)

BeforeCyclePart(u, x, r) ==
    LET c == x.of[2]
        s == home[u]
    IN  /\ x.at = s /\ x.of[1] = u
        /\ Agree /\ Unmoded(u) /\ Turns(u, r) /\ (c \in Shown => u \in on[s][c])

BeforeSpart(u, x, r) ==
    LET c == x.of[2]
        s == home[u]
        p == Peer(s)
    IN  /\ x.at = p /\ Agree /\ (c \in Shown => table[p][x.of[1]] = u /\ u \in on[s][c])
        /\ \/ r = <<Do(s, "part", <<u, c>>)>>
           \/ /\ r # <<>> /\ Head(r) = Do(s, "Cycle join", <<u, c>>)
              /\ Turns(u, Tail(r)) /\ Unmoded(u)

BeforeCycleJoin(u, x, r) ==
    /\ x.at = home[u] /\ x.of[1] = u
    /\ Parted(Peer(home[u]), x.of[2], u) /\ Turns(u, r) /\ Unmoded(u)

BeforeSjoin(u, x, r) ==
    LET p == Peer(home[u])
    IN  /\ x.at = p /\ Joining(p, x.of[1], x.of[2], u, x.of[3])
        /\ Turns(u, r) /\ (r # <<>> => Unmoded(u))

BeforePart(u, x, r) ==
    /\ x.at = home[u] /\ x.of[1] = u /\ r = <<>> /\ Parted(Peer(home[u]), x.of[2], u)

BeforeSkick(u, x, r) ==
    x.at = Peer(home[u]) /\ r = <<>> /\ Kicked(x.at, x.of[1], x.of[2], x.of[3])

BeforeMode(u, x, r) ==
    x.at = home[u] /\ r = <<>> /\ Turning(x.at, x.of[1], x.of[2], x.of[3])

Before(u, x, r) ==
    /\ x.do = "Exit" => BeforeExit(u, x, r)
    /\ x.do = "exited" => BeforeExited(u, x, r)
    /\ x.do \in {"QUIT", "SKILL"} => BeforeQuit(u, x, r)
    /\ x.do = "cmdNick" => BeforeCmdNick(u, x, r)
    /\ x.do = "SNICK" => BeforeSnick(u, x, r)
    /\ x.do = "NICK" => BeforeNick(u, x, r)
    /\ x.do = "rename" => BeforeRename(u, x, r)
    /\ x.do = "CheckModes" => BeforeCheckModes(u, x, r)
    /\ x.do = "CMODE" => BeforeCmode(u, x, r)
    /\ x.do = "Cycle" => BeforeCycle(u, x, r)
    /\ x.do = "Cycle part" => BeforeCyclePart(u, x, r)
    /\ x.do = "SPART" => BeforeSpart(u, x, r)
    /\ x.do = "Cycle join" => BeforeCycleJoin(u, x, r)
    /\ x.do = "SJOIN" => BeforeSjoin(u, x, r)
    /\ x.do = "part" => BeforePart(u, x, r)
    /\ x.do = "SKICK" => BeforeSkick(u, x, r)
    /\ x.do = "mode" => BeforeMode(u, x, r)

\* What holds when t is left of the one command that is under way.
Course(u, t) == IF t = <<>> THEN Agree ELSE Before(u, Head(t), Tail(t))

OneCommand == \A u, v \in User : todo[u] # <<>> /\ todo[v] # <<>> => u = v

InCourse ==
    /\ OneCommand
    /\ FailsOnlyApart
    /\ failed = {} =>
         /\ Orderly
         /\ (\A u \in User : todo[u] = <<>>) => Agree
         /\ \A u \in User : todo[u] # <<>> => Course(u, todo[u])

USE DEF Inv

-----------------------------------------------------------------------------
(* The one command and its steps. *)

LEMMA Pairs ==
  /\ \A s \in Server : Peer(s) \in Server /\ Peer(Peer(s)) = s /\ Peer(s) # s
  /\ \A s, t \in Server : s # t => t = Peer(s)
  BY ServerAssumption DEF Peer

\* x is the next step of the command of u, which is the only one, and r comes after it.
Under(u, x, r) ==
    /\ failed = {} /\ todo[u] # <<>>
    /\ x = Next1(u) /\ r = Tail(todo[u])
    /\ \A v \in User \ {u} : todo[v] = <<>>
    /\ Orderly /\ Before(u, x, r)

LEMMA UnderWay ==
  ASSUME Inv, InCourse, NEW u \in User, NEW s, NEW kind, Doing(u, s, kind)
  PROVE  \E x \in Good(u), r \in Seq(Steps) :
           Under(u, x, r) /\ x \in Steps /\ x.at = s /\ x.do = kind /\ s \in Server
  <1>1. /\ todo[u] # <<>> /\ Next1(u) \in Good(u) /\ Next1(u) \in Steps
        /\ Next1(u).at = s /\ Next1(u).do = kind /\ s \in Server
        BY NextIsGood
  <1>2. Tail(todo[u]) \in Seq(Steps)
        BY <1>1 DEF TodoOK
  <1>3. failed = {}
        BY DEF Doing
  <1>4. Orderly /\ Course(u, todo[u])
        BY <1>1, <1>3 DEF InCourse
  <1>5. Before(u, Next1(u), Tail(todo[u]))
        BY <1>1, <1>4 DEF Course, Next1
  <1>6. \A v \in User \ {u} : todo[v] = <<>>
        BY <1>1 DEF InCourse, OneCommand
  <1> QED BY <1>1, <1>2, <1>3, <1>4, <1>5, <1>6 DEF Under

LEMMA Idle ==
  ASSUME Inv, InCourse, MaxCommands = 1, NEW u \in User, NEW steps, Starts(u, steps)
  PROVE  /\ failed = {} /\ Orderly /\ Agree /\ u \notin quit
         /\ todo'[u] = steps /\ \A v \in User \ {u} : todo'[v] = <<>>
  <1> DEFINE Busy == {v \in User : todo[v] # <<>>}
  <1>1. Cardinality(Busy) < 1 /\ failed = {} /\ u \notin quit
        BY DEF Starts
  <1>2. ASSUME NEW w \in User, todo[w] # <<>>
        PROVE  FALSE
    <2>1. Busy = {w}
          BY <1>2 DEF InCourse, OneCommand
    <2>2. Cardinality(Busy) = 1
          BY <2>1, FS_Singleton
    <2> QED BY <2>2, <1>1
  <1>3. Orderly /\ Agree
        BY <1>1, <1>2 DEF InCourse
  <1>4. todo \in [User -> Seq(Steps)]
        BY DEF TodoOK
  <1>5. todo'[u] = steps /\ \A v \in User \ {u} : todo'[v] = todo[v]
        BY <1>4 DEF Starts
  <1> QED BY <1>1, <1>2, <1>3, <1>5

LEMMA OnlyThis ==
  ASSUME TodoOK, NEW u \in User, NEW x, NEW r, NEW steps, Under(u, x, r), Then(u, steps)
  PROVE  todo'[u] = steps \o r /\ \A v \in User \ {u} : todo'[v] = <<>>
  BY DEF Then, TodoOK, Under

\* Where a command goes on.
LEMMA Follows ==
  ASSUME NEW u \in User, NEW q, todo'[u] = q, \A v \in User \ {u} : todo'[v] = <<>>,
         failed' = {}, Orderly', Course(u, q)'
  PROVE  InCourse'
  <1>1. OneCommand'
        BY DEF OneCommand
  <1>2. FailsOnlyApart'
        BY DEF FailsOnlyApart
  <1>3. (\A v \in User : todo'[v] = <<>>) => Agree'
        BY DEF Course
  <1>4. \A v \in User : todo'[v] # <<>> => v = u
        OBVIOUS
  <1>5. \A v \in User : todo'[v] # <<>> => Course(v, todo[v])'
        BY <1>4
  <1> QED BY <1>1, <1>2, <1>3, <1>5 DEF InCourse

LEMMA FollowsNext ==
  ASSUME NEW u \in User, NEW x, NEW T, NEW r \in Seq(T), todo'[u] = <<x>> \o r,
         \A v \in User \ {u} : todo'[v] = <<>>, failed' = {}, Orderly', Before(u, x, r)'
  PROVE  InCourse'
  <1> DEFINE q == <<x>> \o r
             S == T \cup {x}
  <1>1. r \in Seq(S) /\ x \in S
        OBVIOUS
  <1> HIDE DEF S
  <1>2. q # <<>> /\ Head(q) = x /\ Tail(q) = r
        BY <1>1
  <1> HIDE DEF q
  <1>3. Course(u, q)'
        BY <1>2 DEF Course
  <1> QED BY <1>3, Follows DEF q

LEMMA FollowsOne ==
  ASSUME NEW u \in User, NEW x, todo'[u] = <<x>>, \A v \in User \ {u} : todo'[v] = <<>>,
         failed' = {}, Orderly', Before(u, x, <<>>)'
  PROVE  InCourse'
  <1> DEFINE q == <<x>>
  <1>1. q # <<>> /\ Head(q) = x /\ Tail(q) = <<>>
        OBVIOUS
  <1> HIDE DEF q
  <1>2. Course(u, q)'
        BY <1>1 DEF Course
  <1> QED BY <1>2, Follows DEF q

LEMMA FollowsTwo ==
  ASSUME NEW u \in User, NEW x, NEW y, NEW r \in Seq(Steps), todo'[u] = <<x, y>> \o r,
         \A v \in User \ {u} : todo'[v] = <<>>, failed' = {}, Orderly', Before(u, x, <<y>> \o r)'
  PROVE  InCourse'
  <1> DEFINE rest == <<y>> \o r
             all == <<x, y>> \o r
             S == Steps \cup {x, y}
  <1>1. r \in Seq(S) /\ x \in S /\ y \in S /\ Len(r) \in Nat
        OBVIOUS
  <1>2. todo'[u] = all /\ Before(u, x, rest)'
        OBVIOUS
  <1> HIDE DEF S
  <1>3. /\ rest \in Seq(S) /\ Len(rest) = Len(r) + 1 /\ rest[1] = y
        /\ \A i \in 1..Len(r) : rest[i + 1] = r[i]
        BY <1>1
  <1>4. /\ all \in Seq(S) /\ Len(all) = Len(r) + 2 /\ all[1] = x /\ all[2] = y
        /\ \A i \in 1..Len(r) : all[i + 2] = r[i]
        BY <1>1
  <1> HIDE DEF rest, all
  <1>5. /\ <<x>> \o rest \in Seq(S) /\ Len(<<x>> \o rest) = Len(r) + 2
        /\ (<<x>> \o rest)[1] = x /\ \A i \in 1..Len(rest) : (<<x>> \o rest)[i + 1] = rest[i]
        BY <1>1, <1>3
  <1>6. \A i \in 1..Len(all) : all[i] = (<<x>> \o rest)[i]
    <2>1. ASSUME NEW i \in 3..Len(all) PROVE all[i] = (<<x>> \o rest)[i]
      <3>1. i - 2 \in 1..Len(r) /\ i - 1 \in 1..Len(rest)
            BY <1>1, <1>3, <1>4
      <3>2. all[(i - 2) + 2] = r[i - 2] /\ rest[(i - 2) + 1] = r[i - 2]
            BY <3>1, <1>3, <1>4
      <3>3. (<<x>> \o rest)[(i - 1) + 1] = rest[i - 1]
            BY <3>1, <1>5
      <3>4. (i - 2) + 2 = i /\ (i - 2) + 1 = i - 1 /\ (i - 1) + 1 = i
            BY <1>1, <1>4
      <3> QED BY <3>2, <3>3, <3>4
    <2>2. all[1] = (<<x>> \o rest)[1] /\ all[2] = (<<x>> \o rest)[2]
          BY <1>1, <1>3, <1>4, <1>5
    <2>3. Len(all) \in Nat /\ \A i \in 1..Len(all) : i = 1 \/ i = 2 \/ i \in 3..Len(all)
          BY <1>1, <1>4
    <2> QED BY <2>1, <2>2, <2>3
  <1>7. all = <<x>> \o rest
        BY <1>4, <1>5, <1>6
  <1> QED BY <1>2, <1>3, <1>7, FollowsNext

LEMMA Failed ==
  ASSUME NEW s, Fails(s), apart' # {}
  PROVE  InCourse'
  <1>1. failed' # {} /\ \A u \in User : todo'[u] = <<>>
        BY DEF Fails
  <1> QED BY <1>1 DEF InCourse, OneCommand, FailsOnlyApart

-----------------------------------------------------------------------------
(* What changes at a server, and what stays at the other. *)

SameUsers(s) == table'[s] = table[s] /\ nick'[s] = nick[s]
SameMembers(s) == made'[s] = made[s] /\ on'[s] = on[s] /\ ops'[s] = ops[s]

\* What was not announced before is not forgotten.
LEMMA LessIsShown ==
  ASSUME apart \subseteq apart'
  PROVE  Shown' \subseteq Shown
  BY DEF Shown

LEMMA SameIsKnown ==
  ASSUME NEW s, SameUsers(s)
  PROVE  \A v : Known(s, v)' <=> Known(s, v)
  BY DEF SameUsers, Known

LEMMA SameIsOwn ==
  ASSUME NEW s, SameUsers(s), OwnNick(s)
  PROVE  OwnNick(s)'
  BY DEF SameUsers, OwnNick

LEMMA SameAreKnown ==
  ASSUME NEW s, SameUsers(s), SameMembers(s), MembersAreKnown(s), Shown' \subseteq Shown
  PROVE  MembersAreKnown(s)'
  <1>1. \A v : Known(s, v)' <=> Known(s, v)
        BY SameIsKnown
  <1> QED BY <1>1 DEF SameMembers, MembersAreKnown

\* As long as nobody enters, leaves or is renamed.
LEMMA SameSessions ==
  ASSUME RegistryOK, SessionsAreKnown, UNCHANGED <<registry, quit>>
  PROVE  SessionsAreKnown'
  BY DEF SessionsAreKnown, registry, Known, Entered

LEMMA SameOrder ==
  ASSUME RegistryOK, Orderly, UNCHANGED <<registry, channels, quit, apart>>
  PROVE  Orderly'
  <1>1. \A s \in Server : SameUsers(s) /\ SameMembers(s)
        BY DEF registry, channels, SameUsers, SameMembers
  <1>2. Shown' \subseteq Shown
        BY DEF Shown
  <1>3. SessionsAreKnown'
        BY SameSessions DEF Orderly
  <1> QED BY <1>1, <1>2, <1>3, SameIsOwn, SameAreKnown DEF Orderly

\* Only a server changes, and only its channels.
LEMMA OneSideOrder ==
  ASSUME RegistryOK, Orderly, NEW a \in Server, SameMembers(Peer(a)),
         UNCHANGED <<registry, quit>>, Shown' \subseteq Shown, MembersAreKnown(a)'
  PROVE  Orderly'
  <1>1. Peer(a) \in Server /\ \A s \in Server : s = a \/ s = Peer(a)
        BY Pairs
  <1>2. \A s \in Server : SameUsers(s)
        BY DEF registry, SameUsers
  <1>3. \A s \in Server : OwnNick(s)'
        BY <1>2, SameIsOwn DEF Orderly
  <1>4. MembersAreKnown(Peer(a))'
        BY <1>1, <1>2, SameAreKnown DEF Orderly
  <1>5. SessionsAreKnown'
        BY SameSessions DEF Orderly
  <1> QED BY <1>1, <1>3, <1>4, <1>5 DEF Orderly

LEMMA LeaveIs ==
  ASSUME ChannelsOK, NEW a \in Server, NEW u, NEW C, Leave(a, u, C)
  PROVE  /\ SameMembers(Peer(a))
         /\ \A c \in Channel : c \notin C =>
              /\ on'[a][c] = on[a][c] /\ ops'[a][c] = ops[a][c]
              /\ c \in made'[a] <=> c \in made[a]
         /\ \A c \in Channel : c \in C =>
              /\ on'[a][c] = on[a][c] \ {u}
              /\ ops[a][c] \subseteq on[a][c] => ops'[a][c] = ops[a][c] \ {u}
              /\ c \in made'[a] <=> (c \in made[a] /\ ~(on[a][c] \subseteq {u}))
  <1> DEFINE gone == {c \in C : on[a][c] \subseteq {u}}
  <1>1. /\ on'[a] = [c \in Channel |-> IF c \in C THEN on[a][c] \ {u} ELSE on[a][c]]
        /\ ops'[a] = [c \in Channel |-> IF c \in gone THEN {}
                                        ELSE IF c \in C THEN ops[a][c] \ {u} ELSE ops[a][c]]
        /\ made'[a] = made[a] \ gone
        BY DEF Leave, ChannelsOK
  <1>2. SameMembers(Peer(a))
    <2>1. Peer(a) \in Server /\ Peer(a) # a
          BY Pairs
    <2> QED BY <2>1 DEF Leave, ChannelsOK, SameMembers
  <1>3. \A c \in Channel : c \notin C =>
          /\ on'[a][c] = on[a][c] /\ ops'[a][c] = ops[a][c]
          /\ c \in made'[a] <=> c \in made[a]
        BY <1>1
  <1>4. \A c \in Channel : c \in C =>
          /\ on'[a][c] = on[a][c] \ {u}
          /\ c \in made'[a] <=> (c \in made[a] /\ ~(on[a][c] \subseteq {u}))
        BY <1>1
  <1>5. ASSUME NEW c \in Channel, c \in C, ops[a][c] \subseteq on[a][c]
        PROVE  ops'[a][c] = ops[a][c] \ {u}
    <2>1. CASE on[a][c] \subseteq {u}
      <3>1. ops'[a][c] = {}
            BY <2>1, <1>1, <1>5
      <3> QED BY <3>1, <2>1, <1>5
    <2>2. CASE ~(on[a][c] \subseteq {u})
          BY <2>2, <1>1, <1>5
    <2> QED BY <2>1, <2>2
  <1> QED BY <1>2, <1>3, <1>4, <1>5

-----------------------------------------------------------------------------
(* Somebody leaves. *)

\* h leaves at a.
Goes(a, h) ==
    /\ \A c \in Shown : on'[a][c] = on[a][c] \ {h} /\ ops'[a][c] = ops[a][c] \ {h}
    /\ \A c \in Shown : c \in made'[a] <=> (c \in made[a] /\ on[a][c] # {h})
    /\ \A n \in Nick : n # nick[a][h] => table'[a][n] = table[a][n]
    /\ nick[a][h] \in Nick => table'[a][nick[a][h]] = Nobody
    /\ nick' = nick /\ home' = home /\ Shown' = Shown
    /\ SameUsers(Peer(a)) /\ SameMembers(Peer(a))

LEMMA MakeQuitGoes ==
  ASSUME RegistryOK, ChannelsOK, Orderly, NEW a \in Server, NEW h \in User,
         MakeQuit(a, h), UNCHANGED apart
  PROVE  Goes(a, h)
  <1> DEFINE C == ChannelsOf(a, h)
  <1>1. Shown' = Shown /\ Shown \subseteq Channel
        BY DEF Shown
  <1>2. Leave(a, h, C)
        BY DEF MakeQuit
  <1>3. \A c \in Shown : ops[a][c] \subseteq on[a][c] /\ (c \in C <=> h \in on[a][c])
        BY <1>1 DEF Orderly, MembersAreKnown, ChannelsOf
  <1> HIDE DEF C
  <1>4. /\ SameMembers(Peer(a))
        /\ \A c \in Channel : c \notin C =>
              /\ on'[a][c] = on[a][c] /\ ops'[a][c] = ops[a][c]
              /\ c \in made'[a] <=> c \in made[a]
        /\ \A c \in Channel : c \in C =>
              /\ on'[a][c] = on[a][c] \ {h}
              /\ ops[a][c] \subseteq on[a][c] => ops'[a][c] = ops[a][c] \ {h}
              /\ c \in made'[a] <=> (c \in made[a] /\ ~(on[a][c] \subseteq {h}))
        BY <1>2, LeaveIs
  <1>5. ASSUME NEW c \in Shown
        PROVE  /\ on'[a][c] = on[a][c] \ {h} /\ ops'[a][c] = ops[a][c] \ {h}
               /\ c \in made'[a] <=> (c \in made[a] /\ on[a][c] # {h})
    <2>1. CASE c \in C
          BY <2>1, <1>1, <1>3, <1>4
    <2>2. CASE c \notin C
      <3>1. on[a][c] \ {h} = on[a][c] /\ ops[a][c] \ {h} = ops[a][c] /\ on[a][c] # {h}
            BY <2>2, <1>3
      <3> QED BY <3>1, <2>2, <1>1, <1>4
    <2> QED BY <2>1, <2>2
  <1>6. /\ \A n \in Nick : n # nick[a][h] => table'[a][n] = table[a][n]
        /\ nick[a][h] \in Nick => table'[a][nick[a][h]] = Nobody
        BY DEF MakeQuit, RegistryOK
  <1>7. SameUsers(Peer(a))
    <2>1. Peer(a) \in Server /\ Peer(a) # a
          BY Pairs
    <2> QED BY <2>1 DEF MakeQuit, RegistryOK, SameUsers
  <1> QED BY <1>1, <1>4, <1>5, <1>6, <1>7 DEF MakeQuit, Goes

\* Who is known after somebody has left.
LEMMA GoesKnown ==
  ASSUME RegistryOK, Orderly, NEW a \in Server, NEW h \in User, Known(a, h), Goes(a, h)
  PROVE  /\ \A v \in User : Known(a, v)' <=> (Known(a, v) /\ v # h)
         /\ \A v : Known(Peer(a), v)' <=> Known(Peer(a), v)
  <1>1. /\ table[a][nick[a][h]] = h /\ nick[a][h] \in Nick /\ nick' = nick
        /\ \A n \in Nick : n # nick[a][h] => table'[a][n] = table[a][n]
        /\ table'[a][nick[a][h]] = Nobody
        BY DEF Known, RegistryOK, Goes
  <1>2. \A v \in User : (nick[a][v] \in Nick \/ nick[a][v] = NoNick) /\ v # Nobody
        BY NoneAssumption DEF RegistryOK
  <1>3. \A v \in User : Known(a, v)' <=> (Known(a, v) /\ v # h)
        BY <1>1, <1>2 DEF Known
  <1> QED BY <1>3, SameIsKnown DEF Goes

LEMMA GoesOrderly ==
  ASSUME RegistryOK, ChannelsOK, Orderly, NEW a \in Server, NEW h \in User,
         Known(a, h), Goes(a, h),
         quit' = IF home[h] = a THEN quit \cup {h} ELSE quit
  PROVE  Orderly'
  <1> DEFINE b == Peer(a)
  <1>1. b \in Server /\ b # a /\ \A s \in Server : s = a \/ s = b
        BY Pairs
  <1>2. /\ \A v \in User : Known(a, v)' <=> (Known(a, v) /\ v # h)
        /\ \A v : Known(b, v)' <=> Known(b, v)
        BY GoesKnown
  <1>3. OwnNick(b)' /\ MembersAreKnown(b)'
    <2>1. OwnNick(b) /\ MembersAreKnown(b)
          BY <1>1 DEF Orderly
    <2>2. SameUsers(b) /\ SameMembers(b) /\ Shown' \subseteq Shown
          BY DEF Goes
    <2> QED BY <2>1, <2>2, SameIsOwn, SameAreKnown
  <1>4. OwnNick(a)'
    <2>1. \A n \in Nick : table'[a][n] \in {table[a][n], Nobody}
          BY DEF Goes
    <2>2. nick' = nick
          BY DEF Goes
    <2> QED BY <2>1, <2>2 DEF Orderly, OwnNick
  <1>5. MembersAreKnown(a)'
    <2>1. /\ \A c \in Shown : on'[a][c] = on[a][c] \ {h} /\ ops'[a][c] = ops[a][c] \ {h}
          /\ Shown' = Shown
          BY DEF Goes
    <2>2. \A c \in Shown : on[a][c] \subseteq User
          BY DEF ChannelsOK, Shown
    <2> QED BY <2>1, <2>2, <1>2 DEF Orderly, MembersAreKnown
  <1>6. SessionsAreKnown'
    <2>1. \A v \in User : home'[v] = home[v] /\ (Entered(v)' <=> Entered(v))
          BY DEF Goes, Entered
    <2>2. ASSUME NEW v \in User
          PROVE  /\ v \in quit' => ~Known(home[v], v)'
                 /\ v \notin quit' /\ Entered(v)' => Known(home[v], v)'
      <3>1. /\ v \in quit => ~Known(home[v], v)
            /\ v \notin quit /\ Entered(v) => Known(home[v], v)
            BY DEF Orderly, SessionsAreKnown
      <3>2. CASE home[v] = a
        <4>1. Known(a, v)' <=> (Known(a, v) /\ v # h)
              BY <1>2
        <4>2. v \in quit' <=> (v \in quit \/ (v = h))
              BY <3>2
        <4> QED BY <4>1, <4>2, <3>1, <3>2, <2>1
      <3>3. CASE home[v] # a
        <4>1. home[v] = b
              BY <3>3, <1>1 DEF RegistryOK
        <4>2. Known(b, v)' <=> Known(b, v)
              BY <1>2
        <4>3. v \in quit' <=> v \in quit
              BY <3>3
        <4> QED BY <4>1, <4>2, <4>3, <3>1, <2>1
      <3> QED BY <3>2, <3>3
    <2> QED BY <2>1, <2>2 DEF SessionsAreKnown
  <1> HIDE DEF b
  <1> QED BY <1>1, <1>3, <1>4, <1>5, <1>6 DEF Orderly

\* The first of two servers that agree lets somebody go.
LEMMA LeavesFirst ==
  ASSUME RegistryOK, Orderly, Agree, NEW a \in Server, NEW h \in User, Known(a, h), Goes(a, h)
  PROVE  /\ Without(a, h)' /\ nick[a][h] \in Nick
         /\ table'[Peer(a)][nick[a][h]] = h /\ Known(Peer(a), h)
  <1> DEFINE b == Peer(a)
             n == nick[a][h]
  <1>1. b \in Server /\ b # a /\ n \in Nick /\ table[a][n] = h /\ h # Nobody
        BY Pairs, NoneAssumption DEF Known, RegistryOK
  <1>2. table[b][n] = h
        BY <1>1 DEF Agree, TablesAgree
  <1>3. nick[b][h] = n
        BY <1>1, <1>2 DEF Orderly, OwnNick
  <1>4. Known(b, h)
        BY <1>1, <1>2, <1>3, NoneAssumption DEF Known
  <1>5. Known(b, h)' /\ nick'[b][h] = n /\ table'[b] = table[b]
        BY <1>3, <1>4, SameIsKnown DEF Goes, SameUsers
  <1>6. \A m \in Nick : table'[a][m] = IF m = n THEN Nobody ELSE table'[b][m]
        BY <1>1, <1>5 DEF Agree, TablesAgree, Goes
  <1>7. ASSUME NEW c \in Shown
        PROVE  /\ on'[a][c] = on'[b][c] \ {h} /\ ops'[a][c] = ops'[b][c] \ {h}
               /\ c \in made'[a] <=> (c \in made'[b] /\ on'[b][c] # {h})
    <2>1. on[a][c] = on[b][c] /\ ops[a][c] = ops[b][c] /\ (c \in made[a] <=> c \in made[b])
          BY DEF Agree, AgreeIn
    <2>2. on'[b] = on[b] /\ ops'[b] = ops[b] /\ made'[b] = made[b]
          BY DEF Goes, SameMembers
    <2>3. /\ on'[a][c] = on[a][c] \ {h} /\ ops'[a][c] = ops[a][c] \ {h}
          /\ c \in made'[a] <=> (c \in made[a] /\ on[a][c] # {h})
          BY DEF Goes
    <2> QED BY <2>1, <2>2, <2>3
  <1>8. Shown' = Shown
        BY DEF Goes
  <1> HIDE DEF n
  <1>9. Without(a, h)'
        BY <1>5, <1>6, <1>7, <1>8 DEF Without
  <1> QED BY <1>1, <1>2, <1>4, <1>5, <1>9 DEF n

\* The second one lets him go too.
LEMMA LeavesNext ==
  ASSUME RegistryOK, Orderly, NEW a \in Server, NEW h \in User,
         Without(Peer(a), h), Goes(a, h)
  PROVE  /\ Agree' /\ Known(a, h) /\ nick[a][h] \in Nick
         /\ table'[Peer(a)][nick[a][h]] = Nobody
  <1> DEFINE b == Peer(a)
             n == nick[a][h]
  <1>1. b \in Server /\ Peer(b) = a /\ b # a /\ \A s \in Server : s = a \/ s = b
        BY Pairs
  <1>2. /\ Known(a, h)
        /\ \A m \in Nick : table[b][m] = IF m = n THEN Nobody ELSE table[a][m]
        /\ \A c \in Shown : /\ on[b][c] = on[a][c] \ {h} /\ ops[b][c] = ops[a][c] \ {h}
                            /\ c \in made[b] <=> (c \in made[a] /\ on[a][c] # {h})
        BY <1>1 DEF Without
  <1>3. n \in Nick
        BY <1>2 DEF Known, RegistryOK
  <1>4. table'[b] = table[b] /\ on'[b] = on[b] /\ ops'[b] = ops[b] /\ made'[b] = made[b]
        BY DEF Goes, SameUsers, SameMembers
  <1>5. \A m \in Nick : table'[a][m] = table'[b][m]
        BY <1>2, <1>3, <1>4 DEF Goes
  <1>6. ASSUME NEW c \in Shown
        PROVE  /\ on'[a][c] = on'[b][c] /\ ops'[a][c] = ops'[b][c]
               /\ c \in made'[a] <=> c \in made'[b]
    <2>1. /\ on'[a][c] = on[a][c] \ {h} /\ ops'[a][c] = ops[a][c] \ {h}
          /\ c \in made'[a] <=> (c \in made[a] /\ on[a][c] # {h})
          BY DEF Goes
    <2> QED BY <2>1, <1>2, <1>4
  <1>7. Shown' = Shown
        BY DEF Goes
  <1>8. table'[b][n] = Nobody
        BY <1>2, <1>3, <1>4
  <1> HIDE DEF n
  <1>9. TablesAgree' /\ AgreeIn(Shown)'
    <2>1. \A s \in Server : (s = a /\ Peer(s) = b) \/ (s = b /\ Peer(s) = a)
          BY <1>1
    <2> HIDE DEF b
    <2> QED BY <2>1, <1>5, <1>6, <1>7 DEF TablesAgree, AgreeIn
  <1> QED BY <1>2, <1>3, <1>8, <1>9 DEF Agree, n

-----------------------------------------------------------------------------
(* Something changes in one channel of one server. *)

OnlyIn(a, c) ==
    /\ UNCHANGED registry
    /\ SameMembers(Peer(a))
    /\ \A d \in Channel \ {c} : /\ on'[a][d] = on[a][d] /\ ops'[a][d] = ops[a][d]
                                /\ d \in made'[a] <=> d \in made[a]

\* The users and operators of c at a.
Sets(a, c, O, P) ==
    /\ on' = [on EXCEPT ![a][c] = O] /\ ops' = [ops EXCEPT ![a][c] = P]
    /\ made' = [made EXCEPT ![a] = made[a] \cup {c}] \/ UNCHANGED made
    /\ UNCHANGED registry

LEMMA SetIs ==
  ASSUME ChannelsOK, NEW a \in Server, NEW c \in Channel, NEW O, NEW P, Sets(a, c, O, P)
  PROVE  OnlyIn(a, c) /\ on'[a][c] = O /\ ops'[a][c] = P
  <1>1. Peer(a) \in Server /\ Peer(a) # a
        BY Pairs
  <1>2. on'[a] = [on[a] EXCEPT ![c] = O] /\ ops'[a] = [ops[a] EXCEPT ![c] = P]
        BY DEF ChannelsOK, Sets
  <1>3. on[a] \in [Channel -> SUBSET User] /\ ops[a] \in [Channel -> SUBSET User]
        BY DEF ChannelsOK, Sets
  <1>4. on'[a][c] = O /\ ops'[a][c] = P
        BY <1>2, <1>3
  <1>5. \A d \in Channel \ {c} : on'[a][d] = on[a][d] /\ ops'[a][d] = ops[a][d]
        BY <1>2, <1>3
  <1>6. \A d \in Channel \ {c} : d \in made'[a] <=> d \in made[a]
        BY DEF ChannelsOK, Sets
  <1>7. SameMembers(Peer(a))
        BY <1>1 DEF SameMembers, ChannelsOK, Sets
  <1> QED BY <1>4, <1>5, <1>6, <1>7 DEF OnlyIn, Sets

LEMMA LeaveOne ==
  ASSUME ChannelsOK, NEW a \in Server, NEW u, NEW c \in Channel, Leave(a, u, {c}),
         UNCHANGED registry
  PROVE  /\ OnlyIn(a, c) /\ on'[a][c] = on[a][c] \ {u}
         /\ ops[a][c] \subseteq on[a][c] => ops'[a][c] = ops[a][c] \ {u}
         /\ c \in made'[a] <=> (c \in made[a] /\ ~(on[a][c] \subseteq {u}))
  <1> DEFINE C == {c}
  <1>1. Leave(a, u, C)
        OBVIOUS
  <1>2. c \in C /\ \A d \in Channel \ {c} : d \notin C
        OBVIOUS
  <1> HIDE DEF C
  <1> QED BY <1>1, <1>2, LeaveIs DEF OnlyIn

LEMMA RemoveOne ==
  ASSUME ChannelsOK, NEW a \in Server, NEW u, NEW c \in Channel, RemoveUser(a, u, {c}),
         UNCHANGED <<registry, made>>
  PROVE  /\ OnlyIn(a, c) /\ on'[a][c] = on[a][c] \ {u} /\ ops'[a][c] = ops[a][c] \ {u}
         /\ made' = made
  <1>1. Peer(a) \in Server /\ Peer(a) # a
        BY Pairs
  <1>2. /\ on'[a] = [d \in Channel |-> IF d \in {c} THEN on[a][d] \ {u} ELSE on[a][d]]
        /\ ops'[a] = [d \in Channel |-> IF d \in {c} THEN ops[a][d] \ {u} ELSE ops[a][d]]
        BY DEF RemoveUser, ChannelsOK
  <1>3. SameMembers(Peer(a))
        BY <1>1 DEF RemoveUser, ChannelsOK, SameMembers
  <1>4. on'[a][c] = on[a][c] \ {u} /\ ops'[a][c] = ops[a][c] \ {u}
        BY <1>2
  <1>5. \A d \in Channel \ {c} : on'[a][d] = on[a][d] /\ ops'[a][d] = ops[a][d]
        BY <1>2
  <1> QED BY <1>3, <1>4, <1>5 DEF OnlyIn

LEMMA OneChannelOrder ==
  ASSUME RegistryOK, Orderly, NEW a \in Server, NEW c \in Channel, OnlyIn(a, c),
         UNCHANGED quit, Shown' \subseteq Shown,
         c \in Shown' => /\ ops'[a][c] \subseteq on'[a][c]
                         /\ \A v \in on'[a][c] : Known(a, v)
                         /\ c \in Registered => on'[a][c] = {}
  PROVE  Orderly'
  <1>1. SameUsers(a)
        BY DEF OnlyIn, registry, SameUsers
  <1>2. \A v : Known(a, v)' <=> Known(a, v)
        BY <1>1, SameIsKnown
  <1>3. ASSUME NEW d \in Shown'
        PROVE  /\ ops'[a][d] \subseteq on'[a][d]
               /\ \A v \in on'[a][d] : Known(a, v)'
               /\ d \in Registered => on'[a][d] = {}
    <2>1. CASE d = c
          BY <2>1, <1>2, <1>3
    <2>2. CASE d # c
      <3>1. d \in Shown /\ d \in Channel \ {c}
            BY <2>2, <1>3 DEF Shown
      <3>2. on'[a][d] = on[a][d] /\ ops'[a][d] = ops[a][d]
            BY <3>1 DEF OnlyIn
      <3> QED BY <3>1, <3>2, <1>2 DEF Orderly, MembersAreKnown
    <2> QED BY <2>1, <2>2
  <1>4. MembersAreKnown(a)'
        BY <1>3 DEF MembersAreKnown
  <1> QED BY <1>4, OneSideOrder DEF OnlyIn

\* To compare the servers it is enough to look at one.
LEMMA AgreeAt ==
  ASSUME NEW a \in Server, \A n \in Nick : table'[a][n] = table'[Peer(a)][n],
         \A c \in Shown' : /\ on'[a][c] = on'[Peer(a)][c] /\ ops'[a][c] = ops'[Peer(a)][c]
                           /\ c \in made'[a] <=> c \in made'[Peer(a)]
  PROVE  Agree'
  <1> DEFINE b == Peer(a)
  <1>1. \A s \in Server : (s = a /\ Peer(s) = b) \/ (s = b /\ Peer(s) = a)
        BY Pairs
  <1> HIDE DEF b
  <1>2. TablesAgree'
        BY <1>1 DEF TablesAgree, b
  <1>3. AgreeIn(Shown)'
        BY <1>1 DEF AgreeIn, b
  <1> QED BY <1>2, <1>3 DEF Agree

LEMMA SameTables ==
  ASSUME TablesAgree, UNCHANGED registry
  PROVE  TablesAgree'
  BY DEF TablesAgree, registry

\* The other channels go on agreeing.
LEMMA OthersAgree ==
  ASSUME NEW a \in Server, NEW c \in Channel, OnlyIn(a, c), AgreeIn(Shown \ {c}), UNCHANGED apart
  PROVE  AgreeIn(Shown \ {c})'
  <1> DEFINE b == Peer(a)
  <1>1. b \in Server /\ \A s \in Server : (s = a /\ Peer(s) = b) \/ (s = b /\ Peer(s) = a)
        BY Pairs
  <1>2. on'[b] = on[b] /\ ops'[b] = ops[b] /\ made'[b] = made[b]
        BY DEF OnlyIn, SameMembers
  <1>3. Shown' = Shown /\ Shown \subseteq Channel
        BY DEF Shown
  <1>4. \A d \in Shown \ {c} : /\ on'[a][d] = on[a][d] /\ ops'[a][d] = ops[a][d]
                               /\ d \in made'[a] <=> d \in made[a]
        BY <1>3 DEF OnlyIn
  <1> HIDE DEF b
  <1>5. \A d \in Shown \ {c} : /\ on'[a][d] = on'[b][d] /\ ops'[a][d] = ops'[b][d]
                               /\ d \in made'[a] <=> d \in made'[b]
        BY <1>1, <1>2, <1>4 DEF AgreeIn, b
  <1> QED BY <1>1, <1>3, <1>5 DEF AgreeIn

\* The channel comes to agree.
LEMMA Settled ==
  ASSUME NEW a \in Server, NEW c \in Channel, OnlyIn(a, c), UNCHANGED apart,
         TablesAgree, AgreeIn(Shown \ {c}),
         c \in Shown => /\ on'[a][c] = on[Peer(a)][c] /\ ops'[a][c] = ops[Peer(a)][c]
                        /\ c \in made'[a] <=> c \in made[Peer(a)]
  PROVE  Agree'
  <1> DEFINE b == Peer(a)
  <1>1. on'[b] = on[b] /\ ops'[b] = ops[b] /\ made'[b] = made[b]
        BY DEF OnlyIn, SameMembers
  <1>2. Shown' = Shown
        BY DEF Shown
  <1>3. AgreeIn(Shown \ {c})' /\ TablesAgree'
        BY OthersAgree, SameTables DEF OnlyIn
  <1>4. \A d \in Shown' : /\ on'[a][d] = on'[b][d] /\ ops'[a][d] = ops'[b][d]
                          /\ d \in made'[a] <=> d \in made'[b]
    <2> SUFFICES ASSUME NEW d \in Shown'
                 PROVE  /\ on'[a][d] = on'[b][d] /\ ops'[a][d] = ops'[b][d]
                        /\ d \in made'[a] <=> d \in made'[b]
        OBVIOUS
    <2>1. CASE d = c
          BY <2>1, <1>1, <1>2
    <2>2. CASE d # c
          BY <2>2, <1>3 DEF AgreeIn
    <2> QED BY <2>1, <2>2
  <1>5. \A n \in Nick : table'[a][n] = table'[b][n]
        BY <1>3 DEF TablesAgree
  <1> QED BY <1>4, <1>5, AgreeAt

\* The channel is one of those that do not count from now on.
LEMMA Forgotten ==
  ASSUME NEW a \in Server, NEW c \in Channel, OnlyIn(a, c), apart' = apart \cup {c}, Agree
  PROVE  Agree' /\ Shown' \subseteq Shown /\ c \notin Shown'
  <1> DEFINE b == Peer(a)
  <1>1. on'[b] = on[b] /\ ops'[b] = ops[b] /\ made'[b] = made[b]
        BY DEF OnlyIn, SameMembers
  <1>2. Shown' = Shown \ {c} /\ Shown \subseteq Channel
        BY DEF Shown
  <1>3. \A d \in Shown \ {c} : /\ on'[a][d] = on[a][d] /\ ops'[a][d] = ops[a][d]
                               /\ d \in made'[a] <=> d \in made[a]
        BY <1>2 DEF OnlyIn
  <1>4. \A d \in Shown' : /\ on'[a][d] = on'[b][d] /\ ops'[a][d] = ops'[b][d]
                          /\ d \in made'[a] <=> d \in made'[b]
        BY <1>1, <1>2, <1>3 DEF Agree, AgreeIn
  <1>5. TablesAgree'
        BY SameTables DEF Agree, OnlyIn
  <1>6. \A n \in Nick : table'[a][n] = table'[b][n]
        BY <1>5 DEF TablesAgree
  <1> HIDE DEF b
  <1>7. Agree'
        BY <1>4, <1>6, AgreeAt DEF b
  <1> QED BY <1>2, <1>7

\* Nothing changes at all.
LEMMA SameAgree ==
  ASSUME Agree, UNCHANGED <<registry, channels, apart>>
  PROVE  Agree'
  BY DEF Agree, TablesAgree, AgreeIn, Shown, registry, channels

-----------------------------------------------------------------------------
(* Somebody enters or is renamed. *)

Enters(a, u, n) ==
    /\ table'[a][n] = u /\ \A m \in Nick \ {n} : table'[a][m] = table[a][m]
    /\ nick'[a][u] = n /\ \A v \in User \ {u} : nick'[a][v] = nick[a][v]
    /\ SameUsers(Peer(a)) /\ home' = home

LEMMA AddUserEnters ==
  ASSUME RegistryOK, NEW a \in Server, NEW u \in User, NEW n \in Nick, AddUser(a, u, n)
  PROVE  Enters(a, u, n)
  <1>1. Peer(a) \in Server /\ Peer(a) # a
        BY Pairs
  <1>2. SameUsers(Peer(a))
        BY <1>1 DEF AddUser, RegistryOK, SameUsers
  <1> QED BY <1>2 DEF AddUser, RegistryOK, Enters

LEMMA EntersOrderly ==
  ASSUME RegistryOK, ChannelsOK, Orderly, NEW a \in Server, NEW u \in User, NEW n \in Nick,
         Enters(a, u, n), table[a][n] = Nobody, \A m \in Nick : table[a][m] # u,
         home[u] = a => u \notin quit, UNCHANGED <<channels, quit, apart>>
  PROVE  Orderly' /\ Known(a, u)'
  <1> DEFINE b == Peer(a)
  <1>1. b \in Server /\ b # a /\ \A s \in Server : s = a \/ s = b
        BY Pairs
  <1>2. \A v \in User : nick[a][v] \in Nick \cup {NoNick} /\ v # Nobody
        BY NoneAssumption DEF RegistryOK
  <1>3. Known(a, u)'
        BY NoneAssumption DEF Enters, Known
  <1>4. \A v \in User \ {u} : Known(a, v)' <=> Known(a, v)
        BY <1>2 DEF Enters, Known
  <1>5. \A v : Known(b, v)' <=> Known(b, v)
        BY SameIsKnown DEF Enters
  <1>6. Shown' = Shown /\ SameMembers(a) /\ SameMembers(b)
        BY DEF Shown, channels, SameMembers
  <1>7. OwnNick(b)' /\ MembersAreKnown(b)'
    <2>1. OwnNick(b) /\ MembersAreKnown(b) /\ SameUsers(b)
          BY <1>1 DEF Orderly, Enters
    <2> QED BY <2>1, <1>6, SameIsOwn, SameAreKnown
  <1>8. OwnNick(a)'
    <2>1. \A m \in Nick \ {n} : table[a][m] # Nobody => table[a][m] \in User \ {u}
          BY DEF RegistryOK
    <2> QED BY <2>1 DEF Orderly, OwnNick, Enters
  <1>9. MembersAreKnown(a)'
    <2>1. \A c \in Shown : on[a][c] \subseteq User
          BY DEF ChannelsOK, Shown
    <2> QED BY <2>1, <1>3, <1>4, <1>6 DEF Orderly, MembersAreKnown, SameMembers
  <1>10. SessionsAreKnown'
    <2> SUFFICES ASSUME NEW v \in User
                 PROVE  /\ v \in quit' => ~Known(home[v], v)'
                        /\ v \notin quit' /\ Entered(v)' => Known(home[v], v)'
        BY DEF SessionsAreKnown
    <2>1. home'[v] = home[v] /\ quit' = quit
          BY DEF Enters
    <2>2. /\ v \in quit => ~Known(home[v], v)
          /\ v \notin quit /\ Entered(v) => Known(home[v], v)
          BY DEF Orderly, SessionsAreKnown
    <2>3. CASE home[v] = a /\ v = u
          BY <2>1, <2>3, <1>3
    <2>4. CASE home[v] = a /\ v # u
      <3>1. Entered(v)' <=> Entered(v)
            BY <2>1, <2>4 DEF Entered, Enters
      <3>2. Known(a, v)' <=> Known(a, v)
            BY <2>4, <1>4
      <3> QED BY <3>1, <3>2, <2>1, <2>2, <2>4
    <2>5. CASE home[v] # a
      <3>1. home[v] = b
            BY <2>5, <1>1 DEF RegistryOK
      <3>2. Entered(v)' <=> Entered(v)
            BY <3>1, <2>1 DEF Entered, Enters, SameUsers
      <3>3. Known(b, v)' <=> Known(b, v)
            BY <1>5
      <3> QED BY <3>1, <3>2, <3>3, <2>1, <2>2
    <2> QED BY <2>3, <2>4, <2>5
  <1> HIDE DEF b
  <1> QED BY <1>1, <1>3, <1>7, <1>8, <1>9, <1>10 DEF Orderly

LEMMA EntersFirst ==
  ASSUME RegistryOK, ChannelsOK, Orderly, Agree, NEW u \in User, NEW n \in Nick,
         NEW a \in Server, Enters(a, u, n), Known(a, u)', nick[a][u] = NoNick,
         table[a][n] = Nobody, UNCHANGED <<channels, apart>>
  PROVE  /\ Without(Peer(a), u)'
         /\ \A c \in Shown' : u \notin on'[a][c]
  <1> DEFINE b == Peer(a)
  <1>1. b \in Server /\ Peer(b) = a
        BY Pairs
  <1>2. \A m \in Nick : table[b][m] = table[a][m] /\ table'[b] = table[b]
        BY DEF Agree, TablesAgree, Enters, SameUsers
  <1>3. \A m \in Nick : table'[b][m] = IF m = nick'[a][u] THEN Nobody ELSE table'[a][m]
        BY <1>2 DEF Enters
  <1>4. Shown' = Shown /\ on' = on /\ ops' = ops /\ made' = made
        BY DEF Shown, channels
  <1>5. \A c \in Shown : u \notin on[a][c] /\ ops[a][c] \subseteq on[a][c]
        BY DEF Orderly, MembersAreKnown, Known
  <1>6. ASSUME NEW c \in Shown
        PROVE  /\ on[b][c] = on[a][c] \ {u} /\ ops[b][c] = ops[a][c] \ {u}
               /\ c \in made[b] <=> (c \in made[a] /\ on[a][c] # {u})
    <2>1. on[b][c] = on[a][c] /\ ops[b][c] = ops[a][c] /\ (c \in made[b] <=> c \in made[a])
          BY DEF Agree, AgreeIn
    <2>2. on[a][c] \ {u} = on[a][c] /\ ops[a][c] \ {u} = ops[a][c] /\ on[a][c] # {u}
          BY <1>5
    <2> QED BY <2>1, <2>2
  <1> HIDE DEF b
  <1>7. Without(b, u)'
        BY <1>1, <1>3, <1>4, <1>6 DEF Without
  <1> QED BY <1>4, <1>5, <1>7 DEF b

LEMMA EntersNext ==
  ASSUME RegistryOK, ChannelsOK, Orderly, NEW u \in User, NEW n \in Nick,
         NEW a \in Server, Without(a, u), nick[Peer(a)][u] = n,
         \A c \in Shown : u \notin on[Peer(a)][c],
         Enters(a, u, n), UNCHANGED <<channels, apart>>
  PROVE  Agree'
  <1> DEFINE b == Peer(a)
  <1>1. table[b][n] = u
        BY DEF Without, Known
  <1>2. \A m \in Nick : table[a][m] = IF m = n THEN Nobody ELSE table[b][m]
        BY DEF Without
  <1>3. table'[b] = table[b]
        BY DEF Enters, SameUsers
  <1>4. \A m \in Nick : table'[a][m] = table'[b][m]
        BY <1>1, <1>2, <1>3 DEF Enters
  <1>5. Shown' = Shown /\ on' = on /\ ops' = ops /\ made' = made
        BY DEF Shown, channels
  <1>6. ASSUME NEW c \in Shown
        PROVE  /\ on[a][c] = on[b][c] /\ ops[a][c] = ops[b][c]
               /\ c \in made[a] <=> c \in made[b]
    <2>1. /\ on[a][c] = on[b][c] \ {u} /\ ops[a][c] = ops[b][c] \ {u}
          /\ c \in made[a] <=> (c \in made[b] /\ on[b][c] # {u})
          BY DEF Without
    <2>2. b \in Server
          BY Pairs
    <2>3. u \notin on[b][c] /\ ops[b][c] \subseteq on[b][c]
          BY <2>2 DEF Orderly, MembersAreKnown
    <2>4. on[b][c] \ {u} = on[b][c] /\ ops[b][c] \ {u} = ops[b][c] /\ on[b][c] # {u}
          BY <2>3
    <2> QED BY <2>1, <2>4
  <1> QED BY <1>4, <1>5, <1>6, AgreeAt

\* u has the nickname new at a, and had old.
Moves(a, u, old, new) ==
    /\ table'[a][new] = u /\ table'[a][old] = Nobody
    /\ \A m \in Nick \ {old, new} : table'[a][m] = table[a][m]
    /\ nick'[a][u] = new /\ \A v \in User \ {u} : nick'[a][v] = nick[a][v]
    /\ SameUsers(Peer(a)) /\ home' = home

LEMMA MovedMoves ==
  ASSUME RegistryOK, NEW a \in Server, NEW u \in User, NEW old \in Nick, NEW new \in Nick,
         table[a][old] = u, table[a][new] = Nobody,
         table' = Moved(a, old, new), home' = home,
         \/ nick' = [nick EXCEPT ![a][table[a][old]] = new]
         \/ nick' = [nick EXCEPT ![a][u] = new, ![a][table[a][old]] = new]
  PROVE  Moves(a, u, old, new)
  <1>1. old # new /\ Peer(a) \in Server /\ Peer(a) # a
        BY Pairs, NoneAssumption
  <1>2. /\ nick'[a][u] = new /\ \A v \in User \ {u} : nick'[a][v] = nick[a][v]
        /\ nick'[Peer(a)] = nick[Peer(a)]
    <2>1. CASE nick' = [nick EXCEPT ![a][u] = new]
          BY <2>1, <1>1 DEF RegistryOK
    <2>2. CASE nick' = [nick EXCEPT ![a][u] = new, ![a][u] = new]
          BY <2>2, <1>1 DEF RegistryOK
    <2> QED BY <2>1, <2>2
  <1>3. /\ table'[a][new] = u /\ table'[a][old] = Nobody
        /\ \A m \in Nick \ {old, new} : table'[a][m] = table[a][m]
        /\ table'[Peer(a)] = table[Peer(a)]
    <2> DEFINE once == [table EXCEPT ![a][new] = u]
    <2>1. once \in [Server -> [Nick -> User \cup {Nobody}]]
          BY DEF RegistryOK
    <2>2. /\ once[a][new] = u /\ \A m \in Nick \ {new} : once[a][m] = table[a][m]
          /\ once[Peer(a)] = table[Peer(a)]
          BY <1>1 DEF RegistryOK
    <2>3. table' = [once EXCEPT ![a][old] = Nobody]
          BY DEF Moved
    <2> HIDE DEF once
    <2> QED BY <2>1, <2>2, <2>3, <1>1
  <1> QED BY <1>2, <1>3 DEF Moves, SameUsers

LEMMA MovesOrderly ==
  ASSUME RegistryOK, ChannelsOK, Orderly, NEW a \in Server, NEW u \in User,
         NEW old \in Nick, NEW new \in Nick, Moves(a, u, old, new),
         table[a][old] = u, table[a][new] = Nobody, UNCHANGED <<channels, quit, apart>>
  PROVE  Orderly' /\ Known(a, u)'
  <1> DEFINE b == Peer(a)
  <1>1. b \in Server /\ b # a /\ \A s \in Server : s = a \/ s = b
        BY Pairs
  <1>2. \A v \in User : nick[a][v] \in Nick \cup {NoNick} /\ v # Nobody
        BY NoneAssumption DEF RegistryOK
  <1>3. nick[a][u] = old /\ Known(a, u) /\ Known(a, u)'
        BY NoneAssumption DEF Moves, Known, Orderly, OwnNick
  <1>4. \A v \in User : Known(a, v)' <=> Known(a, v)
    <2> SUFFICES ASSUME NEW v \in User, v # u PROVE Known(a, v)' <=> Known(a, v)
        BY <1>3
    <2>1. nick'[a][v] = nick[a][v]
          BY DEF Moves
    <2>2. CASE nick[a][v] \in {old, new}
          BY <2>1, <2>2, <1>2 DEF Known, Moves
    <2>3. CASE nick[a][v] \notin {old, new}
          BY <2>1, <2>3, <1>2 DEF Known, Moves
    <2> QED BY <2>2, <2>3
  <1>5. \A v : Known(b, v)' <=> Known(b, v)
        BY SameIsKnown DEF Moves
  <1>6. Shown' = Shown /\ SameMembers(a) /\ SameMembers(b)
        BY DEF Shown, channels, SameMembers
  <1>7. OwnNick(b)' /\ MembersAreKnown(b)'
    <2>1. OwnNick(b) /\ MembersAreKnown(b) /\ SameUsers(b)
          BY <1>1 DEF Orderly, Moves
    <2> QED BY <2>1, <1>6, SameIsOwn, SameAreKnown
  <1>8. OwnNick(a)'
    <2> SUFFICES ASSUME NEW m \in Nick, table'[a][m] # Nobody
                 PROVE  nick'[a][table'[a][m]] = m
        BY DEF OwnNick
    <2>1. CASE m \in {old, new}
          BY <2>1 DEF Moves
    <2>2. CASE m \notin {old, new}
      <3>1. table'[a][m] = table[a][m] /\ table[a][m] \in User
            BY <2>2 DEF Moves, RegistryOK
      <3>2. nick[a][table[a][m]] = m
            BY <3>1 DEF Orderly, OwnNick
      <3>3. table[a][m] # u
            BY <3>2, <2>2, <1>3
      <3> QED BY <3>1, <3>2, <3>3 DEF Moves
    <2> QED BY <2>1, <2>2
  <1>9. MembersAreKnown(a)'
    <2>1. \A c \in Shown : on[a][c] \subseteq User
          BY DEF ChannelsOK, Shown
    <2> QED BY <2>1, <1>4, <1>6 DEF Orderly, MembersAreKnown, SameMembers
  <1>10. SessionsAreKnown'
    <2> SUFFICES ASSUME NEW v \in User
                 PROVE  /\ v \in quit' => ~Known(home[v], v)'
                        /\ v \notin quit' /\ Entered(v)' => Known(home[v], v)'
        BY DEF SessionsAreKnown
    <2>1. home'[v] = home[v] /\ quit' = quit
          BY DEF Moves
    <2>2. /\ v \in quit => ~Known(home[v], v)
          /\ v \notin quit /\ Entered(v) => Known(home[v], v)
          BY DEF Orderly, SessionsAreKnown
    <2>3. CASE home[v] = a
      <3>1. Known(a, v)' <=> Known(a, v)
            BY <1>4
      <3>2. v # u => (Entered(v)' <=> Entered(v))
            BY <2>1, <2>3 DEF Entered, Moves
      <3> QED BY <3>1, <3>2, <2>1, <2>2, <2>3, <1>3
    <2>4. CASE home[v] # a
      <3>1. home[v] = b
            BY <2>4, <1>1 DEF RegistryOK
      <3>2. Entered(v)' <=> Entered(v)
            BY <3>1, <2>1 DEF Entered, Moves, SameUsers
      <3>3. Known(b, v)' <=> Known(b, v)
            BY <1>5
      <3> QED BY <3>1, <3>2, <3>3, <2>1, <2>2
    <2> QED BY <2>3, <2>4
  <1> HIDE DEF b
  <1> QED BY <1>1, <1>3, <1>7, <1>8, <1>9, <1>10 DEF Orderly

\* The peer of his server renames him first.
LEMMA MovesFirst ==
  ASSUME RegistryOK, Orderly, Agree, NEW u \in User, NEW old \in Nick, NEW new \in Nick,
         Moves(Peer(home[u]), u, old, new),
         table[home[u]][old] = u, table[home[u]][new] = Nobody, UNCHANGED <<channels, apart>>
  PROVE  Renaming(u, new)'
  <1> DEFINE s == home[u]
             p == Peer(s)
  <1>1. s \in Server /\ p \in Server /\ Peer(p) = s
        BY Pairs DEF RegistryOK
  <1>2. home' = home /\ table'[s] = table[s] /\ nick'[s] = nick[s]
        BY <1>1 DEF Moves, SameUsers
  <1>3. nick[s][u] = old /\ Known(s, u)
        BY <1>1, NoneAssumption DEF Orderly, OwnNick, Known
  <1>4. Known(s, u)'
        BY <1>2, <1>3 DEF Known
  <1>5. \A m \in Nick : table[p][m] = table[s][m]
        BY <1>1 DEF Agree, TablesAgree
  <1>6. \A m \in Nick : table'[p][m] = IF m = new THEN u ELSE IF m = old THEN Nobody ELSE table[s][m]
        BY <1>5 DEF Moves
  <1>7. AgreeIn(Shown)'
        BY DEF Agree, AgreeIn, Shown, channels
  <1> HIDE DEF s, p
  <1> QED BY <1>2, <1>3, <1>4, <1>6, <1>7 DEF Renaming, s, p

\* His own server follows.
LEMMA MovesNext ==
  ASSUME RegistryOK, NEW u \in User, NEW new \in Nick, Renaming(u, new),
         Moves(home[u], u, nick[home[u]][u], new), UNCHANGED <<channels, apart>>
  PROVE  Agree'
  <1> DEFINE s == home[u]
             p == Peer(s)
             old == nick[s][u]
  <1>1. s \in Server /\ Shown' = Shown
        BY DEF RegistryOK, Shown
  <1>2. table'[p] = table[p]
        BY DEF Moves, SameUsers
  <1>3. \A m \in Nick : table[p][m] = IF m = new THEN u ELSE IF m = old THEN Nobody ELSE table[s][m]
        BY DEF Renaming
  <1>4. table'[s][new] = u /\ table'[s][old] = Nobody
        BY DEF Moves
  <1>5. \A m \in Nick \ {old, new} : table'[s][m] = table[s][m]
        BY DEF Moves
  <1>6. \A m \in Nick : table'[s][m] = table'[p][m]
        BY <1>2, <1>3, <1>4, <1>5
  <1>7. \A c \in Shown' : /\ on'[s][c] = on'[p][c] /\ ops'[s][c] = ops'[p][c]
                          /\ c \in made'[s] <=> c \in made'[p]
        BY <1>1 DEF Renaming, AgreeIn, channels
  <1> QED BY <1>1, <1>6, <1>7, AgreeAt

-----------------------------------------------------------------------------
(* The loops of a command. *)

LEMMA ChecksGoOn ==
  ASSUME NEW u \in User, NEW r \in Seq(Steps), Checks(u, r)', Unchecked(u, r)', Agree'
  PROVE  Course(u, r)'
  <1> DEFINE s == home'[u]
             n == Len(r)
  <1>1. /\ r # <<>> /\ r[n] = Do(s, "Cycle", <<u>>) /\ n \in Nat /\ n >= 1
        /\ \A i \in 1..(n - 1) : \E c \in Channel : r[i] = Do(s, "CheckModes", <<u, c>>)
    <2>1. r # <<>> /\ n \in Nat /\ n >= 1
          BY DEF Checks
    <2> QED BY <2>1 DEF Checks, Check
  <1>2. /\ Head(r) = r[1] /\ Tail(r) \in Seq(Steps) /\ Len(Tail(r)) = n - 1
        /\ \A i \in 1..(n - 1) : Tail(r)[i] = r[i + 1]
        BY <1>1
  <1>6. (n = 1 => Tail(r) = <<>>) /\ (n > 1 => Tail(r) # <<>>)
    <2> DEFINE q == Tail(r)
    <2>1. q \in Seq(Steps) /\ Len(q) = n - 1
          BY <1>2
    <2> HIDE DEF n, q
    <2>2. (Len(q) = 0 => q = <<>>) /\ (Len(q) > 0 => q # <<>>)
          BY <2>1
    <2> QED BY <2>1, <2>2, <1>1 DEF q
  <1>3. \A c \in Shown' : u \in ops'[s][c] =>
          \E i \in 1..n : r[i] = Do(s, "CheckModes", <<u, c>>)
        BY DEF Unchecked, Check
  <1> HIDE DEF n
  <1>4. CASE n = 1
    <2>1. r[1] = Do(s, "Cycle", <<u>>) /\ Tail(r) = <<>>
          BY <1>1, <1>4, <1>6
    <2>4. r[1].do = "Cycle" /\ r[1].at = s
          BY <2>1 DEF Do
    <2>2. Unmoded(u)'
      <3>1. \A c \in Channel : Do(s, "CheckModes", <<u, c>>).do = "CheckModes"
            BY DEF Do
      <3>2. \A i \in 1..n : i = 1
            BY <1>4
      <3>3. Shown' \subseteq Channel
            BY DEF Shown
      <3> QED BY <3>1, <3>2, <3>3, <2>4, <1>3 DEF Unmoded
    <2>3. BeforeCycle(u, Head(r), Tail(r))'
          BY <2>1, <2>2, <2>4, <1>2 DEF BeforeCycle
    <2> QED BY <2>3, <2>4, <1>1, <1>2 DEF Course, Before
  <1>5. CASE n > 1
    <2>0. 1 \in 1..(n - 1)
          BY <1>1, <1>5
    <2>1. PICK c \in Channel : r[1] = Do(s, "CheckModes", <<u, c>>)
          BY <2>0, <1>1
    <2>2. r[1].do = "CheckModes" /\ r[1].of[2] = c
          BY <2>1 DEF Do
    <2>3. Tail(r)[n - 1] = r[n] /\ Tail(r) # <<>>
      <3>1. n - 1 \in 1..(n - 1) /\ (n - 1) + 1 = n
            BY <1>1, <1>5
      <3>2. Tail(r)[n - 1] = r[n]
            BY <3>1, <1>2
      <3>3. Tail(r) # <<>>
            BY <1>5, <1>6
      <3> QED BY <3>2, <3>3
    <2>4. \A i \in 1..(Len(Tail(r)) - 1) : \E d \in Channel :
            Tail(r)[i] = Do(s, "CheckModes", <<u, d>>)
      <3>1. \A i \in 1..(Len(Tail(r)) - 1) : i + 1 \in 1..(n - 1) /\ Tail(r)[i] = r[i + 1]
            BY <1>1, <1>2, <1>5
      <3> QED BY <3>1, <1>1
    <2>5. Checks(u, Tail(r))'
          BY <2>3, <2>4, <1>1, <1>2 DEF Checks, Check
    <2>6. ASSUME NEW d \in Shown', u \in ops'[s][d], d # c
          PROVE  \E i \in 1..Len(Tail(r)) : Tail(r)[i] = Do(s, "CheckModes", <<u, d>>)
      <3>1. PICK i \in 1..n : r[i] = Do(s, "CheckModes", <<u, d>>)
            BY <2>6, <1>3
      <3>2. r[i].of[2] = d
            BY <3>1 DEF Do
      <3>3. i # 1
            BY <3>2, <2>2, <2>6
      <3>4. i - 1 \in 1..(n - 1) /\ (i - 1) + 1 = i
            BY <3>3, <1>1
      <3>5. Tail(r)[i - 1] = r[i] /\ i - 1 \in 1..Len(Tail(r))
            BY <3>4, <1>2
      <3> QED BY <3>1, <3>5
    <2>7. BeforeCheckModes(u, Head(r), Tail(r))'
          BY <2>1, <2>2, <2>5, <2>6, <1>2 DEF BeforeCheckModes, Check
    <2> QED BY <2>2, <2>7, <1>1, <1>2 DEF Course, Before
  <1> QED BY <1>1, <1>4, <1>5

LEMMA TurnsGoOn ==
  ASSUME NEW u \in User, NEW r \in Seq(Steps), Turns(u, r)', r # <<>> => Unmoded(u)', Agree'
  PROVE  Course(u, r)'
  <1> DEFINE n == Len(r)
             Turn(s, c) == Do(s, "Cycle part", <<u, c>>)
             Here(s, c) == c \in Shown' => u \in on'[s][c]
  <1>3. PICK s : s = home'[u]
        OBVIOUS
  <1>1. CASE r = <<>>
        BY <1>1 DEF Course
  <1>2. CASE r # <<>>
    <2> DEFINE q == Tail(r)
    <2>1. n \in Nat /\ n >= 1
          BY <1>2
    <2>2. /\ Head(r) = r[1] /\ Len(q) = n - 1
          /\ \A i \in 1..(n - 1) : q[i] = r[i + 1]
          BY <1>2
    <2>3. \A i \in 1..n : \E c \in Channel :
            r[i] = Turn(s, c) /\ Here(s, c)
          BY <1>3 DEF Turns
    <2> HIDE DEF n, q, Turn, Here
    <2>4. 1 \in 1..n
          BY <2>1
    <2>5. PICK c \in Channel : r[1] = Turn(s, c) /\ Here(s, c)
          BY <2>3, <2>4
    <2>6. PICK x : x = r[1]
          OBVIOUS
    <2>7. x.do = "Cycle part" /\ x.at = s /\ x.of[1] = u /\ x.of[2] = c
      <3>1. x = Turn(s, c)
            BY <2>5, <2>6
      <3> QED BY <3>1 DEF Do, Turn
    <2>8. \A i \in 1..Len(q) : i + 1 \in 1..n /\ q[i] = r[i + 1]
          BY <2>1, <2>2
    <2>9. Turns(u, q)'
      <3>1. \A i \in 1..Len(q) : \E d \in Channel : q[i] = Turn(s, d) /\ Here(s, d)
            BY <2>3, <2>8
      <3> QED BY <3>1, <1>3 DEF Turns, Turn, Here
    <2>10. BeforeCyclePart(u, Head(r), q)'
          BY <2>2, <2>5, <2>6, <2>7, <2>9, <1>2, <1>3 DEF BeforeCyclePart, Here
    <2> QED BY <2>2, <2>6, <2>7, <2>10, <1>2 DEF Course, Before, q
  <1> QED BY <1>1, <1>2

LEMMA RejoinGoesOn ==
  ASSUME NEW u \in User, NEW c, NEW r, Rejoins(u, c, r)'
  PROVE  Course(u, r)'
  <1>1. BeforeSjoin(u, Head(r), Tail(r))'
        BY DEF Rejoins, BeforeSjoin
  <1> QED BY <1>1 DEF Rejoins, Course, Before

LEMMA TurnsStay ==
  ASSUME NEW u \in User, NEW t, Turns(u, t), home' = home, Shown' = Shown,
         on'[home[u]] = on[home[u]]
  PROVE  Turns(u, t)'
  BY DEF Turns

LEMMA UnmodedStays ==
  ASSUME NEW u \in User, Unmoded(u), home' = home, Shown' = Shown,
         ops'[home[u]] = ops[home[u]]
  PROVE  Unmoded(u)'
  BY DEF Unmoded

LEMMA NoTurns ==
  ASSUME NEW u
  PROVE  Turns(u, <<>>)'
  <1>1. 1..Len(<<>>) = {}
        OBVIOUS
  <1> QED BY <1>1 DEF Turns

-----------------------------------------------------------------------------
(* Commands of nicknames and ends. *)

LEMMA QuitAgrees ==
  ASSUME Inv, InCourse, MaxCommands = 1, NEW u \in User, Quit(u)
  PROVE  InCourse'
  <1>1. PICK x : x = Do(home[u], "Exit", <<u>>)
        OBVIOUS
  <1>2. Starts(u, <<x>>)
        BY <1>1 DEF Quit
  <1>3. /\ failed = {} /\ Orderly /\ Agree
        /\ todo'[u] = <<x>> /\ \A v \in User \ {u} : todo'[v] = <<>>
        BY <1>2, Idle
  <1>4. Orderly' /\ Agree' /\ failed' = {} /\ home' = home
        BY <1>3, SameOrder, SameAgree DEF Quit, sessions, registry
  <1>5. x.do = "Exit" /\ x.at = home[u] /\ x.of[1] = u
        BY <1>1 DEF Do
  <1>6. BeforeExit(u, x, <<>>)'
        BY <1>4, <1>5 DEF BeforeExit, Rest
  <1>7. Before(u, x, <<>>)'
        BY <1>5, <1>6 DEF Before
  <1> QED BY <1>3, <1>4, <1>7, FollowsOne

LEMMA NickPlainAgrees ==
  ASSUME Inv, InCourse, MaxCommands = 1, NEW u \in User, NEW n \in Nick, NickPlain(u, n)
  PROVE  InCourse'
  <1>1. PICK x : x = Do(home[u], "cmdNick", <<u, n>>)
        OBVIOUS
  <1>2. Starts(u, <<x>>)
        BY <1>1 DEF NickPlain
  <1>3. /\ failed = {} /\ Orderly /\ Agree /\ u \notin quit
        /\ todo'[u] = <<x>> /\ \A v \in User \ {u} : todo'[v] = <<>>
        BY <1>2, Idle
  <1>4. Orderly' /\ Agree' /\ failed' = {} /\ home' = home /\ quit' = quit
        BY <1>3, SameOrder, SameAgree DEF NickPlain, sessions, registry
  <1>5. x.do = "cmdNick" /\ x.at = home[u] /\ x.of[1] = u
        BY <1>1 DEF Do
  <1>6. BeforeCmdNick(u, x, <<>>)'
        BY <1>3, <1>4, <1>5 DEF BeforeCmdNick
  <1>7. Before(u, x, <<>>)'
        BY <1>5, <1>6 DEF Before
  <1> QED BY <1>3, <1>4, <1>7, FollowsOne

\* A server lets a user of the other one go, and tells it.
LEMMA SendsAway ==
  ASSUME Inv, NEW s \in Server, NEW h \in User, Orderly, Agree,
         Known(s, h), home[h] # s, MakeQuit(s, h), UNCHANGED <<quit, apart>>
  PROVE  /\ Orderly' /\ home' = home /\ h \notin quit' /\ home'[h] = Peer(s)
         /\ Without(Peer(Peer(s)), h)' /\ table'[Peer(s)][nick[s][h]] = h
  <1>1. Goes(s, h)
        BY MakeQuitGoes
  <1>2. Orderly'
        BY <1>1, GoesOrderly
  <1>3. /\ Without(s, h)' /\ table'[Peer(s)][nick[s][h]] = h /\ Known(Peer(s), h)
        BY <1>1, LeavesFirst
  <1>4. Peer(Peer(s)) = s /\ home[h] = Peer(s)
        BY Pairs DEF RegistryOK
  <1>5. h \notin quit
        BY <1>3, <1>4 DEF Orderly, SessionsAreKnown
  <1> QED BY <1>1, <1>2, <1>3, <1>4, <1>5 DEF Goes

LEMMA KillAgrees ==
  ASSUME Inv, InCourse, MaxCommands = 1, NEW u \in User, NEW v \in User, Kill(u, v)
  PROVE  InCourse'
  <1> DEFINE s == home[u]
  <1>1. s \in Server /\ Known(s, v) /\ UNCHANGED <<quit, failed, apart>>
        BY DEF RegistryOK, Kill, sessions
  <1>2. CASE Local(s, v)
    <2>1. PICK x : x = Do(s, "Exit", <<v>>)
          OBVIOUS
    <2>2. Starts(u, <<x>>) /\ UNCHANGED <<registry, channels>>
          BY <2>1, <1>2 DEF Kill
    <2>3. /\ failed = {} /\ Orderly /\ Agree
          /\ todo'[u] = <<x>> /\ \A w \in User \ {u} : todo'[w] = <<>>
          BY <2>2, Idle
    <2>4. Orderly' /\ Agree' /\ failed' = {} /\ home' = home
          BY <2>2, <2>3, <1>1, SameOrder, SameAgree DEF registry
    <2>5. x.do = "Exit" /\ x.at = home[v] /\ x.of[1] = v
          BY <2>1, <1>2 DEF Do, Local
    <2>6. BeforeExit(u, x, <<>>)'
          BY <2>4, <2>5 DEF BeforeExit, Rest
    <2>7. Before(u, x, <<>>)'
          BY <2>5, <2>6 DEF Before
    <2> QED BY <2>3, <2>4, <2>7, FollowsOne
  <1>3. CASE ~Local(s, v)
    <2>1. PICK p, n : p = Peer(s) /\ n = nick[s][v]
          OBVIOUS
    <2>2. PICK x : x = Do(p, "SKILL", <<n>>)
          OBVIOUS
    <2>3. Starts(u, <<x>>) /\ MakeQuit(s, v)
          BY <2>1, <2>2, <1>3 DEF Kill, Tell
    <2>4. /\ failed = {} /\ Orderly /\ Agree
          /\ todo'[u] = <<x>> /\ \A w \in User \ {u} : todo'[w] = <<>>
          BY <2>3, Idle
    <2>5. /\ Orderly' /\ v \notin quit' /\ home'[v] = p
          /\ Without(Peer(p), v)' /\ table'[p][n] = v
          BY <2>1, <2>3, <2>4, <1>1, <1>3, SendsAway DEF Local
    <2>6. x.do = "SKILL" /\ x.at = p /\ x.of[1] = n
          BY <2>2 DEF Do
    <2>7. BeforeQuit(u, x, <<>>)'
          BY <2>5, <2>6, NoneAssumption DEF BeforeQuit, Rest
    <2>8. Before(u, x, <<>>)'
          BY <2>6, <2>7 DEF Before
    <2> QED BY <2>4, <2>5, <2>8, <1>1, FollowsOne
  <1> QED BY <1>2, <1>3

LEMMA NickIdentifyAgrees ==
  ASSUME Inv, InCourse, MaxCommands = 1, NEW u \in User, NEW n \in Nick, NickIdentify(u, n)
  PROVE  InCourse'
  <1> DEFINE s == home[u]
             h == table[s][n]
  <1>1. /\ s \in Server /\ h \in User \cup {Nobody} /\ UNCHANGED <<quit, failed, apart>>
        /\ nick[s][u] # n
        BY DEF RegistryOK, NickIdentify, sessions
  <1>2. PICK x : x = Do(s, "cmdNick", <<u, n>>)
        OBVIOUS
  <1>3. Starts(u, GhostSteps(s, n) \o <<x>>)
        BY <1>2 DEF NickIdentify
  <1>4. failed = {} /\ Orderly /\ Agree /\ u \notin quit
        BY <1>3, Idle
  <1>5. home' = home => Rest(u, <<x>>)'
        BY <1>1, <1>2, <1>4 DEF Rest
  <1>6. CASE h = Nobody
    <2>1. GhostSteps(s, n) = <<>> /\ UNCHANGED <<registry, channels>>
          BY <1>6 DEF GhostSteps, NickIdentify, Ghost
    <2>2. Starts(u, <<x>>)
      <3>1. <<>> \o <<x>> = <<x>>
            OBVIOUS
      <3> QED BY <3>1, <2>1, <1>3
    <2>3. todo'[u] = <<x>> /\ \A w \in User \ {u} : todo'[w] = <<>>
          BY <2>2, Idle
    <2>4. Orderly' /\ Agree' /\ failed' = {} /\ home' = home
          BY <2>1, <1>1, <1>4, SameOrder, SameAgree DEF registry
    <2>5. x.do = "cmdNick" /\ x.at = home[u] /\ x.of[1] = u
          BY <1>2 DEF Do
    <2>6. BeforeCmdNick(u, x, <<>>)'
          BY <2>4, <2>5, <1>1, <1>4 DEF BeforeCmdNick
    <2>7. Before(u, x, <<>>)'
          BY <2>5, <2>6 DEF Before
    <2> QED BY <2>3, <2>4, <2>7, FollowsOne
  <1>7. ASSUME h # Nobody
        PROVE  h \in User /\ Known(s, h) /\ nick[s][h] = n /\ h # u
        BY <1>1, <1>4, <1>7, NoneAssumption DEF Orderly, OwnNick, Known
  <1>8. ASSUME NEW y, GhostSteps(s, n) = <<y>>
        PROVE  todo'[u] = <<y>> \o <<x>> /\ \A w \in User \ {u} : todo'[w] = <<>>
    <2>1. Starts(u, <<y>> \o <<x>>)
          BY <1>3, <1>8
    <2> QED BY <2>1, Idle
  <1>9. <<x>> \in Seq({x}) /\ <<x>> # <<>>
        OBVIOUS
  <1>10. CASE h # Nobody /\ Local(s, h)
    <2>1. PICK g : g = h
          OBVIOUS
    <2>2. PICK y : y = Do(s, "Exit", <<g>>)
          OBVIOUS
    <2>3. GhostSteps(s, n) = <<y>> /\ UNCHANGED <<registry, channels>>
          BY <2>1, <2>2, <1>10 DEF GhostSteps, NickIdentify, Ghost
    <2>4. Orderly' /\ Agree' /\ failed' = {} /\ home' = home
          BY <2>3, <1>1, <1>4, SameOrder, SameAgree DEF registry
    <2>5. y.do = "Exit" /\ y.at = s /\ y.of[1] = g
          BY <2>2 DEF Do
    <2>6. home[g] = s /\ g # u
          BY <2>1, <1>7, <1>10 DEF Local
    <2>7. BeforeExit(u, y, <<x>>)'
          BY <2>4, <2>5, <2>6, <1>5 DEF BeforeExit
    <2>8. Before(u, y, <<x>>)'
          BY <2>5, <2>7 DEF Before
    <2> QED BY <2>3, <2>4, <2>8, <1>8, <1>9, FollowsNext
  <1>11. CASE h # Nobody /\ ~Local(s, h)
    <2>1. PICK g, p : g = h /\ p = Peer(s)
          OBVIOUS
    <2>2. PICK y : y = Do(p, "QUIT", <<n>>)
          OBVIOUS
    <2>3. GhostSteps(s, n) = <<y>> /\ MakeQuit(s, h)
          BY <2>1, <2>2, <1>11 DEF GhostSteps, NickIdentify, Ghost, Tell
    <2>4. g \in User /\ Known(s, g) /\ nick[s][g] = n /\ g # u /\ home[g] # s /\ MakeQuit(s, g)
          BY <2>1, <2>3, <1>7, <1>11 DEF Local
    <2>5. /\ Orderly' /\ home' = home /\ g \notin quit' /\ home'[g] = p
          /\ Without(Peer(p), g)' /\ table'[p][n] = g
          BY <2>1, <2>4, <1>1, <1>4, SendsAway
    <2>6. y.do = "QUIT" /\ y.at = p /\ y.of[1] = n
          BY <2>2 DEF Do
    <2>7. BeforeQuit(u, y, <<x>>)'
          BY <2>4, <2>5, <2>6, <1>5, NoneAssumption DEF BeforeQuit
    <2>8. Before(u, y, <<x>>)'
          BY <2>6, <2>7 DEF Before
    <2> QED BY <2>3, <2>5, <2>8, <1>1, <1>4, <1>8, <1>9, FollowsNext
  <1> QED BY <1>6, <1>10, <1>11

-----------------------------------------------------------------------------
(* Commands of channels. *)

\* Who has his nickname and has not left is known on both servers.
LEMMA KnownOnBoth ==
  ASSUME RegistryOK, Orderly, TablesAgree, NEW s \in Server, NEW v \in User, Known(s, v)
  PROVE  nick[s][v] \in Nick /\ table[s][nick[s][v]] = v /\ table[Peer(s)][nick[s][v]] = v
  BY DEF RegistryOK, Known, TablesAgree

LEMMA JoinFreeAgrees ==
  ASSUME Inv, InCourse, MaxCommands = 1, NEW u \in User, NEW c \in Channel, JoinFree(u, c)
  PROVE  InCourse'
  <1> DEFINE s == home[u]
             b == Peer(s)
  <1>1. /\ s \in Server /\ Entered(u) /\ c \notin Registered /\ u \notin on[s][c]
        /\ UNCHANGED <<registry, quit, failed, apart>>
        BY DEF RegistryOK, JoinFree, sessions
  <1>2. PICK p, n, mode : p = b /\ n = nick[s][u] /\ mode = IF c \in made[s] THEN "x" ELSE "o"
        OBVIOUS
  <1>3. PICK x : x = Do(p, "SJOIN", <<n, c, mode>>)
        OBVIOUS
  <1>4. Starts(u, <<x>>)
    <2>1. CASE c \in made[s]
          BY <2>1, <1>2, <1>3 DEF JoinFree, Tell
    <2>2. CASE c \notin made[s]
          BY <2>2, <1>2, <1>3 DEF JoinFree, Tell
    <2> QED BY <2>1, <2>2
  <1>5. /\ failed = {} /\ Orderly /\ Agree /\ u \notin quit
        /\ todo'[u] = <<x>> /\ \A w \in User \ {u} : todo'[w] = <<>>
        BY <1>4, Idle
  <1>6. PICK O, P : O = on[s][c] \cup {u} /\ P = IF c \in made[s] THEN ops[s][c] ELSE {u}
        OBVIOUS
  <1>7. /\ on' = [on EXCEPT ![s][c] = O] /\ ops' = [ops EXCEPT ![s][c] = P]
        /\ made' = [made EXCEPT ![s] = made[s] \cup {c}]
    <2>1. on' = [on EXCEPT ![s][c] = O] /\ made' = [made EXCEPT ![s] = made[s] \cup {c}]
          BY <1>6 DEF JoinFree
    <2>2. ops' = [ops EXCEPT ![s][c] = P]
      <3>1. CASE c \in made[s]
        <4>1. ops' = ops /\ P = ops[s][c]
              BY <3>1, <1>6 DEF JoinFree
        <4>2. [ops EXCEPT ![s][c] = ops[s][c]] = ops
              BY <1>1 DEF ChannelsOK
        <4> QED BY <4>1, <4>2
      <3>2. CASE c \notin made[s]
            BY <3>2, <1>6 DEF JoinFree
      <3> QED BY <3>1, <3>2
    <2> QED BY <2>1, <2>2
  <1>8. OnlyIn(s, c) /\ on'[s][c] = O /\ ops'[s][c] = P
    <2>1. Sets(s, c, O, P)
          BY <1>1, <1>7 DEF Sets
    <2> QED BY <2>1, <1>1, SetIs
  <1>9. c \in made'[s]
        BY <1>1, <1>7 DEF ChannelsOK
  <1>10. Known(s, u) /\ table[s][n] = u /\ table[b][n] = u
        BY <1>1, <1>2, <1>5, KnownOnBoth DEF Orderly, SessionsAreKnown, Agree
  <1>11. Shown' = Shown
        BY <1>1 DEF Shown
  <1>12. c \in Shown => ops[s][c] \subseteq on[s][c] /\ \A v \in on[s][c] : Known(s, v)
        BY <1>1, <1>5 DEF Orderly, MembersAreKnown
  <1>13. c \in Shown => P \subseteq O /\ \A v \in O : Known(s, v)
        BY <1>6, <1>10, <1>12
  <1>14. Orderly'
        BY <1>1, <1>5, <1>8, <1>11, <1>13, OneChannelOrder
  <1>15. TablesAgree' /\ AgreeIn(Shown \ {c})'
    <2>1. AgreeIn(Shown \ {c})
          BY <1>5 DEF Agree, AgreeIn
    <2> QED BY <2>1, <1>1, <1>5, <1>8, OthersAgree, SameTables DEF Agree
  <1>16. c \in Shown => /\ on'[b][c] = on'[s][c] \ {u} /\ ops'[b][c] = ops'[s][c] \ {u}
                        /\ u \in on'[s][c] /\ (u \in ops'[s][c] <=> mode = "o")
    <2> SUFFICES ASSUME c \in Shown
                 PROVE  /\ on'[b][c] = on'[s][c] \ {u} /\ ops'[b][c] = ops'[s][c] \ {u}
                        /\ u \in on'[s][c] /\ (u \in ops'[s][c] <=> mode = "o")
        OBVIOUS
    <2>1. on'[b] = on[b] /\ ops'[b] = ops[b]
          BY <1>8 DEF OnlyIn, SameMembers
    <2>2. on[b][c] = on[s][c] /\ ops[b][c] = ops[s][c]
          BY <1>1, <1>5 DEF Agree, AgreeIn
    <2>3. u \notin ops[s][c]
          BY <1>1, <1>12
    <2>4. c \notin made[s] => ops[s][c] = {}
          BY <1>1 DEF ChannelsOK
    <2>5. on[s][c] = O \ {u}
          BY <1>1, <1>6
    <2>6. CASE c \in made[s]
      <3>1. P = ops[s][c] /\ ops[s][c] \ {u} = ops[s][c] /\ mode = "x"
            BY <2>3, <2>6, <1>2, <1>6
      <3> QED BY <3>1, <2>1, <2>2, <2>3, <2>5, <1>6, <1>8
    <2>7. CASE c \notin made[s]
      <3>1. P = {u} /\ P \ {u} = {} /\ mode = "o"
            BY <2>7, <1>2, <1>6
      <3> QED BY <3>1, <2>1, <2>2, <2>4, <2>5, <2>7, <1>6, <1>8
    <2> QED BY <2>6, <2>7
  <1>17. Peer(p) = s /\ home' = home /\ table' = table
        BY <1>1, <1>2, Pairs DEF registry
  <1>18. Joining(p, n, c, u, mode)'
    <2>1. c \in Shown' => Outside(p, c, u)' /\ table'[p][n] = u
          BY <1>2, <1>9, <1>10, <1>11, <1>16, <1>17 DEF Outside
    <2>2. c \in Shown' => (u \in ops'[Peer(p)][c] <=> mode = "o")
          BY <1>11, <1>16, <1>17
    <2> QED BY <2>1, <2>2, <1>15 DEF Joining
  <1>19. x.do = "SJOIN" /\ x.at = p /\ x.of[1] = n /\ x.of[2] = c /\ x.of[3] = mode
        BY <1>3 DEF Do
  <1>20. BeforeSjoin(u, x, <<>>)'
    <2>1. Turns(u, <<>>)'
          BY NoTurns
    <2> QED BY <2>1, <1>2, <1>17, <1>18, <1>19 DEF BeforeSjoin
  <1>21. Before(u, x, <<>>)'
        BY <1>19, <1>20 DEF Before
  <1> QED BY <1>1, <1>5, <1>14, <1>21, FollowsOne

LEMMA JoinRegisteredAgrees ==
  ASSUME Inv, InCourse, MaxCommands = 1, NEW u \in User, NEW c \in Channel, JoinRegistered(u, c)
  PROVE  InCourse'
  <1> DEFINE s == home[u]
  <1>1. /\ s \in Server /\ UNCHANGED <<registry, quit, failed>> /\ apart' = apart \cup {c}
        BY DEF RegistryOK, JoinRegistered, sessions
  <1>2. PICK x : x = Do(s, "CheckModes", <<u, c>>)
        OBVIOUS
  <1>3. Starts(u, <<x>>)
        BY <1>2 DEF JoinRegistered
  <1>4. /\ failed = {} /\ Orderly /\ Agree
        /\ todo'[u] = <<x>> /\ \A w \in User \ {u} : todo'[w] = <<>>
        BY <1>3, Idle
  <1>5. OnlyIn(s, c)
    <2>1. PICK O, P : O = on[s][c] \cup {u} /\ P = ops[s][c]
          OBVIOUS
    <2>2. /\ on' = [on EXCEPT ![s][c] = O]
          /\ made' = [made EXCEPT ![s] = made[s] \cup {c}]
          BY <2>1 DEF JoinRegistered
    <2>3. ops' = [ops EXCEPT ![s][c] = P]
          BY <2>1 DEF JoinRegistered, ChannelsOK
    <2>4. Sets(s, c, O, P)
          BY <2>2, <2>3, <1>1 DEF Sets
    <2> QED BY <2>4, <1>1, SetIs
  <1>6. Agree' /\ Shown' \subseteq Shown /\ c \notin Shown'
        BY <1>1, <1>4, <1>5, Forgotten
  <1>7. Orderly'
        BY <1>1, <1>4, <1>5, <1>6, OneChannelOrder
  <1>8. x.do = "CheckModes" /\ x.of[2] = c
        BY <1>2 DEF Do
  <1>9. x = Check(u, c)'
        BY <1>1, <1>2 DEF Check, registry
  <1>10. BeforeCheckModes(u, x, <<>>)'
        BY <1>6, <1>8, <1>9 DEF BeforeCheckModes
  <1>11. Before(u, x, <<>>)'
        BY <1>8, <1>10 DEF Before
  <1> QED BY <1>1, <1>4, <1>7, <1>11, FollowsOne

LEMMA PartAgrees ==
  ASSUME Inv, InCourse, MaxCommands = 1, NEW u \in User, NEW c \in Channel, Part(u, c)
  PROVE  InCourse'
  <1> DEFINE s == home[u]
  <1>1. /\ s \in Server /\ u \in on[s][c]
        /\ UNCHANGED <<registry, channels, quit, failed, apart>>
        BY DEF RegistryOK, Part, sessions
  <1>2. PICK p, n : p = Peer(s) /\ n = nick[s][u]
        OBVIOUS
  <1>3. PICK x : x = Do(p, "SPART", <<n, c>>)
        OBVIOUS
  <1>4. PICK y : y = Do(s, "part", <<u, c>>)
        OBVIOUS
  <1>5. Starts(u, <<x, y>>)
        BY <1>2, <1>3, <1>4 DEF Part, Tell
  <1>6. /\ failed = {} /\ Orderly /\ Agree
        /\ todo'[u] = <<x, y>> /\ \A w \in User \ {u} : todo'[w] = <<>>
        BY <1>5, Idle
  <1>7. Orderly' /\ Agree' /\ failed' = {}
        BY <1>1, <1>6, SameOrder, SameAgree
  <1>8. c \in Shown => table[p][n] = u
    <2>1. c \in Shown => Known(s, u)
          BY <1>1, <1>6 DEF Orderly, MembersAreKnown
    <2> QED BY <2>1, <1>1, <1>2, <1>6, KnownOnBoth DEF Agree
  <1>9. x.do = "SPART" /\ x.at = p /\ x.of[1] = n /\ x.of[2] = c
        BY <1>3 DEF Do
  <1>10. /\ home' = home /\ table' = table /\ on' = on /\ Shown' = Shown
        BY <1>1 DEF registry, channels, Shown
  <1>11. BeforeSpart(u, x, <<y>>)'
        BY <1>1, <1>2, <1>4, <1>7, <1>8, <1>9, <1>10 DEF BeforeSpart
  <1>12. Before(u, x, <<y>>)'
        BY <1>9, <1>11 DEF Before
  <1>13. <<x, y>> = <<x>> \o <<y>> /\ <<y>> \in Seq({y})
        OBVIOUS
  <1> QED BY <1>6, <1>7, <1>12, <1>13, FollowsNext

LEMMA ModeAgrees ==
  ASSUME Inv, InCourse, MaxCommands = 1, NEW u \in User, NEW v \in User, NEW c \in Channel,
         NEW sign \in {"+o", "-o"}, Mode(u, v, c, sign)
  PROVE  InCourse'
  <1> DEFINE s == home[u]
  <1>1. /\ s \in Server /\ v \in on[s][c] /\ Known(s, v)
        /\ UNCHANGED <<registry, channels, quit, failed, apart>>
        BY DEF RegistryOK, Mode, sessions
  <1>2. PICK p, n : p = Peer(s) /\ n = nick[s][v]
        OBVIOUS
  <1>3. PICK x : x = Do(p, "CMODE", <<c, sign, n>>)
        OBVIOUS
  <1>4. PICK y : y = Do(s, "mode", <<c, sign, v>>)
        OBVIOUS
  <1>5. Starts(u, <<x, y>>)
        BY <1>2, <1>3, <1>4 DEF Mode, Tell
  <1>6. /\ failed = {} /\ Orderly /\ Agree
        /\ todo'[u] = <<x, y>> /\ \A w \in User \ {u} : todo'[w] = <<>>
        BY <1>5, Idle
  <1>7. Orderly' /\ Agree' /\ failed' = {}
        BY <1>1, <1>6, SameOrder, SameAgree
  <1>8. table[p][n] = v
        BY <1>1, <1>2, <1>6, KnownOnBoth DEF Agree
  <1>9. x.do = "CMODE" /\ x.at = p /\ x.of[1] = c /\ x.of[2] = sign /\ x.of[3] = n
        BY <1>3 DEF Do
  <1>10. home' = home /\ table' = table /\ on' = on
        BY <1>1 DEF registry, channels
  <1>11. BeforeCmode(u, x, <<y>>)'
        BY <1>1, <1>2, <1>4, <1>7, <1>8, <1>9, <1>10 DEF BeforeCmode
  <1>12. Before(u, x, <<y>>)'
        BY <1>9, <1>11 DEF Before
  <1>13. <<x, y>> = <<x>> \o <<y>> /\ <<y>> \in Seq({y})
        OBVIOUS
  <1> QED BY <1>6, <1>7, <1>12, <1>13, FollowsNext

LEMMA KickAgrees ==
  ASSUME Inv, InCourse, MaxCommands = 1, NEW u \in User, NEW v \in User, NEW c \in Channel,
         Kick(u, v, c)
  PROVE  InCourse'
  <1> DEFINE s == home[u]
  <1>1. /\ s \in Server /\ Entered(u) /\ u \in ops[s][c] /\ v \in on[s][c] /\ Known(s, v)
        /\ RemoveUser(s, v, {c}) /\ UNCHANGED <<registry, made, quit, failed>>
        BY DEF RegistryOK, Kick, sessions
  <1>2. /\ OnlyIn(s, c) /\ on'[s][c] = on[s][c] \ {v} /\ ops'[s][c] = ops[s][c] \ {v}
        /\ made' = made
        BY <1>1, RemoveOne
  <1>3. PICK p, n, m : p = Peer(s) /\ n = nick[s][u] /\ m = nick[s][v]
        OBVIOUS
  <1>4. PICK x : x = Do(p, "SKICK", <<n, c, m>>)
        OBVIOUS
  <1>5. ASSUME Orderly
        PROVE  c \in Shown => /\ ops'[s][c] \subseteq on'[s][c]
                              /\ \A w \in on'[s][c] : Known(s, w)
                              /\ c \in Registered => on'[s][c] = {}
        BY <1>1, <1>2, <1>5 DEF Orderly, MembersAreKnown
  <1>6. CASE Starts(u, <<x>>) /\ UNCHANGED apart
    <2>1. /\ failed = {} /\ Orderly /\ Agree /\ u \notin quit
          /\ todo'[u] = <<x>> /\ \A w \in User \ {u} : todo'[w] = <<>>
          BY <1>6, Idle
    <2>2. Shown' = Shown
          BY <1>6 DEF Shown
    <2>3. Orderly'
          BY <2>1, <2>2, <1>1, <1>2, <1>5, OneChannelOrder
    <2>4. TablesAgree' /\ AgreeIn(Shown \ {c})'
      <3>1. AgreeIn(Shown \ {c})
            BY <2>1 DEF Agree, AgreeIn
      <3>2. UNCHANGED registry /\ UNCHANGED apart /\ TablesAgree
            BY <2>1, <1>1, <1>6 DEF Agree
      <3>3. TablesAgree'
            BY <3>2, SameTables
      <3>4. AgreeIn(Shown \ {c})'
            BY <3>1, <3>2, <1>1, <1>2, OthersAgree
      <3> QED BY <3>3, <3>4
    <2>5. table[p][n] = u /\ table[p][m] = v
      <3>1. Known(s, u)
            BY <2>1, <1>1 DEF Orderly, SessionsAreKnown
      <3> QED BY <3>1, <2>1, <1>1, <1>3, KnownOnBoth DEF Agree
    <2>6. p \in Server /\ Peer(p) = s /\ home' = home /\ table' = table
          BY <1>1, <1>3, Pairs DEF registry
    <2>7. c \in Shown => /\ on[p][c] = on[s][c] /\ ops[p][c] = ops[s][c]
                         /\ c \in made[p] /\ c \in made[s]
      <3>1. c \in made[s]
            BY <1>1 DEF ChannelsOK
      <3> QED BY <3>1, <2>1, <1>1, <1>3 DEF Agree, AgreeIn
    <2>8. on'[p] = on[p] /\ ops'[p] = ops[p]
          BY <1>2, <1>3 DEF OnlyIn, SameMembers
    <2>9. Kicked(p, n, c, m)'
          BY <2>2, <2>4, <2>5, <2>6, <2>7, <2>8, <1>2, NoneAssumption DEF Kicked
    <2>10. x.do = "SKICK" /\ x.at = p /\ x.of[1] = n /\ x.of[2] = c /\ x.of[3] = m
          BY <1>4 DEF Do
    <2>11. BeforeSkick(u, x, <<>>)'
          BY <2>6, <2>9, <2>10, <1>3 DEF BeforeSkick
    <2>12. Before(u, x, <<>>)'
          BY <2>10, <2>11 DEF Before
    <2> QED BY <2>1, <2>3, <2>12, <1>1, FollowsOne
  <1>7. CASE Starts(u, <<>>) /\ apart' = apart \cup {c}
    <2>1. PICK q : q = <<>>
          OBVIOUS
    <2>2. /\ failed = {} /\ Orderly /\ Agree
          /\ todo'[u] = q /\ \A w \in User \ {u} : todo'[w] = <<>>
          BY <2>1, <1>7, Idle
    <2>3. Agree' /\ Shown' \subseteq Shown /\ c \notin Shown'
          BY <2>2, <1>1, <1>2, <1>7, Forgotten
    <2>4. Orderly'
          BY <2>2, <2>3, <1>1, <1>2, OneChannelOrder
    <2>5. Course(u, q)'
          BY <2>1, <2>3 DEF Course
    <2> QED BY <2>2, <2>4, <2>5, <1>1, Follows
  <1>8. \/ Starts(u, <<x>>) /\ UNCHANGED apart
        \/ Starts(u, <<>>) /\ apart' = apart \cup {c}
        BY <1>3, <1>4 DEF Kick, Tell
  <1> QED BY <1>6, <1>7, <1>8

-----------------------------------------------------------------------------
(* How a step goes on: with what was left, or with its own steps first. *)

LEMMA StepEnds ==
  ASSUME TodoOK, NEW u \in User, NEW x, NEW r \in Seq(Steps), Under(u, x, r), Then(u, <<>>),
         failed' = failed, Orderly', Course(u, r)'
  PROVE  InCourse'
  <1>1. todo'[u] = <<>> \o r /\ \A v \in User \ {u} : todo'[v] = <<>>
        BY OnlyThis
  <1>2. <<>> \o r = r
        OBVIOUS
  <1>3. failed' = {}
        BY DEF Under
  <1> QED BY <1>1, <1>2, <1>3, Follows

LEMMA StepSends ==
  ASSUME TodoOK, NEW u \in User, NEW x, NEW r \in Seq(Steps), Under(u, x, r), NEW y,
         Then(u, <<y>>), failed' = failed, Orderly', Before(u, y, r)'
  PROVE  InCourse'
  <1>1. todo'[u] = <<y>> \o r /\ \A v \in User \ {u} : todo'[v] = <<>>
        BY OnlyThis
  <1>2. failed' = {}
        BY DEF Under
  <1> QED BY <1>1, <1>2, FollowsNext

LEMMA StepSendsTwo ==
  ASSUME TodoOK, NEW u \in User, NEW x, NEW r \in Seq(Steps), Under(u, x, r), NEW y, NEW z,
         Then(u, <<y, z>>), failed' = failed, Orderly', Before(u, y, <<z>> \o r)'
  PROVE  InCourse'
  <1>1. todo'[u] = <<y, z>> \o r /\ \A v \in User \ {u} : todo'[v] = <<>>
        BY OnlyThis
  <1>2. failed' = {}
        BY DEF Under
  <1> QED BY <1>1, <1>2, FollowsTwo

\* A command may end here when the servers agree.
LEMMA NothingLeft ==
  ASSUME NEW u, Agree'
  PROVE  Course(u, <<>>)'
  BY DEF Course

LEMMA OneLeft ==
  ASSUME NEW u, NEW y, Before(u, y, <<>>)'
  PROVE  Course(u, <<y>>)'
  <1> DEFINE q == <<y>>
  <1>1. q # <<>> /\ Head(q) = y /\ Tail(q) = <<>>
        OBVIOUS
  <1> HIDE DEF q
  <1>2. Course(u, q)'
        BY <1>1 DEF Course
  <1> QED BY <1>2 DEF q

LEMMA JustOne ==
  ASSUME NEW z
  PROVE  /\ <<z>> \o <<>> = <<z>> /\ <<z>> # <<>>
         /\ Head(<<z>>) = z /\ Tail(<<z>>) = <<>>
  OBVIOUS

\* What was sent first and what is left after it.
LEMMA OneMore ==
  ASSUME NEW z, NEW r \in Seq(Steps)
  PROVE  <<z>> \o r # <<>> /\ Head(<<z>> \o r) = z /\ Tail(<<z>> \o r) = r
  <1> DEFINE S == Steps \cup {z}
  <1>1. r \in Seq(S) /\ z \in S
        OBVIOUS
  <1> HIDE DEF S
  <1> QED BY <1>1

-----------------------------------------------------------------------------
(* The steps of a nickname. *)

LEMMA CmdNickAgrees ==
  ASSUME Inv, InCourse, NEW u \in User, NEW s, CmdNick(u, s)
  PROVE  InCourse'
  <1>1. PICK x \in Good(u), r \in Seq(Steps) :
               Under(u, x, r) /\ x \in Steps /\ x.at = s /\ x.do = "cmdNick" /\ s \in Server
        BY UnderWay DEF CmdNick
  <1>2. PICK n : n = x.of[2]
        OBVIOUS
  <1>3. /\ Orderly /\ BeforeCmdNick(u, x, r)
        BY <1>1 DEF Under, Before
  <1>4. Agree /\ r = <<>> /\ u \notin quit /\ s = home[u] /\ n \in Nick
        BY <1>1, <1>2, <1>3, StepArgs DEF BeforeCmdNick
  <1>5. Arg(u)[2] = n
        BY <1>1, <1>2 DEF Arg, Under
  <1>6. UNCHANGED <<channels, quit, failed, apart>>
        BY DEF CmdNick, sessions
  <1>7. CASE table[s][n] # Nobody
    <2>1. Then(u, <<>>) /\ UNCHANGED registry
          BY <1>5, <1>7 DEF CmdNick
    <2>2. Orderly' /\ Agree'
          BY <2>1, <1>3, <1>4, <1>6, SameOrder, SameAgree
    <2>3. Course(u, r)'
          BY <2>2, <1>4, NothingLeft
    <2> QED BY <2>1, <2>2, <2>3, <1>1, <1>6, StepEnds
  <1>8. CASE table[s][n] = Nobody /\ Entered(u)
    <2>1. PICK p, old : p = Peer(s) /\ old = nick[s][u]
          OBVIOUS
    <2>2. PICK y : y = Do(p, "NICK", <<old, n>>)
          OBVIOUS
    <2>3. PICK z : z = Do(s, "rename", <<u, n>>)
          OBVIOUS
    <2>4. Then(u, <<y, z>>) /\ UNCHANGED registry
          BY <2>1, <2>2, <2>3, <1>5, <1>8 DEF CmdNick, Tell
    <2>5. Orderly' /\ Agree' /\ home' = home /\ table' = table
          BY <2>4, <1>3, <1>4, <1>6, SameOrder, SameAgree DEF registry
    <2>6. table[s][old] = u
          BY <2>1, <1>3, <1>4, <1>8 DEF Orderly, SessionsAreKnown, Known
    <2>7. <<z>> \o r = <<z>>
          BY <1>4, JustOne
    <2>8. y.do = "NICK" /\ y.at = p /\ y.of[1] = old /\ y.of[2] = n
          BY <2>2 DEF Do
    <2>9. BeforeNick(u, y, <<z>>)'
          BY <2>1, <2>3, <2>5, <2>6, <2>8, <1>4, <1>8 DEF BeforeNick
    <2>10. Before(u, y, <<z>>)'
          BY <2>8, <2>9 DEF Before
    <2> QED BY <2>4, <2>5, <2>7, <2>10, <1>1, <1>6, StepSendsTwo
  <1>9. CASE table[s][n] = Nobody /\ ~Entered(u)
    <2>1. PICK p : p = Peer(s)
          OBVIOUS
    <2>2. PICK y : y = Do(p, "SNICK", <<n, u>>)
          OBVIOUS
    <2>3. Then(u, <<y>>) /\ AddUser(s, u, n)
          BY <2>1, <2>2, <1>5, <1>9 DEF CmdNick, Tell
    <2>4. nick[s][u] = NoNick /\ \A m \in Nick : table[s][m] # u
          BY <1>1, <1>4, <1>9, NoneAssumption DEF Entered, RegistryOK
    <2>5. Enters(s, u, n)
          BY <2>3, <1>1, <1>4, AddUserEnters
    <2>6. UNCHANGED <<channels, quit, apart>> /\ UNCHANGED <<channels, apart>> /\ (home[u] = s => u \notin quit)
          BY <1>4, <1>6
    <2>7. Orderly' /\ Known(s, u)'
          BY <2>4, <2>5, <2>6, <1>1, <1>3, <1>4, <1>9, EntersOrderly
    <2>8. /\ Without(p, u)'
          /\ \A c \in Shown' : u \notin on'[s][c]
          BY <2>1, <2>4, <2>5, <2>6, <2>7, <1>1, <1>3, <1>4, <1>9, EntersFirst
    <2>9. home' = home /\ table'[s][n] = u
          BY <2>5 DEF Enters
    <2>10. y.do = "SNICK" /\ y.at = p /\ y.of[1] = n /\ y.of[2] = u
          BY <2>2 DEF Do
    <2>11. BeforeSnick(u, y, r)'
          BY <2>1, <2>8, <2>9, <2>10, <1>4 DEF BeforeSnick
    <2>12. Before(u, y, r)'
          BY <2>10, <2>11 DEF Before
    <2> QED BY <2>3, <2>7, <2>12, <1>1, <1>6, StepSends
  <1> QED BY <1>7, <1>8, <1>9

LEMMA SnickAgrees ==
  ASSUME Inv, InCourse, NEW u \in User, NEW s, Snick(u, s)
  PROVE  InCourse'
  <1>1. PICK x \in Good(u), r \in Seq(Steps) :
               Under(u, x, r) /\ x \in Steps /\ x.at = s /\ x.do = "SNICK" /\ s \in Server
        BY UnderWay DEF Snick
  <1>2. PICK n, b : n = x.of[1] /\ b = home[u]
        OBVIOUS
  <1>3. Orderly /\ BeforeSnick(u, x, r)
        BY <1>1 DEF Under, Before
  <1>4. /\ n \in Nick /\ r = <<>> /\ b \in Server /\ s = Peer(b) /\ b = Peer(s) /\ b # s
        /\ x.of[2] = u /\ Without(s, u) /\ table[b][n] = u
        /\ \A c \in Shown : u \notin on[b][c]
        BY <1>1, <1>2, <1>3, StepArgs, Pairs DEF BeforeSnick, RegistryOK
  <1>5. Arg(u)[1] = n /\ Arg(u)[2] = u
        BY <1>1, <1>2, <1>4 DEF Arg, Under
  <1>6. UNCHANGED <<channels, quit, failed, apart>>
        BY DEF Snick, sessions
  <1>7. nick[b][u] = n /\ \A m \in Nick : table[b][m] = u => m = n
        BY <1>3, <1>4, NoneAssumption DEF Orderly, OwnNick
  <1>8. \A m \in Nick : table[s][m] = IF m = n THEN Nobody ELSE table[b][m]
        BY <1>4, <1>7 DEF Without
  <1>9. table[s][n] = Nobody /\ \A m \in Nick : table[s][m] # u
        BY <1>4, <1>7, <1>8, NoneAssumption
  <1>10. Then(u, <<>>) /\ AddUser(s, u, n)
        BY <1>5, <1>9 DEF Snick
  <1>11. Enters(s, u, n)
        BY <1>1, <1>4, <1>10, AddUserEnters
  <1>12. UNCHANGED <<channels, quit, apart>> /\ UNCHANGED <<channels, apart>> /\ (home[u] = s => u \notin quit)
        BY <1>2, <1>4, <1>6
  <1>13. Orderly'
        BY <1>1, <1>3, <1>4, <1>9, <1>11, <1>12, EntersOrderly
  <1>14. Agree'
        BY <1>1, <1>3, <1>4, <1>7, <1>11, <1>12, EntersNext
  <1>15. Course(u, r)'
        BY <1>4, <1>14, NothingLeft
  <1> QED BY <1>1, <1>6, <1>10, <1>13, <1>15, StepEnds

LEMMA ServerNickAgrees ==
  ASSUME Inv, InCourse, NEW u \in User, NEW s, ServerNick(u, s)
  PROVE  InCourse'
  <1>1. PICK x \in Good(u), r \in Seq(Steps) :
               Under(u, x, r) /\ x \in Steps /\ x.at = s /\ x.do = "NICK" /\ s \in Server
        BY UnderWay DEF ServerNick
  <1>2. PICK old, new, b : old = x.of[1] /\ new = x.of[2] /\ b = home[u]
        OBVIOUS
  <1>3. PICK z : z = Do(b, "rename", <<u, new>>)
        OBVIOUS
  <1>4. Orderly /\ BeforeNick(u, x, r)
        BY <1>1 DEF Under, Before
  <1>5. /\ old \in Nick /\ new \in Nick /\ r = <<z>> /\ b \in Server /\ s = Peer(b) /\ b = Peer(s)
        /\ Agree /\ table[b][old] = u /\ table[b][new] = Nobody
        BY <1>1, <1>2, <1>3, <1>4, StepArgs, Pairs DEF BeforeNick, RegistryOK
  <1>6. Arg(u)[1] = old /\ Arg(u)[2] = new
        BY <1>1, <1>2 DEF Arg, Under
  <1>7. UNCHANGED <<home, channels, quit, failed, apart>>
        BY DEF ServerNick, sessions
  <1>8. table[s][old] = u /\ table[s][new] = Nobody
        BY <1>5 DEF Agree, TablesAgree
  <1>9. Changeable(s, old, new)
        BY <1>8, NoneAssumption DEF Changeable
  <1>10. /\ table' = Moved(s, old, new) /\ nick' = [nick EXCEPT ![s][table[s][old]] = new]
         /\ Then(u, <<>>)
        BY <1>6, <1>9 DEF ServerNick
  <1>11. Moves(s, u, old, new)
        BY <1>1, <1>5, <1>7, <1>8, <1>10, MovedMoves
  <1>12. Moves(Peer(home[u]), u, old, new) /\ table[home[u]][old] = u /\ table[home[u]][new] = Nobody
        BY <1>2, <1>5, <1>11
  <1>13. UNCHANGED <<channels, quit, apart>> /\ UNCHANGED <<channels, apart>>
        BY <1>7
  <1>14. Orderly'
        BY <1>1, <1>4, <1>5, <1>8, <1>11, <1>13, MovesOrderly
  <1>15. Renaming(u, new)'
        BY <1>4, <1>5, <1>12, <1>13, MovesFirst
  <1>16. z.do = "rename" /\ z.at = b /\ z.of[1] = u /\ z.of[2] = new
        BY <1>3 DEF Do
  <1>17. BeforeRename(u, z, <<>>)'
        BY <1>2, <1>7, <1>15, <1>16 DEF BeforeRename
  <1>18. Before(u, z, <<>>)'
        BY <1>16, <1>17 DEF Before
  <1>19. Course(u, r)'
        BY <1>5, <1>18, OneLeft
  <1> QED BY <1>1, <1>7, <1>10, <1>14, <1>19, StepEnds

\* A channel of the user has its turn.
LEMMA AllInOrder ==
  ASSUME NEW C \in SUBSET Channel, NEW his \in SetToSeqs(C), NEW c \in C
  PROVE  \E i \in 1..Len(his) : his[i] = c
  <1> DEFINE D == 1 .. Cardinality(C)
  <1>1. IsFiniteSet(C) /\ Cardinality(C) \in Nat
        BY ChannelAssumption, FS_Subset, FS_CardinalityType
  <1>2. his \in [D -> C] /\ \A i, j \in D : i # j => his[i] # his[j]
        BY DEF SetToSeqs
  <1>3. his \in Injection(D, C)
        BY <1>2 DEF Injection, IsInjective
  <1>4. Cardinality(D) = Cardinality(C)
        BY <1>1, FS_Interval
  <1>5. his \in Surjection(D, C)
        BY <1>1, <1>3, <1>4, FS_Injection
  <1>6. \E i \in D : his[i] = c
        BY <1>5 DEF Surjection
  <1>7. Len(his) = Cardinality(C)
        BY <1>1, <1>2
  <1> QED BY <1>6, <1>7

\* The steps that check the modes of u in all of his channels.
LEMMA ChecksOfAll ==
  ASSUME Inv', NEW u \in User, NEW s, s = home'[u], NEW his \in SetToSeqs(ChannelsOf(s, u)'),
         \A c \in Shown' : ops'[s][c] \subseteq on'[s][c]
  PROVE  LET t == [i \in DOMAIN his |-> Do(s, "CheckModes", <<u, his[i]>>)] \o <<Do(s, "Cycle", <<u>>)>>
         IN  t \in Seq(Steps) /\ Checks(u, t)' /\ Unchecked(u, t)'
  <1> DEFINE C == ChannelsOf(s, u)'
             n == Len(his)
             Mine(c) == Do(s, "CheckModes", <<u, c>>)
             last == Do(s, "Cycle", <<u>>)
             f == [i \in DOMAIN his |-> Mine(his[i])]
             t == f \o <<last>>
  <1>1. C \in SUBSET Channel /\ his \in SetToSeqs(C)
        BY DEF ChannelsOf
  <1>2. his \in Seq(Channel)
        BY <1>1, InOrder
  <1>3. n \in Nat /\ DOMAIN his = 1 .. n /\ \A i \in 1 .. n : his[i] \in Channel
        BY <1>2
  <1>4. s \in Server
        BY DEF RegistryOK
  <1>5. last \in Steps /\ \A c \in Channel : Mine(c) \in Steps
        BY <1>4 DEF Do, Steps
  <1>6. \A c \in C : \E i \in 1 .. n : his[i] = c
        BY <1>1, AllInOrder
  <1>7. \A c \in Channel : Mine(c) = Check(u, c)' /\ last = Do(home'[u], "Cycle", <<u>>)
        BY DEF Check
  <1>8. \A c \in Shown' : u \in ops'[s][c] => c \in C
        BY DEF ChannelsOf, Shown
  <1>9. Shown' \subseteq Channel
        BY DEF Shown
  <1> HIDE DEF n, Mine, last, C
  <1>10. f \in Seq(Steps) /\ Len(f) = n /\ \A i \in 1 .. n : f[i] = Mine(his[i])
        BY <1>3, <1>5
  <1> HIDE DEF f
  <1>11. /\ t \in Seq(Steps) /\ Len(t) = n + 1 /\ t[n + 1] = last /\ t # <<>>
         /\ \A i \in 1 .. n : t[i] = f[i]
        BY <1>3, <1>5, <1>10
  <1> HIDE DEF t
  <1>12. \A i \in 1 .. n : t[i] = Mine(his[i]) /\ his[i] \in Channel
        BY <1>3, <1>10, <1>11
  <1>13. Checks(u, t)'
    <2>1. t[Len(t)] = Do(home'[u], "Cycle", <<u>>)
      <3>1. last = Do(s, "Cycle", <<u>>)
            BY DEF last
      <3> QED BY <3>1, <1>11
    <2>2. Len(t) - 1 = n
          BY <1>3, <1>11
    <2>3. \A i \in 1 .. Len(t) - 1 : \E c \in Channel : t[i] = Check(u, c)'
          BY <2>2, <1>7, <1>12
    <2> QED BY <2>1, <2>3, <1>11 DEF Checks
  <1>14. Unchecked(u, t)'
    <2>1. ASSUME NEW c \in Shown', u \in ops'[home'[u]][c]
          PROVE  \E i \in 1 .. Len(t) : t[i] = Check(u, c)'
      <3>1. c \in Channel /\ c \in C
            BY <2>1, <1>8, <1>9
      <3>2. PICK i \in 1 .. n : his[i] = c
            BY <3>1, <1>6
      <3>3. t[i] = Check(u, c)'
            BY <3>1, <3>2, <1>7, <1>12
      <3>4. i \in 1 .. Len(t)
            BY <1>3, <1>11
      <3> QED BY <3>3, <3>4
    <2> QED BY <2>1 DEF Unchecked
  <1>15. t \in Seq(Steps) /\ Checks(u, t)' /\ Unchecked(u, t)'
        BY <1>11, <1>13, <1>14
  <1> QED BY <1>15 DEF t, f, Mine, last

LEMMA RenameAgrees ==
  ASSUME Inv, Inv', InCourse, NEW u \in User, NEW s, Rename(u, s)
  PROVE  InCourse'
  <1>1. PICK x \in Good(u), r \in Seq(Steps) :
               Under(u, x, r) /\ x \in Steps /\ x.at = s /\ x.do = "rename" /\ s \in Server
        BY UnderWay DEF Rename
  <1>2. PICK old, new : old = nick[s][u] /\ new = x.of[2]
        OBVIOUS
  <1>3. Orderly /\ BeforeRename(u, x, r)
        BY <1>1 DEF Under, Before
  <1>4. /\ old \in Nick /\ new \in Nick /\ r = <<>> /\ s = home[u] /\ Renaming(u, new)
        /\ table[s][old] = u /\ table[s][new] = Nobody
        BY <1>1, <1>2, <1>3, StepArgs DEF BeforeRename, Good, Renaming, Known
  <1>5. Arg(u)[2] = new
        BY <1>1, <1>2 DEF Arg, Under
  <1>6. UNCHANGED <<home, channels, quit, failed, apart>>
        BY DEF Rename, sessions
  <1>7. Changeable(s, old, new)
        BY <1>4, NoneAssumption DEF Changeable
  <1>8. /\ table' = Moved(s, old, new)
        /\ nick' = [nick EXCEPT ![s][u] = new, ![s][table[s][old]] = new]
        BY <1>2, <1>5, <1>7 DEF Rename
  <1>9. Moves(s, u, old, new)
        BY <1>1, <1>4, <1>6, <1>8, MovedMoves
  <1>10. UNCHANGED <<channels, quit, apart>> /\ UNCHANGED <<channels, apart>>
        BY <1>6
  <1>11. Orderly'
        BY <1>1, <1>3, <1>4, <1>9, <1>10, MovesOrderly
  <1>12. Agree'
    <2>1. Moves(home[u], u, nick[home[u]][u], new)
          BY <1>2, <1>4, <1>9
    <2> QED BY <2>1, <1>4, <1>10, MovesNext
  <1>13. PICK his \in SetToSeqs(ChannelsOf(s, u)) :
            Then(u, [i \in DOMAIN his |-> Do(s, "CheckModes", <<u, his[i]>>)]
                    \o <<Do(s, "Cycle", <<u>>)>>)
        BY DEF Rename
  <1>14. PICK t : t = [i \in DOMAIN his |-> Do(s, "CheckModes", <<u, his[i]>>)] \o <<Do(s, "Cycle", <<u>>)>>
        OBVIOUS
  <1>15. t \in Seq(Steps) /\ Checks(u, t)' /\ Unchecked(u, t)'
    <2>1. ChannelsOf(s, u)' = ChannelsOf(s, u)
          BY <1>6 DEF ChannelsOf, channels
    <2>2. s = home'[u]
          BY <1>4, <1>6
    <2>3. \A c \in Shown' : ops'[s][c] \subseteq on'[s][c]
          BY <1>1, <1>11 DEF Orderly, MembersAreKnown
    <2> QED BY <2>1, <2>2, <2>3, <1>13, <1>14, ChecksOfAll
  <1>16. todo'[u] = t /\ \A v \in User \ {u} : todo'[v] = <<>>
    <2>1. Then(u, t)
          BY <1>13, <1>14
    <2>2. todo'[u] = t \o r /\ \A v \in User \ {u} : todo'[v] = <<>>
          BY <2>1, <1>1, OnlyThis
    <2>3. t \o <<>> = t
          BY <1>15
    <2> QED BY <2>2, <2>3, <1>4
  <1>17. Course(u, t)'
        BY <1>12, <1>15, ChecksGoOn
  <1>18. failed' = {}
        BY <1>1, <1>6 DEF Under
  <1> QED BY <1>11, <1>16, <1>17, <1>18, Follows

-----------------------------------------------------------------------------
(* The steps of an end. *)

\* What comes after somebody has left goes on where the servers agree again.
LEMMA RestGoesOn ==
  ASSUME NEW u \in User, NEW r, Rest(u, r)', Agree'
  PROVE  Course(u, r)'
  <1>1. CASE r = <<>>
        BY <1>1, NothingLeft
  <1>2. CASE r # <<>>
    <2>1. PICK n \in Nick : r = <<Do(home'[u], "cmdNick", <<u, n>>)>>
          BY <1>2 DEF Rest
    <2>2. PICK y : y = Do(home'[u], "cmdNick", <<u, n>>)
          OBVIOUS
    <2>3. r = <<y>>
          BY <2>1, <2>2
    <2>4. y.do = "cmdNick" /\ y.at = home'[u] /\ y.of[1] = u
          BY <2>2 DEF Do
    <2>5. u \notin quit'
          BY <1>2 DEF Rest
    <2>6. BeforeCmdNick(u, y, <<>>)'
          BY <2>4, <2>5 DEF BeforeCmdNick
    <2>7. Before(u, y, <<>>)'
          BY <2>4, <2>6 DEF Before
    <2> QED BY <2>3, <2>7, OneLeft
  <1> QED BY <1>1, <1>2

LEMMA RestStays ==
  ASSUME NEW u, NEW r, Rest(u, r), home' = home, u \in quit' => u \in quit \/ r = <<>>
  PROVE  Rest(u, r)'
  BY DEF Rest

LEMMA ExitAgrees ==
  ASSUME Inv, InCourse, NEW u \in User, NEW s, Exit(u, s)
  PROVE  InCourse'
  <1>1. PICK x \in Good(u), r \in Seq(Steps) :
               Under(u, x, r) /\ x \in Steps /\ x.at = s /\ x.do = "Exit" /\ s \in Server
        BY UnderWay DEF Exit
  <1>2. PICK v : v = x.of[1]
        OBVIOUS
  <1>3. Orderly /\ BeforeExit(u, x, r)
        BY <1>1 DEF Under, Before
  <1>4. /\ v \in User /\ s = home[v] /\ Rest(u, r) /\ (r # <<>> => v # u)
        /\ Agree \/ (v \notin quit /\ Without(Peer(s), v))
        BY <1>1, <1>2, <1>3, StepArgs DEF BeforeExit
  <1>5. Arg(u)[1] = v
        BY <1>1, <1>2 DEF Arg, Under
  <1>6. UNCHANGED <<failed, apart>> /\ Peer(s) \in Server /\ Peer(Peer(s)) = s
        BY <1>1, Pairs DEF Exit
  <1>7. CASE v \in quit \/ ~Entered(v)
    <2>1. /\ Then(u, <<>>) /\ UNCHANGED <<registry, channels>>
          /\ quit' = quit \/ (quit' = quit \cup {v} /\ ~Entered(v))
          BY <1>5, <1>7 DEF Exit, sessions
    <2>2. Agree
      <3>1. Known(s, v) => Entered(v)
            BY <1>4 DEF Known, Entered
      <3> QED BY <3>1, <1>4, <1>6, <1>7 DEF Without
    <2>3. Agree' /\ home' = home
          BY <2>1, <2>2, <1>6, SameAgree DEF registry
    <2>4. Orderly'
      <3>1. CASE quit' = quit
            BY <3>1, <2>1, <1>3, <1>6, SameOrder
      <3>2. CASE quit' = quit \cup {v} /\ ~Entered(v)
        <4>1. SessionsAreKnown'
          <5>1. ~Known(home[v], v)
                BY <3>2 DEF Known, Entered
          <5>2. SessionsAreKnown
                BY <1>3 DEF Orderly
          <5>3. \A w \in User : (Known(home[w], w)' <=> Known(home[w], w)) /\ (Entered(w)' <=> Entered(w))
                BY <2>1 DEF registry, Known, Entered
          <5> QED BY <5>1, <5>2, <5>3, <3>2 DEF SessionsAreKnown
        <4>2. \A t \in Server : OwnNick(t)' /\ MembersAreKnown(t)'
          <5>1. \A t \in Server : SameUsers(t) /\ SameMembers(t)
                BY <2>1 DEF SameUsers, SameMembers, registry, channels
          <5>2. Shown' \subseteq Shown
                BY <1>6 DEF Shown
          <5> QED BY <5>1, <5>2, <1>3, SameIsOwn, SameAreKnown DEF Orderly
        <4> QED BY <4>1, <4>2 DEF Orderly
      <3> QED BY <3>1, <3>2, <2>1
    <2>5. Rest(u, r)'
          BY <2>1, <2>3, <1>4, RestStays
    <2>6. Course(u, r)'
          BY <2>3, <2>5, RestGoesOn
    <2> QED BY <2>1, <2>4, <2>6, <1>1, <1>6, StepEnds
  <1>8. CASE v \notin quit /\ Entered(v)
    <2>1. PICK p, n : p = Peer(s) /\ n = nick[s][v]
          OBVIOUS
    <2>2. PICK y : y = Do(p, "QUIT", <<n>>)
          OBVIOUS
    <2>3. PICK z : z = Do(s, "exited", <<v>>)
          OBVIOUS
    <2>4. MakeQuit(s, v) /\ quit' = quit \cup {v} /\ Then(u, <<y, z>>)
          BY <2>1, <2>2, <2>3, <1>5, <1>8 DEF Exit, Tell
    <2>5. Known(s, v)
          BY <1>3, <1>4, <1>8 DEF Orderly, SessionsAreKnown
    <2>6. Goes(s, v)
          BY <2>4, <1>1, <1>3, <1>4, <1>6, MakeQuitGoes
    <2>7. Orderly'
      <3>1. quit' = IF home[v] = s THEN quit \cup {v} ELSE quit
            BY <2>4, <1>4
      <3> QED BY <3>1, <2>5, <2>6, <1>1, <1>3, <1>4, GoesOrderly
    <2>8. home' = home
          BY <2>6 DEF Goes
    <2>9. \/ table'[p][n] = v /\ Without(s, v)'
          \/ table'[p][n] = Nobody /\ Agree'
      <3>1. CASE Agree
            BY <3>1, <2>1, <2>5, <2>6, <1>1, <1>3, <1>4, LeavesFirst
      <3>2. CASE Without(Peer(s), v)
            BY <3>2, <2>1, <2>6, <1>1, <1>3, <1>4, LeavesNext
      <3> QED BY <3>1, <3>2, <1>4
    <2>10. Rest(u, r)'
          BY <2>4, <2>8, <1>4, RestStays
    <2>11. y.do = "QUIT" /\ y.at = p /\ y.of[1] = n /\ z.do = "exited"
          BY <2>2, <2>3 DEF Do
    <2>12. PICK q : q = <<z>> \o r
          OBVIOUS
    <2>13. q # <<>> /\ Head(q) = z /\ Tail(q) = r
          BY <2>12, OneMore
    <2>14. BeforeQuit(u, y, q)'
      <3>1. home'[v] # p /\ Peer(p) = s
            BY <2>1, <2>8, <1>1, <1>4, Pairs
      <3>2. v # Nobody
            BY <1>4, NoneAssumption
      <3> QED BY <3>1, <3>2, <2>9, <2>10, <2>11, <2>13 DEF BeforeQuit
    <2>15. Before(u, y, <<z>> \o r)'
          BY <2>11, <2>12, <2>14 DEF Before
    <2> QED BY <2>4, <2>7, <2>15, <1>1, <1>6, StepSendsTwo
  <1> QED BY <1>7, <1>8

LEMMA ExitedAgrees ==
  ASSUME Inv, InCourse, NEW u \in User, NEW s, Exited(u, s)
  PROVE  InCourse'
  <1>1. PICK x \in Good(u), r \in Seq(Steps) :
               Under(u, x, r) /\ x \in Steps /\ x.at = s /\ x.do = "exited" /\ s \in Server
        BY UnderWay DEF Exited
  <1>2. Orderly /\ Rest(u, r) /\ Agree
        BY <1>1 DEF Under, Before, BeforeExited
  <1>3. Then(u, <<>>) /\ UNCHANGED <<registry, channels, quit, failed, apart>>
        BY DEF Exited
  <1>4. Orderly' /\ Agree' /\ home' = home
        BY <1>2, <1>3, SameOrder, SameAgree DEF registry
  <1>5. Rest(u, r)'
        BY <1>2, <1>3, <1>4, RestStays
  <1>6. Course(u, r)'
        BY <1>4, <1>5, RestGoesOn
  <1> QED BY <1>1, <1>3, <1>4, <1>6, StepEnds

LEMMA ServerQuitAgrees ==
  ASSUME Inv, InCourse, NEW u \in User, NEW s, ServerQuit(u, s)
  PROVE  InCourse'
  <1>1. PICK x \in Good(u), r \in Seq(Steps) :
               Under(u, x, r) /\ x \in Steps /\ x.at = s /\ x.do \in {"QUIT", "SKILL"} /\ s \in Server
    <2>1. CASE Doing(u, s, "QUIT")
          BY <2>1, UnderWay
    <2>2. CASE Doing(u, s, "SKILL")
          BY <2>2, UnderWay
    <2> QED BY <2>1, <2>2 DEF ServerQuit
  <1>2. PICK n, h : n = x.of[1] /\ h = table[s][n]
        OBVIOUS
  <1>3. Orderly /\ BeforeQuit(u, x, r)
        BY <1>1 DEF Under, Before
  <1>4. Arg(u)[1] = n /\ n \in Nick /\ h \in User \cup {Nobody}
    <2>1. Arg(u)[1] = n
          BY <1>1, <1>2 DEF Arg, Under
    <2>2. x.of[1] \in Nick
          BY <1>1, StepArgs
    <2>3. n \in Nick
          BY <1>2, <2>2
    <2>4. h \in User \cup {Nobody}
          BY <1>1, <1>2, <2>3 DEF RegistryOK
    <2> QED BY <2>1, <2>3, <2>4
  <1>5. UNCHANGED <<quit, failed, apart>> /\ Peer(s) \in Server /\ Peer(Peer(s)) = s
        BY <1>1, Pairs DEF ServerQuit, sessions
  <1>6. \/ /\ h # Nobody /\ Without(Peer(s), h)
           /\ home[h] = s /\ h \notin quit /\ Rest(u, r) /\ (r # <<>> => h # u)
        \/ /\ r # <<>> /\ Head(r).do = "exited" /\ Rest(u, Tail(r))
           /\ \/ h # Nobody /\ Without(Peer(s), h) /\ home[h] # s
              \/ h = Nobody /\ Agree
        BY <1>1, <1>2, <1>3 DEF BeforeQuit
  <1>7. ASSUME r # <<>>, Head(r).do = "exited", Rest(u, Tail(r))', Agree'
        PROVE  Course(u, r)'
    <2>1. BeforeExited(u, Head(r), Tail(r))'
          BY <1>7 DEF BeforeExited
    <2> QED BY <2>1, <1>7 DEF Course, Before
  <1>8. CASE h = Nobody
    <2>1. Then(u, <<>>) /\ UNCHANGED <<registry, channels>>
          BY <1>2, <1>4, <1>8 DEF ServerQuit
    <2>2. r # <<>> /\ Head(r).do = "exited" /\ Rest(u, Tail(r)) /\ Agree
          BY <1>6, <1>8
    <2>3. Orderly' /\ Agree' /\ home' = home
          BY <2>1, <2>2, <1>3, <1>5, SameOrder, SameAgree DEF registry
    <2>4. Rest(u, Tail(r))'
          BY <2>2, <2>3, <1>5, RestStays
    <2>5. Course(u, r)'
          BY <2>2, <2>3, <2>4, <1>7
    <2> QED BY <2>1, <2>3, <2>5, <1>1, <1>5, StepEnds
  <1>9. CASE h # Nobody /\ home[h] = s
    <2>1. PICK y : y = Do(s, "Exit", <<h>>)
          OBVIOUS
    <2>2. Then(u, <<y>>) /\ UNCHANGED <<registry, channels>>
          BY <2>1, <1>2, <1>4, <1>9 DEF ServerQuit, Local
    <2>3. Without(Peer(s), h) /\ h \notin quit /\ Rest(u, r) /\ (r # <<>> => h # u)
          BY <1>6, <1>9
    <2>4. Orderly' /\ home' = home
          BY <2>2, <1>3, <1>5, SameOrder DEF registry
    <2>5. Without(Peer(s), h)'
          BY <2>2, <2>3, <1>5 DEF Without, Known, Shown, registry, channels
    <2>6. Rest(u, r)'
          BY <2>3, <2>4, <1>5, RestStays
    <2>7. y.do = "Exit" /\ y.at = s /\ y.of[1] = h
          BY <2>1 DEF Do
    <2>8. BeforeExit(u, y, r)'
          BY <2>3, <2>4, <2>5, <2>6, <2>7, <1>5, <1>9 DEF BeforeExit
    <2>9. Before(u, y, r)'
          BY <2>7, <2>8 DEF Before
    <2> QED BY <2>2, <2>4, <2>9, <1>1, <1>5, StepSends
  <1>10. CASE h # Nobody /\ home[h] # s
    <2>1. Then(u, <<>>) /\ MakeQuit(s, h) /\ h \in User
          BY <1>2, <1>4, <1>10 DEF ServerQuit, Local
    <2>2. r # <<>> /\ Head(r).do = "exited" /\ Rest(u, Tail(r)) /\ Without(Peer(s), h)
          BY <1>6, <1>10
    <2>3. Goes(s, h)
          BY <2>1, <1>1, <1>3, <1>5, MakeQuitGoes
    <2>4. Agree' /\ Known(s, h)
          BY <2>1, <2>2, <2>3, <1>1, <1>3, LeavesNext
    <2>5. Orderly'
      <3>1. quit' = IF home[h] = s THEN quit \cup {h} ELSE quit
            BY <1>5, <1>10
      <3> QED BY <3>1, <2>1, <2>3, <2>4, <1>1, <1>3, GoesOrderly
    <2>6. Rest(u, Tail(r))'
          BY <2>2, <2>3, <1>5, RestStays DEF Goes
    <2>7. Course(u, r)'
          BY <2>2, <2>4, <2>6, <1>7
    <2> QED BY <2>1, <2>5, <2>7, <1>1, <1>5, StepEnds
  <1> QED BY <1>8, <1>9, <1>10

-----------------------------------------------------------------------------
(* The steps of a channel. *)

LEMMA NothingIn ==
  ASSUME UNCHANGED <<registry, channels>>, NEW a, NEW c
  PROVE  OnlyIn(a, c)
  BY DEF OnlyIn, SameMembers, registry, channels

\* Only the operators of a channel change.
LEMMA OpsIs ==
  ASSUME ChannelsOK, NEW a \in Server, NEW c \in Channel, NEW P,
         ops' = [ops EXCEPT ![a][c] = P], UNCHANGED <<registry, made, on>>
  PROVE  OnlyIn(a, c) /\ ops'[a][c] = P /\ on' = on /\ made' = made
  <1>1. PICK O : O = on[a][c]
        OBVIOUS
  <1>2. on = [on EXCEPT ![a][c] = O]
        BY <1>1 DEF ChannelsOK
  <1>3. Sets(a, c, O, P)
        BY <1>2 DEF Sets
  <1> QED BY <1>3, SetIs

\* Who is known here is known there, by the same nickname.
LEMMA KnownThere ==
  ASSUME RegistryOK, Orderly, TablesAgree, NEW s \in Server, NEW v \in User, Known(s, v)
  PROVE  Known(Peer(s), v)
  <1>1. nick[s][v] \in Nick /\ table[Peer(s)][nick[s][v]] = v
        BY KnownOnBoth
  <1>2. nick[Peer(s)][v] = nick[s][v]
        BY <1>1, Pairs, NoneAssumption DEF Orderly, OwnNick
  <1> QED BY <1>1, <1>2 DEF Known, RegistryOK

\* A server does with a channel what the other one has done.
LEMMA Settles ==
  ASSUME Inv, Orderly, NEW a \in Server, NEW c \in Channel, OnlyIn(a, c), UNCHANGED <<quit, apart>>,
         TablesAgree, AgreeIn(Shown \ {c}),
         c \in Shown => /\ on'[a][c] = on[Peer(a)][c] /\ ops'[a][c] = ops[Peer(a)][c]
                        /\ c \in made'[a] <=> c \in made[Peer(a)]
  PROVE  Orderly' /\ Agree'
  <1>1. Agree'
        BY Settled
  <1>2. Shown' = Shown
        BY DEF Shown
  <1>3. ASSUME c \in Shown
        PROVE  /\ ops'[a][c] \subseteq on'[a][c]
               /\ \A v \in on'[a][c] : Known(a, v)
               /\ c \in Registered => on'[a][c] = {}
    <2>1. PICK b : b = Peer(a)
          OBVIOUS
    <2>2. b \in Server /\ Peer(b) = a
          BY <2>1, Pairs
    <2>3. /\ ops[b][c] \subseteq on[b][c]
          /\ \A v \in on[b][c] : Known(b, v)
          /\ c \in Registered => on[b][c] = {}
          BY <2>2, <1>3 DEF Orderly, MembersAreKnown
    <2>4. \A v \in on[b][c] : v \in User
          BY <2>2 DEF ChannelsOK
    <2>5. \A v \in on[b][c] : Known(a, v)
          BY <2>2, <2>3, <2>4, KnownThere
    <2> QED BY <2>1, <2>3, <2>5, <1>3
  <1>4. Orderly'
        BY <1>2, <1>3, OneChannelOrder
  <1> QED BY <1>1, <1>4

\* A server that fails does so over a channel that does not count.
LEMMA FailsOverThis ==
  ASSUME NEW s, NEW c \in Channel, Fails(s), c \notin Shown, UNCHANGED apart
  PROVE  InCourse'
  <1>1. apart' # {}
        BY DEF Shown
  <1> QED BY <1>1, Failed

LEMMA SjoinAgrees ==
  ASSUME Inv, InCourse, NEW u \in User, NEW s, Sjoin(u, s)
  PROVE  InCourse'
  <1>1. PICK x \in Good(u), r \in Seq(Steps) :
               Under(u, x, r) /\ x \in Steps /\ x.at = s /\ x.do = "SJOIN" /\ s \in Server
        BY UnderWay DEF Sjoin
  <1>2. PICK n, c, mode, v, b : n = x.of[1] /\ c = x.of[2] /\ mode = x.of[3] /\ v = table[s][n] /\ b = home[u]
        OBVIOUS
  <1>3. Orderly /\ BeforeSjoin(u, x, r)
        BY <1>1 DEF Under, Before
  <1>4. /\ n \in Nick /\ c \in Channel /\ b \in Server /\ s = Peer(b) /\ b = Peer(s)
        /\ Joining(s, n, c, u, mode) /\ Turns(u, r) /\ (r # <<>> => Unmoded(u))
        BY <1>1, <1>2, <1>3, StepArgs, Pairs DEF BeforeSjoin, RegistryOK
  <1>5. Arg(u)[1] = n /\ Arg(u)[2] = c /\ Arg(u)[3] = mode
        BY <1>1, <1>2 DEF Arg, Under
  <1>6. UNCHANGED <<registry, quit, failed, apart>> /\ Then(u, <<>>)
        BY DEF Sjoin, sessions
  <1>7. ASSUME v # Nobody
        PROVE  /\ OnlyIn(s, c) /\ on'[s][c] = on[s][c] \cup {v}
               /\ ops'[s][c] = IF mode = "o" THEN ops[s][c] \cup {v} ELSE ops[s][c]
               /\ c \in made'[s]
    <2>1. PICK O, P : /\ O = on[s][c] \cup {v}
                      /\ P = IF mode = "o" THEN ops[s][c] \cup {v} ELSE ops[s][c]
          OBVIOUS
    <2>2. /\ made' = [made EXCEPT ![s] = made[s] \cup {c}]
          /\ on' = [on EXCEPT ![s][c] = O] /\ ops' = [ops EXCEPT ![s][c] = P]
          BY <2>1, <1>2, <1>5, <1>7 DEF Sjoin
    <2>3. Sets(s, c, O, P)
          BY <2>2, <1>6 DEF Sets
    <2>4. OnlyIn(s, c) /\ on'[s][c] = O /\ ops'[s][c] = P
          BY <2>3, <1>1, <1>4, SetIs
    <2>5. c \in made'[s]
          BY <2>2, <1>1 DEF ChannelsOK
    <2> QED BY <2>1, <2>4, <2>5
  <1>8. OnlyIn(s, c)
    <2>1. CASE v = Nobody
          BY <2>1, <1>2, <1>5, <1>6, NothingIn DEF Sjoin
    <2> QED BY <2>1, <1>7
  <1>9. c \in Shown => /\ on'[s][c] = on[Peer(s)][c] /\ ops'[s][c] = ops[Peer(s)][c]
                       /\ c \in made'[s] <=> c \in made[Peer(s)]
    <2> SUFFICES ASSUME c \in Shown
                 PROVE  on'[s][c] = on[b][c] /\ ops'[s][c] = ops[b][c] /\ c \in made'[s] /\ c \in made[b]
        BY <1>4
    <2>1. /\ u \in on[b][c] /\ c \in made[b] /\ v = u /\ (u \in ops[b][c] <=> mode = "o")
          /\ on[s][c] = on[b][c] \ {u} /\ ops[s][c] = ops[b][c] \ {u}
          BY <1>2, <1>4 DEF Joining, Outside
    <2>2. v # Nobody
          BY <2>1, NoneAssumption
    <2>3. ops'[s][c] = ops[b][c]
      <3>1. ops'[s][c] = IF mode = "o" THEN ops[s][c] \cup {v} ELSE ops[s][c]
            BY <2>2, <1>7
      <3>2. CASE mode = "o"
        <4>1. u \in ops[b][c] /\ ops'[s][c] = (ops[b][c] \ {u}) \cup {u}
              BY <3>1, <3>2, <2>1
        <4> QED BY <4>1
      <3>3. CASE mode # "o"
        <4>1. u \notin ops[b][c] /\ ops'[s][c] = ops[b][c] \ {u}
              BY <3>1, <3>3, <2>1
        <4> QED BY <4>1
      <3> QED BY <3>2, <3>3
    <2>4. on'[s][c] = (on[b][c] \ {u}) \cup {u} /\ c \in made'[s]
          BY <2>1, <2>2, <1>7
    <2>5. on'[s][c] = on[b][c]
          BY <2>1, <2>4
    <2> QED BY <2>1, <2>3, <2>4, <2>5
  <1>10. Orderly' /\ Agree'
        BY <1>1, <1>3, <1>4, <1>6, <1>8, <1>9, Settles DEF Joining
  <1>11. home' = home /\ Shown' = Shown /\ on'[home[u]] = on[home[u]] /\ ops'[home[u]] = ops[home[u]]
        BY <1>2, <1>4, <1>6, <1>8 DEF registry, Shown, OnlyIn, SameMembers
  <1>12. Course(u, r)'
        BY <1>4, <1>10, <1>11, TurnsStay, UnmodedStays, TurnsGoOn
  <1> QED BY <1>1, <1>6, <1>10, <1>12, StepEnds

LEMMA SpartAgrees ==
  ASSUME Inv, InCourse, NEW u \in User, NEW s, Spart(u, s)
  PROVE  InCourse'
  <1>1. PICK x \in Good(u), r \in Seq(Steps) :
               Under(u, x, r) /\ x \in Steps /\ x.at = s /\ x.do = "SPART" /\ s \in Server
        BY UnderWay DEF Spart
  <1>2. PICK n, c, v, b : n = x.of[1] /\ c = x.of[2] /\ v = table[s][n] /\ b = home[u]
        OBVIOUS
  <1>3. Orderly /\ BeforeSpart(u, x, r)
        BY <1>1 DEF Under, Before
  <1>4. /\ n \in Nick /\ c \in Channel /\ b \in Server /\ s = Peer(b) /\ b = Peer(s)
        /\ Agree /\ (c \in Shown => v = u /\ u \in on[b][c])
        /\ \/ r = <<Do(b, "part", <<u, c>>)>>
           \/ /\ r # <<>> /\ Head(r) = Do(b, "Cycle join", <<u, c>>)
              /\ Turns(u, Tail(r)) /\ Unmoded(u)
        BY <1>1, <1>2, <1>3, StepArgs, Pairs DEF BeforeSpart, RegistryOK
  <1>5. Arg(u)[1] = n /\ Arg(u)[2] = c
        BY <1>1, <1>2 DEF Arg, Under
  <1>6. UNCHANGED <<registry, quit, apart>>
        BY DEF Spart, sessions
  <1>7. c \in Shown => /\ on[s][c] = on[b][c] /\ ops[s][c] = ops[b][c]
                       /\ c \in made[s] /\ c \in made[b] /\ v \in on[s][c] /\ v # Nobody
                       /\ ops[s][c] \subseteq on[s][c]
    <2> SUFFICES ASSUME c \in Shown
                 PROVE  /\ on[s][c] = on[b][c] /\ ops[s][c] = ops[b][c]
                        /\ c \in made[s] /\ c \in made[b] /\ v \in on[s][c] /\ v # Nobody
                        /\ ops[s][c] \subseteq on[s][c]
        OBVIOUS
    <2>1. on[s][c] = on[b][c] /\ ops[s][c] = ops[b][c] /\ v \in on[s][c] /\ v # Nobody
      <3>1. on[s][c] = on[b][c] /\ ops[s][c] = ops[b][c]
            BY <1>1, <1>4 DEF Agree, AgreeIn
      <3>2. v = u /\ u \in on[b][c] /\ u # Nobody
            BY <1>4, NoneAssumption
      <3> QED BY <3>1, <3>2
    <2>2. c \in made[s] /\ c \in made[b]
          BY <2>1, <1>1, <1>4 DEF ChannelsOK
    <2>3. ops[s][c] \subseteq on[s][c]
          BY <1>1, <1>3 DEF Orderly, MembersAreKnown
    <2> QED BY <2>1, <2>2, <2>3
  <1>8. CASE v # Nobody /\ c \notin made[s]
    <2>1. Fails(s)
          BY <1>2, <1>5, <1>8 DEF Spart
    <2> QED BY <2>1, <1>4, <1>6, <1>7, <1>8, FailsOverThis
  <1>9. CASE ~(v # Nobody /\ c \notin made[s])
    <2>1. Then(u, <<>>) /\ UNCHANGED failed
          BY <1>2, <1>5, <1>9 DEF Spart
    <2>2. v # Nobody /\ v \in on[s][c] => Leave(s, v, {c})
          BY <1>2, <1>5, <1>9 DEF Spart
    <2>3. ~(v # Nobody /\ v \in on[s][c]) => UNCHANGED channels
          BY <1>2, <1>5, <1>9 DEF Spart
    <2>4. ASSUME v # Nobody, v \in on[s][c]
          PROVE  /\ OnlyIn(s, c) /\ on'[s][c] = on[s][c] \ {v}
                 /\ ops[s][c] \subseteq on[s][c] => ops'[s][c] = ops[s][c] \ {v}
                 /\ c \in made'[s] <=> (c \in made[s] /\ ~(on[s][c] \subseteq {v}))
          BY <2>2, <2>4, <1>1, <1>4, <1>6, LeaveOne
    <2>5. OnlyIn(s, c)
      <3>1. CASE ~(v # Nobody /\ v \in on[s][c])
            BY <3>1, <2>3, <1>6, NothingIn
      <3> QED BY <3>1, <2>4
    <2>6. /\ home' = home /\ Shown' = Shown
          /\ on'[b] = on[b] /\ ops'[b] = ops[b] /\ made'[b] = made[b]
          BY <2>5, <1>4, <1>6 DEF registry, Shown, OnlyIn, SameMembers
    <2>7. c \in Shown =>
            /\ on'[s][c] = on[s][c] \ {u} /\ ops'[s][c] = ops[s][c] \ {u}
            /\ u \in on[s][c] /\ (c \in made'[s] <=> on[s][c] # {u})
          BY <2>4, <1>4, <1>7
    <2>8. Orderly'
      <3>1. c \in Shown => /\ ops'[s][c] \subseteq on'[s][c]
                           /\ \A w \in on'[s][c] : Known(s, w)
                           /\ c \in Registered => on'[s][c] = {}
            BY <2>7, <1>1, <1>3, <1>7 DEF Orderly, MembersAreKnown
      <3> QED BY <3>1, <2>5, <2>6, <1>1, <1>3, <1>4, <1>6, OneChannelOrder
    <2>9. Parted(s, c, u)'
      <3>1. AgreeIn(Shown \ {c})
            BY <1>4 DEF Agree, AgreeIn
      <3>2. AgreeIn(Shown \ {c})'
            BY <3>1, <2>5, <1>1, <1>4, <1>6, OthersAgree
      <3>3. TablesAgree'
            BY <1>4, <1>6, SameTables DEF Agree
      <3>4. c \in Shown' => Outside(s, c, u)' /\ (c \in made'[s] <=> on'[Peer(s)][c] # {u})
            BY <2>6, <2>7, <1>4, <1>7 DEF Outside
      <3> QED BY <3>2, <3>3, <3>4 DEF Parted
    <2>10. Peer(home'[u]) = s /\ home'[u] = b
          BY <2>6, <1>2, <1>4
    <2>11. Course(u, r)'
      <3>1. CASE r = <<Do(b, "part", <<u, c>>)>>
        <4>1. PICK y : y = Do(b, "part", <<u, c>>)
              OBVIOUS
        <4>2. y.do = "part" /\ y.at = b /\ y.of[1] = u /\ y.of[2] = c
              BY <4>1 DEF Do
        <4>3. BeforePart(u, y, <<>>)'
              BY <4>2, <2>9, <2>10 DEF BeforePart
        <4>4. Before(u, y, <<>>)'
              BY <4>2, <4>3 DEF Before
        <4>5. r = <<y>>
              BY <3>1, <4>1
        <4> QED BY <4>4, <4>5, OneLeft
      <3>2. CASE /\ r # <<>> /\ Head(r) = Do(b, "Cycle join", <<u, c>>)
                 /\ Turns(u, Tail(r)) /\ Unmoded(u)
        <4>1. PICK y : y = Do(b, "Cycle join", <<u, c>>)
              OBVIOUS
        <4>2. y.do = "Cycle join" /\ y.at = b /\ y.of[1] = u /\ y.of[2] = c
              BY <4>1 DEF Do
        <4>3. on'[home[u]] = on[home[u]] /\ ops'[home[u]] = ops[home[u]]
              BY <2>6, <1>2
        <4>4. Turns(u, Tail(r))' /\ Unmoded(u)'
              BY <4>3, <3>2, <2>6, TurnsStay, UnmodedStays
        <4>5. BeforeCycleJoin(u, y, Tail(r))'
              BY <4>2, <4>4, <2>9, <2>10 DEF BeforeCycleJoin
        <4>6. Before(u, y, Tail(r))'
              BY <4>2, <4>5 DEF Before
        <4> QED BY <4>1, <4>6, <3>2 DEF Course
      <3> QED BY <3>1, <3>2, <1>4
    <2> QED BY <2>1, <2>8, <2>11, <1>1, StepEnds
  <1> QED BY <1>8, <1>9

LEMMA ChannelPartAgrees ==
  ASSUME Inv, InCourse, NEW u \in User, NEW s, ChannelPart(u, s)
  PROVE  InCourse'
  <1>1. PICK x \in Good(u), r \in Seq(Steps) :
               Under(u, x, r) /\ x \in Steps /\ x.at = s /\ x.do = "part" /\ s \in Server
        BY UnderWay DEF ChannelPart
  <1>2. PICK c, p : c = x.of[2] /\ p = Peer(s)
        OBVIOUS
  <1>3. Orderly /\ BeforePart(u, x, r)
        BY <1>1 DEF Under, Before
  <1>4. c \in Channel /\ p \in Server /\ Peer(p) = s /\ s = home[u] /\ r = <<>> /\ Parted(p, c, u)
        BY <1>1, <1>2, <1>3, StepArgs, Pairs DEF BeforePart
  <1>5. Arg(u)[2] = c
        BY <1>1, <1>2 DEF Arg, Under
  <1>6. UNCHANGED <<registry, quit, apart>>
        BY DEF ChannelPart, sessions
  <1>7. c \in Shown => /\ u \in on[s][c] /\ Known(s, u) /\ c \in made[s]
                       /\ on[p][c] = on[s][c] \ {u} /\ ops[p][c] = ops[s][c] \ {u}
                       /\ (c \in made[p] <=> on[s][c] # {u}) /\ ops[s][c] \subseteq on[s][c]
        BY <1>1, <1>3, <1>4 DEF Parted, Outside, Orderly, MembersAreKnown
  <1>8. CASE u \in on[s][c] /\ Known(s, u)
    <2>1. Leave(s, u, {c}) /\ Then(u, <<>>) /\ UNCHANGED failed
          BY <1>5, <1>8 DEF ChannelPart
    <2>2. /\ OnlyIn(s, c) /\ on'[s][c] = on[s][c] \ {u}
          /\ ops[s][c] \subseteq on[s][c] => ops'[s][c] = ops[s][c] \ {u}
          /\ c \in made'[s] <=> (c \in made[s] /\ ~(on[s][c] \subseteq {u}))
          BY <2>1, <1>1, <1>4, <1>6, LeaveOne
    <2>3. c \in Shown => /\ on'[s][c] = on[Peer(s)][c] /\ ops'[s][c] = ops[Peer(s)][c]
                         /\ c \in made'[s] <=> c \in made[Peer(s)]
          BY <2>2, <1>2, <1>7
    <2>4. Orderly' /\ Agree'
      <3>1. TablesAgree /\ AgreeIn(Shown \ {c})
            BY <1>4 DEF Parted
      <3> QED BY <3>1, <2>2, <2>3, <1>1, <1>3, <1>4, <1>6, Settles
    <2>5. Course(u, r)'
          BY <2>4, <1>4, NothingLeft
    <2> QED BY <2>1, <2>4, <2>5, <1>1, StepEnds
  <1>9. CASE ~(u \in on[s][c] /\ Known(s, u))
    <2>1. Fails(s)
          BY <1>5, <1>9 DEF ChannelPart
    <2> QED BY <2>1, <1>4, <1>6, <1>7, <1>9, FailsOverThis
  <1> QED BY <1>8, <1>9

LEMMA SkickAgrees ==
  ASSUME Inv, InCourse, NEW u \in User, NEW s, Skick(u, s)
  PROVE  InCourse'
  <1>1. PICK x \in Good(u), r \in Seq(Steps) :
               Under(u, x, r) /\ x \in Steps /\ x.at = s /\ x.do = "SKICK" /\ s \in Server
        BY UnderWay DEF Skick
  <1>2. PICK n, c, m, v : n = x.of[1] /\ c = x.of[2] /\ m = x.of[3] /\ v = table[s][m]
        OBVIOUS
  <1>3. Orderly /\ BeforeSkick(u, x, r)
        BY <1>1 DEF Under, Before
  <1>4. c \in Channel /\ r = <<>> /\ Kicked(s, n, c, m)
        BY <1>1, <1>2, <1>3, StepArgs DEF BeforeSkick
  <1>5. Arg(u)[1] = n /\ Arg(u)[2] = c /\ Arg(u)[3] = m
        BY <1>1, <1>2 DEF Arg, Under
  <1>6. UNCHANGED <<registry, made, quit, failed, apart>> /\ Then(u, <<>>)
        BY DEF Skick, sessions
  <1>7. ASSUME c \in made[s], table[s][n] # Nobody, v # Nobody
        PROVE  OnlyIn(s, c) /\ on'[s][c] = on[s][c] \ {v} /\ ops'[s][c] = ops[s][c] \ {v}
    <2>1. RemoveUser(s, v, {c})
          BY <1>2, <1>5, <1>7 DEF Skick
    <2> QED BY <2>1, <1>1, <1>4, <1>6, RemoveOne
  <1>8. OnlyIn(s, c)
    <2>1. CASE ~(c \in made[s] /\ table[s][n] # Nobody /\ v # Nobody)
      <3>1. UNCHANGED <<on, ops>>
            BY <2>1, <1>2, <1>5 DEF Skick
      <3> QED BY <3>1, <1>6, NothingIn DEF channels
    <2> QED BY <2>1, <1>7
  <1>9. c \in Shown => /\ on'[s][c] = on[Peer(s)][c] /\ ops'[s][c] = ops[Peer(s)][c]
                       /\ c \in made'[s] <=> c \in made[Peer(s)]
        BY <1>2, <1>4, <1>6, <1>7 DEF Kicked
  <1>10. Orderly' /\ Agree'
    <2>1. TablesAgree /\ AgreeIn(Shown \ {c})
          BY <1>4 DEF Kicked
    <2> QED BY <2>1, <1>1, <1>3, <1>4, <1>6, <1>8, <1>9, Settles
  <1>11. Course(u, r)'
        BY <1>4, <1>10, NothingLeft
  <1> QED BY <1>1, <1>6, <1>10, <1>11, StepEnds

LEMMA ModeHereAgrees ==
  ASSUME Inv, InCourse, NEW u \in User, NEW s, ModeHere(u, s)
  PROVE  InCourse'
  <1>1. PICK x \in Good(u), r \in Seq(Steps) :
               Under(u, x, r) /\ x \in Steps /\ x.at = s /\ x.do = "mode" /\ s \in Server
        BY UnderWay DEF ModeHere
  <1>2. PICK c, sign, v : c = x.of[1] /\ sign = x.of[2] /\ v = x.of[3]
        OBVIOUS
  <1>3. Orderly /\ BeforeMode(u, x, r)
        BY <1>1 DEF Under, Before
  <1>4. c \in Channel /\ r = <<>> /\ Turning(s, c, sign, v)
        BY <1>1, <1>2, <1>3, StepArgs DEF BeforeMode
  <1>5. Arg(u)[1] = c /\ Arg(u)[2] = sign /\ Arg(u)[3] = v
        BY <1>1, <1>2 DEF Arg, Under
  <1>6. UNCHANGED <<registry, made, on, quit, apart>>
        BY DEF ModeHere, sessions
  <1>7. CASE c \in made[s]
    <2>1. PICK P : P = Turned(ops[s][c], sign, v)
          OBVIOUS
    <2>2. ops' = [ops EXCEPT ![s][c] = P] /\ Then(u, <<>>) /\ UNCHANGED failed
          BY <2>1, <1>5, <1>7 DEF ModeHere
    <2>3. OnlyIn(s, c) /\ ops'[s][c] = P /\ on' = on /\ made' = made
          BY <2>2, <1>1, <1>4, <1>6, OpsIs
    <2>4. c \in Shown => /\ on'[s][c] = on[Peer(s)][c] /\ ops'[s][c] = ops[Peer(s)][c]
                         /\ c \in made'[s] <=> c \in made[Peer(s)]
          BY <2>1, <2>3, <1>4 DEF Turning
    <2>5. Orderly' /\ Agree'
      <3>1. TablesAgree /\ AgreeIn(Shown \ {c})
            BY <1>4 DEF Turning
      <3> QED BY <3>1, <2>3, <2>4, <1>1, <1>3, <1>4, <1>6, Settles
    <2>6. Course(u, r)'
          BY <2>5, <1>4, NothingLeft
    <2> QED BY <2>2, <2>5, <2>6, <1>1, StepEnds
  <1>8. CASE c \notin made[s]
    <2>1. Fails(s)
          BY <1>5, <1>8 DEF ModeHere
    <2>2. c \notin Shown
          BY <1>4, <1>8 DEF Turning
    <2> QED BY <2>1, <2>2, <1>4, <1>6, FailsOverThis
  <1> QED BY <1>7, <1>8

\* Channels that do not count do not matter to one who is to join again.
LEMMA RejoinsStay ==
  ASSUME Inv, NEW u \in User, NEW r, NEW a \in Server, NEW c \in Channel, Rejoins(u, c, r), OnlyIn(a, c),
         c \notin Shown, UNCHANGED apart, on' = on
  PROVE  Rejoins(u, c, r)'
  <1> DEFINE s == home[u]
  <1>1. UNCHANGED registry /\ home' = home /\ Shown' = Shown /\ s \in Server
        BY DEF OnlyIn, registry, Shown, RegistryOK
  <1>2. \A d \in Shown : ops'[s][d] = ops[s][d]
    <2>1. CASE s = a
          BY <2>1 DEF OnlyIn, Shown
    <2>2. CASE s # a
      <3>1. s = Peer(a)
            BY <2>2, <1>1, Pairs
      <3> QED BY <3>1 DEF OnlyIn, SameMembers
    <2> QED BY <2>1, <2>2
  <1>3. Unmoded(u)'
        BY <1>1, <1>2 DEF Rejoins, Unmoded
  <1>4. Turns(u, Tail(r))'
        BY <1>1, TurnsStay DEF Rejoins
  <1>5. PICK t, n, mode : t = Peer(s) /\ n = Head(r).of[1] /\ mode = Head(r).of[3]
        OBVIOUS
  <1>6. Joining(t, n, c, u, mode)
        BY <1>5 DEF Rejoins
  <1>7. TablesAgree' /\ AgreeIn(Shown \ {c})'
        BY <1>1, <1>6, SameTables, OthersAgree DEF Joining
  <1>8. Joining(t, n, c, u, mode)'
        BY <1>1, <1>7 DEF Joining
  <1>9. t = Peer(home'[u])
        BY <1>1, <1>5
  <1> QED BY <1>1, <1>3, <1>4, <1>5, <1>8, <1>9 DEF Rejoins

LEMMA SameRejoins ==
  ASSUME NEW u \in User, NEW c, NEW r, Rejoins(u, c, r), UNCHANGED <<registry, channels, apart>>
  PROVE  Rejoins(u, c, r)'
  <1>1. /\ home' = home /\ table' = table /\ on' = on /\ ops' = ops /\ made' = made
        /\ Shown' = Shown
        BY DEF registry, channels, Shown
  <1>2. Unmoded(u)' /\ Turns(u, Tail(r))'
        BY <1>1, UnmodedStays, TurnsStay DEF Rejoins
  <1>3. PICK t, n, mode : t = Peer(home[u]) /\ n = Head(r).of[1] /\ mode = Head(r).of[3]
        OBVIOUS
  <1>4. Joining(t, n, c, u, mode)
        BY <1>3 DEF Rejoins
  <1>5. TablesAgree' /\ AgreeIn(Shown \ {c})'
        BY <1>1, <1>4 DEF Joining, TablesAgree, AgreeIn
  <1>6. Outside(t, c, u) => Outside(t, c, u)'
        BY <1>1 DEF Outside
  <1>7. Joining(t, n, c, u, mode)'
        BY <1>1, <1>4, <1>5, <1>6 DEF Joining
  <1> QED BY <1>1, <1>2, <1>3, <1>7 DEF Rejoins

LEMMA AgreeButIn ==
  ASSUME Agree, NEW c
  PROVE  TablesAgree /\ AgreeIn(Shown \ {c})
  BY DEF Agree, AgreeIn

LEMMA CmodeAgrees ==
  ASSUME Inv, InCourse, NEW u \in User, NEW s, Cmode(u, s)
  PROVE  InCourse'
  <1>1. PICK x \in Good(u), r \in Seq(Steps) :
               Under(u, x, r) /\ x \in Steps /\ x.at = s /\ x.do = "CMODE" /\ s \in Server
        BY UnderWay DEF Cmode
  <1>2. PICK c, sign, m, v, b : c = x.of[1] /\ sign = x.of[2] /\ m = x.of[3] /\ v = table[s][m] /\ b = home[u]
        OBVIOUS
  <1>3. Orderly /\ BeforeCmode(u, x, r)
        BY <1>1 DEF Under, Before
  <1>4. c \in Channel /\ b \in Server /\ s = Peer(b) /\ b = Peer(s) /\ v \in User \cup {Nobody}
    <2>1. x.of \in Channel \X {"+o", "-o"} \X Nick
          BY <1>1, StepArgs
    <2>2. c \in Channel /\ m \in Nick
          BY <2>1, <1>2
    <2>3. v \in User \cup {Nobody}
          BY <2>2, <1>1, <1>2 DEF RegistryOK
    <2>4. b \in Server /\ s = Peer(b)
          BY <1>1, <1>2, <1>3 DEF BeforeCmode, RegistryOK
    <2> QED BY <2>2, <2>3, <2>4, Pairs
  <1>5. Arg(u)[1] = c /\ Arg(u)[2] = sign /\ Arg(u)[3] = m
        BY <1>1, <1>2 DEF Arg, Under
  <1>6. UNCHANGED <<registry, made, on, quit, failed, apart>> /\ Then(u, <<>>)
        BY DEF Cmode, sessions
  <1>7. ASSUME c \in made[s], v # Nobody
        PROVE  OnlyIn(s, c) /\ ops'[s][c] = Turned(ops[s][c], sign, v)
    <2>1. PICK P : P = Turned(ops[s][c], sign, v)
          OBVIOUS
    <2>2. ops' = [ops EXCEPT ![s][c] = P]
          BY <2>1, <1>2, <1>5, <1>7 DEF Cmode
    <2>3. UNCHANGED <<registry, made, on>>
          BY <1>6
    <2>4. OnlyIn(s, c) /\ ops'[s][c] = P
          BY <2>2, <2>3, <1>1, <1>4, OpsIs
    <2> QED BY <2>1, <2>4
  <1>8. OnlyIn(s, c)
    <2>1. CASE ~(c \in made[s] /\ v # Nobody)
      <3>1. UNCHANGED ops
            BY <2>1, <1>2, <1>5 DEF Cmode
      <3> QED BY <3>1, <1>6, NothingIn DEF channels
    <2> QED BY <2>1, <1>7
  <1>9. home' = home /\ Shown' = Shown /\ ops'[b] = ops[b] /\ on' = on /\ made' = made
        BY <1>4, <1>6, <1>8 DEF registry, Shown, OnlyIn, SameMembers
  <1>10. \/ /\ Checks(u, r) /\ Unchecked(u, r)
            /\ Turning(s, c, sign, u) /\ (c \in Shown => v = u)
         \/ r = <<>> /\ c \notin Shown /\ Agree
         \/ c \notin Shown /\ Rejoins(u, c, r)
         \/ \E w \in User : /\ r = <<Do(b, "mode", <<c, sign, w>>)>> /\ Agree
                            /\ c \in Shown => v = w /\ w \in on[b][c]
        BY <1>1, <1>2, <1>3, <1>4 DEF BeforeCmode
  <1>11. CASE /\ Checks(u, r) /\ Unchecked(u, r)
              /\ Turning(s, c, sign, u) /\ (c \in Shown => v = u)
    <2>1. c \in Shown => /\ on'[s][c] = on[Peer(s)][c] /\ ops'[s][c] = ops[Peer(s)][c]
                         /\ c \in made'[s] <=> c \in made[Peer(s)]
          BY <1>7, <1>9, <1>11, NoneAssumption DEF Turning
    <2>2. Orderly' /\ Agree'
      <3>1. TablesAgree /\ AgreeIn(Shown \ {c})
            BY <1>11 DEF Turning
      <3> QED BY <3>1, <2>1, <1>1, <1>3, <1>4, <1>6, <1>8, Settles
    <2>3. Checks(u, r)' /\ Unchecked(u, r)'
          BY <1>2, <1>9, <1>11 DEF Checks, Unchecked, Check
    <2>4. Course(u, r)'
          BY <2>2, <2>3, ChecksGoOn
    <2> QED BY <2>2, <2>4, <1>1, <1>6, StepEnds
  <1>12. CASE r = <<>> /\ c \notin Shown /\ Agree
    <2>1. Orderly' /\ Agree'
          BY <1>1, <1>3, <1>4, <1>6, <1>8, <1>12, AgreeButIn, Settles
    <2>2. Course(u, r)'
          BY <2>1, <1>12, NothingLeft
    <2> QED BY <2>1, <2>2, <1>1, <1>6, StepEnds
  <1>13. CASE c \notin Shown /\ Rejoins(u, c, r)
    <2>1. Rejoins(u, c, r)'
          BY <1>1, <1>4, <1>6, <1>8, <1>13, RejoinsStay
    <2>2. Orderly'
          BY <1>1, <1>3, <1>4, <1>6, <1>8, <1>9, <1>13, OneChannelOrder
    <2>3. Course(u, r)'
          BY <2>1, RejoinGoesOn
    <2> QED BY <2>2, <2>3, <1>1, <1>6, StepEnds
  <1>14. ASSUME NEW w \in User, r = <<Do(b, "mode", <<c, sign, w>>)>>, Agree,
                c \in Shown => v = w /\ w \in on[b][c]
         PROVE  InCourse'
    <2>1. PICK y : y = Do(b, "mode", <<c, sign, w>>)
          OBVIOUS
    <2>2. y.do = "mode" /\ y.at = b /\ y.of[1] = c /\ y.of[2] = sign /\ y.of[3] = w
          BY <2>1 DEF Do
    <2>3. c \in Shown =>
            /\ on[s][c] = on[b][c] /\ ops[s][c] = ops[b][c] /\ w \in on[b][c]
            /\ c \in made[s] /\ c \in made[b]
            /\ ops[s][c] \subseteq on[s][c] /\ \A z \in on[s][c] : Known(s, z)
            /\ c \in Registered => on[s][c] = {}
      <3> SUFFICES ASSUME c \in Shown
                   PROVE  /\ on[s][c] = on[b][c] /\ ops[s][c] = ops[b][c] /\ w \in on[b][c]
                          /\ c \in made[s] /\ c \in made[b]
                          /\ ops[s][c] \subseteq on[s][c] /\ \A z \in on[s][c] : Known(s, z)
                          /\ c \in Registered => on[s][c] = {}
          OBVIOUS
      <3>1. on[s][c] = on[b][c] /\ ops[s][c] = ops[b][c] /\ w \in on[b][c]
            BY <1>1, <1>4, <1>14 DEF Agree, AgreeIn
      <3>2. c \in made[s] /\ c \in made[b]
            BY <3>1, <1>1, <1>4 DEF ChannelsOK
      <3>3. /\ ops[s][c] \subseteq on[s][c] /\ \A z \in on[s][c] : Known(s, z)
            /\ c \in Registered => on[s][c] = {}
            BY <1>1, <1>3 DEF Orderly, MembersAreKnown
      <3> QED BY <3>1, <3>2, <3>3
    <2>4. c \in Shown => ops'[s][c] = Turned(ops[s][c], sign, w)
          BY <2>3, <1>7, <1>14, NoneAssumption
    <2>5. Orderly'
      <3>1. c \in Shown => ops'[s][c] \subseteq on'[s][c]
            BY <2>3, <2>4, <1>9 DEF Turned
      <3> QED BY <3>1, <2>3, <1>1, <1>3, <1>4, <1>6, <1>8, <1>9, OneChannelOrder
    <2>6. Turning(b, c, sign, w)'
      <3>1. TablesAgree' /\ AgreeIn(Shown \ {c})'
            BY <1>1, <1>4, <1>6, <1>8, <1>14, AgreeButIn, SameTables, OthersAgree
      <3>2. c \in Shown' => /\ w \in on'[b][c] /\ c \in made'[b] /\ c \in made'[s]
                            /\ on'[s][c] = on'[b][c] /\ ops'[s][c] = Turned(ops'[b][c], sign, w)
            BY <2>3, <2>4, <1>9
      <3> QED BY <3>1, <3>2, <1>4 DEF Turning
    <2>7. BeforeMode(u, y, <<>>)'
          BY <2>2, <2>6, <1>2, <1>9 DEF BeforeMode
    <2>8. Before(u, y, <<>>)'
          BY <2>2, <2>7 DEF Before
    <2>9. r = <<y>>
          BY <2>1, <1>14
    <2>10. Course(u, r)'
          BY <2>8, <2>9, OneLeft
    <2> QED BY <2>5, <2>10, <1>1, <1>6, StepEnds
  <1> QED BY <1>10, <1>11, <1>12, <1>13, <1>14

LEMMA CheckModesAgrees ==
  ASSUME Inv, InCourse, NEW u \in User, NEW s, CheckModes(u, s)
  PROVE  InCourse'
  <1>1. PICK x \in Good(u), r \in Seq(Steps) :
               Under(u, x, r) /\ x \in Steps /\ x.at = s /\ x.do = "CheckModes" /\ s \in Server
        BY UnderWay DEF CheckModes
  <1>2. PICK c, p, n : c = x.of[2] /\ p = Peer(s) /\ n = nick[s][u]
        OBVIOUS
  <1>3. Orderly /\ BeforeCheckModes(u, x, r)
        BY <1>1 DEF Under, Before
  <1>4. /\ c \in Channel /\ p \in Server /\ Peer(p) = s /\ p # s
        /\ x = Check(u, c) /\ s = home[u] /\ x.of[1] = u
    <2>1. c \in Channel /\ p \in Server /\ Peer(p) = s /\ p # s
          BY <1>1, <1>2, StepArgs, Pairs
    <2>2. x = Check(u, c)
          BY <1>2, <1>3 DEF BeforeCheckModes
    <2>3. x.at = home[u] /\ x.of[1] = u
          BY <2>2 DEF Check, Do
    <2> QED BY <2>1, <2>2, <2>3, <1>1
  <1>5. Arg(u)[1] = u /\ Arg(u)[2] = c
        BY <1>1, <1>2, <1>4 DEF Arg, Under
  <1>6. UNCHANGED <<registry, made, on, quit, failed, apart>>
        BY DEF CheckModes, sessions
  <1>7. PICK deserves, sign : /\ deserves = (c \in Registered /\ n \in Trusted)
                              /\ sign = IF deserves THEN "+o" ELSE "-o"
        OBVIOUS
  <1>8. \/ /\ Checks(u, r) /\ Agree
           /\ \A d \in Shown : u \in ops[s][d] =>
                d = c \/ \E i \in 1..Len(r) : r[i] = Check(u, d)
        \/ r = <<>> /\ c \notin Shown /\ Agree
        \/ Rejoins(u, c, r)
        BY <1>2, <1>3, <1>4 DEF BeforeCheckModes
  <1>9. home' = home /\ Shown' = Shown /\ on' = on /\ made' = made /\ table' = table
        BY <1>6 DEF registry, Shown
  <1>10. c \in Shown => /\ ops[s][c] \subseteq on[s][c] /\ \A z \in on[s][c] : Known(s, z)
                        /\ c \in Registered => on[s][c] = {}
        BY <1>1, <1>3 DEF Orderly, MembersAreKnown
  <1>11. CASE u \notin on[s][c] \/ (u \in ops[s][c] <=> deserves)
    <2>1. Then(u, <<>>) /\ UNCHANGED ops
          BY <1>2, <1>5, <1>7, <1>11 DEF CheckModes
    <2>2. UNCHANGED channels
          BY <2>1, <1>6 DEF channels
    <2>3. Orderly'
          BY <2>2, <1>3, <1>6, SameOrder
    <2>4. c \in Shown => u \notin ops[s][c]
          BY <1>7, <1>10, <1>11
    <2>5. Agree => Agree'
          BY <2>2, <1>6, SameAgree
    <2>6. Course(u, r)'
      <3>1. CASE /\ Checks(u, r) /\ Agree
                 /\ \A d \in Shown : u \in ops[s][d] =>
                      d = c \/ \E i \in 1..Len(r) : r[i] = Check(u, d)
        <4>1. Checks(u, r)'
              BY <3>1, <1>9 DEF Checks, Check
        <4>2. \A d \in Shown : u \in ops[s][d] => \E i \in 1..Len(r) : r[i] = Check(u, d)
              BY <3>1, <2>4
        <4>3. Unchecked(u, r)'
              BY <4>2, <2>1, <1>4, <1>9 DEF Unchecked, Check
        <4> QED BY <4>1, <4>3, <3>1, <2>5, ChecksGoOn
      <3>2. CASE r = <<>> /\ c \notin Shown /\ Agree
            BY <3>2, <2>5, NothingLeft
      <3>3. CASE Rejoins(u, c, r)
        <4>1. Rejoins(u, c, r)'
              BY <3>3, <2>2, <1>6, SameRejoins
        <4> QED BY <4>1, RejoinGoesOn
      <3> QED BY <3>1, <3>2, <3>3, <1>8
    <2> QED BY <2>1, <2>3, <2>6, <1>1, <1>6, StepEnds
  <1>12. CASE ~(u \notin on[s][c] \/ (u \in ops[s][c] <=> deserves))
    <2>1. PICK y : y = Do(p, "CMODE", <<c, sign, n>>)
          OBVIOUS
    <2>2. PICK P : P = IF deserves THEN ops[s][c] \cup {u} ELSE ops[s][c] \ {u}
          OBVIOUS
    <2>3. ops' = [ops EXCEPT ![s][c] = P] /\ Then(u, <<y>>)
          BY <2>1, <2>2, <1>2, <1>5, <1>7, <1>12 DEF CheckModes, Tell
    <2>4. OnlyIn(s, c) /\ ops'[s][c] = P
          BY <2>3, <1>1, <1>4, <1>6, OpsIs
    <2>5. c \in Shown => /\ ~deserves /\ sign = "-o" /\ u \in ops[s][c]
                         /\ ops'[s][c] = ops[s][c] \ {u} /\ u \in on[s][c] /\ Known(s, u)
          BY <2>2, <2>4, <1>7, <1>10, <1>12
    <2>6. Orderly'
          BY <2>4, <2>5, <1>1, <1>3, <1>4, <1>6, <1>9, <1>10, OneChannelOrder
    <2>7. y.do = "CMODE" /\ y.at = p /\ y.of[1] = c /\ y.of[2] = sign /\ y.of[3] = n
          BY <2>1 DEF Do
    <2>8. p = Peer(home'[u]) /\ home'[u] = s
          BY <1>2, <1>4, <1>9
    <2>9. BeforeCmode(u, y, r)'
      <3>1. CASE /\ Checks(u, r) /\ Agree
                 /\ \A d \in Shown : u \in ops[s][d] =>
                      d = c \/ \E i \in 1..Len(r) : r[i] = Check(u, d)
        <4>1. Checks(u, r)'
              BY <3>1, <1>9 DEF Checks, Check
        <4>2. \A d \in Shown : u \in ops'[s][d] => \E i \in 1..Len(r) : r[i] = Check(u, d)
          <5>1. \A d \in Shown : d # c => ops'[s][d] = ops[s][d]
                BY <2>4 DEF OnlyIn, Shown
          <5> QED BY <5>1, <3>1, <2>5
        <4>3. Unchecked(u, r)'
              BY <4>2, <1>4, <1>9 DEF Unchecked, Check
        <4>4. TablesAgree' /\ AgreeIn(Shown \ {c})'
              BY <3>1, <2>4, <1>1, <1>4, <1>6, AgreeButIn, SameTables, OthersAgree
        <4>5. c \in Shown => /\ on[p][c] = on[s][c] /\ ops[p][c] = ops[s][c]
                             /\ c \in made[p] /\ c \in made[s]
          <5> SUFFICES ASSUME c \in Shown
                       PROVE  /\ on[p][c] = on[s][c] /\ ops[p][c] = ops[s][c]
                              /\ c \in made[p] /\ c \in made[s]
              OBVIOUS
          <5>1. on[p][c] = on[s][c] /\ ops[p][c] = ops[s][c]
                BY <3>1, <1>1, <1>2 DEF Agree, AgreeIn
          <5> QED BY <5>1, <2>5, <1>1, <1>4 DEF ChannelsOK
        <4>6. ops'[p] = ops[p]
              BY <2>4, <1>2 DEF OnlyIn, SameMembers
        <4>7. Turning(p, c, sign, u)'
          <5>1. c \in Shown' => /\ u \in on'[p][c] /\ c \in made'[p] /\ c \in made'[s]
                                /\ on'[s][c] = on'[p][c] /\ ops'[s][c] = Turned(ops'[p][c], sign, u)
                BY <4>5, <4>6, <2>5, <1>9 DEF Turned
          <5>2. Peer(p) = s
                BY <1>4
          <5> QED BY <5>1, <5>2, <4>4 DEF Turning
        <4>8. c \in Shown => table'[p][n] = u
          <5>1. TablesAgree
                BY <3>1 DEF Agree
          <5>2. Known(s, u) => table[p][n] = u
                BY <5>1, <1>1, <1>2, <1>3, KnownOnBoth
          <5> QED BY <5>2, <2>5, <1>9
        <4> QED BY <4>1, <4>3, <4>7, <4>8, <2>7, <2>8, <1>9 DEF BeforeCmode
      <3>2. CASE r = <<>> /\ c \notin Shown /\ Agree
        <4>1. Agree'
              BY <3>2, <2>4, <1>1, <1>3, <1>4, <1>6, AgreeButIn, Settles
        <4> QED BY <4>1, <3>2, <2>7, <2>8, <1>9 DEF BeforeCmode
      <3>3. CASE Rejoins(u, c, r)
        <4>1. c \notin Shown
              BY <3>3, <2>5, <1>4 DEF Rejoins, Unmoded
        <4>2. Rejoins(u, c, r)'
              BY <4>1, <3>3, <2>4, <1>1, <1>4, <1>6, RejoinsStay
        <4> QED BY <4>1, <4>2, <2>7, <2>8, <1>9 DEF BeforeCmode
      <3> QED BY <3>1, <3>2, <3>3, <1>8
    <2>10. Before(u, y, r)'
          BY <2>7, <2>9 DEF Before
    <2> QED BY <2>3, <2>6, <2>10, <1>1, <1>6, StepSends
  <1> QED BY <1>11, <1>12

\* The turns of the loop of Cycle, all of them.
LEMMA TurnsOfAll ==
  ASSUME Inv', NEW u \in User, NEW s, s = home'[u], NEW his \in SetToSeqs(ChannelsOf(s, u)')
  PROVE  LET t == [i \in DOMAIN his |-> Do(s, "Cycle part", <<u, his[i]>>)]
         IN  t \in Seq(Steps) /\ Turns(u, t)'
  <1> DEFINE C == ChannelsOf(s, u)'
             n == Len(his)
             Turn(c) == Do(s, "Cycle part", <<u, c>>)
             t == [i \in DOMAIN his |-> Turn(his[i])]
  <1>1. C \in SUBSET Channel /\ his \in SetToSeqs(C) /\ \A c \in C : u \in on'[s][c]
        BY DEF ChannelsOf
  <1>2. his \in Seq(Channel)
        BY <1>1, InOrder
  <1>3. n \in Nat /\ DOMAIN his = 1 .. n
        BY <1>2
  <1>4. his \in [1 .. Cardinality(C) -> C]
        BY <1>1 DEF SetToSeqs
  <1>5. \A i \in 1 .. n : his[i] \in C /\ his[i] \in Channel
        BY <1>1, <1>3, <1>4
  <1>6. s \in Server
        BY DEF RegistryOK
  <1>7. \A c \in Channel : Turn(c) \in Steps
        BY <1>6 DEF Do, Steps
  <1> HIDE DEF n, Turn, C
  <1>8. t = [i \in 1 .. n |-> Turn(his[i])] /\ \A i \in 1 .. n : Turn(his[i]) \in Steps
        BY <1>3, <1>5, <1>7
  <1>9. t \in Seq(Steps) /\ Len(t) = n /\ \A i \in 1 .. n : t[i] = Turn(his[i])
        BY <1>3, <1>8
  <1> HIDE DEF t
  <1>10. \A i \in 1 .. Len(t) : /\ his[i] \in Channel /\ u \in on'[home'[u]][his[i]]
                                /\ t[i] = Do(home'[u], "Cycle part", <<u, his[i]>>)
        BY <1>1, <1>5, <1>9 DEF Turn
  <1>11. Turns(u, t)'
        BY <1>10 DEF Turns
  <1>12. t \in Seq(Steps) /\ Turns(u, t)'
        BY <1>9, <1>11
  <1> QED BY <1>12 DEF t, Turn

LEMMA CycleAgrees ==
  ASSUME Inv, Inv', InCourse, NEW u \in User, NEW s, Cycle(u, s)
  PROVE  InCourse'
  <1>1. PICK x \in Good(u), r \in Seq(Steps) :
               Under(u, x, r) /\ x \in Steps /\ x.at = s /\ x.do = "Cycle" /\ s \in Server
        BY UnderWay DEF Cycle
  <1>2. Orderly /\ BeforeCycle(u, x, r)
        BY <1>1 DEF Under, Before
  <1>3. r = <<>> /\ Agree /\ Unmoded(u) /\ s = home[u]
        BY <1>1, <1>2 DEF BeforeCycle
  <1>4. UNCHANGED <<registry, channels, quit, failed, apart>>
        BY DEF Cycle, sessions
  <1>5. Orderly' /\ Agree'
        BY <1>2, <1>3, <1>4, SameOrder, SameAgree
  <1>6. CASE Then(u, <<>>)
    <2>1. Course(u, r)'
          BY <1>3, <1>5, NothingLeft
    <2> QED BY <2>1, <1>1, <1>4, <1>5, <1>6, StepEnds
  <1>7. ASSUME NEW his \in SetToSeqs(ChannelsOf(s, u)),
               Then(u, [i \in DOMAIN his |-> Do(s, "Cycle part", <<u, his[i]>>)])
        PROVE  InCourse'
    <2>1. PICK t : t = [i \in DOMAIN his |-> Do(s, "Cycle part", <<u, his[i]>>)]
          OBVIOUS
    <2>2. home' = home /\ Shown' = Shown /\ ops' = ops /\ ChannelsOf(s, u)' = ChannelsOf(s, u)
          BY <1>4 DEF registry, channels, Shown, ChannelsOf
    <2>3. t \in Seq(Steps) /\ Turns(u, t)'
      <3>1. s = home'[u]
            BY <2>2, <1>3
      <3> QED BY <3>1, <2>1, <2>2, TurnsOfAll
    <2>4. todo'[u] = t /\ \A v \in User \ {u} : todo'[v] = <<>>
      <3>1. todo'[u] = t \o r /\ \A v \in User \ {u} : todo'[v] = <<>>
            BY <2>1, <1>1, <1>7, OnlyThis
      <3>2. t \o <<>> = t
            BY <2>3
      <3> QED BY <3>1, <3>2, <1>3
    <2>5. Unmoded(u)'
          BY <2>2, <1>3, UnmodedStays
    <2>6. Course(u, t)'
          BY <2>3, <2>5, <1>5, TurnsGoOn
    <2>7. failed' = {}
          BY <1>1, <1>4 DEF Under
    <2> QED BY <2>4, <2>6, <2>7, <1>5, Follows
  <1> QED BY <1>6, <1>7 DEF Cycle

LEMMA CyclePartAgrees ==
  ASSUME Inv, InCourse, NEW u \in User, NEW s, CyclePart(u, s)
  PROVE  InCourse'
  <1>1. PICK x \in Good(u), r \in Seq(Steps) :
               Under(u, x, r) /\ x \in Steps /\ x.at = s /\ x.do = "Cycle part" /\ s \in Server
        BY UnderWay DEF CyclePart
  <1>2. PICK c, p, n : c = x.of[2] /\ p = Peer(s) /\ n = nick[s][u]
        OBVIOUS
  <1>3. Orderly /\ BeforeCyclePart(u, x, r)
        BY <1>1 DEF Under, Before
  <1>4. /\ c \in Channel /\ s = home[u] /\ Agree /\ Unmoded(u) /\ Turns(u, r)
        /\ c \in Shown => u \in on[s][c]
        BY <1>1, <1>2, <1>3, StepArgs DEF BeforeCyclePart
  <1>5. Arg(u)[2] = c
        BY <1>1, <1>2 DEF Arg, Under
  <1>6. UNCHANGED <<registry, channels, quit, apart>>
        BY DEF CyclePart, sessions
  <1>7. CASE u \in on[s][c]
    <2>1. PICK y : y = Do(p, "SPART", <<n, c>>)
          OBVIOUS
    <2>2. PICK z : z = Do(s, "Cycle join", <<u, c>>)
          OBVIOUS
    <2>3. Then(u, <<y, z>>) /\ UNCHANGED failed
          BY <2>1, <2>2, <1>2, <1>5, <1>7 DEF CyclePart, Tell
    <2>4. Orderly' /\ Agree'
          BY <1>3, <1>4, <1>6, SameOrder, SameAgree
    <2>5. home' = home /\ Shown' = Shown /\ ops' = ops /\ on' = on /\ table' = table
          BY <1>6 DEF registry, channels, Shown
    <2>6. Turns(u, r)' /\ Unmoded(u)'
          BY <2>5, <1>4, TurnsStay, UnmodedStays
    <2>7. y.do = "SPART" /\ y.at = p /\ y.of[1] = n /\ y.of[2] = c
          BY <2>1 DEF Do
    <2>8. c \in Shown => table[p][n] = u
      <3>1. TablesAgree
            BY <1>4 DEF Agree
      <3>2. c \in Shown => Known(s, u)
            BY <1>1, <1>3, <1>7 DEF Orderly, MembersAreKnown
      <3>3. Known(s, u) => table[p][n] = u
            BY <3>1, <1>1, <1>2, <1>3, KnownOnBoth
      <3> QED BY <3>2, <3>3
    <2>9. PICK q : q = <<z>> \o r
          OBVIOUS
    <2>10. q # <<>> /\ Head(q) = z /\ Tail(q) = r
          BY <2>9, OneMore
    <2>11. BeforeSpart(u, y, q)'
          BY <2>2, <2>4, <2>5, <2>6, <2>7, <2>8, <2>10, <1>2, <1>4 DEF BeforeSpart
    <2>12. Before(u, y, <<z>> \o r)'
          BY <2>7, <2>9, <2>11 DEF Before
    <2> QED BY <2>3, <2>4, <2>12, <1>1, StepSendsTwo
  <1>8. CASE u \notin on[s][c]
    <2>1. Fails(s)
          BY <1>5, <1>8 DEF CyclePart
    <2> QED BY <2>1, <1>4, <1>6, <1>8, FailsOverThis
  <1> QED BY <1>7, <1>8

LEMMA CycleJoinAgrees ==
  ASSUME Inv, InCourse, NEW u \in User, NEW s, CycleJoin(u, s)
  PROVE  InCourse'
  <1>1. PICK x \in Good(u), r \in Seq(Steps) :
               Under(u, x, r) /\ x \in Steps /\ x.at = s /\ x.do = "Cycle join" /\ s \in Server
        BY UnderWay DEF CycleJoin
  <1>2. PICK c, p, n, mode : /\ c = x.of[2] /\ p = Peer(s) /\ n = nick[s][u]
                             /\ mode = IF u \in ops[s][c] THEN "o" ELSE "x"
        OBVIOUS
  <1>3. Orderly /\ BeforeCycleJoin(u, x, r)
        BY <1>1 DEF Under, Before
  <1>4. /\ c \in Channel /\ s = home[u] /\ p \in Server /\ Peer(p) = s
        /\ Parted(p, c, u) /\ Unmoded(u) /\ Turns(u, r)
        BY <1>1, <1>2, <1>3, StepArgs, Pairs DEF BeforeCycleJoin
  <1>5. Arg(u)[2] = c
        BY <1>1, <1>2 DEF Arg, Under
  <1>6. UNCHANGED <<registry, channels, quit, apart>>
        BY DEF CycleJoin, sessions
  <1>7. CASE u \in on[s][c]
    <2>1. PICK y : y = Do(s, "CheckModes", <<u, c>>)
          OBVIOUS
    <2>2. PICK z : z = Do(p, "SJOIN", <<n, c, mode>>)
          OBVIOUS
    <2>3. Then(u, <<y, z>>) /\ UNCHANGED failed
          BY <2>1, <2>2, <1>2, <1>5, <1>7 DEF CycleJoin, Tell
    <2>4. Orderly'
          BY <1>3, <1>6, SameOrder
    <2>5. PICK q : q = <<z>> \o r
          OBVIOUS
    <2>6. q # <<>> /\ Head(q) = z /\ Tail(q) = r
          BY <2>5, OneMore
    <2>7. z.do = "SJOIN" /\ z.at = p /\ z.of[1] = n /\ z.of[2] = c /\ z.of[3] = mode
          BY <2>2 DEF Do
    <2>8. c \in Shown => table[p][n] = u
      <3>1. TablesAgree
            BY <1>4 DEF Parted
      <3>2. c \in Shown => Known(s, u)
            BY <1>1, <1>3, <1>7 DEF Orderly, MembersAreKnown
      <3>3. Known(s, u) => table[p][n] = u
            BY <3>1, <1>1, <1>2, <1>3, KnownOnBoth
      <3> QED BY <3>2, <3>3
    <2>9. Joining(p, n, c, u, mode)
      <3>1. u \in ops[s][c] <=> mode = "o"
            BY <1>2
      <3>2. TablesAgree /\ AgreeIn(Shown \ {c}) /\ (c \in Shown => Outside(p, c, u))
            BY <1>4 DEF Parted
      <3> QED BY <3>1, <3>2, <2>8, <1>4 DEF Joining
    <2>10. Rejoins(u, c, q)
          BY <2>6, <2>7, <2>9, <1>2, <1>4 DEF Rejoins
    <2>11. Rejoins(u, c, q)'
          BY <2>10, <1>6, SameRejoins
    <2>12. y.do = "CheckModes" /\ y.of[2] = c
          BY <2>1 DEF Do
    <2>13. y = Check(u, c)'
          BY <2>1, <1>4, <1>6 DEF Check, registry
    <2>14. BeforeCheckModes(u, y, q)'
          BY <2>11, <2>12, <2>13 DEF BeforeCheckModes
    <2>15. Before(u, y, <<z>> \o r)'
          BY <2>5, <2>12, <2>14 DEF Before
    <2> QED BY <2>3, <2>4, <2>15, <1>1, StepSendsTwo
  <1>8. CASE u \notin on[s][c]
    <2>1. Fails(s)
          BY <1>5, <1>8 DEF CycleJoin
    <2>2. c \notin Shown
          BY <1>4, <1>8 DEF Parted, Outside
    <2> QED BY <2>1, <2>2, <1>4, <1>6, FailsOverThis
  <1> QED BY <1>7, <1>8

-----------------------------------------------------------------------------

\* InCourse is inductive for commands that do not overlap, and says that servers agree at rest.
LEMMA InitInCourse == Init => InCourse
  <1> SUFFICES ASSUME Init PROVE InCourse
      OBVIOUS
  <1>1. OneCommand /\ FailsOnlyApart /\ \A u \in User : todo[u] = <<>>
        BY DEF Init, OneCommand, FailsOnlyApart
  <1>2. home \in [User -> Server] /\ \A s \in Server : Peer(s) \in Server
        BY Pairs DEF Init
  <1>3. Orderly
    <2>1. SessionsAreKnown
          BY <1>2 DEF Init, SessionsAreKnown, Known, Entered
    <2>2. \A s \in Server : OwnNick(s)
          BY DEF Init, OwnNick
    <2>3. \A s \in Server : MembersAreKnown(s)
          BY DEF Init, MembersAreKnown, Shown
    <2> QED BY <2>1, <2>2, <2>3 DEF Orderly
  <1>4. Agree
    <2>1. TablesAgree
          BY <1>2 DEF Init, TablesAgree
    <2>2. AgreeIn(Shown)
          BY <1>2 DEF Init, AgreeIn, Shown
    <2> QED BY <2>1, <2>2 DEF Agree
  <1> QED BY <1>1, <1>3, <1>4 DEF InCourse

\* Nothing is done at all.
LEMMA StutterInCourse ==
  ASSUME Inv, InCourse, UNCHANGED vars
  PROVE  InCourse'
  <1>1. /\ home' = home /\ table' = table /\ nick' = nick
        /\ made' = made /\ on' = on /\ ops' = ops
        /\ quit' = quit /\ todo' = todo /\ failed' = failed /\ apart' = apart
        BY DEF vars, registry, channels, sessions
  <1>2. UNCHANGED <<registry, channels, quit, apart>> /\ UNCHANGED <<registry, channels, apart>>
        BY <1>1 DEF registry, channels
  <1>3. Shown' = Shown
        BY <1>1 DEF Shown
  <1>4. /\ TablesAgree' <=> TablesAgree
        /\ \A C : AgreeIn(C)' <=> AgreeIn(C)
        BY <1>1 DEF TablesAgree, AgreeIn
  <1>5. Agree' <=> Agree
        BY <1>3, <1>4 DEF Agree
  <1>6. AgreeIn(Shown)' <=> AgreeIn(Shown)
        BY <1>1, <1>3 DEF AgreeIn
  <1>7. \A c : AgreeIn(Shown \ {c})' <=> AgreeIn(Shown \ {c})
        BY <1>1, <1>3 DEF AgreeIn
  <1>8. \A a, c, v : Outside(a, c, v)' <=> Outside(a, c, v)
        BY <1>1 DEF Outside
  <1>9. /\ \A a, c, v : Parted(a, c, v)' <=> Parted(a, c, v)
        /\ \A a, n, c, v, mode : Joining(a, n, c, v, mode)' <=> Joining(a, n, c, v, mode)
        BY <1>1, <1>3, <1>4, <1>7, <1>8 DEF Parted, Joining
  <1>10. /\ \A a, n, c, m : Kicked(a, n, c, m)' <=> Kicked(a, n, c, m)
         /\ \A a, c, sign, v : Turning(a, c, sign, v)' <=> Turning(a, c, sign, v)
        BY <1>1, <1>3, <1>4, <1>7 DEF Kicked, Turning
  <1>11. /\ \A s, v : Known(s, v)' <=> Known(s, v)
         /\ \A a, h : Without(a, h)' <=> Without(a, h)
        BY <1>1, <1>3 DEF Known, Without
  <1>12. \A u, n : Renaming(u, n)' <=> Renaming(u, n)
        BY <1>1, <1>6, <1>11 DEF Renaming
  <1>13. /\ \A u, t : Rest(u, t)' <=> Rest(u, t)
         /\ \A u, c : Check(u, c)' = Check(u, c)
        BY <1>1 DEF Rest, Check
  <1>14. /\ \A u, t : Checks(u, t)' <=> Checks(u, t)
         /\ \A u, t : Unchecked(u, t)' <=> Unchecked(u, t)
        BY <1>1, <1>3, <1>13 DEF Checks, Unchecked
  <1>15. /\ \A u : Unmoded(u)' <=> Unmoded(u)
         /\ \A u, t : Turns(u, t)' <=> Turns(u, t)
        BY <1>1, <1>3 DEF Unmoded, Turns
  <1>16. \A u, c, r : Rejoins(u, c, r)' <=> Rejoins(u, c, r)
        BY <1>1, <1>9, <1>15 DEF Rejoins
  <1>17. ASSUME NEW u \in User, NEW x, NEW r, Before(u, x, r)
         PROVE  Before(u, x, r)'
    <2>1. CASE x.do = "Exit"
      <3>1. BeforeExit(u, x, r)
            BY <2>1, <1>17 DEF Before
      <3>2. BeforeExit(u, x, r)'
            BY <3>1, <1>1, <1>5, <1>11, <1>13 DEF BeforeExit
      <3> QED BY <3>2, <2>1 DEF Before
    <2>2. CASE x.do = "exited"
      <3>1. BeforeExited(u, x, r)
            BY <2>2, <1>17 DEF Before
      <3>2. BeforeExited(u, x, r)'
            BY <3>1, <1>5, <1>13 DEF BeforeExited
      <3> QED BY <3>2, <2>2 DEF Before
    <2>3. CASE x.do \in {"QUIT", "SKILL"}
      <3>1. BeforeQuit(u, x, r)
            BY <2>3, <1>17 DEF Before
      <3>2. BeforeQuit(u, x, r)'
            BY <3>1, <1>1, <1>5, <1>11, <1>13 DEF BeforeQuit
      <3> QED BY <3>2, <2>3 DEF Before
    <2>4. CASE x.do = "cmdNick"
      <3>1. BeforeCmdNick(u, x, r)
            BY <2>4, <1>17 DEF Before
      <3>2. BeforeCmdNick(u, x, r)'
            BY <3>1, <1>1, <1>5 DEF BeforeCmdNick
      <3> QED BY <3>2, <2>4 DEF Before
    <2>5. CASE x.do = "SNICK"
      <3>1. BeforeSnick(u, x, r)
            BY <2>5, <1>17 DEF Before
      <3>2. BeforeSnick(u, x, r)'
            BY <3>1, <1>1, <1>3, <1>11 DEF BeforeSnick
      <3> QED BY <3>2, <2>5 DEF Before
    <2>6. CASE x.do = "NICK"
      <3>1. BeforeNick(u, x, r)
            BY <2>6, <1>17 DEF Before
      <3>2. BeforeNick(u, x, r)'
            BY <3>1, <1>1, <1>5 DEF BeforeNick
      <3> QED BY <3>2, <2>6 DEF Before
    <2>7. CASE x.do = "rename"
      <3>1. BeforeRename(u, x, r)
            BY <2>7, <1>17 DEF Before
      <3>2. BeforeRename(u, x, r)'
            BY <3>1, <1>1, <1>12 DEF BeforeRename
      <3> QED BY <3>2, <2>7 DEF Before
    <2>8. CASE x.do = "CheckModes"
      <3>1. BeforeCheckModes(u, x, r)
            BY <2>8, <1>17 DEF Before
      <3>2. BeforeCheckModes(u, x, r)'
            BY <3>1, <1>1, <1>3, <1>5, <1>13, <1>14, <1>16 DEF BeforeCheckModes
      <3> QED BY <3>2, <2>8 DEF Before
    <2>9. CASE x.do = "CMODE"
      <3>1. BeforeCmode(u, x, r)
            BY <2>9, <1>17 DEF Before
      <3>2. BeforeCmode(u, x, r)'
            BY <3>1, <1>1, <1>3, <1>5, <1>10, <1>14, <1>16 DEF BeforeCmode
      <3> QED BY <3>2, <2>9 DEF Before
    <2>10. CASE x.do = "Cycle"
      <3>1. BeforeCycle(u, x, r)
            BY <2>10, <1>17 DEF Before
      <3>2. BeforeCycle(u, x, r)'
            BY <3>1, <1>1, <1>5, <1>15 DEF BeforeCycle
      <3> QED BY <3>2, <2>10 DEF Before
    <2>11. CASE x.do = "Cycle part"
      <3>1. BeforeCyclePart(u, x, r)
            BY <2>11, <1>17 DEF Before
      <3>2. BeforeCyclePart(u, x, r)'
            BY <3>1, <1>1, <1>3, <1>5, <1>15 DEF BeforeCyclePart
      <3> QED BY <3>2, <2>11 DEF Before
    <2>12. CASE x.do = "SPART"
      <3>1. BeforeSpart(u, x, r)
            BY <2>12, <1>17 DEF Before
      <3>2. BeforeSpart(u, x, r)'
            BY <3>1, <1>1, <1>3, <1>5, <1>15 DEF BeforeSpart
      <3> QED BY <3>2, <2>12 DEF Before
    <2>13. CASE x.do = "Cycle join"
      <3>1. BeforeCycleJoin(u, x, r)
            BY <2>13, <1>17 DEF Before
      <3>2. BeforeCycleJoin(u, x, r)'
            BY <3>1, <1>1, <1>9, <1>15 DEF BeforeCycleJoin
      <3> QED BY <3>2, <2>13 DEF Before
    <2>14. CASE x.do = "SJOIN"
      <3>1. BeforeSjoin(u, x, r)
            BY <2>14, <1>17 DEF Before
      <3>2. BeforeSjoin(u, x, r)'
            BY <3>1, <1>1, <1>9, <1>15 DEF BeforeSjoin
      <3> QED BY <3>2, <2>14 DEF Before
    <2>15. CASE x.do = "part"
      <3>1. BeforePart(u, x, r)
            BY <2>15, <1>17 DEF Before
      <3>2. BeforePart(u, x, r)'
            BY <3>1, <1>1, <1>9 DEF BeforePart
      <3> QED BY <3>2, <2>15 DEF Before
    <2>16. CASE x.do = "SKICK"
      <3>1. BeforeSkick(u, x, r)
            BY <2>16, <1>17 DEF Before
      <3>2. BeforeSkick(u, x, r)'
            BY <3>1, <1>1, <1>10 DEF BeforeSkick
      <3> QED BY <3>2, <2>16 DEF Before
    <2>17. CASE x.do = "mode"
      <3>1. BeforeMode(u, x, r)
            BY <2>17, <1>17 DEF Before
      <3>2. BeforeMode(u, x, r)'
            BY <3>1, <1>1, <1>10 DEF BeforeMode
      <3> QED BY <3>2, <2>17 DEF Before
    <2>18. CASE x.do \notin {"Exit", "exited", "QUIT", "SKILL", "cmdNick", "SNICK", "NICK", "rename",
                            "CheckModes", "CMODE", "Cycle", "Cycle part", "SPART", "Cycle join",
                            "SJOIN", "part", "SKICK", "mode"}
          BY <2>18 DEF Before
    <2> QED BY <2>1, <2>2, <2>3, <2>4, <2>5, <2>6, <2>7, <2>8, <2>9, <2>10, <2>11,
               <2>12, <2>13, <2>14, <2>15, <2>16, <2>17, <2>18
  <1>18. Orderly => Orderly'
        BY <1>2, SameOrder
  <1>19. \A u \in User : todo[u] # <<>> /\ Course(u, todo[u]) => Course(u, todo[u])'
        BY <1>1, <1>5, <1>17 DEF Course
  <1> QED BY <1>1, <1>5, <1>18, <1>19 DEF InCourse, OneCommand, FailsOnlyApart

LEMMA NextInCourse == MaxCommands = 1 /\ Inv /\ Inv' /\ InCourse /\ [Next]_vars => InCourse'
  <1> SUFFICES ASSUME MaxCommands = 1, Inv, Inv', InCourse, [Next]_vars PROVE InCourse'
      OBVIOUS
  <1>1. CASE UNCHANGED vars
        BY <1>1, StutterInCourse
  <1>2. ASSUME NEW u \in User, Command(u)
        PROVE  InCourse'
        BY <1>2, NickIdentifyAgrees, NickPlainAgrees, QuitAgrees, KillAgrees, JoinFreeAgrees,
           JoinRegisteredAgrees, PartAgrees, KickAgrees, ModeAgrees DEF Command
  <1>3. ASSUME NEW u \in User, Step(u)
        PROVE  InCourse'
        BY <1>3, CmdNickAgrees, RenameAgrees, SnickAgrees, ServerNickAgrees, ExitAgrees,
           ExitedAgrees, ServerQuitAgrees, CheckModesAgrees, CycleAgrees, CyclePartAgrees,
           CycleJoinAgrees, ChannelPartAgrees, ModeHereAgrees, SjoinAgrees, SpartAgrees,
           SkickAgrees, CmodeAgrees DEF Step
  <1> QED BY <1>1, <1>2, <1>3 DEF Next

LEMMA InCourseAgrees == Inv /\ InCourse => ServersAgree
  <1> SUFFICES ASSUME Inv, InCourse, AtRest, NEW s \in Server, NEW p \in Server
               PROVE  /\ table[s] = table[p]
                      /\ \A c \in Channel \ apart :
                           on[s][c] = on[p][c] /\ ops[s][c] = ops[p][c] /\ (c \in made[s] <=> c \in made[p])
      BY DEF ServersAgree
  <1>1. Agree
        BY DEF InCourse, AtRest
  <1>2. CASE s = p
        BY <1>2
  <1>3. CASE s # p
    <2>1. p = Peer(s)
          BY <1>3, Pairs
    <2>2. \A n \in Nick : table[s][n] = table[p][n]
          BY <2>1, <1>1 DEF Agree, TablesAgree
    <2>3. table[s] \in [Nick -> User \cup {Nobody}] /\ table[p] \in [Nick -> User \cup {Nobody}]
          BY DEF RegistryOK
    <2>4. table[s] = table[p]
          BY <2>2, <2>3
    <2> QED BY <2>1, <2>4, <1>1 DEF Agree, AgreeIn, Shown
  <1> QED BY <1>2, <1>3

\* What a command of a user does, both servers do, as long as a command comes when
\* the one before has ended: when the handlers of User.cpp, of the commands and of
\* ParserServer.cpp have returned, both servers lead every nickname to the same user,
\* and have the same users and operators in every channel of which all was announced.
THEOREM CommandsAgree == ASSUME MaxCommands = 1 PROVE Spec => []ServersAgree
  <1> HIDE DEF Inv
  <1> DEFINE I == Inv /\ InCourse
  <1>1. Init => I
        BY InitInv, InitInCourse
  <1>2. I /\ [Next]_vars => I'
        BY NextInv, NextInCourse
  <1>3. I => ServersAgree
        BY InCourseAgrees
  <1> HIDE DEF I
  <1> QED BY <1>1, <1>2, <1>3, PTL DEF Spec

\* As long as commands do not overlap, a server fails only over a channel the other has
\* not announced to it: SPART dereferences the result of GetChannel (ParserServer.cpp:173),
\* which is null only for such a channel, and no Channel::part, mode or turn of Cycle
\* meets a user or a channel that is gone.
THEOREM CommandsFailOnlyApart == ASSUME MaxCommands = 1 PROVE Spec => []FailsOnlyApart
  <1> HIDE DEF Inv
  <1> DEFINE I == Inv /\ InCourse
  <1>1. Init => I
        BY InitInv, InitInCourse
  <1>2. I /\ [Next]_vars => I'
        BY NextInv, NextInCourse
  <1>3. I => FailsOnlyApart
        BY DEF InCourse
  <1> HIDE DEF I
  <1> QED BY <1>1, <1>2, <1>3, PTL DEF Spec

=============================================================================
