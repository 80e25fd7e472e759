------------------------------ MODULE ZeusBans ------------------------------
(***************************************************************************)
(* Bans and flood protection of the channels of one ZeusiRCd server: the   *)
(* lists bans and pbans, the timer every Ban object starts when it is made, *)
(* the flood counter and flood mode.  A channel object is deleted when its *)
(* last user leaves and made again by the next JOIN, while the Ban objects *)
(* of the old channel live on with their timers.  A handler, ExpireBan     *)
(* included, is one step.  Who holds @ or % is left open (ZeusChannels).   *)
(***************************************************************************)
EXTENDS Naturals, FiniteSets

CONSTANTS
    User,        \* nick!ident@host of the users
    Chan,        \* channel names, compared without case
    Registered,  \* channels with a row in CANALES
    Oper,        \* users with mode o
    Trusted,     \* users with access to the registered channels
    Mask,        \* ban masks
    Matches,     \* <<m, x>>: Utils::Match(m, x), x a mask or a user
    Obj,         \* Ban and pBan objects; bound: how many exist at a time
    MaxBans,     \* maxbans
    MaxFlood,    \* bound: the largest FLOOD option, 999 in the code
    NoBan        \* no such object

Ban == [canal : Chan, mascara : Mask]

ASSUME NoBanAssumption      == NoBan \notin Ban
ASSUME RegisteredAssumption == Registered \subseteq Chan
ASSUME MatchesAssumption    == Matches \subseteq Mask \X (Mask \cup User)
ASSUME MaxBansAssumption    == MaxBans \in Nat
ASSUME MaxFloodAssumption   == MaxFlood \in Nat

VARIABLES
    live,     \* the map Channels
    users,    \* Channel::users
    bans,     \* Channel::bans
    pbans,    \* Channel::pbans
    ban,      \* canal and mascara of each object, or NoBan
    armed,    \* the objects whose timer runs
    shown,    \* masks the users of a channel were told of with +b, less -b
    limit,    \* option FLOOD of each channel, 0 when unset
    flood,    \* Channel::flood, counted up to MaxFlood
    onFlood   \* channels with is_flood

banVars   == <<bans, pbans, ban, armed, shown>>
floodVars == <<limit, flood, onFlood>>
vars == <<live, users, banVars, floodVars>>

Listed(c) == bans[c] \cup pbans[c]
Masked(S, m) == {o \in S : ban[o].mascara = m}

\* A channel without users bans nobody.
IsBan(x, c) == users[c] # {} /\ \E o \in Listed(c) : <<ban[o].mascara, x>> \in Matches

-----------------------------------------------------------------------------
(* Users come and go. *)

\* increaseflood on the channels C, with the users they have before or after:
\* without FLOOD nothing is counted, and at the limit flood mode begins.
IncreaseFlood(C) ==
    LET counts == {c \in C : limit[c] > 0}
        more(c) == IF c \in counts /\ flood[c] < MaxFlood THEN flood[c] + 1 ELSE flood[c]
    IN
    /\ flood' = [c \in Chan |-> more(c)]
    /\ onFlood' = onFlood \cup {c \in counts : more(c) >= limit[c]}
    /\ UNCHANGED limit

Enter(u, c) ==
    /\ u \notin users[c]
    /\ live' = live \cup {c}
    /\ users' = [users EXCEPT ![c] = @ \cup {u}]
    /\ UNCHANGED banVars

\* The channel object goes; its Ban objects do not, and their timers run on.
\* (Nothing refers to a pBan object any more.)
Deleted(c) ==
    /\ live' = live \ {c}
    /\ ban' = [o \in Obj |-> IF o \in pbans[c] THEN NoBan ELSE ban[o]]
    /\ bans' = [bans EXCEPT ![c] = {}]
    /\ pbans' = [pbans EXCEPT ![c] = {}]
    /\ shown' = [shown EXCEPT ![c] = {}]
    /\ flood' = [flood EXCEPT ![c] = 0]
    /\ onFlood' = onFlood \ {c}
    /\ UNCHANGED <<armed, limit>>

\* JOIN of an unregistered channel looks neither at bans nor at floods.
Join(u, c) ==
    /\ c \in Registered /\ u \notin Oper => ~IsBan(u, c) /\ c \notin onFlood
    /\ Enter(u, c)
    /\ IF c \in Registered THEN IncreaseFlood({c}) ELSE UNCHANGED floodVars

\* SAJOIN, and SJOIN of another server.
Brought(u, c) == Enter(u, c) /\ UNCHANGED floodVars

\* PART; its increaseflood on a channel that is deleted next does not last.
Part(u, c) ==
    /\ u \in users[c]
    /\ users' = [users EXCEPT ![c] = @ \ {u}]
    /\ IF users[c] = {u} THEN Deleted(c)
       ELSE IncreaseFlood({c}) /\ UNCHANGED <<live, banVars>>

\* QUIT, SAPART, and SPART of another server.
Leave(u, c) ==
    /\ u \in users[c]
    /\ users' = [users EXCEPT ![c] = @ \ {u}]
    /\ IF users[c] = {u} THEN Deleted(c) ELSE UNCHANGED <<live, banVars, floodVars>>

\* KICK: the channel stays, empty if u kicks himself.
Kicked(u, c) ==
    /\ u \in users[c] \ Oper
    /\ users' = [users EXCEPT ![c] = @ \ {u}]
    /\ UNCHANGED <<live, banVars, floodVars>>

\* PRIVMSG and NOTICE to a channel.
Speak(u, c) ==
    /\ c \in onFlood => u \in Trusted
    /\ u \in users[c] /\ ~IsBan(u, c)
    /\ IncreaseFlood({c})
    /\ UNCHANGED <<live, users, banVars>>

\* AWAY counts in every channel of the user it is shown in.
Away(u) ==
    /\ IncreaseFlood({c \in Chan : u \in users[c] /\ (c \in onFlood => u \in Trusted)})
    /\ UNCHANGED <<live, users, banVars>>

\* Mutant: the largest parameter is one too large.
CsFloodAbove(c, n) ==
    /\ c \in Registered
    /\ limit' = [limit EXCEPT ![c] = n + 1]
    /\ UNCHANGED <<live, users, banVars, flood, onFlood>>

\* CS MODE +flood n and -flood leave the counter and flood mode as they are;
\* +flood is refused only while the option is 1.
CsFlood(c, n) ==
    /\ c \in Registered
    /\ IF n = 0 THEN limit[c] # 0 ELSE limit[c] # 1
    /\ limit' = [limit EXCEPT ![c] = n]
    /\ UNCHANGED <<live, users, banVars, flood, onFlood>>

-----------------------------------------------------------------------------
(* Bans. *)

\* Who may speak MODE: @ and % of a registered channel, IRC operators anywhere.
MaySpeakModes(u, c) == c \in live /\ (u \in Oper \/ (c \in Registered /\ u \in users[c]))

New(o, c, m) ==
    /\ ban[o] = NoBan
    /\ ban' = [ban EXCEPT ![o] = [canal |-> c, mascara |-> m]]
    /\ UNCHANGED <<live, users, floodVars>>

\* setBan and SBAN: the constructor of Ban starts the timer.
SetBan(o, c, m) ==
    /\ New(o, c, m)
    /\ bans' = [bans EXCEPT ![c] = @ \cup {o}]
    /\ armed' = armed \cup {o}
    /\ UNCHANGED pbans

\* setpBan and SPBAN.
SetpBan(o, c, m) ==
    /\ New(o, c, m)
    /\ pbans' = [pbans EXCEPT ![c] = @ \cup {o}]
    /\ UNCHANGED <<bans, armed, shown>>

\* Mutant: the object is deleted and stays in the list.
UnBanKeepsEntry(D, c) ==
    /\ ban' = [o \in Obj |-> IF o \in D THEN NoBan ELSE ban[o]]
    /\ armed' = armed \ D
    /\ UNCHANGED <<live, users, bans, pbans, floodVars>>

\* UnBan of the objects D: erased from the list of the channel, and deleted.
UnBan(D, c) ==
    /\ bans' = [bans EXCEPT ![c] = @ \ D]
    /\ ban' = [o \in Obj |-> IF o \in D THEN NoBan ELSE ban[o]]
    /\ armed' = armed \ D
    /\ UNCHANGED <<live, users, pbans, floodVars>>

\* Mutant: the users are not told.
UntoldShown(c, m) == shown

ToldOff(c, m) == [shown EXCEPT ![c] = @ \ {m}]
ToldOn(c, m)  == [shown EXCEPT ![c] = @ \cup {m}]

\* MODE +b, refused when any ban matches the mask itself.
BanOn(u, o, c, m) ==
    /\ MaySpeakModes(u, c)
    /\ ~IsBan(m, c) /\ Cardinality(bans[c]) < MaxBans
    /\ SetBan(o, c, m)
    /\ shown' = ToldOn(c, m)

\* MODE -b removes one ban with exactly this mask.
BanOff(u, o, c, m) ==
    /\ MaySpeakModes(u, c)
    /\ IsBan(m, c) /\ o \in Masked(bans[c], m)
    /\ UnBan({o}, c)
    /\ shown' = ToldOff(c, m)

\* MODE +B and -B: bans without a timer.
PBanOn(u, o, c, m) ==
    /\ MaySpeakModes(u, c)
    /\ ~IsBan(m, c) /\ Cardinality(pbans[c]) < MaxBans
    /\ SetpBan(o, c, m)

PBanOff(u, o, c, m) ==
    /\ MaySpeakModes(u, c)
    /\ IsBan(m, c) /\ o \in Masked(pbans[c], m)
    /\ pbans' = [pbans EXCEPT ![c] = @ \ {o}]
    /\ ban' = [ban EXCEPT ![o] = NoBan]
    /\ UNCHANGED <<live, users, bans, armed, shown, floodVars>>

\* SBAN and SPBAN of a burst: nobody is told.
BurstBan(o, c, m) ==
    /\ c \in live /\ ~IsBan(m, c)
    /\ \/ SetBan(o, c, m) /\ UNCHANGED shown
       \/ SetpBan(o, c, m)

\* CMODE +b of another server asks for neither duplicates nor the limit.
\* (CMODE +B and -B are answered with an error: the mask is no nickname.)
ServerBanOn(o, c, m) ==
    /\ c \in live
    /\ SetBan(o, c, m)
    /\ shown' = ToldOn(c, m)

\* CMODE -b deletes the bans with this mask while it walks over the list: after
\* the first one the walk may go on or stop anywhere.
ServerBanOff(D, c, m) ==
    /\ c \in live
    /\ D # {} /\ D \subseteq Masked(bans[c], m)
    /\ UnBan(D, c)
    /\ shown' = ToldOff(c, m)

\* Mutant: a ban of a channel without users never expires.
ExpireBanWithUsers(o) ==
    LET c == ban[o].canal IN
    /\ o \in armed
    /\ users[c] # {}
    /\ UnBan({o}, c) /\ shown' = ToldOff(c, ban[o].mascara)

\* Ban::ExpireBan looks the channel up by name: a channel made later under the
\* same name is told of the -b as well.  Without a channel the object is lost.
ExpireBan(o) ==
    LET c == ban[o].canal IN
    /\ o \in armed
    /\ IF c \in live
       THEN UnBan({o}, c) /\ shown' = ToldOff(c, ban[o].mascara)
       ELSE /\ ban' = [ban EXCEPT ![o] = NoBan]
            /\ armed' = armed \ {o}
            /\ UNCHANGED <<live, users, bans, pbans, shown, floodVars>>

-----------------------------------------------------------------------------

Init ==
    /\ live = {} /\ onFlood = {} /\ armed = {}
    /\ users = [c \in Chan |-> {}]
    /\ bans = [c \in Chan |-> {}] /\ pbans = [c \in Chan |-> {}]
    /\ ban = [o \in Obj |-> NoBan]
    /\ shown = [c \in Chan |-> {}]
    /\ limit = [c \in Chan |-> 0] /\ flood = [c \in Chan |-> 0]

UserNext ==
    \E u \in User :
        \/ Away(u)
        \/ \E c \in Chan :
              \/ Join(u, c)
              \/ Brought(u, c)
              \/ Part(u, c)
              \/ Leave(u, c)
              \/ Kicked(u, c)
              \/ Speak(u, c)

BanNext ==
    \E c \in Chan, m \in Mask :
        \/ \E o \in Obj :
              \/ \E u \in User : \/ BanOn(u, o, c, m) \/ BanOff(u, o, c, m)
                                 \/ PBanOn(u, o, c, m) \/ PBanOff(u, o, c, m)
              \/ BurstBan(o, c, m)
              \/ ServerBanOn(o, c, m)
        \/ \E D \in SUBSET Obj : ServerBanOff(D, c, m)

Next ==
    \/ UserNext
    \/ BanNext
    \/ \E c \in Chan, n \in 0..MaxFlood : CsFlood(c, n)
    \/ \E o \in Obj : ExpireBan(o)

Spec == Init /\ [][Next]_vars

\* A timer that was started completes, and its handler runs on a thread of the
\* system executor, whatever the users do.
FairSpec == Spec /\ \A o \in Obj : WF_vars(ExpireBan(o))

-----------------------------------------------------------------------------
(* Properties. *)

\* Shape of the state.
TypeOK ==
    /\ live \subseteq Chan /\ onFlood \subseteq Chan
    /\ users \in [Chan -> SUBSET User]
    /\ bans \in [Chan -> SUBSET Obj] /\ pbans \in [Chan -> SUBSET Obj]
    /\ ban \in [Obj -> Ban \cup {NoBan}]
    /\ armed \subseteq Obj
    /\ shown \in [Chan -> SUBSET Mask]
    /\ limit \in [Chan -> 0..MaxFlood] /\ flood \in [Chan -> 0..MaxFlood]

\* Every object in a list is a live one made for this channel, in this list only;
\* every ban has a running timer and no permanent ban has one.  MODE -b, the
\* servers' -b and the timer delete the same objects, and a timer outlives the
\* channel its ban was made for.
ListsOwnTheirBans ==
    /\ \A c \in Chan : \A o \in Listed(c) : ban[o] # NoBan /\ ban[o].canal = c
    /\ \A c \in Chan : bans[c] \subseteq armed /\ pbans[c] \cap armed = {}
    /\ \A c \in Chan \ live : Listed(c) = {}
    /\ \A o \in armed : ban[o] # NoBan

\* Users are never left with a ban that is gone: every mask they were shown with
\* +b and not with -b is in the list, also after a channel was made again, another
\* server removed some of the duplicates, or an old timer fired.  (The converse
\* fails: an old timer, or one of two duplicates, announces a -b while a ban with
\* that mask stays.)
ShownAreBanned ==
    \A c \in Chan : shown[c] \subseteq {ban[o].mascara : o \in bans[c]}

\* Every ban leaves the list in the end, by MODE, with its channel or by its timer.
BansExpire ==
    \A c \in Chan, o \in Obj : o \in bans[c] ~> o \notin bans[c]

=============================================================================
