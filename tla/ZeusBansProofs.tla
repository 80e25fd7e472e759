--------------------------- MODULE ZeusBansProofs ---------------------------
(***************************************************************************)
(* Proofs about ZeusBans: the lists of bans hold live objects of their own *)
(* channel, each with its timer, and no user is left with a ban that is    *)
(* gone.  Inv is inductive as it stands.  The second part is about         *)
(* Utils::Match: it says what a mask means, for masks and texts of any     *)
(* length, and so the bans mean their masks.                               *)
(***************************************************************************)
EXTENDS ZeusMasks, WellFoundedInduction, TLAPS

Inv == TypeOK /\ ListsOwnTheirBans /\ ShownAreBanned

LEMMA InitEstablishes == Init => Inv
  <1> SUFFICES ASSUME Init PROVE Inv
      OBVIOUS
  <1>1. TypeOK
        BY MaxFloodAssumption DEF Init, TypeOK
  <1>2. ListsOwnTheirBans
        BY DEF Init, ListsOwnTheirBans, Listed
  <1>3. ShownAreBanned
        BY DEF Init, ShownAreBanned
  <1> QED BY <1>1, <1>2, <1>3 DEF Inv

\* IncreaseFlood keeps the counters in their bounds.
LEMMA FloodStep ==
  ASSUME TypeOK, NEW C \in SUBSET Chan, IncreaseFlood(C)
  PROVE  /\ flood' \in [Chan -> 0..MaxFlood] /\ limit' \in [Chan -> 0..MaxFlood]
         /\ onFlood' \subseteq Chan
  <1>1. \A c \in Chan : flood[c] \in 0..MaxFlood
        BY DEF TypeOK
  <1>2. \A n \in 0..MaxFlood : n < MaxFlood => n + 1 \in 0..MaxFlood
        BY MaxFloodAssumption
  <1> QED BY <1>1, <1>2 DEF TypeOK, IncreaseFlood

\* A step that leaves the bans alone, except for users and floods.
LEMMA BansUntouched ==
  ASSUME Inv, UNCHANGED banVars,
         live \subseteq live', live' \subseteq Chan, users' \in [Chan -> SUBSET User],
         flood' \in [Chan -> 0..MaxFlood], limit' \in [Chan -> 0..MaxFlood],
         onFlood' \subseteq Chan
  PROVE  Inv'
  BY DEF Inv, TypeOK, ListsOwnTheirBans, ShownAreBanned, Listed, banVars

LEMMA EnterStep ==
  ASSUME Inv, NEW u \in User, NEW c \in Chan, Enter(u, c),
         UNCHANGED floodVars \/ IncreaseFlood({c})
  PROVE  Inv'
  <1>1. live \subseteq live' /\ live' \subseteq Chan /\ users' \in [Chan -> SUBSET User]
        BY DEF Inv, TypeOK, Enter
  <1>2. /\ flood' \in [Chan -> 0..MaxFlood] /\ limit' \in [Chan -> 0..MaxFlood]
        /\ onFlood' \subseteq Chan
        BY FloodStep DEF Inv, TypeOK, floodVars
  <1> QED BY <1>1, <1>2, BansUntouched DEF Enter

\* Without its channel no list is left, and no user of it.
LEMMA DeletedStep ==
  ASSUME Inv, NEW u \in User, NEW c \in Chan,
         users' = [users EXCEPT ![c] = @ \ {u}], Deleted(c)
  PROVE  Inv'
  <1>1. TypeOK'
        BY MaxFloodAssumption DEF Inv, TypeOK, Deleted
  <1>2. \A d \in Chan : \A o \in bans'[d] \cup pbans'[d] : d # c /\ o \in Listed(d)
        BY DEF Inv, TypeOK, Deleted, Listed
  <1>3. \A d \in Chan : \A o \in Listed(d) : d # c => o \notin pbans[c]
        BY DEF Inv, TypeOK, ListsOwnTheirBans, Listed
  <1>4. \A o \in Obj : o \notin pbans[c] => ban'[o] = ban[o]
        BY DEF Deleted
  <1>5. ListsOwnTheirBans'
    <2>1. \A d \in Chan : \A o \in bans'[d] \cup pbans'[d] : ban'[o] # NoBan /\ ban'[o].canal = d
          BY <1>2, <1>3, <1>4 DEF Inv, TypeOK, ListsOwnTheirBans, Listed
    <2>2. \A d \in Chan : bans'[d] \subseteq armed' /\ pbans'[d] \cap armed' = {}
          BY DEF Inv, TypeOK, ListsOwnTheirBans, Deleted
    <2>3. \A d \in Chan \ live' : bans'[d] \cup pbans'[d] = {}
          BY DEF Inv, TypeOK, ListsOwnTheirBans, Listed, Deleted
    <2>4. \A o \in armed' : ban'[o] # NoBan
          BY <1>4 DEF Inv, TypeOK, ListsOwnTheirBans, Deleted
    <2> QED BY <2>1, <2>2, <2>3, <2>4 DEF ListsOwnTheirBans, Listed
  <1>6. ShownAreBanned'
    <2> SUFFICES ASSUME NEW d \in Chan, NEW m \in shown'[d]
                 PROVE  \E o \in bans'[d] : ban'[o].mascara = m
        BY DEF ShownAreBanned
    <2>1. d # c /\ m \in shown[d]
          BY DEF Inv, TypeOK, Deleted
    <2>2. PICK o \in bans[d] : ban[o].mascara = m
          BY <2>1 DEF Inv, ShownAreBanned
    <2>3. o \in Obj /\ o \in bans'[d] /\ ban'[o] = ban[o]
          BY <2>1, <1>3, <1>4 DEF Inv, TypeOK, Deleted, Listed
    <2> QED BY <2>2, <2>3
  <1> QED BY <1>1, <1>5, <1>6 DEF Inv

LEMMA LeaveStep ==
  ASSUME Inv, NEW u \in User, NEW c \in Chan, Part(u, c) \/ Leave(u, c)
  PROVE  Inv'
  <1>1. CASE users[c] = {u}
        BY <1>1, DeletedStep DEF Part, Leave
  <1>2. CASE users[c] # {u}
    <2>1. UNCHANGED <<live, banVars>> /\ users' \in [Chan -> SUBSET User]
          BY <1>2 DEF Inv, TypeOK, Part, Leave
    <2>2. /\ flood' \in [Chan -> 0..MaxFlood] /\ limit' \in [Chan -> 0..MaxFlood]
          /\ onFlood' \subseteq Chan
          BY <1>2, FloodStep DEF Inv, TypeOK, floodVars, Part, Leave
    <2> QED BY <2>1, <2>2, BansUntouched DEF Inv, TypeOK
  <1> QED BY <1>1, <1>2

LEMMA TalkStep ==
  ASSUME Inv, NEW u \in User, NEW c \in Chan, Kicked(u, c) \/ Speak(u, c) \/ Away(u)
  PROVE  Inv'
  <1>1. UNCHANGED <<live, banVars>> /\ users' \in [Chan -> SUBSET User]
        BY DEF Inv, TypeOK, Kicked, Speak, Away
  <1>2. /\ flood' \in [Chan -> 0..MaxFlood] /\ limit' \in [Chan -> 0..MaxFlood]
        /\ onFlood' \subseteq Chan
    <2>1. CASE Kicked(u, c)
          BY <2>1 DEF Inv, TypeOK, Kicked, floodVars
    <2>2. CASE Speak(u, c)
          BY <2>2, FloodStep DEF Inv, Speak
    <2>3. CASE Away(u)
          BY <2>3, FloodStep DEF Inv, Away
    <2> QED BY <2>1, <2>2, <2>3
  <1> QED BY <1>1, <1>2, BansUntouched DEF Inv, TypeOK

\* A new object is in no list and has no timer yet.
LEMMA FreeObject ==
  ASSUME Inv, NEW o \in Obj, ban[o] = NoBan
  PROVE  o \notin armed /\ \A c \in Chan : o \notin bans[c] /\ o \notin pbans[c]
  BY DEF Inv, ListsOwnTheirBans, Listed

LEMMA BanMade ==
  ASSUME NEW c \in Chan, NEW m \in Mask
  PROVE  LET b == [canal |-> c, mascara |-> m]
         IN  b \in Ban /\ b # NoBan /\ b.canal = c /\ b.mascara = m
  BY NoBanAssumption DEF Ban

\* setBan, told to the users or not.
LEMMA SetBanStep ==
  ASSUME Inv, NEW o \in Obj, NEW c \in live, NEW m \in Mask,
         SetBan(o, c, m), UNCHANGED shown \/ shown' = ToldOn(c, m)
  PROVE  Inv'
  <1> USE DEF SetBan, New
  <1>0. c \in Chan /\ ban[o] = NoBan
        BY DEF Inv, TypeOK
  <1>1. TypeOK'
        BY <1>0, BanMade DEF Inv, TypeOK, ToldOn, floodVars
  <1>2. ban'[o].canal = c /\ ban'[o].mascara = m /\ ban'[o] # NoBan
        BY <1>0, BanMade DEF Inv, TypeOK
  <1>3. \A p \in Obj \ {o} : ban'[p] = ban[p]
        BY DEF Inv, TypeOK
  <1>a. /\ \A d \in Chan : bans'[d] = IF d = c THEN bans[d] \cup {o} ELSE bans[d]
        /\ \A d \in Chan : pbans'[d] = pbans[d]
        BY <1>0 DEF Inv, TypeOK
  <1>4. ListsOwnTheirBans'
    <2>1. ASSUME NEW d \in Chan, NEW p \in bans'[d] \cup pbans'[d]
          PROVE  p \in Obj /\ ((p = o /\ d = c) \/ (p # o /\ p \in Listed(d)))
      <3>1. p \in Listed(d) \/ (p = o /\ d = c)
            BY <1>a, <2>1 DEF Listed
      <3>2. o \notin Listed(d)
            BY <1>0, FreeObject DEF Listed
      <3>3. Listed(d) \subseteq Obj
            BY DEF Inv, TypeOK, Listed
      <3> QED BY <3>1, <3>2, <3>3
    <2>2. \A d \in Chan : \A p \in bans'[d] \cup pbans'[d] : ban'[p] # NoBan /\ ban'[p].canal = d
          BY <1>2, <1>3, <2>1 DEF Inv, TypeOK, ListsOwnTheirBans, Listed
    <2>3. \A d \in Chan : bans'[d] \subseteq armed' /\ pbans'[d] \cap armed' = {}
          BY <1>0, FreeObject DEF Inv, TypeOK, ListsOwnTheirBans
    <2>4. \A d \in Chan \ live' : bans'[d] \cup pbans'[d] = {}
          BY DEF Inv, TypeOK, ListsOwnTheirBans, Listed
    <2>5. \A p \in armed' : ban'[p] # NoBan
          BY <1>2, <1>3 DEF Inv, TypeOK, ListsOwnTheirBans
    <2> QED BY <2>2, <2>3, <2>4, <2>5 DEF ListsOwnTheirBans, Listed
  <1>5. ShownAreBanned'
    <2> SUFFICES ASSUME NEW d \in Chan, NEW n \in shown'[d]
                 PROVE  \E p \in bans'[d] : ban'[p].mascara = n
        BY DEF ShownAreBanned
    <2>1. CASE n \in shown[d]
      <3>1. PICK p \in bans[d] : ban[p].mascara = n
            BY <2>1 DEF Inv, ShownAreBanned
      <3>2. p \in Obj /\ p # o /\ p \in bans'[d]
            BY <1>0, FreeObject DEF Inv, TypeOK
      <3> QED BY <3>1, <3>2, <1>3
    <2>2. CASE n \notin shown[d]
      <3>1. d = c /\ n = m
            BY <2>2 DEF Inv, TypeOK, ToldOn
      <3>2. o \in bans'[c]
            BY <1>0 DEF Inv, TypeOK
      <3> QED BY <3>1, <3>2, <1>2
    <2> QED BY <2>1, <2>2
  <1> QED BY <1>1, <1>4, <1>5 DEF Inv

LEMMA SetpBanStep ==
  ASSUME Inv, NEW o \in Obj, NEW c \in live, NEW m \in Mask, SetpBan(o, c, m)
  PROVE  Inv'
  <1> USE DEF SetpBan, New
  <1>0. c \in Chan /\ ban[o] = NoBan
        BY DEF Inv, TypeOK
  <1>1. TypeOK'
        BY <1>0, BanMade DEF Inv, TypeOK, floodVars
  <1>2. ban'[o].canal = c /\ ban'[o] # NoBan
        BY <1>0, BanMade DEF Inv, TypeOK
  <1>3. \A p \in Obj \ {o} : ban'[p] = ban[p]
        BY DEF Inv, TypeOK
  <1>a. /\ \A d \in Chan : pbans'[d] = IF d = c THEN pbans[d] \cup {o} ELSE pbans[d]
        /\ \A d \in Chan : bans'[d] = bans[d]
        BY <1>0 DEF Inv, TypeOK
  <1>4. ListsOwnTheirBans'
    <2>1. ASSUME NEW d \in Chan, NEW p \in bans'[d] \cup pbans'[d]
          PROVE  p \in Obj /\ ((p = o /\ d = c) \/ (p # o /\ p \in Listed(d)))
      <3>1. p \in Listed(d) \/ (p = o /\ d = c)
            BY <1>a, <2>1 DEF Listed
      <3>2. o \notin Listed(d)
            BY <1>0, FreeObject DEF Listed
      <3>3. Listed(d) \subseteq Obj
            BY DEF Inv, TypeOK, Listed
      <3> QED BY <3>1, <3>2, <3>3
    <2>2. \A d \in Chan : \A p \in bans'[d] \cup pbans'[d] : ban'[p] # NoBan /\ ban'[p].canal = d
          BY <1>2, <1>3, <2>1 DEF Inv, TypeOK, ListsOwnTheirBans, Listed
    <2>3. \A d \in Chan : bans'[d] \subseteq armed' /\ pbans'[d] \cap armed' = {}
          BY <1>0, FreeObject DEF Inv, TypeOK, ListsOwnTheirBans
    <2>4. \A d \in Chan \ live' : bans'[d] \cup pbans'[d] = {}
          BY DEF Inv, TypeOK, ListsOwnTheirBans, Listed
    <2>5. \A p \in armed' : ban'[p] # NoBan
          BY <1>2, <1>3 DEF Inv, TypeOK, ListsOwnTheirBans
    <2> QED BY <2>2, <2>3, <2>4, <2>5 DEF ListsOwnTheirBans, Listed
  <1>5. ShownAreBanned'
        BY <1>0, <1>3, FreeObject DEF Inv, TypeOK, ShownAreBanned
  <1> QED BY <1>1, <1>4, <1>5 DEF Inv

\* UnBan of objects of one mask, whose list is the one of the channel or gone.
LEMMA UnBanStep ==
  ASSUME Inv, NEW c \in Chan, NEW m \in Mask, NEW D \in SUBSET armed,
         \A o \in D : ban[o].canal = c /\ ban[o].mascara = m,
         UnBan(D, c), shown' = ToldOff(c, m)
  PROVE  Inv'
  <1> USE DEF UnBan
  <1>1. TypeOK'
        BY DEF Inv, TypeOK, ToldOff, floodVars
  <1>2. \A o \in Obj : o \notin D => ban'[o] = ban[o]
        OBVIOUS
  <1>3. \A d \in Chan : \A o \in bans'[d] \cup pbans'[d] : o \in Listed(d) /\ o \notin D
        BY DEF Inv, TypeOK, ListsOwnTheirBans, Listed
  <1>4. ListsOwnTheirBans'
    <2>1. \A d \in Chan : \A o \in bans'[d] \cup pbans'[d] : ban'[o] # NoBan /\ ban'[o].canal = d
          BY <1>2, <1>3 DEF Inv, TypeOK, ListsOwnTheirBans, Listed
    <2>2. \A d \in Chan : bans'[d] \subseteq armed' /\ pbans'[d] \cap armed' = {}
          BY <1>3 DEF Inv, TypeOK, ListsOwnTheirBans
    <2>3. \A d \in Chan \ live' : bans'[d] \cup pbans'[d] = {}
          BY <1>3 DEF Inv, TypeOK, ListsOwnTheirBans
    <2>4. \A o \in armed' : ban'[o] # NoBan
          BY <1>2 DEF Inv, TypeOK, ListsOwnTheirBans
    <2> QED BY <2>1, <2>2, <2>3, <2>4 DEF ListsOwnTheirBans, Listed
  <1>5. ShownAreBanned'
    <2> SUFFICES ASSUME NEW d \in Chan, NEW n \in shown'[d]
                 PROVE  \E o \in bans'[d] : ban'[o].mascara = n
        BY DEF ShownAreBanned
    <2>1. n \in shown[d] /\ (d = c => n # m)
          BY DEF Inv, TypeOK, ToldOff
    <2>2. PICK o \in bans[d] : ban[o].mascara = n
          BY <2>1 DEF Inv, ShownAreBanned
    <2>3. o \in Obj /\ o \notin D
          BY <2>1, <2>2 DEF Inv, TypeOK, ListsOwnTheirBans, Listed
    <2>4. o \in bans'[d]
          BY <2>3 DEF Inv, TypeOK
    <2> QED BY <1>2, <2>2, <2>3, <2>4
  <1> QED BY <1>1, <1>4, <1>5 DEF Inv

LEMMA PBanOffStep ==
  ASSUME Inv, NEW u \in User, NEW o \in Obj, NEW c \in Chan, NEW m \in Mask, PBanOff(u, o, c, m)
  PROVE  Inv'
  <1> USE DEF PBanOff
  <1>0. o \in pbans[c] /\ o \notin armed
        BY DEF Inv, TypeOK, ListsOwnTheirBans, Masked
  <1>1. TypeOK'
        BY DEF Inv, TypeOK, floodVars
  <1>2. \A d \in Chan : \A p \in bans'[d] \cup pbans'[d] : p \in Listed(d) /\ p # o
        BY <1>0 DEF Inv, TypeOK, ListsOwnTheirBans, Listed
  <1>3. \A p \in Obj \ {o} : ban'[p] = ban[p]
        BY DEF Inv, TypeOK
  <1>4. ListsOwnTheirBans'
    <2>1. \A d \in Chan : \A p \in bans'[d] \cup pbans'[d] : ban'[p] # NoBan /\ ban'[p].canal = d
          BY <1>2, <1>3 DEF Inv, TypeOK, ListsOwnTheirBans, Listed
    <2>2. \A d \in Chan : bans'[d] \subseteq armed' /\ pbans'[d] \cap armed' = {}
          BY DEF Inv, TypeOK, ListsOwnTheirBans
    <2>3. \A d \in Chan \ live' : bans'[d] \cup pbans'[d] = {}
          BY <1>2 DEF Inv, TypeOK, ListsOwnTheirBans
    <2>4. \A p \in armed' : ban'[p] # NoBan
          BY <1>0, <1>3 DEF Inv, TypeOK, ListsOwnTheirBans
    <2> QED BY <2>1, <2>2, <2>3, <2>4 DEF ListsOwnTheirBans, Listed
  <1>5. ShownAreBanned'
        BY <1>0, <1>3 DEF Inv, TypeOK, ListsOwnTheirBans, ShownAreBanned
  <1> QED BY <1>1, <1>4, <1>5 DEF Inv

LEMMA ExpireStep ==
  ASSUME Inv, NEW o \in Obj, ExpireBan(o)
  PROVE  Inv'
  <1> DEFINE c == ban[o].canal
             m == ban[o].mascara
  <1>0. o \in armed /\ ban[o] \in Ban
        BY DEF Inv, TypeOK, ListsOwnTheirBans, ExpireBan
  <1>1. c \in Chan /\ m \in Mask
        BY <1>0 DEF Ban
  <1>2. CASE c \in live
        BY <1>0, <1>1, <1>2, UnBanStep DEF ExpireBan
  <1>3. CASE c \notin live
    <2>1. \A d \in Chan : o \notin bans[d] /\ o \notin pbans[d]
          BY <1>0, <1>3 DEF Inv, TypeOK, ListsOwnTheirBans, Listed
    <2>2. /\ ban' = [ban EXCEPT ![o] = NoBan] /\ armed' = armed \ {o}
          /\ UNCHANGED <<live, users, bans, pbans, shown, floodVars>>
          BY <1>3 DEF ExpireBan
    <2>3. TypeOK'
          BY <2>2 DEF Inv, TypeOK, floodVars
    <2>4. \A p \in Obj \ {o} : ban'[p] = ban[p]
          BY <2>2 DEF Inv, TypeOK
    <2>5. ListsOwnTheirBans'
          BY <2>1, <2>2, <2>4 DEF Inv, TypeOK, ListsOwnTheirBans, Listed
    <2>6. ShownAreBanned'
          BY <2>1, <2>2, <2>4 DEF Inv, TypeOK, ShownAreBanned
    <2> QED BY <2>3, <2>5, <2>6 DEF Inv
  <1> QED BY <1>2, <1>3

LEMMA BanStep ==
  ASSUME Inv, BanNext
  PROVE  Inv'
  <1>1. PICK c \in Chan, m \in Mask :
            \/ \E o \in Obj :
                  \/ \E u \in User : \/ BanOn(u, o, c, m) \/ BanOff(u, o, c, m)
                                     \/ PBanOn(u, o, c, m) \/ PBanOff(u, o, c, m)
                  \/ BurstBan(o, c, m)
                  \/ ServerBanOn(o, c, m)
            \/ \E D \in SUBSET Obj : ServerBanOff(D, c, m)
        BY DEF BanNext
  <1>2. ASSUME NEW D \in SUBSET Obj, D \subseteq Masked(bans[c], m)
        PROVE  D \in SUBSET armed /\ \A o \in D : ban[o].canal = c /\ ban[o].mascara = m
        BY <1>2 DEF Inv, ListsOwnTheirBans, Masked, Listed
  <1>3. ASSUME NEW o \in Obj, NEW u \in User, BanOn(u, o, c, m)
        PROVE  Inv'
        BY <1>3, SetBanStep DEF BanOn, MaySpeakModes
  <1>4. ASSUME NEW o \in Obj, NEW u \in User, BanOff(u, o, c, m)
        PROVE  Inv'
        BY <1>4, <1>2, UnBanStep DEF BanOff
  <1>5. ASSUME NEW o \in Obj, NEW u \in User, PBanOn(u, o, c, m)
        PROVE  Inv'
        BY <1>5, SetpBanStep DEF PBanOn, MaySpeakModes
  <1>6. ASSUME NEW o \in Obj, NEW u \in User, PBanOff(u, o, c, m)
        PROVE  Inv'
        BY <1>6, PBanOffStep
  <1>7. ASSUME NEW o \in Obj, BurstBan(o, c, m)
        PROVE  Inv'
        BY <1>7, SetBanStep, SetpBanStep DEF BurstBan
  <1>8. ASSUME NEW o \in Obj, ServerBanOn(o, c, m)
        PROVE  Inv'
        BY <1>8, SetBanStep DEF ServerBanOn
  <1>9. ASSUME NEW D \in SUBSET Obj, ServerBanOff(D, c, m)
        PROVE  Inv'
        BY <1>9, <1>2, UnBanStep DEF ServerBanOff
  <1> QED BY <1>1, <1>3, <1>4, <1>5, <1>6, <1>7, <1>8, <1>9

LEMMA StepPreserves == Inv /\ [Next]_vars => Inv'
  <1> SUFFICES ASSUME Inv, [Next]_vars PROVE Inv'
      OBVIOUS
  <1>1. CASE UNCHANGED vars
        BY <1>1 DEF vars, banVars, floodVars, Inv, TypeOK, ListsOwnTheirBans, ShownAreBanned, Listed
  <1>2. CASE UserNext
    <2>1. PICK u \in User :
              Away(u) \/ \E c \in Chan : \/ Join(u, c) \/ Brought(u, c) \/ Part(u, c)
                                         \/ Leave(u, c) \/ Kicked(u, c) \/ Speak(u, c)
          BY <1>2 DEF UserNext
    <2>2. CASE Away(u)
      <3>1. CASE Chan = {}
            BY <2>2, <3>1 DEF Away, IncreaseFlood, banVars, Inv, TypeOK, ListsOwnTheirBans, ShownAreBanned, Listed
      <3>2. CASE Chan # {}
            BY <2>2, <3>2, TalkStep
      <3> QED BY <3>1, <3>2
    <2>3. ASSUME NEW c \in Chan, Join(u, c) \/ Brought(u, c)
          PROVE  Inv'
          BY <2>3, EnterStep DEF Join, Brought
    <2>4. ASSUME NEW c \in Chan, Part(u, c) \/ Leave(u, c)
          PROVE  Inv'
          BY <2>4, LeaveStep
    <2>5. ASSUME NEW c \in Chan, Kicked(u, c) \/ Speak(u, c)
          PROVE  Inv'
          BY <2>5, TalkStep
    <2> QED BY <2>1, <2>2, <2>3, <2>4, <2>5
  <1>3. CASE BanNext
        BY <1>3, BanStep
  <1>4. ASSUME NEW c \in Chan, NEW n \in 0..MaxFlood, CsFlood(c, n)
        PROVE  Inv'
    <2>1. UNCHANGED <<live, users, banVars, flood, onFlood>> /\ limit' \in [Chan -> 0..MaxFlood]
          BY <1>4 DEF CsFlood, Inv, TypeOK
    <2> QED BY <2>1, BansUntouched DEF Inv, TypeOK
  <1>5. ASSUME NEW o \in Obj, ExpireBan(o)
        PROVE  Inv'
        BY <1>5, ExpireStep
  <1> QED BY <1>1, <1>2, <1>3, <1>4, <1>5 DEF Next

LEMMA Invariance == Spec => []Inv
  BY InitEstablishes, StepPreserves, PTL DEF Spec

\* Type correctness of the lists, the ban objects and the flood counters.
THEOREM BansTypeCorrect == Spec => []TypeOK
  BY Invariance, PTL DEF Inv

\* The lists of a channel hold live objects made for it, bans with a timer and
\* permanent bans without: UnBan, ExpireBan and the deletion of channels never
\* leave a deleted object behind.
THEOREM ListsAlwaysOwnTheirBans == Spec => []ListsOwnTheirBans
  BY Invariance, PTL DEF Inv

\* No user is left with a ban that is gone from the list.
THEOREM ShownAreAlwaysBanned == Spec => []ShownAreBanned
  BY Invariance, PTL DEF Inv

-----------------------------------------------------------------------------
(* Utils::Match. *)

\* A set of natural numbers that is not empty has a least element.
LEMMA Least ==
  ASSUME NEW T \in SUBSET Nat, T # {}
  PROVE  \E n \in T : \A k \in T : n <= k
  <1> DEFINE R == OpToRel(<, Nat)
  <1>1. IsWellFoundedOn(R, Nat)
        BY NatLessThanWellFounded
  <1>2. \A a, b \in Nat : a < b => <<a, b>> \in R
        BY DEF OpToRel
  <1> HIDE DEF R
  <1>3. T \subseteq Nat /\ T # {}
        OBVIOUS
  <1>4. PICK n \in T : \A k \in T : ~(<<k, n>> \in R)
        BY <1>1, <1>3, WFMin
  <1>5. ASSUME NEW k \in T PROVE n <= k
    <2>1. k \in Nat /\ n \in Nat
          BY <1>3
    <2>2. ~(k < n)
          BY <1>2, <1>4, <2>1
    <2> QED BY <2>1, <2>2
  <1> QED BY <1>5

Value == {"yes", "no", "beyond"}

\* How far the places of a call are from the ends.
Left(a, b, p) == (Len(a) + 1 - p[1]) + (Len(b) + 2 - p[2])

Answers(a, b, match) ==
    \A p \in Places(a, b) : match[p] = MatchAt(match, a, b, p[1], p[2])

\* match answers the calls that are less than n away from the ends.
AnswersUpTo(a, b, match, n) ==
    \A p \in Places(a, b) : Left(a, b, p) < n => match[p] = MatchAt(match, a, b, p[1], p[2])

LEMMA NulEndsMask ==
  ASSUME NEW a \in Seq(Char), NEW i \in 1..Len(a) + 1
  PROVE  (At(a, i) = Nul <=> i = Len(a) + 1) /\ (i <= Len(a) => At(a, i) = a[i] /\ a[i] \in Char)
  <1>1. CASE i <= Len(a)
    <2>1. At(a, i) = a[i] /\ a[i] \in Char
          BY <1>1 DEF At
    <2>2. Nul \notin Char
          BY LetterAssumption DEF Char, Nul
    <2> QED BY <2>1, <2>2, <1>1
  <1>2. CASE i = Len(a) + 1
        BY <1>2 DEF At
  <1> QED BY <1>1, <1>2

\* A call makes calls that are nearer to the ends only.
LEMMA CallsNearer ==
  ASSUME NEW a \in Seq(Char), NEW b \in Seq(Char), NEW f, NEW g, NEW p \in Places(a, b),
         \A q \in Places(a, b) : Left(a, b, q) < Left(a, b, p) => f[q] = g[q]
  PROVE  MatchAt(f, a, b, p[1], p[2]) = MatchAt(g, a, b, p[1], p[2])
  <1> DEFINE i == p[1]
             j == p[2]
  <1>1. i \in 1..Len(a) + 1 /\ j \in 1..Len(b) + 2 /\ p = <<i, j>>
        BY DEF Places
  <1>2. Len(a) \in Nat /\ Len(b) \in Nat
        OBVIOUS
  <1> HIDE DEF i, j
  <1>3. ASSUME NEW k \in 1..Len(a) + 1, NEW l \in 1..Len(b) + 2, k >= i, l >= j, k + l > i + j
        PROVE  f[<<k, l>>] = g[<<k, l>>]
    <2>1. <<k, l>> \in Places(a, b)
          BY DEF Places
    <2>2. Left(a, b, <<k, l>>) < Left(a, b, p)
      <3>1. Left(a, b, <<k, l>>) = (Len(a) + 1 - k) + (Len(b) + 2 - l)
            BY DEF Left
      <3>2. Left(a, b, p) = (Len(a) + 1 - i) + (Len(b) + 2 - j)
            BY DEF Left, i, j
      <3>3. i \in Nat /\ j \in Nat /\ k \in Nat /\ l \in Nat
            BY <1>1, <1>2
      <3> QED BY <1>2, <1>3, <3>1, <3>2, <3>3
    <2> QED BY <2>1, <2>2
  <1>4. CASE j > Len(b) + 1
        BY <1>4 DEF MatchAt, i, j
  <1>5. CASE j <= Len(b) + 1 /\ i = Len(a) + 1
    <2>1. At(a, i) = Nul
          BY <1>1, <1>5, NulEndsMask
    <2>2. Nul # "?" /\ Nul # "*"
          BY DEF Nul
    <2> QED BY <2>1, <2>2 DEF MatchAt, i, j
  <1>6. CASE j <= Len(b) + 1 /\ i <= Len(a)
    <2>a. /\ i + 1 \in 1..Len(a) + 1 /\ j + 1 \in 1..Len(b) + 2
          /\ i + 1 >= i /\ j + 1 >= j /\ i >= i /\ j >= j
          /\ (i + 1) + (j + 1) > i + j /\ (i + 1) + j > i + j /\ i + (j + 1) > i + j
          BY <1>1, <1>2, <1>6
    <2>1. f[<<i + 1, j + 1>>] = g[<<i + 1, j + 1>>]
          BY <1>3, <2>a
    <2>2. f[<<i + 1, j>>] = g[<<i + 1, j>>]
          BY <1>1, <1>3, <2>a
    <2>3. f[<<i, j + 1>>] = g[<<i, j + 1>>]
          BY <1>1, <1>3, <2>a
    <2> QED BY <2>1, <2>2, <2>3 DEF MatchAt, i, j
  <1> QED BY <1>1, <1>2, <1>4, <1>5, <1>6

LEMMA TypeOfCall ==
  ASSUME NEW a \in Seq(Char), NEW b \in Seq(Char), NEW f \in [Places(a, b) -> Value],
         NEW p \in Places(a, b)
  PROVE  MatchAt(f, a, b, p[1], p[2]) \in Value
  <1> DEFINE i == p[1]
             j == p[2]
  <1>1. i \in 1..Len(a) + 1 /\ j \in 1..Len(b) + 2
        BY DEF Places
  <1> HIDE DEF i, j
  <1>2. CASE j > Len(b) + 1
        BY <1>2 DEF MatchAt, i, j, Value
  <1>3. CASE j <= Len(b) + 1 /\ i = Len(a) + 1
    <2>1. At(a, i) = Nul
          BY <1>1, <1>3, NulEndsMask
    <2>2. Nul # "?" /\ Nul # "*"
          BY DEF Nul
    <2> QED BY <2>1, <2>2 DEF MatchAt, i, j, Value
  <1>4. CASE j <= Len(b) + 1 /\ i <= Len(a)
    <2>1. /\ <<i + 1, j + 1>> \in Places(a, b) /\ <<i + 1, j>> \in Places(a, b)
          /\ <<i, j + 1>> \in Places(a, b)
          BY <1>1, <1>4 DEF Places
    <2>2. /\ f[<<i + 1, j + 1>>] \in Value /\ f[<<i + 1, j>>] \in Value
          /\ f[<<i, j + 1>>] \in Value
          BY <2>1
    <2> QED BY <2>2 DEF MatchAt, i, j, Value
  <1> QED BY <1>1, <1>2, <1>3, <1>4

\* The recursion of Match has a solution: one that answers the calls less than n away
\* from the ends gives one for n + 1.
LEMMA Answered ==
  ASSUME NEW a \in Seq(Char), NEW b \in Seq(Char)
  PROVE  \E match : match = [p \in Places(a, b) |-> MatchAt(match, a, b, p[1], p[2])]
  <1> DEFINE P == Places(a, b)
             S(n) == \E f \in [P -> Value] : AnswersUpTo(a, b, f, n)
             T == {n \in Nat : ~S(n)}
  <1>1. \A p \in P : Left(a, b, p) \in Nat
    <2> SUFFICES ASSUME NEW p \in P PROVE Left(a, b, p) \in Nat
        OBVIOUS
    <2> DEFINE i == p[1]
               j == p[2]
    <2>1. i \in 1..Len(a) + 1 /\ j \in 1..Len(b) + 2
          BY DEF Places
    <2> HIDE DEF i, j
    <2>2. (Len(a) + 1 - i) \in Nat /\ (Len(b) + 2 - j) \in Nat
          BY <2>1
    <2>3. Left(a, b, p) = (Len(a) + 1 - i) + (Len(b) + 2 - j)
          BY DEF Left, i, j
    <2> QED BY <2>2, <2>3
  <1>2. S(0)
    <2>1. [p \in P |-> "no"] \in [P -> Value]
          BY DEF Value
    <2>2. AnswersUpTo(a, b, [p \in P |-> "no"], 0)
          BY <1>1 DEF AnswersUpTo
    <2> QED BY <2>1, <2>2
  <1>3. ASSUME NEW n \in Nat, S(n) PROVE S(n + 1)
    <2>1. PICK f \in [P -> Value] : AnswersUpTo(a, b, f, n)
          BY <1>3
    <2> DEFINE g == [p \in P |-> IF Left(a, b, p) < n THEN f[p] ELSE MatchAt(f, a, b, p[1], p[2])]
    <2>2. g \in [P -> Value]
          BY <2>1, TypeOfCall
    <2>3. AnswersUpTo(a, b, g, n + 1)
      <3> SUFFICES ASSUME NEW p \in P, Left(a, b, p) < n + 1
                   PROVE  g[p] = MatchAt(g, a, b, p[1], p[2])
          BY DEF AnswersUpTo
      <3>1. \A q \in P : Left(a, b, q) < Left(a, b, p) => f[q] = g[q]
            BY <1>1
      <3>2. MatchAt(f, a, b, p[1], p[2]) = MatchAt(g, a, b, p[1], p[2])
            BY <3>1, CallsNearer
      <3>3. g[p] = MatchAt(f, a, b, p[1], p[2])
            BY <2>1 DEF AnswersUpTo
      <3> QED BY <3>2, <3>3
    <2> QED BY <2>2, <2>3
  <1> HIDE DEF S
  <1>4. T = {}
    <2> SUFFICES ASSUME T # {} PROVE FALSE
        OBVIOUS
    <2>1. PICK n \in T : \A k \in T : n <= k
          BY Least
    <2>2. n \in Nat /\ n # 0 /\ ~S(n)
          BY <1>2
    <2>3. n - 1 \in Nat /\ n - 1 \notin T /\ (n - 1) + 1 = n
          BY <2>1, <2>2
    <2> QED BY <1>3, <2>2, <2>3
  <1> DEFINE m == (Len(a) + 1) + (Len(b) + 2)
  <1>5. S(m)
        BY <1>4
  <1>6. PICK f \in [P -> Value] : AnswersUpTo(a, b, f, m)
        BY <1>5 DEF S
  <1>7. \A p \in P : Left(a, b, p) < m
    <2> SUFFICES ASSUME NEW p \in P PROVE Left(a, b, p) < m
        OBVIOUS
    <2> DEFINE i == p[1]
               j == p[2]
    <2>1. i \in 1..Len(a) + 1 /\ j \in 1..Len(b) + 2
          BY DEF Places
    <2>2. Left(a, b, p) = (Len(a) + 1 - i) + (Len(b) + 2 - j)
          BY DEF Left
    <2> HIDE DEF i, j
    <2> QED BY <2>1, <2>2
  <1>8. f = [p \in P |-> MatchAt(f, a, b, p[1], p[2])]
        BY <1>6, <1>7 DEF AnswersUpTo
  <1> QED BY <1>8

\* Match is what a solution of the recursion says of the whole strings.
LEMMA MatchAnswers ==
  ASSUME NEW a \in Seq(Char), NEW b \in Seq(Char)
  PROVE  \E match : Answers(a, b, match) /\ Match(a, b) = match[<<1, 1>>]
  <1>1. \E match : /\ match = [p \in Places(a, b) |-> MatchAt(match, a, b, p[1], p[2])]
                   /\ Match(a, b) = match[<<1, 1>>]
        BY Answered DEF Match
  <1> QED BY <1>1 DEF Answers

\* What the mask from i on means of the text from j on.
MeansFrom(a, b, i, j) ==
    \E cut \in [i - 1..Len(a) -> 0..Len(b)] :
        /\ cut[i - 1] = j - 1 /\ cut[Len(a)] = Len(b)
        /\ \A k \in i..Len(a) : Fits(a[k], b, cut[k - 1], cut[k])

LEMMA MeansFromStart ==
  ASSUME NEW a \in Seq(Char), NEW b \in Seq(Char)
  PROVE  Means(a, b) <=> MeansFrom(a, b, 1, 1)
  BY DEF Means, MeansFrom

LEMMA MeansAtEnd ==
  ASSUME NEW a \in Seq(Char), NEW b \in Seq(Char), NEW j \in Nat
  PROVE  MeansFrom(a, b, Len(a) + 1, j) <=> j = Len(b) + 1
  <1>1. Len(a) \in Nat /\ Len(b) \in Nat /\ (Len(a) + 1) - 1 = Len(a)
        OBVIOUS
  <1>2. ASSUME MeansFrom(a, b, Len(a) + 1, j) PROVE j = Len(b) + 1
    <2>1. PICK cut \in [Len(a)..Len(a) -> 0..Len(b)] : cut[Len(a)] = j - 1 /\ cut[Len(a)] = Len(b)
          BY <1>1, <1>2 DEF MeansFrom
    <2> QED BY <1>1, <2>1
  <1>3. ASSUME j = Len(b) + 1 PROVE MeansFrom(a, b, Len(a) + 1, j)
    <2> DEFINE c == [k \in Len(a)..Len(a) |-> Len(b)]
    <2>1. c \in [Len(a)..Len(a) -> 0..Len(b)] /\ c[Len(a)] = Len(b) /\ Len(b) = j - 1
          BY <1>1, <1>3
    <2>2. \A k \in (Len(a) + 1)..Len(a) : FALSE
          BY <1>1
    <2> HIDE DEF c
    <2> QED BY <1>1, <2>1, <2>2 DEF MeansFrom
  <1> QED BY <1>2, <1>3

\* The piece of the first character, and the rest.
LEMMA MeansFirst ==
  ASSUME NEW a \in Seq(Char), NEW b \in Seq(Char), NEW i \in 1..Len(a), NEW j \in Nat \ {0}
  PROVE  MeansFrom(a, b, i, j) <=>
           \E l \in 1..Len(b) + 1 :
              j <= Len(b) + 1 /\ Fits(a[i], b, j - 1, l - 1) /\ MeansFrom(a, b, i + 1, l)
  <1>1. Len(a) \in Nat /\ Len(b) \in Nat /\ i \in Nat /\ (i + 1) - 1 = i
        OBVIOUS
  <1>2. ASSUME MeansFrom(a, b, i, j)
        PROVE  \E l \in 1..Len(b) + 1 :
                 j <= Len(b) + 1 /\ Fits(a[i], b, j - 1, l - 1) /\ MeansFrom(a, b, i + 1, l)
    <2>1. PICK cut \in [i - 1..Len(a) -> 0..Len(b)] :
                 /\ cut[i - 1] = j - 1 /\ cut[Len(a)] = Len(b)
                 /\ \A k \in i..Len(a) : Fits(a[k], b, cut[k - 1], cut[k])
          BY <1>2 DEF MeansFrom
    <2>2. i \in i - 1..Len(a) /\ i - 1 \in i - 1..Len(a) /\ i \in i..Len(a) /\ Len(a) \in i..Len(a)
          BY <1>1
    <2>3. cut[i] \in 0..Len(b) /\ j - 1 \in 0..Len(b) /\ Fits(a[i], b, j - 1, cut[i])
          BY <2>1, <2>2
    <2> DEFINE l == cut[i] + 1
               rest == [k \in i..Len(a) |-> cut[k]]
    <2>4. l \in 1..Len(b) + 1 /\ l - 1 = cut[i] /\ j <= Len(b) + 1
          BY <1>1, <2>3
    <2>5. MeansFrom(a, b, i + 1, l)
      <3>1. \A k \in i..Len(a) : k \in i - 1..Len(a)
            BY <1>1
      <3>2. rest \in [i..Len(a) -> 0..Len(b)]
            BY <2>1, <3>1
      <3>3. rest[i] = l - 1 /\ rest[Len(a)] = Len(b)
            BY <2>1, <2>2, <2>4
      <3>4. \A k \in i + 1..Len(a) : k \in i..Len(a) /\ k - 1 \in i..Len(a)
            BY <1>1
      <3>5. \A k \in i + 1..Len(a) : Fits(a[k], b, rest[k - 1], rest[k])
            BY <2>1, <3>4
      <3> HIDE DEF rest, l
      <3> QED BY <1>1, <3>2, <3>3, <3>5 DEF MeansFrom
    <2> HIDE DEF l
    <2> QED BY <2>3, <2>4, <2>5
  <1>3. ASSUME NEW l \in 1..Len(b) + 1,
               j <= Len(b) + 1, Fits(a[i], b, j - 1, l - 1), MeansFrom(a, b, i + 1, l)
        PROVE  MeansFrom(a, b, i, j)
    <2>1. PICK rest \in [i..Len(a) -> 0..Len(b)] :
                 /\ rest[i] = l - 1 /\ rest[Len(a)] = Len(b)
                 /\ \A k \in i + 1..Len(a) : Fits(a[k], b, rest[k - 1], rest[k])
          BY <1>1, <1>3 DEF MeansFrom
    <2> DEFINE cut == [k \in i - 1..Len(a) |-> IF k = i - 1 THEN j - 1 ELSE rest[k]]
    <2>2. \A k \in i - 1..Len(a) : k = i - 1 \/ k \in i..Len(a)
          BY <1>1
    <2>3. j - 1 \in 0..Len(b)
          BY <1>1, <1>3
    <2>4. cut \in [i - 1..Len(a) -> 0..Len(b)]
          BY <2>1, <2>2, <2>3
    <2>5. i - 1 \in i - 1..Len(a) /\ Len(a) \in i - 1..Len(a) /\ Len(a) # i - 1
          BY <1>1
    <2>6. cut[i - 1] = j - 1 /\ cut[Len(a)] = Len(b)
          BY <2>1, <2>5
    <2>7. ASSUME NEW k \in i..Len(a) PROVE Fits(a[k], b, cut[k - 1], cut[k])
      <3>1. k \in i - 1..Len(a) /\ k # i - 1 /\ k - 1 \in i - 1..Len(a)
            BY <1>1
      <3>2. CASE k = i
            BY <1>1, <1>3, <2>1, <3>1, <3>2
      <3>3. CASE k # i
        <4>1. k \in i + 1..Len(a) /\ k - 1 # i - 1
              BY <1>1, <3>3
        <4> QED BY <2>1, <3>1, <4>1
      <3> QED BY <3>2, <3>3
    <2> HIDE DEF cut
    <2> QED BY <2>4, <2>6, <2>7 DEF MeansFrom
  <1> QED BY <1>2, <1>3

LEMMA MeansStar ==
  ASSUME NEW a \in Seq(Char), NEW b \in Seq(Char), NEW i \in 1..Len(a), NEW j \in 1..Len(b) + 1,
         a[i] = "*"
  PROVE  /\ MeansFrom(a, b, i, j) <=> \E l \in j..Len(b) + 1 : MeansFrom(a, b, i + 1, l)
         /\ MeansFrom(a, b, i, j) <=> MeansFrom(a, b, i + 1, j) \/ MeansFrom(a, b, i, j + 1)
  <1>1. Len(b) \in Nat
        OBVIOUS
  <1>2. \A k \in 1..Len(b) + 2 :
          MeansFrom(a, b, i, k) <=> \E l \in k..Len(b) + 1 : MeansFrom(a, b, i + 1, l)
    <2> SUFFICES ASSUME NEW k \in 1..Len(b) + 2
                 PROVE  MeansFrom(a, b, i, k) <=> \E l \in k..Len(b) + 1 : MeansFrom(a, b, i + 1, l)
        OBVIOUS
    <2>1. k \in Nat \ {0}
          OBVIOUS
    <2>2. \A l \in 1..Len(b) + 1 : Fits(a[i], b, k - 1, l - 1) <=> l \in k..Len(b) + 1
          BY <1>1, <2>1 DEF Fits
    <2>3. \A l \in k..Len(b) + 1 : l \in 1..Len(b) + 1 /\ k <= Len(b) + 1
          BY <1>1, <2>1
    <2> QED BY <2>1, <2>2, <2>3, MeansFirst
  <1>3. \A l \in Nat : l \in j..Len(b) + 1 <=> (l = j \/ l \in j + 1..Len(b) + 1)
        BY <1>1
  <1>4. j \in 1..Len(b) + 2 /\ j + 1 \in 1..Len(b) + 2
        BY <1>1
  <1>5. \A l : l \in j..Len(b) + 1 \/ l \in j + 1..Len(b) + 1 => l \in Nat
        BY <1>1
  <1>6. j \in Nat
        OBVIOUS
  <1> QED BY <1>2, <1>3, <1>4, <1>5, <1>6

LEMMA MeansOther ==
  ASSUME NEW a \in Seq(Char), NEW b \in Seq(Char), NEW i \in 1..Len(a), NEW j \in Nat \ {0},
         a[i] # "*"
  PROVE  MeansFrom(a, b, i, j) <=>
           j <= Len(b) /\ (a[i] = "?" \/ a[i] = b[j]) /\ MeansFrom(a, b, i + 1, j + 1)
  <1>1. Len(b) \in Nat
        OBVIOUS
  <1>2. \A l \in 1..Len(b) + 1 : Fits(a[i], b, j - 1, l - 1) <=> l = j + 1 /\ (a[i] = "?" \/ a[i] = b[j])
        BY <1>1 DEF Fits
  <1>3. j + 1 \in 1..Len(b) + 1 <=> j <= Len(b)
        BY <1>1
  <1>4. j <= Len(b) => j <= Len(b) + 1
        BY <1>1
  <1>5. ASSUME MeansFrom(a, b, i, j)
        PROVE  j <= Len(b) /\ (a[i] = "?" \/ a[i] = b[j]) /\ MeansFrom(a, b, i + 1, j + 1)
    <2>1. PICK l \in 1..Len(b) + 1 : Fits(a[i], b, j - 1, l - 1) /\ MeansFrom(a, b, i + 1, l)
          BY <1>5, MeansFirst
    <2> QED BY <1>2, <1>3, <2>1
  <1>6. ASSUME j <= Len(b), a[i] = "?" \/ a[i] = b[j], MeansFrom(a, b, i + 1, j + 1)
        PROVE  MeansFrom(a, b, i, j)
    <2>1. j + 1 \in 1..Len(b) + 1
          BY <1>3, <1>6
    <2>2. Fits(a[i], b, j - 1, (j + 1) - 1)
          BY <1>2, <1>6, <2>1
    <2> QED BY <1>4, <1>6, <2>1, <2>2, MeansFirst
  <1> QED BY <1>5, <1>6

LEMMA MeansInText ==
  ASSUME NEW a \in Seq(Char), NEW b \in Seq(Char), NEW i \in 1..Len(a) + 1, NEW j \in Nat \ {0},
         MeansFrom(a, b, i, j)
  PROVE  j <= Len(b) + 1
  <1>1. CASE i \in 1..Len(a)
        BY <1>1, MeansFirst
  <1>2. CASE i = Len(a) + 1
        BY <1>2, MeansAtEnd
  <1> QED BY <1>1, <1>2

\* The masks and texts of which Utils::Match says all.
Regular(a, b) == Single(a) /\ ~Contains(b, "*")

\* What an answer v at the places i and j says of the rest of the mask and of the text.
Verdict(a, b, i, j, v) ==
    /\ v \in Value
    /\ i = Len(a) + 1 /\ j = Len(b) + 1 => v = "yes"
    /\ v = "yes" => MeansFrom(a, b, i, j)
    /\ v = "beyond" /\ j <= Len(b) + 1 => \E k \in i..Len(a) : a[k] = "?"
    /\ Regular(a, b) /\ v = "no" => ~MeansFrom(a, b, i, j)
    /\ Regular(a, b) /\ v = "beyond" => \A l \in Nat : l >= j => ~MeansFrom(a, b, i, l)

\* A place in the mask from i + 1 on is one from i on.
LEMMA LaterPlace ==
  ASSUME NEW a \in Seq(Char), NEW i \in Nat, \E k \in i + 1..Len(a) : a[k] = "?"
  PROVE  \E k \in i..Len(a) : a[k] = "?"
  <1>1. PICK k \in i + 1..Len(a) : a[k] = "?"
        OBVIOUS
  <1>2. k \in i..Len(a)
        OBVIOUS
  <1> QED BY <1>1, <1>2

\* The character of a text at a place before or at its end.
LEMMA NulEndsText ==
  ASSUME NEW b \in Seq(Char), NEW j \in 1..Len(b) + 1
  PROVE  /\ At(b, j) = Nul <=> j = Len(b) + 1
         /\ j <= Len(b) => At(b, j) = b[j] /\ b[j] # Nul
  <1>1. Nul \notin Char
        BY LetterAssumption DEF Char, Nul
  <1> QED BY <1>1, NulEndsMask

\* A call whose mask is at its end, or whose text is passed.
LEMMA EndRight ==
  ASSUME NEW a \in Seq(Char), NEW b \in Seq(Char), NEW match,
         NEW i \in 1..Len(a) + 1, NEW j \in 1..Len(b) + 2, j = Len(b) + 2 \/ i = Len(a) + 1
  PROVE  Verdict(a, b, i, j, MatchAt(match, a, b, i, j))
  <1> SUFFICES ASSUME NEW v, v = MatchAt(match, a, b, i, j) PROVE Verdict(a, b, i, j, v)
      OBVIOUS
  <1>1. Len(a) \in Nat /\ Len(b) \in Nat /\ i \in Nat \ {0} /\ j \in Nat \ {0}
        OBVIOUS
  <1>2. CASE j = Len(b) + 2
    <2>1. v = "beyond"
          BY <1>1, <1>2 DEF MatchAt
    <2>2. ASSUME NEW l \in Nat, l >= j, MeansFrom(a, b, i, l) PROVE FALSE
      <3>1. l \in Nat \ {0}
            BY <1>1, <2>2
      <3>2. l <= Len(b) + 1
            BY <2>2, <3>1, MeansInText
      <3> QED BY <1>1, <1>2, <2>2, <3>1, <3>2
    <2>3. ~(j <= Len(b) + 1) /\ j # Len(b) + 1
          BY <1>1, <1>2
    <2> QED BY <2>1, <2>2, <2>3 DEF Verdict, Value
  <1>3. CASE j <= Len(b) + 1 /\ i = Len(a) + 1
    <2>1. At(a, i) = Nul /\ Nul # "*" /\ Nul # "?" /\ j \in 1..Len(b) + 1
          BY <1>1, <1>3, NulEndsMask DEF Nul
    <2>2. CASE j = Len(b) + 1
      <3>1. v = "yes"
            BY <1>3, <2>1, <2>2, NulEndsText DEF MatchAt
      <3>2. MeansFrom(a, b, i, j)
            BY <1>1, <1>3, <2>2, MeansAtEnd
      <3> QED BY <3>1, <3>2 DEF Verdict, Value
    <2>3. CASE j <= Len(b)
      <3>1. At(b, j) # Nul /\ j # Len(b) + 1
            BY <1>1, <2>1, <2>3, NulEndsText
      <3>2. v = "no"
            BY <1>3, <2>1, <3>1 DEF MatchAt
      <3>3. ~MeansFrom(a, b, i, j)
            BY <1>1, <1>3, <3>1, MeansAtEnd
      <3> QED BY <3>1, <3>2, <3>3 DEF Verdict, Value
    <2> QED BY <1>1, <1>3, <2>2, <2>3
  <1> QED BY <1>1, <1>2, <1>3

\* A call with another character than '*': it looks at the next ones, or says no.
LEMMA OtherRight ==
  ASSUME NEW a \in Seq(Char), NEW b \in Seq(Char), NEW match,
         NEW i \in 1..Len(a), NEW j \in 1..Len(b) + 1, a[i] # "*",
         \A k \in 1..Len(a) + 1, l \in 1..Len(b) + 2 :
            k >= i /\ l >= j /\ k + l > i + j => Verdict(a, b, k, l, match[<<k, l>>])
  PROVE  Verdict(a, b, i, j, MatchAt(match, a, b, i, j))
  <1> SUFFICES ASSUME NEW v, v = MatchAt(match, a, b, i, j) PROVE Verdict(a, b, i, j, v)
      OBVIOUS
  <1>1. Len(a) \in Nat /\ Len(b) \in Nat /\ i \in Nat \ {0} /\ j \in Nat \ {0}
        OBVIOUS
  <1>2. At(a, i) = a[i] /\ a[i] # Nul
        BY NulEndsText DEF At
  <1>3. i + 1 \in 1..Len(a) + 1 /\ j + 1 \in 1..Len(b) + 2
        BY <1>1
  <1> DEFINE w == match[<<i + 1, j + 1>>]
  <1>4. Verdict(a, b, i + 1, j + 1, w)
    <2>1. i + 1 >= i /\ j + 1 >= j /\ (i + 1) + (j + 1) > i + j
          BY <1>1
    <2> QED BY <1>3, <2>1
  <1>5. \A l \in Nat \ {0} : MeansFrom(a, b, i, l) <=>
           l <= Len(b) /\ (a[i] = "?" \/ a[i] = b[l]) /\ MeansFrom(a, b, i + 1, l + 1)
        BY MeansOther
  <1>6. i # Len(a) + 1
        BY <1>1
  <1>7. CASE a[i] = "?" \/ (j <= Len(b) /\ a[i] = b[j])
    <2>1. v = w
      <3>1. a[i] = "?" \/ a[i] = At(b, j)
            BY <1>7, NulEndsText
      <3> QED BY <1>1, <1>2, <3>1 DEF MatchAt
    <2> HIDE DEF w
    <2>2. MeansFrom(a, b, i + 1, j + 1) => j <= Len(b)
      <3> SUFFICES ASSUME MeansFrom(a, b, i + 1, j + 1) PROVE j <= Len(b)
          OBVIOUS
      <3>1. j + 1 \in Nat \ {0}
            BY <1>1
      <3>2. j + 1 <= Len(b) + 1
            BY <1>3, <3>1, MeansInText
      <3> QED BY <1>1, <3>2
    <2>3. MeansFrom(a, b, i, j) <=> MeansFrom(a, b, i + 1, j + 1)
          BY <1>1, <1>5, <1>7, <2>2
    <2>4. ASSUME v = "beyond" PROVE \E k \in i..Len(a) : a[k] = "?"
      <3>1. CASE a[i] = "?"
        <4>1. i \in i..Len(a)
              BY <1>1
        <4> QED BY <3>1, <4>1
      <3>2. CASE a[i] # "?"
        <4>1. j + 1 <= Len(b) + 1
              BY <1>1, <1>7, <3>2
        <4> QED BY <1>1, <1>4, <2>1, <2>4, <4>1, LaterPlace DEF Verdict
      <3> QED BY <3>1, <3>2
    <2>5. ASSUME Regular(a, b), v = "beyond", NEW l \in Nat, l >= j PROVE ~MeansFrom(a, b, i, l)
      <3>1. l \in Nat \ {0} /\ l + 1 \in Nat /\ l + 1 >= j + 1
            BY <1>1, <2>5
      <3>2. ~MeansFrom(a, b, i + 1, l + 1)
            BY <1>4, <2>1, <2>5, <3>1 DEF Verdict
      <3> QED BY <1>5, <3>1, <3>2
    <2> QED BY <1>4, <1>6, <2>1, <2>3, <2>4, <2>5 DEF Verdict
  <1>8. CASE ~(a[i] = "?" \/ (j <= Len(b) /\ a[i] = b[j]))
    <2>1. At(a, i) # At(b, j)
          BY <1>1, <1>2, <1>8, NulEndsText
    <2>2. v = "no"
          BY <1>1, <1>2, <1>8, <2>1 DEF MatchAt
    <2>3. ~MeansFrom(a, b, i, j)
          BY <1>1, <1>5, <1>8
    <2> QED BY <1>6, <2>2, <2>3 DEF Verdict, Value
  <1> QED BY <1>7, <1>8

\* A '*' at the end of the text means nothing of it if another character follows.
LEMMA StarBeforeOther ==
  ASSUME NEW a \in Seq(Char), NEW b \in Seq(Char), NEW i \in 1..Len(a) - 1,
         a[i] = "*", Single(a)
  PROVE  ~MeansFrom(a, b, i, Len(b) + 1)
  <1>1. i \in 1..Len(a) /\ i + 1 \in 1..Len(a) /\ Len(b) \in Nat /\ Len(b) + 1 \in 1..Len(b) + 1
        OBVIOUS
  <1>2. a[i + 1] # "*"
        BY DEF Single
  <1>3. \A l \in Len(b) + 1..Len(b) + 1 : l \in Nat \ {0} /\ ~(l <= Len(b))
        BY <1>1
  <1>4. \A l \in Len(b) + 1..Len(b) + 1 : ~MeansFrom(a, b, i + 1, l)
        BY <1>1, <1>2, <1>3, MeansOther
  <1> QED BY <1>1, <1>4, MeansStar

\* A call with a '*': it is passed over in the mask first, and then in the text.
LEMMA StarRight ==
  ASSUME NEW a \in Seq(Char), NEW b \in Seq(Char), NEW match,
         NEW i \in 1..Len(a), NEW j \in 1..Len(b) + 1, a[i] = "*",
         \A k \in 1..Len(a) + 1, l \in 1..Len(b) + 2 :
            k >= i /\ l >= j /\ k + l > i + j => Verdict(a, b, k, l, match[<<k, l>>])
  PROVE  Verdict(a, b, i, j, MatchAt(match, a, b, i, j))
  <1> SUFFICES ASSUME NEW v, v = MatchAt(match, a, b, i, j) PROVE Verdict(a, b, i, j, v)
      OBVIOUS
  <1>1. Len(a) \in Nat /\ Len(b) \in Nat /\ i \in Nat \ {0} /\ j \in Nat \ {0}
        OBVIOUS
  <1>2. At(a, i) = "*" /\ "*" # Nul /\ "*" # "?" /\ i # Len(a) + 1
        BY <1>1 DEF At, Nul
  <1>3. i + 1 \in 1..Len(a) + 1 /\ j + 1 \in 1..Len(b) + 2
        BY <1>1
  <1> DEFINE w == match[<<i + 1, j>>]
             x == match[<<i, j + 1>>]
             y == match[<<i + 1, j + 1>>]
  <1>4. /\ Verdict(a, b, i + 1, j, w) /\ Verdict(a, b, i, j + 1, x)
        /\ Verdict(a, b, i + 1, j + 1, y)
    <2>1. /\ i + 1 >= i /\ j + 1 >= j /\ i >= i /\ j >= j
          /\ (i + 1) + j > i + j /\ i + (j + 1) > i + j /\ (i + 1) + (j + 1) > i + j
          BY <1>1
    <2>2. j \in 1..Len(b) + 2 /\ i \in 1..Len(a) + 1
          BY <1>1
    <2> QED BY <1>3, <2>1, <2>2
  <1>5. At(a, i + 1) = Nul <=> i = Len(a)
    <2>1. At(a, i + 1) = Nul <=> i + 1 = Len(a) + 1
          BY <1>3, NulEndsMask
    <2> QED BY <1>1, <2>1
  <1>6. CASE i < Len(a) /\ j = Len(b) + 1
    <2>1. v = "no"
          BY <1>1, <1>2, <1>5, <1>6, NulEndsText DEF MatchAt
    <2>2. Single(a) => ~MeansFrom(a, b, i, j)
      <3>1. i \in 1..Len(a) - 1
            BY <1>1, <1>6
      <3> QED BY <1>6, <3>1, StarBeforeOther
    <2> QED BY <1>2, <2>1, <2>2 DEF Verdict, Value, Regular
  <1>7. CASE j <= Len(b) /\ b[j] = "*"
    <2>1. v = y
      <3>1. At(b, j) = "*"
            BY <1>7, NulEndsText
      <3> QED BY <1>1, <1>2, <3>1 DEF MatchAt
    <2> HIDE DEF y
    <2>2. Contains(b, "*")
      <3>1. j \in 1..Len(b)
            BY <1>1, <1>7
      <3> QED BY <1>7, <3>1 DEF Contains
    <2>3. j + 1 <= Len(b) + 1 /\ j + 1 \in j..Len(b) + 1
          BY <1>1, <1>7
    <2>4. MeansFrom(a, b, i + 1, j + 1) => MeansFrom(a, b, i, j)
          BY <2>3, MeansStar
    <2>5. y = "beyond" => \E k \in i..Len(a) : a[k] = "?"
          BY <1>1, <1>4, <2>3, LaterPlace DEF Verdict
    <2> QED BY <1>2, <1>4, <2>1, <2>2, <2>4, <2>5 DEF Verdict, Regular
  <1>8. CASE ~(i < Len(a) /\ j = Len(b) + 1) /\ ~(j <= Len(b) /\ b[j] = "*")
    <2>1. v = IF w = "no" THEN x ELSE w
      <3>1. At(b, j) # "*"
            BY <1>1, <1>2, <1>8, NulEndsText
      <3>2. ~(At(a, i + 1) # Nul /\ At(b, j) = Nul)
            BY <1>1, <1>5, <1>8, NulEndsText
      <3> QED BY <1>1, <1>2, <3>1, <3>2 DEF MatchAt
    <2> HIDE DEF w, x, y
    <2>2. MeansFrom(a, b, i, j) <=> MeansFrom(a, b, i + 1, j) \/ MeansFrom(a, b, i, j + 1)
          BY MeansStar
    <2>3. j <= Len(b) + 1
          BY <1>1
    <2>4. CASE w = "yes"
          BY <1>2, <1>4, <2>1, <2>2, <2>4 DEF Verdict, Value
    <2>5. CASE w = "beyond"
      <3>1. v = "beyond"
            BY <2>1, <2>5
      <3>2. \E k \in i..Len(a) : a[k] = "?"
            BY <1>1, <1>4, <2>3, <2>5, LaterPlace DEF Verdict
      <3>3. ASSUME Regular(a, b), NEW l \in Nat, l >= j, MeansFrom(a, b, i, l) PROVE FALSE
        <4>1. l \in Nat \ {0} /\ i \in 1..Len(a) + 1
              BY <1>1, <3>3
        <4>2. l \in 1..Len(b) + 1
              BY <1>1, <3>3, <4>1, MeansInText
        <4>3. PICK m \in l..Len(b) + 1 : MeansFrom(a, b, i + 1, m)
              BY <3>3, <4>2, MeansStar
        <4>4. m \in Nat /\ m >= j
              BY <1>1, <3>3, <4>2
        <4> QED BY <1>4, <2>5, <3>3, <4>3, <4>4 DEF Verdict
      <3> QED BY <1>2, <3>1, <3>2, <3>3 DEF Verdict, Value
    <2>6. CASE w = "no"
      <3>1. v = x
            BY <2>1, <2>6
      <3>2. j # Len(b) + 1
        <4> SUFFICES ASSUME j = Len(b) + 1 PROVE FALSE
            OBVIOUS
        <4>1. i + 1 = Len(a) + 1
              BY <1>1, <1>8
        <4> QED BY <1>4, <2>6, <4>1 DEF Verdict
      <3>3. j + 1 <= Len(b) + 1
            BY <1>1, <3>2
      <3>4. v = "beyond" => \E k \in i..Len(a) : a[k] = "?"
            BY <1>4, <3>1, <3>3 DEF Verdict
      <3>5. Regular(a, b) => (MeansFrom(a, b, i, j) <=> MeansFrom(a, b, i, j + 1))
            BY <1>4, <2>2, <2>6 DEF Verdict
      <3>6. ASSUME Regular(a, b), v = "beyond", NEW l \in Nat, l >= j PROVE ~MeansFrom(a, b, i, l)
        <4>1. l = j \/ l >= j + 1
              BY <1>1, <3>6
        <4>2. j + 1 \in Nat /\ j + 1 >= j + 1
              BY <1>1
        <4> QED BY <1>4, <3>1, <3>5, <3>6, <4>1, <4>2 DEF Verdict
      <3> QED BY <1>2, <1>4, <2>2, <3>1, <3>4, <3>5, <3>6 DEF Verdict
    <2> QED BY <1>4, <2>4, <2>5, <2>6 DEF Verdict, Value
  <1> QED BY <1>1, <1>6, <1>7, <1>8

\* A call answers right if the calls it makes do.
LEMMA CallRight ==
  ASSUME NEW a \in Seq(Char), NEW b \in Seq(Char), NEW match,
         NEW i \in 1..Len(a) + 1, NEW j \in 1..Len(b) + 2,
         \A k \in 1..Len(a) + 1, l \in 1..Len(b) + 2 :
            k >= i /\ l >= j /\ k + l > i + j => Verdict(a, b, k, l, match[<<k, l>>])
  PROVE  Verdict(a, b, i, j, MatchAt(match, a, b, i, j))
  <1>1. CASE j = Len(b) + 2 \/ i = Len(a) + 1
        BY <1>1, EndRight
  <1>2. CASE ~(j = Len(b) + 2 \/ i = Len(a) + 1)
    <2>1. i \in 1..Len(a) /\ j \in 1..Len(b) + 1
          BY <1>2
    <2>2. CASE a[i] = "*"
          BY <2>1, <2>2, StarRight
    <2>3. CASE a[i] # "*"
          BY <2>1, <2>3, OtherRight
    <2> QED BY <2>2, <2>3
  <1> QED BY <1>1, <1>2

\* Every call answers right: otherwise look at a wrong one that is nearest to the ends.
LEMMA CallsRight ==
  ASSUME NEW a \in Seq(Char), NEW b \in Seq(Char), NEW match, Answers(a, b, match),
         NEW i \in 1..Len(a) + 1, NEW j \in 1..Len(b) + 2
  PROVE  Verdict(a, b, i, j, match[<<i, j>>])
  <1> DEFINE Wrong(k, l) == ~Verdict(a, b, k, l, match[<<k, l>>])
             far(k, l) == (Len(a) + 1 - k) + (Len(b) + 2 - l)
             T == {n \in Nat : \E k \in 1..Len(a) + 1, l \in 1..Len(b) + 2 : Wrong(k, l) /\ n = far(k, l)}
  <1>1. Len(a) \in Nat /\ Len(b) \in Nat
        OBVIOUS
  <1> SUFFICES ASSUME Wrong(i, j) PROVE FALSE
      OBVIOUS
  <1>2. \A k \in 1..Len(a) + 1, l \in 1..Len(b) + 2 : far(k, l) \in Nat
        BY <1>1
  <1> HIDE DEF Wrong
  <1>3. T # {}
        BY <1>2
  <1>4. PICK n \in T : \A m \in T : n <= m
        BY <1>3, Least
  <1>5. PICK k \in 1..Len(a) + 1, l \in 1..Len(b) + 2 : Wrong(k, l) /\ n = far(k, l)
        BY <1>4
  <1>6. ASSUME NEW p \in 1..Len(a) + 1, NEW q \in 1..Len(b) + 2, p >= k, q >= l, p + q > k + l
        PROVE  ~Wrong(p, q)
    <2>1. far(p, q) < far(k, l)
          BY <1>1, <1>6
    <2> SUFFICES ASSUME Wrong(p, q) PROVE FALSE
        OBVIOUS
    <2>2. far(p, q) \in T
          BY <1>2
    <2>3. far(k, l) \in Nat /\ far(p, q) \in Nat
          BY <1>2
    <2> HIDE DEF far, T
    <2>4. n <= far(p, q)
          BY <1>4, <2>2
    <2> QED BY <1>5, <2>1, <2>3, <2>4
  <1>7. Verdict(a, b, k, l, MatchAt(match, a, b, k, l))
        BY <1>6, CallRight DEF Wrong
  <1>8. match[<<k, l>>] = MatchAt(match, a, b, k, l)
    <2>1. <<k, l>> \in Places(a, b)
          BY DEF Places
    <2> QED BY <2>1 DEF Answers
  <1> QED BY <1>5, <1>7, <1>8 DEF Wrong

LEMMA MatchRight ==
  ASSUME NEW a \in Seq(Char), NEW b \in Seq(Char)
  PROVE  Verdict(a, b, 1, 1, Match(a, b))
  <1>1. PICK match : Answers(a, b, match) /\ Match(a, b) = match[<<1, 1>>]
        BY MatchAnswers
  <1>2. 1 \in 1..Len(a) + 1 /\ 1 \in 1..Len(b) + 2
        OBVIOUS
  <1> QED BY <1>1, <1>2, CallsRight

\* Utils::Match says what a mask means, whatever the lengths of the mask and of the text.
THEOREM MatchSaysMeaning ==
    \A mask, text \in Seq(Char) : SaysMeaning(mask, text)
  <1> SUFFICES ASSUME NEW mask \in Seq(Char), NEW text \in Seq(Char)
               PROVE  SaysMeaning(mask, text)
      OBVIOUS
  <1>1. Verdict(mask, text, 1, 1, Match(mask, text))
        BY MatchRight
  <1>2. Means(mask, text) <=> MeansFrom(mask, text, 1, 1)
        BY MeansFromStart
  <1>3. 1 \in Nat /\ 1 >= 1 /\ 1 <= Len(text) + 1
        OBVIOUS
  <1>4. Match(mask, text) = "yes" => Means(mask, text)
        BY <1>1, <1>2 DEF Verdict
  <1>5. Match(mask, text) = "beyond" => Contains(mask, "?")
        BY <1>1, <1>3 DEF Verdict, Contains
  <1>6. Single(mask) /\ ~Contains(text, "*") /\ Means(mask, text) => Match(mask, text) = "yes"
        BY <1>1, <1>2, <1>3 DEF Verdict, Value, Regular
  <1> QED BY <1>4, <1>5, <1>6 DEF SaysMeaning

\* A user is banned exactly by the masks that mean him, but for what Utils::Match does
\* not promise: a '?' past the end of the text, two '*' in a row, a '*' in an ident.
THEOREM BansAlwaysMeanTheirMasks == Spec => []BansMeanTheirMasks
  <1>1. MatchIsMeaning
    <2>1. ASSUME NEW n \in Nat, NEW s \in BoundedSeq(Char, n) PROVE s \in Seq(Char)
      <3>1. PICK m \in 0..n : s \in [1..m -> Char]
            BY DEF BoundedSeq, SeqOf
      <3>2. m \in Nat
            OBVIOUS
      <3> QED BY <3>1, <3>2
    <2>2. MaxMask \in Nat /\ MaxText \in Nat
          BY MaxAssumption
    <2>3. BoundedSeq(Char, MaxMask) \subseteq Seq(Char) /\ BoundedSeq(Char, MaxText) \subseteq Seq(Char)
          BY <2>1, <2>2
    <2> QED BY <2>3, MatchSaysMeaning DEF MatchIsMeaning
  <1>2. Inv => BansMeanTheirMasks
    <2> SUFFICES ASSUME Inv, NEW c \in Chan, NEW u \in User
                 PROVE  /\ IsBan(u, c) =>
                             \E o \in Listed(c) : Means(MaskOf(o), Text[u]) \/ Contains(MaskOf(o), "?")
                        /\ users[c] # {} /\ ~Contains(Text[u], "*") =>
                             \A o \in Listed(c) :
                                Single(MaskOf(o)) /\ Means(MaskOf(o), Text[u]) => IsBan(u, c)
        BY <1>1 DEF BansMeanTheirMasks
    <2>1. ASSUME NEW o \in Listed(c)
          PROVE  ban[o].mascara \in Mask
      <3>1. o \in Obj /\ ban[o] # NoBan
            BY DEF Inv, TypeOK, ListsOwnTheirBans, Listed
      <3>2. ban[o] \in Ban
            BY <3>1 DEF Inv, TypeOK
      <3> QED BY <3>2 DEF Ban
    <2>2. ASSUME NEW o \in Listed(c)
          PROVE  /\ SaysMeaning(MaskOf(o), Text[u])
                 /\ Match(MaskOf(o), Text[u]) # "beyond" =>
                      (<<ban[o].mascara, u>> \in Matches <=> Match(MaskOf(o), Text[u]) = "yes")
      <3>1. MaskOf(o) \in Seq(Char) /\ Text[u] \in Seq(Char)
            BY <2>1, TextAssumption DEF MaskOf
      <3>2. SaysMeaning(MaskOf(o), Text[u])
            BY <3>1, MatchSaysMeaning
      <3> QED BY <2>1, <3>2, MatchAssumption DEF MaskOf
    <2>3. ASSUME IsBan(u, c)
          PROVE  \E o \in Listed(c) : Means(MaskOf(o), Text[u]) \/ Contains(MaskOf(o), "?")
      <3>1. PICK o \in Listed(c) : <<ban[o].mascara, u>> \in Matches
            BY <2>3 DEF IsBan
      <3> QED BY <2>2, <3>1 DEF SaysMeaning
    <2>4. ASSUME users[c] # {}, ~Contains(Text[u], "*"), NEW o \in Listed(c),
                 Single(MaskOf(o)), Means(MaskOf(o), Text[u])
          PROVE  IsBan(u, c)
      <3>1. Match(MaskOf(o), Text[u]) = "yes"
            BY <2>2, <2>4 DEF SaysMeaning
      <3> QED BY <2>2, <2>4, <3>1 DEF IsBan
    <2> QED BY <2>3, <2>4
  <1> QED BY <1>2, Invariance, PTL

=============================================================================
