------------------------- MODULE ZeusThreadsProofs -------------------------
(***************************************************************************)
(* Proofs about ZeusThreads: why commands never deadlock on user_mtx and   *)
(* channel_mtx, and when they deadlock at all.  Disciplined says what a    *)
(* handler may still have to do: a mutex is the first thing it takes and   *)
(* the last it releases, and what happens in between depends on the mutex. *)
(***************************************************************************)
EXTENDS ZeusThreads, SequenceTheorems, TLAPS

\* Sections of a mutex alone, and these with calls.
Uses == [do : {"use"}, on : {"user", "channel"}]
Simple == [do : {"use"}, on : {"user", "channel"}] \cup [do : {"call"}, on : Message]

\* What is done with a mutex held: with user_mtx only channel_mtx is taken; with
\* quit_mtx anything but quit_mtx, and the calls are those that Exit makes.
Inside(m) ==
    IF m = "user" THEN {Use("channel")}
    ELSE {Use("user"), Use("channel"), Call("note"), Call("leave"), Call("echo")}

\* The rest of a handler that holds m.
Held(m) ==
    {t \in Seq(Step) : /\ t # <<>> /\ t[Len(t)] = Unlock(m)
                       /\ \A j \in 1..(Len(t) - 1) : t[j] \in Inside(m)}

\* A handler that is about to take m.
Whole(m) == {t \in Seq(Step) : t # <<>> /\ t[1] = Lock(m) /\ Tail(t) \in Held(m)}

Exits == Held("quit") \cup Whole("quit")

\* What a handler of a message of the kind k may have left.
Left(k) ==
    CASE k \in {"note", "echo"} -> {<<>>}
      [] k = "leave" -> Seq(Uses) \cup Exits
      [] OTHER -> Seq(Simple) \cup Exits \cup Held("user") \cup Whole("user")

Kind == Message \cup {"command"}
Frame == [of : Kind, todo : Seq(Step)]

\* All frames of a chain but the last are in a call, of what the next one handles.
Calls ==
    \A c \in Command : \A i \in 1..(Len(chain[c]) - 1) :
        chain[c][i].todo # <<>> /\ Head(chain[c][i].todo) = Call(chain[c][i + 1].of)

Disciplined ==
    \A c \in Command : \A i \in 1..Len(chain[c]) : chain[c][i].todo \in Left(chain[c][i].of)

\* Who holds a mutex is a handler on that server that has not released it.
Owned(s, m) ==
    owner[s][m] # Nobody =>
        /\ m # "channel"
        /\ \E d \in Command : \E i \in 1..Len(chain[d]) :
             owner[s][m] = <<d, i>> /\ At(d, i) = s /\ chain[d][i].todo \in Held(m)

Inv ==
    /\ cores \in [Server -> 1..MaxCores] /\ home \in [Command -> Server]
    /\ chain \in [Command -> Seq(Frame)]
    /\ Calls /\ Disciplined
    /\ owner \in [Server -> [Mutex -> (Command \X Nat) \cup {Nobody}]]
    /\ \A s \in Server, m \in Mutex : Owned(s, m)

-----------------------------------------------------------------------------
(* Servers and places. *)

LEMMA PeerIsOther == \A s \in Server : Peer(s) \in Server /\ Peer(s) # s
  BY ServerAssumption DEF Peer

LEMMA AtIsServer ==
  ASSUME Inv, NEW c \in Command, NEW i \in Nat
  PROVE  At(c, i) \in Server
  BY PeerIsOther DEF At, Inv

-----------------------------------------------------------------------------
(* What the handlers consist of. *)

LEMMA ThenSplits ==
  ASSUME NEW P, NEW Q, NEW x \in Then(P, Q)
  PROVE  \E p \in P, q \in Q : x = p \o q
  BY DEF Then

LEMMA ThenIsSeq ==
  ASSUME NEW S, NEW P \in SUBSET Seq(S), NEW Q \in SUBSET Seq(S)
  PROVE  Then(P, Q) \in SUBSET Seq(S)
  <1> SUFFICES ASSUME NEW x \in Then(P, Q) PROVE x \in Seq(S)
      OBVIOUS
  <1>2. PICK p \in P, q \in Q : x = p \o q
        BY ThenSplits
  <1>3. p \in Seq(S) /\ q \in Seq(S)
        OBVIOUS
  <1> QED BY <1>2, <1>3, ConcatProperties

LEMMA MaybeIsSeq ==
  ASSUME NEW S, NEW P \in SUBSET Seq(S)
  PROVE  Maybe(P) \in SUBSET Seq(S)
  BY EmptySeq DEF Maybe

LEMMA StepsAreTold ==
  /\ \A m, n : Lock(m) # Unlock(n) /\ Lock(m) # Use(n) /\ Lock(m) # Call(n)
  /\ \A m, n : Unlock(m) # Use(n) /\ Unlock(m) # Call(n) /\ Use(m) # Call(n)
  /\ \A m, n : (Unlock(m) = Unlock(n) => m = n) /\ (Use(m) = Use(n) => m = n)
  /\ \A m, n : (Call(m) = Call(n) => m = n) /\ (Lock(m) = Lock(n) => m = n)
  <1>1. \A m, n : /\ Lock(m).do = "lock" /\ Unlock(n).do = "unlock"
                  /\ Use(n).do = "use" /\ Call(n).do = "call"
        BY DEF Lock, Unlock, Use, Call
  <1>2. \A m : Lock(m).on = m /\ Unlock(m).on = m /\ Use(m).on = m /\ Call(m).on = m
        BY DEF Lock, Unlock, Use, Call
  <1> QED BY <1>1, <1>2

LEMMA StepTypes ==
  /\ \A m \in Mutex : Lock(m) \in Step /\ Unlock(m) \in Step /\ Use(m) \in Step
  /\ \A k \in Message : Call(k) \in Step /\ Call(k) \in Simple
  /\ Use("user") \in Simple /\ Use("channel") \in Simple
  /\ Simple \subseteq Step
  BY DEF Lock, Unlock, Use, Call, Step, Simple, Mutex

\* A section: take m, do what is done with it, release it.
LEMMA SectionIsWhole ==
  ASSUME NEW m \in {"user", "quit"}, NEW body \in Seq(Inside(m))
  PROVE  /\ body \o <<Unlock(m)>> \in Held(m)
         /\ <<Lock(m)>> \o (body \o <<Unlock(m)>>) \in Whole(m)
  <1> DEFINE rest == body \o <<Unlock(m)>>
             all == <<Lock(m)>> \o rest
  <1>1. Inside(m) \subseteq Step /\ Lock(m) \in Step /\ Unlock(m) \in Step
        BY StepTypes DEF Inside, Mutex, Message
  <1>2. body \in Seq(Step)
        BY <1>1
  <1>3. /\ rest \in Seq(Step) /\ Len(rest) = Len(body) + 1 /\ rest[Len(rest)] = Unlock(m)
        /\ \A j \in 1..Len(body) : rest[j] = body[j]
        /\ Len(body) \in Nat
        BY <1>1, <1>2
  <1>4. rest \in Held(m)
        <2> HIDE DEF rest
        <2>1. rest # <<>>
              BY <1>3
        <2>2. \A j \in 1..(Len(rest) - 1) : rest[j] \in Inside(m)
              <3>1. \A j \in 1..Len(body) : body[j] \in Inside(m)
                    BY ElementOfSeq
              <3> QED BY <1>3, <3>1
        <2> QED BY <1>3, <2>1, <2>2 DEF Held
  <1>5. all \in Seq(Step) /\ all # <<>> /\ all[1] = Lock(m) /\ Tail(all) = rest
        <2> HIDE DEF rest
        <2>1. all \in Seq(Step) /\ Len(all) = Len(rest) + 1 /\ all[1] = Lock(m)
              BY <1>1, <1>3
        <2>2. \A j \in 1..Len(rest) : all[j + 1] = rest[j]
              BY <1>1, <1>3
        <2>3. Tail(all) \in Seq(Step) /\ Len(Tail(all)) = Len(rest)
              /\ \A j \in 1..Len(rest) : Tail(all)[j] = all[j + 1]
              BY <2>1, <1>3
        <2>4. Tail(all) = rest
              BY <2>2, <2>3, <1>3, SeqEqual
        <2> QED BY <2>1, <2>4
  <1> QED BY <1>4, <1>5 DEF Whole

LEMMA ProgramsOfUses == MakeQuit \in SUBSET Seq(Uses) /\ QUIT \in SUBSET Seq(Uses)
  <1>1. MakeQuit \in SUBSET Seq(Uses)
        <2>1. Use("channel") \in Uses /\ Use("user") \in Uses
              BY DEF Use, Uses
        <2> QED BY <2>1 DEF MakeQuit
  <1>2. {<<Use("user")>>} \in SUBSET Seq(Uses)
        <2>1. Use("user") \in Uses
              BY DEF Use, Uses
        <2> QED BY <2>1
  <1> QED BY <1>1, <1>2, ThenIsSeq DEF QUIT

\* Exit, of a user by himself or by the other server, is one section of quit_mtx.
LEMMA ExitIsWhole == \A k \in {"leave", "echo"} : Exit(k) \subseteq Whole("quit")
  <1> SUFFICES ASSUME NEW k \in {"leave", "echo"} PROVE Exit(k) \subseteq Whole("quit")
      OBVIOUS
  <1> DEFINE S == Inside("quit")
             body == Then(UpdateLogin, Maybe(Then(MakeQuit, {<<Call(k)>>})))
  <1>1. UpdateLogin \in SUBSET Seq(S)
        <2>1. {<<Call("note")>>} \in SUBSET Seq(S)
              BY DEF Inside
        <2> QED BY <2>1, MaybeIsSeq DEF UpdateLogin
  <1>2. {<<Call(k)>>} \in SUBSET Seq(S)
        BY DEF Inside
  <1>3. MakeQuit \in SUBSET Seq(S)
        BY DEF MakeQuit, Inside
  <1>4. Maybe(Then(MakeQuit, {<<Call(k)>>})) \in SUBSET Seq(S)
        BY <1>2, <1>3, ThenIsSeq, MaybeIsSeq
  <1>5. body \in SUBSET Seq(S)
        BY <1>1, <1>4, ThenIsSeq
  <1> HIDE DEF body
  <1>6. Exit(k) = Then({<<Lock("quit")>>}, Then(body, {<<Unlock("quit")>>}))
        BY DEF Exit, body
  <1>7. ASSUME NEW e \in Exit(k)
        PROVE  \E b \in body : e = <<Lock("quit")>> \o (b \o <<Unlock("quit")>>)
        <2> DEFINE first == {<<Lock("quit")>>}
                   last == {<<Unlock("quit")>>}
                   rest == Then(body, last)
        <2>1. e \in Then(first, rest)
              BY <1>6
        <2>2. \A p \in first : p = <<Lock("quit")>>
              OBVIOUS
        <2>3. \A r \in last : r = <<Unlock("quit")>>
              OBVIOUS
        <2> HIDE DEF first, last
        <2>4. \A q \in rest : \E b \in body, r \in last : q = b \o r
              BY ThenSplits
        <2> HIDE DEF rest
        <2>5. PICK p \in first, q \in rest : e = p \o q
              BY <2>1, ThenSplits
        <2> QED BY <2>2, <2>3, <2>4, <2>5
  <1>8. \A b \in body : b \in Seq(S)
        BY <1>5
  <1> QED BY <1>7, <1>8, SectionIsWhole

LEMMA MembershipIsWhole == Membership \subseteq Whole("user")
  <1> DEFINE t == <<Lock("user"), Use("channel"), Unlock("user")>>
  <1>1. Lock("user") \in Step /\ Use("channel") \in Step /\ Unlock("user") \in Step
        BY StepTypes DEF Mutex
  <1>2. Tail(t) = <<Use("channel"), Unlock("user")>>
        OBVIOUS
  <1>3. Tail(t) \in Held("user")
        BY <1>1, <1>2 DEF Held, Inside
  <1>4. t \in Whole("user")
        BY <1>1, <1>3 DEF Whole
  <1> QED BY <1>4 DEF Membership

LEMMA CallIsLeft == \A k \in Message : <<Call(k)>> \in Seq(Simple)
  BY StepTypes

LEMMA ProgramIsDisciplined == Program \subseteq Left("command")
  <1>1. Left("command") = Seq(Simple) \cup Exits \cup Held("user") \cup Whole("user")
        BY DEF Left
  <1> DEFINE calls == {<<Call(k)>> : k \in Message \ {"note", "leave", "echo"}}
  <1>2. calls \subseteq Seq(Simple)
        BY CallIsLeft
  <1> HIDE DEF calls
  <1>3. Program = UNION {Membership, Exit("leave"), calls}
        BY DEF Program, calls
  <1>4. Membership \subseteq Left("command")
        BY <1>1, MembershipIsWhole
  <1>5. Exit("leave") \subseteq Left("command")
        BY <1>1, ExitIsWhole DEF Exits
  <1>6. calls \subseteq Left("command")
        BY <1>1, <1>2
  <1> QED BY <1>3, <1>4, <1>5, <1>6

\* Every message makes its receiver do something disciplined.
LEMMA HandlingIsDisciplined == \A k \in Message : Handling(k) \subseteq Left(k)
  <1>1. <<Use("user")>> \in Seq(Simple) /\ <<Use("channel")>> \in Seq(Simple) /\ <<>> \in Seq(Simple)
        BY StepTypes
  <1>2. QUIT \in SUBSET Seq(Simple)
        <2>1. Seq(Uses) \subseteq Seq(Simple)
              BY SeqMonotonic DEF Uses, Simple
        <2> QED BY <2>1, ProgramsOfUses
  <1>3. \A k \in Message : {<<Call(k)>>} \in SUBSET Seq(Simple)
        BY CallIsLeft
  <1>4. CheckModes \in SUBSET Seq(Simple)
        <2>1. {<<Use("channel"), Call("channel")>>} \in SUBSET Seq(Simple)
              BY StepTypes DEF Message
        <2> QED BY <2>1, MaybeIsSeq DEF CheckModes
  <1>5. Maybe(Cycle) \in SUBSET Seq(Simple)
        <2>1. {<<Call("channel")>>} \in SUBSET Seq(Simple)
              BY <1>3 DEF Message
        <2>2. Then({<<Call("channel")>>}, CheckModes) \in SUBSET Seq(Simple)
              BY <2>1, <1>4, ThenIsSeq
        <2>3. Cycle \in SUBSET Seq(Simple)
              BY <2>1, <2>2, ThenIsSeq DEF Cycle
        <2> QED BY <2>3, MaybeIsSeq
  <1>6. Then(Maybe(QUIT), SendBurst) \in SUBSET Seq(Simple)
        <2>1. SendBurst \in SUBSET Seq(Simple)
              BY StepTypes DEF SendBurst, Message
        <2>2. Maybe(QUIT) \in SUBSET Seq(Simple)
              BY <1>2, MaybeIsSeq
        <2> QED BY <2>1, <2>2, ThenIsSeq
  <1>7. \A k \in {"note", "echo"} : Handling(k) = {<<>>} /\ Left(k) = {<<>>}
        BY DEF Handling, Left
  <1>8. Handling("leave") \subseteq Left("leave")
        BY ProgramsOfUses, ExitIsWhole, EmptySeq DEF Handling, Left, Exits, Uses
  <1>9. ASSUME NEW k \in Message \ {"note", "echo", "leave"}
        PROVE  Handling(k) \subseteq Left(k)
        <2>1. Left(k) = Seq(Simple) \cup Exits \cup Held("user") \cup Whole("user")
              BY DEF Left
        <2>2. CASE k \in {"channel", "user", "SNICK"}
              BY <2>1, <2>2, <1>1, ExitIsWhole DEF Handling, Exits
        <2>3. CASE k = "expel"
              BY <2>1, <2>3, <1>1, ExitIsWhole DEF Handling, Exits
        <2>4. CASE k \in {"SQUIT", "VHOST", "BURST"}
              BY <2>1, <2>4, <1>2, <1>5, <1>6 DEF Handling
        <2>5. CASE k = "answered"
              BY <2>1, <2>5, <1>1, <1>3 DEF Handling, Message
        <2> QED BY <2>2, <2>3, <2>4, <2>5 DEF Message
  <1> SUFFICES ASSUME NEW k \in Message PROVE Handling(k) \subseteq Left(k)
      OBVIOUS
  <1>10. CASE k \in {"note", "echo"}
         BY <1>7, <1>10
  <1>11. CASE k = "leave"
         BY <1>8, <1>11
  <1> QED BY <1>9, <1>10, <1>11

-----------------------------------------------------------------------------
(* What a handler that goes on has left. *)

LEMMA OneOrMore == \A n \in Nat : n # 0 => n = 1 \/ n > 1
  OBVIOUS

LEMMA LeftIsSeq == \A k \in Kind : Left(k) \subseteq Seq(Step)
  <1>1. Seq(Simple) \subseteq Seq(Step) /\ <<>> \in Seq(Step)
        BY StepTypes, SeqMonotonic
  <1>2. Seq(Uses) \subseteq Seq(Step)
        <2>1. Uses \subseteq Step
              BY DEF Uses, Step, Mutex
        <2> QED BY <2>1, SeqMonotonic
  <1>3. Held("user") \subseteq Seq(Step) /\ Held("quit") \subseteq Seq(Step)
        BY DEF Held
  <1>4. Whole("user") \subseteq Seq(Step) /\ Whole("quit") \subseteq Seq(Step)
        BY DEF Whole
  <1> QED BY <1>1, <1>2, <1>3, <1>4 DEF Left, Exits, Uses

\* With a mutex held, the next step is not to take one but to go on, or to release it.
LEMMA HeldNext ==
  ASSUME NEW m \in {"user", "quit"}, NEW t \in Held(m)
  PROVE  /\ t # <<>>
         /\ \/ Len(t) = 1 /\ Head(t) = Unlock(m) /\ Tail(t) = <<>>
            \/ Len(t) > 1 /\ Head(t) \in Inside(m) /\ Tail(t) \in Held(m)
  <1>a. t \in Seq(Step) /\ t # <<>> /\ t[Len(t)] = Unlock(m)
        BY DEF Held
  <1>b. Len(t) \in Nat \ {0}
        BY <1>a, EmptySeq
  <1>d. Head(t) = t[1]
        BY <1>a, <1>b
  <1>c. Len(t) = 1 \/ Len(t) > 1
        BY <1>b, OneOrMore
  <1>1. t \in Seq(Step) /\ t # <<>> /\ Len(t) \in Nat
        BY <1>a, <1>b
  <1>2. CASE Len(t) = 1
        <2>1. Head(t) = Unlock(m)
              BY <1>a, <1>d, <1>2
        <2>2. Len(Tail(t)) = 0 /\ Tail(t) \in Seq(Step)
              BY <1>1, <1>2, HeadTailProperties
        <2>3. Tail(t) = <<>>
              BY <2>2, EmptySeq
        <2> QED BY <1>1, <1>2, <2>1, <2>3
  <1>3. CASE Len(t) > 1
        <2>1. Head(t) = t[1] /\ t[1] \in Inside(m)
              BY <1>1, <1>3 DEF Held
        <2>2. /\ Tail(t) \in Seq(Step) /\ Len(Tail(t)) = Len(t) - 1
              /\ \A j \in 1..(Len(t) - 1) : Tail(t)[j] = t[j + 1]
              BY <1>1, <1>3
        <2>3. Tail(t)[Len(Tail(t))] = Unlock(m)
              BY <1>1, <1>3, <2>2 DEF Held
        <2>4. \A j \in 1..(Len(Tail(t)) - 1) : Tail(t)[j] \in Inside(m)
              BY <1>1, <1>3, <2>2 DEF Held
        <2>5. Tail(t) # <<>>
              <3>1. Len(Tail(t)) > 0
                    BY <1>1, <1>3, <2>2
              <3> QED BY <3>1, EmptySeq
        <2> QED BY <1>1, <1>3, <2>1, <2>2, <2>3, <2>4, <2>5 DEF Held
  <1> QED BY <1>c, <1>2, <1>3

LEMMA HeldContains ==
  ASSUME NEW m, NEW t \in Held(m)
  PROVE  Contains(t, Unlock(m))
  <1>1. t \in Seq(Step) /\ t # <<>> /\ t[Len(t)] = Unlock(m)
        BY DEF Held
  <1>2. Len(t) \in 1..Len(t)
        BY <1>1, EmptySeq
  <1> QED BY <1>1, <1>2 DEF Contains

LEMMA WholeNext ==
  ASSUME NEW m, NEW t \in Whole(m)
  PROVE  t # <<>> /\ Head(t) = Lock(m) /\ Tail(t) \in Held(m)
  BY EmptySeq DEF Whole

LEMMA WholeContains ==
  ASSUME NEW m, NEW t \in Whole(m)
  PROVE  Contains(t, Unlock(m))
  <1>1. t \in Seq(Step) /\ t # <<>> /\ Contains(Tail(t), Unlock(m))
        BY WholeNext, HeldContains DEF Whole
  <1>2. PICK j \in 1..Len(Tail(t)) : Tail(t)[j] = Unlock(m)
        BY <1>1 DEF Contains
  <1>3. t[j + 1] = Unlock(m) /\ j + 1 \in 1..Len(t)
        BY <1>1, <1>2, HeadTailProperties
  <1> QED BY <1>3 DEF Contains

\* Disciplined handlers stay so.
LEMMA TailIsLeft ==
  ASSUME NEW k \in Kind, NEW t \in Left(k), t # <<>>
  PROVE  Tail(t) \in Left(k)
  <1>1. k \notin {"note", "echo"}
        BY DEF Left
  <1>2. /\ t \in Seq(Uses) => Tail(t) \in Seq(Uses)
        /\ t \in Seq(Simple) => Tail(t) \in Seq(Simple)
        BY HeadTailProperties
  <1>3. <<>> \in Seq(Uses) /\ <<>> \in Seq(Simple)
        BY EmptySeq
  <1>4. CASE k = "leave"
        <2>1. Left(k) = Seq(Uses) \cup Held("quit") \cup Whole("quit")
              BY <1>4 DEF Left, Exits, Uses
        <2> QED BY <2>1, <1>2, <1>3, HeldNext, WholeNext
  <1>5. CASE k # "leave"
        <2>1. Left(k) = Seq(Simple) \cup Held("quit") \cup Whole("quit") \cup Held("user") \cup Whole("user")
              BY <1>1, <1>5 DEF Left, Exits
        <2> QED BY <2>1, <1>2, <1>3, HeldNext, WholeNext
  <1> QED BY <1>4, <1>5

\* A handler that is about to take a mutex takes user_mtx or quit_mtx, and has it
\* released at its end; one that takes a mutex for itself does not take quit_mtx.
LEMMA LockNext ==
  ASSUME NEW k \in Kind, NEW t \in Left(k), t # <<>>, Head(t).do = "lock"
  PROVE  /\ Head(t).on \in {"user", "quit"} /\ Tail(t) \in Held(Head(t).on)
         /\ k = "leave" => Head(t).on = "quit"
  <1>1. k \notin {"note", "echo"}
        BY DEF Left
  <1>2. t \notin Seq(Simple) /\ t \notin Seq(Uses)
        <2>1. (t \in Seq(Simple) => Head(t) \in Simple) /\ (t \in Seq(Uses) => Head(t) \in Uses)
              BY HeadTailProperties
        <2> QED BY <2>1 DEF Simple, Uses
  <1>3. \A m \in {"user", "quit"} : t \notin Held(m)
        BY HeldNext DEF Inside, Unlock, Use, Call
  <1>4. \E m \in {"user", "quit"} : t \in Whole(m) /\ (k = "leave" => m = "quit")
        BY <1>1, <1>2, <1>3 DEF Left, Exits, Uses
  <1> QED BY <1>4, WholeNext DEF Lock

LEMMA UseNext ==
  ASSUME NEW k \in Kind, NEW t \in Left(k), t # <<>>, Head(t).do = "use"
  PROVE  Head(t).on \in {"user", "channel"}
  <1>1. k \notin {"note", "echo"}
        BY DEF Left
  <1>2. (t \in Seq(Simple) => Head(t) \in Simple) /\ (t \in Seq(Uses) => Head(t) \in Uses)
        BY HeadTailProperties
  <1>3. \A m \in {"user", "quit"} : t \in Held(m) => Head(t).on \in {"user", "channel"}
        BY HeldNext DEF Inside, Unlock, Use, Call
  <1>4. \A m : t \notin Whole(m)
        BY WholeNext DEF Lock
  <1>5. t \in Seq(Simple) \/ t \in Seq(Uses) \/ \E m \in {"user", "quit"} : t \in Held(m)
        BY <1>1, <1>4 DEF Left, Exits, Uses
  <1>6. /\ \A e \in Simple : e.do = "use" => e.on \in {"user", "channel"}
        /\ \A e \in Uses : e.do = "use" => e.on \in {"user", "channel"}
        BY DEF Simple, Uses
  <1> QED BY <1>2, <1>3, <1>5, <1>6

-----------------------------------------------------------------------------
(* The frames of a command. *)

LEMMA TopFrame ==
  ASSUME Inv, NEW c \in Command, Running(c)
  PROVE  /\ Len(chain[c]) \in Nat /\ Len(chain[c]) >= 1
         /\ Last(chain[c]) = chain[c][Len(chain[c])]
         /\ chain[c][Len(chain[c])] \in Frame
         /\ Todo(c) = chain[c][Len(chain[c])].todo
         /\ Here(c) = At(c, Len(chain[c])) /\ Here(c) \in Server
         /\ Top(c) = <<c, Len(chain[c])>> /\ Top(c) \in Command \X Nat
  <1>1. chain[c] \in Seq(Frame) /\ chain[c] # <<>>
        BY DEF Inv, Running
  <1>2. Len(chain[c]) \in Nat /\ Len(chain[c]) >= 1
        BY <1>1
  <1>3. chain[c][Len(chain[c])] \in Frame
        BY <1>1, <1>2
  <1> QED BY <1>2, <1>3, AtIsServer DEF Last, Todo, Here, Top

\* The running frame moves on, the others stay.
LEMMA AdvanceEffect ==
  ASSUME Inv, NEW c \in Command, Running(c), Todo(c) # <<>>, Advance(c)
  PROVE  /\ chain' \in [Command -> Seq(Frame)]
         /\ \A d \in Command : Len(chain'[d]) = Len(chain[d])
         /\ \A d \in Command : \A i \in 1..Len(chain[d]) :
              /\ chain'[d][i].of = chain[d][i].of
              /\ ~(d = c /\ i = Len(chain[c])) => chain'[d][i] = chain[d][i]
         /\ chain'[c][Len(chain[c])].todo = Tail(Todo(c))
  <1> DEFINE n == Len(chain[c])
             f == [chain[c][n] EXCEPT !.todo = Tail(chain[c][n].todo)]
  <1>1. n \in Nat /\ n >= 1 /\ chain[c][n] \in Frame /\ Todo(c) = chain[c][n].todo
        BY TopFrame
  <1>2. chain \in [Command -> Seq(Frame)] /\ chain[c] \in Seq(Frame)
        BY DEF Inv
  <1>3. f \in Frame /\ f.of = chain[c][n].of /\ f.todo = Tail(Todo(c))
        <2>1. chain[c][n].todo \in Seq(Step) /\ chain[c][n].todo # <<>>
              BY <1>1 DEF Frame
        <2>2. Tail(chain[c][n].todo) \in Seq(Step)
              BY <2>1, HeadTailProperties
        <2> QED BY <1>1, <2>2 DEF Frame
  <1>4. chain' = [chain EXCEPT ![c] = [chain[c] EXCEPT ![n] = f]]
        BY DEF Advance
  <1> HIDE DEF f
  <1>5. /\ [chain[c] EXCEPT ![n] = f] \in Seq(Frame)
        /\ Len([chain[c] EXCEPT ![n] = f]) = n
        /\ \A j \in 1..n : [chain[c] EXCEPT ![n] = f][j] = IF j = n THEN f ELSE chain[c][j]
        BY <1>1, <1>2, <1>3, ExceptSeq
  <1> QED BY <1>1, <1>2, <1>3, <1>4, <1>5

LEMMA AdvanceKeeps ==
  ASSUME Inv, NEW c \in Command, Running(c), Todo(c) # <<>>, Advance(c)
  PROVE  Calls' /\ Disciplined'
  <1> DEFINE n == Len(chain[c])
  <1>1. /\ n \in Nat /\ n >= 1 /\ chain[c][n] \in Frame /\ Todo(c) = chain[c][n].todo
        BY TopFrame
  <1>2. /\ \A d \in Command : Len(chain'[d]) = Len(chain[d])
        /\ \A d \in Command : \A i \in 1..Len(chain[d]) :
              /\ chain'[d][i].of = chain[d][i].of
              /\ ~(d = c /\ i = n) => chain'[d][i] = chain[d][i]
        /\ chain'[c][n].todo = Tail(Todo(c))
        BY AdvanceEffect
  <1>3. \A d \in Command : Len(chain[d]) \in Nat
        BY DEF Inv
  <1>4. Calls'
        <2> SUFFICES ASSUME NEW d \in Command, NEW i \in 1..(Len(chain[d]) - 1)
                     PROVE  chain'[d][i].todo # <<>> /\ Head(chain'[d][i].todo) = Call(chain'[d][i + 1].of)
            BY <1>2 DEF Calls
        <2>1. i \in 1..Len(chain[d]) /\ i + 1 \in 1..Len(chain[d]) /\ ~(d = c /\ i = n)
              BY <1>3
        <2> QED BY <1>2, <2>1 DEF Inv, Calls
  <1>5. Disciplined'
        <2> SUFFICES ASSUME NEW d \in Command, NEW i \in 1..Len(chain[d])
                     PROVE  chain'[d][i].todo \in Left(chain'[d][i].of)
            BY <1>2 DEF Disciplined
        <2>1. CASE ~(d = c /\ i = n)
              BY <1>2, <2>1 DEF Inv, Disciplined
        <2>2. CASE d = c /\ i = n
              <3>1. Todo(c) \in Left(chain[c][n].of) /\ chain[c][n].of \in Kind
                    BY <1>1, <2>2 DEF Inv, Disciplined, Frame
              <3> QED BY <1>2, <2>2, <3>1, TailIsLeft, ZenonT(60)
        <2> QED BY <2>1, <2>2
  <1> QED BY <1>4, <1>5

\* A holder of a mutex that goes on without releasing it is still its holder.
LEMMA AdvanceOwned ==
  ASSUME Inv, NEW c \in Command, Running(c), Todo(c) # <<>>, Advance(c), UNCHANGED home,
         NEW s \in Server, NEW m \in Mutex, owner'[s][m] = owner[s][m],
         Head(Todo(c)) # Unlock(m) \/ owner[s][m] # Top(c)
  PROVE  Owned(s, m)'
  <1> DEFINE n == Len(chain[c])
  <1> SUFFICES ASSUME owner[s][m] # Nobody PROVE Owned(s, m)'
      BY DEF Owned
  <1>1a. PICK d \in Command : \E i \in 1..Len(chain[d]) :
          owner[s][m] = <<d, i>> /\ At(d, i) = s /\ chain[d][i].todo \in Held(m)
        BY DEF Inv, Owned
  <1>1. PICK i \in 1..Len(chain[d]) :
          owner[s][m] = <<d, i>> /\ At(d, i) = s /\ chain[d][i].todo \in Held(m)
        BY <1>1a
  <1>2. m # "channel"
        BY DEF Inv, Owned
  <1>3. Len(chain'[d]) = Len(chain[d]) /\ At(d, i)' = At(d, i)
        BY AdvanceEffect DEF At
  <1>4. chain'[d][i].todo \in Held(m)
        <2>1. CASE ~(d = c /\ i = n)
              BY <1>1, <2>1, AdvanceEffect
        <2>2. CASE d = c /\ i = n
              <3>1. Todo(c) \in Held(m) /\ Head(Todo(c)) # Unlock(m)
                    BY <1>1, <2>2, TopFrame
              <3>2. Tail(Todo(c)) \in Held(m)
                    BY <1>2, <3>1, HeldNext DEF Mutex
              <3> QED BY <2>2, <3>2, AdvanceEffect
        <2> QED BY <2>1, <2>2
  <1> QED BY <1>1, <1>2, <1>3, <1>4 DEF Owned

-----------------------------------------------------------------------------
(* The steps. *)

LEMMA InitKeeps == Init => Inv
  <1> SUFFICES ASSUME Init PROVE Inv
      OBVIOUS
  <1>1. chain \in [Command -> Seq(Frame)] /\ \A c \in Command : Len(chain[c]) = 0
        BY EmptySeq DEF Init
  <1>2. Calls /\ Disciplined
        BY <1>1 DEF Calls, Disciplined
  <1>3. owner \in [Server -> [Mutex -> (Command \X Nat) \cup {Nobody}]]
        BY DEF Init
  <1>4. \A s \in Server, m \in Mutex : Owned(s, m)
        BY DEF Init, Owned
  <1> QED BY <1>1, <1>2, <1>3, <1>4 DEF Init, Inv

\* A new first frame, or a new last one.
LEMMA StartKeeps ==
  ASSUME Inv, NEW c \in Command, Start(c)
  PROVE  Inv'
  <1>1. PICK p \in Program : chain' = [chain EXCEPT ![c] = <<[of |-> "command", todo |-> p]>>]
        BY DEF Start
  <1> DEFINE f == [of |-> "command", todo |-> p]
  <1>2. f \in Frame /\ f.todo \in Left(f.of)
        BY ProgramIsDisciplined, LeftIsSeq DEF Kind, Frame
  <1> HIDE DEF f
  <1>3. chain' = [chain EXCEPT ![c] = <<f>>] /\ chain \in [Command -> Seq(Frame)] /\ chain[c] = <<>>
        BY <1>1 DEF f, Inv, Start, Running
  <1>4. <<f>> \in Seq(Frame) /\ Len(<<f>>) = 1 /\ <<f>>[1] = f /\ Len(chain[c]) = 0
        BY <1>2, <1>3
  <1>5. chain' \in [Command -> Seq(Frame)]
        BY <1>3, <1>4
  <1>6. Calls' /\ Disciplined'
        BY <1>2, <1>3, <1>4 DEF Inv, Calls, Disciplined
  <1>7. ASSUME NEW s \in Server, NEW m \in Mutex PROVE Owned(s, m)'
        <2> SUFFICES ASSUME owner[s][m] # Nobody PROVE Owned(s, m)'
            BY DEF Owned, Start
        <2>1a. PICK d \in Command : \E i \in 1..Len(chain[d]) :
                owner[s][m] = <<d, i>> /\ At(d, i) = s /\ chain[d][i].todo \in Held(m)
              BY DEF Inv, Owned
        <2>1. PICK i \in 1..Len(chain[d]) :
                owner[s][m] = <<d, i>> /\ At(d, i) = s /\ chain[d][i].todo \in Held(m)
              BY <2>1a
        <2>2. d # c
              BY <1>4
        <2>3. chain'[d] = chain[d]
              BY <1>3, <2>2
        <2>4. m # "channel" /\ owner' = owner /\ At(d, i)' = At(d, i)
              BY DEF Inv, Owned, Start, At
        <2> QED BY <2>1, <2>3, <2>4 DEF Owned
  <1> QED BY <1>5, <1>6, <1>7 DEF Inv, Start

LEMMA DeliverKeeps ==
  ASSUME Inv, NEW c \in Command, Deliver(c)
  PROVE  Inv'
  <1> DEFINE n == Len(chain[c])
  <1>1. /\ Running(c) /\ Todo(c) # <<>> /\ Head(Todo(c)).do = "call"
        /\ UNCHANGED <<cores, home, owner>>
        BY DEF Deliver, Doing, Now
  <1> DEFINE k == Head(Todo(c)).on
  <1>2. PICK h \in Handling(k) : chain' = [chain EXCEPT ![c] = Append(@, [of |-> k, todo |-> h])]
        BY DEF Deliver, Now
  <1>3. /\ n \in Nat /\ n >= 1 /\ chain[c][n] \in Frame /\ Todo(c) = chain[c][n].todo
        BY <1>1, TopFrame
  <1>4. k \in Message /\ Head(Todo(c)) = Call(k)
        <2>1. Todo(c) \in Seq(Step)
              BY <1>3 DEF Frame
        <2>2. Head(Todo(c)) \in Step
              BY <1>1, <2>1, HeadTailProperties
        <2> QED BY <1>1, <2>2 DEF Step, Call
  <1> DEFINE f == [of |-> k, todo |-> h]
             new == Append(chain[c], f)
  <1>5. f \in Frame /\ f.todo \in Left(f.of) /\ f.of = k
        BY <1>4, HandlingIsDisciplined, LeftIsSeq DEF Kind, Frame
  <1>6. chain' = [chain EXCEPT ![c] = new] /\ chain \in [Command -> Seq(Frame)] /\ chain[c] \in Seq(Frame)
        BY <1>2 DEF Inv
  <1> HIDE DEF f, k
  <1>7. /\ new \in Seq(Frame) /\ Len(new) = n + 1 /\ new[n + 1] = f
        /\ \A i \in 1..n : new[i] = chain[c][i]
        BY <1>5, <1>6, AppendProperties
  <1> HIDE DEF new
  <1>8. chain' \in [Command -> Seq(Frame)] /\ chain'[c] = new
        BY <1>6, <1>7
  <1>9. \A d \in Command : d # c => chain'[d] = chain[d]
        BY <1>6
  <1>10. Calls'
        <2> SUFFICES ASSUME NEW d \in Command, NEW i \in 1..(Len(chain'[d]) - 1)
                     PROVE  chain'[d][i].todo # <<>> /\ Head(chain'[d][i].todo) = Call(chain'[d][i + 1].of)
            BY DEF Calls
        <2>1. CASE d # c
              BY <1>9, <2>1 DEF Inv, Calls
        <2>2. CASE d = c /\ i = n
              BY <1>1, <1>3, <1>4, <1>5, <1>7, <1>8, <2>2
        <2>3. CASE d = c /\ i # n
              <3>1. i \in 1..(n - 1) /\ i \in 1..n /\ i + 1 \in 1..n
                    BY <1>3, <1>7, <1>8, <2>3
              <3> QED BY <1>7, <1>8, <2>3, <3>1 DEF Inv, Calls
        <2> QED BY <2>1, <2>2, <2>3
  <1>11. Disciplined'
        <2> SUFFICES ASSUME NEW d \in Command, NEW i \in 1..Len(chain'[d])
                     PROVE  chain'[d][i].todo \in Left(chain'[d][i].of)
            BY DEF Disciplined
        <2>1. CASE d # c
              BY <1>9, <2>1 DEF Inv, Disciplined
        <2>2. CASE d = c /\ i = n + 1
              BY <1>5, <1>7, <1>8, <2>2
        <2>3. CASE d = c /\ i # n + 1
              <3>1. i \in 1..n
                    BY <1>3, <1>7, <1>8, <2>3
              <3> QED BY <1>7, <1>8, <2>3, <3>1 DEF Inv, Disciplined
        <2> QED BY <2>1, <2>2, <2>3
  <1>12. ASSUME NEW s \in Server, NEW m \in Mutex PROVE Owned(s, m)'
        <2> SUFFICES ASSUME owner[s][m] # Nobody PROVE Owned(s, m)'
            BY <1>1 DEF Owned
        <2>1a. PICK d \in Command : \E i \in 1..Len(chain[d]) :
                owner[s][m] = <<d, i>> /\ At(d, i) = s /\ chain[d][i].todo \in Held(m)
              BY DEF Inv, Owned
        <2>1. PICK i \in 1..Len(chain[d]) :
                owner[s][m] = <<d, i>> /\ At(d, i) = s /\ chain[d][i].todo \in Held(m)
              BY <2>1a
        <2>2. chain'[d][i] = chain[d][i] /\ i \in 1..Len(chain'[d])
              BY <1>3, <1>7, <1>8, <1>9
        <2>3. m # "channel" /\ owner' = owner /\ At(d, i)' = At(d, i)
              BY <1>1 DEF Inv, Owned, At
        <2> QED BY <2>1, <2>2, <2>3 DEF Owned
  <1> QED BY <1>1, <1>8, <1>10, <1>11, <1>12 DEF Inv

\* The next step of a running handler is one of its kind.
LEMMA NextStep ==
  ASSUME Inv, NEW c \in Command, Running(c), Todo(c) # <<>>
  PROVE  /\ Now(c) = Head(Todo(c)) /\ Now(c) \in Step
         /\ \E k \in Kind : k = chain[c][Len(chain[c])].of /\ Todo(c) \in Left(k)
  <1>1. Todo(c) = chain[c][Len(chain[c])].todo /\ chain[c][Len(chain[c])] \in Frame
        BY TopFrame
  <1>2. Todo(c) \in Seq(Step) /\ chain[c][Len(chain[c])].of \in Kind
        BY <1>1 DEF Frame
  <1>3. Head(Todo(c)) \in Step
        BY <1>2, HeadTailProperties
  <1>4. Todo(c) \in Left(chain[c][Len(chain[c])].of)
        BY <1>1, TopFrame DEF Inv, Disciplined
  <1> QED BY <1>2, <1>3, <1>4 DEF Now

LEMMA AcquireKeeps ==
  ASSUME Inv, NEW c \in Command, Acquire(c)
  PROVE  Inv'
  <1> DEFINE n == Len(chain[c])
             x == Now(c).on
  <1>1. Running(c) /\ Todo(c) # <<>> /\ Now(c).do = "lock" /\ Advance(c) /\ UNCHANGED <<cores, home>>
        BY DEF Acquire, Doing
  <1>2. /\ owner[Here(c)][x] = Nobody
        /\ owner' = [owner EXCEPT ![Here(c)][x] = Top(c)]
        BY DEF Acquire
  <1>3. /\ n \in Nat /\ n >= 1 /\ Here(c) = At(c, n) /\ Here(c) \in Server
        /\ Top(c) = <<c, n>> /\ Top(c) \in Command \X Nat
        BY <1>1, TopFrame
  <1>4. x \in {"user", "quit"} /\ Tail(Todo(c)) \in Held(x) /\ Head(Todo(c)).do = "lock"
        BY <1>1, NextStep, LockNext
  <1>5. owner' \in [Server -> [Mutex -> (Command \X Nat) \cup {Nobody}]]
        BY <1>2, <1>3 DEF Inv
  <1>6. ASSUME NEW s \in Server, NEW m \in Mutex PROVE Owned(s, m)'
        <2>1. CASE s = Here(c) /\ m = x
              <3>1. owner'[s][m] = <<c, n>> /\ m # "channel"
                    BY <1>2, <1>3, <1>4, <2>1 DEF Inv
              <3>2. At(c, n)' = s
                    BY <1>1, <1>3, <2>1, AdvanceEffect DEF At
              <3>3. Len(chain'[c]) = n /\ chain'[c][n].todo \in Held(m)
                    BY <1>1, <1>4, <2>1, AdvanceEffect
              <3> QED BY <1>3, <3>1, <3>2, <3>3 DEF Owned
        <2>2. CASE ~(s = Here(c) /\ m = x)
              <3>1. owner'[s][m] = owner[s][m]
                    BY <1>2, <2>2 DEF Inv
              <3>2. Head(Todo(c)) # Unlock(m)
                    BY <1>4 DEF Unlock
              <3> QED BY <1>1, <3>1, <3>2, AdvanceOwned
        <2> QED BY <2>1, <2>2
  <1>7. chain' \in [Command -> Seq(Frame)] /\ Calls' /\ Disciplined'
        BY <1>1, AdvanceEffect, AdvanceKeeps
  <1> QED BY <1>1, <1>5, <1>6, <1>7 DEF Inv

LEMMA ReleaseKeeps ==
  ASSUME Inv, NEW c \in Command, Release(c)
  PROVE  Inv'
  <1> DEFINE n == Len(chain[c])
             x == Now(c).on
  <1>1. Running(c) /\ Todo(c) # <<>> /\ Now(c).do = "unlock" /\ Advance(c) /\ UNCHANGED <<cores, home>>
        BY DEF Release, Doing
  <1>2. owner' = [owner EXCEPT ![Here(c)][x] = Nobody]
        BY DEF Release
  <1>3. /\ n \in Nat /\ n >= 1 /\ Here(c) = At(c, n) /\ Here(c) \in Server /\ Top(c) = <<c, n>>
        BY <1>1, TopFrame
  <1>4. Head(Todo(c)) = Now(c) /\ Now(c) = Unlock(x) /\ x \in Mutex
        BY <1>1, NextStep DEF Step, Unlock
  <1>5. owner' \in [Server -> [Mutex -> (Command \X Nat) \cup {Nobody}]]
        BY <1>2 DEF Inv
  <1>6. ASSUME NEW s \in Server, NEW m \in Mutex PROVE Owned(s, m)'
        <2>1. CASE s = Here(c) /\ m = x
              BY <1>2, <2>1 DEF Inv, Owned
        <2>2. CASE ~(s = Here(c) /\ m = x)
              <3>1. owner'[s][m] = owner[s][m]
                    BY <1>2, <2>2 DEF Inv
              <3>2. CASE m = x
                    <4>1. owner[s][m] # Top(c)
                          <5> SUFFICES ASSUME owner[s][m] = <<c, n>> PROVE FALSE
                              BY <1>3
                          <5>1. <<c, n>> # Nobody
                                BY <1>3, NobodyAssumption
                          <5>2. Owned(s, m)
                                BY DEF Inv
                          <5>3. \E d \in Command : \E i \in 1..Len(chain[d]) :
                                  <<c, n>> = <<d, i>> /\ At(d, i) = s
                                BY <5>1, <5>2 DEF Owned
                          <5>4. At(c, n) = s
                                BY <5>3
                          <5> QED BY <1>3, <2>2, <3>2, <5>4
                    <4> QED BY <1>1, <3>1, <4>1, AdvanceOwned
              <3>3. CASE m # x
                    <4>1. Head(Todo(c)) # Unlock(m)
                          BY <1>4, <3>3, StepsAreTold
                    <4> QED BY <1>1, <3>1, <4>1, AdvanceOwned
              <3> QED BY <3>2, <3>3
        <2> QED BY <2>1, <2>2
  <1>7. chain' \in [Command -> Seq(Frame)] /\ Calls' /\ Disciplined'
        BY <1>1, AdvanceEffect, AdvanceKeeps
  <1> QED BY <1>1, <1>5, <1>6, <1>7 DEF Inv

LEMMA SectionKeeps ==
  ASSUME Inv, NEW c \in Command, Section(c)
  PROVE  Inv'
  <1>1. Running(c) /\ Todo(c) # <<>> /\ Now(c).do = "use" /\ Advance(c) /\ UNCHANGED <<cores, home, owner>>
        BY DEF Section, Doing
  <1>2. \A m : Head(Todo(c)) # Unlock(m)
        BY <1>1, NextStep DEF Unlock
  <1>3. \A s \in Server, m \in Mutex : Owned(s, m)'
        BY <1>1, <1>2, AdvanceOwned
  <1>4. chain' \in [Command -> Seq(Frame)] /\ Calls' /\ Disciplined'
        BY <1>1, AdvanceEffect, AdvanceKeeps
  <1> QED BY <1>1, <1>3, <1>4 DEF Inv

LEMMA FrontIsRest ==
  ASSUME NEW S, NEW t \in Seq(S), Len(t) >= 1
  PROVE  /\ Front(t) \in Seq(S) /\ Len(Front(t)) = Len(t) - 1
         /\ \A i \in 1..(Len(t) - 1) : Front(t)[i] = t[i]
  <1>1. Len(t) \in Nat /\ \A i \in 1..(Len(t) - 1) : t[i] \in S /\ 1 + i - 1 = i
        OBVIOUS
  <1> DEFINE n == Len(t)
  <1>2. n \in Nat /\ n >= 1
        BY <1>1
  <1> HIDE DEF n
  <1>3. /\ n - 1 \in Int /\ 1 \in Int /\ (n - 1) - 1 + 1 = n - 1
        /\ (IF 1 <= n - 1 THEN (n - 1) - 1 + 1 ELSE 0) = n - 1
        BY <1>2
  <1>4. /\ SubSeq(t, 1, n - 1) \in Seq(S) /\ Len(SubSeq(t, 1, n - 1)) = n - 1
        /\ \A i \in 1..(n - 1) : SubSeq(t, 1, n - 1)[i] = t[1 + i - 1]
        BY <1>1, <1>3, SubSeqProperties DEF n
  <1> QED BY <1>1, <1>4 DEF Front, n

LEMMA ReturnKeeps ==
  ASSUME Inv, NEW c \in Command, Return(c)
  PROVE  Inv'
  <1> DEFINE n == Len(chain[c])
             rest == Front(chain[c])
  <1>1. Running(c) /\ Todo(c) = <<>> /\ UNCHANGED <<cores, home, owner>>
        BY DEF Return
  <1>2. chain' = [chain EXCEPT ![c] = IF rest = <<>> THEN <<>>
                                      ELSE [rest EXCEPT ![Len(rest)].todo = Tail(@)]]
        BY DEF Return
  <1>3. /\ n \in Nat /\ n >= 1 /\ Todo(c) = chain[c][n].todo
        BY <1>1, TopFrame
  <1>4. chain \in [Command -> Seq(Frame)] /\ chain[c] \in Seq(Frame)
        BY DEF Inv
  <1>5. rest \in Seq(Frame) /\ Len(rest) = n - 1 /\ \A i \in 1..(n - 1) : rest[i] = chain[c][i]
        BY <1>3, <1>4, FrontIsRest
  <1> HIDE DEF rest
  \* What is left of the chain, with the call of its last frame done.
  <1> DEFINE new == chain'[c]
  <1>6. /\ chain' \in [Command -> Seq(Frame)] /\ new \in Seq(Frame) /\ Len(new) = n - 1
        /\ \A i \in 1..(n - 1) : new[i].of = chain[c][i].of
        /\ \A i \in 1..(n - 2) : new[i] = chain[c][i]
        /\ n > 1 => new[n - 1].todo = Tail(chain[c][n - 1].todo)
        <2>1. CASE n = 1
              <3>1. rest = <<>>
                    BY <1>5, <2>1, EmptySeq
              <3>2. new = <<>> /\ chain' = [chain EXCEPT ![c] = <<>>]
                    BY <1>2, <1>4, <3>1
              <3> QED BY <1>4, <2>1, <3>2, EmptySeq
        <2>2. CASE n > 1
              <3> DEFINE g == rest[n - 1]
                         f == [g EXCEPT !.todo = Tail(g.todo)]
              <3>1. n - 1 \in 1..(n - 1) /\ n - 1 \in Nat /\ n - 1 # 0
                    BY <1>3, <2>2
              <3>2. rest # <<>>
                    BY <1>5, <3>1, EmptySeq
              <3>3. g \in Frame /\ g = chain[c][n - 1] /\ g.todo # <<>>
                    BY <1>5, <3>1, ElementOfSeq DEF Inv, Calls
              <3>4. f \in Frame /\ f.of = g.of /\ f.todo = Tail(g.todo)
                    <4>1. Tail(g.todo) \in Seq(Step)
                          BY <3>3, HeadTailProperties DEF Frame
                    <4> QED BY <3>3, <4>1 DEF Frame
              <3>5. chain' = [chain EXCEPT ![c] = [rest EXCEPT ![n - 1] = f]]
                    BY <1>2, <1>5, <3>2
              <3> HIDE DEF f, g
              <3>6. /\ [rest EXCEPT ![n - 1] = f] \in Seq(Frame)
                    /\ Len([rest EXCEPT ![n - 1] = f]) = n - 1
                    /\ \A j \in 1..(n - 1) : [rest EXCEPT ![n - 1] = f][j] = IF j = n - 1 THEN f ELSE rest[j]
                    BY <1>5, <3>1, <3>4, ExceptSeq
              <3>7. new = [rest EXCEPT ![n - 1] = f] /\ chain' \in [Command -> Seq(Frame)]
                    BY <1>4, <3>5, <3>6
              <3>8. \A i \in 1..(n - 2) : i \in 1..(n - 1) /\ i # n - 1
                    BY <1>3
              <3>9. \A j \in 1..(n - 1) : new[j] = IF j = n - 1 THEN f ELSE rest[j]
                    BY <3>6, <3>7
              <3> HIDE DEF new
              <3>10. \A j \in 1..(n - 1) : new[j].of = chain[c][j].of
                     <4> TAKE j \in 1..(n - 1)
                     <4>1. CASE j = n - 1
                           BY <3>3, <3>4, <3>9, <4>1
                     <4>2. CASE j # n - 1
                           BY <1>5, <3>9, <4>2
                     <4> QED BY <4>1, <4>2
              <3>11. \A j \in 1..(n - 2) : new[j] = chain[c][j]
                     BY <1>5, <3>8, <3>9
              <3>12. new[n - 1].todo = Tail(chain[c][n - 1].todo)
                     BY <3>1, <3>3, <3>4, <3>9
              <3>13. new \in Seq(Frame) /\ Len(new) = n - 1
                     BY <3>6, <3>7
              <3> QED BY <3>7, <3>10, <3>11, <3>12, <3>13
        <2>3. n = 1 \/ n > 1
              <3>1. n \in Nat /\ n >= 1
                    BY <1>3
              <3> HIDE DEF n
              <3> QED BY <3>1
        <2> QED BY <2>1, <2>2, <2>3
  <1>7. \A d \in Command : d # c => chain'[d] = chain[d]
        BY <1>2, <1>4
  <1> HIDE DEF new
  <1>8. chain'[c] = new
        BY DEF new
  <1>9. Calls'
        <2> SUFFICES ASSUME NEW d \in Command, NEW i \in 1..(Len(chain'[d]) - 1)
                     PROVE  chain'[d][i].todo # <<>> /\ Head(chain'[d][i].todo) = Call(chain'[d][i + 1].of)
            BY DEF Calls
        <2>1. CASE d # c
              BY <1>7, <2>1 DEF Inv, Calls
        <2>2. CASE d = c
              <3>1. i \in 1..(n - 2) /\ i + 1 \in 1..(n - 1) /\ i \in 1..(n - 1)
                    BY <1>3, <1>6, <1>8, <2>2
              <3> QED BY <1>6, <1>8, <2>2, <3>1 DEF Inv, Calls
        <2> QED BY <2>1, <2>2
  <1>10. Disciplined'
        <2> SUFFICES ASSUME NEW d \in Command, NEW i \in 1..Len(chain'[d])
                     PROVE  chain'[d][i].todo \in Left(chain'[d][i].of)
            BY DEF Disciplined
        <2>1. CASE d # c
              BY <1>7, <2>1 DEF Inv, Disciplined
        <2>2. CASE d = c
              <3>1. i \in 1..(n - 1) /\ i \in 1..n /\ n > 1 /\ (i = n - 1 \/ i \in 1..(n - 2))
                    BY <1>3, <1>6, <1>8, <2>2
              <3>a. chain[c][i] \in Frame
                    BY <1>4, <3>1, ElementOfSeq
              <3>b. chain[c][i].todo \in Left(chain[c][i].of)
                    BY <3>1 DEF Inv, Disciplined
              <3>c. chain[c][i].todo # <<>>
                    BY <3>1 DEF Inv, Calls
              <3>2. /\ chain[c][i].todo \in Left(chain[c][i].of) /\ chain[c][i].of \in Kind
                    /\ chain[c][i].todo # <<>>
                    BY <3>a, <3>b, <3>c DEF Frame
              <3>3. Tail(chain[c][i].todo) \in Left(chain[c][i].of)
                    BY <3>2, TailIsLeft
              <3> QED BY <1>6, <1>8, <2>2, <3>1, <3>2, <3>3
        <2> QED BY <2>1, <2>2
  <1>11. ASSUME NEW s \in Server, NEW m \in Mutex PROVE Owned(s, m)'
        <2> SUFFICES ASSUME owner[s][m] # Nobody PROVE Owned(s, m)'
            BY <1>1 DEF Owned
        <2>1a. PICK d \in Command : \E i \in 1..Len(chain[d]) :
                 owner[s][m] = <<d, i>> /\ At(d, i) = s /\ chain[d][i].todo \in Held(m)
               BY DEF Inv, Owned
        <2>1. PICK i \in 1..Len(chain[d]) :
                owner[s][m] = <<d, i>> /\ At(d, i) = s /\ chain[d][i].todo \in Held(m)
              BY <2>1a
        <2>2. m \in {"user", "quit"} /\ owner' = owner /\ At(d, i)' = At(d, i)
              BY <1>1 DEF Inv, Owned, At, Mutex
        <2>3. i \in 1..Len(chain'[d]) /\ chain'[d][i].todo \in Held(m)
              <3>1. CASE d # c
                    BY <1>7, <2>1, <3>1
              <3>2. CASE d = c
                    <4>1. i # n
                          BY <1>1, <1>3, <2>1, <2>2, <3>2, HeldNext
                    <4>2. i \in 1..(n - 1) /\ n > 1 /\ (i = n - 1 \/ i \in 1..(n - 2))
                          BY <1>3, <3>2, <4>1
                    <4>3. Head(chain[c][i].todo) = Call(chain[c][i + 1].of)
                          BY <4>2 DEF Inv, Calls
                    <4>4. Tail(chain[c][i].todo) \in Held(m)
                          BY <2>1, <2>2, <3>2, <4>3, HeldNext, StepsAreTold
                    <4> QED BY <1>6, <1>8, <2>1, <3>2, <4>2, <4>4
              <3> QED BY <3>1, <3>2
        <2> QED BY <2>1, <2>2, <2>3 DEF Owned
  <1> QED BY <1>1, <1>6, <1>9, <1>10, <1>11 DEF Inv

LEMMA Invariance == Spec => []Inv
  <1>1. Inv /\ [Next]_vars => Inv'
        <2> SUFFICES ASSUME Inv, [Next]_vars PROVE Inv'
            OBVIOUS
        <2>1. ASSUME NEW c \in Command,
                     Start(c) \/ Acquire(c) \/ Release(c) \/ Section(c) \/ Deliver(c) \/ Return(c)
              PROVE  Inv'
              BY <2>1, StartKeeps, AcquireKeeps, ReleaseKeeps, SectionKeeps, DeliverKeeps, ReturnKeeps
        <2>2. CASE UNCHANGED vars
              BY <2>2 DEF vars, Inv, Calls, Disciplined, Owned, At
        <2> QED BY <2>1, <2>2 DEF Next
  <1> QED BY <1>1, InitKeeps, PTL DEF Spec

-----------------------------------------------------------------------------
(* What the invariant says of waiting commands. *)

LEMMA OwnedUnlocks ==
  ASSUME Inv, NEW s \in Server, NEW m \in Mutex, owner[s][m] # Nobody
  PROVE  \E d \in Command : \E i \in 1..Len(chain[d]) :
           /\ owner[s][m] = <<d, i>> /\ At(d, i) = s
           /\ m \in {"user", "quit"} /\ chain[d][i].todo \in Held(m)
           /\ Contains(chain[d][i].todo, Unlock(m))
  <1>1. PICK d \in Command : \E i \in 1..Len(chain[d]) :
          owner[s][m] = <<d, i>> /\ At(d, i) = s /\ chain[d][i].todo \in Held(m)
        BY DEF Inv, Owned
  <1>2. PICK i \in 1..Len(chain[d]) :
          owner[s][m] = <<d, i>> /\ At(d, i) = s /\ chain[d][i].todo \in Held(m)
        BY <1>1
  <1>3. m \in {"user", "quit"}
        BY DEF Inv, Owned, Mutex
  <1>4. Contains(chain[d][i].todo, Unlock(m))
        BY <1>2, HeldContains
  <1> QED BY <1>2, <1>3, <1>4

\* The state is well formed.
THEOREM TypeCorrect == Spec => []TypeOK
  <1>1. Inv => TypeOK
        <2> SUFFICES ASSUME Inv PROVE TypeOK
            OBVIOUS
        <2>1. chain \in [Command -> Seq([of : Message \cup {"command"}, todo : Seq(Step)])]
              BY DEF Inv, Frame, Kind
        <2>2. ASSUME NEW s \in Server, NEW m \in Mutex, owner[s][m] # Nobody
              PROVE  /\ owner[s][m] \in Frames
                     /\ LET f == owner[s][m]
                        IN  At(f[1], f[2]) = s /\ Contains(chain[f[1]][f[2]].todo, Unlock(m))
              <3>1. PICK d \in Command : \E i \in 1..Len(chain[d]) :
                      /\ owner[s][m] = <<d, i>> /\ At(d, i) = s
                      /\ Contains(chain[d][i].todo, Unlock(m))
                    BY <2>2, OwnedUnlocks
              <3>2. PICK i \in 1..Len(chain[d]) :
                      /\ owner[s][m] = <<d, i>> /\ At(d, i) = s
                      /\ Contains(chain[d][i].todo, Unlock(m))
                    BY <3>1
              <3>3. chain[d] \in Seq(Frame)
                    BY DEF Inv
              <3>4. <<d, i>> \in {d} \X DOMAIN chain[d]
                    BY <3>3
              <3>5. <<d, i>> \in Frames
                    BY <3>4 DEF Frames
              <3> QED BY <3>2, <3>5
        <2>3. owner \in [Server -> [Mutex -> Frames \cup {Nobody}]]
              <3>1. \A s \in Server, m \in Mutex : owner[s][m] \in Frames \cup {Nobody}
                    BY <2>2
              <3> QED BY <3>1 DEF Inv
        <2> QED BY <2>1, <2>2, <2>3 DEF Inv, Calls, TypeOK
  <1> QED BY <1>1, Invariance, PTL

\* A command that waits for user_mtx or channel_mtx waits for one that can go on: nobody
\* holds channel_mtx over another step, and who holds user_mtx takes channel_mtx next,
\* or releases.
LEMMA WaitsForUser ==
  ASSUME Inv, NEW c \in Command, Waits(c), Now(c).on # "quit"
  PROVE  \E d \in Command : owner[Here(c)][Now(c).on][1] = d /\ ~Waits(d)
  <1> DEFINE s == Here(c)
             m == Now(c).on
  <1>1. Running(c) /\ Todo(c) # <<>> /\ Now(c).do \in {"lock", "use"} /\ owner[s][m] # Nobody
        BY DEF Waits, Doing
  <1>2. s \in Server /\ m \in Mutex
        BY <1>1, TopFrame, NextStep DEF Step
  <1>3. PICK d \in Command : \E i \in 1..Len(chain[d]) :
          owner[s][m] = <<d, i>> /\ m \in {"user", "quit"} /\ chain[d][i].todo \in Held(m)
        BY <1>1, <1>2, OwnedUnlocks
  <1>4. PICK i \in 1..Len(chain[d]) :
          owner[s][m] = <<d, i>> /\ m \in {"user", "quit"} /\ chain[d][i].todo \in Held(m)
        BY <1>3
  <1>5. chain[d][i].todo \in Held("user")
        BY <1>4
  <1>6. chain[d] \in Seq(Frame) /\ Len(chain[d]) \in Nat /\ Running(d)
        <2>1. chain[d] \in Seq(Frame) /\ Len(chain[d]) \in Nat /\ Len(chain[d]) # 0
              BY <1>4 DEF Inv
        <2> QED BY <2>1, EmptySeq DEF Running
  <1>7. i = Len(chain[d])
        <2> SUFFICES ASSUME i \in 1..(Len(chain[d]) - 1) PROVE FALSE
            BY <1>6
        <2>1. \E k : Head(chain[d][i].todo) = Call(k)
              BY DEF Inv, Calls
        <2> QED BY <1>5, <2>1, HeldNext, StepsAreTold DEF Inside
  <1>8. Todo(d) = chain[d][i].todo /\ Here(d) \in Server
        BY <1>6, <1>7, TopFrame
  <1>9. Now(d) = Unlock("user") \/ Now(d) = Use("channel")
        BY <1>5, <1>8, HeldNext DEF Now, Inside
  <1>10. owner[Here(d)]["channel"] = Nobody
         BY <1>8 DEF Inv, Owned, Mutex
  <1>11. ~Waits(d)
         BY <1>9, <1>10 DEF Waits, Doing, Unlock, Use
  <1> QED BY <1>4, <1>11

\* A command that waits for quit_mtx waits for one that can go on, or for one that waits
\* for it too, in the QUIT of an Exit: then that QUIT holds the quit_mtx of its receiver,
\* or is about to.
LEMMA WaitsForQuit ==
  ASSUME Inv, NEW c \in Command, Waits(c), Now(c).on = "quit"
  PROVE  \E d \in Command :
           /\ owner[Here(c)]["quit"][1] = d
           /\ Waits(d) /\ Now(d).on = "quit" =>
                \E i \in DOMAIN chain[d] :
                   chain[d][i].of = "leave" /\ Contains(chain[d][i].todo, Unlock("quit"))
  <1> DEFINE s == Here(c)
  <1>1. Running(c) /\ owner[s]["quit"] # Nobody
        BY DEF Waits, Doing
  <1>2. s \in Server /\ "quit" \in Mutex
        BY <1>1, TopFrame DEF Mutex
  <1>3. PICK d \in Command : \E i \in 1..Len(chain[d]) :
          owner[s]["quit"] = <<d, i>> /\ chain[d][i].todo \in Held("quit")
        BY <1>1, <1>2, OwnedUnlocks
  <1>4. PICK i \in 1..Len(chain[d]) :
          owner[s]["quit"] = <<d, i>> /\ chain[d][i].todo \in Held("quit")
        BY <1>3
  <1> SUFFICES ASSUME Waits(d), Now(d).on = "quit"
               PROVE  \E j \in DOMAIN chain[d] :
                         chain[d][j].of = "leave" /\ Contains(chain[d][j].todo, Unlock("quit"))
      BY <1>4
  <1>5. Running(d) /\ Todo(d) # <<>> /\ Now(d).do \in {"lock", "use"} /\ Now(d) = Head(Todo(d))
        BY DEF Waits, Doing, Now
  <1> DEFINE n == Len(chain[d])
  <1>6. n \in Nat /\ chain[d] \in Seq(Frame) /\ Todo(d) = chain[d][n].todo /\ DOMAIN chain[d] = 1..n
        BY <1>5, TopFrame DEF Inv
  <1>7. i # n
        <2>1. \/ Head(chain[d][i].todo) = Unlock("quit")
              \/ Head(chain[d][i].todo) \in Inside("quit")
              BY <1>4, HeldNext
        <2> QED BY <1>5, <1>6, <2>1 DEF Inside, Unlock, Use, Call
  <1>8. i \in 1..(n - 1) /\ i + 1 \in 1..n
        BY <1>6, <1>7
  <1> DEFINE f == chain[d][i + 1]
  <1>9. f \in Frame /\ f.todo \in Left(f.of)
        BY <1>6, <1>8, ElementOfSeq DEF Inv, Disciplined
  <1>10. f.of \in {"note", "leave", "echo"}
         <2>1. Head(chain[d][i].todo) = Call(f.of)
               BY <1>8 DEF Inv, Calls
         <2>2. Call(f.of) \in Inside("quit")
               BY <1>4, <2>1, HeldNext, StepsAreTold, SMTT(30)
         <2>3. Call(f.of) \in {Call("note"), Call("leave"), Call("echo")}
               BY <2>2, StepsAreTold DEF Inside
         <2> QED BY <2>3, StepsAreTold
  \* The last frame is waiting, any other is in a call.
  <1>11. f.todo # <<>> /\ Head(f.todo) # Use("user") /\ Head(f.todo) # Use("channel")
         <2>1. CASE i + 1 = n
               BY <1>5, <1>6, <2>1 DEF Use
         <2>2. CASE i + 1 # n
               <3>1. i + 1 \in 1..(n - 1)
                     BY <1>6, <1>8, <2>2
               <3>2. f.todo # <<>> /\ \E k : Head(f.todo) = Call(k)
                     BY <3>1 DEF Inv, Calls
               <3> QED BY <3>2, StepsAreTold
         <2> QED BY <2>1, <2>2
  <1>12. f.of = "leave"
         BY <1>9, <1>10, <1>11 DEF Left
  <1>13. f.todo \notin Seq(Uses)
         <2> SUFFICES ASSUME f.todo \in Seq(Uses) PROVE FALSE
             OBVIOUS
         <2>1. Head(f.todo) \in Uses
               BY <1>11, HeadTailProperties
         <2> QED BY <1>11, <2>1 DEF Uses, Use
  <1>14. f.todo \in Held("quit") \/ f.todo \in Whole("quit")
         BY <1>9, <1>12, <1>13 DEF Left, Exits, Uses
  <1>15. Contains(f.todo, Unlock("quit"))
         BY <1>14, HeldContains, WholeContains
  <1> QED BY <1>6, <1>8, <1>12, <1>15

-----------------------------------------------------------------------------
(* The theorems. *)

\* user_mtx and channel_mtx alone never make commands wait for one another
\* (Channel::join and part take them in one order, Channel.cpp:28 and 51), for any
\* number of commands.
THEOREM NoLockDeadlock == Spec => []LocksNeverDeadlock
  <1>1. Inv => LocksNeverDeadlock
        <2> SUFFICES ASSUME Inv,
                            NEW D \in SUBSET {c \in Command : Waits(c) /\ Now(c).on # "quit"},
                            Deadlocked(D)
                     PROVE  FALSE
            BY DEF LocksNeverDeadlock
        <2>1. PICK c \in D : TRUE
              BY DEF Deadlocked
        <2>2. c \in Command /\ Waits(c) /\ Now(c).on # "quit"
              OBVIOUS
        <2>3. ~Queues(c)
              BY <2>2 DEF Waits, Queues, Doing
        <2>4. owner[Here(c)][Now(c).on][1] \in D
              BY <2>3 DEF Deadlocked
        <2> QED BY <2>2, <2>4, WaitsForUser
  <1> QED BY <1>1, Invariance, PTL

\* Commands are stuck only if all the threads that handle messages of a server are taken by
\* them, or if the Exits of a nickname that is local on both servers wait for each other
\* (User::Exit holds quit_mtx over its QUIT, User.cpp:61), for any number of commands and
\* threads.
THEOREM StuckForTwoReasons == Spec => []StuckOnlyWhenFull
  <1>1. Inv => StuckOnlyWhenFull
        <2> SUFFICES ASSUME Inv, NEW D \in SUBSET {c \in Command : Waits(c) \/ Queues(c)},
                            Deadlocked(D)
                     PROVE  \/ \E s \in Server :
                                 Busy(s, D) = Handlers(s) /\ Cardinality(Handlers(s)) = cores[s]
                            \/ \E c \in D : \E i \in DOMAIN chain[c] :
                                 chain[c][i].of = "leave" /\ Contains(chain[c][i].todo, Unlock("quit"))
            BY DEF StuckOnlyWhenFull
        <2>1. CASE \E c \in D : Queues(c) /\ Handlers(Peer(Here(c))) = Busy(Peer(Here(c)), D)
              <3>1. PICK c \in D : Queues(c) /\ Handlers(Peer(Here(c))) = Busy(Peer(Here(c)), D)
                    BY <2>1
              <3>2. Peer(Here(c)) \in Server
                    BY <3>1, TopFrame, PeerIsOther DEF Queues, Doing
              <3> QED BY <3>1, <3>2 DEF Queues
        <2>2. CASE ~\E c \in D : Queues(c) /\ Handlers(Peer(Here(c))) = Busy(Peer(Here(c)), D)
              <3>1. \A c \in D : c \in Command /\ Waits(c) /\ owner[Here(c)][Now(c).on][1] \in D
                    BY <2>2 DEF Deadlocked
              <3>2. \A c \in D : Now(c).on = "quit"
                    BY <3>1, WaitsForUser
              <3>3. PICK c \in D : TRUE
                    BY DEF Deadlocked
              <3> QED BY <3>1, <3>2, <3>3, WaitsForQuit
        <2> QED BY <2>1, <2>2
  <1> QED BY <1>1, Invariance, PTL

=============================================================================
