-------------------------- MODULE ZeusDBLogProofs --------------------------
(***************************************************************************)
(* Proofs about ZeusDBLog: the logs implement a replicated log.  Inv adds  *)
(* to the types where a statement can be (Traced): whatever holds it, a    *)
(* log, the rows of a Sync or a call, its author has run it before; and    *)
(* that a log holds no ID twice.                                           *)
(* The second part proves that an exchange which nothing disturbs leaves   *)
(* two servers with the same records (CleanExchangeAgrees).  While it      *)
(* runs, every answer to a VERSION is at some row of the log of the server *)
(* that answers (SyncAt), and as long as a connected server is not behind  *)
(* the other, a VERSION of the other is still to come or being answered.   *)
(***************************************************************************)
EXTENDS ZeusDBLog, TLAPS

\* The statements their writer has run.
Authored == {r \in Record : r \in ran[writer[r]]}

Traced ==
    /\ \A s \in Server : \A i \in DOMAIN log[s] : log[s][i] \in Authored
    /\ \A s \in Server : \A r \in ran[s] : r \in Authored
    /\ \A s \in Server, v \in Burster : \A i \in DOMAIN rows[s][v] : rows[s][v][i] \in Authored
    /\ \A m \in net : m.kind = "DB" => m.record \in Authored
    /\ \A r \in Record : stage[r] \in {"run", "stored"} => r \in Authored
    /\ \A r \in Record : stage[r] = "new" => r \notin Authored
    /\ \A r \in Record : stage[r] = "stored" => left[r] > 0

\* The ID of LAST is UNIQUE (db.cpp:49): an ID is at one row.
NoDuplicates == \A s \in Server : \A i, j \in DOMAIN log[s] : log[s][i] = log[s][j] => i = j

Inv == TypeOK /\ Traced /\ NoDuplicates

-----------------------------------------------------------------------------
(* The log. *)

LEMMA PeerIsServer == \A s \in Server : Peer(s) \in Server
  BY DEF Peer, Server

\* What comes after an ID is a sequence of rows of the log.
LEMMA RowsAfterOfLog ==
  ASSUME NEW S, NEW rs \in Seq(S), NEW id
  PROVE  /\ RowsAfter(rs, id) \in Seq(S)
         /\ \A i \in DOMAIN RowsAfter(rs, id) : \E j \in DOMAIN rs : RowsAfter(rs, id)[i] = rs[j]
  <1> DEFINE at == {i \in DOMAIN rs : rs[i] = id}
             k == CHOOSE i \in at : TRUE
  <1>1. CASE id = NoRecord
        BY <1>1 DEF RowsAfter
  <1>2. CASE id # NoRecord /\ at = {}
        BY <1>2 DEF RowsAfter
  <1>3. CASE id # NoRecord /\ at # {}
        <2>1. k \in 1..Len(rs)
              BY <1>3
        <2>2. RowsAfter(rs, id) = SubSeq(rs, k + 1, Len(rs))
              BY <1>3 DEF RowsAfter
        <2> HIDE DEF k, at
        <2>3. /\ SubSeq(rs, k + 1, Len(rs)) \in Seq(S)
              /\ Len(SubSeq(rs, k + 1, Len(rs))) = Len(rs) - k
              /\ \A i \in 1..(Len(rs) - k) : SubSeq(rs, k + 1, Len(rs))[i] = rs[k + i]
              BY <2>1
        <2> QED BY <2>1, <2>2, <2>3
  <1> QED BY <1>1, <1>2, <1>3

\* AlmacenaDB adds the record at the end, unless it is there.
LEMMA AlmacenaDBStep ==
  ASSUME log \in [Server -> Seq(Record)], NoDuplicates, NEW A,
         \A s \in Server : \A i \in DOMAIN log[s] : log[s][i] \in A,
         NEW s \in Server, NEW r \in Record, r \in A, AlmacenaDB(s, r)
  PROVE  /\ log' \in [Server -> Seq(Record)]
         /\ NoDuplicates'
         /\ \A t \in Server : \A i \in DOMAIN log'[t] : log'[t][i] \in A
  <1>1. CASE r \in Range(log[s])
        BY <1>1 DEF AlmacenaDB, NoDuplicates
  <1>2. CASE r \notin Range(log[s])
        <2> DEFINE new == Append(log[s], r)
        <2>1. log' = [log EXCEPT ![s] = new]
              BY <1>2 DEF AlmacenaDB
        <2>2. /\ new \in Seq(Record) /\ Len(new) = Len(log[s]) + 1
              /\ \A i \in 1..Len(log[s]) : new[i] = log[s][i]
              /\ new[Len(log[s]) + 1] = r
              /\ DOMAIN new = 1..(Len(log[s]) + 1) /\ DOMAIN log[s] = 1..Len(log[s])
              /\ Len(log[s]) \in Nat
              OBVIOUS
        <2> HIDE DEF new
        <2>3. \A i \in DOMAIN log[s] : log[s][i] # r
              BY <1>2 DEF Range
        <2>4. \A i, j \in DOMAIN new : new[i] = new[j] => i = j
          <3>1. SUFFICES ASSUME NEW i \in 1..(Len(log[s]) + 1), NEW j \in 1..(Len(log[s]) + 1),
                                new[i] = new[j]
                         PROVE  i = j
                BY <2>2
          <3>2. CASE i \in 1..Len(log[s]) /\ j \in 1..Len(log[s])
                BY <3>1, <3>2, <2>2 DEF NoDuplicates
          <3>3. CASE i = Len(log[s]) + 1 /\ j \in 1..Len(log[s])
                BY <3>1, <3>3, <2>2, <2>3
          <3>4. CASE j = Len(log[s]) + 1 /\ i \in 1..Len(log[s])
                BY <3>1, <3>4, <2>2, <2>3
          <3> QED BY <3>2, <3>3, <3>4, <2>2
        <2>5. NoDuplicates'
              BY <2>1, <2>4 DEF NoDuplicates
        <2>6. \A i \in DOMAIN new : new[i] \in A
              BY <2>2
        <2> QED BY <2>1, <2>2, <2>5, <2>6
  <1> QED BY <1>1, <1>2

\* AlmacenaDB stores the record, and changes no other server.
LEMMA AlmacenaDBRange ==
  ASSUME log \in [Server -> Seq(Record)], NEW s \in Server, NEW r \in Record, AlmacenaDB(s, r)
  PROVE  /\ Range(log'[s]) = Range(log[s]) \cup {r}
         /\ \A t \in Server : t # s => Range(log'[t]) = Range(log[t])
  <1>1. CASE r \in Range(log[s])
        BY <1>1 DEF AlmacenaDB
  <1>2. CASE r \notin Range(log[s])
        <2> DEFINE new == Append(log[s], r)
        <2>1. log' = [log EXCEPT ![s] = new]
              BY <1>2 DEF AlmacenaDB
        <2>2. /\ \A i \in 1..Len(log[s]) : new[i] = log[s][i]
              /\ new[Len(log[s]) + 1] = r
              /\ DOMAIN new = 1..(Len(log[s]) + 1) /\ DOMAIN log[s] = 1..Len(log[s])
              /\ Len(log[s]) \in Nat
              OBVIOUS
        <2> HIDE DEF new
        <2>3. Range(new) = Range(log[s]) \cup {r}
              <3>1. \A i \in DOMAIN log[s] : i \in DOMAIN new /\ new[i] = log[s][i]
                    BY <2>2
              <3>2. \A i \in DOMAIN new : i \in DOMAIN log[s] \/ new[i] = r
                    BY <2>2
              <3>3. Len(log[s]) + 1 \in DOMAIN new
                    BY <2>2
              <3> QED BY <2>2, <3>1, <3>2, <3>3 DEF Range
        <2>4. log'[s] = new /\ \A t \in Server : t # s => log'[t] = log[t]
              BY <2>1
        <2> QED BY <2>3, <2>4
  <1> QED BY <1>1, <1>2

-----------------------------------------------------------------------------
(* The steps. *)

LEMMA InitEstablishes == Init => Inv
  <1> SUFFICES ASSUME Init PROVE Inv
      OBVIOUS
  <1>1. TypeOK
        <2>1. \A s \in Server : log[s] \in Seq(Record)
              BY DEF Init
        <2>2. \A s \in Server, v \in Burster : rows[s][v] \in Seq(Record)
              BY DEF Init
        <2>3. log \in [Server -> Seq(Record)] /\ rows \in [Server -> [Burster -> Seq(Record)]]
              BY <2>1, <2>2 DEF Init
        <2>4. burst \in [Server -> [Burster -> {"idle", "burst", "server", "version"}]]
              BY DEF Init
        <2>5. writer \in [Record -> Server] /\ entries \in [Server -> Nat]
              BY DEF Init, Server
        <2>6. /\ up \in [Server -> BOOLEAN] /\ named \in [Server -> BOOLEAN] /\ clean \in BOOLEAN
              /\ ran \in [Server -> SUBSET Record] /\ left \in [Record -> Nat] /\ faults \in Nat
              /\ stage \in [Record -> {"new", "run", "stored", "over"}]
              BY DEF Init
        <2> QED BY <2>3, <2>4, <2>5, <2>6 DEF Init, TypeOK
  <1>2. Traced
        <2>1. \A s \in Server : DOMAIN log[s] = {} /\ ran[s] = {}
              BY DEF Init
        <2>2. \A s \in Server, v \in Burster : DOMAIN rows[s][v] = {}
              BY DEF Init
        <2>3. \A r \in Record : stage[r] = "new" /\ writer[r] = Hub /\ Hub \in Server
              BY DEF Init, Server
        <2> QED BY <2>1, <2>2, <2>3 DEF Init, Traced, Authored
  <1>3. NoDuplicates
        BY DEF Init, NoDuplicates
  <1> QED BY <1>1, <1>2, <1>3 DEF Inv

\* The same but for being taken.
SameCall(m, n) == m.kind = n.kind /\ m.thread = n.thread /\ m.record = n.record

\* A step of the link: nothing is written, stored or sent but messages of a burst.
LEMMA LinkStep ==
  ASSUME Inv, UNCHANGED <<tables, statements, rows>>,
         up' \in [Server -> BOOLEAN], entries' \in [Server -> Nat], named' \in [Server -> BOOLEAN],
         burst' \in [Server -> [Burster -> {"idle", "burst", "server", "version"}]],
         net' \subseteq Call,
         \A m \in net' : \/ \E n \in net : SameCall(m, n)
                         \/ m.kind # "DB" /\ m.thread \in Burster,
         faults' \in Nat, clean' \in BOOLEAN
  PROVE  Inv'
  <1>2. \A m \in net' : /\ m.kind = "DB" => m.record \in Record /\ m.record \in Authored
                        /\ m.kind = "VERSION" => m.thread \in Burster
        BY DEF Inv, TypeOK, Traced, SameCall
  <1>3. TypeOK'
        BY <1>2 DEF Inv, TypeOK, tables, statements
  <1>4. Authored' = Authored
        BY DEF Authored, tables, statements
  <1>5. Traced'
        BY <1>2, <1>4 DEF Inv, Traced, tables, statements
  <1>6. NoDuplicates'
        BY DEF Inv, NoDuplicates, tables
  <1> QED BY <1>3, <1>5, <1>6 DEF Inv

LEMMA FaultTypes ==
  ASSUME TypeOK, Fault
  PROVE  faults' \in Nat /\ clean' \in BOOLEAN
  <1>1. faults' \in Nat
        BY DEF TypeOK, Fault
  <1>2. clean' \in BOOLEAN
        BY Zenon DEF Fault
  <1> QED BY <1>1, <1>2

LEMMA ConnectStep == ASSUME Inv, NEW s \in Server, Connect(s) PROVE Inv'
  <1>1. clean' \in BOOLEAN
        BY DEF Inv, TypeOK, Connect, Prefix
  <1>2. burst' \in [Server -> [Burster -> {"idle", "burst", "server", "version"}]]
        BY DEF Inv, TypeOK, Connect, Burster
  <1>3. entries' \in [Server -> Nat] /\ net' \subseteq Call
        /\ \A m \in net' : \E n \in net : SameCall(m, n)
        BY DEF Inv, TypeOK, Connect, SameCall
  <1> QED BY <1>1, <1>2, <1>3, LinkStep DEF Inv, TypeOK, Connect

LEMMA BurstStepStep ==
  ASSUME Inv, NEW s \in Server, NEW v \in Burster, BurstStep(s, v) PROVE Inv'
  <1> DEFINE call(kind, record) ==
        [from |-> s, thread |-> v, kind |-> kind, record |-> record, taken |-> FALSE]
  <1>1. GetLastRecord(s) \in Record \cup {NoRecord}
        BY DEF Inv, TypeOK, GetLastRecord
  <1>2. \E kind \in {"BURST", "SERVER", "VERSION"}, record \in Record \cup {NoRecord} :
           net' = net \cup {call(kind, record)}
        BY <1>1 DEF BurstStep, Send
  <1>3. PICK kind \in {"BURST", "SERVER", "VERSION"}, record \in Record \cup {NoRecord} :
           net' = net \cup {call(kind, record)}
        BY <1>2
  <1>4. call(kind, record) \in Call /\ call(kind, record).kind # "DB"
        /\ call(kind, record).thread \in Burster
        BY DEF Call, Thread
  <1>5. burst' \in [Server -> [Burster -> {"idle", "burst", "server", "version"}]]
        <2>1. PICK step \in {"idle", "burst", "server", "version"} :
                burst' = [burst EXCEPT ![s][v] = step]
              BY DEF BurstStep
        <2> QED BY <2>1 DEF Inv, TypeOK
  <1> HIDE DEF call
  <1>6. net' \subseteq Call
        BY <1>3, <1>4 DEF Inv, TypeOK
  <1>7. \A m \in net' : m \in net \/ (m.kind # "DB" /\ m.thread \in Burster)
        BY <1>3, <1>4
  <1>8. \A m \in net' : \/ \E n \in net : SameCall(m, n)
                        \/ m.kind # "DB" /\ m.thread \in Burster
        BY <1>7 DEF SameCall
  <1> QED BY <1>5, <1>6, <1>8, LinkStep DEF Inv, TypeOK, BurstStep, link

\* A call that is taken is the same call.
LEMMA TakeTypes ==
  ASSUME net \subseteq Call, NEW m \in net, ~m.taken, Take(m)
  PROVE  /\ net' \subseteq Call
         /\ \A n \in net' : \E k \in net : SameCall(n, k)
  <1> DEFINE t == [m EXCEPT !.taken = TRUE]
  <1>1. m \in Call
        OBVIOUS
  <1>2. t \in Call
        BY <1>1 DEF Call
  <1>3. t.kind = m.kind /\ t.thread = m.thread /\ t.record = m.record
        BY <1>1 DEF Call
  <1>4. net' = (net \ {m}) \cup {t}
        BY DEF Take
  <1> HIDE DEF t
  <1> QED BY <1>2, <1>3, <1>4 DEF SameCall

LEMMA ReturnSubset ==
  ASSUME NEW m, Return(m)
  PROVE  net' \subseteq net /\ \A n \in net' : \E k \in net : SameCall(n, k)
  BY DEF Return, SameCall

LEMMA TakeBurstStep == ASSUME Inv, NEW m \in net, TakeBurst(m) PROVE Inv'
  <1>1. /\ net' \subseteq Call
        /\ \A n \in net' : \E k \in net : SameCall(n, k)
        BY TakeTypes DEF Inv, TypeOK, TakeBurst, Accepts
  <1>2. burst' \in [Server -> [Burster -> {"idle", "burst", "server", "version"}]]
        BY DEF Inv, TypeOK, TakeBurst, Burster
  <1> QED BY <1>1, <1>2, LinkStep DEF Inv, TypeOK, TakeBurst, link

LEMMA TakeServerStep == ASSUME Inv, NEW m \in net, TakeServer(m) PROVE Inv'
  <1>1. net' \subseteq net /\ \A n \in net' : \E k \in net : SameCall(n, k)
        BY ReturnSubset DEF TakeServer
  <1> QED BY <1>1, LinkStep DEF Inv, TypeOK, TakeServer

LEMMA RefusedStep == ASSUME Inv, NEW m \in net, Refused(m) PROVE Inv'
  <1>1. net' \subseteq net /\ \A n \in net' : \E k \in net : SameCall(n, k)
        BY ReturnSubset DEF Refused
  <1> QED BY <1>1, LinkStep DEF Inv, TypeOK, Refused, link

LEMMA LoseStep == ASSUME Inv, NEW m \in net, Lose(m) PROVE Inv'
  <1>1. net' \subseteq net /\ \A n \in net' : \E k \in net : SameCall(n, k)
        BY ReturnSubset DEF Lose
  <1>2. named' \in [Server -> BOOLEAN]
        BY DEF Inv, TypeOK, Lose
  <1> QED BY <1>1, <1>2, FaultTypes, LinkStep DEF Inv, TypeOK, Lose

LEMMA SquitStep == ASSUME Inv, NEW s \in Server, Squit(s) PROVE Inv'
  <1>1. \A n \in net' : \E k \in net : SameCall(n, k)
        BY DEF Squit, SameCall
  <1> QED BY <1>1, FaultTypes, LinkStep DEF Inv, TypeOK, Squit

LEMMA RehashStep == ASSUME Inv, NEW s \in Server, Rehash(s) PROVE Inv'
  <1>1. \A n \in net' : \E k \in net : SameCall(n, k)
        BY DEF Rehash, SameCall
  <1> QED BY <1>1, FaultTypes, LinkStep DEF Inv, TypeOK, Rehash

LEMMA RestartStep == ASSUME Inv, NEW s \in Server, Restart(s) PROVE Inv'
  <1>1. \A n \in net' : \E k \in net : SameCall(n, k)
        BY DEF Restart, SameCall
  <1> QED BY <1>1, LinkStep DEF Inv, TypeOK, Restart

\* The calls of a step that sends none, or the statement r of a thread of s.
LEMMA NetStep ==
  ASSUME Inv, net' \subseteq Call, Authored \subseteq Authored',
         \A m \in net' : \/ \E n \in net : SameCall(m, n)
                         \/ m.kind = "DB" /\ m.record \in Authored
  PROVE  \A m \in net' : /\ m.kind = "DB" => m.record \in Record /\ m.record \in Authored'
                         /\ m.kind = "VERSION" => m.thread \in Burster
  BY ZenonT(60) DEF Inv, TypeOK, Traced, SameCall, Authored

LEMMA SendStep ==
  ASSUME net \subseteq Call, NEW s \in Server, NEW t \in Thread, NEW r \in Record,
         Send(s, t, "DB", r)
  PROVE  /\ net' \subseteq Call
         /\ \A m \in net' : (\E n \in net : SameCall(m, n)) \/ (m.kind = "DB" /\ m.record = r)
  <1> DEFINE call == [from |-> s, thread |-> t, kind |-> "DB", record |-> r, taken |-> FALSE]
  <1>1. call \in Call /\ call.kind = "DB" /\ call.record = r
        BY DEF Call
  <1>2. net' = net \cup {call}
        BY DEF Send
  <1> HIDE DEF call
  <1> QED BY <1>1, <1>2 DEF SameCall

\* Rows that are replaced by a sequence of authored statements.
LEMMA RowsStep ==
  ASSUME NEW A, NEW R \in [Server -> [Burster -> Seq(Record)]],
         \A s \in Server, w \in Burster : \A i \in DOMAIN R[s][w] : R[s][w][i] \in A,
         NEW p \in Server, NEW v \in Burster,
         NEW q \in Seq(Record), \A i \in DOMAIN q : q[i] \in A,
         NEW Q, Q = [R EXCEPT ![p][v] = q]
  PROVE  /\ Q \in [Server -> [Burster -> Seq(Record)]]
         /\ \A s \in Server, w \in Burster : \A i \in DOMAIN Q[s][w] : Q[s][w][i] \in A
  <1>1. \A s \in Server, w \in Burster : Q[s][w] = IF s = p /\ w = v THEN q ELSE R[s][w]
        OBVIOUS
  <1>2. Q \in [Server -> [Burster -> Seq(Record)]]
        OBVIOUS
  <1> QED BY <1>1, <1>2

\* Sync takes its rows from the log.
LEMMA TakeVersionStep == ASSUME Inv, NEW m \in net, TakeVersion(m) PROVE Inv'
  <1> DEFINE p == Peer(m.from)
             v == m.thread
  <1>1. p \in Server /\ v \in Burster /\ log[p] \in Seq(Record)
        <2>1. m \in Call /\ m.kind = "VERSION"
              BY DEF Inv, TypeOK, TakeVersion
        <2> QED BY <2>1, PeerIsServer DEF Inv, TypeOK, Call
  <1>2. PICK after : /\ after = RowsAfter(log[p], m.record) \/ after = <<>>
                     /\ rows' = [rows EXCEPT ![p][v] = after]
        BY DEF TakeVersion
  <1>3. after \in Seq(Record) /\ \A i \in DOMAIN after : after[i] \in Authored
        <2>1. \A i \in DOMAIN log[p] : log[p][i] \in Authored
              BY <1>1 DEF Inv, Traced
        <2>2. CASE after = <<>>
              BY <2>2
        <2>3. CASE after = RowsAfter(log[p], m.record)
              <3>1. /\ after \in Seq(Record)
                    /\ \A i \in DOMAIN after : \E j \in DOMAIN log[p] : after[i] = log[p][j]
                    BY <1>1, <2>3, RowsAfterOfLog
              <3> QED BY <2>1, <3>1
        <2> QED BY <1>2, <2>2, <2>3
  <1>4. /\ net' \subseteq Call
        /\ \A n \in net' : \E k \in net : SameCall(n, k)
        BY TakeTypes, ReturnSubset DEF Inv, TypeOK, TakeVersion, Accepts
  <1>5. Authored' = Authored
        BY DEF Authored, TakeVersion, tables, statements
  <1> HIDE DEF p, v
  <1>6. /\ rows' \in [Server -> [Burster -> Seq(Record)]]
        /\ \A s \in Server, w \in Burster : \A i \in DOMAIN rows'[s][w] : rows'[s][w][i] \in Authored
        <2>1. /\ rows \in [Server -> [Burster -> Seq(Record)]]
              /\ \A s \in Server, w \in Burster : \A i \in DOMAIN rows[s][w] : rows[s][w][i] \in Authored
              BY DEF Inv, TypeOK, Traced
        <2> QED BY <2>1, <1>1, <1>2, <1>3, RowsStep
  <1>7. TypeOK'
        BY <1>4, <1>5, <1>6, NetStep DEF Inv, TypeOK, TakeVersion, link, tables, statements
  <1>8. Traced'
        BY <1>4, <1>5, <1>6, NetStep DEF Inv, Traced, TakeVersion, tables, statements
  <1> QED BY <1>7, <1>8 DEF Inv, NoDuplicates, TakeVersion, tables

LEMMA SyncStepStep == ASSUME Inv, NEW p \in Server, NEW v \in Burster, SyncStep(p, v) PROVE Inv'
  <1>1. Authored' = Authored
        BY DEF Authored, SyncStep, tables, statements
  <1>2. CASE rows[p][v] # <<>> /\ Send(p, SyncFor[v], "DB", Head(rows[p][v]))
             /\ rows' = [rows EXCEPT ![p][v] = Tail(@)]
        <2> DEFINE rs == rows[p][v]
        <2>1. rs \in Seq(Record) /\ rs # <<>>
              BY <1>2 DEF Inv, TypeOK
        <2>2. /\ Head(rs) = rs[1] /\ 1 \in DOMAIN rs /\ Tail(rs) \in Seq(Record)
              /\ \A i \in DOMAIN Tail(rs) : i + 1 \in DOMAIN rs /\ Tail(rs)[i] = rs[i + 1]
              BY <2>1
        <2>3. \A i \in DOMAIN rs : rs[i] \in Authored
              BY DEF Inv, Traced
        <2>4. Head(rs) \in Authored /\ \A i \in DOMAIN Tail(rs) : Tail(rs)[i] \in Authored
              BY <2>2, <2>3
        <2>5. /\ rows' \in [Server -> [Burster -> Seq(Record)]]
              /\ \A s \in Server, w \in Burster :
                   \A i \in DOMAIN rows'[s][w] : rows'[s][w][i] \in Authored
              <3> HIDE DEF rs
              <3>1. rows' = [rows EXCEPT ![p][v] = Tail(rs)]
                    BY <1>2 DEF rs
              <3>2. /\ rows \in [Server -> [Burster -> Seq(Record)]]
                    /\ \A s \in Server, w \in Burster : \A i \in DOMAIN rows[s][w] : rows[s][w][i] \in Authored
                    BY DEF Inv, TypeOK, Traced
              <3> QED BY <3>2, <3>1, <2>2, <2>4, RowsStep
        <2>6. SyncFor[v] \in Thread /\ Head(rs) \in Record
              BY <2>4 DEF Thread, Range, SyncFor, Authored
        <2>7. /\ net' \subseteq Call
              /\ \A m \in net' : \/ \E n \in net : SameCall(m, n)
                                 \/ m.kind = "DB" /\ m.record \in Authored
              BY <1>2, <2>4, <2>6, SendStep DEF Inv, TypeOK
        <2>8. TypeOK'
              BY <1>1, <2>5, <2>7, NetStep DEF Inv, TypeOK, SyncStep, link, tables, statements
        <2>9. Traced'
              BY <1>1, <2>5, <2>7, NetStep DEF Inv, Traced, SyncStep, tables, statements
        <2> QED BY <2>8, <2>9 DEF Inv, NoDuplicates, SyncStep, tables
  <1>3. CASE UNCHANGED rows /\ \E m \in net : Return(m)
        <2>1. net' \subseteq net /\ \A n \in net' : \E k \in net : SameCall(n, k)
              BY <1>3, ReturnSubset
        <2> QED BY <1>3, <2>1, LinkStep DEF Inv, TypeOK, SyncStep, link
  <1> QED BY <1>2, <1>3 DEF SyncStep

\* What was authored stays so when statements are only run where they were not.
LEMMA AuthoredGrows ==
  ASSUME TypeOK, NEW s \in Server, NEW r \in Record, writer' = writer,
         ran' = ran \/ ran' = [ran EXCEPT ![s] = @ \cup {r}]
  PROVE  Authored \subseteq Authored' /\ ran' \in [Server -> SUBSET Record]
  <1>1. CASE ran' = ran
        BY <1>1 DEF Authored, TypeOK
  <1>2. CASE ran' = [ran EXCEPT ![s] = @ \cup {r}]
        <2>1. /\ ran' \in [Server -> SUBSET Record]
              /\ \A t \in Server : ran[t] \subseteq ran'[t]
              BY <1>2 DEF TypeOK
        <2> QED BY <2>1 DEF Authored, TypeOK
  <1> QED BY <1>1, <1>2

LEMMA WriteStep == ASSUME Inv, NEW s \in Server, NEW r \in Record, Write(s, r) PROVE Inv'
  <1>1. stage[r] = "new" /\ r \notin Authored
        BY DEF Inv, Traced, Write
  <1>2. \A t \in Server : r \notin ran[t]
        BY <1>1 DEF Inv, Traced
  <1>3. writer' = [writer EXCEPT ![r] = s] /\ writer' \in [Record -> Server]
        BY DEF Inv, TypeOK, Write
  <1>4. \A q \in Record : q # r => writer'[q] = writer[q]
        BY <1>3 DEF Inv, TypeOK
  <1>5. faults' \in Nat /\ clean' \in BOOLEAN
        BY FaultTypes DEF Inv, TypeOK, Write
  <1>6. UNCHANGED <<link, log, left, burst, rows, net>>
        BY DEF Write
  <1>7. CASE ran' = [ran EXCEPT ![s] = @ \cup {r}] /\ stage' = [stage EXCEPT ![r] = "run"]
        <2>1. /\ ran' \in [Server -> SUBSET Record]
              /\ \A t \in Server : ran'[t] = ran[t] \cup (IF t = s THEN {r} ELSE {})
              BY <1>7 DEF Inv, TypeOK
        <2>2. writer'[r] = s
              BY <1>3 DEF Inv, TypeOK
        <2>3. Authored' = Authored \cup {r}
              BY <1>2, <1>4, <2>1, <2>2 DEF Authored, Inv, TypeOK
        <2>4. stage' \in [Record -> {"new", "run", "stored", "over"}]
              BY <1>7 DEF Inv, TypeOK
        <2>5. \A q \in Record : stage'[q] = IF q = r THEN "run" ELSE stage[q]
              BY <1>7 DEF Inv, TypeOK
        <2>6. TypeOK'
              BY <1>3, <1>5, <1>6, <2>1, <2>4 DEF Inv, TypeOK, link
        <2>7. Traced'
              BY <1>6, <2>1, <2>3, <2>5 DEF Inv, Traced
        <2> QED BY <1>6, <2>6, <2>7 DEF Inv, NoDuplicates
  <1>8. CASE ran' = ran /\ stage' = [stage EXCEPT ![r] = "over"]
        <2>1. Authored' = Authored
              BY <1>2, <1>3, <1>4, <1>8 DEF Authored, Inv, TypeOK
        <2>2. stage' \in [Record -> {"new", "run", "stored", "over"}]
              BY <1>8 DEF Inv, TypeOK
        <2>3. \A q \in Record : stage'[q] = IF q = r THEN "over" ELSE stage[q]
              BY <1>8 DEF Inv, TypeOK
        <2>4. TypeOK'
              BY <1>3, <1>5, <1>6, <1>8, <2>2 DEF Inv, TypeOK, link
        <2>5. Traced'
              BY <1>6, <1>8, <2>1, <2>3 DEF Inv, Traced
        <2> QED BY <1>6, <2>4, <2>5 DEF Inv, NoDuplicates
  <1> QED BY <1>7, <1>8 DEF Write

LEMMA StoreStep == ASSUME Inv, NEW r \in Record, Store(r) PROVE Inv'
  <1> DEFINE s == writer[r]
  <1>1. s \in Server /\ stage[r] = "run" /\ r \in Authored
        BY DEF Inv, TypeOK, Traced, Store
  <1>2. Authored' = Authored
        BY DEF Authored, Store
  <1>3. /\ stage' \in [Record -> {"new", "run", "stored", "over"}]
        /\ \A q \in Record : q # r => stage'[q] = stage[q]
        /\ stage'[r] # "new"
        BY DEF Inv, TypeOK, Store
  <1>4. /\ left' \in [Record -> Nat]
        /\ \A q \in Record : stage'[q] = "stored" => left'[q] > 0
        <2>1. entries[s] \in Nat /\ left' = [left EXCEPT ![r] = entries[s]]
              BY <1>1 DEF Inv, TypeOK, Store
        <2>2. stage'[r] = "stored" => entries[s] # 0
              BY DEF Inv, TypeOK, Store
        <2> HIDE DEF s
        <2> QED BY <1>3, <2>1, <2>2 DEF Inv, TypeOK, Traced
  <1>5. /\ log' \in [Server -> Seq(Record)] /\ NoDuplicates'
        /\ \A t \in Server : \A i \in DOMAIN log'[t] : log'[t][i] \in Authored
        <2>1. CASE AlmacenaDB(s, r)
              BY <1>1, <2>1, AlmacenaDBStep DEF Inv, TypeOK, Traced
        <2>2. CASE UNCHANGED log
              BY <2>2 DEF Inv, TypeOK, Traced, NoDuplicates
        <2> QED BY <2>1, <2>2 DEF Store
  <1>6. faults' \in Nat /\ clean' \in BOOLEAN
        BY FaultTypes DEF Inv, TypeOK, Store
  <1>7. TypeOK'
        BY <1>3, <1>4, <1>5, <1>6 DEF Inv, TypeOK, Store, link
  <1>8. Traced'
        BY <1>1, <1>2, <1>3, <1>4, <1>5 DEF Inv, Traced, Store
  <1> QED BY <1>5, <1>7, <1>8 DEF Inv

LEMMA SendRecordStep ==
  ASSUME Inv, NEW r \in Record, SendRecord(r) PROVE Inv'
  <1>1. writer[r] \in Server /\ stage[r] = "stored" /\ r \in Authored /\ r \in Thread
        BY DEF Inv, TypeOK, Traced, SendRecord, Thread
  <1>2. Authored' = Authored
        BY DEF Authored, SendRecord, tables
  <1>3. /\ stage' \in [Record -> {"new", "run", "stored", "over"}]
        /\ \A q \in Record : q # r => stage'[q] = stage[q]
        /\ stage'[r] # "new"
        BY <1>1 DEF Inv, TypeOK, SendRecord
  <1>4. /\ left' \in [Record -> Nat]
        /\ \A q \in Record : stage'[q] = "stored" => left'[q] > 0
        <2>1. left[r] \in Nat \ {0}
              BY <1>1 DEF Inv, TypeOK, Traced
        <2>2. left[r] - 1 \in Nat /\ (left[r] # 1 => left[r] - 1 > 0)
              BY <2>1
        <2>3. left' = [left EXCEPT ![r] = left[r] - 1]
              BY DEF SendRecord
        <2>4. stage'[r] = "stored" => left[r] # 1
              BY DEF Inv, TypeOK, SendRecord
        <2> QED BY <1>3, <2>2, <2>3, <2>4 DEF Inv, TypeOK, Traced
  <1>5. /\ net' \subseteq Call
        /\ \A m \in net' : \/ \E n \in net : SameCall(m, n)
                           \/ m.kind = "DB" /\ m.record \in Authored
        <2>1. CASE Send(writer[r], r, "DB", r)
              BY <1>1, <2>1, SendStep DEF Inv, TypeOK
        <2>2. CASE UNCHANGED net
              BY <2>2 DEF Inv, TypeOK, SameCall
        <2> QED BY <2>1, <2>2 DEF SendRecord
  <1>6. TypeOK'
        BY <1>2, <1>3, <1>4, <1>5, NetStep DEF Inv, TypeOK, SendRecord, link, tables
  <1>7. Traced'
        BY <1>1, <1>2, <1>3, <1>4, <1>5, NetStep DEF Inv, Traced, SendRecord, tables
  <1> QED BY <1>6, <1>7 DEF Inv, NoDuplicates, SendRecord, tables

LEMMA TakeDBStep == ASSUME Inv, NEW m \in net, TakeDB(m) PROVE Inv'
  <1> DEFINE p == Peer(m.from)
             r == m.record
  <1>1. p \in Server /\ r \in Record /\ r \in Authored
        BY PeerIsServer DEF Inv, TypeOK, Traced, Call, TakeDB
  <1>2. writer' = writer /\ (ran' = ran \/ ran' = [ran EXCEPT ![p] = @ \cup {r}])
        BY DEF TakeDB, statements
  <1> HIDE DEF p, r
  <1>3. Authored \subseteq Authored' /\ ran' \in [Server -> SUBSET Record]
        BY <1>1, <1>2, AuthoredGrows DEF Inv
  <1>4. \A t \in Server : \A q \in ran'[t] : q \in ran[t] \/ q = r
        <2>1. CASE ran' = [ran EXCEPT ![p] = @ \cup {r}]
              BY <2>1 DEF Inv, TypeOK
        <2> QED BY <1>2, <2>1
  <1>5. \A q \in Record : stage[q] = "new" => q \notin Authored'
        <2> SUFFICES ASSUME NEW q \in Record, stage[q] = "new", q \in Authored' PROVE FALSE
            OBVIOUS
        <2>1. writer[q] \in Server /\ q \in ran'[writer[q]]
              BY <1>2 DEF Authored, Inv, TypeOK
        <2>2. q \in ran[writer[q]] \/ q = r
              BY <1>4, <2>1
        <2>3. q \in Authored
              BY <1>1, <2>2 DEF Authored
        <2> QED BY <2>3 DEF Inv, Traced
  <1>6. /\ net' \subseteq Call
        /\ \A n \in net' : \E k \in net : SameCall(n, k)
        BY TakeTypes DEF Inv, TypeOK, TakeDB, Accepts
  <1>7. faults' \in Nat /\ clean' \in BOOLEAN
        BY FaultTypes DEF Inv, TypeOK, TakeDB
  <1>8. TypeOK'
        BY <1>3, <1>6, <1>7, NetStep DEF Inv, TypeOK, TakeDB, link, statements
  <1>9. Traced'
        BY <1>1, <1>3, <1>4, <1>5, <1>6, NetStep DEF Inv, Traced, TakeDB, statements
  <1> QED BY <1>8, <1>9 DEF Inv, NoDuplicates, TakeDB

LEMMA StoreDBStep == ASSUME Inv, NEW m \in net, StoreDB(m) PROVE Inv'
  <1> DEFINE p == Peer(m.from)
             r == m.record
  <1>1. p \in Server /\ r \in Record /\ r \in Authored
        BY PeerIsServer DEF Inv, TypeOK, Traced, Call, StoreDB
  <1>2. Authored' = Authored
        BY DEF Authored, StoreDB, statements
  <1>3. /\ log' \in [Server -> Seq(Record)] /\ NoDuplicates'
        /\ \A t \in Server : \A i \in DOMAIN log'[t] : log'[t][i] \in Authored
        <2>1. CASE AlmacenaDB(p, r)
              BY <1>1, <2>1, AlmacenaDBStep DEF Inv, TypeOK, Traced
        <2>2. CASE UNCHANGED log
              BY <2>2 DEF Inv, TypeOK, Traced, NoDuplicates
        <2> QED BY <2>1, <2>2 DEF StoreDB
  <1>4. net' \subseteq net
        BY ReturnSubset DEF StoreDB
  <1>5. faults' \in Nat /\ clean' \in BOOLEAN
        BY FaultTypes DEF Inv, TypeOK, StoreDB
  <1>6. TypeOK'
        BY <1>3, <1>4, <1>5 DEF Inv, TypeOK, StoreDB, link, statements
  <1>7. Traced'
        BY <1>2, <1>3, <1>4 DEF Inv, Traced, StoreDB, statements
  <1> QED BY <1>3, <1>6, <1>7 DEF Inv

LEMMA CrashStep == ASSUME Inv, NEW s \in Server, Crash(s) PROVE Inv'
  <1>1. Authored' = Authored
        BY DEF Authored, Crash, tables
  <1>2. net' \subseteq net
        BY DEF Crash
  <1>3. /\ rows' \in [Server -> [Burster -> Seq(Record)]]
        /\ \A t \in Server, v \in Burster : \A i \in DOMAIN rows'[t][v] : rows'[t][v][i] \in Authored
        <2>1. \A t \in Server, v \in Burster : rows'[t][v] = IF t = s THEN <<>> ELSE rows[t][v]
              BY DEF Inv, TypeOK, Crash
        <2>2. rows' \in [Server -> [Burster -> Seq(Record)]]
              <3>1. [v \in Burster |-> <<>>] \in [Burster -> Seq(Record)]
                    OBVIOUS
              <3>2. rows' = [rows EXCEPT ![s] = [v \in Burster |-> <<>>]]
                    BY DEF Crash
              <3>3. rows \in [Server -> [Burster -> Seq(Record)]]
                    BY DEF Inv, TypeOK
              <3> QED BY <3>1, <3>2, <3>3
        <2>3. DOMAIN <<>> = {}
              OBVIOUS
        <2>4. ASSUME NEW t \in Server, NEW v \in Burster
              PROVE  \A i \in DOMAIN rows'[t][v] : rows'[t][v][i] \in Authored
              <3>1. CASE t = s
                    BY <2>1, <2>3, <3>1
              <3>2. CASE t # s
                    BY <2>1, <3>2 DEF Inv, Traced
              <3> QED BY <3>1, <3>2
        <2> QED BY <2>2, <2>4
  <1>4. /\ stage' \in [Record -> {"new", "run", "stored", "over"}]
        /\ \A r \in Record : stage'[r] = stage[r] \/ stage'[r] = "over"
        BY DEF Inv, TypeOK, Crash
  <1>5. burst' \in [Server -> [Burster -> {"idle", "burst", "server", "version"}]]
        BY DEF Inv, TypeOK, Crash
  <1>6. up' \in [Server -> BOOLEAN] /\ entries' \in [Server -> Nat]
        BY DEF Inv, TypeOK, Crash
  <1>7. named' \in [Server -> BOOLEAN]
        BY DEF Crash
  <1>8. faults' \in Nat /\ clean' \in BOOLEAN
        BY FaultTypes DEF Inv, TypeOK, Crash
  <1>9. TypeOK'
        BY <1>2, <1>3, <1>4, <1>5, <1>6, <1>7, <1>8 DEF Inv, TypeOK, Crash, tables
  <1>10. Traced'
        BY <1>1, <1>2, <1>3, <1>4 DEF Inv, Traced, Crash, tables
  <1> QED BY <1>9, <1>10 DEF Inv, NoDuplicates, Crash, tables

-----------------------------------------------------------------------------
(* The theorems. *)

LEMMA NextPreserves == Inv /\ [Next]_vars => Inv'
  <1> SUFFICES ASSUME Inv, [Next]_vars PROVE Inv'
      OBVIOUS
  <1>1. CASE UNCHANGED vars
        <2>1. UNCHANGED <<tables, statements, rows>> /\ Authored' = Authored
              BY <1>1 DEF vars, tables, statements, Authored
        <2> QED BY <1>1, <2>1 DEF Inv, TypeOK, Traced, NoDuplicates, vars
  <1>2. ASSUME NEW s \in Server,
               \/ Connect(s) \/ Squit(s) \/ Rehash(s) \/ Crash(s) \/ Restart(s)
               \/ \E v \in Burster : BurstStep(s, v) \/ SyncStep(s, v)
               \/ \E r \in Record : Write(s, r)
        PROVE  Inv'
        BY <1>2, ConnectStep, SquitStep, RehashStep, CrashStep, RestartStep, BurstStepStep,
           SyncStepStep, WriteStep
  <1>3. ASSUME NEW r \in Record, Store(r) \/ SendRecord(r) PROVE Inv'
        BY <1>3, StoreStep, SendRecordStep
  <1>4. ASSUME NEW m \in net,
               \/ TakeBurst(m) \/ TakeServer(m) \/ TakeVersion(m) \/ TakeDB(m) \/ StoreDB(m)
               \/ Refused(m) \/ Lose(m)
        PROVE  Inv'
        BY <1>4, TakeBurstStep, TakeServerStep, TakeVersionStep, TakeDBStep, StoreDBStep,
           RefusedStep, LoseStep
  <1> QED BY <1>1, <1>2, <1>3, <1>4 DEF Next

LEMMA Invariance == Spec => []Inv
  BY InitEstablishes, NextPreserves, PTL DEF Spec

\* The state stays well formed (TypeOK).
THEOREM TypeCorrect == Spec => []TypeOK
  <1>1. Inv => TypeOK
        BY DEF Inv
  <1> QED BY <1>1, Invariance, PTL

-----------------------------------------------------------------------------
(* The refinement. *)

known == [s \in Server |-> Range(log[s])]
author == [r \in Record |-> IF r \in ran[writer[r]] THEN writer[r] ELSE NoRecord]

LEMMA ReplicatedInit == Init => Replicated!Init
  <1> SUFFICES ASSUME Init PROVE Replicated!Init
      OBVIOUS
  <1>1. \A s \in Server : ran[s] = {} /\ Range(log[s]) = {}
        BY DEF Init, Range
  <1>2. \A r \in Record : writer[r] \in Server
        BY DEF Init, Server
  <1> QED BY <1>1, <1>2 DEF Replicated!Init

\* AlmacenaDB of an authored statement is a step of the replicated log.
LEMMA ReplicatedStore ==
  ASSUME Inv, NEW s \in Server, NEW r \in Record, r \in Authored,
         AlmacenaDB(s, r) \/ UNCHANGED log, UNCHANGED <<ran, writer>>
  PROVE  [Replicated!Next]_<<author, known>>
  <1>1. author' = author
        BY DEF author
  <1>2. CASE UNCHANGED log
        BY <1>1, <1>2 DEF known, Range
  <1>3. CASE AlmacenaDB(s, r)
        <2>1. /\ Range(log'[s]) = Range(log[s]) \cup {r}
              /\ \A t \in Server : t # s => Range(log'[t]) = Range(log[t])
              <3>1. log \in [Server -> Seq(Record)]
                    BY DEF Inv, TypeOK
              <3> QED BY <1>3, <3>1, AlmacenaDBRange
        <2>2. known' = [known EXCEPT ![s] = @ \cup {r}]
              BY <2>1 DEF known
        <2>3. author[r] # NoRecord
              BY RecordAssumption DEF author, Authored, Inv, TypeOK
        <2>4. Replicated!Learn(s, r)
              BY <1>1, <2>2, <2>3 DEF Replicated!Learn, known, author
        <2> QED BY <2>4 DEF Replicated!Next
  <1> QED BY <1>2, <1>3

LEMMA ReplicatedWrite ==
  ASSUME Inv, NEW s \in Server, NEW r \in Record, Write(s, r)
  PROVE  [Replicated!Next]_<<author, known>>
  <1>1. known' = known
        BY DEF known, Range, Write
  <1>2. stage[r] = "new" /\ r \notin Authored /\ \A t \in Server : r \notin ran[t]
        BY DEF Inv, Traced, Write
  <1>3. \A q \in Record : writer'[q] = IF q = r THEN s ELSE writer[q]
        BY DEF Inv, TypeOK, Write
  <1>4. CASE ran' = ran
        <2>1. author' = author
              BY <1>2, <1>3, <1>4 DEF author, Inv, TypeOK
        <2> QED BY <1>1, <2>1
  <1>5. CASE ran' = [ran EXCEPT ![s] = @ \cup {r}]
        <2>1. \A t \in Server : ran'[t] = ran[t] \cup (IF t = s THEN {r} ELSE {})
              BY <1>5 DEF Inv, TypeOK
        <2>2. author[r] = NoRecord
              BY <1>2 DEF author, Authored
        <2>3. author' = [author EXCEPT ![r] = s]
              <3>1. \A q \in Record : (IF q \in ran'[writer'[q]] THEN writer'[q] ELSE NoRecord)
                                     = IF q = r THEN s ELSE author[q]
                    <4>1. \A q \in Record : author[q] = IF q \in ran[writer[q]] THEN writer[q] ELSE NoRecord
                          BY DEF author
                    <4>2. \A q \in Record : writer[q] \in Server
                          BY DEF Inv, TypeOK
                    <4> QED BY <1>3, <2>1, <4>1, <4>2
              <3> QED BY <3>1 DEF author
        <2>4. Replicated!Author(s, r)
              BY <1>1, <2>2, <2>3 DEF Replicated!Author, known, author
        <2> QED BY <2>4 DEF Replicated!Next
  <1> QED BY <1>4, <1>5 DEF Write

\* A statement a peer runs has its author already, who keeps it.
LEMMA ReplicatedTakeDB ==
  ASSUME Inv, NEW m \in net, TakeDB(m)
  PROVE  [Replicated!Next]_<<author, known>>
  <1> DEFINE p == Peer(m.from)
             r == m.record
  <1>1. p \in Server /\ r \in Authored
        BY PeerIsServer DEF Inv, TypeOK, Traced, Call, TakeDB
  <1>2. writer' = writer /\ log' = log /\ (ran' = ran \/ ran' = [ran EXCEPT ![p] = @ \cup {r}])
        BY DEF TakeDB, statements
  <1> HIDE DEF p, r
  <1>3. \A q \in Record : q \in ran'[writer[q]] <=> q \in ran[writer[q]]
        <2>1. CASE ran' = [ran EXCEPT ![p] = @ \cup {r}]
              <3>1. \A t \in Server : ran'[t] = ran[t] \cup (IF t = p THEN {r} ELSE {})
                    BY <2>1 DEF Inv, TypeOK
              <3> QED BY <1>1, <3>1 DEF Authored, Inv, TypeOK
        <2> QED BY <1>2, <2>1
  <1>4. author' = author
        BY <1>2, <1>3 DEF author
  <1>5. known' = known
        BY <1>2 DEF known
  <1> QED BY <1>4, <1>5

LEMMA ReplicatedStep == Inv /\ [Next]_vars => [Replicated!Next]_<<author, known>>
  <1> SUFFICES ASSUME Inv, [Next]_vars PROVE [Replicated!Next]_<<author, known>>
      OBVIOUS
  <1>1. CASE UNCHANGED <<log, ran, writer>>
        BY <1>1 DEF author, known
  <1>2. ASSUME NEW s \in Server,
               \/ Connect(s) \/ Squit(s) \/ Rehash(s) \/ Crash(s) \/ Restart(s)
               \/ \E v \in Burster : BurstStep(s, v) \/ SyncStep(s, v)
        PROVE  UNCHANGED <<log, ran, writer>>
        BY <1>2 DEF Connect, Squit, Rehash, Crash, Restart, BurstStep, SyncStep, tables, statements
  <1>3. ASSUME NEW r \in Record, SendRecord(r) PROVE UNCHANGED <<log, ran, writer>>
        BY <1>3 DEF SendRecord, tables
  <1>4. ASSUME NEW m \in net,
               TakeBurst(m) \/ TakeServer(m) \/ TakeVersion(m) \/ Refused(m) \/ Lose(m)
        PROVE  UNCHANGED <<log, ran, writer>>
        BY <1>4 DEF TakeBurst, TakeServer, TakeVersion, Refused, Lose, tables, statements
  <1>5. ASSUME NEW r \in Record, Store(r) PROVE [Replicated!Next]_<<author, known>>
        <2>1. writer[r] \in Server /\ r \in Authored
              BY <1>5 DEF Inv, TypeOK, Traced, Store
        <2> QED BY <1>5, <2>1, ReplicatedStore DEF Store
  <1>6. ASSUME NEW m \in net, StoreDB(m) PROVE [Replicated!Next]_<<author, known>>
        <2>1. Peer(m.from) \in Server /\ m.record \in Record /\ m.record \in Authored
              BY <1>6, PeerIsServer DEF Inv, TypeOK, Traced, Call, StoreDB
        <2> QED BY <1>6, <2>1, ReplicatedStore DEF StoreDB, statements
  <1>7. CASE UNCHANGED vars
        BY <1>1, <1>7 DEF vars
  <1> QED BY <1>1, <1>2, <1>3, <1>4, <1>5, <1>6, <1>7, ReplicatedWrite, ReplicatedTakeDB DEF Next

\* The logs are a replicated log: one author for a statement, no log holds it
\* before he has run it, and none loses it (db.cpp:49, ParserServer.cpp:63).
THEOREM Implements == Spec => ImplementsReplicatedLog
  <1>1. Inv /\ [Next]_vars => [Replicated!Next]_<<author, known>>
        BY ReplicatedStep
  <1>2. Init => Replicated!Init
        BY ReplicatedInit
  <1>3. Spec => []Inv
        BY Invariance
  <1> QED BY <1>1, <1>2, <1>3, PTL
           DEF Spec, ImplementsReplicatedLog, Replicated!Spec, author, known

-----------------------------------------------------------------------------
(* What holds of the calls, disturbed or not. *)

\* A thread waits for one call at a time.
OneCallEach == \A m, n \in net : m.from = n.from /\ m.thread = n.thread => m = n

NamedIsThere == \A s \in Server : named[s] => up[s] /\ entries[s] > 0

\* Who has sent his name still has to send his newest ID.
NameBeforeVersion ==
    \A m \in net : m.kind = "SERVER" =>
        ~m.taken /\ m.thread \in Burster /\ burst[m.from][m.thread] = "version"

Calls == OneCallEach /\ NamedIsThere /\ NameBeforeVersion

-----------------------------------------------------------------------------
(* What holds of an exchange while nothing disturbs it. *)

RowOf(d, y, v) == d.from = y /\ d.thread = SyncFor[v]
Asking(m, x, v) == m.from = x /\ m.thread = v /\ m.kind = "VERSION" /\ m.taken

Behind(s) == Prefix(log[s], log[Peer(s)])

\* The answer to the VERSION of the thread v of x has come to the row j.
SyncAt(x, v, j) ==
    LET y == Peer(x)
    IN  /\ j + Len(rows[y][v]) <= Len(log[y])
        /\ \A i \in 1..Len(rows[y][v]) : rows[y][v][i] = log[y][j + i]
        /\ j <= Len(log[x]) + 1
        /\ \A d \in net : RowOf(d, y, v) => d.kind = "DB" /\ j >= 1 /\ d.record = log[y][j]
        /\ (\A d \in net : ~RowOf(d, y, v)) => j <= Len(log[x])
        /\ j + Len(rows[y][v]) = Len(log[y]) \/ Behind(y)

NoStatement == \A r \in Record : stage[r] \in {"new", "over"}
OneIsBehind == Behind(Hub) \/ Behind(Leaf)

\* A server that takes part in the exchange accepts the calls of its peer.
Present ==
    \A s \in Server :
      (\/ \E v \in Burster : burst[s][v] # "idle" \/ rows[s][v] # <<>>
       \/ \E m \in net : m.from = s) => up[s] /\ entries[s] > 0

\* Every row that is sent belongs to the answer of a VERSION.
RowsAnswer ==
    /\ \A y \in Server, v \in Burster :
         (rows[y][v] # <<>> \/ \E d \in net : RowOf(d, y, v)) =>
             \E m \in net : Asking(m, Peer(y), v)
    /\ \A d \in net : d.kind = "DB" => \E v \in Burster : d.thread = SyncFor[v]

NewestOf(s, id) == id = NoRecord \/ \E k \in 1..Len(log[s]) : id = log[s][k]

Versions ==
    \A m \in net : m.kind = "VERSION" =>
      /\ ~m.taken => NewestOf(m.from, m.record)
      /\ m.taken => \E j \in 0..Len(log[Peer(m.from)]) : SyncAt(m.from, m.thread, j)

\* What s waits for, when it is not behind: the VERSION of the other.
Awaits(s) ==
    \/ Behind(s)
    \/ \E v \in Burster : burst[Peer(s)][v] # "idle"
    \/ \E m \in net : m.from = Peer(s) /\ m.kind = "VERSION"

Exchange ==
    /\ NoStatement
    /\ OneIsBehind
    /\ Present
    /\ RowsAnswer
    /\ Versions
    /\ \A s \in Server : named[s] => Awaits(s)

ExchangeInv == Calls /\ (clean => Exchange)

-----------------------------------------------------------------------------
(* Two servers, and the logs of two servers one of which is behind. *)

LEMMA Peers ==
  /\ \A s \in Server : Peer(s) \in Server /\ Peer(Peer(s)) = s /\ Peer(s) # s
  /\ \A s, t \in Server : s # t => t = Peer(s)
  BY ServerAssumption DEF Server, Peer

LEMMA Threads ==
  /\ \A v \in Burster : SyncFor[v] \notin Burster
  /\ \A v, w \in Burster : SyncFor[v] = SyncFor[w] => v = w
  /\ \A v \in Burster : v = "connect" \/ v = "answer"
  BY DEF Burster, SyncFor

LEMMA OneOfTwo ==
  ASSUME OneIsBehind, NEW s \in Server
  PROVE  Behind(s) \/ Behind(Peer(s))
  BY ServerAssumption DEF OneIsBehind, Server, Peer

LEMMA ShorterIsBehind ==
  ASSUME TypeOK, OneIsBehind, NEW s \in Server, Len(log[s]) <= Len(log[Peer(s)])
  PROVE  Behind(s)
  <1>1. /\ log[s] \in Seq(Record) /\ log[Peer(s)] \in Seq(Record)
        /\ Peer(Peer(s)) = s
        BY Peers DEF TypeOK
  <1>2. CASE Behind(Peer(s))
        <2>1. Len(log[Peer(s)]) = Len(log[s])
              BY <1>1, <1>2 DEF Behind, Prefix
        <2> QED BY <1>1, <1>2, <2>1 DEF Behind, Prefix
  <1> QED BY <1>2, OneOfTwo

\* The same record has the same place in both.
LEMMA SamePlace ==
  ASSUME TypeOK, NoDuplicates, OneIsBehind, NEW s \in Server,
         NEW i \in 1..Len(log[s]), NEW k \in 1..Len(log[Peer(s)]), log[s][i] = log[Peer(s)][k]
  PROVE  i = k
  <1> DEFINE t == Peer(s)
  <1>1. /\ log[s] \in Seq(Record) /\ log[t] \in Seq(Record)
        /\ Peer(t) = s /\ t \in Server
        BY Peers DEF TypeOK
  <1>2. DOMAIN log[s] = 1..Len(log[s]) /\ DOMAIN log[t] = 1..Len(log[t])
        BY <1>1
  <1>3. CASE Behind(s)
        <2>1. i \in 1..Len(log[t]) /\ log[s][i] = log[t][i]
              BY <1>1, <1>2, <1>3 DEF Behind, Prefix
        <2> QED BY <1>1, <1>2, <2>1 DEF NoDuplicates
  <1>4. CASE Behind(t)
        <2>1. k \in 1..Len(log[s]) /\ log[t][k] = log[s][k]
              BY <1>1, <1>2, <1>4 DEF Behind, Prefix
        <2> QED BY <1>1, <1>2, <2>1 DEF NoDuplicates
  <1> QED BY <1>3, <1>4, OneOfTwo

-----------------------------------------------------------------------------
(* The calls. *)

\* The same call, but for being taken.
Same(m, n) == m.from = n.from /\ SameCall(m, n)

LEMMA SendAdds ==
  ASSUME NEW s, NEW t, NEW kind, NEW record, Send(s, t, kind, record)
  PROVE  \E c : /\ net' = net \cup {c}
                /\ c.from = s /\ c.thread = t /\ c.kind = kind /\ c.record = record /\ ~c.taken
                /\ \A m \in net : ~(m.from = s /\ m.thread = t)
  <1> DEFINE c == [from |-> s, thread |-> t, kind |-> kind, record |-> record, taken |-> FALSE]
  <1>1. net' = net \cup {c} /\ \A m \in net : ~(m.from = s /\ m.thread = t)
        BY DEF Send, Waits
  <1>2. c.from = s /\ c.thread = t /\ c.kind = kind /\ c.record = record /\ ~c.taken
        OBVIOUS
  <1> HIDE DEF c
  <1> QED BY <1>1, <1>2

LEMMA TakeChanges ==
  ASSUME TypeOK, NEW m \in net, Take(m)
  PROVE  \E t : net' = (net \ {m}) \cup {t} /\ Same(t, m) /\ t.taken
  <1> DEFINE t == [m EXCEPT !.taken = TRUE]
  <1>1. m \in Call
        BY DEF TypeOK
  <1>2. t.from = m.from /\ t.kind = m.kind /\ t.thread = m.thread /\ t.record = m.record /\ t.taken
        BY <1>1 DEF Call
  <1>3. net' = (net \ {m}) \cup {t}
        BY DEF Take
  <1> HIDE DEF t
  <1> QED BY <1>2, <1>3 DEF Same, SameCall

\* What a Return leaves.
LEMMA ReturnKeeps ==
  ASSUME NEW m, Return(m)
  PROVE  /\ net' \subseteq net /\ m \notin net'
         /\ \A n \in net : n # m /\ n.kind # "BURST" => n \in net'
  BY DEF Return, Answered

LEMMA TakeOneCallEach ==
  ASSUME TypeOK, OneCallEach, NEW m \in net, Take(m)
  PROVE  OneCallEach'
  <1>1. PICK t : net' = (net \ {m}) \cup {t} /\ Same(t, m) /\ t.taken
        BY TakeChanges
  <1> QED BY <1>1 DEF OneCallEach, Same, SameCall

LEMMA CallsInit == Init => Calls
  BY DEF Init, Calls, OneCallEach, NamedIsThere, NameBeforeVersion

LEMMA SubsetCalls ==
  ASSUME Calls, net' \subseteq net,
         \A s \in Server : named'[s] => up'[s] /\ entries'[s] > 0,
         \A m \in net' : m.kind = "SERVER" => burst'[m.from][m.thread] = burst[m.from][m.thread]
  PROVE  Calls'
  BY DEF Calls, OneCallEach, NamedIsThere, NameBeforeVersion

LEMMA CallsConnect == ASSUME Inv, Calls, NEW s \in Server, Connect(s) PROVE Calls'
  <1>1. \A t \in Server : named'[t] => up'[t] /\ entries'[t] > 0
        BY DEF Inv, TypeOK, Calls, NamedIsThere, Connect
  <1>2. ASSUME NEW m \in net', m.kind = "SERVER"
        PROVE  burst'[m.from][m.thread] = burst[m.from][m.thread]
        <2>1. m \in net /\ m.from \in Server /\ m.thread \in Burster
              BY <1>2 DEF Inv, TypeOK, Call, Connect, Calls, NameBeforeVersion
        <2>2. ~(m.from = s /\ m.thread = "connect")
              BY <2>1 DEF Connect, Waits
        <2> QED BY <2>1, <2>2 DEF Inv, TypeOK, Connect
  <1> QED BY <1>1, <1>2, SubsetCalls DEF Connect

LEMMA CallsBurstStep ==
  ASSUME Inv, Calls, NEW s \in Server, NEW v \in Burster, BurstStep(s, v)
  PROVE  Calls'
  <1>1. PICK kind, record, step : 
             /\ Send(s, v, kind, record)
             /\ burst' = [burst EXCEPT ![s][v] = step]
             /\ kind = "SERVER" => step = "version"
        BY DEF BurstStep
  <1>2. PICK c : /\ net' = net \cup {c}
                 /\ c.from = s /\ c.thread = v /\ c.kind = kind /\ ~c.taken
                 /\ \A m \in net : ~(m.from = s /\ m.thread = v)
        BY <1>1, SendAdds
  <1>3. OneCallEach'
        BY <1>2 DEF Calls, OneCallEach
  <1>4. NamedIsThere'
        BY DEF Calls, NamedIsThere, BurstStep, link
  <1>5. NameBeforeVersion'
        <2>1. ASSUME NEW m \in net', m.kind = "SERVER"
              PROVE  ~m.taken /\ m.thread \in Burster /\ burst'[m.from][m.thread] = "version"
              <3>1. CASE m = c
                    BY <1>1, <1>2, <2>1, <3>1 DEF Inv, TypeOK
              <3>2. CASE m \in net
                    <4>1. m.from \in Server /\ ~m.taken /\ m.thread \in Burster
                          /\ burst[m.from][m.thread] = "version"
                          BY <2>1, <3>2 DEF Inv, TypeOK, Call, Calls, NameBeforeVersion
                    <4>2. burst'[m.from][m.thread] = burst[m.from][m.thread]
                          BY <1>1, <1>2, <3>2, <4>1 DEF Inv, TypeOK
                    <4> QED BY <4>1, <4>2
              <3> QED BY <1>2, <3>1, <3>2
        <2> QED BY <2>1 DEF NameBeforeVersion
  <1> QED BY <1>3, <1>4, <1>5 DEF Calls

LEMMA CallsTake ==
  ASSUME Inv, Calls, NEW m \in net, Take(m), m.kind # "SERVER", UNCHANGED link,
         \A n \in net : n.kind = "SERVER" => burst'[n.from][n.thread] = burst[n.from][n.thread]
  PROVE  Calls'
  <1>1. OneCallEach'
        BY TakeOneCallEach DEF Inv, Calls
  <1>2. PICK t : net' = (net \ {m}) \cup {t} /\ Same(t, m) /\ t.taken
        BY TakeChanges DEF Inv
  <1>3. NameBeforeVersion'
        BY <1>2 DEF Calls, NameBeforeVersion, Same, SameCall
  <1> QED BY <1>1, <1>3 DEF Calls, NamedIsThere, link

LEMMA CallsTakeBurst == ASSUME Inv, Calls, NEW m \in net, TakeBurst(m) PROVE Calls'
  <1> DEFINE p == Peer(m.from)
  <1>1. p \in Server
        BY Peers DEF Inv, TypeOK, Call
  <1>2. ASSUME NEW n \in net, n.kind = "SERVER"
        PROVE  burst'[n.from][n.thread] = burst[n.from][n.thread]
        <2>1. n.from \in Server /\ n.thread \in Burster
              BY <1>2 DEF Inv, TypeOK, Call, Calls, NameBeforeVersion
        <2>2. ~(n.from = p /\ n.thread = "answer")
              BY DEF TakeBurst, Waits
        <2>3. burst' = [burst EXCEPT ![p]["answer"] = "server"]
              BY DEF TakeBurst
        <2> HIDE DEF p
        <2> QED BY <1>1, <2>1, <2>2, <2>3 DEF Inv, TypeOK
  <1> QED BY <1>2, CallsTake DEF TakeBurst

LEMMA CallsTakeServer == ASSUME Inv, Calls, NEW m \in net, TakeServer(m) PROVE Calls'
  <1>1. net' \subseteq net
        BY ReturnKeeps DEF TakeServer
  <1>2. \A s \in Server : named'[s] => up'[s] /\ entries'[s] > 0
        BY DEF Inv, TypeOK, Calls, NamedIsThere, TakeServer, Accepts
  <1> QED BY <1>1, <1>2, SubsetCalls DEF TakeServer

LEMMA CallsTakeVersion == ASSUME Inv, Calls, NEW m \in net, TakeVersion(m) PROVE Calls'
  <1>1. CASE Take(m)
        BY <1>1, CallsTake DEF TakeVersion
  <1>2. CASE Return(m)
        <2>1. net' \subseteq net
              BY <1>2, ReturnKeeps
        <2> QED BY <2>1, SubsetCalls DEF TakeVersion, link, Calls, NamedIsThere
  <1> QED BY <1>1, <1>2 DEF TakeVersion

LEMMA CallsSyncStep ==
  ASSUME Inv, Calls, NEW p \in Server, NEW v \in Burster, SyncStep(p, v)
  PROVE  Calls'
  <1>1. \A s \in Server : named'[s] => up'[s] /\ entries'[s] > 0
        BY DEF SyncStep, link, Calls, NamedIsThere
  <1>2. CASE net' \subseteq net
        BY <1>1, <1>2, SubsetCalls DEF SyncStep
  <1>3. CASE Send(p, SyncFor[v], "DB", Head(rows[p][v]))
        <2>1. PICK c : /\ net' = net \cup {c}
                       /\ c.from = p /\ c.thread = SyncFor[v] /\ c.kind = "DB"
                       /\ \A m \in net : ~(m.from = p /\ m.thread = SyncFor[v])
              BY <1>3, SendAdds
        <2>2. OneCallEach'
              BY <2>1 DEF Calls, OneCallEach
        <2>3. NameBeforeVersion'
              BY <2>1 DEF Calls, NameBeforeVersion, SyncStep
        <2> QED BY <1>1, <2>2, <2>3 DEF Calls, NamedIsThere
  <1> QED BY <1>2, <1>3, ReturnKeeps DEF SyncStep

LEMMA CallsSendRecord == ASSUME Inv, Calls, NEW r \in Record, SendRecord(r) PROVE Calls'
  <1>1. \A s \in Server : named'[s] => up'[s] /\ entries'[s] > 0
        BY DEF SendRecord, link, Calls, NamedIsThere
  <1>2. CASE net' = net
        BY <1>1, <1>2, SubsetCalls DEF SendRecord
  <1>3. CASE Send(writer[r], r, "DB", r)
        <2>1. PICK c : /\ net' = net \cup {c}
                       /\ c.from = writer[r] /\ c.thread = r /\ c.kind = "DB"
                       /\ \A m \in net : ~(m.from = writer[r] /\ m.thread = r)
              BY <1>3, SendAdds
        <2>2. OneCallEach'
              BY <2>1 DEF Calls, OneCallEach
        <2>3. NameBeforeVersion'
              BY <2>1 DEF Calls, NameBeforeVersion, SendRecord
        <2> QED BY <1>1, <2>2, <2>3 DEF Calls, NamedIsThere
  <1> QED BY <1>2, <1>3 DEF SendRecord

\* Of a server that ends only calls that were taken go on: no SERVER is.
LEMMA CallsCrash == ASSUME Inv, Calls, NEW s \in Server, Crash(s) PROVE Calls'
  <1>1. net' \subseteq net /\ \A m \in net' : m.taken
        BY DEF Crash
  <1>2. \A t \in Server : named'[t] => t # s /\ named[t]
        BY DEF Crash
  <1>3. \A t \in Server : named'[t] => up'[t] /\ entries'[t] > 0
        BY <1>2 DEF Inv, TypeOK, Calls, NamedIsThere, Crash
  <1> QED BY <1>1, <1>3 DEF Calls, OneCallEach, NamedIsThere, NameBeforeVersion

LEMMA CallsStep == ASSUME Inv, Calls, [Next]_vars PROVE Calls'
  <1>1. CASE UNCHANGED vars
        BY <1>1 DEF vars, Calls, OneCallEach, NamedIsThere, NameBeforeVersion
  <1>2. ASSUME NEW s \in Server, Squit(s) \/ Rehash(s) \/ Restart(s) \/ \E r \in Record : Write(s, r)
        PROVE  Calls'
        <2>1. net' = net /\ burst' = burst
              BY <1>2 DEF Squit, Rehash, Restart, Write
        <2>2. \A t \in Server : named'[t] => up'[t] /\ entries'[t] > 0
              BY <1>2 DEF Inv, TypeOK, Calls, NamedIsThere, Squit, Rehash, Restart, Write, link
        <2> QED BY <2>1, <2>2, SubsetCalls
  <1>3. ASSUME NEW r \in Record, Store(r) PROVE Calls'
        BY <1>3, SubsetCalls DEF Store, link, Calls, NamedIsThere
  <1>4. ASSUME NEW m \in net, StoreDB(m) \/ Refused(m) \/ Lose(m) PROVE Calls'
        <2>1. net' \subseteq net /\ burst' = burst
              BY <1>4, ReturnKeeps DEF StoreDB, Refused, Lose
        <2>2. \A t \in Server : named'[t] => up'[t] /\ entries'[t] > 0
              BY <1>4 DEF Inv, TypeOK, Calls, NamedIsThere, StoreDB, Refused, Lose, link
        <2> QED BY <2>1, <2>2, SubsetCalls
  <1>5. ASSUME NEW m \in net, TakeDB(m) PROVE Calls'
        BY <1>5, CallsTake DEF TakeDB
  <1> QED BY <1>1, <1>2, <1>3, <1>4, <1>5, CallsConnect, CallsCrash, CallsBurstStep, CallsSyncStep,
             CallsSendRecord, CallsTakeBurst, CallsTakeServer, CallsTakeVersion
          DEF Next

-----------------------------------------------------------------------------
(* The steps of an exchange. *)

\* The answer to a VERSION stays where it is, when nobody sends or receives its rows.
LEMMA SyncAtKept ==
  ASSUME NEW x, NEW v \in Burster, NEW j, SyncAt(x, v, j),
         UNCHANGED log, rows'[Peer(x)][v] = rows[Peer(x)][v],
         \A d \in net' : RowOf(d, Peer(x), v) => \E c \in net : Same(d, c),
         \A d \in net : RowOf(d, Peer(x), v) => \E c \in net' : Same(c, d)
  PROVE  SyncAt(x, v, j)'
  <1> DEFINE y == Peer(x)
             n == Len(rows[y][v])
  <1>1. n' = n
        OBVIOUS
  <1>2. Behind(y)' <=> Behind(y)
        BY DEF Behind, Prefix
  <1>3. ASSUME NEW d \in net', RowOf(d, y, v)
        PROVE  d.kind = "DB" /\ j >= 1 /\ d.record = log[y][j]
        <2>1. PICK c \in net : Same(d, c)
              BY <1>3
        <2>2. RowOf(c, y, v) /\ c.kind = d.kind /\ c.record = d.record
              BY <1>3, <2>1 DEF RowOf, Same, SameCall
        <2> QED BY <2>2 DEF SyncAt
  <1>4. (\A d \in net' : ~RowOf(d, y, v)) => \A d \in net : ~RowOf(d, y, v)
        BY DEF RowOf, Same, SameCall
  <1>5. /\ j + Len(rows[y][v]) <= Len(log[y])
        /\ \A i \in 1..Len(rows[y][v]) : rows[y][v][i] = log[y][j + i]
        /\ j <= Len(log[x]) + 1
        /\ j + Len(rows[y][v]) = Len(log[y]) \/ Behind(y)
        /\ (\A d \in net : ~RowOf(d, y, v)) => j <= Len(log[x])
        BY DEF SyncAt
  <1> QED BY <1>2, <1>3, <1>4, <1>5 DEF SyncAt, RowOf

\* A step that leaves the logs, the rows to send and every DB and taken VERSION
\* alone: the names, the bursts, and calls that are sent, taken or end unheard.
LEMMA LinkKeepsExchange ==
  ASSUME Exchange, UNCHANGED <<stage, log, rows>>,
         \A s \in Server : up[s] /\ entries[s] > 0 => up'[s] /\ entries'[s] > 0,
         \A s \in Server, v \in Burster : burst'[s][v] # "idle" => up'[s] /\ entries'[s] > 0,
         \A s \in Server : (\E m \in net' : m.from = s) => up'[s] /\ entries'[s] > 0,
         \A m \in net' : \/ \E n \in net : Same(m, n) /\ (m.kind = "VERSION" => m = n)
                         \/ /\ m.kind \in {"BURST", "SERVER", "VERSION"} /\ m.thread \in Burster
                            /\ ~m.taken
                            /\ m.kind = "VERSION" => NewestOf(m.from, m.record),
         \A n \in net : n.kind = "DB" \/ (n.kind = "VERSION" /\ n.taken) =>
                          \E m \in net' : Same(m, n) /\ (n.kind = "VERSION" => m = n),
         net \subseteq Call,
         \A m \in net : m.kind = "VERSION" => m.thread \in Burster,
         \A s \in Server : named'[s] => Awaits(s)'
  PROVE  Exchange'
  <1>1. NoStatement' /\ OneIsBehind'
        BY DEF Exchange, NoStatement, OneIsBehind, Behind, Prefix
  <1>2. Present'
        BY DEF Exchange, Present
  <1>3. \A y \in Server, v \in Burster : \A d \in net' : RowOf(d, y, v) => \E c \in net : Same(d, c)
        BY Threads DEF RowOf
  <1>4. ASSUME NEW y \in Server, NEW v \in Burster,
               rows'[y][v] # <<>> \/ \E d \in net' : RowOf(d, y, v)
        PROVE  \E m \in net' : Asking(m, Peer(y), v)
        <2>1. rows[y][v] # <<>> \/ \E d \in net : RowOf(d, y, v)
              BY <1>3, <1>4 DEF RowOf, Same, SameCall
        <2>2. PICK m \in net : Asking(m, Peer(y), v)
              BY <2>1 DEF Exchange, RowsAnswer
        <2> QED BY <2>2 DEF Asking
  <1>5. ASSUME NEW d \in net', d.kind = "DB" PROVE \E v \in Burster : d.thread = SyncFor[v]
        BY <1>5 DEF Exchange, RowsAnswer, Same, SameCall
  <1>6. RowsAnswer'
        BY <1>4, <1>5 DEF RowsAnswer, Asking, RowOf
  <1>7. ASSUME NEW m \in net', m.kind = "VERSION"
        PROVE  /\ ~m.taken => NewestOf(m.from, m.record)'
               /\ m.taken => \E j \in 0..Len(log'[Peer(m.from)]) : SyncAt(m.from, m.thread, j)'
        <2>1. CASE m \in net
              <3>1. ~m.taken => NewestOf(m.from, m.record)'
                    BY <1>7, <2>1 DEF Exchange, Versions, NewestOf
              <3>2. ASSUME m.taken
                    PROVE  \E j \in 0..Len(log'[Peer(m.from)]) : SyncAt(m.from, m.thread, j)'
                    <4> DEFINE x == m.from
                               v == m.thread
                    <4>1. PICK j \in 0..Len(log[Peer(x)]) : SyncAt(x, v, j)
                          BY <1>7, <2>1, <3>2 DEF Exchange, Versions
                    <4>2. x \in Server /\ Peer(x) \in Server /\ v \in Burster
                          BY <1>7, <2>1, Peers DEF Call
                    <4> HIDE DEF x, v
                    <4>3. \A d \in net : RowOf(d, Peer(x), v) => \E c \in net' : Same(c, d)
                          BY <4>1 DEF SyncAt
                    <4>4. SyncAt(x, v, j)'
                          BY <1>3, <4>1, <4>2, <4>3, SyncAtKept
                    <4> QED BY <4>1, <4>4 DEF x, v
              <3> QED BY <3>1, <3>2
        <2>2. CASE m \notin net
              BY <1>7, <2>2 DEF NewestOf
        <2> QED BY <2>1, <2>2
  <1>8. Versions'
        BY <1>7 DEF Versions
  <1> QED BY <1>1, <1>2, <1>6, <1>8 DEF Exchange

\* The names stay, and so does what a server waits for.
LEMMA AwaitsKept ==
  ASSUME Exchange, UNCHANGED <<log, named>>, NEW s \in Server, named'[s],
         \A v \in Burster : burst[Peer(s)][v] # "idle" => burst'[Peer(s)][v] # "idle",
         \A n \in net : n.kind = "VERSION" => \E m \in net' : Same(m, n)
  PROVE  Awaits(s)'
  <1>1. Awaits(s)
        BY DEF Exchange
  <1>2. CASE Behind(s)
        BY <1>2 DEF Behind, Prefix, Awaits
  <1>3. CASE \E v \in Burster : burst[Peer(s)][v] # "idle"
        BY <1>3 DEF Awaits
  <1>4. CASE \E m \in net : m.from = Peer(s) /\ m.kind = "VERSION"
        BY <1>4 DEF Awaits, Same, SameCall
  <1> QED BY <1>1, <1>2, <1>3, <1>4 DEF Awaits

\* An exchange begins: the server that connects awaits nothing, his peer awaits him.
LEMMA ConnectBegins ==
  ASSUME Inv, NEW s \in Server, Connect(s), Quiet, clean'
  PROVE  Exchange'
  <1>1. OneIsBehind'
        BY ServerAssumption DEF Connect, tables, OneIsBehind, Behind, Peer
  <1>2. net' = {} /\ rows' = rows /\ up' = up /\ stage' = stage /\ named' = named
        BY DEF Connect, Quiet, statements
  <1>3. NoStatement'
        BY <1>2 DEF Quiet, NoStatement
  <1>4. \A t \in Server, v \in Burster : rows'[t][v] = <<>> /\ (t # s => burst'[t][v] = "idle")
        BY DEF Connect, Quiet, Inv, TypeOK
  <1>5. up'[s] /\ entries'[s] > 0 /\ ~named'[s]
        BY DEF Inv, TypeOK, Connect
  <1>6. Present'
        BY <1>2, <1>4, <1>5 DEF Present
  <1>7. RowsAnswer' /\ Versions'
        BY <1>2, <1>4 DEF RowsAnswer, Versions
  <1>8. ASSUME NEW t \in Server, named'[t] PROVE Awaits(t)'
        <2>1. s = Peer(t)
              BY <1>5, <1>8, Peers
        <2>2. burst'[s]["connect"] # "idle" /\ "connect" \in Burster
              BY DEF Connect, Inv, TypeOK, Burster
        <2> QED BY <2>1, <2>2 DEF Awaits
  <1> QED BY <1>1, <1>3, <1>6, <1>7, <1>8 DEF Exchange

LEMMA ConnectGoesOn ==
  ASSUME Inv, Exchange, NEW s \in Server, Connect(s)
  PROVE  Exchange'
  <1>1. /\ net' = net /\ UNCHANGED <<stage, log, rows, up, named>>
        /\ \A t \in Server, v \in Burster : t # s => burst'[t][v] = burst[t][v]
        /\ \A v \in Burster : burst[s][v] # "idle" => burst'[s][v] # "idle"
        /\ \A t \in Server : entries'[t] >= entries[t] /\ entries'[t] \in Nat /\ entries[t] \in Nat
        /\ up'[s] /\ entries'[s] > 0
        BY DEF Inv, TypeOK, Connect, tables, statements
  <1>2. \A m \in net : \E n \in net : Same(m, n) /\ Same(n, m) /\ (m.kind = "VERSION" => m = n)
        BY DEF Same, SameCall
  <1>3. \A t \in Server : up[t] /\ entries[t] > 0 => up'[t] /\ entries'[t] > 0
        BY <1>1
  <1>4. \A t \in Server, v \in Burster : burst'[t][v] # "idle" => up'[t] /\ entries'[t] > 0
        BY <1>1, <1>3 DEF Exchange, Present
  <1>5. \A t \in Server : (\E m \in net' : m.from = t) => up'[t] /\ entries'[t] > 0
        BY <1>1, <1>3 DEF Exchange, Present
  <1>6. \A t \in Server, v \in Burster : burst[t][v] # "idle" => burst'[t][v] # "idle"
        BY <1>1
  <1>7. \A t \in Server : named'[t] => Awaits(t)'
        BY <1>1, <1>2, <1>6, Peers, AwaitsKept
  <1>8. net \subseteq Call /\ \A m \in net : m.kind = "VERSION" => m.thread \in Burster
        BY DEF Inv, TypeOK
  <1> QED BY <1>1, <1>2, <1>3, <1>4, <1>5, <1>7, <1>8, LinkKeepsExchange

LEMMA RestartExchange ==
  ASSUME Inv, Exchange, NEW s \in Server, Restart(s)
  PROVE  Exchange'
  <1>1. /\ net' = net /\ UNCHANGED <<stage, log, rows, burst, named, entries>>
        /\ \A t \in Server : up[t] => up'[t]
        BY DEF Inv, TypeOK, Restart, tables, statements
  <1>2. \A m \in net : \E n \in net : Same(m, n) /\ Same(n, m) /\ (m.kind = "VERSION" => m = n)
        BY DEF Same, SameCall
  <1>3. \A t \in Server : named'[t] => Awaits(t)'
        BY <1>1, <1>2, Peers, AwaitsKept
  <1>4. net \subseteq Call /\ \A m \in net : m.kind = "VERSION" => m.thread \in Burster
        BY DEF Inv, TypeOK
  <1>5. \A t \in Server, v \in Burster : burst'[t][v] # "idle" => up'[t] /\ entries'[t] > 0
        BY <1>1 DEF Exchange, Present
  <1>6. \A t \in Server : (\E m \in net' : m.from = t) => up'[t] /\ entries'[t] > 0
        BY <1>1 DEF Exchange, Present
  <1> QED BY <1>1, <1>2, <1>3, <1>4, <1>5, <1>6, LinkKeepsExchange

\* A call of a burst is sent: the VERSION with the newest ID when the burst ends.
LEMMA BurstStepExchange ==
  ASSUME Inv, Exchange, NEW s \in Server, NEW v \in Burster, BurstStep(s, v)
  PROVE  Exchange'
  <1>1. PICK kind \in {"BURST", "SERVER", "VERSION"}, step \in {"server", "version", "idle"} :
             /\ Send(s, v, kind, IF kind = "VERSION" THEN GetLastRecord(s) ELSE NoRecord)
             /\ burst' = [burst EXCEPT ![s][v] = step]
             /\ kind # "VERSION" => step # "idle"
             /\ burst[s][v] # "idle"
        BY DEF BurstStep
  <1> DEFINE record == IF kind = "VERSION" THEN GetLastRecord(s) ELSE NoRecord
  <1>2. PICK c : /\ net' = net \cup {c}
                 /\ c.from = s /\ c.thread = v /\ c.kind = kind /\ c.record = record /\ ~c.taken
        BY <1>1, SendAdds
  <1>3. NewestOf(s, record)
        <2>1. CASE kind = "VERSION" /\ log[s] # <<>>
              <3>1. log[s] \in Seq(Record)
                    BY DEF Inv, TypeOK
              <3>2. Len(log[s]) \in 1..Len(log[s])
                    BY <2>1, <3>1
              <3>3. record = log[s][Len(log[s])]
                    BY <2>1 DEF GetLastRecord
              <3> HIDE DEF record
              <3> QED BY <3>2, <3>3 DEF NewestOf
        <2>2. CASE ~(kind = "VERSION" /\ log[s] # <<>>)
              BY <2>2 DEF GetLastRecord, NewestOf
        <2> QED BY <2>1, <2>2
  <1> HIDE DEF record
  <1>4. UNCHANGED <<stage, log, rows, up, entries, named>>
        BY DEF BurstStep, link, tables, statements
  <1>5. up[s] /\ entries[s] > 0
        BY <1>1 DEF Exchange, Present
  <1>6. \A t \in Server, w \in Burster :
           burst'[t][w] = IF t = s /\ w = v THEN step ELSE burst[t][w]
        BY <1>1 DEF Inv, TypeOK
  <1>7. \A t \in Server, w \in Burster : burst'[t][w] # "idle" => up'[t] /\ entries'[t] > 0
        BY <1>4, <1>5, <1>6 DEF Exchange, Present
  <1>8. \A t \in Server : (\E m \in net' : m.from = t) => up'[t] /\ entries'[t] > 0
        BY <1>2, <1>4, <1>5 DEF Exchange, Present
  <1>9. \A n \in net : n \in net' /\ Same(n, n)
        BY <1>2 DEF Same, SameCall
  <1>10. ASSUME NEW m \in net'
         PROVE  \/ \E n \in net : Same(m, n) /\ (m.kind = "VERSION" => m = n)
                \/ /\ m.kind \in {"BURST", "SERVER", "VERSION"} /\ m.thread \in Burster
                   /\ ~m.taken
                   /\ m.kind = "VERSION" => NewestOf(m.from, m.record)
         BY <1>2, <1>3, <1>9
  <1>11. ASSUME NEW t \in Server, named'[t] PROVE Awaits(t)'
         <2>1. CASE kind = "VERSION" /\ s = Peer(t)
               BY <1>2, <2>1 DEF Awaits
         <2>2. CASE kind # "VERSION" \/ s # Peer(t)
               <3>1. \A w \in Burster : burst[Peer(t)][w] # "idle" => burst'[Peer(t)][w] # "idle"
                     BY <1>1, <1>6, <2>2, Peers
               <3> QED BY <1>4, <1>9, <1>11, <3>1, AwaitsKept
         <2> QED BY <2>1, <2>2
  <1>12. net \subseteq Call /\ \A m \in net : m.kind = "VERSION" => m.thread \in Burster
        BY DEF Inv, TypeOK
  <1>13. \A n \in net : \E m \in net' : Same(m, n) /\ (n.kind = "VERSION" => m = n)
        BY <1>9
  <1> QED BY <1>4, <1>7, <1>8, <1>10, <1>11, <1>12, <1>13, LinkKeepsExchange

\* A call that is no VERSION is taken.
LEMMA TakeExchange ==
  ASSUME Inv, Exchange, NEW m \in net, Take(m), m.kind # "VERSION",
         UNCHANGED <<stage, log, rows, link>>,
         \A s \in Server, v \in Burster : burst[s][v] # "idle" => burst'[s][v] # "idle",
         \A s \in Server, v \in Burster : burst'[s][v] # "idle" => up[s] /\ entries[s] > 0
  PROVE  Exchange'
  <1>1. PICK t : net' = (net \ {m}) \cup {t} /\ Same(t, m) /\ t.taken
        BY TakeChanges DEF Inv
  <1>2. UNCHANGED <<up, entries, named>>
        BY DEF link
  <1>3. t.kind # "VERSION" /\ t.from = m.from
        BY <1>1 DEF Same, SameCall
  <1>4. \A n \in net : Same(n, n)
        BY DEF Same, SameCall
  <1>5. \A n \in net' : \E k \in net : Same(n, k) /\ (n.kind = "VERSION" => n = k)
        BY <1>1, <1>3, <1>4
  <1>6. \A n \in net : \E k \in net' : Same(k, n) /\ (n.kind = "VERSION" => n = k)
        BY <1>1, <1>4
  <1>7. \A s \in Server : (\E n \in net' : n.from = s) => up'[s] /\ entries'[s] > 0
        BY <1>1, <1>2, <1>3 DEF Exchange, Present
  <1>8. \A s \in Server : named'[s] => Awaits(s)'
        BY <1>2, <1>6, Peers, AwaitsKept
  <1>9. net \subseteq Call /\ \A n \in net : n.kind = "VERSION" => n.thread \in Burster
        BY DEF Inv, TypeOK
  <1> QED BY <1>2, <1>5, <1>6, <1>7, <1>8, <1>9, LinkKeepsExchange

LEMMA TakeBurstExchange ==
  ASSUME Inv, Exchange, NEW m \in net, TakeBurst(m)
  PROVE  Exchange'
  <1> DEFINE p == Peer(m.from)
  <1>1. p \in Server /\ up[p] /\ entries[p] > 0
        BY Peers DEF Inv, TypeOK, Call, TakeBurst, Accepts
  <1>2. burst' = [burst EXCEPT ![p]["answer"] = "server"]
        BY DEF TakeBurst
  <1> HIDE DEF p
  <1>3. \A s \in Server, v \in Burster :
          burst'[s][v] = IF s = p /\ v = "answer" THEN "server" ELSE burst[s][v]
        BY <1>1, <1>2 DEF Inv, TypeOK
  <1>4. UNCHANGED <<stage, log, rows, link>>
        BY DEF TakeBurst, tables, statements
  <1>5. \A s \in Server, v \in Burster : burst'[s][v] # "idle" => up[s] /\ entries[s] > 0
        BY <1>1, <1>3 DEF Exchange, Present
  <1> QED BY <1>3, <1>4, <1>5, TakeExchange DEF TakeBurst

LEMMA TakeDBExchange ==
  ASSUME Inv, Exchange, NEW m \in net, TakeDB(m)
  PROVE  Exchange'
  <1>1. UNCHANGED <<stage, log, rows, link, burst>>
        BY DEF TakeDB, statements
  <1>2. \A s \in Server, v \in Burster : burst'[s][v] # "idle" => up[s] /\ entries[s] > 0
        BY <1>1 DEF Exchange, Present
  <1> QED BY <1>1, <1>2, TakeExchange DEF TakeDB

\* A name comes: its sender has the VERSION still to send.
LEMMA TakeServerExchange ==
  ASSUME Inv, Calls, Exchange, NEW m \in net, TakeServer(m)
  PROVE  Exchange'
  <1>1. UNCHANGED <<stage, log, rows, up, entries, burst>>
        BY DEF TakeServer, tables, statements
  <1>2. net' \subseteq net /\ \A n \in net : n.kind \in {"VERSION", "DB"} => n \in net'
        BY ReturnKeeps DEF TakeServer
  <1>3. \A n \in net : Same(n, n)
        BY DEF Same, SameCall
  <1>4. ASSUME NEW s \in Server, named'[s] PROVE Awaits(s)'
        <2>1. CASE s = Peer(m.from)
              <3>1. m.from = Peer(s)
                    BY <2>1, Peers DEF Inv, TypeOK, Call
              <3>2. m.thread \in Burster /\ burst[m.from][m.thread] = "version"
                    BY DEF TakeServer, Calls, NameBeforeVersion
              <3> QED BY <1>1, <3>1, <3>2 DEF Awaits
        <2>2. CASE s # Peer(m.from)
              <3>1. named[s]
                    BY <1>4, <2>2 DEF TakeServer, Inv, TypeOK
              <3>2. Awaits(s)
                    BY <3>1 DEF Exchange
              <3> QED BY <1>1, <1>2, <3>2 DEF Awaits, Behind, Prefix
        <2> QED BY <2>1, <2>2
  <1>5. net \subseteq Call /\ \A n \in net : n.kind = "VERSION" => n.thread \in Burster
        BY DEF Inv, TypeOK
  <1>6. \A s \in Server : (\E n \in net' : n.from = s) => up'[s] /\ entries'[s] > 0
        BY <1>1, <1>2 DEF Exchange, Present
  <1>7. \A s \in Server, v \in Burster : burst'[s][v] # "idle" => up'[s] /\ entries'[s] > 0
        BY <1>1 DEF Exchange, Present
  <1>8. \A n \in net' : \E k \in net : Same(n, k) /\ (n.kind = "VERSION" => n = k)
        BY <1>2, <1>3
  <1>9. \A n \in net : n.kind = "DB" \/ (n.kind = "VERSION" /\ n.taken) =>
          \E k \in net' : Same(k, n) /\ (n.kind = "VERSION" => k = n)
        BY <1>2, <1>3
  <1> QED BY <1>1, <1>4, <1>5, <1>6, <1>7, <1>8, <1>9, LinkKeepsExchange

\* A call is refused by a server that is not there: it is no row, and a VERSION
\* that does not know him as connected.
LEMMA RefusedExchange ==
  ASSUME Inv, Calls, Exchange, NEW m \in net, Refused(m)
  PROVE  Exchange'
  <1> DEFINE p == Peer(m.from)
  <1>1. UNCHANGED <<stage, log, rows, up, entries, named, burst>>
        BY DEF Refused, link, tables, statements
  <1>2. p \in Server /\ m.from \in Server /\ m.from = Peer(p) /\ ~(up[p] /\ entries[p] > 0)
        <2>1. m.from \in Server /\ p \in Server /\ m.from = Peer(p)
              BY Peers DEF Inv, TypeOK, Call
        <2> QED BY <2>1 DEF Inv, TypeOK, Refused
  <1>3. ~m.taken
        BY DEF Refused
  <1>4. m.kind # "DB"
        <2> SUFFICES ASSUME m.kind = "DB" PROVE FALSE
            OBVIOUS
        <2>1. PICK v \in Burster : m.thread = SyncFor[v]
              BY DEF Exchange, RowsAnswer
        <2>2. \E n \in net : Asking(n, p, v)
              BY <1>2, <2>1 DEF Exchange, RowsAnswer, RowOf
        <2> QED BY <1>2, <2>2 DEF Exchange, Present, Asking
  <1>5. net' \subseteq net /\ \A n \in net : n # m /\ n.kind \in {"VERSION", "DB"} => n \in net'
        BY ReturnKeeps DEF Refused
  <1>6. \A n \in net : Same(n, n)
        BY DEF Same, SameCall
  <1>7. ASSUME NEW s \in Server, named'[s] PROVE Awaits(s)'
        <2>1. named[s] /\ s # p
              BY <1>1, <1>2, <1>7 DEF Calls, NamedIsThere
        <2>2. Awaits(s) /\ Peer(s) # m.from
              BY <1>2, <2>1, Peers DEF Exchange
        <2> QED BY <1>1, <1>5, <2>2 DEF Awaits, Behind, Prefix
  <1>8. net \subseteq Call /\ \A n \in net : n.kind = "VERSION" => n.thread \in Burster
        BY DEF Inv, TypeOK
  <1>9. \A s \in Server : (\E n \in net' : n.from = s) => up'[s] /\ entries'[s] > 0
        BY <1>1, <1>5 DEF Exchange, Present
  <1>10. \A s \in Server, v \in Burster : burst'[s][v] # "idle" => up'[s] /\ entries'[s] > 0
        BY <1>1 DEF Exchange, Present
  <1>11. \A n \in net' : \E k \in net : Same(n, k) /\ (n.kind = "VERSION" => n = k)
        BY <1>5, <1>6
  <1>12. \A n \in net : n.kind = "DB" \/ (n.kind = "VERSION" /\ n.taken) =>
          \E k \in net' : Same(k, n) /\ (n.kind = "VERSION" => k = n)
        BY <1>3, <1>4, <1>5, <1>6
  <1> QED BY <1>1, <1>7, <1>8, <1>9, <1>10, <1>11, <1>12, LinkKeepsExchange

\* Two rows that come from other VERSIONs are untouched by what one of them does.
LEMMA OtherRows ==
  ASSUME NEW d, NEW x \in Server, NEW v \in Burster, NEW w \in Server, NEW u \in Burster,
         RowOf(d, Peer(x), v), RowOf(d, Peer(w), u)
  PROVE  x = w /\ v = u
  <1>1. Peer(x) = Peer(w) /\ v = u
        BY Threads DEF RowOf
  <1> QED BY <1>1, Peers

\* The rows of a log after one of them.
LEMMA Suffix ==
  ASSUME NEW S, NEW q \in Seq(S), NEW j \in 0..Len(q)
  PROVE  /\ SubSeq(q, j + 1, Len(q)) \in Seq(S)
         /\ Len(SubSeq(q, j + 1, Len(q))) = Len(q) - j
         /\ \A i \in 1..(Len(q) - j) : SubSeq(q, j + 1, Len(q))[i] = q[j + i]
         /\ j = 0 => SubSeq(q, j + 1, Len(q)) = q
  OBVIOUS

LEMMA AnswerBegins ==
  ASSUME Inv, Calls, Exchange, NEW m \in net, TakeVersion(m), Take(m),
         NEW after, after # <<>>, rows' = [rows EXCEPT ![Peer(m.from)][m.thread] = after],
         after = RowsAfter(log[Peer(m.from)], m.record)
  PROVE  Exchange'
  <1> DEFINE x == m.from
             v == m.thread
             y == Peer(x)
             rec == m.record
  <1>1. /\ x \in Server /\ y \in Server /\ v \in Burster /\ x = Peer(y) /\ x # y
        /\ m.kind = "VERSION" /\ ~m.taken
        BY Peers DEF Inv, TypeOK, Call, TakeVersion, Accepts
  <1>2. /\ log[x] \in Seq(Record) /\ log[y] \in Seq(Record)
        /\ UNCHANGED <<stage, log, burst, up, entries, named>>
        BY <1>1 DEF Inv, TypeOK, TakeVersion, tables, statements, link
  <1>3. PICK t : net' = (net \ {m}) \cup {t} /\ Same(t, m) /\ t.taken
        BY TakeChanges DEF Inv
  <1>4. t.from = x /\ t.thread = v /\ t.kind = "VERSION"
        BY <1>1, <1>3 DEF Same, SameCall
  <1>5. NewestOf(x, rec)
        BY <1>1 DEF Exchange, Versions
  <1>6. rows' = [rows EXCEPT ![y][v] = after]
        OBVIOUS
  <1>7. after = RowsAfter(log[y], rec)
        OBVIOUS
  <1>8. \A n \in net : n.from = x /\ n.thread = v => n = m
        BY DEF Calls, OneCallEach
  <1>9. up[y] /\ entries[y] > 0
        BY DEF TakeVersion, Accepts
  <1> HIDE DEF x, y, v, rec
  <1>10. \A s \in Server, u \in Burster :
           rows'[s][u] = IF s = y /\ u = v THEN after ELSE rows[s][u]
         <2>1. rows \in [Server -> [Burster -> Seq(Record)]]
               BY DEF Inv, TypeOK
         <2> QED BY <1>1, <1>6, <2>1
  <1>11. \A d \in net' : ~RowOf(d, y, v)
         <2>1. \A d \in net : ~RowOf(d, y, v)
               <3> SUFFICES ASSUME NEW d \in net, RowOf(d, y, v) PROVE FALSE
                   OBVIOUS
               <3>1. PICK n \in net : Asking(n, x, v)
                     BY <1>1 DEF Exchange, RowsAnswer
               <3> QED BY <1>1, <1>8, <3>1 DEF Asking
         <2>2. ~RowOf(t, y, v)
               BY <1>1, <1>4 DEF RowOf
         <2> QED BY <1>3, <2>1, <2>2
  \* The answer begins after the place of the ID in both logs.
  <1>12. PICK j \in 0..Len(log[y]) : /\ j <= Len(log[x])
                                     /\ after = SubSeq(log[y], j + 1, Len(log[y]))
         <2>1. CASE rec = NoRecord
               <3>1. after = log[y]
                     BY <1>7, <2>1 DEF RowsAfter
               <3>2. SubSeq(log[y], 0 + 1, Len(log[y])) = log[y]
                     BY <1>2, Suffix
               <3>3. 0 \in 0..Len(log[y]) /\ 0 <= Len(log[x])
                     BY <1>2
               <3> QED BY <3>1, <3>2, <3>3
         <2>2. CASE rec # NoRecord
               <3> DEFINE at == {i \in DOMAIN log[y] : log[y][i] = rec}
                          j == CHOOSE i \in at : TRUE
               <3>1. at # {} /\ after = SubSeq(log[y], j + 1, Len(log[y]))
                     BY <1>7, <2>2 DEF RowsAfter
               <3>2. j \in 1..Len(log[y]) /\ log[y][j] = rec
                     BY <1>2, <3>1, SMTT(30)
               <3>3. PICK k \in 1..Len(log[x]) : log[x][k] = rec
                     BY <1>5, <2>2 DEF NewestOf
               <3> HIDE DEF at, j
               <3>4. j = k
                     <4>1. log[y][j] = log[Peer(y)][k] /\ k \in 1..Len(log[Peer(y)])
                           BY <1>1, <3>2, <3>3
                     <4> QED BY <1>1, <3>2, <4>1, SamePlace DEF Inv, Exchange
               <3>5. j \in 0..Len(log[y]) /\ j <= Len(log[x])
                     BY <1>2, <3>2, <3>4
               <3> QED BY <3>1, <3>5
         <2> QED BY <2>1, <2>2
  <1>13. /\ Len(after) = Len(log[y]) - j
         /\ \A i \in 1..Len(after) : after[i] = log[y][j + i]
         <2> DEFINE q == log[y]
         <2>1. q \in Seq(Record) /\ j \in 0..Len(q) /\ after = SubSeq(q, j + 1, Len(q))
               BY <1>2, <1>12
         <2> HIDE DEF q
         <2>2. /\ Len(after) = Len(q) - j
               /\ \A i \in 1..(Len(q) - j) : after[i] = q[j + i]
               BY <2>1, Suffix, SMTT(30)
         <2> QED BY <2>2 DEF q
  <1>14. SyncAt(x, v, j)'
         <2>1. Peer(x) = y /\ rows'[y][v] = after /\ log' = log
               BY <1>1, <1>2, <1>10, Peers
         <2>2. Len(log[y]) \in Nat /\ Len(log[x]) \in Nat /\ Len(after) = Len(log[y]) - j
               BY <1>2, <1>13
         <2>3. j + Len(after) = Len(log[y]) /\ j <= Len(log[x]) + 1
               <3> DEFINE a == Len(log[y])
                          b == Len(log[x])
                          e == Len(after)
               <3>1. a \in Nat /\ b \in Nat /\ e = a - j /\ j \in 0..a /\ j <= b
                     BY <1>12, <2>2
               <3> HIDE DEF a, b, e
               <3>2. j + e = a /\ j <= b + 1
                     BY <3>1
               <3> QED BY <3>2 DEF a, b, e
         <2>4. /\ j + Len(rows'[y][v]) = Len(log'[y])
               /\ \A i \in 1..Len(rows'[y][v]) : rows'[y][v][i] = log'[y][j + i]
               /\ j <= Len(log'[x]) + 1
               /\ j <= Len(log'[x])
               BY <1>12, <1>13, <2>1, <2>3
         <2>5. j + Len(rows'[y][v]) <= Len(log'[y])
               BY <2>1, <2>2, <2>4
         <2> QED BY <1>11, <2>1, <2>4, <2>5 DEF SyncAt, RowOf
  <1>15. NoStatement' /\ OneIsBehind'
         BY <1>2 DEF Exchange, NoStatement, OneIsBehind, Behind, Prefix
  <1>16. Present'
         BY <1>2, <1>3, <1>4, <1>9, <1>10 DEF Exchange, Present, x
  <1>17. RowsAnswer'
         <2>1. ASSUME NEW s \in Server, NEW u \in Burster,
                      rows'[s][u] # <<>> \/ \E d \in net' : RowOf(d, s, u)
               PROVE  \E n \in net' : Asking(n, Peer(s), u)
               <3>1. CASE s = y /\ u = v
                     BY <1>1, <1>3, <1>4, <3>1 DEF Asking
               <3>2. CASE ~(s = y /\ u = v)
                     <4>1. ~RowOf(t, s, u)
                           BY <1>1, <1>4, Threads DEF RowOf
                     <4>2. rows[s][u] # <<>> \/ \E d \in net : RowOf(d, s, u)
                           BY <1>3, <1>10, <2>1, <3>2, <4>1
                     <4>3. PICK n \in net : Asking(n, Peer(s), u)
                           BY <4>2 DEF Exchange, RowsAnswer
                     <4> QED BY <1>1, <1>3, <4>3 DEF Asking
               <3> QED BY <3>1, <3>2
         <2>2. \A d \in net' : d.kind = "DB" => \E u \in Burster : d.thread = SyncFor[u]
               BY <1>3, <1>4 DEF Exchange, RowsAnswer
         <2> QED BY <2>1, <2>2 DEF RowsAnswer, Asking, RowOf
  <1>18. Versions'
         <2>1. ASSUME NEW n \in net', n.kind = "VERSION"
               PROVE  /\ ~n.taken => NewestOf(n.from, n.record)'
                      /\ n.taken => \E i \in 0..Len(log'[Peer(n.from)]) : SyncAt(n.from, n.thread, i)'
               <3>1. CASE n = t
                     <4>1. Peer(n.from) = y
                           BY <1>1, <1>4, <3>1, Peers
                     <4> QED BY <1>2, <1>3, <1>4, <1>12, <1>14, <3>1, <4>1
               <3>2. CASE n # t
                     <4> DEFINE w == n.from
                                u == n.thread
                     <4>1. n \in net /\ n # m
                           BY <1>3, <3>2
                     <4>2. w \in Server /\ u \in Burster /\ ~(w = x /\ u = v)
                           BY <1>8, <2>1, <4>1 DEF Inv, TypeOK, Call
                     <4>3. ASSUME n.taken
                           PROVE  \E i \in 0..Len(log'[Peer(w)]) : SyncAt(w, u, i)'
                           <5>1. PICK i \in 0..Len(log[Peer(w)]) : SyncAt(w, u, i)
                                 BY <2>1, <4>1, <4>3 DEF Exchange, Versions
                           <5> HIDE DEF w, u
                           <5>2. rows'[Peer(w)][u] = rows[Peer(w)][u]
                                 BY <1>1, <1>10, <4>2, Peers
                           <5>3. ~RowOf(t, Peer(w), u) /\ ~RowOf(m, Peer(w), u)
                                 BY <1>1, <1>4, <4>2, Threads DEF RowOf, v
                           <5>4. /\ \A d \in net' : RowOf(d, Peer(w), u) => \E c \in net : Same(d, c)
                                 /\ \A d \in net : RowOf(d, Peer(w), u) => \E c \in net' : Same(c, d)
                                 BY <1>3, <5>3 DEF Same, SameCall
                           <5>5. SyncAt(w, u, i)'
                                 BY <1>2, <4>2, <5>1, <5>2, <5>4, SyncAtKept
                           <5> QED BY <1>2, <5>1, <5>5
                     <4>4. ~n.taken => NewestOf(n.from, n.record)'
                           BY <1>2, <2>1, <4>1 DEF Exchange, Versions, NewestOf
                     <4> QED BY <4>3, <4>4
               <3> QED BY <3>1, <3>2
         <2> QED BY <2>1 DEF Versions
  <1>19. \A s \in Server : named'[s] => Awaits(s)'
         <2>1. \A n \in net : n.kind = "VERSION" => \E k \in net' : Same(k, n)
               BY <1>3 DEF Same, SameCall
         <2> QED BY <1>2, <2>1, Peers, AwaitsKept
  <1> QED BY <1>15, <1>16, <1>17, <1>18, <1>19 DEF Exchange

\* Who has no answer to the VERSION is behind its sender.
LEMMA NothingToAnswer ==
  ASSUME Inv, OneIsBehind, NEW y \in Server, NEW rec, NewestOf(Peer(y), rec),
         GetLastRecord(y) = rec \/ RowsAfter(log[y], rec) = <<>>
  PROVE  Behind(y)
  <1> DEFINE x == Peer(y)
  <1>1. /\ log[x] \in Seq(Record) /\ log[y] \in Seq(Record) /\ x \in Server
        /\ DOMAIN log[y] = 1..Len(log[y]) /\ Peer(x) = y
        /\ NoRecord \notin Record
        BY Peers, RecordAssumption DEF Inv, TypeOK
  <1>2. CASE rec = NoRecord
        <2>1. log[y] = <<>>
              <3>1. CASE GetLastRecord(y) = rec
                    <4> SUFFICES ASSUME log[y] # <<>> PROVE FALSE
                        OBVIOUS
                    <4>1. log[y][Len(log[y])] \in Record
                          BY <1>1
                    <4> QED BY <1>1, <1>2, <3>1, <4>1 DEF GetLastRecord
              <3>2. CASE RowsAfter(log[y], rec) = <<>>
                    BY <1>2, <3>2 DEF RowsAfter
              <3> QED BY <3>1, <3>2
        <2> QED BY <1>1, <2>1 DEF Behind, Prefix
  <1>3. CASE rec # NoRecord
        <2>1. PICK k \in 1..Len(log[x]) : log[x][k] = rec
              BY <1>3 DEF NewestOf
        <2>2. CASE \E i \in 1..Len(log[y]) : log[y][i] = rec /\ i = Len(log[y])
              <3>1. log[y][Len(log[y])] = log[x][k] /\ Len(log[y]) \in 1..Len(log[y])
                    BY <2>1, <2>2
              <3>2. Len(log[y]) = k
                    BY <2>1, <3>1, SamePlace DEF Inv
              <3>3. Len(log[y]) <= Len(log[x])
                    BY <1>1, <2>1, <3>2
              <3> QED BY <3>3, ShorterIsBehind DEF Inv
        <2>3. CASE \A i \in 1..Len(log[y]) : log[y][i] # rec
              <3>1. ~Behind(x)
                    BY <1>1, <2>1, <2>3 DEF Behind, Prefix
              <3> QED BY <1>1, <3>1, OneOfTwo
        <2>4. CASE GetLastRecord(y) = rec
              <3>1. log[y] # <<>> /\ log[y][Len(log[y])] = rec
                    BY <1>3, <2>4 DEF GetLastRecord
              <3>2. Len(log[y]) \in 1..Len(log[y])
                    BY <1>1, <3>1
              <3> QED BY <2>2, <3>1, <3>2
        <2>5. CASE RowsAfter(log[y], rec) = <<>> /\ \E i \in 1..Len(log[y]) : log[y][i] = rec
              <3> DEFINE at == {i \in DOMAIN log[y] : log[y][i] = rec}
                         j == CHOOSE i \in at : TRUE
              <3>1. at # {}
                    BY <1>1, <2>5
              <3>2. SubSeq(log[y], j + 1, Len(log[y])) = <<>>
                    BY <1>3, <2>5, <3>1 DEF RowsAfter
              <3>3. j \in 1..Len(log[y]) /\ log[y][j] = rec
                    BY <1>1, <3>1
              <3> HIDE DEF at, j
              <3>4. Len(SubSeq(log[y], j + 1, Len(log[y]))) = Len(log[y]) - j
                    BY <1>1, <3>3, Suffix
              <3>5. Len(log[y]) \in Nat /\ Len(log[y]) - j = 0
                    <4>1. Len(<<>>) = 0
                          OBVIOUS
                    <4>2. Len(log[y]) - j = 0
                          BY <3>2, <3>4, <4>1, Zenon
                    <4> QED BY <1>1, <4>2
              <3>6. j = Len(log[y])
                    BY <3>3, <3>5
              <3> QED BY <2>2, <3>3, <3>6
        <2> QED BY <2>3, <2>4, <2>5
  <1> QED BY <1>2, <1>3

LEMMA NoAnswer ==
  ASSUME Inv, Calls, Exchange, NEW m \in net, TakeVersion(m), Return(m), rows' = rows,
         \/ ~(GetLastRecord(Peer(m.from)) # m.record /\ HUBExiste(Peer(m.from)))
         \/ RowsAfter(log[Peer(m.from)], m.record) = <<>>
  PROVE  Exchange'
  <1> DEFINE p == Peer(m.from)
  <1>1. UNCHANGED <<stage, log, rows, up, entries, named, burst>>
        BY DEF TakeVersion, link, tables, statements
  <1>2. p \in Server /\ m.from \in Server /\ m.from = Peer(p) /\ m.kind = "VERSION" /\ ~m.taken
        BY Peers DEF Inv, TypeOK, Call, TakeVersion, Accepts
  <1>3. net' \subseteq net /\ \A n \in net : n # m /\ n.kind \in {"VERSION", "DB"} => n \in net'
        BY ReturnKeeps
  <1>4. \A n \in net : Same(n, n)
        BY DEF Same, SameCall
  <1>5. ASSUME NEW s \in Server, named'[s] PROVE Awaits(s)'
        <2>1. CASE s = p
              <3>1. GetLastRecord(s) = m.record \/ RowsAfter(log[s], m.record) = <<>>
                    BY <1>1, <1>5, <2>1 DEF HUBExiste
              <3>2. NewestOf(Peer(s), m.record)
                    BY <1>2, <2>1 DEF Exchange, Versions
              <3>3. Behind(s)
                    BY <3>1, <3>2, NothingToAnswer DEF Exchange
              <3> QED BY <1>1, <3>3 DEF Awaits, Behind, Prefix
        <2>2. CASE s # p
              <3>1. Awaits(s) /\ Peer(s) # m.from
                    BY <1>1, <1>2, <1>5, <2>2, Peers DEF Exchange
              <3> QED BY <1>1, <1>3, <3>1 DEF Awaits, Behind, Prefix
        <2> QED BY <2>1, <2>2
  <1>6. net \subseteq Call /\ \A n \in net : n.kind = "VERSION" => n.thread \in Burster
        BY DEF Inv, TypeOK
  <1>7. \A s \in Server : (\E n \in net' : n.from = s) => up'[s] /\ entries'[s] > 0
        BY <1>1, <1>3 DEF Exchange, Present
  <1>8. \A s \in Server, v \in Burster : burst'[s][v] # "idle" => up'[s] /\ entries'[s] > 0
        BY <1>1 DEF Exchange, Present
  <1>9. \A n \in net' : \E k \in net : Same(n, k) /\ (n.kind = "VERSION" => n = k)
        BY <1>3, <1>4
  <1>10. \A n \in net : n.kind = "DB" \/ (n.kind = "VERSION" /\ n.taken) =>
           \E k \in net' : Same(k, n) /\ (n.kind = "VERSION" => k = n)
        BY <1>2, <1>3, <1>4
  <1> QED BY <1>1, <1>5, <1>6, <1>7, <1>8, <1>9, <1>10, LinkKeepsExchange

LEMMA TakeVersionExchange ==
  ASSUME Inv, Calls, Exchange, NEW m \in net, TakeVersion(m)
  PROVE  Exchange'
  <1> DEFINE p == Peer(m.from)
             v == m.thread
             asked == GetLastRecord(p) # m.record /\ HUBExiste(p)
             after == IF asked THEN RowsAfter(log[p], m.record) ELSE <<>>
  <1>1. /\ rows' = [rows EXCEPT ![p][v] = after]
        /\ IF after = <<>> THEN Return(m) ELSE Take(m)
        /\ rows[p][v] = <<>>
        BY DEF TakeVersion
  <1>2. p \in Server /\ v \in Burster
        BY PeerIsServer DEF Inv, TypeOK, Call, TakeVersion
  <1>3. CASE after # <<>>
        <2>1. after = RowsAfter(log[p], m.record) /\ Take(m)
              BY <1>1, <1>3
        <2> HIDE DEF after
        <2> QED BY <1>1, <1>3, <2>1, AnswerBegins
  <1>4. CASE after = <<>>
        <2>1. ~asked \/ RowsAfter(log[p], m.record) = <<>>
              BY <1>4
        <2>2. rows' = rows
              <3> HIDE DEF p, v
              <3> QED BY <1>1, <1>2, <1>4 DEF Inv, TypeOK
        <2>3. Return(m)
              BY <1>1, <1>4
        <2> QED BY <2>1, <2>2, <2>3, NoAnswer
  <1> QED BY <1>3, <1>4

\* Sync sends a row: the answer goes on to it.
LEMMA RowSent ==
  ASSUME Inv, Calls, Exchange, NEW y \in Server, NEW v \in Burster,
         rows[y][v] # <<>>, Send(y, SyncFor[v], "DB", Head(rows[y][v])),
         rows' = [rows EXCEPT ![y][v] = Tail(@)],
         UNCHANGED <<link, tables, statements, burst>>
  PROVE  Exchange'
  <1> DEFINE x == Peer(y)
             todo == rows[y][v]
  <1>1. /\ x \in Server /\ x # y /\ Peer(x) = y /\ todo \in Seq(Record) /\ todo # <<>>
        /\ log[x] \in Seq(Record) /\ log[y] \in Seq(Record)
        BY Peers DEF Inv, TypeOK
  <1>2. UNCHANGED <<stage, log, burst, up, entries, named>>
        BY DEF tables, statements, link
  <1>3. PICK c : /\ net' = net \cup {c}
                 /\ c.from = y /\ c.thread = SyncFor[v] /\ c.kind = "DB" /\ c.record = Head(todo)
                 /\ \A d \in net : ~RowOf(d, y, v)
        <2>1. PICK c : /\ net' = net \cup {c}
                       /\ c.from = y /\ c.thread = SyncFor[v] /\ c.kind = "DB"
                       /\ c.record = Head(todo)
                       /\ \A m \in net : ~(m.from = y /\ m.thread = SyncFor[v])
              BY SendAdds
        <2> QED BY <2>1 DEF RowOf
  <1>4. PICK m \in net : Asking(m, x, v)
        BY <1>1 DEF Exchange, RowsAnswer
  <1>5. PICK j \in 0..Len(log[y]) : SyncAt(x, v, j)
        <2>1. PICK j \in 0..Len(log[Peer(m.from)]) : SyncAt(m.from, m.thread, j)
              BY <1>4 DEF Exchange, Versions, Asking
        <2>2. m.from = x /\ m.thread = v
              BY <1>4 DEF Asking
        <2> QED BY <1>1, <2>1, <2>2
  <1>6. rows' = [rows EXCEPT ![y][v] = Tail(todo)]
        OBVIOUS
  <1>7. up[y] /\ entries[y] > 0
        BY <1>1 DEF Exchange, Present
  <1>8. /\ Tail(todo) \in Seq(Record) /\ Len(todo) \in Nat \ {0}
        /\ Len(Tail(todo)) = Len(todo) - 1
        /\ \A i \in 1..Len(Tail(todo)) : Tail(todo)[i] = todo[i + 1]
        /\ Head(todo) = todo[1]
        BY <1>1
  <1>9. /\ j + Len(todo) <= Len(log[y])
        /\ \A i \in 1..Len(todo) : todo[i] = log[y][j + i]
        /\ j <= Len(log[x])
        /\ j + Len(todo) = Len(log[y]) \/ Behind(y)
        BY <1>1, <1>3, <1>5 DEF SyncAt
  <1> DEFINE rest == Tail(todo)
  <1>10. /\ j + 1 \in 0..Len(log[y])
         /\ (j + 1) + Len(rest) <= Len(log[y])
         /\ \A i \in 1..Len(rest) : rest[i] = log[y][(j + 1) + i]
         /\ j + 1 <= Len(log[x]) + 1
         /\ j + 1 >= 1
         /\ c.record = log[y][j + 1]
         /\ (j + 1) + Len(rest) = Len(log[y]) \/ Behind(y)
         <2>1. Len(log[y]) \in Nat /\ Len(log[x]) \in Nat
               BY <1>1
         <2>2. \A i \in 1..Len(rest) : i + 1 \in 1..Len(todo) /\ j + (i + 1) = (j + 1) + i
               <3> DEFINE k == Len(todo)
               <3>1. k \in Nat \ {0} /\ Len(rest) = k - 1
                     BY <1>8
               <3> HIDE DEF k, rest
               <3>2. \A i \in 1..Len(rest) : i + 1 \in 1..k /\ j + (i + 1) = (j + 1) + i
                     BY <3>1
               <3> QED BY <3>2 DEF k
         <2>3. 1 \in 1..Len(todo)
               BY <1>8
         <2> HIDE DEF todo, x
         <2>4. j + 1 \in 0..Len(log[y]) /\ j + 1 <= Len(log[x]) + 1 /\ j + 1 >= 1
               BY <1>8, <1>9, <2>1
         <2>5. (j + 1) + Len(rest) = j + Len(todo)
               BY <1>8
         <2>6. \A i \in 1..Len(rest) : rest[i] = log[y][(j + 1) + i]
               <3> SUFFICES ASSUME NEW i \in 1..Len(rest) PROVE rest[i] = log[y][(j + 1) + i]
                   OBVIOUS
               <3>1. rest[i] = todo[i + 1]
                     BY <1>8
               <3>2. todo[i + 1] = log[y][j + (i + 1)]
                     BY <1>9, <2>2
               <3> QED BY <2>2, <3>1, <3>2
         <2>7. c.record = log[y][j + 1]
               BY <1>3, <1>8, <1>9, <2>3
         <2> HIDE DEF rest
         <2> QED BY <1>9, <2>4, <2>5, <2>6, <2>7
  <1>11. \A s \in Server, u \in Burster :
           rows'[s][u] = IF s = y /\ u = v THEN rest ELSE rows[s][u]
         <2>1. rows \in [Server -> [Burster -> Seq(Record)]]
               BY DEF Inv, TypeOK
         <2> QED BY <1>6, <2>1
  <1> HIDE DEF x, todo, rest
  <1>12. SyncAt(x, v, j + 1)'
         <2>1. rows'[y][v] = rest /\ log' = log
               BY <1>2, <1>11
         <2>2. \A d \in net' : RowOf(d, y, v) => d = c
               BY <1>3
         <2>3. RowOf(c, y, v) /\ c \in net'
               BY <1>3 DEF RowOf
         <2>4. Behind(y) => Behind(y)'
               BY <1>2 DEF Behind, Prefix
         <2>5. /\ (j + 1) + Len(rows'[y][v]) <= Len(log'[y])
               /\ \A i \in 1..Len(rows'[y][v]) : rows'[y][v][i] = log'[y][(j + 1) + i]
               /\ j + 1 <= Len(log'[x]) + 1
               /\ (j + 1) + Len(rows'[y][v]) = Len(log'[y]) \/ Behind(y)'
               BY <1>10, <2>1, <2>4
         <2>6. \A d \in net' : RowOf(d, y, v) =>
                 d.kind = "DB" /\ j + 1 >= 1 /\ d.record = log'[y][j + 1]
               BY <1>3, <1>10, <2>1, <2>2
         <2> QED BY <1>1, <2>3, <2>5, <2>6 DEF SyncAt, RowOf
  <1>13. NoStatement' /\ OneIsBehind'
         BY <1>2 DEF Exchange, NoStatement, OneIsBehind, Behind, Prefix
  <1>14. Present'
         BY <1>2, <1>3, <1>7, <1>11 DEF Exchange, Present
  <1>15. RowsAnswer'
         <2>1. ASSUME NEW s \in Server, NEW u \in Burster,
                      rows'[s][u] # <<>> \/ \E d \in net' : RowOf(d, s, u)
               PROVE  \E n \in net' : Asking(n, Peer(s), u)
               <3>1. CASE s = y /\ u = v
                     BY <1>3, <1>4, <3>1 DEF x
               <3>2. CASE ~(s = y /\ u = v)
                     <4>1. ~RowOf(c, s, u)
                           BY <1>3, <3>2, Threads DEF RowOf
                     <4>2. rows[s][u] # <<>> \/ \E d \in net : RowOf(d, s, u)
                           BY <1>3, <1>11, <2>1, <3>2, <4>1
                     <4> QED BY <1>3, <4>2 DEF Exchange, RowsAnswer
               <3> QED BY <3>1, <3>2
         <2>2. \A d \in net' : d.kind = "DB" => \E u \in Burster : d.thread = SyncFor[u]
               BY <1>3 DEF Exchange, RowsAnswer
         <2> QED BY <2>1, <2>2 DEF RowsAnswer, Asking, RowOf
  <1>16. Versions'
         <2>1. ASSUME NEW n \in net', n.kind = "VERSION"
               PROVE  /\ ~n.taken => NewestOf(n.from, n.record)'
                      /\ n.taken => \E i \in 0..Len(log'[Peer(n.from)]) : SyncAt(n.from, n.thread, i)'
               <3> DEFINE w == n.from
                          u == n.thread
               <3>1. n \in net /\ w \in Server /\ u \in Burster
                     BY <1>3, <2>1 DEF Inv, TypeOK, Call
               <3>2. ~n.taken => NewestOf(n.from, n.record)'
                     BY <1>2, <2>1, <3>1 DEF Exchange, Versions, NewestOf
               <3>3. ASSUME n.taken
                     PROVE  \E i \in 0..Len(log'[Peer(w)]) : SyncAt(w, u, i)'
                     <4>1. PICK i \in 0..Len(log[Peer(w)]) : SyncAt(w, u, i)
                           BY <2>1, <3>1, <3>3 DEF Exchange, Versions
                     <4> HIDE DEF w, u
                     <4>2. CASE w = x /\ u = v
                           BY <1>1, <1>2, <1>10, <1>12, <4>2
                     <4>3. CASE ~(w = x /\ u = v)
                           <5>1. Peer(w) = y => w = x
                                 BY <3>1, Peers DEF x
                           <5>2. rows'[Peer(w)][u] = rows[Peer(w)][u]
                                 BY <1>11, <3>1, <4>3, <5>1, Peers
                           <5>3. ~RowOf(c, Peer(w), u)
                                 BY <1>3, <3>1, <4>3, <5>1, Threads DEF RowOf
                           <5>4. /\ \A d \in net' : RowOf(d, Peer(w), u) => \E k \in net : Same(d, k)
                                 /\ \A d \in net : RowOf(d, Peer(w), u) => \E k \in net' : Same(k, d)
                                 BY <1>3, <5>3 DEF Same, SameCall
                           <5>5. SyncAt(w, u, i)'
                                 BY <1>2, <3>1, <4>1, <5>2, <5>4, SyncAtKept
                           <5> QED BY <1>2, <4>1, <5>5
                     <4> QED BY <4>2, <4>3
               <3> QED BY <3>2, <3>3
         <2> QED BY <2>1 DEF Versions
  <1>17. \A s \in Server : named'[s] => Awaits(s)'
         <2>1. \A n \in net : n.kind = "VERSION" => \E k \in net' : Same(k, n)
               BY <1>3 DEF Same, SameCall
         <2> QED BY <1>2, <2>1, Peers, AwaitsKept
  <1> QED BY <1>13, <1>14, <1>15, <1>16, <1>17 DEF Exchange

\* The answer ends, with no row to send or under way: who has answered is behind.
LEMMA AnswerEnds ==
  ASSUME Inv, Calls, Exchange, NEW y \in Server, NEW v \in Burster,
         rows[y][v] = <<>>, ~Waits(y, SyncFor[v]),
         NEW m \in net, m.from # y, m.thread = v, m.kind = "VERSION", m.taken, Return(m),
         UNCHANGED <<rows, link, tables, statements, burst>>
  PROVE  Exchange'
  <1> DEFINE x == Peer(y)
  <1>1. /\ x \in Server /\ Peer(x) = y /\ m.from = x
        /\ log[x] \in Seq(Record) /\ log[y] \in Seq(Record)
        BY Peers DEF Inv, TypeOK, Call
  <1>2. UNCHANGED <<stage, log, rows, burst, up, entries, named>>
        BY DEF tables, statements, link
  <1>3. \A d \in net : ~RowOf(d, y, v)
        BY DEF Waits, RowOf
  <1>4. Behind(y)
        <2>1. PICK j \in 0..Len(log[y]) : SyncAt(x, v, j)
              BY <1>1 DEF Exchange, Versions
        <2>2. j <= Len(log[x]) /\ (j + Len(rows[y][v]) = Len(log[y]) \/ Behind(y))
              BY <1>1, <1>3, <2>1 DEF SyncAt
        <2>3. Len(rows[y][v]) = 0
              OBVIOUS
        <2>4. CASE j = Len(log[y])
              BY <1>1, <2>2, <2>4, ShorterIsBehind DEF Inv, Exchange
        <2>5. Len(log[y]) \in Nat
              BY <1>1
        <2> QED BY <2>2, <2>3, <2>4, <2>5
  <1>5. net' \subseteq net /\ \A n \in net : n # m /\ n.kind \in {"VERSION", "DB"} => n \in net'
        BY ReturnKeeps
  <1>6. \A n \in net : n.from = x /\ n.thread = v => n = m
        BY <1>1 DEF Calls, OneCallEach
  <1> HIDE DEF x
  <1>7. NoStatement' /\ OneIsBehind'
        BY <1>2 DEF Exchange, NoStatement, OneIsBehind, Behind, Prefix
  <1>8. Present'
        BY <1>2, <1>5 DEF Exchange, Present
  <1>9. RowsAnswer'
        <2>1. ASSUME NEW s \in Server, NEW u \in Burster,
                     rows'[s][u] # <<>> \/ \E d \in net' : RowOf(d, s, u)
              PROVE  \E n \in net' : Asking(n, Peer(s), u)
              <3>1. ~(s = y /\ u = v)
                    BY <1>2, <1>3, <1>5, <2>1
              <3>2. PICK n \in net : Asking(n, Peer(s), u)
                    BY <1>2, <1>5, <2>1 DEF Exchange, RowsAnswer
              <3>3. n # m
                    BY <1>1, <3>1, <3>2, Peers DEF Asking, x
              <3> QED BY <1>5, <3>2, <3>3 DEF Asking
        <2>2. \A d \in net' : d.kind = "DB" => \E u \in Burster : d.thread = SyncFor[u]
              BY <1>5 DEF Exchange, RowsAnswer
        <2> QED BY <2>1, <2>2 DEF RowsAnswer, Asking, RowOf
  <1>10. Versions'
         <2>1. ASSUME NEW n \in net', n.kind = "VERSION"
               PROVE  /\ ~n.taken => NewestOf(n.from, n.record)'
                      /\ n.taken => \E i \in 0..Len(log'[Peer(n.from)]) : SyncAt(n.from, n.thread, i)'
               <3> DEFINE w == n.from
                          u == n.thread
               <3>1. n \in net /\ w \in Server /\ u \in Burster
                     BY <1>5, <2>1 DEF Inv, TypeOK, Call
               <3>2. ~n.taken => NewestOf(n.from, n.record)'
                     BY <1>2, <2>1, <3>1 DEF Exchange, Versions, NewestOf
               <3>3. ASSUME n.taken
                     PROVE  \E i \in 0..Len(log'[Peer(w)]) : SyncAt(w, u, i)'
                     <4>1. PICK i \in 0..Len(log[Peer(w)]) : SyncAt(w, u, i)
                           BY <2>1, <3>1, <3>3 DEF Exchange, Versions
                     <4> HIDE DEF w, u
                     <4>2. \A d \in net : RowOf(d, Peer(w), u) => d.kind = "DB" /\ d # m
                           BY <4>1 DEF SyncAt
                     <4>3. /\ \A d \in net' : RowOf(d, Peer(w), u) => \E k \in net : Same(d, k)
                           /\ \A d \in net : RowOf(d, Peer(w), u) => \E k \in net' : Same(k, d)
                           BY <1>5, <4>2 DEF Same, SameCall
                     <4>4. SyncAt(w, u, i)'
                           BY <1>2, <3>1, <4>1, <4>3, SyncAtKept
                     <4> QED BY <1>2, <4>1, <4>4
               <3> QED BY <3>2, <3>3
         <2> QED BY <2>1 DEF Versions
  <1>11. ASSUME NEW s \in Server, named'[s] PROVE Awaits(s)'
         <2>1. CASE s = y
               BY <1>2, <1>4, <2>1 DEF Awaits, Behind, Prefix
         <2>2. CASE s # y
               <3>1. Awaits(s) /\ Peer(s) # m.from
                     BY <1>1, <1>2, <1>11, <2>2, Peers DEF Exchange
               <3> QED BY <1>2, <1>5, <3>1 DEF Awaits, Behind, Prefix
         <2> QED BY <2>1, <2>2
  <1> QED BY <1>7, <1>8, <1>9, <1>10, <1>11 DEF Exchange

LEMMA SyncStepExchange ==
  ASSUME Inv, Calls, Exchange, NEW p \in Server, NEW v \in Burster, SyncStep(p, v)
  PROVE  Exchange'
  BY RowSent, AnswerEnds DEF SyncStep

\* An answer stays where it is while a log grows, if the log that is sent does
\* not, or is behind the other afterwards.
LEMMA SyncAtGrows ==
  ASSUME TypeOK, log' \in [Server -> Seq(Record)],
         \A s \in Server : /\ Len(log[s]) <= Len(log'[s])
                           /\ \A k \in 1..Len(log[s]) : log'[s][k] = log[s][k],
         NEW x \in Server, NEW v \in Burster, NEW j \in 0..Len(log[Peer(x)]), SyncAt(x, v, j),
         \/ Behind(Peer(x))'
         \/ log'[Peer(x)] = log[Peer(x)] /\ (Behind(Peer(x)) => Behind(Peer(x))'),
         rows' = rows, net' \subseteq net,
         \A d \in net : RowOf(d, Peer(x), v) => d \in net'
  PROVE  SyncAt(x, v, j)'
  <1> DEFINE y == Peer(x)
             n == Len(rows[y][v])
  <1>1. /\ y \in Server /\ n \in Nat /\ Len(log[x]) \in Nat /\ Len(log[y]) \in Nat
        /\ Len(log'[x]) \in Nat /\ Len(log'[y]) \in Nat
        /\ Len(log[x]) <= Len(log'[x]) /\ Len(log[y]) <= Len(log'[y])
        <2>1. y \in Server
              BY Peers
        <2>2. rows[y][v] \in Seq(Record) /\ log[x] \in Seq(Record) /\ log[y] \in Seq(Record)
              /\ log'[x] \in Seq(Record) /\ log'[y] \in Seq(Record)
              BY <2>1 DEF TypeOK
        <2> QED BY <2>1, <2>2
  <1>2. /\ j + n <= Len(log[y])
        /\ \A i \in 1..n : rows[y][v][i] = log[y][j + i]
        /\ j <= Len(log[x]) + 1
        /\ \A d \in net : RowOf(d, y, v) => d.kind = "DB" /\ j >= 1 /\ d.record = log[y][j]
        /\ (\A d \in net : ~RowOf(d, y, v)) => j <= Len(log[x])
        /\ j + n = Len(log[y]) \/ Behind(y)
        BY DEF SyncAt
  <1>3. \A k \in 1..Len(log[y]) : log'[y][k] = log[y][k]
        BY <1>1
  <1> HIDE DEF y
  <1>4. \A i \in 1..n : rows[y][v][i] = log'[y][j + i]
        <2>1. \A i \in 1..n : j + i \in 1..Len(log[y])
              BY <1>1, <1>2 DEF y
        <2> QED BY <1>2, <1>3, <2>1
  <1>5. \A d \in net' : RowOf(d, y, v) => d.kind = "DB" /\ j >= 1 /\ d.record = log'[y][j]
        <2>1. j >= 1 => j \in 1..Len(log[y])
              BY <1>1, <1>2 DEF y
        <2> QED BY <1>2, <1>3, <2>1
  <1>6. (\A d \in net' : ~RowOf(d, y, v)) => j <= Len(log'[x])
        <2>1. (\A d \in net' : ~RowOf(d, y, v)) => j <= Len(log[x])
              BY <1>2 DEF y
        <2> QED BY <1>1, <2>1 DEF y
  <1>7. j + n = Len(log'[y]) \/ Behind(y)'
        BY <1>2 DEF y
  <1>8. j + n <= Len(log'[y]) /\ j <= Len(log'[x]) + 1
        BY <1>1, <1>2, SMTT(30) DEF y
  <1> QED BY <1>4, <1>5, <1>6, <1>7, <1>8 DEF SyncAt, RowOf, y

\* A row is stored: the log that receives it ends at its place in the log it
\* comes from, or had it there before.
LEMMA RowStored ==
  ASSUME Inv, OneIsBehind, NEW y \in Server, NEW j \in 1..Len(log[y]),
         j <= Len(log[Peer(y)]) + 1, AlmacenaDB(Peer(y), log[y][j])
  PROVE  /\ log' \in [Server -> Seq(Record)]
         /\ log'[y] = log[y]
         /\ j <= Len(log'[Peer(y)])
         /\ \A s \in Server : /\ Len(log[s]) <= Len(log'[s])
                              /\ \A k \in 1..Len(log[s]) : log'[s][k] = log[s][k]
         /\ log' = log \/ Behind(Peer(y))'
         /\ Behind(y) => Behind(y)'
  <1> DEFINE x == Peer(y)
             r == log[y][j]
  <1>1. /\ x \in Server /\ x # y /\ Peer(x) = y /\ log \in [Server -> Seq(Record)]
        /\ log[x] \in Seq(Record) /\ log[y] \in Seq(Record) /\ r \in Record
        /\ \A s \in Server : s # x => s = y
        /\ \A s \in Server : DOMAIN log[s] = 1..Len(log[s]) /\ Len(log[s]) \in Nat
        BY Peers, SMTT(30) DEF Inv, TypeOK
  <1>2. CASE r \in Range(log[x])
        <2>1. log' = log
              BY <1>2 DEF AlmacenaDB
        <2>2. PICK i \in 1..Len(log[x]) : log[x][i] = r
              BY <1>1, <1>2 DEF Range
        <2>3. j = i
              BY <1>1, <2>2, SamePlace DEF Inv
        <2>4. j <= Len(log'[x])
              BY <1>1, <2>1, <2>2, <2>3
        <2> QED BY <1>1, <2>1, <2>4 DEF Behind, Prefix
  <1>3. CASE r \notin Range(log[x])
        <2> DEFINE new == Append(log[x], r)
        <2>1. log' = [log EXCEPT ![x] = new]
              BY <1>3 DEF AlmacenaDB
        <2>2. \A k \in 1..Len(log[x]) : log[x][k] # r
              BY <1>1, <1>3 DEF Range
        <2>3. /\ new \in Seq(Record) /\ Len(new) = Len(log[x]) + 1
              /\ \A k \in 1..Len(log[x]) : new[k] = log[x][k]
              /\ new[Len(log[x]) + 1] = r
              /\ DOMAIN new = 1..(Len(log[x]) + 1)
              BY <1>1
        <2> HIDE DEF new
        <2>4. ~(j <= Len(log[x]))
              <3> SUFFICES ASSUME j <= Len(log[x]) PROVE FALSE
                  OBVIOUS
              <3>1. j \in 1..Len(log[x]) /\ j \in DOMAIN log[x] /\ j \in DOMAIN log[y]
                    BY <1>1
              <3>2. log[x][j] = r
                    BY <1>1, <3>1, OneOfTwo DEF Behind, Prefix
              <3> QED BY <2>2, <3>1, <3>2
        <2>5. j = Len(log[x]) + 1
              BY <1>1, <2>4
        <2>6. Behind(x)
              <3>1. ~Behind(y)
                    BY <1>1, <2>5 DEF Behind, Prefix
              <3> QED BY <3>1, OneOfTwo
        <2>7. log'[x] = new /\ log'[y] = log[y] /\ log' \in [Server -> Seq(Record)]
              BY <1>1, <2>1, <2>3
        <2>8. Behind(x)'
              <3>1. \A k \in 1..Len(log[x]) : log[x][k] = log[y][k]
                    BY <1>1, <2>6 DEF Behind, Prefix
              <3>2. \A k \in DOMAIN new : new[k] = log[y][k]
                    BY <1>1, <2>3, <2>5, <3>1
              <3>3. Len(new) <= Len(log[y])
                    BY <1>1, <2>3, <2>5
              <3> QED BY <1>1, <2>7, <3>2, <3>3 DEF Behind, Prefix
        <2>9. \A s \in Server : /\ Len(log[s]) <= Len(log'[s])
                                /\ \A k \in 1..Len(log[s]) : log'[s][k] = log[s][k]
              <3>1. /\ Len(log[x]) <= Len(log'[x])
                    /\ \A k \in 1..Len(log[x]) : log'[x][k] = log[x][k]
                    BY <1>1, <2>3, <2>7
              <3>2. /\ Len(log[y]) <= Len(log'[y])
                    /\ \A k \in 1..Len(log[y]) : log'[y][k] = log[y][k]
                    BY <1>1, <2>7
              <3> HIDE DEF x
              <3> QED BY <1>1, <3>1, <3>2
        <2>10. ~Behind(y)
              BY <1>1, <2>5 DEF Behind, Prefix
        <2>11. j <= Len(log'[x])
              BY <1>1, <2>3, <2>5, <2>7
        <2> QED BY <2>7, <2>8, <2>9, <2>10, <2>11
  <1> QED BY <1>2, <1>3

LEMMA StoreDBExchange ==
  ASSUME Inv, Calls, Exchange, NEW m \in net, StoreDB(m), clean'
  PROVE  Exchange'
  <1> DEFINE y == m.from
             x == Peer(y)
  <1>1. y \in Server /\ x \in Server /\ x # y /\ Peer(x) = y /\ m.kind = "DB"
        BY Peers DEF Inv, TypeOK, Call, StoreDB
  <1>2. PICK v \in Burster : RowOf(m, y, v)
        BY <1>1 DEF Exchange, RowsAnswer, RowOf
  <1>3. PICK ver \in net : Asking(ver, x, v)
        BY <1>1, <1>2 DEF Exchange, RowsAnswer
  <1>4. PICK j \in 0..Len(log[y]) : SyncAt(x, v, j)
        <2>1. PICK j \in 0..Len(log[Peer(ver.from)]) : SyncAt(ver.from, ver.thread, j)
              BY <1>3 DEF Exchange, Versions, Asking
        <2>2. ver.from = x /\ ver.thread = v
              BY <1>3 DEF Asking
        <2> QED BY <1>1, <2>1, <2>2
  <1>5. j \in 1..Len(log[y]) /\ m.record = log[y][j] /\ j <= Len(log[x]) + 1
        <2>1. j >= 1 /\ m.record = log[y][j] /\ j <= Len(log[x]) + 1
              BY <1>1, <1>2, <1>4 DEF SyncAt
        <2>2. log[y] \in Seq(Record)
              BY <1>1 DEF Inv, TypeOK
        <2>3. Len(log[y]) \in Nat
              BY <2>2
        <2> HIDE DEF x, y
        <2> QED BY <2>1, <2>3
  <1>6. AlmacenaDB(x, log[y][j])
        <2>1. AlmacenaDB(x, m.record)
              BY DEF StoreDB, Fault
        <2> QED BY <1>5, <2>1
  <1>7. UNCHANGED <<stage, up, entries, named, burst, rows>>
        BY DEF StoreDB, link, statements
  <1>8. net' \subseteq net /\ m \notin net' /\ \A n \in net : n # m /\ n.kind # "BURST" => n \in net'
        BY ReturnKeeps DEF StoreDB
  <1>9. \A n \in net : RowOf(n, y, v) => n = m
        BY <1>2 DEF Calls, OneCallEach, RowOf
  <1> HIDE DEF x, y
  <1>10. /\ log' \in [Server -> Seq(Record)]
         /\ log'[y] = log[y]
         /\ j <= Len(log'[x])
         /\ \A s \in Server : /\ Len(log[s]) <= Len(log'[s])
                              /\ \A k \in 1..Len(log[s]) : log'[s][k] = log[s][k]
         /\ log' = log \/ Behind(x)'
         /\ Behind(y) => Behind(y)'
         BY <1>1, <1>5, <1>6, RowStored DEF Exchange, x
  <1>11. NoStatement'
         BY <1>7 DEF Exchange, NoStatement
  <1>12. \A s \in Server : Behind(s) => Behind(s)'
         <2>1. Behind(x) => Behind(x)'
               BY <1>10 DEF Behind, Prefix
         <2> QED BY <1>1, <1>10, <2>1, Peers
  <1>13. OneIsBehind'
         BY <1>12 DEF Exchange, OneIsBehind, Server
  <1>14. Present'
         BY <1>7, <1>8 DEF Exchange, Present
  <1>15. RowsAnswer'
         <2>1. ASSUME NEW s \in Server, NEW u \in Burster,
                      rows'[s][u] # <<>> \/ \E d \in net' : RowOf(d, s, u)
               PROVE  \E n \in net' : Asking(n, Peer(s), u)
               <3>1. PICK n \in net : Asking(n, Peer(s), u)
                     BY <1>7, <1>8, <2>1 DEF Exchange, RowsAnswer
               <3> QED BY <1>1, <1>8, <3>1 DEF Asking
         <2>2. \A d \in net' : d.kind = "DB" => \E u \in Burster : d.thread = SyncFor[u]
               BY <1>8 DEF Exchange, RowsAnswer
         <2> QED BY <2>1, <2>2 DEF RowsAnswer, Asking, RowOf
  <1>16. SyncAt(x, v, j)'
         <2>1. \A d \in net' : ~RowOf(d, y, v)
               BY <1>8, <1>9
         <2>2. Peer(x) = y /\ rows' = rows /\ log'[y] = log[y]
               BY <1>1, <1>7, <1>10
         <2>3. /\ j + Len(rows[y][v]) <= Len(log[y])
               /\ \A i \in 1..Len(rows[y][v]) : rows[y][v][i] = log[y][j + i]
               /\ j + Len(rows[y][v]) = Len(log[y]) \/ Behind(y)
               BY <1>1, <1>4 DEF SyncAt
         <2>4. j <= Len(log'[x]) + 1
               <3>1. log'[x] \in Seq(Record)
                     BY <1>1, <1>10
               <3>2. Len(log'[x]) \in Nat
                     BY <3>1
               <3> QED BY <1>10, <3>2
         <2>5. j + Len(rows'[y][v]) = Len(log'[y]) \/ Behind(y)'
               BY <1>10, <2>2, <2>3
         <2>6. /\ j + Len(rows'[y][v]) <= Len(log'[y])
               /\ \A i \in 1..Len(rows'[y][v]) : rows'[y][v][i] = log'[y][j + i]
               BY <2>2, <2>3
         <2> QED BY <1>1, <1>10, <2>1, <2>4, <2>5, <2>6 DEF SyncAt, RowOf
  <1>17. Versions'
         <2>1. ASSUME NEW n \in net', n.kind = "VERSION"
               PROVE  /\ ~n.taken => NewestOf(n.from, n.record)'
                      /\ n.taken => \E i \in 0..Len(log'[Peer(n.from)]) : SyncAt(n.from, n.thread, i)'
               <3> DEFINE w == n.from
                          u == n.thread
               <3>1. n \in net /\ w \in Server /\ Peer(w) \in Server /\ u \in Burster
                     BY <1>8, <2>1, Peers DEF Inv, TypeOK, Call
               <3>2. \A s \in Server : /\ Len(log[s]) \in Nat /\ Len(log'[s]) \in Nat
                                       /\ Len(log[s]) <= Len(log'[s])
                     <4>1. \A s \in Server : log[s] \in Seq(Record) /\ log'[s] \in Seq(Record)
                           BY <1>10 DEF Inv, TypeOK
                     <4> QED BY <1>10, <4>1
               <3>3. ASSUME ~n.taken PROVE NewestOf(w, n.record)'
                     <4>1. NewestOf(w, n.record)
                           BY <2>1, <3>1, <3>3 DEF Exchange, Versions
                     <4>2. ASSUME NEW k \in 1..Len(log[w]), n.record = log[w][k]
                           PROVE  k \in 1..Len(log'[w]) /\ n.record = log'[w][k]
                           <5> HIDE DEF w
                           <5> QED BY <1>10, <3>1, <3>2, <4>2, SMTT(30)
                     <4> HIDE DEF w
                     <4> QED BY <4>1, <4>2 DEF NewestOf
               <3>4. ASSUME n.taken
                     PROVE  \E i \in 0..Len(log'[Peer(w)]) : SyncAt(w, u, i)'
                     <4>1. PICK i \in 0..Len(log[Peer(w)]) : SyncAt(w, u, i)
                           BY <2>1, <3>1, <3>4 DEF Exchange, Versions
                     <4> HIDE DEF w, u
                     <4>2. CASE w = x /\ u = v
                           <5>1. j \in 0..Len(log'[Peer(w)])
                                 BY <1>1, <1>5, <1>10, <4>2
                           <5> QED BY <1>16, <4>2, <5>1
                     <4>3. CASE ~(w = x /\ u = v)
                           <5>1. ~RowOf(m, Peer(w), u)
                                 <6>1. Peer(w) = y => w = x
                                       BY <3>1, Peers DEF x
                                 <6> QED BY <1>2, <3>1, <4>3, <6>1, Threads DEF RowOf
                           <5>2. \A d \in net : RowOf(d, Peer(w), u) => d \in net'
                                 <6>1. \A d \in net : RowOf(d, Peer(w), u) => d.kind = "DB"
                                       BY <4>1 DEF SyncAt
                                 <6> QED BY <1>8, <5>1, <6>1
                           <5>3. \/ Behind(Peer(w))'
                                 \/ /\ log'[Peer(w)] = log[Peer(w)]
                                    /\ Behind(Peer(w)) => Behind(Peer(w))'
                                 <6>1. Peer(w) = x \/ Peer(w) = y
                                       BY <1>1, <3>1, Peers
                                 <6>2. CASE Peer(w) = y
                                       BY <1>10, <6>2
                                 <6>3. CASE Peer(w) = x
                                       BY <1>10, <1>12, <3>1, <6>3
                                 <6> QED BY <6>1, <6>2, <6>3
                           <5>4. SyncAt(w, u, i)'
                                 BY <1>7, <1>8, <1>10, <3>1, <4>1, <5>2, <5>3, SyncAtGrows DEF Inv
                           <5>5. i \in 0..Len(log'[Peer(w)])
                                 BY <3>1, <3>2, <4>1
                           <5> QED BY <5>4, <5>5
                     <4> QED BY <4>2, <4>3
               <3> QED BY <3>3, <3>4
         <2> QED BY <2>1 DEF Versions
  <1>18. ASSUME NEW s \in Server, named'[s] PROVE Awaits(s)'
         <2>1. Awaits(s)
               BY <1>7, <1>18 DEF Exchange
         <2>2. \A n \in net : n.kind = "VERSION" => n \in net'
               BY <1>1, <1>8
         <2> QED BY <1>7, <1>12, <2>1, <2>2 DEF Awaits
  <1> QED BY <1>11, <1>13, <1>14, <1>15, <1>17, <1>18 DEF Exchange

-----------------------------------------------------------------------------
(* The theorem. *)

LEMMA ExchangeStep == ASSUME Inv, ExchangeInv, [Next]_vars PROVE ExchangeInv'
  <1>1. Calls'
        BY CallsStep DEF ExchangeInv
  <1> SUFFICES ASSUME clean' PROVE Exchange'
      BY <1>1 DEF ExchangeInv
  <1>2. Calls
        BY DEF ExchangeInv
  <1>3. CASE UNCHANGED vars
        <2>1. clean /\ Exchange
              BY <1>3 DEF vars, ExchangeInv
        <2> QED BY <1>3, <2>1
                DEF vars, Exchange, NoStatement, OneIsBehind, Behind, Prefix, Present, RowsAnswer,
                    Asking, RowOf, Versions, NewestOf, SyncAt, Awaits
  <1>4. ASSUME NEW s \in Server, Connect(s) PROVE Exchange'
        <2>1. CASE Quiet
              BY <1>4, <2>1, ConnectBegins
        <2>2. CASE ~Quiet
              <3>1. Exchange
                    BY <1>4, <2>2 DEF Connect, ExchangeInv
              <3> QED BY <1>4, <3>1, ConnectGoesOn
        <2> QED BY <2>1, <2>2
  <1>5. ASSUME NEW s \in Server, Squit(s) \/ Rehash(s) \/ Crash(s) \/ \E r \in Record : Write(s, r)
        PROVE  FALSE
        BY <1>5 DEF Squit, Rehash, Crash, Write, Fault
  <1>6. ASSUME NEW m \in net, Lose(m) PROVE FALSE
        BY <1>6 DEF Lose, Fault
  <1>7. ASSUME NEW s \in Server, Restart(s) \/ \E v \in Burster : BurstStep(s, v) \/ SyncStep(s, v)
        PROVE  Exchange'
        <2>1. Exchange
              BY <1>7 DEF Restart, BurstStep, SyncStep, ExchangeInv
        <2> QED BY <1>2, <1>7, <2>1, RestartExchange, BurstStepExchange, SyncStepExchange
  <1>8. ASSUME NEW r \in Record, Store(r) \/ SendRecord(r) PROVE FALSE
        <2>1. clean
              BY <1>8 DEF Store, SendRecord, Fault
        <2> QED BY <1>8, <2>1 DEF ExchangeInv, Exchange, NoStatement, Store, SendRecord
  <1>9. ASSUME NEW m \in net,
               \/ TakeBurst(m) \/ TakeServer(m) \/ TakeVersion(m) \/ TakeDB(m) \/ StoreDB(m)
               \/ Refused(m)
        PROVE  Exchange'
        <2>1. Exchange
              BY <1>9 DEF TakeBurst, TakeServer, TakeVersion, TakeDB, StoreDB, Refused, Fault, ExchangeInv
        <2> QED BY <1>2, <1>9, <2>1, TakeBurstExchange, TakeServerExchange, TakeVersionExchange,
                   TakeDBExchange, StoreDBExchange, RefusedExchange
  <1> QED BY <1>3, <1>4, <1>5, <1>6, <1>7, <1>8, <1>9 DEF Next

\* When nothing is under way, each connected server is behind the other.
LEMMA ExchangeAgrees == ASSUME Inv, ExchangeInv PROVE CleanExchangeAgrees
  <1> SUFFICES ASSUME clean, Quiet, \A s \in Server : up[s] /\ named[s]
               PROVE  Range(log[Hub]) = Range(log[Leaf])
      BY DEF CleanExchangeAgrees, Synced
  <1>1. \A s \in Server : Behind(s)
        <2> SUFFICES ASSUME NEW s \in Server PROVE Behind(s)
            OBVIOUS
        <2>1. Awaits(s) /\ Peer(s) \in Server
              BY Peers DEF ExchangeInv, Exchange
        <2> QED BY <2>1 DEF Awaits, Quiet
  <1>2. Hub \in Server /\ Leaf \in Server /\ Peer(Hub) = Leaf /\ Peer(Leaf) = Hub
        BY ServerAssumption DEF Server, Peer
  <1>3. log[Hub] \in Seq(Record) /\ log[Leaf] \in Seq(Record)
        BY <1>2 DEF Inv, TypeOK
  <1>4. Prefix(log[Hub], log[Leaf]) /\ Prefix(log[Leaf], log[Hub])
        BY <1>1, <1>2 DEF Behind
  <1>5. Len(log[Hub]) = Len(log[Leaf]) /\ DOMAIN log[Hub] = DOMAIN log[Leaf]
        BY <1>3, <1>4 DEF Prefix
  <1> QED BY <1>4, <1>5 DEF Prefix, Range

\* After an exchange that nothing disturbed, between logs one of which was a
\* prefix of the other, the servers hold the same records (ParserServer.cpp:55).
THEOREM CleanExchangesAgree == Spec => []CleanExchangeAgrees
  <1>1. Init => ExchangeInv
        BY CallsInit DEF Init, ExchangeInv
  <1>2. Inv /\ Inv' /\ ExchangeInv /\ [Next]_vars => ExchangeInv'
        BY ExchangeStep
  <1>3. Inv /\ ExchangeInv => CleanExchangeAgrees
        BY ExchangeAgrees
  <1> QED BY <1>1, <1>2, <1>3, Invariance, PTL DEF Spec

=============================================================================
