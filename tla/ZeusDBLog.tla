----------------------------- MODULE ZeusDBLog -----------------------------
(***************************************************************************)
(* The log of the services' databases on two servers, and the link between *)
(* them: the HUB and a leaf.  Every SQL statement of a service command is  *)
(* run, stored in the table LAST under a fresh ID and sent to the peer;    *)
(* when the servers connect each tells the other its newest ID (VERSION)   *)
(* and is sent what comes after it (Sync).  A message is a call: its       *)
(* sender waits until the peer has handled it.  Each statement has a       *)
(* thread of its own; a process may stop or die at any point, and LAST and *)
(* the tables survive it.                                                  *)
(***************************************************************************)
EXTENDS Integers, Sequences, Functions

CONSTANTS
    Hub, Leaf,     \* the two servers; the configuration of both names Hub as the HUB
    Record,        \* the statements, each with the ID GenerateID gives it
    NoRecord,      \* the ID "0" of an empty LAST
    MaxEntries,    \* bound: objects in Servers for one peer
    Connector,     \* bound: the servers whose operators use CONNECT
    MaxFaults      \* bound: crashes, lost calls, failed statements, splits, rehashes

Server == {Hub, Leaf}

ASSUME ServerAssumption == Hub # Leaf
ASSUME RecordAssumption == NoRecord \notin Record \cup Server
ASSUME BoundAssumption ==
    /\ MaxEntries \in Nat \ {0} /\ MaxFaults \in Nat
    /\ Connector \subseteq Server

VARIABLES
    up,        \* the process runs
    entries,   \* number of objects in Servers for the peer (CONNECT adds one each time)
    named,     \* one of them has a name: IsConected
    log,       \* LAST: the IDs in the order of rowid
    ran,       \* the statements that were run on the tables
    stage,     \* of a statement, at the server that wrote it: "new", "run", "stored", "over"
    writer,    \* that server
    left,      \* objects that Server::Send still has to send the statement to
    burst,     \* next message of the thread in sendBurst: of CONNECT, or of a BURST handler
    rows,      \* rows that Sync, answering the VERSION of a peer's thread, still has to send
    net,       \* the calls under way
    faults,    \* number of faults so far
    clean      \* history: since the last CONNECT no fault and no statement, and the
               \* log of one server was then a prefix of the other's

vars == <<up, entries, named, log, ran, stage, writer, left, burst, rows, net,
          faults, clean>>
link == <<up, entries, named>>
statements == <<stage, writer, left>>
tables == <<log, ran>>

Peer(s) == IF s = Hub THEN Leaf ELSE Hub

\* The threads that call: one in sendBurst for a CONNECT, one for a BURST, the
\* Sync for a VERSION of each, and that of a statement (the record itself).
Burster == {"connect", "answer"}
SyncFor == [v \in Burster |-> IF v = "connect" THEN "sync of connect" ELSE "sync of answer"]
Thread == Burster \cup Range(SyncFor) \cup Record

Call == [from : Server, thread : Thread, kind : {"BURST", "SERVER", "VERSION", "DB"},
         record : Record \cup {NoRecord}, taken : BOOLEAN]

\* A REHASH may have made an object before anything else happens.
Init ==
    /\ up = [s \in Server |-> TRUE]
    /\ entries \in [Server -> {0, 1}]
    /\ named = [s \in Server |-> FALSE]
    /\ log = [s \in Server |-> <<>>]
    /\ ran = [s \in Server |-> {}]
    /\ stage = [r \in Record |-> "new"]
    /\ writer = [r \in Record |-> Hub]
    /\ left = [r \in Record |-> 0]
    /\ burst = [s \in Server |-> [v \in Burster |-> "idle"]]
    /\ rows = [s \in Server |-> [v \in Burster |-> <<>>]]
    /\ net = {}
    /\ faults = 0
    /\ clean = FALSE

-----------------------------------------------------------------------------
(* LAST. *)

GetLastRecord(s) == IF log[s] = <<>> THEN NoRecord ELSE log[s][Len(log[s])]

\* Mutant: "0" is looked for in LAST as any other ID.
RowsAfterNoZero(rs, id) ==
    LET at == {i \in DOMAIN rs : rs[i] = id}
    IN  IF at = {} THEN <<>> ELSE SubSeq(rs, (CHOOSE i \in at : TRUE) + 1, Len(rs))

\* The rows with a rowid above that of id: all for "0"; none for an ID that is
\* not in LAST, since the text of the query is then no SQL.
RowsAfter(rs, id) ==
    IF id = NoRecord THEN rs
    ELSE LET at == {i \in DOMAIN rs : rs[i] = id}
         IN  IF at = {} THEN <<>> ELSE SubSeq(rs, (CHOOSE i \in at : TRUE) + 1, Len(rs))

\* The ID of LAST is UNIQUE: a second INSERT fails, and nobody looks.
AlmacenaDB(s, r) ==
    log' = IF r \in Range(log[s]) THEN log ELSE [log EXCEPT ![s] = Append(@, r)]

HUBExiste(s) == s = Hub \/ named[s]

-----------------------------------------------------------------------------
(* Calls: Server::send returns when the peer's handler has. *)

Waits(s, thread) == \E m \in net : m.from = s /\ m.thread = thread

Send(s, thread, kind, record) ==
    /\ ~Waits(s, thread)
    /\ net' = net \cup {[from |-> s, thread |-> thread, kind |-> kind,
                         record |-> record, taken |-> FALSE]}

\* on_message: a peer without an object in Servers is rejected.
Accepts(m) == up[Peer(m.from)] /\ entries[Peer(m.from)] > 0 /\ ~m.taken
Take(m) == net' = (net \ {m}) \cup {[m EXCEPT !.taken = TRUE]}

\* The last message of an answer is the end of the BURST it answers.
Answered(m) ==
    IF m.thread = "answer" /\ m.kind = "VERSION"
    THEN {b \in net : b.from # m.from /\ b.kind = "BURST" /\ b.taken}
    ELSE {}

Return(m) == net' = net \ ({m} \cup Answered(m))

\* A fault, counted; what it disturbs is no clean exchange.
Fault == faults < MaxFaults /\ faults' = faults + 1 /\ clean' = FALSE

-----------------------------------------------------------------------------
(* The exchange of a new link. *)

\* Nothing is under way.
Quiet ==
    /\ net = {}
    /\ \A s \in Server : \A v \in Burster : burst[s][v] = "idle" /\ rows[s][v] = <<>>
    /\ \A r \in Record : stage[r] \in {"new", "over"}

Prefix(rs, qs) == Len(rs) <= Len(qs) /\ \A i \in DOMAIN rs : rs[i] = qs[i]

\* CONNECT of an operator of s: a new object, whether or not there is one.
Connect(s) ==
    /\ s \in Connector /\ up[s] /\ ~named[s] /\ entries[s] < MaxEntries
    /\ burst[s]["connect"] = "idle" /\ ~Waits(s, "connect")
    /\ entries' = [entries EXCEPT ![s] = @ + 1]
    /\ burst' = [burst EXCEPT ![s]["connect"] = "burst"]
    /\ clean' = IF Quiet THEN Prefix(log[Hub], log[Leaf]) \/ Prefix(log[Leaf], log[Hub])
                ELSE clean
    /\ UNCHANGED <<up, named, tables, statements, rows, net, faults>>

\* sendBurst, after the BURST that only CONNECT sends.
BurstStep(s, v) ==
    /\ up[s]
    /\ \/ /\ burst[s][v] = "burst"
          /\ Send(s, v, "BURST", NoRecord)
          /\ burst' = [burst EXCEPT ![s][v] = "server"]
       \/ /\ burst[s][v] = "server"
          /\ Send(s, v, "SERVER", NoRecord)
          /\ burst' = [burst EXCEPT ![s][v] = "version"]
       \/ /\ burst[s][v] = "version"
          /\ Send(s, v, "VERSION", GetLastRecord(s))
          /\ burst' = [burst EXCEPT ![s][v] = "idle"]
    /\ UNCHANGED <<link, tables, statements, rows, faults, clean>>

\* BURST: the peer's burst goes back first.  A second BURST of the peer, which
\* only a crash or a REHASH can bring, is here answered after the first.
TakeBurst(m) ==
    LET p == Peer(m.from)
    IN  /\ m.kind = "BURST" /\ Accepts(m) /\ burst[p]["answer"] = "idle" /\ ~Waits(p, "answer")
        /\ Take(m)
        /\ burst' = [burst EXCEPT ![p]["answer"] = "server"]
        /\ UNCHANGED <<link, tables, statements, rows, faults, clean>>

\* SERVER: the object gets its name.
TakeServer(m) ==
    /\ m.kind = "SERVER" /\ Accepts(m)
    /\ Return(m)
    /\ named' = [named EXCEPT ![Peer(m.from)] = TRUE]
    /\ UNCHANGED <<up, entries, tables, statements, burst, rows, faults, clean>>

\* VERSION: another newest ID than one's own is answered with the rows after it.
TakeVersion(m) ==
    LET p == Peer(m.from)
        after == IF GetLastRecord(p) # m.record /\ HUBExiste(p)
                 THEN RowsAfter(log[p], m.record) ELSE <<>>
    IN  /\ m.kind = "VERSION" /\ Accepts(m) /\ rows[p][m.thread] = <<>>
        /\ IF after = <<>> THEN Return(m) ELSE Take(m)
        /\ rows' = [rows EXCEPT ![p][m.thread] = after]
        /\ UNCHANGED <<link, tables, statements, burst, faults, clean>>

\* Sync sends row by row, each when the one before was handled, then VERSION returns.
SyncStep(p, v) ==
    /\ up[p]
    /\ \/ /\ rows[p][v] # <<>>
          /\ Send(p, SyncFor[v], "DB", Head(rows[p][v]))
          /\ rows' = [rows EXCEPT ![p][v] = Tail(@)]
       \/ /\ rows[p][v] = <<>> /\ ~Waits(p, SyncFor[v])
          /\ \E m \in net : m.from # p /\ m.thread = v /\ m.kind = "VERSION" /\ m.taken /\ Return(m)
          /\ UNCHANGED rows
    /\ UNCHANGED <<link, tables, statements, burst, faults, clean>>

-----------------------------------------------------------------------------
(* A statement, where it is written and where it is received. *)

\* Mutant: the answer of the statement is not looked at.
WriteUnchecked(s, r) ==
    /\ up[s] /\ HUBExiste(s) /\ stage[r] = "new"
    /\ writer' = [writer EXCEPT ![r] = s]
    /\ stage' = [stage EXCEPT ![r] = "run"]
    /\ \/ ran' = [ran EXCEPT ![s] = @ \cup {r}] /\ clean' = FALSE /\ UNCHANGED faults
       \/ Fault /\ UNCHANGED ran
    /\ UNCHANGED <<link, log, left, burst, rows, net>>

\* A service command runs its statement, if the HUB is there; when that fails
\* the user is told and nothing else happens.
Write(s, r) ==
    /\ up[s] /\ HUBExiste(s) /\ stage[r] = "new"
    /\ writer' = [writer EXCEPT ![r] = s]
    /\ \/ /\ ran' = [ran EXCEPT ![s] = @ \cup {r}]
          /\ stage' = [stage EXCEPT ![r] = "run"]
          /\ clean' = FALSE /\ UNCHANGED faults
       \/ /\ Fault
          /\ stage' = [stage EXCEPT ![r] = "over"]
          /\ UNCHANGED ran
    /\ UNCHANGED <<link, log, left, burst, rows, net>>

\* Mutant: a statement is sent though there is nobody to send it to.
StoreForOne(r) ==
    LET s == writer[r]
    IN  /\ up[s] /\ stage[r] = "run"
        /\ stage' = [stage EXCEPT ![r] = "stored"]
        /\ left' = [left EXCEPT ![r] = entries[s]]
        /\ AlmacenaDB(s, r)
        /\ UNCHANGED <<link, ran, writer, burst, rows, net, faults, clean>>

\* AlmacenaDB; that it failed is noticed by nobody.
Store(r) ==
    LET s == writer[r]
    IN  /\ up[s] /\ stage[r] = "run"
        /\ stage' = [stage EXCEPT ![r] = IF entries[s] = 0 THEN "over" ELSE "stored"]
        /\ left' = [left EXCEPT ![r] = entries[s]]
        /\ \/ AlmacenaDB(s, r) /\ UNCHANGED <<faults, clean>>
           \/ Fault /\ UNCHANGED log
        /\ UNCHANGED <<link, ran, writer, burst, rows, net>>

\* Server::Send: once for each object whose address is that of a connected server.
SendRecord(r) ==
    LET s == writer[r]
    IN  /\ up[s] /\ stage[r] = "stored" /\ ~Waits(s, r)
        /\ left' = [left EXCEPT ![r] = @ - 1]
        /\ stage' = [stage EXCEPT ![r] = IF left[r] = 1 THEN "over" ELSE @]
        /\ IF named[s] THEN Send(s, r, "DB", r) ELSE UNCHANGED net
        /\ UNCHANGED <<link, tables, writer, burst, rows, faults, clean>>

\* DB: the statement is run, whatever it answers ...
TakeDB(m) ==
    /\ m.kind = "DB" /\ Accepts(m)
    /\ Take(m)
    /\ \/ /\ ran' = [ran EXCEPT ![Peer(m.from)] = @ \cup {m.record}]
          /\ UNCHANGED <<faults, clean>>
       \/ Fault /\ UNCHANGED ran
    /\ UNCHANGED <<link, log, statements, burst, rows>>

\* ... and stored.
StoreDB(m) ==
    /\ m.kind = "DB" /\ m.taken /\ up[Peer(m.from)]
    /\ Return(m)
    /\ \/ AlmacenaDB(Peer(m.from), m.record) /\ UNCHANGED <<faults, clean>>
       \/ Fault /\ UNCHANGED log
    /\ UNCHANGED <<link, ran, statements, burst, rows>>

-----------------------------------------------------------------------------
(* What goes wrong. *)

\* The peer is down, or has no object for the sender: the call ends unheard.
Refused(m) ==
    /\ ~m.taken
    /\ ~up[Peer(m.from)] \/ entries[Peer(m.from)] = 0
    /\ Return(m)
    /\ UNCHANGED <<link, tables, statements, burst, rows, faults, clean>>

\* The call is lost on the way; on_sender_error may take the name of the object.
Lose(m) ==
    /\ ~m.taken /\ Fault
    /\ Return(m)
    /\ \E cut \in BOOLEAN : named' = [named EXCEPT ![m.from] = @ /\ ~cut]
    /\ UNCHANGED <<up, entries, tables, statements, burst, rows>>

\* SQUIT of an operator, or of CheckDead: the object loses its name and stays
\* (SQUIT erases the null pointer it has just assigned).
Squit(s) ==
    /\ up[s] /\ named[s] /\ Fault
    /\ named' = [named EXCEPT ![s] = FALSE]
    /\ UNCHANGED <<up, entries, tables, statements, burst, rows, net>>

\* REHASH: new objects, one for each link.
Rehash(s) ==
    /\ up[s] /\ Fault
    /\ named' = [named EXCEPT ![s] = FALSE]
    /\ entries' = [entries EXCEPT ![s] = 1]
    /\ UNCHANGED <<up, tables, statements, burst, rows, net>>

\* The process ends, with doexit (the peer, when connected, is sent SQUIT) or
\* without; its threads are gone, what the peer handles for them goes on.
Crash(s) ==
    /\ up[s] /\ Fault
    /\ up' = [up EXCEPT ![s] = FALSE]
    /\ entries' = [entries EXCEPT ![s] = 0]
    /\ \E told \in BOOLEAN :
         named' = [t \in Server |-> t # s /\ named[t]
                                      /\ ~(told /\ named[s] /\ up[t] /\ entries[t] > 0)]
    /\ stage' = [r \in Record |-> IF writer[r] = s /\ stage[r] # "new" THEN "over" ELSE stage[r]]
    /\ burst' = [burst EXCEPT ![s] = [v \in Burster |-> "idle"]]
    /\ rows' = [rows EXCEPT ![s] = [v \in Burster |-> <<>>]]
    /\ net' = {m \in net : m.from = s /\ m.taken}
    /\ UNCHANGED <<tables, writer, left>>

Restart(s) ==
    /\ ~up[s]
    /\ up' = [up EXCEPT ![s] = TRUE]
    /\ UNCHANGED <<entries, named, tables, statements, burst, rows, net, faults, clean>>

-----------------------------------------------------------------------------

Next ==
    \/ \E s \in Server :
         \/ Connect(s) \/ Squit(s) \/ Rehash(s) \/ Crash(s) \/ Restart(s)
         \/ \E v \in Burster : BurstStep(s, v) \/ SyncStep(s, v)
         \/ \E r \in Record : Write(s, r)
    \/ \E r \in Record : Store(r) \/ SendRecord(r)
    \/ \E m \in net :
         \/ TakeBurst(m) \/ TakeServer(m) \/ TakeVersion(m) \/ TakeDB(m) \/ StoreDB(m)
         \/ Refused(m) \/ Lose(m)

Spec == Init /\ [][Next]_vars

-----------------------------------------------------------------------------
(* Properties. *)

\* The state is well formed; a call for a statement carries that statement, one
\* of a burst the message its thread has just sent.
TypeOK ==
    /\ up \in [Server -> BOOLEAN]
    /\ entries \in [Server -> Nat]
    /\ named \in [Server -> BOOLEAN]
    /\ log \in [Server -> Seq(Record)]
    /\ ran \in [Server -> SUBSET Record]
    /\ stage \in [Record -> {"new", "run", "stored", "over"}]
    /\ writer \in [Record -> Server]
    /\ left \in [Record -> Nat]
    /\ burst \in [Server -> [Burster -> {"idle", "burst", "server", "version"}]]
    /\ rows \in [Server -> [Burster -> Seq(Record)]]
    /\ net \subseteq Call
    /\ \A m \in net : /\ m.kind = "DB" => m.record \in Record
                      /\ m.kind = "VERSION" => m.thread \in Burster
    /\ faults \in Nat
    /\ clean \in BOOLEAN

\* Both servers take each other as connected and nothing is under way: the
\* logs hold the same records ("DataBases syncronized", ParserServer.cpp:55).
Synced ==
    (Quiet /\ \A s \in Server : up[s] /\ named[s]) => Range(log[Hub]) = Range(log[Leaf])

\* That is so after an exchange that met no fault and no statement, when the
\* log of one server was a prefix of the other's (Sync and VERSION).
CleanExchangeAgrees == clean => Synced

\* A statement has one author, who ran it before any log held it, and no log
\* loses one, whatever is lost, repeated, cut short or fails without notice: a
\* command whose statement failed (os.cpp:116, ns.cpp:165) stores and sends
\* nothing, though a DB is stored by its receiver without such a check
\* (ParserServer.cpp:65).
Replicated == INSTANCE ReplicatedLog WITH
    Nobody <- NoRecord,
    author <- [r \in Record |-> IF r \in ran[writer[r]] THEN writer[r] ELSE NoRecord],
    known <- [s \in Server |-> Range(log[s])]
ImplementsReplicatedLog == Replicated!Spec

=============================================================================
