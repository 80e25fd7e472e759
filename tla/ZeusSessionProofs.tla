-------------------------- MODULE ZeusSessionProofs --------------------------
(***************************************************************************)
(* Safety of ZeusSession for any threads and bounds: the shape of the      *)
(* state, sessions that are watched, and queues that only an overlap of    *)
(* threads strands.  What the first rests on is that a session that has    *)
(* not ended reads (Running), and that only a read, a write or a prior in  *)
(* progress keeps the object (Held); what the last rests on is what a      *)
(* thread that is alone at the queue has found there (Found).              *)
(***************************************************************************)
EXTENDS ZeusSession, TLAPS

\* The counts, by names for their bounds: most steps compare them with 0 at most.
LineCounts  == 0..MaxLines
QueueCounts == 0..MaxQueue

\* TypeOK in these words.
Shape ==
    /\ alive \in {"unborn", "yes", "freed"}
    /\ sock \in {"open", "closed"} /\ peer \in {"up", "down"}
    /\ lines \in LineCounts /\ queue \in QueueCounts
    /\ read \in BOOLEAN /\ writing \in Nat /\ prior \in BOOLEAN
    /\ timer \in {"none", "deadline", "ping"}
    /\ due \in {"waiting", "expired", "cancelled", "running"}
    /\ silent \in BOOLEAN /\ named \in BOOLEAN /\ quit \in BOOLEAN /\ inUsers \in BOOLEAN
    /\ at \in [Thread -> {"idle", "push", "push first", "do_write", "next"}]
    /\ overlap \in BOOLEAN

\* Nothing has happened to a connection that start() has not let in.
Unstarted ==
    alive = "unborn" =>
        /\ ~quit /\ ~inUsers /\ sock = "open"
        /\ timer = "none" /\ due = "waiting"

\* The object is there as long as a read, a write or the handler of one holds it.
Held == alive = "yes" <=> read \/ writing > 0 \/ prior \/ at[Own] = "next"

\* The other threads do not run handlers of the object.
OwnHandlers == \A t \in Sender : at[t] # "next"

\* A session that has not ended reads from an open socket, and its timer waits, or
\* its handler is about to run or running.
Running ==
    alive # "unborn" /\ ~quit =>
        read /\ sock = "open" /\ timer # "none" /\ due # "cancelled"

\* Without an overlap one thread at most is at the queue,
Alone == ~overlap => \A t, u \in Busy : t = u

\* ... and what it has found there, or left there, is still so.
Found ==
    ~overlap /\ ~quit => \A t \in Thread :
        /\ at[t] = "push" => queue > 0 /\ writing = 1
        /\ at[t] = "push first" => queue = 0 /\ writing = 0
        /\ at[t] = "do_write" => queue > 0 /\ writing = 0
        /\ at[t] = "next" => writing = 0

IInv ==
    /\ Shape /\ Unstarted /\ Held /\ OwnHandlers /\ Running
    /\ Alone /\ Found /\ OnlyOverlapStrands

\* What IInv says of the queue and of the threads at it,
Queueing == OwnHandlers /\ Alone /\ Found /\ OnlyOverlapStrands

\* ... and of everything else.
Living == Shape /\ Unstarted /\ Held /\ Running

LEMMA InitInv == Init => IInv
<1> SUFFICES ASSUME Init PROVE IInv
  OBVIOUS
<1>1. lines \in LineCounts /\ queue \in QueueCounts
  BY MaxLinesAssumption, MaxQueueAssumption DEF Init, LineCounts, QueueCounts
<1>2. Shape
  BY <1>1 DEF Init, Shape
<1>3. Unstarted /\ Held /\ Running
  BY DEF Init, Unstarted, Held, Running, Thread
<1>4. OwnHandlers /\ Alone /\ Found /\ OnlyOverlapStrands
  BY DEF Init, OwnHandlers, Alone, Found, OnlyOverlapStrands, Thread, Busy
<1> QED BY <1>2, <1>3, <1>4 DEF IInv

\* A step that is not at the queue, of whatever thread, changes nothing there.
LEMMA ElsewhereKeeps ==
    ASSUME IInv, UNCHANGED <<queue, writing, use>>, quit => quit'
    PROVE  Queueing'
BY DEF IInv, Queueing, OwnHandlers, Alone, Found, OnlyOverlapStrands, Busy, use

\* A write that fails ends the session.
LEMMA EndKeeps ==
    ASSUME IInv, UNCHANGED <<queue, use>>, quit'
    PROVE  Queueing'
BY DEF IInv, Queueing, OwnHandlers, Alone, Found, OnlyOverlapStrands, Busy, use

LEMMA QueueIsNumber ==
    ASSUME IInv
    PROVE  (queue = 0 /\ ~(queue > 0)) \/ (queue # 0 /\ queue > 0)
<1>1. queue \in 0..MaxQueue
  BY DEF IInv, Shape, QueueCounts
<1> QED BY <1>1, MaxQueueAssumption

\* A thread that comes to the queue finds out whether it is empty; if nobody else
\* is there, a message in it is being written.
LEMMA DeliverFacts ==
    ASSUME IInv, NEW t \in Thread, at[t] = "idle", Deliver(t), UNCHANGED <<queue, writing>>,
           quit => quit'
    PROVE  /\ Queueing'
           /\ at' \in [Thread -> {"idle", "push", "push first", "do_write", "next"}]
           /\ overlap' \in BOOLEAN
           /\ at'[Own] = "next" <=> at[Own] = "next"
<1> USE DEF IInv, Shape
<1>1. CASE sock # "open"
  BY <1>1, ElsewhereKeeps DEF Deliver, use
<1>2. CASE sock = "open"
  <2> DEFINE step == IF queue = 0 THEN "push first" ELSE "push"
  <2>1. at' = [at EXCEPT ![t] = step] /\ overlap' = (overlap \/ Busy # {})
    BY <1>2 DEF Deliver, Enters
  <2>2. at'[t] = step /\ \A u \in Thread : u # t => at'[u] = at[u]
    BY <2>1
  <2>3. OwnHandlers' /\ (at'[Own] = "next" <=> at[Own] = "next")
    BY <2>1, OwnAssumption DEF OwnHandlers, Thread
  <2>4. overlap' \in BOOLEAN /\ (~overlap' => ~overlap /\ Busy = {})
    BY <2>1
  <2>5. ~overlap' => Busy' = {t}
    BY <2>2, <2>4 DEF Busy
  <2>6. ~overlap' /\ ~quit' => writing = (IF queue > 0 THEN 1 ELSE 0)
    BY <2>4 DEF OnlyOverlapStrands
  <2>7. Found'
    <3> SUFFICES ASSUME ~overlap', ~quit', NEW u \in Thread
                 PROVE  /\ at'[u] = "push" => queue' > 0 /\ writing' = 1
                        /\ at'[u] = "push first" => queue' = 0 /\ writing' = 0
                        /\ at'[u] = "do_write" => queue' > 0 /\ writing' = 0
                        /\ at'[u] = "next" => writing' = 0
      BY DEF Found
    <3>1. CASE u # t
      BY <2>5, <3>1 DEF Busy
    <3>2. CASE u = t
      <4>1. CASE queue = 0 /\ ~(queue > 0)
        <5>1. at'[u] = "push first" /\ writing = 0
          BY <2>2, <2>6, <3>2, <4>1
        <5> QED BY <4>1, <5>1
      <4>2. CASE queue # 0 /\ queue > 0
        <5>1. at'[u] = "push" /\ writing = 1
          BY <2>2, <2>6, <3>2, <4>2
        <5> QED BY <4>2, <5>1
      <4> QED BY <4>1, <4>2, QueueIsNumber
    <3> QED BY <3>1, <3>2
  <2>8. Alone' /\ OnlyOverlapStrands'
    BY <2>5 DEF Alone, OnlyOverlapStrands
  <2> QED BY <2>1, <2>3, <2>4, <2>7, <2>8 DEF Queueing
<1> QED BY <1>1, <1>2

\* A line is read of an object that is there.
LEMMA NextLineFacts ==
    ASSUME IInv, NextLine
    PROVE  lines' \in LineCounts /\ read /\ alive = "yes" /\ at[Own] = "idle"
<1>1. lines' \in LineCounts
  <2>1. lines \in 0..MaxLines /\ lines > 0 /\ lines' = lines - 1
    BY DEF IInv, Shape, NextLine, LineCounts
  <2> QED BY <2>1, MaxLinesAssumption DEF LineCounts
<1>2. read /\ alive = "yes" /\ at[Own] = "idle"
  BY DEF IInv, Held, NextLine, Free
<1> QED BY <1>1, <1>2

\* A thread that is alone and leaves the queue leaves it idle for all.
LEMMA LeavesIdle ==
    ASSUME IInv, NEW t \in Thread, at[t] # "idle", at' = [at EXCEPT ![t] = "idle"]
    PROVE  /\ at' \in [Thread -> {"idle", "push", "push first", "do_write", "next"}]
           /\ OwnHandlers'
           /\ ~overlap => Busy = {t} /\ Busy' = {} /\ \A u \in Thread : at'[u] = "idle"
<1>1. ~overlap => \A u \in Thread : u # t => at[u] = "idle"
  BY DEF IInv, Alone, Busy
<1> QED BY <1>1 DEF IInv, Shape, OwnHandlers, Busy, Thread

\* The steps of deliver after the first.
LEMMA PushKeeps == ASSUME IInv, NEW t \in Thread, Push(t) PROVE IInv'
<1> USE DEF IInv
<1>0. queue \in QueueCounts /\ queue' \in QueueCounts /\ queue' > 0
  <2>1. queue \in 0..MaxQueue /\ queue' = IF queue < MaxQueue THEN queue + 1 ELSE queue
    BY DEF Push, Shape, QueueCounts
  <2> QED BY <2>1, MaxQueueAssumption DEF QueueCounts
<1>1. CASE at[t] = "push"
  <2>1. at' = [at EXCEPT ![t] = "idle"]
    BY <1>1 DEF Push, Returns
  <2>2. at' \in [Thread -> {"idle", "push", "push first", "do_write", "next"}] /\ OwnHandlers'
    BY <1>1, <2>1, LeavesIdle
  <2>3. at'[Own] = "next" <=> at[Own] = "next"
    BY <1>1, <2>1 DEF Shape, Thread
  <2>4. Living'
    <3>a. lines' \in LineCounts /\ writing' \in Nat
      BY <1>1 DEF Push, Shape
    <3>b. due' \in {"waiting", "expired", "cancelled", "running"}
      BY <1>1 DEF Push, Returns, Shape
    <3>1. Shape'
      BY <1>0, <2>2, <3>a, <3>b, ZenonT(60) DEF Push, Shape
    <3>2. Unstarted' /\ Held' /\ Running'
      BY <1>1, <2>3, Zenon DEF Push, Returns, Unstarted, Held, Running
    <3> QED BY <3>1, <3>2 DEF Living
  <2>5. ~overlap /\ ~quit => writing = 1
    BY <1>1 DEF Found
  <2>6. Alone' /\ Found' /\ OnlyOverlapStrands'
    BY <1>0, <1>1, <2>1, <2>5, LeavesIdle DEF Push, Alone, Found, OnlyOverlapStrands
  <2> QED BY <2>2, <2>4, <2>6 DEF Living
<1>2. CASE at[t] = "push first"
  <2>1. at' = [at EXCEPT ![t] = "do_write"]
    BY <1>2 DEF Push
  <2>2. at'[t] = "do_write" /\ \A u \in Thread : u # t => at'[u] = at[u]
    BY <2>1 DEF Shape
  <2>3. at' \in [Thread -> {"idle", "push", "push first", "do_write", "next"}] /\ OwnHandlers'
    BY <2>1 DEF Shape, OwnHandlers, Thread
  <2>4. at'[Own] = "next" <=> at[Own] = "next"
    BY <1>2, <2>1 DEF Shape, Thread
  <2>5. Living'
    <3>a. lines' \in LineCounts /\ writing' \in Nat
      BY <1>2 DEF Push, Shape
    <3>b. due' \in {"waiting", "expired", "cancelled", "running"}
      BY <1>2 DEF Push, Shape
    <3>1. Shape'
      BY <1>0, <2>3, <3>a, <3>b, ZenonT(60) DEF Push, Shape
    <3>2. Unstarted' /\ Held' /\ Running'
      BY <1>2, <2>4 DEF Push, Unstarted, Held, Running
    <3> QED BY <3>1, <3>2 DEF Living
  <2>6. Busy' = Busy /\ t \in Busy /\ Alone'
    BY <1>2, <2>2 DEF Push, Busy, Alone
  <2>7. ~overlap => Busy = {t}
    BY <2>6 DEF Alone
  <2>8. ~overlap /\ ~quit => writing = 0
    BY <1>2 DEF Found
  <2>9. Found' /\ OnlyOverlapStrands'
    BY <1>0, <1>2, <2>2, <2>6, <2>7, <2>8 DEF Push, Found, OnlyOverlapStrands, Busy
  <2> QED BY <2>3, <2>5, <2>6, <2>9 DEF Living
<1> QED BY <1>1, <1>2 DEF Push

LEMMA DoWriteKeeps == ASSUME IInv, NEW t \in Thread, DoWrite(t) PROVE IInv'
<1> USE DEF IInv
<1>1. at[t] = "do_write" /\ at' = [at EXCEPT ![t] = "idle"]
  BY DEF DoWrite, Returns
<1>2. at' \in [Thread -> {"idle", "push", "push first", "do_write", "next"}] /\ OwnHandlers'
  BY <1>1, LeavesIdle
<1>3. at'[Own] = "next" <=> at[Own] = "next"
  BY <1>1 DEF Shape, Thread
<1>4. writing' \in Nat /\ (writing > 0 => writing' > 0)
  <2>1. writing \in Nat /\ writing' = IF queue > 0 THEN writing + 1 ELSE writing
    BY DEF DoWrite, Shape
  <2> QED BY <2>1
<1>5. Held'
  BY <1>3, <1>4 DEF DoWrite, Held
<1>6. Living'
  BY <1>2, <1>4, <1>5 DEF DoWrite, Returns, Living, Shape, Unstarted, Running, io
<1>7. ~overlap /\ ~quit => queue > 0 /\ writing = 0
  BY <1>1 DEF Found
<1>8. ~overlap => Busy' = {} /\ \A u \in Thread : at'[u] = "idle"
  BY <1>1, LeavesIdle
<1>9. ~overlap /\ ~quit => writing' = 1 /\ queue' = queue
  BY <1>7 DEF DoWrite, io
<1>10. Alone' /\ Found' /\ OnlyOverlapStrands'
  BY <1>7, <1>8, <1>9 DEF DoWrite, Alone, Found, OnlyOverlapStrands
<1> QED BY <1>2, <1>6, <1>10 DEF Living

\* The two steps of the handler of a write.
LEMMA WriteDoneKeeps == ASSUME IInv, WriteDone PROVE IInv'
<1> USE DEF IInv
<1>0. Own \in Thread
  BY DEF Thread
<1>1. /\ at[Own] = "idle" /\ at' = [at EXCEPT ![Own] = "next"]
      /\ overlap' = (overlap \/ Busy # {})
  BY DEF WriteDone, Free, Enters
<1>2. at'[Own] = "next" /\ \A u \in Thread : u # Own => at'[u] = at[u]
  BY <1>0, <1>1 DEF Shape
<1>3. queue' \in QueueCounts /\ writing' \in Nat /\ writing' = writing - 1
  <2>1. /\ queue \in 0..MaxQueue /\ writing \in Nat /\ writing > 0
        /\ writing' = writing - 1
        /\ queue' \in IF queue > 0 THEN {queue - 1} ELSE 0..MaxQueue
    BY DEF WriteDone, Shape, QueueCounts
  <2> QED BY <2>1, MaxQueueAssumption DEF QueueCounts
<1>4. alive = "yes"
  BY DEF WriteDone, Held
<1>5. Shape'
  BY <1>1, <1>3 DEF WriteDone, Shape
<1>6. Held' /\ Unstarted' /\ Running'
  BY <1>2, <1>4 DEF WriteDone, Held, Unstarted, Running
<1>7. OwnHandlers'
  BY <1>2, OwnAssumption DEF OwnHandlers, Thread
<1>8. ~overlap' => ~overlap /\ Busy = {} /\ Busy' = {Own}
  BY <1>0, <1>1, <1>2 DEF Busy
<1>9. ~overlap' /\ ~quit => writing' = 0
  <2>1. ~overlap' /\ ~quit => writing = IF queue > 0 THEN 1 ELSE 0
    BY <1>8 DEF OnlyOverlapStrands
  <2>2. writing \in Nat /\ writing > 0
    BY DEF WriteDone, Shape
  <2> QED BY <1>3, <2>1, <2>2
<1>10. Alone' /\ Found' /\ OnlyOverlapStrands'
  BY <1>2, <1>8, <1>9 DEF WriteDone, Alone, Found, OnlyOverlapStrands, Busy
<1> QED BY <1>5, <1>6, <1>7, <1>10

LEMMA WriteNextKeeps == ASSUME IInv, WriteNext PROVE IInv'
<1> USE DEF IInv
<1>0. Own \in Thread
  BY DEF Thread
<1>1. /\ at[Own] = "next" /\ at' = [at EXCEPT ![Own] = "idle"]
      /\ writing' = IF queue > 0 THEN writing + 1 ELSE writing
  BY DEF WriteNext, Holds
<1>2. at' \in [Thread -> {"idle", "push", "push first", "do_write", "next"}] /\ OwnHandlers'
  BY <1>0, <1>1, LeavesIdle
<1>3. writing' \in Nat /\ queue \in QueueCounts /\ at'[Own] = "idle"
  <2>1. writing \in Nat /\ queue \in QueueCounts /\ at'[Own] = "idle"
    BY <1>0, <1>1 DEF Shape
  <2> QED BY <1>1, <2>1
<1>4. Shape'
  BY <1>2, <1>3 DEF WriteNext, Holds, Shape, io
<1>5. Held'
  BY <1>3 DEF WriteNext, Holds, Held
<1>6. Unstarted' /\ Running'
  BY <1>1 DEF WriteNext, Holds, Unstarted, Held, Running, io
<1>7. ~overlap /\ ~quit => writing = 0
  BY <1>0, <1>1 DEF Found
<1>8. ~overlap => Busy' = {} /\ \A u \in Thread : at'[u] = "idle"
  BY <1>0, <1>1, LeavesIdle
<1>9. ~overlap /\ ~quit => writing' = (IF queue' > 0 THEN 1 ELSE 0)
  BY <1>1, <1>7 DEF WriteNext, io
<1>10. UNCHANGED <<quit, overlap>>
  BY DEF WriteNext
<1>11. Alone' /\ Found' /\ OnlyOverlapStrands'
  BY <1>8, <1>9, <1>10 DEF Alone, Found, OnlyOverlapStrands
<1> QED BY <1>2, <1>4, <1>5, <1>6, <1>11

LEMMA StutterKeepsType == Shape /\ UNCHANGED vars => Shape'
BY DEF Shape, vars

LEMMA NextInv == IInv /\ [Next]_vars => IInv'
<1> SUFFICES ASSUME IInv, [Next]_vars PROVE IInv'
  OBVIOUS
<1>0. ASSUME Living', Queueing' PROVE IInv'
  BY <1>0 DEF IInv, Living, Queueing
<1> USE DEF Living, Shape, Unstarted, Held, Running
<1>i. Living /\ Own \in Thread
  BY DEF IInv, Thread
<1>1. CASE Start
  <2>1. Queueing'
    BY <1>1, ElsewhereKeeps DEF Start, io, use
  <2>2. Shape'
    BY <1>1, <1>i, ZenonT(60) DEF Start, io, use
  <2>3. Unstarted' /\ Held' /\ Running'
    BY <1>1, <1>i, ZenonT(60) DEF Start, io, use
  <2> QED BY <1>0, <2>1, <2>2, <2>3
<1>2. CASE Receive
  <2>1. Queueing'
    BY <1>2, ElsewhereKeeps DEF Receive
  <2>2. lines' \in LineCounts
    <3>1. lines \in 0..MaxLines /\ lines' \in (lines + 1)..MaxLines
      BY <1>2, <1>i DEF Receive, LineCounts
    <3> QED BY <3>1, MaxLinesAssumption DEF LineCounts
  <2>3. Shape'
    BY <1>2, <1>i, <2>2, ZenonT(60) DEF Receive, use
  <2>4. Unstarted' /\ Held' /\ Running'
    BY <1>2, <1>i, ZenonT(60) DEF Receive, use
  <2> QED BY <1>0, <2>1, <2>3, <2>4
<1>3. CASE PeerDown
  <2>1. Queueing'
    BY <1>3, ElsewhereKeeps DEF PeerDown, use
  <2>2. Shape'
    BY <1>3, <1>i, ZenonT(60) DEF PeerDown, use
  <2>3. Unstarted' /\ Held' /\ Running'
    BY <1>3, <1>i, ZenonT(60) DEF PeerDown, use
  <2> QED BY <1>0, <2>1, <2>2, <2>3
<1>4. CASE LineNick
  <2>1. Queueing'
    BY <1>4, <1>i, NextLineFacts, DeliverFacts DEF LineNick
  <2>2. Living'
    <3>1. Shape'
      BY <1>4, <1>i, NextLineFacts, DeliverFacts DEF LineNick
    <3>2. Unstarted' /\ Held' /\ Running'
      BY <1>4, <1>i, NextLineFacts, DeliverFacts DEF LineNick
    <3> QED BY <3>1, <3>2
  <2> QED BY <1>0, <2>1, <2>2
<1>5. CASE LineQuit
  <2>1. Queueing'
    BY <1>5, EndKeeps DEF LineQuit, Exit, Ends
  <2>2. Living'
    <3>1. Shape'
      BY <1>5, <1>i, NextLineFacts DEF LineQuit, Exit, Ends, Holds, use
    <3>2. Unstarted' /\ Held' /\ Running'
      BY <1>5, <1>i, NextLineFacts DEF LineQuit, Exit, Ends, Holds, use
    <3> QED BY <3>1, <3>2
  <2> QED BY <1>0, <2>1, <2>2
<1>6. CASE LinePong
  <2>1. Queueing'
    BY <1>6, ElsewhereKeeps DEF LinePong, use
  <2>2. Shape'
    BY <1>6, <1>i, NextLineFacts, ZenonT(60) DEF LinePong, use
  <2>3. Unstarted' /\ Held' /\ Running'
    BY <1>6, <1>i, NextLineFacts, ZenonT(60) DEF LinePong, use
  <2> QED BY <1>0, <2>1, <2>2, <2>3
<1>7. CASE LinePing
  <2>1. Queueing'
    BY <1>7, ElsewhereKeeps DEF LinePing, use
  <2>2. Shape'
    BY <1>7, <1>i, NextLineFacts, ZenonT(60) DEF LinePing, use
  <2>3. Unstarted' /\ Held' /\ Running'
    BY <1>7, <1>i, NextLineFacts, ZenonT(60) DEF LinePing, use
  <2> QED BY <1>0, <2>1, <2>2, <2>3
<1>8. CASE LineOther
  <2>1. Queueing'
    BY <1>8, <1>i, NextLineFacts, DeliverFacts DEF LineOther
  <2>2. Living'
    <3>1. Shape'
      BY <1>8, <1>i, NextLineFacts, DeliverFacts DEF LineOther
    <3>2. Unstarted' /\ Held' /\ Running'
      BY <1>8, <1>i, NextLineFacts, DeliverFacts DEF LineOther
    <3> QED BY <3>1, <3>2
  <2> QED BY <1>0, <2>1, <2>2
<1>9. CASE ReadError
  <2>1. Queueing'
    BY <1>9, EndKeeps DEF ReadError, Exit, Ends, io
  <2>2. Living'
    <3>1. Shape'
      BY <1>9, <1>i DEF ReadError, Exit, Ends, Holds, Free, io, use
    <3>2. Unstarted' /\ Held' /\ Running'
      BY <1>9, <1>i DEF ReadError, Exit, Ends, Holds, Free, io, use
    <3> QED BY <3>1, <3>2
  <2> QED BY <1>0, <2>1, <2>2
<1>10. CASE WriteDone
  BY <1>10, WriteDoneKeeps
<1>11. CASE WriteFailed
  <2>1. Queueing'
    BY <1>11, EndKeeps DEF WriteFailed, Exit, Ends, io
  <2>2. writing \in Nat /\ writing > 0 /\ writing - 1 \in Nat
    <3>1. writing \in Nat /\ writing > 0
      BY <1>11, <1>i DEF WriteFailed
    <3> QED BY <3>1
  <2>3. Shape'
    BY <1>11, <1>i, <2>2 DEF WriteFailed, Exit, Ends, Holds, io, use
  <2>4. Unstarted' /\ Held' /\ Running'
    BY <1>11, <1>i, <2>2 DEF WriteFailed, Exit, Ends, Holds, Free, io, use
  <2>5. Living'
    BY <2>3, <2>4
  <2> QED BY <1>0, <2>1, <2>5
<1>12. CASE PriorDone
  <2>1. Queueing'
    BY <1>12, ElsewhereKeeps DEF PriorDone, Holds, io
  <2>2. Living'
    <3>1. Shape'
      BY <1>12, <1>i DEF PriorDone, Holds, Free, io, use
    <3>2. Unstarted' /\ Held' /\ Running'
      BY <1>12, <1>i DEF PriorDone, Holds, Free, io, use
    <3> QED BY <3>1, <3>2
  <2> QED BY <1>0, <2>1, <2>2
<1>13. CASE PriorFailed
  <2>1. Queueing'
    BY <1>13, EndKeeps DEF PriorFailed, Exit, Ends, io
  <2>2. Living'
    <3>1. Shape'
      BY <1>13, <1>i DEF PriorFailed, Exit, Ends, Holds, Free, io, use
    <3>2. Unstarted' /\ Held' /\ Running'
      BY <1>13, <1>i DEF PriorFailed, Exit, Ends, Holds, Free, io, use
    <3> QED BY <3>1, <3>2
  <2> QED BY <1>0, <2>1, <2>2
<1>14. CASE Tick
  <2>1. Queueing'
    BY <1>14, ElsewhereKeeps DEF Tick, io
  <2>2. Living'
    <3>1. Shape'
      BY <1>14, <1>i, ZenonT(60) DEF Tick, io, use
    <3>2. Unstarted' /\ Held' /\ Running'
      BY <1>14, <1>i, ZenonT(60) DEF Tick, io, use
    <3> QED BY <3>1, <3>2
  <2> QED BY <1>0, <2>1, <2>2
<1>15. CASE Expire
  <2>1. Queueing'
    BY <1>15, ElsewhereKeeps DEF Expire, io, use
  <2>2. Shape'
    BY <1>15, <1>i, ZenonT(60) DEF Expire, io, use
  <2>3. Unstarted' /\ Held' /\ Running'
    BY <1>15, <1>i, ZenonT(60) DEF Expire, io, use
  <2> QED BY <1>0, <2>1, <2>2, <2>3
<1>16. CASE CheckDeadline
  <2>1. Queueing'
    BY <1>16, ElsewhereKeeps DEF CheckDeadline, TimerExits, TimerRearms, Ends, io
  <2>2. CASE ~named /\ TimerExits(TRUE)
    <3>1. Shape'
      BY <1>i, <2>2, ZenonT(60) DEF TimerExits, Ends, io, use
    <3>2. Unstarted' /\ Held' /\ Running'
      BY <1>16, <1>i, <2>2 DEF CheckDeadline, TimerExits, Ends, io, use
    <3> QED BY <1>0, <2>1, <3>1, <3>2
  <2>3. CASE named /\ TimerRearms
    <3>1. Shape'
      BY <1>i, <2>3, ZenonT(60) DEF TimerRearms, io, use
    <3>2. Unstarted' /\ Held' /\ Running'
      BY <1>16, <1>i, <2>3 DEF CheckDeadline, TimerRearms, io, use
    <3> QED BY <1>0, <2>1, <3>1, <3>2
  <2> QED BY <1>16, <2>2, <2>3 DEF CheckDeadline
<1>17. CASE CheckPing
  <2>1. CASE TimerExits(TRUE)
    <3>1. Queueing'
      BY <2>1, ElsewhereKeeps DEF TimerExits, Ends, io
    <3>2. Shape'
      BY <1>17, <1>i, <2>1, ZenonT(60) DEF CheckPing, TimerExits, Ends, io, use
    <3>3. Unstarted' /\ Held' /\ Running'
      BY <1>17, <1>i, <2>1, ZenonT(60) DEF CheckPing, TimerExits, Ends, io, use
    <3> QED BY <1>0, <3>1, <3>2, <3>3
  <2>2. CASE Ping
    <3>1. Queueing'
      BY <1>17, <1>i, <2>2, DeliverFacts DEF CheckPing, Ping, Free, io
    <3>2. Living'
      <4>1. Shape'
        BY <1>17, <1>i, <2>2, DeliverFacts DEF CheckPing, Ping, Free, io
      <4>2. Unstarted' /\ Held' /\ Running'
        BY <1>17, <1>i, <2>2, DeliverFacts DEF CheckPing, Ping, Free, io
      <4> QED BY <4>1, <4>2
    <3> QED BY <1>0, <3>1, <3>2
  <2> QED BY <1>17, <2>1, <2>2 DEF CheckPing
<1>18. CASE TimerCancelled
  <2>1. Queueing'
    BY <1>18, ElsewhereKeeps DEF TimerCancelled, TimerExits, Ends, io, use
  <2>2. Shape'
    BY <1>18, <1>i, ZenonT(60) DEF TimerCancelled, TimerExits, Ends, io, use
  <2>3. Unstarted' /\ Held' /\ Running'
    BY <1>18, <1>i, ZenonT(60) DEF TimerCancelled, TimerExits, Ends, io, use
  <2> QED BY <1>0, <2>1, <2>2, <2>3
<1>19. CASE TimerOfFreed
  <2>1. Queueing'
    BY <1>19, ElsewhereKeeps DEF TimerOfFreed, io, use
  <2>2. Shape'
    BY <1>19, <1>i, ZenonT(60) DEF TimerOfFreed, io, use
  <2>3. Unstarted' /\ Held' /\ Running'
    BY <1>19, <1>i, ZenonT(60) DEF TimerOfFreed, io, use
  <2> QED BY <1>0, <2>1, <2>2, <2>3
<1>20. ASSUME NEW t \in Sender, Told(t) PROVE IInv'
  <2>1. t \in Thread
    BY DEF Thread
  <2>2. Queueing'
    BY <1>20, <2>1, DeliverFacts DEF Told, io
  <2>3. Living'
    <3>1. Shape'
      BY <1>20, <1>i, <2>1, DeliverFacts DEF Told, io
    <3>2. Unstarted' /\ Held' /\ Running'
      BY <1>20, <1>i, <2>1, DeliverFacts DEF Told, io
    <3> QED BY <3>1, <3>2
  <2> QED BY <1>0, <2>2, <2>3
<1>21. CASE MadeToExit
  <2>1. Queueing'
    BY <1>21, EndKeeps DEF MadeToExit, Ends, io
  <2>2. Living'
    <3>1. Shape'
      BY <1>21, <1>i DEF MadeToExit, Ends, io, use
    <3>2. Unstarted' /\ Held' /\ Running'
      BY <1>21, <1>i DEF MadeToExit, Ends, io, use
    <3> QED BY <3>1, <3>2
  <2> QED BY <1>0, <2>1, <2>2
<1>22. ASSUME NEW t \in Thread, Push(t) \/ DoWrite(t) PROVE IInv'
  BY <1>22, PushKeeps, DoWriteKeeps
<1>23. CASE WriteNext
  BY <1>23, WriteNextKeeps
<1>24. ASSUME NEW t \in Sender, DeliverToFreed(t) PROVE IInv'
  <2>1. t \in Thread /\ t # Own /\ at[t] # "idle" /\ at' = [at EXCEPT ![t] = "idle"]
    BY <1>24, OwnAssumption DEF DeliverToFreed, Thread
  <2>2. quit /\ quit'
    BY <1>24, <1>i DEF DeliverToFreed
  <2>3. /\ at' \in [Thread -> {"idle", "push", "push first", "do_write", "next"}] /\ OwnHandlers'
        /\ ~overlap => Busy' = {}
    BY <2>1, LeavesIdle
  <2>4. Living'
    <3>1. Shape'
      BY <1>24, <1>i, <2>1, <2>3 DEF DeliverToFreed, io
    <3>2. Unstarted' /\ Held' /\ Running'
      BY <1>24, <1>i, <2>1, <2>3 DEF DeliverToFreed, io
    <3> QED BY <3>1, <3>2
  <2>5. Queueing'
    BY <1>24, <2>2, <2>3 DEF DeliverToFreed, Queueing, Alone, Found, OnlyOverlapStrands
  <2> QED BY <1>0, <2>4, <2>5
<1>25. CASE UNCHANGED vars
  <2>1. Queueing'
    BY <1>25, ElsewhereKeeps DEF vars, use
  <2>2. Living'
    <3>1. Shape'
      BY <1>25, <1>i, StutterKeepsType
    <3>2. Unstarted' /\ Held' /\ Running'
      BY <1>25, <1>i DEF vars
    <3> QED BY <3>1, <3>2
  <2> QED BY <1>0, <2>1, <2>2
<1> QED
  BY <1>1, <1>2, <1>3, <1>4, <1>5, <1>6, <1>7, <1>8, <1>9, <1>10, <1>11, <1>12, <1>13, <1>14,
     <1>15, <1>16, <1>17, <1>18, <1>19, <1>20, <1>21, <1>22, <1>23, <1>24, <1>25
     DEF Next, ReadLine, TimerHandler, Continue, Thread

LEMMA SpecInv == Spec => []IInv
BY InitInv, NextInv, PTL DEF Spec

\* The state keeps its shape: no handler takes a line or a message that is not there,
\* but for the second pop of one message, whose outcome is any queue.
THEOREM SessionTypeCorrect == Spec => []TypeOK
<1>1. IInv => TypeOK
  BY DEF IInv, Shape, TypeOK, LineCounts, QueueCounts
<1> QED BY <1>1, SpecInv, PTL

\* A session that has not ended is watched by its timer, whatever completes in
\* whatever order.
THEOREM SessionsAreAlwaysWatched == Spec => []SessionsAreWatched
<1>1. IInv => SessionsAreWatched
  BY DEF IInv, Held, Running, SessionsAreWatched
<1> QED BY <1>1, SpecInv, PTL

\* A message is stranded, or written twice, only after two threads were at the queue
\* at once: what its lock would have ruled out.
THEOREM NothingElseStrands == Spec => []OnlyOverlapStrands
<1>1. IInv => OnlyOverlapStrands
  BY DEF IInv
<1> QED BY <1>1, SpecInv, PTL

=============================================================================
