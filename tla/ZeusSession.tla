----------------------------- MODULE ZeusSession -----------------------------
(***************************************************************************)
(* The life of one local connection: the PlainUser object (SSLUser reads,  *)
(* writes and times alike), its socket, its read loop, its write queue and *)
(* its timer.  Handlers of the object run on one thread of the pool; other *)
(* threads deliver messages to it and make it Exit at any time.  Nothing   *)
(* locks the queue: deliver and the handler of a write take several steps, *)
(* each a call of the queue, with steps of other threads in between.  Any  *)
(* other handler is one step.  A read or write in progress keeps the       *)
(* object alive; the timer, bound to `this', does not.                     *)
(***************************************************************************)
EXTENDS Integers

CONSTANTS
    Own,        \* the thread of the object
    Sender,     \* other threads
    MaxLines,   \* bound: lines of the client waiting in mBuffer
    MaxQueue,   \* bound: messages in the write queue
    MaxWrites   \* bound: writes in progress when another thread delivers

ASSUME OwnAssumption == Own \notin Sender
ASSUME MaxLinesAssumption == MaxLines \in Nat
ASSUME MaxQueueAssumption == MaxQueue \in Nat \ {0}

VARIABLES
    alive,    \* "unborn", "yes", "freed"
    sock,     \* "open", "closed"
    peer,     \* "up", or "down": reads and writes fail from now on
    lines,    \* complete lines in mBuffer that were not read yet
    read,     \* async_read_until in progress
    queue,    \* length of the queue
    writing,  \* how many async_writes of its front are in progress
    prior,    \* an async_write of prior in progress
    timer,    \* what deadline waits for: "none", "deadline", "ping"
    due,      \* "waiting", or its handler is queued: "expired", "cancelled";
              \* "running": check_ping delivers, and arms it again after that
    silent,   \* bPing is 200 seconds old
    named,    \* bSentNick
    quit,     \* User::quit
    inUsers,  \* Users leads to the object
    at,       \* at[t]: the next step of thread t on the queue, or "idle"
    overlap   \* history: two threads have used the queue at the same time

io   == <<peer, lines, queue>>
use  == <<at, overlap>>
vars == <<alive, sock, peer, lines, read, queue, writing, prior,
          timer, due, silent, named, quit, inUsers, at, overlap>>

Thread == Sender \cup {Own}
Busy   == {t \in Thread : at[t] # "idle"}
Free   == at[Own] = "idle"     \* no handler of the object is running

-----------------------------------------------------------------------------
(* Exit, Close and the destructor. *)

\* The reads and writes r, w, p are in progress when the handler returns: without
\* any the object is freed, its socket closed and its timer cancelled.
Holds(r, w, p, closes) ==
    LET lives == r \/ w > 0 \/ p
        stops == closes \/ ~lives
    IN
    /\ read' = r /\ writing' = w /\ prior' = p
    /\ alive' = IF lives THEN "yes" ELSE "freed"
    /\ sock' = IF stops THEN "closed" ELSE sock
    /\ due' = IF stops /\ timer # "none" /\ due = "waiting" THEN "cancelled" ELSE due
    /\ UNCHANGED timer

\* Exit does its work the first time only; a user without a nickname has nothing
\* to leave.
Ends ==
    /\ quit' = TRUE
    /\ inUsers' = (inUsers /\ (quit \/ ~named))

\* Exit, with Close, in a handler of the object.
Exit(close, r, w, p) ==
    /\ Ends
    /\ Holds(r, w, p, close /\ ~quit)

-----------------------------------------------------------------------------
(* The queue, without its lock. *)

\* Thread t starts to use the queue.
Enters(t, step) ==
    /\ at' = [at EXCEPT ![t] = step]
    /\ overlap' = (overlap \/ Busy # {})

\* deliver: on an open socket t asks whether the queue is empty.
Deliver(t) ==
    IF sock = "open"
    THEN Enters(t, IF queue = 0 THEN "push first" ELSE "push")
    ELSE UNCHANGED use

\* t is through; check_ping, if that delivered, arms the timer again.
Returns(t) ==
    /\ at' = [at EXCEPT ![t] = "idle"]
    /\ due' = IF t = Own /\ due = "running" THEN "waiting" ELSE due

\* The message is pushed, and t calls do_write if it found the queue empty.
\* (Bound: the messages beyond MaxQueue are not counted.)
Push(t) ==
    /\ alive = "yes" /\ at[t] \in {"push", "push first"}
    /\ queue' = IF queue < MaxQueue THEN queue + 1 ELSE queue
    /\ IF at[t] = "push" THEN Returns(t)
       ELSE at' = [at EXCEPT ![t] = "do_write"] /\ UNCHANGED due
    /\ UNCHANGED <<alive, sock, peer, lines, read, writing, prior, timer, silent, named,
                   quit, inUsers, overlap>>

\* do_write of deliver.
DoWrite(t) ==
    /\ alive = "yes" /\ at[t] = "do_write"
    /\ writing' = IF queue > 0 THEN writing + 1 ELSE writing
    /\ Returns(t)
    /\ UNCHANGED <<alive, sock, io, read, prior, timer, silent, named, quit, inUsers, overlap>>

\* The object was freed under t: what it does there is undefined; here nothing.
DeliverToFreed(t) ==
    /\ alive = "freed" /\ at[t] # "idle"
    /\ at' = [at EXCEPT ![t] = "idle"]
    /\ UNCHANGED <<alive, sock, io, read, writing, prior, timer, due, silent, named, quit,
                   inUsers, overlap>>

-----------------------------------------------------------------------------
(* The client's side. *)

\* start() of a connection that is let in.
Start ==
    /\ alive = "unborn"
    /\ alive' = "yes" /\ read' = TRUE
    /\ timer' = "deadline"
    /\ UNCHANGED <<sock, io, writing, prior, due, silent, named, quit, inUsers, use>>

Receive ==
    /\ read /\ sock = "open" /\ peer = "up"
    /\ lines < MaxLines
    /\ lines' \in (lines + 1)..MaxLines
    /\ UNCHANGED <<alive, sock, peer, read, queue, writing, prior, timer, due,
                   silent, named, quit, inUsers, use>>

PeerDown ==
    /\ alive = "yes" /\ peer = "up"
    /\ peer' = "down"
    /\ UNCHANGED <<alive, sock, lines, read, queue, writing, prior, timer, due,
                   silent, named, quit, inUsers, use>>

-----------------------------------------------------------------------------
(* The read loop: do_read is called again after every line, and completes at *)
(* once while mBuffer holds another one, on a closed socket too.             *)

NextLine == Free /\ read /\ lines > 0 /\ lines' = lines - 1

\* NICK of a connection without a nickname.  (One with a nickname moves in Users.)
LineNick ==
    /\ NextLine /\ ~named
    /\ named' = TRUE /\ inUsers' = TRUE
    /\ Deliver(Own)
    /\ UNCHANGED <<alive, sock, peer, read, queue, writing, prior, timer, due, silent, quit>>

\* QUIT, or any line once the client has sent too much.
LineQuit ==
    /\ NextLine
    /\ Exit(TRUE, TRUE, writing, prior)
    /\ UNCHANGED <<peer, queue, silent, named, use>>

LinePong ==
    /\ NextLine
    /\ silent' = FALSE
    /\ UNCHANGED <<alive, sock, peer, read, queue, writing, prior, timer, due,
                   named, quit, inUsers, use>>

\* PING is answered by prior, past the queue; on a closed socket prior throws and
\* the process ends.  (Bound: one prior at a time.)
LinePing ==
    /\ NextLine /\ sock = "open" /\ ~prior
    /\ silent' = FALSE
    /\ prior' = TRUE
    /\ UNCHANGED <<alive, sock, peer, read, queue, writing, timer, due, named, quit, inUsers, use>>

\* Any other command, with an answer.
LineOther ==
    /\ NextLine
    /\ Deliver(Own)
    /\ UNCHANGED <<alive, sock, peer, read, queue, writing, prior, timer, due, silent, named,
                   quit, inUsers>>

ReadLine == LineNick \/ LineQuit \/ LinePong \/ LinePing \/ LineOther


ReadError ==
    /\ Free /\ read /\ lines = 0
    /\ sock = "closed" \/ peer = "down"
    /\ Exit(FALSE, FALSE, writing, prior)
    /\ UNCHANGED <<io, silent, named, use>>

-----------------------------------------------------------------------------
(* Writing. *)

\* The handler of a write pops the front.  (pop of an empty queue, the end of a
\* second write of one front, is undefined: any queue may come of it.)
WriteDone ==
    /\ Free /\ writing > 0 /\ sock = "open" /\ peer = "up"
    /\ writing' = writing - 1
    /\ queue' \in IF queue > 0 THEN {queue - 1} ELSE 0..MaxQueue
    /\ Enters(Own, "next")
    /\ UNCHANGED <<alive, sock, peer, lines, read, prior, timer, due, silent, named, quit, inUsers>>

\* Mutant: the rest of the queue is not written.
WriteNextStops ==
    /\ at[Own] = "next"
    /\ Holds(read, writing, prior, FALSE)
    /\ at' = [at EXCEPT ![Own] = "idle"]
    /\ UNCHANGED <<io, silent, named, quit, inUsers, overlap>>

\* ... and calls do_write for the rest.
WriteNext ==
    /\ at[Own] = "next"
    /\ Holds(read, IF queue > 0 THEN writing + 1 ELSE writing, prior, FALSE)
    /\ at' = [at EXCEPT ![Own] = "idle"]
    /\ UNCHANGED <<io, silent, named, quit, inUsers, overlap>>

WriteFailed ==
    /\ Free /\ writing > 0
    /\ sock = "closed" \/ peer = "down"
    /\ Exit(FALSE, read, writing - 1, prior)
    /\ UNCHANGED <<io, silent, named, use>>

\* Mutant: the answer to PING is taken for the front of the queue.
PriorDonePops ==
    /\ Free /\ prior /\ sock = "open" /\ peer = "up"
    /\ queue' = queue - 1
    /\ Holds(read, writing, FALSE, FALSE)
    /\ UNCHANGED <<peer, lines, silent, named, quit, inUsers, use>>

PriorDone ==
    /\ Free /\ prior /\ sock = "open" /\ peer = "up"
    /\ Holds(read, writing, FALSE, FALSE)
    /\ UNCHANGED <<io, silent, named, quit, inUsers, use>>

PriorFailed ==
    /\ Free /\ prior
    /\ sock = "closed" \/ peer = "down"
    /\ Exit(FALSE, read, writing, FALSE)
    /\ UNCHANGED <<io, silent, named, use>>

-----------------------------------------------------------------------------
(* The timer: first the 10 seconds to send NICK, then a PING every 20 seconds. *)

Tick ==
    /\ alive = "yes" /\ ~silent
    /\ silent' = TRUE
    /\ UNCHANGED <<alive, sock, io, read, writing, prior, timer, due, named, quit, inUsers, use>>

Expire ==
    /\ timer # "none" /\ due = "waiting"
    /\ due' = "expired"
    /\ UNCHANGED <<alive, sock, io, read, writing, prior, timer, silent, named, quit, inUsers, use>>

\* A handler that ends the session, and a handler that waits for the next ping.
TimerExits(close) ==
    /\ Ends
    /\ sock' = IF close /\ ~quit THEN "closed" ELSE sock
    /\ timer' = "none" /\ due' = "waiting"
    /\ UNCHANGED <<alive, io, read, writing, prior, silent, named, use>>

TimerRearms ==
    /\ timer' = "ping" /\ due' = "waiting"
    /\ UNCHANGED <<alive, sock, io, read, writing, prior, silent, named, quit, inUsers, use>>

\* check_ping delivers a PING before it arms the timer again.
Ping ==
    /\ Deliver(Own)
    /\ due' = IF sock = "open" THEN "running" ELSE "waiting"
    /\ UNCHANGED <<alive, sock, io, read, writing, prior, timer, silent, named, quit, inUsers>>

\* Mutant: nobody waits for the next ping.
CheckDeadlineLast ==
    /\ Free /\ alive = "yes" /\ timer = "deadline" /\ due = "expired"
    /\ \/ ~named /\ TimerExits(TRUE)
       \/ /\ named
          /\ timer' = "none" /\ due' = "waiting"
          /\ UNCHANGED <<alive, sock, io, read, writing, prior, silent, named, quit, inUsers, use>>

\* Mutant: a connection without a nickname may stay.
CheckDeadlineLenient ==
    /\ Free /\ alive = "yes" /\ timer = "deadline" /\ due = "expired"
    /\ TimerRearms

CheckDeadline ==
    /\ Free /\ alive = "yes" /\ timer = "deadline" /\ due = "expired"
    /\ \/ ~named /\ TimerExits(TRUE)
       \/ named /\ TimerRearms

\* Mutant: silence is not noticed.
CheckPingPatient ==
    /\ Free /\ alive = "yes" /\ timer = "ping" /\ due = "expired"
    /\ Ping

CheckPing ==
    /\ Free /\ alive = "yes" /\ timer = "ping" /\ due = "expired"
    /\ \/ silent /\ TimerExits(TRUE)
       \/ ~silent /\ Ping

TimerCancelled ==
    /\ Free /\ alive = "yes" /\ due = "cancelled"
    /\ TimerExits(FALSE)

\* The handler runs on a freed object: what it finds there is undefined; here it
\* finds quit set and does nothing.
TimerOfFreed ==
    /\ alive = "freed" /\ timer # "none" /\ due # "waiting"
    /\ timer' = "none" /\ due' = "waiting"
    /\ UNCHANGED <<alive, sock, io, read, writing, prior, silent, named, quit, inUsers, use>>

TimerHandler == CheckDeadline \/ CheckPing \/ TimerCancelled \/ TimerOfFreed

-----------------------------------------------------------------------------
(* Other threads find the object in Users. *)

\* A message to the user or to one of his channels.
Told(t) ==
    /\ alive = "yes" /\ inUsers
    /\ at[t] = "idle" /\ writing < MaxWrites
    /\ Deliver(t)
    /\ UNCHANGED <<alive, sock, io, read, writing, prior, timer, due, silent, named, quit, inUsers>>

\* Ghosting by NICK, OS KILL, SNICK and QUIT of other servers: Exit, with Close.
MadeToExit ==
    /\ alive = "yes" /\ inUsers
    /\ Ends
    /\ IF quit THEN UNCHANGED <<sock, due>>
       ELSE /\ sock' = "closed"
            /\ due' = IF timer # "none" /\ due = "waiting" THEN "cancelled" ELSE due
    /\ UNCHANGED <<alive, io, read, writing, prior, timer, silent, named, use>>

-----------------------------------------------------------------------------

Init ==
    /\ alive = "unborn" /\ sock = "open" /\ peer = "up"
    /\ lines = 0 /\ queue = 0
    /\ read = FALSE /\ writing = 0 /\ prior = FALSE
    /\ timer = "none" /\ due = "waiting"
    /\ silent = FALSE /\ named = FALSE /\ quit = FALSE /\ inUsers = FALSE
    /\ at = [t \in Thread |-> "idle"] /\ overlap = FALSE

\* The rest of a handler of the object.
Continue == Push(Own) \/ DoWrite(Own) \/ WriteNext

Next ==
    \/ Start \/ Receive \/ PeerDown
    \/ ReadLine \/ ReadError
    \/ WriteDone \/ WriteFailed \/ PriorDone \/ PriorFailed
    \/ Tick \/ Expire \/ TimerHandler
    \/ MadeToExit \/ Continue
    \/ \E t \in Sender : Told(t) \/ Push(t) \/ DoWrite(t) \/ DeliverToFreed(t)

Spec == Init /\ [][Next]_vars

\* Time passes, timers expire, and the thread of the object runs the handlers of
\* what has completed, each to its end and each in its turn (an io_context is a
\* queue: a handler that waits for others to run does run after them).  A client
\* need not do anything, not even read, and a sender need not go on.
Fairness ==
    /\ WF_vars(Tick) /\ WF_vars(Expire) /\ WF_vars(Continue)
    /\ SF_vars(TimerHandler) /\ SF_vars(ReadLine) /\ SF_vars(ReadError)
    /\ SF_vars(WriteFailed) /\ SF_vars(PriorFailed)

FairSpec == Spec /\ Fairness

-----------------------------------------------------------------------------
(* Properties. *)

\* Shape of the state.
TypeOK ==
    /\ alive \in {"unborn", "yes", "freed"}
    /\ sock \in {"open", "closed"} /\ peer \in {"up", "down"}
    /\ lines \in 0..MaxLines /\ queue \in 0..MaxQueue
    /\ read \in BOOLEAN /\ writing \in Nat /\ prior \in BOOLEAN
    /\ timer \in {"none", "deadline", "ping"}
    /\ due \in {"waiting", "expired", "cancelled", "running"}
    /\ silent \in BOOLEAN /\ named \in BOOLEAN /\ quit \in BOOLEAN /\ inUsers \in BOOLEAN
    /\ at \in [Thread -> {"idle", "push", "push first", "do_write", "next"}]
    /\ overlap \in BOOLEAN

\* A session that has not ended is watched: its timer waits or its handler is
\* about to run, and the object is there for it.  One path that does not arm the
\* timer again, or frees the object early, leaves a connection nobody ever drops.
SessionsAreWatched ==
    alive # "unborn" /\ ~quit => alive = "yes" /\ timer # "none" /\ due # "cancelled"

\* Only the missing lock leaves a message in the queue that nobody writes, or makes
\* two writes of one front: as long as no two threads have been in deliver or in the
\* handler of a write at once, whatever else fails or is answered past the queue
\* between their steps, a session that lasts writes once while there is something.
OnlyOverlapStrands ==
    ~overlap /\ ~quit /\ Busy = {} => writing = (IF queue > 0 THEN 1 ELSE 0)

\* A connection that sends no NICK is dropped.
UnnamedSessionsEnd == alive = "yes" ~> named \/ quit

\* A client that answers no PING is dropped, whatever else it sends.
SilentSessionsEnd == alive = "yes" /\ silent ~> ~silent \/ quit


\* Close cancels "temporizadores y operaciones pendientes" (timers and pending
\* operations): no line is read from a closed connection.
ClosedSessionsReadNothing == [][sock = "closed" => lines' >= lines]_vars

\* The callbacks of an object "ensure lifetime for callback": none is left when
\* the object is freed.
CallbacksKeepTheObject == alive = "freed" => timer = "none"

=============================================================================
