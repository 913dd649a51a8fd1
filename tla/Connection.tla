----------------------------- MODULE Connection -----------------------------
(***************************************************************************)
(* One connection and both of its ends: the tasks of a Connection object   *)
(* (daemon.py: serve, the writer loop, the watchdog), the sessions that    *)
(* put events on its queue, the shutdown of the daemon, and a client that  *)
(* uses the library (client.py), may stop reading, and goes when it likes. *)
(*                                                                         *)
(* A task runs until it awaits: room on the queue, a drained transport, a  *)
(* frame.  A write never waits; drain() does, until the transport holds no *)
(* more than High frames or is lost.  What a line holds is chosen when it  *)
(* is read (Protocol).  What a handler does to sessions is left to         *)
(* SessionTable: here it answers, and may subscribe the connection.        *)
(***************************************************************************)
EXTENDS Integers, Sequences, FiniteSets, Protocol

CONSTANTS
  QueueSize,   (* _CONNECTION_QUEUE_SIZE (1024)                            *)
  High,        (* frames the transport and the kernel take without waiting *)
  Asks,        (* requests whose reply the client awaits                   *)
  MaxInbox     (* bound: lines the daemon has not read                     *)

Tokens == {"ack", "frame", "error", "stop"}

ASSUME ConnectionAssumption ==
  /\ {QueueSize, MaxInbox} \subseteq Nat \ {0} /\ High \in Nat
  /\ Asks \cap (Tokens \cup {"hello", "call", "other", "attach", "none"}) = {}

VARIABLES
  (* The socket.                                                           *)
  inbox,       (* lines on their way to the daemon: "hello", a request,    *)
               (* another "call" of the library, or any "other" line       *)
  out,         (* frames on their way to the client: the reply to a        *)
               (* request, an "ack", an "error", or any other "frame"      *)
  sock,        (* the daemon's end: "open", "closing", "lost"              *)
  (* The Connection object.                                                *)
  alive,       (* _alive                                                   *)
  queue,       (* _queue                                                   *)
  read,        (* pc of serve()                                            *)
  todo,        (* what the handler at hand still has to put on the queue   *)
  writer,      (* pc of the writer loop                                    *)
  watchdog,    (* pc of the watchdog                                       *)
  attached,    (* a session sends its events here                          *)
  waits,       (* an event waits for room on the queue                     *)
  down,        (* pc of the shutdown: "up", "told", "drain", "wait", "off" *)
  (* The client.                                                           *)
  client,      (* "hello", "open"; "deaf" (its reader loop has died of a   *)
               (* line), "lost" (of the end of the stream), "refused",     *)
               (* "closed"                                                 *)
  stalled,     (* it does not read                                         *)
  pend,        (* the future of every request                              *)
  (* History.                                                              *)
  dropped,     (* serve() found no room for the sentinel                   *)
  internal,    (* requests that ended in an internal error                 *)
  misread      (* requests of the library that the parser refused          *)

socket  == <<inbox, out, sock>>
peer    == <<client, stalled, pend>>
tasks   == <<read, todo, writer, watchdog>>
history == <<dropped, internal, misread>>
vars == <<socket, alive, queue, tasks, attached, waits, down, peer, history>>

-----------------------------------------------------------------------------
Room == Len(queue) < QueueSize
Put(f) == queue' = Append(queue, f)

(* A transport that is closing swallows what is written to it.             *)
Write(f) == out' = IF sock = "open" THEN Append(out, f) ELSE out
DrainedOpen == sock = "open" /\ Len(out) <= High   (* mutant: not woken by the loss *)
Drained == sock = "lost" \/ Len(out) <= High

PeerGone == client \in {"closed", "refused"}
Eof == sock = "lost" \/ (PeerGone /\ inbox = <<>>)

(* The end of serve(): the sentinel is for the writer loop.                *)
LeaveAlive ==   (* mutant: _alive is left to the watchdog *)
  /\ read' = "leave"
  /\ UNCHANGED alive
  /\ IF Room THEN Put("stop") /\ UNCHANGED dropped
             ELSE dropped' = TRUE /\ UNCHANGED queue
Leave ==
  /\ read' = "leave" /\ alive' = FALSE
  /\ IF Room THEN Put("stop") /\ UNCHANGED dropped
             ELSE dropped' = TRUE /\ UNCHANGED queue

(* _read_loop goes round while the connection is alive and nobody shuts    *)
(* the daemon down.                                                        *)
Loop ==
  IF alive /\ down = "up"
  THEN read' = "read" /\ UNCHANGED <<alive, queue, dropped>>
  ELSE Leave

-----------------------------------------------------------------------------
(* _handshake.                                                             *)

Hello ==
  /\ read = "hello" /\ inbox # <<>>
  /\ inbox' = Tail(inbox)
  /\ \/ ParseHello(ClientHello) = "ok" /\ Write("ack") /\ read' = "ack"
     \/ Write("error") /\ read' = "refuse"             (* another protocol *)
  /\ UNCHANGED <<sock, alive, queue, todo, writer, watchdog, attached, waits, down, peer,
                 history>>

Greeted ==
  /\ read = "ack" /\ Drained
  /\ Loop
  /\ UNCHANGED <<socket, todo, writer, watchdog, attached, waits, down, peer, internal,
                 misread>>

(* The stream has ended, or the last error was sent.                       *)
Ends ==
  /\ \/ read \in {"hello", "read"} /\ Eof
     \/ read \in {"refuse", "fatal"} /\ Drained
  /\ Leave
  /\ UNCHANGED <<socket, todo, writer, watchdog, attached, waits, down, peer, internal,
                 misread>>

-----------------------------------------------------------------------------
(* _read_loop and _dispatch.  What a handler puts on the queue: the answer *)
(* r, which is no more than a "frame" when nobody awaits it, the replay    *)
(* and, in between, the subscription.                                      *)

OpenPuts(r) ==
  {<<r>>, <<r, "attach">>, <<r, "attach", "frame">>, <<"frame">>}
WatchPuts(r) == {<<r>>, <<r, "attach">>, <<r, "attach", "frame">>}
UserPuts == {<<>>, <<"frame">>}

(* A request that fails is answered once, too.                             *)
PutsTwice(f, r) ==   (* mutant: an open that fails is acknowledged all the same *)
  IF Verdict(f) = "ok" /\ f.type = "open" THEN {<<r, r>>} ELSE {<<r>>}
Puts(f, r) ==
  CASE Verdict(f) # "ok"   -> {<<r>>}
    [] f.type = "open"     -> OpenPuts(r)
    [] f.type = "watch"    -> WatchPuts(r)
    [] f.type = "user"     -> UserPuts
    [] OTHER               -> {<<r>>}

Lines(h) ==
  CASE h \in Asks  -> ClientOpens \cup ClientLists
    [] h = "call"  -> ClientCalls
    [] OTHER       -> OtherFrames

Receive ==
  /\ read = "read" /\ inbox # <<>> /\ sock # "lost"
  /\ inbox' = Tail(inbox)
  /\ LET h == Head(inbox)  r == IF h \in Asks THEN h ELSE "frame" IN
     \/ \E f \in Lines(h) :
          /\ todo' \in Puts(f, r)
          /\ internal' = IF h \in Asks /\ todo' = <<"frame">> THEN internal \cup {h} ELSE internal
          /\ misread' = IF h # "other" /\ Verdict(f) \notin {"ok", "unknown_backend"}
                        THEN misread \cup {h} ELSE misread
          /\ read' = "put" /\ UNCHANGED <<out, alive>>
     \/ /\ h = "other"                                          (* no frame *)
        /\ todo' = <<"frame">> /\ read' = "put"
        /\ UNCHANGED <<out, alive, internal, misread>>
     \/ /\ h # "call"                                           (* too long *)
        /\ alive' = FALSE /\ Write("error") /\ read' = "fatal"
        /\ UNCHANGED <<todo, internal, misread>>
  /\ UNCHANGED <<sock, queue, writer, watchdog, attached, waits, down, peer, dropped>>

(* _emit_frame: to nobody once the connection is not alive.                *)
Answer ==
  /\ read = "put" /\ todo # <<>>
  /\ todo' = Tail(todo)
  /\ attached' = (attached \/ Head(todo) = "attach")
  /\ IF Head(todo) = "attach" \/ ~alive THEN UNCHANGED queue ELSE Room /\ Put(Head(todo))
  /\ UNCHANGED <<socket, alive, read, writer, watchdog, waits, down, peer, history>>

NextLine ==
  /\ read = "put" /\ todo = <<>>
  /\ Loop
  /\ UNCHANGED <<socket, todo, writer, watchdog, attached, waits, down, peer, internal,
                 misread>>

-----------------------------------------------------------------------------
(* The rest of serve(): the writer loop has ended, the watchdog is         *)
(* cancelled, the sessions are detached, the transport is closed.          *)
GatheredOnly ==   (* mutant: the sessions keep the connection *)
  /\ read = "leave" /\ writer = "done"
  /\ watchdog' = "done"
  /\ sock' = IF sock = "open" THEN "closing" ELSE sock
  /\ read' = "closing"
  /\ UNCHANGED <<inbox, out, alive, queue, todo, writer, attached, waits, down, peer, history>>
Gathered ==
  /\ read = "leave" /\ writer = "done"
  /\ watchdog' = "done" /\ attached' = FALSE
  /\ sock' = IF sock = "open" THEN "closing" ELSE sock
  /\ read' = "closing"
  /\ UNCHANGED <<inbox, out, alive, queue, todo, writer, waits, down, peer, history>>

Served ==
  /\ read = "closing" /\ sock = "lost"
  /\ read' = "over"
  /\ UNCHANGED <<socket, alive, queue, todo, writer, watchdog, attached, waits, down, peer,
                 history>>

-----------------------------------------------------------------------------
(* _writer_loop and _watchdog.                                             *)

WriterTakes ==
  /\ writer = "get" /\ queue # <<>>
  /\ queue' = Tail(queue)
  /\ IF Head(queue) = "stop" \/ sock = "lost"
     THEN writer' = "done" /\ UNCHANGED out
     ELSE writer' = "drain" /\ Write(Head(queue))
  /\ UNCHANGED <<inbox, sock, alive, read, todo, watchdog, attached, waits, down, peer,
                 history>>

WriterDrained ==
  /\ writer = "drain" /\ Drained
  /\ writer' = IF sock = "lost" THEN "done" ELSE "get"
  /\ UNCHANGED <<socket, alive, queue, read, todo, watchdog, attached, waits, down, peer,
                 history>>

(* No frame was written for _SLOW_CONSUMER_TIMEOUT_S, the queue is full:   *)
(* the writer loop waits, has ended, or had nothing to do until just now.  *)
SlowConsumer ==
  /\ watchdog = "sleep" /\ alive /\ ~Room
  /\ alive' = FALSE /\ Write("error") /\ watchdog' = "drain"
  /\ UNCHANGED <<inbox, sock, queue, read, todo, writer, attached, waits, down, peer, history>>

WatchdogEnds ==
  /\ \/ watchdog = "sleep" /\ ~alive
     \/ watchdog = "drain" /\ Drained
  /\ watchdog' = "done"
  /\ UNCHANGED <<socket, alive, queue, read, todo, writer, attached, waits, down, peer, history>>

-----------------------------------------------------------------------------
(* The sessions: on_event puts an event, as owner or watcher; or a         *)
(* takeover puts its notice.                                               *)

Event ==
  /\ attached /\ alive /\ ~waits
  /\ IF Room THEN Put("frame") /\ UNCHANGED waits ELSE waits' = TRUE /\ UNCHANGED queue
  /\ UNCHANGED <<socket, alive, tasks, attached, down, peer, history>>

(* A put that waits asks nobody whether the connection is still alive.     *)
EventPut ==
  /\ waits /\ Room
  /\ Put("frame") /\ waits' = FALSE
  /\ UNCHANGED <<socket, alive, tasks, attached, down, peer, history>>

-----------------------------------------------------------------------------
(* The transport: one that is closing flushes what it has and is lost; one *)
(* whose peer has gone is lost with the next byte.                         *)
Flushed ==
  /\ \/ sock = "closing" /\ out = <<>>
     \/ sock # "lost" /\ PeerGone /\ out # <<>>
  /\ sock' = "lost" /\ out' = <<>>
  /\ UNCHANGED <<inbox, alive, queue, tasks, attached, waits, down, peer, history>>

-----------------------------------------------------------------------------
(* _shutdown: every connection is told, through its socket, and closed;    *)
(* then the sessions are, with a timeout for each of the two.              *)

Signal ==
  /\ down = "up" /\ down' = "told"
  /\ UNCHANGED <<socket, alive, queue, tasks, attached, waits, peer, history>>

Broadcast ==
  /\ down = "told"
  /\ IF read = "over" THEN down' = "wait" /\ UNCHANGED out
                      ELSE down' = "drain" /\ Write("error")
  /\ UNCHANGED <<inbox, sock, alive, queue, tasks, attached, waits, peer, history>>

CloseTransportJoins ==   (* mutant: serve() is awaited as well *)
  /\ down = "drain" /\ Drained /\ read = "over"
  /\ down' = "wait" /\ alive' = FALSE
  /\ sock' = IF sock = "open" THEN "closing" ELSE sock
  /\ UNCHANGED <<inbox, out, queue, tasks, attached, waits, peer, history>>
CloseTransport ==
  /\ down = "drain" /\ Drained
  /\ down' = "wait" /\ alive' = FALSE
  /\ sock' = IF sock = "open" THEN "closing" ELSE sock
  /\ UNCHANGED <<inbox, out, queue, tasks, attached, waits, peer, history>>

(* The process ends, and everything in it.                                 *)
Stop ==
  /\ down = "wait" /\ down' = "off"
  /\ sock' = "lost" /\ out' = <<>> /\ inbox' = <<>> /\ waits' = FALSE /\ attached' = FALSE
  /\ read' = "over" /\ writer' = "done" /\ watchdog' = "done"
  /\ alive' = FALSE /\ queue' = <<>> /\ todo' = <<>>
  /\ UNCHANGED <<peer, history>>

-----------------------------------------------------------------------------
(* client.py.                                                              *)

Reachable == sock # "lost" /\ read # "over" /\ Len(inbox) < MaxInbox
Unasked == {r \in Asks : pend[r] = "none"}

Ask ==
  /\ client \in {"open", "deaf"} /\ Reachable
  /\ \E r \in Unasked :
       /\ pend' = [pend EXCEPT ![r] = "waiting"]
       /\ inbox' = Append(inbox, r)
  /\ UNCHANGED <<out, sock, alive, queue, tasks, attached, waits, down, client, stalled,
                 history>>

Call ==
  /\ client \in {"open", "deaf"} /\ Reachable
  /\ inbox' \in {Append(inbox, "call"), Append(inbox, "other")}
  /\ UNCHANGED <<out, sock, alive, queue, tasks, attached, waits, down, peer, history>>

(* Nobody reads the reply any more.  The write may fail, or not yet.       *)
AskInVain ==
  /\ client = "lost"
  /\ \E r \in Unasked, how \in {"failed", "adrift"} : pend' = [pend EXCEPT ![r] = how]
  /\ UNCHANGED <<socket, alive, queue, tasks, attached, waits, down, client, stalled, history>>

(* connect() reads the first frame itself; then the reader loop, which a   *)
(* line longer than the limit of the stream ends, a reply like any other.  *)
Reads ==
  /\ client \in {"hello", "open"} /\ ~stalled /\ out # <<>>
  /\ out' = Tail(out)
  /\ LET f == Head(out) IN
     \/ /\ client' = IF client = "open" \/ f = "ack" THEN "open" ELSE "refused"
        /\ pend' = IF client = "open" /\ f \in Asks /\ pend[f] = "waiting"
                   THEN [pend EXCEPT ![f] = "answered"] ELSE pend
     \/ /\ client = "open" /\ f \in Asks \cup {"frame"}               (* too long *)
        /\ client' = "deaf" /\ UNCHANGED pend
  /\ UNCHANGED <<inbox, sock, alive, queue, tasks, attached, waits, down, stalled, history>>

LosesNone(ps) == ps   (* mutant: the reader loop ends and leaves the futures *)
Loses(ps) == [r \in Asks |-> IF ps[r] = "waiting" THEN "failed" ELSE ps[r]]
EndOfStream ==
  /\ client \in {"hello", "open"} /\ ~stalled /\ out = <<>> /\ sock = "lost"
  /\ client' = IF client = "hello" THEN "refused" ELSE "lost"
  /\ pend' = Loses(pend)
  /\ UNCHANGED <<socket, alive, queue, tasks, attached, waits, down, stalled, history>>

Stall ==
  /\ client \in {"hello", "open"}
  /\ stalled' = ~stalled
  /\ UNCHANGED <<socket, alive, queue, tasks, attached, waits, down, client, pend, history>>

(* The reader task is cancelled; the futures stay as they are.             *)
Closes ==
  /\ client \in {"open", "deaf", "lost"}
  /\ client' = "closed" /\ stalled' = FALSE
  /\ UNCHANGED <<socket, alive, queue, tasks, attached, waits, down, pend, history>>

-----------------------------------------------------------------------------
Init ==
  /\ inbox = <<"hello">> /\ out = <<>> /\ sock = "open"
  /\ alive = TRUE /\ queue = <<>> /\ attached = FALSE /\ waits = FALSE /\ down = "up"
  /\ read = "hello" /\ todo = <<>> /\ writer = "get" /\ watchdog = "sleep"
  /\ client = "hello" /\ stalled = FALSE /\ pend = [r \in Asks |-> "none"]
  /\ dropped = FALSE /\ internal = {} /\ misread = {}

Serve == Hello \/ Greeted \/ Ends \/ Receive \/ Answer \/ NextLine \/ Gathered \/ Served
WriterLoop == WriterTakes \/ WriterDrained
Watchdog == SlowConsumer \/ WatchdogEnds
Shutdown == Broadcast \/ CloseTransport \/ Stop
ClientLoop == Reads \/ EndOfStream

Next ==
  \/ Serve \/ WriterLoop \/ Watchdog \/ Event \/ EventPut \/ Flushed
  \/ Signal \/ Shutdown
  \/ ClientLoop \/ Ask \/ Call \/ AskInVain \/ Stall \/ Closes

(* The loop of either process runs every task that is ready, timers go     *)
(* off, and sockets deliver.  Nobody has to ask, to leave, to produce an   *)
(* event or to shut the daemon down; a client that stalls may stay so.     *)
(* Every frame taken from the queue wakes a put that waits; another one    *)
(* may take the room first, but not for ever.  A transport that drains     *)
(* wakes everyone who waits for that.                                      *)
Fairness ==
  /\ WF_vars(Serve) /\ WF_vars(WriterLoop) /\ WF_vars(Watchdog)
  /\ SF_vars(Answer) /\ SF_vars(EventPut) /\ SF_vars(CloseTransport)
  /\ WF_vars(Flushed) /\ WF_vars(Shutdown) /\ WF_vars(ClientLoop)

Spec == Init /\ [][Next]_vars /\ Fairness

-----------------------------------------------------------------------------
SocketType ==
  /\ inbox \in Seq(Asks \cup {"hello", "call", "other"}) /\ Len(inbox) <= MaxInbox
  /\ out \in Seq((Asks \cup Tokens) \ {"stop"})
  /\ sock \in {"open", "closing", "lost"} /\ (sock = "lost" => out = <<>>)

QueueType ==
  /\ queue \in Seq((Asks \cup Tokens) \ {"ack", "error"}) /\ Len(queue) <= QueueSize
  /\ \A i \in DOMAIN queue : queue[i] = "stop" =>
       ~alive /\ \A j \in i + 1 .. Len(queue) : queue[j] = "frame"

TaskType ==
  /\ read \in {"hello", "ack", "refuse", "read", "put", "fatal", "leave", "closing", "over"}
  /\ todo \in Seq(Asks \cup {"frame", "attach"}) /\ (todo # <<>> => read = "put")
  /\ writer \in {"get", "drain", "done"} /\ watchdog \in {"sleep", "drain", "done"}
  /\ down \in {"up", "told", "drain", "wait", "off"}

FlagType ==
  /\ alive \in BOOLEAN /\ attached \in BOOLEAN /\ stalled \in BOOLEAN
  /\ dropped \in BOOLEAN /\ waits \in BOOLEAN

ClientType ==
  /\ client \in {"hello", "open", "deaf", "lost", "refused", "closed"}
  /\ pend \in [Asks -> {"none", "waiting", "answered", "failed", "adrift"}]
  /\ internal \subseteq Asks /\ misread \subseteq Asks \cup {"call"}

(* Types.  Beyond the ranges: the queue keeps its bound, nothing is behind *)
(* the sentinel but events that waited when it was put, and a lost         *)
(* transport holds nothing (daemon.py, Connection; client.py).             *)
TypeOK == SocketType /\ QueueType /\ TaskType /\ FlagType /\ ClientType

Times(r, s) == Cardinality({i \in DOMAIN s : s[i] = r})

(* A request is answered once, whatever becomes of it: it is on its way,   *)
(* its answer is about to be queued, queued or on its way, or the client   *)
(* has it (daemon.py, _dispatch and the handlers; client.py, _pending).    *)
AnsweredOnce ==
  \A r \in Asks :
    /\ Times(r, inbox) + Times(r, todo) + Times(r, queue) + Times(r, out)
         + (IF pend[r] = "answered" THEN 1 ELSE 0) <= 1
    /\ pend[r] = "none" => Times(r, inbox \o todo \o queue \o out) = 0

(* The daemon's strict parsers refuse nothing the library sends but the    *)
(* name of an unknown backend (client.py against protocol.py, parse_open   *)
(* to parse_close).                                                        *)
ClientUnderstood == misread = {}

(* A handler waits for room on a queue nobody takes from any more; or the  *)
(* writer loop waits for the sentinel that found no room.                  *)
Wedged ==
  \/ read = "put" /\ writer = "done" /\ ~Room
  \/ read = "leave" /\ writer = "get" /\ queue = <<>> /\ dropped

(* A client that leaves is noticed and its sessions are detached, however  *)
(* much was queued for it.  The exceptions are the two ways serve() hangs  *)
(* for good, both for want of room on the queue (daemon.py:176-189).       *)
LeaverDetached == PeerGone ~> ~attached \/ Wedged

(* A call of the library that awaits a reply returns or raises while the   *)
(* client reads.  The exceptions: a line longer than the stream limit of   *)
(* the client has ended its reader loop (client.py:231-245), the daemon    *)
(* answered with an internal error, which carries no id (daemon.py:314), a *)
(* call after the end of the stream, and a dropped sentinel.               *)
NoRequestHangs ==
  \A r \in Asks :
    pend[r] = "waiting" ~>
      \/ pend[r] # "waiting" \/ r \in internal
      \/ client \in {"deaf", "closed"} \/ stalled \/ Wedged

(* The stream of a session is held up by a connection only as long as its  *)
(* peer is there and does not read.  The exception: the writer loop ended  *)
(* with the queue full, and the put waits for ever (daemon.py:885-895).    *)
PutsReturn ==
  waits ~>
    \/ ~waits \/ stalled \/ client = "deaf"
    \/ (writer = "done" /\ ~Room)

(* Shutdown ends, unless a client that is there does not read: it is told  *)
(* first and its socket drained without a timeout (daemon.py:1131-1132).   *)
ShutdownEnds == down = "told" ~> down = "off" \/ stalled \/ client = "deaf"
=============================================================================
