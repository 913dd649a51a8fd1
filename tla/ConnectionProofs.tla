-------------------------- MODULE ConnectionProofs --------------------------
(***************************************************************************)
(* Proofs about Connection, for any number of requests, any length of the  *)
(* queue and of the transport: its type invariant with what may be behind  *)
(* the sentinel, that the library is understood, and that no request is    *)
(* answered twice.                                                         *)
(***************************************************************************)
EXTENDS Connection, TLAPS, SequenceTheorems, FiniteSetTheorems

(* serve() has left its loop.                                              *)
Left == {"leave", "closing", "over"}

(* The hello is the first line, and is read before any other.              *)
Greeting == \A i \in DOMAIN inbox : inbox[i] = "hello" => i = 1 /\ read \in {"hello"} \cup Left

(* The sentinel is put when serve() leaves, and no handler puts any more.  *)
StopPut == \A i \in DOMAIN queue : queue[i] = "stop" => read \in Left

ConnInv == TypeOK /\ Greeting /\ StopPut

-----------------------------------------------------------------------------
(* Parsing.                                                                *)

(* Of what the library sends nothing is refused, but an unknown backend.   *)
LEMMA LibraryIsUnderstood ==
  ASSUME NEW f \in ClientOpens \cup ClientLists \cup ClientCalls
  PROVE  Verdict(f) \in {"ok", "unknown_backend"}
<1>. USE DEF Frame, Strict, RejectExtraKeys
<1>1. CASE f \in ClientOpens
  <2>1. PICK more \in SUBSET {"resume", "last_seen_seq"}, bad \in {{}, {"odd"}} :
          f = [type |-> "open", has |-> {"id", "session_id", "backend", "options"} \cup more,
               bad |-> bad]
    BY <1>1 DEF ClientOpens
  <2>2. f.type = "open" /\ Verdict(f) = ParseOpen(f)
    BY <2>1 DEF Verdict
  <2>3. f.bad \cap f.has = {}
    BY <2>1
  <2>4. /\ {"session_id", "backend", "options"} \subseteq f.has
        /\ f.has \subseteq {"session_id", "backend", "options"}
                             \cup {"id", "resume", "last_seen_seq", "alias"}
    BY <2>1
  <2>. QED  BY <2>2, <2>3, <2>4 DEF ParseOpen, OpenOf
<1>2. CASE f \in ClientLists
  BY <1>2 DEF ClientLists, Verdict, ParseListSessions, Checked
<1>3. CASE f \in ClientCalls
  <2>1. CASE f = [type |-> "user", has |-> {"session_id", "message"}, bad |-> {}]
    BY <2>1 DEF Verdict, ParseUser
  <2>2. CASE f = [type |-> "interrupt", has |-> {"session_id"}, bad |-> {}]
    BY <2>2 DEF Verdict, ParseInterrupt
  <2>3. CASE f = [type |-> "close", has |-> {"session_id", "delete"}, bad |-> {}]
    BY <2>3 DEF Verdict, ParseClose
  <2>. QED  BY <1>3, <2>1, <2>2, <2>3 DEF ClientCalls
<1>. QED  BY <1>1, <1>2, <1>3

-----------------------------------------------------------------------------
(* Sequences.                                                              *)

LEMMA AppendElements ==
  ASSUME NEW S, NEW s \in Seq(S), NEW x \in S
  PROVE  /\ Append(s, x) \in Seq(S) /\ Len(Append(s, x)) = Len(s) + 1 /\ Len(s) \in Nat
         /\ DOMAIN s = 1 .. Len(s) /\ DOMAIN Append(s, x) = 1 .. (Len(s) + 1)
         /\ \A i \in 1 .. Len(s) : Append(s, x)[i] = s[i]
         /\ Append(s, x)[Len(s) + 1] = x
BY AppendProperties, LenProperties

LEMMA TailElements ==
  ASSUME NEW S, NEW s \in Seq(S), s # <<>>
  PROVE  /\ Tail(s) \in Seq(S) /\ Len(Tail(s)) = Len(s) - 1 /\ Len(s) \in Nat \ {0}
         /\ DOMAIN s = 1 .. Len(s) /\ DOMAIN Tail(s) = 1 .. (Len(s) - 1)
         /\ \A i \in 1 .. (Len(s) - 1) : Tail(s)[i] = s[i + 1]
         /\ Head(s) = s[1] /\ Head(s) \in S
BY HeadTailProperties, LenProperties, EmptySeq

-----------------------------------------------------------------------------
(* Type correctness.                                                       *)

LEMMA TypeFields ==
  ASSUME ConnInv
  PROVE  /\ SocketType /\ QueueType /\ TaskType /\ FlagType /\ ClientType
         /\ QueueSize \in Nat \ {0} /\ MaxInbox \in Nat \ {0} /\ High \in Nat
BY ConnectionAssumption DEF ConnInv, TypeOK

(* The tasks, the flags and the client.                                    *)
LEMMA PutsType ==
  ASSUME NEW f, NEW r \in Asks \cup {"frame"}
  PROVE  Puts(f, r) \subseteq Seq(Asks \cup {"frame", "attach"})
<1>1. /\ <<>> \in Seq(Asks \cup {"frame", "attach"})
      /\ <<r>> \in Seq(Asks \cup {"frame", "attach"})
      /\ <<"frame">> \in Seq(Asks \cup {"frame", "attach"})
      /\ <<r, "attach">> \in Seq(Asks \cup {"frame", "attach"})
      /\ <<r, "attach", "frame">> \in Seq(Asks \cup {"frame", "attach"})
  OBVIOUS
<1>. QED  BY <1>1 DEF Puts, OpenPuts, WatchPuts, UserPuts

LEMMA TasksStep ==
  ASSUME ConnInv, [Next]_vars
  PROVE  TaskType'
<1>. USE DEF TaskType
<1>0. TaskType /\ SocketType
  BY TypeFields
<1>1. CASE Receive
  <2>1. CASE todo' = todo /\ read' = "fatal"
    BY <1>0, <1>1, <2>1 DEF Receive
  <2>2. CASE todo' = <<"frame">> /\ read' = "put"
    BY <1>0, <1>1, <2>2 DEF Receive
  <2>3. CASE \E f, r : r \in Asks \cup {"frame"} /\ todo' \in Puts(f, r) /\ read' = "put"
    BY <1>0, <1>1, <2>3, PutsType DEF Receive
  <2>. QED  BY <1>1, <2>1, <2>2, <2>3 DEF Receive
<1>2. CASE Answer
  BY <1>0, <1>2, TailElements DEF Answer
<1>3. CASE Stop
  BY <1>0, <1>3, EmptySeq DEF Stop
<1>4. CASE Hello \/ Greeted \/ Ends \/ NextLine \/ Gathered \/ Served
  BY <1>0, <1>4 DEF Hello, Greeted, Ends, NextLine, Gathered, Served, Leave, Loop
<1>5. CASE WriterLoop \/ Watchdog \/ Event \/ EventPut \/ Flushed \/ Signal \/ Broadcast
           \/ CloseTransport
  BY <1>0, <1>5 DEF WriterLoop, WriterTakes, WriterDrained, Watchdog, SlowConsumer, WatchdogEnds,
     Event, EventPut, Flushed, Signal, Broadcast, CloseTransport, tasks
<1>6. CASE ClientLoop \/ Ask \/ Call \/ AskInVain \/ Stall \/ Closes \/ UNCHANGED vars
  BY <1>0, <1>6 DEF ClientLoop, Reads, EndOfStream, Ask, Call, AskInVain, Stall, Closes, tasks, vars
<1>. QED  BY <1>1, <1>2, <1>3, <1>4, <1>5, <1>6 DEF Next, Serve, Shutdown

LEMMA FlagsStep ==
  ASSUME ConnInv, [Next]_vars
  PROVE  FlagType' /\ (alive' = alive \/ alive' = FALSE)
<1>0. FlagType
  BY TypeFields
<1>1. CASE Serve
  <2>1. /\ alive' = alive \/ alive' = FALSE
        /\ dropped' = dropped \/ dropped' = TRUE
        /\ attached' = attached \/ attached' = FALSE \/ attached' = TRUE
        /\ stalled' = stalled /\ waits' = waits
    <3>1. CASE Hello \/ Gathered \/ Served
      BY <3>1 DEF Hello, Gathered, Served, peer, history
    <3>2. CASE Ends \/ Greeted \/ NextLine
      BY <3>2 DEF Ends, Greeted, NextLine, Leave, Loop, peer
    <3>3. CASE Receive
      BY <3>3 DEF Receive, peer
    <3>4. CASE Answer
      BY <1>0, <3>4 DEF Answer, FlagType, peer, history
    <3>. QED  BY <1>1, <3>1, <3>2, <3>3, <3>4 DEF Serve
  <2>. QED  BY <1>0, <2>1 DEF FlagType
<1>2. CASE WriterLoop \/ Watchdog \/ Event \/ EventPut \/ Flushed
  <2>1. /\ alive' = alive \/ alive' = FALSE
        /\ waits' = waits \/ waits' = FALSE \/ waits' = TRUE
        /\ UNCHANGED <<stalled, attached, dropped>>
    BY <1>2 DEF WriterLoop, WriterTakes, WriterDrained, Watchdog, SlowConsumer, WatchdogEnds,
       Event, EventPut, Flushed, peer, history
  <2>. QED  BY <1>0, <2>1 DEF FlagType
<1>3. CASE Signal \/ Shutdown
  <2>1. /\ alive' = alive \/ alive' = FALSE
        /\ waits' = waits \/ waits' = FALSE
        /\ attached' = attached \/ attached' = FALSE
        /\ UNCHANGED <<stalled, dropped>>
    BY <1>3 DEF Signal, Shutdown, Broadcast, CloseTransport, Stop, peer, history
  <2>. QED  BY <1>0, <2>1 DEF FlagType
<1>4. CASE ClientLoop \/ Ask \/ Call \/ AskInVain \/ Closes \/ UNCHANGED vars
  <2>1. /\ stalled' = stalled \/ stalled' = FALSE
        /\ UNCHANGED <<alive, attached, dropped, waits>>
    BY <1>4 DEF ClientLoop, Reads, EndOfStream, Ask, Call, AskInVain, Closes, history, vars, peer
  <2>. QED  BY <1>0, <2>1 DEF FlagType
<1>5. CASE Stall
  <2>1. stalled' = ~stalled /\ UNCHANGED <<alive, attached, dropped, waits>>
    BY <1>5 DEF Stall, history
  <2>. QED  BY <1>0, <2>1 DEF FlagType
<1>. QED  BY <1>1, <1>2, <1>3, <1>4, <1>5 DEF Next

(* The requests: the client's futures, and what became of them.            *)
LEMMA InboxHead ==
  ASSUME ConnInv, inbox # <<>>
  PROVE  /\ Head(inbox) \in Asks \cup {"hello", "call", "other"}
         /\ read = "read" => Head(inbox) # "hello"
<1>1. inbox \in Seq(Asks \cup {"hello", "call", "other"})
  BY TypeFields DEF SocketType
<1>2. Head(inbox) = inbox[1] /\ 1 \in DOMAIN inbox
  BY <1>1, TailElements
<1>3. Head(inbox) \in Asks \cup {"hello", "call", "other"}
  BY <1>1, TailElements
<1>. QED  BY <1>2, <1>3 DEF ConnInv, Greeting, Left

LEMMA ReceiveKnows ==
  ASSUME ConnInv, Receive
  PROVE  misread' = misread /\ internal' \subseteq Asks
<1>1. internal' \subseteq Asks
  BY TypeFields DEF Receive, ClientType
<1>2. CASE misread' = misread
  BY <1>1, <1>2
<1>3. CASE misread' # misread
  <2>1. PICK f \in Lines(Head(inbox)) :
          Head(inbox) # "other" /\ Verdict(f) \notin {"ok", "unknown_backend"}
    BY <1>3 DEF Receive
  <2>2. Head(inbox) \in Asks \/ Head(inbox) = "call"
    BY <2>1, InboxHead DEF Receive
  <2>3. Lines(Head(inbox)) \subseteq ClientOpens \cup ClientLists \cup ClientCalls
    BY <2>2 DEF Lines
  <2>. QED  BY <2>1, <2>3, LibraryIsUnderstood
<1>. QED  BY <1>1, <1>2, <1>3

LEMMA ClientStep ==
  ASSUME ConnInv, [Next]_vars
  PROVE  ClientType' /\ misread' = misread
<1>. USE DEF ClientType
<1>0. ClientType
  BY TypeFields
<1>1. CASE Receive
  BY <1>0, <1>1, ReceiveKnows DEF Receive, peer
<1>2. CASE Hello \/ Greeted \/ Ends \/ Answer \/ NextLine \/ Gathered \/ Served
  BY <1>0, <1>2 DEF Hello, Greeted, Ends, Answer, NextLine, Gathered, Served, Leave, Loop, peer,
     history
<1>3. CASE WriterLoop \/ Watchdog \/ Event \/ EventPut \/ Flushed \/ Signal \/ Shutdown
  BY <1>0, <1>3 DEF WriterLoop, WriterTakes, WriterDrained, Watchdog, SlowConsumer, WatchdogEnds,
     Event, EventPut, Flushed, Signal, Shutdown, Broadcast, CloseTransport, Stop, peer, history
<1>4. CASE Reads
  <2>1. pend' = pend \/ \E r \in Asks : pend' = [pend EXCEPT ![r] = "answered"]
    BY <1>4 DEF Reads
  <2>2. client' \in {"open", "refused", "deaf"}
    BY <1>4 DEF Reads
  <2>. QED  BY <1>0, <1>4, <2>1, <2>2 DEF Reads, history
<1>5. CASE EndOfStream \/ Ask \/ AskInVain
  BY <1>0, <1>5 DEF EndOfStream, Loses, Ask, AskInVain, Unasked, history
<1>6. CASE Call \/ Stall \/ Closes \/ UNCHANGED vars
  BY <1>0, <1>6 DEF Call, Stall, Closes, peer, history, vars
<1>. QED  BY <1>1, <1>2, <1>3, <1>4, <1>5, <1>6 DEF Next, Serve, ClientLoop

(* The lines on their way to the daemon.                                   *)
LEMMA InboxStep ==
  ASSUME ConnInv, [Next]_vars
  PROVE  /\ inbox' \in Seq(Asks \cup {"hello", "call", "other"}) /\ Len(inbox') <= MaxInbox
         /\ Greeting'
<1>. DEFINE Word == Asks \cup {"hello", "call", "other"}
<1>0. inbox \in Seq(Word) /\ Len(inbox) <= MaxInbox /\ MaxInbox \in Nat \ {0}
  BY TypeFields DEF SocketType
<1>1. CASE inbox' = inbox /\ (read = "hello" => read' \in {"hello"} \cup Left)
                          /\ (read \in Left => read' \in Left)
  BY <1>0, <1>1 DEF ConnInv, Greeting, Left
<1>2. CASE inbox # <<>> /\ inbox' = Tail(inbox)
  <2>1. inbox' \in Seq(Word) /\ Len(inbox') <= MaxInbox /\ Len(inbox) \in Nat
    BY <1>0, <1>2, TailElements
  <2>2. \A i \in DOMAIN inbox' : inbox'[i] = inbox[i + 1] /\ i + 1 \in DOMAIN inbox /\ i + 1 # 1
    BY <1>0, <1>2, TailElements
  <2>. QED  BY <2>1, <2>2 DEF ConnInv, Greeting
<1>3. CASE \E h \in Word \ {"hello"} :
             inbox' = Append(inbox, h) /\ Len(inbox) < MaxInbox /\ read' = read
  <2>1. PICK h \in Word \ {"hello"} :
          inbox' = Append(inbox, h) /\ Len(inbox) < MaxInbox /\ read' = read
    BY <1>3
  <2>2. inbox' \in Seq(Word) /\ Len(inbox') <= MaxInbox
    BY <1>0, <2>1, AppendElements
  <2>3. \A i \in DOMAIN inbox' : inbox'[i] = "hello" => i \in DOMAIN inbox /\ inbox[i] = "hello"
    BY <1>0, <2>1, AppendElements
  <2>. QED  BY <2>1, <2>2, <2>3 DEF ConnInv, Greeting
<1>4. CASE inbox' = <<>>
  BY <1>0, <1>4, EmptySeq DEF Greeting
<1>5. CASE Hello \/ Receive
  BY <1>2, <1>5 DEF Hello, Receive
<1>6. CASE Greeted \/ Ends \/ Answer \/ NextLine \/ Gathered \/ Served
  BY <1>1, <1>6 DEF Greeted, Ends, Answer, NextLine, Gathered, Served, Leave, Loop, socket, Left
<1>7. CASE WriterLoop \/ Watchdog \/ Event \/ EventPut \/ Flushed \/ Signal \/ Broadcast
           \/ CloseTransport
  BY <1>1, <1>7 DEF WriterLoop, WriterTakes, WriterDrained, Watchdog, SlowConsumer, WatchdogEnds,
     Event, EventPut, Flushed, Signal, Broadcast, CloseTransport, socket, tasks, Left
<1>8. CASE Stop
  BY <1>4, <1>8 DEF Stop
<1>9. CASE ClientLoop \/ AskInVain \/ Stall \/ Closes \/ UNCHANGED vars
  BY <1>1, <1>9 DEF ClientLoop, Reads, EndOfStream, AskInVain, Stall, Closes, socket, tasks, vars,
     Left
<1>10. CASE Ask \/ Call
  <2>1. "call" \in Word \ {"hello"} /\ "other" \in Word \ {"hello"} /\ Asks \subseteq Word \ {"hello"}
    BY ConnectionAssumption
  <2>. QED  BY <1>3, <1>10, <2>1 DEF Ask, Call, Reachable, Unasked, tasks
<1>. QED  BY <1>5, <1>6, <1>7, <1>8, <1>9, <1>10 DEF Next, Serve, Shutdown

(* The frames on their way to the client.                                  *)
LEMMA QueueHead ==
  ASSUME ConnInv, queue # <<>>
  PROVE  /\ queue \in Seq((Asks \cup Tokens) \ {"ack", "error"})
         /\ Head(queue) \in (Asks \cup Tokens) \ {"ack", "error"}
BY TypeFields, TailElements DEF QueueType

LEMMA OutStep ==
  ASSUME ConnInv, [Next]_vars
  PROVE  SocketType'
<1>. DEFINE Frames == (Asks \cup Tokens) \ {"stop"}
<1>0. /\ out \in Seq(Frames) /\ sock \in {"open", "closing", "lost"}
      /\ sock = "lost" => out = <<>>
  BY TypeFields DEF SocketType
<1>. SUFFICES /\ out' \in Seq(Frames)
              /\ sock' \in {"open", "closing", "lost"} /\ (sock' = "lost" => out' = <<>>)
  BY InboxStep DEF SocketType
<1>1. CASE UNCHANGED <<out, sock>>
  BY <1>0, <1>1
<1>2. ASSUME NEW f \in Frames, Write(f), sock' = sock
      PROVE  out' \in Seq(Frames) /\ sock' \in {"open", "closing", "lost"}
             /\ (sock' = "lost" => out' = <<>>)
  BY <1>0, <1>2, AppendElements DEF Write
<1>3. "error" \in Frames /\ "ack" \in Frames /\ "frame" \in Frames
  BY ConnectionAssumption DEF Tokens
<1>4. CASE Hello \/ Receive
  BY <1>1, <1>2, <1>3, <1>4 DEF Hello, Receive
<1>5. CASE WriterTakes
  <2>1. CASE Head(queue) = "stop" \/ sock = "lost"
    BY <1>1, <1>5, <2>1 DEF WriterTakes
  <2>2. CASE ~(Head(queue) = "stop" \/ sock = "lost")
    BY <1>2, <1>5, <2>2, QueueHead DEF WriterTakes
  <2>. QED  BY <2>1, <2>2
<1>6. CASE SlowConsumer \/ Broadcast
  BY <1>1, <1>2, <1>3, <1>6 DEF SlowConsumer, Broadcast
<1>7. CASE Flushed \/ Stop
  BY <1>7, EmptySeq DEF Flushed, Stop
<1>8. CASE Gathered \/ CloseTransport
  BY <1>0, <1>8 DEF Gathered, CloseTransport
<1>9. CASE Reads
  BY <1>0, <1>9, TailElements DEF Reads
<1>10. CASE Greeted \/ Ends \/ Answer \/ NextLine \/ Served \/ WriterDrained \/ WatchdogEnds
            \/ Event \/ EventPut \/ Signal
  BY <1>1, <1>10 DEF Greeted, Ends, Answer, NextLine, Served, WriterDrained, WatchdogEnds,
     Event, EventPut, Signal, socket
<1>11. CASE EndOfStream \/ Ask \/ Call \/ AskInVain \/ Stall \/ Closes \/ UNCHANGED vars
  BY <1>1, <1>11 DEF EndOfStream, Ask, Call, AskInVain, Stall, Closes, socket, vars
<1>. QED  BY <1>4, <1>5, <1>6, <1>7, <1>8, <1>9, <1>10, <1>11
          DEF Next, Serve, WriterLoop, Watchdog, Shutdown, ClientLoop

(* The queue.  Whoever puts a frame has found room, and while a handler    *)
(* puts, the sentinel is not there yet.                                    *)
LEMMA QueueStep ==
  ASSUME ConnInv, [Next]_vars
  PROVE  QueueType' /\ StopPut'
<1>. DEFINE Frames == (Asks \cup Tokens) \ {"ack", "error"}
<1>0. /\ queue \in Seq(Frames) /\ Len(queue) <= QueueSize /\ QueueSize \in Nat \ {0}
      /\ Len(queue) \in Nat /\ DOMAIN queue = 1 .. Len(queue)
      /\ "frame" \in Frames /\ "stop" \in Frames
  BY TypeFields, LenProperties, ConnectionAssumption DEF QueueType, Tokens
<1>1. /\ \A i \in 1 .. Len(queue) : queue[i] = "stop" =>
            ~alive /\ \A j \in i + 1 .. Len(queue) : queue[j] = "frame"
      /\ \A i \in 1 .. Len(queue) : queue[i] = "stop" => read \in Left
  BY <1>0, TypeFields DEF QueueType, ConnInv, StopPut
<1>2. alive' = alive \/ alive' = FALSE
  BY FlagsStep
<1>3. read \in Left => read' \in Left
  BY DEF Next, Serve, Hello, Greeted, Ends, Receive, Answer, NextLine, Gathered, Served, Leave,
     Loop, WriterLoop, WriterTakes, WriterDrained, Watchdog, SlowConsumer, WatchdogEnds, Event, EventPut,
     Flushed, Signal, Shutdown, Broadcast, CloseTransport, Stop, ClientLoop, Reads, EndOfStream,
     Ask, Call, AskInVain, Stall, Closes, vars, tasks, Left
<1>4. CASE queue' = queue
  BY <1>0, <1>1, <1>2, <1>3, <1>4 DEF QueueType, StopPut
<1>5. CASE queue' = <<>>
  BY <1>0, <1>5, EmptySeq DEF QueueType, StopPut
<1>6. CASE queue # <<>> /\ queue' = Tail(queue)
  <2>1. /\ queue' \in Seq(Frames) /\ Len(queue') = Len(queue) - 1
        /\ DOMAIN queue' = 1 .. (Len(queue) - 1)
        /\ \A i \in 1 .. (Len(queue) - 1) : queue'[i] = queue[i + 1]
    BY <1>0, <1>6, TailElements
  <2>2. \A i \in DOMAIN queue' : i + 1 \in 1 .. Len(queue) /\ queue'[i] = queue[i + 1]
    BY <1>0, <2>1
  <2>3. \A i \in DOMAIN queue' : queue'[i] = "stop" =>
          ~alive' /\ \A j \in i + 1 .. Len(queue') : queue'[j] = "frame"
    <3>. SUFFICES ASSUME NEW i \in DOMAIN queue', queue'[i] = "stop"
                  PROVE  ~alive' /\ \A j \in i + 1 .. Len(queue') : queue'[j] = "frame"
      OBVIOUS
    <3>1. ~alive /\ \A j \in (i + 1) + 1 .. Len(queue) : queue[j] = "frame"
      BY <1>1, <2>2
    <3>2. \A j \in i + 1 .. Len(queue') :
            queue'[j] = queue[j + 1] /\ j + 1 \in (i + 1) + 1 .. Len(queue)
      BY <1>0, <2>1
    <3>. QED  BY <1>2, <3>1, <3>2
  <2>. QED  BY <1>0, <1>1, <1>3, <2>1, <2>2, <2>3 DEF QueueType, StopPut
<1>7. ASSUME NEW f \in Frames, Len(queue) < QueueSize, queue' = Append(queue, f),
             f # "frame" => \A i \in 1 .. Len(queue) : queue[i] # "stop",
             f = "stop" => ~alive' /\ read' \in Left
      PROVE  QueueType' /\ StopPut'
  <2>1. /\ queue' \in Seq(Frames) /\ Len(queue') = Len(queue) + 1
        /\ DOMAIN queue' = 1 .. (Len(queue) + 1)
        /\ \A i \in 1 .. Len(queue) : queue'[i] = queue[i]
        /\ queue'[Len(queue) + 1] = f
    BY <1>0, <1>7, AppendElements
  <2>2. \A i \in DOMAIN queue' : i \in 1 .. Len(queue) \/ i = Len(queue) + 1
    BY <1>0, <2>1
  <2>3. \A i \in DOMAIN queue' : queue'[i] = "stop" => ~alive'
    BY <1>1, <1>2, <1>7, <2>1, <2>2
  <2>4. \A i \in DOMAIN queue' : queue'[i] = "stop" => read' \in Left
    BY <1>1, <1>3, <1>7, <2>1, <2>2
  <2>5. \A i \in DOMAIN queue' : queue'[i] = "stop" =>
          \A j \in i + 1 .. Len(queue') : queue'[j] = "frame"
    <3>. SUFFICES ASSUME NEW i \in DOMAIN queue', queue'[i] = "stop",
                         NEW j \in i + 1 .. Len(queue')
                  PROVE  queue'[j] = "frame"
      OBVIOUS
    <3>1. i \in 1 .. Len(queue) /\ queue[i] = "stop"
      BY <1>0, <2>1, <2>2
    <3>2. f = "frame"
      BY <1>7, <3>1
    <3>3. j \in i + 1 .. Len(queue) \/ j = Len(queue) + 1
      BY <1>0, <2>1
    <3>. QED  BY <1>0, <1>1, <2>1, <3>1, <3>2, <3>3
  <2>. QED  BY <1>0, <1>7, <2>1, <2>3, <2>4, <2>5 DEF QueueType, StopPut
<1>8. CASE Leave /\ read \notin Left
  <2>1. CASE Room
    BY <1>0, <1>1, <1>7, <1>8, <2>1 DEF Leave, Room, Put, Left
  <2>. QED  BY <1>4, <1>8, <2>1 DEF Leave
<1>9. CASE Ends \/ Greeted \/ NextLine
  BY <1>4, <1>8, <1>9 DEF Ends, Greeted, NextLine, Loop, Left
<1>10. CASE Answer
  <2>1. CASE Head(todo) = "attach" \/ ~alive
    BY <1>4, <1>10, <2>1 DEF Answer
  <2>2. CASE Head(todo) # "attach" /\ alive
    <3>1. todo \in Seq(Asks \cup {"frame", "attach"}) /\ todo # <<>>
      BY <1>10, TypeFields DEF Answer, TaskType
    <3>2. Head(todo) \in Asks \cup {"frame"}
      BY <2>2, <3>1, TailElements
    <3>3. Head(todo) \in Frames /\ Head(todo) # "stop"
      BY <3>2, ConnectionAssumption DEF Tokens
    <3>4. \A i \in 1 .. Len(queue) : queue[i] # "stop"
      BY <1>1, <2>2
    <3>. QED  BY <1>7, <1>10, <2>2, <3>3, <3>4 DEF Answer, Room, Put
  <2>. QED  BY <2>1, <2>2
<1>11. CASE Event \/ EventPut
  <2>1. "frame" # "stop"
    OBVIOUS
  <2>. QED  BY <1>0, <1>4, <1>7, <1>11, <2>1 DEF Event, EventPut, Room, Put
<1>12. CASE WriterTakes
  BY <1>6, <1>12 DEF WriterTakes
<1>13. CASE Stop
  BY <1>5, <1>13 DEF Stop
<1>14. CASE Hello \/ Receive \/ Gathered \/ Served \/ WriterDrained \/ Watchdog
            \/ Flushed \/ Signal \/ Broadcast \/ CloseTransport
  BY <1>4, <1>14 DEF Hello, Receive, Gathered, Served, WriterDrained, Watchdog,
     SlowConsumer, WatchdogEnds, Flushed, Signal, Broadcast, CloseTransport
<1>15. CASE ClientLoop \/ Ask \/ Call \/ AskInVain \/ Stall \/ Closes \/ UNCHANGED vars
  BY <1>4, <1>15 DEF ClientLoop, Reads, EndOfStream, Ask, Call, AskInVain, Stall, Closes, vars
<1>. QED  BY <1>9, <1>10, <1>11, <1>12, <1>13, <1>14, <1>15 DEF Next, Serve, WriterLoop, Shutdown

LEMMA InitConn == Init => ConnInv
<1>. SUFFICES ASSUME Init PROVE ConnInv
  OBVIOUS
<1>1. /\ inbox = <<"hello">> /\ Len(inbox) = 1 /\ DOMAIN inbox = 1 .. 1
      /\ inbox \in Seq(Asks \cup {"hello", "call", "other"})
  BY DEF Init
<1>2. SocketType
  BY <1>1, EmptySeq, ConnectionAssumption DEF Init, SocketType
<1>3. QueueType /\ StopPut
  BY EmptySeq, ConnectionAssumption DEF Init, QueueType, StopPut
<1>4. TaskType /\ FlagType /\ ClientType
  BY EmptySeq DEF Init, TaskType, FlagType, ClientType
<1>5. Greeting
  BY <1>1 DEF Init, Greeting
<1>. QED  BY <1>2, <1>3, <1>4, <1>5 DEF ConnInv, TypeOK

LEMMA NextConn == ConnInv /\ [Next]_vars => ConnInv'
BY TasksStep, FlagsStep, ClientStep, InboxStep, OutStep, QueueStep DEF ConnInv, TypeOK

LEMMA ConnInduction == Spec => []ConnInv
BY InitConn, NextConn, PTL DEF Spec

(* The queue keeps its bound and its sentinel its place: behind it there   *)
(* are only events that were waiting when serve() put it, so the writer    *)
(* loop sends every answer before it ends (daemon.py:131, 176-189, 885).   *)
THEOREM ConnectionTypeCorrect == Spec => []TypeOK
BY ConnInduction, PTL DEF ConnInv

(* Nothing the library sends is refused by the daemon's strict parsers     *)
(* (client.py against protocol.py), but the name of an unknown backend,    *)
(* in whatever order its lines are read.                                   *)
THEOREM LibraryUnderstood == Spec => []ClientUnderstood
<1>1. Init => ClientUnderstood
  BY DEF Init, ClientUnderstood
<1>2. ConnInv /\ ClientUnderstood /\ [Next]_vars => ClientUnderstood'
  BY ClientStep DEF ClientUnderstood
<1>. QED  BY <1>1, <1>2, ConnInduction, PTL DEF Spec

-----------------------------------------------------------------------------
(* No request is answered twice.                                           *)

(* How often a request occurs in a sequence.                               *)
Places(r, s) == {i \in DOMAIN s : s[i] = r}

LEMMA TimesZero ==
  ASSUME NEW r, NEW S, NEW s \in Seq(S)
  PROVE  /\ IsFiniteSet(Places(r, s)) /\ Times(r, s) = Cardinality(Places(r, s))
         /\ Times(r, s) \in Nat
         /\ Times(r, s) = 0 <=> \A i \in DOMAIN s : s[i] # r
<1>1. Len(s) \in Nat /\ DOMAIN s = 1 .. Len(s)
  BY LenProperties
<1>2. IsFiniteSet(1 .. Len(s)) /\ Places(r, s) \in SUBSET (1 .. Len(s))
  BY <1>1, FS_Interval DEF Places
<1>3. IsFiniteSet(Places(r, s))
  BY <1>2, FS_Subset
<1>4. Times(r, s) = Cardinality(Places(r, s))
  BY DEF Times, Places
<1>5. Cardinality(Places(r, s)) = 0 <=> Places(r, s) = {}
  BY <1>3, FS_EmptySet
<1>6. Places(r, s) = {} <=> \A i \in DOMAIN s : s[i] # r
  BY DEF Places
<1>. QED  BY <1>3, <1>4, <1>5, <1>6, FS_CardinalityType

LEMMA TimesEmpty == \A r : Times(r, <<>>) = 0
<1>1. <<>> \in Seq({}) /\ DOMAIN <<>> = {}
  OBVIOUS
<1>. QED  BY <1>1, TimesZero

LEMMA TimesAppend ==
  ASSUME NEW r, NEW S, NEW s \in Seq(S), NEW x \in S
  PROVE  Times(r, Append(s, x)) = Times(r, s) + IF x = r THEN 1 ELSE 0
<1>. DEFINE n == Len(s)
            t == Append(s, x)
<1>1. /\ t \in Seq(S) /\ n \in Nat /\ DOMAIN s = 1 .. n /\ DOMAIN t = 1 .. (n + 1)
      /\ (\A i \in 1 .. n : t[i] = s[i]) /\ t[n + 1] = x
  BY AppendElements
<1>. HIDE DEF n, t
<1>2. n + 1 \notin Places(r, s)
  BY <1>1 DEF Places
<1>3. Places(r, t) = IF x = r THEN Places(r, s) \cup {n + 1} ELSE Places(r, s)
  <2>1. \A i \in 1 .. (n + 1) : i \in 1 .. n \/ i = n + 1
    BY <1>1
  <2>2. \A i \in 1 .. n : i \in 1 .. (n + 1)
    BY <1>1
  <2>. QED  BY <1>1, <2>1, <2>2 DEF Places
<1>4. IsFiniteSet(Places(r, s)) /\ Times(r, s) = Cardinality(Places(r, s))
      /\ Times(r, t) = Cardinality(Places(r, t)) /\ Times(r, s) \in Nat
  BY <1>1, TimesZero
<1>5. Cardinality(Places(r, s) \cup {n + 1}) = Cardinality(Places(r, s)) + 1
  BY <1>2, <1>4, FS_AddElement
<1>6. Times(r, t) = Times(r, s) + IF x = r THEN 1 ELSE 0
  BY <1>3, <1>4, <1>5
<1>. QED  BY <1>6 DEF t

LEMMA TimesTail ==
  ASSUME NEW r, NEW S, NEW s \in Seq(S), s # <<>>
  PROVE  Times(r, s) = Times(r, Tail(s)) + IF Head(s) = r THEN 1 ELSE 0
<1>. DEFINE n == Len(s)
            t == Tail(s)
            U == {i \in 2 .. n : s[i] = r}
            f == [i \in Places(r, t) |-> i + 1]
<1>1. /\ t \in Seq(S) /\ n \in Nat \ {0} /\ DOMAIN s = 1 .. n /\ DOMAIN t = 1 .. (n - 1)
      /\ (\A i \in 1 .. (n - 1) : t[i] = s[i + 1]) /\ s[1] = Head(s)
  BY TailElements
<1>. HIDE DEF n, t
<1>2. IsFiniteSet(Places(r, t)) /\ Times(r, t) = Cardinality(Places(r, t))
      /\ Times(r, s) = Cardinality(Places(r, s)) /\ Times(r, t) \in Nat
  BY <1>1, TimesZero
<1>3. Places(r, t) \subseteq Nat
  BY <1>1 DEF Places
<1>4. f \in Bijection(Places(r, t), U)
  <2>1. \A i \in Places(r, t) : f[i] = i + 1 /\ i + 1 \in U
    BY <1>1 DEF Places
  <2>2. f \in [Places(r, t) -> U]
    BY <2>1
  <2>3. \A i, j \in Places(r, t) : f[i] = f[j] => i = j
    BY <1>3, <2>1
  <2>4. \A u \in U : \E i \in Places(r, t) : f[i] = u
    <3>. SUFFICES ASSUME NEW u \in U PROVE \E i \in Places(r, t) : f[i] = u
      OBVIOUS
    <3>1. u - 1 \in 1 .. (n - 1) /\ (u - 1) + 1 = u /\ s[u] = r
      BY <1>1
    <3>2. u - 1 \in Places(r, t)
      BY <1>1, <3>1 DEF Places
    <3>. QED  BY <2>1, <3>1, <3>2
  <2>. HIDE DEF f, U
  <2>5. f \in Injection(Places(r, t), U)
    BY <2>2, <2>3 DEF Injection, IsInjective
  <2>6. f \in Surjection(Places(r, t), U)
    BY <2>2, <2>4, Zenon DEF Surjection
  <2>. QED  BY <2>5, <2>6, Zenon DEF Bijection
<1>5. IsFiniteSet(U) /\ Cardinality(U) = Cardinality(Places(r, t))
  BY <1>2, <1>4, FS_Bijection DEF ExistsBijection
<1>6. 1 \notin U /\ Places(r, s) = IF s[1] = r THEN U \cup {1} ELSE U
  <2>1. \A i \in 1 .. n : i = 1 \/ i \in 2 .. n
    BY <1>1
  <2>2. 1 \in 1 .. n /\ \A i \in 2 .. n : i \in 1 .. n /\ i # 1
    BY <1>1
  <2>. QED  BY <1>1, <2>1, <2>2 DEF Places
<1>7. Cardinality(U \cup {1}) = Cardinality(U) + 1
  BY <1>5, <1>6, FS_AddElement
<1>. HIDE DEF U
<1>8. Times(r, s) = Times(r, t) + IF Head(s) = r THEN 1 ELSE 0
  BY <1>1, <1>2, <1>5, <1>6, <1>7
<1>. QED  BY <1>8 DEF t

(* A handler puts the answer to its own request, once at most.             *)
LEMMA PutsOnce ==
  ASSUME NEW f, NEW h \in Asks \cup {"frame"}, NEW t \in Puts(f, h), NEW r \in Asks
  PROVE  Times(r, t) <= IF r = h THEN 1 ELSE 0
<1>1. t \in Seq(Asks \cup {"frame", "attach"})
  BY PutsType
<1>2. t \in {<<>>, <<"frame">>, <<h>>, <<h, "attach">>, <<h, "attach", "frame">>}
  BY DEF Puts, OpenPuts, WatchPuts, UserPuts
<1>3. r # "frame" /\ r # "attach"
  BY ConnectionAssumption DEF Tokens
<1>4. Places(r, t) \subseteq IF r = h THEN {1} ELSE {}
  <2>1. CASE t = <<>>
    BY <2>1 DEF Places
  <2>2. CASE t = <<"frame">>
    BY <1>3, <2>2 DEF Places
  <2>3. CASE t = <<h>>
    BY <1>3, <2>3 DEF Places
  <2>4. CASE t = <<h, "attach">>
    BY <1>3, <2>4 DEF Places
  <2>5. CASE t = <<h, "attach", "frame">>
    BY <1>3, <2>5 DEF Places
  <2>. QED  BY <1>2, <2>1, <2>2, <2>3, <2>4, <2>5
<1>5. Times(r, t) = Cardinality(Places(r, t))
  BY <1>1, TimesZero
<1>6. IsFiniteSet({1}) /\ Cardinality({1}) = 1 /\ IsFiniteSet({}) /\ Cardinality({}) = 0
  BY FS_Singleton, FS_EmptySet
<1>7. CASE r = h
  BY <1>4, <1>5, <1>6, <1>7, FS_Subset
<1>8. CASE r # h
  BY <1>4, <1>5, <1>6, <1>8
<1>. QED  BY <1>7, <1>8

(* A request that was asked and not answered yet may be somewhere, once;   *)
(* no other is anywhere.                                                   *)
Owed(r) == Times(r, inbox) + Times(r, todo) + Times(r, queue) + Times(r, out)
Due(r) == IF pend[r] \in {"none", "answered"} THEN 0 ELSE 1

EachOwedOnce == \A r \in Asks : Owed(r) <= Due(r)

LEMMA OwedTypes ==
  ASSUME ConnInv, NEW r
  PROVE  /\ Times(r, inbox) \in Nat /\ Times(r, todo) \in Nat
         /\ Times(r, queue) \in Nat /\ Times(r, out) \in Nat
BY TypeFields, TimesZero DEF SocketType, QueueType, TaskType

LEMMA OwedTypesNext ==
  ASSUME ConnInv', NEW r
  PROVE  /\ Times(r, inbox') \in Nat /\ Times(r, todo') \in Nat
         /\ Times(r, queue') \in Nat /\ Times(r, out') \in Nat
<1>1. /\ inbox' \in Seq(Asks \cup {"hello", "call", "other"})
      /\ out' \in Seq((Asks \cup Tokens) \ {"stop"})
      /\ queue' \in Seq((Asks \cup Tokens) \ {"ack", "error"})
      /\ todo' \in Seq(Asks \cup {"frame", "attach"})
  BY DEF ConnInv, TypeOK, SocketType, QueueType, TaskType
<1>. QED  BY <1>1, TimesZero

LEMMA WriteTimes ==
  ASSUME ConnInv, NEW f \in (Asks \cup Tokens) \ {"stop"}, Write(f), NEW r
  PROVE  Times(r, out') <= Times(r, out) + IF f = r THEN 1 ELSE 0
<1>1. out \in Seq((Asks \cup Tokens) \ {"stop"}) /\ Times(r, out) \in Nat
  BY TypeFields, OwedTypes DEF SocketType
<1>2. CASE out' = out
  BY <1>1, <1>2
<1>3. CASE out' = Append(out, f)
  <2>1. Times(r, out') = Times(r, out) + IF f = r THEN 1 ELSE 0
    BY <1>1, <1>3, TimesAppend
  <2>. QED  BY <1>1, <2>1
<1>. QED  BY <1>2, <1>3 DEF Write

LEMMA NoToken ==
  ASSUME NEW r \in Asks
  PROVE  r \notin {"ack", "frame", "error", "stop", "hello", "call", "other", "attach"}
BY ConnectionAssumption DEF Tokens

LEMMA QueueTimes ==
  ASSUME ConnInv, NEW f \in (Asks \cup Tokens) \ {"ack", "error"}, Put(f), NEW r
  PROVE  Times(r, queue') = Times(r, queue) + IF f = r THEN 1 ELSE 0
<1>1. queue \in Seq((Asks \cup Tokens) \ {"ack", "error"})
  BY TypeFields DEF QueueType
<1>. QED  BY <1>1, TimesAppend DEF Put

(* It is enough to compare what each of the four sequences holds.          *)
LEMMA OwedLess ==
  ASSUME ConnInv, ConnInv', NEW r, Owed(r) <= Due(r), Due(r)' >= Due(r),
         Times(r, inbox') + Times(r, todo') + Times(r, queue') + Times(r, out') <= Owed(r)
  PROVE  Owed(r)' <= Due(r)'
<1>1. Owed(r)' = Times(r, inbox') + Times(r, todo') + Times(r, queue') + Times(r, out')
  BY DEF Owed
<1>2. Times(r, inbox') \in Nat /\ Times(r, todo') \in Nat
      /\ Times(r, queue') \in Nat /\ Times(r, out') \in Nat
  BY OwedTypesNext
<1>3. Due(r) \in Nat /\ Due(r)' \in Nat /\ Owed(r) \in Nat
  BY OwedTypes DEF Due, Owed
<1>. QED  BY <1>1, <1>2, <1>3

(* The step of every task, for one request.                                *)
LEMMA ServeOwes ==
  ASSUME ConnInv, ConnInv', NEW r \in Asks, Owed(r) <= Due(r), Serve
  PROVE  Owed(r)' <= Due(r)'
<1>0. /\ Times(r, inbox) \in Nat /\ Times(r, todo) \in Nat
      /\ Times(r, queue) \in Nat /\ Times(r, out) \in Nat
      /\ Times(r, inbox') \in Nat /\ Times(r, todo') \in Nat
      /\ Times(r, queue') \in Nat /\ Times(r, out') \in Nat
  BY OwedTypes, OwedTypesNext
<1>. DEFINE i == Times(r, inbox)
            d == Times(r, todo)
            q == Times(r, queue)
            o == Times(r, out)
<1>1. SUFFICES Times(r, inbox') + Times(r, todo') + Times(r, queue') + Times(r, out') <= i + d + q + o
  <2>1. pend' = pend
    BY DEF Serve, Hello, Greeted, Ends, Receive, Answer, NextLine, Gathered, Served, Leave, Loop,
       peer
  <2>2. Due(r)' >= Due(r)
    BY <2>1 DEF Due
  <2>. QED  BY <2>2, OwedLess DEF Owed
<1>2. inbox # <<>> => Times(r, inbox) = Times(r, Tail(inbox)) + IF Head(inbox) = r THEN 1 ELSE 0
  BY TypeFields, TimesTail DEF SocketType
<1>3. inbox # <<>> => Times(r, Tail(inbox)) \in Nat
  <2>1. inbox # <<>> => Tail(inbox) \in Seq(Asks \cup {"hello", "call", "other"})
    BY TypeFields, TailElements DEF SocketType
  <2>. QED  BY <2>1, TimesZero
<1>4. \A f \in {"ack", "error"} : Write(f) => Times(r, out') <= o
  <2>1. {"ack", "error"} \subseteq (Asks \cup Tokens) \ {"stop"}
    BY DEF Tokens
  <2>. QED  BY <1>0, <2>1, WriteTimes, NoToken
<1>5. CASE Hello
  BY <1>0, <1>2, <1>3, <1>4, <1>5, SMTT(30) DEF Hello
<1>6. CASE Gathered \/ Served
  BY <1>0, <1>6 DEF Gathered, Served, socket
<1>7. CASE Ends \/ Greeted \/ NextLine
  <2>1. UNCHANGED <<inbox, todo, out>> /\ (queue' = queue \/ Put("stop"))
    BY <1>7 DEF Ends, Greeted, NextLine, Leave, Loop, socket
  <2>2. Times(r, queue') = q
    <3>1. "stop" \in (Asks \cup Tokens) \ {"ack", "error"}
      BY DEF Tokens
    <3>. QED  BY <1>0, <2>1, <3>1, QueueTimes, NoToken
  <2>. QED  BY <1>0, <2>1, <2>2
<1>8. CASE Receive
  <2>. DEFINE h == Head(inbox)
              a == IF h \in Asks THEN h ELSE "frame"
  <2>1. inbox # <<>> /\ inbox' = Tail(inbox) /\ queue' = queue /\ todo = <<>>
    BY <1>8, TypeFields DEF Receive, TaskType
  <2>2. d = 0
    BY <2>1, TimesEmpty
  <2>3. CASE todo' = todo /\ Write("error")
    BY <1>0, <1>2, <1>3, <1>4, <2>1, <2>3
  <2>4. CASE out' = out /\ todo' = <<"frame">>
    <3>1. <<"frame">> \in Puts([type |-> "list_sessions", has |-> {}, bad |-> {}], "frame")
      BY DEF Puts, Verdict, ParseListSessions, Strict, RejectExtraKeys
    <3>2. Times(r, todo') <= 0
      BY <2>4, <3>1, PutsOnce, NoToken
    <3>. QED  BY <1>0, <1>2, <1>3, <2>1, <2>2, <2>4, <3>2, SMTT(30)
  <2>5. ASSUME NEW f, todo' \in Puts(f, a), out' = out
        PROVE  Times(r, inbox') + Times(r, todo') + Times(r, queue') + Times(r, out') <= i + d + q + o
    <3>1. Times(r, todo') <= IF r = a THEN 1 ELSE 0
      BY <2>5, PutsOnce
    <3>2. r = a => h = r
      BY NoToken
    <3>. QED  BY <1>0, <1>2, <1>3, <2>1, <2>2, <2>5, <3>1, <3>2, SMTT(30)
  <2>. QED  BY <1>8, <2>3, <2>4, <2>5 DEF Receive
<1>9. CASE Answer
  <2>1. todo # <<>> /\ todo' = Tail(todo) /\ UNCHANGED <<inbox, out>>
        /\ todo \in Seq(Asks \cup {"frame", "attach"})
    BY <1>9, TypeFields DEF Answer, TaskType, socket
  <2>2. /\ d = Times(r, Tail(todo)) + IF Head(todo) = r THEN 1 ELSE 0
        /\ Times(r, Tail(todo)) \in Nat /\ Head(todo) \in Asks \cup {"frame", "attach"}
    BY <2>1, TimesTail, TailElements, TimesZero, ZenonT(30)
  <2>3. Times(r, queue') <= q + IF Head(todo) = r THEN 1 ELSE 0
    <3>1. CASE queue' = queue
      BY <1>0, <3>1
    <3>2. CASE Put(Head(todo)) /\ Head(todo) # "attach"
      <4>1. Head(todo) \in (Asks \cup Tokens) \ {"ack", "error"}
        BY <2>2, <3>2, ConnectionAssumption DEF Tokens
      <4>. QED  BY <1>0, <3>2, <4>1, QueueTimes
    <3>. QED  BY <1>9, <3>1, <3>2 DEF Answer
  <2>. QED  BY <1>0, <2>1, <2>2, <2>3, SMTT(30)
<1>. QED  BY <1>5, <1>6, <1>7, <1>8, <1>9 DEF Serve

LEMMA DaemonOwes ==
  ASSUME ConnInv, ConnInv', NEW r \in Asks, Owed(r) <= Due(r),
         WriterLoop \/ Watchdog \/ Event \/ EventPut \/ Flushed \/ Signal \/ Shutdown
  PROVE  Owed(r)' <= Due(r)'
<1>0. /\ Times(r, inbox) \in Nat /\ Times(r, todo) \in Nat
      /\ Times(r, queue) \in Nat /\ Times(r, out) \in Nat
      /\ Times(r, inbox') \in Nat /\ Times(r, todo') \in Nat
      /\ Times(r, queue') \in Nat /\ Times(r, out') \in Nat
  BY OwedTypes, OwedTypesNext
<1>1. SUFFICES Times(r, inbox') + Times(r, todo') + Times(r, queue') + Times(r, out')
               <= Times(r, inbox) + Times(r, todo) + Times(r, queue) + Times(r, out)
  <2>1. pend' = pend
    BY DEF WriterLoop, WriterTakes, WriterDrained, Watchdog, SlowConsumer, WatchdogEnds, Event,
       EventPut, Flushed, Signal, Shutdown, Broadcast, CloseTransport, Stop, peer
  <2>2. Due(r)' >= Due(r)
    BY <2>1 DEF Due
  <2>. QED  BY <2>2, OwedLess DEF Owed
<1>2. CASE WriterTakes
  <2>1. /\ Times(r, queue) = Times(r, queue') + IF Head(queue) = r THEN 1 ELSE 0
        /\ UNCHANGED <<inbox, todo>>
    BY <1>2, QueueHead, TimesTail DEF WriterTakes
  <2>2. Times(r, out') <= Times(r, out) + IF Head(queue) = r THEN 1 ELSE 0
    <3>1. CASE out' = out
      BY <1>0, <3>1
    <3>2. CASE Write(Head(queue)) /\ Head(queue) # "stop"
      BY <1>2, <3>2, QueueHead, WriteTimes DEF WriterTakes
    <3>. QED  BY <1>2, <3>1, <3>2 DEF WriterTakes
  <2>. QED  BY <1>0, <2>1, <2>2
<1>3. CASE SlowConsumer \/ Broadcast
  <2>1. UNCHANGED <<inbox, todo, queue>> /\ (out' = out \/ Write("error"))
    BY <1>3 DEF SlowConsumer, Broadcast, tasks
  <2>2. "error" \in (Asks \cup Tokens) \ {"stop"} /\ "error" # r
    BY NoToken DEF Tokens
  <2>3. Times(r, out') <= Times(r, out)
    BY <1>0, <2>1, <2>2, WriteTimes
  <2>. QED  BY <1>0, <2>1, <2>3
<1>4. CASE Event \/ EventPut
  <2>1. UNCHANGED <<inbox, todo, out>> /\ (queue' = queue \/ Put("frame"))
    BY <1>4 DEF Event, EventPut, socket, tasks
  <2>2. "frame" \in (Asks \cup Tokens) \ {"ack", "error"} /\ "frame" # r
    BY NoToken DEF Tokens
  <2>3. Times(r, queue') = Times(r, queue)
    BY <1>0, <2>1, <2>2, QueueTimes
  <2>. QED  BY <1>0, <2>1, <2>3
<1>5. CASE Flushed
  BY <1>0, <1>5, TimesEmpty DEF Flushed, tasks
<1>6. CASE Stop
  BY <1>0, <1>6, TimesEmpty DEF Stop
<1>7. CASE WriterDrained \/ WatchdogEnds \/ Signal \/ CloseTransport
  BY <1>0, <1>7 DEF WriterDrained, WatchdogEnds, Signal, CloseTransport, socket, tasks
<1>. QED  BY <1>2, <1>3, <1>4, <1>5, <1>6, <1>7 DEF WriterLoop, Watchdog, Shutdown

LEMMA ClientOwes ==
  ASSUME ConnInv, ConnInv', NEW r \in Asks, Owed(r) <= Due(r),
         ClientLoop \/ Ask \/ Call \/ AskInVain \/ Stall \/ Closes \/ UNCHANGED vars
  PROVE  Owed(r)' <= Due(r)'
<1>0. /\ Times(r, inbox) \in Nat /\ Times(r, todo) \in Nat
      /\ Times(r, queue) \in Nat /\ Times(r, out) \in Nat
      /\ Times(r, inbox') \in Nat /\ Times(r, todo') \in Nat
      /\ Times(r, queue') \in Nat /\ Times(r, out') \in Nat
  BY OwedTypes, OwedTypesNext
<1>1. UNCHANGED <<todo, queue>>
  BY DEF ClientLoop, Reads, EndOfStream, Ask, Call, AskInVain, Stall, Closes, tasks, vars
<1>2. pend \in [Asks -> {"none", "waiting", "answered", "failed", "adrift"}]
  BY TypeFields DEF ClientType
<1>3. Owed(r)' = Times(r, inbox') + Times(r, todo) + Times(r, queue) + Times(r, out')
  BY <1>1 DEF Owed
<1>4. \A h \in Asks \cup {"call", "other"} :
        inbox' = Append(inbox, h) => Times(r, inbox') = Times(r, inbox) + IF h = r THEN 1 ELSE 0
  BY TypeFields, TimesAppend DEF SocketType
<1>5. CASE UNCHANGED socket /\ (pend'[r] = pend[r] \/ pend'[r] \in {"failed", "adrift"})
  BY <1>0, <1>1, <1>5 DEF Owed, Due, socket
<1>6. CASE EndOfStream \/ AskInVain \/ Stall \/ Closes \/ UNCHANGED vars
  <2>1. pend'[r] = pend[r] \/ pend'[r] \in {"failed", "adrift"}
    BY <1>2, <1>6 DEF EndOfStream, Loses, AskInVain, Unasked, Stall, Closes, vars, peer
  <2>. QED  BY <1>5, <1>6, <2>1 DEF EndOfStream, AskInVain, Stall, Closes, vars
<1>7. CASE Call
  <2>1. \E h \in {"call", "other"} : inbox' = Append(inbox, h)
    BY <1>7 DEF Call
  <2>2. Times(r, inbox') = Times(r, inbox) /\ out' = out /\ pend' = pend
    BY <1>0, <1>4, <1>7, <2>1, NoToken DEF Call, peer
  <2>. QED  BY <1>0, <1>3, <2>2 DEF Owed, Due
<1>8. CASE Ask
  <2>1. PICK h \in Asks : pend[h] = "none" /\ pend' = [pend EXCEPT ![h] = "waiting"]
                          /\ inbox' = Append(inbox, h) /\ out' = out
    BY <1>8 DEF Ask, Unasked
  <2>2. CASE h = r
    <3>1. pend[r] = "none" /\ pend'[r] = "waiting"
      BY <1>2, <2>1, <2>2
    <3>2. Due(r) = 0 /\ Due(r)' = 1
      BY <3>1 DEF Due
    <3>3. Times(r, inbox') = Times(r, inbox) + 1 /\ out' = out
      BY <1>4, <2>1, <2>2
    <3>. QED  BY <1>0, <1>3, <3>2, <3>3 DEF Owed
  <2>3. CASE h # r
    <3>1. pend'[r] = pend[r]
      BY <1>2, <2>1, <2>3
    <3>2. Due(r)' = Due(r)
      BY <3>1 DEF Due
    <3>3. Times(r, inbox') = Times(r, inbox) /\ out' = out
      BY <1>0, <1>4, <2>1, <2>3
    <3>. QED  BY <1>0, <1>3, <3>2, <3>3 DEF Owed
  <2>. QED  BY <2>2, <2>3
<1>9. CASE Reads
  <2>1. out \in Seq((Asks \cup Tokens) \ {"stop"}) /\ out # <<>> /\ out' = Tail(out)
        /\ inbox' = inbox
    BY <1>9, TypeFields DEF Reads, SocketType
  <2>2. Times(r, out) = Times(r, out') + IF Head(out) = r THEN 1 ELSE 0
    BY <2>1, TimesTail
  <2>3. pend'[r] = pend[r] \/ (Head(out) = r /\ pend[r] = "waiting" /\ pend'[r] = "answered")
    BY <1>2, <1>9 DEF Reads
  <2>4. Due(r)' = Due(r) \/ (Head(out) = r /\ Due(r) = 1 /\ Due(r)' = 0)
    BY <2>3 DEF Due
  <2>5. Due(r) \in {0, 1}
    BY DEF Due
  <2>. QED  BY <1>0, <1>3, <2>1, <2>2, <2>4, <2>5, SMTT(30) DEF Owed
<1>. QED  BY <1>6, <1>7, <1>8, <1>9 DEF ClientLoop

LEMMA OwedInduction == Spec => [](ConnInv /\ EachOwedOnce)
<1>1. Init => EachOwedOnce
  <2>. SUFFICES ASSUME Init, NEW r \in Asks PROVE Owed(r) <= Due(r)
    BY DEF EachOwedOnce
  <2>1. inbox = <<"hello">> /\ inbox \in Seq({"hello"})
    BY DEF Init
  <2>2. \A i \in DOMAIN inbox : inbox[i] # r
    BY <2>1, NoToken
  <2>3. Times(r, inbox) = 0
    BY <2>1, <2>2, TimesZero
  <2>. QED  BY <2>3, TimesEmpty DEF Init, Owed, Due
<1>2. ConnInv /\ EachOwedOnce /\ [Next]_vars => EachOwedOnce'
  <2>. SUFFICES ASSUME ConnInv, EachOwedOnce, [Next]_vars, NEW r \in Asks
                PROVE  Owed(r)' <= Due(r)'
    BY DEF EachOwedOnce
  <2>1. ConnInv' /\ Owed(r) <= Due(r)
    BY NextConn DEF EachOwedOnce
  <2>. QED  BY <2>1, ServeOwes, DaemonOwes, ClientOwes DEF Next
<1>. QED  BY <1>1, <1>2, ConnInduction, NextConn, InitConn, PTL DEF Spec

LEMMA NoneInBoth ==
  ASSUME NEW r, NEW S, NEW T, NEW s \in Seq(S), NEW t \in Seq(T),
         \A i \in DOMAIN s : s[i] # r, \A i \in DOMAIN t : t[i] # r
  PROVE  s \o t \in Seq(S \cup T) /\ \A i \in DOMAIN (s \o t) : (s \o t)[i] # r
<1>1. s \in Seq(S \cup T) /\ t \in Seq(S \cup T)
  OBVIOUS
<1>2. Len(s) \in Nat /\ Len(t) \in Nat /\ DOMAIN s = 1 .. Len(s) /\ DOMAIN t = 1 .. Len(t)
  BY LenProperties
<1>3. /\ s \o t \in Seq(S \cup T) /\ Len(s \o t) = Len(s) + Len(t)
      /\ \A i \in 1 .. Len(s) + Len(t) :
           (s \o t)[i] = IF i <= Len(s) THEN s[i] ELSE t[i - Len(s)]
  BY <1>1, <1>2, ConcatProperties
<1>4. DOMAIN (s \o t) = 1 .. Len(s) + Len(t)
  BY <1>3, LenProperties
<1>5. ASSUME NEW i \in 1 .. Len(s) + Len(t) PROVE (s \o t)[i] # r
  <2>1. CASE i <= Len(s)
    BY <1>2, <1>3, <2>1
  <2>2. CASE ~(i <= Len(s))
    <3>1. i - Len(s) \in DOMAIN t
      BY <1>2, <2>2
    <3>. QED  BY <1>3, <2>2, <3>1
  <2>. QED  BY <2>1, <2>2
<1>. QED  BY <1>3, <1>4, <1>5

(* However the handlers, the writer loop, the watchdog, the shutdown and   *)
(* the two ends of the connection interleave, no reply to a request is     *)
(* sent twice or after the client has it, and none to a request that was   *)
(* not asked (daemon.py:305, 885; client.py, _request and _pending).       *)
THEOREM NothingAnsweredTwice == Spec => []AnsweredOnce
<1>1. ConnInv /\ EachOwedOnce => AnsweredOnce
  <2>. SUFFICES ASSUME ConnInv, EachOwedOnce, NEW r \in Asks
                PROVE  /\ Times(r, inbox) + Times(r, todo) + Times(r, queue) + Times(r, out)
                            + (IF pend[r] = "answered" THEN 1 ELSE 0) <= 1
                       /\ pend[r] = "none" => Times(r, inbox \o todo \o queue \o out) = 0
    BY DEF AnsweredOnce
  <2>1. Owed(r) <= Due(r)
    BY DEF EachOwedOnce
  <2>2. /\ Times(r, inbox) \in Nat /\ Times(r, todo) \in Nat
        /\ Times(r, queue) \in Nat /\ Times(r, out) \in Nat
    BY OwedTypes
  <2>3. /\ inbox \in Seq(Asks \cup {"hello", "call", "other"})
        /\ out \in Seq((Asks \cup Tokens) \ {"stop"})
        /\ queue \in Seq((Asks \cup Tokens) \ {"ack", "error"})
        /\ todo \in Seq(Asks \cup {"frame", "attach"})
    BY TypeFields DEF SocketType, QueueType, TaskType
  <2>4. ASSUME pend[r] = "none"
        PROVE  Times(r, inbox \o todo \o queue \o out) = 0
    <3>1. /\ Times(r, inbox) = 0 /\ Times(r, todo) = 0
          /\ Times(r, queue) = 0 /\ Times(r, out) = 0
      BY <2>1, <2>2, <2>4 DEF Owed, Due
    <3>2. /\ \A i \in DOMAIN inbox : inbox[i] # r
          /\ \A i \in DOMAIN todo : todo[i] # r
          /\ \A i \in DOMAIN queue : queue[i] # r
          /\ \A i \in DOMAIN out : out[i] # r
      BY <2>3, <3>1, TimesZero
    <3> DEFINE S == Asks \cup {"hello", "call", "other"} \cup (Asks \cup {"frame", "attach"})
               S2 == S \cup ((Asks \cup Tokens) \ {"ack", "error"})
               S3 == S2 \cup ((Asks \cup Tokens) \ {"stop"})
    <3>3. /\ inbox \o todo \in Seq(S)
          /\ \A i \in DOMAIN (inbox \o todo) : (inbox \o todo)[i] # r
      BY <2>3, <3>2, NoneInBoth
    <3> HIDE DEF S
    <3>4. /\ inbox \o todo \o queue \in Seq(S2)
          /\ \A i \in DOMAIN (inbox \o todo \o queue) : (inbox \o todo \o queue)[i] # r
      BY <2>3, <3>2, <3>3, NoneInBoth
    <3> HIDE DEF S2
    <3>5. /\ inbox \o todo \o queue \o out \in Seq(S3)
          /\ \A i \in DOMAIN (inbox \o todo \o queue \o out) :
               (inbox \o todo \o queue \o out)[i] # r
      BY <2>3, <3>2, <3>4, NoneInBoth
    <3>. QED  BY <3>5, TimesZero
  <2>5. Times(r, inbox) + Times(r, todo) + Times(r, queue) + Times(r, out)
          + (IF pend[r] = "answered" THEN 1 ELSE 0) <= 1
    BY <2>1, <2>2 DEF Owed, Due
  <2>. QED  BY <2>4, <2>5
<1>. QED  BY <1>1, OwedInduction, PTL
=============================================================================
