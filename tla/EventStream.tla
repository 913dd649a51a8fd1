---------------------------- MODULE EventStream ----------------------------
(***************************************************************************)
(* The event stream of one session (session.py, class Session): events of  *)
(* the backend are numbered, stored and fanned out to the owner and the    *)
(* watchers; connections attach, are replayed what they missed, fall       *)
(* behind, disappear and come back; the daemon is killed and restarted.    *)
(*                                                                         *)
(* asyncio runs one task at a time until it suspends.  `cpu` names the     *)
(* task that is running: while it is not Free nobody else takes a step.    *)
(* The only awaits in this code that suspend are the puts on the bounded   *)
(* queue of a connection, and those only while the queue is full.  A put   *)
(* that resumes may have been overtaken by one that found the queue with   *)
(* room, as asyncio.Queue allows.                                          *)
(*                                                                         *)
(* Left to other modules: who may call what on which connection, the       *)
(* backend processes, the life of a Connection.  Here a connection         *)
(* subscribes to the session once, as owner or as watcher, and may come    *)
(* back later under the same name, as a client does that reconnects.       *)
(***************************************************************************)
EXTENDS EventLog, Sequences

CONSTANTS
  Conns,       (* connections (a client keeps its name when it reconnects) *)
  Sources,     (* backend tasks that call on_event: stdout, stderr, exit   *)
  None,        (* no connection                                            *)
  Free,        (* no task is running                                       *)
  QueueSize,   (* _CONNECTION_QUEUE_SIZE (1024)                            *)
  Sizes,       (* sizes of an encoded frame, in the units of TailSpan      *)
  Kinds,       (* kinds of events the backend produces, of EventKinds      *)
  MaxEvents,   (* bound: events the backend produces                       *)
  MaxConnects, (* bound: connections a client makes                        *)
  MaxReloads,  (* bound: times the session is dropped from memory          *)
  MaxFails,    (* bound: log writes that fail                              *)
  MaxMisses    (* bound: saves of the usage sidecar that fail              *)

(* An agent.result with usage, one without (a synthesized one), an         *)
(* agent.system_init, any other event.                                     *)
EventKinds == {"result", "bare", "init", "output"}
EndsTurn(kind) == kind \in {"result", "bare"}

ASSUME StreamAssumption ==
  /\ QueueSize \in Nat \ {0}
  /\ IsFiniteSet(Conns)
  /\ Sizes \subseteq Nat \ {0} /\ Kinds \subseteq EventKinds
  /\ {MaxEvents, MaxConnects, MaxReloads, MaxFails, MaxMisses} \subseteq Nat
  /\ None \notin Conns
  /\ Free \notin Conns \cup Sources
  /\ Conns \cap Sources = {}

VARIABLES
  (* The Session object and its files.                                     *)
  loaded,      (* the session is in the table of this daemon process       *)
  seq, ring,   (* Session.seq, Session.ring                                *)
  file,        (* the durable log                                          *)
  turns,       (* Session.turns                                            *)
  sidecar,     (* `turns` in the usage sidecar on disk                     *)
  writer,      (* Session._writer and connection_id: the owner, or None    *)
  watchers,    (* Session._watchers                                        *)
  finishing,   (* Session._finishing                                       *)
  backend,     (* "none", "idle" or "turn" (turn_active)                   *)
  closing,     (* a close() of the backend is under way                    *)
  (* Tasks.                                                                *)
  cpu,
  emit,        (* the on_event call every source is in                     *)
  sub,         (* the attach or add_watcher call every connection is in    *)
  (* Connections.                                                          *)
  alive,       (* Connection._alive                                        *)
  online,      (* the peer is there and its socket is being drained        *)
  queue,       (* Connection._queue                                        *)
  role,        (* what this connection subscribed as                       *)
  connects,
  (* What the clients know.                                                *)
  rcv,         (* frames received on the current connection                *)
  lastSeq,     (* client.py, Session.last_seq                              *)
  (* History, for the properties.                                          *)
  events,      (* every event the session produced, in order               *)
  from,        (* last_seen_seq of the current subscription                *)
  slow,        (* connections for which a put had to wait (see Suspend)    *)
  cut,         (* events whose fan-out was cut short                       *)
  seen,        (* events a client received, on any of its connections      *)
  told,        (* gaps a client knows of, on any of its connections        *)
  unsaved,     (* turns counted in memory and not yet in the sidecar       *)
  struck,      (* events that left memory before the sidecar counted them  *)
  reloads, fails, misses

session == <<loaded, seq, ring, file, turns, sidecar, finishing, backend, closing>>
subs    == <<writer, watchers>>
conn    == <<alive, online, role, connects, from>>
client  == <<rcv, lastSeq, seen, told>>
bounds  == <<unsaved, struck, reloads, fails, misses>>
vars == <<session, subs, cpu, emit, sub, conn, queue, client, events, slow, cut, bounds>>

-----------------------------------------------------------------------------
Ids == 1 .. Len(events)
SeqOf  == [i \in Ids |-> events[i].seq]
SizeOf == [i \in Ids |-> events[i].size]

(* Frames.  An event frame carries the seq of its event.                   *)
EventFrame(id) == [kind |-> "event", id |-> id, seq |-> events[id].seq, since |-> 0, first |-> 0]
GapFrame(s, since, first) ==
  [kind |-> "gap", id |-> 0, seq |-> s, since |-> since, first |-> first]
AckFrame(last) == [kind |-> "ack", id |-> 0, seq |-> last, since |-> 0, first |-> 0]

(* pc of an on_event call: "idle" (none), "write" (at the owner's writer), *)
(* "fan" (in the loop over the watchers, `at` is the one being written),   *)
(* "end" (behind the loop), "stuck" (waits on the queue of a connection    *)
(* that is gone) and "dead" (the task has raised).                         *)
Idle == [pc |-> "idle", id |-> 0, at |-> None, done |-> {}, size |-> 0]

(* pc of a subscription: "idle", "replay" (`todo` is what is left of       *)
(* to_replay) and "last" (the put of its `last` frame: the gap frame, or   *)
(* the reply to an unwatch).                                               *)
NoSub == [pc |-> "idle", todo |-> {}, since |-> 0, earliest |-> 0, empty |-> FALSE,
          last |-> AckFrame(0)]

RoomOffByOne(c) == Len(queue[c]) <= QueueSize   (* mutant: full() a frame late *)
Room(c) == Len(queue[c]) < QueueSize

Running(t) == cpu = t

(* Task t puts frame f on c's queue, running or resuming; or suspends.     *)
(* _emit_frame drops the frame of a connection that is no longer alive,    *)
(* but only looks before it waits.                                         *)
Put(t, c, f) ==
  /\ cpu \in {t, Free}
  /\ IF Running(t) /\ ~alive[c] THEN UNCHANGED queue
     ELSE Room(c) /\ queue' = [queue EXCEPT ![c] = Append(@, f)]
  /\ UNCHANGED slow

(* An on_event call that waits keeps the watchers waiting as well.         *)
Suspend(t, c) ==
  /\ cpu = t /\ alive[c] /\ ~Room(c)
  /\ cpu' = Free
  /\ slow' = slow \cup {c} \cup IF t \in Sources THEN watchers ELSE {}

-----------------------------------------------------------------------------
(* Session.on_event, up to its first await: the frame gets the next seq,   *)
(* goes to the ring and to the log, counts as a turn if it ends one and    *)
(* brings its usage, and the writer of this moment is taken.               *)
LogWriteBuffered(id) == file' = LogAppendFails(file, id) /\ UNCHANGED fails
                     (* mutant: the file is not opened line-buffered *)
LogWrite(id) ==
  \/ file' = LogAppend(file, id) /\ UNCHANGED fails
  \/ /\ fails < MaxFails
     /\ file' = LogAppendFails(file, id) /\ fails' = fails + 1

(* _save_usage_sidecar writes the whole count, and swallows OSError.       *)
SaveSidecar(count, counted) ==
  \/ sidecar' = count /\ unsaved' = {} /\ UNCHANGED misses
  \/ /\ misses < MaxMisses /\ misses' = misses + 1
     /\ unsaved' = unsaved \cup counted /\ UNCHANGED sidecar

CountTurnSavesFirst(id, kind) ==   (* mutant: the sidecar is saved too early *)
  \/ kind = "result" /\ turns' = turns + 1 /\ SaveSidecar(turns, {id})
  \/ kind = "init" /\ UNCHANGED turns /\ SaveSidecar(turns, {})
  \/ kind \in {"bare", "output"} /\ UNCHANGED <<turns, sidecar, unsaved, misses>>

CountTurn(id, kind) ==
  \/ kind = "result" /\ turns' = turns + 1 /\ SaveSidecar(turns + 1, {id})
  \/ kind = "init" /\ UNCHANGED turns /\ SaveSidecar(turns, {})
  \/ kind \in {"bare", "output"} /\ UNCHANGED <<turns, sidecar, unsaved, misses>>

Produces(kind) ==
  /\ cpu = Free /\ loaded /\ Len(events) < MaxEvents
  /\ backend # "none" /\ (EndsTurn(kind) => backend = "turn")

NewEvent(size, kind) == events' = Append(events, [seq |-> seq + 1, size |-> size, kind |-> kind])

OnEvent(s, size, kind) ==
  LET id == Len(events) + 1 IN
  /\ Produces(kind) /\ emit[s] = Idle
  /\ seq' = seq + 1
  /\ NewEvent(size, kind)
  /\ ring' = RingAppend(ring, id)
  /\ LogWrite(id)
  /\ CountTurn(id, kind)
  /\ backend' = IF EndsTurn(kind) THEN "idle" ELSE backend
  /\ emit' = [emit EXCEPT ![s] = [Idle EXCEPT !.pc = "write", !.id = id, !.at = writer]]
  /\ cpu' = s
  /\ UNCHANGED <<loaded, finishing, closing, subs, sub, conn, queue, client, slow, cut, struck,
                 reloads>>

(* The loop over the watchers starts: the iterator remembers the size of   *)
(* the dictionary.                                                         *)
StartFan(s) == emit' = [emit EXCEPT ![s].pc = "fan", ![s].at = None,
                                    ![s].size = Cardinality(watchers)]

WriteOwnerRereads(s) ==   (* mutant: self._writer is read at the put *)
  /\ emit[s].pc = "write"
  /\ LET c == writer IN
     \/ /\ c = None /\ Running(s)
        /\ StartFan(s) /\ UNCHANGED <<cpu, queue, slow>>
     \/ /\ c # None /\ Put(s, c, EventFrame(emit[s].id))
        /\ StartFan(s) /\ cpu' = s
     \/ /\ c # None /\ Suspend(s, c) /\ UNCHANGED <<queue, emit>>
  /\ UNCHANGED <<session, subs, sub, conn, client, events, cut, bounds>>

WriteOwner(s) ==
  /\ emit[s].pc = "write"
  /\ LET c == emit[s].at IN
     \/ /\ c = None /\ Running(s)
        /\ StartFan(s) /\ UNCHANGED <<cpu, queue, slow>>
     \/ /\ c # None /\ Put(s, c, EventFrame(emit[s].id))
        /\ StartFan(s) /\ cpu' = s
     \/ /\ c # None /\ Suspend(s, c) /\ UNCHANGED <<queue, emit>>
  /\ UNCHANGED <<session, subs, sub, conn, client, events, cut, bounds>>

(* The next entry of the dictionary, or the end of the loop, or the        *)
(* RuntimeError of a dictionary that changed its size meanwhile: nothing   *)
(* catches it, and the task that called on_event ends.                     *)
NextWatcher(s) ==
  /\ Running(s) /\ emit[s].pc = "fan" /\ emit[s].at = None
  /\ IF Cardinality(watchers) # emit[s].size
     THEN /\ emit' = [emit EXCEPT ![s].pc = "dead"]
          /\ cut' = cut \cup {emit[s].id}
          /\ cpu' = Free
     ELSE /\ \/ /\ watchers \subseteq emit[s].done
                /\ emit' = [emit EXCEPT ![s].pc = "end"]
             \/ \E w \in watchers \ emit[s].done : emit' = [emit EXCEPT ![s].at = w]
          /\ UNCHANGED <<cut, cpu>>
  /\ UNCHANGED <<session, subs, sub, conn, queue, client, events, slow, bounds>>

WriteWatcher(s) ==
  /\ emit[s].pc = "fan" /\ emit[s].at # None
  /\ LET c == emit[s].at IN
     \/ /\ Put(s, c, EventFrame(emit[s].id))
        /\ emit' = [emit EXCEPT ![s].at = None, ![s].done = @ \cup {c}]
        /\ cpu' = s
     \/ Suspend(s, c) /\ UNCHANGED <<queue, emit>>
  /\ UNCHANGED <<session, subs, sub, conn, client, events, cut, bounds>>

(* The end of on_event: the turn of a session without an owner is over.    *)
EndEvent(s) ==
  /\ Running(s) /\ emit[s].pc = "end"
  /\ IF finishing /\ EndsTurn(events[emit[s].id].kind)
     THEN finishing' = FALSE /\ closing' = TRUE
     ELSE UNCHANGED <<finishing, closing>>
  /\ emit' = [emit EXCEPT ![s] = Idle]
  /\ cpu' = Free
  /\ UNCHANGED <<loaded, seq, ring, file, turns, sidecar, backend, subs, sub, conn, queue,
                 client, events, slow, cut, bounds>>

-----------------------------------------------------------------------------
(* backend.close(): the child is killed and the tasks that read from it    *)
(* are cancelled where they are.  This takes a while, in which the child   *)
(* may still produce events and an open may find it running.               *)
Fanning == {s \in Sources : emit[s].pc \in {"write", "fan", "stuck"}}

CloseBackend ==
  /\ backend' = "none"
  /\ emit' = [s \in Sources |-> Idle]
  /\ cut' = cut \cup {emit[s].id : s \in Fanning}

SoftKill ==
  /\ cpu = Free /\ closing
  /\ closing' = FALSE
  /\ CloseBackend
  /\ UNCHANGED <<loaded, seq, ring, file, turns, sidecar, finishing, cpu, subs, sub, conn,
                 queue, client, events, slow, bounds>>

(* agent.user on the owner's connection starts a turn, on a new child if   *)
(* there is none.                                                          *)
User(c) ==
  /\ cpu = Free /\ online[c] /\ alive[c] /\ sub[c].pc = "idle"
  /\ loaded /\ writer = c /\ backend # "turn"
  /\ Len(events) < MaxEvents
  /\ backend' = "turn"
  /\ UNCHANGED <<loaded, seq, ring, file, turns, sidecar, finishing, closing, cpu, subs, emit,
                 sub, conn, queue, client, events, slow, cut, bounds>>

-----------------------------------------------------------------------------
(* Session.attach and add_watcher install the writer first and then replay *)
(* a snapshot of the ring.                                                 *)
Subscribable(c) ==
  /\ cpu = Free /\ online[c] /\ alive[c]
  /\ role[c] = "none" /\ sub[c].pc = "idle"

Replay(newRing, seqOf, since) ==
  [NoSub EXCEPT !.pc = "replay", !.since = since,
                !.todo = Since(newRing, seqOf, since),
                !.earliest = EarliestSeq(newRing, seqOf),
                !.empty = Since(newRing, seqOf, since) = {}]

(* The session as enable_durable_log sets it up from its files.            *)
Seeded == RingExtend({}, LogTail(file, SizeOf, RingSize))

(* agent.open{resume}: the session is put back in the table if it is not   *)
(* there, a child is spawned if there is none, the ack is sent, and attach *)
(* makes c the owner.  (An absent last_seen_seq is 0: daemon.py:455.)      *)
Open(c, since) ==
  LET newRing == IF loaded THEN ring ELSE Seeded
      newSeq  == IF loaded THEN seq ELSE LatestSeq(Seeded, SeqOf)
  IN
  /\ Subscribable(c)
  /\ loaded' = TRUE /\ ring' = newRing /\ seq' = newSeq
  /\ turns' = IF loaded THEN turns ELSE sidecar
  /\ backend' = IF backend = "none" THEN "idle" ELSE backend
  /\ writer' = c
  /\ role' = [role EXCEPT ![c] = "owner"]
  /\ from' = [from EXCEPT ![c] = since]
  /\ queue' = [queue EXCEPT ![c] = Append(@, AckFrame(newSeq))]
  /\ sub' = [sub EXCEPT ![c] = Replay(newRing, SeqOf, since)]
  /\ cpu' = c
  /\ UNCHANGED <<file, sidecar, finishing, closing, watchers, emit, alive, online, connects,
                 client, events, slow, cut, bounds>>

(* agent.watch: add_watcher.  No last_seen_seq means no replay, and gives  *)
(* up what came before.                                                    *)
Watch(c, since, replay) ==
  /\ Subscribable(c) /\ loaded
  /\ watchers' = watchers \cup {c}
  /\ role' = [role EXCEPT ![c] = "watcher"]
  /\ from' = [from EXCEPT ![c] = IF replay THEN since ELSE seq]
  /\ queue' = [queue EXCEPT ![c] = Append(@, AckFrame(seq))]
  /\ IF replay THEN /\ sub' = [sub EXCEPT ![c] = Replay(ring, SeqOf, since)]
                    /\ cpu' = c /\ UNCHANGED told
               ELSE /\ told' = [told EXCEPT ![c] = @ \cup {<<0, seq + 1>>}]
                    /\ UNCHANGED <<sub, cpu>>
  /\ slow' = IF \E s \in Sources : emit[s].pc \in {"write", "fan"} THEN slow \cup {c} ELSE slow
  /\ UNCHANGED <<session, writer, emit, alive, online, connects, rcv, lastSeq, seen, events,
                 cut, bounds>>

(* The loop over to_replay.                                                *)
ReplayFrame(c) ==
  /\ sub[c].pc = "replay" /\ sub[c].todo # {}
  /\ LET id == Min(sub[c].todo) IN
     \/ /\ Put(c, c, EventFrame(id))
        /\ sub' = [sub EXCEPT ![c].todo = @ \ {id}]
        /\ cpu' = c
     \/ Suspend(c, c) /\ UNCHANGED <<queue, sub>>
  /\ UNCHANGED <<session, subs, emit, conn, client, events, cut, bounds>>

(* Behind the replay: a gap frame takes a seq of its own and goes to this  *)
(* subscriber only.  Only attach has the second case, for a ring that has  *)
(* nothing to replay although the session is ahead of the client.          *)
GapDueOffByOne(c) ==   (* mutant: a gap of one frame is not noticed *)
  \/ sub[c].earliest > sub[c].since + 2
  \/ role[c] = "owner" /\ sub[c].empty /\ seq > sub[c].since

GapDue(c) ==
  \/ sub[c].earliest > sub[c].since + 1
  \/ role[c] = "owner" /\ sub[c].empty /\ seq > sub[c].since

GapOfUntagged(c) ==   (* mutant: the gap frame repeats the last seq *)
  GapFrame(seq, sub[c].since,
           IF sub[c].earliest > sub[c].since + 1 THEN sub[c].earliest ELSE seq + 2)

GapOf(c) ==
  GapFrame(seq + 1, sub[c].since,
           IF sub[c].earliest > sub[c].since + 1 THEN sub[c].earliest ELSE seq + 2)

EndReplay(c) ==
  /\ Running(c) /\ sub[c].pc = "replay" /\ sub[c].todo = {}
  /\ IF GapDue(c)
     THEN /\ seq' = seq + 1
          /\ sub' = [sub EXCEPT ![c].pc = "last", ![c].last = GapOf(c)]
          /\ UNCHANGED cpu
     ELSE /\ sub' = [sub EXCEPT ![c] = NoSub]
          /\ cpu' = Free
          /\ UNCHANGED seq
  /\ UNCHANGED <<loaded, ring, file, turns, sidecar, finishing, backend, closing, subs, emit,
                 conn, queue, client, events, slow, cut, bounds>>

SendLast(c) ==
  /\ sub[c].pc = "last"
  /\ \/ /\ Put(c, c, sub[c].last)
        /\ sub' = [sub EXCEPT ![c] = NoSub]
        /\ cpu' = Free
     \/ Suspend(c, c) /\ UNCHANGED <<queue, sub>>
  /\ UNCHANGED <<session, subs, emit, conn, client, events, cut, bounds>>

(* An entry of _watchers that is gone is not visited by a loop in          *)
(* progress, and if it comes back it is a new entry.                       *)
Forget(c) == emit' = [s \in Sources |-> [emit[s] EXCEPT !.done = @ \ {c}]]

(* agent.unwatch.                                                          *)
Unwatch(c) ==
  /\ cpu = Free /\ online[c] /\ alive[c] /\ sub[c].pc = "idle"
  /\ c \in watchers
  /\ watchers' = watchers \ {c}
  /\ role' = [role EXCEPT ![c] = "done"]
  /\ Forget(c)
  /\ sub' = [sub EXCEPT ![c] = [NoSub EXCEPT !.pc = "last"]]
  /\ cpu' = c
  /\ UNCHANGED <<session, writer, alive, online, connects, from, queue, client, events, slow,
                 cut, bounds>>

-----------------------------------------------------------------------------
(* The writer loop moves a frame to the socket and the client reads it.    *)
Deliver(c) ==
  /\ cpu = Free /\ online[c] /\ queue[c] # <<>>
  /\ LET f == Head(queue[c]) IN
     /\ rcv' = [rcv EXCEPT ![c] = Append(@, f)]
     /\ lastSeq' = [lastSeq EXCEPT ![c] =
                      IF f.kind # "ack" /\ f.seq > @ THEN f.seq ELSE @]
     /\ seen' = [seen EXCEPT ![c] = @ \cup IF f.kind = "event" THEN {f.id} ELSE {}]
     /\ told' = [told EXCEPT ![c] =
                   @ \cup IF f.kind = "gap" THEN {<<f.since, f.first>>} ELSE {}]
  /\ queue' = [queue EXCEPT ![c] = Tail(@)]
  /\ UNCHANGED <<session, subs, cpu, emit, sub, conn, events, slow, cut, bounds>>

(* A client connects, for the first time or again.  Whoever waits on the   *)
(* full queue of the connection it had before waits on.                    *)
WaitsOn(s, c) == emit[s].pc \in {"write", "fan"} /\ emit[s].at = c

Connect(c) ==
  /\ cpu = Free /\ ~online[c] /\ ~alive[c] /\ connects[c] < MaxConnects
  /\ c # writer /\ c \notin watchers
  /\ (\E s \in Sources : WaitsOn(s, c)) => ~Room(c)
  /\ connects' = [connects EXCEPT ![c] = @ + 1]
  /\ alive' = [alive EXCEPT ![c] = TRUE]
  /\ online' = [online EXCEPT ![c] = TRUE]
  /\ role' = [role EXCEPT ![c] = "none"]
  /\ queue' = [queue EXCEPT ![c] = <<>>]
  /\ rcv' = [rcv EXCEPT ![c] = <<>>]
  /\ slow' = slow \ {c}
  /\ emit' = [s \in Sources |-> IF WaitsOn(s, c) THEN [emit[s] EXCEPT !.pc = "stuck"]
                                ELSE emit[s]]
  /\ sub' = [sub EXCEPT ![c] = NoSub]
  /\ UNCHANGED <<session, subs, cpu, from, lastSeq, seen, told, events, cut, bounds>>

(* The peer is gone: the writer loop ends at its next write.               *)
Drop(c) ==
  /\ cpu = Free /\ online[c]
  /\ online' = [online EXCEPT ![c] = FALSE]
  /\ UNCHANGED <<session, subs, cpu, emit, sub, alive, role, connects, from, queue, client,
                 events, slow, cut, bounds>>

(* serve() gets to its finally when the read loop ends, which it cannot    *)
(* while it waits in a handler.                                            *)
StopServing(c) ==
  /\ cpu = Free /\ ~online[c] /\ alive[c] /\ sub[c].pc = "idle"
  /\ alive' = [alive EXCEPT ![c] = FALSE]
  /\ UNCHANGED <<session, subs, cpu, emit, sub, online, role, connects, from, queue, client,
                 events, slow, cut, bounds>>

(* ... detach_all_for_connection and remove_all_watchers_for_connection.   *)
(* The child of an owner that left is closed, at once or after its turn.   *)
Detach(c) ==
  /\ cpu = Free /\ ~alive[c] /\ (c = writer \/ c \in watchers)
  /\ writer' = IF c = writer THEN None ELSE writer
  /\ watchers' = watchers \ {c}
  /\ Forget(c)
  /\ finishing' = (finishing \/ (c = writer /\ backend = "turn"))
  /\ closing' = (closing \/ (c = writer /\ backend = "idle"))
  /\ UNCHANGED <<loaded, seq, ring, file, turns, sidecar, backend, cpu, sub, conn, queue,
                 client, events, slow, cut, bounds>>

(* The session leaves the memory of the daemon: what its sidecar does not  *)
(* count is not counted any more.                                          *)
Unload ==
  /\ reloads < MaxReloads /\ reloads' = reloads + 1
  /\ loaded' = FALSE /\ seq' = 0 /\ ring' = {} /\ turns' = 0 /\ watchers' = {}
  /\ finishing' = FALSE /\ closing' = FALSE
  /\ unsaved' = {}
  /\ UNCHANGED <<sidecar, fails, misses>>

(* The reaper removes a session nobody owns: its child is closed and its   *)
(* log too, which is one more try for what was not flushed.  The reaper    *)
(* waits for idle_timeout_s (900 s): no replay is in progress any more.    *)
Reap ==
  /\ cpu = Free /\ loaded /\ writer = None
  /\ \A c \in Conns : sub[c].pc = "idle"
  /\ Unload
  /\ file' = IF file.unflushed = {} THEN file ELSE Flushed(file, file.unflushed)
  /\ CloseBackend
  /\ struck' = struck \cup unsaved
  /\ UNCHANGED <<writer, cpu, sub, conn, queue, client, events, slow>>

(* The daemon is killed.  The clients lose what was on the way to them.    *)
Killed ==
  /\ Unload
  /\ writer' = None
  /\ backend' = "none"
  /\ emit' = [s \in Sources |-> Idle]
  /\ sub' = [c \in Conns |-> NoSub]
  /\ alive' = [c \in Conns |-> FALSE] /\ online' = [c \in Conns |-> FALSE]
  /\ queue' = [c \in Conns |-> <<>>]
  /\ UNCHANGED <<cpu, role, connects, from, client, slow, cut>>

(* ... between two steps of the event loop, or in the write of a line, of  *)
(* which the file gets the first units (0: none): an event that got no     *)
(* further has never been.                                                 *)
InWrite ==
  IF file.unflushed # {} THEN {SizeOf[Min(file.unflushed)]}
  ELSE IF loaded /\ backend # "none" THEN Sizes ELSE {}

Crash(units) ==
  /\ cpu = Free /\ Killed
  /\ units = 0 \/ \E size \in InWrite : units < size
  /\ file' = LogCrash(file, units)
  /\ struck' = struck \cup unsaved
  /\ UNCHANGED events

(* ... in on_event, when the event is in the log and nowhere else.         *)
CrashInEvent(size, kind) ==
  LET id == Len(events) + 1 IN
  /\ Produces(kind) /\ Killed
  /\ NewEvent(size, kind)
  /\ file' = LogCrash(LogAppend(file, id), 0)
  /\ struck' = struck \cup unsaved \cup {id}

-----------------------------------------------------------------------------
Init ==
  /\ loaded = FALSE /\ seq = 0 /\ ring = {} /\ file = EmptyFile
  /\ turns = 0 /\ sidecar = 0 /\ finishing = FALSE /\ backend = "none" /\ closing = FALSE
  /\ writer = None /\ watchers = {}
  /\ cpu = Free
  /\ emit = [s \in Sources |-> Idle]
  /\ sub = [c \in Conns |-> NoSub]
  /\ alive = [c \in Conns |-> FALSE] /\ online = [c \in Conns |-> FALSE]
  /\ role = [c \in Conns |-> "none"] /\ connects = [c \in Conns |-> 0]
  /\ from = [c \in Conns |-> 0]
  /\ queue = [c \in Conns |-> <<>>]
  /\ rcv = [c \in Conns |-> <<>>] /\ lastSeq = [c \in Conns |-> 0]
  /\ seen = [c \in Conns |-> {}] /\ told = [c \in Conns |-> {}]
  /\ events = <<>> /\ slow = {} /\ cut = {}
  /\ unsaved = {} /\ struck = {} /\ reloads = 0 /\ fails = 0 /\ misses = 0

SourceStep(s) ==
  \/ \E size \in Sizes, kind \in Kinds : OnEvent(s, size, kind)
  \/ WriteOwner(s) \/ NextWatcher(s) \/ WriteWatcher(s) \/ EndEvent(s)

SubscribeStep(c) ==
  \/ \E since \in {0, lastSeq[c]} : Open(c, since)
  \/ \E replay \in BOOLEAN : Watch(c, lastSeq[c], replay)
  \/ ReplayFrame(c) \/ EndReplay(c) \/ SendLast(c) \/ Unwatch(c)

ConnectionStep(c) ==
  User(c) \/ Deliver(c) \/ Connect(c) \/ Drop(c) \/ StopServing(c) \/ Detach(c)

Next ==
  \/ \E s \in Sources : SourceStep(s)
  \/ \E c \in Conns : SubscribeStep(c) \/ ConnectionStep(c)
  \/ SoftKill \/ Reap \/ \E size \in Sizes : \E units \in 0 .. size - 1 : Crash(units)
  \/ \E size \in Sizes, kind \in Kinds : CrashInEvent(size, kind)

Spec == Init /\ [][Next]_vars
-----------------------------------------------------------------------------
Frame == [kind : {"ack", "event", "gap"}, id : Nat, seq : Nat, since : Nat, first : Nat]

OnEventCall ==
  [pc : {"idle", "write", "fan", "end", "stuck", "dead"}, id : Nat, at : Conns \cup {None},
   done : SUBSET Conns, size : Nat]

Subscription ==
  [pc : {"idle", "replay", "last"}, todo : SUBSET Ids, since : Nat, earliest : Nat,
   empty : BOOLEAN, last : Frame]

SessionType ==
  /\ loaded \in BOOLEAN /\ seq \in Nat /\ ring \subseteq Ids
  /\ IsFile(file, Ids)
  /\ turns \in Nat /\ sidecar \in Nat
  /\ finishing \in BOOLEAN /\ closing \in BOOLEAN /\ backend \in {"none", "idle", "turn"}
  /\ writer \in Conns \cup {None} /\ watchers \subseteq Conns

EmitType ==
  /\ emit \in [Sources -> OnEventCall]
  /\ \A s \in Sources : emit[s].pc # "idle" => emit[s].id \in Ids

SubType == sub \in [Conns -> Subscription]

QueueType ==
  /\ queue \in [Conns -> Seq(Frame)]
  /\ \A c \in Conns : Len(queue[c]) <= QueueSize

ConnType ==
  /\ cpu \in {Free} \cup Sources \cup Conns
  /\ alive \in [Conns -> BOOLEAN] /\ online \in [Conns -> BOOLEAN]
  /\ role \in [Conns -> {"none", "owner", "watcher", "done"}]
  /\ connects \in [Conns -> Nat] /\ from \in [Conns -> Nat]

ClientType ==
  /\ rcv \in [Conns -> Seq(Frame)] /\ lastSeq \in [Conns -> Nat]
  /\ seen \in [Conns -> SUBSET Nat] /\ told \in [Conns -> SUBSET (Nat \X Nat)]

HistoryType ==
  /\ events \in Seq([seq : Nat, size : Nat, kind : EventKinds])
  /\ slow \subseteq Conns /\ cut \subseteq Ids /\ unsaved \subseteq Ids /\ struck \subseteq Ids
  /\ reloads \in Nat /\ fails \in Nat /\ misses \in Nat

(* Every variable has its type, and no queue outgrows its bound.           *)
TypeOK ==
  SessionType /\ EmitType /\ SubType /\ QueueType /\ ConnType /\ ClientType /\ HistoryType

(* What reached the connection c: its frames in the order they were put.   *)
Stream(c) == rcv[c] \o queue[c]

Events(fs) == {fs[i].id : i \in {j \in DOMAIN fs : fs[j].kind = "event"}}

(* No event is put twice on the connection of an owner, whatever the order *)
(* in which a replay, live events and a takeover meet: on_event takes the  *)
(* writer and attach takes the snapshot in the step that makes them true   *)
(* (session.py:128, 174-180).  Watchers have no such guarantee.            *)
OwnerNoDuplicate ==
  \A c \in Conns : role[c] = "owner" =>
    \A i, j \in DOMAIN Stream(c) :
      /\ Stream(c)[i].kind = "event" /\ Stream(c)[j].kind = "event"
      /\ Stream(c)[i].id = Stream(c)[j].id
      => i = j

(* On its way to c: still to be replayed, or in an on_event that took c as *)
(* its writer.                                                             *)
Underway(c) == sub[c].todo \cup {emit[s].id : s \in {t \in Sources : WaitsOn(t, c)}}

Gaps(fs) == {<<fs[i].since, fs[i].first>> : i \in {j \in DOMAIN fs : fs[j].kind = "gap"}}

Covered(gaps, n) == \E g \in gaps : g[1] < n /\ n < g[2]

(* Every line of the log was written whole, and tail() can see any of them *)
(* when it is the last one, before the fragment the log may end in         *)
(* (event_log.py:88-100).                                                  *)
LogIntact ==
  /\ fails = 0 /\ DOMAIN file.bad = {}
  /\ \A i \in Ids : SizeOf[i] + file.torn < TailSpan

(* Once the replay is done, every event past the last_seen_seq of the      *)
(* owner's open is on its connection or on its way there, or lies in a gap *)
(* it is told of (session.py:177-216), across restarts as long as the log  *)
(* is intact.  What is lost is what was being fanned out when the tasks of *)
(* the backend were cancelled (cut).                                       *)
OwnerComplete ==
  \A c \in Conns :
    loaded /\ LogIntact /\ writer = c /\ alive[c] /\ sub[c].pc = "idle" =>
      \A i \in Ids \ cut :
        events[i].seq > from[c] =>
          \/ i \in Events(Stream(c)) \cup Underway(c)
          \/ Covered(Gaps(Stream(c)), events[i].seq)

Increasing(fs) ==
  \A i, j \in DOMAIN fs :
    i < j /\ fs[i].kind # "ack" /\ fs[j].kind # "ack" => fs[i].seq < fs[j].seq

(* As long as no put on its queue had to wait, an owner gets its frames in *)
(* the order of their seq: replay, gap notice, live events.  A watcher can *)
(* rely on that only while no on_event call waits for anybody, from the    *)
(* moment it subscribes: a call that waits for another connection gets to  *)
(* the watcher when later events have (session.py:128-147).                *)
InOrder ==
  \A c \in Conns :
    role[c] \in {"owner", "watcher"} /\ c \notin slow => Increasing(Stream(c))

(* The ring holds the newest events the session ever produced, also after  *)
(* a restart or the reaper, when it is seeded from the log                 *)
(* (session.py:370-391), as long as the log is intact and the window of    *)
(* tail() has room for them and for the fragment of a line that was being  *)
(* written; if it has not, the ring has the last event.                    *)
RingIsNewest ==
  loaded /\ LogIntact =>
    IF MapThenSumSet(LAMBDA i : SizeOf[i], Newest(Ids, RingSize)) + file.torn < TailSpan
    THEN ring = Newest(Ids, RingSize)
    ELSE Newest(Ids, 1) \subseteq ring

(* No two events of a session have the same seq, across restarts, as long  *)
(* as the log is intact: on_event logs an event before anybody sees it,    *)
(* and a session continues at the seq of the last line.                    *)
EventSeqUnique ==
  LogIntact => \A i, j \in Ids : events[i].seq = events[j].seq => i = j

(* Session.turns counts the turns of the session's whole life that brought *)
(* their usage, through the sidecar (session.py:397-435, 462-507), except  *)
(* those of which the sidecar did not know when the session left memory:   *)
(* the save failed and no later one made up for it, or the daemon was      *)
(* killed before it.                                                       *)
TurnsCounted ==
  loaded => turns = Cardinality({i \in Ids \ struck : events[i].kind = "result"})

(* What the documentation says of the log (docs/spec.md:770-776): on       *)
(* reopen the ring is seeded from its tail, so replay survives daemon      *)
(* restarts.  So the newest events are there for replay, at least those a  *)
(* client has seen.  No write fails here.                                  *)
ReplaySurvivesRestart ==
  loaded /\ fails = 0 => \A c \in Conns : seen[c] \cap Newest(Ids, RingSize) \subseteq ring

(* What the documentation says of replay (docs/spec.md:785-788): the gap   *)
(* notice comes before the replay so the client can detect the loss.  So a *)
(* client that lost its connection has received every event up to the seq  *)
(* it will name when it comes back, or knows of the gap.                   *)
NoSilentLoss ==
  \A c \in Conns : ~online[c] =>
    \A i \in Ids \ cut :
      events[i].seq <= lastSeq[c] => i \in seen[c] \/ Covered(told[c], events[i].seq)

(* What the documentation says of seq (docs/spec.md:759-763): it is        *)
(* monotonic, so a session is never behind what a client has seen of it.   *)
SeqCoversClients == loaded => \A c \in Conns : lastSeq[c] <= seq
=============================================================================
