# Verification of blemees-agentd

TLA+ models of `blemees_agent`, the daemon that gives clients on a Unix socket
sessions with coding agents (Claude Code, Codex) run as child processes. The
modules are checked with TLC on small instances; theorems about them are proved
with TLAPS for every value of the constants.

Paths below are relative to the repository; line numbers name its source.

## The system

One asyncio event loop. Code between two `await`s that really suspend is atomic,
so the interesting interleavings are at those awaits: a put on a full connection
queue (`daemon.py:919`), spawning and closing a child, the lock of the session
table, a read of a child's pipe, a request to Codex, a timer.

| Component | State | Operations | Talks to |
|---|---|---|---|
| Connection (`daemon.py:100-1008`) | queue (1024 frames), `_alive`, `_owned_sessions`, `_watched_sessions` | serve, handshake, read loop, dispatch and one handler per message, writer loop, watchdog | session table, sessions (through the writer callback), the socket |
| Session (`session.py:40-507`) | `seq`, ring, log, `_writer`, `_watchers`, `_finishing`, turns and usage, title | on_event, attach, add_watcher, remove_watcher, broadcast, detach_writer, mark_finishing, enable_durable_log | connections, its backend, its files |
| Ring and event log (`event_log.py`) | deque of frames; JSONL file and its buffer | append, since, extend; open, append, tail, close, unlink | the file system |
| SessionTable (`session.py:515-684`) | sessions by id, lock | new_session, register, get, detach_soft, detach_all, remove, reap_idle, shutdown | connections, backends |
| Claude backend (`backends/claude.py`) | child, `turn_active`, reader tasks, turn metadata, `_closing` | spawn, respawn, send_user_turn, interrupt, close, three readers | the child, `Session.on_event` |
| Codex backend (`backends/codex.py`, `translate_codex.py`) | child, thread id, pending requests, active turn, translator | spawn, initialize, send_user_turn, interrupt, close, RPC dispatch | the child, `Session.on_event` |
| Wire protocol (`protocol.py`) | none | one strict parser per message | connections, client |
| Daemon (`daemon.py:1016-1246`) | connections, shutdown event, reaper | accept, lookup, status, shutdown | all of them |
| Client (`client.py`) | `last_seq`, pending requests | connect, open_session, events, reader loop | the socket |
| Listings and info (`list_sessions`, `session_info`, rollouts and transcripts) | none | read the table and files | the file system |

### What is hard

* A put on a full queue suspends its task, and `asyncio.Queue` is not fair: a put
  that finds room overtakes one that has been woken but has not run. Replays, live
  events of three reader tasks, acks and gap notices meet on one queue.
* State is read before such an await and used after it: the writer in `on_event`,
  the iterator over the watchers, the replay snapshot, the backend in open, user,
  detach and remove.
* Connections disappear at any time; the tasks that wait on their queues do not
  learn of it. Clients come back and name the last seq they saw.
* The daemon is killed between two steps or in the write of a line; writes of the log
  and the sidecar fail and are swallowed; everything is rebuilt from these two.
* Turns end in several ways at once (result, interrupt, exit of the child, error
  on stderr), and sessions are taken over, reaped and removed meanwhile.

`PROJECT.json` lists the hazards line by line with the properties that cover them.

### What makes each component correct

* Stream: an owner gets every event after the seq it named, or is told of the gap;
  none twice; in order unless a put had to wait. *(proved)*
* Log: the session rebuilt from its files has the newest events and continues its
  numbering, as long as the log is intact and its end fits the window that is read;
  it continues its turn count, but for what its sidecar did not know. *(proved)*
* Table: at most one running child and one owner per session; every session is
  reachable or reaped; no turn of an owner is cut short; nothing goes on when
  everybody has left. *(proved but for the last, which is liveness and checked; apart
  from the races the properties name)*
* Backends: every accepted turn ends in exactly one `agent.result`; nothing of an
  earlier turn is taken for the present one. *(that a turn lives at most once, and
  nothing is mistaken, is proved for both; that every turn ends is checked, but for
  those the modules name lost; the violations show two exceptions of Claude)*
* Connection: requests are understood and answered once *(proved)*; whatever the peer
  does, serve() ends and detaches its sessions, and a call of the library returns
  *(checked, apart from the ways to hang the properties name)*.
* Shutdown: the daemon stops. *(checked, apart from a client that does not read)*

## Modules

| Module | Models |
|---|---|
| `EventLog` | `RingBuffer` and `DurableEventLog` as operators |
| `EventStream` | one session: `on_event`, attach, watch, unwatch, detach, soft kill, reaper, kill and restart, with its connections' queues and its clients |
| `MCEventStream` | the instances of `EventStream` for TLC |
| `TurnLifecycle` | what a backend promises about turns (abstract) |
| `ClaudeBackend` | one Claude backend: its child, its three reader tasks, the calls of the owner; implements `TurnLifecycle` |
| `CodexTranslator` | what the Codex translator keeps of a turn, as operators |
| `CodexBackend` | one Codex backend and its child, with the handshake and the cancellation of a turn; implements `TurnLifecycle` |
| `SessionTable` | the handlers of several connections, the reaper and the soft kill on one session id: its Session objects and children |
| `Protocol` | the parsers and the dispatch of the daemon, and the frames of the library, as operators |
| `Connection` | one connection from both ends: serve, writer loop, watchdog, the puts of sessions, shutdown, the client library |
| `EventLogProofs` | lemmas about ring and log |
| `EventStreamProofs` | the type invariant of the stream |
| `EventStreamLogProofs` | what the files of a session keep: its newest events, its seqs, its turns |
| `EventStreamOwnerProofs` | what reaches a subscriber: nothing twice, in order, nothing lost |
| `ClaudeBackendProofs` | types; turns closed once, kills not reported; the steps of `TurnLifecycle` |
| `CodexBackendProofs` | types; results and interruptions are their own turn's; one conversation; the steps of `TurnLifecycle` |
| `SessionTableProofs` | types; one owner, no child left running, no turn cut short |
| `ConnectionProofs` | types; the library is understood, no request is answered twice |

How they fit together: `EventStream` uses `EventLog`, `CodexBackend` uses
`CodexTranslator`, `Connection` uses `Protocol`, and both backends are shown to
implement `TurnLifecycle`. The other seams are cut where the code awaits. A backend
is to `SessionTable` a child that runs, takes turns and dies; a handler of
`SessionTable` is to `Connection` a list of frames it puts, with a subscription in
between; a put that waits in `EventStream` is the `waits` of `Connection`.

### EventLog

Events are named 1, 2, 3, ... in the order of their creation. Ring and log only
append, so a store is a *set* of names and its order is the order of the names;
the seq of an event is kept apart (`SeqOf`), because after a restart it may repeat.
`RingAppend` is a deque with `maxlen`; `EarliestSeq` and `LatestSeq` look at its
ends as the code does. A log file is a record: the lines it has, which of them do
not parse, each with the length of the fragment it was appended to (`bad`), the length
of the fragment the file ends in (`torn`, 0 if in none), and what is still in the buffer
of the file object (`unflushed`, after an `OSError`). Lines and fragments have sizes.
`LogTail` has the 256 KiB window, counted from the end of the file with every fragment
in it (`FromEnd`), the dropped first piece, the `-2n` overshoot with the empty piece
behind the last newline, and the final `-n`.

### EventStream

`cpu` names the task that runs: a task that has the cpu goes on to its next await
that suspends, and nobody else moves. `Put` and `Suspend` are `_emit_frame`:
a running task puts, drops the frame of a dead connection, or gives up the cpu on a
full queue; a task that waits may go on whenever there is room, overtaken or not.

| Code | Model |
|---|---|
| `on_event` up to the first await (`session.py:108-130`) | `OnEvent` |
| the put to the writer, the loop over the watchers, its end | `WriteOwner`, `NextWatcher`, `WriteWatcher`, `EndEvent`; `emit[s].pc` says where source `s` is |
| `RuntimeError: dictionary changed size during iteration` | `emit[s].pc = "dead"` |
| a put on the queue of a connection that is gone | `emit[s].pc = "stuck"` once the client has connected again |
| `_handle_open` + `attach` | `Open`, `ReplayFrame`, `EndReplay`, `SendLast` |
| `_handle_watch` + `add_watcher`; `_handle_unwatch` | `Watch`, ...; `Unwatch`, `SendLast` |
| `_handle_user` | `User` |
| writer loop and client `_deliver` | `Deliver` |
| `serve()` and its `finally` | `Connect`, `Drop`, `StopServing`, `Detach` |
| soft kill, `detach_soft` (`backend.close()` in a task of its own) | `closing`, `SoftKill` |
| reaper + `remove` | `Reap` |
| the save of the sidecar, which may fail (`session.py:475-481`) | `SaveSidecar` in `CountTurn` |
| the daemon is killed, with some units of a line in the file; a restart is the next `Open` | `Crash(units)`, `CrashInEvent` |
| `new_session` + `enable_durable_log` | `Seeded`, `LatestSeq` in `Open` |

Events are `"result"` (an `agent.result` with usage, which counts as a turn),
`"bare"` (one without usage, as the Claude backend synthesizes them: it ends the
turn and is not counted), `"init"` (an `agent.system_init`, which saves the sidecar
and counts nothing) or `"output"`. `unsaved` are the events the session has counted and
the sidecar has not; those that are unsaved when the session leaves memory are `struck`.

Abstractions:

* The order of the `_watchers` dictionary is any order. `_watchers` is iterated
  under the size check of the iterator.
* What `_handle_open` does before `attach` (the notice to the previous owner, the
  spawn) is one step with the snapshot. Its await points are in `SessionTable`.
* A session is never deleted; titles and `live_summary` are left out.
* A connection subscribes once in its life, to this one session. The client may
  name its `last_seq` or none, and may come back under the same name.
* A fragment in the log never parses. (A fragment that lacks only its newline would.)
* The child does not exit by itself here, and `Reap` waits until no replay is in
  progress, as the 900 s of the idle timeout make sure.
* A failed save leaves the old sidecar: the code writes a file beside it and renames
  that one.
* The bounds of the model are `MaxEvents`, `MaxConnects`, `MaxReloads`, `MaxFails`,
  `MaxMisses` (saves that fail). They stand in guards only.

### TurnLifecycle and ClaudeBackend

`TurnLifecycle` gives every turn a status: `none`, `open`, `ending` (its result is
decided and will follow), `closed` or `lost`. A turn is accepted when no other is
open (`Steps`, the safety half), and every turn that is open or ending leaves that
state (`EveryTurnEnds`). A step may lose turns, so the implementing module has to say
which ones it loses: the mapping in `ClaudeBackend` (`Status`) takes them from `lost`,
a history variable that the model only adds to.

| Code | Model |
|---|---|
| `_read_stdout`; its end of file | `ReadStdout`, `StdoutNext`; `task["stdout"]` |
| a line over the stream limit (`claude.py:325-331`) is dropped by `readline()`; `read(1)` takes a byte of the same line, or the first of the next, which then does not parse (`339-341`) | `Overrun`; pc `"skip"`, `SkipLine` |
| `_read_stderr`: the authentication branch, its two `on_event` calls | `ReadStderr`, `StderrClose`, `StderrNext`; `task["stderr"]` |
| `_watch_exit`: `proc.wait()`, the error, the result, the last line | `WatchExit`, `ExitClose`, `ExitEnd`; `task["exit"]` |
| `send_user_turn` with the drain of stdin and the notice | `SendUser`, `WriteFails`, `Written`, `Noticed` |
| `interrupt` | `Interrupt`, `KillChild`, `Killed`, `ReaderOver`, `CancelReader`, `ReadersOver`, `Spawned` or `SpawnFails`, `EmitSynth` (a task of its own) |
| `close` | `Close`, the same kill and drain, `ReadersOver` |
| an exception of `on_event` in a reader; `wait_for` passes it on | `ReaderDies` |
| the child; the event loop that learns of its exit | `ChildReads`, `ChildAnswers`, `ChildComplains`, `ChildExits`; `ChildReaped` |

A result counts as emitted when `on_event` gives it its seq; the rest of that call
may take any time, so the task has a pc (`"emit"`, `"end"`) until it returns.
`results` records of every result who made it, the `turn_id` it is stamped with,
and the turn the child was answering. `turn`, `active`, `finalized`, `closing` and
`authSeen` are the fields of the object under shorter names.

Abstractions:

* One call of the owner at a time, as the read loop of one connection makes them.
  A takeover or a reaper that brings a second call, and the new backend object after
  an exit of the child, are in `SessionTable`.
* The child prints one line of output a turn; more would change no field. A read
  of a pipe is one step, `stderr` holds the first line that matters. Plain lines of
  stderr and the `task_started` notice change nothing but the time a task takes,
  which is arbitrary here.
* The timeouts of the kill and of the drain may strike at any time
  (`CancelReader`); a signal always ends the child in the end.
* `Faults` says what may go wrong in an instance; `MaxTurns` and `MaxLines` bound
  the turns and the unread output. They stand in guards only.

### CodexTranslator and CodexBackend

`CodexTranslator` sorts the rows of the translator's dispatch by what they do: give a
frame, are dropped, or are kept for the result. Of what is kept only the origin
matters: the turn whose event filled the slot last.

| Code | Model |
|---|---|
| `spawn`: `_do_initialize`, `_verify_tools`, the failed handshake | `Init` with `call.pc = "init"`, `VerifyTools`, `ReadReply`, `SpawnFails` |
| an exception of a write in `spawn` that is no `SpawnFailedError` | `SpawnBreaks` |
| `send_user_turn`: `codex` or `codex-reply`, the drain | `Tool`, `SendUser`, `Written`, `WriteFails` |
| `interrupt`: the notification, or a kill if it cannot be sent | `Interrupt`, `CancelFails`, `KillChild`, `Killed` |
| `close`, `_drain_readers` | `Close`, `KillChild`, `Killed`, `ReaderOver`, `CancelReader` |
| `_read_stdout`, `_dispatch_rpc`, `_handle_notification` with its filter | `ReadEvent`, `ReadAbort`, `Stale` |
| `_handle_turn_response`, the frame about a failed authentication in front | `ReadResponse`, `AuthReported`, `ReadNobodys` |
| a line over the stream limit, and the line behind it that does not parse (`codex.py:468-473`, `494-498`) | `Overrun`; pc `"skip"`, `SkipLine` |
| the `on_event` of a reader returns; the end of the output | `StdoutNext` |
| `_read_stderr`, of which only `_auth_emitted` matters here | `StderrComplains` |
| `_watch_exit` | `WatchExit`, `ExitClose`, `ExitEnd` |
| an exception of `on_event` in a reader, or in the close that waits for it | `ReaderDies` |
| the child | `ChildGreets`, `ChildTakes`, `ChildCancels`, `ChildPrints`, `ChildPrintsLate`, `ChildExits`, `ChildReaped` |

A child that is asked to cancel a turn may abort it, say more of it between the
lines of the next one (`late`), or answer it all the same. `results` records of every
result who made it, the turn that was open, the turn it is about, and where usage and
`turn_id` come from; the properties compare these.

Abstractions: request ids grow, so a turn stands for the id of its request; every
event of the child carries the id of its request and of its thread. The three
readers end as in `ClaudeBackend`. Left out are options and argv, plain lines of
stderr, a response that belongs to no turn, and the fields of frames.

### SessionTable

One session id. `obj` has every Session object made for it, `kid` every backend;
`table` is the object registered now. `pc` says where a connection (or the reaper)
waits, with the object and the child it holds meanwhile: exactly the locals that a
handler keeps across an await.

| Code | Model |
|---|---|
| `_handle_open`, to its next await | `OpenNew`, `Resume`, `OpenWith` (found running, to be spawned, or options refused) |
| `notify_session_taken` on the former owner's queue | `Displaced`, pc `"told"`, `Told` |
| `await backend.spawn()` in an open; success, `SpawnFailedError`, any other exception | pc `"spawn"`, `Spawned`, `SpawnFails`, `SpawnBreaks` |
| the acknowledgement, then `attach` | pc `"own"`, `Attach` |
| `_handle_user`, with its respawn | `User`, `UserRespawns`, `Respawned`, `RespawnFails` |
| `_handle_interrupt` | `Interrupt`, pc `"restart"`, `Restarted` |
| `_handle_close`: the notice to the watchers, `remove` | `Close`, `Farewell`, `Remove`, `Closed` |
| `detach_all_for_connection`, `detach_soft` | `Disconnect`, `Unhook`, pc `"detach"`, `Detached` |
| reaper: the list, then each removal | `Expire`, pc `"expired"`, `Reap` |
| end of `on_event` for a finishing session; the scheduled close | `ResultOver`, `doomed`, `SoftKill` |
| the child: result, exit, death by `close()` | `Result`, `Exits`, `Dies` |

`Remove` takes what the id stands for when it runs, not what the caller looked up,
as `SessionTable.remove` does. The lock of the table covers no await, so it excludes
nobody and is left out.

Five variables are history. They name the *exceptions* of the properties, each as
narrow as could be found by looking at what breaks without it:

* `met`: processes whose operation at hand met an operation of somebody else.
* `mixed`: connections one of whose operations did, until they open the session
  afresh with nobody in between; an owner whose second open failed to spawn (the id
  stays in `_owned_sessions`); and whoever opens the session while one of these
  still has the id.
* `crossed`: children started by such an operation.
* `stranded`: objects registered by an open that then failed (options refused,
  spawn broke): nobody has attached, `detached_at` is unset, the reaper skips them.
* `risky`: children that got a turn while a close or soft kill of an earlier owner
  was already on its way to them, or whose turn is open while another result is.

Left out: events and replay, the inside of backends, errors that change nothing
(`max_concurrent` among them), removal with delete.

### Protocol and Connection

A frame of `Protocol` is its type, the fields it has, and those whose value is
wrong: what a strict parser looks at. `Verdict` is the dispatch.

| Code | Model |
|---|---|
| `_handshake` | `Hello`, `Greeted` |
| `_read_loop`, `_dispatch`; a line over the limit | `Receive` |
| what a handler puts, with the subscription in between | `Puts`, `OpenPuts`, `WatchPuts`, `UserPuts`, `todo` |
| `_emit_frame` of the answers | `Answer` |
| the guard of the read loop, before each line | `Loop` in `Greeted` and `NextLine` |
| the end of the read loop; the `finally` of `serve()` | `Loop`, `Ends`, `Leave` (the sentinel, or none when the queue is full), `Gathered`, `Served` |
| `_writer_loop`, `_watchdog` | `WriterTakes`, `WriterDrained`; `SlowConsumer`, `WatchdogEnds` |
| `on_event` and `notify_session_taken` of others on this queue | `Event`, `EventPut`, `waits` |
| `request_shutdown`, `_shutdown`, `broadcast_shutdown` | `Signal`, `Broadcast`, `CloseTransport`, `Stop` |
| `connect`, requests that await a reply, calls that do not, `close` | `Reads` (hello), `Ask`, `AskInVain`, `Call`, `Closes` |
| `_reader_loop`, its two ends | `Reads` (a line over the limit, an awaited reply or any other, ends it: `"deaf"`), `EndOfStream` with `Loses` |
| asyncio's transport | `Write`, `Drained`, `Flushed` (external) |

Abstractions: what a line says is chosen when it is read. One put of a session waits
at a time. The grace period of the shutdown and the forced removal of sessions have
timeouts of their own, and with the end of the process are one step (`Stop`). The
client does not come back; that is in `EventStream`.

## Checks

| Run | Instance | Shows |
|---|---|---|
| `EventStream_backpressure` | 2 connections, 2 sources, ring 1, queues of 3, 3 events, 1 failing write of the log | `TypeOK`, `OwnerNoDuplicate`, `OwnerComplete`, `InOrder` |
| `EventStream_restart` | 1 connection, 1 source, ring 2, queue 2, 3 events of size 1 or 2, fragments of size 1, a window of 4, 2 connects, 2 reloads, 1 save that fails | `RingIsNewest`, `EventSeqUnique`, `TurnsCounted`, `OwnerComplete` |
| `EventStream_gap_notice` | ring 1, 3 events, 2 connects | `NoSilentLoss` is violated |
| `EventStream_seq_reuse` | ring 1, 3 events, 3 connects, 1 kill | `SeqCoversClients` is violated |
| `EventStream_torn_log` | ring 2, 2 events, 3 connects, 2 kills | `ReplaySurvivesRestart` is violated |
| `ClaudeBackend_turns` | 2 turns, 1 unread line; the child may exit or fail to authenticate | `ReadersCloseOnce`, `KillIsNoCrash`, `Lifecycle` (implements `TurnLifecycle`, liveness included) |
| `ClaudeBackend_failures` | 2 turns, 1 unread line; the child may exit, a spawn may fail, a reader may raise, a line may be too long | `TypeOK`, `Lifecycle` |
| `CodexBackend_turns` | 2 turns, 1 unread line; the child may exit, refuse the handshake or fail to authenticate, a reader may raise, a line may be too long | `TypeOK`, `ChildClosesItsTurn`, `ResultIsOwn`, `InterruptedOnRequest`, `OneConversation`, `Lifecycle` |
| `SessionTable_owners` | 2 connections and the reaper (1.9 million states), 2 Session objects, 2 backends of one id | `TypeOK`, `NoLeak`, `OwnerHasSession`, `TurnKept`, `CleanedUp` (liveness) |
| `Connection_ends` | queue of 1, a transport that takes nothing unread, 1 awaited request, 1 unread line | `TypeOK`, `AnsweredOnce`, `ClientUnderstood`, and the liveness of `LeaverDetached`, `NoRequestHangs`, `PutsReturn`, `ShutdownEnds` |
| `ClaudeBackend_result_last` | 2 turns, 2 unread lines; authentication may fail | `ResultIsLast` is violated |
| `ClaudeBackend_hang` | 1 turn, 2 unread lines; a reader may raise | `NoTurnHangs` is violated |

Why the bounds are enough. A queue of 3 holds an ack and two frames, so a replay,
a gap notice and live events contend for it, and puts wait, are overtaken and
resume; with a queue of 2 no frame could be overtaken by a later one of its
stream. Two sources give two `on_event` calls at once, two
connections a takeover, an owner with a watcher, and a watcher that leaves during
the fan-out; a ring of 1 with 3 events rolls over. Nothing distinguishes a third
source or connection. The restart run needs order in the log: 3 events, a ring of
2 (so that the overshoot and a bad line matter), and two reloads, because a
fragment harms only the restart after the next line. The window of `tail()` holds
the whole file, all but its first line, or the last line only, or because of a fragment
fewer, and its edge falls on the edge of a line or inside one. A save that fails is
made up for by the next result or the next start of a child, or a kill or the reaper
comes first. A write of the log that fails and a restart do not meet in a run: after
the one the log is not intact, and nothing is claimed of it but `TurnsCounted`, which
is proved for this case. `CHECK_DEADLOCK FALSE`: the daemon may stop for
want of clients, and the bounds end every behaviour.

For the Claude backend two turns are what the hazards are about: a late result, exit
or interrupt of one meets the next. A pipe of one line makes the child wait for
the reader, and the reader may be in `on_event` meanwhile. The same holds for Codex,
where a turn that was cancelled, one that is open, and what the child still says of
the first are all there are to confuse; the ids of a third would be as distinct as
these. Its five faults are allowed together, so that a failed handshake meets an
exit, and a complaint the response.

For `SessionTable` two connections and the reaper are three actors on one id: a
takeover needs two, and the reaper meets an open, a close and a detach. Two children
are enough for one to be left running, two objects for an id that was removed and
made again; a third would repeat this.

For `Connection` a queue of one is full with a single frame, so every put may wait
and the sentinel may find no room, and a transport that takes nothing unread makes
every drain wait. One request is enough to be answered twice or never; the other
lines of the client and the events of sessions compete with it for the queue.

### What the passing runs say, and when

The code does not do unconditionally what one would like it to. A property says
exactly under which condition it holds, and each condition is a case in which the
program really behaves otherwise:

* `InOrder`: only while no put on the queue had to wait (`slow`), because a waiting
  put is overtaken. A watcher also depends on the other queues: an `on_event` call
  that waits for anybody gets to the watcher when later events have, and so may one
  that was waiting when the watcher subscribed. (Both take more connections or
  events than the instance has; the proof found them.)
* `OwnerComplete` leaves out the events that were being fanned out when the tasks of
  the backend were cancelled (`cut`).
* `RingIsNewest`, `EventSeqUnique` and `OwnerComplete` need an intact log: no write
  failed, no line joined a fragment, and every line fits the window of `tail()`
  together with the fragment the log ends in, whose bytes the window counts
  (`LogIntact`). When the last line and the fragment behind it have 256 KiB or more,
  the session starts at seq 0 again, and a client that is behind is told of no gap
  (`event_log.py:88-100`). When the window does not hold a ring's worth of lines and
  the fragment, `RingIsNewest` asks for the last event only; numbering and replay are
  as good.
* `TurnsCounted` leaves out the turns of which the sidecar did not know when the
  session left memory (`struck`): the daemon was killed in front of the save, or the
  save failed, which is swallowed (`session.py:475-481`), and none came after it.
* `Lifecycle` of `ClaudeBackend` lets the backend lose the turns in `lost`: one whose
  write failed, one in flight at a `close`, one interrupted when the next spawn
  failed or when the reader of stderr it waits for raised, and one whose reader of
  stdout or of the exit has raised, and one whose result is longer than the stream
  limit of 64 KiB or stands behind a line that is (`claude.py:325-341`): it stays active
  for ever while the child runs. `ReadersCloseOnce` is about the `turn_id` and
  leaves out the result of an interrupt, which may come on top of the child's own.
* `Lifecycle` of `CodexBackend` loses a turn whose write failed, one in flight at a
  `close`, those left to a reader that has raised or that stopped at another framing,
  and those whose response or abort was too long for the reader or behind a line that
  was (`codex.py:468-498`).
* `OneConversation`: as long as the reader has dropped no event. All the events that
  carried the thread id of the first turn may have been dropped with overlong lines;
  the next turn then starts another conversation (`codex.py:317-322`).
* `_auth_emitted` of the Claude backend is never reset, though its comment says once
  per spawn (`claude.py:404`). The model keeps it as the code does. It violates no
  property: after the first failed authentication another closes no turn by itself,
  but the child's own result or its exit does.
* `ChildClosesItsTurn`: a turn that `_watch_exit` has closed may be closed again,
  under no id, by output the child left behind; a refused turn whose bytes were
  buffered may still be answered.
* `ResultIsOwn`: events that come while no request is open pass the filter
  (`codex.py:555`) and stay in the buffers for the result of the next turn (`strays`),
  and a refused turn resets no buffer. So usage may be reported for the wrong turn
  after an interrupt.
* `NoLeak`, `OwnerHasSession`, `TurnKept`, `CleanedUp`: see the five history variables
  of `SessionTable`. What they stand for are real races: two opens (or an open and a
  user turn) that both find no running child spawn one each, and the first is left
  running with nobody to close it (`daemon.py:406-416`); a session that is opened
  while it stands on the reaper's list is removed under its new owner
  (`session.py:652-662`); a failed spawn removes whatever the id stands for by then
  (`daemon.py:416`), and an owner whose second open failed keeps the id in
  `_owned_sessions`; `detach_soft` clears the `backend` of a session that was opened
  again while it awaited the old one (`session.py:598`); a finishing session that is
  resumed stays finishing, so the next result closes its new child
  (`session.py:148-154`); a session whose first open failed behind its registration
  is never reaped (`daemon.py:404-424`), nor is the child that a turn under a stale
  id starts for it.
* `LeaverDetached`: except when `serve()` hangs for good (`Wedged`): its read loop
  waits for room on a queue whose writer loop has ended, or found no room for the
  sentinel the writer loop waits for (`daemon.py:176-189`).
* `NoRequestHangs`: except while the client does not read; after a line over its
  stream limit has ended its reader loop without an error to those who wait
  (`client.py:231-245`); for an internal error, which carries no id
  (`daemon.py:314`); after its own `close()`, which cancels no future; for a call
  made after the end of the stream; and for `Wedged`.
* `PutsReturn`: except while the peer does not read, and when the writer loop has
  ended with the queue full: the put, and the stream of the session, wait for ever
  (`daemon.py:885-895`).
* `ShutdownEnds`: except for a client that is there and does not read: it is told
  first, and its transport drained, without a timeout (`daemon.py:1131-1132`).

What such a condition leaves out is a hazard the code really meets: the property does
not catch it, it shows that nothing else goes wrong. The notes of the hazards in
`PROJECT.json` say which are of this kind.

Five of them contradict the documentation. Each is a counterexample that TLC finds to
the property without its exception.

* `docs/spec.md:222`: one backend subprocess per open session. Two opens that overlap
  spawn two (`daemon.py:407-422`; `crossed`).
* `docs/spec.md:228`: unattached sessions are reaped. One whose first open failed
  behind its registration is not (`daemon.py:402-415`, `session.py:657`; `stranded`).
* `docs/spec.md:669-672`: when a client closes its socket, the writer of its sessions
  is unhooked at once. Not if `serve()` hangs (`daemon.py:176-189`; `Wedged`).
* `docs/spec.md:1475-1478`: the connection of a slow consumer is closed. The watchdog
  sends the error and clears `_alive`, but nothing closes the transport: the read loop
  goes on waiting for the next line, and `drain()` for a peer that does not read
  (`daemon.py:897-908`; `SlowConsumer`).
* `docs/spec.md:1506-1507`: past its budget the daemon exits by force. It has no such
  exit, and waits for a client that does not read (`daemon.py:951`, `987`, `1132`).

### What the violations show

* **Gap notice.** `docs/spec.md:787-789` promises it before the replay; the code
  puts it behind (`session.py:182-201`). A client that loses its connection
  between the two resumes behind events it never received.
* **Seq reuse.** A gap notice takes a seq that neither ring nor log knows. A
  restarted session continues below what the client has seen
  (`session.py:382-387`) and gives that seq to an event.
* **Torn log.** The log is opened in append mode behind a fragment
  (`event_log.py:75`), so the next whole line is lost with it at the restart after.

* **Result twice.** `docs/agent-events.md:50` makes the result the last frame of its
  turn. After a line of stderr that looks like a failed authentication the turn is
  closed, but the child goes on, and its own result follows under no `turn_id`, or
  closes the next turn (`claude.py:370-374`). The same happens when the child's
  result arrives while an interrupt kills it (`claude.py:270-287`).
* **A turn that hangs.** `docs/agent-events.md:74-80` promises that clients which
  wait for the result do not hang. An exception of `on_event` (the watchers'
  dictionary that changes under its iterator, `session.py:142`) ends the reader of
  stdout for good, and `turn_active` stays true while the child runs. A line of output
  that is too long for the reader has the same end, if it is a result or a result
  stands behind it: the comment says "skip to next newline", but `readline()` has
  dropped the line already, and the byte that is read is the first of the next one
  (`claude.py:325-341`). The run with `Faults = {"overrun"}` shows this.

### Fairness

`EventStream` assumes none and claims no liveness.

`ClaudeBackend` assumes weak fairness of each reader task, of the owner's call and
of the task that emits an interrupt's result (the event loop runs every task that
can go on, and `on_event` returns), of the loop's notice of an exit, and of the
child: one that neither exits nor is killed reads its turn and answers it. The
last is an assumption about the child, not about this code; without it a turn may
take for ever by right. Nothing is assumed of the faults, of new turns,
interrupts, closes, or of the timeouts. `CodexBackend` assumes the same of its
readers, its call and its child; nothing of what the child says late.

`SessionTable` assumes that the reaper wakes up again and again and finds every
detached session old in the end, that a soft kill runs and a killed child dies
(`_kill` ends in SIGKILL), and that a connection that leaves goes on when the child
it closed is dead. No client has to do anything, and no turn has to end.

`Connection` assumes weak fairness of the tasks (serve, writer loop, watchdog,
shutdown, the reader loop of the client) and of the transport. A put that waits for
room and a drain that waits for the transport are woken each time and may find the
room taken by somebody else, so weak fairness would not help them: `Answer`,
`EventPut` and `CloseTransport` have strong fairness, which says that they are not
overtaken for ever. asyncio wakes the waiting puts of a queue in their order, and
those who wait for a transport all at once. Nobody has to ask, to leave, to shut
the daemon down, or to read: a stalled client may stay so.

## Proofs

Every safety property of every passing run is a theorem, and so is the step
refinement of both backends. They hold for every value of the constants: any finite
set of connections, any set of backend tasks, every capacity, any faults, any number
of requests, and every bound of the model. They rest on the assumptions the modules
state and TLC evaluates: capacities are positive and names distinct
(`StoreAssumption`, `StreamAssumption`, `ConnectionAssumption`, `TableAssumption`),
`Faults` are faults (`ClaudeAssumption`, `CodexAssumption`).

A proof has one lemma per action, or group of actions that do not touch what it is
about.

**The stream.**

* `TypeCorrect == Spec => []TypeOK`. That no queue outgrows its bound is not
  inductive with types alone: `Open` and `Watch` put their ack without looking for
  room. They may, because a connection that has not subscribed has an empty queue;
  that is `Fresh`, and `TypeOK /\ Fresh` is inductive.
* `SeqsAreUnique`, `RingHoldsNewest`, `TurnsAreCounted`: from `LogInv`. An intact log
  holds every event (`LogKept`), so the session that is loaded again goes on from the
  last seq (`SeqKept`); the ring is a gapless end of the events that is full, has all
  of them, or as many as the window of `tail()` has room for beside the fragment
  (`RingKept`); the sidecar counts all but what is unsaved or was struck
  (`CountKept`). The work is in what `LogTail` returns, with its window, the fragment
  in it, its dropped first piece and its overshoot.
* `OrderOfStores`: ring, tail of the log and unflushed lines are numbered upwards
  whatever becomes of the log (`StoreOrder`). It carries the next two.
* `OwnerGetsNothingTwice`. `OwnerInv` says of the connection of every owner: its
  stream (received and queued) has no event twice; an `on_event` that waits for it took
  it as its writer and carries an event that is neither in the stream nor still to be
  replayed; what is to be replayed is not in the stream; an owner is no watcher.
  `EmitDistinct` (two calls never carry one event) and `LastFrame` (the frame behind a
  replay is no event, and nothing is left to replay) complete it.
* `FramesInOrder`. `OrderInv`: whoever is busy with a connection on which nothing had
  to wait holds the processor, and carries something newer than all the connection
  has. A part each for the calls at the owner (`CallPart`), the loops over watchers
  (`LoopPart`), replays (`ReplayPart`) and the frame behind them (`LastPart`). This
  proof changed the model: `slow` used to leave out the two ways a watcher is reordered
  by waits on *other* queues (see above).
* `NothingIsLost`. `CompleteInv`: past the seq an owner named, an event is on its
  stream, underway to it, told of as a gap, or below the oldest of the replay and so in
  the gap that will be (`Accounted`). `Snapshot` connects it to the log: what the ring
  has not is older than all it has.

**The Claude backend.**

* `BackendTypeCorrect`. That there is a turn id exactly while a turn is active and not
  finalized needs `ExitKnown`: `_watch_exit` clears `turn_active` in its last line
  without a look at the id, and only because no turn can be accepted after the exit is
  there none to lose.
* `ReadersCloseTurnsOnce`, with `TurnIsFresh`: no result of the readers names the turn
  that is open, and none names one still to be asked for. `ReaderEmits` is the one
  argument for all three readers.
* `KillsAreNotReported`, with `KillIsCovered`: `_closing` is set from the first step of
  a kill until the exit watcher is over.
* `TurnsLiveOnce == Spec => Turns!Steps`: every step maps to one of `TurnLifecycle` or
  to a stutter. `LifeInv` adds that the call at hand works on the open turn
  (`CallAgrees`) and that a turn nobody has answered, lost or promised an answer is the
  one the object still knows (`OpenIsHeld`), so the next cannot take its place.

**The Codex backend.**

* `CodexTypeCorrect`, with `ExitKnown` and what can be on the pipes (`PipesKnown`).
* `InterruptionsAreAsked`, `ResultsAreTheirOwn`: `TurnInv`. `_cancel_active` is that of
  the open turn (`CancelOwn`), and a buffer holds what the open turn said, or a stray
  the property names (`BuffersOwn`).
* `LateOutputClosesNothing`: `EndInv`. A turn goes down the pipes once, and what ends
  it is the last of it that can close a turn (`PipesOrdered`); once the child has ended
  it, nothing on any pipe can end it again (`Spent`); what can still be ended is open,
  lost, or was closed by the exit watcher (`Answerable`), which comes last
  (`ExitLast`).
* `OneThread`: `Conversation`, as long as no event is `unread`. Events come before responses in the output (`EventsLead`),
  so the thread id is known before a second turn can be asked for (`Threads`).
* `TurnsLiveOnce`, as for Claude: the same abstract turn.

**The session table.**

* `TableTypeCorrect`: what a process waits for is there.
* `OwnersHaveTheirSession`: `Ownership`. An owner who met nobody is the only one, nobody
  else is at work on the session (`SoleOwner`), the table still holds what an operation
  found there (`SameObject`). The ghosts `met` and `mixed` were made inductive for it:
  whoever opens the session while a mixed connection still has its id is mixed too.
* `NoChildIsLeftRunning`: who waits for the end of a child waits for one that is being
  closed (`Closing`), and no running child is replaced by a spawn that met nobody
  (`Quiet`).
* `TurnsAreKept`: `Family` (a child that is being spawned is known to nobody else; a
  session's child is its own) and `Kept` (a child in a turn is closed only while somebody
  waits for it; a finishing session has one result on its way).

**The connection.**

* `ConnectionTypeCorrect`, `LibraryUnderstood`: `ConnInv`. The hello is the first line
  that is read (`Greeting`); behind the sentinel no handler puts anything, only the
  puts that already waited (`StopPut`).
* `NothingAnsweredTwice`: `EachOwedOnce` counts a request in the inbox, with its handler,
  in the queue and in the output: once while it is unanswered, and not at all after.

### Left to TLC

* Liveness, which the prover does not reach: `CleanedUp`, `LeaverDetached`,
  `NoRequestHangs`, `PutsReturn`, `ShutdownEnds`, and the half of `Lifecycle` that says
  every turn ends (`EveryTurnEnds`). They need fairness and ENABLED.
* What the five violations show: counterexamples are not proved.
* Induction over data. Where a proof needs one (the sum of sizes in the window of
  `tail()`), it goes by a smallest counterexample in the natural numbers.


## Not modelled

* **Listings and session info** (`list_sessions`, `session_info`, the rollouts and
  transcripts of the agents): reads of the table and of files other programs write;
  no state of the daemon depends on them. In `Connection` they are requests with one
  answer.
* **The contents of frames**: the Claude translator has no state; of the Codex
  translator the turn buffers are modelled and the mapping of fields is not.
* **argv and options** of the children, and what an open accepts of them beyond
  "refused or not".
* **Removal with delete**, titles and `live_summary`: what a delete does to the log of
  a session that is opened again is the one hazard about session files that no
  property covers (`session.py:621`).
* **The socket path**: probing and unlinking a stale socket, peer credentials.
* **Configuration, command line, benchmarks, logging, JSON schemas, packaging and
  scripts**: they keep no state of the protocol.

## Plan

Done: `EventLog` and `EventStream`; `TurnLifecycle` with both backends; `SessionTable`;
`Protocol` and `Connection`; a theorem for every safety property of a passing run. Left,
in this order:

1. What the stores do, as theorems about their operators: `LogTail`, `EarliestSeq` and
   `RingAppend` against reference definitions.
2. What liveness rests on and is itself safety: that an end of `serve()` hangs only in a
   state that is `Wedged`, that a soft kill is never forgotten.
3. Removal with delete in `EventStream` (`session.py:621`), and the proofs with it.
4. Merging of session lists and rewriting the argv for a resume as operators checked
   over bounded inputs.

No module that is proved about declares a RECURSIVE operator.
