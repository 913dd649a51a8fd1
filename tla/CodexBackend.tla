---------------------------- MODULE CodexBackend ----------------------------
(***************************************************************************)
(* One CodexBackend object (backends/codex.py) and its child, an MCP       *)
(* server: the handshake of spawn, turns as tools/call requests, the three *)
(* reader tasks, the cancellation of a turn, and close.  Unlike Claude the *)
(* child outlives an interrupt, so what it still says of the cancelled     *)
(* turn meets the next one.                                                *)
(*                                                                         *)
(* As in ClaudeBackend a frame is emitted when on_event numbers it, a task *)
(* that is still in that on_event has a pc of its own, and the calls of    *)
(* the owner come one after the other.  Request ids grow, so a turn stands *)
(* for the id of its request.  Every event of the child carries the id of  *)
(* the request it belongs to and the id of the thread.  The reader of      *)
(* stderr only reports lines: its task is left out, and the one field it   *)
(* sets is not.                                                            *)
(***************************************************************************)
EXTENDS Integers, Sequences, CodexTranslator

CONSTANTS
  Faults,      (* what may go wrong: see FaultKinds                        *)
  MaxTurns,    (* bound: turns that are asked for                          *)
  MaxLines     (* bound: unread lines on stdout                            *)

(* The child exits by itself; refuses the handshake or does not finish it  *)
(* in time; complains of its authentication on stderr; on_event raises; a  *)
(* line on stdout is too long for the reader (64 KiB).                     *)
FaultKinds == {"exit", "handshake", "auth", "raise", "overrun"}

ASSUME CodexAssumption ==
  Faults \subseteq FaultKinds /\ {MaxTurns, MaxLines} \subseteq Nat

VARIABLES
  (* The child, and its pipes.                                             *)
  fate,        (* it "runs", or has exited: "clean", "failed" or "killed"  *)
  reaped,      (* proc.returncode is known                                 *)
  stdin, stdout,
  work,        (* the turn the child is answering, or 0                    *)
  say, late,   (* what it will still print of that turn, and of one that   *)
               (* was cancelled                                            *)
  threads,     (* threads it has begun                                     *)
  (* The object.                                                           *)
  turn,        (* _active_turn_id, 0 for None                              *)
  active,      (* turn_active                                              *)
  cancel,      (* _cancel_active                                           *)
  thread,      (* _thread_id is known                                      *)
  buffers,     (* the translator's                                         *)
  closing,     (* _closing                                                 *)
  authSeen,    (* _auth_emitted                                            *)
  (* Tasks.                                                                *)
  task,        (* pc of every reader task                                  *)
  held,        (* the turn of the response _read_stdout is handling        *)
  call,        (* the call of the owner                                    *)
  (* History.                                                              *)
  results,     (* the results given to on_event, in order                  *)
  asked,       (* turns asked for so far                                   *)
  lost,        (* turns refused, given up with the backend, or whose end   *)
               (* was not read                                             *)
  stopped,     (* turns the owner interrupted                              *)
  strays,      (* turns of events that came while no request was open      *)
  unread       (* turns of events the reader dropped                       *)

child  == <<fate, reaped, stdin, stdout, work, say, late, threads>>
state  == <<turn, active, cancel, buffers>>
flags  == <<closing, authSeen>>
ghosts == <<asked, lost, stopped, strays, unread>>
vars == <<child, state, thread, flags, task, held, call, results, ghosts>>

-----------------------------------------------------------------------------
Readers == {"stdout", "exit"}

(* pc of a reader: "read", "skip" (awaits the byte behind an overlong      *)
(* line), "emit" or "end" (in the first or the last on_event of what it    *)
(* read), "auth" (stdout: in the on_event of a failed authentication,      *)
(* before the turn is closed), "done" and "dead".                          *)
Emitting == {"emit", "end", "auth"}
Over(r) == task[r] \in {"done", "dead"}

(* pc of the owner's call: "init" and "tools" (spawn waits for the two     *)
(* answers of the handshake), "drain" (send_user_turn), "cancel"           *)
(* (interrupt), "kill" and "readers" (both ends of a backend, and a kill   *)
(* by interrupt), "idle", and "gone" for good.                             *)
NoCall == [pc |-> "idle", op |-> "none", at |-> "stdout"]
Gone == [NoCall EXCEPT !.pc = "gone"]

HasResult(t) == \E i \in DOMAIN results : results[i].id = t
Lose(ts) == lost' = lost \cup {t \in ts \ {0} : ~HasResult(t)}

(* A result: who made it, the turn that was open, the turn it is about,    *)
(* how it ended, and where the translator's buffers were filled.           *)
ResultOf(by, of, subtype, tr) ==
  [by |-> by, id |-> turn, of |-> of, subtype |-> subtype,
   usage |-> tr.usage, complete |-> tr.complete]

Emit(by, of, subtype) == results' = Append(results, ResultOf(by, of, subtype, buffers))

EndTurnKeepsCancel ==   (* mutant: _cancel_active is not reset *)
  active' = FALSE /\ turn' = 0 /\ UNCHANGED cancel /\ buffers' = Fresh
EndTurn ==
  active' = FALSE /\ turn' = 0 /\ cancel' = FALSE /\ buffers' = Fresh

-----------------------------------------------------------------------------
(* The child.  When it is gone nothing is left of it but its output.       *)
Write(request) == stdin' = IF fate = "runs" THEN Append(stdin, request) ELSE stdin

Dies(how) ==
  /\ fate = "runs" /\ fate' = how
  /\ stdin' = <<>> /\ work' = 0 /\ say' = <<>> /\ late' = <<>>
  /\ UNCHANGED <<reaped, stdout, threads>>

(* A line of its output is an event of a turn, the response to the request *)
(* of a turn ("answer", "error"), or to the handshake: "reply", "refusal"  *)
(* (an error, or a tool is missing), or the header of another framing.     *)
Says(ks, t) == [i \in DOMAIN ks |-> [kind |-> ks[i], turn |-> t]]

Scripts ==
  {<<"token_count", "answer">>, <<"task_complete", "answer">>, <<"error">>}
Afterwards == {<<>>, <<"token_count">>, <<"answer">>}

ChildGreets ==
  /\ fate = "runs" /\ stdin # <<>> /\ Head(stdin).kind = "hello" /\ Len(stdout) < MaxLines
  /\ stdin' = Tail(stdin)
  /\ \E k \in {"reply"} \cup IF "handshake" \in Faults THEN {"refusal", "framing"} ELSE {} :
       stdout' = Append(stdout, [kind |-> k, turn |-> 0])
  /\ UNCHANGED <<fate, reaped, work, say, late, threads, state, thread, flags, task,
                 held, call, results, ghosts>>

ChildTakes ==
  /\ fate = "runs" /\ work = 0 /\ say = <<>> /\ stdin # <<>>
  /\ Head(stdin).kind \in {"codex", "codex-reply"}
  /\ stdin' = Tail(stdin) /\ work' = Head(stdin).turn
  /\ \E s \in Scripts :
       IF Head(stdin).kind = "codex"
       THEN say' = Says(<<"session_configured">> \o s, work') /\ threads' = threads + 1
       ELSE say' = Says(s, work') /\ UNCHANGED threads
  /\ UNCHANGED <<fate, reaped, stdout, late, state, thread, flags, task, held, call,
                 results, ghosts>>

(* A cancelled request is aborted, and the child may say more of it        *)
(* between the events of the next one; or the cancellation comes too late. *)
ChildCancels ==
  /\ fate = "runs" /\ stdin # <<>> /\ Head(stdin).kind = "cancel"
  /\ stdin' = Tail(stdin)
  /\ \/ UNCHANGED <<work, say, late>>
     \/ /\ work = Head(stdin).turn /\ late = <<>>
        /\ work' = 0 /\ say' = Says(<<"turn_aborted">>, work)
        /\ \E s \in Afterwards : late' = Says(s, work)
  /\ UNCHANGED <<fate, reaped, stdout, threads, state, thread, flags, task, held, call,
                 results, ghosts>>

ChildPrints ==
  /\ fate = "runs" /\ say # <<>> /\ Len(stdout) < MaxLines
  /\ stdout' = Append(stdout, Head(say)) /\ say' = Tail(say)
  /\ work' = IF Len(say) = 1 THEN 0 ELSE work
  /\ UNCHANGED <<fate, reaped, stdin, late, threads, state, thread, flags, task, held,
                 call, results, ghosts>>

ChildPrintsLate ==
  /\ fate = "runs" /\ late # <<>> /\ Len(stdout) < MaxLines
  /\ \A i \in DOMAIN say : say[i].turn # Head(late).turn
  /\ stdout' = Append(stdout, Head(late)) /\ late' = Tail(late)
  /\ UNCHANGED <<fate, reaped, stdin, work, say, threads, state, thread, flags, task,
                 held, call, results, ghosts>>

ChildExits ==
  /\ "exit" \in Faults /\ (Dies("clean") \/ Dies("failed"))
  /\ UNCHANGED <<state, thread, flags, task, held, call, results, ghosts>>

ChildReaped ==
  /\ fate # "runs" /\ ~reaped /\ reaped' = TRUE
  /\ UNCHANGED <<fate, stdin, stdout, work, say, late, threads, state, thread, flags,
                 task, held, call, results, ghosts>>

-----------------------------------------------------------------------------
(* _read_stdout, _dispatch_rpc.  An event of a request that is over is     *)
(* dropped while another is open.                                          *)
Next1 == Head(stdout)
Takes(kinds) ==
  /\ task["stdout"] = "read" /\ stdout # <<>> /\ Next1.kind \in kinds
  /\ stdout' = Tail(stdout)
  /\ UNCHANGED <<fate, reaped, stdin, work, say, late, threads>>

StaleNever == FALSE   (* mutant: the id of the request is not looked at *)
Stale == turn # 0 /\ Next1.turn # turn

ReadEvent ==
  /\ Takes(EventKinds)
  /\ thread' = TRUE
  /\ IF Stale
     THEN UNCHANGED <<buffers, task, strays>>
     ELSE /\ buffers' = Buffer(buffers, Next1)
          /\ task' = [task EXCEPT !["stdout"] = IF Next1.kind \in Shown THEN "emit" ELSE "read"]
          /\ strays' = IF turn = 0 THEN strays \cup {Next1.turn} ELSE strays
  /\ ~(Next1.kind = "turn_aborted" /\ active /\ ~Stale)
  /\ UNCHANGED <<turn, active, cancel, flags, held, call, results, asked, lost, stopped, unread>>

(* ... turn_aborted ends the turn.                                         *)
ReadAbort ==
  /\ Takes({"turn_aborted"}) /\ active /\ ~Stale
  /\ thread' = TRUE
  /\ results' = Append(results, ResultOf("abort", Next1.turn, "interrupted",
                                         Buffer(buffers, Next1)))
  /\ EndTurn
  /\ task' = [task EXCEPT !["stdout"] = "emit"]
  /\ UNCHANGED <<flags, held, call, asked, lost, stopped, strays, unread>>

ReadAnyResponse ==   (* mutant: the id of the response is not looked at *)
  /\ Takes({"answer", "error"}) /\ turn # 0
  /\ Emit("answer", Next1.turn,
          IF cancel THEN "interrupted" ELSE IF Next1.kind = "error" THEN "error" ELSE "success")
  /\ EndTurn
  /\ task' = [task EXCEPT !["stdout"] = "emit"]
  /\ UNCHANGED <<authSeen, held, thread, closing, call, ghosts>>

(* _handle_turn_response: the response to the open request ends the turn,  *)
(* at once or behind the frame that reports a failed authentication.       *)
ReadResponse ==
  /\ Takes({"answer", "error"}) /\ turn # 0 /\ Next1.turn = turn
  /\ \/ /\ Emit("answer", Next1.turn,
                IF cancel THEN "interrupted"
                ELSE IF Next1.kind = "error" THEN "error" ELSE "success")
        /\ EndTurn
        /\ task' = [task EXCEPT !["stdout"] = "emit"]
        /\ UNCHANGED <<authSeen, held>>
     \/ /\ Next1.kind = "error" /\ ~cancel /\ ~authSeen
        /\ authSeen' = TRUE /\ held' = Next1.turn
        /\ task' = [task EXCEPT !["stdout"] = "auth"]
        /\ UNCHANGED <<state, results>>
  /\ UNCHANGED <<thread, closing, call, ghosts>>

AuthReported ==
  /\ task["stdout"] = "auth"
  /\ Emit("answer", held, "error") /\ EndTurn
  /\ held' = 0
  /\ task' = [task EXCEPT !["stdout"] = "emit"]
  /\ UNCHANGED <<child, thread, flags, call, ghosts>>

(* ... any other response of a turn is nobody's.                           *)
ReadNobodys ==
  /\ Takes({"answer", "error"}) /\ Next1.turn # turn
  /\ UNCHANGED <<state, thread, flags, task, held, call, results, ghosts>>

(* readline() has dropped a line that is too long.  The byte _read_stdout  *)
(* reads next is one more of that line, if its end had not come yet, or    *)
(* the first of the next line, which then does not parse.                  *)
Drops(pc) ==
  /\ task["stdout"] = pc /\ stdout # <<>> /\ stdout' = Tail(stdout)
  /\ IF Next1.kind \in {"answer", "error", "turn_aborted"}
     THEN Lose({Next1.turn}) ELSE UNCHANGED lost
  /\ unread' = IF Next1.kind \in EventKinds THEN unread \cup {Next1.turn} ELSE unread
  /\ UNCHANGED <<fate, reaped, stdin, work, say, late, threads, state, thread, flags, held,
                 call, results, asked, stopped, strays>>

Overrun ==
  /\ "overrun" \in Faults /\ Drops("read")
  /\ \E pc \in {"read", "skip"} : task' = [task EXCEPT !["stdout"] = pc]

SkipLine == Drops("skip") /\ task' = [task EXCEPT !["stdout"] = "read"]

StdoutNext ==
  \/ /\ task["stdout"] = "emit"
     /\ task' = [task EXCEPT !["stdout"] = "read"]
     /\ UNCHANGED <<child, state, thread, flags, held, call, results, ghosts>>
  \/ /\ \/ task["stdout"] = "end"
        \/ task["stdout"] \in {"read", "skip"} /\ stdout = <<>> /\ fate # "runs"
     /\ task' = [task EXCEPT !["stdout"] = "done"]
     /\ UNCHANGED <<child, state, thread, flags, held, call, results, ghosts>>

(* _read_stderr finds a failed authentication, and reports it.             *)
StderrComplains ==
  /\ "auth" \in Faults /\ ~authSeen
  /\ authSeen' = TRUE
  /\ UNCHANGED <<child, state, thread, closing, task, held, call, results, ghosts>>

WatchExitFailed ==   (* mutant: only a failed exit is reported *)
  /\ task["exit"] = "read" /\ reaped
  /\ IF ~closing /\ fate # "clean"
     THEN task' = [task EXCEPT !["exit"] = "emit"] /\ UNCHANGED active
     ELSE /\ task' = [task EXCEPT !["exit"] = "done"]
          /\ active' = (active /\ closing)
  /\ UNCHANGED <<child, turn, cancel, buffers, thread, flags, held, call, results, ghosts>>

(* _watch_exit: turn_active stays set while the result is being emitted.   *)
WatchExit ==
  /\ task["exit"] = "read" /\ reaped
  /\ IF ~closing /\ (active \/ fate # "clean")
     THEN task' = [task EXCEPT !["exit"] = "emit"] /\ UNCHANGED active
     ELSE /\ task' = [task EXCEPT !["exit"] = "done"]
          /\ active' = (active /\ closing)
  /\ UNCHANGED <<child, turn, cancel, buffers, thread, flags, held, call, results, ghosts>>

ExitClose ==
  /\ task["exit"] = "emit"
  /\ IF active
     THEN /\ Emit("exit", turn, "error")
          /\ turn' = 0 /\ cancel' = FALSE /\ buffers' = Fresh
     ELSE UNCHANGED <<results, turn, cancel, buffers>>
  /\ task' = [task EXCEPT !["exit"] = "end"]
  /\ UNCHANGED <<child, active, thread, flags, held, call, ghosts>>

ExitEnd ==
  /\ task["exit"] = "end"
  /\ active' = FALSE
  /\ task' = [task EXCEPT !["exit"] = "done"]
  /\ UNCHANGED <<child, turn, cancel, buffers, thread, flags, held, call, results, ghosts>>

-----------------------------------------------------------------------------
(* spawn: initialize, then tools/list; each answer resolves the future the *)
(* call waits for.  Another framing stops the reader for good.             *)
Hello == [kind |-> "hello", turn |-> 0]

ReadReply ==
  /\ Takes({"reply", "refusal", "framing"})
  /\ LET next == [init |-> "verify", tools |-> "idle"]
     IN call' = IF call.pc \in DOMAIN next /\ Next1.kind # "framing"
                THEN [call EXCEPT !.pc = IF Next1.kind = "reply" THEN next[@] ELSE "fail"]
                ELSE call
  /\ task' = [task EXCEPT !["stdout"] = IF Next1.kind = "framing" THEN "end" ELSE "read"]
  /\ UNCHANGED <<state, thread, flags, held, results, ghosts>>

VerifyTools ==
  /\ call.pc = "verify"
  /\ Write(Hello)
  /\ call' = [call EXCEPT !.pc = "tools"]
  /\ UNCHANGED <<fate, reaped, stdout, work, say, late, threads, state, thread, flags,
                 task, held, results, ghosts>>

(* No answer in time, or one that will not do: SpawnFailedError.           *)
SpawnFails ==
  /\ \/ call.pc = "fail"
     \/ call.pc \in {"init", "tools"} /\ {"handshake", "overrun"} \cap Faults # {}
  /\ closing' = TRUE
  /\ call' = [call EXCEPT !.pc = "kill", !.op = "spawn"]
  /\ UNCHANGED <<child, state, thread, authSeen, task, held, results, ghosts>>

(* A write that fails is no SpawnFailedError: nothing is cleaned up.       *)
SpawnBreaks ==
  /\ call.pc \in {"init", "verify", "tools"} /\ fate # "runs"
  /\ call' = Gone
  /\ UNCHANGED <<child, state, thread, flags, task, held, results, ghosts>>

-----------------------------------------------------------------------------
ToolOfFinished ==   (* mutant: the thread is known when a turn has succeeded *)
  IF \E i \in DOMAIN results : results[i].subtype = "success" THEN "codex-reply" ELSE "codex"
Tool == IF thread THEN "codex-reply" ELSE "codex"

(* send_user_turn, up to the drain; the daemon calls it while the child    *)
(* has no return code (daemon.py:477).                                     *)
SendUser ==
  /\ call.pc = "idle" /\ ~reaped /\ ~active /\ asked < MaxTurns
  /\ asked' = asked + 1 /\ turn' = asked + 1 /\ active' = TRUE
  /\ Write([kind |-> Tool, turn |-> asked + 1])
  /\ call' = [NoCall EXCEPT !.pc = "drain"]
  /\ IF task["stdout"] \in {"done", "dead"} /\ fate = "runs"
     THEN Lose({asked + 1}) ELSE UNCHANGED lost
  /\ UNCHANGED <<fate, reaped, stdout, work, say, late, threads, cancel, buffers, thread,
                 flags, task, held, results, stopped, strays, unread>>

WriteFails ==
  /\ call.pc = "drain" /\ fate # "runs"
  /\ active' = FALSE /\ turn' = 0
  /\ Lose({turn})
  /\ call' = NoCall
  /\ UNCHANGED <<child, cancel, buffers, thread, flags, task, held, results, asked, stopped,
                 strays, unread>>

Written ==
  /\ call.pc \in {"drain", "cancel"}
  /\ call' = NoCall
  /\ UNCHANGED <<child, state, thread, flags, task, held, results, ghosts>>

(* interrupt asks the child to cancel the request and does not wait.  It   *)
(* kills the child only if it cannot be asked.  (Bound: once a turn.)      *)
Interrupt ==
  /\ call.pc = "idle" /\ active /\ turn # 0 /\ turn \notin stopped
  /\ cancel' = TRUE
  /\ Write([kind |-> "cancel", turn |-> turn])
  /\ stopped' = stopped \cup {turn}
  /\ call' = [NoCall EXCEPT !.pc = "cancel"]
  /\ UNCHANGED <<fate, reaped, stdout, work, say, late, threads, turn, active, buffers,
                 thread, flags, task, held, results, asked, lost, strays, unread>>

CancelFails ==
  /\ call.pc = "cancel" /\ fate # "runs"
  /\ call' = [call EXCEPT !.pc = "kill", !.op = "interrupt"]
  /\ UNCHANGED <<child, state, thread, flags, task, held, results, ghosts>>

Close ==
  /\ call.pc = "idle"
  /\ closing' = TRUE
  /\ call' = [NoCall EXCEPT !.pc = "kill", !.op = "close"]
  /\ Lose({turn})
  /\ UNCHANGED <<child, state, thread, authSeen, task, held, results, asked, stopped,
                 strays, unread>>

KillChild ==
  /\ call.pc = "kill" /\ Dies("killed")
  /\ UNCHANGED <<state, thread, flags, task, held, call, results, ghosts>>

Killed ==
  /\ call.pc = "kill" /\ reaped
  /\ call' = IF call.op = "interrupt" THEN NoCall ELSE [call EXCEPT !.pc = "readers"]
  /\ UNCHANGED <<child, state, thread, flags, task, held, results, ghosts>>

(* _drain_readers awaits the readers in turn, each for two seconds at most. *)
ReaderOver ==
  /\ call.pc = "readers" /\ Over(call.at)
  /\ call' = IF call.at = "exit" THEN Gone ELSE [call EXCEPT !.at = "exit"]
  /\ UNCHANGED <<child, state, thread, flags, task, held, results, ghosts>>

CancelReader ==
  /\ call.pc = "readers" /\ ~Over(call.at)
  /\ task' = [task EXCEPT ![call.at] = "done"]
  /\ UNCHANGED <<child, state, thread, flags, held, call, results, ghosts>>

(* on_event raises in a reader, and in a close that waits for it.          *)
ReaderDies(r) ==
  /\ "raise" \in Faults /\ task[r] \in Emitting
  /\ task' = [task EXCEPT ![r] = "dead"]
  /\ call' = IF call.pc = "readers" /\ call.at = r THEN Gone ELSE call
  /\ IF active THEN Lose({turn}) ELSE UNCHANGED lost
  /\ UNCHANGED <<child, state, thread, flags, held, results, asked, stopped, strays, unread>>

-----------------------------------------------------------------------------
Init ==
  /\ fate = "runs" /\ reaped = FALSE
  /\ stdin = <<Hello>> /\ stdout = <<>>
  /\ work = 0 /\ say = <<>> /\ late = <<>> /\ threads = 0
  /\ turn = 0 /\ active = FALSE /\ cancel = FALSE /\ buffers = Fresh /\ thread = FALSE
  /\ closing = FALSE /\ authSeen = FALSE
  /\ task = [r \in Readers |-> "read"] /\ held = 0
  /\ call = [NoCall EXCEPT !.pc = "init"]
  /\ results = <<>> /\ asked = 0 /\ lost = {} /\ stopped = {} /\ strays = {}
  /\ unread = {}

ChildStep == ChildGreets \/ ChildTakes \/ ChildCancels \/ ChildPrints
StdoutStep ==
  \/ ReadReply \/ ReadEvent \/ ReadAbort \/ ReadResponse \/ AuthReported \/ ReadNobodys
  \/ SkipLine \/ StdoutNext
ExitStep == WatchExit \/ ExitClose \/ ExitEnd
CallStep ==
  \/ VerifyTools \/ Written \/ WriteFails \/ CancelFails
  \/ KillChild \/ Killed \/ ReaderOver

Next ==
  \/ ChildStep \/ ChildPrintsLate \/ StderrComplains \/ ChildExits \/ ChildReaped
  \/ StdoutStep \/ Overrun \/ ExitStep
  \/ SpawnFails \/ SpawnBreaks \/ SendUser \/ Interrupt \/ Close
  \/ CallStep \/ CancelReader
  \/ \E r \in Readers : ReaderDies(r)

(* The event loop runs every task that can go on, an on_event returns, and *)
(* a child that does not exit answers a turn or aborts it when asked to.   *)
Fairness ==
  /\ WF_vars(ChildStep) /\ WF_vars(ChildReaped)
  /\ WF_vars(StdoutStep) /\ WF_vars(ExitStep)
  /\ WF_vars(CallStep)

Spec == Init /\ [][Next]_vars /\ Fairness
-----------------------------------------------------------------------------
Request == [kind : {"hello", "codex", "codex-reply", "cancel"}, turn : Nat]
Line ==
  [kind : EventKinds \cup {"answer", "error", "reply", "refusal", "framing"}, turn : Nat]
Result ==
  [by : {"answer", "abort", "exit"}, id : Nat, of : Nat,
   subtype : {"success", "error", "interrupted"}, usage : Nat, complete : Nat]

ChildType ==
  /\ fate \in {"runs", "clean", "failed", "killed"} /\ reaped \in BOOLEAN
  /\ stdin \in Seq(Request) /\ {stdout, say, late} \subseteq Seq(Line)
  /\ work \in Nat /\ threads \in Nat
TurnType ==
  /\ turn \in {0, asked} /\ (turn # 0 => active)
  /\ {active, cancel, thread} \subseteq BOOLEAN
  /\ buffers \in [usage : Nat, complete : Nat]
TaskType ==
  /\ {closing, authSeen} \subseteq BOOLEAN
  /\ task \in [Readers -> {"read", "skip", "done", "dead"} \cup Emitting] /\ held \in Nat
  /\ call \in [pc : {"init", "verify", "tools", "fail", "idle", "drain", "cancel", "kill",
                      "readers", "gone"},
                op : {"none", "spawn", "interrupt", "close"}, at : Readers]
HistoryType ==
  /\ results \in Seq(Result) /\ asked \in 0 .. MaxTurns
  /\ {lost, stopped, strays, unread} \subseteq SUBSET (1 .. asked)

(* Every variable has its type, and a request is open only while the turn  *)
(* is active and only for the last turn asked for.                         *)
TypeOK == ChildType /\ TurnType /\ TaskType /\ HistoryType

(* What the child prints closes a turn once, and the turn it speaks of: a  *)
(* late answer or abort never ends the next turn (codex.py:515, 553, 577). *)
(* The exceptions: a turn that was refused because its write failed, and   *)
(* one that _watch_exit has already closed, which an output of the child   *)
(* closes again under no id (codex.py:333, 583, 690).                      *)
ChildClosesItsTurn ==
  \A i \in DOMAIN results : results[i].by # "exit" =>
    /\ \/ results[i].id = results[i].of \/ results[i].of \in lost
       \/ /\ results[i].id = 0
          /\ \E j \in 1 .. i - 1 : results[j].by = "exit" /\ results[j].id = results[i].of
    /\ \A j \in DOMAIN results : results[j].by # "exit" /\ results[j].of = results[i].of => i = j

(* The usage and the turn_id of a result come from the turn it is about.   *)
(* The exceptions: events of an ended turn that came while no request was  *)
(* open, which pass the filter (codex.py:555) and stay in the buffers, and *)
(* those of a turn that was refused when its write failed, which resets no *)
(* buffer (codex.py:333).                                                  *)
ResultIsOwn ==
  \A i \in DOMAIN results :
    {results[i].usage, results[i].complete} \subseteq {0, results[i].of} \cup strays \cup lost

(* A response is reported as an interruption only of a turn the owner did  *)
(* interrupt: _cancel_active does not outlive its turn (codex.py:588).     *)
InterruptedOnRequest ==
  \A i \in DOMAIN results :
    results[i].by = "answer" /\ results[i].subtype = "interrupted" => results[i].of \in stopped

(* The turns of a session are one conversation: the child is never asked   *)
(* to begin another thread when it has begun one (codex.py:321, 543), as   *)
(* long as the reader has dropped no event: the thread id of the first     *)
(* turn may have been in all that was dropped.                             *)
OneConversation == unread = {} => threads <= 1

(* The turns have the life TurnLifecycle promises.  Lost are those that    *)
(* were refused, in flight at a close, left to a reader that has raised,   *)
(* or whose response or abort was too long for the reader or behind a line *)
(* that was.                                                               *)
Status(t) ==
  IF t > asked THEN "none"
  ELSE IF t \in lost THEN "lost"
  ELSE IF HasResult(t) THEN "closed" ELSE "open"

Turns == INSTANCE TurnLifecycle WITH
           Turns <- 1 .. MaxTurns, status <- [t \in 1 .. MaxTurns |-> Status(t)]

Lifecycle == Turns!Spec
=============================================================================
