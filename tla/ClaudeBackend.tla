--------------------------- MODULE ClaudeBackend ---------------------------
(***************************************************************************)
(* One ClaudeBackend object (backends/claude.py) and the child processes   *)
(* it runs, one at a time: turns are written to the child's stdin, three   *)
(* reader tasks turn its output, its error output and its exit into        *)
(* frames, and any of them, or an interrupt, may end the turn.             *)
(*                                                                         *)
(* A frame is emitted at the moment on_event numbers it.  The rest of      *)
(* on_event may suspend its caller for any time (EventStream); a task that *)
(* is in it has a pc of its own here.  The child's pipes hold what matters *)
(* to a turn: stdout one line of output and the result of every turn it    *)
(* reads, stderr the first line that looks like a failed authentication.   *)
(* The task_started notice, the plain lines of stderr and the time of the  *)
(* first token are left out, the awaits they bring are not.                *)
(*                                                                         *)
(* The calls of send_user_turn, interrupt and close come from the owner of *)
(* the session, one after the other, as from the read loop of one          *)
(* connection.  Calls that overlap because the owner changes are left to   *)
(* the session table, and so is the new backend object the daemon makes    *)
(* for a session whose child has exited.                                   *)
(***************************************************************************)
EXTENDS Integers, Sequences, FiniteSets

CONSTANTS
  Faults,      (* what may go wrong: see FaultKinds                        *)
  MaxTurns,    (* bound: turns that are asked for                          *)
  MaxLines     (* bound: unread lines on stdout                            *)

(* The child exits by itself; complains of its authentication; cannot be   *)
(* spawned again; on_event raises (EventStream, NextWatcher); a line on    *)
(* stdout is too long for the reader (64 KiB).                             *)
FaultKinds == {"exit", "auth", "nospawn", "raise", "overrun"}

ASSUME ClaudeAssumption ==
  Faults \subseteq FaultKinds /\ {MaxTurns, MaxLines} \subseteq Nat

VARIABLES
  (* The child, and its pipes.                                             *)
  fate,        (* it "runs", or it has exited: with 0 ("clean"), with      *)
               (* another code ("failed"), or by our signal ("killed")     *)
  reaped,      (* proc.returncode is known                                 *)
  stdin, stdout, stderr,
  work,        (* the turn the child is answering, or 0                    *)
  (* The object.                                                           *)
  turn,        (* _current_turn_id, 0 for None                             *)
  active,      (* turn_active                                              *)
  finalized,   (* _turn_finalized                                          *)
  closing,     (* _closing                                                 *)
  authSeen,    (* _auth_emitted                                            *)
  (* Tasks.                                                                *)
  task,        (* pc of every reader task                                  *)
  call,        (* the call of the owner                                    *)
  synths,      (* tasks that emit the result of an interrupted turn        *)
  (* History.                                                              *)
  results,     (* the results given to on_event, in order                  *)
  asked,       (* turns asked for so far                                   *)
  lost         (* turns that were refused, whose backend broke, or whose   *)
               (* result was not read                                      *)

child  == <<fate, reaped, stdin, stdout, stderr, work>>
state  == <<turn, active, finalized>>
flags  == <<closing, authSeen>>
ghosts == <<asked, lost>>
vars == <<child, state, flags, task, call, synths, results, ghosts>>

-----------------------------------------------------------------------------
Readers == {"stdout", "stderr", "exit"}

(* pc of a reader: "read" (awaits its pipe, or the exit), "skip" (awaits   *)
(* the byte behind an overlong line), "emit" or "end" (is in the first or  *)
(* the last on_event it makes of what it read), "done" and "dead" (it has  *)
(* raised).                                                                *)
Emitting == {"emit", "end"}
Over(r) == task[r] \in {"done", "dead"}

(* pc of the owner's call: "idle" (none), then the awaits of               *)
(* send_user_turn ("drain", "notice"), of interrupt and close ("kill",     *)
(* "readers", and "spawn" for interrupt), and "closed" for good.           *)
NoCall == [pc |-> "idle", op |-> "none", turn |-> 0, at |-> "stdout"]
Closed == [NoCall EXCEPT !.pc = "closed"]

(* A result: who made it, the turn_id it is stamped with, and the turn it  *)
(* is about: for a line of the child, the one the child was answering.     *)
Emit(by, id, of) == results' = Append(results, [by |-> by, id |-> id, of |-> of])

HasResult(t) == \E i \in DOMAIN results : results[i].id = t

Lose(ts) == lost' = lost \cup {t \in ts \ {0} : ~HasResult(t)}

EndTurnKeepsId ==   (* mutant: no _reset_turn_state *)
  active' = FALSE /\ finalized' = TRUE /\ UNCHANGED turn
EndTurn == active' = FALSE /\ finalized' = TRUE /\ turn' = 0

-----------------------------------------------------------------------------
(* The child reads a turn and prints a line, and later its result.         *)
(* More lines in between would change nothing.                             *)
ChildReads ==
  /\ fate = "runs" /\ work = 0 /\ stdin # <<>> /\ Len(stdout) < MaxLines
  /\ work' = Head(stdin) /\ stdin' = Tail(stdin)
  /\ stdout' = Append(stdout, [kind |-> "output", turn |-> Head(stdin)])
  /\ UNCHANGED <<fate, reaped, stderr, state, flags, task, call, synths, results, ghosts>>

ChildAnswers ==
  /\ fate = "runs" /\ work # 0 /\ Len(stdout) < MaxLines
  /\ work' = 0
  /\ stdout' = Append(stdout, [kind |-> "result", turn |-> work])
  /\ UNCHANGED <<fate, reaped, stdin, stderr, state, flags, task, call, synths, results, ghosts>>

ChildComplains ==
  /\ "auth" \in Faults /\ fate = "runs" /\ ~stderr /\ ~authSeen
  /\ stderr' = TRUE
  /\ UNCHANGED <<fate, reaped, stdin, stdout, work, state, flags, task, call, synths,
                 results, ghosts>>

ChildExits ==
  /\ "exit" \in Faults /\ fate = "runs"
  /\ fate' \in {"clean", "failed"}
  /\ UNCHANGED <<reaped, stdin, stdout, stderr, work, state, flags, task, call, synths, results,
                 ghosts>>

(* The event loop learns of the exit.                                      *)
ChildReaped ==
  /\ fate # "runs" /\ ~reaped /\ reaped' = TRUE
  /\ UNCHANGED <<fate, stdin, stdout, stderr, work, state, flags, task, call, synths,
                 results, ghosts>>

-----------------------------------------------------------------------------
(* _read_stdout: a result ends the turn of this moment, whichever turn the *)
(* child was answering.                                                    *)
ReadStdout ==
  /\ task["stdout"] = "read" /\ stdout # <<>>
  /\ IF Head(stdout).kind = "result"
     THEN Emit("child", turn, Head(stdout).turn) /\ EndTurn
     ELSE UNCHANGED <<results, state>>
  /\ stdout' = Tail(stdout)
  /\ task' = [task EXCEPT !["stdout"] = "emit"]
  /\ UNCHANGED <<fate, reaped, stdin, stderr, work, flags, call, synths, ghosts>>

(* readline() has dropped a line that is too long.  The byte _read_stdout  *)
(* reads next is one more of that line, if its end had not come yet, or    *)
(* the first of the next line, which then does not parse.                  *)
DropLine ==
  /\ stdout # <<>> /\ stdout' = Tail(stdout)
  /\ IF Head(stdout).kind = "result" THEN Lose({Head(stdout).turn}) ELSE UNCHANGED lost
  /\ UNCHANGED <<fate, reaped, stdin, stderr, work, state, flags, call, synths, results, asked>>

Overrun ==
  /\ "overrun" \in Faults /\ task["stdout"] = "read" /\ DropLine
  /\ \E pc \in {"read", "skip"} : task' = [task EXCEPT !["stdout"] = pc]

SkipLine ==
  /\ task["stdout"] = "skip" /\ DropLine
  /\ task' = [task EXCEPT !["stdout"] = "read"]

StdoutNext ==
  \/ /\ task["stdout"] = "emit"
     /\ task' = [task EXCEPT !["stdout"] = "read"]
     /\ UNCHANGED <<child, state, flags, call, synths, results, ghosts>>
  \/ /\ task["stdout"] \in {"read", "skip"} /\ stdout = <<>> /\ fate # "runs"
     /\ task' = [task EXCEPT !["stdout"] = "done"]
     /\ UNCHANGED <<child, state, flags, call, synths, results, ghosts>>

(* _read_stderr: the first such line is reported, and ends the turn.       *)
ReadStderr ==
  /\ task["stderr"] = "read" /\ stderr
  /\ stderr' = FALSE
  /\ authSeen' = TRUE
  /\ task' = [task EXCEPT !["stderr"] = "emit"]
  /\ UNCHANGED <<fate, reaped, stdin, stdout, work, state, closing,
                 call, synths, results, ghosts>>

StderrCloseUnguarded ==   (* mutant: _turn_finalized is not looked at *)
  /\ task["stderr"] = "emit"
  /\ IF active
     THEN Emit("auth", turn, turn) /\ EndTurn
     ELSE UNCHANGED <<results, state>>
  /\ task' = [task EXCEPT !["stderr"] = "end"]
  /\ UNCHANGED <<child, flags, call, synths, ghosts>>

StderrClose ==
  /\ task["stderr"] = "emit"
  /\ IF active /\ ~finalized
     THEN Emit("auth", turn, turn) /\ EndTurn
     ELSE UNCHANGED <<results, state>>
  /\ task' = [task EXCEPT !["stderr"] = "end"]
  /\ UNCHANGED <<child, flags, call, synths, ghosts>>

StderrNext ==
  \/ /\ task["stderr"] = "end"
     /\ task' = [task EXCEPT !["stderr"] = "read"]
     /\ UNCHANGED <<child, state, flags, call, synths, results, ghosts>>
  \/ /\ task["stderr"] = "read" /\ ~stderr /\ fate # "runs"
     /\ task' = [task EXCEPT !["stderr"] = "done"]
     /\ UNCHANGED <<child, state, flags, call, synths, results, ghosts>>

(* _watch_exit: an exit nobody asked for is reported if it failed or a     *)
(* turn was active, and ends that turn.                                    *)
WatchExitFailed ==   (* mutant: only a failed exit is reported *)
  /\ task["exit"] = "read" /\ reaped
  /\ \/ /\ ~closing /\ fate # "clean"
        /\ task' = [task EXCEPT !["exit"] = "emit"]
     \/ /\ closing \/ fate = "clean"
        /\ task' = [task EXCEPT !["exit"] = "done"]
  /\ UNCHANGED <<child, state, flags, call, synths, results, ghosts>>

WatchExit ==
  /\ task["exit"] = "read" /\ reaped
  /\ \/ /\ ~closing /\ (active \/ fate # "clean")
        /\ task' = [task EXCEPT !["exit"] = "emit"]
     \/ /\ closing \/ (~active /\ fate = "clean")
        /\ task' = [task EXCEPT !["exit"] = "done"]
  /\ UNCHANGED <<child, state, flags, call, synths, results, ghosts>>

ExitClose ==
  /\ task["exit"] = "emit"
  /\ IF active /\ ~finalized
     THEN /\ Emit("exit", turn, turn)
          /\ finalized' = TRUE /\ turn' = 0 /\ UNCHANGED active
     ELSE UNCHANGED <<results, state>>
  /\ task' = [task EXCEPT !["exit"] = "end"]
  /\ UNCHANGED <<child, flags, call, synths, ghosts>>

ExitEnd ==
  /\ task["exit"] = "end"
  /\ active' = FALSE
  /\ task' = [task EXCEPT !["exit"] = "done"]
  /\ UNCHANGED <<child, turn, finalized, flags, call, synths, results, ghosts>>

-----------------------------------------------------------------------------
(* send_user_turn, up to the drain of stdin.  The daemon calls it while    *)
(* the child has no return code (daemon.py:477).                           *)
SendUser ==
  /\ call.pc = "idle" /\ ~reaped /\ ~active /\ asked < MaxTurns
  /\ asked' = asked + 1
  /\ active' = TRUE /\ finalized' = FALSE /\ turn' = asked + 1
  /\ stdin' = Append(stdin, asked + 1)
  /\ call' = [NoCall EXCEPT !.pc = "drain", !.op = "user", !.turn = asked + 1]
  /\ IF task["stdout"] = "dead" THEN Lose({asked + 1}) ELSE UNCHANGED lost
  /\ UNCHANGED <<fate, reaped, stdout, stderr, work, flags, task, synths, results>>

(* ... the write has failed: the turn is refused.                          *)
WriteFails ==
  /\ call.pc = "drain" /\ fate # "runs"
  /\ active' = FALSE /\ turn' = 0
  /\ Lose({call.turn})
  /\ call' = NoCall
  /\ UNCHANGED <<child, finalized, flags, task, synths, results, asked>>

(* ... or the notice that the turn has started is emitted, at once or by   *)
(* _read_stdout behind the system_init.                                    *)
Written ==
  /\ call.pc = "drain"
  /\ call' \in {NoCall, [call EXCEPT !.pc = "notice"]}
  /\ UNCHANGED <<child, state, flags, task, synths, results, ghosts>>

Noticed ==
  /\ call.pc = "notice"
  /\ call' = NoCall
  /\ UNCHANGED <<child, state, flags, task, synths, results, ghosts>>

(* interrupt: the result is built first and emitted last.                  *)
Interrupt ==
  /\ call.pc = "idle" /\ active
  /\ closing' = TRUE
  /\ call' = [NoCall EXCEPT !.pc = "kill", !.op = "interrupt", !.turn = turn]
  /\ UNCHANGED <<child, state, authSeen, task, synths, results, ghosts>>

Close ==
  /\ call.pc = "idle"
  /\ closing' = TRUE
  /\ call' = [NoCall EXCEPT !.pc = "kill", !.op = "close"]
  /\ Lose({turn})
  /\ UNCHANGED <<child, state, authSeen, task, synths, results, asked>>

(* _kill: SIGTERM, then SIGKILL.                                           *)
KillChild ==
  /\ call.pc = "kill" /\ fate = "runs"
  /\ fate' = "killed"
  /\ UNCHANGED <<reaped, stdin, stdout, stderr, work, state, flags, task, call, synths, results,
                 ghosts>>

KilledUndrained ==   (* mutant: _closing is reset before the readers are awaited *)
  /\ call.pc = "kill" /\ reaped
  /\ call' = [call EXCEPT !.pc = "readers"]
  /\ closing' = (call.op = "close")
  /\ UNCHANGED <<child, state, authSeen, task, synths, results, ghosts>>
Killed ==
  /\ call.pc = "kill" /\ reaped
  /\ call' = [call EXCEPT !.pc = "readers"]
  /\ UNCHANGED <<child, state, flags, task, synths, results, ghosts>>

(* _drain_readers awaits the readers in turn, each for two seconds at most. *)
NextReader == [stdout |-> "stderr", stderr |-> "exit"]

ReaderOver ==
  /\ call.pc = "readers" /\ Over(call.at) /\ call.at # "exit"
  /\ call' = [call EXCEPT !.at = NextReader[@]]
  /\ UNCHANGED <<child, state, flags, task, synths, results, ghosts>>

CancelReader ==
  /\ call.pc = "readers" /\ ~Over(call.at)
  /\ task' = [task EXCEPT ![call.at] = "done"]
  /\ UNCHANGED <<child, state, flags, call, synths, results, ghosts>>

(* The rest of interrupt, up to the spawn of the next child, and of close. *)
ReadersOver ==
  /\ call.pc = "readers" /\ call.at = "exit" /\ Over("exit")
  /\ \/ /\ call.op = "close"
        /\ call' = Closed /\ UNCHANGED <<state, flags>>
     \/ /\ call.op = "interrupt"
        /\ EndTurn
        /\ closing' = FALSE
        /\ call' = [call EXCEPT !.pc = "spawn"]
        /\ UNCHANGED authSeen
  /\ UNCHANGED <<child, task, synths, results, ghosts>>

SpawnedSilently ==   (* mutant: the interrupted turn gets no result *)
  /\ call.pc = "spawn"
  /\ fate' = "runs" /\ reaped' = FALSE
  /\ stdin' = <<>> /\ stdout' = <<>> /\ stderr' = FALSE /\ work' = 0
  /\ task' = [r \in Readers |-> "read"]
  /\ call' = NoCall
  /\ UNCHANGED <<state, flags, synths, results, ghosts>>

Spawned ==
  /\ call.pc = "spawn"
  /\ fate' = "runs" /\ reaped' = FALSE
  /\ stdin' = <<>> /\ stdout' = <<>> /\ stderr' = FALSE /\ work' = 0
  /\ task' = [r \in Readers |-> "read"]
  /\ synths' = synths \cup {call.turn}
  /\ call' = NoCall
  /\ UNCHANGED <<state, flags, results, ghosts>>

(* SpawnFailedError leaves interrupt, and the result is never emitted.     *)
SpawnFails ==
  /\ call.pc = "spawn" /\ "nospawn" \in Faults
  /\ Lose({call.turn})
  /\ call' = NoCall
  /\ UNCHANGED <<child, state, flags, task, synths, results, asked>>

EmitSynth ==
  /\ \E t \in synths : /\ Emit("interrupt", t, t)
                       /\ synths' = synths \ {t}
  /\ UNCHANGED <<child, state, flags, task, call, ghosts>>

(* on_event raises in a reader.  Nothing catches it, and _drain_readers    *)
(* passes it on if it is waiting for this reader.                          *)
ReaderDies(r) ==
  /\ "raise" \in Faults /\ task[r] \in Emitting
  /\ task' = [task EXCEPT ![r] = "dead"]
  /\ call' = IF call.pc # "readers" \/ call.at # r THEN call
             ELSE IF call.op = "close" THEN Closed ELSE NoCall
  /\ IF active /\ (r # "stderr" \/ call' # call) THEN Lose({turn}) ELSE UNCHANGED lost
  /\ UNCHANGED <<child, state, flags, synths, results, asked>>

-----------------------------------------------------------------------------
Init ==
  /\ fate = "runs" /\ reaped = FALSE
  /\ stdin = <<>> /\ stdout = <<>> /\ stderr = FALSE /\ work = 0
  /\ turn = 0 /\ active = FALSE /\ finalized = FALSE
  /\ closing = FALSE /\ authSeen = FALSE
  /\ task = [r \in Readers |-> "read"] /\ call = NoCall /\ synths = {}
  /\ results = <<>> /\ asked = 0 /\ lost = {}

ChildStep == ChildReads \/ ChildAnswers
StdoutStep == ReadStdout \/ SkipLine \/ StdoutNext
StderrStep == ReadStderr \/ StderrClose \/ StderrNext
ExitStep == WatchExit \/ ExitClose \/ ExitEnd
CallStep ==
  \/ Written \/ WriteFails \/ Noticed
  \/ KillChild \/ Killed \/ ReaderOver \/ ReadersOver \/ Spawned \/ SpawnFails

Next ==
  \/ ChildStep \/ ChildComplains \/ ChildExits \/ ChildReaped
  \/ StdoutStep \/ Overrun \/ StderrStep \/ ExitStep
  \/ SendUser \/ Interrupt \/ Close
  \/ CallStep \/ CancelReader \/ EmitSynth
  \/ \E r \in Readers : ReaderDies(r)

(* The event loop runs every task that can go on, an on_event returns, and *)
(* a child that does not exit answers.                                     *)
Fairness ==
  /\ WF_vars(ChildStep) /\ WF_vars(ChildReaped)
  /\ WF_vars(StdoutStep) /\ WF_vars(StderrStep) /\ WF_vars(ExitStep)
  /\ WF_vars(CallStep) /\ WF_vars(EmitSynth)

Spec == Init /\ [][Next]_vars /\ Fairness
-----------------------------------------------------------------------------
Line == [kind : {"output", "result"}, turn : Nat]

Result == [by : {"child", "auth", "exit", "interrupt"}, id : Nat, of : Nat]

ChildType ==
  /\ fate \in {"runs", "clean", "failed", "killed"} /\ reaped \in BOOLEAN
  /\ stdin \in Seq(Nat) /\ stdout \in Seq(Line) /\ stderr \in BOOLEAN /\ work \in Nat
TurnType ==
  /\ active \in BOOLEAN /\ finalized \in BOOLEAN
  /\ turn = IF active /\ ~finalized THEN asked ELSE 0
FlagType == closing \in BOOLEAN /\ authSeen \in BOOLEAN
TaskType == task \in [Readers -> {"read", "skip", "done", "dead"} \cup Emitting]
CallType ==
  /\ call \in [pc : {"idle", "drain", "notice", "kill", "readers", "spawn", "closed"},
              op : {"none", "user", "interrupt", "close"}, turn : 0 .. asked, at : Readers]
  /\ synths \subseteq 0 .. asked
HistoryType ==
  results \in Seq(Result) /\ asked \in 0 .. MaxTurns /\ lost \subseteq 1 .. asked

(* Every variable has its type, and the fields about the turn agree: there *)
(* is an id exactly while a turn is active and not finalized, and it is    *)
(* that of the last turn asked for.                                        *)
TypeOK == ChildType /\ TurnType /\ FlagType /\ TaskType /\ CallType /\ HistoryType

(* No turn is closed twice under its id by the readers: a result the       *)
(* daemon makes up for a failure names a turn, and no other such result    *)
(* and no result of the child names the same.  Three tasks race to close   *)
(* it (claude.py:374, 417, 460).  An interrupt is not part of this.        *)
ReadersCloseOnce ==
  \A i, j \in DOMAIN results :
    results[i].by \in {"auth", "exit"} /\ results[j].by # "interrupt"
    => results[i].id # 0 /\ (results[i].id = results[j].id => i = j)

(* A child that was killed by an interrupt or a close is never reported as *)
(* a crash (claude.py:273, 442): _closing is set before the kill and stays *)
(* set until the exit watcher is over.                                     *)
KillIsNoCrash ==
  [][task["exit"] = "read" /\ task'["exit"] = "emit" => fate # "killed"]_vars

(* The turns of this backend have the life TurnLifecycle promises: no turn *)
(* is forgotten when the next is accepted, and each ends.  Lost are those  *)
(* that were refused, in flight at a close, killed for a respawn that      *)
(* failed, left to a reader of stdout or of the exit that has raised, or   *)
(* whose result was too long for the reader or behind a line that was.     *)
Status(t) ==
  IF t > asked THEN "none"
  ELSE IF t \in lost THEN "lost"
  ELSE IF HasResult(t) THEN "closed"
  ELSE IF t \in synths \/ (call.pc = "spawn" /\ call.turn = t) THEN "ending"
  ELSE "open"

Turns == INSTANCE TurnLifecycle WITH
           Turns <- 1 .. MaxTurns, status <- [t \in 1 .. MaxTurns |-> Status(t)]

Lifecycle == Turns!Spec

(* What the documentation says of a result (docs/agent-events.md:50): it   *)
(* is always the last frame of its turn, be it made up or not.  So no turn *)
(* has two.                                                                *)
ResultIsLast ==
  \A i, j \in DOMAIN results : results[i].of = results[j].of /\ results[i].of # 0 => i = j

(* What the documentation promises (docs/agent-events.md:74-80): every     *)
(* turn closes with a result, so clients that wait for it do not hang.  A  *)
(* turn the session still calls active ends, unless the backend is closed. *)
NoTurnHangs == (active /\ fate = "runs" /\ ~closing) ~> ~(active /\ fate = "runs" /\ ~closing)
=============================================================================
