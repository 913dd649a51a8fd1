------------------------ MODULE ClaudeBackendProofs ------------------------
(***************************************************************************)
(* Proofs about ClaudeBackend, for any faults and any number of turns: its *)
(* type invariant, that the readers close no turn twice, that a kill is    *)
(* never reported as a crash, and that every step is one of TurnLifecycle. *)
(***************************************************************************)
EXTENDS ClaudeBackend, TLAPS, SequenceTheorems

(* The exit watcher reports an exit that has happened, and when it is      *)
(* about to clear turn_active no turn is open: none can be accepted after  *)
(* the exit (send_user_turn looks at returncode), so it clears none.       *)
ExitKnown ==
  /\ task["exit"] \in Emitting => reaped
  /\ task["exit"] = "end" => turn = 0

(* What is in the pipes is about turns that were asked for.                *)
PipesAsked ==
  /\ work <= asked
  /\ \A i \in DOMAIN stdin : stdin[i] <= asked
  /\ \A i \in DOMAIN stdout : stdout[i].turn <= asked

TypeInv == TypeOK /\ ExitKnown /\ PipesAsked

-----------------------------------------------------------------------------
(* Type correctness.                                                       *)

(* What an action does not touch keeps its type.                           *)
LEMMA KeptType ==
  ASSUME TypeOK
  PROVE  /\ UNCHANGED child => ChildType'
         /\ UNCHANGED <<state, asked>> => TurnType'
         /\ UNCHANGED flags => FlagType'
         /\ UNCHANGED task => TaskType'
         /\ UNCHANGED <<call, synths, asked>> => CallType'
         /\ UNCHANGED <<results, ghosts>> => HistoryType'
         /\ UNCHANGED <<task, reaped, turn>> /\ ExitKnown => ExitKnown'
         /\ UNCHANGED <<child, asked>> /\ PipesAsked => PipesAsked'
<1>1. UNCHANGED child => ChildType'
  BY DEF TypeOK, ChildType, child
<1>2. UNCHANGED <<state, asked>> => TurnType'
  BY DEF TypeOK, TurnType, state
<1>3. UNCHANGED flags => FlagType'
  BY DEF TypeOK, FlagType, flags
<1>4. UNCHANGED task => TaskType'
  BY DEF TypeOK, TaskType
<1>5. UNCHANGED <<call, synths, asked>> => CallType'
  BY DEF TypeOK, CallType
<1>6. UNCHANGED <<results, ghosts>> => HistoryType'
  BY DEF TypeOK, HistoryType, ghosts
<1>7. UNCHANGED <<task, reaped, turn>> /\ ExitKnown => ExitKnown'
  BY DEF ExitKnown
<1>8. UNCHANGED <<child, asked>> /\ PipesAsked => PipesAsked'
  BY DEF PipesAsked, child
<1>. QED  BY <1>1, <1>2, <1>3, <1>4, <1>5, <1>6, <1>7, <1>8

(* A frame more, or a line more on a pipe.                                 *)
LEMMA EmitType ==
  ASSUME HistoryType, NEW by \in {"child", "auth", "exit", "interrupt"},
         NEW id \in Nat, NEW of \in Nat, Emit(by, id, of)
  PROVE  results' \in Seq(Result)
<1>1. [by |-> by, id |-> id, of |-> of] \in Result
  BY DEF Result
<1>. QED  BY <1>1, AppendProperties DEF HistoryType, Emit

LEMMA LoseType ==
  ASSUME HistoryType, NEW ts \in SUBSET (0 .. asked), Lose(ts)
  PROVE  lost' \subseteq 1 .. asked
<1>1. ts \ {0} \subseteq 1 .. asked
  BY ClaudeAssumption DEF HistoryType
<1>2. lost' \subseteq lost \cup (ts \ {0})
  BY DEF Lose
<1>. QED  BY <1>1, <1>2 DEF HistoryType

(* A turn that is active is the last one asked for.                        *)
LEMMA TurnAsked ==
  ASSUME TypeOK
  PROVE  turn \in 0 .. asked /\ turn \in Nat /\ asked \in Nat
BY ClaudeAssumption DEF TypeOK, TurnType, HistoryType

(* The first line of a pipe goes.                                          *)
LEMMA PipeRead ==
  ASSUME NEW S, NEW pipe \in Seq(S), pipe # <<>>
  PROVE  /\ Head(pipe) \in S /\ Tail(pipe) \in Seq(S)
         /\ 1 \in DOMAIN pipe /\ Head(pipe) = pipe[1]
         /\ \A i \in DOMAIN Tail(pipe) : i + 1 \in DOMAIN pipe /\ Tail(pipe)[i] = pipe[i + 1]
<1>1. /\ Len(pipe) \in Nat /\ Len(pipe) # 0 /\ DOMAIN pipe = 1 .. Len(pipe)
      /\ Head(pipe) \in S /\ Tail(pipe) \in Seq(S) /\ Head(pipe) = pipe[1]
      /\ Len(Tail(pipe)) = Len(pipe) - 1
      /\ \A i \in 1 .. Len(Tail(pipe)) : Tail(pipe)[i] = pipe[i + 1]
  BY HeadTailProperties, LenProperties, EmptySeq
<1>2. DOMAIN Tail(pipe) = 1 .. Len(Tail(pipe))
  BY <1>1, LenProperties
<1>. QED  BY <1>1, <1>2

(* A line goes to the end of a pipe.                                       *)
LEMMA PipeWritten ==
  ASSUME NEW S, NEW pipe \in Seq(S), NEW line \in S, NEW i \in DOMAIN Append(pipe, line)
  PROVE  \/ i \in DOMAIN pipe /\ Append(pipe, line)[i] = pipe[i]
         \/ Append(pipe, line)[i] = line
<1>1. Append(pipe, line) \in Seq(S) /\ Len(Append(pipe, line)) = Len(pipe) + 1
      /\ (\A j \in 1 .. Len(pipe) : Append(pipe, line)[j] = pipe[j])
      /\ Append(pipe, line)[Len(pipe) + 1] = line
  BY AppendProperties
<1>2. Len(pipe) \in Nat /\ DOMAIN pipe = 1 .. Len(pipe)
      /\ DOMAIN Append(pipe, line) = 1 .. (Len(pipe) + 1)
  BY <1>1, LenProperties
<1>. QED  BY <1>1, <1>2

LEMMA ChildActionsType ==
  ASSUME TypeInv,
         ChildReads \/ ChildAnswers \/ ChildComplains \/ ChildExits \/ ChildReaped
  PROVE  TypeInv'
<1>. USE DEF TypeInv, state, flags, ghosts
<1>1. ChildType'
  <2>1. stdin # <<>> => Head(stdin) \in Nat /\ Tail(stdin) \in Seq(Nat)
    BY HeadTailProperties DEF TypeOK, ChildType
  <2>2. \A k \in {"output", "result"}, t \in Nat : [kind |-> k, turn |-> t] \in Line
    BY DEF Line
  <2>3. \A l \in Line : Append(stdout, l) \in Seq(Line)
    BY AppendProperties DEF TypeOK, ChildType
  <2>4. CASE ChildReads
    <3>1. stdout' = Append(stdout, [kind |-> "output", turn |-> Head(stdin)]) /\ stdin # <<>>
      BY <2>4 DEF ChildReads
    <3>2. stdout' \in Seq(Line)
      BY <2>1, <2>2, <2>3, <3>1
    <3>. QED  BY <2>1, <2>4, <3>2 DEF ChildReads, TypeOK, ChildType
  <2>5. CASE ChildAnswers
    <3>1. stdout' = Append(stdout, [kind |-> "result", turn |-> work]) /\ work \in Nat
      BY <2>5 DEF ChildAnswers, TypeOK, ChildType
    <3>2. stdout' \in Seq(Line)
      BY <2>2, <2>3, <3>1
    <3>. QED  BY <2>5, <3>2 DEF ChildAnswers, TypeOK, ChildType
  <2>6. CASE ChildComplains \/ ChildExits \/ ChildReaped
    BY <2>6 DEF ChildComplains, ChildExits, ChildReaped, TypeOK, ChildType
  <2>. QED  BY <2>4, <2>5, <2>6
<1>2. UNCHANGED <<state, flags, task, call, synths, results, ghosts>>
  BY DEF ChildReads, ChildAnswers, ChildComplains, ChildExits, ChildReaped
<1>3. TypeOK'
  BY <1>1, <1>2, KeptType DEF TypeOK
<1>4. ExitKnown'
  BY <1>2 DEF ChildReads, ChildAnswers, ChildComplains, ChildExits, ChildReaped, ExitKnown
<1>5. PipesAsked'
  <2>1. stdin \in Seq(Nat) /\ stdout \in Seq(Line) /\ work \in Nat /\ asked' = asked
    BY <1>2 DEF TypeOK, ChildType
  <2>2. ASSUME NEW k \in {"output", "result"}, NEW t \in Nat, t <= asked,
               stdout' = Append(stdout, [kind |-> k, turn |-> t])
        PROVE  \A i \in DOMAIN stdout' : stdout'[i].turn <= asked
    <3>1. [kind |-> k, turn |-> t] \in Line
      BY DEF Line
    <3>2. \A i \in DOMAIN stdout' :
            \/ i \in DOMAIN stdout /\ stdout'[i] = stdout[i]
            \/ stdout'[i] = [kind |-> k, turn |-> t]
      BY <2>1, <2>2, <3>1, PipeWritten
    <3>. QED  BY <2>2, <3>2 DEF PipesAsked
  <2>3. CASE ChildReads
    <3>1. /\ Head(stdin) \in Nat /\ Head(stdin) <= asked
          /\ \A i \in DOMAIN Tail(stdin) : Tail(stdin)[i] <= asked
      BY <2>1, <2>3, PipeRead DEF ChildReads, PipesAsked
    <3>2. \A i \in DOMAIN stdout' : stdout'[i].turn <= asked
      BY <2>2, <2>3, <3>1 DEF ChildReads
    <3>. QED  BY <2>1, <2>3, <3>1, <3>2 DEF ChildReads, PipesAsked
  <2>4. CASE ChildAnswers
    <3>1. \A i \in DOMAIN stdout' : stdout'[i].turn <= asked
      BY <2>1, <2>2, <2>4 DEF ChildAnswers, PipesAsked
    <3>2. 0 <= asked
      BY ClaudeAssumption DEF TypeOK, HistoryType
    <3>. QED  BY <2>1, <2>4, <3>1, <3>2 DEF ChildAnswers, PipesAsked
  <2>5. CASE ChildComplains \/ ChildExits \/ ChildReaped
    BY <2>1, <2>5 DEF ChildComplains, ChildExits, ChildReaped, PipesAsked
  <2>. QED  BY <2>3, <2>4, <2>5
<1>. QED  BY <1>3, <1>4, <1>5

(* A reader that goes to another pc.                                       *)
LEMMA TaskMoves ==
  ASSUME TypeOK, NEW r \in Readers, NEW pc \in {"read", "skip", "done", "dead"} \cup Emitting,
         task' = [task EXCEPT ![r] = pc]
  PROVE  /\ TaskType'
         /\ task'[r] = pc
         /\ \A q \in Readers : q # r => task'[q] = task[q]
BY DEF TypeOK, TaskType

LEMMA EndTurnType ==
  ASSUME EndTurn
  PROVE  TurnType' /\ turn' = 0
BY DEF EndTurn, TurnType

(* A reader closes the turn, or does not.                                  *)
LEMMA ReadersType ==
  ASSUME TypeInv, ReadStdout \/ StdoutNext \/ StderrStep \/ ExitStep
  PROVE  TypeInv'
<1>. USE DEF TypeInv
<1>1. UNCHANGED <<call, synths, ghosts>> /\ reaped' = reaped
  BY DEF ReadStdout, StdoutNext, StderrStep, ReadStderr, StderrClose, StderrNext,
     ExitStep, WatchExit, ExitClose, ExitEnd, child
<1>2. ChildType' /\ FlagType' /\ CallType'
  <2>1. stdout # <<>> => Tail(stdout) \in Seq(Line)
    BY HeadTailProperties DEF TypeOK, ChildType
  <2>2. CASE ReadStdout
    BY <1>1, <2>1, <2>2, KeptType DEF ReadStdout, TypeOK, ChildType, ghosts
  <2>3. CASE ReadStderr
    BY <1>1, <2>3, KeptType DEF ReadStderr, TypeOK, ChildType, FlagType, ghosts
  <2>4. CASE StdoutNext \/ StderrClose \/ StderrNext \/ ExitStep
    <3>1. UNCHANGED <<child, flags>>
      BY <2>4 DEF StdoutNext, StderrClose, StderrNext, ExitStep, WatchExit, ExitClose, ExitEnd
    <3>. QED  BY <1>1, <3>1, KeptType DEF ghosts
  <2>. QED  BY <2>2, <2>3, <2>4 DEF StderrStep
<1>3. TurnType' /\ HistoryType' /\ (turn' = turn \/ turn' = 0)
  <2>0. lost' = lost /\ asked' = asked
    BY <1>1 DEF ghosts
  <2>1. CASE UNCHANGED <<state, results>>
    BY <1>1, <2>0, <2>1, KeptType DEF ghosts, state
  <2>2. ASSUME NEW by \in {"child", "auth", "exit"}, NEW of \in Nat, Emit(by, turn, of), EndTurn
        PROVE  TurnType' /\ HistoryType' /\ turn' = 0
    <3>1. results' \in Seq(Result)
      BY <2>2, EmitType, TurnAsked DEF TypeOK
    <3>. QED  BY <2>0, <2>2, <3>1, EndTurnType DEF TypeOK, HistoryType
  <2>3. CASE ReadStdout
    <3>1. Head(stdout).turn \in Nat
      <4>1. Head(stdout) \in Line
        BY <2>3, HeadTailProperties DEF ReadStdout, TypeOK, ChildType
      <4>. QED  BY <4>1 DEF Line
    <3>. QED  BY <2>1, <2>2, <2>3, <3>1 DEF ReadStdout
  <2>4. CASE StderrClose
    <3>1. CASE active /\ ~finalized
      <4>1. Emit("auth", turn, turn) /\ EndTurn
        BY <2>4, <3>1 DEF StderrClose
      <4>2. turn \in Nat
        BY TurnAsked
      <4>. QED  BY <2>2, <4>1, <4>2
    <3>2. CASE ~(active /\ ~finalized)
      BY <2>1, <2>4, <3>2 DEF StderrClose
    <3>. QED  BY <3>1, <3>2
  <2>5. CASE ExitClose
    <3>1. CASE active /\ ~finalized
      <4>1. results' \in Seq(Result)
        BY <2>5, <3>1, EmitType, TurnAsked DEF TypeOK, ExitClose
      <4>. QED  BY <2>0, <2>5, <3>1, <4>1 DEF TypeOK, HistoryType, TurnType, ExitClose
    <3>. QED  BY <2>1, <2>5, <3>1 DEF ExitClose
  <2>6. CASE ExitEnd
    <3>1. results' = results /\ active' = FALSE /\ turn' = turn /\ finalized' = finalized
          /\ turn = 0
      BY <2>6 DEF ExitEnd, ExitKnown
    <3>. QED  BY <2>0, <3>1 DEF TypeOK, HistoryType, TurnType
  <2>7. CASE StdoutNext \/ ReadStderr \/ StderrNext \/ WatchExit
    <3>1. UNCHANGED <<state, results>>
      BY <2>7 DEF StdoutNext, ReadStderr, StderrNext, WatchExit
    <3>. QED  BY <2>1, <3>1
  <2>. QED  BY <2>3, <2>4, <2>5, <2>6, <2>7 DEF StderrStep, ExitStep
<1>4. TaskType'
  BY TaskMoves DEF ReadStdout, StdoutNext, StderrStep, ReadStderr, StderrClose,
     StderrNext, ExitStep, WatchExit, ExitClose, ExitEnd, Readers, Emitting
<1>5. ExitKnown'
  <2>1. CASE ReadStdout \/ StdoutNext \/ StderrStep
    <3>1. PICK r \in {"stdout", "stderr"}, pc \in {"read", "emit", "end", "done"} :
            task' = [task EXCEPT ![r] = pc]
      BY <2>1 DEF ReadStdout, StdoutNext, StderrStep, ReadStderr, StderrClose,
         StderrNext
    <3>2. task'["exit"] = task["exit"]
      BY <3>1, TaskMoves DEF Readers, Emitting
    <3>. QED  BY <1>1, <1>3, <3>2 DEF ExitKnown
  <2>2. CASE WatchExit
    <3>1. reaped /\ task'["exit"] \in {"emit", "done"}
      BY <2>2, TaskMoves DEF WatchExit, Readers, Emitting
    <3>. QED  BY <1>1, <3>1 DEF ExitKnown
  <2>3. CASE ExitClose
    <3>1. reaped /\ turn' = 0
      BY <2>3 DEF ExitClose, ExitKnown, Emitting, TypeOK, TurnType, state
    <3>. QED  BY <1>1, <3>1 DEF ExitKnown
  <2>4. CASE ExitEnd
    <3>1. task'["exit"] = "done"
      BY <2>4, TaskMoves DEF ExitEnd, Readers, Emitting
    <3>. QED  BY <3>1 DEF ExitKnown, Emitting
  <2>. QED  BY <2>1, <2>2, <2>3, <2>4 DEF ExitStep
<1>6. PipesAsked'
  <2>1. UNCHANGED <<work, stdin, asked>> /\ stdout' \in {stdout, Tail(stdout)}
    BY <1>1 DEF ReadStdout, StdoutNext, StderrStep, ReadStderr, StderrClose, StderrNext, ExitStep,
       WatchExit, ExitClose, ExitEnd, child, ghosts
  <2>2. stdout' = Tail(stdout) => stdout # <<>> \/ stdout' = stdout
    BY DEF ReadStdout, StdoutNext, StderrStep, ReadStderr, StderrClose, StderrNext, ExitStep,
       WatchExit, ExitClose, ExitEnd, child
  <2>3. stdout # <<>> => \A i \in DOMAIN Tail(stdout) : Tail(stdout)[i].turn <= asked
    BY PipeRead DEF TypeOK, ChildType, PipesAsked
  <2>. QED  BY <2>1, <2>2, <2>3 DEF PipesAsked
<1>. QED  BY <1>2, <1>3, <1>4, <1>5, <1>6 DEF TypeOK

(* A line is dropped, and the turn it ends is lost.                        *)
LEMMA DropLineType ==
  ASSUME TypeInv, Overrun \/ SkipLine
  PROVE  /\ TypeInv'
         /\ lost' = lost \/ \E t \in 0 .. asked : Lose({t})
         /\ UNCHANGED <<fate, flags, state, call, synths, results, asked>>
         /\ task'["exit"] = task["exit"]
<1>. USE DEF TypeInv
<1>1. /\ stdout # <<>> /\ stdout' = Tail(stdout)
      /\ UNCHANGED <<fate, reaped, stdin, stderr, work, state, flags, call, synths, results, asked>>
      /\ lost' = lost \/ Lose({Head(stdout).turn})
  BY DEF Overrun, SkipLine, DropLine
<1>2. /\ Head(stdout) \in Line /\ Head(stdout).turn <= asked /\ Tail(stdout) \in Seq(Line)
      /\ \A i \in DOMAIN Tail(stdout) : Tail(stdout)[i].turn <= asked
  BY <1>1, PipeRead DEF TypeOK, ChildType, PipesAsked
<1>3. Head(stdout).turn \in 0 .. asked /\ asked \in Nat
  BY <1>2, TurnAsked DEF Line
<1>4. ChildType' /\ PipesAsked'
  BY <1>1, <1>2 DEF TypeOK, ChildType, PipesAsked
<1>5. TaskType' /\ task'["exit"] = task["exit"]
  BY TaskMoves DEF Overrun, SkipLine, Readers
<1>6. HistoryType'
  <2>1. {Head(stdout).turn} \in SUBSET (0 .. asked)
    BY <1>3
  <2>2. lost' \subseteq 1 .. asked
    BY <1>1, <2>1, LoseType DEF TypeOK, HistoryType
  <2>. QED  BY <1>1, <2>2 DEF TypeOK, HistoryType
<1>7. TurnType' /\ FlagType' /\ CallType' /\ ExitKnown'
  <2>1. turn' = turn
    BY <1>1 DEF state
  <2>. QED  BY <1>1, <1>5, <2>1, KeptType DEF ExitKnown
<1>. QED  BY <1>1, <1>3, <1>4, <1>5, <1>6, <1>7 DEF TypeOK

(* A call of the owner that goes on, or begins with a turn it knows of.    *)
LEMMA CallMoves ==
  ASSUME TypeOK, asked' \in Nat, asked <= asked',
         NEW pc \in {"idle", "drain", "notice", "kill", "readers", "spawn", "closed"},
         NEW op \in {"none", "user", "interrupt", "close"},
         NEW t \in 0 .. asked', NEW at \in Readers,
         call' = [pc |-> pc, op |-> op, turn |-> t, at |-> at],
         synths' \in SUBSET (0 .. asked')
  PROVE  CallType'
BY DEF CallType

LEMMA CallFields ==
  ASSUME TypeOK
  PROVE  /\ call.pc \in {"idle", "drain", "notice", "kill", "readers", "spawn", "closed"}
         /\ call.op \in {"none", "user", "interrupt", "close"}
         /\ call.turn \in 0 .. asked /\ call.at \in Readers
         /\ synths \in SUBSET (0 .. asked) /\ asked \in Nat
         /\ call = [pc |-> call.pc, op |-> call.op, turn |-> call.turn, at |-> call.at]
BY ClaudeAssumption DEF TypeOK, CallType, HistoryType

(* send_user_turn                                                          *)
LEMMA SendUserType ==
  ASSUME TypeInv, SendUser
  PROVE  TypeInv'
<1>. USE DEF TypeInv
<1>1. /\ asked \in Nat /\ asked' = asked + 1 /\ asked' \in 0 .. MaxTurns
      /\ active' = TRUE /\ finalized' = FALSE /\ turn' = asked'
  BY ClaudeAssumption, CallFields DEF SendUser, TypeOK, HistoryType
<1>2. ChildType'
  <2>1. Append(stdin, asked + 1) \in Seq(Nat)
    BY <1>1, AppendProperties DEF TypeOK, ChildType
  <2>. QED  BY <2>1 DEF SendUser, TypeOK, ChildType
<1>3. TurnType'
  BY <1>1 DEF TurnType
<1>4. FlagType' /\ TaskType'
  BY KeptType DEF SendUser
<1>5. CallType'
  <2>1. /\ call' = [pc |-> "drain", op |-> "user", turn |-> asked', at |-> "stdout"]
        /\ synths' = synths
    BY <1>1 DEF SendUser, NoCall
  <2>2. synths' \in SUBSET (0 .. asked') /\ asked' \in 0 .. asked' /\ asked <= asked'
    BY <1>1, <2>1, CallFields
  <2>3. asked' \in Nat /\ "stdout" \in Readers
    BY <1>1 DEF Readers
  <2>. QED  BY <2>1, <2>2, <2>3, CallMoves
<1>6. HistoryType'
  <2>1. lost \subseteq 1 .. asked' /\ asked + 1 \in 1 .. asked'
    BY <1>1 DEF TypeOK, HistoryType
  <2>2. lost' \subseteq lost \cup {asked + 1}
    BY DEF SendUser, Lose
  <2>. QED  BY <1>1, <2>1, <2>2 DEF SendUser, TypeOK, HistoryType
<1>7. ExitKnown'
  BY DEF SendUser, ExitKnown, Emitting
<1>8. PipesAsked'
  <2>1. \A i \in DOMAIN stdin' :
          (i \in DOMAIN stdin /\ stdin'[i] = stdin[i]) \/ stdin'[i] = asked + 1
    BY <1>1, PipeWritten DEF SendUser, TypeOK, ChildType
  <2>2. stdin \in Seq(Nat) /\ work \in Nat /\ work' = work /\ stdout' = stdout
    BY DEF SendUser, TypeOK, ChildType
  <2>3. \A i \in DOMAIN stdin : stdin[i] \in Nat /\ stdin[i] <= asked
    BY <2>2, ElementOfSeq, LenProperties DEF PipesAsked
  <2>4. \A i \in DOMAIN stdout : stdout[i].turn \in Nat /\ stdout[i].turn <= asked
    <3>1. \A i \in DOMAIN stdout : stdout[i] \in Line
      BY ElementOfSeq, LenProperties DEF TypeOK, ChildType
    <3>. QED  BY <3>1 DEF Line, PipesAsked
  <2>5. work <= asked
    BY DEF PipesAsked
  <2>. QED  BY <1>1, <2>1, <2>2, <2>3, <2>4, <2>5 DEF PipesAsked
<1>. QED  BY <1>2, <1>3, <1>4, <1>5, <1>6, <1>7, <1>8 DEF TypeOK

(* The call goes on, and what it does to the fields keeps their types.     *)
LEMMA CallStepType ==
  ASSUME TypeInv, Interrupt \/ Close \/ Written \/ WriteFails \/ Noticed \/ KillChild \/ Killed
                  \/ ReaderOver \/ ReadersOver \/ Spawned \/ SpawnFails
  PROVE  TypeInv'
<1>. USE DEF TypeInv
<1>1. results' = results /\ asked' = asked
  BY DEF Interrupt, Close, Written, WriteFails, Noticed, KillChild, Killed, ReaderOver, ReadersOver,
     Spawned, SpawnFails, ghosts
<1>2. ChildType' /\ TaskType'
  <2>1. CASE KillChild
    BY <2>1, KeptType DEF KillChild, TypeOK, ChildType
  <2>2. CASE Spawned
    <3>1. <<>> \in Seq(Nat) /\ <<>> \in Seq(Line)
      BY EmptySeq
    <3>. QED  BY <2>2, <3>1 DEF Spawned, ChildType, TaskType
  <2>3. CASE UNCHANGED <<child, task>>
    BY <2>3, KeptType
  <2>. QED  BY <2>1, <2>2, <2>3 DEF Interrupt, Close, Written, WriteFails, Noticed, Killed,
                 ReaderOver, ReadersOver, SpawnFails
<1>3. TurnType' /\ (turn' = turn \/ turn' = 0)
  <2>1. CASE WriteFails
    BY <2>1 DEF WriteFails, TypeOK, TurnType
  <2>2. CASE ReadersOver
    BY <1>1, <2>2, EndTurnType, KeptType DEF ReadersOver, EndTurn, state
  <2>3. CASE UNCHANGED state
    BY <1>1, <2>3, KeptType DEF state
  <2>. QED  BY <2>1, <2>2, <2>3 DEF Interrupt, Close, Written, Noticed, KillChild, Killed,
                 ReaderOver, Spawned, SpawnFails
<1>4. FlagType'
  BY KeptType DEF TypeOK, FlagType, flags, Interrupt, Close, Written, WriteFails, Noticed, KillChild,
     Killed, ReaderOver, ReadersOver, Spawned, SpawnFails
<1>5. CallType'
  <2>1. /\ synths' \in SUBSET (0 .. asked')
        /\ asked' \in Nat /\ asked <= asked' /\ 0 \in 0 .. asked'
        /\ turn \in 0 .. asked' /\ call.turn \in 0 .. asked'
    <3>1. synths' \in {synths, synths \cup {call.turn}}
      BY DEF Interrupt, Close, Written, WriteFails, Noticed, KillChild, Killed, ReaderOver,
         ReadersOver, Spawned, SpawnFails
    <3>. QED  BY <1>1, <3>1, CallFields, TurnAsked
  <2>2. CASE call' = call
    BY <2>1, <2>2, CallMoves, CallFields
  <2>3. CASE call' \in {NoCall, Closed}
    BY <2>1, <2>3, CallMoves DEF NoCall, Closed, Readers
  <2>4. ASSUME NEW op \in {"interrupt", "close"}, NEW t \in {0, turn},
               call' = [NoCall EXCEPT !.pc = "kill", !.op = op, !.turn = t]
        PROVE  CallType'
    BY <2>1, <2>4, CallMoves DEF NoCall, Readers
  <2>5. ASSUME NEW pc \in {"notice", "readers", "spawn"}, call' = [call EXCEPT !.pc = pc]
        PROVE  CallType'
    BY <2>1, <2>5, CallMoves, CallFields
  <2>6. ASSUME NEW at \in Readers, call' = [call EXCEPT !.at = at]
        PROVE  CallType'
    BY <2>1, <2>6, CallMoves, CallFields
  <2>7. CASE Interrupt \/ Close
    BY <2>4, <2>7 DEF Interrupt, Close, NoCall
  <2>8. CASE ReaderOver
    <3>1. NextReader[call.at] \in Readers
      BY <2>8, CallFields DEF ReaderOver, NextReader, Readers
    <3>. QED  BY <2>6, <2>8, <3>1 DEF ReaderOver
  <2>. QED  BY <2>2, <2>3, <2>5, <2>7, <2>8 DEF Written, WriteFails, Noticed, KillChild, Killed,
                 ReadersOver, Spawned, SpawnFails
<1>6. HistoryType'
  <2>1. CASE lost' = lost
    BY <1>1, <2>1 DEF TypeOK, HistoryType
  <2>2. ASSUME NEW t \in 0 .. asked, Lose({t})
        PROVE  HistoryType'
    <3>1. {t} \in SUBSET (0 .. asked)
      OBVIOUS
    <3>. QED  BY <1>1, <2>2, <3>1, LoseType DEF TypeOK, HistoryType
  <2>3. CASE WriteFails \/ SpawnFails
    BY <2>2, <2>3, CallFields DEF WriteFails, SpawnFails
  <2>4. CASE Close
    BY <2>2, <2>4, TurnAsked DEF Close
  <2>. QED  BY <2>1, <2>3, <2>4 DEF Interrupt, Written, Noticed, KillChild, Killed, ReaderOver,
                 ReadersOver, Spawned, ghosts
<1>7. ExitKnown'
  <2>1. CASE Spawned
    <3>1. task'["exit"] = "read"
      BY <2>1 DEF Spawned, Readers
    <3>. QED  BY <3>1 DEF ExitKnown, Emitting
  <2>2. CASE ~Spawned
    <3>1. UNCHANGED <<task, reaped>>
      BY <2>2 DEF Interrupt, Close, Written, WriteFails, Noticed, KillChild, Killed, ReaderOver,
         ReadersOver, SpawnFails, child
    <3>. QED  BY <1>3, <3>1 DEF ExitKnown
  <2>. QED  BY <2>1, <2>2
<1>8. PipesAsked'
  <2>1. CASE Spawned
    <3>1. stdin' = <<>> /\ stdout' = <<>> /\ work' = 0
      BY <2>1 DEF Spawned
    <3>2. 0 <= asked
      BY CallFields
    <3>. QED  BY <1>1, <3>1, <3>2 DEF PipesAsked
  <2>2. CASE ~Spawned
    <3>1. UNCHANGED <<stdin, stdout, work>>
      BY <2>2 DEF Interrupt, Close, Written, WriteFails, Noticed, KillChild, Killed, ReaderOver,
         ReadersOver, SpawnFails, child
    <3>. QED  BY <1>1, <3>1 DEF PipesAsked
  <2>. QED  BY <2>1, <2>2
<1>. QED  BY <1>2, <1>3, <1>4, <1>5, <1>6, <1>7, <1>8 DEF TypeOK

LEMMA OtherStepsType ==
  ASSUME TypeInv,
         CancelReader \/ EmitSynth \/ (\E r \in Readers : ReaderDies(r)) \/ UNCHANGED vars
  PROVE  TypeInv'
<1>. USE DEF TypeInv
<1>1. CASE CancelReader
  <2>1. TaskType' /\ task'["exit"] \in {task["exit"], "done"}
    BY <1>1, TaskMoves, CallFields DEF CancelReader, Readers, Emitting
  <2>. QED  BY <1>1, <2>1, KeptType DEF CancelReader, TypeOK, ExitKnown, Emitting, child, state,
                 ghosts
<1>2. CASE EmitSynth
  <2>1. PICK t \in synths : Emit("interrupt", t, t) /\ synths' = synths \ {t}
    BY <1>2 DEF EmitSynth
  <2>2. results' \in Seq(Result)
    BY <2>1, EmitType, CallFields DEF TypeOK
  <2>3. CallType' /\ HistoryType'
    BY <1>2, <2>1, <2>2 DEF EmitSynth, TypeOK, CallType, HistoryType, ghosts
  <2>. QED  BY <1>2, <2>3, KeptType DEF EmitSynth, TypeOK, child, state, ghosts
<1>3. ASSUME NEW r \in Readers, ReaderDies(r)
      PROVE  TypeInv'
  <2>1. TaskType' /\ (task'["exit"] = task["exit"] \/ task'["exit"] = "dead")
    BY <1>3, TaskMoves DEF ReaderDies, Readers
  <2>2. asked' = asked /\ synths' = synths /\ call' \in {call, NoCall, Closed}
    BY <1>3 DEF ReaderDies
  <2>3. CallType'
    <3>1. asked' \in Nat /\ asked <= asked' /\ 0 \in 0 .. asked' /\ synths' \in SUBSET (0 .. asked')
      BY <2>2, CallFields
    <3>2. CASE call' = call
      BY <2>2, <3>1, <3>2, CallMoves, CallFields
    <3>3. CASE call' \in {NoCall, Closed}
      BY <3>1, <3>3, CallMoves DEF NoCall, Closed, Readers
    <3>. QED  BY <2>2, <3>2, <3>3
  <2>4. HistoryType'
    <3>1. {turn} \in SUBSET (0 .. asked)
      BY TurnAsked
    <3>2. lost' \subseteq 1 .. asked
      BY <1>3, <3>1, LoseType DEF ReaderDies, TypeOK, HistoryType
    <3>. QED  BY <1>3, <2>2, <3>2 DEF ReaderDies, TypeOK, HistoryType
  <2>5. ChildType' /\ TurnType' /\ FlagType'
    BY <1>3, KeptType DEF ReaderDies, state
  <2>6. ExitKnown'
    BY <1>3, <2>1 DEF ReaderDies, ExitKnown, Emitting, child, state
  <2>7. PipesAsked'
    BY <1>3, <2>2, KeptType DEF ReaderDies
  <2>. QED  BY <2>1, <2>3, <2>4, <2>5, <2>6, <2>7 DEF TypeOK
<1>4. CASE UNCHANGED vars
  BY <1>4, KeptType DEF vars, TypeOK, child, state, flags, ghosts
<1>. QED  BY <1>1, <1>2, <1>3, <1>4

LEMMA InitType == Init => TypeInv
<1>1. <<>> \in Seq(Nat) /\ <<>> \in Seq(Line) /\ <<>> \in Seq(Result)
  BY EmptySeq
<1>. SUFFICES ASSUME Init PROVE TypeInv
  OBVIOUS
<1>2. ChildType /\ TurnType /\ FlagType /\ TaskType
  BY <1>1 DEF Init, ChildType, TurnType, FlagType, TaskType
<1>3. CallType /\ HistoryType
  BY <1>1, ClaudeAssumption DEF Init, CallType, HistoryType, NoCall, Readers
<1>4. ExitKnown
  BY DEF Init, ExitKnown, Emitting, Readers
<1>5. PipesAsked
  BY DEF Init, PipesAsked
<1>. QED  BY <1>2, <1>3, <1>4, <1>5 DEF TypeInv, TypeOK

LEMMA NextType == TypeInv /\ [Next]_vars => TypeInv'
BY ChildActionsType, ReadersType, DropLineType, SendUserType, CallStepType, OtherStepsType
   DEF Next, ChildStep, StdoutStep, CallStep

LEMMA TypeInduction == Spec => []TypeInv
BY InitType, NextType, PTL DEF Spec

(* Every variable keeps its type, and the fields about a turn agree: there *)
(* is a _current_turn_id exactly while a turn is active and not finalized, *)
(* though five tasks set them (claude.py:199, 209, 278, 372, 423, 468,     *)
(* 471), the last without a look at the id.                                *)
THEOREM BackendTypeCorrect == Spec => []TypeOK
BY TypeInduction, PTL DEF TypeInv

-----------------------------------------------------------------------------
(* The readers close no turn twice.                                        *)

(* A turn is active only after it was asked for.                           *)
ActiveWasAsked == active => asked # 0

(* No result, but that of an interrupt, names the turn that is open, and   *)
(* none names a turn still to be asked for.                                *)
TurnIsFresh ==
  \A i \in DOMAIN results :
    /\ results[i].id <= asked
    /\ results[i].by # "interrupt" /\ turn # 0 => results[i].id # turn

CloseInv == TypeInv /\ ActiveWasAsked /\ TurnIsFresh /\ ReadersCloseOnce

(* A result more.                                                          *)
LEMMA EmitAppends ==
  ASSUME HistoryType, NEW by \in {"child", "auth", "exit", "interrupt"},
         NEW id \in Nat, NEW of \in Nat, Emit(by, id, of)
  PROVE  /\ Len(results) \in Nat
         /\ DOMAIN results = 1 .. Len(results)
         /\ DOMAIN results' = 1 .. (Len(results) + 1)
         /\ \A i \in DOMAIN results : results[i] \in Result /\ results'[i] = results[i]
         /\ results'[Len(results) + 1] = [by |-> by, id |-> id, of |-> of]
<1>1. results \in Seq(Result) /\ [by |-> by, id |-> id, of |-> of] \in Result
  BY DEF HistoryType, Result
<1>2. Len(results) \in Nat /\ DOMAIN results = 1 .. Len(results)
  BY <1>1, LenProperties
<1>3. \A i \in 1 .. Len(results) : results[i] \in Result
  BY <1>1, ElementOfSeq
<1>4. /\ Append(results, [by |-> by, id |-> id, of |-> of]) \in Seq(Result)
      /\ Len(results') = Len(results) + 1
      /\ \A i \in 1 .. Len(results) : results'[i] = results[i]
      /\ results'[Len(results) + 1] = [by |-> by, id |-> id, of |-> of]
  BY <1>1, AppendProperties DEF Emit
<1>5. DOMAIN results' = 1 .. (Len(results) + 1)
  BY <1>4, LenProperties DEF Emit
<1>. QED  BY <1>2, <1>3, <1>4, <1>5

(* A result of a reader: it names the open turn, which it ends, or none,   *)
(* if it is the child's.                                                   *)
LEMMA ReaderEmits ==
  ASSUME CloseInv, NEW by \in {"child", "auth", "exit"}, NEW of \in Nat, Emit(by, turn, of),
         by # "child" => active /\ ~finalized, turn' = 0, asked' = asked
  PROVE  TurnIsFresh' /\ ReadersCloseOnce'
<1>. DEFINE n == Len(results)
<1>1. /\ n \in Nat /\ DOMAIN results = 1 .. n /\ DOMAIN results' = 1 .. (n + 1)
      /\ \A i \in 1 .. n : results[i] \in Result /\ results'[i] = results[i]
      /\ results'[n + 1] = [by |-> by, id |-> turn, of |-> of]
  BY EmitAppends, TurnAsked DEF CloseInv, TypeInv, TypeOK
<1>2. /\ \A i \in 1 .. n : results[i].id \in Nat
      /\ turn \in 0 .. asked /\ asked \in Nat
  BY <1>1, TurnAsked DEF Result, CloseInv, TypeInv
<1>3. by # "child" => turn # 0
  BY DEF CloseInv, TypeInv, TypeOK, TurnType, ActiveWasAsked
<1>4. \A i \in 1 .. n :
        results[i].id <= asked /\ (results[i].by # "interrupt" /\ turn # 0 => results[i].id # turn)
  BY <1>1 DEF CloseInv, TurnIsFresh
<1>5. \A i, j \in 1 .. n :
        results[i].by \in {"auth", "exit"} /\ results[j].by # "interrupt"
        => results[i].id # 0 /\ (results[i].id = results[j].id => i = j)
  BY <1>1 DEF CloseInv, ReadersCloseOnce
<1>6. results'[n + 1].by = by /\ results'[n + 1].id = turn
  BY <1>1
<1>. HIDE DEF n
<1>7. TurnIsFresh'
  <2>1. \A i \in 1 .. (n + 1) : results'[i].id <= asked
    BY <1>1, <1>2, <1>4, <1>6
  <2>. QED  BY <1>1, <2>1 DEF TurnIsFresh
<1>8. ReadersCloseOnce'
  <2>. SUFFICES ASSUME NEW i \in 1 .. (n + 1), NEW j \in 1 .. (n + 1),
                       results'[i].by \in {"auth", "exit"}, results'[j].by # "interrupt"
                PROVE  results'[i].id # 0 /\ (results'[i].id = results'[j].id => i = j)
    BY <1>1 DEF ReadersCloseOnce
  <2>1. CASE i \in 1 .. n /\ j \in 1 .. n
    BY <1>1, <1>5, <2>1
  <2>2. CASE i = n + 1
    <3>1. turn # 0
      BY <1>3, <1>6, <2>2
    <3>2. j \in 1 .. n => results[j].id # turn
      BY <1>1, <1>4, <3>1
    <3>. QED  BY <1>1, <1>6, <2>2, <3>1, <3>2
  <2>3. CASE i \in 1 .. n /\ j = n + 1
    <3>1. results[i].id # 0 /\ (turn # 0 => results[i].id # turn)
      BY <1>1, <1>4, <1>5, <2>3
    <3>. QED  BY <1>1, <1>6, <2>3, <3>1
  <2>. QED  BY <1>1, <2>1, <2>2, <2>3
<1>. QED  BY <1>7, <1>8

(* The result of an interrupt says nothing about the others.               *)
LEMMA InterruptEmits ==
  ASSUME CloseInv, NEW t \in 0 .. asked, Emit("interrupt", t, t), turn' = turn, asked' = asked
  PROVE  TurnIsFresh' /\ ReadersCloseOnce'
<1>. DEFINE n == Len(results)
<1>1. /\ n \in Nat /\ DOMAIN results = 1 .. n /\ DOMAIN results' = 1 .. (n + 1)
      /\ \A i \in 1 .. n : results'[i] = results[i]
      /\ results'[n + 1] = [by |-> "interrupt", id |-> t, of |-> t]
  BY EmitAppends, CallFields DEF CloseInv, TypeInv, TypeOK
<1>2. results'[n + 1].by = "interrupt" /\ results'[n + 1].id = t /\ t <= asked
  BY <1>1, CallFields DEF CloseInv, TypeInv
<1>3. \A i \in 1 .. (n + 1) : i \in 1 .. n \/ i = n + 1
  BY <1>1
<1>. HIDE DEF n
<1>4. TurnIsFresh'
  BY <1>1, <1>2, <1>3 DEF CloseInv, TurnIsFresh
<1>5. ReadersCloseOnce'
  BY <1>1, <1>2, <1>3 DEF CloseInv, ReadersCloseOnce
<1>. QED  BY <1>4, <1>5

LEMMA CloseStep == CloseInv /\ [Next]_vars => CloseInv'
<1>. SUFFICES ASSUME CloseInv, [Next]_vars
              PROVE  CloseInv'
  OBVIOUS
<1>1. TypeInv' /\ TypeOK /\ TypeInv
  BY NextType DEF CloseInv, TypeInv
<1>2. ActiveWasAsked'
  <2>1. CASE SendUser
    BY <2>1, CallFields, <1>1 DEF SendUser, ActiveWasAsked
  <2>3. CASE Overrun \/ SkipLine
    BY <1>1, <2>3, DropLineType DEF state, CloseInv, ActiveWasAsked
  <2>2. CASE ~SendUser /\ ~Overrun /\ ~SkipLine
    <3>1. asked' = asked /\ (active' = active \/ active' = FALSE)
      BY <2>2 DEF Next, vars, ChildStep, ChildReads, ChildAnswers, ChildComplains, ChildExits,
         ChildReaped, StdoutStep, ReadStdout, StdoutNext, StderrStep, ReadStderr, StderrClose,
         StderrNext, ExitStep, WatchExit, ExitClose, ExitEnd, Interrupt, Close, CallStep, Written,
         WriteFails, Noticed, KillChild, Killed, ReaderOver, ReadersOver, Spawned, SpawnFails,
         CancelReader, EmitSynth, ReaderDies, EndTurn, state, ghosts
    <3>. QED  BY <3>1 DEF CloseInv, ActiveWasAsked
  <2>. QED  BY <2>1, <2>2, <2>3
<1>3. TurnIsFresh' /\ ReadersCloseOnce'
  <2>1. CASE UNCHANGED <<results, asked>> /\ turn' \in {turn, 0}
    BY <2>1 DEF CloseInv, TurnIsFresh, ReadersCloseOnce
  <2>2. CASE SendUser
    <3>1. results' = results /\ turn' = asked + 1 /\ asked' = asked + 1 /\ asked \in Nat
      BY <1>1, <2>2, CallFields DEF SendUser
    <3>2. \A i \in DOMAIN results : results[i].id \in Nat
      <4>1. results \in Seq(Result)
        BY <1>1 DEF TypeOK, HistoryType
      <4>2. \A i \in DOMAIN results : results[i] \in Result
        BY <4>1, ElementOfSeq, LenProperties
      <4>. QED  BY <4>2 DEF Result
    <3>. QED  BY <3>1, <3>2 DEF CloseInv, TurnIsFresh, ReadersCloseOnce
  <2>3. CASE EmitSynth
    <3>1. PICK t \in synths : Emit("interrupt", t, t)
      BY <2>3 DEF EmitSynth
    <3>. QED  BY <1>1, <2>3, <3>1, InterruptEmits, CallFields DEF EmitSynth, state, ghosts
  <2>4. CASE ReadStdout
    <3>1. CASE Head(stdout).kind = "result"
      <4>1. Head(stdout) \in Line
        BY <1>1, <2>4, HeadTailProperties DEF ReadStdout, TypeOK, ChildType
      <4>2. Head(stdout).turn \in Nat
        BY <4>1 DEF Line
      <4>3. Emit("child", turn, Head(stdout).turn) /\ turn' = 0 /\ asked' = asked
        BY <2>4, <3>1 DEF ReadStdout, EndTurn, ghosts
      <4>. QED  BY <4>2, <4>3, ReaderEmits
    <3>. QED  BY <2>1, <2>4, <3>1 DEF ReadStdout, state, ghosts
  <2>5. CASE StderrClose
    <3>1. CASE active /\ ~finalized
      <4>1. Emit("auth", turn, turn) /\ turn' = 0 /\ asked' = asked /\ turn \in Nat
        BY <1>1, <2>5, <3>1, TurnAsked DEF StderrClose, EndTurn, ghosts
      <4>. QED  BY <3>1, <4>1, ReaderEmits
    <3>. QED  BY <2>1, <2>5, <3>1 DEF StderrClose, state, ghosts
  <2>6. CASE ExitClose
    <3>1. CASE active /\ ~finalized
      <4>1. Emit("exit", turn, turn) /\ turn' = 0 /\ asked' = asked /\ turn \in Nat
        BY <1>1, <2>6, <3>1, TurnAsked DEF ExitClose, ghosts
      <4>. QED  BY <3>1, <4>1, ReaderEmits
    <3>. QED  BY <2>1, <2>6, <3>1 DEF ExitClose, state, ghosts
  <2>7. CASE Overrun \/ SkipLine
    BY <1>1, <2>1, <2>7, DropLineType DEF state
  <2>. QED  BY <2>1, <2>2, <2>3, <2>4, <2>5, <2>6, <2>7
            DEF Next, vars, ChildStep, ChildReads, ChildAnswers, ChildComplains, ChildExits,
                ChildReaped, StdoutStep, StdoutNext, StderrStep, ReadStderr, StderrNext, ExitStep,
                WatchExit, ExitEnd, Interrupt, Close, CallStep, Written, WriteFails, Noticed,
                KillChild, Killed, ReaderOver, ReadersOver, Spawned, SpawnFails, CancelReader,
                ReaderDies, EndTurn, state, ghosts
<1>. QED  BY <1>1, <1>2, <1>3 DEF CloseInv

(* No turn is closed twice by the readers, however their awaits, the       *)
(* owner's calls, exits, complaints and exceptions interleave              *)
(* (claude.py:374, 418, 463): whoever closes a turn clears its id and sets *)
(* _turn_finalized before it awaits.                                       *)
THEOREM ReadersCloseTurnsOnce == Spec => []ReadersCloseOnce
<1>1. Init => CloseInv
  BY InitType DEF Init, CloseInv, ActiveWasAsked, TurnIsFresh, ReadersCloseOnce
<1>. QED  BY <1>1, CloseStep, PTL DEF Spec, CloseInv

-----------------------------------------------------------------------------
(* A kill is no crash.                                                     *)

(* From the first step of a kill until the exit watcher is over, _closing  *)
(* is set.                                                                 *)
KillIsCovered ==
  /\ call.pc \in {"kill", "readers"} => closing
  /\ fate = "killed" => closing \/ Over("exit")

LEMMA KillStep == TypeInv /\ KillIsCovered /\ [Next]_vars => KillIsCovered'
<1>. SUFFICES ASSUME TypeInv, KillIsCovered, [Next]_vars
              PROVE  KillIsCovered'
  OBVIOUS
<1>. USE DEF KillIsCovered, Over
<1>0. TypeOK
  BY DEF TypeInv
<1>1. CASE UNCHANGED <<fate, closing, call>> /\ (Over("exit") => Over("exit")')
  BY <1>1
<1>2. CASE ChildStep \/ ChildComplains \/ ChildReaped \/ EmitSynth \/ UNCHANGED vars
  BY <1>1, <1>2 DEF ChildStep, ChildReads, ChildAnswers, ChildComplains, ChildReaped, EmitSynth,
     vars, child, flags
<1>3. CASE ChildExits
  BY <1>3 DEF ChildExits, flags
<1>9. CASE Overrun \/ SkipLine
  BY <1>1, <1>9, DropLineType DEF flags
<1>4. CASE ReadStdout \/ StdoutNext \/ StderrStep \/ ExitStep \/ CancelReader
  <2>1. PICK r \in Readers, pc \in {"read", "done", "dead"} \cup Emitting :
          task' = [task EXCEPT ![r] = pc]
          /\ (r = "exit" /\ Over("exit") => pc = "done")
    BY <1>0, <1>4, CallFields DEF ReadStdout, StdoutNext, StderrStep, ReadStderr,
       StderrClose, StderrNext, ExitStep, WatchExit, ExitClose, ExitEnd, CancelReader, Readers,
       Emitting
  <2>2. Over("exit") => Over("exit")'
    BY <1>0, <2>1, TaskMoves DEF Readers
  <2>3. UNCHANGED <<fate, closing, call>>
    BY <1>4 DEF ReadStdout, StdoutNext, StderrStep, ReadStderr, StderrClose, StderrNext,
       ExitStep, WatchExit, ExitClose, ExitEnd, CancelReader, child, flags
  <2>. QED  BY <1>1, <2>2, <2>3
<1>5. CASE SendUser
  BY <1>5 DEF SendUser, flags, NoCall
<1>6. CASE Interrupt \/ Close
  BY <1>6 DEF Interrupt, Close, child
<1>7. CASE CallStep
  <2>1. call.pc \in {"kill", "readers"} => closing
    OBVIOUS
  <2>2. \A pc \in {"notice", "readers", "spawn"} : [call EXCEPT !.pc = pc].pc = pc
    BY <1>0, CallFields
  <2>3. \A at \in Readers : [call EXCEPT !.at = at].pc = call.pc
    BY <1>0, CallFields
  <2>4. NoCall.pc = "idle" /\ Closed.pc = "closed"
    BY DEF NoCall, Closed
  <2>5. CASE Written \/ WriteFails \/ Noticed \/ SpawnFails
    BY <1>0, <2>2, <2>4, <2>5 DEF Written, WriteFails, Noticed, SpawnFails, child, flags
  <2>6. CASE KillChild
    BY <2>6 DEF KillChild, flags
  <2>7. CASE Killed
    BY <2>2, <2>7 DEF Killed, child, flags
  <2>8. CASE ReaderOver
    <3>1. NextReader[call.at] \in Readers
      BY <1>0, <2>8, CallFields DEF ReaderOver, NextReader, Readers
    <3>. QED  BY <2>3, <2>8, <3>1 DEF ReaderOver, child, flags
  <2>9. CASE ReadersOver
    BY <2>2, <2>4, <2>9 DEF ReadersOver, child, flags
  <2>10. CASE Spawned
    BY <2>4, <2>10 DEF Spawned
  <2>. QED  BY <1>7, <2>5, <2>6, <2>7, <2>8, <2>9, <2>10 DEF CallStep
<1>8. ASSUME NEW r \in Readers, ReaderDies(r)
      PROVE  KillIsCovered'
  <2>1. task'["exit"] = task["exit"] \/ task'["exit"] = "dead"
    BY <1>0, <1>8, TaskMoves DEF ReaderDies, Readers
  <2>2. NoCall.pc = "idle" /\ Closed.pc = "closed"
    BY DEF NoCall, Closed
  <2>. QED  BY <1>8, <2>1, <2>2 DEF ReaderDies, child, flags
<1>. QED  BY <1>2, <1>3, <1>4, <1>5, <1>6, <1>7, <1>8, <1>9 DEF Next, StdoutStep

(* A child that an interrupt or a close has killed is never reported as    *)
(* crashed (claude.py:273, 281, 290, 442), whatever the timeouts of the    *)
(* drain cut off and whichever reader raises.                              *)
THEOREM KillsAreNotReported == Spec => KillIsNoCrash
<1>1. Init => KillIsCovered
  BY DEF Init, KillIsCovered, NoCall
<1>2. TypeInv /\ KillIsCovered /\ [Next]_vars
      => [task["exit"] = "read" /\ task'["exit"] = "emit" => fate # "killed"]_vars
  <2>. SUFFICES ASSUME TypeInv, KillIsCovered, [Next]_vars, task["exit"] = "read",
                       task'["exit"] = "emit", fate = "killed"
                PROVE  FALSE
    OBVIOUS
  <2>1. closing /\ TypeOK
    BY DEF TypeInv, KillIsCovered, Over
  <2>2. \A r \in Readers, pc \in {"read", "skip", "done", "dead"} \cup Emitting :
          task' = [task EXCEPT ![r] = pc] => r = "exit" /\ pc = "emit"
    BY <2>1, TaskMoves DEF Readers
  <2>3. ~WatchExit
    <3>. SUFFICES ASSUME WatchExit PROVE FALSE
      OBVIOUS
    <3>1. task' = [task EXCEPT !["exit"] = "done"]
      BY <2>1 DEF WatchExit
    <3>. QED  BY <2>2, <3>1 DEF Readers
  <2>8. ~Overrun /\ ~SkipLine
    BY <2>2, DropLineType DEF Readers
  <2>4. ~ReadStdout /\ ~StdoutNext /\ ~StderrStep /\ ~ExitClose /\ ~ExitEnd /\ ~CancelReader
    BY <2>1, <2>2, CallFields DEF ReadStdout, StdoutNext, StderrStep, ReadStderr,
       StderrClose, StderrNext, ExitClose, ExitEnd, CancelReader, Readers, Emitting
  <2>5. \A r \in Readers : ~ReaderDies(r)
    BY <2>2 DEF ReaderDies
  <2>6. ~Spawned
    BY DEF Spawned, Readers
  <2>7. task' = task
    BY <2>3, <2>4, <2>5, <2>6, <2>8 DEF Next, vars, StdoutStep, ChildStep, ChildReads, ChildAnswers, ChildComplains,
       ChildExits, ChildReaped, ExitStep, SendUser, Interrupt, Close, CallStep, Written, WriteFails,
       Noticed, KillChild, Killed, ReaderOver, ReadersOver, SpawnFails, EmitSynth
  <2>. QED  BY <2>7
<1>. QED  BY <1>1, <1>2, KillStep, TypeInduction, PTL DEF Spec, KillIsNoCrash

-----------------------------------------------------------------------------
(* The turns have the life TurnLifecycle promises, step by step.           *)

(* The result of an interrupted turn is decided.                           *)
Promised(t) == t \in synths \/ (call.pc = "spawn" /\ call.turn = t)

(* The call works on the turn that is open: no other can be accepted while *)
(* it awaits, and a reader that closes it leaves none.                     *)
CallAgrees ==
  /\ call.pc = "drain" => call.turn = asked
  /\ call.pc \in {"kill", "readers"} /\ call.op = "interrupt" /\ turn # 0 => call.turn = turn

(* A turn nobody has answered, lost or promised an answer is the one the   *)
(* object still knows, so the next cannot take its place.                  *)
OpenIsHeld == \A t \in 1 .. asked : Status(t) = "open" => turn = t

LifeInv == CloseInv /\ CallAgrees /\ OpenIsHeld

LEMMA LifeFacts ==
  ASSUME LifeInv
  PROVE  /\ TypeInv /\ TypeOK /\ HistoryType
         /\ asked \in 0 .. MaxTurns /\ asked \in Nat /\ MaxTurns \in Nat
         /\ turn \in 0 .. asked /\ call.turn \in 0 .. asked
         /\ synths \in SUBSET (0 .. asked) /\ lost \subseteq 1 .. asked
BY ClaudeAssumption, TurnAsked, CallFields DEF LifeInv, CloseInv, TypeInv, TypeOK, HistoryType

LEMMA OneResultMore ==
  ASSUME LifeInv, NEW by \in {"child", "auth", "exit", "interrupt"}, NEW id \in Nat, NEW of \in Nat,
         Emit(by, id, of)
  PROVE  \A t : HasResult(t)' <=> HasResult(t) \/ t = id
<1>. DEFINE n == Len(results)
<1>1. /\ n \in Nat /\ DOMAIN results = 1 .. n /\ DOMAIN results' = 1 .. (n + 1)
      /\ \A i \in 1 .. n : results'[i] = results[i]
      /\ results'[n + 1] = [by |-> by, id |-> id, of |-> of]
  BY EmitAppends, LifeFacts
<1>2. results'[n + 1].id = id
  BY <1>1
<1>. HIDE DEF n
<1>3. ASSUME NEW t PROVE HasResult(t)' <=> HasResult(t) \/ t = id
  <2>1. HasResult(t)' <=> \E i \in 1 .. (n + 1) : results'[i].id = t
    BY <1>1 DEF HasResult
  <2>2. HasResult(t) <=> \E i \in 1 .. n : results[i].id = t
    BY <1>1 DEF HasResult
  <2>3. n + 1 \in 1 .. (n + 1) /\ \A i \in 1 .. (n + 1) : i = n + 1 \/ i \in 1 .. n
    BY <1>1
  <2>4. \A i \in 1 .. n : i \in 1 .. (n + 1)
    BY <1>1
  <2>. QED  BY <1>1, <1>2, <2>1, <2>2, <2>3, <2>4
<1>. QED  BY <1>3

(* Of what a turn's status says.                                           *)
LEMMA StatusSame ==
  ASSUME LifeInv, UNCHANGED <<asked, lost, results>>, turn' = turn,
         \A t \in 1 .. asked : Promised(t)' <=> Promised(t)
  PROVE  /\ [Turns!Next]_([t \in 1 .. MaxTurns |-> Status(t)])
         /\ OpenIsHeld'
<1>1. \A t : HasResult(t)' <=> HasResult(t)
  BY DEF HasResult
<1>2. \A t \in 1 .. MaxTurns : Status(t)' = Status(t)
  BY <1>1, LifeFacts DEF Status, Promised
<1>3. OpenIsHeld'
  BY <1>2, LifeFacts DEF LifeInv, OpenIsHeld
<1>. QED  BY <1>2, <1>3

(* The result of the turn is emitted, if it has none yet.                  *)
LEMMA StatusClosed ==
  ASSUME LifeInv, UNCHANGED <<asked, lost, call>>,
         NEW by \in {"child", "auth", "exit", "interrupt"}, NEW id \in 0 .. asked, NEW of \in Nat,
         Emit(by, id, of),
         \A t \in 1 .. asked : t # id => (t \in synths' <=> t \in synths),
         turn' = turn \/ (turn = id /\ turn' = 0)
  PROVE  /\ [Turns!Next]_([t \in 1 .. MaxTurns |-> Status(t)])
         /\ OpenIsHeld'
<1>. DEFINE st == [t \in 1 .. MaxTurns |-> Status(t)]
<1>1. \A t : HasResult(t)' <=> HasResult(t) \/ t = id
  BY OneResultMore, LifeFacts
<1>2. \A t \in 1 .. MaxTurns : t # id => Status(t)' = Status(t)
  BY <1>1, LifeFacts DEF Status
<1>3. id # 0 => Status(id)' = IF id \in lost THEN "lost" ELSE "closed"
  BY <1>1, LifeFacts DEF Status
<1>4. OpenIsHeld'
  <2>1. \A t \in 1 .. asked : Status(t)' = "open" => t # id /\ Status(t) = "open"
    BY <1>2, <1>3, LifeFacts
  <2>. QED  BY <2>1, LifeFacts DEF LifeInv, OpenIsHeld
<1>5. CASE id = 0 \/ id \in lost \/ HasResult(id)
  <2>1. id # 0 => Status(id)' = Status(id)
    BY <1>3, <1>5, LifeFacts DEF Status
  <2>2. \A t \in 1 .. MaxTurns : Status(t)' = Status(t)
    BY <1>2, <2>1
  <2>. QED  BY <1>4, <2>2
<1>6. CASE id # 0 /\ id \notin lost /\ ~HasResult(id)
  <2>1. id \in 1 .. MaxTurns /\ st[id] \in {"open", "ending"}
    BY <1>6, LifeFacts DEF Status
  <2>2. st' = [t \in 1 .. MaxTurns |-> IF t \in {id} THEN "closed" ELSE st[t]]
    BY <1>2, <1>3, <1>6
  <2>3. Turns!Close(id)
    BY <2>1, <2>2 DEF Turns!Close, Turns!Unanswered, Turns!Become
  <2>. QED  BY <1>4, <2>1, <2>3 DEF Turns!Next
<1>. QED  BY <1>5, <1>6

(* The turn is lost, if it has no result.                                  *)
LEMMA StatusLost ==
  ASSUME LifeInv, UNCHANGED <<asked, results>>, NEW id \in 0 .. asked, Lose({id}),
         \A t \in 1 .. asked : t # id => (Promised(t)' <=> Promised(t)),
         turn' = turn \/ (turn = id /\ turn' = 0)
  PROVE  /\ [Turns!Next]_([t \in 1 .. MaxTurns |-> Status(t)])
         /\ OpenIsHeld'
<1>. DEFINE st == [t \in 1 .. MaxTurns |-> Status(t)]
<1>1. \A t : HasResult(t)' <=> HasResult(t)
  BY DEF HasResult
<1>2. \A t \in 1 .. MaxTurns : t # id => (t \in lost' <=> t \in lost)
  BY DEF Lose
<1>3. \A t \in 1 .. MaxTurns : t # id => Status(t)' = Status(t)
  BY <1>1, <1>2, LifeFacts DEF Status, Promised
<1>4. id # 0 /\ ~HasResult(id) => id \in lost'
  BY DEF Lose
<1>5. id # 0 /\ HasResult(id) => (id \in lost' <=> id \in lost)
  BY DEF Lose
<1>6. id # 0 => Status(id)' \in {"lost", "closed"}
  BY <1>1, <1>4, LifeFacts DEF Status
<1>7. OpenIsHeld'
  <2>1. \A t \in 1 .. asked : Status(t)' = "open" => t # id /\ Status(t) = "open"
    BY <1>3, <1>6, LifeFacts
  <2>. QED  BY <2>1, LifeFacts DEF LifeInv, OpenIsHeld
<1>8. CASE id = 0 \/ id \in lost \/ HasResult(id)
  <2>1. id \in lost => id \in lost'
    BY DEF Lose
  <2>2. id # 0 => Status(id)' = Status(id)
    BY <1>1, <1>5, <1>8, <2>1, LifeFacts DEF Status
  <2>3. \A t \in 1 .. MaxTurns : Status(t)' = Status(t)
    BY <1>3, <2>2
  <2>. QED  BY <1>7, <2>3
<1>9. CASE id # 0 /\ id \notin lost /\ ~HasResult(id)
  <2>1. id \in 1 .. MaxTurns /\ st[id] \in {"open", "ending"}
    BY <1>9, LifeFacts DEF Status
  <2>2. Status(id)' = "lost"
    BY <1>4, <1>9, LifeFacts DEF Status
  <2>3. st' = [t \in 1 .. MaxTurns |-> IF t \in {id} THEN "lost" ELSE st[t]]
    BY <1>3, <2>2
  <2>4. {id} \in SUBSET (1 .. MaxTurns) /\ Turns!Lose({id})
    BY <2>1, <2>3 DEF Turns!Lose, Turns!Become
  <2>. QED  BY <1>7, <2>4 DEF Turns!Next
<1>. QED  BY <1>8, <1>9

(* An interrupt decides the result of its turn, if that has none.          *)
LEMMA StatusPromised ==
  ASSUME LifeInv, UNCHANGED <<asked, lost, results>>, NEW id \in 0 .. asked,
         \A t \in 1 .. asked : Promised(t)' <=> Promised(t) \/ t = id,
         turn = 0 \/ turn = id, turn' = 0
  PROVE  /\ [Turns!Next]_([t \in 1 .. MaxTurns |-> Status(t)])
         /\ OpenIsHeld'
<1>. DEFINE st == [t \in 1 .. MaxTurns |-> Status(t)]
<1>1. \A t : HasResult(t)' <=> HasResult(t)
  BY DEF HasResult
<1>2. \A t \in 1 .. MaxTurns : t # id => Status(t)' = Status(t)
  BY <1>1, LifeFacts DEF Status, Promised
<1>3. id # 0 => Status(id)' = IF Status(id) = "open" THEN "ending" ELSE Status(id)
  BY <1>1, LifeFacts DEF Status, Promised
<1>4. OpenIsHeld'
  <2>1. \A t \in 1 .. asked : Status(t)' = "open" => t # id /\ Status(t) = "open"
    BY <1>2, <1>3, LifeFacts
  <2>. QED  BY <2>1, LifeFacts DEF LifeInv, OpenIsHeld
<1>5. CASE id = 0 \/ Status(id) # "open"
  <2>1. \A t \in 1 .. MaxTurns : Status(t)' = Status(t)
    BY <1>2, <1>3, <1>5
  <2>. QED  BY <1>4, <2>1
<1>6. CASE id # 0 /\ Status(id) = "open"
  <2>1. id \in 1 .. MaxTurns /\ st[id] = "open"
    BY <1>6, LifeFacts
  <2>2. st' = [t \in 1 .. MaxTurns |-> IF t \in {id} THEN "ending" ELSE st[t]]
    BY <1>2, <1>3, <1>6
  <2>3. Turns!Promise(id)
    BY <2>1, <2>2 DEF Turns!Promise, Turns!Become
  <2>. QED  BY <1>4, <2>1, <2>3 DEF Turns!Next
<1>. QED  BY <1>5, <1>6

(* A turn is asked for, and is accepted or refused at once.                *)
LEMMA StatusAccepted ==
  ASSUME LifeInv, SendUser
  PROVE  /\ [Turns!Next]_([t \in 1 .. MaxTurns |-> Status(t)])
         /\ OpenIsHeld'
<1>. DEFINE st == [t \in 1 .. MaxTurns |-> Status(t)]
<1>0. PICK n : n = asked + 1
  OBVIOUS
<1>1. /\ n \in 1 .. MaxTurns /\ n > asked /\ asked' = n /\ results' = results
      /\ turn = 0 /\ turn' = n /\ synths' = synths
      /\ call.pc # "spawn" /\ call'.pc # "spawn" /\ (lost' = lost \/ Lose({n}))
  BY <1>0, LifeFacts DEF SendUser, TypeOK, TurnType, NoCall
<1>2. \A t : HasResult(t)' <=> HasResult(t)
  BY <1>1 DEF HasResult
<1>3. n \notin lost /\ n \notin synths /\ ~HasResult(n)
  <2>1. \A i \in DOMAIN results : results[i].id <= asked
    BY DEF LifeInv, CloseInv, TurnIsFresh
  <2>. QED  BY <1>1, <2>1, LifeFacts DEF HasResult
<1>4. st[n] = "none" /\ \A u \in 1 .. MaxTurns : st[u] # "open"
  BY <1>1, LifeFacts DEF Status, LifeInv, OpenIsHeld
<1>5. \A t \in 1 .. MaxTurns : t # n => Status(t)' = Status(t)
  <2>1. \A t \in 1 .. MaxTurns : t # n => (t \in lost' <=> t \in lost)
    BY <1>1 DEF Lose
  <2>2. \A t \in 1 .. MaxTurns : t # n => (t > asked' <=> t > asked)
    BY <1>0, <1>1, LifeFacts
  <2>. QED  BY <1>1, <1>2, <2>1, <2>2 DEF Status
<1>6. OpenIsHeld'
  <2>1. \A t \in 1 .. asked' : Status(t)' = "open" => t = n
    BY <1>1, <1>4, <1>5, LifeFacts
  <2>. QED  BY <1>1, <2>1 DEF OpenIsHeld
<1>7. CASE lost' = lost
  <2>1. Status(n)' = "open"
    BY <1>1, <1>2, <1>3, <1>7 DEF Status
  <2>2. st' = [t \in 1 .. MaxTurns |-> IF t \in {n} THEN "open" ELSE st[t]]
    BY <1>5, <2>1
  <2>3. Turns!Accept(n)
    BY <1>4, <2>2 DEF Turns!Accept, Turns!Become
  <2>. QED  BY <1>1, <1>6, <2>3 DEF Turns!Next
<1>8. CASE Lose({n})
  <2>1. n \in lost'
    BY <1>1, <1>3, <1>8 DEF Lose
  <2>2. Status(n)' = "lost"
    BY <1>1, <2>1 DEF Status
  <2>3. st' = [t \in 1 .. MaxTurns |-> IF t \in {n} THEN "lost" ELSE st[t]]
    BY <1>5, <2>2
  <2>4. {n} \in SUBSET (1 .. MaxTurns) /\ Turns!Lose({n})
    BY <1>1, <1>4, <2>3 DEF Turns!Lose, Turns!Become
  <2>. QED  BY <1>6, <2>4 DEF Turns!Next
<1>. QED  BY <1>1, <1>7, <1>8

LEMMA CallKept ==
  ASSUME TypeOK, CallAgrees, [Next]_vars
  PROVE  CallAgrees'
<1>. USE DEF CallAgrees
<1>0. NoCall.pc = "idle" /\ Closed.pc = "closed"
  BY DEF NoCall, Closed
<1>1. CASE UNCHANGED <<call, asked>> /\ turn' \in {turn, 0}
  BY <1>1
<1>2. CASE SendUser
  <2>1. call'.pc = "drain" /\ call'.turn = asked'
    BY <1>2 DEF SendUser, NoCall
  <2>. QED  BY <2>1
<1>3. CASE Interrupt
  <2>1. call'.turn = turn /\ call'.pc = "kill" /\ turn' = turn
    BY <1>3 DEF Interrupt, NoCall, state
  <2>. QED  BY <2>1
<1>4. CASE Close
  <2>1. call'.op = "close" /\ call'.pc = "kill"
    BY <1>4 DEF Close, NoCall
  <2>. QED  BY <2>1
<1>5. ASSUME NEW pc \in {"notice", "readers", "spawn"}, call' = [call EXCEPT !.pc = pc],
             pc = "readers" => call.pc = "kill", turn' \in {turn, 0}
      PROVE  CallAgrees'
  <2>1. call'.pc = pc /\ call'.op = call.op /\ call'.turn = call.turn
    BY <1>5, CallFields
  <2>. QED  BY <1>5, <2>1
<1>6. ASSUME NEW at \in Readers, call' = [call EXCEPT !.at = at], call.pc = "readers",
             turn' = turn
      PROVE  CallAgrees'
  <2>1. call'.pc = "readers" /\ call'.op = call.op /\ call'.turn = call.turn
    BY <1>6, CallFields
  <2>. QED  BY <1>6, <2>1
<1>7. CASE call' \in {NoCall, Closed}
  BY <1>0, <1>7
<1>8. CASE CallStep
  <2>1. ReaderOver => NextReader[call.at] \in Readers
    BY CallFields DEF ReaderOver, NextReader, Readers
  <2>2. CASE ReaderOver
    BY <1>6, <2>1, <2>2 DEF ReaderOver, state
  <2>3. CASE KillChild
    BY <1>1, <2>3 DEF KillChild, state, ghosts
  <2>4. CASE Written \/ Killed \/ ReadersOver
    BY <1>5, <1>7, <2>4 DEF Written, Killed, ReadersOver, state, EndTurn
  <2>5. CASE WriteFails \/ Noticed \/ Spawned \/ SpawnFails
    BY <1>7, <2>5 DEF WriteFails, Noticed, Spawned, SpawnFails
  <2>. QED  BY <1>8, <2>2, <2>3, <2>4, <2>5 DEF CallStep
<1>9. CASE ChildStep \/ ChildComplains \/ ChildExits \/ ChildReaped \/ ReadStdout \/ StdoutNext
           \/ StderrStep \/ ExitStep \/ CancelReader \/ EmitSynth \/ UNCHANGED vars
  BY <1>1, <1>9 DEF ChildStep, ChildReads, ChildAnswers, ChildComplains, ChildExits, ChildReaped,
     ReadStdout, StdoutNext, StderrStep, ReadStderr, StderrClose, StderrNext, ExitStep,
     WatchExit, ExitClose, ExitEnd, CancelReader, EmitSynth, EndTurn, vars, state, ghosts
<1>10. ASSUME NEW r \in Readers, ReaderDies(r) PROVE CallAgrees'
  BY <1>1, <1>7, <1>10 DEF ReaderDies, state
<1>11. CASE Overrun \/ SkipLine
  BY <1>1, <1>11 DEF Overrun, SkipLine, DropLine, state
<1>. QED  BY <1>2, <1>3, <1>4, <1>8, <1>9, <1>10, <1>11 DEF Next, StdoutStep

(* The readers, and the tasks that emit.                                   *)
LEMMA ReadersMap ==
  ASSUME LifeInv, ReadStdout \/ StdoutNext \/ StderrStep \/ ExitStep \/ EmitSynth
  PROVE  /\ [Turns!Next]_([t \in 1 .. MaxTurns |-> Status(t)])
         /\ OpenIsHeld'
<1>1. UNCHANGED <<call, asked, lost>>
  BY DEF ReadStdout, StdoutNext, StderrStep, ReadStderr, StderrClose, StderrNext,
     ExitStep, WatchExit, ExitClose, ExitEnd, EmitSynth, ghosts
<1>2. CASE EmitSynth
  <2>1. PICK t \in synths : Emit("interrupt", t, t) /\ synths' = synths \ {t}
    BY <1>2 DEF EmitSynth
  <2>2. t \in 0 .. asked /\ t \in Nat /\ turn' = turn
    BY <1>2, LifeFacts DEF EmitSynth, state
  <2>. QED  BY <1>1, <2>1, <2>2, StatusClosed
<1>3. CASE UNCHANGED <<results, turn, synths>>
  BY <1>1, <1>3, StatusSame DEF Promised
<1>4. ASSUME NEW by \in {"child", "auth", "exit"}, NEW of \in Nat, Emit(by, turn, of),
             turn' = 0, synths' = synths
      PROVE  /\ [Turns!Next]_([t \in 1 .. MaxTurns |-> Status(t)])
             /\ OpenIsHeld'
  BY <1>1, <1>4, LifeFacts, StatusClosed
<1>5. CASE ReadStdout
  <2>1. CASE Head(stdout).kind = "result"
    <3>1. Head(stdout) \in Line
      BY <1>5, LifeFacts, HeadTailProperties DEF ReadStdout, TypeOK, ChildType
    <3>2. Head(stdout).turn \in Nat
      BY <3>1 DEF Line
    <3>. QED  BY <1>4, <1>5, <2>1, <3>2 DEF ReadStdout, EndTurn
  <2>. QED  BY <1>3, <1>5, <2>1 DEF ReadStdout, state
<1>6. CASE StderrClose
  BY <1>3, <1>4, <1>6, LifeFacts DEF StderrClose, EndTurn, state
<1>7. CASE ExitClose
  BY <1>3, <1>4, <1>7, LifeFacts DEF ExitClose, state
<1>8. CASE StdoutNext \/ ReadStderr \/ StderrNext \/ WatchExit \/ ExitEnd
  BY <1>3, <1>8 DEF StdoutNext, ReadStderr, StderrNext, WatchExit, ExitEnd, state
<1>. QED  BY <1>2, <1>5, <1>6, <1>7, <1>8 DEF StderrStep, ExitStep

(* A line that is dropped.                                                 *)
LEMMA DropLineMap ==
  ASSUME LifeInv, Overrun \/ SkipLine
  PROVE  /\ [Turns!Next]_([t \in 1 .. MaxTurns |-> Status(t)])
         /\ OpenIsHeld'
<1>1. /\ UNCHANGED <<turn, call, synths, results, asked>>
      /\ lost' = lost \/ \E t \in 0 .. asked : Lose({t})
  BY DropLineType, LifeFacts DEF state
<1>2. \A t : Promised(t)' <=> Promised(t)
  BY <1>1 DEF Promised
<1>. QED  BY <1>1, <1>2, StatusSame, StatusLost

(* The calls of the owner.                                                 *)
LEMMA CallsMap ==
  ASSUME LifeInv, Interrupt \/ Close \/ CallStep
  PROVE  /\ [Turns!Next]_([t \in 1 .. MaxTurns |-> Status(t)])
         /\ OpenIsHeld'
<1>0. NoCall.pc = "idle" /\ Closed.pc = "closed" /\ TypeOK
  BY LifeFacts DEF NoCall, Closed
<1>1. results' = results /\ asked' = asked
  BY DEF Interrupt, Close, CallStep, Written, WriteFails, Noticed, KillChild, Killed, ReaderOver,
     ReadersOver, Spawned, SpawnFails, ghosts
<1>2. CASE WriteFails
  <2>1. call.turn \in 0 .. asked /\ (turn = 0 \/ turn = call.turn)
    BY <1>2, LifeFacts DEF WriteFails, LifeInv, CallAgrees, TypeOK, TurnType
  <2>2. \A t : Promised(t)' <=> Promised(t)
    BY <1>0, <1>2 DEF WriteFails, Promised
  <2>. QED  BY <1>1, <1>2, <2>1, <2>2, StatusLost DEF WriteFails
<1>3. CASE SpawnFails
  <2>1. \A t : t # call.turn => (Promised(t)' <=> Promised(t))
    BY <1>0, <1>3 DEF SpawnFails, Promised
  <2>. QED  BY <1>1, <1>3, <2>1, StatusLost, LifeFacts DEF SpawnFails, state
<1>4. CASE Close
  <2>1. \A t : Promised(t)' <=> Promised(t)
    BY <1>4 DEF Close, Promised, NoCall
  <2>. QED  BY <1>1, <1>4, <2>1, StatusLost, LifeFacts DEF Close, state
<1>5. CASE Spawned
  <2>1. \A t : Promised(t)' <=> Promised(t)
    BY <1>0, <1>5 DEF Spawned, Promised
  <2>2. UNCHANGED <<asked, lost, results>> /\ turn' = turn
    BY <1>5 DEF Spawned, state, ghosts
  <2>. QED  BY <2>1, <2>2, StatusSame
<1>6. CASE ReadersOver /\ call.op = "interrupt"
  <2>1. call'.pc = "spawn" /\ call'.turn = call.turn /\ call.pc = "readers" /\ turn' = 0
    BY <1>0, <1>6, CallFields DEF ReadersOver, EndTurn
  <2>2. \A t : Promised(t)' <=> Promised(t) \/ t = call.turn
    BY <1>6, <2>1 DEF ReadersOver, Promised
  <2>3. UNCHANGED <<asked, lost, results>> /\ (turn = 0 \/ turn = call.turn)
    BY <1>6, <2>1 DEF ReadersOver, ghosts, LifeInv, CallAgrees
  <2>. QED  BY <2>1, <2>2, <2>3, StatusPromised, LifeFacts
<1>7. CASE Interrupt \/ Written \/ Noticed \/ KillChild \/ Killed \/ ReaderOver
           \/ (ReadersOver /\ call.op = "close")
  <2>1. UNCHANGED <<asked, lost, results, synths>> /\ turn' = turn
    BY <1>7 DEF Interrupt, Written, Noticed, KillChild, Killed, ReaderOver, ReadersOver, state,
       ghosts
  <2>2. \A pc \in {"notice", "readers"} : [call EXCEPT !.pc = pc].pc = pc
    BY <1>0, CallFields
  <2>3. \A at \in Readers : [call EXCEPT !.at = at].pc = call.pc
    BY <1>0, CallFields
  <2>4. ReaderOver => NextReader[call.at] \in Readers
    BY <1>0, CallFields DEF ReaderOver, NextReader, Readers
  <2>5. call' = call \/ (call.pc # "spawn" /\ call'.pc # "spawn")
    BY <1>0, <1>7, <2>2, <2>3, <2>4 DEF Interrupt, Written, Noticed, KillChild, Killed, ReaderOver,
       ReadersOver, NoCall
  <2>6. \A t : Promised(t)' <=> Promised(t)
    BY <2>1, <2>5 DEF Promised
  <2>. QED  BY <2>1, <2>6, StatusSame
<1>. QED  BY <1>2, <1>3, <1>4, <1>5, <1>6, <1>7 DEF CallStep, ReadersOver

LEMMA LifeStep ==
  ASSUME LifeInv, [Next]_vars
  PROVE  /\ [Turns!Next]_([t \in 1 .. MaxTurns |-> Status(t)])
         /\ OpenIsHeld'
<1>1. CASE ChildStep \/ ChildComplains \/ ChildExits \/ ChildReaped \/ CancelReader \/ UNCHANGED vars
  <2>1. UNCHANGED <<asked, lost, results, synths, call>> /\ turn' = turn
    BY <1>1 DEF ChildStep, ChildReads, ChildAnswers, ChildComplains, ChildExits, ChildReaped,
       CancelReader, vars, state, ghosts
  <2>. QED  BY <2>1, StatusSame DEF Promised
<1>2. ASSUME NEW r \in Readers, ReaderDies(r)
      PROVE  /\ [Turns!Next]_([t \in 1 .. MaxTurns |-> Status(t)])
             /\ OpenIsHeld'
  <2>1. UNCHANGED <<asked, results, synths>> /\ turn' = turn /\ (lost' = lost \/ Lose({turn}))
    BY <1>2 DEF ReaderDies, state
  <2>2. call' = call \/ (call.pc # "spawn" /\ call'.pc # "spawn")
    BY <1>2 DEF ReaderDies, NoCall, Closed
  <2>3. \A t : Promised(t)' <=> Promised(t)
    BY <2>1, <2>2 DEF Promised
  <2>. QED  BY <2>1, <2>3, StatusSame, StatusLost, LifeFacts
<1>. QED  BY <1>1, <1>2, ReadersMap, DropLineMap, CallsMap, StatusAccepted DEF Next, StdoutStep

LEMMA LifeInduction == Spec => []LifeInv
<1>1. Init => LifeInv
  BY InitType DEF Init, LifeInv, CloseInv, ActiveWasAsked, TurnIsFresh, ReadersCloseOnce,
     CallAgrees, OpenIsHeld, NoCall
<1>2. LifeInv /\ [Next]_vars => LifeInv'
  BY LifeStep, CallKept, CloseStep, LifeFacts DEF LifeInv
<1>. QED  BY <1>1, <1>2, PTL DEF Spec

(* However the readers, the interrupt and the failures interleave, a turn  *)
(* is accepted only when no other is open, it is promised a result at most *)
(* once and closed or lost once, and none is replaced in silence by the    *)
(* next (claude.py:188, 265, 374, 418, 463): each step of the backend is a *)
(* step of TurnLifecycle, or none of it.                                   *)
THEOREM TurnsLiveOnce == Spec => Turns!Steps
<1>1. LifeInv /\ [Next]_vars => [Turns!Next]_([t \in 1 .. MaxTurns |-> Status(t)])
  BY LifeStep
<1>2. Init => Turns!Init
  BY ClaudeAssumption DEF Init, Turns!Init, Status
<1>. QED  BY <1>1, <1>2, LifeInduction, PTL DEF Spec, Turns!Steps
=============================================================================
