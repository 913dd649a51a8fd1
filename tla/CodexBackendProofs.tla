------------------------- MODULE CodexBackendProofs -------------------------
(***************************************************************************)
(* Proofs about CodexBackend, for any faults and any number of turns: its  *)
(* type invariant, that a result is about its own turn and late output     *)
(* closes no other, that an interruption was asked for, that the turns are *)
(* one conversation, and that the turns live as TurnLifecycle says.        *)
(***************************************************************************)
EXTENDS CodexBackend, TLAPS, SequenceTheorems

-----------------------------------------------------------------------------
(* Type correctness.                                                       *)

(* The exit watcher reports an exit that has happened, and when it is      *)
(* about to clear turn_active no turn is open: the daemon sends none to a  *)
(* child that has a return code.                                           *)
ExitKnown ==
  /\ reaped => fate # "runs"
  /\ task["exit"] \in Emitting => reaped
  /\ task["exit"] = "end" => turn = 0

(* What is on the pipes is about turns that were asked for, but for the    *)
(* handshake: an event that is read while no request is open is a stray    *)
(* of a turn, never of none.                                               *)
TurnKinds == EventKinds \cup {"answer", "error"}

Lines(n) ==
  [kind : TurnKinds, turn : 1 .. n] \cup [kind : {"reply", "refusal", "framing"}, turn : {0}]
Requests(n) ==
  [kind : {"codex", "codex-reply", "cancel"}, turn : 1 .. n] \cup [kind : {"hello"}, turn : {0}]

PipesKnown ==
  /\ stdin \in Seq(Requests(asked))
  /\ stdout \in Seq(Lines(asked)) /\ say \in Seq(Lines(asked)) /\ late \in Seq(Lines(asked))
  /\ work \in 0 .. asked

TypeInv == TypeOK /\ ExitKnown /\ PipesKnown

-----------------------------------------------------------------------------
LEMMA SeqMonotone ==
  ASSUME NEW S, NEW T, S \subseteq T
  PROVE  Seq(S) \subseteq Seq(T)
BY SeqDef

LEMMA KindsKnown ==
  /\ {"session_configured", "token_count", "task_complete", "turn_aborted", "answer", "error"}
       \subseteq TurnKinds
  /\ "session_configured" \in EventKinds /\ "turn_aborted" \in EventKinds
  /\ {"answer", "error", "reply", "refusal", "framing"} \cap EventKinds = {}
  /\ {"reply", "refusal", "framing"} \cap TurnKinds = {}
BY DEF TurnKinds, EventKinds, Shown, Dropped, Buffered

(* What is known of the pipes gives their types, and stays known when      *)
(* another turn is asked for.                                              *)
LEMMA PipesTyped ==
  ASSUME NEW n \in Nat
  PROVE  /\ Seq(Lines(n)) \subseteq Seq(Line) /\ Seq(Requests(n)) \subseteq Seq(Request)
         /\ Seq(Lines(n)) \subseteq Seq(Lines(n + 1))
         /\ Seq(Requests(n)) \subseteq Seq(Requests(n + 1))
<1>1. Lines(n) \subseteq Line /\ Requests(n) \subseteq Request
  BY DEF Lines, Requests, Line, Request, TurnKinds
<1>2. 1 .. n \subseteq 1 .. n + 1
  OBVIOUS
<1>3. Lines(n) \subseteq Lines(n + 1) /\ Requests(n) \subseteq Requests(n + 1)
  BY <1>2 DEF Lines, Requests
<1>. QED  BY <1>1, <1>3, SeqMonotone

LEMMA SaysType ==
  ASSUME NEW n \in Nat, NEW ks \in Seq(TurnKinds), NEW t \in 1 .. n
  PROVE  /\ Says(ks, t) \in Seq(Lines(n)) /\ Len(Says(ks, t)) = Len(ks)
         /\ \A i \in 1 .. Len(ks) : Says(ks, t)[i] = [kind |-> ks[i], turn |-> t]
<1>1. Len(ks) \in Nat /\ DOMAIN ks = 1 .. Len(ks) /\ \A i \in 1 .. Len(ks) : ks[i] \in TurnKinds
  BY LenProperties
<1>2. \A i \in 1 .. Len(ks) : [kind |-> ks[i], turn |-> t] \in Lines(n)
  BY <1>1 DEF Lines
<1>3. Says(ks, t) = [i \in 1 .. Len(ks) |-> [kind |-> ks[i], turn |-> t]]
  BY <1>1 DEF Says
<1>4. Says(ks, t) \in [1 .. Len(ks) -> Lines(n)]
  BY <1>2, <1>3
<1>5. Says(ks, t) \in Seq(Lines(n))
  BY <1>1, <1>4, SeqDef
<1>6. DOMAIN Says(ks, t) = 1 .. Len(ks) /\ DOMAIN Says(ks, t) = 1 .. Len(Says(ks, t))
      /\ Len(Says(ks, t)) \in Nat
  BY <1>3, <1>5, LenProperties
<1>. QED  BY <1>1, <1>3, <1>5, <1>6

LEMMA ScriptsTyped ==
  /\ \A s \in Scripts : s \in Seq(TurnKinds) /\ <<"session_configured">> \o s \in Seq(TurnKinds)
  /\ \A s \in Afterwards : s \in Seq(TurnKinds)
  /\ <<"turn_aborted">> \in Seq(TurnKinds)
<1>1. /\ <<"token_count", "answer">> \in Seq(TurnKinds)
      /\ <<"task_complete", "answer">> \in Seq(TurnKinds)
      /\ <<"error">> \in Seq(TurnKinds) /\ <<>> \in Seq(TurnKinds)
      /\ <<"token_count">> \in Seq(TurnKinds)
      /\ <<"answer">> \in Seq(TurnKinds) /\ <<"turn_aborted">> \in Seq(TurnKinds)
      /\ <<"session_configured">> \in Seq(TurnKinds)
  BY KindsKnown
<1>2. \A s \in Scripts : s \in Seq(TurnKinds)
  BY <1>1 DEF Scripts
<1>3. \A s \in Scripts : <<"session_configured">> \o s \in Seq(TurnKinds)
  BY <1>1, <1>2, ConcatProperties
<1>4. \A s \in Afterwards : s \in Seq(TurnKinds)
  BY <1>1 DEF Afterwards
<1>. QED  BY <1>1, <1>2, <1>3, <1>4

(* What is read from a pipe, and what is left on it.                       *)
LEMMA PipeEnds ==
  ASSUME NEW n \in Nat
  PROVE  /\ \A s \in Seq(Lines(n)) :
              /\ s # <<>> => Head(s) \in Lines(n) /\ Tail(s) \in Seq(Lines(n))
              /\ \A l \in Lines(n) : Append(s, l) \in Seq(Lines(n))
         /\ \A s \in Seq(Requests(n)) :
              /\ s # <<>> => Head(s) \in Requests(n) /\ Tail(s) \in Seq(Requests(n))
              /\ \A r \in Requests(n) : Append(s, r) \in Seq(Requests(n))
BY HeadTailProperties, AppendProperties

LEMMA AskedNat == TypeOK => asked \in Nat /\ MaxTurns \in Nat /\ turn \in 0 .. asked
BY CodexAssumption DEF TypeOK, HistoryType, TurnType

(* What an action does not touch keeps its type.                           *)
LEMMA KeptType ==
  ASSUME TypeInv
  PROVE  /\ UNCHANGED <<state, thread, asked>> => TurnType'
         /\ UNCHANGED <<flags, task, held, call>> => TaskType'
         /\ UNCHANGED <<results, ghosts>> => HistoryType'
         /\ UNCHANGED <<child, asked>> => ChildType' /\ PipesKnown'
         /\ UNCHANGED <<task, turn, fate, reaped>> => ExitKnown'
<1>1. UNCHANGED <<state, thread, asked>> => TurnType'
  BY DEF TypeInv, TypeOK, TurnType, state
<1>2. UNCHANGED <<flags, task, held, call>> => TaskType'
  BY DEF TypeInv, TypeOK, TaskType, flags
<1>3. UNCHANGED <<results, ghosts>> => HistoryType'
  BY DEF TypeInv, TypeOK, HistoryType, ghosts
<1>4. UNCHANGED <<child, asked>> => ChildType' /\ PipesKnown'
  BY DEF TypeInv, TypeOK, ChildType, PipesKnown, child
<1>5. UNCHANGED <<task, turn, fate, reaped>> => ExitKnown'
  BY DEF TypeInv, ExitKnown
<1>. QED  BY <1>1, <1>2, <1>3, <1>4, <1>5

LEMMA WriteType ==
  ASSUME TypeInv, NEW r, Write(r), asked' \in Nat, asked' \in {asked, asked + 1},
         r \in Requests(asked')
  PROVE  stdin' \in Seq(Requests(asked'))
<1>1. stdin \in Seq(Requests(asked'))
  BY AskedNat, PipesTyped DEF TypeInv, PipesKnown
<1>. QED  BY <1>1, PipeEnds DEF Write

(* Pipes that are known have their types.                                  *)
LEMMA PipesChild ==
  ASSUME asked' \in Nat, PipesKnown',
         fate' \in {"runs", "clean", "failed", "killed"}, reaped' \in BOOLEAN, threads' \in Nat
  PROVE  ChildType'
BY PipesTyped DEF PipesKnown, ChildType

LEMMA ChildActionsType ==
  ASSUME TypeInv,
         ChildStep \/ ChildPrintsLate \/ ChildExits \/ ChildReaped \/ StderrComplains
  PROVE  TypeInv'
<1>. USE DEF TypeInv
<1>0. /\ UNCHANGED <<state, thread, closing, task, held, call, results, ghosts>>
      /\ authSeen' = authSeen \/ authSeen' = TRUE
  BY DEF ChildStep, ChildGreets, ChildTakes, ChildCancels, ChildPrints, ChildPrintsLate,
     ChildExits, ChildReaped, StderrComplains, flags
<1>1. asked' = asked /\ asked \in Nat
  BY <1>0, AskedNat DEF ghosts
<1>2. /\ stdin \in Seq(Requests(asked)) /\ stdout \in Seq(Lines(asked))
      /\ say \in Seq(Lines(asked)) /\ late \in Seq(Lines(asked)) /\ work \in 0 .. asked
  BY DEF PipesKnown
<1>3. /\ fate' \in {"runs", "clean", "failed", "killed"} /\ reaped' \in BOOLEAN
      /\ threads' \in Nat
  <2>1. fate' \in {fate, "clean", "failed"} /\ reaped' \in {reaped, TRUE}
    BY DEF ChildStep, ChildGreets, ChildTakes, ChildCancels, ChildPrints, ChildPrintsLate,
       ChildExits, ChildReaped, StderrComplains, Dies, child
  <2>2. threads' \in {threads, threads + 1}
    BY DEF ChildStep, ChildGreets, ChildTakes, ChildCancels, ChildPrints, ChildPrintsLate,
       ChildExits, ChildReaped, StderrComplains, Dies, child
  <2>3. /\ fate \in {"runs", "clean", "failed", "killed"} /\ reaped \in BOOLEAN
        /\ threads \in Nat
    BY DEF TypeOK, ChildType
  <2>4. threads' \in Nat
    BY <2>2, <2>3
  <2>5. reaped' \in BOOLEAN /\ fate' \in {"runs", "clean", "failed", "killed"}
    BY <2>1, <2>3
  <2>. QED  BY <2>4, <2>5
<1>4. PipesKnown'
  <2>1. CASE ChildGreets
    <3>1. PICK k \in {"reply", "refusal", "framing"} :
            stdout' = Append(stdout, [kind |-> k, turn |-> 0])
      BY <2>1 DEF ChildGreets
    <3>2. [kind |-> k, turn |-> 0] \in Lines(asked)
      BY DEF Lines
    <3>3. stdout' \in Seq(Lines(asked)) /\ stdin' \in Seq(Requests(asked))
      BY <1>1, <1>2, <2>1, <3>1, <3>2, PipeEnds DEF ChildGreets
    <3>. QED  BY <1>1, <1>2, <2>1, <3>3 DEF ChildGreets, PipesKnown
  <2>2. CASE ChildTakes
    <3>1. Head(stdin) \in Requests(asked) /\ stdin' \in Seq(Requests(asked))
      BY <1>1, <1>2, <2>2, PipeEnds DEF ChildTakes
    <3>2. work' \in 1 .. asked
      BY <2>2, <3>1 DEF ChildTakes, Requests
    <3>3. PICK ks \in Seq(TurnKinds) : say' = Says(ks, work')
      BY <2>2, ScriptsTyped DEF ChildTakes
    <3>4. say' \in Seq(Lines(asked))
      BY <1>1, <3>2, <3>3, SaysType
    <3>. QED  BY <1>1, <1>2, <2>2, <3>1, <3>2, <3>4 DEF ChildTakes, PipesKnown
  <2>3. CASE ChildCancels
    <3>1. Head(stdin) \in Requests(asked) /\ stdin' \in Seq(Requests(asked))
      BY <1>1, <1>2, <2>3, PipeEnds DEF ChildCancels
    <3>2. CASE UNCHANGED <<work, say, late>>
      BY <1>1, <1>2, <2>3, <3>1, <3>2 DEF ChildCancels, PipesKnown
    <3>3. CASE ~UNCHANGED <<work, say, late>>
      <4>1. /\ work = Head(stdin).turn /\ work' = 0 /\ say' = Says(<<"turn_aborted">>, work)
            /\ \E s \in Afterwards : late' = Says(s, work)
        BY <2>3, <3>3 DEF ChildCancels
      <4>2. work \in 1 .. asked
        BY <2>3, <3>1, <4>1 DEF ChildCancels, Requests
      <4>3. \A ks \in Seq(TurnKinds) : Says(ks, work) \in Seq(Lines(asked))
        BY <1>1, <4>2, SaysType
      <4>4. say' \in Seq(Lines(asked)) /\ late' \in Seq(Lines(asked))
        BY <4>1, <4>3, ScriptsTyped
      <4>. QED  BY <1>1, <1>2, <2>3, <3>1, <4>1, <4>4 DEF ChildCancels, PipesKnown
    <3>. QED  BY <3>2, <3>3
  <2>4. CASE ChildPrints
    <3>1. stdout' \in Seq(Lines(asked)) /\ say' \in Seq(Lines(asked)) /\ work' \in 0 .. asked
      BY <1>1, <1>2, <2>4, PipeEnds DEF ChildPrints
    <3>. QED  BY <1>1, <1>2, <2>4, <3>1 DEF ChildPrints, PipesKnown
  <2>5. CASE ChildPrintsLate
    <3>1. stdout' \in Seq(Lines(asked)) /\ late' \in Seq(Lines(asked))
      BY <1>1, <1>2, <2>5, PipeEnds DEF ChildPrintsLate
    <3>. QED  BY <1>1, <1>2, <2>5, <3>1 DEF ChildPrintsLate, PipesKnown
  <2>6. CASE ChildExits
    <3>1. stdin' = <<>> /\ work' = 0 /\ say' = <<>> /\ late' = <<>> /\ stdout' = stdout
      BY <2>6 DEF ChildExits, Dies
    <3>2. \A S : <<>> \in Seq(S)
      BY EmptySeq
    <3>. QED  BY <1>1, <1>2, <3>1, <3>2 DEF PipesKnown
  <2>7. CASE ChildReaped \/ StderrComplains
    BY <1>1, <1>2, <2>7 DEF ChildReaped, StderrComplains, PipesKnown, child
  <2>. QED  BY <2>1, <2>2, <2>3, <2>4, <2>5, <2>6, <2>7 DEF ChildStep
<1>5. ChildType'
  BY <1>1, <1>3, <1>4, PipesChild
<1>6. TurnType' /\ HistoryType'
  BY <1>0, <1>1, KeptType
<1>7. TaskType'
  BY <1>0 DEF TypeOK, TaskType
<1>8. ExitKnown'
  BY <1>0 DEF ChildStep, ChildGreets, ChildTakes, ChildCancels, ChildPrints, ChildPrintsLate,
     ChildExits, ChildReaped, StderrComplains, Dies, ExitKnown, state, child
<1>. QED  BY <1>4, <1>5, <1>6, <1>7, <1>8 DEF TypeOK

-----------------------------------------------------------------------------
(* A reader that goes to another pc.                                       *)
LEMMA TaskMoves ==
  ASSUME TypeOK, NEW r \in Readers, NEW pc \in {"read", "skip", "done", "dead"} \cup Emitting,
         task' = [task EXCEPT ![r] = pc]
  PROVE  /\ task' \in [Readers -> {"read", "skip", "done", "dead"} \cup Emitting]
         /\ task'[r] = pc
         /\ \A q \in Readers : q # r => task'[q] = task[q]
BY DEF TypeOK, TaskType

LEMMA BufferType ==
  ASSUME NEW tr \in [usage : Nat, complete : Nat], NEW l, l.turn \in Nat
  PROVE  /\ Buffer(tr, l) \in [usage : Nat, complete : Nat]
         /\ Buffer(tr, l).usage \in {tr.usage, l.turn}
         /\ Buffer(tr, l).complete \in {tr.complete, l.turn}
BY DEF Buffer

LEMMA ResultType ==
  ASSUME TypeOK, NEW by \in {"answer", "abort", "exit"}, NEW of \in Nat,
         NEW subtype \in {"success", "error", "interrupted"},
         NEW tr \in [usage : Nat, complete : Nat],
         results' = Append(results, ResultOf(by, of, subtype, tr))
  PROVE  results' \in Seq(Result)
<1>1. ResultOf(by, of, subtype, tr) \in Result
  BY AskedNat DEF ResultOf, Result
<1>2. results \in Seq(Result)
  BY DEF TypeOK, HistoryType
<1>. QED  BY <1>1, <1>2, AppendProperties

LEMMA LoseType ==
  ASSUME TypeOK, NEW n \in {asked, asked + 1}, NEW ts \in SUBSET (0 .. n), Lose(ts)
  PROVE  lost' \subseteq 1 .. n
<1>1. ts \ {0} \subseteq 1 .. n /\ 1 .. asked \subseteq 1 .. n
  BY AskedNat
<1>2. lost' \subseteq lost \cup (ts \ {0})
  BY DEF Lose
<1>. QED  BY <1>1, <1>2 DEF TypeOK, HistoryType

(* A line that is taken off stdout is about a turn asked for, and leaves a *)
(* pipe that is known.                                                     *)
LEMMA TakesType ==
  ASSUME TypeInv, NEW kinds, Takes(kinds), asked' = asked
  PROVE  /\ ChildType' /\ PipesKnown'
         /\ Next1 \in Lines(asked) /\ Next1.kind \in kinds /\ task["stdout"] = "read"
         /\ UNCHANGED <<fate, reaped>>
         /\ Next1.turn \in 0 .. asked
         /\ kinds \subseteq TurnKinds => Next1.turn \in 1 .. asked
<1>. USE DEF TypeInv
<1>1. /\ task["stdout"] = "read" /\ stdout # <<>> /\ Next1.kind \in kinds
      /\ stdout' = Tail(stdout)
      /\ UNCHANGED <<fate, reaped, stdin, work, say, late, threads>>
  BY DEF Takes
<1>2. asked \in Nat /\ stdout \in Seq(Lines(asked))
  BY AskedNat DEF PipesKnown
<1>3. Next1 \in Lines(asked) /\ Tail(stdout) \in Seq(Lines(asked))
  BY <1>1, <1>2, PipeEnds DEF Next1
<1>4. PipesKnown'
  BY <1>1, <1>3 DEF PipesKnown
<1>5. ChildType'
  BY <1>1, <1>2, <1>4, PipesChild DEF TypeOK, ChildType
<1>6. Next1.turn \in 0 .. asked /\ (Next1.kind \in TurnKinds => Next1.turn \in 1 .. asked)
  BY <1>2, <1>3, KindsKnown DEF Lines
<1>. QED  BY <1>1, <1>3, <1>4, <1>5, <1>6

LEMMA EndTurnType ==
  ASSUME TypeOK, EndTurn, UNCHANGED <<thread, asked>>
  PROVE  TurnType' /\ turn' = 0
BY DEF EndTurn, TypeOK, TurnType, Fresh

(* The events of a turn, and its end.                                      *)
LEMMA ReadEventType ==
  ASSUME TypeInv, ReadEvent
  PROVE  TypeInv'
<1>. USE DEF TypeInv
<1>1. Takes(EventKinds) /\ asked' = asked /\ EventKinds \subseteq TurnKinds
  BY DEF ReadEvent, TurnKinds
<1>2. /\ ChildType' /\ PipesKnown' /\ UNCHANGED <<fate, reaped>> /\ Next1.turn \in 1 .. asked
      /\ task["stdout"] = "read"
  BY <1>1, TakesType
<1>3. asked \in Nat /\ Next1.turn \in Nat
  BY <1>2, AskedNat
<1>4. buffers' \in [usage : Nat, complete : Nat] /\ strays' \subseteq 1 .. asked
  BY <1>2, <1>3, BufferType DEF ReadEvent, TypeOK, TurnType, HistoryType
<1>5. UNCHANGED <<turn, active, cancel, flags, held, call, results, asked, lost, stopped, unread>>
      /\ thread' = TRUE
  BY DEF ReadEvent
<1>6. TurnType' /\ HistoryType'
  BY <1>4, <1>5 DEF TypeOK, TurnType, HistoryType
<1>7. PICK pc \in {"emit", "read"} : task' = [task EXCEPT !["stdout"] = pc]
  <2>1. task = [task EXCEPT !["stdout"] = "read"]
    BY <1>2 DEF TypeOK, TaskType
  <2>. QED  BY <2>1 DEF ReadEvent
<1>8. TaskType' /\ ExitKnown'
  BY <1>2, <1>5, <1>7, TaskMoves DEF TypeOK, TaskType, ExitKnown, Readers, Emitting, flags
<1>. QED  BY <1>2, <1>6, <1>8 DEF TypeOK

LEMMA ReadAbortType ==
  ASSUME TypeInv, ReadAbort
  PROVE  TypeInv'
<1>. USE DEF TypeInv
<1>1. Takes({"turn_aborted"}) /\ asked' = asked /\ {"turn_aborted"} \subseteq TurnKinds
  BY KindsKnown DEF ReadAbort
<1>2. /\ ChildType' /\ PipesKnown' /\ UNCHANGED <<fate, reaped>> /\ Next1.turn \in 1 .. asked
  BY <1>1, TakesType
<1>3. Next1.turn \in Nat /\ buffers \in [usage : Nat, complete : Nat]
  BY <1>2, AskedNat DEF TypeOK, TurnType
<1>4. results' = Append(results, ResultOf("abort", Next1.turn, "interrupted", Buffer(buffers, Next1)))
  BY DEF ReadAbort
<1>5. results' \in Seq(Result)
  BY <1>3, <1>4, BufferType, ResultType
<1>6. /\ UNCHANGED <<flags, held, call, asked, lost, stopped, strays, unread>> /\ thread' = TRUE /\ EndTurn
      /\ task' = [task EXCEPT !["stdout"] = "emit"]
  BY DEF ReadAbort
<1>7. TurnType' /\ HistoryType' /\ turn' = 0
  BY <1>5, <1>6 DEF TypeOK, TurnType, HistoryType, EndTurn, Fresh
<1>8. TaskType' /\ ExitKnown'
  BY <1>2, <1>6, <1>7, TaskMoves DEF TypeOK, TaskType, ExitKnown, Readers, Emitting, flags
<1>. QED  BY <1>2, <1>7, <1>8 DEF TypeOK

(* The responses.                                                          *)
LEMMA ReadResponseType ==
  ASSUME TypeInv, ReadResponse
  PROVE  TypeInv'
<1>. USE DEF TypeInv
<1>1. Takes({"answer", "error"}) /\ asked' = asked /\ {"answer", "error"} \subseteq TurnKinds
      /\ UNCHANGED <<thread, closing, call, ghosts>>
  BY KindsKnown DEF ReadResponse, ghosts
<1>2. /\ ChildType' /\ PipesKnown' /\ UNCHANGED <<fate, reaped>> /\ Next1.turn \in 1 .. asked
  BY <1>1, TakesType
<1>3. Next1.turn \in Nat /\ buffers \in [usage : Nat, complete : Nat]
  BY <1>2, AskedNat DEF TypeOK, TurnType
<1>4. PICK pc \in {"emit", "auth"} : task' = [task EXCEPT !["stdout"] = pc]
  BY DEF ReadResponse
<1>5. TaskType'
  <2>1. authSeen' \in {authSeen, TRUE} /\ held' \in {held, Next1.turn}
    BY DEF ReadResponse
  <2>2. held' \in Nat
    BY <1>3, <2>1 DEF TypeOK, TaskType
  <2>3. authSeen' \in BOOLEAN
    BY <2>1 DEF TypeOK, TaskType
  <2>. QED  BY <1>1, <1>4, <2>2, <2>3, TaskMoves DEF TypeOK, TaskType, Readers, Emitting
<1>6. TurnType' /\ HistoryType' /\ turn' \in {turn, 0}
  <2>1. CASE UNCHANGED <<state, results>>
    BY <1>1, <2>1, KeptType DEF ghosts, state
  <2>2. CASE ~UNCHANGED <<state, results>>
    <3>1. EndTurn
      BY <2>2 DEF ReadResponse
    <3>2. PICK subtype \in {"interrupted", "error", "success"} : Emit("answer", Next1.turn, subtype)
      BY <2>2 DEF ReadResponse
    <3>3. results' \in Seq(Result)
      BY <1>3, <3>2, ResultType DEF Emit
    <3>. QED  BY <1>1, <3>1, <3>3, EndTurnType DEF TypeOK, HistoryType, ghosts
  <2>. QED  BY <2>1, <2>2
<1>7. ExitKnown'
  BY <1>2, <1>4, <1>6, TaskMoves DEF ExitKnown, Readers, Emitting
<1>. QED  BY <1>2, <1>5, <1>6, <1>7 DEF TypeOK

LEMMA AuthReportedType ==
  ASSUME TypeInv, AuthReported
  PROVE  TypeInv'
<1>. USE DEF TypeInv
<1>1. /\ Emit("answer", held, "error") /\ EndTurn /\ held' = 0
      /\ task' = [task EXCEPT !["stdout"] = "emit"]
      /\ UNCHANGED <<child, thread, flags, call, ghosts>>
  BY DEF AuthReported
<1>2. results' \in Seq(Result)
  BY <1>1, ResultType DEF Emit, TypeOK, TaskType, TurnType
<1>3. TurnType' /\ HistoryType' /\ turn' = 0
  BY <1>1, <1>2, EndTurnType DEF TypeOK, HistoryType, ghosts
<1>4. ChildType' /\ PipesKnown'
  BY <1>1, KeptType DEF ghosts
<1>5. TaskType' /\ ExitKnown'
  BY <1>1, <1>3, TaskMoves DEF TypeOK, TaskType, ExitKnown, Readers, Emitting, flags, child
<1>. QED  BY <1>3, <1>4, <1>5 DEF TypeOK

LEMMA ReadNobodysType ==
  ASSUME TypeInv, ReadNobodys
  PROVE  TypeInv'
<1>1. Takes({"answer", "error"})
      /\ UNCHANGED <<state, thread, flags, task, held, call, results, ghosts>>
  BY DEF ReadNobodys
<1>2. asked' = asked /\ UNCHANGED <<turn, task>>
  BY <1>1 DEF ghosts, state
<1>3. ChildType' /\ PipesKnown' /\ UNCHANGED <<fate, reaped>>
  BY <1>1, <1>2, TakesType
<1>. QED  BY <1>1, <1>2, <1>3, KeptType DEF TypeInv, TypeOK

LEMMA ReadReplyType ==
  ASSUME TypeInv, ReadReply
  PROVE  TypeInv'
<1>. USE DEF TypeInv
<1>1. Takes({"reply", "refusal", "framing"})
      /\ UNCHANGED <<state, thread, flags, held, results, ghosts>>
  BY DEF ReadReply
<1>2. asked' = asked /\ turn' = turn
  BY <1>1 DEF ghosts, state
<1>3. ChildType' /\ PipesKnown' /\ UNCHANGED <<fate, reaped>>
  BY <1>1, <1>2, TakesType
<1>4. PICK pc \in {"end", "read"} : task' = [task EXCEPT !["stdout"] = pc]
  BY DEF ReadReply
<1>5. call' = call \/ \E next \in {"verify", "idle", "fail"} : call' = [call EXCEPT !.pc = next]
  BY DEF ReadReply
<1>6. TaskType' /\ ExitKnown'
  BY <1>1, <1>2, <1>3, <1>4, <1>5, TaskMoves
     DEF TypeOK, TaskType, ExitKnown, Readers, Emitting, flags
<1>. QED  BY <1>1, <1>2, <1>3, <1>6, KeptType DEF TypeOK

LEMMA StdoutNextType ==
  ASSUME TypeInv, StdoutNext
  PROVE  TypeInv'
<1>1. PICK pc \in {"read", "done"} : task' = [task EXCEPT !["stdout"] = pc]
  BY DEF StdoutNext
<1>2. UNCHANGED <<child, state, thread, flags, held, call, results, ghosts>>
  BY DEF StdoutNext
<1>3. TaskType' /\ ExitKnown'
  BY <1>1, <1>2, TaskMoves
     DEF TypeInv, TypeOK, TaskType, ExitKnown, Readers, Emitting, flags, child, state
<1>. QED  BY <1>2, <1>3, KeptType DEF TypeInv, TypeOK, ghosts

(* A line is dropped, and with it the end of a turn or an event.           *)
LEMMA DropFacts ==
  ASSUME TypeInv, Overrun \/ SkipLine
  PROVE  /\ stdout # <<>> /\ stdout' = Tail(stdout)
         /\ Next1 \in Lines(asked) /\ Tail(stdout) \in Seq(Lines(asked))
         /\ Next1.turn \in 0 .. asked
         /\ UNCHANGED <<fate, reaped, stdin, work, say, late, threads, state, thread, flags,
                        held, call, results, asked, stopped, strays>>
         /\ lost' = lost \/ \E t \in 0 .. asked : Lose({t})
         /\ unread' = IF Next1.kind \in EventKinds THEN unread \cup {Next1.turn} ELSE unread
         /\ task' \in [Readers -> {"read", "skip", "done", "dead"} \cup Emitting]
         /\ task'["stdout"] \in {"read", "skip"} /\ task'["exit"] = task["exit"]
<1>. USE DEF TypeInv
<1>1. PICK pc \in {"read", "skip"}, to \in {"read", "skip"} :
        Drops(pc) /\ task' = [task EXCEPT !["stdout"] = to]
  BY DEF Overrun, SkipLine
<1>2. /\ stdout # <<>> /\ stdout' = Tail(stdout)
      /\ UNCHANGED <<fate, reaped, stdin, work, say, late, threads, state, thread, flags,
                     held, call, results, asked, stopped, strays>>
      /\ lost' = lost \/ Lose({Next1.turn})
      /\ unread' = IF Next1.kind \in EventKinds THEN unread \cup {Next1.turn} ELSE unread
  BY <1>1 DEF Drops
<1>3. asked \in Nat /\ stdout \in Seq(Lines(asked))
  BY AskedNat DEF PipesKnown
<1>4. Next1 \in Lines(asked) /\ Tail(stdout) \in Seq(Lines(asked))
  BY <1>2, <1>3, PipeEnds DEF Next1
<1>5. Next1.turn \in 0 .. asked
  BY <1>3, <1>4 DEF Lines
<1>6. /\ task' \in [Readers -> {"read", "skip", "done", "dead"} \cup Emitting]
      /\ task'["stdout"] \in {"read", "skip"} /\ task'["exit"] = task["exit"]
  BY <1>1, TaskMoves DEF Readers
<1>. QED  BY <1>2, <1>4, <1>5, <1>6

LEMMA DropType ==
  ASSUME TypeInv, Overrun \/ SkipLine
  PROVE  TypeInv'
<1>. USE DEF TypeInv
<1>1. PipesKnown'
  BY DropFacts DEF PipesKnown
<1>2. ChildType'
  <2>1. asked' \in Nat
    BY DropFacts, AskedNat
  <2>. QED  BY <1>1, <2>1, DropFacts, PipesChild DEF TypeOK, ChildType
<1>3. TurnType'
  BY DropFacts, KeptType
<1>4. TaskType'
  BY DropFacts DEF TypeOK, TaskType, flags
<1>5. HistoryType'
  <2>1. lost' \subseteq 1 .. asked
    <3>1. \A t \in 0 .. asked : {t} \in SUBSET (0 .. asked)
      OBVIOUS
    <3>. QED  BY <3>1, DropFacts, LoseType DEF TypeOK, HistoryType
  <2>2. unread' \subseteq 1 .. asked
    <3>1. Next1.kind \in EventKinds => Next1.turn \in 1 .. asked
      BY DropFacts, KindsKnown DEF Lines, TurnKinds
    <3>. QED  BY <3>1, DropFacts DEF TypeOK, HistoryType
  <2>3. UNCHANGED <<results, asked, stopped, strays>>
    BY DropFacts
  <2>. QED  BY <2>1, <2>2, <2>3 DEF TypeOK, HistoryType
<1>6. ExitKnown'
  BY DropFacts DEF ExitKnown, state
<1>. QED  BY <1>1, <1>2, <1>3, <1>4, <1>5, <1>6 DEF TypeOK

(* The exit watcher.                                                       *)
LEMMA ExitType ==
  ASSUME TypeInv, ExitStep
  PROVE  TypeInv'
<1>. USE DEF TypeInv
<1>1. UNCHANGED <<child, thread, flags, held, call, ghosts>>
  BY DEF ExitStep, WatchExit, ExitClose, ExitEnd
<1>2. CASE WatchExit
  <2>1. PICK pc \in {"emit", "done"} : task' = [task EXCEPT !["exit"] = pc]
    BY <1>2 DEF WatchExit
  <2>2. reaped /\ UNCHANGED <<turn, cancel, buffers, results>>
    BY <1>2 DEF WatchExit
  <2>3. active' = active
    BY <1>2 DEF WatchExit, TypeOK, TurnType
  <2>4. TaskType' /\ ExitKnown'
    BY <1>1, <2>1, <2>2, TaskMoves
       DEF TypeOK, TaskType, ExitKnown, Readers, Emitting, flags, child
  <2>. QED  BY <1>1, <2>2, <2>3, <2>4, KeptType DEF TypeOK, ghosts, state
<1>3. CASE ExitClose
  <2>1. task' = [task EXCEPT !["exit"] = "end"] /\ task["exit"] = "emit" /\ active' = active
    BY <1>3 DEF ExitClose
  <2>2. turn' = 0 /\ results' \in Seq(Result) /\ cancel' \in BOOLEAN
        /\ buffers' \in [usage : Nat, complete : Nat]
    <3>1. CASE active
      <4>1. Emit("exit", turn, "error") /\ turn' = 0 /\ cancel' = FALSE /\ buffers' = Fresh
        BY <1>3, <3>1 DEF ExitClose
      <4>2. turn \in Nat /\ buffers \in [usage : Nat, complete : Nat]
        BY AskedNat DEF TypeOK, TurnType
      <4>3. results' \in Seq(Result)
        BY <4>1, <4>2, ResultType DEF Emit
      <4>. QED  BY <4>1, <4>3 DEF Fresh
    <3>2. CASE ~active
      BY <1>3, <3>2 DEF ExitClose, TypeOK, TurnType, HistoryType
    <3>. QED  BY <3>1, <3>2
  <2>3. TurnType' /\ HistoryType'
    BY <1>1, <2>1, <2>2 DEF TypeOK, TurnType, HistoryType, ghosts
  <2>4. TaskType' /\ ExitKnown'
    BY <1>1, <2>1, <2>2, TaskMoves
       DEF TypeOK, TaskType, ExitKnown, Readers, Emitting, flags, child
  <2>. QED  BY <1>1, <2>3, <2>4, KeptType DEF TypeOK, ghosts
<1>4. CASE ExitEnd
  <2>1. /\ task' = [task EXCEPT !["exit"] = "done"] /\ active' = FALSE /\ turn = 0
        /\ UNCHANGED <<turn, cancel, buffers, results>>
    BY <1>4 DEF ExitEnd, ExitKnown
  <2>2. TurnType' /\ HistoryType'
    BY <1>1, <2>1 DEF TypeOK, TurnType, HistoryType, ghosts
  <2>3. TaskType' /\ ExitKnown'
    BY <1>1, <2>1, TaskMoves
       DEF TypeOK, TaskType, ExitKnown, Readers, Emitting, flags, child
  <2>. QED  BY <1>1, <2>2, <2>3, KeptType DEF TypeOK, ghosts
<1>. QED  BY <1>2, <1>3, <1>4 DEF ExitStep

-----------------------------------------------------------------------------
(* The calls of the owner.                                                 *)
Pcs == {"init", "verify", "tools", "fail", "idle", "drain", "cancel", "kill", "readers", "gone"}
Ops == {"none", "spawn", "interrupt", "close"}

LEMMA CallMoves ==
  ASSUME TypeOK
  PROVE  /\ call \in [pc : Pcs, op : Ops, at : Readers]
         /\ NoCall \in [pc : Pcs, op : Ops, at : Readers]
         /\ Gone \in [pc : Pcs, op : Ops, at : Readers]
BY DEF TypeOK, TaskType, NoCall, Gone, Pcs, Ops, Readers

LEMMA CallTaskType ==
  ASSUME TypeOK, UNCHANGED <<authSeen, task, held>>, closing' \in {closing, TRUE},
         call' \in [pc : Pcs, op : Ops, at : Readers]
  PROVE  TaskType'
<1>1. closing' \in BOOLEAN
  BY DEF TypeOK, TaskType
<1>. QED  BY <1>1 DEF TypeOK, TaskType, Pcs, Ops

LEMMA SendUserType ==
  ASSUME TypeInv, SendUser
  PROVE  TypeInv'
<1>. USE DEF TypeInv
<1>1. /\ asked' = asked + 1 /\ turn' = asked + 1 /\ active' = TRUE /\ ~reaped
      /\ Write([kind |-> Tool, turn |-> asked + 1])
      /\ call' = [NoCall EXCEPT !.pc = "drain"]
      /\ UNCHANGED <<fate, reaped, stdout, work, say, late, threads, cancel, buffers, thread,
                     flags, task, held, results, stopped, strays, unread>>
  BY DEF SendUser
<1>2. asked \in Nat /\ asked' \in Nat /\ asked' \in 0 .. MaxTurns /\ asked' \in {asked, asked + 1}
  BY <1>1, AskedNat DEF SendUser
<1>3. PipesKnown'
  <2>1. Tool \in {"codex", "codex-reply"} /\ asked + 1 \in 1 .. asked'
    BY <1>1, <1>2 DEF Tool
  <2>2. [kind |-> Tool, turn |-> asked + 1] \in Requests(asked')
    BY <2>1 DEF Requests
  <2>3. stdin' \in Seq(Requests(asked'))
    BY <1>1, <1>2, <2>2, WriteType
  <2>4. Seq(Lines(asked)) \subseteq Seq(Lines(asked'))
    BY <1>1, <1>2, PipesTyped
  <2>5. /\ stdout \in Seq(Lines(asked)) /\ say \in Seq(Lines(asked))
        /\ late \in Seq(Lines(asked)) /\ work \in 0 .. asked
    BY DEF PipesKnown
  <2>6. work \in 0 .. asked'
    BY <1>1, <1>2, <2>5
  <2>. QED  BY <1>1, <2>3, <2>4, <2>5, <2>6 DEF PipesKnown
<1>4. ChildType'
  BY <1>1, <1>2, <1>3, PipesChild DEF TypeOK, ChildType
<1>5. TurnType'
  BY <1>1, <1>2 DEF TypeOK, TurnType
<1>6. TaskType'
  <2>1. call' \in [pc : Pcs, op : Ops, at : Readers]
    BY <1>1, CallMoves DEF NoCall, Pcs, Ops, Readers
  <2>. QED  BY <1>1, <2>1, CallTaskType DEF flags
<1>7. HistoryType'
  <2>1. lost' = lost \/ Lose({asked + 1})
    BY DEF SendUser
  <2>2. {asked + 1} \in SUBSET (0 .. asked + 1) /\ 1 .. asked \subseteq 1 .. asked'
    BY <1>1, <1>2
  <2>3. lost \subseteq 1 .. asked'
    BY <2>2 DEF TypeOK, HistoryType
  <2>4. lost' \subseteq 1 .. asked'
    BY <1>1, <2>1, <2>2, <2>3, LoseType
  <2>. QED  BY <1>1, <1>2, <2>2, <2>4 DEF TypeOK, HistoryType
<1>8. ExitKnown'
  BY <1>1 DEF ExitKnown, Emitting
<1>. QED  BY <1>3, <1>4, <1>5, <1>6, <1>7, <1>8 DEF TypeOK

LEMMA InterruptType ==
  ASSUME TypeInv, Interrupt
  PROVE  TypeInv'
<1>. USE DEF TypeInv
<1>1. /\ turn # 0 /\ cancel' = TRUE /\ stopped' = stopped \cup {turn}
      /\ Write([kind |-> "cancel", turn |-> turn])
      /\ call' = [NoCall EXCEPT !.pc = "cancel"]
      /\ UNCHANGED <<fate, reaped, stdout, work, say, late, threads, turn, active, buffers,
                     thread, flags, task, held, results, asked, lost, strays, unread>>
  BY DEF Interrupt
<1>2. asked' \in Nat /\ asked' = asked /\ turn \in 1 .. asked /\ asked' \in {asked, asked + 1}
  BY <1>1, AskedNat
<1>3. PipesKnown'
  <2>1. [kind |-> "cancel", turn |-> turn] \in Requests(asked')
    BY <1>2 DEF Requests
  <2>2. stdin' \in Seq(Requests(asked'))
    BY <1>1, <1>2, <2>1, WriteType
  <2>. QED  BY <1>1, <2>2 DEF PipesKnown
<1>4. ChildType'
  BY <1>1, <1>2, <1>3, PipesChild DEF TypeOK, ChildType
<1>5. TurnType' /\ HistoryType'
  BY <1>1, <1>2 DEF TypeOK, TurnType, HistoryType
<1>6. TaskType'
  <2>1. call' \in [pc : Pcs, op : Ops, at : Readers]
    BY <1>1, CallMoves DEF NoCall, Pcs, Ops, Readers
  <2>. QED  BY <1>1, <2>1, CallTaskType DEF flags
<1>7. ExitKnown'
  BY <1>1 DEF ExitKnown
<1>. QED  BY <1>3, <1>4, <1>5, <1>6, <1>7 DEF TypeOK

LEMMA VerifyToolsType ==
  ASSUME TypeInv, VerifyTools
  PROVE  TypeInv'
<1>. USE DEF TypeInv
<1>1. /\ Write(Hello) /\ call' = [call EXCEPT !.pc = "tools"]
      /\ UNCHANGED <<fate, reaped, stdout, work, say, late, threads, state, thread, flags,
                     task, held, results, ghosts>>
  BY DEF VerifyTools
<1>2. asked' \in Nat /\ asked' = asked /\ asked' \in {asked, asked + 1}
  BY <1>1, AskedNat DEF ghosts
<1>3. PipesKnown'
  <2>1. Hello \in Requests(asked')
    BY DEF Requests, Hello
  <2>2. stdin' \in Seq(Requests(asked'))
    BY <1>1, <1>2, <2>1, WriteType
  <2>. QED  BY <1>1, <1>2, <2>2 DEF PipesKnown
<1>4. ChildType'
  BY <1>1, <1>2, <1>3, PipesChild DEF TypeOK, ChildType
<1>5. TaskType'
  <2>1. call' \in [pc : Pcs, op : Ops, at : Readers]
    BY <1>1, CallMoves DEF NoCall, Pcs, Ops, Readers
  <2>. QED  BY <1>1, <2>1, CallTaskType DEF flags
<1>. QED  BY <1>1, <1>2, <1>3, <1>4, <1>5, KeptType DEF TypeOK, state

LEMMA KillChildType ==
  ASSUME TypeInv, KillChild
  PROVE  TypeInv'
<1>. USE DEF TypeInv
<1>1. /\ fate' = "killed" /\ stdin' = <<>> /\ work' = 0 /\ say' = <<>> /\ late' = <<>>
      /\ UNCHANGED <<reaped, stdout, threads>>
      /\ UNCHANGED <<state, thread, flags, task, held, call, results, ghosts>>
  BY DEF KillChild, Dies
<1>2. asked' \in Nat /\ asked' = asked
  BY <1>1, AskedNat DEF ghosts
<1>3. PipesKnown'
  <2>1. \A S : <<>> \in Seq(S)
    BY EmptySeq
  <2>. QED  BY <1>1, <1>2, <2>1 DEF PipesKnown
<1>4. ChildType'
  BY <1>1, <1>2, <1>3, PipesChild DEF TypeOK, ChildType
<1>5. ExitKnown'
  BY <1>1 DEF ExitKnown, state
<1>. QED  BY <1>1, <1>2, <1>3, <1>4, <1>5, KeptType DEF TypeOK

(* The other calls go from one pc to another.                              *)
LEMMA CallStepType ==
  ASSUME TypeInv,
         \/ SpawnFails \/ SpawnBreaks \/ Written \/ WriteFails \/ CancelFails \/ Close
         \/ Killed \/ ReaderOver
  PROVE  TypeInv'
<1>. USE DEF TypeInv
<1>1. /\ UNCHANGED <<child, thread, authSeen, task, held, results, asked, stopped, strays, unread>>
      /\ closing' \in {closing, TRUE}
  BY DEF SpawnFails, SpawnBreaks, Written, WriteFails, CancelFails, Close, Killed, ReaderOver,
     flags, ghosts
<1>2. ChildType' /\ PipesKnown'
  BY <1>1, KeptType
<1>3. TurnType' /\ turn' \in {turn, 0}
  <2>1. CASE WriteFails
    BY <1>1, <2>1 DEF WriteFails, TypeOK, TurnType
  <2>2. CASE UNCHANGED state
    BY <1>1, <2>2, KeptType DEF state
  <2>. QED  BY <2>1, <2>2 DEF SpawnFails, SpawnBreaks, Written, CancelFails, Close, Killed,
                 ReaderOver
<1>4. TaskType'
  <2>1. CASE WriteFails \/ Written \/ SpawnBreaks
    BY <1>1, <2>1, CallMoves, CallTaskType DEF WriteFails, Written, SpawnBreaks
  <2>2. CASE SpawnFails \/ CancelFails \/ Close
    <3>1. call' \in [pc : Pcs, op : Ops, at : Readers]
      BY <2>2, CallMoves DEF SpawnFails, CancelFails, Close, NoCall, Pcs, Ops, Readers
    <3>. QED  BY <1>1, <3>1, CallTaskType
  <2>3. CASE Killed \/ ReaderOver
    <3>1. call' \in [pc : Pcs, op : Ops, at : Readers]
      BY <2>3, CallMoves DEF Killed, ReaderOver, NoCall, Gone, Pcs, Ops, Readers
    <3>. QED  BY <1>1, <3>1, CallTaskType
  <2>. QED  BY <2>1, <2>2, <2>3
<1>5. HistoryType'
  <2>1. lost' = lost \/ Lose({turn})
    BY DEF SpawnFails, SpawnBreaks, Written, WriteFails, CancelFails, Close, Killed, ReaderOver,
       ghosts
  <2>2. {turn} \in SUBSET (0 .. asked)
    BY AskedNat
  <2>3. lost' \subseteq 1 .. asked
    BY <2>1, <2>2, LoseType DEF TypeOK, HistoryType
  <2>. QED  BY <1>1, <2>3 DEF TypeOK, HistoryType
<1>6. ExitKnown'
  BY <1>1, <1>3 DEF ExitKnown, child
<1>. QED  BY <1>2, <1>3, <1>4, <1>5, <1>6 DEF TypeOK

LEMMA CancelReaderType ==
  ASSUME TypeInv, CancelReader
  PROVE  TypeInv'
<1>1. call.at \in Readers
  BY DEF TypeInv, TypeOK, TaskType
<1>2. /\ task' = [task EXCEPT ![call.at] = "done"]
      /\ UNCHANGED <<child, state, thread, flags, held, call, results, ghosts>>
  BY DEF CancelReader
<1>3. TaskType' /\ ExitKnown'
  BY <1>1, <1>2, TaskMoves
     DEF TypeInv, TypeOK, TaskType, ExitKnown, Readers, Emitting, flags, child, state
<1>. QED  BY <1>2, <1>3, KeptType DEF TypeInv, TypeOK, ghosts

LEMMA ReaderDiesType ==
  ASSUME TypeInv, NEW r \in Readers, ReaderDies(r)
  PROVE  TypeInv'
<1>. USE DEF TypeInv
<1>1. /\ task' = [task EXCEPT ![r] = "dead"] /\ call' \in {call, Gone}
      /\ lost' = lost \/ Lose({turn})
      /\ UNCHANGED <<child, state, thread, flags, held, results, asked, stopped, strays, unread>>
  BY DEF ReaderDies
<1>2. call' \in [pc : Pcs, op : Ops, at : Readers]
  BY <1>1, CallMoves
<1>3. TaskType' /\ ExitKnown'
  BY <1>1, <1>2, TaskMoves
     DEF TypeOK, TaskType, ExitKnown, Readers, Emitting, flags, child, state, Pcs, Ops
<1>4. HistoryType'
  <2>1. {turn} \in SUBSET (0 .. asked)
    BY AskedNat
  <2>2. lost' \subseteq 1 .. asked
    BY <1>1, <2>1, LoseType DEF TypeOK, HistoryType
  <2>. QED  BY <1>1, <2>2 DEF TypeOK, HistoryType
<1>. QED  BY <1>1, <1>3, <1>4, KeptType DEF TypeOK

LEMMA InitType == Init => TypeInv
<1>. SUFFICES ASSUME Init PROVE TypeInv
  OBVIOUS
<1>1. <<>> \in Seq(Result) /\ \A S : <<>> \in Seq(S)
  BY EmptySeq
<1>2. PipesKnown
  <2>1. Hello \in Requests(0)
    BY DEF Hello, Requests
  <2>. QED  BY <1>1, <2>1 DEF Init, PipesKnown
<1>3. ChildType
  <2>1. stdin \in Seq(Request) /\ stdout \in Seq(Line) /\ say \in Seq(Line) /\ late \in Seq(Line)
    BY <1>2, PipesTyped DEF Init, PipesKnown
  <2>. QED  BY <2>1 DEF Init, ChildType
<1>4. TurnType /\ HistoryType
  <2>1. results \in Seq(Result) /\ 0 \in 0 .. MaxTurns
    BY <1>1, CodexAssumption DEF Init
  <2>2. HistoryType
    BY <2>1 DEF Init, HistoryType
  <2>3. TurnType
    BY DEF Init, TurnType, Fresh
  <2>. QED  BY <2>2, <2>3
<1>5. TaskType
  BY DEF Init, TaskType, NoCall, Readers
<1>6. ExitKnown
  BY DEF Init, ExitKnown, Emitting, Readers
<1>. QED  BY <1>2, <1>3, <1>4, <1>5, <1>6 DEF TypeInv, TypeOK

LEMMA NextType == TypeInv /\ [Next]_vars => TypeInv'
<1>. SUFFICES ASSUME TypeInv, [Next]_vars PROVE TypeInv'
  OBVIOUS
<1>1. CASE StdoutStep
  BY <1>1, ReadReplyType, ReadEventType, ReadAbortType, ReadResponseType, AuthReportedType,
     ReadNobodysType, DropType, StdoutNextType DEF StdoutStep
<1>2. CASE CallStep \/ SpawnFails \/ SpawnBreaks \/ SendUser \/ Interrupt \/ Close
  BY <1>2, VerifyToolsType, KillChildType, CallStepType, SendUserType, InterruptType DEF CallStep
<1>3. CASE UNCHANGED vars
  BY <1>3, KeptType DEF vars, TypeInv, TypeOK, child, state, flags, ghosts
<1>. QED  BY <1>1, <1>2, <1>3, ChildActionsType, DropType, ExitType, CancelReaderType,
          ReaderDiesType DEF Next

LEMMA TypeInduction == Spec => []TypeInv
BY InitType, NextType, PTL DEF Spec

(* Every variable keeps its type whatever goes wrong, and a request is     *)
(* open only while its turn is active and only for the last turn asked     *)
(* for: no callback of an earlier turn leaves its id in _active_turn_id.   *)
THEOREM CodexTypeCorrect == Spec => []TypeOK
BY TypeInduction, PTL DEF TypeInv

-----------------------------------------------------------------------------
(* The steps that concern the turns.  Most leave the open turn and its     *)
(* results alone; they may fill the buffers from an event, begin to report *)
(* a failed authentication, give the open turn up, or drop its end.        *)
Quiet ==
  /\ UNCHANGED <<turn, cancel, results, asked, stopped>>
  /\ lost' = lost \/ \E t \in 0 .. asked : Lose({t})
  /\ strays \subseteq strays'
  /\ call'.pc = "drain" => call.pc = "drain"
  /\ \/ /\ buffers' = buffers
        /\ task'["stdout"] = "auth" =>
             \/ task["stdout"] = "auth" /\ held' = held
             \/ Takes({"answer", "error"}) /\ Next1.turn = turn /\ held' = turn
     \/ ReadEvent

(* A step that ends the open turn with a result: an exit, the end of a     *)
(* report, or a line on stdout.                                            *)
Ending(r) ==
  \/ /\ r.by = "exit" /\ reaped
     /\ UNCHANGED <<child, held>> /\ task'["stdout"] = task["stdout"]
  \/ /\ r.by # "exit" /\ task'["stdout"] = "emit"
     /\ \/ AuthReported /\ r.of = held
        \/ Takes({"answer", "error"}) /\ r.of = Next1.turn /\ turn = r.of
        \/ Takes({"turn_aborted"}) /\ r.of = Next1.turn /\ turn \in {0, r.of}

Closing(r) ==
  /\ results' = Append(results, r) /\ r \in Result /\ r.id = turn
  /\ turn' = 0 /\ cancel' = FALSE /\ buffers' = Fresh
  /\ UNCHANGED <<call, asked, lost, stopped, strays, unread>>
  /\ r.by = "answer" /\ r.subtype = "interrupted" => cancel /\ r.of = turn
  /\ {r.usage, r.complete} \subseteq {buffers.usage, buffers.complete, r.of}
  /\ \/ turn \in {0, r.of}
     \/ task["stdout"] = "auth" /\ held = r.of
  /\ Ending(r)

(* Their cases, action by action.                                          *)
LEMMA ResultFields ==
  ASSUME TypeOK, NEW by, NEW of, NEW subtype, NEW tr,
         ResultOf(by, of, subtype, tr) \in Result
  PROVE  /\ ResultOf(by, of, subtype, tr).by = by /\ ResultOf(by, of, subtype, tr).of = of
         /\ ResultOf(by, of, subtype, tr).subtype = subtype
         /\ ResultOf(by, of, subtype, tr).id = turn
         /\ ResultOf(by, of, subtype, tr).usage = tr.usage
         /\ ResultOf(by, of, subtype, tr).complete = tr.complete
BY DEF ResultOf

LEMMA ResultKnown ==
  ASSUME TypeOK, NEW by \in {"answer", "abort", "exit"}, NEW of \in Nat,
         NEW subtype \in {"success", "error", "interrupted"},
         NEW tr \in [usage : Nat, complete : Nat]
  PROVE  ResultOf(by, of, subtype, tr) \in Result
BY AskedNat DEF ResultOf, Result

LEMMA ReadersTurns ==
  ASSUME TypeInv, (StdoutStep /\ ~SkipLine) \/ ExitStep
  PROVE  Quiet \/ \E r : Closing(r)
<1>. USE DEF TypeInv
<1>1. buffers \in [usage : Nat, complete : Nat] /\ turn \in Nat /\ asked \in Nat
  BY AskedNat DEF TypeOK, TurnType
<1>2. CASE ReadAbort
  <2>1. Takes({"turn_aborted"}) /\ asked' = asked
    BY <1>2 DEF ReadAbort
  <2>2. Next1.turn \in Nat
    BY <1>1, <2>1, TakesType
  <2>3. Buffer(buffers, Next1) \in [usage : Nat, complete : Nat]
        /\ Buffer(buffers, Next1).usage \in {buffers.usage, Next1.turn}
        /\ Buffer(buffers, Next1).complete \in {buffers.complete, Next1.turn}
    BY <1>1, <2>2, BufferType
  <2>. DEFINE r == ResultOf("abort", Next1.turn, "interrupted", Buffer(buffers, Next1))
  <2>4. r \in Result
    BY <2>2, <2>3, ResultKnown
  <2>5. /\ results' = Append(results, r) /\ EndTurn /\ ~Stale
        /\ UNCHANGED <<call, asked, lost, stopped, strays, unread>>
    BY <1>2 DEF ReadAbort
  <2>6. turn \in {0, Next1.turn}
    BY <2>5 DEF Stale
  <2>7. /\ r.by = "abort" /\ r.of = Next1.turn /\ r.id = turn
        /\ r.usage = Buffer(buffers, Next1).usage
        /\ r.complete = Buffer(buffers, Next1).complete
    BY <2>4, ResultFields
  <2>. HIDE DEF r
  <2>8. Ending(r)
    <3>1. task'["stdout"] = "emit"
      BY <1>2, TaskMoves DEF ReadAbort, Readers, Emitting
    <3>. QED  BY <2>1, <2>6, <2>7, <3>1 DEF Ending
  <2>9. Closing(r)
    BY <2>3, <2>4, <2>5, <2>6, <2>7, <2>8 DEF Closing, EndTurn
  <2>. QED  BY <2>9
<1>3. ASSUME NEW by \in {"answer", "exit"}, NEW of \in Nat,
             NEW subtype \in {"success", "error", "interrupted"},
             Emit(by, of, subtype), turn' = 0, cancel' = FALSE, buffers' = Fresh,
             UNCHANGED <<call, asked, lost, stopped, strays, unread>>,
             subtype = "interrupted" => cancel /\ of = turn,
             turn = of \/ (task["stdout"] = "auth" /\ held = of),
             \A r : r.by = by /\ r.of = of => Ending(r)
      PROVE  \E r : Closing(r)
  <2>. DEFINE r == ResultOf(by, of, subtype, buffers)
  <2>1. r \in Result
    BY <1>1, ResultKnown
  <2>2. /\ r.by = by /\ r.of = of /\ r.subtype = subtype /\ r.id = turn
        /\ r.usage = buffers.usage /\ r.complete = buffers.complete
    BY <2>1, ResultFields
  <2>3. results' = Append(results, r)
    BY <1>3 DEF Emit
  <2>. HIDE DEF r
  <2>4. Closing(r)
    BY <1>3, <2>1, <2>2, <2>3 DEF Closing
  <2>. QED  BY <2>4
<1>4. CASE ReadResponse
  <2>1. Takes({"answer", "error"}) /\ asked' = asked /\ Next1.turn = turn
        /\ UNCHANGED <<call, ghosts>>
    BY <1>4 DEF ReadResponse, ghosts
  <2>2. CASE EndTurn /\ held' = held
    <3>1. PICK subtype \in {"interrupted", "error", "success"} :
            /\ Emit("answer", Next1.turn, subtype)
            /\ subtype = "interrupted" => cancel
      BY <1>4, <2>2 DEF ReadResponse, EndTurn, state, Emit, TypeOK, TurnType
    <3>2. task'["stdout"] = "emit"
      <4>1. task' = [task EXCEPT !["stdout"] = "emit"]
        BY <1>4, <2>2 DEF ReadResponse, EndTurn, state
      <4>. QED  BY <4>1, TaskMoves DEF Readers, Emitting
    <3>3. \A r : r.by = "answer" /\ r.of = Next1.turn => Ending(r)
      BY <2>1, <3>2 DEF Ending
    <3>. QED  BY <1>1, <1>3, <2>1, <2>2, <3>1, <3>3 DEF EndTurn, ghosts
  <2>3. CASE ~(EndTurn /\ held' = held)
    <3>1. held' = turn /\ UNCHANGED <<state, results, call, ghosts>>
      BY <1>4, <2>1, <2>3 DEF ReadResponse
    <3>. QED  BY <2>1, <3>1 DEF Quiet, state, ghosts
  <2>. QED  BY <2>2, <2>3
<1>5. CASE AuthReported
  <2>1. held \in Nat
    BY DEF TypeOK, TaskType
  <2>2. task'["stdout"] = "emit"
    BY <1>5, TaskMoves DEF AuthReported, Readers, Emitting
  <2>3. \A r : r.by = "answer" /\ r.of = held => Ending(r)
    BY <1>5, <2>2 DEF Ending
  <2>4. /\ Emit("answer", held, "error") /\ EndTurn /\ task["stdout"] = "auth"
        /\ UNCHANGED <<call, ghosts>>
    BY <1>5 DEF AuthReported
  <2>. QED  BY <1>3, <2>1, <2>3, <2>4 DEF EndTurn, ghosts
<1>6. CASE ExitClose
  <2>1. CASE active
    <3>1. /\ Emit("exit", turn, "error") /\ turn' = 0 /\ cancel' = FALSE /\ buffers' = Fresh
          /\ task' = [task EXCEPT !["exit"] = "end"] /\ task["exit"] = "emit"
          /\ UNCHANGED <<child, held, call, ghosts>>
      BY <1>6, <2>1 DEF ExitClose
    <3>2. task'["stdout"] = task["stdout"] /\ reaped
      BY <3>1, TaskMoves DEF Readers, Emitting, ExitKnown
    <3>3. \A r : r.by = "exit" /\ r.of = turn => Ending(r)
      BY <3>1, <3>2 DEF Ending
    <3>. QED  BY <1>1, <1>3, <3>1, <3>3 DEF ghosts
  <2>2. CASE ~active
    <3>1. UNCHANGED <<turn, cancel, buffers, results, call, held, ghosts>>
          /\ task' = [task EXCEPT !["exit"] = "end"]
      BY <1>6, <2>2 DEF ExitClose
    <3>2. task'["stdout"] = task["stdout"]
      BY <3>1, TaskMoves DEF Readers, Emitting
    <3>. QED  BY <3>1, <3>2 DEF Quiet, ghosts
  <2>. QED  BY <2>1, <2>2
<1>7. CASE ReadEvent
  BY <1>7 DEF Quiet, ReadEvent
<1>8. CASE ReadReply \/ ReadNobodys \/ StdoutNext
  <2>1. UNCHANGED <<turn, cancel, buffers, results, held, asked, lost, stopped, strays, unread>>
    BY <1>8 DEF ReadReply, ReadNobodys, StdoutNext, state, ghosts
  <2>2. task' = task \/ \E pc \in {"read", "end", "done"} : task' = [task EXCEPT !["stdout"] = pc]
    BY <1>8 DEF ReadReply, ReadNobodys, StdoutNext
  <2>3. task'["stdout"] = "auth" => task["stdout"] = "auth"
    BY <2>2, TaskMoves DEF Readers, Emitting
  <2>4. call' = call \/ \E pc \in {"verify", "idle", "fail"} : call' = [call EXCEPT !.pc = pc]
    BY <1>8 DEF ReadReply, ReadNobodys, StdoutNext
  <2>5. call'.pc = "drain" => call.pc = "drain"
    BY <2>4 DEF TypeOK, TaskType
  <2>. QED  BY <2>1, <2>3, <2>5 DEF Quiet
<1>9. CASE WatchExit \/ ExitEnd
  <2>1. UNCHANGED <<turn, cancel, buffers, results, held, call, asked, lost, stopped, strays, unread>>
    BY <1>9 DEF WatchExit, ExitEnd, ghosts
  <2>2. \E pc \in {"emit", "done"} : task' = [task EXCEPT !["exit"] = pc]
    BY <1>9 DEF WatchExit, ExitEnd
  <2>3. task'["stdout"] = task["stdout"]
    BY <2>2, TaskMoves DEF Readers, Emitting
  <2>. QED  BY <2>1, <2>3 DEF Quiet
<1>. QED  BY <1>2, <1>4, <1>5, <1>6, <1>7, <1>8, <1>9 DEF StdoutStep, ExitStep

LEMMA TurnSteps ==
  ASSUME TypeInv, [Next]_vars
  PROVE  Quiet \/ (\E r : Closing(r)) \/ SendUser \/ WriteFails \/ Interrupt
<1>. USE DEF TypeInv
<1>0. turn \in 0 .. asked
  BY AskedNat
<1>1. CASE \/ ChildStep \/ ChildPrintsLate \/ ChildExits \/ ChildReaped \/ StderrComplains
           \/ UNCHANGED vars
  <2>1. UNCHANGED <<state, task, held, call, results, ghosts>>
    BY <1>1 DEF ChildStep, ChildGreets, ChildTakes, ChildCancels, ChildPrints, ChildPrintsLate,
     ChildExits, ChildReaped, StderrComplains, vars
  <2>. QED  BY <2>1 DEF Quiet, state, ghosts
<1>2. CASE VerifyTools \/ Written \/ CancelFails \/ KillChild \/ Killed \/ ReaderOver
           \/ SpawnFails \/ SpawnBreaks \/ Close
  <2>1. /\ UNCHANGED <<state, task, held, results, asked, stopped, strays, unread>>
        /\ lost' = lost \/ Lose({turn})
    BY <1>2 DEF VerifyTools, Written, CancelFails, KillChild, Killed, ReaderOver, SpawnFails,
       SpawnBreaks, Close, ghosts
  <2>2. call'.pc = "drain" => call.pc = "drain"
    <3>1. call \in [pc : Pcs, op : Ops, at : Readers]
      BY CallMoves
    <3>2. CASE VerifyTools \/ CancelFails \/ SpawnFails \/ KillChild
      BY <3>1, <3>2 DEF VerifyTools, CancelFails, SpawnFails, KillChild
    <3>3. CASE Written \/ SpawnBreaks \/ Close
      <4>1. call' = NoCall \/ call' = Gone \/ call' = [NoCall EXCEPT !.pc = "kill", !.op = "close"]
        BY <3>3 DEF Written, SpawnBreaks, Close
      <4>2. NoCall.pc = "idle" /\ Gone.pc = "gone"
            /\ [NoCall EXCEPT !.pc = "kill", !.op = "close"].pc = "kill"
        BY DEF NoCall, Gone
      <4>. QED  BY <4>1, <4>2
    <3>4. CASE Killed \/ ReaderOver
      BY <3>1, <3>4 DEF Killed, ReaderOver, NoCall, Gone
    <3>. QED  BY <1>2, <3>2, <3>3, <3>4
  <2>. QED  BY <1>0, <2>1, <2>2 DEF Quiet, state
<1>3. CASE CancelReader
  <2>1. call.at \in Readers
    BY DEF TypeOK, TaskType
  <2>2. /\ UNCHANGED <<state, held, call, results, ghosts>>
        /\ task'["stdout"] = "auth" => task["stdout"] = "auth"
    BY <1>3, <2>1, TaskMoves DEF CancelReader, Readers, Emitting
  <2>. QED  BY <2>2 DEF Quiet, state, ghosts
<1>4. ASSUME NEW r \in Readers, ReaderDies(r)
      PROVE  Quiet
  <2>1. /\ UNCHANGED <<state, held, results, asked, stopped, strays, unread>>
        /\ lost' = lost \/ Lose({turn})
        /\ task'["stdout"] = "auth" => task["stdout"] = "auth"
    BY <1>4, TaskMoves DEF ReaderDies, Readers, Emitting
  <2>2. call'.pc = "drain" => call.pc = "drain"
    BY <1>4 DEF ReaderDies, Gone, NoCall
  <2>. QED  BY <1>0, <2>1, <2>2 DEF Quiet, state
<1>5. CASE Overrun \/ SkipLine
  <2>1. /\ UNCHANGED <<state, held, call, results, asked, stopped, strays>>
        /\ lost' = lost \/ \E t \in 0 .. asked : Lose({t})
        /\ task'["stdout"] # "auth"
    BY <1>5, DropFacts
  <2>. QED  BY <2>1 DEF Quiet, state
<1>. QED  BY <1>1, <1>2, <1>3, <1>4, <1>5, ReadersTurns DEF Next, CallStep

-----------------------------------------------------------------------------
(* Every turn that was asked for is open, lost, or has its result; the     *)
(* open one has none yet.                                                  *)
Counted ==
  /\ \A u \in 1 .. asked : u = turn \/ u \in lost \/ HasResult(u)
  /\ turn # 0 => ~HasResult(turn)
  /\ \A i \in DOMAIN results : results[i].id \in 0 .. asked

(* _cancel_active is that of the open turn, which the owner interrupted.   *)
CancelOwn ==
  /\ cancel => turn # 0 /\ turn \in stopped
  /\ call.pc = "drain" => ~cancel

(* The buffers hold what the open turn said, and what turns said that had  *)
(* ended or were refused; while the error of a turn waits for the report   *)
(* of its authentication, they hold what that turn said.                   *)
Foreign == {0} \cup strays \cup lost
BuffersOwn ==
  /\ {buffers.usage, buffers.complete} \subseteq {turn} \cup Foreign
  /\ task["stdout"] = "auth" => {buffers.usage, buffers.complete} \subseteq {held} \cup Foreign

TurnInv ==
  Counted /\ CancelOwn /\ InterruptedOnRequest /\ BuffersOwn /\ ResultIsOwn

(* One result more.                                                        *)
LEMMA OneMore ==
  ASSUME TypeOK, NEW r, results' = Append(results, r)
  PROVE  /\ DOMAIN results \subseteq Nat
         /\ Len(results) + 1 \in DOMAIN results' /\ results'[Len(results) + 1] = r
         /\ \A i \in DOMAIN results : i \in DOMAIN results' /\ results'[i] = results[i]
         /\ \A i \in DOMAIN results' : i \in DOMAIN results \/ results'[i] = r
         /\ \A t : HasResult(t)' <=> HasResult(t) \/ t = r.id
<1>1. results \in Seq(Result) /\ Len(results) \in Nat /\ DOMAIN results = 1 .. Len(results)
  BY LenProperties DEF TypeOK, HistoryType
<1>2. /\ DOMAIN results' = 1 .. Len(results) + 1
      /\ results'[Len(results) + 1] = r
      /\ \A i \in 1 .. Len(results) : results'[i] = results[i]
  BY <1>1
<1>3. /\ Len(results) + 1 \in DOMAIN results'
      /\ \A i \in DOMAIN results : i \in DOMAIN results' /\ results'[i] = results[i]
      /\ \A i \in DOMAIN results' : i \in DOMAIN results \/ results'[i] = r
  BY <1>1, <1>2
<1>4. \A t : HasResult(t)' <=> HasResult(t) \/ t = r.id
  BY <1>2, <1>3 DEF HasResult
<1>. QED  BY <1>1, <1>2, <1>3, <1>4

(* A step that leaves the results alone keeps what is said of them.        *)
LEMMA SameResults ==
  ASSUME results' = results, stopped \subseteq stopped', strays \subseteq strays',
         lost \subseteq lost'
  PROVE  /\ \A t : HasResult(t)' <=> HasResult(t)
         /\ InterruptedOnRequest => InterruptedOnRequest'
         /\ ResultIsOwn => ResultIsOwn'
         /\ Foreign \subseteq Foreign'
<1>1. \A t : HasResult(t)' <=> HasResult(t)
  BY DEF HasResult
<1>2. InterruptedOnRequest => InterruptedOnRequest'
  BY DEF InterruptedOnRequest
<1>3. ResultIsOwn => ResultIsOwn'
  BY DEF ResultIsOwn
<1>. QED  BY <1>1, <1>2, <1>3 DEF Foreign

LEMMA QuietTurns ==
  ASSUME TypeInv, TurnInv, Quiet
  PROVE  TurnInv'
<1>. USE DEF TypeInv, TurnInv
<1>1. /\ UNCHANGED <<turn, cancel, results, asked, stopped>>
      /\ lost \subseteq lost' /\ strays \subseteq strays'
      /\ call'.pc = "drain" => call.pc = "drain"
  BY DEF Quiet, Lose
<1>2. Counted'
  BY <1>1, SameResults DEF Counted
<1>3. CancelOwn'
  BY <1>1 DEF CancelOwn
<1>4. InterruptedOnRequest' /\ ResultIsOwn'
  BY <1>1, SameResults
<1>5. BuffersOwn'
  <2>1. Foreign \subseteq Foreign'
    BY <1>1 DEF Foreign
  <2>2. CASE ReadEvent
    <3>1. Takes(EventKinds) /\ asked' = asked /\ buffers \in [usage : Nat, complete : Nat]
      BY <2>2 DEF ReadEvent, TypeOK, TurnType
    <3>2. Next1.turn \in Nat /\ task["stdout"] = "read"
      BY <3>1, TakesType, AskedNat
    <3>3. {buffers'.usage, buffers'.complete}
            \subseteq {buffers.usage, buffers.complete} \cup {turn} \cup strays'
      <4>1. CASE Stale
        BY <2>2, <4>1 DEF ReadEvent
      <4>2. CASE ~Stale
        <5>1. buffers' = Buffer(buffers, Next1) /\ Next1.turn \in {turn} \cup strays'
          BY <2>2, <4>2 DEF ReadEvent, Stale
        <5>. QED  BY <3>1, <3>2, <5>1, BufferType
      <4>. QED  BY <4>1, <4>2
    <3>4. {buffers'.usage, buffers'.complete} \subseteq {turn} \cup Foreign'
      BY <2>1, <3>3 DEF BuffersOwn, Foreign
    <3>5. task'["stdout"] # "auth"
      <4>1. PICK pc \in {"emit", "read"} : task' = [task EXCEPT !["stdout"] = pc]
        <5>1. task = [task EXCEPT !["stdout"] = "read"]
          BY <3>2 DEF TypeOK, TaskType
        <5>. QED  BY <2>2, <5>1 DEF ReadEvent
      <4>. QED  BY <4>1, TaskMoves DEF Readers, Emitting
    <3>. QED  BY <1>1, <3>4, <3>5 DEF BuffersOwn
  <2>3. CASE ~ReadEvent
    <3>1. /\ buffers' = buffers
          /\ task'["stdout"] = "auth" =>
               (task["stdout"] = "auth" /\ held' = held) \/ held' = turn
      BY <2>3 DEF Quiet
    <3>2. {buffers.usage, buffers.complete} \subseteq {turn} \cup Foreign'
      BY <2>1 DEF BuffersOwn
    <3>3. task'["stdout"] = "auth" =>
            {buffers.usage, buffers.complete} \subseteq {held'} \cup Foreign'
      BY <2>1, <3>1, <3>2 DEF BuffersOwn
    <3>. QED  BY <1>1, <3>1, <3>2, <3>3 DEF BuffersOwn
  <2>. QED  BY <2>2, <2>3
<1>. QED  BY <1>2, <1>3, <1>4, <1>5

LEMMA ClosingTurns ==
  ASSUME TypeInv, TurnInv, NEW r, Closing(r)
  PROVE  TurnInv'
<1>. USE DEF TypeInv, TurnInv
<1>1. /\ results' = Append(results, r) /\ r \in Result /\ r.id = turn
      /\ turn' = 0 /\ cancel' = FALSE /\ buffers' = Fresh
      /\ UNCHANGED <<call, asked, lost, stopped, strays, unread>>
      /\ r.by = "answer" /\ r.subtype = "interrupted" => cancel /\ r.of = turn
      /\ {r.usage, r.complete} \subseteq {buffers.usage, buffers.complete, r.of}
      /\ turn \in {0, r.of} \/ (task["stdout"] = "auth" /\ held = r.of)
  BY DEF Closing
<1>2. Counted'
  <2>1. \A u \in 1 .. asked' : u \in lost' \/ HasResult(u)'
    BY <1>1, OneMore DEF Counted
  <2>2. \A i \in DOMAIN results' : results'[i].id \in 0 .. asked'
    BY <1>1, OneMore, AskedNat DEF Counted
  <2>. QED  BY <1>1, <2>1, <2>2 DEF Counted
<1>3. CancelOwn'
  BY <1>1 DEF CancelOwn
<1>4. InterruptedOnRequest'
  <2>1. r.by = "answer" /\ r.subtype = "interrupted" => r.of \in stopped
    BY <1>1 DEF CancelOwn
  <2>. QED  BY <1>1, <2>1, OneMore DEF InterruptedOnRequest
<1>5. ResultIsOwn'
  <2>1. {buffers.usage, buffers.complete} \subseteq {r.of} \cup Foreign
    BY <1>1 DEF BuffersOwn, Foreign
  <2>2. {r.usage, r.complete} \subseteq {0, r.of} \cup strays \cup lost
    BY <1>1, <2>1 DEF Foreign
  <2>. QED  BY <1>1, <2>2, OneMore DEF ResultIsOwn
<1>6. BuffersOwn'
  BY <1>1 DEF BuffersOwn, Foreign, Fresh
<1>. QED  BY <1>2, <1>3, <1>4, <1>5, <1>6

LEMMA CallTurns ==
  ASSUME TypeInv, TurnInv, SendUser \/ WriteFails \/ Interrupt
  PROVE  TurnInv'
<1>. USE DEF TypeInv, TurnInv
<1>1. UNCHANGED <<results, buffers, task, held, strays>> /\ stopped \subseteq stopped'
      /\ lost \subseteq lost'
  BY DEF SendUser, WriteFails, Interrupt, Lose
<1>2. InterruptedOnRequest' /\ ResultIsOwn' /\ \A t : HasResult(t)' <=> HasResult(t)
  BY <1>1, SameResults
<1>3. asked \in Nat /\ Foreign \subseteq Foreign'
  BY <1>1, AskedNat DEF Foreign
<1>4. CASE SendUser
  <2>1. asked' = asked + 1 /\ turn' = asked + 1 /\ turn = 0 /\ cancel' = cancel
    BY <1>4 DEF SendUser, TypeOK, TurnType
  <2>2. ~HasResult(turn')
    BY <1>3, <2>1 DEF HasResult, Counted
  <2>3. Counted'
    BY <1>1, <1>2, <1>3, <2>1, <2>2 DEF Counted
  <2>4. CancelOwn' /\ BuffersOwn'
    BY <1>1, <1>3, <2>1 DEF CancelOwn, BuffersOwn, Foreign
  <2>. QED  BY <1>2, <2>3, <2>4
<1>5. CASE WriteFails
  <2>1. turn' = 0 /\ Lose({turn}) /\ call.pc = "drain" /\ call' = NoCall
        /\ UNCHANGED <<cancel, asked>>
    BY <1>5 DEF WriteFails
  <2>2. turn # 0 => turn \in lost'
    BY <2>1 DEF Lose, Counted
  <2>3. Counted'
    BY <1>1, <1>2, <2>1, <2>2 DEF Counted
  <2>4. CancelOwn'
    BY <2>1 DEF CancelOwn, NoCall
  <2>5. BuffersOwn'
    BY <1>1, <1>3, <2>1, <2>2 DEF BuffersOwn, Foreign
  <2>. QED  BY <1>2, <2>3, <2>4, <2>5
<1>6. CASE Interrupt
  <2>1. turn # 0 /\ stopped' = stopped \cup {turn} /\ UNCHANGED <<turn, asked, lost>>
        /\ call' = [NoCall EXCEPT !.pc = "cancel"]
    BY <1>6 DEF Interrupt
  <2>2. call'.pc = "cancel"
    BY <2>1 DEF NoCall
  <2>3. Counted' /\ CancelOwn' /\ BuffersOwn'
    BY <1>1, <1>2, <1>3, <2>1, <2>2 DEF Counted, CancelOwn, BuffersOwn, Foreign
  <2>. QED  BY <1>2, <2>3
<1>. QED  BY <1>4, <1>5, <1>6

LEMMA InitTurns == Init => TurnInv
BY DEF Init, TurnInv, Counted, CancelOwn, InterruptedOnRequest, BuffersOwn, ResultIsOwn, Foreign,
   Fresh, NoCall, Readers, HasResult

LEMMA TurnInduction == Spec => [](TypeInv /\ TurnInv)
<1>1. Init => TypeInv /\ TurnInv
  BY InitType, InitTurns
<1>2. TypeInv /\ TurnInv /\ [Next]_vars => (TypeInv /\ TurnInv)'
  BY NextType, TurnSteps, QuietTurns, ClosingTurns, CallTurns
<1>. QED  BY <1>1, <1>2, PTL DEF Spec

(* A response is reported as an interruption only of a turn the owner      *)
(* interrupted: _cancel_active ends with its turn, in whatever order the   *)
(* response, the abort, the exit and the call of the owner come.           *)
THEOREM InterruptionsAreAsked == Spec => []InterruptedOnRequest
BY TurnInduction, PTL DEF TurnInv

(* The usage and the turn_id a result carries are those of its own turn,   *)
(* but for the events of ended and of refused turns named there.           *)
THEOREM ResultsAreTheirOwn == Spec => []ResultIsOwn
BY TurnInduction, PTL DEF TurnInv

-----------------------------------------------------------------------------
(* The turns have the life TurnLifecycle promises, step by step.           *)

LEMMA StatusSame ==
  ASSUME UNCHANGED <<asked, lost>>, \A t : HasResult(t)' <=> HasResult(t)
  PROVE  [t \in 1 .. MaxTurns |-> Status(t)]' = [t \in 1 .. MaxTurns |-> Status(t)]
BY DEF Status

(* A turn is lost, or has ended before.  It is the open one.               *)
LEMMA StatusLost ==
  ASSUME TypeInv, TurnInv, NEW id \in 0 .. asked, Lose({id}), asked' = asked, results' = results
  PROVE  [Turns!Next]_([t \in 1 .. MaxTurns |-> Status(t)])
<1>. DEFINE st == [t \in 1 .. MaxTurns |-> Status(t)]
<1>1. asked \in 0 .. MaxTurns /\ asked \in Nat /\ MaxTurns \in Nat
  BY AskedNat DEF TypeInv, TypeOK, HistoryType
<1>2. \A t : HasResult(t)' <=> HasResult(t)
  BY DEF HasResult
<1>3. CASE id = 0 \/ id \in lost \/ HasResult(id)
  <2>1. lost' = lost
    BY <1>3 DEF Lose
  <2>. QED  BY <1>2, <2>1, StatusSame
<1>4. CASE id # 0 /\ id \notin lost /\ ~HasResult(id)
  <2>1. lost' = lost \cup {id}
    BY <1>4 DEF Lose
  <2>2. id \in 1 .. MaxTurns /\ id <= asked
    BY <1>1, <1>4
  <2>3. st[id] = "open"
    BY <1>1, <1>4, <2>2 DEF Status
  <2>4. st' = [t \in 1 .. MaxTurns |-> IF t \in {id} THEN "lost" ELSE st[t]]
    BY <1>1, <1>2, <2>1, <2>2 DEF Status
  <2>5. {id} \in SUBSET (1 .. MaxTurns)
    BY <2>2
  <2>6. Turns!Lose({id})
    BY <2>3, <2>4, <2>5 DEF Turns!Lose, Turns!Become
  <2>. QED  BY <2>5, <2>6 DEF Turns!Next
<1>. QED  BY <1>3, <1>4

LEMMA StatusClosed ==
  ASSUME TypeInv, TurnInv, NEW r, Closing(r)
  PROVE  [Turns!Next]_([t \in 1 .. MaxTurns |-> Status(t)])
<1>. DEFINE st == [t \in 1 .. MaxTurns |-> Status(t)]
<1>1. asked \in 0 .. MaxTurns /\ turn \in 0 .. asked /\ MaxTurns \in Nat
  BY AskedNat DEF TypeInv, TypeOK, HistoryType
<1>2. UNCHANGED <<asked, lost>> /\ \A t : HasResult(t)' <=> HasResult(t) \/ t = turn
  BY OneMore DEF Closing, TypeInv
<1>3. CASE turn = 0 \/ turn \in lost
  <2>1. \A t \in 1 .. MaxTurns : Status(t)' = Status(t)
    BY <1>1, <1>2, <1>3 DEF Status
  <2>. QED  BY <2>1
<1>4. CASE turn # 0 /\ turn \notin lost
  <2>1. ~HasResult(turn) /\ turn \in 1 .. MaxTurns /\ turn <= asked
    BY <1>1, <1>4 DEF TurnInv, Counted
  <2>2. st[turn] = "open"
    BY <1>1, <1>4, <2>1 DEF Status
  <2>3. st' = [t \in 1 .. MaxTurns |-> IF t \in {turn} THEN "closed" ELSE st[t]]
    BY <1>1, <1>2, <1>4, <2>1 DEF Status
  <2>4. Turns!Close(turn)
    BY <2>2, <2>3 DEF Turns!Close, Turns!Unanswered, Turns!Become
  <2>. QED  BY <2>1, <2>4 DEF Turns!Next
<1>. QED  BY <1>3, <1>4

LEMMA StatusAccepted ==
  ASSUME TypeInv, TurnInv, SendUser
  PROVE  [Turns!Next]_([t \in 1 .. MaxTurns |-> Status(t)])
<1>. DEFINE st == [t \in 1 .. MaxTurns |-> Status(t)]
            n == asked + 1
<1>1. /\ asked \in Nat /\ MaxTurns \in Nat /\ n \in 1 .. MaxTurns /\ n > asked
      /\ turn = 0 /\ asked' = n /\ results' = results
      /\ lost' = lost \/ Lose({n})
  BY AskedNat DEF SendUser, TypeInv, TypeOK, TurnType
<1>2. n \notin lost /\ ~HasResult(n)
  BY <1>1 DEF TypeInv, TypeOK, HistoryType, TurnInv, Counted, HasResult
<1>3. \A t : HasResult(t)' <=> HasResult(t)
  BY <1>1 DEF HasResult
<1>4. st[n] = "none" /\ \A u \in 1 .. MaxTurns : st[u] # "open"
  BY <1>1, <1>2 DEF Status, TurnInv, Counted
<1>5. CASE lost' = lost
  <2>1. st' = [t \in 1 .. MaxTurns |-> IF t \in {n} THEN "open" ELSE st[t]]
    BY <1>1, <1>2, <1>3, <1>5 DEF Status
  <2>2. Turns!Accept(n)
    BY <1>4, <2>1 DEF Turns!Accept, Turns!Become
  <2>. QED  BY <1>1, <2>2 DEF Turns!Next
<1>6. CASE Lose({n})
  <2>1. lost' = lost \cup {n}
    BY <1>1, <1>2, <1>6 DEF Lose
  <2>2. st' = [t \in 1 .. MaxTurns |-> IF t \in {n} THEN "lost" ELSE st[t]]
    BY <1>1, <1>2, <1>3, <2>1 DEF Status
  <2>3. Turns!Lose({n}) /\ {n} \in SUBSET (1 .. MaxTurns)
    BY <1>1, <1>4, <2>2 DEF Turns!Lose, Turns!Become
  <2>. QED  BY <2>3 DEF Turns!Next
<1>. QED  BY <1>1, <1>5, <1>6

LEMMA StepsMap ==
  ASSUME TypeInv, TurnInv, [Next]_vars
  PROVE  [Turns!Next]_([t \in 1 .. MaxTurns |-> Status(t)])
<1>1. CASE Quiet
  <2>1. UNCHANGED <<asked, results>> /\ (lost' = lost \/ \E t \in 0 .. asked : Lose({t}))
    BY <1>1 DEF Quiet
  <2>2. \A t : HasResult(t)' <=> HasResult(t)
    BY <2>1 DEF HasResult
  <2>. QED  BY <2>1, <2>2, StatusSame, StatusLost
<1>2. CASE WriteFails
  BY <1>2, StatusLost, AskedNat DEF WriteFails, TypeInv
<1>3. CASE Interrupt
  <2>1. UNCHANGED <<asked, lost, results>>
    BY <1>3 DEF Interrupt
  <2>2. \A t : HasResult(t)' <=> HasResult(t)
    BY <2>1 DEF HasResult
  <2>. QED  BY <2>1, <2>2, StatusSame
<1>. QED  BY <1>1, <1>2, <1>3, TurnSteps, StatusClosed, StatusAccepted

LEMMA InitMaps == Init => Turns!Init
BY CodexAssumption DEF Init, Turns!Init, Status

(* Whatever goes wrong, a turn is accepted only when no other is open, it  *)
(* is closed or lost once, and it is never replaced in silence by the next *)
(* one: each step of the backend is a step of TurnLifecycle or none of it. *)
THEOREM TurnsLiveOnce == Spec => Turns!Steps
<1>1. TypeInv /\ TurnInv /\ [Next]_vars => [Turns!Next]_([t \in 1 .. MaxTurns |-> Status(t)])
  BY StepsMap
<1>. QED  BY <1>1, InitMaps, TurnInduction, PTL DEF Spec, Turns!Steps

-----------------------------------------------------------------------------
(* What is on the pipes, and in which order.  These operators and lemmas   *)
(* are about any pipe: a sequence of records with a kind and a turn.       *)
Finals == {"answer", "error", "turn_aborted"}
Aborts == {"turn_aborted"}
Asking == {"codex", "codex-reply"}

Has(s, ks, t) == \E i \in DOMAIN s : s[i].kind \in ks /\ s[i].turn = t

(* No abort of a turn comes behind another end of that turn.               *)
Ordered(s) ==
  \A i, j \in DOMAIN s :
    i < j /\ s[i].kind \in Finals /\ s[j].kind \in Aborts => s[i].turn # s[j].turn

(* A turn is asked for once.                                               *)
Distinct(s) ==
  \A i, j \in DOMAIN s :
    s[i].kind \in Asking /\ s[j].kind \in Asking /\ s[i].turn = s[j].turn => i = j

(* The end of a turn is the last that is said of it.                       *)
LastFinal(s) == \A i \in DOMAIN s : s[i].kind \in Finals => i = Len(s)

LEMMA TailElements ==
  ASSUME NEW S, NEW s \in Seq(S), s # <<>>
  PROVE  /\ Len(s) \in Nat /\ Len(s) >= 1 /\ DOMAIN s = 1 .. Len(s) /\ Head(s) = s[1]
         /\ Tail(s) \in Seq(S) /\ Len(Tail(s)) = Len(s) - 1
         /\ DOMAIN Tail(s) = 1 .. Len(s) - 1
         /\ \A i \in DOMAIN Tail(s) : i + 1 \in DOMAIN s /\ Tail(s)[i] = s[i + 1]
         /\ \A i \in DOMAIN s : i = 1 \/ (i - 1 \in DOMAIN Tail(s) /\ s[i] = Tail(s)[i - 1])
<1>1. Tail(s) \in Seq(S) /\ Len(Tail(s)) = Len(s) - 1 /\ Head(s) = s[1]
      /\ \A i \in 1 .. Len(s) - 1 : Tail(s)[i] = s[i + 1]
  BY HeadTailProperties
<1>2. Len(s) \in Nat /\ DOMAIN s = 1 .. Len(s) /\ Len(s) >= 1
  BY LenProperties, EmptySeq
<1>3. DOMAIN Tail(s) = 1 .. Len(s) - 1
  BY <1>1, LenProperties
<1>. QED  BY <1>1, <1>2, <1>3

LEMMA AppendElements ==
  ASSUME NEW S, NEW s \in Seq(S), NEW l \in S
  PROVE  /\ Len(s) \in Nat /\ DOMAIN s = 1 .. Len(s) /\ DOMAIN Append(s, l) = 1 .. Len(s) + 1
         /\ \A i \in 1 .. Len(s) : Append(s, l)[i] = s[i]
         /\ Append(s, l)[Len(s) + 1] = l
<1>1. Append(s, l) \in Seq(S) /\ Len(Append(s, l)) = Len(s) + 1
      /\ \A i \in 1 .. Len(s) : Append(s, l)[i] = s[i]
      /\ Append(s, l)[Len(s) + 1] = l
  BY AppendProperties
<1>2. Len(s) \in Nat /\ DOMAIN s = 1 .. Len(s) /\ DOMAIN Append(s, l) = 1 .. Len(s) + 1
  BY <1>1, LenProperties
<1>. QED  BY <1>1, <1>2

LEMMA AppendPipe ==
  ASSUME NEW S, NEW s \in Seq(S), NEW l \in S
  PROVE  /\ \A ks, t : Has(Append(s, l), ks, t) <=> Has(s, ks, t) \/ (l.kind \in ks /\ l.turn = t)
         /\ Ordered(s) /\ (l.kind \in Aborts => ~Has(s, Finals, l.turn)) => Ordered(Append(s, l))
         /\ Distinct(s) /\ (l.kind \in Asking => ~Has(s, Asking, l.turn))
              => Distinct(Append(s, l))
<1>. DEFINE a == Append(s, l)
<1>1. /\ Len(s) \in Nat /\ DOMAIN s = 1 .. Len(s) /\ DOMAIN a = 1 .. Len(s) + 1
      /\ \A i \in 1 .. Len(s) : a[i] = s[i]
      /\ a[Len(s) + 1] = l
  BY AppendElements
<1>. HIDE DEF a
<1>2. ASSUME NEW ks, NEW t
      PROVE  Has(a, ks, t) <=> Has(s, ks, t) \/ (l.kind \in ks /\ l.turn = t)
  <2>1. Has(s, ks, t) => Has(a, ks, t)
    BY <1>1 DEF Has
  <2>2. l.kind \in ks /\ l.turn = t => Has(a, ks, t)
    <3>1. Len(s) + 1 \in DOMAIN a
      BY <1>1
    <3>. QED  BY <1>1, <3>1 DEF Has
  <2>3. Has(a, ks, t) => Has(s, ks, t) \/ (l.kind \in ks /\ l.turn = t)
    <3>1. \A i \in DOMAIN a : i \in DOMAIN s \/ a[i] = l
      BY <1>1
    <3>. QED  BY <1>1, <3>1 DEF Has
  <2>. QED  BY <2>1, <2>2, <2>3
<1>3. Ordered(s) /\ (l.kind \in Aborts => ~Has(s, Finals, l.turn)) => Ordered(a)
  <2>1. SUFFICES ASSUME Ordered(s), l.kind \in Aborts => ~Has(s, Finals, l.turn),
                        NEW i \in DOMAIN a, NEW j \in DOMAIN a, i < j,
                        a[i].kind \in Finals, a[j].kind \in Aborts
                 PROVE  a[i].turn # a[j].turn
    BY DEF Ordered
  <2>2. i \in DOMAIN s /\ a[i] = s[i]
    BY <1>1, <2>1
  <2>3. CASE j \in DOMAIN s
    BY <1>1, <2>1, <2>2, <2>3 DEF Ordered
  <2>4. CASE j \notin DOMAIN s
    <3>1. a[j] = l
      BY <1>1, <2>4
    <3>. QED  BY <2>1, <2>2, <3>1 DEF Has
  <2>. QED  BY <2>3, <2>4
<1>4. Distinct(s) /\ (l.kind \in Asking => ~Has(s, Asking, l.turn)) => Distinct(a)
  <2>1. SUFFICES ASSUME Distinct(s), l.kind \in Asking => ~Has(s, Asking, l.turn),
                        NEW i \in DOMAIN a, NEW j \in DOMAIN a,
                        a[i].kind \in Asking, a[j].kind \in Asking, a[i].turn = a[j].turn
                 PROVE  i = j
    BY DEF Distinct
  <2>2. \A k \in DOMAIN a : (k \in DOMAIN s /\ a[k] = s[k]) \/ (k = Len(s) + 1 /\ a[k] = l)
    BY <1>1
  <2>3. CASE i \in DOMAIN s /\ j \in DOMAIN s
    BY <1>1, <2>1, <2>3 DEF Distinct
  <2>4. CASE i \notin DOMAIN s /\ j \notin DOMAIN s
    BY <2>2, <2>4
  <2>5. CASE i \in DOMAIN s /\ j \notin DOMAIN s
    <3>1. a[j] = l /\ a[i] = s[i]
      BY <1>1, <2>2, <2>5
    <3>. QED  BY <2>1, <2>5, <3>1 DEF Has
  <2>6. CASE i \notin DOMAIN s /\ j \in DOMAIN s
    <3>1. a[i] = l /\ a[j] = s[j]
      BY <1>1, <2>2, <2>6
    <3>. QED  BY <2>1, <2>6, <3>1 DEF Has
  <2>. QED  BY <2>3, <2>4, <2>5, <2>6
<1>. QED  BY <1>2, <1>3, <1>4 DEF a

LEMMA TailPipe ==
  ASSUME NEW S, NEW s \in Seq(S), s # <<>>
  PROVE  /\ \A ks, t : Has(s, ks, t)
              <=> Has(Tail(s), ks, t) \/ (Head(s).kind \in ks /\ Head(s).turn = t)
         /\ Ordered(s) => Ordered(Tail(s))
         /\ Ordered(s) /\ Head(s).kind \in Finals => ~Has(Tail(s), Aborts, Head(s).turn)
         /\ Distinct(s) => Distinct(Tail(s))
         /\ Distinct(s) /\ Head(s).kind \in Asking => ~Has(Tail(s), Asking, Head(s).turn)
         /\ LastFinal(s) => LastFinal(Tail(s))
         /\ LastFinal(s) /\ Head(s).kind \in Finals => Len(s) = 1 /\ Tail(s) = <<>>
<1>. DEFINE u == Tail(s)
<1>1. /\ Len(s) \in Nat /\ Len(s) >= 1 /\ DOMAIN s = 1 .. Len(s) /\ Head(s) = s[1]
      /\ u \in Seq(S) /\ Len(u) = Len(s) - 1
      /\ DOMAIN u = 1 .. Len(s) - 1
      /\ \A i \in DOMAIN u : i + 1 \in DOMAIN s /\ u[i] = s[i + 1]
      /\ \A i \in DOMAIN s : i = 1 \/ (i - 1 \in DOMAIN u /\ s[i] = u[i - 1])
  BY TailElements
<1>. HIDE DEF u
<1>2. 1 \in DOMAIN s /\ \A i \in DOMAIN u : i \in Nat /\ 1 < i + 1 /\ i + 1 # 1
  BY <1>1
<1>3. ASSUME NEW ks, NEW t
      PROVE  Has(s, ks, t) <=> Has(u, ks, t) \/ (Head(s).kind \in ks /\ Head(s).turn = t)
  BY <1>1, <1>2 DEF Has
<1>4. Ordered(s) => Ordered(u)
  <2>1. \A i, j \in DOMAIN u : i < j => i + 1 < j + 1
    BY <1>1
  <2>. QED  BY <1>1, <2>1 DEF Ordered
<1>5. Ordered(s) /\ Head(s).kind \in Finals => ~Has(u, Aborts, Head(s).turn)
  <2>1. SUFFICES ASSUME Ordered(s), Head(s).kind \in Finals, NEW i \in DOMAIN u,
                        u[i].kind \in Aborts
                 PROVE  u[i].turn # Head(s).turn
    BY DEF Has
  <2>2. i + 1 \in DOMAIN s /\ 1 < i + 1 /\ s[i + 1] = u[i] /\ 1 \in DOMAIN s /\ s[1] = Head(s)
    BY <1>1, <1>2
  <2>. QED  BY <2>1, <2>2 DEF Ordered
<1>6. Distinct(s) => Distinct(u)
  <2>1. \A i, j \in DOMAIN u : i + 1 = j + 1 => i = j
    BY <1>1
  <2>. QED  BY <1>1, <2>1 DEF Distinct
<1>7. Distinct(s) /\ Head(s).kind \in Asking => ~Has(u, Asking, Head(s).turn)
  BY <1>1, <1>2 DEF Distinct, Has
<1>8. LastFinal(s) => LastFinal(u)
  BY <1>1 DEF LastFinal
<1>9. LastFinal(s) /\ Head(s).kind \in Finals => Len(s) = 1 /\ u = <<>>
  <2>1. LastFinal(s) /\ Head(s).kind \in Finals => Len(s) = 1
    BY <1>1, <1>2 DEF LastFinal
  <2>2. Len(s) = 1 => u = <<>>
    BY <1>1, EmptySeq
  <2>. QED  BY <2>1, <2>2
<1>. QED  BY <1>3, <1>4, <1>5, <1>6, <1>7, <1>8, <1>9 DEF u

LEMMA EmptyPipe ==
  /\ \A ks, t : ~Has(<<>>, ks, t)
  /\ Ordered(<<>>) /\ Distinct(<<>>) /\ LastFinal(<<>>)
BY DEF Has, Ordered, Distinct, LastFinal

(* What a script says: the kinds of it that come, for one turn.            *)
LEMMA SaysHas ==
  ASSUME NEW n \in Nat, NEW ks \in Seq(TurnKinds), NEW t \in 1 .. n
  PROVE  \A kinds, u : Has(Says(ks, t), kinds, u)
           <=> u = t /\ \E i \in DOMAIN ks : ks[i] \in kinds
<1>1. /\ Says(ks, t) \in Seq(Lines(n)) /\ Len(Says(ks, t)) = Len(ks)
      /\ \A i \in 1 .. Len(ks) : Says(ks, t)[i] = [kind |-> ks[i], turn |-> t]
  BY SaysType
<1>2. DOMAIN ks = 1 .. Len(ks) /\ DOMAIN Says(ks, t) = 1 .. Len(ks)
  BY <1>1, LenProperties
<1>3. \A i \in DOMAIN ks : Says(ks, t)[i].kind = ks[i] /\ Says(ks, t)[i].turn = t
  BY <1>1, <1>2
<1>. QED  BY <1>2, <1>3 DEF Has

(* The child answers last, and aborts no turn unless it is asked to.       *)
Told(ks) ==
  \A i \in DOMAIN ks :
    ks[i] # "turn_aborted" /\ (ks[i] \in {"answer", "error"} => i = Len(ks))

LEMMA ShortTold ==
  /\ Told(<<>>)
  /\ \A a : a # "turn_aborted" => Told(<<a>>)
  /\ \A a, b : a \notin {"turn_aborted", "answer", "error"} /\ b # "turn_aborted" => Told(<<a, b>>)
<1>1. Told(<<>>)
  BY DEF Told
<1>2. ASSUME NEW a, a # "turn_aborted"
      PROVE  Told(<<a>>)
  <2>1. DOMAIN <<a>> = {1} /\ <<a>>[1] = a /\ Len(<<a>>) = 1
    OBVIOUS
  <2>. QED  BY <1>2, <2>1 DEF Told
<1>3. ASSUME NEW a, NEW b, a \notin {"turn_aborted", "answer", "error"}, b # "turn_aborted"
      PROVE  Told(<<a, b>>)
  <2>1. /\ DOMAIN <<a, b>> = {1, 2} /\ Len(<<a, b>>) = 2
        /\ <<a, b>>[1] = a /\ <<a, b>>[2] = b
    OBVIOUS
  <2>. QED  BY <1>3, <2>1 DEF Told
<1>. QED  BY <1>1, <1>2, <1>3

LEMMA ScriptsTold ==
  /\ \A s \in Scripts : Told(s) /\ Told(<<"session_configured">> \o s)
  /\ \A s \in Afterwards : Told(s)
<1>1. \A s \in Scripts : Told(s)
  BY ShortTold DEF Scripts
<1>2. ASSUME NEW s \in Scripts
      PROVE  Told(<<"session_configured">> \o s)
  <2>1. s \in Seq(TurnKinds) /\ <<"session_configured">> \in Seq(TurnKinds)
    BY ScriptsTyped, KindsKnown
  <2>. DEFINE c == <<"session_configured">> \o s
  <2>2. /\ Len(c) = Len(s) + 1 /\ Len(s) \in Nat /\ DOMAIN s = 1 .. Len(s)
        /\ c \in Seq(TurnKinds)
        /\ c[1] = "session_configured"
        /\ \A i \in 1 .. Len(c) : i > 1 => c[i] = s[i - 1]
    BY <2>1, ConcatProperties, LenProperties
  <2>3. DOMAIN c = 1 .. Len(s) + 1
    BY <2>2, LenProperties
  <2>. HIDE DEF c
  <2>4. ASSUME NEW i \in DOMAIN c, i # 1
        PROVE  c[i] # "turn_aborted" /\ (c[i] \in {"answer", "error"} => i = Len(c))
    <3>1. i - 1 \in DOMAIN s /\ c[i] = s[i - 1]
      BY <2>2, <2>3, <2>4
    <3>2. s[i - 1] # "turn_aborted" /\ (s[i - 1] \in {"answer", "error"} => i - 1 = Len(s))
      BY <1>1, <3>1 DEF Told
    <3>. QED  BY <2>2, <2>3, <3>1, <3>2
  <2>5. Told(c)
    BY <2>2, <2>4 DEF Told
  <2>. QED  BY <2>5 DEF c
<1>3. \A s \in Afterwards : Told(s)
  BY ShortTold DEF Afterwards
<1>. QED  BY <1>1, <1>2, <1>3

LEMMA ToldSays ==
  ASSUME NEW n \in Nat, NEW ks \in Seq(TurnKinds), NEW t \in 1 .. n, Told(ks)
  PROVE  /\ LastFinal(Says(ks, t))
         /\ \A u : ~Has(Says(ks, t), Aborts, u)
<1>1. /\ Says(ks, t) \in Seq(Lines(n)) /\ Len(Says(ks, t)) = Len(ks)
      /\ \A i \in 1 .. Len(ks) : Says(ks, t)[i] = [kind |-> ks[i], turn |-> t]
  BY SaysType
<1>2. DOMAIN ks = 1 .. Len(ks) /\ DOMAIN Says(ks, t) = 1 .. Len(ks)
  BY <1>1, LenProperties
<1>3. LastFinal(Says(ks, t))
  BY <1>1, <1>2 DEF LastFinal, Told, Finals
<1>4. \A u : ~Has(Says(ks, t), Aborts, u)
  BY SaysHas DEF Told, Aborts
<1>. QED  BY <1>3, <1>4

-----------------------------------------------------------------------------
(* A turn goes down the pipes once: it is asked for, worked on, and ended  *)
(* by a response or an abort, and what ends it is the last of it that can  *)
(* close a turn.  A late response comes when no abort of it is to come.    *)
Requested(t) == Has(stdin, Asking, t)
MayAbort(t) == Requested(t) \/ work = t \/ Has(stdout, Aborts, t) \/ Has(say, Aborts, t)

PipesOrdered ==
  /\ Distinct(stdin) /\ Ordered(stdout) /\ LastFinal(say)
  /\ work # 0 => ~Requested(work)
  /\ \A t \in 1 .. asked :
       /\ Has(stdout, Finals, t) => ~Requested(t) /\ work # t /\ ~Has(say, Aborts, t)
       /\ Has(say, Finals, t) => ~Requested(t)
       /\ Has(say, Aborts, t) => work # t
       /\ Has(late, TurnKinds, t) => ~Requested(t) /\ work # t
       /\ ~Has(late, Aborts, t)

(* A step makes no abort possible that was not.                            *)
NoNewAbort == \A t \in 1 .. asked : MayAbort(t)' => MayAbort(t)

LEMMA AbortsAreFinal ==
  /\ \A s, t : Has(s, Aborts, t) => Has(s, Finals, t) /\ Has(s, TurnKinds, t)
  /\ \A s, t : Has(s, Finals, t) => Has(s, TurnKinds, t)
<1>1. Aborts \subseteq Finals /\ Finals \subseteq TurnKinds
  BY KindsKnown DEF Aborts, Finals
<1>. QED  BY <1>1 DEF Has

LEMMA PipesUnchanged ==
  ASSUME PipesOrdered, UNCHANGED <<stdin, stdout, work, say, late, asked>>
  PROVE  PipesOrdered' /\ NoNewAbort
BY DEF PipesOrdered, NoNewAbort, Requested, MayAbort

LEMMA PipesGone ==
  ASSUME TypeInv, PipesOrdered, NEW how, Dies(how), asked' = asked
  PROVE  PipesOrdered' /\ NoNewAbort
<1>1. stdin' = <<>> /\ work' = 0 /\ say' = <<>> /\ late' = <<>> /\ stdout' = stdout
  BY DEF Dies
<1>2. \A t \in 1 .. asked : t # 0
  BY AskedNat DEF TypeInv
<1>. QED  BY <1>1, <1>2, EmptyPipe DEF PipesOrdered, NoNewAbort, Requested, MayAbort

LEMMA HeadGonePipes ==
  ASSUME TypeInv, PipesOrdered, stdout # <<>>, stdout' = Tail(stdout),
         UNCHANGED <<stdin, work, say, late, asked>>
  PROVE  /\ PipesOrdered' /\ NoNewAbort
         /\ \A t : Next1.kind \in Finals /\ t = Next1.turn => ~MayAbort(t)'
         /\ Next1.kind \in Aborts => MayAbort(Next1.turn)
<1>1. stdout \in Seq(Lines(asked)) /\ asked \in Nat
  BY AskedNat DEF TypeInv, PipesKnown
<1>2. /\ \A ks, t : Has(stdout, ks, t)
           <=> Has(stdout', ks, t) \/ (Next1.kind \in ks /\ Next1.turn = t)
      /\ Ordered(stdout) => Ordered(stdout')
      /\ Ordered(stdout) /\ Next1.kind \in Finals => ~Has(stdout', Aborts, Next1.turn)
  BY <1>1, TailPipe DEF Next1
<1>3. Next1.kind \in Finals => Next1.turn \in 1 .. asked
  <2>1. Next1 \in Lines(asked)
    BY <1>1, PipeEnds DEF Next1
  <2>. QED  BY <2>1 DEF Lines, Finals
<1>4. PipesOrdered' /\ NoNewAbort
  BY <1>1, <1>2 DEF PipesOrdered, NoNewAbort, Requested, MayAbort
<1>5. ASSUME Next1.kind \in Finals, NEW t, t = Next1.turn
      PROVE  ~MayAbort(t)'
  BY <1>1, <1>2, <1>3, <1>5 DEF PipesOrdered, Requested, MayAbort
<1>6. Next1.kind \in Aborts => MayAbort(Next1.turn)
  BY <1>2 DEF MayAbort
<1>. QED  BY <1>4, <1>5, <1>6

LEMMA TakesPipes ==
  ASSUME TypeInv, PipesOrdered, NEW kinds, Takes(kinds), asked' = asked
  PROVE  /\ PipesOrdered' /\ NoNewAbort
         /\ \A t : Next1.kind \in Finals /\ t = Next1.turn => ~MayAbort(t)'
         /\ Next1.kind \in Aborts => MayAbort(Next1.turn)
<1>1. stdout # <<>> /\ stdout' = Tail(stdout) /\ UNCHANGED <<stdin, work, say, late>>
  BY DEF Takes
<1>. QED  BY <1>1, HeadGonePipes

(* The turn of a line or a request, when it is about one.                  *)
LEMMA LineTurn ==
  ASSUME NEW n \in Nat
  PROVE  /\ \A l \in Lines(n) : l.kind \in TurnKinds => l.turn \in 1 .. n
         /\ \A r \in Requests(n) : r.kind \in {"codex", "codex-reply", "cancel"} => r.turn \in 1 .. n
         /\ \A s \in Seq(Lines(n)) : \A ks, t : Has(s, ks, t) /\ ks \subseteq TurnKinds => t \in 1 .. n
         /\ \A s \in Seq(Requests(n)) : \A t : Has(s, Asking, t) => t \in 1 .. n
<1>1. \A l \in Lines(n) : l.kind \in TurnKinds => l.turn \in 1 .. n
  BY KindsKnown DEF Lines
<1>2. \A r \in Requests(n) : r.kind \in {"codex", "codex-reply", "cancel"} => r.turn \in 1 .. n
  BY DEF Requests
<1>3. \A s \in Seq(Lines(n)) : \A i \in DOMAIN s : s[i] \in Lines(n)
  BY LenProperties
<1>4. \A s \in Seq(Requests(n)) : \A i \in DOMAIN s : s[i] \in Requests(n)
  BY LenProperties
<1>5. \A s \in Seq(Lines(n)) : \A ks, t : Has(s, ks, t) /\ ks \subseteq TurnKinds => t \in 1 .. n
  BY <1>1, <1>3 DEF Has
<1>6. \A s \in Seq(Requests(n)) : \A t : Has(s, Asking, t) => t \in 1 .. n
  BY <1>2, <1>4 DEF Has, Asking
<1>. QED  BY <1>1, <1>2, <1>5, <1>6

LEMMA Pipes ==
  ASSUME TypeInv
  PROVE  /\ stdin \in Seq(Requests(asked)) /\ stdout \in Seq(Lines(asked))
         /\ say \in Seq(Lines(asked)) /\ late \in Seq(Lines(asked))
         /\ work \in 0 .. asked /\ asked \in Nat
BY AskedNat DEF TypeInv, PipesKnown

LEMMA GreetsPipes ==
  ASSUME TypeInv, PipesOrdered, ChildGreets
  PROVE  PipesOrdered' /\ NoNewAbort
<1>1. PICK k \in {"reply", "refusal", "framing"} :
        stdout' = Append(stdout, [kind |-> k, turn |-> 0])
  BY DEF ChildGreets
<1>. DEFINE l == [kind |-> k, turn |-> 0]
<1>2. stdout' = Append(stdout, l) /\ l \in Lines(asked) /\ l.turn = 0
      /\ l.kind \notin Finals /\ l.kind \notin Aborts
  BY <1>1 DEF Lines, Finals, Aborts
<1>. HIDE DEF l
<1>3. /\ stdin # <<>> /\ stdin' = Tail(stdin) /\ Head(stdin).kind \notin Asking
      /\ UNCHANGED <<work, say, late, asked>>
  BY DEF ChildGreets, Asking, ghosts
<1>4. /\ Distinct(stdin) => Distinct(stdin')
      /\ \A t : Has(stdin', Asking, t) <=> Has(stdin, Asking, t)
  BY <1>3, Pipes, TailPipe
<1>5. /\ Ordered(stdout) => Ordered(stdout')
      /\ \A t : Has(stdout', Finals, t) <=> Has(stdout, Finals, t)
      /\ \A t : Has(stdout', Aborts, t) <=> Has(stdout, Aborts, t)
  BY <1>2, Pipes, AppendPipe
<1>. QED  BY <1>3, <1>4, <1>5 DEF PipesOrdered, NoNewAbort, Requested, MayAbort

LEMMA TakesWorkPipes ==
  ASSUME TypeInv, PipesOrdered, ChildTakes
  PROVE  PipesOrdered' /\ NoNewAbort
<1>1. /\ stdin # <<>> /\ stdin' = Tail(stdin) /\ Head(stdin).kind \in Asking
      /\ work = 0 /\ work' = Head(stdin).turn
      /\ say = <<>>
      /\ UNCHANGED <<stdout, late, asked>>
  BY DEF ChildTakes, Asking, ghosts
<1>2. work' \in 1 .. asked
  <2>1. Head(stdin) \in Requests(asked)
    BY <1>1, Pipes, PipeEnds
  <2>. QED  BY <1>1, <2>1, Pipes, LineTurn DEF Asking
<1>3. PICK ks \in Seq(TurnKinds) : say' = Says(ks, work') /\ Told(ks)
  BY ScriptsTyped, ScriptsTold DEF ChildTakes
<1>4. /\ LastFinal(say') /\ \A u : ~Has(say', Aborts, u)
      /\ \A u, kinds : Has(say', kinds, u) => u = work'
  BY <1>2, <1>3, Pipes, ToldSays, SaysHas
<1>5. /\ Distinct(stdin) => Distinct(stdin')
      /\ \A t : Has(stdin', Asking, t) => Has(stdin, Asking, t)
      /\ Has(stdin, Asking, work')
      /\ Distinct(stdin) => ~Has(stdin', Asking, work')
  BY <1>1, Pipes, TailPipe
<1>. QED  BY <1>1, <1>2, <1>4, <1>5 DEF PipesOrdered, NoNewAbort, Requested, MayAbort

LEMMA CancelsPipes ==
  ASSUME TypeInv, PipesOrdered, ChildCancels
  PROVE  PipesOrdered' /\ NoNewAbort
<1>1. /\ stdin # <<>> /\ stdin' = Tail(stdin) /\ Head(stdin).kind \notin Asking
      /\ UNCHANGED <<stdout, asked>>
  BY DEF ChildCancels, Asking, ghosts
<1>2. /\ Distinct(stdin) => Distinct(stdin')
      /\ \A t : Has(stdin', Asking, t) <=> Has(stdin, Asking, t)
  BY <1>1, Pipes, TailPipe
<1>3. CASE UNCHANGED <<work, say, late>>
  BY <1>1, <1>2, <1>3 DEF PipesOrdered, NoNewAbort, Requested, MayAbort
<1>4. CASE ~UNCHANGED <<work, say, late>>
  <2>1. /\ work = Head(stdin).turn /\ work' = 0 /\ say' = Says(<<"turn_aborted">>, work)
        /\ \E s \in Afterwards : late' = Says(s, work)
    BY <1>4 DEF ChildCancels
  <2>2. work \in 1 .. asked
    <3>1. Head(stdin) \in Requests(asked) /\ Head(stdin).kind = "cancel"
      BY <1>1, Pipes, PipeEnds DEF ChildCancels
    <3>. QED  BY <2>1, <3>1, Pipes, LineTurn
  <2>3. PICK s \in Seq(TurnKinds) : late' = Says(s, work) /\ Told(s)
    BY <2>1, ScriptsTyped, ScriptsTold
  <2>4. /\ \A u : ~Has(late', Aborts, u)
        /\ \A u, kinds : Has(late', kinds, u) => u = work
    BY <2>2, <2>3, Pipes, ToldSays, SaysHas
  <2>5. /\ \A u, kinds : Has(say', kinds, u) => u = work
        /\ LastFinal(say')
    <3>1. PICK ks \in Seq(TurnKinds) : ks = <<"turn_aborted">> /\ Len(ks) = 1
      BY ScriptsTyped
    <3>2. say' = Says(ks, work)
      BY <2>1, <3>1
    <3>3. Len(say') = 1 /\ say' \in Seq(Lines(asked))
      BY <2>2, <3>1, <3>2, Pipes, SaysType
    <3>4. LastFinal(say')
      BY <3>3, LenProperties DEF LastFinal
    <3>. QED  BY <2>2, <3>2, <3>4, Pipes, SaysHas
  <2>6. \A t \in 1 .. asked : t # 0
    BY Pipes
  <2>. QED  BY <1>1, <1>2, <2>1, <2>2, <2>4, <2>5, <2>6
            DEF PipesOrdered, NoNewAbort, Requested, MayAbort
<1>. QED  BY <1>3, <1>4

LEMMA PrintsPipes ==
  ASSUME TypeInv, PipesOrdered, ChildPrints
  PROVE  PipesOrdered' /\ NoNewAbort
<1>. DEFINE l == Head(say)
<1>1. /\ say # <<>> /\ stdout' = Append(stdout, l) /\ say' = Tail(say)
      /\ work' = IF Len(say) = 1 THEN 0 ELSE work
      /\ UNCHANGED <<stdin, late, asked>>
  BY DEF ChildPrints, ghosts
<1>2. l \in Lines(asked)
  BY <1>1, Pipes, PipeEnds
<1>. HIDE DEF l
<1>3. /\ \A ks, t : Has(say, ks, t) <=> Has(say', ks, t) \/ (l.kind \in ks /\ l.turn = t)
      /\ LastFinal(say) => LastFinal(say')
      /\ LastFinal(say) /\ l.kind \in Finals => Len(say) = 1 /\ say' = <<>>
  BY <1>1, Pipes, TailPipe DEF l
<1>4. /\ \A ks, t : Has(stdout', ks, t) <=> Has(stdout, ks, t) \/ (l.kind \in ks /\ l.turn = t)
      /\ Ordered(stdout) /\ (l.kind \in Aborts => ~Has(stdout, Finals, l.turn))
           => Ordered(stdout')
  BY <1>1, <1>2, Pipes, AppendPipe
<1>5. l.kind \in Finals \cup Aborts => l.turn \in 1 .. asked
  <2>1. Finals \cup Aborts \subseteq TurnKinds
    BY KindsKnown DEF Finals, Aborts
  <2>. QED  BY <1>2, <2>1, Pipes, LineTurn
<1>6. \A t \in 1 .. asked : t # 0
  BY Pipes
<1>7. Ordered(stdout')
  BY <1>3, <1>4, <1>5 DEF PipesOrdered
<1>8. l.kind \in Finals => work' = 0 /\ say' = <<>>
  BY <1>1, <1>3 DEF PipesOrdered
<1>9. work' = 0 \/ work' = work
  BY <1>1
<1>10. PipesOrdered'
  <2>1. ASSUME NEW t \in 1 .. asked, Has(stdout', Finals, t)
        PROVE  ~Requested(t)' /\ work' # t /\ ~Has(say', Aborts, t)
    <3>1. CASE Has(stdout, Finals, t)
      BY <1>1, <1>3, <1>6, <1>9, <3>1 DEF PipesOrdered, Requested
    <3>2. CASE l.kind \in Finals /\ l.turn = t
      BY <1>1, <1>3, <1>6, <1>8, <3>2, EmptyPipe DEF PipesOrdered, Requested
    <3>. QED  BY <1>4, <2>1, <3>1, <3>2
  <2>. QED  BY <1>1, <1>3, <1>6, <1>7, <1>9, <2>1 DEF PipesOrdered, Requested
<1>11. NoNewAbort
  BY <1>1, <1>3, <1>4, <1>6, <1>9 DEF NoNewAbort, MayAbort, Requested
<1>. QED  BY <1>10, <1>11

LEMMA PrintsLatePipes ==
  ASSUME TypeInv, PipesOrdered, ChildPrintsLate
  PROVE  PipesOrdered' /\ NoNewAbort
<1>. DEFINE l == Head(late)
<1>1. /\ late # <<>> /\ stdout' = Append(stdout, l) /\ late' = Tail(late)
      /\ UNCHANGED <<stdin, work, say, asked>>
      /\ \A i \in DOMAIN say : say[i].turn # l.turn
  BY DEF ChildPrintsLate, ghosts
<1>2. l \in Lines(asked)
  BY <1>1, Pipes, PipeEnds
<1>. HIDE DEF l
<1>3. \A ks, t : Has(late, ks, t) <=> Has(late', ks, t) \/ (l.kind \in ks /\ l.turn = t)
  BY <1>1, Pipes, TailPipe DEF l
<1>4. /\ \A ks, t : Has(stdout', ks, t) <=> Has(stdout, ks, t) \/ (l.kind \in ks /\ l.turn = t)
      /\ Ordered(stdout) /\ (l.kind \in Aborts => ~Has(stdout, Finals, l.turn))
           => Ordered(stdout')
  BY <1>1, <1>2, Pipes, AppendPipe
<1>5. /\ l.kind \in Aborts => l.kind \in Finals
      /\ l.kind \in Finals => l.turn \in 1 .. asked /\ l.kind \in TurnKinds
  <2>1. Aborts \subseteq Finals /\ Finals \subseteq TurnKinds
    BY KindsKnown DEF Finals, Aborts
  <2>. QED  BY <1>2, <2>1, Pipes, LineTurn
<1>6. l.kind \notin Aborts
  BY <1>3, <1>5 DEF PipesOrdered
<1>7. ~Has(say, Aborts, l.turn)
  BY <1>1 DEF Has
<1>. QED  BY <1>1, <1>3, <1>4, <1>5, <1>6, <1>7 DEF PipesOrdered, NoNewAbort, MayAbort, Requested

(* The daemon writes a request: a new turn, or no turn.                    *)
LEMMA WritesPipes ==
  ASSUME TypeInv, PipesOrdered, NEW r, Write(r), asked' \in {asked, asked + 1},
         r \in Requests(asked'), UNCHANGED <<stdout, work, say, late>>,
         r.kind \in Asking => r.turn = asked + 1 /\ asked' = asked + 1
  PROVE  /\ PipesOrdered' /\ NoNewAbort
         /\ fate # "runs" => \A t \in 1 .. asked' : MayAbort(t)' => t \in 1 .. asked
<1>1. asked \in Nat /\ asked' \in Nat /\ stdin \in Seq(Requests(asked'))
  BY Pipes, PipesTyped
<1>2. /\ \A t : Has(stdin, Asking, t) => t \in 1 .. asked
      /\ \A ks, t : ks \subseteq TurnKinds =>
           /\ Has(stdout, ks, t) => t \in 1 .. asked
           /\ Has(say, ks, t) => t \in 1 .. asked
           /\ Has(late, ks, t) => t \in 1 .. asked
      /\ work \in 0 .. asked
  BY Pipes, LineTurn
<1>3. Finals \subseteq TurnKinds /\ Aborts \subseteq TurnKinds /\ TurnKinds \subseteq TurnKinds
  BY KindsKnown DEF Finals, Aborts
<1>4. asked + 1 \notin 1 .. asked /\ asked + 1 # work /\ asked + 1 # 0
  BY <1>1, <1>2
<1>5. /\ Distinct(stdin')
      /\ \A t : Has(stdin', Asking, t) => Has(stdin, Asking, t) \/ t = asked + 1
      /\ fate # "runs" => stdin' = stdin
  <2>1. CASE fate = "runs"
    <3>1. stdin' = Append(stdin, r)
      BY <2>1 DEF Write
    <3>2. r.kind \in Asking => ~Has(stdin, Asking, r.turn)
      BY <1>2, <1>4
    <3>. QED  BY <1>1, <2>1, <3>1, <3>2, AppendPipe DEF PipesOrdered
  <2>2. CASE fate # "runs"
    BY <2>2 DEF Write, PipesOrdered
  <2>. QED  BY <2>1, <2>2
<1>6. ASSUME NEW t \in 1 .. asked', t \notin 1 .. asked
      PROVE  /\ t = asked + 1 /\ ~Has(stdout, Finals, t) /\ ~Has(say, Finals, t)
             /\ ~Has(say, Aborts, t) /\ ~Has(late, TurnKinds, t) /\ ~Has(late, Aborts, t)
             /\ ~Has(stdout, Aborts, t) /\ ~Has(stdin, Asking, t)
  BY <1>1, <1>2, <1>3, <1>6
<1>7. PipesOrdered'
  <2>1. ASSUME NEW t \in 1 .. asked'
        PROVE  /\ Has(stdout, Finals, t) => ~Has(stdin', Asking, t) /\ work # t /\ ~Has(say, Aborts, t)
               /\ Has(say, Finals, t) => ~Has(stdin', Asking, t)
               /\ Has(say, Aborts, t) => work # t
               /\ Has(late, TurnKinds, t) => ~Has(stdin', Asking, t) /\ work # t
               /\ ~Has(late, Aborts, t)
    <3>1. CASE t \in 1 .. asked
      BY <1>4, <1>5, <3>1 DEF PipesOrdered, Requested
    <3>2. CASE t \notin 1 .. asked
      BY <1>6, <3>2
    <3>. QED  BY <3>1, <3>2
  <2>. QED  BY <1>4, <1>5, <2>1 DEF PipesOrdered, Requested
<1>8. NoNewAbort
  BY <1>4, <1>5 DEF NoNewAbort, MayAbort, Requested
<1>9. ASSUME fate # "runs", NEW t \in 1 .. asked', MayAbort(t)'
      PROVE  t \in 1 .. asked
  BY <1>4, <1>5, <1>6, <1>9 DEF MayAbort, Requested
<1>. QED  BY <1>7, <1>8, <1>9

(* A write that fails or succeeds, or no write at all.                     *)
LEMMA PipeSteps ==
  ASSUME TypeInv, PipesOrdered, [Next]_vars
  PROVE  /\ PipesOrdered' /\ NoNewAbort
         /\ \A t : SendUser /\ fate # "runs" /\ t = asked + 1 => ~MayAbort(t)'
<1>0. asked \in Nat
  BY Pipes
<1>1. CASE ChildStep \/ ChildPrintsLate
  <2>1. ~SendUser
    BY <1>0, <1>1 DEF SendUser, ChildStep, ChildGreets, ChildTakes, ChildCancels, ChildPrints,
       ChildPrintsLate, ghosts
  <2>. QED  BY <1>1, <2>1, GreetsPipes, TakesWorkPipes, CancelsPipes, PrintsPipes, PrintsLatePipes
            DEF ChildStep
<1>2. CASE ChildExits \/ KillChild
  <2>1. asked' = asked /\ \E how \in {"clean", "failed", "killed"} : Dies(how)
    BY <1>2 DEF ChildExits, KillChild, ghosts
  <2>2. ~SendUser
    BY <1>0, <2>1 DEF SendUser
  <2>. QED  BY <2>1, <2>2, PipesGone
<1>3. CASE SendUser
  <2>1. /\ Write([kind |-> Tool, turn |-> asked + 1]) /\ asked' = asked + 1
        /\ UNCHANGED <<stdout, work, say, late>>
    BY <1>3 DEF SendUser
  <2>. DEFINE r == [kind |-> Tool, turn |-> asked + 1]
  <2>2. Write(r) /\ r.turn = asked + 1 /\ r \in Requests(asked')
    <3>1. Tool \in {"codex", "codex-reply"} /\ asked + 1 \in 1 .. asked'
      BY <1>0, <2>1 DEF Tool
    <3>. QED  BY <2>1, <3>1 DEF Requests
  <2>. HIDE DEF r
  <2>3. /\ PipesOrdered' /\ NoNewAbort
        /\ fate # "runs" => \A t \in 1 .. asked' : MayAbort(t)' => t \in 1 .. asked
    BY <2>1, <2>2, WritesPipes
  <2>4. asked + 1 \in 1 .. asked' /\ asked + 1 \notin 1 .. asked
    BY <1>0, <2>1
  <2>5. ASSUME fate # "runs", NEW t, t = asked + 1
        PROVE  ~MayAbort(t)'
    BY <2>3, <2>4, <2>5
  <2>. QED  BY <2>3, <2>5
<1>4. CASE Interrupt \/ VerifyTools
  <2>1. PICK r : /\ Write(r) /\ asked' = asked /\ r.kind \notin Asking
                 /\ r \in Requests(asked)
                 /\ UNCHANGED <<stdout, work, say, late>>
    <3>1. CASE Interrupt
      <4>1. turn \in 1 .. asked
        BY <3>1, AskedNat DEF Interrupt, TypeInv
      <4>2. [kind |-> "cancel", turn |-> turn] \in Requests(asked)
        BY <4>1 DEF Requests
      <4>. QED  BY <3>1, <4>2 DEF Interrupt, Asking
    <3>2. CASE VerifyTools
      <4>1. Hello \in Requests(asked) /\ Hello.kind \notin Asking
        BY DEF Hello, Requests, Asking
      <4>. QED  BY <3>2, <4>1 DEF VerifyTools, ghosts
    <3>. QED  BY <1>4, <3>1, <3>2
  <2>2. PipesOrdered' /\ NoNewAbort
    BY <2>1, WritesPipes
  <2>3. ~SendUser
    BY <1>0, <2>1 DEF SendUser
  <2>. QED  BY <2>2, <2>3
<1>5. CASE ReadReply \/ ReadEvent \/ ReadAbort \/ ReadResponse \/ ReadNobodys
  <2>1. asked' = asked /\ \E kinds : Takes(kinds)
    BY <1>5 DEF ReadReply, ReadEvent, ReadAbort, ReadResponse, ReadNobodys, ghosts
  <2>2. ~SendUser
    BY <1>0, <2>1 DEF SendUser
  <2>. QED  BY <2>1, <2>2, TakesPipes
<1>6. CASE \/ ChildReaped \/ StderrComplains \/ AuthReported \/ StdoutNext \/ ExitStep
           \/ Written \/ WriteFails \/ CancelFails \/ Killed \/ ReaderOver
           \/ SpawnFails \/ SpawnBreaks \/ Close \/ CancelReader
           \/ (\E r \in Readers : ReaderDies(r)) \/ UNCHANGED vars
  <2>1. UNCHANGED <<stdin, stdout, work, say, late, asked>>
    BY <1>6 DEF ChildReaped, StderrComplains, AuthReported, StdoutNext, ExitStep, WatchExit,
       ExitClose, ExitEnd, Written, WriteFails, CancelFails, Killed, ReaderOver, SpawnFails,
       SpawnBreaks, Close, CancelReader, ReaderDies, vars, child, ghosts
  <2>2. ~SendUser
    BY <1>0, <2>1 DEF SendUser
  <2>. QED  BY <2>1, <2>2, PipesUnchanged
<1>7. CASE Overrun \/ SkipLine
  <2>1. /\ stdout # <<>> /\ stdout' = Tail(stdout)
        /\ UNCHANGED <<stdin, work, say, late, asked>>
    BY <1>7, DropFacts
  <2>2. ~SendUser
    BY <1>0, <2>1 DEF SendUser
  <2>. QED  BY <2>1, <2>2, HeadGonePipes
<1>. QED  BY <1>1, <1>2, <1>3, <1>4, <1>5, <1>6, <1>7 DEF Next, StdoutStep, CallStep

LEMMA InitPipes == Init => PipesOrdered
<1>. SUFFICES ASSUME Init PROVE PipesOrdered
  OBVIOUS
<1>1. /\ stdin = <<Hello>> /\ stdout = <<>> /\ say = <<>> /\ late = <<>> /\ work = 0 /\ asked = 0
  BY DEF Init
<1>2. Distinct(stdin)
  BY <1>1 DEF Distinct, Hello, Asking
<1>3. \A t \in 1 .. asked : FALSE
  BY <1>1
<1>. QED  BY <1>1, <1>2, <1>3, EmptyPipe DEF PipesOrdered

-----------------------------------------------------------------------------
(* A turn that the child has ended is over for good: nothing on the pipes  *)
(* can end it again, it is not the open one, and no report about it is     *)
(* under way.  A turn that can still be ended is open, was lost, or was    *)
(* closed by the exit watcher.                                             *)
ChildEnded(t) == \E i \in DOMAIN results : results[i].by # "exit" /\ results[i].of = t
ExitEnded(t) == \E i \in DOMAIN results : results[i].by = "exit" /\ results[i].id = t
Reporting(t) == task["stdout"] = "auth" /\ held = t

Spent ==
  /\ \A t \in 1 .. asked :
       /\ ChildEnded(t) => ~MayAbort(t) /\ turn # t /\ ~Reporting(t)
       /\ Reporting(t) => ~MayAbort(t)
  /\ \A i \in DOMAIN results :
       results[i].by # "exit" => results[i].of \in 1 .. asked

(* While a report is under way its turn can be replaced only because the   *)
(* child has exited, and the turn that takes its place is never sent.      *)
Reported ==
  /\ task["stdout"] = "auth" => held \in 1 .. asked
  /\ task["stdout"] = "auth" /\ turn # held =>
       fate # "runs" /\ (turn # 0 => ~MayAbort(turn))

(* The exit watcher closes the last turn of the backend.                   *)
ExitLast == \A i \in DOMAIN results : results[i].by = "exit" => reaped /\ turn = 0

Answerable ==
  \A t \in 1 .. asked :
    MayAbort(t) \/ Reporting(t) => t = turn \/ t \in lost \/ ExitEnded(t)

EndInv == PipesOrdered /\ Spent /\ Reported /\ ExitLast /\ Answerable /\ ChildClosesItsTurn

(* The results, as they are added.                                         *)
LEMMA EndedMore ==
  ASSUME TypeOK, NEW r, results' = Append(results, r)
  PROVE  /\ \A t : ChildEnded(t)' <=> ChildEnded(t) \/ (r.by # "exit" /\ r.of = t)
         /\ \A t : ExitEnded(t)' <=> ExitEnded(t) \/ (r.by = "exit" /\ r.id = t)
BY OneMore DEF ChildEnded, ExitEnded

LEMMA EndedSame ==
  ASSUME results' = results
  PROVE  \A t : (ChildEnded(t)' <=> ChildEnded(t)) /\ (ExitEnded(t)' <=> ExitEnded(t))
BY DEF ChildEnded, ExitEnded

(* The step that adds a result keeps ChildClosesItsTurn when the result    *)
(* is about its turn, and the child has ended that turn in no other way.   *)
LEMMA ClosesMore ==
  ASSUME TypeOK, ChildClosesItsTurn, NEW r, results' = Append(results, r),
         lost \subseteq lost',
         r.by # "exit" =>
           /\ ~ChildEnded(r.of)
           /\ r.id = r.of \/ r.of \in lost \/ (r.id = 0 /\ ExitEnded(r.of))
  PROVE  ChildClosesItsTurn'
<1>. DEFINE n == Len(results) + 1
<1>1. /\ n \in DOMAIN results' /\ results'[n] = r /\ DOMAIN results = 1 .. n - 1 /\ n \in Nat
      /\ DOMAIN results' = 1 .. n
      /\ \A i \in DOMAIN results : results'[i] = results[i]
  <2>1. results \in Seq(Result)
    BY DEF TypeOK, HistoryType
  <2>2. Len(results) \in Nat /\ DOMAIN results = 1 .. Len(results)
        /\ DOMAIN results' = 1 .. Len(results) + 1
        /\ \A i \in 1 .. Len(results) : results'[i] = results[i]
        /\ results'[Len(results) + 1] = r
    BY <2>1, LenProperties
  <2>. QED  BY <2>2
<1>. HIDE DEF n
<1>2. SUFFICES ASSUME NEW i \in DOMAIN results', results'[i].by # "exit"
               PROVE  /\ \/ results'[i].id = results'[i].of \/ results'[i].of \in lost'
                         \/ /\ results'[i].id = 0
                            /\ \E j \in 1 .. i - 1 :
                                 results'[j].by = "exit" /\ results'[j].id = results'[i].of
                      /\ \A j \in DOMAIN results' :
                           results'[j].by # "exit" /\ results'[j].of = results'[i].of => i = j
  BY DEF ChildClosesItsTurn
<1>3. \/ results'[i].id = results'[i].of \/ results'[i].of \in lost'
      \/ /\ results'[i].id = 0
         /\ \E j \in 1 .. i - 1 : results'[j].by = "exit" /\ results'[j].id = results'[i].of
  <2>1. CASE i = n
    <3>1. r.id = r.of \/ r.of \in lost \/ (r.id = 0 /\ ExitEnded(r.of))
      BY <1>1, <1>2, <2>1
    <3>2. ASSUME ExitEnded(r.of)
          PROVE  \E j \in 1 .. i - 1 : results'[j].by = "exit" /\ results'[j].id = r.of
      <4>1. PICK j \in DOMAIN results : results[j].by = "exit" /\ results[j].id = r.of
        BY <3>2 DEF ExitEnded
      <4>. QED  BY <1>1, <2>1, <4>1
    <3>. QED  BY <1>1, <2>1, <3>1, <3>2
  <2>2. CASE i # n
    <3>1. i \in DOMAIN results /\ results'[i] = results[i] /\ \A j \in 1 .. i - 1 : j \in DOMAIN results
      BY <1>1, <2>2
    <3>2. \/ results[i].id = results[i].of \/ results[i].of \in lost
          \/ /\ results[i].id = 0
             /\ \E j \in 1 .. i - 1 : results[j].by = "exit" /\ results[j].id = results[i].of
      BY <1>2, <3>1 DEF ChildClosesItsTurn
    <3>3. CASE \E j \in 1 .. i - 1 : results[j].by = "exit" /\ results[j].id = results[i].of
      <4>1. PICK j \in 1 .. i - 1 : results[j].by = "exit" /\ results[j].id = results[i].of
        BY <3>3
      <4>2. results'[j] = results[j]
        BY <1>1, <3>1
      <4>. QED  BY <3>1, <3>2, <4>1, <4>2
    <3>. QED  BY <3>1, <3>2, <3>3
  <2>. QED  BY <2>1, <2>2
<1>4. ASSUME NEW j \in DOMAIN results', results'[j].by # "exit", results'[j].of = results'[i].of
      PROVE  i = j
  <2>1. \A k \in DOMAIN results' : k = n \/ (k \in DOMAIN results /\ results'[k] = results[k])
    BY <1>1
  <2>2. CASE i = n /\ j # n
    <3>1. ChildEnded(r.of)
      BY <1>1, <1>4, <2>1, <2>2 DEF ChildEnded
    <3>. QED  BY <1>1, <1>2, <2>2, <3>1
  <2>3. CASE i # n /\ j = n
    <3>1. ChildEnded(r.of)
      BY <1>1, <1>2, <1>4, <2>1, <2>3 DEF ChildEnded
    <3>. QED  BY <1>1, <1>4, <2>3, <3>1
  <2>4. CASE i # n /\ j # n
    BY <1>2, <1>4, <2>1, <2>4 DEF ChildClosesItsTurn
  <2>. QED  BY <2>2, <2>3, <2>4
<1>. QED  BY <1>3, <1>4

(* An exit stays one, and is known to stay.                                *)
LEMMA ExitStays ==
  ASSUME [Next]_vars
  PROVE  /\ reaped => reaped'
         /\ fate # "runs" => fate' # "runs"
<1>1. CASE ChildStep \/ ChildPrintsLate \/ StderrComplains \/ ChildExits \/ ChildReaped
  BY <1>1 DEF ChildStep, ChildGreets, ChildTakes, ChildCancels, ChildPrints, ChildPrintsLate,
     StderrComplains, ChildExits, ChildReaped, Dies, child
<1>2. CASE StdoutStep \/ Overrun \/ ExitStep
  BY <1>2 DEF StdoutStep, SkipLine, Overrun, Drops, ReadReply, ReadEvent, ReadAbort, ReadResponse, AuthReported, ReadNobodys,
     StdoutNext, Takes, ExitStep, WatchExit, ExitClose, ExitEnd, child
<1>3. CASE \/ SpawnFails \/ SpawnBreaks \/ SendUser \/ Interrupt \/ Close \/ CallStep
           \/ CancelReader \/ (\E r \in Readers : ReaderDies(r)) \/ UNCHANGED vars
  BY <1>3 DEF SpawnFails, SpawnBreaks, SendUser, Interrupt, Close, CallStep, VerifyTools, Written,
     WriteFails, CancelFails, KillChild, Killed, ReaderOver, Dies, CancelReader, ReaderDies, vars,
     child
<1>. QED  BY <1>1, <1>2, <1>3 DEF Next

(* No turn ends: what is said of the ends stays true when a report begins  *)
(* only behind the response to the open turn, and the open turn is given   *)
(* up only as lost.                                                        *)
LEMMA NoEnd ==
  ASSUME TypeInv, TurnInv, EndInv, PipesOrdered', NoNewAbort, ExitLast',
         UNCHANGED <<results, asked>>, lost \subseteq lost',
         turn' = turn \/ (turn' = 0 /\ fate # "runs" /\ (turn # 0 => turn \in lost')),
         fate # "runs" => fate' # "runs",
         task'["stdout"] = "auth" =>
           \/ task["stdout"] = "auth" /\ held' = held
           \/ /\ turn # 0 /\ turn' = turn /\ held' = turn
              /\ \A t : t = turn => ~MayAbort(t)'
  PROVE  EndInv'
<1>. USE DEF EndInv
<1>1. /\ asked \in Nat /\ turn \in 0 .. asked
      /\ \A t : (ChildEnded(t)' <=> ChildEnded(t)) /\ (ExitEnded(t)' <=> ExitEnded(t))
  BY AskedNat, EndedSame DEF TypeInv
<1>2. ASSUME NEW t \in 1 .. asked
      PROVE  /\ Reporting(t)' => Reporting(t) \/ (t = turn /\ turn' = turn /\ ~MayAbort(t)')
             /\ turn' = t => turn = t
             /\ turn = t => turn' = t \/ t \in lost'
  BY DEF Reporting
<1>3. Spent'
  <2>1. ASSUME NEW t \in 1 .. asked'
        PROVE  /\ ChildEnded(t)' => ~MayAbort(t)' /\ turn' # t /\ ~Reporting(t)'
               /\ Reporting(t)' => ~MayAbort(t)'
    BY <1>1, <1>2 DEF Spent, NoNewAbort
  <2>. QED  BY <2>1 DEF Spent
<1>4. Reported'
  <2>1. task'["stdout"] = "auth" => held' \in 1 .. asked
    BY <1>1 DEF Reported
  <2>2. ASSUME task'["stdout"] = "auth", turn' # held'
        PROVE  fate' # "runs" /\ \A t : t = turn' /\ t # 0 => ~MayAbort(t)'
    <3>1. task["stdout"] = "auth" /\ held' = held
      BY <2>2
    <3>2. CASE turn' = turn
      BY <1>1, <2>2, <3>1, <3>2 DEF Reported, NoNewAbort
    <3>3. CASE turn' # turn
      BY <3>3
    <3>. QED  BY <3>2, <3>3
  <2>3. ASSUME task'["stdout"] = "auth", turn' # held'
        PROVE  (turn # 0 => ~MayAbort(turn))'
    BY <2>2, <2>3
  <2>. QED  BY <2>1, <2>2, <2>3 DEF Reported
<1>5. Answerable'
  <2>1. ASSUME NEW t \in 1 .. asked', MayAbort(t)' \/ Reporting(t)'
        PROVE  t = turn' \/ t \in lost' \/ ExitEnded(t)'
    BY <1>1, <1>2, <2>1 DEF Answerable, NoNewAbort
  <2>. QED  BY <2>1 DEF Answerable
<1>6. ChildClosesItsTurn'
  BY DEF ChildClosesItsTurn
<1>. QED  BY <1>3, <1>4, <1>5, <1>6

LEMMA ExitLastStep ==
  ASSUME TypeInv, EndInv, [Next]_vars
  PROVE  ExitLast'
<1>. USE DEF EndInv
<1>1. reaped => reaped'
  BY ExitStays
<1>2. CASE Quiet \/ WriteFails \/ Interrupt
  BY <1>1, <1>2 DEF Quiet, WriteFails, Interrupt, ExitLast
<1>3. CASE SendUser
  BY <1>1, <1>3 DEF SendUser, ExitLast
<1>4. ASSUME NEW r, Closing(r)
      PROVE  ExitLast'
  <2>1. results' = Append(results, r) /\ turn' = 0 /\ (r.by = "exit" => reaped)
    BY <1>4 DEF Closing, Ending
  <2>. QED  BY <1>1, <2>1, OneMore DEF ExitLast, TypeInv
<1>. QED  BY <1>2, <1>3, <1>4, TurnSteps

LEMMA QuietEnds ==
  ASSUME TypeInv, TurnInv, EndInv, [Next]_vars, Quiet \/ WriteFails \/ Interrupt
  PROVE  EndInv'
<1>. USE DEF EndInv
<1>1. PipesOrdered' /\ NoNewAbort /\ ExitLast' /\ (fate # "runs" => fate' # "runs")
  BY PipeSteps, ExitLastStep, ExitStays
<1>2. UNCHANGED <<results, asked>> /\ lost \subseteq lost'
  BY DEF Quiet, WriteFails, Interrupt, Lose
<1>3. turn' = turn \/ (turn' = 0 /\ fate # "runs" /\ (turn # 0 => turn \in lost'))
  BY DEF Quiet, WriteFails, Interrupt, Lose, TurnInv, Counted
<1>4. ASSUME task'["stdout"] = "auth"
      PROVE  \/ task["stdout"] = "auth" /\ held' = held
             \/ /\ turn # 0 /\ turn' = turn /\ held' = turn
                /\ \A t : t = turn => ~MayAbort(t)'
  <2>1. CASE WriteFails \/ Interrupt
    BY <1>4, <2>1 DEF WriteFails, Interrupt
  <2>2. CASE ReadEvent
    <3>1. Takes(EventKinds) /\ asked' = asked
      BY <2>2 DEF ReadEvent
    <3>2. task["stdout"] = "read"
      BY <3>1 DEF Takes
    <3>3. PICK pc \in {"emit", "read"} : task' = [task EXCEPT !["stdout"] = pc]
      <4>1. task = [task EXCEPT !["stdout"] = "read"]
        BY <3>2 DEF TypeInv, TypeOK, TaskType
      <4>. QED  BY <2>2, <4>1 DEF ReadEvent
    <3>. QED  BY <1>4, <3>3, TaskMoves DEF TypeInv, Readers, Emitting
  <2>3. CASE Quiet /\ ~ReadEvent
    <3>1. \/ task["stdout"] = "auth" /\ held' = held
          \/ Takes({"answer", "error"}) /\ Next1.turn = turn /\ held' = turn
      BY <1>4, <2>3 DEF Quiet
    <3>2. turn' = turn
      BY <2>3 DEF Quiet
    <3>3. ASSUME Takes({"answer", "error"}), Next1.turn = turn
          PROVE  turn # 0 /\ \A t : t = turn => ~MayAbort(t)'
      <4>1. Next1.kind \in Finals /\ {"answer", "error"} \subseteq TurnKinds
        BY <3>3, KindsKnown DEF Takes, Finals
      <4>2. Next1.turn \in 1 .. asked
        BY <1>2, <3>3, <4>1, TakesType
      <4>3. \A t : Next1.kind \in Finals /\ t = Next1.turn => ~MayAbort(t)'
        BY <1>2, <3>3, TakesPipes
      <4>. QED  BY <3>3, <4>1, <4>2, <4>3
    <3>. QED  BY <3>1, <3>2, <3>3
  <2>. QED  BY <2>1, <2>2, <2>3
<1>. QED  BY <1>1, <1>2, <1>3, <1>4, NoEnd

LEMMA SendEnds ==
  ASSUME TypeInv, TurnInv, EndInv, [Next]_vars, SendUser
  PROVE  EndInv'
<1>. USE DEF EndInv
<1>. DEFINE n == asked + 1
<1>1. PipesOrdered' /\ NoNewAbort /\ ExitLast' /\ (fate # "runs" => fate' # "runs")
      /\ \A t : fate # "runs" /\ t = n => ~MayAbort(t)'
  BY PipeSteps, ExitLastStep, ExitStays
<1>2. /\ asked \in Nat /\ asked' = n /\ turn' = n /\ turn = 0
      /\ UNCHANGED <<results, task, held>> /\ lost \subseteq lost'
  BY AskedNat DEF SendUser, TypeInv, TypeOK, TurnType, Lose
<1>3. /\ n \notin 1 .. asked /\ \A t \in 1 .. n : t = n \/ t \in 1 .. asked
      /\ 1 .. asked \subseteq 1 .. n /\ n # 0
  BY <1>2
<1>. HIDE DEF n
<1>4. \A t : (ChildEnded(t)' <=> ChildEnded(t)) /\ (ExitEnded(t)' <=> ExitEnded(t))
             /\ (Reporting(t)' <=> Reporting(t))
  BY <1>2, EndedSame DEF Reporting
<1>5. /\ \A t : ChildEnded(t) => t \in 1 .. asked
      /\ \A t : Reporting(t) => t \in 1 .. asked
  BY DEF ChildEnded, Spent, Reporting, Reported
<1>6. Spent'
  <2>1. ASSUME NEW t \in 1 .. n
        PROVE  /\ ChildEnded(t)' => ~MayAbort(t)' /\ turn' # t /\ ~Reporting(t)'
               /\ Reporting(t)' => ~MayAbort(t)'
    BY <1>1, <1>2, <1>3, <1>4, <1>5 DEF Spent, NoNewAbort
  <2>2. \A i \in DOMAIN results : results[i].by # "exit" => results[i].of \in 1 .. n
    BY <1>3 DEF Spent
  <2>. QED  BY <1>2, <2>1, <2>2 DEF Spent
<1>7. Reported'
  <2>1. task["stdout"] = "auth" => held \in 1 .. asked /\ held # turn /\ fate # "runs"
    <3>1. task["stdout"] = "auth" => held \in 1 .. asked /\ held # 0
      BY <1>2 DEF Reported
    <3>. QED  BY <1>2, <3>1 DEF Reported
  <2>2. ASSUME task'["stdout"] = "auth"
        PROVE  held' \in 1 .. n /\ fate' # "runs" /\ (turn # 0 => ~MayAbort(turn))'
    <3>1. held \in 1 .. n /\ fate # "runs"
      BY <1>2, <1>3, <2>1, <2>2
    <3>. QED  BY <1>1, <1>2, <3>1
  <2>. QED  BY <1>2, <2>2 DEF Reported
<1>8. Answerable'
  <2>1. ASSUME NEW t \in 1 .. n, MayAbort(t)' \/ Reporting(t)'
        PROVE  t = turn' \/ t \in lost' \/ ExitEnded(t)'
    <3>1. CASE t = n
      BY <1>2, <3>1
    <3>2. CASE t # n
      <4>1. t \in 1 .. asked /\ t # turn
        BY <1>2, <1>3, <3>2
      <4>. QED  BY <1>1, <1>2, <1>4, <2>1, <4>1 DEF Answerable, NoNewAbort
    <3>. QED  BY <3>1, <3>2
  <2>. QED  BY <1>2, <2>1 DEF Answerable
<1>9. ChildClosesItsTurn'
  BY <1>2 DEF ChildClosesItsTurn
<1>. QED  BY <1>1, <1>6, <1>7, <1>8, <1>9

(* A turn ends.                                                            *)
LEMMA ExitEnds ==
  ASSUME TypeInv, TurnInv, EndInv, [Next]_vars, NEW r, Closing(r), r.by = "exit"
  PROVE  EndInv'
<1>. USE DEF EndInv
<1>1. /\ PipesOrdered' /\ NoNewAbort /\ ExitLast' /\ (fate # "runs" => fate' # "runs")
  BY PipeSteps, ExitLastStep, ExitStays
<1>2. /\ results' = Append(results, r) /\ r.id = turn /\ turn' = 0 /\ reaped
      /\ UNCHANGED <<asked, lost, held, fate>> /\ task'["stdout"] = task["stdout"]
  BY DEF Closing, Ending, child
<1>3. /\ asked \in Nat /\ fate # "runs"
      /\ \A t : ChildEnded(t)' <=> ChildEnded(t)
      /\ \A t : ExitEnded(t)' <=> ExitEnded(t) \/ t = turn
      /\ \A t : Reporting(t)' <=> Reporting(t)
  BY <1>2, AskedNat, EndedMore DEF TypeInv, ExitKnown, Reporting
<1>4. Spent'
  <2>1. ASSUME NEW t \in 1 .. asked'
        PROVE  /\ ChildEnded(t)' => ~MayAbort(t)' /\ turn' # t /\ ~Reporting(t)'
               /\ Reporting(t)' => ~MayAbort(t)'
    BY <1>1, <1>2, <1>3 DEF Spent, NoNewAbort
  <2>2. \A i \in DOMAIN results' : results'[i].by # "exit" => results'[i].of \in 1 .. asked'
    BY <1>2, OneMore DEF Spent, TypeInv
  <2>. QED  BY <2>1, <2>2 DEF Spent
<1>5. Reported'
  BY <1>2, <1>3 DEF Reported
<1>6. Answerable'
  <2>1. ASSUME NEW t \in 1 .. asked', MayAbort(t)' \/ Reporting(t)'
        PROVE  t \in lost' \/ ExitEnded(t)'
    BY <1>1, <1>2, <1>3, <2>1 DEF Answerable, NoNewAbort
  <2>. QED  BY <2>1 DEF Answerable
<1>7. ChildClosesItsTurn'
  BY <1>2, ClosesMore DEF TypeInv
<1>. QED  BY <1>1, <1>4, <1>5, <1>6, <1>7

LEMMA ChildEnds ==
  ASSUME TypeInv, TurnInv, EndInv, [Next]_vars, NEW r, Closing(r), r.by # "exit"
  PROVE  EndInv'
<1>. USE DEF EndInv
<1>1. /\ PipesOrdered' /\ NoNewAbort /\ ExitLast'
  BY PipeSteps, ExitLastStep
<1>2. /\ results' = Append(results, r) /\ r.id = turn /\ turn' = 0
      /\ UNCHANGED <<asked, lost>> /\ task'["stdout"] = "emit"
  BY DEF Closing, Ending
<1>3. asked \in Nat /\ turn \in 0 .. asked
  BY AskedNat DEF TypeInv
<1>4. /\ r.of \in 1 .. asked /\ ~ChildEnded(r.of)
      /\ turn = r.of \/ Reporting(r.of) \/ (turn = 0 /\ MayAbort(r.of))
      /\ \A t : t = r.of => ~MayAbort(t)'
  <2>1. CASE AuthReported /\ r.of = held
    <3>1. Reporting(r.of) /\ r.of \in 1 .. asked
      BY <2>1 DEF AuthReported, Reporting, Reported
    <3>. QED  BY <1>1, <3>1 DEF Spent, NoNewAbort
  <2>2. ASSUME NEW kinds \in SUBSET Finals, Takes(kinds), r.of = Next1.turn,
               turn = r.of \/ (turn = 0 /\ kinds = Aborts)
        PROVE  /\ r.of \in 1 .. asked /\ ~ChildEnded(r.of)
               /\ turn = r.of \/ Reporting(r.of) \/ (turn = 0 /\ MayAbort(r.of))
               /\ \A t : t = r.of => ~MayAbort(t)'
    <3>1. kinds \subseteq TurnKinds /\ Next1.kind \in kinds
      BY <2>2, KindsKnown DEF Finals, Takes
    <3>2. r.of \in 1 .. asked
      BY <1>2, <2>2, <3>1, TakesType
    <3>3. /\ \A t : Next1.kind \in Finals /\ t = Next1.turn => ~MayAbort(t)'
          /\ Next1.kind \in Aborts => MayAbort(Next1.turn)
      BY <1>2, <2>2, TakesPipes
    <3>. QED  BY <2>2, <3>1, <3>2, <3>3 DEF Spent
  <2>3. {"answer", "error"} \in SUBSET Finals /\ {"turn_aborted"} \in SUBSET Finals
        /\ {"turn_aborted"} = Aborts
    BY DEF Finals, Aborts
  <2>4. CASE Takes({"answer", "error"}) /\ r.of = Next1.turn /\ turn = r.of
    BY <2>2, <2>3, <2>4
  <2>5. CASE Takes({"turn_aborted"}) /\ r.of = Next1.turn /\ turn \in {0, r.of}
    BY <2>2, <2>3, <2>5
  <2>. QED  BY <2>1, <2>4, <2>5 DEF Closing, Ending
<1>5. /\ \A t : ChildEnded(t)' <=> ChildEnded(t) \/ t = r.of
      /\ \A t : ExitEnded(t)' <=> ExitEnded(t)
      /\ \A t : ~Reporting(t)'
  BY <1>2, EndedMore DEF TypeInv, Reporting
<1>6. Spent'
  <2>1. ASSUME NEW t \in 1 .. asked'
        PROVE  ChildEnded(t)' => ~MayAbort(t)' /\ turn' # t
    <3>1. t # 0 /\ t \in 1 .. asked
      BY <1>2, <1>3
    <3>. QED  BY <1>1, <1>2, <1>4, <1>5, <3>1 DEF Spent, NoNewAbort
  <2>2. \A i \in DOMAIN results' : results'[i].by # "exit" => results'[i].of \in 1 .. asked'
    BY <1>2, <1>4, OneMore DEF Spent, TypeInv
  <2>. QED  BY <1>5, <2>1, <2>2 DEF Spent
<1>7. Reported'
  BY <1>2 DEF Reported
<1>8. Answerable'
  <2>1. ASSUME NEW t \in 1 .. asked', MayAbort(t)'
        PROVE  t \in lost' \/ ExitEnded(t)'
    <3>1. MayAbort(t) /\ t # r.of /\ t \in 1 .. asked /\ t # 0
      BY <1>1, <1>2, <1>3, <1>4, <2>1 DEF NoNewAbort
    <3>2. t # turn
      <4>1. CASE turn = r.of \/ turn = 0
        BY <3>1, <4>1
      <4>2. CASE Reporting(r.of) /\ turn # r.of
        BY <3>1, <4>2 DEF Reported, Reporting
      <4>. QED  BY <1>4, <4>1, <4>2
    <3>. QED  BY <1>2, <1>5, <3>1, <3>2 DEF Answerable
  <2>. QED  BY <1>5, <2>1 DEF Answerable
<1>9. ChildClosesItsTurn'
  <2>1. r.id = r.of \/ r.of \in lost \/ (r.id = 0 /\ ExitEnded(r.of))
    <3>1. CASE turn = r.of
      BY <1>2, <3>1
    <3>2. CASE turn # r.of
      <4>1. r.of \in lost \/ ExitEnded(r.of)
        BY <1>4, <3>2 DEF Answerable
      <4>2. ExitEnded(r.of) => turn = 0
        BY DEF ExitEnded, ExitLast
      <4>. QED  BY <1>2, <4>1, <4>2
    <3>. QED  BY <3>1, <3>2
  <2>. QED  BY <1>2, <1>4, <2>1, ClosesMore DEF TypeInv
<1>. QED  BY <1>1, <1>6, <1>7, <1>8, <1>9

LEMMA InitEnds == Init => EndInv
<1>. SUFFICES ASSUME Init PROVE EndInv
  OBVIOUS
<1>1. results = <<>> /\ asked = 0 /\ task["stdout"] = "read"
  BY DEF Init, Readers
<1>2. \A t \in 1 .. asked : FALSE
  BY <1>1
<1>3. \A i \in DOMAIN results : FALSE
  BY <1>1
<1>. QED  BY <1>1, <1>2, <1>3, InitPipes
          DEF EndInv, Spent, Reported, ExitLast, Answerable, ChildClosesItsTurn

LEMMA EndInduction == Spec => []EndInv
<1>1. TypeInv /\ TurnInv /\ EndInv /\ [Next]_vars => EndInv'
  BY TurnSteps, QuietEnds, SendEnds, ExitEnds, ChildEnds
<1>. QED  BY <1>1, InitEnds, TurnInduction, PTL DEF Spec

(* A response or an abort closes the turn it is about, once: whatever the  *)
(* child still says of a turn that is over, and however late it says it,   *)
(* no other turn is closed by it.                                          *)
THEOREM LateOutputClosesNothing == Spec => []ChildClosesItsTurn
BY EndInduction, PTL DEF EndInv

-----------------------------------------------------------------------------
(* One conversation.  The thread is known as soon as an event of it has    *)
(* been read; until then no response has been, because what the child says *)
(* of a turn begins with an event.                                         *)
Answers == {"answer", "error"}

Some(s, ks) == \E i \in DOMAIN s : s[i].kind \in ks
Led(s) ==
  \A i \in DOMAIN s :
    s[i].kind \in Answers => \E j \in DOMAIN s : j < i /\ s[j].kind \in EventKinds
Lone(s) == \A i, j \in DOMAIN s : s[i].kind = "codex" /\ s[j].kind = "codex" => i = j

LEMMA AppendLed ==
  ASSUME NEW S, NEW s \in Seq(S), NEW l \in S
  PROVE  /\ \A ks : Some(Append(s, l), ks) <=> Some(s, ks) \/ l.kind \in ks
         /\ Led(s) /\ (l.kind \in Answers => Some(s, EventKinds)) => Led(Append(s, l))
         /\ Lone(s) /\ (l.kind = "codex" => ~Some(s, {"codex"})) => Lone(Append(s, l))
<1>. DEFINE a == Append(s, l)
<1>1. /\ Len(s) \in Nat /\ DOMAIN s = 1 .. Len(s) /\ DOMAIN a = 1 .. Len(s) + 1
      /\ \A i \in 1 .. Len(s) : a[i] = s[i]
      /\ a[Len(s) + 1] = l
  BY AppendElements
<1>. HIDE DEF a
<1>2. /\ \A i \in DOMAIN a : (i \in DOMAIN s /\ a[i] = s[i]) \/ (i = Len(s) + 1 /\ a[i] = l)
      /\ \A i \in DOMAIN s : i \in DOMAIN a /\ a[i] = s[i] /\ i < Len(s) + 1
      /\ Len(s) + 1 \in DOMAIN a /\ a[Len(s) + 1] = l
  BY <1>1
<1>3. \A ks : Some(a, ks) <=> Some(s, ks) \/ l.kind \in ks
  BY <1>2 DEF Some
<1>4. Led(s) /\ (l.kind \in Answers => Some(s, EventKinds)) => Led(a)
  <2>1. SUFFICES ASSUME Led(s), l.kind \in Answers => Some(s, EventKinds),
                        NEW i \in DOMAIN a, a[i].kind \in Answers
                 PROVE  \E j \in DOMAIN a : j < i /\ a[j].kind \in EventKinds
    BY DEF Led
  <2>2. CASE i \in DOMAIN s /\ a[i] = s[i]
    BY <1>2, <2>1, <2>2 DEF Led
  <2>3. CASE i = Len(s) + 1 /\ a[i] = l
    BY <1>2, <2>1, <2>3 DEF Some
  <2>. QED  BY <1>2, <2>2, <2>3
<1>5. Lone(s) /\ (l.kind = "codex" => ~Some(s, {"codex"})) => Lone(a)
  BY <1>2 DEF Lone, Some
<1>. QED  BY <1>3, <1>4, <1>5 DEF a

LEMMA TailLed ==
  ASSUME NEW S, NEW s \in Seq(S), s # <<>>
  PROVE  /\ \A ks : Some(s, ks) <=> Some(Tail(s), ks) \/ Head(s).kind \in ks
         /\ Led(s) => Head(s).kind \notin Answers
         /\ Led(s) /\ Head(s).kind \notin EventKinds => Led(Tail(s))
         /\ Lone(s) => Lone(Tail(s))
         /\ Lone(s) /\ Head(s).kind = "codex" => ~Some(Tail(s), {"codex"})
<1>. DEFINE u == Tail(s)
<1>1. /\ Len(s) \in Nat /\ Len(s) >= 1 /\ DOMAIN s = 1 .. Len(s) /\ Head(s) = s[1]
      /\ DOMAIN u = 1 .. Len(s) - 1
      /\ \A i \in DOMAIN u : i + 1 \in DOMAIN s /\ u[i] = s[i + 1]
      /\ \A i \in DOMAIN s : i = 1 \/ (i - 1 \in DOMAIN u /\ s[i] = u[i - 1])
  BY TailElements
<1>. HIDE DEF u
<1>2. 1 \in DOMAIN s /\ \A i \in DOMAIN u : i \in Nat /\ 1 < i + 1 /\ i + 1 # 1
  BY <1>1
<1>3. \A ks : Some(s, ks) <=> Some(u, ks) \/ Head(s).kind \in ks
  BY <1>1, <1>2 DEF Some
<1>4. Led(s) => Head(s).kind \notin Answers
  <2>1. \A j \in DOMAIN s : ~(j < 1)
    BY <1>1
  <2>. QED  BY <1>1, <1>2, <2>1 DEF Led
<1>5. Led(s) /\ Head(s).kind \notin EventKinds => Led(u)
  <2>1. SUFFICES ASSUME Led(s), Head(s).kind \notin EventKinds,
                        NEW i \in DOMAIN u, u[i].kind \in Answers
                 PROVE  \E j \in DOMAIN u : j < i /\ u[j].kind \in EventKinds
    BY DEF Led
  <2>2. PICK j \in DOMAIN s : j < i + 1 /\ s[j].kind \in EventKinds
    BY <1>1, <2>1 DEF Led
  <2>3. j - 1 \in DOMAIN u /\ u[j - 1] = s[j] /\ j - 1 < i
    BY <1>1, <2>1, <2>2
  <2>. QED  BY <2>2, <2>3
<1>6. Lone(s) => Lone(u)
  <2>1. \A i, j \in DOMAIN u : i + 1 = j + 1 => i = j
    BY <1>1
  <2>. QED  BY <1>1, <2>1 DEF Lone
<1>7. Lone(s) /\ Head(s).kind = "codex" => ~Some(u, {"codex"})
  BY <1>1, <1>2 DEF Lone, Some
<1>. QED  BY <1>3, <1>4, <1>5, <1>6, <1>7 DEF u

Begun == thread \/ Some(stdout, EventKinds)

(* What is known of the threads the child has begun, and is asked for.     *)
Threads ==
  /\ threads <= 1 /\ Lone(stdin)
  /\ Some(stdin, {"codex"}) => threads = 0
  /\ Some(stdin, {"codex-reply"}) => thread
  /\ asked = 0 => threads = 0 /\ ~Some(stdin, {"codex"})
  /\ fate = "runs" /\ ~thread /\ asked # 0 => active

(* An event comes before any response.                                     *)
EventsLead ==
  /\ task["stdout"] = "auth" => thread
  /\ thread \/ Led(stdout)
  /\ Begun \/ Led(say)
  /\ late # <<>> => Begun \/ Has(say, EventKinds, Head(late).turn)

Conversation == Threads /\ EventsLead

LEMMA ConversationKept ==
  ASSUME Conversation, UNCHANGED <<stdin, stdout, say, late, threads, asked, thread>>,
         fate' = "runs" => fate = "runs",
         fate' = "runs" /\ ~thread /\ asked # 0 => active',
         task'["stdout"] = "auth" => thread
  PROVE  Conversation'
BY DEF Conversation, Threads, EventsLead, Begun

(* A request that begins no thread, or a first one.                        *)
LEMMA WritesThreads ==
  ASSUME TypeInv, Threads, NEW r, Write(r), r \in Requests(asked'),
         UNCHANGED <<threads, thread, fate>>,
         \/ asked' = asked /\ r.kind \notin {"codex", "codex-reply"} /\ active' = active
         \/ asked' = asked + 1 /\ r.kind = Tool /\ ~active /\ active'
  PROVE  Threads'
<1>1. asked \in Nat /\ stdin \in Seq(Requests(asked')) /\ asked + 1 # 0
  <2>1. asked \in Nat /\ asked' \in Nat /\ asked' \in {asked, asked + 1}
    BY Pipes
  <2>. QED  BY <2>1, Pipes, PipesTyped
<1>2. CASE fate # "runs"
  <2>1. stdin' = stdin
    BY <1>2 DEF Write
  <2>. QED  BY <1>1, <1>2, <2>1 DEF Threads
<1>3. CASE fate = "runs"
  <2>1. stdin' = Append(stdin, r)
    BY <1>3 DEF Write
  <2>2. /\ \A ks : Some(stdin', ks) <=> Some(stdin, ks) \/ r.kind \in ks
        /\ Lone(stdin) /\ (r.kind = "codex" => ~Some(stdin, {"codex"})) => Lone(stdin')
    BY <1>1, <2>1, AppendLed
  <2>3. CASE asked' = asked /\ r.kind \notin {"codex", "codex-reply"} /\ active' = active
    BY <1>3, <2>2, <2>3 DEF Threads
  <2>4. CASE asked' = asked + 1 /\ r.kind = Tool /\ ~active /\ active'
    <3>1. /\ r.kind = "codex" => ~thread /\ asked = 0 /\ threads = 0 /\ ~Some(stdin, {"codex"})
          /\ r.kind = "codex-reply" => thread
      BY <1>3, <2>4 DEF Threads, Tool
    <3>2. asked' # 0
      BY <1>1, <2>4
    <3>. QED  BY <2>2, <2>4, <3>1, <3>2 DEF Threads
  <2>. QED  BY <2>3, <2>4
<1>. QED  BY <1>2, <1>3

LEMMA ChildThreads ==
  ASSUME TypeInv, Conversation, ChildStep \/ ChildPrintsLate
  PROVE  Conversation'
<1>. USE DEF Conversation
<1>1. /\ UNCHANGED <<fate, state, thread, task, asked>> /\ asked \in Nat /\ threads \in Nat
      /\ active' = active
  BY Pipes DEF ChildStep, ChildGreets, ChildTakes, ChildCancels, ChildPrints, ChildPrintsLate,
     ghosts, state, TypeInv, TypeOK, ChildType
<1>2. CASE ChildGreets
  <2>1. PICK k \in {"reply", "refusal", "framing"} :
          stdout' = Append(stdout, [kind |-> k, turn |-> 0])
    BY <1>2 DEF ChildGreets
  <2>2. PICK l \in Lines(asked) : stdout' = Append(stdout, l) /\ l.kind \notin Answers
    <3>1. [kind |-> k, turn |-> 0] \in Lines(asked)
      BY DEF Lines
    <3>. QED  BY <2>1, <3>1 DEF Answers
  <2>3. /\ stdin # <<>> /\ stdin' = Tail(stdin) /\ Head(stdin).kind = "hello"
        /\ UNCHANGED <<say, late, threads>>
    BY <1>2 DEF ChildGreets
  <2>4. /\ Lone(stdin) => Lone(stdin')
        /\ \A ks : Some(stdin', ks) => Some(stdin, ks)
    BY <2>3, Pipes, TailLed
  <2>5. /\ Led(stdout) => Led(stdout')
        /\ \A ks : Some(stdout, ks) => Some(stdout', ks)
    BY <2>2, Pipes, AppendLed
  <2>. QED  BY <1>1, <2>3, <2>4, <2>5 DEF Threads, EventsLead, Begun
<1>3. CASE ChildTakes
  <2>1. /\ stdin # <<>> /\ stdin' = Tail(stdin) /\ Head(stdin).kind \in {"codex", "codex-reply"}
        /\ work' = Head(stdin).turn /\ say = <<>>
        /\ UNCHANGED <<stdout, late>>
    BY <1>3 DEF ChildTakes
  <2>2. /\ Lone(stdin) => Lone(stdin')
        /\ \A ks : Some(stdin, ks) <=> Some(stdin', ks) \/ Head(stdin).kind \in ks
        /\ Lone(stdin) /\ Head(stdin).kind = "codex" => ~Some(stdin', {"codex"})
    BY <2>1, Pipes, TailLed
  <2>3. work' \in 1 .. asked
    <3>1. Head(stdin) \in Requests(asked)
      BY <2>1, Pipes, PipeEnds
    <3>. QED  BY <2>1, <3>1, Pipes, LineTurn
  <2>4. late # <<>> => Begun
    BY <2>1, EmptyPipe DEF EventsLead
  <2>5. CASE Head(stdin).kind = "codex"
    <3>1. PICK s \in Scripts : say' = Says(<<"session_configured">> \o s, work')
      BY <1>3, <2>5 DEF ChildTakes
    <3>2. threads' = threads + 1 /\ threads = 0 /\ asked # 0
      BY <1>3, <2>2, <2>5 DEF ChildTakes, Threads
    <3>3. Led(say')
      <4>1. s \in Seq(TurnKinds) /\ <<"session_configured">> \in Seq(TurnKinds)
        BY ScriptsTyped, KindsKnown
      <4>2. PICK ks \in Seq(TurnKinds) : ks = <<"session_configured">> \o s
        BY ScriptsTyped
      <4>3. ks[1] = "session_configured" /\ Len(ks) >= 1 /\ Len(ks) \in Nat
        BY <4>1, <4>2, ConcatProperties, LenProperties
      <4>4. /\ say' \in Seq(Lines(asked)) /\ Len(say') = Len(ks)
            /\ \A i \in 1 .. Len(ks) : say'[i] = [kind |-> ks[i], turn |-> work']
        BY <2>3, <3>1, <4>2, Pipes, SaysType
      <4>5. DOMAIN say' = 1 .. Len(ks)
        BY <4>4, LenProperties
      <4>6. 1 \in DOMAIN say' /\ say'[1].kind = "session_configured"
            /\ \A i \in DOMAIN say' : i = 1 \/ 1 < i
        BY <4>3, <4>4, <4>5
      <4>7. "session_configured" \in EventKinds /\ "session_configured" \notin Answers
        BY KindsKnown DEF Answers
      <4>. QED  BY <4>6, <4>7 DEF Led
    <3>. QED  BY <1>1, <2>1, <2>2, <2>4, <2>5, <3>2, <3>3 DEF Threads, EventsLead, Begun
  <2>6. CASE Head(stdin).kind = "codex-reply"
    <3>1. thread /\ threads' = threads
      BY <1>3, <2>2, <2>6 DEF ChildTakes, Threads
    <3>. QED  BY <1>1, <2>1, <2>2, <2>6, <3>1 DEF Threads, EventsLead, Begun
  <2>. QED  BY <2>1, <2>5, <2>6
<1>4. CASE ChildCancels
  <2>1. /\ stdin # <<>> /\ stdin' = Tail(stdin) /\ Head(stdin).kind = "cancel"
        /\ UNCHANGED <<stdout, threads>>
    BY <1>4 DEF ChildCancels
  <2>2. /\ Lone(stdin) => Lone(stdin')
        /\ \A ks : Some(stdin', ks) => Some(stdin, ks)
    BY <2>1, Pipes, TailLed
  <2>3. CASE UNCHANGED <<work, say, late>>
    BY <1>1, <2>1, <2>2, <2>3 DEF Threads, EventsLead, Begun
  <2>4. CASE ~UNCHANGED <<work, say, late>>
    <3>1. /\ work = Head(stdin).turn /\ say' = Says(<<"turn_aborted">>, work)
          /\ \E s \in Afterwards : late' = Says(s, work)
      BY <1>4, <2>4 DEF ChildCancels
    <3>2. work \in 1 .. asked
      <4>1. Head(stdin) \in Requests(asked)
        BY <2>1, Pipes, PipeEnds
      <4>. QED  BY <2>1, <3>1, <4>1, Pipes, LineTurn
    <3>3. PICK ks \in Seq(TurnKinds) : ks = <<"turn_aborted">> /\ Len(ks) = 1 /\ ks[1] = "turn_aborted"
      BY ScriptsTyped
    <3>4. /\ say' = Says(ks, work) /\ say' \in Seq(Lines(asked)) /\ Len(say') = 1
          /\ say'[1] = [kind |-> "turn_aborted", turn |-> work]
      <4>1. say' = Says(ks, work)
        BY <3>1, <3>3
      <4>2. /\ Says(ks, work) \in Seq(Lines(asked)) /\ Len(Says(ks, work)) = Len(ks)
            /\ \A i \in 1 .. Len(ks) : Says(ks, work)[i] = [kind |-> ks[i], turn |-> work]
        BY <3>2, Pipes, SaysType
      <4>3. 1 \in 1 .. Len(ks)
        BY <3>3
      <4>4. Says(ks, work)[1] = [kind |-> ks[1], turn |-> work]
        BY <4>2, <4>3
      <4>. QED  BY <3>3, <4>1, <4>2, <4>4
    <3>5. DOMAIN say' = {1} /\ say'[1].kind = "turn_aborted" /\ say'[1].turn = work
      BY <3>4, LenProperties
    <3>6. Led(say') /\ Has(say', EventKinds, work)
      BY <3>5, KindsKnown DEF Led, Has, Answers
    <3>7. late' # <<>> => Head(late').turn = work
      <4>1. PICK s \in Seq(TurnKinds) : late' = Says(s, work)
        BY <3>1, ScriptsTyped
      <4>2. /\ late' \in Seq(Lines(asked)) /\ Len(late') = Len(s)
            /\ \A i \in 1 .. Len(s) : late'[i] = [kind |-> s[i], turn |-> work]
        BY <3>2, <4>1, Pipes, SaysType
      <4>3. late' # <<>> => Head(late') = late'[1] /\ Len(late') >= 1 /\ Len(late') \in Nat
        BY <4>2, TailElements
      <4>4. late' # <<>> => 1 \in 1 .. Len(s)
        BY <4>2, <4>3
      <4>5. late' # <<>> => Head(late') = [kind |-> s[1], turn |-> work]
        BY <4>2, <4>3, <4>4
      <4>. QED  BY <4>5
    <3>. QED  BY <1>1, <2>1, <2>2, <3>6, <3>7 DEF Threads, EventsLead, Begun
  <2>. QED  BY <2>3, <2>4
<1>5. CASE ChildPrints
  <2>. DEFINE l == Head(say)
  <2>1. /\ say # <<>> /\ stdout' = Append(stdout, l) /\ say' = Tail(say)
        /\ UNCHANGED <<stdin, late, threads>>
    BY <1>5 DEF ChildPrints
  <2>2. l \in Lines(asked)
    BY <2>1, Pipes, PipeEnds
  <2>. HIDE DEF l
  <2>3. /\ Led(say) => l.kind \notin Answers
        /\ Led(say) /\ l.kind \notin EventKinds => Led(say')
        /\ \A t : Has(say, EventKinds, t)
             <=> Has(say', EventKinds, t) \/ (l.kind \in EventKinds /\ l.turn = t)
    BY <2>1, Pipes, TailLed, TailPipe DEF l
  <2>4. /\ \A ks : Some(stdout', ks) <=> Some(stdout, ks) \/ l.kind \in ks
        /\ Led(stdout) /\ (l.kind \in Answers => Some(stdout, EventKinds)) => Led(stdout')
    BY <2>1, <2>2, Pipes, AppendLed
  <2>. QED  BY <1>1, <2>1, <2>3, <2>4 DEF Threads, EventsLead, Begun
<1>6. CASE ChildPrintsLate
  <2>. DEFINE l == Head(late)
  <2>1. /\ late # <<>> /\ stdout' = Append(stdout, l)
        /\ UNCHANGED <<stdin, say, threads>>
        /\ \A i \in DOMAIN say : say[i].turn # l.turn
    BY <1>6 DEF ChildPrintsLate
  <2>2. l \in Lines(asked)
    BY <2>1, Pipes, PipeEnds
  <2>3. Begun
    BY <2>1 DEF EventsLead, Has
  <2>. HIDE DEF l
  <2>4. /\ \A ks : Some(stdout', ks) <=> Some(stdout, ks) \/ l.kind \in ks
        /\ Led(stdout) /\ (l.kind \in Answers => Some(stdout, EventKinds)) => Led(stdout')
    BY <2>1, <2>2, Pipes, AppendLed
  <2>. QED  BY <1>1, <2>1, <2>3, <2>4 DEF Threads, EventsLead, Begun
<1>. QED  BY <1>2, <1>3, <1>4, <1>5, <1>6 DEF ChildStep

(* What the reader takes off stdout.                                       *)
LEMMA TakesThreads ==
  ASSUME TypeInv, EventsLead, NEW kinds, Takes(kinds), thread => thread',
         Next1.kind \in EventKinds => thread',
         task'["stdout"] = "auth" => thread'
  PROVE  EventsLead' /\ (Next1.kind \in Answers => thread)
<1>1. /\ stdout # <<>> /\ stdout' = Tail(stdout) /\ UNCHANGED <<say, late>>
  BY DEF Takes
<1>2. /\ \A ks : Some(stdout, ks) <=> Some(stdout', ks) \/ Next1.kind \in ks
      /\ Led(stdout) => Next1.kind \notin Answers
      /\ Led(stdout) /\ Next1.kind \notin EventKinds => Led(stdout')
  BY <1>1, Pipes, TailLed DEF Next1
<1>. QED  BY <1>1, <1>2 DEF EventsLead, Begun

LEMMA StdoutThreads ==
  ASSUME TypeInv, Conversation, StdoutStep /\ ~SkipLine
  PROVE  Conversation'
<1>. USE DEF Conversation
<1>1. CASE ReadEvent \/ ReadAbort \/ ReadReply \/ ReadNobodys \/ ReadResponse
  <2>1. PICK kinds : Takes(kinds)
    BY <1>1 DEF ReadEvent, ReadAbort, ReadReply, ReadNobodys, ReadResponse
  <2>2. task["stdout"] = "read" /\ UNCHANGED <<fate, stdin, say, late, threads, asked>>
    BY <1>1, <2>1 DEF Takes, ReadEvent, ReadAbort, ReadReply, ReadNobodys, ReadResponse, ghosts
  <2>3. /\ thread' = TRUE \/ (thread' = thread /\ Next1.kind \notin EventKinds)
        /\ active' = active \/ thread' = TRUE \/ Next1.kind \in Answers
        /\ task'["stdout"] = "auth" => Next1.kind \in Answers
    <3>1. CASE ReadEvent
      <4>1. thread' = TRUE
        BY <3>1 DEF ReadEvent
      <4>2. task'["stdout"] # "auth"
        <5>1. task = [task EXCEPT !["stdout"] = "read"]
          BY <2>2 DEF TypeInv, TypeOK, TaskType
        <5>2. PICK pc \in {"emit", "read"} : task' = [task EXCEPT !["stdout"] = pc]
          BY <3>1, <5>1 DEF ReadEvent
        <5>. QED  BY <5>2, TaskMoves DEF TypeInv, Readers, Emitting
      <4>. QED  BY <4>1, <4>2
    <3>2. CASE ReadAbort
      <4>1. thread' = TRUE /\ task' = [task EXCEPT !["stdout"] = "emit"]
        BY <3>2 DEF ReadAbort
      <4>2. task'["stdout"] # "auth"
        BY <4>1, TaskMoves DEF TypeInv, Readers, Emitting
      <4>. QED  BY <4>1, <4>2
    <3>3. CASE ReadReply
      <4>1. /\ UNCHANGED <<state, thread>> /\ Next1.kind \in {"reply", "refusal", "framing"}
            /\ \E pc \in {"end", "read"} : task' = [task EXCEPT !["stdout"] = pc]
        BY <3>3 DEF ReadReply, Takes
      <4>2. task'["stdout"] # "auth"
        BY <4>1, TaskMoves DEF TypeInv, Readers, Emitting
      <4>. QED  BY <4>1, <4>2, KindsKnown DEF state
    <3>4. CASE ReadNobodys \/ ReadResponse
      <4>1. thread' = thread /\ Next1.kind \in Answers
        BY <3>4 DEF ReadNobodys, ReadResponse, Takes, Answers
      <4>. QED  BY <4>1, KindsKnown DEF Answers
    <3>. QED  BY <1>1, <3>1, <3>2, <3>3, <3>4
  <2>4. thread => thread'
    BY <2>3
  <2>5. Next1.kind \in Answers => thread
    BY <2>1, Pipes, TailLed DEF EventsLead, Takes, Next1
  <2>6. EventsLead'
    BY <2>1, <2>3, <2>4, <2>5, TakesThreads
  <2>7. Threads'
    BY <2>2, <2>3, <2>4, <2>5 DEF Threads
  <2>. QED  BY <2>6, <2>7
<1>2. CASE AuthReported
  <2>1. UNCHANGED <<child, thread, ghosts>> /\ task["stdout"] = "auth"
    BY <1>2 DEF AuthReported
  <2>. QED  BY <2>1, ConversationKept DEF EventsLead, child, ghosts
<1>3. CASE StdoutNext
  <2>1. UNCHANGED <<child, state, thread, ghosts>>
        /\ \E pc \in {"read", "done"} : task' = [task EXCEPT !["stdout"] = pc]
    BY <1>3 DEF StdoutNext
  <2>2. task'["stdout"] # "auth"
    BY <2>1, TaskMoves DEF TypeInv, Readers, Emitting
  <2>. QED  BY <2>1, <2>2, ConversationKept DEF Threads, child, state, ghosts
<1>. QED  BY <1>1, <1>2, <1>3 DEF StdoutStep

(* A line is dropped that is no event.                                     *)
LEMMA DropThreads ==
  ASSUME TypeInv, Conversation, Overrun \/ SkipLine, unread' = {}
  PROVE  Conversation'
<1>1. /\ stdout # <<>> /\ stdout' = Tail(stdout) /\ Next1.kind \notin EventKinds
      /\ UNCHANGED <<fate, stdin, say, late, threads, thread, asked, active>>
      /\ task'["stdout"] # "auth"
  BY DropFacts DEF state
<1>2. /\ \A ks : Some(stdout, ks) <=> Some(stdout', ks) \/ Next1.kind \in ks
      /\ Led(stdout) => Led(stdout')
  BY <1>1, Pipes, TailLed DEF Next1
<1>. QED  BY <1>1, <1>2 DEF Conversation, Threads, EventsLead, Begun

LEMMA OtherThreads ==
  ASSUME TypeInv, Conversation, [Next]_vars,
         ~(ChildStep \/ ChildPrintsLate \/ StdoutStep \/ Overrun)
  PROVE  Conversation'
<1>. USE DEF Conversation
<1>1. CASE ChildExits \/ KillChild
  <2>1. /\ fate' # "runs" /\ stdin' = <<>> /\ say' = <<>> /\ late' = <<>>
        /\ UNCHANGED <<stdout, threads, thread, task, asked>>
    BY <1>1 DEF ChildExits, KillChild, Dies, ghosts
  <2>2. Lone(<<>>) /\ Led(<<>>) /\ \A ks : ~Some(<<>>, ks)
    BY DEF Lone, Led, Some
  <2>. QED  BY <2>1, <2>2 DEF Threads, EventsLead, Begun
<1>2. CASE SendUser
  <2>1. /\ asked' = asked + 1 /\ active' = TRUE /\ ~active
        /\ Write([kind |-> Tool, turn |-> asked + 1])
        /\ UNCHANGED <<fate, stdout, say, late, threads, thread, task>>
    BY <1>2 DEF SendUser
  <2>2. Tool \in {"codex", "codex-reply"} /\ asked + 1 \in 1 .. asked'
    BY <2>1, Pipes DEF Tool
  <2>3. PICK r : Write(r) /\ r.kind = Tool /\ r \in Requests(asked')
    BY <2>1, <2>2 DEF Requests
  <2>4. Threads'
    BY <2>1, <2>3, WritesThreads
  <2>5. EventsLead'
    BY <2>1 DEF EventsLead, Begun
  <2>. QED  BY <2>4, <2>5
<1>3. CASE Interrupt \/ VerifyTools
  <2>1. /\ UNCHANGED <<fate, stdout, say, late, threads, thread, task, asked, active>>
        /\ \E r \in Requests(asked) : Write(r) /\ r.kind \notin {"codex", "codex-reply"}
    <3>1. CASE Interrupt
      <4>1. turn \in 1 .. asked
        BY <3>1, AskedNat DEF Interrupt, TypeInv
      <4>2. [kind |-> "cancel", turn |-> turn] \in Requests(asked)
        BY <4>1 DEF Requests
      <4>. QED  BY <3>1, <4>2 DEF Interrupt
    <3>2. CASE VerifyTools
      <4>1. Hello \in Requests(asked) /\ Hello.kind \notin {"codex", "codex-reply"}
        BY DEF Hello, Requests
      <4>. QED  BY <3>2, <4>1 DEF VerifyTools, state, ghosts
    <3>. QED  BY <1>3, <3>1, <3>2
  <2>2. Threads'
    BY <2>1, WritesThreads
  <2>3. EventsLead'
    BY <2>1 DEF EventsLead, Begun
  <2>. QED  BY <2>2, <2>3
<1>4. CASE ExitStep
  <2>1. PICK pc \in {"emit", "end", "done"} : task' = [task EXCEPT !["exit"] = pc]
    BY <1>4 DEF ExitStep, WatchExit, ExitClose, ExitEnd
  <2>2. task'["stdout"] = task["stdout"]
    BY <2>1, TaskMoves DEF TypeInv, Readers, Emitting
  <2>3. UNCHANGED <<child, thread, ghosts>> /\ reaped
    BY <1>4 DEF ExitStep, WatchExit, ExitClose, ExitEnd, TypeInv, ExitKnown, Emitting
  <2>4. fate # "runs"
    BY <2>3 DEF TypeInv, ExitKnown
  <2>. QED  BY <2>2, <2>3, <2>4, ConversationKept DEF EventsLead, child, ghosts
<1>5. CASE WriteFails
  BY <1>5, ConversationKept DEF WriteFails, EventsLead, child
<1>6. CASE \/ StderrComplains \/ Written \/ CancelFails \/ Killed \/ ReaderOver \/ SpawnFails
           \/ SpawnBreaks \/ Close \/ UNCHANGED vars
  <2>1. UNCHANGED <<child, state, thread, task, asked>>
    BY <1>6 DEF StderrComplains, Written, CancelFails, Killed, ReaderOver, SpawnFails, SpawnBreaks,
       Close, vars, ghosts
  <2>. QED  BY <2>1, ConversationKept DEF Threads, EventsLead, child, state
<1>7. CASE ChildReaped
  BY <1>7, ConversationKept DEF ChildReaped, Threads, EventsLead, state, ghosts
<1>8. CASE CancelReader \/ \E r \in Readers : ReaderDies(r)
  <2>1. UNCHANGED <<child, state, thread, asked>>
    BY <1>8 DEF CancelReader, ReaderDies, ghosts
  <2>2. PICK r \in Readers, pc \in {"done", "dead"} : task' = [task EXCEPT ![r] = pc]
    BY <1>8 DEF CancelReader, ReaderDies, TypeInv, TypeOK, TaskType
  <2>3. task'["stdout"] = "auth" => task["stdout"] = "auth"
    BY <2>2, TaskMoves DEF TypeInv, Readers, Emitting
  <2>. QED  BY <2>1, <2>3, ConversationKept DEF Threads, EventsLead, child, state
<1>. QED  BY <1>1, <1>2, <1>3, <1>4, <1>5, <1>6, <1>7, <1>8 DEF Next, CallStep

LEMMA InitThreads == Init => Conversation
<1>. SUFFICES ASSUME Init PROVE Conversation
  OBVIOUS
<1>1. /\ stdin = <<Hello>> /\ stdout = <<>> /\ say = <<>> /\ late = <<>> /\ threads = 0
      /\ asked = 0 /\ task["stdout"] = "read"
  BY DEF Init, Readers
<1>2. Lone(stdin) /\ ~Some(stdin, {"codex"}) /\ ~Some(stdin, {"codex-reply"})
  BY <1>1 DEF Lone, Some, Hello
<1>3. Led(<<>>)
  BY DEF Led
<1>. QED  BY <1>1, <1>2, <1>3 DEF Conversation, Threads, EventsLead

(* What the reader has dropped stays dropped.                              *)
LEMMA UnreadGrows ==
  ASSUME TypeInv, [Next]_vars
  PROVE  unread \subseteq unread'
<1>1. CASE Overrun \/ SkipLine
  BY <1>1, DropFacts
<1>2. CASE ~(Overrun \/ SkipLine)
  <2>1. unread' = unread
    BY <1>2 DEF Next, vars, ghosts, ChildStep, ChildGreets, ChildTakes, ChildCancels, ChildPrints,
       ChildPrintsLate, StderrComplains, ChildExits, ChildReaped, StdoutStep, ReadReply, ReadEvent,
       ReadAbort, ReadResponse, AuthReported, ReadNobodys, StdoutNext, ExitStep, WatchExit,
       ExitClose, ExitEnd, SpawnFails, SpawnBreaks, SendUser, Interrupt, Close, CallStep,
       VerifyTools, Written, WriteFails, CancelFails, KillChild, Killed, ReaderOver, CancelReader,
       ReaderDies
  <2>. QED  BY <2>1
<1>. QED  BY <1>1, <1>2

ThreadInv == unread = {} => Conversation

LEMMA ThreadInduction == Spec => []ThreadInv
<1>1. TypeInv /\ ThreadInv /\ [Next]_vars => ThreadInv'
  <2>. SUFFICES ASSUME TypeInv, ThreadInv, [Next]_vars, unread' = {}
                PROVE  Conversation'
    BY DEF ThreadInv
  <2>1. Conversation
    BY UnreadGrows DEF ThreadInv
  <2>. QED  BY <2>1, ChildThreads, StdoutThreads, DropThreads, OtherThreads
<1>. QED  BY <1>1, InitThreads, TypeInduction, PTL DEF Spec, ThreadInv

(* The turns of a session are one conversation: whatever the child has     *)
(* answered, failed or been interrupted in, it is never asked to begin a   *)
(* second thread, unless the reader has dropped an event, which may have   *)
(* been all that named the first.                                          *)
THEOREM OneThread == Spec => []OneConversation
BY ThreadInduction, PTL DEF ThreadInv, Conversation, Threads, OneConversation
=============================================================================
