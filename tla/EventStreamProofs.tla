------------------------- MODULE EventStreamProofs -------------------------
(***************************************************************************)
(* Theorems about EventStream, for any number of connections and sources   *)
(* and for every capacity and bound.                                       *)
(***************************************************************************)
EXTENDS EventStream, EventLogProofs, SequenceTheorems

-----------------------------------------------------------------------------
(* Type correctness.                                                       *)

LEMMA EarliestType ==
  ASSUME NEW n \in Nat, NEW r \in SUBSET (1 .. n), NEW seqOf \in [1 .. n -> Nat]
  PROVE  EarliestSeq(r, seqOf) \in Nat /\ LatestSeq(r, seqOf) \in Nat
<1>1. CASE r = {}
  BY <1>1 DEF EarliestSeq, LatestSeq
<1>2. CASE r # {}
  <2>1. r \in SUBSET Nat /\ \A y \in r : y <= n
    OBVIOUS
  <2>2. Min(r) \in r /\ Max(r) \in r
    BY <1>2, <2>1, MinIsMember, MaxIsMember
  <2>. QED  BY <1>2, <2>2 DEF EarliestSeq, LatestSeq
<1>. QED  BY <1>1, <1>2

(* The frames of the module are Frames.                                    *)
LEMMA EventsType ==
  ASSUME HistoryType
  PROVE  /\ Len(events) \in Nat
         /\ Ids = 1 .. Len(events)
         /\ Ids \subseteq Nat
         /\ SeqOf \in [Ids -> Nat]
         /\ \A i \in Ids : EventFrame(i) \in Frame
<1>1. events \in Seq([seq : Nat, size : Nat, kind : EventKinds])
  BY DEF HistoryType
<1>2. Len(events) \in Nat /\ \A i \in 1 .. Len(events) : events[i].seq \in Nat
  <2>1. Len(events) \in Nat
    BY <1>1, LenProperties
  <2>2. \A i \in 1 .. Len(events) : events[i] \in [seq : Nat, size : Nat, kind : EventKinds]
    BY <1>1, ElementOfSeq
  <2>. QED  BY <2>1, <2>2
<1>. QED  BY <1>2 DEF Ids, SeqOf, EventFrame, Frame

LEMMA GapFrameType ==
  ASSUME NEW s \in Nat, NEW a \in Nat, NEW b \in Nat
  PROVE  GapFrame(s, a, b) \in Frame /\ AckFrame(s) \in Frame
BY DEF GapFrame, AckFrame, Frame

(* A frame more on one queue that has room for it.                         *)
LEMMA AppendType ==
  ASSUME QueueType, NEW c \in Conns, NEW f \in Frame, Len(queue[c]) < QueueSize,
         queue' = [queue EXCEPT ![c] = Append(@, f)]
  PROVE  QueueType'
<1>1. queue[c] \in Seq(Frame) /\ Len(queue[c]) \in Nat
  BY LenProperties DEF QueueType
<1>2. Append(queue[c], f) \in Seq(Frame) /\ Len(Append(queue[c], f)) = Len(queue[c]) + 1
  BY <1>1, AppendProperties
<1>3. queue' \in [Conns -> Seq(Frame)]
  BY <1>2 DEF QueueType
<1>4. \A d \in Conns : Len(queue'[d]) <= QueueSize
  BY <1>1, <1>2, StreamAssumption DEF QueueType
<1>. QED  BY <1>3, <1>4 DEF QueueType

LEMMA PutType ==
  ASSUME QueueType, NEW t, NEW c \in Conns, NEW f \in Frame, Put(t, c, f)
  PROVE  QueueType' /\ slow' = slow
<1>1. CASE UNCHANGED queue
  BY <1>1 DEF QueueType, Put
<1>2. CASE Room(c) /\ queue' = [queue EXCEPT ![c] = Append(@, f)]
  BY <1>2, AppendType DEF Room, Put
<1>. QED  BY <1>1, <1>2 DEF Put

(* A part of the state that a step leaves alone keeps its type.            *)
LEMMA SameType ==
  ASSUME TypeOK, UNCHANGED events
  PROVE  /\ Ids' = Ids
         /\ UNCHANGED <<session, subs>> => SessionType'
         /\ UNCHANGED emit => EmitType'
         /\ UNCHANGED sub => SubType'
         /\ UNCHANGED queue => QueueType'
         /\ UNCHANGED conn /\ cpu' \in {Free} \cup Sources \cup Conns => ConnType'
         /\ UNCHANGED client => ClientType'
         /\ slow' \subseteq Conns /\ cut' \subseteq Ids /\ UNCHANGED bounds => HistoryType'
<1>1. Ids' = Ids
  BY DEF Ids
<1>2. UNCHANGED <<session, subs>> => SessionType'
  BY <1>1 DEF TypeOK, SessionType, session, subs
<1>3. UNCHANGED emit => EmitType'
  BY <1>1 DEF TypeOK, EmitType
<1>4. UNCHANGED sub => SubType'
  BY <1>1 DEF TypeOK, SubType, Subscription
<1>5. UNCHANGED queue => QueueType'
  BY DEF TypeOK, QueueType
<1>6. UNCHANGED conn /\ cpu' \in {Free} \cup Sources \cup Conns => ConnType'
  BY DEF TypeOK, ConnType, conn
<1>7. UNCHANGED client => ClientType'
  BY DEF TypeOK, ClientType, client
<1>8. slow' \subseteq Conns /\ cut' \subseteq Ids /\ UNCHANGED bounds => HistoryType'
  BY <1>1 DEF TypeOK, HistoryType, bounds
<1>. QED  BY <1>1, <1>2, <1>3, <1>4, <1>5, <1>6, <1>7, <1>8

(* An on_event call that goes on, of the same event.                       *)
LEMMA StepEmitType ==
  ASSUME TypeOK, UNCHANGED events, NEW s \in Sources, NEW e \in OnEventCall,
         emit' = [emit EXCEPT ![s] = e], e.pc # "idle" => e.id \in Ids
  PROVE  EmitType'
BY SameType DEF TypeOK, EmitType

LEMMA StepSubType ==
  ASSUME TypeOK, UNCHANGED events, NEW c \in Conns, NEW b \in Subscription,
         sub' = [sub EXCEPT ![c] = b]
  PROVE  SubType'
BY SameType DEF TypeOK, SubType, Subscription

LEMMA IdleType == Idle \in OnEventCall /\ NoSub \in Subscription
BY GapFrameType, Zenon DEF NoSub, Subscription, Idle, OnEventCall

LEMMA InitType == Init => TypeOK
<1>. SUFFICES ASSUME Init PROVE TypeOK
  OBVIOUS
<1>1. Ids = {} /\ events \in Seq([seq : Nat, size : Nat, kind : EventKinds])
  BY DEF Init, Ids
<1>2. EmitType /\ SubType
  BY IdleType DEF Init, EmitType, SubType, Idle
<1>3. QueueType /\ ClientType /\ ConnType
  BY StreamAssumption DEF Init, QueueType, ClientType, ConnType
<1>4. SessionType /\ HistoryType
  BY <1>1, EmptyFileType DEF Init, SessionType, HistoryType
<1>. QED  BY <1>2, <1>3, <1>4 DEF TypeOK

(* The tasks of the backend.                                               *)
LEMMA WriteOwnerType ==
  ASSUME TypeOK, NEW s \in Sources, WriteOwner(s)
  PROVE  TypeOK'
<1>. DEFINE c == emit[s].at
            f == [emit[s] EXCEPT !.pc = "fan", !.at = None, !.size = Cardinality(watchers)]
<1>1. emit[s] \in OnEventCall /\ emit[s].id \in Ids /\ c \in Conns \cup {None}
  BY DEF TypeOK, EmitType, OnEventCall, WriteOwner
<1>2. QueueType' /\ slow' \subseteq Conns
  <2>1. CASE UNCHANGED <<queue, slow>>
    BY <2>1 DEF TypeOK, QueueType, HistoryType
  <2>2. CASE c # None /\ Put(s, c, EventFrame(emit[s].id))
    BY <1>1, <2>2, PutType, EventsType DEF TypeOK, HistoryType
  <2>3. CASE c # None /\ Suspend(s, c) /\ UNCHANGED queue
    BY <1>1, <2>3 DEF TypeOK, QueueType, HistoryType, SessionType, Suspend
  <2>. QED  BY <2>1, <2>2, <2>3 DEF WriteOwner
<1>3. EmitType'
  <2>1. CASE UNCHANGED emit
    BY <2>1, SameType DEF WriteOwner
  <2>2. CASE StartFan(s)
    <3>1. Cardinality(watchers) \in Nat
      BY FS_Subset, FS_CardinalityType, StreamAssumption DEF TypeOK, SessionType
    <3>2. f \in OnEventCall /\ f.id = emit[s].id
      BY <1>1, <3>1 DEF OnEventCall
    <3>3. emit' = [emit EXCEPT ![s] = f]
      BY <2>2 DEF StartFan
    <3>. QED  BY <1>1, <3>2, <3>3, StepEmitType DEF WriteOwner
  <2>. QED  BY <2>1, <2>2 DEF WriteOwner
<1>4. cpu' \in {Free} \cup Sources \cup Conns
  BY DEF WriteOwner, Suspend, TypeOK, ConnType
<1>5. UNCHANGED <<session, subs, sub, conn, client, events, cut, bounds>>
  BY DEF WriteOwner
<1>. QED  BY <1>2, <1>3, <1>4, <1>5, SameType DEF TypeOK, HistoryType

LEMMA NextWatcherType ==
  ASSUME TypeOK, NEW s \in Sources, NextWatcher(s)
  PROVE  TypeOK'
<1>1. emit[s] \in OnEventCall /\ emit[s].id \in Ids
  BY DEF TypeOK, EmitType, NextWatcher
<1>2. EmitType'
  <2>1. ASSUME NEW e \in OnEventCall, e.id = emit[s].id, emit' = [emit EXCEPT ![s] = e]
        PROVE  EmitType'
    BY <1>1, <2>1, StepEmitType DEF NextWatcher
  <2>2. ASSUME NEW p \in {"end", "dead"}
        PROVE  /\ [emit[s] EXCEPT !.pc = p] \in OnEventCall
               /\ [emit[s] EXCEPT !.pc = p].id = emit[s].id
    BY <1>1 DEF OnEventCall
  <2>3. ASSUME NEW w \in watchers
        PROVE  /\ [emit[s] EXCEPT !.at = w] \in OnEventCall
               /\ [emit[s] EXCEPT !.at = w].id = emit[s].id
    BY <1>1 DEF OnEventCall, TypeOK, SessionType
  <2>4. \/ emit' = [emit EXCEPT ![s] = [emit[s] EXCEPT !.pc = "dead"]]
        \/ emit' = [emit EXCEPT ![s] = [emit[s] EXCEPT !.pc = "end"]]
        \/ \E w \in watchers : emit' = [emit EXCEPT ![s] = [emit[s] EXCEPT !.at = w]]
    BY DEF NextWatcher
  <2>. QED  BY <2>1, <2>2, <2>3, <2>4
<1>3. cut' \subseteq Ids /\ cpu' \in {Free} \cup Sources \cup Conns
  BY <1>1 DEF NextWatcher, TypeOK, HistoryType, ConnType
<1>4. UNCHANGED <<session, subs, sub, conn, queue, client, events, slow, bounds>>
  BY DEF NextWatcher
<1>. QED  BY <1>2, <1>3, <1>4, SameType DEF TypeOK, HistoryType

LEMMA WriteWatcherType ==
  ASSUME TypeOK, NEW s \in Sources, WriteWatcher(s)
  PROVE  TypeOK'
<1>. DEFINE c == emit[s].at
            e == [emit[s] EXCEPT !.at = None, !.done = @ \cup {c}]
<1>1. emit[s] \in OnEventCall /\ emit[s].id \in Ids /\ c \in Conns
  BY DEF TypeOK, EmitType, OnEventCall, WriteWatcher
<1>2. QueueType' /\ slow' \subseteq Conns
  <2>1. CASE Put(s, c, EventFrame(emit[s].id))
    BY <1>1, <2>1, PutType, EventsType DEF TypeOK, HistoryType
  <2>2. CASE Suspend(s, c) /\ UNCHANGED queue
    BY <1>1, <2>2 DEF TypeOK, QueueType, HistoryType, SessionType, Suspend
  <2>. QED  BY <2>1, <2>2 DEF WriteWatcher
<1>3. EmitType'
  <2>1. e \in OnEventCall /\ e.id = emit[s].id
    BY <1>1 DEF OnEventCall
  <2>2. CASE UNCHANGED emit
    BY <2>2, SameType DEF WriteWatcher
  <2>3. CASE emit' = [emit EXCEPT ![s] = e]
    BY <1>1, <2>1, <2>3, StepEmitType DEF WriteWatcher
  <2>. QED  BY <2>2, <2>3 DEF WriteWatcher
<1>4. cpu' \in {Free} \cup Sources \cup Conns
  BY DEF WriteWatcher, Suspend
<1>5. UNCHANGED <<session, subs, sub, conn, client, events, cut, bounds>>
  BY DEF WriteWatcher
<1>. QED  BY <1>2, <1>3, <1>4, <1>5, SameType DEF TypeOK, HistoryType

LEMMA EndEventType ==
  ASSUME TypeOK, NEW s \in Sources, EndEvent(s)
  PROVE  TypeOK'
<1>1. EmitType'
  BY IdleType, StepEmitType DEF EndEvent, Idle
<1>2. SessionType'
  BY SameType DEF EndEvent, TypeOK, SessionType, subs
<1>3. UNCHANGED <<sub, conn, queue, client, events, slow, cut, bounds>> /\ cpu' = Free
  BY DEF EndEvent
<1>. QED  BY <1>1, <1>2, <1>3, SameType DEF TypeOK, HistoryType

(* What a step may do to the counts and the histories of the session.      *)
BoundsType ==
  /\ unsaved \subseteq Ids /\ struck \subseteq Ids
  /\ reloads \in Nat /\ fails \in Nat /\ misses \in Nat

(* What keeps its type when an event is added to the history.              *)
LEMMA GrowType ==
  ASSUME TypeOK, NEW e \in [seq : Nat, size : Nat, kind : EventKinds],
         events' = Append(events, e)
  PROVE  /\ Len(events) + 1 \in Nat
         /\ Ids' = Ids \cup {Len(events) + 1} /\ Ids' \subseteq Nat
         /\ UNCHANGED sub => SubType'
         /\ UNCHANGED <<slow, cut>> /\ BoundsType' => HistoryType'
<1>1. Len(events) \in Nat /\ Ids = 1 .. Len(events)
  BY EventsType DEF TypeOK
<1>2. /\ events' \in Seq([seq : Nat, size : Nat, kind : EventKinds])
      /\ Len(events') = Len(events) + 1
  BY AppendProperties DEF TypeOK, HistoryType
<1>3. Ids' = Ids \cup {Len(events) + 1} /\ Ids' \subseteq Nat
  BY <1>1, <1>2 DEF Ids
<1>4. UNCHANGED sub => SubType'
  BY <1>3 DEF TypeOK, SubType, Subscription
<1>5. UNCHANGED <<slow, cut>> /\ BoundsType' => HistoryType'
  BY <1>2, <1>3 DEF TypeOK, HistoryType, BoundsType
<1>. QED  BY <1>1, <1>3, <1>4, <1>5

LEMMA OnEventType ==
  ASSUME TypeOK, NEW s \in Sources, NEW size \in Sizes, NEW kind \in Kinds,
         OnEvent(s, size, kind)
  PROVE  TypeOK'
<1>. DEFINE id == Len(events) + 1
            e == [seq |-> seq + 1, size |-> size, kind |-> kind]
<1>1. e \in [seq : Nat, size : Nat, kind : EventKinds] /\ events' = Append(events, e)
  BY StreamAssumption DEF OnEvent, NewEvent, TypeOK, SessionType
<1>2. id \in Nat /\ Ids' = Ids \cup {id} /\ Ids' \subseteq Nat
  BY <1>1, GrowType
<1>6. turns' \in Nat /\ sidecar' \in Nat /\ unsaved' \subseteq Ids' /\ misses' \in Nat
  <2>1. turns \in Nat /\ sidecar \in Nat /\ misses \in Nat /\ unsaved \subseteq Ids
    BY DEF TypeOK, SessionType, HistoryType
  <2>2. CountTurn(id, kind)
    BY DEF OnEvent
  <2>3. turns + 1 \in Nat /\ id \in Ids' /\ Ids \subseteq Ids'
    BY <1>2, <2>1
  <2>. HIDE DEF id
  <2>4. turns' \in Nat
    BY <2>1, <2>2, <2>3 DEF CountTurn
  <2>5. CASE kind \in {"bare", "output"}
    BY <2>1, <2>2, <2>3, <2>4, <2>5 DEF CountTurn
  <2>6. ASSUME NEW n \in Nat, NEW counted \in SUBSET Ids', SaveSidecar(n, counted)
        PROVE  sidecar' \in Nat /\ unsaved' \subseteq Ids' /\ misses' \in Nat
    BY <2>1, <2>3, <2>6 DEF SaveSidecar
  <2>7. CASE kind \in {"result", "init"}
    <3>1. SaveSidecar(turns + 1, {id}) \/ SaveSidecar(turns, {})
      BY <2>2, <2>7 DEF CountTurn
    <3>2. {id} \in SUBSET Ids' /\ {} \in SUBSET Ids'
      BY <2>3
    <3>. QED  BY <2>1, <2>3, <2>4, <2>6, <3>1, <3>2
  <2>. QED  BY <2>2, <2>5, <2>7 DEF CountTurn
<1>3. SessionType'
  <2>1. ring' \subseteq Ids'
    BY <1>2, NewestSubset DEF OnEvent, RingAppend, TypeOK, SessionType
  <2>2. IsFile(file, Ids') /\ id \in Ids' /\ Ids' \in SUBSET Nat
    BY <1>2, FileOfMore DEF TypeOK, SessionType
  <2>3. IsFile(file', Ids')
    <3>1. IsFile(LogAppend(file, id), Ids') /\ IsFile(LogAppendFails(file, id), Ids')
      BY <2>2, LogWriteType
    <3>. QED  BY <3>1 DEF OnEvent, LogWrite
  <2>4. turns' \in Nat /\ sidecar' \in Nat
    BY <1>6
  <2>5. /\ loaded' \in BOOLEAN /\ seq' \in Nat /\ backend' \in {"none", "idle", "turn"}
        /\ UNCHANGED <<finishing, closing, writer, watchers>>
    BY DEF OnEvent, TypeOK, SessionType, subs
  <2>. QED  BY <2>1, <2>3, <2>4, <2>5 DEF TypeOK, SessionType
<1>4. EmitType'
  <2>. DEFINE call == [Idle EXCEPT !.pc = "write", !.id = id, !.at = writer]
  <2>1. call \in OnEventCall /\ call.id = id
    BY <1>2 DEF Idle, OnEventCall, TypeOK, SessionType
  <2>2. emit' = [emit EXCEPT ![s] = call]
    BY DEF OnEvent
  <2>. QED  BY <1>2, <2>1, <2>2 DEF TypeOK, EmitType
<1>5. QueueType' /\ ConnType' /\ ClientType'
  BY DEF OnEvent, TypeOK, QueueType, ConnType, ClientType, conn, client
<1>8. BoundsType'
  <2>1. fails' \in Nat /\ UNCHANGED <<reloads, struck>>
    BY DEF OnEvent, LogWrite, TypeOK, HistoryType
  <2>. QED  BY <1>2, <1>6, <2>1 DEF TypeOK, HistoryType, BoundsType
<1>7. SubType' /\ HistoryType'
  BY <1>1, <1>8, GrowType DEF OnEvent
<1>. QED  BY <1>3, <1>4, <1>5, <1>7 DEF TypeOK

LEMMA SourceStepType ==
  ASSUME TypeOK, NEW s \in Sources, SourceStep(s)
  PROVE  TypeOK'
BY OnEventType, WriteOwnerType, NextWatcherType, WriteWatcherType, EndEventType
   DEF SourceStep

(* The session leaves the memory.                                          *)
LEMMA UnloadType ==
  ASSUME TypeOK, Unload
  PROVE  /\ loaded' \in BOOLEAN /\ seq' \in Nat /\ ring' = {} /\ turns' \in Nat
         /\ sidecar' \in Nat /\ watchers' \subseteq Conns
         /\ finishing' \in BOOLEAN /\ closing' \in BOOLEAN
         /\ unsaved' = {} /\ reloads' \in Nat /\ fails' \in Nat /\ misses' \in Nat
<1>1. /\ loaded' = FALSE /\ seq' = 0 /\ ring' = {} /\ turns' = 0 /\ watchers' = {}
      /\ finishing' = FALSE /\ closing' = FALSE /\ unsaved' = {} /\ reloads' = reloads + 1
      /\ UNCHANGED <<sidecar, fails, misses>>
  BY DEF Unload
<1>2. sidecar \in Nat /\ reloads \in Nat /\ fails \in Nat /\ misses \in Nat
  BY DEF TypeOK, SessionType, HistoryType
<1>3. loaded' \in BOOLEAN /\ finishing' \in BOOLEAN /\ closing' \in BOOLEAN
  BY <1>1, Zenon
<1>4. seq' \in Nat /\ turns' \in Nat /\ reloads' \in Nat
  BY <1>1, <1>2
<1>5. ring' = {} /\ watchers' \subseteq Conns /\ unsaved' = {}
  BY <1>1, Zenon
<1>6. sidecar' \in Nat /\ fails' \in Nat /\ misses' \in Nat
  BY <1>1, <1>2
<1>. QED  BY <1>3, <1>4, <1>5, <1>6

(* The end of the child, for every way it can come about.                  *)
LEMMA CloseBackendType ==
  ASSUME TypeOK, UNCHANGED events, CloseBackend
  PROVE  EmitType' /\ cut' \subseteq Ids /\ backend' \in {"none", "idle", "turn"}
<1>1. \A s \in Fanning : emit[s].id \in Ids
  BY DEF TypeOK, EmitType, Fanning
<1>2. EmitType'
  BY IdleType, SameType DEF CloseBackend, EmitType, Idle
<1>. QED  BY <1>1, <1>2 DEF CloseBackend, TypeOK, HistoryType

LEMMA SoftKillType ==
  ASSUME TypeOK, SoftKill
  PROVE  TypeOK'
<1>1. UNCHANGED events /\ CloseBackend
  BY DEF SoftKill
<1>2. EmitType' /\ cut' \subseteq Ids /\ backend' \in {"none", "idle", "turn"}
  BY <1>1, CloseBackendType
<1>3. SessionType'
  BY <1>1, <1>2, SameType DEF SoftKill, TypeOK, SessionType, subs
<1>4. UNCHANGED <<sub, conn, queue, client, slow, bounds, cpu>>
  BY DEF SoftKill
<1>. QED  BY <1>1, <1>2, <1>3, <1>4, SameType DEF TypeOK, HistoryType, ConnType

LEMMA ReapType ==
  ASSUME TypeOK, Reap
  PROVE  TypeOK'
<1>1. UNCHANGED events /\ CloseBackend
  BY DEF Reap
<1>2. EmitType' /\ cut' \subseteq Ids /\ backend' \in {"none", "idle", "turn"}
  BY <1>1, CloseBackendType
<1>3. IsFile(file', Ids)
  <2>1. IsFile(file, Ids) /\ Ids \in SUBSET Nat /\ file.unflushed \in SUBSET Ids
    BY EventsType DEF TypeOK, SessionType, IsFile
  <2>2. file.unflushed # {} => IsFile(Flushed(file, file.unflushed), Ids)
    BY <2>1, FlushedType
  <2>. QED  BY <2>1, <2>2 DEF Reap
<1>7. Unload /\ struck' = struck \cup unsaved /\ UNCHANGED writer
  BY DEF Reap
<1>8. Ids' = Ids
  BY <1>1, SameType
<1>4. SessionType'
  BY <1>2, <1>3, <1>7, <1>8, UnloadType DEF TypeOK, SessionType
<1>5. UNCHANGED <<sub, conn, queue, client, slow, cpu>>
  BY DEF Reap
<1>6. HistoryType'
  <2>1. events' \in Seq([seq : Nat, size : Nat, kind : EventKinds]) /\ slow' \subseteq Conns
    BY <1>1, <1>5 DEF TypeOK, HistoryType
  <2>2. struck' \subseteq Ids
    BY <1>7 DEF TypeOK, HistoryType
  <2>. QED  BY <1>2, <1>7, <1>8, <2>1, <2>2, UnloadType DEF HistoryType
<1>. QED  BY <1>1, <1>2, <1>4, <1>5, <1>6, SameType DEF TypeOK, ConnType

(* What a kill leaves, of whatever the log has become.                     *)
LEMMA KilledType ==
  ASSUME TypeOK, Killed, Ids \subseteq Ids', IsFile(file', Ids'), struck' \subseteq Ids',
         events' \in Seq([seq : Nat, size : Nat, kind : EventKinds])
  PROVE  TypeOK'
<1>0. Unload /\ UNCHANGED <<cpu, role, connects, from, client, slow, cut>>
  BY DEF Killed
<1>1. SessionType'
  <2>1. writer' \in Conns \cup {None} /\ backend' \in {"none", "idle", "turn"}
    BY DEF Killed
  <2>. QED  BY <1>0, <2>1, UnloadType DEF SessionType
<1>2. EmitType' /\ SubType'
  BY IdleType DEF Killed, EmitType, SubType, Subscription, Idle
<1>3. QueueType' /\ ConnType'
  BY StreamAssumption DEF Killed, QueueType, ConnType, TypeOK
<1>4. ClientType'
  BY <1>0 DEF ClientType, TypeOK, client
<1>5. HistoryType'
  <2>1. slow' \subseteq Conns /\ cut' \subseteq Ids'
    BY <1>0 DEF TypeOK, HistoryType
  <2>. QED  BY <1>0, <2>1, UnloadType DEF HistoryType
<1>. QED  BY <1>1, <1>2, <1>3, <1>4, <1>5 DEF TypeOK

LEMMA CrashType ==
  ASSUME TypeOK, NEW units \in Nat, Crash(units)
  PROVE  TypeOK'
<1>1. UNCHANGED events /\ Ids' = Ids
  BY SameType DEF Crash
<1>2. IsFile(file', Ids)
  <2>1. IsFile(file, Ids)
    BY DEF TypeOK, SessionType
  <2>. QED  BY <2>1 DEF Crash, LogCrash, IsFile
<1>3. struck' \subseteq Ids /\ events' \in Seq([seq : Nat, size : Nat, kind : EventKinds])
  BY <1>1 DEF Crash, HistoryType, TypeOK
<1>. QED  BY <1>1, <1>2, <1>3, KilledType DEF Crash

LEMMA CrashInEventType ==
  ASSUME TypeOK, NEW size \in Sizes, NEW kind \in Kinds, CrashInEvent(size, kind)
  PROVE  TypeOK'
<1>. DEFINE id == Len(events) + 1
            e == [seq |-> seq + 1, size |-> size, kind |-> kind]
<1>1. e \in [seq : Nat, size : Nat, kind : EventKinds] /\ events' = Append(events, e)
  BY StreamAssumption DEF CrashInEvent, NewEvent, TypeOK, SessionType
<1>2. id \in Nat /\ Ids' = Ids \cup {id} /\ Ids' \subseteq Nat
  BY <1>1, GrowType
<1>3. IsFile(file', Ids')
  <2>1. IsFile(file, Ids') /\ id \in Ids' /\ Ids' \in SUBSET Nat
    BY <1>2, FileOfMore DEF TypeOK, SessionType
  <2>2. IsFile(LogAppend(file, id), Ids')
    BY <2>1, LogWriteType
  <2>3. file' = LogCrash(LogAppend(file, id), 0)
    BY DEF CrashInEvent
  <2>. QED  BY <2>2, <2>3 DEF LogCrash, IsFile
<1>4. struck' \subseteq Ids'
  <2>1. struck \subseteq Ids /\ unsaved \subseteq Ids
    BY DEF TypeOK, HistoryType
  <2>2. struck' = struck \cup unsaved \cup {id}
    BY DEF CrashInEvent
  <2>. HIDE DEF id
  <2>. QED  BY <1>2, <2>1, <2>2
<1>5. events' \in Seq([seq : Nat, size : Nat, kind : EventKinds])
  BY <1>1, AppendProperties DEF TypeOK, HistoryType
<1>6. Killed
  BY DEF CrashInEvent
<1>. QED  BY <1>2, <1>3, <1>4, <1>5, <1>6, KilledType

-----------------------------------------------------------------------------
(* A connection that has not subscribed has nothing in its queue, so that  *)
(* the ack of its open or watch finds room: nobody writes to it.  Nor has  *)
(* its client received anything.                                           *)
Fresh ==
  \A c \in Conns : role[c] = "none" =>
    /\ queue[c] = <<>> /\ rcv[c] = <<>>
    /\ c # writer /\ c \notin watchers
    /\ sub[c].pc = "idle"
    /\ \A s \in Sources : ~WaitsOn(s, c)

LEMMA AckType ==
  ASSUME TypeOK, Fresh, NEW c \in Conns, Subscribable(c), NEW n \in Nat,
         queue' = [queue EXCEPT ![c] = Append(@, AckFrame(n))]
  PROVE  QueueType'
<1>1. queue[c] = <<>> /\ Len(queue[c]) < QueueSize
  BY StreamAssumption DEF Fresh, Subscribable
<1>. QED  BY <1>1, GapFrameType, AppendType DEF TypeOK

LEMMA ReplayType ==
  ASSUME TypeOK, NEW r \in SUBSET Ids, NEW since \in Nat
  PROVE  Replay(r, SeqOf, since) \in Subscription
<1>1. EarliestSeq(r, SeqOf) \in Nat
  BY EventsType, EarliestType DEF TypeOK
<1>2. Since(r, SeqOf, since) \in SUBSET Ids
  BY DEF Since
<1>. QED  BY <1>1, <1>2, IdleType DEF Replay, NoSub, Subscription

LEMMA OpenType ==
  ASSUME TypeOK, Fresh, NEW c \in Conns, NEW since \in Nat, Open(c, since)
  PROVE  TypeOK'
<1>. DEFINE newRing == IF loaded THEN ring ELSE Seeded
            newSeq  == IF loaded THEN seq ELSE LatestSeq(Seeded, SeqOf)
<1>1. UNCHANGED events /\ Ids' = Ids
  BY SameType DEF Open
<1>2. Seeded \in SUBSET Ids
  BY LogTailSubset, NewestSubset DEF Seeded, RingExtend, TypeOK, SessionType, IsFile
<1>3. newRing \in SUBSET Ids /\ newSeq \in Nat
  BY <1>2, EventsType, EarliestType DEF TypeOK, SessionType
<1>4. SessionType'
  BY <1>1, <1>3 DEF Open, TypeOK, SessionType
<1>5. QueueType'
  <2>1. queue' = [queue EXCEPT ![c] = Append(@, AckFrame(newSeq))] /\ Subscribable(c)
    BY DEF Open
  <2>. QED  BY <1>3, <2>1, AckType
<1>6. SubType'
  <2>1. sub' = [sub EXCEPT ![c] = Replay(newRing, SeqOf, since)]
    BY DEF Open
  <2>2. Replay(newRing, SeqOf, since) \in Subscription
    BY <1>3, ReplayType
  <2>. QED  BY <1>1, <2>1, <2>2, StepSubType
<1>7. ConnType'
  BY DEF Open, TypeOK, ConnType
<1>8. UNCHANGED <<emit, client, slow, cut, bounds>>
  BY DEF Open
<1>. QED  BY <1>1, <1>4, <1>5, <1>6, <1>7, <1>8, SameType DEF TypeOK, HistoryType

LEMMA WatchType ==
  ASSUME TypeOK, Fresh, NEW c \in Conns, NEW since \in Nat, NEW replay \in BOOLEAN,
         Watch(c, since, replay)
  PROVE  TypeOK'
<1>1. UNCHANGED events /\ Ids' = Ids
  BY SameType DEF Watch
<1>2. seq \in Nat /\ ring \in SUBSET Ids
  BY DEF TypeOK, SessionType
<1>3. SessionType'
  BY <1>1 DEF Watch, TypeOK, SessionType, session
<1>4. QueueType'
  BY <1>2, AckType DEF Watch
<1>5. SubType'
  <2>1. Replay(ring, SeqOf, since) \in Subscription
    BY <1>2, ReplayType
  <2>2. sub' = [sub EXCEPT ![c] = Replay(ring, SeqOf, since)] \/ UNCHANGED sub
    BY DEF Watch
  <2>. QED  BY <1>1, <2>1, <2>2, StepSubType, SameType
<1>6. ConnType'
  BY <1>2 DEF Watch, TypeOK, ConnType
<1>7. ClientType'
  <2>. DEFINE Gap == Nat \X Nat
  <2>1. <<0, seq + 1>> \in Gap /\ told \in [Conns -> SUBSET Gap]
    BY <1>2 DEF TypeOK, ClientType
  <2>. HIDE DEF Gap
  <2>2. told' \in [Conns -> SUBSET Gap]
    BY <2>1 DEF Watch
  <2>3. told' \in [Conns -> SUBSET (Nat \X Nat)]
    BY <2>2 DEF Gap
  <2>. QED  BY <2>3 DEF Watch, TypeOK, ClientType
<1>8. UNCHANGED <<emit, cut, bounds>> /\ slow' \subseteq Conns
  BY DEF Watch, TypeOK, HistoryType
<1>. QED  BY <1>1, <1>3, <1>4, <1>5, <1>6, <1>7, <1>8, SameType DEF TypeOK, HistoryType

LEMMA ReplayFrameType ==
  ASSUME TypeOK, NEW c \in Conns, ReplayFrame(c)
  PROVE  TypeOK'
<1>. DEFINE id == Min(sub[c].todo)
            b  == [sub[c] EXCEPT !.todo = @ \ {id}]
<1>1. sub[c] \in Subscription /\ id \in Ids
  <2>1. sub[c] \in Subscription /\ sub[c].todo \in SUBSET Nat /\ sub[c].todo # {}
    BY EventsType DEF ReplayFrame, TypeOK, SubType, Subscription
  <2>. QED  BY <2>1, MinIsMember DEF Subscription
<1>2. QueueType' /\ slow' \subseteq Conns
  <2>1. CASE Put(c, c, EventFrame(id))
    BY <1>1, <2>1, PutType, EventsType DEF TypeOK, HistoryType
  <2>2. CASE Suspend(c, c) /\ UNCHANGED queue
    BY <2>2 DEF TypeOK, QueueType, HistoryType, SessionType, Suspend
  <2>. QED  BY <2>1, <2>2 DEF ReplayFrame
<1>3. SubType'
  <2>1. b \in Subscription
    BY <1>1 DEF Subscription
  <2>2. UNCHANGED sub \/ sub' = [sub EXCEPT ![c] = b]
    BY DEF ReplayFrame
  <2>. QED  BY <2>1, <2>2, StepSubType, SameType DEF ReplayFrame
<1>4. cpu' \in {Free} \cup Sources \cup Conns
  BY DEF ReplayFrame, Suspend
<1>5. UNCHANGED <<session, subs, emit, conn, client, events, cut, bounds>>
  BY DEF ReplayFrame
<1>. QED  BY <1>2, <1>3, <1>4, <1>5, SameType DEF TypeOK, HistoryType

LEMMA EndReplayType ==
  ASSUME TypeOK, NEW c \in Conns, EndReplay(c)
  PROVE  TypeOK'
<1>. DEFINE b == [sub[c] EXCEPT !.pc = "last", !.last = GapOf(c)]
<1>1. sub[c] \in Subscription /\ seq \in Nat
  BY DEF TypeOK, SubType, SessionType
<1>2. GapOf(c) \in Frame
  <2>1. sub[c].since \in Nat /\ sub[c].earliest \in Nat
    BY <1>1 DEF Subscription
  <2>. QED  BY <1>1, <2>1, GapFrameType DEF GapOf
<1>3. SubType'
  <2>1. b \in Subscription
    BY <1>1, <1>2 DEF Subscription
  <2>2. sub' = [sub EXCEPT ![c] = b] \/ sub' = [sub EXCEPT ![c] = NoSub]
    BY DEF EndReplay
  <2>. QED  BY <2>1, <2>2, IdleType, StepSubType DEF EndReplay
<1>4. SessionType'
  BY <1>1, SameType DEF EndReplay, TypeOK, SessionType, subs
<1>5. cpu' \in {Free} \cup Sources \cup Conns
  BY DEF EndReplay, TypeOK, ConnType
<1>6. UNCHANGED <<emit, conn, queue, client, events, slow, cut, bounds>>
  BY DEF EndReplay
<1>. QED  BY <1>3, <1>4, <1>5, <1>6, SameType DEF TypeOK, HistoryType

LEMMA SendLastType ==
  ASSUME TypeOK, NEW c \in Conns, SendLast(c)
  PROVE  TypeOK'
<1>1. sub[c].last \in Frame
  BY DEF TypeOK, SubType, Subscription
<1>2. QueueType' /\ slow' \subseteq Conns
  <2>1. CASE Put(c, c, sub[c].last)
    BY <1>1, <2>1, PutType DEF TypeOK, HistoryType
  <2>2. CASE Suspend(c, c) /\ UNCHANGED queue
    BY <2>2 DEF TypeOK, QueueType, HistoryType, SessionType, Suspend
  <2>. QED  BY <2>1, <2>2 DEF SendLast
<1>3. SubType'
  BY IdleType, StepSubType, SameType DEF SendLast
<1>4. cpu' \in {Free} \cup Sources \cup Conns
  BY DEF SendLast, Suspend
<1>5. UNCHANGED <<session, subs, emit, conn, client, events, cut, bounds>>
  BY DEF SendLast
<1>. QED  BY <1>2, <1>3, <1>4, <1>5, SameType DEF TypeOK, HistoryType

(* An entry that leaves the watchers is forgotten by the loops over them.  *)
LEMMA ForgetType ==
  ASSUME TypeOK, UNCHANGED events, NEW c \in Conns, Forget(c)
  PROVE  EmitType'
<1>1. ASSUME NEW s \in Sources
      PROVE  emit'[s] \in OnEventCall /\ emit'[s].id = emit[s].id /\ emit'[s].pc = emit[s].pc
  BY DEF Forget, TypeOK, EmitType, OnEventCall
<1>. QED  BY <1>1, SameType DEF Forget, TypeOK, EmitType

LEMMA UnwatchType ==
  ASSUME TypeOK, NEW c \in Conns, Unwatch(c)
  PROVE  TypeOK'
<1>1. EmitType'
  BY ForgetType DEF Unwatch
<1>2. SessionType'
  BY SameType DEF Unwatch, TypeOK, SessionType, session
<1>3. ConnType'
  BY DEF Unwatch, TypeOK, ConnType
<1>4. SubType'
  <2>1. [NoSub EXCEPT !.pc = "last"] \in Subscription
    BY IdleType DEF Subscription
  <2>. QED  BY <2>1, StepSubType DEF Unwatch
<1>5. UNCHANGED <<queue, client, events, slow, cut, bounds>>
  BY DEF Unwatch
<1>. QED  BY <1>1, <1>2, <1>3, <1>4, <1>5, SameType DEF TypeOK, HistoryType

LEMMA UserType ==
  ASSUME TypeOK, NEW c \in Conns, User(c)
  PROVE  TypeOK'
<1>1. SessionType'
  BY SameType DEF User, TypeOK, SessionType, subs
<1>2. UNCHANGED <<emit, sub, conn, queue, client, events, slow, cut, bounds, cpu>>
  BY DEF User
<1>. QED  BY <1>1, <1>2, SameType DEF TypeOK, HistoryType, ConnType

LEMMA DeliverType ==
  ASSUME TypeOK, NEW c \in Conns, Deliver(c)
  PROVE  TypeOK'
<1>. DEFINE f == Head(queue[c])
<1>1. /\ queue[c] \in Seq(Frame) /\ Len(queue[c]) \in Nat /\ f \in Frame
      /\ Tail(queue[c]) \in Seq(Frame) /\ Len(Tail(queue[c])) = Len(queue[c]) - 1
  BY HeadTailProperties, LenProperties DEF Deliver, TypeOK, QueueType
<1>2. QueueType'
  <2>1. queue' = [queue EXCEPT ![c] = Tail(@)]
    BY DEF Deliver
  <2>2. queue' \in [Conns -> Seq(Frame)]
    BY <1>1, <2>1 DEF TypeOK, QueueType
  <2>3. \A d \in Conns : Len(queue'[d]) <= QueueSize
    BY <1>1, <2>1, StreamAssumption DEF TypeOK, QueueType
  <2>. QED  BY <2>2, <2>3 DEF QueueType
<1>3. ClientType'
  <2>1. rcv' \in [Conns -> Seq(Frame)]
    BY <1>1, AppendProperties DEF Deliver, TypeOK, ClientType
  <2>2. f.seq \in Nat /\ f.id \in Nat /\ f.since \in Nat /\ f.first \in Nat
    BY <1>1 DEF Frame
  <2>3. lastSeq' \in [Conns -> Nat]
    BY <2>2 DEF Deliver, TypeOK, ClientType
  <2>4. seen' \in [Conns -> SUBSET Nat]
    BY <2>2 DEF Deliver, TypeOK, ClientType
  <2>5. told' \in [Conns -> SUBSET (Nat \X Nat)]
    BY <2>2 DEF Deliver, TypeOK, ClientType
  <2>. QED  BY <2>1, <2>3, <2>4, <2>5 DEF ClientType
<1>4. UNCHANGED <<session, subs, cpu, emit, sub, conn, events, slow, cut, bounds>>
  BY DEF Deliver
<1>. QED  BY <1>2, <1>3, <1>4, SameType DEF TypeOK, HistoryType, ConnType

LEMMA ConnectType ==
  ASSUME TypeOK, NEW c \in Conns, Connect(c)
  PROVE  TypeOK'
<1>1. EmitType'
  <2>1. ASSUME NEW s \in Sources
        PROVE  /\ emit'[s] \in OnEventCall /\ emit'[s].id = emit[s].id
               /\ emit[s].pc = "idle" => emit'[s].pc = "idle"
    BY DEF Connect, WaitsOn, TypeOK, EmitType, OnEventCall
  <2>2. emit' \in [Sources -> OnEventCall]
    BY <2>1 DEF Connect
  <2>. QED  BY <2>1, <2>2, SameType DEF TypeOK, EmitType, Connect
<1>2. SubType'
  BY IdleType, StepSubType DEF Connect
<1>3. QueueType'
  BY StreamAssumption DEF Connect, TypeOK, QueueType
<1>4. ConnType'
  BY DEF Connect, TypeOK, ConnType
<1>5. ClientType'
  BY DEF Connect, TypeOK, ClientType
<1>6. UNCHANGED <<session, subs, events, cut, bounds>> /\ slow' \subseteq Conns
  BY DEF Connect, TypeOK, HistoryType
<1>. QED  BY <1>1, <1>2, <1>3, <1>4, <1>5, <1>6, SameType DEF TypeOK, HistoryType

LEMMA DropType ==
  ASSUME TypeOK, NEW c \in Conns, Drop(c) \/ StopServing(c)
  PROVE  TypeOK'
<1>1. ConnType'
  BY DEF Drop, StopServing, TypeOK, ConnType
<1>2. UNCHANGED <<session, subs, emit, sub, queue, client, events, slow, cut, bounds>>
  BY DEF Drop, StopServing
<1>. QED  BY <1>1, <1>2, SameType DEF TypeOK, HistoryType

LEMMA DetachType ==
  ASSUME TypeOK, NEW c \in Conns, Detach(c)
  PROVE  TypeOK'
<1>1. EmitType'
  BY ForgetType DEF Detach
<1>2. SessionType'
  BY SameType DEF Detach, TypeOK, SessionType
<1>3. UNCHANGED <<cpu, sub, conn, queue, client, events, slow, cut, bounds>>
  BY DEF Detach
<1>. QED  BY <1>1, <1>2, <1>3, SameType DEF TypeOK, HistoryType, ConnType

(* A step keeps Fresh if it leaves the connections alone that have not     *)
(* subscribed.                                                             *)
LEMMA FreshKept ==
  ASSUME TypeOK, Fresh, UNCHANGED <<role, rcv>>,
         \A c \in Conns : role[c] = "none" =>
           /\ queue'[c] = queue[c] /\ sub'[c].pc = sub[c].pc
           /\ c # writer' /\ c \notin watchers'
           /\ \A s \in Sources : emit'[s].pc \in {"write", "fan"} /\ emit'[s].at = c
                                   => WaitsOn(s, c)
  PROVE  Fresh'
BY DEF Fresh, WaitsOn

LEMMA PutElsewhere ==
  ASSUME QueueType, NEW t, NEW d \in Conns, NEW f, Put(t, d, f), NEW c \in Conns, c # d
  PROVE  queue'[c] = queue[c]
BY DEF Put, QueueType

LEMMA ForgetSame ==
  ASSUME emit \in [Sources -> OnEventCall], NEW c \in Conns, Forget(c), NEW s \in Sources
  PROVE  emit'[s].pc = emit[s].pc /\ emit'[s].at = emit[s].at /\ emit'[s].id = emit[s].id
BY DEF Forget, OnEventCall

LEMMA SourceStepFresh ==
  ASSUME TypeOK, Fresh, NEW s \in Sources, SourceStep(s)
  PROVE  Fresh'
<1>1. emit \in [Sources -> OnEventCall] /\ QueueType
  BY DEF TypeOK, EmitType
<1>2. ASSUME NEW c \in Conns, role[c] = "none"
      PROVE  c # writer /\ c \notin watchers /\ ~WaitsOn(s, c)
  BY <1>2 DEF Fresh
<1>3. ASSUME NEW size \in Sizes, NEW kind \in Kinds, OnEvent(s, size, kind)
      PROVE  Fresh'
  <2>1. ASSUME NEW t \in Sources, NEW c \in Conns, role[c] = "none", emit'[t].at = c
        PROVE  emit'[t] = emit[t]
    BY <1>1, <1>2, <1>3, <2>1 DEF OnEvent, Idle
  <2>. QED  BY <1>2, <1>3, <2>1, FreshKept DEF OnEvent, conn, subs, client, WaitsOn
<1>4. CASE WriteOwner(s)
  <2>1. ASSUME NEW t \in Sources, NEW c \in Conns, emit'[t].at = c
        PROVE  emit'[t] = emit[t]
    BY <1>1, <1>4, <2>1, StreamAssumption DEF WriteOwner, StartFan, OnEventCall
  <2>2. ASSUME NEW c \in Conns, role[c] = "none"
        PROVE  queue'[c] = queue[c]
    <3>1. c # emit[s].at
      BY <1>2, <1>4, <2>2 DEF WaitsOn, WriteOwner
    <3>2. emit[s].at \in Conns \cup {None}
      BY <1>1 DEF OnEventCall
    <3>. QED  BY <1>1, <1>4, <3>1, <3>2, PutElsewhere DEF WriteOwner
  <2>. QED  BY <1>2, <1>4, <2>1, <2>2, FreshKept DEF WriteOwner, conn, subs, client, WaitsOn
<1>5. CASE NextWatcher(s)
  <2>1. ASSUME NEW t \in Sources, NEW c \in Conns, role[c] = "none",
               emit'[t].at = c, emit'[t].pc \in {"write", "fan"}
        PROVE  emit'[t] = emit[t]
    BY <1>1, <1>2, <1>5, <2>1, StreamAssumption DEF NextWatcher, OnEventCall
  <2>. QED  BY <1>2, <1>5, <2>1, FreshKept DEF NextWatcher, conn, subs, client, WaitsOn
<1>6. CASE WriteWatcher(s)
  <2>1. ASSUME NEW t \in Sources, NEW c \in Conns, emit'[t].at = c
        PROVE  emit'[t] = emit[t]
    BY <1>1, <1>6, <2>1, StreamAssumption DEF WriteWatcher, OnEventCall
  <2>2. ASSUME NEW c \in Conns, role[c] = "none"
        PROVE  queue'[c] = queue[c]
    <3>1. c # emit[s].at
      BY <1>2, <1>6, <2>2 DEF WaitsOn, WriteWatcher
    <3>2. emit[s].at \in Conns
      BY <1>1, <1>6 DEF OnEventCall, WriteWatcher
    <3>. QED  BY <1>1, <1>6, <3>1, <3>2, PutElsewhere DEF WriteWatcher
  <2>. QED  BY <1>2, <1>6, <2>1, <2>2, FreshKept DEF WriteWatcher, conn, subs, client, WaitsOn
<1>7. CASE EndEvent(s)
  <2>1. ASSUME NEW t \in Sources, NEW c \in Conns, emit'[t].at = c
        PROVE  emit'[t] = emit[t]
    BY <1>1, <1>7, <2>1, StreamAssumption DEF EndEvent, Idle
  <2>. QED  BY <1>2, <1>7, <2>1, FreshKept DEF EndEvent, conn, subs, client, WaitsOn
<1>. QED  BY <1>3, <1>4, <1>5, <1>6, <1>7 DEF SourceStep

LEMMA SubscribeStepFresh ==
  ASSUME TypeOK, Fresh, NEW c \in Conns, SubscribeStep(c)
  PROVE  Fresh'
<1>1. /\ sub \in [Conns -> Subscription] /\ QueueType
      /\ role \in [Conns -> {"none", "owner", "watcher", "done"}]
      /\ emit \in [Sources -> OnEventCall]
  BY DEF TypeOK, SubType, ConnType, EmitType
<1>2. ASSUME NEW since, Open(c, since)
      PROVE  Fresh'
  <2>1. role'[c] = "owner" /\ UNCHANGED <<emit, watchers, rcv>> /\ writer' = c
    BY <1>1, <1>2 DEF Open, client
  <2>2. \A d \in Conns \ {c} : role'[d] = role[d] /\ queue'[d] = queue[d] /\ sub'[d] = sub[d]
    BY <1>1, <1>2 DEF Open, QueueType
  <2>. QED  BY <2>1, <2>2 DEF Fresh, WaitsOn
<1>3. ASSUME NEW since, NEW replay, Watch(c, since, replay)
      PROVE  Fresh'
  <2>1. /\ role'[c] = "watcher" /\ UNCHANGED <<emit, writer, rcv>>
        /\ watchers' = watchers \cup {c}
    BY <1>1, <1>3 DEF Watch
  <2>2. \A d \in Conns \ {c} : role'[d] = role[d] /\ queue'[d] = queue[d] /\ sub'[d] = sub[d]
    BY <1>1, <1>3 DEF Watch, QueueType
  <2>. QED  BY <2>1, <2>2 DEF Fresh, WaitsOn
<1>4. ASSUME ReplayFrame(c) \/ EndReplay(c) \/ SendLast(c)
      PROVE  Fresh'
  <2>1. role[c] # "none"
    BY <1>4 DEF Fresh, ReplayFrame, EndReplay, SendLast
  <2>2. UNCHANGED <<role, writer, watchers, emit, rcv>>
    BY <1>4 DEF ReplayFrame, EndReplay, SendLast, subs, conn, client
  <2>3. \A d \in Conns \ {c} : sub'[d] = sub[d]
    BY <1>1, <1>4 DEF ReplayFrame, EndReplay, SendLast
  <2>4. \A d \in Conns \ {c} : queue'[d] = queue[d]
    BY <1>1, <1>4, PutElsewhere DEF ReplayFrame, EndReplay, SendLast
  <2>. QED  BY <2>1, <2>2, <2>3, <2>4 DEF Fresh, WaitsOn
<1>5. CASE Unwatch(c)
  <2>1. /\ UNCHANGED <<queue, writer, rcv>>
        /\ watchers' = watchers \ {c} /\ role'[c] = "done"
    BY <1>1, <1>5 DEF Unwatch, client
  <2>2. \A d \in Conns \ {c} : role'[d] = role[d] /\ sub'[d] = sub[d]
    BY <1>1, <1>5 DEF Unwatch
  <2>3. \A s \in Sources : emit'[s].pc = emit[s].pc /\ emit'[s].at = emit[s].at
    BY <1>1, <1>5, ForgetSame DEF Unwatch
  <2>. QED  BY <2>1, <2>2, <2>3 DEF Fresh, WaitsOn
<1>. QED  BY <1>2, <1>3, <1>4, <1>5 DEF SubscribeStep

LEMMA CloseBackendFresh ==
  ASSUME TypeOK, Fresh, CloseBackend, UNCHANGED <<role, queue, sub, rcv>>,
         writer' \in {writer, None}, watchers' \subseteq watchers
  PROVE  Fresh'
<1>1. \A s \in Sources : emit'[s].pc = "idle"
  BY DEF CloseBackend, Idle
<1>2. \A d \in Conns : d # None
  BY StreamAssumption
<1>. QED  BY <1>1, <1>2 DEF Fresh, WaitsOn

LEMMA ConnectionStepFresh ==
  ASSUME TypeOK, Fresh, NEW c \in Conns, ConnectionStep(c)
  PROVE  Fresh'
<1>1. /\ sub \in [Conns -> Subscription] /\ queue \in [Conns -> Seq(Frame)]
      /\ role \in [Conns -> {"none", "owner", "watcher", "done"}]
      /\ emit \in [Sources -> OnEventCall] /\ rcv \in [Conns -> Seq(Frame)]
  BY DEF TypeOK, SubType, ConnType, EmitType, QueueType, ClientType
<1>2. CASE User(c) \/ Drop(c) \/ StopServing(c)
  <2>1. UNCHANGED <<role, queue, sub, writer, watchers, emit, rcv>>
    BY <1>2 DEF User, Drop, StopServing, subs, conn, client
  <2>. QED  BY <2>1 DEF Fresh, WaitsOn
<1>3. CASE Deliver(c)
  <2>1. role[c] # "none"
    BY <1>3 DEF Fresh, Deliver
  <2>2. UNCHANGED <<role, sub, writer, watchers, emit>>
    BY <1>3 DEF Deliver, subs, conn
  <2>3. \A d \in Conns \ {c} : queue'[d] = queue[d] /\ rcv'[d] = rcv[d]
    BY <1>1, <1>3 DEF Deliver
  <2>. QED  BY <2>1, <2>2, <2>3 DEF Fresh, WaitsOn
<1>4. CASE Connect(c)
  <2>1. c # writer /\ c \notin watchers /\ UNCHANGED <<writer, watchers>>
    BY <1>4 DEF Connect, subs
  <2>2. queue'[c] = <<>> /\ rcv'[c] = <<>> /\ sub'[c].pc = "idle"
    BY <1>1, <1>4 DEF Connect, NoSub
  <2>3. \A d \in Conns \ {c} : /\ role'[d] = role[d] /\ queue'[d] = queue[d]
                               /\ sub'[d] = sub[d] /\ rcv'[d] = rcv[d]
    BY <1>1, <1>4 DEF Connect
  <2>4. ASSUME NEW s \in Sources
        PROVE  (emit'[s] = emit[s] /\ ~WaitsOn(s, c)) \/ emit'[s].pc = "stuck"
    BY <1>1, <1>4 DEF Connect, WaitsOn, OnEventCall
  <2>5. \A s \in Sources : ~(emit'[s].pc \in {"write", "fan"} /\ emit'[s].at = c)
    BY <2>4 DEF WaitsOn
  <2>. QED  BY <2>1, <2>2, <2>3, <2>4, <2>5 DEF Fresh, WaitsOn
<1>5. CASE Detach(c)
  <2>1. /\ UNCHANGED <<role, queue, sub, rcv>>
        /\ writer' \in {writer, None} /\ watchers' \subseteq watchers
    BY <1>5 DEF Detach, conn, client
  <2>2. \A s \in Sources : emit'[s].pc = emit[s].pc /\ emit'[s].at = emit[s].at
    BY <1>1, <1>5, ForgetSame DEF Detach
  <2>. QED  BY <2>1, <2>2, StreamAssumption DEF Fresh, WaitsOn
<1>. QED  BY <1>2, <1>3, <1>4, <1>5 DEF ConnectionStep

LEMMA KilledFresh ==
  ASSUME Fresh, Killed
  PROVE  Fresh'
<1>1. /\ UNCHANGED <<role, rcv>> /\ writer' = None /\ watchers' = {}
      /\ \A d \in Conns : queue'[d] = <<>> /\ sub'[d].pc = "idle"
      /\ \A s \in Sources : emit'[s].pc = "idle"
  BY DEF Killed, Unload, NoSub, Idle, client
<1>. QED  BY <1>1, StreamAssumption DEF Fresh, WaitsOn

LEMMA DaemonStepFresh ==
  ASSUME TypeOK, Fresh, SoftKill \/ Reap \/ Killed
  PROVE  Fresh'
<1>1. CASE SoftKill
  BY <1>1, CloseBackendFresh DEF SoftKill, subs, conn, client
<1>2. CASE Reap
  BY <1>2, CloseBackendFresh DEF Reap, Unload, conn, client
<1>. QED  BY <1>1, <1>2, KilledFresh

-----------------------------------------------------------------------------
LEMMA TypeInduction == Spec => [](TypeOK /\ Fresh)
<1>. DEFINE IInv == TypeOK /\ Fresh
<1>1. Init => IInv
  <2>1. Init => Fresh
    BY StreamAssumption DEF Init, Fresh, WaitsOn, Idle, NoSub
  <2>. QED  BY <2>1, InitType
<1>2. IInv /\ [Next]_vars => IInv'
  <2>. SUFFICES ASSUME TypeOK, Fresh, [Next]_vars PROVE TypeOK' /\ Fresh'
    OBVIOUS
  <2>1. \A c \in Conns : lastSeq[c] \in Nat
    BY DEF TypeOK, ClientType
  <2>2. ASSUME NEW s \in Sources, SourceStep(s)
        PROVE  TypeOK' /\ Fresh'
    BY <2>2, SourceStepType, SourceStepFresh
  <2>3. ASSUME NEW c \in Conns, SubscribeStep(c)
        PROVE  TypeOK' /\ Fresh'
    <3>1. TypeOK'
      BY <2>1, <2>3, OpenType, WatchType, ReplayFrameType, EndReplayType, SendLastType,
         UnwatchType DEF SubscribeStep
    <3>. QED  BY <2>3, <3>1, SubscribeStepFresh
  <2>4. ASSUME NEW c \in Conns, ConnectionStep(c)
        PROVE  TypeOK' /\ Fresh'
    <3>1. TypeOK'
      BY <2>4, UserType, DeliverType, ConnectType, DropType, DetachType DEF ConnectionStep
    <3>. QED  BY <2>4, <3>1, ConnectionStepFresh
  <2>5. CASE SoftKill \/ Reap
    BY <2>5, SoftKillType, ReapType, DaemonStepFresh
  <2>6. ASSUME NEW size \in Sizes, NEW units \in 0 .. size - 1, Crash(units)
        PROVE  TypeOK' /\ Fresh'
    <3>1. units \in Nat
      BY StreamAssumption
    <3>. QED  BY <2>6, <3>1, CrashType, DaemonStepFresh DEF Crash
  <2>7. ASSUME NEW size \in Sizes, NEW kind \in Kinds, CrashInEvent(size, kind)
        PROVE  TypeOK' /\ Fresh'
    BY <2>7, CrashInEventType, DaemonStepFresh DEF CrashInEvent
  <2>8. CASE UNCHANGED vars
    <3>1. UNCHANGED <<session, subs, emit, sub, conn, queue, client, cpu, events, slow, cut,
                      bounds>>
      BY <2>8 DEF vars
    <3>2. TypeOK'
      BY <3>1, SameType DEF TypeOK, ConnType, HistoryType
    <3>3. Fresh'
      BY <3>1 DEF Fresh, WaitsOn, subs, conn, client
    <3>. QED  BY <3>2, <3>3
  <2>. QED  BY <2>2, <2>3, <2>4, <2>5, <2>6, <2>7, <2>8 DEF Next
<1>. QED  BY <1>1, <1>2, PTL DEF Spec

(* Every variable keeps its type and no connection queue ever holds more   *)
(* than _CONNECTION_QUEUE_SIZE frames, whoever puts, waits, resumes or     *)
(* comes back (daemon.py:129, 914-928).                                    *)
THEOREM TypeCorrect == Spec => []TypeOK
BY TypeInduction, PTL
=============================================================================
