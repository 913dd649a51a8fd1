----------------------- MODULE EventStreamOwnerProofs -----------------------
(***************************************************************************)
(* What reaches a subscriber, for any number of connections and sources    *)
(* and for every capacity and bound: an owner gets no event twice          *)
(* (OwnerNoDuplicate), none is lost (OwnerComplete), and owners and        *)
(* watchers get theirs in order while nobody has to wait (InOrder).        *)
(*                                                                         *)
(* Twice: an event reaches the connection of an owner by one of two ways   *)
(* only, the snapshot that its attach replays and the writer that one      *)
(* on_event call has taken.  The two are exclusive, because on_event takes *)
(* the writer in the step that puts the event in the ring and attach       *)
(* becomes the writer in the step that takes the snapshot; and what has    *)
(* reached the connection is on neither way any more.                      *)
(*                                                                         *)
(* Order: without a wait the task that is at a connection holds the        *)
(* processor until it is done, so that what it puts next is newer than     *)
(* what the connection has and than anybody else could have put.           *)
(*                                                                         *)
(* Lost: an event that is past last_seen_seq is in the snapshot or older   *)
(* than all of it, and then the gap that covers it is due; an event that   *)
(* comes later takes the owner as its writer.                              *)
(***************************************************************************)
EXTENDS EventStreamLogProofs

-----------------------------------------------------------------------------
(* Sequences of frames.                                                    *)

Once(fs) ==
  \A i, j \in DOMAIN fs :
    fs[i].kind = "event" /\ fs[j].kind = "event" /\ fs[i].id = fs[j].id => i = j

LEMMA EventsMember ==
  ASSUME NEW fs, NEW x
  PROVE  x \in Events(fs) <=> \E i \in DOMAIN fs : fs[i].kind = "event" /\ fs[i].id = x
BY DEF Events

(* A frame more: it must not be an event that is there already.            *)
LEMMA OnceAppend ==
  ASSUME NEW fs \in Seq(Frame), NEW f \in Frame,
         Once(fs), f.kind = "event" => f.id \notin Events(fs)
  PROVE  /\ Once(Append(fs, f))
         /\ \A x : x \in Events(Append(fs, f)) =>
              x \in Events(fs) \/ (f.kind = "event" /\ x = f.id)
<1>. DEFINE gs == Append(fs, f)
<1>1. /\ Len(fs) \in Nat /\ DOMAIN fs = 1 .. Len(fs)
      /\ DOMAIN gs = 1 .. (Len(fs) + 1)
      /\ \A i \in 1 .. Len(fs) : gs[i] = fs[i]
      /\ gs[Len(fs) + 1] = f
  BY LenProperties, AppendProperties
<1>2. ASSUME f.kind = "event", NEW i \in 1 .. Len(fs), fs[i].kind = "event"
      PROVE  fs[i].id # f.id
  BY <1>1, <1>2, EventsMember
<1>. HIDE DEF gs
<1>3. Once(gs)
  BY <1>1, <1>2 DEF Once
<1>4. ASSUME NEW x, x \in Events(gs)
      PROVE  x \in Events(fs) \/ (f.kind = "event" /\ x = f.id)
  <2>1. PICK i \in DOMAIN gs : gs[i].kind = "event" /\ gs[i].id = x
    BY <1>4, EventsMember
  <2>2. i = Len(fs) + 1 \/ i \in DOMAIN fs
    BY <1>1
  <2>. QED  BY <1>1, <2>1, <2>2, EventsMember
<1>. QED  BY <1>3, <1>4 DEF gs

(* A front part of a sequence.                                             *)
LEMMA OnceFront ==
  ASSUME NEW fs \in Seq(Frame), NEW gs \in Seq(Frame),
         Len(gs) <= Len(fs), \A i \in 1 .. Len(gs) : gs[i] = fs[i], Once(fs)
  PROVE  Once(gs) /\ \A x : x \in Events(gs) => x \in Events(fs)
<1>1. /\ Len(fs) \in Nat /\ Len(gs) \in Nat
      /\ DOMAIN fs = 1 .. Len(fs) /\ DOMAIN gs = 1 .. Len(gs)
  BY LenProperties
<1>2. DOMAIN gs \subseteq DOMAIN fs
  BY <1>1
<1>3. Once(gs)
  BY <1>1, <1>2 DEF Once
<1>4. ASSUME NEW x, x \in Events(gs)
      PROVE  x \in Events(fs)
  BY <1>1, <1>2, <1>4, EventsMember
<1>. QED  BY <1>3, <1>4

LEMMA OnceConcat ==
  ASSUME NEW r \in Seq(Frame), NEW q \in Seq(Frame), Once(r \o q)
  PROVE  Once(r) /\ \A x : x \in Events(r) => x \in Events(r \o q)
<1>1. /\ r \o q \in Seq(Frame) /\ Len(r \o q) = Len(r) + Len(q)
      /\ Len(r) \in Nat /\ Len(q) \in Nat
      /\ \A i \in 1 .. Len(r) + Len(q) :
           (r \o q)[i] = IF i <= Len(r) THEN r[i] ELSE q[i - Len(r)]
  BY ConcatProperties, LenProperties
<1>2. Len(r) <= Len(r \o q) /\ \A i \in 1 .. Len(r) : r[i] = (r \o q)[i]
  BY <1>1
<1>. QED  BY <1>1, <1>2, OnceFront

LEMMA AppendRight ==
  ASSUME NEW S, NEW r \in Seq(S), NEW q \in Seq(S), NEW f \in S
  PROVE  r \o Append(q, f) = Append(r \o q, f)
<1>1. <<f>> \in Seq(S) /\ r \o q \in Seq(S)
  BY ConcatProperties
<1>2. Append(q, f) = q \o <<f>> /\ Append(r \o q, f) = (r \o q) \o <<f>>
  BY <1>1, AppendIsConcat
<1>. QED  BY <1>1, <1>2, ConcatAssociative

LEMMA HeadConsTail ==
  ASSUME NEW S, NEW q \in Seq(S), q # <<>>
  PROVE  Head(q) \in S /\ <<Head(q)>> \o Tail(q) = q
<1>1. /\ Head(q) \in S /\ Tail(q) \in Seq(S) /\ Len(Tail(q)) = Len(q) - 1
      /\ \A i \in 1 .. Len(Tail(q)) : Tail(q)[i] = q[i + 1]
      /\ Len(q) \in Nat \ {0} /\ Head(q) = q[1]
  BY HeadTailProperties, LenProperties, EmptySeq
<1>2. <<Head(q)>> \in Seq(S) /\ Len(<<Head(q)>>) = 1 /\ <<Head(q)>>[1] = q[1]
  BY <1>1
<1>. DEFINE p == <<Head(q)>> \o Tail(q)
<1>3. /\ p \in Seq(S) /\ Len(p) = Len(q)
      /\ \A i \in 1 .. Len(q) : p[i] = IF i <= 1 THEN <<Head(q)>>[i] ELSE Tail(q)[i - 1]
  <2>1. /\ p \in Seq(S) /\ Len(p) = 1 + Len(Tail(q))
        /\ \A i \in 1 .. (1 + Len(Tail(q))) :
             p[i] = IF i <= 1 THEN <<Head(q)>>[i] ELSE Tail(q)[i - 1]
    BY <1>1, <1>2, ConcatProperties
  <2>2. 1 + Len(Tail(q)) = Len(q)
    BY <1>1
  <2>. QED  BY <2>1, <2>2
<1>. HIDE DEF p
<1>4. ASSUME NEW i \in 1 .. Len(q)
      PROVE  p[i] = q[i]
  <2>1. CASE i = 1
    BY <1>2, <1>3, <2>1
  <2>2. CASE i # 1
    <3>1. i - 1 \in 1 .. Len(Tail(q)) /\ i - 1 + 1 = i
      BY <1>1, <2>2
    <3>2. Tail(q)[i - 1] = q[i]
      BY <1>1, <3>1
    <3>. QED  BY <1>1, <1>3, <2>2, <3>2
  <2>. QED  BY <2>1, <2>2
<1>5. p = q
  BY <1>3, <1>4, SeqEqual
<1>. QED  BY <1>1, <1>5 DEF p

LEMMA MoveHead ==
  ASSUME NEW S, NEW r \in Seq(S), NEW q \in Seq(S), q # <<>>
  PROVE  Append(r, Head(q)) \o Tail(q) = r \o q
<1>1. Head(q) \in S /\ Tail(q) \in Seq(S) /\ <<Head(q)>> \o Tail(q) = q
  BY HeadConsTail, HeadTailProperties
<1>2. <<Head(q)>> \in Seq(S)
  BY <1>1
<1>3. Append(r, Head(q)) = r \o <<Head(q)>>
  BY <1>1, AppendIsConcat
<1>. QED  BY <1>1, <1>2, <1>3, ConcatAssociative

-----------------------------------------------------------------------------
(* The stream of a connection through the steps that change it.            *)
LEMMA StreamType ==
  ASSUME TypeOK, NEW c \in Conns
  PROVE  rcv[c] \in Seq(Frame) /\ queue[c] \in Seq(Frame) /\ Stream(c) \in Seq(Frame)
<1>1. rcv[c] \in Seq(Frame) /\ queue[c] \in Seq(Frame)
  BY DEF TypeOK, ClientType, QueueType
<1>. QED  BY <1>1, ConcatProperties DEF Stream

LEMMA StreamAppend ==
  ASSUME TypeOK, NEW c \in Conns, rcv'[c] = rcv[c], NEW f \in Frame,
         queue' = [queue EXCEPT ![c] = Append(@, f)]
  PROVE  Stream(c)' = Append(Stream(c), f)
<1>1. queue'[c] = Append(queue[c], f) /\ rcv'[c] = rcv[c]
  BY DEF TypeOK, QueueType
<1>2. rcv[c] \o Append(queue[c], f) = Append(rcv[c] \o queue[c], f)
  <2>1. rcv[c] \in Seq(Frame) /\ queue[c] \in Seq(Frame) /\ f \in Frame
    BY StreamType
  <2>2. \A r, q \in Seq(Frame) : r \o Append(q, f) = Append(r \o q, f)
    BY AppendRight
  <2>. QED  BY <2>1, <2>2, Zenon
<1>. QED  BY <1>1, <1>2 DEF Stream

LEMMA StreamDeliver ==
  ASSUME TypeOK, NEW c \in Conns, Deliver(c)
  PROVE  Stream(c)' = Stream(c)
<1>1. queue'[c] = Tail(queue[c]) /\ rcv'[c] = Append(rcv[c], Head(queue[c])) /\ queue[c] # <<>>
  BY DEF Deliver, TypeOK, QueueType, ClientType
<1>2. Append(rcv[c], Head(queue[c])) \o Tail(queue[c]) = rcv[c] \o queue[c]
  <2>1. rcv[c] \in Seq(Frame) /\ queue[c] \in Seq(Frame)
    BY StreamType
  <2>. QED  BY <1>1, <2>1, MoveHead
<1>. QED  BY <1>1, <1>2 DEF Stream

(* What a crash leaves of a stream is what the client has received.        *)
LEMMA StreamCut ==
  ASSUME TypeOK, NEW c \in Conns, rcv'[c] = rcv[c], queue'[c] = <<>>, Once(Stream(c))
  PROVE  Once(Stream(c)') /\ \A x : x \in Events(Stream(c)') => x \in Events(Stream(c))
<1>1. rcv[c] \in Seq(Frame) /\ queue[c] \in Seq(Frame)
  BY StreamType
<1>2. Stream(c)' = rcv[c]
  BY <1>1, ConcatEmptySeq DEF Stream
<1>3. \A r, q \in Seq(Frame) : Once(r \o q) =>
        Once(r) /\ \A x : x \in Events(r) => x \in Events(r \o q)
  BY OnceConcat
<1>. QED  BY <1>1, <1>2, <1>3, Zenon DEF Stream

-----------------------------------------------------------------------------
(* The inductive invariant.  An on_event call is writing to an owner only  *)
(* as to the writer it has taken, and what is underway is underway once:   *)
(* not in the stream yet, nor both in a call and still to be replayed.     *)
OwnerPart(c) ==
  /\ Once(Stream(c))
  /\ \A x : x \in Events(Stream(c)) => x \in Ids
  /\ c \notin watchers
  /\ \A s \in Sources : WaitsOn(s, c) =>
       /\ emit[s].pc = "write"
       /\ emit[s].id \notin sub[c].todo
       /\ emit[s].id \notin Events(Stream(c))
  /\ \A x \in sub[c].todo : x \notin Events(Stream(c))

(* No two calls are for the same event.                                    *)
EmitDistinct ==
  \A s, t \in Sources :
    s # t /\ emit[s].pc # "idle" /\ emit[t].pc # "idle" => emit[s].id # emit[t].id

OwnerInv == EmitDistinct /\ \A c \in Conns : role[c] = "owner" => OwnerPart(c)

(* Nothing is added to what is underway to c, and at most one frame to its *)
(* stream: none that is an event, or one that was underway and is no more. *)
LEMMA OwnerPartKept ==
  ASSUME TypeOK, NEW c \in Conns, OwnerPart(c),
         \A x : x \in Ids => x \in Ids',
         c \notin watchers',
         rcv'[c] = rcv[c],
         NEW f \in Frame,
         queue'[c] = queue[c] \/ queue' = [queue EXCEPT ![c] = Append(@, f)],
         \A x \in sub'[c].todo : x \in sub[c].todo,
         \A s \in Sources : emit'[s].pc \in {"write", "fan"} /\ emit'[s].at = c =>
           WaitsOn(s, c) /\ emit'[s].id = emit[s].id /\ emit'[s].pc = emit[s].pc,
         f.kind = "event" =>
           /\ f.id \in Ids /\ f.id \notin Events(Stream(c)) /\ f.id \notin sub'[c].todo
           /\ \A s \in Sources : emit'[s].pc \in {"write", "fan"} /\ emit'[s].at = c =>
                emit'[s].id # f.id
  PROVE  OwnerPart(c)'
<1>1. CASE queue'[c] = queue[c]
  <2>1. Stream(c)' = Stream(c)
    BY <1>1 DEF Stream
  <2>. QED  BY <2>1 DEF OwnerPart, WaitsOn
<1>2. CASE queue' = [queue EXCEPT ![c] = Append(@, f)]
  <2>1. Stream(c)' = Append(Stream(c), f) /\ Stream(c) \in Seq(Frame)
    BY <1>2, StreamAppend, StreamType
  <2>2. /\ Once(Append(Stream(c), f))
        /\ \A x : x \in Events(Append(Stream(c), f)) =>
             x \in Events(Stream(c)) \/ (f.kind = "event" /\ x = f.id)
    BY <2>1, OnceAppend DEF OwnerPart
  <2>. QED  BY <2>1, <2>2 DEF OwnerPart, WaitsOn
<1>. QED  BY <1>1, <1>2

(* In particular if the step does not touch c at all.                      *)
LEMMA OwnerPartSame ==
  ASSUME TypeOK, NEW c \in Conns, OwnerPart(c),
         \A x : x \in Ids => x \in Ids',
         c \notin watchers',
         rcv'[c] = rcv[c], queue'[c] = queue[c], sub'[c].todo = sub[c].todo,
         \A s \in Sources : emit'[s].pc \in {"write", "fan"} /\ emit'[s].at = c =>
           WaitsOn(s, c) /\ emit'[s].id = emit[s].id /\ emit'[s].pc = emit[s].pc
  PROVE  OwnerPart(c)'
<1>1. AckFrame(0) \in Frame /\ AckFrame(0).kind = "ack"
  BY GapFrameType DEF AckFrame
<1>. QED  BY <1>1, OwnerPartKept

(* The calls still are for different events if none is for another event   *)
(* than before.                                                            *)
LEMMA EmitDistinctKept ==
  ASSUME EmitDistinct,
         \A s \in Sources : emit'[s].pc # "idle" =>
           emit[s].pc # "idle" /\ emit'[s].id = emit[s].id
  PROVE  EmitDistinct'
BY DEF EmitDistinct

LEMMA OnEventOwner ==
  ASSUME TypeOK, OwnerInv, NEW s \in Sources, NEW size \in Sizes, NEW kind \in Kinds,
         OnEvent(s, size, kind)
  PROVE  OwnerInv'
<1>. DEFINE id == Len(events) + 1
            e == [seq |-> seq + 1, size |-> size, kind |-> kind]
<1>1. e \in [seq : Nat, size : Nat, kind : EventKinds] /\ events' = Append(events, e)
  BY StreamAssumption DEF OnEvent, NewEvent, TypeOK, SessionType
<1>2. id \in Nat /\ Ids' = Ids \cup {id} /\ id \notin Ids
  BY <1>1, GrowType, EventsType DEF TypeOK
<1>3. /\ emit'[s].pc = "write" /\ emit'[s].id = id /\ emit'[s].at = writer
      /\ emit[s].pc = "idle"
      /\ \A t \in Sources \ {s} : emit'[t] = emit[t]
  BY DEF OnEvent, TypeOK, EmitType, Idle
<1>4. \A t \in Sources : emit[t].pc # "idle" => emit[t].id \in Ids
  BY DEF TypeOK, EmitType
<1>5. EmitDistinct'
  BY <1>2, <1>3, <1>4 DEF EmitDistinct, OwnerInv
<1>6. ASSUME NEW c \in Conns, role'[c] = "owner"
      PROVE  OwnerPart(c)'
  <2>1. OwnerPart(c) /\ UNCHANGED <<queue, rcv, sub, watchers>>
    BY <1>6 DEF OnEvent, OwnerInv, conn, subs, client
  <2>2. Stream(c)' = Stream(c)
    BY <2>1 DEF Stream
  <2>3. \A x \in sub[c].todo : x \in Ids
    BY DEF TypeOK, SubType, Subscription
  <2>. QED  BY <1>2, <1>3, <2>1, <2>2, <2>3 DEF OwnerPart, WaitsOn
<1>. QED  BY <1>5, <1>6 DEF OwnerInv

LEMMA WriteOwnerOwner ==
  ASSUME TypeOK, OwnerInv, NEW s \in Sources, WriteOwner(s)
  PROVE  OwnerInv'
<1>. DEFINE f == EventFrame(emit[s].id)
<1>1. /\ emit[s] \in OnEventCall /\ emit[s].id \in Ids /\ emit[s].pc = "write"
      /\ emit[s].at \in Conns \cup {None}
      /\ emit \in [Sources -> OnEventCall] /\ QueueType
  BY DEF TypeOK, EmitType, OnEventCall, WriteOwner
<1>2. /\ \A t \in Sources \ {s} : emit'[t] = emit[t]
      /\ emit'[s].id = emit[s].id
      /\ emit'[s] = emit[s] \/ emit'[s].at = None
  BY <1>1 DEF WriteOwner, StartFan, OnEventCall
<1>3. UNCHANGED <<sub, watchers, role, rcv, events>> /\ Ids' = Ids
  BY SameType DEF WriteOwner, subs, conn, client
<1>4. EmitDistinct'
  BY <1>1, <1>2, EmitDistinctKept DEF OwnerInv
<1>5. f \in Frame /\ f.id = emit[s].id /\ f.kind = "event"
  BY <1>1, EventsType DEF TypeOK, EventFrame
<1>6. ASSUME NEW c \in Conns, role'[c] = "owner"
      PROVE  OwnerPart(c)'
  <2>1. OwnerPart(c) /\ c # None /\ c \notin watchers
    BY <1>3, <1>6, StreamAssumption DEF OwnerInv, OwnerPart
  <2>2. \A t \in Sources : emit'[t].pc \in {"write", "fan"} /\ emit'[t].at = c =>
          WaitsOn(t, c) /\ emit'[t].id = emit[t].id /\ emit'[t].pc = emit[t].pc
    BY <1>1, <1>2, <2>1 DEF WaitsOn
  <2>3. CASE queue'[c] = queue[c]
    BY <1>3, <2>1, <2>2, <2>3, OwnerPartSame
  <2>4. CASE queue'[c] # queue[c]
    <3>1. emit[s].at = c /\ Put(s, c, f)
      BY <1>1, <2>1, <2>4, PutElsewhere DEF WriteOwner
    <3>2. queue' = [queue EXCEPT ![c] = Append(@, f)]
      BY <2>4, <3>1 DEF Put
    <3>3. /\ f.id \notin Events(Stream(c)) /\ f.id \notin sub[c].todo
      BY <1>1, <1>5, <2>1, <3>1 DEF OwnerPart, WaitsOn
    <3>4. \A t \in Sources : emit'[t].pc \in {"write", "fan"} /\ emit'[t].at = c =>
            emit'[t].id # f.id
      <4>1. emit'[s].at = None
        BY <2>1, <2>4, <3>1, <1>1 DEF WriteOwner, StartFan, OnEventCall
      <4>. QED  BY <1>1, <1>2, <1>5, <2>1, <4>1 DEF OwnerInv, EmitDistinct
    <3>. QED  BY <1>1, <1>3, <1>5, <2>1, <2>2, <3>2, <3>3, <3>4, OwnerPartKept
  <2>. QED  BY <2>3, <2>4
<1>. QED  BY <1>4, <1>6 DEF OwnerInv

(* A step after which no on_event call is at an owner that was not there   *)
(* before, and that puts nothing on an owner's queue.                      *)
LEMMA OwnerInvSame ==
  ASSUME TypeOK, OwnerInv, UNCHANGED <<events, role, rcv>>,
         \A s \in Sources : emit'[s].pc # "idle" =>
           emit[s].pc # "idle" /\ emit'[s].id = emit[s].id,
         \A c \in Conns : role[c] = "owner" =>
           /\ queue'[c] = queue[c] /\ sub'[c].todo = sub[c].todo
           /\ c \notin watchers'
           /\ \A s \in Sources : emit'[s].pc \in {"write", "fan"} /\ emit'[s].at = c =>
                WaitsOn(s, c) /\ emit'[s].pc = emit[s].pc
  PROVE  OwnerInv'
<1>1. Ids' = Ids
  BY SameType
<1>2. EmitDistinct'
  BY EmitDistinctKept DEF OwnerInv
<1>3. ASSUME NEW c \in Conns, role'[c] = "owner"
      PROVE  OwnerPart(c)'
  <2>1. role[c] = "owner" /\ OwnerPart(c) /\ rcv'[c] = rcv[c]
    BY <1>3 DEF OwnerInv
  <2>2. \A s \in Sources : emit'[s].pc \in {"write", "fan"} /\ emit'[s].at = c =>
          WaitsOn(s, c) /\ emit'[s].id = emit[s].id /\ emit'[s].pc = emit[s].pc
    BY <2>1
  <2>3. queue'[c] = queue[c] /\ sub'[c].todo = sub[c].todo /\ c \notin watchers'
    BY <2>1
  <2>. QED  BY <1>1, <2>1, <2>2, <2>3, OwnerPartSame
<1>. QED  BY <1>2, <1>3 DEF OwnerInv

LEMMA FanOwner ==
  ASSUME TypeOK, OwnerInv, NEW s \in Sources,
         NextWatcher(s) \/ WriteWatcher(s) \/ EndEvent(s)
  PROVE  OwnerInv'
<1>1. /\ emit \in [Sources -> OnEventCall] /\ QueueType
      /\ UNCHANGED <<events, role, rcv, sub, watchers>>
  BY DEF TypeOK, EmitType, NextWatcher, WriteWatcher, EndEvent, subs, conn, client
<1>2. /\ \A t \in Sources \ {s} : emit'[t] = emit[t]
      /\ emit[s].pc # "idle"
      /\ emit'[s].pc # "idle" => emit'[s].id = emit[s].id
  BY <1>1 DEF NextWatcher, WriteWatcher, EndEvent, Idle, OnEventCall
<1>3. ASSUME NEW c \in Conns, role[c] = "owner"
      PROVE  /\ c \notin watchers /\ c # None
             /\ emit[s].pc = "fan" => emit[s].at # c
  BY <1>3, StreamAssumption DEF OwnerInv, OwnerPart, WaitsOn
<1>4. ASSUME NEW c \in Conns, role[c] = "owner"
      PROVE  queue'[c] = queue[c]
  <2>1. CASE WriteWatcher(s)
    <3>1. emit[s].at # c /\ emit[s].at \in Conns
      BY <1>1, <1>3, <1>4, <2>1 DEF WriteWatcher, OnEventCall
    <3>. QED  BY <1>1, <2>1, <3>1, PutElsewhere DEF WriteWatcher
  <2>2. CASE NextWatcher(s) \/ EndEvent(s)
    BY <2>2 DEF NextWatcher, EndEvent
  <2>. QED  BY <2>1, <2>2
<1>5. ASSUME NEW c \in Conns, role[c] = "owner"
      PROVE  ~(emit'[s].pc \in {"write", "fan"} /\ emit'[s].at = c)
  <2>1. CASE NextWatcher(s)
    BY <1>1, <1>3, <1>5, <2>1 DEF NextWatcher, OnEventCall
  <2>2. CASE WriteWatcher(s)
    BY <1>1, <1>3, <1>5, <2>2 DEF WriteWatcher, OnEventCall
  <2>3. CASE EndEvent(s)
    BY <1>1, <2>3 DEF EndEvent, Idle
  <2>. QED  BY <2>1, <2>2, <2>3
<1>6. ASSUME NEW c \in Conns, role[c] = "owner"
      PROVE  /\ queue'[c] = queue[c] /\ sub'[c].todo = sub[c].todo /\ c \notin watchers'
             /\ \A t \in Sources : emit'[t].pc \in {"write", "fan"} /\ emit'[t].at = c =>
                  WaitsOn(t, c) /\ emit'[t].pc = emit[t].pc
  BY <1>1, <1>2, <1>3, <1>4, <1>5, <1>6 DEF WaitsOn
<1>. QED  BY <1>1, <1>2, <1>6, OwnerInvSame

(* Open: the snapshot of a connection nobody has written to.               *)
LEMMA OpenOwner ==
  ASSUME TypeOK, Fresh, OwnerInv, NEW c \in Conns, NEW since \in Nat, Open(c, since)
  PROVE  OwnerInv'
<1>. DEFINE newRing == IF loaded THEN ring ELSE Seeded
            newSeq  == IF loaded THEN seq ELSE LatestSeq(Seeded, SeqOf)
<1>1. UNCHANGED <<events, emit, watchers, rcv>> /\ Ids' = Ids
  BY SameType DEF Open, client
<1>2. EmitDistinct'
  BY <1>1, EmitDistinctKept DEF OwnerInv
<1>3. /\ role[c] = "none" /\ queue[c] = <<>> /\ rcv[c] = <<>> /\ c \notin watchers
      /\ \A s \in Sources : ~WaitsOn(s, c)
  BY DEF Open, Subscribable, Fresh
<1>4. OwnerPart(c)'
  <2>1. queue'[c] = <<AckFrame(newSeq)>>
    <3>1. queue'[c] = Append(queue[c], AckFrame(newSeq))
      BY DEF Open, TypeOK, QueueType
    <3>. QED  BY <1>3, <3>1
  <2>2. Stream(c)' = <<AckFrame(newSeq)>>
    BY <1>1, <1>3, <2>1 DEF Stream
  <2>3. Once(Stream(c)') /\ \A x : x \notin Events(Stream(c)')
    BY <2>2 DEF Once, Events, AckFrame
  <2>. QED  BY <1>1, <1>3, <2>3 DEF OwnerPart, WaitsOn
<1>5. ASSUME NEW d \in Conns, d # c, role'[d] = "owner"
      PROVE  OwnerPart(d)'
  <2>1. /\ role[d] = "owner" /\ queue'[d] = queue[d] /\ sub'[d] = sub[d]
        /\ OwnerPart(d)
    BY <1>5 DEF Open, TypeOK, QueueType, SubType, ConnType, OwnerInv
  <2>. QED  BY <1>1, <2>1, OwnerPartSame DEF OwnerPart, WaitsOn
<1>. QED  BY <1>2, <1>4, <1>5 DEF OwnerInv

LEMMA WatchOwner ==
  ASSUME TypeOK, OwnerInv, NEW c \in Conns, NEW since \in Nat, NEW replay \in BOOLEAN,
         Watch(c, since, replay)
  PROVE  OwnerInv'
<1>1. UNCHANGED <<events, emit, rcv>> /\ watchers' = watchers \cup {c} /\ Ids' = Ids
  BY SameType DEF Watch
<1>2. EmitDistinct'
  BY <1>1, EmitDistinctKept DEF OwnerInv
<1>3. ASSUME NEW d \in Conns, role'[d] = "owner"
      PROVE  OwnerPart(d)'
  <2>1. d # c
    BY <1>3 DEF Watch, TypeOK, ConnType
  <2>2. /\ role[d] = "owner" /\ queue'[d] = queue[d] /\ sub'[d] = sub[d]
        /\ OwnerPart(d)
    BY <1>3, <2>1 DEF Watch, TypeOK, QueueType, SubType, ConnType, OwnerInv
  <2>. QED  BY <1>1, <2>1, <2>2, OwnerPartSame DEF OwnerPart, WaitsOn
<1>. QED  BY <1>2, <1>3 DEF OwnerInv

LEMMA ReplayFrameOwner ==
  ASSUME TypeOK, OwnerInv, NEW c \in Conns, ReplayFrame(c)
  PROVE  OwnerInv'
<1>. DEFINE id == Min(sub[c].todo)
            f  == EventFrame(id)
<1>1. UNCHANGED <<events, emit, rcv, role, watchers>> /\ Ids' = Ids
  BY SameType DEF ReplayFrame, client, conn, subs
<1>2. EmitDistinct'
  BY <1>1, EmitDistinctKept DEF OwnerInv
<1>3. id \in Ids /\ id \in sub[c].todo /\ f \in Frame /\ f.id = id
  <2>1. sub[c].todo \in SUBSET Nat /\ sub[c].todo # {} /\ sub[c].todo \subseteq Ids
    BY EventsType DEF ReplayFrame, TypeOK, SubType, Subscription
  <2>2. id \in sub[c].todo
    BY <2>1, MinIsMember
  <2>. QED  BY <2>1, <2>2, EventsType DEF TypeOK, EventFrame
<1>4. sub'[c].todo = sub[c].todo \ {id} \/ (UNCHANGED <<sub, queue>>)
  BY DEF ReplayFrame, TypeOK, SubType, Subscription
<1>5. \A d \in Conns \ {c} : queue'[d] = queue[d] /\ sub'[d] = sub[d]
  BY PutElsewhere DEF ReplayFrame, TypeOK, SubType
<1>6. queue'[c] = queue[c] \/ queue' = [queue EXCEPT ![c] = Append(@, f)]
  BY DEF ReplayFrame, Put
<1>7. ASSUME NEW d \in Conns, role'[d] = "owner"
      PROVE  OwnerPart(d)'
  <2>1. OwnerPart(d)
    BY <1>1, <1>7 DEF OwnerInv
  <2>2. CASE d # c
    BY <1>1, <1>5, <2>1, <2>2, OwnerPartSame DEF OwnerPart, WaitsOn
  <2>3. CASE d = c /\ UNCHANGED <<sub, queue>>
    BY <1>1, <2>1, <2>3, OwnerPartSame DEF OwnerPart, WaitsOn
  <2>4. CASE d = c /\ sub'[c].todo = sub[c].todo \ {id}
    <3>1. f.id \notin Events(Stream(c)) /\ f.id \notin sub'[c].todo
      BY <1>3, <2>1, <2>4 DEF OwnerPart
    <3>2. \A s \in Sources : emit'[s].pc \in {"write", "fan"} /\ emit'[s].at = c =>
            emit'[s].id # f.id
      BY <1>1, <1>3, <2>1, <2>4 DEF OwnerPart, WaitsOn
    <3>3. /\ c \notin watchers' /\ rcv'[c] = rcv[c]
          /\ \A x \in sub'[c].todo : x \in sub[c].todo
          /\ \A s \in Sources : emit'[s].pc \in {"write", "fan"} /\ emit'[s].at = c =>
               WaitsOn(s, c) /\ emit'[s].id = emit[s].id /\ emit'[s].pc = emit[s].pc
      BY <1>1, <2>1, <2>4 DEF OwnerPart, WaitsOn
    <3>. QED  BY <1>1, <1>3, <1>6, <2>1, <2>4, <3>1, <3>2, <3>3, OwnerPartKept
  <2>. QED  BY <1>4, <2>2, <2>3, <2>4
<1>. QED  BY <1>2, <1>7 DEF OwnerInv

LEMMA EndReplayOwner ==
  ASSUME TypeOK, OwnerInv, NEW c \in Conns, EndReplay(c)
  PROVE  OwnerInv'
<1>1. UNCHANGED <<events, emit, rcv, role, watchers, queue>>
  BY DEF EndReplay, client, conn, subs
<1>2. \A d \in Conns : sub'[d].todo = sub[d].todo
  <2>1. sub \in [Conns -> Subscription] /\ sub[c] \in Subscription /\ sub[c].todo = {}
    BY DEF EndReplay, TypeOK, SubType
  <2>2. sub'[c].todo = {}
    <3>1. CASE GapDue(c)
      BY <2>1, <3>1 DEF EndReplay, Subscription
    <3>2. CASE ~GapDue(c)
      BY <2>1, <3>2 DEF EndReplay, NoSub
    <3>. QED  BY <3>1, <3>2
  <2>3. \A d \in Conns \ {c} : sub'[d] = sub[d]
    BY <2>1 DEF EndReplay
  <2>. QED  BY <2>1, <2>2, <2>3
<1>. QED  BY <1>1, <1>2, OwnerInvSame DEF OwnerInv, OwnerPart, WaitsOn

(* The frame behind a replay is no event.                                  *)
LEMMA SendLastOwner ==
  ASSUME TypeOK, OwnerInv, NEW c \in Conns, SendLast(c), sub[c].last.kind # "event"
  PROVE  OwnerInv'
<1>1. UNCHANGED <<events, emit, rcv, role, watchers>> /\ Ids' = Ids
  BY SameType DEF SendLast, client, conn, subs
<1>2. EmitDistinct'
  BY <1>1, EmitDistinctKept DEF OwnerInv
<1>3. \A d \in Conns \ {c} : queue'[d] = queue[d] /\ sub'[d] = sub[d]
  BY PutElsewhere DEF SendLast, TypeOK, SubType
<1>4. /\ queue'[c] = queue[c] \/ queue' = [queue EXCEPT ![c] = Append(@, sub[c].last)]
      /\ sub[c].last \in Frame
      /\ \A x \in sub'[c].todo : x \in sub[c].todo
  BY DEF SendLast, Put, TypeOK, SubType, Subscription, NoSub
<1>5. ASSUME NEW d \in Conns, role'[d] = "owner"
      PROVE  OwnerPart(d)'
  <2>1. OwnerPart(d)
    BY <1>1, <1>5 DEF OwnerInv
  <2>2. CASE d # c
    BY <1>1, <1>3, <2>1, <2>2, OwnerPartSame DEF OwnerPart, WaitsOn
  <2>3. CASE d = c
    <3>1. /\ c \notin watchers' /\ rcv'[c] = rcv[c]
          /\ \A s \in Sources : emit'[s].pc \in {"write", "fan"} /\ emit'[s].at = c =>
               WaitsOn(s, c) /\ emit'[s].id = emit[s].id /\ emit'[s].pc = emit[s].pc
      BY <1>1, <2>1, <2>3 DEF OwnerPart, WaitsOn
    <3>. QED  BY <1>1, <1>4, <2>1, <2>3, <3>1, OwnerPartKept
  <2>. QED  BY <2>2, <2>3
<1>. QED  BY <1>2, <1>5 DEF OwnerInv

(* Only the owner's connection itself, and only its daemon, take frames    *)
(* from its queue.                                                         *)
LEMMA DeliverOwner ==
  ASSUME TypeOK, OwnerInv, NEW c \in Conns, Deliver(c)
  PROVE  OwnerInv'
<1>1. UNCHANGED <<events, emit, role, watchers, sub>> /\ Ids' = Ids
  BY SameType DEF Deliver, conn, subs
<1>2. EmitDistinct'
  BY <1>1, EmitDistinctKept DEF OwnerInv
<1>3. ASSUME NEW d \in Conns
      PROVE  Stream(d)' = Stream(d)
  <2>1. CASE d = c
    BY <2>1, StreamDeliver
  <2>2. CASE d # c
    BY <2>2 DEF Deliver, Stream, TypeOK, QueueType, ClientType
  <2>. QED  BY <2>1, <2>2
<1>. QED  BY <1>1, <1>2, <1>3 DEF OwnerInv, OwnerPart, WaitsOn

(* A connection that is made has no role yet; whoever was at the one       *)
(* before is stuck.                                                        *)
LEMMA ConnectOwner ==
  ASSUME TypeOK, OwnerInv, NEW c \in Conns, Connect(c)
  PROVE  OwnerInv'
<1>1. UNCHANGED <<events, watchers>> /\ Ids' = Ids
  BY SameType DEF Connect, subs
<1>2. ASSUME NEW s \in Sources
      PROVE  /\ emit'[s].id = emit[s].id
             /\ emit'[s] = emit[s] \/ (emit'[s].pc = "stuck" /\ WaitsOn(s, c))
  BY DEF Connect, TypeOK, EmitType, OnEventCall
<1>3. EmitDistinct'
  BY <1>2, EmitDistinctKept DEF OwnerInv, WaitsOn
<1>4. ASSUME NEW d \in Conns, role'[d] = "owner"
      PROVE  OwnerPart(d)'
  <2>1. d # c /\ role[d] = "owner"
    BY <1>4 DEF Connect, TypeOK, ConnType
  <2>2. /\ queue'[d] = queue[d] /\ sub'[d] = sub[d] /\ rcv'[d] = rcv[d]
        /\ OwnerPart(d)
    BY <2>1 DEF Connect, TypeOK, QueueType, SubType, ClientType, OwnerInv
  <2>3. \A s \in Sources : emit'[s].pc \in {"write", "fan"} /\ emit'[s].at = d =>
          WaitsOn(s, d) /\ emit'[s].id = emit[s].id /\ emit'[s].pc = emit[s].pc
    BY <1>2 DEF WaitsOn
  <2>. QED  BY <1>1, <2>2, <2>3, OwnerPartSame DEF OwnerPart
<1>. QED  BY <1>3, <1>4 DEF OwnerInv

LEMMA QuietOwner ==
  ASSUME TypeOK, OwnerInv, NEW c \in Conns, User(c) \/ Drop(c) \/ StopServing(c)
  PROVE  OwnerInv'
<1>1. UNCHANGED <<events, emit, rcv, role, watchers, queue, sub>>
  BY DEF User, Drop, StopServing, client, conn, subs
<1>. QED  BY <1>1, OwnerInvSame DEF OwnerInv, OwnerPart, WaitsOn

LEMMA CloseBackendOwner ==
  ASSUME TypeOK, OwnerInv, CloseBackend, UNCHANGED <<events, role, rcv, queue, sub>>,
         \A c \in Conns : c \in watchers' => c \in watchers
  PROVE  OwnerInv'
<1>1. \A s \in Sources : emit'[s].pc = "idle"
  BY DEF CloseBackend, Idle
<1>. QED  BY <1>1, OwnerInvSame DEF OwnerInv, OwnerPart

LEMMA ForgetOwner ==
  ASSUME TypeOK, OwnerInv, UNCHANGED <<events, rcv, queue>>, NEW c \in Conns, Forget(c),
         \A d \in Conns : role'[d] = "owner" => role[d] = "owner" /\ sub'[d] = sub[d],
         \A d \in Conns : d \in watchers' => d \in watchers
  PROVE  OwnerInv'
<1>1. emit \in [Sources -> OnEventCall]
  BY DEF TypeOK, EmitType
<1>2. \A s \in Sources :
        emit'[s].pc = emit[s].pc /\ emit'[s].at = emit[s].at /\ emit'[s].id = emit[s].id
  BY <1>1, ForgetSame
<1>3. Ids' = Ids
  BY SameType
<1>4. ASSUME NEW d \in Conns, role'[d] = "owner"
      PROVE  OwnerPart(d)'
  <2>1. OwnerPart(d) /\ d \notin watchers /\ d \notin watchers'
    BY <1>4 DEF OwnerInv, OwnerPart
  <2>2. rcv'[d] = rcv[d] /\ queue'[d] = queue[d] /\ sub'[d].todo = sub[d].todo
    BY <1>4
  <2>3. \A s \in Sources : emit'[s].pc \in {"write", "fan"} /\ emit'[s].at = d =>
          WaitsOn(s, d) /\ emit'[s].id = emit[s].id /\ emit'[s].pc = emit[s].pc
    BY <1>2 DEF WaitsOn
  <2>. QED  BY <1>3, <2>1, <2>2, <2>3, OwnerPartSame
<1>. QED  BY <1>2, <1>4, EmitDistinctKept DEF OwnerInv

LEMMA UnwatchOwner ==
  ASSUME TypeOK, OwnerInv, NEW c \in Conns, Unwatch(c)
  PROVE  OwnerInv'
<1>1. UNCHANGED <<events, rcv, queue>> /\ watchers' = watchers \ {c} /\ Forget(c)
  BY DEF Unwatch, client
<1>2. \A d \in Conns : role'[d] = "owner" => role[d] = "owner" /\ sub'[d] = sub[d]
  BY DEF Unwatch, TypeOK, ConnType, SubType
<1>. QED  BY <1>1, <1>2, ForgetOwner

LEMMA DetachOwner ==
  ASSUME TypeOK, OwnerInv, NEW c \in Conns, Detach(c)
  PROVE  OwnerInv'
<1>1. UNCHANGED <<events, rcv, queue, sub, role>> /\ watchers' = watchers \ {c} /\ Forget(c)
  BY DEF Detach, client, conn
<1>. QED  BY <1>1, ForgetOwner

(* A kill ends every call and cuts every stream; no event loses its name.  *)
LEMMA KilledOwner ==
  ASSUME TypeOK, OwnerInv, Killed, Ids \subseteq Ids'
  PROVE  OwnerInv'
<1>1. /\ UNCHANGED <<role, rcv>> /\ watchers' = {}
      /\ \A s \in Sources : emit'[s].pc = "idle"
      /\ \A d \in Conns : queue'[d] = <<>> /\ sub'[d].todo = {}
  BY DEF Killed, Unload, client, Idle, NoSub
<1>2. EmitDistinct'
  BY <1>1 DEF EmitDistinct
<1>3. ASSUME NEW d \in Conns, role'[d] = "owner"
      PROVE  OwnerPart(d)'
  <2>1. OwnerPart(d) /\ rcv'[d] = rcv[d] /\ queue'[d] = <<>>
    BY <1>1, <1>3 DEF OwnerInv
  <2>2. Once(Stream(d)') /\ \A x : x \in Events(Stream(d)') => x \in Events(Stream(d))
    BY <2>1, StreamCut DEF OwnerPart
  <2>. QED  BY <1>1, <2>1, <2>2 DEF OwnerPart, WaitsOn
<1>. QED  BY <1>2, <1>3 DEF OwnerInv

LEMMA CrashOwner ==
  ASSUME TypeOK, OwnerInv,
         \/ \E units \in Nat : Crash(units)
         \/ \E size \in Sizes, kind \in Kinds : CrashInEvent(size, kind)
  PROVE  OwnerInv'
<1>1. ASSUME NEW units \in Nat, Crash(units)
      PROVE  OwnerInv'
  BY <1>1, KilledOwner, SameType DEF Crash
<1>2. ASSUME NEW size \in Sizes, NEW kind \in Kinds, CrashInEvent(size, kind)
      PROVE  OwnerInv'
  <2>. DEFINE e == [seq |-> seq + 1, size |-> size, kind |-> kind]
  <2>1. e \in [seq : Nat, size : Nat, kind : EventKinds] /\ events' = Append(events, e)
    BY <1>2, StreamAssumption DEF CrashInEvent, NewEvent, TypeOK, SessionType
  <2>2. Ids \subseteq Ids'
    BY <2>1, GrowType
  <2>. QED  BY <1>2, <2>2, KilledOwner DEF CrashInEvent
<1>. QED  BY <1>1, <1>2

LEMMA DaemonStepOwner ==
  ASSUME TypeOK, OwnerInv, SoftKill \/ Reap
  PROVE  OwnerInv'
<1>1. CASE SoftKill
  BY <1>1, CloseBackendOwner DEF SoftKill, subs, conn, client
<1>2. CASE Reap
  BY <1>2, CloseBackendOwner DEF Reap, Unload, conn, client
<1>. QED  BY <1>1, <1>2

-----------------------------------------------------------------------------
(* The last frame of a subscription is no event, and comes when there is   *)
(* nothing to replay any more.                                             *)
LastFrame ==
  \A c \in Conns : sub[c].pc = "last" => sub[c].last.kind # "event" /\ sub[c].todo = {}

LEMMA LastFrameKept ==
  ASSUME TypeOK, LastFrame, [Next]_vars
  PROVE  LastFrame'
<1>1. sub \in [Conns -> Subscription]
  BY DEF TypeOK, SubType
<1>2. ASSUME UNCHANGED sub
      PROVE  LastFrame'
  BY <1>2 DEF LastFrame
<1>3. ASSUME NEW s \in Sources, SourceStep(s)
      PROVE  LastFrame'
  BY <1>2, <1>3 DEF SourceStep, OnEvent, WriteOwner, NextWatcher, WriteWatcher, EndEvent
<1>4. ASSUME NEW c \in Conns, SubscribeStep(c)
      PROVE  LastFrame'
  <2>1. ASSUME NEW b, b.pc # "last", sub' = [sub EXCEPT ![c] = b]
        PROVE  LastFrame'
    BY <1>1, <2>1 DEF LastFrame
  <2>2. CASE SendLast(c)
    <3>1. UNCHANGED sub \/ sub' = [sub EXCEPT ![c] = NoSub]
      BY <2>2 DEF SendLast
    <3>. QED  BY <1>2, <2>1, <3>1 DEF NoSub
  <2>3. ASSUME NEW since, NEW replay, Open(c, since) \/ Watch(c, since, replay)
        PROVE  LastFrame'
    <3>1. \A r, q, n : Replay(r, q, n).pc = "replay"
      BY DEF Replay, NoSub
    <3>2. CASE Open(c, since)
      <4>. DEFINE b == Replay(IF loaded THEN ring ELSE Seeded, SeqOf, since)
      <4>1. sub' = [sub EXCEPT ![c] = b]
        BY <3>2 DEF Open
      <4>2. b.pc # "last"
        BY <3>1
      <4>. HIDE DEF b
      <4>. QED  BY <2>1, <4>1, <4>2
    <3>3. CASE Watch(c, since, replay)
      <4>. DEFINE b == Replay(ring, SeqOf, since)
      <4>1. UNCHANGED sub \/ sub' = [sub EXCEPT ![c] = b]
        BY <3>3 DEF Watch
      <4>2. b.pc # "last"
        BY <3>1
      <4>. HIDE DEF b
      <4>. QED  BY <1>2, <2>1, <4>1, <4>2
    <3>. QED  BY <2>3, <3>2, <3>3
  <2>4. CASE ReplayFrame(c)
    BY <1>1, <2>4 DEF ReplayFrame, LastFrame, Subscription
  <2>5. CASE Unwatch(c)
    BY <1>1, <2>5 DEF Unwatch, NoSub, AckFrame, LastFrame, Subscription
  <2>6. CASE EndReplay(c)
    BY <1>1, <2>6 DEF EndReplay, GapOf, GapFrame, NoSub, LastFrame, Subscription
  <2>. QED  BY <1>4, <2>2, <2>3, <2>4, <2>5, <2>6 DEF SubscribeStep
<1>5. ASSUME NEW c \in Conns, ConnectionStep(c)
      PROVE  LastFrame'
  BY <1>1, <1>5 DEF ConnectionStep, User, Deliver, Connect, Drop, StopServing, Detach,
     LastFrame, NoSub
<1>6. CASE SoftKill \/ Reap
  BY <1>6 DEF SoftKill, Reap, LastFrame
<1>7. ASSUME Killed
      PROVE  LastFrame'
  BY <1>7 DEF Killed, LastFrame, NoSub
<1>. QED  BY <1>2, <1>3, <1>4, <1>5, <1>6, <1>7 DEF Next, vars, Crash, CrashInEvent

LEMMA OwnerInvKept ==
  ASSUME TypeOK, Fresh, LastFrame, OwnerInv, [Next]_vars
  PROVE  OwnerInv'
<1>1. \A c \in Conns : lastSeq[c] \in Nat
  BY DEF TypeOK, ClientType
<1>2. ASSUME NEW s \in Sources, SourceStep(s)
      PROVE  OwnerInv'
  BY <1>2, OnEventOwner, WriteOwnerOwner, FanOwner DEF SourceStep
<1>3. ASSUME NEW c \in Conns, SubscribeStep(c)
      PROVE  OwnerInv'
  <2>1. SendLast(c) => sub[c].last.kind # "event"
    BY DEF SendLast, LastFrame
  <2>. QED  BY <1>1, <1>3, <2>1, OpenOwner, WatchOwner, ReplayFrameOwner, EndReplayOwner,
            SendLastOwner, UnwatchOwner DEF SubscribeStep
<1>4. ASSUME NEW c \in Conns, ConnectionStep(c)
      PROVE  OwnerInv'
  BY <1>4, QuietOwner, DeliverOwner, ConnectOwner, DetachOwner DEF ConnectionStep
<1>5. CASE \/ SoftKill \/ Reap \/ \E size \in Sizes : \E units \in 0 .. size - 1 : Crash(units)
           \/ \E size \in Sizes, kind \in Kinds : CrashInEvent(size, kind)
  <2>1. \A size \in Sizes : \A units \in 0 .. size - 1 : units \in Nat
    BY StreamAssumption
  <2>. QED  BY <1>5, <2>1, DaemonStepOwner, CrashOwner
<1>6. CASE UNCHANGED vars
  <2>1. UNCHANGED <<events, emit, rcv, role, watchers, queue, sub>>
    BY <1>6 DEF vars, client, conn, subs
  <2>. QED  BY <2>1, OwnerInvSame DEF OwnerInv, OwnerPart, WaitsOn
<1>. QED  BY <1>2, <1>3, <1>4, <1>5, <1>6 DEF Next

(* No event is put twice on the connection of an owner, whatever the order *)
(* in which a replay, live events, a takeover, a restart and slow          *)
(* consumers meet (session.py:108-154, 160-217).                           *)
THEOREM OwnerGetsNothingTwice == Spec => []OwnerNoDuplicate
<1>1. Init => LastFrame /\ OwnerInv
  <2>. SUFFICES ASSUME Init PROVE LastFrame /\ OwnerInv
    OBVIOUS
  <2>1. LastFrame
    BY DEF Init, LastFrame, NoSub
  <2>2. EmitDistinct
    BY DEF Init, EmitDistinct, Idle
  <2>3. \A c \in Conns : role[c] # "owner"
    BY DEF Init
  <2>. QED  BY <2>1, <2>2, <2>3 DEF OwnerInv
<1>2. (TypeOK /\ Fresh) /\ (LastFrame /\ OwnerInv) /\ [Next]_vars
      => (LastFrame /\ OwnerInv)'
  BY LastFrameKept, OwnerInvKept
<1>3. OwnerInv => OwnerNoDuplicate
  BY DEF OwnerInv, OwnerPart, Once, OwnerNoDuplicate
<1>. QED  BY <1>1, <1>2, <1>3, TypeInduction, PTL DEF Spec

-----------------------------------------------------------------------------
(* What a connection subscribed as is what it is subscribed as; an         *)
(* on_event call that writes to an owner has taken a connection that       *)
(* subscribed as one; and nobody is subscribed to a session that is not    *)
(* loaded.                                                                 *)
Roles ==
  /\ \A c \in Conns : c = writer => role[c] = "owner"
  /\ \A c \in Conns : c \in watchers => role[c] = "watcher"
  /\ ~loaded => writer = None /\ watchers = {}
  /\ \A s \in Sources, c \in Conns :
       emit[s].pc = "write" /\ emit[s].at = c => role[c] = "owner"

LEMMA RolesSame ==
  ASSUME Roles, UNCHANGED <<loaded, role, subs>>,
         \A s \in Sources : emit'[s].pc = "write" => emit[s].pc = "write" /\ emit'[s].at = emit[s].at
  PROVE  Roles'
BY DEF Roles, subs

LEMMA SourceStepRoles ==
  ASSUME TypeOK, Roles, NEW s \in Sources, SourceStep(s)
  PROVE  Roles'
<1>1. emit \in [Sources -> OnEventCall] /\ emit[s] \in OnEventCall
  BY DEF TypeOK, EmitType
<1>2. ASSUME NEW size \in Sizes, NEW kind \in Kinds, OnEvent(s, size, kind)
      PROVE  Roles'
  <2>1. /\ UNCHANGED <<loaded, role, writer, watchers>>
        /\ emit'[s].at = writer
        /\ \A t \in Sources \ {s} : emit'[t] = emit[t]
    BY <1>1, <1>2 DEF OnEvent, conn, subs, Idle
  <2>. QED  BY <2>1 DEF Roles
<1>3. CASE WriteOwner(s) \/ NextWatcher(s) \/ WriteWatcher(s) \/ EndEvent(s)
  <2>1. UNCHANGED <<loaded, role, subs>>
    BY <1>3 DEF WriteOwner, NextWatcher, WriteWatcher, EndEvent, conn, session
  <2>2. \A t \in Sources \ {s} : emit'[t] = emit[t]
    BY <1>1, <1>3 DEF WriteOwner, StartFan, NextWatcher, WriteWatcher, EndEvent
  <2>3. emit'[s].pc = "write" => emit'[s] = emit[s]
    <3>1. CASE WriteOwner(s)
      BY <1>1, <3>1 DEF WriteOwner, StartFan, OnEventCall
    <3>2. CASE NextWatcher(s)
      BY <1>1, <3>2 DEF NextWatcher, OnEventCall
    <3>3. CASE WriteWatcher(s)
      BY <1>1, <3>3 DEF WriteWatcher, OnEventCall
    <3>4. CASE EndEvent(s)
      BY <1>1, <3>4 DEF EndEvent, Idle
    <3>. QED  BY <1>3, <3>1, <3>2, <3>3, <3>4
  <2>4. \A t \in Sources : emit'[t].pc = "write" => emit'[t] = emit[t]
    BY <2>2, <2>3
  <2>. QED  BY <2>1, <2>4, RolesSame
<1>. QED  BY <1>2, <1>3 DEF SourceStep

LEMMA SubscribeStepRoles ==
  ASSUME TypeOK, Fresh, Roles, NEW c \in Conns, SubscribeStep(c)
  PROVE  Roles'
<1>1. /\ role \in [Conns -> {"none", "owner", "watcher", "done"}]
      /\ emit \in [Sources -> OnEventCall]
  BY DEF TypeOK, ConnType, EmitType
<1>2. ASSUME NEW since, Open(c, since)
      PROVE  Roles'
  <2>1. /\ writer' = c /\ role' = [role EXCEPT ![c] = "owner"] /\ loaded'
        /\ UNCHANGED <<emit, watchers>> /\ c \notin watchers
    BY <1>2 DEF Open, Subscribable, Fresh
  <2>. QED  BY <1>1, <2>1 DEF Roles
<1>3. ASSUME NEW since, NEW replay, Watch(c, since, replay)
      PROVE  Roles'
  <2>1. /\ watchers' = watchers \cup {c} /\ role' = [role EXCEPT ![c] = "watcher"] /\ loaded
        /\ UNCHANGED <<emit, writer, loaded>>
        /\ c # writer /\ \A s \in Sources : ~(emit[s].pc = "write" /\ emit[s].at = c)
    BY <1>3 DEF Watch, Subscribable, Fresh, WaitsOn, session
  <2>. QED  BY <1>1, <2>1 DEF Roles
<1>4. CASE ReplayFrame(c) \/ EndReplay(c) \/ SendLast(c)
  <2>1. UNCHANGED <<loaded, role, subs, emit>>
    BY <1>4 DEF ReplayFrame, EndReplay, SendLast, conn, session
  <2>. QED  BY <2>1, RolesSame
<1>5. CASE Unwatch(c)
  <2>1. /\ watchers' = watchers \ {c} /\ role' = [role EXCEPT ![c] = "done"] /\ Forget(c)
        /\ UNCHANGED <<writer, loaded>> /\ role[c] = "watcher"
    BY <1>5 DEF Unwatch, Roles, session
  <2>2. \A s \in Sources : emit'[s].pc = emit[s].pc /\ emit'[s].at = emit[s].at
    BY <1>1, <2>1, ForgetSame
  <2>. QED  BY <1>1, <2>1, <2>2 DEF Roles
<1>. QED  BY <1>2, <1>3, <1>4, <1>5 DEF SubscribeStep

LEMMA ConnectionStepRoles ==
  ASSUME TypeOK, Roles, NEW c \in Conns, ConnectionStep(c)
  PROVE  Roles'
<1>1. /\ role \in [Conns -> {"none", "owner", "watcher", "done"}]
      /\ emit \in [Sources -> OnEventCall]
  BY DEF TypeOK, ConnType, EmitType
<1>2. CASE User(c) \/ Deliver(c) \/ Drop(c) \/ StopServing(c)
  <2>1. UNCHANGED <<loaded, role, subs, emit>>
    BY <1>2 DEF User, Deliver, Drop, StopServing, conn, session
  <2>. QED  BY <2>1, RolesSame
<1>3. CASE Connect(c)
  <2>1. /\ role' = [role EXCEPT ![c] = "none"] /\ c # writer /\ c \notin watchers
        /\ UNCHANGED <<writer, watchers, loaded>>
    BY <1>3 DEF Connect, subs, session
  <2>2. ASSUME NEW s \in Sources, emit'[s].pc = "write"
        PROVE  emit'[s] = emit[s] /\ emit[s].at # c
    <3>1. CASE WaitsOn(s, c)
      <4>1. emit'[s] = [emit[s] EXCEPT !.pc = "stuck"]
        BY <1>3, <3>1 DEF Connect
      <4>2. emit'[s].pc = "stuck"
        BY <1>1, <4>1 DEF OnEventCall
      <4>. QED  BY <2>2, <4>2
    <3>2. CASE ~WaitsOn(s, c)
      <4>1. emit'[s] = emit[s]
        BY <1>3, <3>2 DEF Connect
      <4>. QED  BY <2>2, <3>2, <4>1 DEF WaitsOn
    <3>. QED  BY <3>1, <3>2
  <2>. QED  BY <1>1, <2>1, <2>2 DEF Roles
<1>4. CASE Detach(c)
  <2>1. /\ writer' \in {writer, None} /\ watchers' \subseteq watchers /\ Forget(c)
        /\ UNCHANGED <<role, loaded>>
    BY <1>4 DEF Detach, conn
  <2>2. \A s \in Sources : emit'[s].pc = emit[s].pc /\ emit'[s].at = emit[s].at
    BY <1>1, <2>1, ForgetSame
  <2>. QED  BY <2>1, <2>2, StreamAssumption DEF Roles
<1>. QED  BY <1>2, <1>3, <1>4 DEF ConnectionStep

LEMMA DaemonStepRoles ==
  ASSUME Roles, SoftKill \/ Reap \/ Killed
  PROVE  Roles'
<1>1. \A s \in Sources : emit'[s].pc = "idle"
  BY DEF SoftKill, Reap, CloseBackend, Killed, Unload, Idle
<1>2. CASE SoftKill
  <2>1. UNCHANGED <<loaded, role, subs>>
    BY <1>2 DEF SoftKill, conn
  <2>. QED  BY <1>1, <2>1, RolesSame
<1>3. CASE Reap \/ Killed
  <2>1. writer' = None /\ watchers' = {} /\ role' = role
    BY <1>3 DEF Reap, Killed, Unload, conn
  <2>. QED  BY <1>1, <2>1, StreamAssumption DEF Roles
<1>. QED  BY <1>2, <1>3

LEMMA RolesKept == TypeOK /\ Fresh /\ Roles /\ [Next]_vars => Roles'
<1>. SUFFICES ASSUME TypeOK, Fresh, Roles, [Next]_vars PROVE Roles'
  OBVIOUS
<1>1. CASE UNCHANGED vars
  <2>1. UNCHANGED <<loaded, role, subs, emit>>
    BY <1>1 DEF vars, conn, session
  <2>. QED  BY <2>1, RolesSame
<1>. QED  BY <1>1, SourceStepRoles, SubscribeStepRoles, ConnectionStepRoles, DaemonStepRoles
          DEF Next, Crash, CrashInEvent

LEMMA RolesInduction == Spec => []Roles
<1>1. Init => Roles
  BY StreamAssumption DEF Init, Roles, Idle
<1>. QED  BY <1>1, RolesKept, TypeInduction, PTL DEF Spec

-----------------------------------------------------------------------------
(* The order of frames.                                                    *)

UpTo(fs, n) == \A i \in DOMAIN fs : fs[i].kind # "ack" => fs[i].seq <= n

LEMMA UpToMore ==
  ASSUME NEW fs \in Seq(Frame), NEW m \in Int, NEW n \in Int, UpTo(fs, m), m <= n
  PROVE  UpTo(fs, n)
<1>. SUFFICES ASSUME NEW i \in DOMAIN fs, fs[i].kind # "ack" PROVE fs[i].seq <= n
  BY DEF UpTo
<1>1. fs[i] \in Frame /\ fs[i].seq <= m
  BY LenProperties, ElementOfSeq DEF UpTo
<1>2. fs[i].seq \in Nat
  BY <1>1 DEF Frame
<1>. QED  BY <1>1, <1>2

LEMMA OrderAppend ==
  ASSUME NEW fs \in Seq(Frame), NEW f \in Frame
  PROVE  /\ Increasing(fs) /\ (f.kind # "ack" => UpTo(fs, f.seq - 1)) => Increasing(Append(fs, f))
         /\ \A n \in Int : UpTo(fs, n) /\ (f.kind # "ack" => f.seq <= n) => UpTo(Append(fs, f), n)
<1>. DEFINE gs == Append(fs, f)
<1>1. /\ Len(fs) \in Nat /\ DOMAIN fs = 1 .. Len(fs)
      /\ DOMAIN gs = 1 .. (Len(fs) + 1)
      /\ \A i \in 1 .. Len(fs) : gs[i] = fs[i]
      /\ gs[Len(fs) + 1] = f
  BY LenProperties, AppendProperties
<1>2. f.seq \in Nat /\ \A i \in 1 .. Len(fs) : fs[i].seq \in Nat
  <2>1. \A i \in 1 .. Len(fs) : fs[i] \in Frame
    BY ElementOfSeq
  <2>. QED  BY <2>1 DEF Frame
<1>. HIDE DEF gs
<1>3. ASSUME Increasing(fs), f.kind # "ack" => UpTo(fs, f.seq - 1)
      PROVE  Increasing(gs)
  <2>. SUFFICES ASSUME NEW i \in DOMAIN gs, NEW j \in DOMAIN gs, i < j,
                       gs[i].kind # "ack", gs[j].kind # "ack"
                PROVE  gs[i].seq < gs[j].seq
    BY DEF Increasing
  <2>1. i \in 1 .. Len(fs) /\ gs[i] = fs[i]
    BY <1>1
  <2>2. CASE j \in 1 .. Len(fs)
    <3>1. gs[j] = fs[j]
      BY <1>1, <2>2
    <3>. QED  BY <1>1, <1>3, <2>1, <2>2, <3>1 DEF Increasing
  <2>3. CASE j = Len(fs) + 1
    <3>1. gs[j] = f
      BY <1>1, <2>3
    <3>2. gs[i].seq <= f.seq - 1
      BY <1>1, <1>3, <2>1, <3>1 DEF UpTo
    <3>3. gs[i].seq \in Nat
      BY <1>2, <2>1
    <3>. QED  BY <1>2, <3>1, <3>2, <3>3
  <2>. QED  BY <1>1, <2>2, <2>3
<1>4. ASSUME NEW n \in Int, UpTo(fs, n), f.kind # "ack" => f.seq <= n
      PROVE  UpTo(gs, n)
  <2>. SUFFICES ASSUME NEW i \in DOMAIN gs, gs[i].kind # "ack" PROVE gs[i].seq <= n
    BY DEF UpTo
  <2>1. CASE i \in 1 .. Len(fs)
    BY <1>1, <1>4, <2>1 DEF UpTo
  <2>2. CASE i = Len(fs) + 1
    BY <1>1, <1>4, <2>2
  <2>. QED  BY <1>1, <2>1, <2>2
<1>. QED  BY <1>3, <1>4 DEF gs

LEMMA IncreasingFront ==
  ASSUME NEW r \in Seq(Frame), NEW q \in Seq(Frame), Increasing(r \o q)
  PROVE  Increasing(r)
<1>1. /\ Len(r) \in Nat /\ Len(q) \in Nat /\ DOMAIN r = 1 .. Len(r)
      /\ DOMAIN (r \o q) = 1 .. Len(r) + Len(q)
      /\ \A i \in 1 .. Len(r) + Len(q) :
           (r \o q)[i] = IF i <= Len(r) THEN r[i] ELSE q[i - Len(r)]
  <2>1. Len(r \o q) = Len(r) + Len(q) /\ r \o q \in Seq(Frame)
    BY ConcatProperties
  <2>. QED  BY <2>1, ConcatProperties, LenProperties
<1>2. \A i \in DOMAIN r : i \in DOMAIN (r \o q) /\ (r \o q)[i] = r[i]
  BY <1>1
<1>. DEFINE p == r \o q
<1>. HIDE DEF p
<1>3. \A i \in DOMAIN r : i \in DOMAIN p /\ p[i] = r[i]
  BY <1>2 DEF p
<1>4. Increasing(p)
  BY DEF p
<1>. QED  BY <1>3, <1>4 DEF Increasing

(* A put reaches one stream at most.                                       *)
LEMMA PutStream ==
  ASSUME TypeOK, NEW t, NEW c \in Conns, NEW f \in Frame, Put(t, c, f), UNCHANGED rcv
  PROVE  /\ Stream(c)' = Stream(c) \/ Stream(c)' = Append(Stream(c), f)
         /\ \A d \in Conns : d # c => Stream(d)' = Stream(d)
<1>1. ASSUME NEW d \in Conns, d # c
      PROVE  Stream(d)' = Stream(d)
  <2>1. queue'[d] = queue[d]
    BY <1>1, PutElsewhere DEF TypeOK
  <2>. QED  BY <2>1 DEF Stream
<1>2. CASE UNCHANGED queue
  BY <1>1, <1>2 DEF Stream
<1>3. CASE queue' = [queue EXCEPT ![c] = Append(@, f)]
  BY <1>1, <1>3, StreamAppend
<1>. QED  BY <1>2, <1>3 DEF Put

-----------------------------------------------------------------------------
(* The inductive invariant of the order.  A connection on whose queue no   *)
(* put had to wait has nothing that is newer than its session, and what is *)
(* on its way to it is newer than what it has: an on_event call or a       *)
(* subscription that is busy with it holds the processor.                  *)
Behind(c, id) == UpTo(Stream(c), events[id].seq - 1)

CallPart(c) ==
  \A s \in Sources : WaitsOn(s, c) =>
    cpu = s /\ events[emit[s].id].seq <= seq /\ Behind(c, emit[s].id)

LoopPart(c) ==
  \A s \in Sources : c \in watchers /\ emit[s].pc \in {"write", "fan"} =>
    /\ cpu = s /\ events[emit[s].id].seq <= seq
    /\ c \notin emit[s].done => Behind(c, emit[s].id)

ReplayPart(c) ==
  sub[c].pc = "replay" =>
    /\ cpu = c /\ UpTo(Stream(c), seq)
    /\ \A x \in sub[c].todo : events[x].seq <= seq /\ Behind(c, x)
    /\ \A x, y \in sub[c].todo : x < y => events[x].seq < events[y].seq

LastPart(c) ==
  sub[c].pc = "last" =>
    /\ cpu = c
    /\ sub[c].last.kind # "ack" => sub[c].last.seq = seq /\ UpTo(Stream(c), seq - 1)

OrderPart(c) ==
  /\ Increasing(Stream(c))
  /\ c = writer \/ c \in watchers => UpTo(Stream(c), seq)
  /\ CallPart(c) /\ LoopPart(c) /\ ReplayPart(c) /\ LastPart(c)

Prompt(c) == role[c] \in {"owner", "watcher"} /\ c \notin slow

OrderInv == \A c \in Conns : Prompt(c) => OrderPart(c)

(* Nobody is busy with c.                                                  *)
AtRest(c) ==
  /\ \A s \in Sources : ~WaitsOn(s, c)
  /\ c \in watchers => \A s \in Sources : emit[s].pc \notin {"write", "fan"}
  /\ sub[c].pc = "idle"

LEMMA IdleOrFree ==
  ASSUME TypeOK, NEW c \in Conns, OrderPart(c)
  PROVE  /\ cpu = Free => AtRest(c)
         /\ \A d \in Conns : d # c /\ cpu = d => AtRest(c)
         /\ \A s \in Sources : cpu = s =>
              /\ sub[c].pc = "idle"
              /\ \A t \in Sources \ {s} : ~WaitsOn(t, c)
              /\ c \in watchers => \A t \in Sources \ {s} : emit[t].pc \notin {"write", "fan"}
<1>1. sub[c].pc \in {"idle", "replay", "last"}
  BY DEF TypeOK, SubType, Subscription
<1>2. /\ Free \notin Sources /\ Free \notin Conns
      /\ \A d \in Conns : d \notin Sources
  BY StreamAssumption
<1>3. /\ \A s \in Sources : WaitsOn(s, c) => cpu = s
      /\ \A s \in Sources : c \in watchers /\ emit[s].pc \in {"write", "fan"} => cpu = s
      /\ sub[c].pc # "idle" => cpu = c
  BY <1>1 DEF OrderPart, CallPart, LoopPart, ReplayPart, LastPart
<1>. QED  BY <1>2, <1>3 DEF AtRest

LEMMA RestPart ==
  ASSUME NEW c \in Conns, AtRest(c)', Increasing(Stream(c))',
         (c = writer \/ c \in watchers => UpTo(Stream(c), seq))'
  PROVE  OrderPart(c)'
BY DEF AtRest, OrderPart, CallPart, LoopPart, ReplayPart, LastPart

(* A step that leaves the stream of such a connection alone.               *)
LEMMA RestKept ==
  ASSUME TypeOK, TypeOK', NEW c \in Conns, OrderPart(c), AtRest(c)', Stream(c)' = Stream(c),
         seq <= seq', c = writer' \/ c \in watchers' => c = writer \/ c \in watchers
  PROVE  OrderPart(c)'
<1>1. Stream(c) \in Seq(Frame) /\ seq \in Int /\ seq' \in Int
  BY StreamType DEF TypeOK, SessionType
<1>2. Increasing(Stream(c))'
  BY DEF OrderPart
<1>3. ASSUME c = writer' \/ c \in watchers'
      PROVE  UpTo(Stream(c)', seq')
  BY <1>1, <1>3, UpToMore DEF OrderPart
<1>. QED  BY <1>2, <1>3, RestPart

(* A step that does nothing to the streams, and nothing while a task runs. *)
LEMMA QuietInOrder ==
  ASSUME TypeOK, TypeOK', OrderInv, cpu = Free, UNCHANGED <<rcv, queue, seq>>,
         \A c \in Conns : Prompt(c)' =>
           /\ Prompt(c) /\ sub'[c] = sub[c]
           /\ c = writer' => c = writer
           /\ c \in watchers' => c \in watchers,
         \A s \in Sources : emit'[s].pc \in {"write", "fan"} =>
           emit[s].pc \in {"write", "fan"} /\ emit'[s].at = emit[s].at
  PROVE  OrderInv'
<1>. SUFFICES ASSUME NEW c \in Conns, Prompt(c)' PROVE OrderPart(c)'
  BY DEF OrderInv
<1>1. OrderPart(c) /\ AtRest(c)
  BY IdleOrFree DEF OrderInv
<1>2. Stream(c)' = Stream(c) /\ seq <= seq'
  BY DEF Stream, TypeOK, SessionType
<1>3. AtRest(c)'
  BY <1>1 DEF AtRest, WaitsOn
<1>. QED  BY <1>1, <1>2, <1>3, RestKept

LEMMA OnEventInOrder ==
  ASSUME TypeOK, TypeOK', OrderInv, NEW s \in Sources, NEW size \in Sizes, NEW kind \in Kinds,
         OnEvent(s, size, kind)
  PROVE  OrderInv'
<1>. DEFINE n == Len(events) + 1
<1>. SUFFICES ASSUME NEW c \in Conns, Prompt(c)' PROVE OrderPart(c)'
  BY DEF OrderInv
<1>1. /\ emit'[s].pc = "write" /\ emit'[s].id = n /\ emit'[s].at = writer /\ emit'[s].done = {}
      /\ \A t \in Sources \ {s} : emit'[t] = emit[t]
  BY DEF OnEvent, TypeOK, EmitType, Idle
<1>2. /\ UNCHANGED <<rcv, queue, sub, writer, watchers, role, slow>> /\ cpu = Free /\ cpu' = s
      /\ seq' = seq + 1
  BY DEF OnEvent, Produces, client, conn, subs
<1>3. OrderPart(c) /\ AtRest(c)
  BY <1>2, IdleOrFree DEF OrderInv, Prompt
<1>4. seq \in Nat /\ Stream(c) \in Seq(Frame) /\ Stream(c)' = Stream(c)
  BY <1>2, StreamType DEF Stream, TypeOK, SessionType
<1>5. events'[n].seq = seq + 1
  <2>1. events'[n] = [seq |-> seq + 1, size |-> size, kind |-> kind]
    BY GrowsBy DEF OnEvent
  <2>2. [seq |-> seq + 1, size |-> size, kind |-> kind].seq = seq + 1
    OBVIOUS
  <2>. QED  BY <2>1, <2>2
<1>. HIDE DEF n
<1>6. c = writer \/ c \in watchers => UpTo(Stream(c), seq) /\ UpTo(Stream(c), seq + 1)
  <2>1. c = writer \/ c \in watchers => UpTo(Stream(c), seq)
    BY <1>3 DEF OrderPart
  <2>. QED  BY <1>4, <2>1, UpToMore
<1>7. c = writer \/ c \in watchers => UpTo(Stream(c)', events'[n].seq - 1)
  <2>1. events'[n].seq - 1 = seq
    BY <1>4, <1>5
  <2>. QED  BY <1>4, <1>6, <2>1
<1>8. events'[n].seq <= seq'
  BY <1>2, <1>4, <1>5
<1>9. CallPart(c)' /\ LoopPart(c)'
  <2>1. \A t \in Sources : emit'[t].pc \in {"write", "fan"} /\ emit'[t].at = c => t = s
    BY <1>1, <1>3 DEF AtRest, WaitsOn
  <2>2. c \in watchers => \A t \in Sources : emit'[t].pc \in {"write", "fan"} => t = s
    BY <1>1, <1>3 DEF AtRest
  <2>3. c = writer \/ c \in watchers => Behind(c, emit[s].id)'
    BY <1>1, <1>7 DEF Behind
  <2>4. CallPart(c)'
    <3>1. ASSUME NEW t \in Sources, WaitsOn(t, c)'
          PROVE  t = s /\ c = writer
      BY <1>1, <2>1, <3>1 DEF WaitsOn
    <3>. QED  BY <1>1, <1>2, <1>8, <2>3, <3>1 DEF CallPart
  <2>5. LoopPart(c)'
    BY <1>1, <1>2, <1>8, <2>2, <2>3 DEF LoopPart
  <2>. QED  BY <2>4, <2>5
<1>10. ReplayPart(c)' /\ LastPart(c)'
  BY <1>2, <1>3 DEF AtRest, ReplayPart, LastPart
<1>. QED  BY <1>2, <1>3, <1>4, <1>6, <1>9, <1>10 DEF OrderPart

(* The frame of an on_event call is put on the queue it was written to.    *)
LEMMA CallPuts ==
  ASSUME TypeOK, TypeOK', OrderInv, NEW s \in Sources, NEW d \in Conns,
         WaitsOn(s, d), Put(s, d, EventFrame(emit[s].id)), cpu' = s,
         UNCHANGED <<rcv, seq, events, role, subs, sub>>,
         \A t \in Sources \ {s} : emit'[t] = emit[t],
         emit'[s].id = emit[s].id, emit'[s].at = None,
         emit[s].done \subseteq emit'[s].done, d \in watchers => d \in emit'[s].done
  PROVE  OrderInv'
<1>. DEFINE id == emit[s].id
            f == EventFrame(id)
<1>. SUFFICES ASSUME NEW c \in Conns, Prompt(c)' PROVE OrderPart(c)'
  BY DEF OrderInv
<1>0. /\ cpu \in {s, Free} /\ slow' = slow /\ UNCHANGED <<writer, watchers>>
      /\ emit[s].pc \in {"write", "fan"} /\ emit[s].at = d
      /\ c # None
  BY StreamAssumption DEF Put, subs, WaitsOn
<1>1. OrderPart(c)
  BY <1>0 DEF OrderInv, Prompt
<1>2. /\ f \in Frame /\ f.kind = "event" /\ f.seq = events[id].seq /\ f.seq \in Nat
      /\ seq \in Nat /\ Stream(c) \in Seq(Frame)
  <2>1. id \in Ids
    BY <1>0 DEF TypeOK, EmitType
  <2>2. f \in Frame
    BY <2>1, EventsType DEF TypeOK
  <2>. QED  BY <2>2, StreamType DEF EventFrame, Frame, TypeOK, SessionType
<1>3. /\ Stream(d)' = Stream(d) \/ Stream(d)' = Append(Stream(d), f)
      /\ \A e \in Conns : e # d => Stream(e)' = Stream(e)
  <2>1. id \in Ids
    BY <1>0 DEF TypeOK, EmitType
  <2>. HIDE DEF id
  <2>2. Put(s, d, f)
    BY DEF id
  <2>. HIDE DEF f
  <2>. QED  BY <1>2, <2>2, PutStream
<1>4. CASE cpu = Free
  <2>1. AtRest(c) /\ c # d /\ c \notin watchers
    BY <1>0, <1>1, <1>4, IdleOrFree DEF AtRest
  <2>2. AtRest(c)'
    BY <1>0, <2>1 DEF AtRest, WaitsOn
  <2>. QED  BY <1>0, <1>1, <1>2, <1>3, <2>1, <2>2, RestKept
<1>5. CASE cpu = s
  <2>1. /\ sub[c].pc = "idle"
        /\ \A t \in Sources \ {s} : ~WaitsOn(t, c)
        /\ c \in watchers => \A t \in Sources \ {s} : emit[t].pc \notin {"write", "fan"}
    BY <1>1, <1>5, IdleOrFree
  <2>2. CallPart(c)' /\ ReplayPart(c)' /\ LastPart(c)'
    BY <1>0, <2>1 DEF CallPart, ReplayPart, LastPart, WaitsOn
  <2>3. CASE c # d
    <3>1. Stream(c)' = Stream(c)
      BY <1>3, <2>3
    <3>2. LoopPart(c)'
      <4>1. \A t \in Sources : c \in watchers /\ emit'[t].pc \in {"write", "fan"} => t = s
        BY <2>1
      <4>2. c \in watchers => /\ events[id].seq <= seq
                              /\ c \notin emit[s].done => Behind(c, id)
        BY <1>0, <1>1 DEF OrderPart, LoopPart
      <4>. QED  BY <1>0, <3>1, <4>1, <4>2 DEF LoopPart, Behind
    <3>. QED  BY <1>0, <1>1, <2>2, <3>1, <3>2 DEF OrderPart
  <2>4. CASE c = d
    <3>1. /\ events[id].seq <= seq /\ UpTo(Stream(c), f.seq - 1)
          /\ Increasing(Stream(c)) /\ (c = writer \/ c \in watchers => UpTo(Stream(c), seq))
      BY <1>0, <1>1, <1>2, <2>4 DEF OrderPart, CallPart, Behind
    <3>2. /\ Increasing(Stream(c)')
          /\ c = writer \/ c \in watchers => UpTo(Stream(c)', seq)
      <4>1. CASE Stream(c)' = Stream(c)
        BY <3>1, <4>1
      <4>2. CASE Stream(c)' = Append(Stream(c), f)
        <5>1. Increasing(Append(Stream(c), f))
          BY <1>2, <3>1, OrderAppend
        <5>2. c = writer \/ c \in watchers => UpTo(Append(Stream(c), f), seq)
          BY <1>2, <3>1, OrderAppend
        <5>. QED  BY <4>2, <5>1, <5>2
      <4>. QED  BY <1>3, <2>4, <4>1, <4>2
    <3>3. LoopPart(c)'
      BY <1>0, <2>1, <2>4, <3>1 DEF LoopPart
    <3>. QED  BY <1>0, <2>2, <3>2, <3>3 DEF OrderPart
  <2>. QED  BY <2>3, <2>4
<1>. QED  BY <1>0, <1>4, <1>5

(* It waits, and with it the watchers that the call still has to visit.    *)
LEMMA CallWaits ==
  ASSUME TypeOK, TypeOK', OrderInv, NEW s \in Sources, NEW d \in Conns,
         WaitsOn(s, d), Suspend(s, d), UNCHANGED <<rcv, queue, seq, role, subs, sub, emit>>
  PROVE  OrderInv'
<1>. SUFFICES ASSUME NEW c \in Conns, Prompt(c)' PROVE OrderPart(c)'
  BY DEF OrderInv
<1>1. /\ cpu = s /\ c \notin slow /\ c # d /\ c \notin watchers
      /\ UNCHANGED <<writer, watchers>>
  BY DEF Suspend, Prompt, subs
<1>2. OrderPart(c)
  BY <1>1 DEF OrderInv, Prompt
<1>3. AtRest(c)'
  <2>1. sub[c].pc = "idle" /\ \A t \in Sources \ {s} : ~WaitsOn(t, c)
    BY <1>1, <1>2, IdleOrFree
  <2>. QED  BY <1>1, <2>1 DEF AtRest, WaitsOn
<1>4. Stream(c)' = Stream(c) /\ seq <= seq'
  BY DEF Stream, TypeOK, SessionType
<1>. QED  BY <1>1, <1>2, <1>3, <1>4, RestKept

LEMMA WriteOwnerInOrder ==
  ASSUME TypeOK, TypeOK', OrderInv, Roles, NEW s \in Sources, WriteOwner(s)
  PROVE  OrderInv'
<1>. DEFINE d == emit[s].at
<1>1. /\ emit[s] \in OnEventCall /\ emit \in [Sources -> OnEventCall]
      /\ emit[s].pc = "write" /\ d \in Conns \cup {None}
      /\ UNCHANGED <<rcv, seq, events, role, subs, sub>>
  BY DEF TypeOK, EmitType, WriteOwner, OnEventCall, session, client, conn
<1>2. StartFan(s) =>
        /\ \A t \in Sources \ {s} : emit'[t] = emit[t]
        /\ emit'[s].id = emit[s].id /\ emit'[s].at = None /\ emit'[s].done = emit[s].done
        /\ emit'[s].pc = "fan"
  BY <1>1 DEF StartFan, OnEventCall
<1>3. CASE d = None /\ StartFan(s) /\ Running(s) /\ UNCHANGED <<cpu, queue, slow>>
  <2>. SUFFICES ASSUME NEW c \in Conns, Prompt(c)' PROVE OrderPart(c)'
    BY DEF OrderInv
  <2>1. OrderPart(c) /\ Stream(c)' = Stream(c) /\ c # None /\ cpu = s
        /\ UNCHANGED <<writer, watchers>>
    BY <1>1, <1>3, StreamAssumption DEF OrderInv, Prompt, Stream, Running, subs
  <2>2. CallPart(c)'
    BY <1>1, <1>2, <1>3, <2>1 DEF OrderPart, CallPart, WaitsOn, Behind
  <2>3. LoopPart(c)'
    BY <1>1, <1>2, <1>3, <2>1 DEF OrderPart, LoopPart, Behind
  <2>4. ReplayPart(c)' /\ LastPart(c)'
    BY <1>1, <1>3, <2>1 DEF OrderPart, ReplayPart, LastPart, Behind
  <2>. QED  BY <1>1, <2>1, <2>2, <2>3, <2>4 DEF OrderPart
<1>4. CASE d # None /\ Put(s, d, EventFrame(emit[s].id)) /\ StartFan(s) /\ cpu' = s
  <2>1. WaitsOn(s, d) /\ d \notin watchers /\ d \in Conns
    BY <1>1, <1>4 DEF WaitsOn, Roles
  <2>. QED  BY <1>1, <1>2, <1>4, <2>1, CallPuts
<1>5. CASE d # None /\ Suspend(s, d) /\ UNCHANGED <<queue, emit>>
  <2>1. WaitsOn(s, d) /\ d \in Conns
    BY <1>1, <1>5 DEF WaitsOn
  <2>. QED  BY <1>1, <1>5, <2>1, CallWaits
<1>. QED  BY <1>3, <1>4, <1>5 DEF WriteOwner

LEMMA WriteWatcherInOrder ==
  ASSUME TypeOK, TypeOK', OrderInv, NEW s \in Sources, WriteWatcher(s)
  PROVE  OrderInv'
<1>. DEFINE d == emit[s].at
<1>1. /\ emit[s] \in OnEventCall /\ emit \in [Sources -> OnEventCall]
      /\ WaitsOn(s, d) /\ d \in Conns
      /\ UNCHANGED <<rcv, seq, events, role, subs, sub>>
  BY DEF TypeOK, EmitType, WriteWatcher, OnEventCall, session, client, conn, WaitsOn
<1>2. CASE /\ Put(s, d, EventFrame(emit[s].id)) /\ cpu' = s
           /\ emit' = [emit EXCEPT ![s].at = None, ![s].done = @ \cup {d}]
  <2>1. /\ \A t \in Sources \ {s} : emit'[t] = emit[t]
        /\ emit'[s].id = emit[s].id /\ emit'[s].at = None
        /\ emit'[s].done = emit[s].done \cup {d}
    BY <1>1, <1>2 DEF OnEventCall
  <2>2. emit[s].done \subseteq emit'[s].done /\ d \in emit'[s].done
    BY <2>1
  <2>. HIDE DEF d
  <2>. QED  BY <1>1, <1>2, <2>1, <2>2, CallPuts
<1>3. CASE Suspend(s, d) /\ UNCHANGED <<queue, emit>>
  BY <1>1, <1>3, CallWaits
<1>. QED  BY <1>2, <1>3 DEF WriteWatcher

LEMMA NextWatcherInOrder ==
  ASSUME TypeOK, TypeOK', OrderInv, NEW s \in Sources, NextWatcher(s) \/ EndEvent(s)
  PROVE  OrderInv'
<1>. SUFFICES ASSUME NEW c \in Conns, Prompt(c)' PROVE OrderPart(c)'
  BY DEF OrderInv
<1>1. /\ emit[s] \in OnEventCall /\ emit \in [Sources -> OnEventCall]
      /\ UNCHANGED <<rcv, queue, seq, events, role, writer, watchers, sub, slow>> /\ cpu = s
      /\ c # None
  BY StreamAssumption DEF TypeOK, EmitType, NextWatcher, EndEvent, session, client, conn, subs,
     Running
<1>2. OrderPart(c) /\ Stream(c)' = Stream(c) /\ seq <= seq'
  BY <1>1 DEF OrderInv, Prompt, Stream, TypeOK, SessionType
<1>3. /\ sub[c].pc = "idle"
      /\ \A t \in Sources \ {s} : ~WaitsOn(t, c)
      /\ c \in watchers => \A t \in Sources \ {s} : emit[t].pc \notin {"write", "fan"}
  BY <1>1, <1>2, IdleOrFree
<1>4. \A t \in Sources \ {s} : emit'[t] = emit[t]
  BY <1>1 DEF NextWatcher, EndEvent
<1>5. CASE emit'[s].pc \notin {"write", "fan"}
  <2>1. AtRest(c)'
    BY <1>1, <1>3, <1>4, <1>5 DEF AtRest, WaitsOn
  <2>. QED  BY <1>1, <1>2, <2>1, RestKept
<1>6. ASSUME NEW w \in watchers \ emit[s].done, emit' = [emit EXCEPT ![s].at = w], cpu' = cpu,
             emit[s].pc = "fan"
      PROVE  OrderPart(c)'
  <2>1. emit'[s].pc = "fan" /\ emit'[s].at = w /\ emit'[s].id = emit[s].id
        /\ emit'[s].done = emit[s].done
    BY <1>1, <1>6 DEF OnEventCall
  <2>2. LoopPart(c)'
    BY <1>1, <1>2, <1>4, <1>6, <2>1 DEF OrderPart, LoopPart, Behind
  <2>3. CallPart(c)'
    <3>1. c \in watchers \ emit[s].done => events[emit[s].id].seq <= seq /\ Behind(c, emit[s].id)
      BY <1>2, <1>6 DEF OrderPart, LoopPart
    <3>. QED  BY <1>1, <1>2, <1>3, <1>4, <1>6, <2>1, <3>1 DEF CallPart, WaitsOn, Behind
  <2>4. ReplayPart(c)' /\ LastPart(c)'
    BY <1>1, <1>3 DEF ReplayPart, LastPart
  <2>. QED  BY <1>1, <1>2, <2>2, <2>3, <2>4 DEF OrderPart
<1>7. \/ emit'[s].pc \notin {"write", "fan"}
      \/ /\ \E w \in watchers \ emit[s].done : emit' = [emit EXCEPT ![s].at = w]
         /\ cpu' = cpu /\ emit[s].pc = "fan"
  <2>1. CASE EndEvent(s)
    <3>1. emit'[s].pc = "idle"
      BY <1>1, <2>1 DEF EndEvent, Idle
    <3>. QED  BY <3>1
  <2>2. CASE NextWatcher(s) /\ emit' = [emit EXCEPT ![s].pc = "dead"]
    <3>1. emit'[s].pc = "dead"
      BY <1>1, <2>2 DEF OnEventCall
    <3>. QED  BY <3>1
  <2>3. CASE NextWatcher(s) /\ emit' = [emit EXCEPT ![s].pc = "end"]
    <3>1. emit'[s].pc = "end"
      BY <1>1, <2>3 DEF OnEventCall
    <3>. QED  BY <3>1
  <2>. QED  BY <2>1, <2>2, <2>3 DEF NextWatcher
<1>. QED  BY <1>5, <1>6, <1>7

(* A subscription starts with the ack, and what it will replay is in the   *)
(* order of its seq.                                                       *)
LEMMA AckInOrder ==
  ASSUME NEW n, NEW m
  PROVE  Increasing(<<AckFrame(n)>>) /\ UpTo(<<AckFrame(n)>>, m)
BY DEF Increasing, UpTo, AckFrame

LEMMA ReplayStarts ==
  ASSUME StoreOrder', UNCHANGED events, loaded',
         NEW c \in Conns, NEW n, NEW since,
         Stream(c)' = <<AckFrame(n)>>, sub'[c] = Replay(ring', SeqOf, since), cpu' = c,
         \A s \in Sources : ~(emit'[s].pc \in {"write", "fan"} /\ emit'[s].at = c),
         c \in watchers' => \A s \in Sources : emit'[s].pc \notin {"write", "fan"}, TypeOK'
  PROVE  OrderPart(c)'
<1>1. \A m : UpTo(Stream(c)', m)
  BY AckInOrder
<1>2. Increasing(Stream(c)')
  BY AckInOrder
<1>3. CallPart(c)' /\ LoopPart(c)'
  BY DEF CallPart, LoopPart, WaitsOn
<1>4. sub'[c].pc = "replay" /\ sub'[c].todo = Since(ring', SeqOf, since)
  BY DEF Replay, NoSub
<1>5. \A x \in sub'[c].todo : x \in Replayable'
  BY <1>4 DEF Since, Replayable
<1>6. ReplayPart(c)'
  BY <1>1, <1>5 DEF StoreOrder, ReplayPart, Behind
<1>7. LastPart(c)'
  BY <1>4 DEF LastPart
<1>. QED  BY <1>1, <1>2, <1>3, <1>6, <1>7 DEF OrderPart

LEMMA OpenInOrder ==
  ASSUME TypeOK, TypeOK', Fresh, Roles, StoreOrder', OrderInv,
         NEW c \in Conns, NEW since \in Nat, Open(c, since)
  PROVE  OrderInv'
<1>. DEFINE newSeq == IF loaded THEN seq ELSE LatestSeq(Seeded, SeqOf)
<1>1. /\ UNCHANGED <<events, emit, watchers, rcv, slow>> /\ cpu = Free /\ cpu' = c
      /\ seq' = newSeq /\ loaded' /\ writer' = c
      /\ sub' = [sub EXCEPT ![c] = Replay(ring', SeqOf, since)]
      /\ queue' = [queue EXCEPT ![c] = Append(@, AckFrame(newSeq))]
      /\ role' = [role EXCEPT ![c] = "owner"]
  BY DEF Open, Subscribable, client
<1>2. /\ role[c] = "none" /\ queue[c] = <<>> /\ rcv[c] = <<>> /\ c \notin watchers
      /\ \A s \in Sources : ~WaitsOn(s, c)
  BY DEF Open, Subscribable, Fresh
<1>. HIDE DEF newSeq
<1>3. OrderPart(c)'
  <2>1. queue'[c] = <<AckFrame(newSeq)>>
    <3>1. queue'[c] = Append(queue[c], AckFrame(newSeq))
      BY <1>1 DEF TypeOK, QueueType
    <3>. QED  BY <1>2, <3>1
  <2>2. Stream(c)' = <<AckFrame(newSeq)>>
    BY <1>1, <1>2, <2>1 DEF Stream
  <2>3. sub'[c] = Replay(ring', SeqOf, since)
    BY <1>1 DEF TypeOK, SubType
  <2>. QED  BY <1>1, <1>2, <2>2, <2>3, ReplayStarts DEF WaitsOn
<1>4. ASSUME NEW d \in Conns, d # c, Prompt(d)'
      PROVE  OrderPart(d)'
  <2>1. Prompt(d) /\ sub'[d] = sub[d] /\ queue'[d] = queue[d]
    BY <1>1, <1>4 DEF Prompt, TypeOK, ConnType, SubType, QueueType
  <2>2. OrderPart(d) /\ AtRest(d)
    BY <1>1, <2>1, IdleOrFree DEF OrderInv
  <2>3. AtRest(d)' /\ Stream(d)' = Stream(d)
    BY <1>1, <2>1, <2>2 DEF AtRest, WaitsOn, Stream
  <2>4. CASE loaded
    <3>1. seq <= seq'
      BY <1>1, <2>4 DEF newSeq, TypeOK, SessionType
    <3>. QED  BY <1>1, <1>4, <2>2, <2>3, <3>1, RestKept
  <2>5. CASE ~loaded
    <3>1. d # writer' /\ d \notin watchers'
      BY <1>1, <1>4, <2>5 DEF Roles
    <3>2. Increasing(Stream(d)')
      BY <2>2, <2>3 DEF OrderPart
    <3>. QED  BY <2>3, <3>1, <3>2, RestPart
  <2>. QED  BY <2>4, <2>5
<1>. QED  BY <1>3, <1>4 DEF OrderInv

LEMMA WatchInOrder ==
  ASSUME TypeOK, TypeOK', Fresh, StoreOrder', OrderInv,
         NEW c \in Conns, NEW since \in Nat, NEW replay \in BOOLEAN, Watch(c, since, replay)
  PROVE  OrderInv'
<1>1. /\ UNCHANGED <<loaded, ring, seq, events, emit, writer, rcv>> /\ cpu = Free /\ loaded
      /\ watchers' = watchers \cup {c}
      /\ queue' = [queue EXCEPT ![c] = Append(@, AckFrame(seq))]
      /\ role' = [role EXCEPT ![c] = "watcher"]
      /\ slow' = IF \E s \in Sources : emit[s].pc \in {"write", "fan"} THEN slow \cup {c} ELSE slow
      /\ IF replay THEN sub' = [sub EXCEPT ![c] = Replay(ring, SeqOf, since)] /\ cpu' = c
                   ELSE UNCHANGED <<sub, cpu>>
  BY DEF Watch, Subscribable, session
<1>2. queue[c] = <<>> /\ rcv[c] = <<>> /\ sub[c].pc = "idle"
  BY DEF Watch, Subscribable, Fresh
<1>3. ASSUME Prompt(c)'
      PROVE  OrderPart(c)'
  <2>1. \A s \in Sources : emit'[s].pc \notin {"write", "fan"}
    BY <1>1, <1>3 DEF Prompt
  <2>2. queue'[c] = <<AckFrame(seq)>>
    <3>1. queue'[c] = Append(queue[c], AckFrame(seq))
      BY <1>1 DEF TypeOK, QueueType
    <3>. QED  BY <1>2, <3>1
  <2>3. Stream(c)' = <<AckFrame(seq)>>
    BY <1>1, <1>2, <2>2 DEF Stream
  <2>4. CASE replay
    <3>1. sub'[c] = Replay(ring', SeqOf, since)
      BY <1>1, <2>4 DEF TypeOK, SubType
    <3>2. cpu' = c
      BY <1>1, <2>4
    <3>. QED  BY <1>1, <2>1, <2>3, <3>1, <3>2, ReplayStarts
  <2>5. CASE ~replay
    <3>1. AtRest(c)'
      BY <1>1, <1>2, <2>1, <2>5 DEF AtRest, WaitsOn
    <3>2. Increasing(Stream(c)') /\ UpTo(Stream(c)', seq')
      BY <2>3, AckInOrder
    <3>. QED  BY <3>1, <3>2, RestPart
  <2>. QED  BY <2>4, <2>5
<1>4. ASSUME NEW d \in Conns, d # c, Prompt(d)'
      PROVE  OrderPart(d)'
  <2>1. Prompt(d) /\ sub'[d] = sub[d] /\ queue'[d] = queue[d]
    BY <1>1, <1>4 DEF Prompt, TypeOK, ConnType, SubType, QueueType
  <2>2. OrderPart(d) /\ AtRest(d)
    BY <1>1, <2>1, IdleOrFree DEF OrderInv
  <2>3. AtRest(d)' /\ Stream(d)' = Stream(d)
    BY <1>1, <1>4, <2>1, <2>2 DEF AtRest, WaitsOn, Stream
  <2>4. seq <= seq'
    BY <1>1 DEF TypeOK, SessionType
  <2>. QED  BY <1>1, <1>4, <2>2, <2>3, <2>4, RestKept
<1>. QED  BY <1>3, <1>4 DEF OrderInv

(* A task that is neither an on_event call nor at d leaves d at rest.      *)
LEMMA OthersInOrder ==
  ASSUME TypeOK, TypeOK', NEW c \in Conns, NEW d \in Conns, d # c, OrderPart(d),
         cpu \in {c, Free}, UNCHANGED <<emit, subs>>, sub'[d] = sub[d],
         Stream(d)' = Stream(d), seq <= seq'
  PROVE  OrderPart(d)'
<1>1. AtRest(d)
  BY IdleOrFree
<1>2. UNCHANGED <<writer, watchers>>
  BY DEF subs
<1>3. AtRest(d)'
  BY <1>1, <1>2 DEF AtRest, WaitsOn
<1>. QED  BY <1>2, <1>3, RestKept

(* What holds of a connection whose subscription is busy with it.          *)
LEMMA BusyAlone ==
  ASSUME TypeOK, NEW c \in Conns, OrderPart(c), sub[c].pc # "idle"
  PROVE  /\ cpu = c
         /\ \A s \in Sources : ~WaitsOn(s, c)
         /\ c \in watchers => \A s \in Sources : emit[s].pc \notin {"write", "fan"}
<1>1. sub[c].pc \in {"idle", "replay", "last"}
  BY DEF TypeOK, SubType, Subscription
<1>2. cpu = c
  BY <1>1 DEF OrderPart, ReplayPart, LastPart
<1>3. c \notin Sources
  BY StreamAssumption
<1>. QED  BY <1>2, <1>3 DEF OrderPart, CallPart, LoopPart

LEMMA ReplayFrameInOrder ==
  ASSUME TypeOK, TypeOK', OrderInv, NEW c \in Conns, ReplayFrame(c)
  PROVE  OrderInv'
<1>. DEFINE id == Min(sub[c].todo)
            f  == EventFrame(id)
<1>1. /\ UNCHANGED <<events, emit, rcv, role, writer, watchers, subs, seq>>
      /\ sub[c].pc = "replay" /\ sub[c] \in Subscription /\ sub \in [Conns -> Subscription]
      /\ seq \in Nat
  BY DEF ReplayFrame, client, conn, subs, session, TypeOK, SubType, SessionType
<1>2. /\ id \in Ids /\ id \in sub[c].todo /\ f \in Frame /\ f.kind = "event"
      /\ f.seq = events[id].seq /\ f.seq \in Nat
      /\ \A x \in sub[c].todo : x \in Nat /\ id <= x /\ events[x].seq \in Nat
  <2>1. sub[c].todo \in SUBSET Nat /\ sub[c].todo # {} /\ sub[c].todo \subseteq Ids
    BY <1>1, EventsType DEF ReplayFrame, TypeOK, Subscription
  <2>2. id \in sub[c].todo /\ \A x \in sub[c].todo : id <= x
    BY <2>1, MinIsMember
  <2>. HIDE DEF id
  <2>3. f \in Frame
    BY <2>1, <2>2, EventsType DEF TypeOK
  <2>4. f.kind = "event" /\ f.seq = events[id].seq
    BY DEF EventFrame
  <2>5. \A x \in sub[c].todo : x \in Nat /\ events[x].seq \in Nat
    BY <2>1, StoredNow DEF Stored
  <2>. QED  BY <2>1, <2>2, <2>3, <2>4, <2>5
<1>3. \/ /\ Put(c, c, f)
         /\ sub' = [sub EXCEPT ![c].todo = @ \ {id}] /\ cpu' = c
      \/ Suspend(c, c) /\ UNCHANGED <<queue, sub>>
  BY DEF ReplayFrame
<1>. HIDE DEF id, f
<1>4. /\ cpu \in {c, Free} /\ slow \subseteq slow'
      /\ \A d \in Conns \ {c} : queue'[d] = queue[d] /\ sub'[d] = sub[d]
  <2>1. cpu \in {c, Free} /\ slow \subseteq slow'
    BY <1>3 DEF Put, Suspend
  <2>2. \A d \in Conns \ {c} : sub'[d] = sub[d]
    BY <1>1, <1>3
  <2>3. \A d \in Conns \ {c} : queue'[d] = queue[d]
    BY <1>3, PutElsewhere DEF TypeOK
  <2>. QED  BY <2>1, <2>2, <2>3
<1>5. ASSUME NEW d \in Conns, d # c, Prompt(d)'
      PROVE  OrderPart(d)'
  <2>1. OrderPart(d)
    BY <1>1, <1>4, <1>5 DEF OrderInv, Prompt
  <2>2. sub'[d] = sub[d] /\ Stream(d)' = Stream(d)
    BY <1>1, <1>4, <1>5 DEF Stream
  <2>3. seq <= seq'
    BY <1>1
  <2>. QED  BY <1>1, <1>4, <1>5, <2>1, <2>2, <2>3, OthersInOrder
<1>6. ASSUME Prompt(c)'
      PROVE  OrderPart(c)'
  <2>1. OrderPart(c)
    BY <1>1, <1>4, <1>6 DEF OrderInv, Prompt
  <2>2. Put(c, c, f) /\ sub' = [sub EXCEPT ![c].todo = @ \ {id}] /\ cpu' = c
    BY <1>3, <1>6 DEF Suspend, Prompt
  <2>3. sub'[c].pc = "replay" /\ sub'[c].todo = sub[c].todo \ {id}
    BY <1>1, <2>2 DEF Subscription
  <2>4. CallPart(c)' /\ LoopPart(c)' /\ LastPart(c)'
    <3>1. /\ \A s \in Sources : ~WaitsOn(s, c)
          /\ c \in watchers => \A s \in Sources : emit[s].pc \notin {"write", "fan"}
      BY <1>1, <2>1, BusyAlone
    <3>. QED  BY <1>1, <2>3, <3>1 DEF CallPart, LoopPart, LastPart, WaitsOn
  <2>5. /\ UpTo(Stream(c), seq) /\ Increasing(Stream(c)) /\ Stream(c) \in Seq(Frame)
        /\ UpTo(Stream(c), f.seq - 1) /\ f.seq <= seq
        /\ \A x \in sub[c].todo : events[x].seq <= seq /\ UpTo(Stream(c), events[x].seq - 1)
        /\ \A x, y \in sub[c].todo : x < y => events[x].seq < events[y].seq
    BY <1>1, <1>2, <2>1, StreamType DEF OrderPart, ReplayPart, Behind
  <2>6. Stream(c)' = Stream(c) \/ Stream(c)' = Append(Stream(c), f)
    BY <1>1, <1>2, <2>2, PutStream
  <2>7. Increasing(Stream(c)') /\ UpTo(Stream(c)', seq)
    <3>1. Increasing(Append(Stream(c), f)) /\ UpTo(Append(Stream(c), f), seq)
      BY <1>1, <1>2, <2>5, OrderAppend
    <3>. QED  BY <2>5, <2>6, <3>1
  <2>8. ASSUME NEW x \in sub'[c].todo
        PROVE  UpTo(Stream(c)', events[x].seq - 1)
    <3>1. x \in sub[c].todo /\ events[id].seq < events[x].seq
      BY <1>2, <2>3, <2>5
    <3>2. events[x].seq - 1 \in Int /\ f.seq <= events[x].seq - 1
      BY <1>2, <3>1
    <3>3. UpTo(Append(Stream(c), f), events[x].seq - 1)
      BY <1>2, <2>5, <3>1, <3>2, OrderAppend
    <3>. QED  BY <2>5, <2>6, <3>1, <3>3
  <2>9. ReplayPart(c)'
    BY <1>1, <2>2, <2>3, <2>5, <2>7, <2>8 DEF ReplayPart, Behind
  <2>. QED  BY <1>1, <2>4, <2>7, <2>9 DEF OrderPart
<1>. QED  BY <1>5, <1>6 DEF OrderInv

LEMMA EndReplayInOrder ==
  ASSUME TypeOK, TypeOK', OrderInv, NEW c \in Conns, EndReplay(c)
  PROVE  OrderInv'
<1>1. /\ UNCHANGED <<events, emit, rcv, queue, role, slow, subs, writer, watchers>>
      /\ cpu = c /\ sub[c].pc = "replay" /\ sub \in [Conns -> Subscription]
      /\ seq \in Nat
  BY DEF EndReplay, client, conn, subs, Running, TypeOK, SubType, SessionType
<1>2. /\ \A d \in Conns \ {c} : sub'[d] = sub[d]
      /\ seq' \in {seq, seq + 1} /\ \A d \in Conns : Stream(d)' = Stream(d)
  BY <1>1 DEF EndReplay, Stream
<1>3. ASSUME NEW d \in Conns, d # c, Prompt(d)'
      PROVE  OrderPart(d)'
  <2>1. OrderPart(d) /\ seq <= seq'
    BY <1>1, <1>2, <1>3 DEF OrderInv, Prompt
  <2>. QED  BY <1>1, <1>2, <1>3, <2>1, OthersInOrder
<1>4. ASSUME Prompt(c)'
      PROVE  OrderPart(c)'
  <2>1. OrderPart(c)
    BY <1>1, <1>4 DEF OrderInv, Prompt
  <2>2. /\ \A s \in Sources : ~WaitsOn(s, c)
        /\ c \in watchers => \A s \in Sources : emit[s].pc \notin {"write", "fan"}
    BY <1>1, <2>1, BusyAlone
  <2>3. Stream(c) \in Seq(Frame) /\ UpTo(Stream(c), seq) /\ Increasing(Stream(c))
    BY <1>1, <2>1, StreamType DEF OrderPart, ReplayPart
  <2>4. CASE ~GapDue(c)
    <3>1. sub'[c] = NoSub /\ seq' = seq
      BY <1>1, <2>4 DEF EndReplay
    <3>2. AtRest(c)'
      BY <1>1, <2>2, <3>1 DEF AtRest, WaitsOn, NoSub
    <3>3. Increasing(Stream(c)') /\ UpTo(Stream(c)', seq')
      BY <1>2, <2>3, <3>1
    <3>. QED  BY <3>2, <3>3, RestPart
  <2>5. CASE GapDue(c)
    <3>1. /\ seq' = seq + 1 /\ cpu' = cpu
          /\ sub' = [sub EXCEPT ![c].pc = "last", ![c].last = GapOf(c)]
      BY <2>5 DEF EndReplay
    <3>2. sub'[c].pc = "last" /\ sub'[c].last = GapOf(c)
      BY <1>1, <3>1 DEF Subscription
    <3>3. GapOf(c).seq = seq + 1
      BY DEF GapOf, GapFrame
    <3>4. UpTo(Stream(c), seq + 1)
      BY <1>1, <2>3, UpToMore
    <3>5. seq' - 1 = seq
      BY <1>1, <3>1
    <3>6. LastPart(c)'
      BY <1>1, <1>2, <2>3, <3>1, <3>2, <3>3, <3>5 DEF LastPart
    <3>7. CallPart(c)' /\ LoopPart(c)' /\ ReplayPart(c)'
      BY <1>1, <2>2, <3>2 DEF CallPart, LoopPart, ReplayPart, WaitsOn
    <3>8. Increasing(Stream(c)') /\ UpTo(Stream(c)', seq')
      BY <1>2, <2>3, <3>1, <3>4
    <3>. QED  BY <3>6, <3>7, <3>8 DEF OrderPart
  <2>. QED  BY <2>4, <2>5
<1>. QED  BY <1>3, <1>4 DEF OrderInv

LEMMA SendLastInOrder ==
  ASSUME TypeOK, TypeOK', OrderInv, NEW c \in Conns, SendLast(c)
  PROVE  OrderInv'
<1>. DEFINE f == sub[c].last
<1>1. /\ UNCHANGED <<events, emit, rcv, role, writer, watchers, subs, seq>>
      /\ sub[c].pc = "last" /\ f \in Frame /\ f.seq \in Nat /\ sub \in [Conns -> Subscription]
      /\ seq \in Nat
  BY DEF SendLast, client, conn, subs, session, TypeOK, SubType, SessionType, Subscription, Frame
<1>2. \/ Put(c, c, f) /\ sub' = [sub EXCEPT ![c] = NoSub]
      \/ Suspend(c, c) /\ UNCHANGED <<queue, sub>>
  BY DEF SendLast
<1>. HIDE DEF f
<1>3. /\ cpu \in {c, Free} /\ slow \subseteq slow'
      /\ \A d \in Conns \ {c} : queue'[d] = queue[d] /\ sub'[d] = sub[d]
  <2>1. cpu \in {c, Free} /\ slow \subseteq slow'
    BY <1>2 DEF Put, Suspend
  <2>2. \A d \in Conns \ {c} : sub'[d] = sub[d]
    BY <1>1, <1>2
  <2>3. \A d \in Conns \ {c} : queue'[d] = queue[d]
    BY <1>2, PutElsewhere DEF TypeOK
  <2>. QED  BY <2>1, <2>2, <2>3
<1>4. ASSUME NEW d \in Conns, d # c, Prompt(d)'
      PROVE  OrderPart(d)'
  <2>1. OrderPart(d)
    BY <1>1, <1>3, <1>4 DEF OrderInv, Prompt
  <2>2. sub'[d] = sub[d] /\ Stream(d)' = Stream(d)
    BY <1>1, <1>3, <1>4 DEF Stream
  <2>3. seq <= seq'
    BY <1>1
  <2>. QED  BY <1>1, <1>3, <1>4, <2>1, <2>2, <2>3, OthersInOrder
<1>5. ASSUME Prompt(c)'
      PROVE  OrderPart(c)'
  <2>1. OrderPart(c)
    BY <1>1, <1>3, <1>5 DEF OrderInv, Prompt
  <2>2. Put(c, c, f) /\ sub'[c] = NoSub
    BY <1>1, <1>2, <1>5 DEF Suspend, Prompt
  <2>3. AtRest(c)'
    <3>1. /\ \A s \in Sources : ~WaitsOn(s, c)
          /\ c \in watchers => \A s \in Sources : emit[s].pc \notin {"write", "fan"}
      BY <1>1, <2>1, BusyAlone
    <3>. QED  BY <1>1, <2>2, <3>1 DEF AtRest, WaitsOn, NoSub
  <2>4. /\ Stream(c) \in Seq(Frame) /\ Increasing(Stream(c))
        /\ c = writer \/ c \in watchers => UpTo(Stream(c), seq)
        /\ f.kind # "ack" => f.seq = seq /\ UpTo(Stream(c), seq - 1)
    BY <1>1, <2>1, StreamType DEF OrderPart, LastPart, f
  <2>5. Stream(c)' = Stream(c) \/ Stream(c)' = Append(Stream(c), f)
    BY <1>1, <2>2, PutStream
  <2>6. Increasing(Append(Stream(c), f))
    BY <1>1, <2>4, OrderAppend
  <2>7. c = writer \/ c \in watchers => UpTo(Append(Stream(c), f), seq)
    <3>1. f.kind # "ack" => f.seq <= seq
      BY <1>1, <2>4
    <3>. QED  BY <1>1, <2>4, <3>1, OrderAppend
  <2>8. Increasing(Stream(c)')
    BY <2>4, <2>5, <2>6
  <2>9. c = writer' \/ c \in watchers' => UpTo(Stream(c)', seq')
    BY <1>1, <2>4, <2>5, <2>7
  <2>. QED  BY <2>3, <2>8, <2>9, RestPart
<1>. QED  BY <1>4, <1>5 DEF OrderInv

LEMMA UnwatchInOrder ==
  ASSUME TypeOK, TypeOK', OrderInv, NEW c \in Conns, Unwatch(c) \/ Detach(c)
  PROVE  OrderInv'
<1>1. /\ cpu = Free /\ Forget(c) /\ UNCHANGED <<rcv, queue, seq, slow>>
      /\ watchers' \subseteq watchers /\ writer' \in {writer, None}
      /\ \A d \in Conns : role'[d] = "done" \/ (role'[d] = role[d] /\ sub'[d] = sub[d])
  BY DEF Unwatch, Detach, session, client, conn, TypeOK, ConnType, SubType
<1>2. emit \in [Sources -> OnEventCall]
  BY DEF TypeOK, EmitType
<1>3. \A s \in Sources : emit'[s].pc = emit[s].pc /\ emit'[s].at = emit[s].at
  BY <1>1, <1>2, ForgetSame
<1>4. \A d \in Conns : Prompt(d)' =>
        /\ Prompt(d) /\ sub'[d] = sub[d]
        /\ d = writer' => d = writer
        /\ d \in watchers' => d \in watchers
  BY <1>1, StreamAssumption DEF Prompt
<1>. QED  BY <1>1, <1>3, <1>4, QuietInOrder

LEMMA QuietConnInOrder ==
  ASSUME TypeOK, TypeOK', OrderInv, NEW c \in Conns, User(c) \/ Drop(c) \/ StopServing(c)
  PROVE  OrderInv'
<1>1. /\ cpu = Free /\ UNCHANGED <<rcv, queue, seq, slow, role, sub, emit, writer, watchers>>
  BY DEF User, Drop, StopServing, session, client, conn, subs
<1>2. \A d \in Conns : Prompt(d)' => Prompt(d)
  BY <1>1 DEF Prompt
<1>. QED  BY <1>1, <1>2, QuietInOrder

LEMMA DeliverInOrder ==
  ASSUME TypeOK, TypeOK', OrderInv, NEW c \in Conns, Deliver(c) \/ Connect(c)
  PROVE  OrderInv'
<1>1. /\ cpu = Free /\ UNCHANGED <<seq, writer, watchers>>
  BY DEF Deliver, Connect, session, subs
<1>2. \A s \in Sources : emit'[s].pc \in {"write", "fan"} => emit'[s] = emit[s]
  <2>1. CASE Deliver(c)
    BY <2>1 DEF Deliver
  <2>2. CASE Connect(c)
    <3>1. ASSUME NEW s \in Sources, WaitsOn(s, c)
          PROVE  emit'[s].pc = "stuck"
      BY <2>2, <3>1 DEF Connect, TypeOK, EmitType, OnEventCall
    <3>2. \A s \in Sources : ~WaitsOn(s, c) => emit'[s] = emit[s]
      BY <2>2 DEF Connect
    <3>. QED  BY <3>1, <3>2
  <2>. QED  BY <2>1, <2>2
<1>. SUFFICES ASSUME NEW d \in Conns, Prompt(d)' PROVE OrderPart(d)'
  BY DEF OrderInv
<1>3. Prompt(d) /\ sub'[d] = sub[d] /\ Stream(d)' = Stream(d)
  <2>1. CASE Deliver(c)
    <3>1. UNCHANGED <<role, slow, sub>>
      BY <2>1 DEF Deliver, conn
    <3>2. CASE d = c
      BY <2>1, <3>1, <3>2, StreamDeliver DEF Prompt
    <3>3. CASE d # c
      <4>1. rcv'[d] = rcv[d] /\ queue'[d] = queue[d]
        BY <2>1, <3>3 DEF Deliver, TypeOK, QueueType, ClientType
      <4>. QED  BY <3>1, <4>1 DEF Prompt, Stream
    <3>. QED  BY <3>2, <3>3
  <2>2. CASE Connect(c)
    <3>1. d # c
      BY <2>2 DEF Connect, Prompt, TypeOK, ConnType
    <3>2. /\ rcv'[d] = rcv[d] /\ queue'[d] = queue[d] /\ sub'[d] = sub[d] /\ role'[d] = role[d]
          /\ slow' = slow \ {c}
      BY <2>2, <3>1 DEF Connect, TypeOK, QueueType, ClientType, SubType, ConnType
    <3>. QED  BY <3>1, <3>2 DEF Prompt, Stream
  <2>. QED  BY <2>1, <2>2
<1>4. OrderPart(d) /\ AtRest(d)
  BY <1>1, <1>3, IdleOrFree DEF OrderInv
<1>5. AtRest(d)'
  BY <1>1, <1>2, <1>3, <1>4 DEF AtRest, WaitsOn
<1>6. seq <= seq'
  BY <1>1 DEF TypeOK, SessionType
<1>. QED  BY <1>1, <1>3, <1>4, <1>5, <1>6, RestKept

LEMMA SoftKillInOrder ==
  ASSUME TypeOK, TypeOK', OrderInv, SoftKill
  PROVE  OrderInv'
<1>1. /\ cpu = Free /\ UNCHANGED <<rcv, queue, seq, slow, role, sub, writer, watchers>>
      /\ \A s \in Sources : emit'[s].pc = "idle"
  BY DEF SoftKill, CloseBackend, Idle, client, conn, subs
<1>2. \A d \in Conns : Prompt(d)' => Prompt(d)
  BY <1>1 DEF Prompt
<1>. QED  BY <1>1, <1>2, QuietInOrder

(* The session is dropped: nobody is subscribed, and a kill leaves of a    *)
(* stream what its client has received.                                    *)
LEMMA DroppedInOrder ==
  ASSUME TypeOK, OrderInv, Reap \/ Killed
  PROVE  OrderInv'
<1>. SUFFICES ASSUME NEW c \in Conns, Prompt(c)' PROVE OrderPart(c)'
  BY DEF OrderInv
<1>1. /\ writer' = None /\ watchers' = {} /\ UNCHANGED <<rcv, slow, role>>
      /\ sub'[c].pc = "idle" /\ \A s \in Sources : emit'[s].pc = "idle"
  BY DEF Reap, CloseBackend, Killed, Unload, Idle, NoSub, conn, client
<1>2. OrderPart(c)
  BY <1>1 DEF OrderInv, Prompt
<1>3. AtRest(c)'
  BY <1>1 DEF AtRest, WaitsOn
<1>4. Increasing(Stream(c)')
  <2>1. CASE Reap
    BY <1>2, <2>1 DEF Reap, client, Stream, OrderPart
  <2>2. CASE Killed
    <3>1. rcv[c] \in Seq(Frame) /\ queue[c] \in Seq(Frame) /\ Increasing(rcv[c] \o queue[c])
      BY <1>2, StreamType DEF OrderPart, Stream
    <3>2. queue'[c] = <<>> /\ rcv'[c] = rcv[c]
      BY <1>1, <2>2 DEF Killed
    <3>3. Stream(c)' = rcv[c]
      BY <3>1, <3>2, ConcatEmptySeq DEF Stream
    <3>. QED  BY <3>1, <3>3, IncreasingFront
  <2>. QED  BY <2>1, <2>2
<1>5. c # writer' /\ c \notin watchers'
  BY <1>1, StreamAssumption
<1>. QED  BY <1>3, <1>4, <1>5, RestPart

LEMMA OrderInvKept ==
  (TypeOK /\ Fresh) /\ TypeOK' /\ Roles /\ StoreOrder' /\ OrderInv /\ [Next]_vars => OrderInv'
<1>. SUFFICES ASSUME TypeOK, Fresh, TypeOK', Roles, StoreOrder', OrderInv, [Next]_vars
              PROVE  OrderInv'
  OBVIOUS
<1>1. CASE UNCHANGED vars
  <2>1. UNCHANGED <<rcv, queue, seq, events, slow, role, sub, emit, writer, watchers, cpu>>
    BY <1>1 DEF vars, session, subs, conn, client
  <2>. QED  BY <2>1 DEF OrderInv, Prompt, OrderPart, CallPart, LoopPart, ReplayPart, LastPart,
                        Behind, Stream, WaitsOn
<1>2. ASSUME NEW s \in Sources, SourceStep(s)
      PROVE  OrderInv'
  BY <1>2, OnEventInOrder, WriteOwnerInOrder, NextWatcherInOrder, WriteWatcherInOrder
     DEF SourceStep
<1>3. ASSUME NEW c \in Conns, SubscribeStep(c)
      PROVE  OrderInv'
  <2>1. 0 \in Nat /\ lastSeq[c] \in Nat
    BY DEF TypeOK, ClientType
  <2>2. ASSUME NEW since \in {0, lastSeq[c]}, Open(c, since)
        PROVE  OrderInv'
    BY <2>1, <2>2, OpenInOrder
  <2>3. ASSUME NEW replay \in BOOLEAN, Watch(c, lastSeq[c], replay)
        PROVE  OrderInv'
    BY <2>1, <2>3, WatchInOrder
  <2>. QED  BY <1>3, <2>2, <2>3, ReplayFrameInOrder, EndReplayInOrder, SendLastInOrder,
               UnwatchInOrder DEF SubscribeStep
<1>4. ASSUME NEW c \in Conns, ConnectionStep(c)
      PROVE  OrderInv'
  BY <1>4, QuietConnInOrder, DeliverInOrder, UnwatchInOrder DEF ConnectionStep
<1>5. CASE SoftKill \/ Reap \/ Killed
  BY <1>5, SoftKillInOrder, DroppedInOrder
<1>. QED  BY <1>1, <1>2, <1>3, <1>4, <1>5 DEF Next, Crash, CrashInEvent

(* As long as no put on its queue had to wait, an owner gets its frames in *)
(* the order of their seq: what was replayed, the notice of a gap, live    *)
(* events (session.py:128-147, 177-216); and so does a watcher while no    *)
(* on_event call waits for anybody.                                        *)
THEOREM FramesInOrder == Spec => []InOrder
<1>1. Init => OrderInv
  BY DEF Init, OrderInv, Prompt
<1>2. OrderInv => InOrder
  BY DEF OrderInv, OrderPart, Prompt, InOrder
<1>. QED  BY <1>1, <1>2, OrderInvKept, TypeInduction, RolesInduction, OrderOfStores, PTL DEF Spec

-----------------------------------------------------------------------------
(* Nothing is lost.                                                        *)

LEMMA GapsMember ==
  ASSUME NEW fs, NEW g
  PROVE  g \in Gaps(fs) <=>
           \E i \in DOMAIN fs : fs[i].kind = "gap" /\ g = <<fs[i].since, fs[i].first>>
BY DEF Gaps

LEMMA AppendKeeps ==
  ASSUME NEW fs \in Seq(Frame), NEW f \in Frame
  PROVE  /\ Events(fs) \subseteq Events(Append(fs, f)) /\ Gaps(fs) \subseteq Gaps(Append(fs, f))
         /\ f.kind = "event" => f.id \in Events(Append(fs, f))
         /\ f.kind = "gap" => <<f.since, f.first>> \in Gaps(Append(fs, f))
<1>. DEFINE gs == Append(fs, f)
<1>1. /\ \A i \in DOMAIN fs : i \in DOMAIN gs /\ gs[i] = fs[i]
      /\ Len(fs) + 1 \in DOMAIN gs /\ gs[Len(fs) + 1] = f
  BY LenProperties, AppendProperties
<1>. HIDE DEF gs
<1>2. Events(fs) \subseteq Events(gs)
  BY <1>1, EventsMember
<1>3. Gaps(fs) \subseteq Gaps(gs)
  BY <1>1, GapsMember
<1>4. f.kind = "event" => f.id \in Events(gs)
  BY <1>1, EventsMember
<1>5. f.kind = "gap" => <<f.since, f.first>> \in Gaps(gs)
  BY <1>1, GapsMember
<1>. QED  BY <1>2, <1>3, <1>4, <1>5 DEF gs

(* A frame that is put on the queue of a connection that lives gets there. *)
LEMMA PutArrives ==
  ASSUME TypeOK, NEW t, NEW c \in Conns, NEW f \in Frame, Put(t, c, f), UNCHANGED rcv, alive[c]
  PROVE  Stream(c)' = Append(Stream(c), f)
<1>1. queue' = [queue EXCEPT ![c] = Append(@, f)]
  BY DEF Put
<1>. QED  BY <1>1, StreamAppend

(* The inductive invariant.  What a replay will not bring lies below the   *)
(* oldest event of the snapshot, and the gap that tells of it is due.      *)
Accounted(c, i) ==
  \/ i \in Events(Stream(c)) \cup Underway(c)
  \/ Covered(Gaps(Stream(c)), events[i].seq)
  \/ sub[c].pc = "replay" /\ Covered({<<sub[c].since, sub[c].earliest>>}, events[i].seq)
  \/ /\ sub[c].pc = "last" /\ sub[c].last.kind = "gap"
     /\ Covered({<<sub[c].last.since, sub[c].last.first>>}, events[i].seq)

Complete(c) == \A i \in Ids \ cut : events[i].seq > from[c] => Accounted(c, i)

Owns(c) == loaded /\ LogIntact /\ writer = c /\ alive[c]

CompleteInv == \A c \in Conns : Owns(c) => Complete(c)

LEMMA UnderwayMember ==
  ASSUME NEW c, NEW i
  PROVE  i \in Underway(c) <=> i \in sub[c].todo \/ \E s \in Sources : WaitsOn(s, c) /\ emit[s].id = i
BY DEF Underway

LEMMA UnderwayThen ==
  ASSUME NEW c, NEW i
  PROVE  i \in Underway(c)' <=>
           i \in sub'[c].todo \/ \E s \in Sources : WaitsOn(s, c)' /\ emit'[s].id = i
BY DEF Underway, WaitsOn

LEMMA CoveredMore ==
  ASSUME NEW g, NEW h, NEW n, g \subseteq h, Covered(g, n)
  PROVE  Covered(h, n)
BY DEF Covered

(* A step after which every event an owner could count on is still there,  *)
(* or has been cut.                                                        *)
LEMMA CompleteKept ==
  ASSUME NEW c \in Conns, Complete(c), UNCHANGED events, from'[c] = from[c], cut \subseteq cut',
         sub'[c] = sub[c],
         Events(Stream(c)) \subseteq Events(Stream(c)'), Gaps(Stream(c)) \subseteq Gaps(Stream(c)'),
         \A s \in Sources : WaitsOn(s, c) =>
           \/ WaitsOn(s, c)' /\ emit'[s].id = emit[s].id
           \/ emit[s].id \in Events(Stream(c)')
           \/ emit[s].id \in cut'
  PROVE  Complete(c)'
<1>. SUFFICES ASSUME NEW i \in Ids, i \notin cut', events[i].seq > from[c]
              PROVE  Accounted(c, i)'
  BY DEF Complete, Ids
<1>1. Accounted(c, i)
  BY DEF Complete
<1>2. CASE i \in Events(Stream(c))
  BY <1>2 DEF Accounted
<1>3. CASE i \in Underway(c)
  <2>1. i \in Underway(c)' \/ i \in Events(Stream(c)')
    BY <1>3, UnderwayMember, UnderwayThen
  <2>. QED  BY <2>1 DEF Accounted
<1>4. CASE Covered(Gaps(Stream(c)), events[i].seq)
  <2>1. Covered(Gaps(Stream(c)'), events'[i].seq)
    BY <1>4, CoveredMore
  <2>. QED  BY <2>1 DEF Accounted
<1>5. CASE sub[c].pc = "replay" /\ Covered({<<sub[c].since, sub[c].earliest>>}, events[i].seq)
  BY <1>5 DEF Accounted
<1>6. CASE /\ sub[c].pc = "last" /\ sub[c].last.kind = "gap"
           /\ Covered({<<sub[c].last.since, sub[c].last.first>>}, events[i].seq)
  BY <1>6 DEF Accounted
<1>. QED  BY <1>1, <1>2, <1>3, <1>4, <1>5, <1>6 DEF Accounted

(* The same when the owner's stream stays as it is.                        *)
LEMMA QuietComplete ==
  ASSUME CompleteInv, UNCHANGED events, cut \subseteq cut',
         NEW c \in Conns, Owns(c), from'[c] = from[c], sub'[c] = sub[c], Stream(c)' = Stream(c),
         \A s \in Sources : WaitsOn(s, c) =>
           \/ WaitsOn(s, c)' /\ emit'[s].id = emit[s].id
           \/ emit[s].id \in cut'
  PROVE  Complete(c)'
<1>1. Complete(c)
  BY DEF CompleteInv
<1>. QED  BY <1>1, CompleteKept

LEMMA IntactSame ==
  ASSUME UNCHANGED <<events, file, fails>>
  PROVE  LogIntact' = LogIntact
BY DEF LogIntact, SizeOf, Ids

LEMMA OnEventComplete ==
  ASSUME TypeOK, TypeOK', CompleteInv, NEW s \in Sources, NEW size \in Sizes, NEW kind \in Kinds,
         OnEvent(s, size, kind)
  PROVE  CompleteInv'
<1>. SUFFICES ASSUME NEW c \in Conns, Owns(c)' PROVE Complete(c)'
  BY DEF CompleteInv
<1>. DEFINE n == Len(events) + 1
<1>1. /\ emit'[s].pc = "write" /\ emit'[s].id = n /\ emit'[s].at = writer
      /\ emit[s].pc = "idle" /\ \A t \in Sources \ {s} : emit'[t] = emit[t]
  BY DEF OnEvent, TypeOK, EmitType, Idle
<1>2. /\ UNCHANGED <<rcv, queue, sub, writer, alive, from, cut>> /\ loaded
      /\ Stream(c)' = Stream(c)
  BY DEF OnEvent, Produces, client, conn, subs, Stream
<1>3. /\ \A i \in Ids : i \in Ids' /\ SizeOf'[i] = SizeOf[i]
      /\ \E ids : Written(file, file', ids)
      /\ fails' >= fails
  <2>1. \A i \in Ids : i \in Ids' /\ SizeOf'[i] = SizeOf[i]
    BY GrowsBy DEF OnEvent
  <2>2. \E ids : Written(file, file', ids)
    <3>1. IsFile(file, Ids)
      BY DEF TypeOK, SessionType
    <3>2. /\ Written(file, LogAppend(file, n), file.unflushed \cup {n})
          /\ Written(file, LogAppendFails(file, n), {})
      BY <3>1, StepsWrite
    <3>3. file' = LogAppend(file, n) \/ file' = LogAppendFails(file, n)
      BY DEF OnEvent, LogWrite
    <3>. HIDE DEF n
    <3>. QED  BY <3>2, <3>3
  <2>3. fails' >= fails
    BY DEF OnEvent, LogWrite, TypeOK, HistoryType
  <2>. QED  BY <2>1, <2>2, <2>3
<1>4. Complete(c)
  <2>1. LogIntact
    BY <1>3, IntactBefore DEF Owns
  <2>. QED  BY <1>2, <2>1 DEF Owns, CompleteInv
<1>5. Ids' = Ids \cup {n} /\ \A i \in Ids : events'[i] = events[i]
  BY GrowsBy DEF OnEvent
<1>. HIDE DEF n
<1>. SUFFICES ASSUME NEW i \in Ids', i \notin cut', events'[i].seq > from[c]
              PROVE  Accounted(c, i)'
  BY <1>2 DEF Complete
<1>6. CASE i = n
  <2>1. WaitsOn(s, c)' /\ emit'[s].id = i
    BY <1>1, <1>2, <1>6 DEF WaitsOn, Owns
  <2>2. i \in Underway(c)'
    BY <2>1, UnderwayThen
  <2>. QED  BY <2>2 DEF Accounted
<1>7. CASE i \in Ids
  <2>1. Accounted(c, i) /\ events'[i] = events[i]
    BY <1>2, <1>4, <1>5, <1>7 DEF Complete
  <2>2. i \in Underway(c) => i \in Underway(c)'
    <3>1. \A t \in Sources : WaitsOn(t, c) => WaitsOn(t, c)' /\ emit'[t].id = emit[t].id
      BY <1>1 DEF WaitsOn
    <3>. QED  BY <1>2, <3>1, UnderwayMember, UnderwayThen
  <2>. QED  BY <1>2, <2>1, <2>2 DEF Accounted
<1>. QED  BY <1>5, <1>6, <1>7

(* The frame of an on_event call is put, or the call waits.                *)
LEMMA CallComplete ==
  ASSUME TypeOK, CompleteInv, NEW s \in Sources, NEW d \in Conns, WaitsOn(s, d),
         \/ Put(s, d, EventFrame(emit[s].id))
         \/ UNCHANGED <<queue, emit>>,
         UNCHANGED <<rcv, events, file, fails, loaded, writer, alive, sub, from>>,
         cut \subseteq cut',
         \A t \in Sources \ {s} : emit'[t] = emit[t]
  PROVE  CompleteInv'
<1>. DEFINE id == emit[s].id
            f == EventFrame(id)
<1>. SUFFICES ASSUME NEW c \in Conns, Owns(c)' PROVE Complete(c)'
  BY DEF CompleteInv
<1>1. Owns(c) /\ Complete(c)
  BY IntactSame DEF Owns, CompleteInv
<1>2. f \in Frame /\ f.kind = "event" /\ f.id = id
  <2>1. id \in Ids
    BY DEF TypeOK, EmitType, WaitsOn
  <2>. QED  BY <2>1, EventsType DEF TypeOK, EventFrame
<1>3. CASE UNCHANGED <<queue, emit>>
  BY <1>1, <1>3, QuietComplete DEF Stream, WaitsOn
<1>4. CASE Put(s, d, f)
  <2>. HIDE DEF id
  <2>1. CASE c = d
    <3>. HIDE DEF f
    <3>1. Stream(c)' = Append(Stream(c), f) /\ Stream(c) \in Seq(Frame)
      BY <1>1, <1>2, <1>4, <2>1, PutArrives, StreamType DEF Owns
    <3>2. /\ Events(Stream(c)) \subseteq Events(Stream(c)')
          /\ Gaps(Stream(c)) \subseteq Gaps(Stream(c)')
          /\ id \in Events(Stream(c)')
      BY <1>2, <3>1, AppendKeeps
    <3>3. \A t \in Sources : WaitsOn(t, c) =>
            \/ WaitsOn(t, c)' /\ emit'[t].id = emit[t].id
            \/ emit[t].id \in Events(Stream(c)')
      BY <3>2 DEF WaitsOn, id
    <3>. QED  BY <1>1, <3>2, <3>3, CompleteKept
  <2>2. CASE c # d
    <3>1. Stream(c)' = Stream(c)
      BY <1>4, <2>2, PutElsewhere DEF TypeOK, Stream
    <3>2. \A t \in Sources : WaitsOn(t, c) => WaitsOn(t, c)' /\ emit'[t].id = emit[t].id
      BY <2>2 DEF WaitsOn
    <3>. QED  BY <1>1, <3>1, <3>2, QuietComplete
  <2>. QED  BY <2>1, <2>2
<1>. QED  BY <1>3, <1>4

LEMMA SourceStepComplete ==
  ASSUME TypeOK, TypeOK', CompleteInv, NEW s \in Sources, SourceStep(s)
  PROVE  CompleteInv'
<1>0. emit \in [Sources -> OnEventCall] /\ emit[s] \in OnEventCall
  BY DEF TypeOK, EmitType
<1>1. ASSUME NEW size \in Sizes, NEW kind \in Kinds, OnEvent(s, size, kind)
      PROVE  CompleteInv'
  BY <1>1, OnEventComplete
<1>2. CASE WriteOwner(s) \/ WriteWatcher(s) \/ NextWatcher(s) \/ EndEvent(s)
  <2>1. /\ UNCHANGED <<rcv, events, file, fails, loaded, writer, alive, sub, from>>
        /\ cut \subseteq cut' /\ \A t \in Sources \ {s} : emit'[t] = emit[t]
    <3>1. /\ UNCHANGED <<rcv, events, file, fails, loaded, writer, alive, sub, from>>
          /\ cut \subseteq cut'
      BY <1>2 DEF WriteOwner, NextWatcher, WriteWatcher, EndEvent, conn, session, subs, client,
         bounds
    <3>2. \A t \in Sources \ {s} : emit'[t] = emit[t]
      BY <1>0, <1>2 DEF WriteOwner, StartFan, NextWatcher, WriteWatcher, EndEvent
    <3>. QED  BY <3>1, <3>2
  <2>2. CASE \E d \in Conns : /\ WaitsOn(s, d)
                              /\ \/ Put(s, d, EventFrame(emit[s].id))
                                 \/ UNCHANGED <<queue, emit>>
    BY <2>1, <2>2, CallComplete
  <2>3. CASE UNCHANGED queue /\ \A d \in Conns : ~WaitsOn(s, d)
    <3>. SUFFICES ASSUME NEW c \in Conns, Owns(c)' PROVE Complete(c)'
      BY DEF CompleteInv
    <3>1. Owns(c) /\ Stream(c)' = Stream(c)
      BY <2>1, <2>3, IntactSame DEF Owns, Stream
    <3>2. \A t \in Sources : WaitsOn(t, c) => WaitsOn(t, c)' /\ emit'[t].id = emit[t].id
      BY <2>1, <2>3 DEF WaitsOn
    <3>. QED  BY <2>1, <3>1, <3>2, QuietComplete
  <2>4. CASE WriteOwner(s)
    <3>1. CASE emit[s].at = None
      BY <2>3, <2>4, <3>1, StreamAssumption DEF WriteOwner, WaitsOn
    <3>2. CASE emit[s].at # None
      <4>1. emit[s].at \in Conns /\ WaitsOn(s, emit[s].at)
        BY <1>0, <2>4, <3>2 DEF WriteOwner, WaitsOn, OnEventCall
      <4>. QED  BY <2>2, <2>4, <3>2, <4>1 DEF WriteOwner
    <3>. QED  BY <3>1, <3>2
  <2>5. CASE WriteWatcher(s)
    <3>1. emit[s].at \in Conns /\ WaitsOn(s, emit[s].at)
      BY <1>0, <2>5 DEF WriteWatcher, WaitsOn, OnEventCall
    <3>. QED  BY <2>2, <2>5, <3>1 DEF WriteWatcher
  <2>6. CASE NextWatcher(s) \/ EndEvent(s)
    BY <2>3, <2>6, StreamAssumption DEF NextWatcher, EndEvent, WaitsOn
  <2>. QED  BY <1>2, <2>4, <2>5, <2>6
<1>. QED  BY <1>1, <1>2 DEF SourceStep

(* What the snapshot does not hold is older than all of it.                *)
Snapshot ==
  \A i \in Ids \ ring :
    ring # {} /\ Min(ring) \in ring /\ events[i].seq < events[Min(ring)].seq

LEMMA SnapshotComplete == TypeOK /\ LogInv /\ loaded /\ LogIntact => Snapshot
<1>. SUFFICES ASSUME TypeOK, LogInv, loaded, LogIntact, NEW i \in Ids \ ring
              PROVE  ring # {} /\ Min(ring) \in ring /\ events[i].seq < events[Min(ring)].seq
  BY DEF Snapshot
<1>. DEFINE n == Len(events)
<1>1. PICK m \in 1 .. n + 1 : EndsFrom(ring, m)
  BY DEF LogInv, RingKept
<1>2. n \in Nat /\ Ids = 1 .. n /\ ring = m .. n /\ (n # 0 => m <= n)
  BY <1>1, EventsType DEF TypeOK, EndsFrom
<1>. HIDE DEF n
<1>3. m \in 1 .. n /\ i < m /\ i \in Nat
  BY <1>2
<1>4. Min(ring) = m
  <2>1. ring \in SUBSET Nat /\ m \in ring
    BY <1>2, <1>3
  <2>2. Min(ring) \in ring /\ \A y \in ring : Min(ring) <= y
    BY <2>1, MinIsMember
  <2>. HIDE DEF Min
  <2>. QED  BY <1>2, <1>3, <2>2
<1>5. \A j, k \in Ids : j < k => events[j].seq < events[k].seq
  BY DEF LogInv, SeqKept
<1>. QED  BY <1>2, <1>3, <1>4, <1>5

LEMMA SnapshotThen == (TypeOK /\ LogInv /\ loaded /\ LogIntact)' => Snapshot'
BY SnapshotComplete, PTL

LEMMA OpenComplete ==
  ASSUME TypeOK, TypeOK', LogInv', CompleteInv, NEW c \in Conns, NEW since \in Nat,
         Open(c, since)
  PROVE  CompleteInv'
<1>. SUFFICES ASSUME Owns(c)' PROVE Complete(c)'
  BY DEF CompleteInv, Owns, Open
<1>1. /\ UNCHANGED events /\ loaded' /\ from'[c] = since /\ LogIntact'
      /\ sub'[c] = Replay(ring', SeqOf, since)
  BY DEF Open, Owns, TypeOK, ConnType, SubType
<1>2. Ids' = Ids /\ SeqOf' = SeqOf /\ \A i \in Ids : SeqOf[i] = events[i].seq
  BY <1>1 DEF Ids, SeqOf
<1>. SUFFICES ASSUME NEW i \in Ids', events'[i].seq > since PROVE Accounted(c, i)'
  BY <1>1 DEF Complete
<1>3. /\ sub'[c].pc = "replay" /\ sub'[c].since = since
      /\ sub'[c].todo = Since(ring', SeqOf, since)
      /\ sub'[c].earliest = EarliestSeq(ring', SeqOf)
  BY <1>1 DEF Replay, NoSub
<1>4. CASE i \in ring'
  <2>1. i \in sub'[c].todo
    BY <1>1, <1>2, <1>3, <1>4 DEF Since
  <2>. QED  BY <2>1, UnderwayThen DEF Accounted
<1>5. CASE i \notin ring'
  <2>1. ring' # {} /\ Min(ring') \in ring' /\ events'[i].seq < events'[Min(ring')].seq
    BY <1>1, <1>5, SnapshotThen DEF Snapshot
  <2>2. ring' \subseteq Ids
    BY <1>2 DEF TypeOK, SessionType
  <2>3. sub'[c].earliest = events[Min(ring')].seq
    BY <1>2, <1>3, <2>1, <2>2 DEF EarliestSeq
  <2>4. Covered({<<sub'[c].since, sub'[c].earliest>>}, events'[i].seq)
    <3>1. since < events'[i].seq
      BY <1>1, EventsType DEF TypeOK, SeqOf
    <3>. QED  BY <1>1, <1>3, <2>1, <2>3, <3>1 DEF Covered
  <2>. QED  BY <1>3, <2>4 DEF Accounted
<1>. QED  BY <1>4, <1>5

(* Whoever else subscribes or leaves leaves the owner alone.               *)
LEMMA WatchComplete ==
  ASSUME TypeOK, CompleteInv, Fresh, Roles, NEW c \in Conns,
         (\E since, replay : Watch(c, since, replay)) \/ Unwatch(c)
  PROVE  CompleteInv'
<1>. SUFFICES ASSUME NEW d \in Conns, Owns(d)' PROVE Complete(d)'
  BY DEF CompleteInv
<1>1. UNCHANGED <<loaded, writer, events, file, fails, alive, cut, rcv>>
  BY DEF Watch, Unwatch, session, client, bounds
<1>2. Owns(d)
  BY <1>1, IntactSame DEF Owns
<1>3. d # c
  BY <1>2 DEF Owns, Fresh, Watch, Subscribable, Unwatch, Roles
<1>4. from'[d] = from[d] /\ sub'[d] = sub[d] /\ queue'[d] = queue[d]
  BY <1>3 DEF Watch, Unwatch, TypeOK, SubType, QueueType, ConnType
<1>5. \A s \in Sources : emit'[s].pc = emit[s].pc /\ emit'[s].at = emit[s].at /\ emit'[s].id = emit[s].id
  <2>1. CASE \E since, replay : Watch(c, since, replay)
    BY <2>1 DEF Watch
  <2>2. CASE Unwatch(c)
    BY <2>2, ForgetSame DEF Unwatch, TypeOK, EmitType
  <2>. QED  BY <2>1, <2>2
<1>6. Stream(d)' = Stream(d)
  BY <1>1, <1>4 DEF Stream
<1>7. \A s \in Sources : WaitsOn(s, d) => WaitsOn(s, d)' /\ emit'[s].id = emit[s].id
  BY <1>5 DEF WaitsOn
<1>. QED  BY <1>1, <1>2, <1>4, <1>6, <1>7, QuietComplete

(* The replay of the snapshot, and the gap behind it.                      *)
LEMMA ReplayComplete ==
  ASSUME TypeOK, LastFrame, CompleteInv, NEW c \in Conns,
         ReplayFrame(c) \/ EndReplay(c) \/ SendLast(c)
  PROVE  CompleteInv'
<1>. SUFFICES ASSUME NEW d \in Conns, Owns(d)' PROVE Complete(d)'
  BY DEF CompleteInv
<1>1. UNCHANGED <<loaded, writer, events, file, fails, alive, cut, rcv, from, emit>>
  BY DEF ReplayFrame, EndReplay, SendLast, session, subs, conn, client, bounds
<1>2. Owns(d) /\ Complete(d)
  BY <1>1, IntactSame DEF Owns, CompleteInv
<1>3. sub \in [Conns -> Subscription] /\ sub[c] \in Subscription
  BY DEF TypeOK, SubType
<1>4. \A s \in Sources : WaitsOn(s, d) => WaitsOn(s, d)' /\ emit'[s].id = emit[s].id
  BY <1>1 DEF WaitsOn
<1>5. CASE d # c
  <2>1. queue'[d] = queue[d] /\ sub'[d] = sub[d]
    <3>1. sub'[d] = sub[d]
      BY <1>3, <1>5 DEF ReplayFrame, EndReplay, SendLast
    <3>2. queue'[d] = queue[d]
      BY <1>5, PutElsewhere DEF ReplayFrame, EndReplay, SendLast, TypeOK
    <3>. QED  BY <3>1, <3>2
  <2>2. Stream(d)' = Stream(d)
    BY <1>1, <2>1 DEF Stream
  <2>. QED  BY <1>1, <1>2, <1>4, <2>1, <2>2, QuietComplete
<1>6. CASE d = c /\ UNCHANGED <<queue, sub>>
  <2>1. Stream(d)' = Stream(d)
    BY <1>1, <1>6 DEF Stream
  <2>. QED  BY <1>1, <1>2, <1>4, <1>6, <2>1, QuietComplete
<1>7. CASE d = c /\ ReplayFrame(c) /\ ~UNCHANGED <<queue, sub>>
  <2>. DEFINE id == Min(sub[c].todo)
              f  == EventFrame(id)
  <2>1. Put(c, c, f) /\ sub' = [sub EXCEPT ![c].todo = @ \ {id}]
    BY <1>7 DEF ReplayFrame
  <2>2. f \in Frame /\ f.kind = "event" /\ f.id = id
    <3>1. sub[c].todo \in SUBSET Nat /\ sub[c].todo # {} /\ sub[c].todo \subseteq Ids
      BY <1>3, <1>7, EventsType DEF ReplayFrame, TypeOK, Subscription
    <3>2. id \in sub[c].todo
      BY <3>1, MinIsMember
    <3>. HIDE DEF id
    <3>. QED  BY <3>1, <3>2, EventsType DEF TypeOK, EventFrame
  <2>. HIDE DEF id, f
  <2>3. Stream(c)' = Append(Stream(c), f) /\ Stream(c) \in Seq(Frame)
    BY <1>1, <1>2, <1>7, <2>1, <2>2, PutArrives, StreamType DEF Owns
  <2>4. /\ Events(Stream(c)) \subseteq Events(Stream(c)')
        /\ Gaps(Stream(c)) \subseteq Gaps(Stream(c)')
        /\ id \in Events(Stream(c)')
    BY <2>2, <2>3, AppendKeeps
  <2>5. sub'[c] = [sub[c] EXCEPT !.todo = @ \ {id}]
    BY <1>3, <2>1
  <2>6. /\ sub'[c].pc = sub[c].pc /\ sub'[c].since = sub[c].since
        /\ sub'[c].earliest = sub[c].earliest /\ sub'[c].last = sub[c].last
        /\ sub'[c].todo = sub[c].todo \ {id}
    BY <1>3, <2>5 DEF Subscription
  <2>. SUFFICES ASSUME NEW i \in Ids, i \notin cut, events[i].seq > from[c]
                PROVE  Accounted(c, i)'
    BY <1>1, <1>7 DEF Complete, Ids
  <2>7. Accounted(c, i)
    BY <1>2, <1>7 DEF Complete
  <2>8. i \in Underway(c) => i \in Underway(c)' \/ i \in Events(Stream(c)')
    BY <1>4, <1>7, <2>4, <2>6, UnderwayMember, UnderwayThen
  <2>9. Covered(Gaps(Stream(c)), events[i].seq) => Covered(Gaps(Stream(c)'), events'[i].seq)
    BY <1>1, <2>4, CoveredMore
  <2>. QED  BY <1>1, <2>4, <2>6, <2>7, <2>8, <2>9 DEF Accounted
<1>8. CASE d = c /\ EndReplay(c)
  <2>1. Stream(c)' = Stream(c) /\ sub[c].pc = "replay" /\ sub[c].todo = {}
    BY <1>1, <1>8 DEF EndReplay, Stream
  <2>. SUFFICES ASSUME NEW i \in Ids, i \notin cut, events[i].seq > from[c]
                PROVE  Accounted(c, i)'
    BY <1>1, <1>8 DEF Complete, Ids
  <2>2. Accounted(c, i)
    BY <1>2, <1>8 DEF Complete
  <2>3. i \in Underway(c) => i \in Underway(c)'
    BY <1>4, <1>8, <2>1, UnderwayMember, UnderwayThen
  <2>4. CASE Covered({<<sub[c].since, sub[c].earliest>>}, events[i].seq)
    <3>1. sub[c].since < events[i].seq /\ events[i].seq < sub[c].earliest
      BY <2>4 DEF Covered
    <3>2. sub[c].since \in Nat /\ sub[c].earliest \in Nat /\ events[i].seq \in Nat
      BY <1>3, EventsType DEF Subscription, TypeOK, SeqOf
    <3>3. sub[c].earliest > sub[c].since + 1
      BY <3>1, <3>2
    <3>4. GapDue(c) /\ GapOf(c) = GapFrame(seq + 1, sub[c].since, sub[c].earliest)
      BY <3>3 DEF GapDue, GapOf
    <3>5. sub' = [sub EXCEPT ![c].pc = "last", ![c].last = GapOf(c)]
      BY <1>8, <3>4 DEF EndReplay
    <3>6. sub'[c].pc = "last" /\ sub'[c].last = GapOf(c)
      BY <1>3, <3>5 DEF Subscription
    <3>7. /\ GapOf(c).kind = "gap" /\ GapOf(c).since = sub[c].since
          /\ GapOf(c).first = sub[c].earliest
      BY <3>4 DEF GapFrame
    <3>8. Covered({<<sub'[c].last.since, sub'[c].last.first>>}, events'[i].seq)
      BY <1>1, <2>4, <3>6, <3>7
    <3>. QED  BY <3>6, <3>7, <3>8 DEF Accounted
  <2>5. CASE i \in Events(Stream(c)) \cup Underway(c) \/ Covered(Gaps(Stream(c)), events[i].seq)
    BY <1>1, <2>1, <2>3, <2>5 DEF Accounted
  <2>. QED  BY <2>1, <2>2, <2>4, <2>5 DEF Accounted
<1>9. CASE d = c /\ SendLast(c) /\ ~UNCHANGED <<queue, sub>>
  <2>. DEFINE f == sub[c].last
  <2>1. Put(c, c, f) /\ sub' = [sub EXCEPT ![c] = NoSub] /\ sub[c].pc = "last"
    BY <1>9 DEF SendLast
  <2>2. f \in Frame
    BY <1>3 DEF Subscription
  <2>. HIDE DEF f
  <2>3. Stream(c)' = Append(Stream(c), f) /\ Stream(c) \in Seq(Frame)
    BY <1>1, <1>2, <1>9, <2>1, <2>2, PutArrives, StreamType DEF Owns
  <2>4. /\ Events(Stream(c)) \subseteq Events(Stream(c)')
        /\ Gaps(Stream(c)) \subseteq Gaps(Stream(c)')
        /\ f.kind = "gap" => <<f.since, f.first>> \in Gaps(Stream(c)')
    BY <2>2, <2>3, AppendKeeps
  <2>. SUFFICES ASSUME NEW i \in Ids, i \notin cut, events[i].seq > from[c]
                PROVE  Accounted(c, i)'
    BY <1>1, <1>9 DEF Complete, Ids
  <2>5. Accounted(c, i)
    BY <1>2, <1>9 DEF Complete
  <2>6. i \in Underway(c) => i \in Underway(c)' \/ i \in sub[c].todo
    BY <1>4, <1>9, UnderwayMember, UnderwayThen
  <2>7. CASE Covered(Gaps(Stream(c)), events[i].seq)
    <3>1. Covered(Gaps(Stream(c)'), events'[i].seq)
      BY <1>1, <2>4, <2>7, CoveredMore
    <3>. QED  BY <3>1 DEF Accounted
  <2>8. CASE f.kind = "gap" /\ Covered({<<f.since, f.first>>}, events[i].seq)
    <3>1. {<<f.since, f.first>>} \subseteq Gaps(Stream(c)')
      BY <2>4, <2>8
    <3>2. Covered(Gaps(Stream(c)'), events'[i].seq)
      BY <1>1, <2>8, <3>1, CoveredMore
    <3>. QED  BY <3>2 DEF Accounted
  <2>9. sub[c].todo = {}
    BY <2>1 DEF LastFrame
  <2>. QED  BY <2>1, <2>4, <2>5, <2>6, <2>7, <2>8, <2>9 DEF Accounted, f
<1>. QED  BY <1>5, <1>6, <1>7, <1>8, <1>9

(* What the owner has or is owed does not depend on what becomes of the    *)
(* other connections; a call that is waiting for one of them is stuck if   *)
(* that one comes back.                                                    *)
LEMMA ConnectionStepComplete ==
  ASSUME TypeOK, CompleteInv, NEW c \in Conns, ConnectionStep(c)
  PROVE  CompleteInv'
<1>. SUFFICES ASSUME NEW d \in Conns, Owns(d)' PROVE Complete(d)'
  BY DEF CompleteInv
<1>1. /\ UNCHANGED <<loaded, events, file, fails, cut, from>> /\ writer = d
      /\ c = d => ~Connect(c)
  BY StreamAssumption
     DEF ConnectionStep, User, Deliver, Connect, Drop, StopServing, Detach, Owns, session, subs,
         conn, bounds
<1>2. alive[d] /\ sub'[d] = sub[d]
  BY <1>1 DEF ConnectionStep, User, Deliver, Connect, Drop, StopServing, Detach, Owns, conn,
              TypeOK, ConnType, SubType
<1>3. Owns(d)
  BY <1>1, <1>2, IntactSame DEF Owns
<1>4. Stream(d)' = Stream(d)
  <2>1. CASE Deliver(c) /\ c = d
    BY <2>1, StreamDeliver
  <2>2. CASE ~(Deliver(c) /\ c = d)
    <3>1. queue'[d] = queue[d] /\ rcv'[d] = rcv[d]
      BY <1>1, <2>2 DEF ConnectionStep, User, Deliver, Connect, Drop, StopServing, Detach, client,
                        TypeOK, QueueType, ClientType
    <3>. QED  BY <3>1 DEF Stream
  <2>. QED  BY <2>1, <2>2
<1>5. \A s \in Sources : WaitsOn(s, d) => WaitsOn(s, d)' /\ emit'[s].id = emit[s].id
  <2>1. CASE User(c) \/ Deliver(c) \/ Drop(c) \/ StopServing(c)
    BY <2>1 DEF User, Deliver, Drop, StopServing, WaitsOn
  <2>2. CASE Connect(c)
    <3>1. \A s \in Sources : WaitsOn(s, d) => emit'[s] = emit[s]
      BY <1>1, <2>2 DEF Connect, WaitsOn
    <3>. QED  BY <3>1 DEF WaitsOn
  <2>3. CASE Detach(c)
    <3>1. emit \in [Sources -> OnEventCall] /\ Forget(c)
      BY <2>3 DEF Detach, TypeOK, EmitType
    <3>. QED  BY <3>1, ForgetSame DEF WaitsOn
  <2>. QED  BY <2>1, <2>2, <2>3 DEF ConnectionStep
<1>. QED  BY <1>1, <1>2, <1>3, <1>4, <1>5, QuietComplete

LEMMA DaemonStepComplete ==
  ASSUME CompleteInv, SoftKill \/ Reap \/ Killed
  PROVE  CompleteInv'
<1>. SUFFICES ASSUME NEW c \in Conns, Owns(c)' PROVE Complete(c)'
  BY DEF CompleteInv
<1>1. SoftKill
  BY DEF Reap, Killed, Unload, Owns
<1>2. /\ UNCHANGED <<loaded, events, file, fails, writer, alive, from, sub, queue, rcv>>
      /\ cut' = cut \cup {emit[s].id : s \in Fanning}
  BY <1>1 DEF SoftKill, CloseBackend, subs, conn, client, bounds
<1>3. Owns(c) /\ Stream(c)' = Stream(c)
  BY <1>2, IntactSame DEF Owns, Stream
<1>4. \A s \in Sources : WaitsOn(s, c) => emit[s].id \in cut'
  BY <1>2 DEF WaitsOn, Fanning
<1>. QED  BY <1>2, <1>3, <1>4, QuietComplete

LEMMA CompleteInvKept ==
  (TypeOK /\ Fresh) /\ (TypeOK /\ LogInv)' /\ Roles /\ LastFrame /\ CompleteInv /\ [Next]_vars
    => CompleteInv'
<1>. SUFFICES ASSUME TypeOK, Fresh, TypeOK', LogInv', Roles, LastFrame, CompleteInv, [Next]_vars
              PROVE  CompleteInv'
  OBVIOUS
<1>1. CASE UNCHANGED vars
  <2>1. UNCHANGED <<loaded, events, file, fails, writer, alive, from, sub, queue, rcv, cut, emit>>
    BY <1>1 DEF vars, session, subs, conn, client, bounds
  <2>. SUFFICES ASSUME NEW c \in Conns, Owns(c)' PROVE Complete(c)'
    BY DEF CompleteInv
  <2>2. Owns(c) /\ Stream(c)' = Stream(c)
    BY <2>1, IntactSame DEF Owns, Stream
  <2>. QED  BY <2>1, <2>2, QuietComplete DEF WaitsOn
<1>2. ASSUME NEW c \in Conns, SubscribeStep(c)
      PROVE  CompleteInv'
  <2>1. 0 \in Nat /\ lastSeq[c] \in Nat
    BY DEF TypeOK, ClientType
  <2>2. ASSUME NEW since \in {0, lastSeq[c]}, Open(c, since)
        PROVE  CompleteInv'
    BY <2>1, <2>2, OpenComplete
  <2>. QED  BY <1>2, <2>2, WatchComplete, ReplayComplete DEF SubscribeStep
<1>3. CASE SoftKill \/ Reap \/ Killed
  BY <1>3, DaemonStepComplete
<1>. QED  BY <1>1, <1>2, <1>3, SourceStepComplete, ConnectionStepComplete
          DEF Next, Crash, CrashInEvent

(* Every event past the last_seen_seq an owner came back with is on its    *)
(* connection or on its way there, or lies in a gap it is told of, as long *)
(* as the log is intact and the event's fan-out was not cut short: over    *)
(* any number of owners, restarts and slow consumers (session.py:108-154,  *)
(* 177-216, 370-391).                                                      *)
THEOREM NothingIsLost == Spec => []OwnerComplete
<1>1. Init => LastFrame /\ CompleteInv
  BY DEF Init, LastFrame, NoSub, CompleteInv, Owns
<1>2. TypeOK /\ LastFrame /\ [Next]_vars => LastFrame'
  BY LastFrameKept
<1>3. CompleteInv => OwnerComplete
  <2>. SUFFICES ASSUME CompleteInv, NEW c \in Conns, Owns(c), sub[c].pc = "idle",
                       NEW i \in Ids \ cut, events[i].seq > from[c]
                PROVE  \/ i \in Events(Stream(c)) \cup Underway(c)
                       \/ Covered(Gaps(Stream(c)), events[i].seq)
    BY DEF OwnerComplete, Owns
  <2>. QED  BY DEF CompleteInv, Complete, Accounted
<1>. QED  BY <1>1, <1>2, <1>3, CompleteInvKept, TypeInduction, LogInduction, RolesInduction, PTL
          DEF Spec
=============================================================================
