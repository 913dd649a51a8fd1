------------------------ MODULE EventStreamLogProofs ------------------------
(***************************************************************************)
(* What the files of a session keep: EventStream's RingIsNewest,           *)
(* EventSeqUnique and TurnsCounted, for any number of connections, sources *)
(* and restarts and for every capacity and bound.                          *)
(*                                                                         *)
(* The argument: as long as the log is intact it holds every event, so     *)
(* that a session that is loaded again finds the last one, and with it the *)
(* seq to go on from; its ring is a gapless end of the events, which is    *)
(* full, or has all of them, or has as many as tail() has room for.        *)
(*                                                                         *)
(* Also here, because it is about the same stores: whatever becomes of the *)
(* log, what may still be replayed is numbered upwards (StoreOrder), which *)
(* the order of the frames rests on.                                       *)
(***************************************************************************)
EXTENDS EventStreamProofs

-----------------------------------------------------------------------------
(* The turns that count: all of them in memory, and in the sidecar those   *)
(* of which it knows.                                                      *)
Counted == {i \in Ids \ struck : events[i].kind = "result"}

CountKept ==
  /\ sidecar = Cardinality(Counted \ unsaved)
  /\ loaded => turns = Cardinality(Counted)
  /\ ~loaded => unsaved = {}

(* Nothing is missing from an intact log.                                  *)
LogKept == LogIntact => file.lines = Ids /\ file.unflushed = {}

(* Events are numbered upwards, and a session that is loaded is not behind *)
(* any of them.                                                            *)
SeqKept ==
  LogIntact => /\ \A i, j \in Ids : i < j => events[i].seq < events[j].seq
               /\ loaded => \A i \in Ids : events[i].seq <= seq

(* The events from m on: all, as many as a ring holds, or as many as the   *)
(* window of tail() had room for.                                          *)
EndsFrom(r, m) ==
  /\ r = m .. Len(events)
  /\ Len(events) # 0 => m <= Len(events)
  /\ Len(events) - m < RingSize
  /\ \/ m = 1
     \/ Len(events) - m + 1 = RingSize
     \/ SizeFrom(Ids, SizeOf, m - 1) + file.torn >= TailSpan

RingKept == loaded /\ LogIntact => \E m \in 1 .. Len(events) + 1 : EndsFrom(ring, m)

LogInv == CountKept /\ LogKept /\ SeqKept /\ RingKept

-----------------------------------------------------------------------------
(* The end of a store.                                                     *)

LEMMA NewestEnd ==
  ASSUME NEW n \in Nat, NEW m \in 1 .. n, NEW k \in Nat \ {0}
  PROVE  \E a \in m .. n : /\ Newest(m .. n, k) = a .. n
                           /\ n - a < k
                           /\ a = m \/ n - a + 1 = k
<1>1. Newest(m .. n, k) = {i \in m .. n : n - i < k}
  BY NewestOfInterval
<1>2. CASE n - m < k
  <2>1. {i \in m .. n : n - i < k} = m .. n
    BY <1>2
  <2>2. m \in m .. n
    OBVIOUS
  <2>. WITNESS m \in m .. n
  <2>. QED  BY <1>1, <1>2, <2>1
<1>3. CASE ~(n - m < k)
  <2>. DEFINE d == n - k + 1
  <2>1. d \in m .. n /\ n - d < k /\ n - d + 1 = k
    BY <1>3
  <2>2. {i \in m .. n : n - i < k} = d .. n
    BY <1>3
  <2>3. Newest(m .. n, k) = d .. n
    BY <1>1, <2>2
  <2>. HIDE DEF d
  <2>. QED  BY <2>1, <2>3, Zenon
<1>. QED  BY <1>2, <1>3

(* What a session is seeded with from an intact log.                       *)
LEMMA SeededEnd ==
  ASSUME TypeOK, LogKept, LogIntact
  PROVE  \E m \in 1 .. Len(events) + 1 : EndsFrom(Seeded, m)
<1>. DEFINE n == Len(events)
            f == SizeOf
            t == file.torn
<1>1. /\ n \in Nat /\ Ids = 1 .. n /\ RingSize \in Nat \ {0}
      /\ file.lines = 1 .. n /\ DOMAIN file.bad = {}
      /\ \A i \in 1 .. n : f[i] \in Nat /\ f[i] + t < TailSpan
      /\ t \in Nat /\ TailSpan \in Nat
  <2>1. n \in Nat /\ Ids = 1 .. n
    BY EventsType DEF TypeOK
  <2>2. \A i \in Ids : events[i] \in [seq : Nat, size : Nat, kind : EventKinds]
    BY <2>1, ElementOfSeq DEF TypeOK, HistoryType
  <2>3. t \in Nat
    BY DEF TypeOK, SessionType, IsFile
  <2>. QED  BY <2>1, <2>2, <2>3, StoreAssumption DEF LogKept, LogIntact, SizeOf
<1>0. OnDisk(file, SizeOf) = f
  <2>1. OnDisk(file, SizeOf) =
          [i \in 1 .. n |-> SizeOf[i] + IF i \in DOMAIN file.bad THEN file.bad[i] ELSE 0]
    BY <1>1 DEF OnDisk
  <2>2. \A i \in 1 .. n : SizeOf[i] + (IF i \in DOMAIN file.bad THEN file.bad[i] ELSE 0) = SizeOf[i]
    BY <1>1
  <2>3. OnDisk(file, SizeOf) = [i \in 1 .. n |-> SizeOf[i]]
    BY <2>1, <2>2, Zenon
  <2>. QED  BY <1>1, <2>3 DEF SizeOf
<1>. HIDE DEF f, t
<1>2. Seeded = Newest({} \cup Newest(Newest(Window(1 .. n, f, t), 2 * RingSize - 1) \ {}, RingSize),
                      RingSize)
  <2>1. TailWindow(file, SizeOf) = Window(1 .. n, f, t)
    BY <1>0, <1>1, TailWindowIs DEF t
  <2>. QED  BY <1>1, <2>1 DEF Seeded, RingExtend, LogTail
<1>3. CASE n = 0
  <2>1. 1 .. n = {} /\ Window({}, f, t) = {}
    BY <1>3 DEF Window
  <2>2. Seeded = {}
    BY <1>2, <2>1, NewestSubset
  <2>3. EndsFrom(Seeded, 1)
    BY <1>1, <1>3, <2>1, <2>2 DEF EndsFrom
  <2>. QED  BY <1>3, <2>3
<1>4. CASE n # 0
  <2>1. PICK m \in 1 .. n : /\ Window(1 .. n, f, t) = m .. n
                            /\ m = 1 \/ SizeFrom(1 .. n, f, m - 1) + t >= TailSpan
    <3>1. n \in Nat \ {0} /\ n \in 1 .. n /\ f[n] + t < TailSpan
      BY <1>1, <1>4
    <3>. QED  BY <1>1, <3>1, WindowOfInterval
  <2>2. PICK a \in m .. n : /\ Newest(m .. n, 2 * RingSize - 1) = a .. n
                            /\ a = m \/ n - a + 1 = 2 * RingSize - 1
    <3>1. 2 * RingSize - 1 \in Nat \ {0}
      BY <1>1
    <3>. QED  BY <1>1, <3>1, NewestEnd
  <2>3. PICK b \in a .. n : /\ Newest(a .. n, RingSize) = b .. n
                            /\ n - b < RingSize
                            /\ b = a \/ n - b + 1 = RingSize
    <3>1. a \in 1 .. n
      BY <1>1
    <3>. QED  BY <1>1, <3>1, NewestEnd
  <2>4. PICK d \in b .. n : /\ Newest(b .. n, RingSize) = d .. n
                            /\ n - d < RingSize
                            /\ d = b \/ n - d + 1 = RingSize
    <3>1. b \in 1 .. n
      BY <1>1
    <3>. QED  BY <1>1, <3>1, NewestEnd
  <2>5. Seeded = d .. n
    <3>1. Seeded = Newest(Newest(Newest(m .. n, 2 * RingSize - 1), RingSize), RingSize)
      BY <1>2, <2>1
    <3>. QED  BY <2>2, <2>3, <2>4, <3>1
  <2>6. d = m \/ n - d + 1 = RingSize
    <3>1. n \in Nat /\ RingSize \in Nat \ {0} /\ m \in Nat /\ a \in Nat /\ b \in Nat /\ d \in Nat
      BY <1>1
    <3>2. /\ a = m \/ n - a + 1 = 2 * RingSize - 1
          /\ b = a \/ n - b + 1 = RingSize
          /\ d = b \/ n - d + 1 = RingSize
          /\ n - b < RingSize
      BY <2>2, <2>3, <2>4
    <3>. QED  BY <3>1, <3>2
  <2>7. d = 1 \/ n - d + 1 = RingSize \/ SizeFrom(Ids, SizeOf, d - 1) + file.torn >= TailSpan
    <3>1. d = 1 \/ n - d + 1 = RingSize \/ SizeFrom(1 .. n, f, d - 1) + t >= TailSpan
      BY <2>1, <2>6
    <3>. QED  BY <1>1, <3>1 DEF f, t
  <2>8. d \in 1 .. n + 1 /\ d <= n
    BY <1>1
  <2>9. EndsFrom(Seeded, d)
    BY <2>4, <2>5, <2>7, <2>8 DEF EndsFrom
  <2>. QED  BY <2>8, <2>9
<1>. QED  BY <1>3, <1>4

-----------------------------------------------------------------------------
(* An event more.                                                          *)
Grows ==
  \E size \in Sizes, kind \in Kinds : NewEvent(size, kind)

LEMMA GrowsBy ==
  ASSUME TypeOK, NEW size \in Sizes, NEW kind \in Kinds, NewEvent(size, kind)
  PROVE  /\ Len(events) \in Nat /\ Ids = 1 .. Len(events)
         /\ Len(events') = Len(events) + 1 /\ Ids' = 1 .. Len(events) + 1
         /\ Ids' = Ids \cup {Len(events) + 1} /\ Len(events) + 1 \notin Ids
         /\ \A i \in Ids : events'[i] = events[i]
         /\ \A i \in Ids : SizeOf'[i] = SizeOf[i]
         /\ events'[Len(events) + 1] = [seq |-> seq + 1, size |-> size, kind |-> kind]
         /\ \A i \in Ids' : SizeOf'[i] \in Nat
<1>. DEFINE e == [seq |-> seq + 1, size |-> size, kind |-> kind]
            E == [seq : Nat, size : Nat, kind : EventKinds]
<1>1. e \in E /\ events' = Append(events, e)
  BY StreamAssumption DEF NewEvent, TypeOK, SessionType
<1>2. events \in Seq(E) /\ Len(events) \in Nat /\ Ids = 1 .. Len(events)
  BY EventsType DEF TypeOK, HistoryType
<1>. HIDE DEF e, E
<1>3. /\ events' \in Seq(E) /\ Len(events') = Len(events) + 1
      /\ \A i \in 1 .. Len(events) : events'[i] = events[i]
      /\ events'[Len(events) + 1] = e
  BY <1>1, <1>2, AppendProperties
<1>4. Ids' = 1 .. Len(events) + 1
  BY <1>3 DEF Ids
<1>5. \A i \in Ids' : events'[i] \in E
  BY <1>3, <1>4, ElementOfSeq
<1>6. \A i \in Ids' : SizeOf'[i] \in Nat
  BY <1>5 DEF SizeOf, E
<1>7. \A i \in Ids : SizeOf'[i] = SizeOf[i]
  BY <1>2, <1>3, <1>4 DEF SizeOf
<1>. QED  BY <1>2, <1>3, <1>4, <1>6, <1>7 DEF e

(* The log was intact if it is.                                            *)
LEMMA IntactBefore ==
  ASSUME TypeOK, TypeOK', \A i \in Ids : i \in Ids' /\ SizeOf'[i] = SizeOf[i],
         NEW ids, Written(file, file', ids), fails' >= fails, LogIntact'
  PROVE  LogIntact /\ file.torn <= file'.torn
<1>1. IsFile(file, Ids) /\ IsFile(file', Ids')
  BY DEF TypeOK, SessionType
<1>2. IsFile(file, Ids')
  BY <1>1, FileOfMore
<1>3. DOMAIN file.bad = {} /\ file.torn <= file'.torn
  BY <1>1, <1>2, WrittenIntact DEF LogIntact
<1>4. fails = 0
  BY DEF LogIntact, TypeOK, HistoryType
<1>5. ASSUME NEW i \in Ids
      PROVE  SizeOf[i] + file.torn < TailSpan
  <2>1. SizeOf[i] + file'.torn < TailSpan
    <3>1. i \in Ids' /\ SizeOf'[i] = SizeOf[i]
      OBVIOUS
    <3>2. SizeOf'[i] + file'.torn < TailSpan
      BY <3>1 DEF LogIntact
    <3>. QED  BY <3>1, <3>2
  <2>2. SizeOf[i] \in Nat /\ file.torn \in Nat /\ file'.torn \in Nat /\ TailSpan \in Nat
    <3>1. \A j \in Ids : events[j] \in [seq : Nat, size : Nat, kind : EventKinds]
      BY EventsType, ElementOfSeq DEF TypeOK, HistoryType
    <3>. QED  BY <1>1, <3>1, StoreAssumption DEF SizeOf, IsFile
  <2>. QED  BY <1>3, <2>1, <2>2
<1>. QED  BY <1>3, <1>4, <1>5 DEF LogIntact

LEMMA GrowsSeq ==
  ASSUME TypeOK, SeqKept, Grows, loaded, LogIntact' => LogIntact, loaded' => seq' = seq + 1
  PROVE  SeqKept'
<1>1. PICK size \in Sizes, kind \in Kinds : NewEvent(size, kind)
  BY DEF Grows
<1>. SUFFICES ASSUME LogIntact'
              PROVE  /\ \A i, j \in Ids' : i < j => events'[i].seq < events'[j].seq
                     /\ loaded' => \A i \in Ids' : events'[i].seq <= seq'
  BY DEF SeqKept
<1>2. /\ \A i, j \in Ids : i < j => events[i].seq < events[j].seq
      /\ \A i \in Ids : events[i].seq <= seq
      /\ seq \in Nat
  BY DEF SeqKept, TypeOK, SessionType
<1>3. \A i \in Ids : events'[i].seq = events[i].seq /\ events'[i].seq \in Nat
  <2>1. \A i \in Ids : events'[i] = events[i]
    BY <1>1, GrowsBy
  <2>2. \A i \in Ids : events[i].seq \in Nat
    BY EventsType DEF TypeOK, SeqOf
  <2>. QED  BY <2>1, <2>2
<1>4. events'[Len(events) + 1].seq = seq + 1
  <2>1. events'[Len(events) + 1] = [seq |-> seq + 1, size |-> size, kind |-> kind]
    BY <1>1, GrowsBy
  <2>2. [seq |-> seq + 1, size |-> size, kind |-> kind].seq = seq + 1
    OBVIOUS
  <2>. QED  BY <2>1, <2>2
<1>5. /\ Len(events) \in Nat /\ Ids = 1 .. Len(events)
      /\ Ids' = Ids \cup {Len(events) + 1}
  BY <1>1, GrowsBy
<1>6. ASSUME NEW i \in Ids', NEW j \in Ids', i < j
      PROVE  events'[i].seq < events'[j].seq
  <2>1. i \in Ids
    BY <1>5, <1>6
  <2>2. CASE j \in Ids
    BY <1>2, <1>3, <1>6, <2>1, <2>2
  <2>3. CASE j = Len(events) + 1
    BY <1>2, <1>3, <1>4, <2>1, <2>3
  <2>. QED  BY <1>5, <2>2, <2>3
<1>7. ASSUME loaded', NEW i \in Ids'
      PROVE  events'[i].seq <= seq'
  <2>1. CASE i \in Ids
    BY <1>2, <1>3, <1>7, <2>1
  <2>2. CASE i = Len(events) + 1
    BY <1>2, <1>4, <1>7, <2>2
  <2>. QED  BY <1>5, <2>1, <2>2
<1>. QED  BY <1>6, <1>7

LEMMA CountedFinite ==
  ASSUME TypeOK
  PROVE  IsFiniteSet(Counted) /\ Cardinality(Counted) \in Nat
<1>1. Ids = 1 .. Len(events) /\ Len(events) \in Nat
  BY EventsType DEF TypeOK
<1>2. IsFiniteSet(Ids)
  BY <1>1, FS_Interval
<1>. QED  BY <1>2, FS_Subset, FS_CardinalityType DEF Counted

LEMMA GrowsCount ==
  ASSUME TypeOK, NEW size \in Sizes, NEW kind \in Kinds, NewEvent(size, kind)
  PROVE  /\ \A gone : struck' = struck \cup gone \cup {Len(events) + 1} =>
                      Counted' = Counted \ gone
         /\ UNCHANGED struck =>
              /\ Counted' \ {Len(events) + 1} = Counted
              /\ Len(events) + 1 \in Counted' <=> kind = "result"
              /\ Cardinality(Counted') = Cardinality(Counted) + IF kind = "result" THEN 1 ELSE 0
<1>. DEFINE n == Len(events) + 1
<1>1. /\ Ids' = Ids \cup {n} /\ n \notin Ids /\ n \notin struck
      /\ \A i \in Ids : events'[i] = events[i]
      /\ events'[n].kind = kind
  <2>1. /\ Ids' = Ids \cup {n} /\ n \notin Ids
        /\ \A i \in Ids : events'[i] = events[i]
        /\ events'[n] = [seq |-> seq + 1, size |-> size, kind |-> kind]
    BY GrowsBy
  <2>2. struck \subseteq Ids
    BY DEF TypeOK, HistoryType
  <2>. HIDE DEF n
  <2>. QED  BY <2>1, <2>2
<1>. HIDE DEF n
<1>2. IsFiniteSet(Counted) /\ Cardinality(Counted) \in Nat
  BY CountedFinite
<1>3. ASSUME NEW gone, struck' = struck \cup gone \cup {n}
      PROVE  Counted' = Counted \ gone
  BY <1>1, <1>3 DEF Counted
<1>5. ASSUME UNCHANGED struck
      PROVE  Counted' \ {n} = Counted /\ (n \in Counted' <=> kind = "result")
  BY <1>1, <1>5 DEF Counted
<1>4. ASSUME UNCHANGED struck
      PROVE  Cardinality(Counted') = Cardinality(Counted) + IF kind = "result" THEN 1 ELSE 0
  <2>1. CASE kind = "result"
    <3>1. Counted' = Counted \cup {n} /\ n \notin Counted
      BY <1>1, <1>4, <2>1 DEF Counted
    <3>. QED  BY <1>2, <2>1, <3>1, FS_AddElement
  <2>2. CASE kind # "result"
    <3>1. Counted' = Counted
      BY <1>1, <1>4, <2>2 DEF Counted
    <3>. QED  BY <1>2, <2>2, <3>1
  <2>. QED  BY <2>1, <2>2
<1>. QED  BY <1>3, <1>4, <1>5 DEF n

(* RingBuffer.append to a ring that ends where the events end.             *)
LEMMA GrowsRing ==
  ASSUME TypeOK, NEW size \in Sizes, NEW kind \in Kinds, NewEvent(size, kind),
         NEW m \in 1 .. Len(events) + 1, EndsFrom(ring, m),
         ring' = RingAppend(ring, Len(events) + 1),
         file.torn \in Nat, file'.torn \in Nat, file.torn <= file'.torn
  PROVE  \E a \in 1 .. Len(events') + 1 : EndsFrom(ring, a)'
<1>. DEFINE n == Len(events) + 1
<1>1. /\ n \in Nat \ {0} /\ RingSize \in Nat \ {0} /\ TailSpan \in Nat
      /\ Len(events') = n /\ Ids = 1 .. n - 1 /\ Ids' = 1 .. n
  <2>1. /\ Len(events) \in Nat /\ Ids = 1 .. Len(events)
        /\ Len(events') = n /\ Ids' = 1 .. n
    BY GrowsBy
  <2>. QED  BY <2>1, StoreAssumption
<1>2. /\ \A i \in Ids : SizeOf'[i] = SizeOf[i]
      /\ \A i \in Ids' : SizeOf'[i] \in Nat
  BY GrowsBy
<1>3. m \in 1 .. n /\ ring = m .. n - 1 /\ n - 1 - m < RingSize
  BY <1>1 DEF EndsFrom
<1>4. m = 1 \/ n - m = RingSize \/ SizeFrom(Ids, SizeOf, m - 1) + file.torn >= TailSpan
  BY <1>1 DEF EndsFrom
<1>. HIDE DEF n
<1>5. ring' = Newest(m .. n, RingSize)
  <2>1. ring \cup {n} = m .. n
    BY <1>1, <1>3
  <2>. QED  BY <2>1 DEF RingAppend, n
<1>6. PICK a \in m .. n : /\ ring' = a .. n
                          /\ n - a < RingSize
                          /\ a = m \/ n - a + 1 = RingSize
  BY <1>1, <1>3, <1>5, NewestEnd
<1>7. \/ a = 1 \/ n - a + 1 = RingSize
      \/ SizeFrom(Ids, SizeOf, m - 1)' + file'.torn >= TailSpan /\ a = m
  <2>1. SUFFICES ASSUME a = m, m # 1, n - a + 1 # RingSize
                 PROVE  SizeFrom(Ids, SizeOf, m - 1)' + file'.torn >= TailSpan
    BY <1>6
  <2>2. n - m # RingSize
    BY <1>1, <1>6, <2>1
  <2>0. m - 1 \in Ids
    BY <1>1, <1>3, <2>1
  <2>. DEFINE T == {j \in Ids : j >= m - 1}
              S == {j \in Ids' : j >= m - 1}
  <2>3. T \in SUBSET S /\ T \subseteq Ids /\ S \subseteq Ids'
    BY <1>1
  <2>4. IsFiniteSet(S)
    <3>1. IsFiniteSet(1 .. n)
      BY <1>1, FS_Interval
    <3>. QED  BY <1>1, <3>1, FS_Subset
  <2>. HIDE DEF T, S
  <2>5. /\ Total(T, SizeOf) <= Total(S, SizeOf')
        /\ Total(T, SizeOf) \in Nat /\ Total(S, SizeOf') \in Nat
    <3>1. \A x \in T : SizeOf[x] \in Nat /\ SizeOf[x] <= SizeOf'[x]
      BY <1>1, <1>2, <2>3
    <3>2. \A x \in S : SizeOf'[x] \in Nat
      BY <1>2, <2>3
    <3>. QED  BY <2>3, <2>4, <3>1, <3>2, SumGrows
  <2>6. SizeFrom(Ids, SizeOf, m - 1) = Total(T, SizeOf)
    BY DEF SizeFrom, Total, T
  <2>7. SizeFrom(Ids, SizeOf, m - 1)' = SizeFrom(Ids', SizeOf', m - 1)
    OBVIOUS
  <2>8. SizeFrom(Ids', SizeOf', m - 1) = Total(S, SizeOf')
    BY DEF SizeFrom, Total, S
  <2>. QED  BY <1>1, <1>4, <2>1, <2>2, <2>5, <2>6, <2>7, <2>8
<1>8. a \in 1 .. n + 1 /\ a <= n
  BY <1>1, <1>3
<1>9. EndsFrom(ring, a)'
  BY <1>1, <1>6, <1>7, <1>8 DEF EndsFrom
<1>. QED  BY <1>1, <1>8, <1>9

-----------------------------------------------------------------------------
(* The steps.  Most leave the session's numbers and its files alone.       *)
LEMMA QuietKept ==
  ASSUME LogInv, UNCHANGED <<loaded, seq, ring, file, turns, sidecar, events, unsaved, struck, fails>>
  PROVE  LogInv'
<1>1. Ids' = Ids /\ SizeOf' = SizeOf
  BY DEF Ids, SizeOf
<1>2. LogIntact' = LogIntact /\ Counted' = Counted
  BY <1>1 DEF LogIntact, Counted
<1>3. CountKept' /\ LogKept' /\ SeqKept'
  BY <1>1, <1>2 DEF LogInv, CountKept, LogKept, SeqKept
<1>4. RingKept'
  BY <1>1, <1>2 DEF LogInv, RingKept, EndsFrom
<1>. QED  BY <1>3, <1>4 DEF LogInv

(* A session that is not loaded any more has its files only.               *)
LEMMA UnloadedKept ==
  ASSUME TypeOK, TypeOK', LogInv, UNCHANGED <<sidecar, events, fails>>,
         struck' = struck \cup unsaved, unsaved' = {}, ~loaded',
         NEW ids, Written(file, file', ids),
         file.unflushed = {} => ids = {} /\ file'.unflushed = {}
  PROVE  LogInv'
<1>1. Ids' = Ids /\ SizeOf' = SizeOf
  BY DEF Ids, SizeOf
<1>2. LogIntact' => LogIntact
  <2>1. fails' >= fails
    BY DEF TypeOK, HistoryType
  <2>. QED  BY <1>1, <2>1, IntactBefore
<1>3. CountKept'
  <2>1. Counted' = Counted \ unsaved
    BY <1>1 DEF Counted
  <2>2. Counted' \ unsaved' = Counted \ unsaved
    BY <2>1
  <2>. QED  BY <2>2 DEF LogInv, CountKept
<1>4. LogKept'
  BY <1>1, <1>2 DEF LogInv, LogKept, Written
<1>5. SeqKept' /\ RingKept'
  BY <1>1, <1>2 DEF LogInv, SeqKept, RingKept
<1>. QED  BY <1>3, <1>4, <1>5 DEF LogInv

LEMMA OnEventKept ==
  ASSUME TypeOK, TypeOK', LogInv, NEW s \in Sources, NEW size \in Sizes, NEW kind \in Kinds,
         OnEvent(s, size, kind)
  PROVE  LogInv'
<1>. DEFINE id == Len(events) + 1
<1>0. /\ NewEvent(size, kind) /\ Grows /\ loaded /\ loaded' = loaded /\ seq' = seq + 1
      /\ ring' = RingAppend(ring, id) /\ LogWrite(id) /\ CountTurn(id, kind) /\ UNCHANGED struck
  BY DEF OnEvent, Grows, Produces
<1>. HIDE DEF id
<1>1. fails \in Nat
  BY DEF TypeOK, HistoryType
<1>2. LogIntact' => file' = LogAppend(file, id) /\ fails' = fails
  BY <1>0, <1>1 DEF LogWrite, LogIntact
<1>8. /\ \A i \in Ids : i \in Ids' /\ SizeOf'[i] = SizeOf[i]
      /\ Ids' = Ids \cup {id} /\ id \notin Ids /\ id \in Nat
  <2>1. /\ Len(events) \in Nat /\ Ids' = Ids \cup {id} /\ id \notin Ids
        /\ \A i \in Ids : SizeOf'[i] = SizeOf[i]
    BY <1>0, GrowsBy DEF id
  <2>. QED  BY <2>1 DEF id
<1>9. IsFile(file, Ids)
  BY DEF TypeOK, SessionType
<1>3. LogIntact' => LogIntact /\ file.torn <= file'.torn
  <2>1. (\E ids : Written(file, file', ids)) /\ fails' >= fails
    <3>1. CASE file' = LogAppend(file, id) /\ UNCHANGED fails
      <4>1. Written(file, file', file.unflushed \cup {id})
        BY <1>9, <3>1, StepsWrite
      <4>. QED  BY <1>1, <3>1, <4>1
    <3>2. CASE file' = LogAppendFails(file, id) /\ fails' = fails + 1
      <4>1. Written(file, file', {})
        BY <1>9, <3>2, StepsWrite
      <4>. QED  BY <1>1, <3>2, <4>1
    <3>. QED  BY <1>0, <3>1, <3>2 DEF LogWrite
  <2>. QED  BY <1>8, <2>1, IntactBefore
<1>4. CountKept'
  <2>. DEFINE one == IF kind = "result" THEN 1 ELSE 0
  <2>1. /\ Cardinality(Counted') = Cardinality(Counted) + one
        /\ Counted' \ {id} = Counted /\ (id \in Counted' <=> kind = "result")
    BY <1>0, GrowsCount DEF id
  <2>2. turns = Cardinality(Counted) /\ sidecar = Cardinality(Counted \ unsaved)
    BY <1>0 DEF LogInv, CountKept
  <2>3. id \notin unsaved /\ id \notin Counted
    BY <1>8 DEF TypeOK, HistoryType, Counted
  <2>4. Cardinality(Counted) \in Nat
    BY CountedFinite
  <2>5. CASE kind = "result"
    <3>1. turns' = turns + 1 /\ SaveSidecar(turns + 1, {id})
      BY <1>0, <2>5 DEF CountTurn
    <3>2. turns' = Cardinality(Counted')
      BY <2>1, <2>2, <2>4, <2>5, <3>1
    <3>3. CASE sidecar' = turns + 1 /\ unsaved' = {}
      <4>1. Counted' \ {} = Counted'
        OBVIOUS
      <4>. QED  BY <1>0, <3>1, <3>2, <3>3, <4>1 DEF CountKept
    <3>4. CASE unsaved' = unsaved \cup {id} /\ UNCHANGED sidecar
      <4>1. Counted' \ unsaved' = Counted \ unsaved
        BY <2>1, <3>4
      <4>. QED  BY <1>0, <2>2, <3>2, <3>4, <4>1 DEF CountKept
    <3>. QED  BY <3>1, <3>3, <3>4 DEF SaveSidecar
  <2>6. CASE kind # "result"
    <3>1. Counted' = Counted /\ turns' = turns
      BY <1>0, <2>1, <2>3, <2>6 DEF CountTurn
    <3>2. CASE sidecar' = turns /\ unsaved' = {}
      <4>1. Counted \ {} = Counted
        OBVIOUS
      <4>. QED  BY <1>0, <2>2, <3>1, <3>2, <4>1 DEF CountKept
    <3>3. CASE UNCHANGED <<sidecar, unsaved>>
      BY <1>0, <2>2, <3>1, <3>3 DEF CountKept
    <3>4. SaveSidecar(turns, {}) \/ UNCHANGED <<sidecar, unsaved>>
      BY <1>0, <2>6 DEF CountTurn
    <3>5. SaveSidecar(turns, {}) => \/ sidecar' = turns /\ unsaved' = {}
                                   \/ UNCHANGED <<sidecar, unsaved>>
      BY DEF SaveSidecar
    <3>. QED  BY <3>2, <3>3, <3>4, <3>5
  <2>. QED  BY <2>5, <2>6
<1>5. LogKept'
  <2>1. SUFFICES ASSUME LogIntact' PROVE file'.lines = Ids' /\ file'.unflushed = {}
    BY DEF LogKept
  <2>2. file.lines = Ids /\ file.unflushed = {}
    BY <1>3, <2>1 DEF LogInv, LogKept
  <2>3. file'.lines = file.lines \cup {id} /\ file'.unflushed = {}
    BY <1>2, <2>1, <2>2 DEF LogAppend, Flushed
  <2>4. Ids' = Ids \cup {id}
    BY <1>0, GrowsBy DEF id
  <2>. QED  BY <2>2, <2>3, <2>4
<1>6. SeqKept'
  BY <1>0, <1>3, GrowsSeq DEF LogInv
<1>7. RingKept'
  <2>1. SUFFICES ASSUME LogIntact' PROVE \E a \in 1 .. Len(events') + 1 : EndsFrom(ring, a)'
    BY DEF RingKept
  <2>2. PICK m \in 1 .. Len(events) + 1 : EndsFrom(ring, m)
    BY <1>0, <1>3, <2>1 DEF LogInv, RingKept
  <2>3. file.torn \in Nat /\ file'.torn \in Nat
    BY DEF TypeOK, SessionType, IsFile
  <2>. QED  BY <1>0, <1>3, <2>1, <2>2, <2>3, GrowsRing DEF id
<1>. QED  BY <1>4, <1>5, <1>6, <1>7 DEF LogInv

LEMMA CrashInEventKept ==
  ASSUME TypeOK, TypeOK', LogInv, NEW size \in Sizes, NEW kind \in Kinds, CrashInEvent(size, kind)
  PROVE  LogInv'
<1>. DEFINE id == Len(events) + 1
<1>0. /\ NewEvent(size, kind) /\ Grows /\ loaded /\ ~loaded'
      /\ file' = LogCrash(LogAppend(file, id), 0) /\ struck' = struck \cup unsaved \cup {id}
      /\ unsaved' = {}
      /\ UNCHANGED <<sidecar, fails>>
  BY DEF CrashInEvent, Grows, Produces, Killed, Unload
<1>1. \A i \in Ids : i \in Ids' /\ SizeOf'[i] = SizeOf[i]
  BY <1>0, GrowsBy
<1>. HIDE DEF id
<1>2. LogIntact' => LogIntact
  <2>1. Written(file, file', file.unflushed \cup {id})
    BY <1>0, StepsWrite DEF TypeOK, SessionType
  <2>2. fails' >= fails
    BY <1>0 DEF TypeOK, HistoryType
  <2>. QED  BY <1>1, <2>1, <2>2, IntactBefore
<1>3. CountKept'
  <2>1. Counted' = Counted \ unsaved
    BY <1>0, GrowsCount DEF id
  <2>2. Counted' \ unsaved' = Counted \ unsaved
    BY <1>0, <2>1
  <2>. QED  BY <1>0, <2>2 DEF LogInv, CountKept
<1>4. LogKept'
  <2>1. SUFFICES ASSUME LogIntact' PROVE file'.lines = Ids' /\ file'.unflushed = {}
    BY DEF LogKept
  <2>2. file.lines = Ids /\ file.unflushed = {}
    BY <1>2, <2>1 DEF LogInv, LogKept
  <2>3. file'.lines = file.lines \cup {id} /\ file'.unflushed = {}
    BY <1>0, <2>2 DEF LogAppend, LogCrash, Flushed
  <2>4. Ids' = Ids \cup {id}
    BY <1>0, GrowsBy DEF id
  <2>. QED  BY <2>2, <2>3, <2>4
<1>5. SeqKept'
  BY <1>0, <1>2, GrowsSeq DEF LogInv
<1>6. RingKept'
  BY <1>0 DEF RingKept
<1>. QED  BY <1>3, <1>4, <1>5, <1>6 DEF LogInv

LEMMA OpenKept ==
  ASSUME TypeOK, LogInv, NEW c \in Conns, NEW since \in Nat, Open(c, since)
  PROVE  LogInv'
<1>0. /\ loaded' = TRUE /\ ring' = IF loaded THEN ring ELSE Seeded
      /\ seq' = IF loaded THEN seq ELSE LatestSeq(Seeded, SeqOf)
      /\ turns' = IF loaded THEN turns ELSE sidecar
      /\ UNCHANGED <<file, sidecar, events, unsaved, struck, fails>>
  BY DEF Open, bounds
<1>1. Ids' = Ids /\ SizeOf' = SizeOf
  BY <1>0 DEF Ids, SizeOf
<1>2. LogIntact' = LogIntact /\ Counted' = Counted
  BY <1>0, <1>1 DEF LogIntact, Counted
<1>3. CountKept' /\ LogKept'
  BY <1>0, <1>1, <1>2 DEF LogInv, CountKept, LogKept
<1>4. CASE loaded
  BY <1>0, <1>3, <1>4, QuietKept, Zenon
<1>5. CASE ~loaded /\ LogIntact
  <2>1. PICK m \in 1 .. Len(events) + 1 : EndsFrom(Seeded, m)
    BY <1>5, SeededEnd DEF LogInv
  <2>2. RingKept'
    BY <1>0, <1>1, <1>5, <2>1 DEF RingKept, EndsFrom
  <2>3. ASSUME NEW i \in Ids
        PROVE  events[i].seq <= LatestSeq(Seeded, SeqOf)
    <3>1. /\ Len(events) \in Nat \ {0} /\ Ids = 1 .. Len(events) /\ Seeded = m .. Len(events)
          /\ m \in 1 .. Len(events)
      BY <2>1, EventsType DEF TypeOK, EndsFrom
    <3>2. Max(Seeded) = Len(events)
      <4>1. Seeded \in SUBSET Nat /\ Seeded # {} /\ \A y \in Seeded : y <= Len(events)
        BY <3>1
      <4>2. Max(Seeded) \in Seeded /\ \A y \in Seeded : Max(Seeded) >= y
        BY <3>1, <4>1, MaxIsMember
      <4>. HIDE DEF Max
      <4>. QED  BY <3>1, <4>2
    <3>3. LatestSeq(Seeded, SeqOf) = events[Len(events)].seq
      BY <3>1, <3>2 DEF LatestSeq, SeqOf
    <3>4. events[i].seq <= events[Len(events)].seq
      <4>1. \A j \in Ids : events[j].seq \in Nat
        BY EventsType DEF TypeOK, SeqOf
      <4>2. \A j, k \in Ids : j < k => events[j].seq < events[k].seq
        BY <1>5 DEF LogInv, SeqKept
      <4>. QED  BY <3>1, <4>1, <4>2
    <3>. QED  BY <3>3, <3>4
  <2>4. SeqKept'
    BY <1>0, <1>1, <1>2, <1>5, <2>3 DEF LogInv, SeqKept
  <2>. QED  BY <1>3, <2>2, <2>4 DEF LogInv
<1>6. CASE ~LogIntact
  BY <1>2, <1>3, <1>6 DEF LogInv, SeqKept, RingKept
<1>. QED  BY <1>4, <1>5, <1>6

LEMMA EndReplayKept ==
  ASSUME TypeOK, LogInv, NEW c \in Conns, EndReplay(c)
  PROVE  LogInv'
<1>0. /\ UNCHANGED <<loaded, ring, file, turns, sidecar, events, unsaved, struck, fails>>
      /\ seq' = seq + 1 \/ seq' = seq
      /\ seq \in Nat
  BY DEF EndReplay, bounds, TypeOK, SessionType
<1>1. Ids' = Ids /\ SizeOf' = SizeOf
  BY <1>0 DEF Ids, SizeOf
<1>2. LogIntact' = LogIntact /\ Counted' = Counted
  BY <1>0, <1>1 DEF LogIntact, Counted
<1>3. CountKept' /\ LogKept'
  BY <1>0, <1>1, <1>2 DEF LogInv, CountKept, LogKept
<1>4. RingKept'
  BY <1>0, <1>1, <1>2 DEF LogInv, RingKept, EndsFrom
<1>5. SeqKept'
  <2>1. \A i \in Ids : events[i].seq \in Nat
    BY EventsType DEF TypeOK, SeqOf
  <2>. QED  BY <1>0, <1>1, <1>2, <2>1 DEF LogInv, SeqKept
<1>. QED  BY <1>3, <1>4, <1>5 DEF LogInv

LEMMA DaemonStepKept ==
  ASSUME TypeOK, TypeOK', LogInv, Reap \/ \E units \in Nat : Crash(units)
  PROVE  LogInv'
<1>0. file.torn \in Nat /\ IsFile(file, Ids)
  BY DEF TypeOK, SessionType, IsFile
<1>1. CASE Reap
  <2>1. /\ UNCHANGED <<sidecar, fails, events>> /\ ~loaded'
        /\ struck' = struck \cup unsaved /\ unsaved' = {}
        /\ file' = IF file.unflushed = {} THEN file ELSE Flushed(file, file.unflushed)
    BY <1>1 DEF Reap, Unload
  <2>2. CASE file.unflushed = {}
    <3>1. Written(file, file', {})
      BY <1>0, <2>1, <2>2 DEF Written
    <3>. QED  BY <2>1, <2>2, <3>1, UnloadedKept
  <2>3. CASE file.unflushed # {}
    <3>1. Written(file, file', file.unflushed)
      BY <2>1, <2>3, FlushedWrites
    <3>. QED  BY <2>1, <2>3, <3>1, UnloadedKept
  <2>. QED  BY <2>2, <2>3
<1>2. ASSUME NEW units \in Nat, Crash(units)
      PROVE  LogInv'
  <2>1. /\ UNCHANGED <<sidecar, fails, events>> /\ ~loaded'
        /\ struck' = struck \cup unsaved /\ unsaved' = {}
        /\ file' = LogCrash(file, units)
    BY <1>2 DEF Crash, Killed, Unload
  <2>2. Written(file, file', {}) /\ file'.unflushed = {}
    BY <1>0, <2>1, StepsWrite DEF LogCrash
  <2>. QED  BY <2>1, <2>2, UnloadedKept
<1>. QED  BY <1>1, <1>2

LEMMA InitKept == Init => LogInv
<1>. SUFFICES ASSUME Init PROVE LogInv
  OBVIOUS
<1>1. Ids = {} /\ Counted = {}
  BY DEF Init, Ids, Counted
<1>2. Cardinality({}) = 0
  BY FS_EmptySet
<1>3. Counted \ unsaved = {}
  BY <1>1
<1>. QED  BY <1>1, <1>2, <1>3 DEF Init, LogInv, CountKept, LogKept, SeqKept, RingKept, EmptyFile

LEMMA NextKept == TypeOK /\ TypeOK' /\ LogInv /\ [Next]_vars => LogInv'
<1>. SUFFICES ASSUME TypeOK, TypeOK', LogInv, [Next]_vars PROVE LogInv'
  OBVIOUS
<1>. DEFINE quiet == <<loaded, seq, ring, file, turns, sidecar, events, unsaved, struck, fails>>
<1>1. ASSUME NEW s \in Sources, SourceStep(s)
      PROVE  LogInv'
  <2>1. CASE WriteOwner(s) \/ NextWatcher(s) \/ WriteWatcher(s) \/ EndEvent(s)
    <3>1. UNCHANGED quiet
      BY <2>1 DEF WriteOwner, NextWatcher, WriteWatcher, EndEvent, session, bounds
    <3>. QED  BY <3>1, QuietKept
  <2>. QED  BY <1>1, <2>1, OnEventKept DEF SourceStep
<1>2. ASSUME NEW c \in Conns, SubscribeStep(c)
      PROVE  LogInv'
  <2>1. lastSeq[c] \in Nat
    BY DEF TypeOK, ClientType
  <2>2. CASE \/ \E replay \in BOOLEAN : Watch(c, lastSeq[c], replay)
             \/ ReplayFrame(c) \/ SendLast(c) \/ Unwatch(c)
    <3>1. UNCHANGED quiet
      BY <2>2 DEF Watch, ReplayFrame, SendLast, Unwatch, session, bounds
    <3>. QED  BY <3>1, QuietKept
  <2>. QED  BY <1>2, <2>1, <2>2, OpenKept, EndReplayKept DEF SubscribeStep
<1>3. ASSUME NEW c \in Conns, ConnectionStep(c)
      PROVE  LogInv'
  <2>1. UNCHANGED quiet
    BY <1>3 DEF ConnectionStep, User, Deliver, Connect, Drop, StopServing, Detach, session, bounds
  <2>. QED  BY <2>1, QuietKept
<1>4. CASE SoftKill
  <2>1. UNCHANGED quiet
    BY <1>4 DEF SoftKill, bounds
  <2>. QED  BY <2>1, QuietKept
<1>5. CASE UNCHANGED vars
  <2>1. UNCHANGED quiet
    BY <1>5 DEF vars, session, bounds
  <2>. QED  BY <2>1, QuietKept
<1>6. ASSUME NEW size \in Sizes, NEW units \in 0 .. size - 1, Crash(units)
      PROVE  LogInv'
  <2>1. units \in Nat
    BY StreamAssumption
  <2>. QED  BY <1>6, <2>1, DaemonStepKept
<1>. QED  BY <1>1, <1>2, <1>3, <1>4, <1>5, <1>6, DaemonStepKept, CrashInEventKept DEF Next

LEMMA LogInduction == Spec => [](TypeOK /\ LogInv)
BY InitKept, NextKept, TypeInduction, PTL DEF Spec

-----------------------------------------------------------------------------
(* The turns of a session are counted over its whole life, whatever is     *)
(* reaped, killed or restarted, but for those the sidecar did not know of  *)
(* when the session left memory: a kill came between the log and the       *)
(* sidecar, or the save failed and no later one made up for it             *)
(* (session.py:397-435, 462-507).                                          *)
THEOREM TurnsAreCounted == Spec => []TurnsCounted
<1>1. LogInv => TurnsCounted
  BY DEF LogInv, CountKept, Counted, TurnsCounted
<1>. QED  BY <1>1, LogInduction, PTL

(* As long as its log is intact a session numbers no two of its events     *)
(* alike, across any number of restarts (session.py:134-180, 370-391).     *)
THEOREM SeqsAreUnique == Spec => []EventSeqUnique
<1>1. TypeOK /\ LogInv => EventSeqUnique
  <2>. SUFFICES ASSUME TypeOK, LogInv, LogIntact, NEW i \in Ids, NEW j \in Ids,
                       events[i].seq = events[j].seq
                PROVE  i = j
    BY DEF EventSeqUnique
  <2>1. Ids \subseteq Nat /\ events[i].seq \in Nat
    BY EventsType DEF TypeOK, SeqOf
  <2>2. /\ i < j => events[i].seq < events[j].seq
        /\ j < i => events[j].seq < events[i].seq
    BY DEF LogInv, SeqKept
  <2>. QED  BY <2>1, <2>2
<1>. QED  BY <1>1, LogInduction, PTL

(* The ring of a session holds its newest events, also when it was seeded  *)
(* from the tail of an intact log: all a ring has room for, unless they    *)
(* and the fragment a kill left behind them are too long for the window of *)
(* tail(), and then at least the last of them (session.py:370-391,         *)
(* event_log.py:83-112).                                                   *)
THEOREM RingHoldsNewest == Spec => []RingIsNewest
<1>1. TypeOK /\ LogInv => RingIsNewest
  <2>. SUFFICES ASSUME TypeOK, LogInv, loaded, LogIntact
                PROVE  IF Total(Newest(Ids, RingSize), SizeOf) + file.torn < TailSpan
                       THEN ring = Newest(Ids, RingSize)
                       ELSE Newest(Ids, 1) \subseteq ring
    BY DEF RingIsNewest, Total
  <2>. DEFINE n == Len(events)
  <2>1. /\ n \in Nat /\ Ids = 1 .. n /\ RingSize \in Nat \ {0} /\ TailSpan \in Nat
        /\ \A i \in Ids : SizeOf[i] \in Nat
        /\ file.torn \in Nat
    <3>1. \A i \in Ids : events[i] \in [seq : Nat, size : Nat, kind : EventKinds]
      BY EventsType, ElementOfSeq DEF TypeOK, HistoryType
    <3>2. file.torn \in Nat
      BY DEF TypeOK, SessionType, IsFile
    <3>. QED  BY <3>1, <3>2, EventsType, StoreAssumption DEF TypeOK, SizeOf
  <2>2. PICK m \in 1 .. n + 1 : EndsFrom(ring, m)
    BY DEF LogInv, RingKept
  <2>. HIDE DEF n
  <2>3. /\ ring = m .. n
        /\ n # 0 => m <= n
        /\ n - m < RingSize
        /\ \/ m = 1 \/ n - m + 1 = RingSize
           \/ SizeFrom(Ids, SizeOf, m - 1) + file.torn >= TailSpan
    BY <2>2 DEF EndsFrom, n
  <2>4. /\ Newest(Ids, RingSize) = {i \in 1 .. n : n - i < RingSize}
        /\ Newest(Ids, 1) = {i \in 1 .. n : n - i < 1}
    BY <2>1, NewestOfInterval
  <2>0. m \in Int /\ (n = 0 \/ m <= n)
    BY <2>1, <2>2, <2>3
  <2>5. Newest(Ids, 1) \subseteq ring
    <3>1. ASSUME NEW i \in 1 .. n, n - i < 1
          PROVE  i \in m .. n
      BY <2>0, <2>1, <3>1
    <3>. QED  BY <2>3, <2>4, <3>1
  <2>6. CASE m = 1 \/ n - m + 1 = RingSize
    <3>1. ASSUME NEW i \in Int
          PROVE  i \in m .. n <=> i \in 1 .. n /\ n - i < RingSize
      BY <2>0, <2>1, <2>2, <2>3, <2>6
    <3>2. ring = Newest(Ids, RingSize)
      BY <2>3, <2>4, <3>1
    <3>. QED  BY <2>5, <3>2
  <2>7. CASE m # 1 /\ n - m + 1 # RingSize
    <3>. DEFINE T == {j \in Ids : j >= m - 1}
                N == Newest(Ids, RingSize)
    <3>1. T \in SUBSET N /\ N \subseteq Ids
      BY <2>1, <2>2, <2>3, <2>4, <2>7
    <3>2. IsFiniteSet(N)
      <4>1. IsFiniteSet(1 .. n)
        BY <2>1, FS_Interval
      <4>. QED  BY <2>1, <3>1, <4>1, FS_Subset
    <3>3. SizeFrom(Ids, SizeOf, m - 1) = Total(T, SizeOf)
      BY DEF SizeFrom, Total
    <3>. HIDE DEF T, N
    <3>4. /\ Total(T, SizeOf) <= Total(N, SizeOf)
          /\ Total(T, SizeOf) \in Nat /\ Total(N, SizeOf) \in Nat
      <4>1. \A x \in T : SizeOf[x] \in Nat /\ SizeOf[x] <= SizeOf[x]
        BY <2>1, <3>1
      <4>2. \A x \in N : SizeOf[x] \in Nat
        BY <2>1, <3>1
      <4>. QED  BY <3>1, <3>2, <4>1, <4>2, SumGrows
    <3>5. ~(Total(N, SizeOf) + file.torn < TailSpan)
      BY <2>1, <2>3, <2>7, <3>3, <3>4
    <3>. QED  BY <2>5, <3>5 DEF N
  <2>. QED  BY <2>6, <2>7
<1>. QED  BY <1>1, LogInduction, PTL

-----------------------------------------------------------------------------
(* What may still be replayed: the ring, and what a session that is loaded *)
(* again would find in its log.  It is numbered upwards whatever becomes   *)
(* of the log, also when the whole log is not any more.                    *)
LogEnd == LogTail(file, SizeOf, RingSize)
Replayable == LogEnd \cup ring \cup file.unflushed

(* What was not flushed is newer than what was.                            *)
UnflushedLast == \A i \in file.lines, j \in file.unflushed : i < j

StoreOrder ==
  /\ ~loaded => ring = {} /\ file.unflushed = {}
  /\ UnflushedLast
  /\ \A i, j \in Replayable : i < j => events[i].seq < events[j].seq
  /\ loaded => \A i \in Replayable : events[i].seq <= seq

Stored ==
  /\ IsFiniteSet(Ids) /\ Ids \subseteq Nat /\ IsFile(file, Ids)
  /\ \A i \in Ids : SizeOf[i] \in Nat /\ events[i].seq \in Nat
  /\ LogEnd \subseteq file.lines
  /\ Replayable \subseteq Ids

LEMMA StoredNow == TypeOK => Stored
<1>. SUFFICES ASSUME TypeOK PROVE Stored
  OBVIOUS
<1>1. /\ Len(events) \in Nat /\ Ids = 1 .. Len(events)
      /\ events \in Seq([seq : Nat, size : Nat, kind : EventKinds])
  BY EventsType DEF TypeOK, HistoryType
<1>2. \A i \in Ids : events[i] \in [seq : Nat, size : Nat, kind : EventKinds]
  BY <1>1, ElementOfSeq
<1>3. IsFile(file, Ids) /\ ring \subseteq Ids
  BY DEF TypeOK, SessionType
<1>4. LogEnd \subseteq file.lines
  BY LogTailSubset DEF LogEnd
<1>5. IsFiniteSet(Ids) /\ Ids \subseteq Nat
  BY <1>1, FS_Interval
<1>6. \A i \in Ids : SizeOf[i] \in Nat /\ events[i].seq \in Nat
  BY <1>2 DEF SizeOf
<1>7. Replayable \subseteq Ids
  BY <1>3, <1>4 DEF IsFile, Replayable
<1>. QED  BY <1>3, <1>4, <1>5, <1>6, <1>7 DEF Stored

LEMMA StoredThen == TypeOK' => Stored'
BY StoredNow, PTL

(* Lines that reach the file bring no older line back into its tail.       *)
LEMMA TailGrows ==
  ASSUME TypeOK, TypeOK', \A i \in Ids : i \in Ids' /\ SizeOf'[i] = SizeOf[i],
         NEW ids \in SUBSET Nat, \A x \in file.lines, k \in ids : x < k,
         Written(file, file', ids)
  PROVE  \A x \in LogEnd' : x \in LogEnd \/ x \in ids
<1>1. /\ IsFiniteSet(Ids') /\ Ids' \in SUBSET Nat /\ IsFile(file', Ids')
      /\ \A i \in Ids' : SizeOf'[i] \in Nat
  BY StoredThen DEF Stored
<1>2. IsFile(file, Ids) /\ IsFile(file, Ids')
  <2>1. IsFile(file, Ids)
    BY StoredNow DEF Stored
  <2>. QED  BY <2>1, FileOfMore
<1>3. \A x \in file.lines : SizeOf[x] = SizeOf'[x]
  BY <1>2 DEF IsFile
<1>4. RingSize \in Nat \ {0}
  BY StoreAssumption
<1>5. \A x \in LogTail(file', SizeOf', RingSize) :
        x \in LogTail(file, SizeOf, RingSize) \/ x \in ids
  BY <1>1, <1>2, <1>3, <1>4, TailOfWritten
<1>. QED  BY <1>5 DEF LogEnd

(* Nothing is added to what may be replayed.                               *)
LEMMA StoreShrinks ==
  ASSUME StoreOrder, UNCHANGED events,
         \A x \in Replayable' : x \in Replayable,
         ~loaded' => ring' = {} /\ file'.unflushed = {},
         UnflushedLast',
         loaded' => \A i \in Replayable' : events[i].seq <= seq'
  PROVE  StoreOrder'
BY DEF StoreOrder

(* The newest event is.                                                    *)
LEMMA StoreGrows ==
  ASSUME TypeOK, TypeOK', StoreOrder, loaded,
         NEW size \in Sizes, NEW kind \in Kinds, NewEvent(size, kind),
         \A x \in Replayable' : x \in Replayable \/ x = Len(events) + 1,
         ~loaded' => ring' = {} /\ file'.unflushed = {},
         UnflushedLast',
         loaded' => seq' = seq + 1
  PROVE  StoreOrder'
<1>. DEFINE n == Len(events) + 1
<1>1. /\ Ids = 1 .. n - 1 /\ n \in Nat
      /\ \A i \in Ids : events'[i] = events[i]
      /\ events'[n] = [seq |-> seq + 1, size |-> size, kind |-> kind]
  BY GrowsBy
<1>2. /\ Replayable \subseteq Ids /\ \A i \in Ids : events[i].seq \in Nat
      /\ seq \in Nat
  BY StoredNow DEF Stored, TypeOK, SessionType
<1>3. events'[n].seq = seq + 1
  <2>1. [seq |-> seq + 1, size |-> size, kind |-> kind].seq = seq + 1
    OBVIOUS
  <2>. QED  BY <1>1, <2>1
<1>. HIDE DEF n
<1>4. ASSUME NEW i \in Replayable, NEW j \in Replayable
      PROVE  /\ events'[i].seq = events[i].seq /\ events[i].seq \in Nat
             /\ i < j => events[i].seq < events[j].seq
             /\ events[i].seq <= seq
             /\ i < n
  <2>1. i \in Ids
    BY <1>2
  <2>2. events'[i] = events[i]
    BY <1>1, <2>1
  <2>3. i < n
    BY <1>1, <2>1
  <2>. QED  BY <1>2, <2>1, <2>2, <2>3 DEF StoreOrder
<1>5. ASSUME NEW i \in Replayable', NEW j \in Replayable', i < j
      PROVE  events'[i].seq < events'[j].seq
  <2>1. i \in Replayable \/ i = n
    BY DEF n
  <2>2. j \in Replayable \/ j = n
    BY DEF n
  <2>3. i # n
    <3>1. j \in Replayable => ~(n < j)
      <4>1. j \in Replayable => j < n /\ j \in Nat
        BY <1>2, <1>4, <1>1
      <4>. QED  BY <4>1, <1>1
    <3>. QED  BY <1>1, <1>5, <2>2, <3>1
  <2>4. CASE j \in Replayable
    BY <1>4, <1>5, <2>1, <2>3, <2>4
  <2>5. CASE j = n
    BY <1>2, <1>3, <1>4, <2>1, <2>3, <2>5
  <2>. QED  BY <2>2, <2>4, <2>5
<1>6. ASSUME loaded', NEW i \in Replayable'
      PROVE  events'[i].seq <= seq'
  <2>0. seq' = seq + 1 /\ seq \in Nat
    BY <1>2, <1>6
  <2>1. i \in Replayable \/ i = n
    BY DEF n
  <2>2. CASE i \in Replayable
    <3>1. events'[i].seq \in Nat /\ events'[i].seq <= seq
      BY <1>4, <2>2
    <3>. QED  BY <2>0, <3>1
  <2>3. CASE i = n
    BY <1>3, <2>0, <2>3
  <2>. QED  BY <2>1, <2>2, <2>3
<1>. QED  BY <1>5, <1>6 DEF StoreOrder

LEMMA QuietOrder ==
  ASSUME StoreOrder, UNCHANGED <<loaded, seq, ring, file, events>>
  PROVE  StoreOrder'
<1>1. Replayable' = Replayable
  BY DEF Replayable, LogEnd, SizeOf, Ids
<1>. QED  BY <1>1 DEF StoreOrder, UnflushedLast

LEMMA OnEventOrder ==
  ASSUME TypeOK, TypeOK', StoreOrder, NEW s \in Sources, NEW size \in Sizes, NEW kind \in Kinds,
         OnEvent(s, size, kind)
  PROVE  StoreOrder'
<1>. DEFINE n == Len(events) + 1
            more == file.unflushed \cup {n}
<1>0. /\ NewEvent(size, kind) /\ loaded /\ loaded' = loaded /\ seq' = seq + 1
      /\ ring' = RingAppend(ring, n)
      /\ file' = LogAppend(file, n) \/ file' = LogAppendFails(file, n)
  BY DEF OnEvent, Produces, LogWrite
<1>1. /\ n \in Nat /\ \A i \in Ids : i < n /\ i \in Ids' /\ SizeOf'[i] = SizeOf[i]
  <2>1. /\ Len(events) \in Nat /\ Ids = 1 .. Len(events) /\ Ids' = Ids \cup {n}
        /\ \A i \in Ids : SizeOf'[i] = SizeOf[i]
    BY <1>0, GrowsBy
  <2>. QED  BY <2>1
<1>2. IsFile(file, Ids) /\ Ids \subseteq Nat
  BY StoredNow DEF Stored
<1>. HIDE DEF n
<1>3. /\ file.lines \subseteq Ids /\ file.unflushed \subseteq Ids
      /\ \A x \in file.lines, k \in file.unflushed : x < k
  BY <1>2 DEF IsFile, StoreOrder, UnflushedLast
<1>4. more \in SUBSET Nat /\ \A x \in file.lines, k \in more : x < k
  BY <1>1, <1>2, <1>3
<1>. HIDE DEF more
<1>5. ring' \subseteq ring \cup {n}
  BY <1>0, NewestSubset DEF RingAppend
<1>6. CASE file' = LogAppend(file, n)
  <2>1. Written(file, file', more) /\ file'.unflushed = {}
    BY <1>2, <1>6, StepsWrite DEF LogAppend, Flushed, more
  <2>2. \A x \in LogEnd' : x \in LogEnd \/ x \in more
    BY <1>1, <1>4, <2>1, TailGrows
  <2>3. \A x \in Replayable' : x \in Replayable \/ x = n
    BY <1>5, <2>1, <2>2 DEF Replayable, more
  <2>4. UnflushedLast'
    BY <2>1 DEF UnflushedLast
  <2>. QED  BY <1>0, <2>1, <2>3, <2>4, StoreGrows DEF n
<1>7. CASE file' = LogAppendFails(file, n)
  <2>1. Written(file, file', {})
    BY <1>2, <1>7, StepsWrite
  <2>2. file'.lines = file.lines /\ file'.unflushed = more
    BY <1>2, <1>7 DEF LogAppendFails, IsFile, more
  <2>3. {} \in SUBSET Nat /\ \A x \in file.lines, k \in {} : x < k
    OBVIOUS
  <2>4. \A x \in LogEnd' : x \in LogEnd \/ x \in {}
    BY <1>1, <2>1, <2>3, TailGrows
  <2>5. \A x \in Replayable' : x \in Replayable \/ x = n
    BY <1>5, <2>2, <2>4 DEF Replayable, more
  <2>6. UnflushedLast'
    BY <1>4, <2>2 DEF UnflushedLast
  <2>. QED  BY <1>0, <2>5, <2>6, StoreGrows DEF n
<1>. QED  BY <1>0, <1>6, <1>7

LEMMA CrashInEventOrder ==
  ASSUME TypeOK, TypeOK', StoreOrder, NEW size \in Sizes, NEW kind \in Kinds,
         CrashInEvent(size, kind)
  PROVE  StoreOrder'
<1>. DEFINE n == Len(events) + 1
            more == file.unflushed \cup {n}
<1>0. /\ NewEvent(size, kind) /\ loaded /\ ~loaded' /\ ring' = {}
      /\ file' = LogCrash(LogAppend(file, n), 0)
  BY DEF CrashInEvent, Produces, Killed, Unload
<1>1. /\ n \in Nat /\ \A i \in Ids : i < n /\ i \in Ids' /\ SizeOf'[i] = SizeOf[i]
  <2>1. /\ Len(events) \in Nat /\ Ids = 1 .. Len(events) /\ Ids' = Ids \cup {n}
        /\ \A i \in Ids : SizeOf'[i] = SizeOf[i]
    BY <1>0, GrowsBy
  <2>. QED  BY <2>1
<1>2. IsFile(file, Ids) /\ Ids \subseteq Nat
  BY StoredNow DEF Stored
<1>. HIDE DEF n
<1>3. /\ file.lines \subseteq Ids /\ file.unflushed \subseteq Ids
      /\ \A x \in file.lines, k \in file.unflushed : x < k
  BY <1>2 DEF IsFile, StoreOrder, UnflushedLast
<1>4. more \in SUBSET Nat /\ \A x \in file.lines, k \in more : x < k
  BY <1>1, <1>2, <1>3
<1>. HIDE DEF more
<1>5. Written(file, file', more) /\ file'.unflushed = {}
  BY <1>0, <1>2, StepsWrite DEF LogCrash, more
<1>6. \A x \in LogEnd' : x \in LogEnd \/ x \in more
  BY <1>1, <1>4, <1>5, TailGrows
<1>7. \A x \in Replayable' : x \in Replayable \/ x = n
  BY <1>0, <1>5, <1>6 DEF Replayable, more
<1>8. UnflushedLast'
  BY <1>5 DEF UnflushedLast
<1>. QED  BY <1>0, <1>5, <1>7, <1>8, StoreGrows DEF n

(* A session that is loaded again goes on from the newest event it finds.  *)
LEMMA OpenOrder ==
  ASSUME TypeOK, StoreOrder, NEW c \in Conns, NEW since \in Nat, Open(c, since)
  PROVE  StoreOrder'
<1>0. /\ loaded' = TRUE /\ ring' = IF loaded THEN ring ELSE Seeded
      /\ seq' = IF loaded THEN seq ELSE LatestSeq(Seeded, SeqOf)
      /\ UNCHANGED <<file, events>>
  BY DEF Open
<1>1. CASE loaded
  BY <1>0, <1>1, QuietOrder
<1>2. CASE ~loaded
  <2>1. Replayable = LogEnd /\ Seeded \subseteq LogEnd
    BY <1>2, NewestSubset DEF StoreOrder, Replayable, Seeded, RingExtend, LogEnd
  <2>2. LogEnd' = LogEnd
    BY <1>0 DEF LogEnd, SizeOf, Ids
  <2>3. \A x \in Replayable' : x \in Replayable
    BY <1>0, <1>2, <2>1, <2>2 DEF Replayable, StoreOrder
  <2>4. ASSUME NEW i \in LogEnd
        PROVE  events[i].seq <= LatestSeq(Seeded, SeqOf)
    <3>. DEFINE top == Max(LogEnd)
    <3>1. /\ LogEnd \subseteq Ids /\ Ids = 1 .. Len(events) /\ Len(events) \in Nat
          /\ \A j \in Ids : events[j].seq \in Nat
      BY <2>1, StoredNow, EventsType DEF Stored, TypeOK
    <3>2. top \in LogEnd /\ \A y \in LogEnd : top >= y
      <4>1. LogEnd \in SUBSET Nat /\ LogEnd # {} /\ \A y \in LogEnd : y <= Len(events)
        BY <3>1
      <4>. QED  BY <3>1, <4>1, MaxIsMember
    <3>. HIDE DEF top
    <3>3. top \in Seeded
      <4>1. {j \in LogEnd : j > top} = {}
        <5>. SUFFICES ASSUME NEW j \in LogEnd, j > top PROVE FALSE
          OBVIOUS
        <5>1. top >= j /\ j \in Nat /\ top \in Nat
          BY <3>1, <3>2
        <5>. QED  BY <5>1
      <4>2. Cardinality({}) < RingSize
        <5>1. Cardinality({}) = 0
          BY FS_EmptySet
        <5>. QED  BY <5>1, StoreAssumption
      <4>3. top \in Newest(LogEnd, RingSize)
        BY <3>2, <4>1, <4>2 DEF Newest
      <4>. QED  BY <4>3 DEF Seeded, RingExtend, LogEnd
    <3>4. Max(Seeded) = top
      <4>1. Seeded \in SUBSET Nat /\ Seeded # {} /\ \A y \in Seeded : y <= Len(events)
        BY <2>1, <3>1, <3>3
      <4>2. Max(Seeded) \in Seeded /\ \A y \in Seeded : Max(Seeded) >= y
        BY <3>1, <4>1, MaxIsMember
      <4>3. top \in Nat
        BY <3>1, <3>2
      <4>. DEFINE m == Max(Seeded)
      <4>4. m \in Nat /\ m \in LogEnd /\ m >= top
        BY <2>1, <3>3, <4>1, <4>2
      <4>. HIDE DEF m
      <4>5. m = top
        BY <3>2, <4>3, <4>4
      <4>. QED  BY <4>5 DEF m
    <3>5. LatestSeq(Seeded, SeqOf) = events[top].seq
      BY <2>1, <3>1, <3>3, <3>4 DEF LatestSeq, SeqOf
    <3>6. i \in Nat /\ top \in Nat /\ top >= i
      BY <3>1, <3>2
    <3>7. i = top \/ events[i].seq < events[top].seq
      BY <2>1, <3>2, <3>6 DEF StoreOrder
    <3>. QED  BY <3>1, <3>2, <3>5, <3>7
  <2>5. \A i \in Replayable' : events[i].seq <= seq'
    BY <1>0, <1>2, <2>1, <2>3, <2>4
  <2>6. UnflushedLast'
    BY <1>0 DEF StoreOrder, UnflushedLast
  <2>. QED  BY <1>0, <2>3, <2>5, <2>6, StoreShrinks
<1>. QED  BY <1>1, <1>2

LEMMA EndReplayOrder ==
  ASSUME TypeOK, StoreOrder, NEW c \in Conns, EndReplay(c)
  PROVE  StoreOrder'
<1>1. seq \in Nat
  BY DEF TypeOK, SessionType
<1>2. Replayable' = Replayable
  BY DEF EndReplay, Replayable, LogEnd, SizeOf, Ids
<1>3. \A i \in Replayable : events[i].seq \in Nat
  BY StoredNow DEF Stored
<1>4. UNCHANGED <<loaded, ring, file, events>>
  BY DEF EndReplay
<1>5. seq' = seq + 1 \/ seq' = seq
  BY DEF EndReplay
<1>6. loaded' => \A i \in Replayable' : events[i].seq <= seq'
  BY <1>1, <1>2, <1>3, <1>4, <1>5 DEF StoreOrder
<1>7. UnflushedLast'
  BY <1>4 DEF StoreOrder, UnflushedLast
<1>. QED  BY <1>2, <1>4, <1>6, <1>7, StoreShrinks DEF StoreOrder

LEMMA DaemonStepOrder ==
  ASSUME TypeOK, TypeOK', StoreOrder, Reap \/ \E units \in Nat : Crash(units)
  PROVE  StoreOrder'
<1>1. \A i \in Ids : i \in Ids' /\ SizeOf'[i] = SizeOf[i]
  BY DEF Reap, Crash, SizeOf, Ids
<1>2. UNCHANGED events /\ ~loaded' /\ ring' = {}
  BY DEF Reap, Crash, Killed, Unload
<1>3. /\ IsFile(file, Ids) /\ Ids \subseteq Nat /\ file.torn \in Nat
      /\ \A x \in file.lines, k \in file.unflushed : x < k
  BY StoredNow DEF Stored, StoreOrder, UnflushedLast, IsFile
<1>4. file'.unflushed = {} /\ \E ids \in SUBSET file.unflushed : Written(file, file', ids)
  <2>1. CASE Reap /\ file.unflushed # {}
    <3>1. file' = Flushed(file, file.unflushed)
      BY <2>1 DEF Reap
    <3>2. Written(file, file', file.unflushed)
      BY <2>1, <3>1, FlushedWrites
    <3>. QED  BY <3>1, <3>2 DEF Flushed
  <2>2. CASE Reap /\ file.unflushed = {}
    <3>1. file' = file
      BY <2>2 DEF Reap
    <3>2. Written(file, file', {})
      BY <1>3, <3>1 DEF Written
    <3>. QED  BY <2>2, <3>1, <3>2
  <2>3. ASSUME NEW units \in Nat, Crash(units)
        PROVE  file'.unflushed = {} /\ Written(file, file', {})
    <3>1. file' = LogCrash(file, units)
      BY <2>3 DEF Crash
    <3>. QED  BY <1>3, <3>1, StepsWrite DEF LogCrash
  <2>. QED  BY <2>1, <2>2, <2>3
<1>5. PICK ids \in SUBSET file.unflushed : Written(file, file', ids)
  BY <1>4
<1>6. ids \in SUBSET Nat /\ \A x \in file.lines, k \in ids : x < k
  BY <1>3 DEF IsFile
<1>7. \A x \in LogEnd' : x \in LogEnd \/ x \in ids
  BY <1>1, <1>5, <1>6, TailGrows
<1>8. \A x \in Replayable' : x \in Replayable
  BY <1>2, <1>4, <1>7 DEF Replayable
<1>9. UnflushedLast'
  BY <1>4 DEF UnflushedLast
<1>. QED  BY <1>2, <1>4, <1>8, <1>9, StoreShrinks

LEMMA OrderOfStores == Spec => []StoreOrder
<1>1. Init => StoreOrder
  <2>. SUFFICES ASSUME Init PROVE StoreOrder
    OBVIOUS
  <2>1. LogEnd = {}
    BY LogTailSubset DEF Init, LogEnd, EmptyFile
  <2>. QED  BY <2>1 DEF Init, StoreOrder, Replayable, EmptyFile, UnflushedLast
<1>2. TypeOK /\ TypeOK' /\ StoreOrder /\ [Next]_vars => StoreOrder'
  <2>. SUFFICES ASSUME TypeOK, TypeOK', StoreOrder, [Next]_vars PROVE StoreOrder'
    OBVIOUS
  <2>. DEFINE quiet == <<loaded, seq, ring, file, events>>
  <2>1. ASSUME NEW s \in Sources, SourceStep(s)
        PROVE  StoreOrder'
    <3>1. CASE WriteOwner(s) \/ NextWatcher(s) \/ WriteWatcher(s) \/ EndEvent(s)
      <4>1. UNCHANGED quiet
        BY <3>1 DEF WriteOwner, NextWatcher, WriteWatcher, EndEvent, session
      <4>. QED  BY <4>1, QuietOrder
    <3>. QED  BY <2>1, <3>1, OnEventOrder DEF SourceStep
  <2>2. ASSUME NEW c \in Conns, SubscribeStep(c)
        PROVE  StoreOrder'
    <3>1. lastSeq[c] \in Nat
      BY DEF TypeOK, ClientType
    <3>2. CASE \/ \E replay \in BOOLEAN : Watch(c, lastSeq[c], replay)
               \/ ReplayFrame(c) \/ SendLast(c) \/ Unwatch(c)
      <4>1. UNCHANGED quiet
        BY <3>2 DEF Watch, ReplayFrame, SendLast, Unwatch, session
      <4>. QED  BY <4>1, QuietOrder
    <3>. QED  BY <2>2, <3>1, <3>2, OpenOrder, EndReplayOrder DEF SubscribeStep
  <2>3. ASSUME NEW c \in Conns, ConnectionStep(c)
        PROVE  StoreOrder'
    <3>1. UNCHANGED quiet
      BY <2>3 DEF ConnectionStep, User, Deliver, Connect, Drop, StopServing, Detach, session
    <3>. QED  BY <3>1, QuietOrder
  <2>4. CASE SoftKill
    BY <2>4, QuietOrder DEF SoftKill
  <2>5. CASE UNCHANGED vars
    <3>1. UNCHANGED quiet
      BY <2>5 DEF vars, session
    <3>. QED  BY <3>1, QuietOrder
  <2>6. ASSUME NEW size \in Sizes, NEW units \in 0 .. size - 1, Crash(units)
        PROVE  StoreOrder'
    <3>1. units \in Nat
      BY StreamAssumption
    <3>. QED  BY <2>6, <3>1, DaemonStepOrder
  <2>. QED  BY <2>1, <2>2, <2>3, <2>4, <2>5, <2>6, DaemonStepOrder, CrashInEventOrder DEF Next
<1>. QED  BY <1>1, <1>2, TypeInduction, PTL DEF Spec
=============================================================================
