------------------------------ MODULE EventLog ------------------------------
(***************************************************************************)
(* The two replay stores of one session (event_log.py): the in-memory      *)
(* RingBuffer and the append-only DurableEventLog, as pure operators.      *)
(*                                                                         *)
(* Frames are named by the order of their creation: frame 1 is the first   *)
(* event the session ever produced, frame 2 the second, and so on.  Both   *)
(* stores only ever append, so the order of a store IS the order of these  *)
(* names and a store is simply a set of them.  The seq a frame carries is  *)
(* a different thing: it can repeat after a restart (see EventStream).     *)
(***************************************************************************)
EXTENDS Integers, FiniteSets, FiniteSetsExt

CONSTANTS
  RingSize,   (* ring_buffer_size: capacity of the RingBuffer (1024)       *)
  TailSpan    (* how much of the log tail() reads (256 KiB), in the units  *)
              (* frame sizes are given in                                  *)

ASSUME StoreAssumption ==
  /\ RingSize \in Nat \ {0}
  /\ TailSpan \in Nat \ {0}

(* The n most recent frames of the store S.                                *)
Newest(S, n) == {i \in S : Cardinality({j \in S : j > i}) < n}

(* RingBuffer.append: a deque with maxlen drops its oldest frame.          *)
RingAppend(ring, id) == Newest(ring \cup {id}, RingSize)

(* RingBuffer.extend.                                                      *)
RingExtend(ring, ids) == Newest(ring \cup ids, RingSize)

(* RingBuffer.since: the frames with a seq above `seen`; seqOf gives the   *)
(* seq every frame was tagged with.                                        *)
Since(ring, seqOf, seen) == {i \in ring : seqOf[i] > seen}

(* RingBuffer.earliest_seq and latest_seq look at the ends of the deque,   *)
(* not at the smallest and largest seq.  0 stands for None.                *)
EarliestSeq(ring, seqOf) == IF ring = {} THEN 0 ELSE seqOf[Min(ring)]
LatestSeq(ring, seqOf)   == IF ring = {} THEN 0 ELSE seqOf[Max(ring)]

-----------------------------------------------------------------------------
(* The file of a DurableEventLog is a record: the frames it holds a line   *)
(* of, in order; those of these lines that do not parse, each with the     *)
(* units of the fragment in front of it; the units of the fragment without *)
(* a newline that the file ends in, 0 if it ends in none; and what the     *)
(* process has written but the operating system has not taken yet.         *)
EmptyFile == [lines |-> {}, bad |-> [i \in {} |-> 0], torn |-> 0, unflushed |-> {}]

(* A file of frames of I.                                                  *)
IsFile(file, I) ==
  /\ file = [lines |-> file.lines, bad |-> file.bad, torn |-> file.torn,
             unflushed |-> file.unflushed]
  /\ file.lines \subseteq I /\ file.unflushed \subseteq I
  /\ DOMAIN file.bad \subseteq file.lines /\ file.bad \in [DOMAIN file.bad -> Nat]
  /\ file.torn \in Nat

(* The file once `ids`, at least one, reach it.  It is opened in append    *)
(* mode, so the first line written after a fragment continues the fragment *)
(* and neither of the two parses.                                          *)
Flushed(file, ids) ==
  [lines     |-> file.lines \cup ids,
   bad       |-> IF file.torn = 0 THEN file.bad
                 ELSE [i \in DOMAIN file.bad \cup {Min(ids)} |->
                         IF i = Min(ids) THEN file.torn ELSE file.bad[i]],
   torn      |-> 0,
   unflushed |-> {}]

(* DurableEventLog.append: every line is flushed at its newline, together  *)
(* with the lines an earlier flush could not write.                        *)
LogAppend(file, id) == Flushed(file, file.unflushed \cup {id})

(* The same when the flush raises OSError (a full disk): the line stays in *)
(* the buffer of the file object and on_event goes on.                     *)
LogAppendFails(file, id) == [file EXCEPT !.unflushed = @ \cup {id}]

(* The daemon dies: what was not flushed is gone, except for the first     *)
(* `units` of a line, which continue the fragment that is there.           *)
LogCrash(file, units) ==
  [lines |-> file.lines, bad |-> file.bad, torn |-> file.torn + units, unflushed |-> {}]

(* How far before the end of the file line i begins: the lines from it on, *)
(* with the fragments some of them are glued to, and the fragment at the   *)
(* end.                                                                    *)
OnDisk(file, sizeOf) ==
  [i \in file.lines |-> sizeOf[i] + IF i \in DOMAIN file.bad THEN file.bad[i] ELSE 0]

SizeFrom(lines, sizeOf, i) == MapThenSumSet(LAMBDA j : sizeOf[j], {j \in lines : j >= i})

FromEnd(file, sizeOf, i) == SizeFrom(file.lines, OnDisk(file, sizeOf), i) + file.torn

(* The whole lines in the last TailSpan units of the file.  When that is   *)
(* not the whole file the first piece is dropped, whole line or not.       *)
TailWindowDrops(file, sizeOf) ==   (* mutant: the first piece of a whole file is dropped *)
  {i \in file.lines : i # Min(file.lines) /\ FromEnd(file, sizeOf, i) < TailSpan}

TailWindow(file, sizeOf) ==
  IF file.lines = {} \/ FromEnd(file, sizeOf, Min(file.lines)) <= TailSpan
  THEN file.lines
  ELSE {i \in file.lines : FromEnd(file, sizeOf, i) < TailSpan}

(* DurableEventLog.tail(n): of the last 2n pieces of the chunk (the empty  *)
(* one after the last newline, or the fragment, is one of them) those that *)
(* parse, and of these the last n.                                         *)
LogTailNoOvershoot(file, sizeOf, n) ==   (* mutant: lines[-n:] *)
  Newest(Newest(TailWindow(file, sizeOf), n - 1) \ DOMAIN file.bad, n)

LogTail(file, sizeOf, n) ==
  Newest(Newest(TailWindow(file, sizeOf), 2 * n - 1) \ DOMAIN file.bad, n)

=============================================================================
