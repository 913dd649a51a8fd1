---------------------------- MODULE SessionTable ----------------------------
(***************************************************************************)
(* Who holds a session and who runs its child: the handlers of a           *)
(* Connection that open, drive, close and leave one session id (daemon.py),*)
(* the table and its reaper (session.py), and the children of the Session  *)
(* objects that the id has had.                                            *)
(*                                                                         *)
(* The handlers of one connection come one after the other; those of two   *)
(* connections, the reaper and the soft kill interleave wherever one of    *)
(* them awaits: a put on another queue, a spawn, a close.  The lock of the *)
(* table covers no await, so it never makes anyone wait.  What a handler   *)
(* does between two awaits is one step here.                               *)
(*                                                                         *)
(* Left to other modules: events and replay (EventStream), what goes on in *)
(* a backend (ClaudeBackend, CodexBackend; an interrupt is Claude's, which *)
(* kills the child and starts another).  An error reply that changes       *)
(* nothing is no step.                                                     *)
(***************************************************************************)
EXTENDS Integers, Sequences

CONSTANTS
  Conns,       (* connections                                              *)
  Reaper,      (* the task of make_reaper                                  *)
  None,        (* no connection                                            *)
  MaxObjs,     (* bound: Session objects made for the id                   *)
  MaxKids      (* bound: backends made for the id                          *)

Procs == Conns \cup {Reaper}

ASSUME TableAssumption ==
  /\ Reaper \notin Conns /\ None \notin Procs
  /\ {MaxObjs, MaxKids} \subseteq Nat

VARIABLES
  table,       (* the object registered under the id, 0 for none           *)
  obj,         (* every Session object made: its connection_id, backend    *)
               (* (0 for None), detached (detached_at is set), _finishing  *)
  kid,         (* every backend made: the object it reports to, whether it *)
               (* runs, is being closed, is about to be (a soft kill that  *)
               (* was scheduled); who sent the turn it is in (None: it is  *)
               (* in none); late: its result is still in on_event          *)
  owned,       (* connections with the id in _owned_sessions               *)
  pc,          (* where every process waits, with the object and the child *)
               (* it holds meanwhile                                       *)
  (* History.                                                              *)
  met,         (* processes whose operation at hand met another one        *)
  mixed,       (* connections whose operation met another one since they   *)
               (* opened the session, owners who opened it again and saw   *)
               (* its spawn fail, and whoever opens it while one of these  *)
               (* still has the id                                         *)
  crossed,     (* children that run and whose start met another operation  *)
  stranded,    (* objects whose first open failed behind its registration  *)
  risky        (* children in a turn they were given while the session was *)
               (* about to end them for an earlier owner, or that was open *)
               (* when it began to, with another result on its way         *)

ghosts == <<met, mixed, crossed, stranded, risky>>
vars == <<table, obj, kid, owned, pc, ghosts>>

-----------------------------------------------------------------------------
Rest == [at |-> "idle", obj |-> 0, kid |-> 0]
Gone == [Rest EXCEPT !.at = "gone"]
At(p, label) == pc[p].at = label
Goes(p, label, o, k) == pc' = [pc EXCEPT ![p] = [at |-> label, obj |-> o, kid |-> k]]
Returns(p) == pc' = [pc EXCEPT ![p] = IF @.at = "detach" THEN Gone ELSE Rest]

NewSession == [owner |-> None, backend |-> 0, detached |-> FALSE, finishing |-> FALSE]
NewBackend(o) == [of |-> o, runs |-> FALSE, closing |-> FALSE, doomed |-> FALSE,
                  sender |-> None, late |-> FALSE]

Running(k) == k # 0 /\ kid[k].runs
Serves(o) == Running(obj[o].backend)

Busy(p) == {q \in Procs \ {p} : pc[q].at \notin {"idle", "gone"}}
Meets(p) == IF Busy(p) = {} THEN {} ELSE {p} \cup Busy(p)
Begin(p) == met' = Meets(p) /\ mixed' = mixed \cup (Conns \cap met')

(* A new open has its past behind it, unless somebody still trusts his.    *)
BeginOpen(c) ==
  /\ met' = Meets(c)
  /\ mixed' = IF Busy(c) = {} /\ mixed \cap owned = {}
              THEN mixed \ {c} ELSE mixed \cup {c} \cup (Conns \cap met')

Starts(p, k) == crossed' = IF p \in met THEN crossed \cup {k} ELSE crossed

-----------------------------------------------------------------------------
(* Opening.                                                                *)

(* The part of _handle_open up to its next await: an object o is there.    *)
OpenWith(c, o, objs) ==
  /\ obj' = objs
  /\ \/ /\ Running(objs[o].backend)
        /\ owned' = owned \cup {c}
        /\ Goes(c, "own", o, 0)
        /\ UNCHANGED <<kid, stranded>>
     \/ /\ ~Running(objs[o].backend) /\ Len(kid) < MaxKids
        /\ kid' = Append(kid, NewBackend(o))
        /\ Goes(c, "spawn", o, Len(kid) + 1)
        /\ UNCHANGED <<owned, stranded>>
     \/ /\ ~Running(objs[o].backend)                      (* invalid options *)
        /\ stranded' = IF objs[o] = NewSession THEN stranded \cup {o} ELSE stranded
        /\ pc' = [pc EXCEPT ![c] = Rest]
        /\ UNCHANGED <<kid, owned>>

OpenNew(c) ==
  /\ At(c, "idle") /\ table = 0 /\ Len(obj) < MaxObjs
  /\ BeginOpen(c)
  /\ table' = Len(obj) + 1
  /\ OpenWith(c, table', Append(obj, NewSession))
  /\ UNCHANGED <<crossed, risky>>

Displaced(c) == {p \in {obj[table].owner} \ {None, c} : ~At(p, "gone")}

ResumeUntold(c) ==   (* mutant: the former owner is not told *)
  /\ At(c, "idle") /\ table # 0
  /\ BeginOpen(c)
  /\ OpenWith(c, table, obj)
  /\ UNCHANGED <<table, crossed, risky>>
Resume(c) ==
  /\ At(c, "idle") /\ table # 0
  /\ BeginOpen(c)
  /\ IF Displaced(c) = {}
     THEN OpenWith(c, table, obj)
     ELSE /\ owned' = owned \ Displaced(c)
          /\ Goes(c, "told", table, 0)
          /\ UNCHANGED <<obj, kid, stranded>>
  /\ UNCHANGED <<table, crossed, risky>>

Told(c) ==
  /\ At(c, "told")
  /\ OpenWith(c, pc[c].obj, obj)
  /\ UNCHANGED <<table, met, mixed, crossed, risky>>

Spawned(c) ==
  /\ At(c, "spawn")
  /\ kid' = [kid EXCEPT ![pc[c].kid].runs = TRUE]
  /\ obj' = [obj EXCEPT ![pc[c].obj].backend = pc[c].kid]
  /\ owned' = owned \cup {c}
  /\ Goes(c, "own", pc[c].obj, 0)
  /\ Starts(c, pc[c].kid)
  /\ UNCHANGED <<table, met, mixed, stranded, risky>>

(* Behind the acknowledgement.  A session that is finishing stays so.      *)
AttachDated(c) ==   (* mutant: detached_at is not reset *)
  /\ At(c, "own")
  /\ obj' = [obj EXCEPT ![pc[c].obj].owner = c]
  /\ Returns(c)
  /\ UNCHANGED <<table, kid, owned, ghosts>>
Attach(c) ==
  /\ At(c, "own")
  /\ obj' = [obj EXCEPT ![pc[c].obj].owner = c, ![pc[c].obj].detached = FALSE]
  /\ Returns(c)
  /\ UNCHANGED <<table, kid, owned, ghosts>>

-----------------------------------------------------------------------------
(* SessionTable.remove takes whatever the id stands for when it runs.      *)

Kill(k) == kid' = [kid EXCEPT ![k].closing = TRUE]

RemoveLeaves(p) ==   (* mutant: the child of the session is not closed *)
  table' = 0 /\ Returns(p) /\ UNCHANGED kid
Remove(p) ==
  /\ table' = 0
  /\ IF table # 0 /\ Serves(table)
     THEN Kill(obj[table].backend) /\ Goes(p, "close", 0, obj[table].backend)
     ELSE Returns(p) /\ UNCHANGED kid

(* The id stays in _owned_sessions of a connection that had it before.     *)
SpawnFails(c) ==
  /\ At(c, "spawn")
  /\ Remove(c)
  /\ mixed' = IF c \in owned THEN mixed \cup {c} ELSE mixed
  /\ UNCHANGED <<obj, owned, met, crossed, stranded, risky>>

(* A spawn of Codex that raises anything else (a write of its handshake    *)
(* fails) ends the request and cleans nothing up.                          *)
SpawnBreaks(c) ==
  /\ At(c, "spawn")
  /\ stranded' = IF obj[pc[c].obj] = NewSession THEN stranded \cup {pc[c].obj} ELSE stranded
  /\ Returns(c)
  /\ UNCHANGED <<table, obj, kid, owned, met, mixed, crossed, risky>>

(* close() of the backend has returned.                                    *)
Closed(p) ==
  /\ At(p, "close") /\ ~kid[pc[p].kid].closing
  /\ Returns(p)
  /\ UNCHANGED <<table, obj, kid, owned, ghosts>>

(* Watchers are told first, through their queues, if there are any.        *)
Close(c) ==
  /\ At(c, "idle") /\ c \in owned
  /\ Begin(c)
  /\ owned' = owned \ {c}
  /\ \/ Goes(c, "farewell", table, 0) /\ UNCHANGED <<table, kid>>
     \/ Remove(c)
  /\ UNCHANGED <<obj, crossed, stranded, risky>>

Farewell(c) ==
  /\ At(c, "farewell")
  /\ Remove(c)
  /\ UNCHANGED <<obj, owned, ghosts>>

-----------------------------------------------------------------------------
(* Turns.                                                                  *)

Ending(k) == kid[k].closing \/ kid[k].doomed \/ obj[kid[k].of].finishing

(* A child that is being closed may or may not take another turn.          *)
Send(c, k) ==
  /\ kid[k].runs /\ kid[k].sender = None
  /\ kid' = [kid EXCEPT ![k].sender = c]
  /\ risky' = IF Ending(k) \/ c \in mixed THEN risky \cup {k} ELSE risky

User(c) ==
  /\ At(c, "idle") /\ c \in owned /\ table # 0 /\ Serves(table)
  /\ Send(c, obj[table].backend)
  /\ UNCHANGED <<table, obj, owned, pc, met, mixed, crossed, stranded>>

UserRespawns(c) ==
  /\ At(c, "idle") /\ c \in owned /\ table # 0 /\ ~Serves(table)
  /\ Len(kid) < MaxKids
  /\ Begin(c)
  /\ kid' = Append(kid, NewBackend(table))
  /\ Goes(c, "respawn", table, Len(kid) + 1)
  /\ UNCHANGED <<table, obj, owned, crossed, stranded, risky>>

Respawned(c) ==
  /\ At(c, "respawn")
  /\ kid' = [kid EXCEPT ![pc[c].kid].runs = TRUE, ![pc[c].kid].sender = c]
  /\ obj' = [obj EXCEPT ![pc[c].obj].backend = pc[c].kid]
  /\ risky' = IF Ending(pc[c].kid) \/ c \in mixed THEN risky \cup {pc[c].kid} ELSE risky
  /\ Starts(c, pc[c].kid)
  /\ Returns(c)
  /\ UNCHANGED <<table, owned, met, mixed, stranded>>

RespawnFails(c) ==
  /\ At(c, "respawn")
  /\ Returns(c)
  /\ UNCHANGED <<table, obj, kid, owned, ghosts>>

(* ClaudeBackend.interrupt: the same backend gets another child, and the   *)
(* result of the turn comes from a task of its own.                        *)
Interrupt(c) ==
  /\ At(c, "idle") /\ c \in owned /\ table # 0 /\ Serves(table)
  /\ kid[obj[table].backend].sender # None
  /\ Begin(c)
  /\ Kill(obj[table].backend)
  /\ Goes(c, "restart", table, obj[table].backend)
  /\ UNCHANGED <<table, obj, owned, crossed, stranded, risky>>

Restarted(c) ==
  /\ At(c, "restart") /\ ~kid[pc[c].kid].closing
  /\ \/ /\ kid' = [kid EXCEPT ![pc[c].kid].runs = TRUE, ![pc[c].kid].late = TRUE]
        /\ Starts(c, pc[c].kid)
     \/ UNCHANGED <<kid, crossed>>
  /\ Returns(c)
  /\ UNCHANGED <<table, obj, owned, met, mixed, stranded, risky>>

-----------------------------------------------------------------------------
(* Leaving: the end of serve().                                            *)

(* on_event is in, or will get, a result that is not of the turn at hand.  *)
Unreported(o) == \E k \in DOMAIN kid :
  kid[k].of = o /\ (kid[k].late \/ (k # obj[o].backend /\ kid[k].sender # None))
UnhookUndated(s) == [s EXCEPT !.owner = None]   (* mutant: detached_at is not set *)
Unhook(s) == [s EXCEPT !.owner = None, !.detached = TRUE]

Disconnect(c) ==
  /\ At(c, "idle")
  /\ Begin(c)
  /\ owned' = owned \ {c}
  /\ IF table = 0 \/ (table # 0 /\ obj[table].owner # c)
     THEN UNCHANGED <<obj, kid, risky>> /\ pc' = [pc EXCEPT ![c] = Gone]
     ELSE LET s == Unhook(obj[table]) IN
          \/ /\ ~Serves(table)
             /\ obj' = [obj EXCEPT ![table] = [s EXCEPT !.backend = 0]]
             /\ UNCHANGED <<kid, risky>> /\ pc' = [pc EXCEPT ![c] = Gone]
          \/ /\ Serves(table) /\ kid[s.backend].sender # None
             /\ obj' = [obj EXCEPT ![table] = [s EXCEPT !.finishing = TRUE]]
             /\ UNCHANGED kid /\ pc' = [pc EXCEPT ![c] = Gone]
             /\ risky' = IF Unreported(table) THEN risky \cup {s.backend} ELSE risky
          \/ /\ Serves(table) /\ kid[s.backend].sender = None
             /\ obj' = [obj EXCEPT ![table] = s]
             /\ Kill(s.backend) /\ Goes(c, "detach", table, s.backend)
             /\ UNCHANGED risky
  /\ UNCHANGED <<table, crossed, stranded>>

Detached(c) ==
  /\ At(c, "detach") /\ ~kid[pc[c].kid].closing
  /\ obj' = [obj EXCEPT ![pc[c].obj].backend = 0]
  /\ Returns(c)
  /\ UNCHANGED <<table, kid, owned, ghosts>>

-----------------------------------------------------------------------------
(* The reaper, whose list may hold other ids before this one.              *)
ExpireAttached ==   (* mutant: an attached session grows old, too *)
  /\ At(Reaper, "idle") /\ table # 0
  /\ Begin(Reaper)
  /\ Goes(Reaper, "expired", table, 0)
  /\ UNCHANGED <<table, obj, kid, owned, crossed, stranded, risky>>
Expire ==
  /\ At(Reaper, "idle") /\ table # 0
  /\ obj[table].owner = None /\ obj[table].detached
  /\ Begin(Reaper)
  /\ Goes(Reaper, "expired", table, 0)
  /\ UNCHANGED <<table, obj, kid, owned, crossed, stranded, risky>>

Reap ==
  /\ At(Reaper, "expired")
  /\ Remove(Reaper)
  /\ UNCHANGED <<obj, owned, ghosts>>

-----------------------------------------------------------------------------
(* The children, and the end of on_event.                                  *)

Result(k) ==
  /\ kid[k].runs /\ kid[k].sender # None /\ ~kid[k].late
  /\ kid' = [kid EXCEPT ![k].sender = None, ![k].late = TRUE]
  /\ risky' = risky \ {k}
  /\ UNCHANGED <<table, obj, owned, pc, met, mixed, crossed, stranded>>

(* The session closes the child it has now, which may be another one.      *)
ResultOver(k) ==
  /\ kid[k].late
  /\ LET o == kid[k].of  b == obj[o].backend  over == [kid EXCEPT ![k].late = FALSE] IN
     /\ kid' = IF obj[o].finishing /\ b # 0 THEN [over EXCEPT ![b].doomed = TRUE] ELSE over
     /\ obj' = [obj EXCEPT ![o].finishing = FALSE]
  /\ UNCHANGED <<table, owned, pc, ghosts>>

SoftKill(k) ==
  /\ kid[k].doomed
  /\ kid' = [kid EXCEPT ![k].doomed = FALSE, ![k].closing = kid[k].runs]
  /\ UNCHANGED <<table, obj, owned, pc, ghosts>>

Stops(k, late) ==
  /\ kid' = [kid EXCEPT ![k].runs = FALSE, ![k].closing = FALSE,
                        ![k].sender = None, ![k].late = late]
  /\ crossed' = crossed \ {k} /\ risky' = risky \ {k}
  /\ UNCHANGED <<table, obj, owned, pc, met, mixed, stranded>>

(* A child that is closed takes its turn with it, without a result.  One   *)
(* that goes by itself is reported, with a result if it was in a turn.     *)
Dies(k)  == kid[k].runs /\ kid[k].closing /\ Stops(k, FALSE)
Exits(k) == kid[k].runs /\ ~kid[k].closing /\ Stops(k, kid[k].late \/ kid[k].sender # None)

-----------------------------------------------------------------------------
Init ==
  /\ table = 0 /\ obj = <<>> /\ kid = <<>>
  /\ owned = {} /\ pc = [p \in Procs |-> Rest]
  /\ met = {} /\ mixed = {} /\ crossed = {} /\ stranded = {} /\ risky = {}

Request(c) ==
  \/ OpenNew(c) \/ Resume(c) \/ User(c) \/ UserRespawns(c) \/ Interrupt(c)
  \/ Close(c) \/ Disconnect(c)

Handler(c) ==
  \/ Told(c) \/ Spawned(c) \/ SpawnFails(c) \/ SpawnBreaks(c) \/ Attach(c)
  \/ Closed(c) \/ Farewell(c) \/ Respawned(c) \/ RespawnFails(c) \/ Restarted(c) \/ Detached(c)

ReaperStep == Expire \/ Reap \/ Closed(Reaper)

Child(k) == Result(k) \/ ResultOver(k) \/ Exits(k)

Next ==
  \/ \E c \in Conns : Request(c) \/ Handler(c)
  \/ ReaperStep
  \/ \E k \in DOMAIN kid : Child(k) \/ SoftKill(k) \/ Dies(k)

(* The reaper wakes up again and again, every detached session gets old,   *)
(* a child that is killed dies, and a connection that leaves goes on.  No  *)
(* client has to ask for anything and no turn has to end; that the other   *)
(* handlers go on is not needed for CleanedUp.                             *)
Fairness ==
  /\ WF_vars(ReaperStep)
  /\ WF_vars(\E k \in DOMAIN kid : SoftKill(k) \/ Dies(k))
  /\ WF_vars(\E c \in Conns : Detached(c))

Spec == Init /\ [][Next]_vars /\ Fairness

-----------------------------------------------------------------------------
Object == [owner : Conns \cup {None}, backend : Nat,
           detached : BOOLEAN, finishing : BOOLEAN]
Backend == [of : Nat, runs : BOOLEAN, closing : BOOLEAN, doomed : BOOLEAN,
            sender : Conns \cup {None}, late : BOOLEAN]
Place == [at : {"idle", "gone", "told", "spawn", "own", "close", "farewell",
                "respawn", "restart", "detach", "expired"},
          obj : Nat, kid : Nat]

ObjectType ==
  /\ obj \in Seq(Object)
  /\ \A o \in DOMAIN obj :
       obj[o].backend <= Len(kid) /\ ~(obj[o].detached /\ obj[o].owner # None)
ChildType ==
  /\ kid \in Seq(Backend)
  /\ \A k \in DOMAIN kid :
       kid[k].of \in DOMAIN obj /\ (~kid[k].runs => kid[k].sender = None /\ ~kid[k].closing)
PlaceType ==
  /\ pc \in [Procs -> Place]
  /\ \A p \in Procs :
       /\ pc[p].obj <= Len(obj) /\ pc[p].kid <= Len(kid)
       /\ pc[p].at \in {"told", "spawn", "own", "respawn", "restart", "detach"} => pc[p].obj # 0
       /\ pc[p].at \in {"spawn", "respawn", "restart", "close", "detach"} <=> pc[p].kid # 0
HistoryType ==
  /\ met \subseteq Procs /\ mixed \subseteq Conns /\ stranded \subseteq DOMAIN obj
  /\ \A k \in crossed : k \in DOMAIN kid /\ kid[k].runs
  /\ \A k \in risky : k \in DOMAIN kid /\ kid[k].sender # None

(* Types.  Beyond the ranges: what a process waits for is there, a child   *)
(* that does not run is neither in a turn nor being closed, and only a     *)
(* session without an owner grows old (daemon.py, session.py).             *)
TypeOK ==
  /\ table \in 0 .. Len(obj) /\ Len(obj) <= MaxObjs /\ Len(kid) <= MaxKids
  /\ owned \subseteq Conns
  /\ ObjectType /\ ChildType /\ PlaceType /\ HistoryType

(* No child is left running behind the daemon's back: one that runs is the *)
(* child of the registered session, or somebody is about to close it.  The *)
(* exceptions are exactly the children whose start met another operation   *)
(* on the session, as two opens that both found no running child           *)
(* (daemon.py, _handle_open; session.py, detach_soft and remove).          *)
NoLeak ==
  \A k \in DOMAIN kid :
    kid[k].runs /\ k \notin crossed =>
      \/ table # 0 /\ obj[table].backend = k
      \/ kid[k].closing \/ kid[k].doomed
      \/ \E p \in Procs : pc[p].kid = k

(* A connection that may drive the session is the one its events go to, so *)
(* no two may: a takeover leaves the former owner out, a session that      *)
(* fails to start or is reaped is nobody's.  The exceptions are the        *)
(* connections whose operations met others, as an open that resumes a      *)
(* session on the reaper's list (daemon.py, _handle_open and               *)
(* notify_session_taken; session.py, reap_idle).                           *)
OwnerHasSession ==
  \A c \in owned \ mixed :
    At(c, "idle") => table # 0 /\ obj[table].owner = c

(* A turn of a client that owns the session is cut short without a result  *)
(* only if the session was about to end that child for an earlier owner    *)
(* when the turn was sent, or the sender's operations met others           *)
(* (session.py, on_event: a finishing session that is resumed stays        *)
(* finishing, and a child that is being closed still counts as running).   *)
Interrupted(k) == \E c \in Conns : At(c, "restart") /\ pc[c].kid = k

TurnKept ==
  [][\A k \in DOMAIN kid :
       kid[k].sender \in owned \ mixed /\ kid[k].closing /\ ~Interrupted(k) /\ ~kid'[k].runs
         => k \in risky]_vars

(* When every client has left, or is leaving, the session is reaped and no *)
(* child of it goes on, whether or not its turn ends.  The exceptions: the *)
(* children of NoLeak, and a session that was registered when its options  *)
(* were refused or its spawn broke, which stays for good, with the child   *)
(* that a turn of somebody with a stale id has given it (daemon.py,        *)
(* _handle_open; session.py, reap_idle).                                   *)
CleanedUp ==
  (\A c \in Conns : pc[c].at \in {"detach", "gone"}) ~>
    /\ table = 0 \/ table \in stranded
    /\ \A k \in DOMAIN kid : kid[k].runs =>
         k \in crossed \/ (table \in stranded /\ obj[table].backend = k)
=============================================================================
