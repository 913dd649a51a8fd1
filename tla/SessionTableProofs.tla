------------------------- MODULE SessionTableProofs -------------------------
(***************************************************************************)
(* Proofs about SessionTable, for any number of connections and whatever   *)
(* the bounds: its types, that a connection which may drive the session is *)
(* the one its events go to, that no child is left running, and that no    *)
(* turn of an owner is cut short.                                          *)
(***************************************************************************)
EXTENDS SessionTable, TLAPS, SequenceTheorems

-----------------------------------------------------------------------------
(* What a step does to the objects, the children and the processes.        *)

OnlyObject(o) ==
  /\ obj' \in Seq(Object) /\ Len(obj') = Len(obj) /\ DOMAIN obj' = DOMAIN obj
  /\ \A i \in DOMAIN obj \ {o} : obj'[i] = obj[i]

OnlyChild(k) ==
  /\ kid' \in Seq(Backend) /\ Len(kid') = Len(kid) /\ DOMAIN kid' = DOMAIN kid
  /\ \A i \in DOMAIN kid \ {k} : kid'[i] = kid[i]

OnlyProcess(p) ==
  /\ pc' \in [Procs -> Place]
  /\ \A q \in Procs \ {p} : pc'[q] = pc[q]

NewObject ==
  /\ obj' \in Seq(Object) /\ Len(obj') = Len(obj) + 1
  /\ DOMAIN obj' = DOMAIN obj \cup {Len(obj) + 1}
  /\ \A i \in DOMAIN obj : obj'[i] = obj[i]
  /\ obj'[Len(obj) + 1] = NewSession

NewChild(o) ==
  /\ kid' \in Seq(Backend) /\ Len(kid') = Len(kid) + 1
  /\ DOMAIN kid' = DOMAIN kid \cup {Len(kid) + 1}
  /\ \A i \in DOMAIN kid : kid'[i] = kid[i]
  /\ kid'[Len(kid) + 1] = NewBackend(o)

LEMMA Overwritten ==
  ASSUME NEW S, NEW s \in Seq(S), NEW t \in [DOMAIN s -> S]
  PROVE  t \in Seq(S) /\ Len(t) = Len(s) /\ DOMAIN t = DOMAIN s
<1>1. DOMAIN s = 1 .. Len(s) /\ Len(s) \in Nat
  BY LenProperties
<1>2. t \in Seq(S)
  BY <1>1, SeqDef
<1>3. DOMAIN t = 1 .. Len(t) /\ Len(t) \in Nat
  BY <1>2, LenProperties
<1>. QED  BY <1>1, <1>2, <1>3

LEMMA Indices ==
  ASSUME TypeOK
  PROVE  /\ Len(obj) \in Nat /\ DOMAIN obj = 1 .. Len(obj) /\ obj \in [DOMAIN obj -> Object]
         /\ Len(kid) \in Nat /\ DOMAIN kid = 1 .. Len(kid) /\ kid \in [DOMAIN kid -> Backend]
         /\ \A o \in DOMAIN obj :
              obj[o] \in Object /\ (obj[o].backend # 0 => obj[o].backend \in DOMAIN kid)
         /\ \A k \in DOMAIN kid : kid[k] \in Backend
         /\ \A p \in Procs : pc[p] \in Place
         /\ table # 0 => table \in DOMAIN obj
<1>1. /\ Len(obj) \in Nat /\ DOMAIN obj = 1 .. Len(obj) /\ obj \in [DOMAIN obj -> Object]
      /\ Len(kid) \in Nat /\ DOMAIN kid = 1 .. Len(kid) /\ kid \in [DOMAIN kid -> Backend]
  BY LenProperties DEF TypeOK, ObjectType, ChildType
<1>2. \A o \in DOMAIN obj :
        obj[o] \in Object /\ (obj[o].backend # 0 => obj[o].backend \in DOMAIN kid)
  BY <1>1 DEF TypeOK, ObjectType, Object
<1>3. \A k \in DOMAIN kid : kid[k] \in Backend
  BY <1>1
<1>4. \A p \in Procs : pc[p] \in Place
  BY DEF TypeOK, PlaceType
<1>5. table # 0 => table \in DOMAIN obj
  BY <1>1 DEF TypeOK
<1>. QED  BY <1>1, <1>2, <1>3, <1>4, <1>5

LEMMA Typed ==
  ASSUME TypeOK
  PROVE  obj \in [DOMAIN obj -> Object] /\ kid \in [DOMAIN kid -> Backend]
BY Indices

LEMMA Dated ==
  ASSUME TypeOK, NEW o \in DOMAIN obj
  PROVE  /\ obj[o] \in Object /\ obj[o].backend \in Nat /\ obj[o].backend <= Len(kid)
         /\ ~(obj[o].detached /\ obj[o].owner # None)
<1>1. obj[o] \in Object
  BY Indices
<1>. QED  BY <1>1 DEF TypeOK, ObjectType, Object

(* The object and the child that a process holds are there.                *)
LEMMA Holds ==
  ASSUME TypeOK, NEW p \in Procs
  PROVE  /\ pc[p].at \in {"told", "spawn", "own", "respawn", "restart", "detach"} => pc[p].obj \in DOMAIN obj
         /\ pc[p].at \in {"spawn", "respawn", "restart", "close", "detach"} <=> pc[p].kid \in DOMAIN kid
BY Indices DEF TypeOK, PlaceType, Place

LEMMA GoesStep ==
  ASSUME TypeOK, NEW p \in Procs, NEW o \in Nat, NEW k \in Nat,
         NEW label \in {"told", "spawn", "own", "close", "farewell", "respawn",
                        "restart", "detach", "expired"},
         Goes(p, label, o, k)
  PROVE  OnlyProcess(p) /\ pc'[p] = [at |-> label, obj |-> o, kid |-> k]
BY DEF TypeOK, PlaceType, Place, Goes, OnlyProcess

LEMMA ReturnsStep ==
  ASSUME TypeOK, NEW p \in Procs, Returns(p)
  PROVE  OnlyProcess(p) /\ pc'[p] = IF pc[p].at = "detach" THEN Gone ELSE Rest
BY DEF TypeOK, PlaceType, Place, Returns, Rest, Gone, OnlyProcess

LEMMA KillStep ==
  ASSUME TypeOK, NEW k \in DOMAIN kid, Kill(k)
  PROVE  OnlyChild(k) /\ kid'[k] = [kid[k] EXCEPT !.closing = TRUE]
<1>1. /\ kid' \in [DOMAIN kid -> Backend]
      /\ kid'[k] = [kid[k] EXCEPT !.closing = TRUE]
      /\ \A i \in DOMAIN kid \ {k} : kid'[i] = kid[i]
  BY Typed DEF Kill, Backend
<1>. QED  BY <1>1, Overwritten DEF OnlyChild, TypeOK, ChildType

LEMMA RemoveStep ==
  ASSUME TypeOK, NEW p \in Procs, Remove(p)
  PROVE  /\ table' = 0 /\ OnlyProcess(p)
         /\ \/ LET k == obj[table].backend IN
               /\ table # 0 /\ Serves(table) /\ k \in DOMAIN kid
               /\ OnlyChild(k) /\ kid'[k] = [kid[k] EXCEPT !.closing = TRUE]
               /\ pc'[p] = [at |-> "close", obj |-> 0, kid |-> k]
            \/ /\ ~(table # 0 /\ Serves(table)) /\ UNCHANGED kid
               /\ pc'[p] = IF pc[p].at = "detach" THEN Gone ELSE Rest
<1>1. CASE table # 0 /\ Serves(table)
  <2>. DEFINE k == obj[table].backend
  <2>1. k \in DOMAIN kid /\ k \in Nat
    BY <1>1, Indices DEF Serves, Running, Object
  <2>2. Kill(k) /\ Goes(p, "close", 0, k) /\ table' = 0
    BY <1>1 DEF Remove
  <2>. HIDE DEF k
  <2>3. OnlyProcess(p) /\ pc'[p] = [at |-> "close", obj |-> 0, kid |-> k]
    BY <2>1, <2>2, GoesStep
  <2>4. OnlyChild(k) /\ kid'[k] = [kid[k] EXCEPT !.closing = TRUE]
    BY <2>1, <2>2, KillStep
  <2>. QED  BY <1>1, <2>1, <2>2, <2>3, <2>4 DEF k
<1>2. CASE ~(table # 0 /\ Serves(table))
  <2>1. table' = 0 /\ Returns(p) /\ UNCHANGED kid
    BY <1>2 DEF Remove
  <2>. QED  BY <1>2, <2>1, ReturnsStep
<1>. QED  BY <1>1, <1>2

LEMMA NewChildStep ==
  ASSUME TypeOK, NEW o \in Nat, kid' = Append(kid, NewBackend(o))
  PROVE  NewChild(o)
<1>1. NewBackend(o) \in Backend
  BY DEF NewBackend, Backend
<1>. QED  BY <1>1, Indices, AppendProperties, LenProperties DEF NewChild, TypeOK, ChildType

(* The three ways of an open that has found object o.                      *)
LEMMA OpenStep ==
  ASSUME TypeOK, NEW c \in Conns, NEW o \in Nat, NEW objs, OpenWith(c, o, objs)
  PROVE  /\ obj' = objs /\ OnlyProcess(c)
         /\ \/ /\ Running(objs[o].backend)
               /\ owned' = owned \cup {c} /\ UNCHANGED <<kid, stranded>>
               /\ pc'[c] = [at |-> "own", obj |-> o, kid |-> 0]
            \/ /\ ~Running(objs[o].backend) /\ Len(kid) < MaxKids
               /\ NewChild(o) /\ UNCHANGED <<owned, stranded>>
               /\ pc'[c] = [at |-> "spawn", obj |-> o, kid |-> Len(kid) + 1]
            \/ /\ ~Running(objs[o].backend)
               /\ stranded' \subseteq stranded \cup {o} /\ UNCHANGED <<kid, owned>>
               /\ pc'[c] = Rest
<1>. c \in Procs /\ 0 \in Nat /\ Len(kid) + 1 \in Nat
  BY Indices DEF Procs
<1>1. CASE Running(objs[o].backend) /\ owned' = owned \cup {c}
           /\ Goes(c, "own", o, 0) /\ UNCHANGED <<kid, stranded>>
  BY <1>1, GoesStep DEF OpenWith
<1>2. CASE ~Running(objs[o].backend) /\ Len(kid) < MaxKids
           /\ kid' = Append(kid, NewBackend(o)) /\ Goes(c, "spawn", o, Len(kid) + 1)
           /\ UNCHANGED <<owned, stranded>>
  BY <1>2, GoesStep, NewChildStep DEF OpenWith
<1>3. CASE /\ ~Running(objs[o].backend)
           /\ stranded' = IF objs[o] = NewSession THEN stranded \cup {o} ELSE stranded
           /\ pc' = [pc EXCEPT ![c] = Rest] /\ UNCHANGED <<kid, owned>>
  <2>1. OnlyProcess(c) /\ pc'[c] = Rest
    BY <1>3 DEF OnlyProcess, TypeOK, PlaceType, Place, Rest
  <2>. QED  BY <1>3, <2>1 DEF OpenWith
<1>. QED  BY <1>1, <1>2, <1>3 DEF OpenWith

(* The steps that change a field or more of one object or child.           *)
LEMMA SpawnedStep ==
  ASSUME TypeOK, NEW c \in Conns, Spawned(c)
  PROVE  LET k == pc[c].kid  o == pc[c].obj IN
         /\ k \in DOMAIN kid /\ OnlyChild(k) /\ kid'[k] = [kid[k] EXCEPT !.runs = TRUE]
         /\ o \in DOMAIN obj /\ OnlyObject(o) /\ obj'[o] = [obj[o] EXCEPT !.backend = k]
         /\ OnlyProcess(c) /\ pc'[c] = [at |-> "own", obj |-> o, kid |-> 0]
<1>. DEFINE k == pc[c].kid  o == pc[c].obj
<1>1. k \in DOMAIN kid /\ o \in DOMAIN obj /\ k \in Nat /\ o \in Nat /\ 0 \in Nat /\ c \in Procs
  BY Holds, Indices DEF Spawned, At, Procs
<1>2. kid' = [kid EXCEPT ![k].runs = TRUE] /\ obj' = [obj EXCEPT ![o].backend = k]
      /\ Goes(c, "own", o, 0)
  BY DEF Spawned
<1>. HIDE DEF k, o
<1>3. /\ kid' \in [DOMAIN kid -> Backend] /\ kid'[k] = [kid[k] EXCEPT !.runs = TRUE]
      /\ \A i \in DOMAIN kid \ {k} : kid'[i] = kid[i]
  BY <1>1, <1>2, Indices DEF Backend
<1>4. /\ obj' \in [DOMAIN obj -> Object] /\ obj'[o] = [obj[o] EXCEPT !.backend = k]
      /\ \A i \in DOMAIN obj \ {o} : obj'[i] = obj[i]
  BY <1>1, <1>2, Indices DEF Object
<1>5. OnlyProcess(c) /\ pc'[c] = [at |-> "own", obj |-> o, kid |-> 0]
  BY <1>1, <1>2, GoesStep
<1>6. OnlyChild(k) /\ OnlyObject(o)
  BY <1>3, <1>4, Overwritten DEF OnlyChild, OnlyObject, TypeOK, ObjectType, ChildType
<1>. QED  BY <1>1, <1>3, <1>4, <1>5, <1>6 DEF k, o

LEMMA AttachStep ==
  ASSUME TypeOK, NEW c \in Conns, Attach(c)
  PROVE  LET o == pc[c].obj IN
         /\ o \in DOMAIN obj /\ OnlyObject(o)
         /\ obj'[o] = [obj[o] EXCEPT !.owner = c, !.detached = FALSE]
         /\ OnlyProcess(c) /\ pc'[c] = Rest
<1>. DEFINE o == pc[c].obj
<1>1. o \in DOMAIN obj /\ c \in Procs /\ pc[c].at # "detach"
  BY Holds, Indices DEF Attach, At, Procs
<1>2. obj' = [obj EXCEPT ![o].owner = c, ![o].detached = FALSE] /\ Returns(c)
  BY DEF Attach
<1>. HIDE DEF o
<1>3. /\ obj' \in [DOMAIN obj -> Object]
      /\ obj'[o] = [obj[o] EXCEPT !.owner = c, !.detached = FALSE]
      /\ \A i \in DOMAIN obj \ {o} : obj'[i] = obj[i]
  BY <1>1, <1>2, Indices DEF Object
<1>4. OnlyProcess(c) /\ pc'[c] = Rest
  BY <1>1, <1>2, ReturnsStep
<1>5. OnlyObject(o)
  BY <1>3, Overwritten DEF OnlyObject, TypeOK, ObjectType
<1>. QED  BY <1>1, <1>3, <1>4, <1>5 DEF o

LEMMA RespawnedStep ==
  ASSUME TypeOK, NEW c \in Conns, Respawned(c)
  PROVE  LET k == pc[c].kid  o == pc[c].obj IN
         /\ k \in DOMAIN kid /\ OnlyChild(k)
         /\ kid'[k] = [kid[k] EXCEPT !.runs = TRUE, !.sender = c]
         /\ o \in DOMAIN obj /\ OnlyObject(o) /\ obj'[o] = [obj[o] EXCEPT !.backend = k]
         /\ OnlyProcess(c) /\ pc'[c] = Rest
<1>. DEFINE k == pc[c].kid  o == pc[c].obj
<1>1. k \in DOMAIN kid /\ o \in DOMAIN obj /\ k \in Nat /\ c \in Procs /\ pc[c].at # "detach"
  BY Holds, Indices DEF Respawned, At, Procs
<1>2. /\ kid' = [kid EXCEPT ![k].runs = TRUE, ![k].sender = c]
      /\ obj' = [obj EXCEPT ![o].backend = k] /\ Returns(c)
  BY DEF Respawned
<1>. HIDE DEF k, o
<1>3. /\ kid' \in [DOMAIN kid -> Backend]
      /\ kid'[k] = [kid[k] EXCEPT !.runs = TRUE, !.sender = c]
      /\ \A i \in DOMAIN kid \ {k} : kid'[i] = kid[i]
  BY <1>1, <1>2, Indices DEF Backend
<1>4. /\ obj' \in [DOMAIN obj -> Object] /\ obj'[o] = [obj[o] EXCEPT !.backend = k]
      /\ \A i \in DOMAIN obj \ {o} : obj'[i] = obj[i]
  BY <1>1, <1>2, Indices DEF Object
<1>5. OnlyProcess(c) /\ pc'[c] = Rest
  BY <1>1, <1>2, ReturnsStep
<1>6. OnlyChild(k) /\ OnlyObject(o)
  BY <1>3, <1>4, Overwritten DEF OnlyChild, OnlyObject, TypeOK, ObjectType, ChildType
<1>. QED  BY <1>1, <1>3, <1>4, <1>5, <1>6 DEF k, o

LEMMA SendStep ==
  ASSUME TypeOK, NEW c \in Conns, NEW k \in DOMAIN kid, Send(c, k)
  PROVE  OnlyChild(k) /\ kid'[k] = [kid[k] EXCEPT !.sender = c]
<1>1. /\ kid' \in [DOMAIN kid -> Backend] /\ kid'[k] = [kid[k] EXCEPT !.sender = c]
      /\ \A i \in DOMAIN kid \ {k} : kid'[i] = kid[i]
  BY Typed DEF Send, Backend
<1>. QED  BY <1>1, Overwritten DEF OnlyChild, TypeOK, ChildType

LEMMA RespawnsStep ==
  ASSUME TypeOK, NEW c \in Conns, UserRespawns(c)
  PROVE  /\ table \in DOMAIN obj /\ NewChild(table) /\ OnlyProcess(c)
         /\ pc'[c] = [at |-> "respawn", obj |-> table, kid |-> Len(kid) + 1]
<1>1. table \in DOMAIN obj /\ table \in Nat /\ Len(kid) + 1 \in Nat /\ c \in Procs
  BY Indices DEF UserRespawns, Procs
<1>. QED  BY <1>1, GoesStep, NewChildStep DEF UserRespawns

LEMMA InterruptStep ==
  ASSUME TypeOK, NEW c \in Conns, Interrupt(c)
  PROVE  LET k == obj[table].backend IN
         /\ table \in DOMAIN obj /\ k \in DOMAIN kid
         /\ OnlyChild(k) /\ kid'[k] = [kid[k] EXCEPT !.closing = TRUE]
         /\ OnlyProcess(c) /\ pc'[c] = [at |-> "restart", obj |-> table, kid |-> k]
<1>. DEFINE k == obj[table].backend
<1>1. table \in DOMAIN obj /\ table \in Nat /\ k \in DOMAIN kid /\ k \in Nat /\ c \in Procs
  BY Indices DEF Interrupt, Serves, Running, Procs
<1>2. Kill(k) /\ Goes(c, "restart", table, k)
  BY DEF Interrupt
<1>. HIDE DEF k
<1>3. OnlyChild(k) /\ kid'[k] = [kid[k] EXCEPT !.closing = TRUE]
  BY <1>1, <1>2, KillStep
<1>4. OnlyProcess(c) /\ pc'[c] = [at |-> "restart", obj |-> table, kid |-> k]
  BY <1>1, <1>2, GoesStep
<1>. QED  BY <1>1, <1>3, <1>4 DEF k

LEMMA RestartedStep ==
  ASSUME TypeOK, NEW c \in Conns, Restarted(c)
  PROVE  LET k == pc[c].kid IN
         /\ OnlyProcess(c) /\ pc'[c] = Rest /\ k \in DOMAIN kid
         /\ \/ /\ OnlyChild(k) /\ kid'[k] = [kid[k] EXCEPT !.runs = TRUE, !.late = TRUE]
               /\ Starts(c, k)
            \/ UNCHANGED <<kid, crossed>>
<1>. DEFINE k == pc[c].kid
<1>1. k \in DOMAIN kid /\ c \in Procs /\ pc[c].at # "detach"
  BY Holds, Indices DEF Restarted, At, Procs
<1>2. OnlyProcess(c) /\ pc'[c] = Rest
  BY <1>1, ReturnsStep DEF Restarted
<1>3. CASE kid' = [kid EXCEPT ![k].runs = TRUE, ![k].late = TRUE] /\ Starts(c, k)
  <2>. HIDE DEF k
  <2>1. /\ kid' \in [DOMAIN kid -> Backend]
        /\ kid'[k] = [kid[k] EXCEPT !.runs = TRUE, !.late = TRUE]
        /\ \A i \in DOMAIN kid \ {k} : kid'[i] = kid[i]
    BY <1>1, <1>3, Typed, ZenonT(30) DEF Backend
  <2>2. OnlyChild(k)
    BY <2>1, Overwritten DEF OnlyChild, TypeOK, ChildType
  <2>. QED  BY <1>1, <1>2, <1>3, <2>1, <2>2 DEF k
<1>. QED  BY <1>1, <1>2, <1>3 DEF Restarted

LEMMA DisconnectStep ==
  ASSUME TypeOK, NEW c \in Conns, Disconnect(c)
  PROVE  LET k == obj[table].backend IN
         /\ OnlyProcess(c)
         /\ \/ /\ table = 0 \/ obj[table].owner # c
               /\ UNCHANGED <<obj, kid, risky>> /\ pc'[c] = Gone
            \/ /\ table \in DOMAIN obj /\ obj[table].owner = c /\ ~Serves(table)
               /\ OnlyObject(table)
               /\ obj'[table] = [obj[table] EXCEPT !.owner = None, !.detached = TRUE, !.backend = 0]
               /\ UNCHANGED <<kid, risky>> /\ pc'[c] = Gone
            \/ /\ table \in DOMAIN obj /\ obj[table].owner = c
               /\ Serves(table) /\ k \in DOMAIN kid /\ kid[k].sender # None
               /\ OnlyObject(table)
               /\ obj'[table] = [obj[table] EXCEPT !.owner = None, !.detached = TRUE, !.finishing = TRUE]
               /\ UNCHANGED kid /\ pc'[c] = Gone
               /\ risky' = IF Unreported(table) THEN risky \cup {k} ELSE risky
            \/ /\ table \in DOMAIN obj /\ obj[table].owner = c
               /\ Serves(table) /\ k \in DOMAIN kid /\ kid[k].sender = None
               /\ OnlyObject(table)
               /\ obj'[table] = [obj[table] EXCEPT !.owner = None, !.detached = TRUE]
               /\ OnlyChild(k) /\ kid'[k] = [kid[k] EXCEPT !.closing = TRUE]
               /\ pc'[c] = [at |-> "detach", obj |-> table, kid |-> k]
               /\ UNCHANGED risky
<1>. DEFINE k == obj[table].backend  s == Unhook(obj[table])
<1>. c \in Procs /\ None \in Conns \cup {None}
  BY DEF Procs
<1>1. pc' = [pc EXCEPT ![c] = Gone] => OnlyProcess(c) /\ pc'[c] = Gone
  BY DEF OnlyProcess, TypeOK, PlaceType, Place, Gone, Rest
<1>2. ASSUME table \in DOMAIN obj, NEW r \in Object, obj' = [obj EXCEPT ![table] = r]
      PROVE  OnlyObject(table) /\ obj'[table] = r
  <2>1. /\ obj' \in [DOMAIN obj -> Object] /\ obj'[table] = r
        /\ \A i \in DOMAIN obj \ {table} : obj'[i] = obj[i]
    BY <1>2, Indices
  <2>. QED  BY <2>1, Overwritten DEF OnlyObject, TypeOK, ObjectType
<1>3. CASE table = 0 \/ obj[table].owner # c
  BY <1>1, <1>3 DEF Disconnect
<1>4. ASSUME table # 0, obj[table].owner = c
      PROVE  /\ table \in DOMAIN obj /\ s \in Object
             /\ s = [obj[table] EXCEPT !.owner = None, !.detached = TRUE]
             /\ [s EXCEPT !.backend = 0]
                  = [obj[table] EXCEPT !.owner = None, !.detached = TRUE, !.backend = 0]
             /\ [s EXCEPT !.backend = 0] \in Object
             /\ [s EXCEPT !.finishing = TRUE]
                  = [obj[table] EXCEPT !.owner = None, !.detached = TRUE, !.finishing = TRUE]
             /\ [s EXCEPT !.finishing = TRUE] \in Object
             /\ s.backend = k
  <2>1. table \in DOMAIN obj /\ obj[table] \in Object
    BY <1>4, Indices
  <2>. QED  BY <2>1 DEF Unhook, Object
<1>5. CASE /\ table # 0 /\ obj[table].owner = c /\ ~Serves(table)
           /\ obj' = [obj EXCEPT ![table] = [s EXCEPT !.backend = 0]]
           /\ UNCHANGED <<kid, risky>> /\ pc' = [pc EXCEPT ![c] = Gone]
  <2>. HIDE DEF s, k
  <2>. QED  BY <1>1, <1>2, <1>4, <1>5
<1>6. CASE /\ table # 0 /\ obj[table].owner = c /\ Serves(table) /\ kid[k].sender # None
           /\ obj' = [obj EXCEPT ![table] = [s EXCEPT !.finishing = TRUE]]
           /\ UNCHANGED kid /\ pc' = [pc EXCEPT ![c] = Gone]
           /\ risky' = IF Unreported(table) THEN risky \cup {k} ELSE risky
  <2>1. k \in DOMAIN kid
    BY <1>6, Indices DEF Serves, Running
  <2>. HIDE DEF s
  <2>. QED  BY <1>1, <1>2, <1>4, <1>6, <2>1
<1>7. CASE /\ table # 0 /\ obj[table].owner = c /\ Serves(table) /\ kid[k].sender = None
           /\ obj' = [obj EXCEPT ![table] = s]
           /\ Kill(k) /\ Goes(c, "detach", table, k) /\ UNCHANGED risky
  <2>1. k \in DOMAIN kid /\ k \in Nat /\ table \in Nat
    BY <1>4, <1>7, Indices DEF Serves, Running
  <2>. HIDE DEF s, k
  <2>2. OnlyChild(k) /\ kid'[k] = [kid[k] EXCEPT !.closing = TRUE]
    BY <1>7, <2>1, KillStep
  <2>3. OnlyProcess(c) /\ pc'[c] = [at |-> "detach", obj |-> table, kid |-> k]
    BY <1>7, <2>1, GoesStep
  <2>4. OnlyObject(table) /\ obj'[table] = s
    BY <1>2, <1>4, <1>7
  <2>. QED  BY <1>4, <1>7, <2>1, <2>2, <2>3, <2>4 DEF k
<1>8. \/ table = 0 \/ obj[table].owner # c
      \/ /\ table # 0 /\ obj[table].owner = c /\ ~Serves(table)
         /\ obj' = [obj EXCEPT ![table] = [s EXCEPT !.backend = 0]]
         /\ UNCHANGED <<kid, risky>> /\ pc' = [pc EXCEPT ![c] = Gone]
      \/ /\ table # 0 /\ obj[table].owner = c /\ Serves(table) /\ kid[k].sender # None
         /\ obj' = [obj EXCEPT ![table] = [s EXCEPT !.finishing = TRUE]]
         /\ UNCHANGED kid /\ pc' = [pc EXCEPT ![c] = Gone]
         /\ risky' = IF Unreported(table) THEN risky \cup {k} ELSE risky
      \/ /\ table # 0 /\ obj[table].owner = c /\ Serves(table) /\ kid[k].sender = None
         /\ obj' = [obj EXCEPT ![table] = s]
         /\ Kill(k) /\ Goes(c, "detach", table, k) /\ UNCHANGED risky
  <2>1. table # 0 /\ obj[table].owner = c => s.backend = k
    BY <1>4
  <2>. HIDE DEF s, k
  <2>. QED  BY <2>1 DEF Disconnect, s, k
<1>. QED  BY <1>3, <1>5, <1>6, <1>7, <1>8

LEMMA DetachedStep ==
  ASSUME TypeOK, NEW c \in Conns, Detached(c)
  PROVE  LET o == pc[c].obj IN
         /\ o \in DOMAIN obj /\ OnlyObject(o) /\ obj'[o] = [obj[o] EXCEPT !.backend = 0]
         /\ OnlyProcess(c) /\ pc'[c] = Gone
<1>. DEFINE o == pc[c].obj
<1>1. o \in DOMAIN obj /\ c \in Procs /\ pc[c].at = "detach"
  BY Holds DEF Detached, At, Procs
<1>2. obj' = [obj EXCEPT ![o].backend = 0] /\ Returns(c)
  BY DEF Detached
<1>. HIDE DEF o
<1>3. /\ obj' \in [DOMAIN obj -> Object] /\ obj'[o] = [obj[o] EXCEPT !.backend = 0]
      /\ \A i \in DOMAIN obj \ {o} : obj'[i] = obj[i]
  BY <1>1, <1>2, Indices DEF Object
<1>4. OnlyProcess(c) /\ pc'[c] = Gone
  BY <1>1, <1>2, ReturnsStep
<1>5. OnlyObject(o)
  BY <1>3, Overwritten DEF OnlyObject, TypeOK, ObjectType
<1>. QED  BY <1>1, <1>3, <1>4, <1>5 DEF o

LEMMA ResultStep ==
  ASSUME TypeOK, NEW k \in DOMAIN kid, Result(k)
  PROVE  OnlyChild(k) /\ kid'[k] = [kid[k] EXCEPT !.sender = None, !.late = TRUE]
<1>1. /\ kid' \in [DOMAIN kid -> Backend]
      /\ kid'[k] = [kid[k] EXCEPT !.sender = None, !.late = TRUE]
      /\ \A i \in DOMAIN kid \ {k} : kid'[i] = kid[i]
  BY Indices DEF Result, Backend
<1>. QED  BY <1>1, Overwritten DEF OnlyChild, TypeOK, ChildType

LEMMA ResultOverStep ==
  ASSUME TypeOK, NEW k \in DOMAIN kid, ResultOver(k)
  PROVE  LET o == kid[k].of  b == obj[o].backend IN
         /\ o \in DOMAIN obj /\ (b # 0 => b \in DOMAIN kid)
         /\ OnlyObject(o) /\ obj'[o] = [obj[o] EXCEPT !.finishing = FALSE]
         /\ kid' \in Seq(Backend) /\ Len(kid') = Len(kid) /\ DOMAIN kid' = DOMAIN kid
         /\ \A i \in DOMAIN kid :
              /\ kid'[i].of = kid[i].of /\ kid'[i].runs = kid[i].runs
              /\ kid'[i].closing = kid[i].closing /\ kid'[i].sender = kid[i].sender
              /\ kid'[i].late => kid[i].late
              /\ kid[i].doomed => kid'[i].doomed
              /\ kid'[i].doomed => kid[i].doomed \/ (obj[o].finishing /\ b # 0 /\ i = b)
<1>. DEFINE o == kid[k].of  b == obj[o].backend  dooms == obj[o].finishing /\ b # 0
            over == [kid EXCEPT ![k].late = FALSE]
            doomed == [over EXCEPT ![b].doomed = TRUE]
<1>1. o \in DOMAIN obj /\ (b # 0 => b \in DOMAIN kid)
  BY Indices DEF TypeOK, ChildType
<1>2. /\ kid' = IF dooms THEN doomed ELSE over
      /\ obj' = [obj EXCEPT ![o].finishing = FALSE]
  BY DEF ResultOver
<1>3. /\ over \in [DOMAIN kid -> Backend]
      /\ \A i \in DOMAIN kid :
           /\ over[i].of = kid[i].of /\ over[i].runs = kid[i].runs
           /\ over[i].closing = kid[i].closing /\ over[i].sender = kid[i].sender
           /\ over[i].late => kid[i].late
           /\ over[i].doomed = kid[i].doomed
  BY Indices DEF Backend
<1>. HIDE DEF over
<1>4. ASSUME dooms
      PROVE  /\ doomed \in [DOMAIN kid -> Backend]
             /\ \A i \in DOMAIN kid :
                  /\ doomed[i].of = over[i].of /\ doomed[i].runs = over[i].runs
                  /\ doomed[i].closing = over[i].closing /\ doomed[i].sender = over[i].sender
                  /\ doomed[i].late = over[i].late
                  /\ over[i].doomed => doomed[i].doomed
                  /\ doomed[i].doomed => over[i].doomed \/ i = b
  <2>1. b \in DOMAIN kid
    BY <1>1, <1>4
  <2>. HIDE DEF b
  <2>2. /\ doomed \in [DOMAIN kid -> Backend]
        /\ \A i \in DOMAIN kid \ {b} : doomed[i] = over[i]
    <3>. DEFINE x == [over[b] EXCEPT !.doomed = TRUE]
    <3>1. x \in Backend
      BY <1>3, <2>1, ZenonT(30) DEF Backend
    <3>2. doomed = [over EXCEPT ![b] = x]
      OBVIOUS
    <3>. HIDE DEF x, doomed
    <3>. QED  BY <1>3, <2>1, <3>1, <3>2
  <2>3. /\ doomed[b].of = over[b].of /\ doomed[b].runs = over[b].runs
        /\ doomed[b].closing = over[b].closing /\ doomed[b].sender = over[b].sender
        /\ doomed[b].late = over[b].late /\ doomed[b].doomed
    BY <1>3, <2>1 DEF Backend
  <2>. QED  BY <2>2, <2>3
<1>. HIDE DEF doomed
<1>5. /\ kid' \in Seq(Backend) /\ Len(kid') = Len(kid) /\ DOMAIN kid' = DOMAIN kid
  BY <1>2, <1>3, <1>4, Overwritten DEF TypeOK, ChildType
<1>6. \A i \in DOMAIN kid :
        /\ kid'[i].of = kid[i].of /\ kid'[i].runs = kid[i].runs
        /\ kid'[i].closing = kid[i].closing /\ kid'[i].sender = kid[i].sender
        /\ kid'[i].late => kid[i].late
        /\ kid[i].doomed => kid'[i].doomed
        /\ kid'[i].doomed => kid[i].doomed \/ (dooms /\ i = b)
  BY <1>2, <1>3, <1>4
<1>7. /\ obj' \in [DOMAIN obj -> Object] /\ obj'[o] = [obj[o] EXCEPT !.finishing = FALSE]
      /\ \A i \in DOMAIN obj \ {o} : obj'[i] = obj[i]
  <2>. HIDE DEF o
  <2>. QED  BY <1>1, <1>2, Indices DEF Object
<1>8. OnlyObject(o)
  BY <1>7, Overwritten DEF OnlyObject, TypeOK, ObjectType
<1>. QED  BY <1>1, <1>5, <1>6, <1>7, <1>8

LEMMA SoftKillStep ==
  ASSUME TypeOK, NEW k \in DOMAIN kid, SoftKill(k)
  PROVE  OnlyChild(k) /\ kid'[k] = [kid[k] EXCEPT !.doomed = FALSE, !.closing = kid[k].runs]
<1>. DEFINE x == [kid[k] EXCEPT !.doomed = FALSE, !.closing = kid[k].runs]
<1>0. kid \in [DOMAIN kid -> Backend] /\ x \in Backend
  BY Typed DEF Backend
<1>1. kid' \in [DOMAIN kid -> Backend] /\ kid'[k] = x
      /\ \A i \in DOMAIN kid \ {k} : kid'[i] = kid[i]
  BY <1>0, Typed DEF SoftKill, Backend
<1>. QED  BY <1>1, Overwritten DEF OnlyChild, TypeOK, ChildType

LEMMA StopsStep ==
  ASSUME TypeOK, NEW k \in DOMAIN kid, NEW late \in BOOLEAN, Stops(k, late)
  PROVE  /\ OnlyChild(k)
         /\ kid'[k] = [kid[k] EXCEPT !.runs = FALSE, !.closing = FALSE,
                                     !.sender = None, !.late = late]
<1>1. /\ kid' \in [DOMAIN kid -> Backend]
      /\ kid'[k] = [kid[k] EXCEPT !.runs = FALSE, !.closing = FALSE,
                                  !.sender = None, !.late = late]
      /\ \A i \in DOMAIN kid \ {k} : kid'[i] = kid[i]
  <2>1. \A i \in DOMAIN kid \ {k} : kid'[i] = kid[i]
    BY Indices DEF Stops
  <2>2. kid'[k] = [kid[k] EXCEPT !.runs = FALSE, !.closing = FALSE,
                                 !.sender = None, !.late = late]
    BY Indices DEF Stops
  <2>3. kid'[k] \in Backend
    BY <2>2, Indices DEF Backend
  <2>4. kid' = [i \in DOMAIN kid |-> kid'[i]]
    BY Indices DEF Stops
  <2>5. kid' \in [DOMAIN kid -> Backend]
    BY <2>1, <2>3, <2>4, Indices
  <2>. QED  BY <2>1, <2>2, <2>5
<1>. QED  BY <1>1, Overwritten DEF OnlyChild, TypeOK, ChildType

(* A child ends by itself or is ended, and may leave its result behind.    *)
LEMMA EndsStep ==
  ASSUME TypeOK, NEW k \in DOMAIN kid, Dies(k) \/ Exits(k)
  PROVE  \E late \in BOOLEAN :
           /\ late => kid[k].late \/ kid[k].sender # None
           /\ Stops(k, late) /\ OnlyChild(k)
           /\ kid'[k] = [kid[k] EXCEPT !.runs = FALSE, !.closing = FALSE,
                                       !.sender = None, !.late = late]
<1>1. kid[k].late \in BOOLEAN
  BY Indices DEF Backend
<1>2. CASE Dies(k)
  BY <1>2, StopsStep DEF Dies
<1>3. CASE Exits(k)
  BY <1>1, <1>3, StopsStep DEF Exits
<1>. QED  BY <1>2, <1>3

-----------------------------------------------------------------------------
(* Type correctness.                                                       *)

Grows == Len(obj) <= Len(obj') /\ Len(kid) <= Len(kid')

LEMMA ObjectsTyped ==
  ASSUME TypeOK, Grows, Len(obj') \in Nat, Len(kid') \in Nat
  PROVE  /\ UNCHANGED obj => ObjectType'
         /\ \A o \in DOMAIN obj :
              OnlyObject(o) /\ obj'[o].backend <= Len(kid')
              /\ ~(obj'[o].detached /\ obj'[o].owner # None) => ObjectType'
         /\ NewObject => ObjectType'
<1>1. \A o \in DOMAIN obj : obj[o].backend <= Len(kid')
  BY Indices DEF TypeOK, ObjectType, Grows, Object
<1>2. UNCHANGED obj => ObjectType'
  BY <1>1 DEF TypeOK, ObjectType
<1>3. ASSUME NEW o \in DOMAIN obj, OnlyObject(o), obj'[o].backend <= Len(kid'),
             ~(obj'[o].detached /\ obj'[o].owner # None)
      PROVE  ObjectType'
  BY <1>1, <1>3 DEF TypeOK, ObjectType, OnlyObject
<1>4. NewObject => ObjectType'
  BY <1>1 DEF TypeOK, ObjectType, NewObject, NewSession
<1>. QED  BY <1>2, <1>3, <1>4

LEMMA ChildrenTyped ==
  ASSUME TypeOK, Grows, Len(obj') \in Nat, DOMAIN obj' = 1 .. Len(obj')
  PROVE  /\ UNCHANGED kid => ChildType'
         /\ \A k \in DOMAIN kid :
              OnlyChild(k) /\ kid'[k].of = kid[k].of
              /\ (~kid'[k].runs => kid'[k].sender = None /\ ~kid'[k].closing) => ChildType'
         /\ \A o \in DOMAIN obj' : NewChild(o) => ChildType'
<1>1. \A k \in DOMAIN kid : kid[k].of \in DOMAIN obj'
  BY Indices DEF TypeOK, ChildType, Grows
<1>2. UNCHANGED kid => ChildType'
  BY <1>1 DEF TypeOK, ChildType
<1>3. ASSUME NEW k \in DOMAIN kid, OnlyChild(k), kid'[k].of = kid[k].of,
             ~kid'[k].runs => kid'[k].sender = None /\ ~kid'[k].closing
      PROVE  ChildType'
  BY <1>1, <1>3 DEF TypeOK, ChildType, OnlyChild
<1>4. ASSUME NEW o \in DOMAIN obj', NewChild(o)
      PROVE  ChildType'
  BY <1>1, <1>4 DEF TypeOK, ChildType, NewChild, NewBackend
<1>. QED  BY <1>2, <1>3, <1>4

LEMMA PlacesTyped ==
  ASSUME TypeOK, Grows, Len(obj') \in Nat, Len(kid') \in Nat
  PROVE  /\ UNCHANGED pc => PlaceType'
         /\ \A p \in Procs :
              /\ OnlyProcess(p) /\ pc'[p].obj <= Len(obj') /\ pc'[p].kid <= Len(kid')
              /\ pc'[p].at \in {"told", "spawn", "own", "respawn", "restart", "detach"} => pc'[p].obj # 0
              /\ pc'[p].at \in {"spawn", "respawn", "restart", "close", "detach"} <=> pc'[p].kid # 0
              => PlaceType'
<1>1. \A p \in Procs : pc[p].obj <= Len(obj') /\ pc[p].kid <= Len(kid')
  BY Indices DEF TypeOK, PlaceType, Grows, Place
<1>2. UNCHANGED pc => PlaceType'
  BY <1>1 DEF TypeOK, PlaceType
<1>3. ASSUME NEW p \in Procs, OnlyProcess(p),
             pc'[p].obj <= Len(obj'), pc'[p].kid <= Len(kid'),
             pc'[p].at \in {"told", "spawn", "own", "respawn", "restart", "detach"} => pc'[p].obj # 0,
             pc'[p].at \in {"spawn", "respawn", "restart", "close", "detach"} <=> pc'[p].kid # 0
      PROVE  PlaceType'
  BY <1>1, <1>3 DEF TypeOK, PlaceType, OnlyProcess
<1>. QED  BY <1>2, <1>3

LEMMA HistoryTyped ==
  ASSUME TypeOK, met' \subseteq Procs, mixed' \subseteq Conns,
         stranded' \subseteq DOMAIN obj'
  PROVE  /\ UNCHANGED <<kid, crossed, risky>> => HistoryType'
         /\ \A o : NewChild(o) /\ UNCHANGED <<crossed, risky>> => HistoryType'
         /\ \A k \in DOMAIN kid :
              /\ OnlyChild(k) /\ crossed' \ {k} \subseteq crossed /\ risky' \ {k} \subseteq risky
              /\ k \in crossed' => kid'[k].runs
              /\ k \in risky' => kid'[k].sender # None
              => HistoryType'
BY DEF TypeOK, HistoryType, OnlyChild, NewChild

LEMMA BeginTyped ==
  ASSUME HistoryType, NEW p \in Procs
  PROVE  (Begin(p) \/ (p \in Conns /\ BeginOpen(p))) => met' \subseteq Procs /\ mixed' \subseteq Conns
BY DEF HistoryType, Begin, BeginOpen, Meets, Busy

LEMMA OpenNewType ==
  ASSUME TypeOK, NEW c \in Conns, OpenNew(c)
  PROVE  TypeOK'
<1>. DEFINE objs == Append(obj, NewSession)  n == Len(obj) + 1
<1>1. /\ table' = n /\ n \in Nat /\ n <= MaxObjs
      /\ OpenWith(c, n, objs) /\ BeginOpen(c) /\ UNCHANGED <<crossed, risky>>
  BY Indices, TableAssumption DEF OpenNew
<1>2. obj' = objs => NewObject
  <2>1. NewSession \in Object
    BY DEF NewSession, Object
  <2>. QED  BY <2>1, Indices, AppendProperties, LenProperties DEF NewObject, TypeOK, ObjectType
<1>. HIDE DEF objs, n
<1>3. NewObject /\ DOMAIN obj' = 1 .. Len(obj') /\ Len(obj') = n /\ obj' = objs
  BY <1>1, <1>2, OpenStep, LenProperties DEF NewObject, n
<1>4. ~Running(objs[n].backend)
  BY <1>3 DEF NewObject, NewSession, Running, n
<1>5. OnlyProcess(c) /\ (\/ NewChild(n) /\ Len(kid) < MaxKids /\ UNCHANGED <<owned, stranded>>
                            /\ pc'[c] = [at |-> "spawn", obj |-> n, kid |-> Len(kid) + 1]
                         \/ /\ UNCHANGED <<kid, owned>> /\ pc'[c] = Rest
                            /\ stranded' \subseteq stranded \cup {n})
  BY <1>1, <1>4, OpenStep
<1>6. Grows /\ n \in DOMAIN obj' /\ Len(kid') \in Nat /\ Len(kid') <= MaxKids /\ owned' = owned
  BY <1>1, <1>3, <1>5, Indices, TableAssumption DEF Grows, NewChild, TypeOK, n
<1>7. ObjectType'
  BY <1>1, <1>3, <1>6, ObjectsTyped
<1>8. ChildType'
  BY <1>1, <1>3, <1>5, <1>6, ChildrenTyped
<1>9. PlaceType'
  <2>1. c \in Procs /\ n # 0 /\ Len(kid) + 1 # 0 /\ n <= Len(obj') /\ Len(obj') \in Nat
    BY <1>1, <1>3, Indices DEF Procs, n
  <2>2. CASE NewChild(n) /\ pc'[c] = [at |-> "spawn", obj |-> n, kid |-> Len(kid) + 1]
    BY <1>5, <1>6, <2>1, <2>2, PlacesTyped, Indices DEF NewChild
  <2>3. CASE pc'[c] = Rest
    BY <1>5, <1>6, <2>1, <2>3, PlacesTyped DEF Rest
  <2>. QED  BY <1>5, <2>2, <2>3
<1>10. HistoryType'
  <2>1. met' \subseteq Procs /\ mixed' \subseteq Conns
    BY <1>1, BeginTyped DEF TypeOK, Procs
  <2>2. stranded' \subseteq DOMAIN obj'
    BY <1>3, <1>5, <1>6 DEF TypeOK, HistoryType, NewObject
  <2>. QED  BY <1>1, <1>5, <2>1, <2>2, HistoryTyped
<1>. QED  BY <1>1, <1>3, <1>6, <1>7, <1>8, <1>9, <1>10 DEF TypeOK

(* An open that has found an object.                                       *)
LEMMA FoundType ==
  ASSUME TypeOK, NEW c \in Conns, NEW o \in DOMAIN obj, OpenWith(c, o, obj),
         met' \subseteq Procs, mixed' \subseteq Conns, UNCHANGED <<table, crossed, risky>>
  PROVE  TypeOK'
<1>. o \in Nat /\ o # 0 /\ c \in Procs
  BY Indices DEF Procs
<1>1. /\ obj' = obj /\ OnlyProcess(c)
      /\ \/ /\ owned' = owned \cup {c} /\ UNCHANGED <<kid, stranded>>
            /\ pc'[c] = [at |-> "own", obj |-> o, kid |-> 0]
         \/ /\ Len(kid) < MaxKids
            /\ NewChild(o) /\ UNCHANGED <<owned, stranded>>
            /\ pc'[c] = [at |-> "spawn", obj |-> o, kid |-> Len(kid) + 1]
         \/ /\ stranded' \subseteq stranded \cup {o} /\ UNCHANGED <<kid, owned>>
            /\ pc'[c] = Rest
  BY OpenStep
<1>2. Grows /\ Len(kid') \in Nat /\ Len(kid') <= MaxKids /\ owned' \subseteq Conns
  BY <1>1, Indices, TableAssumption DEF Grows, NewChild, TypeOK
<1>3. ObjectType'
  BY <1>1, <1>2, ObjectsTyped, Indices
<1>4. ChildType'
  BY <1>1, <1>2, ChildrenTyped, Indices
<1>5. PlaceType'
  BY <1>1, <1>2, PlacesTyped, Indices DEF Rest, NewChild
<1>6. HistoryType'
  <2>1. stranded' \subseteq DOMAIN obj'
    BY <1>1 DEF TypeOK, HistoryType
  <2>. QED  BY <1>1, <2>1, HistoryTyped
<1>. QED  BY <1>1, <1>2, <1>3, <1>4, <1>5, <1>6 DEF TypeOK

LEMMA ResumeType ==
  ASSUME TypeOK, NEW c \in Conns, Resume(c)
  PROVE  TypeOK'
<1>1. /\ table \in DOMAIN obj /\ table \in Nat /\ 0 \in Nat /\ c \in Procs
      /\ met' \subseteq Procs /\ mixed' \subseteq Conns
  BY Indices, BeginTyped DEF Resume, TypeOK, Procs
<1>2. CASE Displaced(c) = {}
  BY <1>1, <1>2, FoundType DEF Resume
<1>3. CASE Displaced(c) # {}
  <2>1. /\ owned' = owned \ Displaced(c) /\ Goes(c, "told", table, 0)
        /\ UNCHANGED <<table, obj, kid, stranded, crossed, risky>>
    BY <1>3 DEF Resume
  <2>2. OnlyProcess(c) /\ pc'[c] = [at |-> "told", obj |-> table, kid |-> 0]
    BY <1>1, <2>1, GoesStep
  <2>3. Grows
    BY <2>1, Indices DEF Grows
  <2>4. ObjectType' /\ ChildType' /\ HistoryType'
    BY <1>1, <2>1, <2>3, ObjectsTyped, ChildrenTyped, HistoryTyped, Indices
         DEF TypeOK, HistoryType
  <2>5. PlaceType'
    BY <1>1, <2>1, <2>2, <2>3, PlacesTyped, Indices DEF TypeOK
  <2>. QED  BY <2>1, <2>4, <2>5 DEF TypeOK
<1>. QED  BY <1>2, <1>3

LEMMA ToldType ==
  ASSUME TypeOK, NEW c \in Conns, Told(c)
  PROVE  TypeOK'
<1>1. pc[c].obj \in DOMAIN obj
  BY Holds DEF Told, At, Procs
<1>2. met' \subseteq Procs /\ mixed' \subseteq Conns
  BY DEF Told, TypeOK, HistoryType
<1>. QED  BY <1>1, <1>2, FoundType DEF Told

(* What most steps leave as long as it was.                                *)
LEMMA SameLengths ==
  ASSUME TypeOK, Len(obj') = Len(obj), Len(kid') = Len(kid), DOMAIN obj' = DOMAIN obj
  PROVE  /\ Grows /\ Len(obj') \in Nat /\ Len(kid') \in Nat /\ DOMAIN obj' = 1 .. Len(obj')
         /\ Len(obj') <= MaxObjs /\ Len(kid') <= MaxKids
         /\ \A k \in 0 .. Len(kid) : k <= Len(kid')
         /\ UNCHANGED table => table' \in 0 .. Len(obj')
         /\ 0 \in 0 .. Len(obj')
BY Indices DEF Grows, TypeOK

LEMMA SpawnedType ==
  ASSUME TypeOK, NEW c \in Conns, Spawned(c)
  PROVE  TypeOK'
<1>. DEFINE k == pc[c].kid  o == pc[c].obj
<1>1. /\ k \in DOMAIN kid /\ OnlyChild(k) /\ kid'[k] = [kid[k] EXCEPT !.runs = TRUE]
      /\ o \in DOMAIN obj /\ OnlyObject(o) /\ obj'[o] = [obj[o] EXCEPT !.backend = k]
      /\ OnlyProcess(c) /\ pc'[c] = [at |-> "own", obj |-> o, kid |-> 0]
      /\ k <= Len(kid') /\ o # 0 /\ o <= Len(obj') /\ c \in Procs
  BY SpawnedStep, Indices DEF OnlyObject, OnlyChild, Procs
<1>2. /\ owned' = owned \cup {c} /\ Starts(c, k)
      /\ UNCHANGED <<table, met, mixed, stranded, risky>>
  BY DEF Spawned
<1>. HIDE DEF k, o
<1>3. Grows /\ Len(obj') \in Nat /\ Len(kid') \in Nat
  BY <1>1, SameLengths DEF OnlyObject, OnlyChild
<1>4. ObjectType'
  BY <1>1, <1>3, ObjectsTyped, Indices DEF Object, TypeOK, ObjectType
<1>5. ChildType'
  <2>1. kid'[k].of = kid[k].of /\ kid'[k].runs /\ DOMAIN obj' = 1 .. Len(obj')
    BY <1>1, Indices DEF Backend, OnlyObject
  <2>. QED  BY <1>1, <1>3, <2>1, ChildrenTyped
<1>6. PlaceType'
  BY <1>1, <1>3, PlacesTyped
<1>7. HistoryType'
  <2>1. kid'[k].runs /\ kid'[k].sender = kid[k].sender
    BY <1>1, Indices DEF Backend
  <2>. QED  BY <1>1, <1>2, <2>1, HistoryTyped DEF TypeOK, HistoryType, Starts, OnlyObject
<1>. QED  BY <1>1, <1>2, <1>4, <1>5, <1>6, <1>7, SameLengths DEF TypeOK, OnlyObject, OnlyChild

LEMMA AttachType ==
  ASSUME TypeOK, NEW c \in Conns, Attach(c)
  PROVE  TypeOK'
<1>. DEFINE o == pc[c].obj
<1>1. /\ o \in DOMAIN obj /\ OnlyObject(o)
      /\ obj'[o] = [obj[o] EXCEPT !.owner = c, !.detached = FALSE]
      /\ OnlyProcess(c) /\ pc'[c] = Rest /\ c \in Procs
  BY AttachStep DEF Procs
<1>2. UNCHANGED <<table, kid, owned, ghosts>>
  BY DEF Attach
<1>. HIDE DEF o
<1>3. Grows /\ Len(obj') \in Nat /\ Len(kid') \in Nat /\ DOMAIN obj' = 1 .. Len(obj')
  BY <1>1, <1>2, SameLengths DEF OnlyObject
<1>4. ObjectType'
  BY <1>1, <1>2, <1>3, ObjectsTyped, Indices DEF Object, TypeOK, ObjectType
<1>5. ChildType'
  BY <1>2, <1>3, ChildrenTyped
<1>6. PlaceType'
  BY <1>1, <1>3, PlacesTyped DEF Rest
<1>7. HistoryType'
  BY <1>1, <1>2, HistoryTyped DEF TypeOK, HistoryType, ghosts, OnlyObject
<1>. QED  BY <1>1, <1>2, <1>4, <1>5, <1>6, <1>7 DEF TypeOK, OnlyObject

(* Removing the session, and whatever becomes of the process.              *)
LEMMA RemoveType ==
  ASSUME TypeOK, NEW p \in Procs, Remove(p), owned' \subseteq Conns,
         met' \subseteq Procs, mixed' \subseteq Conns, UNCHANGED <<obj, crossed, stranded, risky>>
  PROVE  TypeOK'
<1>1. /\ table' = 0 /\ OnlyProcess(p)
      /\ \/ LET k == obj[table].backend IN
            /\ Serves(table) /\ k \in DOMAIN kid
            /\ OnlyChild(k) /\ kid'[k] = [kid[k] EXCEPT !.closing = TRUE]
            /\ pc'[p] = [at |-> "close", obj |-> 0, kid |-> k]
         \/ UNCHANGED kid /\ pc'[p] \in {Gone, Rest}
  BY RemoveStep
<1>2. Len(kid') = Len(kid)
  BY <1>1 DEF OnlyChild
<1>3. Grows /\ Len(obj') \in Nat /\ Len(kid') \in Nat /\ DOMAIN obj' = 1 .. Len(obj')
  BY <1>2, SameLengths
<1>4. ObjectType'
  BY <1>3, ObjectsTyped
<1>5. ChildType'
  <2>1. ASSUME NEW k \in DOMAIN kid, kid[k].runs, OnlyChild(k),
               kid'[k] = [kid[k] EXCEPT !.closing = TRUE]
        PROVE  ChildType'
    <3>1. kid'[k].of = kid[k].of /\ kid'[k].runs
      BY <2>1, Indices DEF Backend
    <3>. QED  BY <1>3, <2>1, <3>1, ChildrenTyped
  <2>2. UNCHANGED kid => ChildType'
    BY <1>3, ChildrenTyped
  <2>. QED  BY <1>1, <2>1, <2>2 DEF Serves, Running
<1>6. PlaceType'
  <2>1. ASSUME NEW k \in DOMAIN kid, pc'[p] = [at |-> "close", obj |-> 0, kid |-> k]
        PROVE  PlaceType'
    <3>1. k # 0 /\ k <= Len(kid') /\ 0 <= Len(obj')
      BY <1>2, <1>3, Indices
    <3>. QED  BY <1>1, <1>3, <2>1, <3>1, PlacesTyped
  <2>2. ASSUME pc'[p] \in {Gone, Rest}
        PROVE  PlaceType'
    <3>1. 0 <= Len(kid') /\ 0 <= Len(obj')
      BY <1>3
    <3>. QED  BY <1>1, <1>3, <2>2, <3>1, PlacesTyped DEF Rest, Gone
  <2>. QED  BY <1>1, <2>1, <2>2
<1>7. HistoryType'
  <2>1. ASSUME NEW k \in DOMAIN kid, OnlyChild(k), kid'[k] = [kid[k] EXCEPT !.closing = TRUE]
        PROVE  HistoryType'
    <3>1. kid'[k].runs = kid[k].runs /\ kid'[k].sender = kid[k].sender
      BY <2>1, Indices DEF Backend
    <3>. QED  BY <2>1, <3>1, HistoryTyped DEF TypeOK, HistoryType
  <2>2. UNCHANGED kid => HistoryType'
    BY HistoryTyped DEF TypeOK, HistoryType
  <2>. QED  BY <1>1, <2>1, <2>2
<1>. QED  BY <1>1, <1>2, <1>4, <1>5, <1>6, <1>7, SameLengths DEF TypeOK

LEMMA SpawnFailsType ==
  ASSUME TypeOK, NEW c \in Conns, SpawnFails(c)
  PROVE  TypeOK'
<1>1. met' \subseteq Procs /\ mixed' \subseteq Conns /\ owned' \subseteq Conns /\ c \in Procs
  BY DEF SpawnFails, TypeOK, HistoryType, Procs
<1>. QED  BY <1>1, RemoveType DEF SpawnFails

LEMMA FarewellType ==
  ASSUME TypeOK, NEW c \in Conns, Farewell(c)
  PROVE  TypeOK'
<1>1. met' \subseteq Procs /\ mixed' \subseteq Conns /\ owned' \subseteq Conns /\ c \in Procs
  BY DEF Farewell, TypeOK, HistoryType, Procs, ghosts
<1>. QED  BY <1>1, RemoveType DEF Farewell, ghosts

LEMMA ReapType ==
  ASSUME TypeOK, Reap
  PROVE  TypeOK'
<1>1. met' \subseteq Procs /\ mixed' \subseteq Conns /\ owned' \subseteq Conns /\ Reaper \in Procs
  BY DEF Reap, TypeOK, HistoryType, Procs, ghosts
<1>. QED  BY <1>1, RemoveType DEF Reap, ghosts

(* A process goes on, and nothing but the history changes with it.         *)
LEMMA MovesType ==
  ASSUME TypeOK, NEW p \in Procs, OnlyProcess(p),
         pc'[p].obj \in 0 .. Len(obj), pc'[p].kid \in 0 .. Len(kid),
         pc'[p].at \in {"told", "spawn", "own", "respawn", "restart", "detach"} => pc'[p].obj # 0,
         pc'[p].at \in {"spawn", "respawn", "restart", "close", "detach"} <=> pc'[p].kid # 0,
         owned' \subseteq Conns, met' \subseteq Procs, mixed' \subseteq Conns,
         stranded' \subseteq DOMAIN obj, UNCHANGED <<table, obj, kid, crossed, risky>>
  PROVE  TypeOK'
<1>1. Grows /\ Len(obj') \in Nat /\ Len(kid') \in Nat /\ DOMAIN obj' = 1 .. Len(obj')
  BY SameLengths
<1>2. ObjectType' /\ ChildType' /\ HistoryType'
  BY <1>1, ObjectsTyped, ChildrenTyped, HistoryTyped
<1>3. PlaceType'
  BY <1>1, PlacesTyped
<1>. QED  BY <1>2, <1>3 DEF TypeOK

LEMMA ReturnsType ==
  ASSUME TypeOK, NEW p \in Procs, Returns(p), owned' \subseteq Conns,
         met' \subseteq Procs, mixed' \subseteq Conns, stranded' \subseteq DOMAIN obj,
         UNCHANGED <<table, obj, kid, crossed, risky>>
  PROVE  TypeOK'
<1>1. OnlyProcess(p) /\ pc'[p] \in {Gone, Rest}
  BY ReturnsStep
<1>. QED  BY <1>1, MovesType, Indices DEF Rest, Gone

LEMMA SpawnBreaksType ==
  ASSUME TypeOK, NEW c \in Conns, SpawnBreaks(c)
  PROVE  TypeOK'
<1>1. /\ c \in Procs /\ met' \subseteq Procs /\ mixed' \subseteq Conns /\ owned' \subseteq Conns
      /\ stranded' \subseteq DOMAIN obj
  BY Holds DEF SpawnBreaks, TypeOK, HistoryType, Procs, At
<1>. QED  BY <1>1, ReturnsType DEF SpawnBreaks

LEMMA ClosedType ==
  ASSUME TypeOK, NEW p \in Procs, Closed(p)
  PROVE  TypeOK'
<1>1. /\ met' \subseteq Procs /\ mixed' \subseteq Conns /\ owned' \subseteq Conns
      /\ stranded' \subseteq DOMAIN obj
  BY DEF Closed, TypeOK, HistoryType, ghosts
<1>. QED  BY <1>1, ReturnsType DEF Closed, ghosts

LEMMA RespawnFailsType ==
  ASSUME TypeOK, NEW c \in Conns, RespawnFails(c)
  PROVE  TypeOK'
<1>1. /\ c \in Procs /\ met' \subseteq Procs /\ mixed' \subseteq Conns /\ owned' \subseteq Conns
      /\ stranded' \subseteq DOMAIN obj
  BY DEF RespawnFails, TypeOK, HistoryType, ghosts, Procs
<1>. QED  BY <1>1, ReturnsType DEF RespawnFails, ghosts

LEMMA CloseType ==
  ASSUME TypeOK, NEW c \in Conns, Close(c)
  PROVE  TypeOK'
<1>1. /\ c \in Procs /\ met' \subseteq Procs /\ mixed' \subseteq Conns /\ owned' \subseteq Conns
      /\ stranded' \subseteq DOMAIN obj
  BY BeginTyped DEF Close, TypeOK, HistoryType, Procs
<1>2. CASE Goes(c, "farewell", table, 0) /\ UNCHANGED <<table, kid>>
  <2>1. table \in 0 .. Len(obj) /\ table \in Nat /\ 0 \in 0 .. Len(kid) /\ 0 \in Nat
    BY Indices DEF TypeOK
  <2>2. OnlyProcess(c) /\ pc'[c] = [at |-> "farewell", obj |-> table, kid |-> 0]
    BY <1>1, <1>2, <2>1, GoesStep
  <2>. QED  BY <1>1, <1>2, <2>1, <2>2, MovesType DEF Close
<1>3. CASE Remove(c)
  BY <1>1, <1>3, RemoveType DEF Close
<1>. QED  BY <1>2, <1>3 DEF Close

LEMMA ExpireType ==
  ASSUME TypeOK, Expire
  PROVE  TypeOK'
<1>1. /\ Reaper \in Procs /\ met' \subseteq Procs /\ mixed' \subseteq Conns
      /\ table \in 0 .. Len(obj) /\ table \in Nat /\ 0 \in 0 .. Len(kid) /\ 0 \in Nat
  BY BeginTyped, Indices DEF Expire, TypeOK, HistoryType, Procs
<1>2. OnlyProcess(Reaper) /\ pc'[Reaper] = [at |-> "expired", obj |-> table, kid |-> 0]
  <2>1. Goes(Reaper, "expired", table, 0) /\ Reaper \in Procs /\ table \in Nat /\ 0 \in Nat
    BY <1>1 DEF Expire
  <2>. QED  BY <2>1, GoesStep
<1>. QED  BY <1>1, <1>2, MovesType DEF Expire, TypeOK, HistoryType

(* A step of or about one child.                                           *)
LEMMA ChildType1 ==
  ASSUME TypeOK, NEW k \in DOMAIN kid, OnlyChild(k), kid'[k].of = kid[k].of,
         ~kid'[k].runs => kid'[k].sender = None /\ ~kid'[k].closing,
         crossed' \ {k} \subseteq crossed, risky' \ {k} \subseteq risky,
         k \in crossed' => kid'[k].runs, k \in risky' => kid'[k].sender # None,
         NEW p \in Procs, OnlyProcess(p),
         pc'[p].obj \in 0 .. Len(obj), pc'[p].kid \in 0 .. Len(kid),
         pc'[p].at \in {"told", "spawn", "own", "respawn", "restart", "detach"} => pc'[p].obj # 0,
         pc'[p].at \in {"spawn", "respawn", "restart", "close", "detach"} <=> pc'[p].kid # 0,
         UNCHANGED <<table, obj, owned, stranded>>,
         met' \subseteq Procs, mixed' \subseteq Conns
  PROVE  TypeOK'
<1>1. Grows /\ Len(obj') \in Nat /\ Len(kid') \in Nat /\ DOMAIN obj' = 1 .. Len(obj')
      /\ Len(kid') = Len(kid)
  BY SameLengths DEF OnlyChild
<1>2. ObjectType' /\ ChildType'
  BY <1>1, ObjectsTyped, ChildrenTyped
<1>3. PlaceType'
  BY <1>1, PlacesTyped
<1>4. HistoryType'
  BY HistoryTyped DEF TypeOK, HistoryType
<1>. QED  BY <1>1, <1>2, <1>3, <1>4 DEF TypeOK

(* No process moves.                                                       *)
LEMMA StaysPlaced ==
  ASSUME TypeOK, UNCHANGED pc
  PROVE  /\ Reaper \in Procs /\ OnlyProcess(Reaper)
         /\ pc'[Reaper].obj \in 0 .. Len(obj) /\ pc'[Reaper].kid \in 0 .. Len(kid)
         /\ pc'[Reaper].at \in {"told", "spawn", "own", "respawn", "restart", "detach"} => pc'[Reaper].obj # 0
         /\ pc'[Reaper].at \in {"spawn", "respawn", "restart", "close", "detach"} <=> pc'[Reaper].kid # 0
BY Indices DEF Procs, OnlyProcess, TypeOK, PlaceType, Place

LEMMA UserType ==
  ASSUME TypeOK, NEW c \in Conns, User(c)
  PROVE  TypeOK'
<1>. DEFINE k == obj[table].backend
<1>1. /\ k \in DOMAIN kid /\ Send(c, k) /\ kid[k].runs
      /\ UNCHANGED <<table, obj, owned, pc, met, mixed, crossed, stranded>>
  BY Indices DEF User, Serves, Running
<1>. HIDE DEF k
<1>2. OnlyChild(k) /\ kid'[k] = [kid[k] EXCEPT !.sender = c]
  BY <1>1, SendStep
<1>3. kid'[k].of = kid[k].of /\ kid'[k].runs /\ kid'[k].sender # None
  BY <1>1, <1>2, Indices, TableAssumption DEF Backend, Procs
<1>4. risky' \ {k} \subseteq risky
  BY <1>1 DEF Send
<1>. QED  BY <1>1, <1>2, <1>3, <1>4, StaysPlaced, ChildType1 DEF TypeOK, HistoryType

LEMMA UserRespawnsType ==
  ASSUME TypeOK, NEW c \in Conns, UserRespawns(c)
  PROVE  TypeOK'
<1>1. /\ table \in DOMAIN obj /\ NewChild(table) /\ OnlyProcess(c) /\ c \in Procs
      /\ pc'[c] = [at |-> "respawn", obj |-> table, kid |-> Len(kid) + 1]
      /\ Len(kid) < MaxKids /\ UNCHANGED <<table, obj, owned, crossed, stranded, risky>>
      /\ met' \subseteq Procs /\ mixed' \subseteq Conns
  BY RespawnsStep, BeginTyped DEF UserRespawns, Procs, TypeOK
<1>2. Grows /\ Len(obj') \in Nat /\ Len(kid') \in Nat /\ Len(kid') <= MaxKids
      /\ DOMAIN obj' = 1 .. Len(obj')
  BY <1>1, Indices, TableAssumption DEF Grows, NewChild
<1>3. ObjectType' /\ ChildType'
  BY <1>1, <1>2, ObjectsTyped, ChildrenTyped
<1>4. PlaceType'
  BY <1>1, <1>2, PlacesTyped, Indices DEF NewChild
<1>5. HistoryType'
  BY <1>1, HistoryTyped DEF TypeOK, HistoryType
<1>. QED  BY <1>1, <1>2, <1>3, <1>4, <1>5 DEF TypeOK

LEMMA RespawnedType ==
  ASSUME TypeOK, NEW c \in Conns, Respawned(c)
  PROVE  TypeOK'
<1>. DEFINE k == pc[c].kid  o == pc[c].obj
<1>1. /\ k \in DOMAIN kid /\ OnlyChild(k)
      /\ kid'[k] = [kid[k] EXCEPT !.runs = TRUE, !.sender = c]
      /\ o \in DOMAIN obj /\ OnlyObject(o) /\ obj'[o] = [obj[o] EXCEPT !.backend = k]
      /\ OnlyProcess(c) /\ pc'[c] = Rest /\ c \in Procs
  BY RespawnedStep DEF Procs
<1>2. /\ Starts(c, k) /\ UNCHANGED <<table, owned, met, mixed, stranded>>
      /\ risky' \ {k} \subseteq risky
  BY DEF Respawned
<1>. HIDE DEF k, o
<1>3. Grows /\ Len(obj') \in Nat /\ Len(kid') \in Nat /\ DOMAIN obj' = 1 .. Len(obj')
  BY <1>1, SameLengths DEF OnlyObject, OnlyChild
<1>4. ObjectType'
  <2>1. k <= Len(kid')
    BY <1>1, Indices DEF OnlyChild
  <2>. QED  BY <1>1, <1>3, <2>1, ObjectsTyped, Indices DEF Object, TypeOK, ObjectType
<1>5. kid'[k].runs /\ kid'[k].sender # None /\ kid'[k].of = kid[k].of
  BY <1>1, Indices, TableAssumption DEF Backend, Procs
<1>6. ChildType'
  BY <1>1, <1>3, <1>5, ChildrenTyped
<1>7. PlaceType'
  BY <1>1, <1>3, PlacesTyped DEF Rest
<1>8. HistoryType'
  BY <1>1, <1>2, <1>5, HistoryTyped DEF TypeOK, HistoryType, Starts, OnlyObject
<1>. QED  BY <1>1, <1>2, <1>4, <1>6, <1>7, <1>8, SameLengths DEF TypeOK, OnlyObject, OnlyChild

LEMMA InterruptType ==
  ASSUME TypeOK, NEW c \in Conns, Interrupt(c)
  PROVE  TypeOK'
<1>. DEFINE k == obj[table].backend
<1>1. /\ table \in DOMAIN obj /\ k \in DOMAIN kid /\ kid[k].runs
      /\ OnlyChild(k) /\ kid'[k] = [kid[k] EXCEPT !.closing = TRUE]
      /\ OnlyProcess(c) /\ pc'[c] = [at |-> "restart", obj |-> table, kid |-> k]
      /\ UNCHANGED <<table, obj, owned, crossed, stranded, risky>> /\ c \in Procs
      /\ met' \subseteq Procs /\ mixed' \subseteq Conns
  BY InterruptStep, BeginTyped DEF Interrupt, Serves, Running, Procs, TypeOK
<1>. HIDE DEF k
<1>2. kid'[k].of = kid[k].of /\ kid'[k].runs /\ kid'[k].sender = kid[k].sender
  BY <1>1, Indices DEF Backend
<1>3. /\ pc'[c].obj \in 0 .. Len(obj) /\ pc'[c].kid \in 0 .. Len(kid)
      /\ pc'[c].obj # 0 /\ pc'[c].kid # 0 /\ pc'[c].at = "restart"
  BY <1>1, Indices
<1>. QED  BY <1>1, <1>2, <1>3, ChildType1 DEF TypeOK, HistoryType

LEMMA RestartedType ==
  ASSUME TypeOK, NEW c \in Conns, Restarted(c)
  PROVE  TypeOK'
<1>. DEFINE k == pc[c].kid
<1>1. /\ OnlyProcess(c) /\ pc'[c] = Rest /\ c \in Procs /\ k \in DOMAIN kid
      /\ \/ /\ OnlyChild(k) /\ kid'[k] = [kid[k] EXCEPT !.runs = TRUE, !.late = TRUE]
            /\ Starts(c, k)
         \/ UNCHANGED <<kid, crossed>>
      /\ UNCHANGED <<table, obj, owned, met, mixed, stranded, risky>>
  BY RestartedStep DEF Restarted, Procs
<1>. HIDE DEF k
<1>2. CASE UNCHANGED <<kid, crossed>>
  BY <1>1, <1>2, MovesType, Indices DEF Rest, TypeOK, HistoryType
<1>3. CASE /\ OnlyChild(k) /\ kid'[k] = [kid[k] EXCEPT !.runs = TRUE, !.late = TRUE]
           /\ Starts(c, k)
  <2>1. kid'[k].of = kid[k].of /\ kid'[k].runs /\ kid'[k].sender = kid[k].sender
    BY <1>1, <1>3, Indices DEF Backend
  <2>2. crossed' \ {k} \subseteq crossed
    BY <1>3 DEF Starts
  <2>3. /\ pc'[c].obj \in 0 .. Len(obj) /\ pc'[c].kid \in 0 .. Len(kid)
        /\ pc'[c].at = "idle" /\ pc'[c].kid = 0
    BY <1>1, Indices DEF Rest
  <2>. QED  BY <1>1, <1>3, <2>1, <2>2, <2>3, ChildType1 DEF TypeOK, HistoryType
<1>. QED  BY <1>1, <1>2, <1>3

LEMMA DisconnectType ==
  ASSUME TypeOK, NEW c \in Conns, Disconnect(c)
  PROVE  TypeOK'
<1>. DEFINE k == obj[table].backend
<1>1. /\ c \in Procs /\ owned' \subseteq Conns /\ UNCHANGED <<table, crossed, stranded>>
      /\ met' \subseteq Procs /\ mixed' \subseteq Conns /\ stranded' \subseteq DOMAIN obj
  BY BeginTyped DEF Disconnect, Procs, TypeOK, HistoryType
<1>2. OnlyProcess(c)
  BY DisconnectStep
<1>3. CASE UNCHANGED <<obj, kid, risky>> /\ pc'[c] = Gone
  BY <1>1, <1>2, <1>3, MovesType, Indices DEF Gone, Rest
<1>4. ASSUME OnlyObject(table), table \in DOMAIN obj, Len(kid') = Len(kid),
             obj'[table].owner = None, obj'[table].backend <= Len(kid)
      PROVE  /\ ObjectType' /\ Grows /\ Len(obj') \in Nat /\ Len(kid') \in Nat
             /\ DOMAIN obj' = 1 .. Len(obj') /\ Len(obj') = Len(obj)
  <2>1. Grows /\ Len(obj') \in Nat /\ Len(kid') \in Nat /\ DOMAIN obj' = 1 .. Len(obj')
    BY <1>4, SameLengths DEF OnlyObject
  <2>. QED  BY <1>4, <2>1, ObjectsTyped DEF OnlyObject
<1>5. ASSUME UNCHANGED kid, pc'[c] = Gone, Len(obj') = Len(obj), DOMAIN obj' = DOMAIN obj,
             risky' \subseteq risky \cup {i \in DOMAIN kid : kid[i].sender # None}
      PROVE  ChildType' /\ PlaceType' /\ HistoryType'
  <2>1. Grows /\ Len(obj') \in Nat /\ Len(kid') \in Nat /\ DOMAIN obj' = 1 .. Len(obj')
    BY <1>5, SameLengths
  <2>. QED  BY <1>1, <1>2, <1>5, <2>1, ChildrenTyped, PlacesTyped
              DEF TypeOK, HistoryType, Gone, Rest
<1>6. \A o \in DOMAIN obj : obj[o].backend <= Len(kid) /\ 0 <= Len(kid)
  BY Indices DEF TypeOK, ObjectType
<1>7. CASE /\ table \in DOMAIN obj /\ OnlyObject(table)
           /\ obj'[table] = [obj[table] EXCEPT !.owner = None, !.detached = TRUE, !.backend = 0]
           /\ UNCHANGED <<kid, risky>> /\ pc'[c] = Gone
  <2>1. obj'[table].owner = None /\ obj'[table].backend <= Len(kid)
    BY <1>6, <1>7, Indices DEF Object
  <2>. QED  BY <1>1, <1>4, <1>5, <1>7, <2>1, SameLengths DEF TypeOK, OnlyObject
<1>8. CASE /\ table \in DOMAIN obj /\ k \in DOMAIN kid /\ kid[k].sender # None
           /\ OnlyObject(table)
           /\ obj'[table] = [obj[table] EXCEPT !.owner = None, !.detached = TRUE, !.finishing = TRUE]
           /\ UNCHANGED kid /\ pc'[c] = Gone
           /\ risky' = IF Unreported(table) THEN risky \cup {k} ELSE risky
  <2>1. obj'[table].owner = None /\ obj'[table].backend <= Len(kid)
    BY <1>6, <1>8, Indices DEF Object
  <2>2. risky' \subseteq risky \cup {i \in DOMAIN kid : kid[i].sender # None}
    BY <1>8
  <2>. QED  BY <1>1, <1>4, <1>5, <1>8, <2>1, <2>2, SameLengths DEF TypeOK, OnlyObject
<1>9. CASE /\ table \in DOMAIN obj /\ Serves(table) /\ k \in DOMAIN kid
           /\ OnlyObject(table)
           /\ obj'[table] = [obj[table] EXCEPT !.owner = None, !.detached = TRUE]
           /\ OnlyChild(k) /\ kid'[k] = [kid[k] EXCEPT !.closing = TRUE]
           /\ pc'[c] = [at |-> "detach", obj |-> table, kid |-> k]
           /\ UNCHANGED risky
  <2>1. obj'[table].owner = None /\ obj'[table].backend <= Len(kid)
        /\ Len(kid') = Len(kid)
    BY <1>6, <1>9, Indices DEF Object, OnlyChild
  <2>2. kid[k].runs /\ k \in 1 .. Len(kid) /\ table \in 1 .. Len(obj)
    BY <1>9, Indices DEF Serves, Running
  <2>. HIDE DEF k
  <2>3. kid'[k].of = kid[k].of /\ kid'[k].runs /\ kid'[k].sender = kid[k].sender
    BY <1>9, <2>2, Indices DEF Backend
  <2>4. /\ ObjectType' /\ Grows /\ Len(obj') \in Nat /\ Len(kid') \in Nat
        /\ DOMAIN obj' = 1 .. Len(obj') /\ Len(obj') = Len(obj)
    BY <1>4, <1>9, <2>1
  <2>5. ChildType'
    BY <1>9, <2>3, <2>4, ChildrenTyped
  <2>6. PlaceType'
    BY <1>1, <1>2, <1>9, <2>1, <2>2, <2>4, PlacesTyped
  <2>7. HistoryType'
    BY <1>1, <1>9, <2>3, HistoryTyped DEF TypeOK, HistoryType, OnlyObject
  <2>. QED  BY <1>1, <2>1, <2>4, <2>5, <2>6, <2>7 DEF TypeOK
<1>. QED  BY <1>3, <1>7, <1>8, <1>9, DisconnectStep

LEMMA DetachedType ==
  ASSUME TypeOK, NEW c \in Conns, Detached(c)
  PROVE  TypeOK'
<1>. DEFINE o == pc[c].obj
<1>1. /\ o \in DOMAIN obj /\ OnlyObject(o) /\ obj'[o] = [obj[o] EXCEPT !.backend = 0]
      /\ OnlyProcess(c) /\ pc'[c] = Gone /\ c \in Procs
      /\ UNCHANGED <<table, kid, owned, ghosts>>
  BY DetachedStep DEF Detached, Procs
<1>. HIDE DEF o
<1>2. Grows /\ Len(obj') \in Nat /\ Len(kid') \in Nat /\ DOMAIN obj' = 1 .. Len(obj')
  BY <1>1, SameLengths DEF OnlyObject
<1>3. ObjectType'
  <2>1. obj'[o].backend = 0 /\ ~(obj'[o].detached /\ obj'[o].owner # None)
    BY <1>1, Dated DEF Object
  <2>2. obj'[o].backend <= Len(kid') /\ o \in DOMAIN obj /\ OnlyObject(o)
    BY <1>1, <1>2, <2>1
  <2>3. Grows /\ Len(obj') \in Nat /\ Len(kid') \in Nat
    BY <1>2
  <2>. QED  BY <2>1, <2>2, <2>3, ObjectsTyped
<1>4. ChildType' /\ PlaceType'
  BY <1>1, <1>2, ChildrenTyped, PlacesTyped DEF Gone, Rest
<1>5. HistoryType'
  BY <1>1, HistoryTyped DEF TypeOK, HistoryType, ghosts, OnlyObject
<1>. QED  BY <1>1, <1>3, <1>4, <1>5 DEF TypeOK, OnlyObject

LEMMA ResultType ==
  ASSUME TypeOK, NEW k \in DOMAIN kid, Result(k)
  PROVE  TypeOK'
<1>1. /\ OnlyChild(k) /\ kid'[k] = [kid[k] EXCEPT !.sender = None, !.late = TRUE]
      /\ kid[k].runs /\ risky' = risky \ {k}
      /\ UNCHANGED <<table, obj, owned, pc, met, mixed, crossed, stranded>>
  BY ResultStep DEF Result
<1>2. kid'[k].of = kid[k].of /\ kid'[k].runs
  BY <1>1, Indices DEF Backend
<1>. QED  BY <1>1, <1>2, StaysPlaced, ChildType1 DEF TypeOK, HistoryType

LEMMA ResultOverType ==
  ASSUME TypeOK, NEW k \in DOMAIN kid, ResultOver(k)
  PROVE  TypeOK'
<1>. DEFINE o == kid[k].of
<1>1. /\ o \in DOMAIN obj
      /\ OnlyObject(o) /\ obj'[o] = [obj[o] EXCEPT !.finishing = FALSE]
      /\ kid' \in Seq(Backend) /\ Len(kid') = Len(kid) /\ DOMAIN kid' = DOMAIN kid
      /\ \A i \in DOMAIN kid :
           /\ kid'[i].of = kid[i].of /\ kid'[i].runs = kid[i].runs
           /\ kid'[i].closing = kid[i].closing /\ kid'[i].sender = kid[i].sender
      /\ UNCHANGED <<table, owned, pc, ghosts>>
  BY ResultOverStep DEF ResultOver
<1>. HIDE DEF o
<1>2. Grows /\ Len(obj') \in Nat /\ Len(kid') \in Nat /\ DOMAIN obj' = 1 .. Len(obj')
  BY <1>1, SameLengths DEF OnlyObject
<1>3. ObjectType'
  <2>1. obj'[o].backend <= Len(kid') /\ ~(obj'[o].detached /\ obj'[o].owner # None)
    BY <1>1, Dated DEF Object
  <2>. QED  BY <1>1, <1>2, <2>1, ObjectsTyped
<1>4. ChildType'
  BY <1>1 DEF TypeOK, ChildType, OnlyObject
<1>5. PlaceType'
  BY <1>1, <1>2, PlacesTyped
<1>6. HistoryType'
  BY <1>1 DEF TypeOK, HistoryType, ghosts, OnlyObject
<1>. QED  BY <1>1, <1>3, <1>4, <1>5, <1>6 DEF TypeOK, OnlyObject

LEMMA SoftKillType ==
  ASSUME TypeOK, NEW k \in DOMAIN kid, SoftKill(k)
  PROVE  TypeOK'
<1>1. /\ OnlyChild(k) /\ kid'[k] = [kid[k] EXCEPT !.doomed = FALSE, !.closing = kid[k].runs]
      /\ UNCHANGED <<table, obj, owned, pc, ghosts>>
  BY SoftKillStep DEF SoftKill
<1>2. /\ kid'[k].of = kid[k].of /\ kid'[k].runs = kid[k].runs
      /\ kid'[k].sender = kid[k].sender /\ kid'[k].closing = kid[k].runs
  BY <1>1, Indices DEF Backend
<1>. QED  BY <1>1, <1>2, StaysPlaced, ChildType1 DEF TypeOK, ChildType, HistoryType, ghosts

LEMMA EndsType ==
  ASSUME TypeOK, NEW k \in DOMAIN kid, Dies(k) \/ Exits(k)
  PROVE  TypeOK'
<1>1. PICK late \in BOOLEAN :
        /\ Stops(k, late) /\ OnlyChild(k)
        /\ kid'[k] = [kid[k] EXCEPT !.runs = FALSE, !.closing = FALSE,
                                    !.sender = None, !.late = late]
  BY EndsStep
<1>2. /\ UNCHANGED <<table, obj, owned, pc, met, mixed, stranded>>
      /\ crossed' = crossed \ {k} /\ risky' = risky \ {k}
  BY <1>1 DEF Stops
<1>3. kid'[k].of = kid[k].of /\ kid'[k].sender = None /\ ~kid'[k].closing
  BY <1>1, Indices DEF Backend
<1>. QED  BY <1>1, <1>2, <1>3, StaysPlaced, ChildType1 DEF TypeOK, HistoryType

LEMMA InitType == Init => TypeOK
<1>1. <<>> \in Seq(Object) /\ <<>> \in Seq(Backend) /\ Len(<<>>) = 0 /\ DOMAIN <<>> = {}
  BY EmptySeq
<1>. QED  BY <1>1, TableAssumption DEF Init, TypeOK, ObjectType, ChildType, PlaceType, HistoryType,
            Place, Rest

LEMMA NextType ==
  ASSUME TypeOK, [Next]_vars
  PROVE  TypeOK'
<1>1. ASSUME NEW c \in Conns, Request(c)
      PROVE  TypeOK'
  BY <1>1, OpenNewType, ResumeType, UserType, UserRespawnsType, InterruptType, CloseType,
     DisconnectType DEF Request
<1>2. ASSUME NEW c \in Conns, Handler(c)
      PROVE  TypeOK'
  BY <1>2, ToldType, SpawnedType, SpawnFailsType, SpawnBreaksType, AttachType, ClosedType,
     FarewellType, RespawnedType, RespawnFailsType, RestartedType, DetachedType DEF Handler, Procs
<1>3. CASE ReaperStep
  BY <1>3, ExpireType, ReapType, ClosedType DEF ReaperStep, Procs
<1>4. ASSUME NEW k \in DOMAIN kid, Child(k) \/ SoftKill(k) \/ Dies(k)
      PROVE  TypeOK'
  BY <1>4, ResultType, ResultOverType, EndsType, SoftKillType DEF Child
<1>5. CASE UNCHANGED vars
  BY <1>5 DEF vars, ghosts, TypeOK, ObjectType, ChildType, PlaceType, HistoryType
<1>. QED  BY <1>1, <1>2, <1>3, <1>4, <1>5 DEF Next

(* For any number of connections and whatever happens: what a process      *)
(* waits for is there, a child that does not run is neither in a turn nor  *)
(* being closed, and only a session without an owner grows old (daemon.py, *)
(* session.py).                                                            *)
THEOREM TableTypeCorrect == Spec => []TypeOK
BY InitType, NextType, PTL DEF Spec

-----------------------------------------------------------------------------
(* Who may drive the session.                                              *)

InHand(p) == pc[p].at \notin {"idle", "gone"}

(* Operations that overlap have met, and so have their connections.        *)
Meetings ==
  /\ \A p, q \in Procs : p # q /\ InHand(p) /\ InHand(q) => p \in met
  /\ Conns \cap met \subseteq mixed

(* An owner that met nobody is the only owner, nobody else is at work on   *)
(* the session, and the session is his, unless it is about to be.          *)
SoleOwner ==
  \A c \in owned \ mixed :
    /\ owned = {c}
    /\ \A p \in Procs : InHand(p) => p = c
    /\ pc[c].at \in {"idle", "told", "spawn", "own", "respawn", "restart"}
    /\ ~At(c, "own") => table # 0 /\ obj[table].owner = c

OpensAlone ==
  \A c \in Conns \ mixed : pc[c].at \in {"told", "spawn", "own"} => owned \subseteq {c}

(* The table still holds what an operation that met nobody found there.    *)
SameObject ==
  \A p \in Procs \ met :
    /\ pc[p].at \in {"told", "spawn", "own", "respawn", "restart"} => table = pc[p].obj
    /\ At(p, "restart") => obj[table].backend = pc[p].kid

Ownership == Meetings /\ SoleOwner /\ OpensAlone /\ SameObject

(* A step in the background: no process moves, the session keeps its owner *)
(* and its child.                                                          *)
LEMMA BackgroundOwnership ==
  ASSUME TypeOK, Ownership, UNCHANGED <<table, owned, pc, met, mixed>>,
         \A o \in DOMAIN obj :
           obj'[o].owner = obj[o].owner /\ obj'[o].backend = obj[o].backend
  PROVE  Ownership'
<1>1. Meetings' /\ OpensAlone'
  BY DEF Ownership, Meetings, OpensAlone, InHand
<1>2. SoleOwner'
  BY Indices DEF Ownership, SoleOwner, InHand, At
<1>3. SameObject'
  <2>1. \A p \in Procs : At(p, "restart") => pc[p].obj \in DOMAIN obj
    BY Holds DEF At
  <2>. QED  BY <2>1 DEF Ownership, SameObject, At
<1>. QED  BY <1>1, <1>2, <1>3 DEF Ownership

(* A process ends what it had in hand, a connection that becomes the owner *)
(* excepted.                                                               *)
LEMMA ReturnOwnership ==
  ASSUME TypeOK, Ownership, NEW p \in Procs, InHand(p), ~At(p, "own"),
         OnlyProcess(p), pc'[p] = IF pc[p].at = "detach" THEN Gone ELSE Rest,
         UNCHANGED <<table, owned, met>>, mixed \subseteq mixed', Conns \cap met \subseteq mixed',
         \A o \in DOMAIN obj : obj'[o].owner = obj[o].owner
  PROVE  Ownership'
<1>1. /\ pc'[p].at \in {"idle", "gone"} /\ (pc'[p].at = "gone" <=> pc[p].at = "detach")
      /\ \A q \in Procs : q # p => pc'[q] = pc[q]
      /\ \A q \in Procs : InHand(q)' => q # p /\ InHand(q) /\ q \in met
  BY DEF Rest, Gone, OnlyProcess, InHand, Ownership, Meetings
<1>2. Meetings'
  BY <1>1 DEF Ownership, Meetings
<1>3. SoleOwner'
  <2>. SUFFICES ASSUME NEW c \in (owned \ mixed)'
                PROVE  /\ owned' = {c}
                       /\ \A q \in Procs : InHand(q)' => q = c
                       /\ pc'[c].at \in {"idle", "told", "spawn", "own", "respawn", "restart"}
                       /\ ~At(c, "own")' => table' # 0 /\ obj'[table'].owner = c
    BY DEF SoleOwner
  <2>1. /\ c \in owned \ mixed /\ c = p /\ owned = {c} /\ c \in Procs
        /\ pc[c].at \in {"told", "spawn", "respawn", "restart"}
        /\ table # 0 /\ obj[table].owner = c
    BY DEF Ownership, SoleOwner, InHand, At, Procs, TypeOK
  <2>. QED  BY <1>1, <2>1, Indices DEF Ownership, SoleOwner
<1>4. OpensAlone' /\ SameObject'
  BY <1>1 DEF Ownership, OpensAlone, SameObject, InHand, At, Procs, Meetings
<1>. QED  BY <1>2, <1>3, <1>4 DEF Ownership

(* A process removes the session, which is not its own any more.           *)
LEMMA RemoveOwnership ==
  ASSUME TypeOK, Ownership, NEW p \in Procs, InHand(p), Remove(p),
         p \notin owned' \ mixed',
         UNCHANGED <<owned, met>>, mixed \subseteq mixed'
  PROVE  Ownership'
<1>1. OnlyProcess(p) /\ pc'[p].at \in {"close", "idle", "gone"}
  BY RemoveStep DEF Rest, Gone
<1>2. /\ \A q \in Procs : q # p => pc'[q] = pc[q]
      /\ \A q \in Procs : InHand(q)' => InHand(q)
      /\ \A q \in Procs : q # p /\ InHand(q) => q \in met
  BY <1>1 DEF OnlyProcess, InHand, Ownership, Meetings
<1>3. Meetings'
  BY <1>2 DEF Ownership, Meetings
<1>4. owned' \ mixed' = {}
  BY DEF Ownership, SoleOwner
<1>5. SoleOwner'
  BY <1>4 DEF SoleOwner
<1>6. OpensAlone' /\ SameObject'
  BY <1>1, <1>2 DEF Ownership, OpensAlone, SameObject, InHand, At, Procs, Meetings
<1>. QED  BY <1>3, <1>5, <1>6 DEF Ownership

(* The first step of an operation.                                         *)
LEMMA BeginsOwnership ==
  ASSUME TypeOK, Ownership, NEW p \in Procs, ~InHand(p), OnlyProcess(p),
         Begin(p) \/ (p \in Conns /\ BeginOpen(p))
  PROVE  /\ Meetings'
         /\ \A q \in Procs : q # p => (InHand(q)' <=> InHand(q)) /\ pc'[q] = pc[q]
         /\ \A q \in Procs : q # p /\ InHand(q) => q \in met' /\ p \in met'
         /\ \A c \in Conns : c # p /\ c \notin mixed' => c \notin mixed /\ ~InHand(c)
         /\ p \in Conns \ mixed' => \A q \in Procs : ~InHand(q)
         /\ Begin(p) => mixed \subseteq mixed'
         /\ BeginOpen(p) => \/ p \in mixed' /\ mixed \subseteq mixed'
                            \/ mixed \cap owned = {}
<1>1. /\ Busy(p) = {q \in Procs \ {p} : InHand(q)} /\ met' = Meets(p)
      /\ \A q \in Procs : q # p => (InHand(q)' <=> InHand(q)) /\ pc'[q] = pc[q]
  BY DEF Busy, InHand, Begin, BeginOpen, OnlyProcess
<1>2. /\ \A q \in Procs : q # p /\ InHand(q) => q \in met' /\ p \in met'
      /\ met' \subseteq Procs
  BY <1>1 DEF Meets
<1>3. /\ Conns \cap met' \subseteq mixed'
      /\ Begin(p) => mixed \subseteq mixed'
      /\ BeginOpen(p) => \/ p \in mixed' /\ mixed \subseteq mixed'
                         \/ mixed \cap owned = {} /\ mixed' = mixed \ {p}
  BY <1>1, <1>2 DEF Begin, BeginOpen, Meets
<1>4. Meetings'
  BY <1>1, <1>2, <1>3 DEF Meetings
<1>. QED  BY <1>1, <1>2, <1>3, <1>4 DEF Procs

LEMMA OpenNewOwnership ==
  ASSUME TypeOK, Ownership, NEW c \in Conns, OpenNew(c)
  PROVE  Ownership'
<1>. DEFINE n == Len(obj) + 1
<1>0. /\ ~InHand(c) /\ c \in Procs /\ BeginOpen(c) /\ table = 0 /\ table' = n /\ n \in Nat
      /\ OpenWith(c, n, Append(obj, NewSession))
  BY Indices DEF OpenNew, InHand, At, Procs
<1>1. /\ ~InHand(c) /\ c \in Procs /\ BeginOpen(c) /\ table = 0 /\ table' = n /\ n \in Nat
      /\ obj' = Append(obj, NewSession) /\ OpenWith(c, n, obj')
  BY <1>0, OpenStep
<1>2. obj'[n].backend = 0
  BY <1>1, Indices, AppendProperties DEF TypeOK, ObjectType, NewSession
<1>. HIDE DEF n
<1>3. /\ OnlyProcess(c) /\ owned' = owned
      /\ \/ pc'[c] = Rest
         \/ pc'[c] = [at |-> "spawn", obj |-> n, kid |-> Len(kid) + 1]
  BY <1>1, <1>2, OpenStep DEF Running
<1>4. /\ Meetings'
      /\ \A q \in Procs : q # c => (InHand(q)' <=> InHand(q)) /\ pc'[q] = pc[q]
      /\ \A q \in Procs : q # c /\ InHand(q) => q \in met' /\ c \in met'
      /\ \A d \in Conns : d # c /\ d \notin mixed' => d \notin mixed /\ ~InHand(d)
      /\ c \in Conns \ mixed' => \A q \in Procs : ~InHand(q)
      /\ \/ c \in mixed' /\ mixed \subseteq mixed'
         \/ mixed \cap owned = {}
  BY <1>1, <1>3, BeginsOwnership
<1>5. \A d \in owned \ mixed : InHand(d)
  BY <1>1 DEF Ownership, SoleOwner, InHand, At
<1>6. c \notin mixed' => owned = {}
  BY <1>4, <1>5 DEF TypeOK, Procs
<1>7. owned' \ mixed' = {}
  BY <1>3, <1>4, <1>5, <1>6 DEF TypeOK
<1>8. SoleOwner'
  BY <1>7 DEF SoleOwner
<1>9. OpensAlone'
  BY <1>3, <1>4, <1>6 DEF OpensAlone, InHand, Procs
<1>10. SameObject'
  BY <1>1, <1>3, <1>4 DEF SameObject, InHand, Rest, At
<1>. QED  BY <1>4, <1>8, <1>9, <1>10 DEF Ownership

(* An open has found its object: by then the former owner is out.          *)
LEMMA FoundOwnership ==
  ASSUME TypeOK, NEW c \in Conns, NEW o \in DOMAIN obj, OpenWith(c, o, obj),
         UNCHANGED table, Meetings',
         \A q \in Procs : InHand(q)' /\ q # c => q \in met' /\ c \in met',
         \A d \in Conns : d # c /\ d \notin mixed' => ~InHand(d)',
         c \notin met' => o = table,
         c \notin mixed' => owned \subseteq {c},
         c \in owned \ mixed' => table # 0 /\ obj[table].owner = c,
         owned \ mixed' \subseteq {c}
  PROVE  Ownership'
<1>. o \in Nat /\ o # 0 /\ c \in Procs
  BY Indices DEF Procs
<1>1. /\ OnlyProcess(c) /\ obj' = obj
      /\ \/ /\ owned' = owned \cup {c}
            /\ pc'[c] = [at |-> "own", obj |-> o, kid |-> 0]
         \/ /\ owned' = owned
            /\ pc'[c] = [at |-> "spawn", obj |-> o, kid |-> Len(kid) + 1]
         \/ owned' = owned /\ pc'[c] = Rest
  BY OpenStep
<1>2. SoleOwner'
  <2>. SUFFICES ASSUME NEW d \in (owned \ mixed)'
                PROVE  /\ owned' = {d}
                       /\ \A q \in Procs : InHand(q)' => q = d
                       /\ pc'[d].at \in {"idle", "told", "spawn", "own", "respawn", "restart"}
                       /\ ~At(d, "own")' => table' # 0 /\ obj'[table'].owner = d
    BY DEF SoleOwner
  <2>1. d = c /\ c \notin mixed' /\ owned \subseteq {c}
    BY <1>1
  <2>2. owned' = {c} /\ pc'[c].at \in {"idle", "spawn", "own"}
    BY <1>1, <2>1 DEF Rest
  <2>3. ~At(c, "own")' => c \in owned
    BY <1>1, <2>1 DEF At
  <2>4. \A q \in Procs : InHand(q)' => q = c
    BY <2>1 DEF Meetings
  <2>. QED  BY <1>1, <2>1, <2>2, <2>3, <2>4
<1>3. OpensAlone'
  BY <1>1 DEF OpensAlone, InHand
<1>4. SameObject'
  BY <1>1 DEF SameObject, InHand, Rest, At
<1>. QED  BY <1>2, <1>3, <1>4 DEF Ownership

LEMMA ResumeOwnership ==
  ASSUME TypeOK, Ownership, NEW c \in Conns, Resume(c)
  PROVE  Ownership'
<1>1. /\ ~InHand(c) /\ c \in Procs /\ BeginOpen(c) /\ UNCHANGED table
      /\ table # 0 /\ table \in Nat /\ table \in DOMAIN obj /\ 0 \in Nat
  BY Indices DEF Resume, InHand, At, Procs
<1>2. OnlyProcess(c)
  BY <1>1, OpenStep, GoesStep DEF Resume
<1>3. /\ Meetings'
      /\ \A q \in Procs : q # c => (InHand(q)' <=> InHand(q)) /\ pc'[q] = pc[q]
      /\ \A q \in Procs : q # c /\ InHand(q) => q \in met' /\ c \in met'
      /\ \A d \in Conns : d # c /\ d \notin mixed' => d \notin mixed /\ ~InHand(d)
      /\ c \in Conns \ mixed' => \A q \in Procs : ~InHand(q)
      /\ \/ c \in mixed' /\ mixed \subseteq mixed'
         \/ mixed \cap owned = {}
  BY <1>1, <1>2, BeginsOwnership
<1>4. \A d \in owned \ mixed :
        ~InHand(d) => owned = {d} /\ obj[table].owner = d /\ ~At(d, "gone") /\ d # None
  BY TableAssumption DEF Ownership, SoleOwner, InHand, At, TypeOK, Procs
<1>5. \A d \in owned \ mixed' : d # c => d \in owned \ mixed /\ ~InHand(d)
  BY <1>3 DEF TypeOK
<1>6. c \notin mixed' => \A d \in owned : d \in owned \ mixed /\ ~InHand(d)
  BY <1>3 DEF TypeOK, Procs
<1>7. CASE Displaced(c) = {}
  <2>1. OpenWith(c, table, obj)
    BY <1>7 DEF Resume
  <2>2. \A d \in owned \ mixed : ~InHand(d) => d = c
    BY <1>4, <1>7 DEF Displaced
  <2>3. /\ \A q \in Procs : InHand(q)' /\ q # c => q \in met' /\ c \in met'
        /\ \A d \in Conns : d # c /\ d \notin mixed' => ~InHand(d)'
        /\ c \notin mixed' => owned \subseteq {c}
        /\ owned \ mixed' \subseteq {c}
    BY <1>3, <1>5, <1>6, <2>2 DEF Procs
  <2>4. c \in owned \ mixed' => obj[table].owner = c
    BY <1>4, <1>6
  <2>. QED  BY <1>1, <1>3, <2>1, <2>3, <2>4, FoundOwnership
<1>8. CASE Displaced(c) # {}
  <2>1. /\ owned' = owned \ Displaced(c) /\ Goes(c, "told", table, 0)
        /\ UNCHANGED <<table, obj, kid, stranded>>
    BY <1>8 DEF Resume
  <2>2. pc'[c] = [at |-> "told", obj |-> table, kid |-> 0]
    BY <1>1, <2>1, GoesStep
  <2>3. \A d \in owned \ mixed : ~InHand(d) => owned' = {}
    <3>. SUFFICES ASSUME NEW d \in owned \ mixed, ~InHand(d) PROVE owned' = {}
      OBVIOUS
    <3>1. owned = {d} /\ obj[table].owner = d
      BY <1>4
    <3>2. Displaced(c) = {d}
      BY <1>8, <3>1 DEF Displaced
    <3>. QED  BY <2>1, <3>1, <3>2
  <2>4. (c \notin mixed' => owned' = {}) /\ owned' \ mixed' = {}
    BY <1>5, <1>6, <2>1, <2>3
  <2>5. SoleOwner'
    BY <2>4 DEF SoleOwner
  <2>6. OpensAlone' /\ SameObject'
    BY <1>1, <1>3, <2>2, <2>4 DEF OpensAlone, SameObject, InHand, At, Procs
  <2>. QED  BY <1>3, <2>5, <2>6 DEF Ownership
<1>. QED  BY <1>7, <1>8

LEMMA ToldOwnership ==
  ASSUME TypeOK, Ownership, NEW c \in Conns, Told(c)
  PROVE  Ownership'
<1>1. /\ InHand(c) /\ c \in Procs /\ OpenWith(c, pc[c].obj, obj) /\ UNCHANGED <<table, met, mixed>>
      /\ pc[c].at = "told"
  BY DEF Told, InHand, At, Procs
<1>2. pc[c].obj \in DOMAIN obj /\ pc[c].obj \in Nat
  BY <1>1, Holds, Indices
<1>3. OnlyProcess(c)
  BY <1>1, <1>2, OpenStep
<1>4. /\ \A q \in Procs : InHand(q)' => q = c \/ InHand(q)
      /\ \A q \in Procs : q # c /\ InHand(q) => q \in met /\ c \in met
      /\ \A d \in Conns : d # c /\ InHand(d) => d \in mixed
  BY <1>1, <1>3 DEF OnlyProcess, InHand, Ownership, Meetings, Procs
<1>5. Meetings'
  BY <1>1, <1>4 DEF Ownership, Meetings
<1>6. /\ c \notin met => pc[c].obj = table
      /\ c \notin mixed => owned \subseteq {c}
      /\ c \in owned \ mixed => table # 0 /\ obj[table].owner = c
      /\ owned \ mixed \subseteq {c}
  BY <1>1 DEF Ownership, SameObject, OpensAlone, SoleOwner, At
<1>7. /\ \A q \in Procs : InHand(q)' /\ q # c => q \in met' /\ c \in met'
      /\ \A d \in Conns : d # c /\ d \notin mixed' => ~InHand(d)'
  BY <1>1, <1>4 DEF Procs
<1>. QED  BY <1>1, <1>2, <1>5, <1>6, <1>7, FoundOwnership

LEMMA SpawnedOwnership ==
  ASSUME TypeOK, Ownership, NEW c \in Conns, Spawned(c)
  PROVE  Ownership'
<1>1. /\ pc[c].at = "spawn" /\ InHand(c) /\ c \in Procs /\ UNCHANGED <<table, met, mixed>>
      /\ owned' = owned \cup {c}
  BY DEF Spawned, InHand, At, Procs
<1>2. OnlyProcess(c) /\ pc'[c] = [at |-> "own", obj |-> pc[c].obj, kid |-> 0]
  BY SpawnedStep
<1>3. /\ \A q \in Procs : q # c => pc'[q] = pc[q]
      /\ \A q \in Procs : InHand(q)' => q = c \/ InHand(q)
      /\ \A q \in Procs : q # c /\ InHand(q) => q \in met /\ c \in met
      /\ \A d \in Conns : d # c /\ InHand(d) => d \in mixed
  BY <1>1, <1>2 DEF OnlyProcess, InHand, Ownership, Meetings, Procs
<1>4. Meetings'
  BY <1>1, <1>3 DEF Ownership, Meetings
<1>5. /\ c \notin met => pc[c].obj = table
      /\ c \notin mixed => owned \subseteq {c} /\ c \notin met
      /\ owned \ mixed \subseteq {c}
  BY <1>1 DEF Ownership, SameObject, OpensAlone, SoleOwner, Meetings
<1>6. SoleOwner'
  <2>. SUFFICES ASSUME NEW d \in (owned \ mixed)'
                PROVE  /\ owned' = {d}
                       /\ \A q \in Procs : InHand(q)' => q = d
                       /\ pc'[d].at \in {"idle", "told", "spawn", "own", "respawn", "restart"}
                       /\ ~At(d, "own")' => table' # 0 /\ obj'[table'].owner = d
    BY DEF SoleOwner
  <2>1. d = c /\ owned' = {c}
    BY <1>1, <1>5
  <2>. QED  BY <1>1, <1>2, <1>3, <1>5, <2>1 DEF At
<1>7. OpensAlone'
  BY <1>1, <1>3, <1>5 DEF OpensAlone, InHand, Procs
<1>8. SameObject'
  BY <1>1, <1>2, <1>3, <1>5 DEF SameObject, InHand, At
<1>. QED  BY <1>4, <1>6, <1>7, <1>8 DEF Ownership

LEMMA AttachOwnership ==
  ASSUME TypeOK, Ownership, NEW c \in Conns, Attach(c)
  PROVE  Ownership'
<1>. DEFINE o == pc[c].obj
<1>1. /\ pc[c].at = "own" /\ InHand(c) /\ c \in Procs /\ UNCHANGED <<table, owned, met, mixed>>
  BY DEF Attach, InHand, At, Procs, ghosts
<1>2. /\ OnlyProcess(c) /\ pc'[c] = Rest /\ o \in DOMAIN obj
      /\ obj'[o] = [obj[o] EXCEPT !.owner = c, !.detached = FALSE]
  BY AttachStep
<1>3. obj'[o].owner = c /\ o # 0
  <2>. HIDE DEF o
  <2>. QED  BY <1>2, Indices DEF Object
<1>. HIDE DEF o
<1>4. /\ \A q \in Procs : q # c => pc'[q] = pc[q]
      /\ \A q \in Procs : InHand(q)' => InHand(q) /\ q # c
      /\ \A q \in Procs : q # c /\ InHand(q) => q \in met /\ c \in met
  BY <1>1, <1>2 DEF OnlyProcess, InHand, Rest, Ownership, Meetings
<1>5. Meetings'
  BY <1>1, <1>4 DEF Ownership, Meetings
<1>6. /\ c \notin met => o = table
      /\ c \notin mixed => c \notin met
      /\ owned \ mixed \subseteq {c}
  BY <1>1 DEF Ownership, SameObject, SoleOwner, Meetings, o
<1>7. SoleOwner'
  <2>. SUFFICES ASSUME NEW d \in (owned \ mixed)'
                PROVE  /\ owned' = {d}
                       /\ \A q \in Procs : InHand(q)' => q = d
                       /\ pc'[d].at \in {"idle", "told", "spawn", "own", "respawn", "restart"}
                       /\ ~At(d, "own")' => table' # 0 /\ obj'[table'].owner = d
    BY DEF SoleOwner
  <2>1. d = c /\ owned' = {c} /\ o = table
    BY <1>1, <1>6 DEF Ownership, SoleOwner
  <2>2. table' = o /\ pc'[c].at = "idle"
    BY <1>1, <1>2, <2>1 DEF Rest
  <2>3. \A q \in Procs : ~InHand(q)'
    BY <1>1, <1>4, <1>6, <2>1 DEF Ownership, SoleOwner
  <2>. QED  BY <1>3, <2>1, <2>2, <2>3
<1>8. OpensAlone' /\ SameObject'
  BY <1>1, <1>4 DEF Ownership, OpensAlone, SameObject, InHand, At, Meetings, Procs
<1>. QED  BY <1>5, <1>7, <1>8 DEF Ownership

LEMMA RemoversOwnership ==
  ASSUME TypeOK, Ownership, NEW c \in Conns, SpawnFails(c) \/ Farewell(c)
  PROVE  Ownership'
<1>. c \in Procs
  BY DEF Procs
<1>1. CASE SpawnFails(c)
  <2>1. /\ InHand(c) /\ Remove(c) /\ UNCHANGED <<owned, met>> /\ mixed \subseteq mixed'
        /\ c \notin owned' \ mixed'
    BY <1>1 DEF SpawnFails, InHand, At
  <2>. QED  BY <2>1, RemoveOwnership
<1>2. CASE Farewell(c)
  <2>1. /\ InHand(c) /\ Remove(c) /\ UNCHANGED <<owned, met, mixed>> /\ pc[c].at = "farewell"
    BY <1>2 DEF Farewell, InHand, At, ghosts
  <2>2. c \notin owned \ mixed
    BY <2>1 DEF Ownership, SoleOwner
  <2>. QED  BY <2>1, <2>2, RemoveOwnership
<1>. QED  BY <1>1, <1>2

LEMMA ReturnersOwnership ==
  ASSUME TypeOK, Ownership, NEW c \in Conns,
         \/ SpawnBreaks(c) \/ RespawnFails(c) \/ Respawned(c) \/ Restarted(c) \/ Detached(c)
         \/ Closed(c)
  PROVE  Ownership'
<1>. c \in Procs
  BY DEF Procs
<1>1. Conns \cap met \subseteq mixed
  BY DEF Ownership, Meetings
<1>2. CASE Closed(c)
  <2>1. /\ InHand(c) /\ ~At(c, "own") /\ Returns(c) /\ UNCHANGED <<table, obj, owned, met, mixed>>
    BY <1>2 DEF Closed, InHand, At, ghosts
  <2>. QED  BY <1>1, <2>1, ReturnsStep, ReturnOwnership
<1>3. CASE SpawnBreaks(c) \/ RespawnFails(c)
  <2>1. /\ InHand(c) /\ ~At(c, "own") /\ Returns(c) /\ UNCHANGED <<table, obj, owned, met, mixed>>
    BY <1>3 DEF SpawnBreaks, RespawnFails, InHand, At, ghosts
  <2>. QED  BY <1>1, <2>1, ReturnsStep, ReturnOwnership
<1>4. CASE Restarted(c)
  <2>1. /\ InHand(c) /\ ~At(c, "own") /\ Returns(c) /\ UNCHANGED <<table, obj, owned, met, mixed>>
    BY <1>4 DEF Restarted, InHand, At
  <2>. QED  BY <1>1, <2>1, ReturnsStep, ReturnOwnership
<1>5. CASE Respawned(c)
  <2>. DEFINE o == pc[c].obj
  <2>1. /\ InHand(c) /\ ~At(c, "own") /\ Returns(c) /\ UNCHANGED <<table, owned, met, mixed>>
    BY <1>5 DEF Respawned, InHand, At
  <2>2. /\ o \in DOMAIN obj /\ OnlyObject(o) /\ obj'[o] = [obj[o] EXCEPT !.backend = pc[c].kid]
    BY <1>5, RespawnedStep
  <2>. HIDE DEF o
  <2>3. \A i \in DOMAIN obj : obj'[i].owner = obj[i].owner
    BY <2>2, Indices DEF OnlyObject, Object
  <2>. QED  BY <1>1, <2>1, <2>3, ReturnsStep, ReturnOwnership
<1>6. CASE Detached(c)
  <2>. DEFINE o == pc[c].obj
  <2>1. /\ InHand(c) /\ ~At(c, "own") /\ Returns(c) /\ UNCHANGED <<table, owned, met, mixed>>
    BY <1>6 DEF Detached, InHand, At, ghosts
  <2>2. /\ o \in DOMAIN obj /\ OnlyObject(o) /\ obj'[o] = [obj[o] EXCEPT !.backend = 0]
    BY <1>6, DetachedStep
  <2>. HIDE DEF o
  <2>3. \A i \in DOMAIN obj : obj'[i].owner = obj[i].owner
    BY <2>2, Indices DEF OnlyObject, Object
  <2>. QED  BY <1>1, <2>1, <2>3, ReturnsStep, ReturnOwnership
<1>. QED  BY <1>2, <1>3, <1>4, <1>5, <1>6

LEMMA CloseOwnership ==
  ASSUME TypeOK, Ownership, NEW c \in Conns, Close(c)
  PROVE  Ownership'
<1>1. /\ ~InHand(c) /\ c \in Procs /\ Begin(c) /\ c \in owned /\ owned' = owned \ {c}
      /\ table \in Nat /\ 0 \in Nat
  BY Indices DEF Close, InHand, At, Procs, TypeOK
<1>2. OnlyProcess(c) /\ pc'[c].at \notin {"told", "spawn", "own", "respawn", "restart"}
  <2>1. CASE Goes(c, "farewell", table, 0)
    <3>1. OnlyProcess(c) /\ pc'[c] = [at |-> "farewell", obj |-> table, kid |-> 0]
      BY <1>1, <2>1, GoesStep
    <3>. QED  BY <3>1
  <2>2. CASE Remove(c)
    BY <1>1, <2>2, RemoveStep DEF Rest, Gone
  <2>. QED  BY <2>1, <2>2 DEF Close
<1>3. /\ Meetings'
      /\ \A q \in Procs : q # c => (InHand(q)' <=> InHand(q)) /\ pc'[q] = pc[q]
      /\ \A q \in Procs : q # c /\ InHand(q) => q \in met' /\ c \in met'
      /\ \A d \in Conns : d # c /\ d \notin mixed' => d \notin mixed /\ ~InHand(d)
      /\ mixed \subseteq mixed'
  BY <1>1, <1>2, BeginsOwnership
<1>4. owned' \ mixed' = {}
  BY <1>1, <1>3 DEF Ownership, SoleOwner
<1>5. SoleOwner'
  BY <1>4 DEF SoleOwner
<1>6. OpensAlone' /\ SameObject'
  BY <1>2, <1>3 DEF OpensAlone, SameObject, InHand, At, Procs
<1>. QED  BY <1>3, <1>5, <1>6 DEF Ownership

(* An owner starts something that leaves the session his.                  *)
LEMMA DrivesOwnership ==
  ASSUME TypeOK, Ownership, NEW c \in Conns, UserRespawns(c) \/ Interrupt(c)
  PROVE  Ownership'
<1>1. /\ ~InHand(c) /\ c \in Procs /\ Begin(c) /\ c \in owned /\ UNCHANGED <<table, obj, owned>>
      /\ pc[c].at = "idle"
  BY DEF UserRespawns, Interrupt, InHand, At, Procs
<1>2. /\ OnlyProcess(c) /\ pc'[c].at \in {"respawn", "restart"} /\ pc'[c].obj = table
      /\ pc'[c].at = "restart" => obj[table].backend = pc'[c].kid
  BY RespawnsStep, InterruptStep
<1>3. /\ Meetings'
      /\ \A q \in Procs : q # c => (InHand(q)' <=> InHand(q)) /\ pc'[q] = pc[q]
      /\ \A q \in Procs : q # c /\ InHand(q) => q \in met' /\ c \in met'
      /\ \A d \in Conns : d # c /\ d \notin mixed' => d \notin mixed /\ ~InHand(d)
      /\ c \in Conns \ mixed' => \A q \in Procs : ~InHand(q)
      /\ mixed \subseteq mixed'
  BY <1>1, <1>2, BeginsOwnership
<1>4. SoleOwner'
  <2>. SUFFICES ASSUME NEW d \in (owned \ mixed)'
                PROVE  /\ owned' = {d}
                       /\ \A q \in Procs : InHand(q)' => q = d
                       /\ pc'[d].at \in {"idle", "told", "spawn", "own", "respawn", "restart"}
                       /\ ~At(d, "own")' => table' # 0 /\ obj'[table'].owner = d
    BY DEF SoleOwner
  <2>1. d = c /\ owned' = {c} /\ c \in owned \ mixed
    BY <1>1, <1>3 DEF Ownership, SoleOwner
  <2>2. table # 0 /\ obj[table].owner = c
    BY <1>1, <2>1 DEF Ownership, SoleOwner, At
  <2>. QED  BY <1>1, <1>2, <1>3, <2>1, <2>2
<1>5. OpensAlone'
  BY <1>2, <1>3 DEF OpensAlone, InHand, Procs
<1>6. SameObject'
  BY <1>1, <1>2, <1>3 DEF SameObject, InHand, At
<1>. QED  BY <1>3, <1>4, <1>5, <1>6 DEF Ownership

LEMMA DisconnectOwnership ==
  ASSUME TypeOK, Ownership, NEW c \in Conns, Disconnect(c)
  PROVE  Ownership'
<1>1. /\ ~InHand(c) /\ c \in Procs /\ Begin(c) /\ owned' = owned \ {c} /\ UNCHANGED table
  BY DEF Disconnect, InHand, At, Procs
<1>2. /\ OnlyProcess(c) /\ pc'[c].at \in {"gone", "detach"}
      /\ table = 0 \/ obj[table].owner # c => UNCHANGED obj /\ pc'[c].at = "gone"
  <2>1. /\ OnlyProcess(c)
        /\ \/ UNCHANGED obj /\ pc'[c] = Gone
           \/ table \in DOMAIN obj /\ obj[table].owner = c
              /\ (pc'[c] = Gone \/ pc'[c].at = "detach")
    BY DisconnectStep
  <2>2. table \in DOMAIN obj => table # 0
    BY Indices
  <2>. QED  BY <2>1, <2>2 DEF Gone, Rest
<1>3. /\ Meetings'
      /\ \A q \in Procs : q # c => (InHand(q)' <=> InHand(q)) /\ pc'[q] = pc[q]
      /\ \A q \in Procs : q # c /\ InHand(q) => q \in met' /\ c \in met'
      /\ \A d \in Conns : d # c /\ d \notin mixed' => d \notin mixed /\ ~InHand(d)
      /\ mixed \subseteq mixed'
  BY <1>1, <1>2, BeginsOwnership
<1>4. SoleOwner'
  <2>. SUFFICES ASSUME NEW d \in (owned \ mixed)'
                PROVE  /\ owned' = {d}
                       /\ \A q \in Procs : InHand(q)' => q = d
                       /\ pc'[d].at \in {"idle", "told", "spawn", "own", "respawn", "restart"}
                       /\ ~At(d, "own")' => table' # 0 /\ obj'[table'].owner = d
    BY DEF SoleOwner
  <2>1. d \in Conns /\ d \in Procs /\ d # c /\ d \in owned \ mixed /\ ~InHand(d)
    BY <1>1, <1>3 DEF TypeOK, Procs
  <2>2. /\ owned = {d} /\ owned' = {d} /\ pc[d].at = "idle" /\ table # 0 /\ obj[table].owner = d
        /\ \A q \in Procs : InHand(q) => q = d
    BY <1>1, <2>1 DEF Ownership, SoleOwner, InHand, At
  <2>3. UNCHANGED obj /\ pc'[c].at = "gone"
    BY <1>2, <2>1, <2>2
  <2>. QED  BY <1>1, <1>3, <2>1, <2>2, <2>3 DEF InHand
<1>5. OpensAlone' /\ SameObject'
  BY <1>2, <1>3 DEF OpensAlone, SameObject, InHand, At, Procs
<1>. QED  BY <1>3, <1>4, <1>5 DEF Ownership

LEMMA ExpireOwnership ==
  ASSUME TypeOK, Ownership, Expire
  PROVE  Ownership'
<1>1. /\ ~InHand(Reaper) /\ Reaper \in Procs /\ Reaper \notin Conns /\ None \notin Conns
      /\ Begin(Reaper) /\ UNCHANGED <<table, obj, owned>>
      /\ obj[table].owner = None /\ Goes(Reaper, "expired", table, 0) /\ table \in Nat /\ 0 \in Nat
  BY TableAssumption, Indices DEF Expire, InHand, At, Procs, TypeOK
<1>2. OnlyProcess(Reaper) /\ pc'[Reaper].at = "expired"
  <2>1. OnlyProcess(Reaper) /\ pc'[Reaper] = [at |-> "expired", obj |-> table, kid |-> 0]
    BY <1>1, GoesStep
  <2>. QED  BY <2>1
<1>3. /\ Meetings'
      /\ \A q \in Procs : q # Reaper => (InHand(q)' <=> InHand(q)) /\ pc'[q] = pc[q]
      /\ \A q \in Procs : q # Reaper /\ InHand(q) => q \in met' /\ Reaper \in met'
      /\ \A d \in Conns : d # Reaper /\ d \notin mixed' => d \notin mixed /\ ~InHand(d)
      /\ mixed \subseteq mixed'
  BY <1>1, <1>2, BeginsOwnership
<1>4. owned' \ mixed' = {}
  <2>1. ASSUME NEW d \in owned' \ mixed'
        PROVE  FALSE
    <3>1. d \in owned \ mixed /\ d \in Conns /\ ~InHand(d)
      BY <1>1, <1>3, <2>1 DEF TypeOK
    <3>2. obj[table].owner = d
      BY <3>1 DEF Ownership, SoleOwner, InHand, At
    <3>. QED  BY <1>1, <3>1, <3>2
  <2>. QED  BY <2>1
<1>5. SoleOwner'
  BY <1>4 DEF SoleOwner
<1>6. OpensAlone' /\ SameObject'
  BY <1>1, <1>2, <1>3 DEF OpensAlone, SameObject, InHand, At, Procs
<1>. QED  BY <1>3, <1>5, <1>6 DEF Ownership

LEMMA ChildOwnership ==
  ASSUME TypeOK, Ownership, NEW k \in DOMAIN kid, Child(k) \/ SoftKill(k) \/ Dies(k)
  PROVE  Ownership'
<1>1. UNCHANGED <<table, owned, pc, met, mixed>>
  BY DEF Child, Result, ResultOver, SoftKill, Dies, Exits, Stops, ghosts
<1>2. CASE ResultOver(k)
  <2>. DEFINE o == kid[k].of
  <2>1. o \in DOMAIN obj /\ OnlyObject(o) /\ obj'[o] = [obj[o] EXCEPT !.finishing = FALSE]
    BY <1>2, ResultOverStep
  <2>. HIDE DEF o
  <2>2. \A i \in DOMAIN obj :
          obj'[i].owner = obj[i].owner /\ obj'[i].backend = obj[i].backend
    BY <2>1, Indices DEF OnlyObject, Object
  <2>. QED  BY <1>1, <2>2, BackgroundOwnership
<1>3. CASE ~ResultOver(k)
  <2>1. UNCHANGED obj
    BY <1>3 DEF Child, Result, SoftKill, Dies, Exits, Stops
  <2>. QED  BY <1>1, <2>1, BackgroundOwnership
<1>. QED  BY <1>2, <1>3

LEMMA NextOwnership ==
  ASSUME TypeOK, Ownership, [Next]_vars
  PROVE  Ownership'
<1>1. ASSUME NEW c \in Conns, Request(c)
      PROVE  Ownership'
  <2>1. CASE User(c)
    BY <2>1, BackgroundOwnership DEF User
  <2>. QED  BY <1>1, <2>1, OpenNewOwnership, ResumeOwnership, DrivesOwnership, CloseOwnership,
            DisconnectOwnership DEF Request
<1>2. ASSUME NEW c \in Conns, Handler(c)
      PROVE  Ownership'
  BY <1>2, ToldOwnership, SpawnedOwnership, AttachOwnership, RemoversOwnership,
     ReturnersOwnership DEF Handler
<1>3. CASE Expire
  BY <1>3, ExpireOwnership
<1>4. CASE Reap
  <2>1. InHand(Reaper) /\ Remove(Reaper) /\ UNCHANGED <<owned, met, mixed>>
        /\ Reaper \in Procs /\ Reaper \notin owned'
    BY <1>4, TableAssumption DEF Reap, InHand, At, ghosts, Procs, TypeOK
  <2>. QED  BY <2>1, RemoveOwnership
<1>5. CASE Closed(Reaper)
  <2>1. /\ InHand(Reaper) /\ ~At(Reaper, "own") /\ Returns(Reaper) /\ Reaper \in Procs
        /\ UNCHANGED <<table, obj, owned, met, mixed>>
    BY <1>5 DEF Closed, InHand, At, ghosts, Procs
  <2>. QED  BY <2>1, ReturnsStep, ReturnOwnership DEF Ownership, Meetings
<1>6. ASSUME NEW k \in DOMAIN kid, Child(k) \/ SoftKill(k) \/ Dies(k)
      PROVE  Ownership'
  BY <1>6, ChildOwnership
<1>7. CASE UNCHANGED vars
  BY <1>7, BackgroundOwnership DEF vars, ghosts
<1>. QED  BY <1>1, <1>2, <1>3, <1>4, <1>5, <1>6, <1>7 DEF Next, ReaperStep

LEMMA InitOwnership == Init => Ownership
BY DEF Init, Ownership, Meetings, SoleOwner, OpensAlone, SameObject, Rest, InHand, At

(* For any number of connections: one that may drive the session, and met  *)
(* nobody, is the one its events go to, whatever failed before (daemon.py, *)
(* _handle_open and notify_session_taken; session.py, reap_idle).          *)
THEOREM OwnersHaveTheirSession == Spec => []OwnerHasSession
<1>1. Ownership => OwnerHasSession
  BY DEF Ownership, SoleOwner, OwnerHasSession, At
<1>2. TypeOK /\ Ownership /\ [Next]_vars => TypeOK' /\ Ownership'
  BY NextType, NextOwnership
<1>. QED  BY <1>1, <1>2, InitType, InitOwnership, PTL DEF Spec

-----------------------------------------------------------------------------
(* No child is left running.                                               *)

Ended(k) == kid[k].runs => kid[k].closing \/ k \in crossed

(* Whoever waits for the end of a child waits for one that is being closed *)
(* or has met another operation; so has the child that the session has     *)
(* when a soft detach forgets it.                                          *)
Closing ==
  \A p \in Procs :
    /\ pc[p].at \in {"close", "restart", "detach"} => Ended(pc[p].kid)
    /\ At(p, "detach") /\ obj[pc[p].obj].backend # 0 => Ended(obj[pc[p].obj].backend)

(* A child that is being spawned does not run, and none that runs is lost  *)
(* when it takes its place, unless it has met another operation.           *)
Quiet ==
  \A p \in Procs : pc[p].at \in {"spawn", "respawn"} =>
    /\ kid[pc[p].kid].runs => pc[p].kid \in crossed
    /\ Serves(pc[p].obj) => obj[pc[p].obj].backend \in crossed

Accounted == NoLeak /\ Closing /\ Quiet

(* No process moves, and no child starts.                                  *)
LEMMA BackgroundAccounted ==
  ASSUME TypeOK, TypeOK', Accounted, UNCHANGED <<table, pc>>,
         DOMAIN kid' = DOMAIN kid, DOMAIN obj' = DOMAIN obj,
         \A o \in DOMAIN obj : obj'[o].backend = obj[o].backend,
         \A k \in DOMAIN kid : kid'[k].runs =>
           /\ kid[k].runs /\ (k \in crossed => k \in crossed')
           /\ kid[k].closing => kid'[k].closing
           /\ kid[k].doomed => kid'[k].doomed \/ kid'[k].closing
  PROVE  Accounted'
<1>1. NoLeak'
  BY Indices DEF Accounted, NoLeak
<1>2. Closing'
  <2>1. \A k \in DOMAIN kid : Ended(k) => Ended(k)'
    BY DEF Ended
  <2>. QED  BY <2>1, Indices, Holds DEF Accounted, Closing, At
<1>3. Quiet'
  BY Indices, Holds DEF Accounted, Quiet, Serves, Running
<1>. QED  BY <1>1, <1>2, <1>3 DEF Accounted

(* A process lets go of what it held; a session that forgets its child or  *)
(* goes has none that runs, or one whose end is near.                      *)
LEMMA ReleaseAccounted ==
  ASSUME TypeOK, TypeOK', Accounted, NEW p \in Procs, OnlyProcess(p), pc'[p].kid = 0,
         UNCHANGED <<kid, crossed>>,
         pc[p].kid # 0 => (kid[pc[p].kid].runs => pc[p].kid \in crossed),
         DOMAIN obj \subseteq DOMAIN obj',
         \A o \in DOMAIN obj :
           \/ obj'[o].backend = obj[o].backend
           \/ obj'[o].backend = 0 /\ (obj[o].backend = 0 \/ Ended(obj[o].backend)),
         table' = table \/ (table # 0 => ~Serves(table))
  PROVE  Accounted'
<1>1. pc'[p].at \notin {"spawn", "respawn", "restart", "close", "detach"}
  BY DEF TypeOK, PlaceType
<1>2. NoLeak'
  BY Indices DEF Accounted, NoLeak, OnlyProcess, Serves, Running, Ended
<1>3. Closing'
  BY <1>1, Indices, Holds DEF Accounted, Closing, OnlyProcess, At, Ended
<1>4. Quiet'
  BY <1>1, Indices, Holds DEF Accounted, Quiet, OnlyProcess, Serves, Running
<1>. QED  BY <1>2, <1>3, <1>4 DEF Accounted

(* A process waits for the end of a child, be it that of a session that it *)
(* has just removed.                                                       *)
LEMMA KillAccounted ==
  ASSUME TypeOK, TypeOK', Accounted, NEW p \in Procs, OnlyProcess(p),
         NEW k \in DOMAIN kid, OnlyChild(k), kid'[k] = [kid[k] EXCEPT !.closing = TRUE],
         pc'[p].at \in {"close", "restart", "detach"}, pc'[p].kid = k,
         pc'[p].at = "detach" => pc'[p].obj \in DOMAIN obj /\ obj[pc'[p].obj].backend = k,
         UNCHANGED crossed,
         pc[p].kid # 0 => (kid[pc[p].kid].runs => pc[p].kid \in crossed),
         DOMAIN obj' = DOMAIN obj,
         \A o \in DOMAIN obj : obj'[o].backend = obj[o].backend,
         table' = table \/ obj[table].backend = k
  PROVE  Accounted'
<1>1. /\ DOMAIN kid' = DOMAIN kid /\ kid'[k].closing
      /\ \A i \in DOMAIN kid : /\ kid'[i].runs = kid[i].runs /\ kid'[i].doomed = kid[i].doomed
                               /\ kid[i].closing => kid'[i].closing
                               /\ Ended(i) => Ended(i)'
  <2>1. kid'[k].closing /\ kid'[k].runs = kid[k].runs /\ kid'[k].doomed = kid[k].doomed
    BY Indices DEF Backend
  <2>. QED  BY <2>1 DEF OnlyChild, Ended
<1>2. NoLeak'
  <2>. SUFFICES ASSUME NEW i \in DOMAIN kid, kid'[i].runs, i \notin crossed', i # k
                PROVE  \/ table' # 0 /\ obj'[table'].backend = i
                       \/ kid'[i].closing \/ kid'[i].doomed
                       \/ \E q \in Procs : pc'[q].kid = i
    BY <1>1 DEF NoLeak
  <2>1. \/ table # 0 /\ obj[table].backend = i
        \/ kid[i].closing \/ kid[i].doomed
        \/ \E q \in Procs : pc[q].kid = i
    BY <1>1 DEF Accounted, NoLeak
  <2>2. ASSUME NEW q \in Procs, pc[q].kid = i
        PROVE  pc'[q].kid = i
    <3>1. q # p
      BY <1>1, <2>2, Indices
    <3>. QED  BY <2>2, <3>1 DEF OnlyProcess
  <2>. QED  BY <1>1, <2>1, <2>2, Indices
<1>3. Closing'
  <2>. SUFFICES ASSUME NEW q \in Procs
                PROVE  /\ pc'[q].at \in {"close", "restart", "detach"} => Ended(pc[q].kid)'
                       /\ pc'[q].at = "detach" /\ obj'[pc'[q].obj].backend # 0
                            => Ended(obj[pc[q].obj].backend)'
    BY DEF Closing, At
  <2>1. Ended(k)'
    BY <1>1 DEF Ended
  <2>2. CASE q = p
    BY <2>1, <2>2
  <2>3. CASE q # p
    BY <1>1, <2>3, Indices, Holds DEF Accounted, Closing, OnlyProcess, At
  <2>. QED  BY <2>2, <2>3
<1>4. Quiet'
  <2>. SUFFICES ASSUME NEW q \in Procs, pc'[q].at \in {"spawn", "respawn"}
                PROVE  /\ kid'[pc'[q].kid].runs => pc'[q].kid \in crossed'
                       /\ Serves(pc[q].obj)' => obj'[pc'[q].obj].backend \in crossed'
    BY DEF Quiet
  <2>1. q # p /\ pc'[q] = pc[q] /\ pc[q].kid \in DOMAIN kid /\ pc[q].obj \in DOMAIN obj
    BY Holds DEF OnlyProcess
  <2>2. obj'[pc[q].obj].backend = obj[pc[q].obj].backend
        /\ (obj[pc[q].obj].backend # 0 => obj[pc[q].obj].backend \in DOMAIN kid)
    BY <2>1, Indices
  <2>. QED  BY <1>1, <2>1, <2>2 DEF Accounted, Quiet, Serves, Running
<1>. QED  BY <1>2, <1>3, <1>4 DEF Accounted

LEMMA RemoveAccounted ==
  ASSUME TypeOK, TypeOK', Accounted, NEW p \in Procs, Remove(p),
         pc[p].kid # 0 => (kid[pc[p].kid].runs => pc[p].kid \in crossed),
         UNCHANGED <<obj, crossed>>
  PROVE  Accounted'
<1>. DEFINE k == obj[table].backend
<1>1. CASE /\ k \in DOMAIN kid /\ OnlyChild(k) /\ kid'[k] = [kid[k] EXCEPT !.closing = TRUE]
           /\ pc'[p] = [at |-> "close", obj |-> 0, kid |-> k] /\ OnlyProcess(p)
  <2>. HIDE DEF k
  <2>1. pc'[p].at = "close" /\ pc'[p].kid = k
    BY <1>1
  <2>. QED  BY <1>1, <2>1, KillAccounted DEF k
<1>2. CASE /\ ~(table # 0 /\ Serves(table)) /\ UNCHANGED kid /\ OnlyProcess(p)
           /\ pc'[p] = IF pc[p].at = "detach" THEN Gone ELSE Rest
  <2>1. pc'[p].kid = 0
    BY <1>2 DEF Gone, Rest
  <2>. QED  BY <1>2, <2>1, ReleaseAccounted
<1>. QED  BY <1>1, <1>2, RemoveStep

(* A child is made for a process to spawn.                                 *)
LEMMA NewChildAccounted ==
  ASSUME TypeOK, TypeOK', Accounted, NEW p \in Procs, OnlyProcess(p), NEW o \in DOMAIN obj',
         NewChild(o), pc'[p].obj = o, pc'[p].kid = Len(kid) + 1,
         pc'[p].at \in {"spawn", "respawn"}, pc[p].kid = 0,
         obj'[o].backend = 0 \/ (o \in DOMAIN obj /\ ~Serves(o)),
         DOMAIN obj \subseteq DOMAIN obj',
         \A i \in DOMAIN obj : obj'[i].backend = obj[i].backend,
         table' = table \/ table = 0, UNCHANGED crossed
  PROVE  Accounted'
<1>1. /\ \A i \in DOMAIN kid' : i \in DOMAIN kid \/ (i = Len(kid) + 1 /\ ~kid'[i].runs)
      /\ \A i \in DOMAIN kid : kid'[i] = kid[i] /\ i # Len(kid) + 1 /\ i \in DOMAIN kid'
      /\ Len(kid) + 1 \in DOMAIN kid' /\ Len(kid) + 1 # 0
  BY Indices DEF NewChild, NewBackend
<1>2. NoLeak'
  <2>. SUFFICES ASSUME NEW i \in DOMAIN kid, kid[i].runs, i \notin crossed
                PROVE  \/ table' # 0 /\ obj'[table'].backend = i
                       \/ kid'[i].closing \/ kid'[i].doomed
                       \/ \E q \in Procs : pc'[q].kid = i
    BY <1>1 DEF NoLeak
  <2>1. \/ table # 0 /\ obj[table].backend = i
        \/ kid[i].closing \/ kid[i].doomed
        \/ \E q \in Procs : pc[q].kid = i
    BY DEF Accounted, NoLeak
  <2>2. ASSUME NEW q \in Procs, pc[q].kid = i
        PROVE  pc'[q].kid = i
    <3>1. q # p
      BY <2>2, Indices
    <3>. QED  BY <2>2, <3>1 DEF OnlyProcess
  <2>. QED  BY <1>1, <2>1, <2>2, Indices
<1>3. \A q \in Procs : q # p => pc'[q] = pc[q]
  BY DEF OnlyProcess
<1>4. Closing'
  <2>. SUFFICES ASSUME NEW q \in Procs, q # p
                PROVE  /\ pc[q].at \in {"close", "restart", "detach"} => Ended(pc[q].kid)'
                       /\ pc[q].at = "detach" /\ obj'[pc[q].obj].backend # 0
                            => (Ended(obj[pc[q].obj].backend))'
    BY <1>3 DEF Closing, At
  <2>1. \A i \in DOMAIN kid : Ended(i) => Ended(i)'
    BY <1>1 DEF Ended
  <2>. QED  BY <1>3, <2>1, Indices, Holds DEF Accounted, Closing, At
<1>5. Quiet'
  <2>. SUFFICES ASSUME NEW q \in Procs, pc'[q].at \in {"spawn", "respawn"}
                PROVE  /\ kid'[pc'[q].kid].runs => pc'[q].kid \in crossed'
                       /\ Serves(pc[q].obj)' => obj'[pc'[q].obj].backend \in crossed'
    BY DEF Quiet
  <2>1. CASE q = p
    <3>1. ~kid'[Len(kid) + 1].runs
      BY DEF NewChild, NewBackend
    <3>2. ~Serves(o)'
      BY <1>1, Indices DEF Serves, Running
    <3>. QED  BY <2>1, <3>1, <3>2
  <2>2. CASE q # p
    <3>1. pc'[q] = pc[q] /\ pc[q].kid \in DOMAIN kid /\ pc[q].obj \in DOMAIN obj
      BY <1>3, <2>2, Holds
    <3>2. /\ obj'[pc[q].obj].backend = obj[pc[q].obj].backend
          /\ (obj[pc[q].obj].backend # 0 => obj[pc[q].obj].backend \in DOMAIN kid)
      BY <3>1, Indices
    <3>. QED  BY <1>1, <3>1, <3>2 DEF Accounted, Quiet, Serves, Running
  <2>. QED  BY <2>1, <2>2
<1>. QED  BY <1>2, <1>4, <1>5 DEF Accounted

(* A child starts: it is the one of the session, or has met somebody.      *)
LEMMA StartAccounted ==
  ASSUME TypeOK, TypeOK', Accounted, Meetings, NEW p \in Procs, InHand(p), OnlyProcess(p),
         pc'[p].kid = 0, NEW k \in DOMAIN kid, k = pc[p].kid,
         OnlyChild(k), kid'[k].runs, kid[k].closing => kid'[k].closing, Starts(p, k),
         DOMAIN obj' = DOMAIN obj, UNCHANGED table,
         \A o \in DOMAIN obj :
           \/ obj'[o].backend = obj[o].backend
           \/ o = pc[p].obj /\ pc[p].at \in {"spawn", "respawn"} /\ obj'[o].backend = k,
         p \notin met => table \in DOMAIN obj /\ obj'[table].backend = k
  PROVE  Accounted'
<1>1. /\ \A q \in Procs : q # p => pc'[q] = pc[q]
      /\ DOMAIN kid' = DOMAIN kid /\ \A i \in DOMAIN kid : i # k => kid'[i] = kid[i]
      /\ crossed \subseteq crossed' /\ (p \in met => k \in crossed')
      /\ pc'[p].at \notin {"spawn", "respawn", "restart", "close", "detach"}
      /\ \A q \in Procs : q # p /\ InHand(q) => k \in crossed'
  BY DEF OnlyProcess, OnlyChild, Starts, Meetings, TypeOK, PlaceType
<1>2. NoLeak'
  <2>. SUFFICES ASSUME NEW i \in DOMAIN kid, kid'[i].runs, i \notin crossed'
                PROVE  \/ table' # 0 /\ obj'[table'].backend = i
                       \/ kid'[i].closing \/ kid'[i].doomed
                       \/ \E q \in Procs : pc'[q].kid = i
    BY <1>1 DEF NoLeak
  <2>1. CASE i = k
    BY <1>1, <2>1, Indices
  <2>2. CASE i # k
    <3>1. kid[i].runs /\ i \notin crossed /\ kid'[i] = kid[i]
      BY <1>1, <2>2
    <3>2. \/ table # 0 /\ obj[table].backend = i
          \/ kid[i].closing \/ kid[i].doomed
          \/ \E q \in Procs : pc[q].kid = i
      BY <3>1 DEF Accounted, NoLeak
    <3>3. ASSUME table # 0, obj[table].backend = i
          PROVE  obj'[table].backend = i
      <4>1. ~(table = pc[p].obj /\ pc[p].at \in {"spawn", "respawn"})
        BY <3>1, <3>3, Indices DEF Accounted, Quiet, Serves, Running
      <4>. QED  BY <3>3, <4>1, Indices
    <3>4. ASSUME NEW q \in Procs, pc[q].kid = i
          PROVE  pc'[q].kid = i
      BY <1>1, <2>2, <3>4
    <3>. QED  BY <3>1, <3>2, <3>3, <3>4
  <2>. QED  BY <2>1, <2>2
<1>3. \A i \in DOMAIN kid : Ended(i) /\ i # k => Ended(i)'
  BY <1>1 DEF Ended
<1>4. Closing'
  <2>. SUFFICES ASSUME NEW q \in Procs, q # p, pc[q].at \in {"close", "restart", "detach"}
                PROVE  /\ Ended(pc[q].kid)'
                       /\ pc[q].at = "detach" /\ obj'[pc[q].obj].backend # 0
                            => (Ended(obj[pc[q].obj].backend))'
    BY <1>1 DEF Closing, At
  <2>1. k \in crossed' /\ Ended(k)'
    BY <1>1 DEF InHand, Ended
  <2>2. pc[q].kid \in DOMAIN kid /\ Ended(pc[q].kid)
    BY Holds DEF Accounted, Closing
  <2>3. ASSUME pc[q].at = "detach", obj'[pc[q].obj].backend # 0
        PROVE  Ended(obj[pc[q].obj].backend)'
    <3>1. pc[q].obj \in DOMAIN obj
      BY <2>3, Holds
    <3>2. obj'[pc[q].obj].backend = k \/ obj'[pc[q].obj].backend = obj[pc[q].obj].backend
      BY <3>1
    <3>3. obj[pc[q].obj].backend # 0
            => obj[pc[q].obj].backend \in DOMAIN kid /\ Ended(obj[pc[q].obj].backend)
      BY <2>3, <3>1, Indices DEF Accounted, Closing, At
    <3>. QED  BY <1>1, <1>3, <2>1, <2>3, <3>2, <3>3
  <2>. QED  BY <1>1, <1>3, <2>1, <2>2, <2>3
<1>5. Quiet'
  <2>. SUFFICES ASSUME NEW q \in Procs, pc'[q].at \in {"spawn", "respawn"}
                PROVE  /\ kid'[pc'[q].kid].runs => pc'[q].kid \in crossed'
                       /\ Serves(pc[q].obj)' => obj'[pc'[q].obj].backend \in crossed'
    BY DEF Quiet
  <2>1. q # p /\ pc'[q] = pc[q] /\ pc[q].kid \in DOMAIN kid /\ pc[q].obj \in DOMAIN obj
        /\ k \in crossed'
    BY <1>1, Holds DEF InHand
  <2>2. obj[pc[q].obj].backend # 0 => obj[pc[q].obj].backend \in DOMAIN kid
    BY <2>1, Indices
  <2>3. \/ obj'[pc[q].obj].backend = obj[pc[q].obj].backend
        \/ obj'[pc[q].obj].backend = k
    BY <2>1
  <2>. QED  BY <1>1, <2>1, <2>2, <2>3 DEF Accounted, Quiet, Serves, Running
<1>. QED  BY <1>2, <1>4, <1>5 DEF Accounted

(* What a process holds that is about to let go of it.                     *)
LEMMA HeldQuiet ==
  ASSUME TypeOK, Accounted, NEW p \in Procs,
         \/ pc[p].at \notin {"close", "restart", "detach"}
         \/ ~kid[pc[p].kid].closing
  PROVE  pc[p].kid # 0 => (kid[pc[p].kid].runs => pc[p].kid \in crossed)
BY DEF TypeOK, PlaceType, Accounted, Quiet, Closing, Ended

LEMMA OpenNewAccounted ==
  ASSUME TypeOK, TypeOK', Accounted, NEW c \in Conns, OpenNew(c)
  PROVE  Accounted'
<1>. DEFINE n == Len(obj) + 1
<1>1. /\ pc[c].at = "idle" /\ c \in Procs /\ table = 0 /\ n \in Nat /\ UNCHANGED crossed
      /\ OpenWith(c, n, Append(obj, NewSession))
  BY Indices DEF OpenNew, At, Procs
<1>2. /\ obj' = Append(obj, NewSession) /\ OpenWith(c, n, obj')
  BY <1>1, OpenStep
<1>3. /\ n \in DOMAIN obj' /\ DOMAIN obj \subseteq DOMAIN obj' /\ obj'[n].backend = 0
      /\ \A i \in DOMAIN obj : obj'[i] = obj[i]
  BY <1>2, Indices, AppendProperties, LenProperties DEF TypeOK, ObjectType, NewSession
<1>4. pc[c].kid = 0
  BY <1>1 DEF TypeOK, PlaceType
<1>. HIDE DEF n
<1>5. /\ OnlyProcess(c)
      /\ \/ NewChild(n) /\ pc'[c] = [at |-> "spawn", obj |-> n, kid |-> Len(kid) + 1]
         \/ UNCHANGED kid /\ pc'[c] = Rest
  BY <1>1, <1>2, <1>3, OpenStep DEF Running
<1>6. CASE NewChild(n) /\ pc'[c] = [at |-> "spawn", obj |-> n, kid |-> Len(kid) + 1]
  BY <1>1, <1>3, <1>4, <1>5, <1>6, NewChildAccounted
<1>7. CASE UNCHANGED kid /\ pc'[c] = Rest
  BY <1>1, <1>3, <1>4, <1>5, <1>7, ReleaseAccounted DEF Rest
<1>. QED  BY <1>5, <1>6, <1>7

LEMMA FoundAccounted ==
  ASSUME TypeOK, TypeOK', Accounted, NEW c \in Conns, NEW o \in DOMAIN obj,
         OpenWith(c, o, obj), pc[c].kid = 0, UNCHANGED <<table, crossed>>
  PROVE  Accounted'
<1>. c \in Procs /\ o \in Nat
  BY Indices DEF Procs
<1>1. /\ OnlyProcess(c) /\ obj' = obj
      /\ \/ UNCHANGED kid /\ pc'[c].kid = 0
         \/ /\ ~Running(obj[o].backend) /\ NewChild(o)
            /\ pc'[c] = [at |-> "spawn", obj |-> o, kid |-> Len(kid) + 1]
  <2>1. /\ OnlyProcess(c) /\ obj' = obj
        /\ \/ UNCHANGED kid /\ pc'[c] = [at |-> "own", obj |-> o, kid |-> 0]
           \/ /\ ~Running(obj[o].backend) /\ NewChild(o)
              /\ pc'[c] = [at |-> "spawn", obj |-> o, kid |-> Len(kid) + 1]
           \/ UNCHANGED kid /\ pc'[c] = Rest
    BY OpenStep
  <2>2. pc'[c] = [at |-> "own", obj |-> o, kid |-> 0] \/ pc'[c] = Rest => pc'[c].kid = 0
    BY DEF Rest
  <2>. QED  BY <2>1, <2>2
<1>2. CASE UNCHANGED kid /\ pc'[c].kid = 0
  BY <1>1, <1>2, ReleaseAccounted
<1>3. CASE /\ ~Running(obj[o].backend) /\ NewChild(o)
           /\ pc'[c] = [at |-> "spawn", obj |-> o, kid |-> Len(kid) + 1]
  BY <1>1, <1>3, NewChildAccounted DEF Serves
<1>. QED  BY <1>1, <1>2, <1>3

LEMMA OpensAccounted ==
  ASSUME TypeOK, TypeOK', Accounted, NEW c \in Conns, Resume(c) \/ Told(c)
  PROVE  Accounted'
<1>1. /\ c \in Procs /\ pc[c].at \in {"idle", "told"} /\ UNCHANGED <<table, crossed>>
      /\ pc[c].kid = 0
  BY DEF Resume, Told, At, Procs, TypeOK, PlaceType
<1>2. CASE Resume(c)
  <2>1. table \in DOMAIN obj /\ table \in Nat /\ 0 \in Nat
    BY <1>2, Indices DEF Resume
  <2>2. CASE OpenWith(c, table, obj)
    BY <1>1, <2>1, <2>2, FoundAccounted
  <2>3. CASE Goes(c, "told", table, 0) /\ UNCHANGED <<obj, kid>>
    <3>1. OnlyProcess(c) /\ pc'[c] = [at |-> "told", obj |-> table, kid |-> 0]
      BY <1>1, <2>1, <2>3, GoesStep
    <3>. QED  BY <1>1, <2>3, <3>1, ReleaseAccounted
  <2>. QED  BY <1>2, <2>2, <2>3 DEF Resume
<1>3. CASE Told(c)
  <2>1. pc[c].obj \in DOMAIN obj
    BY <1>1, <1>3, Holds DEF Told, At
  <2>. QED  BY <1>1, <1>3, <2>1, FoundAccounted DEF Told
<1>. QED  BY <1>2, <1>3

LEMMA StartsAccounted ==
  ASSUME TypeOK, TypeOK', Accounted, Ownership, NEW c \in Conns,
         Spawned(c) \/ Respawned(c) \/ Restarted(c)
  PROVE  Accounted'
<1>. DEFINE k == pc[c].kid  o == pc[c].obj
<1>1. c \in Procs /\ InHand(c) /\ UNCHANGED table /\ Meetings
  BY DEF Procs, InHand, At, Spawned, Respawned, Restarted, Ownership
<1>2. ASSUME pc[c].at \in {"spawn", "respawn"}, k \in DOMAIN kid, OnlyChild(k),
             kid'[k].runs, kid'[k].closing = kid[k].closing, o \in DOMAIN obj, OnlyObject(o),
             obj'[o] = [obj[o] EXCEPT !.backend = k], OnlyProcess(c), pc'[c].kid = 0, Starts(c, k)
      PROVE  Accounted'
  <2>1. obj'[o].backend = k /\ DOMAIN obj' = DOMAIN obj
        /\ \A i \in DOMAIN obj : i # o => obj'[i] = obj[i]
    BY <1>2, Indices DEF Object, OnlyObject
  <2>2. c \notin met => table \in DOMAIN obj /\ obj'[table].backend = k
    BY <1>1, <1>2, <2>1 DEF Ownership, SameObject
  <2>3. \A i \in DOMAIN obj :
          \/ obj'[i].backend = obj[i].backend
          \/ i = pc[c].obj /\ pc[c].at \in {"spawn", "respawn"} /\ obj'[i].backend = k
    BY <1>2, <2>1
  <2>4. k = pc[c].kid /\ (kid[k].closing => kid'[k].closing)
    BY <1>2
  <2>. HIDE DEF k, o
  <2>. QED  BY <1>1, <1>2, <2>1, <2>2, <2>3, <2>4, StartAccounted
<1>3. CASE Spawned(c)
  <2>1. /\ k \in DOMAIN kid /\ OnlyChild(k) /\ kid'[k] = [kid[k] EXCEPT !.runs = TRUE]
        /\ o \in DOMAIN obj /\ OnlyObject(o) /\ obj'[o] = [obj[o] EXCEPT !.backend = k]
        /\ OnlyProcess(c) /\ pc'[c] = [at |-> "own", obj |-> o, kid |-> 0]
        /\ Starts(c, k) /\ pc[c].at = "spawn"
    BY <1>3, SpawnedStep DEF Spawned, At
  <2>. HIDE DEF k, o
  <2>2. kid'[k].runs /\ kid'[k].closing = kid[k].closing /\ pc'[c].kid = 0
    BY <2>1, Indices DEF Backend
  <2>. QED  BY <1>2, <2>1, <2>2
<1>4. CASE Respawned(c)
  <2>1. /\ k \in DOMAIN kid /\ OnlyChild(k)
        /\ kid'[k] = [kid[k] EXCEPT !.runs = TRUE, !.sender = c]
        /\ o \in DOMAIN obj /\ OnlyObject(o) /\ obj'[o] = [obj[o] EXCEPT !.backend = k]
        /\ OnlyProcess(c) /\ pc'[c] = Rest
        /\ Starts(c, k) /\ pc[c].at = "respawn"
    BY <1>4, RespawnedStep DEF Respawned, At
  <2>. HIDE DEF k, o
  <2>2. kid'[k].runs /\ kid'[k].closing = kid[k].closing /\ pc'[c].kid = 0
    BY <2>1, Indices DEF Backend, Rest
  <2>. QED  BY <1>2, <2>1, <2>2
<1>5. CASE Restarted(c)
  <2>1. /\ OnlyProcess(c) /\ pc'[c] = Rest /\ k \in DOMAIN kid /\ ~kid[k].closing
        /\ pc[c].at = "restart" /\ UNCHANGED obj
        /\ \/ /\ OnlyChild(k) /\ kid'[k] = [kid[k] EXCEPT !.runs = TRUE, !.late = TRUE]
              /\ Starts(c, k)
           \/ UNCHANGED <<kid, crossed>>
    BY <1>5, RestartedStep DEF Restarted, At
  <2>2. pc'[c].kid = 0
    BY <2>1 DEF Rest
  <2>3. c \notin met => table = o /\ table \in DOMAIN obj /\ obj[table].backend = k
    BY <1>1, <2>1, Holds DEF Ownership, SameObject, At
  <2>4. k # 0 => (kid[k].runs => k \in crossed)
    BY <1>1, <2>1, HeldQuiet
  <2>5. CASE UNCHANGED <<kid, crossed>>
    BY <1>1, <2>1, <2>2, <2>4, <2>5, ReleaseAccounted
  <2>6. CASE /\ OnlyChild(k) /\ kid'[k] = [kid[k] EXCEPT !.runs = TRUE, !.late = TRUE]
             /\ Starts(c, k)
    <3>1. kid'[k].runs
      <4>. HIDE DEF k
      <4>. QED  BY <2>1, <2>6, Indices DEF Backend
    <3>. QED  BY <1>1, <2>1, <2>2, <2>3, <2>6, <3>1, StartAccounted
  <2>. QED  BY <2>1, <2>5, <2>6
<1>. QED  BY <1>3, <1>4, <1>5

LEMMA RemovesAccounted ==
  ASSUME TypeOK, TypeOK', Accounted, NEW p \in Procs,
         \/ p \in Conns /\ (SpawnFails(p) \/ Farewell(p) \/ Close(p))
         \/ p = Reaper /\ Reap
  PROVE  Accounted'
<1>1. /\ pc[p].at \in {"spawn", "farewell", "idle", "expired"} /\ UNCHANGED <<obj, crossed>>
  BY DEF SpawnFails, Farewell, Close, Reap, At, ghosts
<1>2. pc[p].kid # 0 => (kid[pc[p].kid].runs => pc[p].kid \in crossed)
  BY <1>1, HeldQuiet
<1>3. CASE Remove(p)
  BY <1>1, <1>2, <1>3, RemoveAccounted
<1>4. CASE Goes(p, "farewell", table, 0) /\ UNCHANGED <<table, kid>>
  <2>1. table \in Nat /\ 0 \in Nat
    BY Indices
  <2>2. OnlyProcess(p) /\ pc'[p] = [at |-> "farewell", obj |-> table, kid |-> 0]
    BY <1>4, <2>1, GoesStep
  <2>. QED  BY <1>1, <1>2, <1>4, <2>2, ReleaseAccounted
<1>. QED  BY <1>3, <1>4 DEF SpawnFails, Farewell, Close, Reap

LEMMA ReturnsAccounted ==
  ASSUME TypeOK, TypeOK', Accounted, NEW p \in Procs, Returns(p),
         \/ pc[p].at \notin {"close", "restart", "detach"}
         \/ ~kid[pc[p].kid].closing,
         UNCHANGED <<table, kid, crossed>>,
         DOMAIN obj' = DOMAIN obj,
         \A o \in DOMAIN obj :
           \/ obj'[o].backend = obj[o].backend
           \/ obj'[o].backend = 0 /\ (obj[o].backend = 0 \/ Ended(obj[o].backend))
  PROVE  Accounted'
<1>1. OnlyProcess(p) /\ pc'[p].kid = 0
  BY ReturnsStep DEF Rest, Gone
<1>. QED  BY <1>1, HeldQuiet, ReleaseAccounted

LEMMA HandlersAccounted ==
  ASSUME TypeOK, TypeOK', Accounted, NEW c \in Conns,
         SpawnBreaks(c) \/ RespawnFails(c) \/ Closed(c) \/ Attach(c) \/ Detached(c)
  PROVE  Accounted'
<1>. c \in Procs
  BY DEF Procs
<1>1. CASE SpawnBreaks(c) \/ RespawnFails(c) \/ Closed(c)
  <2>1. /\ Returns(c) /\ UNCHANGED <<table, obj, kid, crossed>>
        /\ \/ pc[c].at \notin {"close", "restart", "detach"}
           \/ ~kid[pc[c].kid].closing
    BY <1>1 DEF SpawnBreaks, RespawnFails, Closed, At, ghosts
  <2>. QED  BY <2>1, ReturnsAccounted
<1>2. CASE Attach(c)
  <2>. DEFINE o == pc[c].obj
  <2>1. /\ Returns(c) /\ UNCHANGED <<table, kid, crossed>> /\ pc[c].at = "own"
        /\ o \in DOMAIN obj /\ OnlyObject(o)
        /\ obj'[o] = [obj[o] EXCEPT !.owner = c, !.detached = FALSE]
    BY <1>2, AttachStep DEF Attach, At, ghosts
  <2>. HIDE DEF o
  <2>2. DOMAIN obj' = DOMAIN obj /\ \A i \in DOMAIN obj : obj'[i].backend = obj[i].backend
    BY <2>1, Indices DEF OnlyObject, Object
  <2>. QED  BY <2>1, <2>2, ReturnsAccounted
<1>3. CASE Detached(c)
  <2>. DEFINE o == pc[c].obj
  <2>1. /\ Returns(c) /\ UNCHANGED <<table, kid, crossed>> /\ pc[c].at = "detach"
        /\ ~kid[pc[c].kid].closing /\ o \in DOMAIN obj /\ OnlyObject(o)
        /\ obj'[o] = [obj[o] EXCEPT !.backend = 0]
    BY <1>3, DetachedStep DEF Detached, At, ghosts
  <2>2. obj[o].backend = 0 \/ Ended(obj[o].backend)
    BY <2>1 DEF Accounted, Closing, At
  <2>. HIDE DEF o
  <2>3. DOMAIN obj' = DOMAIN obj /\ \A i \in DOMAIN obj :
           \/ obj'[i].backend = obj[i].backend
           \/ obj'[i].backend = 0 /\ i = o
    BY <2>1, Indices DEF OnlyObject, Object
  <2>. QED  BY <2>1, <2>2, <2>3, ReturnsAccounted
<1>. QED  BY <1>1, <1>2, <1>3

LEMMA RequestsAccounted ==
  ASSUME TypeOK, TypeOK', Accounted, NEW c \in Conns,
         UserRespawns(c) \/ Interrupt(c) \/ Disconnect(c)
  PROVE  Accounted'
<1>1. /\ c \in Procs /\ pc[c].at = "idle" /\ pc[c].kid = 0 /\ UNCHANGED <<table, crossed>>
  BY DEF UserRespawns, Interrupt, Disconnect, At, Procs, TypeOK, PlaceType
<1>2. CASE UserRespawns(c)
  <2>1. /\ table \in DOMAIN obj /\ NewChild(table) /\ OnlyProcess(c)
        /\ pc'[c] = [at |-> "respawn", obj |-> table, kid |-> Len(kid) + 1]
        /\ ~Serves(table) /\ UNCHANGED obj
    BY <1>2, RespawnsStep DEF UserRespawns
  <2>. QED  BY <1>1, <2>1, NewChildAccounted
<1>3. CASE Interrupt(c)
  <2>. DEFINE k == obj[table].backend
  <2>1. /\ k \in DOMAIN kid /\ OnlyChild(k) /\ kid'[k] = [kid[k] EXCEPT !.closing = TRUE]
        /\ OnlyProcess(c) /\ pc'[c] = [at |-> "restart", obj |-> table, kid |-> k]
        /\ UNCHANGED obj
    BY <1>3, InterruptStep DEF Interrupt
  <2>. HIDE DEF k
  <2>. QED  BY <1>1, <2>1, KillAccounted
<1>4. CASE Disconnect(c)
  <2>. DEFINE k == obj[table].backend
  <2>1. /\ OnlyProcess(c)
        /\ \/ UNCHANGED <<obj, kid>> /\ pc'[c] = Gone
           \/ /\ table \in DOMAIN obj /\ ~Serves(table) /\ OnlyObject(table)
              /\ obj'[table] = [obj[table] EXCEPT !.owner = None, !.detached = TRUE, !.backend = 0]
              /\ UNCHANGED kid /\ pc'[c] = Gone
           \/ /\ table \in DOMAIN obj /\ OnlyObject(table)
              /\ obj'[table] = [obj[table] EXCEPT !.owner = None, !.detached = TRUE, !.finishing = TRUE]
              /\ UNCHANGED kid /\ pc'[c] = Gone
           \/ /\ table \in DOMAIN obj /\ OnlyObject(table) /\ k \in DOMAIN kid
              /\ obj'[table] = [obj[table] EXCEPT !.owner = None, !.detached = TRUE]
              /\ OnlyChild(k) /\ kid'[k] = [kid[k] EXCEPT !.closing = TRUE]
              /\ pc'[c] = [at |-> "detach", obj |-> table, kid |-> k]
    BY <1>4, DisconnectStep
  <2>2. Gone.kid = 0
    BY DEF Gone, Rest
  <2>3. CASE UNCHANGED <<obj, kid>> /\ pc'[c] = Gone
    BY <1>1, <2>1, <2>2, <2>3, ReleaseAccounted
  <2>4. CASE /\ table \in DOMAIN obj /\ ~Serves(table) /\ OnlyObject(table)
             /\ obj'[table] = [obj[table] EXCEPT !.owner = None, !.detached = TRUE, !.backend = 0]
             /\ UNCHANGED kid /\ pc'[c] = Gone
    <3>1. obj'[table].backend = 0 /\ (k = 0 \/ Ended(k))
      BY <2>4, Indices DEF Object, Serves, Running, Ended
    <3>. QED  BY <1>1, <2>1, <2>2, <2>4, <3>1, ReleaseAccounted DEF OnlyObject
  <2>5. CASE /\ table \in DOMAIN obj /\ OnlyObject(table)
             /\ obj'[table] = [obj[table] EXCEPT !.owner = None, !.detached = TRUE, !.finishing = TRUE]
             /\ UNCHANGED kid /\ pc'[c] = Gone
    <3>1. obj'[table].backend = obj[table].backend
      BY <2>5, Indices DEF Object
    <3>. QED  BY <1>1, <2>1, <2>2, <2>5, <3>1, ReleaseAccounted DEF OnlyObject
  <2>6. CASE /\ table \in DOMAIN obj /\ OnlyObject(table) /\ k \in DOMAIN kid
             /\ obj'[table] = [obj[table] EXCEPT !.owner = None, !.detached = TRUE]
             /\ OnlyChild(k) /\ kid'[k] = [kid[k] EXCEPT !.closing = TRUE]
             /\ pc'[c] = [at |-> "detach", obj |-> table, kid |-> k]
    <3>1. obj'[table].backend = obj[table].backend
      BY <2>6, Indices DEF Object
    <3>2. DOMAIN obj' = DOMAIN obj /\ \A o \in DOMAIN obj : obj'[o].backend = obj[o].backend
      BY <2>6, <3>1 DEF OnlyObject
    <3>3. /\ pc'[c].at \in {"close", "restart", "detach"} /\ pc'[c].kid = k
          /\ pc'[c].obj = table
      BY <2>6
    <3>. QED  BY <1>1, <2>1, <2>6, <3>2, <3>3, KillAccounted
  <2>. QED  BY <2>1, <2>3, <2>4, <2>5, <2>6
<1>. QED  BY <1>2, <1>3, <1>4

LEMMA ReaperAccounted ==
  ASSUME TypeOK, TypeOK', Accounted, Expire \/ Closed(Reaper)
  PROVE  Accounted'
<1>. Reaper \in Procs
  BY DEF Procs
<1>1. CASE Expire
  <2>1. /\ pc[Reaper].at = "idle" /\ UNCHANGED <<table, obj, kid, crossed>>
        /\ table \in Nat /\ 0 \in Nat
    BY <1>1, Indices DEF Expire, At
  <2>2. OnlyProcess(Reaper) /\ pc'[Reaper] = [at |-> "expired", obj |-> table, kid |-> 0]
    BY <1>1, <2>1, GoesStep DEF Expire
  <2>3. pc'[Reaper].kid = 0 /\ pc[Reaper].kid = 0
    BY <2>1, <2>2 DEF TypeOK, PlaceType
  <2>. QED  BY <2>1, <2>2, <2>3, ReleaseAccounted
<1>2. CASE Closed(Reaper)
  BY <1>2, ReturnsAccounted DEF Closed, ghosts
<1>. QED  BY <1>1, <1>2

LEMMA ChildAccounted ==
  ASSUME TypeOK, TypeOK', Accounted, NEW k \in DOMAIN kid,
         \/ \E c \in Conns : User(c)
         \/ Child(k) \/ SoftKill(k) \/ Dies(k)
  PROVE  Accounted'
<1>. DEFINE Kept(i) == /\ kid[i].runs /\ (i \in crossed => i \in crossed')
                       /\ kid[i].closing => kid'[i].closing
                       /\ kid[i].doomed => kid'[i].doomed \/ kid'[i].closing
<1>1. UNCHANGED <<table, pc>>
  BY DEF User, Child, Result, ResultOver, SoftKill, Dies, Exits, Stops
<1>2. CASE ResultOver(k)
  <2>. DEFINE o == kid[k].of
  <2>1. /\ OnlyObject(o) /\ o \in DOMAIN obj /\ obj'[o] = [obj[o] EXCEPT !.finishing = FALSE]
        /\ DOMAIN kid' = DOMAIN kid /\ UNCHANGED crossed
        /\ \A i \in DOMAIN kid : /\ kid'[i].runs = kid[i].runs /\ kid'[i].closing = kid[i].closing
                                 /\ kid[i].doomed => kid'[i].doomed
    BY <1>2, ResultOverStep DEF ResultOver, ghosts
  <2>. HIDE DEF o
  <2>2. DOMAIN obj' = DOMAIN obj /\ \A i \in DOMAIN obj : obj'[i].backend = obj[i].backend
    BY <2>1, Dated, SMTT(30) DEF OnlyObject, Object
  <2>. QED  BY <1>1, <2>1, <2>2, BackgroundAccounted
<1>3. ASSUME NEW i \in DOMAIN kid, OnlyChild(i), kid'[i].runs => Kept(i),
             UNCHANGED obj, crossed \ {i} \subseteq crossed'
      PROVE  Accounted'
  <2>1. DOMAIN kid' = DOMAIN kid /\ \A j \in DOMAIN kid : kid'[j].runs => Kept(j)
    BY <1>3 DEF OnlyChild
  <2>. QED  BY <1>1, <1>3, <2>1, BackgroundAccounted
<1>4. ASSUME NEW c \in Conns, User(c)
      PROVE  Accounted'
  <2>. DEFINE b == obj[table].backend
  <2>1. b \in DOMAIN kid /\ Send(c, b) /\ UNCHANGED <<obj, crossed>>
    BY <1>4, Indices DEF User, Serves, Running
  <2>. HIDE DEF b
  <2>2. OnlyChild(b) /\ kid'[b] = [kid[b] EXCEPT !.sender = c]
    BY <2>1, SendStep
  <2>3. Kept(b)
    BY <2>1, <2>2, Indices DEF Send, Backend
  <2>. QED  BY <1>3, <2>1, <2>2, <2>3
<1>5. CASE Result(k)
  <2>1. OnlyChild(k) /\ kid'[k] = [kid[k] EXCEPT !.sender = None, !.late = TRUE]
        /\ kid[k].runs /\ UNCHANGED <<obj, crossed>>
    BY <1>5, ResultStep DEF Result
  <2>2. Kept(k)
    BY <2>1, Indices DEF Backend
  <2>. QED  BY <1>3, <2>1, <2>2
<1>6. CASE SoftKill(k)
  <2>1. OnlyChild(k) /\ kid'[k] = [kid[k] EXCEPT !.doomed = FALSE, !.closing = kid[k].runs]
        /\ UNCHANGED <<obj, crossed>>
    BY <1>6, SoftKillStep DEF SoftKill, ghosts
  <2>2. kid'[k].runs = kid[k].runs /\ kid'[k].closing = kid[k].runs
    BY <2>1, Indices DEF Backend
  <2>. QED  BY <1>3, <2>1, <2>2
<1>7. CASE Dies(k) \/ Exits(k)
  <2>1. PICK late \in BOOLEAN :
          /\ Stops(k, late) /\ OnlyChild(k)
          /\ kid'[k] = [kid[k] EXCEPT !.runs = FALSE, !.closing = FALSE,
                                      !.sender = None, !.late = late]
    BY <1>7, EndsStep
  <2>2. ~kid'[k].runs
    BY <2>1, Indices DEF Backend
  <2>. QED  BY <1>3, <2>1, <2>2 DEF Stops
<1>. QED  BY <1>2, <1>4, <1>5, <1>6, <1>7 DEF Child

LEMMA NextAccounted ==
  ASSUME TypeOK, TypeOK', Ownership, Accounted, [Next]_vars
  PROVE  Accounted'
<1>1. ASSUME NEW c \in Conns, Request(c)
      PROVE  Accounted'
  <2>1. CASE User(c)
    <3>1. obj[table].backend \in DOMAIN kid
      BY <2>1, Indices DEF User, Serves, Running
    <3>. QED  BY <2>1, <3>1, ChildAccounted
  <2>2. CASE Close(c)
    BY <2>2, RemovesAccounted DEF Procs
  <2>. QED  BY <1>1, <2>1, <2>2, OpenNewAccounted, OpensAccounted, RequestsAccounted DEF Request
<1>2. ASSUME NEW c \in Conns, Handler(c)
      PROVE  Accounted'
  <2>1. CASE SpawnFails(c) \/ Farewell(c)
    BY <2>1, RemovesAccounted DEF Procs
  <2>. QED  BY <1>2, <2>1, OpensAccounted, StartsAccounted, HandlersAccounted DEF Handler
<1>3. CASE Expire \/ Closed(Reaper)
  BY <1>3, ReaperAccounted
<1>4. CASE Reap
  BY <1>4, RemovesAccounted DEF Procs
<1>5. ASSUME NEW k \in DOMAIN kid, Child(k) \/ SoftKill(k) \/ Dies(k)
      PROVE  Accounted'
  BY <1>5, ChildAccounted
<1>6. CASE UNCHANGED vars
  BY <1>6, BackgroundAccounted DEF vars, ghosts
<1>. QED  BY <1>1, <1>2, <1>3, <1>4, <1>5, <1>6 DEF Next, ReaperStep

LEMMA InitAccounted == Init => Accounted
BY DEF Init, Accounted, NoLeak, Closing, Quiet, Rest, At

(* For any number of connections: a child that runs is the registered      *)
(* session's, or its end is near, unless its start met another operation   *)
(* (daemon.py, _handle_open; session.py, detach_soft and remove).          *)
THEOREM NoChildIsLeftRunning == Spec => []NoLeak
<1>1. Accounted => NoLeak
  BY DEF Accounted
<1>2. TypeOK /\ Ownership /\ Accounted /\ [Next]_vars => TypeOK' /\ Ownership' /\ Accounted'
  BY NextType, NextOwnership, NextAccounted
<1>. QED  BY <1>1, <1>2, InitType, InitOwnership, InitAccounted, PTL DEF Spec

-----------------------------------------------------------------------------
(* No turn of an owner is cut short.                                       *)

Spawning(p) == pc[p].at \in {"spawn", "respawn"}

(* A child that is being spawned does not run, and nobody else knows it.   *)
Fresh ==
  \A p \in Procs : Spawning(p) =>
    /\ ~kid[pc[p].kid].runs /\ kid[pc[p].kid].of = pc[p].obj
    /\ \A q \in Procs : q # p => pc[q].kid # pc[p].kid
    /\ \A o \in DOMAIN obj : obj[o].backend # pc[p].kid

Belongs == \A o \in DOMAIN obj : obj[o].backend # 0 => kid[obj[o].backend].of = o

Family == Fresh /\ Belongs

(* Nothing starts, and who gets to know a child gets to know that of an    *)
(* object, or a new one.                                                   *)
LEMMA KeepsFamily ==
  ASSUME TypeOK, TypeOK', Family, NEW p \in Procs, OnlyProcess(p),
         DOMAIN kid \subseteq DOMAIN kid', DOMAIN obj \subseteq DOMAIN obj',
         \A k \in DOMAIN kid : kid'[k].of = kid[k].of /\ (kid'[k].runs => kid[k].runs),
         \A o \in DOMAIN obj : obj'[o].backend \in {0, obj[o].backend},
         \A o \in DOMAIN obj' \ DOMAIN obj : obj'[o].backend = 0,
         \/ pc'[p] = pc[p]
         \/ /\ ~Spawning(p)'
            /\ pc'[p].kid = 0 \/ \E o \in DOMAIN obj : pc'[p].kid = obj[o].backend
         \/ /\ pc'[p].kid \in DOMAIN kid' \ DOMAIN kid
            /\ ~kid'[pc'[p].kid].runs /\ kid'[pc'[p].kid].of = pc'[p].obj
  PROVE  Family'
<1>1. /\ \A q \in Procs : q # p => pc'[q] = pc[q]
      /\ \A q \in Procs : pc[q].kid = 0 \/ pc[q].kid \in DOMAIN kid
      /\ \A q \in Procs : Spawning(q) => pc[q].kid \in DOMAIN kid /\ pc[q].kid # 0
      /\ 0 \notin DOMAIN kid'
  BY LenProperties, Holds DEF OnlyProcess, Spawning, TypeOK, PlaceType, ChildType
<1>2. \A o \in DOMAIN obj' : obj'[o].backend # 0
        => o \in DOMAIN obj /\ obj'[o].backend = obj[o].backend /\ obj[o].backend \in DOMAIN kid
  BY Indices
<1>3. Belongs'
  BY <1>2 DEF Family, Belongs
<1>4. Fresh'
  <2>. SUFFICES ASSUME NEW q \in Procs, Spawning(q)'
                PROVE  /\ ~kid'[pc'[q].kid].runs /\ kid'[pc'[q].kid].of = pc'[q].obj
                       /\ \A r \in Procs : r # q => pc'[r].kid # pc'[q].kid
                       /\ \A o \in DOMAIN obj' : obj'[o].backend # pc'[q].kid
    BY DEF Fresh
  <2>1. CASE pc'[q] = pc[q]
    <3>1. /\ Spawning(q) /\ pc[q].kid \in DOMAIN kid /\ pc[q].kid # 0
          /\ ~kid[pc[q].kid].runs /\ kid[pc[q].kid].of = pc[q].obj
          /\ \A r \in Procs : r # q => pc[r].kid # pc[q].kid
          /\ \A o \in DOMAIN obj : obj[o].backend # pc[q].kid
      BY <1>1, <2>1 DEF Family, Fresh, Spawning
    <3>2. \A r \in Procs : r # q => pc'[r].kid # pc'[q].kid
      BY <1>1, <2>1, <3>1
    <3>. QED  BY <1>2, <2>1, <3>1, <3>2
  <2>2. CASE pc'[q] # pc[q]
    <3>1. /\ q = p /\ pc'[p].kid \in DOMAIN kid' \ DOMAIN kid
          /\ ~kid'[pc'[p].kid].runs /\ kid'[pc'[p].kid].of = pc'[p].obj
      BY <1>1, <2>2
    <3>2. pc'[p].kid # 0
      BY <1>1, <3>1
    <3>. QED  BY <1>1, <1>2, <3>1, <3>2
  <2>. QED  BY <2>1, <2>2
<1>. QED  BY <1>3, <1>4 DEF Family

(* Whoever held a child starts it and lets go of it.                       *)
LEMMA StartsFamily ==
  ASSUME TypeOK, TypeOK', Family, NEW c \in Conns, Spawned(c) \/ Respawned(c) \/ Restarted(c)
  PROVE  Family'
<1>. DEFINE k == pc[c].kid  o == pc[c].obj
<1>0. c \in Procs
  BY DEF Procs
<1>1. /\ OnlyProcess(c) /\ ~Spawning(c)' /\ k \in DOMAIN kid /\ DOMAIN kid' = DOMAIN kid
      /\ \A i \in DOMAIN kid : i # k => kid'[i] = kid[i]
      /\ kid'[k].of = kid[k].of /\ DOMAIN obj' = DOMAIN obj
      /\ \A i \in DOMAIN obj : \/ obj'[i].backend = obj[i].backend
                               \/ i = o /\ Spawning(c) /\ obj'[i].backend = k
  <2>1. CASE Spawned(c) \/ Respawned(c)
    <3>1. /\ k \in DOMAIN kid /\ OnlyChild(k) /\ OnlyProcess(c) /\ o \in DOMAIN obj /\ OnlyObject(o)
          /\ obj'[o] = [obj[o] EXCEPT !.backend = k] /\ pc[c].at \in {"spawn", "respawn"}
          /\ \/ kid'[k] = [kid[k] EXCEPT !.runs = TRUE]
             \/ kid'[k] = [kid[k] EXCEPT !.runs = TRUE, !.sender = c]
          /\ pc'[c] = [at |-> "own", obj |-> o, kid |-> 0] \/ pc'[c] = Rest
      BY <2>1, SpawnedStep, RespawnedStep DEF Spawned, Respawned, At
    <3>. HIDE DEF k, o
    <3>2. kid'[k].of = kid[k].of
      BY <3>1, Indices DEF Backend
    <3>3. obj'[o].backend = k
      BY <3>1, Indices DEF Object
    <3>4. ~Spawning(c)'
      BY <3>1 DEF Spawning, Rest
    <3>. QED  BY <3>1, <3>2, <3>3, <3>4 DEF OnlyChild, OnlyObject, Spawning
  <2>2. CASE Restarted(c)
    <3>1. /\ OnlyProcess(c) /\ pc'[c] = Rest /\ k \in DOMAIN kid /\ UNCHANGED obj
          /\ \/ OnlyChild(k) /\ kid'[k] = [kid[k] EXCEPT !.runs = TRUE, !.late = TRUE]
             \/ UNCHANGED kid
      BY <2>2, RestartedStep DEF Restarted
    <3>. HIDE DEF k, o
    <3>2. kid'[k].of = kid[k].of
      BY <3>1, Indices DEF Backend
    <3>. QED  BY <3>1, <3>2 DEF OnlyChild, Spawning, Rest
  <2>. QED  BY <2>1, <2>2
<1>2. \A i \in DOMAIN kid : kid'[i].of = kid[i].of
  BY <1>1
<1>3. \A q \in Procs : q # c => pc'[q] = pc[q]
  BY <1>1 DEF OnlyProcess
<1>4. pc'[c].kid = 0
  <2>1. CASE Spawned(c) \/ Respawned(c)
    <3>1. pc'[c] = [at |-> "own", obj |-> o, kid |-> 0] \/ pc'[c] = Rest
      BY <2>1, SpawnedStep, RespawnedStep
    <3>. QED  BY <3>1 DEF Rest
  <2>2. CASE Restarted(c)
    <3>1. pc'[c] = Rest
      BY <2>2, RestartedStep
    <3>. QED  BY <3>1 DEF Rest
  <2>. QED  BY <2>1, <2>2
<1>5. Belongs'
  <2>1. \A i \in DOMAIN obj : obj[i].backend # 0 => kid[obj[i].backend].of = i /\ obj[i].backend \in DOMAIN kid
    BY Indices DEF Family, Belongs
  <2>2. Spawning(c) => kid[k].of = o
    BY <1>0 DEF Family, Fresh
  <2>. HIDE DEF k, o
  <2>. QED  BY <1>1, <1>2, <2>1, <2>2 DEF Belongs
<1>6. Fresh'
  <2>. SUFFICES ASSUME NEW q \in Procs, Spawning(q)'
                PROVE  /\ ~kid'[pc'[q].kid].runs /\ kid'[pc'[q].kid].of = pc'[q].obj
                       /\ \A r \in Procs : r # q => pc'[r].kid # pc'[q].kid
                       /\ \A i \in DOMAIN obj' : obj'[i].backend # pc'[q].kid
    BY DEF Fresh
  <2>1. q # c /\ pc'[q] = pc[q] /\ Spawning(q)
    BY <1>1, <1>3 DEF Spawning
  <2>2. /\ ~kid[pc[q].kid].runs /\ kid[pc[q].kid].of = pc[q].obj
        /\ \A r \in Procs : r # q => pc[r].kid # pc[q].kid
        /\ \A i \in DOMAIN obj : obj[i].backend # pc[q].kid
        /\ pc[q].kid \in DOMAIN kid /\ pc[q].kid # 0
    BY <2>1, Holds, Indices DEF Family, Fresh, Spawning
  <2>3. pc[q].kid # k
    BY <1>0, <2>1, <2>2
  <2>4. \A r \in Procs : r # q => pc'[r].kid # pc'[q].kid
    BY <1>3, <1>4, <2>1, <2>2
  <2>. HIDE DEF k, o
  <2>. QED  BY <1>1, <2>1, <2>2, <2>3, <2>4
<1>. QED  BY <1>5, <1>6 DEF Family

LEMMA OpensFamily ==
  ASSUME TypeOK, TypeOK', Family, NEW c \in Conns, OpenNew(c) \/ Resume(c) \/ Told(c)
  PROVE  Family'
<1>. c \in Procs
  BY DEF Procs
<1>1. ASSUME NEW o \in DOMAIN obj', o \in Nat, OnlyProcess(c),
             DOMAIN obj \subseteq DOMAIN obj',
             \A i \in DOMAIN obj : obj'[i].backend = obj[i].backend,
             \A i \in DOMAIN obj' \ DOMAIN obj : obj'[i].backend = 0,
             \/ UNCHANGED kid /\ pc'[c] = [at |-> "own", obj |-> o, kid |-> 0]
             \/ UNCHANGED kid /\ pc'[c] = [at |-> "told", obj |-> o, kid |-> 0]
             \/ NewChild(o) /\ pc'[c] = [at |-> "spawn", obj |-> o, kid |-> Len(kid) + 1]
             \/ UNCHANGED kid /\ pc'[c] = Rest
      PROVE  Family'
  <2>1. CASE UNCHANGED kid /\ (\/ pc'[c] = [at |-> "own", obj |-> o, kid |-> 0]
                               \/ pc'[c] = [at |-> "told", obj |-> o, kid |-> 0]
                               \/ pc'[c] = Rest)
    <3>1. ~Spawning(c)' /\ pc'[c].kid = 0
      BY <2>1 DEF Spawning, Rest
    <3>. QED  BY <1>1, <2>1, <3>1, KeepsFamily
  <2>2. CASE NewChild(o) /\ pc'[c] = [at |-> "spawn", obj |-> o, kid |-> Len(kid) + 1]
    <3>1. /\ pc'[c].kid \in DOMAIN kid' \ DOMAIN kid
          /\ ~kid'[pc'[c].kid].runs /\ kid'[pc'[c].kid].of = pc'[c].obj
          /\ DOMAIN kid \subseteq DOMAIN kid' /\ \A k \in DOMAIN kid : kid'[k] = kid[k]
      BY <2>2, Indices DEF NewChild, NewBackend
    <3>. QED  BY <1>1, <2>2, <3>1, KeepsFamily
  <2>. QED  BY <1>1, <2>1, <2>2
<1>2. CASE OpenNew(c)
  <2>. DEFINE n == Len(obj) + 1
  <2>1. n \in Nat /\ OpenWith(c, n, Append(obj, NewSession)) /\ n \in Nat
    BY <1>2, Indices DEF OpenNew
  <2>2. obj' = Append(obj, NewSession) /\ OpenWith(c, n, obj')
    BY <2>1, OpenStep
  <2>3. /\ n \in DOMAIN obj' /\ DOMAIN obj' = DOMAIN obj \cup {n} /\ obj'[n].backend = 0
        /\ \A i \in DOMAIN obj : obj'[i] = obj[i]
    BY <2>2, Indices, AppendProperties, LenProperties DEF TypeOK, ObjectType, NewSession
  <2>. HIDE DEF n
  <2>4. /\ OnlyProcess(c)
        /\ \/ UNCHANGED kid /\ pc'[c] = [at |-> "own", obj |-> n, kid |-> 0]
           \/ NewChild(n) /\ pc'[c] = [at |-> "spawn", obj |-> n, kid |-> Len(kid) + 1]
           \/ UNCHANGED kid /\ pc'[c] = Rest
    BY <2>1, <2>2, OpenStep
  <2>. QED  BY <1>1, <2>1, <2>3, <2>4
<1>3. ASSUME NEW o \in DOMAIN obj, OpenWith(c, o, obj)
      PROVE  Family'
  <2>1. o \in Nat
    BY Indices
  <2>2. /\ obj' = obj /\ OnlyProcess(c)
        /\ \/ UNCHANGED kid /\ pc'[c] = [at |-> "own", obj |-> o, kid |-> 0]
           \/ NewChild(o) /\ pc'[c] = [at |-> "spawn", obj |-> o, kid |-> Len(kid) + 1]
           \/ UNCHANGED kid /\ pc'[c] = Rest
    BY <1>3, <2>1, OpenStep
  <2>. QED  BY <1>1, <2>1, <2>2
<1>4. CASE Resume(c)
  <2>1. table \in DOMAIN obj /\ table \in Nat /\ 0 \in Nat
    BY <1>4, Indices DEF Resume
  <2>2. CASE Goes(c, "told", table, 0) /\ UNCHANGED <<obj, kid>>
    <3>1. OnlyProcess(c) /\ pc'[c] = [at |-> "told", obj |-> table, kid |-> 0]
      BY <2>1, <2>2, GoesStep
    <3>. QED  BY <1>1, <2>1, <2>2, <3>1
  <2>. QED  BY <1>3, <1>4, <2>1, <2>2 DEF Resume
<1>5. CASE Told(c)
  BY <1>3, <1>5, Holds DEF Told, At
<1>. QED  BY <1>2, <1>4, <1>5

LEMMA RemovesFamily ==
  ASSUME TypeOK, TypeOK', Family, NEW p \in Procs, UNCHANGED obj,
         \/ Remove(p)
         \/ \E label \in {"farewell", "expired"} : Goes(p, label, table, 0) /\ UNCHANGED kid
  PROVE  Family'
<1>1. CASE Remove(p)
  <2>. DEFINE k == obj[table].backend
  <2>1. CASE /\ table # 0 /\ k \in DOMAIN kid /\ OnlyProcess(p)
             /\ OnlyChild(k) /\ kid'[k] = [kid[k] EXCEPT !.closing = TRUE]
             /\ pc'[p] = [at |-> "close", obj |-> 0, kid |-> k]
    <3>1. ~Spawning(p)' /\ pc'[p].kid = k /\ table \in DOMAIN obj
      BY <2>1, Indices DEF Spawning
    <3>. HIDE DEF k
    <3>2. kid'[k].of = kid[k].of /\ kid'[k].runs = kid[k].runs
      BY <2>1, Indices DEF Backend
    <3>3. DOMAIN kid' = DOMAIN kid /\ \A i \in DOMAIN kid :
            kid'[i].of = kid[i].of /\ kid'[i].runs = kid[i].runs
      BY <2>1, <3>2 DEF OnlyChild
    <3>. QED  BY <2>1, <3>1, <3>3, KeepsFamily DEF k
  <2>2. CASE /\ UNCHANGED kid /\ OnlyProcess(p)
             /\ pc'[p] = IF pc[p].at = "detach" THEN Gone ELSE Rest
    <3>1. ~Spawning(p)' /\ pc'[p].kid = 0
      BY <2>2 DEF Spawning, Gone, Rest
    <3>. QED  BY <2>2, <3>1, KeepsFamily
  <2>. QED  BY <1>1, <2>1, <2>2, RemoveStep
<1>2. ASSUME NEW label \in {"farewell", "expired"}, Goes(p, label, table, 0), UNCHANGED kid
      PROVE  Family'
  <2>1. table \in Nat /\ 0 \in Nat
    BY Indices
  <2>2. OnlyProcess(p) /\ pc'[p] = [at |-> label, obj |-> table, kid |-> 0]
    <3>1. CASE label = "farewell"
      BY <1>2, <2>1, <3>1, GoesStep
    <3>2. CASE label = "expired"
      BY <1>2, <2>1, <3>2, GoesStep
    <3>. QED  BY <3>1, <3>2
  <2>3. ~Spawning(p)' /\ pc'[p].kid = 0
    BY <2>2 DEF Spawning
  <2>. QED  BY <1>2, <2>2, <2>3, KeepsFamily
<1>. QED  BY <1>1, <1>2

LEMMA ReturnsFamily ==
  ASSUME TypeOK, TypeOK', Family, NEW p \in Procs, Returns(p), UNCHANGED kid,
         DOMAIN obj' = DOMAIN obj,
         \A o \in DOMAIN obj : obj'[o].backend \in {0, obj[o].backend}
  PROVE  Family'
<1>1. OnlyProcess(p) /\ ~Spawning(p)' /\ pc'[p].kid = 0
  BY ReturnsStep DEF Spawning, Rest, Gone
<1>. QED  BY <1>1, KeepsFamily

LEMMA RequestsFamily ==
  ASSUME TypeOK, TypeOK', Family, NEW c \in Conns,
         UserRespawns(c) \/ Interrupt(c) \/ Disconnect(c)
  PROVE  Family'
<1>. DEFINE k == obj[table].backend
<1>. c \in Procs
  BY DEF Procs
<1>1. ASSUME table \in DOMAIN obj, k \in DOMAIN kid, OnlyProcess(c), OnlyChild(k),
             kid'[k] = [kid[k] EXCEPT !.closing = TRUE],
             DOMAIN obj' = DOMAIN obj, \A o \in DOMAIN obj : obj'[o].backend = obj[o].backend,
             NEW label \in {"restart", "detach"},
             pc'[c] = [at |-> label, obj |-> table, kid |-> k]
      PROVE  Family'
  <2>1. ~Spawning(c)' /\ pc'[c].kid = obj[table].backend
    BY <1>1 DEF Spawning
  <2>2. kid'[k].of = kid[k].of /\ kid'[k].runs = kid[k].runs
    <3>. HIDE DEF k
    <3>. QED  BY <1>1, Indices DEF Backend
  <2>3. DOMAIN kid' = DOMAIN kid /\ \A i \in DOMAIN kid :
          kid'[i].of = kid[i].of /\ kid'[i].runs = kid[i].runs
    BY <1>1, <2>2 DEF OnlyChild
  <2>. HIDE DEF k
  <2>. QED  BY <1>1, <2>1, <2>3, KeepsFamily
<1>2. CASE UserRespawns(c)
  <2>1. /\ table \in DOMAIN obj /\ NewChild(table) /\ OnlyProcess(c)
        /\ pc'[c] = [at |-> "respawn", obj |-> table, kid |-> Len(kid) + 1] /\ UNCHANGED obj
    BY <1>2, RespawnsStep DEF UserRespawns
  <2>2. /\ pc'[c].kid \in DOMAIN kid' \ DOMAIN kid
        /\ ~kid'[pc'[c].kid].runs /\ kid'[pc'[c].kid].of = pc'[c].obj
        /\ DOMAIN kid \subseteq DOMAIN kid' /\ \A i \in DOMAIN kid : kid'[i] = kid[i]
    BY <2>1, Indices DEF NewChild, NewBackend
  <2>. QED  BY <2>1, <2>2, KeepsFamily
<1>3. CASE Interrupt(c)
  <2>1. /\ table \in DOMAIN obj /\ k \in DOMAIN kid /\ OnlyChild(k)
        /\ kid'[k] = [kid[k] EXCEPT !.closing = TRUE]
        /\ OnlyProcess(c) /\ pc'[c] = [at |-> "restart", obj |-> table, kid |-> k]
        /\ UNCHANGED obj
    BY <1>3, InterruptStep DEF Interrupt
  <2>. HIDE DEF k
  <2>. QED  BY <1>1, <2>1
<1>4. CASE Disconnect(c)
  <2>1. /\ OnlyProcess(c)
        /\ \/ UNCHANGED <<obj, kid>> /\ pc'[c] = Gone
           \/ /\ table \in DOMAIN obj /\ OnlyObject(table)
              /\ obj'[table] = [obj[table] EXCEPT !.owner = None, !.detached = TRUE, !.backend = 0]
              /\ UNCHANGED kid /\ pc'[c] = Gone
           \/ /\ table \in DOMAIN obj /\ OnlyObject(table)
              /\ obj'[table] = [obj[table] EXCEPT !.owner = None, !.detached = TRUE, !.finishing = TRUE]
              /\ UNCHANGED kid /\ pc'[c] = Gone
           \/ /\ table \in DOMAIN obj /\ OnlyObject(table) /\ k \in DOMAIN kid
              /\ obj'[table] = [obj[table] EXCEPT !.owner = None, !.detached = TRUE]
              /\ OnlyChild(k) /\ kid'[k] = [kid[k] EXCEPT !.closing = TRUE]
              /\ pc'[c] = [at |-> "detach", obj |-> table, kid |-> k]
    BY <1>4, DisconnectStep
  <2>2. Gone.kid = 0 /\ Gone.at = "gone"
    BY DEF Gone, Rest
  <2>3. CASE UNCHANGED <<obj, kid>> /\ pc'[c] = Gone
    BY <2>1, <2>2, <2>3, KeepsFamily DEF Spawning
  <2>4. CASE /\ table \in DOMAIN obj /\ OnlyObject(table)
             /\ obj'[table] = [obj[table] EXCEPT !.owner = None, !.detached = TRUE, !.backend = 0]
             /\ UNCHANGED kid /\ pc'[c] = Gone
    <3>1. obj'[table].backend = 0
      BY <2>4, Indices DEF Object
    <3>. QED  BY <2>1, <2>2, <2>4, <3>1, KeepsFamily DEF OnlyObject, Spawning
  <2>5. CASE /\ table \in DOMAIN obj /\ OnlyObject(table)
             /\ obj'[table] = [obj[table] EXCEPT !.owner = None, !.detached = TRUE, !.finishing = TRUE]
             /\ UNCHANGED kid /\ pc'[c] = Gone
    <3>1. obj'[table].backend = obj[table].backend
      BY <2>5, Indices DEF Object
    <3>. QED  BY <2>1, <2>2, <2>5, <3>1, KeepsFamily DEF OnlyObject, Spawning
  <2>6. CASE /\ table \in DOMAIN obj /\ OnlyObject(table) /\ k \in DOMAIN kid
             /\ obj'[table] = [obj[table] EXCEPT !.owner = None, !.detached = TRUE]
             /\ OnlyChild(k) /\ kid'[k] = [kid[k] EXCEPT !.closing = TRUE]
             /\ pc'[c] = [at |-> "detach", obj |-> table, kid |-> k]
    <3>1. obj'[table].backend = obj[table].backend
      BY <2>6, Indices DEF Object
    <3>2. DOMAIN obj' = DOMAIN obj /\ \A o \in DOMAIN obj : obj'[o].backend = obj[o].backend
      BY <2>6, <3>1 DEF OnlyObject
    <3>. HIDE DEF k
    <3>. QED  BY <1>1, <2>1, <2>6, <3>2
  <2>. QED  BY <2>1, <2>3, <2>4, <2>5, <2>6
<1>. QED  BY <1>2, <1>3, <1>4

LEMMA ChildFamily ==
  ASSUME TypeOK, TypeOK', Family, NEW k \in DOMAIN kid,
         \/ \E c \in Conns : User(c)
         \/ Child(k) \/ SoftKill(k) \/ Dies(k)
  PROVE  Family'
<1>1. UNCHANGED pc
  BY DEF User, Child, Result, ResultOver, SoftKill, Dies, Exits, Stops
<1>2. ASSUME DOMAIN obj' = DOMAIN obj, \A o \in DOMAIN obj : obj'[o].backend = obj[o].backend,
             DOMAIN kid' = DOMAIN kid,
             \A i \in DOMAIN kid : kid'[i].of = kid[i].of /\ (kid'[i].runs => kid[i].runs)
      PROVE  Family'
  <2>1. Reaper \in Procs /\ OnlyProcess(Reaper)
    BY <1>1, StaysPlaced
  <2>. QED  BY <1>1, <1>2, <2>1, KeepsFamily
<1>3. ASSUME NEW i \in DOMAIN kid, OnlyChild(i), kid'[i].of = kid[i].of,
             kid'[i].runs => kid[i].runs, UNCHANGED obj
      PROVE  Family'
  BY <1>2, <1>3 DEF OnlyChild
<1>4. CASE ResultOver(k)
  <2>. DEFINE o == kid[k].of
  <2>1. /\ OnlyObject(o) /\ o \in DOMAIN obj /\ obj'[o] = [obj[o] EXCEPT !.finishing = FALSE]
        /\ DOMAIN kid' = DOMAIN kid
        /\ \A i \in DOMAIN kid : kid'[i].of = kid[i].of /\ kid'[i].runs = kid[i].runs
    BY <1>4, ResultOverStep
  <2>. HIDE DEF o
  <2>2. DOMAIN obj' = DOMAIN obj /\ \A i \in DOMAIN obj : obj'[i].backend = obj[i].backend
    BY <2>1, Indices DEF OnlyObject, Object
  <2>. QED  BY <1>2, <2>1, <2>2
<1>5. ASSUME NEW c \in Conns, User(c)
      PROVE  Family'
  <2>. DEFINE b == obj[table].backend
  <2>1. b \in DOMAIN kid /\ Send(c, b) /\ UNCHANGED obj
    BY <1>5, Indices DEF User, Serves, Running
  <2>. HIDE DEF b
  <2>2. OnlyChild(b) /\ kid'[b] = [kid[b] EXCEPT !.sender = c]
    BY <2>1, SendStep
  <2>3. kid'[b].of = kid[b].of /\ kid'[b].runs = kid[b].runs
    BY <2>1, <2>2, Indices DEF Backend
  <2>. QED  BY <1>3, <2>1, <2>2, <2>3
<1>6. CASE Result(k)
  <2>1. OnlyChild(k) /\ kid'[k] = [kid[k] EXCEPT !.sender = None, !.late = TRUE] /\ UNCHANGED obj
    BY <1>6, ResultStep DEF Result
  <2>2. kid'[k].of = kid[k].of /\ kid'[k].runs = kid[k].runs
    BY <2>1, Indices DEF Backend
  <2>. QED  BY <1>3, <2>1, <2>2
<1>7. CASE SoftKill(k)
  <2>1. OnlyChild(k) /\ kid'[k] = [kid[k] EXCEPT !.doomed = FALSE, !.closing = kid[k].runs]
        /\ UNCHANGED obj
    BY <1>7, SoftKillStep DEF SoftKill
  <2>2. kid'[k].of = kid[k].of /\ kid'[k].runs = kid[k].runs
    BY <2>1, Indices DEF Backend
  <2>. QED  BY <1>3, <2>1, <2>2
<1>8. CASE Dies(k) \/ Exits(k)
  <2>1. PICK late \in BOOLEAN :
          /\ Stops(k, late) /\ OnlyChild(k)
          /\ kid'[k] = [kid[k] EXCEPT !.runs = FALSE, !.closing = FALSE,
                                      !.sender = None, !.late = late]
    BY <1>8, EndsStep
  <2>2. ~kid'[k].runs /\ kid'[k].of = kid[k].of
    BY <2>1, Indices DEF Backend
  <2>. QED  BY <1>3, <2>1, <2>2 DEF Stops
<1>. QED  BY <1>4, <1>5, <1>6, <1>7, <1>8 DEF Child

LEMMA NextFamily ==
  ASSUME TypeOK, TypeOK', Family, [Next]_vars
  PROVE  Family'
<1>1. ASSUME NEW c \in Conns, Request(c)
      PROVE  Family'
  <2>1. CASE User(c)
    <3>1. obj[table].backend \in DOMAIN kid
      BY <2>1, Indices DEF User, Serves, Running
    <3>. QED  BY <2>1, <3>1, ChildFamily
  <2>2. CASE Close(c)
    BY <2>2, RemovesFamily DEF Close, Procs
  <2>. QED  BY <1>1, <2>1, <2>2, OpensFamily, RequestsFamily DEF Request
<1>2. ASSUME NEW c \in Conns, Handler(c)
      PROVE  Family'
  <2>1. CASE SpawnFails(c) \/ Farewell(c)
    BY <2>1, RemovesFamily DEF SpawnFails, Farewell, Procs
  <2>2. CASE SpawnBreaks(c) \/ RespawnFails(c) \/ Closed(c)
    BY <2>2, ReturnsFamily DEF SpawnBreaks, RespawnFails, Closed, Procs
  <2>3. CASE Attach(c)
    <3>. DEFINE o == pc[c].obj
    <3>1. /\ Returns(c) /\ UNCHANGED kid /\ o \in DOMAIN obj /\ OnlyObject(o)
          /\ obj'[o] = [obj[o] EXCEPT !.owner = c, !.detached = FALSE]
      BY <2>3, AttachStep DEF Attach
    <3>. HIDE DEF o
    <3>2. DOMAIN obj' = DOMAIN obj /\ \A i \in DOMAIN obj : obj'[i].backend = obj[i].backend
      BY <3>1, Indices DEF OnlyObject, Object
    <3>. QED  BY <3>1, <3>2, ReturnsFamily DEF Procs
  <2>4. CASE Detached(c)
    <3>. DEFINE o == pc[c].obj
    <3>1. /\ Returns(c) /\ UNCHANGED kid /\ o \in DOMAIN obj /\ OnlyObject(o)
          /\ obj'[o] = [obj[o] EXCEPT !.backend = 0]
      BY <2>4, DetachedStep DEF Detached
    <3>. HIDE DEF o
    <3>2. DOMAIN obj' = DOMAIN obj /\ \A i \in DOMAIN obj : obj'[i].backend \in {0, obj[i].backend}
      BY <3>1, Indices DEF OnlyObject, Object
    <3>. QED  BY <3>1, <3>2, ReturnsFamily DEF Procs
  <2>. QED  BY <1>2, <2>1, <2>2, <2>3, <2>4, OpensFamily, StartsFamily DEF Handler
<1>3. CASE Expire
  BY <1>3, RemovesFamily DEF Expire, Procs
<1>4. CASE Closed(Reaper)
  BY <1>4, ReturnsFamily DEF Closed, Procs
<1>5. CASE Reap
  BY <1>5, RemovesFamily DEF Reap, Procs
<1>6. ASSUME NEW k \in DOMAIN kid, Child(k) \/ SoftKill(k) \/ Dies(k)
      PROVE  Family'
  BY <1>6, ChildFamily
<1>7. CASE UNCHANGED vars
  <2>1. OnlyProcess(Reaper) /\ Reaper \in Procs
    BY <1>7, StaysPlaced DEF vars
  <2>. QED  BY <1>7, <2>1, KeepsFamily DEF vars
<1>. QED  BY <1>1, <1>2, <1>3, <1>4, <1>5, <1>6, <1>7 DEF Next, ReaperStep

(* A turn that the session owes a result.                                  *)
InTurn(k) == kid[k].sender # None /\ k \notin risky
Closes(p, k) == pc[p].at \in {"close", "restart", "detach"} /\ pc[p].kid = k

CloserWaits ==
  \A k \in DOMAIN kid : kid[k].closing /\ InTurn(k) => \E p \in Procs : Closes(p, k)

DoomedAtRest == \A k \in DOMAIN kid : kid[k].doomed => ~InTurn(k)

(* The result that ends a finishing session is that of the turn at hand.   *)
OneResult ==
  \A o \in DOMAIN obj :
    obj[o].finishing /\ obj[o].backend # 0 /\ InTurn(obj[o].backend) => ~Unreported(o)

(* An interrupt reports no turn but the one it has ended.                  *)
Restarting ==
  \A p \in Procs : At(p, "restart") =>
    LET b == obj[kid[pc[p].kid].of].backend IN
    b # 0 /\ InTurn(b) => b = pc[p].kid /\ kid[b].closing

Kept == CloserWaits /\ DoomedAtRest /\ OneResult /\ Restarting

(* A turn that begins now begins in peace; one that goes on is not about   *)
(* to be ended by anybody who does not wait for it.                        *)
Begins(k) ==
  /\ ~kid'[k].closing /\ ~kid'[k].doomed /\ ~obj'[kid'[k].of].finishing
  /\ \A q \in Procs : pc'[q].at # "restart"
Continues(k) ==
  /\ k \in DOMAIN kid /\ InTurn(k)
  /\ kid'[k].closing => kid[k].closing \/ \E p \in Procs : Closes(p, k)'
  /\ kid[k].closing => kid'[k].closing
  /\ kid'[k].doomed => kid[k].doomed

LEMMA KeepsTurns ==
  ASSUME TypeOK, TypeOK', Family', Kept, NEW p \in Procs, OnlyProcess(p),
         DOMAIN kid \subseteq DOMAIN kid',
         \A k \in DOMAIN kid : kid'[k].of = kid[k].of,
         \A k \in DOMAIN kid' : InTurn(k)' => Begins(k) \/ Continues(k),
         \A o \in DOMAIN obj' :
           obj'[o].backend # 0 /\ InTurn(obj[o].backend)' =>
             \/ Begins(obj'[o].backend)
             \/ /\ o \in DOMAIN obj /\ obj'[o].backend = obj[o].backend
                /\ obj'[o].finishing => obj[o].finishing \/ ~Unreported(o)
                /\ Unreported(o)' => Unreported(o),
         \/ pc'[p] = pc[p]
         \/ pc[p].at \notin {"close", "restart", "detach"}
         \/ ~kid[pc[p].kid].closing,
         \/ pc'[p] = pc[p]
         \/ pc'[p].at # "restart"
         \/ LET b == obj'[kid'[pc'[p].kid].of].backend IN b = pc'[p].kid /\ kid'[b].closing
  PROVE  Kept'
<1>1. /\ \A q \in Procs : q # p => pc'[q] = pc[q]
      /\ \A o \in DOMAIN obj' : obj'[o].backend # 0 => obj'[o].backend \in DOMAIN kid'
      /\ \A k \in DOMAIN kid' : kid'[k].of \in DOMAIN obj'
      /\ \A o \in DOMAIN obj' : obj'[o].backend # 0 => kid'[obj'[o].backend].of = o
  <2>1. \A o \in DOMAIN obj' : obj'[o].backend # 0 => obj'[o].backend \in DOMAIN kid'
    <3>1. /\ DOMAIN kid' = 1 .. Len(kid') /\ Len(kid') \in Nat
          /\ DOMAIN obj' = 1 .. Len(obj') /\ obj' \in [DOMAIN obj' -> Object]
      BY LenProperties DEF TypeOK, ObjectType, ChildType
    <3>2. ASSUME NEW o \in DOMAIN obj'
          PROVE  obj'[o].backend \in Nat /\ obj'[o].backend <= Len(kid')
      <4>1. obj'[o] \in Object
        BY <3>1
      <4>2. obj'[o].backend <= Len(kid')
        BY DEF TypeOK, ObjectType
      <4>. QED  BY <4>1, <4>2 DEF Object
    <3>. QED  BY <3>1, <3>2, SMTT(30)
  <2>. QED  BY <2>1 DEF OnlyProcess, TypeOK, ChildType, Family, Belongs
<1>2. CloserWaits'
  <2>. SUFFICES ASSUME NEW k \in DOMAIN kid', kid'[k].closing, InTurn(k)'
                PROVE  \E q \in Procs : Closes(q, k)'
    BY DEF CloserWaits
  <2>1. Continues(k)
    BY DEF Begins
  <2>2. CASE kid[k].closing
    <3>1. PICK q \in Procs : Closes(q, k)
      BY <2>1, <2>2 DEF Continues, Kept, CloserWaits
    <3>2. pc'[q] = pc[q]
      BY <1>1, <2>2, <3>1 DEF Closes
    <3>. QED  BY <3>1, <3>2 DEF Closes
  <2>. QED  BY <2>1, <2>2 DEF Continues
<1>3. DoomedAtRest'
  BY DEF DoomedAtRest, Kept, Begins, Continues
<1>4. OneResult'
  <2>. SUFFICES ASSUME NEW o \in DOMAIN obj', obj'[o].finishing, obj'[o].backend # 0,
                       InTurn(obj[o].backend)'
                PROVE  ~Unreported(o)'
    BY DEF OneResult
  <2>1. ~Begins(obj'[o].backend) /\ obj'[o].backend \in DOMAIN kid'
    BY <1>1 DEF Begins
  <2>2. /\ o \in DOMAIN obj /\ obj'[o].backend = obj[o].backend
        /\ obj'[o].finishing => obj[o].finishing \/ ~Unreported(o)
        /\ Unreported(o)' => Unreported(o)
        /\ InTurn(obj[o].backend)
    BY <2>1 DEF Continues
  <2>. QED  BY <2>2 DEF Kept, OneResult
<1>5. Restarting'
  <2>. SUFFICES ASSUME NEW q \in Procs, pc'[q].at = "restart",
                       obj'[kid'[pc'[q].kid].of].backend # 0,
                       InTurn(obj[kid[pc[q].kid].of].backend)'
                PROVE  LET b == obj'[kid'[pc'[q].kid].of].backend IN
                       b = pc'[q].kid /\ kid'[b].closing
    BY DEF Restarting, At
  <2>1. CASE pc'[q] = pc[q]
    <3>. DEFINE k == pc[q].kid  o == kid[k].of  b == obj'[o].backend
    <3>1. k \in DOMAIN kid /\ kid'[k].of = o /\ pc[q].at = "restart"
      BY <2>1, Holds
    <3>2. /\ o \in DOMAIN obj' /\ b # 0 /\ b \in DOMAIN kid'
          /\ kid'[b].sender # None /\ b \notin risky'
      BY <1>1, <2>1, <3>1 DEF InTurn
    <3>3. ~Begins(b)
      BY DEF Begins
    <3>. HIDE DEF k, o
    <3>4. PICK c \in DOMAIN kid' : c = b
      BY <3>2
    <3>5. Continues(c) /\ c = obj[o].backend
      BY <3>2, <3>3, <3>4 DEF InTurn
    <3>6. c = k /\ kid[c].closing
      BY <3>1, <3>2, <3>4, <3>5 DEF Kept, Restarting, At, Continues, k, o
    <3>. QED  BY <2>1, <3>1, <3>4, <3>5, <3>6, SMTT(30) DEF Continues, k
  <2>. QED  BY <1>1, <2>1
<1>. QED  BY <1>2, <1>3, <1>4, <1>5 DEF Kept

(* No turn begins or ends; at most p comes to close a child.               *)
LEMMA StillKept ==
  ASSUME TypeOK, TypeOK', Family', Kept, NEW p \in Procs, OnlyProcess(p),
         DOMAIN kid \subseteq DOMAIN kid', risky \subseteq risky',
         \A k \in DOMAIN kid :
           /\ kid'[k].of = kid[k].of /\ kid'[k].sender = kid[k].sender
           /\ kid'[k].late = kid[k].late /\ kid'[k].doomed = kid[k].doomed
           /\ kid[k].closing => kid'[k].closing
           /\ kid'[k].closing => kid[k].closing \/ Closes(p, k)',
         \A k \in DOMAIN kid' \ DOMAIN kid : kid'[k].sender = None /\ ~kid'[k].late,
         DOMAIN obj \subseteq DOMAIN obj',
         \A o \in DOMAIN obj :
           /\ obj'[o].backend \in {0, obj[o].backend}
           /\ obj'[o].finishing =>
                obj[o].finishing \/ (Unreported(o) => obj[o].backend \in risky'),
         \A o \in DOMAIN obj' \ DOMAIN obj : obj'[o].backend = 0,
         \/ pc[p].at \notin {"close", "restart", "detach"}
         \/ ~kid[pc[p].kid].closing,
         \/ pc'[p].at # "restart"
         \/ LET b == obj'[kid'[pc'[p].kid].of].backend IN b = pc'[p].kid /\ kid'[b].closing
  PROVE  Kept'
<1>1. \A k \in DOMAIN kid' : InTurn(k)' => Continues(k)
  BY DEF InTurn, Continues
<1>2. \A o \in DOMAIN obj' :
        obj'[o].backend # 0 /\ InTurn(obj[o].backend)' =>
          /\ o \in DOMAIN obj /\ obj'[o].backend = obj[o].backend
          /\ obj'[o].finishing => obj[o].finishing \/ ~Unreported(o)
          /\ Unreported(o)' => Unreported(o)
  <2>. SUFFICES ASSUME NEW o \in DOMAIN obj', obj'[o].backend # 0, InTurn(obj[o].backend)'
                PROVE  /\ o \in DOMAIN obj /\ obj'[o].backend = obj[o].backend
                       /\ obj'[o].finishing => obj[o].finishing \/ ~Unreported(o)
                       /\ Unreported(o)' => Unreported(o)
    OBVIOUS
  <2>1. o \in DOMAIN obj /\ obj'[o].backend = obj[o].backend
    OBVIOUS
  <2>2. obj'[o].finishing => obj[o].finishing \/ ~Unreported(o)
    BY <2>1 DEF InTurn
  <2>3. Unreported(o)' => Unreported(o)
    BY <2>1, SMTT(30) DEF Unreported
  <2>. QED  BY <2>1, <2>2, <2>3
<1>. QED  BY <1>1, <1>2, KeepsTurns

LEMMA OpensKept ==
  ASSUME TypeOK, TypeOK', Family', Kept, NEW c \in Conns, OpenNew(c) \/ Resume(c) \/ Told(c)
  PROVE  Kept'
<1>0. c \in Procs /\ pc[c].at \notin {"close", "restart", "detach"} /\ UNCHANGED risky
  BY DEF Procs, OpenNew, Resume, Told, At
<1>1. ASSUME NEW o \in DOMAIN obj', o \in Nat, OnlyProcess(c),
             DOMAIN obj \subseteq DOMAIN obj', \A i \in DOMAIN obj : obj'[i] = obj[i],
             \A i \in DOMAIN obj' \ DOMAIN obj : obj'[i].backend = 0,
             \/ UNCHANGED kid /\ pc'[c] = [at |-> "own", obj |-> o, kid |-> 0]
             \/ UNCHANGED kid /\ pc'[c] = [at |-> "told", obj |-> o, kid |-> 0]
             \/ NewChild(o) /\ pc'[c] = [at |-> "spawn", obj |-> o, kid |-> Len(kid) + 1]
             \/ UNCHANGED kid /\ pc'[c] = Rest
      PROVE  Kept'
  <2>1. pc'[c].at # "restart"
    BY <1>1 DEF Rest
  <2>2. /\ DOMAIN kid \subseteq DOMAIN kid' /\ \A k \in DOMAIN kid : kid'[k] = kid[k]
        /\ \A k \in DOMAIN kid' \ DOMAIN kid : kid'[k].sender = None /\ ~kid'[k].late
    BY <1>1 DEF NewChild, NewBackend
  <2>. QED  BY <1>0, <1>1, <2>1, <2>2, StillKept
<1>2. CASE OpenNew(c)
  <2>. DEFINE n == Len(obj) + 1
  <2>1. n \in Nat /\ OpenWith(c, n, Append(obj, NewSession)) /\ n \in Nat
    BY <1>2, Indices DEF OpenNew
  <2>2. obj' = Append(obj, NewSession) /\ OpenWith(c, n, obj')
    BY <2>1, OpenStep
  <2>3. /\ n \in DOMAIN obj' /\ DOMAIN obj' = DOMAIN obj \cup {n} /\ obj'[n].backend = 0
        /\ \A i \in DOMAIN obj : obj'[i] = obj[i]
    BY <2>2, Indices, AppendProperties, LenProperties DEF TypeOK, ObjectType, NewSession
  <2>. HIDE DEF n
  <2>4. /\ OnlyProcess(c)
        /\ \/ UNCHANGED kid /\ pc'[c] = [at |-> "own", obj |-> n, kid |-> 0]
           \/ NewChild(n) /\ pc'[c] = [at |-> "spawn", obj |-> n, kid |-> Len(kid) + 1]
           \/ UNCHANGED kid /\ pc'[c] = Rest
    BY <2>1, <2>2, OpenStep
  <2>. QED  BY <1>1, <2>1, <2>3, <2>4
<1>3. ASSUME NEW o \in DOMAIN obj, OpenWith(c, o, obj)
      PROVE  Kept'
  <2>1. o \in Nat
    BY Indices
  <2>2. /\ obj' = obj /\ OnlyProcess(c)
        /\ \/ UNCHANGED kid /\ pc'[c] = [at |-> "own", obj |-> o, kid |-> 0]
           \/ NewChild(o) /\ pc'[c] = [at |-> "spawn", obj |-> o, kid |-> Len(kid) + 1]
           \/ UNCHANGED kid /\ pc'[c] = Rest
    BY <1>3, <2>1, OpenStep
  <2>. QED  BY <1>1, <2>1, <2>2
<1>4. CASE Resume(c)
  <2>1. table \in DOMAIN obj /\ table \in Nat /\ 0 \in Nat
    BY <1>4, Indices DEF Resume
  <2>2. CASE Goes(c, "told", table, 0) /\ UNCHANGED <<obj, kid>>
    <3>1. OnlyProcess(c) /\ pc'[c] = [at |-> "told", obj |-> table, kid |-> 0]
      BY <1>0, <2>1, <2>2, GoesStep
    <3>. QED  BY <1>1, <2>1, <2>2, <3>1
  <2>. QED  BY <1>3, <1>4, <2>1, <2>2 DEF Resume
<1>5. CASE Told(c)
  BY <1>0, <1>3, <1>5, Holds DEF Told, At
<1>. QED  BY <1>2, <1>4, <1>5

LEMMA RemovesKept ==
  ASSUME TypeOK, TypeOK', Family', Kept, NEW p \in Procs, UNCHANGED <<obj, risky>>,
         pc[p].at \notin {"close", "restart", "detach"},
         \/ Remove(p)
         \/ Goes(p, "farewell", table, 0) /\ UNCHANGED kid
         \/ Goes(p, "expired", table, 0) /\ UNCHANGED kid
  PROVE  Kept'
<1>1. CASE Remove(p)
  <2>. DEFINE k == obj[table].backend
  <2>1. CASE /\ k \in DOMAIN kid /\ OnlyProcess(p)
             /\ OnlyChild(k) /\ kid'[k] = [kid[k] EXCEPT !.closing = TRUE]
             /\ pc'[p] = [at |-> "close", obj |-> 0, kid |-> k]
    <3>. HIDE DEF k
    <3>1. pc'[p].at = "close" /\ pc'[p].kid = k
      BY <2>1
    <3>2. /\ kid'[k].of = kid[k].of /\ kid'[k].sender = kid[k].sender /\ kid'[k].closing
          /\ kid'[k].late = kid[k].late /\ kid'[k].doomed = kid[k].doomed
      BY <2>1, Indices DEF Backend
    <3>3. /\ DOMAIN kid' = DOMAIN kid
          /\ \A i \in DOMAIN kid : i # k => kid'[i] = kid[i]
      BY <2>1 DEF OnlyChild
    <3>4. \A i \in DOMAIN kid :
           /\ kid'[i].of = kid[i].of /\ kid'[i].sender = kid[i].sender
           /\ kid'[i].late = kid[i].late /\ kid'[i].doomed = kid[i].doomed
           /\ kid[i].closing => kid'[i].closing
           /\ kid'[i].closing => kid[i].closing \/ Closes(p, i)'
      BY <3>1, <3>2, <3>3 DEF Closes
    <3>. QED  BY <2>1, <3>1, <3>3, <3>4, StillKept
  <2>2. CASE /\ UNCHANGED kid /\ OnlyProcess(p)
             /\ pc'[p] = IF pc[p].at = "detach" THEN Gone ELSE Rest
    <3>1. pc'[p].at # "restart"
      BY <2>2 DEF Gone, Rest
    <3>. QED  BY <2>2, <3>1, StillKept
  <2>. QED  BY <1>1, <2>1, <2>2, RemoveStep
<1>2. ASSUME NEW label \in {"farewell", "expired"}, Goes(p, label, table, 0), UNCHANGED kid
      PROVE  Kept'
  <2>1. table \in Nat /\ 0 \in Nat
    BY Indices
  <2>2. OnlyProcess(p) /\ pc'[p] = [at |-> label, obj |-> table, kid |-> 0]
    <3>1. CASE label = "farewell"
      BY <1>2, <2>1, <3>1, GoesStep
    <3>2. CASE label = "expired"
      BY <1>2, <2>1, <3>2, GoesStep
    <3>. QED  BY <3>1, <3>2
  <2>3. pc'[p].at # "restart"
    BY <2>2
  <2>. QED  BY <1>2, <2>2, <2>3, StillKept
<1>. QED  BY <1>1, <1>2

LEMMA ReturnsKept ==
  ASSUME TypeOK, TypeOK', Family', Kept, NEW p \in Procs, Returns(p), UNCHANGED <<kid, risky>>,
         \/ pc[p].at \notin {"close", "restart", "detach"}
         \/ ~kid[pc[p].kid].closing,
         DOMAIN obj' = DOMAIN obj,
         \A o \in DOMAIN obj : /\ obj'[o].backend \in {0, obj[o].backend}
                               /\ obj'[o].finishing = obj[o].finishing
  PROVE  Kept'
<1>1. OnlyProcess(p) /\ pc'[p].at # "restart"
  BY ReturnsStep DEF Rest, Gone
<1>. QED  BY <1>1, StillKept

LEMMA RequestsKept ==
  ASSUME TypeOK, TypeOK', Family, Family', Kept, NEW c \in Conns,
         UserRespawns(c) \/ Interrupt(c) \/ Disconnect(c)
  PROVE  Kept'
<1>. DEFINE k == obj[table].backend
<1>0. c \in Procs /\ pc[c].at = "idle"
  BY DEF Procs, UserRespawns, Interrupt, Disconnect, At
<1>1. ASSUME table \in DOMAIN obj, k \in DOMAIN kid, OnlyProcess(c), OnlyChild(k),
             kid'[k] = [kid[k] EXCEPT !.closing = TRUE], UNCHANGED risky,
             DOMAIN obj' = DOMAIN obj,
             \A o \in DOMAIN obj : obj'[o].backend = obj[o].backend /\ obj'[o].finishing = obj[o].finishing,
             NEW label \in {"restart", "detach"},
             pc'[c] = [at |-> label, obj |-> table, kid |-> k]
      PROVE  Kept'
  <2>1. /\ kid'[k].of = kid[k].of /\ kid'[k].sender = kid[k].sender /\ kid'[k].closing
        /\ kid'[k].late = kid[k].late /\ kid'[k].doomed = kid[k].doomed
    <3>. HIDE DEF k
    <3>. QED  BY <1>1, Indices DEF Backend
  <2>2. DOMAIN kid' = DOMAIN kid /\ \A i \in DOMAIN kid : i # k => kid'[i] = kid[i]
    BY <1>1 DEF OnlyChild
  <2>3. pc'[c].at = label /\ pc'[c].kid = k
    BY <1>1
  <2>4. \A i \in DOMAIN kid :
         /\ kid'[i].of = kid[i].of /\ kid'[i].sender = kid[i].sender
         /\ kid'[i].late = kid[i].late /\ kid'[i].doomed = kid[i].doomed
         /\ kid[i].closing => kid'[i].closing
         /\ kid'[i].closing => kid[i].closing \/ Closes(c, i)'
    <3>. HIDE DEF k
    <3>. QED  BY <1>1, <2>1, <2>2, <2>3 DEF Closes
  <2>5. LET b == obj'[kid'[pc'[c].kid].of].backend IN b = pc'[c].kid /\ kid'[b].closing
    <3>1. kid[k].of = table
      BY <1>1, Indices DEF Family, Belongs
    <3>2. obj'[table].backend = k
      BY <1>1
    <3>. HIDE DEF k
    <3>. QED  BY <2>1, <2>3, <3>1, <3>2
  <2>. HIDE DEF k
  <2>. QED  BY <1>0, <1>1, <2>2, <2>4, <2>5, StillKept
<1>2. CASE UserRespawns(c)
  <2>1. /\ NewChild(table) /\ OnlyProcess(c) /\ UNCHANGED <<obj, risky>>
        /\ pc'[c] = [at |-> "respawn", obj |-> table, kid |-> Len(kid) + 1]
    BY <1>2, RespawnsStep DEF UserRespawns
  <2>2. /\ DOMAIN kid \subseteq DOMAIN kid' /\ \A i \in DOMAIN kid : kid'[i] = kid[i]
        /\ \A i \in DOMAIN kid' \ DOMAIN kid : kid'[i].sender = None /\ ~kid'[i].late
        /\ pc'[c].at # "restart"
    BY <2>1 DEF NewChild, NewBackend
  <2>. QED  BY <1>0, <2>1, <2>2, StillKept
<1>3. CASE Interrupt(c)
  <2>1. /\ table \in DOMAIN obj /\ k \in DOMAIN kid /\ OnlyChild(k)
        /\ kid'[k] = [kid[k] EXCEPT !.closing = TRUE]
        /\ OnlyProcess(c) /\ pc'[c] = [at |-> "restart", obj |-> table, kid |-> k]
        /\ UNCHANGED <<obj, risky>>
    BY <1>3, InterruptStep DEF Interrupt
  <2>. HIDE DEF k
  <2>. QED  BY <1>1, <2>1
<1>4. CASE Disconnect(c)
  <2>1. /\ OnlyProcess(c)
        /\ \/ UNCHANGED <<obj, kid, risky>> /\ pc'[c] = Gone
           \/ /\ table \in DOMAIN obj /\ OnlyObject(table)
              /\ obj'[table] = [obj[table] EXCEPT !.owner = None, !.detached = TRUE, !.backend = 0]
              /\ UNCHANGED <<kid, risky>> /\ pc'[c] = Gone
           \/ /\ table \in DOMAIN obj /\ OnlyObject(table)
              /\ obj'[table] = [obj[table] EXCEPT !.owner = None, !.detached = TRUE, !.finishing = TRUE]
              /\ UNCHANGED kid /\ pc'[c] = Gone
              /\ risky' = IF Unreported(table) THEN risky \cup {k} ELSE risky
           \/ /\ table \in DOMAIN obj /\ OnlyObject(table) /\ k \in DOMAIN kid
              /\ obj'[table] = [obj[table] EXCEPT !.owner = None, !.detached = TRUE]
              /\ OnlyChild(k) /\ kid'[k] = [kid[k] EXCEPT !.closing = TRUE] /\ UNCHANGED risky
              /\ pc'[c] = [at |-> "detach", obj |-> table, kid |-> k]
    BY <1>4, DisconnectStep
  <2>2. Gone.at = "gone"
    BY DEF Gone, Rest
  <2>3. CASE UNCHANGED <<obj, kid, risky>> /\ pc'[c] = Gone
    BY <1>0, <2>1, <2>2, <2>3, StillKept
  <2>4. CASE /\ table \in DOMAIN obj /\ OnlyObject(table)
             /\ obj'[table] = [obj[table] EXCEPT !.owner = None, !.detached = TRUE, !.backend = 0]
             /\ UNCHANGED <<kid, risky>> /\ pc'[c] = Gone
    <3>1. obj'[table].backend = 0 /\ obj'[table].finishing = obj[table].finishing
      BY <2>4, Indices DEF Object
    <3>2. DOMAIN obj' = DOMAIN obj
          /\ \A o \in DOMAIN obj : /\ obj'[o].backend \in {0, obj[o].backend}
                                   /\ obj'[o].finishing = obj[o].finishing
      BY <2>4, <3>1 DEF OnlyObject
    <3>. QED  BY <1>0, <2>1, <2>2, <2>4, <3>2, StillKept
  <2>5. CASE /\ table \in DOMAIN obj /\ OnlyObject(table)
             /\ obj'[table] = [obj[table] EXCEPT !.owner = None, !.detached = TRUE, !.finishing = TRUE]
             /\ UNCHANGED kid /\ pc'[c] = Gone
             /\ risky' = IF Unreported(table) THEN risky \cup {k} ELSE risky
    <3>1. obj'[table].backend = obj[table].backend
      BY <2>5, Indices DEF Object
    <3>2. DOMAIN obj' = DOMAIN obj
          /\ \A o \in DOMAIN obj : /\ obj'[o].backend \in {0, obj[o].backend}
                                   /\ obj'[o].finishing =>
                                        obj[o].finishing \/ (Unreported(o) => obj[o].backend \in risky')
      BY <2>5, <3>1 DEF OnlyObject
    <3>3. risky \subseteq risky'
      BY <2>5
    <3>. QED  BY <1>0, <2>1, <2>2, <2>5, <3>2, <3>3, StillKept
  <2>6. CASE /\ table \in DOMAIN obj /\ OnlyObject(table) /\ k \in DOMAIN kid
             /\ obj'[table] = [obj[table] EXCEPT !.owner = None, !.detached = TRUE]
             /\ OnlyChild(k) /\ kid'[k] = [kid[k] EXCEPT !.closing = TRUE] /\ UNCHANGED risky
             /\ pc'[c] = [at |-> "detach", obj |-> table, kid |-> k]
    <3>1. obj'[table].backend = obj[table].backend /\ obj'[table].finishing = obj[table].finishing
      BY <2>6, Indices DEF Object
    <3>2. DOMAIN obj' = DOMAIN obj
          /\ \A o \in DOMAIN obj : obj'[o].backend = obj[o].backend /\ obj'[o].finishing = obj[o].finishing
      BY <2>6, <3>1 DEF OnlyObject
    <3>. HIDE DEF k
    <3>. QED  BY <1>1, <2>1, <2>6, <3>2
  <2>. QED  BY <2>1, <2>3, <2>4, <2>5, <2>6
<1>. QED  BY <1>2, <1>3, <1>4

LEMMA SpawnedKept ==
  ASSUME TypeOK, TypeOK', Family, Family', Kept, NEW c \in Conns, Spawned(c)
  PROVE  Kept'
<1>. DEFINE k == pc[c].kid  o == pc[c].obj
<1>1. /\ k \in DOMAIN kid /\ OnlyChild(k) /\ kid'[k] = [kid[k] EXCEPT !.runs = TRUE]
      /\ o \in DOMAIN obj /\ OnlyObject(o) /\ obj'[o] = [obj[o] EXCEPT !.backend = k]
      /\ OnlyProcess(c) /\ pc'[c] = [at |-> "own", obj |-> o, kid |-> 0]
      /\ c \in Procs /\ pc[c].at = "spawn" /\ UNCHANGED risky
  BY SpawnedStep DEF Spawned, At, Procs
<1>2. kid[k].sender = None
  BY <1>1 DEF Family, Fresh, Spawning, TypeOK, ChildType
<1>. HIDE DEF k, o
<1>3. /\ DOMAIN kid' = DOMAIN kid
      /\ \A i \in DOMAIN kid :
           /\ kid'[i].of = kid[i].of /\ kid'[i].sender = kid[i].sender
           /\ kid'[i].late = kid[i].late /\ kid'[i].doomed = kid[i].doomed
           /\ kid'[i].closing = kid[i].closing
  <2>1. /\ kid'[k].of = kid[k].of /\ kid'[k].sender = kid[k].sender
        /\ kid'[k].late = kid[k].late /\ kid'[k].doomed = kid[k].doomed
        /\ kid'[k].closing = kid[k].closing
    BY <1>1, Indices DEF Backend
  <2>. QED  BY <1>1, <2>1 DEF OnlyChild
<1>4. /\ obj'[o].backend = k /\ DOMAIN obj' = DOMAIN obj
      /\ \A i \in DOMAIN obj : i # o => obj'[i] = obj[i]
  BY <1>1, Indices DEF Object, OnlyObject
<1>5. \A i \in DOMAIN kid' : InTurn(i)' => Continues(i)
  BY <1>1, <1>3 DEF InTurn, Continues
<1>6. \A i \in DOMAIN obj' :
        obj'[i].backend # 0 /\ InTurn(obj[i].backend)' =>
          /\ obj'[i].backend = obj[i].backend /\ obj'[i].finishing = obj[i].finishing
          /\ Unreported(i)' => Unreported(i)
  <2>. SUFFICES ASSUME NEW i \in DOMAIN obj', obj'[i].backend # 0, InTurn(obj[i].backend)'
                PROVE  /\ obj'[i].backend = obj[i].backend /\ obj'[i].finishing = obj[i].finishing
                       /\ Unreported(i)' => Unreported(i)
    OBVIOUS
  <2>1. i # o
    BY <1>1, <1>2, <1>3, <1>4, ZenonT(30) DEF InTurn
  <2>. QED  BY <1>3, <1>4, <2>1 DEF Unreported
<1>7. pc[c].at \notin {"close", "restart", "detach"} /\ pc'[c].at # "restart"
  BY <1>1
<1>. QED  BY <1>1, <1>3, <1>4, <1>5, <1>6, <1>7, KeepsTurns

LEMMA RespawnedKept ==
  ASSUME TypeOK, TypeOK', Ownership, Family, Family', Kept, NEW c \in Conns, Respawned(c)
  PROVE  Kept'
<1>. DEFINE k == pc[c].kid  o == pc[c].obj
<1>1. /\ k \in DOMAIN kid /\ OnlyChild(k)
      /\ kid'[k] = [kid[k] EXCEPT !.runs = TRUE, !.sender = c]
      /\ o \in DOMAIN obj /\ OnlyObject(o) /\ obj'[o] = [obj[o] EXCEPT !.backend = k]
      /\ OnlyProcess(c) /\ pc'[c] = Rest /\ c \in Procs /\ pc[c].at = "respawn"
      /\ risky' = IF Ending(k) \/ c \in mixed THEN risky \cup {k} ELSE risky
  BY RespawnedStep DEF Respawned, At, Procs
<1>2. kid[k].of = o
  BY <1>1 DEF Family, Fresh, Spawning
<1>3. c \notin mixed => \A q \in Procs : pc'[q].at # "restart"
  <2>. SUFFICES ASSUME c \notin mixed, NEW q \in Procs
                PROVE  pc'[q].at # "restart"
    OBVIOUS
  <2>1. c \notin met /\ InHand(c)
    BY <1>1 DEF Ownership, Meetings, InHand
  <2>2. q # c => ~InHand(q) /\ pc'[q] = pc[q]
    BY <1>1, <2>1 DEF Ownership, Meetings, OnlyProcess
  <2>. QED  BY <1>1, <2>2 DEF InHand, Rest
<1>. HIDE DEF k, o
<1>4. /\ DOMAIN kid' = DOMAIN kid /\ \A i \in DOMAIN kid : i # k => kid'[i] = kid[i]
      /\ kid'[k].of = o /\ kid'[k].late = kid[k].late /\ kid'[k].doomed = kid[k].doomed
      /\ kid'[k].closing = kid[k].closing
  BY <1>1, <1>2, Indices DEF Backend, OnlyChild
<1>5. /\ obj'[o].backend = k /\ obj'[o].finishing = obj[o].finishing /\ DOMAIN obj' = DOMAIN obj
      /\ \A i \in DOMAIN obj : i # o => obj'[i] = obj[i]
  BY <1>1, Indices DEF Object, OnlyObject
<1>6. k \notin risky' => Begins(k)
  BY <1>1, <1>2, <1>3, <1>4, <1>5 DEF Ending, Begins
<1>7. risky' \subseteq risky \cup {k} /\ risky \subseteq risky'
  BY <1>1
<1>8. \A i \in DOMAIN kid' : InTurn(i)' => Begins(i) \/ Continues(i)
  BY <1>4, <1>6, <1>7 DEF InTurn, Continues
<1>9. \A i \in DOMAIN obj' :
        obj'[i].backend # 0 /\ InTurn(obj[i].backend)' =>
          \/ Begins(obj'[i].backend)
          \/ /\ obj'[i].backend = obj[i].backend /\ obj'[i].finishing = obj[i].finishing
             /\ Unreported(i)' => Unreported(i)
  <2>. SUFFICES ASSUME NEW i \in DOMAIN obj', obj'[i].backend # 0, InTurn(obj[i].backend)'
                PROVE  \/ Begins(obj'[i].backend)
                       \/ /\ obj'[i].backend = obj[i].backend /\ obj'[i].finishing = obj[i].finishing
                          /\ Unreported(i)' => Unreported(i)
    OBVIOUS
  <2>1. CASE i = o
    BY <1>5, <1>6, <2>1 DEF InTurn
  <2>2. CASE i # o
    <3>1. Unreported(i)' => Unreported(i)
      BY <1>4, <1>5, <2>2 DEF Unreported
    <3>. QED  BY <1>5, <2>2, <3>1
  <2>. QED  BY <2>1, <2>2
<1>10. pc[c].at \notin {"close", "restart", "detach"} /\ pc'[c].at # "restart"
  BY <1>1 DEF Rest
<1>11. \A i \in DOMAIN kid : kid'[i].of = kid[i].of
  BY <1>2, <1>4
<1>. QED  BY <1>1, <1>4, <1>5, <1>8, <1>9, <1>10, <1>11, KeepsTurns

LEMMA RestartedKept ==
  ASSUME TypeOK, TypeOK', Family', Kept, NEW c \in Conns, Restarted(c)
  PROVE  Kept'
<1>. DEFINE k == pc[c].kid  o == kid[k].of
<1>1. /\ OnlyProcess(c) /\ pc'[c] = Rest /\ k \in DOMAIN kid /\ ~kid[k].closing
      /\ c \in Procs /\ pc[c].at = "restart" /\ UNCHANGED <<obj, risky>>
      /\ \/ OnlyChild(k) /\ kid'[k] = [kid[k] EXCEPT !.runs = TRUE, !.late = TRUE]
         \/ UNCHANGED kid
  BY RestartedStep DEF Restarted, At, Procs
<1>2. obj[o].backend # 0 /\ InTurn(obj[o].backend) => obj[o].backend = k /\ kid[k].closing
  BY <1>1 DEF Kept, Restarting, At
<1>. HIDE DEF k
<1>3. /\ DOMAIN kid' = DOMAIN kid
      /\ \A i \in DOMAIN kid :
           /\ kid'[i].of = kid[i].of /\ kid'[i].sender = kid[i].sender
           /\ kid'[i].doomed = kid[i].doomed /\ kid'[i].closing = kid[i].closing
           /\ kid'[i].late => kid[i].late \/ i = k
  <2>1. kid'[k].of = kid[k].of /\ kid'[k].sender = kid[k].sender
        /\ kid'[k].doomed = kid[k].doomed /\ kid'[k].closing = kid[k].closing
    BY <1>1, Indices DEF Backend
  <2>. QED  BY <1>1, <2>1 DEF OnlyChild
<1>4. \A i \in DOMAIN kid' : InTurn(i)' => Continues(i) /\ InTurn(i)
  BY <1>1, <1>3 DEF InTurn, Continues
<1>5. \A i \in DOMAIN obj' :
        obj'[i].backend # 0 /\ InTurn(obj[i].backend)' => (Unreported(i)' => Unreported(i))
  <2>. SUFFICES ASSUME NEW i \in DOMAIN obj', obj'[i].backend # 0, InTurn(obj[i].backend)'
                PROVE  Unreported(i)' => Unreported(i)
    OBVIOUS
  <2>1. InTurn(obj[i].backend)
    BY <1>1, <1>3, Indices DEF InTurn
  <2>2. i # o
    BY <1>1, <1>2, <2>1
  <2>. HIDE DEF o
  <2>3. o = kid[k].of
    BY DEF o
  <2>. QED  BY <1>1, <1>3, <2>2, <2>3 DEF Unreported
<1>6. ~kid[pc[c].kid].closing /\ pc'[c].at # "restart"
  BY <1>1 DEF Rest, k
<1>. QED  BY <1>1, <1>3, <1>4, <1>5, <1>6, KeepsTurns

(* No process moves, and one child changes.                                *)
LEMMA OneChildKept ==
  ASSUME TypeOK, TypeOK', Family', Kept, NEW k \in DOMAIN kid, OnlyChild(k),
         kid'[k].of = kid[k].of, UNCHANGED <<obj, pc>>, risky \ {k} \subseteq risky',
         InTurn(k)' => Begins(k),
         obj[kid[k].of].backend # k /\ (kid'[k].late \/ kid'[k].sender # None) =>
           kid[k].late \/ kid[k].sender # None
  PROVE  Kept'
<1>1. /\ DOMAIN kid' = DOMAIN kid /\ \A i \in DOMAIN kid : i # k => kid'[i] = kid[i]
      /\ \A i \in DOMAIN kid : kid'[i].of = kid[i].of
  BY DEF OnlyChild
<1>2. \A i \in DOMAIN kid' : InTurn(i)' => Begins(i) \/ Continues(i)
  BY <1>1 DEF InTurn, Continues
<1>3. \A o \in DOMAIN obj :
        obj[o].backend # 0 /\ InTurn(obj[o].backend)' =>
          Begins(obj[o].backend) \/ (Unreported(o)' => Unreported(o))
  <2>. SUFFICES ASSUME NEW o \in DOMAIN obj, InTurn(obj[o].backend)', obj[o].backend # k
                PROVE  Unreported(o)' => Unreported(o)
    BY DEF InTurn
  <2>. QED  BY <1>1 DEF Unreported
<1>4. Reaper \in Procs /\ OnlyProcess(Reaper)
  BY StaysPlaced
<1>. QED  BY <1>1, <1>2, <1>3, <1>4, KeepsTurns

LEMMA UserKept ==
  ASSUME TypeOK, TypeOK', Ownership, Family, Family', Kept, NEW c \in Conns, User(c)
  PROVE  Kept'
<1>. DEFINE k == obj[table].backend
<1>1. /\ k \in DOMAIN kid /\ Send(c, k) /\ table \in DOMAIN obj /\ UNCHANGED <<obj, pc>>
      /\ c \in owned /\ pc[c].at = "idle" /\ kid[k].of = table
  BY Indices DEF User, Serves, Running, At, Family, Belongs
<1>2. c \notin mixed => \A q \in Procs : pc'[q].at # "restart"
  BY <1>1 DEF Ownership, SoleOwner, InHand
<1>3. obj[kid[k].of].backend = k
  BY <1>1
<1>. HIDE DEF k
<1>4. OnlyChild(k) /\ kid'[k] = [kid[k] EXCEPT !.sender = c]
  BY <1>1, SendStep
<1>5. /\ kid'[k].of = kid[k].of /\ kid'[k].closing = kid[k].closing
      /\ kid'[k].doomed = kid[k].doomed
  BY <1>1, <1>4, Indices DEF Backend
<1>6. risky \subseteq risky' /\ (k \notin risky' => c \notin mixed /\ ~Ending(k))
  BY <1>1 DEF Send
<1>7. k \notin risky' => Begins(k)
  BY <1>1, <1>2, <1>5, <1>6 DEF Ending, Begins
<1>8. kid'[k].sender # None /\ k \notin risky' => Begins(k)
  BY <1>7
<1>. QED
  <2>1. PICK i \in DOMAIN kid : i = k
    BY <1>1
  <2>2. InTurn(i)' => Begins(i)
    BY <1>7, <2>1 DEF InTurn
  <2>3. /\ OnlyChild(i) /\ kid'[i].of = kid[i].of /\ risky \ {i} \subseteq risky'
        /\ obj[kid[i].of].backend = i
    BY <1>3, <1>4, <1>5, <1>6, <2>1
  <2>. QED  BY <1>1, <2>2, <2>3, OneChildKept

LEMMA ResultOverKept ==
  ASSUME TypeOK, TypeOK', Family', Kept, NEW k \in DOMAIN kid, ResultOver(k)
  PROVE  Kept'
<1>. DEFINE o == kid[k].of  b == obj[o].backend
<1>1. /\ o \in DOMAIN obj /\ OnlyObject(o) /\ obj'[o] = [obj[o] EXCEPT !.finishing = FALSE]
      /\ DOMAIN kid' = DOMAIN kid
      /\ \A i \in DOMAIN kid :
           /\ kid'[i].of = kid[i].of /\ kid'[i].sender = kid[i].sender
           /\ kid'[i].closing = kid[i].closing
           /\ kid'[i].late => kid[i].late
           /\ kid'[i].doomed => kid[i].doomed \/ (obj[o].finishing /\ b # 0 /\ i = b)
      /\ UNCHANGED <<pc, risky>>
  BY ResultOverStep DEF ResultOver, ghosts
<1>2. ~(obj[o].finishing /\ b # 0 /\ InTurn(b))
  <2>1. Unreported(o)
    BY DEF Unreported, ResultOver
  <2>. QED  BY <1>1, <2>1 DEF Kept, OneResult
<1>. HIDE DEF o
<1>3. /\ DOMAIN obj' = DOMAIN obj
      /\ \A i \in DOMAIN obj : /\ obj'[i].backend = obj[i].backend
                               /\ obj'[i].finishing => obj[i].finishing
  BY <1>1, Indices DEF OnlyObject, Object
<1>4. \A i \in DOMAIN kid' : InTurn(i)' => Continues(i)
  BY <1>1, <1>2 DEF InTurn, Continues
<1>5. \A i \in DOMAIN obj : Unreported(i)' => Unreported(i)
  BY <1>1, <1>3 DEF Unreported
<1>6. Reaper \in Procs /\ OnlyProcess(Reaper)
  BY <1>1, StaysPlaced
<1>. QED  BY <1>1, <1>3, <1>4, <1>5, <1>6, KeepsTurns

LEMMA ChildKept ==
  ASSUME TypeOK, TypeOK', Family', Kept, NEW k \in DOMAIN kid, Child(k) \/ SoftKill(k) \/ Dies(k)
  PROVE  Kept'
<1>1. CASE Result(k)
  <2>1. /\ OnlyChild(k) /\ kid'[k] = [kid[k] EXCEPT !.sender = None, !.late = TRUE]
        /\ kid[k].sender # None /\ risky' = risky \ {k} /\ UNCHANGED <<obj, pc>>
    BY <1>1, ResultStep DEF Result
  <2>2. kid'[k].of = kid[k].of /\ kid'[k].sender = None
    BY <2>1, Indices DEF Backend
  <2>. QED  BY <2>1, <2>2, OneChildKept DEF InTurn
<1>2. CASE SoftKill(k)
  <2>1. /\ OnlyChild(k) /\ kid'[k] = [kid[k] EXCEPT !.doomed = FALSE, !.closing = kid[k].runs]
        /\ kid[k].doomed /\ UNCHANGED <<obj, pc, risky>>
    BY <1>2, SoftKillStep DEF SoftKill, ghosts
  <2>2. kid'[k].of = kid[k].of /\ kid'[k].sender = kid[k].sender /\ kid'[k].late = kid[k].late
    BY <2>1, Indices DEF Backend
  <2>3. ~InTurn(k)
    BY <2>1 DEF Kept, DoomedAtRest
  <2>. QED  BY <2>1, <2>2, <2>3, OneChildKept DEF InTurn
<1>3. CASE Dies(k) \/ Exits(k)
  <2>1. PICK late \in BOOLEAN :
          /\ late => kid[k].late \/ kid[k].sender # None
          /\ Stops(k, late) /\ OnlyChild(k)
          /\ kid'[k] = [kid[k] EXCEPT !.runs = FALSE, !.closing = FALSE,
                                      !.sender = None, !.late = late]
    BY <1>3, EndsStep
  <2>2. kid'[k].of = kid[k].of /\ kid'[k].sender = None /\ kid'[k].late = late
    BY <2>1, Indices DEF Backend
  <2>3. risky' = risky \ {k} /\ UNCHANGED <<obj, pc>>
    BY <2>1 DEF Stops
  <2>. QED  BY <2>1, <2>2, <2>3, OneChildKept DEF InTurn
<1>. QED  BY <1>1, <1>2, <1>3, ResultOverKept DEF Child

LEMMA NextKept ==
  ASSUME TypeOK, TypeOK', Ownership, Family, Family', Kept, [Next]_vars
  PROVE  Kept'
<1>1. ASSUME NEW c \in Conns, Request(c)
      PROVE  Kept'
  <2>1. CASE Close(c)
    BY <2>1, RemovesKept DEF Close, At, Procs
  <2>. QED  BY <1>1, <2>1, OpensKept, UserKept, RequestsKept DEF Request
<1>2. ASSUME NEW c \in Conns, Handler(c)
      PROVE  Kept'
  <2>1. CASE SpawnFails(c) \/ Farewell(c)
    BY <2>1, RemovesKept DEF SpawnFails, Farewell, At, Procs, ghosts
  <2>2. CASE SpawnBreaks(c) \/ RespawnFails(c) \/ Closed(c)
    BY <2>2, ReturnsKept DEF SpawnBreaks, RespawnFails, Closed, At, Procs, ghosts
  <2>3. CASE Attach(c)
    <3>. DEFINE o == pc[c].obj
    <3>1. /\ Returns(c) /\ UNCHANGED <<kid, risky>> /\ o \in DOMAIN obj /\ OnlyObject(o)
          /\ obj'[o] = [obj[o] EXCEPT !.owner = c, !.detached = FALSE] /\ pc[c].at = "own"
      BY <2>3, AttachStep DEF Attach, At, ghosts
    <3>. HIDE DEF o
    <3>2. DOMAIN obj' = DOMAIN obj
          /\ \A i \in DOMAIN obj : /\ obj'[i].backend \in {0, obj[i].backend}
                                   /\ obj'[i].finishing = obj[i].finishing
      <4>1. /\ obj'[o].backend \in {0, obj[o].backend}
            /\ obj'[o].finishing = obj[o].finishing
        BY <3>1, Dated DEF Object
      <4>. QED  BY <3>1, <4>1 DEF OnlyObject
    <3>. QED  BY <3>1, <3>2, ReturnsKept DEF Procs
  <2>4. CASE Detached(c)
    <3>. DEFINE o == pc[c].obj
    <3>1. /\ Returns(c) /\ UNCHANGED <<kid, risky>> /\ o \in DOMAIN obj /\ OnlyObject(o)
          /\ obj'[o] = [obj[o] EXCEPT !.backend = 0] /\ ~kid[pc[c].kid].closing
      BY <2>4, DetachedStep DEF Detached, ghosts
    <3>. HIDE DEF o
    <3>2. DOMAIN obj' = DOMAIN obj
          /\ \A i \in DOMAIN obj : /\ obj'[i].backend \in {0, obj[i].backend}
                                   /\ obj'[i].finishing = obj[i].finishing
      <4>1. /\ obj'[o].backend \in {0, obj[o].backend}
            /\ obj'[o].finishing = obj[o].finishing
        BY <3>1, Dated DEF Object
      <4>. QED  BY <3>1, <4>1 DEF OnlyObject
    <3>. QED  BY <3>1, <3>2, ReturnsKept DEF Procs
  <2>. QED  BY <1>2, <2>1, <2>2, <2>3, <2>4, OpensKept, SpawnedKept, RespawnedKept,
            RestartedKept DEF Handler
<1>3. CASE Expire
  BY <1>3, RemovesKept DEF Expire, At, Procs
<1>4. CASE Closed(Reaper)
  BY <1>4, ReturnsKept DEF Closed, Procs, ghosts
<1>5. CASE Reap
  BY <1>5, RemovesKept DEF Reap, At, Procs, ghosts
<1>6. ASSUME NEW k \in DOMAIN kid, Child(k) \/ SoftKill(k) \/ Dies(k)
      PROVE  Kept'
  BY <1>6, ChildKept
<1>7. CASE UNCHANGED vars
  <2>1. UNCHANGED <<obj, kid, pc, risky>>
    BY <1>7 DEF vars, ghosts
  <2>2. CloserWaits' /\ DoomedAtRest'
    BY <2>1 DEF Kept, CloserWaits, DoomedAtRest, InTurn, Closes
  <2>3. OneResult' /\ Restarting'
    BY <2>1 DEF Kept, OneResult, Restarting, InTurn, Unreported, At
  <2>. QED  BY <2>2, <2>3 DEF Kept
<1>. QED  BY <1>1, <1>2, <1>3, <1>4, <1>5, <1>6, <1>7 DEF Next, ReaperStep

LEMMA InitKept == Init => Family /\ Kept
BY DEF Init, Family, Fresh, Belongs, Spawning, Kept, CloserWaits, DoomedAtRest, OneResult,
       Restarting, Rest, At

(* For any number of connections: a turn of a client that owns the session *)
(* is cut short only when it was given to a child that was about to end    *)
(* for an earlier owner (session.py, on_event and detach_soft).            *)
THEOREM TurnsAreKept == Spec => TurnKept
<1>. DEFINE Cut == \A k \in DOMAIN kid :
              kid[k].sender \in owned \ mixed /\ kid[k].closing /\ ~Interrupted(k) /\ ~kid'[k].runs
                => k \in risky
<1>1. TypeOK /\ Ownership /\ Kept => Cut
  <2>. SUFFICES ASSUME TypeOK, Ownership, Kept, NEW k \in DOMAIN kid, k \notin risky,
                       kid[k].sender \in owned \ mixed, kid[k].closing, ~Interrupted(k)
                PROVE  FALSE
    OBVIOUS
  <2>. DEFINE c == kid[k].sender
  <2>1. c \in Conns /\ c # None
    BY TableAssumption DEF TypeOK, Procs
  <2>2. PICK p \in Procs : Closes(p, k)
    BY <2>1 DEF Kept, CloserWaits, InTurn
  <2>3. p = c
    BY <2>1, <2>2 DEF Ownership, SoleOwner, InHand, Closes
  <2>4. pc[p].at = "restart"
    BY <2>1, <2>2, <2>3 DEF Ownership, SoleOwner, Closes
  <2>. QED  BY <2>1, <2>2, <2>3, <2>4 DEF Interrupted, Closes, At
<1>2. TypeOK /\ Ownership /\ Family /\ Kept /\ [Next]_vars
        => TypeOK' /\ Ownership' /\ Family' /\ Kept'
  BY NextType, NextOwnership, NextFamily, NextKept
<1>. QED  BY <1>1, <1>2, InitType, InitOwnership, InitKept, PTL DEF Spec, TurnKept
=============================================================================
