------------------------------ MODULE Protocol ------------------------------
(***************************************************************************)
(* The frames a daemon accepts (protocol.py) and the ones the library      *)
(* builds (client.py).  A frame is its type, the fields it has, and those  *)
(* of them whose value has the wrong type or is empty; "odd" stands for a  *)
(* well-typed name of a backend that is not known.                         *)
(***************************************************************************)

Frame(type, has, bad) == [type |-> type, has |-> has, bad |-> bad]

(* Fields that are checked at all: a flag is coerced, data is opaque.      *)
Checked == {"protocol", "client", "id", "session_id", "backend", "odd", "options",
            "last_seen_seq", "alias", "message", "cwd", "live"}

RejectExtraKeys(f, allowed) == ~(f.has \subseteq allowed)

Strict(f, required, optional) ==
  IF \/ RejectExtraKeys(f, required \cup optional)
     \/ ~(required \subseteq f.has)
     \/ f.bad \cap f.has \cap Checked # {}
  THEN "invalid_message" ELSE "ok"

ParseHello(f) == Strict(f, {"protocol"}, {"client"})

(* The backend is looked at before the options are.                        *)
OpenOf(f, fields, more) ==
  IF /\ ~RejectExtraKeys(f, fields \cup more)
     /\ "session_id" \in f.has \ f.bad /\ "backend" \in f.has /\ "odd" \in f.bad
  THEN "unknown_backend" ELSE Strict(f, fields, more)

ParseOpenOnce(f) ==   (* mutant: last_seen_seq is no field of an open *)
  OpenOf(f, {"session_id", "backend", "options"}, {"id", "resume", "alias"})
ParseOpen(f) ==
  OpenOf(f, {"session_id", "backend", "options"}, {"id", "resume", "last_seen_seq", "alias"})

ParseUser(f)         == Strict(f, {"session_id", "message"}, {})
ParseInterrupt(f)    == Strict(f, {"session_id"}, {})
ParseClose(f)        == Strict(f, {"session_id"}, {"id", "delete"})
ParseListSessions(f) == Strict(f, {}, {"id", "cwd", "live"})
ParsePing(f)         == Strict(f, {}, {"id", "data"})
ParseStatus(f)       == Strict(f, {}, {"id"})
ParseWatch(f)        == Strict(f, {"session_id"}, {"id", "last_seen_seq"})
ParseUnwatch(f)      == Strict(f, {"session_id"}, {"id"})
ParseSessionInfo(f)  == Strict(f, {"session_id"}, {"id"})

(* _dispatch: which parser, and the code of the error it ends in.  A       *)
(* second hello is refused whatever it says.                               *)
Verdict(f) ==
  CASE f.type = "open"          -> ParseOpen(f)
    [] f.type = "user"          -> ParseUser(f)
    [] f.type = "interrupt"     -> ParseInterrupt(f)
    [] f.type = "close"         -> ParseClose(f)
    [] f.type = "list_sessions" -> ParseListSessions(f)
    [] f.type = "ping"          -> ParsePing(f)
    [] f.type = "status"        -> ParseStatus(f)
    [] f.type = "watch"         -> ParseWatch(f)
    [] f.type = "unwatch"       -> ParseUnwatch(f)
    [] f.type = "session_info"  -> ParseSessionInfo(f)
    [] f.type = "hello"         -> "invalid_message"
    [] OTHER                    -> "unknown_message"

-----------------------------------------------------------------------------
(* What the library sends: requests whose reply somebody awaits, the hello *)
(* of connect, and the calls on a session, which await nothing.            *)
ClientHello == Frame("hello", {"client", "protocol"}, {})

ClientOpens ==
  {Frame("open", {"id", "session_id", "backend", "options"} \cup more, bad) :
     more \in SUBSET {"resume", "last_seen_seq"}, bad \in {{}, {"odd"}}}

ClientLists == {Frame("list_sessions", {"id", "cwd"}, {})}

ClientCalls ==
  { Frame("user", {"session_id", "message"}, {}),
    Frame("interrupt", {"session_id"}, {}),
    Frame("close", {"session_id", "delete"}, {}) }

(* And what any other program may: too few fields, one too many, one that  *)
(* is wrong.                                                               *)
OtherFrames ==
  {Frame(t, has, bad) :
     t \in {"open", "user", "list_sessions", "ping", "status", "watch", "unwatch",
            "session_info", "hello", "other"},
     has \in {{}, {"id"}, {"session_id"}, {"id", "session_id"}, {"id", "session_id", "extra"}},
     bad \in {{}, {"id"}}}
=============================================================================
