-------------------------- MODULE CodexTranslator --------------------------
(***************************************************************************)
(* CodexTranslator (backends/translate_codex.py): what becomes of a native *)
(* Codex event.  An event is a record of its kind and the turn it belongs  *)
(* to.  Of the buffers kept for the result of a turn only their origin     *)
(* matters: the turn whose event filled them last, or 0.  Every event      *)
(* gives one frame or none; the fields of the frames are left out, and so  *)
(* are the raw copy and the context window of the first frame.             *)
(***************************************************************************)
EXTENDS Naturals

(* Each row of the dispatch, grouped by what it does: gives a frame,       *)
Shown ==
  {"session_configured", "task_started", "rate_limits", "mcp_startup",
   "content_delta", "agent_item", "exec_command", "unknown"}
(* is dropped (its content comes in another event, or is not for clients), *)
Dropped ==
  {"message_delta", "message", "item_started", "user_item", "reasoning_item",
   "raw_response_item"}
(* or is kept for the result.                                              *)
Buffered == {"token_count", "task_complete", "turn_aborted"}

EventKinds == Shown \cup Dropped \cup Buffered

(* _reset_turn, which every result does.                                   *)
Fresh == [usage |-> 0, complete |-> 0]

(* token_count with info replaces the usage; task_complete and             *)
(* turn_aborted share a slot, and the later one's turn_id stands.          *)
Buffer(tr, e) ==
  CASE e.kind = "token_count" -> [tr EXCEPT !.usage = e.turn]
    [] e.kind \in {"task_complete", "turn_aborted"} -> [tr EXCEPT !.complete = e.turn]
    [] OTHER -> tr
=============================================================================
