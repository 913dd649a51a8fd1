--------------------------- MODULE TurnLifecycle ---------------------------
(***************************************************************************)
(* What a backend promises about the turns of its session                  *)
(* (docs/agent-events.md:70-80): one turn is open at a time, and every     *)
(* turn that was accepted is closed.  A turn may be lost only where the    *)
(* specification that implements this one says so, and never silently      *)
(* replaced by the next.                                                   *)
(***************************************************************************)
CONSTANT Turns

VARIABLE status  (* of every turn: "none", "open", "ending" (its result is *)
                 (* decided and will follow), "closed" or "lost"           *)

Init == status = [t \in Turns |-> "none"]

Unanswered(t) == status[t] \in {"open", "ending"}

(* The turns of one set reach the same new status together.                *)
Become(ts, s) ==
  status' = [t \in Turns |-> IF t \in ts THEN s ELSE status[t]]

(* A turn is accepted when no other is open.                               *)
Accept(t) ==
  /\ status[t] = "none" /\ \A u \in Turns : status[u] # "open"
  /\ Become({t}, "open")

(* An interrupt decides how the open turn ends.                            *)
Promise(t) == status[t] = "open" /\ Become({t}, "ending")

(* Its result is emitted.                                                  *)
Close(t) == Unanswered(t) /\ Become({t}, "closed")

Lose(ts) ==
  /\ ts # {} /\ \A t \in ts : status[t] \in {"none", "open", "ending"}
  /\ Become(ts, "lost")

Next ==
  \/ \E t \in Turns : Accept(t) \/ Promise(t) \/ Close(t)
  \/ \E ts \in SUBSET Turns : Lose(ts)

(* What no turn ever does, and that every turn ends.                       *)
Steps == Init /\ [][Next]_status

EveryTurnEnds == \A t \in Turns : Unanswered(t) ~> ~Unanswered(t)

Spec == Steps /\ EveryTurnEnds
=============================================================================
