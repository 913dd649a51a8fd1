--------------------------- MODULE MCEventStream ---------------------------
(***************************************************************************)
(* Small instances of EventStream for TLC.                                 *)
(***************************************************************************)
EXTENDS EventStream, TLC

CONSTANTS c1, c2, s1, s2

MCConns   == {c1, c2}
MCSources == {s1, s2}

MCOneConn   == {c1}
MCOneSource == {s1}

Symmetry == Permutations({c1, c2}) \cup Permutations({s1, s2})
=============================================================================
