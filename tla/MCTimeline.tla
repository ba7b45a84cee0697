----------------------------- MODULE MCTimeline -----------------------------
(* Timeline on small instances: contents of one size, so that only the     *)
(* mtime tells a rewritten file from an untouched one.                     *)
EXTENDS Timeline

MCSizeOf == [c \in Content |-> 1]

=============================================================================
