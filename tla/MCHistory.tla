----------------------------- MODULE MCHistory -----------------------------
(* History on a small instance.  While an agent runs beside the command,   *)
(* and once it has promoted, edits, contents, branch commands and crashes  *)
(* are fewer than where the command is alone.                              *)
EXTENDS History

CONSTANT PairContent, PairEdits, PairCommands   \* bounds of the two together

Alone ==
  /\ \A a \in Agent : proc[a] = Idle
  /\ \A k \in 1..Len(cs) : cs[k].by \notin Agent

Few ==
  /\ {wd} \cup {entry[e].content : e \in 1..Len(entry)} \subseteq PairContent
  /\ edits <= PairEdits /\ commands <= PairCommands /\ crashes = 0

MCNext == Next /\ (Alone' \/ Few')
MCSpec == Init /\ [][MCNext]_vars
=============================================================================
