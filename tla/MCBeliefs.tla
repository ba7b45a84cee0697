----------------------------- MODULE MCBeliefs ------------------------------
(* Small instances of Beliefs: a file of four lines, evidence on the last   *)
(* two, and changes above, on the edges of, inside and below the evidence.  *)
(* Two processes run together only while there are few changesets and few   *)
(* commands; one alone goes on while there are few of either.               *)
EXTENDS Beliefs, TLC

CONSTANT PairChangesets, PairCommands   \* what few is

Op(at, old, new) == [at |-> at, old |-> old, new |-> new]
Edit(ops) == [kind |-> "edit", ops |-> ops, other |-> FALSE]

MCSpans == {<<3, 4>>}
MCChanges ==
  {Edit({Op(1, 1, 0), Op(3, 0, 2), Op(5, 0, 1)}), Edit({Op(4, 0, 1)})}
  \cup {[kind |-> k, ops |-> {}, other |-> k = "none"] : k \in {"none", "drop", "make"}}

Alone  == Cardinality({x \in Procs : proc[x] # Idle}) <= 1
Short  == Len(log) <= PairChangesets
Few    == MaxCommands - left <= PairCommands
MCNext == Next /\ ((Alone /\ (Short \/ Few)) \/ (Short /\ Few))'
MCSpec == Init /\ [][MCNext]_vars

Symmetry == Permutations(Procs)
=============================================================================
