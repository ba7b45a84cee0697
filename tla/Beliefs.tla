------------------------------ MODULE Beliefs -------------------------------
(***************************************************************************)
(* One belief of the graph (gpp-graphex belief.rs, stale.rs): a claim that *)
(* rests on a span of lines of a file, anchored at a changeset.  Commands  *)
(* of people and agents (gpp-cli belief.rs and phase3.rs, gpp-sdk) record, *)
(* scan, reaffirm, accept and reject it while history grows below it.      *)
(*                                                                         *)
(* A line is a value that occurs once in all of history, so that "the same *)
(* lines" has a meaning the program's line numbers can be held against.    *)
(* The belief has one evidence span and no symbols.  Changesets have one   *)
(* parent.  The object store and the refs have modules of their own.       *)
(***************************************************************************)
EXTENDS Integers, Sequences, FiniteSets, SequencesExt

CONSTANTS
  Procs,        \* running commands and agent sessions
  Branches,     \* branch names
  FirstBranch,  \* the branch HEAD names at the start
  Length,       \* lines of the evidence file in the first changeset
  Spans,        \* spans a command may give as evidence
  Changes,      \* what a changeset may do to the tree
  Scope,        \* which of "file" (the evidence file), "other" the scope's globs match
  MaxChangesets, \* bound: changesets made, the first one included
  MaxCommands   \* bound: commands other than promotions

LineOp == [at : Nat \ {0}, old : Nat, new : Nat]
Gone   == <<0, 0>>

ASSUME BranchAssumption == FirstBranch \in Branches
ASSUME SpanAssumption   == \A s \in Spans : s \in Nat \X Nat /\ 1 <= s[1] /\ s[1] <= s[2]
ASSUME ChangeAssumption ==
  \A ch \in Changes : /\ ch.kind \in {"none", "edit", "drop", "make"}
                      /\ ch.ops \subseteq LineOp /\ IsFiniteSet(ch.ops) /\ ch.other \in BOOLEAN
ASSUME ScopeAssumption  == Scope \subseteq {"file", "other"}
ASSUME BoundAssumption  == Length \in Nat /\ MaxChangesets \in Nat \ {0} /\ MaxCommands \in Nat

VARIABLES
  log,       \* the changesets, each with its parent, its diff and the file it leaves
  tip,       \* tip[b]: the changeset of branch b, 0 while there is no such branch
  head,      \* the branch HEAD names
  node,      \* the row and the payload of the belief's node
  proposal,  \* is there a .proposal file for it
  proc,      \* what each process is doing
  left,      \* commands still allowed
  scanned,   \* history: the tip of the last scan whose result is in node
  settled,   \* history: the changesets a scan has ruled on
  told,      \* history: events emitted since the belief was last anchored
  late,      \* history: what a process has read of the node and others have changed since
  crossed    \* history: has a process written or told anything from such a reading

graph == <<node, proposal>>
ghost == <<scanned, settled, told>>
vars  == <<log, tip, head, node, proposal, proc, left, scanned, settled, told, late, crossed>>

Status == {"active", "stale", "invalidated", "reaffirmed"}
-----------------------------------------------------------------------------
(* Files and changesets.                                                   *)
End == <<0, 0, 0>>   \* what follows the last line: verify_evidence counts it as a line

Fits(ops, n) ==
  /\ \A o \in ops : o.at + o.old <= n + 1 /\ o.old + o.new > 0
  /\ \A o, q \in ops : o = q \/ o.at + o.old < q.at \/ q.at + q.old < o.at

Edited(lines, ops, c) ==
  LET before(i) == IF \E o \in ops : o.at = i
                   THEN [j \in 1 .. (CHOOSE o \in ops : o.at = i).new |-> <<c, i, j>>] ELSE <<>>
      kept(i)   == IF i <= Len(lines) /\ \A o \in ops : i < o.at \/ o.at + o.old <= i
                   THEN <<lines[i]>> ELSE <<>>
  IN  FlattenSeq([i \in 1 .. Len(lines) + 1 |-> before(i) \o kept(i)])

Fresh(c) == [i \in 1 .. Length |-> <<c, i, 0>>]

Possible(par, ch) ==
  CASE ch.kind = "edit" -> log[par].there /\ ch.ops # {} /\ Fits(ch.ops, Len(log[par].lines))
    [] ch.kind = "drop" -> log[par].there
    [] ch.kind = "make" -> ~log[par].there
    [] ch.kind = "none" -> TRUE

Changeset(c, par, ch) ==
  [parent |-> par, kind |-> ch.kind, other |-> ch.other,
   ops    |-> IF ch.kind = "edit" THEN ch.ops ELSE {},
   there  |-> CASE ch.kind = "drop" -> FALSE [] ch.kind = "make" -> TRUE
                [] OTHER -> log[par].there,
   lines  |-> CASE ch.kind = "drop" -> <<>> [] ch.kind = "make" -> Fresh(c)
                [] ch.kind = "edit" -> Edited(log[par].lines, ch.ops, c)
                [] ch.kind = "none" -> log[par].lines]

(* From c back to the anchor, oldest first, without the anchor; all the    *)
(* way back for 0.                                                         *)
ChainAfter(anchor, c) ==
  LET back[d \in 0 .. Len(log)] == IF d \in {0, anchor} THEN <<>> ELSE Append(back[log[d].parent], d)
  IN  back[c]
Ancestors(c) == ToSet(ChainAfter(0, c))
-----------------------------------------------------------------------------
(* The staleness engine.                                                   *)
(* Mutant: an insertion at the top edge counts as inside.                  *)
Intersects_Edge(o, s) ==
  IF o.old = 0 THEN s[1] <= o.at /\ o.at <= s[2]
               ELSE o.at <= s[2] /\ s[1] < o.at + o.old

Intersects(o, s) ==
  IF o.old = 0 THEN s[1] < o.at /\ o.at <= s[2]
               ELSE o.at <= s[2] /\ s[1] < o.at + o.old

IsAbove(o, s) == IF o.old = 0 THEN o.at <= s[1] ELSE o.at + o.old - 1 < s[1]

(* Mutant: spans do not move with the edits above them.                    *)
Drifted_Pinned(ops, s) == s

Drifted(ops, s) ==
  LET d     == MapThenSumSet(LAMBDA o : o.new - o.old, {o \in ops : IsAbove(o, s)})
      to(n) == IF n + d < 1 THEN 1 ELSE n + d
  IN  <<to(s[1]), to(s[2])>>

(* What one changeset does to a span that lies at s before it, and what it *)
(* makes of the belief.                                                    *)
Ruling(c, s) ==
  LET rule(span, to) == [span |-> span, to |-> to]
      onFile ==
        CASE log[c].kind = "none" -> rule(s, "none")
          [] log[c].kind = "make" -> rule(s, "stale")
          [] log[c].kind = "drop" -> rule(Gone, IF s = Gone THEN "stale" ELSE "invalidated")
          [] log[c].kind = "edit" /\ s = Gone -> rule(s, IF "file" \in Scope THEN "stale" ELSE "none")
          [] log[c].kind = "edit" /\ s # Gone ->
               IF \E o \in log[c].ops : Intersects(o, s) THEN rule(Gone, "invalidated")
               ELSE rule(Drifted(log[c].ops, s), "stale")
  IN  IF onFile.to = "none" /\ log[c].other /\ "other" \in Scope
      THEN rule(onFile.span, "stale") ELSE onFile

ScanOne(acc, c) ==
  LET r == Ruling(c, acc.span)
  IN  [span |-> r.span,
       hits |-> IF r.to = "none" THEN acc.hits ELSE Append(acc.hits, [cs |-> c, to |-> r.to])]

Scan(d, c) == FoldLeft(ScanOne, [span |-> d.span, hits |-> <<>>], ChainAfter(d.anchor, c)).hits
-----------------------------------------------------------------------------
(* The payload of the node.                                                *)
Entry(c, to) == [cs |-> c, to |-> to]

(* recompute_status, and status_at, which passes over what it cannot see.  *)
Turned(st, to) ==
  IF to \in {"reaffirmed", "invalidated"} THEN to
  ELSE IF to = "stale" /\ st # "invalidated" THEN "stale" ELSE st

StatusOf(history) == FoldLeft(LAMBDA st, h : Turned(st, h.to), "active", history)
SeenFrom(history, commits) ==
  FoldLeft(LAMBDA st, h : IF h.cs \in commits THEN Turned(st, h.to) ELSE st, "active", history)

(* A reaffirmation moves the anchor; the belief was there before.          *)
AnchoredWithin(d, commits) ==
  d.anchor \in commits \/ \E h \in ToSet(d.history) : h.cs \in commits

StatusAt(d, c) ==
  IF AnchoredWithin(d, Ancestors(c)) THEN SeenFrom(d.history, Ancestors(c)) ELSE "unknown"

Record(d, h) ==
  IF h \in ToSet(d.history) THEN d
  ELSE [d EXCEPT !.history = Append(@, h), !.status = StatusOf(Append(d.history, h)),
                 !.culprit = IF h.to = "invalidated" /\ @ = 0 THEN h.cs ELSE @]

Ruled(d, c) == FoldLeft(Record, d, Scan(d, c))

Blank == [anchor |-> 0, span |-> Gone, status |-> "active", culprit |-> 0, history |-> <<>>]
NewBelief(c, s) ==
  [anchor |-> c, span |-> s, status |-> "active", culprit |-> 0, history |-> <<Entry(c, "active")>>]

(* The node of a person's belief, and of one an agent proposes.            *)
HumanBelief(d) == [state |-> "active", source |-> "human", data |-> d]
AgentBelief(d) == [state |-> "proposed", source |-> "agent", data |-> d]

(* Mutant: reaffirming starts the history afresh.                          *)
Reanchored_Afresh(d, c, s) ==
  Record([d EXCEPT !.anchor = c, !.span = s, !.culprit = 0, !.history = <<>>], Entry(c, "reaffirmed"))

Reanchored(d, c, s) ==
  Record([d EXCEPT !.anchor = c, !.span = s, !.culprit = 0], Entry(c, "reaffirmed"))

(* verify_evidence.                                                        *)
Verified(c, s) == log[c].there /\ s # Gone /\ s[2] <= Len(log[c].lines) + 1

(* The lines that s names in c.                                            *)
Text(c) == IF log[c].there THEN log[c].lines \o <<End>> ELSE <<>>
Named(c, s) == SubSeq(Text(c), s[1], s[2])
Intact(c, lines) == \E s \in {<<i, i + Len(lines) - 1>> : i \in 1 .. Len(Text(c))} :
                       s[2] <= Len(Text(c)) /\ Named(c, s) = lines
-----------------------------------------------------------------------------
Absent == [state |-> "none", source |-> "human", data |-> Blank]
Idle   == [pc |-> "idle", cmd |-> "none", tip |-> 0, from |-> "active", node |-> Absent]

Init ==
  /\ log = <<[parent |-> 0, kind |-> "make", other |-> TRUE, ops |-> {}, there |-> TRUE, lines |-> Fresh(1)]>>
  /\ tip = [b \in Branches |-> IF b = FirstBranch THEN 1 ELSE 0]
  /\ head = FirstBranch
  /\ node = Absent /\ proposal = FALSE
  /\ proc = [p \in Procs |-> Idle] /\ left = MaxCommands
  /\ scanned = 0 /\ settled = {} /\ told = [k \in {"stale", "invalidated"} |-> 0]
  /\ late = {} /\ crossed = FALSE

(* list_beliefs and resolve_belief find the node in any lifecycle state.   *)
Found == node.state # "none"

Go(p, pc) == proc' = [proc EXCEPT ![p].pc = pc]
Done(p)   == proc' = [proc EXCEPT ![p] = Idle]
Command(p, r) ==
  /\ proc[p].pc = "idle" /\ left > 0
  /\ left' = left - 1
  /\ proc' = [proc EXCEPT ![p] = r]

(* History grows: a promotion by a command or an agent, which then scans,  *)
(* and a fast-forward by a sync, which does not.                           *)
Grow(b, ch) ==
  LET c == Len(log) + 1
  IN  /\ c <= MaxChangesets /\ tip[b] # 0 /\ Possible(tip[b], ch)
      /\ log' = Append(log, Changeset(c, tip[b], ch))
      /\ tip' = [tip EXCEPT ![b] = c]
      /\ UNCHANGED <<head, graph, ghost>>

Promote(p) ==
  /\ proc[p].pc = "idle"
  /\ \E ch \in Changes : Grow(head, ch)
  /\ proc' = [proc EXCEPT ![p] = [Idle EXCEPT !.pc = "list", !.cmd = "promote", !.tip = Len(log) + 1]]
  /\ UNCHANGED left

FastForward ==
  /\ \E b \in Branches, ch \in Changes : Grow(b, ch)
  /\ UNCHANGED <<proc, left>>

CreateBranch ==
  /\ \E b \in Branches : tip[b] = 0 /\ tip' = [tip EXCEPT ![b] = tip[head]]
  /\ UNCHANGED <<log, head, graph, proc, left, ghost>>

Switch ==
  /\ \E b \in Branches \ {head} : tip[b] # 0 /\ head' = b
  /\ UNCHANGED <<log, tip, graph, proc, left, ghost>>
-----------------------------------------------------------------------------
(* `belief stale` and `belief bisect`, and the scan that ends a promotion. *)
Stale(p) ==
  /\ Command(p, [Idle EXCEPT !.pc = "list", !.cmd = "stale", !.tip = tip[head]])
  /\ UNCHANGED <<log, tip, head, graph, ghost>>

Bisect(p) ==
  /\ Found
  /\ Command(p, [Idle EXCEPT !.pc = "read", !.cmd = "bisect", !.tip = tip[head]])
  /\ UNCHANGED <<log, tip, head, graph, ghost>>

(* scan_beliefs takes the status to compare with from list_beliefs.        *)
List(p) ==
  /\ proc[p].pc = "list"
  /\ IF ~Found THEN Done(p)
     ELSE proc' = [proc EXCEPT ![p].pc = "read", ![p].from = node.data.status]
  /\ UNCHANGED <<log, tip, head, graph, left, ghost>>

AfterScan(p, n) ==
  proc' = [proc EXCEPT ![p] = IF @.cmd \in {"promote", "stale"}
                              THEN [@ EXCEPT !.pc = "tell", !.node = n] ELSE Idle]

(* The scan of c has ruled on the changesets after the anchor.             *)
Settle(d, c) ==
  /\ scanned' = c
  /\ settled' = settled \cup {d.anchor} \cup ToSet(ChainAfter(d.anchor, c))

Read(p) ==
  LET d == node.data
      c == proc[p].tip
      n == Ruled(d, c)
  IN  /\ proc[p].pc = "read"
      /\ \/ /\ d.anchor \notin Ancestors(c)       \* not on this branch: an error, skipped
            /\ Done(p) /\ UNCHANGED <<scanned, settled>>
         \/ /\ d.anchor \in Ancestors(c) /\ n = d  \* nothing new to persist
            /\ AfterScan(p, node) /\ Settle(d, c)
         \/ /\ d.anchor \in Ancestors(c) /\ n # d
            /\ proc' = [proc EXCEPT ![p].pc = "save", ![p].node = [node EXCEPT !.data = n]]
            /\ UNCHANGED <<scanned, settled>>
      /\ UNCHANGED <<log, tip, head, graph, left, told>>

(* Mutant: the event is emitted whether or not the status changed.         *)
Tell_Always(p) ==
  /\ proc[p].pc = "tell"
  /\ LET to == proc[p].node.data.status IN
       told' = IF to \in DOMAIN told THEN [told EXCEPT ![to] = @ + 1] ELSE told
  /\ IF proc[p].cmd = "stale" THEN proc' = [proc EXCEPT ![p].pc = "read", ![p].cmd = "rescan"]
     ELSE Done(p)
  /\ UNCHANGED <<log, tip, head, graph, left, scanned, settled>>

Tell(p) ==
  /\ proc[p].pc = "tell"
  /\ LET to == proc[p].node.data.status IN
       told' = IF to # proc[p].from /\ to \in DOMAIN told THEN [told EXCEPT ![to] = @ + 1] ELSE told
  /\ IF proc[p].cmd = "stale" THEN proc' = [proc EXCEPT ![p].pc = "read", ![p].cmd = "rescan"]
     ELSE Done(p)
  /\ UNCHANGED <<log, tip, head, graph, left, scanned, settled>>
-----------------------------------------------------------------------------
(* Commands that anchor the belief.  s is the evidence they are given.     *)
Add(p) ==
  /\ \E s \in Spans :
       /\ Verified(tip[head], s)
       /\ Command(p, [Idle EXCEPT !.pc = "put", !.cmd = "add", !.tip = tip[head],
                      !.node = HumanBelief(NewBelief(tip[head], s))])
  /\ UNCHANGED <<log, tip, head, graph, ghost>>

Propose(p) ==
  /\ \E s \in Spans :
       /\ Verified(tip[head], s)
       /\ Command(p, [Idle EXCEPT !.pc = "put", !.cmd = "propose", !.tip = tip[head],
                      !.node = AgentBelief(NewBelief(tip[head], s))])
  /\ UNCHANGED <<log, tip, head, graph, ghost>>

Reaffirm(p) ==
  /\ Found
  /\ Command(p, [Idle EXCEPT !.pc = "anew", !.cmd = "reaffirm", !.tip = tip[head]])
  /\ UNCHANGED <<log, tip, head, graph, ghost>>

(* An agent may not bless an invalidated belief.                           *)
AgentReaffirm(p) ==
  /\ Found /\ node.data.status # "invalidated"
  /\ Command(p, [Idle EXCEPT !.pc = "anew", !.cmd = "reaffirm", !.tip = tip[head]])
  /\ UNCHANGED <<log, tip, head, graph, ghost>>

(* reaffirm_belief: without evidence the span the belief has is verified   *)
(* against the new tree as it is.                                          *)
Anew(p) ==
  /\ proc[p].pc = "anew"
  /\ \E s \in {node.data.span} \cup Spans :
       IF Verified(proc[p].tip, s)
       THEN proc' = [proc EXCEPT ![p].pc = "save",
                     ![p].node = [node EXCEPT !.data = Reanchored(@, proc[p].tip, s)]]
       ELSE Done(p)
  /\ UNCHANGED <<log, tip, head, graph, left, ghost>>

(* Mutant: save_belief writes the node in the state that was read with it. *)
Save_AsRead(p) ==
  /\ proc[p].pc = "save"
  /\ proc' = [proc EXCEPT ![p].pc = "put"]
  /\ UNCHANGED <<log, tip, head, graph, left, ghost>>

(* save_belief keeps the lifecycle state that the row has now.             *)
Save(p) ==
  /\ proc[p].pc = "save"
  /\ proc' = [proc EXCEPT ![p].pc = "put", ![p].node.state = node.state]
  /\ UNCHANGED <<log, tip, head, graph, left, ghost>>

Put(p) ==
  LET n   == proc[p].node
      cmd == proc[p].cmd
      c   == proc[p].tip
      anchors == cmd \in {"add", "propose", "reaffirm"}
  IN  /\ proc[p].pc = "put"
      /\ node' = n
      /\ CASE cmd \in {"promote", "stale", "rescan", "bisect"} -> AfterScan(p, n)
           [] cmd = "propose" -> Go(p, "side")
           [] cmd = "accept"  -> Go(p, "clear")
           [] cmd \in {"add", "reaffirm"} -> Done(p)
      /\ CASE anchors -> /\ scanned' = c
                         /\ settled' = IF cmd = "reaffirm"
                                       THEN {x \in settled : c \notin Ancestors(x)} ELSE {}
           [] ~anchors /\ cmd # "accept" -> Settle(n.data, c)
           [] cmd = "accept" -> UNCHANGED <<scanned, settled>>
      /\ told' = IF anchors THEN [k \in DOMAIN told |-> 0] ELSE told
      /\ UNCHANGED <<log, tip, head, proposal, left>>

WriteProposal(p) ==
  /\ proc[p].pc = "side"
  /\ proposal' = TRUE /\ Done(p)
  /\ UNCHANGED <<log, tip, head, node, left, ghost>>

(* `graphex accept` writes an agent's node back, with its approver, and    *)
(* only sets the state of another; `graphex reject` sets the state.        *)
Accept(p) ==
  /\ node.state # "none"
  /\ IF node.source = "agent"
     THEN /\ Command(p, [Idle EXCEPT !.pc = "put", !.cmd = "accept",
                         !.node = [node EXCEPT !.state = "active"]])
          /\ UNCHANGED node
     ELSE /\ Command(p, [Idle EXCEPT !.pc = "clear", !.cmd = "accept"])
          /\ node' = [node EXCEPT !.state = "active"]
  /\ UNCHANGED <<log, tip, head, proposal, ghost>>

Reject(p) ==
  /\ node.state # "none"
  /\ Command(p, [Idle EXCEPT !.pc = "clear", !.cmd = "reject"])
  /\ node' = [node EXCEPT !.state = "archived"]
  /\ UNCHANGED <<log, tip, head, proposal, ghost>>

ClearProposal(p) ==
  /\ proc[p].pc = "clear"
  /\ proposal' = FALSE /\ Done(p)
  /\ UNCHANGED <<log, tip, head, node, left, ghost>>

Crash(p) ==
  /\ proc[p].pc # "idle"
  /\ Done(p)
  /\ UNCHANGED <<log, tip, head, graph, left, ghost>>

Steps ==
  \/ FastForward \/ CreateBranch \/ Switch
  \/ \E p \in Procs :
       \/ Promote(p) \/ Stale(p) \/ Bisect(p) \/ List(p) \/ Read(p) \/ Tell(p)
       \/ Add(p) \/ Propose(p) \/ Reaffirm(p) \/ AgentReaffirm(p) \/ Anew(p) \/ Save(p) \/ Put(p)
       \/ WriteProposal(p) \/ Accept(p) \/ Reject(p) \/ ClearProposal(p) \/ Crash(p)

(* What a process goes by: the status a scan compares with, the payload it *)
(* has extended, the state it will write the node with.                    *)
Part(n) == [status |-> n.data.status, data |-> n.data, state |-> n.state]
GoesBy(r) ==
  (IF r.cmd \in {"promote", "stale"} /\ r.pc \in {"read", "save", "put", "tell"} THEN {"status"} ELSE {})
  \cup (IF r.pc \in {"save", "put", "tell"} /\ r.cmd \notin {"add", "propose"} THEN {"data"} ELSE {})
  \cup (IF r.pc = "put" /\ r.cmd \notin {"add", "propose"} THEN {"state"} ELSE {})

(* It is late once another process changes that, until it reads again.     *)
Watch ==
  /\ late' = {x \in Procs \X {"status", "data", "state"} :
       /\ x[2] \in GoesBy(proc'[x[1]])
       /\ x \in late \/ (proc'[x[1]] = proc[x[1]] /\ Part(node')[x[2]] # Part(node)[x[2]])}
  /\ crossed' = (crossed \/ \E x \in late :
       /\ proc'[x[1]] # proc[x[1]]
       /\ IF proc[x[1]].pc = "put" THEN x[2] # "status" /\ node' # node
                                   ELSE proc[x[1]].pc = "tell" /\ told' # told)

Next == Steps /\ Watch

Spec == Init /\ [][Next]_vars
-----------------------------------------------------------------------------
(* The shape of the state.                                                 *)
Belief == [anchor : 0 .. MaxChangesets, span : Nat \X Nat, status : Status,
           culprit : 0 .. MaxChangesets, history : Seq([cs : 1 .. MaxChangesets, to : Status])]
Node   == [state : {"none", "proposed", "active", "archived"}, source : {"human", "agent"}, data : Belief]
TypeOK ==
  /\ Len(log) \in 1 .. MaxChangesets
  /\ \A c \in 2 .. Len(log) : log[c].parent \in 1 .. c - 1 /\ Fits(log[c].ops, Len(log[log[c].parent].lines))
  /\ tip \in [Branches -> 0 .. Len(log)] /\ head \in Branches /\ tip[head] # 0
  /\ node \in Node /\ proposal \in BOOLEAN
  /\ proc \in [Procs -> [pc : {"idle", "list", "read", "tell", "anew", "save", "put", "side", "clear"},
                         cmd : {"none", "promote", "stale", "rescan", "bisect", "add", "propose",
                                "reaffirm", "accept", "reject"},
                         tip : 0 .. MaxChangesets, from : Status, node : Node]]
  /\ left \in 0 .. MaxCommands
  /\ scanned \in 0 .. MaxChangesets /\ settled \subseteq 1 .. Len(log)
  /\ told \in [{"stale", "invalidated"} -> Nat]
  /\ late \subseteq Procs \X {"status", "data", "state"} /\ crossed \in BOOLEAN

(* The changeset a belief names as the one that invalidated it is the first *)
(* after the anchor that broke the lines the evidence names there, however  *)
(* far edits above have moved them (invalidated_by, bisect).                *)
CulpritExact ==
  LET d == node.data
      lines == Named(d.anchor, d.span)
  IN  d.culprit # 0 => /\ d.anchor \in Ancestors(log[d.culprit].parent)
                       /\ Intact(log[d.culprit].parent, lines)
                       /\ ~Intact(d.culprit, lines)

(* What the history tells after an entry at the anchor is verdicts only, and *)
(* none before it is of a changeset below the anchor.  A reaffirmation on an *)
(* older changeset of another branch may end that, and then the status may   *)
(* be the one of the newer anchor; record drops it, besides, when the belief *)
(* was reaffirmed there before.                                              *)
Followed(d) ==
  \E n \in DOMAIN d.history :
     /\ d.history[n].cs = d.anchor
     /\ \A i \in DOMAIN d.history :
          /\ i > n => d.history[i].to \in {"stale", "invalidated"}
          /\ i < n => d.history[i].cs = d.anchor \/ d.anchor \notin Ancestors(d.history[i].cs)

Touched(c) == log[c].kind # "none" \/ (log[c].other /\ "other" \in Scope)

(* What the status claims of the tree at the tip once a scan of the tip has *)
(* been recorded: unless it is invalidated every line of the evidence is    *)
(* still there, and active or reaffirmed means nothing since the anchor     *)
(* touched the scope.  (Of this and the next two: while no process wrote or *)
(* told what it had read before another's write.)                           *)
StatusHonest ==
  LET d == node.data
      t == tip[head]
  IN  node.state # "none" /\ ~crossed /\ scanned = t /\ (\A p \in Procs : proc[p].pc = "idle")
        /\ d.anchor \in Ancestors(t) /\ Followed(d)
      => /\ d.status # "invalidated" => Intact(t, Named(d.anchor, d.span))
         /\ d.status \in {"active", "reaffirmed"} => \A c \in ToSet(ChainAfter(d.anchor, t)) : ~Touched(c)

(* No scan reports one verdict twice between two anchorings (scan_beliefs:  *)
(* "never for a rescan that changes nothing").                              *)
ToldOnce == ~crossed => \A k \in DOMAIN told : told[k] <= 1

(* Writing the node back keeps what others did to it, unless they did so    *)
(* since the process has read it.  An agent's proposal becomes visible to   *)
(* projections only by a person's command: a scan or a reaffirmation keeps  *)
(* the state the row has when it is saved, a rejection since its reading    *)
(* included.  And the history goes on ("Append-only. Never rewritten --     *)
(* time-travel depends on this", belief.rs), or the belief is made anew.    *)
OthersKept ==
  [][~crossed' =>
       /\ node.state \in {"proposed", "archived"} /\ node'.state = "active"
          => \E p \in Procs : proc'[p] # proc[p] /\ {proc[p].cmd, proc'[p].cmd} \cap {"add", "accept"} # {}
       /\ (\E p \in Procs : proc'[p] # proc[p] /\ proc[p].cmd \notin {"add", "propose"})
          => IsPrefix(node.data.history, node'.data.history)]_vars

(* What `belief at` answers for a changeset that a scan has ruled on never  *)
(* changes, until the belief is recorded anew or reaffirmed at or before it.*)
PastIsSettled ==
  [][node' # node /\ ~crossed' => \A c \in settled \cap settled' :
                       StatusAt(node'.data, c) = StatusAt(node.data, c)]_vars

(* What every state keeps besides: the types, and one event a transition.  *)
BeliefInv == TypeOK /\ ToldOnce
=============================================================================
